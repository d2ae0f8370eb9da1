---------------------------- MODULE MCAuthClient ----------------------------
(***************************************************************************)
(* Instances of AuthClient for TLC.                                        *)
(***************************************************************************)
EXTENDS AuthClient

CONSTANTS u1, t1, t2, t3, r1, r2, c1, c2
=============================================================================
