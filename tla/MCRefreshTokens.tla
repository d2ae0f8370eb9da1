-------------------------- MODULE MCRefreshTokens ---------------------------
(***************************************************************************)
(* Instances of RefreshTokens for TLC.                                     *)
(***************************************************************************)
EXTENDS RefreshTokens, TLC

CONSTANTS u1, u2, t1, t2, t3, t4, r1, r2, r3

Symmetry == Permutations(Req) \cup Permutations(User) \cup Permutations(Token)
=============================================================================
