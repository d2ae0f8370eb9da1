------------------------- MODULE MCSessionPipeline -------------------------
(***************************************************************************)
(* Instances of SessionPipeline for TLC.                                   *)
(***************************************************************************)
EXTENDS SessionPipeline

CONSTANTS st1, st2, s
=============================================================================
