-------------------------- MODULE MCFaceEnrollment --------------------------
(***************************************************************************)
(* Instances of FaceEnrollment for TLC.                                    *)
(***************************************************************************)
EXTENDS FaceEnrollment, TLC

CONSTANTS st1, p1, p2, p3, p4, i1, i2, i3, r1, r2

Symmetry == Permutations(Image) \cup Permutations(Req) \cup Permutations(Usable)
=============================================================================
