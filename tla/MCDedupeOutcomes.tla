-------------------------- MODULE MCDedupeOutcomes --------------------------
(***************************************************************************)
(* The instance of DedupeOutcomes for TLC: names for its two students.     *)
(***************************************************************************)
EXTENDS DedupeOutcomes

CONSTANTS st1, st2
=============================================================================
