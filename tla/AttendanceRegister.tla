------------------------- MODULE AttendanceRegister -------------------------
(***************************************************************************)
(* What an attendance session promises the people who use it, without      *)
(* transactions or tasks: a session is opened, ends its processing with a  *)
(* register that has one verdict for every student of a roster or fails    *)
(* with none, the verdicts may be corrected while it is under review, and  *)
(* confirming it makes the register final.                                 *)
(***************************************************************************)
CONSTANTS Session, Student, Verdict

VARIABLES
    phase,      \* of a session
    register    \* its verdicts, by student of the roster

vars == <<phase, register>>

Register == UNION {[R -> Verdict] : R \in SUBSET Student}
Empty    == [x \in {} |-> x]

Init ==
    /\ phase = [s \in Session |-> "none"]
    /\ register = [s \in Session |-> Empty]

Open(s) ==
    /\ phase[s] = "none"
    /\ phase' = [phase EXCEPT ![s] = "processing"]
    /\ UNCHANGED register

Publish(s) ==
    /\ phase[s] = "processing"
    /\ phase' = [phase EXCEPT ![s] = "pending_review"]
    /\ \E verdicts \in Register : register' = [register EXCEPT ![s] = verdicts]

Fail(s) ==
    /\ phase[s] = "processing"
    /\ phase' = [phase EXCEPT ![s] = "failed"]
    /\ UNCHANGED register

\* One verdict of the session is corrected.
Correct(s) ==
    /\ \E st \in DOMAIN register[s], v \in Verdict :
          register' = [register EXCEPT ![s][st] = v]
    /\ UNCHANGED phase

CorrectUnderReview(s) == phase[s] = "pending_review" /\ Correct(s)

Confirm(s) ==
    /\ phase[s] = "pending_review"
    /\ phase' = [phase EXCEPT ![s] = "confirmed"]
    /\ UNCHANGED register

Lifecycle(s) == Open(s) \/ Publish(s) \/ Fail(s) \/ Confirm(s)

\* The promise of the service.
Next == \E s \in Session : Lifecycle(s) \/ CorrectUnderReview(s)
Spec == Init /\ [][Next]_vars

\* What is left of it when calls overlap: a correction may land on a session
\* that was confirmed meanwhile, and on no other.
CorrectWhenOverlapping(s) ==
    phase[s] \in {"pending_review", "confirmed"} /\ Correct(s)

OverlapNext == \E s \in Session : Lifecycle(s) \/ CorrectWhenOverlapping(s)
OverlapSpec == Init /\ [][OverlapNext]_vars
=============================================================================
