------------------------ MODULE MCAttendanceReview --------------------------
(***************************************************************************)
(* Instances of AttendanceReview for TLC.                                  *)
(***************************************************************************)
EXTENDS AttendanceReview, TLC

CONSTANTS s1, s2, st1, st2, teacher, admin, r1, r2, r3

MCTeacher == [s \in Session |-> teacher]

FaceOf(s, n) == [session |-> s, face |-> n]

\* The owning teacher and an admin review the same session: overrides of one
\* student, assignments of a face to a student, its release, confirmation,
\* and a poll.
ReviewInputs ==
    [op : {"override"}, user : {teacher, admin}, session : {s1},
     student : {st1}, status : {"present", "absent"}]
    \cup [op : {"resolve"}, user : {admin}, session : {s1},
          detection : {FaceOf(s1, 1)}, student : {st1, NULL},
          mark_present : BOOLEAN]
    \cup [op : {"confirm"}, user : {teacher}, session : {s1}]
    \cup [op : {"poll"}, user : {teacher}, session : {s1}]

\* Calls on one session that reach for a face of another one as well.
SerialInputs ==
    [op : {"override"}, user : {teacher}, session : {s1},
     student : {st1}, status : {"present", "absent"}]
    \cup [op : {"resolve"}, user : {teacher}, session : {s1},
          detection : {FaceOf(s1, 1), FaceOf(s2, 1)}, student : {st1, NULL},
          mark_present : {TRUE}]
    \cup [op : {"confirm"}, user : {teacher, admin}, session : {s1}]

\* A poll next to the pipeline.
PollInputs == [op : {"poll"}, user : {teacher}, session : {s1}]

ReqSymmetry == Permutations(Req)
=============================================================================
