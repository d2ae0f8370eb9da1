--------------------------- MODULE MCClassRoster ---------------------------
(***************************************************************************)
(* Instances of ClassRoster for TLC.                                       *)
(***************************************************************************)
EXTENDS ClassRoster, TLC

CONSTANTS k1, k2, st1, st2, st3, teacher, other, adm1, adm2, r1, r2, r3

MCLower == [key \in Key |-> IF key = "A" THEN "a" ELSE key]

\* One class of the teacher, two students, one of them inactive, and two
\* accounts, none of an admin; the others are not inserted yet.
MCRows ==
    [x \in Entity |->
        CASE x = k1      -> [key |-> "k", owner |-> teacher, name |-> "n", is_active |-> TRUE]
          [] x = st1     -> [key |-> "s", owner |-> NULL, name |-> "n", is_active |-> TRUE]
          [] x = st2     -> [key |-> "t", owner |-> NULL, name |-> "n", is_active |-> FALSE]
          [] x = teacher -> [key |-> "t", owner |-> NULL, name |-> "n", is_active |-> TRUE]
          [] x = other   -> [key |-> "o", owner |-> NULL, name |-> "n", is_active |-> TRUE]
          [] OTHER       -> NULL]

\* Enrollments of one student, two and one student twice, and their opposite;
\* patches of one column and of both; accounts whose address differs in case.
RosterInputs ==
    [op : {"enroll"}, user : {teacher}, classroom : {k1},
     students : {<<st1>>, <<st1, st2>>, <<st1, st1>>}]
    \cup [op : {"unenroll"}, user : {teacher}, classroom : {k1}, student : {st1}]
    \cup [op : {"update"}, user : {other}, id : {st1, st2},
          changes : [is_active : {TRUE, FALSE}]]
    \cup [op : {"update"}, user : {teacher, other}, id : {k1},
          changes : [name : {"m", NULL}] \cup [name : {"n"}, is_active : {TRUE}]]
    \cup [op : {"deactivate"}, user : {teacher}, id : {k1},
          changes : [is_active : {FALSE}]]
    \cup [op : {"create_class"}, user : {teacher}, key : {"c"}, teacher : {NULL}]
    \cup [op : {"create_class"}, user : {adm1}, key : {"c"}, teacher : {adm2, other}]
    \cup [op : {"create_student"}, user : {other}, key : {"c"}]
    \cup [op : {"create_admin"}, key : {"A", "a"}]

ReqSymmetry == Permutations(Req)
=============================================================================
