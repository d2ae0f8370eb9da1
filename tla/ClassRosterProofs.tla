------------------------- MODULE ClassRosterProofs --------------------------
(***************************************************************************)
(* Keys are unique, and calls that were answered took effect, whatever     *)
(* overlaps.  A call acts on what it has read, so the argument says of     *)
(* each thing that a call in flight has read that it still holds, or that  *)
(* a call in since made it false.  A call in since has begun, so its       *)
(* arguments stay, and since grows until the call is over.  No call undoes *)
(* the ownership that another one's guard has read.                        *)
(***************************************************************************)
EXTENDS ClassRoster, TLAPS

\* Taken and EnrolledIn, of any rows.
Held(rs, T, key)  == \E x \in T : rs[x] # NULL /\ rs[x].key = key
OnRoster(es, k, st) == \E e \in es : e.classroom = k /\ e.student = st

\* The stage of a call fits its kind, and what it has loaded is there.
CallsFit ==
    \A r \in Req :
        /\ pc[r] # "idle" => call[r] \in Call
        /\ pc[r] = "read" => call[r] \in EnrollCall
        /\ pc[r] = "saved" => call[r] \in Update \cup EnrollCall
        /\ pc[r] \in {"checked", "saved"} /\ call[r] \in Update \cup Deactivation =>
              rows[call[r].id] # NULL /\ seen[r].row # NULL
        /\ pc[r] = "checked" /\ call[r] \in UnenrollCall =>
              /\ seen[r].enrollment # NULL
              /\ seen[r].enrollment.classroom = call[r].classroom
              /\ seen[r].enrollment.student = call[r].student
        /\ \A q \in since[r] : pc[q] # "idle"

\* Addresses are stored in lower case.
AddressesAreLower ==
    \A u \in User : rows[u] # NULL => Lower[rows[u].key] = rows[u].key

SameKey(c, d) == /\ d \in Creation
                 /\ Table(d) = Table(c)
                 /\ KeyOf(d) = KeyOf(c)

\* The key that a creation found free is free.
KeysWereFree ==
    \A r \in Req :
        pc[r] = "checked" /\ call[r] \in Creation
            /\ Held(rows, Table(call[r]), KeyOf(call[r])) =>
                \E q \in since[r] : SameKey(call[r], call[q])

\* The roster a bulk enrollment has read is the roster.
RostersWereRead ==
    \A r \in Req : pc[r] = "read" =>
        \A st \in Student :
            /\ OnRoster(enrollments, call[r].classroom, st) /\ st \notin seen[r].already =>
                  \E q \in since[r] : Enrolls(call[q], call[r].classroom, st)
            /\ st \in seen[r].already /\ ~OnRoster(enrollments, call[r].classroom, st) =>
                  \E q \in since[r] : Unenrolls(call[q], call[r].classroom, st)

\* The students of an enrollment that has committed are on the roster.
ListedAreEnrolled ==
    \A r \in Req : pc[r] = "saved" /\ call[r] \in EnrollCall =>
        \A st \in Listed(call[r]) :
            \/ OnRoster(enrollments, call[r].classroom, st)
            \/ \E q \in since[r] : Unenrolls(call[q], call[r].classroom, st)

\* The students an enrollment has checked are there and active.
ListedWereActive ==
    \A r \in Req : pc[r] \in {"checked", "read"} /\ call[r] \in EnrollCall =>
        \A st \in Listed(call[r]) :
            /\ rows[st] # NULL
            /\ \/ rows[st].is_active
               \/ \E q \in since[r] : Sets(call[q], st, "is_active")

\* The columns an update will set are as it has loaded them.
ColumnsWereLoaded ==
    \A r \in Req : pc[r] = "checked" /\ call[r] \in Update =>
        \A field \in DOMAIN call[r].changes :
            \/ rows[call[r].id][field] = seen[r].row[field]
            \/ \E q \in since[r] : Sets(call[q], call[r].id, field)

\* The columns an update has set are as it asked for.
ColumnsWereSet ==
    \A r \in Req : pc[r] = "saved" /\ call[r] \in Update =>
        \A field \in DOMAIN call[r].changes :
            \/ rows[call[r].id][field] = call[r].changes[field]
            \/ \E q \in since[r] : Sets(call[q], call[r].id, field)

\* The enrollment that a removal has found is the student's only one.
EnrollmentWasFound ==
    \A r \in Req : pc[r] = "checked" /\ call[r] \in UnenrollCall =>
        \A e \in enrollments :
            e.classroom = call[r].classroom /\ e.student = call[r].student =>
                \/ e = seen[r].enrollment
                \/ \E q \in since[r] :
                      Enrolls(call[q], call[r].classroom, call[r].student)

IInv ==
    /\ TypeOK
    /\ CallsFit
    /\ AddressesAreLower
    /\ KeysAreUnique
    /\ KeysWereFree
    /\ RostersWereRead
    /\ ListedAreEnrolled
    /\ ListedWereActive
    /\ ColumnsWereLoaded
    /\ ColumnsWereSet
    /\ EnrollmentWasFound
    /\ FailuresHaveReasons

-----------------------------------------------------------------------------
(* Calls and their kinds.                                                  *)

LEMMA CallKinds ==
  ASSUME NEW c \in Call
  PROVE  /\ c \in Creation <=> c.op \in {"create_class", "create_student", "create_admin"}
         /\ c \in Update <=> c.op = "update"
         /\ c \in Deactivation <=> c.op = "deactivate"
         /\ c \in EnrollCall <=> c.op = "enroll"
         /\ c \in UnenrollCall <=> c.op = "unenroll"
  BY DEF Call, Creation, ClassCreation, StudentCreation, AdminCreation, Update,
         Deactivation, EnrollCall, UnenrollCall

LEMMA PatchTypes ==
  ASSUME NEW c \in Update \cup Deactivation
  PROVE  /\ c.id \in Classroom \cup Student /\ c.id \in Entity
         /\ c.changes \in Changes
  BY DEF Update, Deactivation, Changes, Entity

LEMMA EnrollTypes ==
  ASSUME NEW c \in EnrollCall
  PROVE  /\ c.classroom \in Classroom
         /\ DOMAIN c.students \subseteq Nat
         /\ \A i \in DOMAIN c.students : c.students[i] \in Student
         /\ Listed(c) \subseteq Student
  BY DEF EnrollCall, Listed

LEMMA UnenrollTypes ==
  ASSUME NEW c \in UnenrollCall
  PROVE  c.classroom \in Classroom /\ c.student \in Student
  BY DEF UnenrollCall

LEMMA CreationTypes ==
  ASSUME NEW c \in Creation
  PROVE  /\ Table(c) \in Tables /\ Table(c) \subseteq Entity
         /\ KeyOf(c) \in Key /\ OwnerOf(c) \in User \cup {NULL}
         /\ Table(c) = User /\ Table(c) # {} => Lower[KeyOf(c)] = KeyOf(c)
<1>1. c.op \in {"create_class", "create_student", "create_admin"} /\ c.key \in Key
  BY DEF Creation, ClassCreation, StudentCreation, AdminCreation
<1>2. c.op = "create_class" => c.user \in User /\ c.teacher \in User \cup {NULL}
  BY DEF Creation, ClassCreation, StudentCreation, AdminCreation
<1>3. Table(c) \in Tables /\ Table(c) \subseteq Entity
  BY <1>1 DEF Table, Tables, Entity
<1>4. KeyOf(c) \in Key
  BY <1>1, RosterConstants DEF RosterAssumption, KeyOf
<1>5. OwnerOf(c) \in User \cup {NULL}
  BY <1>1, <1>2 DEF OwnerOf, Assigned
<1>6. ASSUME Table(c) = User, Table(c) # {}
      PROVE  Lower[KeyOf(c)] = KeyOf(c)
  <2>1. c.op = "create_admin"
    BY <1>1, <1>6, RosterConstants DEF RosterAssumption, Table
  <2> QED
    BY <2>1, <1>1, RosterConstants DEF RosterAssumption, KeyOf
<1> QED
  BY <1>3, <1>4, <1>5, <1>6

LEMMA TablesAreDisjoint ==
  ASSUME NEW T \in Tables, NEW U \in Tables, NEW x, x \in T, x \in U
  PROVE  T = U
  BY RosterConstants DEF RosterAssumption, Tables

LEMMA InitIsFine == Init => IInv
<1> SUFFICES ASSUME Init PROVE IInv
  OBVIOUS
<1>1. TypeOK
  BY RosterConstants DEF RosterAssumption, Init, TypeOK, Reads, Nothing
<1>2. AddressesAreLower /\ KeysAreUnique
  BY RosterConstants
  DEF RosterAssumption, Init, AddressesAreLower, KeysAreUnique, UniqueKeys, Tables
<1>3. CallsFit /\ KeysWereFree /\ RostersWereRead /\ ListedAreEnrolled
  BY DEF Init, CallsFit, KeysWereFree, RostersWereRead, ListedAreEnrolled
<1>4. ListedWereActive /\ ColumnsWereLoaded /\ ColumnsWereSet
  BY DEF Init, ListedWereActive, ColumnsWereLoaded, ColumnsWereSet
<1>5. EnrollmentWasFound /\ FailuresHaveReasons
  BY DEF Init, EnrollmentWasFound, FailuresHaveReasons
<1> QED
  BY <1>1, <1>2, <1>3, <1>4, <1>5 DEF IInv

-----------------------------------------------------------------------------
(* Steps that write no row.                                                *)

\* What a call that starts has found.
LEMMA Begun ==
  ASSUME IInv, NEW r \in Req, NEW c \in Call, Start(r, c)
  PROVE  /\ pc[r] = "idle"
         /\ call' = [call EXCEPT ![r] = c]
         /\ pc' = [pc EXCEPT ![r] = pc'[r]] /\ pc'[r] \in {"checked", "refused"}
         /\ seen' = [seen EXCEPT ![r] = seen'[r]] /\ seen'[r] \in Reads
         /\ rows' = rows /\ enrollments' = enrollments /\ since' = since
         /\ pc'[r] = "checked" =>
              /\ c \in Creation => ~Taken(Table(c), KeyOf(c))
              /\ c \in Update \cup Deactivation =>
                    rows[c.id] # NULL /\ seen'[r].row = rows[c.id]
              /\ c \in EnrollCall => Enrollable(c)
              /\ c \in UnenrollCall =>
                    /\ seen'[r].enrollment \in enrollments
                    /\ seen'[r].enrollment.classroom = c.classroom
                    /\ seen'[r].enrollment.student = c.student
<1> USE DEF IInv
<1>1. CASE CheckFree(r, c)
  <2>1. PICK stage \in {"checked", "refused"} :
            /\ Begin(r, c, Nothing, stage)
            /\ stage = "checked" => ~Taken(Table(c), KeyOf(c))
    BY <1>1 DEF CheckFree
  <2>2. c \notin Update \cup Deactivation /\ c \notin EnrollCall /\ c \notin UnenrollCall
    BY <1>1, CallKinds DEF CheckFree
  <2> QED
    BY <2>1, <2>2 DEF TypeOK, Begin, Nothing, Reads, dbVars
<1>2. CASE Load(r, c)
  <2>0. c \notin Creation /\ c \notin EnrollCall /\ c \notin UnenrollCall
    BY <1>2, CallKinds DEF Load
  <2>1. PICK stage \in {"checked", "refused"} :
            /\ Begin(r, c, [Nothing EXCEPT !.row = rows[c.id]], stage)
            /\ stage = "checked" => rows[c.id] # NULL
    BY <1>2 DEF Load
  <2>2. rows[c.id] \in Row \cup {NULL}
    BY <1>2, PatchTypes DEF TypeOK, Load
  <2>3. /\ [Nothing EXCEPT !.row = rows[c.id]] \in Reads
        /\ [Nothing EXCEPT !.row = rows[c.id]].row = rows[c.id]
    BY <2>2 DEF Nothing, Reads
  <2> QED
    BY <2>0, <2>1, <2>3 DEF TypeOK, Begin, dbVars
<1>3. CASE CheckStudents(r, c)
  <2>1. PICK stage \in {"checked", "refused"} :
            Begin(r, c, Nothing, stage) /\ (stage = "checked" => Enrollable(c))
    BY <1>3 DEF CheckStudents
  <2>2. c \notin Update \cup Deactivation /\ c \notin Creation /\ c \notin UnenrollCall
    BY <1>3, CallKinds DEF CheckStudents
  <2> QED
    BY <2>1, <2>2 DEF TypeOK, Begin, Nothing, Reads, dbVars
<1>4. CASE FindEnrollment(r, c)
  <2>0. c \notin Update \cup Deactivation /\ c \notin Creation /\ c \notin EnrollCall
    BY <1>4, CallKinds DEF FindEnrollment
  <2>1. CASE Begin(r, c, Nothing, "refused")
    BY <2>0, <2>1 DEF TypeOK, Begin, Nothing, Reads, dbVars
  <2>2. CASE \E e \in enrollments :
                /\ e.classroom = c.classroom /\ e.student = c.student
                /\ Begin(r, c, [Nothing EXCEPT !.enrollment = e], "checked")
    <3>1. PICK e \in enrollments :
                /\ e.classroom = c.classroom /\ e.student = c.student
                /\ Begin(r, c, [Nothing EXCEPT !.enrollment = e], "checked")
      BY <2>2
    <3>2. /\ [Nothing EXCEPT !.enrollment = e] \in Reads
          /\ [Nothing EXCEPT !.enrollment = e].enrollment = e
      BY DEF TypeOK, Nothing, Reads
    <3> QED
      BY <2>0, <3>1, <3>2 DEF TypeOK, Begin, dbVars
  <2> QED
    BY <1>4, <2>1, <2>2 DEF FindEnrollment
<1> QED
  BY <1>1, <1>2, <1>3, <1>4 DEF Start

LEMMA StartKeeps ==
  ASSUME IInv, NEW r \in Req, NEW c \in Call, Start(r, c)
  PROVE  IInv'
<1>1. /\ pc[r] = "idle"
      /\ call' = [call EXCEPT ![r] = c]
      /\ pc' = [pc EXCEPT ![r] = pc'[r]] /\ pc'[r] \in {"checked", "refused"}
      /\ seen' = [seen EXCEPT ![r] = seen'[r]] /\ seen'[r] \in Reads
      /\ rows' = rows /\ enrollments' = enrollments /\ since' = since
  BY Begun
<1>2. pc'[r] = "checked" =>
        /\ c \in Creation => ~Taken(Table(c), KeyOf(c))
        /\ c \in Update \cup Deactivation =>
              rows[c.id] # NULL /\ seen'[r].row = rows[c.id]
        /\ c \in EnrollCall => Enrollable(c)
        /\ c \in UnenrollCall =>
              /\ seen'[r].enrollment \in enrollments
              /\ seen'[r].enrollment.classroom = c.classroom
              /\ seen'[r].enrollment.student = c.student
  BY Begun
<1>3. TypeOK'
  BY <1>1 DEF IInv, TypeOK
<1>4. \A p \in Req \ {r} : pc'[p] = pc[p] /\ call'[p] = call[p] /\ seen'[p] = seen[p]
  BY <1>1 DEF IInv, TypeOK
<1>5. call'[r] = c /\ \A p, q \in Req : q \in since'[p] => q # r
  BY <1>1 DEF IInv, TypeOK, CallsFit
<1>6. \A p, q \in Req : q \in since'[p] <=> q \in since[p]
  BY <1>1
<1>7. \A p \in Req : since'[p] \subseteq Req
  BY <1>3 DEF TypeOK
<1>8. NULL \notin Enrollment
  BY RosterConstants DEF RosterAssumption
<1>9. CallsFit'
  <2> SUFFICES ASSUME NEW p \in Req
               PROVE  /\ pc'[p] # "idle" => call'[p] \in Call
                      /\ pc'[p] = "read" => call'[p] \in EnrollCall
                      /\ pc'[p] = "saved" => call'[p] \in Update \cup EnrollCall
                      /\ pc'[p] \in {"checked", "saved"}
                            /\ call'[p] \in Update \cup Deactivation =>
                            rows'[call'[p].id] # NULL /\ seen'[p].row # NULL
                      /\ pc'[p] = "checked" /\ call'[p] \in UnenrollCall =>
                            /\ seen'[p].enrollment # NULL
                            /\ seen'[p].enrollment.classroom = call'[p].classroom
                            /\ seen'[p].enrollment.student = call'[p].student
                      /\ \A q \in since'[p] : pc'[q] # "idle"
    BY DEF CallsFit
  <2>1. \A q \in since'[p] : pc'[q] # "idle"
    BY <1>1, <1>4, <1>5, <1>6, <1>7 DEF IInv, CallsFit
  <2>2. CASE p = r
    BY <1>1, <1>2, <1>5, <1>8, <2>1, <2>2 DEF IInv, TypeOK
  <2>3. CASE p # r
    BY <1>1, <1>4, <2>1, <2>3 DEF IInv, CallsFit
  <2> QED
    BY <2>2, <2>3
<1>10. AddressesAreLower' /\ KeysAreUnique'
  BY <1>1 DEF IInv, AddressesAreLower, KeysAreUnique, UniqueKeys
<1>11. KeysWereFree'
  <2> SUFFICES ASSUME NEW p \in Req, pc'[p] = "checked", call'[p] \in Creation,
                      Held(rows', Table(call'[p]), KeyOf(call'[p]))
               PROVE  \E q \in since'[p] : SameKey(call'[p], call'[q])
    BY DEF KeysWereFree
  <2>2. p # r
    BY <1>1, <1>2, <1>5 DEF Held, Taken
  <2>3. PICK q \in since[p] : SameKey(call[p], call[q])
    BY <1>1, <1>4, <2>2 DEF IInv, KeysWereFree
  <2>4. q \in Req \ {r} /\ q \in since'[p]
    BY <1>1, <1>5, <1>7, <2>3
  <2>5. call'[p] = call[p] /\ call'[q] = call[q]
    BY <1>4, <2>2, <2>4
  <2> QED
    BY <2>3, <2>4, <2>5
<1>12. RostersWereRead' /\ ListedAreEnrolled'
  <2>2. RostersWereRead'
    <3> SUFFICES ASSUME NEW p \in Req, pc'[p] = "read", NEW st \in Student
                 PROVE  /\ OnRoster(enrollments', call'[p].classroom, st) /\ st \notin seen'[p].already =>
                            \E q \in since'[p] : Enrolls(call'[q], call'[p].classroom, st)
                        /\ st \in seen'[p].already /\ ~OnRoster(enrollments', call'[p].classroom, st) =>
                            \E q \in since'[p] : Unenrolls(call'[q], call'[p].classroom, st)
      BY DEF RostersWereRead
    <3>1. p # r
      BY <1>1
    <3> QED
      BY <1>1, <1>4, <1>5, <1>6, <1>7, <3>1 DEF IInv, RostersWereRead
  <2>3. ListedAreEnrolled'
    <3> SUFFICES ASSUME NEW p \in Req, pc'[p] = "saved", call'[p] \in EnrollCall,
                        NEW st \in Listed(call'[p])
                 PROVE  \/ OnRoster(enrollments', call'[p].classroom, st)
                        \/ \E q \in since'[p] : Unenrolls(call'[q], call'[p].classroom, st)
      BY DEF ListedAreEnrolled
    <3>1. p # r
      BY <1>1
    <3> QED
      BY <1>1, <1>4, <1>5, <1>6, <1>7, <3>1 DEF IInv, ListedAreEnrolled
  <2> QED
    BY <2>2, <2>3
<1>13. ListedWereActive'
  <2> SUFFICES ASSUME NEW p \in Req, pc'[p] \in {"checked", "read"},
                      call'[p] \in EnrollCall, NEW st \in Listed(call'[p])
               PROVE  /\ rows'[st] # NULL
                      /\ \/ rows'[st].is_active
                         \/ \E q \in since'[p] : Sets(call'[q], st, "is_active")
    BY DEF ListedWereActive
  <2>1. CASE p = r
    BY <1>1, <1>2, <1>5, <2>1 DEF Enrollable
  <2>2. CASE p # r
    BY <1>1, <1>4, <1>5, <1>6, <1>7, <2>2 DEF IInv, ListedWereActive
  <2> QED
    BY <2>1, <2>2
<1>14. ColumnsWereLoaded'
  <2> SUFFICES ASSUME NEW p \in Req, pc'[p] = "checked", call'[p] \in Update,
                      NEW field \in DOMAIN call'[p].changes
               PROVE  \/ rows'[call'[p].id][field] = seen'[p].row[field]
                      \/ \E q \in since'[p] : Sets(call'[q], call'[p].id, field)
    BY DEF ColumnsWereLoaded
  <2>1. CASE p = r
    BY <1>1, <1>2, <1>5, <2>1
  <2>2. CASE p # r
    BY <1>1, <1>4, <1>5, <1>6, <1>7, <2>2 DEF IInv, ColumnsWereLoaded
  <2> QED
    BY <2>1, <2>2
<1>15. ColumnsWereSet'
  <2> SUFFICES ASSUME NEW p \in Req, pc'[p] = "saved", call'[p] \in Update,
                      NEW field \in DOMAIN call'[p].changes
               PROVE  \/ rows'[call'[p].id][field] = call'[p].changes[field]
                      \/ \E q \in since'[p] : Sets(call'[q], call'[p].id, field)
    BY DEF ColumnsWereSet
  <2>1. p # r
    BY <1>1
  <2> QED
    BY <1>1, <1>4, <1>5, <1>6, <1>7, <2>1 DEF IInv, ColumnsWereSet
<1>16. EnrollmentWasFound'
  <2> SUFFICES ASSUME NEW p \in Req, pc'[p] = "checked", call'[p] \in UnenrollCall,
                      NEW e \in enrollments', e.classroom = call'[p].classroom,
                      e.student = call'[p].student
               PROVE  \/ e = seen'[p].enrollment
                      \/ \E q \in since'[p] :
                            Enrolls(call'[q], call'[p].classroom, call'[p].student)
    BY DEF EnrollmentWasFound
  <2>1. CASE p = r
    BY <1>1, <1>2, <1>5, <2>1 DEF IInv, KeysAreUnique
  <2>2. CASE p # r
    BY <1>1, <1>4, <1>5, <1>6, <1>7, <2>2 DEF IInv, EnrollmentWasFound
  <2> QED
    BY <2>1, <2>2
<1>17. FailuresHaveReasons'
  <2> SUFFICES ASSUME NEW p \in Req, pc'[p] = "failed"
               PROVE  LET c2 == call'[p]
                      IN  \/ /\ c2 \in Creation
                             /\ \E q \in since'[p] : /\ call'[q] \in Creation
                                                     /\ Table(call'[q]) = Table(c2)
                                                     /\ KeyOf(call'[q]) = KeyOf(c2)
                          \/ c2 \in Update /\ \E f \in DOMAIN c2.changes : c2.changes[f] = NULL
                          \/ c2 \in EnrollCall /\ Repeats(c2)
                          \/ c2 \in EnrollCall /\ \E q \in since'[p], st \in Listed(c2) :
                                                     Enrolls(call'[q], c2.classroom, st)
    BY DEF FailuresHaveReasons
  <2>1. p # r
    BY <1>1
  <2> QED
    BY <1>1, <1>4, <1>5, <1>6, <1>7, <2>1 DEF IInv, FailuresHaveReasons
<1> QED
  BY <1>3, <1>9, <1>10, <1>11, <1>12, <1>13, <1>14, <1>15, <1>16, <1>17 DEF IInv

\* Why a call may fail.
Reason(r) ==
    LET c == call[r]
    IN  \/ c \in Creation /\ \E q \in since[r] : SameKey(c, call[q])
        \/ c \in Update /\ \E f \in DOMAIN c.changes : c.changes[f] = NULL
        \/ c \in EnrollCall /\ Repeats(c)
        \/ c \in EnrollCall /\ \E q \in since[r], st \in Listed(c) :
                                   Enrolls(call[q], c.classroom, st)

LEMMA ReasonsAreThese == FailuresHaveReasons <=> \A r \in Req : pc[r] = "failed" => Reason(r)
  BY DEF FailuresHaveReasons, Reason, SameKey

\* A call that ends without writing.
LEMMA EndKeeps ==
  ASSUME IInv, NEW r \in Req, NEW stage \in {"ok", "refused", "failed", "gone"},
         pc[r] # "idle", Goto(r, stage), UNCHANGED <<dbVars, since>>,
         stage = "failed" => Reason(r)
  PROVE  IInv'
<1>1. /\ pc' = [pc EXCEPT ![r] = stage] /\ call' = call /\ seen' = seen
      /\ rows' = rows /\ enrollments' = enrollments /\ since' = since
  BY DEF Goto, dbVars
<1>2. pc'[r] = stage /\ \A p \in Req \ {r} : pc'[p] = pc[p]
  BY <1>1 DEF IInv, TypeOK
<1>3. TypeOK'
  BY <1>1 DEF IInv, TypeOK
<1>4. CallsFit'
  BY <1>1, <1>2, <1>3 DEF IInv, TypeOK, CallsFit
<1>5. AddressesAreLower' /\ KeysAreUnique'
  BY <1>1 DEF IInv, AddressesAreLower, KeysAreUnique, UniqueKeys
<1>6. KeysWereFree'
  BY <1>1, <1>2 DEF IInv, KeysWereFree
<1>7. RostersWereRead' /\ ListedAreEnrolled'
  BY <1>1, <1>2 DEF IInv, RostersWereRead, ListedAreEnrolled
<1>8. ListedWereActive'
  BY <1>1, <1>2 DEF IInv, ListedWereActive
<1>9. ColumnsWereLoaded' /\ ColumnsWereSet'
  BY <1>1, <1>2 DEF IInv, ColumnsWereLoaded, ColumnsWereSet
<1>10. EnrollmentWasFound'
  BY <1>1, <1>2 DEF IInv, EnrollmentWasFound
<1>11. FailuresHaveReasons'
  <2>1. \A p \in Req : pc'[p] = "failed" => Reason(p)
    BY <1>2, ReasonsAreThese DEF IInv
  <2>2. \A p \in Req : Reason(p) => Reason(p)'
    BY <1>1 DEF Reason
  <2> QED
    BY <2>1, <2>2 DEF FailuresHaveReasons, Reason, SameKey
<1> QED
  BY <1>3, <1>4, <1>5, <1>6, <1>7, <1>8, <1>9, <1>10, <1>11 DEF IInv

LEMMA ReadKeeps ==
  ASSUME IInv, NEW r \in Req, ReadRoster(r)
  PROVE  IInv'
<1> DEFINE k == call[r].classroom
<1>1. /\ pc[r] = "checked" /\ call[r] \in EnrollCall
      /\ pc' = [pc EXCEPT ![r] = "read"] /\ call' = call
      /\ seen' = [seen EXCEPT ![r].already = EnrolledIn(k)]
      /\ rows' = rows /\ enrollments' = enrollments /\ since' = since
  BY DEF ReadRoster, dbVars
<1>2. /\ pc'[r] = "read" /\ \A p \in Req \ {r} : pc'[p] = pc[p] /\ seen'[p] = seen[p]
      /\ seen'[r].already = EnrolledIn(k)
  BY <1>1 DEF IInv, TypeOK, Reads
<1>3. \A st : st \in EnrolledIn(k) <=> OnRoster(enrollments, k, st)
  BY DEF EnrolledIn, OnRoster
<1>4. call[r] \notin Creation /\ call[r] \notin Update \cup Deactivation /\ call[r] \notin UnenrollCall
  BY <1>1, CallKinds DEF Call
<1>5. TypeOK'
  <2>1. EnrolledIn(k) \subseteq Student
    BY DEF IInv, TypeOK, EnrolledIn, Enrollment
  <2>2. seen' \in [Req -> Reads]
    BY <1>1, <2>1 DEF IInv, TypeOK, Reads
  <2> QED
    BY <1>1, <2>2 DEF IInv, TypeOK
<1>6. CallsFit'
  BY <1>1, <1>2, <1>4, <1>5 DEF IInv, TypeOK, CallsFit
<1>7. AddressesAreLower' /\ KeysAreUnique'
  BY <1>1 DEF IInv, AddressesAreLower, KeysAreUnique, UniqueKeys
<1>8. KeysWereFree'
  BY <1>1, <1>2 DEF IInv, KeysWereFree
<1>9. RostersWereRead' /\ ListedAreEnrolled'
  BY <1>1, <1>2, <1>3 DEF IInv, RostersWereRead, ListedAreEnrolled
<1>10. ListedWereActive'
  BY <1>1, <1>2 DEF IInv, ListedWereActive
<1>11. ColumnsWereLoaded' /\ ColumnsWereSet'
  BY <1>1, <1>2 DEF IInv, ColumnsWereLoaded, ColumnsWereSet
<1>12. EnrollmentWasFound'
  BY <1>1, <1>2 DEF IInv, EnrollmentWasFound
<1>13. FailuresHaveReasons'
  BY <1>1, <1>2 DEF IInv, FailuresHaveReasons
<1> QED
  BY <1>5, <1>6, <1>7, <1>8, <1>9, <1>10, <1>11, <1>12, <1>13 DEF IInv

-----------------------------------------------------------------------------
(* Steps that commit.                                                      *)

LEMMA Told ==
  ASSUME IInv, NEW r \in Req, NEW stage \in {"saved", "ok"}, Commits(r, stage),
         pc[r] # "idle"
  PROVE  /\ call' = call /\ seen' = seen /\ pc' = [pc EXCEPT ![r] = stage]
         /\ pc'[r] = stage /\ \A p \in Req \ {r} : pc'[p] = pc[p]
         /\ since' \in [Req -> SUBSET Req]
         /\ \A p \in Req : since[p] \subseteq since'[p] /\ since'[p] \subseteq since[p] \cup {r}
         /\ \A p \in Req \ {r} : pc[p] \in {"checked", "read", "saved"} => r \in since'[p]
         /\ FailuresHaveReasons'
<1>1. /\ call' = call /\ seen' = seen /\ pc' = [pc EXCEPT ![r] = stage]
      /\ since' = [q \in Req |-> IF q # r /\ InFlight(q)
                                 THEN since[q] \cup {r} ELSE since[q]]
  BY DEF Commits, Goto
<1>2. pc'[r] = stage /\ \A p \in Req \ {r} : pc'[p] = pc[p]
  BY <1>1 DEF IInv, TypeOK
<1>3. since' \in [Req -> SUBSET Req]
  BY <1>1 DEF IInv, TypeOK
<1>4. \A p \in Req : since[p] \subseteq since'[p] /\ since'[p] \subseteq since[p] \cup {r}
  BY <1>1
<1>5. \A p \in Req \ {r} : pc[p] \in {"checked", "read", "saved"} => r \in since'[p]
  BY <1>1 DEF InFlight
<1>6. FailuresHaveReasons'
  <2>1. \A p \in Req : pc'[p] = "failed" => Reason(p)
    BY <1>2, ReasonsAreThese DEF IInv
  <2>2. \A p \in Req : Reason(p) => Reason(p)'
    BY <1>1, <1>4 DEF Reason
  <2> QED
    BY <2>1, <2>2 DEF FailuresHaveReasons, Reason, SameKey
<1> QED
  BY <1>1, <1>2, <1>3, <1>4, <1>5, <1>6

\* A creation that inserts its row.
LEMMA InsertKeeps ==
  ASSUME IInv, NEW r \in Req, pc[r] = "checked", call[r] \in Creation,
         ~Taken(Table(call[r]), KeyOf(call[r])),
         NEW x \in Table(call[r]), NEW name \in Name, rows[x] = NULL,
         rows' = [rows EXCEPT ![x] =
                     [key |-> KeyOf(call[r]), owner |-> OwnerOf(call[r]),
                      name |-> name, is_active |-> TRUE]],
         Commits(r, "ok"), enrollments' = enrollments
  PROVE  IInv'
<1> DEFINE c == call[r]
<1> DEFINE row == [key |-> KeyOf(c), owner |-> OwnerOf(c), name |-> name, is_active |-> TRUE]
<1>1. /\ call' = call /\ seen' = seen /\ pc' = [pc EXCEPT ![r] = "ok"]
      /\ pc'[r] = "ok" /\ \A p \in Req \ {r} : pc'[p] = pc[p]
      /\ since' \in [Req -> SUBSET Req]
      /\ \A p \in Req : since[p] \subseteq since'[p] /\ since'[p] \subseteq since[p] \cup {r}
      /\ \A p \in Req \ {r} : pc[p] \in {"checked", "read", "saved"} => r \in since'[p]
      /\ FailuresHaveReasons'
  BY Told
<1>2. /\ Table(c) \in Tables /\ Table(c) \subseteq Entity /\ KeyOf(c) \in Key
      /\ Table(c) = User => Lower[KeyOf(c)] = KeyOf(c)
  BY CreationTypes
<1>3. row \in Row /\ row # NULL /\ row.key = KeyOf(c)
  <2>1. KeyOf(c) \in Key /\ OwnerOf(c) \in User \cup {NULL}
    BY CreationTypes
  <2>2. row \in Row
    BY <2>1 DEF Row
  <2> QED
    BY <2>2, RosterConstants DEF RosterAssumption
<1>4. /\ x \in Entity /\ rows'[x] = row /\ rows' \in [Entity -> Row \cup {NULL}]
      /\ \A y \in Entity \ {x} : rows'[y] = rows[y]
  BY <1>2, <1>3 DEF IInv, TypeOK
<1>5. \A y \in Entity : rows[y] # NULL => rows'[y] = rows[y]
  BY <1>4
<1>6. TypeOK'
  BY <1>1, <1>4 DEF IInv, TypeOK
<1>7. CallsFit'
  <2>1. \A p \in Req : pc'[p] # "idle" => pc[p] # "idle"
    BY <1>1
  <2>2. \A p \in Req : \A q \in since'[p] : pc'[q] # "idle"
    BY <1>1 DEF IInv, TypeOK, CallsFit
  <2>3. \A p \in Req : call[p] \in Update \cup Deactivation => call[p].id \in Entity
    BY PatchTypes
  <2> QED
    BY <1>1, <1>5, <2>1, <2>2, <2>3 DEF IInv, CallsFit
<1>8. AddressesAreLower'
  <2> SUFFICES ASSUME NEW u \in User, rows'[u] # NULL
               PROVE  Lower[rows'[u].key] = rows'[u].key
    BY DEF AddressesAreLower
  <2>1. CASE u = x
    BY <1>2, <1>3, <1>4, <2>1, TablesAreDisjoint DEF Tables
  <2>2. CASE u # x
    BY <1>4, <2>2 DEF IInv, AddressesAreLower, Entity
  <2> QED
    BY <2>1, <2>2
<1>9. KeysAreUnique'
  <2>1. ASSUME NEW T \in Tables, NEW y \in T, NEW z \in T, rows'[y] # NULL, rows'[z] # NULL,
               rows'[y].key = rows'[z].key
        PROVE  y = z
    <3>1. y \in Entity /\ z \in Entity
      BY <2>1 DEF Tables, Entity
    <3>2. CASE y # x /\ z # x
      BY <1>4, <2>1, <3>1, <3>2 DEF IInv, KeysAreUnique, UniqueKeys
    <3>3. ASSUME NEW v \in T, v # x, rows'[v] # NULL, rows'[v].key = KeyOf(c), x \in T
          PROVE  FALSE
      <4>1. T = Table(c)
        BY <1>2, <2>1, <3>3, TablesAreDisjoint
      <4>2. rows[v] # NULL /\ rows[v].key = KeyOf(c)
        BY <1>2, <1>4, <3>3, <4>1
      <4> QED
        BY <3>3, <4>1, <4>2 DEF Taken
    <3> QED
      BY <1>3, <1>4, <2>1, <3>2, <3>3
  <2>2. ASSUME NEW u \in User, NEW v \in User, rows'[u] # NULL, rows'[v] # NULL,
               Lower[rows'[u].key] = Lower[rows'[v].key]
        PROVE  u = v
    BY <1>8, <2>1, <2>2 DEF AddressesAreLower, Tables
  <2> QED
    BY <2>1, <2>2 DEF IInv, KeysAreUnique, UniqueKeys
<1>10. KeysWereFree'
  <2> SUFFICES ASSUME NEW p \in Req, pc'[p] = "checked", call[p] \in Creation,
                      Held(rows', Table(call[p]), KeyOf(call[p]))
               PROVE  \E q \in since'[p] : SameKey(call[p], call[q])
    BY <1>1 DEF KeysWereFree
  <2>1. p # r /\ pc[p] = "checked" /\ r \in since'[p]
    BY <1>1
  <2>2. CASE Held(rows, Table(call[p]), KeyOf(call[p]))
    BY <1>1, <2>1, <2>2 DEF IInv, KeysWereFree
  <2>3. CASE ~Held(rows, Table(call[p]), KeyOf(call[p]))
    <3>1. PICK y \in Table(call[p]) : rows'[y] # NULL /\ rows'[y].key = KeyOf(call[p])
      BY DEF Held
    <3>2. y = x
      BY <1>4, <2>3, <3>1, CreationTypes DEF Held
    <3>3. Table(call[p]) = Table(c) /\ KeyOf(call[p]) = KeyOf(c)
      BY <1>2, <1>3, <1>4, <3>1, <3>2, CreationTypes, TablesAreDisjoint
    <3> QED
      BY <2>1, <3>3 DEF SameKey
  <2> QED
    BY <2>2, <2>3
<1>11. RostersWereRead' /\ ListedAreEnrolled'
  <2>1. RostersWereRead'
    BY <1>1 DEF IInv, RostersWereRead
  <2>2. ListedAreEnrolled'
    BY <1>1 DEF IInv, ListedAreEnrolled
  <2> QED
    BY <2>1, <2>2
<1>12. ListedWereActive'
  <2> SUFFICES ASSUME NEW p \in Req, pc'[p] \in {"checked", "read"},
                      call[p] \in EnrollCall, NEW st \in Listed(call[p])
               PROVE  /\ rows'[st] # NULL
                      /\ rows'[st].is_active \/ \E q \in since'[p] : Sets(call[q], st, "is_active")
    BY <1>1 DEF ListedWereActive
  <2>1. st \in Entity
    BY EnrollTypes DEF Entity
  <2> QED
    BY <1>1, <1>5, <2>1 DEF IInv, ListedWereActive
<1>13. ColumnsWereLoaded'
  <2> SUFFICES ASSUME NEW p \in Req, pc'[p] = "checked", call[p] \in Update,
                      NEW field \in DOMAIN call[p].changes
               PROVE  \/ rows'[call[p].id][field] = seen[p].row[field]
                      \/ \E q \in since'[p] : Sets(call[q], call[p].id, field)
    BY <1>1 DEF ColumnsWereLoaded
  <2>1. pc[p] = "checked" /\ call[p].id \in Entity /\ rows[call[p].id] # NULL
    BY <1>1, PatchTypes DEF IInv, CallsFit
  <2> QED
    BY <1>1, <1>5, <2>1 DEF IInv, ColumnsWereLoaded
<1>14. ColumnsWereSet'
  <2> SUFFICES ASSUME NEW p \in Req, pc'[p] = "saved", call[p] \in Update,
                      NEW field \in DOMAIN call[p].changes
               PROVE  \/ rows'[call[p].id][field] = call[p].changes[field]
                      \/ \E q \in since'[p] : Sets(call[q], call[p].id, field)
    BY <1>1 DEF ColumnsWereSet
  <2>1. pc[p] = "saved" /\ call[p].id \in Entity /\ rows[call[p].id] # NULL
    BY <1>1, PatchTypes DEF IInv, CallsFit
  <2> QED
    BY <1>1, <1>5, <2>1 DEF IInv, ColumnsWereSet
<1>15. EnrollmentWasFound'
  BY <1>1 DEF IInv, EnrollmentWasFound
<1> QED
  BY <1>1, <1>6, <1>7, <1>8, <1>9, <1>10, <1>11, <1>12, <1>13, <1>14, <1>15 DEF IInv

LEMMA CreateKeeps ==
  ASSUME IInv, NEW r \in Req, Create(r)
  PROVE  IInv'
<1> DEFINE c == call[r]
<1>1. pc[r] = "checked" /\ c \in Creation
  BY DEF Create
<1>2. CASE Goto(r, "refused") /\ UNCHANGED <<dbVars, since>>
  BY <1>1, <1>2, EndKeeps
<1>3. CASE Indexed(Table(c), KeyOf(c)) /\ CommitFails(r)
  <2>1. Reason(r)
    BY <1>1, <1>3 DEF Indexed, Taken, Held, IInv, KeysWereFree, Reason
  <2> QED
    BY <1>1, <1>3, <2>1, EndKeeps DEF CommitFails
<1>4. CASE /\ ~Indexed(Table(c), KeyOf(c))
           /\ \E x \in Table(c), name \in Name :
                 /\ rows[x] = NULL
                 /\ rows' = [rows EXCEPT ![x] =
                       [key |-> KeyOf(c), owner |-> OwnerOf(c),
                        name |-> name, is_active |-> TRUE]]
           /\ Commits(r, "ok")
           /\ UNCHANGED enrollments
  BY <1>1, <1>4, InsertKeeps DEF Indexed
<1> QED
  BY <1>2, <1>3, <1>4 DEF Create

\* What a PATCH of valid values leaves of a row.
LEMMA PatchedRow ==
  ASSUME NEW stored \in Row, NEW loaded \in Row, NEW changes \in Changes,
         \A f \in DOMAIN changes : changes[f] # NULL
  PROVE  LET row == Patched(stored, loaded, changes)
         IN  /\ row \in Row /\ row # NULL
             /\ row.key = stored.key /\ row.owner = stored.owner
             /\ DOMAIN changes \subseteq {"name", "is_active"}
             /\ \A f \in {"name", "is_active"} :
                   row[f] = IF f \in DOMAIN changes
                            THEN Column(stored[f], loaded[f], changes[f]) ELSE stored[f]
<1> DEFINE row == Patched(stored, loaded, changes)
<1> DEFINE name == IF "name" \in DOMAIN changes
                   THEN Column(stored.name, loaded.name, changes.name) ELSE stored.name
           active == IF "is_active" \in DOMAIN changes
                     THEN Column(stored.is_active, loaded.is_active, changes.is_active)
                     ELSE stored.is_active
<1>1. DOMAIN changes \subseteq {"name", "is_active"}
  BY DEF Changes
<1>2. /\ "name" \in DOMAIN changes => changes.name \in Name
      /\ "is_active" \in DOMAIN changes => changes.is_active \in BOOLEAN
  BY DEF Changes
<1>3. name \in Name
  BY <1>2 DEF Column, Row
<1>4. active \in BOOLEAN
  BY <1>2 DEF Column, Row
<1>5. row = [stored EXCEPT !.name = name, !.is_active = active]
  BY DEF Patched, Row
<1> HIDE DEF name, active, row
<1>6. /\ row \in Row /\ row.key = stored.key /\ row.owner = stored.owner
      /\ row.name = name /\ row.is_active = active
  BY <1>3, <1>4, <1>5 DEF Row
<1>7. row # NULL
  BY <1>6, RosterConstants DEF RosterAssumption
<1>8. \A f \in {"name", "is_active"} :
          row[f] = IF f \in DOMAIN changes
                   THEN Column(stored[f], loaded[f], changes[f]) ELSE stored[f]
  BY <1>6 DEF name, active
<1> QED
  BY <1>1, <1>6, <1>7, <1>8 DEF row

\* An update or a deactivation that writes.
LEMMA PatchKeeps ==
  ASSUME IInv, NEW r \in Req, pc[r] = "checked", call[r] \in Update \cup Deactivation,
         \A f \in DOMAIN call[r].changes : call[r].changes[f] # NULL,
         rows' = [rows EXCEPT ![call[r].id] = Patched(@, seen[r].row, call[r].changes)],
         Commits(r, IF call[r].op = "update" THEN "saved" ELSE "ok"),
         enrollments' = enrollments
  PROVE  IInv'
<1> DEFINE c == call[r]
<1> DEFINE stage == IF c.op = "update" THEN "saved" ELSE "ok"
<1>1. /\ call' = call /\ seen' = seen /\ pc' = [pc EXCEPT ![r] = stage]
      /\ pc'[r] = stage /\ \A p \in Req \ {r} : pc'[p] = pc[p]
      /\ since' \in [Req -> SUBSET Req]
      /\ \A p \in Req : since[p] \subseteq since'[p] /\ since'[p] \subseteq since[p] \cup {r}
      /\ \A p \in Req \ {r} : pc[p] \in {"checked", "read", "saved"} => r \in since'[p]
      /\ FailuresHaveReasons'
  BY Told
<1>2. c.id \in Entity /\ c.changes \in Changes
  BY PatchTypes
<1>3. rows[c.id] \in Row /\ seen[r].row \in Row /\ rows[c.id] # NULL
  BY <1>2 DEF IInv, TypeOK, CallsFit, Reads
<1> DEFINE stored == rows[c.id]
<1> DEFINE loaded == seen[r].row
<1> DEFINE changes == c.changes
<1> DEFINE row == Patched(stored, loaded, changes)
<1>4. /\ row \in Row /\ row # NULL /\ row.key = stored.key
      /\ DOMAIN changes \subseteq {"name", "is_active"}
      /\ \A f \in {"name", "is_active"} :
            row[f] = IF f \in DOMAIN changes
                     THEN Column(stored[f], loaded[f], changes[f]) ELSE stored[f]
  <2>1. /\ stored \in Row /\ loaded \in Row /\ changes \in Changes
        /\ \A f \in DOMAIN changes : changes[f] # NULL
    BY <1>2, <1>3
  <2> HIDE DEF stored, loaded, changes
  <2> QED
    BY <2>1, PatchedRow
<1> HIDE DEF row
<1>5. /\ rows'[c.id] = row /\ rows' \in [Entity -> Row \cup {NULL}]
      /\ \A y \in Entity \ {c.id} : rows'[y] = rows[y]
  BY <1>2, <1>4 DEF IInv, TypeOK, row
<1>6. \A y \in Entity : /\ rows'[y] # NULL <=> rows[y] # NULL
                        /\ rows[y] # NULL => rows'[y].key = rows[y].key
  BY <1>3, <1>4, <1>5
<1>7. \A y \in Entity, f \in {"name", "is_active"} :
          rows'[y][f] = rows[y][f] \/ Sets(c, y, f)
  BY <1>4, <1>5 DEF Sets
<1>8. \A p \in Req : call[p] \in Update \cup Deactivation =>
          call[p].id \in Entity /\ DOMAIN call[p].changes \subseteq {"name", "is_active"}
  BY PatchTypes DEF Changes
<1>9. TypeOK'
  BY <1>1, <1>5 DEF IInv, TypeOK
<1>10. CallsFit'
  <2>1. \A p \in Req : pc'[p] # "idle" => pc[p] # "idle"
    BY <1>1
  <2>2. \A p \in Req : \A q \in since'[p] : pc'[q] # "idle"
    BY <1>1 DEF IInv, TypeOK, CallsFit
  <2>3. pc'[r] = "saved" => c \in Update
    BY <1>1, CallKinds DEF Call
  <2> QED
    BY <1>1, <1>6, <1>8, <2>1, <2>2, <2>3 DEF IInv, CallsFit
<1>11. AddressesAreLower'
  BY <1>6 DEF IInv, AddressesAreLower, Entity
<1>12. KeysAreUnique'
  <2>1. \A T \in Tables : T \subseteq Entity
    BY DEF Tables, Entity
  <2>2. UniqueKeys(rows)
    BY DEF IInv, KeysAreUnique
  <2>3. ASSUME NEW T \in Tables, NEW y \in T, NEW z \in T, rows'[y] # NULL, rows'[z] # NULL,
               rows'[y].key = rows'[z].key
        PROVE  y = z
    BY <1>6, <2>1, <2>2, <2>3 DEF UniqueKeys
  <2>4. ASSUME NEW u \in User, NEW v \in User, rows'[u] # NULL, rows'[v] # NULL,
               Lower[rows'[u].key] = Lower[rows'[v].key]
        PROVE  u = v
    BY <1>11, <2>3, <2>4 DEF AddressesAreLower, Tables
  <2> QED
    BY <2>3, <2>4 DEF IInv, KeysAreUnique, UniqueKeys
<1>13. KeysWereFree'
  <2> SUFFICES ASSUME NEW p \in Req, pc'[p] = "checked", call[p] \in Creation,
                      Held(rows', Table(call[p]), KeyOf(call[p]))
               PROVE  \E q \in since'[p] : SameKey(call[p], call[q])
    BY <1>1 DEF KeysWereFree
  <2>1. p # r /\ pc[p] = "checked"
    BY <1>1
  <2>2. Held(rows, Table(call[p]), KeyOf(call[p]))
    BY <1>6, CreationTypes DEF Held
  <2> QED
    BY <1>1, <2>1, <2>2 DEF IInv, KeysWereFree
<1>14. RostersWereRead' /\ ListedAreEnrolled'
  <2>1. RostersWereRead'
    BY <1>1 DEF IInv, RostersWereRead
  <2>2. ListedAreEnrolled'
    <3>1. c \notin EnrollCall
      BY CallKinds DEF Call
    <3> QED
      BY <1>1, <3>1 DEF IInv, ListedAreEnrolled
  <2> QED
    BY <2>1, <2>2
<1>15. ListedWereActive'
  <2> SUFFICES ASSUME NEW p \in Req, pc'[p] \in {"checked", "read"},
                      call[p] \in EnrollCall, NEW st \in Listed(call[p])
               PROVE  /\ rows'[st] # NULL
                      /\ rows'[st].is_active \/ \E q \in since'[p] : Sets(call[q], st, "is_active")
    BY <1>1 DEF ListedWereActive
  <2>1. st \in Entity
    BY EnrollTypes DEF Entity
  <2>2. p # r /\ pc[p] \in {"checked", "read"} /\ r \in since'[p]
    BY <1>1
  <2>3. /\ rows[st] # NULL
        /\ rows[st].is_active \/ \E q \in since[p] : Sets(call[q], st, "is_active")
    BY <2>2 DEF IInv, ListedWereActive
  <2>4. rows'[st]["is_active"] = rows[st]["is_active"] \/ Sets(c, st, "is_active")
    BY <1>7, <2>1
  <2> QED
    BY <1>1, <1>6, <2>1, <2>2, <2>3, <2>4
<1>16. ColumnsWereLoaded'
  <2> SUFFICES ASSUME NEW p \in Req, pc'[p] = "checked", call[p] \in Update,
                      NEW field \in DOMAIN call[p].changes
               PROVE  \/ rows'[call[p].id][field] = seen[p].row[field]
                      \/ \E q \in since'[p] : Sets(call[q], call[p].id, field)
    BY <1>1 DEF ColumnsWereLoaded
  <2>1. p # r /\ pc[p] = "checked" /\ r \in since'[p]
    BY <1>1
  <2>2. \/ rows[call[p].id][field] = seen[p].row[field]
        \/ \E q \in since[p] : Sets(call[q], call[p].id, field)
    BY <2>1 DEF IInv, ColumnsWereLoaded
  <2>3. rows'[call[p].id][field] = rows[call[p].id][field] \/ Sets(c, call[p].id, field)
    BY <1>7, <1>8
  <2> QED
    BY <1>1, <2>1, <2>2, <2>3
<1>17. ColumnsWereSet'
  <2> SUFFICES ASSUME NEW p \in Req, pc'[p] = "saved", call[p] \in Update,
                      NEW field \in DOMAIN call[p].changes
               PROVE  \/ rows'[call[p].id][field] = call[p].changes[field]
                      \/ \E q \in since'[p] : Sets(call[q], call[p].id, field)
    BY <1>1 DEF ColumnsWereSet
  <2>1. CASE p = r
    <3>1. \/ rows[c.id][field] = seen[r].row[field]
          \/ \E q \in since[r] : Sets(call[q], c.id, field)
      BY <2>1 DEF IInv, ColumnsWereLoaded
    <3>2. rows'[c.id][field] = Column(rows[c.id][field], seen[r].row[field], c.changes[field])
      BY <1>4, <1>5, <2>1
    <3> QED
      BY <1>1, <2>1, <3>1, <3>2 DEF Column
  <2>2. CASE p # r
    <3>1. pc[p] = "saved" /\ r \in since'[p]
      BY <1>1, <2>2
    <3>2. \/ rows[call[p].id][field] = call[p].changes[field]
          \/ \E q \in since[p] : Sets(call[q], call[p].id, field)
      BY <3>1 DEF IInv, ColumnsWereSet
    <3>3. rows'[call[p].id][field] = rows[call[p].id][field] \/ Sets(c, call[p].id, field)
      BY <1>7, <1>8
    <3> QED
      BY <1>1, <3>1, <3>2, <3>3
  <2> QED
    BY <2>1, <2>2
<1>18. EnrollmentWasFound'
  BY <1>1 DEF IInv, EnrollmentWasFound
<1> QED
  BY <1>1, <1>9, <1>10, <1>11, <1>12, <1>13, <1>14, <1>15, <1>16, <1>17, <1>18 DEF IInv

LEMMA SaveKeeps ==
  ASSUME IInv, NEW r \in Req, Save(r)
  PROVE  IInv'
<1> DEFINE c == call[r]
<1>1. pc[r] = "checked" /\ c \in Update \cup Deactivation
  BY DEF Save
<1>2. CASE (\E f \in DOMAIN c.changes : c.changes[f] = NULL) /\ CommitFails(r)
  <2>1. c \in Update
    BY <1>1, <1>2, RosterConstants DEF RosterAssumption, Deactivation
  <2> QED
    BY <1>1, <1>2, <2>1, EndKeeps DEF CommitFails, Reason
<1>3. CASE /\ \A f \in DOMAIN c.changes : c.changes[f] # NULL
           /\ rows' = [rows EXCEPT ![c.id] = Patched(@, seen[r].row, c.changes)]
           /\ Commits(r, IF c.op = "update" THEN "saved" ELSE "ok")
           /\ UNCHANGED enrollments
  BY <1>1, <1>3, PatchKeeps
<1> QED
  BY <1>2, <1>3 DEF Save

LEMMA NewRowsAre ==
  ASSUME NEW r \in Req, call[r] \in EnrollCall
  PROVE  /\ NewRows(r) \subseteq Enrollment
         /\ \A e \in NewRows(r) :
               /\ e.by = r /\ e.classroom = call[r].classroom
               /\ e.student \in Listed(call[r]) /\ e.student \notin seen[r].already
               /\ e.at \in DOMAIN call[r].students /\ e.student = call[r].students[e.at]
               /\ e = [classroom |-> call[r].classroom, student |-> call[r].students[e.at],
                       by |-> r, at |-> e.at]
         /\ \A st \in Listed(call[r]) \ seen[r].already :
               \E e \in NewRows(r) : e.student = st
<1> DEFINE new(i) == [classroom |-> call[r].classroom, student |-> call[r].students[i],
                      by |-> r, at |-> i]
<1>1. \A i \in DOMAIN call[r].students :
          new(i) \in Enrollment /\ call[r].students[i] \in Listed(call[r])
  BY EnrollTypes DEF Enrollment, Listed
<1>2. \A e \in NewRows(r) : \E i \in DOMAIN call[r].students :
          e = new(i) /\ call[r].students[i] \notin seen[r].already
  BY DEF NewRows
<1>3. \A i \in DOMAIN call[r].students :
          call[r].students[i] \notin seen[r].already => new(i) \in NewRows(r)
  BY DEF NewRows
<1>4. NewRows(r) \subseteq Enrollment
  BY <1>1, <1>2
<1>5. ASSUME NEW e \in NewRows(r)
      PROVE  /\ e.by = r /\ e.classroom = call[r].classroom
             /\ e.student \in Listed(call[r]) /\ e.student \notin seen[r].already
             /\ e.at \in DOMAIN call[r].students /\ e.student = call[r].students[e.at]
             /\ e = [classroom |-> call[r].classroom, student |-> call[r].students[e.at],
                     by |-> r, at |-> e.at]
  <2>1. PICK i \in DOMAIN call[r].students :
            e = new(i) /\ call[r].students[i] \notin seen[r].already
    BY <1>2
  <2>2. e.at = i /\ e.by = r /\ e.classroom = call[r].classroom
        /\ e.student = call[r].students[i]
    BY <2>1
  <2> QED
    BY <1>1, <2>1, <2>2
<1>6. ASSUME NEW st \in Listed(call[r]) \ seen[r].already
      PROVE  \E e \in NewRows(r) : e.student = st
  <2>1. PICK i \in DOMAIN call[r].students : call[r].students[i] = st
    BY DEF Listed
  <2>2. new(i) \in NewRows(r) /\ new(i).student = st
    BY <1>3, <2>1
  <2> QED
    BY <2>2
<1> QED
  BY <1>4, <1>5, <1>6

\* An enrollment that the unique index refuses.
LEMMA ClashesHaveReasons ==
  ASSUME IInv, NEW r \in Req, pc[r] = "read", Clashes(NewRows(r))
  PROVE  Reason(r)
<1> DEFINE c == call[r]
<1>1. c \in EnrollCall
  BY DEF IInv, CallsFit
<1>2. PICK e \in NewRows(r), f \in NewRows(r) \cup enrollments :
          e # f /\ e.classroom = f.classroom /\ e.student = f.student
  BY DEF Clashes
<1>3. CASE f \in NewRows(r)
  <2>1. e.at # f.at
    BY <1>1, <1>2, <1>3, NewRowsAre
  <2>2. Repeats(c)
    BY <1>1, <1>2, <1>3, <2>1, NewRowsAre DEF Repeats
  <2> QED
    BY <1>1, <2>2 DEF Reason
<1>4. CASE f \in enrollments
  <2>1. /\ e.student \in Listed(c) /\ e.student \in Student
        /\ e.student \notin seen[r].already /\ f.classroom = c.classroom
    BY <1>1, <1>2, NewRowsAre, EnrollTypes
  <2>2. OnRoster(enrollments, c.classroom, e.student)
    BY <1>2, <1>4, <2>1 DEF OnRoster
  <2>3. \E q \in since[r] : Enrolls(call[q], c.classroom, e.student)
    BY <2>1, <2>2 DEF IInv, RostersWereRead
  <2> QED
    BY <1>1, <2>1, <2>3 DEF Reason
<1> QED
  BY <1>3, <1>4

\* The parts about rows, when a commit writes only enrollments.
LEMMA RowsKept ==
  ASSUME IInv, NEW r \in Req, NEW stage \in {"saved", "ok"}, Commits(r, stage),
         pc[r] # "idle", call[r] \notin Update, rows' = rows
  PROVE  /\ AddressesAreLower' /\ UniqueKeys(rows)' /\ KeysWereFree'
         /\ ListedWereActive' /\ ColumnsWereLoaded' /\ ColumnsWereSet'
<1>1. /\ call' = call /\ seen' = seen /\ pc' = [pc EXCEPT ![r] = stage]
      /\ pc'[r] = stage /\ \A p \in Req \ {r} : pc'[p] = pc[p]
      /\ \A p \in Req : since[p] \subseteq since'[p]
  BY Told
<1>2. AddressesAreLower' /\ UniqueKeys(rows)'
  BY DEF IInv, AddressesAreLower, KeysAreUnique, UniqueKeys
<1>3. KeysWereFree'
  BY <1>1 DEF IInv, KeysWereFree
<1>4. ListedWereActive'
  BY <1>1 DEF IInv, ListedWereActive
<1>5. ColumnsWereLoaded'
  BY <1>1 DEF IInv, ColumnsWereLoaded
<1>6. ColumnsWereSet'
  BY <1>1 DEF IInv, ColumnsWereSet
<1> QED
  BY <1>2, <1>3, <1>4, <1>5, <1>6

\* An enrollment that inserts its rows.
LEMMA RosterGrows ==
  ASSUME IInv, NEW r \in Req, pc[r] = "read", ~Clashes(NewRows(r)),
         enrollments' = enrollments \cup NewRows(r), Commits(r, "saved"), rows' = rows
  PROVE  IInv'
<1> DEFINE c == call[r]
<1>0. c \in EnrollCall
  BY DEF IInv, CallsFit
<1>1. /\ call' = call /\ seen' = seen /\ pc' = [pc EXCEPT ![r] = "saved"]
      /\ pc'[r] = "saved" /\ \A p \in Req \ {r} : pc'[p] = pc[p]
      /\ since' \in [Req -> SUBSET Req]
      /\ \A p \in Req : since[p] \subseteq since'[p] /\ since'[p] \subseteq since[p] \cup {r}
      /\ \A p \in Req \ {r} : pc[p] \in {"checked", "read", "saved"} => r \in since'[p]
      /\ FailuresHaveReasons'
  BY Told
<1>2. c \notin Update \cup Deactivation /\ c \notin UnenrollCall
  BY <1>0, CallKinds DEF Call
<1>3. \A e \in NewRows(r) : Enrolls(c, e.classroom, e.student) /\ e.classroom = c.classroom
  BY <1>0, NewRowsAre DEF Enrolls
<1>4. \A k, st : OnRoster(enrollments, k, st) => OnRoster(enrollments', k, st)
  BY DEF OnRoster
<1>5. \A k, st : OnRoster(enrollments', k, st) =>
          OnRoster(enrollments, k, st) \/ Enrolls(c, k, st)
  BY <1>3 DEF OnRoster
<1>6. TypeOK'
  BY <1>0, <1>1, NewRowsAre DEF IInv, TypeOK
<1>7. CallsFit'
  <2>1. \A p \in Req : \A q \in since'[p] : pc'[q] # "idle"
    BY <1>1 DEF IInv, TypeOK, CallsFit
  <2> QED
    BY <1>0, <1>1, <1>2, <2>1 DEF IInv, CallsFit
<1>8. /\ AddressesAreLower' /\ UniqueKeys(rows)' /\ KeysWereFree'
      /\ ListedWereActive' /\ ColumnsWereLoaded' /\ ColumnsWereSet'
  BY <1>2, RowsKept
<1>9. KeysAreUnique'
  <2>1. \A e, f \in enrollments' :
            e.classroom = f.classroom /\ e.student = f.student => e = f
    BY DEF IInv, KeysAreUnique, Clashes
  <2> QED
    BY <1>8, <2>1 DEF KeysAreUnique
<1>10. RostersWereRead'
  <2> SUFFICES ASSUME NEW p \in Req, pc'[p] = "read", NEW st \in Student
               PROVE  /\ OnRoster(enrollments', call[p].classroom, st) /\ st \notin seen[p].already =>
                            \E q \in since'[p] : Enrolls(call[q], call[p].classroom, st)
                      /\ st \in seen[p].already /\ ~OnRoster(enrollments', call[p].classroom, st) =>
                            \E q \in since'[p] : Unenrolls(call[q], call[p].classroom, st)
    BY <1>1 DEF RostersWereRead
  <2>1. p # r /\ pc[p] = "read" /\ r \in since'[p] /\ since[p] \subseteq since'[p]
    BY <1>1
  <2> QED
    BY <1>4, <1>5, <2>1 DEF IInv, RostersWereRead
<1>11. ListedAreEnrolled'
  <2> SUFFICES ASSUME NEW p \in Req, pc'[p] = "saved", call[p] \in EnrollCall,
                      NEW st \in Listed(call[p])
               PROVE  \/ OnRoster(enrollments', call[p].classroom, st)
                      \/ \E q \in since'[p] : Unenrolls(call[q], call[p].classroom, st)
    BY <1>1 DEF ListedAreEnrolled
  <2>1. st \in Student
    BY EnrollTypes
  <2>2. CASE p = r
    <3>1. CASE st \in seen[r].already
      BY <1>1, <1>4, <2>1, <2>2, <3>1 DEF IInv, RostersWereRead
    <3>2. CASE st \notin seen[r].already
      BY <1>3, <2>2, <3>2, <1>0, NewRowsAre DEF OnRoster
    <3> QED
      BY <3>1, <3>2
  <2>3. CASE p # r
    BY <1>1, <1>4, <2>3 DEF IInv, ListedAreEnrolled
  <2> QED
    BY <2>2, <2>3
<1>12. EnrollmentWasFound'
  <2> SUFFICES ASSUME NEW p \in Req, pc'[p] = "checked", call[p] \in UnenrollCall,
                      NEW e \in enrollments', e.classroom = call[p].classroom,
                      e.student = call[p].student
               PROVE  \/ e = seen[p].enrollment
                      \/ \E q \in since'[p] :
                            Enrolls(call[q], call[p].classroom, call[p].student)
    BY <1>1 DEF EnrollmentWasFound
  <2>1. p # r /\ pc[p] = "checked" /\ r \in since'[p] /\ since[p] \subseteq since'[p]
    BY <1>1
  <2> QED
    BY <1>3, <2>1 DEF IInv, EnrollmentWasFound
<1> QED
  BY <1>1, <1>6, <1>7, <1>8, <1>9, <1>10, <1>11, <1>12 DEF IInv

LEMMA EnrollKeeps ==
  ASSUME IInv, NEW r \in Req, Enroll(r)
  PROVE  IInv'
<1>1. CASE Clashes(NewRows(r)) /\ CommitFails(r)
  BY <1>1, ClashesHaveReasons, EndKeeps DEF Enroll, CommitFails
<1>2. CASE /\ ~Clashes(NewRows(r)) /\ enrollments' = enrollments \cup NewRows(r)
           /\ Commits(r, "saved") /\ UNCHANGED rows
  BY <1>2, RosterGrows DEF Enroll
<1> QED
  BY <1>1, <1>2 DEF Enroll

LEMMA UnenrollKeeps ==
  ASSUME IInv, NEW r \in Req, Unenroll(r)
  PROVE  IInv'
<1> DEFINE c == call[r]
<1>0. /\ pc[r] = "checked" /\ c \in UnenrollCall /\ Commits(r, "ok") /\ rows' = rows
      /\ enrollments' = enrollments \ {seen[r].enrollment}
      /\ seen[r].enrollment.classroom = c.classroom
      /\ seen[r].enrollment.student = c.student
  BY DEF Unenroll, IInv, CallsFit
<1>1. /\ call' = call /\ seen' = seen /\ pc' = [pc EXCEPT ![r] = "ok"]
      /\ pc'[r] = "ok" /\ \A p \in Req \ {r} : pc'[p] = pc[p]
      /\ since' \in [Req -> SUBSET Req]
      /\ \A p \in Req : since[p] \subseteq since'[p] /\ since'[p] \subseteq since[p] \cup {r}
      /\ \A p \in Req \ {r} : pc[p] \in {"checked", "read", "saved"} => r \in since'[p]
      /\ FailuresHaveReasons'
  BY <1>0, Told
<1>2. c \notin Update
  BY <1>0, CallKinds DEF Call
<1>3. \A k, st : OnRoster(enrollments', k, st) => OnRoster(enrollments, k, st)
  BY <1>0 DEF OnRoster
<1>4. \A k, st : OnRoster(enrollments, k, st) =>
          OnRoster(enrollments', k, st) \/ Unenrolls(c, k, st)
  BY <1>0 DEF OnRoster, Unenrolls
<1>5. TypeOK'
  BY <1>0, <1>1 DEF IInv, TypeOK
<1>6. CallsFit'
  <2>1. \A p \in Req : \A q \in since'[p] : pc'[q] # "idle"
    BY <1>0, <1>1 DEF IInv, TypeOK, CallsFit
  <2> QED
    BY <1>0, <1>1, <2>1 DEF IInv, CallsFit
<1>7. /\ AddressesAreLower' /\ UniqueKeys(rows)' /\ KeysWereFree'
      /\ ListedWereActive' /\ ColumnsWereLoaded' /\ ColumnsWereSet'
  BY <1>0, <1>2, RowsKept
<1>8. KeysAreUnique'
  BY <1>0, <1>7 DEF IInv, KeysAreUnique
<1>9. RostersWereRead'
  <2> SUFFICES ASSUME NEW p \in Req, pc'[p] = "read", NEW st \in Student
               PROVE  /\ OnRoster(enrollments', call[p].classroom, st) /\ st \notin seen[p].already =>
                            \E q \in since'[p] : Enrolls(call[q], call[p].classroom, st)
                      /\ st \in seen[p].already /\ ~OnRoster(enrollments', call[p].classroom, st) =>
                            \E q \in since'[p] : Unenrolls(call[q], call[p].classroom, st)
    BY <1>1 DEF RostersWereRead
  <2>1. p # r /\ pc[p] = "read" /\ r \in since'[p] /\ since[p] \subseteq since'[p]
    BY <1>1
  <2> QED
    BY <1>3, <1>4, <2>1 DEF IInv, RostersWereRead
<1>10. ListedAreEnrolled'
  <2> SUFFICES ASSUME NEW p \in Req, pc'[p] = "saved", call[p] \in EnrollCall,
                      NEW st \in Listed(call[p])
               PROVE  \/ OnRoster(enrollments', call[p].classroom, st)
                      \/ \E q \in since'[p] : Unenrolls(call[q], call[p].classroom, st)
    BY <1>1 DEF ListedAreEnrolled
  <2>1. p # r /\ pc[p] = "saved" /\ r \in since'[p] /\ since[p] \subseteq since'[p]
    BY <1>1
  <2> QED
    BY <1>4, <2>1 DEF IInv, ListedAreEnrolled
<1>11. EnrollmentWasFound'
  BY <1>0, <1>1 DEF IInv, EnrollmentWasFound
<1> QED
  BY <1>1, <1>5, <1>6, <1>7, <1>8, <1>9, <1>10, <1>11 DEF IInv

LEMMA AnswerKeeps ==
  ASSUME IInv, NEW r \in Req, Answer(r) \/ Abandon(r)
  PROVE  IInv'
<1>1. CASE Answer(r)
  BY <1>1, EndKeeps DEF Answer
<1>2. CASE Abandon(r)
  BY <1>2, EndKeeps DEF Abandon
<1> QED
  BY <1>1, <1>2

-----------------------------------------------------------------------------
(* The theorems.                                                           *)

LEMMA StepKeeps == IInv /\ [Next]_vars => IInv'
<1> SUFFICES ASSUME IInv, [Next]_vars PROVE IInv'
  OBVIOUS
<1>1. ASSUME NEW r \in Req, CallStep(r)
      PROVE  IInv'
  BY <1>1, CreateKeeps, SaveKeeps, ReadKeeps, EnrollKeeps, UnenrollKeeps, AnswerKeeps
  DEF CallStep
<1>2. ASSUME NEW r \in Req, NEW c \in CallInputs, Start(r, c)
      PROVE  IInv'
  BY <1>2, StartKeeps, RosterConstants DEF RosterAssumption
<1>3. CASE UNCHANGED vars
  <2>1. TypeOK'
    BY <1>3 DEF IInv, vars, TypeOK
  <2>2. CallsFit'
    BY <1>3 DEF IInv, vars, CallsFit
  <2>3. AddressesAreLower' /\ KeysAreUnique'
    BY <1>3 DEF IInv, vars, AddressesAreLower, KeysAreUnique, UniqueKeys
  <2>4. KeysWereFree'
    BY <1>3 DEF IInv, vars, KeysWereFree
  <2>5. RostersWereRead' /\ ListedAreEnrolled'
    BY <1>3 DEF IInv, vars, RostersWereRead, ListedAreEnrolled
  <2>6. ListedWereActive'
    BY <1>3 DEF IInv, vars, ListedWereActive
  <2>7. ColumnsWereLoaded' /\ ColumnsWereSet'
    BY <1>3 DEF IInv, vars, ColumnsWereLoaded, ColumnsWereSet
  <2>8. EnrollmentWasFound'
    BY <1>3 DEF IInv, vars, EnrollmentWasFound
  <2>9. FailuresHaveReasons'
    BY <1>3 DEF IInv, vars, FailuresHaveReasons
  <2> QED
    BY <2>1, <2>2, <2>3, <2>4, <2>5, <2>6, <2>7, <2>8, <2>9 DEF IInv
<1> QED
  BY <1>1, <1>2, <1>3 DEF Next

\* The inductive invariant holds in every reachable state.
THEOREM RosterInvariance == Spec => []IInv
  BY InitIsFine, StepKeeps, PTL DEF Spec

\* All variables keep their types, whatever calls overlap.
THEOREM RosterTypes == Spec => []TypeOK
<1>1. IInv => TypeOK
  BY DEF IInv
<1> QED
  BY <1>1, RosterInvariance, PTL

\* Codes, registration numbers and addresses stay unique, addresses even up to
\* case, and a student is on a roster once: check-then-insert races end in the
\* unique index (ClassService.create and enroll, StudentService.create,
\* create_admin).
THEOREM KeysStayUnique == Spec => []KeysAreUnique
<1>1. IInv => KeysAreUnique
  BY DEF IInv
<1> QED
  BY <1>1, RosterInvariance, PTL

\* A call ends in a 500 only because an overlapping call took its key or its
\* students, or because it was ill-formed.
THEOREM FailuresAreRaces == Spec => []FailuresHaveReasons
<1>1. IInv => FailuresHaveReasons
  BY DEF IInv
<1> QED
  BY <1>1, RosterInvariance, PTL

\* Which steps answer a call.
LEMMA WhoAnswers ==
  ASSUME IInv, Next, NEW r \in Req, Answered(r)
  PROVE  \/ call[r] \in Creation \cup Deactivation
         \/ Answer(r)
         \/ Unenroll(r)
<1>1. ASSUME NEW q \in Req, CallStep(q)
      PROVE  q = r
  <2>1. \E stage \in {"ok", "refused", "failed", "gone", "saved", "read"} :
            pc' = [pc EXCEPT ![q] = stage]
    BY <1>1
    DEF CallStep, Create, Save, ReadRoster, Enroll, Unenroll, Answer, Abandon,
        Commits, CommitFails, Goto
  <2> QED
    BY <2>1 DEF Answered, IInv, TypeOK
<1>2. ASSUME NEW q \in Req, NEW c \in CallInputs, Start(q, c)
      PROVE  FALSE
  BY <1>2, Begun, RosterConstants DEF RosterAssumption, Answered, IInv, TypeOK
<1>3. CallStep(r)
  BY <1>1, <1>2 DEF Next
<1>4. CASE Create(r)
  BY <1>4 DEF Create
<1>5. CASE Save(r)
  BY <1>5 DEF Save, Commits, CommitFails, Goto, Answered, IInv, TypeOK, Deactivation, Update
<1>6. CASE ReadRoster(r) \/ Enroll(r) \/ Abandon(r)
  BY <1>6 DEF ReadRoster, Enroll, Abandon, Commits, CommitFails, Goto, Answered, IInv, TypeOK
<1> QED
  BY <1>3, <1>4, <1>5, <1>6 DEF CallStep

\* An answer 200 to a bulk enrollment shows all its students and an answer 204
\* leaves the student off the roster, unless an overlapping call did the
\* opposite: this needs that what each call has read still holds, which
\* RostersWereRead and EnrollmentWasFound say.
THEOREM RosterCallsLast == Spec => RosterCallsTakeEffect
<1>1. ASSUME IInv, Next, NEW r \in Req, Answered(r)
      PROVE  LET c == call[r]
             IN  /\ c \in EnrollCall => \A st \in Listed(c) :
                       \/ st \in EnrolledIn(c.classroom)'
                       \/ \E q \in since[r] : Unenrolls(call[q], c.classroom, st)
                 /\ c \in UnenrollCall =>
                       \/ c.student \notin EnrolledIn(c.classroom)'
                       \/ \E q \in since[r] : Enrolls(call[q], c.classroom, c.student)
  <2>1. CASE call[r] \in Creation \cup Deactivation
    BY <2>1, CallKinds DEF Call
  <2>2. CASE Answer(r)
    <3>1. /\ pc[r] = "saved" /\ call' = call /\ enrollments' = enrollments
      BY <2>2 DEF Answer, Goto, dbVars
    <3>2. call[r] \notin UnenrollCall
      BY <1>1, <3>1, CallKinds DEF IInv, CallsFit, Call
    <3> QED
      BY <1>1, <3>1, <3>2 DEF IInv, ListedAreEnrolled, OnRoster, EnrolledIn
  <2>3. CASE Unenroll(r)
    <3>1. /\ pc[r] = "checked" /\ call[r] \in UnenrollCall /\ call' = call
          /\ enrollments' = enrollments \ {seen[r].enrollment}
      BY <2>3 DEF Unenroll, Commits, Goto
    <3>2. call[r] \notin EnrollCall
      BY <3>1, CallKinds DEF Call
    <3> QED
      BY <1>1, <3>1, <3>2 DEF IInv, EnrollmentWasFound, EnrolledIn
  <2> QED
    BY <1>1, <2>1, <2>2, <2>3, WhoAnswers
<1>2. IInv /\ [Next]_vars =>
        [\A r \in Req : Answered(r) =>
          LET c == call[r]
          IN  /\ c \in EnrollCall => \A st \in Listed(c) :
                    \/ st \in EnrolledIn(c.classroom)'
                    \/ \E q \in since[r] : Unenrolls(call[q], c.classroom, st)
              /\ c \in UnenrollCall =>
                    \/ c.student \notin EnrolledIn(c.classroom)'
                    \/ \E q \in since[r] : Enrolls(call[q], c.classroom, c.student)]_vars
  BY <1>1
<1> QED
  BY <1>2, RosterInvariance, PTL DEF Spec, RosterCallsTakeEffect

\* Whoever is put on a roster is active, or was deactivated while the call
\* that enrolls was under way (get_many comes before the INSERT).
THEOREM EnrolledWereActiveHolds == Spec => EnrolledWereActive
<1>1. ASSUME IInv, Next, NEW e \in enrollments' \ enrollments
      PROVE  \/ rows[e.student].is_active
             \/ \E q \in since[e.by] : Sets(call[q], e.student, "is_active")
  <2>1. PICK r \in Req : Enroll(r)
    <3>1. ASSUME NEW r \in Req, NEW c \in CallInputs, Start(r, c)
          PROVE  FALSE
      BY <1>1, <3>1, Begun, RosterConstants DEF RosterAssumption
    <3> QED
      BY <1>1, <3>1
      DEF Next, CallStep, Create, Save, ReadRoster, Unenroll, Answer, Abandon,
          CommitFails, dbVars
  <2>2. pc[r] = "read" /\ call[r] \in EnrollCall /\ e \in NewRows(r)
    BY <1>1, <2>1 DEF Enroll, CommitFails, dbVars, IInv, CallsFit
  <2>3. e.by = r /\ e.student \in Listed(call[r])
    BY <2>2, NewRowsAre
  <2> QED
    BY <1>1, <2>2, <2>3 DEF IInv, ListedWereActive
<1>2. IInv /\ [Next]_vars =>
        [\A e \in enrollments' \ enrollments :
            \/ rows[e.student].is_active
            \/ \E q \in since[e.by] : Sets(call[q], e.student, "is_active")]_vars
  BY <1>1
<1> QED
  BY <1>2, RosterInvariance, PTL DEF Spec, EnrolledWereActive

\* An answer 200 to a PATCH shows every value it asked for, unless an
\* overlapping call set the same column: no update is lost to an earlier one,
\* and none to one of another column.
THEOREM PatchesLast == Spec => PatchesTakeEffect
<1>1. ASSUME IInv, Next, NEW r \in Req, Answered(r), call[r] \in Update,
             NEW field \in DOMAIN call[r].changes
      PROVE  \/ rows'[call[r].id][field] = call[r].changes[field]
             \/ \E q \in since[r] : Sets(call[q], call[r].id, field)
  <2>1. Answer(r)
    BY <1>1, WhoAnswers, CallKinds DEF Call, Unenroll
  <2>2. pc[r] = "saved" /\ rows' = rows
    BY <2>1 DEF Answer, dbVars
  <2> QED
    BY <1>1, <2>2 DEF IInv, ColumnsWereSet
<1>2. IInv /\ [Next]_vars =>
        [\A r \in Req : Answered(r) /\ call[r] \in Update =>
          \A field \in DOMAIN call[r].changes :
             \/ rows'[call[r].id][field] = call[r].changes[field]
             \/ \E q \in since[r] : Sets(call[q], call[r].id, field)]_vars
  BY <1>1
<1> QED
  BY <1>2, RosterInvariance, PTL DEF Spec, PatchesTakeEffect

-----------------------------------------------------------------------------
(* A class is its owner's.  The guard reads the owner when a call begins   *)
(* and the write comes later: it is enough that an owner never changes.    *)

\* No row goes away or changes its key or its owner.
RowsStay ==
    [][\A x \in Entity : rows[x] # NULL =>
          /\ rows'[x] # NULL
          /\ rows'[x].key = rows[x].key /\ rows'[x].owner = rows[x].owner]_vars

\* The calls that write the row or the roster of a class.
ActsOn(c, k) ==
    \/ c \in EnrollCall \cup UnenrollCall /\ c.classroom = k
    \/ c \in Update \cup Deactivation /\ c.id = k

\* A call past the guard is its owner's, still.
CallsAreOwners ==
    \A r \in Req : pc[r] \in {"checked", "read", "saved"} =>
        \A k \in Classroom : ActsOn(call[r], k) => Owned(call[r].user, k)

\* The step changes the row of a class or the students on its roster.
Changed(k) ==
    \/ rows[k] # NULL /\ rows'[k] # rows[k]
    \/ \E e \in (enrollments \ enrollments') \cup (enrollments' \ enrollments) :
           e.classroom = k

ClassesAreTheirOwners ==
    [][\A k \in Classroom : Changed(k) =>
          \E r \in Req :
             /\ pc[r] \in {"checked", "read"} /\ pc'[r] \in {"saved", "ok"}
             /\ ActsOn(call[r], k) /\ Owned(call[r].user, k)]_vars

Stay(x) == rows[x] # NULL =>
               /\ rows'[x] # NULL
               /\ rows'[x].key = rows[x].key /\ rows'[x].owner = rows[x].owner

LEMMA StepRowsStay ==
  ASSUME IInv, [Next]_vars, NEW x \in Entity
  PROVE  Stay(x)
<1>1. CASE rows' = rows
  BY <1>1 DEF Stay
<1>2. ASSUME NEW r \in Req, Create(r)
      PROVE  Stay(x)
  <2>1. CASE rows' # rows
    <3>1. PICK y \in Table(call[r]), name \in Name :
              /\ rows[y] = NULL
              /\ rows' = [rows EXCEPT ![y] =
                             [key |-> KeyOf(call[r]), owner |-> OwnerOf(call[r]),
                              name |-> name, is_active |-> TRUE]]
      BY <1>2, <2>1 DEF Create, CommitFails, dbVars
    <3> QED
      BY <3>1 DEF Stay, IInv, TypeOK
  <2> QED
    BY <1>1, <2>1
<1>3. ASSUME NEW r \in Req, Save(r)
      PROVE  Stay(x)
  <2>1. CASE rows' # rows
    <3> DEFINE id == call[r].id
    <3>1. /\ pc[r] = "checked" /\ call[r] \in Update \cup Deactivation
          /\ \A f \in DOMAIN call[r].changes : call[r].changes[f] # NULL
          /\ rows' = [rows EXCEPT ![id] = Patched(@, seen[r].row, call[r].changes)]
      BY <1>3, <2>1 DEF Save, CommitFails, dbVars
    <3>2. /\ id \in Entity /\ call[r].changes \in Changes
          /\ rows[id] \in Row /\ seen[r].row \in Row
      BY <3>1, PatchTypes DEF IInv, TypeOK, CallsFit, Reads
    <3> DEFINE stored  == rows[id]
               loaded  == seen[r].row
               changes == call[r].changes
               row     == Patched(stored, loaded, changes)
    <3>3. rows'[x] = IF x = id THEN row ELSE rows[x]
      BY <3>1, <3>2 DEF IInv, TypeOK
    <3>4. /\ stored \in Row /\ loaded \in Row /\ changes \in Changes
          /\ \A f \in DOMAIN changes : changes[f] # NULL
      BY <3>1, <3>2
    <3>5. row # NULL /\ row.key = stored.key /\ row.owner = stored.owner
      <4> HIDE DEF stored, loaded, changes
      <4> QED
        BY <3>4, PatchedRow
    <3> HIDE DEF row
    <3> QED
      BY <3>3, <3>5 DEF Stay
  <2> QED
    BY <1>1, <2>1
<1>4. ASSUME NEW r \in Req, NEW c \in CallInputs, Start(r, c)
      PROVE  rows' = rows
  BY <1>4, Begun, RosterConstants DEF RosterAssumption
<1>5. ASSUME NEW r \in Req,
             ReadRoster(r) \/ Enroll(r) \/ Unenroll(r) \/ Answer(r) \/ Abandon(r)
      PROVE  rows' = rows
  BY <1>5 DEF ReadRoster, Enroll, Unenroll, Answer, Abandon, CommitFails, dbVars
<1> QED
  BY <1>1, <1>2, <1>3, <1>4, <1>5 DEF Next, CallStep, vars


\* Codes, addresses and teachers are for good: no call deletes a row, and none
\* sets its key or its teacher_id (ClassUpdate and StudentUpdate have neither).
\* The review of a class relies on it: its Teacher is constant.
THEOREM RowsStayHolds == Spec => RowsStay
<1>1. IInv /\ [Next]_vars =>
        [\A x \in Entity : rows[x] # NULL =>
            /\ rows'[x] # NULL
            /\ rows'[x].key = rows[x].key /\ rows'[x].owner = rows[x].owner]_vars
  BY StepRowsStay DEF Stay
<1> QED
  BY <1>1, RosterInvariance, PTL DEF Spec, RowsStay

LEMMA OwnersStay ==
  ASSUME IInv, [Next]_vars, NEW u, NEW k \in Classroom, Owned(u, k)
  PROVE  rows'[k] # NULL /\ (u \in Admin \/ rows'[k].owner = u)
  BY StepRowsStay DEF Owned, Stay, Entity

\* The guard lets a call through only when it is the owner's.
LEMMA GuardIsOwned ==
  ASSUME IInv, NEW r \in Req, NEW c \in Call, Start(r, c), pc'[r] = "checked",
         NEW k \in Classroom, ActsOn(c, k)
  PROVE  Owned(c.user, k)
<1>1. /\ c \in EnrollCall \cup UnenrollCall => c.classroom = k
      /\ c \in Update \cup Deactivation => c.id = k
      /\ c \notin Creation
  BY CallKinds DEF ActsOn
<1>2. CASE Load(r, c)
  BY <1>1, <1>2 DEF Load, Begin, IInv, TypeOK
<1>3. CASE CheckStudents(r, c)
  BY <1>1, <1>3 DEF CheckStudents, Begin, IInv, TypeOK
<1>4. CASE FindEnrollment(r, c)
  BY <1>1, <1>4 DEF FindEnrollment
<1> QED
  BY <1>1, <1>2, <1>3, <1>4 DEF Start, CheckFree

LEMMA CallsStayOwners ==
  ASSUME IInv, CallsAreOwners, [Next]_vars
  PROVE  CallsAreOwners'
<1>1. ASSUME NEW r \in Req, pc'[r] \in {"checked", "read", "saved"},
             NEW k \in Classroom, ActsOn(call'[r], k)
      PROVE  rows'[k] # NULL
             /\ (call'[r].user \in Admin \/ rows'[k].owner = call'[r].user)
  <2>1. CASE pc[r] \in {"checked", "read", "saved"} /\ call'[r] = call[r]
    BY <1>1, <2>1, OwnersStay DEF CallsAreOwners
  <2>2. CASE ~(pc[r] \in {"checked", "read", "saved"} /\ call'[r] = call[r])
    <3>1. PICK c \in CallInputs : Start(r, c)
      <4>1. ASSUME NEW q \in Req, CallStep(q)
            PROVE  FALSE
        <5>1. /\ pc[q] \in {"checked", "read", "saved"} /\ call' = call
              /\ \E stage \in {"ok", "refused", "failed", "gone", "saved", "read"} :
                    pc' = [pc EXCEPT ![q] = stage]
          BY <4>1
          DEF CallStep, Create, Save, ReadRoster, Enroll, Unenroll, Answer, Abandon,
              Commits, CommitFails, Goto
        <5> QED
          BY <1>1, <2>2, <5>1 DEF IInv, TypeOK
      <4>2. ASSUME NEW q \in Req \ {r}, NEW c \in CallInputs, Start(q, c)
            PROVE  FALSE
        BY <1>1, <2>2, <4>2, Begun, RosterConstants DEF RosterAssumption, IInv, TypeOK
      <4>3. CASE UNCHANGED vars
        BY <1>1, <2>2, <4>3 DEF vars
      <4> QED
        BY <4>1, <4>2, <4>3 DEF Next
    <3>2. c \in Call /\ call'[r] = c /\ pc'[r] = "checked" /\ rows' = rows
      BY <1>1, <3>1, Begun, RosterConstants DEF RosterAssumption, IInv, TypeOK
    <3>3. Owned(c.user, k)
      BY <1>1, <3>1, <3>2, GuardIsOwned
    <3> QED
      BY <3>2, <3>3 DEF Owned
  <2> QED
    BY <2>1, <2>2
<1> QED
  BY <1>1 DEF CallsAreOwners, Owned, ActsOn

LEMMA ChangesAreOwners ==
  ASSUME IInv, CallsAreOwners, Next, NEW k \in Classroom, Changed(k)
  PROVE  \E r \in Req :
            /\ pc[r] \in {"checked", "read"} /\ pc'[r] \in {"saved", "ok"}
            /\ ActsOn(call[r], k) /\ Owned(call[r].user, k)
<1>1. ~(rows' = rows /\ enrollments' = enrollments)
  BY DEF Changed
<1>2. PICK r \in Req : Create(r) \/ Save(r) \/ Enroll(r) \/ Unenroll(r)
  <2>1. ASSUME NEW r \in Req, NEW c \in CallInputs, Start(r, c)
        PROVE  FALSE
    BY <1>1, <2>1, Begun, RosterConstants DEF RosterAssumption
  <2>2. ASSUME NEW r \in Req, ReadRoster(r) \/ Answer(r) \/ Abandon(r)
        PROVE  FALSE
    BY <1>1, <2>2 DEF ReadRoster, Answer, Abandon, dbVars
  <2> QED
    BY <2>1, <2>2 DEF Next, CallStep
<1>3. ~(Goto(r, "refused") /\ UNCHANGED <<dbVars, since>>) /\ ~CommitFails(r)
  BY <1>1 DEF dbVars, CommitFails
<1>4. CASE Create(r)
  <2>1. PICK x \in Table(call[r]), name \in Name :
            /\ rows[x] = NULL /\ enrollments' = enrollments
            /\ rows' = [rows EXCEPT ![x] =
                           [key |-> KeyOf(call[r]), owner |-> OwnerOf(call[r]),
                            name |-> name, is_active |-> TRUE]]
    BY <1>3, <1>4 DEF Create
  <2>2. k \in Entity
    BY DEF Entity
  <2> QED
    BY <2>1, <2>2 DEF Changed, IInv, TypeOK
<1>5. CASE Save(r)
  <2>1. /\ pc[r] = "checked" /\ call[r] \in Update \cup Deactivation
        /\ rows' = [rows EXCEPT ![call[r].id] = Patched(@, seen[r].row, call[r].changes)]
        /\ \E stage \in {"saved", "ok"} : pc' = [pc EXCEPT ![r] = stage]
        /\ enrollments' = enrollments
    BY <1>3, <1>5 DEF Save, Commits, Goto
  <2>2. call[r].id = k
    BY <2>1 DEF Changed, IInv, TypeOK, Entity
  <2>3. pc'[r] \in {"saved", "ok"} /\ ActsOn(call[r], k)
    BY <2>1, <2>2 DEF ActsOn, IInv, TypeOK
  <2> QED
    BY <2>1, <2>3 DEF CallsAreOwners
<1>6. CASE Enroll(r)
  <2>1. /\ pc[r] = "read" /\ call[r] \in EnrollCall
        /\ pc' = [pc EXCEPT ![r] = "saved"]
        /\ enrollments' = enrollments \cup NewRows(r) /\ rows' = rows
    BY <1>3, <1>6 DEF Enroll, Commits, Goto, IInv, CallsFit
  <2>2. call[r].classroom = k
    BY <2>1 DEF Changed, NewRows
  <2>3. pc'[r] = "saved" /\ ActsOn(call[r], k)
    BY <2>1, <2>2 DEF ActsOn, IInv, TypeOK
  <2> QED
    BY <2>1, <2>3 DEF CallsAreOwners
<1>7. CASE Unenroll(r)
  <2>1. /\ pc[r] = "checked" /\ call[r] \in UnenrollCall
        /\ pc' = [pc EXCEPT ![r] = "ok"]
        /\ enrollments' = enrollments \ {seen[r].enrollment} /\ rows' = rows
        /\ seen[r].enrollment.classroom = call[r].classroom
    BY <1>7 DEF Unenroll, Commits, Goto, IInv, CallsFit
  <2>2. call[r].classroom = k
    BY <2>1 DEF Changed
  <2>3. pc'[r] = "ok" /\ ActsOn(call[r], k)
    BY <2>1, <2>2 DEF ActsOn, IInv, TypeOK
  <2> QED
    BY <2>1, <2>3 DEF CallsAreOwners
<1> QED
  BY <1>2, <1>4, <1>5, <1>6, <1>7

\* Whatever changes a class or its roster is a call of its owner or an admin,
\* who owns it when the change is made and not only when get_owned looked:
\* "Ownership guard every class-scoped operation goes through".
THEOREM ClassesAreTheirOwnersHolds == Spec => ClassesAreTheirOwners
<1>1. Init => CallsAreOwners
  BY DEF Init, CallsAreOwners
<1>2. IInv /\ CallsAreOwners /\ [Next]_vars => CallsAreOwners'
  BY CallsStayOwners
<1>3. IInv /\ CallsAreOwners /\ [Next]_vars =>
        [\A k \in Classroom : Changed(k) =>
            \E r \in Req :
               /\ pc[r] \in {"checked", "read"} /\ pc'[r] \in {"saved", "ok"}
               /\ ActsOn(call[r], k) /\ Owned(call[r].user, k)]_vars
  BY ChangesAreOwners
<1> QED
  BY <1>1, <1>2, <1>3, RosterInvariance, PTL DEF Spec, ClassesAreTheirOwners

=============================================================================
