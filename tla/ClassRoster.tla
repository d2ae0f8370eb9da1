---------------------------- MODULE ClassRoster ----------------------------
(***************************************************************************)
(* The registry behind attendance: classes, students and accounts, which   *)
(* are created under a unique key (code, registration number, e-mail) and  *)
(* patched, and the rosters of the classes.  Calls of the API (and runs of *)
(* the create_admin command) overlap; each is a transaction of its own,    *)
(* READ COMMITTED, that checks on what it has read and writes later.  The  *)
(* inserts and updates of a call are flushed by its commit, so they are    *)
(* one step, in which the unique indexes speak.                            *)
(*                                                                         *)
(* The three tables are one function on ids.  Of the columns that a PATCH  *)
(* may set, name stands for those without a meaning to the service.  since *)
(* is history: which other calls committed while a call was under way.     *)
(*                                                                         *)
(* A definition named X_Something stands before the definition X of the    *)
(* code and changes it the way a slip would; no action uses it.            *)
(***************************************************************************)
EXTENDS Naturals, Sequences

CONSTANTS
    Classroom, Student, User,   \* ids, before and after insertion
    Admin,          \* the users with role admin
    Key,            \* codes, registration numbers and addresses
    Lower,          \* str.lower on Key
    Name,           \* values of the other columns
    InitialRows,    \* the rows at the start
    Req,            \* ids of calls; each id is used for one call
    CallInputs,     \* bound: the calls clients make, a subset of Call
    NULL

Entity == Classroom \cup Student \cup User

\* owner is teacher_id of a class.
Row == [key : Key, owner : User \cup {NULL}, name : Name, is_active : BOOLEAN]

\* An enrollment and the call, and position in its list, that inserted it.
Enrollment == [classroom : Classroom, student : Student, by : Req, at : Nat]

\* What a PATCH sets: the fields of its body (exclude_unset).
Changes == [name : Name \cup {NULL}]
           \cup [is_active : BOOLEAN \cup {NULL}]
           \cup [name : Name \cup {NULL}, is_active : BOOLEAN \cup {NULL}]

ClassCreation   == [op : {"create_class"}, user : User, key : Key,
                    teacher : User \cup {NULL}]
StudentCreation == [op : {"create_student"}, user : User, key : Key]
AdminCreation   == [op : {"create_admin"}, key : Key]
Creation        == ClassCreation \cup StudentCreation \cup AdminCreation
Update          == [op : {"update"}, user : User, id : Classroom \cup Student,
                    changes : Changes]
Deactivation    == [op : {"deactivate"}, user : User,
                    id : Classroom \cup Student,
                    changes : [is_active : {FALSE}]]
EnrollCall      == [op : {"enroll"}, user : User, classroom : Classroom,
                    students : Seq(Student)]
UnenrollCall    == [op : {"unenroll"}, user : User, classroom : Classroom,
                    student : Student]
Call == Creation \cup Update \cup Deactivation \cup EnrollCall \cup UnenrollCall

Tables == {Classroom, Student, User}

\* No two rows of a table have the same key, nor two accounts the same address
\* in different case.
UniqueKeys(rs) ==
    /\ \A T \in Tables : \A x, y \in T :
          rs[x] # NULL /\ rs[y] # NULL /\ rs[x].key = rs[y].key => x = y
    /\ \A u, v \in User :
          rs[u] # NULL /\ rs[v] # NULL /\ Lower[rs[u].key] = Lower[rs[v].key]
              => u = v

RosterAssumption ==
    /\ Admin \subseteq User
    /\ NULL \notin Row \cup Enrollment \cup User \cup Call
    /\ NULL \notin Name /\ NULL \notin BOOLEAN
    /\ Classroom \cap Student = {} /\ (Classroom \cup Student) \cap User = {}
    /\ Lower \in [Key -> Key]
    /\ \A key \in Key : Lower[Lower[key]] = Lower[key]
    /\ InitialRows \in [Entity -> Row \cup {NULL}]
    /\ UniqueKeys(InitialRows)
    /\ \A u \in User : InitialRows[u] # NULL =>
          Lower[InitialRows[u].key] = InitialRows[u].key
    /\ CallInputs \subseteq Call

ASSUME RosterConstants == RosterAssumption

VARIABLES
    rows,           \* tables classes, students, users, by id
    enrollments,    \* table enrollments
    pc,             \* stage of a call
    call,           \* its arguments
    seen,           \* what it has read and still needs
    since           \* the other calls that committed since it began

dbVars  == <<rows, enrollments>>
reqVars == <<pc, call, seen, since>>
vars    == <<rows, enrollments, pc, call, seen, since>>

\* The row that was loaded, the students already enrolled, the enrollment.
Reads   == [row : Row \cup {NULL}, already : SUBSET Student,
            enrollment : Enrollment \cup {NULL}]
Nothing == [row |-> NULL, already |-> {}, enrollment |-> NULL]

InFlight(r) == pc[r] \in {"checked", "read", "saved"}

\* The roster of a class.
EnrolledIn(k) == {e.student : e \in {f \in enrollments : f.classroom = k}}

Init ==
    /\ rows = InitialRows
    /\ enrollments = {}
    /\ pc = [r \in Req |-> "idle"]
    /\ call = [r \in Req |-> NULL]
    /\ seen = [r \in Req |-> Nothing]
    /\ since = [r \in Req |-> {}]

-----------------------------------------------------------------------------
(* The course of a call.                                                   *)

\* get_current_user: the account is there and active.
Accepted(u) == rows[u] # NULL /\ rows[u].is_active

\* The call starts, with these first reads and this stage.
Begin(r, c, what, stage) ==
    /\ pc[r] = "idle"
    /\ "user" \in DOMAIN c => Accepted(c.user)
    /\ call' = [call EXCEPT ![r] = c]
    /\ seen' = [seen EXCEPT ![r] = what]
    /\ pc' = [pc EXCEPT ![r] = stage]
    /\ UNCHANGED <<dbVars, since>>

Goto(r, stage) ==
    /\ pc' = [pc EXCEPT ![r] = stage]
    /\ UNCHANGED <<call, seen>>

\* The commit of call r; those under way are told (history).
Commits(r, stage) ==
    /\ Goto(r, stage)
    /\ since' = [q \in Req |-> IF q # r /\ InFlight(q)
                               THEN since[q] \cup {r} ELSE since[q]]

\* The commit raises IntegrityError: nothing is written, the answer is a 500.
CommitFails(r) ==
    /\ Goto(r, "failed")
    /\ UNCHANGED <<dbVars, since>>

\* The client or the database goes away before the commit.
Abandon(r) ==
    /\ pc[r] \in {"checked", "read"}
    /\ Goto(r, "gone")
    /\ UNCHANGED <<dbVars, since>>

-----------------------------------------------------------------------------
(* Creating.                                                               *)

\* The table that a creation inserts into.
Table(c) == CASE c.op = "create_class"   -> Classroom
              [] c.op = "create_student" -> Student
              [] c.op = "create_admin"   -> User

KeyOf_AsGiven(c) == c.key

\* Addresses are looked up and stored in lower case, the other keys as given.
KeyOf(c) == IF c.op = "create_admin" THEN Lower[c.key] ELSE c.key

Taken(T, key) == \E x \in T : rows[x] # NULL /\ rows[x].key = key

\* The lookup by key; the API and the command stop when it finds a row.
CheckFree(r, c) ==
    /\ c \in Creation
    /\ Begin(r, c, Nothing,
             IF Taken(Table(c), KeyOf(c)) THEN "refused" ELSE "checked")

\* A class belongs to its creator, or to the teacher an admin names.
Assigned(c) == c.user \in Admin /\ c.teacher # NULL

OwnerOf(c) == IF c.op # "create_class" THEN NULL
              ELSE IF Assigned(c) THEN c.teacher ELSE c.user

\* The unique index on the key column.
Indexed(T, key) == Taken(T, key)

\* The INSERT and the commit.
Create(r) ==
    LET c == call[r]
    IN  /\ pc[r] = "checked" /\ c \in Creation
        /\ IF c.op = "create_class" /\ Assigned(c) /\ ~Accepted(c.teacher)
           THEN Goto(r, "refused") /\ UNCHANGED <<dbVars, since>>
           ELSE IF Indexed(Table(c), KeyOf(c)) THEN CommitFails(r)
           ELSE /\ \E x \in Table(c), name \in Name :
                      /\ rows[x] = NULL
                      /\ c.op = "create_admin" => x \in Admin
                      /\ rows' = [rows EXCEPT ![x] =
                            [key |-> KeyOf(c), owner |-> OwnerOf(c),
                             name |-> name, is_active |-> TRUE]]
                /\ Commits(r, "ok")
                /\ UNCHANGED enrollments

-----------------------------------------------------------------------------
(* Patching and deactivating.                                              *)

\* ClassService.get_owned: 404 without the class, 403 unless it is the user's
\* or the user is an admin.  Neither fact changes once it is true.
Owned(u, k) == rows[k] # NULL /\ (u \in Admin \/ rows[k].owner = u)

\* Classes are their owner's; any user may change a student.
Load(r, c) ==
    /\ c \in Update \cup Deactivation
    /\ Begin(r, c, [Nothing EXCEPT !.row = rows[c.id]],
             IF rows[c.id] # NULL /\ (c.id \in Classroom => Owned(c.user, c.id))
             THEN "checked" ELSE "refused")

\* What the UPDATE leaves in one column: the ORM writes it only when the new
\* value differs from the loaded one.
Column(stored, loaded, new) == IF new = loaded THEN stored ELSE new

Patched_WholeRow(stored, loaded, changes) ==
    [loaded EXCEPT
        !.name = IF "name" \in DOMAIN changes THEN changes.name ELSE @,
        !.is_active = IF "is_active" \in DOMAIN changes THEN changes.is_active ELSE @]

\* The stored row after the UPDATE.
Patched(stored, loaded, changes) ==
    [stored EXCEPT
        !.name = IF "name" \in DOMAIN changes
                 THEN Column(@, loaded.name, changes.name) ELSE @,
        !.is_active = IF "is_active" \in DOMAIN changes
                      THEN Column(@, loaded.is_active, changes.is_active) ELSE @]

\* setattr for each field of the body on the loaded row, and the commit.  The
\* schema lets a field be null, the column does not.
Save(r) ==
    LET c == call[r]
    IN  /\ pc[r] = "checked" /\ c \in Update \cup Deactivation
        /\ IF \E field \in DOMAIN c.changes : c.changes[field] = NULL
           THEN CommitFails(r)
           ELSE /\ rows' = [rows EXCEPT ![c.id] = Patched(@, seen[r].row, c.changes)]
                /\ Commits(r, IF c.op = "update" THEN "saved" ELSE "ok")
                /\ UNCHANGED enrollments

-----------------------------------------------------------------------------
(* Rosters.                                                                *)

Listed(c) == {c.students[i] : i \in DOMAIN c.students}

Enrollable_Any(c) == \A st \in Listed(c) : rows[st] # NULL

\* get_many: 404 for an unknown student, 409 for an inactive one.
Enrollable(c) == \A st \in Listed(c) : rows[st] # NULL /\ rows[st].is_active

\* enroll up to its checks.
CheckStudents(r, c) ==
    /\ c \in EnrollCall
    /\ Begin(r, c, Nothing, IF Owned(c.user, c.classroom) /\ Enrollable(c)
                            THEN "checked" ELSE "refused")

\* already = enrolled_student_ids(class_id).
ReadRoster(r) ==
    /\ pc[r] = "checked" /\ call[r] \in EnrollCall
    /\ seen' = [seen EXCEPT ![r].already = EnrolledIn(call[r].classroom)]
    /\ pc' = [pc EXCEPT ![r] = "read"]
    /\ UNCHANGED <<dbVars, call, since>>

NewRows_Ignoring(r) ==
    {[classroom |-> call[r].classroom, student |-> call[r].students[i], by |-> r, at |-> i] :
        i \in DOMAIN call[r].students}
NewRows_Break(r) ==
    {[classroom |-> call[r].classroom, student |-> call[r].students[i], by |-> r, at |-> i] :
        i \in {j \in DOMAIN call[r].students :
                  \A h \in 1 .. j : call[r].students[h] \notin seen[r].already}}

\* One new row for each entry of the list that is not in already.
NewRows(r) ==
    LET c == call[r]
    IN  {[classroom |-> c.classroom, student |-> c.students[i], by |-> r, at |-> i] :
            i \in {j \in DOMAIN c.students : c.students[j] \notin seen[r].already}}

\* uq_enrollment refuses the rows.
Clashes(new) ==
    \E e \in new, f \in new \cup enrollments :
        e # f /\ e.classroom = f.classroom /\ e.student = f.student

\* The INSERTs and the commit.
Enroll(r) ==
    /\ pc[r] = "read"
    /\ IF Clashes(NewRows(r)) THEN CommitFails(r)
       ELSE /\ enrollments' = enrollments \cup NewRows(r)
            /\ Commits(r, "saved")
            /\ UNCHANGED rows

\* The answer is read after the commit: refresh, or list_enrollments.
Answer(r) ==
    /\ pc[r] = "saved"
    /\ Goto(r, "ok")
    /\ UNCHANGED <<dbVars, since>>

\* unenroll up to get_enrollment: 404 without a row.
FindEnrollment(r, c) ==
    /\ c \in UnenrollCall
    /\ Owned(c.user, c.classroom)
    /\ \/ /\ c.student \notin EnrolledIn(c.classroom)
          /\ Begin(r, c, Nothing, "refused")
       \/ \E e \in enrollments :
             /\ e.classroom = c.classroom /\ e.student = c.student
             /\ Begin(r, c, [Nothing EXCEPT !.enrollment = e], "checked")

\* The DELETE, by id: it may find no row any more, and never another one.
Unenroll(r) ==
    /\ pc[r] = "checked" /\ call[r] \in UnenrollCall
    /\ enrollments' = enrollments \ {seen[r].enrollment}
    /\ Commits(r, "ok")
    /\ UNCHANGED rows

Start(r, c) ==
    CheckFree(r, c) \/ Load(r, c) \/ CheckStudents(r, c) \/ FindEnrollment(r, c)

CallStep(r) == \/ Create(r)
               \/ Save(r)
               \/ ReadRoster(r)
               \/ Enroll(r)
               \/ Unenroll(r)
               \/ Answer(r)
               \/ Abandon(r)

Next == \E r \in Req : CallStep(r) \/ \E c \in CallInputs : Start(r, c)

Spec == Init /\ [][Next]_vars

-----------------------------------------------------------------------------
(* Properties.                                                             *)

\* The types of all the variables.
TypeOK ==
    /\ rows \in [Entity -> Row \cup {NULL}]
    /\ enrollments \subseteq Enrollment
    /\ pc \in [Req -> {"idle", "checked", "read", "saved", "ok", "refused",
                       "failed", "gone"}]
    /\ call \in [Req -> Call \cup {NULL}]
    /\ seen \in [Req -> Reads]
    /\ since \in [Req -> SUBSET Req]

\* Creations and enrollments check before they insert.  However they overlap,
\* codes, registration numbers and addresses stay unique, addresses even up to
\* case (login would find two accounts), and a student is on a roster once.
KeysAreUnique ==
    /\ UniqueKeys(rows)
    /\ \A e, f \in enrollments :
          e.classroom = f.classroom /\ e.student = f.student => e = f

Answered(r) == pc[r] # "ok" /\ pc'[r] = "ok"

Enrolls(c, k, st)   == c \in EnrollCall /\ c.classroom = k /\ st \in Listed(c)
Unenrolls(c, k, st) == c \in UnenrollCall /\ c.classroom = k /\ c.student = st

\* An answer 200 to a bulk enrollment shows all its students, and an answer 204
\* leaves the student off the roster, unless a call that overlapped did the
\* opposite: nothing is enrolled in part and no stale DELETE hits another row.
RosterCallsTakeEffect ==
    [][\A r \in Req : Answered(r) =>
          LET c == call[r]
          IN  /\ c \in EnrollCall => \A st \in Listed(c) :
                    \/ st \in EnrolledIn(c.classroom)'
                    \/ \E q \in since[r] : Unenrolls(call[q], c.classroom, st)
              /\ c \in UnenrollCall =>
                    \/ c.student \notin EnrolledIn(c.classroom)'
                    \/ \E q \in since[r] : Enrolls(call[q], c.classroom, c.student)]_vars

Sets(c, id, field) ==
    c \in Update \cup Deactivation /\ c.id = id /\ field \in DOMAIN c.changes

\* "Cannot enroll inactive students": whoever is put on a roster is active, or
\* was deactivated while the call that does it was under way.
EnrolledWereActive ==
    [][\A e \in enrollments' \ enrollments :
          \/ rows[e.student].is_active
          \/ \E q \in since[e.by] : Sets(call[q], e.student, "is_active")]_vars

\* An answer 200 to a PATCH shows every value it asked for, unless a call that
\* overlapped set the same column: an update is not lost to one that came
\* before it or that set another column.
PatchesTakeEffect ==
    [][\A r \in Req : Answered(r) /\ call[r] \in Update =>
          \A field \in DOMAIN call[r].changes :
             \/ rows'[call[r].id][field] = call[r].changes[field]
             \/ \E q \in since[r] : Sets(call[q], call[r].id, field)]_vars

\* A call that ends in a 500 has lost a race for its key or its students, or
\* was ill-formed: it set a column to null or named a student twice.
Repeats(c) == \E i, j \in DOMAIN c.students : i # j /\ c.students[i] = c.students[j]

FailuresHaveReasons ==
    \A r \in Req : pc[r] = "failed" =>
        LET c == call[r]
        IN  \/ /\ c \in Creation
               /\ \E q \in since[r] : /\ call[q] \in Creation
                                      /\ Table(call[q]) = Table(c)
                                      /\ KeyOf(call[q]) = KeyOf(c)
            \/ c \in Update /\ \E f \in DOMAIN c.changes : c.changes[f] = NULL
            \/ c \in EnrollCall /\ Repeats(c)
            \/ c \in EnrollCall /\ \E q \in since[r], st \in Listed(c) :
                                       Enrolls(call[q], c.classroom, st)
=============================================================================
