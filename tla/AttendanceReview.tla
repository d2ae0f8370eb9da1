-------------------------- MODULE AttendanceReview --------------------------
(***************************************************************************)
(* Attendance sessions from upload to the confirmed register: the upload   *)
(* endpoint and its background pipeline task, and the review calls         *)
(* (override, resolve, confirm) and polls of teachers and admins, each a   *)
(* database transaction of its own.                                        *)
(*                                                                         *)
(* A call first loads the session with AttendanceRepository                *)
(* .get_with_details, which is one SELECT for the session and one for each *)
(* selectin relationship.  PostgreSQL runs them READ COMMITTED, so every   *)
(* SELECT sees what is committed when it runs.  What follows, the guards   *)
(* and the changes, works on the loaded objects: later SELECTs of the same *)
(* rows do not refresh them (identity map).  The commit flushes, for every *)
(* changed object, an UPDATE of the columns whose value differs from the   *)
(* loaded one, and the other columns keep what other transactions wrote.   *)
(* The flush locks the rows it updates until the commit, so the writes of  *)
(* a call are one atomic step here.                                        *)
(*                                                                         *)
(* A definition named X_Something stands before the definition X of the    *)
(* code and changes it the way a slip would; no action uses it.            *)
(***************************************************************************)
EXTENDS FaceOutcomes, FiniteSets

CONSTANTS
    Session,        \* attendance sessions (rows, before and after insertion)
    Actor,          \* users, each with a valid access token
    Admin,          \* the users with role admin
    Teacher,        \* [Session -> Actor]: teacher of the session's class
    MaxFaces,       \* bound: faces detected in the images of one session
    Req,            \* ids of review calls; each id is used for one call
    CallInputs,     \* bound: the calls clients make, a subset of Call
    Faults          \* the kinds of failure of the environment, of FaultKinds

FaultKinds == {"crash", "refresh", "load", "mark"}

ReviewAssumption ==
    /\ Admin \subseteq Actor
    /\ Teacher \in [Session -> Actor]
    /\ MaxFaces \in Nat
    /\ NULL \notin Actor
    /\ Faults \subseteq FaultKinds
    /\ IsFiniteSet(Student)

ASSUME ReviewConstants == ReviewAssumption

VARIABLES
    session,        \* attendance_sessions: status, confirmed_at
    evidence,       \* face_detections of a session, by position of the face
    records,        \* attendance_records of a session, by student
    audit,          \* audit_logs
    task,           \* stage of the background task of a session
    roster,         \* the roster a running task has read
    pc,             \* stage of a review call
    call,           \* its arguments
    seen            \* the rows it has loaded

dbVars   == <<session, evidence, records, audit>>
taskVars == <<task, roster>>
reqVars  == <<pc, call, seen>>
vars     == <<session, evidence, records, audit, task, roster, pc, call, seen>>

-----------------------------------------------------------------------------
(* Rows.                                                                   *)

Face         == 1 .. MaxFaces
\* "none": no row yet.  The other four are the enum.
SessionStatus == {"none", "processing", "pending_review", "confirmed", "failed"}
AttendanceStatus == {"present", "absent", "late", "excused"}

\* A detection id: the face's session (through session_image) and position.
DetectionId == [session : Session, face : Face]

\* confirmed_at is the time of the confirming call: the call stands for it.
SessionRow == [status : SessionStatus, confirmed_at : Req \cup {NULL}]

Detection ==
    [match_status        : MatchStatus,
     matched_student_id  : Student \cup {NULL},
     confidence          : Similarity \cup {NULL},
     resolved_student_id : Student \cup {NULL},
     resolved_by         : Actor \cup {NULL}]

Record ==
    [status       : AttendanceStatus,
     source       : {"ai", "manual"},
     confidence   : Similarity \cup {NULL},
     detection_id : DetectionId \cup {NULL},
     marked_by    : Actor \cup {NULL}]

\* Evidence and records of one session: functions on the faces detected and
\* on the students of the roster the pipeline read.
EvidenceRows == UNION {[1 .. n -> Detection] : n \in 0 .. MaxFaces}
RecordRows   == UNION {[R -> Record] : R \in SUBSET Student}
NoRows       == [x \in {} |-> NULL]

\* The calls of the review board.
OverrideCall == [op : {"override"}, user : Actor, session : Session,
                 student : Student, status : AttendanceStatus]
ResolveCall  == [op : {"resolve"}, user : Actor, session : Session,
                 detection : DetectionId, student : Student \cup {NULL},
                 mark_present : BOOLEAN]
ConfirmCall  == [op : {"confirm"}, user : Actor, session : Session]
PollCall     == [op : {"poll"}, user : Actor, session : Session]
Call         == OverrideCall \cup ResolveCall \cup ConfirmCall \cup PollCall

ASSUME CallConstants == CallInputs \subseteq Call

\* An audit entry has the user, action, entity and payload of the call that
\* wrote it; present and total are the rest of the payload of a confirmation.
AuditEntry == [id : Req, call : Call, present : Nat, total : Nat]

Snapshot == [session  : SessionRow,
             evidence : EvidenceRows,
             records  : RecordRows]

NoRow      == [status |-> "none", confirmed_at |-> NULL]
NothingSeen == [session |-> NoRow, evidence |-> NoRows, records |-> NoRows]

-----------------------------------------------------------------------------
(* Columns.                                                                *)

\* What an UPDATE leaves in one column: the ORM writes it only when the new
\* value differs from the loaded one.
Column(stored, loaded, new) == IF new = loaded THEN stored ELSE new

UpdateRecord(stored, loaded, new) ==
    [status       |-> Column(stored.status, loaded.status, new.status),
     source       |-> Column(stored.source, loaded.source, new.source),
     confidence   |-> Column(stored.confidence, loaded.confidence,
                             new.confidence),
     detection_id |-> Column(stored.detection_id, loaded.detection_id,
                             new.detection_id),
     marked_by    |-> Column(stored.marked_by, loaded.marked_by,
                             new.marked_by)]

\* A resolution changes resolved_student_id and resolved_by only.
UpdateDetection(stored, loaded, student, user) ==
    [stored EXCEPT
        !.resolved_student_id = Column(@, loaded.resolved_student_id, student),
        !.resolved_by         = Column(@, loaded.resolved_by, user)]

-----------------------------------------------------------------------------
(* The background task.                                                    *)

DetectionOf(outcome) ==
    [match_status        |-> outcome.status,
     matched_student_id  |-> outcome.student_id,
     confidence          |-> outcome.confidence,
     resolved_student_id |-> NULL,
     resolved_by         |-> NULL]

\* Face f is the matched detection of the student.
Matches(rows, f, student) ==
    /\ rows[f].match_status = "matched"
    /\ rows[f].matched_student_id = student

Draft_AbsentUnset(s, rows, student) ==
    LET f == CHOOSE f \in DOMAIN rows : Matches(rows, f, student)
    IN  [status |-> IF \E g \in DOMAIN rows : Matches(rows, g, student)
                    THEN "present" ELSE NULL,
         source |-> "ai", confidence |-> NULL, detection_id |-> NULL,
         marked_by |-> NULL]

\* The draft verdict of a roster student.
Draft(s, rows, student) ==
    IF \E f \in DOMAIN rows : Matches(rows, f, student)
    THEN LET f == CHOOSE f \in DOMAIN rows : Matches(rows, f, student)
         IN  [status |-> "present", source |-> "ai",
              confidence |-> rows[f].confidence,
              detection_id |-> [session |-> s, face |-> f],
              marked_by |-> NULL]
    ELSE [status |-> "absent", source |-> "ai", confidence |-> NULL,
          detection_id |-> NULL, marked_by |-> NULL]

-----------------------------------------------------------------------------
Init ==
    /\ session  = [s \in Session |-> NoRow]
    /\ evidence = [s \in Session |-> NoRows]
    /\ records  = [s \in Session |-> NoRows]
    /\ audit    = {}
    /\ task     = [s \in Session |-> "none"]
    /\ roster   = [s \in Session |-> {}]
    /\ pc       = [r \in Req |-> "idle"]
    /\ call     = [r \in Req |-> NULL]
    /\ seen     = [r \in Req |-> NothingSeen]

\* POST /attendance/sessions by the teacher of the class or an admin: the
\* commit of AttendanceService.create_session.  The endpoint adds the
\* background task afterwards.
CreateSession(s) ==
    /\ session[s].status = "none"
    /\ session' = [session EXCEPT ![s].status = "processing"]
    /\ task' = [task EXCEPT ![s] = "created"]
    /\ UNCHANGED <<evidence, records, audit, roster>>
    /\ UNCHANGED reqVars

\* background.add_task, then the response: the task is ready to run.
Enqueue(s) ==
    /\ task[s] = "created"
    /\ task' = [task EXCEPT ![s] = "queued"]
    /\ UNCHANGED <<dbVars, roster, reqVars>>

\* The refresh after the commit of create_session fails: the endpoint raises
\* before add_task.
RefreshFails(s) ==
    /\ "refresh" \in Faults
    /\ task[s] = "created"
    /\ task' = [task EXCEPT ![s] = "lost"]
    /\ UNCHANGED <<dbVars, roster, reqVars>>

\* process_session loads the session, finds it processing (no other step
\* moves a session out of processing while its one task is queued), and _run
\* reads the class roster.
TaskStart(s) ==
    /\ task[s] = "queued"
    /\ session[s].status = "processing"
    /\ \E enrolled \in SUBSET Student :
          roster' = [roster EXCEPT ![s] = enrolled]
    /\ task' = [task EXCEPT ![s] = "running"]
    /\ UNCHANGED <<dbVars, reqVars>>

\* The first load of process_session raises: it is outside the try.
TaskLoadFails(s) ==
    /\ "load" \in Faults
    /\ task[s] = "queued"
    /\ task' = [task EXCEPT ![s] = "lost"]
    /\ UNCHANGED <<dbVars, roster, reqVars>>

\* The end of _run: detections, one record per roster student and the status
\* in one commit.  The per-face work that computes the outcomes writes no row.
TaskCommit(s) ==
    /\ task[s] = "running"
    /\ \E n \in 0 .. MaxFaces :
       \E outcomes \in [1 .. n -> OutcomesFor(roster[s])] :
          LET rows == [f \in 1 .. n |-> DetectionOf(Dedupe(outcomes)[f])]
          IN  /\ evidence' = [evidence EXCEPT ![s] = rows]
              /\ records' = [records EXCEPT ![s] =
                    [st \in roster[s] |-> Draft(s, rows, st)]]
    /\ session' = [session EXCEPT ![s].status = "pending_review"]
    /\ task' = [task EXCEPT ![s] = "done"]
    /\ roster' = [roster EXCEPT ![s] = {}]
    /\ UNCHANGED audit
    /\ UNCHANGED reqVars

TaskRaises_NoRollback(s) ==
    /\ task[s] = "running"
    /\ task' = [task EXCEPT ![s] = "failing"]
    /\ roster' = [roster EXCEPT ![s] = {}]
    /\ evidence' = [evidence EXCEPT ![s] =
          [f \in 1 .. MaxFaces |-> DetectionOf(NoMatch("unknown"))]]
    /\ UNCHANGED <<session, records, audit, reqVars>>

TaskRaises_Uncaught(s) ==
    /\ task[s] = "running"
    /\ task' = [task EXCEPT ![s] = "lost"]
    /\ roster' = [roster EXCEPT ![s] = {}]
    /\ UNCHANGED <<dbVars, reqVars>>

\* Any exception inside _run: the transaction is rolled back.
TaskRaises(s) ==
    /\ task[s] = "running"
    /\ task' = [task EXCEPT ![s] = "failing"]
    /\ roster' = [roster EXCEPT ![s] = {}]
    /\ UNCHANGED <<dbVars, reqVars>>

\* The handler reads the session again and marks it failed.
TaskMarksFailed(s) ==
    /\ task[s] = "failing"
    /\ session' = [session EXCEPT ![s].status = "failed"]
    /\ task' = [task EXCEPT ![s] = "done"]
    /\ UNCHANGED <<evidence, records, audit, roster, reqVars>>

\* The handler's own reads or commit raise: nothing catches that.
TaskMarkFails(s) ==
    /\ "mark" \in Faults
    /\ task[s] = "failing"
    /\ task' = [task EXCEPT ![s] = "lost"]
    /\ UNCHANGED <<dbVars, roster, reqVars>>

TaskStep(s) == \/ Enqueue(s)
               \/ TaskStart(s)
               \/ TaskCommit(s)
               \/ TaskRaises(s)
               \/ TaskMarksFailed(s)

TaskFault(s) == RefreshFails(s) \/ TaskLoadFails(s) \/ TaskMarkFails(s)

-----------------------------------------------------------------------------
(* The review calls.                                                       *)

\* The call is over, with or without an effect.
Finish(r) ==
    /\ pc' = [pc EXCEPT ![r] = "done"]
    /\ call' = [call EXCEPT ![r] = NULL]
    /\ seen' = [seen EXCEPT ![r] = NothingSeen]
    /\ UNCHANGED taskVars

\* get_with_details, first SELECT: the session row.  Without a row the call
\* answers 404 at once.
ReadSession(r, c) ==
    /\ pc[r] = "idle"
    /\ session[c.session].status # "none"
    /\ call' = [call EXCEPT ![r] = c]
    /\ seen' = [seen EXCEPT ![r].session = session[c.session]]
    /\ pc' = [pc EXCEPT ![r] = "detections"]
    /\ UNCHANGED <<dbVars, taskVars>>

\* The SELECTs of the images and their detections.
ReadDetections(r) ==
    /\ pc[r] = "detections"
    /\ seen' = [seen EXCEPT ![r].evidence = evidence[call[r].session]]
    /\ pc' = [pc EXCEPT ![r] = "records"]
    /\ UNCHANGED <<dbVars, taskVars, call>>

\* The SELECT of the records.
ReadRecords(r) ==
    /\ pc[r] = "records"
    /\ seen' = [seen EXCEPT ![r].records = records[call[r].session]]
    /\ pc' = [pc EXCEPT ![r] = "loaded"]
    /\ UNCHANGED <<dbVars, taskVars, call>>

\* ClassService.get_owned: admins any class, teachers their own.
Owned(c) == c.user \in Admin \/ c.user = Teacher[c.session]

Reviewable_Confirmed(r) ==
    seen[r].session.status \in {"pending_review", "confirmed"}
Reviewable_Processing(r) ==
    seen[r].session.status \in {"pending_review", "processing"}

\* _require_reviewable, on the loaded row.
Reviewable(r) == seen[r].session.status = "pending_review"

Logged_Nothing(r, present, total) == audit' = audit

\* The entry of call r in the audit log.
Logged(r, present, total) ==
    audit' = audit \cup
        {[id |-> r, call |-> call[r], present |-> present, total |-> total]}

Overridden_NoMarker(old, c) ==
    [old EXCEPT !.status = c.status, !.source = "manual"]

\* The record object after an override.
Overridden(old, c) ==
    [old EXCEPT !.status = c.status, !.source = "manual", !.marked_by = c.user]

\* override_record on its loaded objects, and its commit.
Override(r) ==
    LET c   == call[r]
        old == seen[r].records[c.student]
    IN  /\ pc[r] = "loaded" /\ c.op = "override"
        /\ Owned(c) /\ Reviewable(r)
        /\ c.student \in DOMAIN seen[r].records
        /\ records' = [records EXCEPT ![c.session][c.student] =
                          UpdateRecord(@, old, Overridden(old, c))]
        /\ Logged(r, 0, 0)
        /\ Finish(r)
        /\ UNCHANGED <<session, evidence>>

DetectionFound_AnySession(r) ==
    /\ call[r].detection.face \in DOMAIN evidence[call[r].detection.session]
    /\ call[r].detection.face \in DOMAIN seen[r].evidence

\* The guards of resolve_detection: the face belongs to this session, nobody
\* was recognised on it, and the student named is on the roster.
DetectionFound(r) ==
    /\ call[r].detection.session = call[r].session
    /\ call[r].detection.face \in DOMAIN seen[r].evidence

Resolvable_Any(r) == TRUE

Resolvable(r) ==
    seen[r].evidence[call[r].detection.face].match_status
        \in {"unknown", "low_quality"}

StudentFound(r) ==
    call[r].student # NULL => call[r].student \in DOMAIN seen[r].records

MarkedPresent_KeepsSource(old, c) ==
    [old EXCEPT !.status = "present", !.marked_by = c.user,
                !.detection_id = c.detection, !.confidence = NULL]

\* The record object of the student a resolution marks present.
MarkedPresent(old, c) ==
    [old EXCEPT !.status = "present", !.source = "manual",
                !.marked_by = c.user, !.detection_id = c.detection,
                !.confidence = NULL]

\* resolved_by: nobody when the assignment is cleared.
Resolver(c) == IF c.student # NULL THEN c.user ELSE NULL

\* resolve_detection on its loaded objects, and its commit.
Resolve(r) ==
    LET c   == call[r]
        d   == c.detection
        old == seen[r].records[c.student]
    IN  /\ pc[r] = "loaded" /\ c.op = "resolve"
        /\ Owned(c) /\ Reviewable(r)
        /\ DetectionFound(r) /\ Resolvable(r) /\ StudentFound(r)
        /\ records' =
             IF c.student # NULL /\ c.mark_present
             THEN [records EXCEPT ![c.session][c.student] =
                      UpdateRecord(@, old, MarkedPresent(old, c))]
             ELSE records
        /\ evidence' = [evidence EXCEPT ![d.session][d.face] =
              UpdateDetection(@, seen[r].evidence[d.face],
                              c.student, Resolver(c))]
        /\ Logged(r, 0, 0)
        /\ Finish(r)
        /\ UNCHANGED session

PresentIn(rows) == {st \in DOMAIN rows : rows[st].status = "present"}

\* confirm_session on its loaded objects, and its commit.  Both columns of
\* the row differ from the loaded ones, so both are written.
Confirm(r) ==
    LET c == call[r]
    IN  /\ pc[r] = "loaded" /\ c.op = "confirm"
        /\ Owned(c) /\ Reviewable(r)
        /\ session' = [session EXCEPT ![c.session] =
              [status |-> "confirmed", confirmed_at |-> r]]
        /\ Logged(r, Cardinality(PresentIn(seen[r].records)),
                     Cardinality(DOMAIN seen[r].records))
        /\ Finish(r)
        /\ UNCHANGED <<evidence, records>>

\* get_detail answers with what it has loaded.
Poll(r) ==
    /\ pc[r] = "loaded" /\ call[r].op = "poll"
    /\ Owned(call[r])
    /\ Finish(r)
    /\ UNCHANGED dbVars

\* A guard of the call fails (403, 404, 409), or the database or the client
\* goes away before the commit: the transaction leaves nothing.
Abandon(r) ==
    /\ pc[r] \in {"detections", "records", "loaded"}
    /\ Finish(r)
    /\ UNCHANGED dbVars

CallStep(r) == \/ ReadDetections(r)
               \/ ReadRecords(r)
               \/ Override(r)
               \/ Resolve(r)
               \/ Confirm(r)
               \/ Poll(r)
               \/ Abandon(r)

\* The server process dies and starts again.  Tasks live in its memory only,
\* and the start-up (main.lifespan) does not look for unfinished sessions.
Crash ==
    /\ "crash" \in Faults
    /\ task' = [s \in Session |->
          IF task[s] \in {"none", "done"} THEN task[s] ELSE "lost"]
    /\ roster' = [s \in Session |-> {}]
    /\ pc' = [r \in Req |-> IF pc[r] = "idle" THEN "idle" ELSE "done"]
    /\ call' = [r \in Req |-> NULL]
    /\ seen' = [r \in Req |-> NothingSeen]
    /\ UNCHANGED dbVars

Next ==
    \/ \E s \in Session : CreateSession(s) \/ TaskStep(s) \/ TaskFault(s)
    \/ \E r \in Req : CallStep(r)
    \/ \E r \in Req, c \in CallInputs : ReadSession(r, c)
    \/ Crash

Spec == Init /\ [][Next]_vars

-----------------------------------------------------------------------------
(* Calls that do not overlap, and fairness.                                *)

InFlight(r) == pc[r] \notin {"idle", "done"}

\* At most one call is between its first read and its commit.
OneAtATime == \A r, q \in Req : InFlight(r) /\ InFlight(q) => r = q

\* The event loop runs a task that is ready, inference ends and the database
\* answers.  Nothing is assumed of the calls of users.
TaskFairness == \A s \in Session : WF_vars(TaskStep(s))

SerialSpec == Init /\ [][Next /\ OneAtATime']_vars /\ TaskFairness
FairSpec   == Spec /\ TaskFairness

-----------------------------------------------------------------------------
(* Properties.                                                             *)

\* The types of all the variables.
TypeOK ==
    /\ session \in [Session -> SessionRow]
    /\ evidence \in [Session -> EvidenceRows]
    /\ records \in [Session -> RecordRows]
    /\ audit \subseteq AuditEntry
    /\ task \in [Session -> {"none", "created", "queued", "running", "failing",
                             "done", "lost"}]
    /\ roster \in [Session -> SUBSET Student]
    /\ pc \in [Req -> {"idle", "detections", "records", "loaded", "done"}]
    /\ call \in [Req -> Call \cup {NULL}]
    /\ seen \in [Req -> Snapshot]

\* "Nothing is half-committed" (pipeline.process_session): a session that is
\* processing or failed has no evidence and no verdict, in the database and in
\* what any call acts upon.
NothingHalfCommitted ==
    /\ \A s \in Session :
          session[s].status \notin {"pending_review", "confirmed"} =>
              evidence[s] = NoRows /\ records[s] = NoRows
    /\ \A r \in Req :
          pc[r] = "loaded" /\ Reviewable(r) =>
              DOMAIN seen[r].records = DOMAIN records[call[r].session]

\* The facts about tasks and loaded rows that the invariants rest on.  A task
\* that is not over has a session that is processing.  Once a call has loaded a
\* session as reviewable, the faces it loads are those stored, up to their
\* resolution, and a record stored with source = ai has not changed since.
Settled(row) == row.status \in {"pending_review", "confirmed"}

TasksFitSessions ==
    \A s \in Session :
        /\ task[s] = "none" <=> session[s].status = "none"
        /\ task[s] \in {"created", "queued", "running", "failing"} =>
              session[s].status = "processing"

SameFaces(old, rows) ==
    /\ DOMAIN old = DOMAIN rows
    /\ \A f \in DOMAIN rows :
          /\ old[f].match_status = rows[f].match_status
          /\ old[f].matched_student_id = rows[f].matched_student_id
          /\ old[f].confidence = rows[f].confidence

SameDrafts(old, rows) ==
    /\ DOMAIN old = DOMAIN rows
    /\ \A st \in DOMAIN rows : rows[st].source = "ai" => old[st] = rows[st]

SnapshotIsSound(r) ==
    pc[r] \in {"detections", "records", "loaded"} =>
        /\ call[r] \in Call
        /\ Settled(seen[r].session) =>
              /\ Settled(session[call[r].session])
              /\ pc[r] # "detections" =>
                    SameFaces(seen[r].evidence, evidence[call[r].session])
              /\ pc[r] = "loaded" =>
                    SameDrafts(seen[r].records, records[call[r].session])

SnapshotsAreSound == \A r \in Req : SnapshotIsSound(r)

\* A verdict that still says source = ai is the one the pipeline drafted from
\* the evidence, whatever edits overlapped: a present one points to a matched
\* face of this student in this session, the most confident of the student's
\* faces, and an absent one means that no face was matched to the student.
IsDraft(s, rows, st, record) ==
    /\ record.marked_by = NULL
    /\ \/ \E f \in DOMAIN rows :
            /\ Matches(rows, f, st)
            /\ record.status = "present"
            /\ record.detection_id = [session |-> s, face |-> f]
            /\ record.confidence = rows[f].confidence
            /\ \A g \in DOMAIN rows : rows[g].matched_student_id = st =>
                    rows[g].confidence <= rows[f].confidence
       \/ /\ \A f \in DOMAIN rows : rows[f].matched_student_id # st
          /\ record.status = "absent"
          /\ record.detection_id = NULL /\ record.confidence = NULL

AiVerdictIsDraft ==
    \A s \in Session : \A st \in DOMAIN records[s] :
        records[s][st].source = "ai" =>
            IsDraft(s, evidence[s], st, records[s][st])

\* Call c edits the verdict of student st in session s, to status v.
Edits(c, s, st, v) ==
    /\ c.op \in {"override", "resolve"} /\ c.session = s /\ c.student = st
    /\ \/ c.op = "override" /\ c.status = v
       \/ c.op = "resolve" /\ c.mark_present /\ v = "present"

\* A verdict that says source = manual is accounted for in the audit log: its
\* status is one that a logged edit of this record asked for, and its marker
\* is the author of a logged edit of this record.  Overlapping edits may mix
\* the columns of two edits, but not bring in anything else.
ManualVerdictIsAudited ==
    \A s \in Session : \A st \in DOMAIN records[s] :
        records[s][st].source = "manual" =>
            /\ \E e \in audit : Edits(e.call, s, st, records[s][st].status)
            /\ \E e \in audit, v \in AttendanceStatus :
                  /\ Edits(e.call, s, st, v)
                  /\ e.call.user = records[s][st].marked_by

\* A verdict points to a face of its own session, and to one that the pipeline
\* matched to the student or that a logged resolution gave to the student.
EvidenceIsJustified ==
    \A s \in Session : \A st \in DOMAIN records[s] :
        LET d == records[s][st].detection_id
        IN  d # NULL =>
              /\ d.session = s /\ d.face \in DOMAIN evidence[s]
              /\ \/ Matches(evidence[s], d.face, st)
                 \/ \E e \in audit :
                       /\ e.call.op = "resolve" /\ e.call.detection = d
                       /\ e.call.student = st /\ e.call.mark_present
                       /\ evidence[s][d.face].match_status
                              \in {"unknown", "low_quality"}

\* A confirmed session is accounted for: the call whose time confirmed_at shows
\* wrote a confirmation of this session, by its teacher or an admin, and its
\* total is the size of the register.
ConfirmationIsAudited ==
    \A s \in Session : session[s].status = "confirmed" =>
        \E e \in audit :
            /\ e.id = session[s].confirmed_at
            /\ e.call.op = "confirm" /\ e.call.session = s
            /\ Owned(e.call)
            /\ e.total = Cardinality(DOMAIN records[s])

\* The abstract promise, with the register read off the records.
Verdicts(s) == [st \in DOMAIN records[s] |-> records[s][st].status]
Promise == INSTANCE AttendanceRegister WITH
    Verdict  <- AttendanceStatus,
    phase    <- [s \in Session |-> session[s].status],
    register <- [s \in Session |-> Verdicts(s)]

\* Whatever overlaps, a session only moves along the life cycle, failed and
\* confirmed are final, the students of a register never change, and one step
\* corrects one verdict.
KeepsOverlapPromise == Promise!OverlapSpec

\* Calls that do not overlap keep the full promise: the register of a
\* confirmed session is final.
KeepsPromise == Promise!Spec

\* "Terminal: records become the official register" (confirm_session) and
\* "Edits are only legal while the teacher is reviewing" (_require_reviewable).
FrozenRegister ==
    [][\A s \in Session : session[s].status = "confirmed" =>
          records'[s] = records[s] /\ evidence'[s] = evidence[s]]_vars

Confirmations(s) ==
    {e \in audit : e.call.op = "confirm" /\ e.call.session = s}

\* "Double-confirm is also an illegal transition" (test_attendance_flow): a
\* session is confirmed once.
ConfirmedOnce == \A s \in Session : Cardinality(Confirmations(s)) <= 1

\* The register of a confirmed session has as many present students as its
\* confirmation says.
AuditMatchesRegister ==
    \A s \in Session : \A e \in Confirmations(s) :
        e.present = Cardinality(PresentIn(records[s]))

\* An edit that is logged took effect: the step that logs it leaves the record
\* with the status it asked for, marked by its author, and the face it names
\* with the student it assigns and its author, or with neither when it clears it.
EditsTakeEffect ==
    [][\A e \in audit' \ audit :
          /\ \A s \in Session : \A st \in DOMAIN records[s] :
                \A v \in AttendanceStatus : Edits(e.call, s, st, v) =>
                   /\ records'[s][st].status = v
                   /\ records'[s][st].source = "manual"
                   /\ records'[s][st].marked_by = e.call.user
          /\ e.call.op = "resolve" =>
                LET face == evidence'[e.call.session][e.call.detection.face]
                IN  /\ face.resolved_student_id = e.call.student
                    /\ face.resolved_by = IF e.call.student = NULL
                                          THEN NULL ELSE e.call.user]_vars

\* Polling ends: a session that is processing leaves that status.
ProcessingEnds ==
    \A s \in Session : session[s].status = "processing"
                           ~> session[s].status # "processing"
=============================================================================
