----------------------- MODULE AttendanceReviewProofs -----------------------
(***************************************************************************)
(* Theorems about AttendanceReview, for all sets of sessions, students,    *)
(* users and calls, all numbers of faces and every combination of faults.  *)
(***************************************************************************)
EXTENDS AttendanceReview, FaceOutcomesProofs, FiniteSetTheorems

-----------------------------------------------------------------------------
(* Lemmas about the operators.                                             *)

\* The rows a task inserts.
LEMMA DetectionsType ==
    ASSUME NEW n \in 0 .. MaxFaces, NEW R \in SUBSET Student,
           NEW outcomes \in [1 .. n -> OutcomesFor(R)]
    PROVE  [f \in 1 .. n |-> DetectionOf(Dedupe(outcomes)[f])] \in EvidenceRows
  <1>1. n \in Nat
    BY ReviewConstants DEF ReviewAssumption
  <1>2. \A f \in 1 .. n : Dedupe(outcomes)[f] \in Outcome
    BY <1>1, DedupeType
  <1>3. \A f \in 1 .. n : DetectionOf(Dedupe(outcomes)[f]) \in Detection
    BY <1>2 DEF DetectionOf, Detection, Outcome
  <1>. QED  BY <1>3 DEF EvidenceRows

\* A draft is a record.
LEMMA DraftType ==
    ASSUME NEW s \in Session, NEW st \in Student, NEW rows \in EvidenceRows
    PROVE  Draft(s, rows, st) \in Record
  <1>1. PICK n \in 0 .. MaxFaces : rows \in [1 .. n -> Detection]
    BY DEF EvidenceRows
  <1>2. CASE \E f \in DOMAIN rows : Matches(rows, f, st)
    <2>. DEFINE f == CHOOSE f \in DOMAIN rows : Matches(rows, f, st)
    <2>1. f \in DOMAIN rows
      BY <1>2
    <2>2. f \in Face /\ rows[f] \in Detection
      BY <1>1, <2>1, ReviewConstants DEF ReviewAssumption, Face
    <2>3. Draft(s, rows, st) =
            [status |-> "present", source |-> "ai", confidence |-> rows[f].confidence,
             detection_id |-> [session |-> s, face |-> f], marked_by |-> NULL]
      BY <1>2 DEF Draft
    <2>4. rows[f].confidence \in Similarity \cup {NULL}
      BY <2>2 DEF Detection
    <2>5. [session |-> s, face |-> f] \in DetectionId
      BY <2>2 DEF DetectionId
    <2>. QED  BY <2>3, <2>4, <2>5 DEF Record, AttendanceStatus
  <1>3. CASE ~\E f \in DOMAIN rows : Matches(rows, f, st)
    BY <1>3 DEF Draft, Record, AttendanceStatus
  <1>. QED  BY <1>2, <1>3

\* An UPDATE of a record leaves a record.
LEMMA UpdateRecordType ==
    ASSUME NEW stored \in Record, NEW loaded \in Record, NEW new \in Record
    PROVE  UpdateRecord(stored, loaded, new) \in Record
  BY DEF UpdateRecord, Column, Record

\* An UPDATE of a detection leaves a detection.
LEMMA UpdateDetectionType ==
    ASSUME NEW stored \in Detection, NEW loaded \in Detection,
           NEW student \in Student \cup {NULL}, NEW user \in Actor \cup {NULL}
    PROVE  /\ UpdateDetection(stored, loaded, student, user) \in Detection
           /\ UpdateDetection(stored, loaded, student, user).match_status
                = stored.match_status
           /\ UpdateDetection(stored, loaded, student, user).matched_student_id
                = stored.matched_student_id
           /\ UpdateDetection(stored, loaded, student, user).confidence
                = stored.confidence
  BY DEF UpdateDetection, Column, Detection

\* Changing one row of a session's records or evidence keeps their type.
LEMMA RowsType ==
    ASSUME NEW rows, NEW x, NEW v
    PROVE  /\ rows \in RecordRows /\ v \in Record =>
                /\ [rows EXCEPT ![x] = v] \in RecordRows
                /\ DOMAIN [rows EXCEPT ![x] = v] = DOMAIN rows
           /\ rows \in EvidenceRows /\ v \in Detection =>
                /\ [rows EXCEPT ![x] = v] \in EvidenceRows
                /\ DOMAIN [rows EXCEPT ![x] = v] = DOMAIN rows
  BY DEF RecordRows, EvidenceRows

\* The empty rows.
LEMMA NoRowsType == /\ NoRows \in RecordRows /\ NoRows \in EvidenceRows
                    /\ DOMAIN NoRows = {}
  <1>1. NoRows \in [{} -> Record] /\ NoRows \in [{} -> Detection] /\ DOMAIN NoRows = {}
    BY DEF NoRows
  <1>2. 0 \in 0 .. MaxFaces /\ 1 .. 0 = {}
    BY ReviewConstants DEF ReviewAssumption
  <1>3. NoRows \in [1 .. 0 -> Detection]
    BY <1>1, <1>2
  <1>4. NoRows \in EvidenceRows
    BY <1>2, <1>3 DEF EvidenceRows
  <1>. QED  BY <1>1, <1>4 DEF RecordRows

-----------------------------------------------------------------------------
(* Types.                                                                  *)

\* The types hold initially.
LEMMA InitType == Init => TypeOK
  BY NoRowsType DEF Init, TypeOK, SessionRow, SessionStatus, NoRow, NothingSeen,
     Snapshot

\* What is in the domain of a session's records or evidence, and its rows.
LEMMA RowsMembers ==
    ASSUME NEW rows, NEW x \in DOMAIN rows
    PROVE  /\ rows \in RecordRows => x \in Student /\ rows[x] \in Record
           /\ rows \in EvidenceRows => x \in Face /\ rows[x] \in Detection
  BY ReviewConstants DEF ReviewAssumption, RecordRows, EvidenceRows, Face

\* A call is of the kind its op says.
LEMMA CallKinds ==
    ASSUME NEW c \in Call
    PROVE  /\ c.user \in Actor /\ c.session \in Session
           /\ c.op = "override" => c \in OverrideCall
           /\ c.op = "resolve" => c \in ResolveCall
           /\ c.op = "confirm" => c \in ConfirmCall
  BY DEF Call, OverrideCall, ResolveCall, ConfirmCall, PollCall

\* What a task writes with n faces and these outcomes.
Commits(s, n, outcomes) ==
    LET rows == [f \in 1 .. n |-> DetectionOf(Dedupe(outcomes)[f])]
    IN  /\ evidence' = [evidence EXCEPT ![s] = rows]
        /\ records' = [records EXCEPT ![s] =
              [st \in roster[s] |-> Draft(s, rows, st)]]

\* The steps of the tasks keep the types.
LEMMA TaskType ==
    ASSUME TypeOK, NEW s \in Session,
           CreateSession(s) \/ TaskStep(s) \/ TaskFault(s)
    PROVE  TypeOK'
  <1>1. CASE CreateSession(s)
    BY <1>1 DEF CreateSession, TypeOK, SessionRow, SessionStatus, reqVars
  <1>2. CASE Enqueue(s) \/ RefreshFails(s) \/ TaskLoadFails(s) \/ TaskMarkFails(s)
    BY <1>2 DEF Enqueue, RefreshFails, TaskLoadFails, TaskMarkFails, TypeOK,
       dbVars, reqVars
  <1>3. CASE TaskStart(s) \/ TaskRaises(s)
    BY <1>3 DEF TaskStart, TaskRaises, TypeOK, dbVars, reqVars
  <1>4. CASE TaskMarksFailed(s)
    BY <1>4 DEF TaskMarksFailed, TypeOK, SessionRow, SessionStatus, reqVars
  <1>5. CASE TaskCommit(s)
    <2>0. PICK n \in 0 .. MaxFaces :
            \E outcomes \in [1 .. n -> OutcomesFor(roster[s])] :
              Commits(s, n, outcomes)
      BY <1>5 DEF TaskCommit, Commits
    <2>1. PICK outcomes \in [1 .. n -> OutcomesFor(roster[s])] :
            Commits(s, n, outcomes)
      BY <2>0
    <2>. DEFINE rows == [f \in 1 .. n |-> DetectionOf(Dedupe(outcomes)[f])]
    <2>2. roster[s] \in SUBSET Student
      BY DEF TypeOK
    <2>3. rows \in EvidenceRows
      BY <2>2, DetectionsType
    <2>. HIDE DEF rows
    <2>4. \A st \in roster[s] : Draft(s, rows, st) \in Record
      BY <2>2, <2>3, DraftType
    <2>5. [st \in roster[s] |-> Draft(s, rows, st)] \in RecordRows
      BY <2>2, <2>4 DEF RecordRows
    <2>6. evidence' \in [Session -> EvidenceRows] /\ records' \in [Session -> RecordRows]
      BY <2>1, <2>3, <2>5 DEF TypeOK, rows, Commits
    <2>7. session' \in [Session -> SessionRow]
      <3>1. session' = [session EXCEPT ![s].status = "pending_review"]
        BY <1>5 DEF TaskCommit
      <3>. QED  BY <3>1 DEF TypeOK, SessionRow, SessionStatus
    <2>8. /\ task' = [task EXCEPT ![s] = "done"] /\ roster' = [roster EXCEPT ![s] = {}]
          /\ UNCHANGED <<audit, pc, call, seen>>
      BY <1>5 DEF TaskCommit, reqVars
    <2>. QED  BY <2>6, <2>7, <2>8 DEF TypeOK
  <1>. QED  BY <1>1, <1>2, <1>3, <1>4, <1>5 DEF TaskStep, TaskFault

\* An UPDATE of one record, or of one detection, keeps the type of the table.
LEMMA RecordsUpdate ==
    ASSUME NEW table \in [Session -> RecordRows], NEW s \in Session, NEW st,
           NEW old \in Record, NEW new \in Record
    PROVE  [table EXCEPT ![s] = [table[s] EXCEPT ![st] =
              UpdateRecord(table[s][st], old, new)]] \in [Session -> RecordRows]
  <1>1. CASE st \in DOMAIN table[s]
    <2>1. UpdateRecord(table[s][st], old, new) \in Record
      BY <1>1, RowsMembers, UpdateRecordType
    <2>. QED  BY <2>1, RowsType
  <1>2. CASE st \notin DOMAIN table[s]
    <2>1. [table[s] EXCEPT ![st] = UpdateRecord(table[s][st], old, new)] = table[s]
      BY <1>2 DEF RecordRows
    <2>. QED  BY <2>1
  <1>. QED  BY <1>1, <1>2

LEMMA EvidenceUpdate ==
    ASSUME NEW table \in [Session -> EvidenceRows], NEW s \in Session, NEW f,
           NEW old \in Detection, NEW student \in Student \cup {NULL},
           NEW user \in Actor \cup {NULL}
    PROVE  [table EXCEPT ![s] = [table[s] EXCEPT ![f] =
              UpdateDetection(table[s][f], old, student, user)]]
                \in [Session -> EvidenceRows]
  <1>1. CASE f \in DOMAIN table[s]
    <2>1. UpdateDetection(table[s][f], old, student, user) \in Detection
      BY <1>1, RowsMembers, UpdateDetectionType
    <2>. QED  BY <2>1, RowsType
  <1>2. CASE f \notin DOMAIN table[s]
    <2>1. [table[s] EXCEPT ![f] = UpdateDetection(table[s][f], old, student, user)]
            = table[s]
      BY <1>2 DEF EvidenceRows
    <2>. QED  BY <2>1
  <1>. QED  BY <1>1, <1>2

\* The numbers of records and of present students are numbers.
LEMMA CountsType ==
    ASSUME NEW rows \in RecordRows
    PROVE  /\ Cardinality(PresentIn(rows)) \in Nat
           /\ Cardinality(DOMAIN rows) \in Nat
  <1>1. DOMAIN rows \subseteq Student /\ PresentIn(rows) \subseteq Student
    BY DEF RecordRows, PresentIn
  <1>. QED  BY <1>1, ReviewConstants, FS_Subset, FS_CardinalityType
            DEF ReviewAssumption

\* An audit entry of a call.
LEMMA LoggedType ==
    ASSUME TypeOK, NEW r \in Req, call[r] \in Call, NEW p \in Nat, NEW n \in Nat,
           Logged(r, p, n)
    PROVE  audit' \subseteq AuditEntry
  BY DEF Logged, TypeOK, AuditEntry

\* Finishing a call keeps the types of what it changes.
LEMMA FinishType ==
    ASSUME TypeOK, NEW r \in Req, Finish(r)
    PROVE  /\ pc' \in [Req -> {"idle", "detections", "records", "loaded", "done"}]
           /\ call' \in [Req -> Call \cup {NULL}]
           /\ seen' \in [Req -> Snapshot]
           /\ task' = task /\ roster' = roster
  BY NoRowsType DEF Finish, TypeOK, taskVars, NothingSeen, NoRow, Snapshot,
     SessionRow, SessionStatus

\* The steps of the calls keep the types.
LEMMA CallType ==
    ASSUME TypeOK, NEW r \in Req, CallStep(r), call[r] \in Call
    PROVE  TypeOK'
  <1>. DEFINE c == call[r]
  <1>0. c.user \in Actor /\ c.session \in Session
    BY CallKinds
  <1>1. seen[r] \in Snapshot
    BY DEF TypeOK
  <1>2. CASE ReadDetections(r) \/ ReadRecords(r)
    <2>1. seen' \in [Req -> Snapshot]
      <3>1. evidence[c.session] \in EvidenceRows /\ records[c.session] \in RecordRows
        BY <1>0 DEF TypeOK
      <3>2. [seen[r] EXCEPT !.evidence = evidence[c.session]] \in Snapshot
        BY <1>1, <3>1 DEF Snapshot
      <3>3. [seen[r] EXCEPT !.records = records[c.session]] \in Snapshot
        BY <1>1, <3>1 DEF Snapshot
      <3>4. \/ seen' = [seen EXCEPT ![r] = [seen[r] EXCEPT !.evidence = evidence[c.session]]]
            \/ seen' = [seen EXCEPT ![r] = [seen[r] EXCEPT !.records = records[c.session]]]
        BY <1>2 DEF ReadDetections, ReadRecords, TypeOK
      <3>. QED  BY <3>2, <3>3, <3>4 DEF TypeOK
    <2>. QED
      BY <1>2, <2>1 DEF ReadDetections, ReadRecords, TypeOK, dbVars, taskVars
  <1>3. CASE Poll(r) \/ Abandon(r)
    BY <1>3, FinishType DEF Poll, Abandon, TypeOK, dbVars
  <1>4. CASE Override(r)
    <2>. DEFINE old == seen[r].records[c.student]
    <2>1. c \in OverrideCall
      BY <1>4, CallKinds DEF Override
    <2>2. c.student \in DOMAIN seen[r].records /\ seen[r].records \in RecordRows
      BY <1>1, <1>4 DEF Override, Snapshot
    <2>3. old \in Record
      BY <2>2, RowsMembers
    <2>4. Overridden(old, c) \in Record
      BY <1>0, <2>1, <2>3 DEF Overridden, Record, OverrideCall
    <2>5. records' = [records EXCEPT ![c.session] = [records[c.session] EXCEPT
              ![c.student] = UpdateRecord(records[c.session][c.student], old,
                                          Overridden(old, c))]]
      BY <1>0, <1>4 DEF Override, TypeOK
    <2>6. records' \in [Session -> RecordRows]
      BY <1>0, <2>3, <2>4, <2>5, RecordsUpdate DEF TypeOK
    <2>7. audit' \subseteq AuditEntry
      BY <1>4, LoggedType DEF Override
    <2>. QED  BY <1>4, <2>6, <2>7, FinishType DEF Override, TypeOK
  <1>5. CASE Resolve(r)
    <2>. DEFINE d   == c.detection
                old == seen[r].records[c.student]
                face == seen[r].evidence[d.face]
    <2>1. c \in ResolveCall
      BY <1>5, CallKinds DEF Resolve
    <2>2. d \in DetectionId /\ c.student \in Student \cup {NULL}
      BY <2>1 DEF ResolveCall
    <2>3. face \in Detection
      BY <1>1, <1>5, RowsMembers DEF Resolve, DetectionFound, Snapshot
    <2>4. evidence' = [evidence EXCEPT ![d.session] = [evidence[d.session] EXCEPT
              ![d.face] = UpdateDetection(evidence[d.session][d.face], face,
                                          c.student, Resolver(c))]]
      BY <1>5, <2>2 DEF Resolve, TypeOK, DetectionId
    <2>5. Resolver(c) \in Actor \cup {NULL}
      BY <1>0 DEF Resolver
    <2>6. evidence' \in [Session -> EvidenceRows]
      BY <2>2, <2>3, <2>4, <2>5, EvidenceUpdate DEF TypeOK, DetectionId
    <2>7. records' \in [Session -> RecordRows]
      <3>1. CASE c.student # NULL /\ c.mark_present
        <4>1. c.student \in DOMAIN seen[r].records /\ seen[r].records \in RecordRows
          BY <1>1, <1>5, <3>1 DEF Resolve, StudentFound, Snapshot
        <4>2. old \in Record
          BY <4>1, RowsMembers
        <4>3. MarkedPresent(old, c) \in Record
          BY <1>0, <2>2, <4>2 DEF MarkedPresent, Record, AttendanceStatus
        <4>4. records' = [records EXCEPT ![c.session] = [records[c.session] EXCEPT
                 ![c.student] = UpdateRecord(records[c.session][c.student], old,
                                             MarkedPresent(old, c))]]
          BY <1>0, <1>5, <3>1 DEF Resolve, TypeOK
        <4>. QED  BY <1>0, <4>2, <4>3, <4>4, RecordsUpdate DEF TypeOK
      <3>2. CASE ~(c.student # NULL /\ c.mark_present)
        BY <1>5, <3>2 DEF Resolve, TypeOK
      <3>. QED  BY <3>1, <3>2
    <2>8. audit' \subseteq AuditEntry
      BY <1>5, LoggedType DEF Resolve
    <2>. QED  BY <1>5, <2>6, <2>7, <2>8, FinishType DEF Resolve, TypeOK
  <1>6. CASE Confirm(r)
    <2>1. /\ Cardinality(PresentIn(seen[r].records)) \in Nat
          /\ Cardinality(DOMAIN seen[r].records) \in Nat
      BY <1>1, CountsType DEF Snapshot
    <2>2. audit' \subseteq AuditEntry
      BY <1>6, <2>1, LoggedType DEF Confirm
    <2>3. session' \in [Session -> SessionRow]
      BY <1>0, <1>6 DEF Confirm, TypeOK, SessionRow, SessionStatus
    <2>. QED  BY <1>6, <2>2, <2>3, FinishType DEF Confirm, TypeOK
  <1>. QED  BY <1>2, <1>3, <1>4, <1>5, <1>6 DEF CallStep

\* A call begins with a call of the inputs.
LEMMA ReadType ==
    ASSUME TypeOK, NEW r \in Req, NEW c \in CallInputs, ReadSession(r, c)
    PROVE  TypeOK'
  <1>1. c \in Call /\ c.session \in Session
    BY CallConstants, CallKinds
  <1>2. session[c.session] \in SessionRow
    BY <1>1 DEF TypeOK
  <1>. QED  BY <1>1, <1>2 DEF ReadSession, TypeOK, Snapshot, dbVars, taskVars

\* A crash keeps the types.
LEMMA CrashType == TypeOK /\ Crash => TypeOK'
  BY NoRowsType DEF Crash, TypeOK, dbVars, NothingSeen, NoRow, Snapshot,
     SessionRow, SessionStatus

-----------------------------------------------------------------------------
(* The inductive invariant.                                                *)

UnpublishedIsEmpty ==
    \A s \in Session : ~Settled(session[s]) =>
        evidence[s] = NoRows /\ records[s] = NoRows

IInv == TypeOK /\ TasksFitSessions /\ SnapshotsAreSound /\ UnpublishedIsEmpty

\* Both ways to compare an earlier load with what is stored are reflexive and
\* transitive.
LEMMA SameRows ==
    ASSUME NEW a, NEW b, NEW c
    PROVE  /\ SameFaces(a, a) /\ SameDrafts(a, a)
           /\ SameFaces(a, b) /\ SameFaces(b, c) => SameFaces(a, c)
           /\ SameDrafts(a, b) /\ SameDrafts(b, c) => SameDrafts(a, c)
  BY DEF SameFaces, SameDrafts

\* An edit leaves source = manual, whatever it raced with: a record stored as
\* ai is still as it was loaded.
LEMMA EditedIsManual ==
    ASSUME NEW stored \in Record, NEW old \in Record, NEW new \in Record,
           new.source = "manual", stored.source = "ai" => old = stored
    PROVE  UpdateRecord(stored, old, new).source = "manual"
  BY DEF UpdateRecord, Column, Record

\* What an editing call acts upon: its session is under review or confirmed,
\* and its loaded rows are sound.
LEMMA EditFacts ==
    ASSUME IInv, NEW r \in Req, pc[r] = "loaded", Reviewable(r)
    PROVE  /\ call[r] \in Call /\ call[r].session \in Session
           /\ call[r].user \in Actor
           /\ seen[r].records \in RecordRows /\ seen[r].evidence \in EvidenceRows
           /\ Settled(session[call[r].session])
           /\ SameFaces(seen[r].evidence, evidence[call[r].session])
           /\ SameDrafts(seen[r].records, records[call[r].session])
  <1>1. call[r] \in Call /\ Settled(seen[r].session)
    BY DEF IInv, SnapshotsAreSound, SnapshotIsSound, Reviewable, Settled
  <1>2. seen[r] \in Snapshot
    BY DEF IInv, TypeOK
  <1>. QED
    BY <1>1, <1>2, CallKinds DEF IInv, SnapshotsAreSound, SnapshotIsSound, Snapshot

\* An edit of one record keeps the students of its session and the drafts.
LEMMA EditKeepsDrafts ==
    ASSUME NEW rows \in RecordRows, NEW seenRows \in RecordRows,
           SameDrafts(seenRows, rows), NEW st \in DOMAIN seenRows,
           NEW new \in Record, new.source = "manual"
    PROVE  /\ st \in DOMAIN rows
           /\ [rows EXCEPT ![st] = UpdateRecord(rows[st], seenRows[st], new)]
                \in RecordRows
           /\ UpdateRecord(rows[st], seenRows[st], new).source = "manual"
           /\ SameDrafts(rows,
                [rows EXCEPT ![st] = UpdateRecord(rows[st], seenRows[st], new)])
  <1>1. st \in DOMAIN rows /\ (rows[st].source = "ai" => seenRows[st] = rows[st])
    BY DEF SameDrafts
  <1>2. rows[st] \in Record /\ seenRows[st] \in Record
    BY <1>1, RowsMembers
  <1>. DEFINE upd == UpdateRecord(rows[st], seenRows[st], new)
  <1>3. upd \in Record /\ upd.source = "manual"
    BY <1>1, <1>2, UpdateRecordType, EditedIsManual
  <1>. HIDE DEF upd
  <1>4. /\ [rows EXCEPT ![st] = upd] \in RecordRows
        /\ DOMAIN [rows EXCEPT ![st] = upd] = DOMAIN rows
    BY <1>3, RowsType
  <1>5. SameDrafts(rows, [rows EXCEPT ![st] = upd])
    BY <1>1, <1>3, <1>4 DEF SameDrafts
  <1>. QED  BY <1>1, <1>3, <1>4, <1>5 DEF upd

\* What an override writes.
LEMMA OverrideEffect ==
    ASSUME IInv, NEW r \in Req, Override(r)
    PROVE  LET c   == call[r]
               s   == c.session
               old == seen[r].records[c.student]
               upd == UpdateRecord(records[s][c.student], old, Overridden(old, c))
           IN  /\ c \in OverrideCall /\ s \in Session /\ Settled(session[s])
               /\ c.student \in DOMAIN records[s]
               /\ records[s][c.student] \in Record /\ old \in Record
               /\ records[s][c.student].source = "ai" => old = records[s][c.student]
               /\ records' = [records EXCEPT ![s] =
                                [records[s] EXCEPT ![c.student] = upd]]
               /\ upd.source = "manual"
               /\ SameDrafts(records[s], records'[s])
               /\ UNCHANGED <<session, evidence, task, roster>>
  <1>. DEFINE c   == call[r]
              s   == c.session
              old == seen[r].records[c.student]
              upd == UpdateRecord(records[s][c.student], old, Overridden(old, c))
  <1>1. /\ c \in Call /\ s \in Session /\ c.user \in Actor
        /\ seen[r].records \in RecordRows /\ Settled(session[s])
        /\ SameDrafts(seen[r].records, records[s])
    BY EditFacts DEF Override
  <1>2. c \in OverrideCall /\ c.student \in DOMAIN seen[r].records
    BY <1>1, CallKinds DEF Override
  <1>3. old \in Record
    BY <1>1, <1>2, RowsMembers
  <1>4. Overridden(old, c) \in Record /\ Overridden(old, c).source = "manual"
    BY <1>1, <1>2, <1>3 DEF Overridden, Record, OverrideCall
  <1>5. records[s] \in RecordRows
    BY <1>1 DEF IInv, TypeOK
  <1>6. /\ c.student \in DOMAIN records[s] /\ upd.source = "manual"
        /\ SameDrafts(records[s], [records[s] EXCEPT ![c.student] = upd])
    BY <1>1, <1>2, <1>4, <1>5, EditKeepsDrafts
  <1>7. /\ records' = [records EXCEPT ![s] = [records[s] EXCEPT ![c.student] = upd]]
        /\ UNCHANGED <<session, evidence, task, roster>>
    BY <1>1 DEF Override, IInv, TypeOK, Finish, taskVars
  <1>8. records'[s] = [records[s] EXCEPT ![c.student] = upd]
    BY <1>1, <1>7 DEF IInv, TypeOK
  <1>9. records[s][c.student] \in Record
    BY <1>5, <1>6, RowsMembers
  <1>10. records[s][c.student].source = "ai" => old = records[s][c.student]
    BY <1>1, <1>6 DEF SameDrafts
  <1>. HIDE DEF upd
  <1>11. SameDrafts(records[s], records'[s])
    BY <1>6, <1>8
  <1>. QED  BY <1>1, <1>2, <1>3, <1>6, <1>7, <1>9, <1>10, <1>11 DEF upd

\* What a resolution writes.
LEMMA ResolveEffect ==
    ASSUME IInv, NEW r \in Req, Resolve(r)
    PROVE  LET c   == call[r]
               s   == c.session
               d   == c.detection
               old == seen[r].records[c.student]
               upd == UpdateRecord(records[s][c.student], old, MarkedPresent(old, c))
           IN  /\ c \in ResolveCall /\ s \in Session /\ Settled(session[s])
               /\ d.session = s /\ d.face \in DOMAIN evidence[s]
               /\ evidence[s][d.face].match_status \in {"unknown", "low_quality"}
               /\ evidence' = [evidence EXCEPT ![s] = evidence'[s]]
               /\ SameFaces(evidence[s], evidence'[s])
               /\ c.student # NULL /\ c.mark_present =>
                    /\ c.student \in DOMAIN records[s]
                    /\ records[s][c.student] \in Record /\ old \in Record
                    /\ records[s][c.student].source = "ai" =>
                         old = records[s][c.student]
                    /\ records' = [records EXCEPT ![s] =
                                     [records[s] EXCEPT ![c.student] = upd]]
                    /\ upd.source = "manual"
               /\ ~(c.student # NULL /\ c.mark_present) => records' = records
               /\ SameDrafts(records[s], records'[s])
               /\ UNCHANGED <<session, task, roster>>
  <1>. DEFINE c   == call[r]
              s   == c.session
              d   == c.detection
              old == seen[r].records[c.student]
              upd == UpdateRecord(records[s][c.student], old, MarkedPresent(old, c))
  <1>1. /\ c \in Call /\ s \in Session /\ c.user \in Actor
        /\ seen[r].records \in RecordRows /\ seen[r].evidence \in EvidenceRows
        /\ Settled(session[s])
        /\ SameFaces(seen[r].evidence, evidence[s])
        /\ SameDrafts(seen[r].records, records[s])
    BY EditFacts DEF Resolve
  <1>2. c \in ResolveCall
    BY <1>1, CallKinds DEF Resolve
  <1>3. /\ d \in DetectionId /\ c.student \in Student \cup {NULL}
        /\ d.session = s /\ d.face \in DOMAIN seen[r].evidence
    BY <1>2 DEF ResolveCall, Resolve, DetectionFound
  <1>4. /\ d.face \in DOMAIN evidence[s]
        /\ evidence[s][d.face].match_status \in {"unknown", "low_quality"}
    BY <1>1, <1>3 DEF SameFaces, Resolve, Resolvable
  <1>5. /\ evidence[s] \in EvidenceRows /\ records[s] \in RecordRows
        /\ evidence[s][d.face] \in Detection
        /\ seen[r].evidence[d.face] \in Detection
    BY <1>1, <1>3, <1>4, RowsMembers DEF IInv, TypeOK
  <1>. DEFINE face == UpdateDetection(evidence[s][d.face], seen[r].evidence[d.face],
                                      c.student, Resolver(c))
  <1>6. /\ face \in Detection
        /\ face.match_status = evidence[s][d.face].match_status
        /\ face.matched_student_id = evidence[s][d.face].matched_student_id
        /\ face.confidence = evidence[s][d.face].confidence
    <2>1. Resolver(c) \in Actor \cup {NULL}
      BY <1>1 DEF Resolver
    <2>. DEFINE stored == evidence[s][d.face]
                loaded == seen[r].evidence[d.face]
                u      == Resolver(c)
    <2>2. /\ stored \in Detection /\ loaded \in Detection
          /\ c.student \in Student \cup {NULL} /\ u \in Actor \cup {NULL}
      BY <1>3, <1>5, <2>1
    <2>. HIDE DEF stored, loaded, u
    <2>3. /\ UpdateDetection(stored, loaded, c.student, u) \in Detection
          /\ UpdateDetection(stored, loaded, c.student, u).match_status
               = stored.match_status
          /\ UpdateDetection(stored, loaded, c.student, u).matched_student_id
               = stored.matched_student_id
          /\ UpdateDetection(stored, loaded, c.student, u).confidence
               = stored.confidence
      BY <2>2, UpdateDetectionType
    <2>. QED  BY <2>3 DEF stored, loaded, u
  <1>7. /\ evidence' = [evidence EXCEPT ![s] = [evidence[s] EXCEPT ![d.face] = face]]
        /\ evidence \in [Session -> EvidenceRows]
    BY <1>1, <1>3 DEF Resolve, IInv, TypeOK
  <1>. HIDE DEF face
  <1>8. evidence'[s] = [evidence[s] EXCEPT ![d.face] = face]
    BY <1>1, <1>7
  <1>9. SameFaces(evidence[s], evidence'[s])
    <2>1. DOMAIN evidence'[s] = DOMAIN evidence[s]
      BY <1>5, <1>6, <1>8, RowsType
    <2>. QED  BY <1>4, <1>6, <1>8, <2>1 DEF SameFaces
  <1>10. ASSUME c.student # NULL, c.mark_present
         PROVE  /\ c.student \in DOMAIN records[s]
                /\ records[s][c.student] \in Record /\ old \in Record
                /\ records[s][c.student].source = "ai" => old = records[s][c.student]
                /\ records' = [records EXCEPT ![s] =
                                 [records[s] EXCEPT ![c.student] = upd]]
                /\ upd.source = "manual"
                /\ SameDrafts(records[s], records'[s])
    <2>1. c.student \in DOMAIN seen[r].records
      BY <1>10 DEF Resolve, StudentFound
    <2>2. old \in Record
      BY <1>1, <2>1, RowsMembers
    <2>3. MarkedPresent(old, c) \in Record /\ MarkedPresent(old, c).source = "manual"
      BY <1>1, <1>3, <2>2 DEF MarkedPresent, Record, AttendanceStatus
    <2>4. /\ c.student \in DOMAIN records[s] /\ upd.source = "manual"
          /\ SameDrafts(records[s], [records[s] EXCEPT ![c.student] = upd])
      BY <1>1, <1>5, <2>1, <2>3, EditKeepsDrafts
    <2>5. records' = [records EXCEPT ![s] = [records[s] EXCEPT ![c.student] = upd]]
      BY <1>1, <1>10 DEF Resolve, IInv, TypeOK
    <2>6. records'[s] = [records[s] EXCEPT ![c.student] = upd]
      BY <1>1, <2>5 DEF IInv, TypeOK
    <2>7. records[s][c.student] \in Record
      BY <1>5, <2>4, RowsMembers
    <2>8. records[s][c.student].source = "ai" => old = records[s][c.student]
      BY <1>1, <2>4 DEF SameDrafts
    <2>. HIDE DEF upd
    <2>9. SameDrafts(records[s], records'[s])
      BY <2>4, <2>6
    <2>. QED  BY <2>2, <2>4, <2>5, <2>7, <2>8, <2>9
  <1>11. ~(c.student # NULL /\ c.mark_present) => records' = records
    BY DEF Resolve
  <1>12. SameDrafts(records[s], records'[s])
    BY <1>10, <1>11, SameRows
  <1>13. UNCHANGED <<session, task, roster>>
    BY DEF Resolve, Finish, taskVars
  <1>14. evidence' = [evidence EXCEPT ![s] = evidence'[s]]
    BY <1>7, <1>8
  <1>. QED  BY <1>1, <1>2, <1>3, <1>4, <1>9, <1>10, <1>11, <1>12, <1>13, <1>14

\* A step keeps what is published of session s: it stays so, its faces stay up
\* to their resolution, and the records it does not edit stay.
Kept(s) ==
    Settled(session[s]) =>
        /\ Settled(session'[s])
        /\ SameFaces(evidence[s], evidence'[s])
        /\ SameDrafts(records[s], records'[s])

\* The steps of a task act on their own session, before it is published.
LEMMA TaskEffect ==
    ASSUME IInv, NEW z \in Session, CreateSession(z) \/ TaskStep(z) \/ TaskFault(z)
    PROVE  /\ ~Settled(session[z])
           /\ \A s \in Session \ {z} :
                 /\ session'[s] = session[s] /\ task'[s] = task[s]
                 /\ evidence'[s] = evidence[s] /\ records'[s] = records[s]
           /\ task'[z] # "none" /\ session'[z].status \notin {"none", "confirmed"}
           /\ task'[z] \in {"created", "queued", "running", "failing"} =>
                 session'[z].status = "processing"
           /\ ~Settled(session'[z]) => evidence'[z] = NoRows /\ records'[z] = NoRows
           /\ UNCHANGED <<audit, pc, call, seen>>
  <1>1. /\ session \in [Session -> SessionRow]
        /\ task \in [Session -> {"none", "created", "queued", "running", "failing",
                                 "done", "lost"}]
        /\ evidence \in [Session -> EvidenceRows]
        /\ records \in [Session -> RecordRows]
    BY DEF IInv, TypeOK
  <1>2. /\ task[z] = "none" <=> session[z].status = "none"
        /\ task[z] \in {"created", "queued", "running", "failing"} =>
              session[z].status = "processing"
        /\ ~Settled(session[z]) => evidence[z] = NoRows /\ records[z] = NoRows
    BY DEF IInv, TasksFitSessions, UnpublishedIsEmpty
  <1>3. CASE CreateSession(z)
    <2>1. session'[z].status = "processing" /\ task'[z] = "created"
      BY <1>1, <1>3 DEF CreateSession, SessionRow
    <2>. QED  BY <1>1, <1>2, <1>3, <2>1 DEF CreateSession, Settled, reqVars
  <1>4. CASE \/ Enqueue(z) \/ RefreshFails(z) \/ TaskStart(z)
             \/ TaskLoadFails(z) \/ TaskRaises(z) \/ TaskMarkFails(z)
    BY <1>1, <1>2, <1>4 DEF Enqueue, RefreshFails, TaskStart, TaskLoadFails,
       TaskRaises, TaskMarkFails, Settled, dbVars, reqVars
  <1>5. CASE TaskMarksFailed(z)
    BY <1>1, <1>2, <1>5 DEF TaskMarksFailed, Settled, SessionRow, reqVars
  <1>6. CASE TaskCommit(z)
    <2>1. PICK n \in 0 .. MaxFaces :
            \E outcomes \in [1 .. n -> OutcomesFor(roster[z])] :
              Commits(z, n, outcomes)
      BY <1>6 DEF TaskCommit, Commits
    <2>2. PICK outcomes \in [1 .. n -> OutcomesFor(roster[z])] :
            Commits(z, n, outcomes)
      BY <2>1
    <2>3. \A s \in Session \ {z} :
             evidence'[s] = evidence[s] /\ records'[s] = records[s]
      BY <1>1, <2>2 DEF Commits
    <2>4. /\ session' = [session EXCEPT ![z].status = "pending_review"]
          /\ task' = [task EXCEPT ![z] = "done"] /\ task[z] = "running"
          /\ UNCHANGED <<audit, pc, call, seen>>
      BY <1>6 DEF TaskCommit, reqVars
    <2>5. session'[z].status = "pending_review"
      BY <1>1, <2>4 DEF SessionRow
    <2>. QED  BY <1>1, <1>2, <2>3, <2>4, <2>5 DEF Settled
  <1>. QED  BY <1>3, <1>4, <1>5, <1>6 DEF TaskStep, TaskFault

\* The steps of a call act on published sessions only, and keep them.
LEMMA CallEffect ==
    ASSUME IInv, NEW r \in Req, CallStep(r)
    PROVE  /\ \A s \in Session : Kept(s)
           /\ \A s \in Session : ~Settled(session[s]) =>
                 /\ session'[s] = session[s]
                 /\ evidence'[s] = evidence[s] /\ records'[s] = records[s]
           /\ UNCHANGED <<task, roster>>
  <1>1. /\ session \in [Session -> SessionRow]
        /\ evidence \in [Session -> EvidenceRows]
        /\ records \in [Session -> RecordRows]
    BY DEF IInv, TypeOK
  <1>2. CASE ReadDetections(r) \/ ReadRecords(r) \/ Poll(r) \/ Abandon(r)
    <2>1. UNCHANGED <<session, evidence, records, task, roster>>
      BY <1>2 DEF ReadDetections, ReadRecords, Poll, Abandon, Finish, dbVars, taskVars
    <2>. QED  BY <2>1, SameRows DEF Kept
  <1>. DEFINE z == call[r].session
  <1>3. CASE Override(r)
    <2>1. /\ z \in Session /\ Settled(session[z])
          /\ SameDrafts(records[z], records'[z])
          /\ UNCHANGED <<session, evidence, task, roster>>
      BY <1>3, OverrideEffect
    <2>2. \A s \in Session \ {z} : records'[s] = records[s]
      BY <1>1, <1>3, OverrideEffect
    <2>. HIDE DEF z
    <2>. QED  BY <2>1, <2>2, SameRows DEF Kept
  <1>4. CASE Resolve(r)
    <2>1. /\ z \in Session /\ Settled(session[z])
          /\ SameDrafts(records[z], records'[z])
          /\ SameFaces(evidence[z], evidence'[z])
          /\ UNCHANGED <<session, task, roster>>
      BY <1>4, ResolveEffect
    <2>2. \A s \in Session \ {z} : evidence'[s] = evidence[s]
      <3>1. evidence' = [evidence EXCEPT ![z] = evidence'[z]]
        BY <1>4, ResolveEffect
      <3>. QED  BY <1>1, <3>1
    <2>3. \A s \in Session \ {z} : records'[s] = records[s]
      <3>1. CASE call[r].student # NULL /\ call[r].mark_present
        <4>1. \E rows : records' = [records EXCEPT ![z] = rows]
          BY <1>4, <3>1, ResolveEffect
        <4>. QED  BY <1>1, <4>1
      <3>2. CASE ~(call[r].student # NULL /\ call[r].mark_present)
        <4>1. records' = records
          BY <1>4, <3>2, ResolveEffect
        <4>. QED  BY <4>1
      <3>. QED  BY <3>1, <3>2
    <2>. HIDE DEF z
    <2>. QED  BY <2>1, <2>2, <2>3, SameRows DEF Kept
  <1>5. CASE Confirm(r)
    <2>1. z \in Session /\ Settled(session[z])
      BY <1>5, EditFacts DEF Confirm
    <2>2. /\ session' = [session EXCEPT ![z] =
                           [status |-> "confirmed", confirmed_at |-> r]]
          /\ UNCHANGED <<evidence, records, task, roster>>
      BY <1>5 DEF Confirm, Finish, taskVars
    <2>3. Settled(session'[z])
      BY <1>1, <2>1, <2>2 DEF Settled
    <2>4. \A s \in Session \ {z} : session'[s] = session[s]
      BY <1>1, <2>2
    <2>. HIDE DEF z
    <2>. QED  BY <2>1, <2>2, <2>3, <2>4, SameRows DEF Kept
  <1>. QED  BY <1>2, <1>3, <1>4, <1>5 DEF CallStep

\* What a call has loaded stays sound when the steps of others keep what is
\* published.
LEMMA OthersKeepSnapshot ==
    ASSUME IInv, NEW q \in Req, \A s \in Session : Kept(s),
           \/ pc'[q] \in {"idle", "done"}
           \/ pc'[q] = pc[q] /\ call'[q] = call[q] /\ seen'[q] = seen[q]
    PROVE  SnapshotIsSound(q)'
  <1>1. CASE pc'[q] \in {"idle", "done"}
    BY <1>1 DEF SnapshotIsSound
  <1>2. CASE pc'[q] = pc[q] /\ call'[q] = call[q] /\ seen'[q] = seen[q]
    <2>. SUFFICES ASSUME pc[q] \in {"detections", "records", "loaded"}
                  PROVE  SnapshotIsSound(q)'
      BY <1>2 DEF SnapshotIsSound
    <2>. DEFINE s == call[q].session
    <2>1. call[q] \in Call /\ s \in Session
      BY CallKinds DEF IInv, SnapshotsAreSound, SnapshotIsSound
    <2>. SUFFICES ASSUME Settled(seen[q].session)
                  PROVE  /\ Settled(session'[s])
                         /\ pc[q] # "detections" =>
                               SameFaces(seen[q].evidence, evidence'[s])
                         /\ pc[q] = "loaded" => SameDrafts(seen[q].records, records'[s])
      BY <1>2, <2>1 DEF SnapshotIsSound, Settled, SameFaces, SameDrafts
    <2>2. /\ Settled(session[s])
          /\ pc[q] # "detections" => SameFaces(seen[q].evidence, evidence[s])
          /\ pc[q] = "loaded" => SameDrafts(seen[q].records, records[s])
      BY DEF IInv, SnapshotsAreSound, SnapshotIsSound
    <2>3. /\ Settled(session'[s]) /\ SameFaces(evidence[s], evidence'[s])
          /\ SameDrafts(records[s], records'[s])
      BY <2>1, <2>2 DEF Kept
    <2>. QED  BY <2>2, <2>3, SameRows
  <1>. QED  BY <1>1, <1>2

\* The steps of a call keep what it has loaded sound.
LEMMA OwnSnapshot ==
    ASSUME IInv, NEW r \in Req, CallStep(r)
    PROVE  SnapshotIsSound(r)'
  <1>1. pc \in [Req -> {"idle", "detections", "records", "loaded", "done"}]
    BY DEF IInv, TypeOK
  <1>2. CASE Override(r) \/ Resolve(r) \/ Confirm(r) \/ Poll(r) \/ Abandon(r)
    <2>1. pc'[r] = "done"
      BY <1>1, <1>2 DEF Override, Resolve, Confirm, Poll, Abandon, Finish
    <2>. QED  BY <2>1 DEF SnapshotIsSound
  <1>3. seen[r] \in Snapshot /\ seen \in [Req -> Snapshot]
    BY DEF IInv, TypeOK
  <1>. DEFINE s == call[r].session
  <1>4. pc[r] \in {"detections", "records", "loaded"} =>
           /\ call[r] \in Call
           /\ Settled(seen[r].session) =>
                 /\ Settled(session[s])
                 /\ pc[r] # "detections" => SameFaces(seen[r].evidence, evidence[s])
                 /\ pc[r] = "loaded" => SameDrafts(seen[r].records, records[s])
    BY DEF IInv, SnapshotsAreSound, SnapshotIsSound
  <1>5. CASE ReadDetections(r)
    <2>1. /\ pc[r] = "detections" /\ pc'[r] = "records"
          /\ seen'[r].session = seen[r].session /\ seen'[r].evidence = evidence[s]
          /\ UNCHANGED <<call, session, evidence, records>>
      BY <1>1, <1>3, <1>5 DEF ReadDetections, dbVars, Snapshot
    <2>. QED  BY <1>4, <2>1, SameRows DEF SnapshotIsSound, Settled
  <1>6. CASE ReadRecords(r)
    <2>1. /\ pc[r] = "records" /\ pc'[r] = "loaded"
          /\ seen'[r].session = seen[r].session
          /\ seen'[r].evidence = seen[r].evidence /\ seen'[r].records = records[s]
          /\ UNCHANGED <<call, session, evidence, records>>
      BY <1>1, <1>3, <1>6 DEF ReadRecords, dbVars, Snapshot
    <2>2. /\ call'[r] \in Call
          /\ Settled(seen'[r].session) =>
                /\ Settled(session'[s])
                /\ SameFaces(seen'[r].evidence, evidence'[s])
                /\ SameDrafts(seen'[r].records, records'[s])
      <3>1. Settled(seen'[r].session) <=> Settled(seen[r].session)
        BY <2>1 DEF Settled
      <3>. QED  BY <1>4, <2>1, <3>1, SameRows
    <2>. QED  BY <2>1, <2>2 DEF SnapshotIsSound, Settled, SameFaces, SameDrafts
  <1>. QED  BY <1>2, <1>5, <1>6 DEF CallStep

\* A call other than r does not move in a step of r.
LEMMA CallFrame ==
    ASSUME NEW r \in Req, NEW q \in Req, q # r, TypeOK,
           CallStep(r) \/ (\E c \in CallInputs : ReadSession(r, c))
    PROVE  pc'[q] = pc[q] /\ call'[q] = call[q] /\ seen'[q] = seen[q]
  BY DEF CallStep, ReadSession, ReadDetections, ReadRecords, Override, Resolve,
     Confirm, Poll, Abandon, Finish, TypeOK

\* The inductive invariant holds initially and in every step.
LEMMA IInvInit == Init => IInv
  BY InitType DEF Init, IInv, TasksFitSessions, SnapshotsAreSound, SnapshotIsSound,
     UnpublishedIsEmpty, NoRow, Settled

LEMMA IInvNext == IInv /\ [Next]_vars => IInv'
  <1>. SUFFICES ASSUME IInv, [Next]_vars PROVE IInv'
    OBVIOUS
  <1>1. CASE UNCHANGED vars
    BY <1>1 DEF IInv, TypeOK, TasksFitSessions, SnapshotsAreSound, SnapshotIsSound,
       UnpublishedIsEmpty, Settled, SameFaces, SameDrafts, vars
  <1>2. ASSUME NEW z \in Session, CreateSession(z) \/ TaskStep(z) \/ TaskFault(z)
        PROVE  IInv'
    <2>1. TypeOK'
      BY <1>2, TaskType DEF IInv
    <2>2. \A s \in Session : Kept(s)
      BY <1>2, TaskEffect, SameRows DEF Kept
    <2>3. TasksFitSessions'
      BY <1>2, TaskEffect DEF IInv, TasksFitSessions
    <2>4. SnapshotsAreSound'
      BY <1>2, <2>2, TaskEffect, OthersKeepSnapshot DEF SnapshotsAreSound
    <2>5. UnpublishedIsEmpty'
      BY <1>2, TaskEffect DEF IInv, UnpublishedIsEmpty, Settled
    <2>. QED  BY <2>1, <2>3, <2>4, <2>5 DEF IInv
  <1>3. ASSUME NEW r \in Req, CallStep(r)
        PROVE  IInv'
    <2>1. TypeOK'
      <3>1. pc[r] \in {"detections", "records", "loaded"}
        BY <1>3 DEF CallStep, ReadDetections, ReadRecords, Override, Resolve,
           Confirm, Poll, Abandon
      <3>2. call[r] \in Call
        BY <3>1 DEF IInv, SnapshotsAreSound, SnapshotIsSound
      <3>. QED  BY <1>3, <3>2, CallType DEF IInv
    <2>2. \A s \in Session : Kept(s)
      BY <1>3, CallEffect
    <2>3. TasksFitSessions'
      <3>1. \A s \in Session :
               \/ session'[s] = session[s]
               \/ Settled(session[s]) /\ Settled(session'[s])
        BY <1>3, <2>2, CallEffect DEF Kept
      <3>2. task' = task
        BY <1>3, CallEffect
      <3>. QED  BY <3>1, <3>2 DEF IInv, TasksFitSessions, Settled
    <2>4. SnapshotsAreSound'
      <3>1. \A q \in Req \ {r} : SnapshotIsSound(q)'
        BY <1>3, <2>2, CallFrame, OthersKeepSnapshot DEF IInv
      <3>. QED  BY <1>3, <3>1, OwnSnapshot DEF SnapshotsAreSound
    <2>5. UnpublishedIsEmpty'
      <3>1. \A s \in Session : ~Settled(session'[s]) =>
               /\ ~Settled(session[s])
               /\ evidence'[s] = evidence[s] /\ records'[s] = records[s]
        BY <1>3, <2>2, CallEffect DEF Kept
      <3>. QED  BY <3>1 DEF IInv, UnpublishedIsEmpty, Settled
    <2>. QED  BY <2>1, <2>3, <2>4, <2>5 DEF IInv
  <1>4. ASSUME NEW r \in Req, NEW c \in CallInputs, ReadSession(r, c)
        PROVE  IInv'
    <2>1. TypeOK'
      BY <1>4, ReadType DEF IInv
    <2>2. UNCHANGED <<session, evidence, records, task>>
      BY <1>4 DEF ReadSession, dbVars, taskVars
    <2>3. TasksFitSessions' /\ UnpublishedIsEmpty'
      BY <2>2 DEF IInv, TasksFitSessions, UnpublishedIsEmpty, Settled
    <2>4. \A q \in Req \ {r} : SnapshotIsSound(q)'
      BY <1>4, <2>2, CallFrame, OthersKeepSnapshot, SameRows DEF IInv, Kept
    <2>5. SnapshotIsSound(r)'
      BY <1>4, <2>2, CallConstants DEF SnapshotIsSound, ReadSession, IInv, TypeOK,
         Snapshot, Settled
    <2>. QED  BY <2>1, <2>3, <2>4, <2>5 DEF IInv, SnapshotsAreSound
  <1>5. CASE Crash
    <2>1. TypeOK'
      BY <1>5, CrashType DEF IInv
    <2>2. UNCHANGED <<session, evidence, records>>
      BY <1>5 DEF Crash, dbVars
    <2>3. TasksFitSessions'
      BY <1>5, <2>2 DEF Crash, IInv, TasksFitSessions, TypeOK
    <2>4. UnpublishedIsEmpty'
      BY <2>2 DEF IInv, UnpublishedIsEmpty, Settled
    <2>5. SnapshotsAreSound'
      BY <1>5 DEF Crash, SnapshotsAreSound, SnapshotIsSound
    <2>. QED  BY <2>1, <2>3, <2>4, <2>5 DEF IInv
  <1>. QED  BY <1>1, <1>2, <1>3, <1>4, <1>5 DEF Next

LEMMA Invariance == Spec => []IInv
  BY IInvInit, IInvNext, PTL DEF Spec

\* Every variable keeps its type.
THEOREM TypeCorrect == Spec => []TypeOK
  <1>1. IInv => TypeOK
    BY DEF IInv
  <1>. QED  BY <1>1, Invariance, PTL

\* process_session publishes a session in one step or not at all: a session
\* that is processing or failed has no evidence and no verdict, and a call that
\* may act has loaded all the verdicts.
THEOREM AtomicPublication == Spec => []NothingHalfCommitted
  <1>1. IInv => NothingHalfCommitted
    <2>. SUFFICES ASSUME IInv PROVE NothingHalfCommitted
      OBVIOUS
    <2>1. ASSUME NEW r \in Req, pc[r] = "loaded", Reviewable(r)
          PROVE  DOMAIN seen[r].records = DOMAIN records[call[r].session]
      BY <2>1, EditFacts DEF SameDrafts
    <2>2. \A s \in Session :
             session[s].status \notin {"pending_review", "confirmed"} =>
                evidence[s] = NoRows /\ records[s] = NoRows
      BY DEF IInv, UnpublishedIsEmpty, Settled
    <2>. QED  BY <2>1, <2>2 DEF NothingHalfCommitted
  <1>. QED  BY <1>1, Invariance, PTL

-----------------------------------------------------------------------------
(* How a step can change a record.                                         *)

\* A record after a step is the one before it, or it is written by an override
\* or a resolution of this student, or by the task of its session.
LEMMA RecordChange ==
    ASSUME IInv, [Next]_vars, NEW s \in Session, NEW st \in DOMAIN records'[s]
    PROVE  \/ /\ st \in DOMAIN records[s] /\ records'[s][st] = records[s][st]
              /\ Settled(session[s])
           \/ \E r \in Req : /\ Override(r)
                             /\ call[r].session = s /\ call[r].student = st
           \/ \E r \in Req : /\ Resolve(r)
                             /\ call[r].session = s /\ call[r].student = st
                             /\ st # NULL /\ call[r].mark_present
           \/ TaskCommit(s)
  <1>1. records \in [Session -> RecordRows]
    BY DEF IInv, TypeOK
  <1>2. records'[s] = records[s] => /\ st \in DOMAIN records[s]
                                    /\ records'[s][st] = records[s][st]
                                    /\ Settled(session[s])
    BY NoRowsType DEF IInv, UnpublishedIsEmpty
  <1>3. CASE \/ UNCHANGED records
             \/ UNCHANGED vars \/ Crash \/ \E r \in Req, c \in CallInputs : ReadSession(r, c)
    BY <1>2, <1>3 DEF vars, Crash, ReadSession, dbVars
  <1>4. ASSUME NEW z \in Session, CreateSession(z) \/ TaskStep(z) \/ TaskFault(z)
        PROVE  TaskCommit(s) \/ records'[s] = records[s]
    <2>1. CASE z # s
      BY <1>4, <2>1, TaskEffect
    <2>2. CASE z = s
      BY <1>4, <2>2 DEF CreateSession, TaskStep, TaskFault, Enqueue, TaskStart,
         TaskRaises, TaskMarksFailed, RefreshFails, TaskLoadFails, TaskMarkFails, dbVars
    <2>. QED  BY <2>1, <2>2
  <1>5. ASSUME NEW r \in Req, Override(r)
        PROVE  \/ records'[s] = records[s]
               \/ /\ call[r].session = s
                  /\ call[r].student = st \/ /\ st \in DOMAIN records[s]
                                             /\ records'[s][st] = records[s][st]
                                             /\ Settled(session[s])
    <2>. DEFINE c == call[r]
                new == UpdateRecord(records[c.session][c.student],
                          seen[r].records[c.student],
                          Overridden(seen[r].records[c.student], c))
    <2>1. /\ c.session \in Session /\ Settled(session[c.session])
          /\ records' = [records EXCEPT ![c.session] =
                           [records[c.session] EXCEPT ![c.student] = new]]
      BY <1>5, OverrideEffect
    <2>. HIDE DEF new, c
    <2>2. CASE c.session # s
      BY <1>1, <2>1, <2>2
    <2>3. CASE c.session = s
      <3>1. records'[s] = [records[s] EXCEPT ![c.student] = new]
        BY <1>1, <2>1, <2>3
      <3>. QED  BY <1>1, <2>1, <2>3, <3>1 DEF c, RecordRows
    <2>. QED  BY <2>2, <2>3
  <1>6. ASSUME NEW r \in Req, Resolve(r)
        PROVE  \/ records'[s] = records[s]
               \/ /\ call[r].session = s
                  /\ \/ /\ call[r].student = st
                        /\ st # NULL /\ call[r].mark_present
                     \/ /\ st \in DOMAIN records[s]
                        /\ records'[s][st] = records[s][st]
                        /\ Settled(session[s])
    <2>. DEFINE c == call[r]
                new == UpdateRecord(records[c.session][c.student],
                          seen[r].records[c.student],
                          MarkedPresent(seen[r].records[c.student], c))
    <2>1. CASE ~(c.student # NULL /\ c.mark_present)
      BY <1>6, <2>1, ResolveEffect
    <2>2. CASE c.student # NULL /\ c.mark_present
      <3>1. /\ c.session \in Session /\ Settled(session[c.session])
            /\ records' = [records EXCEPT ![c.session] =
                             [records[c.session] EXCEPT ![c.student] = new]]
        BY <1>6, <2>2, ResolveEffect
      <3>. HIDE DEF new, c
      <3>2. CASE c.session # s
        BY <1>1, <3>1, <3>2
      <3>3. CASE c.session = s
        <4>1. records'[s] = [records[s] EXCEPT ![c.student] = new]
          BY <1>1, <3>1, <3>3
        <4>. QED  BY <1>1, <2>2, <3>1, <3>3, <4>1 DEF c, RecordRows
      <3>. QED  BY <3>2, <3>3
    <2>. QED  BY <2>1, <2>2
  <1>7. ASSUME NEW r \in Req, CallStep(r)
        PROVE  \/ records'[s] = records[s] \/ Override(r) \/ Resolve(r)
    BY <1>7 DEF CallStep, ReadDetections, ReadRecords, Confirm, Poll, Abandon, dbVars
  <1>. QED  BY <1>2, <1>3, <1>4, <1>5, <1>6, <1>7 DEF Next

\* The faces of a published session stay, and no step shortens the audit log.
LEMMA StepKeeps ==
    ASSUME IInv, [Next]_vars
    PROVE  /\ \A s \in Session : Kept(s)
           /\ audit \subseteq audit'
  <1>1. CASE \/ UNCHANGED vars \/ Crash
             \/ \E r \in Req, c \in CallInputs : ReadSession(r, c)
    BY <1>1, SameRows DEF vars, Crash, ReadSession, dbVars, Kept
  <1>2. ASSUME NEW z \in Session, CreateSession(z) \/ TaskStep(z) \/ TaskFault(z)
        PROVE  (\A s \in Session : Kept(s)) /\ audit' = audit
    BY <1>2, TaskEffect, SameRows DEF Kept
  <1>3. ASSUME NEW r \in Req, CallStep(r)
        PROVE  (\A s \in Session : Kept(s)) /\ audit \subseteq audit'
    <2>1. audit \subseteq audit'
      BY <1>3 DEF CallStep, ReadDetections, ReadRecords, Override, Resolve, Confirm,
         Poll, Abandon, Logged, dbVars
    <2>. QED  BY <1>3, <2>1, CallEffect
  <1>. QED  BY <1>1, <1>2, <1>3 DEF Next

-----------------------------------------------------------------------------
(* The drafts.                                                             *)

\* What a task drafts from the outcomes of the faces is the draft the evidence
\* calls for.
LEMMA DraftIsDraft ==
    ASSUME NEW n \in Nat, NEW R \in SUBSET Student,
           NEW outcomes \in [1 .. n -> OutcomesFor(R)],
           NEW s \in Session, NEW st \in R
    PROVE  LET rows == [f \in 1 .. n |-> DetectionOf(Dedupe(outcomes)[f])]
           IN  /\ Draft(s, rows, st).source = "ai"
               /\ IsDraft(s, rows, st, Draft(s, rows, st))
  <1>. DEFINE rows == [f \in 1 .. n |-> DetectionOf(Dedupe(outcomes)[f])]
  <1>. SUFFICES /\ Draft(s, rows, st).source = "ai"
                /\ IsDraft(s, rows, st, Draft(s, rows, st))
    OBVIOUS
  <1>1. \A f \in 1 .. n :
           /\ rows[f].matched_student_id = outcomes[f].student_id
           /\ rows[f].confidence = outcomes[f].confidence
           /\ rows[f].match_status = "matched" <=>
                outcomes[f].status = "matched" /\ ~Beaten(outcomes, f)
    BY DedupeType DEF DetectionOf
  <1>2. DOMAIN rows = 1 .. n /\ st # NULL
    BY MatcherAssumption
  <1>. HIDE DEF rows
  <1>3. CASE \E f \in DOMAIN rows : Matches(rows, f, st)
    <2>. DEFINE f == CHOOSE f \in DOMAIN rows : Matches(rows, f, st)
    <2>1. f \in 1 .. n /\ Matches(rows, f, st)
      BY <1>2, <1>3
    <2>2. Draft(s, rows, st) =
            [status |-> "present", source |-> "ai", confidence |-> rows[f].confidence,
             detection_id |-> [session |-> s, face |-> f], marked_by |-> NULL]
      BY <1>3 DEF Draft
    <2>. HIDE DEF f
    <2>3. ASSUME NEW g \in 1 .. n, rows[g].matched_student_id = st
          PROVE  rows[g].confidence <= rows[f].confidence
      <3>1. outcomes[g].student_id = st /\ outcomes[f].student_id = st
        BY <1>1, <2>1, <2>3 DEF Matches
      <3>2. outcomes[g] \in OutcomesFor(R) /\ outcomes[f] \in OutcomesFor(R)
        BY <2>1
      <3>3. /\ outcomes[g].status = "matched"
            /\ outcomes[g].confidence \in Nat /\ outcomes[f].confidence \in Nat
        BY <1>2, <3>1, <3>2, ClassifyType, MatcherAssumption
      <3>4. ~(outcomes[g].confidence > outcomes[f].confidence)
        BY <1>1, <2>1, <3>1, <3>3 DEF Matches, Beaten
      <3>. QED  BY <1>1, <2>1, <3>3, <3>4
    <2>. QED  BY <1>2, <2>1, <2>2, <2>3 DEF IsDraft
  <1>4. CASE ~\E f \in DOMAIN rows : Matches(rows, f, st)
    <2>1. Draft(s, rows, st) =
            [status |-> "absent", source |-> "ai", confidence |-> NULL,
             detection_id |-> NULL, marked_by |-> NULL]
      BY <1>4 DEF Draft
    <2>2. ASSUME NEW f \in 1 .. n, rows[f].matched_student_id = st PROVE FALSE
      <3>1. outcomes[f].student_id = st /\ st \in Student
        BY <1>1, <2>2
      <3>2. \E g \in 1 .. n : /\ outcomes[g].status = "matched"
                              /\ outcomes[g].student_id = st
                              /\ ~Beaten(outcomes, g)
        BY <3>1, UnbeatenExists
      <3>. QED  BY <1>1, <1>2, <1>4, <3>2 DEF Matches
    <2>. QED  BY <1>2, <2>1, <2>2 DEF IsDraft
  <1>. QED  BY <1>3, <1>4

\* What a commit of the task leaves in a record.
LEMMA CommitEffect ==
    ASSUME IInv, NEW s \in Session, TaskCommit(s), NEW st \in DOMAIN records'[s]
    PROVE  /\ records'[s][st].source = "ai"
           /\ IsDraft(s, evidence'[s], st, records'[s][st])
  <1>1. PICK n \in 0 .. MaxFaces :
          \E outcomes \in [1 .. n -> OutcomesFor(roster[s])] :
            Commits(s, n, outcomes)
    BY DEF TaskCommit, Commits
  <1>2. PICK outcomes \in [1 .. n -> OutcomesFor(roster[s])] :
          Commits(s, n, outcomes)
    BY <1>1
  <1>. DEFINE rows == [f \in 1 .. n |-> DetectionOf(Dedupe(outcomes)[f])]
  <1>3. n \in Nat /\ roster[s] \in SUBSET Student
    BY ReviewConstants DEF ReviewAssumption, IInv, TypeOK
  <1>4. /\ evidence'[s] = rows
        /\ records'[s] = [x \in roster[s] |-> Draft(s, rows, x)]
    BY <1>2 DEF Commits, IInv, TypeOK
  <1>5. st \in roster[s]
    BY <1>4
  <1>6. /\ Draft(s, rows, st).source = "ai"
        /\ IsDraft(s, rows, st, Draft(s, rows, st))
    BY <1>3, <1>5, DraftIsDraft
  <1>. HIDE DEF rows
  <1>. QED  BY <1>4, <1>5, <1>6

\* A draft stays one while the faces stay up to their resolution.
LEMMA DraftStays ==
    ASSUME NEW s, NEW st, NEW rows, NEW rows2, NEW record,
           SameFaces(rows, rows2), IsDraft(s, rows, st, record)
    PROVE  IsDraft(s, rows2, st, record)
  BY DEF SameFaces, IsDraft, Matches

LEMMA DraftsNext ==
    IInv /\ AiVerdictIsDraft /\ [Next]_vars => AiVerdictIsDraft'
  <1>. SUFFICES ASSUME IInv, AiVerdictIsDraft, [Next]_vars,
                       NEW s \in Session, NEW st \in DOMAIN records'[s],
                       records'[s][st].source = "ai"
                PROVE  IsDraft(s, evidence'[s], st, records'[s][st])
    BY DEF AiVerdictIsDraft, IsDraft, Matches
  <1>1. CASE /\ st \in DOMAIN records[s] /\ records'[s][st] = records[s][st]
             /\ Settled(session[s])
    <2>1. IsDraft(s, evidence[s], st, records[s][st])
      BY <1>1 DEF AiVerdictIsDraft
    <2>2. SameFaces(evidence[s], evidence'[s])
      BY <1>1, StepKeeps DEF Kept
    <2>. QED  BY <1>1, <2>1, <2>2, DraftStays
  <1>2. ASSUME NEW r \in Req, call[r].session = s, call[r].student = st,
               Override(r) \/ (Resolve(r) /\ st # NULL /\ call[r].mark_present)
        PROVE  FALSE
    <2>1. records \in [Session -> RecordRows]
      BY DEF IInv, TypeOK
    <2>2. PICK new : /\ new.source = "manual"
                     /\ records' = [records EXCEPT ![s] =
                                      [records[s] EXCEPT ![st] = new]]
      BY <1>2, OverrideEffect, ResolveEffect
    <2>. QED  BY <2>1, <2>2
  <1>3. CASE TaskCommit(s)
    BY <1>3, CommitEffect
  <1>. QED  BY <1>1, <1>2, <1>3, RecordChange

\* A verdict that nobody edited is the one the pipeline drafted from the faces
\* of its session, whatever calls overlapped (_run, override_record,
\* resolve_detection).
THEOREM DraftsAreKept == Spec => []AiVerdictIsDraft
  <1>1. Init => AiVerdictIsDraft
    BY NoRowsType DEF Init, AiVerdictIsDraft
  <1>. QED  BY <1>1, DraftsNext, Invariance, PTL DEF Spec

-----------------------------------------------------------------------------
(* The audit log.                                                          *)

\* The entry of a call is in the log.
LEMMA LoggedEntry ==
    ASSUME NEW r, NEW p, NEW n, Logged(r, p, n)
    PROVE  \E e \in audit' : e.id = r /\ e.call = call[r] /\ e.total = n
  <1>. DEFINE entry == [id |-> r, call |-> call[r], present |-> p, total |-> n]
  <1>1. entry \in audit'
    BY DEF Logged
  <1>2. entry.id = r /\ entry.call = call[r] /\ entry.total = n
    OBVIOUS
  <1>. HIDE DEF entry
  <1>. QED  BY <1>1, <1>2

\* An edit of record st of session s: what it leaves comes from the edit or was
\* there before, and the edit is in the audit log.
LEMMA EditEffect ==
    ASSUME IInv, NEW r \in Req, NEW s \in Session, NEW st,
           call[r].session = s, call[r].student = st,
           Override(r) \/ (Resolve(r) /\ st # NULL /\ call[r].mark_present)
    PROVE  \E e \in audit', v \in AttendanceStatus, old \in Record :
              LET stored == records[s][st]
                  now    == records'[s][st]
              IN  /\ e.call = call[r] /\ Edits(e.call, s, st, v)
                  /\ st \in DOMAIN records[s] /\ Settled(session[s])
                  /\ stored \in Record
                  /\ stored.source = "ai" => old = stored
                  /\ now.status = Column(stored.status, old.status, v)
                  /\ now.marked_by = Column(stored.marked_by, old.marked_by,
                                            call[r].user)
                  /\ IF call[r].op = "resolve"
                     THEN now.detection_id = Column(stored.detection_id,
                             old.detection_id, call[r].detection)
                     ELSE now.detection_id = stored.detection_id
  <1>. DEFINE c   == call[r]
              old == seen[r].records[st]
              stored == records[s][st]
  <1>0. records \in [Session -> RecordRows] /\ audit \subseteq AuditEntry
    BY DEF IInv, TypeOK
  <1>1. CASE Override(r)
    <2>. DEFINE new == Overridden(old, c)
                upd == UpdateRecord(stored, old, new)
    <2>1. /\ c \in OverrideCall /\ Settled(session[s]) /\ st \in DOMAIN records[s]
          /\ stored \in Record /\ old \in Record
          /\ stored.source = "ai" => old = stored
          /\ records' = [records EXCEPT ![s] = [records[s] EXCEPT ![st] = upd]]
      BY <1>1, OverrideEffect
    <2>2. records'[s][st] = upd
      <3>. HIDE DEF upd
      <3>. QED  BY <1>0, <2>1
    <2>3. c.status \in AttendanceStatus /\ c.op = "override" /\ c.session = s
      BY <2>1 DEF OverrideCall
    <2>4. /\ upd.status = Column(stored.status, old.status, c.status)
          /\ upd.marked_by = Column(stored.marked_by, old.marked_by, c.user)
          /\ upd.detection_id = stored.detection_id
      BY <2>1 DEF UpdateRecord, Overridden, Record, Column
    <2>5. PICK e \in audit' : e.call = c
      BY <1>1, LoggedEntry DEF Override
    <2>6. Edits(e.call, s, st, c.status)
      BY <2>3, <2>5 DEF Edits
    <2>. HIDE DEF upd, old, stored
    <2>. QED  BY <2>1, <2>2, <2>3, <2>4, <2>5, <2>6 DEF old, stored
  <1>2. CASE Resolve(r) /\ st # NULL /\ c.mark_present
    <2>. DEFINE new == MarkedPresent(old, c)
                upd == UpdateRecord(stored, old, new)
    <2>1. /\ c \in ResolveCall /\ Settled(session[s]) /\ st \in DOMAIN records[s]
          /\ stored \in Record /\ old \in Record
          /\ stored.source = "ai" => old = stored
          /\ records' = [records EXCEPT ![s] = [records[s] EXCEPT ![st] = upd]]
      BY <1>2, ResolveEffect
    <2>2. records'[s][st] = upd
      <3>. HIDE DEF upd
      <3>. QED  BY <1>0, <2>1
    <2>3. "present" \in AttendanceStatus /\ c.op = "resolve" /\ c.session = s
      BY <2>1 DEF ResolveCall, AttendanceStatus
    <2>4. /\ upd.status = Column(stored.status, old.status, "present")
          /\ upd.marked_by = Column(stored.marked_by, old.marked_by, c.user)
          /\ upd.detection_id = Column(stored.detection_id, old.detection_id,
                                       c.detection)
      BY <2>1 DEF UpdateRecord, MarkedPresent, Record, Column
    <2>5. PICK e \in audit' : e.call = c
      BY <1>2, LoggedEntry DEF Resolve
    <2>6. Edits(e.call, s, st, "present")
      BY <1>2, <2>3, <2>5 DEF Edits
    <2>. HIDE DEF upd, old, stored
    <2>. QED  BY <2>1, <2>2, <2>3, <2>4, <2>5, <2>6 DEF old, stored
  <1>. QED  BY <1>1, <1>2

LEMMA ManualNext ==
    IInv /\ ManualVerdictIsAudited /\ [Next]_vars => ManualVerdictIsAudited'
  <1>. SUFFICES ASSUME IInv, ManualVerdictIsAudited, [Next]_vars,
                       NEW s \in Session, NEW st \in DOMAIN records'[s],
                       records'[s][st].source = "manual"
                PROVE  /\ \E e \in audit' :
                             Edits(e.call, s, st, records'[s][st].status)
                       /\ \E e \in audit', v \in AttendanceStatus :
                             /\ Edits(e.call, s, st, v)
                             /\ e.call.user = records'[s][st].marked_by
    BY DEF ManualVerdictIsAudited, Edits
  <1>1. audit \subseteq audit'
    BY StepKeeps
  <1>2. ASSUME st \in DOMAIN records[s], records[s][st].source = "manual"
        PROVE  /\ \E e \in audit' : Edits(e.call, s, st, records[s][st].status)
               /\ \E e \in audit', v \in AttendanceStatus :
                     /\ Edits(e.call, s, st, v)
                     /\ e.call.user = records[s][st].marked_by
    BY <1>1, <1>2 DEF ManualVerdictIsAudited
  <1>3. CASE st \in DOMAIN records[s] /\ records'[s][st] = records[s][st]
    BY <1>2, <1>3
  <1>4. ASSUME NEW r \in Req, call[r].session = s, call[r].student = st,
               Override(r) \/ (Resolve(r) /\ st # NULL /\ call[r].mark_present)
        PROVE  /\ \E e \in audit' :
                     Edits(e.call, s, st, records'[s][st].status)
               /\ \E e \in audit', v \in AttendanceStatus :
                     /\ Edits(e.call, s, st, v)
                     /\ e.call.user = records'[s][st].marked_by
    <2>1. PICK e \in audit', v \in AttendanceStatus, old \in Record :
             /\ e.call = call[r] /\ Edits(e.call, s, st, v)
             /\ st \in DOMAIN records[s] /\ records[s][st] \in Record
             /\ records[s][st].source = "ai" => old = records[s][st]
             /\ records'[s][st].status
                   = Column(records[s][st].status, old.status, v)
             /\ records'[s][st].marked_by
                   = Column(records[s][st].marked_by, old.marked_by, call[r].user)
      BY <1>4, EditEffect
    <2>2. records[s][st].source \in {"ai", "manual"}
      BY <2>1 DEF Record
    <2>3. \/ records'[s][st].status = v
          \/ /\ records[s][st].source = "manual"
             /\ records'[s][st].status = records[s][st].status
      BY <2>1, <2>2 DEF Column
    <2>4. \/ records'[s][st].marked_by = call[r].user
          \/ /\ records[s][st].source = "manual"
             /\ records'[s][st].marked_by = records[s][st].marked_by
      BY <2>1, <2>2 DEF Column
    <2>5. \E e1 \in audit' : Edits(e1.call, s, st, records'[s][st].status)
      BY <1>2, <2>1, <2>3
    <2>6. \E e1 \in audit', v1 \in AttendanceStatus :
             Edits(e1.call, s, st, v1) /\ e1.call.user = records'[s][st].marked_by
      BY <1>2, <2>1, <2>4
    <2>. QED  BY <2>5, <2>6
  <1>5. ASSUME TaskCommit(s) PROVE FALSE
    BY <1>5, CommitEffect
  <1>. QED  BY <1>3, <1>4, <1>5, RecordChange

\* Every status and every marker of a manual verdict is the one a logged edit
\* of this record asked for, whatever edits overlapped.
THEOREM ManualVerdictsAreAudited == Spec => []ManualVerdictIsAudited
  <1>1. Init => ManualVerdictIsAudited
    BY NoRowsType DEF Init, ManualVerdictIsAudited
  <1>. QED  BY <1>1, ManualNext, Invariance, PTL DEF Spec

LEMMA EvidenceNext ==
    IInv /\ EvidenceIsJustified /\ [Next]_vars => EvidenceIsJustified'
  <1>. DEFINE Resolved(e, st, d) ==
                 /\ e.call.op = "resolve" /\ e.call.detection = d
                 /\ e.call.student = st /\ e.call.mark_present
              Justified(s, st, d, rows, log) ==
                 /\ d.session = s /\ d.face \in DOMAIN rows
                 /\ \/ Matches(rows, d.face, st)
                    \/ \E e \in log : /\ Resolved(e, st, d)
                                      /\ rows[d.face].match_status
                                            \in {"unknown", "low_quality"}
  <1>. SUFFICES ASSUME IInv, EvidenceIsJustified, [Next]_vars,
                       NEW s \in Session, NEW st \in DOMAIN records'[s],
                       records'[s][st].detection_id # NULL
                PROVE  Justified(s, st, records'[s][st].detection_id, evidence'[s],
                                 audit')
    BY DEF EvidenceIsJustified
  <1>1. audit \subseteq audit' /\ Kept(s)
    BY StepKeeps
  \* what was justified stays so
  <1>2. ASSUME st \in DOMAIN records[s], records[s][st].detection_id # NULL,
               Settled(session[s])
        PROVE  Justified(s, st, records[s][st].detection_id, evidence'[s], audit')
    <2>. DEFINE d == records[s][st].detection_id
    <2>1. Justified(s, st, d, evidence[s], audit)
      BY <1>2 DEF EvidenceIsJustified
    <2>2. SameFaces(evidence[s], evidence'[s])
      BY <1>1, <1>2 DEF Kept
    <2>. HIDE DEF d
    <2>3. /\ d.face \in DOMAIN evidence'[s]
          /\ Matches(evidence[s], d.face, st) => Matches(evidence'[s], d.face, st)
          /\ evidence'[s][d.face].match_status = evidence[s][d.face].match_status
      <3>1. d.face \in DOMAIN evidence[s]
        BY <2>1
      <3>. QED  BY <2>2, <3>1 DEF SameFaces, Matches
    <2>. QED  BY <1>1, <2>1, <2>3 DEF d
  <1>3. CASE /\ st \in DOMAIN records[s] /\ records'[s][st] = records[s][st]
             /\ Settled(session[s])
    BY <1>2, <1>3
  <1>4. ASSUME NEW r \in Req, call[r].session = s, call[r].student = st, Override(r)
        PROVE  Justified(s, st, records'[s][st].detection_id, evidence'[s], audit')
    <2>1. /\ st \in DOMAIN records[s] /\ Settled(session[s])
          /\ IF call[r].op = "resolve" THEN TRUE
             ELSE records'[s][st].detection_id = records[s][st].detection_id
      BY <1>4, EditEffect
    <2>2. call[r].op = "override"
      BY <1>4 DEF Override
    <2>. QED  BY <1>2, <2>1, <2>2
  <1>5. ASSUME NEW r \in Req, call[r].session = s, call[r].student = st, Resolve(r),
               st # NULL, call[r].mark_present
        PROVE  Justified(s, st, records'[s][st].detection_id, evidence'[s], audit')
    <2>. DEFINE d == call[r].detection
    <2>1. call[r].op = "resolve"
      BY <1>5 DEF Resolve
    <2>2. PICK e \in audit', old \in Record :
             /\ e.call = call[r] /\ st \in DOMAIN records[s] /\ Settled(session[s])
             /\ records'[s][st].detection_id
                   = Column(records[s][st].detection_id, old.detection_id, d)
      BY <1>5, <2>1, EditEffect
    <2>3. CASE records'[s][st].detection_id = records[s][st].detection_id
      BY <1>2, <2>2, <2>3
    <2>4. CASE records'[s][st].detection_id = d
      <3>1. /\ d.session = s /\ d.face \in DOMAIN evidence[s]
            /\ evidence[s][d.face].match_status \in {"unknown", "low_quality"}
            /\ SameFaces(evidence[s], evidence'[s])
        BY <1>5, ResolveEffect
      <3>2. /\ d.face \in DOMAIN evidence'[s]
            /\ evidence'[s][d.face].match_status \in {"unknown", "low_quality"}
        BY <3>1 DEF SameFaces
      <3>3. Resolved(e, st, d)
        BY <1>5, <2>1, <2>2
      <3>. QED  BY <2>4, <3>1, <3>2, <3>3
    <2>. QED  BY <2>2, <2>3, <2>4 DEF Column
  <1>6. CASE TaskCommit(s)
    <2>1. IsDraft(s, evidence'[s], st, records'[s][st])
      BY <1>6, CommitEffect
    <2>2. PICK f \in DOMAIN evidence'[s] :
             /\ Matches(evidence'[s], f, st)
             /\ records'[s][st].detection_id = [session |-> s, face |-> f]
      BY <2>1 DEF IsDraft
    <2>. QED  BY <2>2
  <1>. QED  BY <1>3, <1>4, <1>5, <1>6, RecordChange

\* A verdict points to a face of its own session that the pipeline matched to
\* the student or a logged resolution gave to the student.
THEOREM EvidenceJustified == Spec => []EvidenceIsJustified
  <1>1. Init => EvidenceIsJustified
    BY NoRowsType DEF Init, EvidenceIsJustified
  <1>. QED  BY <1>1, EvidenceNext, Invariance, PTL DEF Spec

\* How a step can change the row of a session that is confirmed after it.
LEMMA ConfirmedChange ==
    ASSUME IInv, [Next]_vars, NEW s \in Session, session'[s].status = "confirmed"
    PROVE  \/ session'[s] = session[s]
           \/ \E r \in Req : Confirm(r) /\ call[r].session = s
  <1>1. session \in [Session -> SessionRow]
    BY DEF IInv, TypeOK
  <1>2. CASE \/ UNCHANGED vars \/ Crash
             \/ \E r \in Req, c \in CallInputs : ReadSession(r, c)
    BY <1>2 DEF vars, Crash, ReadSession, dbVars
  <1>3. ASSUME NEW z \in Session, CreateSession(z) \/ TaskStep(z) \/ TaskFault(z)
        PROVE  session'[s] = session[s]
    BY <1>3, TaskEffect
  <1>4. ASSUME NEW r \in Req, CallStep(r)
        PROVE  session'[s] = session[s] \/ (Confirm(r) /\ call[r].session = s)
    BY <1>1, <1>4 DEF CallStep, ReadDetections, ReadRecords, Override, Resolve,
       Confirm, Poll, Abandon, dbVars
  <1>. QED  BY <1>2, <1>3, <1>4 DEF Next

LEMMA ConfirmationNext ==
    IInv /\ ConfirmationIsAudited /\ [Next]_vars => ConfirmationIsAudited'
  <1>. SUFFICES ASSUME IInv, ConfirmationIsAudited, [Next]_vars,
                       NEW s \in Session, session'[s].status = "confirmed"
                PROVE  \E e \in audit' :
                          /\ e.id = session'[s].confirmed_at
                          /\ e.call.op = "confirm" /\ e.call.session = s
                          /\ Owned(e.call)
                          /\ e.total = Cardinality(DOMAIN records'[s])
    BY DEF ConfirmationIsAudited, Owned
  <1>1. audit \subseteq audit' /\ Kept(s)
    BY StepKeeps
  <1>2. CASE session'[s] = session[s]
    <2>1. DOMAIN records'[s] = DOMAIN records[s]
      BY <1>1, <1>2 DEF Kept, Settled, SameDrafts
    <2>. QED  BY <1>1, <1>2, <2>1 DEF ConfirmationIsAudited
  <1>3. ASSUME NEW r \in Req, Confirm(r), call[r].session = s
        PROVE  \E e \in audit' :
                  /\ e.id = session'[s].confirmed_at
                  /\ e.call.op = "confirm" /\ e.call.session = s
                  /\ Owned(e.call)
                  /\ e.total = Cardinality(DOMAIN records'[s])
    <2>1. DOMAIN seen[r].records = DOMAIN records[s] /\ records' = records
      BY <1>3, EditFacts DEF Confirm, SameDrafts
    <2>2. session'[s].confirmed_at = r
      BY <1>3 DEF Confirm, IInv, TypeOK
    <2>3. PICK e \in audit' :
             /\ e.id = r /\ e.call = call[r]
             /\ e.total = Cardinality(DOMAIN seen[r].records)
      BY <1>3, LoggedEntry DEF Confirm
    <2>4. call[r].op = "confirm" /\ Owned(call[r])
      BY <1>3 DEF Confirm
    <2>. QED  BY <1>3, <2>1, <2>2, <2>3, <2>4
  <1>. QED  BY <1>2, <1>3, ConfirmedChange

\* A confirmed session has its confirmation in the audit log, by its teacher or
\* an admin (confirm_session; "Audit log on every confirmation/override").
THEOREM ConfirmationsAreAudited == Spec => []ConfirmationIsAudited
  <1>1. Init => ConfirmationIsAudited
    BY DEF Init, ConfirmationIsAudited, NoRow
  <1>. QED  BY <1>1, ConfirmationNext, Invariance, PTL DEF Spec

-----------------------------------------------------------------------------
(* Refinement.                                                             *)

\* A task publishes one verdict for every student of the roster it read.
LEMMA PublishedRegister ==
    ASSUME NEW rows \in RecordRows
    PROVE  [st \in DOMAIN rows |-> rows[st].status] \in Promise!Register
  <1>1. DOMAIN rows \subseteq Student
    BY DEF RecordRows
  <1>2. \A st \in DOMAIN rows : rows[st].status \in AttendanceStatus
    BY RowsMembers DEF Record
  <1>. QED  BY <1>1, <1>2 DEF Promise!Register

\* A step that changes the verdict of one record corrects one verdict of the
\* register, and the others stay.
LEMMA CorrectedRegister ==
    ASSUME records \in [Session -> RecordRows], NEW s \in Session,
           NEW st \in DOMAIN records[s], NEW new \in Record,
           records' = [records EXCEPT ![s] = [records[s] EXCEPT ![st] = new]]
    PROVE  [z \in Session |-> Verdicts(z)]' =
              [[z \in Session |-> Verdicts(z)] EXCEPT ![s][st] = new.status]
  <1>. DEFINE before == [z \in Session |-> Verdicts(z)]
              after  == [before EXCEPT ![s] = [before[s] EXCEPT ![st] = new.status]]
  <1>1. \A z \in Session \ {s} : records'[z] = records[z]
    OBVIOUS
  <1>2. records'[s] = [records[s] EXCEPT ![st] = new]
    OBVIOUS
  <1>3. DOMAIN records'[s] = DOMAIN records[s]
    BY <1>2
  <1>4. [x \in DOMAIN records'[s] |-> records'[s][x].status] =
           [[x \in DOMAIN records[s] |-> records[s][x].status]
              EXCEPT ![st] = new.status]
    BY <1>2, <1>3
  <1>5. [z \in Session |-> Verdicts(z)]' =
           [z \in Session |-> [x \in DOMAIN records'[z] |-> records'[z][x].status]]
    BY DEF Verdicts
  <1>6. \A z \in Session :
           [x \in DOMAIN records'[z] |-> records'[z][x].status] = after[z]
    BY <1>1, <1>4 DEF Verdicts
  <1>7. [z \in Session |-> Verdicts(z)]' = after
    BY <1>5, <1>6
  <1>. QED  BY <1>7

\* A step that changes the row of one session changes the phase of it alone.
LEMMA ChangedPhase ==
    ASSUME session \in [Session -> SessionRow], NEW z \in Session, NEW v,
           session'[z].status = v, session' \in [Session -> SessionRow],
           \A s \in Session \ {z} : session'[s] = session[s]
    PROVE  [s \in Session |-> session[s].status]' =
              [[s \in Session |-> session[s].status] EXCEPT ![z] = v]
  <1>1. [s \in Session |-> session[s].status]' = [s \in Session |-> session'[s].status]
    OBVIOUS
  <1>. QED  BY <1>1

LEMMA RefineInit == Init => Promise!Init
  <1>1. NoRow.status = "none"
    BY DEF NoRow
  <1>2. [st \in DOMAIN NoRows |-> NoRows[st].status] = Promise!Empty
    BY NoRowsType DEF Promise!Empty
  <1>. QED  BY <1>1, <1>2 DEF Init, Promise!Init, Verdicts

LEMMA RefineNext == IInv /\ IInv' /\ [Next]_vars => [Promise!OverlapNext]_(Promise!vars)
  <1>. SUFFICES ASSUME IInv, IInv', [Next]_vars
                PROVE  Promise!OverlapNext \/ UNCHANGED Promise!vars
    OBVIOUS
  <1>. DEFINE phase    == [s \in Session |-> session[s].status]
              register == [s \in Session |-> Verdicts(s)]
  <1>0. /\ session \in [Session -> SessionRow] /\ session' \in [Session -> SessionRow]
        /\ records \in [Session -> RecordRows] /\ records' \in [Session -> RecordRows]
    BY DEF IInv, TypeOK
  <1>1. UNCHANGED session => UNCHANGED phase
    OBVIOUS
  <1>2. UNCHANGED records => UNCHANGED register
    BY DEF Verdicts
  <1>3. CASE UNCHANGED <<session, records>>
    BY <1>1, <1>2, <1>3 DEF Promise!vars
  <1>4. ASSUME NEW z \in Session, CreateSession(z)
        PROVE  Promise!Open(z)
    <2>1. session[z].status = "none" /\ session'[z].status = "processing"
      BY <1>0, <1>4 DEF CreateSession, SessionRow
    <2>2. (\A s \in Session \ {z} : session'[s] = session[s]) /\ records' = records
      BY <1>0, <1>4 DEF CreateSession
    <2>3. phase' = [phase EXCEPT ![z] = "processing"]
      BY <1>0, <2>1, <2>2, ChangedPhase
    <2>. QED  BY <1>2, <2>1, <2>2, <2>3 DEF Promise!Open
  <1>5. ASSUME NEW z \in Session, TaskMarksFailed(z)
        PROVE  Promise!Fail(z)
    <2>1. session[z].status = "processing"
      BY <1>5 DEF TaskMarksFailed, IInv, TasksFitSessions
    <2>2. /\ session'[z].status = "failed" /\ records' = records
          /\ \A s \in Session \ {z} : session'[s] = session[s]
      BY <1>0, <1>5 DEF TaskMarksFailed, SessionRow
    <2>3. phase' = [phase EXCEPT ![z] = "failed"]
      BY <1>0, <2>2, ChangedPhase
    <2>. QED  BY <1>2, <2>1, <2>2, <2>3 DEF Promise!Fail
  <1>6. ASSUME NEW z \in Session, TaskCommit(z)
        PROVE  Promise!Publish(z)
    <2>1. session[z].status = "processing"
      BY <1>6 DEF TaskCommit, IInv, TasksFitSessions
    <2>2. /\ session'[z].status = "pending_review"
          /\ \A s \in Session \ {z} : session'[s] = session[s]
      <3>1. session' = [session EXCEPT ![z].status = "pending_review"]
        BY <1>6 DEF TaskCommit
      <3>. QED  BY <1>0, <3>1 DEF SessionRow
    <2>3. phase' = [phase EXCEPT ![z] = "pending_review"]
      BY <1>0, <2>2, ChangedPhase
    <2>. DEFINE verdicts == [st \in DOMAIN records'[z] |-> records'[z][st].status]
    <2>4. verdicts \in Promise!Register
      BY <1>0, PublishedRegister
    <2>5. \A s \in Session \ {z} : records'[s] = records[s]
      BY <1>6, TaskEffect DEF TaskStep
    <2>6. register' = [register EXCEPT ![z] = verdicts]
      BY <2>5 DEF Verdicts
    <2>. HIDE DEF verdicts, phase, register
    <2>7. /\ phase[z] = "processing"
          /\ phase' = [phase EXCEPT ![z] = "pending_review"]
          /\ \E vs \in Promise!Register : register' = [register EXCEPT ![z] = vs]
      BY <2>1, <2>3, <2>4, <2>6 DEF phase
    <2>. QED  BY <2>7 DEF Promise!Publish, phase, register
  \* a correction
  <1>7. ASSUME NEW s \in Session, NEW st \in DOMAIN records[s], NEW new \in Record,
               records' = [records EXCEPT ![s] = [records[s] EXCEPT ![st] = new]],
               session' = session, Settled(session[s])
        PROVE  Promise!CorrectWhenOverlapping(s)
    <2>1. register' = [register EXCEPT ![s][st] = new.status]
      BY <1>0, <1>7, CorrectedRegister
    <2>2. DOMAIN register[s] = DOMAIN records[s]
      BY DEF Verdicts
    <2>3. phase[s] \in {"pending_review", "confirmed"} /\ phase' = phase
      BY <1>7 DEF Settled
    <2>4. new.status \in AttendanceStatus
      BY DEF Record
    <2>. HIDE DEF phase, register
    <2>5. \E x \in DOMAIN register[s], v \in AttendanceStatus :
             register' = [register EXCEPT ![s][x] = v]
      BY <2>1, <2>2, <2>4
    <2>. QED  BY <2>3, <2>5
              DEF Promise!CorrectWhenOverlapping, Promise!Correct, phase, register
  <1>8. ASSUME NEW r \in Req, Override(r)
        PROVE  \E s \in Session : Promise!CorrectWhenOverlapping(s)
    <2>. DEFINE c == call[r]
                new == UpdateRecord(records[c.session][c.student],
                          seen[r].records[c.student],
                          Overridden(seen[r].records[c.student], c))
    <2>1. /\ c.session \in Session /\ Settled(session[c.session])
          /\ c.student \in DOMAIN records[c.session]
          /\ records' = [records EXCEPT ![c.session] =
                           [records[c.session] EXCEPT ![c.student] = new]]
          /\ session' = session
      BY <1>8, OverrideEffect
    <2>. HIDE DEF new
    <2>2. records'[c.session][c.student] = new
      BY <1>0, <2>1
    <2>3. new \in Record
      BY <1>0, <2>1, <2>2, RowsMembers
    <2>. QED  BY <1>7, <2>1, <2>3
  <1>9. ASSUME NEW r \in Req, Resolve(r)
        PROVE  \/ UNCHANGED <<session, records>>
               \/ \E s \in Session : Promise!CorrectWhenOverlapping(s)
    <2>. DEFINE c == call[r]
                new == UpdateRecord(records[c.session][c.student],
                          seen[r].records[c.student],
                          MarkedPresent(seen[r].records[c.student], c))
    <2>1. CASE ~(c.student # NULL /\ c.mark_present)
      BY <1>9, <2>1, ResolveEffect
    <2>2. CASE c.student # NULL /\ c.mark_present
      <3>1. /\ c.session \in Session /\ Settled(session[c.session])
            /\ c.student \in DOMAIN records[c.session]
            /\ records' = [records EXCEPT ![c.session] =
                             [records[c.session] EXCEPT ![c.student] = new]]
            /\ session' = session
        BY <1>9, <2>2, ResolveEffect
      <3>. HIDE DEF new
      <3>2. records'[c.session][c.student] = new
        BY <1>0, <3>1
      <3>3. new \in Record
        BY <1>0, <3>1, <3>2, RowsMembers
      <3>. QED  BY <1>7, <3>1, <3>3
    <2>. QED  BY <2>1, <2>2
  <1>10. ASSUME NEW r \in Req, Confirm(r)
         PROVE  UNCHANGED Promise!vars \/ \E s \in Session : Promise!Confirm(s)
    <2>. DEFINE z == call[r].session
    <2>1. z \in Session /\ Settled(session[z]) /\ records' = records
      BY <1>10, EditFacts DEF Confirm
    <2>2. session' = [session EXCEPT ![z] =
                        [status |-> "confirmed", confirmed_at |-> r]]
      BY <1>10 DEF Confirm
    <2>. HIDE DEF z
    <2>3. /\ session'[z].status = "confirmed"
          /\ \A s \in Session \ {z} : session'[s] = session[s]
      BY <1>0, <2>1, <2>2
    <2>4. phase' = [phase EXCEPT ![z] = "confirmed"]
      BY <1>0, <2>1, <2>3, ChangedPhase
    <2>5. CASE session[z].status = "confirmed"
      <3>1. phase' = phase
        BY <2>1, <2>4, <2>5
      <3>. QED  BY <1>2, <2>1, <3>1 DEF Promise!vars
    <2>6. CASE session[z].status = "pending_review"
      BY <1>2, <2>1, <2>4, <2>6 DEF Promise!Confirm
    <2>. QED  BY <2>1, <2>5, <2>6 DEF Settled
  <1>11. \/ UNCHANGED <<session, records>>
         \/ \E z \in Session : CreateSession(z) \/ TaskMarksFailed(z) \/ TaskCommit(z)
         \/ \E r \in Req : Override(r) \/ Resolve(r) \/ Confirm(r)
    BY DEF Next, TaskStep, TaskFault, CallStep, Enqueue, RefreshFails, TaskStart,
       TaskLoadFails, TaskRaises, TaskMarkFails, ReadSession, ReadDetections,
       ReadRecords, Poll, Abandon, Crash, dbVars, vars
  <1>. QED
    BY <1>3, <1>4, <1>5, <1>6, <1>8, <1>9, <1>10, <1>11
    DEF Promise!OverlapNext, Promise!Lifecycle

\* Overlapping calls keep the weak promise: a session moves along its life
\* cycle only, failed and confirmed are final, and after the publication the
\* register changes one verdict of one roster student at a time.
THEOREM ImplementsOverlapPromise == Spec => KeepsOverlapPromise
  <1>1. IInv /\ IInv' /\ [Next]_vars => [Promise!OverlapNext]_(Promise!vars)
    BY RefineNext
  <1>2. Init => Promise!Init
    BY RefineInit
  <1>. QED  BY <1>1, <1>2, Invariance, PTL
            DEF Spec, KeepsOverlapPromise, Promise!OverlapSpec

-----------------------------------------------------------------------------
(* Calls that do not overlap.                                              *)

\* What a call has loaded of a session that is reviewed is what is stored.
ExactSnapshot(r) ==
    InFlight(r) /\ Settled(seen[r].session) =>
        /\ seen[r].session = session[call[r].session]
        /\ pc[r] # "detections" => seen[r].evidence = evidence[call[r].session]
        /\ pc[r] = "loaded" => seen[r].records = records[call[r].session]

\* Only confirmed sessions have a confirmation, and they have one.
ConfirmationsFit ==
    \A s \in Session :
        /\ session[s].status # "confirmed" => Confirmations(s) = {}
        /\ \A e, f \in Confirmations(s) : e = f

\* A face assigned to a student has a resolver, and only such a face has one.
ResolverIsRecorded ==
    \A s \in Session : \A f \in DOMAIN evidence[s] :
        LET d == evidence[s][f]
        IN  (d.resolved_student_id = NULL) <=> (d.resolved_by = NULL)

SerialInv ==
    /\ OneAtATime
    /\ \A r \in Req : ExactSnapshot(r)
    /\ ConfirmationsFit
    /\ AuditMatchesRegister
    /\ ResolverIsRecorded

LEMMA SerialInit == Init => SerialInv
  BY NoRowsType DEF Init, SerialInv, OneAtATime, InFlight, ExactSnapshot,
     ConfirmationsFit, Confirmations, AuditMatchesRegister, ResolverIsRecorded

\* The stages of a call.
LEMMA Stages ==
    ASSUME TypeOK, NEW r \in Req
    PROVE  InFlight(r) <=> pc[r] \in {"detections", "records", "loaded"}
  BY DEF TypeOK, InFlight

\* A call that may edit or confirm has loaded what is stored.
LEMMA ReviewedIsStored ==
    ASSUME IInv, SerialInv, NEW r \in Req, pc[r] = "loaded", Reviewable(r)
    PROVE  /\ call[r] \in Call /\ call[r].session \in Session
           /\ session[call[r].session].status = "pending_review"
           /\ seen[r].evidence = evidence[call[r].session]
           /\ seen[r].records = records[call[r].session]
  <1>1. InFlight(r) /\ Settled(seen[r].session)
    BY DEF InFlight, Settled, Reviewable
  <1>. QED  BY <1>1, EditFacts DEF SerialInv, ExactSnapshot, Reviewable

\* A task changes rows of sessions no call has loaded as reviewed, and while a
\* call is under way no other one is.
LEMMA SnapshotsStayExact ==
    ASSUME IInv, SerialInv, OneAtATime', [Next]_vars, NEW r \in Req
    PROVE  ExactSnapshot(r)'
  <1>0. /\ pc \in [Req -> {"idle", "detections", "records", "loaded", "done"}]
        /\ seen \in [Req -> Snapshot] /\ call \in [Req -> Call \cup {NULL}]
    BY DEF IInv, TypeOK
  <1>1. CASE UNCHANGED vars
    BY <1>1 DEF SerialInv, ExactSnapshot, InFlight, vars
  <1>2. ASSUME NEW z \in Session, CreateSession(z) \/ TaskStep(z) \/ TaskFault(z)
        PROVE  ExactSnapshot(r)'
    <2>1. InFlight(r) => call[r].session \in Session
      BY Stages, CallKinds DEF IInv, SnapshotsAreSound, SnapshotIsSound
    <2>2. InFlight(r) /\ Settled(seen[r].session) => call[r].session # z
      BY <1>2, TaskEffect DEF SerialInv, ExactSnapshot
    <2>. QED  BY <1>2, <2>1, <2>2, TaskEffect DEF SerialInv, ExactSnapshot, InFlight
  <1>3. ASSUME NEW q \in Req, CallStep(q)
        PROVE  ExactSnapshot(r)'
    <2>1. InFlight(q)
      BY <1>3 DEF CallStep, ReadDetections, ReadRecords, Override, Resolve, Confirm,
         Poll, Abandon, InFlight
    <2>2. CASE r # q
      BY <1>3, <2>1, <2>2, CallFrame
      DEF IInv, SerialInv, OneAtATime, InFlight, ExactSnapshot
    <2>3. CASE r = q /\ (ReadDetections(q) \/ ReadRecords(q))
      BY <1>0, <2>1, <2>3
      DEF ReadDetections, ReadRecords, dbVars, SerialInv, ExactSnapshot, InFlight, Snapshot
    <2>4. CASE r = q /\ (Override(q) \/ Resolve(q) \/ Confirm(q) \/ Poll(q) \/ Abandon(q))
      BY <1>0, <2>4
      DEF Override, Resolve, Confirm, Poll, Abandon, Finish, ExactSnapshot, InFlight
    <2>. QED  BY <1>3, <2>2, <2>3, <2>4 DEF CallStep
  <1>4. ASSUME NEW q \in Req, NEW c \in CallInputs, ReadSession(q, c)
        PROVE  ExactSnapshot(r)'
    <2>1. CASE r = q
      BY <1>0, <1>4, <2>1
      DEF ReadSession, dbVars, ExactSnapshot, InFlight, Snapshot
    <2>2. CASE r # q
      <3>1. pc'[q] = "detections"
        BY <1>0, <1>4 DEF ReadSession
      <3>. QED  BY <2>2, <3>1 DEF OneAtATime, InFlight, ExactSnapshot
    <2>. QED  BY <2>1, <2>2
  <1>5. CASE Crash
    BY <1>5 DEF Crash, ExactSnapshot, InFlight
  <1>. QED  BY <1>1, <1>2, <1>3, <1>4, <1>5 DEF Next

\* Which rows a step of a call or task changes, and the entry it logs.
LEMMA SerialEffect ==
    ASSUME IInv, SerialInv, [Next]_vars
    PROVE  \/ UNCHANGED dbVars
           \/ \E z \in Session : /\ CreateSession(z) \/ TaskStep(z) \/ TaskFault(z)
                                 /\ audit' = audit
           \/ \E r \in Req : /\ Override(r) \/ Resolve(r) \/ Confirm(r)
                             /\ pc[r] = "loaded" /\ Reviewable(r)
  <1>1. ASSUME NEW z \in Session, CreateSession(z) \/ TaskStep(z) \/ TaskFault(z)
        PROVE  audit' = audit
    BY <1>1, TaskEffect
  <1>2. ASSUME NEW r \in Req, CallStep(r)
        PROVE  \/ UNCHANGED dbVars
               \/ /\ Override(r) \/ Resolve(r) \/ Confirm(r)
                  /\ pc[r] = "loaded" /\ Reviewable(r)
    BY <1>2 DEF CallStep, ReadDetections, ReadRecords, Poll, Abandon, Override,
       Resolve, Confirm
  <1>. QED  BY <1>1, <1>2 DEF Next, vars, dbVars, Crash, ReadSession

\* An edit logs no confirmation, and its session is under review.
LEMMA EditFrame ==
    ASSUME IInv, SerialInv, NEW r \in Req, Override(r) \/ Resolve(r)
    PROVE  /\ \A s \in Session : Confirmations(s)' = Confirmations(s)
           /\ session' = session
           /\ call[r].session \in Session
           /\ session[call[r].session].status = "pending_review"
           /\ \A s \in Session \ {call[r].session} :
                 records'[s] = records[s] /\ evidence'[s] = evidence[s]
  <1>0. /\ records \in [Session -> RecordRows] /\ evidence \in [Session -> EvidenceRows]
    BY DEF IInv, TypeOK
  <1>1. /\ call[r].session \in Session
        /\ session[call[r].session].status = "pending_review"
    BY ReviewedIsStored DEF Override, Resolve
  <1>2. call[r].op # "confirm" /\ session' = session
    BY DEF Override, Resolve
  <1>3. \A e \in audit' : e \in audit \/ e.call = call[r]
    BY DEF Override, Resolve, Logged
  <1>4. audit \subseteq audit'
    BY DEF Override, Resolve, Logged
  <1>5. \A s \in Session : Confirmations(s)' = Confirmations(s)
    BY <1>2, <1>3, <1>4 DEF Confirmations
  <1>6. CASE Override(r)
    BY <1>0, <1>1, <1>2, <1>5, <1>6 DEF Override
  <1>7. CASE Resolve(r)
    <2>1. \A s \in Session \ {call[r].session} : records'[s] = records[s]
      BY <1>0, <1>1, <1>7, ResolveEffect
    <2>2. \A s \in Session \ {call[r].session} : evidence'[s] = evidence[s]
      <3>1. evidence' = [evidence EXCEPT ![call[r].session] = evidence'[call[r].session]]
        BY <1>7, ResolveEffect
      <3>. QED  BY <1>0, <3>1
    <2>. QED  BY <1>1, <1>2, <1>5, <2>1, <2>2
  <1>. QED  BY <1>6, <1>7

\* A confirmation logs one entry, and none was there.
LEMMA ConfirmFrame ==
    ASSUME IInv, SerialInv, NEW r \in Req, Confirm(r),
           NEW s \in Session, call[r].session = s
    PROVE  /\ session[s].status = "pending_review"
           /\ session'[s].status = "confirmed"
           /\ \A e, f \in Confirmations(s)' : e = f
           /\ \A e \in Confirmations(s)' :
                 e.present = Cardinality(PresentIn(records[s]))
           /\ \A z \in Session \ {s} : /\ Confirmations(z)' = Confirmations(z)
                                       /\ session'[z] = session[z]
           /\ records' = records /\ evidence' = evidence
  <1>. DEFINE present == Cardinality(PresentIn(seen[r].records))
              total == Cardinality(DOMAIN seen[r].records)
              entry == [id |-> r, call |-> call[r], present |-> present,
                        total |-> total]
  <1>1. /\ session[s].status = "pending_review"
        /\ seen[r].records = records[s]
    BY ReviewedIsStored DEF Confirm
  <1>2. /\ session' = [session EXCEPT ![s] = [status |-> "confirmed", confirmed_at |-> r]]
        /\ records' = records /\ evidence' = evidence
    BY DEF Confirm
  <1>3. session \in [Session -> SessionRow]
    BY DEF IInv, TypeOK
  <1>4. audit' = audit \cup {entry}
    BY DEF Confirm, Logged
  <1>5. entry.call = call[r] /\ entry.present = Cardinality(PresentIn(records[s]))
    BY <1>1
  <1>. HIDE DEF entry
  <1>6. Confirmations(s) = {}
    BY <1>1 DEF SerialInv, ConfirmationsFit
  <1>7. Confirmations(s)' \subseteq {entry}
    BY <1>4, <1>6 DEF Confirmations
  <1>8. \A z \in Session \ {s} : Confirmations(z)' = Confirmations(z)
    BY <1>4, <1>5 DEF Confirmations
  <1>9. /\ session'[s].status = "confirmed"
        /\ \A z \in Session \ {s} : session'[z] = session[z]
    BY <1>1, <1>2, <1>3
  <1>. QED  BY <1>1, <1>2, <1>5, <1>7, <1>8, <1>9

\* A resolution leaves the face it names with the student it assigns and its
\* author, or with neither when it clears the face.
FaceIsAssigned(r) ==
    LET face == evidence'[call[r].session][call[r].detection.face]
    IN  /\ face.resolved_student_id = call[r].student
        /\ face.resolved_by = IF call[r].student = NULL THEN NULL
                                                       ELSE call[r].user

LEMMA ResolutionIsWhole ==
    ASSUME IInv, SerialInv, NEW r \in Req, Resolve(r)
    PROVE  /\ call[r].session \in Session /\ call[r].user # NULL
           /\ call[r].detection.face \in DOMAIN evidence[call[r].session]
           /\ \E new : evidence' = [evidence EXCEPT ![call[r].session] =
                            [evidence[call[r].session]
                                EXCEPT ![call[r].detection.face] = new]]
           /\ FaceIsAssigned(r)
  <1>. DEFINE s   == call[r].session
              d   == call[r].detection
              old == evidence[s][d.face]
              new == UpdateDetection(old, old, call[r].student,
                                     Resolver(call[r]))
  <1>1. /\ call[r] \in ResolveCall /\ s \in Session /\ d.session = s
        /\ d.face \in DOMAIN evidence[s]
    BY ResolveEffect
  <1>2. /\ evidence \in [Session -> EvidenceRows] /\ evidence[s] \in EvidenceRows
        /\ old \in Detection
    BY <1>1, RowsMembers DEF IInv, TypeOK
  <1>3. seen[r].evidence[d.face] = old
    BY ReviewedIsStored DEF Resolve
  <1>4. evidence' = [evidence EXCEPT ![s] = [evidence[s] EXCEPT ![d.face] = new]]
    BY <1>1, <1>3 DEF Resolve
  <1>5. call[r].user # NULL
    BY <1>1, ReviewConstants DEF ResolveCall, ReviewAssumption
  <1>6. /\ new.resolved_student_id = call[r].student
        /\ new.resolved_by = Resolver(call[r])
    BY <1>2 DEF UpdateDetection, Column, Detection
  <1>. HIDE DEF new
  <1>7. evidence'[s] = [evidence[s] EXCEPT ![d.face] = new]
    BY <1>1, <1>2, <1>4
  <1>8. evidence'[s][d.face] = new
    BY <1>1, <1>7
  <1>9. FaceIsAssigned(r)
    BY <1>6, <1>8 DEF FaceIsAssigned, Resolver
  <1>. QED  BY <1>1, <1>4, <1>5, <1>9

LEMMA SerialNext == IInv /\ SerialInv /\ [Next /\ OneAtATime']_vars => SerialInv'
  <1>. SUFFICES ASSUME IInv, SerialInv, [Next /\ OneAtATime']_vars
                PROVE  SerialInv'
    OBVIOUS
  <1>1. OneAtATime'
    BY DEF SerialInv, OneAtATime, InFlight, vars
  <1>2. \A r \in Req : ExactSnapshot(r)'
    BY <1>1, SnapshotsStayExact
  <1>3. CASE UNCHANGED dbVars
    <2>1. (ConfirmationsFit /\ AuditMatchesRegister /\ ResolverIsRecorded)'
      BY <1>3 DEF SerialInv, ConfirmationsFit, AuditMatchesRegister,
         ResolverIsRecorded, Confirmations, dbVars
    <2>. QED  BY <1>1, <1>2, <2>1 DEF SerialInv
  <1>4. ASSUME NEW z \in Session, CreateSession(z) \/ TaskStep(z) \/ TaskFault(z),
               audit' = audit
        PROVE  SerialInv'
    <2>1. \A s \in Session : Confirmations(s)' = Confirmations(s)
      BY <1>4 DEF Confirmations
    <2>2. Confirmations(z) = {}
      BY <1>4, TaskEffect DEF SerialInv, ConfirmationsFit, Settled
    <2>3. \A s \in Session \ {z} : /\ session'[s] = session[s]
                                   /\ records'[s] = records[s]
                                   /\ evidence'[s] = evidence[s]
      BY <1>4, TaskEffect
    <2>4. ConfirmationsFit'
      BY <2>1, <2>2, <2>3 DEF SerialInv, ConfirmationsFit
    <2>5. AuditMatchesRegister'
      BY <2>1, <2>2, <2>3 DEF SerialInv, AuditMatchesRegister
    <2>6. \A f \in DOMAIN evidence'[z] :
             /\ evidence'[z][f].resolved_student_id = NULL
             /\ evidence'[z][f].resolved_by = NULL
      <3>1. CASE ~TaskCommit(z)
        <4>1. ~Settled(session'[z])
          BY <1>4, <3>1, TaskEffect DEF CreateSession, TaskStep, TaskFault, Enqueue,
             TaskStart, TaskRaises, TaskMarksFailed, RefreshFails, TaskLoadFails,
             TaskMarkFails, dbVars, Settled, IInv, TypeOK, SessionRow
        <4>2. evidence'[z] = NoRows
          BY <1>4, <4>1, TaskEffect
        <4>. QED  BY <4>2, NoRowsType
      <3>2. CASE TaskCommit(z)
        <4>1. PICK n \in 0 .. MaxFaces : \E outcomes \in [1 .. n -> OutcomesFor(roster[z])] :
                 evidence' = [evidence EXCEPT ![z] =
                    [f \in 1 .. n |-> DetectionOf(Dedupe(outcomes)[f])]]
          BY <3>2 DEF TaskCommit
        <4>2. PICK outcomes \in [1 .. n -> OutcomesFor(roster[z])] :
                 evidence' = [evidence EXCEPT ![z] =
                    [f \in 1 .. n |-> DetectionOf(Dedupe(outcomes)[f])]]
          BY <4>1
        <4>. DEFINE rows == [f \in 1 .. n |-> DetectionOf(Dedupe(outcomes)[f])]
        <4>3. evidence'[z] = rows
          BY <4>2 DEF IInv, TypeOK
        <4>4. \A f \in DOMAIN rows : /\ rows[f].resolved_student_id = NULL
                                     /\ rows[f].resolved_by = NULL
          BY DEF DetectionOf
        <4>. QED  BY <4>3, <4>4
      <3>. QED  BY <3>1, <3>2
    <2>7. ResolverIsRecorded'
      BY <2>3, <2>6 DEF SerialInv, ResolverIsRecorded
    <2>. QED  BY <1>1, <1>2, <2>4, <2>5, <2>7 DEF SerialInv
  <1>5. ASSUME NEW r \in Req, Override(r) \/ Resolve(r)
        PROVE  SerialInv'
    <2>. DEFINE s == call[r].session
    <2>1. s \in Session /\ Confirmations(s) = {} /\ session' = session
      BY <1>5, EditFrame DEF SerialInv, ConfirmationsFit
    <2>2. ConfirmationsFit' /\ AuditMatchesRegister'
      BY <1>5, <2>1, EditFrame DEF SerialInv, ConfirmationsFit, AuditMatchesRegister
    <2>3. \A f \in DOMAIN evidence'[s] :
             evidence'[s][f].resolved_student_id = NULL
                <=> evidence'[s][f].resolved_by = NULL
      <3>1. CASE Override(r)
        BY <2>1, <3>1 DEF Override, SerialInv, ResolverIsRecorded
      <3>2. CASE Resolve(r)
        <4>. DEFINE f == call[r].detection.face
        <4>1. /\ s \in Session /\ call[r].user # NULL /\ f \in DOMAIN evidence[s]
              /\ \E new : evidence' = [evidence EXCEPT ![s] =
                                          [evidence[s] EXCEPT ![f] = new]]
              /\ FaceIsAssigned(r)
          BY <3>2, ResolutionIsWhole
        <4>2. \E new : evidence'[s] = [evidence[s] EXCEPT ![f] = new]
          BY <4>1 DEF IInv, TypeOK
        <4>3. /\ DOMAIN evidence'[s] = DOMAIN evidence[s]
              /\ \A g \in DOMAIN evidence[s] \ {f} :
                    evidence'[s][g] = evidence[s][g]
          BY <4>2
        <4>4. (evidence'[s][f].resolved_student_id = NULL)
                <=> (evidence'[s][f].resolved_by = NULL)
          BY <4>1 DEF FaceIsAssigned
        <4>. QED  BY <4>1, <4>3, <4>4 DEF SerialInv, ResolverIsRecorded
      <3>. QED  BY <1>5, <3>1, <3>2
    <2>4. ResolverIsRecorded'
      BY <1>5, <2>3, EditFrame DEF SerialInv, ResolverIsRecorded
    <2>. QED  BY <1>1, <1>2, <2>2, <2>4 DEF SerialInv
  <1>6. ASSUME NEW r \in Req, Confirm(r)
        PROVE  SerialInv'
    <2>1. PICK s \in Session : call[r].session = s
      BY <1>6, ReviewedIsStored DEF Confirm
    <2>2. ConfirmationsFit'
      BY <1>6, <2>1, ConfirmFrame DEF SerialInv, ConfirmationsFit
    <2>3. AuditMatchesRegister'
      BY <1>6, <2>1, ConfirmFrame DEF SerialInv, AuditMatchesRegister
    <2>4. ResolverIsRecorded'
      BY <1>6, <2>1, ConfirmFrame DEF SerialInv, ResolverIsRecorded
    <2>. QED  BY <1>1, <1>2, <2>2, <2>3, <2>4 DEF SerialInv
  <1>. QED  BY <1>3, <1>4, <1>5, <1>6, SerialEffect

LEMMA SerialInvariance == SerialSpec => [](IInv /\ SerialInv)
  <1>1. [Next /\ OneAtATime']_vars => [Next]_vars
    OBVIOUS
  <1>. QED  BY <1>1, IInvInit, IInvNext, SerialInit, SerialNext, PTL DEF SerialSpec

\* A session is confirmed once: the second of two confirmations that do not
\* overlap finds it confirmed (_require_reviewable).
THEOREM ConfirmedOnceHolds == SerialSpec => []ConfirmedOnce
  <1>1. SerialInv => ConfirmedOnce
    <2>. SUFFICES ASSUME SerialInv, NEW s \in Session
                  PROVE  Cardinality(Confirmations(s)) <= 1
      BY DEF ConfirmedOnce
    <2>1. CASE Confirmations(s) = {}
      BY <2>1, FS_EmptySet
    <2>2. CASE Confirmations(s) # {}
      <3>1. PICK e \in Confirmations(s) : TRUE
        BY <2>2
      <3>2. Confirmations(s) = {e}
        BY <3>1 DEF SerialInv, ConfirmationsFit
      <3>3. Cardinality({e}) = 1
        BY FS_Singleton
      <3>. QED  BY <3>2, <3>3
    <2>. QED  BY <2>1, <2>2
  <1>. QED  BY <1>1, SerialInvariance, PTL

\* The audit entry of a confirmation has the number of present students of the
\* register that is final: nothing edits it between the load and the commit,
\* or later.
THEOREM AuditMatchesHolds == SerialSpec => []AuditMatchesRegister
  <1>1. SerialInv => AuditMatchesRegister
    BY DEF SerialInv
  <1>. QED  BY <1>1, SerialInvariance, PTL

\* A face that is assigned has a resolver and a cleared one has none
\* (resolve_detection).
THEOREM ResolverHolds == SerialSpec => []ResolverIsRecorded
  <1>1. SerialInv => ResolverIsRecorded
    BY DEF SerialInv
  <1>. QED  BY <1>1, SerialInvariance, PTL

\* A confirmed session keeps its row, its records and its evidence.
LEMMA ConfirmedStays ==
    ASSUME IInv, SerialInv, [Next]_vars,
           NEW s \in Session, session[s].status = "confirmed"
    PROVE  /\ session'[s] = session[s]
           /\ records'[s] = records[s] /\ evidence'[s] = evidence[s]
  <1>1. ASSUME NEW z \in Session, CreateSession(z) \/ TaskStep(z) \/ TaskFault(z)
        PROVE  z # s
    BY <1>1, TaskEffect DEF Settled
  <1>2. ASSUME NEW r \in Req, Override(r) \/ Resolve(r)
        PROVE  call[r].session # s /\ session' = session
    BY <1>2, EditFrame
  <1>3. ASSUME NEW r \in Req, Confirm(r)
        PROVE  /\ call[r].session \in Session /\ call[r].session # s
    BY <1>3, ReviewedIsStored DEF Confirm
  <1>4. CASE UNCHANGED dbVars
    BY <1>4 DEF dbVars
  <1>5. CASE \E z \in Session : CreateSession(z) \/ TaskStep(z) \/ TaskFault(z)
    BY <1>1, <1>5, TaskEffect
  <1>6. CASE \E r \in Req : Override(r) \/ Resolve(r)
    BY <1>2, <1>6, EditFrame
  <1>7. CASE \E r \in Req : Confirm(r)
    BY <1>3, <1>7, ConfirmFrame
  <1>. QED  BY <1>4, <1>5, <1>6, <1>7, SerialEffect

\* Without overlapping calls "records become the official register" when a
\* session is confirmed: no step changes them, or the evidence, any more.
THEOREM ConfirmedIsFinal == SerialSpec => FrozenRegister
  <1>1. IInv /\ SerialInv /\ [Next /\ OneAtATime']_vars =>
           [\A s \in Session : session[s].status = "confirmed" =>
               records'[s] = records[s] /\ evidence'[s] = evidence[s]]_vars
    BY ConfirmedStays
  <1>. QED  BY <1>1, SerialInvariance, PTL DEF SerialSpec, FrozenRegister

\* Without overlapping calls the attendance model implements the full abstract
\* register, in which a confirmed register is never corrected.
THEOREM ImplementsPromise == SerialSpec => KeepsPromise
  <1>1. IInv /\ SerialInv /\ IInv' /\ [Next /\ OneAtATime']_vars =>
           [Promise!Next]_(Promise!vars)
    <2>. SUFFICES ASSUME IInv, SerialInv, IInv', [Next]_vars
                  PROVE  Promise!Next \/ UNCHANGED Promise!vars
      OBVIOUS
    <2>. DEFINE phase    == [s \in Session |-> session[s].status]
                register == [s \in Session |-> Verdicts(s)]
    <2>1. ASSUME NEW s \in Session, session[s].status = "confirmed",
                 Promise!CorrectWhenOverlapping(s)
          PROVE  UNCHANGED Promise!vars
      <3>1. register'[s] = register[s]
        BY <2>1, ConfirmedStays DEF Verdicts
      <3>2. phase' = phase
        BY <2>1 DEF Promise!CorrectWhenOverlapping, Promise!Correct
      <3>3. \E st \in DOMAIN register[s], v \in AttendanceStatus :
               register' = [register EXCEPT ![s][st] = v]
        BY <2>1 DEF Promise!CorrectWhenOverlapping, Promise!Correct
      <3>4. register \in [Session -> {register[z] : z \in Session}]
        OBVIOUS
      <3>. HIDE DEF register
      <3>5. register' = [register EXCEPT ![s] = register'[s]]
        BY <3>3, <3>4
      <3>6. register' = register
        BY <3>1, <3>4, <3>5
      <3>. QED  BY <3>2, <3>6 DEF Promise!vars, register
    <2>2. ASSUME NEW s \in Session, session[s].status # "confirmed",
                 Promise!CorrectWhenOverlapping(s)
          PROVE  Promise!CorrectUnderReview(s)
      BY <2>2 DEF Promise!CorrectWhenOverlapping, Promise!CorrectUnderReview
    <2>3. Promise!OverlapNext \/ UNCHANGED Promise!vars
      BY RefineNext
    <2>. HIDE DEF phase, register
    <2>. QED  BY <2>1, <2>2, <2>3 DEF Promise!OverlapNext, Promise!Next
  <1>2. Init => Promise!Init
    BY RefineInit
  <1>. QED  BY <1>1, <1>2, SerialInvariance, PTL
            DEF SerialSpec, KeepsPromise, Promise!Spec

\* Writing an object that is loaded as it is stored writes all its columns.
LEMMA UpdateIsWhole ==
    ASSUME NEW stored \in Record, NEW new \in Record
    PROVE  UpdateRecord(stored, stored, new) = new
  BY DEF UpdateRecord, Column, Record

\* What an edit leaves in the record it names is what it asked for, because the
\* record it has loaded is the stored one.
LEMMA EditIsWhole ==
    ASSUME IInv, SerialInv, NEW r \in Req, Override(r) \/ Resolve(r),
           NEW s \in Session, NEW st \in DOMAIN records[s],
           NEW v \in AttendanceStatus, Edits(call[r], s, st, v)
    PROVE  /\ records'[s][st].status = v
           /\ records'[s][st].source = "manual"
           /\ records'[s][st].marked_by = call[r].user
  <1>. DEFINE c   == call[r]
              old == records[s][st]
  <1>0. /\ records \in [Session -> RecordRows] /\ old \in Record
        /\ c.session = s /\ c.student = st /\ st # NULL
    <2>1. c.session = s /\ c.student = st
      BY DEF Edits
    <2>2. records \in [Session -> RecordRows]
      BY DEF IInv, TypeOK
    <2>. QED  BY <2>1, <2>2, RowsMembers, MatcherAssumption
  <1>1. c \in Call /\ c.user \in Actor /\ seen[r].records = records[s]
    BY <1>0, ReviewedIsStored, CallKinds DEF Override, Resolve
  <1>2. CASE Override(r)
    <2>. DEFINE new == Overridden(old, c)
    <2>1. c \in OverrideCall /\ c.status = v
      BY <1>1, <1>2, CallKinds DEF Override, Edits
    <2>2. /\ new \in Record /\ new.status = v /\ new.source = "manual"
          /\ new.marked_by = c.user
      BY <1>0, <1>1, <2>1 DEF Overridden, Record, OverrideCall
    <2>3. UpdateRecord(old, old, new) = new
      BY <1>0, <2>2, UpdateIsWhole
    <2>. HIDE DEF new
    <2>4. records' = [records EXCEPT ![s][st] = new]
      BY <1>0, <1>1, <1>2, <2>3 DEF Override, new
    <2>5. records'[s][st] = new
      BY <1>0, <2>4
    <2>. QED  BY <2>2, <2>5
  <1>3. CASE Resolve(r)
    <2>. DEFINE new == MarkedPresent(old, c)
    <2>1. c \in ResolveCall /\ c.mark_present /\ v = "present"
      BY <1>1, <1>3, CallKinds DEF Resolve, Edits
    <2>2. /\ new \in Record /\ new.status = v /\ new.source = "manual"
          /\ new.marked_by = c.user
      BY <1>0, <1>1, <2>1
      DEF MarkedPresent, Record, ResolveCall, AttendanceStatus
    <2>3. UpdateRecord(old, old, new) = new
      BY <1>0, <2>2, UpdateIsWhole
    <2>. HIDE DEF new
    <2>4. records' = [records EXCEPT ![s][st] = new]
      BY <1>0, <1>1, <1>3, <2>1, <2>3 DEF Resolve, new
    <2>5. records'[s][st] = new
      BY <1>0, <2>4
    <2>. QED  BY <2>2, <2>5
  <1>. QED  BY <1>2, <1>3

\* An edit that is logged took effect: without overlapping calls no column of it,
\* in the record or in the detection, is left as another call wrote it.
THEOREM EditsLast == SerialSpec => EditsTakeEffect
  <1>1. IInv /\ SerialInv /\ [Next /\ OneAtATime']_vars =>
           [\A e \in audit' \ audit :
              /\ \A s \in Session : \A st \in DOMAIN records[s] :
                    \A v \in AttendanceStatus : Edits(e.call, s, st, v) =>
                       /\ records'[s][st].status = v
                       /\ records'[s][st].source = "manual"
                       /\ records'[s][st].marked_by = e.call.user
              /\ e.call.op = "resolve" =>
                    LET face == evidence'[e.call.session][e.call.detection.face]
                    IN  /\ face.resolved_student_id = e.call.student
                        /\ face.resolved_by = IF e.call.student = NULL
                                              THEN NULL ELSE e.call.user]_vars
    <2>. SUFFICES ASSUME IInv, SerialInv, [Next]_vars, NEW e \in audit' \ audit
                  PROVE  /\ \A s \in Session : \A st \in DOMAIN records[s] :
                               \A v \in AttendanceStatus : Edits(e.call, s, st, v) =>
                                  /\ records'[s][st].status = v
                                  /\ records'[s][st].source = "manual"
                                  /\ records'[s][st].marked_by = e.call.user
                         /\ e.call.op = "resolve" =>
                               LET face == evidence'[e.call.session]
                                                    [e.call.detection.face]
                               IN  /\ face.resolved_student_id = e.call.student
                                   /\ face.resolved_by = IF e.call.student = NULL
                                                         THEN NULL ELSE e.call.user
      OBVIOUS
    <2>1. PICK r \in Req : Override(r) \/ Resolve(r) \/ Confirm(r)
      BY SerialEffect DEF dbVars
    <2>2. e.call = call[r]
      BY <2>1 DEF Override, Resolve, Confirm, Logged
    <2>3. ASSUME NEW s \in Session, NEW st \in DOMAIN records[s],
                 NEW v \in AttendanceStatus, Edits(e.call, s, st, v)
          PROVE  /\ records'[s][st].status = v
                 /\ records'[s][st].source = "manual"
                 /\ records'[s][st].marked_by = e.call.user
      <3>1. Override(r) \/ Resolve(r)
        BY <2>1, <2>2, <2>3 DEF Confirm, Edits
      <3>. QED  BY <2>2, <2>3, <3>1, EditIsWhole
    <2>4. ASSUME e.call.op = "resolve" PROVE FaceIsAssigned(r)
      <3>1. Resolve(r)
        BY <2>1, <2>2, <2>4 DEF Override, Confirm
      <3>. QED  BY <3>1, ResolutionIsWhole
    <2>. QED  BY <2>2, <2>3, <2>4 DEF FaceIsAssigned
  <1>. QED  BY <1>1, SerialInvariance, PTL DEF SerialSpec, EditsTakeEffect

-----------------------------------------------------------------------------
(* Calls that overlap: the log is complete, and a confirmed register is    *)
(* final in the end.                                                       *)

\* A call that changes rows.
Writes(r) == Override(r) \/ Resolve(r) \/ Confirm(r)

\* A call that changes rows is about to commit, had loaded its session as under
\* review, and logs itself.
LEMMA WriterFacts ==
    ASSUME IInv, NEW r \in Req, Writes(r)
    PROVE  /\ pc[r] = "loaded" /\ Reviewable(r) /\ Owned(call[r])
           /\ call[r].op \in {"override", "resolve", "confirm"}
           /\ pc' = [pc EXCEPT ![r] = "done"]
           /\ \E entry : /\ audit' = audit \cup {entry}
                         /\ entry.id = r /\ entry.call = call[r]
  <1>1. /\ pc[r] = "loaded" /\ Reviewable(r) /\ Owned(call[r])
        /\ call[r].op \in {"override", "resolve", "confirm"}
        /\ pc' = [pc EXCEPT ![r] = "done"]
    BY DEF Writes, Override, Resolve, Confirm, Finish
  <1>2. \E p, n : Logged(r, p, n)
    BY DEF Writes, Override, Resolve, Confirm
  <1>3. PICK p, n : Logged(r, p, n)
    BY <1>2
  <1>. DEFINE entry == [id |-> r, call |-> call[r], present |-> p, total |-> n]
  <1>4. audit' = audit \cup {entry} /\ entry.id = r /\ entry.call = call[r]
    BY <1>3 DEF Logged
  <1>. HIDE DEF entry
  <1>. QED  BY <1>1, <1>4

\* Only such calls change the rows of a published session, or the log.
LEMMA PublishedChange ==
    ASSUME IInv, [Next]_vars
    PROVE  /\ \A s \in Session : Settled(session[s]) =>
                \/ /\ session'[s] = session[s] /\ records'[s] = records[s]
                   /\ evidence'[s] = evidence[s]
                \/ \E r \in Req : Writes(r) /\ call[r].session = s
           /\ audit' = audit \/ \E r \in Req : Writes(r)
  <1>1. CASE \/ UNCHANGED vars \/ Crash
             \/ \E r \in Req, c \in CallInputs : ReadSession(r, c)
    BY <1>1 DEF vars, Crash, ReadSession, dbVars
  <1>2. ASSUME NEW z \in Session, CreateSession(z) \/ TaskStep(z) \/ TaskFault(z),
               NEW s \in Session, Settled(session[s])
        PROVE  /\ session'[s] = session[s] /\ records'[s] = records[s]
               /\ evidence'[s] = evidence[s]
    BY <1>2, TaskEffect
  <1>3. ASSUME NEW z \in Session, CreateSession(z) \/ TaskStep(z) \/ TaskFault(z)
        PROVE  audit' = audit
    BY <1>3, TaskEffect
  <1>4. ASSUME NEW r \in Req, CallStep(r), ~Writes(r)
        PROVE  UNCHANGED <<session, records, evidence, audit>>
    BY <1>4 DEF CallStep, Writes, ReadDetections, ReadRecords, Poll, Abandon, dbVars
  <1>5. ASSUME NEW r \in Req, Writes(r), NEW s \in Session, call[r].session # s
        PROVE  /\ session'[s] = session[s] /\ records'[s] = records[s]
               /\ evidence'[s] = evidence[s]
    <2>. DEFINE z == call[r].session
    <2>0. /\ session \in [Session -> SessionRow]
          /\ evidence \in [Session -> EvidenceRows]
          /\ records \in [Session -> RecordRows]
      BY DEF IInv, TypeOK
    <2>1. CASE Override(r)
      <3>1. /\ UNCHANGED <<session, evidence>>
            /\ \E rows : records' = [records EXCEPT ![z] = rows]
        BY <2>1, OverrideEffect
      <3>. QED  BY <1>5, <2>0, <3>1
    <2>2. CASE Resolve(r)
      <3>1. /\ \E rows : evidence' = [evidence EXCEPT ![z] = rows]
            /\ session' = session
        BY <2>2, ResolveEffect DEF Resolve
      <3>2. \/ \E rows : records' = [records EXCEPT ![z] = rows]
            \/ records' = records
        BY <2>2, ResolveEffect
      <3>. QED  BY <1>5, <2>0, <3>1, <3>2
    <2>3. CASE Confirm(r)
      BY <1>5, <2>0, <2>3 DEF Confirm
    <2>. QED  BY <1>5, <2>1, <2>2, <2>3 DEF Writes
  <1>. QED  BY <1>1, <1>2, <1>3, <1>4, <1>5 DEF Next

\* An entry has the id of the call that wrote it, which is over.
LogIsKeyed ==
    /\ \A e \in audit : e.id \in Req /\ pc[e.id] = "done"
    /\ \A e, f \in audit : e.id = f.id => e = f

LEMMA LogIsKeyedNext == IInv /\ LogIsKeyed /\ [Next]_vars => LogIsKeyed'
  <1>. SUFFICES ASSUME IInv, LogIsKeyed, [Next]_vars PROVE LogIsKeyed'
    OBVIOUS
  <1>0. pc \in [Req -> {"idle", "detections", "records", "loaded", "done"}]
    BY DEF IInv, TypeOK
  <1>1. \A q \in Req : pc[q] = "done" => pc'[q] = "done"
    <2>1. CASE UNCHANGED vars \/ Crash
      BY <1>0, <2>1 DEF vars, Crash
    <2>2. ASSUME NEW z \in Session, CreateSession(z) \/ TaskStep(z) \/ TaskFault(z)
          PROVE  pc' = pc
      BY <2>2, TaskEffect
    <2>3. ASSUME NEW r \in Req, CallStep(r) \/ \E c \in CallInputs : ReadSession(r, c)
          PROVE  /\ pc[r] # "done"
                 /\ \A q \in Req \ {r} : pc'[q] = pc[q]
      <3>1. pc[r] # "done"
        BY <2>3 DEF CallStep, ReadSession, ReadDetections, ReadRecords, Override,
           Resolve, Confirm, Poll, Abandon
      <3>. QED  BY <2>3, <3>1, CallFrame DEF IInv
    <2>. QED  BY <2>1, <2>2, <2>3 DEF Next
  <1>2. CASE audit' = audit
    BY <1>1, <1>2 DEF LogIsKeyed
  <1>3. ASSUME NEW r \in Req, Writes(r) PROVE LogIsKeyed'
    <2>1. /\ pc[r] = "loaded" /\ pc' = [pc EXCEPT ![r] = "done"]
          /\ \E entry : audit' = audit \cup {entry} /\ entry.id = r
      BY <1>3, WriterFacts
    <2>2. \A e \in audit : e.id # r
      BY <2>1 DEF LogIsKeyed
    <2>. QED  BY <1>0, <1>1, <2>1, <2>2 DEF LogIsKeyed
  <1>. QED  BY <1>2, <1>3, PublishedChange

LEMMA LogInvariance == Spec => []LogIsKeyed
  <1>1. Init => LogIsKeyed
    BY DEF Init, LogIsKeyed
  <1>. QED  BY <1>1, LogIsKeyedNext, Invariance, PTL DEF Spec

\* The log is complete, whatever overlaps ("Audit log on every confirmation/
\* override"): a step that changes anything of a published session, confirmed or
\* not, adds exactly one entry, of a call on this session by its teacher or an
\* admin; entries are never changed or removed.
ChangesAreLogged ==
    [][/\ audit \subseteq audit'
       /\ \A s \in Session :
             /\ Settled(session[s])
             /\ \/ session'[s] # session[s] \/ records'[s] # records[s]
                \/ evidence'[s] # evidence[s]
             => \E e \in audit' \ audit :
                   /\ audit' = audit \cup {e}
                   /\ e.call.session = s /\ Owned(e.call)
                   /\ e.call.op \in {"override", "resolve", "confirm"}]_vars

\* Whatever changes a session that is under review or confirmed is one logged
\* call of its teacher or an admin.
THEOREM ChangesAreLoggedHolds == Spec => ChangesAreLogged
  <1>1. IInv /\ LogIsKeyed /\ [Next]_vars =>
          [/\ audit \subseteq audit'
           /\ \A s \in Session :
                 /\ Settled(session[s])
                 /\ \/ session'[s] # session[s] \/ records'[s] # records[s]
                    \/ evidence'[s] # evidence[s]
                 => \E e \in audit' \ audit :
                       /\ audit' = audit \cup {e}
                       /\ e.call.session = s /\ Owned(e.call)
                       /\ e.call.op \in {"override", "resolve", "confirm"}]_vars
    <2>. SUFFICES ASSUME IInv, LogIsKeyed, [Next]_vars, NEW s \in Session,
                         Settled(session[s]),
                         \/ session'[s] # session[s] \/ records'[s] # records[s]
                         \/ evidence'[s] # evidence[s]
                  PROVE  \E e \in audit' \ audit :
                            /\ audit' = audit \cup {e}
                            /\ e.call.session = s /\ Owned(e.call)
                            /\ e.call.op \in {"override", "resolve", "confirm"}
      BY StepKeeps
    <2>1. PICK r \in Req : Writes(r) /\ call[r].session = s
      BY PublishedChange
    <2>2. /\ pc[r] = "loaded" /\ Owned(call[r])
          /\ call[r].op \in {"override", "resolve", "confirm"}
          /\ \E entry : /\ audit' = audit \cup {entry}
                        /\ entry.id = r /\ entry.call = call[r]
      BY <2>1, WriterFacts
    <2>3. PICK entry : /\ audit' = audit \cup {entry}
                       /\ entry.id = r /\ entry.call = call[r]
      BY <2>2
    <2>4. entry \notin audit
      BY <2>2, <2>3 DEF LogIsKeyed
    <2>. QED  BY <2>1, <2>2, <2>3, <2>4
  <1>. QED  BY <1>1, LogInvariance, Invariance, PTL DEF Spec, ChangesAreLogged

\* A confirmed session that no call under way has loaded as under review.
Final(s) ==
    /\ session[s].status = "confirmed"
    /\ \A r \in Req : InFlight(r) /\ call[r].session = s => ~Reviewable(r)

\* What a call that is under way after a step has loaded of its session.
LEMMA FirstLoads ==
    ASSUME IInv, [Next]_vars, NEW q \in Req, pc'[q] \notin {"idle", "done"}
    PROVE  \/ /\ InFlight(q) /\ call'[q] = call[q]
              /\ seen'[q].session = seen[q].session
           \/ seen'[q].session = session[call'[q].session] /\ UNCHANGED session
  <1>0. /\ pc \in [Req -> {"idle", "detections", "records", "loaded", "done"}]
        /\ call \in [Req -> Call \cup {NULL}]
        /\ seen \in [Req -> Snapshot]
    BY DEF IInv, TypeOK
  <1>1. CASE UNCHANGED <<pc, call, seen>>
    BY <1>1 DEF InFlight
  <1>2. CASE Crash
    BY <1>2 DEF Crash
  <1>3. ASSUME NEW z \in Session, CreateSession(z) \/ TaskStep(z) \/ TaskFault(z)
        PROVE  UNCHANGED <<pc, call, seen>>
    BY <1>3, TaskEffect
  <1>4. ASSUME NEW r \in Req, NEW c \in CallInputs, ReadSession(r, c)
        PROVE  \/ /\ InFlight(q) /\ call'[q] = call[q]
                  /\ seen'[q].session = seen[q].session
               \/ seen'[q].session = session[call'[q].session] /\ UNCHANGED session
    <2>1. CASE q # r
      BY <1>4, <2>1, CallFrame DEF IInv, InFlight
    <2>2. CASE q = r
      BY <1>0, <1>4, <2>2 DEF ReadSession, dbVars, Snapshot
    <2>. QED  BY <2>1, <2>2
  <1>5. ASSUME NEW r \in Req, CallStep(r)
        PROVE  /\ InFlight(q) /\ call'[q] = call[q]
               /\ seen'[q].session = seen[q].session
    <2>1. CASE q # r
      BY <1>5, <2>1, CallFrame DEF IInv, InFlight
    <2>2. CASE q = r
      <3>1. CASE ReadDetections(r) \/ ReadRecords(r)
        BY <1>0, <2>2, <3>1 DEF ReadDetections, ReadRecords, InFlight, Snapshot
      <3>2. CASE Override(r) \/ Resolve(r) \/ Confirm(r) \/ Poll(r) \/ Abandon(r)
        BY <1>0, <2>2, <3>2 DEF Override, Resolve, Confirm, Poll, Abandon, Finish
      <3>. QED  BY <1>5, <3>1, <3>2 DEF CallStep
    <2>. QED  BY <2>1, <2>2
  <1>. QED  BY <1>1, <1>2, <1>3, <1>4, <1>5 DEF Next, vars

\* "Terminal: records become the official register" (confirm_session), with
\* calls that overlap: once the calls that had loaded the session before its
\* confirmation are over, its row, register and evidence never change again, and
\* nothing is logged about it.  The window in which FrozenRegister fails closes.
FinalForGood ==
    [][\A s \in Session : Final(s) =>
          /\ Final(s)'
          /\ session'[s] = session[s] /\ records'[s] = records[s]
          /\ evidence'[s] = evidence[s]
          /\ \A e \in audit' \ audit : e.call.session # s]_vars

\* A confirmed session that no earlier load can still touch is final for good.
THEOREM FinalForGoodHolds == Spec => FinalForGood
  <1>1. IInv /\ [Next]_vars =>
          [\A s \in Session : Final(s) =>
              /\ Final(s)'
              /\ session'[s] = session[s] /\ records'[s] = records[s]
              /\ evidence'[s] = evidence[s]
              /\ \A e \in audit' \ audit : e.call.session # s]_vars
    <2>. SUFFICES ASSUME IInv, [Next]_vars, NEW s \in Session, Final(s)
                  PROVE  /\ Final(s)'
                         /\ session'[s] = session[s] /\ records'[s] = records[s]
                         /\ evidence'[s] = evidence[s]
                         /\ \A e \in audit' \ audit : e.call.session # s
      OBVIOUS
    <2>1. ASSUME NEW r \in Req, Writes(r) PROVE call[r].session # s
      <3>1. InFlight(r) /\ Reviewable(r)
        BY <2>1, WriterFacts DEF InFlight
      <3>. QED  BY <3>1 DEF Final
    <2>2. /\ session'[s] = session[s] /\ records'[s] = records[s]
          /\ evidence'[s] = evidence[s]
      BY <2>1, PublishedChange DEF Final, Settled
    <2>3. \A e \in audit' \ audit : e.call.session # s
      BY <2>1, PublishedChange, WriterFacts
    <2>4. ASSUME NEW q \in Req, pc'[q] \notin {"idle", "done"}, call'[q].session = s
          PROVE  seen'[q].session.status # "pending_review"
      BY <2>4, FirstLoads DEF Final, Reviewable
    <2>. QED  BY <2>2, <2>3, <2>4 DEF Final, InFlight, Reviewable
  <1>. QED  BY <1>1, Invariance, PTL DEF Spec, FinalForGood

-----------------------------------------------------------------------------
(* The safety behind ProcessingEnds.                                       *)

\* A session that is processing has a task that is on its way, or lost to a
\* fault.
HasTask(s) ==
    session[s].status = "processing" =>
        \/ task[s] \in {"created", "queued", "running", "failing"}
        \/ task[s] = "lost" /\ Faults # {}

ProcessingHasTask == \A s \in Session : HasTask(s)

\* The steps that the task of a session has left, at most.
StepsLeft(t) ==
    CASE t = "created" -> 4 [] t = "queued" -> 3 [] t = "running" -> 2
      [] t = "failing" -> 1 [] t \in {"none", "done", "lost"} -> 0

\* A step of a task takes it on, and a fault loses it.
LEMMA TaskMoves ==
    ASSUME IInv, NEW s \in Session, TaskStep(s) \/ TaskFault(s)
    PROVE  StepsLeft(task'[s]) < StepsLeft(task[s]) /\ HasTask(s)'
  <1>0. /\ task \in [Session -> {"none", "created", "queued", "running", "failing",
                                "done", "lost"}]
        /\ session \in [Session -> SessionRow]
    BY DEF IInv, TypeOK
  <1>. USE DEF StepsLeft, HasTask
  <1>1. CASE Enqueue(s) \/ TaskStart(s) \/ TaskRaises(s)
    BY <1>0, <1>1 DEF Enqueue, TaskStart, TaskRaises
  <1>2. CASE TaskCommit(s)
    <2>1. /\ task[s] = "running" /\ task'[s] = "done"
          /\ session'[s].status = "pending_review"
      BY <1>0, <1>2 DEF TaskCommit, SessionRow
    <2>. QED  BY <2>1
  <1>3. CASE TaskMarksFailed(s)
    <2>1. /\ task[s] = "failing" /\ task'[s] = "done"
          /\ session'[s].status = "failed"
      BY <1>0, <1>3 DEF TaskMarksFailed, SessionRow
    <2>. QED  BY <2>1
  <1>4. CASE TaskFault(s)
    BY <1>0, <1>4 DEF TaskFault, RefreshFails, TaskLoadFails, TaskMarkFails
  <1>. QED  BY <1>1, <1>2, <1>3, <1>4 DEF TaskStep

\* What any step does to the task of one session.
LEMMA AnyStepMoves ==
    ASSUME IInv, [Next]_vars, NEW s \in Session
    PROVE  /\ TaskStep(s) => StepsLeft(task'[s]) < StepsLeft(task[s])
           /\ CreateSession(s) \/ StepsLeft(task'[s]) <= StepsLeft(task[s])
           /\ HasTask(s) => HasTask(s)'
  <1>0. /\ task \in [Session -> {"none", "created", "queued", "running", "failing",
                                "done", "lost"}]
        /\ session \in [Session -> SessionRow]
    BY DEF IInv, TypeOK
  <1>1. StepsLeft(task[s]) \in Nat
    BY <1>0 DEF StepsLeft
  <1>2. TaskStep(s) => StepsLeft(task'[s]) < StepsLeft(task[s])
    BY TaskMoves
  <1>3. CASE task'[s] = task[s] /\ session'[s] = session[s]
    BY <1>1, <1>2, <1>3 DEF HasTask
  <1>4. CASE CreateSession(s)
    BY <1>0, <1>2, <1>4 DEF CreateSession, HasTask
  <1>5. CASE TaskStep(s) \/ TaskFault(s)
    <2>1. StepsLeft(task'[s]) < StepsLeft(task[s]) /\ HasTask(s)'
      BY <1>5, TaskMoves
    <2>2. StepsLeft(task'[s]) \in Nat
      BY <1>5, <1>0 DEF StepsLeft, TaskStep, TaskFault, Enqueue, TaskStart, TaskRaises,
         TaskCommit, TaskMarksFailed, RefreshFails, TaskLoadFails, TaskMarkFails
    <2>. QED  BY <1>1, <1>2, <2>1, <2>2
  <1>6. CASE Crash
    <2>1. /\ task'[s] = IF task[s] \in {"none", "done"} THEN task[s] ELSE "lost"
          /\ session' = session /\ Faults # {}
      BY <1>6 DEF Crash, dbVars
    <2>2. StepsLeft(task'[s]) <= StepsLeft(task[s])
      BY <1>0, <2>1 DEF StepsLeft
    <2>3. session[s].status = "processing" => task[s] \notin {"none", "done"} \/ ~HasTask(s)
      BY DEF HasTask
    <2>. QED  BY <1>2, <2>1, <2>2, <2>3 DEF HasTask
  <1>7. ASSUME NEW z \in Session \ {s}, CreateSession(z) \/ TaskStep(z) \/ TaskFault(z)
        PROVE  task'[s] = task[s] /\ session'[s] = session[s]
    BY <1>7, TaskEffect
  <1>8. ASSUME NEW r \in Req, CallStep(r) PROVE task' = task /\ (HasTask(s) => HasTask(s)')
    <2>1. task' = task /\ Kept(s) /\ (~Settled(session[s]) => session'[s] = session[s])
      BY <1>8, CallEffect
    <2>. QED  BY <2>1 DEF Kept, Settled, HasTask
  <1>9. ASSUME NEW r \in Req, NEW c \in CallInputs, ReadSession(r, c)
        PROVE  task' = task /\ session' = session
    BY <1>9 DEF ReadSession, dbVars, taskVars
  <1>. QED
    <2>1. CASE UNCHANGED vars
      BY <1>3, <2>1 DEF vars
    <2>2. ASSUME NEW z \in Session, CreateSession(z) \/ TaskStep(z) \/ TaskFault(z)
          PROVE  \/ task'[s] = task[s] /\ session'[s] = session[s]
                 \/ CreateSession(s) \/ TaskStep(s) \/ TaskFault(s)
      BY <1>7, <2>2
    <2>3. ASSUME NEW r \in Req, CallStep(r)
          PROVE  /\ StepsLeft(task'[s]) <= StepsLeft(task[s])
                 /\ HasTask(s) => HasTask(s)'
      BY <1>1, <1>8, <2>3
    <2>. QED  BY <1>2, <1>3, <1>4, <1>5, <1>6, <1>9, <2>1, <2>2, <2>3 DEF Next

\* Polling can wait for ever only on a task that a fault lost: a session that is
\* processing has a task on its way, or a fault took it.  (What no test reaches:
\* the code marks the session in one transaction and starts the task in another.)
THEOREM ProcessingHasTaskHolds == Spec => []ProcessingHasTask
  <1>1. Init => ProcessingHasTask
    BY DEF Init, ProcessingHasTask, HasTask, NoRow
  <1>2. IInv /\ ProcessingHasTask /\ [Next]_vars => ProcessingHasTask'
    BY AnyStepMoves DEF ProcessingHasTask
  <1>. QED  BY <1>1, <1>2, Invariance, PTL DEF Spec

\* A task is never set back and never waits for itself: each of its steps takes
\* it closer to its end, and no other step, of a call, of another task or of the
\* environment, takes it away from there.
TasksMoveOn ==
    [][\A s \in Session :
          /\ TaskStep(s) => StepsLeft(task'[s]) < StepsLeft(task[s])
          /\ CreateSession(s) \/ StepsLeft(task'[s]) <= StepsLeft(task[s])]_vars

\* Every step of a task takes it closer to its end, and nothing sets it back.
THEOREM TasksMoveOnHolds == Spec => TasksMoveOn
  <1>1. IInv /\ [Next]_vars =>
          [\A s \in Session :
              /\ TaskStep(s) => StepsLeft(task'[s]) < StepsLeft(task[s])
              /\ CreateSession(s) \/ StepsLeft(task'[s]) <= StepsLeft(task[s])]_vars
    BY AnyStepMoves
  <1>. QED  BY <1>1, Invariance, PTL DEF Spec, TasksMoveOn
=============================================================================
