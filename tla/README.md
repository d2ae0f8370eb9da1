# A verification model of SnapAttend

SnapAttend takes attendance from classroom photos: a teacher uploads one to five
photos of a class, a background task finds the faces and matches them with the
enrolled photos of the class's students, the teacher reviews the draft register and
confirms it. The backend is FastAPI with SQLAlchemy (async) on PostgreSQL, the
frontend a React application with axios. This directory models the parts of it that
keep state, checks them with TLC on small instances and proves the main results
with TLAPS for all of them.

Paths below are relative to `backend/app/` or, where marked, to `frontend/src/`.

## 1. The system

| Component | State | Operations | Talks to |
|---|---|---|---|
| Attendance review service (`services/attendance_service.py`, `api/v1/endpoints/attendance.py`) | tables `attendance_sessions`, `session_images`, `face_detections`, `attendance_records`, `audit_logs` | `create_session`, `get_detail` (the poll), `override_record`, `resolve_detection`, `confirm_session` | the pipeline (through `BackgroundTasks`), class ownership, storage |
| Face pipeline (`services/face/pipeline.py`) | one in-memory task per session | `process_session`, `_run` | matcher, gallery query, face engine, storage, the attendance tables |
| Face matcher (`services/face/matcher.py`) | none | `classify_face`, `dedupe_across_images` | called by the pipeline |
| Refresh tokens (`services/auth_service.py`, `repositories/user_repo.py`) | table `refresh_tokens` | `login`, `refresh`, `logout` | the frontend |
| Auth session of the frontend (frontend `api/client.ts`, `stores/authStore.ts`, `features/auth/api.ts`, `app/App.tsx`) | the pair in localStorage, the shared promise `refreshing` | the two interceptors, `useLogin`, `useLogout`, `useMe` | the auth endpoints |
| Face enrollment (`services/student_service.py`) | tables `student_face_images`, `face_embeddings`, files | `enroll_face`, `enroll_faces_batch`, `delete_face_image`, `erase_biometrics`, `is_active` | face engine, storage |
| Class roster (`services/class_service.py`) | tables `classes`, `enrollments` | `create`, `update`, `deactivate`, bulk `enroll`, `unenroll`, `get_owned` | read by the pipeline and the review service |
| Students (`services/student_service.py`) | table `students` | `create`, `update`, `deactivate`, search | rosters, face enrollment |
| Accounts (`cli/create_admin.py`, `services/auth_service.py`) | table `users` | `create_user` | every call (`get_current_user`) |
| Gallery query (`repositories/embedding_repo.py`) | reads `face_embeddings` | `match_against_students` | called by the pipeline for each face |
| Storage (`storage/`) | files | `save`, `get`, `delete` | uploads, pipeline, face enrollment |

All calls of the API run in one event loop and interleave at every `await`; each has
a database session of its own (`get_db`), with `autoflush=False` and
`expire_on_commit=False`. No call takes a row lock before its commit and no column
carries a version. PostgreSQL runs the transactions READ COMMITTED, so each SELECT
sees what is committed when it runs. The face engine runs in a thread while its
caller waits.

What is hard here, and hardly reached by a test:

- review calls that overlap each other or a confirmation (the status is checked on
  a loaded row and acted on later; an UPDATE writes only the columns that differ);
- the background task, which lives in the memory of the process, next to polls,
  exceptions at every place and a restart;
- refreshes of the same token that overlap, are repeated, or whose answer is lost,
  and the browser's effort to send only one;
- photos, embeddings, crops and files, which are written in two systems, around a long
  inference, next to deletions and erasures and with faults in between;
- creations, bulk enrollments and patches that check first and write later, next to
  each other.

`PROJECT.json` lists each such place at its line (`hazards`) with the properties that
watch it.

What makes the components correct:

- a session moves only along `processing -> pending_review -> confirmed` or `failed`,
  publishes its register in one step or not at all, and a confirmed register is final;
- every verdict is either the pipeline's draft from the evidence or accounted for in
  the audit log; a confirmation is logged once and with the right counts;
- processing ends, so that polling ends;
- a student seen on several faces keeps exactly one match, the best one;
- a refresh token is used once; a login has one live token; a replay ends all the
  sessions of its user and only a login brings one back;
- a tab never presents a used token, its stored token is live, a logout ends the login,
  and no request waits for ever for a refresh;
- keys are unique, an enrollment or a patch that was answered is there, whoever is
  enrolled was active, and a call fails only for a reason;
- a row has its file, and a file without a row comes from a failure only;
- the candidate a face is classified by is the nearest photo;
- a stored photo has its file and its embedding and is stored once, the cap is passed
  by no more than the calls that overlap, a batch goes on after a refused file, an
  erasure leaves nothing.

## 2. The modules

| Module | What it is |
|---|---|
| `FaceOutcomes` | `classify_face` and the closed form of the dedupe, as operators |
| `DedupeOutcomes` | the loop of `dedupe_across_images`, one step per outcome; its postcondition is the closed form |
| `AttendanceRegister` | the abstract promise of a session: open, publish, fail, correct, confirm |
| `AttendanceReview` | the sessions, the pipeline task and the review calls; extends `FaceOutcomes`, implements `AttendanceRegister` |
| `SessionPipeline` | one session from the upload to the register, step by step, with its files and the gallery query; extends `FaceOutcomes`, implements `AttendanceReview` |
| `LoginSessions` | the abstract promise of the logins of users: opened, renewed by an exchange, ended alone or together; and what is left of it when calls overlap |
| `RefreshTokens` | the token table and the calls of the auth service; implements `LoginSessions` |
| `AuthClient` | the browser tab and the messages; extends and drives `RefreshTokens` |
| `FaceEnrollment` | enrollment, deletion and erasure over tables and files |
| `ClassRoster` | classes, students, accounts and rosters: creations, patches, enrollments |
| `*Proofs` | theorems and proofs about the module they extend |
| `MC*` | the instances for TLC |

In the modules of components a definition `X_Something` that stands before a definition `X` is
`X` with a slip in it (a dropped guard, a swapped order). No action uses it. Putting it
in the place of `X` must break the property named in `PROJECT.json` (`mutants`), which
shows that the property depends on that line of the code.

### AttendanceReview

`session`, `evidence`, `records` and `audit` are the rows. A face of a session has a
position instead of an id, the time `confirmed_at` is the call that set it, and an audit
entry is the call that wrote it. `task` is where the background task of a session is
(`created`, `queued`, `running`, `failing`, `done`, `lost`) and `roster` what it has
read. `pc`, `call` and `seen` are a review call: its stage, arguments and loaded rows.

A review call is four steps: `ReadSession`, `ReadDetections` and `ReadRecords` are the
SELECTs of `get_with_details`; `Override`, `Resolve`, `Confirm` or `Poll` is the rest of
the handler with its commit, and `Abandon` any way in which it ends without one. The
later SELECTs of `get_record` and `get_detection` do not refresh loaded objects (the
identity map), so the guards work on `seen`. The commit takes the row locks and writes
at once; `UpdateRecord` and `UpdateDetection` write the columns whose new value
differs from the loaded one, as the unit of work does.

`TaskCommit` is all of `_run` after the roster is read: the outcome of every face is any
that `classify_face` can compute for that roster, the list is deduped, and detections,
one record per roster student and the status are committed together. `TaskRaises` and
`TaskMarksFailed` are the handler. `Faults` says which failures can happen: the
process dies (`crash`), the refresh after the upload's commit raises (`refresh`),
the task's first load raises (`load`), the handler's own database calls raise (`mark`).

`SerialSpec` allows one review call at a time between its first read and its
commit; `Spec` any number.

### RefreshTokens and AuthClient

A token, its hash and its row are one value. `login` and `parent` record which login
a token descends from and which token it was exchanged for; they are not columns
and serve the properties. `ReadToken` is `get_by_hash`; the outcomes of `refresh` and
`logout` are one action each, with the guards of the code evaluated on the loaded row and
the writes on the table. `revoke_all_for_user` is an UPDATE of the rows that are live when
it runs.

`LoginSessions` names a session by the token of its login. `RefreshTokens` maps to it with
`Owner` (the user of that token), `Valid` (the tokens of the session that are not revoked) and
the tokens that were issued. Under `SerialSpec` it implements `LoginSessions!Spec`: a session is
renewed by exchanging its one valid token, and one that has ended stays ended. When calls
overlap it implements `OverlapSpec`, in which an exchange may add a token beside the valid
one or open an ended session again, but never changes its owner or gives out a token twice.

`AuthClient` adds the tab: the stored pair, requests with the pair whose access token they
carry, the promise they share, the logout, page loads, and messages that are on their way. A
handler up to its `await` is one step, and so is what a settled promise wakes.
`RefreshLost` and `LogoutLost` give up at the client while the message or the server's
call goes on; `Forget` removes what nobody waits for, so an id of a call can be used
again. `crossed` is history: a logout or a reload met a refresh under way. What the late
answer does then is the code's (it may store a new pair after the logout), so the
three properties about tokens speak of the time before; `RequestsGoOn` does not.

### SessionPipeline

The variables of `AttendanceReview` for one session, and what it abstracts from: `files` is
the storage, `images` the rows of `session_images`, `saved` the list `saved_keys`, `work` the
locals of `_run`. A photo or a crop has its position in place of its uuid. An upload is
`SavePhoto` for each photo, then `CommitUpload`, or one of the ways in which that raises and
the clean-up of `saved_keys`, which ends (`CleanUp`) or raises or is cut off half-way
(`CleanUpStops`); the task is `TaskStart`, and for each photo `Detect`, for each face `MatchFace`
(`match_against_students` and `classify_face`) and `SaveCrop`, then `TaskCommit`. What other
calls do to the gallery shows in `MatchFace`: the query may find any photos of the roster,
in each face anew, which also stands for the index scan being approximate. `Faults` adds to
those of `AttendanceReview` a save that raises half-way or a deletion that raises (`disk`) and
commits that are done and raise (`ack`).

`KeepsReview` is the refinement: with the mapping `Review` every step is a step of
`AttendanceReview` or a stutter, among them the commit, whose outcomes `AttendanceReview` allows
as `OutcomesFor` the roster. One step is not, and `KeepsReview` names it: after a lost
acknowledgement of the last commit the handler marks a published session failed
(`MarkedAfterLostAck`).

### ClassRoster

The tables `classes`, `students` and `users` are one function `rows` on ids, because creating and
patching are the same code three and two times; `enrollments` is a set of rows, each with the
call that inserted it. A call is its reads and checks (`CheckFree`, `Load`, `CheckStudents` and
`ReadRoster`, `FindEnrollment`), its commit, which flushes the writes and in which the unique
indexes speak (`Create`, `Save`, `Enroll`, `Unenroll`), and, where the code reads after its commit,
`Answer`. `Patched` writes the columns whose new value differs from the loaded one. `since` is
history: the other calls that committed while a call was under way. The properties use it to say
which overlaps excuse a call from its promise.

### FaceEnrollment

A call moves through the stages of `enroll_face`: `check` (student, cap, known photo),
`detect` (the engine; then the file is saved), `saved`, `flushed` (the INSERT is done, not
committed), `committed` (refresh and report), and back to `check` for the next file of a
batch. The unique index speaks at the flush: `Locked` waits for a row that is
inserted and not committed, `FlushRaises` is its error, which passes the handlers
around the commit and the batch. Deletions and erasures have two stages, the
commit and the files. A crash or a deletion that raises (`RemoveFilesStops`) may leave some of the
files; a removal that is committed and not acknowledged (`RemovalUnacknowledged`) leaves
all, because no handler turns to them. A handler of a failed enrollment may also fail to
delete its file (`HandlerRemoves`). `disturbed` and `unacked` are history: the students whose
calls overlapped or were cut off by a fault, and the photos whose commit was not
acknowledged.

## 3. The runs

| Run | Specification | Bounds | What it shows |
|---|---|---|---|
| `review` | `Spec`, all faults | 1 session, 2 students, 2 faces, 3 similarities, 2 overlapping calls out of 10 | atomic publication, drafts and audited verdicts, justified evidence, audited confirmation, the weak promise |
| `serial` | `SerialSpec`, no fault, fair tasks | 2 sessions, 2 students, 1 face each, 2 calls one after the other | the full promise, one confirmation, counts that match, edits that take effect in record and face, evidence of one's own session, processing that ends |
| `pipeline` | `Spec`, all faults, fair task | 1 session, 2 photos, 2 faces, 2 students with 2 photos each, 3 similarities, a limit of 2 rows | files behind rows, orphans, the nearest candidate, the task ends, the steps are those of `AttendanceReview` |
| `dedupe` | `Spec` | all lists of up to 5 faces, 2 students, 3 similarities | loop = closed form, one match per student |
| `tokens` | `SerialSpec` | 2 users, 4 tokens, 3 calls | single use, reuse detection, the steps are those of `LoginSessions` |
| `client` | `ClientSpec`, fair progress | 1 user, 2 tokens, 2 calls to the auth service and 2 requests at a time | no token is presented twice, the stored token is live, a logout ends the login, waiting requests go on |
| `enrollment` | `Spec`, all faults | 1 student, 4 photos of which 3 usable, 3 image ids, cap 2, batches of 2, 2 calls at a time | photos, files, embeddings, how far the cap is passed, batches, erasures |
| `roster` | `Spec` | 1 class (and one to be created), 2 students, 4 accounts, 3 overlapping calls out of 21 | unique keys, enrollments and patches that take effect, active students, reasons for failures |
| `frozen`, `stuck`, `single_use`, `erasure` | see section 5 | the least that shows it | disagreements between the code and its documentation |

Why the bounds are enough to meet the interesting cases. Two overlapping calls are
enough for every race of the review board, because a call conflicts with another
through the rows both load and write, and the inputs of `review` contain all pairs of an
override, an assignment, a clearing, a confirmation and a poll on the same record, face and
session. Two faces and three levels (below, at and above the threshold) give a
student two matches that are equal or not, with one duplicate; the list of the loop
goes to five. Two sessions in `serial` let a call name a face of another
session, for which `EvidenceIsJustified` is checked there as well. Three
calls and four tokens give a rotation, its successor and a replay of the first token.
Two tokens in `client` are a login and its rotation, or two logins; two requests are enough
for one to join or follow the refresh of the other, and two ids of calls for a refresh next to a
logout. In `pipeline` four photos of the gallery and a limit of two rows cut the query in
every way. Three calls in `roster` are a call, one that excuses it, and one that must not. In `enrollment` two calls at the cap of two, with
three ids and three usable photos, can exceed the cap, repeat a photo, and meet a
deletion or an erasure at every stage. Symmetry is used over ids that
the modules treat alike, never in a run with a liveness property.

`CHECK_DEADLOCK FALSE` is everywhere because ids of calls, sessions, tokens and
images are bounded: a run stops when they are used up, and so may the system when
nobody calls it. A loop that has ended (`DedupeOutcomes`) stops too.

Fairness is assumed for three properties. `ProcessingEnds` and `TaskEnds` assume it of the steps
of the background task (`TaskFairness`, `WF_vars(TaskStep)`): the event loop runs a task that is ready,
inference in a thread ends, and the database answers or raises. `RequestsGoOn` assumes it of each
call the page waits for (`ClientFairness`): its message arrives or is lost, the server answers or goes
away, and the browser settles the promise. It is weak, because what is ready stays ready.
Nothing is assumed of users and of the next request, and `stuck` keeps the same fairness.

## 4. The proofs

| Theorem | Says |
|---|---|
| `DedupeOutcomesProofs!LoopInvariance`, `DedupeIsClosedForm`, `OneMatchEach` | the loop keeps its invariant, computes `Dedupe`, and leaves one best match for each student |
| `AttendanceReviewProofs!TypeCorrect`, `AtomicPublication` | types; a session that is not published has no evidence and no verdict |
| `AttendanceReviewProofs!DraftsAreKept`, `ManualVerdictsAreAudited`, `EvidenceJustified`, `ConfirmationsAreAudited` | where verdicts, their evidence and confirmations come from, whatever overlaps |
| `AttendanceReviewProofs!ImplementsOverlapPromise` | `AttendanceReview` implements `AttendanceRegister!OverlapSpec` |
| `AttendanceReviewProofs!ChangesAreLoggedHolds`, `FinalForGoodHolds` | whatever overlaps, a change of a published session is one logged call of its teacher or an admin; a confirmed session that no earlier load can still touch is final |
| `AttendanceReviewProofs!ProcessingHasTaskHolds`, `TasksMoveOnHolds` | the safety half of `ProcessingEnds` |
| `AttendanceReviewProofs!ImplementsPromise`, `ConfirmedIsFinal`, `ConfirmedOnceHolds`, `AuditMatchesHolds`, `ResolverHolds`, `EditsLast` | for calls that do not overlap: `AttendanceReview` implements `AttendanceRegister!Spec`, a confirmed register is final, confirmed once and counted right, edits take effect |
| `SessionPipelineProofs!PipelineInvariance`, `FilesBackRowsHolds`, `OrphansComeFromFailuresHolds`, `BestIsNearestHolds` | files, rows and stages fit; files behind rows; where orphans come from; the nearest candidate |
| `SessionPipelineProofs!RegisterIsDraftHolds`, `RegisterIsWrittenOnceHolds` | the register is the draft of the stored evidence, written with it in one commit, also when the acknowledgement of that commit is lost |
| `SessionPipelineProofs!TaskComesToItsEndHolds` | the safety half of `TaskEnds` |
| `SessionPipelineProofs!PipelineImplementsReview` | `SessionPipeline` implements `AttendanceReview`, but for the mark after a lost acknowledgement |
| `RefreshTokensProofs!TokenTypes`, `OneLiveToken`, `RotationIsSingleUse`, `OnlyLoginRevivesHolds`, `ReplayEndsSessionsHolds` | types; rotation, the end of all sessions by a replay, and its finality, for calls that do not overlap |
| `RefreshTokensProofs!ImplementsLogins`, `ImplementsOverlapLogins` | the token table implements `LoginSessions!Spec` when calls do not overlap, `OverlapSpec` when they do |
| `RefreshTokensProofs!SpentForGoodHolds`, `LogoutIsFinalHolds` | whatever overlaps, an exchanged token that no call in flight has read live is never exchanged again, and a user signed out stays so until a login once such calls are over |
| `AuthClientProofs!ClientInvariance`, `ClientTypes`, `NeverReusedHolds`, `StoreIsLiveHolds`, `LogoutEndsLoginHolds` | types; the three safety properties of the tab |
| `AuthClientProofs!TabKeepsOverlapLogins`, `TabKeepsLogins`, `TabIsSingleUse`, `SignedOutIsFinalHolds` | the tab, the network and the server together implement overlapping login sessions, and the full ones, with single use, until a logout or a reload meets a refresh; only a sign-in revives |
| `AuthClientProofs!NoneIsForgottenHolds` | the safety half of `RequestsGoOn` |
| `FaceEnrollmentProofs!EnrollmentTypes`, `FilesBackPhotos`, `PhotosAreDistinct` | types; files behind photos; no photo twice |
| `FaceEnrollmentProofs!EmbeddingsFitHolds`, `CapHoldsAlways`, `BatchGoesOnHolds`, `ErasureIsCompleteHolds` | embeddings, the cap, batches and erasures of students whose calls do not overlap |
| `FaceEnrollmentProofs!OverlapsBoundTheCapHolds`, `OrphansComeFromOverlaps` | n overlapping calls pass the cap by less than n photos; a file without a row is held by a call, unless the student's calls overlapped or were cut off |
| `ClassRosterProofs!RosterInvariance`, `RosterTypes`, `KeysStayUnique`, `FailuresAreRaces` | types; keys stay unique; a call fails for a reason |
| `ClassRosterProofs!RosterCallsLast`, `EnrolledWereActiveHolds`, `PatchesLast` | answered calls took effect and who is enrolled was active, unless an overlapping call says otherwise |
| `ClassRosterProofs!RowsStayHolds`, `ClassesAreTheirOwnersHolds` | rows keep their key and owner; a class and its roster change only by a call of one who owns it then |

They hold for any sets of sessions, students, users, tokens, messages, photos, classes and calls,
from the named assumptions on the constants (`MatcherAssumption`, `ReviewConstants`,
`CallConstants`, `PipelineConstants`, `TokenAssumption`, `ClientAssumption`,
`EnrollmentAssumption`, `RosterConstants`, `LengthsAssumption`): mainly
that `NULL` is none of the values, that similarities are naturals with a greatest one
(a cosine is at most 1), that there are finitely many students, that lower case is
idempotent, and that the database starts with unique keys. `OverlapsBoundTheCapHolds` adds
that there are finitely many calls and at least one, without which its bound has no
meaning. `NoneIsNoAnswer` says that "no query yet" is not the answer of a query.

*AttendanceReview.* The invariant `IInv` is `TypeOK`, `TasksFitSessions` (a task that is
not over belongs to a session that is processing), the half of `NothingHalfCommitted` about
the tables, and `SnapshotsAreSound`. The last is what overlapping calls need. A call may act
on rows that are stale, so nothing can be said of a stored row from the loaded one
unless one knows what cannot have changed: once a call has loaded a session as
`pending_review`, the publication is over, the faces it loads are the stored ones up to
their resolution, and a stored record that still says `source = ai` is the loaded
record. Thus an override that writes only some columns still writes `source` over
`ai`, and a record it leaves with `ai` it does not touch. The four theorems on verdicts each
add their own step over `IInv`. For the refinement, every step of `Next` is mapped:
the creation to `Open`, the pipeline's commit to `Publish`, the failure mark to `Fail`, an
edit to a correction or a stutter, a confirmation to `Confirm` or, if the session was
confirmed already, to a stutter.

Without overlap `SerialInv` adds that what a call has loaded of a session under review is
exactly what is stored (`ExactSnapshot`): no other call runs, and a task has no business with a
session that is published. Then the guard on the loaded status is a guard on the stored one, an
UPDATE of the columns that differ writes the whole object, and the counts of a confirmation are
those of the register nobody changes any more. The full promise follows from the weak one,
because a correction of a confirmed register would have to change what `ConfirmedStays` keeps.

The overlap has two more theorems. `ChangesAreLogged` goes over the writers: each changes rows of a published
session only together with one new entry of its own id (`LogIsKeyed`: ids in the log are those of
calls that are over, so the entry is new). `FinalForGood` names the window in which `FrozenRegister` fails: a confirmed
session is `Final` when no call in flight has loaded it as pending. A call that loads it
later sees `confirmed` and is refused, so `Final` stays and nothing changes. The task has a rank,
`StepsLeft`, that its steps decrease and no other step raises.

*SessionPipeline.* The invariant says for each stage which photos and crops are there, which
row the session has, and that the locals of `_run` are outcomes that `AttendanceReview` allows for
the roster. It is proved for the steps of the upload, of the task, for the commit, and for the
faults in turn. The refinement maps a step of the upload or of a face to a stutter, the
commits to those of `AttendanceReview`, and excepts the one step that `KeepsReview` names. What
`AiVerdictIsDraft` says of a session in `AttendanceReview` does not follow from a
refinement with an exception, so `RegisterIsDraft` is proved of the rows of `SessionPipeline`
itself: the locals at the commit are one outcome for each face, and `Dedupe` leaves each student one unbeaten
match. `Closer` is the lexicographic rank of the task: its stage, the photos and faces that are
left, and whether the query is over.

*DedupeOutcomes.* The invariant says that the prefix before `pos` is deduped as if it
were the whole list and that `best` points to its matched faces; at the end the
prefix is the list. `FaceOutcomesProofs` has the lemmas on `Classify` and `Dedupe` both
modules use.

*RefreshTokens.* Single use is not inductive: the strengthening
(`SerialInv`) says that a token that was exchanged is revoked (`Lineage`), that the live
tokens of a login are at most one (`OneLive`), that no two tokens have the same parent
(`OneChild`), and that the row a running call has loaded is the stored one up to its
expiry (`LoadedIsStored`), which is where `SerialSpec` enters. A replay finds its token
revoked by `Lineage`, and a refresh that issues a token finds its own live, so that its user has one.

When calls overlap, `OverlapInv` is what is left: a token belongs to the session of its parent and
has its user, and the parent is revoked (`Families`); a row that a call has loaded is of the
stored token, which is revoked if it was (`LoadedBefore`). A token is never live again once revoked.
That is enough to map every step to `LoginSessions!OverlapNext`, and with `SerialInv` every step of `SerialSpec` to
`LoginSessions!Next`, as `Rotate` then finds its token valid and the only one. It also closes the
window of the `single_use` run (`SpentForGood`): only a call that loaded a token before it was revoked
can exchange it once more.

*AuthClient.* The three properties rest on one invariant about the time in which nothing has
crossed (`Uncrossed`). A token that a call carries, on its way or at the server, is live, is
carried by that call alone, and is the stored one only while the page waits for the call
(`CarriedAreLive`, `CarriedOnce`); the answer to a refresh brings a live token that nobody has
presented (`AnswerIsLive`). So the rows that calls have loaded are the stored ones though calls
overlap at the server, the reuse detection cannot fire, and the lemmas on rotation of
`RefreshTokens` apply. When a refresh gives up at the client, or its answer is lost, the store is emptied, and
the token it carried is never presented again. The refinement of `LoginSessions` composes with
the tab: a step of the client leaves the table or is a step of `RefreshTokens`, whose invariant
`OverlapInv` it keeps (`Service`), and while nothing has crossed `CarriedAreLive` does for the tab
what `SerialSpec` does for the table. `NoneIsForgotten` adds `PageWaits`: who waits, waits for
the refresh the page knows, and that one is on its way, at the server or answered.

*FaceEnrollment.* `PhotosHaveFiles` needs that the id of a photo belongs to one call from
the file to the commit (`Owning`), so that no other call can delete the file meanwhile, and
that rows are gone before their files go (`RowsGoFirst`). `NoDuplicatePhoto` needs what the
index guarantees for rows in flight (`Indexed`). The other four are about students that are not
disturbed, and `CalmInv` says what is true of them: one call at a time (`Alone`), what its
checks have read still holds (`ChecksHold`, `EnrolledIsThere`), an erasure holds all the photos
(`ErasesAll`), and a file without a row is held by a call that will write the row or delete the
file (`FilesAreHeld`). For students that are disturbed a bound on the cap remains, with the
pending enrollments counted in: the one that finds room finds at most `MaxPhotos - 1` photos, and at most
all other calls are between their check and their commit. TLC reaches the bound.

*ClassRoster.* Each conjunct of the invariant says of one thing that a call in flight has read
(a free key, a roster, active students, loaded columns, an enrollment) that it still holds, or that
a call in `since` made it false. A commit that makes it false for another call enters that call's
`since` in the same step, and an entry stays until the call is over. The properties are what these
conjuncts say in the step that answers. Ownership needs no excuse: rows keep their owner
(`RowsStay`), so what the guard has read of a class holds until the call writes
(`CallsAreOwners`).

Only model-checked: liveness (`ProcessingEnds`, `TaskEnds`, `RequestsGoOn`), which the prover
does not reach. What is proved is its safety half: a rank that falls with each step of the
task, a session in `processing` that has such a task, a request in wait of a refresh under way. What is left to TLC
is that the next step is enabled and taken (ENABLED and fairness). The violated properties of section 5 are false and have a counterexample instead;
`SingleUse` and `FrozenRegister` are proved for calls that do not overlap, and `SpentForGood` and
`FinalForGood` for those that do, once the overlap is over.

## 5. Where the code and its documentation disagree

Each of these is a run with one property that TLC finds violated.

- `frozen`: an edit that overlaps a confirmation changes the confirmed register.
  `confirm_session` says "Terminal: records become the official register",
  `_require_reviewable` "Edits are only legal while the teacher is reviewing". Without
  overlap the promise holds (`KeepsPromise`), with it only the weaker one
  (`KeepsOverlapPromise`), and the full one again when the calls that had loaded the session
  before are over (`FinalForGood`).
- `stuck`: the first load of the task is outside its `try`; if it raises, the session stays
  `processing`, against "mark failed so polling terminates". A crash, a refresh that
  raises after the upload's commit and a handler that raises have the same end; the run
  shows the one the task itself could catch.
- `single_use`: two overlapping refreshes with one token both succeed. Once they are over the token
  is never exchanged again (`SpentForGood`).
- `erasure`: two uploads of one photo at the same time leave a file without a row
  (the flush raises outside the handler that deletes it), and an erasure afterwards, with
  nothing overlapping it, leaves that file.

Three more were met and have no run of their own.

- The SELECTs of a poll may straddle the pipeline's commit: the answer says `processing` and
  has evidence, against the docstring of `get_session`. `AttendanceReview` has the separate reads.
- `/auth/me` is an auth route for the interceptor, so a page load does not refresh an expired
  access token, against the comment of `SessionLoader` (frontend `app/App.tsx`).
- The bulk enrollment says "already-enrolled students are skipped", but two overlapping calls
  for one student, or a list that names a student twice, end in a 500. `FailuresHaveReasons` says that
  nothing else does.

## 6. What is not modelled

- Two tabs: they share localStorage and not the promise, so that each may refresh with the same
  token; the later refresh is a replay, which ends the user's sessions (`ReplayEndsSessions`).
- The connection pool: a request keeps its connection during the inference. The pool's
  timeout turns a full pool into an error of the request (`Abandon`, `load`).
- `faces_detected`, error messages, scores beyond their order; passwords and the formats of tokens.
- `/auth/me` and the listings, searches and crops, which only read; `require_role`, which guards no
  endpoint that changes state.
- What a review call or a second session does to the rows of a session before its register is
  published (nothing, `AttendanceReview` shows it), so `SessionPipeline` has one session.
- Configuration, logging, migrations, the face engine and the pages of the frontend.

## 7. Plan

Done, in this order: `FaceOutcomes`, `DedupeOutcomes`, `AttendanceRegister` and
`AttendanceReview` with their proofs, `RefreshTokens` with its proofs, `AuthClient`,
`FaceEnrollment` with its proofs, `ClassRoster`, `SessionPipeline`, and the proofs of the safety
properties and refinements of all of them. `LoginSessions` and its refinements
came last, with what holds of overlapping calls and the safety halves of the liveness properties.

Next:

1. A second tab in `AuthClient`, and what still holds there: `OverlapInv` and the refinement of
   `LoginSessions!OverlapSpec` do not depend on the number of tabs.
2. A bound on the valid tokens of a session when refreshes overlap: each exchange of a spent token
   adds a branch that lives on, so it is the number of overlaps in the past and not of calls at a time.
3. What else `AttendanceReview` promises of a register, proved of the rows of `SessionPipeline`.
