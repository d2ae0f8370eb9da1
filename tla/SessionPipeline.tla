-------------------------- MODULE SessionPipeline --------------------------
(***************************************************************************)
(* One attendance session from its upload to its draft register, in the    *)
(* steps that AttendanceReview takes as one: the upload saves each photo   *)
(* before it commits, the background task reads each photo, finds its      *)
(* faces, asks the gallery about each face and saves its crop, and commits *)
(* detections and verdicts at the end.  Files and rows are two systems: a  *)
(* failure or a restart between two steps leaves one without the other.    *)
(*                                                                         *)
(* Nothing else changes these rows before the register is published.  What *)
(* others do meanwhile, enrolling, erasing and adding photos, shows in     *)
(* what the roster query and each gallery query find.                      *)
(*                                                                         *)
(* A definition named X_Something stands before the definition X of the    *)
(* code and changes it the way a slip would; no action uses it.            *)
(***************************************************************************)
EXTENDS FaceOutcomes, FiniteSets, Sequences

CONSTANTS
    Self,           \* the session
    MaxImages,      \* MAX_SESSION_IMAGES
    MaxFaces,       \* bound: faces detected in all the images
    MaxPhotos,      \* photos a student may have in the gallery
    RowLimit,       \* rows the gallery query fetches (limit * 4)
    Faults          \* the kinds of failure of the environment, of FaultKinds

\* disk: a save raises half-way, or a deletion raises.  ack: a commit is done and
\* raises.  The others are those of AttendanceReview.
FaultKinds == {"crash", "refresh", "load", "mark", "disk", "ack"}

PipelineAssumption ==
    /\ MaxImages \in Nat \ {0} /\ MaxFaces \in Nat
    /\ MaxPhotos \in Nat /\ RowLimit \in Nat \ {0}
    /\ Faults \subseteq FaultKinds
    /\ IsFiniteSet(Student)

ASSUME PipelineConstants == PipelineAssumption

VARIABLES
    session,        \* the row of attendance_sessions
    images,         \* how many rows of session_images it has
    evidence,       \* its face_detections, by position of the face
    records,        \* its attendance_records, by student
    files,          \* storage, by key
    task,           \* stage of the upload, then of the background task
    saved,          \* keys of photos the upload has saved (saved_keys)
    roster,         \* the roster the task has read
    work            \* what the task has computed so far

rowVars == <<session, images, evidence, records>>
vars    == <<session, images, evidence, records, files, task, saved, roster, work>>

Image == 1 .. MaxImages
Face  == 1 .. MaxFaces
Photo == Student \X (1 .. MaxPhotos)

\* Keys are fresh (uuid4): a photo or a crop has its position instead.
ImageKey(i) == <<"image", i>>
CropKey(f)  == <<"crop", f>>
StorageKey  == {ImageKey(i) : i \in Image} \cup {CropKey(f) : f \in Face}

\* partial: the save raised after it had created the file.
Content == {"none", "partial", "whole"}

\* The answer of a gallery query: the rows the index scan found, their
\* similarity to the face, and the first candidate.
Candidate == [student_id : Student, similarity : Similarity]
Query == [similarity : UNION {[P -> Similarity] : P \in SUBSET Photo},
          best : Candidate \cup {NULL}, outcome : Outcome]

ASSUME NoneIsNoAnswer == NULL \notin Query

\* image: position of the image under way.  left: its faces to come.
Work == [image : 0 .. MaxImages, left : 0 .. MaxFaces, query : Query \cup {NULL},
         outcomes : UNION {[1 .. n -> Outcome] : n \in 0 .. MaxFaces}]

Idle == [image |-> 0, left |-> 0, query |-> NULL, outcomes |-> <<>>]

UploadStages == {"none", "saving", "cleanup", "refused", "unclean"}
TaskStages   == {"created", "queued", "running", "failing", "done", "lost"}

\* The same session in AttendanceReview.  An upload without a row has not begun
\* there.  With its row committed but not acknowledged it is an upload whose
\* refresh fails, and a task whose last commit was not acknowledged is over.
ReviewTask ==
    IF session.status = "none" THEN "none"
    ELSE IF session.status = "pending_review" THEN "done"
    ELSE CASE task = "cleanup"                -> "created"
           [] task \in {"refused", "unclean"} -> "lost"
           [] OTHER                           -> task

Review == INSTANCE AttendanceReview WITH
    Session    <- {Self},
    Actor      <- {Self},
    Admin      <- {},
    Teacher    <- [s \in {Self} |-> Self],
    Req        <- {},
    CallInputs <- {},
    Faults     <- {"crash", "refresh", "load", "mark"},
    session    <- [s \in {Self} |-> session],
    evidence   <- [s \in {Self} |-> evidence],
    records    <- [s \in {Self} |-> records],
    audit      <- {},
    task       <- [s \in {Self} |-> ReviewTask],
    roster     <- [s \in {Self} |-> IF task = "running" THEN roster ELSE {}],
    pc         <- [r \in {} |-> "idle"],
    call       <- [r \in {} |-> NULL],
    seen       <- [r \in {} |-> NULL]

Init ==
    /\ session = Review!NoRow
    /\ images = 0
    /\ evidence = Review!NoRows
    /\ records = Review!NoRows
    /\ files = [key \in StorageKey |-> "none"]
    /\ task = "none"
    /\ saved = 0
    /\ roster = {}
    /\ work = Idle

-----------------------------------------------------------------------------
(* The upload: AttendanceService.create_session.                           *)

Goto(stage) == task' = stage

\* The flush of the session row, and each photo to its file.
SavePhoto ==
    /\ task \in {"none", "saving"} /\ saved < MaxImages
    /\ Goto("saving")
    /\ files' = [files EXCEPT ![ImageKey(saved + 1)] = "whole"]
    /\ saved' = saved + 1
    /\ UNCHANGED <<rowVars, roster, work>>

SaveRaises ==
    /\ "disk" \in Faults
    /\ task \in {"none", "saving"} /\ saved < MaxImages
    /\ Goto("cleanup")
    /\ files' = [files EXCEPT ![ImageKey(saved + 1)] = "partial"]
    /\ UNCHANGED <<rowVars, saved, roster, work>>

Insert ==
    /\ session' = [session EXCEPT !.status = "processing"]
    /\ images' = saved
    /\ UNCHANGED <<evidence, records, files, saved, roster, work>>

\* All the photos of the request are saved: the commit.
CommitUpload == task = "saving" /\ Insert /\ Goto("created")

\* The commit raises, not done, or done and not acknowledged.
CommitRaises ==
    /\ task = "saving" /\ Goto("cleanup")
    /\ UNCHANGED <<rowVars, files, saved, roster, work>>

CommitUnacked ==
    /\ "ack" \in Faults
    /\ task = "saving" /\ Insert /\ Goto("cleanup")

CleanUp_Nothing ==
    /\ task = "cleanup" /\ Goto("refused")
    /\ UNCHANGED <<rowVars, files, saved, roster, work>>

\* The first n saved keys are deleted.
DeleteSaved(n) ==
    files' = [key \in StorageKey |->
                 IF key \in {ImageKey(i) : i \in 1 .. n} THEN "none" ELSE files[key]]

\* except: rollback, and the saved keys are deleted.
CleanUp ==
    /\ task = "cleanup" /\ Goto("refused")
    /\ DeleteSaved(saved)
    /\ UNCHANGED <<rowVars, saved, roster, work>>

\* The rollback raises, a deletion raises, or the process dies between two of
\* them: the keys that are left are in nobody's hands.
CleanUpStops ==
    /\ Faults \cap {"disk", "crash"} # {}
    /\ task = "cleanup" /\ Goto("unclean")
    /\ \E n \in 0 .. saved : DeleteSaved(n)
    /\ UNCHANGED <<rowVars, saved, roster, work>>

RefreshFails_CleansUp ==
    /\ "refresh" \in Faults
    /\ task = "created" /\ Goto("lost")
    /\ files' = [key \in StorageKey |-> "none"]
    /\ UNCHANGED <<rowVars, saved, roster, work>>

\* The refresh after the commit is outside the try: the endpoint raises before
\* add_task.
RefreshFails ==
    /\ "refresh" \in Faults
    /\ task = "created" /\ Goto("lost")
    /\ UNCHANGED <<rowVars, files, saved, roster, work>>

-----------------------------------------------------------------------------
(* The task: process_session and _run.                                     *)

Enqueue ==
    /\ task = "created" /\ Goto("queued")
    /\ UNCHANGED <<rowVars, files, saved, roster, work>>

TaskLoadFails ==
    /\ "load" \in Faults
    /\ task = "queued" /\ Goto("lost")
    /\ UNCHANGED <<rowVars, files, saved, roster, work>>

\* The session is loaded with its images, and the roster is read, once.
TaskStart ==
    /\ task = "queued" /\ session.status = "processing" /\ Goto("running")
    /\ \E enrolled \in SUBSET Student : roster' = enrolled
    /\ work' = Idle
    /\ UNCHANGED <<rowVars, files, saved>>

Working == task = "running" /\ work.query = NULL

\* storage.get of the next image and the inference on it.
Detect ==
    /\ Working /\ work.left = 0 /\ work.image < images
    /\ files[ImageKey(work.image + 1)] = "whole"
    /\ \E n \in 0 .. MaxFaces - Len(work.outcomes) :
          work' = [work EXCEPT !.image = @ + 1, !.left = n]
    /\ UNCHANGED <<rowVars, files, task, saved, roster>>

\* The sets of rows that LIMIT may leave.
Cuts(P) == IF Cardinality(P) <= RowLimit THEN {P}
           ELSE {rows \in SUBSET P : Cardinality(rows) = RowLimit}

Fetched_Farthest(similarity) ==
    {rows \in Cuts(DOMAIN similarity) :
        \A p \in rows, q \in DOMAIN similarity \ rows :
            similarity[p] <= similarity[q]}

\* ORDER BY distance LIMIT, on the rows the scan finds.
Fetched(similarity) ==
    {rows \in Cuts(DOMAIN similarity) :
        \A p \in rows, q \in DOMAIN similarity \ rows :
            similarity[p] >= similarity[q]}

\* The best row of each student, ranked: the first candidate.
First(similarity, rows) ==
    IF rows = {} THEN {NULL}
    ELSE {[student_id |-> p[1], similarity |-> similarity[p]] :
             p \in {q \in rows : \A o \in rows : similarity[o] <= similarity[q]}}

\* match_against_students, on whatever photos of the roster the index scan
\* finds, and classify_face.
MatchFace ==
    /\ Working /\ work.left > 0
    /\ \E found \in SUBSET (roster \X (1 .. MaxPhotos)), good \in BOOLEAN :
       \E similarity \in [found -> Similarity] :
       \E rows \in Fetched(similarity) :
       \E best \in First(similarity, rows) :
          work' = [work EXCEPT !.query =
                [similarity |-> similarity, best |-> best,
                 outcome |-> Classify(good, best)]]
    /\ UNCHANGED <<rowVars, files, task, saved, roster>>

\* The crop of the face is saved, its detection and outcome are kept.
SaveCrop ==
    /\ task = "running" /\ work.query # NULL
    /\ files' = [files EXCEPT ![CropKey(Len(work.outcomes) + 1)] = "whole"]
    /\ work' = [work EXCEPT !.left = @ - 1, !.query = NULL,
                            !.outcomes = Append(@, work.query.outcome)]
    /\ UNCHANGED <<rowVars, task, saved, roster>>

Publish_Undeduped ==
    /\ LET rows == [f \in DOMAIN work.outcomes |-> Review!DetectionOf(work.outcomes[f])]
       IN  /\ evidence' = rows
           /\ records' = [st \in roster |-> Review!Draft(Self, rows, st)]
    /\ session' = [session EXCEPT !.status = "pending_review"]
    /\ UNCHANGED images

\* The dedupe, the detections, the verdicts and the status, in one commit.
Publish ==
    /\ LET rows == [f \in DOMAIN work.outcomes |->
                       Review!DetectionOf(Dedupe(work.outcomes)[f])]
       IN  /\ evidence' = rows
           /\ records' = [st \in roster |-> Review!Draft(Self, rows, st)]
    /\ session' = [session EXCEPT !.status = "pending_review"]
    /\ UNCHANGED images

\* The loops are over.
Complete == Working /\ work.left = 0 /\ work.image = images

Stop(stage) == Goto(stage) /\ roster' = {} /\ work' = Idle

TaskCommit == Complete /\ Publish /\ Stop("done") /\ UNCHANGED <<files, saved>>

TaskRaises_Requeue ==
    /\ task = "running" /\ Stop("queued")
    /\ UNCHANGED <<rowVars, files, saved>>

\* Any exception of _run: the transaction is rolled back.
TaskRaises ==
    /\ task = "running" /\ Stop("failing")
    /\ UNCHANGED <<rowVars, files, saved>>

\* Saving a crop raises half-way.
CropRaises ==
    /\ "disk" \in Faults
    /\ task = "running" /\ work.query # NULL
    /\ files' = [files EXCEPT ![CropKey(Len(work.outcomes) + 1)] = "partial"]
    /\ Stop("failing")
    /\ UNCHANGED <<rowVars, saved>>

\* The commit of _run is done, and raises: the handler runs.
TaskUnacked ==
    /\ "ack" \in Faults
    /\ Complete /\ Publish /\ Stop("failing") /\ UNCHANGED <<files, saved>>

\* The handler reads the session again and marks it failed, whatever its status.
TaskMarksFailed ==
    /\ task = "failing" /\ Goto("done")
    /\ session' = [session EXCEPT !.status = "failed"]
    /\ UNCHANGED <<images, evidence, records, files, saved, roster, work>>

TaskMarkFails ==
    /\ "mark" \in Faults
    /\ task = "failing" /\ Goto("lost")
    /\ UNCHANGED <<rowVars, files, saved, roster, work>>

\* The process dies: what it holds in memory is gone, nothing is cleaned up.
Crash ==
    /\ "crash" \in Faults
    /\ task \notin {"none", "refused", "unclean", "done", "lost"}
    /\ Stop("lost")
    /\ UNCHANGED <<rowVars, files, saved>>

UploadStep == \/ SavePhoto
              \/ CommitUpload
              \/ CommitRaises
              \/ CleanUp

TaskStep == \/ Enqueue
            \/ TaskStart
            \/ Detect
            \/ MatchFace
            \/ SaveCrop
            \/ TaskCommit
            \/ TaskRaises
            \/ TaskMarksFailed

Fault == \/ SaveRaises
         \/ CleanUpStops
         \/ CommitUnacked
         \/ RefreshFails
         \/ TaskLoadFails
         \/ CropRaises
         \/ TaskUnacked
         \/ TaskMarkFails
         \/ Crash

Next == UploadStep \/ TaskStep \/ Fault

\* The event loop runs a task that is ready, inference ends and the database
\* answers or raises.  An upload may stop at any time.
Spec == Init /\ [][Next]_vars /\ WF_vars(TaskStep)

-----------------------------------------------------------------------------
(* Properties.                                                             *)

\* The types of all the variables.
TypeOK ==
    /\ session \in [status : {"none", "processing", "pending_review", "failed"},
                    confirmed_at : {NULL}]
    /\ images \in 0 .. MaxImages /\ saved \in 0 .. MaxImages
    /\ evidence \in Review!EvidenceRows
    /\ records \in Review!RecordRows
    /\ files \in [StorageKey -> Content]
    /\ task \in UploadStages \cup TaskStages
    /\ roster \subseteq Student
    /\ work \in Work

\* Rows point to files that are there: a session's photos and the crops of its
\* detections are stored whole, whatever fails.  The exception is an upload
\* whose commit was not acknowledged: its files are deleted.
FilesBackRows ==
    /\ task \notin {"cleanup", "refused", "unclean"} =>
          \A i \in 1 .. images : files[ImageKey(i)] = "whole"
    /\ \A f \in DOMAIN evidence : files[CropKey(f)] = "whole"

\* "don't leave orphaned files" (create_session): an upload that is refused and
\* cleaned up leaves at most the file whose save raised, and a crop without a
\* detection means that the task failed or died.
OrphansComeFromFailures ==
    /\ task = "refused" => \A i \in Image : files[ImageKey(i)] # "whole"
    /\ \A f \in Face : files[CropKey(f)] # "none" =>
          \/ f \in DOMAIN evidence
          \/ task \in {"running", "failing", "lost"} \/ session.status = "failed"

\* "Returns [(student_id, similarity)] best-first" (match_against_students): the
\* candidate a face is classified by is the nearest photo that the scan found,
\* though the rows are cut to a limit before they are merged by student.
BestIsNearest ==
    work.query # NULL =>
        LET q == work.query
        IN  IF DOMAIN q.similarity = {} THEN q.best = NULL
            ELSE /\ \E p \in DOMAIN q.similarity :
                       q.best = [student_id |-> p[1], similarity |-> q.similarity[p]]
                 /\ \A p \in DOMAIN q.similarity : q.similarity[p] <= q.best.similarity

\* The task of a session that was created ends, with the session published or
\* failed, or is lost to one of the faults that nothing catches: it never waits
\* and never loops.
TaskEnds ==
    task \in {"created", "queued", "running", "failing"} ~>
        \/ task = "done" /\ session.status \in {"pending_review", "failed"}
        \/ task = "lost"

\* What a lost acknowledgement of the last commit does: the handler finds the
\* session published and marks it failed, with its register in place.
MarkedAfterLostAck ==
    /\ session.status = "pending_review" /\ session'.status = "failed"
    /\ UNCHANGED <<evidence, records>>

\* The steps in detail are those of AttendanceReview: its creation, its task,
\* its commit of outcomes that classify_face computes for the roster, deduped,
\* and its failures ("nothing is half-committed"), but for a lost
\* acknowledgement.
KeepsReview ==
    /\ Review!Init
    /\ [][Review!Next \/ UNCHANGED Review!vars \/ MarkedAfterLostAck]_vars
=============================================================================
