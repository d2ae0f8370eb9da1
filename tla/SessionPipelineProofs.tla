----------------------- MODULE SessionPipelineProofs ------------------------
(***************************************************************************)
(* What the steps of one session promise of files, candidates and rows,    *)
(* for all bounds and every combination of faults, that they are those of  *)
(* AttendanceReview, that the register they write is the draft of its      *)
(* evidence, and that each of them takes the task closer to its end.       *)
(***************************************************************************)
EXTENDS SessionPipeline, FaceOutcomesProofs, FiniteSetTheorems

\* What the parts below take for granted of each variable.
Shapes ==
    /\ session \in [status : {"none", "processing", "pending_review", "failed"},
                    confirmed_at : {NULL}]
    /\ images \in 0 .. MaxImages /\ saved \in 0 .. MaxImages
    /\ files \in [StorageKey -> Content]
    /\ task \in UploadStages \cup TaskStages
    /\ roster \subseteq Student
    /\ work \in [image : Nat, left : Nat, query : Query \cup {NULL},
                 outcomes : Seq(Outcome)]

\* The row of the session fits the stage of its upload and task.
StagesFit ==
    /\ task \in {"none", "saving"} => session.status = "none" /\ images = 0
    /\ task \in {"cleanup", "refused", "unclean"} => session.status \in {"none", "processing"}
    /\ task \in {"created", "queued", "running"} => session.status = "processing"
    /\ task = "failing" => session.status \in {"processing", "pending_review"}
    /\ session.status \in {"none", "processing"} =>
          evidence = Review!NoRows /\ records = Review!NoRows
    /\ images = 0 \/ images = saved

\* Which files there are.
PhotosFit ==
    /\ task \notin {"refused", "unclean"} =>
          \A i \in 1 .. saved : files[ImageKey(i)] = "whole"
    /\ \A i \in Image : i > saved => files[ImageKey(i)] # "whole"
    /\ task = "refused" => \A i \in Image : files[ImageKey(i)] # "whole"

CropsFit ==
    /\ task \notin {"running", "failing", "done", "lost"} =>
          \A f \in Face : files[CropKey(f)] = "none"
    /\ task = "running" =>
          \A f \in Face : files[CropKey(f)] =
                             IF f <= Len(work.outcomes) THEN "whole" ELSE "none"
    /\ \A f \in DOMAIN evidence : files[CropKey(f)] = "whole"

\* What a running task has computed.
WorkFits ==
    task = "running" =>
        /\ work.outcomes \in Seq(OutcomesFor(roster))
        /\ Len(work.outcomes) + work.left <= MaxFaces
        /\ work.query # NULL =>
              work.left > 0 /\ work.query.outcome \in OutcomesFor(roster)

IInv ==
    /\ Shapes
    /\ StagesFit
    /\ PhotosFit
    /\ CropsFit
    /\ WorkFits
    /\ OrphansComeFromFailures
    /\ BestIsNearest

-----------------------------------------------------------------------------
(* The gallery query.                                                      *)

\* The nearest of the rows that LIMIT leaves is the nearest of all.
LEMMA NearestIsFetched ==
  ASSUME NEW found \in SUBSET Photo,
         NEW similarity \in [found -> Similarity],
         NEW rows \in Fetched(similarity), NEW best \in First(similarity, rows)
  PROVE  /\ found = {} => best = NULL
         /\ found # {} =>
              /\ \E p \in found : best = [student_id |-> p[1], similarity |-> similarity[p]]
              /\ \A p \in found : similarity[p] <= best.similarity
<1>1. /\ rows \subseteq found
      /\ \/ Cardinality(found) <= RowLimit /\ rows = found
         \/ Cardinality(rows) = RowLimit
      /\ \A p \in rows, q \in found \ rows : similarity[p] >= similarity[q]
  BY DEF Fetched, Cuts
<1>2. CASE found = {}
  BY <1>1, <1>2 DEF First
<1>3. CASE found # {}
  <2>1. rows # {}
    BY <1>1, <1>3, FS_EmptySet, PipelineConstants DEF PipelineAssumption
  <2>2. PICK p \in rows : /\ best = [student_id |-> p[1], similarity |-> similarity[p]]
                          /\ \A o \in rows : similarity[o] <= similarity[p]
    BY <2>1 DEF First
  <2>3. best.similarity = similarity[p] /\ p \in found
    BY <1>1, <2>2
  <2>4. \A q \in found : similarity[q] \in Nat
    BY MatcherAssumption
  <2>5. \A q \in found : similarity[q] <= similarity[p]
    BY <1>1, <2>2, <2>3, <2>4
  <2> QED
    BY <1>3, <2>2, <2>3, <2>5
<1> QED
  BY <1>2, <1>3

\* What MatchFace keeps of a face.
LEMMA QueryFits ==
  ASSUME IInv, MatchFace
  PROVE  /\ task = "running" /\ work.query = NULL /\ work.left > 0
         /\ work' = [work EXCEPT !.query = work'.query]
         /\ work'.query \in Query
         /\ work'.query.outcome \in OutcomesFor(roster)
         /\ BestIsNearest'
         /\ UNCHANGED <<session, images, evidence, records, files, task, saved, roster>>
<1>1. PICK found \in SUBSET (roster \X (1 .. MaxPhotos)), good \in BOOLEAN :
      \E similarity \in [found -> Similarity] :
      \E rows \in Fetched(similarity) :
      \E best \in First(similarity, rows) :
          work' = [work EXCEPT !.query =
                [similarity |-> similarity, best |-> best, outcome |-> Classify(good, best)]]
  BY DEF MatchFace
<1>2. PICK similarity \in [found -> Similarity] :
      \E rows \in Fetched(similarity) :
      \E best \in First(similarity, rows) :
          work' = [work EXCEPT !.query =
                [similarity |-> similarity, best |-> best, outcome |-> Classify(good, best)]]
  BY <1>1
<1>3. PICK rows \in Fetched(similarity) :
      \E best \in First(similarity, rows) :
          work' = [work EXCEPT !.query =
                [similarity |-> similarity, best |-> best, outcome |-> Classify(good, best)]]
  BY <1>2
<1>4. PICK best \in First(similarity, rows) :
          work' = [work EXCEPT !.query =
                [similarity |-> similarity, best |-> best, outcome |-> Classify(good, best)]]
  BY <1>3
<1> DEFINE query == [similarity |-> similarity, best |-> best, outcome |-> Classify(good, best)]
<1>5. work'.query = query /\ work' = [work EXCEPT !.query = query]
  BY <1>4 DEF IInv, Shapes
<1>6. found \subseteq Photo /\ \A p \in found : p[1] \in roster
  BY DEF IInv, Shapes, Photo
<1>7. /\ found = {} => best = NULL
      /\ found # {} =>
           /\ \E p \in found : best = [student_id |-> p[1], similarity |-> similarity[p]]
           /\ \A p \in found : similarity[p] <= best.similarity
  BY <1>6, NearestIsFetched
<1>8. best \in BestCandidates(roster)
  BY <1>6, <1>7 DEF BestCandidates
<1>9. Classify(good, best) \in OutcomesFor(roster)
  BY <1>8 DEF OutcomesFor
<1>10. query \in Query
  <2>1. similarity \in UNION {[P -> Similarity] : P \in SUBSET Photo}
    BY <1>6
  <2>2. best \in Candidate \cup {NULL}
    BY <1>8 DEF BestCandidates, Candidate, IInv, Shapes
  <2>3. Classify(good, best) \in Outcome
    BY <1>9, ClassifyType DEF IInv, Shapes
  <2> QED
    BY <2>1, <2>2, <2>3 DEF Query
<1>11. BestIsNearest'
  <2>1. query.similarity = similarity /\ query.best = best /\ DOMAIN similarity = found
    OBVIOUS
  <2> HIDE DEF query
  <2>2. /\ work'.query.similarity = similarity /\ work'.query.best = best
        /\ DOMAIN similarity = found
    BY <1>5, <2>1
  <2>3. CASE found = {}
    BY <1>7, <2>2, <2>3 DEF BestIsNearest
  <2>4. CASE found # {}
    BY <1>7, <2>2, <2>4 DEF BestIsNearest
  <2> QED
    BY <2>3, <2>4
<1>12. /\ task = "running" /\ work.query = NULL /\ work.left > 0
       /\ UNCHANGED <<session, images, evidence, records, files, task, saved, roster>>
  BY DEF MatchFace, Working, rowVars
<1> QED
  BY <1>5, <1>9, <1>10, <1>11, <1>12

-----------------------------------------------------------------------------
(* The invariant.                                                          *)

\* Keys of photos and of crops.
LEMMA KeysDiffer ==
  /\ \A i, f : ImageKey(i) # CropKey(f)
  /\ \A i, j : ImageKey(i) = ImageKey(j) <=> i = j
  /\ \A f, g : CropKey(f) = CropKey(g) <=> f = g
  /\ \A i \in Image : ImageKey(i) \in StorageKey
  /\ \A f \in Face : CropKey(f) \in StorageKey
  BY DEF ImageKey, CropKey, StorageKey

LEMMA NoRowsIsEmpty == DOMAIN Review!NoRows = {}
  BY DEF Review!NoRows

LEMMA InitIsFine == Init => IInv
<1> SUFFICES ASSUME Init PROVE IInv
  OBVIOUS
<1>1. Shapes
  BY PipelineConstants
  DEF PipelineAssumption, Init, Shapes, Idle, Review!NoRow, UploadStages, Content
<1>2. StagesFit
  BY DEF Init, StagesFit, Review!NoRow
<1>3. PhotosFit
  BY KeysDiffer DEF Init, PhotosFit
<1>4. CropsFit
  BY KeysDiffer, NoRowsIsEmpty DEF Init, CropsFit
<1>5. WorkFits /\ OrphansComeFromFailures /\ BestIsNearest
  BY KeysDiffer DEF Init, WorkFits, OrphansComeFromFailures, BestIsNearest, Idle
<1> QED
  BY <1>1, <1>2, <1>3, <1>4, <1>5 DEF IInv

\* Deleting saved photos, all of them or not.
LEMMA DeletionKeeps ==
  ASSUME IInv, NEW n \in 0 .. saved, DeleteSaved(n), task = "cleanup",
         (task' = "refused" /\ n = saved) \/ task' = "unclean",
         UNCHANGED <<session, images, evidence, records, saved, roster, work>>
  PROVE  IInv'
<1>0. saved \in 0 .. MaxImages /\ n \in Nat /\ saved \in Nat
  BY PipelineConstants DEF PipelineAssumption, IInv, Shapes
<1>1. \A f \in Face : files'[CropKey(f)] = files[CropKey(f)]
  BY KeysDiffer DEF DeleteSaved
<1>2. \A i \in Image : files'[ImageKey(i)] = IF i <= n THEN "none" ELSE files[ImageKey(i)]
  BY <1>0, KeysDiffer DEF DeleteSaved, Image
<1>3. Shapes'
  BY DEF DeleteSaved, IInv, Shapes, Content, UploadStages
<1>4. StagesFit'
  BY DEF IInv, StagesFit
<1>5. PhotosFit'
  <2>1. \A i \in Image : i > saved => files'[ImageKey(i)] # "whole"
    BY <1>2 DEF IInv, PhotosFit
  <2>2. ASSUME n = saved, NEW i \in Image PROVE files'[ImageKey(i)] # "whole"
    <3>1. i <= saved \/ i > saved
      BY <1>0 DEF Image
    <3> QED
      BY <1>2, <2>1, <2>2, <3>1
  <2> QED
    BY <2>1, <2>2 DEF PhotosFit
<1>6. CropsFit'
  BY <1>1, NoRowsIsEmpty DEF IInv, StagesFit, CropsFit
<1>7. OrphansComeFromFailures'
  BY <1>5, <1>6 DEF PhotosFit, CropsFit, OrphansComeFromFailures
<1>8. WorkFits' /\ BestIsNearest'
  BY DEF IInv, WorkFits, BestIsNearest
<1> QED
  BY <1>3, <1>4, <1>5, <1>6, <1>7, <1>8 DEF IInv

LEMMA UploadKeeps ==
  ASSUME IInv, UploadStep \/ SaveRaises \/ CommitUnacked \/ CleanUpStops
  PROVE  IInv'
<1> USE DEF Goto, rowVars, UploadStages, TaskStages
<1>1. CASE SavePhoto
  <2>0. /\ saved + 1 \in 1 .. MaxImages /\ saved' = saved + 1 /\ task' = "saving"
        /\ files'[ImageKey(saved + 1)] = "whole"
        /\ \A key \in StorageKey : key # ImageKey(saved + 1) => files'[key] = files[key]
        /\ \A f \in Face : files'[CropKey(f)] = files[CropKey(f)]
        /\ session.status = "none" /\ images = 0
    BY <1>1, KeysDiffer, PipelineConstants
    DEF PipelineAssumption, SavePhoto, IInv, Shapes, StagesFit, Image
  <2>1. Shapes'
    <3>1. files' \in [StorageKey -> Content]
      BY <1>1 DEF SavePhoto, IInv, Shapes, Content
    <3>2. saved' \in 0 .. MaxImages
      BY <2>0, PipelineConstants DEF PipelineAssumption, IInv, Shapes
    <3> QED
      BY <1>1, <2>0, <3>1, <3>2 DEF SavePhoto, IInv, Shapes
  <2>2. StagesFit'
    BY <1>1, <2>0 DEF SavePhoto, IInv, StagesFit
  <2>3. PhotosFit'
    BY <1>1, <2>0, KeysDiffer, PipelineConstants
    DEF PipelineAssumption, SavePhoto, IInv, Shapes, PhotosFit, Image
  <2>4. CropsFit' /\ OrphansComeFromFailures'
    BY <1>1, <2>0, NoRowsIsEmpty
    DEF SavePhoto, IInv, StagesFit, CropsFit, OrphansComeFromFailures
  <2>5. WorkFits' /\ BestIsNearest'
    BY <1>1, <2>0 DEF SavePhoto, IInv, WorkFits, BestIsNearest
  <2> QED
    BY <2>1, <2>2, <2>3, <2>4, <2>5 DEF IInv
<1>2. CASE SaveRaises
  <2>0. /\ saved + 1 \in 1 .. MaxImages /\ saved' = saved /\ task' = "cleanup"
        /\ files'[ImageKey(saved + 1)] = "partial"
        /\ \A key \in StorageKey : key # ImageKey(saved + 1) => files'[key] = files[key]
        /\ \A f \in Face : files'[CropKey(f)] = files[CropKey(f)]
        /\ session.status = "none" /\ images = 0
    BY <1>2, KeysDiffer, PipelineConstants
    DEF PipelineAssumption, SaveRaises, IInv, Shapes, StagesFit, Image
  <2>1. Shapes'
    <3>1. files' \in [StorageKey -> Content]
      BY <1>2 DEF SaveRaises, IInv, Shapes, Content
    <3> QED
      BY <1>2, <2>0, <3>1 DEF SaveRaises, IInv, Shapes
  <2>2. StagesFit'
    BY <1>2, <2>0 DEF SaveRaises, IInv, StagesFit
  <2>3. PhotosFit'
    BY <1>2, <2>0, KeysDiffer, PipelineConstants
    DEF PipelineAssumption, SaveRaises, IInv, Shapes, PhotosFit, Image
  <2>4. CropsFit' /\ OrphansComeFromFailures'
    BY <1>2, <2>0, NoRowsIsEmpty
    DEF SaveRaises, IInv, StagesFit, CropsFit, OrphansComeFromFailures
  <2>5. WorkFits' /\ BestIsNearest'
    BY <1>2, <2>0 DEF SaveRaises, IInv, WorkFits, BestIsNearest
  <2> QED
    BY <2>1, <2>2, <2>3, <2>4, <2>5 DEF IInv
<1>3. CASE CommitUpload \/ CommitUnacked
  <2>0. /\ task = "saving" /\ task' \in {"created", "cleanup"}
        /\ session' = [session EXCEPT !.status = "processing"]
        /\ session'.status = "processing" /\ images' = saved
        /\ UNCHANGED <<evidence, records, files, saved, roster, work>>
        /\ session.status = "none"
    BY <1>3 DEF CommitUpload, CommitUnacked, Insert, IInv, Shapes, StagesFit
  <2>1. Shapes'
    BY <2>0 DEF IInv, Shapes
  <2>2. StagesFit'
    BY <2>0 DEF IInv, StagesFit
  <2>3. PhotosFit' /\ CropsFit'
    BY <2>0 DEF IInv, PhotosFit, CropsFit
  <2>4. OrphansComeFromFailures' /\ WorkFits' /\ BestIsNearest'
    BY <2>0 DEF IInv, CropsFit, OrphansComeFromFailures, WorkFits, BestIsNearest
  <2> QED
    BY <2>1, <2>2, <2>3, <2>4 DEF IInv
<1>4. CASE CommitRaises
  <2>0. /\ task = "saving" /\ task' = "cleanup" /\ session.status = "none"
        /\ UNCHANGED <<session, images, evidence, records, files, saved, roster, work>>
    BY <1>4 DEF CommitRaises, IInv, StagesFit
  <2>1. Shapes'
    BY <2>0 DEF IInv, Shapes
  <2>2. StagesFit' /\ PhotosFit' /\ CropsFit'
    BY <2>0 DEF IInv, StagesFit, PhotosFit, CropsFit
  <2>3. OrphansComeFromFailures' /\ WorkFits' /\ BestIsNearest'
    BY <2>0 DEF IInv, CropsFit, OrphansComeFromFailures, WorkFits, BestIsNearest
  <2> QED
    BY <2>1, <2>2, <2>3 DEF IInv
<1>5. CASE CleanUp
  <2>1. saved \in 0 .. saved
    BY PipelineConstants DEF PipelineAssumption, IInv, Shapes
  <2> QED
    BY <1>5, <2>1, DeletionKeeps DEF CleanUp
<1>6. CASE CleanUpStops
  <2>1. PICK n \in 0 .. saved : DeleteSaved(n)
    BY <1>6 DEF CleanUpStops
  <2> QED
    BY <1>6, <2>1, DeletionKeeps DEF CleanUpStops
<1> QED
  BY <1>1, <1>2, <1>3, <1>4, <1>5, <1>6 DEF UploadStep

\* Steps of the task that write neither rows nor files: it moves to a later
\* stage, with nothing of its work or none begun.
LEMMA StageKeeps ==
  ASSUME IInv, NEW stage \in TaskStages, task' = stage,
         UNCHANGED <<session, images, evidence, records, files, saved>>,
         \/ task = "created" /\ stage = "queued"
         \/ task \notin {"none", "refused", "unclean", "done", "lost"} /\ stage = "lost"
         \/ task = "running" /\ stage = "failing",
         \/ work' = work
         \/ work' = Idle,
         roster' \subseteq Student
  PROVE  IInv'
<1>1. /\ task \notin {"refused", "unclean"} /\ task' \notin {"refused", "unclean"}
      /\ task' # "running"
  BY DEF TaskStages
<1>2. Idle.query = NULL /\ Idle \in [image : Nat, left : Nat, query : Query \cup {NULL},
                                     outcomes : Seq(Outcome)]
  BY DEF Idle
<1>3. Shapes'
  BY <1>2 DEF IInv, Shapes
<1>4. StagesFit'
  BY DEF IInv, StagesFit
<1>5. PhotosFit'
  BY <1>1 DEF IInv, PhotosFit
<1>6. CropsFit'
  BY <1>1 DEF IInv, CropsFit
<1>7. OrphansComeFromFailures'
  BY <1>1 DEF IInv, CropsFit, OrphansComeFromFailures
<1>8. WorkFits' /\ BestIsNearest'
  BY <1>1, <1>2 DEF IInv, WorkFits, BestIsNearest
<1> QED
  BY <1>3, <1>4, <1>5, <1>6, <1>7, <1>8 DEF IInv

\* The rows that Publish writes.
LEMMA Published ==
  ASSUME IInv, Complete, Publish
  PROVE  /\ task = "running" /\ session.status = "processing"
         /\ session' = [session EXCEPT !.status = "pending_review"]
         /\ session'.status = "pending_review" /\ images' = images
         /\ DOMAIN evidence' = 1 .. Len(work.outcomes)
         /\ Len(work.outcomes) \in 0 .. MaxFaces
<1>1. DOMAIN evidence' = DOMAIN work.outcomes
  BY DEF Publish
<1>2. task = "running" /\ session.status = "processing"
  BY DEF Complete, Working, IInv, StagesFit
<1>3. work.outcomes \in Seq(Outcome) /\ work.left = 0 /\ Len(work.outcomes) + work.left <= MaxFaces
  BY <1>2 DEF Complete, IInv, Shapes, WorkFits
<1>4. DOMAIN work.outcomes = 1 .. Len(work.outcomes) /\ Len(work.outcomes) \in 0 .. MaxFaces
  BY <1>3, PipelineConstants DEF PipelineAssumption
<1> QED
  BY <1>1, <1>2, <1>4 DEF Publish, IInv, Shapes

LEMMA TaskKeeps ==
  ASSUME IInv,
         \/ Enqueue \/ TaskStart \/ Detect \/ MatchFace \/ SaveCrop
         \/ TaskRaises \/ TaskMarksFailed
  PROVE  IInv'
<1> USE DEF Goto, rowVars
<1>1. CASE Enqueue
  BY <1>1, StageKeeps DEF Enqueue, TaskStages, IInv, Shapes
<1>2. CASE TaskStart
  <2>0. /\ task = "queued" /\ task' = "running" /\ work' = Idle /\ roster' \subseteq Student
        /\ UNCHANGED <<session, images, evidence, records, files, saved>>
    BY <1>2 DEF TaskStart
  <2>1. Shapes'
    BY <2>0 DEF IInv, Shapes, Idle, TaskStages
  <2>2. StagesFit' /\ PhotosFit'
    BY <2>0 DEF IInv, StagesFit, PhotosFit
  <2>3. CropsFit'
    BY <2>0, PipelineConstants DEF PipelineAssumption, IInv, CropsFit, Idle, Face
  <2>4. OrphansComeFromFailures' /\ BestIsNearest'
    BY <2>0 DEF IInv, OrphansComeFromFailures, BestIsNearest, Idle
  <2>5. WorkFits'
    BY <2>0, PipelineConstants DEF PipelineAssumption, WorkFits, Idle
  <2> QED
    BY <2>1, <2>2, <2>3, <2>4, <2>5 DEF IInv
<1>3. CASE Detect
  <2>1. PICK n \in 0 .. MaxFaces - Len(work.outcomes) :
            work' = [work EXCEPT !.image = @ + 1, !.left = n]
    BY <1>3 DEF Detect
  <2>2. /\ task = "running" /\ work.query = NULL
        /\ UNCHANGED <<session, images, evidence, records, files, task, saved, roster>>
    BY <1>3 DEF Detect, Working
  <2>3. Len(work.outcomes) \in Nat
    BY DEF IInv, Shapes
  <2>4. /\ work'.left = n /\ work'.query = NULL /\ work'.outcomes = work.outcomes
        /\ n \in Nat /\ Len(work.outcomes) + n <= MaxFaces
    BY <2>1, <2>2, <2>3, PipelineConstants DEF PipelineAssumption, IInv, Shapes
  <2>5. Shapes'
    <3>1. work.image + 1 \in Nat /\ n \in Nat
      BY <2>4 DEF IInv, Shapes
    <3>2. work' \in [image : Nat, left : Nat, query : Query \cup {NULL}, outcomes : Seq(Outcome)]
      BY <2>1, <3>1 DEF IInv, Shapes
    <3> QED
      BY <2>2, <3>2 DEF IInv, Shapes
  <2>6. StagesFit' /\ PhotosFit' /\ CropsFit'
    BY <2>2, <2>4 DEF IInv, StagesFit, PhotosFit, CropsFit
  <2>7. OrphansComeFromFailures' /\ BestIsNearest'
    BY <2>2, <2>4 DEF IInv, OrphansComeFromFailures, BestIsNearest
  <2>8. WorkFits'
    BY <2>2, <2>4 DEF IInv, WorkFits
  <2> QED
    BY <2>5, <2>6, <2>7, <2>8 DEF IInv
<1>4. CASE MatchFace
  <2>1. /\ task = "running" /\ work.query = NULL /\ work.left > 0
        /\ work' = [work EXCEPT !.query = work'.query]
        /\ work'.query \in Query
        /\ work'.query.outcome \in OutcomesFor(roster)
        /\ BestIsNearest'
        /\ UNCHANGED <<session, images, evidence, records, files, task, saved, roster>>
    BY <1>4, QueryFits
  <2>2. work'.left = work.left /\ work'.outcomes = work.outcomes /\ work'.image = work.image
    BY <2>1 DEF IInv, Shapes
  <2>3. Shapes'
    <3>1. PICK query \in Query : work' = [work EXCEPT !.query = query]
      BY <2>1
    <3>2. work' \in [image : Nat, left : Nat, query : Query \cup {NULL}, outcomes : Seq(Outcome)]
      BY <3>1 DEF IInv, Shapes
    <3> QED
      BY <2>1, <3>2 DEF IInv, Shapes
  <2>4. StagesFit' /\ PhotosFit' /\ CropsFit'
    BY <2>1, <2>2 DEF IInv, StagesFit, PhotosFit, CropsFit
  <2>5. OrphansComeFromFailures' /\ WorkFits'
    BY <2>1, <2>2 DEF IInv, OrphansComeFromFailures, WorkFits
  <2> QED
    BY <2>1, <2>3, <2>4, <2>5 DEF IInv
<1>5. CASE SaveCrop
  <2> DEFINE n == Len(work.outcomes)
  <2>0. /\ task = "running" /\ work.query # NULL
        /\ files' = [files EXCEPT ![CropKey(n + 1)] = "whole"]
        /\ work' = [work EXCEPT !.left = @ - 1, !.query = NULL,
                                !.outcomes = Append(@, work.query.outcome)]
        /\ UNCHANGED <<session, images, evidence, records, task, saved, roster>>
    BY <1>5 DEF SaveCrop
  <2>1. /\ work.outcomes \in Seq(OutcomesFor(roster)) /\ work.left > 0
        /\ work.query.outcome \in OutcomesFor(roster) /\ n + work.left <= MaxFaces
        /\ roster \subseteq Student /\ work.left \in Nat /\ n \in Nat
    BY <2>0 DEF IInv, Shapes, WorkFits
  <2>2. /\ work'.left = work.left - 1 /\ work'.query = NULL /\ work'.image = work.image
        /\ work'.outcomes = Append(work.outcomes, work.query.outcome)
    BY <2>0 DEF IInv, Shapes
  <2>3. /\ work'.outcomes \in Seq(OutcomesFor(roster)) /\ Len(work'.outcomes) = n + 1
        /\ work'.left \in Nat /\ n + 1 + work'.left <= MaxFaces
    BY <2>1, <2>2, PipelineConstants DEF PipelineAssumption
  <2>4. OutcomesFor(roster) \subseteq Outcome
    BY <2>1, ClassifyType
  <2>5. n + 1 \in Face
    BY <2>1, PipelineConstants DEF PipelineAssumption, Face
  <2>6. /\ files'[CropKey(n + 1)] = "whole" /\ files' \in [StorageKey -> Content]
        /\ \A f \in Face \ {n + 1} : files'[CropKey(f)] = files[CropKey(f)]
        /\ \A i : files'[ImageKey(i)] = files[ImageKey(i)]
    BY <2>0, <2>5, KeysDiffer DEF IInv, Shapes, Content
  <2>7. Shapes'
    <3>1. work'.outcomes \in Seq(Outcome)
      BY <2>3, <2>4
    <3>2. work' \in [image : Nat, left : Nat, query : Query \cup {NULL}, outcomes : Seq(Outcome)]
      BY <2>0, <2>2, <2>3, <3>1 DEF IInv, Shapes
    <3> QED
      BY <2>0, <2>6, <3>2 DEF IInv, Shapes
  <2>8. StagesFit' /\ PhotosFit'
    BY <2>0, <2>6 DEF IInv, StagesFit, PhotosFit
  <2>9. CropsFit'
    <3>1. DOMAIN evidence = {}
      BY <2>0, NoRowsIsEmpty DEF IInv, StagesFit
    <3>2. \A f \in Face : files'[CropKey(f)] = IF f <= n + 1 THEN "whole" ELSE "none"
      <4> SUFFICES ASSUME NEW f \in Face
                   PROVE  files'[CropKey(f)] = IF f <= n + 1 THEN "whole" ELSE "none"
        OBVIOUS
      <4>1. f \in Nat
        BY PipelineConstants DEF PipelineAssumption, Face
      <4>2. files[CropKey(f)] = IF f <= n THEN "whole" ELSE "none"
        BY <2>0 DEF IInv, CropsFit
      <4> QED
        BY <2>1, <2>6, <4>1, <4>2
    <3> QED
      BY <2>0, <2>3, <3>1, <3>2 DEF CropsFit
  <2>10. OrphansComeFromFailures' /\ BestIsNearest'
    BY <2>0, <2>2 DEF IInv, OrphansComeFromFailures, BestIsNearest
  <2>11. WorkFits'
    BY <2>0, <2>2, <2>3 DEF WorkFits
  <2> QED
    BY <2>7, <2>8, <2>9, <2>10, <2>11 DEF IInv
<1>6. CASE TaskRaises
  BY <1>6, StageKeeps DEF TaskRaises, Stop, TaskStages
<1>7. CASE TaskMarksFailed
  <2>0. /\ task = "failing" /\ task' = "done"
        /\ session' = [session EXCEPT !.status = "failed"] /\ session'.status = "failed"
        /\ UNCHANGED <<images, evidence, records, files, saved, roster, work>>
    BY <1>7 DEF TaskMarksFailed, IInv, Shapes
  <2>1. Shapes'
    BY <2>0 DEF IInv, Shapes, TaskStages
  <2>2. StagesFit' /\ PhotosFit' /\ CropsFit'
    BY <2>0 DEF IInv, StagesFit, PhotosFit, CropsFit
  <2>3. OrphansComeFromFailures' /\ BestIsNearest' /\ WorkFits'
    BY <2>0 DEF IInv, OrphansComeFromFailures, BestIsNearest, WorkFits
  <2> QED
    BY <2>1, <2>2, <2>3 DEF IInv
<1> QED
  BY <1>1, <1>2, <1>3, <1>4, <1>5, <1>6, <1>7

LEMMA PublishKeeps ==
  ASSUME IInv, TaskCommit \/ TaskUnacked
  PROVE  IInv'
<1>1. /\ Complete /\ Publish /\ task' \in {"done", "failing"} /\ roster' = {} /\ work' = Idle
      /\ files' = files /\ saved' = saved
  BY DEF TaskCommit, TaskUnacked, Stop, Goto
<1>2. /\ task = "running" /\ session.status = "processing"
      /\ session' = [session EXCEPT !.status = "pending_review"]
      /\ session'.status = "pending_review" /\ images' = images
      /\ DOMAIN evidence' = 1 .. Len(work.outcomes)
      /\ Len(work.outcomes) \in 0 .. MaxFaces
  BY <1>1, Published
<1>3. Shapes'
  BY <1>1, <1>2 DEF IInv, Shapes, Idle, TaskStages
<1>4. StagesFit' /\ PhotosFit'
  BY <1>1, <1>2 DEF IInv, StagesFit, PhotosFit
<1>5. \A f \in Face : files[CropKey(f)] = IF f <= Len(work.outcomes) THEN "whole" ELSE "none"
  BY <1>2 DEF IInv, CropsFit
<1>6. CropsFit'
  <2>1. \A f \in DOMAIN evidence' : f \in Face /\ f <= Len(work.outcomes)
    BY <1>2, PipelineConstants DEF PipelineAssumption, Face
  <2> QED
    BY <1>1, <1>5, <2>1 DEF CropsFit
<1>7. OrphansComeFromFailures'
  <2>1. \A f \in Face : f <= Len(work.outcomes) => f \in DOMAIN evidence'
    BY <1>2, PipelineConstants DEF PipelineAssumption, Face
  <2> QED
    BY <1>1, <1>5, <2>1 DEF OrphansComeFromFailures
<1>8. WorkFits' /\ BestIsNearest'
  BY <1>1 DEF WorkFits, BestIsNearest, Idle
<1> QED
  BY <1>3, <1>4, <1>6, <1>7, <1>8 DEF IInv

LEMMA FaultKeeps ==
  ASSUME IInv, RefreshFails \/ TaskLoadFails \/ CropRaises \/ TaskMarkFails \/ Crash
  PROVE  IInv'
<1> USE DEF Goto, rowVars, TaskStages
<1>1. CASE RefreshFails
  BY <1>1, StageKeeps DEF RefreshFails, IInv, Shapes
<1>2. CASE TaskLoadFails
  BY <1>2, StageKeeps DEF TaskLoadFails, IInv, Shapes
<1>3. CASE CropRaises
  <2> DEFINE n == Len(work.outcomes)
  <2>0. /\ task = "running" /\ work.query # NULL /\ task' = "failing"
        /\ roster' = {} /\ work' = Idle
        /\ files' = [files EXCEPT ![CropKey(n + 1)] = "partial"]
        /\ UNCHANGED <<session, images, evidence, records, saved>>
    BY <1>3 DEF CropRaises, Stop
  <2>1. \A i : files'[ImageKey(i)] = files[ImageKey(i)]
    BY <2>0, KeysDiffer DEF IInv, Shapes
  <2>2. files' \in [StorageKey -> Content]
    BY <2>0 DEF IInv, Shapes, Content
  <2>3. Shapes'
    BY <2>0, <2>2 DEF IInv, Shapes, Idle
  <2>4. StagesFit' /\ PhotosFit'
    BY <2>0, <2>1 DEF IInv, StagesFit, PhotosFit
  <2>5. CropsFit' /\ OrphansComeFromFailures'
    BY <2>0, NoRowsIsEmpty DEF IInv, StagesFit, CropsFit, OrphansComeFromFailures
  <2>6. WorkFits' /\ BestIsNearest'
    BY <2>0 DEF WorkFits, BestIsNearest, Idle
  <2> QED
    BY <2>3, <2>4, <2>5, <2>6 DEF IInv
<1>4. CASE TaskMarkFails
  BY <1>4, StageKeeps DEF TaskMarkFails, IInv, Shapes
<1>5. CASE Crash
  BY <1>5, StageKeeps DEF Crash, Stop
<1> QED
  BY <1>1, <1>2, <1>3, <1>4, <1>5

LEMMA StepKeeps == IInv /\ [Next]_vars => IInv'
<1> SUFFICES ASSUME IInv, [Next]_vars PROVE IInv'
  OBVIOUS
<1>1. CASE UNCHANGED vars
  BY <1>1 DEF vars, IInv, Shapes, StagesFit, PhotosFit, CropsFit, WorkFits,
     OrphansComeFromFailures, BestIsNearest
<1> QED
  BY <1>1, UploadKeeps, TaskKeeps, PublishKeeps, FaultKeeps
  DEF Next, UploadStep, TaskStep, Fault

\* The inductive invariant: rows, files and work fit the stage of the session.
THEOREM PipelineInvariance == Spec => []IInv
  BY InitIsFine, StepKeeps, PTL DEF Spec

\* Rows point to files that are there: the photos of a session and the crops of
\* its detections are stored whole whatever fails, but for an upload whose
\* commit was not acknowledged.
THEOREM FilesBackRowsHolds == Spec => []FilesBackRows
<1>1. IInv => FilesBackRows
  BY DEF IInv, Shapes, StagesFit, PhotosFit, CropsFit, FilesBackRows
<1> QED
  BY <1>1, PipelineInvariance, PTL

\* A refused upload leaves no whole file ("don't leave orphaned files"), and a
\* crop without a detection means that the task failed or died.
THEOREM OrphansComeFromFailuresHolds == Spec => []OrphansComeFromFailures
<1>1. IInv => OrphansComeFromFailures
  BY DEF IInv
<1> QED
  BY <1>1, PipelineInvariance, PTL

\* The candidate a face is classified by is the nearest photo that the scan
\* found, for every limit of at least one row and any number of photos.
THEOREM BestIsNearestHolds == Spec => []BestIsNearest
<1>1. IInv => BestIsNearest
  BY DEF IInv
<1> QED
  BY <1>1, PipelineInvariance, PTL

-----------------------------------------------------------------------------
(* The steps are those of AttendanceReview.                                *)

\* The session in AttendanceReview, while it is not running a task.
LEMMA StutterIsUnseen ==
  ASSUME UNCHANGED rowVars, ReviewTask' = ReviewTask,
         task = "running" <=> task' = "running",
         task = "running" => roster' = roster
  PROVE  UNCHANGED Review!vars
  BY DEF rowVars, Review!vars, Review!dbVars, Review!taskVars, Review!reqVars

LEMMA InitIsReviews == Init => Review!Init
  BY DEF Init, Review!Init, ReviewTask, Review!NoRow

LEMMA UploadIsReviews ==
  ASSUME IInv, UploadStep \/ SaveRaises \/ CommitUnacked \/ CleanUpStops
  PROVE  Review!Next \/ UNCHANGED Review!vars
<1> USE DEF Goto
<1>1. CASE SavePhoto \/ SaveRaises \/ CommitRaises
  <2>1. /\ session.status = "none" /\ task # "running" /\ task' # "running"
        /\ UNCHANGED rowVars
    BY <1>1 DEF SavePhoto, SaveRaises, CommitRaises, IInv, StagesFit
  <2>2. ReviewTask = "none" /\ ReviewTask' = "none"
    <3>1. session.status = "none" /\ session'.status = "none"
      BY <2>1 DEF rowVars
    <3> QED
      BY <3>1 DEF ReviewTask
  <2> QED
    BY <2>1, <2>2, StutterIsUnseen
<1>2. CASE CommitUpload \/ CommitUnacked
  <2>1. /\ session.status = "none" /\ task = "saving" /\ task' \in {"created", "cleanup"}
        /\ session' = [session EXCEPT !.status = "processing"]
        /\ session'.status = "processing"
        /\ UNCHANGED <<evidence, records>>
    BY <1>2 DEF CommitUpload, CommitUnacked, Insert, IInv, Shapes, StagesFit
  <2>2. ReviewTask = "none" /\ ReviewTask' = "created"
    BY <2>1 DEF ReviewTask
  <2>3. Review!CreateSession(Self)
    BY <2>1, <2>2 DEF Review!CreateSession, Review!reqVars
  <2> QED
    BY <2>3 DEF Review!Next
<1>3. CASE CleanUp \/ CleanUpStops
  <2>1. /\ session.status \in {"none", "processing"} /\ task = "cleanup"
        /\ task' \in {"refused", "unclean"} /\ UNCHANGED rowVars
    BY <1>3 DEF CleanUp, CleanUpStops, IInv, StagesFit
  <2>2. CASE session.status = "none"
    <3>1. ReviewTask = "none" /\ ReviewTask' = "none"
      <4>1. session.status = "none" /\ session'.status = "none"
        BY <2>1, <2>2 DEF rowVars
      <4> QED
        BY <4>1 DEF ReviewTask
    <3> QED
      BY <2>1, <3>1, StutterIsUnseen
  <2>3. CASE session.status = "processing"
    <3>1. ReviewTask = "created" /\ ReviewTask' = "lost"
      BY <2>1, <2>3 DEF ReviewTask, rowVars
    <3>2. Review!RefreshFails(Self)
      BY <2>1, <3>1 DEF Review!RefreshFails, Review!dbVars, Review!reqVars, rowVars
    <3> QED
      BY <3>2 DEF Review!Next, Review!TaskFault
  <2> QED
    BY <2>1, <2>2, <2>3
<1> QED
  BY <1>1, <1>2, <1>3 DEF UploadStep

LEMMA StageIsReviews ==
  ASSUME IInv,
         \/ Enqueue \/ TaskStart \/ RefreshFails \/ TaskLoadFails
         \/ TaskRaises \/ CropRaises
  PROVE  Review!Next
<1> USE DEF Goto, rowVars, Review!dbVars, Review!reqVars
<1>1. session.status = "processing" /\ UNCHANGED rowVars
  BY DEF Enqueue, TaskStart, RefreshFails, TaskLoadFails, TaskRaises, CropRaises,
     IInv, StagesFit
<1>2. CASE Enqueue
  <2>1. task = "created" /\ task' = "queued" /\ ReviewTask = "created" /\ ReviewTask' = "queued"
    BY <1>1, <1>2 DEF Enqueue, ReviewTask
  <2>2. Review!Enqueue(Self)
    BY <1>1, <2>1 DEF Review!Enqueue
  <2> QED
    BY <2>2 DEF Review!Next, Review!TaskStep
<1>3. CASE TaskStart
  <2>1. task = "queued" /\ task' = "running" /\ ReviewTask = "queued" /\ ReviewTask' = "running"
    BY <1>1, <1>3 DEF TaskStart, ReviewTask
  <2>2. roster' \in SUBSET Student
    BY <1>3 DEF TaskStart
  <2>3. Review!TaskStart(Self)
    BY <1>1, <2>1, <2>2 DEF Review!TaskStart
  <2> QED
    BY <2>3 DEF Review!Next, Review!TaskStep
<1>4. CASE RefreshFails
  <2>1. task = "created" /\ task' = "lost" /\ ReviewTask = "created" /\ ReviewTask' = "lost"
    BY <1>1, <1>4 DEF RefreshFails, ReviewTask
  <2>2. Review!RefreshFails(Self)
    BY <1>1, <2>1 DEF Review!RefreshFails
  <2> QED
    BY <2>2 DEF Review!Next, Review!TaskFault
<1>5. CASE TaskLoadFails
  <2>1. task = "queued" /\ task' = "lost" /\ ReviewTask = "queued" /\ ReviewTask' = "lost"
    BY <1>1, <1>5 DEF TaskLoadFails, ReviewTask
  <2>2. Review!TaskLoadFails(Self)
    BY <1>1, <2>1 DEF Review!TaskLoadFails
  <2> QED
    BY <2>2 DEF Review!Next, Review!TaskFault
<1>6. CASE TaskRaises \/ CropRaises
  <2>1. task = "running" /\ task' = "failing" /\ ReviewTask = "running" /\ ReviewTask' = "failing"
    BY <1>1, <1>6 DEF TaskRaises, CropRaises, Stop, ReviewTask
  <2>2. Review!TaskRaises(Self)
    BY <1>1, <2>1 DEF Review!TaskRaises
  <2> QED
    BY <2>2 DEF Review!Next, Review!TaskStep
<1> QED
  BY <1>2, <1>3, <1>4, <1>5, <1>6

\* Both modules classify and dedupe alike.
LEMMA OutcomesAreReviews ==
  /\ \A R : Review!OutcomesFor(R) = OutcomesFor(R)
  /\ \A outcomes : Review!Dedupe(outcomes) = Dedupe(outcomes)
<1>1. \A good, best : Review!Classify(good, best) = Classify(good, best)
  BY DEF Review!Classify, Classify, Review!NoMatch, NoMatch
<1>2. \A R : Review!BestCandidates(R) = BestCandidates(R)
  BY DEF Review!BestCandidates, BestCandidates
<1>3. \A outcomes, i : Review!Beaten(outcomes, i) = Beaten(outcomes, i)
  BY DEF Review!Beaten, Beaten
<1> QED
  BY <1>1, <1>2, <1>3 DEF Review!OutcomesFor, OutcomesFor, Review!Dedupe, Dedupe

\* The commit writes what the outcomes of AttendanceReview would.
LEMMA CommitIsReviews ==
  ASSUME IInv, TaskCommit \/ TaskUnacked
  PROVE  Review!Next
<1> DEFINE n == Len(work.outcomes)
<1> DEFINE rows == [f \in 1 .. n |-> Review!DetectionOf(Dedupe(work.outcomes)[f])]
<1>1. /\ Complete /\ Publish /\ task' \in {"done", "failing"} /\ roster' = {}
  BY DEF TaskCommit, TaskUnacked, Stop, Goto
<1>2. /\ task = "running" /\ session.status = "processing"
      /\ session' = [session EXCEPT !.status = "pending_review"]
      /\ session'.status = "pending_review"
      /\ n \in 0 .. MaxFaces
  BY <1>1, Published
<1>3. work.outcomes \in [1 .. n -> OutcomesFor(roster)]
  BY <1>2 DEF IInv, WorkFits
<1>4. DOMAIN work.outcomes = 1 .. n
  BY <1>3
<1>5. evidence' = rows /\ records' = [st \in roster |-> Review!Draft(Self, rows, st)]
  BY <1>1, <1>4 DEF Publish
<1>6. ReviewTask = "running" /\ ReviewTask' = "done"
  BY <1>2 DEF ReviewTask
<1>7. \E m \in 0 .. MaxFaces :
      \E outcomes \in [1 .. m -> Review!OutcomesFor(roster)] :
          LET rs == [f \in 1 .. m |-> Review!DetectionOf(Review!Dedupe(outcomes)[f])]
          IN  evidence' = rs /\ records' = [st \in roster |-> Review!Draft(Self, rs, st)]
  <2> HIDE DEF n
  <2> QED
    BY <1>2, <1>3, <1>5, OutcomesAreReviews
<1> HIDE DEF rows, n
<1>8. Review!TaskCommit(Self)
  <2>0. PICK m \in 0 .. MaxFaces :
          \E outcomes \in [1 .. m -> Review!OutcomesFor(roster)] :
             LET rs == [f \in 1 .. m |-> Review!DetectionOf(Review!Dedupe(outcomes)[f])]
             IN  evidence' = rs /\ records' = [st \in roster |-> Review!Draft(Self, rs, st)]
    BY <1>7
  <2>1. PICK outcomes \in [1 .. m -> Review!OutcomesFor(roster)] :
          LET rs == [f \in 1 .. m |-> Review!DetectionOf(Review!Dedupe(outcomes)[f])]
          IN  evidence' = rs /\ records' = [st \in roster |-> Review!Draft(Self, rs, st)]
    BY <2>0
  <2> DEFINE rs == [f \in 1 .. m |-> Review!DetectionOf(Review!Dedupe(outcomes)[f])]
  <2>2. evidence' = rs /\ records' = [st \in roster |-> Review!Draft(Self, rs, st)]
    BY <2>1
  <2>3. [s \in {Self} |-> IF task = "running" THEN roster ELSE {}][Self] = roster
    BY <1>2
  <2> QED
    BY <1>1, <1>2, <1>6, <2>2, <2>3 DEF Review!TaskCommit, Review!reqVars
<1> QED
  BY <1>8 DEF Review!Next, Review!TaskStep

LEMMA HandlerIsReviews ==
  ASSUME IInv, TaskMarksFailed \/ TaskMarkFails
  PROVE  Review!Next \/ UNCHANGED Review!vars \/ MarkedAfterLostAck
<1> USE DEF Goto, rowVars
<1>1. task = "failing" /\ session.status \in {"processing", "pending_review"}
  BY DEF TaskMarksFailed, TaskMarkFails, IInv, StagesFit
<1>2. CASE TaskMarksFailed
  <2>1. /\ task' = "done" /\ session' = [session EXCEPT !.status = "failed"]
        /\ session'.status = "failed" /\ UNCHANGED <<evidence, records, roster>>
    BY <1>2 DEF TaskMarksFailed, IInv, Shapes
  <2>2. CASE session.status = "processing"
    <3>1. ReviewTask = "failing" /\ ReviewTask' = "done"
      BY <1>1, <2>1, <2>2 DEF ReviewTask
    <3>2. Review!TaskMarksFailed(Self)
      BY <1>1, <2>1, <3>1 DEF Review!TaskMarksFailed, Review!reqVars
    <3> QED
      BY <3>2 DEF Review!Next, Review!TaskStep
  <2> QED
    BY <1>1, <2>1, <2>2 DEF MarkedAfterLostAck
<1>3. CASE TaskMarkFails
  <2>1. task' = "lost" /\ "mark" \in Faults /\ UNCHANGED rowVars
    BY <1>3 DEF TaskMarkFails
  <2>2. CASE session.status = "processing"
    <3>1. ReviewTask = "failing" /\ ReviewTask' = "lost"
      BY <1>1, <2>1, <2>2 DEF ReviewTask
    <3>2. Review!TaskMarkFails(Self)
      BY <1>1, <2>1, <3>1 DEF Review!TaskMarkFails, Review!dbVars, Review!reqVars
    <3> QED
      BY <3>2 DEF Review!Next, Review!TaskFault
  <2>3. CASE session.status = "pending_review"
    <3>1. ReviewTask = "done" /\ ReviewTask' = "done"
      BY <2>1, <2>3 DEF ReviewTask
    <3> QED
      BY <1>1, <2>1, <3>1, StutterIsUnseen
  <2> QED
    BY <1>1, <2>2, <2>3
<1> QED
  BY <1>2, <1>3

LEMMA CrashIsReviews ==
  ASSUME IInv, Crash
  PROVE  Review!Next \/ UNCHANGED Review!vars
<1>1. /\ task \notin {"none", "refused", "unclean", "done", "lost"} /\ task' = "lost"
      /\ roster' = {} /\ UNCHANGED rowVars
  BY DEF Crash, Stop, Goto
<1>2. ReviewTask' = IF ReviewTask \in {"none", "done"} THEN ReviewTask ELSE "lost"
  <2>1. session' = session
    BY <1>1 DEF rowVars
  <2> QED
    BY <1>1, <2>1 DEF ReviewTask, IInv, StagesFit, Shapes, UploadStages, TaskStages
<1>3. Review!Crash
  <2>1. /\ [s \in {Self} |-> ReviewTask'] =
               [s \in {Self} |-> IF [t \in {Self} |-> ReviewTask][s] \in {"none", "done"}
                                 THEN [t \in {Self} |-> ReviewTask][s] ELSE "lost"]
        /\ [s \in {Self} |-> IF task' = "running" THEN roster' ELSE {}] = [s \in {Self} |-> {}]
    BY <1>1, <1>2
  <2> QED
    BY <1>1, <2>1 DEF Review!Crash, Review!dbVars, rowVars
<1> QED
  BY <1>3 DEF Review!Next

\* The detailed steps implement those of AttendanceReview, step by step, except
\* for a commit of outcomes that is not acknowledged, which ends with a
\* published session marked failed (process_session and create_session).
THEOREM PipelineImplementsReview == Spec => KeepsReview
<1>1. ASSUME IInv, Next
      PROVE  Review!Next \/ UNCHANGED Review!vars \/ MarkedAfterLostAck
  <2>1. CASE Detect \/ MatchFace \/ SaveCrop
    <3>1. UNCHANGED <<session, images, evidence, records, task, roster>>
      BY <2>1 DEF Detect, MatchFace, SaveCrop, rowVars
    <3> QED
      BY <3>1, StutterIsUnseen DEF ReviewTask, rowVars
  <2> QED
    BY <1>1, <2>1, UploadIsReviews, StageIsReviews, CommitIsReviews, HandlerIsReviews,
       CrashIsReviews
    DEF Next, UploadStep, TaskStep, Fault
<1>2. IInv /\ [Next]_vars => [Review!Next \/ UNCHANGED Review!vars \/ MarkedAfterLostAck]_vars
  BY <1>1
<1> QED
  BY <1>2, InitIsReviews, PipelineInvariance, PTL DEF Spec, KeepsReview

-----------------------------------------------------------------------------
(* The register is a draft, written once.                                  *)

\* What Publish drafts from the outcomes is what the evidence calls for.
LEMMA DraftIsDraft ==
  ASSUME NEW n \in Nat, NEW R \in SUBSET Student,
         NEW outcomes \in [1 .. n -> OutcomesFor(R)], NEW st \in R
  PROVE  LET rows == [f \in 1 .. n |-> Review!DetectionOf(Dedupe(outcomes)[f])]
         IN  /\ Review!Draft(Self, rows, st).source = "ai"
             /\ Review!IsDraft(Self, rows, st, Review!Draft(Self, rows, st))
<1> DEFINE rows == [f \in 1 .. n |-> Review!DetectionOf(Dedupe(outcomes)[f])]
<1> SUFFICES /\ Review!Draft(Self, rows, st).source = "ai"
             /\ Review!IsDraft(Self, rows, st, Review!Draft(Self, rows, st))
  OBVIOUS
<1>1. \A f \in 1 .. n :
         /\ rows[f].matched_student_id = outcomes[f].student_id
         /\ rows[f].confidence = outcomes[f].confidence
         /\ rows[f].match_status = "matched" <=>
              outcomes[f].status = "matched" /\ ~Beaten(outcomes, f)
  BY DedupeType DEF Review!DetectionOf
<1>2. DOMAIN rows = 1 .. n /\ st # NULL
  BY MatcherAssumption
<1> HIDE DEF rows
<1>3. CASE \E f \in DOMAIN rows : Review!Matches(rows, f, st)
  <2> DEFINE f == CHOOSE f \in DOMAIN rows : Review!Matches(rows, f, st)
  <2>1. f \in 1 .. n /\ Review!Matches(rows, f, st)
    BY <1>2, <1>3
  <2>2. Review!Draft(Self, rows, st) =
          [status |-> "present", source |-> "ai", confidence |-> rows[f].confidence,
           detection_id |-> [session |-> Self, face |-> f], marked_by |-> NULL]
    BY <1>3 DEF Review!Draft
  <2> HIDE DEF f
  <2>3. ASSUME NEW g \in 1 .. n, rows[g].matched_student_id = st
        PROVE  rows[g].confidence <= rows[f].confidence
    <3>1. outcomes[g].student_id = st /\ outcomes[f].student_id = st
      BY <1>1, <2>1, <2>3 DEF Review!Matches
    <3>2. outcomes[g] \in OutcomesFor(R) /\ outcomes[f] \in OutcomesFor(R)
      BY <2>1
    <3>3. /\ outcomes[g].status = "matched"
          /\ outcomes[g].confidence \in Nat /\ outcomes[f].confidence \in Nat
      BY <1>2, <3>1, <3>2, ClassifyType, MatcherAssumption
    <3>4. ~(outcomes[g].confidence > outcomes[f].confidence)
      BY <1>1, <2>1, <3>1, <3>3 DEF Review!Matches, Beaten
    <3> QED
      BY <1>1, <2>1, <3>3, <3>4
  <2> QED
    BY <1>2, <2>1, <2>2, <2>3 DEF Review!IsDraft
<1>4. CASE ~\E f \in DOMAIN rows : Review!Matches(rows, f, st)
  <2>1. Review!Draft(Self, rows, st) =
          [status |-> "absent", source |-> "ai", confidence |-> NULL,
           detection_id |-> NULL, marked_by |-> NULL]
    BY <1>4 DEF Review!Draft
  <2>2. ASSUME NEW f \in 1 .. n, rows[f].matched_student_id = st PROVE FALSE
    <3>1. outcomes[f].student_id = st /\ st \in Student
      BY <1>1, <2>2
    <3>2. \E g \in 1 .. n : /\ outcomes[g].status = "matched"
                            /\ outcomes[g].student_id = st
                            /\ ~Beaten(outcomes, g)
      BY <3>1, UnbeatenExists
    <3> QED
      BY <1>1, <1>2, <1>4, <3>2 DEF Review!Matches
  <2> QED
    BY <1>2, <2>1, <2>2 DEF Review!IsDraft
<1> QED
  BY <1>3, <1>4

\* Every verdict of the register is the draft that the evidence calls for, also
\* when a lost acknowledgement has the handler mark the session failed: what the
\* steps of one session leave is what AiVerdictIsDraft promises of every session.
RegisterIsDraft ==
    \A st \in DOMAIN records :
        /\ records[st].source = "ai"
        /\ Review!IsDraft(Self, evidence, st, records[st])

\* The rows are written together, in one step, when every photo has been read
\* and every face has its outcome, on a session that had none; one verdict for
\* each student of the roster the task had read.
RegisterIsWrittenOnce ==
    [][evidence' # evidence \/ records' # records =>
          /\ evidence = Review!NoRows /\ records = Review!NoRows
          /\ session.status = "processing" /\ session'.status = "pending_review"
          /\ work.image = images /\ DOMAIN evidence' = DOMAIN work.outcomes
          /\ DOMAIN records' = roster]_vars

\* Publish writes the drafts.
LEMMA PublishDrafts ==
  ASSUME IInv, Complete, Publish
  PROVE  RegisterIsDraft' /\ DOMAIN evidence' = DOMAIN work.outcomes
         /\ DOMAIN records' = roster
<1> DEFINE n == Len(work.outcomes)
<1>1. task = "running" /\ n \in Nat /\ roster \in SUBSET Student
  BY Published DEF IInv, Shapes
<1>2. work.outcomes \in [1 .. n -> OutcomesFor(roster)] /\ DOMAIN work.outcomes = 1 .. n
  BY <1>1 DEF IInv, WorkFits
<1>3. /\ evidence' = [f \in 1 .. n |-> Review!DetectionOf(Dedupe(work.outcomes)[f])]
      /\ records' = [st \in roster |-> Review!Draft(Self, evidence', st)]
  BY <1>2 DEF Publish
<1> HIDE DEF n
<1>4. \A st \in roster :
         /\ Review!Draft(Self, evidence', st).source = "ai"
         /\ Review!IsDraft(Self, evidence', st, Review!Draft(Self, evidence', st))
  BY <1>1, <1>2, <1>3, DraftIsDraft
<1>5. \A st \in roster : records'[st] = Review!Draft(Self, evidence', st)
  BY <1>3
<1>6. DOMAIN records' = roster
  BY <1>3
<1>7. RegisterIsDraft'
  BY <1>4, <1>5, <1>6 DEF RegisterIsDraft
<1> QED
  BY <1>2, <1>3, <1>6, <1>7

\* No other step writes rows.
LEMMA OnlyPublishWrites ==
  ASSUME [Next]_vars
  PROVE  UNCHANGED <<evidence, records>> \/ (Complete /\ Publish)
  BY DEF Next, UploadStep, TaskStep, Fault, vars, rowVars, SavePhoto, SaveRaises, Insert,
     CommitUpload, CommitRaises, CommitUnacked, CleanUp, CleanUpStops, RefreshFails,
     Enqueue, TaskLoadFails, TaskStart, Detect, MatchFace, SaveCrop, TaskCommit, TaskRaises, CropRaises,
     TaskUnacked, TaskMarksFailed, TaskMarkFails, Crash

\* Every verdict the pipeline leaves is the draft that its evidence calls for.
THEOREM RegisterIsDraftHolds == Spec => []RegisterIsDraft
<1>1. Init => RegisterIsDraft
  BY NoRowsIsEmpty DEF Init, RegisterIsDraft
<1>2. IInv /\ RegisterIsDraft /\ [Next]_vars => RegisterIsDraft'
  <2> SUFFICES ASSUME IInv, RegisterIsDraft, [Next]_vars PROVE RegisterIsDraft'
    OBVIOUS
  <2>1. CASE UNCHANGED <<evidence, records>>
    <3>1. DOMAIN records' = DOMAIN records /\ evidence' = evidence /\ records' = records
      BY <2>1
    <3> QED
      BY <3>1 DEF RegisterIsDraft
  <2> QED
    BY <2>1, OnlyPublishWrites, PublishDrafts
<1> QED
  BY <1>1, <1>2, PipelineInvariance, PTL DEF Spec

\* Evidence and verdicts are written together and once.
THEOREM RegisterIsWrittenOnceHolds == Spec => RegisterIsWrittenOnce
<1>1. IInv /\ [Next]_vars =>
        [evidence' # evidence \/ records' # records =>
            /\ evidence = Review!NoRows /\ records = Review!NoRows
            /\ session.status = "processing" /\ session'.status = "pending_review"
            /\ work.image = images /\ DOMAIN evidence' = DOMAIN work.outcomes
            /\ DOMAIN records' = roster]_vars
  <2> SUFFICES ASSUME IInv, Complete, Publish
               PROVE  /\ evidence = Review!NoRows /\ records = Review!NoRows
                      /\ session.status = "processing" /\ session'.status = "pending_review"
                      /\ work.image = images /\ DOMAIN evidence' = DOMAIN work.outcomes
                      /\ DOMAIN records' = roster
    BY OnlyPublishWrites
  <2> QED
    BY Published, PublishDrafts DEF Complete, IInv, StagesFit
<1> QED
  BY <1>1, PipelineInvariance, PTL DEF Spec, RegisterIsWrittenOnce

-----------------------------------------------------------------------------
(* The safety behind TaskEnds.                                             *)

OnItsWay == task \in {"created", "queued", "running", "failing"}

\* The stages and, of the photo under way, the steps that are left.
StagesLeft == CASE task = "created" -> 4 [] task = "queued" -> 3
                [] task = "running" -> 2 [] task = "failing" -> 1
                [] ~OnItsWay -> 0

FaceSteps == 2 * work.left - (IF work.query = NULL THEN 0 ELSE 1)

\* A step ends a stage, or takes the next of finitely many photos, or one of the
\* finitely many steps that its faces need.
Closer ==
    \/ StagesLeft' < StagesLeft
    \/ /\ task = "running" /\ task' = "running" /\ images' = images
       /\ \/ work'.image = work.image + 1 /\ work'.image <= images
          \/ work'.image = work.image /\ FaceSteps' < FaceSteps
       /\ FaceSteps' \in Nat

LEMMA ComesCloser ==
  ASSUME IInv, Next, OnItsWay
  PROVE  Closer
<1> USE DEF Goto, Stop, OnItsWay, StagesLeft
<1>1. CASE UploadStep \/ SaveRaises \/ CommitUnacked \/ CleanUpStops
  BY <1>1 DEF UploadStep, SavePhoto, SaveRaises, CommitUpload, CommitRaises,
     CommitUnacked, CleanUp, CleanUpStops
<1>2. CASE Enqueue \/ TaskStart \/ TaskRaises \/ TaskCommit \/ TaskMarksFailed
  BY <1>2 DEF Enqueue, TaskStart, TaskRaises, TaskCommit, Complete, Working,
     TaskMarksFailed, Closer
<1>3. CASE RefreshFails \/ TaskLoadFails \/ CropRaises \/ TaskUnacked \/ TaskMarkFails
  BY <1>3 DEF RefreshFails, TaskLoadFails, CropRaises, TaskUnacked, Complete, Working,
     TaskMarkFails, Closer
<1>4. CASE Crash
  BY <1>4 DEF Crash, Closer
<1>5. CASE Detect
  <2>1. PICK n \in 0 .. MaxFaces - Len(work.outcomes) :
            work' = [work EXCEPT !.image = @ + 1, !.left = n]
    BY <1>5 DEF Detect
  <2>2. /\ task = "running" /\ task' = "running" /\ images' = images
        /\ work.query = NULL /\ work.image < images
    BY <1>5 DEF Detect, Working, rowVars
  <2>3. /\ work.image \in Nat /\ images \in Nat /\ n \in Nat
        /\ work'.image = work.image + 1 /\ work'.left = n /\ work'.query = NULL
    BY <2>1, <2>2, PipelineConstants DEF PipelineAssumption, IInv, Shapes
  <2> QED
    BY <2>2, <2>3 DEF Closer, FaceSteps
<1>6. CASE MatchFace
  <2>1. /\ task = "running" /\ task' = "running" /\ images' = images
        /\ work.query = NULL /\ work.left > 0 /\ work.left \in Nat
        /\ work' = [work EXCEPT !.query = work'.query] /\ work'.query \in Query
    BY <1>6, QueryFits DEF IInv, Shapes
  <2>2. work'.image = work.image /\ work'.left = work.left
    BY <2>1 DEF IInv, Shapes
  <2>3. work'.query # NULL
    BY <2>1, NoneIsNoAnswer
  <2> QED
    BY <2>1, <2>2, <2>3 DEF Closer, FaceSteps
<1>7. CASE SaveCrop
  <2>1. /\ task = "running" /\ task' = "running" /\ images' = images
        /\ work.query # NULL /\ work.left > 0 /\ work.left \in Nat
        /\ work' = [work EXCEPT !.left = @ - 1, !.query = NULL,
                                !.outcomes = Append(@, work.query.outcome)]
    BY <1>7 DEF SaveCrop, rowVars, IInv, WorkFits, Shapes
  <2>2. /\ work'.image = work.image /\ work'.left = work.left - 1
        /\ work'.query = NULL
    BY <2>1 DEF IInv, Shapes
  <2> QED
    BY <2>1, <2>2 DEF Closer, FaceSteps
<1> QED
  BY <1>1, <1>2, <1>3, <1>4, <1>5, <1>6, <1>7 DEF Next, TaskStep, Fault

\* A task that is on its way never waits for itself and never loops: every step,
\* its own or a fault's, takes it closer to its end, and a task that is done has
\* published its session or marked it failed.
TaskComesToItsEnd ==
    /\ [][OnItsWay => Closer]_vars
    /\ [](task = "done" => session.status \in {"pending_review", "failed"})

DoneFits == task = "done" => session.status \in {"pending_review", "failed"}

\* A task on its way can take only finitely many steps, and ends with the session
\* published or failed: the safety of TaskEnds.
THEOREM TaskComesToItsEndHolds == Spec => TaskComesToItsEnd
<1>1. IInv /\ [Next]_vars => [OnItsWay => Closer]_vars
  BY ComesCloser
<1>2. Init => DoneFits
  BY DEF Init, DoneFits
<1>3. IInv /\ DoneFits /\ [Next]_vars => DoneFits'
  <2> SUFFICES ASSUME IInv, DoneFits, [Next]_vars, task' = "done"
               PROVE  session'.status \in {"pending_review", "failed"}
    BY DEF DoneFits
  <2>1. CASE UNCHANGED vars
    BY <2>1 DEF vars, DoneFits
  <2>2. TaskCommit \/ TaskMarksFailed \/ UNCHANGED vars
    BY DEF Next, UploadStep, TaskStep, Fault, SavePhoto, SaveRaises, CommitUpload,
       CommitRaises, CommitUnacked, CleanUp, CleanUpStops, RefreshFails, Enqueue,
       TaskLoadFails, TaskStart, Detect, MatchFace, SaveCrop, TaskRaises, CropRaises, TaskUnacked,
       TaskMarkFails, Crash, Goto, Stop, Working
  <2>3. CASE TaskCommit
    BY <2>3, Published DEF TaskCommit
  <2>4. CASE TaskMarksFailed
    BY <2>4 DEF TaskMarksFailed, IInv, Shapes
  <2> QED
    BY <2>1, <2>2, <2>3, <2>4
<1> QED
  BY <1>1, <1>2, <1>3, PipelineInvariance, PTL DEF Spec, TaskComesToItsEnd, DoneFits
=============================================================================
