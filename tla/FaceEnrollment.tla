--------------------------- MODULE FaceEnrollment ---------------------------
(***************************************************************************)
(* The enrollment photos of services/student_service.py: rows in two       *)
(* tables and a file per photo, kept together by the order in which        *)
(* enroll_face, delete_face_image and erase_biometrics write them.         *)
(*                                                                         *)
(* A call checks the student and the photos that are committed, waits for  *)
(* the face engine, writes the file, INSERTs the row, and commits it with  *)
(* its embedding.  The unique index on (student_id, content_hash) speaks   *)
(* at the INSERT: it waits for an uncommitted row with the same key and    *)
(* raises if there is a committed one.  Between two awaits of a call any   *)
(* other call may run.  A photo's row, its file and its embedding have one *)
(* id.                                                                     *)
(*                                                                         *)
(* A definition named X_Something stands before the definition X of the    *)
(* code and changes it the way a slip would; no action uses it.            *)
(***************************************************************************)
EXTENDS Naturals, Sequences, FiniteSets

CONSTANTS
    Student,
    Photo,          \* contents of an upload (its hash)
    Usable,         \* those a JPEG or PNG with one clearly detected face
    Image,          \* bound: ids of stored photos
    Req,            \* ids of calls
    MaxPhotos,      \* MAX_ENROLLMENT_PHOTOS
    MaxBatch,       \* bound: files of a request
    Faults,         \* faults that happen
    NULL

\* The process dies; the database fails before a commit; a commit is done but
\* its acknowledgement is lost; saving or deleting a file raises.
FaultKinds == {"crash", "db", "ack", "disk"}

VARIABLES
    active,         \* students.is_active
    photos,         \* the table student_face_images
    embedded,       \* the photos that have a row in face_embeddings
    files,          \* the stored files, each with the student of its key
    pc,             \* stage of a call
    student,        \* the student of a call
    left,           \* uploads it has not finished
    held,           \* the photos it writes or deletes
    disturbed,      \* history: students of whom two calls have overlapped or
                    \* a fault has cut one off
    unacked         \* history: photos whose commit was not acknowledged

callVars == <<pc, student, left, held, disturbed>>
vars     == <<active, photos, embedded, files, callVars, unacked>>

Row == [student : Student, hash : Photo]

ASSUME EnrollmentAssumption ==
    /\ NULL \notin Row /\ NULL \notin Student
    /\ MaxPhotos \in Nat /\ MaxBatch \in Nat
    /\ Faults \subseteq FaultKinds

Stored == {i \in Image : photos[i] # NULL}
PhotosOf(st) == {i \in Stored : photos[i].student = st}
FilesOf(st) == {i \in Image : files[i] = st}

EnrollStages == {"check", "detect", "saved", "flushed", "committed"}
Stages == {"idle", "deleting", "erasing", "deleted", "erased"} \cup EnrollStages

Init ==
    /\ active = [st \in Student |-> TRUE]
    /\ photos = [i \in Image |-> NULL]
    /\ embedded = {}
    /\ files = [i \in Image |-> NULL]
    /\ pc = [r \in Req |-> "idle"]
    /\ student = [r \in Req |-> NULL]
    /\ left = [r \in Req |-> <<>>]
    /\ held = [r \in Req |-> {}]
    /\ disturbed = {} /\ unacked = {}

-----------------------------------------------------------------------------
(* Calls.                                                                  *)

Begin(r, st, stage, uploads, ids) ==
    /\ pc[r] = "idle"
    /\ pc' = [pc EXCEPT ![r] = stage]
    /\ student' = [student EXCEPT ![r] = st]
    /\ left' = [left EXCEPT ![r] = uploads]
    /\ held' = [held EXCEPT ![r] = ids]
    /\ disturbed' = disturbed \cup {student[q] : q \in {q \in Req :
                                        pc[q] # "idle" /\ student[q] = st}}

\* The call is over.
Leave(r) ==
    /\ pc' = [pc EXCEPT ![r] = "idle"]
    /\ student' = [student EXCEPT ![r] = NULL]
    /\ left' = [left EXCEPT ![r] = <<>>]
    /\ held' = [held EXCEPT ![r] = {}]

End(r) == Leave(r) /\ UNCHANGED disturbed

\* A fault cuts it off.
Fault(r, kind) ==
    /\ kind \in Faults
    /\ Leave(r)
    /\ disturbed' = disturbed \cup {student[r]}

Goto(r, stage, ids) ==
    /\ pc' = [pc EXCEPT ![r] = stage]
    /\ held' = [held EXCEPT ![r] = ids]
    /\ UNCHANGED <<student, left, disturbed>>

-----------------------------------------------------------------------------
(* enroll_face and enroll_faces_batch; one file is a batch of one.         *)

Enroll(r, st, uploads) ==
    /\ Begin(r, st, "check", uploads, {})
    /\ UNCHANGED <<active, photos, embedded, files, unacked>>

Current(r) == Head(left[r])

\* A file is refused (DomainError) or enrolled: the next one.
NextFile(r) ==
    IF Len(left[r]) = 1 THEN End(r)
    ELSE /\ pc' = [pc EXCEPT ![r] = "check"]
         /\ left' = [left EXCEPT ![r] = Tail(@)]
         /\ held' = [held EXCEPT ![r] = {}]
         /\ UNCHANGED <<student, disturbed>>

HasRoom_OffByOne(st) == Cardinality(PhotosOf(st)) <= MaxPhotos

HasRoom(st) == Cardinality(PhotosOf(st)) < MaxPhotos

Known_Never(st, hash) == FALSE

Known(st, hash) == \E i \in PhotosOf(st) : photos[i].hash = hash

\* The checks before the face engine is called.
Check(r) ==
    /\ pc[r] = "check"
    /\ IF active[student[r]] /\ HasRoom(student[r]) /\ ~Known(student[r], Current(r))
       THEN Goto(r, "detect", {})
       ELSE NextFile(r)
    /\ UNCHANGED <<active, photos, embedded, files, unacked>>

\* The engine does not find exactly one clear face, or cannot read the file.
RefusePhoto(r) ==
    /\ pc[r] = "detect" /\ Current(r) \notin Usable
    /\ NextFile(r)
    /\ UNCHANGED <<active, photos, embedded, files, unacked>>

\* A new uuid.
Fresh(i) == photos[i] = NULL /\ files[i] = NULL /\ \A q \in Req : i \notin held[q]

SaveFile(r, i) ==
    /\ pc[r] = "detect" /\ Current(r) \in Usable
    /\ Fresh(i)
    /\ files' = [files EXCEPT ![i] = student[r]]
    /\ unacked' = unacked \ {i}
    /\ Goto(r, "saved", {i})
    /\ UNCHANGED <<active, photos, embedded>>

\* The save raises when it has created the file: no handler deletes it.
SaveRaises(r, i) ==
    /\ pc[r] = "detect" /\ Current(r) \in Usable
    /\ Fresh(i)
    /\ files' = [files EXCEPT ![i] = student[r]]
    /\ unacked' = unacked \ {i}
    /\ Fault(r, "disk")
    /\ UNCHANGED <<active, photos, embedded>>

Inserting_NoHash(r) == [student |-> student[r], hash |-> NULL]

Inserting(r) == [student |-> student[r], hash |-> Current(r)]

Clashes(r) == \E i \in Stored : photos[i] = Inserting(r)

Locked_Never(r) == FALSE

\* Another transaction has inserted the same key and not committed.
Locked(r) == \E q \in Req \ {r} : pc[q] = "flushed" /\ Inserting(q) = Inserting(r)

\* flush: the INSERT of the photo's row.
Flush(r) ==
    /\ pc[r] = "saved"
    /\ ~Locked(r) /\ ~Clashes(r)
    /\ Goto(r, "flushed", held[r])
    /\ UNCHANGED <<active, photos, embedded, files, unacked>>

\* The unique index refuses the row: the error of the flush is no DomainError
\* and leaves the request, past the handlers of the commit and of the batch.
FlushRaises(r) ==
    /\ pc[r] = "saved"
    /\ ~Locked(r) /\ Clashes(r)
    /\ End(r)
    /\ UNCHANGED <<active, photos, embedded, files, unacked>>

Written(r) == [i \in Image |-> IF i \in held[r] THEN Inserting(r) ELSE photos[i]]
Deleted(r) == [i \in Image |-> IF i \in held[r] THEN NULL ELSE photos[i]]
Removed(r) == [i \in Image |-> IF i \in held[r] THEN NULL ELSE files[i]]

\* The handler of a failed commit deletes the file, or raises before it does.
HandlerRemoves(r) ==
    \/ files' = Removed(r)
    \/ "disk" \in Faults /\ UNCHANGED files

\* commit: the row and its embedding.
CommitPhoto(r) ==
    /\ pc[r] = "flushed"
    /\ photos' = Written(r)
    /\ embedded' = embedded \cup held[r]
    /\ Goto(r, "committed", held[r])
    /\ UNCHANGED <<active, files, unacked>>

\* commit raises: rollback, and the file is deleted.
CommitRaises(r) ==
    /\ pc[r] = "flushed"
    /\ HandlerRemoves(r)
    /\ Fault(r, "db")
    /\ UNCHANGED <<active, photos, embedded, unacked>>

\* commit raises, and is done.
CommitUnacknowledged(r) ==
    /\ pc[r] = "flushed"
    /\ photos' = Written(r)
    /\ embedded' = embedded \cup held[r]
    /\ HandlerRemoves(r)
    /\ unacked' = unacked \cup held[r]
    /\ Fault(r, "ack")
    /\ UNCHANGED active

\* refresh and the count of the embeddings; the file is reported.
Report(r) ==
    /\ pc[r] = "committed"
    /\ held[r] \subseteq Stored
    /\ NextFile(r)
    /\ UNCHANGED <<active, photos, embedded, files, unacked>>

\* refresh raises: the row was deleted meanwhile.
RefreshRaises(r) ==
    /\ pc[r] = "committed"
    /\ ~(held[r] \subseteq Stored)
    /\ End(r)
    /\ UNCHANGED <<active, photos, embedded, files, unacked>>

-----------------------------------------------------------------------------
(* delete_face_image and erase_biometrics.                                 *)

Delete(r, i) ==
    /\ i \in Stored
    /\ Begin(r, photos[i].student, "deleting", <<>>, {i})
    /\ UNCHANGED <<active, photos, embedded, files, unacked>>

\* commit; the embeddings cascade.
CommitDelete(r) ==
    /\ pc[r] = "deleting"
    /\ photos' = Deleted(r)
    /\ embedded' = embedded \ held[r]
    /\ Goto(r, "deleted", held[r])
    /\ UNCHANGED <<active, files, unacked>>

Erase_FilesFirst(r, st) ==
    /\ Begin(r, st, "erasing", <<>>, PhotosOf(st))
    /\ files' = [i \in Image |-> IF i \in PhotosOf(st) THEN NULL ELSE files[i]]
    /\ UNCHANGED <<active, photos, embedded, unacked>>

\* The photos are listed.
Erase(r, st) ==
    /\ Begin(r, st, "erasing", <<>>, PhotosOf(st))
    /\ UNCHANGED <<active, photos, embedded, files, unacked>>

CommitErase_KeepsRows(r) ==
    /\ pc[r] = "erasing"
    /\ embedded' = embedded \ PhotosOf(student[r])
    /\ Goto(r, "erased", held[r])
    /\ UNCHANGED <<active, photos, files, unacked>>

\* commit: the listed photos go, and every embedding of the student.
CommitErase(r) ==
    /\ pc[r] = "erasing"
    /\ photos' = Deleted(r)
    /\ embedded' = embedded \ (held[r] \cup PhotosOf(student[r]))
    /\ Goto(r, "erased", held[r])
    /\ UNCHANGED <<active, files, unacked>>

\* Either commit is done and raises: no handler turns to the files.
RemovalUnacknowledged(r) ==
    /\ pc[r] \in {"deleting", "erasing"}
    /\ photos' = Deleted(r)
    /\ embedded' = embedded \ (held[r] \cup
                       IF pc[r] = "erasing" THEN PhotosOf(student[r]) ELSE {})
    /\ Fault(r, "ack")
    /\ UNCHANGED <<active, files, unacked>>

\* storage.delete of the photos that are gone; a missing file is no error.
RemoveFiles(r) ==
    /\ pc[r] \in {"deleted", "erased"}
    /\ files' = Removed(r)
    /\ End(r)
    /\ UNCHANGED <<active, photos, embedded, unacked>>

\* Some of them are deleted.
SomeRemoved(r) ==
    /\ pc[r] \in {"deleted", "erased"}
    /\ \E gone \in SUBSET held[r] :
          files' = [i \in Image |-> IF i \in gone THEN NULL ELSE files[i]]

\* storage.delete raises: the files that are left have no row any more.
RemoveFilesStops(r) ==
    /\ SomeRemoved(r)
    /\ Fault(r, "disk")
    /\ UNCHANGED <<active, photos, embedded, unacked>>

\* StudentService.deactivate, and update with is_active.
SetActive(st, flag) ==
    /\ active[st] # flag
    /\ active' = [active EXCEPT ![st] = flag]
    /\ UNCHANGED <<photos, embedded, files, callVars, unacked>>

\* The database fails in a statement before the commit: get_db rolls back.
StatementRaises(r) ==
    /\ pc[r] \in {"check", "detect", "saved", "deleting", "erasing"}
    /\ Fault(r, "db")
    /\ UNCHANGED <<active, photos, embedded, files, unacked>>

\* The process dies, also between two deletions of files.
Crash ==
    /\ "crash" \in Faults
    /\ \E r \in Req : pc[r] # "idle"
    /\ pc' = [r \in Req |-> "idle"]
    /\ student' = [r \in Req |-> NULL]
    /\ left' = [r \in Req |-> <<>>]
    /\ held' = [r \in Req |-> {}]
    /\ disturbed' = disturbed \cup {student[r] : r \in {r \in Req : pc[r] # "idle"}}
    /\ UNCHANGED files \/ \E r \in Req : SomeRemoved(r)
    /\ UNCHANGED <<active, photos, embedded, unacked>>

Batches == UNION {[1 .. n -> Photo] : n \in 1 .. MaxBatch}

CallStep(r) ==
    \/ Check(r) \/ RefusePhoto(r)
    \/ (\E i \in Image : SaveFile(r, i) \/ SaveRaises(r, i))
    \/ Flush(r) \/ FlushRaises(r)
    \/ CommitPhoto(r) \/ CommitRaises(r) \/ CommitUnacknowledged(r)
    \/ Report(r) \/ RefreshRaises(r)
    \/ CommitDelete(r) \/ CommitErase(r) \/ RemovalUnacknowledged(r)
    \/ RemoveFiles(r) \/ RemoveFilesStops(r)
    \/ StatementRaises(r)

Next ==
    \/ \E r \in Req, st \in Student : \/ \E uploads \in Batches : Enroll(r, st, uploads)
                                      \/ Erase(r, st)
    \/ \E r \in Req, i \in Image : Delete(r, i)
    \/ \E r \in Req : CallStep(r)
    \/ \E st \in Student, flag \in BOOLEAN : SetActive(st, flag)
    \/ Crash

Spec == Init /\ [][Next]_vars

\* Nothing overlaps an erasure.
ErasesAlone ==
    \A r, q \in Req :
        pc[r] \in {"erasing", "erased"} /\ student[q] = student[r] => q = r

CalmSpec == Init /\ [][Next /\ ErasesAlone']_vars

-----------------------------------------------------------------------------
(* Properties.                                                             *)

\* The types of all the variables.
TypeOK ==
    /\ active \in [Student -> BOOLEAN]
    /\ photos \in [Image -> Row \cup {NULL}]
    /\ embedded \subseteq Image
    /\ files \in [Image -> Student \cup {NULL}]
    /\ pc \in [Req -> Stages]
    /\ student \in [Req -> Student \cup {NULL}]
    /\ left \in [Req -> Seq(Photo)]
    /\ held \in [Req -> SUBSET Image]
    /\ disturbed \subseteq Student
    /\ unacked \subseteq Image

\* A photo in the table has its file, under a key of its student, at whatever
\* point calls overlap or are cut off: files are written before the row and
\* deleted after it.  The exception is a commit whose acknowledgement is lost.
PhotosHaveFiles == \A i \in Stored \ unacked : files[i] = photos[i].student

\* The unique index is the "race-proof backstop" of the duplicate check.
NoDuplicatePhoto ==
    \A i, j \in Stored : photos[i] = photos[j] => i = j

\* No embedding outlives its photo, and "one enrollment photo -> stored image +
\* one embedding": a photo without an embedding would count against the cap and
\* match nobody.  An erasure that overlaps an enrollment can leave one.
EmbeddingsFitPhotos ==
    /\ embedded \subseteq Stored
    /\ \A st \in Student \ disturbed : PhotosOf(st) \subseteq embedded

\* The enrollments of a student that have found room and not committed.
PastCheck(st) ==
    {r \in Req : student[r] = st /\ pc[r] \in {"detect", "saved", "flushed"}}

\* Overlapping enrollments each check the cap before any of them commits, so
\* together they pass it, but by fewer photos than there are calls at a time.
OverlapsBoundTheCap ==
    \A st \in Student :
        Cardinality(PhotosOf(st)) + Cardinality(PastCheck(st))
            < MaxPhotos + Cardinality(Req)

\* A file that was saved is enrolled, and the batch goes on, for students whose
\* calls do not overlap ("never failing the whole batch").
BatchGoesOn ==
    [][\A r \in Req :
          pc[r] \in {"saved", "flushed", "committed"} /\ pc'[r] = "idle" =>
              \/ student[r] \in disturbed'
              \/ Len(left[r]) = 1 /\ held[r] \subseteq Stored]_vars

ErasureEnds(r, st) == pc[r] = "erased" /\ student[r] = st /\ pc'[r] = "idle"

\* Right-to-erasure for students whose calls did not overlap: no row, no
\* embedding and no file is left when it ends.
ErasureIsComplete ==
    [][\A r \in Req, st \in Student :
          ErasureEnds(r, st) /\ st \notin disturbed' =>
              PhotosOf(st)' = {} /\ FilesOf(st)' = {}]_vars

\* "Right-to-erasure: purge ALL enrollment photos" and "don't leave orphaned
\* files": an erasure that nothing overlaps leaves no file of the student.
ErasureLeavesNoFile ==
    [][\A r \in Req, st \in Student :
          ErasureEnds(r, st) => FilesOf(st)' = {}]_vars
=============================================================================
