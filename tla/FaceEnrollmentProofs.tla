------------------------ MODULE FaceEnrollmentProofs ------------------------
(***************************************************************************)
(* Whatever calls overlap and wherever they are cut off, a photo of the    *)
(* table has its file and no photo is there twice.  The argument is that   *)
(* the id of a photo belongs to one call from the file to the commit, that *)
(* the unique index keeps inserted rows apart before they are committed,   *)
(* and that files go after their rows.  Students whose calls do not        *)
(* overlap are promised more, and a bound on the cap holds for all.        *)
(***************************************************************************)
EXTENDS FaceEnrollment, SequenceTheorems, FiniteSetTheorems, TLAPS

\* A call has a student, and an enrollment an upload.
Working ==
    \A r \in Req : /\ pc[r] # "idle" => student[r] \in Student
                   /\ pc[r] \in EnrollStages => left[r] # <<>>

\* The photo a call is about to insert or commit has its file and no row, and
\* no other call knows it.
OwnsPhoto(r) ==
    /\ \A i, j \in held[r] : i = j
    /\ \A i \in held[r] : /\ photos[i] = NULL /\ files[i] = student[r]
                         /\ \A q \in Req \ {r} : i \notin held[q]

Owning == \A r \in Req : pc[r] \in {"saved", "flushed"} => OwnsPhoto(r)

\* The rows are gone when a call turns to the files.
RowsGoFirst ==
    \A r \in Req : pc[r] \in {"deleted", "erased"} => held[r] \cap Stored = {}

\* What the unique index has let in is not in the table, nor twice in flight.
Indexed ==
    \A r \in Req : pc[r] = "flushed" =>
        /\ ~Clashes(r)
        /\ \A q \in Req \ {r} : pc[q] = "flushed" => Inserting(q) # Inserting(r)

IInv ==
    /\ TypeOK
    /\ Working
    /\ Owning
    /\ RowsGoFirst
    /\ Indexed
    /\ PhotosHaveFiles
    /\ NoDuplicatePhoto

-----------------------------------------------------------------------------

LEMMA InitIsFine == Init => IInv
  BY EnrollmentAssumption
  DEF Init, IInv, TypeOK, Working, Owning, RowsGoFirst, Indexed,
     PhotosHaveFiles, NoDuplicatePhoto, Stored, EnrollStages, Stages

LEMMA BatchIsSequence ==
  ASSUME NEW b \in Batches
  PROVE  b \in Seq(Photo) /\ b # <<>>
  BY EnrollmentAssumption DEF Batches

\* The head of a batch, and what is left of a longer one.
LEMMA SequenceShrinks ==
  ASSUME NEW b \in Seq(Photo), b # <<>>
  PROVE  /\ Head(b) \in Photo
         /\ Len(b) # 1 => Tail(b) \in Seq(Photo) /\ Tail(b) # <<>>
<1>1. Head(b) \in Photo /\ Tail(b) \in Seq(Photo) /\ Len(Tail(b)) = Len(b) - 1
  BY HeadTailProperties
<1>2. Len(b) \in Nat /\ Len(<<>>) = 0
  OBVIOUS
<1>3. Len(b) # 1 => Len(Tail(b)) # 0
  BY <1>1, <1>2
<1> QED
  BY <1>1, <1>2, <1>3

LEMMA EnrollKeeps ==
  ASSUME IInv, NEW r \in Req, NEW st \in Student, NEW b \in Batches, Enroll(r, st, b)
  PROVE  IInv'
<1>1. TypeOK'
  BY BatchIsSequence
  DEF IInv, TypeOK, Stages, EnrollStages, PhotosOf, Stored, Enroll, Begin
<1>2. Working'
  BY BatchIsSequence DEF IInv, TypeOK, Working, Enroll, Begin
<1>3. Owning'
  BY DEF IInv, Owning, OwnsPhoto, Enroll, Begin
<1>4. RowsGoFirst'
  BY DEF IInv, RowsGoFirst, Stored, Enroll, Begin
<1>5. Indexed'
  BY DEF IInv, Indexed, Clashes, Inserting, Current, Stored, Enroll, Begin
<1>6. PhotosHaveFiles'
  BY DEF IInv, PhotosHaveFiles, Stored, Enroll, Begin
<1>7. NoDuplicatePhoto'
  BY DEF IInv, NoDuplicatePhoto, Stored, Enroll, Begin
<1> QED
  BY <1>1, <1>2, <1>3, <1>4, <1>5, <1>6, <1>7 DEF IInv

LEMMA EraseKeeps ==
  ASSUME IInv, NEW r \in Req, NEW st \in Student, Erase(r, st)
  PROVE  IInv'
<1>1. TypeOK'
  BY DEF IInv, TypeOK, Stages, PhotosOf, Stored, Erase, Begin
<1>2. Working'
  BY DEF IInv, TypeOK, Working, EnrollStages, Erase, Begin
<1>3. Owning'
  BY DEF IInv, Owning, OwnsPhoto, PhotosOf, Stored, Erase, Begin
<1>4. RowsGoFirst'
  BY DEF IInv, RowsGoFirst, Stored, Erase, Begin
<1>5. Indexed'
  BY DEF IInv, TypeOK, Indexed, Clashes, Inserting, Current, Stored, Erase,
         Begin
<1>6. PhotosHaveFiles'
  BY DEF IInv, PhotosHaveFiles, Stored, Erase, Begin
<1>7. NoDuplicatePhoto'
  BY DEF IInv, NoDuplicatePhoto, Stored, Erase, Begin
<1> QED
  BY <1>1, <1>2, <1>3, <1>4, <1>5, <1>6, <1>7 DEF IInv

LEMMA DeleteKeeps ==
  ASSUME IInv, NEW r \in Req, NEW i \in Image, Delete(r, i)
  PROVE  IInv'
<1>1. TypeOK'
  BY DEF IInv, TypeOK, Row, Stages, Stored, Delete, Begin
<1>2. Working'
  BY DEF IInv, TypeOK, Working, EnrollStages, Stored, Row, Delete, Begin
<1>3. Owning'
  BY DEF IInv, Owning, OwnsPhoto, Stored, Delete, Begin
<1>4. RowsGoFirst'
  BY DEF IInv, RowsGoFirst, Stored, Delete, Begin
<1>5. Indexed'
  BY DEF IInv, Indexed, Clashes, Inserting, Current, Stored, Delete, Begin
<1>6. PhotosHaveFiles'
  BY DEF IInv, PhotosHaveFiles, Stored, Delete, Begin
<1>7. NoDuplicatePhoto'
  BY DEF IInv, NoDuplicatePhoto, Stored, Delete, Begin
<1> QED
  BY <1>1, <1>2, <1>3, <1>4, <1>5, <1>6, <1>7 DEF IInv

\* The next file of an enrollment, or its end.
LEMMA NextFileKeeps ==
  ASSUME IInv, NEW r \in Req, pc[r] \in EnrollStages, NextFile(r),
         UNCHANGED <<active, photos, embedded, files, unacked>>
  PROVE  IInv'
<1>1. left[r] \in Seq(Photo) /\ left[r] # <<>>
  BY DEF IInv, TypeOK, Working
<1>2. CASE Len(left[r]) = 1
  <2>8. Leave(r) /\ UNCHANGED disturbed
    BY <1>2 DEF NextFile, End
  <2>1. TypeOK'
    BY <2>8 DEF IInv, TypeOK, Stages, Leave
  <2>2. Working'
    BY <2>8 DEF IInv, TypeOK, Working, EnrollStages, Leave
  <2>3. Owning'
    BY <2>8 DEF IInv, TypeOK, Owning, OwnsPhoto, Leave
  <2>4. RowsGoFirst'
    BY <2>8 DEF IInv, RowsGoFirst, Stored, Leave
  <2>5. Indexed'
    BY <2>8
    DEF IInv, TypeOK, Indexed, Clashes, Inserting, Current, Stored, Leave
  <2>6. PhotosHaveFiles'
    BY <2>8 DEF IInv, PhotosHaveFiles, Stored, Leave
  <2>7. NoDuplicatePhoto'
    BY <2>8 DEF IInv, NoDuplicatePhoto, Stored, Leave
  <2> QED
    BY <2>1, <2>2, <2>3, <2>4, <2>5, <2>6, <2>7 DEF IInv
<1>3. CASE Len(left[r]) # 1
  <2> DEFINE rest == Tail(left[r])
  <2>0. rest \in Seq(Photo) /\ rest # <<>>
    BY <1>1, <1>3, SequenceShrinks
  <2>8. /\ pc' = [pc EXCEPT ![r] = "check"]
        /\ left' = [left EXCEPT ![r] = rest]
        /\ held' = [held EXCEPT ![r] = {}]
        /\ UNCHANGED <<student, disturbed>>
    BY <1>3 DEF NextFile
  <2> HIDE DEF rest
  <2>1. TypeOK'
    BY <2>0, <2>8 DEF IInv, TypeOK, Stages, EnrollStages
  <2>2. Working'
    BY <2>0, <2>8 DEF IInv, Working, EnrollStages
  <2>3. Owning'
    BY <2>0, <2>8 DEF IInv, Owning, OwnsPhoto
  <2>4. RowsGoFirst'
    BY <2>0, <2>8 DEF IInv, RowsGoFirst, Stored
  <2>5. Indexed'
    BY <2>0, <2>8 DEF IInv, TypeOK, Indexed, Clashes, Inserting, Current, Stored
  <2>6. PhotosHaveFiles'
    BY <2>0, <2>8 DEF IInv, PhotosHaveFiles, Stored
  <2>7. NoDuplicatePhoto'
    BY <2>0, <2>8 DEF IInv, NoDuplicatePhoto, Stored
  <2> QED
    BY <2>1, <2>2, <2>3, <2>4, <2>5, <2>6, <2>7 DEF IInv
<1> QED
  BY <1>2, <1>3

LEMMA CheckKeeps ==
  ASSUME IInv, NEW r \in Req, Check(r)
  PROVE  IInv'
<1>1. CASE Goto(r, "detect", {})
  <2>1. TypeOK'
    BY <1>1 DEF IInv, TypeOK, Stages, EnrollStages, Check, Goto
  <2>2. Working'
    BY <1>1 DEF IInv, Working, EnrollStages, Check, Goto
  <2>3. Owning'
    BY <1>1 DEF IInv, Owning, OwnsPhoto, Check, Goto
  <2>4. RowsGoFirst'
    BY <1>1 DEF IInv, RowsGoFirst, Stored, Check, Goto
  <2>5. Indexed'
    BY <1>1 DEF IInv, Indexed, Clashes, Inserting, Current, Stored, Check, Goto
  <2>6. PhotosHaveFiles'
    BY <1>1 DEF IInv, PhotosHaveFiles, Stored, Check, Goto
  <2>7. NoDuplicatePhoto'
    BY <1>1 DEF IInv, NoDuplicatePhoto, Stored, Check, Goto
  <2> QED
    BY <2>1, <2>2, <2>3, <2>4, <2>5, <2>6, <2>7 DEF IInv
<1>2. CASE NextFile(r)
  BY <1>2, NextFileKeeps DEF Check, EnrollStages
<1> QED
  BY <1>1, <1>2 DEF Check

LEMMA RefusePhotoKeeps ==
  ASSUME IInv, NEW r \in Req, RefusePhoto(r)
  PROVE  IInv'
BY NextFileKeeps DEF RefusePhoto, EnrollStages

LEMMA SaveFileKeeps ==
  ASSUME IInv, NEW r \in Req, NEW i \in Image, SaveFile(r, i)
  PROVE  IInv'
<1>1. TypeOK'
  BY DEF IInv, TypeOK, Stages, EnrollStages, SaveFile, Goto
<1>2. Working'
  BY DEF IInv, Working, EnrollStages, SaveFile, Goto
<1>3. Owning'
  BY DEF IInv, TypeOK, Owning, OwnsPhoto, SaveFile, Goto, Fresh
<1>4. RowsGoFirst'
  BY DEF IInv, RowsGoFirst, Stored, SaveFile, Goto
<1>5. Indexed'
  BY DEF IInv, Indexed, Clashes, Inserting, Current, Stored, SaveFile, Goto
<1>6. PhotosHaveFiles'
  BY DEF IInv, PhotosHaveFiles, Stored, SaveFile, Goto, Fresh
<1>7. NoDuplicatePhoto'
  BY DEF IInv, NoDuplicatePhoto, Stored, SaveFile, Goto
<1> QED
  BY <1>1, <1>2, <1>3, <1>4, <1>5, <1>6, <1>7 DEF IInv

LEMMA SaveRaisesKeeps ==
  ASSUME IInv, NEW r \in Req, NEW i \in Image, SaveRaises(r, i)
  PROVE  IInv'
<1>1. TypeOK'
  BY DEF IInv, TypeOK, Working, Stages, EnrollStages, SaveRaises, Fault, Leave, Fresh
<1>2. Working'
  BY DEF IInv, TypeOK, Working, EnrollStages, SaveRaises, Fault, Leave
<1>3. Owning'
  BY DEF IInv, TypeOK, Owning, OwnsPhoto, SaveRaises, Fault, Leave, Fresh
<1>4. RowsGoFirst'
  BY DEF IInv, RowsGoFirst, Stored, SaveRaises, Fault, Leave, Fresh
<1>5. Indexed'
  BY DEF IInv, TypeOK, Indexed, Clashes, Inserting, Current, Stored,
         SaveRaises, Fault, Leave, Fresh
<1>6. PhotosHaveFiles'
  BY DEF IInv, RowsGoFirst, PhotosHaveFiles, Stored,
         SaveRaises, Fault, Leave, Fresh
<1>7. NoDuplicatePhoto'
  BY DEF IInv, NoDuplicatePhoto, Stored, SaveRaises, Fault, Leave, Fresh
<1> QED
  BY <1>1, <1>2, <1>3, <1>4, <1>5, <1>6, <1>7 DEF IInv

LEMMA FlushKeeps ==
  ASSUME IInv, NEW r \in Req, Flush(r)
  PROVE  IInv'
<1>1. TypeOK'
  BY DEF IInv, TypeOK, Stages, EnrollStages, Flush, Goto
<1>2. Working'
  BY DEF IInv, Working, EnrollStages, Flush, Goto
<1>3. Owning'
  BY DEF IInv, Owning, OwnsPhoto, Flush, Goto
<1>4. RowsGoFirst'
  BY DEF IInv, RowsGoFirst, Stored, Flush, Goto
<1>5. Indexed'
  BY DEF IInv, TypeOK, Indexed, Clashes, Inserting, Current, Stored, Flush,
         Goto, Locked
<1>6. PhotosHaveFiles'
  BY DEF IInv, PhotosHaveFiles, Stored, Flush, Goto
<1>7. NoDuplicatePhoto'
  BY DEF IInv, NoDuplicatePhoto, Stored, Flush, Goto
<1> QED
  BY <1>1, <1>2, <1>3, <1>4, <1>5, <1>6, <1>7 DEF IInv

LEMMA FlushRaisesKeeps ==
  ASSUME IInv, NEW r \in Req, FlushRaises(r)
  PROVE  IInv'
<1>1. TypeOK'
  BY DEF IInv, TypeOK, Stages, FlushRaises, End, Leave
<1>2. Working'
  BY DEF IInv, TypeOK, Working, EnrollStages, FlushRaises, End, Leave
<1>3. Owning'
  BY DEF IInv, TypeOK, Owning, OwnsPhoto, FlushRaises, End, Leave
<1>4. RowsGoFirst'
  BY DEF IInv, RowsGoFirst, Stored, FlushRaises, End, Leave
<1>5. Indexed'
  BY DEF IInv, TypeOK, Indexed, Clashes, Inserting, Current, Stored,
         FlushRaises, End, Leave
<1>6. PhotosHaveFiles'
  BY DEF IInv, PhotosHaveFiles, Stored, FlushRaises, End, Leave
<1>7. NoDuplicatePhoto'
  BY DEF IInv, NoDuplicatePhoto, Stored, FlushRaises, End, Leave
<1> QED
  BY <1>1, <1>2, <1>3, <1>4, <1>5, <1>6, <1>7 DEF IInv

LEMMA CommitPhotoKeeps ==
  ASSUME IInv, NEW r \in Req, CommitPhoto(r)
  PROVE  IInv'
<1>1. TypeOK'
  BY DEF IInv, TypeOK, Working, Row, Stages, EnrollStages, Current, Inserting,
         CommitPhoto, Goto, Written
<1>2. Working'
  BY DEF IInv, Working, EnrollStages, CommitPhoto, Goto
<1>3. Owning'
  BY DEF IInv, TypeOK, Owning, OwnsPhoto, CommitPhoto, Goto, Written
<1>4. RowsGoFirst'
  BY DEF IInv, Owning, OwnsPhoto, RowsGoFirst, Stored, CommitPhoto, Goto,
         Written
<1>5. Indexed'
  BY DEF IInv, TypeOK, Indexed, Clashes, Inserting, Current, Stored,
         CommitPhoto, Goto, Written
<1>6. PhotosHaveFiles'
  BY DEF IInv, Owning, OwnsPhoto, PhotosHaveFiles, Inserting, Stored,
         CommitPhoto, Goto, Written
<1>7. NoDuplicatePhoto'
  BY DEF IInv, Indexed, Owning, OwnsPhoto, Clashes, NoDuplicatePhoto, Stored,
         CommitPhoto, Goto, Written
<1> QED
  BY <1>1, <1>2, <1>3, <1>4, <1>5, <1>6, <1>7 DEF IInv

LEMMA CommitRaisesKeeps ==
  ASSUME IInv, NEW r \in Req, CommitRaises(r)
  PROVE  IInv'
<1>1. TypeOK'
  BY DEF IInv, TypeOK, Working, Stages, CommitRaises, Fault, Leave, Removed, HandlerRemoves
<1>2. Working'
  BY DEF IInv, TypeOK, Working, EnrollStages, CommitRaises, Fault, Leave
<1>3. Owning'
  BY DEF IInv, TypeOK, Owning, OwnsPhoto, CommitRaises, Fault, Leave, Removed, HandlerRemoves
<1>4. RowsGoFirst'
  BY DEF IInv, RowsGoFirst, Stored, CommitRaises, Fault, Leave
<1>5. Indexed'
  BY DEF IInv, TypeOK, Indexed, Clashes, Inserting, Current, Stored,
         CommitRaises, Fault, Leave
<1>6. PhotosHaveFiles'
  BY DEF IInv, Owning, OwnsPhoto, PhotosHaveFiles, Stored, CommitRaises, Fault,
         Leave, Removed, HandlerRemoves
<1>7. NoDuplicatePhoto'
  BY DEF IInv, NoDuplicatePhoto, Stored, CommitRaises, Fault, Leave
<1> QED
  BY <1>1, <1>2, <1>3, <1>4, <1>5, <1>6, <1>7 DEF IInv

LEMMA CommitUnacknowledgedKeeps ==
  ASSUME IInv, NEW r \in Req, CommitUnacknowledged(r)
  PROVE  IInv'
<1>1. TypeOK'
  BY DEF IInv, TypeOK, Working, Row, Stages, EnrollStages, Current, Inserting,
         CommitUnacknowledged, Fault, Leave, Written, Removed, HandlerRemoves
<1>2. Working'
  BY DEF IInv, TypeOK, Working, EnrollStages, CommitUnacknowledged, Fault, Leave
<1>3. Owning'
  BY DEF IInv, TypeOK, Owning, OwnsPhoto, CommitUnacknowledged, Fault, Leave,
         Written, Removed, HandlerRemoves
<1>4. RowsGoFirst'
  BY DEF IInv, Owning, OwnsPhoto, RowsGoFirst, Stored, CommitUnacknowledged,
         Fault, Leave, Written, Removed, HandlerRemoves
<1>5. Indexed'
  BY DEF IInv, TypeOK, Indexed, Clashes, Inserting, Current, Stored,
         CommitUnacknowledged, Fault, Leave, Written, Removed, HandlerRemoves
<1>6. PhotosHaveFiles'
  BY DEF IInv, PhotosHaveFiles, Stored, CommitUnacknowledged, Fault, Leave,
         Written, Removed, HandlerRemoves
<1>7. NoDuplicatePhoto'
  BY DEF IInv, Indexed, Owning, OwnsPhoto, Clashes, NoDuplicatePhoto, Stored,
         CommitUnacknowledged, Fault, Leave, Written, Removed, HandlerRemoves
<1> QED
  BY <1>1, <1>2, <1>3, <1>4, <1>5, <1>6, <1>7 DEF IInv

LEMMA ReportKeeps ==
  ASSUME IInv, NEW r \in Req, Report(r)
  PROVE  IInv'
BY NextFileKeeps DEF Report, EnrollStages

LEMMA RefreshRaisesKeeps ==
  ASSUME IInv, NEW r \in Req, RefreshRaises(r)
  PROVE  IInv'
<1>1. TypeOK'
  BY DEF IInv, TypeOK, Stages, RefreshRaises, End, Leave
<1>2. Working'
  BY DEF IInv, TypeOK, Working, EnrollStages, RefreshRaises, End, Leave
<1>3. Owning'
  BY DEF IInv, Owning, OwnsPhoto, RefreshRaises, End, Leave
<1>4. RowsGoFirst'
  BY DEF IInv, RowsGoFirst, Stored, RefreshRaises, End, Leave
<1>5. Indexed'
  BY DEF IInv, Indexed, Clashes, Inserting, Current, Stored, RefreshRaises, End,
         Leave
<1>6. PhotosHaveFiles'
  BY DEF IInv, PhotosHaveFiles, Stored, RefreshRaises, End, Leave
<1>7. NoDuplicatePhoto'
  BY DEF IInv, NoDuplicatePhoto, Stored, RefreshRaises, End, Leave
<1> QED
  BY <1>1, <1>2, <1>3, <1>4, <1>5, <1>6, <1>7 DEF IInv

LEMMA CommitDeleteKeeps ==
  ASSUME IInv, NEW r \in Req, CommitDelete(r)
  PROVE  IInv'
<1>1. TypeOK'
  BY DEF IInv, TypeOK, Stages, CommitDelete, Goto, Deleted
<1>2. Working'
  BY DEF IInv, Working, EnrollStages, CommitDelete, Goto, Deleted
<1>3. Owning'
  BY DEF IInv, TypeOK, Owning, OwnsPhoto, CommitDelete, Goto, Deleted
<1>4. RowsGoFirst'
  BY DEF IInv, RowsGoFirst, Stored, CommitDelete, Goto, Deleted
<1>5. Indexed'
  BY DEF IInv, Indexed, Clashes, Inserting, Current, Stored, CommitDelete, Goto, Deleted
<1>6. PhotosHaveFiles'
  BY DEF IInv, PhotosHaveFiles, Stored, CommitDelete, Goto, Deleted
<1>7. NoDuplicatePhoto'
  BY DEF IInv, NoDuplicatePhoto, Stored, CommitDelete, Goto, Deleted
<1> QED
  BY <1>1, <1>2, <1>3, <1>4, <1>5, <1>6, <1>7 DEF IInv

LEMMA CommitEraseKeeps ==
  ASSUME IInv, NEW r \in Req, CommitErase(r)
  PROVE  IInv'
<1>1. TypeOK'
  BY DEF IInv, TypeOK, Stages, CommitErase, Goto, Deleted
<1>2. Working'
  BY DEF IInv, Working, EnrollStages, CommitErase, Goto, Deleted
<1>3. Owning'
  BY DEF IInv, TypeOK, Owning, OwnsPhoto, CommitErase, Goto, Deleted
<1>4. RowsGoFirst'
  BY DEF IInv, RowsGoFirst, Stored, CommitErase, Goto, Deleted
<1>5. Indexed'
  BY DEF IInv, Indexed, Clashes, Inserting, Current, Stored, CommitErase, Goto, Deleted
<1>6. PhotosHaveFiles'
  BY DEF IInv, PhotosHaveFiles, Stored, CommitErase, Goto, Deleted
<1>7. NoDuplicatePhoto'
  BY DEF IInv, NoDuplicatePhoto, Stored, CommitErase, Goto, Deleted
<1> QED
  BY <1>1, <1>2, <1>3, <1>4, <1>5, <1>6, <1>7 DEF IInv

LEMMA RemoveFilesKeeps ==
  ASSUME IInv, NEW r \in Req, RemoveFiles(r)
  PROVE  IInv'
<1>1. TypeOK'
  BY DEF IInv, TypeOK, Stages, RemoveFiles, End, Leave, Removed
<1>2. Working'
  BY DEF IInv, TypeOK, Working, EnrollStages, RemoveFiles, End, Leave
<1>3. Owning'
  BY DEF IInv, TypeOK, Owning, OwnsPhoto, RemoveFiles, End, Leave, Removed
<1>4. RowsGoFirst'
  BY DEF IInv, RowsGoFirst, Stored, RemoveFiles, End, Leave
<1>5. Indexed'
  BY DEF IInv, TypeOK, Indexed, Clashes, Inserting, Current, Stored,
         RemoveFiles, End, Leave
<1>6. PhotosHaveFiles'
  BY DEF IInv, RowsGoFirst, PhotosHaveFiles, Stored, RemoveFiles, End, Leave,
         Removed
<1>7. NoDuplicatePhoto'
  BY DEF IInv, NoDuplicatePhoto, Stored, RemoveFiles, End, Leave
<1> QED
  BY <1>1, <1>2, <1>3, <1>4, <1>5, <1>6, <1>7 DEF IInv

LEMMA RemovalUnacknowledgedKeeps ==
  ASSUME IInv, NEW r \in Req, RemovalUnacknowledged(r)
  PROVE  IInv'
<1>1. TypeOK'
  BY DEF IInv, TypeOK, Working, Stages, EnrollStages, RemovalUnacknowledged, Fault, Leave, Deleted
<1>2. Working'
  BY DEF IInv, TypeOK, Working, EnrollStages, RemovalUnacknowledged, Fault, Leave
<1>3. Owning'
  BY DEF IInv, TypeOK, Owning, OwnsPhoto, RemovalUnacknowledged, Fault, Leave, Deleted
<1>4. RowsGoFirst'
  BY DEF IInv, RowsGoFirst, Stored, RemovalUnacknowledged, Fault, Leave, Deleted
<1>5. Indexed'
  BY DEF IInv, TypeOK, Indexed, Clashes, Inserting, Current, Stored,
         RemovalUnacknowledged, Fault, Leave, Deleted
<1>6. PhotosHaveFiles'
  BY DEF IInv, RowsGoFirst, PhotosHaveFiles, Stored,
         RemovalUnacknowledged, Fault, Leave, Deleted
<1>7. NoDuplicatePhoto'
  BY DEF IInv, NoDuplicatePhoto, Stored, RemovalUnacknowledged, Fault, Leave, Deleted
<1> QED
  BY <1>1, <1>2, <1>3, <1>4, <1>5, <1>6, <1>7 DEF IInv

LEMMA RemoveFilesStopsKeeps ==
  ASSUME IInv, NEW r \in Req, RemoveFilesStops(r)
  PROVE  IInv'
<1>1. TypeOK'
  BY DEF IInv, TypeOK, Working, Stages, EnrollStages, RemoveFilesStops, SomeRemoved, Fault, Leave
<1>2. Working'
  BY DEF IInv, TypeOK, Working, EnrollStages, RemoveFilesStops, Fault, Leave
<1>3. Owning'
  BY DEF IInv, TypeOK, Owning, OwnsPhoto, RemoveFilesStops, SomeRemoved, Fault, Leave
<1>4. RowsGoFirst'
  BY DEF IInv, RowsGoFirst, Stored, RemoveFilesStops, SomeRemoved, Fault, Leave
<1>5. Indexed'
  BY DEF IInv, TypeOK, Indexed, Clashes, Inserting, Current, Stored,
         RemoveFilesStops, SomeRemoved, Fault, Leave
<1>6. PhotosHaveFiles'
  BY DEF IInv, RowsGoFirst, PhotosHaveFiles, Stored,
         RemoveFilesStops, SomeRemoved, Fault, Leave
<1>7. NoDuplicatePhoto'
  BY DEF IInv, NoDuplicatePhoto, Stored, RemoveFilesStops, SomeRemoved, Fault, Leave
<1> QED
  BY <1>1, <1>2, <1>3, <1>4, <1>5, <1>6, <1>7 DEF IInv

LEMMA SetActiveKeeps ==
  ASSUME IInv, NEW st \in Student, NEW flag \in BOOLEAN, SetActive(st, flag)
  PROVE  IInv'
<1>1. TypeOK'
  BY DEF IInv, TypeOK, SetActive, callVars
<1>2. Working'
  BY DEF IInv, Working, SetActive, callVars
<1>3. Owning'
  BY DEF IInv, Owning, OwnsPhoto, SetActive, callVars
<1>4. RowsGoFirst'
  BY DEF IInv, RowsGoFirst, Stored, SetActive, callVars
<1>5. Indexed'
  BY DEF IInv, Indexed, Clashes, Inserting, Current, Stored, SetActive, callVars
<1>6. PhotosHaveFiles'
  BY DEF IInv, PhotosHaveFiles, Stored, SetActive, callVars
<1>7. NoDuplicatePhoto'
  BY DEF IInv, NoDuplicatePhoto, Stored, SetActive, callVars
<1> QED
  BY <1>1, <1>2, <1>3, <1>4, <1>5, <1>6, <1>7 DEF IInv

LEMMA StatementRaisesKeeps ==
  ASSUME IInv, NEW r \in Req, StatementRaises(r)
  PROVE  IInv'
<1>1. TypeOK'
  BY DEF IInv, TypeOK, Working, Stages, StatementRaises, Fault, Leave
<1>2. Working'
  BY DEF IInv, TypeOK, Working, EnrollStages, StatementRaises, Fault, Leave
<1>3. Owning'
  BY DEF IInv, TypeOK, Owning, OwnsPhoto, StatementRaises, Fault, Leave
<1>4. RowsGoFirst'
  BY DEF IInv, RowsGoFirst, Stored, StatementRaises, Fault, Leave
<1>5. Indexed'
  BY DEF IInv, TypeOK, Indexed, Clashes, Inserting, Current, Stored,
         StatementRaises, Fault, Leave
<1>6. PhotosHaveFiles'
  BY DEF IInv, PhotosHaveFiles, Stored, StatementRaises, Fault, Leave
<1>7. NoDuplicatePhoto'
  BY DEF IInv, NoDuplicatePhoto, Stored, StatementRaises, Fault, Leave
<1> QED
  BY <1>1, <1>2, <1>3, <1>4, <1>5, <1>6, <1>7 DEF IInv

LEMMA CrashKeeps ==
  ASSUME IInv, Crash
  PROVE  IInv'
<1>1. TypeOK'
  BY DEF IInv, TypeOK, Working, Stages, Crash, SomeRemoved
<1>2. Working'
  BY DEF IInv, Working, EnrollStages, Crash
<1>3. Owning'
  BY DEF IInv, Owning, OwnsPhoto, Crash
<1>4. RowsGoFirst'
  BY DEF IInv, RowsGoFirst, Crash
<1>5. Indexed'
  BY DEF IInv, Indexed, Clashes, Crash
<1>6. PhotosHaveFiles'
  BY DEF IInv, RowsGoFirst, PhotosHaveFiles, Stored, Crash, SomeRemoved
<1>7. NoDuplicatePhoto'
  BY DEF IInv, NoDuplicatePhoto, Stored, Crash
<1> QED
  BY <1>1, <1>2, <1>3, <1>4, <1>5, <1>6, <1>7 DEF IInv

LEMMA StepKeeps == IInv /\ [Next]_vars => IInv'
<1> SUFFICES ASSUME IInv, [Next]_vars
             PROVE  IInv'
  OBVIOUS
<1>1. ASSUME NEW r \in Req, CallStep(r)
      PROVE  IInv'
  BY <1>1, CheckKeeps, RefusePhotoKeeps, SaveFileKeeps, FlushKeeps,
         FlushRaisesKeeps,
     CommitPhotoKeeps, CommitRaisesKeeps, CommitUnacknowledgedKeeps, ReportKeeps,
     RefreshRaisesKeeps, CommitDeleteKeeps, CommitEraseKeeps, RemoveFilesKeeps,
     SaveRaisesKeeps, RemovalUnacknowledgedKeeps, RemoveFilesStopsKeeps,
     StatementRaisesKeeps DEF CallStep
<1>2. CASE UNCHANGED vars
  BY <1>2
  DEF IInv, TypeOK, Working, Owning, OwnsPhoto, RowsGoFirst, Indexed, Clashes,
     Inserting, Current, PhotosHaveFiles, NoDuplicatePhoto, Stored, vars, callVars
<1> QED
  BY <1>1, <1>2, EnrollKeeps, EraseKeeps, DeleteKeeps, SetActiveKeeps,
     CrashKeeps
  DEF Next

LEMMA Invariance == Spec => []IInv
  BY InitIsFine, StepKeeps, PTL DEF Spec

-----------------------------------------------------------------------------
(* Students whose calls do not overlap and are not cut off.                *)

\* Calls that may still insert a photo.
Enrolling == {"detect", "saved", "flushed"}

\* No two calls of a student overlap but if the student is disturbed.
Alone ==
    \A r, q \in Req :
        /\ pc[r] # "idle" /\ pc[q] # "idle"
        /\ student[r] = student[q] /\ student[r] \notin disturbed
        => r = q

\* What its checks have told an enrollment still holds: there is room, and the
\* photo is not known.
ChecksHold ==
    \A r \in Req : pc[r] \in Enrolling /\ student[r] \notin disturbed =>
        HasRoom(student[r]) /\ ~Known(student[r], Current(r))

\* An enrolled photo is there until the call reports it.
EnrolledIsThere ==
    \A r \in Req : pc[r] = "committed" /\ student[r] \notin disturbed =>
        held[r] \subseteq PhotosOf(student[r])

\* A deletion or an erasure holds photos of its student, an erasure all of them.
DeletesOwn ==
    \A r \in Req : pc[r] \in {"deleting", "erasing"} =>
        \A i \in held[r] \cap Stored : photos[i].student = student[r]

ErasesAll ==
    \A r \in Req : student[r] \notin disturbed =>
        /\ pc[r] = "erasing" => PhotosOf(student[r]) \subseteq held[r]
        /\ pc[r] = "erased" => PhotosOf(student[r]) = {}

\* A file without a row is held by a call that has saved or will delete it.
FilesAreHeld ==
    \A st \in Student \ disturbed : \A i \in FilesOf(st) \ PhotosOf(st) :
        \E r \in Req : /\ student[r] = st /\ i \in held[r]
                       /\ pc[r] \in {"saved", "flushed", "deleted", "erased"}

\* The cap holds for students whose calls do not overlap.
CapHolds ==
    \A st \in Student \ disturbed : Cardinality(PhotosOf(st)) <= MaxPhotos

CalmInv ==
    /\ IsFiniteSet(Stored)
    /\ Alone
    /\ ChecksHold
    /\ EnrolledIsThere
    /\ DeletesOwn
    /\ ErasesAll
    /\ FilesAreHeld
    /\ EmbeddingsFitPhotos
    /\ CapHolds

\* A call goes on, or is over, and the tables do not change.
Moves(r) ==
    \/ pc'[r] = "idle"
    \/ /\ pc[r] # "idle" /\ student'[r] = student[r]
       /\ pc'[r] \in Enrolling =>
             /\ left'[r] = left[r]
             /\ pc[r] \in Enrolling \/ (HasRoom(student[r]) /\ ~Known(student[r], Current(r)))
       /\ pc'[r] \in {"deleting", "erasing", "erased", "committed"} =>
             pc'[r] = pc[r] /\ held'[r] = held[r]

LEMMA SameTables ==
  ASSUME UNCHANGED photos
  PROVE  /\ Stored' = Stored
         /\ \A st : PhotosOf(st)' = PhotosOf(st)
         /\ \A st : HasRoom(st)' = HasRoom(st)
         /\ \A st, hash : Known(st, hash)' = Known(st, hash)
BY DEF Stored, PhotosOf, HasRoom, Known

LEMMA MovesKeep ==
  ASSUME IInv, CalmInv, UNCHANGED <<photos, embedded>>, disturbed \subseteq disturbed',
         \A r \in Req : Moves(r), FilesAreHeld'
  PROVE  CalmInv'
<1> USE SameTables DEF CalmInv
<1>1. IsFiniteSet(Stored)'
  OBVIOUS
<1>2. Alone'
  BY DEF Alone, Moves
<1>3. ChecksHold'
  BY DEF ChecksHold, Moves, Current, Enrolling
<1>4. EnrolledIsThere'
  BY DEF EnrolledIsThere, Moves
<1>5. DeletesOwn'
  BY DEF DeletesOwn, Moves
<1>6. ErasesAll'
  BY DEF ErasesAll, Moves
<1>7. EmbeddingsFitPhotos'
  BY DEF EmbeddingsFitPhotos
<1>8. CapHolds'
  BY DEF CapHolds
<1> QED
  BY <1>1, <1>2, <1>3, <1>4, <1>5, <1>6, <1>7, <1>8

\* What a call that saves, has saved or deletes holds, it goes on to hold.
LEMMA FilesStayHeld ==
  ASSUME CalmInv, UNCHANGED <<photos, files>>, disturbed \subseteq disturbed',
         \A r \in Req : pc[r] \in {"saved", "flushed", "deleted", "erased"} =>
            \/ student[r] \in disturbed'
            \/ /\ pc'[r] \in {"saved", "flushed", "deleted", "erased"}
               /\ student'[r] = student[r] /\ held'[r] = held[r]
  PROVE  FilesAreHeld'
BY SameTables DEF CalmInv, FilesAreHeld, FilesOf

\* A call that holds no file without a row turns to its next file or ends.
LEMMA NextFileIsCalm ==
  ASSUME IInv, CalmInv, NEW r \in Req, pc[r] \in {"check", "detect", "committed"},
         NextFile(r), UNCHANGED <<active, photos, embedded, files, unacked>>
  PROVE  CalmInv'
<1>1. /\ pc'[r] \in {"idle", "check"} /\ disturbed' = disturbed
      /\ pc'[r] = "check" => student' = student
      /\ \A q \in Req \ {r} : /\ pc'[q] = pc[q] /\ student'[q] = student[q]
                              /\ left'[q] = left[q] /\ held'[q] = held[q]
  BY DEF IInv, TypeOK, NextFile, End, Leave
<1>2. \A q \in Req : Moves(q)
  BY <1>1 DEF Moves, Enrolling
<1>3. FilesAreHeld'
  BY <1>1, FilesStayHeld
<1> QED
  BY <1>1, <1>2, <1>3, MovesKeep

\* A call goes to its next stage.
LEMMA GotoIsCalm ==
  ASSUME IInv, CalmInv, NEW r \in Req, NEW stage, NEW ids, Goto(r, stage, ids),
         pc[r] # "idle", UNCHANGED <<photos, embedded>>,
         stage \in Enrolling,
         pc[r] \in Enrolling \/ (HasRoom(student[r]) /\ ~Known(student[r], Current(r))),
         FilesAreHeld'
  PROVE  CalmInv'
<1>1. \A q \in Req : Moves(q)
  BY DEF IInv, TypeOK, Goto, Moves, Enrolling
<1>2. disturbed \subseteq disturbed'
  BY DEF Goto
<1> QED
  BY <1>1, <1>2, MovesKeep

LEMMA CheckIsCalm ==
  ASSUME IInv, CalmInv, NEW r \in Req, Check(r)
  PROVE  CalmInv'
<1>1. CASE NextFile(r)
  BY <1>1, NextFileIsCalm DEF Check
<1>2. CASE ~NextFile(r)
  <2>1. /\ Goto(r, "detect", {}) /\ pc[r] = "check"
        /\ HasRoom(student[r]) /\ ~Known(student[r], Current(r))
        /\ UNCHANGED <<photos, embedded, files>>
    BY <1>2 DEF Check
  <2>2. FilesAreHeld'
    BY <2>1, FilesStayHeld DEF Goto, IInv, TypeOK
  <2> QED
    BY <2>1, <2>2, GotoIsCalm DEF Enrolling
<1> QED
  BY <1>1, <1>2

LEMMA RefusePhotoIsCalm ==
  ASSUME IInv, CalmInv, NEW r \in Req, RefusePhoto(r)
  PROVE  CalmInv'
BY NextFileIsCalm DEF RefusePhoto

LEMMA SaveFileIsCalm ==
  ASSUME IInv, CalmInv, NEW r \in Req, NEW i \in Image, SaveFile(r, i)
  PROVE  CalmInv'
<1>1. /\ Goto(r, "saved", {i}) /\ pc[r] = "detect"
      /\ files' = [files EXCEPT ![i] = student[r]] /\ UNCHANGED <<photos, embedded>>
  BY DEF SaveFile
<1>2. /\ pc'[r] = "saved" /\ held'[r] = {i} /\ student' = student
      /\ disturbed' = disturbed
      /\ \A q \in Req \ {r} : pc'[q] = pc[q] /\ held'[q] = held[q]
      /\ files'[i] = student[r] /\ \A j \in Image \ {i} : files'[j] = files[j]
  BY <1>1 DEF Goto, IInv, TypeOK
<1>3. FilesAreHeld'
  <2> SUFFICES ASSUME NEW st \in Student \ disturbed, NEW j \in Image, files'[j] = st,
                      j \notin PhotosOf(st)
               PROVE  \E q \in Req : /\ student'[q] = st /\ j \in held'[q]
                                     /\ pc'[q] \in {"saved", "flushed", "deleted", "erased"}
    BY <1>1, <1>2, SameTables DEF FilesAreHeld, FilesOf
  <2>1. CASE j = i
    BY <1>2, <2>1
  <2>2. CASE j # i
    <3>1. PICK q \in Req : /\ student[q] = st /\ j \in held[q]
                           /\ pc[q] \in {"saved", "flushed", "deleted", "erased"}
      BY <1>2, <2>2 DEF CalmInv, FilesAreHeld, FilesOf
    <3>2. q # r
      BY <1>1, <3>1
    <3> QED
      BY <1>2, <3>1, <3>2
  <2> QED
    BY <2>1, <2>2
<1> QED
  BY <1>1, <1>3, GotoIsCalm DEF Enrolling

LEMMA FlushIsCalm ==
  ASSUME IInv, CalmInv, NEW r \in Req, Flush(r)
  PROVE  CalmInv'
<1>1. FilesAreHeld'
  BY FilesStayHeld DEF Flush, Goto, IInv, TypeOK
<1> QED
  BY <1>1, GotoIsCalm DEF Flush, Enrolling

\* A call ends, or is cut off, after its files.
LEMMA LeaveIsCalm ==
  ASSUME IInv, CalmInv, NEW r \in Req, Leave(r), UNCHANGED <<photos, embedded>>,
         disturbed \subseteq disturbed',
         \A j \in Image : files'[j] = files[j] \/ files'[j] = NULL,
         \/ student[r] \in disturbed'
         \/ pc[r] \notin {"saved", "flushed", "deleted", "erased"}
         \/ \A j \in held[r] : files'[j] = NULL
  PROVE  CalmInv'
<1>1. /\ pc'[r] = "idle"
      /\ \A q \in Req \ {r} : /\ pc'[q] = pc[q] /\ student'[q] = student[q]
                              /\ left'[q] = left[q] /\ held'[q] = held[q]
  BY DEF IInv, TypeOK, Leave
<1>2. \A q \in Req : Moves(q)
  BY <1>1 DEF Moves, Enrolling
<1>3. FilesAreHeld'
  <2> SUFFICES ASSUME NEW st \in Student \ disturbed', NEW j \in Image, files'[j] = st,
                      j \notin PhotosOf(st)
               PROVE  \E q \in Req : /\ student'[q] = st /\ j \in held'[q]
                                     /\ pc'[q] \in {"saved", "flushed", "deleted", "erased"}
    BY <1>1, SameTables DEF FilesAreHeld, FilesOf
  <2>1. st # NULL /\ files[j] = st
    BY EnrollmentAssumption
  <2>2. PICK q \in Req : /\ student[q] = st /\ j \in held[q]
                         /\ pc[q] \in {"saved", "flushed", "deleted", "erased"}
    BY <2>1 DEF CalmInv, FilesAreHeld, FilesOf
  <2>3. q # r
    BY <2>1, <2>2
  <2> QED
    BY <1>1, <2>2, <2>3
<1> QED
  BY <1>1, <1>2, <1>3, MovesKeep

\* The unique index refuses no photo of a student whose calls do not overlap.
LEMMA ClashMeansOverlap ==
  ASSUME IInv, CalmInv, NEW r \in Req, pc[r] \in Enrolling, Clashes(r)
  PROVE  student[r] \in disturbed
<1>1. PICK i \in Stored : photos[i] = Inserting(r)
  BY DEF Clashes
<1>2. photos[i].student = student[r] /\ photos[i].hash = Current(r)
  BY <1>1 DEF Inserting
<1>3. Known(student[r], Current(r))
  BY <1>2 DEF Known, PhotosOf
<1> QED
  BY <1>3 DEF CalmInv, ChecksHold

LEMMA FlushRaisesIsCalm ==
  ASSUME IInv, CalmInv, NEW r \in Req, FlushRaises(r)
  PROVE  CalmInv'
<1>1. student[r] \in disturbed
  BY ClashMeansOverlap DEF FlushRaises, Enrolling
<1> QED
  BY <1>1, LeaveIsCalm DEF FlushRaises, End

LEMMA FaultIsCalm ==
  ASSUME IInv, CalmInv, NEW r \in Req, CommitRaises(r) \/ StatementRaises(r) \/ RemoveFilesStops(r)
  PROVE  CalmInv'
<1>1. \A j \in Image : files'[j] = files[j] \/ files'[j] = NULL
  BY DEF CommitRaises, StatementRaises, RemoveFilesStops, SomeRemoved, Removed,
     HandlerRemoves
<1>2. /\ Leave(r) /\ UNCHANGED <<photos, embedded>>
      /\ disturbed' = disturbed \cup {student[r]}
  BY DEF CommitRaises, StatementRaises, RemoveFilesStops, Fault
<1> QED
  BY <1>1, <1>2, LeaveIsCalm

\* A file that is half saved is one of a student that the fault disturbs.
LEMMA SaveRaisesIsCalm ==
  ASSUME IInv, CalmInv, NEW r \in Req, NEW i \in Image, SaveRaises(r, i)
  PROVE  CalmInv'
<1>1. /\ Leave(r) /\ UNCHANGED <<photos, embedded>>
      /\ disturbed' = disturbed \cup {student[r]}
      /\ files' = [files EXCEPT ![i] = student[r]]
      /\ pc[r] = "detect"
  BY DEF SaveRaises, Fault
<1>2. /\ pc'[r] = "idle"
      /\ \A q \in Req \ {r} : /\ pc'[q] = pc[q] /\ student'[q] = student[q]
                              /\ left'[q] = left[q] /\ held'[q] = held[q]
      /\ \A j \in Image : files'[j] = files[j] \/ files'[j] = student[r]
  BY <1>1 DEF IInv, TypeOK, Leave
<1>3. \A q \in Req : Moves(q)
  BY <1>2 DEF Moves, Enrolling
<1>4. FilesAreHeld'
  <2> SUFFICES ASSUME NEW st \in Student \ disturbed', NEW j \in Image, files'[j] = st,
                      j \notin PhotosOf(st)
               PROVE  \E q \in Req : /\ student'[q] = st /\ j \in held'[q]
                                     /\ pc'[q] \in {"saved", "flushed", "deleted", "erased"}
    BY <1>1, SameTables DEF FilesAreHeld, FilesOf
  <2>1. st # student[r] /\ files[j] = st
    BY <1>1, <1>2
  <2>2. PICK q \in Req : /\ student[q] = st /\ j \in held[q]
                         /\ pc[q] \in {"saved", "flushed", "deleted", "erased"}
    BY <1>1, <2>1 DEF CalmInv, FilesAreHeld, FilesOf
  <2> QED
    BY <1>2, <2>1, <2>2
<1> QED
  BY <1>1, <1>3, <1>4, MovesKeep

LEMMA ReportIsCalm ==
  ASSUME IInv, CalmInv, NEW r \in Req, Report(r)
  PROVE  CalmInv'
BY NextFileIsCalm DEF Report

LEMMA RefreshRaisesIsCalm ==
  ASSUME IInv, CalmInv, NEW r \in Req, RefreshRaises(r)
  PROVE  CalmInv'
BY LeaveIsCalm DEF RefreshRaises, End

LEMMA RemoveFilesIsCalm ==
  ASSUME IInv, CalmInv, NEW r \in Req, RemoveFiles(r)
  PROVE  CalmInv'
<1>1. /\ \A j \in Image : files'[j] = files[j] \/ files'[j] = NULL
      /\ \A j \in held[r] : files'[j] = NULL
  BY DEF RemoveFiles, Removed, IInv, TypeOK
<1> QED
  BY <1>1, LeaveIsCalm DEF RemoveFiles, End

LEMMA SetActiveIsCalm ==
  ASSUME IInv, CalmInv, NEW st \in Student, NEW flag \in BOOLEAN, SetActive(st, flag)
  PROVE  CalmInv'
<1>1. UNCHANGED <<photos, embedded, files, pc, student, left, held, disturbed>>
  BY DEF SetActive, callVars
<1>2. \A r \in Req : Moves(r)
  BY <1>1 DEF Moves, Enrolling
<1> QED
  BY <1>1, <1>2, FilesStayHeld, MovesKeep

LEMMA CrashIsCalm ==
  ASSUME IInv, CalmInv, Crash
  PROVE  CalmInv'
<1>1. /\ \A r \in Req : pc'[r] = "idle" /\ (pc[r] # "idle" => student[r] \in disturbed')
      /\ disturbed \subseteq disturbed' /\ UNCHANGED <<photos, embedded>>
  BY DEF Crash
<1>2. \A r \in Req : Moves(r)
  BY <1>1 DEF Moves
<1>3. \A j \in Image : files'[j] = files[j] \/ files'[j] = NULL
  BY DEF Crash, SomeRemoved
<1>4. FilesAreHeld'
  <2> SUFFICES ASSUME NEW st \in Student \ disturbed', NEW j \in Image, files'[j] = st,
                      j \notin PhotosOf(st)
               PROVE  FALSE
    BY <1>1, SameTables DEF FilesAreHeld, FilesOf
  <2>1. files[j] = st
    BY <1>3, EnrollmentAssumption
  <2>2. PICK q \in Req : student[q] = st /\ pc[q] # "idle"
    BY <1>1, <2>1 DEF CalmInv, FilesAreHeld, FilesOf
  <2> QED
    BY <1>1, <2>2
<1> QED
  BY <1>1, <1>2, <1>4, MovesKeep

\* A new call: the calls of its student it meets are disturbed with it.
LEMMA BeginIsCalm ==
  ASSUME IInv, CalmInv, NEW r \in Req, NEW st \in Student,
         NEW stage \in {"check", "deleting", "erasing"}, NEW uploads, NEW ids,
         Begin(r, st, stage, uploads, ids), UNCHANGED <<photos, embedded, files>>,
         stage # "check" => \A i \in ids \cap Stored : photos[i].student = st,
         stage = "erasing" => PhotosOf(st) \subseteq ids
  PROVE  CalmInv'
<1> USE DEF CalmInv
<1>1. /\ pc[r] = "idle" /\ pc'[r] = stage /\ student'[r] = st /\ held'[r] = ids
      /\ \A q \in Req \ {r} : /\ pc'[q] = pc[q] /\ student'[q] = student[q]
                              /\ left'[q] = left[q] /\ held'[q] = held[q]
  BY DEF IInv, TypeOK, Begin
<1>2. /\ disturbed \subseteq disturbed'
      /\ \A q \in Req : pc[q] # "idle" /\ student[q] = st => st \in disturbed'
  BY DEF Begin
<1>3. IsFiniteSet(Stored)'
  BY SameTables
<1>4. Alone'
  BY <1>1, <1>2 DEF Alone
<1>5. ChecksHold'
  BY <1>1, <1>2, SameTables DEF ChecksHold, Current, Enrolling
<1>6. EnrolledIsThere'
  BY <1>1, <1>2, SameTables DEF EnrolledIsThere
<1>7. DeletesOwn'
  BY <1>1, <1>2, SameTables DEF DeletesOwn
<1>8. ErasesAll'
  BY <1>1, <1>2, SameTables DEF ErasesAll
<1>9. FilesAreHeld'
  BY <1>1, <1>2, FilesStayHeld
<1>10. EmbeddingsFitPhotos' /\ CapHolds'
  BY <1>2, SameTables DEF EmbeddingsFitPhotos, CapHolds
<1> QED
  BY <1>3, <1>4, <1>5, <1>6, <1>7, <1>8, <1>9, <1>10

LEMMA NewCallIsCalm ==
  ASSUME IInv, CalmInv, NEW r \in Req,
         \/ \E st \in Student : \/ \E uploads \in Batches : Enroll(r, st, uploads)
                                \/ Erase(r, st)
         \/ \E i \in Image : Delete(r, i)
  PROVE  CalmInv'
<1>1. ASSUME NEW st \in Student, NEW uploads \in Batches, Enroll(r, st, uploads)
      PROVE  CalmInv'
  BY <1>1, BeginIsCalm DEF Enroll
<1>2. ASSUME NEW st \in Student, Erase(r, st)
      PROVE  CalmInv'
  <2>1. \A i \in PhotosOf(st) \cap Stored : photos[i].student = st
    BY DEF PhotosOf
  <2>2. Begin(r, st, "erasing", <<>>, PhotosOf(st)) /\ UNCHANGED <<photos, embedded, files>>
    BY <1>2 DEF Erase
  <2> QED
    BY <2>1, <2>2, BeginIsCalm
<1>3. ASSUME NEW i \in Image, Delete(r, i)
      PROVE  CalmInv'
  <2>1. photos[i].student \in Student
    BY <1>3 DEF Delete, Stored, IInv, TypeOK, Row
  <2>2. /\ Begin(r, photos[i].student, "deleting", <<>>, {i})
        /\ UNCHANGED <<photos, embedded, files>>
    BY <1>3 DEF Delete
  <2> QED
    BY <2>1, <2>2, BeginIsCalm
<1> QED
  BY <1>1, <1>2, <1>3

\* The row that a commit adds is one of its student.
LEMMA WrittenEffect ==
  ASSUME IInv, NEW r \in Req, pc[r] = "flushed", photos' = Written(r)
  PROVE  /\ Stored' = Stored \cup held[r]
         /\ \A i \in held[r] : photos'[i].student = student[r]
         /\ \A i \in Stored : photos'[i] = photos[i]
         /\ held[r] \cap Stored = {} /\ held[r] \subseteq Image
<1>1. Inserting(r) # NULL /\ Inserting(r).student = student[r]
  <2>1. student[r] \in Student /\ left[r] \in Seq(Photo) /\ left[r] # <<>>
    BY DEF IInv, Working, TypeOK, EnrollStages
  <2>2. Current(r) \in Photo
    BY <2>1, SequenceShrinks DEF Current
  <2>3. Inserting(r) \in Row
    BY <2>1, <2>2 DEF Inserting, Row
  <2> QED
    BY <2>3, EnrollmentAssumption DEF Inserting
<1>2. held[r] \subseteq Image /\ \A i \in held[r] : photos[i] = NULL
  BY DEF IInv, Owning, OwnsPhoto, TypeOK
<1>3. \A i \in Image : photos'[i] = IF i \in held[r] THEN Inserting(r) ELSE photos[i]
  BY DEF Written
<1> QED
  BY <1>1, <1>2, <1>3 DEF Stored, PhotosOf

\* A set with at most one element adds at most one.
LEMMA AtMostOne ==
  ASSUME NEW S, NEW T, IsFiniteSet(S), \A i, j \in T : i = j
  PROVE  /\ IsFiniteSet(S \cup T)
         /\ Cardinality(S \cup T) <= Cardinality(S) + 1
<1>0. Cardinality(S) \in Nat
  BY FS_CardinalityType
<1>1. CASE T = {}
  BY <1>0, <1>1
<1>2. CASE T # {}
  <2>1. PICK x \in T : TRUE
    BY <1>2
  <2>2. S \cup T = S \cup {x}
    BY <2>1
  <2> QED
    BY <1>0, <2>2, FS_AddElement
<1> QED
  BY <1>1, <1>2

\* A commit, acknowledged or not.
LEMMA CommitIsCalm ==
  ASSUME IInv, CalmInv, NEW r \in Req, CommitPhoto(r) \/ CommitUnacknowledged(r)
  PROVE  CalmInv'
<1> USE DEF CalmInv
<1> DEFINE st == student[r]
<1>1. /\ pc[r] = "flushed" /\ photos' = Written(r)
      /\ embedded' = embedded \cup held[r] /\ disturbed \subseteq disturbed'
      /\ \A q \in Req \ {r} : /\ pc'[q] = pc[q] /\ student'[q] = student[q]
                              /\ left'[q] = left[q] /\ held'[q] = held[q]
      /\ \A j \in Image : files'[j] = files[j] \/ files'[j] = NULL
  BY DEF CommitPhoto, CommitUnacknowledged, Goto, Fault, Leave, Removed, HandlerRemoves, IInv, TypeOK
<1>2. \/ pc'[r] = "committed" /\ student'[r] = st /\ held'[r] = held[r]
      \/ pc'[r] = "idle" /\ st \in disturbed'
  BY DEF CommitPhoto, CommitUnacknowledged, Goto, Fault, Leave, IInv, TypeOK
<1>3. /\ Stored' = Stored \cup held[r]
      /\ \A i \in held[r] : photos'[i].student = st
      /\ \A i \in Stored : photos'[i] = photos[i]
      /\ held[r] \cap Stored = {} /\ held[r] \subseteq Image
  BY <1>1, WrittenEffect
<1>4. /\ \A i, j \in held[r] : i = j
      /\ \A q \in Req \ {r} : held[q] \cap held[r] = {}
  BY <1>1 DEF IInv, Owning, OwnsPhoto
<1>5. \A q \in Req \ {r} : pc[q] # "idle" /\ student[q] \notin disturbed' =>
          student[q] # st /\ student[q] \notin disturbed
  BY <1>1 DEF Alone
<1> HIDE DEF st
<1>6. /\ \A x : x # st => PhotosOf(x)' = PhotosOf(x)
      /\ PhotosOf(st) \subseteq Stored
      /\ \A x : x = st => PhotosOf(x)' = PhotosOf(x) \cup held[r]
  BY <1>3 DEF PhotosOf
<1>7. \A x : x # st => HasRoom(x)' = HasRoom(x)
  BY <1>6 DEF HasRoom
<1>8. \A x, hash : x # st => Known(x, hash)' = Known(x, hash)
  BY <1>3, <1>6 DEF Known, PhotosOf
<1>9. IsFiniteSet(Stored)'
  BY <1>3, <1>4, AtMostOne
<1>10. Alone'
  BY <1>1, <1>2, <1>5 DEF Alone, st
<1>11. ChecksHold'
  BY <1>1, <1>2, <1>5, <1>7, <1>8 DEF ChecksHold, Current, Enrolling
<1>12. EnrolledIsThere'
  BY <1>1, <1>2, <1>5, <1>6 DEF EnrolledIsThere
<1>13. DeletesOwn'
  BY <1>1, <1>2, <1>3, <1>4 DEF DeletesOwn
<1>14. ErasesAll'
  BY <1>1, <1>2, <1>5, <1>6 DEF ErasesAll
<1>15. FilesAreHeld'
  <2> SUFFICES ASSUME NEW x \in Student \ disturbed', NEW j \in Image, files'[j] = x,
                      j \notin PhotosOf(x)'
               PROVE  \E q \in Req : /\ student'[q] = x /\ j \in held'[q]
                                     /\ pc'[q] \in {"saved", "flushed", "deleted", "erased"}
    BY DEF FilesAreHeld, FilesOf
  <2>1. files[j] = x /\ j \notin PhotosOf(x)
    BY <1>1, <1>6, EnrollmentAssumption
  <2>2. PICK q \in Req : /\ student[q] = x /\ j \in held[q]
                         /\ pc[q] \in {"saved", "flushed", "deleted", "erased"}
    BY <1>1, <2>1 DEF FilesAreHeld, FilesOf
  <2>3. q # r
    BY <1>6, <2>2 DEF st
  <2> QED
    BY <1>1, <2>2, <2>3
<1>16. EmbeddingsFitPhotos'
  BY <1>1, <1>3, <1>6 DEF EmbeddingsFitPhotos
<1>17. CapHolds'
  <2> SUFFICES ASSUME NEW x \in Student \ disturbed'
               PROVE  Cardinality(PhotosOf(x)') <= MaxPhotos
    BY DEF CapHolds
  <2>1. CASE x # st
    BY <1>1, <1>6, <2>1 DEF CapHolds
  <2>2. CASE x = st
    <3>1. Cardinality(PhotosOf(x)) < MaxPhotos
      BY <1>1, <2>2 DEF ChecksHold, Enrolling, HasRoom, st
    <3>2. IsFiniteSet(PhotosOf(x))
      BY <1>6, <2>2, FS_Subset
    <3>3. Cardinality(PhotosOf(x)) \in Nat
      BY <3>2, FS_CardinalityType
    <3>4. Cardinality(PhotosOf(x) \cup held[r]) <= Cardinality(PhotosOf(x)) + 1
      BY <1>4, <3>2, <3>3, AtMostOne
    <3>5. IsFiniteSet(PhotosOf(x) \cup held[r])
      BY <1>4, <3>2, AtMostOne
    <3>6. Cardinality(PhotosOf(x) \cup held[r]) \in Nat
      BY <3>5, FS_CardinalityType
    <3> QED
      BY <1>6, <2>2, <3>1, <3>3, <3>4, <3>6, EnrollmentAssumption
  <2> QED
    BY <2>1, <2>2
<1> QED
  BY <1>9, <1>10, <1>11, <1>12, <1>13, <1>14, <1>15, <1>16, <1>17

\* The commit of a deletion or of an erasure, acknowledged or not.
LEMMA RemovalIsCalm ==
  ASSUME IInv, CalmInv, NEW r \in Req,
         CommitDelete(r) \/ CommitErase(r) \/ RemovalUnacknowledged(r)
  PROVE  CalmInv'
<1> USE DEF CalmInv
<1> DEFINE st == student[r]
<1>1. /\ photos' = Deleted(r)
      /\ embedded \ (held[r] \cup PhotosOf(st)) \subseteq embedded'
      /\ embedded' \subseteq embedded \ held[r]
      /\ UNCHANGED files /\ disturbed \subseteq disturbed'
      /\ \A q \in Req \ {r} : /\ pc'[q] = pc[q] /\ student'[q] = student[q]
                              /\ left'[q] = left[q] /\ held'[q] = held[q]
  BY DEF CommitDelete, CommitErase, RemovalUnacknowledged, Goto, Fault, Leave, IInv, TypeOK
<1>2. /\ \/ pc[r] = "deleting" /\ embedded' = embedded \ held[r]
         \/ pc[r] = "erasing"
      /\ \/ /\ student'[r] = st /\ left'[r] = left[r] /\ held'[r] = held[r]
            /\ \/ pc[r] = "deleting" /\ pc'[r] = "deleted"
               \/ pc[r] = "erasing" /\ pc'[r] = "erased"
         \/ pc'[r] = "idle" /\ st \in disturbed'
  BY DEF CommitDelete, CommitErase, RemovalUnacknowledged, Goto, Fault, Leave, IInv, TypeOK
<1>3. /\ Stored' = Stored \ held[r]
      /\ \A i \in Stored' : photos'[i] = photos[i]
  BY <1>1 DEF Stored, Deleted
<1>4. \A x : PhotosOf(x)' = PhotosOf(x) \ held[r]
  BY <1>3 DEF PhotosOf
<1>5. \A i \in held[r] \cap Stored : photos[i].student = st
  BY <1>2 DEF DeletesOwn
<1>6. pc[r] = "erasing" /\ st \notin disturbed => PhotosOf(st) \subseteq held[r]
  BY DEF ErasesAll
<1>7. \A q \in Req \ {r} : pc[q] # "idle" /\ student[q] \notin disturbed =>
          student[q] # st
  BY <1>2 DEF Alone
<1> HIDE DEF st
<1>8. \A x : /\ IsFiniteSet(PhotosOf(x))
             /\ Cardinality(PhotosOf(x)) \in Nat /\ Cardinality(PhotosOf(x)') \in Nat
             /\ Cardinality(PhotosOf(x)') <= Cardinality(PhotosOf(x))
  <2> TAKE x
  <2>1. PhotosOf(x) \subseteq Stored /\ PhotosOf(x)' \subseteq PhotosOf(x)
    BY <1>4 DEF PhotosOf
  <2>2. IsFiniteSet(PhotosOf(x))
    BY <2>1, FS_Subset
  <2>3. IsFiniteSet(PhotosOf(x)') /\ Cardinality(PhotosOf(x)') <= Cardinality(PhotosOf(x))
    BY <2>1, <2>2, FS_Subset
  <2> QED
    BY <2>2, <2>3, FS_CardinalityType
<1>9. IsFiniteSet(Stored)'
  BY <1>3, FS_Subset
<1>10. Alone'
  BY <1>1, <1>2 DEF Alone, st
<1>11. ChecksHold'
  <2>1. \A x : HasRoom(x) => HasRoom(x)'
    BY <1>8, EnrollmentAssumption DEF HasRoom
  <2>2. \A x, hash : Known(x, hash)' => Known(x, hash)
    BY <1>3, <1>4 DEF Known, PhotosOf
  <2> QED
    BY <1>1, <1>2, <2>1, <2>2 DEF ChecksHold, Current, Enrolling
<1>12. EnrolledIsThere'
  BY <1>1, <1>2, <1>4, <1>5, <1>7 DEF EnrolledIsThere, PhotosOf
<1>13. DeletesOwn'
  BY <1>1, <1>2, <1>3 DEF DeletesOwn
<1>14. ErasesAll'
  BY <1>1, <1>2, <1>4, <1>6 DEF ErasesAll, st
<1>15. FilesAreHeld'
  <2> SUFFICES ASSUME NEW x \in Student \ disturbed', NEW j \in Image, files[j] = x,
                      j \notin PhotosOf(x)'
               PROVE  \E q \in Req : /\ student'[q] = x /\ j \in held'[q]
                                     /\ pc'[q] \in {"saved", "flushed", "deleted", "erased"}
    BY <1>1 DEF FilesAreHeld, FilesOf
  <2>1. CASE j \in PhotosOf(x)
    <3>1. j \in held[r] /\ st = x
      BY <1>4, <1>5, <2>1 DEF PhotosOf
    <3> QED
      BY <1>2, <3>1 DEF st
  <2>2. CASE j \notin PhotosOf(x)
    <3>1. PICK q \in Req : /\ student[q] = x /\ j \in held[q]
                           /\ pc[q] \in {"saved", "flushed", "deleted", "erased"}
      BY <1>1, <2>2 DEF FilesAreHeld, FilesOf
    <3> QED
      BY <1>1, <1>2, <3>1
  <2> QED
    BY <2>1, <2>2
<1>16. EmbeddingsFitPhotos'
  <2>1. embedded' \subseteq Stored'
    BY <1>1, <1>3 DEF EmbeddingsFitPhotos
  <2>2. ASSUME NEW x \in Student \ disturbed', NEW i \in PhotosOf(x)'
        PROVE  i \in embedded'
    <3>1. i \in PhotosOf(x) /\ i \notin held[r] /\ i \in embedded
      BY <1>1, <1>4, <2>2 DEF EmbeddingsFitPhotos
    <3>2. i \in PhotosOf(st) => x = st
      BY <3>1 DEF PhotosOf
    <3> QED
      BY <1>1, <1>2, <1>6, <3>1, <3>2
  <2> QED
    BY <1>1, <2>1, <2>2 DEF EmbeddingsFitPhotos
<1>17. CapHolds'
  BY <1>1, <1>8, EnrollmentAssumption DEF CapHolds
<1> QED
  BY <1>9, <1>10, <1>11, <1>12, <1>13, <1>14, <1>15, <1>16, <1>17

LEMMA CalmStart == Init => CalmInv
<1> SUFFICES ASSUME Init PROVE CalmInv
  OBVIOUS
<1>1. Stored = {} /\ \A st \in Student : FilesOf(st) = {} /\ PhotosOf(st) = {}
  BY EnrollmentAssumption DEF Init, Stored, FilesOf, PhotosOf
<1>2. IsFiniteSet(Stored)
  BY <1>1, FS_EmptySet
<1>3. Alone /\ ChecksHold /\ EnrolledIsThere /\ DeletesOwn /\ ErasesAll
  BY DEF Init, Alone, ChecksHold, Enrolling, EnrolledIsThere, DeletesOwn, ErasesAll
<1>4. FilesAreHeld
  BY <1>1 DEF FilesAreHeld
<1>5. EmbeddingsFitPhotos
  BY <1>1 DEF Init, EmbeddingsFitPhotos
<1>6. CapHolds
  BY <1>1, FS_EmptySet, EnrollmentAssumption DEF CapHolds
<1> QED
  BY <1>2, <1>3, <1>4, <1>5, <1>6 DEF CalmInv

LEMMA CalmStep == IInv /\ CalmInv /\ [Next]_vars => CalmInv'
<1> SUFFICES ASSUME IInv, CalmInv, [Next]_vars
             PROVE  CalmInv'
  OBVIOUS
<1>1. ASSUME NEW r \in Req, CallStep(r)
      PROVE  CalmInv'
  BY <1>1, CheckIsCalm, RefusePhotoIsCalm, SaveFileIsCalm, FlushIsCalm,
     FlushRaisesIsCalm, CommitIsCalm, FaultIsCalm, ReportIsCalm,
     SaveRaisesIsCalm, RefreshRaisesIsCalm, RemovalIsCalm, RemoveFilesIsCalm DEF CallStep
<1>2. CASE UNCHANGED vars
  <2>1. \A r \in Req : Moves(r)
    BY <1>2 DEF Moves, vars, callVars, Enrolling
  <2> QED
    BY <1>2, <2>1, FilesStayHeld, MovesKeep DEF vars, callVars
<1> QED
  BY <1>1, <1>2, NewCallIsCalm, SetActiveIsCalm, CrashIsCalm DEF Next

LEMMA CalmInvariance == Spec => [](IInv /\ CalmInv)
  BY InitIsFine, StepKeeps, CalmStart, CalmStep, PTL DEF Spec

-----------------------------------------------------------------------------

\* The types of all the variables.
THEOREM EnrollmentTypes == Spec => []TypeOK
<1>1. IInv => TypeOK
  BY DEF IInv
<1> QED
  BY <1>1, Invariance, PTL

\* Every photo of the table has its file, under a key of its student, in every
\* interleaving of enrollments, deletions and erasures and after every fault
\* but a lost acknowledgement: enroll_face writes the file first, and
\* delete_face_image and erase_biometrics delete it last.
THEOREM FilesBackPhotos == Spec => []PhotosHaveFiles
<1>1. IInv => PhotosHaveFiles
  BY DEF IInv
<1> QED
  BY <1>1, Invariance, PTL

\* The unique index keeps a photo from being stored twice for a student, though
\* the check of enroll_face reads photos that are committed only.
THEOREM PhotosAreDistinct == Spec => []NoDuplicatePhoto
<1>1. IInv => NoDuplicatePhoto
  BY DEF IInv
<1> QED
  BY <1>1, Invariance, PTL

\* One photo, one embedding: no embedding outlives its photo, and a student whose
\* calls do not overlap has no photo without one.
THEOREM EmbeddingsFitHolds == Spec => []EmbeddingsFitPhotos
<1>1. CalmInv => EmbeddingsFitPhotos
  BY DEF CalmInv
<1> QED
  BY <1>1, CalmInvariance, PTL

\* The check of the cap is enough for a student whose calls do not overlap.
THEOREM CapHoldsAlways == Spec => []CapHolds
<1>1. CalmInv => CapHolds
  BY DEF CalmInv
<1> QED
  BY <1>1, CalmInvariance, PTL

\* A batch ends after its last file only, and a file it has saved is enrolled,
\* but for overlapping calls and faults.
THEOREM BatchGoesOnHolds == Spec => BatchGoesOn
<1>1. IInv /\ CalmInv /\ [Next]_vars =>
        [\A r \in Req :
            pc[r] \in {"saved", "flushed", "committed"} /\ pc'[r] = "idle" =>
                \/ student[r] \in disturbed'
                \/ Len(left[r]) = 1 /\ held[r] \subseteq Stored]_vars
  <2> SUFFICES ASSUME IInv, CalmInv, Next, NEW r \in Req,
                      pc[r] \in {"saved", "flushed", "committed"}, pc'[r] = "idle",
                      student[r] \notin disturbed'
               PROVE  Len(left[r]) = 1 /\ held[r] \subseteq Stored
    OBVIOUS
  <2>1. ~Crash
    BY DEF Crash
  <2>2. ASSUME NEW q \in Req, q # r, CallStep(q) PROVE FALSE
    BY <2>2 DEF CallStep, Check, RefusePhoto, SaveFile, Flush, FlushRaises,
       CommitPhoto, CommitRaises, CommitUnacknowledged, Report, RefreshRaises,
       CommitDelete, CommitErase, RemoveFiles, StatementRaises, SaveRaises,
       RemovalUnacknowledged, RemoveFilesStops, Goto, NextFile, End, Leave, Fault, IInv, TypeOK
  <2>3. ASSUME NEW q \in Req,
               \/ \E st \in Student : \/ \E uploads \in Batches : Enroll(q, st, uploads)
                                      \/ Erase(q, st)
               \/ \E i \in Image : Delete(q, i)
        PROVE  FALSE
    BY <2>3 DEF Enroll, Erase, Delete, Begin, IInv, TypeOK
  <2>4. ASSUME NEW st \in Student, NEW flag \in BOOLEAN, SetActive(st, flag)
        PROVE  FALSE
    BY <2>4 DEF SetActive, callVars
  <2>5. CallStep(r)
    BY <2>1, <2>2, <2>3, <2>4 DEF Next
  <2>6. /\ ~StatementRaises(r) /\ ~CommitRaises(r) /\ ~CommitUnacknowledged(r)
        /\ ~RemovalUnacknowledged(r) /\ ~RemoveFilesStops(r)
        /\ \A i \in Image : ~SaveRaises(r, i)
    BY DEF StatementRaises, CommitRaises, CommitUnacknowledged, RemovalUnacknowledged,
       RemoveFilesStops, SaveRaises, Fault
  <2>7. ~FlushRaises(r)
    BY ClashMeansOverlap DEF FlushRaises, End, Enrolling
  <2>8. ~RefreshRaises(r)
    BY DEF RefreshRaises, End, CalmInv, EnrolledIsThere, PhotosOf
  <2>9. Report(r)
    BY <2>5, <2>6, <2>7, <2>8 DEF CallStep, Check, RefusePhoto, SaveFile, Flush,
       CommitPhoto, CommitDelete, CommitErase, RemoveFiles, Goto, IInv, TypeOK
  <2> QED
    BY <2>9 DEF Report, NextFile, IInv, TypeOK
<1> QED
  BY <1>1, CalmInvariance, PTL DEF Spec, BatchGoesOn

\* An erasure that overlaps nothing leaves no row, no embedding and no file.
THEOREM ErasureIsCompleteHolds == Spec => ErasureIsComplete
<1>1. IInv /\ CalmInv /\ [Next]_vars =>
        [\A r \in Req, st \in Student :
            ErasureEnds(r, st) /\ st \notin disturbed' =>
                PhotosOf(st)' = {} /\ FilesOf(st)' = {}]_vars
  <2> SUFFICES ASSUME IInv, CalmInv, Next, NEW r \in Req, NEW st \in Student,
                      pc[r] = "erased", student[r] = st, pc'[r] = "idle",
                      st \notin disturbed'
               PROVE  PhotosOf(st)' = {} /\ FilesOf(st)' = {}
    BY DEF ErasureEnds
  <2>1. ~Crash
    BY DEF Crash
  <2>2. ASSUME NEW q \in Req, q # r, CallStep(q) PROVE FALSE
    BY <2>2 DEF CallStep, Check, RefusePhoto, SaveFile, Flush, FlushRaises,
       CommitPhoto, CommitRaises, CommitUnacknowledged, Report, RefreshRaises,
       CommitDelete, CommitErase, RemoveFiles, StatementRaises, SaveRaises,
       RemovalUnacknowledged, RemoveFilesStops, Goto, NextFile, End, Leave, Fault, IInv, TypeOK
  <2>3. ASSUME NEW q \in Req,
               \/ \E x \in Student : \/ \E uploads \in Batches : Enroll(q, x, uploads)
                                     \/ Erase(q, x)
               \/ \E i \in Image : Delete(q, i)
        PROVE  FALSE
    BY <2>3 DEF Enroll, Erase, Delete, Begin, IInv, TypeOK
  <2>4. ASSUME NEW x \in Student, NEW flag \in BOOLEAN, SetActive(x, flag)
        PROVE  FALSE
    BY <2>4 DEF SetActive, callVars
  <2>5. CallStep(r)
    BY <2>1, <2>2, <2>3, <2>4 DEF Next
  <2>6. RemoveFiles(r)
    BY <2>5 DEF CallStep, Check, RefusePhoto, SaveFile, Flush, FlushRaises,
       CommitPhoto, CommitRaises, CommitUnacknowledged, Report, RefreshRaises,
       CommitDelete, CommitErase, StatementRaises, SaveRaises, RemovalUnacknowledged,
       RemoveFilesStops, Fault
  <2>7. st \notin disturbed /\ UNCHANGED photos
    BY <2>6 DEF RemoveFiles, End
  <2>8. PhotosOf(st) = {} /\ PhotosOf(st)' = {}
    BY <2>7, SameTables DEF CalmInv, ErasesAll
  <2>9. ASSUME NEW i \in Image, files'[i] = st PROVE FALSE
    <3>1. files[i] = st /\ i \notin held[r]
      BY <2>6, <2>9, EnrollmentAssumption DEF RemoveFiles, Removed
    <3>2. PICK q \in Req : /\ student[q] = st /\ i \in held[q]
                           /\ pc[q] \in {"saved", "flushed", "deleted", "erased"}
      BY <2>7, <2>8, <3>1 DEF CalmInv, FilesAreHeld, FilesOf
    <3>3. q = r
      BY <2>7, <3>2 DEF CalmInv, Alone
    <3> QED
      BY <3>1, <3>2, <3>3
  <2> QED
    BY <2>8, <2>9 DEF FilesOf
<1> QED
  BY <1>1, CalmInvariance, PTL DEF Spec, ErasureIsComplete

-----------------------------------------------------------------------------
(* What overlapping calls can do to the cap.                               *)

\* A step leaves a student's photos and pending enrollments, or lets one of these
\* commit its photo, or finds room for another.
LEMMA CapMoves ==
  ASSUME IInv, [Next]_vars, NEW st \in Student
  PROVE  \/ PhotosOf(st)' \subseteq PhotosOf(st) /\ PastCheck(st)' \subseteq PastCheck(st)
         \/ HasRoom(st) /\ PhotosOf(st)' = PhotosOf(st)
         \/ \E r \in PastCheck(st) :
               /\ \A i, j \in held[r] : i = j
               /\ PhotosOf(st)' \subseteq PhotosOf(st) \cup held[r]
               /\ PastCheck(st)' \subseteq PastCheck(st) \ {r}
<1> DEFINE Goal == \/ PhotosOf(st)' \subseteq PhotosOf(st)
                      /\ PastCheck(st)' \subseteq PastCheck(st)
                   \/ HasRoom(st) /\ PhotosOf(st)' = PhotosOf(st)
                   \/ \E r \in PastCheck(st) :
                         /\ \A i, j \in held[r] : i = j
                         /\ PhotosOf(st)' \subseteq PhotosOf(st) \cup held[r]
                         /\ PastCheck(st)' \subseteq PastCheck(st) \ {r}
<1>0. TypeOK
  BY DEF IInv
<1>1. CASE UNCHANGED vars
  BY <1>1, SameTables DEF vars, callVars, PastCheck
<1>2. ASSUME NEW r \in Req, NEW x \in Student,
             Erase(r, x) \/ \E uploads \in Batches : Enroll(r, x, uploads)
      PROVE  Goal
  <2>1. photos' = photos /\ pc[r] = "idle" /\ pc'[r] \in {"check", "erasing"}
        /\ \A q \in Req \ {r} : pc'[q] = pc[q] /\ student'[q] = student[q]
    BY <1>0, <1>2 DEF Erase, Enroll, Begin, TypeOK
  <2> QED
    BY <2>1, SameTables DEF PastCheck
<1>3. ASSUME NEW r \in Req, NEW i \in Image, Delete(r, i)
      PROVE  Goal
  <2>1. photos' = photos /\ pc[r] = "idle" /\ pc'[r] = "deleting"
        /\ \A q \in Req \ {r} : pc'[q] = pc[q] /\ student'[q] = student[q]
    BY <1>0, <1>3 DEF Delete, Begin, TypeOK
  <2> QED
    BY <2>1, SameTables DEF PastCheck
<1>4. ASSUME NEW x \in Student, NEW flag \in BOOLEAN, SetActive(x, flag)
      PROVE  Goal
  BY <1>4, SameTables DEF SetActive, callVars, PastCheck
<1>5. CASE Crash
  BY <1>5, SameTables DEF Crash, PastCheck
<1>6. ASSUME NEW r \in Req, CallStep(r)
      PROVE  Goal
  <2>0. \A q \in Req \ {r} : pc'[q] = pc[q] /\ student'[q] = student[q]
    BY <1>0, <1>6 DEF CallStep, Check, RefusePhoto, SaveFile, Flush, FlushRaises,
       CommitPhoto, CommitRaises, CommitUnacknowledged, Report, RefreshRaises,
       CommitDelete, CommitErase, RemoveFiles, StatementRaises, SaveRaises,
       RemovalUnacknowledged, RemoveFilesStops, Goto, NextFile, End, Leave, Fault, TypeOK
  <2>1. CASE Check(r)
    <3>1. photos' = photos /\ pc[r] = "check" /\ student'[r] \in {student[r], NULL}
      BY <1>0, <2>1 DEF Check, Goto, NextFile, End, Leave, TypeOK
    <3>2. pc'[r] = "detect" => HasRoom(student[r]) /\ student'[r] = student[r]
      BY <1>0, <2>1 DEF Check, Goto, NextFile, End, Leave, TypeOK
    <3>3. pc'[r] \in {"detect", "check", "idle"}
      BY <1>0, <2>1 DEF Check, Goto, NextFile, End, Leave, TypeOK
    <3>4. CASE pc'[r] = "detect" /\ student[r] = st
      BY <3>1, <3>2, <3>4, SameTables
    <3>5. CASE ~(pc'[r] = "detect" /\ student[r] = st)
      BY <2>0, <3>1, <3>2, <3>3, <3>5, SameTables DEF PastCheck
    <3> QED
      BY <3>4, <3>5
  <2>2. CASE \/ RefusePhoto(r) \/ FlushRaises(r) \/ Report(r) \/ RefreshRaises(r)
             \/ RemoveFiles(r) \/ StatementRaises(r) \/ CommitRaises(r)
             \/ RemoveFilesStops(r) \/ \E i \in Image : SaveRaises(r, i)
    <3>1. photos' = photos /\ pc'[r] \in {"check", "idle"}
      BY <1>0, <2>2 DEF RefusePhoto, FlushRaises, Report, RefreshRaises, RemoveFiles,
         StatementRaises, CommitRaises, RemoveFilesStops, SaveRaises, NextFile, End,
         Leave, Fault, TypeOK
    <3> QED
      BY <2>0, <3>1, SameTables DEF PastCheck
  <2>3. CASE Flush(r) \/ \E i \in Image : SaveFile(r, i)
    <3>1. /\ photos' = photos /\ pc[r] \in {"detect", "saved"}
          /\ student'[r] = student[r]
      BY <2>3 DEF Flush, SaveFile, Goto
    <3> QED
      BY <2>0, <3>1, SameTables DEF PastCheck
  <2>4. CASE CommitPhoto(r) \/ CommitUnacknowledged(r)
    <3>1. /\ pc[r] = "flushed" /\ photos' = Written(r)
          /\ pc'[r] \in {"committed", "idle"}
      BY <1>0, <2>4 DEF CommitPhoto, CommitUnacknowledged, Goto, Fault, Leave, TypeOK
    <3>2. /\ Stored' = Stored \cup held[r]
          /\ \A i \in held[r] : photos'[i].student = student[r]
          /\ \A i \in Stored : photos'[i] = photos[i]
      BY <3>1, WrittenEffect
    <3>3. \A i, j \in held[r] : i = j
      BY <3>1 DEF IInv, Owning, OwnsPhoto
    <3>4. CASE student[r] = st
      <4>1. r \in PastCheck(st) /\ PastCheck(st)' \subseteq PastCheck(st) \ {r}
        BY <2>0, <3>1, <3>4 DEF PastCheck
      <4>2. PhotosOf(st)' \subseteq PhotosOf(st) \cup held[r]
        BY <3>2 DEF PhotosOf
      <4> QED
        BY <3>3, <4>1, <4>2
    <3>5. CASE student[r] # st
      BY <2>0, <3>1, <3>2, <3>5 DEF PhotosOf, PastCheck
    <3> QED
      BY <3>4, <3>5
  <2>5. CASE CommitDelete(r) \/ CommitErase(r) \/ RemovalUnacknowledged(r)
    <3>1. photos' = Deleted(r) /\ pc'[r] \in {"deleted", "erased", "idle"}
      BY <1>0, <2>5 DEF CommitDelete, CommitErase, RemovalUnacknowledged, Goto, Fault,
         Leave, TypeOK
    <3> QED
      BY <2>0, <3>1 DEF Deleted, PhotosOf, Stored, PastCheck
  <2> QED
    BY <1>6, <2>1, <2>2, <2>3, <2>4, <2>5 DEF CallStep
<1> QED
  BY <1>1, <1>2, <1>3, <1>4, <1>5, <1>6 DEF Next

\* The bound is inductive with what is known of calls and photos.
LEMMA CapBoundKeeps ==
  ASSUME IsFiniteSet(Req), IInv, CalmInv, OverlapsBoundTheCap, [Next]_vars
  PROVE  OverlapsBoundTheCap'
<1> SUFFICES ASSUME NEW st \in Student
             PROVE  Cardinality(PhotosOf(st)') + Cardinality(PastCheck(st)')
                      < MaxPhotos + Cardinality(Req)
  BY DEF OverlapsBoundTheCap
<1> DEFINE P == PhotosOf(st)
           C == PastCheck(st)
           P2 == PhotosOf(st)'
           C2 == PastCheck(st)'
<1>1. IsFiniteSet(P) /\ IsFiniteSet(P2)
  <2>1. P \subseteq Stored /\ P2 \subseteq Stored'
    BY DEF PhotosOf
  <2>2. IsFiniteSet(Stored) /\ IsFiniteSet(Stored')
    BY CalmStep DEF CalmInv
  <2> QED
    BY <2>1, <2>2, FS_Subset
<1>2. /\ C \subseteq Req /\ C2 \subseteq Req
      /\ IsFiniteSet(C) /\ IsFiniteSet(C2)
      /\ Cardinality(C) <= Cardinality(Req) /\ Cardinality(C2) <= Cardinality(Req)
  <2>1. C \subseteq Req /\ C2 \subseteq Req
    BY DEF PastCheck
  <2> QED
    BY <2>1, FS_Subset
<1>3. /\ Cardinality(P) \in Nat /\ Cardinality(P2) \in Nat
      /\ Cardinality(C) \in Nat /\ Cardinality(C2) \in Nat
      /\ Cardinality(Req) \in Nat /\ MaxPhotos \in Nat
  BY <1>1, <1>2, FS_CardinalityType, EnrollmentAssumption
<1>4. Cardinality(P) + Cardinality(C) < MaxPhotos + Cardinality(Req)
  BY DEF OverlapsBoundTheCap
<1>5. \/ P2 \subseteq P /\ C2 \subseteq C
      \/ HasRoom(st) /\ P2 = P
      \/ \E r \in C : /\ \A i, j \in held[r] : i = j
                      /\ P2 \subseteq P \cup held[r]
                      /\ C2 \subseteq C \ {r}
  BY CapMoves
<1>6. HasRoom(st) => Cardinality(P) < MaxPhotos
  BY DEF HasRoom
<1> HIDE DEF P, C, P2, C2
<1>7. CASE P2 \subseteq P /\ C2 \subseteq C
  <2>1. Cardinality(P2) <= Cardinality(P) /\ Cardinality(C2) <= Cardinality(C)
    BY <1>1, <1>2, <1>7, FS_Subset
  <2> QED
    BY <1>3, <1>4, <2>1 DEF P2, C2
<1>8. CASE HasRoom(st) /\ P2 = P
  BY <1>2, <1>3, <1>6, <1>8 DEF P2, C2
<1>9. ASSUME NEW r \in C, \A i, j \in held[r] : i = j, P2 \subseteq P \cup held[r],
             C2 \subseteq C \ {r}
      PROVE  Cardinality(P2) + Cardinality(C2) < MaxPhotos + Cardinality(Req)
  <2>1. /\ IsFiniteSet(P \cup held[r])
        /\ Cardinality(P \cup held[r]) <= Cardinality(P) + 1
    BY <1>1, <1>9, AtMostOne
  <2>2. Cardinality(P2) <= Cardinality(P \cup held[r]) /\ Cardinality(P \cup held[r]) \in Nat
    BY <1>9, <2>1, FS_Subset, FS_CardinalityType
  <2>3. IsFiniteSet(C \ {r}) /\ Cardinality(C \ {r}) = Cardinality(C) - 1
    BY <1>2, <1>9, FS_RemoveElement
  <2>4. Cardinality(C2) <= Cardinality(C \ {r})
    BY <1>9, <2>3, FS_Subset
  <2> QED
    BY <1>3, <1>4, <2>1, <2>2, <2>3, <2>4
<1> QED
  BY <1>5, <1>7, <1>8, <1>9 DEF P2, C2

\* With n calls at a time a student has fewer than MAX_ENROLLMENT_PHOTOS + n
\* photos, counting those under way: the race of enroll_face is bounded.
THEOREM OverlapsBoundTheCapHolds ==
  ASSUME IsFiniteSet(Req), Req # {}
  PROVE  Spec => []OverlapsBoundTheCap
<1>1. Init => OverlapsBoundTheCap
  <2> SUFFICES ASSUME Init, NEW st \in Student
               PROVE  Cardinality(PhotosOf(st)) + Cardinality(PastCheck(st))
                        < MaxPhotos + Cardinality(Req)
    BY DEF OverlapsBoundTheCap
  <2>1. PhotosOf(st) = {} /\ PastCheck(st) = {}
    BY DEF Init, PhotosOf, Stored, PastCheck
  <2>2. Cardinality(Req) \in Nat /\ Cardinality(Req) # 0
    BY FS_CardinalityType, FS_EmptySet
  <2> QED
    BY <2>1, <2>2, FS_EmptySet, EnrollmentAssumption
<1>2. IInv /\ CalmInv /\ OverlapsBoundTheCap /\ [Next]_vars => OverlapsBoundTheCap'
  BY CapBoundKeeps
<1> QED
  BY <1>1, <1>2, CalmInvariance, PTL DEF Spec

\* "Don't leave orphaned files" (enroll_face): of a student whose calls do not
\* overlap, every file without a row is in the hands of a call that has just
\* saved it or is about to delete it.
THEOREM OrphansComeFromOverlaps == Spec => []FilesAreHeld
<1>1. CalmInv => FilesAreHeld
  BY DEF CalmInv
<1> QED
  BY <1>1, CalmInvariance, PTL
=============================================================================
