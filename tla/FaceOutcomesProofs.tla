------------------------- MODULE FaceOutcomesProofs -------------------------
(***************************************************************************)
(* Lemmas about classify_face and the closed form of the dedupe.           *)
(***************************************************************************)
EXTENDS FaceOutcomes, WellFoundedInduction, TLAPS

\* What classify_face returns is an outcome, and a matched one exactly when it
\* names a student of the roster, with a confidence.
LEMMA ClassifyType ==
    ASSUME NEW R \in SUBSET Student, NEW o \in OutcomesFor(R)
    PROVE  /\ o \in Outcome
           /\ o.status # "duplicate"
           /\ o.status = "matched" =>
                o.student_id \in R /\ o.confidence \in Similarity
           /\ o.status # "matched" => o.student_id = NULL
  <1>1. PICK good \in BOOLEAN, cand \in BestCandidates(R) : o = Classify(good, cand)
    BY DEF OutcomesFor
  <1>2. CASE ~good
    BY <1>1, <1>2 DEF Classify, NoMatch, Outcome, MatchStatus
  <1>3. CASE good /\ cand # NULL /\ cand.similarity >= Threshold
    <2>1. cand \in [student_id : R, similarity : Similarity]
      BY <1>3 DEF BestCandidates
    <2>2. o = [status |-> "matched", student_id |-> cand.student_id,
               confidence |-> cand.similarity]
      BY <1>1, <1>3 DEF Classify
    <2>. QED  BY <2>1, <2>2 DEF Outcome, MatchStatus
  <1>4. CASE good /\ ~(cand # NULL /\ cand.similarity >= Threshold)
    BY <1>1, <1>4 DEF Classify, NoMatch, Outcome, MatchStatus
  <1>. QED  BY <1>2, <1>3, <1>4

\* Dedupe keeps the length of the list, the students and the confidences, and
\* turns some matched outcomes into duplicates.
LEMMA DedupeType ==
    ASSUME NEW n \in Nat, NEW R \in SUBSET Student,
           NEW outcomes \in [1 .. n -> OutcomesFor(R)], NEW f \in 1 .. n
    PROVE  /\ Dedupe(outcomes)[f] \in Outcome
           /\ Dedupe(outcomes)[f].student_id = outcomes[f].student_id
           /\ Dedupe(outcomes)[f].confidence = outcomes[f].confidence
           /\ Dedupe(outcomes)[f].status = "matched" <=>
                outcomes[f].status = "matched" /\ ~Beaten(outcomes, f)
  <1>1. outcomes[f] \in OutcomesFor(R)
    OBVIOUS
  <1>2. outcomes[f] \in Outcome
    BY <1>1, ClassifyType
  <1>3. Dedupe(outcomes)[f] =
          IF outcomes[f].status = "matched" /\ Beaten(outcomes, f)
          THEN [outcomes[f] EXCEPT !.status = "duplicate"]
          ELSE outcomes[f]
    BY DEF Dedupe
  <1>. QED  BY <1>2, <1>3 DEF Outcome, MatchStatus

\* A non-empty set of naturals has a least element.
LEMMA LeastNatural ==
    ASSUME NEW T \in SUBSET Nat, T # {}
    PROVE  \E x \in T : \A y \in T : x <= y
  <1>. DEFINE R == OpToRel(<, Nat)
  <1>1. PICK x \in T : \A y \in T : ~ (<<y, x>> \in R)
    <2>1. IsWellFoundedOn(R, Nat)
      BY NatLessThanWellFounded
    <2>. HIDE DEF R
    <2>. QED  BY <2>1, WFMin
  <1>2. \A y \in T : ~(y < x)
    BY <1>1 DEF OpToRel
  <1>. QED  BY <1>2

\* A student somebody was matched to keeps a matched face in the deduped list.
LEMMA UnbeatenExists ==
    ASSUME NEW n \in Nat, NEW R \in SUBSET Student,
           NEW outcomes \in [1 .. n -> OutcomesFor(R)],
           NEW st \in Student, NEW i \in 1 .. n, outcomes[i].student_id = st
    PROVE  \E f \in 1 .. n : /\ outcomes[f].status = "matched"
                             /\ outcomes[f].student_id = st
                             /\ ~Beaten(outcomes, f)
  <1>. DEFINE Seen == {j \in 1 .. n : outcomes[j].student_id = st}
  <1>1. PICK top \in Nat : \A x \in Similarity : x <= top
    BY MatcherAssumption
  <1>2. \A j \in Seen : /\ outcomes[j].status = "matched"
                        /\ outcomes[j].confidence \in Nat
                        /\ top - outcomes[j].confidence \in Nat
    <2>. SUFFICES ASSUME NEW j \in Seen
                  PROVE  /\ outcomes[j].status = "matched"
                         /\ outcomes[j].confidence \in Nat
                         /\ top - outcomes[j].confidence \in Nat
      OBVIOUS
    <2>1. outcomes[j] \in OutcomesFor(R) /\ outcomes[j].student_id # NULL
      BY MatcherAssumption
    <2>2. outcomes[j].status = "matched" /\ outcomes[j].confidence \in Similarity
      BY <2>1, ClassifyType
    <2>3. outcomes[j].confidence \in Nat /\ outcomes[j].confidence <= top
      BY <1>1, <2>2, MatcherAssumption
    <2>4. \A x, y \in Nat : x <= y => y - x \in Nat
      OBVIOUS
    <2>. QED  BY <1>1, <2>2, <2>3, <2>4
  \* the faces of the student with the highest confidence
  <1>3. PICK g \in Seen : \A j \in Seen :
               outcomes[j].confidence <= outcomes[g].confidence
    <2>. DEFINE T == {top - outcomes[j].confidence : j \in Seen}
    <2>1. T \in SUBSET Nat /\ T # {}
      BY <1>2
    <2>2. PICK x \in T : \A y \in T : x <= y
      <3>. HIDE DEF T
      <3>. QED  BY <2>1, LeastNatural
    <2>3. PICK g \in Seen : x = top - outcomes[g].confidence
      BY <2>2
    <2>4. \A j \in Seen : top - outcomes[g].confidence <= top - outcomes[j].confidence
      BY <2>2, <2>3
    <2>5. \A a, b \in Nat : top - a <= top - b => b <= a
      OBVIOUS
    <2>. HIDE DEF Seen
    <2>. QED  BY <1>2, <2>3, <2>4, <2>5
  \* and the first of them
  <1>. DEFINE Top == {j \in Seen : outcomes[j].confidence = outcomes[g].confidence}
  <1>4. PICK f \in Top : \A j \in Top : f <= j
    <2>1. Top \in SUBSET Nat /\ Top # {}
      BY <1>3
    <2>. HIDE DEF Top
    <2>. QED  BY <2>1, LeastNatural
  <1>5. ~Beaten(outcomes, f)
    <2>. SUFFICES ASSUME NEW j \in DOMAIN outcomes,
                         outcomes[j].student_id = outcomes[f].student_id,
                         \/ outcomes[j].confidence > outcomes[f].confidence
                         \/ outcomes[j].confidence = outcomes[f].confidence /\ j < f
                  PROVE  FALSE
      BY DEF Beaten
    <2>1. j \in Seen /\ f \in Seen
      BY <1>4
    <2>2. outcomes[j].confidence <= outcomes[f].confidence
      BY <1>2, <1>3, <1>4, <2>1
    <2>3. j \in Top /\ j < f
      BY <1>2, <1>4, <2>1, <2>2
    <2>. QED  BY <1>4, <2>1, <2>3
  <1>. QED  BY <1>2, <1>4, <1>5
=============================================================================
