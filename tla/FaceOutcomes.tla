---------------------------- MODULE FaceOutcomes ----------------------------
(***************************************************************************)
(* The pure matching logic of services/face/matcher.py: what one detected  *)
(* face is classified as, and what the cross-image dedupe leaves of the    *)
(* outcomes of all the faces of a session.                                 *)
(*                                                                         *)
(* The detector score is abstracted to its comparison with                 *)
(* MIN_SESSION_DET_SCORE and a cosine similarity to a small natural: only  *)
(* the order of similarities and their comparison with the threshold       *)
(* matter.  The candidates are the answer of the gallery query, best       *)
(* first; the runners-up are kept for the interface only.                  *)
(***************************************************************************)
EXTENDS Naturals

CONSTANTS
    Student,        \* students known to the system
    Similarity,     \* levels of similarity the gallery query can answer
    Threshold,      \* FACE_MATCH_THRESHOLD, one of these levels
    NULL            \* Python's None

ASSUME MatcherAssumption ==
    /\ Similarity \subseteq Nat
    /\ \E top \in Similarity \cup {0} : \A x \in Similarity : x <= top   \* a cosine
    /\ Threshold \in Nat
    /\ NULL \notin Student
    /\ NULL \notin Nat

MatchStatus == {"matched", "duplicate", "unknown", "low_quality"}

\* FaceOutcome: student_id and confidence are set for matched faces only
\* (dedupe turns some of them into duplicates and leaves both in place).
Outcome == [status     : MatchStatus,
            student_id : Student \cup {NULL},
            confidence : Similarity \cup {NULL}]

NoMatch(status) == [status |-> status, student_id |-> NULL, confidence |-> NULL]

\* The best candidate of a face among the students of a roster; NULL when the
\* roster is empty or none of its students has an embedding.
BestCandidates(roster) ==
    [student_id : roster, similarity : Similarity] \cup {NULL}

\* classify_face: goodScore is det_score >= MIN_SESSION_DET_SCORE.
Classify(goodScore, best) ==
    IF ~goodScore THEN NoMatch("low_quality")
    ELSE IF best # NULL /\ best.similarity >= Threshold
         THEN [status |-> "matched", student_id |-> best.student_id,
               confidence |-> best.similarity]
         ELSE NoMatch("unknown")

\* Every outcome the pipeline can compute for one face given a roster.
OutcomesFor(roster) ==
    {Classify(good, best) : good \in BOOLEAN, best \in BestCandidates(roster)}

Beaten_ByLower(outcomes, i) ==
    \E j \in DOMAIN outcomes :
        /\ outcomes[j].status = "matched"
        /\ outcomes[j].student_id = outcomes[i].student_id
        /\ outcomes[j].confidence < outcomes[i].confidence

\* Outcome i is not the one its student keeps: another matched outcome of the
\* same student has a higher confidence, or the same one and comes first (the
\* loop replaces its choice only on a strictly greater confidence).
Beaten(outcomes, i) ==
    \E j \in DOMAIN outcomes :
        /\ outcomes[j].status = "matched"
        /\ outcomes[j].student_id = outcomes[i].student_id
        /\ \/ outcomes[j].confidence > outcomes[i].confidence
           \/ outcomes[j].confidence = outcomes[i].confidence /\ j < i

\* dedupe_across_images as a function of the whole list.  The loop itself is
\* the module DedupeOutcomes.
Dedupe(outcomes) ==
    [i \in DOMAIN outcomes |->
        IF outcomes[i].status = "matched" /\ Beaten(outcomes, i)
        THEN [outcomes[i] EXCEPT !.status = "duplicate"]
        ELSE outcomes[i]]
=============================================================================
