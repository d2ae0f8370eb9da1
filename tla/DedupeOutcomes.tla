--------------------------- MODULE DedupeOutcomes ---------------------------
(***************************************************************************)
(* The loop of dedupe_across_images (services/face/matcher.py), one step   *)
(* per outcome of the list.  The loop changes the statuses in place and    *)
(* remembers, for each student, the outcome it currently keeps; an outcome *)
(* object is its position in the list here.                                *)
(***************************************************************************)
EXTENDS FaceOutcomes

CONSTANT Lengths    \* bound: lengths of the list

ASSUME LengthsAssumption == Lengths \subseteq Nat

VARIABLES
    input,      \* the list as classify_face made it (never read by the loop)
    outcomes,   \* the list the loop changes
    best,       \* best_by_student: [Student -> position or NULL]
    pos         \* the position the loop looks at next

vars == <<input, outcomes, best, pos>>

\* What classify_face makes: a matched outcome has a student and a confidence.
Classified == OutcomesFor(Student)

Init ==
    /\ \E n \in Lengths : input \in [1 .. n -> Classified]
    /\ outcomes = input
    /\ best = [st \in Student |-> NULL]
    /\ pos = 1

Running == pos \in DOMAIN outcomes

\* The loop skips faces nobody was matched to.
Skip ==
    /\ Running
    /\ outcomes[pos].status # "matched"
    /\ pos' = pos + 1
    /\ UNCHANGED <<input, outcomes, best>>

Matched == Running /\ outcomes[pos].status = "matched"
Current == best[outcomes[pos].student_id]

\* The first face of a student.
KeepFirst ==
    /\ Matched
    /\ Current = NULL
    /\ best' = [best EXCEPT ![outcomes[pos].student_id] = pos]
    /\ pos' = pos + 1
    /\ UNCHANGED <<input, outcomes>>

IsBetter_OrEqual == outcomes[pos].confidence >= outcomes[Current].confidence

IsBetter == outcomes[pos].confidence > outcomes[Current].confidence

Replace_KeepsCurrent ==
    /\ Matched
    /\ Current # NULL
    /\ IsBetter
    /\ best' = [best EXCEPT ![outcomes[pos].student_id] = pos]
    /\ pos' = pos + 1
    /\ UNCHANGED <<input, outcomes>>

\* A strictly more confident face takes over, and the one it replaces becomes
\* a duplicate.
Replace ==
    /\ Matched
    /\ Current # NULL
    /\ IsBetter
    /\ outcomes' = [outcomes EXCEPT ![Current].status = "duplicate"]
    /\ best' = [best EXCEPT ![outcomes[pos].student_id] = pos]
    /\ pos' = pos + 1
    /\ UNCHANGED input

\* Any other face of the student is a duplicate itself.
Demote ==
    /\ Matched
    /\ Current # NULL
    /\ ~IsBetter
    /\ outcomes' = [outcomes EXCEPT ![pos].status = "duplicate"]
    /\ pos' = pos + 1
    /\ UNCHANGED <<input, best>>

Next == Skip \/ KeepFirst \/ Replace \/ Demote

Spec == Init /\ [][Next]_vars

-----------------------------------------------------------------------------
\* When the loop ends, its list is the closed form of FaceOutcomes, which the
\* attendance model uses: every status is that of the whole list, in which a
\* student's most confident face stays matched, the first one of equals.
ComputesDedupe == ~Running => outcomes = Dedupe(input)

\* "A student appearing in several photos keeps exactly one MATCHED outcome
\* (highest confidence); the rest become DUPLICATE": one matched face for each
\* student seen, at least as confident as all the student's faces.
Sightings(st) == {i \in DOMAIN input : input[i].student_id = st}

OneMatchPerStudent ==
    ~Running =>
        \A st \in Student : Sightings(st) # {} =>
            \E i \in Sightings(st) :
                /\ outcomes[i].status = "matched"
                /\ \A j \in Sightings(st) :
                      /\ outcomes[j].confidence <= outcomes[i].confidence
                      /\ j # i => outcomes[j].status = "duplicate"

\* The part of the list before pos is deduped as if it were the whole list,
\* best holds its matched faces, and the rest is untouched.
BeatenBefore(i, p) ==
    \E j \in 1 .. (p - 1) :
        /\ input[j].status = "matched"
        /\ input[j].student_id = input[i].student_id
        /\ \/ input[j].confidence > input[i].confidence
           \/ input[j].confidence = input[i].confidence /\ j < i

PrefixDeduped ==
    \A i \in DOMAIN input :
        outcomes[i] =
            IF i < pos /\ input[i].status = "matched" /\ BeatenBefore(i, pos)
            THEN [input[i] EXCEPT !.status = "duplicate"]
            ELSE input[i]

BestIsKept ==
    \A st \in Student :
        /\ best[st] # NULL =>
              /\ best[st] \in DOMAIN input /\ best[st] < pos
              /\ outcomes[best[st]].status = "matched"
              /\ outcomes[best[st]].student_id = st
        /\ \A i \in DOMAIN input : i < pos /\ input[i].student_id = st =>
              /\ best[st] # NULL
              /\ outcomes[i].status = "matched" => i = best[st]

TypeOK ==
    /\ \E n \in Lengths : /\ input \in [1 .. n -> Outcome]
                          /\ outcomes \in [1 .. n -> Outcome]
                          /\ pos \in 1 .. (n + 1)
    /\ \A i \in DOMAIN input :
          /\ input[i].status # "duplicate"
          /\ input[i].status = "matched" =>
                input[i].student_id \in Student /\ input[i].confidence \in Nat
          /\ input[i].status # "matched" => input[i].student_id = NULL
    /\ best \in [Student -> Nat \cup {NULL}]

LoopInvariant == TypeOK /\ PrefixDeduped /\ BestIsKept
=============================================================================
