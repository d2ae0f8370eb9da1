------------------------ MODULE DedupeOutcomesProofs ------------------------
(***************************************************************************)
(* The dedupe loop computes the closed form, for lists of any length.      *)
(***************************************************************************)
EXTENDS DedupeOutcomes, FaceOutcomesProofs

\* The loop starts in its invariant.
LEMMA InitInvariant == Init => LoopInvariant
  <1>. SUFFICES ASSUME Init PROVE LoopInvariant
    OBVIOUS
  <1>1. PICK n \in Lengths : input \in [1 .. n -> Classified]
    BY DEF Init
  <1>2. n \in Nat
    BY LengthsAssumption
  <1>3. \A i \in 1 .. n : input[i] \in OutcomesFor(Student)
    BY <1>1 DEF Classified
  <1>4. \A i \in 1 .. n :
          /\ input[i] \in Outcome
          /\ input[i].status # "duplicate"
          /\ input[i].status = "matched" =>
                input[i].student_id \in Student /\ input[i].confidence \in Nat
          /\ input[i].status # "matched" => input[i].student_id = NULL
    BY <1>3, ClassifyType, MatcherAssumption
  <1>5. TypeOK
    BY <1>1, <1>2, <1>4 DEF Init, TypeOK
  <1>6. PrefixDeduped
    BY <1>1, <1>2 DEF Init, PrefixDeduped
  <1>7. BestIsKept
    <2>1. DOMAIN input = 1 .. n /\ pos = 1 /\ best = [st \in Student |-> NULL]
      BY <1>1 DEF Init
    <2>2. \A st \in Student : best[st] = NULL
      BY <2>1
    <2>3. \A i \in DOMAIN input : ~(i < pos)
      BY <1>2, <2>1
    <2>. QED  BY <2>2, <2>3 DEF BestIsKept
  <1>. QED  BY <1>5, <1>6, <1>7 DEF LoopInvariant

-----------------------------------------------------------------------------
\* The facts about the list that every step uses: both lists have length n,
\* and the loop changes statuses only, of outcomes it has passed.
Lists(n) ==
    /\ DOMAIN input = 1 .. n /\ DOMAIN outcomes = 1 .. n
    /\ input \in [1 .. n -> Outcome] /\ outcomes \in [1 .. n -> Outcome]
    /\ n \in Lengths /\ pos \in 1 .. (n + 1)
    /\ \A i \in 1 .. n :
          /\ outcomes[i].student_id = input[i].student_id
          /\ outcomes[i].confidence = input[i].confidence
          /\ outcomes[i].status = "matched" => input[i].status = "matched"
          /\ i >= pos => outcomes[i] = input[i]

\* The invariant gives them.
LEMMA ListFacts == LoopInvariant => \E n \in Nat : Lists(n)
  <1>. SUFFICES ASSUME LoopInvariant PROVE \E n \in Nat : Lists(n)
    OBVIOUS
  <1>1. PICK n \in Lengths : /\ input \in [1 .. n -> Outcome]
                             /\ outcomes \in [1 .. n -> Outcome]
                             /\ pos \in 1 .. (n + 1)
    BY DEF LoopInvariant, TypeOK
  <1>2. n \in Nat
    BY LengthsAssumption
  <1>3. \A i \in 1 .. n :
          /\ outcomes[i].student_id = input[i].student_id
          /\ outcomes[i].confidence = input[i].confidence
          /\ outcomes[i].status = "matched" => input[i].status = "matched"
          /\ i >= pos => outcomes[i] = input[i]
    <2>. SUFFICES ASSUME NEW i \in 1 .. n
                  PROVE  /\ outcomes[i].student_id = input[i].student_id
                         /\ outcomes[i].confidence = input[i].confidence
                         /\ outcomes[i].status = "matched" => input[i].status = "matched"
                         /\ i >= pos => outcomes[i] = input[i]
      OBVIOUS
    <2>1. input[i] \in Outcome /\ pos \in Nat
      BY <1>1, <1>2
    <2>2. \/ outcomes[i] = input[i]
          \/ i < pos /\ outcomes[i] = [input[i] EXCEPT !.status = "duplicate"]
      BY <1>1 DEF LoopInvariant, PrefixDeduped
    <2>. QED  BY <1>2, <2>1, <2>2 DEF Outcome
  <1>. QED  BY <1>1, <1>2, <1>3 DEF Lists

\* Looking at one more outcome can only add that outcome to those that beat i.
LEMMA BeatenNext ==
    ASSUME NEW p \in Nat, p >= 1, NEW i
    PROVE  BeatenBefore(i, p + 1) <=>
             \/ BeatenBefore(i, p)
             \/ /\ input[p].status = "matched"
                /\ input[p].student_id = input[i].student_id
                /\ \/ input[p].confidence > input[i].confidence
                   \/ input[p].confidence = input[i].confidence /\ p < i
  <1>1. 1 .. ((p + 1) - 1) = (1 .. (p - 1)) \cup {p}
    OBVIOUS
  <1>. QED  BY <1>1 DEF BeatenBefore

\* What the loop knows when it looks at a matched outcome: who it is, and that
\* the outcome it keeps of this student, if any, is beaten by none before pos.
LEMMA CurrentFacts ==
    ASSUME LoopInvariant, Matched
    PROVE  /\ pos \in DOMAIN input /\ outcomes[pos] = input[pos]
           /\ input[pos].status = "matched"
           /\ input[pos].student_id \in Student
           /\ input[pos].confidence \in Nat
           /\ Current = NULL =>
                 \A j \in DOMAIN input : j < pos =>
                     input[j].student_id # input[pos].student_id
           /\ Current # NULL =>
                 /\ Current \in DOMAIN input /\ Current < pos
                 /\ outcomes[Current].status = "matched"
                 /\ input[Current].status = "matched"
                 /\ input[Current].student_id = input[pos].student_id
                 /\ input[Current].confidence \in Nat
                 /\ ~BeatenBefore(Current, pos)
                 /\ outcomes[Current] = input[Current]
  <1>1. PICK n \in Nat : Lists(n)
    BY ListFacts
  <1>. USE DEF Lists
  <1>2. pos \in 1 .. n /\ outcomes[pos] = input[pos] /\ input[pos].status = "matched"
    BY <1>1 DEF Matched, Running
  <1>3. input[pos].student_id \in Student /\ input[pos].confidence \in Nat
    BY <1>1, <1>2 DEF LoopInvariant, TypeOK
  <1>4. Current = best[input[pos].student_id]
    BY <1>2 DEF Current
  <1>5. ASSUME Current = NULL, NEW j \in DOMAIN input, j < pos
        PROVE  input[j].student_id # input[pos].student_id
    BY <1>3, <1>4, <1>5 DEF LoopInvariant, BestIsKept
  <1>6. ASSUME Current # NULL
        PROVE  /\ Current \in DOMAIN input /\ Current < pos
               /\ outcomes[Current].status = "matched"
               /\ input[Current].status = "matched"
               /\ input[Current].student_id = input[pos].student_id
               /\ input[Current].confidence \in Nat
               /\ ~BeatenBefore(Current, pos)
               /\ outcomes[Current] = input[Current]
    <2>1. /\ Current \in DOMAIN input /\ Current < pos
          /\ outcomes[Current].status = "matched"
          /\ outcomes[Current].student_id = input[pos].student_id
      BY <1>3, <1>4, <1>6 DEF LoopInvariant, BestIsKept
    <2>2. /\ input[Current].status = "matched"
          /\ input[Current].student_id = input[pos].student_id
      BY <1>1, <2>1
    <2>3. input[Current].confidence \in Nat
      BY <2>1, <2>2 DEF LoopInvariant, TypeOK
    <2>4. outcomes[Current] =
            IF Current < pos /\ input[Current].status = "matched"
                 /\ BeatenBefore(Current, pos)
            THEN [input[Current] EXCEPT !.status = "duplicate"]
            ELSE input[Current]
      BY <2>1 DEF LoopInvariant, PrefixDeduped
    <2>5. ~BeatenBefore(Current, pos)
      <3>. SUFFICES ASSUME BeatenBefore(Current, pos) PROVE FALSE
        OBVIOUS
      <3>1. outcomes[Current] = [input[Current] EXCEPT !.status = "duplicate"]
        BY <2>1, <2>2, <2>4
      <3>2. input[Current] \in Outcome
        BY <1>1, <2>1
      <3>3. outcomes[Current].status = "duplicate"
        BY <3>1, <3>2 DEF Outcome
      <3>. QED  BY <2>1, <3>3
    <2>. QED  BY <2>1, <2>2, <2>3, <2>4, <2>5
  <1>. QED  BY <1>1, <1>2, <1>3, <1>5, <1>6

-----------------------------------------------------------------------------
(* The steps.  Each lemma shows one of the loop's branches to preserve the  *)
(* three parts of the invariant.                                            *)

\* An outcome that is not matched changes nothing.
LEMMA SkipPreserves == LoopInvariant /\ Skip => LoopInvariant'
  <1>. SUFFICES ASSUME LoopInvariant, Skip PROVE LoopInvariant'
    OBVIOUS
  <1>1. PICK n \in Nat : Lists(n)
    BY ListFacts
  <1>. USE DEF Lists
  <1>2. /\ pos \in 1 .. n /\ pos' = pos + 1
        /\ input' = input /\ outcomes' = outcomes /\ best' = best
        /\ input[pos].status # "matched" /\ outcomes[pos] = input[pos]
    BY <1>1 DEF Skip, Running
  <1>3. TypeOK'
    BY <1>1, <1>2 DEF LoopInvariant, TypeOK
  <1>4. PrefixDeduped'
    <2>. SUFFICES ASSUME NEW i \in 1 .. n
                  PROVE outcomes[i] =
                          IF i < pos + 1 /\ input[i].status = "matched"
                               /\ BeatenBefore(i, pos + 1)
                          THEN [input[i] EXCEPT !.status = "duplicate"]
                          ELSE input[i]
      BY <1>1, <1>2 DEF PrefixDeduped, BeatenBefore
    <2>1. BeatenBefore(i, pos + 1) <=> BeatenBefore(i, pos)
      BY <1>2, BeatenNext
    <2>2. outcomes[i] = IF i < pos /\ input[i].status = "matched"
                             /\ BeatenBefore(i, pos)
                        THEN [input[i] EXCEPT !.status = "duplicate"]
                        ELSE input[i]
      BY <1>1 DEF LoopInvariant, PrefixDeduped
    <2>3. CASE i = pos
      BY <1>2, <2>3
    <2>4. CASE i # pos
      <3>1. i < pos <=> i < pos + 1
        BY <1>2, <2>4
      <3>. QED  BY <2>1, <2>2, <3>1
    <2>. QED  BY <2>3, <2>4
  <1>5. BestIsKept'
    <2>1. input[pos].student_id \notin Student
      BY <1>1, <1>2, MatcherAssumption DEF LoopInvariant, TypeOK
    <2>2. \A i \in 1 .. n : i < pos + 1 /\ input[i].student_id \in Student => i < pos
      BY <1>2, <2>1
    <2>3. \A st \in Student : best[st] # NULL => best[st] < pos + 1
      BY <1>1, <1>2 DEF LoopInvariant, BestIsKept
    <2>. QED  BY <1>1, <1>2, <2>2, <2>3 DEF LoopInvariant, BestIsKept
  <1>. QED  BY <1>3, <1>4, <1>5 DEF LoopInvariant

\* The first face of a student becomes the kept one.
LEMMA KeepFirstPreserves == LoopInvariant /\ KeepFirst => LoopInvariant'
  <1>. SUFFICES ASSUME LoopInvariant, KeepFirst PROVE LoopInvariant'
    OBVIOUS
  <1>. DEFINE me == input[pos].student_id
  <1>1. PICK n \in Nat : Lists(n)
    BY ListFacts
  <1>. USE DEF Lists
  <1>2. /\ pos \in 1 .. n /\ outcomes[pos] = input[pos]
        /\ input[pos].status = "matched" /\ me \in Student
        /\ \A j \in 1 .. n : j < pos => input[j].student_id # me
    BY <1>1, CurrentFacts DEF KeepFirst
  <1>3. /\ pos' = pos + 1 /\ input' = input /\ outcomes' = outcomes
        /\ best' = [best EXCEPT ![me] = pos]
    BY <1>2 DEF KeepFirst
  <1>4. best \in [Student -> Nat \cup {NULL}]
    BY DEF LoopInvariant, TypeOK
  <1>5. TypeOK'
    BY <1>1, <1>2, <1>3, <1>4 DEF LoopInvariant, TypeOK
  <1>6. PrefixDeduped'
    <2>. SUFFICES ASSUME NEW i \in 1 .. n
                  PROVE outcomes[i] =
                          IF i < pos + 1 /\ input[i].status = "matched"
                               /\ BeatenBefore(i, pos + 1)
                          THEN [input[i] EXCEPT !.status = "duplicate"]
                          ELSE input[i]
      BY <1>1, <1>3 DEF PrefixDeduped, BeatenBefore
    <2>2. outcomes[i] = IF i < pos /\ input[i].status = "matched"
                             /\ BeatenBefore(i, pos)
                        THEN [input[i] EXCEPT !.status = "duplicate"]
                        ELSE input[i]
      BY <1>1 DEF LoopInvariant, PrefixDeduped
    <2>3. CASE i = pos
      <3>1. ~BeatenBefore(pos, pos)
        BY <1>1, <1>2 DEF BeatenBefore
      <3>2. input[pos].confidence \in Nat
        BY <1>1, <1>2 DEF LoopInvariant, TypeOK
      <3>3. ~BeatenBefore(pos, pos + 1)
        BY <1>2, <3>1, <3>2, BeatenNext
      <3>. QED  BY <1>2, <2>3, <3>3
    <2>4. CASE i < pos
      <3>1. BeatenBefore(i, pos + 1) <=> BeatenBefore(i, pos)
        BY <1>2, <2>4, BeatenNext
      <3>. QED  BY <1>2, <2>2, <2>4, <3>1
    <2>5. CASE i > pos
      BY <1>2, <2>2, <2>5
    <2>. QED  BY <1>2, <2>3, <2>4, <2>5
  <1>7. BestIsKept'
    <2>. SUFFICES ASSUME NEW st \in Student
                  PROVE  /\ best'[st] # NULL =>
                              /\ best'[st] \in 1 .. n /\ best'[st] < pos + 1
                              /\ outcomes[best'[st]].status = "matched"
                              /\ outcomes[best'[st]].student_id = st
                         /\ \A i \in 1 .. n : i < pos + 1 /\ input[i].student_id = st =>
                              /\ best'[st] # NULL
                              /\ outcomes[i].status = "matched" => i = best'[st]
      BY <1>1, <1>3 DEF BestIsKept
    <2>1. CASE st = me
      <3>1. best'[st] = pos /\ pos # NULL
        BY <1>2, <1>3, <1>4, <2>1, MatcherAssumption
      <3>2. \A i \in 1 .. n : i < pos + 1 /\ input[i].student_id = st => i = pos
        BY <1>2, <2>1
      <3>. QED  BY <1>2, <2>1, <3>1, <3>2
    <2>2. CASE st # me
      <3>1. best'[st] = best[st]
        BY <1>3, <1>4, <2>2
      <3>2. \A i \in 1 .. n : i < pos + 1 /\ input[i].student_id = st => i < pos
        BY <1>2, <2>2
      <3>3. best[st] # NULL => best[st] < pos /\ best[st] < pos + 1
        BY <1>1, <1>2 DEF LoopInvariant, BestIsKept
      <3>. QED  BY <1>1, <3>1, <3>2, <3>3 DEF LoopInvariant, BestIsKept
    <2>. QED  BY <2>1, <2>2
  <1>. QED  BY <1>5, <1>6, <1>7 DEF LoopInvariant

\* A more confident face replaces the kept one, which becomes a duplicate.
LEMMA ReplacePreserves == LoopInvariant /\ Replace => LoopInvariant'
  <1>. SUFFICES ASSUME LoopInvariant, Replace PROVE LoopInvariant'
    OBVIOUS
  <1>. DEFINE me == input[pos].student_id
              c  == best[me]
  <1>1. PICK n \in Nat : Lists(n)
    BY ListFacts
  <1>. USE DEF Lists
  <1>2. /\ pos \in 1 .. n /\ outcomes[pos] = input[pos]
        /\ input[pos].status = "matched" /\ me \in Student
        /\ input[pos].confidence \in Nat
    BY <1>1, CurrentFacts DEF Replace
  <1>3. Current = c
    BY <1>2 DEF Current
  <1>4. /\ c # NULL /\ c \in 1 .. n /\ c < pos
        /\ outcomes[c] = input[c] /\ input[c].status = "matched"
        /\ input[c].student_id = me /\ input[c].confidence \in Nat
        /\ ~BeatenBefore(c, pos)
    BY <1>1, <1>3, CurrentFacts DEF Replace
  <1>5. input[pos].confidence > input[c].confidence
    BY <1>1, <1>2, <1>3, <1>4 DEF Replace, IsBetter
  <1>6. /\ pos' = pos + 1 /\ input' = input
        /\ outcomes' = [outcomes EXCEPT ![c].status = "duplicate"]
        /\ best' = [best EXCEPT ![me] = pos]
    BY <1>2, <1>3 DEF Replace
  <1>7. best \in [Student -> Nat \cup {NULL}]
    BY DEF LoopInvariant, TypeOK
  <1>8. /\ outcomes' \in [1 .. n -> Outcome]
        /\ outcomes'[c] = [input[c] EXCEPT !.status = "duplicate"]
        /\ \A i \in 1 .. n : i # c => outcomes'[i] = outcomes[i]
    <2>1. [input[c] EXCEPT !.status = "duplicate"] \in Outcome
      BY <1>1, <1>4 DEF Outcome, MatchStatus
    <2>2. outcomes' = [outcomes EXCEPT ![c] = [input[c] EXCEPT !.status = "duplicate"]]
      BY <1>4, <1>6
    <2>. QED  BY <1>1, <1>4, <2>1, <2>2
  <1>9. TypeOK'
    <2>1. best' \in [Student -> Nat \cup {NULL}] /\ pos' \in 1 .. (n + 1)
      BY <1>1, <1>2, <1>6, <1>7
    <2>. QED  BY <1>1, <1>6, <1>8, <2>1 DEF LoopInvariant, TypeOK
  <1>10. PrefixDeduped'
    <2>. SUFFICES ASSUME NEW i \in 1 .. n
                  PROVE outcomes'[i] =
                          IF i < pos + 1 /\ input[i].status = "matched"
                               /\ BeatenBefore(i, pos + 1)
                          THEN [input[i] EXCEPT !.status = "duplicate"]
                          ELSE input[i]
      BY <1>1, <1>6 DEF PrefixDeduped, BeatenBefore
    <2>2. outcomes[i] = IF i < pos /\ input[i].status = "matched"
                             /\ BeatenBefore(i, pos)
                        THEN [input[i] EXCEPT !.status = "duplicate"]
                        ELSE input[i]
      BY <1>1 DEF LoopInvariant, PrefixDeduped
    <2>3. CASE i = c
      <3>1. BeatenBefore(c, pos + 1)
        BY <1>2, <1>4, <1>5, BeatenNext
      <3>. QED  BY <1>2, <1>4, <1>8, <2>3, <3>1
    <2>4. CASE i = pos
      <3>1. ~BeatenBefore(pos, pos)
        <4>. SUFFICES ASSUME BeatenBefore(pos, pos) PROVE FALSE
          OBVIOUS
        <4>1. PICK j \in 1 .. (pos - 1) :
                /\ input[j].status = "matched" /\ input[j].student_id = me
                /\ \/ input[j].confidence > input[pos].confidence
                   \/ input[j].confidence = input[pos].confidence /\ j < pos
          BY DEF BeatenBefore
        <4>2. j \in 1 .. n /\ input[j].confidence \in Nat
          BY <1>1, <1>2, <4>1 DEF LoopInvariant, TypeOK
        <4>3. input[j].confidence > input[c].confidence
          BY <1>2, <1>4, <1>5, <4>1, <4>2
        <4>. QED  BY <1>4, <4>1, <4>3 DEF BeatenBefore
      <3>2. ~BeatenBefore(pos, pos + 1)
        BY <1>2, <3>1, BeatenNext
      <3>3. outcomes'[pos] = input[pos]
        BY <1>2, <1>4, <1>8
      <3>. QED  BY <1>2, <2>4, <3>2, <3>3
    <2>5. CASE i < pos /\ i # c
      <3>1. outcomes'[i] = outcomes[i]
        BY <1>8, <2>5
      <3>2. input[i].status = "matched" =>
              (BeatenBefore(i, pos + 1) <=> BeatenBefore(i, pos))
        <4>. SUFFICES ASSUME input[i].status = "matched", input[i].student_id = me
                      PROVE  BeatenBefore(i, pos)
          BY <1>2, BeatenNext
        <4>1. outcomes[i].status # "matched"
          <5>1. BestIsKept /\ i \in DOMAIN input
            BY <1>1 DEF LoopInvariant
          <5>2. outcomes[i].status = "matched" => i = c
            BY <1>2, <2>5, <5>1 DEF BestIsKept
          <5>. QED  BY <2>5, <5>2
        <4>. QED  BY <2>2, <2>5, <4>1
      <3>. QED  BY <1>2, <2>2, <2>5, <3>1, <3>2
    <2>6. CASE i > pos
      BY <1>2, <1>4, <1>8, <2>2, <2>6
    <2>. QED  BY <1>2, <2>3, <2>4, <2>5, <2>6
  <1>11. BestIsKept'
    <2>. SUFFICES ASSUME NEW st \in Student
                  PROVE  /\ best'[st] # NULL =>
                              /\ best'[st] \in 1 .. n /\ best'[st] < pos + 1
                              /\ outcomes'[best'[st]].status = "matched"
                              /\ outcomes'[best'[st]].student_id = st
                         /\ \A i \in 1 .. n : i < pos + 1 /\ input[i].student_id = st =>
                              /\ best'[st] # NULL
                              /\ outcomes'[i].status = "matched" => i = best'[st]
      BY <1>1, <1>6 DEF BestIsKept
    <2>1. outcomes'[c].status = "duplicate"
      BY <1>1, <1>4, <1>8 DEF Outcome
    <2>2. CASE st = me
      <3>1. best'[st] = pos /\ pos # NULL
        BY <1>2, <1>6, <1>7, <2>2, MatcherAssumption
      <3>2. outcomes'[pos] = input[pos]
        BY <1>2, <1>4, <1>8
      <3>3. \A i \in 1 .. n : i < pos /\ input[i].student_id = st =>
                               outcomes'[i].status # "matched"
        <4>. SUFFICES ASSUME NEW i \in 1 .. n, i < pos, input[i].student_id = me,
                             i # c
                      PROVE  outcomes[i].status # "matched"
          BY <1>8, <2>1, <2>2
        <4>. QED  BY <1>1, <1>2 DEF LoopInvariant, BestIsKept
      <3>. QED  BY <1>2, <2>2, <3>1, <3>2, <3>3
    <2>3. CASE st # me
      <3>1. best'[st] = best[st]
        BY <1>6, <1>7, <2>3
      <3>2. \A i \in 1 .. n : i < pos + 1 /\ input[i].student_id = st =>
                i < pos /\ outcomes'[i] = outcomes[i]
        BY <1>2, <1>4, <1>8, <2>3
      <3>3. best[st] # NULL =>
              /\ best[st] < pos + 1 /\ best[st] \in 1 .. n
              /\ outcomes[best[st]].status = "matched"
              /\ outcomes[best[st]].student_id = st
        BY <1>1, <1>2 DEF LoopInvariant, BestIsKept
      <3>4. best[st] # NULL => best[st] # c
        BY <1>1, <1>4, <2>3, <3>3
      <3>. QED  BY <1>1, <1>8, <3>1, <3>2, <3>3, <3>4 DEF LoopInvariant, BestIsKept
    <2>. QED  BY <2>2, <2>3
  <1>. QED  BY <1>9, <1>10, <1>11 DEF LoopInvariant

\* A face no more confident than the kept one is a duplicate.
LEMMA DemotePreserves == LoopInvariant /\ Demote => LoopInvariant'
  <1>. SUFFICES ASSUME LoopInvariant, Demote PROVE LoopInvariant'
    OBVIOUS
  <1>. DEFINE me == input[pos].student_id
              c  == best[me]
  <1>1. PICK n \in Nat : Lists(n)
    BY ListFacts
  <1>. USE DEF Lists
  <1>2. /\ pos \in 1 .. n /\ outcomes[pos] = input[pos]
        /\ input[pos].status = "matched" /\ me \in Student
        /\ input[pos].confidence \in Nat
    BY <1>1, CurrentFacts DEF Demote
  <1>3. Current = c
    BY <1>2 DEF Current
  <1>4. /\ c # NULL /\ c \in 1 .. n /\ c < pos
        /\ outcomes[c] = input[c] /\ input[c].status = "matched"
        /\ input[c].student_id = me /\ input[c].confidence \in Nat
    BY <1>1, <1>3, CurrentFacts DEF Demote
  <1>5. input[pos].confidence <= input[c].confidence
    BY <1>1, <1>2, <1>3, <1>4 DEF Demote, IsBetter
  <1>6. /\ pos' = pos + 1 /\ input' = input /\ best' = best
        /\ outcomes' = [outcomes EXCEPT ![pos].status = "duplicate"]
    BY DEF Demote
  <1>7. /\ outcomes' \in [1 .. n -> Outcome]
        /\ outcomes'[pos] = [input[pos] EXCEPT !.status = "duplicate"]
        /\ \A i \in 1 .. n : i # pos => outcomes'[i] = outcomes[i]
    <2>1. [input[pos] EXCEPT !.status = "duplicate"] \in Outcome
      BY <1>1, <1>2 DEF Outcome, MatchStatus
    <2>2. outcomes' = [outcomes EXCEPT ![pos] = [input[pos] EXCEPT !.status = "duplicate"]]
      BY <1>2, <1>6
    <2>. QED  BY <1>1, <1>2, <2>1, <2>2
  <1>8. TypeOK'
    <2>1. best' \in [Student -> Nat \cup {NULL}] /\ pos' \in 1 .. (n + 1)
      BY <1>2, <1>6 DEF LoopInvariant, TypeOK
    <2>. QED  BY <1>1, <1>6, <1>7, <2>1 DEF LoopInvariant, TypeOK
  <1>9. PrefixDeduped'
    <2>. SUFFICES ASSUME NEW i \in 1 .. n
                  PROVE outcomes'[i] =
                          IF i < pos + 1 /\ input[i].status = "matched"
                               /\ BeatenBefore(i, pos + 1)
                          THEN [input[i] EXCEPT !.status = "duplicate"]
                          ELSE input[i]
      BY <1>1, <1>6 DEF PrefixDeduped, BeatenBefore
    <2>1. outcomes[i] = IF i < pos /\ input[i].status = "matched"
                             /\ BeatenBefore(i, pos)
                        THEN [input[i] EXCEPT !.status = "duplicate"]
                        ELSE input[i]
      BY <1>1 DEF LoopInvariant, PrefixDeduped
    <2>2. CASE i = pos
      <3>1. BeatenBefore(pos, pos)
        BY <1>2, <1>4, <1>5 DEF BeatenBefore
      <3>2. BeatenBefore(pos, pos + 1)
        BY <1>2, <3>1, BeatenNext
      <3>. QED  BY <1>2, <1>7, <2>2, <3>2
    <2>3. CASE i < pos
      <3>1. input[i].status = "matched" =>
              (BeatenBefore(i, pos + 1) <=> BeatenBefore(i, pos))
        <4>. SUFFICES ASSUME input[i].status = "matched", input[i].student_id = me,
                             input[pos].confidence > input[i].confidence
                      PROVE  BeatenBefore(i, pos)
          BY <1>2, <2>3, BeatenNext
        <4>1. input[i].confidence \in Nat
          BY <1>1 DEF LoopInvariant, TypeOK
        <4>2. input[c].confidence > input[i].confidence
          BY <1>2, <1>4, <1>5, <4>1
        <4>3. c \in 1 .. (pos - 1) /\ input[c].student_id = input[i].student_id
          BY <1>2, <1>4
        <4>. QED  BY <1>4, <4>2, <4>3 DEF BeatenBefore
      <3>. QED  BY <1>2, <1>7, <2>1, <2>3, <3>1
    <2>4. CASE i > pos
      BY <1>2, <1>7, <2>1, <2>4
    <2>. QED  BY <1>2, <2>2, <2>3, <2>4
  <1>10. BestIsKept'
    <2>. SUFFICES ASSUME NEW st \in Student
                  PROVE  /\ best[st] # NULL =>
                              /\ best[st] \in 1 .. n /\ best[st] < pos + 1
                              /\ outcomes'[best[st]].status = "matched"
                              /\ outcomes'[best[st]].student_id = st
                         /\ \A i \in 1 .. n : i < pos + 1 /\ input[i].student_id = st =>
                              /\ best[st] # NULL
                              /\ outcomes'[i].status = "matched" => i = best[st]
      BY <1>1, <1>6 DEF BestIsKept
    <2>1. outcomes'[pos].status = "duplicate"
      BY <1>1, <1>2, <1>7 DEF Outcome
    <2>2. best[st] # NULL =>
            /\ best[st] \in 1 .. n /\ best[st] < pos /\ best[st] < pos + 1
            /\ outcomes[best[st]].status = "matched"
            /\ outcomes[best[st]].student_id = st
      BY <1>1, <1>2 DEF LoopInvariant, BestIsKept
    <2>3. best[st] # NULL => best[st] # pos
      BY <1>2, <2>2
    <2>4. ASSUME NEW i \in 1 .. n, i < pos + 1, input[i].student_id = st
          PROVE  /\ best[st] # NULL
                 /\ outcomes'[i].status = "matched" => i = best[st]
      <3>1. CASE i = pos
        BY <1>4, <2>1, <2>4, <3>1
      <3>2. CASE i # pos
        <4>1. i < pos /\ outcomes'[i] = outcomes[i]
          BY <1>2, <1>7, <2>4, <3>2
        <4>. QED  BY <1>1, <2>4, <4>1 DEF LoopInvariant, BestIsKept
      <3>. QED  BY <3>1, <3>2
    <2>. QED  BY <1>7, <2>2, <2>3, <2>4
  <1>. QED  BY <1>8, <1>9, <1>10 DEF LoopInvariant

-----------------------------------------------------------------------------
\* The loop invariant holds throughout, for lists of any of the given lengths.
THEOREM LoopInvariance == Spec => []LoopInvariant
  <1>1. Init => LoopInvariant
    BY InitInvariant
  <1>2. LoopInvariant /\ [Next]_vars => LoopInvariant'
    <2>. SUFFICES ASSUME LoopInvariant, [Next]_vars PROVE LoopInvariant'
      OBVIOUS
    <2>1. CASE Skip       BY <2>1, SkipPreserves
    <2>2. CASE KeepFirst  BY <2>2, KeepFirstPreserves
    <2>3. CASE Replace    BY <2>3, ReplacePreserves
    <2>4. CASE Demote     BY <2>4, DemotePreserves
    <2>5. CASE UNCHANGED vars
      BY <2>5 DEF vars, LoopInvariant, TypeOK, PrefixDeduped, BestIsKept, BeatenBefore
    <2>. QED  BY <2>1, <2>2, <2>3, <2>4, <2>5 DEF Next
  <1>. QED  BY <1>1, <1>2, PTL DEF Spec

\* When the loop has ended, its position is behind the list.
LEMMA EndFacts ==
    ASSUME LoopInvariant, ~Running, NEW n \in Nat, Lists(n)
    PROVE  pos = n + 1 /\ \A i \in 1 .. n : i < pos
  <1>. QED  BY DEF Running, Lists

\* The loop leaves the list of the closed form, which is what the attendance
\* model takes the pipeline to do.
THEOREM DedupeIsClosedForm == Spec => []ComputesDedupe
  <1>1. LoopInvariant => ComputesDedupe
    <2>. SUFFICES ASSUME LoopInvariant, ~Running PROVE outcomes = Dedupe(input)
      BY DEF ComputesDedupe
    <2>1. PICK n \in Nat : Lists(n)
      BY ListFacts
    <2>2. pos = n + 1 /\ DOMAIN input = 1 .. n
      BY <2>1, EndFacts DEF Lists
    <2>3. \A i \in 1 .. n : BeatenBefore(i, pos) <=> Beaten(input, i)
      BY <2>2 DEF BeatenBefore, Beaten
    <2>4. \A i \in 1 .. n :
            outcomes[i] = IF input[i].status = "matched" /\ Beaten(input, i)
                          THEN [input[i] EXCEPT !.status = "duplicate"]
                          ELSE input[i]
      BY <2>1, <2>2, <2>3, EndFacts DEF LoopInvariant, PrefixDeduped
    <2>. QED  BY <2>1, <2>2, <2>4 DEF Dedupe, Lists
  <1>. QED  BY <1>1, LoopInvariance, PTL

\* Every student seen keeps exactly one matched face, none of the student's
\* faces being more confident.
THEOREM OneMatchEach == Spec => []OneMatchPerStudent
  <1>1. LoopInvariant => OneMatchPerStudent
    <2>. SUFFICES ASSUME LoopInvariant, ~Running, NEW st \in Student,
                         Sightings(st) # {}
                  PROVE  \E i \in Sightings(st) :
                            /\ outcomes[i].status = "matched"
                            /\ \A j \in Sightings(st) :
                                  /\ outcomes[j].confidence <= outcomes[i].confidence
                                  /\ j # i => outcomes[j].status = "duplicate"
      BY DEF OneMatchPerStudent
    <2>1. PICK n \in Nat : Lists(n)
      BY ListFacts
    <2>2. /\ pos = n + 1 /\ DOMAIN input = 1 .. n
          /\ \A i \in 1 .. n : i < pos
      BY <2>1, EndFacts DEF Lists
    <2>. DEFINE b == best[st]
    <2>3. /\ b \in 1 .. n /\ b \in Sightings(st)
          /\ outcomes[b].status = "matched"
          /\ \A j \in Sightings(st) : outcomes[j].status = "matched" => j = b
      BY <2>1, <2>2 DEF LoopInvariant, BestIsKept, Sightings, Lists
    <2>4. ~BeatenBefore(b, pos)
      <3>. SUFFICES ASSUME BeatenBefore(b, pos) PROVE FALSE
        OBVIOUS
      <3>1. outcomes[b] = [input[b] EXCEPT !.status = "duplicate"]
        BY <2>1, <2>2, <2>3 DEF LoopInvariant, PrefixDeduped, Lists
      <3>2. outcomes[b].status = "duplicate"
        BY <2>1, <2>3, <3>1 DEF Lists, Outcome
      <3>. QED  BY <2>3, <3>2
    <2>5. ASSUME NEW j \in Sightings(st)
          PROVE  /\ outcomes[j].confidence <= outcomes[b].confidence
                 /\ j # b => outcomes[j].status = "duplicate"
      <3>1. /\ j \in 1 .. n /\ input[j].student_id = st
            /\ input[j].status = "matched"
            /\ input[j].confidence \in Nat /\ input[b].confidence \in Nat
            /\ input[b].student_id = st
        BY <2>2, <2>3, MatcherAssumption DEF Sightings, LoopInvariant, TypeOK
      <3>2. ~(input[j].confidence > input[b].confidence)
        BY <2>2, <2>4, <3>1 DEF BeatenBefore
      <3>3. outcomes[j].confidence <= outcomes[b].confidence
        BY <2>1, <2>3, <3>1, <3>2 DEF Lists
      <3>4. ASSUME j # b PROVE outcomes[j].status = "duplicate"
        <4>1. outcomes[j].status # "matched"
          BY <2>3, <3>4
        <4>2. outcomes[j] = [input[j] EXCEPT !.status = "duplicate"]
          BY <2>2, <3>1, <4>1 DEF LoopInvariant, PrefixDeduped
        <4>. QED  BY <2>1, <3>1, <4>2 DEF Lists, Outcome
      <3>. QED  BY <3>3, <3>4
    <2>. QED  BY <2>3, <2>5
  <1>. QED  BY <1>1, LoopInvariance, PTL
=============================================================================
