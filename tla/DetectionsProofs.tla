--------------------------- MODULE DetectionsProofs ---------------------------
(***************************************************************************)
(* What is proved of PostProcess, for any number of candidates, classes    *)
(* and places in the report; then of Detections: the sort works in place,  *)
(* and with it post_process implements PostProcess.                        *)
(***************************************************************************)
EXTENDS Detections, TLAPS

\* What the sort established, and that suppression only ever removes.
Ranked ==
    /\ IsInjective(ranking)
    /\ \A r \in Positions : indexArray[r] = Gone \/ indexArray[r] = ranking[r]
    /\ \A r \in Positions : pc # "sort" => objProbs[r] = score[ranking[r]]
    /\ \A r, s \in Positions : pc # "sort" /\ r < s => objProbs[r] >= objProbs[s]
    /\ pc = "sort" => \A r \in Positions : indexArray[r] # Gone

\* nms has looked for boxes that overlap the one at rank r.
Settled(r) ==
    \/ pc \in {"report", "done"}
    \/ /\ pc = "nms"
       /\ \/ classId[r] \notin todo
          \/ r < i /\ \A d \in todo : classId[r] <= d

Suppressed ==
    \A r, s \in Positions :
        /\ r < s
        /\ Settled(r)
        /\ indexArray[r] # Gone
        /\ indexArray[s] # Gone
        => ~Overlaps(indexArray[r], indexArray[s])

\* The report so far: where its results come from,
Sources ==
    \A k \in 1..Len(results) : \E r \in Positions :
        /\ r < i
        /\ indexArray[r] # Gone
        /\ results[k].box = indexArray[r]
        /\ results[k].class = classId[indexArray[r]]
        /\ results[k].prop = objProbs[r]

\* in which order,
InRankOrder ==
    \A k, l \in 1..Len(results) : k < l =>
        \A r, s \in Positions :
            results[k].box = ranking[r] /\ results[l].box = ranking[s] => r < s

\* and what the ranks that have been passed contributed.
Accounted ==
    pc \in {"report", "done"} =>
        \A r \in Survivors : r < i =>
            \/ \E k \in 1..Len(results) : results[k].box = indexArray[r]
            \/ /\ Len(results) = MaxReported
               /\ \A k \in 1..Len(results) : results[k].prop >= objProbs[r]

BestFirst ==
    pc \in {"report", "done"} /\ i > 0 =>
        Len(results) > 0 /\ results[1].box = ranking[0]

Phases ==
    /\ pc = "sort" => i = 0
    /\ pc \in {"sort", "nms"} => results = <<>>
    /\ pc = "done" => i = K /\ count = Len(results)

IInv ==
    /\ TypeOK
    /\ Ranked
    /\ DroppedForBetter
    /\ Suppressed
    /\ Sources
    /\ InRankOrder
    /\ Accounted
    /\ BestFirst
    /\ Phases

-----------------------------------------------------------------------------
LEMMA AppendIs ==
    ASSUME NEW T, NEW s \in Seq(T), NEW e \in T
    PROVE  /\ Append(s, e) \in Seq(T)
           /\ Len(s) \in Nat
           /\ Len(Append(s, e)) = Len(s) + 1
           /\ \A k \in 1..Len(s) : Append(s, e)[k] = s[k] /\ s[k] \in T
           /\ Append(s, e)[Len(s) + 1] = e
  OBVIOUS

\* The place the first rank has in the report is never taken from it.
LEMMA FirstSurvives == TypeOK /\ DroppedForBetter => 0 \in Positions /\ indexArray[0] # Gone
  BY PostProcessAssumption
     DEF TypeOK, DroppedForBetter, Survivors, Positions, PostProcessAssumption

LEMMA InitInv == Init => IInv
  <1> SUFFICES ASSUME Init PROVE IInv
    OBVIOUS
  <1> USE PostProcessAssumption DEF PostProcessAssumption
  <1>1. /\ pc = "sort"
        /\ results = <<>> /\ Len(results) = 0
        /\ count = 0 /\ i = 0 /\ todo = {}
        /\ ranking = [r \in Positions |-> r] /\ indexArray = ranking
        /\ objProbs = score
    BY DEF Init
  <1>2. TypeOK
    <2>1. overlap \in SUBSET Pairs
      BY DEF Init
    <2> QED
      BY <1>1, <2>1 DEF Init, TypeOK, Positions, Result
  <1>3. Ranked
    BY <1>1 DEF Ranked, IsInjective, Positions, Gone
  <1>4. DroppedForBetter
    BY <1>1 DEF DroppedForBetter, Survivors, Positions, Gone
  <1>5. Suppressed
    BY <1>1 DEF Suppressed, Settled
  <1>6. Sources /\ InRankOrder /\ Accounted /\ BestFirst /\ Phases
    BY <1>1 DEF Sources, InRankOrder, Accounted, BestFirst, Phases
  <1> QED
    BY <1>2, <1>3, <1>4, <1>5, <1>6 DEF IInv

LEMMA SortStep == IInv /\ Sort => IInv'
  <1> SUFFICES ASSUME IInv, Sort PROVE IInv'
    OBVIOUS
  <1> USE PostProcessAssumption DEF PostProcessAssumption
  <1>1. PICK p \in [Positions -> Positions] :
           /\ IsInjective(p)
           /\ \A r, s \in Positions : r < s => score[p[r]] >= score[p[s]]
           /\ indexArray' = p
           /\ ranking' = p
           /\ objProbs' = [r \in Positions |-> score[p[r]]]
    BY DEF Sort
  <1>2. /\ pc = "sort" /\ pc' = "nms"
        /\ UNCHANGED <<score, classId, i, results, count>>
        /\ overlap' \in SUBSET Pairs
        /\ todo' = {classId[a] : a \in Positions}
        /\ i = 0 /\ results = <<>> /\ Len(results) = 0
    BY DEF Sort, IInv, Phases, inputs
  <1>3. TypeOK'
    BY <1>1, <1>2 DEF IInv, TypeOK
  <1>4. Ranked'
    BY <1>1, <1>2 DEF Ranked, IInv, TypeOK, Positions, Gone
  <1>5. DroppedForBetter'
    BY <1>1 DEF DroppedForBetter, Survivors, Positions, Gone
  <1>6. Suppressed'
    <2>1. \A r \in Positions : classId'[r] \in todo' /\ ~(r < i') /\ pc' = "nms"
      BY <1>2 DEF Positions
    <2> QED
      BY <2>1 DEF Suppressed, Settled
  <1>7. Sources' /\ InRankOrder' /\ Accounted' /\ BestFirst' /\ Phases'
    BY <1>2 DEF Sources, InRankOrder, Accounted, BestFirst, Phases
  <1> QED
    BY <1>3, <1>4, <1>5, <1>6, <1>7 DEF IInv

LEMMA SkipStep == ASSUME NEW c \in Classes, IInv, SkipRank(c) PROVE IInv'
  <1> USE PostProcessAssumption DEF PostProcessAssumption
  <1>1. /\ pc = "nms" /\ c \in todo /\ \A d \in todo : c <= d
        /\ i < K /\ i' = i + 1
        /\ indexArray[i] = Gone \/ classId[i] # c
        /\ UNCHANGED <<pc, score, classId, overlap, objProbs, indexArray, ranking, todo,
                       results, count>>
    BY DEF SkipRank, IsFilter, Filtered, inputs
  <1>2. TypeOK'
    BY <1>1 DEF IInv, TypeOK
  <1>3. Ranked' /\ DroppedForBetter'
    BY <1>1 DEF IInv, Ranked, DroppedForBetter, Survivors, Overlaps
  <1>4. Suppressed'
    <2>1. ASSUME NEW r \in Positions, Settled(r)', indexArray[r] # Gone PROVE Settled(r)
      <3>1. i \in Nat /\ r \in Nat /\ classId[r] \in Int /\ c \in Int
        <4>1. classId[r] \in Classes /\ i \in 0..K
          BY DEF IInv, TypeOK
        <4>2. i \in Nat /\ r \in Nat
          BY <4>1 DEF Positions
        <4>3. classId[r] \in Int /\ c \in Int
          BY <4>1, Zenon
        <4> QED
          BY <4>2, <4>3
      <3>2. CASE r = i
        <4>1. classId[r] # c
          BY <1>1, <2>1, <3>2
        <4>2. classId[r] \in todo => c <= classId[r]
          BY <1>1
        <4>3. (\A d \in todo : classId[r] <= d) => classId[r] <= c
          BY <1>1
        <4> QED
          BY <1>1, <2>1, <3>1, <4>1, <4>2, <4>3 DEF Settled
      <3>3. CASE r # i
        BY <1>1, <2>1, <3>1, <3>3 DEF Settled
      <3> QED
        BY <3>2, <3>3
    <2> QED
      BY <1>1, <2>1 DEF IInv, Suppressed, Overlaps
  <1>5. results = <<>> /\ pc = "nms" /\ Len(results) = 0
    BY <1>1 DEF IInv, Phases
  <1>6. Sources' /\ InRankOrder' /\ Accounted' /\ BestFirst' /\ Phases'
    BY <1>1, <1>5 DEF Sources, InRankOrder, Accounted, BestFirst, Phases
  <1> QED
    BY <1>2, <1>3, <1>4, <1>6 DEF IInv

LEMMA SuppressStep == ASSUME NEW c \in Classes, IInv, Suppress(c) PROVE IInv'
  <1> USE PostProcessAssumption DEF PostProcessAssumption
  <1>1. /\ pc = "nms" /\ c \in todo /\ \A d \in todo : c <= d
        /\ i < K /\ i' = i + 1
        /\ indexArray[i] # Gone /\ classId[i] = c
        /\ UNCHANGED <<pc, score, classId, overlap, objProbs, ranking, todo, results, count>>
    BY DEF Suppress, IsFilter, Filtered, inputs
  <1>2. indexArray' = [r \in Positions |->
            IF r > i /\ indexArray[r] # Gone /\ Overlaps(indexArray[i], indexArray[r])
            THEN Gone ELSE indexArray[r]]
    BY DEF Suppress
  <1>3. i \in Positions
    BY <1>1 DEF IInv, TypeOK, Positions
  <1>4. TypeOK'
    BY <1>1, <1>2 DEF IInv, TypeOK
  <1>5. \A r \in Positions : /\ indexArray'[r] # Gone => indexArray'[r] = indexArray[r]
                             /\ r <= i => indexArray'[r] = indexArray[r]
    BY <1>2, <1>3 DEF Positions
  <1>6. Ranked'
    BY <1>1, <1>5 DEF IInv, Ranked
  <1>7. DroppedForBetter'
    <2>1. ASSUME NEW s \in Positions, indexArray'[s] = Gone, indexArray[s] # Gone
          PROVE  i < s /\ Overlaps(ranking[i], ranking[s])
      BY <1>1, <1>2, <1>3, <2>1 DEF IInv, Ranked
    <2>2. ASSUME NEW s \in Positions, indexArray'[s] = Gone, indexArray[s] # Gone
          PROVE  score[ranking[i]] >= score[ranking[s]]
      BY <1>1, <1>3, <2>1, <2>2 DEF IInv, Ranked
    <2> QED
      BY <1>1, <1>3, <2>1, <2>2 DEF IInv, DroppedForBetter, Survivors, Overlaps
  <1>8. Suppressed'
    <2> SUFFICES ASSUME NEW r \in Positions, NEW s \in Positions, r < s, Settled(r)',
                        indexArray'[r] # Gone, indexArray'[s] # Gone
                 PROVE  ~Overlaps(indexArray[r], indexArray[s])
      BY <1>1, <1>5 DEF Suppressed, Overlaps
    <2>1. CASE r = i
      BY <1>1, <1>2, <1>5, <2>1
    <2>2. CASE r # i
      <3>1. Settled(r)
        BY <1>1, <1>3, <2>2 DEF Settled, IInv, TypeOK, Positions
      <3> QED
        BY <1>5, <3>1 DEF IInv, Suppressed
    <2> QED
      BY <2>1, <2>2
  <1>9. results = <<>> /\ pc = "nms" /\ Len(results) = 0
    BY <1>1 DEF IInv, Phases
  <1>10. Sources' /\ InRankOrder' /\ Accounted' /\ BestFirst' /\ Phases'
    BY <1>1, <1>9 DEF Sources, InRankOrder, Accounted, BestFirst, Phases
  <1> QED
    BY <1>4, <1>6, <1>7, <1>8, <1>10 DEF IInv

LEMMA EndFilterStep == ASSUME NEW c \in Classes, IInv, EndFilter(c) PROVE IInv'
  <1> USE PostProcessAssumption DEF PostProcessAssumption
  <1>1. /\ pc = "nms" /\ c \in todo /\ \A d \in todo : c <= d
        /\ i = K /\ i' = 0
        /\ todo' = todo \ {c}
        /\ pc' = (IF todo = {c} THEN "report" ELSE "nms")
        /\ UNCHANGED <<score, classId, overlap, objProbs, indexArray, ranking, results, count>>
    BY DEF EndFilter, IsFilter, inputs
  <1>2. TypeOK'
    BY <1>1 DEF IInv, TypeOK
  <1>3. Ranked' /\ DroppedForBetter'
    BY <1>1 DEF IInv, Ranked, DroppedForBetter, Survivors, Overlaps
  <1>4. Suppressed'
    <2>1. ASSUME NEW r \in Positions, Settled(r)' PROVE Settled(r)
      <3>1. r < i /\ ~(r < i')
        BY <1>1 DEF Positions
      <3>2. classId[r] \notin todo \/ classId[r] = c
        <4>1. CASE todo = {c}
          BY <4>1
        <4>2. CASE todo # {c}
          BY <1>1, <2>1, <3>1, <4>2 DEF Settled
        <4> QED
          BY <4>1, <4>2
      <3> QED
        BY <1>1, <3>1, <3>2 DEF Settled
    <2> QED
      BY <1>1, <2>1 DEF IInv, Suppressed, Overlaps
  <1>5. Sources' /\ InRankOrder' /\ Accounted' /\ BestFirst' /\ Phases'
    <2>1. results = <<>> /\ Len(results) = 0 /\ pc' \in {"nms", "report"}
      BY <1>1 DEF IInv, Phases
    <2> QED
      BY <1>1, <2>1 DEF Sources, InRankOrder, Accounted, BestFirst, Phases, Survivors, Positions
  <1> QED
    BY <1>2, <1>3, <1>4, <1>5 DEF IInv

LEMMA PassOverStep == IInv /\ PassOver => IInv'
  <1> SUFFICES ASSUME IInv, PassOver PROVE IInv'
    OBVIOUS
  <1> USE PostProcessAssumption DEF PostProcessAssumption
  <1>1. /\ pc = "report" /\ i < K /\ i' = i + 1
        /\ indexArray[i] = Gone \/ ~Room
        /\ UNCHANGED <<pc, score, classId, overlap, objProbs, indexArray, ranking, todo,
                       results, count>>
    BY DEF PassOver, inputs
  <1>2. TypeOK'
    BY <1>1 DEF IInv, TypeOK
  <1>3. Ranked' /\ DroppedForBetter' /\ Suppressed'
    BY <1>1 DEF IInv, Ranked, DroppedForBetter, Suppressed, Settled, Survivors, Overlaps
  <1>4. i \in Positions /\ Len(results) \in Nat
    BY <1>1 DEF IInv, TypeOK, Positions
  <1>5. i = 0 => Len(results) = 0 /\ indexArray[0] # Gone
    <2>1. i = 0 => ~ \E k \in 1..Len(results) : TRUE
      BY DEF IInv, Sources, Positions
    <2> QED
      BY <1>4, <2>1, FirstSurvives DEF IInv
  <1>6. i > 0
    BY <1>1, <1>4, <1>5 DEF Room, Positions
  <1>7. i \in Survivors =>
           /\ Len(results) = MaxReported
           /\ \A k \in 1..Len(results) : results[k].prop >= objProbs[i]
    <2> SUFFICES ASSUME indexArray[i] # Gone
                 PROVE  /\ Len(results) = MaxReported
                        /\ \A k \in 1..Len(results) : results[k].prop >= objProbs[i]
      BY DEF Survivors
    <2>1. Len(results) = MaxReported
      BY <1>1, <1>4 DEF Room, IInv, TypeOK
    <2>2. \A r \in Positions : r < i => objProbs[r] >= objProbs[i]
      BY <1>1, <1>4 DEF IInv, Ranked
    <2> QED
      BY <2>1, <2>2 DEF IInv, Sources
  <1>8. Sources'
    <2>1. \A r \in Positions : r < i => r < i + 1
      BY <1>4 DEF Positions
    <2> QED
      BY <1>1, <2>1 DEF IInv, Sources
  <1>9. InRankOrder'
    BY <1>1 DEF IInv, InRankOrder
  <1>10. Accounted'
    <2>1. \A r \in Survivors : r < i + 1 => r < i \/ r = i
      BY <1>4 DEF Survivors, Positions
    <2> QED
      BY <1>1, <1>7, <2>1 DEF IInv, Accounted, Survivors
  <1>11. BestFirst' /\ Phases'
    BY <1>1, <1>6 DEF IInv, BestFirst, Phases
  <1> QED
    BY <1>2, <1>3, <1>8, <1>9, <1>10, <1>11 DEF IInv

LEMMA ReportStep == IInv /\ Report => IInv'
  <1> SUFFICES ASSUME IInv, Report PROVE IInv'
    OBVIOUS
  <1> USE PostProcessAssumption DEF PostProcessAssumption
  <1> DEFINE e == [box |-> indexArray[i], class |-> classId[indexArray[i]], prop |-> objProbs[i]]
             n == Len(results)
  <1>1. /\ pc = "report" /\ i < K /\ i' = i + 1
        /\ indexArray[i] # Gone
        /\ Len(results) < MaxReported
        /\ results' = Append(results, e)
        /\ UNCHANGED <<pc, score, classId, overlap, objProbs, indexArray, ranking, todo, count>>
    BY DEF Report, Room, inputs
  <1>2. i \in Positions /\ indexArray[i] = ranking[i] /\ ranking[i] \in Positions
    BY <1>1 DEF IInv, TypeOK, Positions, Ranked
  <1>3. e \in Result /\ results \in Seq(Result)
    BY <1>1, <1>2 DEF IInv, TypeOK, Result
  <1>4. /\ results' \in Seq(Result)
        /\ n \in Nat
        /\ Len(results') = n + 1
        /\ \A k \in 1..n : results'[k] = results[k]
        /\ results'[n + 1] = e
    BY <1>1, <1>3, AppendIs
  <1>5. /\ e.box = indexArray[i]
        /\ e.class = classId[indexArray[i]]
        /\ e.prop = objProbs[i]
    OBVIOUS
  <1> HIDE DEF e, n
  <1>6. TypeOK'
    <2>1. i + 1 \in 0..K /\ Len(results') <= MaxReported
      BY <1>1, <1>2, <1>4 DEF n, Positions
    <2> QED
      BY <1>1, <1>4, <2>1 DEF IInv, TypeOK
  <1>7. Ranked' /\ DroppedForBetter' /\ Suppressed'
    BY <1>1 DEF IInv, Ranked, DroppedForBetter, Suppressed, Settled, Survivors, Overlaps
  <1>8. \A k \in 1..Len(results') : \E r \in Positions :
           /\ r < i'
           /\ indexArray'[r] # Gone
           /\ results'[k].box = indexArray'[r]
           /\ results'[k].class = classId'[indexArray'[r]]
           /\ results'[k].prop = objProbs'[r]
    <2> SUFFICES ASSUME NEW k \in 1..(n + 1)
                 PROVE  \E r \in Positions :
                           /\ r < i + 1
                           /\ indexArray[r] # Gone
                           /\ results'[k].box = indexArray[r]
                           /\ results'[k].class = classId[indexArray[r]]
                           /\ results'[k].prop = objProbs[r]
      BY <1>1, <1>4
    <2>1. CASE k = n + 1
      BY <1>1, <1>2, <1>4, <1>5, <2>1 DEF Positions
    <2>2. CASE k # n + 1
      <3>1. k \in 1..n /\ results'[k] = results[k]
        BY <1>4, <2>2
      <3>2. PICK r \in Positions :
                /\ r < i
                /\ indexArray[r] # Gone
                /\ results[k].box = indexArray[r]
                /\ results[k].class = classId[indexArray[r]]
                /\ results[k].prop = objProbs[r]
        BY <3>1 DEF IInv, Sources, n
      <3>3. r < i + 1
        BY <1>2, <3>2 DEF Positions
      <3> QED
        BY <3>1, <3>2, <3>3
    <2> QED
      BY <2>1, <2>2
  <1>9. \A k, l \in 1..Len(results') : k < l =>
           \A r, s \in Positions :
               results'[k].box = ranking[r] /\ results'[l].box = ranking[s] => r < s
    <2> SUFFICES ASSUME NEW k \in 1..(n + 1), NEW l \in 1..(n + 1), k < l,
                        NEW r \in Positions, NEW s \in Positions,
                        results'[k].box = ranking[r], results'[l].box = ranking[s]
                 PROVE  r < s
      BY <1>4
    <2>1. k \in 1..n /\ results'[k] = results[k]
      BY <1>4
    <2>2. CASE l = n + 1
      <3>1. s = i
        BY <1>2, <1>4, <1>5, <2>2 DEF IInv, Ranked, IsInjective, TypeOK
      <3>2. PICK q \in Positions : q < i /\ indexArray[q] # Gone /\ results[k].box = indexArray[q]
        BY <2>1 DEF IInv, Sources, n
      <3>3. ranking[q] = ranking[r]
        BY <2>1, <3>2 DEF IInv, Ranked
      <3>4. q = r
        BY <3>3 DEF IInv, Ranked, IsInjective, TypeOK
      <3> QED
        BY <3>1, <3>2, <3>4
    <2>3. CASE l # n + 1
      <3>1. l \in 1..n /\ results'[l] = results[l]
        BY <1>4, <2>3
      <3> QED
        BY <2>1, <3>1 DEF IInv, InRankOrder, n
    <2> QED
      BY <2>2, <2>3
  <1>10. \A r \in Survivors : r < i + 1 => \/ \E k \in 1..(n + 1) : results'[k].box = indexArray[r]
                                            \/ n = MaxReported
    <2> SUFFICES ASSUME NEW r \in Survivors, r < i + 1
                 PROVE  \/ \E k \in 1..(n + 1) : results'[k].box = indexArray[r]
                        \/ n = MaxReported
      OBVIOUS
    <2>1. CASE r = i
      <3>1. n + 1 \in 1..(n + 1)
        BY <1>4
      <3> QED
        BY <1>4, <1>5, <2>1, <3>1
    <2>2. CASE r # i
      <3>1. r < i
        BY <1>2, <2>2 DEF Survivors, Positions
      <3>2. CASE \E k \in 1..n : results[k].box = indexArray[r]
        BY <1>4, <3>2
      <3> QED
        BY <1>1, <3>1, <3>2 DEF IInv, Accounted, n
    <2> QED
      BY <2>1, <2>2
  <1>11. Len(results') > 0 /\ results'[1].box = ranking[0]
    <2>1. CASE i = 0
      <3>1. ~ \E k \in 1..n : TRUE
        BY <2>1 DEF IInv, Sources, Positions, n
      <3>2. n = 0
        BY <1>4, <3>1
      <3> QED
        BY <1>2, <1>4, <1>5, <2>1, <3>2
    <2>2. CASE i # 0
      <3>1. n > 0 /\ results[1].box = ranking[0]
        BY <1>1, <1>2, <2>2 DEF IInv, BestFirst, n, Positions
      <3> QED
        BY <1>4, <3>1
    <2> QED
      BY <2>1, <2>2
  <1>12. Sources' /\ InRankOrder'
    BY <1>1, <1>4, <1>8, <1>9 DEF Sources, InRankOrder
  <1>13. Accounted'
    <2>1. n # MaxReported
      BY <1>1, <1>4 DEF n
    <2>2. \A r \in Survivors : r < i + 1 => \E k \in 1..(n + 1) : results'[k].box = indexArray[r]
      BY <1>10, <2>1
    <2> QED
      BY <1>1, <1>4, <2>2 DEF Accounted, Survivors
  <1>14. BestFirst' /\ Phases'
    BY <1>1, <1>11 DEF BestFirst, Phases
  <1> QED
    BY <1>6, <1>7, <1>12, <1>13, <1>14 DEF IInv

LEMMA FinishStep == IInv /\ Finish => IInv'
  <1> SUFFICES ASSUME IInv, Finish PROVE IInv'
    OBVIOUS
  <1> USE PostProcessAssumption DEF PostProcessAssumption
  <1>1. /\ pc = "report" /\ pc' = "done" /\ i = K /\ count' = Len(results)
        /\ UNCHANGED <<score, classId, overlap, objProbs, indexArray, ranking, todo, i, results>>
    BY DEF Finish, inputs
  <1>2. TypeOK'
    BY <1>1 DEF IInv, TypeOK
  <1>3. Ranked' /\ DroppedForBetter' /\ Suppressed'
    BY <1>1 DEF IInv, Ranked, DroppedForBetter, Suppressed, Settled, Survivors, Overlaps
  <1>4. Sources' /\ InRankOrder'
    BY <1>1 DEF IInv, Sources, InRankOrder
  <1>5. Accounted'
    BY <1>1 DEF IInv, Accounted, Survivors
  <1>6. BestFirst' /\ Phases'
    BY <1>1 DEF IInv, BestFirst, Phases
  <1> QED
    BY <1>2, <1>3, <1>4, <1>5, <1>6 DEF IInv

-----------------------------------------------------------------------------
LEMMA StutterStep == IInv /\ UNCHANGED vars => IInv'
  <1> SUFFICES ASSUME IInv, UNCHANGED vars PROVE IInv'
    OBVIOUS
  <1>1. UNCHANGED <<pc, score, classId, overlap, objProbs, indexArray, ranking, todo, i,
                    results, count>>
    BY DEF vars, inputs
  <1>2. TypeOK' /\ Ranked' /\ DroppedForBetter' /\ Suppressed'
    BY <1>1 DEF IInv, TypeOK, Ranked, DroppedForBetter, Suppressed, Settled, Survivors, Overlaps
  <1>3. Sources' /\ InRankOrder'
    BY <1>1 DEF IInv, Sources, InRankOrder
  <1>4. Accounted' /\ BestFirst' /\ Phases'
    BY <1>1 DEF IInv, Accounted, BestFirst, Phases, Survivors
  <1> QED
    BY <1>2, <1>3, <1>4 DEF IInv

\* The inductive invariant: what the sort established is kept, nms leaves
\* nothing that overlaps behind it, and the report accounts for every rank.
THEOREM Invariance == Spec => []IInv
  <1>1. Init => IInv
    BY InitInv
  <1>2. IInv /\ [Next]_vars => IInv'
    BY SortStep, SkipStep, SuppressStep, EndFilterStep, PassOverStep, ReportStep, FinishStep,
       StutterStep DEF Next
  <1> QED
    BY <1>1, <1>2, PTL DEF Spec

\* post_process's vectors, indices and table keep their types; the table of
\* OBJ_NUMB_MAX_SIZE results is never overrun.
THEOREM Typed == Spec => []TypeOK
  BY Invariance, PTL DEF IInv

\* nms suppresses a box only beside a likelier one that overlaps it.
THEOREM Dropped == Spec => []DroppedForBetter
  BY Invariance, PTL DEF IInv

\* Whatever the classes nms goes through, no two reported boxes overlap.
THEOREM Disjoint == Spec => []NothingOverlaps
  <1>1. IInv => NothingOverlaps
    <2> SUFFICES ASSUME IInv, NEW k \in 1..Len(results), NEW l \in 1..Len(results), k < l
                 PROVE  ~Overlaps(results[k].box, results[l].box)
      <3>1. Len(results) \in Nat
        BY DEF IInv, TypeOK
      <3>2. \A a, b : Overlaps(a, b) = Overlaps(b, a)
        <4>1. \A a, b : {a, b} = {b, a}
          OBVIOUS
        <4> QED
          BY <4>1 DEF Overlaps
      <3> QED
        BY <3>1, <3>2 DEF NothingOverlaps
    <2>1. PICK r \in Positions : indexArray[r] # Gone /\ results[k].box = indexArray[r]
      BY DEF IInv, Sources
    <2>2. PICK s \in Positions : indexArray[s] # Gone /\ results[l].box = indexArray[s]
      BY DEF IInv, Sources
    <2>3. r < s
      BY <2>1, <2>2 DEF IInv, InRankOrder, Ranked
    <2>4. Settled(r)
      <3>1. results # <<>>
        BY DEF IInv, TypeOK
      <3> QED
        BY <3>1 DEF Settled, IInv, TypeOK, Phases
    <2> QED
      BY <2>1, <2>2, <2>3, <2>4 DEF IInv, Suppressed
  <1> QED
    BY <1>1, Invariance, PTL

\* A result's box, class and confidence are one candidate's, in descending
\* order of confidence.
THEOREM Together == Spec => []ResultsBelongTogether
  <1>1. IInv => ResultsBelongTogether
    <2> SUFFICES ASSUME IInv PROVE ResultsBelongTogether
      OBVIOUS
    <2>1. pc = "sort" => ~ \E k \in 1..Len(results) : TRUE
      BY DEF IInv, Phases
    <2>2. ASSUME NEW k \in 1..Len(results)
          PROVE  \E r \in Positions : /\ pc # "sort"
                                      /\ results[k].box = ranking[r]
                                      /\ results[k].class = classId[ranking[r]]
                                      /\ results[k].prop = objProbs[r]
                                      /\ results[k].prop = score[ranking[r]]
      BY <2>1 DEF IInv, Sources, Ranked
    <2>3. ASSUME NEW k \in 1..Len(results), NEW l \in 1..Len(results), k < l
          PROVE  results[k].box # results[l].box /\ results[k].prop >= results[l].prop
      <3>1. PICK r \in Positions : results[k].box = ranking[r] /\ results[k].prop = objProbs[r]
                                    /\ pc # "sort"
        BY <2>2
      <3>2. PICK s \in Positions : results[l].box = ranking[s] /\ results[l].prop = objProbs[s]
        BY <2>2
      <3>3. r < s
        BY <2>3, <3>1, <3>2 DEF IInv, InRankOrder
      <3>4. ranking[r] # ranking[s]
        BY <3>3 DEF IInv, Ranked, IsInjective, TypeOK, Positions
      <3>5. objProbs[r] >= objProbs[s]
        BY <3>1, <3>3 DEF IInv, Ranked
      <3> QED
        BY <3>1, <3>2, <3>4, <3>5
    <2> QED
      BY <2>2, <2>3 DEF ResultsBelongTogether
  <1> QED
    BY <1>1, Invariance, PTL

\* The likeliest candidate is reported, and only the table's size leaves out
\* one that was not suppressed.
THEOREM Best == Spec => []BestReported
  <1>1. IInv => BestReported
    <2> SUFFICES ASSUME IInv, pc = "done" PROVE BestReported
      BY DEF BestReported
    <2>1. /\ i = K /\ K > 0 /\ count = Len(results)
          /\ \A r \in Survivors : r < i
      BY PostProcessAssumption
         DEF IInv, Phases, TypeOK, PostProcessAssumption, Survivors, Positions
    <2> QED
      BY <2>1 DEF IInv, Accounted, BestFirst, BestReported
  <1> QED
    BY <1>1, Invariance, PTL

-----------------------------------------------------------------------------
(***************************************************************************)
(* The sort.  While a call of it runs, one place is a hole: what it holds  *)
(* is a copy, and the key belongs there.                                   *)
(***************************************************************************)

Hole     == IF sortPc = "scan_low" THEN high ELSE low
Held(r) == IF sortPc # "call" /\ r = Hole THEN key ELSE input[r]

\* The range of the call in progress, and those of the calls still to be made.
Inside(r)    == sortPc # "call" /\ left <= r /\ r <= right
Covers(s, r) == stack[s][1] <= r /\ r <= stack[s][2]

\* A place is in one range at most.
RangesApart ==
    /\ \A s, t \in 1..Len(stack), r \in Positions :
          Covers(s, r) /\ Covers(t, r) => s = t
    /\ \A s \in 1..Len(stack), r \in Positions : Covers(s, r) => ~Inside(r)

\* Two places that no range has in common are in order.
InOrder ==
    \A q, r \in Positions :
        /\ q < r
        /\ ~(Inside(q) /\ Inside(r))
        /\ \A s \in 1..Len(stack) : ~(Covers(s, q) /\ Covers(s, r))
        => Held(q) >= Held(r)

\* What the two scans have left behind them.
Partition ==
    sortPc # "call" =>
        /\ left < right /\ left <= low /\ low <= high /\ high <= right
        /\ \A r \in Positions : left <= r /\ r < low => input[r] >= key
        /\ \A r \in Positions : high < r /\ r <= right => input[r] <= key
        /\ sortPc = "place" => low = high

\* The two arrays go together everywhere else but in the hole.
PairedBeside(h) ==
    /\ key = score[keyIndex]
    /\ \A r \in Positions \ {h} : input[r] = score[indices[r]] /\ indices[r] # keyIndex
    /\ \A q, r \in Positions \ {h} : indices[q] = indices[r] => q = r

PairedInCall == sortPc # "call" => PairedBeside(Hole)

SortInv ==
    /\ SortInBounds
    /\ Paired
    /\ PairedInCall
    /\ RangesApart
    /\ InOrder
    /\ Partition

LEMMA PopIs ==
    ASSUME NEW T, NEW s \in Seq(T), s # <<>>
    PROVE  /\ Len(s) \in Nat \ {0}
           /\ s[Len(s)] \in T
           /\ SubSeq(s, 1, Len(s) - 1) \in Seq(T)
           /\ Len(SubSeq(s, 1, Len(s) - 1)) = Len(s) - 1
           /\ \A k \in 1..(Len(s) - 1) : SubSeq(s, 1, Len(s) - 1)[k] = s[k]
  OBVIOUS

LEMMA PushTwo ==
    ASSUME NEW T, NEW s \in Seq(T), NEW a \in T, NEW b \in T
    PROVE  /\ s \o <<a, b>> \in Seq(T)
           /\ Len(s) \in Nat
           /\ Len(s \o <<a, b>>) = Len(s) + 2
           /\ \A k \in 1..Len(s) : (s \o <<a, b>>)[k] = s[k]
           /\ (s \o <<a, b>>)[Len(s) + 1] = a
           /\ (s \o <<a, b>>)[Len(s) + 2] = b
  OBVIOUS

\* The types as numbers.
LEMMA SortTypes ==
    ASSUME SortInBounds
    PROVE  /\ K \in Nat \ {0}
           /\ score \in [Positions -> Scores]
           /\ input \in [Positions -> Scores]
           /\ indices \in [Positions -> Positions]
           /\ left \in Positions /\ right \in Positions
           /\ low \in Positions /\ high \in Positions
           /\ key \in Scores /\ keyIndex \in Positions
           /\ Hole \in Positions
           /\ \A r \in Positions : r \in Int /\ 0 <= r /\ r <= K - 1
           /\ \A r \in Positions : input[r] \in Int /\ Held(r) \in Int
           /\ \A x \in Scores : x \in Int
           /\ \A s \in 1..Len(stack) :
                 /\ stack[s][1] \in 0..K
                 /\ stack[s][2] \in (-1)..(K - 1)
           /\ stack \in Seq((0..K) \X ((-1)..(K - 1)))
  <1> USE PostProcessAssumption DEF PostProcessAssumption
  <1>1. /\ score \in [Positions -> Scores]
        /\ input \in [Positions -> Scores]
        /\ indices \in [Positions -> Positions]
        /\ left \in Positions /\ right \in Positions
        /\ low \in Positions /\ high \in Positions
        /\ key \in Scores /\ keyIndex \in Positions
        /\ stack \in Seq((0..K) \X ((-1)..(K - 1)))
    BY DEF SortInBounds, S!TypeOK, S!Positions, Positions
  <1>2. Hole \in Positions
    BY <1>1 DEF Hole
  <1>3. \A r \in Positions : r \in Int /\ 0 <= r /\ r <= K - 1
    BY DEF Positions
  <1>4. \A r \in Positions : input[r] \in Int /\ Held(r) \in Int
    BY <1>1 DEF Held
  <1>5. \A s \in 1..Len(stack) :
           /\ stack[s][1] \in 0..K
           /\ stack[s][2] \in (-1)..(K - 1)
    BY <1>1
  <1> QED
    BY <1>1, <1>2, <1>3, <1>4, <1>5

LEMMA StackLength == SortInv => Len(stack) \in Nat
  <1> SUFFICES ASSUME SortInv PROVE Len(stack) \in Nat
    OBVIOUS
  <1>1. stack \in Seq((0..K) \X ((-1)..(K - 1)))
    BY SortTypes DEF SortInv
  <1> QED
    BY <1>1

LEMMA SortStart == DetectionsInit => SortInv
  <1> SUFFICES ASSUME DetectionsInit PROVE SortInv
    OBVIOUS
  <1> USE PostProcessAssumption DEF PostProcessAssumption
  <1>1. /\ sortPc = "call" /\ score \in [Positions -> Scores] /\ input = score
        /\ indices = [r \in Positions |-> r]
        /\ stack = <<<<0, K - 1>>>>
        /\ left = 0 /\ right = 0 /\ low = 0 /\ high = 0
        /\ key = score[0] /\ keyIndex = 0
    BY DEF DetectionsInit, S!Init, S!Positions, Positions
  <1>2. SortInBounds
    <2>1. 0 \in Positions /\ <<0, K - 1>> \in (0..K) \X ((-1)..(K - 1))
      BY DEF Positions
    <2>2. stack \in Seq((0..K) \X ((-1)..(K - 1)))
      BY <1>1, <2>1
    <2> QED
      BY <1>1, <2>1, <2>2 DEF SortInBounds, S!TypeOK, S!PC, S!Positions, Positions
  <1>3. Paired
    BY <1>1 DEF Paired, S!Paired, S!IsInjective, S!Positions, Positions
  <1>4. RangesApart
    BY <1>1 DEF RangesApart, Inside
  <1>5. InOrder
    <2>1. \A r \in Positions : Covers(1, r) /\ 1 \in 1..Len(stack)
      BY <1>1 DEF Covers, Positions
    <2> QED
      BY <2>1 DEF InOrder
  <1>6. Partition /\ PairedInCall
    BY <1>1 DEF Partition, PairedInCall
  <1> QED
    BY <1>2, <1>3, <1>4, <1>5, <1>6 DEF SortInv

\* A call is made: its range becomes the one in progress, or it has nothing to
\* put in order.
LEMMA PopStep ==
    ASSUME SortInv, sortPc = "call", stack # <<>>, stack' = S!Pop,
           input' = input,
           LET c == S!NextCall IN
           \/ c[1] >= c[2] /\ sortPc' = "call"
           \/ /\ c[1] < c[2] /\ sortPc' = "scan_high"
              /\ left' = c[1] /\ right' = c[2] /\ low' = c[1]
              /\ key' = input[c[1]]
    PROVE  RangesApart' /\ InOrder'
  <1> DEFINE n == Len(stack)
             c == stack[n]
  <1>0. SortInBounds /\ RangesApart /\ InOrder
    BY DEF SortInv
  <1>1. /\ n \in Nat \ {0}
        /\ Len(stack') = n - 1
        /\ \A s \in 1..(n - 1) : stack'[s] = stack[s]
        /\ c[1] \in 0..K /\ c[2] \in (-1)..(K - 1)
        /\ K \in Nat \ {0}
    <2>1. /\ stack' = SubSeq(stack, 1, n - 1)
          /\ stack \in Seq((0..K) \X ((-1)..(K - 1)))
          /\ K \in Nat \ {0}
      BY <1>0, SortTypes DEF S!Pop
    <2>2. n \in Nat \ {0}
      BY <2>1
    <2>3. c[1] \in 0..K /\ c[2] \in (-1)..(K - 1)
      <3>1. n \in 1..Len(stack)
        BY <2>2
      <3> QED
        BY <3>1, <1>0, SortTypes
    <2>4. Len(stack') = n - 1 /\ \A s \in 1..(n - 1) : stack'[s] = stack[s]
      BY <2>1, PopIs
    <2> QED
      BY <2>1, <2>2, <2>3, <2>4
  <1>2. /\ \/ c[1] >= c[2] /\ sortPc' = "call"
           \/ /\ c[1] < c[2] /\ sortPc' = "scan_high"
              /\ left' = c[1] /\ right' = c[2] /\ low' = c[1]
              /\ key' = input[c[1]]
    BY DEF S!NextCall
  <1>3. \A s \in 1..(n - 1), r \in Positions : Covers(s, r)' <=> Covers(s, r)
    BY <1>1 DEF Covers
  <1>4. \A r \in Positions :
           Inside(r)' <=> sortPc' = "scan_high" /\ c[1] <= r /\ r <= c[2]
    BY <1>2 DEF Inside
  <1>5. \A r \in Positions : Held(r)' = Held(r)
    BY <1>2 DEF Held, Hole
  <1>6. \A r \in Positions : Covers(n, r) <=> c[1] <= r /\ r <= c[2]
    BY DEF Covers
  <1>7. RangesApart'
    <2>1. ASSUME NEW s \in 1..(n - 1), NEW r \in Positions, Covers(s, r)
          PROVE  ~Covers(n, r)
      BY <1>0, <1>1, <2>1 DEF RangesApart
    <2> QED
      BY <2>1, <1>0, <1>1, <1>3, <1>4, <1>6 DEF RangesApart
  <1>8. InOrder'
    <2> SUFFICES ASSUME NEW q \in Positions, NEW r \in Positions, q < r,
                        ~(Inside(q)' /\ Inside(r)'),
                        \A s \in 1..(n - 1) : ~(Covers(s, q) /\ Covers(s, r))
                 PROVE  Held(q) >= Held(r)
      BY <1>1, <1>3, <1>5 DEF InOrder
    <2>1. ~(Covers(n, q) /\ Covers(n, r))
      <3>1. q \in Int /\ r \in Int
        BY <1>0, SortTypes
      <3> QED
        BY <3>1, <1>1, <1>2, <1>4, <1>6
    <2>2. \A s \in 1..n : ~(Covers(s, q) /\ Covers(s, r))
      BY <2>1, <1>1
    <2>3. ~Inside(q)
      BY DEF Inside
    <2> QED
      BY <2>2, <2>3, <1>0 DEF InOrder
  <1> QED
    BY <1>7, <1>8

LEMMA ReturnStep == SortInv /\ S!ReturnAtOnce => SortInv'
  <1> SUFFICES ASSUME SortInv, S!ReturnAtOnce PROVE SortInv'
    OBVIOUS
  <1>1. /\ sortPc = "call" /\ stack # <<>> /\ S!NextCall[1] >= S!NextCall[2]
        /\ stack' = S!Pop /\ sortPc' = "call"
        /\ UNCHANGED <<score, input, indices, left, right, key, keyIndex, low, high>>
    BY DEF S!ReturnAtOnce, S!cells, S!frame
  <1>2. SortInBounds'
    <2>1. stack' \in Seq((0..K) \X ((-1)..(K - 1)))
      BY <1>1, SortTypes, PopIs DEF SortInv, S!Pop
    <2> QED
      BY <1>1, <2>1 DEF SortInv, SortInBounds, S!TypeOK
  <1>3. Paired'
    BY <1>1 DEF SortInv, Paired, S!Paired
  <1>4. PairedInCall' /\ Partition'
    BY <1>1 DEF PairedInCall, Partition
  <1> QED
    BY <1>1, <1>2, <1>3, <1>4, PopStep DEF SortInv

LEMMA EnterStep == SortInv /\ S!Enter => SortInv'
  <1> SUFFICES ASSUME SortInv, S!Enter PROVE SortInv'
    OBVIOUS
  <1> DEFINE c == S!NextCall
  <1>1. /\ sortPc = "call" /\ stack # <<>> /\ c[1] < c[2]
        /\ stack' = S!Pop /\ sortPc' = "scan_high"
        /\ left' = c[1] /\ right' = c[2] /\ low' = c[1] /\ high' = c[2]
        /\ key' = input[c[1]] /\ keyIndex' = indices[c[1]]
        /\ UNCHANGED <<score, input, indices>>
    BY DEF S!Enter, S!cells
  <1>2. /\ stack' \in Seq((0..K) \X ((-1)..(K - 1)))
        /\ c[1] \in Positions /\ c[2] \in Positions
        /\ c[1] \in Int /\ c[2] \in Int
    <2>1. /\ stack \in Seq((0..K) \X ((-1)..(K - 1))) /\ K \in Nat \ {0}
          /\ stack' \in Seq((0..K) \X ((-1)..(K - 1)))
      BY <1>1, SortTypes, PopIs DEF SortInv, S!Pop
    <2>2. c \in (0..K) \X ((-1)..(K - 1))
      BY <1>1, <2>1, PopIs DEF S!NextCall
    <2>3. c[1] \in 0..K /\ c[2] \in (-1)..(K - 1)
      BY <2>2
    <2> HIDE DEF c
    <2> QED
      BY <1>1, <2>1, <2>3 DEF Positions
  <1>3. /\ score \in [Positions -> Scores] /\ input \in [Positions -> Scores]
        /\ indices \in [Positions -> Positions]
        /\ \A r \in Positions : r \in Int
    BY SortTypes DEF SortInv
  <1>4. RangesApart' /\ InOrder'
    BY <1>1, PopStep
  <1> HIDE DEF c
  <1>5. SortInBounds'
    BY <1>1, <1>2, <1>3 DEF SortInBounds, S!TypeOK, S!PC, S!Positions, Positions
  <1>6. Paired'
    BY <1>1 DEF Paired, S!Paired
  <1>7. PairedInCall'
    <2>1. Hole' = c[1]
      BY <1>1 DEF Hole
    <2>2. /\ \A r \in Positions : input[r] = score[indices[r]]
          /\ \A q, r \in Positions : indices[q] = indices[r] => q = r
      BY <1>1, <1>3
         DEF SortInv, Paired, S!Paired, S!IsInjective, S!Positions, Positions
    <2> QED
      BY <2>1, <2>2, <1>1, <1>2 DEF PairedInCall, PairedBeside
  <1>8. Partition'
    BY <1>1, <1>2, <1>3 DEF Partition
  <1> QED
    BY <1>4, <1>5, <1>6, <1>7, <1>8 DEF SortInv

\* A step inside a call that moves what is held inside its range only.
LEMMA MovedInside ==
    ASSUME SortInv, sortPc # "call", sortPc' # "call",
           UNCHANGED <<stack, left, right>>,
           \A r \in Positions : ~Inside(r) => Held(r)' = Held(r),
           \A r \in Positions : Inside(r) =>
               \E k \in Positions : Inside(k) /\ Held(r)' = Held(k)
    PROVE  RangesApart' /\ InOrder'
  <1>1. /\ \A r : Inside(r)' <=> Inside(r)
        /\ \A s, r : Covers(s, r)' <=> Covers(s, r)
    BY DEF Inside, Covers
  <1>2. RangesApart'
    BY <1>1 DEF SortInv, RangesApart
  <1>3. InOrder'
    <2> SUFFICES ASSUME NEW q \in Positions, NEW r \in Positions, q < r,
                        ~(Inside(q) /\ Inside(r)),
                        \A s \in 1..Len(stack) : ~(Covers(s, q) /\ Covers(s, r))
                 PROVE  Held(q)' >= Held(r)'
      BY <1>1 DEF InOrder
    <2>0. /\ left \in Int /\ right \in Int
          /\ \A k \in Positions : k \in Int
      BY SortTypes DEF SortInv
    <2>1. \A s \in 1..Len(stack), k \in Positions : Inside(k) => ~Covers(s, k)
      BY DEF SortInv, RangesApart
    <2>2. CASE Inside(q)
      <3>1. PICK k \in Positions : Inside(k) /\ Held(q)' = Held(k)
        BY <2>2
      <3>2. ~Inside(r) /\ k < r
        BY <2>0, <2>2, <3>1 DEF Inside
      <3>3. Held(k) >= Held(r)
        BY <2>1, <3>1, <3>2 DEF SortInv, InOrder
      <3> QED
        BY <3>1, <3>2, <3>3
    <2>3. CASE Inside(r)
      <3>1. PICK k \in Positions : Inside(k) /\ Held(r)' = Held(k)
        BY <2>3
      <3>2. ~Inside(q) /\ q < k
        BY <2>0, <2>3, <3>1 DEF Inside
      <3>3. Held(q) >= Held(k)
        BY <2>1, <3>1, <3>2 DEF SortInv, InOrder
      <3> QED
        BY <3>1, <3>2, <3>3
    <2>4. CASE ~Inside(q) /\ ~Inside(r)
      BY <2>4 DEF SortInv, InOrder
    <2> QED
      BY <2>2, <2>3, <2>4
  <1> QED
    BY <1>2, <1>3

\* The scans compare and move on.
LEMMA ScanStep == SortInv /\ (S!ScanHigh \/ S!ScanLow) => SortInv'
  <1> SUFFICES ASSUME SortInv, S!ScanHigh \/ S!ScanLow PROVE SortInv'
    OBVIOUS
  <1>1. /\ sortPc \in {"scan_high", "scan_low"} /\ sortPc' = sortPc
        /\ low < high
        /\ UNCHANGED <<score, input, indices, stack, left, right, key, keyIndex>>
        /\ \/ /\ sortPc = "scan_high" /\ high' = high - 1 /\ low' = low
              /\ input[high] <= key
           \/ /\ sortPc = "scan_low" /\ low' = low + 1 /\ high' = high
              /\ input[low] >= key
    BY DEF S!ScanHigh, S!ScanLow, S!BelongsRight, S!BelongsLeft, S!cells, S!frame
  <1>2. /\ low \in Positions /\ high \in Positions /\ low \in Int /\ high \in Int
        /\ left \in Int /\ right \in Int
        /\ K \in Nat /\ \A r \in Positions : r \in Int /\ 0 <= r /\ r <= K - 1
    BY SortTypes DEF SortInv
  <1>3. low' \in Positions /\ high' \in Positions
    BY <1>1, <1>2 DEF Positions
  <1>4. SortInBounds'
    BY <1>1, <1>3 DEF SortInv, SortInBounds, S!TypeOK, S!Positions, Positions
  <1>5. Hole' = Hole /\ \A r : Held(r)' = Held(r) /\ (Inside(r)' <=> Inside(r))
    BY <1>1 DEF Hole, Held, Inside
  <1>6. Paired' /\ PairedInCall'
    BY <1>1, <1>5 DEF SortInv, Paired, S!Paired, PairedInCall, PairedBeside
  <1>7. RangesApart' /\ InOrder'
    BY <1>1, <1>5, MovedInside
  <1>8. Partition'
    BY <1>1, <1>2 DEF SortInv, Partition
  <1> QED
    BY <1>4, <1>6, <1>7, <1>8 DEF SortInv

\* One place takes what the other holds, and the hole goes there.
LEMMA FillStep ==
    ASSUME SortInv, sortPc # "call",
           NEW from \in Positions, Inside(Hole), Inside(from),
           sortPc' # "call", Hole' = from,
           input' = [input EXCEPT ![Hole] = input[from]],
           indices' = [indices EXCEPT ![Hole] = indices[from]],
           UNCHANGED <<score, stack, left, right, key, keyIndex>>
    PROVE  /\ RangesApart' /\ InOrder' /\ PairedInCall'
           /\ input' \in [Positions -> Scores]
           /\ indices' \in [Positions -> Positions]
  <1> DEFINE h == Hole
  <1>1. /\ input \in [Positions -> Scores] /\ indices \in [Positions -> Positions]
        /\ h \in Positions
    BY SortTypes DEF SortInv
  <1>2. PairedBeside(h)
    BY DEF SortInv, PairedInCall
  <1>3. \A r \in Positions :
           /\ input'[r] = IF r = h THEN input[from] ELSE input[r]
           /\ indices'[r] = IF r = h THEN indices[from] ELSE indices[r]
    BY <1>1
  <1>4. PairedInCall'
    <2>1. \A r \in Positions \ {from} :
             input'[r] = score[indices'[r]] /\ indices'[r] # keyIndex
      BY <1>1, <1>2, <1>3 DEF PairedBeside
    <2>2. \A q, r \in Positions \ {from} : indices'[q] = indices'[r] => q = r
      BY <1>1, <1>2, <1>3 DEF PairedBeside
    <2> QED
      BY <2>1, <2>2, <1>2 DEF PairedInCall, PairedBeside
  <1>5. \A r \in Positions :
           Held(r)' = IF r = from THEN key ELSE IF r = h THEN input[from] ELSE input[r]
    BY <1>3 DEF Held
  <1>6. \A r \in Positions : Held(r) = IF r = h THEN key ELSE input[r]
    BY DEF Held
  <1>7. \A r \in Positions : ~Inside(r) => Held(r)' = Held(r)
    BY <1>5, <1>6
  <1>8. \A r \in Positions : Inside(r) =>
           \E k \in Positions : Inside(k) /\ Held(r)' = Held(k)
    BY <1>1, <1>5, <1>6
  <1>9. RangesApart' /\ InOrder'
    BY <1>7, <1>8, MovedInside
  <1> QED
    BY <1>1, <1>4, <1>9

LEMMA FillLowStep == SortInv /\ S!FillLow => SortInv'
  <1> SUFFICES ASSUME SortInv, S!FillLow PROVE SortInv'
    OBVIOUS
  <1>1. /\ sortPc = "scan_high" /\ sortPc' = "scan_low"
        /\ ~(low < high /\ input[high] <= key)
        /\ input' = [input EXCEPT ![low] = input[high]]
        /\ indices' = [indices EXCEPT ![low] = indices[high]]
        /\ UNCHANGED <<score, stack, left, right, key, keyIndex, low, high>>
    BY DEF S!FillLow, S!BelongsRight, S!frame
  <1>2. /\ low \in Positions /\ high \in Positions
        /\ low \in Int /\ high \in Int /\ left \in Int /\ right \in Int
        /\ \A r \in Positions : r \in Int
        /\ input \in [Positions -> Scores]
    BY SortTypes DEF SortInv
  <1>3. Hole = low /\ Hole' = high /\ Inside(low) /\ Inside(high)
    BY <1>1, <1>2 DEF Hole, Inside, SortInv, Partition
  <1>4. /\ RangesApart' /\ InOrder' /\ PairedInCall'
        /\ input' \in [Positions -> Scores]
        /\ indices' \in [Positions -> Positions]
    BY <1>1, <1>2, <1>3, FillStep
  <1>5. SortInBounds'
    BY <1>1, <1>4 DEF SortInv, SortInBounds, S!TypeOK, S!PC, S!Positions, Positions
  <1>6. Paired'
    BY <1>1 DEF Paired, S!Paired
  <1>7. Partition'
    <2>1. \A r \in Positions : r # low => input'[r] = input[r]
      BY <1>1, <1>2
    <2> QED
      BY <2>1, <1>1, <1>2 DEF SortInv, Partition
  <1> QED
    BY <1>4, <1>5, <1>6, <1>7 DEF SortInv

LEMMA FillHighStep == SortInv /\ S!FillHigh => SortInv'
  <1> SUFFICES ASSUME SortInv, S!FillHigh PROVE SortInv'
    OBVIOUS
  <1>1. /\ sortPc = "scan_low"
        /\ sortPc' = IF low < high THEN "scan_high" ELSE "place"
        /\ ~(low < high /\ input[low] >= key)
        /\ input' = [input EXCEPT ![high] = input[low]]
        /\ indices' = [indices EXCEPT ![high] = indices[low]]
        /\ UNCHANGED <<score, stack, left, right, key, keyIndex, low, high>>
    BY DEF S!FillHigh, S!BelongsLeft, S!frame
  <1>2. /\ low \in Positions /\ high \in Positions
        /\ low \in Int /\ high \in Int /\ left \in Int /\ right \in Int
        /\ \A r \in Positions : r \in Int
        /\ input \in [Positions -> Scores]
    BY SortTypes DEF SortInv
  <1>3. Hole = high /\ Hole' = low /\ Inside(low) /\ Inside(high)
    BY <1>1, <1>2 DEF Hole, Inside, SortInv, Partition
  <1>4. /\ RangesApart' /\ InOrder' /\ PairedInCall'
        /\ input' \in [Positions -> Scores]
        /\ indices' \in [Positions -> Positions]
    BY <1>1, <1>2, <1>3, FillStep
  <1>5. SortInBounds'
    BY <1>1, <1>4 DEF SortInv, SortInBounds, S!TypeOK, S!PC, S!Positions, Positions
  <1>6. Paired'
    BY <1>1 DEF Paired, S!Paired
  <1>7. Partition'
    <2>1. \A r \in Positions : r # high => input'[r] = input[r]
      BY <1>1, <1>2
    <2> QED
      BY <2>1, <1>1, <1>2 DEF SortInv, Partition
  <1> QED
    BY <1>4, <1>5, <1>6, <1>7 DEF SortInv

\* The key takes the hole, and two ranges are left of the one.
LEMMA PlaceStep == SortInv /\ S!Place => SortInv'
  <1> SUFFICES ASSUME SortInv, S!Place PROVE SortInv'
    OBVIOUS
  <1> DEFINE after == <<low + 1, right>>
             before == <<left, low - 1>>
  <1>0. PICK n \in Nat : n = Len(stack)
    BY StackLength
  <1>1. /\ sortPc = "place" /\ sortPc' = "call"
        /\ input' = [input EXCEPT ![low] = key]
        /\ indices' = [indices EXCEPT ![low] = keyIndex]
        /\ stack' = stack \o <<after, before>>
        /\ UNCHANGED <<score, left, right, key, keyIndex, low, high>>
    BY DEF S!Place, S!frame
  <1>2. /\ low \in Positions /\ left \in Positions /\ right \in Positions
        /\ key \in Scores /\ keyIndex \in Positions
        /\ K \in Nat \ {0}
        /\ \A r \in Positions : r \in Int /\ 0 <= r /\ r <= K - 1
        /\ input \in [Positions -> Scores] /\ indices \in [Positions -> Positions]
        /\ stack \in Seq((0..K) \X ((-1)..(K - 1)))
        /\ \A x \in Scores : x \in Int
    BY SortTypes DEF SortInv
  <1>3. Hole = low /\ low = high /\ left <= low /\ low <= right
    BY <1>1, <1>2 DEF Hole, SortInv, Partition
  <1>4. /\ n \in Nat /\ Len(stack') = n + 2
        /\ stack' \in Seq((0..K) \X ((-1)..(K - 1)))
        /\ \A s \in 1..n : stack'[s] = stack[s]
        /\ stack'[n + 1] = after /\ stack'[n + 2] = before
    <2> DEFINE Calls == (0..K) \X ((-1)..(K - 1))
    <2>1. after \in Calls /\ before \in Calls
      <3>1. /\ low \in 0..(K - 1) /\ left \in 0..(K - 1) /\ right \in 0..(K - 1)
            /\ K \in Nat
        BY <1>2 DEF Positions
      <3>2. /\ low + 1 \in 0..K /\ right \in (-1)..(K - 1)
            /\ left \in 0..K /\ low - 1 \in (-1)..(K - 1)
        BY <3>1
      <3> QED
        BY <3>2
    <2>2. stack \in Seq(Calls) /\ stack' = stack \o <<after, before>>
      BY <1>1, <1>2
    <2>3. /\ stack \o <<after, before>> \in Seq(Calls)
          /\ Len(stack) \in Nat
          /\ Len(stack \o <<after, before>>) = Len(stack) + 2
          /\ \A s \in 1..Len(stack) : (stack \o <<after, before>>)[s] = stack[s]
          /\ (stack \o <<after, before>>)[Len(stack) + 1] = after
          /\ (stack \o <<after, before>>)[Len(stack) + 2] = before
      <3> HIDE DEF after, before, Calls
      <3> QED
        BY <2>1, <2>2, PushTwo
    <2> HIDE DEF after, before
    <2> QED
      BY <2>2, <2>3, <1>0
  <1>5. SortInBounds'
    BY <1>1, <1>2, <1>4 DEF SortInv, SortInBounds, S!TypeOK, S!PC, S!Positions, Positions
  <1>6. Paired'
    <2>1. PairedBeside(low)
      BY <1>1, <1>3 DEF SortInv, PairedInCall
    <2>2. \A r \in Positions :
             /\ input'[r] = IF r = low THEN key ELSE input[r]
             /\ indices'[r] = IF r = low THEN keyIndex ELSE indices[r]
      BY <1>1, <1>2
    <2>3. \A r \in Positions : input'[r] = score[indices'[r]]
      BY <2>1, <2>2 DEF PairedBeside
    <2>4. \A q, r \in Positions : indices'[q] = indices'[r] => q = r
      BY <2>1, <2>2 DEF PairedBeside
    <2>5. indices' \in [Positions -> Positions]
      BY <1>1, <1>2
    <2> QED
      BY <2>3, <2>4, <2>5, <1>1
         DEF Paired, S!Paired, S!IsInjective, S!Positions, Positions
  <1>7. /\ \A s \in 1..n, r \in Positions : Covers(s, r)' <=> Covers(s, r)
        /\ \A r \in Positions : Covers(n + 1, r)' <=> low + 1 <= r /\ r <= right
        /\ \A r \in Positions : Covers(n + 2, r)' <=> left <= r /\ r <= low - 1
    <2>1. /\ stack'[n + 1][1] = low + 1 /\ stack'[n + 1][2] = right
          /\ stack'[n + 2][1] = left /\ stack'[n + 2][2] = low - 1
      BY <1>4
    <2> HIDE DEF after, before
    <2>2. \A s \in 1..n, r \in Positions : Covers(s, r)' <=> Covers(s, r)
      BY <1>4 DEF Covers
    <2>3. \A r \in Positions : Covers(n + 1, r)' <=> low + 1 <= r /\ r <= right
      BY <2>1, <1>1 DEF Covers
    <2>4. \A r \in Positions : Covers(n + 2, r)' <=> left <= r /\ r <= low - 1
      BY <2>1, <1>1 DEF Covers
    <2> QED
      BY <2>2, <2>3, <2>4
  <1>8. \A s \in 1..n, r \in Positions : Covers(s, r) => ~(left <= r /\ r <= right)
    BY <1>0, <1>1 DEF SortInv, RangesApart, Inside
  <1>9. 1..(n + 2) = (1..n) \cup {n + 1, n + 2}
    OBVIOUS
  <1> HIDE DEF after, before
  <1>10. RangesApart'
    <2>1. \A r : ~Inside(r)'
      BY <1>1 DEF Inside
    <2>2. ASSUME NEW s \in 1..(n + 2), NEW t \in 1..(n + 2), NEW r \in Positions,
                 Covers(s, r)', Covers(t, r)', s # t
          PROVE  FALSE
      <3>1. r \in Int /\ low \in Int /\ left \in Int /\ right \in Int
        BY <1>2
      <3>2. CASE s \in 1..n /\ t \in 1..n
        BY <2>2, <3>2, <1>0, <1>7 DEF SortInv, RangesApart
      <3>3. CASE s \in 1..n /\ t \in {n + 1, n + 2}
        BY <2>2, <3>1, <3>3, <1>3, <1>7, <1>8
      <3>4. CASE s \in {n + 1, n + 2} /\ t \in 1..n
        BY <2>2, <3>1, <3>4, <1>3, <1>7, <1>8
      <3>5. CASE s \in {n + 1, n + 2} /\ t \in {n + 1, n + 2}
        BY <2>2, <3>1, <3>5, <1>7
      <3> QED
        BY <3>2, <3>3, <3>4, <3>5, <1>9
    <2> QED
      BY <2>1, <2>2, <1>4 DEF RangesApart
  <1>11. InOrder'
    <2>1. \A r \in Positions : Held(r)' = Held(r)
      BY <1>1, <1>2, <1>3 DEF Held
    <2> SUFFICES ASSUME NEW q \in Positions, NEW r \in Positions, q < r,
                        \A s \in 1..(n + 2) : ~(Covers(s, q)' /\ Covers(s, r)')
                 PROVE  Held(q) >= Held(r)
      BY <2>1, <1>4 DEF InOrder
    <2>2. \A s \in 1..n : ~(Covers(s, q) /\ Covers(s, r))
      BY <1>7, <1>9
    <2>3. CASE ~(Inside(q) /\ Inside(r))
      BY <2>2, <2>3, <1>0 DEF SortInv, InOrder
    <2>4. CASE Inside(q) /\ Inside(r)
      <3>1. /\ left <= q /\ q <= right /\ left <= r /\ r <= right
            /\ q \in Int /\ r \in Int /\ low \in Int /\ left \in Int /\ right \in Int
        BY <2>4, <1>2 DEF Inside
      <3>2. ~(low + 1 <= q /\ r <= right) /\ ~(left <= q /\ r <= low - 1)
        BY <3>1, <1>7, <1>9
      <3>3. q <= low /\ low <= r
        BY <3>1, <3>2
      <3>4. /\ Held(q) >= key \/ q = low
            /\ Held(r) <= key \/ r = low
        BY <3>1, <3>3, <1>1, <1>3 DEF SortInv, Partition, Held
      <3>5. Held(low) = key
        BY <1>1, <1>3 DEF Held
      <3>6. Held(q) \in Int /\ Held(r) \in Int /\ key \in Int
        BY <1>2, SortTypes DEF SortInv
      <3> QED
        BY <3>3, <3>4, <3>5, <3>6
    <2> QED
      BY <2>3, <2>4
  <1>12. PairedInCall' /\ Partition'
    BY <1>1 DEF PairedInCall, Partition
  <1> QED
    BY <1>5, <1>6, <1>10, <1>11, <1>12 DEF SortInv

LEMMA SortKept == SortInv /\ UNCHANGED <<score, sorting>> => SortInv'
  <1> SUFFICES ASSUME SortInv, UNCHANGED <<score, sorting>> PROVE SortInv'
    OBVIOUS
  <1> USE DEF sorting
  <1>1. SortInBounds' /\ Paired'
    BY DEF SortInv, SortInBounds, S!TypeOK, Paired, S!Paired
  <1>2. Hole' = Hole
    BY DEF Hole
  <1>3. PairedInCall' /\ Partition'
    BY <1>2 DEF SortInv, PairedInCall, PairedBeside, Partition
  <1>4. /\ \A r : (Held(r)' = Held(r)) /\ (Inside(r)' <=> Inside(r))
        /\ \A s, r : Covers(s, r)' <=> Covers(s, r)
    BY <1>2 DEF Held, Inside, Covers
  <1>5. RangesApart' /\ InOrder'
    BY <1>4 DEF SortInv, RangesApart, InOrder
  <1> QED
    BY <1>1, <1>3, <1>5 DEF SortInv

-----------------------------------------------------------------------------
\* Every reachable state of the sort satisfies the inductive invariant.
THEOREM SortInvariance == DetectionsSpec => []SortInv
  <1>1. SortInv /\ [DetectionsNext]_<<vars, sorting>> => SortInv'
    <2> SUFFICES ASSUME SortInv, [DetectionsNext]_<<vars, sorting>> PROVE SortInv'
      OBVIOUS
    <2>1. CASE S!Next
      BY <2>1, ReturnStep, EnterStep, ScanStep, FillLowStep, FillHighStep, PlaceStep
         DEF S!Next
    <2>2. CASE SortReturns
      BY <2>2, SortKept DEF SortReturns
    <2>3. CASE \E c \in Classes : (SkipRank(c) \/ Suppress(c) \/ EndFilter(c)) /\ UNCHANGED sorting
      BY <2>3, SortKept DEF SkipRank, Suppress, EndFilter, inputs
    <2>4. CASE (PassOver \/ Report \/ Finish) /\ UNCHANGED sorting
      BY <2>4, SortKept DEF PassOver, Report, Finish, inputs
    <2>5. CASE UNCHANGED <<vars, sorting>>
      BY <2>5, SortKept DEF vars, inputs
    <2> QED
      BY <2>1, <2>2, <2>3, <2>4, <2>5 DEF DetectionsNext
  <1> QED
    BY <1>1, SortStart, PTL DEF DetectionsSpec

\* A place that no call still to be made covers is in order with every other.
LEMMA SettledPlaces == SortInv => SettledSoFar
  <1> SUFFICES ASSUME SortInv, sortPc = "call", NEW q \in Positions,
                      \A s \in 1..Len(stack) :
                         ~(stack[s][1] <= q /\ q <= stack[s][2] /\ stack[s][1] < stack[s][2]),
                      NEW r \in Positions
               PROVE  IF r < q THEN input[r] >= input[q] ELSE input[r] <= input[q]
    BY DEF SettledSoFar, S!SettledSoFar, S!Positions, Positions
  <1>1. /\ \A k \in Positions : k \in Int /\ input[k] \in Int /\ Held(k) = input[k]
        /\ \A k \in Positions : ~Inside(k)
    BY SortTypes DEF SortInv, Held, Inside
  <1>2. ASSUME NEW s \in 1..Len(stack), Covers(s, q), Covers(s, r), q # r
        PROVE  FALSE
    <2>1. /\ stack[s][1] \in 0..K /\ stack[s][2] \in (-1)..(K - 1)
          /\ K \in Nat
      BY SortTypes DEF SortInv
    <2> QED
      BY <1>1, <1>2, <2>1 DEF Covers
  <1>3. CASE r < q
    BY <1>1, <1>2, <1>3 DEF SortInv, InOrder
  <1>4. CASE q < r
    BY <1>1, <1>2, <1>4 DEF SortInv, InOrder
  <1>5. CASE q = r
    BY <1>1, <1>5
  <1> QED
    BY <1>1, <1>3, <1>4, <1>5

\* The sort stays inside the range of each call, keeps every confidence with
\* its candidate, and settles places for good, for any number of candidates
\* and however many of them are equally likely.
THEOREM SortsCorrectly == DetectionsSpec => []SortsInPlace
  <1>1. SortInv => SortsInPlace
    BY SettledPlaces DEF SortInv, SortsInPlace
  <1> QED
    BY <1>1, SortInvariance, PTL

-----------------------------------------------------------------------------
(***************************************************************************)
(* The refinement: the steps of the sort are no steps of PostProcess, and  *)
(* its return is Sort.                                                     *)
(***************************************************************************)

\* When the last call has returned, the places are in descending order.
LEMMA ReturnIsSort == SortInv /\ SortReturns => Sort
  <1> SUFFICES ASSUME SortInv, SortReturns PROVE Sort
    OBVIOUS
  <1>1. /\ pc = "sort" /\ sortPc = "call" /\ stack = <<>>
        /\ indexArray' = indices /\ ranking' = indices /\ objProbs' = input
        /\ overlap' \in SUBSET Pairs
        /\ todo' = {classId[a] : a \in Positions}
        /\ pc' = "nms"
        /\ UNCHANGED <<score, classId, i, results, count>>
    BY DEF SortReturns, S!Sorted
  <1>2. /\ indices \in [Positions -> Positions] /\ input \in [Positions -> Scores]
        /\ \A r \in Positions : r \in Int /\ input[r] \in Int /\ Held(r) = input[r]
    BY <1>1, SortTypes DEF SortInv, Held
  <1>3. /\ IsInjective(indices)
        /\ \A r \in Positions : input[r] = score[indices[r]]
    BY <1>1, <1>2
       DEF SortInv, Paired, S!Paired, S!IsInjective, IsInjective, S!Positions, Positions
  <1>4. \A q, r \in Positions : q < r => input[q] >= input[r]
    BY <1>1, <1>2 DEF SortInv, InOrder, Inside
  <1>5. \A q, r \in Positions : q < r => score[indices[q]] >= score[indices[r]]
    BY <1>3, <1>4
  <1>6. input = [r \in Positions |-> score[indices[r]]]
    BY <1>2, <1>3
  <1> QED
    BY <1>1, <1>2, <1>3, <1>5, <1>6 DEF Sort

\* post_process, step by step, does what PostProcess allows and nothing else.
THEOREM Refines == DetectionsSpec => ImplementsPostProcess
  <1>1. DetectionsInit => Init
    BY DEF DetectionsInit
  <1>2. SortInv /\ [DetectionsNext]_<<vars, sorting>> => [Next]_vars
    <2> SUFFICES ASSUME SortInv, [DetectionsNext]_<<vars, sorting>> PROVE [Next]_vars
      OBVIOUS
    <2>1. CASE S!Next /\ UNCHANGED vars
      BY <2>1
    <2>2. CASE SortReturns
      BY <2>2, ReturnIsSort DEF Next
    <2>3. CASE \E c \in Classes : (SkipRank(c) \/ Suppress(c) \/ EndFilter(c)) /\ UNCHANGED sorting
      BY <2>3 DEF Next
    <2>4. CASE (PassOver \/ Report \/ Finish) /\ UNCHANGED sorting
      BY <2>4 DEF Next
    <2>5. CASE UNCHANGED <<vars, sorting>>
      BY <2>5
    <2> QED
      BY <2>1, <2>2, <2>3, <2>4, <2>5 DEF DetectionsNext
  <1> QED
    BY <1>1, <1>2, SortInvariance, PTL DEF DetectionsSpec, ImplementsPostProcess, Spec

\* What is proved of PostProcess therefore holds of the step-by-step sort and
\* what follows it.
THEOREM DetectionsHold ==
    DetectionsSpec => /\ []NothingOverlaps
                      /\ []DroppedForBetter
                      /\ []ResultsBelongTogether
                      /\ []BestReported
  BY Refines, Disjoint, Dropped, Together, Best, PTL DEF ImplementsPostProcess

-----------------------------------------------------------------------------
(***************************************************************************)
(* post_process cannot go on for ever.  Each step of the sort settles a    *)
(* place, or leaves a call less to be made, or brings the two scans closer *)
(* to each other; nms and the report count up, nms once for each class of  *)
(* class_set.                                                              *)
(***************************************************************************)

\* The places that a call still covers.
Unsettled == {r \in Positions : Inside(r) \/ \E s \in 1..Len(stack) : Covers(s, r)}

\* What is left of the call in progress.  After a fill it is the other scan's
\* turn, and that one moves before it fills in turn.
Moves == (sortPc = "scan_high" /\ S!BelongsRight) \/ (sortPc = "scan_low" /\ S!BelongsLeft)
Rest  == IF Moves THEN 1 ELSE IF sortPc = "scan_high" THEN 3 ELSE 2
Effort == IF sortPc \in {"call", "place"} THEN 0 ELSE 4 * (high - low) + Rest

\* The three, in the order of their weight, get smaller.
SortAdvances ==
    /\ Unsettled' \subseteq Unsettled
    /\ \/ Unsettled' # Unsettled
       \/ Len(stack') < Len(stack)
       \/ Len(stack') = Len(stack) /\ Effort' < Effort

CountsUp == i' = i + 1 /\ i' <= K

ClassAdvances ==
    \/ CountsUp /\ todo' = todo
    \/ todo' \subseteq todo /\ todo' # todo

Advances ==
    \/ pc = "sort"   /\ pc' = "sort"   /\ SortAdvances
    \/ pc = "sort"   /\ pc' = "nms"
    \/ pc = "nms"    /\ pc' = "nms"    /\ ClassAdvances
    \/ pc = "nms"    /\ pc' = "report"
    \/ pc = "report" /\ pc' = "report" /\ CountsUp
    \/ pc = "report" /\ pc' = "done"

\* No step of the sort is taken after it has returned.
SortFirst == pc # "sort" => S!Sorted

LEMMA EffortIs == SortInv => Effort \in Nat
  <1> SUFFICES ASSUME SortInv PROVE Effort \in Nat
    OBVIOUS
  <1>1. /\ low \in Int /\ high \in Int
        /\ sortPc \in {"call", "scan_high", "scan_low", "place"}
    BY SortTypes DEF SortInv, SortInBounds, S!TypeOK, S!PC
  <1>2. sortPc # "call" => low <= high
    BY DEF SortInv, Partition
  <1>3. Rest \in Nat
    BY DEF Rest
  <1> QED
    BY <1>1, <1>2, <1>3 DEF Effort

\* A call is made: one less is left, and it covers what was to be sorted.
LEMMA CallAdvances == SortInv /\ (S!ReturnAtOnce \/ S!Enter) => SortAdvances
  <1> SUFFICES ASSUME SortInv, S!ReturnAtOnce \/ S!Enter PROVE SortAdvances
    OBVIOUS
  <1>0. PICK n \in Nat : n = Len(stack)
    BY StackLength
  <1>1. /\ stack' = SubSeq(stack, 1, n - 1) /\ stack # <<>> /\ sortPc = "call"
        /\ \/ sortPc' = "call"
           \/ left' = stack[n][1] /\ right' = stack[n][2]
    BY <1>0 DEF S!ReturnAtOnce, S!Enter, S!Pop, S!NextCall
  <1>2. stack \in Seq((0..K) \X ((-1)..(K - 1)))
    BY SortTypes DEF SortInv
  <1>3. /\ n \in Nat \ {0} /\ Len(stack') = n - 1
        /\ \A s \in 1..(n - 1) : stack'[s] = stack[s]
    BY <1>0, <1>1, <1>2, PopIs
  <1>4. ASSUME NEW r \in Positions, (Inside(r) \/ \E s \in 1..Len(stack) : Covers(s, r))'
        PROVE  \E s \in 1..Len(stack) : Covers(s, r)
    <2>1. CASE Inside(r)'
      <3>1. Covers(n, r) /\ n \in 1..Len(stack)
        BY <2>1, <1>0, <1>1, <1>3 DEF Inside, Covers
      <3> QED
        BY <3>1
    <2>2. CASE \E s \in 1..Len(stack') : Covers(s, r)'
      <3>1. PICK s \in 1..Len(stack') : Covers(s, r)'
        BY <2>2
      <3>2. s \in 1..Len(stack) /\ Covers(s, r)
        BY <3>1, <1>0, <1>3 DEF Covers
      <3> QED
        BY <3>2
    <2> QED
      BY <1>4, <2>1, <2>2
  <1>5. Unsettled' \subseteq Unsettled
    BY <1>4 DEF Unsettled, Positions
  <1> QED
    BY <1>0, <1>3, <1>5 DEF SortAdvances

\* The scans move towards each other, or one of them lets the other go on.
LEMMA ScanAdvances ==
    ASSUME SortInv, S!ScanHigh \/ S!FillLow \/ S!ScanLow \/ S!FillHigh
    PROVE  SortAdvances
  <1>1. /\ low \in Positions /\ high \in Positions
        /\ low \in Int /\ high \in Int
        /\ input \in [Positions -> Scores] /\ key \in Scores
        /\ \A x \in Scores : x \in Int
        /\ Len(stack) \in Nat
    BY SortTypes, StackLength DEF SortInv
  <1>2. sortPc \in {"scan_high", "scan_low"} /\ low <= high
    BY DEF S!ScanHigh, S!FillLow, S!ScanLow, S!FillHigh, SortInv, Partition
  <1>3. /\ UNCHANGED <<stack, left, right, key>> /\ sortPc' # "call"
    BY <1>2 DEF S!ScanHigh, S!FillLow, S!ScanLow, S!FillHigh, S!frame
  <1>4. Unsettled' = Unsettled
    BY <1>2, <1>3 DEF Unsettled, Inside, Covers
  <1>5. Rest' \in 1..3 /\ (sortPc' = "scan_low" => Rest' \in 1..2)
    BY DEF Rest
  <1>6. Effort = 4 * (high - low) + Rest
    BY <1>2 DEF Effort
  <1>7. Effort' = IF sortPc' \in {"call", "place"} THEN 0 ELSE 4 * (high' - low') + Rest'
    BY DEF Effort
  <1>8. Effort' < Effort
    <2>1. CASE S!ScanHigh
      <3>1. Rest = 1 /\ high' = high - 1 /\ low' = low /\ sortPc' = "scan_high"
        BY <2>1 DEF S!ScanHigh, Rest, Moves
      <3>2. Effort' = 4 * (high' - low') + Rest'
        BY <3>1, <1>7
      <3>3. PICK d \in Int, e \in Int, x \in Int :
               d = high - low /\ e = high' - low' /\ x = Rest' /\ x <= 3
        BY <3>1, <1>1, <1>5
      <3>4. e = d - 1
        BY <3>1, <3>3, <1>1
      <3>5. Effort' = 4 * e + x /\ Effort = 4 * d + Rest
        BY <3>2, <3>3, <1>6
      <3> QED
        BY <3>1, <3>3, <3>4, <3>5
    <2>2. CASE S!FillLow
      <3>1. Rest = 3 /\ high' = high /\ low' = low /\ sortPc' = "scan_low"
        BY <2>2 DEF S!FillLow, Rest, Moves
      <3>2. Effort' = 4 * (high' - low') + Rest'
        BY <3>1, <1>7
      <3>3. PICK d \in Int, e \in Int, x \in Int :
               d = high - low /\ e = high' - low' /\ x = Rest' /\ x <= 2
        BY <3>1, <1>1, <1>5
      <3>4. e = d
        BY <3>1, <3>3, <1>1
      <3>5. Effort' = 4 * e + x /\ Effort = 4 * d + Rest
        BY <3>2, <3>3, <1>6
      <3> QED
        BY <3>1, <3>3, <3>4, <3>5
    <2>3. CASE S!ScanLow
      <3>1. Rest = 1 /\ high' = high /\ low' = low + 1 /\ sortPc' = "scan_low"
        BY <2>3 DEF S!ScanLow, Rest, Moves
      <3>2. Effort' = 4 * (high' - low') + Rest'
        BY <3>1, <1>7
      <3>3. PICK d \in Int, e \in Int, x \in Int :
               d = high - low /\ e = high' - low' /\ x = Rest' /\ x <= 2
        BY <3>1, <1>1, <1>5
      <3>4. e = d - 1
        BY <3>1, <3>3, <1>1
      <3>5. Effort' = 4 * e + x /\ Effort = 4 * d + Rest
        BY <3>2, <3>3, <1>6
      <3> QED
        BY <3>1, <3>3, <3>4, <3>5
    <2>4. CASE S!FillHigh
      <3>1. Rest = 2 /\ high' = high /\ low' = low
        BY <2>4 DEF S!FillHigh, Rest, Moves
      <3>2. CASE low < high
        <4>1. /\ sortPc' = "scan_high" /\ ~(input[low] >= key)
              /\ input' = [input EXCEPT ![high] = input[low]]
          BY <2>4, <3>2 DEF S!FillHigh, S!BelongsLeft
        <4>2. input'[high] = input[low]
          BY <4>1, <1>1
        <4>3. S!BelongsRight'
          BY <4>1, <4>2, <3>1, <3>2, <1>1, <1>3 DEF S!BelongsRight
        <4>4. Rest' = 1
          BY <4>1, <4>3 DEF Rest, Moves
        <4> QED
          BY <4>1, <4>4, <3>1, <1>1, <1>6, <1>7
      <3>3. CASE ~(low < high)
        <4>1. sortPc' = "place"
          BY <2>4, <3>3 DEF S!FillHigh
        <4> QED
          BY <4>1, <3>1, <1>1, <1>2, <1>6, <1>7
      <3> QED
        BY <3>2, <3>3
    <2> QED
      BY <2>1, <2>2, <2>3, <2>4
  <1> QED
    BY <1>3, <1>4, <1>8 DEF SortAdvances

\* The key's place is settled: no call covers it any more.
LEMMA PlaceAdvances == SortInv /\ S!Place => SortAdvances
  <1> SUFFICES ASSUME SortInv, S!Place PROVE SortAdvances
    OBVIOUS
  <1> DEFINE Calls == (0..K) \X ((-1)..(K - 1))
  <1>0. PICK n \in Nat : n = Len(stack)
    BY StackLength
  <1>1. /\ low \in Positions /\ left \in Int /\ right \in Int /\ low \in Int
        /\ \A r \in Positions : r \in Int
        /\ stack \in Seq(Calls)
        /\ <<low + 1, right>> \in Calls /\ <<left, low - 1>> \in Calls
    <2>1. /\ K \in Nat
          /\ low \in Positions /\ left \in Positions /\ right \in Positions
          /\ \A r \in Positions : r \in Int /\ 0 <= r /\ r <= K - 1
          /\ stack \in Seq(Calls)
      BY SortTypes DEF SortInv
    <2>2. <<low + 1, right>> \in Calls /\ <<left, low - 1>> \in Calls
      BY <2>1
    <2> QED
      BY <2>1, <2>2
  <1>2. /\ sortPc = "place" /\ sortPc' = "call"
        /\ stack' = stack \o <<<<low + 1, right>>, <<left, low - 1>>>>
    BY DEF S!Place
  <1>3. left <= low /\ low <= right
    BY <1>1, <1>2 DEF SortInv, Partition
  <1>4. /\ Len(stack') = n + 2
        /\ \A s \in 1..n : stack'[s] = stack[s]
        /\ stack'[n + 1] = <<low + 1, right>>
        /\ stack'[n + 2] = <<left, low - 1>>
    <2> HIDE DEF Calls
    <2> QED
      BY <1>0, <1>1, <1>2, PushTwo
  <1>5. ASSUME NEW r \in Positions, NEW s \in 1..Len(stack'), Covers(s, r)'
        PROVE  r # low /\ (Inside(r) \/ \E t \in 1..Len(stack) : Covers(t, r))
    <2>1. CASE s \in 1..n
      <3>1. Covers(s, r) /\ s \in 1..Len(stack)
        BY <2>1, <1>0, <1>4, <1>5 DEF Covers
      <3>2. Inside(low)
        BY <1>2, <1>3 DEF Inside
      <3> QED
        BY <3>1, <3>2, <1>1 DEF SortInv, RangesApart
    <2>2. CASE s = n + 1
      <3>1. low + 1 <= r /\ r <= right
        BY <2>2, <1>4, <1>5 DEF Covers
      <3> QED
        BY <3>1, <1>1, <1>2, <1>3 DEF Inside
    <2>3. CASE s = n + 2
      <3>1. left <= r /\ r <= low - 1
        BY <2>3, <1>4, <1>5 DEF Covers
      <3> QED
        BY <3>1, <1>1, <1>2, <1>3 DEF Inside
    <2> QED
      BY <1>4, <2>1, <2>2, <2>3
  <1>6. /\ \A r \in Positions : ~Inside(r)'
        /\ Inside(low)
    BY <1>2, <1>3 DEF Inside
  <1>7. Unsettled' \subseteq Unsettled /\ low \notin Unsettled' /\ low \in Unsettled
    BY <1>1, <1>5, <1>6 DEF Unsettled, Positions
  <1> QED
    BY <1>7 DEF SortAdvances

\* Every step of post_process makes progress, whatever the confidences: with
\* SettledSoFar and BestReported this is why it returns, and with the right
\* answer.  (That it takes its steps is the fairness of DetectionsSpec.)
THEOREM Progress == DetectionsSpec => [](Effort \in Nat) /\ [][Advances]_<<vars, sorting>>
  <1>1. DetectionsInit => SortFirst
    BY DEF DetectionsInit, Init, SortFirst
  <1>2. SortFirst /\ [DetectionsNext]_<<vars, sorting>> => SortFirst'
    <2> SUFFICES ASSUME SortFirst, [DetectionsNext]_<<vars, sorting>> PROVE SortFirst'
      OBVIOUS
    <2>1. CASE S!Next /\ UNCHANGED vars
      <3>1. ~S!Sorted
        BY <2>1 DEF S!Sorted, S!Next, S!ReturnAtOnce, S!Enter, S!ScanHigh, S!FillLow,
                    S!ScanLow, S!FillHigh, S!Place
      <3> QED
        BY <2>1, <3>1 DEF SortFirst, vars
    <2>2. CASE SortReturns
      BY <2>2 DEF SortReturns, SortFirst, S!Sorted, sorting
    <2>3. CASE \E c \in Classes : (SkipRank(c) \/ Suppress(c) \/ EndFilter(c)) /\ UNCHANGED sorting
      BY <2>3 DEF IsFilter, SkipRank, Suppress, EndFilter, SortFirst, S!Sorted, sorting
    <2>4. CASE (PassOver \/ Report \/ Finish) /\ UNCHANGED sorting
      BY <2>4 DEF PassOver, Report, Finish, SortFirst, S!Sorted, sorting
    <2>5. CASE UNCHANGED <<vars, sorting>>
      BY <2>5 DEF SortFirst, S!Sorted, sorting, vars
    <2> QED
      BY <2>1, <2>2, <2>3, <2>4, <2>5 DEF DetectionsNext
  <1>3. SortInv /\ SortFirst /\ IInv /\ [DetectionsNext]_<<vars, sorting>>
          => [Advances]_<<vars, sorting>>
    <2> SUFFICES ASSUME SortInv, SortFirst, IInv, DetectionsNext PROVE Advances
      OBVIOUS
    <2>0. i \in Int /\ K \in Int
      BY PostProcessAssumption DEF IInv, TypeOK, PostProcessAssumption
    <2>1. CASE S!Next /\ UNCHANGED vars
      <3>1. SortAdvances
        BY <2>1, CallAdvances, ScanAdvances, PlaceAdvances DEF S!Next
      <3>2. ~S!Sorted
        BY <2>1 DEF S!Sorted, S!Next, S!ReturnAtOnce, S!Enter, S!ScanHigh, S!FillLow,
                    S!ScanLow, S!FillHigh, S!Place
      <3>3. pc = "sort" /\ pc' = pc
        BY <2>1, <3>2 DEF SortFirst, vars
      <3> QED
        BY <3>1, <3>3 DEF Advances
    <2>2. CASE SortReturns
      BY <2>2 DEF SortReturns, Advances
    <2>3. CASE \E c \in Classes : (SkipRank(c) \/ Suppress(c) \/ EndFilter(c)) /\ UNCHANGED sorting
      <3> PICK c \in Classes : SkipRank(c) \/ Suppress(c) \/ EndFilter(c)
        BY <2>3
      <3>1. CASE SkipRank(c) \/ Suppress(c)
        <4>1. pc = "nms" /\ pc' = pc /\ i < K /\ i' = i + 1 /\ todo' = todo
          BY <3>1 DEF SkipRank, Suppress, IsFilter
        <4> QED
          BY <4>1, <2>0 DEF Advances, ClassAdvances, CountsUp
      <3>2. CASE EndFilter(c)
        BY <3>2 DEF EndFilter, IsFilter, Advances, ClassAdvances
      <3> QED
        BY <3>1, <3>2
    <2>4. CASE (PassOver \/ Report \/ Finish) /\ UNCHANGED sorting
      BY <2>4, <2>0 DEF PassOver, Report, Finish, Advances, CountsUp
    <2> QED
      BY <2>1, <2>2, <2>3, <2>4 DEF DetectionsNext
  <1>4. Spec => []IInv
    BY Invariance
  <1>5. SortInv => Effort \in Nat
    BY EffortIs
  <1> QED
    BY <1>1, <1>2, <1>3, <1>4, <1>5, SortInvariance, Refines, PTL
       DEF DetectionsSpec, ImplementsPostProcess

=============================================================================
