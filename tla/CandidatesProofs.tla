-------------------------- MODULE CandidatesProofs --------------------------
(***************************************************************************)
(* What is proved of Candidates, for outputs of any number, size and       *)
(* quantisation.                                                           *)
(***************************************************************************)
EXTENDS Candidates, TLAPS

\* What makes a cell x with this content a candidate.
Likely(x, content) ==
    /\ content.conf >= Quantize(x[1])
    /\ \E k \in Class : content.prob[k] > Quantize(x[1])

\* The candidates are the likely ones of the cells the loops have passed.
Collected ==
    /\ \A k \in 1..validCount :
         /\ boxes[k] \in Visited
         /\ tensor[boxes[k]].conf >= Quantize(boxes[k][1])
         /\ tensor[boxes[k]].prob[classId[k]] > Quantize(boxes[k][1])
    /\ \A x \in Visited :
         Likely(x, tensor[x]) => \E k \in 1..validCount : boxes[k] = x

IInv ==
    /\ TypeOK
    /\ Aligned
    /\ OncePerCell
    /\ Collected

-----------------------------------------------------------------------------
(***************************************************************************)
(* The threshold in quanta.                                                *)
(***************************************************************************)

LEMMA TimesMonotone ==
    ASSUME NEW p \in Nat, NEW a \in Int, NEW b \in Int, a <= b
    PROVE  a * p <= b * p
  <1>1. (b - a) * p >= 0
    OBVIOUS
  <1>2. (b - a) * p = b * p - a * p
    OBVIOUS
  <1>3. a * p \in Int /\ b * p \in Int
    OBVIOUS
  <1> QED
    BY <1>1, <1>2, <1>3

LEMMA TimesNext ==
    ASSUME NEW p \in Nat, NEW a \in Int, NEW b \in Int, a < b
    PROVE  a * p + p <= b * p
  <1>1. (a + 1) * p <= b * p
    BY TimesMonotone
  <1>2. (a + 1) * p = a * p + p
    OBVIOUS
  <1> QED
    BY <1>1, <1>2

\* The quotient of a division that rounds down.
LEMMA Divided ==
    ASSUME NEW p \in Nat \ {0}, NEW x \in Nat
    PROVE  /\ x \div p \in Nat
           /\ (x \div p) * p <= x
           /\ x < (x \div p) * p + p
  OBVIOUS

\* The conversion to an integer is off by less than a quantum.
LEMMA Truncated ==
    ASSUME NEW u \in Int
    PROVE  /\ Truncate(u) \in Int
           /\ u < Truncate(u) * Parts + Parts
           /\ u > Truncate(u) * Parts - Parts
           /\ u >= 0 => Truncate(u) * Parts <= u
           /\ u < 0 => Truncate(u) * Parts >= u
  <1> USE CandidatesAssumption DEF CandidatesAssumption
  <1>1. CASE u >= 0
    <2>1. Truncate(u) = u \div Parts /\ u \in Nat
      BY <1>1 DEF Truncate
    <2> QED
      BY <2>1, <1>1, Divided
  <1>2. CASE u < 0
    <2> DEFINE q == (-u) \div Parts
    <2>1. Truncate(u) = -q /\ -u \in Nat
      BY <1>2 DEF Truncate
    <2>2. q \in Nat /\ q * Parts <= -u /\ -u < q * Parts + Parts
      BY <2>1, Divided
    <2>3. (-q) * Parts = -(q * Parts) /\ q * Parts \in Int
      BY <2>2
    <2> HIDE DEF q
    <2> QED
      BY <2>1, <2>2, <2>3, <1>2
  <1> QED
    BY <1>1, <1>2

\* The clipping at the lower end never happens, at the upper end it leaves
\* nothing above the quantised threshold.
LEMMA QuantizeIs ==
    ASSUME NEW o \in 1..Outputs
    PROVE  /\ Exact(o) \in Int
           /\ Quantize(o) \in Int
           /\ \/ Exact(o) >= Hi * Parts /\ Quantize(o) = Hi
              \/ Quantize(o) = Truncate(Exact(o))
  <1> USE CandidatesAssumption DEF CandidatesAssumption, Int8
  <1>1. /\ Threshold[o] \in Nat \ {0} /\ ZeroPoint[o] \in Int /\ Lo <= ZeroPoint[o]
        /\ Parts \in Nat /\ Lo \in Int /\ Hi \in Int
    OBVIOUS
  <1>2. Lo * Parts <= ZeroPoint[o] * Parts
    BY <1>1, TimesMonotone
  <1>3. Lo * Parts \in Int /\ ZeroPoint[o] * Parts \in Int
    BY <1>1
  <1> DEFINE least == Lo * Parts
             zero == ZeroPoint[o] * Parts
             greatest == Hi * Parts
  <1>4. Exact(o) = Threshold[o] + zero
    BY DEF Exact
  <1>5. Quantize(o) = IF Exact(o) <= least THEN Lo
                      ELSE IF Exact(o) >= greatest THEN Hi
                      ELSE Truncate(Exact(o))
    BY DEF Quantize
  <1>6. least \in Int /\ zero \in Int /\ least <= zero
    BY <1>2, <1>3
  <1> SUFFICES /\ Exact(o) \in Int
               /\ Quantize(o) \in Int
               /\ \/ Exact(o) >= greatest /\ Quantize(o) = Hi
                  \/ Quantize(o) = Truncate(Exact(o))
    OBVIOUS
  <1> HIDE DEF least, zero, greatest
  <1>7. Exact(o) \in Int /\ ~(Exact(o) <= least)
    <2>1. Threshold[o] \in Int /\ Threshold[o] > 0
      BY <1>1
    <2> QED
      BY <2>1, <1>4, <1>6
  <1>8. Truncate(Exact(o)) \in Int
    BY <1>7, Truncated
  <1> QED
    BY <1>1, <1>5, <1>7, <1>8

\* A value that reaches the threshold, or exceeds it by a quantum, does so in
\* the integers.
LEMMA Reaches ==
    ASSUME NEW o \in 1..Outputs, NEW v \in Int8
    PROVE  /\ v * Parts >= Exact(o) => v >= Quantize(o)
           /\ v * Parts >= Exact(o) + Parts => v > Quantize(o)
  <1> DEFINE E == Exact(o)
             t == Quantize(o)
  <1>1. /\ E \in Int /\ t \in Int
        /\ v \in Int /\ v <= Hi /\ Parts \in Nat \ {0} /\ Hi \in Int
    BY QuantizeIs, CandidatesAssumption DEF CandidatesAssumption, Int8
  <1>2. v * Parts \in Int /\ t * Parts \in Int /\ Hi * Parts \in Int
    BY <1>1
  <1>3. v < t => v * Parts + Parts <= t * Parts
    BY <1>1, TimesNext
  <1>4. v <= t => v * Parts <= t * Parts
    BY <1>1, TimesMonotone
  <1>5. v <= Hi => v * Parts <= Hi * Parts
    BY <1>1, TimesMonotone
  <1>6. \/ E >= Hi * Parts /\ t = Hi
        \/ E > t * Parts - Parts
    BY QuantizeIs, Truncated
  <1> SUFFICES /\ v * Parts >= E => v >= t
               /\ v * Parts >= E + Parts => v > t
    OBVIOUS
  <1> HIDE DEF E, t
  <1> QED
    BY <1>1, <1>2, <1>3, <1>4, <1>5, <1>6

\* A value above the quantised threshold is above the threshold; one that
\* reaches it is less than a quantum below, unless nothing can be above.
LEMMA Exceeds ==
    ASSUME NEW o \in 1..Outputs, NEW v \in Int8
    PROVE  /\ v > Quantize(o) => v * Parts > Exact(o)
           /\ v >= Quantize(o) => v * Parts > Exact(o) - Parts \/ Quantize(o) = Hi
  <1> DEFINE E == Exact(o)
             t == Quantize(o)
  <1>1. /\ E \in Int /\ t \in Int
        /\ v \in Int /\ v <= Hi /\ Parts \in Nat \ {0} /\ Hi \in Int
    BY QuantizeIs, CandidatesAssumption DEF CandidatesAssumption, Int8
  <1>2. v * Parts \in Int /\ t * Parts \in Int
    BY <1>1
  <1>3. t < v => t * Parts + Parts <= v * Parts
    BY <1>1, TimesNext
  <1>4. t <= v => t * Parts <= v * Parts
    BY <1>1, TimesMonotone
  <1>5. t = Hi \/ E < t * Parts + Parts
    BY QuantizeIs, Truncated
  <1> SUFFICES /\ v > t => v * Parts > E
               /\ v >= t => v * Parts > E - Parts \/ t = Hi
    OBVIOUS
  <1> HIDE DEF E, t
  <1> QED
    BY <1>1, <1>2, <1>3, <1>4, <1>5

-----------------------------------------------------------------------------
(***************************************************************************)
(* The scan.                                                               *)
(***************************************************************************)

LEMMA InitInv == Init => IInv
  <1> SUFFICES ASSUME Init PROVE IInv
    OBVIOUS
  <1> USE CandidatesAssumption DEF CandidatesAssumption
  <1>1. TypeOK
    BY DEF Init, TypeOK
  <1>2. Aligned /\ OncePerCell
    BY DEF Init, Aligned, OncePerCell
  <1>3. Visited = {}
    BY DEF Init, Visited, Before, Here, Cell
  <1>4. Collected
    BY <1>3 DEF Init, Collected
  <1> QED
    BY <1>1, <1>2, <1>4 DEF IInv

\* A step of the loops passes one cell.
LEMMA AdvanceVisits ==
    ASSUME TypeOK, out <= Outputs, Advance
    PROVE  /\ out' \in 1..(Outputs + 1) /\ cell' \in 0..(Cells - 1)
           /\ Here \in Cell
           /\ Visited' = Visited \cup {Here}
  <1> USE CandidatesAssumption DEF CandidatesAssumption
  <1>1. out \in 1..Outputs /\ cell \in 0..(Cells - 1)
    BY DEF TypeOK
  <1>2. \/ cell < Cells - 1 /\ cell' = cell + 1 /\ out' = out
        \/ cell = Cells - 1 /\ cell' = 0 /\ out' = out + 1
    BY <1>1 DEF Advance
  <1>3. ASSUME NEW x \in Cell PROVE Before(x, Here') <=> Before(x, Here) \/ x = Here
    <2>1. PICK o \in 1..Outputs, n \in 0..(Cells - 1) : x = <<o, n>>
      BY DEF Cell
    <2>2. x = Here <=> o = out /\ n = cell
      BY <2>1 DEF Here
    <2>3. /\ Before(x, Here) <=> o < out \/ (o = out /\ n < cell)
          /\ Before(x, Here') <=> o < out' \/ (o = out' /\ n < cell')
      BY <2>1 DEF Before, Here
    <2>4. CASE cell < Cells - 1 /\ cell' = cell + 1 /\ out' = out
      BY <2>2, <2>3, <2>4, <1>1
    <2>5. CASE cell = Cells - 1 /\ cell' = 0 /\ out' = out + 1
      BY <2>2, <2>3, <2>5, <1>1
    <2> QED
      BY <2>4, <2>5, <1>2
  <1>4. Here \in Cell
    BY <1>1 DEF Here, Cell
  <1>5. Visited' = Visited \cup {Here}
    BY <1>3, <1>4 DEF Visited
  <1> QED
    BY <1>1, <1>2, <1>4, <1>5

LEMMA SkipStep == IInv /\ Skip => IInv'
  <1> SUFFICES ASSUME IInv, Skip PROVE IInv'
    OBVIOUS
  <1>1. /\ UNCHANGED <<tensor, boxes, objProbs, classId, validCount>>
        /\ out <= Outputs /\ Advance /\ ~Passes(tensor[Here])
    BY DEF Skip, vectors
  <1>2. /\ out' \in 1..(Outputs + 1) /\ cell' \in 0..(Cells - 1)
        /\ Visited' = Visited \cup {Here}
    BY <1>1, AdvanceVisits DEF IInv
  <1>3. TypeOK'
    BY <1>1, <1>2 DEF IInv, TypeOK
  <1>4. Aligned' /\ OncePerCell'
    BY <1>1 DEF IInv, Aligned, OncePerCell, IsMaxClass
  <1>5. Collected'
    <2>1. ~Likely(Here, tensor[Here])
      BY <1>1 DEF Likely, Passes, Here
    <2>2. \A x : Likely(x, tensor[x])' <=> Likely(x, tensor[x])
      BY <1>1 DEF Likely, Quantize, Exact, Truncate
    <2> QED
      BY <2>1, <2>2, <1>1, <1>2 DEF IInv, Collected
  <1> QED
    BY <1>3, <1>4, <1>5 DEF IInv

LEMMA CollectStep == IInv /\ Collect => IInv'
  <1> SUFFICES ASSUME IInv, Collect PROVE IInv'
    OBVIOUS
  <1> DEFINE x == tensor[Here]
             n == validCount + 1
  <1>1. PICK c \in Class :
           /\ IsMaxClass(x.prob, c)
           /\ objProbs' = Append(objProbs, <<x.prob[c], x.conf>>)
           /\ classId' = Append(classId, c)
    BY DEF Collect
  <1>2. /\ out <= Outputs /\ Advance /\ Passes(x)
        /\ boxes' = Append(boxes, Here) /\ validCount' = n
        /\ tensor' = tensor
    BY DEF Collect
  <1>3. /\ out' \in 1..(Outputs + 1) /\ cell' \in 0..(Cells - 1)
        /\ Here \in Cell
        /\ Visited' = Visited \cup {Here}
    BY <1>2, AdvanceVisits DEF IInv
  <1>4. /\ x.conf \in Int8 /\ x.prob \in [Class -> Int8] /\ x.prob[c] \in Int8
        /\ validCount \in Nat
        /\ boxes \in Seq(Cell) /\ objProbs \in Seq(Int8 \X Int8) /\ classId \in Seq(Class)
        /\ Len(boxes) = validCount /\ Len(objProbs) = validCount
        /\ Len(classId) = validCount
    BY <1>3 DEF IInv, TypeOK, Content, Aligned
  <1>5. TypeOK'
    <2>1. boxes' \in Seq(Cell) /\ classId' \in Seq(Class)
      BY <1>1, <1>2, <1>3, <1>4
    <2>2. objProbs' \in Seq(Int8 \X Int8)
      BY <1>1, <1>4
    <2>3. validCount' \in Nat
      BY <1>2, <1>4
    <2> QED
      BY <2>1, <2>2, <2>3, <1>2, <1>3 DEF IInv, TypeOK
  <1>6. /\ Len(boxes') = n /\ Len(objProbs') = n /\ Len(classId') = n
        /\ boxes'[n] = Here /\ classId'[n] = c
        /\ objProbs'[n] = <<x.prob[c], x.conf>>
        /\ \A k \in 1..validCount : /\ boxes'[k] = boxes[k]
                                    /\ objProbs'[k] = objProbs[k]
                                    /\ classId'[k] = classId[k]
    BY <1>1, <1>2, <1>4
  <1>7. 1..n = 1..validCount \cup {n}
    BY <1>4
  <1> HIDE DEF x
  <1>8. Aligned'
    <2>1. \A p, d : IsMaxClass(p, d)' <=> IsMaxClass(p, d)
      BY DEF IsMaxClass
    <2>2. ASSUME NEW k \in 1..n
          PROVE  /\ IsMaxClass(tensor[boxes'[k]].prob, classId'[k])
                 /\ objProbs'[k] = <<tensor[boxes'[k]].prob[classId'[k]],
                                     tensor[boxes'[k]].conf>>
      <3>1. CASE k = n
        BY <3>1, <1>1, <1>6 DEF x
      <3>2. CASE k \in 1..validCount
        BY <3>2, <1>6 DEF IInv, Aligned
      <3> QED
        BY <3>1, <3>2, <1>7
    <2> QED
      BY <2>1, <2>2, <1>2, <1>6 DEF Aligned
  <1>9. OncePerCell'
    <2> SUFFICES ASSUME NEW k \in 1..n, NEW l \in 1..n, k < l
                 PROVE  Before(boxes'[k], boxes'[l])
      BY <1>2 DEF OncePerCell, Before
    <2>1. k \in 1..validCount
      BY <1>4
    <2>2. CASE l = n
      BY <2>1, <2>2, <1>6 DEF IInv, Collected, Visited
    <2>3. CASE l \in 1..validCount
      BY <2>1, <2>3, <1>6 DEF IInv, OncePerCell
    <2> QED
      BY <2>2, <2>3, <1>7
  <1>10. Collected'
    <2>1. /\ x.conf >= Quantize(out)
          /\ x.prob[c] > Quantize(out)
      <3>1. x.conf >= Quantize(out) /\ \E k \in Class : x.prob[k] > Quantize(out)
        BY <1>2 DEF Passes
      <3>2. Quantize(out) \in Int
        BY <1>2, QuantizeIs DEF IInv, TypeOK
      <3>3. \A k \in Class : x.prob[k] <= x.prob[c] /\ x.prob[k] \in Int
        BY <1>1, <1>4, CandidatesAssumption DEF IsMaxClass, Int8, CandidatesAssumption
      <3>4. x.prob[c] \in Int
        BY <3>3
      <3> QED
        BY <3>1, <3>2, <3>3, <3>4
    <2>2. \A o : Quantize(o)' = Quantize(o)
      BY DEF Quantize, Exact, Truncate
    <2>3. ASSUME NEW k \in 1..n
          PROVE  /\ boxes'[k] \in Visited'
                 /\ tensor[boxes'[k]].conf >= Quantize(boxes'[k][1])
                 /\ tensor[boxes'[k]].prob[classId'[k]] > Quantize(boxes'[k][1])
      <3>1. CASE k = n
        <4>1. Here[1] = out
          BY DEF Here
        <4> QED
          BY <3>1, <4>1, <2>1, <1>3, <1>6 DEF x
      <3>2. CASE k \in 1..validCount
        BY <3>2, <1>3, <1>6 DEF IInv, Collected
      <3> QED
        BY <3>1, <3>2, <1>7
    <2>4. ASSUME NEW y \in Visited', Likely(y, tensor[y])
          PROVE  \E k \in 1..n : boxes'[k] = y
      <3>1. CASE y = Here
        BY <3>1, <1>6, <1>7
      <3>2. CASE y \in Visited
        <4>1. PICK k \in 1..validCount : boxes[k] = y
          BY <2>4, <3>2 DEF IInv, Collected
        <4> QED
          BY <4>1, <1>6, <1>7
      <3> QED
        BY <3>1, <3>2, <1>3
    <2>5. \A y : Likely(y, tensor[y])' <=> Likely(y, tensor[y])
      BY <1>2 DEF Likely, Quantize, Exact, Truncate
    <2> QED
      BY <2>2, <2>3, <2>4, <2>5, <1>2 DEF Collected
  <1> QED
    BY <1>5, <1>8, <1>9, <1>10 DEF IInv

LEMMA StutterStep == IInv /\ UNCHANGED vars => IInv'
  <1> SUFFICES ASSUME IInv, UNCHANGED vars PROVE IInv'
    OBVIOUS
  <1> USE DEF vars, vectors
  <1>1. Visited' = Visited
    BY DEF Visited, Here
  <1>2. TypeOK'
    BY DEF IInv, TypeOK
  <1>3. Aligned'
    BY DEF IInv, Aligned
  <1>4. OncePerCell'
    BY DEF IInv, OncePerCell
  <1>5. Collected'
    BY <1>1 DEF IInv, Collected
  <1> QED
    BY <1>2, <1>3, <1>4, <1>5 DEF IInv

-----------------------------------------------------------------------------
\* Every reachable state of the scan satisfies the inductive invariant.
THEOREM Invariance == Spec => []IInv
  <1>1. IInv /\ [Next]_vars => IInv'
    BY SkipStep, CollectStep, StutterStep DEF Next
  <1> QED
    BY <1>1, InitInv, PTL DEF Spec

\* Type correctness of the scan.
THEOREM Typed == Spec => []TypeOK
  BY Invariance, PTL DEF IInv

\* What nms and the report find under one index belongs to one cell, and no
\* cell has two indices, whatever the outputs hold.
THEOREM OneIndexPerCell == Spec => []CandidatesAligned
  <1>1. IInv => CandidatesAligned
    BY DEF IInv, CandidatesAligned
  <1> QED
    BY <1>1, Invariance, PTL

\* Comparing quantised values with the quantised threshold misses nothing that
\* is above the threshold by a quantum and lets nothing pass that is below it
\* by as much, for every scale and zero point.
THEOREM ThresholdHolds == Spec => []WithinOneQuantum
  <1>1. IInv => NoneMissed
    <2> SUFFICES ASSUME IInv, NEW x \in Visited,
                        tensor[x].conf * Parts >= Exact(x[1]),
                        NEW c \in Class,
                        tensor[x].prob[c] * Parts >= Exact(x[1]) + Parts
                 PROVE  \E k \in 1..validCount : boxes[k] = x
      BY DEF NoneMissed
    <2>1. /\ x \in Cell /\ x[1] \in 1..Outputs
          /\ tensor[x].conf \in Int8 /\ tensor[x].prob[c] \in Int8
      BY DEF Visited, Cell, IInv, TypeOK, Content
    <2>2. tensor[x].conf >= Quantize(x[1]) /\ tensor[x].prob[c] > Quantize(x[1])
      BY <2>1, Reaches
    <2> QED
      BY <2>2 DEF IInv, Collected, Likely
  <1>2. IInv => NoneTooLow
    <2> SUFFICES ASSUME IInv, NEW k \in 1..validCount
                 PROVE  LET x == tensor[boxes[k]]
                            o == boxes[k][1]
                        IN /\ x.prob[classId[k]] * Parts > Exact(o)
                           /\ x.conf * Parts > Exact(o) - Parts
      BY DEF NoneTooLow
    <2> DEFINE x == tensor[boxes[k]]
               o == boxes[k][1]
               p == x.prob[classId[k]]
    <2>1. boxes[k] \in Cell /\ classId[k] \in Class
      BY DEF IInv, TypeOK, Aligned
    <2>2. o \in 1..Outputs /\ x.conf \in Int8 /\ p \in Int8
      <3>1. tensor \in [Cell -> Content]
        BY DEF IInv, TypeOK
      <3>2. x \in Content
        BY <2>1, <3>1
      <3>3. x.conf \in Int8 /\ x.prob \in [Class -> Int8]
        BY <3>2 DEF Content
      <3>4. p \in Int8
        BY <2>1, <3>3
      <3>5. o \in 1..Outputs
        BY <2>1 DEF Cell
      <3> QED
        BY <3>3, <3>4, <3>5
    <2>3. x.conf >= Quantize(o) /\ p > Quantize(o)
      BY DEF IInv, Collected
    <2>4. Quantize(o) # Hi
      <3>1. Quantize(o) \in Int
        BY <2>2, QuantizeIs
      <3>2. p \in Int /\ p <= Hi /\ Hi \in Int
        BY <2>2, CandidatesAssumption DEF Int8, CandidatesAssumption
      <3> QED
        BY <2>3, <3>1, <3>2
    <2>5. /\ p > Quantize(o) => p * Parts > Exact(o)
          /\ x.conf >= Quantize(o) => x.conf * Parts > Exact(o) - Parts \/ Quantize(o) = Hi
      BY <2>2, Exceeds
    <2> QED
      BY <2>3, <2>4, <2>5
  <1>3. IInv => WithinOneQuantum
    BY <1>1, <1>2 DEF WithinOneQuantum
  <1> QED
    BY <1>3, Invariance, PTL

=============================================================================
