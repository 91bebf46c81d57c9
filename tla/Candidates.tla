----------------------------- MODULE Candidates -----------------------------
(***************************************************************************)
(* The collection of candidates (process in src/postprocess.cc, called     *)
(* for the model's three outputs by post_process): which cells of the      *)
(* quantised outputs become candidates, and the vectors that describe      *)
(* them.                                                                   *)
(*                                                                         *)
(* A cell is a pair of an anchor and a grid position; its box is           *)
(* represented by the cell it is decoded from, its confidence by the two   *)
(* quantised factors.  Reals are counted in quanta of the output, 1/Parts  *)
(* of a quantum being the unit.                                            *)
(***************************************************************************)
EXTENDS Integers, Sequences

CONSTANTS
    Lo, Hi,       \* INT8_MIN and INT8_MAX
    Parts,        \* resolution of the threshold
    Outputs,      \* number of outputs of the model: 3
    Cells,        \* cells of an output
    Classes,      \* OBJ_CLASS_NUM
    Threshold,    \* threshold / scale of an output, in units: a sequence
    ZeroPoint     \* qnt_zps: a sequence

Int8 == Lo..Hi

\* A quantisation's zero point is one of its values and BOX_THRESH is positive.
ASSUME CandidatesAssumption ==
    /\ Lo \in Int /\ Hi \in Int /\ Lo < Hi
    /\ Parts \in Nat \ {0}
    /\ Outputs \in Nat \ {0}
    /\ Cells \in Nat \ {0}
    /\ Classes \in Nat \ {0}
    /\ Threshold \in [1..Outputs -> Nat \ {0}]
    /\ ZeroPoint \in [1..Outputs -> Int8]

VARIABLES
    tensor,      \* the quantised outputs of one inference
    out,         \* the call of process in progress
    cell,        \* the cell its loops have reached
    boxes,       \* filterBoxes: the cell each box is decoded from
    objProbs,    \* the class probability and the box confidence
    classId,
    validCount   \* validCount0 + validCount1 + validCount2

vectors == <<boxes, objProbs, classId, validCount>>
vars    == <<tensor, out, cell, vectors>>

Class   == 0..(Classes - 1)
Cell    == (1..Outputs) \X (0..(Cells - 1))
Content == [conf : Int8, prob : [Class -> Int8]]

TypeOK ==
    /\ tensor \in [Cell -> Content]
    /\ out \in 1..(Outputs + 1)
    /\ cell \in 0..(Cells - 1)
    /\ boxes \in Seq(Cell)
    /\ objProbs \in Seq(Int8 \X Int8)
    /\ classId \in Seq(Class)
    /\ validCount \in Nat

Init ==
    /\ tensor \in [Cell -> Content]
    /\ out = 1
    /\ cell = 0
    /\ boxes = <<>>
    /\ objProbs = <<>>
    /\ classId = <<>>
    /\ validCount = 0

-----------------------------------------------------------------------------
\* The threshold among the quantised values, before it is rounded.
Exact(o) == Threshold[o] + ZeroPoint[o] * Parts

\* The conversion to int32_t in __clip drops the fraction, towards zero.
Truncate(units) ==
    IF units >= 0 THEN units \div Parts ELSE -((-units) \div Parts)

RoundUp(o) ==                   \* mutant of Quantize: one quantum too much
    IF Exact(o) >= Hi * Parts THEN Hi ELSE Truncate(Exact(o)) + 1

\* qnt_f32_to_affine.
Quantize(o) ==
    IF Exact(o) <= Lo * Parts THEN Lo
    ELSE IF Exact(o) >= Hi * Parts THEN Hi
    ELSE Truncate(Exact(o))

Here == <<out, cell>>

\* The first of the classes with the highest probability.
IsMaxClass(prob, c) ==
    /\ \A k \in Class : prob[k] <= prob[c]
    /\ \A k \in Class : k < c => prob[k] < prob[c]

\* The next cell of the output; after the last one the next call of process.
Advance ==
    IF cell < Cells - 1
    THEN cell' = cell + 1 /\ UNCHANGED out
    ELSE cell' = 0 /\ out' = out + 1

\* A box without a sufficiently likely class is no candidate either.
Passes(x) ==
    /\ x.conf >= Quantize(out)
    /\ \E k \in Class : x.prob[k] > Quantize(out)

Skip ==
    /\ out <= Outputs
    /\ ~Passes(tensor[Here])
    /\ Advance
    /\ UNCHANGED <<tensor, vectors>>

CollectNoReset ==               \* mutant of Collect: maxClassId is the last
    /\ out <= Outputs          \* candidate's when class 0 is the best
    /\ Passes(tensor[Here])
    /\ \E c \in Class :
         /\ IsMaxClass(tensor[Here].prob, c)
         /\ objProbs' = Append(objProbs, <<tensor[Here].prob[c], tensor[Here].conf>>)
         /\ classId' = Append(classId,
                IF c = 0 /\ validCount > 0 THEN classId[validCount] ELSE c)
    /\ boxes' = Append(boxes, Here)
    /\ validCount' = validCount + 1
    /\ Advance
    /\ UNCHANGED tensor

Collect ==
    /\ out <= Outputs
    /\ Passes(tensor[Here])
    /\ \E c \in Class :
         /\ IsMaxClass(tensor[Here].prob, c)
         /\ objProbs' = Append(objProbs, <<tensor[Here].prob[c], tensor[Here].conf>>)
         /\ classId' = Append(classId, c)
    /\ boxes' = Append(boxes, Here)
    /\ validCount' = validCount + 1
    /\ Advance
    /\ UNCHANGED tensor

Next == Skip \/ Collect

Spec == Init /\ [][Next]_vars

-----------------------------------------------------------------------------
Before(x, y) == x[1] < y[1] \/ (x[1] = y[1] /\ x[2] < y[2])

Visited == {x \in Cell : Before(x, Here)}

\* The three vectors and the count that nms and the report index with the
\* same number describe the same candidates: the class is the likeliest one of
\* the cell and the confidence is that of the cell and of that class.
Aligned ==
    /\ Len(boxes) = validCount /\ Len(objProbs) = validCount /\ Len(classId) = validCount
    /\ \A k \in 1..validCount :
         LET x == tensor[boxes[k]]
         IN IsMaxClass(x.prob, classId[k]) /\ objProbs[k] = <<x.prob[classId[k]], x.conf>>

\* A cell gives at most one candidate, and candidates are in scan order.
OncePerCell ==
    \A k, l \in 1..validCount : k < l => Before(boxes[k], boxes[l])

\* Both: what nms and the report find under one index is one cell's candidate,
\* and every candidate has one index.
CandidatesAligned == Aligned /\ OncePerCell

\* Rounding and clipping the threshold lose no candidate whose confidence
\* reaches it and whose class probability exceeds it by a quantum.
NoneMissed ==
    \A x \in Visited :
        (/\ tensor[x].conf * Parts >= Exact(x[1])
         /\ \E c \in Class : tensor[x].prob[c] * Parts >= Exact(x[1]) + Parts)
        => \E k \in 1..validCount : boxes[k] = x

\* ... and let no candidate pass whose class probability is below the
\* threshold, or whose confidence is below it by a quantum.
NoneTooLow ==
    \A k \in 1..validCount :
        LET x == tensor[boxes[k]]
            o == boxes[k][1]
        IN /\ x.prob[classId[k]] * Parts > Exact(o)
           /\ x.conf * Parts > Exact(o) - Parts

\* Both: in the integers the threshold decides as it does in the reals, to
\* within one quantum (qnt_f32_to_affine and the comparisons in process).
WithinOneQuantum == NoneMissed /\ NoneTooLow

=============================================================================
