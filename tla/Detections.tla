------------------------------ MODULE Detections -----------------------------
(***************************************************************************)
(* post_process as it is called: quick_sort_indice_inverse, step by step   *)
(* (module QuickSort), on the confidences and the index array, then what   *)
(* PostProcess says.  It implements PostProcess, whose Sort is the whole   *)
(* call.                                                                   *)
(***************************************************************************)
EXTENDS PostProcess

VARIABLES sortPc, input, indices, stack, left, right, low, high, key, keyIndex

S == INSTANCE QuickSort WITH pc <- sortPc

sorting == <<sortPc, input, indices, stack, left, right, low, high, key, keyIndex>>

DetectionsInit == Init /\ S!Init

SortsCopy ==               \* mutant of SortReturns: objProbs is passed by value
    /\ pc = "sort"
    /\ S!Sorted
    /\ indexArray' = indices
    /\ ranking' = indices
    /\ objProbs' = score
    /\ overlap' \in SUBSET Pairs
    /\ todo' = {classId[a] : a \in Positions}
    /\ pc' = "nms"
    /\ UNCHANGED <<score, classId, i, results, count, sorting>>

\* objProbs and indexArray are sorted in place.
SortReturns ==
    /\ pc = "sort"
    /\ S!Sorted
    /\ indexArray' = indices
    /\ ranking' = indices
    /\ objProbs' = input
    /\ overlap' \in SUBSET Pairs
    /\ todo' = {classId[a] : a \in Positions}
    /\ pc' = "nms"
    /\ UNCHANGED <<score, classId, i, results, count, sorting>>

DetectionsNext ==
    \/ S!Next /\ UNCHANGED vars
    \/ SortReturns
    \/ \E c \in Classes : (SkipRank(c) \/ Suppress(c) \/ EndFilter(c)) /\ UNCHANGED sorting
    \/ (PassOver \/ Report \/ Finish) /\ UNCHANGED sorting

DetectionsSpec ==
    /\ DetectionsInit /\ [][DetectionsNext]_<<vars, sorting>>
    /\ WF_<<vars, sorting>>(DetectionsNext)

-----------------------------------------------------------------------------
\* The scans stop inside the range they were called for, also when every
\* confidence is the same.
SortInBounds == S!TypeOK

\* Between two calls of the sort every candidate has exactly one place, and the
\* confidence in it is its own: post_process reports objProbs[i] with the box
\* and the class of indexArray[i].
Paired == S!Paired

\* Between two calls of the sort, a place that no call still to be made covers
\* holds the confidence it will hold in the end; after the last call this is
\* the descending order.
SettledSoFar == S!SettledSoFar

\* All three: the sort rearranges two arrays in step, inside its range, and no
\* later call of it undoes what an earlier one settled.
SortsInPlace == SortInBounds /\ Paired /\ SettledSoFar

\* post_process returns, also with equal confidences.
Returns == <>(pc = "done")

\* Sorted in place, step by step, and suppressed and reported from there:
\* everything PostProcess allows and nothing else.
ImplementsPostProcess == Spec

=============================================================================
