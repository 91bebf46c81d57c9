----------------------------- MODULE PostProcess -----------------------------
(***************************************************************************)
(* What post_process (src/postprocess.cc) does with the candidates that    *)
(* process collected (module Candidates): they are sorted, overlapping     *)
(* boxes are suppressed (nms) and what is left is reported.                *)
(*                                                                         *)
(* The sort is one action here and stands for what QuickSort establishes,  *)
(* any order among equal confidences.  Of the boxes only the pairs that    *)
(* overlap by more than nms_threshold matter, and only nms looks at them:  *)
(* which ones do is chosen when it is first called.                        *)
(***************************************************************************)
EXTENDS Integers, Sequences, Functions

CONSTANTS
    K,            \* validCount, positive: post_process returns at once for 0
    Scores,       \* confidences, which only have to be comparable
    Classes,      \* class numbers
    MaxReported   \* OBJ_NUMB_MAX_SIZE

ASSUME PostProcessAssumption ==
    /\ K \in Nat \ {0}
    /\ Scores \subseteq Int
    /\ Classes \subseteq Int
    /\ MaxReported \in Nat \ {0}

VARIABLES
    pc,
    score,        \* the candidates' confidences
    classId,      \* the candidates' classes
    overlap,      \* the pairs of candidates that overlap too much, from nms on
    objProbs,     \* confidences by rank, after the sort
    indexArray,   \* candidates by rank; Gone for a suppressed one
    ranking,      \* history: indexArray as the sort left it
    todo,         \* classes of class_set for which nms has not returned
    i,            \* the loop in progress
    results,      \* group->results
    count         \* group->count

inputs == <<score, classId, overlap>>
vars   == <<pc, inputs, objProbs, indexArray, ranking, todo, i, results, count>>

Positions == 0..(K - 1)
Gone      == -1
Pairs     == {{p[1], p[2]} : p \in {q \in Positions \X Positions : q[1] < q[2]}}
Result    == [box : Positions, class : Classes, prop : Scores]

TypeOK ==
    /\ pc \in {"sort", "nms", "report", "done"}
    /\ score \in [Positions -> Scores]
    /\ classId \in [Positions -> Classes]
    /\ overlap \in SUBSET Pairs
    /\ objProbs \in [Positions -> Scores]
    /\ indexArray \in [Positions -> Positions \cup {Gone}]
    /\ ranking \in [Positions -> Positions]
    /\ todo \in SUBSET Classes
    /\ i \in 0..K
    /\ results \in Seq(Result)
    /\ Len(results) <= MaxReported
    /\ count \in 0..MaxReported

Init ==
    /\ pc = "sort"
    /\ score \in [Positions -> Scores]
    /\ classId \in [Positions -> Classes]
    /\ overlap = {}
    /\ objProbs = score
    /\ indexArray = [r \in Positions |-> r]
    /\ ranking = indexArray
    /\ todo = {}
    /\ i = 0
    /\ results = <<>>
    /\ count = 0

-----------------------------------------------------------------------------
Overlaps(a, b) == {a, b} \in overlap

\* quick_sort_indice_inverse, then class_set.
Sort ==
    /\ pc = "sort"
    /\ \E p \in [Positions -> Positions] :
         /\ IsInjective(p)
         /\ \A r, s \in Positions : r < s => score[p[r]] >= score[p[s]]
         /\ indexArray' = p
         /\ ranking' = p
         /\ objProbs' = [r \in Positions |-> score[p[r]]]
    /\ overlap' \in SUBSET Pairs
    /\ todo' = {classId[a] : a \in Positions}
    /\ pc' = "nms"
    /\ UNCHANGED <<score, classId, i, results, count>>

\* Iterating over a std::set goes through the classes in ascending order.
IsFilter(c) ==
    /\ pc = "nms"
    /\ c \in todo
    /\ \A d \in todo : c <= d

\* The class is looked up with the rank, not with the candidate at that rank.
Filtered(c, r) == indexArray[r] # Gone /\ classId[r] = c

SkipRank(c) ==
    /\ IsFilter(c)
    /\ i < K
    /\ ~Filtered(c, i)
    /\ i' = i + 1
    /\ UNCHANGED <<pc, inputs, objProbs, indexArray, ranking, todo, results, count>>

SuppressOwnClass(c) ==       \* mutant of Suppress: the class of j is tested
    /\ IsFilter(c)
    /\ i < K
    /\ Filtered(c, i)
    /\ indexArray' = [r \in Positions |->
           IF r > i /\ Filtered(c, r) /\ Overlaps(indexArray[i], indexArray[r])
           THEN Gone ELSE indexArray[r]]
    /\ i' = i + 1
    /\ UNCHANGED <<pc, inputs, objProbs, ranking, todo, results, count>>

SuppressAll(c) ==            \* mutant of Suppress: j starts at 0
    /\ IsFilter(c)
    /\ i < K
    /\ Filtered(c, i)
    /\ indexArray' = [r \in Positions |->
           IF r # i /\ indexArray[r] # Gone /\ Overlaps(indexArray[i], indexArray[r])
           THEN Gone ELSE indexArray[r]]
    /\ i' = i + 1
    /\ UNCHANGED <<pc, inputs, objProbs, ranking, todo, results, count>>

\* One iteration of nms's outer loop.  The inner loop tests classIds[i] again
\* instead of the class of j, so boxes of every class are suppressed.
Suppress(c) ==
    /\ IsFilter(c)
    /\ i < K
    /\ Filtered(c, i)
    /\ indexArray' = [r \in Positions |->
           IF r > i /\ indexArray[r] # Gone /\ Overlaps(indexArray[i], indexArray[r])
           THEN Gone ELSE indexArray[r]]
    /\ i' = i + 1
    /\ UNCHANGED <<pc, inputs, objProbs, ranking, todo, results, count>>

\* nms returns; after the last class the report starts.
EndFilter(c) ==
    /\ IsFilter(c)
    /\ i = K
    /\ i' = 0
    /\ todo' = todo \ {c}
    /\ pc' = IF todo = {c} THEN "report" ELSE "nms"
    /\ UNCHANGED <<inputs, objProbs, indexArray, ranking, results, count>>

Room == Len(results) < MaxReported

StopAtGone ==                \* mutant of PassOver: break for continue
    /\ pc = "report"
    /\ i < K
    /\ indexArray[i] = Gone \/ ~Room
    /\ i' = K
    /\ UNCHANGED <<pc, inputs, objProbs, indexArray, ranking, todo, results, count>>

PassOver ==
    /\ pc = "report"
    /\ i < K
    /\ indexArray[i] = Gone \/ ~Room
    /\ i' = i + 1
    /\ UNCHANGED <<pc, inputs, objProbs, indexArray, ranking, todo, results, count>>

ReportByRank ==              \* mutant of Report: the slip of nms, repeated
    /\ pc = "report"
    /\ i < K
    /\ indexArray[i] # Gone
    /\ Room
    /\ results' = Append(results,
           [box |-> indexArray[i], class |-> classId[i], prop |-> objProbs[i]])
    /\ i' = i + 1
    /\ UNCHANGED <<pc, inputs, objProbs, indexArray, ranking, todo, count>>

Report ==
    /\ pc = "report"
    /\ i < K
    /\ indexArray[i] # Gone
    /\ Room
    /\ results' = Append(results,
           [box |-> indexArray[i], class |-> classId[indexArray[i]], prop |-> objProbs[i]])
    /\ i' = i + 1
    /\ UNCHANGED <<pc, inputs, objProbs, indexArray, ranking, todo, count>>

Finish ==
    /\ pc = "report"
    /\ i = K
    /\ count' = Len(results)
    /\ pc' = "done"
    /\ UNCHANGED <<inputs, objProbs, indexArray, ranking, todo, i, results>>

Next ==
    \/ Sort
    \/ \E c \in Classes : SkipRank(c) \/ Suppress(c) \/ EndFilter(c)
    \/ PassOver
    \/ Report
    \/ Finish

Spec == Init /\ [][Next]_vars

-----------------------------------------------------------------------------
Survivors == {r \in Positions : indexArray[r] # Gone}

\* No two reported boxes overlap, of whatever classes they are.
NothingOverlaps ==
    \A k, l \in 1..Len(results) : k # l => ~Overlaps(results[k].box, results[l].box)

\* A box is only suppressed beside one that is at least as likely.
DroppedForBetter ==
    \A s \in Positions \ Survivors :
        \E r \in Positions : /\ r < s
                             /\ Overlaps(ranking[r], ranking[s])
                             /\ score[ranking[r]] >= score[ranking[s]]

\* A result's box, class and confidence belong to one candidate, and results
\* are reported in descending order of confidence, none of them twice.
ResultsBelongTogether ==
    /\ \A k \in 1..Len(results) :
         /\ results[k].class = classId[results[k].box]
         /\ results[k].prop = score[results[k].box]
    /\ \A k, l \in 1..Len(results) : k < l =>
         results[k].box # results[l].box /\ results[k].prop >= results[l].prop

\* The report holds the likeliest candidate, and the table's size is the only
\* reason for leaving out one that was not suppressed; the ones left out are
\* the least likely.
BestReported ==
    pc = "done" =>
        /\ count = Len(results)
        /\ count > 0 /\ results[1].box = ranking[0]
        /\ \A r \in Survivors :
             \/ \E k \in 1..count : results[k].box = indexArray[r]
             \/ /\ count = MaxReported
                /\ \A k \in 1..count : results[k].prop >= objProbs[r]

=============================================================================
