------------------------------ MODULE QuickSort ------------------------------
(***************************************************************************)
(* quick_sort_indice_inverse (src/postprocess.cc): the confidences are     *)
(* sorted in place, highest first, and the candidates' numbers with them.  *)
(* One action per step of its loops.  The recursion is the stack of calls  *)
(* that have not been made yet; the next one is the last element.          *)
(***************************************************************************)
EXTENDS Integers, Sequences, Functions

CONSTANTS K,        \* validCount, positive
          Scores    \* confidences, which only have to be comparable

VARIABLES
    pc,         \* see PC
    score,      \* history: objProbs as it was before the sort
    input,      \* objProbs
    indices,    \* indexArray
    stack,      \* ranges <<left, right>> still to be sorted
    left, right, low, high, key, keyIndex   \* the call in progress

cells == <<input, indices>>
frame == <<left, right, key, keyIndex>>
vars  == <<pc, score, cells, stack, frame, low, high>>

Positions == 0..(K - 1)
PC == {"call", "scan_high", "scan_low", "place"}

TypeOK ==
    /\ pc \in PC
    /\ score \in [Positions -> Scores]
    /\ input \in [Positions -> Scores]
    /\ indices \in [Positions -> Positions]
    /\ stack \in Seq((0..K) \X (-1..(K - 1)))
    /\ left \in Positions /\ right \in Positions
    /\ low \in Positions /\ high \in Positions
    /\ key \in Scores
    /\ keyIndex \in Positions

\* post_process numbers the candidates and sorts all of them.
Init ==
    /\ pc = "call"
    /\ score \in [Positions -> Scores]
    /\ input = score
    /\ indices = [i \in Positions |-> i]
    /\ stack = <<<<0, K - 1>>>>
    /\ left = 0 /\ right = 0
    /\ low = 0 /\ high = 0
    /\ key = score[0]
    /\ keyIndex = 0

-----------------------------------------------------------------------------
NextCall == stack[Len(stack)]

Pop == SubSeq(stack, 1, Len(stack) - 1)

\* A range of one element or of none.
ReturnAtOnce ==
    /\ pc = "call"
    /\ stack # <<>>
    /\ NextCall[1] >= NextCall[2]
    /\ stack' = Pop
    /\ UNCHANGED <<pc, score, cells, frame, low, high>>

EnterFromZero ==           \* mutant of Enter: low does not start at left
    /\ pc = "call"
    /\ stack # <<>>
    /\ NextCall[1] < NextCall[2]
    /\ stack' = Pop
    /\ left' = NextCall[1]
    /\ right' = NextCall[2]
    /\ low' = 0
    /\ high' = NextCall[2]
    /\ key' = input[NextCall[1]]
    /\ keyIndex' = indices[NextCall[1]]
    /\ pc' = "scan_high"
    /\ UNCHANGED <<score, cells>>

Enter ==
    /\ pc = "call"
    /\ stack # <<>>
    /\ NextCall[1] < NextCall[2]
    /\ stack' = Pop
    /\ left' = NextCall[1]
    /\ right' = NextCall[2]
    /\ low' = NextCall[1]
    /\ high' = NextCall[2]
    /\ key' = input[NextCall[1]]
    /\ keyIndex' = indices[NextCall[1]]
    /\ pc' = "scan_high"
    /\ UNCHANGED <<score, cells>>

BelongsRight == low < high /\ input[high] <= key

ScanHigh ==
    /\ pc = "scan_high"
    /\ BelongsRight
    /\ high' = high - 1
    /\ UNCHANGED <<pc, score, cells, stack, frame, low>>

FillLow ==
    /\ pc = "scan_high"
    /\ ~BelongsRight
    /\ input' = [input EXCEPT ![low] = input[high]]
    /\ indices' = [indices EXCEPT ![low] = indices[high]]
    /\ pc' = "scan_low"
    /\ UNCHANGED <<score, stack, frame, low, high>>

BelongsLeft == low < high /\ input[low] >= key

ScanLow ==
    /\ pc = "scan_low"
    /\ BelongsLeft
    /\ low' = low + 1
    /\ UNCHANGED <<pc, score, cells, stack, frame, high>>

RepeatOnce ==              \* mutant of FillHigh: the outer loop runs to low <= high
    /\ pc = "scan_low"
    /\ ~BelongsLeft
    /\ input' = [input EXCEPT ![high] = input[low]]
    /\ indices' = [indices EXCEPT ![high] = indices[low]]
    /\ pc' = IF low <= high THEN "scan_high" ELSE "place"
    /\ UNCHANGED <<score, stack, frame, low, high>>

FillHigh ==
    /\ pc = "scan_low"
    /\ ~BelongsLeft
    /\ input' = [input EXCEPT ![high] = input[low]]
    /\ indices' = [indices EXCEPT ![high] = indices[low]]
    /\ pc' = IF low < high THEN "scan_high" ELSE "place"
    /\ UNCHANGED <<score, stack, frame, low, high>>

\* The key takes the hole; the left part is sorted before the right part.
Place ==
    /\ pc = "place"
    /\ input' = [input EXCEPT ![low] = key]
    /\ indices' = [indices EXCEPT ![low] = keyIndex]
    /\ stack' = stack \o <<<<low + 1, right>>, <<left, low - 1>>>>
    /\ pc' = "call"
    /\ UNCHANGED <<score, frame, low, high>>

Next ==
    \/ ReturnAtOnce
    \/ Enter
    \/ ScanHigh
    \/ FillLow
    \/ ScanLow
    \/ FillHigh
    \/ Place

Spec == Init /\ [][Next]_vars

-----------------------------------------------------------------------------
Sorted == pc = "call" /\ stack = <<>>

\* Between two calls every candidate has exactly one place, and the
\* confidence in it is its own: post_process reports objProbs[i] with the box
\* and the class of indexArray[i].
Paired ==
    pc = "call" => /\ IsInjective(indices)
                   /\ \A i \in Positions : input[i] = score[indices[i]]

\* Between two calls, a place that no call still to be made covers holds what
\* it will hold when the sort returns: nothing before it is less likely and
\* nothing after it is more likely.
SettledSoFar ==
    pc = "call" =>
        \A i \in Positions :
            (\A s \in 1..Len(stack) : ~ (stack[s][1] <= i /\ i <= stack[s][2] /\ stack[s][1] < stack[s][2]))
                => \A j \in Positions : IF j < i THEN input[j] >= input[i] ELSE input[j] <= input[i]

=============================================================================
