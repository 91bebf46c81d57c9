------------------------------- MODULE Labels -------------------------------
(***************************************************************************)
(* The table of class names in src/postprocess.cc: each worker that enters *)
(* post_process tests the static flag init, loads the label file if it is  *)
(* not set, and later takes the name of a class from the table.  Nothing   *)
(* is locked, so several workers may load at once.                         *)
(*                                                                         *)
(* The name on line k of the file is represented by k, counted from 0; a   *)
(* line is malloced by readLine and never freed (deinitPostProcess has no  *)
(* caller).                                                                *)
(***************************************************************************)
EXTENDS Integers

CONSTANTS Workers,    \* threads that call post_process
          ClassNum    \* OBJ_CLASS_NUM, not 0

VARIABLES
    lines,     \* lines of the label file, -1 when it cannot be opened
    labels,    \* the static table
    init,      \* the static flag: TRUE when it is 0
    at,        \* where each worker's call of post_process is
    i,         \* readLines: lines stored by each worker's call
    found,     \* the name that was looked up last
    cut        \* history: a readLine failed before the end of the file

labelVars == <<lines, labels, init, at, i, found, cut>>

Class   == 0..(ClassNum - 1)
NoName  == -1                  \* nullptr
Unknown == -2                  \* nobody has opened the file yet

LabelsTypeOK ==
    /\ lines \in {Unknown} \cup (-1)..ClassNum
    /\ labels \in [Class -> Class \cup {NoName}]
    /\ init \in BOOLEAN
    /\ at \in [Workers -> {"out", "open", "read", "flag", "loaded"}]
    /\ i \in [Workers -> 0..ClassNum]
    /\ found \in [class : Class, name : Class \cup {NoName}]
    /\ cut \in BOOLEAN

LabelsInit ==
    /\ lines = Unknown
    /\ labels = [c \in Class |-> NoName]
    /\ init = FALSE
    /\ at = [w \in Workers |-> "out"]
    /\ i = [w \in Workers |-> 0]
    /\ found = [class |-> 0, name |-> 0]
    /\ cut = FALSE

-----------------------------------------------------------------------------
Goto(w, s) == at' = [at EXCEPT ![w] = s]

SetFlagFirst(w) ==        \* mutant of TestFlag: init = 0 before the load
    /\ at[w] = "out"
    /\ Goto(w, IF init THEN "loaded" ELSE "open")
    /\ init' = TRUE
    /\ UNCHANGED <<lines, labels, i, found, cut>>

TestFlag(w) ==
    /\ at[w] = "out"
    /\ Goto(w, IF init THEN "loaded" ELSE "open")
    /\ UNCHANGED <<lines, labels, init, i, found, cut>>

\* The file may be missing, too short, or have a line for every class.
\* readLines returns -1 when fopen fails; loadLabelName returns 0 all the same.
OpenFile(w) ==
    /\ at[w] = "open"
    /\ lines' \in IF lines = Unknown THEN (-1)..ClassNum ELSE {lines}
    /\ Goto(w, IF lines' = -1 THEN "flag" ELSE "read")
    /\ i' = [i EXCEPT ![w] = 0]
    /\ UNCHANGED <<labels, init, found, cut>>

\* lines[i++] = s, and the loop ends when the table is full.
StoreLine(w) ==
    /\ at[w] = "read"
    /\ i[w] < lines
    /\ labels' = [labels EXCEPT ![i[w]] = i[w]]
    /\ i' = [i EXCEPT ![w] = @ + 1]
    /\ Goto(w, IF i[w] + 1 = ClassNum THEN "flag" ELSE "read")
    /\ UNCHANGED <<lines, init, found, cut>>

\* readLine returns NULL: at the end of the file, or for want of memory, or
\* after a read error.
NoMoreLines(w) ==
    /\ at[w] = "read"
    /\ cut' = (cut \/ i[w] < lines)
    /\ Goto(w, "flag")
    /\ UNCHANGED <<lines, labels, init, i, found>>

SetFlag(w) ==
    /\ at[w] = "flag"
    /\ init' = TRUE
    /\ Goto(w, "loaded")
    /\ UNCHANGED <<lines, labels, i, found, cut>>

\* The name of one of the results; a missing one goes to strncpy as nullptr.
LookUp(w, c) ==
    /\ at[w] = "loaded"
    /\ found' = [class |-> c, name |-> labels[c]]
    /\ UNCHANGED <<lines, labels, init, at, i, cut>>

Return(w) ==
    /\ at[w] = "loaded"
    /\ Goto(w, "out")
    /\ UNCHANGED <<lines, labels, init, i, found, cut>>

Load(w) == TestFlag(w) \/ OpenFile(w) \/ StoreLine(w) \/ SetFlag(w)

LabelsNext ==
    \E w \in Workers :
        Load(w) \/ NoMoreLines(w) \/ Return(w) \/ \E c \in Class : LookUp(w, c)

LabelsSpec == LabelsInit /\ [][LabelsNext]_labelVars

-----------------------------------------------------------------------------
\* Whoever loaded the table, and however many workers were loading it at the
\* same time, a name that is looked up is the one the file gives the class;
\* there is none only if the file has too few lines or reading it was cut
\* short (post_process's unguarded flag).
NamedAsInFile ==
    \/ found.name = found.class
    \/ found.name = NoName /\ (cut \/ lines <= found.class)

=============================================================================
