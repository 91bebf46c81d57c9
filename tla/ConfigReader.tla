---------------------------- MODULE ConfigReader ----------------------------
(***************************************************************************)
(* INIReader on ini_parse_stream (src/ini.c), as they are compiled here:   *)
(* with continuation lines, without stopping at the first error.  One      *)
(* action per kind of line.                                                *)
(*                                                                         *)
(* A line is what the parser distinguishes after it has cut comments and   *)
(* white space; a value is the texts it is joined from, each with the      *)
(* number of its line.  Lines are shorter than INI_MAX_LINE and names are  *)
(* not empty, values may be.                                               *)
(***************************************************************************)
EXTENDS Integers, Sequences

CONSTANTS Sections, Names,
          Value,        \* what a line can say behind = or :
          Empty,        \* ... when it says nothing there
          MaxLines      \* bound: lines of a file

NoSection == "no section"
NoName    == "no name"
NoValue   == "no value"      \* nothing a setting could be

ASSUME ConfigAssumption ==
    /\ NoSection \notin Sections
    /\ NoName \notin Names
    /\ Empty \in Value /\ NoValue \notin Value
    /\ MaxLines \in Nat

\* Blank lines and comments; [section], or [section without the bracket;
\* name = value; text without = or : , which may look like a value.
Skip   == [kind : {"skip"}, indent : {FALSE}, section : {NoSection}, name : {NoName}, value : {NoValue}]
Header == [kind : {"header"}, indent : BOOLEAN, section : Sections, name : {NoName}, value : {NoValue}]
Open   == [kind : {"open"}, indent : BOOLEAN, section : {NoSection}, name : {NoName}, value : {NoValue}]
Pair   == [kind : {"pair"}, indent : BOOLEAN, section : {NoSection}, name : Names, value : Value]
Bare   == [kind : {"bare"}, indent : BOOLEAN, section : {NoSection}, name : {NoName}, value : Value \ {Empty}]
Line   == Skip \cup Header \cup Open \cup Pair \cup Bare

VARIABLES
    file,       \* the lines read so far
    section,    \* ini_parse_stream: section
    prevName,   \* ini_parse_stream: prev_name
    error,      \* ini_parse_stream: error, INIReader: _error
    values,     \* INIReader: _values, the lines each value was joined from
    ended       \* ini_parse_stream has returned

vars == <<file, section, prevName, error, values, ended>>

Keys == (Sections \cup {NoSection}) \X Names

TypeOK ==
    /\ file \in Seq(Line) /\ Len(file) <= MaxLines
    /\ section \in Sections \cup {NoSection}
    /\ prevName \in Names \cup {NoName}
    /\ error \in 0..Len(file)
    /\ values \in [Keys -> Seq([line : 1..Len(file), text : Value \cup {NoValue}])]
    /\ ended \in BOOLEAN

Init ==
    /\ file = <<>>
    /\ section = NoSection
    /\ prevName = NoName
    /\ error = 0
    /\ values = [k \in Keys |-> <<>>]
    /\ ended = FALSE

-----------------------------------------------------------------------------
lineno == Len(file) + 1

\* The next line, as far as every branch of the loop is concerned.
Read(l) ==
    /\ ~ended
    /\ Len(file) < MaxLines
    /\ file' = Append(file, l)
    /\ UNCHANGED ended

LastError == error' = lineno            \* mutant of Malformed

Malformed == error' = IF error = 0 THEN lineno ELSE error

\* ValueHandler: values of the same key are joined in the order of the file.
Handler(name, text) ==
    values' = [values EXCEPT ![<<section, name>>] = Append(@, [line |-> lineno, text |-> text])]

\* The first test: a comment may be indented.
SkipLine(l) ==
    /\ Read(l)
    /\ l \in Skip
    /\ UNCHANGED <<section, prevName, error, values>>

\* The second: whatever an indented line looks like, it belongs to the value
\* above it if there is one.
Continues(l) == l.indent /\ prevName # NoName

Continuation(l) ==
    /\ Read(l)
    /\ Continues(l)
    /\ Handler(prevName, IF l \in Bare THEN l.value ELSE NoValue)
    /\ UNCHANGED <<section, prevName, error>>

NewSection(l) ==
    /\ Read(l)
    /\ ~Continues(l)
    /\ l \in Header
    /\ section' = l.section
    /\ prevName' = NoName
    /\ UNCHANGED <<error, values>>

\* No ] or no = on the line: the section and the name stay as they are.
BadLine(l) ==
    /\ Read(l)
    /\ ~Continues(l)
    /\ l \in Open \cup Bare
    /\ Malformed
    /\ UNCHANGED <<section, prevName, values>>

NameValue(l) ==
    /\ Read(l)
    /\ ~Continues(l)
    /\ l \in Pair
    /\ Handler(l.name, l.value)
    /\ prevName' = l.name
    /\ UNCHANGED <<section, error>>

EndOfFile ==
    /\ ~ended
    /\ ended' = TRUE
    /\ UNCHANGED <<file, section, prevName, error, values>>

Next ==
    \/ \E l \in Line : SkipLine(l) \/ Continuation(l) \/ NewSection(l) \/ BadLine(l) \/ NameValue(l)
    \/ EndOfFile

Spec == Init /\ [][Next]_vars

-----------------------------------------------------------------------------
(* What the lines of a file mean, said of the file as a whole.             *)

IsHeader(h) == file[h].kind = "header" /\ ~file[h].indent

\* Some pair above the line is not cut off from it by a header.
HasNameAbove(k) ==
    \E j \in 1..(k - 1) : /\ file[j].kind = "pair"
                          /\ \A h \in (j + 1)..(k - 1) : ~IsHeader(h)

IsContinuation(k) == file[k].kind # "skip" /\ file[k].indent /\ HasNameAbove(k)

Opens(h) == file[h].kind = "header" /\ ~IsContinuation(h)

SectionOf(k) ==
    IF \A h \in 1..k : ~Opens(h) THEN NoSection
    ELSE LET last == CHOOSE h \in 1..k : Opens(h) /\ \A g \in (h + 1)..k : ~Opens(g)
         IN file[last].section

\* The pair a continuation line continues.
IsNameOf(j, k) ==
    /\ j <= k
    /\ file[j].kind = "pair" /\ ~IsContinuation(j)
    /\ \A i \in (j + 1)..k : file[i].kind = "skip" \/ IsContinuation(i) \/ file[i].kind \in {"open", "bare"}

\* ParseError() is the number of the first malformed line, or 0.
FirstError ==
    LET Bad == {k \in 1..Len(file) : file[k].kind \in {"open", "bare"} /\ ~IsContinuation(k)}
    IN IF Bad = {} THEN error = 0 ELSE error \in Bad /\ \A k \in Bad : error <= k

\* Every line that gives a value is recorded once, under its own name or the
\* one it continues, in the section whose header it stands under, and in the
\* order of the file; no other line is recorded.
InOwnSection ==
    \A s \in Sections \cup {NoSection}, n \in Names :
        LET lines == values[<<s, n>>]
        IN /\ \A i, j \in 1..Len(lines) : i < j => lines[i].line < lines[j].line
           /\ \A k \in 1..Len(file) :
                (\E i \in 1..Len(lines) : lines[i].line = k)
                    <=> /\ SectionOf(k) = s
                        /\ \/ file[k].kind = "pair" /\ ~IsContinuation(k) /\ file[k].name = n
                           \/ IsContinuation(k) /\ \E j \in 1..k : IsNameOf(j, k) /\ file[j].name = n

\* Both: the reader made of the lines, one after the other, what the file says
\* as a whole (ini_parse_stream with ValueHandler).
ParsedAsWritten == FirstError /\ InOwnSection

=============================================================================
