------------------------------ MODULE Settings ------------------------------
(***************************************************************************)
(* What the constructors of CamRTSPServer and TransCoder take from the     *)
(* configuration file (modelled by ConfigReader): of the settings, the     *)
(* switch for tunnelling over HTTP, the port it uses and the number of     *)
(* RkYolos.  The others are read with the same operations.                 *)
(***************************************************************************)
EXTENDS ConfigReader

CONSTANTS IntegerOf,    \* what strtol reads at the start of a value
          NotANumber,
          IntMax,       \* INT_MAX
          BooleanOf,    \* the values GetBoolean knows
          NotABoolean

ASSUME SettingsAssumption ==
    /\ {"server", "rknn"} \subseteq Sections
    /\ {"http_enable", "http_ebable", "http_port", "rknn_thread"} \subseteq Names
    /\ IntegerOf \in [Value \cup {NoValue} -> Int \cup {NotANumber}]
    /\ IntMax \in Nat /\ IntMax >= 8000
    /\ IntegerOf[NoValue] = NotANumber /\ IntegerOf[Empty] = NotANumber
    /\ BooleanOf \in [Value \cup {NoValue} -> BOOLEAN \cup {NotABoolean}]
    /\ BooleanOf[NoValue] = NotABoolean /\ BooleanOf[Empty] = NotABoolean

VARIABLES
    constructed,    \* both constructors have run
    isHttpEnable, httpPort,
    rknnThread

settings == <<constructed, isHttpEnable, httpPort, rknnThread>>

SettingsTypeOK ==
    /\ constructed \in BOOLEAN
    /\ isHttpEnable \in BOOLEAN
    /\ httpPort \in Int
    /\ rknnThread \in Int /\ rknnThread <= 6

SettingsInit ==
    /\ Init
    /\ constructed = FALSE
    /\ isHttpEnable = FALSE
    /\ httpPort = 0
    /\ rknnThread = 0

-----------------------------------------------------------------------------
FromLastLine(s, n, default) ==       \* mutant of GetInteger: the last line wins
    LET lines == values[<<s, n>>]
        Last(k) == /\ lines[k].text # Empty
                   /\ \A j \in (k + 1)..Len(lines) : lines[j].text = Empty
        v == IntegerOf[lines[CHOOSE k \in 1..Len(lines) : Last(k)].text]
    IN IF (\E k \in 1..Len(lines) : Last(k)) /\ v # NotANumber THEN v ELSE default

\* strtol skips white space and reads the digits the joined value then starts
\* with: those of the first line that says anything.
GetInteger(s, n, default) ==
    LET lines == values[<<s, n>>]
        First(k) == /\ lines[k].text # Empty
                    /\ \A j \in 1..(k - 1) : lines[j].text = Empty
        v == IntegerOf[lines[CHOOSE k \in 1..Len(lines) : First(k)].text]
    IN IF (\E k \in 1..Len(lines) : First(k)) /\ v # NotANumber THEN v ELSE default

\* GetBoolean compares the whole value, and ValueHandler joins with a newline
\* as soon as there is something to join to.
GetBoolean(s, n, default) ==
    LET lines == values[<<s, n>>]
        v == BooleanOf[lines[Len(lines)].text]
    IN IF \/ lines = <<>>
          \/ \E i \in 1..(Len(lines) - 1) : lines[i].text # Empty
          \/ v = NotABoolean
       THEN default ELSE v

\* GetInteger returns a long, which is stored in an int: its low bits, as
\* two's complement.
ToInt(n) == ((n + IntMax + 1) % (2 * IntMax + 2)) - (IntMax + 1)

AtMostSix(n) == IF n > 6 THEN 6 ELSE n

\* A file with errors is used as far as it goes: only ParseError() < 0, a
\* file that could not be opened, is refused.
Construct ==
    /\ ended
    /\ ~constructed
    /\ constructed' = TRUE
    /\ isHttpEnable' = GetBoolean("server", "http_ebable", FALSE)
    /\ httpPort' = ToInt(GetInteger("server", "http_port", 8000))
    /\ rknnThread' = AtMostSix(ToInt(GetInteger("rknn", "rknn_thread", 3)))
    /\ UNCHANGED vars

SettingsNext ==
    \/ Next /\ UNCHANGED settings
    \/ Construct

SettingsSpec == SettingsInit /\ [][SettingsNext]_<<vars, settings>>

-----------------------------------------------------------------------------
\* What a line gives; a continuation is text as a whole, also name = without a
\* value.
TextOf(k) == IF IsContinuation(k) /\ file[k].kind # "bare" THEN NoValue ELSE file[k].value

\* The lines of the file that give a setting something to read: its pairs,
\* and the lines that continue them.
Given(s, n) ==
    {k \in 1..Len(file) :
        /\ SectionOf(k) = s
        /\ TextOf(k) # Empty
        /\ \/ file[k].kind = "pair" /\ ~IsContinuation(k) /\ file[k].name = n
           \/ IsContinuation(k) /\ \E j \in 1..k : IsNameOf(j, k) /\ file[j].name = n}

\* A number is the first one the file gives in the right section, also when it
\* is given again or continued, and the default only when the first text given
\* does not start with one (INIReader::GetInteger on what ValueHandler joined);
\* of a number that is no int the low bits count, before the limit of six does.
\* This is what the code does.  INIReader.h:55-56 promises the default for what
\* is not a valid integer, as the text of two lines joined by a newline is not.
FirstIntegerCounts ==
    LET Expected(s, n, default) ==
          LET first == {k \in Given(s, n) : \A j \in Given(s, n) : k <= j}
          IN IF \A k \in first : IntegerOf[TextOf(k)] = NotANumber THEN {default}
             ELSE {IntegerOf[TextOf(k)] : k \in first}
    IN constructed /\ ended =>
        /\ \E n \in Expected("server", "http_port", 8000) : httpPort = ToInt(n)
        /\ \E n \in Expected("rknn", "rknn_thread", 3) :
              rknnThread = IF ToInt(n) <= 6 THEN ToInt(n) ELSE 6

\* README.md:40 and configs/config.ini:20 name the switch http_enable: in a file
\* without errors that gives it one Boolean in [server], the server does what
\* it says.
HttpEnableIsRead ==
    constructed /\ error = 0 =>
        \A k \in Given("server", "http_enable") :
            /\ Given("server", "http_enable") = {k}
            /\ BooleanOf[TextOf(k)] # NotABoolean
            => isHttpEnable = BooleanOf[TextOf(k)]

=============================================================================
