--------------------------- MODULE SettingsProofs ---------------------------
(***************************************************************************)
(* What is proved of ConfigReader and Settings for files of any length:    *)
(* the reader makes of the lines, one after the other, what the file says  *)
(* as a whole, and a number in a setting is the first one given for it, as *)
(* far as an int holds it.                                                 *)
(***************************************************************************)
EXTENDS Settings, TLAPS

-----------------------------------------------------------------------------
(***************************************************************************)
(* The definitions of ConfigReader, of any list of lines: what they say of *)
(* a line depends on those above it only.                                  *)
(***************************************************************************)

Cuts(f, h) == f[h].kind = "header" /\ ~f[h].indent

NameAbove(f, k) ==
    \E j \in 1..(k - 1) : /\ f[j].kind = "pair"
                          /\ \A h \in (j + 1)..(k - 1) : ~Cuts(f, h)

Continued(f, k) == f[k].kind # "skip" /\ f[k].indent /\ NameAbove(f, k)

OpensIn(f, h) == f[h].kind = "header" /\ ~Continued(f, h)

\* The last header above the line, or the line itself.
LastHeader(f, h, k) == OpensIn(f, h) /\ \A g \in (h + 1)..k : ~OpensIn(f, g)

HasLast(f, k) == (\A h \in 1..k : ~OpensIn(f, h)) \/ \E h \in 1..k : LastHeader(f, h, k)

SectionIn(f, k) ==
    IF \A h \in 1..k : ~OpensIn(f, h) THEN NoSection
    ELSE LET last == CHOOSE h \in 1..k : LastHeader(f, h, k)
         IN f[last].section

Follows(f, i) == f[i].kind = "skip" \/ Continued(f, i) \/ f[i].kind \in {"open", "bare"}

NameIn(f, j, k) ==
    /\ j <= k
    /\ f[j].kind = "pair" /\ ~Continued(f, j)
    /\ \A i \in (j + 1)..k : Follows(f, i)

\* The line gives the setting something to read, or its name alone.
Assigns(f, k, s, n) ==
    /\ SectionIn(f, k) = s
    /\ \/ f[k].kind = "pair" /\ ~Continued(f, k) /\ f[k].name = n
       \/ Continued(f, k) /\ \E j \in 1..k : NameIn(f, j, k) /\ f[j].name = n

TextIn(f, k) == IF Continued(f, k) /\ f[k].kind # "bare" THEN NoValue ELSE f[k].value

GivenIn(f, s, n) == {k \in 1..Len(f) : Assigns(f, k, s, n) /\ TextIn(f, k) # Empty}

\* The number of a setting, as the file gives it.
ExpectedIn(f, s, n, default) ==
    LET first == {k \in GivenIn(f, s, n) : \A j \in GivenIn(f, s, n) : k <= j}
    IN IF \A k \in first : IntegerOf[TextIn(f, k)] = NotANumber THEN {default}
       ELSE {IntegerOf[TextIn(f, k)] : k \in first}

IsMalformed(f, k) == f[k].kind \in {"open", "bare"} /\ ~Continued(f, k)

-----------------------------------------------------------------------------
(* The inductive invariant of the reader.                                  *)

Recorded == [line : Nat, text : Value \cup {NoValue}]

Typed ==
    /\ file \in Seq(Line)
    /\ section \in Sections \cup {NoSection}
    /\ prevName \in Names \cup {NoName}
    /\ error \in Nat
    /\ values \in [Keys -> Seq(Recorded)]

\* Above every line there is no header, or a last one.
HeadersEnd == \A k \in 0..Len(file) : HasLast(file, k)

\* ini_parse_stream's section and prev_name are those of the lines so far.
SectionKept == section = SectionIn(file, Len(file))

NameKept ==
    /\ prevName # NoName <=> NameAbove(file, Len(file) + 1)
    /\ prevName # NoName =>
          \E j \in 1..Len(file) : NameIn(file, j, Len(file)) /\ file[j].name = prevName

\* What INIReader has recorded of a setting.
FirstText(seq, k) == seq[k].text # Empty /\ \A j \in 1..(k - 1) : seq[j].text = Empty

Record(f, seq, s, n) ==
    /\ \A i \in 1..Len(seq) : seq[i].line \in 1..Len(f) /\ seq[i].text = TextIn(f, seq[i].line)
    /\ \A i, j \in 1..Len(seq) : i < j => seq[i].line < seq[j].line
    /\ \A k \in 1..Len(f) : (\E i \in 1..Len(seq) : seq[i].line = k) <=> Assigns(f, k, s, n)
    /\ \/ \A i \in 1..Len(seq) : seq[i].text = Empty
       \/ \E i \in 1..Len(seq) : FirstText(seq, i)

RecordsKept ==
    \A s \in Sections \cup {NoSection}, n \in Names : Record(file, values[<<s, n>>], s, n)

\* The error is that of the first malformed line.
ErrorKept ==
    /\ error = 0 => \A k \in 1..Len(file) : ~IsMalformed(file, k)
    /\ error # 0 => /\ error \in 1..Len(file) /\ IsMalformed(file, error)
                    /\ \A k \in 1..Len(file) : IsMalformed(file, k) => error <= k

ReaderInv ==
    /\ Typed
    /\ HeadersEnd
    /\ SectionKept
    /\ NameKept
    /\ RecordsKept
    /\ ErrorKept

\* What the constructors have made of it.
NumbersRead ==
    constructed /\ ended =>
        /\ \E n \in ExpectedIn(file, "server", "http_port", 8000) : httpPort = ToInt(n)
        /\ \E n \in ExpectedIn(file, "rknn", "rknn_thread", 3) :
              rknnThread = IF ToInt(n) <= 6 THEN ToInt(n) ELSE 6

SettingsInv ==
    /\ ReaderInv
    /\ rknnThread \in Int
    /\ NumbersRead

-----------------------------------------------------------------------------
(* A file and the same file with one line more.                            *)

Extends(f, g, l) ==
    /\ f \in Seq(Line) /\ g \in Seq(Line) /\ l \in Line
    /\ Len(f) \in Nat /\ Len(g) = Len(f) + 1
    /\ g[Len(f) + 1] = l
    /\ \A k \in 1..Len(f) : g[k] = f[k]

LEMMA AppendExtends ==
    ASSUME NEW f \in Seq(Line), NEW l \in Line
    PROVE  Extends(f, Append(f, l), l)
  BY DEF Extends

LEMMA LineIs ==
    ASSUME NEW l \in Line
    PROVE  /\ l.kind \in {"skip", "header", "open", "pair", "bare"}
           /\ l \in Skip <=> l.kind = "skip"
           /\ l \in Header <=> l.kind = "header"
           /\ l \in Open <=> l.kind = "open"
           /\ l \in Pair <=> l.kind = "pair"
           /\ l \in Bare <=> l.kind = "bare"
           /\ l.kind = "header" => l.section \in Sections
           /\ l.kind = "pair" => l.name \in Names
           /\ l.value \in Value \cup {NoValue}
  BY DEF Line, Skip, Header, Open, Pair, Bare

LEMMA SameAbove ==
    ASSUME NEW f, NEW g, NEW l, Extends(f, g, l)
    PROVE  \A k \in 1..(Len(f) + 1) : NameAbove(g, k) <=> NameAbove(f, k)
  <1> SUFFICES ASSUME NEW k \in 1..(Len(f) + 1) PROVE NameAbove(g, k) <=> NameAbove(f, k)
    OBVIOUS
  <1>1. \A j \in 1..(k - 1) : g[j] = f[j]
    BY DEF Extends
  <1>2. \A j \in 1..(k - 1) : \A h \in (j + 1)..(k - 1) : h \in 1..(k - 1)
    BY DEF Extends
  <1>3. \A h \in 1..(k - 1) : Cuts(g, h) <=> Cuts(f, h)
    BY <1>1 DEF Cuts
  <1> QED
    BY <1>1, <1>2, <1>3 DEF NameAbove

\* Nothing that was said of a line before changes.
LEMMA SameLines ==
    ASSUME NEW f, NEW g, NEW l, Extends(f, g, l), NEW k \in 1..Len(f)
    PROVE  /\ g[k] = f[k]
           /\ Continued(g, k) <=> Continued(f, k)
           /\ OpensIn(g, k) <=> OpensIn(f, k)
           /\ Follows(g, k) <=> Follows(f, k)
           /\ IsMalformed(g, k) <=> IsMalformed(f, k)
           /\ TextIn(g, k) = TextIn(f, k)
  <1>1. g[k] = f[k] /\ k \in 1..(Len(f) + 1)
    BY DEF Extends
  <1>2. Continued(g, k) <=> Continued(f, k)
    BY <1>1, SameAbove DEF Continued
  <1> QED
    BY <1>1, <1>2 DEF OpensIn, Follows, IsMalformed, TextIn

\* What there is to say of the new one.
LEMMA NewLine ==
    ASSUME NEW f, NEW g, NEW l, Extends(f, g, l)
    PROVE  /\ Continued(g, Len(f) + 1) <=>
                 l.kind # "skip" /\ l.indent /\ NameAbove(f, Len(f) + 1)
           /\ NameAbove(g, Len(f) + 2) <=>
                 \/ l.kind = "pair"
                 \/ NameAbove(f, Len(f) + 1) /\ ~(l.kind = "header" /\ ~l.indent)
  <1>1. g[Len(f) + 1] = l /\ Len(f) \in Nat
    BY DEF Extends
  <1>2. Len(f) + 1 \in 1..(Len(f) + 1)
    BY <1>1
  <1>3. Continued(g, Len(f) + 1) <=>
                 l.kind # "skip" /\ l.indent /\ NameAbove(f, Len(f) + 1)
    BY <1>1, <1>2, SameAbove DEF Continued
  <1>4. ASSUME l.kind = "pair" PROVE NameAbove(g, Len(f) + 2)
    <2>1. /\ Len(f) + 1 \in 1..((Len(f) + 2) - 1)
          /\ \A h \in ((Len(f) + 1) + 1)..((Len(f) + 2) - 1) : FALSE
      BY <1>1
    <2> QED
      BY <1>1, <1>4, <2>1 DEF NameAbove
  <1>5. ASSUME NameAbove(f, Len(f) + 1), ~(l.kind = "header" /\ ~l.indent)
        PROVE  NameAbove(g, Len(f) + 2)
    <2>1. PICK j \in 1..((Len(f) + 1) - 1) :
             /\ g[j].kind = "pair"
             /\ \A h \in (j + 1)..((Len(f) + 1) - 1) : ~Cuts(g, h)
      BY <1>2, <1>5, SameAbove DEF NameAbove
    <2>2. ~Cuts(g, Len(f) + 1)
      BY <1>1, <1>5 DEF Cuts
    <2>3. \A h \in (j + 1)..((Len(f) + 2) - 1) :
             h \in (j + 1)..((Len(f) + 1) - 1) \/ h = Len(f) + 1
      BY <1>1
    <2>4. j \in 1..((Len(f) + 2) - 1)
      BY <1>1
    <2> QED
      BY <2>1, <2>2, <2>3, <2>4 DEF NameAbove
  <1>6. ASSUME NameAbove(g, Len(f) + 2), l.kind # "pair"
        PROVE  NameAbove(f, Len(f) + 1) /\ ~(l.kind = "header" /\ ~l.indent)
    <2>1. PICK j \in 1..((Len(f) + 2) - 1) :
             /\ g[j].kind = "pair"
             /\ \A h \in (j + 1)..((Len(f) + 2) - 1) : ~Cuts(g, h)
      BY <1>6 DEF NameAbove
    <2>2. j # Len(f) + 1
      BY <1>1, <1>6, <2>1
    <2>3. /\ j \in 1..((Len(f) + 1) - 1)
          /\ Len(f) + 1 \in (j + 1)..((Len(f) + 2) - 1)
          /\ \A h \in (j + 1)..((Len(f) + 1) - 1) : h \in (j + 1)..((Len(f) + 2) - 1)
      BY <1>1, <2>2
    <2>4. NameAbove(g, Len(f) + 1)
      BY <2>1, <2>3 DEF NameAbove
    <2>5. ~Cuts(g, Len(f) + 1)
      BY <2>1, <2>3
    <2> QED
      BY <1>1, <1>2, <2>4, <2>5, SameAbove DEF Cuts
  <1> QED
    BY <1>3, <1>4, <1>5, <1>6

LEMMA SameName ==
    ASSUME NEW f, NEW g, NEW l, Extends(f, g, l), NEW k \in 1..Len(f), NEW j \in 1..k
    PROVE  NameIn(g, j, k) <=> NameIn(f, j, k)
  <1>1. j \in 1..Len(f) /\ \A i \in (j + 1)..k : i \in 1..Len(f)
    BY DEF Extends
  <1> QED
    BY <1>1, SameLines DEF NameIn

LEMMA NewName ==
    ASSUME NEW f, NEW g, NEW l, Extends(f, g, l)
    PROVE  /\ \A j \in 1..Len(f) :
                 NameIn(g, j, Len(f) + 1) <=> NameIn(f, j, Len(f)) /\ Follows(g, Len(f) + 1)
           /\ NameIn(g, Len(f) + 1, Len(f) + 1) <=>
                 l.kind = "pair" /\ ~Continued(g, Len(f) + 1)
  <1>1. Len(f) \in Nat /\ g[Len(f) + 1] = l
    BY DEF Extends
  <1>2. ASSUME NEW j \in 1..Len(f)
        PROVE  NameIn(g, j, Len(f) + 1) <=> NameIn(f, j, Len(f)) /\ Follows(g, Len(f) + 1)
    <2>1. /\ j <= Len(f) /\ j <= Len(f) + 1
          /\ \A i \in (j + 1)..(Len(f) + 1) : i \in (j + 1)..Len(f) \/ i = Len(f) + 1
          /\ \A i \in (j + 1)..Len(f) : i \in (j + 1)..(Len(f) + 1) /\ i \in 1..Len(f)
          /\ Len(f) + 1 \in (j + 1)..(Len(f) + 1)
      BY <1>1
    <2> QED
      BY <2>1, SameLines DEF NameIn
  <1>3. NameIn(g, Len(f) + 1, Len(f) + 1) <=>
                 l.kind = "pair" /\ ~Continued(g, Len(f) + 1)
    <2>1. /\ Len(f) + 1 <= Len(f) + 1
          /\ \A i \in ((Len(f) + 1) + 1)..(Len(f) + 1) : FALSE
      BY <1>1
    <2> QED
      BY <1>1, <2>1 DEF NameIn
  <1> QED
    BY <1>2, <1>3

\* A line continues one pair at most.
LEMMA OneName ==
    ASSUME NEW f, NEW k \in Nat, NEW j \in 1..k, NEW m \in 1..k, NameIn(f, j, k), NameIn(f, m, k)
    PROVE  j = m
  <1>1. ASSUME NEW a \in 1..k, NEW b \in 1..k, NameIn(f, a, k), NameIn(f, b, k), a < b
        PROVE  FALSE
    <2>1. b \in (a + 1)..k
      BY <1>1
    <2>2. Follows(f, b) /\ f[b].kind = "pair" /\ ~Continued(f, b)
      BY <1>1, <2>1 DEF NameIn
    <2> QED
      BY <2>2 DEF Follows
  <1>2. j < m \/ m < j \/ j = m
    OBVIOUS
  <1> QED
    BY <1>1, <1>2

-----------------------------------------------------------------------------
(* Sections.                                                               *)

LEMMA SectionIs ==
    ASSUME NEW f, NEW k \in Nat, NEW h \in 1..k, LastHeader(f, h, k)
    PROVE  SectionIn(f, k) = f[h].section
  <1> DEFINE last == CHOOSE c \in 1..k : LastHeader(f, c, k)
  <1>1. last \in 1..k /\ LastHeader(f, last, k)
    OBVIOUS
  <1>2. ASSUME NEW a \in 1..k, NEW b \in 1..k, LastHeader(f, a, k), LastHeader(f, b, k), a < b
        PROVE  FALSE
    <2>1. b \in (a + 1)..k
      BY <1>2
    <2> QED
      BY <1>2, <2>1 DEF LastHeader
  <1>3. last \in Int /\ h \in Int
    BY <1>1
  <1>4. last = h
    <2> HIDE DEF last
    <2>1. last < h \/ h < last \/ last = h
      BY <1>3
    <2> QED
      BY <1>1, <1>2, <2>1
  <1>5. ~(\A c \in 1..k : ~OpensIn(f, c))
    BY DEF LastHeader
  <1>6. SectionIn(f, k) = f[last].section
    BY <1>5 DEF SectionIn
  <1> QED
    BY <1>4, <1>6

LEMMA NoSectionIs ==
    ASSUME NEW f, NEW k, \A h \in 1..k : ~OpensIn(f, h)
    PROVE  SectionIn(f, k) = NoSection
  BY DEF SectionIn

LEMMA SameSection ==
    ASSUME NEW f, NEW g, NEW l, Extends(f, g, l), NEW k \in 0..Len(f), HasLast(f, k)
    PROVE  HasLast(g, k) /\ SectionIn(g, k) = SectionIn(f, k)
  <1>1. k \in Nat /\ \A h \in 1..k : h \in 1..Len(f) /\ \A c \in (h + 1)..k : c \in 1..Len(f)
    BY DEF Extends
  <1>2. \A h \in 1..k : OpensIn(g, h) <=> OpensIn(f, h)
    BY <1>1, SameLines
  <1>3. \A h \in 1..k : LastHeader(g, h, k) <=> LastHeader(f, h, k)
    BY <1>1, <1>2, SameLines DEF LastHeader
  <1>4. CASE \A h \in 1..k : ~OpensIn(f, h)
    BY <1>2, <1>4, NoSectionIs DEF HasLast
  <1>5. CASE \E h \in 1..k : LastHeader(f, h, k)
    <2>1. PICK h \in 1..k : LastHeader(f, h, k)
      BY <1>5
    <2>2. SectionIn(f, k) = f[h].section /\ SectionIn(g, k) = g[h].section
      BY <1>1, <1>3, <2>1, SectionIs
    <2>3. g[h] = f[h]
      BY <1>1, SameLines
    <2> QED
      BY <1>3, <2>1, <2>2, <2>3 DEF HasLast
  <1> QED
    BY <1>4, <1>5 DEF HasLast

LEMMA NewSectionIs ==
    ASSUME NEW f, NEW g, NEW l, Extends(f, g, l), HasLast(f, Len(f))
    PROVE  /\ HasLast(g, Len(f) + 1)
           /\ SectionIn(g, Len(f) + 1) = IF OpensIn(g, Len(f) + 1) THEN l.section
                                         ELSE SectionIn(f, Len(f))
  <1>1. Len(f) \in Nat /\ g[Len(f) + 1] = l /\ Len(f) + 1 \in 1..(Len(f) + 1)
    BY DEF Extends
  <1>2. CASE OpensIn(g, Len(f) + 1)
    <2>1. \A c \in ((Len(f) + 1) + 1)..(Len(f) + 1) : FALSE
      BY <1>1
    <2>2. LastHeader(g, Len(f) + 1, Len(f) + 1)
      BY <1>2, <2>1 DEF LastHeader
    <2>3. Len(f) + 1 \in Nat
      BY <1>1
    <2> QED
      BY <1>1, <1>2, <2>2, <2>3, SectionIs DEF HasLast
  <1>3. CASE ~OpensIn(g, Len(f) + 1)
    <2>1. \A h \in 1..(Len(f) + 1) : h \in 1..Len(f) \/ h = Len(f) + 1
      BY <1>1
    <2>2. CASE \A h \in 1..Len(f) : ~OpensIn(f, h)
      <3>1. \A h \in 1..(Len(f) + 1) : ~OpensIn(g, h)
        BY <1>3, <2>1, <2>2, SameLines
      <3> QED
        BY <1>3, <2>2, <3>1, NoSectionIs DEF HasLast
    <2>3. CASE \E h \in 1..Len(f) : LastHeader(f, h, Len(f))
      <3>1. PICK h \in 1..Len(f) : LastHeader(f, h, Len(f))
        BY <2>3
      <3>2. \A c \in (h + 1)..(Len(f) + 1) :
               c = Len(f) + 1 \/ (c \in (h + 1)..Len(f) /\ c \in 1..Len(f))
        BY <1>1
      <3>3. LastHeader(g, h, Len(f) + 1)
        BY <1>3, <3>1, <3>2, SameLines DEF LastHeader
      <3>4. h \in 1..(Len(f) + 1) /\ Len(f) + 1 \in Nat /\ g[h] = f[h]
        BY <1>1, SameLines
      <3>5. SectionIn(f, Len(f)) = f[h].section /\ SectionIn(g, Len(f) + 1) = g[h].section
        BY <1>1, <3>1, <3>3, <3>4, SectionIs
      <3> QED
        BY <1>3, <3>3, <3>4, <3>5 DEF HasLast
    <2> QED
      BY <2>2, <2>3 DEF HasLast
  <1> QED
    BY <1>2, <1>3

LEMMA SameAssigns ==
    ASSUME NEW f, NEW g, NEW l, Extends(f, g, l), \A c \in 0..Len(f) : HasLast(f, c),
           NEW k \in 1..Len(f), NEW s, NEW n
    PROVE  Assigns(g, k, s, n) <=> Assigns(f, k, s, n)
  <1>1. k \in 0..Len(f) /\ \A j \in 1..k : j \in 1..Len(f)
    BY DEF Extends
  <1>2. SectionIn(g, k) = SectionIn(f, k)
    BY <1>1, SameSection
  <1>3. \A j \in 1..k : g[j] = f[j] /\ (NameIn(g, j, k) <=> NameIn(f, j, k))
    BY <1>1, SameLines, SameName
  <1>4. g[k] = f[k] /\ (Continued(g, k) <=> Continued(f, k))
    BY SameLines
  <1> QED
    BY <1>2, <1>3, <1>4 DEF Assigns

-----------------------------------------------------------------------------
(* Records.                                                                *)

\* A line that gives the setting nothing.
LEMMA RecordSame ==
    ASSUME NEW f, NEW g, NEW l, Extends(f, g, l), \A c \in 0..Len(f) : HasLast(f, c),
           NEW s, NEW n, NEW seq \in Seq(Recorded), Record(f, seq, s, n),
           ~Assigns(g, Len(f) + 1, s, n)
    PROVE  Record(g, seq, s, n)
  <1>1. /\ Len(f) \in Nat /\ Len(g) = Len(f) + 1
        /\ \A k \in 1..Len(g) : k \in 1..Len(f) \/ k = Len(f) + 1
        /\ \A k \in 1..Len(f) : k \in 1..Len(g) /\ k # Len(f) + 1
    BY DEF Extends
  <1>2. \A i \in 1..Len(seq) : seq[i].line \in 1..Len(g) /\ seq[i].text = TextIn(g, seq[i].line)
    BY <1>1, SameLines DEF Record
  <1>3. ASSUME NEW k \in 1..Len(g)
        PROVE  (\E i \in 1..Len(seq) : seq[i].line = k) <=> Assigns(g, k, s, n)
    <2>1. CASE k \in 1..Len(f)
      BY <2>1, SameAssigns DEF Record
    <2>2. CASE k = Len(f) + 1
      BY <1>1, <2>2 DEF Record
    <2> QED
      BY <1>1, <2>1, <2>2
  <1> QED
    BY <1>2, <1>3 DEF Record

\* A line that gives it something is recorded at the end.
LEMMA RecordNew ==
    ASSUME NEW f, NEW g, NEW l, Extends(f, g, l), \A c \in 0..Len(f) : HasLast(f, c),
           NEW s, NEW n, NEW seq \in Seq(Recorded), Record(f, seq, s, n),
           Assigns(g, Len(f) + 1, s, n),
           NEW text \in Value \cup {NoValue}, text = TextIn(g, Len(f) + 1)
    PROVE  Record(g, Append(seq, [line |-> Len(f) + 1, text |-> text]), s, n)
  <1> DEFINE entry == [line |-> Len(f) + 1, text |-> text]
             new == Append(seq, entry)
  <1>1. /\ Len(f) \in Nat /\ Len(g) = Len(f) + 1
        /\ \A k \in 1..Len(g) : k \in 1..Len(f) \/ k = Len(f) + 1
        /\ \A k \in 1..Len(f) : k \in 1..Len(g) /\ k # Len(f) + 1 /\ k < Len(f) + 1
        /\ Len(f) + 1 \in 1..Len(g)
    BY DEF Extends
  <1>2. /\ Len(seq) \in Nat /\ Len(new) = Len(seq) + 1
        /\ \A i \in 1..Len(seq) : new[i] = seq[i] /\ i \in 1..Len(new)
        /\ new[Len(seq) + 1].line = Len(f) + 1
        /\ new[Len(seq) + 1].text = text
    BY <1>1 DEF Recorded
  <1> HIDE DEF new, entry
  <1>3. \A i \in 1..Len(new) : i \in 1..Len(seq) \/ i = Len(seq) + 1
    BY <1>2
  <1>4. \A i \in 1..Len(new) : new[i].line \in 1..Len(g) /\ new[i].text = TextIn(g, new[i].line)
    <2>1. \A i \in 1..Len(seq) : new[i].line \in 1..Len(g) /\ new[i].text = TextIn(g, new[i].line)
      BY <1>1, <1>2, SameLines DEF Record
    <2> QED
      BY <1>1, <1>2, <1>3, <2>1
  <1>5. ASSUME NEW i \in 1..Len(new), NEW j \in 1..Len(new), i < j
        PROVE  new[i].line < new[j].line
    <2>1. i \in 1..Len(seq)
      BY <1>2, <1>5
    <2>2. seq[i].line \in 1..Len(f) /\ new[i] = seq[i]
      BY <1>2, <2>1 DEF Record
    <2>3. CASE j \in 1..Len(seq)
      BY <1>2, <1>5, <2>1, <2>3 DEF Record
    <2>4. CASE j = Len(seq) + 1
      BY <1>1, <1>2, <2>2, <2>4
    <2> QED
      BY <1>3, <2>3, <2>4
  <1>6. ASSUME NEW k \in 1..Len(g)
        PROVE  (\E i \in 1..Len(new) : new[i].line = k) <=> Assigns(g, k, s, n)
    <2>1. CASE k \in 1..Len(f)
      <3>1. (\E i \in 1..Len(new) : new[i].line = k) <=> \E i \in 1..Len(seq) : seq[i].line = k
        BY <1>1, <1>2, <1>3, <2>1
      <3> QED
        BY <2>1, <3>1, SameAssigns DEF Record
    <2>2. CASE k = Len(f) + 1
      <3>1. Len(seq) + 1 \in 1..Len(new)
        BY <1>2
      <3> QED
        BY <1>2, <2>2, <3>1
    <2> QED
      BY <1>1, <2>1, <2>2
  <1>7. \/ \A i \in 1..Len(new) : new[i].text = Empty
        \/ \E i \in 1..Len(new) : FirstText(new, i)
    <2>1. CASE \A i \in 1..Len(seq) : seq[i].text = Empty
      <3>1. \A j \in 1..((Len(seq) + 1) - 1) : new[j].text = Empty
        BY <1>2, <2>1
      <3>2. Len(seq) + 1 \in 1..Len(new)
        BY <1>2
      <3> QED
        BY <1>2, <1>3, <2>1, <3>1, <3>2 DEF FirstText
    <2>2. CASE \E i \in 1..Len(seq) : FirstText(seq, i)
      <3>1. PICK i \in 1..Len(seq) : FirstText(seq, i)
        BY <2>2
      <3>2. \A j \in 1..(i - 1) : j \in 1..Len(seq)
        BY <1>2
      <3> QED
        BY <1>2, <3>1, <3>2 DEF FirstText
    <2> QED
      BY <2>1, <2>2 DEF Record
  <1>8. Record(g, new, s, n)
    BY <1>4, <1>5, <1>6, <1>7 DEF Record
  <1> QED
    BY <1>8 DEF new, entry

-----------------------------------------------------------------------------
(* The reader, line by line.                                               *)

LEMMA Reading ==
    ASSUME ReaderInv, NEW l \in Line, Read(l)
    PROVE  /\ Extends(file, file', l)
           /\ Len(file) \in Nat /\ Len(file') = Len(file) + 1
           /\ HeadersEnd'
           /\ \A c \in 0..Len(file) : HasLast(file, c)
  <1>1. Extends(file, file', l)
    BY AppendExtends DEF ReaderInv, Typed, Read
  <1>2. Len(file) \in Nat /\ Len(file') = Len(file) + 1
    BY <1>1 DEF Extends
  <1>3. \A c \in 0..Len(file) : HasLast(file, c)
    BY DEF ReaderInv, HeadersEnd
  <1>4. \A c \in 0..Len(file) : HasLast(file', c)
    BY <1>1, <1>3, SameSection
  <1>5. HasLast(file', Len(file) + 1)
    <2>1. Len(file) \in 0..Len(file)
      BY <1>2
    <2> QED
      BY <1>1, <1>3, <2>1, NewSectionIs
  <1>6. \A c \in 0..Len(file') : c \in 0..Len(file) \/ c = Len(file) + 1
    BY <1>2
  <1> QED
    BY <1>1, <1>2, <1>3, <1>4, <1>5, <1>6 DEF HeadersEnd

\* The test of the loop is the one of the definition.
LEMMA ContinuesIs ==
    ASSUME ReaderInv, NEW l \in Line, Read(l)
    PROVE  Continued(file', Len(file) + 1) <=> l.kind # "skip" /\ Continues(l)
  BY Reading, NewLine DEF Continues, ReaderInv, NameKept

\* Whom the new line gives something.
LEMMA NewAssigns ==
    ASSUME ReaderInv, NEW l \in Line, Read(l), NEW s, NEW m
    PROVE  Assigns(file', Len(file) + 1, s, m) <=>
              /\ s = IF OpensIn(file', Len(file) + 1) THEN l.section ELSE section
              /\ \/ l.kind = "pair" /\ ~Continued(file', Len(file) + 1) /\ m = l.name
                 \/ Continued(file', Len(file) + 1) /\ m = prevName
  <1>1. /\ Extends(file, file', l) /\ Len(file) \in Nat
        /\ Len(file) \in 0..Len(file) /\ \A c \in 0..Len(file) : HasLast(file, c)
    BY Reading
  <1>2. SectionIn(file', Len(file) + 1) =
            IF OpensIn(file', Len(file) + 1) THEN l.section ELSE section
    BY <1>1, NewSectionIs DEF ReaderInv, SectionKept
  <1>3. file'[Len(file) + 1] = l
    BY <1>1 DEF Extends
  <1>4. ASSUME Continued(file', Len(file) + 1)
        PROVE  (\E j \in 1..(Len(file) + 1) :
                   NameIn(file', j, Len(file) + 1) /\ file'[j].name = m) <=> m = prevName
    <2>1. NameAbove(file, Len(file) + 1)
      BY <1>1, <1>4, NewLine
    <2>2. PICK a \in 1..Len(file) : NameIn(file, a, Len(file)) /\ file[a].name = prevName
      BY <2>1 DEF ReaderInv, NameKept
    <2>3. Follows(file', Len(file) + 1)
      BY <1>4 DEF Follows
    <2>4. NameIn(file', a, Len(file) + 1) /\ file'[a] = file[a] /\ a \in 1..(Len(file) + 1)
      BY <1>1, <2>2, <2>3, NewName, SameLines
    <2>5. ASSUME NEW j \in 1..(Len(file) + 1), NameIn(file', j, Len(file) + 1)
          PROVE  j = a
      <3>1. Len(file) + 1 \in Nat
        BY <1>1
      <3> QED
        BY <2>4, <2>5, <3>1, OneName
    <2> QED
      BY <2>2, <2>4, <2>5
  <1> QED
    BY <1>2, <1>3, <1>4 DEF Assigns

LEMMA RecordsSame ==
    ASSUME ReaderInv, NEW l \in Line, Read(l), UNCHANGED values,
           l.kind # "pair", ~Continued(file', Len(file) + 1)
    PROVE  RecordsKept'
  <1>1. /\ Extends(file, file', l)
        /\ \A c \in 0..Len(file) : HasLast(file, c)
    BY Reading
  <1>2. ASSUME NEW s \in Sections \cup {NoSection}, NEW n \in Names
        PROVE  Record(file', values[<<s, n>>], s, n)
    <2>1. values[<<s, n>>] \in Seq(Recorded) /\ Record(file, values[<<s, n>>], s, n)
      BY DEF ReaderInv, Typed, RecordsKept, Keys
    <2>2. ~Assigns(file', Len(file) + 1, s, n)
      BY NewAssigns
    <2> QED
      BY <1>1, <2>1, <2>2, RecordSame
  <1> QED
    BY <1>2 DEF RecordsKept

LEMMA RecordsNew ==
    ASSUME ReaderInv, NEW l \in Line, Read(l), ~OpensIn(file', Len(file) + 1),
           NEW name \in Names, NEW text \in Value \cup {NoValue}, Handler(name, text),
           text = TextIn(file', Len(file) + 1),
           \/ l.kind = "pair" /\ ~Continued(file', Len(file) + 1) /\ name = l.name
           \/ Continued(file', Len(file) + 1) /\ name = prevName
    PROVE  RecordsKept'
  <1> DEFINE entry == [line |-> Len(file) + 1, text |-> text]
  <1>1. /\ Extends(file, file', l)
        /\ \A c \in 0..Len(file) : HasLast(file, c)
    BY Reading
  <1>2. \A key \in Keys :
           values'[key] = IF key = <<section, name>> THEN Append(values[key], entry)
                          ELSE values[key]
    BY DEF Handler, lineno, ReaderInv, Typed
  <1>3. ASSUME NEW s \in Sections \cup {NoSection}, NEW n \in Names
        PROVE  Record(file', values'[<<s, n>>], s, n)
    <2>1. values[<<s, n>>] \in Seq(Recorded) /\ Record(file, values[<<s, n>>], s, n)
      BY DEF ReaderInv, Typed, RecordsKept, Keys
    <2>2. <<s, n>> \in Keys
      BY DEF Keys
    <2>3. CASE s = section /\ n = name
      <3>1. Assigns(file', Len(file) + 1, s, n)
        BY <2>3, NewAssigns
      <3> QED
        BY <1>1, <1>2, <2>1, <2>2, <2>3, <3>1, RecordNew
    <2>4. CASE ~(s = section /\ n = name)
      <3>1. ~Assigns(file', Len(file) + 1, s, n)
        BY <2>4, NewAssigns
      <3>2. values'[<<s, n>>] = values[<<s, n>>]
        <4> HIDE DEF entry
        <4> QED
          BY <1>2, <2>2, <2>4
      <3> QED
        BY <1>1, <2>1, <3>1, <3>2, RecordSame
    <2> QED
      BY <2>3, <2>4
  <1> QED
    BY <1>3 DEF RecordsKept

LEMMA ErrorSame ==
    ASSUME ReaderInv, NEW l \in Line, Read(l), UNCHANGED error,
           ~IsMalformed(file', Len(file) + 1)
    PROVE  ErrorKept'
  <1>1. Extends(file, file', l) /\ Len(file) \in Nat /\ Len(file') = Len(file) + 1
    BY Reading
  <1>2. \A k \in 1..Len(file') : k \in 1..Len(file) \/ k = Len(file) + 1
    BY <1>1
  <1>3. \A k \in 1..Len(file) :
           k \in 1..Len(file') /\ (IsMalformed(file', k) <=> IsMalformed(file, k))
    BY <1>1, SameLines
  <1> QED
    BY <1>2, <1>3 DEF ReaderInv, ErrorKept

LEMMA ErrorNew ==
    ASSUME ReaderInv, NEW l \in Line, Read(l), Malformed,
           IsMalformed(file', Len(file) + 1)
    PROVE  ErrorKept' /\ error' \in Nat
  <1>1. Extends(file, file', l) /\ Len(file) \in Nat /\ Len(file') = Len(file) + 1
    BY Reading
  <1>2. \A k \in 1..Len(file') : k \in 1..Len(file) \/ k = Len(file) + 1
    BY <1>1
  <1>3. \A k \in 1..Len(file) :
           /\ k \in 1..Len(file') /\ k <= Len(file) + 1
           /\ IsMalformed(file', k) <=> IsMalformed(file, k)
    BY <1>1, SameLines
  <1>4. Len(file) + 1 \in 1..Len(file') /\ Len(file) + 1 # 0
    BY <1>1
  <1>5. CASE error = 0
    <2>1. error' = Len(file) + 1
      BY <1>5 DEF Malformed, lineno
    <2> QED
      BY <1>1, <1>2, <1>3, <1>4, <1>5, <2>1 DEF ReaderInv, ErrorKept
  <1>6. CASE error # 0
    <2>1. error' = error /\ error \in 1..Len(file)
      BY <1>6 DEF Malformed, ReaderInv, ErrorKept
    <2> QED
      BY <1>1, <1>2, <1>3, <1>6, <2>1 DEF ReaderInv, ErrorKept
  <1> QED
    BY <1>5, <1>6

LEMMA NameSame ==
    ASSUME ReaderInv, NEW l \in Line, Read(l), UNCHANGED prevName,
           Follows(file', Len(file) + 1),
           NameAbove(file', Len(file) + 2) <=> NameAbove(file, Len(file) + 1)
    PROVE  NameKept'
  <1>1. Extends(file, file', l) /\ Len(file) \in Nat /\ Len(file') = Len(file) + 1
    BY Reading
  <1>2. Len(file') + 1 = Len(file) + 2
    BY <1>1
  <1>3. ASSUME prevName # NoName
        PROVE  \E j \in 1..Len(file') : NameIn(file', j, Len(file')) /\ file'[j].name = prevName
    <2>1. PICK a \in 1..Len(file) : NameIn(file, a, Len(file)) /\ file[a].name = prevName
      BY <1>3 DEF ReaderInv, NameKept
    <2>2. NameIn(file', a, Len(file) + 1) /\ file'[a] = file[a] /\ a \in 1..Len(file')
      BY <1>1, <2>1, NewName, SameLines
    <2> QED
      BY <1>1, <2>1, <2>2
  <1> QED
    BY <1>2, <1>3 DEF ReaderInv, NameKept

LEMMA SectionSame ==
    ASSUME ReaderInv, NEW l \in Line, Read(l),
           section' = IF OpensIn(file', Len(file) + 1) THEN l.section ELSE section
    PROVE  SectionKept'
  <1>1. /\ Extends(file, file', l) /\ Len(file) \in Nat /\ Len(file') = Len(file) + 1
        /\ Len(file) \in 0..Len(file) /\ \A c \in 0..Len(file) : HasLast(file, c)
    BY Reading
  <1> QED
    BY <1>1, NewSectionIs DEF ReaderInv, SectionKept

\* A name is recorded under a key, and the record stays one.
LEMMA HandlerType ==
    ASSUME Typed, NEW name \in Names, NEW text \in Value \cup {NoValue}, Handler(name, text)
    PROVE  values' \in [Keys -> Seq(Recorded)]
  <1>1. <<section, name>> \in Keys
    BY DEF Typed, Keys
  <1>2. [line |-> lineno, text |-> text] \in Recorded
    BY DEF Typed, Recorded, lineno
  <1>3. Append(values[<<section, name>>], [line |-> lineno, text |-> text]) \in Seq(Recorded)
    BY <1>1, <1>2 DEF Typed
  <1> QED
    BY <1>1, <1>3 DEF Typed, Handler

\* What each action does with the state of the loop.
LEMMA SkipStep == ASSUME ReaderInv, NEW l \in Line, SkipLine(l) PROVE ReaderInv'
  <1>1. /\ Read(l) /\ l.kind = "skip"
        /\ UNCHANGED <<section, prevName, error, values>>
    BY LineIs DEF SkipLine
  <1>2. /\ Extends(file, file', l) /\ HeadersEnd'
        /\ file'[Len(file) + 1] = l
    BY <1>1, Reading DEF Extends
  <1>3. ~Continued(file', Len(file) + 1) /\ Follows(file', Len(file) + 1)
    BY <1>1, <1>2 DEF Continued, Follows
  <1>4. ~OpensIn(file', Len(file) + 1) /\ ~IsMalformed(file', Len(file) + 1)
    BY <1>1, <1>2 DEF OpensIn, IsMalformed
  <1>5. NameAbove(file', Len(file) + 2) <=> NameAbove(file, Len(file) + 1)
    BY <1>1, <1>2, NewLine
  <1>6. Typed'
    BY <1>1, <1>2 DEF Extends, ReaderInv, Typed
  <1> QED
    BY <1>1, <1>2, <1>3, <1>4, <1>5, <1>6, RecordsSame, ErrorSame, NameSame, SectionSame
       DEF ReaderInv

LEMMA ContinuationStep == ASSUME ReaderInv, NEW l \in Line, Continuation(l) PROVE ReaderInv'
  <1> DEFINE text == IF l \in Bare THEN l.value ELSE NoValue
  <1>1. /\ Read(l) /\ l.indent /\ prevName # NoName
        /\ Handler(prevName, text)
        /\ UNCHANGED <<section, prevName, error>>
    BY DEF Continuation, Continues
  <1>2. /\ Extends(file, file', l) /\ HeadersEnd'
        /\ file'[Len(file) + 1] = l
    BY <1>1, Reading DEF Extends
  <1>3. NameAbove(file, Len(file) + 1)
    BY <1>1 DEF ReaderInv, NameKept
  <1>4. l.kind # "skip"
    BY <1>1 DEF Line, Skip, Header, Open, Pair, Bare
  <1>5. Continued(file', Len(file) + 1) /\ Follows(file', Len(file) + 1)
    BY <1>1, <1>2, <1>3, <1>4, NewLine DEF Follows
  <1>6. ~OpensIn(file', Len(file) + 1) /\ ~IsMalformed(file', Len(file) + 1)
    BY <1>5 DEF OpensIn, IsMalformed
  <1>7. NameAbove(file', Len(file) + 2) <=> NameAbove(file, Len(file) + 1)
    BY <1>1, <1>2, <1>3, NewLine
  <1>8. text \in Value \cup {NoValue} /\ prevName \in Names
    BY <1>1, LineIs DEF ReaderInv, Typed
  <1>9. text = TextIn(file', Len(file) + 1)
    BY <1>2, <1>5, LineIs DEF TextIn
  <1> HIDE DEF text
  <1>10. RecordsKept'
    BY <1>1, <1>5, <1>6, <1>8, <1>9, RecordsNew
  <1>11. Typed'
    <2>1. values' \in [Keys -> Seq(Recorded)]
      BY <1>1, <1>8, HandlerType DEF ReaderInv
    <2> QED
      BY <1>1, <1>2, <2>1 DEF Extends, ReaderInv, Typed
  <1> QED
    BY <1>1, <1>2, <1>5, <1>6, <1>7, <1>10, <1>11, ErrorSame, NameSame, SectionSame
       DEF ReaderInv

LEMMA NewSectionStep == ASSUME ReaderInv, NEW l \in Line, NewSection(l) PROVE ReaderInv'
  <1>1. /\ Read(l) /\ l.kind = "header" /\ ~Continues(l)
        /\ section' = l.section /\ prevName' = NoName
        /\ UNCHANGED <<error, values>>
    BY LineIs DEF NewSection
  <1>2. /\ Extends(file, file', l) /\ HeadersEnd'
        /\ file'[Len(file) + 1] = l
        /\ Len(file) \in Nat /\ Len(file') + 1 = Len(file) + 2
    BY <1>1, Reading DEF Extends
  <1>3. ~Continued(file', Len(file) + 1)
    BY <1>1, ContinuesIs
  <1>4. OpensIn(file', Len(file) + 1) /\ ~IsMalformed(file', Len(file) + 1)
    BY <1>1, <1>2, <1>3 DEF OpensIn, IsMalformed
  <1>5. ~NameAbove(file', Len(file) + 2)
    BY <1>1, <1>2, NewLine DEF Continues, ReaderInv, NameKept
  <1>6. NameKept'
    BY <1>1, <1>2, <1>5 DEF NameKept
  <1>7. Typed'
    BY <1>1, <1>2, LineIs DEF Extends, ReaderInv, Typed
  <1> QED
    BY <1>1, <1>2, <1>3, <1>4, <1>6, <1>7, RecordsSame, ErrorSame, SectionSame
       DEF ReaderInv

LEMMA BadLineStep == ASSUME ReaderInv, NEW l \in Line, BadLine(l) PROVE ReaderInv'
  <1>1. /\ Read(l) /\ l.kind \in {"open", "bare"} /\ ~Continues(l)
        /\ Malformed
        /\ UNCHANGED <<section, prevName, values>>
    BY LineIs DEF BadLine
  <1>2. /\ Extends(file, file', l) /\ HeadersEnd'
        /\ file'[Len(file) + 1] = l
    BY <1>1, Reading DEF Extends
  <1>3. ~Continued(file', Len(file) + 1) /\ Follows(file', Len(file) + 1)
    BY <1>1, <1>2, ContinuesIs DEF Follows
  <1>4. ~OpensIn(file', Len(file) + 1) /\ IsMalformed(file', Len(file) + 1)
    BY <1>1, <1>2, <1>3 DEF OpensIn, IsMalformed
  <1>5. NameAbove(file', Len(file) + 2) <=> NameAbove(file, Len(file) + 1)
    BY <1>1, <1>2, NewLine
  <1>6. ErrorKept' /\ error' \in Nat
    BY <1>1, <1>4, ErrorNew
  <1>7. Typed'
    BY <1>1, <1>2, <1>6 DEF Extends, ReaderInv, Typed
  <1> QED
    BY <1>1, <1>2, <1>3, <1>4, <1>5, <1>6, <1>7, RecordsSame, NameSame, SectionSame
       DEF ReaderInv

LEMMA NameValueStep == ASSUME ReaderInv, NEW l \in Line, NameValue(l) PROVE ReaderInv'
  <1>1. /\ Read(l) /\ l.kind = "pair" /\ ~Continues(l)
        /\ Handler(l.name, l.value)
        /\ prevName' = l.name
        /\ UNCHANGED <<section, error>>
    BY LineIs DEF NameValue
  <1>2. /\ Extends(file, file', l) /\ HeadersEnd'
        /\ file'[Len(file) + 1] = l
        /\ Len(file) \in Nat /\ Len(file') = Len(file) + 1 /\ Len(file') + 1 = Len(file) + 2
        /\ Len(file) + 1 \in 1..Len(file')
    BY <1>1, Reading DEF Extends
  <1>3. ~Continued(file', Len(file) + 1)
    BY <1>1, ContinuesIs
  <1>4. ~OpensIn(file', Len(file) + 1) /\ ~IsMalformed(file', Len(file) + 1)
    BY <1>1, <1>2 DEF OpensIn, IsMalformed
  <1>5. /\ l.name \in Names /\ l.name # NoName
        /\ l.value \in Value \cup {NoValue}
        /\ l.value = TextIn(file', Len(file) + 1)
    BY <1>1, <1>2, <1>3, LineIs, ConfigAssumption DEF ConfigAssumption, TextIn
  <1>6. NameKept'
    <2>1. NameAbove(file', Len(file') + 1)
      BY <1>1, <1>2, NewLine
    <2>2. NameIn(file', Len(file) + 1, Len(file'))
      BY <1>1, <1>2, <1>3, NewName
    <2>3. file'[Len(file) + 1].name = prevName'
      BY <1>1, <1>2
    <2> QED
      BY <1>1, <1>2, <1>5, <2>1, <2>2, <2>3 DEF NameKept
  <1>7. RecordsKept'
    BY <1>1, <1>3, <1>4, <1>5, RecordsNew
  <1>8. Typed'
    <2>1. values' \in [Keys -> Seq(Recorded)]
      BY <1>1, <1>5, HandlerType DEF ReaderInv
    <2> QED
      BY <1>1, <1>2, <1>5, <2>1 DEF Extends, ReaderInv, Typed
  <1> QED
    BY <1>1, <1>2, <1>4, <1>6, <1>7, <1>8, ErrorSame, SectionSame DEF ReaderInv

\* Before the first line.
NothingRead ==
    /\ file = <<>>
    /\ section = NoSection
    /\ prevName = NoName
    /\ error = 0
    /\ values = [k \in Keys |-> <<>>]

LEMMA ReaderStart == NothingRead => ReaderInv
  <1> SUFFICES ASSUME NothingRead PROVE ReaderInv
    OBVIOUS
  <1> USE DEF NothingRead
  <1>1. Len(file) = 0
    OBVIOUS
  <1>2. Typed
    BY DEF Typed
  <1>3. HeadersEnd /\ SectionKept
    BY <1>1 DEF HeadersEnd, HasLast, SectionKept, SectionIn
  <1>4. NameKept
    BY <1>1 DEF NameKept, NameAbove
  <1>5. \A s \in Sections \cup {NoSection}, n \in Names : values[<<s, n>>] = <<>>
    BY DEF Keys
  <1>6. RecordsKept
    <2>1. Len(<<>>) = 0
      OBVIOUS
    <2>2. \A s \in Sections \cup {NoSection}, n \in Names : Record(file, <<>>, s, n)
      BY <1>1, <2>1 DEF Record
    <2> QED
      BY <1>5, <2>2 DEF RecordsKept
  <1>7. ErrorKept
    BY <1>1 DEF ErrorKept
  <1> QED
    BY <1>2, <1>3, <1>4, <1>6, <1>7 DEF ReaderInv

LEMMA ReaderRestart == NothingRead' => ReaderInv'
  BY ReaderStart, PTL

LEMMA ReaderSame ==
    ASSUME ReaderInv, UNCHANGED <<file, section, prevName, error, values>>
    PROVE  ReaderInv'
  BY DEF ReaderInv, Typed, HeadersEnd, SectionKept, NameKept, RecordsKept, ErrorKept

LEMMA ReaderStep == ReaderInv /\ [Next]_vars => ReaderInv'
  <1> SUFFICES ASSUME ReaderInv, [Next]_vars PROVE ReaderInv'
    OBVIOUS
  <1>1. ASSUME NEW l \in Line,
               SkipLine(l) \/ Continuation(l) \/ NewSection(l) \/ BadLine(l) \/ NameValue(l)
        PROVE  ReaderInv'
    BY <1>1, SkipStep, ContinuationStep, NewSectionStep, BadLineStep, NameValueStep
  <1>2. CASE EndOfFile
    BY <1>2, ReaderSame DEF EndOfFile
  <1>3. CASE UNCHANGED vars
    BY <1>3, ReaderSame DEF vars
  <1> QED
    BY <1>1, <1>2, <1>3 DEF Next

-----------------------------------------------------------------------------
(* What the definitions of ConfigReader say of the file read.              *)

LEMMA SaidOfFile ==
    /\ \A k : IsContinuation(k) <=> Continued(file, k)
    /\ \A k : SectionOf(k) = SectionIn(file, k)
    /\ \A j, k : IsNameOf(j, k) <=> NameIn(file, j, k)
  <1>1. \A k : IsContinuation(k) <=> Continued(file, k)
    BY DEF IsContinuation, Continued, HasNameAbove, NameAbove, IsHeader, Cuts
  <1>2. ASSUME NEW k PROVE SectionOf(k) = SectionIn(file, k)
    BY DEF SectionOf, SectionIn, LastHeader, Opens, OpensIn,
           IsContinuation, Continued, HasNameAbove, NameAbove, IsHeader, Cuts
  <1>3. \A j, k : IsNameOf(j, k) <=> NameIn(file, j, k)
    BY <1>1 DEF IsNameOf, NameIn, Follows
  <1> QED
    BY <1>1, <1>2, <1>3

LEMMA ReaderParses == ReaderInv => ParsedAsWritten
  <1> SUFFICES ASSUME ReaderInv PROVE ParsedAsWritten
    OBVIOUS
  <1>1. FirstError
    BY SaidOfFile DEF ReaderInv, ErrorKept, FirstError, IsMalformed
  <1>2. InOwnSection
    <2> SUFFICES ASSUME NEW s \in Sections \cup {NoSection}, NEW n \in Names
                 PROVE  LET lines == values[<<s, n>>]
                        IN /\ \A i, j \in 1..Len(lines) : i < j => lines[i].line < lines[j].line
                           /\ \A k \in 1..Len(file) :
                                (\E i \in 1..Len(lines) : lines[i].line = k) <=>
                                    /\ SectionOf(k) = s
                                    /\ \/ /\ file[k].kind = "pair" /\ ~IsContinuation(k)
                                          /\ file[k].name = n
                                       \/ /\ IsContinuation(k)
                                          /\ \E j \in 1..k : IsNameOf(j, k) /\ file[j].name = n
      BY DEF InOwnSection
    <2>1. Record(file, values[<<s, n>>], s, n)
      BY DEF ReaderInv, RecordsKept
    <2>2. \A k : Assigns(file, k, s, n) <=>
              /\ SectionOf(k) = s
              /\ \/ file[k].kind = "pair" /\ ~IsContinuation(k) /\ file[k].name = n
                 \/ IsContinuation(k) /\ \E j \in 1..k : IsNameOf(j, k) /\ file[j].name = n
      BY SaidOfFile DEF Assigns
    <2> QED
      BY <2>1, <2>2 DEF Record
  <1> QED
    BY <1>1, <1>2 DEF ParsedAsWritten

-----------------------------------------------------------------------------
(* The settings.                                                           *)

LEMMA GivenIs ==
    /\ \A k : TextOf(k) = TextIn(file, k)
    /\ \A s, n : Given(s, n) = GivenIn(file, s, n)
  <1>1. \A k : TextOf(k) = TextIn(file, k)
    BY SaidOfFile DEF TextOf, TextIn
  <1> QED
    BY <1>1, SaidOfFile DEF Given, GivenIn, Assigns

\* GetInteger reads the first line that gives the setting something.
LEMMA GetIntegerIs ==
    ASSUME ReaderInv, NEW s \in Sections, NEW n \in Names, NEW default
    PROVE  GetInteger(s, n, default) \in ExpectedIn(file, s, n, default)
  <1> DEFINE seq == values[<<s, n>>]
             at1 == CHOOSE k \in 1..Len(seq) : FirstText(seq, k)
             v == IntegerOf[seq[at1].text]
             first == {k \in GivenIn(file, s, n) : \A j \in GivenIn(file, s, n) : k <= j}
  <1>1. GetInteger(s, n, default) =
            IF (\E k \in 1..Len(seq) : FirstText(seq, k)) /\ v # NotANumber THEN v ELSE default
    BY DEF GetInteger, FirstText
  <1>2. seq \in Seq(Recorded) /\ Record(file, seq, s, n) /\ Len(seq) \in Nat
    BY DEF ReaderInv, Typed, RecordsKept, Keys
  <1>3. \A i \in 1..Len(seq) : seq[i].line \in Nat
    <2> HIDE DEF seq
    <2>1. \A i \in 1..Len(seq) : seq[i] \in Recorded
      BY <1>2
    <2> QED
      BY <2>1 DEF Recorded
  <1>4. ExpectedIn(file, s, n, default) =
            IF \A k \in first : IntegerOf[TextIn(file, k)] = NotANumber THEN {default}
            ELSE {IntegerOf[TextIn(file, k)] : k \in first}
    BY DEF ExpectedIn
  <1>5. \A k : k \in GivenIn(file, s, n) <=>
            k \in 1..Len(file) /\ \E i \in 1..Len(seq) : seq[i].line = k /\ seq[i].text # Empty
    <2> HIDE DEF seq
    <2>1. \A i \in 1..Len(seq) : seq[i].text = TextIn(file, seq[i].line)
      BY <1>2 DEF Record
    <2>2. \A k \in 1..Len(file) :
             (\E i \in 1..Len(seq) : seq[i].line = k) <=> Assigns(file, k, s, n)
      BY <1>2 DEF Record
    <2>3. \A k : k \in GivenIn(file, s, n) <=>
             k \in 1..Len(file) /\ Assigns(file, k, s, n) /\ TextIn(file, k) # Empty
      BY DEF GivenIn
    <2> QED
      BY <2>1, <2>2, <2>3
  <1>6. CASE \A i \in 1..Len(seq) : seq[i].text = Empty
    <2>1. first = {}
      BY <1>5, <1>6
    <2>2. ~\E k \in 1..Len(seq) : FirstText(seq, k)
      BY <1>6 DEF FirstText
    <2> HIDE DEF first, v, seq
    <2> QED
      BY <1>1, <1>4, <2>1, <2>2
  <1>7. CASE \E i \in 1..Len(seq) : FirstText(seq, i)
    <2>1. at1 \in 1..Len(seq) /\ FirstText(seq, at1)
      <3> HIDE DEF seq
      <3> QED
        BY <1>7
    <2> HIDE DEF at1, seq
    <2>2. seq[at1].line \in GivenIn(file, s, n)
      BY <1>2, <1>5, <2>1 DEF FirstText, Record
    <2>3. ASSUME NEW i \in 1..Len(seq), seq[i].text # Empty, i # at1
          PROVE  seq[at1].line < seq[i].line
      <3>1. ~(i \in 1..(at1 - 1))
        BY <2>1, <2>3 DEF FirstText
      <3>2. at1 < i
        BY <1>2, <2>1, <2>3, <3>1
      <3> QED
        BY <1>2, <2>1, <3>2 DEF Record
    <2>4. \A k \in GivenIn(file, s, n) : k \in Nat /\ (k = seq[at1].line \/ seq[at1].line < k)
      BY <1>3, <1>5, <2>3
    <2>5. seq[at1].line \in Nat
      BY <1>3, <2>1
    <2>6. first = {seq[at1].line}
      BY <2>2, <2>4, <2>5
    <2>7. v = IntegerOf[TextIn(file, seq[at1].line)]
      BY <1>2, <2>1 DEF Record
    <2> HIDE DEF first, v
    <2> QED
      BY <1>1, <1>4, <1>7, <2>6, <2>7
  <1> QED
    BY <1>2, <1>6, <1>7 DEF Record

LEMMA TextType ==
    ASSUME NEW seq \in Seq(Recorded), NEW k \in 1..Len(seq)
    PROVE  seq[k].text \in Value \cup {NoValue}
  <1>1. seq[k] \in Recorded
    OBVIOUS
  <1> QED
    BY <1>1 DEF Recorded

\* A number is read from a line that was recorded, or it is the default.
LEMMA GetIntegerType ==
    ASSUME ReaderInv, NEW s \in Sections, NEW n \in Names, NEW default \in Int
    PROVE  GetInteger(s, n, default) \in Int
  <1> DEFINE seq == values[<<s, n>>]
             First(k) == /\ seq[k].text # Empty
                         /\ \A j \in 1..(k - 1) : seq[j].text = Empty
             at1 == CHOOSE k \in 1..Len(seq) : First(k)
             v == IntegerOf[seq[at1].text]
  <1>1. GetInteger(s, n, default) =
            IF (\E k \in 1..Len(seq) : First(k)) /\ v # NotANumber THEN v ELSE default
    BY DEF GetInteger
  <1>2. seq \in Seq(Recorded)
    BY DEF ReaderInv, Typed, Keys
  <1>3. ASSUME \E k \in 1..Len(seq) : First(k), v # NotANumber PROVE v \in Int
    <2>1. at1 \in 1..Len(seq)
      <3> HIDE DEF First, seq
      <3> QED
        BY <1>3
    <2>2. seq[at1].text \in Value \cup {NoValue}
      <3> HIDE DEF at1, seq
      <3> QED
        BY <1>2, <2>1, TextType
    <2>3. v \in Int \cup {NotANumber}
      <3> HIDE DEF at1, seq
      <3> QED
        BY <2>2, SettingsAssumption DEF SettingsAssumption
    <2> QED
      BY <1>3, <2>3
  <1> HIDE DEF First, v
  <1> QED
    BY <1>1, <1>3

\* An int has the width of an int, and a number that fits is kept.
LEMMA IntIs ==
    ASSUME NEW n \in Int
    PROVE  /\ ToInt(n) \in (-IntMax - 1)..IntMax
           /\ n \in (-IntMax - 1)..IntMax => ToInt(n) = n
  <1>1. IntMax \in Nat
    BY SettingsAssumption DEF SettingsAssumption
  <1> DEFINE m == n + IntMax + 1
             w == 2 * IntMax + 2
  <1>2. m \in Int /\ w \in Nat /\ w > 0
    BY <1>1
  <1>3. ASSUME NEW a \in Int, NEW b \in Nat, b > 0
        PROVE  a % b \in 0..(b - 1) /\ (a \in 0..(b - 1) => a % b = a)
    BY <1>3
  <1>4. m % w \in 0..(w - 1) /\ (m \in 0..(w - 1) => m % w = m)
    <2> HIDE DEF m, w
    <2> QED
      BY <1>2, <1>3
  <1>5. PICK r \in Int : r = m % w
    BY <1>1, <1>4
  <1>6. ToInt(n) = r - (IntMax + 1)
    BY <1>5 DEF ToInt
  <1>7. r \in 0..(w - 1) /\ (m \in 0..(w - 1) => r = m)
    BY <1>4, <1>5
  <1> QED
    BY <1>1, <1>6, <1>7

LEMMA SettingsStep ==
    ASSUME SettingsInv, constructed => ended, [SettingsNext]_<<vars, settings>>
    PROVE  SettingsInv' /\ (constructed' => ended')
  <1>1. CASE Next /\ UNCHANGED settings
    <2>1. ReaderInv'
      BY <1>1, ReaderStep DEF SettingsInv
    <2>2. ~ended
      BY <1>1 DEF Next, SkipLine, Continuation, NewSection, BadLine, NameValue, Read, EndOfFile
    <2>3. ~constructed' /\ rknnThread' = rknnThread
      BY <1>1, <2>2 DEF settings
    <2> QED
      BY <2>1, <2>3 DEF SettingsInv, NumbersRead
  <1>2. CASE Construct
    <2>1. /\ ended /\ UNCHANGED vars
          /\ httpPort' = ToInt(GetInteger("server", "http_port", 8000))
          /\ rknnThread' = AtMostSix(ToInt(GetInteger("rknn", "rknn_thread", 3)))
      BY <1>2 DEF Construct
    <2>2. ReaderInv' /\ file' = file /\ ended'
      BY <2>1, ReaderStep DEF SettingsInv, vars
    <2>3. /\ {"server", "rknn"} \subseteq Sections
          /\ {"http_port", "rknn_thread"} \subseteq Names
      BY SettingsAssumption DEF SettingsAssumption
    <2>4. /\ GetInteger("server", "http_port", 8000) \in ExpectedIn(file, "server", "http_port", 8000)
          /\ GetInteger("rknn", "rknn_thread", 3) \in ExpectedIn(file, "rknn", "rknn_thread", 3)
      BY <2>3, GetIntegerIs DEF SettingsInv
    <2>5. ToInt(GetInteger("rknn", "rknn_thread", 3)) \in Int
      <3>1. GetInteger("rknn", "rknn_thread", 3) \in Int
        BY <2>3, GetIntegerType DEF SettingsInv
      <3>2. ToInt(GetInteger("rknn", "rknn_thread", 3)) \in (-IntMax - 1)..IntMax
        BY ONLY <3>1, IntIs
      <3> QED
        BY ONLY <3>2, SettingsAssumption DEF SettingsAssumption
    <2>6. \A n \in Int : AtMostSix(n) = IF n <= 6 THEN n ELSE 6
      BY DEF AtMostSix
    <2>7. rknnThread' \in Int
      BY <2>1, <2>5, <2>6
    <2>8. NumbersRead'
      BY <2>1, <2>2, <2>4, <2>5, <2>6 DEF NumbersRead
    <2> QED
      BY <2>2, <2>7, <2>8 DEF SettingsInv
  <1>3. CASE UNCHANGED <<vars, settings>>
    <2>1. ReaderInv'
      BY <1>3, ReaderStep DEF SettingsInv
    <2> QED
      BY <1>3, <2>1 DEF vars, settings, SettingsInv, NumbersRead
  <1> QED
    BY <1>1, <1>2, <1>3 DEF SettingsNext

LEMMA SettingsStart == SettingsInit => SettingsInv /\ (constructed => ended)
  BY ReaderStart DEF NothingRead, SettingsInit, Init, SettingsInv, NumbersRead

LEMMA SettingsCount == SettingsInv => FirstIntegerCounts
  <1> SUFFICES ASSUME SettingsInv, constructed /\ ended PROVE FirstIntegerCounts
    BY DEF FirstIntegerCounts
  <1> DEFINE first(s, n) == {k \in Given(s, n) : \A j \in Given(s, n) : k <= j}
             Expected(s, n, default) ==
                 IF \A k \in first(s, n) : IntegerOf[TextOf(k)] = NotANumber THEN {default}
                 ELSE {IntegerOf[TextOf(k)] : k \in first(s, n)}
  <1>1. \A s, n, default : Expected(s, n, default) = ExpectedIn(file, s, n, default)
    BY GivenIs DEF ExpectedIn
  <1>2. /\ \E n \in ExpectedIn(file, "server", "http_port", 8000) : httpPort = ToInt(n)
        /\ \E n \in ExpectedIn(file, "rknn", "rknn_thread", 3) :
              rknnThread = IF ToInt(n) <= 6 THEN ToInt(n) ELSE 6
    BY DEF SettingsInv, NumbersRead
  <1>3. /\ \E n \in Expected("server", "http_port", 8000) : httpPort = ToInt(n)
        /\ \E n \in Expected("rknn", "rknn_thread", 3) :
              rknnThread = IF ToInt(n) <= 6 THEN ToInt(n) ELSE 6
    <2> HIDE DEF Expected
    <2> QED
      BY <1>1, <1>2
  <1> QED
    BY <1>3 DEF FirstIntegerCounts

-----------------------------------------------------------------------------
\* The state of the reader is what the lines read so far say, and the settings
\* are those of the whole file.
THEOREM SettingsInvariance == SettingsSpec => [](SettingsInv /\ (constructed => ended))
  <1>1. /\ SettingsInv /\ (constructed => ended)
        /\ [SettingsNext]_<<vars, settings>>
        => (SettingsInv /\ (constructed => ended))'
    BY SettingsStep
  <1> QED
    BY <1>1, SettingsStart, PTL DEF SettingsSpec

\* ini_parse_stream and ValueHandler, which see one line after the other and
\* remember two names, record every value under the section and the name the
\* file as a whole gives it, and report the first malformed line, in files of
\* any length.
THEOREM Parses == SettingsSpec => []ParsedAsWritten
  <1>1. SettingsInv => ParsedAsWritten
    BY ReaderParses DEF SettingsInv
  <1> QED
    BY <1>1, SettingsInvariance, PTL

\* A number in a setting is the first one the file gives for it, as far as an
\* int holds it.
THEOREM FirstCounts == SettingsSpec => []FirstIntegerCounts
  BY SettingsCount, SettingsInvariance, PTL

=============================================================================
