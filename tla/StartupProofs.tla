---------------------------- MODULE StartupProofs ----------------------------
(***************************************************************************)
(* What is proved of Startup for any configuration file, any number of     *)
(* workers, classes, frames and failures: the settings are those of the    *)
(* configuration file, names those of the label file, encode leaves only   *)
(* frames behind, and where the process ends it has a cause for ending     *)
(* there.                                                                  *)
(***************************************************************************)
EXTENDS Startup, SettingsProofs, TLAPS

-----------------------------------------------------------------------------
(* The label table.                                                        *)

\* What the table says of a class is missing, for a reason.
Named(c) == labels[c] = c \/ cut \/ lines <= c

\* A loader has stored the lines it has read; whoever is past the load, or
\* finds the flag set, finds every name the file has.
LabelInv ==
    /\ L!LabelsTypeOK
    /\ \A c \in L!Class : labels[c] \in {c, L!NoName}
    /\ lines = L!Unknown => /\ ~init
                            /\ found.name = found.class
                            /\ \A w \in Workers : at[w] \in {"out", "open"}
    /\ \A w \in Workers : at[w] = "read" =>
            /\ 0 <= lines /\ i[w] <= lines
            /\ \A c \in L!Class : c < i[w] => labels[c] = c
    /\ \A w \in Workers : at[w] \in {"flag", "loaded"} => \A c \in L!Class : Named(c)
    /\ init => \A c \in L!Class : Named(c)
    /\ L!NamedAsInFile

LEMMA LabelInit == L!LabelsInit => LabelInv
  <1> SUFFICES ASSUME L!LabelsInit PROVE LabelInv
    OBVIOUS
  <1> USE StartupAssumption
      DEF StartupAssumption, L!LabelsInit, L!Class, L!NoName, L!Unknown, L!NamedAsInFile
  <1>1. L!LabelsTypeOK
    <2>1. 0 \in L!Class
      OBVIOUS
    <2>a. lines \in {L!Unknown} \cup (-1)..ClassNum
      OBVIOUS
    <2>b. labels \in [L!Class -> L!Class \cup {L!NoName}]
      OBVIOUS
    <2>c. at \in [Workers -> {"out", "open", "read", "flag", "loaded"}]
      OBVIOUS
    <2>d. i \in [Workers -> 0..ClassNum]
      OBVIOUS
    <2>e. found \in [class : L!Class, name : L!Class \cup {L!NoName}]
      BY <2>1
    <2>f. cut \in BOOLEAN /\ init \in BOOLEAN
      OBVIOUS
    <2> QED
      BY <2>a, <2>b, <2>c, <2>d, <2>e, <2>f DEF L!LabelsTypeOK
  <1>2. found.name = found.class
    OBVIOUS
  <1> QED
    BY <1>1, <1>2 DEF LabelInv

\* The steps of one worker.
LEMMA LabelStep ==
    ASSUME LabelInv, NEW w \in Workers,
           L!Load(w) \/ L!NoMoreLines(w) \/ L!Return(w)
    PROVE  LabelInv'
  <1> USE StartupAssumption DEF StartupAssumption, LabelInv, L!LabelsTypeOK, L!Class,
                                L!NoName, L!Unknown, L!NamedAsInFile, L!Goto, Named
  <1>1. CASE L!TestFlag(w)
    BY <1>1 DEF L!TestFlag
  <1>2. CASE L!OpenFile(w)
    <2> USE <1>2 DEF L!OpenFile
    <2>1. CASE lines # L!Unknown
      BY <2>1
    <2>2. CASE lines = L!Unknown
      <3>1. lines' \in (-1)..ClassNum /\ L!LabelsTypeOK'
        BY <2>2
      <3>2. \A v \in Workers : at'[v] \in {"flag", "loaded"} => v = w /\ lines' = -1
        BY <2>2, <3>1
      <3>3. \A v \in Workers : at'[v] = "read" => v = w /\ i'[w] = 0 /\ lines' >= 0
        BY <2>2, <3>1
      <3>4. \A c \in L!Class : labels'[c] \in {c, L!NoName}
        OBVIOUS
      <3>5. ~init' /\ lines' # L!Unknown
        BY <2>2, <3>1
      <3>6. L!NamedAsInFile'
        BY <2>2, <3>1
      <3>7. \A v \in Workers : at'[v] \in {"flag", "loaded"} => \A c \in L!Class : Named(c)'
        BY <3>2
      <3>8. \A v \in Workers : at'[v] = "read" =>
                /\ 0 <= lines' /\ i'[v] <= lines'
                /\ \A c \in L!Class : c < i'[v] => labels'[c] = c
        BY <3>3
      <3> QED
        BY <3>1, <3>4, <3>5, <3>6, <3>7, <3>8
    <2> QED
      BY <2>1, <2>2
  <1>3. CASE L!StoreLine(w)
    <2> USE <1>3 DEF L!StoreLine
    <2>1. /\ i[w] \in 0..ClassNum /\ i[w] < lines /\ lines \in (-1)..ClassNum
          /\ i[w] \in L!Class
      OBVIOUS
    <2>2. \A c \in L!Class : labels'[c] = IF c = i[w] THEN c ELSE labels[c]
      BY <2>1
    <2>3. \A v \in Workers : /\ i'[v] = IF v = w THEN i[w] + 1 ELSE i[v]
                             /\ v # w => at'[v] = at[v]
      <3>1. /\ i \in [Workers -> 0..ClassNum] /\ i' = [i EXCEPT ![w] = @ + 1]
            /\ at \in [Workers -> {"out", "open", "read", "flag", "loaded"}]
            /\ at' = [at EXCEPT ![w] = IF i[w] + 1 = ClassNum THEN "flag" ELSE "read"]
        OBVIOUS
      <3> QED
        BY ONLY <3>1
    <2>4. at'[w] = IF i[w] + 1 = ClassNum THEN "flag" ELSE "read"
      OBVIOUS
    <2>5. \A c \in L!Class : Named(c) => Named(c)'
      BY <2>2
    <2>6. i[w] + 1 = ClassNum => \A c \in L!Class : labels'[c] = c
      BY <2>1, <2>2
    <2>7. L!LabelsTypeOK'
      BY <2>1
    <2>8. \A c \in L!Class : labels'[c] \in {c, L!NoName}
      BY <2>2
    <2>9. \A v \in Workers : at'[v] = "read" =>
             /\ 0 <= lines' /\ i'[v] <= lines'
             /\ \A c \in L!Class : c < i'[v] => labels'[c] = c
      BY <2>1, <2>2, <2>3
    <2>10. \A v \in Workers : at'[v] \in {"flag", "loaded"} => \A c \in L!Class : Named(c)'
      BY <2>3, <2>4, <2>5, <2>6
    <2>11. init' => \A c \in L!Class : Named(c)'
      BY <2>5
    <2>12. L!NamedAsInFile' /\ lines' # L!Unknown
      BY <2>1
    <2> QED
      BY <2>7, <2>8, <2>9, <2>10, <2>11, <2>12
  <1>4. CASE L!NoMoreLines(w)
    <2> USE <1>4 DEF L!NoMoreLines
    <2>1. ASSUME NEW c \in L!Class PROVE Named(c)'
      <3>1. CASE i[w] < lines
        BY <3>1
      <3>2. CASE i[w] = lines
        BY <3>2
      <3> QED
        BY <3>1, <3>2
    <2>2. cut => cut'
      OBVIOUS
    <2>3. L!LabelsTypeOK'
      OBVIOUS
    <2> QED
      BY <2>1, <2>2, <2>3
  <1>5. CASE L!SetFlag(w)
    BY <1>5 DEF L!SetFlag
  <1>6. CASE L!Return(w)
    BY <1>6 DEF L!Return
  <1> QED
    BY <1>1, <1>2, <1>3, <1>4, <1>5, <1>6 DEF L!Load

\* A name is looked up by a worker that is past the load.
LEMMA LookUpStep ==
    ASSUME LabelInv, NEW w \in Workers, NEW c \in L!Class, L!LookUp(w, c)
    PROVE  LabelInv'
  <1> USE DEF LabelInv, L!LabelsTypeOK, L!NamedAsInFile, Named, L!LookUp
  <1>1. L!LabelsTypeOK'
    <2>1. labels[c] \in L!Class \cup {L!NoName}
      OBVIOUS
    <2> QED
      BY <2>1
  <1>2. found'.name = labels[c] /\ found'.class = c
    OBVIOUS
  <1>3. at[w] = "loaded" /\ lines # L!Unknown
    OBVIOUS
  <1>4. L!NamedAsInFile'
    BY <1>2, <1>3
  <1> QED
    BY <1>1, <1>3, <1>4

\* The rest of the program leaves the table alone.
LEMMA LabelSame == LabelInv /\ UNCHANGED table => LabelInv'
  BY DEF LabelInv, table, L!LabelsTypeOK, L!NamedAsInFile, Named

\* What the program does to the table are the steps of Labels.
LEMMA TableStep ==
    ASSUME StartupNext
    PROVE  \/ UNCHANGED table
           \/ \E w \in Workers :
                L!Load(w) \/ L!NoMoreLines(w) \/ L!Return(w) \/ \E c \in L!Class : L!LookUp(w, c)
  <1>1. CASE Configure \/ NoConfigFile
    BY <1>1 DEF Configure, NoConfigFile
  <1>2. CASE Main
    BY <1>2 DEF Main, LeaveConstructors, CreatePool, AddMediaSession, CreateCapture, InitEncoder,
                LoadModel, QueryOutputs, CreateServer
  <1>3. CASE Thread
    BY <1>3 DEF Thread, ReadFrame, Send, Encode
  <1>4. ASSUME NEW w \in Workers, Worker(w)
        PROVE  L!Load(w) \/ L!NoMoreLines(w) \/ L!Return(w) \/ \E c \in L!Class : L!LookUp(w, c)
    BY <1>4 DEF Worker, Infer, LoadLabels, StopReading, CopyName, L!Load
  <1> QED
    BY <1>1, <1>2, <1>3, <1>4 DEF StartupNext

LEMMA LabelNext == LabelInv /\ [StartupNext]_startupVars => LabelInv'
  <1>1. ASSUME LabelInv, StartupNext PROVE LabelInv'
    BY <1>1, TableStep, LabelStep, LookUpStep, LabelSame
  <1>2. ASSUME LabelInv, UNCHANGED startupVars PROVE LabelInv'
    BY <1>2, LabelSame DEF startupVars
  <1> QED
    BY <1>1, <1>2

\* The loaders of the label table, whoever they are and however they overlap,
\* keep it so that a worker past the load finds every name the file has
\* (post_process, loadLabelName and readLines).
THEOREM LabelInvariance == StartupSpec => []LabelInv
  <1>1. StartupInit => LabelInv
    BY LabelInit DEF StartupInit
  <1> QED
    BY <1>1, LabelNext, PTL DEF StartupSpec

\* A name that is drawn is the one the label file gives the class, however many
\* workers loaded the file at once.
THEOREM NamesHold == StartupSpec => []NamedAsInFile
  <1>1. LabelInv => NamedAsInFile
    BY DEF LabelInv, NamedAsInFile
  <1> QED
    BY <1>1, LabelInvariance, PTL

-----------------------------------------------------------------------------
(* The objects of the encoder.                                             *)

\* What is alive at each step of init and encode.  encode is called again only
\* after a call that succeeded, or for the first time.
EncoderInv ==
    /\ ret \in {"none", "ok", "failed"}
    /\ cfgs \in Nat /\ frameObjects \in Nat /\ packets \in Nat /\ headers \in Nat
    /\ calls \in Nat /\ sent \in Nat
    /\ alive \in BOOLEAN
    /\ cfgs <= 1
    /\ step \in {"new", "create", "init", "cfg"} => cfgs = 0
    /\ step \in {"buffer", "control"} => cfgs = 1
    /\ step \in {"new"} \cup E!InitSteps =>
            frameObjects = 0 /\ packets = 0 /\ headers = 0 /\ calls = 0
    /\ step \in E!EncodeSteps =>
            /\ calls = sent + 1
            /\ headers = IF step = "header" THEN 1 ELSE 0
            /\ packets = headers
            /\ frameObjects = IF step = "frame" THEN calls - 1 ELSE calls
    /\ OnlyFramesPile
    /\ step = "idle" /\ alive /\ calls = sent => packets = 0 /\ frameObjects = calls

LEMMA EncoderStart == StartupInit => EncoderInv
  BY DEF StartupInit, E!EncoderInit, EncoderInv, E!InitSteps, E!EncodeSteps,
         OnlyFramesPile, E!OnlyFramesPile

LEMMA InitEncoderStep ==
    ASSUME EncoderInv, NEW ok \in BOOLEAN, InitEncoder(ok)
    PROVE  EncoderInv'
  <1> USE DEF EncoderInv, E!InitSteps, E!EncodeSteps, E!objects, E!Ends, E!Next,
              OnlyFramesPile, E!OnlyFramesPile, InitEncoder, Budget, Lives, main, inOrder
  <1>1. CASE E!CallInit
    BY <1>1 DEF E!CallInit
  <1>2. CASE E!MppCreate(ok)
    BY <1>2 DEF E!MppCreate
  <1>3. CASE E!MppInit(ok)
    BY <1>3 DEF E!MppInit
  <1>4. CASE E!MppEncCfgInit(ok)
    BY <1>4 DEF E!MppEncCfgInit
  <1>5. CASE E!MppBufferGet(ok)
    BY <1>5 DEF E!MppBufferGet
  <1>6. CASE E!SetCfg(ok)
    BY <1>6 DEF E!SetCfg
  <1> QED
    BY <1>1, <1>2, <1>3, <1>4, <1>5, <1>6 DEF E!InitStep

LEMMA EncodeStep ==
    ASSUME EncoderInv, NEW ok \in BOOLEAN, Encode(ok)
    PROVE  EncoderInv'
  <1>0. alive' \in BOOLEAN /\ sent' = sent
    BY DEF EncoderInv, Encode, Lives, Dies, inOrder
  <1> USE DEF EncoderInv, E!InitSteps, E!EncodeSteps, E!objects, E!Ends, E!Next,
              OnlyFramesPile, E!OnlyFramesPile
  <1>1. CASE E!CallEncode /\ calls = sent
    <2>1. alive
      BY DEF Encode, Budget
    <2> QED
      BY <1>0, <1>1, <2>1 DEF E!CallEncode
  <1>2. CASE E!FrameInit(ok)
    BY <1>0, <1>2 DEF E!FrameInit
  <1>3. CASE E!PutFrame(ok)
    BY <1>0, <1>3 DEF E!PutFrame
  <1>4. CASE E!GetPacket(ok)
    BY <1>0, <1>4 DEF E!GetPacket
  <1>5. CASE E!GetHeader(ok)
    BY <1>0, <1>5 DEF E!GetHeader
  <1> QED
    BY <1>1, <1>2, <1>3, <1>4, <1>5 DEF E!EncodeStep, Encode

LEMMA SendStep == EncoderInv /\ Send => EncoderInv'
  <1> SUFFICES ASSUME EncoderInv, Send PROVE EncoderInv'
    OBVIOUS
  <1>1. /\ step = "idle" /\ UNCHANGED encoder
        /\ sent' \in Nat /\ (ret # "failed" => sent' = sent + 1)
    BY DEF Send, EncoderInv
  <1>2. OnlyFramesPile'
    BY <1>1 DEF EncoderInv, OnlyFramesPile, E!OnlyFramesPile, encoder
  <1>3. alive' => ret # "failed"
    BY DEF Send, Dies
  <1>4. alive' => packets = 0 /\ frameObjects = calls
    BY <1>1, <1>3 DEF EncoderInv, OnlyFramesPile, E!OnlyFramesPile
  <1>5. alive' \in BOOLEAN
    BY DEF Send, Dies, Lives, EncoderInv
  <1> QED
    BY <1>1, <1>2, <1>4, <1>5 DEF EncoderInv, E!InitSteps, E!EncodeSteps, encoder

\* Whatever else happens leaves the encoder alone, and brings nobody to life.
LEMMA OtherSteps ==
    ASSUME StartupNext, alive \in BOOLEAN
    PROVE  \/ \E ok \in BOOLEAN : InitEncoder(ok) \/ Encode(ok)
           \/ Send
           \/ UNCHANGED <<encoder, sent>> /\ alive /\ alive' \in BOOLEAN
  <1> USE DEF Budget, Lives, Dies, fate, inOrder
  <1>1. CASE Configure \/ NoConfigFile
    BY <1>1 DEF Configure, NoConfigFile
  <1>2. CASE Main
    BY <1>2 DEF Main, LeaveConstructors, CreatePool, AddMediaSession, CreateCapture,
                LoadModel, QueryOutputs, CreateServer
  <1>3. CASE Thread
    BY <1>3 DEF Thread, ReadFrame
  <1>4. ASSUME NEW w \in Workers, Worker(w)
        PROVE  UNCHANGED <<encoder, sent>> /\ alive /\ alive' \in BOOLEAN
    BY <1>4 DEF Worker, Infer, LoadLabels, StopReading, CopyName
  <1> QED
    BY <1>1, <1>2, <1>3, <1>4 DEF StartupNext

LEMMA EncoderNext == EncoderInv /\ [StartupNext]_startupVars => EncoderInv'
  <1>1. ASSUME EncoderInv, UNCHANGED <<encoder, sent>>, alive' => alive, alive' \in BOOLEAN
        PROVE  EncoderInv'
    BY <1>1 DEF EncoderInv, E!InitSteps, E!EncodeSteps, encoder,
                OnlyFramesPile, E!OnlyFramesPile
  <1>2. ASSUME EncoderInv, StartupNext PROVE EncoderInv'
    <2>1. alive \in BOOLEAN
      BY <1>2 DEF EncoderInv
    <2> QED
      BY <1>1, <1>2, <2>1, OtherSteps, InitEncoderStep, EncodeStep, SendStep
  <1>3. ASSUME EncoderInv, UNCHANGED startupVars PROVE EncoderInv'
    BY <1>1, <1>3 DEF startupVars, inOrder, fate, EncoderInv
  <1> QED
    BY <1>2, <1>3

\* What RkEncoder::init and encode have alive at each call of the library.
THEOREM EncoderInvariance == StartupSpec => []EncoderInv
  BY EncoderStart, EncoderNext, PTL DEF StartupSpec

\* Between two calls of encode nothing of the earlier ones is alive but their
\* frames, and a packet whose header was refused.
THEOREM FramesPile == StartupSpec => []OnlyFramesPile
  <1>1. EncoderInv => OnlyFramesPile
    BY DEF EncoderInv
  <1> QED
    BY <1>1, EncoderInvariance, PTL

-----------------------------------------------------------------------------
(***************************************************************************)
(* The configuration: read as in SettingsProofs, and gone with the         *)
(* constructors.                                                           *)
(***************************************************************************)

ConfigInv ==
    /\ SettingsInv
    /\ stage = "config" => (constructed => ended)

LEMMA ConfigStart == StartupInit => ConfigInv
  BY SettingsStart DEF StartupInit, ConfigInv

LEMMA ConfigNext == ConfigInv /\ [StartupNext]_startupVars => ConfigInv'
  <1>1. ASSUME ConfigInv, Configure PROVE ConfigInv'
    <2>1. stage = "config" /\ stage' = stage /\ SettingsNext
      BY <1>1 DEF Configure, main
    <2>2. SettingsInv' /\ (constructed' => ended')
      BY <1>1, <2>1, SettingsStep DEF ConfigInv
    <2> QED
      BY <2>2 DEF ConfigInv
  <1>2. ASSUME ConfigInv, LeaveConstructors PROVE ConfigInv'
    <2>1. NothingRead' /\ ~ended' /\ UNCHANGED settings /\ stage' = "capture"
      BY <1>2 DEF LeaveConstructors, NothingRead
    <2>2. ReaderInv'
      BY <2>1, ReaderRestart
    <2> QED
      BY <1>2, <2>1, <2>2 DEF ConfigInv, SettingsInv, NumbersRead, settings
  <1>3. ASSUME ConfigInv, UNCHANGED <<vars, settings>>, stage' = "config" => stage = "config"
        PROVE  ConfigInv'
    <2>1. ReaderInv'
      BY <1>3, ReaderStep DEF ConfigInv, SettingsInv
    <2> QED
      BY <1>3, <2>1 DEF vars, settings, ConfigInv, SettingsInv, NumbersRead
  <1>4. ASSUME StartupNext, ~Configure, ~LeaveConstructors
        PROVE  UNCHANGED <<vars, settings>> /\ (stage' = "config" => stage = "config")
    <2>1. CASE NoConfigFile
      BY <2>1 DEF NoConfigFile, main
    <2>2. CASE Main
      BY <1>4, <2>2 DEF Main, CreatePool, AddMediaSession, CreateCapture, InitEncoder,
                        LoadModel, QueryOutputs, CreateServer, main
    <2>3. CASE Thread
      BY <2>3 DEF Thread, ReadFrame, Send, Encode, main
    <2>4. ASSUME NEW w \in Workers, Worker(w)
          PROVE  UNCHANGED <<vars, settings>> /\ (stage' = "config" => stage = "config")
      BY <2>4 DEF Worker, Infer, LoadLabels, StopReading, CopyName, main
    <2> QED
      BY <1>4, <2>1, <2>2, <2>3, <2>4 DEF StartupNext
  <1>5. UNCHANGED startupVars => UNCHANGED <<vars, settings>> /\ stage' = stage
    BY DEF startupVars, main
  <1> QED
    BY <1>1, <1>2, <1>3, <1>4, <1>5

THEOREM ConfigInvariance == StartupSpec => []ConfigInv
  BY ConfigStart, ConfigNext, PTL DEF StartupSpec

\* Start-up reads the file as SettingsProofs says, and uses what it has read.
THEOREM StartupParses == StartupSpec => []ParsedAsWritten
  <1>1. ConfigInv => ParsedAsWritten
    BY ReaderParses DEF ConfigInv, SettingsInv
  <1> QED
    BY <1>1, ConfigInvariance, PTL

THEOREM StartupCounts == StartupSpec => []FirstIntegerCounts
  <1>1. ConfigInv => FirstIntegerCounts
    BY SettingsCount DEF ConfigInv
  <1> QED
    BY <1>1, ConfigInvariance, PTL

-----------------------------------------------------------------------------
(* What ends the process.                                                  *)

\* The encoding thread starts when the list of RkYolos is complete, and what
\* uses the frames comes after them.
InPlace ==
    /\ frames \in Nat /\ taken \in Nat
    /\ rkyolos \in Seq({"whole", "partial", "unset"})
    /\ thread # "none" => stage = "loop"
    /\ thread = "encode" => frames > 0
    /\ frames > 0 => thread # "none"
    /\ \A w \in Workers : at[w] # "out" => frames > 0
    /\ sent > 0 => frames > 0
    /\ stage \in {"session", "loop"} => Len(rkyolos) = rknnThread
    /\ stage \in {"config", "capture"} => step = "new"

\* What a failure leaves behind can be told from it, and the other way round.
Remembered ==
    /\ alive => failed \cap {"config", "capture", "model", "server"} = {}
    /\ alive => \A k \in 1..Len(rkyolos) : rkyolos[k] = "unset" => "load" \in failed
    /\ cut => "labels" \in failed

Allocating == {"new", "create", "init", "cfg", "buffer"}

\* Without its input buffer encode does not get beyond the frame.
BufferKept ==
    /\ step \in Allocating => ~buffer /\ "encoder" \notin failed
    /\ step \notin Allocating => (buffer <=> "encoder" \notin failed)
    /\ "encoder" \in failed =>
            /\ sent = 0
            /\ step \in {"control", "idle", "frame", "crashed"}
            /\ step = "idle" /\ calls > sent => ret = "failed"
    /\ step = "idle" /\ calls > sent /\ ret = "failed" => "encode" \in failed

AliveInv ==
    /\ InPlace
    /\ Remembered
    /\ BufferKept
    /\ EndsWhereItFailed

LEMMA AliveStart == StartupInit => AliveInv
  BY DEF StartupInit, E!EncoderInit, L!LabelsInit, AliveInv, InPlace, Remembered, BufferKept,
         Allocating, EndsWhereItFailed

\* What a call adds to what has failed.
LEMMA FailedIs ==
    ASSUME NEW ok \in BOOLEAN, NEW kind, Budget(ok, kind)
    PROVE  /\ alive
           /\ \A k : k \in failed' <=> k \in failed \/ (~ok /\ k = kind)
  BY DEF Budget

\* The parts of the invariant that a step leaves alone.
LEMMA PlaceSame ==
    ASSUME InPlace, UNCHANGED <<main, thread, frames, taken, rknnThread, at>>,
           step' = step \/ stage \notin {"config", "capture"}, sent' > 0 => sent > 0 \/ frames > 0
    PROVE  InPlace'
  BY DEF InPlace, main

LEMMA RememberedSame ==
    ASSUME Remembered, UNCHANGED <<rkyolos, cut>>, alive' => alive,
           \A k : k \in failed => k \in failed',
           \A k \in {"config", "capture", "model", "server"} : alive' => k \notin failed' \/ k \in failed
    PROVE  Remembered'
  BY DEF Remembered

LEMMA BufferSame ==
    ASSUME BufferKept, UNCHANGED <<encoder, sent>>,
           \A k : k \in failed => k \in failed',
           "encoder" \in failed' => "encoder" \in failed
    PROVE  BufferKept'
  BY DEF BufferKept, encoder

LEMMA EndsSame ==
    ASSUME EndsWhereItFailed, sent' = sent, alive' \/ EndsStarting' \/ EndsLooping',
           sent > 0 => \A k \in {"config", "capture", "encoder", "model", "server"} :
                          k \in failed' => k \in failed
    PROVE  EndsWhereItFailed'
  BY DEF EndsWhereItFailed

-----------------------------------------------------------------------------
(* The main thread.                                                        *)

\* A step that neither fails nor ends anything.
LEMMA Unharmed ==
    ASSUME AliveInv, alive, alive', InPlace', UNCHANGED <<rkyolos, cut, failed, sent, encoder>>
    PROVE  AliveInv'
  BY RememberedSame, BufferSame, EndsSame DEF AliveInv

\* A call of the main thread before the loop.
LEMMA BeforeLoop ==
    ASSUME AliveInv, NEW ok \in BOOLEAN, NEW kind \in Kinds \ {"encoder"}, Budget(ok, kind),
           stage # "loop", InPlace', UNCHANGED <<rkyolos, cut, sent, encoder>>,
           kind \in {"config", "capture", "model", "server"} => alive' = ok,
           ~alive' => EndsStarting', alive' \in BOOLEAN
    PROVE  AliveInv'
  <1>1. alive /\ \A k : k \in failed' <=> k \in failed \/ (~ok /\ k = kind)
    BY FailedIs
  <1>2. sent' = sent /\ ~(sent > 0)
    BY DEF AliveInv, InPlace
  <1>3. Remembered'
    BY <1>1, RememberedSame DEF AliveInv
  <1>4. BufferKept'
    BY <1>1, BufferSame DEF AliveInv
  <1>5. EndsWhereItFailed'
    BY <1>2, EndsSame DEF AliveInv
  <1> QED
    BY <1>3, <1>4, <1>5 DEF AliveInv

LEMMA MainAlive ==
    ASSUME AliveInv, ConfigInv, Configure \/ NoConfigFile \/ Main,
           \A ok \in BOOLEAN : ~InitEncoder(ok)
    PROVE  AliveInv'
  <1> USE DEF Lives, Dies
  <1>1. CASE Configure
    <2>1. InPlace'
      BY <1>1 DEF Configure, AliveInv, InPlace, main, inOrder, encoder, table, settings
    <2> QED
      BY <1>1, <2>1, Unharmed DEF Configure, main, inOrder, fate, table
  <1>2. CASE NoConfigFile
    <2>1. InPlace'
      BY <1>2, PlaceSame DEF NoConfigFile, AliveInv, main, inOrder, settings, encoder, table
    <2>2. Budget(FALSE, "config") /\ "config" \in failed' /\ stage' = "config" /\ alive' = FALSE
      BY <1>2, FailedIs DEF NoConfigFile, main
    <2>3. UNCHANGED <<rkyolos, cut, sent, encoder>> /\ stage # "loop"
      BY <1>2 DEF NoConfigFile, main, inOrder, table
    <2>4. EndsStarting'
      BY <2>2 DEF EndsStarting
    <2> QED
      BY <2>1, <2>2, <2>3, <2>4, BeforeLoop DEF Kinds
  <1>3. CASE LeaveConstructors
    <2>1. InPlace'
      BY <1>3 DEF LeaveConstructors, AliveInv, InPlace, inOrder, encoder, table, settings
    <2> QED
      BY <1>3, <2>1, Unharmed DEF LeaveConstructors, inOrder, fate, table
  <1>4. CASE CreatePool
    <2>1. InPlace'
      BY <1>4 DEF CreatePool, AliveInv, InPlace, inOrder, encoder, table, settings
    <2>2. UNCHANGED <<rkyolos, cut, sent, encoder, failed, rknnThread>> /\ stage' = "load" /\ alive
      BY <1>4 DEF CreatePool, inOrder, table, settings
    <2>3. CASE alive'
      BY <2>1, <2>2, <2>3, Unharmed
    <2>4. CASE ~alive'
      <3>1. rknnThread < 0
        BY <1>4, <2>4 DEF CreatePool
      <3>2. EndsStarting'
        BY <2>2, <3>1 DEF EndsStarting
      <3> QED
        BY <2>1, <2>2, <2>4, <3>2, RememberedSame, BufferSame, EndsSame DEF AliveInv
    <2> QED
      BY <2>3, <2>4
  <1>5. CASE AddMediaSession
    <2>1. InPlace'
      BY <1>5 DEF AddMediaSession, AliveInv, InPlace, encoder, table, settings
    <2> QED
      BY <1>5, <2>1, Unharmed DEF AddMediaSession, fate, table
  <1>6. ASSUME NEW ok \in BOOLEAN, CreateCapture(ok) PROVE AliveInv'
    <2>1. InPlace'
      BY <1>6 DEF CreateCapture, AliveInv, InPlace, inOrder, encoder, table, settings
    <2>2. UNCHANGED <<rkyolos, cut, sent, encoder>> /\ stage' = "encoder" /\ stage = "capture"
      BY <1>6 DEF CreateCapture, inOrder, table
    <2>3. Budget(ok, "capture") /\ alive' = ok /\ (~ok => "capture" \in failed')
      BY <1>6, FailedIs DEF CreateCapture, Budget
    <2>4. step' = "new"
      BY <2>2 DEF AliveInv, InPlace, encoder
    <2>5. ~alive' => EndsStarting'
      BY <2>2, <2>3, <2>4 DEF EndsStarting
    <2> QED
      BY <2>1, <2>2, <2>3, <2>5, BeforeLoop DEF Kinds
  <1>7. ASSUME NEW ok \in BOOLEAN, LoadModel(ok) PROVE AliveInv'
    <2> DEFINE kind == IF loading = "open" THEN "model" ELSE "load"
    <2>1. InPlace'
      BY <1>7 DEF LoadModel, AliveInv, InPlace, inOrder, encoder, table, settings
    <2>2. /\ UNCHANGED <<cut, sent, encoder>> /\ stage' = "load" /\ stage = "load"
          /\ Budget(ok, kind)
          /\ IF ok \/ kind # "model" THEN alive' = alive ELSE alive' = FALSE
          /\ rkyolos' = IF ok THEN rkyolos ELSE Append(rkyolos, "unset")
      BY <1>7 DEF LoadModel, inOrder, table
    <2>3. /\ alive /\ kind \in {"model", "load"}
          /\ \A k : k \in failed' <=> k \in failed \/ (~ok /\ k = kind)
      BY <2>2, FailedIs
    <2> HIDE DEF kind
    <2>4. Remembered'
      <3>1. CASE ok
        BY <2>2, <2>3, <3>1, RememberedSame DEF AliveInv
      <3>2. CASE ~ok /\ kind = "model"
        BY <2>2, <2>3, <3>2 DEF AliveInv, Remembered
      <3>3. CASE ~ok /\ kind = "load"
        BY <2>2, <2>3, <3>3 DEF AliveInv, Remembered
      <3> QED
        BY <2>3, <3>1, <3>2, <3>3
    <2>5. BufferKept'
      BY <2>2, <2>3, BufferSame DEF AliveInv
    <2>6. alive' \/ EndsStarting'
      BY <2>2, <2>3 DEF EndsStarting
    <2>7. EndsWhereItFailed'
      BY <2>2, <2>6, EndsSame DEF AliveInv, InPlace
    <2> QED
      BY <2>1, <2>4, <2>5, <2>7 DEF AliveInv
  <1>8. ASSUME NEW ok \in BOOLEAN, QueryOutputs(ok) PROVE AliveInv'
    <2>1. InPlace'
      BY <1>8 DEF QueryOutputs, AliveInv, InPlace, inOrder, encoder, table, settings
    <2>2. /\ UNCHANGED <<cut, sent, encoder, alive>> /\ stage = "load"
          /\ Budget(ok, "outputs")
          /\ \E r \in {"whole", "partial"} : rkyolos' = Append(rkyolos, r)
      BY <1>8 DEF QueryOutputs, inOrder, table
    <2>3. alive /\ \A k : k \in failed' <=> k \in failed \/ (~ok /\ k = "outputs")
      BY <2>2, FailedIs
    <2>4. Remembered'
      BY <2>2, <2>3 DEF AliveInv, InPlace, Remembered
    <2>5. BufferKept'
      BY <2>2, <2>3, BufferSame DEF AliveInv
    <2>6. EndsWhereItFailed'
      BY <2>2, <2>3, EndsSame DEF AliveInv
    <2> QED
      BY <2>1, <2>4, <2>5, <2>6 DEF AliveInv
  <1>9. ASSUME NEW ok \in BOOLEAN, CreateServer(ok) PROVE AliveInv'
    <2>1. InPlace'
      BY <1>9 DEF CreateServer, AliveInv, InPlace, inOrder, encoder, table, settings
    <2>2. UNCHANGED <<rkyolos, cut, sent, encoder>> /\ stage' = "session" /\ stage = "load"
      BY <1>9 DEF CreateServer, inOrder, table
    <2>3. Budget(ok, "server") /\ alive' = ok /\ (~ok => "server" \in failed')
      BY <1>9, FailedIs DEF CreateServer, Budget
    <2>4. ~alive' => EndsStarting'
      BY <2>2, <2>3 DEF EndsStarting
    <2> QED
      BY <2>1, <2>2, <2>3, <2>4, BeforeLoop DEF Kinds
  <1> QED
    BY <1>1, <1>2, <1>3, <1>4, <1>5, <1>6, <1>7, <1>8, <1>9 DEF Main

-----------------------------------------------------------------------------
(* The encoder and the encoding thread.                                    *)

LEMMA InitEncoderAlive ==
    ASSUME AliveInv, EncoderInv, NEW ok \in BOOLEAN, InitEncoder(ok)
    PROVE  AliveInv'
  <1> DEFINE kind == IF step = "control" THEN "control" ELSE "encoder"
  <1>1. /\ UNCHANGED <<settings, main, inOrder, table>> /\ alive' = alive /\ stage = "encoder"
        /\ Budget(ok, kind)
        /\ E!InitStep(ok) \/ (E!CallInit /\ ok)
    BY DEF InitEncoder, Lives
  <1>2. alive /\ \A k : k \in failed' <=> k \in failed \/ (~ok /\ k = kind)
    BY <1>1, FailedIs
  <1>3. InPlace'
    BY <1>1, PlaceSame DEF AliveInv, inOrder, table, settings
  <1>4. Remembered'
    BY <1>1, <1>2, RememberedSame DEF AliveInv, main, table
  <1>5. sent = 0 /\ sent' = 0
    BY <1>1 DEF AliveInv, InPlace, EncoderInv, inOrder
  <1>6. BufferKept'
    <2> USE <1>2, <1>5 DEF AliveInv, BufferKept, Allocating, E!Next, E!Ends
    <2>0. step \in {"new"} \cup E!InitSteps => calls = 0
      BY DEF EncoderInv
    <2>1. CASE E!CallInit /\ ok
      BY <2>1 DEF E!CallInit, E!objects
    <2>2. CASE E!MppCreate(ok)
      BY <2>0, <2>2 DEF E!MppCreate, E!InitSteps
    <2>3. CASE E!MppInit(ok)
      BY <2>0, <2>3 DEF E!MppInit, E!InitSteps
    <2>4. CASE E!MppEncCfgInit(ok)
      BY <2>0, <2>4 DEF E!MppEncCfgInit, E!InitSteps
    <2>5. CASE E!MppBufferGet(ok)
      BY <2>5 DEF E!MppBufferGet
    <2>6. CASE E!SetCfg(ok)
      BY <2>0, <2>6 DEF E!SetCfg, E!InitSteps
    <2> QED
      BY <1>1, <2>1, <2>2, <2>3, <2>4, <2>5, <2>6 DEF E!InitStep
  <1>7. EndsWhereItFailed'
    BY <1>1, <1>2, <1>5, EndsSame DEF AliveInv
  <1> QED
    BY <1>3, <1>4, <1>6, <1>7 DEF AliveInv

LEMMA EncodeAlive ==
    ASSUME AliveInv, EncoderInv, NEW ok \in BOOLEAN, Encode(ok)
    PROVE  AliveInv'
  <1>1. /\ UNCHANGED <<settings, main, inOrder, size, table>> /\ thread = "encode"
        /\ Budget(ok, "encode")
        /\ E!EncodeStep(ok) \/ (E!CallEncode /\ ok /\ calls = sent)
    BY DEF Encode
  <1>2. alive /\ \A k : k \in failed' <=> k \in failed \/ (~ok /\ k = "encode")
    BY <1>1, FailedIs
  <1>3. stage = "loop" /\ stage' = "loop" /\ frames' > 0 /\ sent' = sent
    BY <1>1 DEF AliveInv, InPlace, main, inOrder
  <1>4. InPlace'
    BY <1>1, <1>3, PlaceSame DEF AliveInv, inOrder, table, settings
  <1>5. Remembered'
    BY <1>1, <1>2, RememberedSame DEF AliveInv, main, table
  <1>6. BufferKept'
    <2> USE <1>2, <1>3 DEF AliveInv, BufferKept, Allocating, E!Next, E!Ends
    <2>0. calls \in Nat /\ sent \in Nat
      BY DEF EncoderInv
    <2>1. CASE E!CallEncode /\ ok /\ calls = sent
      BY <2>1 DEF E!CallEncode, E!objects
    <2>2. CASE E!FrameInit(ok)
      BY <2>2 DEF E!FrameInit
    <2>3. CASE E!PutFrame(ok)
      BY <2>3 DEF E!PutFrame, E!objects
    <2>4. CASE E!GetPacket(ok)
      BY <2>4 DEF E!GetPacket
    <2>5. CASE E!GetHeader(ok)
      BY <2>5 DEF E!GetHeader
    <2> QED
      BY <1>1, <2>1, <2>2, <2>3, <2>4, <2>5 DEF E!EncodeStep
  <1>7. step' = "crashed" => "encoder" \in failed
    BY <1>1 DEF AliveInv, BufferKept, Allocating, E!Next, E!Ends, E!EncodeStep, E!CallEncode,
                E!FrameInit, E!PutFrame, E!GetPacket, E!GetHeader
  <1>8. alive' \/ EndsLooping'
    <2>1. \/ alive' = alive
          \/ step' = "crashed"
          \/ size # "asked"
      BY DEF Encode, Lives, Overruns
    <2> QED
      BY <1>1, <1>2, <1>3, <1>7, <2>1 DEF EndsLooping
  <1>9. EndsWhereItFailed'
    BY <1>2, <1>3, <1>8, EndsSame DEF AliveInv
  <1> QED
    BY <1>4, <1>5, <1>6, <1>9 DEF AliveInv

LEMMA ReadAlive ==
    ASSUME AliveInv, ConfigInv, ReadFrame
    PROVE  AliveInv'
  <1>1. /\ alive /\ thread = "run" /\ frames' = frames + 1 /\ thread' \in {"encode", "run"}
        /\ IF rkyolos = <<>> THEN alive' = FALSE ELSE alive' = alive
        /\ UNCHANGED <<settings, main, taken, sent, failed, encoder, table>>
    BY DEF ReadFrame, Lives, Dies
  <1>2. stage = "loop" /\ Len(rkyolos) = rknnThread
    BY <1>1 DEF AliveInv, InPlace
  <1>3. frames \in Nat /\ frames' \in Nat /\ frames' > 0
    BY <1>1 DEF AliveInv, InPlace
  <1>4. InPlace'
    BY <1>1, <1>2, <1>3 DEF AliveInv, InPlace, main, encoder, table, settings
  <1>5. alive' \/ EndsLooping'
    <2>1. rkyolos = <<>> => rknnThread = 0
      BY <1>2
    <2>2. rknnThread' = rknnThread /\ stage' = "loop"
      BY <1>1, <1>2 DEF main, settings
    <2> QED
      BY <1>1, <1>3, <2>1, <2>2 DEF EndsLooping
  <1>6. UNCHANGED <<rkyolos, cut, encoder, sent>>
    BY <1>1 DEF main, table
  <1> QED
    BY <1>1, <1>4, <1>5, <1>6, RememberedSame, BufferSame, EndsSame DEF AliveInv

LEMMA SendAlive ==
    ASSUME AliveInv, EncoderInv, Send
    PROVE  AliveInv'
  <1>1. /\ alive /\ thread = "encode" /\ thread' = "run" /\ step = "idle" /\ calls > sent
        /\ IF ret = "failed" THEN alive' = FALSE ELSE alive' = alive
        /\ sent' = IF ret = "failed" THEN sent ELSE sent + 1
        /\ UNCHANGED <<settings, main, frames, taken, failed, encoder, table>>
    BY DEF Send, Lives, Dies
  <1>2. stage = "loop" /\ frames > 0
    BY <1>1 DEF AliveInv, InPlace
  <1>3. calls \in Nat /\ sent \in Nat
    BY DEF EncoderInv
  <1>4. InPlace'
    BY <1>1, <1>2 DEF AliveInv, InPlace, main, encoder, table, settings
  <1>5. Remembered'
    BY <1>1, RememberedSame DEF AliveInv, main, table
  <1>6. "encoder" \in failed => ret = "failed"
    BY <1>1 DEF AliveInv, BufferKept
  <1>7. BufferKept'
    <2>1. sent' \in Nat /\ sent' >= sent
      BY <1>1, <1>3
    <2>2. calls > sent' => calls > sent
      BY <1>3, <2>1
    <2> QED
      BY <1>1, <1>6, <2>2 DEF AliveInv, BufferKept, encoder
  <1>8. CASE ret = "failed"
    <2>1. "encode" \in failed
      BY <1>1, <1>8 DEF AliveInv, BufferKept
    <2>2. EndsLooping'
      BY <1>1, <1>2, <2>1 DEF EndsLooping, main
    <2>3. EndsWhereItFailed'
      BY <1>1, <1>8, <2>2, EndsSame DEF AliveInv
    <2> QED
      BY <1>4, <1>5, <1>7, <2>3 DEF AliveInv
  <1>9. CASE ret # "failed"
    <2>1. failed \cap {"config", "capture", "encoder", "model", "server"} = {}
      BY <1>1, <1>6, <1>9 DEF AliveInv, Remembered
    <2>2. EndsWhereItFailed'
      BY <1>1, <1>9, <2>1 DEF EndsWhereItFailed
    <2> QED
      BY <1>4, <1>5, <1>7, <2>2 DEF AliveInv
  <1> QED
    BY <1>8, <1>9

-----------------------------------------------------------------------------
(* The workers.                                                            *)

\* The RkYolo of a task is one of the list.
LEMMA OneOfTheList ==
    ASSUME NEW n \in Nat, n > 0, NEW k \in Nat
    PROVE  (k % n) + 1 \in 1..n
  OBVIOUS

\* A worker is past the test of the flag only with a frame.
LEMMA AtWork ==
    ASSUME AliveInv, NEW w \in Workers, at[w] # "out" \/ taken < frames
    PROVE  frames > 0 /\ stage = "loop"
  BY DEF AliveInv, InPlace

LEMMA InferAlive ==
    ASSUME AliveInv, ConfigInv, LabelInv, NEW w \in Workers, NEW ok \in BOOLEAN, Infer(w, ok)
    PROVE  AliveInv'
  <1>1. /\ taken < frames /\ Budget(ok, "inference") /\ L!TestFlag(w)
        /\ \/ alive' = alive
           \/ /\ alive' = FALSE
              /\ ok => rkyolos[(taken % rknnThread) + 1] = "unset" \/ size = "smaller"
        /\ taken' = taken + 1
        /\ UNCHANGED <<settings, main, thread, frames, sent, size, encoder, cut, lines>>
    BY DEF Infer, Lives, Dies, L!TestFlag
  <1>2. alive /\ \A k : k \in failed' <=> k \in failed \/ (~ok /\ k = "inference")
    BY <1>1, FailedIs
  <1>3. /\ stage = "loop" /\ frames > 0 /\ frames \in Nat /\ taken \in Nat
        /\ Len(rkyolos) = rknnThread /\ rknnThread \in Nat
    BY <1>1 DEF AliveInv, InPlace
  <1>4. InPlace'
    BY <1>1, <1>3 DEF AliveInv, InPlace, main, encoder, settings
  <1>5. Remembered'
    BY <1>1, <1>2, RememberedSame DEF AliveInv, main
  <1>6. BufferKept'
    BY <1>1, <1>2, BufferSame DEF AliveInv
  <1>7. ASSUME ~alive' PROVE EndsLooping'
    <2>1. stage' = "loop" /\ frames' > 0 /\ rknnThread' = rknnThread /\ size' = size
      BY <1>1, <1>3 DEF main, settings
    <2>2. CASE ~ok
      BY <1>2, <2>1, <2>2 DEF EndsLooping
    <2>3. CASE size = "smaller" \/ rknnThread = 0
      BY <2>1, <2>3 DEF EndsLooping
    <2>4. CASE ok /\ size # "smaller" /\ rknnThread # 0
      <3>1. (taken % rknnThread) + 1 \in 1..Len(rkyolos)
        BY <1>3, <2>4, OneOfTheList
      <3>2. rkyolos[(taken % rknnThread) + 1] = "unset"
        BY <1>1, <1>2, <1>7, <2>4
      <3>3. "load" \in failed'
        BY <1>2, <3>1, <3>2 DEF AliveInv, Remembered
      <3> QED
        BY <2>1, <3>3 DEF EndsLooping
    <2> QED
      BY <2>2, <2>3, <2>4
  <1>8. EndsWhereItFailed'
    BY <1>1, <1>2, <1>7, EndsSame DEF AliveInv
  <1> QED
    BY <1>4, <1>5, <1>6, <1>8 DEF AliveInv

LEMMA LoadAlive ==
    ASSUME AliveInv, LabelInv, NEW w \in Workers, LoadLabels(w)
    PROVE  AliveInv'
  <1>1. UNCHANGED <<cut, main, inOrder, size, fate, encoder, rknnThread>> /\ alive /\ at[w] # "out"
    BY DEF LoadLabels, L!OpenFile, L!StoreLine, L!SetFlag, L!Return, settings
  <1>2. \A v \in Workers : at'[v] # "out" => frames > 0
    BY <1>1, AtWork
  <1>3. InPlace'
    BY <1>1, <1>2 DEF AliveInv, InPlace, main, inOrder, encoder
  <1> QED
    BY <1>1, <1>3, Unharmed DEF main, inOrder, fate

LEMMA StopAlive ==
    ASSUME AliveInv, LabelInv, NEW w \in Workers, StopReading(w)
    PROVE  AliveInv'
  <1>1. /\ Budget(i[w] = lines, "labels") /\ alive' = alive /\ L!NoMoreLines(w)
        /\ UNCHANGED <<settings, main, inOrder, size, encoder>>
    BY DEF StopReading, Lives
  <1>2. alive /\ \A k : k \in failed' <=> k \in failed \/ (i[w] # lines /\ k = "labels")
    BY <1>1, FailedIs
  <1>3. i[w] \in Int /\ lines \in Int /\ at[w] # "out"
    BY <1>1 DEF L!NoMoreLines, LabelInv, L!LabelsTypeOK, L!Unknown
  <1>4. \A v \in Workers : at'[v] # "out" => frames > 0
    BY <1>3, AtWork
  <1>5. InPlace'
    BY <1>1, <1>4 DEF AliveInv, InPlace, main, inOrder, encoder, settings
  <1>6. cut' => cut \/ i[w] < lines
    BY <1>1 DEF L!NoMoreLines
  <1>7. Remembered'
    <2>1. cut' => "labels" \in failed'
      BY <1>2, <1>3, <1>6 DEF AliveInv, Remembered
    <2> QED
      BY <1>1, <1>2, <2>1 DEF AliveInv, Remembered, main
  <1>8. BufferKept'
    BY <1>1, <1>2, BufferSame DEF AliveInv, inOrder
  <1>9. EndsWhereItFailed'
    BY <1>1, <1>2, EndsSame DEF AliveInv, inOrder
  <1> QED
    BY <1>5, <1>7, <1>8, <1>9 DEF AliveInv

LEMMA CopyAlive ==
    ASSUME AliveInv, LabelInv, NEW w \in Workers, NEW c \in L!Class, CopyName(w, c)
    PROVE  AliveInv'
  <1>1. /\ UNCHANGED <<lines, cut, failed, main, inOrder, encoder, rknnThread>>
        /\ at[w] = "loaded" /\ alive
        /\ IF labels[c] = L!NoName THEN alive' = FALSE ELSE alive' = alive
    BY DEF CopyName, L!LookUp, settings, Lives, Dies
  <1>2. lines # L!Unknown /\ lines \in (-1)..ClassNum
    BY <1>1 DEF LabelInv, L!LabelsTypeOK
  <1>3. labels[c] = L!NoName => cut \/ lines <= c
    BY <1>1, StartupAssumption DEF StartupAssumption, LabelInv, Named, L!Class, L!NoName
  <1>4. lines <= c => LabelFileShort'
    BY <1>1, <1>2, StartupAssumption DEF StartupAssumption, LabelFileShort, L!Class
  <1>5. frames > 0 /\ stage = "loop" /\ \A v \in Workers : at'[v] # "out" => frames > 0
    BY <1>1, AtWork
  <1>6. InPlace'
    BY <1>1, <1>5 DEF AliveInv, InPlace, main, inOrder, encoder
  <1>7. cut => "labels" \in failed'
    BY <1>1 DEF AliveInv, Remembered
  <1>8. alive' \/ EndsLooping'
    BY <1>1, <1>3, <1>4, <1>5, <1>7 DEF EndsLooping, main, inOrder
  <1>9. UNCHANGED <<rkyolos, sent>>
    BY <1>1 DEF main, inOrder
  <1> QED
    BY <1>1, <1>6, <1>8, <1>9, RememberedSame, BufferSame, EndsSame DEF AliveInv

LEMMA AliveNext ==
    AliveInv /\ EncoderInv /\ LabelInv /\ ConfigInv /\ [StartupNext]_startupVars => AliveInv'
  <1> SUFFICES ASSUME AliveInv, EncoderInv, LabelInv, ConfigInv, [StartupNext]_startupVars
               PROVE  AliveInv'
    OBVIOUS
  <1>1. CASE Configure \/ NoConfigFile \/ Main
    BY <1>1, MainAlive, InitEncoderAlive
  <1>2. CASE Thread
    BY <1>2, EncodeAlive, ReadAlive, SendAlive DEF Thread
  <1>3. ASSUME NEW w \in Workers, Worker(w) PROVE AliveInv'
    BY <1>3, InferAlive, LoadAlive, StopAlive, CopyAlive DEF Worker
  <1>4. CASE UNCHANGED startupVars
    BY <1>4 DEF startupVars, main, inOrder, fate, encoder, table, settings, AliveInv, InPlace,
                Remembered, BufferKept, EndsWhereItFailed, EndsStarting, EndsLooping,
                LabelFileShort
  <1> QED
    BY <1>1, <1>2, <1>3, <1>4 DEF StartupNext

\* Wherever the process ends, one of the things happened that are said to end it
\* there: a number of RkYolos below one, a size the camera did not grant, a short
\* label file, or a failed call of a kind that matters there.  A failure that
\* leaves no capture, model, server or input buffer lets no packet out.
THEOREM EndsHaveCauses == StartupSpec => []EndsWhereItFailed
  <1>1. StartupSpec => []AliveInv
    BY ConfigInvariance, EncoderInvariance, LabelInvariance, AliveStart, AliveNext, PTL
       DEF StartupSpec
  <1>2. AliveInv => EndsWhereItFailed
    BY DEF AliveInv
  <1> QED
    BY <1>1, <1>2, PTL

=============================================================================
