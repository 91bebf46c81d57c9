------------------------------ MODULE Startup -------------------------------
(***************************************************************************)
(* From main to the first packets: the configuration (Settings), the       *)
(* TransCoder with its capture, its encoder (Encoder), its pool and its    *)
(* RkYolos, the server, and the encoding thread's first frames with the    *)
(* inferences they start (Labels).                                         *)
(*                                                                         *)
(* Most results of the calls made on the way are not looked at.  Calls of  *)
(* at most MaxFailures kinds fail in a behaviour; alive becomes FALSE when *)
(* the process ends: by exit, an exception nobody catches, the use of a    *)
(* null pointer or of memory that was never set, or a copy beyond a buffer *)
(* (which may end it, or not).                                             *)
(***************************************************************************)
EXTENDS Settings, FiniteSets

CONSTANTS Workers,       \* bound: the workers of the pool that get to run
          ClassNum,      \* OBJ_CLASS_NUM
          MaxFrame,      \* bound: frames the camera delivers
          MaxFailures    \* bound: kinds of calls that fail

ASSUME StartupAssumption ==
    /\ Workers \subseteq Nat \ {0}
    /\ ClassNum \in Nat \ {0}
    /\ MaxFrame \in Nat
    /\ MaxFailures \in Nat

VARIABLES
    stage,      \* the main thread: see Stages
    loading,    \* RkYolo::Init: the call that comes next
    rkyolos,    \* m_rkyolo_list: what Init made of each
    thread,     \* the encoding thread: "none", "run", "encode"
    frames,     \* frames read and dispatched
    taken,      \* tasks of the pool that a worker has begun
    sent,       \* packets given to the callback
    size,       \* getBufferSize() and a picture of the configured size
    failed,     \* the kinds of calls that failed: see Kinds
    alive,
    step, ret, context, buffer, cfgs, frameObjects, packets, headers, calls,
    lines, labels, init, at, i, found, cut

E == INSTANCE Encoder WITH frames <- frameObjects
L == INSTANCE Labels

main     == <<stage, loading, rkyolos>>
inOrder  == <<thread, frames, taken, sent>>
fate     == <<failed, alive>>
encoder  == <<step, ret, context, buffer, cfgs, frameObjects, packets, headers, calls>>
table    == <<lines, labels, init, at, i, found, cut>>
startupVars == <<vars, settings, main, inOrder, size, fate, encoder, table>>

Stages == {"config", "capture", "encoder", "load", "session", "loop"}

\* "encoder": RkEncoder::init up to the input buffer; "control": its settings;
\* "model": opening the model; "load": the rest of RkYolo::Init but the
\* "outputs"; "labels": a line of the label file.
Kinds == {"config", "capture", "encoder", "control", "model", "load", "outputs", "server",
          "encode", "inference", "labels"}

StartupTypeOK ==
    /\ SettingsTypeOK
    /\ stage \in Stages
    /\ rkyolos \in Seq({"whole", "partial", "unset"})
    /\ thread \in {"none", "run", "encode"}
    /\ {frames, taken, sent} \subseteq 0..MaxFrame
    /\ size \in {"unknown", "asked", "smaller", "larger"}
    /\ failed \subseteq Kinds /\ Cardinality(failed) <= MaxFailures
    /\ alive \in BOOLEAN
    /\ E!EncoderTypeOK
    /\ L!LabelsTypeOK

StartupInit ==
    /\ SettingsInit
    /\ stage = "config"
    /\ loading = "open"
    /\ rkyolos = <<>>
    /\ thread = "none"
    /\ frames = 0 /\ taken = 0 /\ sent = 0
    /\ size = "unknown"
    /\ failed = {}
    /\ alive = TRUE
    /\ E!EncoderInit
    /\ L!LabelsInit

-----------------------------------------------------------------------------
\* A call that succeeds, or one of the few that fail.
Budget(ok, kind) ==
    /\ alive
    /\ failed' = IF ok THEN failed ELSE failed \cup {kind}
    /\ Cardinality(failed') <= MaxFailures

Dies == alive' = FALSE
Lives == UNCHANGED alive

-----------------------------------------------------------------------------
(* The main thread.                                                        *)

Configure ==
    /\ alive
    /\ stage = "config"
    /\ SettingsNext
    /\ UNCHANGED <<main, inOrder, size, fate, encoder, table>>

\* main parses the file first and leaves with exit(1) if there is none.
NoConfigFile ==
    /\ stage = "config"
    /\ file = <<>> /\ ~ended
    /\ Budget(FALSE, "config")
    /\ Dies
    /\ UNCHANGED <<vars, settings, main, inOrder, size, encoder, table>>

\* The INIReaders go out of scope with what they have read.
LeaveConstructors ==
    /\ alive
    /\ stage = "config"
    /\ constructed
    /\ stage' = "capture"
    /\ file' = <<>> /\ section' = NoSection /\ prevName' = NoName /\ error' = 0
    /\ values' = [k \in Keys |-> <<>>]
    /\ ended' = FALSE
    /\ UNCHANGED <<settings, loading, rkyolos, inOrder, size, fate, encoder, table>>

\* The buffer is allocated with capture->getBufferSize(), whatever create
\* returned.  A camera that grants another width or height than the configured
\* ones is no failure, and everything but the buffers goes on with those.
CreateCapture(ok) ==
    /\ stage = "capture"
    /\ Budget(ok, "capture")
    /\ IF ok THEN Lives ELSE Dies
    /\ IF ok THEN size' \in {"asked", "smaller", "larger"} ELSE UNCHANGED size
    /\ stage' = "encoder"
    /\ UNCHANGED <<vars, settings, loading, rkyolos, inOrder, encoder, table>>

InitEncoder(ok) ==
    /\ stage = "encoder"
    /\ Budget(ok, IF step = "control" THEN "control" ELSE "encoder") /\ Lives
    /\ E!InitStep(ok) \/ (E!CallInit /\ ok)
    /\ UNCHANGED <<vars, settings, main, inOrder, size, table>>

\* The result of init is dropped.  ThreadPool takes a size_t: a negative
\* number asks for more threads than there can be.
CreatePool ==
    /\ alive
    /\ stage = "encoder"
    /\ step = "idle"
    /\ IF rknnThread < 0 THEN Dies ELSE Lives
    /\ stage' = "load"
    /\ UNCHANGED <<vars, settings, loading, rkyolos, inOrder, size, failed, encoder, table>>

\* The calls of RkYolo::Init whose failure makes it return -1, which nobody
\* looks at.  What it should have set by then stays unset.
NextCall == [open |-> "malloc", malloc |-> "seek", seek |-> "init", init |-> "mask",
             mask |-> "version", version |-> "number", number |-> "inputs", inputs |-> "outputs"]

\* fopen's result is used without a test, and fread's is never negative.
LoadModel(ok) ==
    /\ stage = "load"
    /\ Len(rkyolos) < rknnThread
    /\ loading # "outputs"
    /\ Budget(ok, IF loading = "open" THEN "model" ELSE "load")
    /\ IF ok \/ loading # "open" THEN Lives ELSE Dies
    /\ loading' = IF ok THEN NextCall[loading] ELSE "open"
    /\ rkyolos' = IF ok THEN rkyolos ELSE Append(rkyolos, "unset")
    /\ UNCHANGED <<vars, settings, stage, inOrder, size, encoder, table>>

\* A failed query of an output's attributes does not end Init.
QueryOutputs(ok) ==
    /\ stage = "load"
    /\ loading = "outputs"
    /\ Budget(ok, "outputs") /\ Lives
    /\ loading' = "open"
    /\ rkyolos' = Append(rkyolos, IF ok THEN "whole" ELSE "partial")
    /\ UNCHANGED <<vars, settings, stage, inOrder, size, encoder, table>>

\* RTSPServer::createNew; without a server run() calls exit(1).  The result of
\* setUpTunnelingOverHTTP is only logged.
CreateServer(ok) ==
    /\ stage = "load"
    /\ Len(rkyolos) = rknnThread
    /\ Budget(ok, "server")
    /\ IF ok THEN Lives ELSE Dies
    /\ stage' = "session"
    /\ UNCHANGED <<vars, settings, loading, rkyolos, inOrder, size, encoder, table>>

\* addMediaSession creates the source, which starts the encoding thread.
AddMediaSession ==
    /\ alive
    /\ stage = "session"
    /\ stage' = "loop"
    /\ thread' = "run"
    /\ UNCHANGED <<vars, settings, loading, rkyolos, frames, taken, sent, size, fate, encoder,
                   table>>

-----------------------------------------------------------------------------
(* The encoding thread: TransCoder::run as far as the objects matter.      *)

WaitForOneMore == frames' > rknnThread       \* mutant of Enough

\* m_in_buffer_list.size() >= config.rknn_thread.
Enough == frames' >= rknnThread

\* The frame's RkYolo is found with at().
ReadFrame ==
    /\ alive
    /\ thread = "run"
    /\ frames < MaxFrame
    /\ frames' = frames + 1
    /\ IF rkyolos = <<>> THEN Dies ELSE Lives
    /\ thread' = IF Enough THEN "encode" ELSE "run"
    /\ UNCHANGED <<vars, settings, main, taken, sent, size, failed, encoder, table>>

\* memcpy of what read() returned to the input buffer, and of the header and
\* the packet to encodeData, which has getBufferSize() bytes.
Overruns ==
    \/ step = "frame" /\ size = "larger"
    \/ step = "header" /\ size = "smaller"

\* Without an input buffer the picture is copied to a null pointer.
Encode(ok) ==
    /\ thread = "encode"
    /\ Budget(ok, "encode")
    /\ E!EncodeStep(ok) \/ (E!CallEncode /\ ok /\ calls = sent)
    /\ IF step' = "crashed" THEN Dies ELSE Lives \/ (Dies /\ ok /\ Overruns)
    /\ UNCHANGED <<vars, settings, main, inOrder, size, table>>

\* -1 is taken for a size, and no vector has as many elements as that: the
\* callback is not reached.
Send ==
    /\ alive
    /\ thread = "encode"
    /\ step = "idle" /\ calls > sent
    /\ IF ret = "failed" THEN Dies ELSE Lives
    /\ sent' = IF ret = "failed" THEN sent ELSE sent + 1
    /\ thread' = "run"
    /\ UNCHANGED <<vars, settings, main, frames, taken, size, failed, encoder, table>>

-----------------------------------------------------------------------------
(* The workers: RkYolo::Inference as far as the objects matter.            *)

\* A worker takes the oldest task.  Its RkYolo may lack the sizes of the model
\* and the number of its outputs; imcheck, rknn_run and rknn_outputs_get may
\* fail, and only the first of them ends the process by itself: post_process is
\* called with whatever the outputs hold, which may or may not be an address.
\* The picture is read from, and copied to, buffers of getBufferSize() bytes, as
\* many bytes as the configured width and height make.
Infer(w, ok) ==
    /\ w <= rknnThread
    /\ taken < frames
    /\ Budget(ok, "inference")
    /\ L!TestFlag(w)
    /\ \/ Lives
       \/ /\ Dies
          /\ ok => rkyolos[(taken % rknnThread) + 1] = "unset" \/ size = "smaller"
    /\ taken' = taken + 1
    /\ UNCHANGED <<vars, settings, main, thread, frames, sent, size, encoder>>

LoadLabels(w) ==
    /\ alive
    /\ L!OpenFile(w) \/ L!StoreLine(w) \/ L!SetFlag(w) \/ L!Return(w)
    /\ UNCHANGED <<vars, settings, main, inOrder, size, fate, encoder>>

StopReading(w) ==
    /\ Budget(i[w] = lines, "labels") /\ Lives
    /\ L!NoMoreLines(w)
    /\ UNCHANGED <<vars, settings, main, inOrder, size, encoder>>

\* strncpy from the name in the table.
CopyName(w, c) ==
    /\ alive
    /\ L!LookUp(w, c)
    /\ IF labels[c] = L!NoName THEN Dies ELSE Lives
    /\ UNCHANGED <<vars, settings, main, inOrder, size, failed, encoder>>

Main ==
    \/ LeaveConstructors
    \/ CreatePool
    \/ AddMediaSession
    \/ \E ok \in BOOLEAN :
         \/ CreateCapture(ok)
         \/ InitEncoder(ok)
         \/ LoadModel(ok)
         \/ QueryOutputs(ok)
         \/ CreateServer(ok)

Thread == ReadFrame \/ Send \/ \E ok \in BOOLEAN : Encode(ok)

Worker(w) ==
    \/ \E ok \in BOOLEAN : Infer(w, ok)
    \/ LoadLabels(w)
    \/ StopReading(w)
    \/ \E c \in L!Class : CopyName(w, c)

StartupNext == Configure \/ NoConfigFile \/ Main \/ Thread \/ \E w \in Workers : Worker(w)

StartupSpec == StartupInit /\ [][StartupNext]_startupVars

\* main goes on, the camera delivers and the encoding thread is scheduled.
StartupFairSpec ==
    /\ StartupSpec
    /\ WF_startupVars(Main)
    /\ WF_startupVars(Thread)

-----------------------------------------------------------------------------
LabelFileShort == lines \in (-1)..(ClassNum - 1)

\* What may end the process before there is anything to encode: an end in each
\* stage has the cause that stage has.
EndsStarting ==
    \/ stage = "config" /\ "config" \in failed
    \/ stage = "encoder" /\ step = "new" /\ "capture" \in failed
    \/ stage = "load" /\ (rknnThread < 0 \/ "model" \in failed)
    \/ stage = "session" /\ "server" \in failed

\* What may end it later.
EndsLooping ==
    /\ stage = "loop" /\ frames > 0
    /\ \/ rknnThread = 0
       \/ size # "asked"
       \/ LabelFileShort
       \/ failed \cap {"encoder", "encode", "load", "inference", "labels"} # {}

\* TransCoder::init and run look at no result on the way.  Where the process
\* ends it has one of the causes for ending there, and a failure that leaves no
\* capture, no model, no server or no input buffer ends it before a packet is
\* sent.
EndsWhereItFailed ==
    /\ ~alive => EndsStarting \/ EndsLooping
    /\ sent > 0 => failed \cap {"config", "capture", "encoder", "model", "server"} = {}

\* With as many frames as there are RkYolos a packet is sent, unless the process
\* ends: failures that are not looked at let nothing wait for ever.
FirstPacket ==
    (stage = "capture" /\ rknnThread \in 1..MaxFrame) ~> (sent > 0 \/ ~alive)

\* The names of the labels and the objects of the encoder on the way.
NamedAsInFile  == L!NamedAsInFile
OnlyFramesPile == E!OnlyFramesPile

=============================================================================
