------------------------------ MODULE Encoder -------------------------------
(***************************************************************************)
(* RkEncoder (src/RkEncoder.cc): init, encode and the objects of the media *)
(* library (MPP, external) that they create and release.  Every call of    *)
(* the library whose result the code looks at may fail, and so may the     *)
(* allocation of the input buffer, whose result it does not look at.       *)
(*                                                                         *)
(* step names the call of the library that comes next.                     *)
(***************************************************************************)
EXTENDS Integers

VARIABLES
    step,       \* see Init and Encode steps; "idle" between calls
    ret,        \* how the last call of init or encode ended
    context,    \* m_contex: "unset", "created", "initialised", "configured"
    buffer,     \* m_buffer is there
    cfgs,       \* MppEncCfg objects alive
    frames,     \* MppFrame objects alive
    packets,    \* MppPackets of the encoder alive
    headers,    \* pairs of a header packet and its buffer alive
    calls       \* history: calls of encode so far

objects     == <<context, buffer, cfgs, frames, packets, headers>>
encoderVars == <<step, ret, objects, calls>>

InitSteps   == {"create", "init", "cfg", "buffer", "control"}
EncodeSteps == {"frame", "put", "get", "header"}

EncoderTypeOK ==
    /\ step \in InitSteps \cup EncodeSteps \cup {"new", "idle", "crashed"}
    /\ ret \in {"none", "ok", "failed"}
    /\ context \in {"unset", "created", "initialised", "configured"}
    /\ buffer \in BOOLEAN
    /\ {cfgs, frames, packets, headers, calls} \subseteq Nat

\* The constructor computes the sizes; m_contex and m_mpi stay unset.
EncoderInit ==
    /\ step = "new"
    /\ ret = "none"
    /\ context = "unset"
    /\ buffer = FALSE
    /\ cfgs = 0 /\ frames = 0 /\ packets = 0 /\ headers = 0 /\ calls = 0

-----------------------------------------------------------------------------
Ends(r) == step' = "idle" /\ ret' = r

\* A call whose failure ends init or encode with -1.
Next(s, ok) == IF ok THEN step' = s /\ UNCHANGED ret ELSE Ends("failed")

CallInit ==
    /\ step = "new"
    /\ step' = "create"
    /\ UNCHANGED <<ret, objects, calls>>

MppCreate(ok) ==
    /\ step = "create"
    /\ context' = IF ok THEN "created" ELSE context
    /\ Next("init", ok)
    /\ UNCHANGED <<buffer, cfgs, frames, packets, headers, calls>>

MppInit(ok) ==
    /\ step = "init"
    /\ context' = IF ok THEN "initialised" ELSE context
    /\ Next("cfg", ok)
    /\ UNCHANGED <<buffer, cfgs, frames, packets, headers, calls>>

MppEncCfgInit(ok) ==
    /\ step = "cfg"
    /\ cfgs' = IF ok THEN cfgs + 1 ELSE cfgs
    /\ Next("buffer", ok)
    /\ UNCHANGED <<context, buffer, frames, packets, headers, calls>>

\* The result of mpp_buffer_get is dropped.
MppBufferGet(ok) ==
    /\ step = "buffer"
    /\ buffer' = ok
    /\ step' = "control"
    /\ UNCHANGED <<ret, context, cfgs, frames, packets, headers, calls>>

\* MPP_ENC_SET_CFG.  When it succeeds the configuration is given to
\* mpp_dec_cfg_deinit, which is for those of a decoder and may or may not
\* release it; when it fails, to mpp_enc_cfg_deinit.
SetCfg(ok) ==
    /\ step = "control"
    /\ context' = IF ok THEN "configured" ELSE context
    /\ cfgs' \in IF ok THEN {cfgs - 1, cfgs} ELSE {cfgs - 1}
    /\ Ends(IF ok THEN "ok" ELSE "failed")
    /\ UNCHANGED <<buffer, frames, packets, headers, calls>>

-----------------------------------------------------------------------------
CallEncode ==
    /\ step = "idle"
    /\ step' = "frame"
    /\ calls' = calls + 1
    /\ UNCHANGED <<ret, objects>>

\* Then the picture is copied to the input buffer, if there is one.
FrameInit(ok) ==
    /\ step = "frame"
    /\ frames' = IF ok THEN frames + 1 ELSE frames
    /\ IF ok /\ ~buffer THEN step' = "crashed" /\ UNCHANGED ret ELSE Next("put", ok)
    /\ UNCHANGED <<context, buffer, cfgs, packets, headers, calls>>

PutFrame(ok) ==
    /\ step = "put"
    /\ Next("get", ok)
    /\ UNCHANGED <<objects, calls>>

\* A packet, and the packet with its buffer that the header is asked for in.
GetPacket(ok) ==
    /\ step = "get"
    /\ packets' = IF ok THEN packets + 1 ELSE packets
    /\ headers' = IF ok THEN headers + 1 ELSE headers
    /\ Next("header", ok)
    /\ UNCHANGED <<context, buffer, cfgs, frames, calls>>

HeaderKept(ok) ==      \* mutant of GetHeader: the buffer is put on failure only
    /\ step = "header"
    /\ headers' = IF ok THEN headers ELSE headers - 1
    /\ packets' = IF ok THEN packets - 1 ELSE packets
    /\ Ends(IF ok THEN "ok" ELSE "failed")
    /\ UNCHANGED <<context, buffer, cfgs, frames, calls>>

HeaderPutsInput(ok) ==     \* mutant of GetHeader: m_buffer is put, not buffer
    /\ step = "header"
    /\ headers' = headers - 1
    /\ packets' = IF ok THEN packets - 1 ELSE packets
    /\ buffer' = FALSE
    /\ Ends(IF ok THEN "ok" ELSE "failed")
    /\ UNCHANGED <<context, cfgs, frames, calls>>

\* MPP_ENC_GET_HDR_SYNC.  The header goes in front of the packet; a failure
\* leaves the packet alive.
GetHeader(ok) ==
    /\ step = "header"
    /\ headers' = headers - 1
    /\ packets' = IF ok THEN packets - 1 ELSE packets
    /\ Ends(IF ok THEN "ok" ELSE "failed")
    /\ UNCHANGED <<context, buffer, cfgs, frames, calls>>

InitStep(ok) ==
    MppCreate(ok) \/ MppInit(ok) \/ MppEncCfgInit(ok) \/ MppBufferGet(ok) \/ SetCfg(ok)

EncodeStep(ok) == FrameInit(ok) \/ PutFrame(ok) \/ GetPacket(ok) \/ GetHeader(ok)

-----------------------------------------------------------------------------
\* Between two calls of encode nothing of the previous ones is alive but one
\* MppFrame for each that got one, and a packet if the last one failed over
\* its header.  Its frames are what the process loses with every picture.
OnlyFramesPile ==
    step = "idle" =>
        /\ headers = 0
        /\ packets <= IF ret = "failed" THEN 1 ELSE 0
        /\ frames \in (IF ret = "failed" THEN calls - 1 ELSE calls)..calls
        /\ cfgs <= 1

=============================================================================
