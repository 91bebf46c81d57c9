------------------------------ MODULE Pipeline ------------------------------
(***************************************************************************)
(* TransCoder::run (src/transcoder.cc) with the inference tasks it hands   *)
(* to the thread pool (RkYolo::Inference) and the encoder it calls.        *)
(*                                                                         *)
(* Frames are numbered in the order they are captured, from 1.  A frame    *)
(* buffer is named by the frame whose iteration allocated it, an image by  *)
(* the frame it shows.  One task is enqueued per frame, so a task is named *)
(* by its frame as well.  Slots 0..N-1 are the positions of                *)
(* m_rkyolo_list and m_out_buffer_list.                                    *)
(***************************************************************************)
EXTENDS Integers, Sequences, FiniteSets

CONSTANTS N,          \* config.rknn_thread
          MaxFrame,   \* bound: frames captured in a behaviour
          Lag         \* inference of frame u is over before frame u + Lag is
                      \* captured; Lag >= MaxFrame leaves it unconstrained,
                      \* which is what the code does

ASSUME PipelineAssumption ==
    /\ N \in Nat \ {0}
    /\ MaxFrame \in Nat \ {0}
    /\ Lag \in Nat \ {0}

VARIABLES
    pc,        \* where TransCoder::run is: see RunPC
    cur,       \* m_cur_yolo
    frame,     \* frames captured so far
    resize,    \* what the last capture->read returned: see ReadResults
    copied,    \* history: frames whose read filled a buffer
    inList,    \* m_in_buffer_list: its buffers, oldest first
    content,   \* the image in each buffer
    inbuf,     \* m_inbuf of each RkYolo: the buffer it points into
    yolo,      \* the slot that serves each dispatched frame
    bound,     \* the buffer SetBuffers gave for each dispatched frame
    stage,     \* where each inference is: see Stages
    src,       \* the buffer each inference reads
    img,       \* the image each inference has read
    out,       \* the image in each buffer of m_out_buffer_list
    fed,       \* the image last handed to the encoder
    queue, running, done, phase   \* the thread pool: see TaskPool

runVars  == <<pc, cur, frame, resize, copied, inList, fed>>
taskVars == <<stage, src, img, out>>
bindVars == <<inbuf, yolo, bound>>
poolVars == <<queue, running, done, phase>>
vars     == <<runVars, taskVars, bindVars, content, poolVars>>

Frames == 1..MaxFrame
Slots  == 0..(N - 1)

\* Unfilled, freed, or torn by a concurrent write.
NoImage == 0
Images  == Frames \cup {NoImage}

\* The loop's position, or how the process ended: an exception that leaves
\* run() through std::thread ends it, and so does memcpy with a length of -1.
Ended == {"out_of_range", "bad_size", "bad_packet"}
RunPC == {"poll", "dispatch", "encode", "erase"} \cup Ended

\* A whole frame, a length of 0, or -1, which VIDIOC_QBUF can also cause when
\* the frame has been copied already (V4l2MmapDevice::readInternal).
ReadResults == {"whole", "empty", "error"}

\* Inference reads m_inbuf, computes, then writes m_outbuf.
Stages == {"none", "read", "infer", "write"}

Pool == INSTANCE TaskPool WITH Tasks <- Frames, PoolSize <- N

InList(b)      == \E i \in 1..Len(inList) : inList[i] = b
Outstanding    == (1..frame) \ done
Dispatched     == IF pc = "dispatch" THEN frame - 1 ELSE frame
Writers(s)     == {u \in Frames : stage[u] = "write" /\ yolo[u] = s}
Readers(b)     == {u \in Frames : stage[u] = "read" /\ src[u] = b}
Alive          == pc \notin Ended

\* The images of the tasks in U are torn.
Spoiled(U) == [u \in Frames |-> IF u \in U THEN NoImage ELSE img[u]]

TypeOK ==
    /\ pc \in RunPC
    /\ cur \in 0..N
    /\ frame \in 0..MaxFrame
    /\ resize \in ReadResults
    /\ copied \subseteq Frames
    /\ inList \in Seq(Frames) /\ Len(inList) <= N
    /\ content \in [Frames -> Images]
    /\ inbuf \in [Slots -> Images]
    /\ yolo \in [Frames -> Slots]
    /\ bound \in [Frames -> Images]
    /\ stage \in [Frames -> Stages]
    /\ src \in [Frames -> Images]
    /\ img \in [Frames -> Images]
    /\ out \in [Slots -> Images]
    /\ fed \in Images
    /\ Pool!TypeOK

Init ==
    /\ pc = "poll"
    /\ cur = 0
    /\ frame = 0
    /\ resize = "whole"
    /\ copied = {}
    /\ inList = <<>>
    /\ content = [b \in Frames |-> NoImage]
    /\ inbuf = [s \in Slots |-> NoImage]
    /\ yolo = [u \in Frames |-> 0]
    /\ bound = [u \in Frames |-> NoImage]
    /\ stage = [u \in Frames |-> "none"]
    /\ src = [u \in Frames |-> NoImage]
    /\ img = [u \in Frames |-> NoImage]
    /\ out = [s \in Slots |-> NoImage]
    /\ fed = NoImage
    /\ Pool!Init

-----------------------------------------------------------------------------
(* TransCoder::run, one iteration.                                         *)

NextSlot == IF cur >= N THEN 0 ELSE cur

\* isReadable returned false: a second without a frame, or an error.
SkipOnTimeout ==       \* mutant of PollTimeout: the cursor moves on
    /\ pc = "poll"
    /\ cur' = cur + 1
    /\ UNCHANGED <<pc, frame, resize, copied, inList, fed>>
    /\ UNCHANGED <<taskVars, bindVars, content, poolVars>>

RewindOnTimeout ==     \* mutant of PollTimeout: the cursor starts over
    /\ pc = "poll"
    /\ cur' = 0
    /\ UNCHANGED <<pc, frame, resize, copied, inList, fed>>
    /\ UNCHANGED <<taskVars, bindVars, content, poolVars>>

PollTimeout ==
    /\ pc = "poll"
    /\ cur' = NextSlot
    /\ UNCHANGED <<pc, frame, resize, copied, inList, fed>>
    /\ UNCHANGED <<taskVars, bindVars, content, poolVars>>

\* A new buffer goes to the end of the list and the frame into the buffer at
\* position cur, which is not always the new one.  The result of `read` is
\* not looked at here; a buffer that was not filled keeps what it held.
ReadIntoNewest(list) == list[Len(list)]   \* mutant of ReadTarget: back()

ReadTarget(list) == list[NextSlot + 1]

ReadFrame(result, fills) ==
    LET list == Append(inList, frame + 1) IN
    /\ pc = "poll"
    /\ frame < MaxFrame
    /\ \A u \in Outstanding : u + Lag > frame + 1
    /\ result = "whole" => fills
    /\ result = "empty" => ~fills
    /\ frame' = frame + 1
    /\ cur' = NextSlot
    /\ inList' = list
    /\ resize' = result
    /\ \/ /\ NextSlot < Len(list)
          /\ pc' = "dispatch"
          /\ IF fills
             THEN /\ content' = [content EXCEPT ![ReadTarget(list)] = frame + 1]
                  /\ img' = Spoiled(Readers(ReadTarget(list)))
                  /\ copied' = copied \cup {frame + 1}
             ELSE UNCHANGED <<content, img, copied>>
       \/ /\ NextSlot >= Len(list)
          /\ pc' = "out_of_range"
          /\ UNCHANGED <<content, img, copied>>
    /\ UNCHANGED <<stage, src, out, fed, bindVars, poolVars>>

EncodeEarly == Len(inList) + 1 >= N   \* mutant of ReadyToEncode: off by one

ReadyToEncode == Len(inList) >= N

\* SetBuffers of the RkYolo at cur, cur++, enqueue.
DropWhenQueued ==      \* mutant of Dispatch: a task is dropped on a backlog
    /\ pc = "dispatch"
    /\ inbuf' = [inbuf EXCEPT ![cur] = inList[cur + 1]]
    /\ yolo' = [yolo EXCEPT ![frame] = cur]
    /\ bound' = [bound EXCEPT ![frame] = inList[cur + 1]]
    /\ IF queue = <<>> THEN Pool!Submit(frame) ELSE UNCHANGED poolVars
    /\ cur' = cur + 1
    /\ pc' = IF ReadyToEncode THEN "encode" ELSE "poll"
    /\ UNCHANGED <<frame, resize, copied, inList, fed, taskVars, content>>

Dispatch ==
    /\ pc = "dispatch"
    /\ inbuf' = [inbuf EXCEPT ![cur] = inList[cur + 1]]
    /\ yolo' = [yolo EXCEPT ![frame] = cur]
    /\ bound' = [bound EXCEPT ![frame] = inList[cur + 1]]
    /\ Pool!Submit(frame)
    /\ cur' = cur + 1
    /\ pc' = IF ReadyToEncode THEN "encode" ELSE "poll"
    /\ UNCHANGED <<frame, resize, copied, inList, fed, taskVars, content>>

NewestSlot == cur - 1                 \* mutant of OutSlot: the slot just used

OutSlot == cur % N

\* encode copies `resize` bytes of the output buffer into the encoder's own
\* and the packet goes to the callback; a packet of length 0 makes no call.  A
\* writer that is still active tears the copy, and a copy of 0 bytes leaves the
\* picture that was encoded before.
Encode ==
    /\ pc = "encode"
    /\ \/ resize = "whole" /\ fed' = IF Writers(OutSlot) = {} THEN out[OutSlot]
                                                             ELSE NoImage
       \/ resize = "empty" /\ fed' = fed
    /\ pc' = "erase"
    /\ UNCHANGED <<cur, frame, resize, copied, inList>>
    /\ UNCHANGED <<taskVars, bindVars, content, poolVars>>

\* `resize` is -1 when read failed, and becomes the length of a memcpy.
EncodeBadSize ==
    /\ pc = "encode"
    /\ resize = "error"
    /\ pc' = "bad_size"
    /\ UNCHANGED <<cur, frame, resize, copied, inList, fed>>
    /\ UNCHANGED <<taskVars, bindVars, content, poolVars>>

\* A call of the encoder failed: frameSize is -1, which is not 0, and the
\* vector built for the callback has a negative length.
EncodeFails ==
    /\ pc = "encode"
    /\ pc' = "bad_packet"
    /\ UNCHANGED <<cur, frame, resize, copied, inList, fed>>
    /\ UNCHANGED <<taskVars, bindVars, content, poolVars>>

\* erase(begin()) frees the oldest buffer.
EraseNewest ==         \* mutant of Erase: pop_back in its place
    /\ pc = "erase"
    /\ inList' = SubSeq(inList, 1, Len(inList) - 1)
    /\ img' = Spoiled(Readers(inList[Len(inList)]))
    /\ pc' = "poll"
    /\ UNCHANGED <<cur, frame, resize, copied, fed>>
    /\ UNCHANGED <<stage, src, out, bindVars, content, poolVars>>

Erase ==
    /\ pc = "erase"
    /\ inList' = Tail(inList)
    /\ img' = Spoiled(Readers(Head(inList)))
    /\ pc' = "poll"
    /\ UNCHANGED <<cur, frame, resize, copied, fed>>
    /\ UNCHANGED <<stage, src, out, bindVars, content, poolVars>>

-----------------------------------------------------------------------------
(* RkYolo::Inference on a worker of the pool.  The task uses m_inbuf as it *)
(* is when the task starts, not as it was when the task was enqueued.      *)

Begin ==
    LET u == Head(queue)
        b == inbuf[yolo[u]] IN
    /\ Alive
    /\ Pool!Start
    /\ stage' = [stage EXCEPT ![u] = "read"]
    /\ src' = [src EXCEPT ![u] = b]
    /\ img' = [img EXCEPT ![u] = IF InList(b) THEN content[b] ELSE NoImage]
    /\ UNCHANGED <<runVars, out, bindVars, content>>

EndRead(u) ==
    /\ Alive
    /\ stage[u] = "read"
    /\ stage' = [stage EXCEPT ![u] = "infer"]
    /\ UNCHANGED <<runVars, src, img, out, bindVars, content, poolVars>>

BeginWrite(u) ==
    /\ Alive
    /\ stage[u] = "infer"
    /\ stage' = [stage EXCEPT ![u] = "write"]
    /\ UNCHANGED <<runVars, src, img, out, bindVars, content, poolVars>>

\* A second writer of the same output buffer tears both images.
EndWrite(u) ==
    LET others == Writers(yolo[u]) \ {u} IN
    /\ Alive
    /\ stage[u] = "write"
    /\ stage' = [stage EXCEPT ![u] = "none"]
    /\ out' = [out EXCEPT ![yolo[u]] = IF others = {} THEN img[u] ELSE NoImage]
    /\ img' = Spoiled(others)
    /\ Pool!Finish(u)
    /\ UNCHANGED <<runVars, src, bindVars, content>>

-----------------------------------------------------------------------------
Run ==
    \/ PollTimeout
    \/ \E result \in ReadResults, fills \in BOOLEAN : ReadFrame(result, fills)
    \/ Dispatch
    \/ Encode
    \/ EncodeBadSize
    \/ EncodeFails
    \/ Erase

Infer(u) == EndRead(u) \/ BeginWrite(u) \/ EndWrite(u)

Next == Run \/ Begin \/ \E u \in Frames : Infer(u)

Spec == Init /\ [][Next]_vars

\* Workers are scheduled and an inference returns.  Nothing is assumed of the
\* capture device.
FairSpec ==
    /\ Spec
    /\ WF_vars(Begin)
    /\ \A u \in Frames : WF_vars(Infer(u))

-----------------------------------------------------------------------------
(* Properties that hold however slow inference is.                         *)

\* No at() of run() throws: m_in_buffer_list is shorter than
\* m_rkyolo_list while it fills, and the cursor stays inside both.
AtNeverThrows == pc # "out_of_range"

\* What is encoded is the slot of the oldest frame still in the list, so
\* packets come out in capture order, N - 1 frames late, whatever the
\* timeouts in between do to the cursor.
EncodesOldest ==
    pc = "encode" => /\ frame >= N
                     /\ yolo[frame - N + 1] = OutSlot

\* How long the buffer SetBuffers gave for frame u stays in the list.  The
\* first N frames use their own buffer.  From then on the cursor and the
\* erase at the front move against each other: the buffer of a frame served
\* by slot s survives s further iterations, so the buffer of slot 0 is freed
\* in the iteration that enqueued its task.
InputLifetime ==
    \A u \in Frames :
        N < u /\ u <= Dispatched /\ Alive
        => (InList(bound[u]) <=> \/ frame - u < yolo[u]
                                 \/ frame - u = yolo[u] /\ pc # "poll")

\* Every frame that was dispatched is inferred, unless the process ends.
Inferred ==
    \A u \in Frames : (u <= Dispatched) ~> (u \in done \/ ~Alive)

-----------------------------------------------------------------------------
(* Properties of a pipeline whose inference keeps up (Lag small against N).*)
(* The code does not enforce it: enqueue never blocks.                     *)

\* Lag <= N: no RkYolo serves two frames at a time, so its rknn context, its
\* m_input and its two pointers belong to one task.
YoloExclusive ==
    Lag <= N =>
        \A u, v \in (1..Dispatched) \ done : yolo[u] = yolo[v] => u = v

\* Lag < N: "Use the first output data to ensure that yolo is executed".
\* When a slot is encoded its frame has been inferred and nobody writes it.
ExecutedBeforeEncode ==
    Lag < N /\ pc = "encode" =>
        /\ frame - N + 1 \in done
        /\ Writers(OutSlot) = {}

\* Twice Lag <= N: when every read fills its buffer, what is encoded is the
\* frame that is due or, where its buffer was freed under the task, no image;
\* never another frame.  A frame whose slot leaves its buffer in the list for
\* as long as inference takes is encoded intact.
EncodedIsDue ==
    LET k == frame - N + 1 IN
    2 * Lag <= N /\ pc = "erase" /\ resize = "whole" /\ k \in copied =>
        /\ fed \in {k, NoImage}
        /\ k <= N \/ yolo[k] >= Lag => fed = k

-----------------------------------------------------------------------------
(* Statements the code does not meet.                                      *)

\* The comment at src/transcoder.cc:105, of the code as it is.
YoloIsExecuted ==
    pc = "encode" => frame - N + 1 \in done

\* thirdparty/libv4l2cc/test/test.cc:49 stops when read returns -1.
FailedReadNotEncoded ==
    pc = "encode" => resize # "error"

=============================================================================
