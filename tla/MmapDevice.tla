----------------------------- MODULE MmapDevice -----------------------------
(***************************************************************************)
(* A V4l2Capture on a V4l2MmapDevice (thirdparty/libv4l2cc): created,      *)
(* read in a loop, deleted, with the driver's side of the buffer exchange. *)
(*                                                                         *)
(* Every ioctl and every mmap is an action that may fail.  Frames are      *)
(* numbered in the order in which the driver produces them, from 1.        *)
(***************************************************************************)
EXTENDS Integers, Sequences, Functions

CONSTANTS NbBuffer,     \* V4L2MMAP_NBBUFFER: asked for, and length of m_buffer
          MaxGranted,   \* bound: buffers the driver grants, which may be more
          MaxFrame      \* bound: frames the driver stores in a behaviour

ASSUME MmapAssumption ==
    /\ NbBuffer \in Nat \ {0}
    /\ MaxGranted \in Nat /\ MaxGranted >= NbBuffer
    /\ MaxFrame \in Nat \ {0}

VARIABLES
    pc,         \* the call in progress: see PC
    fd,         \* what m_fd refers to: see Files
    success,    \* start(): its local variable
    nBuffers,   \* n_buffers
    addr,       \* m_buffer[i].start: see Addresses
    todo,       \* index of the loop in progress
    held,       \* readInternal: buf.index
    copy,       \* readInternal: the frame in the caller's buffer
    got,        \* history: the last frame that was returned
    ret,        \* how the last read ended
    granted,    \* driver: buffers allocated by VIDIOC_REQBUFS
    mapped,     \* kernel: buffers mapped into the process
    queued,     \* driver: buffers to fill, oldest first
    filled,     \* driver: buffers to dequeue, oldest first
    streaming,  \* driver: VIDIOC_STREAMON
    image,      \* the frame in each buffer's memory
    seq,        \* frames stored by the driver
    lost        \* history: buffers whose VIDIOC_QBUF failed

startVars  == <<success, nBuffers, addr, todo>>
readVars   == <<held, copy, got, ret>>
memVars    == <<granted, mapped>>
streamVars == <<queued, filled, streaming, image, seq>>
vars == <<pc, fd, startVars, readVars, memVars, streamVars, lost>>

Indices == 0..(NbBuffer - 1)
NoFrame == 0
Frames  == 1..MaxFrame

\* A path that is not a character device is created and opened for writing.
Files == {"none", "device", "file"}

\* memset to NULL, the result of mmap, or MAP_FAILED.
Addresses == {"null", "mapped", "failed"}

Reading   == {"ready", "copy", "requeue"}
Starting  == {"open", "reqbufs", "map", "queue", "streamon"}
Stopping  == {"streamoff", "unmap", "release", "close"}
PC        == Starting \cup Reading \cup Stopping \cup {"gone", "overrun"}

\* The buffer readInternal is working on.
Busy == IF pc \in {"copy", "requeue"} THEN {held} ELSE {}

TypeOK ==
    /\ pc \in PC
    /\ fd \in Files
    /\ success \in BOOLEAN
    /\ nBuffers \in 0..NbBuffer
    /\ addr \in [Indices -> Addresses]
    /\ todo \in 0..NbBuffer
    /\ held \in Indices
    /\ copy \in Frames \cup {NoFrame}
    /\ got \in Frames \cup {NoFrame}
    /\ ret \in {"none", "frame", "error"}
    /\ granted \in 0..MaxGranted
    /\ mapped \in SUBSET Indices
    /\ queued \in Seq(Indices)
    /\ filled \in Seq(Indices)
    /\ streaming \in BOOLEAN
    /\ image \in [Indices -> Frames \cup {NoFrame}]
    /\ seq \in 0..MaxFrame
    /\ lost \in SUBSET Indices

Init ==
    /\ pc = "open"
    /\ fd = "none"
    /\ success = TRUE
    /\ nBuffers = 0
    /\ addr = [b \in Indices |-> "null"]
    /\ todo = 0
    /\ held = 0
    /\ copy = NoFrame
    /\ got = NoFrame
    /\ ret = "none"
    /\ granted = 0
    /\ mapped = {}
    /\ queued = <<>>
    /\ filled = <<>>
    /\ streaming = FALSE
    /\ image = [b \in Indices |-> NoFrame]
    /\ seq = 0
    /\ lost = {}

-----------------------------------------------------------------------------
(* V4l2Capture::create: V4l2Device::init, then V4l2MmapDevice::start.      *)

\* open, the capabilities or every format refused: the descriptor is closed
\* again, init returns false and create deletes the device.
OpenFails ==
    /\ pc = "open"
    /\ pc' = "streamoff"
    /\ UNCHANGED <<fd, startVars, readVars, memVars, streamVars, lost>>

Open ==
    /\ pc = "open"
    /\ fd' \in {"device", "file"}
    /\ pc' = "reqbufs"
    /\ UNCHANGED <<startVars, readVars, memVars, streamVars, lost>>

\* start() ends here; a plain file refuses every ioctl.
ReqBufsFails ==
    /\ pc = "reqbufs"
    /\ success' = FALSE
    /\ pc' = "streamoff"
    /\ UNCHANGED <<fd, nBuffers, addr, todo, readVars, memVars, streamVars, lost>>

\* The driver may grant fewer buffers than it is asked for, or more.
ReqBufs ==
    /\ pc = "reqbufs"
    /\ fd = "device"
    /\ granted' \in 1..MaxGranted
    /\ nBuffers' = 0
    /\ addr' = [b \in Indices |-> "null"]
    /\ pc' = "map"
    /\ UNCHANGED <<fd, success, todo, readVars, mapped, streamVars, lost>>

MapOneMore(result) ==     \* mutant of MapBuffer: the loop runs to <= req.count
    /\ pc = "map" /\ nBuffers < NbBuffer
    /\ addr' = [addr EXCEPT ![nBuffers] = result]
    /\ mapped' = IF result = "mapped" THEN mapped \cup {nBuffers} ELSE mapped
    /\ success' = (success /\ result = "mapped")
    /\ nBuffers' = nBuffers + 1
    /\ todo' = 0
    /\ pc' = IF nBuffers = granted THEN "queue" ELSE "map"
    /\ UNCHANGED <<fd, readVars, granted, streamVars, lost>>

\* One iteration of the first loop: VIDIOC_QUERYBUF fails, or mmap fails, or
\* the buffer is mapped.  The loop goes on in every case.
MapBuffer(result) ==
    /\ pc = "map" /\ nBuffers < NbBuffer
    /\ addr' = [addr EXCEPT ![nBuffers] = result]
    /\ mapped' = IF result = "mapped" THEN mapped \cup {nBuffers} ELSE mapped
    /\ success' = (success /\ result = "mapped")
    /\ nBuffers' = nBuffers + 1
    /\ todo' = 0
    /\ pc' = IF nBuffers + 1 = granted THEN "queue" ELSE "map"
    /\ UNCHANGED <<fd, readVars, granted, streamVars, lost>>

\* The loop, whose end is req.count, goes on with an index that m_buffer lacks;
\* stop() uses it if a refused VIDIOC_QUERYBUF keeps the loop from doing so.
\* What happens then is not followed.
Overrun ==
    /\ pc = "map" /\ nBuffers = NbBuffer
    /\ pc' = "overrun"
    /\ UNCHANGED <<fd, startVars, readVars, memVars, streamVars, lost>>

\* One iteration of the second loop.
QueueBuffer(ok) ==
    /\ pc = "queue"
    /\ queued' = IF ok THEN Append(queued, todo) ELSE queued
    /\ lost' = IF ok THEN lost ELSE lost \cup {todo}
    /\ success' = (success /\ ok)
    /\ todo' = todo + 1
    /\ pc' = IF todo + 1 = nBuffers THEN "streamon" ELSE "queue"
    /\ UNCHANGED <<fd, nBuffers, addr, readVars, memVars, filled>>
    /\ UNCHANGED <<streaming, image, seq>>

StreamOnDecides(ok) ==    \* mutant of StreamOn: the last call decides alone
    /\ pc = "streamon"
    /\ streaming' = ok
    /\ success' = ok
    /\ pc' = IF success' THEN "ready" ELSE "streamoff"
    /\ UNCHANGED <<fd, nBuffers, addr, todo, readVars, memVars, lost>>
    /\ UNCHANGED <<queued, filled, image, seq>>

\* Streaming is switched on whatever happened before.  create returns the
\* capture, or deletes the device.
StreamOn(ok) ==
    /\ pc = "streamon"
    /\ streaming' = ok
    /\ success' = (success /\ ok)
    /\ pc' = IF success' THEN "ready" ELSE "streamoff"
    /\ UNCHANGED <<fd, nBuffers, addr, todo, readVars, memVars, lost>>
    /\ UNCHANGED <<queued, filled, image, seq>>

-----------------------------------------------------------------------------
(* The driver.                                                             *)

\* A frame goes to the oldest queued buffer; without one it is dropped, which
\* nobody sees.
Produce ==
    /\ streaming
    /\ queued # <<>>
    /\ seq < MaxFrame
    /\ seq' = seq + 1
    /\ image' = [image EXCEPT ![Head(queued)] = seq + 1]
    /\ filled' = Append(filled, Head(queued))
    /\ queued' = Tail(queued)
    /\ UNCHANGED <<pc, fd, startVars, readVars, memVars, streaming, lost>>

-----------------------------------------------------------------------------
(* V4l2MmapDevice::readInternal, called when isReadable says so.           *)

\* VIDIOC_DQBUF.
Dequeue ==
    /\ pc = "ready"
    /\ filled # <<>>
    /\ held' = Head(filled)
    /\ filled' = Tail(filled)
    /\ pc' = "copy"
    /\ UNCHANGED <<fd, startVars, copy, got, ret, memVars, queued>>
    /\ UNCHANGED <<streaming, image, seq, lost>>

DequeueFails ==
    /\ pc = "ready"
    /\ filled # <<>>
    /\ ret' = "error"
    /\ UNCHANGED <<pc, fd, startVars, held, copy, got, memVars, streamVars, lost>>

TruncateReturns ==        \* mutant of Copy: a frame that is too large is
    /\ pc = "copy"        \* returned before its buffer is queued again
    /\ copy' = image[held]
    /\ \/ /\ pc' = "ready"
          /\ got' = image[held]
          /\ ret' = "frame"
       \/ /\ pc' = "requeue"
          /\ UNCHANGED <<got, ret>>
    /\ UNCHANGED <<fd, startVars, held, memVars, streamVars, lost>>

CopyNeighbour ==          \* mutant of Copy: an index off by one
    /\ pc = "copy"
    /\ copy' = image[(held + 1) % granted]
    /\ pc' = "requeue"
    /\ UNCHANGED <<fd, startVars, held, got, ret, memVars, streamVars, lost>>

\* memcpy, of at most the caller's size.
Copy ==
    /\ pc = "copy"
    /\ copy' = image[held]
    /\ pc' = "requeue"
    /\ UNCHANGED <<fd, startVars, held, got, ret, memVars, streamVars, lost>>

\* VIDIOC_QBUF.  When it fails the caller is told -1 and nothing queues the
\* buffer again.
Requeue ==
    /\ pc = "requeue"
    /\ queued' = Append(queued, held)
    /\ got' = copy
    /\ ret' = "frame"
    /\ pc' = "ready"
    /\ UNCHANGED <<fd, startVars, held, copy, memVars, filled>>
    /\ UNCHANGED <<streaming, image, seq, lost>>

RequeueFails ==
    /\ pc = "requeue"
    /\ lost' = lost \cup {held}
    /\ ret' = "error"
    /\ pc' = "ready"
    /\ UNCHANGED <<fd, startVars, held, copy, got, memVars, streamVars>>

-----------------------------------------------------------------------------
(* delete: ~V4l2MmapDevice calls stop(), ~V4l2Device closes m_fd.          *)

Delete ==
    /\ pc = "ready"
    /\ pc' = "streamoff"
    /\ UNCHANGED <<fd, startVars, readVars, memVars, streamVars, lost>>

\* VIDIOC_STREAMOFF takes every buffer away from the driver; on a closed
\* descriptor or a file it fails, and stop() goes on.
StreamOff ==
    /\ pc = "streamoff"
    /\ streaming' = FALSE
    /\ queued' = <<>>
    /\ filled' = <<>>
    /\ todo' = 0
    /\ pc' = IF nBuffers = 0 THEN "release" ELSE "unmap"
    /\ UNCHANGED <<fd, success, nBuffers, addr, readVars, memVars, image, seq, lost>>

UnmapFirst ==             \* mutant of Unmap: the loop ends at the first
    /\ pc = "unmap"       \* munmap that fails
    /\ mapped' = IF addr[todo] = "mapped" THEN mapped \ {todo} ELSE mapped
    /\ todo' = todo + 1
    /\ pc' = IF todo + 1 = nBuffers \/ addr[todo] # "mapped"
             THEN "release" ELSE "unmap"
    /\ UNCHANGED <<fd, success, nBuffers, addr, readVars, granted, streamVars, lost>>

\* munmap of NULL or MAP_FAILED fails, and the loop goes on.
Unmap ==
    /\ pc = "unmap"
    /\ mapped' = IF addr[todo] = "mapped" THEN mapped \ {todo} ELSE mapped
    /\ todo' = todo + 1
    /\ pc' = IF todo + 1 = nBuffers THEN "release" ELSE "unmap"
    /\ UNCHANGED <<fd, success, nBuffers, addr, readVars, granted, streamVars, lost>>

\* VIDIOC_REQBUFS with a count of 0, refused while a buffer is still mapped.
Release ==
    /\ pc = "release"
    /\ granted' = IF mapped = {} THEN 0 ELSE granted
    /\ nBuffers' = 0
    /\ pc' = "close"
    /\ UNCHANGED <<fd, success, addr, todo, readVars, mapped, streamVars, lost>>

Close ==
    /\ pc = "close"
    /\ fd' = "none"
    /\ pc' = "gone"
    /\ UNCHANGED <<startVars, readVars, memVars, streamVars, lost>>

-----------------------------------------------------------------------------
Start ==
    \/ ReqBufsFails
    \/ ReqBufs
    \/ \E result \in Addresses : MapBuffer(result)
    \/ Overrun
    \/ \E ok \in BOOLEAN : QueueBuffer(ok)
    \/ \E ok \in BOOLEAN : StreamOn(ok)

Create == OpenFails \/ Open \/ Start

Read == Dequeue \/ Copy \/ Requeue \/ RequeueFails

Destroy == StreamOff \/ Unmap \/ Release \/ Close

Next == Create \/ Produce \/ Read \/ DequeueFails \/ Delete \/ Destroy

Spec == Init /\ [][Next]_vars

\* The camera produces frames while it streams, the caller's loop reads when
\* the device is readable and not every VIDIOC_DQBUF fails, and a destructor
\* that was entered goes on.  Deleting the capture is nobody's duty.
FairSpec ==
    /\ Spec
    /\ WF_vars(Create)
    /\ WF_vars(Produce)
    /\ WF_vars(Read)
    /\ WF_vars(Destroy)

-----------------------------------------------------------------------------
(* Properties.                                                             *)

\* start() leaves m_buffer only over a driver that grants more buffers than it
\* was asked for, and then always, before a buffer is queued: no loop of
\* start(), readInternal or stop() ever works with an index m_buffer lacks.
WithinBuffer ==
    /\ pc = "overrun" => granted > NbBuffer
    /\ granted > NbBuffer => pc \in {"map", "overrun"}

\* A capture that create handed out has every buffer the driver granted
\* mapped, and streams: no failure on the way through start() is forgotten by
\* a later call that succeeds.
HandedOutWhole ==
    pc \in Reading =>
        /\ fd = "device"
        /\ streaming
        /\ nBuffers = granted
        /\ mapped = 0..(granted - 1)
        /\ \A b \in mapped : addr[b] = "mapped"

\* From VIDIOC_STREAMON to the destructor a buffer is in one place: waiting
\* for the driver, waiting for the reader, in the hands of readInternal, or
\* lost with an error that was reported.
EachBufferOnce ==
    pc \in Reading =>
        /\ IsInjective(queued)
        /\ IsInjective(filled)
        /\ Range(queued) \cap Range(filled) = {}
        /\ (Range(queued) \cup Range(filled)) \cap (Busy \cup lost) = {}
        /\ Busy \cap lost = {}
        /\ Range(queued) \cup Range(filled) \cup Busy \cup lost = 0..(granted - 1)

\* Frames are returned in the order in which the driver produced them, each
\* at most once: the driver never writes the buffer that is being copied.
ReadsForward ==
    pc = "requeue" => copy > got

\* Whatever failed, and wherever, nothing of the device is left when it has
\* been deleted: no mapping, no buffer of the driver, no descriptor, no stream.
NothingLeft ==
    pc = "gone" => /\ mapped = {}
                   /\ granted = 0
                   /\ fd = "none"
                   /\ ~streaming

\* A device that streams goes on returning frames until every buffer has been
\* lost to a failed VIDIOC_QBUF.
KeepsReading ==
    \A f \in Frames \cup {NoFrame} :
        (pc \in Reading /\ got = f)
            ~> \/ got # f
               \/ pc \notin Reading
               \/ seq = MaxFrame
               \/ lost = 0..(granted - 1)

=============================================================================
