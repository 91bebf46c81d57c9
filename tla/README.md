# RkYoloRtspServer: formal models

TLA+ specifications of RkYoloRtspServer, a program for Rockchip boards that
reads YUYV frames from a USB camera, runs YOLOv5 on the NPU for each of them,
draws the boxes, encodes the result as H.264 and serves it over RTSP. The
modules are translated from the source; TLC checks them on small instances and
TLAPS proves the theorems listed under "Proofs" for all values of the constants.

Paths without a prefix are relative to the repository's `src/` directory;
`libv4l2cc/` stands for `thirdparty/libv4l2cc/`.

- [Inventory](#inventory)
- [Modules](#modules)
- [Runs](#runs)
- [Findings](#findings)
- [Proofs](#proofs)
- [Abstractions](#abstractions)
- [Not modelled](#not-modelled)
- [Plan](#plan)

## Inventory

### Who calls whom

`main` (main.cc:7) builds a `CamRTSPServer`, gives it one `TransCoder` and calls
`run()`, which never returns. Four kinds of threads exist after that:

| thread | runs | shares |
|---|---|---|
| event loop (main thread) | live555, `CamFramedSource::doGetNextFrame`, `deliverData`, the media subsession | the packet buffer |
| encoding thread, one detached thread per source | `TransCoder::run` | the packet buffer, the task queue, the in and out buffers |
| workers, `rknn_thread` of them | `RkYolo::Inference` | the task queue, the in and out buffers, one `RkYolo` each at best |
| the camera's driver | fills mapped buffers | the buffers of `V4l2MmapDevice` |

A frame's way: the driver fills a mapped buffer; `capture->read` copies it into
an element of `m_in_buffer_list`; `SetBuffers` tells an `RkYolo` where it is and
`enqueue` queues `Inference`; a worker converts, infers, post-processes, draws
and writes the picture to an element of `m_out_buffer_list`; N - 1 iterations
later `run()` encodes that element and calls `onEncodedDataCallback`;
`CamFramedSource` stores the packet and raises an event trigger; the event loop
delivers it to `StreamReplicator` and so to the clients.

Nothing waits for an inference: `enqueue` never blocks and the future it returns
is dropped. What keeps the parts in step is only the arithmetic on the cursor
`m_cur_yolo` and the assumption that inference is quick enough.

### Components

**Thread pool** (inc/ThreadPool.h). State: queue, stop flag, threads, mutex and
condition variable. Operations: constructor (the worker loop), `enqueue`,
destructor. Hard: notifications after the unlock, spurious wakeups, a destructor
that runs over a full queue. Correct if no task waits while a worker sleeps,
every accepted task runs exactly once, and the destructor returns.

**Pipeline** (transcoder.cc `run`, RkYolo.cc `Inference`, `SetBuffers`). State:
cursor, the list of input buffers, the vector of output buffers, the `RkYolo`s
and their two pointers. Hard: buffers are found by position in a list that loses
its front while tasks hold pointers into it; timeouts move the cursor; the
results of reads and of inferences are not waited for or not looked at. Correct
if positions stay in range, packets keep the order of capture, buffers live as
long as the task that uses them, and what is encoded is the finished picture of
the frame that is due.

**Encoder** (RkEncoder.cc). State: the MPP context, one input buffer, and the
frames, packets and configurations the library has handed out. Operations:
`init`, `encode`. Hard: each call of MPP may fail, on exits that release
different things. Correct if a call leaves no object behind.

**Packet hand-over** (CamFramedSource.cc). State: `encodedDataBuffer` under a
mutex, an event trigger, and live555's `isCurrentlyAwaitingData`. Operations:
`onEncodedData` on the encoding thread; `doGetNextFrame`, `deliverData` and
`doStopGettingFrames` on the event loop. Hard: two threads, a test outside the
mutex, triggers that collapse. Correct if a waiting client is not left beside a
packet, no packet is delivered twice, and the order of the stream is kept.

**V4L2 device and capture** (libv4l2cc/). State: descriptor, negotiated format
and size, mapped buffers; the driver's queues. Operations: `create`, `init` (the
negotiation), `start`, `isReadable`, `read`, `stop`, destructors. Hard: every
ioctl may fail and most loops go on after a failure; cleaning up runs over
whatever has been built. Correct if a capture that was handed out is whole, a
buffer is in one place only, frames are returned once and in order, the size
that was negotiated is the driver's, and deleting leaves nothing.

**Post-processing** (postprocess.cc). State: vectors of candidates that are
indexed together, the index array, the report. Operations: `process`,
`quick_sort_indice_inverse`, `nms`, `post_process`, `loadLabelName`. Hard:
signed rounding of the threshold, a sort in place with a parallel array,
suppression class by class on one array, a report of limited size, a static flag
that is set without a lock. Correct if the report's boxes do not overlap, none
was dropped without a better one, and box, class and confidence belong together.

**Configuration** (ini.c, INIReader.cc, and what the constructors read). State:
section, previous name, first error, the map of values. Hard: continuation
lines, repeated settings, errors in the middle of a file. Correct if each line
is recorded where it stands and a setting means what the file says.

**RTSP server and main** (CamRTSPServer.cc, main.cc). State: the server, the
sources it keeps, the transcoders, `watcher_`. Operations: constructor (reads the
settings), `addTranscoder`, `run`, `addMediaSession`, `stopServer`, destructor.
Hard: what is destroyed in which order while a thread and clients use it.
Correct if nothing is used after it was closed and a server that is told to stop
ends.

**Thread wrapper** (MThread.cc). State: `th`, `stopState`. Operations: `start`,
`stop`, `detach`, destructor. Hard: the thread's function never ends and
`stopState` has no initial value.

**Media subsession** (CamUnicastServerMediaSubsession.cc). State: `clientIpMap_`,
the replicator. Operations: `getStreamParameters`, `createNewStreamSource`,
`createNewRTPSink`, `deleteStream`. Hard: clients come and go while a delivery is
under way. Correct if the map holds the connected clients and the source is read
only for a client that plays.

**Start-up** (`TransCoder::init`, `RkYolo::Init`, `RkEncoder::init`). State: what
the objects are made of. Hard: most results are dropped, so that an object whose
initialisation stopped half way is used like any other, and a camera that grants
another size than the configured one is taken as it is. Correct if a start-up
ends only where something failed, and then before the failure is used, and if
the first packet is sent.

**Logging**, the vendored headers of RGA and RKNN, and the external libraries
(live555, MPP, RKNN, RGA, OpenCV) are outside the models.

PROJECT.json lists the hazards line by line, each with the properties about it.

## Modules

```
TaskPool  <--implements--  ThreadPool        <-- ThreadPoolProofs
    ^
    | (INSTANCE: the pool behind run())
Pipeline                                     <-- PipelineProofs
FramedSource <--EXTENDS--  Server            <-- ServerProofs
MmapDevice  <--EXTENDS--   Capture           <-- CaptureProofs
Candidates                                   <-- CandidatesProofs
PostProcess <--implements-- Detections       <-- DetectionsProofs
QuickSort   <--INSTANCE--   Detections
ConfigReader <--EXTENDS--   Settings         <-- SettingsProofs
Settings    <--EXTENDS--    Startup          <-- StartupProofs (with SettingsProofs)
Encoder, Labels <--INSTANCE-- Startup
```

`MCxxx.tla` and `MCxxx*.cfg` are the instances for TLC. A definition with the
comment "mutant of D" is D with a bug of the kind it is exposed to; no
specification uses it, and with it in the place of D a property that is named in
PROJECT.json is violated.

### ThreadPool and TaskPool: inc/ThreadPool.h

`tasks`, `stop` and the set of threads are the class's members. A region under
`queue_mutex` is one action, since all it touches is guarded by that mutex:
testing the predicate and going to sleep (`Sleep`), leaving (`Exit`), moving a
task out (`Take`). `notify_one`, `notify_all` and running a task happen outside
and are actions of their own (`NotifyOne`, `NotifyAll`, `Return`), so that every
interleaving with a worker between the test and the sleep that a mutex allows is
there. `SpuriousWake` is what a condition variable may do. `Reject` is the
exception on a stopped pool.

`TaskPool` is what the rest of the program relies on: a FIFO, at most as many
tasks at a time as there are workers, each task once, a destructor that returns
over an empty pool. `ThreadPool` is shown to implement it and `Pipeline` uses it
in place of the threads. Only the one mutex is shared between the two levels, so
a step of `TaskPool` is a region under it.

### Pipeline: transcoder.cc `run`, RkYolo.cc `Inference`, RkEncoder.cc `encode`

One action per part of the loop that other threads can fall between:
`PollTimeout`, `ReadFrame`, `Dispatch` (`SetBuffers`, `m_cur_yolo++`,
`enqueue`), `Encode`, `Erase`. A task reads `m_inbuf` when it starts (`Begin`),
which may be long after it was enqueued, then computes and writes (`BeginWrite`,
`EndWrite`). A buffer is named by the frame whose iteration allocated it and an
image by the frame it shows; an image that was read from a freed buffer, or
written by two at once, is `NoImage`. `ReadFrame` ends in each of the ways
`readInternal` can: with a frame, with 0, and with -1 before or after the copy.
`EncodeBadSize` and `EncodeFails` are the ways the process ends in this loop.

`Lag` bounds how many frames later an inference is over. The code has no such
bound: with `Lag >= MaxFrame` it says nothing, and the properties that need it
state `Lag` as their premise, with the number the code would need.

### FramedSource: CamFramedSource.cc

Two threads: `OnEncodedData`, `Push`, `Trigger` on one; `GetNextFrame`,
`DoGetNextFrame`, `DeliverFrame0`, `Pop`, `AfterGetting`, `StopGettingFrames` on
the other. `push_back` and the pair of `back` and `pop_back` are under the mutex
and are one step each; the tests in between (`isCurrentlyAwaitingData`, `empty`)
are steps of their own. live555 is external: a trigger is a flag that the loop
clears before it calls the handler, and `getNextFrame` is called only when none
is in progress. `loop = "undefined"` is `back()` of an empty vector.

`OnEncodedData` drops the packet when the source is not awaited at that moment;
otherwise it is stored and its trigger raised, and the client may have gone in
between. `Close` is the destructor. After it the encoding thread, which nothing
stops, may still call (`UseDestroyed`): `encoder = "lost"`.

### Server: CamRTSPServer.cc, main.cc, MThread.cc, CamUnicastServerMediaSubsession.cc

`Server` extends `FramedSource` with the main thread from `AddTranscoder` to the
return of `main` (`stage`), the state of the encoding thread, and the clients'
sessions. The event loop is one thread: `Setup`, `Play`, `Pause` and `Teardown`
happen only between two callbacks of the source and never after the loop was
left. Each client's session has a replica, and the replicator asks the source
for a frame while one of them plays; when the replica that asked, or the last
one, stops, it calls `doStopGettingFrames` (`Deactivate`). live555's behaviour is
external: sessions in any order, and a replicator that outlives its replicas,
because the subsession is given one that was made with `deleteWhenLastReplicaDies`
false. `End` is `~CamRTSPServer`: streams one after the other, then the source,
then environment and transcoder.

`Start`, `Detach`, `Stopped` and `Destroyed` are MThread's methods as functions
of the state of `th`. The source's constructor starts the thread and then
detaches it (`StartThread`, `DetachThread`): in between it runs and could be
joined. `stopServer` has no caller in the program; the class offers
it, and the model calls it at any time while the loop runs.

### MmapDevice and Capture: libv4l2cc/

`MmapDevice` has an action for each ioctl and mmap of `start`, `readInternal`
and `stop`, and one for each iteration of their loops; each may fail, and goes
on as the code does. The driver's half (`Produce`, the queues, what is granted
and mapped) is external and does what the V4L2 calls promise: buffers are filled
in the order in which they were queued, STREAMOFF takes all of them back,
REQBUFS(0) is refused while something is mapped. `ret`, `got`, `lost` are
history. A driver may grant more buffers than it was asked for: `Overrun` is the
iteration in which the first loop of `start` has no element of `m_buffer` left,
and the end of what is followed.

`Capture` puts `V4l2Device::init` in front: capabilities, the current format,
the list of formats in order, width and height, the second query, the frame
rate. A size is represented by the dimensions in which it differs from the one
asked for; `complained` remembers that a difference was logged. Its steps before
the last are stutters of `MmapDevice`, whose `Open` and `OpenFails` are how they
end. The driver may refuse anything, take another format than the one it was
asked for, and answer SET-FMT with a wrong size.

### Candidates, QuickSort, PostProcess, Detections: postprocess.cc

`Candidates` is `process`, called for each output: one action per cell. Numbers
are counted in fractions of a quantum, so that the truncation and the clipping
in `qnt_f32_to_affine` are what they are in the code. `QuickSort` has one action
per step of the loops of `quick_sort_indice_inverse`, with the calls still to be
made on a stack. `PostProcess` is the rest of `post_process`: the sort as one
action, one iteration of the outer loop of `nms` per action, and the report. The
boxes' geometry is the set of pairs that overlap too much, any set of pairs;
`nms` looks the class up by rank and suppresses boxes of every class, as the
code does. `Detections` runs `QuickSort` in place of the single action and
implements `PostProcess`.

### ConfigReader and Settings: ini.c, INIReader.cc, the constructors

`ConfigReader` has one action per branch of the loop of `ini_parse_stream`, in
the order of the tests, with the compile-time switches this build uses:
continuation lines are taken, parsing does not stop at the first error.
`ValueHandler` joins the values of a key; a value is the sequence of texts it
was joined from. `Settings` is `GetInteger`, `GetBoolean` and three of the
settings, with the limits the constructors apply. The properties define what a
line means from the file as a whole, without the parser's state, and compare.
For the numbers the two differ in kind: the parser joins what the file gives for
a key, line after line, and `GetInteger` reads the number the result begins
with; `FirstIntegerCounts` looks for the first line that gives the key any text,
be it an indented `name =` that the parser takes for a continuation.
`GetInteger` returns a `long`, and the settings are `int`s: `ToInt` keeps the low
bits, for any width `IntMax` gives.

### Encoder, Labels and Startup: RkEncoder.cc, postprocess.cc, RkYolo.cc `Init`, transcoder.cc `init`

`Encoder` has one action per call of the media library whose failure the code
can meet, in `init` and in `encode`, and counts the objects alive. `Labels` is
the label table with its static flag under several workers: the test of the
flag, each line that is stored, and the setting of the flag are steps of their
own.

`Startup` extends `Settings`: after the constructors have read a file, `main`
creates the capture, the encoder, the pool and one `RkYolo` after the other, the
server and the source; then the encoding thread reads, dispatches and encodes
the first frames while workers load the labels and look names up. Every library
call on the way may fail, calls of `MaxFailures` kinds in a behaviour (`failed`),
and start-up goes on as the code does; a call that dereferences what a failure
left unset ends the process (`alive`). A failed `RkYolo::Init` leaves an object
that is `"unset"`, or is `"partial"` (without the attributes of its outputs), and
is used all the same; whether that ends the process is left open, since it
depends on what is in the memory. A size that the camera grants in place of the configured one is no
failure: `size` says how `getBufferSize()` compares with a picture of the
configured size, which the encoder's input buffer has room for and which
`Inference` reads and writes. A copy beyond a buffer (`Overruns`, and in `Infer`)
may end the process or not.

## Runs

| run | instance | what it shows |
|---|---|---|
| pool | 3 workers, 2 callers, 4 tasks | no lost wakeup, nobody asleep past `notify_all`, a drained shutdown, every accepted task is run, the destructor returns, `TaskPool` is implemented, with its fairness |
| pipeline | N = 3, 4 frames, no bound on inference | no `at()` throws, the slot encoded is that of the oldest frame, every dispatched frame is inferred |
| pipeline_paced | N = 4, 10 frames, Lag = 2 | exclusive use of an `RkYolo`, finished before encoding, the exact lifetime of an input buffer, the picture that is encoded |
| pipeline_comment | as pipeline | violation, see "Findings" |
| pipeline_badread | as pipeline | violation, see "Findings" |
| server | 2 clients, 5 packets, a server that may be stopped | no lost wakeup across the two threads, none twice, order kept while there is no backlog, how many packets a client leaves to the next, nobody uses what was closed but the detached thread, a waiting client is served, the server ends |
| source_comment | 4 packets | violation, see "Findings" |
| capture | 2 formats asked for, 3 buffers asked for and up to 4 granted, 4 frames, any width or height granted | `m_buffer` left only over a driver that grants too much, negotiated format and size, nothing forgotten in `start`, a buffer in one place, frames in order and once, nothing left after delete, frames go on |
| candidates | 2 outputs of 2 cells, 2 classes, 3 quantised values | vectors that agree, a cell at most once, what rounding the threshold may change |
| detections | 4 candidates, 3 confidences, 2 classes, room for 2 | the sort in steps, the suppression, the report, `PostProcess` is implemented |
| startup | every file of at most 3 lines over 2 sections, 4 names, 5 values; one kind of failure, any size granted, 2 frames, 2 workers, 2 classes, an int of 16 bits | the error that is kept, the place of every line, the number that is read, also when no int holds it; the process ends only for what failed, or was set, in the stage where it ends, and before a packet is sent if what failed is essential; names as in the file; what `encode` leaves behind; a first packet |
| settings_http | every file of at most 3 lines with a Boolean among its values | violation, see "Findings" |

### Why the bounds are enough

- *pool*: more tasks than workers, so that a backlog forms with every worker
  busy; more than one worker, so that `notify_one` can wake the wrong one; two
  callers, so that two notifications can be under way. The theorems lift the
  bounds for the safety part.
- *pipeline*: the list reaches its steady length at frame N, so that N + 1
  frames contain the filling, the first full and the first steady iteration.
  Pacing does not matter for this run's properties. N = 3 is the configured
  value.
- *pipeline_paced*: the interesting pattern of `bound` repeats every N frames
  after the first N; ten frames with N = 4 reach into the third round. Lag = 2
  is the largest value that `EncodedIsDue` covers for N = 4.
- *server*: a reordering needs two packets that wait together, a stale trigger a
  third, and a client who leaves and one who comes two more. With two clients
  one can leave while the other plays, be the one that is read for or not, and
  be the last.
- *capture*: with three buffers the loops have a first, a middle and a last
  iteration, and with more frames than buffers each one is filled again after it
  was read. A fourth buffer granted is the first one too many.
- *candidates*: thresholds that fall between two quanta below and above zero.
  The upper clip (a threshold beyond INT8_MAX) is not reached by the instance.
- *detections*: with four candidates the sort recurses on both sides and a
  suppressed box can itself have been about to suppress another; three
  confidences leave ties, two classes and room for two results leave both limits
  in reach.
- *startup*: a section, a setting and a continuation, or two settings and an
  error, in any order. What more lines add (a second continuation, a second
  section in between) is covered by the theorems `Parses` and `FirstCounts`,
  which hold of files of any length. With 16 bits TLC's integers can hold values
  that no int does: 65536 leaves 0 and 40000 a negative number. The theorems
  hold for any width, and of the limit of six RkYolos, which no value of the
  instance reaches. What follows a file depends on the numbers read from it
  only: there are none, one, two, the default of three and fewer than no RkYolos.
  One kind of failure reaches every exit of the initialisations; with two frames
  the encoder is called after an initialisation that failed and after a picture,
  and the first packet of two RkYolos is due with the last frame; three, which
  are more than the frames, are initialised and run, and their first packet is
  beyond the bound. Two workers are the least that can load the labels at once;
  two classes distinguish a name from its neighbour.

Runs set CHECK_DEADLOCK FALSE because in each of them the system, or the
instance with its bound on frames, packets or lines, comes to an end.

### Fairness

- *ThreadPool*: weak fairness for each worker's steps, each pending `notify_one`
  and the rest of a destructor that was entered: the operating system schedules
  threads and tasks return. None for `enqueue`, for entering the destructor or
  for spurious wakeups.
- *Pipeline*: workers start queued tasks and inferences end. None for the
  camera: it may never deliver another frame.
- *FramedSource*: the encoding thread finishes a hand-over it began, the loop
  finishes a callback and serves a raised trigger. None for further packets or
  for the client.
- *Server*: both threads run. `LeaveLoop` has strong fairness: the loop tests
  `watcher_` between any two of its steps, but whether it stands between two is
  not permanent while frames are delivered. None for clients, packets or
  `stopServer`. A call on an empty vector (finding 3) may end everything first,
  which `ServerEnds` names.
- *Startup*: `main` goes on, the camera delivers and the encoding thread is
  scheduled. None for the workers: no packet waits for them.
- *Capture*: a call of `create` and a destructor go on; the driver fills queued
  buffers; the reader comes back while the device is readable and not every
  VIDIOC_DQBUF fails. None for deleting the capture, which the program never
  does on its own.
- *Detections*: post_process is sequential and goes on.

## Findings

1. *The encoder does not wait for the inference* (run pipeline_comment). The
   comment at transcoder.cc:105 says of the line below it "Use the first output
   data to ensure that yolo is executed". No step waits; an inference that takes
   N - 1 frames or longer has not run, or is half written, when its output is
   encoded. `ExecutedBeforeEncode` and theorem `Executed` give the condition
   under which the comment holds: an inference that is over before the (N - 1)th
   frame after its own is captured (Lag < N).
2. *A failed read is encoded* (run pipeline_badread). The library's own example
   (libv4l2cc/test/test.cc:49) stops on -1; `TransCoder::run` passes -1 on as
   the number of bytes to encode.
3. *deliverData on an empty buffer* (run source_comment). CamFramedSource.cc:85
   says that afterGetting follows data that was got. A packet is visible before
   its trigger; taken by `doGetNextFrame` first, it leaves a trigger behind that
   finds the client waiting for the next one and nothing in the buffer.
4. *A misspelt key* (run settings_http). README.md:40 and configs/config.ini:20
   have `http_enable`; CamRTSPServer.cc:18 reads `http_ebable`.

One disagreement has no run of its own, since a property that holds states what
the code does: INIReader.h:55-56 promises the default for a value that is "not a
valid integer", and INIReader.cc:45 returns what `strtol` read as soon as it read
anything, whatever follows. Of `"1\n9"`, the joined text of a setting that is given
twice, 1 counts (`FirstIntegerCounts`, proved as `FirstCounts`).

Further observations, on which the documents of the repository say nothing:

- `EncodedIsDue` is weaker than "every frame is encoded". From frame N + 1 on
  the buffer of a frame served by slot 0 is freed in the iteration that enqueued
  it, that of slot s after s more (`InputLifetime`, proved as `BufferLifetime`).
  An inference that has not converted its input by then reads freed memory, even
  if it keeps up.
- `DeliveredInOrder` has a premise because `back()` takes the newest
  packet: two packets that wait together are delivered in the wrong order.
- `nms` drops boxes of other classes, and a box that a later call would itself
  have dropped can drop others first: `DroppedForBetter` compares with a better
  candidate, not with a reported one.
- `EndsWhereItFailed` lists ends that need no failed call: `rknn_thread` is
  limited from above only (0 throws in the first iteration of `run`, less than 0
  in the constructor of the pool, and a number that no int holds can become
  either); a camera that grants a smaller size than the configured one leaves
  buffers that `Inference` and the header overrun, one that grants a larger size
  overruns the encoder's; a label file with fewer lines than classes leaves null
  pointers for `strncpy`.
- `WithinBuffer`: a driver that grants more than V4L2MMAP_NBBUFFER buffers makes
  `start` write behind `m_buffer`.
- With a failure nearly every start-up goes on: a null capture is dereferenced
  at transcoder.cc:52, an encoder without its input buffer copies to null at
  RkEncoder.cc:132, and a half initialised `RkYolo` is given frames.
- `OnlyFramesPile` allows what the code leaves: one `MppFrame` per picture, a
  packet when its header is refused, and perhaps the encoder's configuration,
  which is released with the decoder's function (`mpp_dec_cfg_deinit`).
- `OutlivesItsUsers` excepts the encoding thread: it is detached, nothing ends
  it, and after `stopServer` it calls a callback that holds a closed source. The
  program itself never stops its server.

## Proofs

Each `...Proofs` module proves an inductive invariant `IInv` (theorem
`Invariance`; `SettingsProofs`, `StartupProofs` and the sort in
`DetectionsProofs` have names of their own for theirs) with one lemma per action
or group of actions and draws the properties from it. The assumptions are those
of the modules (`ThreadPoolAssumption`, `PipelineAssumption` and so on), which
TLC evaluates in the runs. Every invariant that a passing run checks is also a
theorem, for all values of the constants.

- **ThreadPoolProofs**: any finite non-empty set of workers, any finite set of
  callers, any tasks. `WakeupPerTask` balances cardinalities: taking a task
  removes an awake worker and a task at once, sleeping and leaving remove a
  worker only over an empty queue; `NoWakeupLost` joins to it that nobody sleeps
  through `notify_all`. `RunsOnce` and the refinement need that a
  worker holds a task exactly while it runs (`HeldShape`); that nobody sleeps
  again after the stop, and that nothing is accepted after it, depends on how
  the owner's position and `stop` agree (`StopShape`). `WakeupsKept` and `Drained`
  state the run's invariants, `Refinement` shows that
  every step is a step of `TaskPool` or a stutter; that a free worker is left
  whenever `Take` happens (`IdleWorker`) is counted with cardinalities.
- **PipelineProofs**: any N, MaxFrame, Lag. The list, the cursor and the pool
  advance together; `ListShape` says which frames' buffers are in the list,
  `CursorShape` where the cursor is modulo N, `YoloShape` and `BoundShape` which
  slot and which buffer each frame was given, `PoolShape` which tasks are
  outstanding, `Paced` what `Lag` means. All are linear in the number of the
  last frame; `SlotMod` supplies the one fact about `%`. From these: `NoThrow`,
  `EncodeOrder`, `BufferLifetime`, and with the pacing premise `Exclusive` and
  `Executed`. `EncodedDue` needs, beside all of it, what is in the buffers
  (`ImageInv`, for 2 * Lag <= N): the pointers an `RkYolo` holds are those of the
  last frame it served (`HandedShape`), what was read into a buffer stays there
  until its inference starts (`FilledShape`), an inference reads its own buffer or
  a freed one (`HeldShape`), and an output buffer shows the last frame it served
  (`OutShape`).
- **ServerProofs**: of `FramedSource`, any number of packets. `NoLostWakeup` is
  inductive with the type invariant; `DeliveredInOrder` needs that no packet is
  invented (`Accounting`) and that what waits is newer than what was delivered
  unless there was a backlog (`WaitingIsNewer`). `LeftBounded` needs that the
  encoder is at most one packet behind its test of the flag (`LeftOver`).
  Of `Server`, any set of clients: `UsesSource` shows that every step of it is
  one of `FramedSource` or leaves its variables alone, so that the source's
  theorems hold of the server (`ServerWakeupKept`, `ServerDelivery`,
  `ServerLeftBounded`). `Outlives` needs in addition which stages of the
  shut-down can still have sessions and when the thread can be there;
  `EndNeverWaits` is the half of `ServerEnds` that needs no fairness: the thread
  can be joined between start and detach, but from the loop on it is detached
  (`LetGo`), so that `stop()` and `~MThread`, which come later, return at once.
- **CaptureProofs**: any number of buffers and frames, any list of formats. Of
  `MmapDevice`: `Within` bounds every index into `m_buffer` for any grant;
  `Building` says how far each loop of `start` has come and what
  `success` then means, `Cleaning` what is left to undo in `stop`, `Waiting` that
  the images in the filled buffers are increasing and newer than what was
  returned. `UsesDevice` shows that `Capture` takes no step the device does not,
  so that all of this holds of the capture (`CaptureOfDevice`). `Negotiated` says
  what is known after each exchange of `init`, and gives `NegotiationHolds`
  (`FramesFit`).
- **CandidatesProofs**: any outputs, grids, classes, scales and zero points.
  `Collected` says of the cells the scan has passed which have an index, and that
  the vectors hold what the outputs hold there (`OneIndexPerCell`).
  `ThresholdHolds` rests on what truncation towards zero and the clipping do to a
  comparison (`Truncated`, `QuantizeIs`, `Reaches`, `Exceeds`), which are proved
  of the division they are written with.
- **DetectionsProofs**: any number of candidates, classes and places, any
  confidences. Of `PostProcess`: `Ranked`: suppression only removes;
  `Suppressed`: a box that is kept overlaps no kept box behind it once `nms` has
  come past it; `Sources` and `InRankOrder`: where each result came from;
  `Accounted` and `BestFirst`: what the report has covered. `Disjoint` rests on
  the observation that suppression goes over every class before the report
  begins. Of the sort: while a call runs one place is a hole that belongs to the
  key; `RangesApart`: no place is covered by two calls, made or to be made;
  `InOrder`: two places that no call has in common are in order; `Partition`: what
  the scans have left behind them; `PairedBeside`: the arrays agree everywhere but
  in the hole. `SortsCorrectly` states the run's invariant, `Refines` that the
  step-by-step sort implements `Sort`, `DetectionsHold` that what was proved of
  `PostProcess` therefore holds with it. `Progress` is the safety half of
  `Returns`: every step settles a place, leaves a call less, brings the scans
  together or counts up.
- **SettingsProofs**: files of any length. What the properties say of a line is
  restated as operators on a list of lines (`SectionIn`, `NameIn`, `Assigns`),
  with the lemma that it depends on the lines above only; each conjunct of
  `ReaderInv` then says that a variable of the parser is what those operators
  say (`SectionKept`, `NameKept`, `RecordsKept`, `ErrorKept`). `Parses` and
  `FirstCounts` follow without looking at the parser again. `ToInt` is opaque but
  in `IntIs`, so that `FirstCounts` holds for any width of int.
- **StartupProofs**: any configuration file, workers, classes, frames and
  failures. `ConfigInv` carries the invariant of `SettingsProofs` through the
  rest of the start-up (`StartupParses`, `StartupCounts`). `LabelInv`: a loader
  has stored the lines it has read, and whoever is
  past the load or finds the flag set finds every name the file has, which
  overlapping loads cannot disturb because they store the same names
  (`NamesHold`). `EncoderInv`: what is alive at each call of the library
  (`FramesPile`). `EndsHaveCauses` needs both the labels' invariant and
  `AliveInv`: the encoding thread starts when the list of `RkYolo`s has
  `rknnThread` elements (`InPlace`), which `ConfigInv` says is a number whatever
  the file says; a failure can be told from what it left, an `RkYolo` that is
  unset or a table that was cut (`Remembered`); and without its input buffer
  `encode` does not get beyond the frame (`BufferKept`). An end while starting
  has the stage's own cause (`EndsStarting`), one in the loop a cause that was
  there before it (`EndsLooping`).

Only model-checked: the liveness properties (`AcceptedIsRun`, `DestructorReturns`,
`Inferred`, `KeepsReading`, `Returns`, `AwaitedIsDelivered`, `ServerEnds`,
`FirstPacket`) and the fairness part of `ImplementsTaskPool`, which speak of
ENABLED and are out of the prover's reach. The statements of the four runs that
end in a violation are false, and TLC has the behaviours. Type correctness of
ThreadPool, FramedSource, Server, Pipeline, MmapDevice, Candidates and PostProcess
is proved and not among the runs' properties; `StartupTypeOK` is documentation of
the state.

## Abstractions

- Memory order is not modelled: threads interleave. `isCurrentlyAwaitingData()`
  reads a plain flag across threads, which the model gives the value of the
  moment. The static flag of the labels is a plain `int` as well: on the target,
  an aarch64 processor, a worker may see the flag set before the names, and
  `NamedAsInFile` does not cover that.
- An inference reads its input at one moment between `Begin` and `EndRead`, and
  a write to or the end of that buffer in between tears the image. Whether the
  pixels differ is not asked.
- A driver that grants buffers grants one at least. What `start` does after
  `Overrun` is not followed.
- The frame rate is not in `Capture`: no answer to it changes what follows.
- In `PostProcess` the overlap relation is chosen when `nms` first looks at it,
  since nothing before depends on it.
- A section's name, and the name a continuation belongs to, are copied into
  buffers of MAX_SECTION and MAX_NAME bytes (ini.c:25-26) and cut off after 49
  characters; names are shorter than that in `ConfigReader`.
- A `long` has any value in `Settings`: what `strtol` makes of a number beyond it
  is not asked. `ToInt` is the conversion to `int` that the compilers of the
  target define.
- Of the configured and the granted size `Startup` keeps how the bytes of the
  two compare, whatever the file says of width and height. That a failed read
  reaches the encoder is in `Pipeline`, not in `Startup`, where frames arrive.
- The header packet's own buffer (RkEncoder.cc:150) is there: its allocation
  does not fail in `Encoder`.
- Lines longer than INI_MAX_LINE, empty names and `ini_parse_string` are left
  out of `ConfigReader`. A comment or blank line is `Skip` whether or not it is
  indented.
- `main` and each constructor parse the same file. `Startup` parses it once and
  lets `main`'s refusal of a missing file (`NoConfigFile`) stand in front.
- The label file has at most as many lines as there are classes; `readLines`
  stops at that number.
- `Startup` takes the encoding thread's tasks in the order of their frames and
  leaves the buffers to `Pipeline`.
- Names, texts, sizes in bytes, pictures and log output are values without
  structure.

## Not modelled

| part | why |
|---|---|
| `V4l2Output`, `writeInternal`, partial writes | `V4l2Output::create` is declared (libv4l2cc/inc/V4l2Output.h:12) and nowhere defined, and the device's write methods are protected: no program that links can reach them. `endPartWrite` does not override `endPartialWrite`, and `start` maps nothing for a device of the output type |
| `V4l2ReadWriteDevice` | the program asks for IOTYPE_MMAP; `read` and `write` are passed on |
| `ini_parse_string`, `INIReader` from a buffer, `GetReal`, `HasSection` and the other getters | no caller |
| lines longer than INI_MAX_LINE | `fgets` cuts them; each piece is then a line, of which the model has every kind |
| `~RkEncoder`, `RkYolo::Destroy`, `deinitPostProcess` | no caller: the objects live as long as the process |
| `startCode3`, the packet's bytes | data: three or four bytes are cut off |
| box arithmetic, drawing, conversion of pictures, inference itself | arithmetic and libraries without control |
| logging, `announceStream` | formatting and output |
| headers of RGA and RKNN (thirdparty/rga, thirdparty/librknn_api) | declarations of other projects' libraries, of which the program calls a dozen functions; those are external actions of `Startup` and `Pipeline`. They are more than half of the lines outside of build files |

## Plan

Done, in this order: `ThreadPool` and `TaskPool`; `Pipeline` on `TaskPool`;
`FramedSource`; `MmapDevice`; `PostProcess`, `QuickSort`, `Detections`;
`Candidates`; `ConfigReader`, `Settings`; `Capture`, with width and height;
`Server` on `FramedSource`; `Labels`, `Encoder` and, with both, `Startup`.
Proofs of every component: the invariants of all passing runs, and both
refinements.

A new question replaces a weaker property or extends the instance of a module it
composes with, so that the set of runs stays one that is read and run as a
whole.

Next, theorems: type correctness of `Startup`; what is left of the other
liveness properties without fairness, as `Progress` is for `Returns` and
`EndNeverWaits` for `ServerEnds`: that the destructor of the pool has a step to
take, or waits for a worker that has one, and the same for a client of the server
that waits.
