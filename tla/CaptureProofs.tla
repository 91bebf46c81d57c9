---------------------------- MODULE CaptureProofs ----------------------------
(***************************************************************************)
(* What is proved of MmapDevice for any number of buffers and frames, then *)
(* of Capture, which adds the negotiation, for any driver.                 *)
(***************************************************************************)
EXTENDS Capture, TLAPS

\* The kernel's mappings are those of m_buffer from index `first` on.
MapsFrom(first) ==
    mapped = {b \in first..(nBuffers - 1) : addr[b] = "mapped"}

\* Inside create: what each loop has done so far.
Building ==
    /\ pc \in Starting => ~streaming /\ filled = <<>> /\ got = NoFrame
    /\ pc \in {"open", "reqbufs"} =>
           nBuffers = 0 /\ granted = 0 /\ mapped = {} /\ queued = <<>> /\ lost = {}
    /\ pc = "map" =>
           nBuffers < granted /\ queued = <<>> /\ lost = {}
    /\ pc \in {"map", "queue", "streamon"} =>
           /\ fd = "device"
           /\ MapsFrom(0)
           /\ success => \A b \in 0..(nBuffers - 1) : addr[b] = "mapped"
    /\ pc \in {"queue", "streamon"} =>
           /\ nBuffers = granted
           /\ IsInjective(queued)
           /\ Range(queued) \cup lost = 0..(todo - 1)
           /\ Range(queued) \cap lost = {}
    /\ pc = "queue" => todo < nBuffers
    /\ pc = "streamon" => todo = nBuffers

\* Inside the destructor: what is left to undo.
Cleaning ==
    /\ pc \in {"streamoff", "unmap"} => nBuffers = granted
    /\ pc = "streamoff" => MapsFrom(0)
    /\ pc = "unmap" => todo < nBuffers /\ MapsFrom(todo)
    /\ pc \in {"unmap", "release", "close"} => ~streaming
    /\ pc \in {"release", "close"} => mapped = {}
    /\ pc = "close" => granted = 0

\* Frames wait in the order in which they will be returned.
Waiting ==
    /\ got <= seq
    /\ pc \in Reading =>
           /\ \A j \in 1..Len(filled) :
                  got < image[filled[j]] /\ image[filled[j]] <= seq
           /\ \A j, k \in 1..Len(filled) :
                  j < k => image[filled[j]] < image[filled[k]]
    /\ pc \in {"copy", "requeue"} =>
           /\ got < image[held] /\ image[held] <= seq
           /\ \A j \in 1..Len(filled) : image[held] < image[filled[j]]
    /\ pc = "requeue" => copy = image[held]

IInv ==
    /\ TypeOK
    /\ WithinBuffer
    /\ Building
    /\ HandedOutWhole
    /\ EachBufferOnce
    /\ Waiting
    /\ Cleaning
    /\ NothingLeft

-----------------------------------------------------------------------------
(* Sequences without duplicates.                                           *)

LEMMA AppendIs ==
    ASSUME NEW T, NEW s \in Seq(T), NEW e \in T
    PROVE  /\ Len(s) \in Nat /\ Len(Append(s, e)) = Len(s) + 1
           /\ Append(s, e)[Len(s) + 1] = e
           /\ \A j \in 1..Len(s) : Append(s, e)[j] = s[j]
  OBVIOUS

LEMMA AppendOne ==
    ASSUME NEW S, NEW s \in Seq(S), NEW e \in S
    PROVE  /\ Append(s, e) \in Seq(S)
           /\ Range(Append(s, e)) = Range(s) \cup {e}
           /\ IsInjective(s) /\ e \notin Range(s) => IsInjective(Append(s, e))
  <1>1. /\ Append(s, e) \in Seq(S)
        /\ DOMAIN Append(s, e) = 1..(Len(s) + 1)
        /\ DOMAIN s = 1..Len(s)
        /\ Len(s) \in Nat
        /\ \A i \in 1..Len(s) : Append(s, e)[i] = s[i]
        /\ Append(s, e)[Len(s) + 1] = e
    OBVIOUS
  <1>2. Range(Append(s, e)) = Range(s) \cup {e}
    BY <1>1 DEF Range
  <1>3. ASSUME IsInjective(s), e \notin Range(s) PROVE IsInjective(Append(s, e))
    BY <1>1, <1>3 DEF IsInjective, Range
  <1> QED
    BY <1>1, <1>2, <1>3

LEMMA TakeFirst ==
    ASSUME NEW S, NEW s \in Seq(S), s # <<>>
    PROVE  /\ Head(s) \in S
           /\ Tail(s) \in Seq(S)
           /\ Range(s) = Range(Tail(s)) \cup {Head(s)}
           /\ IsInjective(s) => IsInjective(Tail(s)) /\ Head(s) \notin Range(Tail(s))
  <1>1. /\ Tail(s) \in Seq(S)
        /\ DOMAIN Tail(s) = 1..(Len(s) - 1)
        /\ DOMAIN s = 1..Len(s)
        /\ Len(s) \in Nat /\ Len(s) > 0
        /\ \A i \in 1..(Len(s) - 1) : Tail(s)[i] = s[i + 1]
        /\ Head(s) = s[1] /\ s[1] \in S
    OBVIOUS
  <1>2. Range(s) = Range(Tail(s)) \cup {Head(s)}
    <2>1. ASSUME NEW i \in 1..Len(s) PROVE s[i] \in Range(Tail(s)) \cup {Head(s)}
      <3>1. CASE i = 1
        BY <1>1, <3>1
      <3>2. CASE i # 1
        <4>1. i - 1 \in 1..(Len(s) - 1) /\ (i - 1) + 1 = i
          BY <1>1, <3>2
        <4>2. Tail(s)[i - 1] = s[i]
          BY <1>1, <4>1
        <4> QED
          BY <1>1, <4>1, <4>2 DEF Range
      <3> QED
        BY <3>1, <3>2
    <2>2. Range(s) \subseteq Range(Tail(s)) \cup {Head(s)}
      BY <1>1, <2>1 DEF Range
    <2>3. Range(Tail(s)) \cup {Head(s)} \subseteq Range(s)
      BY <1>1 DEF Range
    <2> QED
      BY <2>2, <2>3
  <1>3. ASSUME IsInjective(s)
        PROVE  IsInjective(Tail(s)) /\ Head(s) \notin Range(Tail(s))
    BY <1>1, <1>3 DEF IsInjective, Range
  <1> QED
    BY <1>1, <1>2, <1>3

-----------------------------------------------------------------------------
(* Creation.                                                               *)

LEMMA InitInv == Init => IInv
  <1> SUFFICES ASSUME Init PROVE IInv
    OBVIOUS
  <1> USE MmapAssumption DEF MmapAssumption
  <1>1. TypeOK
    <2>1. success \in BOOLEAN /\ streaming \in BOOLEAN
      BY Zenon DEF Init
    <2> QED
      BY <2>1 DEF Init, TypeOK, PC, Starting, Files, Indices, NoFrame, Addresses
  <1>2. Building
    BY DEF Init, Building, NoFrame
  <1>3. /\ WithinBuffer /\ HandedOutWhole /\ EachBufferOnce /\ Waiting /\ Cleaning
        /\ NothingLeft
    BY DEF Init, WithinBuffer, HandedOutWhole, EachBufferOnce, Waiting, Cleaning, NothingLeft,
           Reading, NoFrame
  <1> QED
    BY <1>1, <1>2, <1>3 DEF IInv

\* Outside the reading loop only Building and Cleaning say something.
LEMMA NotReading ==
    ASSUME TypeOK', WithinBuffer', Building', Cleaning', pc' \notin Reading, pc' # "gone",
           got' <= seq'
    PROVE  IInv'
  BY DEF IInv, HandedOutWhole, EachBufferOnce, Waiting, NothingLeft, Reading

\* The loop goes on behind the end only if there is more to map.
LEMMA OverrunInv == IInv /\ Overrun => IInv'
  <1> SUFFICES ASSUME IInv, Overrun PROVE IInv'
    OBVIOUS
  <1> USE DEF Overrun, startVars, readVars, memVars, streamVars
  <1>1. TypeOK'
    BY DEF IInv, TypeOK, PC
  <1>2. WithinBuffer'
    BY MmapAssumption DEF MmapAssumption, IInv, TypeOK, WithinBuffer, Building
  <1>3. Building' /\ Cleaning'
    BY DEF Building, Cleaning, Starting
  <1> QED
    BY <1>1, <1>2, <1>3, NotReading DEF IInv, Waiting, Reading

LEMMA OpenFailsInv == IInv /\ OpenFails => IInv'
  <1> SUFFICES ASSUME IInv, OpenFails PROVE IInv'
    OBVIOUS
  <1> USE DEF OpenFails, startVars, readVars, memVars, streamVars
  <1>1. TypeOK'
    BY DEF IInv, TypeOK, PC, Stopping
  <1>2. Building' /\ Cleaning'
    BY DEF IInv, TypeOK, Building, Cleaning, MapsFrom, Starting
  <1>3. WithinBuffer'
    BY MmapAssumption DEF MmapAssumption, IInv, WithinBuffer, Building, TypeOK
  <1> QED
    BY <1>1, <1>2, <1>3, NotReading DEF IInv, Waiting, Reading

LEMMA OpenInv == IInv /\ Open => IInv'
  <1> SUFFICES ASSUME IInv, Open PROVE IInv'
    OBVIOUS
  <1> USE DEF Open, startVars, readVars, memVars, streamVars
  <1>1. TypeOK'
    BY DEF IInv, TypeOK, PC, Starting, Files
  <1>2. Building' /\ Cleaning'
    BY DEF IInv, TypeOK, Building, Cleaning, Starting
  <1>3. WithinBuffer'
    BY MmapAssumption DEF MmapAssumption, IInv, WithinBuffer, Building, TypeOK
  <1> QED
    BY <1>1, <1>2, <1>3, NotReading DEF IInv, Waiting, Reading

LEMMA ReqBufsFailsInv == IInv /\ ReqBufsFails => IInv'
  <1> SUFFICES ASSUME IInv, ReqBufsFails PROVE IInv'
    OBVIOUS
  <1> USE DEF ReqBufsFails, readVars, memVars, streamVars
  <1>1. TypeOK'
    BY DEF IInv, TypeOK, PC, Stopping
  <1>2. Building' /\ Cleaning'
    BY DEF IInv, TypeOK, Building, Cleaning, MapsFrom, Starting
  <1>3. WithinBuffer'
    BY MmapAssumption DEF MmapAssumption, IInv, WithinBuffer, Building, TypeOK
  <1> QED
    BY <1>1, <1>2, <1>3, NotReading DEF IInv, Waiting, Reading

LEMMA ReqBufsInv == IInv /\ ReqBufs => IInv'
  <1> SUFFICES ASSUME IInv, ReqBufs PROVE IInv'
    OBVIOUS
  <1> USE MmapAssumption DEF MmapAssumption, ReqBufs, readVars, streamVars
  <1>1. TypeOK'
    BY DEF IInv, TypeOK, PC, Starting, Indices, Addresses
  <1>2. Building' /\ Cleaning'
    BY DEF IInv, TypeOK, Building, Cleaning, MapsFrom, Starting
  <1>3. WithinBuffer'
    BY DEF WithinBuffer
  <1> QED
    BY <1>1, <1>2, <1>3, NotReading DEF IInv, Waiting, Reading

LEMMA MapBufferInv ==
    ASSUME NEW result \in Addresses
    PROVE  IInv /\ MapBuffer(result) => IInv'
  <1> SUFFICES ASSUME IInv, MapBuffer(result) PROVE IInv'
    OBVIOUS
  <1> USE MmapAssumption DEF MmapAssumption, MapBuffer, readVars, streamVars
  <1>1. /\ nBuffers \in Indices /\ nBuffers + 1 \in 0..NbBuffer
        /\ nBuffers < granted /\ MapsFrom(0)
    BY DEF IInv, TypeOK, Building, Indices
  <1>2. TypeOK'
    <2>1. success' \in BOOLEAN
      BY Zenon
    <2> QED
      BY <1>1, <2>1 DEF IInv, TypeOK, PC, Starting, Indices
  <1>3. MapsFrom(0)'
    BY <1>1 DEF IInv, TypeOK, MapsFrom, Indices
  <1>4. success' => \A b \in 0..nBuffers : addr'[b] = "mapped"
    <2>1. ASSUME success' PROVE success /\ result = "mapped"
      BY Zenon, <2>1
    <2> QED
      BY <1>1, <2>1 DEF IInv, TypeOK, Building, Indices
  <1>5. IsInjective(queued') /\ Range(queued') = {} /\ lost' = {}
    BY DEF IInv, Building, IsInjective, Range
  <1>6. Building' /\ Cleaning'
    BY <1>1, <1>3, <1>4, <1>5 DEF IInv, TypeOK, Building, Cleaning, Starting, Indices
  <1>7. WithinBuffer'
    BY <1>1 DEF IInv, TypeOK, WithinBuffer, Indices
  <1> QED
    BY <1>2, <1>6, <1>7, NotReading DEF IInv, Waiting, Reading

LEMMA QueueBufferInv ==
    ASSUME NEW ok \in BOOLEAN
    PROVE  IInv /\ QueueBuffer(ok) => IInv'
  <1> SUFFICES ASSUME IInv, QueueBuffer(ok) PROVE IInv'
    OBVIOUS
  <1> USE MmapAssumption DEF MmapAssumption, QueueBuffer, readVars, memVars
  <1>1. /\ todo \in Indices /\ todo \in Nat
        /\ todo < nBuffers /\ todo + 1 \in 0..NbBuffer
        /\ queued \in Seq(Indices)
    BY DEF IInv, TypeOK, Building, Indices
  <1>2. todo \notin Range(queued) /\ todo \notin lost
    BY <1>1 DEF IInv, Building
  <1>3. /\ Append(queued, todo) \in Seq(Indices)
        /\ Range(Append(queued, todo)) = Range(queued) \cup {todo}
        /\ IsInjective(Append(queued, todo))
    BY <1>1, <1>2, AppendOne DEF IInv, Building
  <1>4. TypeOK'
    <2>1. success' \in BOOLEAN
      BY Zenon
    <2> QED
      BY <1>1, <1>3, <2>1 DEF IInv, TypeOK, PC, Starting
  <1>5. /\ IsInjective(queued')
        /\ Range(queued') \cup lost' = (Range(queued) \cup lost) \cup {todo}
        /\ Range(queued') \cap lost' = {}
    BY <1>2, <1>3 DEF IInv, Building
  <1>6. Range(queued') \cup lost' = 0..(todo' - 1)
    BY <1>1, <1>5 DEF IInv, Building
  <1>7. success' => success
    BY Zenon
  <1>8. Building' /\ Cleaning'
    BY <1>1, <1>5, <1>6, <1>7 DEF IInv, TypeOK, Building, Cleaning, MapsFrom, Starting
  <1>9. WithinBuffer'
    BY DEF IInv, WithinBuffer
  <1> QED
    BY <1>4, <1>8, <1>9, NotReading DEF IInv, Waiting, Reading

LEMMA StreamOnInv ==
    ASSUME NEW ok \in BOOLEAN
    PROVE  IInv /\ StreamOn(ok) => IInv'
  <1> SUFFICES ASSUME IInv, StreamOn(ok) PROVE IInv'
    OBVIOUS
  <1> USE MmapAssumption DEF MmapAssumption, StreamOn, readVars, memVars
  <1>1. success' \in BOOLEAN /\ streaming' \in BOOLEAN
    BY Zenon
  <1>2. TypeOK'
    BY <1>1 DEF IInv, TypeOK, PC, Stopping, Reading
  <1>3. MapsFrom(0)' /\ nBuffers' = granted' /\ got' <= seq'
    BY DEF IInv, Building, MapsFrom, Waiting
  <1>4. WithinBuffer'
    BY DEF IInv, WithinBuffer
  <1>5. CASE ~success'
    <2>1. pc' = "streamoff"
      BY <1>5
    <2>2. Building' /\ Cleaning'
      BY <1>3, <2>1 DEF Building, Cleaning, Starting
    <2> QED
      BY <1>2, <1>3, <1>4, <2>1, <2>2, NotReading DEF Reading
  <1>6. CASE success'
    <2>1. pc' = "ready" /\ pc = "streamon"
      BY <1>6
    <2>2. success /\ streaming'
      BY Zenon, <1>6
    <2>3. HandedOutWhole'
      <3>1. \A b \in 0..(granted - 1) : addr[b] = "mapped"
        BY <2>1, <2>2 DEF IInv, Building
      <3>2. mapped = 0..(granted - 1)
        BY <2>1, <3>1 DEF IInv, Building, MapsFrom
      <3>3. fd' = "device"
        BY <2>1 DEF IInv, Building
      <3> QED
        BY <1>3, <2>2, <3>1, <3>2, <3>3 DEF HandedOutWhole
    <2>4. EachBufferOnce'
      <3>1. IsInjective(filled) /\ Range(filled) = {}
        BY <2>1 DEF IInv, Building, Starting, IsInjective, Range
      <3>2. todo = granted
        BY <2>1 DEF IInv, Building
      <3> QED
        BY <2>1, <3>1, <3>2 DEF IInv, Building, EachBufferOnce, Busy
    <2>5. Building' /\ Cleaning' /\ Waiting' /\ NothingLeft'
      BY <1>3, <2>1 DEF IInv, Building, Cleaning, Waiting, NothingLeft, Starting, Reading
    <2> QED
      BY <1>2, <1>4, <2>3, <2>4, <2>5 DEF IInv
  <1> QED
    BY <1>1, <1>5, <1>6

-----------------------------------------------------------------------------
(* The driver and the reader.                                              *)

LEMMA ProduceInv == IInv /\ Produce => IInv'
  <1> SUFFICES ASSUME IInv, Produce PROVE IInv'
    OBVIOUS
  <1> DEFINE b == Head(queued)
  <1> USE MmapAssumption DEF MmapAssumption, Produce, startVars, readVars, memVars
  <1>1. /\ queued \in Seq(Indices) /\ filled \in Seq(Indices)
        /\ seq \in Nat /\ got \in Nat /\ image \in [Indices -> Nat]
        /\ held \in Indices
    BY DEF IInv, TypeOK, Frames, NoFrame
  <1>2. /\ b \in Indices /\ Tail(queued) \in Seq(Indices)
        /\ Range(queued) = Range(Tail(queued)) \cup {b}
        /\ IsInjective(queued) =>
               IsInjective(Tail(queued)) /\ b \notin Range(Tail(queued))
    BY <1>1, TakeFirst
  <1>3. /\ Append(filled, b) \in Seq(Indices)
        /\ Range(Append(filled, b)) = Range(filled) \cup {b}
        /\ IsInjective(filled) /\ b \notin Range(filled)
               => IsInjective(Append(filled, b))
    BY <1>1, <1>2, AppendOne
  <1>4. TypeOK'
    <2>1. seq + 1 \in Frames /\ seq' \in 0..MaxFrame
      BY DEF IInv, TypeOK, Frames
    <2>2. image' \in [Indices -> Frames \cup {NoFrame}]
      BY <1>2, <2>1 DEF IInv, TypeOK
    <2> QED
      BY <1>2, <1>3, <2>1, <2>2 DEF IInv, TypeOK
  <1>5. pc \notin Starting
    BY DEF IInv, Building
  <1>6. Building' /\ Cleaning' /\ NothingLeft'
    BY <1>5 DEF IInv, Building, Cleaning, NothingLeft, MapsFrom, Starting
  <1>7. WithinBuffer' /\ HandedOutWhole'
    BY DEF IInv, WithinBuffer, HandedOutWhole
  <1>8. CASE pc \in Reading
    <2>1. /\ IsInjective(queued) /\ IsInjective(filled)
          /\ b \notin Range(filled) /\ b \notin Busy
      BY <1>2, <1>8 DEF IInv, EachBufferOnce
    <2>2. Busy' = Busy
      BY DEF Busy
    <2>3. EachBufferOnce'
      BY <1>2, <1>3, <1>8, <2>1, <2>2 DEF IInv, EachBufferOnce
    <2>4. /\ Len(filled') = Len(filled) + 1 /\ Len(filled) \in Nat
          /\ filled'[Len(filled) + 1] = b
          /\ \A j \in 1..Len(filled) : filled'[j] = filled[j]
      <3>1. filled' = Append(filled, b) /\ filled \in Seq(Indices) /\ b \in Indices
        BY <1>1, <1>2
      <3> HIDE DEF b
      <3> QED
        BY <3>1, AppendIs
    <2>5. \A j \in 1..Len(filled) : image'[filled[j]] = image[filled[j]]
      <3>1. \A j \in 1..Len(filled) : filled[j] \in Indices /\ filled[j] \in Range(filled)
        <4>1. filled \in Seq(Indices)
          BY <1>1
        <4> QED
          BY <4>1 DEF Range
      <3>2. \A x \in Indices : x # b => image'[x] = image[x]
        BY <1>1
      <3> QED
        BY <2>1, <3>1, <3>2
    <2>6. image'[b] = seq + 1
      BY <1>1, <1>2
    <2>7. \A j \in 1..Len(filled) : image[filled[j]] \in Nat
      BY <1>1
    <2>8. pc \in {"copy", "requeue"} => image'[held] = image[held]
      BY <1>1, <2>1 DEF Busy
    <2>9. \A j \in 1..Len(filled') :
             got' < image'[filled'[j]] /\ image'[filled'[j]] <= seq'
      <3>1. /\ got' = got /\ seq' = seq + 1
            /\ got \in Int /\ seq \in Int /\ got <= seq
        BY <1>1, <1>8 DEF IInv, Waiting
      <3>2. ASSUME NEW j \in 1..Len(filled)
            PROVE  got' < image'[filled'[j]] /\ image'[filled'[j]] <= seq'
        <4>1. got < image[filled[j]] /\ image[filled[j]] <= seq
          BY <1>8 DEF IInv, Waiting
        <4>2. image'[filled'[j]] = image[filled[j]] /\ image[filled[j]] \in Nat
          BY <2>4, <2>5, <2>7
        <4> QED
          BY <3>1, <4>1, <4>2
      <3>3. image'[filled'[Len(filled) + 1]] = seq + 1
        BY <2>4, <2>6
      <3> QED
        BY <2>4, <3>1, <3>2, <3>3
    <2>10. \A j, k \in 1..Len(filled') :
              j < k => image'[filled'[j]] < image'[filled'[k]]
      <3> SUFFICES ASSUME NEW j \in 1..Len(filled'), NEW k \in 1..Len(filled'), j < k
                   PROVE  image'[filled'[j]] < image'[filled'[k]]
        OBVIOUS
      <3>1. j \in 1..Len(filled)
        BY <2>4
      <3>2. image'[filled'[j]] = image[filled[j]] /\ image[filled[j]] <= seq
        BY <1>8, <2>4, <2>5, <3>1 DEF IInv, Waiting
      <3>3. CASE k \in 1..Len(filled)
        BY <1>8, <2>4, <2>5, <3>1, <3>3 DEF IInv, Waiting
      <3>4. CASE k = Len(filled) + 1
        <4>1. image'[filled'[k]] = seq + 1
          BY <2>4, <2>6, <3>4
        <4>2. image[filled[j]] < seq + 1
          <5>1. image[filled[j]] \in Nat /\ seq \in Nat
            BY <1>1, <2>7, <3>1
          <5> QED
            BY <5>1, <3>2
        <4>3. image'[filled'[j]] < seq + 1
          BY <3>2, <4>2
        <4> QED
          BY <4>1, <4>3
      <3>5. k \in 1..Len(filled) \/ k = Len(filled) + 1
        BY <2>4
      <3> QED
        BY Zenon, <3>3, <3>4, <3>5
    <2>11. image[held] \in Nat
      BY <1>1
    <2>12. ASSUME pc \in {"copy", "requeue"}
           PROVE  /\ got' < image'[held'] /\ image'[held'] <= seq'
                  /\ \A j \in 1..Len(filled') : image'[held'] < image'[filled'[j]]
      <3>1. /\ got' = got /\ seq' = seq + 1 /\ held' = held /\ image'[held] = image[held]
            /\ got \in Int /\ seq \in Int
        BY <1>1, <2>8, <2>12
      <3>2. /\ got < image[held] /\ image[held] <= seq
            /\ \A j \in 1..Len(filled) : image[held] < image[filled[j]]
        BY <2>12 DEF IInv, Waiting
      <3>3. ASSUME NEW j \in 1..Len(filled') PROVE image'[held'] < image'[filled'[j]]
        <4>1. CASE j \in 1..Len(filled)
          <5>1. image'[filled'[j]] = image[filled[j]]
            BY <2>4, <2>5, <4>1
          <5> QED
            BY <3>1, <3>2, <4>1, <5>1
        <4>2. CASE j = Len(filled) + 1
          <5>1. image'[filled'[j]] = seq + 1
            BY <2>4, <2>6, <4>2
          <5> QED
            BY <2>11, <3>1, <3>2, <5>1
        <4> QED
          BY <2>4, <4>1, <4>2
      <3> QED
        BY <2>11, <3>1, <3>2, <3>3
    <2>13. Waiting'
      <3>1. got' <= seq'
        BY <1>1 DEF IInv, Waiting
      <3>2. pc' = "requeue" => copy' = image'[held']
        BY <2>8 DEF IInv, Waiting
      <3> QED
        BY <2>9, <2>10, <2>12, <3>1, <3>2 DEF Waiting
    <2> QED
      BY <1>4, <1>6, <1>7, <2>3, <2>13 DEF IInv
  <1>9. CASE pc \notin Reading
    <2>1. EachBufferOnce' /\ Waiting'
      BY <1>1, <1>9 DEF IInv, EachBufferOnce, Waiting, Reading
    <2> QED
      BY <1>4, <1>6, <1>7, <2>1 DEF IInv
  <1> QED
    BY <1>8, <1>9

LEMMA DequeueInv == IInv /\ Dequeue => IInv'
  <1> SUFFICES ASSUME IInv, Dequeue PROVE IInv'
    OBVIOUS
  <1> DEFINE b == Head(filled)
  <1> USE MmapAssumption DEF MmapAssumption, Dequeue, startVars, memVars
  <1>1. /\ filled \in Seq(Indices) /\ seq \in Nat /\ got \in Nat
        /\ image \in [Indices -> Nat]
    BY DEF IInv, TypeOK, Frames, NoFrame
  <1>2. /\ b \in Indices /\ Tail(filled) \in Seq(Indices)
        /\ Range(filled) = Range(Tail(filled)) \cup {b}
        /\ IsInjective(filled) =>
               IsInjective(Tail(filled)) /\ b \notin Range(Tail(filled))
    BY <1>1, TakeFirst
  <1>3. TypeOK'
    BY <1>2 DEF IInv, TypeOK, PC, Reading
  <1>4. Building' /\ Cleaning' /\ NothingLeft' /\ WithinBuffer' /\ HandedOutWhole'
    BY DEF IInv, WithinBuffer, Building, Cleaning, NothingLeft, HandedOutWhole, Starting, Reading
  <1>5. EachBufferOnce'
    <2>1. Busy = {} /\ Busy' = {b}
      BY DEF Busy
    <2>2. pc \in Reading /\ pc' \in Reading
      BY DEF Reading
    <2> QED
      BY <1>2, <2>1, <2>2 DEF IInv, EachBufferOnce
  <1>6. Waiting'
    <2>1. /\ Len(filled) \in Nat /\ Len(filled) > 0 /\ b = filled[1]
          /\ Len(filled') = Len(filled) - 1
          /\ \A j \in 1..Len(filled') : filled'[j] = filled[j + 1]
      BY <1>1
    <2>2. \A j \in 1..Len(filled) : image[filled[j]] \in Nat
      BY <1>1
    <2>3. /\ \A j \in 1..Len(filled) :
                got < image[filled[j]] /\ image[filled[j]] <= seq
          /\ \A j, k \in 1..Len(filled) :
                j < k => image[filled[j]] < image[filled[k]]
      BY DEF IInv, Waiting, Reading
    <2>4. \A j \in 1..Len(filled') :
             got < image[filled'[j]] /\ image[filled'[j]] <= seq
      BY <2>1, <2>2, <2>3
    <2>5. \A j, k \in 1..Len(filled') :
             j < k => image[filled'[j]] < image[filled'[k]]
      BY <2>1, <2>2, <2>3
    <2>6. /\ got < image[b] /\ image[b] <= seq
          /\ \A j \in 1..Len(filled') : image[b] < image[filled'[j]]
      BY <2>1, <2>2, <2>3
    <2> QED
      BY <2>4, <2>5, <2>6 DEF IInv, Waiting
  <1> QED
    BY <1>3, <1>4, <1>5, <1>6 DEF IInv

LEMMA DequeueFailsInv == IInv /\ DequeueFails => IInv'
  <1> SUFFICES ASSUME IInv, DequeueFails PROVE IInv'
    OBVIOUS
  <1> USE DEF DequeueFails, startVars, memVars, streamVars
  <1>1. TypeOK'
    BY DEF IInv, TypeOK
  <1>2. Building' /\ Cleaning' /\ NothingLeft' /\ HandedOutWhole' /\ Waiting'
    BY DEF IInv, Building, Cleaning, NothingLeft, HandedOutWhole, Waiting, MapsFrom
  <1>3. EachBufferOnce'
    BY DEF IInv, EachBufferOnce, Busy
  <1>4. WithinBuffer'
    BY DEF IInv, WithinBuffer
  <1> QED
    BY <1>1, <1>2, <1>3, <1>4 DEF IInv

LEMMA CopyInv == IInv /\ Copy => IInv'
  <1> SUFFICES ASSUME IInv, Copy PROVE IInv'
    OBVIOUS
  <1> USE DEF Copy, startVars, memVars, streamVars
  <1>1. TypeOK'
    BY DEF IInv, TypeOK, PC, Reading
  <1>2. Building' /\ Cleaning' /\ NothingLeft' /\ HandedOutWhole' /\ Waiting'
    BY DEF IInv, Building, Cleaning, NothingLeft, HandedOutWhole, Waiting,
           Starting, Reading
  <1>3. EachBufferOnce'
    BY DEF IInv, EachBufferOnce, Busy, Reading
  <1>4. WithinBuffer'
    BY DEF IInv, WithinBuffer
  <1> QED
    BY <1>1, <1>2, <1>3, <1>4 DEF IInv

LEMMA RequeueInv == IInv /\ Requeue => IInv'
  <1> SUFFICES ASSUME IInv, Requeue PROVE IInv'
    OBVIOUS
  <1> USE DEF Requeue, startVars, memVars
  <1>1. queued \in Seq(Indices) /\ held \in Indices
    BY DEF IInv, TypeOK
  <1>2. /\ Append(queued, held) \in Seq(Indices)
        /\ Range(Append(queued, held)) = Range(queued) \cup {held}
        /\ IsInjective(queued) /\ held \notin Range(queued)
               => IsInjective(Append(queued, held))
    BY <1>1, AppendOne
  <1>3. TypeOK'
    BY <1>2 DEF IInv, TypeOK, PC, Reading
  <1>4. Building' /\ Cleaning' /\ NothingLeft' /\ HandedOutWhole' /\ Waiting'
    BY DEF IInv, TypeOK, Building, Cleaning, NothingLeft, HandedOutWhole, Waiting,
           Starting, Reading
  <1>5. EachBufferOnce'
    <2>1. Busy = {held} /\ Busy' = {}
      BY DEF Busy
    <2>2. pc \in Reading /\ pc' \in Reading
      BY DEF Reading
    <2> QED
      BY <1>2, <2>1, <2>2 DEF IInv, EachBufferOnce
  <1>6. WithinBuffer'
    BY DEF IInv, WithinBuffer
  <1> QED
    BY <1>3, <1>4, <1>5, <1>6 DEF IInv

LEMMA RequeueFailsInv == IInv /\ RequeueFails => IInv'
  <1> SUFFICES ASSUME IInv, RequeueFails PROVE IInv'
    OBVIOUS
  <1> USE DEF RequeueFails, startVars, memVars, streamVars
  <1>1. TypeOK'
    BY DEF IInv, TypeOK, PC, Reading
  <1>2. Building' /\ Cleaning' /\ NothingLeft' /\ HandedOutWhole' /\ Waiting'
    BY DEF IInv, TypeOK, Building, Cleaning, NothingLeft, HandedOutWhole, Waiting,
           Starting, Reading
  <1>3. EachBufferOnce'
    <2>1. Busy = {held} /\ Busy' = {}
      BY DEF Busy
    <2>2. pc \in Reading /\ pc' \in Reading
      BY DEF Reading
    <2> QED
      BY <2>1, <2>2 DEF IInv, EachBufferOnce
  <1>4. WithinBuffer'
    BY DEF IInv, WithinBuffer
  <1> QED
    BY <1>1, <1>2, <1>3, <1>4 DEF IInv

-----------------------------------------------------------------------------
(* Destruction.                                                            *)

LEMMA DeleteInv == IInv /\ Delete => IInv'
  <1> SUFFICES ASSUME IInv, Delete PROVE IInv'
    OBVIOUS
  <1> USE DEF Delete, startVars, readVars, memVars, streamVars
  <1>1. TypeOK'
    BY DEF IInv, TypeOK, PC, Stopping
  <1>2. MapsFrom(0)'
    BY DEF IInv, HandedOutWhole, MapsFrom, Reading
  <1>3. Building' /\ Cleaning'
    BY <1>2 DEF IInv, Building, Cleaning, HandedOutWhole, Starting, Reading
  <1>4. WithinBuffer'
    BY DEF IInv, WithinBuffer
  <1> QED
    BY <1>1, <1>3, <1>4, NotReading DEF IInv, Waiting, Reading

LEMMA StreamOffInv == IInv /\ StreamOff => IInv'
  <1> SUFFICES ASSUME IInv, StreamOff PROVE IInv'
    OBVIOUS
  <1>1. /\ pc = "streamoff"
        /\ streaming' = FALSE /\ queued' = <<>> /\ filled' = <<>> /\ todo' = 0
        /\ pc' \in {"release", "unmap"}
        /\ pc' = "release" <=> nBuffers = 0
        /\ UNCHANGED <<fd, success, nBuffers, addr, held, copy, got, ret>>
        /\ UNCHANGED <<granted, mapped, image, seq, lost>>
    BY DEF StreamOff, readVars, memVars
  <1>2. TypeOK'
    <2>1. pc' \in PC /\ todo' \in 0..NbBuffer
      BY <1>1, MmapAssumption DEF MmapAssumption, PC, Stopping
    <2>2. queued' \in Seq(Indices) /\ filled' \in Seq(Indices)
      BY <1>1
    <2>3. streaming' \in BOOLEAN
      BY Zenon, <1>1
    <2> QED
      BY <1>1, <2>1, <2>2, <2>3 DEF IInv, TypeOK
  <1>3. MapsFrom(0) /\ nBuffers = granted /\ (nBuffers = 0 => mapped = {})
    BY <1>1 DEF IInv, Cleaning, MapsFrom
  <1>4. Building' /\ Cleaning'
    BY <1>1, <1>3 DEF IInv, TypeOK, Building, Cleaning, MapsFrom, Starting
  <1>5. WithinBuffer'
    BY <1>1 DEF IInv, WithinBuffer
  <1> QED
    BY <1>1, <1>2, <1>4, <1>5, NotReading DEF IInv, Waiting, Reading

LEMMA UnmapInv == IInv /\ Unmap => IInv'
  <1> SUFFICES ASSUME IInv, Unmap PROVE IInv'
    OBVIOUS
  <1> USE MmapAssumption DEF MmapAssumption, Unmap, readVars, streamVars
  <1>1. /\ todo < nBuffers /\ todo \in Nat /\ nBuffers \in Nat
        /\ nBuffers <= NbBuffer /\ mapped \subseteq Indices
    BY DEF IInv, TypeOK, Cleaning, Indices
  <1>2. TypeOK'
    BY <1>1 DEF IInv, TypeOK, PC, Stopping
  <1>3. mapped' = {b \in (todo + 1)..(nBuffers - 1) : addr[b] = "mapped"}
    BY <1>1 DEF IInv, Cleaning, MapsFrom
  <1>4. todo + 1 = nBuffers => mapped' = {}
    BY <1>1, <1>3
  <1>5. Building' /\ Cleaning'
    BY <1>1, <1>3, <1>4 DEF IInv, Building, Cleaning, MapsFrom, Starting
  <1>6. WithinBuffer'
    BY DEF IInv, WithinBuffer
  <1> QED
    BY <1>2, <1>5, <1>6, NotReading DEF IInv, Waiting, Reading

LEMMA ReleaseInv == IInv /\ Release => IInv'
  <1> SUFFICES ASSUME IInv, Release PROVE IInv'
    OBVIOUS
  <1> USE MmapAssumption DEF MmapAssumption, readVars, streamVars
  <1>1. /\ mapped = {} /\ pc' = "close" /\ granted' = 0 /\ nBuffers' = 0
        /\ UNCHANGED <<fd, success, addr, todo, readVars, mapped, streamVars, lost>>
    BY Zenon DEF IInv, Cleaning, Release
  <1>2. TypeOK'
    BY <1>1 DEF IInv, TypeOK, PC, Stopping
  <1>3. Building' /\ Cleaning'
    <2>1. ~streaming
      BY DEF IInv, Cleaning, Release
    <2> QED
      BY <1>1, <2>1 DEF Building, Cleaning, Starting
  <1>4. WithinBuffer'
    BY <1>1, MmapAssumption DEF MmapAssumption, WithinBuffer
  <1> QED
    BY <1>1, <1>2, <1>3, <1>4, NotReading DEF IInv, Waiting, Reading

LEMMA CloseInv == IInv /\ Close => IInv'
  <1> SUFFICES ASSUME IInv, Close PROVE IInv'
    OBVIOUS
  <1> USE DEF Close, startVars, readVars, memVars, streamVars
  <1>1. TypeOK'
    BY DEF IInv, TypeOK, PC, Files
  <1>2. Building' /\ Cleaning' /\ NothingLeft'
    BY DEF IInv, Building, Cleaning, NothingLeft, Starting
  <1>3. WithinBuffer' /\ HandedOutWhole' /\ EachBufferOnce' /\ Waiting'
    BY DEF IInv, WithinBuffer, HandedOutWhole, EachBufferOnce, Waiting, Reading
  <1> QED
    BY <1>1, <1>2, <1>3 DEF IInv

-----------------------------------------------------------------------------
\* Every reachable state satisfies the inductive invariant.
THEOREM Invariance == Spec => []IInv
  <1>1. IInv /\ [Next]_vars => IInv'
    <2> SUFFICES ASSUME IInv, [Next]_vars PROVE IInv'
      OBVIOUS
    <2>1. CASE Create
      BY <2>1, OpenFailsInv, OpenInv, ReqBufsFailsInv, ReqBufsInv, MapBufferInv,
         OverrunInv, QueueBufferInv, StreamOnInv DEF Create, Start
    <2>2. CASE Produce
      BY <2>2, ProduceInv
    <2>3. CASE Read
      BY <2>3, DequeueInv, CopyInv, RequeueInv, RequeueFailsInv DEF Read
    <2>4. CASE DequeueFails
      BY <2>4, DequeueFailsInv
    <2>5. CASE Delete
      BY <2>5, DeleteInv
    <2>6. CASE Destroy
      BY <2>6, StreamOffInv, UnmapInv, ReleaseInv, CloseInv DEF Destroy
    <2>7. CASE UNCHANGED vars
      <3> USE <2>7 DEF vars, startVars, readVars, memVars, streamVars
      <3>1. TypeOK' /\ WithinBuffer'
        BY DEF IInv, TypeOK, WithinBuffer
      <3>2. Building' /\ Cleaning' /\ NothingLeft' /\ HandedOutWhole' /\ Waiting'
        BY DEF IInv, Building, Cleaning, NothingLeft, HandedOutWhole, Waiting, MapsFrom
      <3>3. EachBufferOnce'
        BY DEF IInv, EachBufferOnce, Busy
      <3> QED
        BY <3>1, <3>2, <3>3 DEF IInv
    <2> QED
      BY <2>1, <2>2, <2>3, <2>4, <2>5, <2>6, <2>7 DEF Next
  <1> QED
    BY <1>1, InitInv, PTL DEF Spec

\* Type correctness.
THEOREM Typed == Spec => []TypeOK
  <1>1. IInv => TypeOK
    BY DEF IInv
  <1> QED
    BY <1>1, Invariance, PTL

\* m_buffer is left over a driver that grants more buffers than it was asked
\* for, in the first loop of start(), and over no other driver.
THEOREM Within == Spec => []WithinBuffer
  <1>1. IInv => WithinBuffer
    BY DEF IInv
  <1> QED
    BY <1>1, Invariance, PTL

\* A capture that was handed out has all its buffers and streams, whichever
\* calls of start() may fail.
THEOREM HandedOut == Spec => []HandedOutWhole
  <1>1. IInv => HandedOutWhole
    BY DEF IInv
  <1> QED
    BY <1>1, Invariance, PTL

\* The reader and the driver never hold the same buffer, and a buffer is out
\* of the exchange only after a failed VIDIOC_QBUF.
THEOREM Conserved == Spec => []EachBufferOnce
  <1>1. IInv => EachBufferOnce
    BY DEF IInv
  <1> QED
    BY <1>1, Invariance, PTL

\* Frames come out in the order of the driver, each at most once.
THEOREM Forward == Spec => []ReadsForward
  <1>1. IInv => ReadsForward
    BY DEF IInv, Waiting, ReadsForward
  <1> QED
    BY <1>1, Invariance, PTL

\* A deleted device leaves nothing behind, whatever failed before.
THEOREM Clean == Spec => []NothingLeft
  <1>1. IInv => NothingLeft
    BY DEF IInv
  <1> QED
    BY <1>1, Invariance, PTL

-----------------------------------------------------------------------------
(***************************************************************************)
(* The negotiation.  Capture is MmapDevice with the ways in which Open and *)
(* OpenFails come about, so everything above holds of it as well.          *)
(***************************************************************************)

\* Every step of the capture with its negotiation is one of the device, or
\* leaves it alone.
THEOREM UsesDevice == CaptureSpec => Spec
  <1>1. CaptureInit => Init
    BY DEF CaptureInit
  <1>2. [CaptureNext]_captureVars => [Next]_vars
    <2> SUFFICES ASSUME CaptureNext \/ UNCHANGED captureVars, ~UNCHANGED vars
                 PROVE  Next
      OBVIOUS
    <2>1. CASE Negotiate
      BY <2>1 DEF Negotiate, NotADevice, OpenDevice, HasCapabilities, Query,
                  FormatRefused, SetFormat, QueryAgain, SetRate, Refused, Goto,
                  Next, Create
    <2>2. CASE Start \/ Produce \/ Read \/ DequeueFails \/ Delete \/ Destroy
      BY <2>2 DEF Next, Create
    <2>3. CASE UNCHANGED captureVars
      BY <2>3 DEF captureVars
    <2> QED
      BY <2>1, <2>2, <2>3 DEF CaptureNext
  <1> QED
    BY <1>1, <1>2, PTL DEF CaptureSpec, Spec

\* The properties of the device, of the capture that TransCoder creates.
THEOREM CaptureOfDevice ==
    CaptureSpec => /\ []WithinBuffer
                   /\ []HandedOutWhole
                   /\ []EachBufferOnce
                   /\ []ReadsForward
                   /\ []NothingLeft
  BY UsesDevice, Within, HandedOut, Conserved, Forward, Clean, PTL

\* What holds from the call that set the format on.
Agreed ==
    /\ format = current
    /\ FormatList # <<>> => format = FormatList[tried + 1]
    /\ area = picture
    /\ area = {} \/ complained

\* A device that was opened as one has been through the whole negotiation.
Negotiated ==
    /\ pc = "open" => fd = "none"
    /\ fd = "device" => step = "rate"
    /\ step \in {"requery", "rate"} => Agreed
    /\ step = "rate" => believed \/ bufferSize = SizeOf[current]

\* After the negotiation nothing it has found out changes.
LEMMA AgreementKept ==
    ASSUME Negotiated, UNCHANGED <<negotiation, driver, past>>,
           pc' = "open" => fd' = "none",
           fd' = "device" => step = "rate"
    PROVE  Negotiated'
  BY DEF Negotiated, Agreed, negotiation, answers, driver, past

LEMMA NegotiateStep == Negotiated /\ Negotiate => Negotiated'
  <1> SUFFICES ASSUME Negotiated, Negotiate PROVE Negotiated'
    OBVIOUS
  <1> USE DEF vars
  <1>1. CASE NotADevice \/ SetRate \/ Refused
    <2>1. /\ UNCHANGED <<negotiation, driver, past>>
          /\ pc' # "open"
          /\ fd' = "device" => step = "rate" \/ fd = "device"
      BY <1>1 DEF NotADevice, SetRate, Refused, Open, OpenFails, At
    <2> QED
      BY <2>1, AgreementKept DEF Negotiated
  <1>2. CASE OpenDevice \/ HasCapabilities \/ (\E ok \in BOOLEAN : Query(ok)) \/ FormatRefused
    <2>1. /\ pc = "open" /\ UNCHANGED <<pc, fd>>
          /\ step' \in {"capabilities", "query", "format"}
      BY <1>2 DEF OpenDevice, HasCapabilities, Query, FormatRefused, At, Goto
    <2> QED
      BY <2>1 DEF Negotiated
  <1>3. ASSUME NEW size \in AnySize, NEW wrong \in Wrong, SetFormat(size, wrong)
        PROVE  Negotiated'
    <2>1. /\ pc = "open" /\ UNCHANGED <<pc, fd>> /\ step' = "requery"
          /\ tried < Len(List) /\ tried' = tried
          /\ current' = Candidate /\ format' = Candidate
          /\ picture' = wrong /\ area' = wrong
      BY <1>3 DEF SetFormat, At, Goto
    <2>2. area' = {} \/ complained'
      BY Zenon, <1>3 DEF SetFormat
    <2>3. FormatList # <<>> => Candidate = FormatList[tried + 1]
      BY DEF Candidate, List
    <2> QED
      BY <2>1, <2>2, <2>3 DEF Negotiated, Agreed
  <1>4. ASSUME NEW ok \in BOOLEAN, QueryAgain(ok)
        PROVE  Negotiated'
    <2>1. /\ pc = "open" /\ UNCHANGED <<pc, fd, tried, current, picture, complained>>
          /\ step = "requery" /\ step' = "rate"
      BY <1>4 DEF QueryAgain, At, Goto, driver
    <2>2. Agreed
      BY <2>1 DEF Negotiated
    <2>3. CASE ok
      <3>1. format' = current /\ bufferSize' = SizeOf[current] /\ area' = picture
        BY <1>4, <2>3 DEF QueryAgain, QueryFormat
      <3> QED
        BY <2>1, <2>2, <3>1 DEF Negotiated, Agreed
    <2>4. CASE ~ok
      <3>1. UNCHANGED answers /\ believed'
        BY Zenon, <1>4, <2>4 DEF QueryAgain, QueryFormat
      <3> QED
        BY <2>1, <2>2, <3>1 DEF Negotiated, Agreed, answers
    <2> QED
      BY <2>3, <2>4
  <1> QED
    BY <1>1, <1>2, <1>3, <1>4 DEF Negotiate

LEMMA NegotiatedNext == Negotiated /\ [CaptureNext]_captureVars => Negotiated'
  <1> SUFFICES ASSUME Negotiated, [CaptureNext]_captureVars PROVE Negotiated'
    OBVIOUS
  <1>1. CASE Negotiate
    BY <1>1, NegotiateStep
  <1>2. CASE /\ Start \/ Produce \/ Read \/ DequeueFails \/ Delete \/ Destroy
             /\ UNCHANGED <<negotiation, driver, past>>
    <2>1. pc' # "open" \/ UNCHANGED <<pc, fd>>
      BY <1>2 DEF Start, ReqBufsFails, ReqBufs, MapBuffer, Overrun, QueueBuffer, StreamOn,
                  Produce, Read, Dequeue, Copy, Requeue, RequeueFails,
                  DequeueFails, Delete, Destroy, StreamOff, Unmap, Release, Close
    <2>2. fd' = fd \/ fd' = "none"
      BY <1>2 DEF Start, ReqBufsFails, ReqBufs, MapBuffer, Overrun, QueueBuffer, StreamOn,
                  Produce, Read, Dequeue, Copy, Requeue, RequeueFails,
                  DequeueFails, Delete, Destroy, StreamOff, Unmap, Release, Close
    <2> QED
      BY <1>2, <2>1, <2>2, AgreementKept DEF Negotiated
  <1>3. CASE UNCHANGED captureVars
    BY <1>3, AgreementKept DEF captureVars, vars, Negotiated
  <1> QED
    BY <1>1, <1>2, <1>3 DEF CaptureNext

\* Whatever the driver answers, on a capture that was handed out the driver
\* uses the format and the size the capture says, the format is the one of the
\* list the capture stopped at, a size nobody asked for has been complained
\* about, and the size of a frame is the driver's own.
THEOREM NegotiationHolds == CaptureSpec => []FramesFit
  <1>1. CaptureInit => Negotiated
    BY DEF CaptureInit, Init, Negotiated
  <1>2. CaptureSpec => []Negotiated
    BY <1>1, NegotiatedNext, PTL DEF CaptureSpec
  <1>3. Negotiated /\ HandedOutWhole => FramesFit
    BY DEF Negotiated, Agreed, HandedOutWhole, FramesFit
  <1> QED
    BY <1>2, <1>3, CaptureOfDevice, PTL

=============================================================================
