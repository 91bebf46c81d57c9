---------------------------- MODULE ServerProofs ----------------------------
(***************************************************************************)
(* What is proved of FramedSource for any number of packets, then of       *)
(* Server for any clients: its source is used as FramedSource says, so     *)
(* that all of it holds in the server, and the source outlives its users.  *)
(***************************************************************************)
EXTENDS Server, Integers, SequenceTheorems, TLAPS

(***************************************************************************)
(* The source.                                                             *)
(***************************************************************************)

\* The packets handed over before the one onEncodedData is working on.
Before == IF encoder = "push" THEN produced - 1 ELSE produced

\* What is stored or delivered was handed over, and never more than that.
Accounting ==
    /\ \A i \in 1..Len(buffer) : buffer[i] <= Before
    /\ \A i \in 1..Len(delivered) : delivered[i] <= Before
    /\ Len(buffer) + Len(delivered) <= Before
    /\ Len(buffer) <= backlog

\* With no backlog the packet that waits is newer than all that were sent.
WaitingIsNewer ==
    backlog <= 1 =>
        \A i \in 1..Len(delivered), j \in 1..Len(buffer) : delivered[i] < buffer[j]

\* A packet that may still be stored although nobody waits is the one that
\* onEncodedData holds.
LeftOver ==
    ~awaiting => Len(buffer) <= left + (IF encoder = "push" THEN 0 ELSE 1)

IInv ==
    /\ TypeOK
    /\ Accounting
    /\ LeftOver
    /\ NoLostWakeup
    /\ AtMostOnce
    /\ WaitingIsNewer
    /\ InOrderWithoutBacklog

Order == AtMostOnce /\ WaitingIsNewer /\ InOrderWithoutBacklog

LEMMA InitInv == Init => IInv
  <1> SUFFICES ASSUME Init PROVE IInv
    OBVIOUS
  <1> USE FramedSourceAssumption DEF FramedSourceAssumption
  <1>1. TypeOK
    <2>1. awaiting \in BOOLEAN /\ pending \in BOOLEAN
      BY Zenon DEF Init
    <2>2. buffer \in Seq(Packets) /\ delivered \in Seq(Packets)
      BY DEF Init
    <2> QED
      BY <2>1, <2>2 DEF Init, TypeOK, LoopPC, EncoderPC
  <1>2. Accounting /\ LeftOver
    BY DEF Init, Accounting, LeftOver, Before
  <1>3. NoLostWakeup
    BY DEF Init, NoLostWakeup
  <1>4. AtMostOnce /\ WaitingIsNewer /\ InOrderWithoutBacklog
    BY DEF Init, AtMostOnce, WaitingIsNewer, InOrderWithoutBacklog
  <1> QED
    BY <1>1, <1>2, <1>3, <1>4 DEF IInv

\* A step that moves no packet keeps the order properties.
LEMMA OrderKept ==
    ASSUME IInv, UNCHANGED <<buffer, delivered, backlog>>
    PROVE  Order'
  BY DEF IInv, Order, AtMostOnce, WaitingIsNewer, InOrderWithoutBacklog

LEMMA OnEncodedDataInv == IInv /\ OnEncodedData => IInv'
  <1> SUFFICES ASSUME IInv, OnEncodedData PROVE IInv'
    OBVIOUS
  <1> USE FramedSourceAssumption DEF FramedSourceAssumption
  <1>1. TypeOK'
    BY DEF IInv, TypeOK, OnEncodedData, EncoderPC
  <1>2. Before' \in {Before, Before + 1} /\ Before \in Int
    BY DEF IInv, TypeOK, OnEncodedData, Before
  <1>3. Accounting'
    <2>1. Accounting /\ UNCHANGED <<buffer, delivered, backlog>>
      BY DEF IInv, OnEncodedData
    <2>2. /\ \A j \in 1..Len(buffer) : buffer[j] \in Int
          /\ \A j \in 1..Len(delivered) : delivered[j] \in Int
          /\ Len(buffer) + Len(delivered) \in Int
      BY DEF IInv, TypeOK, Packets
    <2>3. Before \in Int /\ Before' \in Int /\ Before <= Before'
      BY <1>2
    <2> QED
      BY <2>1, <2>2, <2>3 DEF Accounting
  <1>4. NoLostWakeup'
    BY DEF IInv, NoLostWakeup, OnEncodedData
  <1>5. LeftOver'
    BY DEF IInv, LeftOver, OnEncodedData
  <1> QED
    BY <1>1, <1>3, <1>4, <1>5, OrderKept DEF IInv, Order, OnEncodedData

LEMMA PushInv == IInv /\ Push => IInv'
  <1> SUFFICES ASSUME IInv, Push PROVE IInv'
    OBVIOUS
  <1> USE FramedSourceAssumption DEF FramedSourceAssumption
  <1>1. /\ encoder = "push" /\ encoder' = "trigger"
        /\ buffer' = Append(buffer, produced)
        /\ backlog' = IF Len(buffer') > backlog THEN Len(buffer') ELSE backlog
        /\ UNCHANGED <<awaiting, pending, produced, loop, delivered, left>>
    BY DEF Push
  <1>2. /\ produced \in 0..MaxPacket /\ Before = produced - 1 /\ Before' = produced
        /\ buffer \in Seq(Packets) /\ Len(buffer) \in Nat
        /\ delivered \in Seq(Packets) /\ Len(delivered) \in Nat
        /\ backlog \in Nat
    BY <1>1 DEF IInv, TypeOK, Before
  <1>3. /\ Len(buffer) + Len(delivered) <= produced - 1
        /\ produced \in Packets
    BY <1>2 DEF IInv, Accounting, Packets
  <1>4. /\ buffer' \in Seq(Packets)
        /\ Len(buffer') = Len(buffer) + 1
        /\ \A i \in 1..Len(buffer) : buffer'[i] = buffer[i]
        /\ buffer'[Len(buffer')] = produced
    BY <1>1, <1>2, <1>3
  <1>5. \A i \in 1..Len(buffer') : i \in 1..Len(buffer) \/ i = Len(buffer')
    BY <1>2, <1>4
  <1>6. /\ \A i \in 1..Len(buffer) : buffer[i] \in Int /\ buffer[i] < produced
        /\ \A i \in 1..Len(delivered) : delivered[i] \in Int /\ delivered[i] < produced
    <2>1. /\ \A i \in 1..Len(buffer) : buffer[i] <= produced - 1
          /\ \A i \in 1..Len(delivered) : delivered[i] <= produced - 1
      BY <1>2 DEF IInv, Accounting
    <2>2. /\ \A i \in 1..Len(buffer) : buffer[i] \in Int
          /\ \A i \in 1..Len(delivered) : delivered[i] \in Int
      BY <1>2, FramedSourceAssumption DEF Packets, FramedSourceAssumption
    <2> QED
      BY <1>2, <2>1, <2>2
  <1>7. TypeOK'
    BY <1>1, <1>2, <1>3, <1>4 DEF IInv, TypeOK, EncoderPC
  <1>8. Accounting'
    BY <1>1, <1>2, <1>3, <1>4, <1>5, <1>6 DEF IInv, Accounting
  <1>9. NoLostWakeup'
    BY <1>1 DEF NoLostWakeup
  <1>10. AtMostOnce'
    <2>1. \A i \in 1..Len(delivered'), j \in 1..Len(buffer') : delivered'[i] # buffer'[j]
      BY <1>1, <1>4, <1>5, <1>6 DEF IInv, AtMostOnce
    <2>2. \A i, j \in 1..Len(buffer') : i < j => buffer'[i] < buffer'[j]
      BY <1>2, <1>4, <1>5, <1>6 DEF IInv, AtMostOnce
    <2> QED
      BY <2>1, <2>2, <1>1 DEF IInv, AtMostOnce
  <1>11. backlog' <= 1 => backlog <= 1
    BY <1>1, <1>2, <1>4
  <1>12. WaitingIsNewer' /\ InOrderWithoutBacklog'
    BY <1>1, <1>4, <1>5, <1>6, <1>11 DEF IInv, WaitingIsNewer, InOrderWithoutBacklog
  <1>13. LeftOver'
    BY <1>1, <1>2, <1>4 DEF IInv, TypeOK, LeftOver
  <1> QED
    BY <1>7, <1>8, <1>9, <1>10, <1>12, <1>13 DEF IInv

LEMMA PopInv == IInv /\ Pop => IInv'
  <1> SUFFICES ASSUME IInv, Pop PROVE IInv'
    OBVIOUS
  <1> USE FramedSourceAssumption DEF FramedSourceAssumption
  <1>1. /\ loop = "pop" /\ loop' \in {"after", "undefined"}
        /\ UNCHANGED <<awaiting, pending, encoder, produced, backlog, left>>
    BY DEF Pop
  <1>2. NoLostWakeup'
    BY <1>1 DEF NoLostWakeup
  <1>3. Before' = Before /\ Before \in Int
    BY <1>1 DEF Before, IInv, TypeOK
  <1>4. CASE buffer = <<>>
    <2>1. UNCHANGED <<buffer, delivered>>
      BY <1>4 DEF Pop
    <2>2. TypeOK' /\ Accounting' /\ LeftOver'
      BY <2>1, <1>1, <1>3 DEF IInv, TypeOK, Accounting, LeftOver, LoopPC
    <2> QED
      BY <2>1, <2>2, <1>1, <1>2, OrderKept DEF IInv, Order
  <1>5. CASE buffer # <<>>
    <2> DEFINE n == Len(buffer)
               d == Len(delivered)
    <2>1. /\ buffer' = Front(buffer) /\ delivered' = Append(delivered, Last(buffer))
          /\ buffer \in Seq(Packets) /\ n \in Nat \ {0}
          /\ delivered \in Seq(Packets) /\ d \in Nat
      BY <1>5 DEF Pop, IInv, TypeOK
    <2>2. /\ buffer' \in Seq(Packets) /\ Len(buffer') = n - 1
          /\ \A i \in 1..(n - 1) : buffer'[i] = buffer[i]
      <3>1. \A i \in 1..(n - 1) : buffer[i] \in Packets
        BY <2>1
      <3>2. 1 \in Int /\ n - 1 \in Int /\ (n - 1) - 1 + 1 = n - 1
        BY <2>1
      <3>3. /\ SubSeq(buffer, 1, n - 1) \in Seq(Packets)
            /\ Len(SubSeq(buffer, 1, n - 1)) = n - 1
            /\ \A i \in 1..(n - 1) : SubSeq(buffer, 1, n - 1)[i] = buffer[1 + i - 1]
        BY <3>1, <3>2, <2>1, SubSeqProperties
      <3> QED
        BY <2>1, <3>3 DEF Front
    <2>3. /\ buffer[n] \in Packets
          /\ delivered' \in Seq(Packets) /\ Len(delivered') = d + 1
          /\ \A i \in 1..d : delivered'[i] = delivered[i]
          /\ delivered'[d + 1] = buffer[n]
      BY <2>1 DEF Last
    <2>4. TypeOK'
      BY <2>2, <2>3, <1>1 DEF IInv, TypeOK, LoopPC
    <2>5. \A i \in 1..Len(delivered') : i \in 1..d \/ i = d + 1
      BY <2>1, <2>3
    <2>6. Accounting'
      BY <1>1, <1>3, <2>1, <2>2, <2>3, <2>5 DEF IInv, TypeOK, Accounting
    <2>7. \A i \in 1..(n - 1) : buffer[i] < buffer[n] /\ buffer[i] \in Int /\ buffer[n] \in Int
      <3> TAKE i \in 1..(n - 1)
      <3>1. i \in 1..n /\ n \in 1..n /\ i < n
        BY <2>1
      <3>2. buffer[i] \in Packets /\ buffer[n] \in Packets
        BY <2>1, <3>1
      <3> QED
        BY <3>1, <3>2 DEF IInv, AtMostOnce, Packets
    <2>8. AtMostOnce'
      <3>1. \A i, j \in 1..Len(delivered') : delivered'[i] = delivered'[j] => i = j
        <4>1. \A i \in 1..d : delivered[i] # buffer[n]
          BY <2>1 DEF IInv, AtMostOnce
        <4> QED
          BY <4>1, <2>1, <2>3, <2>5 DEF IInv, AtMostOnce
      <3>2. \A i \in 1..Len(delivered'), j \in 1..Len(buffer') : delivered'[i] # buffer'[j]
        BY <2>1, <2>2, <2>3, <2>5, <2>7 DEF IInv, AtMostOnce
      <3>3. \A i, j \in 1..Len(buffer') : i < j => buffer'[i] < buffer'[j]
        BY <2>1, <2>2 DEF IInv, AtMostOnce
      <3> QED
        BY <3>1, <3>2, <3>3 DEF AtMostOnce
    <2>9. backlog <= 1 => n = 1
      <3>1. backlog \in Int /\ n <= backlog
        BY DEF IInv, TypeOK, Accounting
      <3>2. n \in Int /\ n >= 1
        BY <2>1
      <3> HIDE DEF n
      <3> QED
        BY <3>1, <3>2
    <2>10. WaitingIsNewer'
      <3>1. backlog' = backlog /\ (backlog <= 1 => Len(buffer') = 0)
        BY <1>1, <2>2, <2>9
      <3> QED
        BY <3>1 DEF WaitingIsNewer
    <2>11. InOrderWithoutBacklog'
      <3> SUFFICES ASSUME backlog <= 1,
                          NEW i \in 1..Len(delivered'), NEW j \in 1..Len(delivered'),
                          i < j
                   PROVE  delivered'[i] < delivered'[j]
        BY <1>1 DEF InOrderWithoutBacklog
      <3>1. i \in 1..d
        BY <2>1, <2>3
      <3>2. CASE j = d + 1
        BY <3>1, <3>2, <2>1, <2>3 DEF IInv, WaitingIsNewer
      <3>3. CASE j \in 1..d
        BY <3>1, <3>3, <2>3 DEF IInv, InOrderWithoutBacklog
      <3> QED
        BY <3>2, <3>3, <2>5
    <2>12. LeftOver'
      BY <1>1, <2>1, <2>2 DEF IInv, TypeOK, LeftOver
    <2> QED
      BY <1>2, <2>4, <2>6, <2>8, <2>10, <2>11, <2>12 DEF IInv
  <1> QED
    BY <1>4, <1>5

\* The other steps move no packet.
LEMMA ControlInv ==
    ASSUME IInv,
           \/ Trigger \/ GetNextFrame \/ DoGetNextFrame \/ DeliverFrame0
           \/ AfterGetting \/ StopGettingFrames \/ UNCHANGED vars
    PROVE  IInv'
  <1> USE DEF Trigger, GetNextFrame, DoGetNextFrame, DeliverFrame0,
              AfterGetting, StopGettingFrames, vars
  <1>1. UNCHANGED <<buffer, delivered, backlog, produced>> /\ Before' = Before
    BY DEF Before
  <1>2. pending' \in BOOLEAN /\ awaiting' \in BOOLEAN
    BY Zenon DEF IInv, TypeOK
  <1>3. encoder' \in EncoderPC /\ loop' \in LoopPC
    BY DEF IInv, TypeOK, LoopPC, EncoderPC
  <1>4. Len(buffer) \in 0..MaxPacket
    <2>1. Len(buffer) \in Nat /\ Len(delivered) \in Nat
      BY DEF IInv, TypeOK
    <2>2. Before <= produced
      BY DEF IInv, TypeOK, Before
    <2> QED
      BY <2>1, <2>2, FramedSourceAssumption
      DEF IInv, TypeOK, Accounting, FramedSourceAssumption, Before
  <1>5. left' \in {left, Len(buffer)}
    BY DEF IInv
  <1>6. TypeOK'
    BY <1>1, <1>2, <1>3, <1>4, <1>5 DEF IInv, TypeOK
  <1>7. LeftOver'
    <2>1. \/ left' = Len(buffer)
          \/ awaiting'
          \/ awaiting' = awaiting /\ left' = left /\ (encoder' = "push" <=> encoder = "push")
          \/ ~awaiting /\ ~awaiting' /\ left' = left /\ encoder' = encoder
      BY DEF IInv, TypeOK
    <2>2. Len(buffer) \in Int /\ left \in Int /\ Len(buffer') = Len(buffer)
      BY <1>1, <1>4 DEF IInv, TypeOK
    <2>3. ~awaiting => Len(buffer) <= left + (IF encoder = "push" THEN 0 ELSE 1)
      BY DEF IInv, LeftOver
    <2> QED
      BY <2>1, <2>2, <2>3 DEF LeftOver
  <1>8. Accounting'
    BY <1>1 DEF IInv, Accounting
  <1>9. NoLostWakeup'
    BY DEF IInv, NoLostWakeup
  <1> QED
    BY <1>1, <1>6, <1>7, <1>8, <1>9, OrderKept DEF IInv, Order

\* The destructor, and whatever the callback does after it.
LEMMA ClosedInv ==
    ASSUME IInv, Close \/ UseDestroyed
    PROVE  IInv'
  <1> USE FramedSourceAssumption DEF FramedSourceAssumption
  <1>1. /\ buffer' \in {buffer, <<>>} /\ loop' = "closed"
        /\ UNCHANGED <<awaiting, produced, delivered, backlog, left>>
    BY DEF Close, UseDestroyed
  <1>2. pending' \in BOOLEAN
    BY Zenon DEF IInv, TypeOK, Close, UseDestroyed
  <1>3. encoder' \in EncoderPC /\ (encoder' = "push" => encoder = "push" /\ buffer' = <<>>)
    BY DEF IInv, TypeOK, EncoderPC, Close, UseDestroyed
  <1>4. /\ buffer \in Seq(Packets) /\ Len(buffer) \in Nat
        /\ buffer' \in Seq(Packets) /\ Len(buffer') \in 0..Len(buffer)
        /\ \A i \in 1..Len(buffer') : i \in 1..Len(buffer) /\ buffer'[i] = buffer[i]
    <2>1. buffer \in Seq(Packets) /\ Len(buffer) \in Nat
      BY DEF IInv, TypeOK
    <2>2. CASE buffer' = buffer
      BY <2>1, <2>2
    <2>3. CASE buffer' = <<>>
      BY <2>1, <2>3
    <2> QED
      BY <1>1, <2>1, <2>2, <2>3
  <1>5. TypeOK'
    BY <1>1, <1>2, <1>3, <1>4 DEF IInv, TypeOK, LoopPC
  <1>6. Before <= Before' /\ Before \in Int /\ Before' \in Int
    BY <1>1, <1>3 DEF IInv, TypeOK, Before
  <1>7. Accounting'
    <2>1. Len(delivered) \in Nat /\ \A i \in 1..Len(delivered) : delivered[i] \in Int
      BY DEF IInv, TypeOK, Packets
    <2>2. \A i \in 1..Len(buffer) : buffer[i] \in Int
      BY <1>4 DEF Packets
    <2>3. /\ \A i \in 1..Len(buffer) : buffer[i] <= Before'
          /\ \A i \in 1..Len(delivered) : delivered[i] <= Before'
          /\ Len(buffer) + Len(delivered) <= Before'
          /\ Len(buffer) <= backlog /\ backlog \in Int
      BY <1>4, <1>6, <2>1, <2>2 DEF IInv, TypeOK, Accounting
    <2>4. \A i \in 1..Len(buffer') : buffer'[i] <= Before'
      BY <1>4, <2>3
    <2>5. Len(buffer') + Len(delivered) <= Before' /\ Len(buffer') <= backlog
      BY <1>4, <1>6, <2>1, <2>3
    <2> QED
      BY <1>1, <2>3, <2>4, <2>5 DEF Accounting
  <1>8. NoLostWakeup'
    BY <1>1 DEF NoLostWakeup
  <1>9. LeftOver'
    BY <1>1, <1>3, <1>4 DEF IInv, TypeOK, LeftOver, Close, UseDestroyed
  <1>10. AtMostOnce' /\ WaitingIsNewer' /\ InOrderWithoutBacklog'
    BY <1>1, <1>4 DEF IInv, AtMostOnce, WaitingIsNewer, InOrderWithoutBacklog
  <1> QED
    BY <1>5, <1>7, <1>8, <1>9, <1>10 DEF IInv

\* Every reachable state satisfies the inductive invariant.
THEOREM Invariance == Spec => []IInv
  <1>1. IInv /\ [Next]_vars => IInv'
    BY OnEncodedDataInv, PushInv, PopInv, ControlInv, ClosedInv DEF Next, Encoder, Callback
  <1> QED
    BY <1>1, InitInv, PTL DEF Spec

\* Type correctness, with the bound on the backlog.
THEOREM Typed == Spec => []TypeOK
  BY Invariance, PTL DEF IInv

\* A client never waits beside a packet with nobody about to fetch it.
THEOREM WakeupKept == Spec => []NoLostWakeup
  BY Invariance, PTL DEF IInv

\* What a client finds of another one's packets.
THEOREM LeftBounded == Spec => []LeftForTheNext
  <1>1. IInv => LeftForTheNext
    BY DEF IInv, TypeOK, LeftOver, LeftForTheNext
  <1> QED
    BY <1>1, Invariance, PTL

\* No packet is delivered twice, and the order of delivery is the order of
\* encoding for as long as no two packets wait together.
THEOREM DeliveryOrder == Spec => []DeliveredInOrder
  <1>1. IInv => DeliveredInOrder
    BY DEF IInv, DeliveredInOrder
  <1> QED
    BY <1>1, Invariance, PTL

-----------------------------------------------------------------------------
(***************************************************************************)
(* The server around it.                                                   *)
(***************************************************************************)

\* What the main thread does to the source is a step of FramedSource.
LEMMA SourceStep == [ServerNext]_serverVars => [Next]_vars
  <1> SUFFICES ASSUME [ServerNext]_serverVars PROVE [Next]_vars
    OBVIOUS
  <1>1. CASE Begin \/ StopServer \/ LeaveLoop \/ Release \/ UNCHANGED serverVars
    BY <1>1 DEF Begin, AddTranscoder, CreateServer, StartThread, DetachThread, StopServer,
                LeaveLoop, Release, serverVars
  <1>2. CASE Encode \/ Serve \/ RequestFrame \/ CloseSources
    BY <1>2 DEF Encode, Serve, RequestFrame, CloseSources, Next
  <1>3. ASSUME NEW c \in Clients, Setup(c) \/ Play(c) PROVE [Next]_vars
    BY <1>3 DEF Setup, Play
  <1>4. ASSUME NEW c \in Clients, Pause(c) \/ DeleteStream(c) PROVE [Next]_vars
    BY <1>4 DEF Pause, DeleteStream, Deactivate, Next
  <1>5. CASE CloseServer
    BY <1>4, <1>5 DEF CloseServer, Connected
  <1> QED
    BY <1>1, <1>2, <1>3, <1>4, <1>5 DEF ServerNext, End, Teardown

\* The server uses its source as FramedSource says.
THEOREM UsesSource == ServerSpec => Spec
  <1>1. ServerInit => Init
    BY DEF ServerInit
  <1> QED
    BY <1>1, SourceStep, PTL DEF ServerSpec, Spec

\* No client of the server waits beside a packet that nobody is about to fetch.
THEOREM ServerWakeupKept == ServerSpec => []NoLostWakeup
  BY UsesSource, WakeupKept, PTL

\* Nothing is delivered twice or, without a backlog, out of order.
THEOREM ServerDelivery == ServerSpec => []DeliveredInOrder
  BY UsesSource, DeliveryOrder, PTL

\* The next client finds what was left when the last one stopped, and at most
\* one packet more.
THEOREM ServerLeftBounded == ServerSpec => []LeftForTheNext
  BY UsesSource, LeftBounded, PTL

-----------------------------------------------------------------------------
\* Who may still be there at each stage of the main thread.
LifeInv ==
    /\ session \in [Clients -> {"none", "setup", "playing"}]
    /\ clientIp = Connected
    /\ awaiting => Playing # {}
    /\ stage \in {"close server", "close sources", "release"} => watcher
    /\ stage \in {"close sources", "release"} => Connected = {}
    /\ loop = "closed" => stage \in {"release", "exit"} /\ watcher /\ Connected = {}
    /\ encoder = "lost" => loop = "closed"

\* The session of one client changes to s.
LEMMA OneSession ==
    ASSUME LifeInv, NEW c \in Clients, NEW s \in {"none", "setup", "playing"},
           session' = [session EXCEPT ![c] = s]
    PROVE  /\ session' \in [Clients -> {"none", "setup", "playing"}]
           /\ Connected' = IF s = "none" THEN Connected \ {c} ELSE Connected \cup {c}
           /\ Playing' = IF s = "playing" THEN Playing \cup {c} ELSE Playing \ {c}
  <1>1. session \in [Clients -> {"none", "setup", "playing"}]
    BY DEF LifeInv
  <1>2. \A d \in Clients : session'[d] = IF d = c THEN s ELSE session[d]
    BY <1>1
  <1>3. session' \in [Clients -> {"none", "setup", "playing"}]
    BY <1>1
  <1> QED
    BY <1>2, <1>3 DEF Connected, Playing

LEMMA LifeInit == ServerInit => LifeInv
  BY DEF ServerInit, Init, LifeInv, Connected, Playing

\* What the sessions leave as it is.
LEMMA SameSessions ==
    ASSUME LifeInv, UNCHANGED clients
    PROVE  /\ session' \in [Clients -> {"none", "setup", "playing"}]
           /\ Connected' = Connected /\ Playing' = Playing
           /\ clientIp' = Connected'
  BY DEF LifeInv, clients, Connected, Playing

LEMMA MainInv ==
    ASSUME LifeInv, Begin \/ StopServer \/ LeaveLoop \/ Release \/ UNCHANGED serverVars
    PROVE  LifeInv'
  <1> USE DEF Begin, AddTranscoder, CreateServer, StartThread, DetachThread,
              StopServer, LeaveLoop, Release, serverVars, life
  <1>1. UNCHANGED clients /\ UNCHANGED <<awaiting, loop, encoder>>
    BY DEF vars
  <1>2. watcher => watcher'
    OBVIOUS
  <1>3. stage' \in {"close server", "close sources", "release"} => watcher'
    BY DEF LifeInv
  <1>4. stage' \in {"close sources", "release"} => Connected = {}
    BY DEF LifeInv
  <1>5. loop = "closed" => stage' \in {"release", "exit"} /\ watcher' /\ Connected = {}
    BY DEF LifeInv
  <1> QED
    BY <1>1, <1>2, <1>3, <1>4, <1>5, SameSessions DEF LifeInv

LEMMA ThreadsInv ==
    ASSUME LifeInv, Encode \/ Serve \/ RequestFrame
    PROVE  LifeInv'
  <1>1. UNCHANGED clients /\ UNCHANGED <<stage, watcher>>
    BY DEF Encode, Serve, RequestFrame, Looping, life
  <1>2. CASE Encode
    <2>1. UNCHANGED <<awaiting, loop>> /\ (encoder' = "lost" => loop = "closed")
      BY <1>2 DEF Encode, Encoder, OnEncodedData, Push, Trigger, UseDestroyed
    <2> QED
      BY <1>1, <2>1, SameSessions DEF LifeInv
  <1>3. CASE Serve
    <2>1. /\ awaiting' => awaiting
          /\ loop # "closed" /\ loop' # "closed" /\ encoder' = encoder
      BY <1>3 DEF Serve, Callback, DoGetNextFrame, DeliverFrame0, Pop, AfterGetting
    <2> QED
      BY <1>1, <2>1, SameSessions DEF LifeInv
  <1>4. CASE RequestFrame
    <2>1. Playing # {} /\ loop # "closed" /\ loop' # "closed" /\ encoder' = encoder
      BY <1>4 DEF RequestFrame, GetNextFrame
    <2> QED
      BY <1>1, <2>1, SameSessions DEF LifeInv
  <1> QED
    BY <1>2, <1>3, <1>4

LEMMA SetupInv ==
    ASSUME LifeInv, NEW c \in Clients, Setup(c) \/ Play(c)
    PROVE  LifeInv'
  <1>1. UNCHANGED <<awaiting, loop, encoder, stage, watcher>> /\ stage = "loop"
    BY DEF Setup, Play, Looping, vars, life
  <1>2. CASE Setup(c)
    <2>1. session[c] = "none" /\ c \notin Playing
      BY <1>2 DEF Setup, Playing
    <2>2. clientIp' = clientIp \cup {c} /\ session' = [session EXCEPT ![c] = "setup"]
      BY <1>2 DEF Setup
    <2>3. Connected' = Connected \cup {c} /\ Playing' = Playing
      <3>1. Connected' = Connected \cup {c} /\ Playing' = Playing \ {c}
        BY <2>2, OneSession
      <3> QED
        BY <2>1, <3>1
    <2> QED
      BY <1>1, <2>2, <2>3, OneSession DEF LifeInv
  <1>3. CASE Play(c)
    <2>1. session[c] = "setup" /\ c \in Connected
      BY <1>3 DEF Play, Connected
    <2>2. clientIp' = clientIp /\ session' = [session EXCEPT ![c] = "playing"]
      BY <1>3 DEF Play
    <2>3. Connected' = Connected /\ Playing' = Playing \cup {c}
      <3>1. Connected' = Connected \cup {c} /\ Playing' = Playing \cup {c}
        BY <2>2, OneSession
      <3> QED
        BY <2>1, <3>1
    <2> QED
      BY <1>1, <2>2, <2>3, OneSession DEF LifeInv
  <1> QED
    BY <1>2, <1>3

\* Playing stops for one client, and the source with the last one.
LEMMA Deactivated ==
    ASSUME LifeInv, NEW c \in Clients, Deactivate(c)
    PROVE  /\ loop = "idle" /\ loop' = "idle" /\ encoder' = encoder
           /\ awaiting' => Playing \ {c} # {}
  <1>1. CASE session[c] # "playing" /\ UNCHANGED vars
    <2>1. c \notin Playing
      BY <1>1 DEF Playing
    <2> QED
      BY <1>1, <2>1 DEF Deactivate, vars, LifeInv
  <1>2. CASE Playing \ {c} # {} /\ UNCHANGED vars
    BY <1>2 DEF Deactivate, vars
  <1>3. CASE StopGettingFrames
    BY <1>3 DEF StopGettingFrames
  <1> QED
    BY <1>1, <1>2, <1>3 DEF Deactivate

LEMMA PauseInv ==
    ASSUME LifeInv, NEW c \in Clients, Pause(c)
    PROVE  LifeInv'
  <1>1. UNCHANGED <<stage, watcher>> /\ stage = "loop" /\ c \in Connected
    BY DEF Pause, Looping, life, Connected
  <1>2. clientIp' = clientIp /\ session' = [session EXCEPT ![c] = "setup"]
    BY DEF Pause
  <1>3. Connected' = Connected /\ Playing' = Playing \ {c}
    <2>1. Connected' = Connected \cup {c} /\ Playing' = Playing \ {c}
      BY <1>2, OneSession
    <2> QED
      BY <1>1, <2>1
  <1>4. loop' = "idle" /\ encoder' = encoder /\ (awaiting' => Playing' # {}) /\ loop = "idle"
    BY <1>3, Deactivated DEF Pause
  <1> QED
    BY <1>1, <1>2, <1>3, <1>4, OneSession DEF LifeInv

LEMMA DeleteInv ==
    ASSUME LifeInv, NEW c \in Clients, DeleteStream(c), UNCHANGED <<stage, watcher>>
    PROVE  LifeInv'
  <1>1. clientIp' = clientIp \ {c} /\ session' = [session EXCEPT ![c] = "none"]
    BY DEF DeleteStream
  <1>2. Connected' = Connected \ {c} /\ Playing' = Playing \ {c}
    BY <1>1, OneSession
  <1>3. loop' = "idle" /\ encoder' = encoder /\ (awaiting' => Playing' # {}) /\ loop = "idle"
    BY <1>2, Deactivated DEF DeleteStream
  <1> QED
    BY <1>1, <1>2, <1>3, OneSession DEF LifeInv

LEMMA CloseInv ==
    ASSUME LifeInv, CloseServer \/ CloseSources
    PROVE  LifeInv'
  <1>1. CASE CloseServer /\ Connected = {}
    <2>1. /\ UNCHANGED clients /\ UNCHANGED <<awaiting, loop, encoder, watcher>>
          /\ stage = "close server" /\ stage' = "close sources"
      BY <1>1 DEF CloseServer, vars
    <2> QED
      BY <1>1, <2>1, SameSessions DEF LifeInv
  <1>2. CASE CloseServer /\ Connected # {}
    <2>1. PICK c \in Connected : DeleteStream(c)
      BY <1>2 DEF CloseServer
    <2>2. c \in Clients /\ UNCHANGED <<stage, watcher>>
      BY <1>2 DEF CloseServer, Connected
    <2> QED
      BY <2>1, <2>2, DeleteInv
  <1>3. CASE CloseSources
    <2>1. /\ UNCHANGED clients /\ UNCHANGED <<awaiting, encoder, watcher>>
          /\ stage = "close sources" /\ stage' = "release"
          /\ loop = "idle" /\ loop' = "closed"
      BY <1>3 DEF CloseSources, Close
    <2> QED
      BY <2>1, SameSessions DEF LifeInv
  <1> QED
    BY <1>1, <1>2, <1>3

\* The source outlives its sessions; only the encoding thread may find it gone,
\* and only after stopServer.
THEOREM Outlives == ServerSpec => []OutlivesItsUsers
  <1>1. LifeInv /\ [ServerNext]_serverVars => LifeInv'
    <2>1. ASSUME LifeInv, NEW c \in Clients, Teardown(c) PROVE LifeInv'
      BY <2>1, DeleteInv DEF Teardown, Looping, life
    <2> QED
      BY <2>1, MainInv, ThreadsInv, SetupInv, PauseInv, CloseInv DEF ServerNext, End
  <1>2. LifeInv => OutlivesItsUsers
    BY DEF LifeInv, OutlivesItsUsers
  <1> QED
    BY <1>1, <1>2, LifeInit, PTL DEF ServerSpec

\* Type correctness, of the source and of what the server adds to it.
THEOREM ServerTyped == ServerSpec => []ServerTypeOK
  <1> DEFINE Added == /\ stage \in Stages /\ watcher \in BOOLEAN
                      /\ thread \in {"none", "joinable", "detached"}
                      /\ session \in [Clients -> {"none", "setup", "playing"}]
                      /\ clientIp \subseteq Clients
  <1>1. ServerInit => Added
    BY DEF ServerInit, Stages
  <1>2. Added /\ [ServerNext]_serverVars => Added'
    <2> SUFFICES ASSUME Added, [ServerNext]_serverVars PROVE Added'
      OBVIOUS
    <2>1. CASE UNCHANGED clients
      <3>1. stage' \in Stages /\ watcher' \in BOOLEAN
        BY DEF ServerNext, Begin, AddTranscoder, CreateServer, StartThread, DetachThread, Encode,
               Serve, RequestFrame, Setup, Play, Pause, Teardown, DeleteStream, StopServer, LeaveLoop,
               End, CloseServer, CloseSources, Release, Looping, life, serverVars, Stages
      <3>2. thread' \in {thread, "joinable", "detached"}
        BY DEF ServerNext, Begin, AddTranscoder, CreateServer, StartThread, DetachThread, Encode,
               Serve, RequestFrame, Setup, Play, Pause, Teardown, DeleteStream, StopServer, LeaveLoop,
               End, CloseServer, CloseSources, Release, Looping, life, serverVars, Start, Detach
      <3> QED
        BY <2>1, <3>1, <3>2 DEF clients
    <2>2. ASSUME NEW c \in Clients, Setup(c) \/ Play(c) \/ Pause(c) \/ Teardown(c)
          PROVE  Added'
      BY <2>2 DEF Setup, Play, Pause, Teardown, DeleteStream, Looping, life
    <2>3. CASE CloseServer
      <3>1. stage' \in Stages /\ UNCHANGED <<watcher, thread>>
        BY <2>3 DEF CloseServer, Stages
      <3>2. UNCHANGED clients \/ \E c \in Clients : DeleteStream(c)
        BY <2>3 DEF CloseServer, Connected
      <3> QED
        BY <3>1, <3>2 DEF DeleteStream, clients
    <2>4. UNCHANGED clients \/ CloseServer
          \/ \E c \in Clients : Setup(c) \/ Play(c) \/ Pause(c) \/ Teardown(c)
      BY DEF ServerNext, Begin, AddTranscoder, CreateServer, StartThread, DetachThread, Encode,
             Serve, RequestFrame, StopServer, LeaveLoop, End, CloseSources, Release, serverVars
    <2> QED
      BY <2>1, <2>2, <2>3, <2>4
  <1>3. ServerTypeOK <=> TypeOK /\ Added
    BY DEF ServerTypeOK
  <1> QED
    BY <1>1, <1>2, <1>3, UsesSource, Typed, PTL DEF ServerSpec

\* Once the loop runs the encoding thread has been let go, and stays so.
LetGo ==
    stage \in {"loop", "close server", "close sources", "release"} => thread = "detached"

\* Between start and detach the encoding thread could be joined, which would
\* not return: that window is over before the server can come to its end, where
\* stop() (close sources) and ~MThread (release) find the thread detached.
THEOREM EndNeverWaits ==
    ServerSpec => [](stage \in {"close sources", "release"}
                        => Stopped(thread) /\ Destroyed(thread))
  <1>1. ServerInit => LetGo
    BY DEF ServerInit, LetGo
  <1>2. LetGo /\ [ServerNext]_serverVars => LetGo'
    <2> SUFFICES ASSUME LetGo, [ServerNext]_serverVars PROVE LetGo'
      OBVIOUS
    <2>1. CASE Begin
      BY <2>1 DEF Begin, AddTranscoder, CreateServer, StartThread, DetachThread, Detach, LetGo
    <2>2. CASE LeaveLoop \/ End
      BY <2>2 DEF LeaveLoop, End, CloseServer, CloseSources, Release, LetGo
    <2>3. CASE UNCHANGED <<stage, thread>>
      BY <2>3 DEF LetGo
    <2> QED
      BY <2>1, <2>2, <2>3 DEF ServerNext, Encode, Serve, RequestFrame, Setup, Play, Pause,
                              Teardown, StopServer, Looping, life, serverVars
  <1>3. LetGo => (stage \in {"close sources", "release"}
                    => Stopped(thread) /\ Destroyed(thread))
    BY DEF LetGo, Stopped, Destroyed
  <1> QED
    BY <1>1, <1>2, <1>3, PTL DEF ServerSpec

=============================================================================
