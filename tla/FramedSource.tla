---------------------------- MODULE FramedSource ----------------------------
(***************************************************************************)
(* src/CamFramedSource.cc: packets cross from the thread that runs         *)
(* TransCoder::run (onEncodedData) to the live555 event loop (deliverData, *)
(* doGetNextFrame), through a vector under a mutex and an event trigger.   *)
(* The event loop and its base class FramedSource are external: what they  *)
(* do here is what the code relies on.  An event trigger is one flag, so   *)
(* triggers raised before the handler runs collapse into one call of it.   *)
(* The encoding thread is detached: it goes on when the source is closed.  *)
(***************************************************************************)
EXTENDS Naturals, Sequences, SequencesExt

CONSTANT MaxPacket    \* bound: packets the encoder hands over

ASSUME FramedSourceAssumption == MaxPacket \in Nat \ {0}

VARIABLES
    awaiting,    \* isCurrentlyAwaitingData(): written by the event loop only
    buffer,      \* encodedDataBuffer, oldest packet first
    pending,     \* the trigger is raised and its handler has not run
    encoder,     \* where onEncodedData is: see EncoderPC
    produced,    \* packets handed to onEncodedData so far
    loop,        \* where the event loop is: see LoopPC
    delivered,   \* packets given to the client, in order
    backlog,     \* history: the longest buffer so far
    left         \* history: packets there when the client last stopped waiting

vars == <<awaiting, buffer, pending, encoder, produced, loop, delivered, backlog, left>>

\* "check": in doGetNextFrame before empty(); "pop": in deliverData past its
\* test; "after": fTo is filled, afterGetting not called yet.  "undefined":
\* back() and pop_back() were called on an empty vector.  "closed": the source
\* is destroyed.
LoopPC    == {"idle", "check", "pop", "after", "undefined", "closed"}
\* "lost": the callback was called, or went on, with the source destroyed.
EncoderPC == {"idle", "push", "trigger", "lost"}
Packets   == 1..MaxPacket

TypeOK ==
    /\ awaiting \in BOOLEAN
    /\ buffer \in Seq(Packets)
    /\ pending \in BOOLEAN
    /\ encoder \in EncoderPC
    /\ produced \in 0..MaxPacket
    /\ loop \in LoopPC
    /\ delivered \in Seq(Packets)
    /\ backlog \in 0..MaxPacket
    /\ left \in 0..MaxPacket

Init ==
    /\ awaiting = FALSE
    /\ buffer = <<>>
    /\ pending = FALSE
    /\ encoder = "idle"
    /\ produced = 0
    /\ loop = "idle"
    /\ delivered = <<>>
    /\ backlog = 0
    /\ left = 0

-----------------------------------------------------------------------------
(* The encoding thread.                                                    *)

StoreAlways ==         \* mutant of OnEncodedData: nobody need be waiting
    /\ encoder = "idle"
    /\ loop # "closed"
    /\ produced < MaxPacket
    /\ produced' = produced + 1
    /\ encoder' = "push"
    /\ UNCHANGED <<awaiting, buffer, pending, loop, delivered, backlog, left>>

\* The packet is thrown away when nobody is waiting for one.
OnEncodedData ==
    /\ encoder = "idle"
    /\ loop # "closed"
    /\ produced < MaxPacket
    /\ produced' = produced + 1
    /\ encoder' = IF awaiting THEN "push" ELSE "idle"
    /\ UNCHANGED <<awaiting, buffer, pending, loop, delivered, backlog, left>>

Push ==
    /\ encoder = "push"
    /\ loop # "closed"
    /\ buffer' = Append(buffer, produced)
    /\ encoder' = "trigger"
    /\ backlog' = IF Len(buffer') > backlog THEN Len(buffer') ELSE backlog
    /\ UNCHANGED <<awaiting, pending, produced, loop, delivered, left>>

TriggerForgotten ==    \* mutant of Trigger: triggerEvent is not called
    /\ encoder = "trigger"
    /\ loop # "closed"
    /\ encoder' = "idle"
    /\ UNCHANGED <<awaiting, buffer, pending, produced, loop, delivered, backlog, left>>

Trigger ==
    /\ encoder = "trigger"
    /\ loop # "closed"
    /\ pending' = TRUE
    /\ encoder' = "idle"
    /\ UNCHANGED <<awaiting, buffer, produced, loop, delivered, backlog, left>>

\* std::bind gave the callback the address of a source that is gone.
UseDestroyed ==
    /\ loop = "closed"
    /\ encoder' = "lost"
    /\ UNCHANGED <<awaiting, buffer, pending, produced, loop, delivered, backlog, left>>

-----------------------------------------------------------------------------
(* The event loop, and what its thread does after it.                      *)

\* FramedSource::getNextFrame may be called only when none is in progress.
GetNextFrame ==
    /\ loop = "idle"
    /\ ~awaiting
    /\ awaiting' = TRUE
    /\ loop' = "check"
    /\ UNCHANGED <<buffer, pending, encoder, produced, delivered, backlog, left>>

WaitForTrigger ==      \* mutant of DoGetNextFrame: never looks at the buffer
    /\ loop = "check"
    /\ loop' = "idle"
    /\ UNCHANGED <<awaiting, buffer, pending, encoder, produced, delivered, backlog, left>>

\* empty() is read without the mutex; only this thread removes packets.
DoGetNextFrame ==
    /\ loop = "check"
    /\ loop' = IF buffer # <<>> THEN "pop" ELSE "idle"
    /\ UNCHANGED <<awaiting, buffer, pending, encoder, produced, delivered, backlog, left>>

\* The loop clears the flag before it calls the handler.
DeliverFrame0 ==
    /\ loop = "idle"
    /\ pending
    /\ pending' = FALSE
    /\ loop' = IF awaiting THEN "pop" ELSE "idle"
    /\ UNCHANGED <<awaiting, buffer, encoder, produced, delivered, backlog, left>>

PopWithoutRemoving ==  \* mutant of Pop: pop_back is missing
    /\ loop = "pop"
    /\ IF buffer = <<>>
       THEN /\ loop' = "undefined"
            /\ UNCHANGED <<buffer, delivered>>
       ELSE /\ delivered' = Append(delivered, Last(buffer))
            /\ loop' = "after"
            /\ UNCHANGED buffer
    /\ UNCHANGED <<awaiting, pending, encoder, produced, backlog, left>>

\* The newest packet leaves first.
Pop ==
    /\ loop = "pop"
    /\ IF buffer = <<>>
       THEN /\ loop' = "undefined"
            /\ UNCHANGED <<buffer, delivered>>
       ELSE /\ delivered' = Append(delivered, Last(buffer))
            /\ buffer' = Front(buffer)
            /\ loop' = "after"
    /\ UNCHANGED <<awaiting, pending, encoder, produced, backlog, left>>

AfterGetting ==
    /\ loop = "after"
    /\ awaiting' = FALSE
    /\ left' = Len(buffer)
    /\ loop' = "idle"
    /\ UNCHANGED <<buffer, pending, encoder, produced, delivered, backlog>>

\* The last client went away.  Packets in the buffer stay there.
StopGettingFrames ==
    /\ loop = "idle"
    /\ awaiting' = FALSE
    /\ left' = IF awaiting THEN Len(buffer) ELSE left
    /\ UNCHANGED <<buffer, pending, encoder, produced, loop, delivered, backlog>>

\* ~CamFramedSource: stop() does not wait for a detached thread; the trigger
\* and the packets are deleted.
Close ==
    /\ loop = "idle"
    /\ loop' = "closed"
    /\ buffer' = <<>>
    /\ pending' = FALSE
    /\ UNCHANGED <<awaiting, encoder, produced, delivered, backlog, left>>

-----------------------------------------------------------------------------
Encoder == OnEncodedData \/ Push \/ Trigger \/ UseDestroyed

Callback == DoGetNextFrame \/ DeliverFrame0 \/ Pop \/ AfterGetting

Next == Encoder \/ Callback \/ GetNextFrame \/ StopGettingFrames \/ Close

Spec == Init /\ [][Next]_vars

\* Both threads run and the loop serves its triggers.  The encoder need not
\* produce another packet and the client need not ask for one.
FairSpec ==
    /\ Spec
    /\ WF_vars(Push \/ Trigger)
    /\ WF_vars(Callback)

-----------------------------------------------------------------------------
(* Properties.                                                             *)

\* A client is never left waiting beside a packet with nobody about to fetch
\* it, although empty() is read without the mutex and several triggers may
\* collapse into one.
NoLostWakeup ==
    awaiting /\ buffer # <<>> /\ loop = "idle" => pending \/ encoder = "trigger"

\* A stored packet is delivered at most once, and packets wait in the order
\* in which they were encoded.
AtMostOnce ==
    /\ \A i, j \in 1..Len(delivered) : delivered[i] = delivered[j] => i = j
    /\ \A i \in 1..Len(delivered), j \in 1..Len(buffer) : delivered[i] # buffer[j]
    /\ \A i, j \in 1..Len(buffer) : i < j => buffer[i] < buffer[j]

\* The stream is in encoding order for as long as two packets never wait
\* together; back() reorders it only after a backlog.
InOrderWithoutBacklog ==
    backlog <= 1 =>
        \A i, j \in 1..Len(delivered) : i < j => delivered[i] < delivered[j]

\* What a client gets of the packets: none twice, and in their order.
DeliveredInOrder == AtMostOnce /\ InOrderWithoutBacklog

\* A client finds at most what was waiting when the last one stopped, and one
\* packet whose test came before that: the test of onEncodedData reads a flag
\* that the event loop writes, and doStopGettingFrames leaves the buffer alone.
LeftForTheNext == ~awaiting => Len(buffer) <= left + 1

\* A client that waits while a packet is there gets one (or stops waiting).
AwaitedIsDelivered ==
    (awaiting /\ buffer # <<>>) ~> (~awaiting \/ loop \in {"undefined", "closed"})

\* The comment at src/CamFramedSource.cc:85: afterGetting follows data that
\* was successfully got, so deliverData never takes from an empty buffer.
DataBeforeAfterGetting == loop # "undefined"

=============================================================================
