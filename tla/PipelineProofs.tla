--------------------------- MODULE PipelineProofs ---------------------------
(***************************************************************************)
(* What is proved of Pipeline for every N, MaxFrame and Lag.               *)
(***************************************************************************)
EXTENDS Pipeline, TLAPS

(***************************************************************************)
(* The inductive invariant.  TypeOK and the properties say nothing of how  *)
(* the list, the cursor and the pool advance together; these parts do, in  *)
(* linear arithmetic over the number of the last frame.                    *)
(***************************************************************************)

\* The list holds consecutive frames up to the last one; it grows to N and
\* then loses one per iteration.
ListShape ==
    /\ pc = "poll" => Len(inList) = IF frame < N THEN frame ELSE N - 1
    /\ pc = "dispatch" =>
          frame >= 1 /\ Len(inList) = IF frame < N THEN frame ELSE N
    /\ pc \notin {"poll", "dispatch"} => frame >= N /\ Len(inList) = N
    /\ \A j \in 1..Len(inList) : inList[j] = frame - Len(inList) + j

\* Until the list is full the cursor counts frames, so position cur exists.
CursorShape ==
    /\ pc = "poll" /\ frame < N => cur = frame
    /\ pc = "dispatch" => cur < N /\ (frame <= N => cur = frame - 1)
    /\ pc \notin {"poll", "dispatch"} => cur >= 1

\* The slots of the last N frames, counted back from the next one.
YoloShape ==
    \A u \in 1..Dispatched : u > Dispatched - N =>
        LET ago == Dispatched + 1 - u IN
        yolo[u] = IF NextSlot >= ago THEN NextSlot - ago ELSE NextSlot - ago + N

\* The buffer at the cursor when frame u was dispatched.
BoundShape ==
    \A u \in 1..Dispatched :
        bound[u] = IF u <= N THEN u ELSE u - N + 1 + yolo[u]

\* Tasks are enqueued in frame order, each once, and are in one place.
PoolShape ==
    /\ \A i \in 1..Len(queue) : queue[i] = Dispatched - Len(queue) + i
    /\ Len(queue) <= Dispatched
    /\ running \cup done = 1..(Dispatched - Len(queue))
    /\ running \cap done = {}
    /\ phase = "open"
    /\ \A u \in Frames : stage[u] # "none" => u \in running

\* The pacing assumption, which ReadFrame states of the frame it reads.
Paced == \A u \in Outstanding : u + Lag > frame

IInv ==
    /\ TypeOK
    /\ AtNeverThrows
    /\ ListShape
    /\ CursorShape
    /\ YoloShape
    /\ BoundShape
    /\ PoolShape
    /\ Paced

-----------------------------------------------------------------------------
LEMMA SlotMod ==
    ASSUME PipelineAssumption, cur \in 0..N
    PROVE  cur % N = NextSlot
  BY DEF PipelineAssumption, NextSlot

LEMMA NextSlotType ==
    ASSUME PipelineAssumption, cur \in 0..N
    PROVE  NextSlot \in Slots
  BY DEF PipelineAssumption, NextSlot, Slots

LEMMA SpoiledType ==
    ASSUME img \in [Frames -> Images], NEW U
    PROVE  Spoiled(U) \in [Frames -> Images]
  BY DEF Spoiled, Images

LEMMA InitInv == Init => IInv
  <1> SUFFICES ASSUME Init PROVE IInv
    OBVIOUS
  <1> USE PipelineAssumption DEF PipelineAssumption
  <1>1. TypeOK
    BY DEF Init, TypeOK, Pool!Init, Pool!TypeOK, Images, Slots, RunPC, Ended, Stages
  <1>2. AtNeverThrows
    BY DEF Init, AtNeverThrows
  <1>3. ListShape
    BY DEF Init, ListShape
  <1>4. CursorShape
    BY DEF Init, CursorShape
  <1>5. YoloShape /\ BoundShape /\ Paced
    BY DEF Init, YoloShape, BoundShape, Paced, Dispatched, Outstanding
  <1>6. PoolShape
    BY DEF Init, PoolShape, Dispatched, Pool!Init
  <1> QED
    BY <1>1, <1>2, <1>3, <1>4, <1>5, <1>6 DEF IInv

(***************************************************************************)
(* The steps of run().                                                     *)
(***************************************************************************)

LEMMA PollTimeoutInv == IInv /\ PollTimeout => IInv'
  <1> SUFFICES ASSUME IInv, PollTimeout PROVE IInv'
    OBVIOUS
  <1> USE PipelineAssumption DEF PipelineAssumption
  <1> USE DEF PollTimeout, runVars, taskVars, bindVars, poolVars
  <1>1. cur \in 0..N /\ frame \in Nat /\ NextSlot' = NextSlot
    BY DEF IInv, TypeOK, NextSlot
  <1>2. TypeOK'
    BY NextSlotType DEF IInv, TypeOK, Pool!TypeOK, Slots
  <1>3. AtNeverThrows' /\ ListShape'
    BY DEF IInv, AtNeverThrows, ListShape
  <1>4. CursorShape'
    BY <1>1 DEF IInv, CursorShape, NextSlot
  <1>5. YoloShape' /\ BoundShape' /\ PoolShape' /\ Paced'
    BY <1>1 DEF IInv, YoloShape, BoundShape, PoolShape, Paced, Dispatched, Outstanding
  <1> QED
    BY <1>2, <1>3, <1>4, <1>5 DEF IInv

LEMMA ReadFrameInv ==
    ASSUME IInv, NEW result \in ReadResults, NEW fills \in BOOLEAN,
           ReadFrame(result, fills)
    PROVE  IInv'
  <1> USE PipelineAssumption DEF PipelineAssumption
  <1> DEFINE list == Append(inList, frame + 1)
  <1>1. /\ cur \in 0..N /\ frame \in Nat /\ NextSlot \in 0..(N - 1)
        /\ pc = "poll" /\ frame < MaxFrame /\ frame' = frame + 1
        /\ cur' = NextSlot /\ inList' = list
        /\ inList \in Seq(Frames)
    BY NextSlotType DEF IInv, TypeOK, ReadFrame, Slots
  <1>2. /\ list \in Seq(Frames) /\ Len(list) = Len(inList) + 1
        /\ \A j \in 1..Len(list) : list[j] = frame + 1 - Len(list) + j
        /\ Len(list) = IF frame + 1 < N THEN frame + 1 ELSE N
    <2>1. ListShape /\ pc = "poll" /\ frame + 1 \in Frames
      BY <1>1 DEF IInv, Frames
    <2>2. /\ list \in Seq(Frames) /\ Len(list) = Len(inList) + 1 /\ Len(inList) \in Nat
          /\ \A j \in 1..Len(inList) : list[j] = inList[j]
          /\ list[Len(inList) + 1] = frame + 1
      BY <1>1, <2>1
    <2>3. \A j \in 1..Len(inList) : inList[j] = frame - Len(inList) + j
      BY <2>1 DEF ListShape
    <2>4. Len(inList) = IF frame < N THEN frame ELSE N - 1
      BY <2>1 DEF ListShape
    <2> HIDE DEF list
    <2>5. \A j \in 1..Len(list) : list[j] = frame + 1 - Len(list) + j
      <3> SUFFICES ASSUME NEW j \in 1..Len(list) PROVE list[j] = frame + 1 - Len(list) + j
        OBVIOUS
      <3>1. CASE j \in 1..Len(inList)
        BY <1>1, <2>2, <2>3, <3>1
      <3>2. CASE j = Len(inList) + 1
        BY <1>1, <2>2, <3>2
      <3> QED
        BY <2>2, <3>1, <3>2
    <2> QED
      BY <1>1, <2>2, <2>4, <2>5
  <1>3. NextSlot < Len(list)
    BY <1>1, <1>2 DEF IInv, CursorShape, NextSlot
  <1>4. /\ pc' = "dispatch"
        /\ \/ /\ content' = [content EXCEPT ![ReadTarget(list)] = frame + 1]
              /\ img' = Spoiled(Readers(ReadTarget(list)))
              /\ copied' = copied \cup {frame + 1}
           \/ UNCHANGED <<content, img, copied>>
    BY <1>1, <1>2, <1>3 DEF ReadFrame
  <1>5. ReadTarget(list) \in Frames
    BY <1>1, <1>2, <1>3 DEF ReadTarget
  <1>6. /\ Dispatched' = Dispatched /\ Dispatched = frame
        /\ NextSlot' = NextSlot
    BY <1>1, <1>4 DEF Dispatched, NextSlot
  <1>7. UNCHANGED <<stage, out, fed, src, inbuf, yolo, bound, queue, running, done, phase>>
    BY DEF ReadFrame, bindVars, poolVars
  <1>8. TypeOK'
    <2>5. frame + 1 \in Frames
      BY <1>1 DEF Frames
    <2>1. content' \in [Frames -> Images]
      BY <2>5, <1>4, <1>5 DEF IInv, TypeOK, Images
    <2>2. img' \in [Frames -> Images]
      BY <1>4, SpoiledType DEF IInv, TypeOK
    <2>3. /\ pc' \in RunPC /\ cur' \in 0..N /\ frame' \in 0..MaxFrame
          /\ resize' \in ReadResults /\ inList' \in Seq(Frames) /\ Len(inList') <= N
      BY <1>1, <1>2, <1>4 DEF RunPC, ReadFrame
    <2>4. copied' \subseteq Frames
      BY <2>5, <1>4 DEF IInv, TypeOK
    <2> QED
      BY <2>1, <2>2, <2>3, <2>4, <1>7 DEF IInv, TypeOK, Pool!TypeOK
  <1>9. AtNeverThrows' /\ ListShape'
    BY <1>1, <1>2, <1>4 DEF AtNeverThrows, ListShape
  <1>10. CursorShape'
    BY <1>1, <1>4 DEF IInv, CursorShape, NextSlot
  <1>11. YoloShape' /\ BoundShape' /\ PoolShape'
    BY <1>6, <1>7 DEF IInv, YoloShape, BoundShape, PoolShape
  <1>12. Paced'
    BY <1>1, <1>7 DEF IInv, Paced, Outstanding, ReadFrame
  <1> QED
    BY <1>8, <1>9, <1>10, <1>11, <1>12 DEF IInv

LEMMA DispatchInv == IInv /\ Dispatch => IInv'
  <1> SUFFICES ASSUME IInv, Dispatch PROVE IInv'
    OBVIOUS
  <1> USE PipelineAssumption DEF PipelineAssumption
  <1>1. /\ pc = "dispatch" /\ pc' \in {"encode", "poll"}
        /\ cur \in 0..(N - 1) /\ cur' = cur + 1 /\ NextSlot = cur
        /\ frame \in Frames /\ frame' = frame
        /\ frame >= 1 /\ Dispatched = frame - 1 /\ Dispatched' = frame
        /\ inList \in Seq(Frames) /\ inList' = inList
    BY DEF IInv, TypeOK, Dispatch, CursorShape, ListShape, NextSlot, Dispatched,
           Frames
  <1>2. /\ Len(inList) = IF frame < N THEN frame ELSE N
        /\ inList[cur + 1] \in Frames
        /\ inList[cur + 1] = IF frame <= N THEN frame ELSE frame - N + 1 + cur
    <2>1. Len(inList) = IF frame < N THEN frame ELSE N
      BY <1>1 DEF IInv, ListShape
    <2>2. cur + 1 \in 1..Len(inList) /\ (frame <= N => cur = frame - 1)
      BY <2>1, <1>1 DEF IInv, CursorShape, Frames
    <2>3. inList[cur + 1] = frame - Len(inList) + (cur + 1)
      BY <2>2 DEF IInv, ListShape
    <2> QED
      BY <2>1, <2>2, <2>3, <1>1 DEF Frames
  <1>3. /\ yolo' = [yolo EXCEPT ![frame] = cur]
        /\ bound' = [bound EXCEPT ![frame] = inList[cur + 1]]
        /\ yolo \in [Frames -> Slots] /\ bound \in [Frames -> Images]
        /\ queue' = Append(queue, frame) /\ queue \in Seq(Frames)
        /\ UNCHANGED <<running, done, phase, stage>>
    BY DEF IInv, TypeOK, Dispatch, Pool!TypeOK, Pool!Submit, taskVars
  <1>4. TypeOK'
    <2>1. /\ inbuf' \in [Slots -> Images]
          /\ yolo' \in [Frames -> Slots]
          /\ bound' \in [Frames -> Images]
      BY <1>1, <1>2, <1>3 DEF IInv, TypeOK, Dispatch, Images, Slots
    <2>2. Pool!TypeOK'
      BY <1>1, <1>3 DEF IInv, TypeOK, Pool!TypeOK
    <2>3. pc' \in RunPC /\ cur' \in 0..N
      BY <1>1 DEF RunPC
    <2> QED
      BY <2>1, <2>2, <2>3 DEF IInv, TypeOK, Dispatch, taskVars
  <1>5. AtNeverThrows'
    BY <1>1 DEF AtNeverThrows
  <1>6. ListShape'
    BY <1>1, <1>2 DEF IInv, ListShape, Dispatch, ReadyToEncode, Frames
  <1>7. CursorShape'
    BY <1>1, <1>2 DEF IInv, CursorShape, Dispatch, ReadyToEncode
  <1>8. YoloShape'
    <2> SUFFICES ASSUME NEW u \in 1..frame, u > frame - N
                 PROVE  LET ago == frame + 1 - u IN
                        yolo'[u] = IF NextSlot' >= ago THEN NextSlot' - ago
                                   ELSE NextSlot' - ago + N
      BY <1>1 DEF YoloShape
    <2>1. NextSlot' = IF cur + 1 = N THEN 0 ELSE cur + 1
      BY <1>1 DEF NextSlot
    <2>2. CASE u = frame
      BY <2>1, <2>2, <1>1, <1>3
    <2>3. CASE u # frame
      <3>1. yolo'[u] = yolo[u] /\ u \in 1..Dispatched /\ u > Dispatched - N
        BY <2>3, <1>1, <1>3 DEF Frames
      <3> QED
        BY <2>1, <3>1, <1>1 DEF IInv, YoloShape, Frames
    <2> QED
      BY <2>2, <2>3
  <1>9. BoundShape'
    <2> SUFFICES ASSUME NEW u \in 1..frame
                 PROVE  bound'[u] = IF u <= N THEN u ELSE u - N + 1 + yolo'[u]
      BY <1>1 DEF BoundShape
    <2>1. CASE u = frame
      BY <2>1, <1>1, <1>2, <1>3
    <2>2. CASE u # frame
      BY <2>2, <1>1, <1>3 DEF IInv, BoundShape, Frames
    <2> QED
      BY <2>1, <2>2
  <1>10. PoolShape'
    <2>1. /\ Len(queue) \in Nat /\ Len(queue') = Len(queue) + 1
          /\ \A i \in 1..Len(queue) : queue'[i] = queue[i]
          /\ queue'[Len(queue) + 1] = frame
      BY <1>1, <1>3
    <2>2. \A i \in 1..Len(queue') : queue'[i] = Dispatched' - Len(queue') + i
      <3> TAKE i \in 1..Len(queue')
      <3>1. CASE i = Len(queue) + 1
        BY <3>1, <2>1, <1>1 DEF Frames
      <3>2. CASE i \in 1..Len(queue)
        <4>1. queue[i] = Dispatched - Len(queue) + i
          BY <3>2 DEF IInv, PoolShape
        <4> QED
          BY <3>2, <4>1, <2>1, <1>1 DEF Frames
      <3> QED
        BY <3>1, <3>2, <2>1
    <2>3. /\ Len(queue') <= Dispatched'
          /\ Dispatched' - Len(queue') = Dispatched - Len(queue)
      BY <2>1, <1>1 DEF IInv, PoolShape, Frames
    <2> QED
      BY <2>2, <2>3, <1>3 DEF IInv, PoolShape
  <1>11. Paced'
    BY <1>1, <1>3 DEF IInv, Paced, Outstanding
  <1> QED
    BY <1>4, <1>5, <1>6, <1>7, <1>8, <1>9, <1>10, <1>11 DEF IInv

\* The three outcomes of the call of encode move nothing but pc and fed.
LEMMA EncodeInv ==
    ASSUME IInv, Encode \/ EncodeBadSize \/ EncodeFails
    PROVE  IInv'
  <1> USE PipelineAssumption DEF PipelineAssumption
  <1>1. /\ pc = "encode" /\ pc' \in {"erase", "bad_size", "bad_packet"}
        /\ UNCHANGED <<cur, frame, resize, copied, inList>>
        /\ UNCHANGED <<taskVars, bindVars, content, poolVars>>
    BY DEF Encode, EncodeBadSize, EncodeFails
  <1> USE DEF taskVars, bindVars, poolVars
  <1>2. fed' \in Images
    <2>1. CASE Encode
      <3>1. OutSlot \in Slots
        BY SlotMod, NextSlotType DEF IInv, TypeOK, OutSlot
      <3> QED
        BY <2>1, <3>1 DEF IInv, TypeOK, Encode, Images
    <2>2. CASE EncodeBadSize \/ EncodeFails
      BY <2>2 DEF IInv, TypeOK, EncodeBadSize, EncodeFails
    <2> QED
      BY <2>1, <2>2
  <1>3. TypeOK'
    BY <1>1, <1>2 DEF IInv, TypeOK, Pool!TypeOK, RunPC, Ended
  <1>4. AtNeverThrows' /\ ListShape' /\ CursorShape'
    BY <1>1 DEF IInv, AtNeverThrows, ListShape, CursorShape
  <1>5. Dispatched' = Dispatched /\ NextSlot' = NextSlot
    BY <1>1 DEF Dispatched, NextSlot
  <1>6. YoloShape' /\ BoundShape' /\ PoolShape' /\ Paced'
    BY <1>1, <1>5 DEF IInv, YoloShape, BoundShape, PoolShape, Paced, Outstanding
  <1> QED
    BY <1>3, <1>4, <1>6 DEF IInv

LEMMA EraseInv == IInv /\ Erase => IInv'
  <1> SUFFICES ASSUME IInv, Erase PROVE IInv'
    OBVIOUS
  <1> USE PipelineAssumption DEF PipelineAssumption
  <1>1. /\ pc = "erase" /\ pc' = "poll"
        /\ UNCHANGED <<cur, frame, resize, copied, fed, stage, src, out>>
        /\ UNCHANGED <<inbuf, yolo, bound, content, queue, running, done, phase>>
    BY DEF Erase, bindVars, poolVars
  <1>2. /\ inList \in Seq(Frames) /\ Len(inList) = N /\ frame >= N
        /\ frame \in Nat /\ cur \in 1..N
        /\ inList' = Tail(inList)
        /\ img' = Spoiled(Readers(Head(inList)))
    BY <1>1 DEF IInv, TypeOK, ListShape, CursorShape, Erase
  <1>3. /\ inList' \in Seq(Frames) /\ Len(inList') = N - 1
        /\ \A j \in 1..Len(inList') : inList'[j] = frame - (N - 1) + j
    BY <1>2 DEF IInv, ListShape
  <1>4. TypeOK'
    BY <1>1, <1>2, <1>3, SpoiledType DEF IInv, TypeOK, Pool!TypeOK, RunPC
  <1>5. AtNeverThrows' /\ ListShape'
    BY <1>1, <1>2, <1>3 DEF AtNeverThrows, ListShape
  <1>6. CursorShape'
    BY <1>1, <1>2 DEF CursorShape
  <1>7. Dispatched' = Dispatched /\ NextSlot' = NextSlot
    BY <1>1 DEF Dispatched, NextSlot
  <1>8. YoloShape' /\ BoundShape' /\ PoolShape' /\ Paced'
    BY <1>1, <1>7 DEF IInv, YoloShape, BoundShape, PoolShape, Paced, Outstanding
  <1> QED
    BY <1>4, <1>5, <1>6, <1>8 DEF IInv

(***************************************************************************)
(* The steps of the workers.  They leave run() alone.                      *)
(***************************************************************************)

LEMMA RunUntouched ==
    ASSUME IInv, UNCHANGED <<runVars, bindVars>>, done \subseteq done'
    PROVE  /\ AtNeverThrows' /\ ListShape' /\ CursorShape'
           /\ YoloShape' /\ BoundShape' /\ Paced'
           /\ Dispatched' = Dispatched
  <1> USE DEF runVars, bindVars
  <1>1. Dispatched' = Dispatched /\ NextSlot' = NextSlot
    BY DEF Dispatched, NextSlot
  <1>2. AtNeverThrows' /\ ListShape' /\ CursorShape'
    BY DEF IInv, AtNeverThrows, ListShape, CursorShape
  <1>3. YoloShape' /\ BoundShape'
    BY <1>1 DEF IInv, YoloShape, BoundShape
  <1>4. Paced'
    BY DEF IInv, Paced, Outstanding
  <1> QED
    BY <1>1, <1>2, <1>3, <1>4

LEMMA BeginInv == IInv /\ Begin => IInv'
  <1> SUFFICES ASSUME IInv, Begin PROVE IInv'
    OBVIOUS
  <1> USE PipelineAssumption DEF PipelineAssumption
  <1> DEFINE u == Head(queue)
             b == inbuf[yolo[u]]
             started == Dispatched - Len(queue) + 1
  <1>1. /\ UNCHANGED <<runVars, out, bindVars, content, done, phase>>
        /\ queue # <<>> /\ queue \in Seq(Frames)
        /\ running' = running \cup {u} /\ queue' = Tail(queue)
        /\ stage' = [stage EXCEPT ![u] = "read"]
        /\ src' = [src EXCEPT ![u] = b]
        /\ img' = [img EXCEPT ![u] = IF InList(b) THEN content[b] ELSE NoImage]
    BY DEF Begin, Pool!Start, IInv, TypeOK, Pool!TypeOK
  <1>2. /\ u \in Frames /\ Len(queue) \in Nat \ {0} /\ u = queue[1]
        /\ Len(queue') = Len(queue) - 1 /\ queue' \in Seq(Frames)
        /\ \A i \in 1..Len(queue') : queue'[i] = queue[i + 1]
    BY <1>1
  <1>3. b \in Images
    BY <1>2 DEF IInv, TypeOK
  <1>4. img' \in [Frames -> Images]
    <2>1. InList(b) => b \in Frames
      BY <1>1 DEF InList, IInv, TypeOK
    <2> QED
      BY <2>1, <1>1, <1>2 DEF IInv, TypeOK, Images
  <1>5. TypeOK'
    BY <1>1, <1>2, <1>3, <1>4
       DEF IInv, TypeOK, Pool!TypeOK, runVars, bindVars, Stages
  <1>6. PoolShape'
    <2>1. Dispatched' = Dispatched /\ Dispatched \in Nat /\ u = started
      BY <1>1, <1>2, RunUntouched
         DEF IInv, TypeOK, ListShape, PoolShape, Dispatched, Frames
    <2>2. /\ \A i \in 1..Len(queue') : queue'[i] = Dispatched' - Len(queue') + i
          /\ Len(queue') <= Dispatched'
      BY <2>1, <1>2 DEF IInv, PoolShape
    <2>3. running' \cup done' = 1..(Dispatched' - Len(queue'))
      BY <2>1, <1>1, <1>2 DEF IInv, PoolShape
    <2>4. u \notin done
      BY <2>1, <1>2 DEF IInv, PoolShape
    <2>5. running' \cap done' = {}
      BY <2>4, <1>1 DEF IInv, PoolShape
    <2>6. \A v \in Frames : stage'[v] # "none" => v \in running'
      BY <1>1, <1>2 DEF IInv, PoolShape, TypeOK
    <2> QED
      BY <2>2, <2>3, <2>5, <2>6, <1>1 DEF IInv, PoolShape
  <1> QED
    BY <1>1, <1>5, <1>6, RunUntouched DEF IInv

LEMMA InferInv ==
    ASSUME IInv, NEW u \in Frames, Infer(u)
    PROVE  IInv'
  <1> USE DEF runVars, bindVars, poolVars
  <1>1. CASE EndRead(u) \/ BeginWrite(u)
    <2>1. /\ UNCHANGED <<runVars, src, img, out, bindVars, content, poolVars>>
          /\ stage[u] # "none"
          /\ \E s \in {"infer", "write"} : stage' = [stage EXCEPT ![u] = s]
      BY <1>1 DEF EndRead, BeginWrite
    <2>2. TypeOK'
      BY <2>1 DEF IInv, TypeOK, Pool!TypeOK, Stages
    <2>3. PoolShape'
      BY <2>1, RunUntouched DEF IInv, PoolShape, TypeOK
    <2> QED
      BY <2>1, <2>2, <2>3, RunUntouched DEF IInv
  <1>2. CASE EndWrite(u)
    <2> DEFINE others == Writers(yolo[u]) \ {u}
    <2>1. /\ UNCHANGED <<runVars, src, bindVars, content, queue, phase>>
          /\ stage' = [stage EXCEPT ![u] = "none"]
          /\ out' = [out EXCEPT ![yolo[u]] = IF others = {} THEN img[u] ELSE NoImage]
          /\ img' = Spoiled(others)
          /\ u \in running /\ running' = running \ {u} /\ done' = done \cup {u}
      BY <1>2 DEF EndWrite, Pool!Finish
    <2>2. img' \in [Frames -> Images] /\ out' \in [Slots -> Images]
      BY <2>1, SpoiledType DEF IInv, TypeOK, Images
    <2>3. TypeOK'
      BY <2>1, <2>2 DEF IInv, TypeOK, Pool!TypeOK, Stages
    <2>4. PoolShape'
      BY <2>1, RunUntouched DEF IInv, PoolShape, TypeOK
    <2> QED
      BY <2>1, <2>3, <2>4, RunUntouched DEF IInv
  <1> QED
    BY <1>1, <1>2 DEF Infer

-----------------------------------------------------------------------------
(***************************************************************************)
(* The invariant, and what follows from it.                                *)
(***************************************************************************)

\* Every reachable state of the pipeline satisfies the inductive invariant.
THEOREM Invariance == Spec => []IInv
  <1>1. IInv /\ [Next]_vars => IInv'
    <2> SUFFICES ASSUME IInv, [Next]_vars PROVE IInv'
      OBVIOUS
    <2>1. CASE Run
      BY <2>1, PollTimeoutInv, ReadFrameInv, DispatchInv, EncodeInv, EraseInv
         DEF Run
    <2>2. CASE Begin
      BY <2>2, BeginInv
    <2>3. CASE \E u \in Frames : Infer(u)
      BY <2>3, InferInv
    <2>4. CASE UNCHANGED vars
      <3>1. TypeOK'
        BY <2>4 DEF IInv, TypeOK, Pool!TypeOK, vars, runVars, taskVars,
                    bindVars, poolVars
      <3>2. PoolShape'
        BY <2>4 DEF IInv, PoolShape, Dispatched, vars, runVars, taskVars, poolVars
      <3> QED
        BY <3>1, <3>2, <2>4, RunUntouched DEF IInv, vars, poolVars
    <2> QED
      BY <2>1, <2>2, <2>3, <2>4 DEF Next
  <1> QED
    BY <1>1, InitInv, PTL DEF Spec

\* Type correctness of the pipeline.
THEOREM Typed == Spec => []TypeOK
  BY Invariance, PTL DEF IInv

\* No at() of TransCoder::run throws, for any number of RkYolo objects.
THEOREM NoThrow == Spec => []AtNeverThrows
  BY Invariance, PTL DEF IInv

LEMMA OldestInSlot == IInv => EncodesOldest
  <1> SUFFICES ASSUME IInv, pc = "encode"
               PROVE  frame >= N /\ yolo[frame - N + 1] = OutSlot
    BY DEF EncodesOldest
  <1> USE PipelineAssumption DEF PipelineAssumption
  <1>1. /\ frame \in Nat /\ cur \in 1..N /\ frame >= N
        /\ Dispatched = frame
    BY DEF IInv, TypeOK, ListShape, CursorShape, Dispatched
  <1>2. NextSlot \in 0..(N - 1)
    BY <1>1 DEF NextSlot
  <1>3. yolo[frame - N + 1] = IF NextSlot >= N THEN NextSlot - N
                              ELSE NextSlot - N + N
    BY <1>1 DEF IInv, YoloShape
  <1> QED
    BY <1>1, <1>2, <1>3, SlotMod DEF OutSlot

\* Whatever the timeouts did to the cursor, the slot about to be encoded is
\* that of the oldest frame of the list.
THEOREM EncodeOrder == Spec => []EncodesOldest
  BY OldestInSlot, Invariance, PTL

\* How many iterations the buffer given to a task stays in the list.
THEOREM BufferLifetime == Spec => []InputLifetime
  <1>1. IInv => InputLifetime
    <2> SUFFICES ASSUME IInv, NEW u \in Frames,
                        N < u, u <= Dispatched, Alive
                 PROVE  InList(bound[u]) <=> \/ frame - u < yolo[u]
                                             \/ frame - u = yolo[u] /\ pc # "poll"
      BY DEF InputLifetime
    <2> USE PipelineAssumption DEF PipelineAssumption
    <2>1. /\ frame \in Nat /\ u \in Nat /\ u <= frame
          /\ yolo[u] \in 0..(N - 1)
          /\ bound[u] = u - N + 1 + yolo[u]
      BY DEF IInv, TypeOK, Dispatched, BoundShape, Frames, Slots
    <2>2. Len(inList) = IF pc = "poll" THEN N - 1 ELSE N
      BY <2>1 DEF IInv, ListShape
    <2>3. InList(bound[u]) <=> bound[u] > frame - Len(inList) /\ bound[u] <= frame
      <3>1. ASSUME NEW j \in 1..Len(inList), inList[j] = bound[u]
            PROVE  bound[u] > frame - Len(inList) /\ bound[u] <= frame
        BY <3>1, <2>1, <2>2 DEF IInv, ListShape
      <3>2. ASSUME bound[u] > frame - Len(inList), bound[u] <= frame
            PROVE  InList(bound[u])
        <4> DEFINE j == bound[u] - (frame - Len(inList))
        <4>1. j \in 1..Len(inList) /\ frame - Len(inList) + j = bound[u]
          BY <3>2, <2>1, <2>2
        <4> QED
          BY <4>1 DEF IInv, ListShape, InList
      <3> QED
        BY <3>1, <3>2 DEF InList
    <2> QED
      BY <2>1, <2>2, <2>3
  <1> QED
    BY <1>1, Invariance, PTL

LEMMA ShiftInjective ==
    ASSUME NEW n \in Nat, NEW s \in 0..(n - 1), NEW a \in 1..n, NEW b \in 1..n,
           (IF s >= a THEN s - a ELSE s - a + n) = (IF s >= b THEN s - b ELSE s - b + n)
    PROVE  a = b
  <1>1. CASE s >= a
    BY <1>1
  <1>2. CASE s < a
    BY <1>2
  <1> QED
    BY <1>1, <1>2

\* Two of the last N frames never share a slot.
LEMMA SlotsDiffer ==
    ASSUME IInv,
           NEW u \in 1..Dispatched, NEW v \in 1..Dispatched,
           u > Dispatched - N, v > Dispatched - N, yolo[u] = yolo[v]
    PROVE  u = v
  <1> USE PipelineAssumption DEF PipelineAssumption
  <1>1. Dispatched \in Int /\ NextSlot \in 0..(N - 1)
    BY NextSlotType DEF IInv, TypeOK, Dispatched, Slots
  <1>2. /\ yolo[u] = IF NextSlot >= Dispatched + 1 - u
                     THEN NextSlot - (Dispatched + 1 - u)
                     ELSE NextSlot - (Dispatched + 1 - u) + N
        /\ yolo[v] = IF NextSlot >= Dispatched + 1 - v
                     THEN NextSlot - (Dispatched + 1 - v)
                     ELSE NextSlot - (Dispatched + 1 - v) + N
    BY DEF IInv, YoloShape
  <1>3. Dispatched + 1 - u \in 1..N /\ Dispatched + 1 - v \in 1..N
    BY <1>1
  <1>4. Dispatched + 1 - u = Dispatched + 1 - v
    BY <1>1, <1>2, <1>3, ShiftInjective
  <1> QED
    BY <1>1, <1>4

\* The slot at the cursor served none of the last N - 1 frames.
LEMMA NextSlotFresh ==
    ASSUME IInv, NEW u \in 1..Dispatched, u > Dispatched - N + 1
    PROVE  yolo[u] # NextSlot
  <1> USE PipelineAssumption DEF PipelineAssumption
  <1>1. Dispatched \in Int /\ NextSlot \in 0..(N - 1)
    BY NextSlotType DEF IInv, TypeOK, Dispatched, Slots
  <1>2. yolo[u] = IF NextSlot >= Dispatched + 1 - u
                  THEN NextSlot - (Dispatched + 1 - u)
                  ELSE NextSlot - (Dispatched + 1 - u) + N
    BY <1>1 DEF IInv, YoloShape
  <1> QED
    BY <1>1, <1>2

\* An inference that keeps up is one of the last Lag frames.
LEMMA RecentTasks ==
    ASSUME IInv, NEW u \in (1..Dispatched) \ done
    PROVE  u > frame - Lag /\ u <= frame /\ u \in Int
  BY PipelineAssumption
     DEF PipelineAssumption, IInv, TypeOK, Paced, Outstanding, Dispatched

\* No RkYolo object serves two tasks at a time as long as inference takes at
\* most N frames.
THEOREM Exclusive == Spec => []YoloExclusive
  <1>1. IInv => YoloExclusive
    <2> SUFFICES ASSUME IInv, Lag <= N,
                        NEW u \in (1..Dispatched) \ done,
                        NEW v \in (1..Dispatched) \ done,
                        yolo[u] = yolo[v]
                 PROVE  u = v
      BY DEF YoloExclusive
    <2>1. u > Dispatched - N /\ v > Dispatched - N
      BY RecentTasks, PipelineAssumption
         DEF PipelineAssumption, IInv, TypeOK, Dispatched
    <2> QED
      BY <2>1, SlotsDiffer
  <1> QED
    BY <1>1, Invariance, PTL

LEMMA ExecutedInTime == IInv => ExecutedBeforeEncode
  <1> SUFFICES ASSUME IInv, Lag < N, pc = "encode"
               PROVE  frame - N + 1 \in done /\ Writers(OutSlot) = {}
    BY DEF ExecutedBeforeEncode
  <1> USE PipelineAssumption DEF PipelineAssumption
  <1> DEFINE k == frame - N + 1
  <1>1. /\ frame \in Nat /\ frame >= N /\ Dispatched = frame
        /\ k \in 1..Dispatched /\ k > Dispatched - N
    BY DEF IInv, TypeOK, ListShape, Dispatched
  <1>2. k \in done
    BY <1>1, RecentTasks
  <1>3. yolo[k] = OutSlot
    <2>1. cur \in 1..N /\ NextSlot \in 0..(N - 1) /\ OutSlot = NextSlot
      BY SlotMod DEF IInv, TypeOK, CursorShape, NextSlot, OutSlot
    <2> QED
      BY <2>1, <1>1 DEF IInv, YoloShape
  <1>4. ASSUME NEW w \in Writers(OutSlot) PROVE FALSE
    <2>1. w \in Frames /\ w \in running /\ yolo[w] = OutSlot
      BY <1>4 DEF Writers, IInv, PoolShape
    <2>2. w \in (1..Dispatched) \ done
      BY <2>1, <1>1 DEF IInv, PoolShape, TypeOK, Pool!TypeOK
    <2>3. w > k
      BY <2>2, <1>1, RecentTasks
    <2> QED
      BY <2>1, <2>2, <2>3, <1>1, <1>3, SlotsDiffer
  <1> QED
    BY <1>2, <1>4

\* An inference that takes fewer than N frames is over when its slot is
\* encoded, and no other task writes that slot.
THEOREM Executed == Spec => []ExecutedBeforeEncode
  BY ExecutedInTime, Invariance, PTL

-----------------------------------------------------------------------------
(***************************************************************************)
(* The images, for an inference that takes at most half of N frames.  The  *)
(* parts below are an inductive invariant on top of IInv.                  *)
(***************************************************************************)

\* The frame buffer of u: where its read went, and what SetBuffers gave it.
BufferOf(u) == IF u > Dispatched THEN inList[cur + 1] ELSE bound[u]

\* The pointers of an RkYolo are those of the last frame it served, and the
\* first N frames take the slots in order.
HandedShape ==
    /\ \A u \in 1..Dispatched : u > Dispatched - N => inbuf[yolo[u]] = bound[u]
    /\ \A u \in 1..Dispatched : u <= N => yolo[u] = u - 1

\* What was read into a buffer stays there until its inference starts.
FilledShape ==
    /\ copied \subseteq 1..frame
    /\ \A u \in copied \ (running \cup done) : content[BufferOf(u)] = u

\* An inference reads its own buffer, and has its own image from it, or none
\* where the buffer may have been freed meanwhile.
HeldShape ==
    /\ \A u \in Frames : stage[u] = "read" => src[u] = bound[u]
    /\ \A u \in copied \cap (running \cup done) :
          /\ img[u] \in {u, NoImage}
          /\ u <= N \/ yolo[u] >= Lag => img[u] = u

\* An output buffer holds the image of the last frame it served, and the
\* encoder got the one that was due.
OutShape ==
    /\ \A u \in done : u > Dispatched - N => out[yolo[u]] = img[u]
    /\ pc = "erase" /\ resize = "whole" =>
          /\ frame - N + 1 \in done
          /\ fed = img[frame - N + 1]

ImageInv ==
    /\ HandedShape
    /\ FilledShape
    /\ HeldShape
    /\ OutShape

\* Where run() stands between the queue and the list.
LEMMA Placed ==
    ASSUME IInv
    PROVE  /\ frame \in 0..MaxFrame /\ Dispatched \in 0..frame
           /\ pc # "dispatch" => Dispatched = frame
           /\ pc = "dispatch" => Dispatched = frame - 1 /\ frame \in Frames
           /\ running \cup done \subseteq 1..Dispatched
           /\ running \cap done = {}
           /\ \A u \in Frames : yolo[u] \in 0..(N - 1)
  <1>1. /\ frame \in 0..MaxFrame /\ Dispatched \in 0..frame
        /\ pc # "dispatch" => Dispatched = frame
        /\ pc = "dispatch" => Dispatched = frame - 1 /\ frame \in Frames
    BY PipelineAssumption
       DEF PipelineAssumption, IInv, TypeOK, ListShape, Dispatched, Frames
  <1>2. running \cup done = 1..(Dispatched - Len(queue)) /\ Len(queue) \in Nat
    BY DEF IInv, PoolShape, TypeOK, Pool!TypeOK
  <1>3. running \cup done \subseteq 1..Dispatched
    BY <1>1, <1>2
  <1>4. running \cap done = {}
    BY DEF IInv, PoolShape
  <1>5. \A u \in Frames : yolo[u] \in 0..(N - 1)
    BY DEF IInv, TypeOK, Slots
  <1> QED
    BY <1>1, <1>3, <1>4, <1>5

\* The position of the cursor in the list names the frame that went there.
LEMMA AtCursor ==
    ASSUME IInv, pc = "dispatch"
    PROVE  /\ cur \in 0..(N - 1) /\ frame \in Frames
           /\ inList[cur + 1] = IF frame <= N THEN frame ELSE frame - N + 1 + cur
           /\ frame <= N => cur = frame - 1
  <1> USE PipelineAssumption DEF PipelineAssumption
  <1>1. cur \in 0..(N - 1) /\ frame \in Frames /\ (frame <= N => cur = frame - 1)
    BY DEF IInv, TypeOK, CursorShape, ListShape, Frames
  <1>2. Len(inList) = IF frame < N THEN frame ELSE N
    BY DEF IInv, ListShape
  <1>3. cur + 1 \in 1..Len(inList)
    BY <1>1, <1>2 DEF Frames
  <1>4. inList[cur + 1] = frame - Len(inList) + (cur + 1)
    BY <1>3 DEF IInv, ListShape
  <1> QED
    BY <1>1, <1>2, <1>4 DEF Frames

\* A dispatched frame has a buffer.
LEMMA BoundType ==
    ASSUME IInv, NEW u \in 1..Dispatched
    PROVE  bound[u] \in Frames
  <1> USE PipelineAssumption DEF PipelineAssumption
  <1>1. u \in Frames /\ yolo[u] \in 0..(N - 1)
    BY Placed DEF Frames
  <1>2. bound[u] = IF u <= N THEN u ELSE u - N + 1 + yolo[u]
    BY DEF IInv, BoundShape
  <1> QED
    BY <1>1, <1>2 DEF Frames

\* A step that leaves the images, the pool and the dispatched frames alone.
LEMMA ImagesKept ==
    ASSUME IInv, ImageInv,
           UNCHANGED <<frame, copied, content, bindVars, stage, src, running, done>>,
           Dispatched = frame, Dispatched' = frame,
           HeldShape', OutShape'
    PROVE  ImageInv'
  <1>1. HandedShape'
    BY DEF ImageInv, HandedShape, bindVars
  <1>2. FilledShape'
    <2>1. copied \subseteq 1..frame
      BY DEF ImageInv, FilledShape
    <2>2. \A u \in copied : u \in Int /\ ~(u > Dispatched) /\ ~(u > Dispatched')
      BY <2>1, Placed
    <2>3. \A u \in copied : BufferOf(u) = bound[u] /\ BufferOf(u)' = bound[u]
      BY <2>2 DEF BufferOf, bindVars
    <2> QED
      BY <2>1, <2>3 DEF ImageInv, FilledShape
  <1> QED
    BY <1>1, <1>2 DEF ImageInv

LEMMA PollTimeoutImages ==
    ASSUME IInv, ImageInv, PollTimeout
    PROVE  ImageInv'
  <1>1. /\ Dispatched = frame /\ Dispatched' = frame
        /\ pc = "poll" /\ pc' = "poll"
        /\ UNCHANGED <<frame, copied, content, bindVars, stage, src, running, done>>
        /\ UNCHANGED <<img, out, yolo, bound>>
    BY DEF PollTimeout, Dispatched, taskVars, bindVars, poolVars
  <1>2. HeldShape'
    BY <1>1 DEF ImageInv, HeldShape
  <1>3. OutShape'
    BY <1>1 DEF ImageInv, OutShape
  <1> QED
    BY <1>1, <1>2, <1>3, ImagesKept

\* The buffer the next frame is read into is named by this frame while the
\* list fills, and by an older one where the cursor is behind the end.
LEMMA TargetFrame ==
    ASSUME IInv, pc = "poll", frame < MaxFrame
    PROVE  LET v == frame + 1
               T == ReadTarget(Append(inList, v))
           IN  /\ T \in Frames
               /\ T = IF v <= N THEN v ELSE v - N + 1 + NextSlot
  <1> USE PipelineAssumption DEF PipelineAssumption
  <1> DEFINE v == frame + 1
             T == ReadTarget(Append(inList, v))
  <1>1. /\ frame \in Nat /\ v \in Frames
        /\ cur \in 0..N /\ NextSlot \in 0..(N - 1)
        /\ inList \in Seq(Frames)
    BY NextSlotType DEF IInv, TypeOK, Slots, Frames
  <1>2. Len(inList) = IF frame < N THEN frame ELSE N - 1
    BY DEF IInv, ListShape
  <1>3. frame < N => NextSlot = frame
    BY <1>1 DEF IInv, CursorShape, NextSlot
  <1>4. /\ NextSlot + 1 \in 1..(Len(inList) + 1)
        /\ Len(Append(inList, v)) = Len(inList) + 1
    BY <1>1, <1>2, <1>3
  <1>5. T = frame + 1 - (Len(inList) + 1) + (NextSlot + 1)
    <2>1. CASE NextSlot + 1 = Len(inList) + 1
      BY <2>1, <1>1, <1>2 DEF ReadTarget
    <2>2. CASE NextSlot + 1 \in 1..Len(inList)
      <3>1. T = inList[NextSlot + 1]
        BY <2>2, <1>1 DEF ReadTarget
      <3>2. inList[NextSlot + 1] = frame - Len(inList) + (NextSlot + 1)
        BY <2>2 DEF IInv, ListShape
      <3> QED
        BY <3>1, <3>2, <1>1, <1>2
    <2> QED
      BY <2>1, <2>2, <1>4, <1>1, <1>2
  <1>6. T \in Frames
    BY <1>1, <1>4 DEF ReadTarget
  <1> HIDE DEF T
  <1>7. T = IF v <= N THEN v ELSE v - N + 1 + NextSlot
    BY <1>1, <1>2, <1>3, <1>5
  <1> QED
    BY <1>6, <1>7 DEF T

\* While inference keeps up, that buffer belongs to no frame whose inference
\* is not over: the buffers of two frames d apart are 2 * d positions apart,
\* or 2 * d - N.
LEMMA TargetIsFree ==
    ASSUME IInv, HandedShape, 2 * Lag <= N, pc = "poll", frame < MaxFrame,
           NEW u \in 1..frame, u + Lag > frame + 1
    PROVE  ReadTarget(Append(inList, frame + 1)) # bound[u]
  <1> USE PipelineAssumption DEF PipelineAssumption
  <1> DEFINE v == frame + 1
             T == ReadTarget(Append(inList, frame + 1))
  <1>1. /\ frame \in Nat /\ Dispatched = frame
        /\ cur \in 0..N /\ NextSlot \in 0..(N - 1)
    BY NextSlotType DEF IInv, TypeOK, Dispatched, Slots
  <1>2. T = IF v <= N THEN v ELSE v - N + 1 + NextSlot
    BY TargetFrame
  <1>3. yolo[u] = IF NextSlot >= v - u THEN NextSlot - (v - u)
                  ELSE NextSlot - (v - u) + N
    BY <1>1 DEF IInv, YoloShape
  <1>4. bound[u] = IF u <= N THEN u ELSE u - N + 1 + yolo[u]
    BY <1>1 DEF IInv, BoundShape
  <1>5. u <= N => yolo[u] = u - 1
    BY <1>1 DEF HandedShape
  <1> SUFFICES T # bound[u]
    OBVIOUS
  <1> HIDE DEF T
  <1>6. CASE v <= N
    BY <1>6, <1>1, <1>2, <1>4
  <1>7. CASE v > N /\ u <= N
    <2>1. NextSlot = v - 1 - N
      BY <1>7, <1>1, <1>3, <1>5
    <2> QED
      BY <2>1, <1>7, <1>1, <1>2, <1>4
  <1>8. CASE u > N
    BY <1>8, <1>1, <1>2, <1>3, <1>4
  <1> QED
    BY <1>6, <1>7, <1>8, <1>1

LEMMA ReadFrameImages ==
    ASSUME IInv, ImageInv, 2 * Lag <= N,
           NEW result \in ReadResults, NEW fills \in BOOLEAN,
           ReadFrame(result, fills)
    PROVE  ImageInv'
  <1> USE PipelineAssumption DEF PipelineAssumption
  <1> DEFINE T == ReadTarget(Append(inList, frame + 1))
  <1>1. /\ pc = "poll" /\ pc' \in {"dispatch", "out_of_range"}
        /\ frame' = frame + 1 /\ frame \in Nat /\ cur' = NextSlot
        /\ frame < MaxFrame /\ \A u \in Outstanding : u + Lag > frame + 1
        /\ inList' = Append(inList, frame + 1)
        /\ Dispatched = frame
        /\ UNCHANGED <<stage, src, out, fed, inbuf, yolo, bound>>
        /\ UNCHANGED <<queue, running, done, phase>>
    BY DEF ReadFrame, bindVars, poolVars, IInv, TypeOK, Dispatched
  <1>2. IInv' /\ Dispatched' = frame /\ pc' = "dispatch"
    BY <1>1, ReadFrameInv DEF Dispatched, IInv, AtNeverThrows
  <1>3. \A u \in 1..frame : u \notin done => bound[u] # T
    <2>1. \A u \in 1..frame : u \notin done => u + Lag > frame + 1
      BY <1>1 DEF Outstanding
    <2> QED
      BY <2>1, <1>1, TargetIsFree DEF ImageInv
  <1>4. running \cup done \subseteq 1..frame /\ running \cap done = {}
    BY <1>1, Placed
  <1>5. copied \subseteq 1..frame /\ copied' \subseteq copied \cup {frame + 1}
    BY DEF ImageInv, FilledShape, ReadFrame
  <1>6. img' = img
    <2>1. Readers(T) = {}
      <3> SUFFICES ASSUME NEW u \in Readers(T) PROVE FALSE
        OBVIOUS
      <3>1. u \in Frames /\ stage[u] = "read" /\ src[u] = T
        BY DEF Readers
      <3>2. u \in running /\ src[u] = bound[u]
        BY <3>1 DEF IInv, PoolShape, ImageInv, HeldShape
      <3> QED
        BY <3>1, <3>2, <1>3, <1>4
    <2>2. img' = img \/ img' = Spoiled({})
      BY <2>1 DEF ReadFrame
    <2>3. Spoiled({}) = img
      BY DEF Spoiled, IInv, TypeOK
    <2> QED
      BY <2>2, <2>3
  <1>7. HandedShape'
    BY <1>1, <1>2 DEF ImageInv, HandedShape
  <1>8. FilledShape'
    <2>1. copied' \subseteq 1..frame'
      BY <1>1, <1>5
    <2>2. ASSUME NEW u \in copied' \ (running \cup done)
          PROVE  content'[BufferOf(u)'] = u
      <3>1. CASE u = frame + 1
        <4>1. /\ u \notin copied
              /\ content' = [content EXCEPT ![T] = frame + 1]
          BY <3>1, <2>2, <1>1, <1>5 DEF ReadFrame
        <4>2. BufferOf(u)' = T
          <5>1. u > Dispatched'
            BY <3>1, <1>1, <1>2
          <5>2. BufferOf(u)' = inList'[cur' + 1]
            BY <5>1 DEF BufferOf
          <5> QED
            BY <5>2, <1>1 DEF ReadTarget
        <4>3. T \in Frames
          BY <1>1, TargetFrame
        <4> QED
          BY <3>1, <4>1, <4>2, <4>3 DEF IInv, TypeOK
      <3>2. CASE u # frame + 1
        <4>1. u \in copied /\ u \in 1..frame
          BY <3>2, <2>2, <1>5
        <4>2. BufferOf(u) = bound[u] /\ BufferOf(u)' = bound[u]
          BY <4>1, <1>1, <1>2 DEF BufferOf
        <4>3. content[bound[u]] = u
          BY <4>1, <4>2, <2>2 DEF ImageInv, FilledShape
        <4>4. bound[u] # T
          BY <4>1, <2>2, <1>3
        <4>5. content' = content \/ content' = [content EXCEPT ![T] = frame + 1]
          BY DEF ReadFrame
        <4>6. content \in [Frames -> Images] /\ bound[u] \in Frames
          BY <4>1, <1>1, BoundType DEF IInv, TypeOK
        <4> HIDE DEF T
        <4> QED
          BY <4>2, <4>3, <4>4, <4>5, <4>6
      <3> QED
        BY <3>1, <3>2
    <2> QED
      BY <2>1, <2>2, <1>1 DEF FilledShape
  <1>9. HeldShape'
    <2>1. copied' \cap (running \cup done) \subseteq copied
      BY <1>1, <1>4, <1>5
    <2> QED
      BY <2>1, <1>1, <1>6 DEF ImageInv, HeldShape
  <1>10. OutShape'
    BY <1>1, <1>2, <1>6 DEF ImageInv, OutShape
  <1> QED
    BY <1>7, <1>8, <1>9, <1>10 DEF ImageInv

LEMMA DispatchImages ==
    ASSUME IInv, ImageInv, 2 * Lag <= N, Dispatch
    PROVE  ImageInv'
  <1> USE PipelineAssumption DEF PipelineAssumption
  <1>1. /\ pc = "dispatch" /\ pc' \in {"encode", "poll"}
        /\ frame' = frame /\ frame \in Frames /\ Dispatched = frame - 1
        /\ Dispatched' = frame
        /\ cur \in 0..(N - 1) /\ (frame <= N => cur = frame - 1)
        /\ yolo' = [yolo EXCEPT ![frame] = cur]
        /\ bound' = [bound EXCEPT ![frame] = inList[cur + 1]]
        /\ inbuf' = [inbuf EXCEPT ![cur] = inList[cur + 1]]
        /\ yolo \in [Frames -> Slots] /\ bound \in [Frames -> Images]
        /\ inbuf \in [Slots -> Images]
        /\ UNCHANGED <<running, done, copied, content, stage, src, img, out>>
    BY AtCursor, Placed
       DEF Dispatch, Dispatched, taskVars, IInv, TypeOK, Pool!Submit
  <1>2. IInv'
    BY DispatchInv
  <1>3. running \cup done \subseteq 1..(frame - 1)
    BY <1>1, Placed
  <1>4. \A u \in 1..(frame - 1) :
            u \in Frames /\ yolo'[u] = yolo[u] /\ bound'[u] = bound[u]
    BY <1>1 DEF Frames
  <1>5. yolo'[frame] = cur /\ bound'[frame] = inList[cur + 1] /\ frame \in 1..frame
    BY <1>1 DEF Frames
  <1>6. HandedShape'
    <2>1. ASSUME NEW u \in 1..frame, u > frame - N
          PROVE  inbuf'[yolo'[u]] = bound'[u]
      <3>1. CASE u = frame
        BY <3>1, <1>1, <1>5 DEF Slots
      <3>2. CASE u # frame
        <4>1. u \in 1..(frame - 1) /\ u > (frame - 1) - N
          BY <3>2, <2>1, <1>1 DEF Frames
        <4>2. yolo'[u] # cur
          <5>1. NextSlot = cur
            BY <1>1 DEF NextSlot
          <5>2. u \in 1..Dispatched /\ u > Dispatched - N + 1
            BY <2>1, <3>2, <1>1 DEF Frames
          <5> QED
            BY <5>1, <5>2, <4>1, <1>4, NextSlotFresh
        <4>3. inbuf[yolo[u]] = bound[u]
          BY <4>1, <1>1 DEF ImageInv, HandedShape
        <4> QED
          BY <4>1, <4>2, <4>3, <1>1, <1>4
      <3> QED
        BY <3>1, <3>2
    <2>2. ASSUME NEW u \in 1..frame, u <= N
          PROVE  yolo'[u] = u - 1
      <3>1. CASE u = frame
        BY <3>1, <2>2, <1>1, <1>5
      <3>2. CASE u # frame
        <4>1. u \in 1..(frame - 1)
          BY <3>2, <1>1 DEF Frames
        <4> QED
          BY <4>1, <2>2, <1>1, <1>4 DEF ImageInv, HandedShape
      <3> QED
        BY <3>1, <3>2
    <2> QED
      BY <2>1, <2>2, <1>1 DEF HandedShape
  <1>7. FilledShape'
    <2>1. copied \subseteq 1..frame
      BY DEF ImageInv, FilledShape
    <2>2. ASSUME NEW u \in copied PROVE BufferOf(u)' = BufferOf(u)
      <3>1. u \in 1..frame /\ BufferOf(u)' = bound'[u]
        BY <2>1, <2>2, <1>1 DEF BufferOf, Frames
      <3>2. CASE u = frame
        BY <3>1, <3>2, <1>1, <1>5 DEF BufferOf, Frames
      <3>3. CASE u # frame
        <4>1. u \in 1..(frame - 1)
          BY <3>1, <3>3, <1>1 DEF Frames
        <4> QED
          BY <3>1, <4>1, <1>1, <1>4 DEF BufferOf, Frames
      <3> QED
        BY <3>2, <3>3
    <2> QED
      BY <2>1, <2>2, <1>1 DEF ImageInv, FilledShape
  <1>8. HeldShape'
    <2>1. \A u \in Frames : stage[u] = "read" => u \in running
      BY DEF IInv, PoolShape
    <2> QED
      BY <2>1, <1>1, <1>3, <1>4 DEF ImageInv, HeldShape
  <1>9. OutShape'
    <2>1. ASSUME NEW u \in done, u > frame - N
          PROVE  out'[yolo'[u]] = img'[u]
      <3>1. u \in 1..(frame - 1)
        BY <1>3
      <3>2. u > (frame - 1) - N
        BY <2>1, <3>1, <1>1 DEF Frames
      <3> QED
        BY <3>1, <3>2, <1>1, <1>4 DEF ImageInv, OutShape
    <2> QED
      BY <2>1, <1>1 DEF OutShape
  <1> QED
    BY <1>6, <1>7, <1>8, <1>9 DEF ImageInv

LEMMA EncodeImages ==
    ASSUME IInv, ImageInv, 2 * Lag <= N,
           Encode \/ EncodeBadSize \/ EncodeFails
    PROVE  ImageInv'
  <1> USE PipelineAssumption DEF PipelineAssumption
  <1>1. /\ pc = "encode" /\ pc' \in {"erase", "bad_size", "bad_packet"}
        /\ Dispatched = frame /\ Dispatched' = frame
        /\ UNCHANGED <<frame, copied, content, bindVars, stage, src, running, done>>
        /\ UNCHANGED <<img, out, yolo, bound, resize>>
    BY DEF Encode, EncodeBadSize, EncodeFails, Dispatched, taskVars, bindVars, poolVars
  <1>2. HeldShape'
    BY <1>1 DEF ImageInv, HeldShape
  <1>3. OutShape'
    <2>1. ASSUME Encode, resize = "whole"
          PROVE  frame - N + 1 \in done /\ fed' = img[frame - N + 1]
      <3>1. /\ frame - N + 1 \in done /\ Writers(OutSlot) = {}
            /\ yolo[frame - N + 1] = OutSlot /\ frame \in Nat
        <4>1. Lag < N
          OBVIOUS
        <4> QED
          BY <4>1, <1>1, ExecutedInTime, OldestInSlot
             DEF ExecutedBeforeEncode, EncodesOldest, IInv, TypeOK
      <3>2. fed' = out[OutSlot]
        BY <2>1, <3>1 DEF Encode
      <3>3. out[OutSlot] = img[frame - N + 1]
        BY <3>1, <1>1 DEF ImageInv, OutShape
      <3> QED
        BY <3>1, <3>2, <3>3
    <2>2. pc' = "erase" /\ resize' = "whole" => Encode /\ resize = "whole"
      BY <1>1 DEF Encode, EncodeBadSize, EncodeFails
    <2>3. \A u \in done' : u > Dispatched' - N => out'[yolo'[u]] = img'[u]
      BY <1>1 DEF ImageInv, OutShape
    <2> QED
      BY <2>1, <2>2, <2>3, <1>1 DEF OutShape
  <1> QED
    BY <1>1, <1>2, <1>3, ImagesKept

\* Until its inference is over, a frame of the first N, or one served by a
\* slot no smaller than Lag, keeps its buffer through the erase at the front.
LEMMA BufferKept ==
    ASSUME IInv, 2 * Lag <= N,
           NEW u \in (1..Dispatched) \ done, u <= N \/ yolo[u] >= Lag
    PROVE  /\ InList(bound[u])
           /\ pc = "erase" => bound[u] # Head(inList)
  <1> USE PipelineAssumption DEF PipelineAssumption
  <1>1. /\ frame \in Nat /\ u \in Nat /\ u >= 1 /\ u <= frame /\ u > frame - Lag
        /\ u \in Frames /\ yolo[u] \in 0..(N - 1) /\ Dispatched <= frame
    BY RecentTasks, Placed DEF Frames
  <1>2. bound[u] = IF u <= N THEN u ELSE u - N + 1 + yolo[u]
    BY DEF IInv, BoundShape
  <1>3. /\ inList \in Seq(Frames)
        /\ Len(inList) = IF frame < N THEN frame
                         ELSE IF pc = "poll" THEN N - 1 ELSE N
        /\ pc = "dispatch" => u < frame
    BY <1>1 DEF IInv, ListShape, TypeOK, Dispatched
  <1>4. bound[u] > frame - Len(inList) /\ bound[u] <= frame
    BY <1>1, <1>2, <1>3
  <1>5. InList(bound[u])
    <2> DEFINE j == bound[u] - (frame - Len(inList))
    <2>1. Len(inList) \in Nat /\ bound[u] \in Int
      BY <1>1, <1>2, <1>3
    <2>2. j \in 1..Len(inList) /\ frame - Len(inList) + j = bound[u]
      BY <1>1, <1>4, <2>1
    <2> QED
      BY <2>2 DEF IInv, ListShape, InList
  <1>6. ASSUME pc = "erase" PROVE bound[u] # Head(inList)
    <2>1. Len(inList) = N /\ frame >= N
      BY <1>6 DEF IInv, ListShape
    <2>2. Head(inList) = frame - N + 1
      BY <2>1, <1>3 DEF IInv, ListShape
    <2> QED
      BY <2>1, <2>2, <1>1, <1>2
  <1> QED
    BY <1>5, <1>6

LEMMA EraseImages ==
    ASSUME IInv, ImageInv, 2 * Lag <= N, Erase
    PROVE  ImageInv'
  <1>1. /\ pc = "erase" /\ pc' = "poll"
        /\ Dispatched = frame /\ Dispatched' = frame
        /\ img' = Spoiled(Readers(Head(inList)))
        /\ UNCHANGED <<frame, copied, content, bindVars, stage, src, running, done>>
        /\ UNCHANGED <<out, yolo, bound>>
    BY DEF Erase, Dispatched, bindVars, poolVars
  <1>2. /\ running \cup done \subseteq 1..Dispatched /\ running \cap done = {}
        /\ \A u \in Frames : stage[u] = "read" => u \in running
        /\ running \cup done \subseteq Frames
    BY Placed DEF IInv, PoolShape, TypeOK, Pool!TypeOK
  <1>3. \A u \in Frames : img'[u] = IF u \in Readers(Head(inList)) THEN NoImage
                                    ELSE img[u]
    BY <1>1 DEF Spoiled
  <1>4. HeldShape'
    <2> SUFFICES ASSUME NEW u \in copied \cap (running \cup done)
                 PROVE  /\ img'[u] \in {u, NoImage}
                        /\ u <= N \/ yolo[u] >= Lag => img'[u] = u
      BY <1>1 DEF ImageInv, HeldShape
    <2>1. /\ img[u] \in {u, NoImage}
          /\ u <= N \/ yolo[u] >= Lag => img[u] = u
          /\ u \in Frames
      BY <1>2 DEF ImageInv, HeldShape
    <2>2. CASE u \in Readers(Head(inList))
      <3>1. stage[u] = "read" /\ src[u] = Head(inList) /\ src[u] = bound[u]
        BY <2>1, <2>2 DEF Readers, ImageInv, HeldShape
      <3>2. u \in (1..Dispatched) \ done
        BY <3>1, <2>1, <1>2
      <3>3. ~(u <= N \/ yolo[u] >= Lag)
        BY <3>1, <3>2, <1>1, BufferKept
      <3> QED
        BY <3>3, <2>1, <2>2, <1>3
    <2>3. CASE u \notin Readers(Head(inList))
      BY <2>1, <2>3, <1>3
    <2> QED
      BY <2>2, <2>3
  <1>5. OutShape'
    <2>1. \A u \in done : img'[u] = img[u]
      BY <1>2, <1>3 DEF Readers
    <2> QED
      BY <2>1, <1>1 DEF ImageInv, OutShape
  <1> QED
    BY <1>1, <1>4, <1>5, ImagesKept

LEMMA BeginImages ==
    ASSUME IInv, ImageInv, 2 * Lag <= N, Begin
    PROVE  ImageInv'
  <1> USE PipelineAssumption DEF PipelineAssumption
  <1> DEFINE u == Head(queue)
             b == inbuf[yolo[u]]
  <1>1. /\ UNCHANGED <<runVars, out, bindVars, content, done, phase>>
        /\ queue # <<>> /\ queue \in Seq(Frames)
        /\ running' = running \cup {u}
        /\ stage' = [stage EXCEPT ![u] = "read"]
        /\ src' = [src EXCEPT ![u] = b]
        /\ img' = [img EXCEPT ![u] = IF InList(b) THEN content[b] ELSE NoImage]
        /\ Dispatched' = Dispatched
    BY DEF Begin, Pool!Start, IInv, TypeOK, Pool!TypeOK, Dispatched, runVars
  <1>2. /\ u \in Frames /\ u \in (1..Dispatched) \ done /\ u \notin running
    <2>1. u = queue[1] /\ Len(queue) \in Nat \ {0} /\ u \in Frames
      BY <1>1
    <2>2. u = Dispatched - Len(queue) + 1 /\ Len(queue) <= Dispatched
      BY <2>1 DEF IInv, PoolShape
    <2>3. running \cup done = 1..(Dispatched - Len(queue))
      BY DEF IInv, PoolShape
    <2>4. Dispatched \in Nat
      BY Placed
    <2> QED
      BY <2>1, <2>2, <2>3, <2>4
  <1>3. b = bound[u]
    <2>1. u > Dispatched - N
      BY <1>2, RecentTasks, Placed
    <2> QED
      BY <1>2, <2>1 DEF ImageInv, HandedShape
  <1>4. HandedShape'
    BY <1>1 DEF ImageInv, HandedShape, bindVars
  <1>5. FilledShape'
    <2>1. \A v \in copied : BufferOf(v)' = BufferOf(v)
      BY <1>1 DEF BufferOf, runVars, bindVars
    <2> QED
      BY <2>1, <1>1 DEF ImageInv, FilledShape, runVars
  <1> HIDE DEF u, b
  <1>6. HeldShape'
    <2>1. ASSUME NEW v \in Frames, stage'[v] = "read" PROVE src'[v] = bound'[v]
      BY <2>1, <1>1, <1>2, <1>3 DEF ImageInv, HeldShape, bindVars, IInv, TypeOK
    <2>2. ASSUME NEW v \in copied \cap (running' \cup done)
          PROVE  /\ img'[v] \in {v, NoImage}
                 /\ v <= N \/ yolo[v] >= Lag => img'[v] = v
      <3>1. CASE v = u
        <4>1. content[bound[u]] = u
          <5>1. BufferOf(u) = bound[u]
            BY <1>2, Placed DEF BufferOf
          <5> QED
            BY <5>1, <3>1, <2>2, <1>2 DEF ImageInv, FilledShape
        <4>2. img'[u] = IF InList(bound[u]) THEN u ELSE NoImage
          BY <4>1, <1>1, <1>2, <1>3 DEF IInv, TypeOK
        <4>3. u <= N \/ yolo[u] >= Lag => InList(bound[u])
          BY <1>2, BufferKept
        <4> QED
          BY <3>1, <4>2, <4>3
      <3>2. CASE v # u
        <4>1. v \in copied \cap (running \cup done)
          BY <2>2, <3>2, <1>1
        <4>2. img'[v] = img[v]
          BY <3>2, <1>1
        <4> QED
          BY <4>1, <4>2 DEF ImageInv, HeldShape
      <3> QED
        BY <3>1, <3>2
    <2> QED
      BY <2>1, <2>2, <1>1 DEF HeldShape, runVars, bindVars
  <1>7. OutShape'
    <2>1. \A v \in done : img'[v] = img[v]
      BY <1>1, <1>2
    <2> QED
      BY <2>1, <1>1 DEF ImageInv, OutShape, runVars, bindVars
  <1> QED
    BY <1>4, <1>5, <1>6, <1>7 DEF ImageInv

LEMMA InferImages ==
    ASSUME IInv, ImageInv, 2 * Lag <= N, NEW u \in Frames, Infer(u)
    PROVE  ImageInv'
  <1> USE PipelineAssumption DEF PipelineAssumption
  <1>0. UNCHANGED <<runVars, src, bindVars, content, queue, phase>>
    BY DEF Infer, EndRead, BeginWrite, EndWrite, poolVars, Pool!Finish
  <1>1. /\ UNCHANGED <<pc, cur, frame, resize, copied, inList, fed>>
        /\ UNCHANGED <<inbuf, yolo, bound>>
        /\ Dispatched' = Dispatched
    BY <1>0 DEF runVars, bindVars, Dispatched
  <1>2. HandedShape'
    BY <1>1 DEF ImageInv, HandedShape
  <1>3. \A v : BufferOf(v)' = BufferOf(v)
    BY <1>1 DEF BufferOf
  <1>4. stage \in [Frames -> Stages] /\ img \in [Frames -> Images]
    BY DEF IInv, TypeOK
  <1>5. CASE EndRead(u) \/ BeginWrite(u)
    <2>1. /\ UNCHANGED <<img, out, running, done>>
          /\ \E s \in {"infer", "write"} : stage' = [stage EXCEPT ![u] = s]
      BY <1>5 DEF EndRead, BeginWrite, poolVars
    <2>2. FilledShape'
      BY <2>1, <1>0, <1>1, <1>3 DEF ImageInv, FilledShape
    <2>3. HeldShape'
      BY <2>1, <1>0, <1>1, <1>4 DEF ImageInv, HeldShape
    <2>4. OutShape'
      BY <2>1, <1>1 DEF ImageInv, OutShape
    <2> QED
      BY <2>2, <2>3, <2>4, <1>2 DEF ImageInv
  <1>6. CASE EndWrite(u)
    <2> DEFINE others == Writers(yolo[u]) \ {u}
    <2>1. /\ stage' = [stage EXCEPT ![u] = "none"]
          /\ out' = [out EXCEPT ![yolo[u]] = IF others = {} THEN img[u] ELSE NoImage]
          /\ img' = Spoiled(others)
          /\ u \in running /\ running' = running \ {u} /\ done' = done \cup {u}
      BY <1>6 DEF EndWrite, Pool!Finish
    <2>2. \A v \in running : v \in (1..Dispatched) \ done /\ v > Dispatched - N
      BY Placed, RecentTasks
    <2>3. others = {}
      <3> SUFFICES ASSUME NEW w \in others PROVE FALSE
        OBVIOUS
      <3>1. w # u /\ w \in running /\ yolo[w] = yolo[u]
        BY DEF Writers, IInv, PoolShape
      <3> QED
        BY <3>1, <2>1, <2>2, SlotsDiffer
    <2>4. img' = img
      <3>1. Spoiled({}) = img
        BY <1>4 DEF Spoiled
      <3> QED
        BY <3>1, <2>1, <2>3
    <2>5. running' \cup done' = running \cup done
      BY <2>1
    <2>6. FilledShape'
      BY <2>5, <1>0, <1>1, <1>3 DEF ImageInv, FilledShape
    <2>7. HeldShape'
      BY <2>1, <2>4, <2>5, <1>0, <1>1, <1>4 DEF ImageInv, HeldShape
    <2>8. OutShape'
      <3>1. out' = [out EXCEPT ![yolo[u]] = img[u]] /\ out \in [Slots -> Images]
        BY <2>1, <2>3 DEF IInv, TypeOK
      <3>2. ASSUME NEW v \in done', v > Dispatched - N
            PROVE  out'[yolo[v]] = img[v]
        <4>1. v \in Frames /\ yolo[v] \in Slots
          BY <2>1 DEF IInv, TypeOK, Pool!TypeOK
        <4>2. CASE v = u
          BY <4>1, <4>2, <3>1
        <4>3. CASE v # u
          <5>1. v \in done /\ v \in 1..Dispatched
            BY <4>3, <2>1, Placed
          <5>2. yolo[v] # yolo[u]
            BY <5>1, <4>3, <3>2, <2>1, <2>2, SlotsDiffer
          <5>3. out[yolo[v]] = img[v]
            BY <5>1, <3>2 DEF ImageInv, OutShape
          <5> QED
            BY <5>2, <5>3, <4>1, <3>1
        <4> QED
          BY <4>2, <4>3
      <3>3. pc = "erase" /\ resize = "whole" =>
              frame - N + 1 \in done' /\ fed = img[frame - N + 1]
        BY <2>1 DEF ImageInv, OutShape
      <3> QED
        BY <3>2, <3>3, <1>1, <2>4 DEF OutShape
    <2> QED
      BY <2>6, <2>7, <2>8, <1>2 DEF ImageInv
  <1> QED
    BY <1>5, <1>6 DEF Infer

\* An inference of at most half of N frames: the picture that reaches the
\* encoder is that of the frame that is due, or torn where its buffer was
\* freed under the task; never that of another frame.
THEOREM EncodedDue == Spec => []EncodedIsDue
  <1> DEFINE Shown == 2 * Lag <= N => ImageInv
  <1>1. Init => Shown
    <2> SUFFICES ASSUME Init PROVE ImageInv
      OBVIOUS
    <2>1. Dispatched = 0 /\ copied = {} /\ done = {} /\ pc = "poll"
      BY DEF Init, Dispatched, Pool!Init
    <2>2. \A u \in Frames : stage[u] = "none"
      BY DEF Init
    <2> QED
      BY <2>1, <2>2 DEF ImageInv, HandedShape, FilledShape, HeldShape, OutShape
  <1>2. IInv /\ Shown /\ [Next]_vars => Shown'
    <2> SUFFICES ASSUME IInv, [Next]_vars, 2 * Lag <= N, ImageInv PROVE ImageInv'
      OBVIOUS
    <2>1. CASE Run
      BY <2>1, PollTimeoutImages, ReadFrameImages, DispatchImages, EncodeImages,
         EraseImages DEF Run
    <2>2. CASE Begin
      BY <2>2, BeginImages
    <2>3. CASE \E u \in Frames : Infer(u)
      BY <2>3, InferImages
    <2>4. CASE UNCHANGED vars
      <3> USE <2>4 DEF vars, runVars, taskVars, bindVars, poolVars
      <3>1. Dispatched' = Dispatched /\ \A u : BufferOf(u)' = BufferOf(u)
        BY DEF Dispatched, BufferOf
      <3> QED
        BY <3>1 DEF ImageInv, HandedShape, FilledShape, HeldShape, OutShape
    <2> QED
      BY <2>1, <2>2, <2>3, <2>4 DEF Next
  <1>3. IInv /\ Shown => EncodedIsDue
    <2> SUFFICES ASSUME IInv, ImageInv, pc = "erase", resize = "whole",
                        frame - N + 1 \in copied
                 PROVE  LET k == frame - N + 1 IN
                        /\ fed \in {k, NoImage}
                        /\ k <= N \/ yolo[k] >= Lag => fed = k
      BY DEF EncodedIsDue
    <2> QED
      BY DEF ImageInv, OutShape, HeldShape
  <1> QED
    BY <1>1, <1>2, <1>3, Invariance, PTL DEF Spec

=============================================================================
