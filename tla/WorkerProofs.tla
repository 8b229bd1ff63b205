---------------------------- MODULE WorkerProofs ----------------------------
(* Proofs about the runtime worker's two machines on the Lean side: the     *)
(* stdin ring, for every set of frames, their sizes and every capacity; and *)
(* the watchdog, for every set of requests and all delays.  They share no   *)
(* state.                                                                   *)
EXTENDS StdinRing, Liveness, TLAPS, SequenceTheorems

-----------------------------------------------------------------------------
(* The stdin ring.  What a round of the pump knows: its bytes fit, whatever *)
(* the reader has taken since, and between its copy and its store they are  *)
(* already there.                                                           *)
Round ==
  /\ pc \in {"copy", "store", "notify"} => queue # <<>>
  /\ pc \in {"copy", "store"} =>
       /\ room \in 1..(Cap - 1 - Used) /\ write + room <= Cap
       /\ queue[1].off + room <= Size[queue[1].f]
  /\ pc = "store" =>
       \A p \in Slots : write <= p /\ p < write + room => bytes[p] = <<queue[1].f, queue[1].off + (p - write) + 1>>
  /\ pc = "notify" => queue[1].off > 0

(* The queue: each frame once and unanswered, only the first one begun, and *)
(* none of it left once the last byte is stored.                            *)
Queued ==
  /\ \A k \in 1..Len(queue) : /\ queue[k].off <= Size[queue[k].f] /\ ack[queue[k].f] = "none"
                              /\ k > 1 => queue[k].off = 0
                              /\ \A j \in 1..Len(queue) : queue[j].f = queue[k].f => j = k
  /\ pc # "notify" /\ queue # <<>> => queue[1].off < Size[queue[1].f]
  /\ died => queue = <<>> /\ pc \in {"idle", "parked", "load"}

(* The last byte written is the last of a frame, or the first queued frame  *)
(* goes on after it.                                                        *)
Begun == queue # <<>> /\ queue[1].off > 0
GoesOn ==
  ~died => /\ Begun => written # <<>> /\ written[Len(written)] = <<queue[1].f, queue[1].off>>
           /\ ~Begun /\ written # <<>> => written[Len(written)][2] = Size[written[Len(written)][1]]

(* Every byte written is one of its frame's, and its frame is queued or     *)
(* answered; an acknowledged frame's last byte is written.                  *)
InQueue(q, f) == \E k \in 1..Len(q) : q[k].f = f
Written ==
  /\ \A k \in 1..Len(written) : ack[written[k][1]] # "none" \/ InQueue(queue, written[k][1])
  /\ \A f \in Frames : ack[f] = "done" => \E k \in 1..Len(written) : written[k] = <<f, Size[f]>>

(* The inductive invariant.                                                 *)
IInv == TypeOK /\ InOrder /\ Round /\ Queued /\ GoesOn /\ FramesWhole /\ Written

(* Indices wrap once.                                                       *)
LEMMA Wraps ==
  ASSUME NEW a \in 0..(2 * Cap - 1)
  PROVE  a % Cap = IF a < Cap THEN a ELSE a - Cap
<1>1. Cap \in Nat /\ Cap > 0
  BY RingAssumption
<1>2. CASE a < Cap
  BY <1>1, <1>2
<1>3. CASE a >= Cap
  BY <1>1, <1>3
<1> QED BY <1>1, <1>2, <1>3

(* The pump sees all the room but one byte.                                 *)
LEMMA FreeIsRest ==
  ASSUME TypeOK
  PROVE  Used \in 0..(Cap - 1) /\ Free = Cap - 1 - Used
<1>1. Cap \in Nat /\ Cap > 1 /\ read \in 0..(Cap - 1) /\ write \in 0..(Cap - 1)
  BY RingAssumption DEF TypeOK, Slots
<1>2. read - write - 1 + Cap \in 0..(2 * Cap - 1)
  BY <1>1
<1> QED BY <1>1, <1>2, Wraps DEF Free, Used

(* The slots in use, and the next free ones.                                *)
LEMMA UsedSlots ==
  ASSUME TypeOK
  PROVE  /\ Used \in 0..(Cap - 1) /\ (Used = 0 <=> read = write) /\ Cap \in Nat /\ Cap > 1
         /\ read \in 0..(Cap - 1) /\ write \in 0..(Cap - 1)
         /\ Used > 0 => Slot(0) = read
         /\ \A k \in 0..(Used - 1) : /\ Slot(k) \in Slots
                                     /\ \A r \in 1..(Cap - 1 - Used) : write + r <= Cap => ~(write <= Slot(k) /\ Slot(k) < write + r)
         /\ \A r \in 1..(Cap - 1 - Used) : write + r <= Cap =>
              \A k \in Used..(Used + r - 1) : Slot(k) = write + (k - Used)
BY RingAssumption DEF TypeOK, Used, Slot, Slots

(* What the types say of the queue.                                         *)
LEMMA QueueTypes ==
  ASSUME TypeOK
  PROVE  /\ Len(queue) \in Nat /\ DOMAIN queue = 1..Len(queue)
         /\ \A k \in 1..Len(queue) : /\ queue[k] \in Item /\ queue[k].f \in Frames /\ queue[k].off \in Nat
                                     /\ Size[queue[k].f] \in Nat \ {0}
         /\ queue # <<>> => /\ Head(queue) = queue[1] /\ 1 \in 1..Len(queue) /\ Tail(queue) \in Seq(Item)
                            /\ Len(Tail(queue)) = Len(queue) - 1
                            /\ \A k \in 1..(Len(queue) - 1) : Tail(queue)[k] = queue[k + 1]
         /\ queue = <<>> => Len(queue) = 0
<1>1. queue \in Seq(Item)
  BY DEF TypeOK
<1>2. Len(queue) \in Nat /\ DOMAIN queue = 1..Len(queue)
  BY <1>1, LenProperties
<1>3. ASSUME NEW k \in 1..Len(queue)
      PROVE  queue[k] \in Item /\ queue[k].f \in Frames /\ queue[k].off \in Nat /\ Size[queue[k].f] \in Nat \ {0}
  <2>1. queue[k] \in Item
    BY <1>1, ElementOfSeq
  <2> QED BY <2>1, RingAssumption DEF Item
<1>4. ASSUME queue # <<>>
      PROVE  /\ Head(queue) = queue[1] /\ 1 \in 1..Len(queue) /\ Tail(queue) \in Seq(Item)
             /\ Len(Tail(queue)) = Len(queue) - 1
             /\ \A k \in 1..(Len(queue) - 1) : Tail(queue)[k] = queue[k + 1]
  <2>1. Len(queue) \in Nat \ {0} /\ Tail(queue) \in Seq(Item) /\ Len(Tail(queue)) = Len(queue) - 1
    BY <1>1, <1>4, EmptySeq, HeadTailProperties
  <2>2. \A k \in 1..Len(Tail(queue)) : Tail(queue)[k] = queue[k + 1]
    BY <1>1, <1>4, HeadTailProperties
  <2>3. Head(queue) = queue[1]
    BY <1>1, <1>4
  <2> QED BY <2>1, <2>2, <2>3
<1>5. queue = <<>> => Len(queue) = 0
  OBVIOUS
<1> QED BY <1>2, <1>3, <1>4, <1>5

(* And of what was written.                                                 *)
LEMMA WrittenTypes ==
  ASSUME TypeOK
  PROVE  /\ Len(written) \in Nat /\ Len(consumed) \in Nat
         /\ \A k \in 1..Len(written) : written[k] \in Frames \X Nat /\ written[k][1] \in Frames /\ written[k][2] \in Nat
         /\ written # <<>> <=> Len(written) > 0
<1>1. written \in Seq(Frames \X Nat) /\ consumed \in Seq(Frames \X Nat)
  BY DEF TypeOK
<1>2. Len(written) \in Nat /\ Len(consumed) \in Nat
  BY <1>1, LenProperties
<1>3. \A k \in 1..Len(written) : written[k] \in Frames \X Nat
  BY <1>1, ElementOfSeq
<1>4. written # <<>> <=> Len(written) > 0
  BY <1>1, <1>2, EmptySeq
<1> QED BY <1>2, <1>3, <1>4

(* At the start nothing is queued or written.                               *)
LEMMA InitIInv == Init => IInv
<1> SUFFICES ASSUME Init PROVE IInv
  OBVIOUS
<1>1. TypeOK
  <2>1. queue \in Seq(Item) /\ written \in Seq(Frames \X Nat) /\ consumed \in Seq(Frames \X Nat)
    BY EmptySeq DEF Init
  <2>2. read \in Slots /\ write \in Slots /\ DOMAIN bytes = Slots
    BY RingAssumption DEF Init, Slots
  <2> QED BY <2>1, <2>2 DEF Init, TypeOK
<1>2. Used = 0 /\ Len(written) = 0 /\ Len(consumed) = 0 /\ Len(queue) = 0
  BY DEF Init, Used
<1>3. InOrder /\ Round /\ Queued /\ GoesOn /\ FramesWhole /\ Written
  BY <1>2 DEF Init, InOrder, Round, Queued, GoesOn, Begun, FramesWhole, Written
<1> QED BY <1>1, <1>3 DEF IInv

(* A step that leaves the ring's contents and the queue alone.              *)
LEMMA QuietIInv ==
  ASSUME IInv, UNCHANGED <<queue, died, ack, read, write, bytes, consumed, written>>,
         pc' \in {"idle", "parked", "load", "copy"}, pc # "notify", died => pc' # "copy",
         room' \in Nat, busy' \in BOOLEAN, wake' \in Nat, seen' \in Nat, reader' \in {"load", "check", "wait", "asleep"},
         pc' = "copy" => /\ queue # <<>> /\ room' \in 1..(Cap - 1 - Used) /\ write + room' <= Cap
                         /\ queue[1].off + room' <= Size[queue[1].f]
  PROVE  IInv'
<1>1. TypeOK'
  BY DEF IInv, TypeOK
<1>2. InOrder' /\ FramesWhole' /\ Written'
  BY DEF IInv, InOrder, Used, Slot, FramesWhole, Written, InQueue
<1>3. Round'
  BY DEF Round, Used
<1>4. Queued' /\ GoesOn'
  BY DEF IInv, Queued, GoesOn, Begun
<1> QED BY <1>1, <1>2, <1>3, <1>4 DEF IInv

(* The room of a round is within all three of its bounds.                   *)
LEMMA LeastOfThree ==
  ASSUME NEW a \in Nat \ {0}, NEW b \in Nat \ {0}, NEW c \in Nat \ {0}
  PROVE  LET r == Least(a, Least(b, c)) IN r \in 1..a /\ r <= b /\ r <= c
BY DEF Least

(* The pump's turns between its rounds, and the room a round takes.         *)
LEMMA PumpTurnsIInv == ASSUME IInv, PumpTimer \/ PumpEnds \/ PumpParks \/ PumpLoads PROVE IInv'
<1>1. /\ UNCHANGED <<queue, died, ack, read, write, bytes, consumed, written, wake, seen, reader>> /\ pc \in {"parked", "load"}
  BY DEF PumpTimer, PumpEnds, PumpParks, PumpLoads, readerVars
<1>2. busy \in BOOLEAN /\ room \in Nat /\ wake \in Nat /\ seen \in Nat /\ reader \in {"load", "check", "wait", "asleep"}
  BY DEF IInv, TypeOK
<1>3. CASE PumpTimer \/ PumpEnds \/ PumpParks
  <2>1. pc' \in {"load", "idle", "parked"} /\ room' = room /\ busy' \in BOOLEAN
    BY <1>2, <1>3 DEF PumpTimer, PumpEnds, PumpParks
  <2> QED BY <1>1, <1>2, <2>1, QuietIInv
<1>4. CASE PumpLoads
  <2>1. /\ queue # <<>> /\ Free # 0 /\ pc' = "copy" /\ busy' = busy /\ pc = "load"
        /\ room' = Least(Free, Least(Cap - write, Size[Head(queue).f] - Head(queue).off))
    BY <1>4 DEF PumpLoads
  <2>2. /\ Free = Cap - 1 - Used /\ Free \in Nat /\ write \in 0..(Cap - 1) /\ Cap \in Nat
        /\ Size[queue[1].f] \in Nat /\ queue[1].off \in Nat /\ queue[1].off < Size[queue[1].f] /\ Head(queue) = queue[1]
        /\ Used \in 0..(Cap - 1)
    BY <2>1, UsedSlots, FreeIsRest, QueueTypes DEF IInv, Queued
  <2>3. /\ room' \in 1..(Cap - 1 - Used) /\ write + room' <= Cap /\ queue[1].off + room' <= Size[queue[1].f]
    <3>1. Free \in Nat \ {0} /\ Cap - write \in Nat \ {0} /\ Size[queue[1].f] - queue[1].off \in Nat \ {0}
      BY <2>1, <2>2
    <3>2. room' \in 1..Free /\ room' <= Cap - write /\ room' <= Size[queue[1].f] - queue[1].off
      <4>1. room' = Least(Free, Least(Cap - write, Size[queue[1].f] - queue[1].off))
        BY <2>1, <2>2
      <4>2. PICK a \in Nat \ {0}, b \in Nat \ {0}, c \in Nat \ {0} :
              a = Free /\ b = Cap - write /\ c = Size[queue[1].f] - queue[1].off
        BY <3>1
      <4>3. Least(a, Least(b, c)) \in 1..a /\ Least(a, Least(b, c)) <= b /\ Least(a, Least(b, c)) <= c
        BY LeastOfThree
      <4>4. room' = Least(a, Least(b, c))
        BY <4>1, <4>2
      <4> QED BY <4>2, <4>3, <4>4
    <3>3. PICK r \in Nat : r = room'
      BY <2>2, <3>2
    <3>4. PICK u \in Nat, w \in Nat, o \in Nat, z \in Nat : u = Used /\ w = write /\ o = queue[1].off /\ z = Size[queue[1].f]
      <4>1. Used \in Nat /\ write \in Nat /\ queue[1].off \in Nat /\ Size[queue[1].f] \in Nat
        BY <2>2
      <4> QED BY <4>1
    <3>5. r \in 1..(Cap - 1 - u) /\ w + r <= Cap /\ o + r <= z
      <4>1. r \in 1..(Cap - 1 - u) /\ r <= Cap - w /\ r <= z - o
        BY <2>2, <3>2, <3>3, <3>4
      <4> QED BY <2>2, <4>1
    <3> QED BY <3>3, <3>4, <3>5
  <2>4. room' \in Nat
    BY <2>2, <2>3
  <2>5. ~died
    BY <2>1 DEF IInv, Queued
  <2> QED BY <1>1, <1>2, <2>1, <2>3, <2>4, <2>5, QuietIInv
<1> QED BY <1>3, <1>4

(* The reader looks for bytes, and sleeps.                                  *)
LEMMA ReaderTurnsIInv == ASSUME IInv, ReaderLoads \/ ReaderFindsNothing \/ ReaderWaits PROVE IInv'
<1>1. /\ UNCHANGED <<queue, pc, room, busy, died, ack, read, write, wake, bytes, consumed, written>>
      /\ reader' \in {"load", "check", "wait", "asleep"} /\ seen' \in {seen, wake}
  BY DEF ReaderLoads, ReaderFindsNothing, ReaderWaits, pumpVars
<1>2. TypeOK'
  BY <1>1 DEF IInv, TypeOK
<1>3. Used' = Used /\ \A k : Slot(k)' = Slot(k)
  BY <1>1 DEF Used, Slot
<1> QED BY <1>1, <1>2, <1>3 DEF IInv, InOrder, Round, Queued, GoesOn, Begun, FramesWhole, Written, InQueue

(* The reader takes the oldest byte: the one after what it took before.     *)
LEMMA ReaderTakesIInv ==
  ASSUME IInv, ReaderTakes
  PROVE  IInv' /\ Len(consumed) < Len(written) /\ consumed' = Append(consumed, written[Len(consumed) + 1])
<1>1. /\ read # write /\ consumed' = Append(consumed, bytes[read]) /\ read' = (read + 1) % Cap /\ reader' = "load"
      /\ UNCHANGED <<queue, pc, room, busy, died, ack, write, wake, bytes, seen, written>>
  BY DEF ReaderTakes, pumpVars
<1>2. /\ Used \in 1..(Cap - 1) /\ Cap \in Nat /\ Cap > 1 /\ read \in 0..(Cap - 1) /\ write \in 0..(Cap - 1) /\ Slot(0) = read
  BY <1>1, UsedSlots DEF IInv
<1>3. Len(written) \in Nat /\ Len(consumed) \in Nat /\ Len(written) = Len(consumed) + Used
  BY WrittenTypes DEF IInv, InOrder
<1>4. bytes[read] = written[Len(consumed) + 1] /\ written[Len(consumed) + 1] \in Frames \X Nat
  <2>1. 0 \in 0..(Used - 1) /\ Len(consumed) + 0 + 1 = Len(consumed) + 1 /\ Len(consumed) + 1 \in 1..Len(written)
    BY <1>2, <1>3
  <2> QED BY <1>2, <2>1, WrittenTypes DEF IInv, InOrder
<1>5. read' = IF read = Cap - 1 THEN 0 ELSE read + 1
  <2>1. read + 1 \in 0..(2 * Cap - 1)
    BY <1>2
  <2>2. read' = IF read + 1 < Cap THEN read + 1 ELSE read + 1 - Cap
    <3>1. (read + 1) % Cap = IF read + 1 < Cap THEN read + 1 ELSE read + 1 - Cap
      BY <1>2, <2>1, Wraps
    <3> QED BY <1>1, <3>1
  <2> QED BY <1>2, <2>2
<1>6. Used' = Used - 1 /\ \A k \in 0..(Used - 2) : Slot(k)' = Slot(k + 1)
  BY <1>1, <1>2, <1>5 DEF Used, Slot
<1>7. /\ consumed' \in Seq(Frames \X Nat) /\ Len(consumed') = Len(consumed) + 1
      /\ \A k \in 1..Len(consumed) : consumed'[k] = consumed[k]
      /\ consumed'[Len(consumed) + 1] = written[Len(consumed) + 1]
  BY <1>1, <1>4, AppendProperties DEF IInv, TypeOK
<1>8. TypeOK'
  BY <1>1, <1>2, <1>5, <1>7 DEF IInv, TypeOK, Slots
<1>9. InOrder'
  <2>1. Len(written') = Len(consumed') + Used'
    BY <1>1, <1>2, <1>3, <1>6, <1>7
  <2>2. \A k \in 1..Len(consumed') : consumed'[k] = written'[k]
    <3>1. \A k \in 1..Len(consumed') : k \in 1..Len(consumed) \/ k = Len(consumed) + 1
      BY <1>3, <1>7
    <3> QED BY <1>1, <1>7, <3>1 DEF IInv, InOrder
  <2>3. ASSUME NEW k \in 0..(Used' - 1)
        PROVE  bytes'[Slot(k)'] = written'[Len(consumed') + k + 1]
    <3>1. k \in 0..(Used - 2) /\ k + 1 \in 0..(Used - 1) /\ Len(consumed') + k + 1 = Len(consumed) + (k + 1) + 1
      <4>1. PICK u \in 1..(Cap - 1), m \in Nat : u = Used /\ m = Len(consumed)
        BY <1>2, <1>3
      <4>2. k \in 0..(u - 2)
        BY <1>2, <1>6, <2>3, <4>1
      <4>3. Len(consumed') = m + 1
        BY <1>7, <4>1
      <4>4. k \in 0..(u - 2) /\ k + 1 \in 0..(u - 1) /\ (m + 1) + k + 1 = m + (k + 1) + 1
        BY <1>2, <4>2
      <4> QED BY <4>1, <4>3, <4>4
    <3>2. bytes[Slot(k + 1)] = written[Len(consumed) + (k + 1) + 1]
      BY <3>1 DEF IInv, InOrder
    <3> QED BY <1>1, <1>6, <3>1, <3>2
  <2> QED BY <2>1, <2>2, <2>3 DEF InOrder
<1>10. Round'
  BY <1>1, <1>2, <1>6 DEF IInv, Round
<1>11. Queued' /\ GoesOn' /\ FramesWhole' /\ Written'
  BY <1>1 DEF IInv, Queued, GoesOn, Begun, FramesWhole, Written, InQueue
<1> QED BY <1>1, <1>2, <1>3, <1>4, <1>8, <1>9, <1>10, <1>11 DEF IInv

(* A frame joins the queue, whole and not begun.                            *)
LEMMA RingWriteIInv == ASSUME IInv, NEW f \in Frames, RingWrite(f) PROVE IInv'
<1> DEFINE item == [f |-> f, off |-> 0]
<1>1. /\ pc \in {"idle", "parked"} /\ ~died /\ ~Accepted(f) /\ queue' = Append(queue, item)
      /\ pc' = IF pc = "idle" THEN "load" ELSE pc
      /\ UNCHANGED <<room, busy, died, ack, read, write, wake, bytes, reader, seen, consumed, written>>
  BY DEF RingWrite, readerVars
<1>2. item \in Item /\ item.f = f /\ item.off = 0 /\ Size[f] \in Nat \ {0}
  BY RingAssumption DEF Item
<1> HIDE DEF item
<1>3. /\ queue' \in Seq(Item) /\ Len(queue') = Len(queue) + 1 /\ queue'[Len(queue) + 1] = item /\ queue' # <<>>
      /\ \A k \in 1..Len(queue) : queue'[k] = queue[k]
  <2>1. queue \in Seq(Item)
    BY DEF IInv, TypeOK
  <2>2. /\ Append(queue, item) \in Seq(Item) /\ Len(Append(queue, item)) = Len(queue) + 1
        /\ \A k \in 1..Len(queue) : Append(queue, item)[k] = queue[k]
        /\ Append(queue, item)[Len(queue) + 1] = item
    BY <1>2, <2>1, AppendProperties
  <2> QED BY <1>1, <2>1, <2>2
<1>4. /\ ack[f] = "none" /\ \A k \in 1..Len(queue) : queue[k].f # f
  BY <1>1, QueueTypes DEF Accepted, IInv
<1>5. Len(queue) \in Nat /\ (queue # <<>> <=> Len(queue) > 0)
  BY QueueTypes DEF IInv
<1>6. TypeOK'
  BY <1>1, <1>3 DEF IInv, TypeOK
<1>7. InOrder' /\ FramesWhole' /\ Round'
  BY <1>1 DEF IInv, InOrder, Used, Slot, FramesWhole, Round
<1>8. Queued'
  <2>1. \A k \in 1..Len(queue') : k \in 1..Len(queue) \/ k = Len(queue) + 1
    BY <1>3, <1>5
  <2>2. queue'[1].off < Size[queue'[1].f]
    <3>1. CASE queue = <<>>
      BY <1>2, <1>3, <1>5, <3>1
    <3>2. CASE queue # <<>>
      BY <1>1, <1>3, <1>5, <3>2 DEF IInv, Queued
    <3> QED BY <3>1, <3>2
  <2>3. ASSUME NEW k \in 1..Len(queue')
        PROVE  /\ queue'[k].off <= Size[queue'[k].f] /\ ack'[queue'[k].f] = "none" /\ (k > 1 => queue'[k].off = 0)
               /\ \A j \in 1..Len(queue') : queue'[j].f = queue'[k].f => j = k
    BY <1>1, <1>2, <1>3, <1>4, <1>5, <2>1 DEF IInv, Queued
  <2> QED BY <1>1, <2>2, <2>3 DEF Queued
<1>9. GoesOn'
  <2>1. Begun' <=> Begun
    BY <1>2, <1>3, <1>5 DEF Begun
  <2>2. queue # <<>> => queue'[1] = queue[1]
    BY <1>3, <1>5
  <2> QED BY <1>1, <2>1, <2>2 DEF IInv, GoesOn, Begun
<1>10. Written'
  <2>1. \A g : InQueue(queue, g) => InQueue(queue', g)
    BY <1>3, <1>5 DEF InQueue
  <2> QED BY <1>1, <2>1 DEF IInv, Written
<1> QED BY <1>6, <1>7, <1>8, <1>9, <1>10 DEF IInv

(* A round's bytes go to free slots: those in use keep theirs.              *)
LEMMA PumpCopiesIInv == ASSUME IInv, PumpCopies PROVE IInv'
<1>1. /\ pc = "copy" /\ pc' = "store" /\ UNCHANGED <<queue, room, busy, died, ack, read, write, wake, reader, seen, consumed, written>>
      /\ bytes' = [p \in Slots |-> IF write <= p /\ p < write + room
                                   THEN <<Head(queue).f, Head(queue).off + (p - write) + 1>> ELSE bytes[p]]
  BY DEF PumpCopies, readerVars
<1>2. queue # <<>> /\ room \in 1..(Cap - 1 - Used) /\ write + room <= Cap /\ Head(queue) = queue[1]
  BY <1>1, QueueTypes DEF IInv, Round
<1>3. TypeOK'
  BY <1>1 DEF IInv, TypeOK
<1>4. InOrder'
  <2>1. Used' = Used /\ \A k : Slot(k)' = Slot(k)
    BY <1>1 DEF Used, Slot
  <2>2. \A k \in 0..(Used - 1) : bytes'[Slot(k)] = bytes[Slot(k)]
    BY <1>1, <1>2, UsedSlots DEF IInv
  <2> QED BY <1>1, <2>1, <2>2 DEF IInv, InOrder
<1>5. Round'
  BY <1>1, <1>2 DEF IInv, Round, Used
<1>6. Queued' /\ GoesOn' /\ FramesWhole' /\ Written'
  BY <1>1 DEF IInv, Queued, GoesOn, Begun, FramesWhole, Written, InQueue
<1> QED BY <1>3, <1>4, <1>5, <1>6 DEF IInv

(* A round ends: what it copied is there to be read.                        *)
LEMMA PumpStoresIInv ==
  ASSUME IInv, PumpStores
  PROVE  IInv' /\ \E s \in Seq(Frames \X Nat) : written' = written \o s /\ Len(s) > 0 /\ Len(written \o s) - Len(consumed) < Cap
<1>1. /\ pc = "store" /\ pc' = "notify" /\ write' = (write + room) % Cap
      /\ UNCHANGED <<room, busy, died, ack, read, wake, bytes, reader, seen, consumed>>
  BY DEF PumpStores, readerVars
<1>2. /\ queue # <<>> /\ Head(queue) = queue[1] /\ queue[1] \in Item /\ queue[1].f \in Frames /\ queue[1].off \in Nat
      /\ Size[queue[1].f] \in Nat \ {0} /\ ~died /\ 1 \in 1..Len(queue)
  <2>1. queue # <<>>
    BY <1>1 DEF IInv, Round
  <2>2. Head(queue) = queue[1] /\ 1 \in 1..Len(queue)
    BY <2>1, QueueTypes DEF IInv
  <2>3. queue[1] \in Item /\ queue[1].f \in Frames /\ queue[1].off \in Nat /\ Size[queue[1].f] \in Nat \ {0}
    BY <2>2, QueueTypes DEF IInv
  <2>4. ~died
    BY <1>1 DEF IInv, Queued
  <2> QED BY <2>1, <2>2, <2>3, <2>4
<1>3. PICK f \in Frames, o \in Nat : f = queue[1].f /\ o = queue[1].off
  BY <1>2
<1>4. PICK u \in Nat, n \in Nat, m \in Nat : u = Used /\ n = Len(written) /\ m = Len(consumed) /\ n = m + u
  BY UsedSlots, WrittenTypes DEF IInv, InOrder
<1>5. PICK x \in Nat : x = room /\ x \in 1..(Cap - 1 - u) /\ write + x <= Cap /\ o + x <= Size[f]
  BY <1>1, <1>2, <1>3, <1>4 DEF IInv, Round, TypeOK
<1>6. u \in 0..(Cap - 1) /\ Cap \in Nat /\ Cap > 1 /\ read \in 0..(Cap - 1) /\ write \in 0..(Cap - 1) /\ Size[f] \in Nat /\ u + x <= Cap - 1 /\ x >= 1
  <2>1. Used \in 0..(Cap - 1) /\ Cap \in Nat /\ Cap > 1 /\ read \in 0..(Cap - 1) /\ write \in 0..(Cap - 1)
    BY UsedSlots, RingAssumption DEF IInv, TypeOK, Slots
  <2>2. Size[f] \in Nat
    BY <1>2, <1>3
  <2>3. u \in 0..(Cap - 1)
    BY <1>4, <2>1
  <2>4. u + x <= Cap - 1 /\ x >= 1
    BY <1>5, <2>1, <2>3
  <2> QED BY <2>1, <2>2, <2>3, <2>4
<1> DEFINE new == [k \in 1..x |-> <<f, o + k>>]
<1>7. written' = written \o new /\ queue' = <<[queue[1] EXCEPT !.off = @ + x]>> \o Tail(queue)
  BY <1>2, <1>3, <1>5 DEF PumpStores
<1>8. new \in Seq(Frames \X Nat) /\ Len(new) = x /\ \A k \in 1..x : new[k] = <<f, o + k>>
  OBVIOUS
<1> HIDE DEF new
<1>9. /\ written' \in Seq(Frames \X Nat) /\ Len(written') = n + x
      /\ \A k \in 1..n : written'[k] = written[k]
      /\ \A k \in 1..x : written'[n + k] = <<f, o + k>>
  <2>1. written \in Seq(Frames \X Nat)
    BY DEF IInv, TypeOK
  <2>2. /\ written \o new \in Seq(Frames \X Nat) /\ Len(written \o new) = Len(written) + Len(new)
        /\ \A k \in 1..(Len(written) + Len(new)) : (written \o new)[k] = IF k <= Len(written) THEN written[k] ELSE new[k - Len(written)]
    BY <1>8, <2>1, ConcatProperties
  <2>3. /\ written' \in Seq(Frames \X Nat) /\ Len(written') = n + x
        /\ \A k \in 1..(n + x) : written'[k] = IF k <= n THEN written[k] ELSE new[k - n]
    BY <1>4, <1>7, <1>8, <2>2
  <2>4. \A k \in 1..n : k \in 1..(n + x) /\ k <= n
    OBVIOUS
  <2>5. \A k \in 1..x : n + k \in 1..(n + x) /\ ~(n + k <= n) /\ (n + k) - n = k
    OBVIOUS
  <2> QED BY <1>8, <2>3, <2>4, <2>5
<1>10. /\ queue' \in Seq(Item) /\ Len(queue') = Len(queue) /\ queue' # <<>> /\ queue'[1].f = f /\ queue'[1].off = o + x
       /\ \A k \in 2..Len(queue) : queue'[k] = queue[k]
  <2> DEFINE e == [queue[1] EXCEPT !.off = @ + x]
  <2>1. e \in Item /\ e.f = f /\ e.off = o + x
    BY <1>2, <1>3 DEF Item
  <2>5. queue' = <<e>> \o Tail(queue)
    BY <1>7
  <2> HIDE DEF e
  <2>2. <<e>> \in Seq(Item) /\ Len(<<e>>) = 1 /\ <<e>>[1] = e
    BY <2>1
  <2>3. /\ Len(queue) \in Nat \ {0} /\ Tail(queue) \in Seq(Item) /\ Len(Tail(queue)) = Len(queue) - 1
        /\ \A k \in 1..(Len(queue) - 1) : Tail(queue)[k] = queue[k + 1]
    BY <1>2, QueueTypes DEF IInv
  <2>4. /\ <<e>> \o Tail(queue) \in Seq(Item) /\ Len(<<e>> \o Tail(queue)) = 1 + Len(Tail(queue))
        /\ \A k \in 1..(1 + Len(Tail(queue))) : (<<e>> \o Tail(queue))[k] = IF k <= 1 THEN <<e>>[k] ELSE Tail(queue)[k - 1]
    BY <2>2, <2>3, ConcatProperties
  <2>6. Len(queue') = Len(queue) /\ queue'[1] = e /\ \A k \in 2..Len(queue) : queue'[k] = queue[k]
    BY <2>2, <2>3, <2>4, <2>5
  <2> QED BY <2>1, <2>3, <2>4, <2>5, <2>6
<1>11. write' = IF write + x < Cap THEN write + x ELSE 0
  <2>1. write + x \in 0..(2 * Cap - 1)
    BY <1>5, <1>6
  <2>2. (write + x) % Cap = IF write + x < Cap THEN write + x ELSE write + x - Cap
    BY <1>6, <2>1, Wraps
  <2> QED BY <1>1, <1>5, <1>6, <2>2
<1>12. Used' = u + x /\ (\A k \in 0..(u + x - 1) : Slot(k)' = Slot(k)) /\ write' \in 0..(Cap - 1)
  BY <1>1, <1>4, <1>5, <1>6, <1>11 DEF Used, Slot
<1>13. TypeOK'
  BY <1>1, <1>9, <1>10, <1>12 DEF IInv, TypeOK, Slots
<1>14. InOrder'
  <2>1. Len(written') = Len(consumed') + Used'
    BY <1>1, <1>4, <1>9, <1>12
  <2>2. \A k \in 1..Len(consumed') : consumed'[k] = written'[k]
    <3>1. \A k \in 1..m : k \in 1..n
      BY <1>4
    <3> QED BY <1>1, <1>4, <1>9, <3>1 DEF IInv, InOrder
  <2>3. ASSUME NEW k \in 0..(u + x - 1)
        PROVE  bytes[Slot(k)] = written'[m + k + 1]
    <3>2. CASE k < u
      <4>1. k \in 0..(u - 1) /\ m + k + 1 \in 1..n
        BY <1>4, <3>2
      <4>2. bytes[Slot(k)] = written[m + k + 1]
        BY <1>4, <4>1 DEF IInv, InOrder
      <4> QED BY <1>9, <4>1, <4>2
    <3>3. CASE k >= u
      <4> DEFINE d == k - u
      <4>1. d \in 0..(x - 1) /\ d + 1 \in 1..x /\ n + (d + 1) = m + k + 1 /\ k \in u..(u + x - 1)
        BY <1>4, <1>5, <1>6, <3>3
      <4>2. Slot(k) = write + d
        BY <1>4, <1>5, <1>6, <4>1, UsedSlots DEF IInv
      <4>3. write + d \in Slots /\ write <= write + d /\ write + d < write + x /\ (write + d) - write = d
        BY <1>5, <1>6, <4>1 DEF Slots
      <4>4. bytes[write + d] = <<f, o + d + 1>>
        BY <1>1, <1>3, <1>5, <4>3 DEF IInv, Round
      <4>5. written'[n + (d + 1)] = <<f, o + (d + 1)>>
        BY <1>9, <4>1
      <4>6. o + d + 1 = o + (d + 1)
        BY <4>1
      <4> QED BY <4>1, <4>2, <4>4, <4>5, <4>6
    <3> QED BY <1>4, <3>2, <3>3
  <2>4. \A k \in 0..(Used' - 1) : bytes'[Slot(k)'] = written'[Len(consumed') + k + 1]
    <3>1. ASSUME NEW k \in 0..(Used' - 1) PROVE bytes'[Slot(k)'] = written'[Len(consumed') + k + 1]
      <4>1. k \in 0..(u + x - 1) /\ Slot(k)' = Slot(k)
        BY <1>12, <3>1
      <4>2. Len(consumed') = m /\ bytes' = bytes
        BY <1>1, <1>4
      <4> QED BY <2>3, <4>1, <4>2
    <3> QED BY <3>1
  <2> QED BY <2>1, <2>2, <2>4 DEF InOrder
<1>15. Round' /\ Queued'
  <2>1. Round'
    <3>1. queue'[1].off > 0
      BY <1>6, <1>10
    <3> QED BY <1>1, <1>10, <3>1 DEF Round
  <2>2. ASSUME NEW k \in 1..Len(queue)
        PROVE  /\ queue'[k].off <= Size[queue'[k].f] /\ queue'[k].f = queue[k].f
               /\ k > 1 => queue'[k].off = queue[k].off
    <3>1. CASE k = 1
      BY <1>3, <1>5, <1>10, <3>1
    <3>2. CASE k \in 2..Len(queue)
      <4>1. queue'[k] = queue[k]  BY <1>10, <3>2
      <4> QED BY <4>1 DEF IInv, Queued
    <3> QED BY <3>1, <3>2
  <2>3. Queued'
    <3>1. \A k \in 1..Len(queue) : /\ ack'[queue'[k].f] = "none" /\ (k > 1 => queue'[k].off = 0)
                                    /\ \A j \in 1..Len(queue) : queue'[j].f = queue'[k].f => j = k
      BY <1>1, <2>2 DEF IInv, Queued
    <3>2. Len(queue') = Len(queue) /\ pc' = "notify" /\ ~died'
      BY <1>1, <1>2, <1>10
    <3> QED BY <2>2, <3>1, <3>2 DEF Queued
  <2> QED BY <2>1, <2>3
<1>16. GoesOn'
  <2>1. n + x \in Nat /\ Len(written') = n + x /\ written' # <<>> /\ written'[n + x] = <<f, o + x>>
    BY <1>5, <1>6, <1>9
  <2>2. queue'[1].off > 0
    BY <1>6, <1>10
  <2> QED BY <1>10, <2>1, <2>2 DEF GoesOn, Begun
<1>17. FramesWhole'
  <2>1. ASSUME NEW k \in 1..(n + x)
        PROVE  IF written'[k][2] = 1
               THEN k > 1 => written'[k - 1][2] = Size[written'[k - 1][1]]
               ELSE k > 1 /\ written'[k - 1] = <<written'[k][1], written'[k][2] - 1>>
    <3>1. CASE k <= n
      <4>1. k \in 1..n /\ (k > 1 => k - 1 \in 1..n)
        BY <3>1
      <4> QED BY <1>4, <1>9, <4>1 DEF IInv, FramesWhole
    <3>2. CASE k = n + 1
      <4>1. written'[k] = <<f, o + 1>> /\ written'[k][1] = f /\ written'[k][2] = o + 1
        <5>1. 1 \in 1..x
          BY <1>6
        <5> QED BY <1>9, <3>2, <5>1
      <4>2. k > 1 => n \in 1..n /\ k - 1 = n /\ written'[k - 1] = written[n] /\ written # <<>>
        BY <1>4, <1>9, <3>2, WrittenTypes DEF IInv
      <4>3. o > 0 => k > 1 /\ written[n] = <<f, o>>
        <5>1. o > 0 => written # <<>> /\ written[Len(written)] = <<f, o>>
          BY <1>2, <1>3 DEF IInv, GoesOn, Begun
        <5>2. written # <<>> => n > 0
          BY <1>4, WrittenTypes DEF IInv
        <5> QED BY <1>4, <3>2, <5>1, <5>2
      <4>4. o = 0 /\ k > 1 => written[n][2] = Size[written[n][1]]
        BY <1>2, <1>3, <1>4, <4>2 DEF IInv, GoesOn, Begun
      <4>5. CASE o = 0
        BY <4>1, <4>2, <4>4, <4>5
      <4>6. CASE o > 0
        BY <4>1, <4>2, <4>3, <4>6
      <4> QED BY <4>5, <4>6
    <3>3. CASE k > n + 1
      <4>1. PICK d \in Nat : d = k - n
        BY <3>3
      <4>2. d \in 1..x /\ d - 1 \in 1..x /\ n + d = k /\ n + (d - 1) = k - 1 /\ k > 1
        BY <3>3, <4>1
      <4>3. written'[n + d] = <<f, o + d>> /\ written'[n + (d - 1)] = <<f, o + (d - 1)>>
        BY <1>9, <4>2
      <4>4. o + d # 1 /\ o + (d - 1) = (o + d) - 1
        BY <4>2
      <4> QED BY <4>2, <4>3, <4>4
    <3> QED BY <3>1, <3>2, <3>3
  <2> QED BY <1>9, <2>1 DEF FramesWhole
<1>18. Written'
  <2>1. InQueue(queue', f) /\ \A g : InQueue(queue, g) => InQueue(queue', g)
    <3>1. 1 \in 1..Len(queue') /\ Len(queue') = Len(queue) /\ Len(queue) \in Nat
      BY <1>2, <1>10
    <3>2. InQueue(queue', f)
      BY <1>10, <3>1 DEF InQueue
    <3>3. ASSUME NEW g, InQueue(queue, g) PROVE InQueue(queue', g)
      <4>1. PICK k \in 1..Len(queue) : queue[k].f = g
        BY <3>3 DEF InQueue
      <4>2. queue'[k].f = g
        <5>1. CASE k = 1
          BY <1>3, <1>10, <4>1, <5>1
        <5>2. CASE k \in 2..Len(queue)
          BY <1>10, <4>1, <5>2
        <5> QED BY <3>1, <5>1, <5>2
      <4> QED BY <3>1, <4>1, <4>2 DEF InQueue
    <3> QED BY <3>2, <3>3
  <2>2. ASSUME NEW k \in 1..(n + x)
        PROVE  ack[written'[k][1]] # "none" \/ InQueue(queue', written'[k][1])
    <3>1. CASE k <= n
      <4>1. k \in 1..n
        BY <3>1
      <4> QED BY <1>4, <1>9, <2>1, <4>1 DEF IInv, Written
    <3>2. CASE k > n
      <4>1. k - n \in 1..x /\ n + (k - n) = k
        BY <3>2
      <4>2. written'[k] = <<f, o + (k - n)>>
        BY <1>9, <4>1
      <4> QED BY <2>1, <4>2
    <3> QED BY <3>1, <3>2
  <2>3. ASSUME NEW g \in Frames, ack[g] = "done"
        PROVE  \E k \in 1..(n + x) : written'[k] = <<g, Size[g]>>
    <3>1. PICK k \in 1..n : written[k] = <<g, Size[g]>>
      BY <1>4, <2>3 DEF IInv, Written
    <3>2. k \in 1..(n + x) /\ written'[k] = written[k]
      BY <1>9, <3>1
    <3> QED BY <3>1, <3>2
  <2> QED BY <1>1, <1>9, <2>2, <2>3 DEF Written
<1>19. new \in Seq(Frames \X Nat) /\ written' = written \o new /\ Len(new) > 0 /\ Len(written \o new) - Len(consumed) < Cap
  BY <1>4, <1>6, <1>7, <1>8, <1>9
<1> QED BY <1>13, <1>14, <1>15, <1>16, <1>17, <1>18, <1>19 DEF IInv

(* A round is told of; a frame whose last byte it was is acknowledged, and  *)
(* the next one starts from its first.                                      *)
LEMMA PumpNotifiesIInv == ASSUME IInv, PumpNotifies PROVE IInv'
<1>1. /\ pc = "notify" /\ pc' = "load" /\ wake' = wake + 1 /\ reader' \in {reader, "load"}
      /\ UNCHANGED <<room, busy, died, read, write, bytes, seen, consumed, written>>
  BY DEF PumpNotifies
<1>2. /\ queue # <<>> /\ Head(queue) = queue[1] /\ 1 \in 1..Len(queue) /\ ~died
      /\ queue[1].f \in Frames /\ queue[1].off \in Nat /\ queue[1].off > 0
  <2>1. queue # <<>> /\ queue[1].off > 0
    BY <1>1 DEF IInv, Round
  <2>2. Head(queue) = queue[1] /\ 1 \in 1..Len(queue)
    BY <2>1, QueueTypes DEF IInv
  <2>3. queue[1].f \in Frames /\ queue[1].off \in Nat
    BY <2>2, QueueTypes DEF IInv
  <2>4. ~died
    BY <1>1 DEF IInv, Queued
  <2> QED BY <2>1, <2>2, <2>3, <2>4
<1>3. PICK f \in Frames, n \in Nat : f = queue[1].f /\ n = Len(queue) /\ n > 0
  <2>1. Len(queue) \in Nat /\ Len(queue) > 0
    BY <1>2, QueueTypes DEF IInv
  <2> QED BY <1>2, <2>1
<1>4. written # <<>> /\ written[Len(written)] = <<f, queue[1].off>> /\ Len(written) \in 1..Len(written)
  BY <1>2, <1>3, WrittenTypes DEF IInv, GoesOn, Begun
<1>5. InOrder' /\ FramesWhole' /\ Round'
  BY <1>1 DEF IInv, InOrder, Used, Slot, FramesWhole, Round
<1>6. CASE queue[1].off # Size[f]
  <2>1. UNCHANGED <<queue, ack>>
    BY <1>2, <1>3, <1>6 DEF PumpNotifies
  <2>2. TypeOK'
    BY <1>1, <2>1 DEF IInv, TypeOK
  <2>3. Queued'
    <3>1. queue[1].off < Size[queue[1].f]
      BY <1>2, <1>3, <1>6, QueueTypes DEF IInv, Queued
    <3> QED BY <1>1, <1>2, <2>1, <3>1 DEF IInv, Queued
  <2>4. GoesOn' /\ Written'
    BY <1>1, <2>1 DEF IInv, GoesOn, Begun, Written, InQueue
  <2> QED BY <1>5, <2>2, <2>3, <2>4 DEF IInv
<1>7. CASE queue[1].off = Size[f]
  <2>1. queue' = Tail(queue) /\ ack' = [ack EXCEPT ![f] = "done"]
    BY <1>2, <1>3, <1>7 DEF PumpNotifies
  <2>2. /\ queue' \in Seq(Item) /\ Len(queue') = n - 1 /\ (queue' # <<>> <=> n > 1)
        /\ \A k \in 1..(n - 1) : queue'[k] = queue[k + 1]
    <3>1. queue' \in Seq(Item) /\ Len(queue') = n - 1 /\ \A k \in 1..(n - 1) : queue'[k] = queue[k + 1]
      BY <1>2, <1>3, <2>1, QueueTypes DEF IInv
    <3>2. queue' # <<>> <=> n > 1
      BY <1>3, <3>1, EmptySeq
    <3> QED BY <3>1, <3>2
  <2>3. ack' \in [Frames -> {"none", "done", "aborted"}] /\ ack'[f] = "done" /\ \A g \in Frames \ {f} : ack'[g] = ack[g]
    BY <2>1 DEF IInv, TypeOK
  <2>4. TypeOK'
    BY <1>1, <2>2, <2>3 DEF IInv, TypeOK
  <2>5. ASSUME NEW k \in 1..(n - 1)
        PROVE  /\ k + 1 \in 1..n /\ queue'[k] = queue[k + 1] /\ queue[k + 1].f \in Frames \ {f}
               /\ queue'[k].off = 0 /\ ack'[queue'[k].f] = "none" /\ Size[queue'[k].f] \in Nat \ {0}
    <3>1. k + 1 \in 1..n /\ k + 1 > 1 /\ 1 \in 1..n
      BY <1>3
    <3>2. queue[k + 1].f \in Frames /\ Size[queue[k + 1].f] \in Nat \ {0}
      BY <1>3, <3>1, QueueTypes DEF IInv
    <3>3. queue[k + 1].off = 0 /\ ack[queue[k + 1].f] = "none"
      BY <1>3, <3>1 DEF IInv, Queued
    <3>4. queue[k + 1].f # f
      BY <1>3, <3>1 DEF IInv, Queued
    <3> QED BY <2>2, <2>3, <3>1, <3>2, <3>3, <3>4
  <2>6. Queued'
    <3>1. \A k \in 1..(n - 1) : queue'[k].off <= Size[queue'[k].f] /\ ack'[queue'[k].f] = "none" /\ queue'[k].off = 0
      BY <2>5
    <3>2. \A k \in 1..(n - 1) : \A j \in 1..(n - 1) : queue'[j].f = queue'[k].f => j = k
      <4>1. SUFFICES ASSUME NEW k \in 1..(n - 1), NEW j \in 1..(n - 1), queue'[j].f = queue'[k].f PROVE j = k
        OBVIOUS
      <4>2. k + 1 \in 1..n /\ j + 1 \in 1..n /\ queue[j + 1].f = queue[k + 1].f
        BY <2>5, <4>1
      <4>3. j + 1 = k + 1
        BY <1>3, <4>2 DEF IInv, Queued
      <4> QED BY <4>3
    <3>3. queue' # <<>> => queue'[1].off < Size[queue'[1].f]
      <4>1. queue' # <<>> => 1 \in 1..(n - 1)
        BY <2>2
      <4> QED BY <2>5, <4>1
    <3>4. ~died'
      BY <1>1, <1>2
    <3> QED BY <1>3, <2>2, <3>1, <3>2, <3>3, <3>4 DEF Queued
  <2>7. GoesOn'
    <3>1. ~Begun'
      <4>1. queue' # <<>> => 1 \in 1..(n - 1)
        BY <2>2
      <4> QED BY <2>5, <4>1 DEF Begun
    <3>2. written'[Len(written')][2] = Size[written'[Len(written')][1]]
      BY <1>1, <1>4, <1>7
    <3> QED BY <3>1, <3>2 DEF GoesOn
  <2>8. Written'
    <3>1. ASSUME NEW k \in 1..Len(written)
          PROVE  ack'[written[k][1]] # "none" \/ InQueue(queue', written[k][1])
      <4>1. written[k][1] \in Frames /\ (ack[written[k][1]] # "none" \/ InQueue(queue, written[k][1]))
        BY WrittenTypes DEF IInv, Written
      <4>2. CASE written[k][1] = f
        BY <2>3, <4>2
      <4>3. CASE written[k][1] # f /\ ack[written[k][1]] # "none"
        BY <2>3, <4>1, <4>3
      <4>4. CASE written[k][1] # f /\ InQueue(queue, written[k][1])
        <5>1. PICK j \in 1..n : queue[j].f = written[k][1]
          BY <1>3, <4>4 DEF InQueue
        <5>2. j # 1
          BY <1>3, <4>4, <5>1
        <5>3. j - 1 \in 1..(n - 1) /\ (j - 1) + 1 = j
          BY <5>1, <5>2
        <5>4. queue'[j - 1].f = written[k][1]
          BY <2>2, <5>1, <5>3
        <5> QED BY <2>2, <5>3, <5>4 DEF InQueue
      <4> QED BY <4>1, <4>2, <4>3, <4>4
    <3>2. ASSUME NEW g \in Frames, ack'[g] = "done"
          PROVE  \E k \in 1..Len(written) : written[k] = <<g, Size[g]>>
      <4>1. CASE g = f
        BY <1>4, <1>7, <4>1
      <4>2. CASE g # f
        BY <2>3, <3>2, <4>2 DEF IInv, Written
      <4> QED BY <4>1, <4>2
    <3> QED BY <1>1, <3>1, <3>2 DEF Written
  <2> QED BY <1>5, <2>4, <2>6, <2>7, <2>8 DEF IInv
<1> QED BY <1>6, <1>7

(* The death answers every queued frame.                                    *)
LEMMA DieIInv == ASSUME IInv, Die PROVE IInv'
<1>1. /\ pc \in {"idle", "parked"} /\ ~died /\ died' = TRUE /\ queue' = <<>>
      /\ ack' = [f \in Frames |-> IF \E k \in DOMAIN queue : queue[k].f = f THEN "aborted" ELSE ack[f]]
      /\ UNCHANGED <<pc, room, busy, read, write, wake, bytes, reader, seen, consumed, written>>
  BY DEF Die, readerVars
<1>2. /\ ack' \in [Frames -> {"none", "done", "aborted"}]
      /\ \A f \in Frames : /\ InQueue(queue, f) => ack'[f] = "aborted"
                           /\ ~InQueue(queue, f) => ack'[f] = ack[f]
  <2>1. DOMAIN queue = 1..Len(queue) /\ ack \in [Frames -> {"none", "done", "aborted"}]
    BY QueueTypes DEF IInv, TypeOK
  <2> QED BY <1>1, <2>1 DEF InQueue
<1>3. queue' \in Seq(Item) /\ Len(queue') = 0
  BY <1>1, EmptySeq
<1>4. TypeOK'
  BY <1>1, <1>2, <1>3 DEF IInv, TypeOK
<1>5. InOrder' /\ FramesWhole' /\ Round'
  BY <1>1 DEF IInv, InOrder, Used, Slot, FramesWhole, Round
<1>6. Queued' /\ GoesOn'
  BY <1>1, <1>3 DEF Queued, GoesOn
<1>7. Written'
  <2>1. ASSUME NEW k \in 1..Len(written)
        PROVE  ack'[written[k][1]] # "none"
    <3>1. written[k][1] \in Frames /\ (ack[written[k][1]] # "none" \/ InQueue(queue, written[k][1]))
      BY WrittenTypes DEF IInv, Written
    <3> QED BY <1>2, <3>1
  <2>2. ASSUME NEW f \in Frames, ack'[f] = "done"
        PROVE  \E k \in 1..Len(written) : written[k] = <<f, Size[f]>>
    <3>1. ack[f] = "done"
      BY <1>2, <2>2
    <3> QED BY <3>1 DEF IInv, Written
  <2> QED BY <1>1, <2>1, <2>2 DEF Written
<1> QED BY <1>4, <1>5, <1>6, <1>7 DEF IInv

(* Every step of the ring keeps the invariant.                              *)
LEMMA NextIInv == IInv /\ [Next]_vars => IInv'
<1> SUFFICES ASSUME IInv, [Next]_vars PROVE IInv'
  OBVIOUS
<1>1. CASE \E f \in Frames : RingWrite(f)
  BY <1>1, RingWriteIInv
<1>2. CASE Pump
  BY <1>2, PumpTurnsIInv, PumpCopiesIInv, PumpStoresIInv, PumpNotifiesIInv DEF Pump
<1>3. CASE Die
  BY <1>3, DieIInv
<1>4. CASE Reader
  BY <1>4, ReaderTurnsIInv, ReaderTakesIInv DEF Reader
<1>5. CASE UNCHANGED vars
  <2>1. UNCHANGED <<queue, pc, room, busy, died, ack, read, write, wake, bytes, reader, seen, consumed, written>>
    BY <1>5 DEF vars, pumpVars, readerVars
  <2>2. TypeOK' /\ Used' = Used /\ \A k : Slot(k)' = Slot(k)
    BY <2>1 DEF IInv, TypeOK, Used, Slot
  <2> QED BY <2>1, <2>2 DEF IInv, InOrder, Round, Queued, GoesOn, Begun, FramesWhole, Written, InQueue
<1> QED BY <1>1, <1>2, <1>3, <1>4, <1>5 DEF Next

(* The invariant holds of every behaviour of the ring.                      *)
THEOREM RingInvariant == Spec => []IInv
BY InitIInv, NextIInv, PTL DEF Spec

(* Every byte taken out is the next of those put in, none lost, doubled or  *)
(* read before it is there, however the indices wrap and race.              *)
THEOREM RingKeepsOrder == Spec => []InOrder
<1>1. IInv => InOrder
  BY DEF IInv
<1> QED BY <1>1, RingInvariant, PTL

(* A frame's bytes stay together in the ring, however often the pump parks  *)
(* in its middle and whatever is sent meanwhile.                            *)
THEOREM FramesStayWhole == Spec => []FramesWhole
<1>1. IInv => FramesWhole
  BY DEF IInv
<1> QED BY <1>1, RingInvariant, PTL

(* An acknowledged frame is in the ring to its last byte, and one begun is  *)
(* queued until it is answered.                                             *)
THEOREM AcksAreTrue == Spec => []AckedAtTheEnd
<1>1. IInv => AckedAtTheEnd
  <2> SUFFICES ASSUME IInv PROVE AckedAtTheEnd
    OBVIOUS
  <2>1. DOMAIN queue = 1..Len(queue) /\ (queue = <<>> => Len(queue) = 0)
    BY QueueTypes DEF IInv
  <2>2. died => queue = <<>>
    BY DEF IInv, Queued
  <2>3. ASSUME NEW f \in Frames
        PROVE  /\ ack[f] = "done" => \E k \in 1..Len(written) : written[k] = <<f, Size[f]>>
               /\ (\E k \in 1..Len(written) : written[k][1] = f) /\ ack[f] = "none" =>
                    \E k \in DOMAIN queue : queue[k].f = f
    BY <2>1 DEF IInv, Written, InQueue
  <2>4. died => \A k \in DOMAIN queue : ack[queue[k].f] = "none"
    BY <2>1, <2>2
  <2> QED BY <2>3, <2>4 DEF AckedAtTheEnd
<1> QED BY <1>1, RingInvariant, PTL

(* The ring implements a channel of bytes: a round of the pump puts some at *)
(* the end, the reader takes the oldest, and no other step does either.     *)
THEOREM RingIsAChannel == Spec => ImplementsChannel
<1>1. Init => Channel!Init
  BY DEF Init, Channel!Init
<1>2. ASSUME IInv, Next \/ UNCHANGED vars
      PROVE  Channel!Next \/ UNCHANGED <<written, consumed>>
  <2>1. CASE PumpStores
    <3>1. PICK s \in Seq(Frames \X Nat) : written' = written \o s /\ Len(s) > 0 /\ Len(written \o s) - Len(consumed) < Cap
      BY <1>2, <2>1, PumpStoresIInv
    <3>2. written \in Seq(Frames \X Nat) /\ Len(written) \in Nat /\ Len(s) \in Nat
      BY <1>2, LenProperties DEF IInv, TypeOK
    <3>3. Len(written') = Len(written) + Len(s) /\ Len(written') - Len(consumed) < Cap
      BY <3>1, <3>2, ConcatProperties
    <3>4. SubSeq(written', 1, Len(written)) = written
      <4>1. 1 \in 1..(Len(written) + 1) /\ Len(written) \in (1 - 1)..Len(written)
        BY <3>2
      <4>2. SubSeq(written \o s, 1, Len(written)) = SubSeq(written, 1, Len(written))
        BY <3>2, <4>1, SubSeqOfConcat1
      <4> QED BY <3>1, <3>2, <4>2, SubSeqFull
    <3>5. consumed' = consumed
      BY <2>1 DEF PumpStores, readerVars
    <3>6. Len(written') > Len(written)
      BY <3>1, <3>2, <3>3
    <3> QED BY <3>3, <3>4, <3>5, <3>6 DEF Channel!Next, Channel!Put
  <2>2. CASE ReaderTakes
    <3>1. Len(consumed) < Len(written) /\ consumed' = Append(consumed, written[Len(consumed) + 1])
      BY <1>2, <2>2, ReaderTakesIInv
    <3>2. written' = written
      BY <2>2 DEF ReaderTakes
    <3> QED BY <3>1, <3>2 DEF Channel!Next, Channel!Take
  <2>3. CASE ~PumpStores /\ ~ReaderTakes
    BY <1>2, <2>3 DEF Next, RingWrite, Pump, PumpTimer, PumpEnds, PumpParks, PumpLoads, PumpCopies, PumpNotifies, Die,
                      Reader, ReaderLoads, ReaderFindsNothing, ReaderWaits, readerVars, vars
  <2> QED BY <2>1, <2>2, <2>3
<1>3. IInv /\ [Next]_vars => [Channel!Next]_<<written, consumed>>
  BY <1>2
<1> QED BY <1>1, <1>3, RingInvariant, PTL DEF Spec, ImplementsChannel, Channel!Spec

-----------------------------------------------------------------------------
(* The watchdog (Liveness.tla).  What a proxied call can be; the ages; the  *)
(* phases it reads.                                                         *)
LeanCalls == Ids \cup {"probe", "busy", "done", "note", "exit", "throw"}
Ages == [silent : 0..Longest, sent : [Ids -> Never..RequestTtl + 1], probe : Never..WedgeAfter, stalled : Never..Grace]
Phases == {"starting", "elaborating", "ready"}

(* The mailbox: its word is PENDING while calls are in it; a message that   *)
(* was not lost is on its way; the call that ends a process is its last.    *)
Mail ==
  /\ out \in Seq(LeanCalls)
  /\ out # <<>> <=> pending
  /\ pending /\ ~lost => flight # "none"
  /\ dead = "no" => (lean = "gone" <=> Contents(out) \cap Ends # {})
  /\ "probe" \in inbox => probeAge # Never

(* A word is watched while it is PENDING or was served since; what was on   *)
(* its way to it is then a tick old.                                        *)
Confirming ==
  /\ watch = NoWatch \/ (located /\ watch.ticks \in 0..1)
  /\ watch # NoWatch /\ ~watch.checked => pending /\ (lost \/ flight = "old")

(* The ticks that can pass before the next frame is served, when the Lean   *)
(* side owes the answer to a probe.                                         *)
LeftOf(calls, found, w, age) ==
  IF calls # <<>>
  THEN IF ~found THEN 0
       ELSE IF w = NoWatch THEN 2
       ELSE IF w.checked THEN 3 - w.ticks
       ELSE 1 - w.ticks
  ELSE IF w # NoWatch /\ w.ticks = 0 THEN 3 ELSE 3 - age
Left == LeftOf(out, located, watch, probeAge)

(* How old a stall may be when k ticks have passed in it.                   *)
Lag(k) == IF k = 0 THEN 0 ELSE IF k = 1 THEN Suspension ELSE 2 * Suspension

(* A Lean side that is not frozen is heard in time: three ticks after the   *)
(* probe or the last frame, and two after a stall was noticed.  A machine   *)
(* that slept once counts more than passed.                                 *)
Heard ==
  dead = "no" /\ lean # "frozen" /\ L.probe # Never =>
    /\ slept = 0 => Lesser(L.probe, L.silent) + Left <= 3
    /\ L.stalled # Never =>
         /\ Left <= 2 /\ L.stalled <= Lag(2 - Left)
         /\ WedgeAfter >= 3 /\ slept = 0 => Left = 0
         /\ WedgeAfter >= 3 /\ MaxSuspensions <= 1 => L.stalled + Left <= 2

(* What the verdict needs of the delays: a grace that is more than two late *)
(* ticks; or three ticks for the probe and for the grace, and a machine     *)
(* that sleeps once at most.                                                *)
Patient ==
  \/ Grace > 2 * Suspension
  \/ WedgeAfter >= 3 /\ Grace >= 3 /\ MaxSuspensions <= 1

WatchIInv ==
  /\ WatchTypeOK /\ Mail /\ Confirming /\ Heard
  /\ L.stalled # Never => L.probe # Never
  /\ Patient /\ dead = "wedged" => lean = "frozen"

(* The constants are naturals.                                              *)
LEMMA Delays ==
  /\ ProbeAfter \in Nat /\ WedgeAfter \in Nat /\ Grace \in Nat /\ RequestTtl \in Nat /\ Suspension \in Nat
  /\ MaxFrames \in Nat /\ LateRetries \in Nat /\ MaxSuspensions \in Nat
  /\ ProbeAfter > 0 /\ WedgeAfter > 0 /\ Grace > 0 /\ RequestTtl > 0 /\ Suspension > 0 /\ MaxFrames > 0
  /\ Longest \in Nat /\ ProbeAfter <= Longest /\ WedgeAfter <= Longest
  /\ "probe" \notin Ids /\ Ends \cap Ids = {} /\ "probe" \notin Ends
<1>1. /\ ProbeAfter \in Nat \ {0} /\ WedgeAfter \in Nat \ {0} /\ Grace \in Nat \ {0} /\ RequestTtl \in Nat \ {0}
      /\ Suspension \in Nat \ {0} /\ MaxFrames \in Nat \ {0} /\ LateRetries \in Nat /\ MaxSuspensions \in Nat
  BY LivenessAssumption
<1>2. "probe" \notin Ids /\ Ends \cap Ids = {} /\ "probe" \notin Ends
  BY LivenessAssumption DEF Ends
<1> QED BY <1>1, <1>2 DEF Longest

(* The calls in the mailbox, sent to and read.                              *)
LEMMA Calls1 ==
  ASSUME NEW q \in Seq(LeanCalls), NEW f \in LeanCalls
  PROVE  /\ Append(q, f) \in Seq(LeanCalls) /\ Append(q, f) # <<>> /\ Len(Append(q, f)) = Len(q) + 1
         /\ Contents(Append(q, f)) = Contents(q) \cup {f}
         /\ Contents(q) \subseteq LeanCalls
         /\ q # <<>> => Contents(q) # {}
         /\ Len(q) \in Nat
<1>1. /\ Append(q, f) \in Seq(LeanCalls) /\ Len(Append(q, f)) = Len(q) + 1 /\ Len(q) \in Nat
      /\ DOMAIN q = 1..Len(q) /\ DOMAIN Append(q, f) = 1..(Len(q) + 1)
      /\ \A k \in 1..Len(q) : Append(q, f)[k] = q[k] /\ q[k] \in LeanCalls
      /\ Append(q, f)[Len(q) + 1] = f
  OBVIOUS
<1>2. Append(q, f) # <<>>
  BY <1>1
<1>3. Contents(Append(q, f)) = Contents(q) \cup {f}
  <2>1. ASSUME NEW x \in Contents(Append(q, f)) PROVE x \in Contents(q) \cup {f}
    <3>1. PICK k \in 1..(Len(q) + 1) : x = Append(q, f)[k]
      BY <1>1, <2>1 DEF Contents
    <3>2. CASE k = Len(q) + 1
      BY <1>1, <3>1, <3>2
    <3>3. CASE k \in 1..Len(q)
      BY <1>1, <3>1, <3>3 DEF Contents
    <3> QED BY <1>1, <3>2, <3>3
  <2>2. ASSUME NEW x \in Contents(q) PROVE x \in Contents(Append(q, f))
    <3>1. PICK k \in 1..Len(q) : x = q[k]
      BY <1>1, <2>2 DEF Contents
    <3>2. k \in 1..(Len(q) + 1) /\ x = Append(q, f)[k]
      BY <1>1, <3>1
    <3> QED BY <1>1, <3>2 DEF Contents
  <2>3. f \in Contents(Append(q, f))
    <3>1. Len(q) + 1 \in DOMAIN Append(q, f)
      BY <1>1
    <3> QED BY <1>1, <3>1 DEF Contents
  <2> QED BY <2>1, <2>2, <2>3
<1>4. Contents(q) \subseteq LeanCalls
  BY <1>1 DEF Contents
<1>5. q # <<>> => Contents(q) # {}
  <2>1. q # <<>> => 1 \in DOMAIN q
    BY <1>1
  <2> QED BY <2>1 DEF Contents
<1> QED BY <1>1, <1>2, <1>3, <1>4, <1>5

(* An empty mailbox has no calls.                                           *)
LEMMA NoCalls == <<>> \in Seq(LeanCalls) /\ Contents(<<>>) = {} /\ Len(<<>>) = 0
<1>1. <<>> \in Seq(LeanCalls) /\ DOMAIN <<>> = {} /\ Len(<<>>) = 0
  OBVIOUS
<1> QED BY <1>1 DEF Contents

(* Ages grow by what passed, and no further than their cap.                 *)
LEMMA OlderIs ==
  ASSUME NEW c \in Nat, NEW a \in Never..c, NEW n \in Nat
  PROVE  /\ Older(a, n, c) \in Never..c
         /\ Older(a, n, c) = Never <=> a = Never
         /\ Older(a, n, c) <= a + n
BY DEF Older, Lesser, Never

(* The ages after n ticks.                                                  *)
LEMMA AgedIs ==
  ASSUME NEW l \in Ages, NEW n \in Nat
  PROVE  /\ Aged(l, n) \in Ages
         /\ Aged(l, n).probe = Never <=> l.probe = Never
         /\ Aged(l, n).stalled = Never <=> l.stalled = Never
         /\ Aged(l, n).silent <= l.silent + n
         /\ Aged(l, n).probe <= l.probe + n
         /\ Aged(l, n).stalled <= l.stalled + n
<1>1. /\ l.silent \in 0..Longest /\ l.probe \in Never..WedgeAfter /\ l.stalled \in Never..Grace
      /\ l.sent \in [Ids -> Never..RequestTtl + 1]
  BY DEF Ages
<1>2. /\ Aged(l, n).silent = Older(l.silent, n, Longest) /\ Aged(l, n).probe = Older(l.probe, n, WedgeAfter)
      /\ Aged(l, n).stalled = Older(l.stalled, n, Grace)
      /\ Aged(l, n).sent = [i \in Ids |-> Older(l.sent[i], n, RequestTtl + 1)]
  BY DEF Aged
<1>3. /\ Older(l.probe, n, WedgeAfter) \in Never..WedgeAfter /\ Older(l.probe, n, WedgeAfter) <= l.probe + n
      /\ Older(l.probe, n, WedgeAfter) = Never <=> l.probe = Never
  <2>1. l.probe \in Never..WedgeAfter /\ WedgeAfter \in Nat
    BY <1>1, Delays
  <2> QED BY <2>1, OlderIs
<1>4. /\ Older(l.stalled, n, Grace) \in Never..Grace /\ Older(l.stalled, n, Grace) <= l.stalled + n
      /\ Older(l.stalled, n, Grace) = Never <=> l.stalled = Never
  <2>1. l.stalled \in Never..Grace /\ Grace \in Nat
    BY <1>1, Delays
  <2> QED BY <2>1, OlderIs
<1>5. Older(l.silent, n, Longest) \in 0..Longest /\ Older(l.silent, n, Longest) <= l.silent + n
  BY <1>1, Delays DEF Older, Lesser, Never
<1>6. \A i \in Ids : Older(l.sent[i], n, RequestTtl + 1) \in Never..RequestTtl + 1
  <2>1. ASSUME NEW i \in Ids PROVE Older(l.sent[i], n, RequestTtl + 1) \in Never..RequestTtl + 1
    <3>1. l.sent[i] \in Never..RequestTtl + 1 /\ RequestTtl + 1 \in Nat
      BY <1>1, Delays
    <3> QED BY <3>1, OlderIs
  <2> QED BY <2>1
<1>7. Aged(l, n) \in Ages
  BY <1>3, <1>4, <1>5, <1>6 DEF Aged, Ages
<1> QED BY <1>2, <1>3, <1>4, <1>5, <1>7

(* Forgetting an old request touches no other age.                          *)
LEMMA ForgetIs ==
  ASSUME NEW l \in Ages
  PROVE  /\ Forget(l) \in Ages /\ Forget(l).silent = l.silent /\ Forget(l).probe = l.probe
         /\ Forget(l).stalled = l.stalled
<1>1. \A i \in Ids : (IF l.sent[i] > RequestTtl THEN Never ELSE l.sent[i]) \in Never..RequestTtl + 1
  BY Delays DEF Ages, Never
<1>2. Forget(l).sent = [i \in Ids |-> IF l.sent[i] > RequestTtl THEN Never ELSE l.sent[i]]
  BY DEF Ages, Forget
<1> QED BY <1>1, <1>2 DEF Ages, Forget

(* Served frames end the silence and a stall, and answer the probe they     *)
(* answer.                                                                  *)
LEMMA ServedIs ==
  ASSUME NEW l \in Ages, NEW calls
  PROVE  /\ Served(l, calls) \in Ages
         /\ Contents(calls) \subseteq Ends => Served(l, calls) = l
         /\ ~(Contents(calls) \subseteq Ends) =>
              /\ Served(l, calls).silent = 0 /\ Served(l, calls).stalled = Never
              /\ "probe" \in Contents(calls) => Served(l, calls).probe = Never
         /\ Served(l, calls).probe \in {Never, l.probe}
         /\ Served(l, calls).stalled \in {Never, l.stalled}
         /\ "probe" \notin Contents(calls) => Served(l, calls).probe = l.probe
<1> DEFINE F == Contents(calls) \ Ends
<1>1. Contents(calls) \subseteq Ends <=> F = {}
  OBVIOUS
<1>2. "probe" \in F <=> "probe" \in Contents(calls)
  BY DEF Ends
<1>3. F = {} => livenessServerFrame(l, F) = l
  BY DEF livenessServerFrame
<1>4. F # {} => livenessServerFrame(l, F) = [silent  |-> 0,
        sent    |-> [i \in Ids |-> IF i \in F THEN Never ELSE l.sent[i]],
        probe   |-> IF "probe" \in F THEN Never ELSE l.probe,
        stalled |-> Never]
  BY DEF livenessServerFrame
<1>5. Never \in Never..RequestTtl + 1 /\ Never \in Never..WedgeAfter /\ Never \in Never..Grace /\ 0 \in 0..Longest
  BY Delays DEF Never
<1>6. F # {} => livenessServerFrame(l, F) \in Ages
  BY <1>4, <1>5 DEF Ages
<1>7. Served(l, calls) = livenessServerFrame(l, F)
  BY DEF Served
<1> HIDE DEF F
<1> QED BY <1>1, <1>2, <1>3, <1>4, <1>6, <1>7

(* The phase and the death after calls were served.                         *)
LEMMA ServedToldIs ==
  ASSUME NEW calls, phase \in Phases
  PROVE  /\ ServedPhase(calls) \in Phases
         /\ Contents(calls) \cap Ends = {} => ServedDead(calls) = dead
         /\ Contents(calls) \cap Ends # {} => ServedDead(calls) \in {"exit", "crash"}
<1>1. ServedPhase(calls) \in Phases
  BY DEF ServedPhase, PhaseAfter, Phases
<1>2. Contents(calls) \cap Ends = {} <=> {k \in DOMAIN calls : calls[k] \in Ends} = {}
  BY DEF Contents
<1> QED BY <1>1, <1>2 DEF ServedDead, EndOf

(* The watchdog's decision: no probe while one is out, no stall within the  *)
(* delay, no death within the grace.                                        *)
LEMMA TickIs ==
  ASSUME NEW l \in Ages, NEW p
  PROVE  /\ livenessTick(l, p) \in {"none", "probe", "stall", "dead"}
         /\ livenessTick(l, p) = "probe" => l.probe = Never /\ l.stalled = Never /\ l.silent >= ProbeAfter
         /\ livenessTick(l, p) = "stall" =>
              l.probe # Never /\ l.stalled = Never /\ Lesser(l.probe, l.silent) >= WedgeAfter
         /\ livenessTick(l, p) = "dead" => l.stalled # Never /\ l.stalled >= Grace
<1>1. CASE ~Owed(l, p)
  BY <1>1 DEF livenessTick
<1>2. CASE Owed(l, p) /\ l.stalled # Never
  BY <1>2 DEF livenessTick
<1>3. CASE Owed(l, p) /\ l.stalled = Never /\ l.probe = Never
  BY <1>3 DEF livenessTick
<1>4. CASE Owed(l, p) /\ l.stalled = Never /\ l.probe # Never
  BY <1>4 DEF livenessTick
<1> QED BY <1>1, <1>2, <1>3, <1>4

(* What the invariant says of the types.                                    *)
Typings ==
  /\ L \in Ages /\ phase \in Phases /\ located \in BOOLEAN
  /\ watch \in [checked : BOOLEAN, ticks : Never..1] /\ retries \in 0..LateRetries /\ counted \in BOOLEAN
  /\ dead \in {"no", "wedged", "exit", "crash"}
  /\ pending \in BOOLEAN /\ flight \in {"none", "new", "old"} /\ lost \in BOOLEAN
  /\ lean \in {"alive", "frozen", "gone"} /\ inbox \subseteq Ids \cup {"probe"}
  /\ probeAge \in Never..1 /\ slept \in 0..MaxSuspensions

(* The type invariant in parts.                                             *)
LEMMA TypeIs ==
  /\ WatchTypeOK <=> /\ Typings /\ Len(out) <= MaxFrames /\ (out # <<>> => pending)
                     /\ (L.probe # Never => "probe" \in inbox \cup Contents(out))
BY DEF WatchTypeOK, Typings, Ages, Phases

(* The same of a step's result.                                             *)
LEMMA TypeIsNext ==
  /\ WatchTypeOK' <=> /\ Typings' /\ Len(out') <= MaxFrames /\ (out' # <<>> => pending')
                      /\ (L'.probe # Never => "probe" \in inbox' \cup Contents(out'))
BY TypeIs DEF WatchTypeOK, Typings, Ages, Phases, Contents, Longest

(* There are at most three ticks left, where there is an age to tell.       *)
LEMMA LeftIs ==
  ASSUME NEW q, NEW found \in BOOLEAN, NEW w \in [checked : BOOLEAN, ticks : Never..1],
         w = NoWatch \/ w.ticks \in 0..1, NEW a \in Never..1, q # <<>> \/ a \in 0..1
  PROVE  LeftOf(q, found, w, a) \in 0..3
<1>1. CASE q # <<>>
  BY <1>1 DEF LeftOf
<1>2. CASE q = <<>>
  BY <1>2 DEF LeftOf
<1> QED BY <1>1, <1>2

(* Where a probe is owed, its age or the mailbox tells what is left.        *)
LEMMA OwedLeft ==
  ASSUME WatchIInv, L.probe # Never
  PROVE  Left \in 0..3 /\ (out = <<>> => "probe" \in inbox /\ probeAge \in 0..1)
<1>1. out = <<>> => "probe" \in inbox
  BY TypeIs, NoCalls DEF WatchIInv
<1>2. probeAge \in Never..1 /\ ("probe" \in inbox => probeAge # Never)
  BY TypeIs DEF WatchIInv, Mail, Typings
<1>3. out = <<>> => probeAge \in 0..1
  BY <1>1, <1>2 DEF Never
<1> QED BY <1>1, <1>3, LeftIs, TypeIs DEF WatchIInv, Confirming, Typings, Left

(* The lag grows with the ticks.                                            *)
LEMMA LagGrows ==
  /\ Lag(0) = 0 /\ Lag(1) = Suspension /\ Lag(2) = 2 * Suspension
  /\ \A j, k \in 0..2 : Lag(j) \in Int /\ (j <= k => Lag(j) <= Lag(k))
BY Delays DEF Lag

(* A step in which nothing is served, no time passes and no wait grows      *)
(* keeps what is heard in time.                                             *)
LEMMA HeardKept ==
  ASSUME WatchIInv, L'.probe = L.probe, L'.silent = L.silent, L'.stalled = L.stalled, slept' = slept,
         dead = "no", lean = "frozen" => lean' = "frozen",
         L.probe # Never => Left' \in 0..Left
  PROVE  Heard'
<1>1. SUFFICES ASSUME L.probe # Never, lean # "frozen", lean' # "frozen" PROVE Heard'
  BY DEF Heard
<1>2. Left \in 0..3 /\ Left' \in 0..Left
  BY <1>1, OwedLeft
<1>3. L \in Ages
  BY TypeIs DEF WatchIInv, Typings
<1>4. L.silent \in Int /\ L.probe \in Int /\ L.stalled \in Int
  BY <1>3, Delays DEF Ages, Never
<1>5. /\ slept = 0 => Lesser(L.probe, L.silent) + Left <= 3
      /\ L.stalled # Never =>
         /\ Left <= 2 /\ L.stalled <= Lag(2 - Left)
         /\ WedgeAfter >= 3 /\ slept = 0 => Left = 0
         /\ WedgeAfter >= 3 /\ MaxSuspensions <= 1 => L.stalled + Left <= 2
  BY <1>1 DEF WatchIInv, Heard
<1>6. Lesser(L.probe, L.silent) \in Int
  BY <1>4 DEF Lesser
<1>7. slept' = 0 => Lesser(L'.probe, L'.silent) + Left' <= 3
  BY <1>2, <1>5, <1>6
<1>8. ASSUME L'.stalled # Never
      PROVE  /\ Left' <= 2 /\ L'.stalled <= Lag(2 - Left')
             /\ WedgeAfter >= 3 /\ slept' = 0 => Left' = 0
             /\ WedgeAfter >= 3 /\ MaxSuspensions <= 1 => L'.stalled + Left' <= 2
  <2>1. /\ Left <= 2 /\ L.stalled <= Lag(2 - Left)
        /\ WedgeAfter >= 3 /\ slept = 0 => Left = 0
        /\ WedgeAfter >= 3 /\ MaxSuspensions <= 1 => L.stalled + Left <= 2
    BY <1>5, <1>8
  <2>2. Lag(2 - Left) <= Lag(2 - Left') /\ Lag(2 - Left) \in Int /\ Lag(2 - Left') \in Int
    <3>1. \A j, k \in 0..3 : j <= 2 /\ k <= j => 2 - j \in 0..2 /\ 2 - k \in 0..2 /\ 2 - j <= 2 - k
      OBVIOUS
    <3>2. Left \in 0..3 /\ Left' \in 0..3 /\ Left <= 2 /\ Left' <= Left
      BY <1>2, <2>1
    <3>3. 2 - Left \in 0..2 /\ 2 - Left' \in 0..2 /\ 2 - Left <= 2 - Left'
      BY <3>1, <3>2
    <3> QED BY <3>3, LagGrows
  <2> QED BY <1>2, <1>4, <2>1, <2>2
<1> QED BY <1>7, <1>8 DEF Heard

(* A step after which a frame was just heard, or a probe just sent.         *)
LEMMA HeardAnew ==
  ASSUME WatchIInv, L' \in Ages, L'.probe # Never => L'.silent = 0 \/ L'.probe = 0, L'.stalled = Never,
         L'.probe # Never /\ dead' = "no" => Left' \in 0..3
  PROVE  Heard'
<1>1. L'.probe # Never => Lesser(L'.probe, L'.silent) = 0
  <2>1. L'.probe # Never => L'.probe \in Nat /\ L'.silent \in Nat
    BY Delays DEF Ages, Never
  <2> QED BY <2>1 DEF Lesser
<1> QED BY <1>1 DEF Heard

(* The session's bookkeeping at its start.                                  *)
LEMMA WatchInitIInv == WatchInit => WatchIInv
<1> SUFFICES ASSUME WatchInit PROVE WatchIInv
  OBVIOUS
<1>1. L \in Ages /\ L.stalled = Never /\ L.probe = Never
  BY Delays DEF WatchInit, createLiveness, Ages, Never
<1>2. Typings
  <2>1. 0 \in 0..LateRetries /\ 0 \in 0..MaxSuspensions /\ Never \in Never..1
    BY Delays DEF Never
  <2>2. watch \in [checked : BOOLEAN, ticks : Never..1]
    BY <2>1 DEF WatchInit, NoWatch
  <2> QED BY <1>1, <2>1, <2>2 DEF WatchInit, Typings, Phases
<1>3. out = <<>> /\ Contents(out) = {} /\ Len(out) <= MaxFrames /\ out \in Seq(LeanCalls)
  BY NoCalls, Delays DEF WatchInit
<1>4. WatchTypeOK
  BY <1>1, <1>2, <1>3, TypeIs DEF WatchInit
<1>5. Mail
  BY <1>3 DEF WatchInit, Mail, Ends
<1>6. Confirming
  BY DEF WatchInit, Confirming
<1> QED BY <1>1, <1>4, <1>5, <1>6 DEF WatchInit, WatchIInv, Heard

(* Nothing changes.                                                         *)
LEMMA WatchStutters == WatchIInv /\ UNCHANGED watchVars => WatchIInv'
BY DEF watchVars, host, mailbox, leanSide, WatchIInv, WatchTypeOK, Mail, Confirming, Heard, Left, Contents, Longest, Lesser,
       Healthy

(* A request is written.                                                    *)
LEMMA ClientRequestWatched == ASSUME WatchIInv, NEW i \in Ids, ClientRequest(i) PROVE WatchIInv'
<1>1. Typings /\ Mail /\ Confirming
  BY TypeIs DEF WatchIInv
<1>2. /\ L' \in Ages /\ L'.probe = L.probe /\ L'.silent = L.silent /\ L'.stalled = L.stalled
  <2>1. L' = [L EXCEPT !.sent[i] = 0] /\ 0 \in Never..RequestTtl + 1
    BY Delays DEF ClientRequest, livenessClientRequest, Never
  <2> QED BY <1>1, <2>1 DEF Ages, Typings
<1>3. /\ UNCHANGED <<watch, retries, dead, phase, out, pending, flight, lost, located, lean, probeAge, slept>>
      /\ inbox' = inbox \cup {i} /\ dead = "no" /\ counted' = FALSE
  BY DEF ClientRequest, mailbox, NotCounted
<1>4. Typings'
  BY <1>1, <1>2, <1>3 DEF Typings
<1>5. WatchTypeOK'
  BY <1>2, <1>3, <1>4, TypeIs, TypeIsNext DEF WatchIInv
<1>6. Mail'
  BY <1>1, <1>3, Delays DEF Mail, Contents
<1>7. Confirming'
  BY <1>1, <1>3 DEF Confirming
<1>8. Left' = Left
  BY <1>3 DEF Left
<1>9. L.probe # Never => Left' \in 0..Left
  BY <1>8, OwedLeft
<1>10. Heard'
  BY <1>2, <1>3, <1>9, HeardKept
<1> QED BY <1>2, <1>3, <1>5, <1>6, <1>7, <1>10 DEF WatchIInv

(* An edit: what is in the mailbox is of an older text.                     *)
LEMMA EditWatched == ASSUME WatchIInv, Edit PROVE WatchIInv'
<1>1. Typings /\ Mail /\ Confirming
  BY TypeIs DEF WatchIInv
<1>2. /\ UNCHANGED <<L, watch, retries, dead, pending, flight, lost, located, lean, inbox, probeAge, slept>>
      /\ phase' = "elaborating" /\ dead = "no" /\ counted' = FALSE
      /\ out' = [k \in DOMAIN out |-> IF out[k] = "done" THEN "note" ELSE out[k]]
  BY DEF Edit, host, leanSide, NotCounted
<1>3. /\ out' \in Seq(LeanCalls) /\ Len(out') = Len(out) /\ (out' = <<>> <=> out = <<>>)
      /\ DOMAIN out' = DOMAIN out
  <2>1. out \in Seq(LeanCalls) /\ DOMAIN out = 1..Len(out) /\ Len(out) \in Nat
    BY <1>1 DEF Mail
  <2>2. \A k \in 1..Len(out) : (IF out[k] = "done" THEN "note" ELSE out[k]) \in LeanCalls
    BY <2>1 DEF LeanCalls
  <2>3. out' \in Seq(LeanCalls) /\ Len(out') = Len(out) /\ DOMAIN out' = DOMAIN out
    BY <1>2, <2>1, <2>2
  <2>4. out' = <<>> <=> out = <<>>
    BY <2>1, <2>3
  <2> QED BY <2>3, <2>4
<1>4. \A x \in Ends \cup {"probe"} : x \in Contents(out') <=> x \in Contents(out)
  <2>1. ASSUME NEW x \in Ends \cup {"probe"} PROVE x \in Contents(out') <=> x \in Contents(out)
    <3>1. x # "done" /\ x # "note"
      BY DEF Ends
    <3>2. \A k \in DOMAIN out : out'[k] = x <=> out[k] = x
      BY <1>2, <3>1
    <3> QED BY <1>3, <3>2 DEF Contents
  <2> QED BY <2>1
<1>5. Typings'
  BY <1>1, <1>2 DEF Typings, Phases, Ages, Longest
<1>6. WatchTypeOK'
  BY <1>2, <1>3, <1>4, <1>5, TypeIs, TypeIsNext DEF WatchIInv
<1>7. Mail'
  BY <1>1, <1>2, <1>3, <1>4 DEF Mail
<1>8. Confirming'
  BY <1>1, <1>2 DEF Confirming
<1>9. Left' = Left
  BY <1>2, <1>3 DEF Left, LeftOf
<1>10. L.probe # Never => Left' \in 0..Left
  BY <1>9, OwedLeft
<1>11. Heard'
  BY <1>2, <1>10, HeardKept
<1> QED BY <1>2, <1>6, <1>7, <1>8, <1>11 DEF WatchIInv

(* The Lean side stops running.                                             *)
LEMMA LeanFreezesWatched == ASSUME WatchIInv, LeanFreezes PROVE WatchIInv'
<1>1. Typings /\ Mail /\ Confirming
  BY TypeIs DEF WatchIInv
<1>2. /\ UNCHANGED <<L, watch, retries, dead, phase, out, pending, flight, lost, located, inbox, probeAge, slept>>
      /\ dead = "no" /\ lean = "alive" /\ lean' = "frozen" /\ counted' = FALSE
  BY DEF LeanFreezes, host, mailbox, NotCounted
<1>3. Typings'
  BY <1>1, <1>2 DEF Typings, Ages, Longest
<1>4. WatchTypeOK'
  BY <1>2, <1>3, TypeIs, TypeIsNext DEF WatchIInv, Contents
<1>5. Mail'
  BY <1>1, <1>2 DEF Mail, Contents
<1>6. Confirming'
  BY <1>1, <1>2 DEF Confirming
<1>7. Heard'
  BY <1>2 DEF Heard
<1> QED BY <1>2, <1>4, <1>5, <1>6, <1>7 DEF WatchIInv

(* A Lean thread sends a call, the last one when its process ends.          *)
LEMMA SendWatched ==
  ASSUME WatchIInv, NEW f \in LeanCalls, Send(f), dead = "no", lean = "alive", NotCounted,
         UNCHANGED <<L, watch, retries, dead, phase, located, slept>>,
         lean' = (IF f \in Ends THEN "gone" ELSE "alive"),
         inbox' = inbox \ {f}, probeAge' = (IF f = "probe" THEN Never ELSE probeAge)
  PROVE  WatchIInv'
<1>1. Typings /\ Mail /\ Confirming
  BY TypeIs DEF WatchIInv
<1>2. /\ out' = Append(out, f) /\ pending' = TRUE /\ Len(out) < MaxFrames
      /\ pending => flight' = flight /\ lost' = lost
      /\ ~pending => \/ lost' = TRUE /\ flight' = flight
                     \/ lost' = FALSE /\ flight' = (IF flight = "none" THEN "new" ELSE flight)
  <2>1. pending \in BOOLEAN
    BY <1>1 DEF Typings
  <2>2. CASE pending
    BY <2>2 DEF Send
  <2>3. CASE ~pending
    <3>1. out' = Append(out, f) /\ pending' = TRUE /\ Len(out) < MaxFrames
      BY DEF Send
    <3>2. \/ flight' = (IF flight = "none" THEN "new" ELSE flight) /\ lost' = FALSE
          \/ lost' = TRUE /\ UNCHANGED flight
      BY <2>3 DEF Send
    <3> QED BY <2>3, <3>1, <3>2
  <2> QED BY <2>1, <2>2, <2>3
<1>3. /\ out' \in Seq(LeanCalls) /\ out' # <<>> /\ Len(out') <= MaxFrames
      /\ Contents(out') = Contents(out) \cup {f}
  <2>1. out \in Seq(LeanCalls)
    BY <1>1 DEF Mail
  <2> QED BY <1>2, <2>1, Calls1, Delays
<1>4. Typings'
  <2>1. Never \in Never..1
    BY DEF Never
  <2> QED BY <1>1, <1>2, <2>1 DEF Typings, NotCounted, Ages, Longest
<1>5. WatchTypeOK'
  <2>1. L.probe # Never => "probe" \in inbox \cup Contents(out)
    BY TypeIs DEF WatchIInv
  <2> QED BY <1>2, <1>3, <1>4, <2>1, TypeIsNext
<1>6. Mail'
  <2>1. pending' /\ ~lost' => flight' # "none"
    BY <1>1, <1>2 DEF Mail, Typings
  <2>2. Contents(out) \cap Ends = {}
    BY <1>1 DEF Mail
  <2>3. lean' = "gone" <=> Contents(out') \cap Ends # {}
    BY <1>3, <2>2
  <2>4. "probe" \in inbox' => probeAge' # Never
    BY <1>1 DEF Mail
  <2> QED BY <1>2, <1>3, <2>1, <2>3, <2>4 DEF Mail
<1>7. Confirming'
  BY <1>1, <1>2 DEF Confirming
<1>8. L.probe # Never => Left' \in 0..Left
  <2>1. SUFFICES ASSUME L.probe # Never PROVE Left' \in 0..Left
    OBVIOUS
  <2>2. Left \in 0..3 /\ (out = <<>> => probeAge \in 0..1)
    BY <2>1, OwedLeft
  <2>3. CASE out # <<>>
    BY <1>3, <2>2, <2>3 DEF Left, LeftOf
  <2>4. CASE out = <<>>
    <3>1. Left = IF watch # NoWatch /\ watch.ticks = 0 THEN 3 ELSE 3 - probeAge
      BY <2>4 DEF Left, LeftOf
    <3>2. Left' = IF ~located THEN 0 ELSE IF watch = NoWatch THEN 2
                  ELSE IF watch.checked THEN 3 - watch.ticks ELSE 1 - watch.ticks
      BY <1>3 DEF Left, LeftOf
    <3> QED BY <1>1, <2>2, <2>4, <3>1, <3>2 DEF Confirming
  <2> QED BY <2>3, <2>4
<1>9. Heard'
  BY <1>8, HeardKept
<1> QED BY <1>5, <1>6, <1>7, <1>9 DEF WatchIInv

(* A Lean side that lives answers, reports and ends.                        *)
LEMMA LeanSendsWatched ==
  ASSUME WatchIInv, (\E r \in Ids \cup {"probe"} : LeanAnswers(r)) \/ LeanReports \/ LeanEnds
  PROVE  WatchIInv'
<1>1. inbox \subseteq Ids \cup {"probe"} /\ {"busy", "done", "exit", "throw"} \cap (Ids \cup {"probe"}) = {}
  BY TypeIs, LivenessAssumption DEF WatchIInv, Typings
<1>2. ASSUME NEW r \in Ids \cup {"probe"}, LeanAnswers(r) PROVE WatchIInv'
  <2>1. r \in LeanCalls /\ r \notin Ends
    BY Delays DEF LeanCalls
  <2>2. /\ Send(r) /\ dead = "no" /\ lean = "alive" /\ NotCounted
        /\ UNCHANGED <<L, watch, retries, dead, phase, located, slept>> /\ lean' = "alive"
        /\ inbox' = inbox \ {r} /\ probeAge' = (IF r = "probe" THEN Never ELSE probeAge)
    BY <1>2 DEF LeanAnswers, host
  <2> QED BY <2>1, <2>2, SendWatched
<1>3. ASSUME LeanReports PROVE WatchIInv'
  <2>1. PICK f \in {"busy", "done"} : Send(f)
    BY <1>3 DEF LeanReports
  <2>2. f \in LeanCalls /\ f \notin Ends /\ f # "probe" /\ inbox = inbox \ {f}
    BY <1>1 DEF LeanCalls, Ends
  <2>3. /\ dead = "no" /\ lean = "alive" /\ NotCounted
        /\ UNCHANGED <<L, watch, retries, dead, phase, located, slept>> /\ lean' = "alive"
        /\ inbox' = inbox /\ probeAge' = probeAge
    BY <1>3 DEF LeanReports, host, leanSide
  <2> QED BY <2>1, <2>2, <2>3, SendWatched
<1>4. ASSUME LeanEnds PROVE WatchIInv'
  <2>1. PICK f \in Ends : Send(f)
    BY <1>4 DEF LeanEnds
  <2>2. f \in LeanCalls /\ f # "probe" /\ inbox = inbox \ {f}
    BY <1>1 DEF LeanCalls, Ends
  <2>3. /\ dead = "no" /\ lean = "alive" /\ NotCounted
        /\ UNCHANGED <<L, watch, retries, dead, phase, located, slept>> /\ lean' = "gone"
        /\ inbox' = inbox /\ probeAge' = probeAge
    BY <1>4 DEF LeanEnds, host
  <2> QED BY <2>1, <2>2, <2>3, SendWatched
<1> QED BY <1>2, <1>3, <1>4

(* The mailbox is served, by a message or by a confirmation.                *)
LEMMA ServeWatched ==
  ASSUME WatchIInv, Serve, dead = "no", counted' \in BOOLEAN, retries' \in 0..LateRetries,
         flight' \in {flight, "none"}, UNCHANGED <<located, lean, inbox, probeAge, slept>>,
         watch' = NoWatch \/ watch' = [watch EXCEPT !.checked = watch # NoWatch]
  PROVE  WatchIInv'
<1>1. Typings /\ Mail /\ Confirming
  BY TypeIs DEF WatchIInv
<1>2. /\ L' = Served(L, out) /\ phase' = ServedPhase(out) /\ dead' = ServedDead(out)
      /\ out' = <<>> /\ pending' = FALSE /\ lost' = FALSE
  BY DEF Serve, Emptied
<1>3. L \in Ages /\ phase \in Phases /\ out \in Seq(LeanCalls)
  BY <1>1 DEF Typings, Mail
<1>4. /\ L' \in Ages
      /\ Contents(out) \subseteq Ends => L' = L
      /\ ~(Contents(out) \subseteq Ends) =>
           /\ L'.silent = 0 /\ L'.stalled = Never
           /\ "probe" \in Contents(out) => L'.probe = Never
      /\ "probe" \notin Contents(out) => L'.probe = L.probe
      /\ "probe" \notin Ends
  BY <1>2, <1>3, ServedIs, Delays
<1>5. /\ phase' \in Phases
      /\ Contents(out) \cap Ends = {} => dead' = "no"
      /\ Contents(out) \cap Ends # {} => dead' \in {"exit", "crash"}
  BY <1>2, <1>3, ServedToldIs
<1>6. Contents(out') = {} /\ Len(out') <= MaxFrames /\ out' \in Seq(LeanCalls)
  BY <1>2, NoCalls, Delays
<1>7. /\ watch' \in [checked : BOOLEAN, ticks : Never..1]
      /\ watch' = NoWatch \/ (watch # NoWatch /\ watch'.checked /\ watch'.ticks = watch.ticks)
  <2>1. NoWatch \in [checked : BOOLEAN, ticks : Never..1]
    BY DEF NoWatch, Never
  <2>2. watch \in [checked : BOOLEAN, ticks : Never..1]
    BY <1>1 DEF Typings
  <2>3. CASE watch' = NoWatch
    BY <2>1, <2>3
  <2>4. CASE watch = NoWatch /\ watch' = [watch EXCEPT !.checked = watch # NoWatch]
    <3>1. \A w \in [checked : BOOLEAN, ticks : Never..1] : w.checked = FALSE => [w EXCEPT !.checked = FALSE] = w
      OBVIOUS
    <3>2. watch' = [NoWatch EXCEPT !.checked = FALSE] /\ NoWatch.checked = FALSE
      BY <2>4 DEF NoWatch
    <3> QED BY <2>1, <3>1, <3>2
  <2>5. CASE watch # NoWatch /\ watch' = [watch EXCEPT !.checked = watch # NoWatch]
    <3>1. watch' = [watch EXCEPT !.checked = TRUE]
      BY <2>5
    <3> QED BY <2>2, <2>5, <3>1
  <2> QED BY <2>3, <2>4, <2>5
<1>8. Typings'
  <2>1. L' \in Ages /\ (L \in Ages)' <=> L' \in Ages
    BY <1>4 DEF Ages, Longest
  <2>2. /\ located' \in BOOLEAN /\ flight' \in {"none", "new", "old"} /\ lean' \in {"alive", "frozen", "gone"}
        /\ inbox' \subseteq Ids \cup {"probe"} /\ probeAge' \in Never..1 /\ slept' \in 0..MaxSuspensions
    BY <1>1 DEF Typings
  <2>3. phase' \in {"starting", "elaborating", "ready"} /\ dead' \in {"no", "wedged", "exit", "crash"}
    BY <1>5 DEF Phases
  <2> QED BY <1>2, <1>4, <1>7, <2>2, <2>3 DEF Typings, Phases, Ages, Longest
<1>9. L'.probe # Never => "probe" \in inbox
  <2>1. L.probe # Never => "probe" \in inbox \cup Contents(out)
    BY TypeIs DEF WatchIInv
  <2> QED BY <1>4, <2>1
<1>10. WatchTypeOK'
  BY <1>2, <1>6, <1>8, <1>9, TypeIsNext
<1>11. Mail'
  BY <1>1, <1>2, <1>5, <1>6 DEF Mail
<1>12. Confirming'
  BY <1>1, <1>7 DEF Confirming
<1>13. Heard'
  <2>1. CASE ~(Contents(out) \subseteq Ends)
    <3>1. L'.probe # Never => Left' \in 0..3
      <4>1. ASSUME L'.probe # Never PROVE probeAge' \in 0..1
        BY <1>1, <1>9, <4>1 DEF Mail, Typings, Never
      <4>2. located' \in BOOLEAN /\ (watch' = NoWatch \/ watch'.ticks \in 0..1) /\ probeAge' \in Never..1
        BY <1>1, <1>7 DEF Typings, Confirming
      <4> QED BY <1>7, <4>1, <4>2, LeftIs DEF Left
    <3> QED BY <1>4, <2>1, <3>1, HeardAnew
  <2>2. CASE Contents(out) = {}
    <3>1. out = <<>> /\ L' = L
      <4>1. "busy" \in LeanCalls
        BY DEF LeanCalls
      <4> QED BY <1>3, <1>4, <2>2, <4>1, Calls1
    <3>2. L.probe # Never => Left' \in 0..Left
      <4>1. SUFFICES ASSUME L.probe # Never PROVE Left' \in 0..Left
        OBVIOUS
      <4>2. Left \in 0..3 /\ probeAge \in 0..1
        BY <3>1, <4>1, OwedLeft
      <4>3. Left = IF watch # NoWatch /\ watch.ticks = 0 THEN 3 ELSE 3 - probeAge
        BY <3>1 DEF Left, LeftOf
      <4>4. Left' = IF watch' # NoWatch /\ watch'.ticks = 0 THEN 3 ELSE 3 - probeAge
        BY <1>2 DEF Left, LeftOf
      <4> QED BY <1>7, <4>2, <4>3, <4>4
    <3> QED BY <3>1, <3>2, HeardKept
  <2>3. CASE Contents(out) \cap Ends # {}
    <3>1. dead' # "no"
      BY <1>5, <2>3
    <3> QED BY <3>1 DEF Heard
  <2> QED BY <2>1, <2>2, <2>3
<1>14. (L.stalled # Never => L.probe # Never)'
  BY <1>4 DEF WatchIInv
<1>15. dead' # "wedged"
  BY <1>5
<1> QED BY <1>10, <1>11, <1>12, <1>13, <1>14, <1>15 DEF WatchIInv

(* A message that arrives serves what is there.                             *)
LEMMA DeliverWatched == ASSUME WatchIInv, Deliver PROVE WatchIInv'
<1>1. /\ Serve /\ dead = "no" /\ counted' = FALSE /\ retries' = retries /\ flight' = "none"
      /\ UNCHANGED <<located, lean, inbox, probeAge, slept>>
      /\ watch' = [watch EXCEPT !.checked = watch # NoWatch]
  BY DEF Deliver, NotCounted, leanSide
<1>2. retries \in 0..LateRetries
  BY TypeIs DEF WatchIInv, Typings
<1> QED BY <1>1, <1>2, ServeWatched

(* A confirmation finds its word served, waits once more, or serves it.     *)
LEMMA ConfirmWatched == ASSUME WatchIInv, ConfirmOnTime \/ ConfirmLate PROVE WatchIInv'
<1>1. Typings /\ Mail /\ Confirming
  BY TypeIs DEF WatchIInv
<1>2. /\ dead = "no" /\ watch # NoWatch /\ UNCHANGED <<flight, located, lean, inbox, probeAge, slept>>
  BY DEF ConfirmOnTime, ConfirmLate, leanSide
<1>3. 0 \in 0..LateRetries /\ retries \in 0..LateRetries
  BY <1>1, Delays DEF Typings
<1>4. CASE Serve /\ watch' = NoWatch /\ retries' = 0 /\ counted' \in BOOLEAN
  BY <1>2, <1>3, <1>4, ServeWatched
<1>5. ASSUME counted' = FALSE, UNCHANGED <<L, dead, phase, out, pending, lost>>, retries' \in 0..LateRetries,
             watch' = watch \/ (Healthy /\ watch' = NoWatch)
      PROVE  WatchIInv'
  <2>1. watch' \in [checked : BOOLEAN, ticks : Never..1]
    <3>1. NoWatch \in [checked : BOOLEAN, ticks : Never..1]
      BY DEF NoWatch, Never
    <3> QED BY <1>1, <1>5, <3>1 DEF Typings
  <2>2. Typings'
    BY <1>1, <1>2, <1>5, <2>1 DEF Typings, Ages, Longest
  <2>3. WatchTypeOK'
    BY <1>2, <1>5, <2>2, TypeIs, TypeIsNext DEF WatchIInv, Contents
  <2>4. Mail'
    BY <1>1, <1>2, <1>5 DEF Mail, Contents
  <2>5. Confirming'
    BY <1>1, <1>2, <1>5 DEF Confirming
  <2>6. L.probe # Never => Left' \in 0..Left
    <3>1. SUFFICES ASSUME L.probe # Never PROVE Left' \in 0..Left
      OBVIOUS
    <3>2. Left \in 0..3 /\ (out = <<>> => probeAge \in 0..1)
      BY <3>1, OwedLeft
    <3>3. CASE watch' = watch
      BY <1>2, <1>5, <3>2, <3>3 DEF Left
    <3>4. CASE Healthy /\ watch' = NoWatch /\ out # <<>>
      <4>1. watch.checked /\ located /\ watch.ticks \in 0..1
        BY <1>1, <1>2, <3>4 DEF Healthy, Mail, Confirming
      <4>2. Left = 3 - watch.ticks /\ Left' = 2
        BY <1>2, <1>5, <3>4, <4>1 DEF Left, LeftOf
      <4> QED BY <4>1, <4>2
    <3>5. CASE watch' = NoWatch /\ out = <<>>
      <4>1. Left' = 3 - probeAge /\ Left = IF watch # NoWatch /\ watch.ticks = 0 THEN 3 ELSE 3 - probeAge
        BY <1>2, <1>5, <3>5 DEF Left, LeftOf
      <4> QED BY <3>2, <3>5, <4>1
    <3> QED BY <1>5, <3>3, <3>4, <3>5
  <2>7. Heard'
    BY <1>2, <1>5, <2>6, HeardKept
  <2> QED BY <1>2, <1>5, <2>3, <2>4, <2>5, <2>7 DEF WatchIInv
<1>6. \/ Serve /\ watch' = NoWatch /\ retries' = 0 /\ counted' \in BOOLEAN
      \/ /\ counted' = FALSE /\ UNCHANGED <<L, dead, phase, out, pending, lost>>
         /\ watch' = watch /\ retries < LateRetries /\ retries' = retries + 1
      \/ /\ counted' = FALSE /\ UNCHANGED <<L, dead, phase, out, pending, lost>>
         /\ Healthy /\ watch' = NoWatch /\ retries' = 0
  BY DEF ConfirmOnTime, ConfirmLate, Confirmed, NotCounted
<1>7. retries < LateRetries /\ retries' = retries + 1 => retries' \in 0..LateRetries
  BY <1>3, Delays
<1> QED BY <1>3, <1>4, <1>5, <1>6, <1>7

-----------------------------------------------------------------------------
(* A tick kicks the mailbox, unless it watches a PENDING word or already    *)
(* does.                                                                    *)
Kicks == watch = NoWatch /\ ~(located /\ pending)
TickServes == IF Kicks THEN out ELSE <<>>
WatchNext1 == IF watch = NoWatch /\ located /\ pending THEN [checked |-> FALSE, ticks |-> 0]
              ELSE [watch EXCEPT !.ticks = Older(@, 1, 1)]

(* What a tick does with the ages l and the decision action.                *)
Ticked(l, action) ==
  /\ phase' = ServedPhase(TickServes)
  /\ IF Kicks THEN Emptied ELSE UNCHANGED <<out, pending, lost>>
  /\ watch' = WatchNext1
  /\ flight' = (IF flight = "new" THEN "old" ELSE flight)
  /\ L' = CASE action = "probe" -> [l EXCEPT !.probe = 0]
            [] action = "stall" -> [l EXCEPT !.stalled = 0]
            [] OTHER -> l
  /\ dead' = IF action = "dead" THEN "wedged" ELSE ServedDead(TickServes)
  /\ inbox' = (IF action = "probe" THEN inbox \cup {"probe"} ELSE inbox)
  /\ probeAge' = (IF action = "probe" THEN 0 ELSE Older(probeAge, 1, 1))
  /\ UNCHANGED <<retries, located, lean>>

(* Its ages and its decision.                                               *)
TickAges(n) == Forget(Served(Aged(L, n), TickServes))
TickAction(n) ==
  IF ServedDead(TickServes) = "no" THEN livenessTick(TickAges(n), ServedPhase(TickServes)) ELSE "none"

(* The step of the watchdog in these terms.                                 *)
LEMMA StepIs ==
  ASSUME NEW n, Step(n)
  PROVE  Ticked(TickAges(n), TickAction(n)) /\ dead = "no" /\ InTime /\ counted' = FALSE
<1> DEFINE l == TickAges(n)
           action == TickAction(n)
<1>1. mailboxTick = "kick" <=> Kicks
  BY DEF mailboxTick, Kicks
<1>2. mailboxTick = "watch" <=> watch = NoWatch /\ located /\ pending
  BY DEF mailboxTick
<1>3. (IF mailboxTick = "kick" THEN out ELSE <<>>) = TickServes
  BY <1>1 DEF TickServes
<1>4. dead = "no" /\ InTime /\ counted' = FALSE
  BY DEF Step, NotCounted
<1>5. /\ phase' = ServedPhase(TickServes)
      /\ IF mailboxTick = "kick" THEN Emptied ELSE UNCHANGED <<out, pending, lost>>
      /\ watch' = (IF mailboxTick = "watch" THEN [checked |-> FALSE, ticks |-> 0]
                   ELSE [watch EXCEPT !.ticks = Older(@, 1, 1)])
      /\ flight' = (IF flight = "new" THEN "old" ELSE flight)
      /\ L' = CASE action = "probe" -> [l EXCEPT !.probe = 0]
                [] action = "stall" -> [l EXCEPT !.stalled = 0]
                [] OTHER -> l
      /\ dead' = IF action = "dead" THEN "wedged" ELSE ServedDead(TickServes)
      /\ inbox' = (IF action = "probe" THEN inbox \cup {"probe"} ELSE inbox)
      /\ probeAge' = (IF action = "probe" THEN 0 ELSE Older(probeAge, 1, 1))
      /\ UNCHANGED <<retries, located, lean>>
  BY <1>3 DEF Step, TickAges, TickAction
<1> HIDE DEF l, action
<1>6. Ticked(l, action)
  BY <1>1, <1>2, <1>5 DEF Ticked, WatchNext1
<1> QED BY <1>4, <1>6 DEF l, action

(* A tick in which nothing is served takes one of the ticks left, and can   *)
(* come only while there is one.                                            *)
LEMMA LeftFalls ==
  ASSUME WatchIInv, InTime, dead = "no", lean # "frozen", L.probe # Never, out = <<>> \/ ~Kicks
  PROVE  Left \in 1..3 /\ LeftOf(out, located, WatchNext1, Older(probeAge, 1, 1)) \in 0..(Left - 1)
<1>1. Typings /\ Mail /\ Confirming
  BY TypeIs DEF WatchIInv
<1>2. Older(0, 1, 1) = 1 /\ Older(Never, 1, 1) = Never
  BY DEF Older, Lesser, Never
<1>3. watch # NoWatch => watch.ticks = 0 /\ located /\ WatchNext1.ticks = 1 /\ WatchNext1.checked = watch.checked
  <2>1. watch # NoWatch => watch.ticks \in 0..1 /\ located /\ watch.ticks < 1
    BY <1>1 DEF Confirming, InTime
  <2>2. watch \in [checked : BOOLEAN, ticks : Never..1]
    BY <1>1 DEF Typings
  <2>3. watch # NoWatch => WatchNext1 = [watch EXCEPT !.ticks = 1] /\ watch.ticks = 0
    BY <1>2, <2>1 DEF WatchNext1
  <2> QED BY <2>1, <2>2, <2>3
<1>4. NoWatch.ticks = Never /\ Never # 0 /\ Never # 1
  BY DEF NoWatch, Never
<1>5. watch # NoWatch => WatchNext1 # NoWatch
  BY <1>3, <1>4
<1>6. CASE out # <<>> /\ watch # NoWatch
  <2>1. Left = (IF watch.checked THEN 3 ELSE 1)
    BY <1>3, <1>6 DEF Left, LeftOf
  <2>2. LeftOf(out, located, WatchNext1, Older(probeAge, 1, 1)) = (IF watch.checked THEN 2 ELSE 0)
    BY <1>3, <1>5, <1>6 DEF LeftOf
  <2> QED BY <2>1, <2>2
<1>7. CASE out # <<>> /\ watch = NoWatch
  <2>1. located /\ pending /\ WatchNext1 = [checked |-> FALSE, ticks |-> 0]
    BY <1>1, <1>7 DEF Kicks, WatchNext1
  <2>2. Left = 2 /\ WatchNext1 # NoWatch
    BY <1>4, <1>7, <2>1 DEF Left, LeftOf
  <2>3. LeftOf(out, located, WatchNext1, Older(probeAge, 1, 1)) = 1
    BY <1>7, <2>1, <2>2 DEF LeftOf
  <2> QED BY <2>2, <2>3
<1>8. CASE out = <<>>
  <2>1. "probe" \in inbox /\ probeAge \in 0..1
    BY <1>8, OwedLeft
  <2>2. lean = "alive" /\ ~pending
    BY <1>1, <1>8, NoCalls DEF Mail, Typings
  <2>3. probeAge = 0
    <3>1. Len(out) < MaxFrames
      BY <1>8, NoCalls, Delays
    <3> QED BY <2>1, <2>2, <3>1 DEF InTime
  <2>4. CASE watch = NoWatch
    <3>1. WatchNext1 = [NoWatch EXCEPT !.ticks = Never]
      BY <1>2, <1>4, <2>2, <2>4 DEF WatchNext1
    <3>2. WatchNext1 = NoWatch
      BY <3>1 DEF NoWatch
    <3>3. Left = 3 /\ LeftOf(out, located, WatchNext1, Older(probeAge, 1, 1)) = 2
      BY <1>2, <1>8, <2>3, <2>4, <3>2 DEF Left, LeftOf
    <3> QED BY <3>3
  <2>5. CASE watch # NoWatch
    <3>1. Left = 3 /\ LeftOf(out, located, WatchNext1, Older(probeAge, 1, 1)) = 2
      BY <1>2, <1>3, <1>8, <2>3, <2>5 DEF Left, LeftOf
    <3> QED BY <3>1
  <2> QED BY <2>4, <2>5
<1> QED BY <1>6, <1>7, <1>8

(* The ages a tick decides on.                                              *)
LEMMA TickAgesAre ==
  ASSUME WatchIInv, dead = "no", NEW n \in Nat
  PROVE  /\ TickAges(n) \in Ages
         /\ TickAges(n).stalled # Never => TickAges(n).probe # Never
         /\ TickAges(n).probe # Never => "probe" \in inbox \cup (IF Kicks THEN {} ELSE Contents(out))
         /\ TickServes = <<>> =>
              /\ TickAges(n).silent <= L.silent + n /\ TickAges(n).probe <= L.probe + n
              /\ TickAges(n).stalled <= L.stalled + n
              /\ TickAges(n).probe = Never <=> L.probe = Never
              /\ TickAges(n).stalled = Never <=> L.stalled = Never
              /\ ServedDead(TickServes) = "no"
         /\ TickServes # <<>> =>
              \/ TickAges(n).silent = 0 /\ TickAges(n).stalled = Never /\ ServedDead(TickServes) = "no"
              \/ ServedDead(TickServes) \in {"exit", "crash"}
         /\ ServedDead(TickServes) \in {"no", "exit", "crash"} /\ ServedPhase(TickServes) \in Phases
         /\ ServedDead(TickServes) = "no" <=> Contents(TickServes) \cap Ends = {}
<1> DEFINE a == Aged(L, n)
           s == Served(a, TickServes)
           l == TickAges(n)
<1>1. /\ L \in Ages /\ phase \in Phases /\ out \in Seq(LeanCalls) /\ "probe" \notin Ends
      /\ L.stalled # Never => L.probe # Never
      /\ L.probe # Never => "probe" \in inbox \cup Contents(out)
  BY TypeIs, Delays DEF WatchIInv, Typings, Mail
<1>2. /\ a \in Ages /\ (a.probe = Never <=> L.probe = Never) /\ (a.stalled = Never <=> L.stalled = Never)
      /\ a.silent <= L.silent + n /\ a.probe <= L.probe + n /\ a.stalled <= L.stalled + n
  BY <1>1, AgedIs
<1> HIDE DEF a
<1>3. /\ s \in Ages
      /\ Contents(TickServes) \subseteq Ends => s = a
      /\ ~(Contents(TickServes) \subseteq Ends) =>
           /\ s.silent = 0 /\ s.stalled = Never
           /\ "probe" \in Contents(TickServes) => s.probe = Never
      /\ s.probe \in {Never, a.probe}
      /\ "probe" \notin Contents(TickServes) => s.probe = a.probe
  BY <1>2, ServedIs
<1> HIDE DEF s
<1>4. l = Forget(s)
  BY DEF TickAges, s, a
<1> HIDE DEF l
<1>5. l \in Ages /\ l.silent = s.silent /\ l.probe = s.probe /\ l.stalled = s.stalled
  BY <1>3, <1>4, ForgetIs
<1>6. /\ ServedPhase(TickServes) \in Phases
      /\ Contents(TickServes) \cap Ends = {} => ServedDead(TickServes) = "no"
      /\ Contents(TickServes) \cap Ends # {} => ServedDead(TickServes) \in {"exit", "crash"}
  BY <1>1, ServedToldIs
<1>7. TickServes = <<>> => Contents(TickServes) = {}
  BY NoCalls
<1>8. TickServes # <<>> => Kicks /\ TickServes = out /\ Contents(TickServes) # {}
  <2>1. "busy" \in LeanCalls
    BY DEF LeanCalls
  <2> QED BY <1>1, <2>1, Calls1 DEF TickServes
<1>9. l.stalled # Never => l.probe # Never
  BY <1>1, <1>2, <1>3, <1>5
<1>10. l.probe # Never => "probe" \in inbox \cup (IF Kicks THEN {} ELSE Contents(out))
  <2>1. l.probe # Never => L.probe # Never
    BY <1>2, <1>3, <1>5
  <2>2. CASE ~Kicks
    BY <1>1, <2>1, <2>2
  <2>3. CASE Kicks
    <3>1. TickServes = out
      BY <2>3 DEF TickServes
    <3>2. l.probe # Never => "probe" \notin Contents(out)
      BY <1>1, <1>3, <1>5, <3>1
    <3> QED BY <1>1, <2>1, <2>3, <3>2
  <2> QED BY <2>2, <2>3
<1>11. TickServes = <<>> =>
         /\ l.silent <= L.silent + n /\ l.probe <= L.probe + n /\ l.stalled <= L.stalled + n
         /\ (l.probe = Never <=> L.probe = Never) /\ (l.stalled = Never <=> L.stalled = Never)
         /\ ServedDead(TickServes) = "no"
  BY <1>2, <1>3, <1>5, <1>6, <1>7
<1>12. TickServes # <<>> =>
         \/ l.silent = 0 /\ l.stalled = Never /\ ServedDead(TickServes) = "no"
         \/ ServedDead(TickServes) \in {"exit", "crash"}
  BY <1>3, <1>5, <1>6, <1>8
<1> QED BY <1>5, <1>6, <1>9, <1>10, <1>11, <1>12 DEF l

(* A tick decides nothing when it heard a process end, and nothing that is  *)
(* not due.                                                                 *)
LEMMA TickActionIs ==
  ASSUME WatchIInv, dead = "no", NEW n \in Nat
  PROVE  /\ TickAction(n) \in {"none", "probe", "stall", "dead"}
         /\ TickAction(n) # "none" => ServedDead(TickServes) = "no"
         /\ TickAction(n) = "probe" => TickAges(n).probe = Never /\ TickAges(n).stalled = Never
         /\ TickAction(n) = "stall" =>
              /\ TickAges(n).probe # Never /\ TickAges(n).stalled = Never
              /\ Lesser(TickAges(n).probe, TickAges(n).silent) >= WedgeAfter
         /\ TickAction(n) = "dead" => TickAges(n).stalled # Never /\ TickAges(n).stalled >= Grace
<1>1. TickAges(n) \in Ages
  BY TickAgesAre
<1> QED BY <1>1, TickIs DEF TickAction

(* The tick keeps the mailbox and the watched word.                         *)
LEMMA StepKeepsMail ==
  ASSUME WatchIInv, NEW n \in Nat, Step(n), slept' \in 0..MaxSuspensions
  PROVE  WatchTypeOK' /\ Mail' /\ Confirming' /\ (L.stalled # Never => L.probe # Never)'
<1> DEFINE l == TickAges(n)
           action == TickAction(n)
<1>1. Typings /\ Mail /\ Confirming
  BY TypeIs DEF WatchIInv
<1>2. Ticked(l, action) /\ dead = "no" /\ InTime /\ counted' = FALSE
  BY StepIs
<1>3. /\ l \in Ages
      /\ l.stalled # Never => l.probe # Never
      /\ l.probe # Never => "probe" \in inbox \cup (IF Kicks THEN {} ELSE Contents(out))
      /\ ServedDead(TickServes) \in {"no", "exit", "crash"} /\ ServedPhase(TickServes) \in Phases
      /\ ServedDead(TickServes) = "no" <=> Contents(TickServes) \cap Ends = {}
  BY <1>2, TickAgesAre
<1>4. /\ action \in {"none", "probe", "stall", "dead"}
      /\ action = "probe" => l.probe = Never /\ l.stalled = Never
      /\ action = "stall" => l.probe # Never /\ l.stalled = Never
      /\ action # "none" => ServedDead(TickServes) = "no"
  BY <1>2, TickActionIs
<1> HIDE DEF l, action
<1>5. /\ L' \in Ages
      /\ L'.stalled # Never => L'.probe # Never
      /\ L'.probe # Never => "probe" \in inbox' \cup (IF Kicks THEN {} ELSE Contents(out))
  <2>1. 0 \in Never..WedgeAfter /\ 0 \in Never..Grace
    BY Delays DEF Never
  <2>2. CASE action = "probe"
    <3>1. L' = [l EXCEPT !.probe = 0] /\ inbox' = inbox \cup {"probe"}
      BY <1>2, <2>2 DEF Ticked
    <3>2. L' \in Ages /\ L'.stalled = Never
      BY <1>3, <1>4, <2>1, <2>2, <3>1 DEF Ages
    <3> QED BY <3>1, <3>2
  <2>3. CASE action = "stall"
    <3>1. L' = [l EXCEPT !.stalled = 0] /\ inbox' = inbox
      BY <1>2, <2>3 DEF Ticked
    <3>2. L' \in Ages /\ L'.probe = l.probe
      BY <1>3, <2>1, <3>1 DEF Ages
    <3> QED BY <1>3, <1>4, <2>3, <3>1, <3>2
  <2>4. CASE action \notin {"probe", "stall"}
    <3>1. L' = l /\ inbox' = inbox
      BY <1>2, <2>4 DEF Ticked
    <3> QED BY <1>3, <3>1
  <2> QED BY <2>2, <2>3, <2>4
<1>6. watch' = WatchNext1 /\ WatchNext1 \in [checked : BOOLEAN, ticks : Never..1]
  <2>1. watch.ticks \in Never..1 /\ watch \in [checked : BOOLEAN, ticks : Never..1]
    BY <1>1 DEF Typings
  <2>2. Older(watch.ticks, 1, 1) \in Never..1
    BY <2>1, OlderIs
  <2>3. 0 \in Never..1
    BY DEF Never
  <2> QED BY <1>2, <2>1, <2>2, <2>3 DEF Ticked, WatchNext1
<1>7. /\ probeAge' \in Never..1
      /\ probeAge' = Never => probeAge = Never /\ action # "probe"
  <2>1. /\ Older(probeAge, 1, 1) \in Never..1
        /\ Older(probeAge, 1, 1) = Never <=> probeAge = Never
    BY <1>1, OlderIs DEF Typings
  <2>2. 0 \in Never..1 /\ 0 # Never
    BY DEF Never
  <2> QED BY <1>2, <2>1, <2>2 DEF Ticked
<1>8. /\ flight' = (IF flight = "new" THEN "old" ELSE flight) /\ phase' \in Phases
      /\ dead' \in {"no", "wedged", "exit", "crash"} /\ inbox' \subseteq Ids \cup {"probe"}
      /\ inbox' \subseteq inbox \cup {"probe"} /\ ("probe" \in inbox' => "probe" \in inbox \/ action = "probe")
      /\ retries' = retries /\ located' = located /\ lean' = lean
  BY <1>1, <1>2, <1>3 DEF Ticked, Typings
<1>9. /\ ~Kicks => out' = out /\ pending' = pending /\ lost' = lost
      /\ Kicks => out' = <<>> /\ pending' = FALSE /\ lost' = FALSE
  BY <1>2 DEF Ticked, Emptied
<1>10. Typings'
  <2>1. L' \in Ages /\ (L \in Ages)' <=> L' \in Ages
    BY <1>5 DEF Ages, Longest
  <2>2. pending' \in BOOLEAN /\ lost' \in BOOLEAN
    BY <1>1, <1>9 DEF Typings
  <2>3. located' \in BOOLEAN /\ flight' \in {"none", "new", "old"} /\ retries' \in 0..LateRetries
        /\ lean' \in {"alive", "frozen", "gone"}
    BY <1>1, <1>8 DEF Typings
  <2> QED BY <1>2, <1>5, <1>6, <1>7, <1>8, <2>1, <2>2, <2>3 DEF Typings, Phases
<1>11. /\ out' \in Seq(LeanCalls) /\ Len(out') <= MaxFrames /\ (out' # <<>> <=> pending')
       /\ Contents(out') = IF Kicks THEN {} ELSE Contents(out)
  <2>1. Len(out) <= MaxFrames /\ out \in Seq(LeanCalls) /\ (out # <<>> <=> pending)
    BY <1>1, TypeIs DEF WatchIInv, Mail
  <2>2. CASE Kicks
    BY <1>9, <2>2, NoCalls, Delays
  <2>3. CASE ~Kicks
    BY <1>9, <2>1, <2>3
  <2> QED BY <2>2, <2>3
<1>12. WatchTypeOK'
  BY <1>5, <1>10, <1>11, TypeIsNext
<1>13. Mail'
  <2>1. pending' /\ ~lost' => flight' # "none"
    <3>1. ASSUME pending', ~lost' PROVE ~Kicks
      BY <1>9, <3>1
    <3>2. ASSUME pending', ~lost', ~Kicks PROVE flight # "none"
      <4>1. pending' = pending /\ lost' = lost
        BY <1>9, <3>2
      <4>2. pending /\ ~lost
        BY <3>2, <4>1
      <4> QED BY <1>1, <4>2 DEF Mail
    <3> QED BY <1>8, <3>1, <3>2
  <2>2. dead' = "no" => (lean' = "gone" <=> Contents(out') \cap Ends # {})
    <3>1. lean' = "gone" <=> Contents(out) \cap Ends # {}
      BY <1>1, <1>2, <1>8 DEF Mail
    <3>2. dead' = "no" => ServedDead(TickServes) = "no"
      BY <1>2 DEF Ticked
    <3>3. CASE Kicks
      <4>1. TickServes = out
        BY <3>3 DEF TickServes
      <4> QED BY <1>3, <1>11, <3>1, <3>2, <3>3, <4>1
    <3>4. CASE ~Kicks
      BY <1>11, <3>1, <3>4
    <3> QED BY <3>3, <3>4
  <2>3. "probe" \in inbox' => probeAge' # Never
    BY <1>1, <1>7, <1>8 DEF Mail
  <2> QED BY <1>11, <2>1, <2>2, <2>3 DEF Mail
<1>14. Confirming'
  <2>1. flight # "old" /\ watch.ticks < 1
    BY <1>2 DEF InTime
  <2>2. CASE watch = NoWatch /\ located /\ pending
    <3>1. watch' = [checked |-> FALSE, ticks |-> 0] /\ ~Kicks
      BY <1>6, <2>2 DEF WatchNext1, Kicks
    <3>2. lost \/ flight = "new"
      BY <1>1, <2>1, <2>2 DEF Mail, Typings
    <3> QED BY <1>8, <1>9, <2>2, <3>1, <3>2 DEF Confirming
  <2>3. CASE watch = NoWatch /\ ~(located /\ pending)
    <3>1. Older(Never, 1, 1) = Never
      BY DEF Older
    <3>2. watch' = NoWatch
      BY <1>6, <2>3, <3>1 DEF WatchNext1, NoWatch
    <3> QED BY <3>2 DEF Confirming
  <2>4. CASE watch # NoWatch
    <3>1. located /\ watch.ticks = 0 /\ watch \in [checked : BOOLEAN, ticks : Never..1] /\ ~Kicks
      BY <1>1, <2>1, <2>4 DEF Confirming, Typings, Kicks
    <3>2. Older(0, 1, 1) = 1
      BY DEF Older, Lesser, Never
    <3>3. watch' = [watch EXCEPT !.ticks = 1]
      BY <1>6, <2>4, <3>1, <3>2 DEF WatchNext1
    <3>4. watch'.ticks = 1 /\ watch'.checked = watch.checked
      BY <3>1, <3>3
    <3>5. ~watch.checked => pending /\ lost
      BY <1>1, <2>1, <2>4 DEF Confirming
    <3> QED BY <1>8, <1>9, <3>1, <3>4, <3>5 DEF Confirming
  <2> QED BY <2>2, <2>3, <2>4
<1> QED BY <1>5, <1>12, <1>13, <1>14

(* The lags of a stall, one tick on.                                        *)
LEMMA LagIs ==
  ASSUME NEW j \in 1..3, j <= 2, NEW k \in 0..(j - 1), NEW n \in Nat, n <= Suspension, NEW age \in Int, age <= Lag(2 - j)
  PROVE  k <= 2 /\ age + n <= Lag(2 - k) /\ age + n <= 2 * Suspension
<1>1. j \in 1..2 /\ (j = 1 => k = 0) /\ (j = 2 => k \in 0..1)
  OBVIOUS
<1>2. Suspension \in Nat
  BY Delays
<1>3. CASE j = 1
  <2>1. age <= Suspension
    BY <1>3, LagGrows
  <2>2. k = 0 /\ Lag(2 - k) = 2 * Suspension
    BY <1>1, <1>3, LagGrows
  <2> QED BY <1>2, <2>1, <2>2
<1>4. CASE j = 2
  <2>1. age <= 0
    BY <1>4, LagGrows
  <2>2. Lag(2 - k) \in Int /\ Suspension <= Lag(2 - k)
    <3>1. Lag(1) = Suspension /\ Lag(2) = 2 * Suspension
      BY LagGrows
    <3>2. 2 - k = 1 \/ 2 - k = 2
      BY <1>1, <1>4
    <3> QED BY <1>2, <3>1, <3>2
  <2> QED BY <1>1, <1>2, <1>4, <2>1, <2>2
<1> QED BY <1>1, <1>3, <1>4

(* A tick of a clock that is on time is 1; of one that is late, the time    *)
(* the machine slept.                                                       *)
Clock(n) ==
  \/ n = 1 /\ slept' = slept
  \/ n = Suspension /\ slept < MaxSuspensions /\ slept' = slept + 1

(* The delays of a tick.                                                    *)
LEMMA ClockIs ==
  ASSUME WatchIInv, NEW n, Clock(n)
  PROVE  /\ n \in Nat /\ n <= Suspension /\ slept' \in 0..MaxSuspensions
         /\ slept' = 0 => slept = 0 /\ n = 1
         /\ MaxSuspensions <= 1 /\ slept # 0 => n = 1
<1>1. slept \in 0..MaxSuspensions
  BY TypeIs DEF WatchIInv, Typings
<1> QED BY <1>1, Delays DEF Clock

(* A tick that serves nothing, or only a part of what is heard in time,     *)
(* leaves the rest within its time.                                         *)
LEMMA StepHeard == ASSUME WatchIInv, NEW n, Clock(n), Step(n) PROVE Heard'
<1> DEFINE l == TickAges(n)
           action == TickAction(n)
<1>1. n \in Nat /\ n <= Suspension /\ slept' \in 0..MaxSuspensions
  BY ClockIs
<1>2. Ticked(l, action) /\ dead = "no" /\ InTime
  BY StepIs
<1>3. WatchTypeOK' /\ Mail' /\ Confirming' /\ Typings'
  BY <1>1, StepKeepsMail, TypeIsNext
<1>4. SUFFICES ASSUME dead' = "no", lean # "frozen", L'.probe # Never PROVE Heard'
  BY <1>2 DEF Heard, Ticked
<1>5. /\ l \in Ages
      /\ TickServes = <<>> =>
           /\ l.silent <= L.silent + n /\ l.probe <= L.probe + n /\ l.stalled <= L.stalled + n
           /\ (l.probe = Never <=> L.probe = Never) /\ (l.stalled = Never <=> L.stalled = Never)
      /\ TickServes # <<>> =>
           \/ l.silent = 0 /\ l.stalled = Never
           \/ ServedDead(TickServes) \in {"exit", "crash"}
  BY <1>1, <1>2, TickAgesAre
<1>6. /\ action \in {"none", "probe", "stall", "dead"}
      /\ action = "probe" => l.probe = Never /\ l.stalled = Never
      /\ action = "stall" => l.probe # Never /\ l.stalled = Never /\ Lesser(l.probe, l.silent) >= WedgeAfter
      /\ action = "dead" => l.stalled # Never
      /\ action # "none" => ServedDead(TickServes) = "no"
  BY <1>1, <1>2, TickActionIs
<1>7. L' \in Ages
  BY <1>3 DEF Typings, Ages, Longest
<1>8. Left' \in 0..3
  <2>1. out' = <<>> => probeAge' \in 0..1
    <3>1. out' = <<>> => "probe" \in inbox'
      BY <1>3, <1>4, TypeIsNext, NoCalls DEF Contents
    <3> QED BY <1>3, <3>1 DEF Mail, Typings, Never
  <2>2. located' \in BOOLEAN /\ (watch' = NoWatch \/ watch'.ticks \in 0..1) /\ probeAge' \in Never..1
        /\ watch' \in [checked : BOOLEAN, ticks : Never..1]
    BY <1>3 DEF Typings, Confirming
  <2> QED BY <2>1, <2>2, LeftIs DEF Left
<1>9. /\ action = "probe" => L' = [l EXCEPT !.probe = 0]
      /\ action = "stall" => L' = [l EXCEPT !.stalled = 0]
      /\ action \in {"none", "dead"} => L' = l
      /\ action # "dead"
  BY <1>2, <1>4, <1>6 DEF Ticked
<1> HIDE DEF l, action
<1>10. CASE action = "probe"
  <2>1. L'.probe = 0 /\ L'.stalled = Never
    BY <1>5, <1>6, <1>9, <1>10 DEF Ages
  <2> QED BY <1>7, <1>8, <2>1, HeardAnew
<1>11. CASE TickServes # <<>> /\ action # "probe"
  <2>1. ServedDead(TickServes) = "no"
    BY <1>2, <1>4, <1>9 DEF Ticked
  <2>2. l.silent = 0 /\ l.stalled = Never
    BY <1>5, <1>11, <2>1
  <2>3. action # "stall"
    <3>1. l.probe # Never => l.probe \in Nat
      BY <1>5, Delays DEF Ages, Never
    <3> QED BY <1>6, <2>2, <3>1, Delays DEF Lesser
  <2>4. L' = l
    BY <1>6, <1>9, <1>11, <2>3
  <2> QED BY <1>7, <1>8, <2>2, <2>4, HeardAnew
<1>12. CASE TickServes = <<>> /\ action # "probe"
  <2>1. L.probe # Never /\ L'.probe = l.probe /\ L'.silent = l.silent
        /\ L'.stalled = (IF action = "stall" THEN 0 ELSE l.stalled)
    <3>1. L'.probe = l.probe /\ L'.silent = l.silent /\ L'.stalled = (IF action = "stall" THEN 0 ELSE l.stalled)
      BY <1>5, <1>6, <1>9, <1>12 DEF Ages
    <3> QED BY <1>4, <1>5, <1>12, <3>1
  <2>2. Left \in 1..3 /\ Left' \in 0..(Left - 1)
    <3>1. out = <<>> \/ ~Kicks
      BY <1>12 DEF TickServes
    <3>2. out' = out
      BY <1>2, <3>1 DEF Ticked, Emptied
    <3>3. probeAge' = Older(probeAge, 1, 1) /\ watch' = WatchNext1 /\ located' = located
      BY <1>2, <1>12 DEF Ticked, l, action
    <3> QED BY <1>2, <1>4, <2>1, <3>1, <3>2, <3>3, LeftFalls DEF Left
  <2>3. L \in Ages
    BY TypeIs DEF WatchIInv, Typings
  <2>4. /\ L.silent \in Nat /\ L.probe \in Nat /\ L.stalled \in Int
        /\ l.silent \in Nat /\ l.probe \in Nat /\ l.stalled \in Int
    <3>1. l.probe # Never
      BY <1>4, <2>1
    <3> QED BY <1>5, <2>1, <2>3, <3>1, Delays DEF Ages, Never
  <2>5. /\ slept = 0 => Lesser(L.probe, L.silent) + Left <= 3
        /\ L.stalled # Never =>
           /\ Left <= 2 /\ L.stalled <= Lag(2 - Left)
           /\ WedgeAfter >= 3 /\ slept = 0 => Left = 0
           /\ WedgeAfter >= 3 /\ MaxSuspensions <= 1 => L.stalled + Left <= 2
    BY <1>2, <1>4, <2>1 DEF WatchIInv, Heard
  <2>6. Lesser(l.probe, l.silent) <= Lesser(L.probe, L.silent) + n
        /\ Lesser(l.probe, l.silent) \in Nat /\ Lesser(L.probe, L.silent) \in Nat
    <3>1. l.silent <= L.silent + n /\ l.probe <= L.probe + n
      BY <1>5, <1>12
    <3>2. \A p, q, b, c \in Nat : b <= p + n /\ c <= q + n =>
            Lesser(b, c) <= Lesser(p, q) + n /\ Lesser(b, c) \in Nat /\ Lesser(p, q) \in Nat
      BY <1>1 DEF Lesser
    <3> QED BY <2>4, <3>1, <3>2
  <2>7. slept' = 0 => slept = 0 /\ n = 1
    BY ClockIs
  <2>8. slept' = 0 => Lesser(L'.probe, L'.silent) + Left' <= 3
    BY <2>1, <2>2, <2>5, <2>6, <2>7
  <2>9. CASE action = "stall"
    <3>1. L'.stalled = 0
      BY <2>1, <2>9
    <3>2. Left' \in 0..2
      <4>1. \A j \in 1..3 : \A k \in 0..(j - 1) : k \in 0..2
        OBVIOUS
      <4> QED BY <2>2, <4>1
    <3>3. 2 - Left' \in 0..2 /\ Left' <= 2 /\ 0 + Left' <= 2
      <4>1. \A k \in 0..2 : 2 - k \in 0..2 /\ k <= 2 /\ 0 + k <= 2
        OBVIOUS
      <4> QED BY <3>2, <4>1
    <3>4. L'.stalled <= Lag(2 - Left')
      BY <3>1, <3>3, LagGrows
    <3>5. WedgeAfter >= 3 /\ slept' = 0 => Left' = 0
      BY <1>6, <2>2, <2>5, <2>6, <2>7, <2>9, Delays
    <3>6. L'.stalled + Left' <= 2
      BY <3>1, <3>3
    <3> QED BY <2>8, <3>3, <3>4, <3>5, <3>6 DEF Heard
  <2>10. CASE action = "none" /\ L'.stalled # Never
    <3>1. L'.stalled = l.stalled /\ L.stalled # Never
      BY <1>5, <1>12, <2>1, <2>10
    <3>2. Left <= 2 /\ L.stalled <= Lag(2 - Left) /\ L'.stalled <= L.stalled + n
      BY <1>5, <1>12, <2>5, <3>1
    <3>3. Left' <= 2 /\ L.stalled + n <= Lag(2 - Left')
      BY <1>1, <2>2, <2>4, <3>2, LagIs
    <3>4. L'.stalled <= Lag(2 - Left')
      <4>1. Lag(2 - Left') \in Int
        BY <2>2, <3>3, Delays DEF Lag
      <4> QED BY <1>1, <2>4, <3>1, <3>2, <3>3, <4>1
    <3>5. ~(WedgeAfter >= 3 /\ slept = 0)
      BY <2>2, <2>5, <3>1
    <3>6. WedgeAfter >= 3 /\ MaxSuspensions <= 1 => n = 1
      BY <3>5, ClockIs
    <3>7. WedgeAfter >= 3 /\ MaxSuspensions <= 1 => L'.stalled + Left' <= 2
      BY <2>2, <2>4, <2>5, <3>1, <3>2, <3>6
    <3> QED BY <2>7, <2>8, <3>3, <3>4, <3>5, <3>7 DEF Heard
  <2>11. CASE action = "none" /\ L'.stalled = Never
    BY <2>8, <2>11 DEF Heard
  <2> QED BY <1>6, <1>9, <1>12, <2>9, <2>10, <2>11
<1> QED BY <1>10, <1>11, <1>12

(* The verdict falls only on a Lean side that is frozen.                    *)
LEMMA VerdictFalls ==
  ASSUME WatchIInv, Patient, NEW n, Clock(n), Step(n), TickAction(n) = "dead"
  PROVE  lean = "frozen"
<1>1. n \in Nat /\ n <= Suspension
  BY ClockIs
<1>2. dead = "no" /\ InTime
  BY StepIs
<1>3. TickAges(n).stalled # Never /\ TickAges(n).stalled >= Grace /\ ServedDead(TickServes) = "no"
  BY <1>1, <1>2, TickActionIs
<1>4. TickServes = <<>> /\ TickAges(n).stalled <= L.stalled + n /\ L.stalled # Never /\ TickAges(n) \in Ages
  BY <1>1, <1>2, <1>3, TickAgesAre
<1>5. SUFFICES ASSUME lean # "frozen" PROVE FALSE
  OBVIOUS
<1>6. L.probe # Never /\ L \in Ages
  BY <1>4, TypeIs DEF WatchIInv, Typings
<1>7. out = <<>> \/ ~Kicks
  BY <1>4 DEF TickServes
<1>8. Left \in 1..3
  BY <1>2, <1>5, <1>6, <1>7, LeftFalls
<1>9. /\ Left <= 2 /\ L.stalled <= Lag(2 - Left)
      /\ WedgeAfter >= 3 /\ slept = 0 => Left = 0
      /\ WedgeAfter >= 3 /\ MaxSuspensions <= 1 => L.stalled + Left <= 2
  BY <1>2, <1>4, <1>5, <1>6 DEF WatchIInv, Heard
<1>10. L.stalled \in Int /\ TickAges(n).stalled \in Int /\ Grace \in Nat /\ Suspension \in Nat
  BY <1>4, <1>6, Delays DEF Ages, Never
<1>11. CASE Grace > 2 * Suspension
  <2>1. Left - 1 \in 0..(Left - 1)
    BY <1>8
  <2>2. L.stalled + n <= 2 * Suspension
    BY <1>1, <1>8, <1>9, <1>10, <2>1, LagIs
  <2> QED BY <1>1, <1>3, <1>4, <1>10, <1>11, <2>2
<1>12. CASE WedgeAfter >= 3 /\ Grace >= 3 /\ MaxSuspensions <= 1
  <2>1. slept # 0
    BY <1>8, <1>9, <1>12
  <2>2. n = 1
    BY <1>12, <2>1, ClockIs
  <2> QED BY <1>3, <1>4, <1>8, <1>9, <1>10, <1>12, <2>2
<1> QED BY <1>11, <1>12 DEF Patient

(* The tick of the watchdog.                                                *)
LEMMA StepWatched == ASSUME WatchIInv, NEW n, Clock(n), Step(n) PROVE WatchIInv'
<1>1. n \in Nat /\ slept' \in 0..MaxSuspensions
  BY ClockIs
<1>2. Ticked(TickAges(n), TickAction(n)) /\ dead = "no"
  BY StepIs
<1>3. WatchTypeOK' /\ Mail' /\ Confirming' /\ (L.stalled # Never => L.probe # Never)'
  BY <1>1, StepKeepsMail
<1>4. Heard'
  BY StepHeard
<1>5. Patient' <=> Patient
  BY DEF Patient
<1>6. Patient /\ dead' = "wedged" => lean' = "frozen"
  <2>1. ServedDead(TickServes) \in {"no", "exit", "crash"}
    BY <1>1, <1>2, TickAgesAre
  <2>2. dead' = "wedged" => TickAction(n) = "dead"
    BY <1>2, <2>1 DEF Ticked
  <2>3. lean' = lean
    BY <1>2 DEF Ticked
  <2> QED BY <2>2, <2>3, VerdictFalls
<1> QED BY <1>3, <1>4, <1>5, <1>6 DEF WatchIInv

(* Every step keeps the invariant.                                          *)
LEMMA WatchNextIInv == WatchIInv /\ [WatchNext]_watchVars => WatchIInv'
<1> SUFFICES ASSUME WatchIInv, [WatchNext]_watchVars PROVE WatchIInv'
  OBVIOUS
<1>1. ASSUME NEW i \in Ids, ClientRequest(i) PROVE WatchIInv'
  BY <1>1, ClientRequestWatched
<1>2. CASE Edit
  BY <1>2, EditWatched
<1>3. CASE (\E r \in Ids \cup {"probe"} : LeanAnswers(r)) \/ LeanReports \/ LeanEnds
  BY <1>3, LeanSendsWatched
<1>4. CASE LeanFreezes
  BY <1>4, LeanFreezesWatched
<1>5. CASE Deliver
  BY <1>5, DeliverWatched
<1>6. CASE Tick
  <2>1. Clock(1) /\ Step(1)
    BY <1>6 DEF Tick, Clock
  <2> QED BY <2>1, StepWatched
<1>7. CASE TickAfterSuspension
  <2>1. Clock(Suspension) /\ Step(Suspension)
    BY <1>7 DEF TickAfterSuspension, Clock
  <2> QED BY <2>1, StepWatched
<1>8. CASE ConfirmOnTime \/ ConfirmLate
  BY <1>8, ConfirmWatched
<1>9. CASE UNCHANGED watchVars
  BY <1>9, WatchStutters
<1> QED BY <1>1, <1>2, <1>3, <1>4, <1>5, <1>6, <1>7, <1>8, <1>9 DEF WatchNext

(* The watchdog and the mailbox keep their invariant: a Lean side that is   *)
(* not frozen and owes an answer is heard within the ticks that are left.   *)
THEOREM WatchInvariant == WatchSpec => []WatchIInv
<1> QED BY WatchInitIInv, WatchNextIInv, PTL DEF WatchSpec

(* A rescue is counted only for a wakeup that was lost, whatever the delays *)
(* are: one still in flight when the confirmation is due was watched, found *)
(* its word served, or was given its time.                                  *)
THEOREM RescuesAreReal == WatchSpec => [][counted' => lost]_watchVars
<1>1. ASSUME WatchIInv, [WatchNext]_watchVars PROVE [counted' => lost]_watchVars
  <2>1. SUFFICES ASSUME WatchNext, counted' PROVE lost
    BY <1>1
  <2>2. ConfirmOnTime
    <3>1. counted' # FALSE
      BY <2>1
    <3> QED BY <2>1, <3>1 DEF WatchNext, ClientRequest, Edit, LeanAnswers, LeanReports, LeanEnds, LeanFreezes, Deliver,
                              Tick, TickAfterSuspension, Step, ConfirmLate, NotCounted
  <2>3. watch # NoWatch /\ ~Healthy /\ (watch.checked \/ flight # "old")
    BY <2>1, <2>2 DEF ConfirmOnTime, Confirmed, NotCounted
  <2> QED BY <1>1, <2>3 DEF WatchIInv, Confirming, Healthy
<1> QED BY <1>1, WatchInvariant, PTL DEF WatchSpec

(* The watchdog's verdicts are true, when the grace is longer than two late *)
(* ticks, or when the probe and the grace are three ticks at least and the  *)
(* machine slept once at most: the process of a session declared wedged is  *)
(* frozen, and each counted rescue is of a lost wakeup.                     *)
THEOREM WatchdogVerdicts ==
  ASSUME Patient
  PROVE  WatchSpec => VerdictsAreTrue
<1>1. WatchIInv => (dead = "wedged" => lean = "frozen")
  BY Patient DEF WatchIInv
<1> QED BY <1>1, WatchInvariant, RescuesAreReal, PTL DEF VerdictsAreTrue

=============================================================================
