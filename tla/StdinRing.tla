----------------------------- MODULE StdinRing -----------------------------
(***************************************************************************)
(* The resident FileWorker's stdin: the ring in shared memory that         *)
(* public/workers/lean.worker.js fills (residentRingWrite, residentPump)   *)
(* and a Lean thread empties.  The two run in parallel on shared indices,  *)
(* so the pump is one action per access to them; the main thread may never *)
(* block, so a full ring parks the pump on a timer.                        *)
(*                                                                         *)
(* The reader is external (the kernel's futex ring); it is modelled from   *)
(* how the pump serves it: the control words, and the WAKE word added to   *)
(* and notified after every store of WRITE.                                *)
(*                                                                         *)
(* Byte k of frame f is <<f, k>>.  The ring holds Cap - 1 bytes.           *)
(***************************************************************************)
EXTENDS Integers, Sequences

CONSTANTS
  Frames,  \* the frames sent, each once
  Size,    \* Size[f]: its bytes
  Cap      \* RESIDENT_RING_CAP

ASSUME RingAssumption ==
  /\ Cap \in Nat /\ Cap > 1
  /\ Size \in [Frames -> Nat \ {0}]

VARIABLES
  queue,    \* residentQueue: frames and the bytes of each already written
  pc,       \* the pump: idle, parked, or at its next access of the ring
  room,     \* the bytes of this round
  busy,     \* ringBusy: the front door was told of a park
  died,     \* die() ran
  ack,      \* ack[f]: none, done or aborted
  read, write, wake, bytes,  \* shared memory
  reader,   \* the reader: load, check, wait or asleep
  seen,     \* the WAKE it loaded
  written,  \* the bytes put in the ring so far
  consumed  \* the bytes taken out so far

pumpVars   == <<queue, pc, room, busy, died, ack>>
readerVars == <<reader, seen, consumed>>
vars == <<pumpVars, read, write, wake, bytes, readerVars, written>>

Slots == 0..(Cap - 1)
Bytes == {<<f, k>> : f \in Frames, k \in Nat}
Item  == [f : Frames, off : Nat]

TypeOK ==
  /\ queue \in Seq(Item)
  /\ pc \in {"idle", "parked", "load", "copy", "store", "notify"}
  /\ room \in Nat /\ busy \in BOOLEAN /\ died \in BOOLEAN
  /\ ack \in [Frames -> {"none", "done", "aborted"}]
  /\ read \in Slots /\ write \in Slots /\ wake \in Nat
  /\ DOMAIN bytes = Slots
  /\ reader \in {"load", "check", "wait", "asleep"} /\ seen \in Nat
  /\ written \in Seq(Frames \X Nat) /\ consumed \in Seq(Frames \X Nat)

NoByte == <<>>

Init ==
  /\ queue = <<>> /\ pc = "idle" /\ room = 0 /\ busy = FALSE /\ died = FALSE
  /\ ack = [f \in Frames |-> "none"]
  /\ read = 0 /\ write = 0 /\ wake = 0 /\ bytes = [p \in Slots |-> NoByte]
  /\ reader = "load" /\ seen = 0
  /\ written = <<>> /\ consumed = <<>>

-----------------------------------------------------------------------------
(* The main thread. *)

Least(a, b) == IF a <= b THEN a ELSE b

FreeOffByOne == Cap - ((write - read + Cap) % Cap)   \* mutant: all Cap bytes are used

Free == (read - write - 1 + Cap) % Cap

Accepted(f) == ack[f] # "none" \/ \E k \in DOMAIN queue : queue[k].f = f

RingWriteFirst(f) ==                  \* mutant: a parked frame is overtaken
  /\ pc \in {"idle", "parked"} /\ ~died
  /\ ~Accepted(f) /\ 2 * Size[f] <= Cap
  /\ queue' = <<[f |-> f, off |-> 0]>> \o queue
  /\ pc' = IF pc = "idle" THEN "load" ELSE pc
  /\ UNCHANGED <<room, busy, died, ack, read, write, wake, bytes, readerVars, written>>

(* residentRingWrite(): a frame over half the ring is refused; a parked    *)
(* pump will come to this one.                                             *)
RingWrite(f) ==
  /\ pc \in {"idle", "parked"} /\ ~died
  /\ ~Accepted(f) /\ 2 * Size[f] <= Cap
  /\ queue' = Append(queue, [f |-> f, off |-> 0])
  /\ pc' = IF pc = "idle" THEN "load" ELSE pc
  /\ UNCHANGED <<room, busy, died, ack, read, write, wake, bytes, readerVars, written>>

PumpTimer ==
  /\ pc = "parked" /\ pc' = "load"
  /\ UNCHANGED <<queue, room, busy, died, ack, read, write, wake, bytes, readerVars, written>>

(* The turn of the loop that finds the queue empty: the pump is off, and   *)
(* the front door hears that the park is over.                             *)
PumpEnds ==
  /\ pc = "load" /\ queue = <<>>
  /\ pc' = "idle" /\ busy' = FALSE
  /\ UNCHANGED <<queue, room, died, ack, read, write, wake, bytes, readerVars, written>>

PumpParks ==
  /\ pc = "load" /\ queue # <<>> /\ Free = 0
  /\ pc' = "parked" /\ busy' = TRUE
  /\ UNCHANGED <<queue, room, died, ack, read, write, wake, bytes, readerVars, written>>

PumpLoads ==
  /\ pc = "load" /\ queue # <<>> /\ Free # 0
  /\ room' = Least(Free, Least(Cap - write, Size[Head(queue).f] - Head(queue).off))
  /\ pc' = "copy"
  /\ UNCHANGED <<queue, busy, died, ack, read, write, wake, bytes, readerVars, written>>

PumpCopies ==
  /\ pc = "copy" /\ pc' = "store"
  /\ bytes' = [p \in Slots |-> IF write <= p /\ p < write + room
                               THEN <<Head(queue).f, Head(queue).off + (p - write) + 1>>
                               ELSE bytes[p]]
  /\ UNCHANGED <<queue, room, busy, died, ack, read, write, wake, readerVars, written>>

PumpStores ==
  /\ pc = "store" /\ pc' = "notify"
  /\ write' = (write + room) % Cap
  /\ written' = written \o [k \in 1..room |-> <<Head(queue).f, Head(queue).off + k>>]
  /\ queue' = <<[Head(queue) EXCEPT !.off = @ + room]>> \o Tail(queue)
  /\ UNCHANGED <<room, busy, died, ack, read, wake, bytes, readerVars>>

PumpNotifiesQuietly ==               \* mutant: the reader is not notified
  /\ pc = "notify" /\ pc' = "load"
  /\ wake' = wake + 1
  /\ IF Head(queue).off = Size[Head(queue).f]
     THEN queue' = Tail(queue) /\ ack' = [ack EXCEPT ![Head(queue).f] = "done"]
     ELSE UNCHANGED <<queue, ack>>
  /\ UNCHANGED <<room, busy, died, read, write, bytes, readerVars, written>>

(* Atomics.add and notify on WAKE; the frame's last byte is acknowledged. *)
PumpNotifies ==
  /\ pc = "notify" /\ pc' = "load"
  /\ wake' = wake + 1
  /\ reader' = IF reader = "asleep" THEN "load" ELSE reader
  /\ IF Head(queue).off = Size[Head(queue).f]
     THEN queue' = Tail(queue) /\ ack' = [ack EXCEPT ![Head(queue).f] = "done"]
     ELSE UNCHANGED <<queue, ack>>
  /\ UNCHANGED <<room, busy, died, read, write, bytes, seen, consumed, written>>

DieKeepingQueue ==                   \* mutant: the queued frames are not aborted
  /\ pc \in {"idle", "parked"} /\ ~died
  /\ died' = TRUE /\ queue' = <<>>
  /\ UNCHANGED <<pc, room, busy, ack, read, write, wake, bytes, readerVars, written>>

(* die(): every queued frame is aborted; a parked pump will find none. *)
Die ==
  /\ pc \in {"idle", "parked"} /\ ~died
  /\ died' = TRUE
  /\ ack' = [f \in Frames |-> IF \E k \in DOMAIN queue : queue[k].f = f THEN "aborted" ELSE ack[f]]
  /\ queue' = <<>>
  /\ UNCHANGED <<pc, room, busy, read, write, wake, bytes, readerVars, written>>

-----------------------------------------------------------------------------
(* The reader's thread (external): load WAKE, take what is there, and wait *)
(* on the WAKE loaded when nothing was.                                    *)
ReaderLoads ==
  /\ reader = "load" /\ reader' = "check" /\ seen' = wake
  /\ UNCHANGED <<pumpVars, read, write, wake, bytes, consumed, written>>

ReaderTakes ==
  /\ reader = "check" /\ read # write
  /\ consumed' = Append(consumed, bytes[read])
  /\ read' = (read + 1) % Cap
  /\ reader' = "load"
  /\ UNCHANGED <<pumpVars, write, wake, bytes, seen, written>>

ReaderFindsNothing ==
  /\ reader = "check" /\ read = write /\ reader' = "wait"
  /\ UNCHANGED <<pumpVars, read, write, wake, bytes, seen, consumed, written>>

ReaderWaits ==
  /\ reader = "wait"
  /\ reader' = IF wake = seen THEN "asleep" ELSE "load"
  /\ UNCHANGED <<pumpVars, read, write, wake, bytes, seen, consumed, written>>

-----------------------------------------------------------------------------
Pump   == PumpTimer \/ PumpEnds \/ PumpParks \/ PumpLoads \/ PumpCopies \/ PumpStores \/ PumpNotifies
Reader == ReaderLoads \/ ReaderTakes \/ ReaderFindsNothing \/ ReaderWaits

Next == (\E f \in Frames : RingWrite(f)) \/ Pump \/ Die \/ Reader

Spec == Init /\ [][Next]_vars

(* The pump runs, its timer is always re-armed, and the reader reads on. *)
FairSpec == Spec /\ WF_vars(Pump) /\ WF_vars(Reader)

-----------------------------------------------------------------------------
(* The bytes between the indices, oldest first. *)
Used    == IF write >= read THEN write - read ELSE write - read + Cap
Slot(k) == IF read + k < Cap THEN read + k ELSE read + k - Cap

(* What was taken out and what is in the ring are, in order, what was put  *)
(* in: no byte is lost, doubled, overtaken or read before it is there,     *)
(* wherever the ring wraps and wherever a full ring cuts a frame in two.   *)
InOrder ==
  /\ Len(written) = Len(consumed) + Used
  /\ \A k \in 1..Len(consumed) : consumed[k] = written[k]
  /\ \A k \in 0..(Used - 1) : bytes[Slot(k)] = written[Len(consumed) + k + 1]

(* Frames enter whole: between two bytes of a frame there is no byte of    *)
(* another, whatever was sent while the pump was parked in its middle.     *)
FramesWhole ==
  \A k \in 1..Len(written) :
    IF written[k][2] = 1
    THEN k > 1 => written[k - 1][2] = Size[written[k - 1][1]]
    ELSE k > 1 /\ written[k - 1] = <<written[k][1], written[k][2] - 1>>

(* An accepted frame is queued, or acknowledged once its last byte is in   *)
(* the ring, or aborted by the death; the acknowledgement never hangs.     *)
AckedAtTheEnd ==
  \A f \in Frames :
    /\ ack[f] = "done" => \E k \in 1..Len(written) : written[k] = <<f, Size[f]>>
    /\ (\E k \in 1..Len(written) : written[k][1] = f) /\ ack[f] = "none" =>
         \E k \in DOMAIN queue : queue[k].f = f
    /\ died => \A k \in DOMAIN queue : ack[queue[k].f] = "none"

(* The ring is a channel of bytes. *)
Channel == INSTANCE ByteChannel WITH put <- written, taken <- consumed
ImplementsChannel == Channel!Spec

(* Everything accepted is delivered, unless the session dies: a parked     *)
(* pump and a sleeping reader never wait for each other.                   *)
Delivered == \A f \in Frames : Accepted(f) ~> ack[f] # "none" /\ (died \/ read = write)
=============================================================================
