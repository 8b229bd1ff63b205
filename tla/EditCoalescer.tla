--------------------------- MODULE EditCoalescer ---------------------------
(***************************************************************************)
(* lib/edit-coalescer.ts: between the relay and the worker of a resident   *)
(* session.  Full-text changes are held inside a window or under a         *)
(* pressured thread pool, the newest winning; frames sent meanwhile wait   *)
(* behind the held change, and requests for one of MaxInFlight slots.      *)
(*                                                                         *)
(* The module runs on one thread and each of its callbacks is one action.  *)
(* `reject` may call back into it, but only after the state is final, so a *)
(* re-entrant send is a later action.  Time is the timers and the memory   *)
(* of the last pressured sample; the page's pace and the worker's replies  *)
(* and samples are free.                                                   *)
(***************************************************************************)
EXTENDS Integers, Sequences, FiniteSetsExt

CONSTANTS
  Docs,
  Ids,          \* frames other than changes, each sent once
  Requests,     \* those with an id: they take a slot
  Tokens,       \* SUPERSEDED_METHODS: the requests Monaco rebases
  KeepAlives,   \* $/lean/rpc/keepAlive
  None,         \* the id of a change
  Windows,      \* whether ms > 0: the values the hosts may give
  MaxInFlight,  \* maxInFlightRequests; 0: no cap
  MaxEdits      \* bound: texts

ASSUME CoalescerAssumption ==
  /\ Tokens \subseteq Requests /\ Requests \subseteq Ids
  /\ KeepAlives \subseteq Ids \ Requests
  /\ None \notin Ids /\ Windows \subseteq BOOLEAN
  /\ MaxInFlight \in Nat /\ MaxEdits \in Nat
  /\ IsFiniteSet(Ids)

VARIABLES
  held,      \* the held change, or NoChange
  queue,     \* frames behind it, or behind a request waiting for a slot
  pending,   \* requests forwarded and not settled
  timer,     \* the window is open
  cap,       \* a change is held for the pool
  recheck,   \* the memory's expiry is scheduled
  low,       \* the last sample shows too few free Workers
  recent,    \* a pressured sample lies within the memory
  windowed,  \* ms > 0: fixed by the options
  disposed,
  \* what the page and the worker have seen
  client,    \* client[d]: the newest text of d; texts are numbered in the order they are typed
  worker,    \* worker[d]: the text of d at the worker
  fate,      \* where frame i is
  order,     \* the frames in the order they were sent
  texts      \* texts[i]: its document's text as it was sent, and at the worker as it arrived

timers   == <<timer, cap, recheck>>
pressure == <<low, recent>>
life     == <<windowed, disposed>>
seen     == <<client, worker, fate, order, texts>>
vars == <<held, queue, pending, timers, pressure, life, seen>>

NoChange == [id |-> None, doc |-> None, text |-> 0]

edits == Max({client[d] : d \in Docs})

Frame(i, d) == [id |-> i, doc |-> d, text |-> client[d]]
NewChange(d) == [id |-> None, doc |-> d, text |-> edits + 1]
Frames == [id : Ids \cup {None}, doc : Docs, text : 0..MaxEdits]

TypeOK ==
  /\ held \in Frames \cup {NoChange} /\ queue \in Seq(Frames)
  /\ pending \subseteq Requests
  /\ {timer, cap, recheck, low, recent, windowed, disposed} \subseteq BOOLEAN
  /\ client \in [Docs -> 0..MaxEdits] /\ worker \in [Docs -> 0..MaxEdits]
  /\ fate \in [Ids -> {"unsent", "waiting", "forwarded", "answered", "superseded", "cancelled"}]
  /\ order \in Seq(Ids) /\ texts \in [Ids -> [sent : 0..MaxEdits, got : 0..MaxEdits]]

Init ==
  /\ held = NoChange /\ queue = <<>> /\ pending = {}
  /\ timer = FALSE /\ cap = FALSE /\ recheck = FALSE
  /\ low = FALSE /\ recent = FALSE /\ windowed \in Windows /\ disposed = FALSE
  /\ client = [d \in Docs |-> 0] /\ worker = client
  /\ fate = [i \in Ids |-> "unsent"] /\ order = <<>>
  /\ texts = [i \in Ids |-> [sent |-> 0, got |-> 0]]

pressured == low \/ recent

slotFree(n) == MaxInFlight = 0 \/ n < MaxInFlight

-----------------------------------------------------------------------------
(* The frames of `out`, in order, reach the worker; `gone` are answered    *)
(* here instead.                                                           *)
IdsOf(frames) == {frames[k].id : k \in DOMAIN frames} \ {None}

TextAt(d, out, k) ==
  Max({worker[d]} \cup {out[j].text : j \in {j \in 1..k : out[j].id = None /\ out[j].doc = d}})

Arrived(i, out) ==
  LET k == CHOOSE k \in DOMAIN out : out[k].id = i
  IN  [sent |-> out[k].text, got |-> TextAt(out[k].doc, out, k)]

Deliver(out, inFlight, gone, answer) ==
  /\ worker' = [d \in Docs |-> TextAt(d, out, Len(out))]
  /\ texts' = [i \in Ids |-> IF i \in IdsOf(out) THEN Arrived(i, out) ELSE texts[i]]
  /\ pending' = IF MaxInFlight = 0 THEN {} ELSE inFlight \cup (IdsOf(out) \cap Requests)
  /\ fate' = [i \in Ids |-> IF i \in IdsOf(out) THEN "forwarded"
                            ELSE IF i \in gone THEN answer ELSE fate[i]]

forward(out) == Deliver(out, pending, {}, "superseded")

(* drain(): the prefix the slots allow, then the keep-alives of the rest.  *)
(* `replied` left the slots in this step.                                  *)
Drainable(inFlight) ==
  LET InFlight(n) == Cardinality(inFlight) + Cardinality(IdsOf(SubSeq(queue, 1, n)) \cap Requests)
  IN  Max({n \in 0..Len(queue) :
             \A k \in 1..n : queue[k].id \in Requests => slotFree(InFlight(k - 1))})

(* The frames of the queue at the positions `at`, in their order.          *)
Picked(at) ==
  [k \in 1..Cardinality(at) |-> queue[CHOOSE i \in at : Cardinality({j \in at : j <= i}) = k]]

drainLast(first, replied) ==   \* mutant: the newest frames of the queue go first
  LET kept == Len(queue) - Drainable(pending \ replied)
  IN  /\ queue' = SubSeq(queue, 1, kept)
      /\ Deliver(first \o SubSeq(queue, kept + 1, Len(queue)), pending \ replied, replied, "answered")

drain(first, replied) ==
  LET goes == {k \in DOMAIN queue : k <= Drainable(pending \ replied) \/ queue[k].id \in KeepAlives}
  IN  /\ queue' = Picked(DOMAIN queue \ goes)
      /\ Deliver(first \o Picked(goes), pending \ replied, replied, "answered")

(* release(): the held change opens the next window, then the queue.       *)
release ==
  /\ drain(<<held>>, {})
  /\ held' = NoChange
  /\ timer' = TRUE /\ cap' = FALSE /\ recheck' = FALSE

(* flushAll() and the frame it makes way for: no slot is asked for.        *)
flushAll(last) ==
  /\ queue' = <<>>
  /\ forward((IF held = NoChange THEN <<>> ELSE <<held>>) \o queue \o last)

(* hold(): no window is open; the cap runs, and the memory's expiry when   *)
(* the memory alone holds.                                                 *)
hold == timer' = FALSE /\ cap' = TRUE /\ recheck' = ~low

(* supersede(): the queued requests Monaco would rebase are answered.      *)
(* Every queued frame is older than the change that passes it (seq says no *)
(* more).                                                                  *)
supersedeNothing(d, out) == UNCHANGED queue /\ forward(out)   \* mutant

supersede(d, out) ==
  LET stale == {k \in DOMAIN queue : queue[k].id \in Tokens /\ queue[k].doc = d}
  IN  /\ queue' = Picked(DOMAIN queue \ stale)
      /\ Deliver(out, pending, {queue[k].id : k \in stale}, "superseded")

-----------------------------------------------------------------------------
(* send(): a full-text change of d.                                        *)
Types(d) ==
  /\ ~disposed /\ edits < MaxEdits
  /\ client' = [client EXCEPT ![d] = edits + 1]
  /\ UNCHANGED <<order, pressure, life>>

ChangeAtOnce(d) ==
  /\ windowed /\ Types(d)
  /\ held = NoChange /\ ~timer /\ ~pressured
  /\ supersede(d, <<NewChange(d)>>)
  /\ timer' = TRUE
  /\ UNCHANGED <<held, cap, recheck>>

ChangeHeld(d) ==
  /\ windowed /\ Types(d)
  /\ held = NoChange /\ (timer \/ pressured)
  /\ held' = NewChange(d)
  /\ supersede(d, <<>>)
  /\ IF timer THEN UNCHANGED timers ELSE hold

(* The newest wins; the window or the hold's cap runs on.                  *)
ChangeReplaces(d) ==
  /\ windowed /\ Types(d)
  /\ held # NoChange /\ held.doc = d
  /\ held' = NewChange(d)
  /\ supersede(d, <<>>)
  /\ UNCHANGED timers

(* A held change of another document goes first, and opens the window the  *)
(* new one is held in.                                                     *)
MergeDocuments(d) ==   \* mutant: the other document's change is replaced
  /\ windowed /\ Types(d)
  /\ held # NoChange /\ held.doc # d
  /\ held' = NewChange(d) /\ supersede(d, <<>>)
  /\ UNCHANGED timers

ChangeOther(d) ==
  /\ windowed /\ Types(d)
  /\ held # NoChange /\ held.doc # d
  /\ held' = NewChange(d)
  /\ flushAll(<<>>)
  /\ timer' = TRUE /\ cap' = FALSE /\ recheck' = FALSE

(* With no window a change is one more frame: it waits its turn.           *)
ChangeUnwindowed(d) ==
  /\ ~windowed /\ Types(d)
  /\ IF queue = <<>> THEN forward(<<NewChange(d)>>) /\ UNCHANGED queue
     ELSE queue' = Append(queue, NewChange(d)) /\ UNCHANGED <<pending, worker, fate, texts>>
  /\ UNCHANGED <<held, timers>>

(* send(): didOpen, didClose, a ranged change or a replay.                 *)
Barrier(d) ==
  /\ Types(d)
  /\ flushAll(<<NewChange(d)>>)
  /\ held' = NoChange
  /\ timer' = (timer \/ held # NoChange) /\ cap' = FALSE /\ recheck' = FALSE

(* send(): any other frame.  It goes at once with nothing held, nothing    *)
(* queued before it and, for a request, a slot free; a keep-alive asks     *)
(* only for the first.                                                     *)
GoesAtOnceUncounted(i) ==   \* mutant: a request asks for no slot
  held = NoChange /\ (i \in KeepAlives \/ queue = <<>>)

GoesAtOnce(i) ==
  /\ held = NoChange
  /\ i \in KeepAlives \/ (queue = <<>> /\ (i \in Requests => slotFree(Cardinality(pending))))

Send(i, d) ==
  /\ ~disposed /\ fate[i] = "unsent"
  /\ order' = Append(order, i)
  /\ IF GoesAtOnce(i)
     THEN forward(<<Frame(i, d)>>) /\ UNCHANGED queue
     ELSE /\ queue' = Append(queue, Frame(i, d))
          /\ fate' = [fate EXCEPT ![i] = "waiting"]
          /\ UNCHANGED <<pending, worker, texts>>
  /\ UNCHANGED <<held, timers, pressure, life, client>>

(* send(): the $/cancelRequest of a queued request answers it here; one of *)
(* a request at the worker only passes through.                            *)
Cancel(i) ==
  /\ ~disposed /\ i \in Requests \cap IdsOf(queue)
  /\ queue' = Picked({k \in DOMAIN queue : queue[k].id # i})
  /\ fate' = [fate EXCEPT ![i] = "cancelled"]
  /\ UNCHANGED <<held, pending, timers, pressure, life, client, worker, order, texts>>

-----------------------------------------------------------------------------
(* Timers.                                                                 *)
tick ==
  /\ timer
  /\ IF held = NoChange
     THEN timer' = FALSE /\ UNCHANGED <<held, queue, pending, cap, recheck, seen>>
     ELSE /\ IF pressured THEN hold /\ UNCHANGED <<held, queue, pending, worker, fate, texts>> ELSE release
          /\ UNCHANGED <<client, order>>
  /\ UNCHANGED <<pressure, life>>

capped ==
  /\ cap
  /\ release
  /\ UNCHANGED <<pressure, life, client, order>>

(* Set for the instant the memory ends.                                    *)
Recheck ==
  /\ recheck /\ ~recent
  /\ IF low THEN recheck' = FALSE /\ UNCHANGED <<held, queue, pending, timer, cap, seen>>
     ELSE release /\ UNCHANGED <<client, order>>
  /\ UNCHANGED <<pressure, life>>

MemoryEnds ==
  /\ recent
  /\ recent' = FALSE
  /\ UNCHANGED <<held, queue, pending, timers, low, life, seen>>

(* observe(): a sample, too few Workers free or not (or not measured).     *)
observe(few) ==
  /\ low' = few /\ recent' = (recent \/ few)
  /\ IF cap /\ ~few /\ ~recent
     THEN release /\ UNCHANGED <<client, order>>
     ELSE recheck' = (recheck \/ (cap /\ few)) /\ UNCHANGED <<held, queue, pending, timer, cap, seen>>
  /\ UNCHANGED life

(* The worker answers i.  settle() frees its slot and admits the next;     *)
(* under a held change the queue stays.                                    *)
SettleOnly(i) ==   \* mutant: no drain
  /\ i \in Requests /\ fate[i] = "forwarded"
  /\ UNCHANGED queue /\ Deliver(<<>>, pending \ {i}, {i}, "answered")
  /\ UNCHANGED <<held, timers, pressure, life, client, order>>

settle(i) ==
  /\ i \in Requests /\ fate[i] = "forwarded"
  /\ IF i \in pending /\ held = NoChange THEN drain(<<>>, {i})
     ELSE UNCHANGED queue /\ Deliver(<<>>, pending \ {i}, {i}, "answered")
  /\ UNCHANGED <<held, timers, pressure, life, client, order>>

dispose ==
  /\ ~disposed /\ disposed' = TRUE
  /\ held' = NoChange /\ queue' = <<>>
  /\ timer' = FALSE /\ cap' = FALSE /\ recheck' = FALSE
  /\ UNCHANGED <<windowed, pending, pressure, seen>>

-----------------------------------------------------------------------------
Samples == \E few \in BOOLEAN : observe(few)

Next ==
  \/ \E d \in Docs : \/ ChangeAtOnce(d) \/ ChangeHeld(d) \/ ChangeReplaces(d)
                     \/ ChangeOther(d) \/ ChangeUnwindowed(d) \/ Barrier(d)
  \/ \E i \in Ids, d \in Docs : Send(i, d)
  \/ \E i \in Ids : Cancel(i) \/ settle(i)
  \/ tick \/ capped \/ Recheck \/ MemoryEnds \/ Samples \/ dispose

Spec == Init /\ [][Next]_vars

(* The page's next timer fires, or the worker's next reply comes, while     *)
(* there is one: weak fairness of Due, with its guard written out.         *)
Due == tick \/ capped \/ \E i \in Requests : settle(i)
IsDue == timer \/ cap \/ \E i \in Requests : fate[i] = "forwarded"
FairSpec == Spec /\ ([]<>~IsDue \/ []<><<Due>>_vars)

-----------------------------------------------------------------------------
(* Nothing is lost and nothing is merged: the worker has the newest text   *)
(* of every document, but for one held change that is its document's       *)
(* newest ("the newest replacing any held one (each carries the whole      *)
(* text, so nothing is lost)").                                            *)
NewestTextHeldOrThere ==
  ~disposed /\ windowed =>
    \A d \in Docs : IF held # NoChange /\ held.doc = d THEN held.text = client[d] ELSE worker[d] = client[d]

(* Frames reach the worker in the order they were sent, keep-alives apart: *)
(* none is at the worker while an earlier one waits.                       *)
SentOrderKept ==
  \A j \in DOMAIN order : fate[order[j]] \in {"forwarded", "answered"} =>
    \A k \in 1..j - 1 : fate[order[k]] = "waiting" => order[j] \in KeepAlives

(* "Nothing is reordered relative to the text": a frame is never served    *)
(* against a text older than the one it was sent after (a keep-alive names no *)
(* text), and one whose reply Monaco rebases against exactly that text.    *)
ServedAtItsText ==
  \A i \in Ids : fate[i] \in {"forwarded", "answered"} =>
    /\ i \notin KeepAlives => texts[i].got >= texts[i].sent
    /\ i \in Tokens => texts[i].got = texts[i].sent

(* The slots are used, and kept: with nothing held, a frame waits only      *)
(* while every slot is taken, so that a reply will come and admit it, and   *)
(* no keep-alive waits; and only a barrier, or a held change it crosses,    *)
(* takes the requests at the worker past the cap.  (A cancelled or          *)
(* superseded request at the head leaves a frame behind it that needs no    *)
(* slot waiting until that reply.)                                          *)
WaitsForASlot ==
  held = NoChange /\ queue # <<>> =>
    ~slotFree(Cardinality(pending)) /\ IdsOf(queue) \cap KeepAlives = {}

SlotsKept ==
  [][/\ WaitsForASlot'
     /\ \/ pending' \subseteq pending \/ slotFree(Cardinality(pending') - 1)
        \/ \E d \in Docs : Barrier(d) \/ ChangeOther(d)]_vars

(* Once the page stops sending, every change and every frame held or       *)
(* queued has reached the worker or its answer, under any pressure: the    *)
(* window ends, a hold ends at its cap, and each reply makes room.         *)
NothingIsHeldForever ==
  []<>(disposed \/ (worker = client /\ \A i \in Ids : fate[i] # "waiting"))
=============================================================================
