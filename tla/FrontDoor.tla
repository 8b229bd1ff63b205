----------------------------- MODULE FrontDoor -----------------------------
(***************************************************************************)
(* The front door, public/workers/lsp-front-door.js: the pure reducer that *)
(* stands between the page's messages and the resident FileWorker.  It     *)
(* holds what arrives before the loop is open or while the stdin ring is   *)
(* parked, opens the loop on the first didOpen, makes a change of a later  *)
(* didOpen, and keeps the client's versions apart from the FileWorker's.   *)
(*                                                                         *)
(* A reducer state is a record; `writes`, `replies` and `start` are the    *)
(* effects of the step that made it.  A message is [m, v, n, id]: its      *)
(* kind, document version, text (its number in the order of the client's   *)
(* edits) and request id.  The collision note and the `dropped` counter    *)
(* are left out: neither is read by the machine.                           *)
(***************************************************************************)
EXTENDS Integers, Sequences, FiniteSets

CONSTANT NoId   \* the id of a notification

Message(m, v, n, id) == [m |-> m, v |-> v, n |-> n, id |-> id]

Initialize == Message("initialize", 0, 0, NoId)

NoProgress == [version |-> -1, at |-> "none"]

initialState ==
  [phase |-> "booting", queue |-> <<>>, backlog |-> <<>>, ringBusy |-> FALSE,
   doc |-> 0,             \* the client's version of the document, 0 when none
   base |-> 0,            \* worker version = client version + base
   lastVersion |-> -1,    \* the last worker version written
   progress |-> NoProgress, header |-> "none",
   writes |-> <<>>, replies |-> <<>>, start |-> FALSE]

(* A new step: no effects yet. *)
Fresh(s) == [s EXCEPT !.writes = <<>>, !.replies = <<>>, !.start = FALSE]

Reply(s, msg) == [s EXCEPT !.replies = Append(@, msg)]

-----------------------------------------------------------------------------
(* The frames of a list at the positions `at`, in their order.             *)
Picked(list, at) ==
  [k \in 1..Cardinality(at) |-> list[CHOOSE i \in at : Cardinality({j \in at : j <= i}) = k]]

(* A held change is superseded by a change, an open and a change by an open. *)
Superseded(msg) == CASE msg.m = "change" -> {"change"}
                     [] msg.m = "open"   -> {"change", "open"}
                     [] OTHER            -> {}

enqueue(list, msg) ==
  Append(Picked(list, {k \in DOMAIN list : list[k].m \notin Superseded(msg)}), msg)

shiftVersions(msg, delta) == IF msg.v = 0 THEN msg ELSE [msg EXCEPT !.v = @ + delta]

EmitUnshifted(s, msg) ==                     \* mutant: the client's version is written
  LET t == IF msg.m = "change" THEN [s EXCEPT !.doc = msg.v, !.lastVersion = msg.v + s.base] ELSE s
  IN  IF t.ringBusy THEN [t EXCEPT !.backlog = enqueue(@, msg)]
                    ELSE [t EXCEPT !.writes = Append(@, msg)]

emit(s, msg) ==
  LET t == IF msg.m = "change" THEN [s EXCEPT !.doc = msg.v, !.lastVersion = msg.v + s.base] ELSE s
      wire == shiftVersions(msg, t.base)
  IN  IF t.ringBusy THEN [t EXCEPT !.backlog = enqueue(@, wire)]
                    ELSE [t EXCEPT !.writes = Append(@, wire)]

(* didOpen on a live loop: a change whose version continues the worker's. *)
Reopen(s, msg) ==
  emit([s EXCEPT !.base = s.lastVersion + 1 - msg.v, !.doc = msg.v],
       Message("change", msg.v, msg.n, NoId))

(* A change the worker's text already includes. *)
Stale(s, msg) == msg.m = "change" /\ s.doc # 0 /\ msg.v <= s.doc

IsCompletion(msg) == msg.m \in {"completion", "importCompletion"}

(* The completions the FileWorker cannot answer: on an import line of the  *)
(* text it was given, or under a refused header.                           *)
FailsFast(s, msg) ==
  /\ IsCompletion(msg)
  /\ \/ msg.m = "importCompletion" /\ s.doc # 0
     \/ s.header = "refused"

(* The machine on a frame that is no didOpen, or that finds no closed loop. *)
AdmitHeld(s, msg) ==
  IF msg.m = "initialize" THEN Reply(s, msg)
  ELSE IF msg.m = "replayed" THEN s          \* the relay's: cached only
  ELSE IF FailsFast(s, msg) THEN Reply(s, msg)
  ELSE IF s.phase = "dead" THEN s
  ELSE IF s.phase # "open" THEN [s EXCEPT !.queue = enqueue(@, msg)]
  ELSE IF msg.m = "open" THEN Reopen(s, msg)
  ELSE IF Stale(s, msg) THEN s
  ELSE emit(s, msg)

(* The opening sequence, then the frames drain() re-queued behind it.      *)
Opened(s, msg) ==
  [s EXCEPT !.phase = "open", !.base = 0, !.doc = msg.v, !.lastVersion = msg.v,
            !.start = TRUE, !.writes = @ \o <<Initialize, msg>>, !.queue = <<>>]

OpenLoop(s, msg) ==
  LET after[k \in 0..Len(s.queue)] ==
        IF k = 0 THEN Opened(s, msg) ELSE AdmitHeld(after[k - 1], s.queue[k])
  IN  after[Len(s.queue)]

admit(s, msg) ==
  IF s.phase = "ready" /\ msg.m = "open" THEN OpenLoop(s, msg) ELSE AdmitHeld(s, msg)

(* Replay the held queue through the same rules, in order.                 *)
drain(s) ==
  LET after[k \in 0..Len(s.queue)] ==
        IF k = 0 THEN [s EXCEPT !.queue = <<>>] ELSE admit(after[k - 1], s.queue[k])
  IN  after[Len(s.queue)]

-----------------------------------------------------------------------------
ElaboratedInClientSpace(s) ==                \* mutant: an old drain aliases the new document's version
  s.progress.at \in {"drained", "fatal"} /\ s.progress.version = s.doc

Elaborated(s) == s.progress.at \in {"drained", "fatal"} /\ s.progress.version = s.lastVersion

phaseOf(s) ==
  IF s.phase \in {"dead", "booting"} THEN s.phase
  ELSE IF s.phase = "ready" \/ s.progress = NoProgress \/ s.doc = 0 THEN "starting"
  ELSE IF ~Elaborated(s) THEN "elaborating"
  ELSE IF s.header = "refused" \/ s.progress.at = "fatal" THEN "headerRefused"
  ELSE "ready"

-----------------------------------------------------------------------------
(* step(), one operator per kind of frame. *)
client(s, msg) == admit(Fresh(s), msg)

(* A frame of the FileWorker's, v its worker version, `at` what it says. *)
ServerUnshifted(s, msg) ==                   \* mutant: the worker's version is shown
  LET t == CASE msg.m = "progress" -> [s EXCEPT !.progress = [version |-> msg.v, at |-> msg.at]]
             [] msg.m = "header"   -> [s EXCEPT !.header = msg.at]
             [] OTHER              -> s
  IN  Reply(Fresh(t), msg)

server(s, msg) ==
  LET t == CASE msg.m = "progress" -> [s EXCEPT !.progress = [version |-> msg.v, at |-> msg.at]]
             [] msg.m = "header"   -> [s EXCEPT !.header = msg.at]
             [] OTHER              -> s
  IN  Reply(Fresh(t), shiftVersions(msg, -s.base))

BootedIdle(s) ==                             \* mutant: the queue waits for a frame to move it
  [Fresh(s) EXCEPT !.phase = "ready"]

booted(s) == IF s.phase = "booting" THEN drain([Fresh(s) EXCEPT !.phase = "ready"]) ELSE Fresh(s)

ringParked(s) == [Fresh(s) EXCEPT !.ringBusy = TRUE]

RingDrainedLate(s) ==                        \* mutant: the backlog is dropped with the park
  [Fresh(s) EXCEPT !.ringBusy = FALSE, !.backlog = <<>>]

ringDrained(s) == [Fresh(s) EXCEPT !.ringBusy = FALSE, !.writes = s.backlog, !.backlog = <<>>]

died(s) == [Fresh(s) EXCEPT !.phase = "dead", !.backlog = <<>>]
=============================================================================
