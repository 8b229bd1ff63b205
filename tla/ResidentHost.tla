--------------------------- MODULE ResidentHost ---------------------------
(***************************************************************************)
(* The resident session's host in public/workers/lean.worker.js: it runs   *)
(* the front door on every message of the page and every frame of the      *)
(* FileWorker, performs the effects, and feeds the stdin ring.             *)
(*                                                                         *)
(* A frame is whole here (the ring's bytes are StdinRing's subject): the   *)
(* ring holds RingCap frames, what it cannot take waits in the host's FIFO *)
(* (residentQueue), whose head is the parked one.  The worker's main       *)
(* thread serves one message at a time; the FileWorker's threads run       *)
(* beside it, reading the ring and writing one frame at a time (a proxied  *)
(* write blocks until the main thread has taken it).                       *)
(*                                                                         *)
(* The page is the client and the relay in front of it; the FileWorker is  *)
(* external, as lsp-front-door.js and the worker describe it: it reads     *)
(* initialize and then didOpen directly, answers requests, reports a       *)
(* header's verdict before its progress drains.                            *)
(***************************************************************************)
EXTENDS FrontDoor

(* In an action, \E over one value computes that value once. *)

CONSTANTS
  Ids,          \* requests, each sent once
  MaxEdits,     \* bound: texts
  RingCap,      \* frames the ring holds
  TooLarge,     \* texts whose frame exceeds half the ring
  OpensFit,     \* whether the text the loop opens on is never one of them
  RefusedTexts  \* texts whose header the kernel refuses

ASSUME HostAssumption ==
  /\ MaxEdits \in Nat /\ RingCap \in Nat \ {0}
  /\ TooLarge \subseteq 1..MaxEdits /\ RefusedTexts \subseteq 1..MaxEdits
  /\ OpensFit \in BOOLEAN /\ NoId \notin Ids

VARIABLES
  fd,        \* the front door's state
  fifo,      \* frames not yet whole in the ring; not empty: the pump is parked
  ring,      \* frames in the ring
  armed,     \* lsp-arm was served
  dead,      \* the one death was reported
  fw,        \* the FileWorker: where it is, its version and text, requests held
  stdout,    \* the frame it is writing
  clientDoc, \* the client's document: version and text
  sent,      \* requests sent
  answered,  \* answered[i]: replies to request i
  shown      \* the last diagnostics the client got: version and text

hostVars   == <<fifo, ring, armed, dead>>
clientVars == <<clientDoc, sent>>
vars == <<fd, hostVars, fw, stdout, clientVars, answered, shown>>

NoDoc   == [v |-> 0, n |-> 0]
Silent  == [m |-> "none", v |-> 0, n |-> 0, id |-> NoId, at |-> "none"]
Out(m, at) == [m |-> m, v |-> fw.v, n |-> fw.n, id |-> NoId, at |-> at]

Frames  == [m : {"initialize", "open", "change", "request", "completion", "importCompletion"},
            v : Int, n : 0..MaxEdits, id : Ids \cup {NoId}]

TypeOK ==
  /\ fd.phase \in {"booting", "ready", "open", "dead"}
  /\ \A q \in {fd.queue, fd.backlog, fifo, ring} : q \in Seq(Frames)
  /\ fd.writes = <<>> /\ fd.replies = <<>> /\ fd.ringBusy \in BOOLEAN
  /\ Len(ring) <= RingCap
  /\ fw.at \in {"start", "initialized", "open", "broken"} /\ fw.held \subseteq Ids
  /\ fw.n \in 0..MaxEdits
  /\ sent \subseteq Ids /\ answered \in [Ids -> Nat]

(* A session's client may have opened its document on an earlier one. *)
Init ==
  /\ fd = initialState
  /\ fifo = <<>> /\ ring = <<>> /\ armed = FALSE /\ dead = FALSE
  /\ fw = [at |-> "start", v |-> 0, n |-> 0, headed |-> FALSE, held |-> {}]
  /\ stdout = Silent
  /\ clientDoc \in {NoDoc, [v |-> 1, n |-> 1]}
  /\ sent = {} /\ answered = [i \in Ids |-> 0] /\ shown = NoDoc

-----------------------------------------------------------------------------
(* residentRingWrite() of each frame: refused when over half the ring,     *)
(* queued behind a parked pump, else written as far as the ring has room;  *)
(* a pump that parks tells the front door.                                 *)
Fits(msg) == msg.n \notin TooLarge

Opens(s) == s.start /\ OpensFit => Fits(s.writes[2])

ToRing(queue, inRing) ==
  LET n == IF Len(queue) <= RingCap - Len(inRing) THEN Len(queue) ELSE RingCap - Len(inRing)
  IN  [fifo |-> SubSeq(queue, n + 1, Len(queue)), ring |-> inRing \o SubSeq(queue, 1, n)]

Write(s, queue, inRing) ==
  \E frames \in {Picked(s.writes, {k \in DOMAIN s.writes : Fits(s.writes[k])})} :
  \E moved \in {ToRing(frames, inRing)} :
    IF queue # <<>>
    THEN fifo' = queue \o frames /\ ring' = inRing /\ fd' = Fresh(s)
    ELSE /\ fifo' = moved.fifo /\ ring' = moved.ring
         /\ fd' = IF moved.fifo # <<>> THEN ringParked(s) ELSE Fresh(s)

Answers(replies) ==
  answered' = [i \in Ids |-> answered[i] + Cardinality({k \in DOMAIN replies : replies[k].id = i})]

(* die(): the FIFO is emptied and the front door told. *)
Die ==
  /\ ~dead
  /\ dead' = TRUE /\ fd' = died(fd) /\ fifo' = <<>>
  /\ UNCHANGED <<ring, armed>>

(* frontDoorApply(): the loop that does not start is a death. *)
Apply(s) ==
  \/ /\ Opens(s)
     /\ Answers(s.replies)
     /\ Write(s, fifo, ring)
     /\ UNCHANGED <<armed, dead>>
  \/ s.start /\ Die /\ UNCHANGED answered

-----------------------------------------------------------------------------
(* Messages of the page. *)
ClientSends(msg) ==
  /\ \E s \in {client(fd, msg)} : Apply(s)
  /\ UNCHANGED <<fw, stdout, shown>>

ClientOpens ==
  /\ clientDoc.n < MaxEdits
  /\ clientDoc' = [v |-> 1, n |-> clientDoc.n + 1]
  /\ ClientSends(Message("open", 1, clientDoc.n + 1, NoId))
  /\ UNCHANGED sent

ClientChanges ==
  /\ clientDoc.v > 0 /\ clientDoc.n < MaxEdits
  /\ clientDoc' = [v |-> clientDoc.v + 1, n |-> clientDoc.n + 1]
  /\ ClientSends(Message("change", clientDoc.v + 1, clientDoc.n + 1, NoId))
  /\ UNCHANGED sent

ClientRequests(i, m) ==
  /\ i \notin sent
  /\ sent' = sent \cup {i}
  /\ ClientSends(Message(m, 0, 0, i))
  /\ UNCHANGED clientDoc

(* The relay's replay and arm, in one turn of its boot: initialize, the    *)
(* document if there is one, and Booting -> Ready.                         *)
Replayed(s) ==
  IF clientDoc.v = 0 THEN s ELSE client(s, Message("open", clientDoc.v, clientDoc.n, NoId))

Arm ==
  /\ ~armed /\ ~dead
  /\ \E s \in {booted(Replayed(client(fd, Message("replayed", 0, 0, NoId))))} :
       \/ /\ Opens(s)
          /\ Answers(s.replies)
          /\ Write(s, fifo, ring)
          /\ UNCHANGED dead
       \/ /\ s.start
          /\ dead' = TRUE /\ fd' = died(s) /\ fifo' = <<>>
          /\ UNCHANGED <<ring, answered>>
  /\ armed' = TRUE
  /\ UNCHANGED <<fw, stdout, clientVars, shown>>

-----------------------------------------------------------------------------
(* The parked pump's timer: what fits goes into the ring; when all did,    *)
(* the front door's backlog follows, and may park the pump again.          *)
PumpTimer ==
  /\ fifo # <<>> /\ Len(ring) < RingCap
  /\ \E moved \in {ToRing(fifo, ring)} :
       IF moved.fifo # <<>>
       THEN fifo' = moved.fifo /\ ring' = moved.ring /\ UNCHANGED fd
       ELSE Write(ringDrained(fd), <<>>, moved.ring)
  /\ UNCHANGED <<armed, dead, fw, stdout, clientVars, answered, shown>>

(* The stdout tap: a frame of the FileWorker's through the machine. *)
HostReads ==
  /\ stdout # Silent /\ ~dead
  /\ \E s \in {server(fd, stdout)} :
       /\ Answers(s.replies)
       /\ Write(s, fifo, ring)
       /\ shown' = IF stdout.m = "diagnostics"
                   THEN [v |-> s.replies[1].v, n |-> stdout.n] ELSE shown
  /\ stdout' = Silent
  /\ UNCHANGED <<armed, dead, fw, clientVars>>

WorkerDies ==
  /\ armed /\ Die
  /\ UNCHANGED <<fw, stdout, clientVars, answered, shown>>

-----------------------------------------------------------------------------
(* The FileWorker (external). *)
FwReads ==
  /\ ring # <<>> /\ ~dead
  /\ ring' = Tail(ring)
  /\ LET msg == Head(ring) IN
       fw' = CASE fw.at = "start" /\ msg.m = "initialize" -> [fw EXCEPT !.at = "initialized"]
               [] fw.at = "initialized" /\ msg.m = "open" ->
                    [fw EXCEPT !.at = "open", !.v = msg.v, !.n = msg.n]
               [] fw.at = "open" /\ msg.m = "change" /\ msg.v > fw.v ->
                    [fw EXCEPT !.v = msg.v, !.n = msg.n,
                               !.headed = @ /\ (fw.n \in RefusedTexts <=> msg.n \in RefusedTexts)]
               [] fw.at = "open" /\ msg.id # NoId -> [fw EXCEPT !.held = @ \cup {msg.id}]
               [] OTHER -> [fw EXCEPT !.at = "broken"]
  /\ UNCHANGED <<fd, fifo, armed, dead, stdout, clientVars, answered, shown>>

FwWrites(msg) ==
  /\ fw.at = "open" /\ stdout = Silent /\ ~dead
  /\ stdout' = msg
  /\ UNCHANGED <<fd, hostVars, clientVars, answered, shown>>

FwHeader ==
  /\ FwWrites(Out("header", IF fw.n \in RefusedTexts THEN "refused" ELSE "covered"))
  /\ ~fw.headed /\ fw' = [fw EXCEPT !.headed = TRUE]

FwProgress ==
  /\ FwWrites(Out("progress", "working"))
  /\ UNCHANGED fw

FwDrains ==
  /\ fw.headed
  /\ FwWrites(Out("progress", IF fw.n \in RefusedTexts THEN "fatal" ELSE "drained"))
  /\ UNCHANGED fw

FwPublishes ==
  /\ FwWrites(Out("diagnostics", "none"))
  /\ UNCHANGED fw

FwAnswers ==
  /\ \E i \in fw.held :
       /\ FwWrites([m |-> "answer", v |-> 0, n |-> 0, id |-> i, at |-> "none"])
       /\ fw' = [fw EXCEPT !.held = @ \ {i}]

-----------------------------------------------------------------------------
FileWorker == FwReads \/ FwHeader \/ FwProgress \/ FwDrains \/ FwPublishes \/ FwAnswers

Next ==
  \/ ClientOpens
  \/ ClientChanges
  \/ \E i \in Ids, m \in {"initialize", "request", "completion", "importCompletion"} :
       ClientRequests(i, m)
  \/ Arm
  \/ PumpTimer
  \/ HostReads
  \/ WorkerDies
  \/ FileWorker

Spec == Init /\ [][Next]_vars

(* The pump's timer is re-armed while it is parked, the main thread serves *)
(* the frames written to it, the page arms a booted session; the           *)
(* FileWorker keeps reading and brings every text to its end.              *)
FairSpec ==
  /\ Spec
  /\ WF_vars(Arm) /\ WF_vars(PumpTimer) /\ WF_vars(HostReads)
  /\ WF_vars(FwReads) /\ SF_vars(FwHeader) /\ SF_vars(FwDrains)

-----------------------------------------------------------------------------
(* The FileWorker reads initialize, then didOpen, and after them only      *)
(* requests and changes whose versions rise: whatever arrived while the    *)
(* session booted, whatever a parked ring held back, however often the     *)
(* client re-opened at version 1.                                          *)
WorkerKeepsUp == fw.at # "broken"

(* The status is `ready` only when the FileWorker has checked the newest   *)
(* text of the client and accepted its header, and no text is held back:   *)
(* no drain of an earlier document or version can be taken for it.         *)
ReadyIsNewest ==
  phaseOf(fd) = "ready" =>
    /\ fw.n = clientDoc.n
    /\ fw.n \notin RefusedTexts
    /\ \A q \in {fd.queue, fd.backlog, fifo, ring} : \A k \in DOMAIN q : q[k].m \notin {"open", "change"}

(* Diagnostics reach the client under its own version of their text, or    *)
(* under a version older than its document's, which it drops: none of an   *)
(* earlier document or text is shown for the current one.                  *)
ShownForTheirText ==
  [][shown' # shown =>
       /\ shown'.v <= clientDoc.v
       /\ shown'.v = clientDoc.v => shown'.n = clientDoc.n]_vars

(* Until the session dies, a request is in exactly one place: held by the  *)
(* front door, on its way, at the FileWorker, or answered once.  Neither   *)
(* superseding, nor re-queueing, nor the flush of the backlog loses or     *)
(* doubles one.                                                            *)
At(i, q) == Cardinality({k \in DOMAIN q : q[k].id = i})
RequestsKept ==
  ~dead => \A i \in sent :
    At(i, fd.queue) + At(i, fd.backlog) + At(i, fifo) + At(i, ring)
      + (IF i \in fw.held THEN 1 ELSE 0) + (IF stdout.id = i THEN 1 ELSE 0) + answered[i] = 1

(* An armed session that has a document settles: its status becomes ready  *)
(* or headerRefused, or it dies; unless its newest text is one the ring    *)
(* refuses, which only the next text heals.                                *)
Settles ==
  armed /\ clientDoc.v > 0 ~>
    phaseOf(fd) \in {"ready", "headerRefused", "dead"} \/ clientDoc.n \in TooLarge
=============================================================================
