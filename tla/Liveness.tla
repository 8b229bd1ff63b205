------------------------------ MODULE Liveness ------------------------------
(***************************************************************************)
(* The Lean-side watchdog of public/workers/lean.worker.js: the periodic   *)
(* kick of the runtime thread's mailbox, the rescue of lost wakeups, the   *)
(* probe of a silent FileWorker, and the verdict "wedged".                 *)
(*                                                                         *)
(* A Lean thread's output is a proxied call in the mailbox of the worker's *)
(* JS thread.  A send into a mailbox whose word is not PENDING posts a     *)
(* message that makes the thread serve it; that message may be lost, and   *)
(* no later send posts one until the mailbox has been served.              *)
(*                                                                         *)
(* Time is ticks of the watchdog.  A tick may come late by Suspension (the *)
(* machine slept), at most MaxSuspensions times.  What the environment     *)
(* does in time: a message that is not lost is delivered, and a FileWorker *)
(* that is alive answers a probe, before the second tick after; a          *)
(* confirmation timer fires before the second tick after it was set.       *)
(***************************************************************************)
EXTENDS Integers, Sequences

CONSTANTS
  Ids,             \* client requests, each sent once
  ProbeAfter, WedgeAfter, Grace, RequestTtl,   \* in ticks
  LateRetries,     \* late confirmations in a row before an uncounted kick
  Suspension,      \* how late the tick after a suspension comes
  MaxSuspensions,  \* bound
  MaxFrames        \* bound: Lean threads waiting for a proxied call at a time

ASSUME LivenessAssumption ==
  /\ {ProbeAfter, WedgeAfter, Grace, RequestTtl, Suspension, MaxFrames} \subseteq Nat \ {0}
  /\ {LateRetries, MaxSuspensions} \subseteq Nat
  /\ {"probe", "busy", "done", "note", "exit", "throw"} \cap Ids = {}

VARIABLES
  L,        \* the bookkeeping: ages in ticks
  watch,    \* the scheduled confirmation, or NoWatch
  retries,  \* late confirmations in a row
  counted,  \* the last step counted a rescue
  dead,     \* "no", or the reason of die()
  \* the front door's status
  phase,
  \* the mailbox
  located,  \* its notification word can be read
  pending,  \* the word is PENDING
  flight,   \* a message on its way: "none", "new", or "old" (a tick has passed)
  lost,     \* the message of the PENDING edge was lost
  out,      \* the proxied calls queued in it
  \* the Lean side
  lean,     \* "alive", "frozen", or "gone" (its last call is in the mailbox)
  inbox,    \* requests it has not answered
  probeAge, \* ticks since the probe came into inbox
  slept     \* suspensions so far

host == <<L, watch, retries, dead>>
mailbox == <<pending, flight, lost, out>>
leanSide == <<lean, inbox, probeAge>>
watchVars == <<host, counted, phase, mailbox, located, leanSide, slept>>

-----------------------------------------------------------------------------
(* The pure bookkeeping.  An age of Never means: not there.                *)
Never == -1
NoWatch == [checked |-> FALSE, ticks |-> Never]
Longest == IF ProbeAfter > WedgeAfter THEN ProbeAfter ELSE WedgeAfter
Lesser(a, b) == IF a < b THEN a ELSE b

createLiveness == [silent |-> 0, sent |-> [i \in Ids |-> Never], probe |-> Never, stalled |-> Never]

(* An age grows no further than anything compares it with.                 *)
Older(age, n, cap) == IF age = Never THEN Never ELSE Lesser(age + n, cap)
Aged(l, n) ==
  [silent |-> Older(l.silent, n, Longest), sent |-> [i \in Ids |-> Older(l.sent[i], n, RequestTtl + 1)],
   probe |-> Older(l.probe, n, WedgeAfter), stalled |-> Older(l.stalled, n, Grace)]

livenessClientRequest(l, i) == [l EXCEPT !.sent[i] = 0]

(* Frames, whichever, prove the Lean side alive; an answer is one less to  *)
(* wait for.                                                               *)
livenessServerFrame(l, frames) ==
  IF frames = {} THEN l
  ELSE [silent  |-> 0,
        sent    |-> [i \in Ids |-> IF i \in frames THEN Never ELSE l.sent[i]],
        probe   |-> IF "probe" \in frames THEN Never ELSE l.probe,
        stalled |-> Never]

Forget(l) == [l EXCEPT !.sent = [i \in Ids |-> IF @[i] > RequestTtl THEN Never ELSE @[i]]]

(* The loop opens with a document, so "starting" owes its first drain.     *)
Owed(l, p) ==
  \/ p = "elaborating" \/ p = "starting"
  \/ \E i \in Ids : l.sent[i] # Never
  \/ l.probe # Never

TickRestalls(l, p) ==                  \* mutant: every tick begins the stall anew
  CASE ~Owed(l, p) -> "none"
    [] Owed(l, p) /\ l.probe = Never -> IF l.silent >= ProbeAfter THEN "probe" ELSE "none"
    [] OTHER -> IF Lesser(l.probe, l.silent) >= WedgeAfter THEN "stall" ELSE "none"

TickNoGrace(l, p) ==                   \* mutant: a stall is already the verdict
  CASE ~Owed(l, p) -> "none"
    [] Owed(l, p) /\ l.probe = Never -> IF l.silent >= ProbeAfter THEN "probe" ELSE "none"
    [] OTHER -> IF Lesser(l.probe, l.silent) >= WedgeAfter THEN "dead" ELSE "none"

livenessTick(l, p) ==
  CASE ~Owed(l, p) -> "none"
    [] Owed(l, p) /\ l.stalled # Never -> IF l.stalled >= Grace THEN "dead" ELSE "none"
    [] Owed(l, p) /\ l.stalled = Never /\ l.probe = Never -> IF l.silent >= ProbeAfter THEN "probe" ELSE "none"
    [] OTHER -> IF Lesser(l.probe, l.silent) >= WedgeAfter THEN "stall" ELSE "none"

-----------------------------------------------------------------------------
(* Serving the mailbox: every proxied call in it, in order.  A call that   *)
(* ends the process reports the death, and nothing after it matters.       *)
Ends == {"exit", "throw"}
EndOf(f) == IF f = "exit" THEN "exit" ELSE "crash"

PhaseAfter(f) == IF f = "done" THEN "ready" ELSE "elaborating"

Contents(calls) == {calls[k] : k \in DOMAIN calls}
Served(l, calls) == livenessServerFrame(l, Contents(calls) \ Ends)
ServedPhase(calls) ==
  LET told == {k \in DOMAIN calls : calls[k] \in {"busy", "done"}}
  IN  IF told = {} THEN phase ELSE PhaseAfter(calls[CHOOSE k \in told : \A j \in told : j <= k])
ServedDead(calls) ==
  LET ends == {k \in DOMAIN calls : calls[k] \in Ends}
  IN  IF ends = {} THEN dead ELSE EndOf(calls[CHOOSE k \in ends : \A j \in ends : k <= j])

Emptied == out' = <<>> /\ pending' = FALSE /\ lost' = FALSE
Serve ==
  /\ L' = Served(L, out) /\ phase' = ServedPhase(out) /\ dead' = ServedDead(out)
  /\ Emptied

(* A send by a Lean thread.                                                *)
Send(f) ==
  /\ Len(out) < MaxFrames
  /\ out' = Append(out, f) /\ pending' = TRUE
  /\ IF pending THEN UNCHANGED <<flight, lost>>
     ELSE \/ flight' = (IF flight = "none" THEN "new" ELSE flight) /\ lost' = FALSE
          \/ lost' = TRUE /\ UNCHANGED flight

NotCounted == counted' = FALSE

WatchInit ==
  /\ L = createLiveness /\ watch = NoWatch /\ retries = 0 /\ counted = FALSE /\ dead = "no"
  /\ phase = "starting"
  /\ located \in BOOLEAN
  /\ pending = FALSE /\ flight = "none" /\ lost = FALSE /\ out = <<>>
  /\ lean = "alive" /\ inbox = {} /\ probeAge = Never /\ slept = 0

-----------------------------------------------------------------------------
(* The page: a request and an edit written to the ring.  An edit makes the *)
(* progress still in the mailbox that of an older text.                    *)
ClientRequest(i) ==
  /\ NotCounted
  /\ dead = "no" /\ L.sent[i] = Never /\ i \notin inbox
  /\ L' = livenessClientRequest(L, i)
  /\ inbox' = inbox \cup {i}
  /\ UNCHANGED <<watch, retries, dead, phase, mailbox, located, lean, probeAge, slept>>

Edit ==
  /\ NotCounted
  /\ dead = "no" /\ phase' = "elaborating"
  /\ out' = [k \in DOMAIN out |-> IF out[k] = "done" THEN "note" ELSE out[k]]
  /\ UNCHANGED <<host, pending, flight, lost, located, leanSide, slept>>

(* Lean: an answer, progress, diagnostics; the end of the process; a       *)
(* freeze of every thread.  (What a dead session's Lean does is not told.)  *)
LeanAnswers(r) ==
  /\ NotCounted
  /\ lean = "alive" /\ dead = "no" /\ r \in inbox /\ Send(r)
  /\ inbox' = inbox \ {r} /\ probeAge' = (IF r = "probe" THEN Never ELSE probeAge)
  /\ UNCHANGED <<host, phase, located, lean, slept>>

LeanReports ==
  /\ NotCounted
  /\ lean = "alive" /\ dead = "no" /\ \E f \in {"busy", "done"} : Send(f)
  /\ UNCHANGED <<host, phase, located, leanSide, slept>>

LeanEnds ==
  /\ NotCounted
  /\ lean = "alive" /\ dead = "no" /\ lean' = "gone" /\ \E f \in Ends : Send(f)
  /\ UNCHANGED <<host, phase, located, inbox, probeAge, slept>>

LeanFreezes ==
  /\ NotCounted
  /\ lean = "alive" /\ dead = "no" /\ lean' = "frozen"
  /\ UNCHANGED <<host, phase, mailbox, located, inbox, probeAge, slept>>

-----------------------------------------------------------------------------
(* The message arrives: the counted check of the mailbox.                  *)
Deliver ==
  /\ NotCounted
  /\ dead = "no" /\ flight # "none" /\ flight' = "none"
  /\ watch' = [watch EXCEPT !.checked = watch # NoWatch]
  /\ Serve
  /\ UNCHANGED <<retries, located, leanSide, slept>>

(* mailboxTick(): the tick serves the mailbox, but a word that reads       *)
(* PENDING is watched first.                                               *)
mailboxTickWatching == IF watch = NoWatch /\ located THEN "watch" ELSE "none"   \* mutant: no kick

mailboxTick ==
  CASE watch # NoWatch -> "none"
    [] watch = NoWatch /\ located /\ pending -> "watch"
    [] OTHER -> "kick"

(* livenessStep(), n ticks after the last one.  (\E over one value computes *)
(* it once.)                                                               *)
InTime ==
  /\ flight # "old" /\ watch.ticks < 1
  /\ lean = "alive" /\ "probe" \in inbox /\ Len(out) < MaxFrames => probeAge < 1

Step(n) ==
  /\ dead = "no" /\ InTime /\ NotCounted
  /\ \E decision \in {mailboxTick} : \E calls \in {IF decision = "kick" THEN out ELSE <<>>} :
     \E aged \in {Served(Aged(L, n), calls)} :
     \E action \in {IF ServedDead(calls) = "no" THEN livenessTick(Forget(aged), ServedPhase(calls)) ELSE "none"} :
      /\ phase' = ServedPhase(calls)
      /\ IF decision = "kick" THEN Emptied ELSE UNCHANGED <<out, pending, lost>>
      /\ watch' = (IF decision = "watch" THEN [checked |-> FALSE, ticks |-> 0]
                   ELSE [watch EXCEPT !.ticks = Older(@, 1, 1)])
      /\ flight' = (IF flight = "new" THEN "old" ELSE flight)
      /\ L' = CASE action = "probe" -> [Forget(aged) EXCEPT !.probe = 0]
                [] action = "stall" -> [Forget(aged) EXCEPT !.stalled = 0]
                [] OTHER -> Forget(aged)
      /\ dead' = IF action = "dead" THEN "wedged" ELSE ServedDead(calls)
      /\ inbox' = (IF action = "probe" THEN inbox \cup {"probe"} ELSE inbox)
      /\ probeAge' = (IF action = "probe" THEN 0 ELSE Older(probeAge, 1, 1))
      /\ UNCHANGED <<retries, located, lean>>

Tick == Step(1) /\ UNCHANGED slept

TickAfterSuspension == slept < MaxSuspensions /\ Step(Suspension) /\ slept' = slept + 1

-----------------------------------------------------------------------------
(* mailboxWatchFired() and mailboxConfirm().  A timer that fires on time   *)
(* finds an old message delivered; a late one may come before it.          *)
Healthy == watch.checked \/ ~pending

Confirmed ==
  /\ Healthy /\ watch' = NoWatch /\ retries' = 0 /\ NotCounted
  /\ UNCHANGED <<L, dead, phase, out, pending, lost>>

ConfirmOnTime ==
  /\ dead = "no" /\ watch # NoWatch /\ (watch.checked \/ flight # "old")
  /\ \/ Confirmed
     \/ /\ ~Healthy /\ watch' = NoWatch /\ retries' = 0
        /\ counted' = TRUE /\ Serve
  /\ UNCHANGED <<flight, located, leanSide, slept>>

ConfirmLate ==
  /\ NotCounted
  /\ dead = "no" /\ watch # NoWatch
  /\ \/ Confirmed
     \/ /\ ~Healthy /\ retries < LateRetries /\ retries' = retries + 1
        /\ UNCHANGED <<L, watch, dead, phase, out, pending, lost>>
     \/ /\ ~Healthy /\ retries >= LateRetries /\ retries' = 0 /\ watch' = NoWatch
        /\ Serve
  /\ UNCHANGED <<flight, located, leanSide, slept>>

-----------------------------------------------------------------------------
WatchNext ==
  \/ \E i \in Ids : ClientRequest(i)
  \/ \E r \in Ids \cup {"probe"} : LeanAnswers(r)
  \/ Edit \/ LeanReports \/ LeanEnds \/ LeanFreezes
  \/ Deliver \/ Tick \/ TickAfterSuspension \/ ConfirmOnTime \/ ConfirmLate

WatchSpec == WatchInit /\ [][WatchNext]_watchVars

(* Time passes: timers fire, messages that are not lost arrive and a       *)
(* FileWorker that is alive answers the probe, each while it holds up the  *)
(* next tick.                                                              *)
TimePasses == Tick \/ Deliver \/ LeanAnswers("probe") \/ ConfirmOnTime \/ ConfirmLate
WatchFairSpec == WatchSpec /\ WF_watchVars(TimePasses)

-----------------------------------------------------------------------------
WatchTypeOK ==
  /\ L \in [silent : 0..Longest, sent : [Ids -> Never..RequestTtl + 1], probe : Never..WedgeAfter, stalled : Never..Grace]
  /\ watch \in [checked : BOOLEAN, ticks : Never..1] /\ retries \in 0..LateRetries /\ counted \in BOOLEAN
  /\ dead \in {"no", "wedged", "exit", "crash"}
  /\ phase \in {"starting", "elaborating", "ready"} /\ located \in BOOLEAN
  /\ pending \in BOOLEAN /\ flight \in {"none", "new", "old"} /\ lost \in BOOLEAN
  /\ Len(out) <= MaxFrames /\ (out # <<>> => pending)
  /\ lean \in {"alive", "frozen", "gone"} /\ inbox \subseteq Ids \cup {"probe"}
  /\ probeAge \in Never..1 /\ slept \in 0..MaxSuspensions
  /\ (L.probe # Never => "probe" \in inbox \cup Contents(out))

(* The watchdog's two verdicts are true.  "A long or even non-terminating   *)
(* elaboration answers the probe, so it is never mistaken for a wedge": not *)
(* when every wakeup is lost, not when the machine slept, not when the      *)
(* process ended with its last call still in the mailbox.  And "a           *)
(* notification merely in flight is delivered within that window and is     *)
(* never counted": a rescue is counted only for a wakeup that was lost.     *)
VerdictsAreTrue == /\ [](dead = "wedged" => lean = "frozen")
                   /\ [][counted' => lost]_watchVars

(* A lost wakeup heals: whatever Lean sends is served.                     *)
OutputIsServed == out # <<>> ~> (out = <<>> \/ dead # "no")

(* A Lean side that froze before it finished the text (the first one        *)
(* included) is found out.                                                 *)
FrozenIsFound == lean = "frozen" /\ out = <<>> /\ phase # "ready" ~> dead = "wedged"
=============================================================================
