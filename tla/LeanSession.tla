---------------------------- MODULE LeanSession ----------------------------
(***************************************************************************)
(* One Lean session: the page's half (lib/client.ts), the boot that        *)
(* lib/resident-session.ts runs through it, and the worker behind two      *)
(* queues of messages (RuntimeOps).  Around it, the relay: it replays the  *)
(* document and arms once the boot has resolved, and it disposes the       *)
(* session in the turn its death is reported or its boot rejects.          *)
(*                                                                         *)
(* A task of the page is one action.  The continuations of its promises    *)
(* (a turn taken, an await of the boot resumed, the relay's catch) are     *)
(* microtasks: they run before the next task.                              *)
(*                                                                         *)
(* Time: the page's timers fire when they like, but a live worker whose    *)
(* thread is free answers a probe within its two seconds, unless the page  *)
(* was frozen in them.  A Worker may vanish without a message.             *)
(***************************************************************************)
EXTENDS RuntimeOps, FiniteSets

CONSTANTS
  Snapshots,     \* snapshots the session loads before it opens
  MaxPageCalls,  \* bound: runtime calls the host makes itself, before the arm
  MaxProbes      \* bound: probes of a worker that has not vanished

ASSUME SessionAssumption == Snapshots \in Nat /\ MaxPageCalls \in Nat /\ MaxProbes \in Nat

VARIABLES
  calls,     \* the calls made: their operation, maker and outcome
  queue,     \* the calls waiting for a turn
  running,   \* the call whose turn it is, 0 before the first
  step,      \* where the boot is
  awaits,    \* the call the boot awaits, or 0
  loads,     \* snapshots the boot has loaded
  dead,      \* the runtime is closed to queued turns
  reported,  \* "no", or how the death was found
  detached,  \* disposed
  timer,     \* the heartbeat timer: off, loss or probe
  probe,     \* the call that is the open probe, or 0
  frozen,    \* the page was frozen since that probe was posted
  clientDoc, \* the client opened its document
  w,         \* the worker
  gone,      \* it vanished
  toWorker, toPage   \* messages on their way

bootVars   == <<step, awaits, loads>>
turnVars   == <<queue, running>>
lifeVars   == <<dead, reported, detached>>
timerVars  == <<timer, probe, frozen>>
workerVars == <<w, gone>>
vars == <<calls, turnVars, bootVars, lifeVars, timerVars, clientDoc, workerVars, toWorker, toPage>>

RuntimeCalls == {"compile", "loadSnapshot", "writeFiles"}
Outcomes == {"queued", "posted", "done", "failed"}
Steps == {"preparing", "boot", "prefetch", "load", "loaded", "warm", "files", "write", "hook", "arm",
          "serving", "failed", "abandoned"}

CallRecords ==
  [op : RuntimeCalls \cup {"boot", "lspArm", "telemetry"}, by : {"boot", "page", "watch"},
   early : BOOLEAN, outcome : Outcomes, code : {"none", "BAD_STATE"}]
Requests == [op : RuntimeCalls \cup {"boot", "lspArm", "telemetry", "lsp"}, call : Nat]
Posts == [kind : {"result", "error", "fatal", "died", "beat"}, call : Nat, code : {"none", "BAD_STATE"}]
Workers ==
  [state : {"idle", "booting", "ready", "compiling", "dead"},
   job : [op : {"none", "boot", "compile", "loadSnapshot"}, call : Nat],
   armed : BOOLEAN, doc : BOOLEAN, resident : BOOLEAN, died : BOOLEAN]

TypeOK ==
  /\ calls \in Seq(CallRecords) /\ queue \in Seq(Nat)
  /\ {running, awaits, probe} \subseteq 0..Len(calls)
  /\ step \in Steps /\ loads \in 0..Snapshots
  /\ {dead, detached, frozen, clientDoc, gone} \subseteq BOOLEAN
  /\ reported \in {"no", "crash", "error", "died", "heartbeat"} /\ timer \in {"off", "loss", "probe"}
  /\ w \in Workers /\ toWorker \in Seq(Requests) /\ toPage \in Seq(Posts)

Init ==
  /\ calls = <<>> /\ queue = <<>> /\ running = 0
  /\ step = "preparing" /\ awaits = 0 /\ loads = 0
  /\ dead = FALSE /\ reported = "no" /\ detached = FALSE
  /\ timer = "off" /\ probe = 0 /\ frozen = FALSE
  /\ clientDoc = FALSE
  /\ w = freshWorker /\ gone = FALSE /\ toWorker = <<>> /\ toPage = <<>>

-----------------------------------------------------------------------------
Waiting(k) == k \in DOMAIN calls /\ calls[k].outcome \in {"queued", "posted"}
Next1 == Len(calls) + 1

Call(op, by, outcome) ==
  [op |-> op, by |-> by, early |-> step \in {"preparing", "boot"}, outcome |-> outcome, code |-> "none"]

(* request(): posted at once. *)
request(op, by) ==
  /\ calls' = Append(calls, Call(op, by, "posted"))
  /\ toWorker' = Append(toWorker, [op |-> op, call |-> Next1])
  /\ UNCHANGED turnVars

(* exclusive(): behind every earlier one. *)
exclusive(op, by) ==
  /\ calls' = Append(calls, Call(op, by, "queued"))
  /\ queue' = Append(queue, Next1)
  /\ UNCHANGED <<running, toWorker>>

(* A call's promise settles, done or failed; every call still posted fails *)
(* when the runtime is gone (rejectAll).                                   *)
Settle(cs, k, outcome, code) ==
  IF k = 0 \/ cs[k].outcome # "posted" THEN cs ELSE [cs EXCEPT ![k].outcome = outcome, ![k].code = code]

rejectAll(cs) ==
  [k \in DOMAIN cs |-> IF cs[k].outcome = "posted" THEN [cs[k] EXCEPT !.outcome = "failed"] ELSE cs[k]]

(* Nothing more is heard of the worker. *)
Close ==
  /\ dead' = TRUE /\ detached' = TRUE /\ toWorker' = <<>> /\ toPage' = <<>>
  /\ timer' = "off" /\ probe' = 0 /\ frozen' = FALSE

dispose ==
  /\ Close
  /\ calls' = rejectAll(calls)
  /\ UNCHANGED reported

(* died(): once; the relay disposes the session in the same turn. *)
died(cause, cs) ==
  /\ Close
  /\ reported' = cause
  /\ calls' = rejectAll(cs)

-----------------------------------------------------------------------------
(* Microtasks. *)
TurnIsFree == queue # <<>> /\ ~Waiting(running)

Resumes == awaits # 0 /\ ~Waiting(awaits)

TakeTurnAnyway ==           \* mutant: a queued turn is posted to a dead session
  /\ TurnIsFree
  /\ running' = Head(queue) /\ queue' = Tail(queue)
  /\ calls' = [calls EXCEPT ![Head(queue)].outcome = "posted"]
  /\ toWorker' = Append(toWorker, [op |-> calls[Head(queue)].op, call |-> Head(queue)])
  /\ UNCHANGED <<bootVars, lifeVars, timerVars, clientDoc, workerVars, toPage>>

TakeTurn ==
  /\ TurnIsFree
  /\ running' = Head(queue) /\ queue' = Tail(queue)
  /\ calls' = [calls EXCEPT ![Head(queue)].outcome = IF dead THEN "failed" ELSE "posted"]
  /\ toWorker' = IF dead THEN toWorker ELSE Append(toWorker, [op |-> calls[Head(queue)].op, call |-> Head(queue)])
  /\ UNCHANGED <<bootVars, lifeVars, timerVars, clientDoc, workerVars, toPage>>

Await(next, op) == step' = next /\ awaits' = Next1 /\ exclusive(op, "boot")
GoTo(next) == step' = next /\ awaits' = 0 /\ UNCHANGED <<calls, turnVars, toWorker>>

ReplayAndArmNow ==          \* mutant: the arm takes no turn
  IF detached THEN GoTo("abandoned")
  ELSE /\ step' = "arm" /\ awaits' = Next1
       /\ calls' = Append(calls, Call("lspArm", "boot", "posted"))
       /\ toWorker' = (IF clientDoc THEN Append(toWorker, [op |-> "lsp", call |-> 0]) ELSE toWorker)
                        \o <<[op |-> "lspArm", call |-> Next1]>>
       /\ UNCHANGED turnVars

(* start() has resolved: the relay replays the document and arms, unless   *)
(* it replaced the session meanwhile.                                      *)
ReplayAndArm ==
  IF detached THEN GoTo("abandoned")
  ELSE /\ step' = "arm" /\ awaits' = Next1
       /\ calls' = Append(calls, Call("lspArm", "boot", "queued"))
       /\ queue' = Append(queue, Next1)
       /\ toWorker' = IF clientDoc THEN Append(toWorker, [op |-> "lsp", call |-> 0]) ELSE toWorker
       /\ UNCHANGED running

AfterLoads(n) == IF n < Snapshots THEN "prefetch" ELSE "loaded"

(* The watchdog runs from the arm. *)
WatchesFromBoot(ok) == step = "boot" /\ ok /\ ~detached   \* mutant: a booting worker is watched

WatchesNever(ok) == FALSE                                 \* mutant: from the first beat only

Watches(ok) == step = "arm" /\ ok /\ ~detached

(* An await of #boot(), or of the arm, resumes.  A warm compile that fails *)
(* is not a failure of the boot.                                           *)
BootResumes ==
  /\ Resumes
  /\ \E ok \in {calls[awaits].outcome = "done"} :
       /\ CASE step = "boot" /\ ok  -> GoTo(AfterLoads(0)) /\ UNCHANGED loads
            [] step = "load" /\ ok  -> GoTo(AfterLoads(loads + 1)) /\ loads' = loads + 1
            [] step = "warm"        -> GoTo("files") /\ UNCHANGED loads
            [] step = "write" /\ ok -> GoTo("hook") /\ UNCHANGED loads
            [] step = "arm" /\ ok   -> GoTo("serving") /\ UNCHANGED loads
            [] OTHER                -> GoTo("failed") /\ UNCHANGED loads
       /\ timer' = IF Watches(ok) THEN "loss" ELSE timer
  /\ UNCHANGED <<lifeVars, probe, frozen, clientDoc, workerVars, toPage>>

(* With an exact header remembered, its imports are compiled first.        *)
Warm ==
  /\ step = "loaded"
  /\ Await("warm", "compile") \/ GoTo("files")
  /\ UNCHANGED <<loads, lifeVars, timerVars, clientDoc, workerVars, toPage>>

(* The relay's catch: the boot's rejection is a death, and ends the        *)
(* session.                                                                *)
BootFailed ==
  /\ step = "failed" /\ ~detached
  /\ dispose
  /\ UNCHANGED <<turnVars, bootVars, clientDoc, workerVars>>

Microtask == TakeTurn \/ BootResumes \/ Warm \/ BootFailed

MicrotaskDue == TurnIsFree \/ Resumes \/ step = "loaded" \/ (step = "failed" /\ ~detached)

-----------------------------------------------------------------------------
(* Tasks of the page: what #boot() awaits outside the session.  It does    *)
(* not ask whether the session was disposed meanwhile.                     *)
Prepared ==
  /\ step = "preparing"
  /\ \/ step' = "boot" /\ awaits' = Next1 /\ request("boot", "boot")
     \/ GoTo("failed")
  /\ UNCHANGED <<loads, lifeVars, timerVars, clientDoc, workerVars, toPage>>

Prefetched ==
  /\ step = "prefetch"
  /\ Await("load", "loadSnapshot")
  /\ UNCHANGED <<loads, lifeVars, timerVars, clientDoc, workerVars, toPage>>

FilesFetched ==
  /\ step = "files"
  /\ Await("write", "writeFiles") \/ GoTo("hook") \/ GoTo("failed")
  /\ UNCHANGED <<loads, lifeVars, timerVars, clientDoc, workerVars, toPage>>

HookReturns ==
  /\ step = "hook"
  /\ ReplayAndArm \/ GoTo("failed")
  /\ UNCHANGED <<loads, lifeVars, timerVars, clientDoc, workerVars, toPage>>

(* The host's own calls: at any time, but not after the arm, which is the  *)
(* last of a session's start.                                              *)
PageCalls(op) ==
  /\ step \notin {"arm", "serving", "failed", "abandoned"} /\ ~detached
  /\ Cardinality({k \in DOMAIN calls : calls[k].by = "page"}) < MaxPageCalls
  /\ exclusive(op, "page")
  /\ UNCHANGED <<bootVars, lifeVars, timerVars, clientDoc, workerVars, toPage>>

ClientOpens ==
  /\ ~clientDoc /\ clientDoc' = TRUE
  /\ toWorker' = IF detached THEN toWorker ELSE Append(toWorker, [op |-> "lsp", call |-> 0])
  /\ UNCHANGED <<calls, turnVars, bootVars, lifeVars, timerVars, workerVars, toPage>>

(* A restart, or the end of the page. *)
PageDisposes ==
  /\ ~detached
  /\ dispose
  /\ UNCHANGED <<turnVars, bootVars, clientDoc, workerVars>>

WorkerError ==
  /\ ~detached
  /\ died("crash", calls)
  /\ UNCHANGED <<turnVars, bootVars, clientDoc, workerVars>>

(* dispatch(): a settled call, a beat (it re-arms the loss window), or the *)
(* end.                                                                    *)
Receives ==
  /\ toPage # <<>> /\ ~detached
  /\ \E m \in {Head(toPage)} :
       CASE m.kind \in {"result", "error"} ->
              /\ calls' = Settle(calls, m.call, IF m.kind = "result" THEN "done" ELSE "failed", m.code)
              /\ toPage' = Tail(toPage)
              /\ UNCHANGED <<lifeVars, timerVars, toWorker>>
         [] m.kind = "fatal" -> died("error", Settle(calls, m.call, "failed", m.code))
         [] m.kind = "died"  -> died("died", calls)
         [] m.kind = "beat"  -> timer' = "loss" /\ probe' = 0 /\ frozen' = FALSE /\ toPage' = Tail(toPage)
                                /\ UNCHANGED <<calls, lifeVars, toWorker>>
  /\ UNCHANGED <<turnVars, bootVars, clientDoc, workerVars>>

-----------------------------------------------------------------------------
(* The heartbeat's timers: after six seconds without a beat one probe,     *)
(* whose answer decides two seconds later.                                 *)
LossTimer ==
  /\ timer = "loss" /\ timer' = "probe" /\ probe' = Next1 /\ frozen' = FALSE
  /\ (gone /\ toPage = <<>>) \/ Cardinality({k \in DOMAIN calls : calls[k].by = "watch"}) < MaxProbes
  /\ request("telemetry", "watch")
  /\ UNCHANGED <<bootVars, lifeVars, clientDoc, workerVars, toPage>>

Answered == calls[probe].outcome = "done"

ProbeTimer ==
  /\ timer = "probe"
  /\ \/ /\ Answered
        /\ timer' = "loss" /\ probe' = 0 /\ frozen' = FALSE
        /\ UNCHANGED <<calls, lifeVars, toWorker, toPage>>
     \/ /\ ~Answered /\ (gone \/ frozen \/ w.job # NoJob)
        /\ died("heartbeat", calls)
  /\ UNCHANGED <<turnVars, bootVars, clientDoc, workerVars>>

(* The page is frozen: a probe's answer and its timer may both be due when *)
(* it goes on.                                                             *)
PageFreezes ==
  /\ timer = "probe" /\ ~frozen /\ frozen' = TRUE
  /\ UNCHANGED <<calls, turnVars, bootVars, lifeVars, timer, probe, clientDoc, workerVars, toWorker, toPage>>

-----------------------------------------------------------------------------
(* The worker, while anybody listens. *)
WorkerLives == ~gone /\ ~detached

WorkerDoes(r) == w' = r.w /\ toPage' = toPage \o r.out

pageVars == <<calls, turnVars, bootVars, lifeVars, timerVars, clientDoc, gone>>

WorkerServes ==
  /\ WorkerLives /\ toWorker # <<>> /\ w.job.op # "compile"
  /\ toWorker' = Tail(toWorker)
  /\ \E r \in served(w, Head(toWorker)) : WorkerDoes(r)
  /\ UNCHANGED pageVars

WorkerEndsJob ==
  /\ WorkerLives /\ w.job # NoJob
  /\ \E r \in jobEnds(w) : WorkerDoes(r)
  /\ UNCHANGED <<pageVars, toWorker>>

WorkerBeats ==
  /\ WorkerLives /\ w.resident /\ ~\E k \in DOMAIN toPage : toPage[k].kind = "beat"
  /\ toPage' = Append(toPage, beatEvent)
  /\ UNCHANGED <<pageVars, w, toWorker>>

(* An exit, a wedge, a stack overflow; or the runtime aborts.              *)
WorkerDies ==
  /\ WorkerLives /\ ~w.died /\ w.state # "idle" /\ w.job.op # "compile"
  /\ \/ WorkerDoes(die(w))
     \/ w.state = "ready" /\ WorkerDoes(aborted(w))
  /\ UNCHANGED <<pageVars, toWorker>>

WorkerVanishes ==
  /\ WorkerLives /\ gone' = TRUE
  /\ UNCHANGED <<calls, turnVars, bootVars, lifeVars, timerVars, clientDoc, w, toWorker, toPage>>

-----------------------------------------------------------------------------
PageTask ==
  \/ Prepared \/ Prefetched \/ FilesFetched \/ HookReturns
  \/ \E op \in RuntimeCalls : PageCalls(op)
  \/ ClientOpens \/ PageDisposes \/ WorkerError
  \/ Receives \/ LossTimer \/ ProbeTimer \/ PageFreezes

WorkerTask == WorkerServes \/ WorkerEndsJob \/ WorkerBeats \/ WorkerDies \/ WorkerVanishes

Next == Microtask \/ (~MicrotaskDue /\ (PageTask \/ WorkerTask))

Spec == Init /\ [][Next]_vars

(* Promises and timers run; what the boot awaits settles (the downloads    *)
(* have their own timeouts); a live worker serves, and ends what it began. *)
FairSpec ==
  /\ Spec
  /\ WF_vars(Microtask)
  /\ WF_vars(~MicrotaskDue /\ (Prepared \/ Prefetched \/ FilesFetched \/ HookReturns))
  /\ WF_vars(~MicrotaskDue /\ Receives)
  /\ WF_vars(~MicrotaskDue /\ LossTimer) /\ WF_vars(~MicrotaskDue /\ ProbeTimer)
  /\ WF_vars(~MicrotaskDue /\ WorkerServes) /\ WF_vars(~MicrotaskDue /\ WorkerEndsJob)

-----------------------------------------------------------------------------
(* The loop opens last: every snapshot of the session is loaded, and no    *)
(* runtime call made before the arm is still to be served, whatever the    *)
(* host called and whenever the client opened its document.  ("so it can   *)
(* never overtake a queued loadSnapshot".)                                 *)
OpensLast ==
  w.resident =>
    /\ loads = Snapshots
    /\ \A k \in DOMAIN calls : calls[k].op \in RuntimeCalls => ~Waiting(k)
    /\ w.job = NoJob

(* Once the runtime has booted, the worker refuses no call because another *)
(* owns the runtime: the turns keep the calls of the boot, of the host and *)
(* the arm apart.                                                          *)
RefusesNoneBooted ==
  \A k \in DOMAIN calls : ~calls[k].early => calls[k].code # "BAD_STATE"

(* The runtime has one owner at a time, and the loop is the last of them.  *)
OneOwnerAtATime == OpensLast /\ RefusesNoneBooted

(* "Serializing here makes that guard unreachable from a single session    *)
(* regardless of caller timing."  (Not so: boot() takes no turn.)          *)
RefusesNone == \A k \in DOMAIN calls : calls[k].code # "BAD_STATE"

(* A session is declared dead by its heartbeat only when its worker is     *)
(* gone, or when the page was frozen between a probe and its answer: never *)
(* because the worker is busy.                                             *)
HeartbeatDeathIsReal == [][reported # "heartbeat" /\ reported' = "heartbeat" => gone \/ frozen]_vars

(* A session that serves over a worker that vanished is found and ended,   *)
(* beats or not.                                                           *)
SilentDeathIsFound == (gone /\ step = "serving") ~> detached

(* Every call settles: a death, a disposal or a failed boot never leaves a *)
(* caller waiting, in the turn queue or at the worker.  (But for a worker  *)
(* that vanishes while the session boots, which no timer watches, and for  *)
(* boot() called by a start() that outlives its session.)                  *)
Unsettled(k) == Waiting(k) /\ ~(calls[k].op = "boot" /\ detached)

CallsSettle ==
  (\E k \in DOMAIN calls : Unsettled(k))
    ~> ((\A k \in DOMAIN calls : ~Unsettled(k)) \/ (gone /\ step # "serving"))
=============================================================================
