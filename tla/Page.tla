-------------------------------- MODULE Page --------------------------------
(***************************************************************************)
(* The page over the relay: src/frontend/src/main.ts (the status sink),    *)
(* self-widen.ts, check-fallback.ts and page-api.ts (relayStatus, settled, *)
(* restart).  The relay and its sessions (Relay.tla, LeanSession.tla) are  *)
(* the environment, one step for each thing that publishes a status.       *)
(*                                                                         *)
(* A status is handed through the page in ONE turn of the event loop, but  *)
(* every event of that turn calls the embedder's listeners, which may      *)
(* restart the session then and there: the replacement's first status is   *)
(* handed through the page inside that call, and the outer pass goes on    *)
(* with a status that is no longer true.  `turn` is the outer pass, at the *)
(* place it has reached.  A relay that reboots accepts no restart, so the  *)
(* inner pass cannot be left and is one function, Hears.                   *)
(***************************************************************************)
EXTENDS Snapshots

CONSTANTS Index,       \* the served index of snapshots
          Calls,       \* the embedder's calls of settled()
          Imports,     \* what documents import: sets of modules
          MaxSessions, \* bound on replacements
          MaxVersion   \* bound on the document's versions

VARIABLES relay,   \* the relay's state, its session's and its document's
          page,    \* the page's and the page API's state
          calls,   \* settled(): per call
          due,     \* the calls with a microtask queued
          turn,    \* the status being handed through the page, if any
          widens   \* the widens since the document or the embedder asked for
                   \* other environments (ghost)

pageVars == <<relay, page, calls, due, turn, widens>>

Default == {}   \* restart options: none given
Idle == [at |-> "idle"]
Settled == {"ready", "headerRefused"}

PageInit ==
    /\ \E h \in Imports :
         relay = [session |-> 1, mode |-> "rebooting", phase |-> "booting", version |-> 1,
                  header |-> h, checked |-> 0, missing |-> {}, loaded |-> chooseSnapshots(Index, h),
                  kept |-> Default, keptFor |-> {}, died |-> 0, stack |-> FALSE]
    /\ page = [card |-> TRUE, boot |-> "going", fallback |-> FALSE, progress |-> FALSE,
               last |-> 1, death |-> 0, seen |-> {}]
    /\ calls = [c \in Calls |-> [st |-> "new", want |-> 0, after |-> 0]]
    /\ due = {}
    /\ turn = Idle
    /\ widens = 0

-----------------------------------------------------------------------------
(* The relay's replacements, as functions of its state. *)

(* reusableOpts: the remembered options while the import lines stand. *)
Reusable(r) == IF r.keptFor = r.header THEN r.kept ELSE Default

NewSession(r, opts) ==
    [r EXCEPT !.session = @ + 1, !.mode = "rebooting", !.phase = "booting", !.checked = 0,
              !.missing = {}, !.loaded = IF opts = Default THEN chooseSnapshots(Index, r.header) ELSE opts]

Restarted(r, opts) == NewSession([r EXCEPT !.kept = opts, !.keptFor = r.header], opts)
Rebooted(r) == NewSession([r EXCEPT !.kept = Reusable(r)], Reusable(r))

(* api.restart: a halted relay is re-armed, a serving one restarted, with the
   snapshots asked for or this session's own; a booting one refuses. *)
ApiRestart(r, asked) ==
    IF r.session >= MaxSessions THEN {}
    ELSE CASE r.mode = "halted" /\ asked = Default -> {Rebooted(r)}
           [] r.mode = "serving" ->
                {Restarted(r, IF asked # Default THEN asked
                              ELSE IF Reusable(r) # Default THEN Reusable(r) ELSE r.loaded)}
           [] OTHER -> {}

(* What the embedder may ask for: nothing in particular, or the base alone. *)
Asked == {Default, Base}

(* The pass of a rebooting status: no listener can restart inside it.  A
   verdict reached before the relay serves ends the card already; otherwise
   the new session's boot steps follow at once (emitBoot). *)
Hears(p, r, byUser) ==
    LET verdict == r.phase \in Settled
    IN  [p EXCEPT !.fallback = @ /\ ~byUser /\ ~verdict, !.card = @ /\ ~verdict,
                  !.boot = IF verdict /\ (p.card \/ @ = "done") THEN "done" ELSE "going",
                  !.progress = FALSE, !.last = r.session, !.death = r.died,
                  !.seen = IF p.last = r.session THEN @ ELSE {}]

Waiting == {c \in Calls : calls[c].st = "waiting"}

-----------------------------------------------------------------------------
(* Tasks: what begins a turn of the event loop, once the last one is over. *)

Rest == turn = Idle /\ due = {}

(* The relay publishes what is now its status: a pass that a listener may
   change when the relay serves or is halted. *)
Publishes(r) ==
    /\ relay' = r
    /\ IF r.mode = "rebooting"
         THEN /\ page' = Hears(page, r, FALSE)
              /\ due' = Waiting
              /\ turn' = turn
         ELSE /\ turn' = [at |-> "widen", s |-> r, by |-> "none"]
              /\ UNCHANGED <<page, due>>
    /\ UNCHANGED calls

(* The session begins to check the newest text it was sent; until the verdict
   `missing` holds what that text imports. *)
Elaborates ==
    /\ Rest
    /\ relay.mode # "halted" /\ relay.checked # relay.version
    /\ Publishes([relay EXCEPT !.phase = "elaborating", !.checked = relay.version, !.missing = relay.header])
    /\ UNCHANGED widens

(* Its verdict: ready (which clears the relay's memory of the last death), or
   a refusal of any of the modules that text imports. *)
Verdict ==
    /\ Rest
    /\ relay.phase = "elaborating" /\ relay.mode # "halted"
    /\ \/ Publishes([relay EXCEPT !.phase = "ready", !.died = 0, !.missing = {}])
       \/ \E missing \in SUBSET relay.missing \ {{}} :
             Publishes([relay EXCEPT !.phase = "headerRefused", !.missing = missing])
    /\ UNCHANGED widens

(* boot: the session is up, its document replayed, its loop armed;
   it may have reached a verdict before the arm is known to be through. *)
Serves ==
    /\ Rest
    /\ relay.mode = "rebooting"
    /\ Publishes([relay EXCEPT !.mode = "serving", !.phase = IF @ = "booting" THEN "starting" ELSE @])
    /\ UNCHANGED widens

(* onDied: the next session, under the remembered options; or the breaker
   trips and forgets them; or Lean ran out of stack, which pauses. *)
Dies ==
    /\ Rest
    /\ relay.mode # "halted"
    /\ LET dead == [relay EXCEPT !.died = relay.session, !.mode = "rebooting"]
       IN  \/ /\ relay.session < MaxSessions
              /\ Publishes(Rebooted(dead))
              /\ UNCHANGED widens
           \/ \E stack \in BOOLEAN :
                /\ Publishes([dead EXCEPT !.mode = "halted", !.phase = "halted", !.stack = stack,
                                          !.kept = IF stack THEN @ ELSE Default])
                /\ widens' = IF stack THEN widens ELSE 0

(* The client's didChange; a halted relay takes it as its re-arm. *)
Edits ==
    /\ Rest
    /\ relay.version < MaxVersion
    /\ \E h \in Imports :
         LET r == [relay EXCEPT !.version = @ + 1, !.header = h]
         IN  /\ widens' = IF h = relay.header THEN widens ELSE 0
             /\ IF relay.mode # "halted"
                  THEN relay' = r /\ UNCHANGED <<page, due>>
                  ELSE /\ relay.session < MaxSessions
                       /\ relay' = Rebooted(r)
                       /\ page' = Hears(page, relay', TRUE)
                       /\ due' = Waiting
    /\ UNCHANGED <<calls, turn>>

(* A call of api.restart that no listener makes. *)
Restarts ==
    /\ Rest
    /\ \E asked \in Asked : \E r \in ApiRestart(relay, asked) :
         /\ relay' = r
         /\ page' = Hears(page, r, TRUE)
         /\ due' = Waiting
         /\ widens' = IF asked = Default THEN widens ELSE 0
    /\ UNCHANGED <<calls, turn>>

(* A progress notification of Lean's, coalesced until the next status. *)
Progress ==
    /\ Rest
    /\ relay.mode = "serving" /\ ~page.progress
    /\ page' = [page EXCEPT !.progress = TRUE]
    /\ UNCHANGED <<relay, calls, due, turn, widens>>

(* check-fallback: Lean has been checking for 30 s; the card goes. *)
FallbackFires ==
    /\ Rest
    /\ page.fallback
    /\ page' = [page EXCEPT !.fallback = FALSE, !.card = FALSE, !.boot = "done"]
    /\ due' = IF page.boot = "done" THEN Waiting ELSE due
    /\ UNCHANGED <<relay, calls, turn, widens>>

(* settled(): a first check is queued at once. *)
AsksSettled(c) ==
    /\ Rest
    /\ calls[c].st = "new"
    /\ \E after \in {0, relay.session} :
         calls' = [calls EXCEPT ![c] = [st |-> "waiting", want |-> relay.version, after |-> after]]
    /\ due' = {c}
    /\ UNCHANGED <<relay, page, turn, widens>>

TimesOut(c) ==
    /\ Rest
    /\ calls[c].st = "waiting"
    /\ calls' = [calls EXCEPT ![c].st = "rejected"]
    /\ UNCHANGED <<relay, page, due, turn, widens>>

-----------------------------------------------------------------------------
(* The pass of a status, from event to event. *)

(* An event calls the listeners, and one of them may restart; the page API
   then goes on at `next` with what `p` was when it called them. *)
Emit(event, p, next) ==
    \E asked \in Asked : \E r \in {relay} \cup ApiRestart(relay, asked) :
      /\ relay' = r
      /\ page' = IF r = relay THEN p ELSE Hears(p, r, TRUE)
      /\ widens' = IF r = relay \/ asked = Default THEN widens ELSE 0
      /\ turn' = [turn EXCEPT !.at = next, !.by = IF r # relay /\ @ = "none" THEN event ELSE @]
      /\ due' = IF r # relay \/ event = "status" THEN due \cup Waiting ELSE due

Passes(p, next) ==
    /\ page' = p
    /\ turn' = [turn EXCEPT !.at = next]
    /\ UNCHANGED <<relay, due, widens>>

At(stage) == turn.at = stage

(* The status is still that of the relay's session. *)
Stands == turn.s.session = relay.session
IsFinal == turn.s.phase \in Settled /\ turn.s.mode = "serving"

(* selfWiden, first in the sink: one entry of the index serves the refused
   header, so the session is replaced, and the rest of the page hears nothing.
   The refusal may be of an older text; the header is the newest's.  A page
   without an index follows the legacy rule, that of an index with no more than
   the base and the umbrella (LegacyWidens). *)
Widens(target) ==
    /\ IF turn.s.phase # "headerRefused" \/ relay.mode # "serving" \/ target = <<>> \/ relay.session >= MaxSessions
         THEN Passes(page, "card")
         ELSE /\ relay' = Restarted(relay, Base \cup {target[1].name})
              /\ page' = Hears(page, relay', TRUE)
              /\ widens' = widens + 1
              /\ due' = Waiting
              /\ turn' = Idle
    /\ UNCHANGED calls

(* A slip: the choice is told what is missing, and not what the header needs. *)
WidenBlind == At("widen") /\ Widens(widenTarget(Index, turn.s.missing, relay.loaded, {}))

Widen == At("widen") /\ Widens(widenTarget(Index, turn.s.missing, relay.loaded, relay.header))

(* renderStatus: the fallback's timer, and the boot card, whose end (or whose
   failure, at a halt before the first verdict) is an event. *)
Card ==
    /\ At("card")
    /\ LET s == turn.s
           ends == page.card /\ (s.phase \in Settled \/ (s.mode = "halted" /\ s.stack))
           fails == page.card /\ s.mode = "halted" /\ ~s.stack
           armed == CASE ~page.card \/ ends -> FALSE
                      [] s.mode = "serving" -> TRUE
                      [] OTHER -> page.fallback
           p == [page EXCEPT !.fallback = armed, !.card = @ /\ ~ends,
                             !.boot = IF ends THEN "done" ELSE IF fails THEN "failed" ELSE @]
       IN  IF ends \/ fails THEN Emit("card", p, "top") ELSE Passes(p, "top")
    /\ UNCHANGED calls

(* relayStatus: a superseded status is dropped; the coalesced progress goes
   out before anything of this status does. *)
Top ==
    /\ At("top")
    /\ IF ~Stands THEN Passes(page, "over")
       ELSE IF page.progress THEN Emit("fileProgress", [page EXCEPT !.progress = FALSE], "handle")
       ELSE Passes(page, "handle")
    /\ UNCHANGED calls

(* The reboot event, when the last status was another session's; then the
   death event, once per death the page has not reported, and the liveness
   events, if this status's counters have moved (trackLiveness).  The first
   listener to restart leaves none for the others to restart. *)
Handle ==
    /\ At("handle")
    /\ LET s == turn.s
           p == [page EXCEPT !.last = s.session, !.seen = IF page.last = s.session THEN @ ELSE {},
                             !.death = s.died]
       IN  \E event \in {"liveness"} \cup (IF s.died \in {0, page.death} THEN {} ELSE {"death"}) :
             Emit(event, p, "status")
    /\ UNCHANGED calls

StatusEvent ==
    /\ At("status")
    /\ Emit("status", page, "final")
    /\ UNCHANGED calls

(* A slip: the verdict is not looked at again after the listeners ran. *)
FinalUnchecked ==
    /\ At("final")
    /\ IF ~IsFinal THEN Passes(page, "over")
       ELSE IF page.boot = "going" THEN Emit("boot", [page EXCEPT !.boot = "done"], "ready")
       ELSE Passes(page, "ready")
    /\ UNCHANGED calls

(* A listener of `status` may have replaced the session: looked at again.  A
   final verdict ends the boot, which is an event, and is then `ready`. *)
Final ==
    /\ At("final")
    /\ IF ~Stands \/ ~IsFinal THEN Passes(page, "over")
       ELSE IF page.boot = "going" THEN Emit("boot", [page EXCEPT !.boot = "done"], "ready")
       ELSE Passes(page, "ready")
    /\ UNCHANGED calls

(* `ready` is told once for a session and a version. *)
ReadyKey == <<turn.s.session, turn.s.checked>>

Ready ==
    /\ At("ready")
    /\ IF ReadyKey \in page.seen THEN Passes(page, "over")
       ELSE Emit("ready", [page EXCEPT !.seen = @ \cup {ReadyKey}], "over")
    /\ UNCHANGED calls

Over ==
    /\ At("over")
    /\ turn' = Idle
    /\ UNCHANGED <<relay, page, calls, due, widens>>

-----------------------------------------------------------------------------
(* settled()'s check, a microtask: on the relay's status as it is then. *)

(* A slip: a verdict on a later text is not one on the text asked for. *)
OutcomeExact(c) ==
    LET k == calls[c]
    IN  CASE relay.mode = "halted" -> "rejected"
          [] /\ relay.mode = "serving" /\ relay.phase \in Settled
             /\ k.after # relay.session /\ relay.checked = k.want -> "resolved"
          [] OTHER -> "waiting"

Outcome(c) ==
    LET k == calls[c]
    IN  CASE relay.mode = "halted" -> "rejected"
          [] /\ relay.mode = "serving" /\ relay.phase \in Settled
             /\ k.after # relay.session /\ relay.checked >= k.want -> "resolved"
          [] OTHER -> "waiting"

Check(c) ==
    /\ turn = Idle
    /\ c \in due
    /\ calls' = [calls EXCEPT ![c].st = Outcome(c)]
    /\ due' = due \ {c}
    /\ UNCHANGED <<relay, page, turn, widens>>

Pass == \/ Widen \/ Card \/ Top \/ Handle \/ StatusEvent
        \/ Final \/ Ready \/ Over

PageNext == \/ Elaborates \/ Verdict \/ Serves \/ Dies
        \/ Edits \/ Restarts \/ Progress \/ FallbackFires
        \/ \E c \in Calls : AsksSettled(c) \/ TimesOut(c) \/ Check(c)
        \/ Pass

PageSpec == PageInit /\ [][PageNext]_pageVars

(* The event loop runs what it has begun; a session boots and reaches a
   verdict, or dies; the fallback's timer fires. *)
PageFairSpec ==
    /\ PageSpec
    /\ WF_pageVars(Pass)
    /\ \A c \in Calls : WF_pageVars(Check(c))
    /\ WF_pageVars(Serves) /\ WF_pageVars(Elaborates \/ Verdict) /\ WF_pageVars(FallbackFires)
-----------------------------------------------------------------------------
(* What an embedder hears is true (page-api.ts:184-187 and 318-352): a status
   event is the current session's and a `ready` its verdict, even when a
   listener of a `status` or of the card has just replaced the session, or
   the page has widened it; and the session told never goes back.  Listeners
   that restart in the events the code does not look behind are named: a
   replacement in fileProgress, death or liveness is followed by the old
   status, one in boot by the old `ready`. *)
VerdictsStand ==
    [][/\ page'.last < page.last => turn.by = "fileProgress"
       /\ turn.at = "status" => Stands \/ turn.by \in {"fileProgress", "death", "liveness"}
       /\ page'.seen \ page.seen # {} => Stands \/ turn.by = "boot"]_pageVars

(* A widen is never followed by another for the same imports (snapshots.ts:
   236-240): whatever the kernel refuses, whenever its session dies, and
   however late a refusal of an earlier text arrives, until the document's
   imports change, the embedder asks for environments itself, or the breaker
   forgets what was asked for. *)
WidensOnce == widens =< 1

(* Every settled() that does not wait for a replacement ends: with a verdict
   on its text or a later one, or rejected by a halt, across deaths, widens
   and restarts by any listener. *)
CallsEnd ==
    \A c \in Calls : (calls[c].st = "waiting" /\ calls[c].after = 0)
                      ~> (calls[c].st \in {"resolved", "rejected"})
=============================================================================
