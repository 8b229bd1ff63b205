------------------------------- MODULE Relay -------------------------------
(***************************************************************************)
(* The LSP relay, lib/lsp-relay.ts: the page's fixed end of the LSP        *)
(* channel.  It forwards the client's messages to the current Lean         *)
(* session, answers the requests a death orphans, replaces a dead session  *)
(* and replays the document to the new one, and halts when sessions keep   *)
(* dying.                                                                  *)
(*                                                                         *)
(* A JavaScript handler runs to its end, so an action is a whole handler,  *)
(* but where it calls page listeners that may call back in: the replies of *)
(* failInFlight (relay-taps.ts runs the page's taps inside toClient) and   *)
(* the status sink's call in halt().  `busy` names the handler that is     *)
(* making such calls; only what a listener can call is enabled meanwhile.  *)
(*                                                                         *)
(* A session is the environment: it may die once, at any time; its start() *)
(* may settle even when it was disposed meanwhile (a failed warm compile   *)
(* is swallowed), or never; its arm() resolves only while it lives; and    *)
(* late replies and deaths of replaced sessions are allowed, since         *)
(* RelaySession only says that dispose() itself reports no death.          *)
(*                                                                         *)
(* A document is its number in the order of the client's edits and its     *)
(* import header.  `initialize`, replayed before the document and cached   *)
(* by the worker, is a request like any other here.                        *)
(***************************************************************************)
EXTENDS Integers, FiniteSets

CONSTANTS
  Ids,            \* request ids, each used once
  Headers,        \* import headers
  NoHeader,       \* the header of the empty document
  MaxSession,     \* bound: sessions made
  MaxEdits,       \* bound: documents opened and changes made by the client
  MaxTime,        \* bound: the clock
  BREAKER_DEATHS, \* deaths that trip the breaker
  BREAKER_WINDOW  \* ... when they fall within this much time

ASSUME RelayAssumption ==
  /\ NoHeader \in Headers
  /\ MaxSession \in Nat \ {0} /\ MaxEdits \in Nat /\ MaxTime \in Nat
  /\ BREAKER_DEATHS \in Nat \ {0} /\ BREAKER_WINDOW \in Nat \ {0}

VARIABLES
  state,         \* serving, rebooting or halted
  session,       \* the current session
  phase,         \* phase[s]: what boot(s) awaits
  disposed,      \* sessions disposed
  dead,          \* sessions that reported a death
  doc,           \* a document was opened
  lastText,      \* the last full text recorded
  pending,       \* requests forwarded and not answered
  deaths,        \* the deaths counted: session and time
  lastDeath,     \* none, or the cause of the last death
  restartOpts,   \* restart options are remembered
  restartHeader, \* ... for this header
  busy,          \* the handler that is calling listeners
  notes,         \* sessions during which the halted note was published
  unloaded,      \* the page is gone
  now,           \* the clock
  \* the client and the sessions
  clientText,    \* the document in the editor, 0 when none
  ranged,        \* the client sent a change that was not a full text
  sent,          \* requests the client sent
  answered,      \* answered[i]: replies the client got to request i
  atWorker,      \* requests the current session holds
  ghosts,        \* requests replaced sessions hold
  workerText     \* the document the current session was given, 0 when none

docVars   == <<doc, lastText, clientText, ranged>>
reqVars   == <<pending, sent, answered, atWorker, ghosts>>
sessVars  == <<session, phase, disposed, dead>>
optVars   == <<restartOpts, restartHeader>>
modeVars  == <<state, busy, lastDeath>>
worldVars == <<notes, unloaded, now>>
vars == <<docVars, reqVars, sessVars, optVars, modeVars, worldVars, deaths, workerText>>

Sessions == 1..MaxSession
Causes   == {"plain", "stack"}   \* stack: ENGINE_STACK_OVERFLOW
Text     == [n : 0..MaxEdits, header : Headers]

TypeOK ==
  /\ state \in {"serving", "rebooting", "halted"}
  /\ session \in Sessions
  /\ phase \in [Sessions -> {"none", "settle", "start", "arm", "done"}]
  /\ disposed \subseteq Sessions /\ dead \subseteq Sessions /\ notes \subseteq Sessions
  /\ doc \in BOOLEAN /\ ranged \in BOOLEAN /\ unloaded \in BOOLEAN
  /\ lastText \in Text
  /\ clientText \in 0..MaxEdits /\ workerText \in 0..MaxEdits /\ now \in 0..MaxTime
  /\ deaths \subseteq [session : Sessions, at : 0..MaxTime]
  /\ lastDeath \in Causes \cup {"none"}
  /\ restartOpts \in BOOLEAN /\ restartHeader \in Headers
  /\ busy \in {"idle", "death", "restart", "halt"}
  /\ pending \subseteq Ids /\ sent \subseteq Ids /\ atWorker \subseteq Ids /\ ghosts \subseteq Ids
  /\ answered \in [Ids -> Nat]

(* The constructor: the first session boots without the settle. *)
Init ==
  /\ state = "rebooting" /\ busy = "idle" /\ lastDeath = "none" /\ deaths = {}
  /\ session = 1 /\ disposed = {} /\ dead = {}
  /\ phase = [s \in Sessions |-> IF s = 1 THEN "start" ELSE "none"]
  /\ doc = FALSE /\ lastText = [n |-> 0, header |-> NoHeader]
  /\ clientText = 0 /\ ranged = FALSE /\ workerText = 0
  /\ pending = {} /\ sent = {} /\ atWorker = {} /\ ghosts = {}
  /\ answered = [i \in Ids |-> 0]
  /\ restartOpts = FALSE /\ restartHeader = NoHeader
  /\ notes = {} /\ unloaded = FALSE /\ now = 0

-----------------------------------------------------------------------------
(* reboot() and attach(): the next session; its boot awaits the settle. *)
Reboot ==
  /\ session < MaxSession
  /\ state' = "rebooting"
  /\ session' = session + 1
  /\ phase' = [phase EXCEPT ![session + 1] = "settle"]

(* reusableOpts(): kept only while the header they were given for stands. *)
ReusableFor(text) == restartOpts /\ text.header = restartHeader

(* rearm() of a halted relay whose document is `text`. *)
RearmFor(text) ==
  /\ state = "halted"
  /\ deaths' = {}
  /\ restartOpts' = ReusableFor(text)
  /\ Reboot

-----------------------------------------------------------------------------
(* fromClient(): record, then forward; a halted relay answers a request    *)
(* itself, drops an open, and is re-armed by a change.                     *)

ClientRequest(i) ==
  /\ i \notin sent
  /\ sent' = sent \cup {i}
  /\ IF state = "halted"
     THEN /\ answered' = [answered EXCEPT ![i] = @ + 1]
          /\ UNCHANGED <<pending, atWorker>>
     ELSE /\ pending' = pending \cup {i}
          /\ atWorker' = atWorker \cup {i}
          /\ UNCHANGED answered
  /\ UNCHANGED <<docVars, sessVars, optVars, modeVars, worldVars, ghosts, deaths, workerText>>

ClientOpen(h) ==
  /\ clientText < MaxEdits
  /\ clientText' = clientText + 1
  /\ doc' = TRUE
  /\ lastText' = [n |-> clientText + 1, header |-> h]
  /\ workerText' = IF state = "halted" THEN workerText ELSE clientText + 1
  /\ UNCHANGED <<ranged, reqVars, sessVars, optVars, modeVars, worldVars, deaths>>

ClientChange(h, full) ==
  /\ doc
  /\ clientText < MaxEdits
  /\ clientText' = clientText + 1
  /\ lastText' = IF full THEN [n |-> clientText + 1, header |-> h] ELSE lastText
  /\ ranged' = (ranged \/ ~full)
  /\ workerText' = clientText + 1
  /\ \/ RearmFor(lastText')
     \/ state # "halted" /\ UNCHANGED <<state, session, phase, deaths, restartOpts>>
  /\ UNCHANGED <<doc, reqVars, disposed, dead, restartHeader, busy, lastDeath, worldVars>>

-----------------------------------------------------------------------------
(* The page's own calls: restart(), rearm(), unload(). *)

(* Refused unless serving; the requests in flight are failed first. *)
Restart ==
  /\ state = "serving" /\ session < MaxSession
  /\ restartOpts' = TRUE /\ restartHeader' = lastText.header
  /\ state' = "rebooting" /\ busy' = "restart"
  /\ UNCHANGED <<docVars, reqVars, sessVars, lastDeath, worldVars, deaths, workerText>>

Rearm ==
  /\ RearmFor(lastText)
  /\ workerText' = 0
  /\ UNCHANGED <<docVars, reqVars, disposed, dead, restartHeader, busy, lastDeath, worldVars>>

Unload ==
  /\ unloaded' = TRUE
  /\ disposed' = disposed \cup {session}
  /\ atWorker' = {} /\ ghosts' = {} /\ workerText' = 0
  /\ UNCHANGED <<docVars, pending, sent, answered, session, phase, dead, optVars, modeVars,
                 notes, now, deaths>>

-----------------------------------------------------------------------------
(* onDied() up to failInFlight's replies: the death of a replaced session, *)
(* or one reported to a halted relay, changes nothing.                     *)
OnDiedTwice(s, cause) ==    \* mutant: a halted relay counts a boot's rejection too
  IF s # session
  THEN UNCHANGED modeVars
  ELSE state' = "rebooting" /\ busy' = "death" /\ lastDeath' = cause

OnDied(s, cause) ==
  IF s # session \/ state = "halted"
  THEN UNCHANGED modeVars
  ELSE state' = "rebooting" /\ busy' = "death" /\ lastDeath' = cause

(* One turn of failInFlight's loop; it also visits a request a tap adds. *)
FailOne ==
  /\ busy \in {"death", "restart"}
  /\ \E i \in pending : /\ pending' = pending \ {i}
                        /\ answered' = [answered EXCEPT ![i] = @ + 1]
  /\ UNCHANGED <<docVars, sent, atWorker, ghosts, sessVars, optVars, modeVars, worldVars,
                 deaths, workerText>>

(* The loop has ended: the session goes, with what it holds. *)
DisposeFirst ==             \* mutant: disposed before the requests are failed
  /\ disposed' = disposed \cup {session}
  /\ ghosts' = ghosts \cup atWorker
  /\ atWorker' = {} /\ workerText' = 0
  /\ UNCHANGED <<docVars, pending, sent, answered, dead, lastDeath, restartHeader, worldVars>>

DisposeSession ==
  /\ pending = {}
  /\ disposed' = disposed \cup {session}
  /\ ghosts' = ghosts \cup atWorker
  /\ atWorker' = {} /\ workerText' = 0
  /\ UNCHANGED <<docVars, pending, sent, answered, dead, lastDeath, restartHeader, worldVars>>

RecentAll == deaths         \* mutant: no window

Recent  == {d \in deaths : now - d.at < BREAKER_WINDOW}
Counted == Recent \cup {[session |-> session, at |-> now]}

(* An engine-stack death pauses at once, uncounted, the options kept. *)
DeathPauses ==
  /\ busy = "death" /\ lastDeath = "stack"
  /\ DisposeSession
  /\ state' = "halted" /\ busy' = "halt"
  /\ UNCHANGED <<session, phase, deaths, restartOpts>>

(* The breaker trips: halted, the options forgotten. *)
DeathHalts ==
  /\ busy = "death" /\ lastDeath # "stack"
  /\ DisposeSession
  /\ deaths' = Counted /\ Cardinality(Counted) >= BREAKER_DEATHS
  /\ restartOpts' = FALSE
  /\ state' = "halted" /\ busy' = "halt"
  /\ UNCHANGED <<session, phase>>

DeathReboots ==
  /\ busy = "death" /\ lastDeath # "stack"
  /\ DisposeSession
  /\ deaths' = Counted /\ Cardinality(Counted) < BREAKER_DEATHS
  /\ restartOpts' = ReusableFor(lastText)
  /\ busy' = "idle" /\ Reboot

FinishRestartKeeping ==     \* mutant: restart() does not dispose
  /\ busy = "restart" /\ pending = {}
  /\ busy' = "idle" /\ Reboot
  /\ atWorker' = {} /\ workerText' = 0 /\ ghosts' = ghosts \cup atWorker
  /\ UNCHANGED <<docVars, pending, sent, answered, disposed, dead, lastDeath, optVars, deaths,
                 worldVars>>

FinishRestart ==
  /\ busy = "restart"
  /\ DisposeSession
  /\ busy' = "idle" /\ Reboot
  /\ UNCHANGED <<deaths, restartOpts>>

(* The rest of halt(): the note, unless a status listener re-armed. *)
HaltedNote ==
  /\ busy = "halt" /\ busy' = "idle"
  /\ notes' = IF doc /\ state = "halted" THEN notes \cup {session} ELSE notes
  /\ UNCHANGED <<docVars, reqVars, sessVars, optVars, state, lastDeath, unloaded, now,
                 deaths, workerText>>

-----------------------------------------------------------------------------
(* boot(s), one action per await.  The boot of a replaced session goes on  *)
(* until it next looks at this.session.                                    *)

BootMoves(s, to) ==
  /\ phase' = [phase EXCEPT ![s] = to]
  /\ UNCHANGED <<docVars, reqVars, session, disposed, optVars, worldVars, deaths>>

SettleDoneStale(s) ==       \* mutant: the superseded test the wrong way round
  /\ phase[s] = "settle"
  /\ BootMoves(s, IF s # session THEN "start" ELSE "done")
  /\ UNCHANGED <<dead, modeVars, workerText>>

SettleDone(s) ==
  /\ phase[s] = "settle"
  /\ BootMoves(s, IF s = session THEN "start" ELSE "done")
  /\ UNCHANGED <<dead, modeVars, workerText>>

(* start() resolved: replay the document, then arm(). *)
StartResolvesNoReplay(s) == \* mutant: the document is not replayed
  /\ phase[s] = "start"
  /\ BootMoves(s, IF s = session THEN "arm" ELSE "done")
  /\ UNCHANGED <<dead, modeVars, workerText>>

StartResolves(s) ==
  /\ phase[s] = "start"
  /\ BootMoves(s, IF s = session THEN "arm" ELSE "done")
  /\ workerText' = IF s = session /\ doc /\ s \notin disposed THEN lastText.n ELSE workerText
  /\ UNCHANGED <<dead, modeVars>>

(* Bound: the last session dies only of what halts the relay.              *)
MayDie(s, cause) ==
  \/ session < MaxSession \/ s # session \/ state = "halted"
  \/ cause = "stack" \/ Cardinality(Counted) >= BREAKER_DEATHS

(* start() or arm() rejected: a death, unless the session's own came first. *)
BootRejects(s, cause) ==
  /\ phase[s] \in {"start", "arm"} /\ MayDie(s, cause)
  /\ BootMoves(s, "done")
  /\ OnDied(s, cause)
  /\ UNCHANGED <<dead, workerText>>

ArmResolves(s) ==
  /\ phase[s] = "arm" /\ s \notin disposed
  /\ BootMoves(s, "done")
  /\ state' = IF s = session THEN "serving" ELSE state
  /\ UNCHANGED <<dead, busy, lastDeath, workerText>>

-----------------------------------------------------------------------------
(* What a session reports: a death, a reply (one of a replaced session is  *)
(* dropped), a document checked to its end.                                *)

SessionDies(s, cause) ==
  /\ phase[s] # "none" /\ s \notin dead /\ MayDie(s, cause)
  /\ dead' = IF s = session THEN dead \cup {s} ELSE dead
  /\ OnDied(s, cause)
  /\ UNCHANGED <<docVars, reqVars, session, phase, disposed, optVars, worldVars, deaths,
                 workerText>>

SessionReplies(i) ==
  /\ i \in atWorker /\ session \notin disposed
  /\ atWorker' = atWorker \ {i}
  /\ pending' = pending \ {i}
  /\ answered' = [answered EXCEPT ![i] = @ + 1]
  /\ UNCHANGED <<docVars, sent, ghosts, sessVars, optVars, modeVars, worldVars, deaths,
                 workerText>>

GhostRepliesPassed(i) ==    \* mutant: a replaced session's reply is passed on
  /\ i \in ghosts
  /\ ghosts' = ghosts \ {i}
  /\ answered' = [answered EXCEPT ![i] = @ + 1]
  /\ UNCHANGED <<docVars, pending, sent, atWorker, sessVars, optVars, modeVars,
                 worldVars, deaths, workerText>>

GhostReplies(i) ==
  /\ i \in ghosts
  /\ ghosts' = ghosts \ {i}
  /\ UNCHANGED <<docVars, pending, sent, answered, atWorker, sessVars, optVars, modeVars,
                 worldVars, deaths, workerText>>

SessionReady ==
  /\ session \notin disposed /\ workerText # 0 /\ phase[session] \in {"arm", "done"}
  /\ lastDeath # "none" /\ lastDeath' = "none"
  /\ UNCHANGED <<docVars, reqVars, sessVars, optVars, state, busy, worldVars, deaths, workerText>>

Tick ==
  /\ now < MaxTime /\ now' = now + 1
  /\ UNCHANGED <<docVars, reqVars, sessVars, optVars, modeVars, notes, unloaded, deaths, workerText>>

-----------------------------------------------------------------------------
(* What a listener may also call in the middle of a handler. *)
Call ==
  \/ \E i \in Ids : ClientRequest(i)
  \/ \E h \in Headers : ClientOpen(h)
  \/ \E h \in Headers, full \in BOOLEAN : ClientChange(h, full)
  \/ Restart
  \/ Rearm

(* The rest of the handler that called it. *)
Resume == FailOne \/ DeathPauses \/ DeathHalts \/ DeathReboots \/ FinishRestart \/ HaltedNote

BootStep(s) ==
  \/ SettleDone(s)
  \/ StartResolves(s)
  \/ ArmResolves(s)
  \/ \E cause \in Causes : BootRejects(s, cause)

(* Events: nothing else is on the stack. *)
Event ==
  /\ busy = "idle"
  /\ \/ \E s \in Sessions : BootStep(s)
     \/ \E s \in Sessions, cause \in Causes : SessionDies(s, cause)
     \/ \E i \in Ids : SessionReplies(i) \/ GhostReplies(i)
     \/ SessionReady
     \/ Unload
     \/ Tick

Next == ~unloaded /\ (Call \/ Resume \/ Event)

Spec == Init /\ [][Next]_vars

(* A handler runs to its end; the current session's start() and arm()      *)
(* settle (its death rejects them).  A replaced session's may hang.        *)
FairSpec ==
  /\ Spec
  /\ WF_vars(~unloaded /\ (Resume \/ (busy = "idle" /\ BootStep(session))))

-----------------------------------------------------------------------------
(* Every request the client sent is either remembered as pending or was    *)
(* answered exactly once: deaths, restarts, halts, listeners that send     *)
(* more, and sessions that answer late lose none and answer none twice     *)
(* (failInFlight, onLsp's filter, the halted reply).                       *)
AnsweredOnce ==
  \A i \in Ids : answered[i] = IF i \in sent \ pending THEN 1 ELSE 0

(* Outside a failing pass the current session holds every pending request  *)
(* and can still answer it: none waits on a disposed session.              *)
NoOrphans ==
  busy \in {"idle", "halt"} /\ ~unloaded =>
    /\ pending \subseteq atWorker
    /\ pending # {} => session \notin disposed

(* Every session before the current one was disposed: no replacement       *)
(* leaves a runtime of several GiB behind, whoever asked for it.           *)
OneLiveSession == \A s \in 1..(session - 1) : s \in disposed

(* A serving relay's session lives, and was given the client's document as *)
(* it is now, however edits, deaths, restarts and the replay interleaved   *)
(* (as long as every change carried the full text).                        *)
ServesTheDocument ==
  state = "serving" /\ ~unloaded =>
    /\ session \notin disposed \cup dead
    /\ phase[session] = "done"
    /\ ~ranged => workerText = clientText

(* A relay that is not halted counts fewer than BREAKER_DEATHS deaths; one *)
(* halted by another death than an engine-stack one counts that many, all  *)
(* within the window, and has forgotten its restart options.               *)
Breaker ==
  /\ state # "halted" => Cardinality(deaths) < BREAKER_DEATHS
  /\ state = "halted" /\ lastDeath # "stack" =>
       /\ Cardinality(deaths) >= BREAKER_DEATHS
       /\ \A d, e \in deaths : d.at - e.at < BREAKER_WINDOW
       /\ ~restartOpts

(* A halt ends only by re-arming, with a new session and no deaths         *)
(* counted: a boot still under way when its session's death halted the     *)
(* relay never puts it back into service.                                  *)
HaltEndsByRearm ==
  [][state = "halted" /\ state' # "halted" =>
       session' = session + 1 /\ deaths' = {}]_vars

(* The halted note is never published over a session that may still report *)
(* its own diagnostics (a status listener may re-arm inside the halt).     *)
NoteOverNoLiveSession == notes \subseteq disposed

(* No boot is left undecided: its session serves, or a death, a failure of *)
(* its own or a call has the relay halted or another session booted.  (Not *)
(* that reboots end: sessions that die further apart than BREAKER_WINDOW   *)
(* never trip the breaker, and onDied boots the next one for ever.)        *)
BootIsDecided == []<>(state # "rebooting" \/ unloaded) \/ []<><<Reboot>>_session
=============================================================================
