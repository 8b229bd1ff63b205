------------------------------ MODULE RawCache ------------------------------
(***************************************************************************)
(* One raw snapshot region in the browser's storage and the one way to     *)
(* fill it: lib/raw-cache.ts in every tab, and the disposable prefetch     *)
(* worker it starts (public/workers/snapshot-prefetch.worker.js).          *)
(*                                                                         *)
(* A tab's callers share a flight.  A flight asks for the region's Web     *)
(* Lock, if available first and in the queue then, and under the lock      *)
(* starts a worker that writes <key>.raw.partial through an exclusive      *)
(* handle and commits it by a rename.  A flight is named by the call that  *)
(* began it.                                                               *)
(*                                                                         *)
(* Every await of the page and every storage call of the worker is a step  *)
(* of its own.  A removal the worker does not await lands at any later     *)
(* moment, also after the worker's end; one it does await has landed when  *)
(* the worker is terminated, or never does.  The handle of a terminated    *)
(* worker closes at any later moment.                                      *)
(***************************************************************************)
EXTENDS Integers, Sequences, FiniteSets

CONSTANTS
  Tabs, NoTab, \* pages of this site
  FirstTab,    \* where the first call is made (the tabs are alike)
  LeftBehind,  \* what an earlier visit may have left as the region
  MaxCalls,    \* bound: calls of prefetchRaw, in any tab
  MaxEvicted   \* bound: removals of the region from outside

ASSUME RawCacheAssumption == FirstTab \in Tabs /\ NoTab \notin Tabs /\ LeftBehind \subseteq {"absent", "stale"} /\ MaxCalls \in Nat /\ MaxEvicted \in Nat

Calls == 1..MaxCalls   \* in the order they are made
None == 0              \* no flight, no holder

VARIABLES
  open,      \* the tabs that are open
  call,      \* [Calls -> its state]
  current,   \* the flights map of every tab
  flight,    \* [Calls -> the flight this call began]
  holder,    \* the flight that holds the Web Lock
  queue,     \* the flights that wait for it
  worker,    \* [Calls -> the step of the flight's worker]
  mail,      \* [Calls -> the worker's last message, on its way to the page]
  raw,       \* <key>.raw: "absent", "stale" (another size), "whole" or "torn"
  partial,   \* <key>.raw.partial: "absent", "part" or "whole"
  handle,    \* the worker that holds the partial's sync access handle
  removals,  \* removals of the partial that were not awaited and have not landed
  kept,      \* history: the last clean-up found the partial held, and left it
  evicted    \* removals of the region from outside

pages == <<open, call, current, flight>>
lock == <<holder, queue>>
files == <<raw, partial, handle, removals, kept>>
vars == <<pages, lock, worker, mail, files, evicted>>

(* What a caller is told: the region is complete (cached, done), another    *)
(* writer holds it (busy), or neither (silent, aborted, error).             *)
Answers == {"whole", "busy", "failed"}

Init ==
  /\ open = Tabs
  /\ call = [c \in Calls |-> [pc |-> "idle", tab |-> NoTab, wait |-> FALSE, flight |-> None,
                              timed |-> FALSE, answer |-> "none"]]
  /\ current = [t \in Tabs |-> None]
  /\ flight = [c \in Calls |-> [tab |-> NoTab, pc |-> "none", callers |-> {}, waiting |-> FALSE, result |-> "none"]]
  /\ holder = None /\ queue = <<>>
  /\ worker = [c \in Calls |-> "none"]
  /\ mail = [c \in Calls |-> "none"]
  /\ raw \in LeftBehind
  /\ partial = "absent"
  /\ handle = None /\ removals = 0 /\ kept = FALSE /\ evicted = 0

-----------------------------------------------------------------------------
(* Answering.                                                              *)

Answered(cs, r) ==
  [c \in Calls |-> IF c \in cs THEN [call[c] EXCEPT !.pc = "answered", !.tab = NoTab, !.timed = FALSE, !.wait = FALSE,
                                                !.flight = None, !.answer = r]
                   ELSE call[c]]
Over == [tab |-> NoTab, pc |-> "ended", callers |-> {}, waiting |-> FALSE, result |-> "none"]
Closed(f) == [t \in Tabs |-> IF current[t] = f THEN None ELSE current[t]]
Head0 == IF queue = <<>> THEN None ELSE Head(queue)
Without(f) == SelectSeq(queue, LAMBDA g : g # f)

(* The worker of f is terminated; a handle it had open is still held.      *)
Terminate(f) ==
  /\ worker' = [worker EXCEPT ![f] = "none"]
  /\ mail' = [mail EXCEPT ![f] = "none"]

-----------------------------------------------------------------------------
(* A call.                                                                 *)

Request(c) ==
  /\ call[c].pc = "idle" /\ \A d \in Calls : d < c => call[d].pc # "idle"
  /\ \E t \in IF c = 1 THEN open \cap {FirstTab} ELSE open :
       call' = [call EXCEPT ![c].pc = "probing", ![c].tab = t]
  /\ UNCHANGED <<open, current, flight, lock, worker, mail, files, evicted>>

Cached(c) ==
  /\ call[c].pc = "probing" /\ raw = "whole"
  /\ call' = Answered({c}, "whole")
  /\ UNCHANGED <<open, current, flight, lock, worker, mail, files, evicted>>

(* The region is not cached: the call joins its page's flight or begins    *)
(* one; behind a waiting flight a caller that does not wait is answered.   *)
(* `wait` is its onBusy, as long as the flight may still meet a busy lock. *)
Join(c, wait) ==
  LET f == current[call[c].tab]
      queued == f # None /\ flight[f].waiting
      g == IF f = None THEN c ELSE f
  IN /\ call[c].pc = "probing" /\ raw # "whole"
     /\ IF queued /\ ~wait
        THEN call' = Answered({c}, "busy") /\ UNCHANGED <<current, flight>>
        ELSE /\ call' = [call EXCEPT ![c].pc = "in", ![c].flight = g, ![c].timed = queued,
                                     ![c].wait = wait /\ (f = None \/ flight[f].pc \in {"asking", "queued"})]
             /\ current' = [current EXCEPT ![call[c].tab] = g]
             /\ flight' = [flight EXCEPT ![g].callers = @ \cup {c},
                                         ![g].tab = call[c].tab,
                                         ![g].pc = IF f = None THEN "asking" ELSE @]
     /\ UNCHANGED <<open, lock, worker, mail, files, evicted>>

(* giveUp: the flight closes, its worker is terminated, the cleanup begins. *)
GivesUp(f, why, callers) ==
  /\ current' = Closed(f)
  /\ flight' = [flight EXCEPT ![f].pc = "clearing", ![f].result = why, ![f].callers = callers]
  /\ Terminate(f)
  /\ UNCHANGED lock

(* The last caller is gone (abortAll): before the lock the flight closes,  *)
(* leaving the queue if it waits there; with a worker it gives up.         *)
Abandoned(f) ==
  IF flight[f].pc = "running" THEN GivesUp(f, "failed", {})
  ELSE /\ IF flight[f].pc \in {"clearing", "leaving"} THEN UNCHANGED current
          ELSE current' = Closed(f)
       /\ flight' = [flight EXCEPT ![f] = IF @.pc = "queued" THEN Over ELSE [@ EXCEPT !.callers = {}]]
       /\ queue' = Without(f)
       /\ UNCHANGED <<holder, worker, mail>>

(* A caller leaves: its signal aborts, or its wait runs out.               *)
Detach(c, r) ==
  LET f == call[c].flight IN
  /\ call[c].pc = "in"
  /\ call' = Answered({c}, r)
  /\ IF flight[f].callers = {c} THEN Abandoned(f)
     ELSE /\ flight' = [flight EXCEPT ![f].callers = @ \ {c}]
          /\ UNCHANGED <<current, lock, worker, mail>>
  /\ UNCHANGED <<open, files, evicted>>

Abort(c) == Detach(c, "failed")
WaitRunsOut(c) == call[c].timed /\ Detach(c, "busy")

-----------------------------------------------------------------------------
(* A flight.                                                               *)

(* The lock is granted: no caller waits for another tab any more.          *)
Granted(f) ==
  /\ holder' = f
  /\ flight' = [flight EXCEPT ![f].pc = "probing", ![f].waiting = FALSE]
  /\ call' = [c \in Calls |-> IF c \in flight[f].callers THEN [call[c] EXCEPT !.timed = FALSE, !.wait = FALSE] ELSE call[c]]

(* Mutant: another tab's writer is not waited for. *)
AskUnlocked(f) ==
  /\ flight[f].pc = "asking"
  /\ Granted(f)
  /\ UNCHANGED <<open, current, queue, worker, mail, files, evicted>>

AskGranted(f) ==
  /\ flight[f].pc = "asking" /\ holder = None /\ queue = <<>>
  /\ Granted(f)
  /\ UNCHANGED <<open, current, queue, worker, mail, files, evicted>>

(* It is not available: the callers that do not wait are answered, the     *)
(* others queue for it.                                                    *)
AskBusy(f) ==
  LET stay == {c \in flight[f].callers : call[c].wait}
      out == flight[f].callers \ stay
  IN /\ flight[f].pc = "asking" /\ (holder # None \/ queue # <<>>)
     /\ call' = [c \in Calls |-> IF c \in stay THEN [call[c] EXCEPT !.timed = TRUE] ELSE Answered(out, "busy")[c]]
     /\ IF stay = {}
        THEN /\ current' = Closed(f)
             /\ flight' = [flight EXCEPT ![f] = Over]
             /\ UNCHANGED queue
        ELSE /\ flight' = [flight EXCEPT ![f].callers = stay, ![f].pc = "queued", ![f].waiting = TRUE]
             /\ queue' = Append(queue, f)
             /\ UNCHANGED current
     /\ UNCHANGED <<open, holder, worker, mail, files, evicted>>

QueueGranted(f) ==
  /\ flight[f].pc = "queued" /\ holder = None /\ Head0 = f
  /\ Granted(f)
  /\ queue' = Tail(queue)
  /\ UNCHANGED <<open, current, worker, mail, files, evicted>>

(* The write promise resolves: the lock is free, the callers are answered  *)
(* a task later.                                                           *)
Leaves(f, r) ==
  /\ flight' = [flight EXCEPT ![f].pc = "leaving", ![f].result = r]
  /\ holder' = None

Probe(f) ==
  /\ flight[f].pc = "probing"
  /\ IF raw = "whole" \/ flight[f].callers = {}
     THEN Leaves(f, IF raw = "whole" THEN "whole" ELSE "failed") /\ UNCHANGED worker
     ELSE /\ flight' = [flight EXCEPT ![f].pc = "running"]
          /\ worker' = [worker EXCEPT ![f] = "probing"]
          /\ UNCHANGED holder
  /\ UNCHANGED <<open, call, current, queue, mail, files, evicted>>

Hears(f) ==
  /\ flight[f].pc = "running" /\ mail[f] # "none"
  /\ Leaves(f, mail[f])
  /\ Terminate(f)
  /\ UNCHANGED <<open, call, current, queue, files, evicted>>

(* No message for silenceMs; the last one may be on its way.               *)
(* Mutant: the watch starts with the first message. *)
SilenceHeard(f) ==
  /\ flight[f].pc = "running" /\ mail[f] # "none"
  /\ GivesUp(f, "failed", flight[f].callers)
  /\ UNCHANGED <<open, call, files, evicted>>

Silence(f) ==
  /\ flight[f].pc = "running"
  /\ GivesUp(f, "failed", flight[f].callers)
  /\ UNCHANGED <<open, call, files, evicted>>

(* The partial goes and the region is probed again, still under the lock:  *)
(* a commit may have beaten the termination.  A partial still held stays.  *)
Clears(f) ==
  /\ flight[f].pc = "clearing"
  /\ partial' = IF handle = None THEN "absent" ELSE partial
  /\ Leaves(f, IF raw = "whole" THEN "whole" ELSE flight[f].result)
  /\ kept' = (handle # None)
  /\ UNCHANGED <<open, call, current, queue, worker, mail, raw, handle, removals, evicted>>

Settles(f) ==
  /\ flight[f].pc = "leaving"
  /\ current' = Closed(f)
  /\ call' = Answered(flight[f].callers, flight[f].result)
  /\ flight' = [flight EXCEPT ![f] = Over]
  /\ UNCHANGED <<open, lock, worker, mail, files, evicted>>

(* A tab closes with everything it runs (the last one would leave nobody   *)
(* to observe).                                                            *)
CloseTab(t) ==
  LET mine == {f \in Calls : flight[f].tab = t} IN
  /\ {t} \subseteq open /\ open # {t} /\ open' = open \ {t}
  /\ call' = [c \in Calls |-> IF call[c].tab = t THEN Answered({c}, "failed")[c] ELSE call[c]]
  /\ current' = [current EXCEPT ![t] = None]
  /\ flight' = [f \in Calls |-> IF f \in mine THEN Over ELSE flight[f]]
  /\ holder' = IF holder \in mine THEN None ELSE holder
  /\ queue' = SelectSeq(queue, LAMBDA f : f \notin mine)
  /\ worker' = [f \in Calls |-> IF f \in mine THEN "none" ELSE worker[f]]
  /\ mail' = [f \in Calls |-> IF f \in mine THEN "none" ELSE mail[f]]
  /\ UNCHANGED <<files, evicted>>

-----------------------------------------------------------------------------
(* The prefetch worker.                                                    *)

Tells(f, m) == worker' = [worker EXCEPT ![f] = "told"] /\ mail' = [mail EXCEPT ![f] = m]
Goes(f, step) == worker' = [worker EXCEPT ![f] = step] /\ UNCHANGED mail

(* rawPrefetch: a whole region is the answer, one of another size goes.    *)
WorkerProbes(f) ==
  /\ worker[f] = "probing"
  /\ IF raw = "whole" THEN Tells(f, "whole") /\ UNCHANGED raw
     ELSE Goes(f, "clearing") /\ raw' = "absent"
  /\ UNCHANGED <<pages, lock, partial, handle, removals, kept, evicted>>

(* The partial of an earlier writer goes and a new one is created; a file  *)
(* whose handle is open stays.                                             *)
WorkerCreates(f) ==
  /\ worker[f] = "clearing"
  /\ partial' = IF handle = None THEN "part" ELSE partial
  /\ kept' = (kept /\ handle # None)
  /\ Goes(f, "created")
  /\ UNCHANGED <<pages, lock, raw, handle, removals, evicted>>

WorkerOpens(f) ==
  /\ worker[f] = "created"
  /\ IF handle # None \/ partial = "absent" THEN Tells(f, "busy") /\ UNCHANGED handle
     ELSE Goes(f, "writing") /\ handle' = f
  /\ UNCHANGED <<pages, lock, raw, partial, removals, kept, evicted>>

(* The body arrives whole, is inflated and has the declared size; flush and *)
(* close.                                                                   *)
WorkerWrites(f) ==
  /\ worker[f] = "writing"
  /\ partial' = "whole" /\ handle' = None
  /\ Goes(f, "closed")
  /\ UNCHANGED <<pages, lock, raw, removals, kept, evicted>>

(* The catch: the handle closes, the partial's removal is not awaited.     *)
WorkerFails(f) ==
  /\ handle' = IF handle = f THEN None ELSE handle
  /\ removals' = removals + 1
  /\ Tells(f, "failed")
  /\ UNCHANGED <<pages, lock, partial, kept, evicted>>

(* An HTTP error, HTML, a short or corrupt body, a full disk.              *)
(* Mutant: the size is not checked before the commit. *)
WorkerErrsUnseen(f) ==
  /\ worker[f] = "writing"
  /\ handle' = None /\ Goes(f, "closed")
  /\ UNCHANGED <<pages, lock, raw, partial, removals, kept, evicted>>

WorkerErrs(f) == worker[f] = "writing" /\ WorkerFails(f) /\ UNCHANGED raw

(* An old region goes, then the partial takes its name.                    *)
WorkerMoves(f) ==
  /\ worker[f] = "closed"
  /\ IF partial = "absent" \/ handle # None THEN WorkerFails(f) /\ raw' = "absent"
     ELSE /\ raw' = IF partial = "whole" THEN "whole" ELSE "torn"
          /\ partial' = "absent"
          /\ Tells(f, "whole")
          /\ UNCHANGED <<pages, lock, handle, removals, kept, evicted>>

RemovalLands ==
  /\ removals > 0
  /\ removals' = removals - 1
  /\ partial' = IF handle = None THEN "absent" ELSE partial
  /\ UNCHANGED <<pages, lock, worker, mail, raw, handle, kept, evicted>>

(* The handle of a worker that was terminated, or whose tab closed.        *)
HandleCloses ==
  /\ handle # None /\ worker[handle] = "none"
  /\ handle' = None
  /\ UNCHANGED <<pages, lock, worker, mail, raw, partial, removals, kept, evicted>>

(* The region goes from outside: the embedder's removeRawRegion, the Lean  *)
(* worker's discard of a region of another size, the browser.              *)
Evict ==
  /\ evicted < MaxEvicted /\ raw = "whole"
  /\ evicted' = evicted + 1
  /\ raw' = "absent"
  /\ partial' = IF handle = None THEN "absent" ELSE partial
  /\ UNCHANGED <<pages, lock, worker, mail, handle, removals, kept>>

-----------------------------------------------------------------------------
CallStep(c) == Cached(c) \/ \E wait \in BOOLEAN : Join(c, wait)
FlightStep(f) ==
  AskGranted(f) \/ AskBusy(f) \/ QueueGranted(f) \/ Probe(f) \/ Hears(f) \/ Clears(f) \/ Settles(f)
WorkerStep(f) ==
  \/ WorkerProbes(f) \/ WorkerCreates(f) \/ WorkerOpens(f) \/ WorkerWrites(f)
  \/ WorkerErrs(f) \/ WorkerMoves(f)

Next ==
  \/ \E c \in Calls :
       \/ Request(c) \/ Abort(c) \/ WaitRunsOut(c) \/ Silence(c)
       \/ CallStep(c) \/ FlightStep(c) \/ WorkerStep(c)
  \/ \E t \in Tabs : CloseTab(t)
  \/ RemovalLands \/ HandleCloses \/ Evict

Spec == Init /\ [][Next]_vars

(* The browser goes on with some page's task or timer while there is one   *)
(* (the number of calls is bounded); a worker may hang for ever.           *)
FairSpec == Spec /\ WF_vars(\E c \in Calls : CallStep(c) \/ FlightStep(c) \/ Silence(c))

-----------------------------------------------------------------------------
Working(f) == worker[f] \notin {"none", "told"}

CallStates == [pc : {"idle", "probing", "in", "answered"}, tab : Tabs \cup {NoTab}, wait : BOOLEAN,
               flight : Calls \cup {None}, timed : BOOLEAN, answer : Answers \cup {"none"}]
FlightStates == [tab : Tabs \cup {NoTab}, pc : {"none", "asking", "queued", "probing", "running", "clearing", "leaving", "ended"},
                 callers : SUBSET Calls, waiting : BOOLEAN, result : Answers \cup {"none"}]

TypeOK ==
  /\ open \subseteq Tabs
  /\ call \in [Calls -> CallStates] /\ current \in [Tabs -> Calls \cup {None}] /\ flight \in [Calls -> FlightStates]
  /\ holder \in Calls \cup {None} /\ queue \in Seq(Calls)
  /\ worker \in [Calls -> {"none", "probing", "clearing", "created", "writing", "closed", "told"}]
  /\ mail \in [Calls -> Answers \cup {"none"}]
  /\ raw \in {"absent", "stale", "whole", "torn"} /\ partial \in {"absent", "part", "whole"}
  /\ handle \in Calls \cup {None} /\ removals \in Nat /\ kept \in BOOLEAN /\ evicted \in 0..MaxEvicted

(* At most one worker of all tabs is at work, and its flight holds the     *)
(* lock and has callers: when the last one aborts the worker is            *)
(* terminated, also when that happens while the lock's probe is under way. *)
OneWriter == \A f \in Calls : Working(f) => (holder = f /\ flight[f].callers # {})

(* A region that any caller was told is complete is complete and stays so, *)
(* unless it is removed from outside; no commit ever publishes a part; and *)
(* no download leaves its partial behind, whatever it ended on, unless its *)
(* tab was closed or the clean-up found the file held by the worker just   *)
(* terminated (or by one before it).                                       *)
CacheIsSound ==
  /\ raw # "torn"
  /\ (evicted = 0 /\ \E c \in Calls : call[c].answer = "whole") => raw = "whole"
  /\ (partial # "absent" /\ open = Tabs /\ \A f \in Calls : flight[f].pc \in {"none", "ended"})
       => removals > 0 \/ kept

(* Every call is answered, or its tab closes, though the worker hangs and  *)
(* other tabs keep the lock as long as theirs does.                        *)
EveryCallIsAnswered == []<>(\A c \in Calls : call[c].pc \in {"idle", "answered"})
=============================================================================
