--------------------------- MODULE RawCacheProofs ---------------------------
(* Proofs about the raw snapshot cache, for any number of tabs and calls.   *)
(* The queue's order plays no part in them: who holds the lock does.        *)
EXTENDS RawCache, TLAPS

Shapes ==
  /\ open \subseteq Tabs
  /\ call \in [Calls -> CallStates] /\ current \in [Tabs -> Calls \cup {None}] /\ flight \in [Calls -> FlightStates]
  /\ holder \in Calls \cup {None}
  /\ worker \in [Calls -> {"none", "probing", "clearing", "created", "writing", "closed", "told"}]
  /\ mail \in [Calls -> Answers \cup {"none"}]
  /\ raw \in {"absent", "stale", "whole", "torn"} /\ partial \in {"absent", "part", "whole"}
  /\ handle \in Calls \cup {None} /\ removals \in Nat /\ kept \in BOOLEAN /\ evicted \in Nat

(* A flight holds the lock from its grant to the end of its cleanup, and    *)
(* only then has a worker, which has callers; a handle is a worker's that   *)
(* writes, or of one terminated whose clean-up is to come or found it held; *)
(* and a call that has not joined names no flight yet.                      *)
LockHeld == \A f \in Calls : flight[f].pc \in {"probing", "running", "clearing"} <=> holder = f
WorkerHeld ==
  \A f \in Calls : /\ worker[f] # "none" => flight[f].pc = "running"
                   /\ flight[f].pc = "running" => flight[f].callers # {}
                   /\ mail[f] # "none" => worker[f] = "told"
Lingers(f) ==
  /\ worker[f] = "none" /\ flight[f].pc \in {"clearing", "leaving", "ended"}
  /\ flight[f].pc = "clearing" \/ kept \/ open # Tabs
HandleHeld == handle # None => worker[handle] = "writing" \/ Lingers(handle)
FlightsAreFresh ==
  /\ \A c \in Calls : call[c].pc \in {"idle", "probing"} => flight[c].pc = "none" /\ flight[c].tab = NoTab
  /\ \A c \in Calls : /\ call[c].pc = "probing" => call[c].tab \in Tabs
                      /\ call[c].pc = "in" => call[c].flight # None
  /\ \A t \in Tabs : current[t] # None => flight[current[t]].pc # "none"
HasResult == \A f \in Calls : flight[f].pc \in {"clearing", "leaving"} => flight[f].result # "none"
Locks == LockHeld /\ WorkerHeld /\ HandleHeld /\ FlightsAreFresh /\ HasResult

(* Past its probe a worker works on an absent region, so that no region     *)
(* told of is lost; and what is left of a partial has somebody to clear it. *)
NoneTorn == raw # "torn" /\ \A f \in Calls : worker[f] = "closed" => partial # "part"
WorksOnAbsent == \A f \in Calls : worker[f] \in {"clearing", "created", "writing", "closed"} => raw = "absent"
ToldIsThere ==
  evicted = 0 => \A c \in Calls : (mail[c] = "whole" \/ flight[c].result = "whole" \/ call[c].answer = "whole") => raw = "whole"
PartialIsCleared ==
  partial # "absent" /\ open = Tabs =>
    removals > 0 \/ kept \/ \E f \in Calls : worker[f] \in {"created", "writing", "closed"} \/ flight[f].pc = "clearing"
Contents == NoneTorn /\ WorksOnAbsent /\ ToldIsThere /\ PartialIsCleared

(* The inductive invariant.                                                *)
IInv == Shapes /\ Locks /\ Contents

(* Answering changes the answered calls only.                              *)
LEMMA AnsweredCalls ==
  ASSUME call \in [Calls -> CallStates], NEW cs, NEW r \in Answers
  PROVE  /\ Answered(cs, r) \in [Calls -> CallStates]
         /\ \A c \in Calls : IF c \in cs THEN Answered(cs, r)[c].pc = "answered" /\ Answered(cs, r)[c].answer = r
                             ELSE Answered(cs, r)[c] = call[c]
<1>1. \A c \in Calls : [call[c] EXCEPT !.pc = "answered", !.tab = NoTab, !.timed = FALSE, !.wait = FALSE, !.flight = None, !.answer = r] \in CallStates
  BY DEF CallStates
<1>2. \A c \in Calls : LET new == [call[c] EXCEPT !.pc = "answered", !.tab = NoTab, !.timed = FALSE, !.wait = FALSE, !.flight = None, !.answer = r]
                         IN  new.pc = "answered" /\ new.answer = r
  BY DEF CallStates
<1> DEFINE new(c) == [call[c] EXCEPT !.pc = "answered", !.tab = NoTab, !.timed = FALSE, !.wait = FALSE, !.flight = None, !.answer = r]
<1>3. \A c \in Calls : new(c) \in CallStates /\ new(c).pc = "answered" /\ new(c).answer = r
  BY <1>1, <1>2
<1>4. Answered(cs, r) = [c \in Calls |-> IF c \in cs THEN new(c) ELSE call[c]]
  BY DEF Answered
<1> HIDE DEF new
<1> QED BY <1>3, <1>4

(* With no new word of a whole region, the told one is there still.        *)
LEMMA ToldStays ==
  ASSUME ToldIsThere, raw' = raw, evicted' = evicted,
         \A d \in Calls : mail'[d] = "whole" => mail[d] = "whole",
         \A d \in Calls : flight'[d].result = "whole" => flight[d].result = "whole",
         \A d \in Calls : call'[d].answer = "whole" => call[d].answer = "whole"
  PROVE  ToldIsThere'
BY DEF ToldIsThere

(* A flight that closes leaves its tab's entry.                            *)
LEMMA ClosedTabs ==
  ASSUME current \in [Tabs -> Calls \cup {None}], NEW f
  PROVE  /\ Closed(f) \in [Tabs -> Calls \cup {None}]
         /\ \A t \in Tabs : Closed(f)[t] = None \/ (Closed(f)[t] = current[t] /\ current[t] # f)
BY DEF Closed, None

(* What is over is no call and no running flight.                           *)
LEMMA NotCalls == None \notin Calls /\ Over \in FlightStates /\ Over.pc = "ended" /\ Over.result = "none"
BY DEF None, Calls, Over, FlightStates

(* At the start nothing runs.                                              *)
LEMMA InitIInv == Init => IInv
<1> SUFFICES ASSUME Init PROVE IInv
  OBVIOUS
<1>1. Shapes
  BY RawCacheAssumption DEF Init, Shapes, CallStates, FlightStates, None
<1>2. Locks
  BY NotCalls DEF Init, Locks, LockHeld, WorkerHeld, HandleHeld, Lingers, FlightsAreFresh, HasResult
<1>3. Contents
  BY RawCacheAssumption DEF Init, Contents, NoneTorn, WorksOnAbsent, ToldIsThere, PartialIsCleared
<1> QED BY <1>1, <1>2, <1>3 DEF IInv

(* A call is made.                                                         *)
LEMMA RequestIInv == ASSUME IInv, NEW c \in Calls, Request(c) PROVE IInv'
<1>1. call[c].pc = "idle" /\ UNCHANGED <<open, current, flight, holder, worker, mail, raw, partial, handle, removals, kept, evicted>>
  BY DEF Request, lock, files
<1>2. PICK t \in open : call' = [call EXCEPT ![c].pc = "probing", ![c].tab = t]
  BY DEF Request
<1> DEFINE new == [call[c] EXCEPT !.pc = "probing", !.tab = t]
<1>3. call[c] \in CallStates /\ t \in Tabs
  BY DEF IInv, Shapes
<1>4. new \in CallStates /\ new.pc = "probing" /\ new.answer = call[c].answer /\ new.tab = t
  BY <1>3 DEF CallStates
<1>5. call' = [call EXCEPT ![c] = new]
  BY <1>2 DEF IInv, Shapes
<1>6. /\ call' \in [Calls -> CallStates] /\ call'[c].pc = "probing" /\ call'[c].answer = call[c].answer /\ call'[c].tab \in Tabs
      /\ \A d \in Calls : d # c => call'[d] = call[d]
  <2> HIDE DEF new
  <2> QED BY <1>3, <1>4, <1>5 DEF IInv, Shapes
<1>7. Shapes'
  BY <1>1, <1>6 DEF IInv, Shapes
<1>8. Locks'
  BY <1>1, <1>6 DEF IInv, Locks, LockHeld, WorkerHeld, HandleHeld, Lingers, FlightsAreFresh, HasResult
<1>9. Contents'
  BY <1>1, <1>6 DEF IInv, Contents, NoneTorn, WorksOnAbsent, ToldIsThere, PartialIsCleared
<1> QED BY <1>7, <1>8, <1>9 DEF IInv

(* A call is answered from the cache.                                      *)
LEMMA CachedIInv == ASSUME IInv, NEW c \in Calls, Cached(c) PROVE IInv'
<1>1. raw = "whole" /\ UNCHANGED <<open, current, flight, holder, worker, mail, raw, partial, handle, removals, kept, evicted>>
  BY DEF Cached, lock, files
<1>2. call' \in [Calls -> CallStates] /\ \A d \in Calls : call'[d] = call[d] \/ call'[d].pc = "answered"
  BY AnsweredCalls DEF Cached, IInv, Shapes, Answers
<1>7. Shapes'
  BY <1>1, <1>2 DEF IInv, Shapes
<1>8. Locks'
  BY <1>1, <1>2 DEF IInv, Locks, LockHeld, WorkerHeld, HandleHeld, Lingers, FlightsAreFresh, HasResult
<1>9. Contents'
  BY <1>1, <1>2 DEF IInv, Contents, NoneTorn, WorksOnAbsent, ToldIsThere, PartialIsCleared
<1> QED BY <1>7, <1>8, <1>9 DEF IInv

(* The lock is free: the flight has it.                                    *)
LEMMA AskGrantedIInv == ASSUME IInv, NEW f \in Calls, AskGranted(f) PROVE IInv'
<1> DEFINE new == [flight[f] EXCEPT !.pc = "probing", !.waiting = FALSE]
<1>1. flight[f] \in FlightStates /\ \A c \in Calls : call[c] \in CallStates
  BY DEF IInv, Shapes
<1>2. new \in FlightStates
  BY <1>1 DEF IInv, Shapes, FlightStates, Answers, AskGranted, Granted
<1>3. flight' = [flight EXCEPT ![f] = new]
  BY DEF IInv, Shapes, AskGranted, Granted
<1>4. \A c \in Calls : /\ [call[c] EXCEPT !.timed = FALSE, !.wait = FALSE] \in CallStates
                       /\ [call[c] EXCEPT !.timed = FALSE, !.wait = FALSE].pc = call[c].pc /\ [call[c] EXCEPT !.timed = FALSE, !.wait = FALSE].tab = call[c].tab /\ [call[c] EXCEPT !.timed = FALSE, !.wait = FALSE].flight = call[c].flight /\ [call[c] EXCEPT !.timed = FALSE, !.wait = FALSE].answer = call[c].answer
  BY <1>1 DEF CallStates
<1>5. call' \in [Calls -> CallStates] /\ \A c \in Calls : call'[c].pc = call[c].pc /\ call'[c].tab = call[c].tab /\ call'[c].flight = call[c].flight /\ call'[c].answer = call[c].answer
  BY <1>1, <1>4 DEF AskGranted, Granted
<1>6. /\ flight' \in [Calls -> FlightStates] /\ flight'[f].pc = "probing" /\ flight'[f].result = flight[f].result /\ flight'[f].tab = flight[f].tab
      /\ \A g \in Calls : g # f => flight'[g] = flight[g]
  <2>1. new.pc = "probing" /\ new.result = flight[f].result /\ new.tab = flight[f].tab
    BY <1>1 DEF FlightStates
  <2> HIDE DEF new
  <2> QED BY <1>2, <1>3, <2>1 DEF IInv, Shapes
<1>61. /\ flight[f].pc = "asking" /\ holder = None /\ holder' = f
       /\ UNCHANGED <<open, current, worker, mail, raw, partial, handle, removals, kept, evicted>>
  BY DEF AskGranted, Granted, files
<1>7. Shapes'
  BY <1>5, <1>6, <1>61 DEF IInv, Shapes
<1>8. Locks'
  <2>1. LockHeld' /\ WorkerHeld' /\ HasResult'
    BY <1>6, <1>61, NotCalls DEF IInv, Locks, LockHeld, WorkerHeld, HasResult
  <2>2. HandleHeld'
    BY <1>6, <1>61 DEF IInv, Shapes, Locks, WorkerHeld, HandleHeld, Lingers
  <2>3. FlightsAreFresh'
    <3>1. \A c \in Calls : flight'[c].pc = "none" <=> flight[c].pc = "none"
      BY <1>6, <1>61
    <3>2. \A c \in Calls : flight'[c].tab = flight[c].tab
      BY <1>6
    <3>3. \A t \in Tabs : current[t] # None => current[t] \in Calls
      BY DEF IInv, Shapes
    <3> QED BY <1>5, <1>61, <3>1, <3>2, <3>3 DEF IInv, Locks, FlightsAreFresh
  <2> QED BY <2>1, <2>2, <2>3 DEF Locks
<1>9. Contents'
  <2>1. NoneTorn' /\ WorksOnAbsent'
    BY <1>61 DEF IInv, Contents, NoneTorn, WorksOnAbsent
  <2>2. ToldIsThere'
    BY <1>5, <1>6, <1>61 DEF IInv, Contents, ToldIsThere
  <2>3. PartialIsCleared'
    BY <1>6, <1>61 DEF IInv, Contents, PartialIsCleared
  <2> QED BY <2>1, <2>2, <2>3 DEF Contents
<1> QED BY <1>7, <1>8, <1>9 DEF IInv

(* The flight's turn for the lock has come.                                *)
LEMMA QueueGrantedIInv == ASSUME IInv, NEW f \in Calls, QueueGranted(f) PROVE IInv'
<1> DEFINE new == [flight[f] EXCEPT !.pc = "probing", !.waiting = FALSE]
<1>1. flight[f] \in FlightStates /\ \A c \in Calls : call[c] \in CallStates
  BY DEF IInv, Shapes
<1>2. new \in FlightStates
  BY <1>1 DEF IInv, Shapes, FlightStates, Answers, QueueGranted, Granted
<1>3. flight' = [flight EXCEPT ![f] = new]
  BY DEF IInv, Shapes, QueueGranted, Granted
<1>4. \A c \in Calls : /\ [call[c] EXCEPT !.timed = FALSE, !.wait = FALSE] \in CallStates
                       /\ [call[c] EXCEPT !.timed = FALSE, !.wait = FALSE].pc = call[c].pc /\ [call[c] EXCEPT !.timed = FALSE, !.wait = FALSE].tab = call[c].tab /\ [call[c] EXCEPT !.timed = FALSE, !.wait = FALSE].flight = call[c].flight /\ [call[c] EXCEPT !.timed = FALSE, !.wait = FALSE].answer = call[c].answer
  BY <1>1 DEF CallStates
<1>5. call' \in [Calls -> CallStates] /\ \A c \in Calls : call'[c].pc = call[c].pc /\ call'[c].tab = call[c].tab /\ call'[c].flight = call[c].flight /\ call'[c].answer = call[c].answer
  BY <1>1, <1>4 DEF QueueGranted, Granted
<1>6. /\ flight' \in [Calls -> FlightStates] /\ flight'[f].pc = "probing" /\ flight'[f].result = flight[f].result /\ flight'[f].tab = flight[f].tab
      /\ \A g \in Calls : g # f => flight'[g] = flight[g]
  <2>1. new.pc = "probing" /\ new.result = flight[f].result /\ new.tab = flight[f].tab
    BY <1>1 DEF FlightStates
  <2> HIDE DEF new
  <2> QED BY <1>2, <1>3, <2>1 DEF IInv, Shapes
<1>61. /\ flight[f].pc = "queued" /\ holder = None /\ holder' = f
       /\ UNCHANGED <<open, current, worker, mail, raw, partial, handle, removals, kept, evicted>>
  BY DEF QueueGranted, Granted, files
<1>7. Shapes'
  BY <1>5, <1>6, <1>61 DEF IInv, Shapes
<1>8. Locks'
  <2>1. LockHeld' /\ WorkerHeld' /\ HasResult'
    BY <1>6, <1>61, NotCalls DEF IInv, Locks, LockHeld, WorkerHeld, HasResult
  <2>2. HandleHeld'
    BY <1>6, <1>61 DEF IInv, Shapes, Locks, WorkerHeld, HandleHeld, Lingers
  <2>3. FlightsAreFresh'
    <3>1. \A c \in Calls : flight'[c].pc = "none" <=> flight[c].pc = "none"
      BY <1>6, <1>61
    <3>2. \A c \in Calls : flight'[c].tab = flight[c].tab
      BY <1>6
    <3>3. \A t \in Tabs : current[t] # None => current[t] \in Calls
      BY DEF IInv, Shapes
    <3> QED BY <1>5, <1>61, <3>1, <3>2, <3>3 DEF IInv, Locks, FlightsAreFresh
  <2> QED BY <2>1, <2>2, <2>3 DEF Locks
<1>9. Contents'
  <2>1. NoneTorn' /\ WorksOnAbsent'
    BY <1>61 DEF IInv, Contents, NoneTorn, WorksOnAbsent
  <2>2. ToldIsThere'
    BY <1>5, <1>6, <1>61 DEF IInv, Contents, ToldIsThere
  <2>3. PartialIsCleared'
    BY <1>6, <1>61 DEF IInv, Contents, PartialIsCleared
  <2> QED BY <2>1, <2>2, <2>3 DEF Contents
<1> QED BY <1>7, <1>8, <1>9 DEF IInv

(* Under the lock the region is probed again.                              *)
LEMMA ProbeIInv == ASSUME IInv, NEW f \in Calls, Probe(f) PROVE IInv'
<1> DEFINE done == raw = "whole" \/ flight[f].callers = {}
           r == IF raw = "whole" THEN "whole" ELSE "failed"
           left == [flight[f] EXCEPT !.pc = "leaving", !.result = r]
           new == IF done THEN left ELSE [flight[f] EXCEPT !.pc = "running"]
<1>1. flight[f] \in FlightStates
  BY DEF IInv, Shapes
<1>2. new \in FlightStates
  BY <1>1 DEF FlightStates, Answers
<1>3. flight' = [flight EXCEPT ![f] = new]
  BY DEF IInv, Shapes, Probe, Leaves
<1>5. call' = call
  BY DEF Probe
<1>6. /\ flight' \in [Calls -> FlightStates] /\ flight'[f].callers = flight[f].callers /\ flight'[f].tab = flight[f].tab
      /\ done => flight'[f].pc = "leaving" /\ flight'[f].result # "none" /\ (flight'[f].result = "whole" => raw = "whole")
      /\ ~done => flight'[f].pc = "running" /\ flight'[f].result = flight[f].result
      /\ \A g \in Calls : g # f => flight'[g] = flight[g]
  <2>1. /\ new.callers = flight[f].callers /\ new.tab = flight[f].tab
        /\ done => new.pc = "leaving" /\ new.result # "none" /\ (new.result = "whole" => raw = "whole")
        /\ ~done => new.pc = "running" /\ new.result = flight[f].result
    BY <1>1 DEF FlightStates
  <2> HIDE DEF new
  <2> QED BY <1>2, <1>3, <2>1 DEF IInv, Shapes
<1>7. Shapes'
  BY <1>5, <1>6, NotCalls DEF IInv, Shapes, Answers, Probe, Leaves, lock, files
<1>8. Locks'
  BY <1>5, <1>6, NotCalls DEF IInv, Shapes, Locks, LockHeld, WorkerHeld, HandleHeld, Lingers, FlightsAreFresh, HasResult, Probe, Leaves, lock, files
<1>9. Contents'
  BY <1>5, <1>6, NotCalls DEF IInv, Shapes, Locks, LockHeld, WorkerHeld, HandleHeld, Lingers, FlightsAreFresh, HasResult, Contents, NoneTorn, WorksOnAbsent, ToldIsThere, PartialIsCleared, Probe, Leaves, lock, files
<1> QED BY <1>7, <1>8, <1>9 DEF IInv

(* The worker's last message ends the flight.                              *)
LEMMA HearsIInv == ASSUME IInv, NEW f \in Calls, Hears(f) PROVE IInv'
<1> DEFINE new == [flight[f] EXCEPT !.pc = "leaving", !.result = mail[f]]
<1>1. flight[f] \in FlightStates /\ \A c \in Calls : call[c] \in CallStates
  BY DEF IInv, Shapes
<1>2. new \in FlightStates
  BY <1>1 DEF IInv, Shapes, FlightStates, Answers, Hears, Leaves, Terminate
<1>3. flight' = [flight EXCEPT ![f] = new]
  BY DEF IInv, Shapes, Hears, Leaves, Terminate
<1>5. call' = call
  BY DEF Hears
<1>6. /\ flight' \in [Calls -> FlightStates] /\ flight'[f].callers = flight[f].callers /\ flight'[f].tab = flight[f].tab /\ flight'[f].pc = "leaving" /\ flight'[f].result = mail[f]
      /\ \A g \in Calls : g # f => flight'[g] = flight[g]
  <2>1. new.callers = flight[f].callers /\ new.tab = flight[f].tab /\ new.pc = "leaving" /\ new.result = mail[f]
    BY <1>1 DEF FlightStates
  <2> HIDE DEF new
  <2> QED BY <1>2, <1>3, <2>1 DEF IInv, Shapes
<1>7. Shapes'
  BY <1>5, <1>6, NotCalls, ClosedTabs DEF IInv, Shapes, Answers, Hears, Leaves, Terminate, lock, files
<1>8. Locks'
  <2>1. LockHeld' /\ WorkerHeld' /\ HandleHeld' /\ HasResult'
    BY <1>5, <1>6, NotCalls DEF IInv, Shapes, Locks, LockHeld, WorkerHeld, HandleHeld, Lingers, HasResult, Hears, Leaves, Terminate, lock, files
  <2>2. FlightsAreFresh'
    BY <1>5, <1>6, NotCalls, ClosedTabs DEF IInv, Shapes, Locks, WorkerHeld, FlightsAreFresh, Hears, Leaves, Terminate, lock, files
  <2> QED BY <2>1, <2>2 DEF Locks
<1>9. Contents'
  BY <1>5, <1>6, NotCalls, ClosedTabs DEF IInv, Shapes, Locks, LockHeld, WorkerHeld, HandleHeld, Lingers, FlightsAreFresh, HasResult, Contents, NoneTorn, WorksOnAbsent, ToldIsThere, PartialIsCleared, Hears, Leaves, Terminate, lock, files
<1> QED BY <1>7, <1>8, <1>9 DEF IInv

(* A silent worker is given up.                                            *)
LEMMA SilenceIInv == ASSUME IInv, NEW f \in Calls, Silence(f) PROVE IInv'
<1> DEFINE new == [flight[f] EXCEPT !.pc = "clearing", !.result = "failed", !.callers = flight[f].callers]
<1>1. flight[f] \in FlightStates /\ \A c \in Calls : call[c] \in CallStates
  BY DEF IInv, Shapes
<1>2. new \in FlightStates
  BY <1>1 DEF IInv, Shapes, FlightStates, Answers, Silence, GivesUp, Terminate
<1>3. flight' = [flight EXCEPT ![f] = new]
  BY DEF IInv, Shapes, Silence, GivesUp, Terminate
<1>5. call' = call
  BY DEF Silence
<1>6. /\ flight' \in [Calls -> FlightStates] /\ flight'[f].tab = flight[f].tab /\ flight'[f].pc = "clearing" /\ flight'[f].result = "failed"
      /\ \A g \in Calls : g # f => flight'[g] = flight[g]
  <2>1. new.tab = flight[f].tab /\ new.pc = "clearing" /\ new.result = "failed"
    BY <1>1 DEF FlightStates
  <2> HIDE DEF new
  <2> QED BY <1>2, <1>3, <2>1 DEF IInv, Shapes
<1>7. Shapes'
  BY <1>5, <1>6, NotCalls, ClosedTabs DEF IInv, Shapes, Answers, Silence, GivesUp, Terminate, lock, files
<1>8. Locks'
  <2>1. LockHeld' /\ WorkerHeld' /\ HandleHeld' /\ HasResult'
    BY <1>5, <1>6, NotCalls DEF IInv, Shapes, Locks, LockHeld, WorkerHeld, HandleHeld, Lingers, HasResult, Silence, GivesUp, Terminate, lock, files
  <2>2. FlightsAreFresh'
    BY <1>5, <1>6, NotCalls, ClosedTabs DEF IInv, Shapes, Locks, WorkerHeld, FlightsAreFresh, Silence, GivesUp, Terminate, lock, files
  <2> QED BY <2>1, <2>2 DEF Locks
<1>9. Contents'
  BY <1>5, <1>6, NotCalls, ClosedTabs DEF IInv, Shapes, Locks, LockHeld, WorkerHeld, HandleHeld, Lingers, FlightsAreFresh, HasResult, Contents, NoneTorn, WorksOnAbsent, ToldIsThere, PartialIsCleared, Silence, GivesUp, Terminate, lock, files
<1> QED BY <1>7, <1>8, <1>9 DEF IInv

(* The partial goes, unless a commit came first.                           *)
LEMMA ClearsIInv == ASSUME IInv, NEW f \in Calls, Clears(f) PROVE IInv'
<1> DEFINE new == [flight[f] EXCEPT !.pc = "leaving", !.result = IF raw = "whole" THEN "whole" ELSE flight[f].result]
<1>1. flight[f] \in FlightStates /\ \A c \in Calls : call[c] \in CallStates
  BY DEF IInv, Shapes
<1>2. new \in FlightStates
  BY <1>1 DEF IInv, Shapes, FlightStates, Answers, Clears, Leaves
<1>3. flight' = [flight EXCEPT ![f] = new]
  BY DEF IInv, Shapes, Clears, Leaves
<1>5. call' = call
  BY DEF Clears
<1>6. /\ flight' \in [Calls -> FlightStates] /\ flight'[f].tab = flight[f].tab /\ flight'[f].pc = "leaving" /\ flight'[f].result = IF raw = "whole" THEN "whole" ELSE flight[f].result
      /\ \A g \in Calls : g # f => flight'[g] = flight[g]
  <2>1. new.tab = flight[f].tab /\ new.pc = "leaving" /\ new.result = IF raw = "whole" THEN "whole" ELSE flight[f].result
    BY <1>1 DEF FlightStates
  <2> HIDE DEF new
  <2> QED BY <1>2, <1>3, <2>1 DEF IInv, Shapes
<1>61. /\ flight[f].pc = "clearing" /\ holder' = None /\ kept' = (handle # None)
       /\ partial' = IF handle = None THEN "absent" ELSE partial
       /\ UNCHANGED <<open, call, current, worker, mail, raw, handle, removals, evicted>>
  BY DEF Clears, Leaves
<1>62. holder = f
  BY <1>61 DEF IInv, Locks, LockHeld
<1>7. Shapes'
  BY <1>6, <1>61, NotCalls DEF IInv, Shapes
<1>8. Locks'
  <2>1. LockHeld' /\ WorkerHeld' /\ HasResult'
    BY <1>6, <1>61, <1>62, NotCalls DEF IInv, Locks, LockHeld, WorkerHeld, HasResult
  <2>2. HandleHeld'
    BY <1>6, <1>61 DEF IInv, Shapes, Locks, WorkerHeld, HandleHeld, Lingers
  <2>3. FlightsAreFresh'
    BY <1>6, <1>61 DEF IInv, Shapes, Locks, FlightsAreFresh
  <2> QED BY <2>1, <2>2, <2>3 DEF Locks
<1>9. Contents'
  <2>1. NoneTorn' /\ WorksOnAbsent'
    BY <1>61 DEF IInv, Contents, NoneTorn, WorksOnAbsent
  <2>2. ToldIsThere'
    BY <1>6, <1>61 DEF IInv, Contents, ToldIsThere
  <2>3. PartialIsCleared'
    BY <1>61 DEF PartialIsCleared
  <2> QED BY <2>1, <2>2, <2>3 DEF Contents
<1> QED BY <1>7, <1>8, <1>9 DEF IInv

(* The callers are answered.                                               *)
LEMMA SettlesIInv == ASSUME IInv, NEW f \in Calls, Settles(f) PROVE IInv'
<1>1. /\ flight[f].pc = "leaving" /\ current' = Closed(f) /\ call' = Answered(flight[f].callers, flight[f].result)
      /\ flight' = [flight EXCEPT ![f] = Over] /\ UNCHANGED <<open, holder, worker, mail, raw, partial, handle, removals, kept, evicted>>
  BY DEF Settles, lock, files
<1>2. flight[f].result \in Answers
  BY <1>1 DEF IInv, Shapes, FlightStates, Locks, HasResult
<1>3. /\ call' \in [Calls -> CallStates]
      /\ \A c \in Calls : call'[c] = call[c] \/ (call'[c].pc = "answered" /\ call'[c].answer = flight[f].result)
  BY <1>1, <1>2, AnsweredCalls DEF IInv, Shapes
<1>4. current' \in [Tabs -> Calls \cup {None}] /\ \A t \in Tabs : current'[t] = None \/ current'[t] = current[t]
  BY <1>1, ClosedTabs DEF IInv, Shapes
<1>5. flight' \in [Calls -> FlightStates] /\ flight'[f].pc = "ended" /\ flight'[f].result = "none" /\ \A g \in Calls : g # f => flight'[g] = flight[g]
  BY <1>1, NotCalls DEF IInv, Shapes
<1>7. Shapes'
  BY <1>1, <1>3, <1>4, <1>5 DEF IInv, Shapes
<1>8. Locks'
  BY <1>1, <1>3, <1>4, <1>5, NotCalls DEF IInv, Shapes, Locks, LockHeld, WorkerHeld, HandleHeld, Lingers, FlightsAreFresh, HasResult
<1>9. Contents'
  BY <1>1, <1>3, <1>5 DEF IInv, Contents, NoneTorn, WorksOnAbsent, ToldIsThere, PartialIsCleared
<1> QED BY <1>7, <1>8, <1>9 DEF IInv

(* The lock is held: who does not wait is answered.                        *)
LEMMA AskBusyIInv == ASSUME IInv, NEW f \in Calls, AskBusy(f) PROVE IInv'
<1> DEFINE stay == {c \in flight[f].callers : call[c].wait}
           out == flight[f].callers \ stay
           new == [flight[f] EXCEPT !.callers = stay, !.pc = "queued", !.waiting = TRUE]
<1>1. flight[f].pc = "asking" /\ UNCHANGED <<open, holder, worker, mail, raw, partial, handle, removals, kept, evicted>>
  BY DEF AskBusy, files
<1>11. /\ call' = [c \in Calls |-> IF c \in stay THEN [call[c] EXCEPT !.timed = TRUE] ELSE Answered(out, "busy")[c]]
       /\ \/ current' = Closed(f) /\ flight' = [flight EXCEPT ![f] = Over]
          \/ current' = current /\ flight' = [flight EXCEPT ![f].callers = stay, ![f].pc = "queued", ![f].waiting = TRUE]
  BY DEF AskBusy, files
<1>2. flight[f] \in FlightStates /\ \A c \in Calls : call[c] \in CallStates
  BY DEF IInv, Shapes
<1>3. /\ call' \in [Calls -> CallStates]
      /\ \A c \in Calls : ((call'[c].pc = call[c].pc /\ call'[c].tab = call[c].tab /\ call'[c].flight = call[c].flight) \/ call'[c].pc = "answered") /\ (call'[c].answer = call[c].answer \/ call'[c].answer = "busy")
  <2>1. \A c \in Calls : /\ [call[c] EXCEPT !.timed = TRUE] \in CallStates
                         /\ [call[c] EXCEPT !.timed = TRUE].pc = call[c].pc /\ [call[c] EXCEPT !.timed = TRUE].tab = call[c].tab /\ [call[c] EXCEPT !.timed = TRUE].flight = call[c].flight /\ [call[c] EXCEPT !.timed = TRUE].answer = call[c].answer
    BY <1>2 DEF CallStates
  <2>2. /\ Answered(out, "busy") \in [Calls -> CallStates]
        /\ \A c \in Calls : Answered(out, "busy")[c] = call[c] \/ (Answered(out, "busy")[c].pc = "answered" /\ Answered(out, "busy")[c].answer = "busy")
    BY AnsweredCalls DEF IInv, Shapes, Answers
  <2> QED BY <1>11, <2>1, <2>2
<1>4. current' \in [Tabs -> Calls \cup {None}] /\ \A t \in Tabs : current'[t] = None \/ current'[t] = current[t]
  <2>1. current' = Closed(f) \/ current' = current
    BY <1>11, Zenon
  <2> QED BY <2>1, ClosedTabs DEF IInv, Shapes
<1>5. /\ flight' \in [Calls -> FlightStates] /\ flight'[f].pc \in {"queued", "ended"} /\ flight'[f].result \in {"none", flight[f].result}
      /\ \A g \in Calls : g # f => flight'[g] = flight[g]
  <2>1. new \in FlightStates /\ new.pc = "queued" /\ new.result = flight[f].result
    BY <1>2 DEF FlightStates
  <2>2. flight' = [flight EXCEPT ![f] = Over] \/ flight' = [flight EXCEPT ![f] = new]
    BY <1>11 DEF IInv, Shapes
  <2> HIDE DEF new
  <2> QED BY <2>1, <2>2, NotCalls DEF IInv, Shapes
<1>6. call[f].pc \notin {"idle", "probing"}
  BY <1>1 DEF IInv, Locks, FlightsAreFresh
<1>7. Shapes'
  BY <1>1, <1>3, <1>4, <1>5 DEF IInv, Shapes
<1>8. Locks'
  <2>1. LockHeld' /\ WorkerHeld' /\ HandleHeld' /\ HasResult'
    BY <1>1, <1>5, NotCalls DEF IInv, Shapes, Locks, LockHeld, WorkerHeld, HandleHeld, Lingers, FlightsAreFresh, HasResult
  <2>2. FlightsAreFresh'
    BY <1>1, <1>3, <1>4, <1>5, <1>6 DEF IInv, Shapes, Locks, FlightsAreFresh
  <2> QED BY <2>1, <2>2 DEF Locks
<1>9. Contents'
  <2>1. NoneTorn' /\ WorksOnAbsent'
    BY <1>1 DEF IInv, Contents, NoneTorn, WorksOnAbsent
  <2>2. ToldIsThere'
    BY <1>1, <1>3, <1>5 DEF IInv, Contents, ToldIsThere
  <2>3. PartialIsCleared'
    BY <1>1, <1>5 DEF IInv, Contents, PartialIsCleared
  <2> QED BY <2>1, <2>2, <2>3 DEF Contents
<1> QED BY <1>7, <1>8, <1>9 DEF IInv

(* A call joins its tab's flight or begins one, which is its first.        *)
LEMMA JoinIInv == ASSUME IInv, NEW c \in Calls, NEW wait \in BOOLEAN, Join(c, wait) PROVE IInv'
<1> DEFINE f == current[call[c].tab]
           early == wait /\ (f = None \/ flight[f].pc \in {"asking", "queued"})
           g == IF f = None THEN c ELSE f
           newCall == [call[c] EXCEPT !.pc = "in", !.flight = g, !.timed = (f # None /\ flight[f].waiting), !.wait = early]
           newFlight == [flight[g] EXCEPT !.callers = @ \cup {c}, !.tab = call[c].tab, !.pc = IF f = None THEN "asking" ELSE @]
<1>1. call[c].pc = "probing" /\ UNCHANGED <<open, holder, worker, mail, raw, partial, handle, removals, kept, evicted>>
  BY DEF Join, lock, files
<1>2. CASE call' = Answered({c}, "busy") /\ UNCHANGED <<current, flight>>
  <2>1. /\ call' \in [Calls -> CallStates]
        /\ \A d \in Calls : call'[d] = call[d] \/ (call'[d].pc = "answered" /\ call'[d].answer = "busy")
    BY <1>2, AnsweredCalls DEF IInv, Shapes, Answers
  <2>7. Shapes'
    BY <1>1, <1>2, <2>1 DEF IInv, Shapes
  <2>8. Locks'
    <3>1. LockHeld' /\ WorkerHeld' /\ HandleHeld' /\ HasResult'
      BY <1>1, <1>2 DEF IInv, Locks, LockHeld, WorkerHeld, HandleHeld, Lingers, FlightsAreFresh, HasResult
    <3>2. FlightsAreFresh'
      BY <1>2, <2>1 DEF IInv, Locks, FlightsAreFresh
    <3> QED BY <3>1, <3>2 DEF Locks
  <2>9. Contents'
    <3>1. NoneTorn' /\ WorksOnAbsent' /\ PartialIsCleared'
      BY <1>1, <1>2 DEF IInv, Contents, NoneTorn, WorksOnAbsent, PartialIsCleared
    <3>2. ToldIsThere'
      BY <1>1, <1>2, <2>1, ToldStays DEF IInv, Contents
    <3> QED BY <3>1, <3>2 DEF Contents
  <2> QED BY <2>7, <2>8, <2>9 DEF IInv
<1>3. CASE /\ call' = [call EXCEPT ![c].pc = "in", ![c].flight = g, ![c].timed = (f # None /\ flight[f].waiting), ![c].wait = early]
           /\ current' = [current EXCEPT ![call[c].tab] = g]
           /\ flight' = [flight EXCEPT ![g].callers = @ \cup {c}, ![g].tab = call[c].tab, ![g].pc = IF f = None THEN "asking" ELSE @]
  <2>1. call[c].tab \in Tabs
    BY <1>1 DEF IInv, Locks, FlightsAreFresh
  <2>2. f \in Calls \cup {None} /\ g \in Calls /\ call[c] \in CallStates /\ flight[g] \in FlightStates
    BY <2>1 DEF IInv, Shapes
  <2>3. /\ flight[c].pc = "none" /\ (f # None => f # c /\ flight[f].pc # "none")
    BY <1>1, <2>1 DEF IInv, Locks, FlightsAreFresh
  <2> HIDE DEF f
  <2>31. early \in BOOLEAN
    OBVIOUS
  <2> HIDE DEF early
  <2>4. newCall \in CallStates /\ newCall.pc = "in" /\ newCall.flight = g /\ newCall.answer = call[c].answer
    BY <2>2, <2>31 DEF CallStates, FlightStates
  <2>5. /\ newFlight \in FlightStates /\ newFlight.callers = flight[g].callers \cup {c} /\ newFlight.result = flight[g].result
        /\ newFlight.pc = IF f = None THEN "asking" ELSE flight[g].pc
    BY <2>1, <2>2 DEF FlightStates
  <2> HIDE DEF g
  <2>6. call' = [call EXCEPT ![c] = newCall] /\ flight' = [flight EXCEPT ![g] = newFlight]
    BY <1>3, <2>2 DEF IInv, Shapes
  <2>10. /\ call' \in [Calls -> CallStates] /\ call'[c].pc = "in" /\ call'[c].flight = g /\ call'[c].answer = call[c].answer
         /\ \A d \in Calls : d # c => call'[d] = call[d]
    <3> HIDE DEF newCall
    <3> QED BY <2>4, <2>6 DEF IInv, Shapes
  <2>11. /\ flight' \in [Calls -> FlightStates] /\ flight'[g].callers = flight[g].callers \cup {c} /\ flight'[g].result = flight[g].result
         /\ flight'[g].pc = IF f = None THEN "asking" ELSE flight[g].pc
         /\ \A h \in Calls : h # g => flight'[h] = flight[h]
    <3> HIDE DEF newFlight
    <3> QED BY <2>2, <2>5, <2>6 DEF IInv, Shapes
  <2>12. current' \in [Tabs -> Calls \cup {None}] /\ \A t \in Tabs : current'[t] = current[t] \/ current'[t] = g
    BY <1>3, <2>1, <2>2 DEF IInv, Shapes
  <2>13. (f = None => g = c) /\ (f # None => g = f)
    BY DEF g
  <2>7. Shapes'
    BY <1>1, <2>10, <2>11, <2>12 DEF IInv, Shapes
  <2>8. Locks'
    <3>1. LockHeld' /\ WorkerHeld' /\ HasResult'
      BY <1>1, <2>2, <2>3, <2>11, <2>13 DEF IInv, Locks, LockHeld, WorkerHeld, HasResult
    <3>3. HandleHeld'
      BY <1>1, <2>2, <2>3, <2>11, <2>13 DEF IInv, Shapes, Locks, WorkerHeld, HandleHeld, Lingers
    <3>2. FlightsAreFresh'
      BY <1>1, <2>2, <2>3, <2>10, <2>11, <2>12, <2>13, NotCalls DEF IInv, Locks, FlightsAreFresh
    <3> QED BY <3>1, <3>2, <3>3 DEF Locks
  <2>9. Contents'
    <3>1. NoneTorn' /\ WorksOnAbsent'
      BY <1>1 DEF IInv, Contents, NoneTorn, WorksOnAbsent
    <3>2. ToldIsThere'
      <4>1. \A d \in Calls : flight'[d].result = flight[d].result /\ call'[d].answer = call[d].answer
        BY <2>10, <2>11
      <4> QED BY <1>1, <4>1, ToldStays DEF IInv, Contents
    <3>3. PartialIsCleared'
      BY <1>1, <2>2, <2>3, <2>11, <2>13 DEF IInv, Contents, PartialIsCleared
    <3> QED BY <3>1, <3>2, <3>3 DEF Contents
  <2> QED BY <2>7, <2>8, <2>9 DEF IInv
<1> QED BY <1>2, <1>3 DEF Join

(* A caller leaves; the last one takes the worker with it.                 *)
LEMMA DetachIInv == ASSUME IInv, NEW c \in Calls, NEW r \in {"failed", "busy"}, Detach(c, r) PROVE IInv'
<1> DEFINE f == call[c].flight
<1>1. /\ call[c].pc = "in" /\ call' = Answered({c}, r) /\ UNCHANGED <<open, raw, partial, handle, removals, kept, evicted>>
  BY DEF Detach, files
<1>2. f \in Calls
  BY <1>1 DEF IInv, Shapes, CallStates, Locks, FlightsAreFresh
<1>3. flight[f] \in FlightStates /\ call[c] \in CallStates
  BY <1>2 DEF IInv, Shapes
<1>4. /\ call' \in [Calls -> CallStates]
      /\ \A d \in Calls : call'[d] = call[d] \/ (call'[d].pc = "answered" /\ call'[d].answer = r)
  BY <1>1, AnsweredCalls DEF IInv, Shapes, Answers
<1>5. CASE flight[f].callers = {c} /\ flight[f].pc = "running"
  <2>1. current' = Closed(f) /\ UNCHANGED holder /\ Terminate(f) /\ flight' = [flight EXCEPT ![f].pc = "clearing", ![f].result = "failed", ![f].callers = {}]
    BY <1>1, <1>5 DEF Detach, Abandoned, GivesUp, lock
  <2> DEFINE new == [flight[f] EXCEPT !.pc = "clearing", !.result = "failed", !.callers = {}]
  <2>2. new \in FlightStates /\ new.pc = "clearing" /\ new.result = "failed"
    BY <1>3 DEF FlightStates, Answers
  <2> HIDE DEF f
  <2>3. flight' = [flight EXCEPT ![f] = new]
    BY <1>2, <2>1 DEF IInv, Shapes
  <2>4. /\ flight' \in [Calls -> FlightStates] /\ flight'[f].pc = "clearing" /\ flight'[f].result = "failed"
        /\ \A g \in Calls : g # f => flight'[g] = flight[g]
    <3> HIDE DEF new
    <3> QED BY <1>2, <2>2, <2>3 DEF IInv, Shapes
  <2>5. /\ worker' = [worker EXCEPT ![f] = "none"] /\ mail' = [mail EXCEPT ![f] = "none"]
        /\ handle' = handle /\ kept' = kept
    BY <1>1, <2>1 DEF Terminate
  <2>6. current' \in [Tabs -> Calls \cup {None}] /\ \A t \in Tabs : current'[t] = None \/ current'[t] = current[t]
    BY <2>1, ClosedTabs DEF IInv, Shapes
  <2>7. Shapes'
    BY <1>1, <1>2, <1>4, <2>1, <2>4, <2>5, <2>6, NotCalls DEF IInv, Shapes
  <2>8. Locks'
    <3>1. LockHeld' /\ WorkerHeld' /\ HasResult'
      BY <1>2, <1>5, <2>1, <2>4, <2>5, NotCalls DEF IInv, Shapes, Locks, LockHeld, WorkerHeld, HasResult
    <3>3. HandleHeld'
      BY <1>1, <1>2, <2>4, <2>5 DEF IInv, Shapes, Locks, WorkerHeld, HandleHeld, Lingers
    <3>2. FlightsAreFresh'
      BY <1>2, <1>4, <1>5, <2>4, <2>6 DEF IInv, Shapes, Locks, FlightsAreFresh
    <3> QED BY <3>1, <3>2, <3>3 DEF Locks
  <2>9. Contents'
    <3>1. NoneTorn' /\ WorksOnAbsent'
      BY <1>1, <1>2, <2>5 DEF IInv, Shapes, Contents, NoneTorn, WorksOnAbsent
    <3>2. ToldIsThere'
      <4>1. \A d \in Calls : mail'[d] = "whole" => mail[d] = "whole"
        BY <1>2, <2>5 DEF IInv, Shapes
      <4>2. \A d \in Calls : flight'[d].result = "whole" => flight[d].result = "whole"
        BY <2>4
      <4>3. \A d \in Calls : call'[d].answer = "whole" => call[d].answer = "whole"
        BY <1>4
      <4> QED BY <1>1, <4>1, <4>2, <4>3, ToldStays DEF IInv, Contents
    <3>3. PartialIsCleared'
      BY <1>1, <1>2, <2>4 DEF IInv, Contents, PartialIsCleared
    <3> QED BY <3>1, <3>2, <3>3 DEF Contents
  <2> QED BY <2>7, <2>8, <2>9 DEF IInv
<1>6. CASE ~(flight[f].callers = {c} /\ flight[f].pc = "running")
  <2> DEFINE new == IF flight[f].callers = {c}
                    THEN IF flight[f].pc = "queued" THEN Over ELSE [flight[f] EXCEPT !.callers = {}]
                    ELSE [flight[f] EXCEPT !.callers = @ \ {c}]
  <2>1. UNCHANGED <<holder, worker, mail>> /\ (current' = current \/ current' = Closed(f))
    BY <1>1, <1>6 DEF Detach, Abandoned, lock
  <2>2. flight' = [flight EXCEPT ![f] = new]
    BY <1>1, <1>2, <1>6 DEF Detach, Abandoned, IInv, Shapes
  <2>3. /\ new \in FlightStates /\ (new.pc = flight[f].pc \/ new.pc = "ended") /\ (new.pc = "ended" => flight[f].pc \in {"queued", "ended"})
        /\ new.result \in {"none", flight[f].result} /\ (new.pc # "ended" => new.result = flight[f].result /\ new.tab = flight[f].tab)
    BY <1>3, NotCalls DEF FlightStates
  <2>4. new.pc = "running" => new.callers # {}
    <3>1. flight[f].pc = "running" => flight[f].callers # {} /\ flight[f].callers # {c}
      BY <1>2, <1>6 DEF IInv, Locks, WorkerHeld
    <3>2. CASE flight[f].pc = "running"
      <4>1. new = [flight[f] EXCEPT !.callers = @ \ {c}]
        BY <3>1, <3>2
      <4>2. new.callers = flight[f].callers \ {c}
        BY <1>3, <4>1 DEF FlightStates
      <4> QED BY <3>1, <3>2, <4>2
    <3> QED BY <2>3, <3>2
  <2>5. /\ flight' \in [Calls -> FlightStates] /\ flight'[f] = new /\ \A g \in Calls : g # f => flight'[g] = flight[g]
    <3> HIDE DEF f, new
    <3> QED BY <1>2, <2>2, <2>3 DEF IInv, Shapes
  <2>6. current' \in [Tabs -> Calls \cup {None}] /\ \A t \in Tabs : current'[t] = None \/ current'[t] = current[t]
    BY <2>1, ClosedTabs DEF IInv, Shapes
  <2> HIDE DEF f, new
  <2>7. Shapes'
    BY <1>1, <1>4, <2>1, <2>5, <2>6 DEF IInv, Shapes
  <2>8. Locks'
    <3>1. LockHeld' /\ WorkerHeld' /\ HasResult'
      BY <1>2, <2>1, <2>3, <2>4, <2>5, NotCalls DEF IInv, Shapes, Locks, LockHeld, WorkerHeld, HasResult
    <3>3. HandleHeld'
      BY <1>1, <1>2, <2>1, <2>3, <2>5 DEF IInv, Shapes, Locks, WorkerHeld, HandleHeld, Lingers
    <3>2. FlightsAreFresh'
      BY <1>2, <1>4, <2>3, <2>5, <2>6 DEF IInv, Shapes, Locks, FlightsAreFresh
    <3> QED BY <3>1, <3>2, <3>3 DEF Locks
  <2>9. Contents'
    <3>1. NoneTorn' /\ WorksOnAbsent'
      BY <1>1, <2>1 DEF IInv, Contents, NoneTorn, WorksOnAbsent
    <3>2. ToldIsThere'
      <4>1. \A d \in Calls : flight'[d].result = "whole" => flight[d].result = "whole"
        BY <2>3, <2>5
      <4>2. \A d \in Calls : call'[d].answer = "whole" => call[d].answer = "whole"
        BY <1>4
      <4> QED BY <1>1, <2>1, <4>1, <4>2, ToldStays DEF IInv, Contents
    <3>3. PartialIsCleared'
      BY <1>1, <1>2, <2>1, <2>3, <2>5 DEF IInv, Contents, PartialIsCleared
    <3> QED BY <3>1, <3>2, <3>3 DEF Contents
  <2> QED BY <2>7, <2>8, <2>9 DEF IInv
<1> QED BY <1>5, <1>6

(* A tab closes.                                                           *)
LEMMA CloseTabIInv == ASSUME IInv, NEW t \in Tabs, CloseTab(t) PROVE IInv'
<1> DEFINE mine == {f \in Calls : flight[f].tab = t}
<1>1. /\ open' # Tabs /\ open' \subseteq Tabs /\ UNCHANGED <<raw, partial, handle, removals, kept, evicted>>
      /\ current' = [current EXCEPT ![t] = None]
      /\ flight' = [f \in Calls |-> IF f \in mine THEN Over ELSE flight[f]]
      /\ holder' = IF holder \in mine THEN None ELSE holder
      /\ worker' = [f \in Calls |-> IF f \in mine THEN "none" ELSE worker[f]]
      /\ mail' = [f \in Calls |-> IF f \in mine THEN "none" ELSE mail[f]]
  BY DEF CloseTab, IInv, Shapes, files
<1>2. /\ call' \in [Calls -> CallStates]
      /\ \A d \in Calls : call'[d] = call[d] \/ (call'[d].pc = "answered" /\ call'[d].answer = "failed")
  <2>1. call' = [c \in Calls |-> IF call[c].tab = t THEN Answered({c}, "failed")[c] ELSE call[c]]
    BY DEF CloseTab
  <2>2. \A c \in Calls : Answered({c}, "failed")[c] \in CallStates /\ Answered({c}, "failed")[c].pc = "answered" /\ Answered({c}, "failed")[c].answer = "failed"
    BY AnsweredCalls DEF IInv, Shapes, Answers
  <2> QED BY <2>1, <2>2 DEF IInv, Shapes
<1>3. \A c \in Calls : flight[c].pc = "none" /\ flight[c].tab = NoTab => c \notin mine
  BY RawCacheAssumption
<1>4. mine \subseteq Calls
  OBVIOUS
<1> HIDE DEF mine
<1>7. Shapes'
  BY <1>1, <1>2, NotCalls DEF IInv, Shapes
<1>8. Locks'
  <2>1. LockHeld' /\ WorkerHeld' /\ HandleHeld' /\ HasResult'
    BY <1>1, <1>4, NotCalls DEF IInv, Shapes, Locks, LockHeld, WorkerHeld, HandleHeld, Lingers, FlightsAreFresh, HasResult
  <2>2. FlightsAreFresh'
    BY <1>1, <1>2, <1>3, NotCalls DEF IInv, Shapes, Locks, FlightsAreFresh
  <2> QED BY <2>1, <2>2 DEF Locks
<1>9. Contents'
  BY <1>1, <1>2, NotCalls DEF IInv, Shapes, Contents, NoneTorn, WorksOnAbsent, ToldIsThere, PartialIsCleared
<1> QED BY <1>7, <1>8, <1>9 DEF IInv

(* A worker probes: a region of another size goes.                         *)
LEMMA WorkerProbesIInv == ASSUME IInv, NEW f \in Calls, WorkerProbes(f) PROVE IInv'
<1>7. Shapes'
  BY NotCalls DEF IInv, Shapes, Answers, WorkerProbes, WorkerFails, Tells, Goes, pages, lock, files
<1>8. Locks'
  BY NotCalls DEF IInv, Shapes, Locks, LockHeld, WorkerHeld, HandleHeld, Lingers, FlightsAreFresh, HasResult, WorkerProbes, WorkerFails, Tells, Goes, pages, lock, files
<1>9. Contents'
  BY NotCalls DEF IInv, Shapes, Locks, LockHeld, WorkerHeld, HandleHeld, Lingers, FlightsAreFresh, HasResult, Contents, NoneTorn, WorksOnAbsent, ToldIsThere, PartialIsCleared, WorkerProbes, WorkerFails, Tells, Goes, pages, lock, files
<1> QED BY <1>7, <1>8, <1>9 DEF IInv

(* It replaces what an earlier writer left.                                *)
LEMMA WorkerCreatesIInv == ASSUME IInv, NEW f \in Calls, WorkerCreates(f) PROVE IInv'
<1>7. Shapes'
  BY NotCalls DEF IInv, Shapes, Answers, WorkerCreates, WorkerFails, Tells, Goes, pages, lock, files
<1>8. Locks'
  BY NotCalls DEF IInv, Shapes, Locks, LockHeld, WorkerHeld, HandleHeld, Lingers, FlightsAreFresh, HasResult, WorkerCreates, WorkerFails, Tells, Goes, pages, lock, files
<1>9. Contents'
  BY NotCalls DEF IInv, Shapes, Locks, LockHeld, WorkerHeld, HandleHeld, Lingers, FlightsAreFresh, HasResult, Contents, NoneTorn, WorksOnAbsent, ToldIsThere, PartialIsCleared, WorkerCreates, WorkerFails, Tells, Goes, pages, lock, files
<1> QED BY <1>7, <1>8, <1>9 DEF IInv

(* It opens its partial, which no one else has.                            *)
LEMMA WorkerOpensIInv == ASSUME IInv, NEW f \in Calls, WorkerOpens(f) PROVE IInv'
<1>7. Shapes'
  BY NotCalls DEF IInv, Shapes, Answers, WorkerOpens, WorkerFails, Tells, Goes, pages, lock, files
<1>8. Locks'
  BY NotCalls DEF IInv, Shapes, Locks, LockHeld, WorkerHeld, HandleHeld, Lingers, FlightsAreFresh, HasResult, WorkerOpens, WorkerFails, Tells, Goes, pages, lock, files
<1>9. Contents'
  BY NotCalls DEF IInv, Shapes, Locks, LockHeld, WorkerHeld, HandleHeld, Lingers, FlightsAreFresh, HasResult, Contents, NoneTorn, WorksOnAbsent, ToldIsThere, PartialIsCleared, WorkerOpens, WorkerFails, Tells, Goes, pages, lock, files
<1> QED BY <1>7, <1>8, <1>9 DEF IInv

(* It writes it whole.                                                     *)
LEMMA WorkerWritesIInv == ASSUME IInv, NEW f \in Calls, WorkerWrites(f) PROVE IInv'
<1>7. Shapes'
  BY NotCalls DEF IInv, Shapes, Answers, WorkerWrites, WorkerFails, Tells, Goes, pages, lock, files
<1>8. Locks'
  BY NotCalls DEF IInv, Shapes, Locks, LockHeld, WorkerHeld, HandleHeld, Lingers, FlightsAreFresh, HasResult, WorkerWrites, WorkerFails, Tells, Goes, pages, lock, files
<1>9. Contents'
  BY NotCalls DEF IInv, Shapes, Locks, LockHeld, WorkerHeld, HandleHeld, Lingers, FlightsAreFresh, HasResult, Contents, NoneTorn, WorksOnAbsent, ToldIsThere, PartialIsCleared, WorkerWrites, WorkerFails, Tells, Goes, pages, lock, files
<1> QED BY <1>7, <1>8, <1>9 DEF IInv

(* Or fails, and leaves a removal under way.                               *)
LEMMA WorkerErrsIInv == ASSUME IInv, NEW f \in Calls, WorkerErrs(f) PROVE IInv'
<1>7. Shapes'
  BY NotCalls DEF IInv, Shapes, Answers, WorkerErrs, WorkerFails, Tells, Goes, pages, lock, files
<1>8. Locks'
  BY NotCalls DEF IInv, Shapes, Locks, LockHeld, WorkerHeld, HandleHeld, Lingers, FlightsAreFresh, HasResult, WorkerErrs, WorkerFails, Tells, Goes, pages, lock, files
<1>9. Contents'
  BY NotCalls DEF IInv, Shapes, Locks, LockHeld, WorkerHeld, HandleHeld, Lingers, FlightsAreFresh, HasResult, Contents, NoneTorn, WorksOnAbsent, ToldIsThere, PartialIsCleared, WorkerErrs, WorkerFails, Tells, Goes, pages, lock, files
<1> QED BY <1>7, <1>8, <1>9 DEF IInv

(* It commits, or finds its partial gone.                                  *)
LEMMA WorkerMovesIInv == ASSUME IInv, NEW f \in Calls, WorkerMoves(f) PROVE IInv'
<1>7. Shapes'
  BY NotCalls DEF IInv, Shapes, Answers, WorkerMoves, WorkerFails, Tells, Goes, pages, lock, files
<1>8. Locks'
  BY NotCalls DEF IInv, Shapes, Locks, LockHeld, WorkerHeld, HandleHeld, Lingers, FlightsAreFresh, HasResult, WorkerMoves, WorkerFails, Tells, Goes, pages, lock, files
<1>9. Contents'
  BY NotCalls DEF IInv, Shapes, Locks, LockHeld, WorkerHeld, HandleHeld, Lingers, FlightsAreFresh, HasResult, Contents, NoneTorn, WorksOnAbsent, ToldIsThere, PartialIsCleared, WorkerMoves, WorkerFails, Tells, Goes, pages, lock, files
<1> QED BY <1>7, <1>8, <1>9 DEF IInv

(* A removal lands, of whatever partial is there then.                     *)
LEMMA RemovalLandsIInv == ASSUME IInv, RemovalLands PROVE IInv'
<1>7. Shapes'
  BY NotCalls DEF IInv, Shapes, Answers, RemovalLands, pages, lock, files
<1>8. Locks'
  BY NotCalls DEF IInv, Shapes, Locks, LockHeld, WorkerHeld, HandleHeld, Lingers, FlightsAreFresh, HasResult, RemovalLands, pages, lock, files
<1>9. Contents'
  BY NotCalls DEF IInv, Shapes, Locks, LockHeld, WorkerHeld, HandleHeld, Lingers, FlightsAreFresh, HasResult, Contents, NoneTorn, WorksOnAbsent, ToldIsThere, PartialIsCleared, RemovalLands, pages, lock, files
<1> QED BY <1>7, <1>8, <1>9 DEF IInv

(* The handle of a terminated worker closes.                               *)
LEMMA HandleClosesIInv == ASSUME IInv, HandleCloses PROVE IInv'
<1>1. handle' = None /\ UNCHANGED <<open, call, current, flight, holder, worker, mail, raw, partial, removals, kept, evicted>>
  BY DEF HandleCloses, pages, lock
<1>7. Shapes'
  BY <1>1 DEF IInv, Shapes
<1>8. Locks'
  BY <1>1 DEF IInv, Locks, LockHeld, WorkerHeld, HandleHeld, FlightsAreFresh, HasResult
<1>9. Contents'
  BY <1>1 DEF IInv, Contents, NoneTorn, WorksOnAbsent, ToldIsThere, PartialIsCleared
<1> QED BY <1>7, <1>8, <1>9 DEF IInv

(* The region is removed from outside.                                     *)
LEMMA EvictIInv == ASSUME IInv, Evict PROVE IInv'
<1>7. Shapes'
  BY NotCalls DEF IInv, Shapes, Answers, Evict, pages, lock, files
<1>8. Locks'
  BY NotCalls DEF IInv, Shapes, Locks, LockHeld, WorkerHeld, HandleHeld, Lingers, FlightsAreFresh, HasResult, Evict, pages, lock, files
<1>9. Contents'
  BY NotCalls DEF IInv, Shapes, Locks, LockHeld, WorkerHeld, HandleHeld, Lingers, FlightsAreFresh, HasResult, Contents, NoneTorn, WorksOnAbsent, ToldIsThere, PartialIsCleared, Evict, pages, lock, files
<1> QED BY <1>7, <1>8, <1>9 DEF IInv

(* Every step of a tab, a worker or the browser keeps the invariant.       *)
LEMMA NextIInv == IInv /\ [Next]_vars => IInv'
<1> SUFFICES ASSUME IInv, [Next]_vars PROVE IInv'
  OBVIOUS
<1>1. CASE UNCHANGED vars
  BY <1>1 DEF vars, pages, lock, files, IInv, Shapes, Locks, LockHeld, WorkerHeld, HandleHeld, Lingers, FlightsAreFresh, HasResult,
              Contents, NoneTorn, WorksOnAbsent, ToldIsThere, PartialIsCleared
<1>2. ASSUME NEW c \in Calls, Request(c) \/ Abort(c) \/ WaitRunsOut(c) \/ Silence(c) \/ CallStep(c) PROVE IInv'
  BY <1>2, RequestIInv, DetachIInv, SilenceIInv, CachedIInv, JoinIInv DEF Abort, WaitRunsOut, CallStep
<1>3. ASSUME NEW f \in Calls, FlightStep(f) PROVE IInv'
  BY <1>3, AskGrantedIInv, AskBusyIInv, QueueGrantedIInv, ProbeIInv, HearsIInv, ClearsIInv, SettlesIInv DEF FlightStep
<1>4. ASSUME NEW f \in Calls, WorkerStep(f) PROVE IInv'
  BY <1>4, WorkerProbesIInv, WorkerCreatesIInv, WorkerOpensIInv, WorkerWritesIInv, WorkerErrsIInv, WorkerMovesIInv DEF WorkerStep
<1>5. CASE (\E t \in Tabs : CloseTab(t)) \/ RemovalLands \/ HandleCloses \/ Evict
  BY <1>5, CloseTabIInv, RemovalLandsIInv, HandleClosesIInv, EvictIInv
<1> QED BY <1>1, <1>2, <1>3, <1>4, <1>5 DEF Next

(* The inductive invariant holds throughout.                               *)
THEOREM CacheInvariant == Spec => []IInv
BY InitIInv, NextIInv, PTL DEF Spec

(* At most one worker of all tabs is at work on the region, under the lock *)
(* and for somebody.                                                       *)
THEOREM CacheHasOneWriter == Spec => []OneWriter
<1>1. IInv => OneWriter
  BY DEF IInv, Shapes, Locks, LockHeld, WorkerHeld, OneWriter, Working
<1> QED BY <1>1, CacheInvariant, PTL

(* No part is ever published, a region told of stays, and a partial left   *)
(* to nobody is one whose clean-up found it held.                          *)
THEOREM CacheStaysSound == Spec => []CacheIsSound
<1>1. IInv => CacheIsSound
  <2> SUFFICES ASSUME IInv PROVE CacheIsSound
    OBVIOUS
  <2>1. raw # "torn" /\ (evicted = 0 /\ (\E c \in Calls : call[c].answer = "whole") => raw = "whole")
    BY DEF IInv, Contents, NoneTorn, ToldIsThere
  <2>2. ASSUME partial # "absent", open = Tabs, \A f \in Calls : flight[f].pc \in {"none", "ended"}
        PROVE  removals > 0 \/ kept
    BY <2>2 DEF IInv, Locks, WorkerHeld, Contents, PartialIsCleared
  <2> QED BY <2>1, <2>2 DEF CacheIsSound
<1> QED BY <1>1, CacheInvariant, PTL
=============================================================================
