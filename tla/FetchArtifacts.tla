--------------------------- MODULE FetchArtifacts ---------------------------
(***************************************************************************)
(* pipeline/release/fetch-artifacts.mjs: runs that fill a tree with the    *)
(* files its manifests pin, each through a temp file beside its target     *)
(* that is verified and then renamed; copy is the per-build index they     *)
(* write last.  Runs may fail, be interrupted, or be killed outright.      *)
(*                                                                         *)
(* State: out, what each target holds ("none", "wrong", "pinned"); temps,  *)
(* the temp files [target, pid, run]; and the runs.  Of a run: its pid,    *)
(* where each file of its plan is, the targets in its liveTemps, why it    *)
(* fails, whether it has had a signal.  An operator returns the set of     *)
(* states its step may lead to.                                            *)
(***************************************************************************)
EXTENDS Integers, FiniteSets

NewRun(targets) ==
  [pc |-> "idle", pid |-> 0, file |-> [t \in targets |-> "todo"], live |-> {}, failure |-> "none",
   signalled |-> FALSE]
Tree(targets, runs, content) ==
  [out |-> [t \in targets |-> content], temps |-> {}, runs |-> [r \in runs |-> NewRun(targets)]]

Jobs(s)      == DOMAIN s.out \ {"copy"}
Running(s)   == {r \in DOMAIN s.runs : s.runs[r].pc \in {"fetching", "copying"}}
alive(s)     == {s.runs[r].pid : r \in Running(s)}
Temp(s, r, t) == [target |-> t, pid |-> s.runs[r].pid, run |-> r]
Failing(s, r, why) == IF s.runs[r].failure = "none" THEN [s EXCEPT !.runs[r].failure = why] ELSE s
Ended(s, r, pc)    == {[s EXCEPT !.runs[r].pc = pc]}
If(possible, states) == {s \in states : possible}

(* A run starts: what a dead process left beside its targets is swept, and *)
(* what an earlier process of its own number left.                         *)
sweepStaleTemps(s, pid) == [s EXCEPT !.temps = {t \in @ : t.pid # pid /\ t.pid \in alive(s)}]
fetchArtifacts(s, r, pid) ==
  If(s.runs[r].pc = "idle" /\ pid \notin alive(s),
     {[sweepStaleTemps(s, pid) EXCEPT !.runs[r].pc = "fetching", !.runs[r].pid = pid]})

(* A file of the plan: none is begun once the run fails; one that is there *)
(* as pinned is left.                                                      *)
Due(s, r) == IF s.runs[r].pc = "fetching" THEN Jobs(s) ELSE {"copy"}
begin(s, r, t) ==
  If(s.runs[r].file[t] = "todo" /\ t \in Due(s, r) /\ s.runs[r].failure = "none",
     {[s EXCEPT !.runs[r].file[t] = "checking"]})
fileDigest(s, r, t) ==
  If(s.runs[r].file[t] = "checking",
     {IF s.out[t] = "pinned" THEN [s EXCEPT !.runs[r].file[t] = "done"]
      ELSE [s EXCEPT !.runs[r].file[t] = "named", !.runs[r].live = @ \cup {t}]})

(* writeVerified: the temp file is opened, filled, verified, renamed; what *)
(* arrives short, long or wrong, and an abort, removes it.                 *)
Left(s, r, t) == [s EXCEPT !.runs[r].file[t] = "done", !.runs[r].live = @ \ {t}, !.temps = @ \ {Temp(s, r, t)}]
open(s, r, t) ==
  If(s.runs[r].file[t] = "named", {[s EXCEPT !.runs[r].file[t] = "open", !.temps = @ \cup {Temp(s, r, t)}]})
renamed(s, r, t) ==
  If(s.runs[r].file[t] = "open",
     {IF Temp(s, r, t) \in s.temps THEN [Left(s, r, t) EXCEPT !.out[t] = "pinned"]
      ELSE Failing(Left(s, r, t), r, "failed")})
rejected(s, r, t) ==
  If(s.runs[r].file[t] \in {"named", "open"}, {Failing(Left(s, r, t), r, "failed")})

(* The whole files, then the copy; and the end.  A run that fails waits    *)
(* for the files it has begun.                                             *)
Settled(s, r) == \A t \in DOMAIN s.out : s.runs[r].file[t] \in {"todo", "done"}
wholes(s, r) ==
  If(/\ s.runs[r].pc = "fetching" /\ s.runs[r].failure = "none"
     /\ \A t \in Jobs(s) : s.runs[r].file[t] = "done",
     {IF \A t \in Jobs(s) : s.out[t] = "pinned" THEN [s EXCEPT !.runs[r].pc = "copying"] ELSE Failing(s, r, "failed")})
finish(s, r) ==
  IF s.runs[r].failure # "none" THEN If(Settled(s, r), Ended(s, r, "failed"))
  ELSE If(s.runs[r].pc = "copying" /\ s.runs[r].file["copy"] = "done", Ended(s, r, "ok"))

(* A signal removes the temp files the run knows of and aborts it; a       *)
(* second one, or five seconds, ends it where it is.  A kill removes none. *)
removeLiveTemps(s, r) ==
  [s EXCEPT !.temps = @ \ {Temp(s, r, t) : t \in s.runs[r].live}, !.runs[r].live = {}]
onSignal(s, r) ==
  IF s.runs[r].signalled THEN Ended(removeLiveTemps(s, r), r, "exited")
  ELSE {[Failing(removeLiveTemps(s, r), r, "interrupted") EXCEPT !.runs[r].signalled = TRUE]}

steps(s, pids) ==
  (UNION {fetchArtifacts(s, r, pid) : r \in DOMAIN s.runs, pid \in pids})
    \cup (UNION {wholes(s, r) \cup finish(s, r) \cup onSignal(s, r) \cup Ended(s, r, "killed") : r \in Running(s)})
    \cup (UNION {begin(s, r, t) \cup fileDigest(s, r, t) \cup open(s, r, t) \cup renamed(s, r, t) \cup rejected(s, r, t) :
                   r \in Running(s), t \in DOMAIN s.out})
=============================================================================
