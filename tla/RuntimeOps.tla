----------------------------- MODULE RuntimeOps -----------------------------
(***************************************************************************)
(* What a page's requests do in public/workers/lean.worker.js: who owns    *)
(* the runtime, which requests are refused, what is answered.              *)
(*                                                                         *)
(* A handler is an operator from the worker's state and a call to the set  *)
(* of its results: the new state and the messages posted.  boot and        *)
(* loadSnapshot await, so that other requests are served before they end;  *)
(* compile blocks the thread.                                              *)
(***************************************************************************)
EXTENDS Integers, Sequences

NoJob == [op |-> "none", call |-> 0]

(* state and job: who owns the runtime; resident: the loop is open; armed  *)
(* and doc: the front door's two facts; died: the one death was posted.    *)
freshWorker ==
  [state |-> "idle", job |-> NoJob, armed |-> FALSE, doc |-> FALSE, resident |-> FALSE,
   died |-> FALSE]

-----------------------------------------------------------------------------
(* The messages to the page: a result, an error the runtime survives (or a *)
(* result that says failure), an error it does not, a death, a beat.       *)
Post(kind, k, code) == [kind |-> kind, call |-> k, code |-> code]

result(k)     == Post("result", k, "none")
error(k)      == Post("error", k, "none")
fatal(k)      == Post("fatal", k, "none")
diedEvent     == Post("died", 0, "none")
beatEvent     == Post("beat", 0, "none")
refused(k, recoverable) == Post(IF recoverable THEN "error" ELSE "fatal", k, "BAD_STATE")

To(w, out)      == [w |-> w, out |-> out]
Owned(w, op, k) == [w EXCEPT !.state = IF op = "boot" THEN "booting" ELSE "compiling", !.job = [op |-> op, call |-> k]]
Freed(w, state) == [w EXCEPT !.state = state, !.job = NoJob]

(* die(): once; the loop and the front door are over. *)
die(w) ==
  IF w.died THEN To(w, <<>>) ELSE To([w EXCEPT !.died = TRUE, !.resident = FALSE], <<diedEvent>>)

(* onAbort() once booted: the request in flight, if it is a compile, is    *)
(* answered; a load's own catch still posts its error afterwards.          *)
aborted(w) ==
  LET d == die([w EXCEPT !.state = "dead", !.job = NoJob])
      k == w.job.call
  IN  CASE w.job.op = "compile"      -> To(d.w, <<fatal(k)>> \o d.out)
        [] w.job.op = "loadSnapshot" -> To(d.w, <<fatal(0)>> \o d.out \o <<error(k)>>)
        [] OTHER                     -> To(d.w, <<fatal(0)>> \o d.out)

-----------------------------------------------------------------------------
(* boot(): only a fresh Worker; a config or a browser it refuses is the    *)
(* end of it.                                                              *)
boot(w, k) ==
  IF w.state # "idle" THEN {To(w, <<refused(k, TRUE)>>)}
  ELSE {To(Owned(w, "boot", k), <<>>), To(Freed(w, "dead"), <<fatal(k)>>)}

bootEnds(w) ==
  {To(Freed(w, "ready"), <<result(w.job.call)>>),
   To(Freed(w, "dead"), <<fatal(w.job.call)>>)}

compile(w, k) ==
  CASE w.resident                       -> {To(w, <<refused(k, TRUE)>>)}
    [] ~w.resident /\ w.state # "ready" -> {To(w, <<refused(k, w.state = "compiling")>>)}
    [] OTHER                            -> {To(Owned(w, "compile", k), <<>>)}

loadSnapshot(w, k) ==
  IF w.resident \/ w.state # "ready" THEN {To(w, <<refused(k, TRUE)>>)}
  ELSE {To(Owned(w, "loadSnapshot", k), <<>>)}

(* A compile or a load ends: its result, an error; or the runtime aborts   *)
(* under it.                                                               *)
ownerEnds(w) ==
  {To(Freed(w, "ready"), <<result(w.job.call)>>),
   To(Freed(w, "ready"), <<error(w.job.call)>>),
   aborted(w)}

jobEnds(w) == IF w.job.op = "boot" THEN bootEnds(w) ELSE ownerEnds(w)

(* writeFiles(): the file system exists once the runtime is initialised;   *)
(* any error is unrecoverable.                                             *)
writeFiles(w, k) ==
  LET wrong == To(w, <<fatal(k)>>)
  IN  IF w.state \in {"idle", "booting"} THEN {wrong} ELSE {To(w, <<result(k)>>), wrong}

-----------------------------------------------------------------------------
(* The front door's loop opens on the first didOpen once armed; a loop     *)
(* that does not start is a death.                                         *)
opened(w) ==
  IF w.armed /\ w.doc /\ ~w.resident /\ ~w.died
  THEN {To([w EXCEPT !.resident = TRUE], <<>>), die(w)}
  ELSE {To(w, <<>>)}

lsp(w) == opened([w EXCEPT !.doc = TRUE])

lspArm(w, k) ==
  IF w.state # "ready" THEN {To(w, <<refused(k, w.state # "dead")>>)}
  ELSE {To(r.w, Append(r.out, result(k))) : r \in opened([w EXCEPT !.armed = TRUE])}

(* The message listener. *)
served(w, msg) ==
  CASE msg.op = "lsp"          -> lsp(w)
    [] msg.op = "boot"         -> boot(w, msg.call)
    [] msg.op = "compile"      -> compile(w, msg.call)
    [] msg.op = "loadSnapshot" -> loadSnapshot(w, msg.call)
    [] msg.op = "writeFiles"   -> writeFiles(w, msg.call)
    [] msg.op = "lspArm"       -> lspArm(w, msg.call)
    [] msg.op = "telemetry"    -> {To(w, <<result(msg.call)>>)}
=============================================================================
