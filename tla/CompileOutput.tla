--------------------------- MODULE CompileOutput ---------------------------
(***************************************************************************)
(* The batch compile of public/workers/lean.worker.js: what the lines Lean *)
(* prints become, and what the compile is answered with.  RuntimeOps holds *)
(* the outline: who owns the runtime meanwhile.                            *)
(*                                                                         *)
(* A line is [kind, severity, stream, text].  Its kind is what the         *)
(* patterns tell apart: "progress" (import progress, a module's path),     *)
(* "noise" (a debug tag), "diagnostic" (JSON, or file:line:col), "indented"*)
(* and "plain"; a line of JSON that is none is what its text looks like.   *)
(***************************************************************************)
EXTENDS Integers, Sequences, SequencesExt, RuntimeOps

(* A collector: the diagnostics, each with the texts of its message, and   *)
(* the lines that are part of none.                                        *)
makeOutputCollector == [diagnostics |-> <<>>, raw |-> <<>>]

parseDiagnostic(line) == [severity |-> line.severity, message |-> <<line.text>>]

push(c, line) ==
  CASE line.kind \in {"progress", "noise"} -> c
    [] line.kind = "diagnostic" ->
         [c EXCEPT !.diagnostics = Append(@, parseDiagnostic(line))]
    [] line.kind = "indented" /\ c.diagnostics # <<>> ->
         [c EXCEPT !.diagnostics[Len(c.diagnostics)].message = Append(@, line.text)]
    [] OTHER -> [c EXCEPT !.raw = Append(@, line)]

(* What _lean_wasm_compile gives back: "value" with its unboxed count ({}  *)
(* for no scalar), "ioError", "throws", or the runtime aborted under it.   *)
exitCode(ending) ==
  IF ending.how = "value" THEN (IF ending.count = {} THEN 0 ELSE CHOOSE n \in ending.count : TRUE) ELSE 1

hasErrors(c, ending) ==
  \/ exitCode(ending) # 0
  \/ \E i \in DOMAIN c.diagnostics : c.diagnostics[i].severity = "error"
  \/ ending.how # "value"

(* The answer: none after an abort, whose report is onAbort's; an error if *)
(* there is nothing to show; else a result, which may say failure.         *)
compileAnswers(c, ending) ==
  CASE ending.how = "aborted" -> {}
    [] ending.how \in {"ioError", "throws"} /\ c.diagnostics = <<>> -> {[code |-> "COMPILE_CRASHED"]}
    [] OTHER -> {[code |-> "result", success |-> ~hasErrors(c, ending), exitCode |-> exitCode(ending),
                  diagnostics |-> c.diagnostics, raw |-> c.raw]}

compileEnds(w, c, ending) ==
  IF ending.how = "aborted" THEN aborted(w)
  ELSE LET answer == CHOOSE a \in compileAnswers(c, ending) : TRUE
       IN  To(Freed(w, "ready"),
              <<IF answer.code = "result" /\ answer.success THEN result(w.job.call) ELSE error(w.job.call)>>)

(* The sink is the last compile's collector, also once it has ended: lines *)
(* the threads bring late go there, and reach no answer.  A line carries   *)
(* no mark of its compile.  An event is "start", "end" or a line.          *)
printed(s, e) ==
  CASE e.kind = "start" -> [s EXCEPT !.sink = makeOutputCollector]
    [] e.kind = "end"   -> [s EXCEPT !.answered = Append(@, s.sink)]
    [] OTHER            -> [s EXCEPT !.sink = push(@, e)]
=============================================================================
