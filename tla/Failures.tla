------------------------------ MODULE Failures ------------------------------
(***************************************************************************)
(* What a page makes of a failure (lib/failure.ts), and what a boot that   *)
(* lost the network has the page's next boot do first (lib/raw-cache.ts,   *)
(* lib/qed64-boot.ts, lib/resident-session.ts).                            *)
(*                                                                         *)
(* A failure is the worker's code, the HTTP status its message names (0:   *)
(* none) and the groups of words the message has, one per pattern of the   *)
(* table.                                                                  *)
(***************************************************************************)
EXTENDS Integers, Sequences, SequencesExt

Failure(code, status, words) == [code |-> code, status |-> status, words |-> words]

WORKER_DEP_MISMATCH == "WORKER_DEP_MISMATCH"
Retryable == {408, 425, 429}

(* The table: the first rule that holds decides. *)
kindRules(f) ==
  << <<f.code = WORKER_DEP_MISMATCH \/ "mixed versions" \in f.words, "stale">>,
     <<f.code = "SNAPSHOT_UNPAIRED" \/ "baked for another" \in f.words, "unpaired">>,
     <<f.code = "SNAPSHOT_URL_REFUSED" \/ "url refused" \in f.words, "other">>,
     <<f.code = "SNAPSHOT_NOT_IN_INDEX", "missing">>,
     <<f.code = "RUNTIME_MANIFEST_MISMATCH", "corrupt">>,
     <<f.status \in (400 .. 499) \ Retryable, "missing">>,
     <<"html" \in f.words, "missing">>,
     <<f.code = "MEMORY_FAILED" \/ "allocation" \in f.words, "oom">>,
     <<"ended early" \in f.words, "network">>,
     <<"wrong bytes" \in f.words, "corrupt">>,
     <<f.code = "RUNTIME_FETCH_FAILED" \/ f.status # 0 \/ "no connection" \in f.words, "network">>,
     <<"storage" \in f.words, "storage">> >>

failureKindOf(f) ==
  LET i == SelectInSeq(kindRules(f), LAMBDA rule : rule[1])
  IN  IF i = 0 THEN "other" ELSE kindRules(f)[i][2]

(* The cause of a session's death: none for a bare error event, which is   *)
(* no evidence; a script that never ran; else the table, of which a death  *)
(* without a code takes only the allocation.                               *)
deathKind(reason, f, facts) ==
  LET neverRan == (reason = "crash" /\ facts.beforeHello) \/ f.code = "WORKER_DEP_MISSING"
      uncoded  == IF "stack" \notin f.words /\ failureKindOf(f) = "oom" THEN "oom" ELSE "other"
  IN  IF reason = "crash" /\ facts.bare /\ ~facts.beforeHello THEN {}
      ELSE IF f.code = WORKER_DEP_MISMATCH \/ "mixed versions" \in f.words THEN {"stale"}
      ELSE IF neverRan THEN {"other"}
      ELSE IF f.code # "" THEN {failureKindOf(f)} ELSE {uncoded}

(* What loadSnapshot's errors say (SnapshotLoad's reasons); a request that *)
(* is not answered at all has no status.                                   *)
loadFailure(why, status) ==
  Failure("SNAPSHOT_FAILED", IF why = "HTTP" THEN status ELSE 0,
          CASE why = "HTTP"        -> {w \in {"no connection"} : status = 0}
            [] why = "HTML"        -> {"html"}
            [] why = "redirected"  -> {"url refused"}
            [] why = "no memory"   -> {"allocation"}
            [] why = "ended early" -> {"ended early"}
            [] OTHER               -> {"wrong bytes"})

-----------------------------------------------------------------------------
(* One page's boots over one snapshot, in seconds: when one of them last   *)
(* failed with a network cause (or Never), how many runtimes were booted,  *)
(* how many sessions came up.                                              *)
NETWORK_FAILURE_MEMORY == 60
Never == -1
NoBoots == [failedAt |-> Never, runtimes |-> 0, served |-> 0]

networkFailedRecently(s, now) == s.failedAt # Never /\ now - s.failedAt < NETWORK_FAILURE_MEMORY
noteNetworkFailure(s, now) == [s EXCEPT !.failedAt = now]
clearNetworkFailure(s) == [s EXCEPT !.failedAt = Never]
prefetched(s, status) == IF status \in {"done", "cached"} THEN clearNetworkFailure(s) ELSE s

(* downloadBeforeBoot: what it decides, and what is remembered then.  A    *)
(* try is [at, cached, prefetch, load]: cached "none" without OPFS.        *)
downloadBeforeBoot(s, try) ==
  LET applies == networkFailedRecently(s, try.at) /\ try.cached = "no"
  IN  IF ~applies
      THEN [s |-> IF networkFailedRecently(s, try.at) /\ try.cached = "yes" THEN clearNetworkFailure(s) ELSE s,
            decided |-> "boot"]
      ELSE [s |-> prefetched(s, try.prefetch),
            decided |-> CASE try.prefetch \in {"done", "cached"} -> "boot"
                          [] try.prefetch = "network"            -> "network"
                          [] OTHER                               -> "undecided"]

(* The load of a boot whose runtime is up: the prefetch, unless the one    *)
(* before the boot could not decide, then the worker's load.               *)
loadSnapshotForBoot(s, try, decided) ==
  LET filled == IF decided = "undecided" THEN s ELSE prefetched(s, try.prefetch)
  IN  CASE try.load = "ok"      -> [clearNetworkFailure(filled) EXCEPT !.served = @ + 1]
        [] try.load = "network" -> noteNetworkFailure(filled, try.at)
        [] OTHER                -> filled

(* start(): a network cause before the runtime costs none. *)
start(s, try) ==
  LET pre == downloadBeforeBoot(s, try)
  IN  IF pre.decided = "network" THEN noteNetworkFailure(pre.s, try.at)
      ELSE loadSnapshotForBoot([pre.s EXCEPT !.runtimes = @ + 1], try, pre.decided)
=============================================================================
