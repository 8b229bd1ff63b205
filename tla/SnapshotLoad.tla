---------------------------- MODULE SnapshotLoad ----------------------------
(***************************************************************************)
(* loadSnapshot in public/workers/lean.worker.js: the raw region from the  *)
(* cache, or the network's bytes, inflated, into one wasm allocation that  *)
(* the runtime takes over; the guards on the way, and what a failure       *)
(* leaves.  RuntimeOps holds the outline: who owns the runtime meanwhile.  *)
(*                                                                         *)
(* A region is its sequence of bytes; OLEAN stands for the five that a     *)
(* compacted region begins with.  What travels is the region, the region   *)
(* gzipped, or a page of HTML: a body [format, sent,                       *)
(* content], of which a response brings the first arrived bytes, the first *)
(* five in one chunk.                                                      *)
(***************************************************************************)
EXTENDS Integers, Sequences, FiniteSets, SequencesExt, RuntimeOps

OLEAN == 0

(* The guards in their order: <<condition, code>>.                         *)
(* booted: the runtime's id; "" is an index entry that names no runtime.   *)
refusals(state, resident, input, booted, exported) ==
  << <<resident \/ state # "ready", "BAD_STATE">>,
     <<~input.shape, "INVALID_MESSAGE">>,
     <<~input.sameOrigin, "SNAPSHOT_URL_REFUSED">>,
     <<input.runtime # "" /\ input.runtime # booted, "SNAPSHOT_UNPAIRED">>,
     <<~exported \/ input.expectedBytes <= 0, "SNAPSHOT_FAILED">> >>

refusal(guards) ==
  LET i == SelectInSeq(guards, LAMBDA g : g[1]) IN IF i = 0 THEN "none" ELSE guards[i][2]

(* openRawSnapshot: the entry, if it can be opened and has the right size; *)
(* another is removed.  cache: the set of the key's entry, [size, content] *)
(* (content shorter than size: a read that comes back short).              *)
openRawSnapshot(cache, keyed, expectedBytes) ==
  {e \in cache : keyed /\ e.size # 0 /\ e.size = expectedBytes}

cacheAfter(cache, keyed, expectedBytes) ==
  IF keyed THEN openRawSnapshot(cache, TRUE, expectedBytes) ELSE cache

(* How an attempt may end: the region it filled, or why it throws; and     *)
(* whether it holds the allocation then.                                   *)
Filled(region)        == {[region |-> {region}, why |-> "none", allocated |-> TRUE]}
Throws(whys, holding) == {[region |-> {}, why |-> why, allocated |-> holding] : why \in whys}

(* What is wrong with the first bytes, and with too many of them. *)
wrongBytes(content, total) ==
  {why \in {"not a region"} : content # <<>> /\ content[1] # OLEAN}
    \cup {why \in {"more than declared"} : Len(content) > total}

warmLoad(entry, total, memory) ==
  IF ~memory THEN Throws({"no memory"}, FALSE)
  ELSE IF entry.content # <<>> /\ entry.content[1] # OLEAN THEN Throws({"not a region"}, TRUE)
  ELSE IF Len(entry.content) < total THEN Throws({"truncated mid-read"}, TRUE)
  ELSE Filled(SubSeq(entry.content, 1, total))

-----------------------------------------------------------------------------
(* The network: a response [ok, redirectedOff, html, encoding, length,     *)
(* body, arrived]; length 0 is none announced.  The browser inflates what  *)
(* a server encoded: the body of an encoded response is plain.             *)
announced(r) == IF r.encoding \in {"", "identity"} THEN r.length ELSE 0

expectedTransfer(r, transferBytes) ==
  IF announced(r) = 0 /\ r.body.format = "gzip" THEN transferBytes ELSE announced(r)

(* A stream that ends early may be told so, or by what its bytes were      *)
(* found to be before its end was: the decoder is pulled ahead of.         *)
streamed(r, total, transferBytes) ==
  LET cut == r.arrived < expectedTransfer(r, transferBytes)
      got == IF r.body.format = "gzip" THEN r.body.content ELSE SubSeq(r.body.content, 1, r.arrived)
      bad == wrongBytes(got, total)
  IN  IF cut THEN Throws({"ended early"} \cup bad, TRUE)
      ELSE IF r.body.format = "gzip" /\ r.arrived < r.body.sent THEN Throws({"corrupt"} \cup bad, TRUE)
      ELSE IF bad # {} THEN Throws(bad, TRUE)
      ELSE IF Len(got) # total THEN Throws({"not the declared bytes"}, TRUE)
      ELSE Filled(got)

coldLoad(r, total, transferBytes, memory) ==
  IF ~r.ok THEN Throws({"HTTP"}, FALSE)
  ELSE IF r.redirectedOff THEN Throws({"redirected"}, FALSE)
  ELSE IF r.html THEN Throws({"HTML"}, FALSE)
  ELSE IF ~memory THEN Throws({"no memory"}, FALSE)
  ELSE IF r.arrived = 0 THEN Throws({IF announced(r) > 0 THEN "ended early" ELSE "empty"}, TRUE)
  ELSE IF r.body.format = "html" THEN Throws({"HTML"}, TRUE)
  ELSE streamed(r, total, transferBytes)

(* The attempt: the raw cache when it has an entry to open, else the       *)
(* network; what a raw entry turns out to be is not tried again.           *)
attempt(input, cache, r, memory) ==
  LET raw == openRawSnapshot(cache, input.keyed, input.expectedBytes)
  IN  IF raw # {} THEN warmLoad(CHOOSE e \in raw : TRUE, input.expectedBytes, memory)
      ELSE coldLoad(r, input.expectedBytes, input.transferBytes, memory)

(* The answer: the runtime takes a filled region over and may refuse it    *)
(* (a result that says failure: RuntimeOps' error); what throws is freed.  *)
loadReplies(w, k, code, outcome) ==
  LET answers == IF outcome.region = {} THEN {error(k)} ELSE {result(k), error(k)}
      ended   == IF code = "none" THEN Freed(w, "ready") ELSE w
  IN  IF code = "BAD_STATE" THEN {To(w, <<refused(k, TRUE)>>)}
      ELSE IF code # "none" THEN {To(ended, <<error(k)>>)}
      ELSE {To(ended, <<answer>>) : answer \in answers}

heldAfter(outcome) == outcome.allocated /\ outcome.region # {}
=============================================================================
