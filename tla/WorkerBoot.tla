----------------------------- MODULE WorkerBoot -----------------------------
(***************************************************************************)
(* How public/workers/lean.worker.js boots a runtime: the chunks it        *)
(* fetches and verifies, the memory it reserves, the packs it mounts, the  *)
(* runtimes whose Workers it lets die first, and the guards on that way.   *)
(* lib/client.ts and lib/resident-session.ts give it what it asks for.     *)
(*                                                                         *)
(* Operators only: what each step returns for what it finds.  Something    *)
(* that may fail returns the set of what it resolves with: {} when it      *)
(* throws.  RuntimeOps holds the outline of boot this is the detail of.    *)
(***************************************************************************)
EXTENDS Integers, Sequences, FiniteSets, FiniteSetsExt, SequencesExt, RuntimeOps

(* A body is its sequence of bytes; two bodies never share a digest.  A    *)
(* runtime's id is the first digits of its wasm's digest: the digest here. *)
sha256(bytes)  == bytes
runtimeId(sha) == sha

(* A chunk is [bytes, sha256] of its url, a file [chunks, bytes, sha256],  *)
(* a response [ok, encoding, body].                                        *)
fetchChunkOnce(chunk, response) ==
  {body \in {response.body} : /\ response.ok
                              /\ response.encoding \in {"", "identity"}
                              /\ Len(body) = chunk.bytes
                              /\ sha256(body) = chunk.sha256}

(* The HTTP cache may hold a poisoned response: once around it. *)
fetchChunk(chunk, cached, reloaded) ==
  LET first == fetchChunkOnce(chunk, cached)
  IN  IF first # {} THEN first ELSE fetchChunkOnce(chunk, reloaded)

materialize(file, cached, reloaded) ==
  LET pieces == [i \in DOMAIN file.chunks |-> fetchChunk(file.chunks[i], cached[i], reloaded[i])]
      whole  == FlattenSeq([i \in DOMAIN pieces |-> CHOOSE piece \in pieces[i] : TRUE])
  IN  IF \E i \in DOMAIN pieces : pieces[i] = {} THEN {}
      ELSE {w \in {whole} : Len(w) = file.bytes /\ sha256(w) = file.sha256}

-----------------------------------------------------------------------------
(* Threads: the Workers the pool is made with, and what takes them; the    *)
(* hardware's concurrency is {} where the browser tells none.              *)
POOL             == 24
BURST            == 10
LEAN_WORKERS_MAX == 8
PARKED_DEDICATED == 4

leanWorkers(hardware) ==
  LET told == {n \in hardware : n > 0}
  IN  Max({1, Min({LEAN_WORKERS_MAX} \cup (IF told = {} THEN {4} ELSE told))})

-----------------------------------------------------------------------------
(* Memory.  The unit is half a wasm page, and a GiB two pages: enough for  *)
(* a size that is no whole number of pages.                                *)
PAGE == 2
GiB  == 4

memoryCandidates(device) ==
  LET ladder == IF device >= 8 THEN <<16, 12, 8, 6, 4, 3>>
                ELSE IF device >= 4 THEN <<8, 6, 4, 3, 2>> ELSE <<4, 3, 2>>
  IN  [i \in DOMAIN ladder |-> ladder[i] * GiB]

(* The page's side: the rungs under the session's cap, the cap alone when  *)
(* it is below them all; the commit it asks for, at most the first rung.   *)
rungsUnder(cap, device) ==
  LET under == SelectSeq(memoryCandidates(device), LAMBDA b : b <= cap)
  IN  IF under # <<>> THEN under ELSE <<cap>>

commitAsked(wanted, cap, device) == Min({wanted, rungsUnder(cap, device)[1]})

(* The worker's side, in pages: the first rung whose reservation the       *)
(* engine grants (limit: its largest), committing at most the rung.        *)
rungOf(initialBytes, maxBytes) ==
  [initial |-> (Min({initialBytes, maxBytes}) + PAGE - 1) \div PAGE,
   maximum |-> maxBytes \div PAGE]

createSharedMemory64(initialBytes, candidates, limit) ==
  LET rungs   == [i \in DOMAIN candidates |-> rungOf(initialBytes, candidates[i])]
      granted == SelectInSeq(rungs, LAMBDA r : r.initial <= r.maximum /\ r.maximum <= limit)
  IN  IF granted = 0 THEN {} ELSE {rungs[granted]}

-----------------------------------------------------------------------------
(* Library packs: [files, payload, size], a file [path, absolute, safe,    *)
(* private, start, end].  The private facets are hidden, then each file    *)
(* that stays is validated against the payload.                            *)
validatePackEntry(file, size) ==
  /\ file.absolute /\ file.safe
  /\ 0 <= file.start /\ file.start <= file.end /\ file.end <= size

mountPacks(packs) ==
  LET shown(pack) == SelectSeq(pack.files, LAMBDA f : ~f.private)
      mounts(pack) == /\ pack.files # <<>>
                      /\ pack.payload \in {"bytes", "blob"}
                      /\ \A f \in ToSet(shown(pack)) : validatePackEntry(f, pack.size)
  IN  IF \A p \in ToSet(packs) : mounts(p)
      THEN {UNION {ToSet(shown(p)) : p \in ToSet(packs)}} ELSE {}

-----------------------------------------------------------------------------
(* The runtimes a document disposed, newest last, and those its next       *)
(* runtime names at boot.  No valid id: 0.                                 *)
REPLACED_KEPT   == 4
REPLACED_FOR_MS == 10000
PREDECESSOR_WAIT_MS == 6000
MAX_NAMED_PREDECESSORS == 8
STOPPING_WORKERS_TOLERATED == 12

Newest(seq, n) == SubSeq(seq, Max({1, Len(seq) - n + 1}), Len(seq))

disposedHere(replacedHere, id, at) ==
  Newest(Append(replacedHere, [id |-> id, at |-> at]), REPLACED_KEPT)

namedAtBoot(replacedHere, id, now) ==
  LET recent == SelectSeq(replacedHere, LAMBDA r : r.id # id /\ now - r.at < REPLACED_FOR_MS)
  IN  [i \in DOMAIN recent |-> recent[i].id]

namedPredecessors(list, selfId) ==
  LET ok       == SelectSeq(list, LAMBDA id : id # 0 /\ id # selfId)
      distinct == FoldLeft(LAMBDA seen, id : IF Contains(seen, id) THEN seen ELSE Append(seen, id),
                           <<>>, ok)
  IN  Newest(distinct, MAX_NAMED_PREDECESSORS)

(* A query of the locks: alive counts each runtime's live Workers (one     *)
(* shared lock each), wanted holds the runtimes whose page still has them. *)
stopping(query, selfId) ==
  [id \in {i \in DOMAIN query.alive : i # selfId /\ i \notin query.wanted} |-> query.alive[id]]

WorkersOf(alive, ids) == FoldFunctionOnSet(+, 0, alive, ids \cap DOMAIN alive)

Blocks(alive, named) ==
  \/ WorkersOf(alive, DOMAIN alive) > STOPPING_WORKERS_TOLERATED
  \/ WorkersOf(alive, named) > 0

(* The polls, each a query at a time since the wait began, up to the one   *)
(* that ends it: nothing blocks any more, or the budget is spent.          *)
waitForUnwantedRuntimes(polls, selfId, budgetMs, named) ==
  LET ends(p) == ~Blocks(stopping(p, selfId), named) \/ p.at > budgetMs
      last    == polls[SelectInSeq(polls, ends)]
  IN  [ids      |-> DOMAIN stopping(polls[1], selfId),
       waitedMs |-> last.at,
       timedOut |-> Blocks(stopping(last, selfId), named),
       left     |-> stopping(last, selfId)]

-----------------------------------------------------------------------------
(* boot(): the codes of its failures in the order they are looked for.     *)
(* cfg: [shape, buildId, js, wasm, packs, initialBytes, candidates]; host: *)
(* [capable, cached, reloaded, limit, initializes], the responses by file  *)
(* and chunk.                                                              *)
Fetched(cfg, host, name) == materialize(cfg[name], host.cached[name], host.reloaded[name])

failures(state, cfg, host) ==
  << <<state # "idle", "BAD_STATE">>,
     <<~cfg.shape, "INVALID_MESSAGE">>,
     <<cfg.buildId # runtimeId(cfg.wasm.sha256), "RUNTIME_MANIFEST_MISMATCH">>,
     <<~host.capable, "CAPABILITY_MISSING">>,
     <<Fetched(cfg, host, "js") = {} \/ Fetched(cfg, host, "wasm") = {}, "RUNTIME_FETCH_FAILED">>,
     <<createSharedMemory64(cfg.initialBytes, cfg.candidates, host.limit) = {}, "MEMORY_FAILED">>,
     <<mountPacks(cfg.packs) = {} \/ ~host.initializes, "INIT_FAILED">> >>

bootCode(state, cfg, host) ==
  LET found == SelectInSeq(failures(state, cfg, host), LAMBDA f : f[1])
  IN  IF found = 0 THEN "ready" ELSE failures(state, cfg, host)[found][2]

(* What boot answers, and what of it is seen before its first await. *)
AtOnce == {"BAD_STATE", "INVALID_MESSAGE", "RUNTIME_MANIFEST_MISMATCH", "CAPABILITY_MISSING"}

bootReply(w, k, code) ==
  CASE code = "BAD_STATE" -> To(w, <<refused(k, TRUE)>>)
    [] code = "ready"     -> To(Freed(w, "ready"), <<result(k)>>)
    [] OTHER              -> To(Freed(w, "dead"), <<fatal(k)>>)
=============================================================================
