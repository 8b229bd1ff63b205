--------------------------- MODULE MCLeanSession ---------------------------
(* LeanSession as TLC runs it, and the worker's boot and loads over small  *)
(* inputs.                                                                 *)
EXTENDS LeanSession, WorkerBoot, SnapshotLoad, CompileOutput, Failures, TLC

(* A manifest of one or two chunks per file over two bytes, each response  *)
(* good, cut, swapped, re-encoded or refused.                              *)
Answers(body) ==
  {[ok |-> TRUE, encoding |-> "", body |-> body],
   [ok |-> TRUE, encoding |-> "", body |-> Tail(body)],
   [ok |-> TRUE, encoding |-> "", body |-> [i \in DOMAIN body |-> 1 - body[i]]],
   [ok |-> TRUE, encoding |-> "gzip", body |-> body],
   [ok |-> FALSE, encoding |-> "", body |-> body]}
Good(body) == [ok |-> TRUE, encoding |-> "", body |-> body]

ChunkOf(body) == [bytes |-> Len(body), sha256 |-> sha256(body)]
FileOf(pieces, whole) ==
  [chunks |-> [i \in DOMAIN pieces |-> ChunkOf(pieces[i])], bytes |-> Len(whole),
   sha256 |-> sha256(whole)]

(* What a boot runs is what its manifest names, whatever the HTTP cache    *)
(* and the network answer; a good network boots through a poisoned cache,  *)
(* unless the manifest's chunks are not its file's (lean.worker.js's       *)
(* verified materialization).                                              *)
ASSUME MaterializedIsTheManifests ==
  \A pieces \in { <<<<0, 1>>>>, <<<<0>>, <<1, 1>>>> },
     whole \in {<<0, 1>>, <<0, 1, 1>>, <<0, 1, 0>>} :
    LET file  == FileOf(pieces, whole)
        poisoned == [DOMAIN pieces -> UNION {Answers(p) : p \in ToSet(pieces)}]
        clean == [i \in DOMAIN pieces |-> Good(pieces[i])]
    IN  \A cached, reloaded \in poisoned :
          /\ materialize(file, cached, reloaded) \subseteq {whole}
          /\ (materialize(file, cached, clean) # {}) <=> (FlattenSeq(pieces) = whole)

(* A session under any cap of whole pages gets memory from every engine    *)
(* that grants its smallest rung, commits no more than it asked or than    *)
(* the rung, and asks for no more the next time.                           *)
ASSUME MemoryIsFound ==
  \A device \in {2, 4, 8}, cap \in {p * PAGE : p \in 1 .. 40}, wanted \in 1 .. 20, limit \in 0 .. 40 :
    LET asked == commitAsked(wanted, cap, device)
        rungs == rungsUnder(cap, device)
        made  == createSharedMemory64(asked, rungs, limit)
    IN  /\ (made # {}) <=> (Last(rungs) \div PAGE <= limit)
        /\ \A m \in made : /\ m.initial <= m.maximum /\ m.maximum <= limit
                            /\ m.maximum * PAGE <= cap
                            /\ m.initial * PAGE <= asked + PAGE - 1

(* A cap that is no whole number of pages and lies below every rung gets   *)
(* no memory from any engine once the session wants all of it: its commit  *)
(* is rounded up and its reservation down.                                 *)
ASSUME PartialPageCapGetsNone ==
  \A device \in {2, 4, 8}, wanted \in 5 .. 20 :
    createSharedMemory64(commitAsked(wanted, 5, device), rungsUnder(5, device), 40) = {}

(* A mount shows no private facet and no byte outside its payload; an      *)
(* entry that is hidden is never what refuses a pack.                      *)
PackFiles ==
  [path : {1}, absolute : BOOLEAN, safe : {TRUE}, private : BOOLEAN, start : {-1, 0, 2}, end : {1, 3}]
ASSUME MountsWhatIsInThePack ==
  \A f, g \in PackFiles, payload \in {"bytes", "blob", "none"} :
    LET made == mountPacks(<<[files |-> <<f, g>>, payload |-> payload, size |-> 2]>>)
        sound(x) == x.absolute /\ x.start >= 0 /\ x.start <= x.end /\ x.end <= 2
    IN  /\ \A m \in made, x \in UNION made : x \in {f, g} /\ ~x.private /\ sound(x)
        /\ (made = {}) <=> (payload = "none" \/ \E x \in {f, g} : ~x.private /\ ~sound(x))

(* Runtime 9 boots after its document disposed runtimes 1 .. n, one every  *)
(* step ms, while runtime 8 lives in another tab.  The Workers of each     *)
(* live until some time after its disposal; another tab's stopping runtime *)
(* 7 keeps a few.                                                          *)
DisposedUntil(n, gap) ==
  FoldLeft(LAMBDA acc, i : disposedHere(acc, i, i * gap), <<>>, [i \in 1 .. n |-> i])

PollsOf(n, life, others) ==
  [p \in 1 .. 5 |->
    [at |-> (p - 1) * 2000, wanted |-> {8, 9},
     alive |-> [id \in {7, 8, 9} \cup 1 .. n |->
                  CASE id = 8 -> 25 [] id = 9 -> 1 [] id = 7 -> others
                    [] OTHER -> IF (p - 1) * 2000 < life THEN 2 ELSE 0]]]

(* No runtime is allocated over a Worker of one this document replaced in  *)
(* the last ten seconds (the newest four), nor over more Workers of        *)
(* others' than tolerated, unless the budget is spent; a runtime some page *)
(* still wants, another tab's or its own, is never waited for.             *)
ASSUME WaitsForTheReplaced ==
  \A n \in 0 .. 6, gap \in {100, 4000}, life \in {0, 1000, 3000, 9000}, others \in {0, 12, 13} :
    LET now    == n * gap + 1
        named  == ToSet(namedPredecessors(namedAtBoot(DisposedUntil(n, gap), 9, now), 9))
        waited == waitForUnwantedRuntimes(PollsOf(n, life, others), 9, PREDECESSOR_WAIT_MS, named)
    IN  /\ \A i \in 1 .. n : (i \in named) <=> (i > n - REPLACED_KEPT /\ now - i * gap < REPLACED_FOR_MS)
        /\ 8 \notin waited.ids
        /\ waited.timedOut => waited.waitedMs > PREDECESSOR_WAIT_MS
        /\ ~waited.timedOut => /\ \A i \in named : waited.left[i] = 0
                               /\ waited.left[7] <= STOPPING_WORKERS_TOLERATED
        /\ (others < 13 /\ life <= 3000 /\ n <= 4) => ~waited.timedOut

(* Bad entries are dropped, and repeated ones count once. *)
ASSUME NamesAreAdvisory ==
  \A list \in UNION {[1 .. m -> {0, 1, 2, 9}] : m \in 0 .. 4} :
    LET named == namedPredecessors(list, 9)
    IN  /\ ToSet(named) = ToSet(list) \ {0, 9}
        /\ Len(named) = Cardinality(ToSet(named))

(* Every boot is one the outline in RuntimeOps allows, at once or at the   *)
(* end of its awaits; and one that is ready runs the very wasm whose id it *)
(* answers with.                                                           *)
BootConfigs ==
  [shape : BOOLEAN, buildId : {<<0>>, <<1>>}, js : {FileOf(<<<<0>>>>, <<0>>)},
   wasm : {FileOf(<<<<0>>>>, <<0>>), FileOf(<<<<1>>>>, <<1>>), FileOf(<<<<1>>>>, <<0>>)},
   packs : {<<>>, <<[files |-> <<>>, payload |-> "blob", size |-> 1]>>},
   initialBytes : {1, 8}, candidates : {<<8, 4>>}]
Net(b) == [js |-> <<Good(<<0>>)>>, wasm |-> <<Good(<<b>>)>>]
BootHosts ==
  [capable : BOOLEAN, cached : {Net(0), Net(1)}, reloaded : {Net(0), Net(1)},
   limit : {1, 2, 4}, initializes : BOOLEAN]
ASSUME BootIsTheOutline ==
  \A state \in {"idle", "booting", "ready", "dead"}, cfg \in BootConfigs, host \in BootHosts :
    LET fresh == [freshWorker EXCEPT !.state = state]
        code  == bootCode(state, cfg, host)
        reply == bootReply(fresh, 1, code)
    IN  /\ IF code \in AtOnce THEN reply \in boot(fresh, 1)
            ELSE \E owned \in boot(fresh, 1) : owned.w.job.op = "boot" /\ reply \in bootEnds(owned.w)
        /\ code = "ready" => \A wasm \in Fetched(cfg, host, "wasm") : runtimeId(sha256(wasm)) = cfg.buildId

-----------------------------------------------------------------------------
(* Loads: an index entry of three bytes for runtime "a", over every raw    *)
(* cache and response; Region is what was baked.                           *)
Region == <<OLEAN, 1, 2>>
LoadInputs ==
  [shape : {TRUE}, sameOrigin : BOOLEAN, runtime : {"", "a", "b"}, expectedBytes : {0, 3},
   transferBytes : {0, 2}, keyed : BOOLEAN]
Caches ==
  {{}} \cup {{[size |-> n, content |-> c]} : n \in {0, 2, 3}, c \in {Region, <<OLEAN, 1>>, <<7, 1, 2>>}}
Bodies ==
  {[format |-> "gzip", sent |-> 2, content |-> c] : c \in {Region, <<OLEAN, 1>>, <<7, 1, 2>>}}
    \cup {[format |-> "plain", sent |-> Len(c), content |-> c] : c \in {Region, <<OLEAN, 1>>, Append(Region, 3)}}
    \cup {[format |-> "html", sent |-> 2, content |-> <<>>]}
Responses ==
  {r \in [ok : BOOLEAN, redirectedOff : BOOLEAN, html : BOOLEAN, encoding : {"", "gzip"},
          length : {0, 2, 3}, body : Bodies, arrived : 0 .. 4] :
     /\ r.arrived <= r.body.sent
     /\ r.encoding = "gzip" => r.body.format # "gzip"
     /\ r.encoding = "" => r.length \in {0, r.body.sent}}

(* A region that reaches the runtime is whole, of this site, baked for     *)
(* this runtime (or by an index that names none) and of the bytes the      *)
(* index declares, begins as regions do, and is what the cache or the      *)
(* server held; whatever fails leaves no allocation.                       *)
ASSUME LoadsOnlyARegion ==
  \A input \in LoadInputs, cache \in Caches, r \in Responses, memory \in BOOLEAN :
    LET code == refusal(refusals("ready", FALSE, input, "a", TRUE))
    IN  code = "none" =>
          /\ input.sameOrigin /\ input.runtime \in {"", "a"}
          /\ \A o \in attempt(input, cache, r, memory) :
               /\ heldAfter(o) <=> o.region # {}
               /\ \A g \in o.region :
                    /\ Len(g) = input.expectedBytes /\ g[1] = OLEAN
                    /\ \E c \in {e.content : e \in cache} \cup {r.body.content} : IsPrefix(g, c)

(* A transfer is told to have ended early only where fewer bytes came than *)
(* were announced or indexed; and a cut transfer of a true region, gzipped *)
(* or not, whose length is known is told nothing else.                     *)
ASSUME CutIsTheTransfers ==
  \A r \in Responses, transferBytes \in {0, 2} :
    LET whys == {o.why : o \in coldLoad(r, 3, transferBytes, TRUE)}
    IN  /\ "ended early" \in whys => r.arrived < r.body.sent
        /\ (/\ r.ok /\ ~r.redirectedOff /\ ~r.html /\ r.body.content = Region
            /\ r.arrived \in 1 .. r.body.sent - 1
            /\ r.encoding = "" /\ (r.length > 0 \/ (r.body.format = "gzip" /\ transferBytes > 0)))
           => whys = {"ended early"}

(* An entry of another size is discarded and never read; a sound one needs *)
(* no network.  But an entry of the right size that reads short or begins  *)
(* wrongly fails the load, with a network that could have answered: the    *)
(* comment at lean.worker.js:1859 says a cache failure never does.         *)
ASSUME CacheIsOptionalUntilOpened ==
  LET input == [shape |-> TRUE, sameOrigin |-> TRUE, runtime |-> "a", expectedBytes |-> 3,
                transferBytes |-> 2, keyed |-> TRUE]
  IN  \A cache \in Caches, r \in Responses :
        LET ends == attempt(input, cache, r, TRUE)
        IN  /\ (\A e \in cache : e.size # 3) =>
                  ends = coldLoad(r, 3, 2, TRUE) /\ cacheAfter(cache, TRUE, 3) = {}
            /\ (\E e \in cache : e.size = 3 /\ e.content = Region) => ends = Filled(Region)
            /\ (\E e \in cache : e.size = 3 /\ e.content # Region) => \A o \in ends : o.region = {}

(* Every load is one the outline in RuntimeOps allows: refused, or owning  *)
(* the runtime and answered once at its end.                               *)
ASSUME LoadIsTheOutline ==
  \A state \in {"idle", "booting", "ready", "compiling", "dead"}, resident \in BOOLEAN,
     input \in LoadInputs, memory \in BOOLEAN :
    LET fresh == [freshWorker EXCEPT !.state = state, !.resident = resident]
        code  == refusal(refusals(state, resident, input, "a", TRUE))
        ends  == attempt(input, {}, CHOOSE r \in Responses : r.ok, memory)
    IN  \A o \in ends : \A reply \in loadReplies(fresh, 1, code, o) :
          IF code = "BAD_STATE" THEN reply \in loadSnapshot(fresh, 1)
          ELSE \E owned \in loadSnapshot(fresh, 1) :
                 owned.w.job.op = "loadSnapshot" /\ reply \in ownerEnds(owned.w)

-----------------------------------------------------------------------------
(* A load is called the network's (a retry can help) exactly when bytes it *)
(* was promised did not come or the server asked to be tried again; and    *)
(* corrupt, once the length is known, only when all of them came, those    *)
(* that came were wrong, or none came and the response announced no length *)
(* (EMBEDDING.md:881 says of corrupt that the bytes arrived in full).      *)
ASSUME NetworkIsWhatARetryHelps ==
  \A r \in Responses, transferBytes \in {0, 2}, status \in {0, 404, 429, 500}, memory \in BOOLEAN :
    \A o \in coldLoad(r, 3, transferBytes, memory) :
      LET kind == failureKindOf(loadFailure(o.why, status))
      IN  o.region = {} =>
            /\ kind = "network" => (IF r.ok THEN r.arrived < r.body.sent ELSE status # 404)
            /\ (r.ok /\ kind = "corrupt" /\ expectedTransfer(r, transferBytes) > 0)
                 => \/ r.arrived = r.body.sent \/ r.body.content # Region
                    \/ r.arrived = 0 /\ announced(r) = 0
            /\ ~r.ok => kind = (IF status = 404 THEN "missing" ELSE "network")

(* A death's cause is none only without evidence, and never the network's, *)
(* unless the worker said so with a code.                                  *)
ASSUME DeathsAreNotTheNetworks ==
  \A reason \in {"crash", "exit", "abort", "wedged"}, code \in {"", "SNAPSHOT_FAILED", "WORKER_DEP_MISSING"},
     words \in SUBSET {"ended early", "allocation", "stack", "mixed versions"}, beforeHello, bare \in BOOLEAN :
    LET kinds == deathKind(reason, Failure(code, 0, words), [beforeHello |-> beforeHello, bare |-> bare])
    IN  /\ (kinds = {}) <=> (reason = "crash" /\ bare /\ ~beforeHello)
        /\ "network" \in kinds => code # ""
        /\ ("stack" \in words /\ code = "") => kinds \subseteq {"other", "stale"}

(* A page's boots while the network is down, at most a minute apart: the   *)
(* first costs a runtime and no other does, where the region can be        *)
(* downloaded ahead and its download fails so too; where it cannot, or is  *)
(* only silent, each costs one.  The boot after the network is back serves *)
(* at once, whatever came before.                                          *)
Attempts(gaps, cached, prefetch, load) ==
  [i \in 1 .. Len(gaps) |->
     [at |-> FoldLeft(LAMBDA t, g : t + g, 0, SubSeq(gaps, 1, i)), cached |-> cached,
      prefetch |-> prefetch, load |-> load]]
ASSUME AnOutageCostsOneRuntime ==
  \A n \in 1 .. 4 : \A gaps \in [1 .. n -> {1, 59, 60}] :
    LET after(cached, prefetch) == FoldLeft(start, NoBoots, Attempts(gaps, cached, prefetch, "network"))
        back(s, cached) == start(s, [at |-> 300, cached |-> cached, prefetch |-> "done", load |-> "ok"])
    IN  /\ after("no", "network").runtimes = 1 + Cardinality({i \in 2 .. n : gaps[i] = 60})
        /\ after("none", "network").runtimes = n
        /\ after("no", "silent").runtimes = n
        /\ \A cached \in {"no", "none", "yes"} :
             back(after("no", "network"), cached).served = 1 /\ back(after("no", "network"), cached).failedAt = Never
-----------------------------------------------------------------------------
(* A compile's output: up to four lines, each a text of its own.           *)
Kinds == {"progress", "noise", "diagnostic", "indented", "plain"}
Lines(n) ==
  {[i \in 1 .. n |-> [kind |-> f[i][1], severity |-> f[i][2], stream |-> "stdout", text |-> i]] :
     f \in [1 .. n -> {k \in Kinds \X {"error", "warning"} : k[1] = "diagnostic" \/ k[2] = "warning"}]}
Collected(lines) == FoldLeft(push, makeOutputCollector, lines)
CompileEndings ==
  {[how |-> h, count |-> n] : h \in {"ioError", "throws", "aborted"}, n \in {{}}}
    \cup {[how |-> "value", count |-> n] : n \in {{}, {0}, {1}}}

(* Every line but progress and noise is shown once: the first of a         *)
(* diagnostic, in the message of the last one before it, or raw; each list *)
(* in the order of the lines.                                              *)
ASSUME EveryLineIsShownOnce ==
  \A n \in 0 .. 4 : \A lines \in Lines(n) :
    LET c == Collected(lines)
        messages == FlattenSeq([i \in DOMAIN c.diagnostics |-> c.diagnostics[i].message])
        raw == [i \in DOMAIN c.raw |-> c.raw[i].text]
        ascending(s) == \A i, j \in DOMAIN s : i < j => s[i] < s[j]
    IN  /\ ascending(messages) /\ ascending(raw)
        /\ ToSet(messages) \cap ToSet(raw) = {}
        /\ ToSet(messages) \cup ToSet(raw) = {i \in 1 .. n : lines[i].kind \notin {"progress", "noise"}}
        /\ \A i \in DOMAIN raw : lines[raw[i]].kind = "plain" \/ messages = <<>> \/ raw[i] < messages[1]

(* A compile that succeeds ended with no error counted and printed none; a *)
(* failure is never silent: it has a diagnostic, a count, or is an error   *)
(* of its own.  Each is an end the outline in RuntimeOps allows, and an    *)
(* abort is answered by its own report, once.                              *)
ASSUME SuccessIsClean ==
  \A n \in 0 .. 3 : \A lines \in Lines(n), ending \in CompileEndings :
    LET c == Collected(lines)
        owned == CHOOSE r \in compile([freshWorker EXCEPT !.state = "ready"], 1) : r.w.job.op = "compile"
        reply == compileEnds(owned.w, c, ending)
    IN  /\ \A a \in compileAnswers(c, ending) :
             IF a.code = "result"
             THEN /\ a.success <=> /\ ending.how = "value" /\ ending.count \cap {1} = {}
                                   /\ \A i \in 1 .. n : lines[i].kind = "diagnostic" => lines[i].severity # "error"
                  /\ ~a.success => a.exitCode # 0 \/ a.diagnostics # <<>>
             ELSE ending.how # "value" /\ \A i \in 1 .. n : lines[i].kind # "diagnostic"
        /\ reply \in ownerEnds(owned.w)
        /\ Cardinality({i \in DOMAIN reply.out : reply.out[i].call = 1}) = 1

(* Two compiles of one session: no answer has a line from before its       *)
(* start or after its end, but a line a thread of the first one prints     *)
(* once the second has started is the second's, and an error among them    *)
(* fails it.                                                               *)
ASSUME LateLinesGoToTheLastStarted ==
  \A l1, l2, l3 \in UNION {Lines(n) : n \in 0 .. 1} :
    LET mark(k) == <<[kind |-> k]>>
        events == mark("start") \o l1 \o mark("end") \o l2 \o mark("start") \o l3 \o mark("end")
        s == FoldLeft(printed, [sink |-> makeOutputCollector, answered |-> <<>>], events)
    IN  /\ s.answered = <<Collected(l1), Collected(l3)>>
        /\ hasErrors(s.answered[2], [how |-> "value", count |-> {0}])
             <=> \E i \in DOMAIN l3 : l3[i].kind = "diagnostic" /\ l3[i].severity = "error"

(* The main thread, the task manager's workers, the parked threads and a   *)
(* burst fit the Workers the pool is made with, on any device; a task      *)
(* manager there always is (lean.worker.js:69-73).                         *)
ASSUME ThreadsFitThePool ==
  \A hardware \in {{}} \cup {{n} : n \in -1 .. 64} :
    /\ leanWorkers(hardware) >= 1
    /\ 1 + leanWorkers(hardware) + PARKED_DEDICATED + BURST <= POOL
=============================================================================
