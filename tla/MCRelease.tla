----------------------------- MODULE MCRelease -----------------------------
(***************************************************************************)
(* Two releases with packs of their own; the first is baked again.  And    *)
(* the edge worker's answers over small buckets.                           *)
(***************************************************************************)
EXTENDS Release, EdgeWorker, FetchArtifacts, SequencesExt, TLC
CONSTANTS q1, q2, p1, p2, t1, t1b, t2
MCPacksOf == q1 :> p1 @@ q2 :> p2
MCReleaseOf == t1 :> q1 @@ t1b :> q1 @@ t2 :> q2

-----------------------------------------------------------------------------
(* The worker as createWorker() makes it, with a release, and as the       *)
(* library's legacy options have it.                                       *)
Hardened ==
  [prefix |-> "site/", release |-> "rel/", releaseFallback |-> TRUE, ranges |-> TRUE,
   artifactMethods |-> {"GET", "HEAD"}, artifactHead |-> "metadata", rejectUnsafeKeys |-> TRUE,
   errorCacheControl |-> "no-store"]
Legacy ==
  [Hardened EXCEPT !.release = "", !.releaseFallback = FALSE, !.ranges = FALSE,
                   !.artifactMethods = {"GET", "HEAD", "POST"}, !.artifactHead = "get",
                   !.rejectUnsafeKeys = FALSE, !.errorCacheControl = ""]
Workers == {Hardened, [Hardened EXCEPT !.releaseFallback = FALSE], Legacy, [Legacy EXCEPT !.release = "rel/"]}

Paths ==
  [name : {"x"}, safe : BOOLEAN, mounted : BOOLEAN, siteOwned : {FALSE}, manifest : BOOLEAN, digestNamed : BOOLEAN]
Ranges ==
  {[unit |-> u, ranges |-> n, first |-> f, last |-> l] :
     u \in {"bytes", "none"}, n \in {1, 2}, f \in {-1, 0, 1, 3}, l \in {-1, 0, 1, 5}}
Requests ==
  [method : {"GET", "HEAD", "POST"}, path : Paths, range : Ranges, ifRange : {"", "e1"}]
Objects == {[etag |-> "e1", size |-> 3], [etag |-> "e2", size |-> 1]}
Buckets == UNION {[S -> Objects] : S \in SUBSET {<<"site/", "x">>, <<"rel/", "x">>}}
Fetched200(cfg, rq, b1, b2) == {a \in serveArtifact(cfg, rq, b1, b2) : a.status < 300}
OneShelf == {rq \in Requests : rq.path.safe /\ ~rq.path.digestNamed /\ ~rq.path.manifest /\ rq.ifRange = ""}

(* What a ranged answer says of its bytes is what they are and what was    *)
(* asked for, whichever way the bucket reports them; a request is told     *)
(* that no byte satisfies it only when none does.                          *)
ASSUME RangesAreTheBytes ==
  \A cfg \in Workers, rq \in OneShelf, b \in Buckets :
    \A a \in serveArtifact(cfg, rq, b, b) :
      /\ a.status = 206 => /\ a.said = a.part /\ a.part.length > 0
                           /\ \A r \in parseRange(rq.range) :
                                IF suffix(r) THEN a.part.offset + a.part.length = a.size /\ a.part.length <= r.last
                                ELSE /\ a.part.offset = r.first
                                     /\ r.last >= 0 => a.part.offset + a.part.length <= r.last + 1
                           /\ a.part.offset + a.part.length <= a.size
      /\ (a.status = 200 /\ rq.method = "GET") => a.part = [offset |-> 0, length |-> a.size]
      /\ a.status = 416 => \E k \in DOMAIN b, r \in parseRange(rq.range) : resolveRange(r, b[k].size) = {}
      /\ a.status # 500

(* No error outlives its cause in a cache, with the hardened options       *)
(* anywhere and under any options on a path of the release; a manifest or  *)
(* an index is never kept unasked.                                         *)
ASSUME ErrorsAreNotKept ==
  \A cfg \in Workers, rq \in Requests, b \in Buckets : \A a \in serveArtifact(cfg, rq, b, b) :
    /\ (a.status >= 400 /\ (cfg.errorCacheControl # "" \/ releaseRel(cfg, rq.path))) => a.cache = "no-store"
    /\ a.cache = "immutable" => rq.path.digestNamed /\ ~rq.path.manifest

(* HEAD says the length and the version that GET gives. *)
ASSUME HeadIsOfTheGet ==
  \A cfg \in Workers, rq \in OneShelf, b \in Buckets :
    LET plain == [rq EXCEPT !.range.unit = "none"]
        about(m) == {<<a.status, a.etag, a.size, a.said, a.cache>> : a \in serveArtifact(cfg, [plain EXCEPT !.method = m], b, b)}
    IN  about("HEAD") = about("GET")

(* An upload between the two reads of a ranged request never mixes two     *)
(* objects in one answer: the validator, the size and the bytes are one    *)
(* object's, of a key this path may be read from.  What If-Range was held  *)
(* against may be the other one: a client that resumes has to compare the  *)
(* validator it gets.                                                      *)
ASSUME AnAnswerIsOneObject ==
  /\ \A cfg \in Workers, rq \in {q \in Requests : q.method = "GET" /\ ~q.path.manifest}, b1, b2 \in Buckets :
       \A a \in Fetched200(cfg, rq, b1, b2) :
         \E k \in DOMAIN b2 : /\ \E i \in DOMAIN keysFor(cfg, rq.path) : keysFor(cfg, rq.path)[i] = k
                              /\ a.etag = b2[k].etag /\ a.size = b2[k].size
                              /\ a.part.offset + a.part.length <= b2[k].size
  /\ \E rq \in Requests, b1, b2 \in Buckets : \E a \in Fetched200(Hardened, rq, b1, b2) :
       a.status = 206 /\ rq.ifRange = "e1" /\ a.etag = "e2"

(* An unsafe path reads nothing where unsafe keys are rejected or the key  *)
(* would fall in the release's prefix, which other sites share.            *)
ASSUME UnsafeReadsNothing ==
  \A cfg \in Workers, path \in Paths :
    /\ (~path.safe /\ (cfg.rejectUnsafeKeys \/ releaseRel(cfg, path))) => keysFor(cfg, path) = <<>>
    /\ releaseRel(cfg, path) => \A i \in DOMAIN keysFor(cfg, path) :
                                   keysFor(cfg, path)[i][1] = cfg.release \/ (i = 2 /\ cfg.releaseFallback)
-----------------------------------------------------------------------------
(* Trees that fetch-artifacts fills: one run of two files, or two runs, at *)
(* once or one after the other, of one; the second may get the first's     *)
(* process number.                                                         *)
Reached(first, depth) ==
  FoldLeft(LAMBDA acc, i : [all |-> acc.all \cup acc.last, last |-> UNION {steps(s, {1, 2}) : s \in acc.last} \ acc.all],
           [all |-> {}, last |-> first], [i \in 1 .. depth |-> i]).all
FetchStates ==
  Reached({Tree({"a", "b", "copy"}, {1}, c) : c \in {"none", "wrong"}}, 24)
    \cup Reached(fetchArtifacts(Tree({"a", "copy"}, {1, 2}, "wrong"), 1, 1), 22)

(* A run that says OK leaves every file as pinned, and the copy is put in  *)
(* place only over files that are; no step takes a pinned file away.  A    *)
(* run that ends of itself leaves no temp file, not even interrupted; and  *)
(* a run that starts finds only those of runs that go on.  One that exits  *)
(* on a second signal may leave the one it opened after the first          *)
(* (fetch-artifacts.mjs:36 says an interrupted run deletes its own): the   *)
(* first has cleared liveTemps.                                            *)
ASSUME TreesAreFilled ==
  \A s \in FetchStates :
    /\ \A r \in DOMAIN s.runs :
         /\ s.runs[r].pc = "ok" => \A t \in DOMAIN s.out : s.out[t] = "pinned"
         /\ s.runs[r].pc \in {"ok", "failed"} => \A temp \in s.temps : temp.run # r
         /\ s.runs[r].pc \in {"fetching", "copying"} =>
              \A temp \in s.temps : temp.run = r => s.runs[r].file[temp.target] = "open"
    /\ \A n \in steps(s, {1, 2}) :
         /\ \A t \in DOMAIN s.out : s.out[t] # n.out[t] => n.out[t] = "pinned"
         /\ s.out["copy"] # n.out["copy"] => \A t \in Jobs(s) : s.out[t] = "pinned"
         /\ Cardinality(Running(n)) > Cardinality(Running(s)) => \A temp \in n.temps : temp.run \in Running(s)
=============================================================================
