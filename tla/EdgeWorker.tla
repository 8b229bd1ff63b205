----------------------------- MODULE EdgeWorker -----------------------------
(***************************************************************************)
(* infra/edge-worker.js answering one request for an artifact: the key it  *)
(* reads, byte ranges and their preconditions, HEAD, what is cached.       *)
(*                                                                         *)
(* A ranged request reads the bucket twice, first the object's facts, then *)
(* its bytes, and an upload may come between: the operators take the       *)
(* bucket as it was at each.  An object is [etag, size]; what it holds is  *)
(* its etag's.  The bucket maps keys <<prefix, path>> to objects.          *)
(***************************************************************************)
EXTENDS Integers, Sequences, FiniteSets, FiniteSetsExt

(* A Range header: "none", or what it says: unit, how many ranges, first   *)
(* and last position, -1 where left out.                                   *)
NoRange == [first |-> -1, last |-> -1]

parseRange(h) ==
  {r \in {[first |-> h.first, last |-> h.last]} :
     /\ h.unit = "bytes" /\ h.ranges = 1
     /\ r # NoRange
     /\ r.first >= 0 /\ r.last >= 0 => r.first <= r.last}

(* bytes=-n: the last n. *)
suffix(r) == r.first < 0

resolveRange(r, size) ==
  IF suffix(r)
  THEN {s \in {[offset |-> size - Min({r.last, size}), length |-> Min({r.last, size})]} : s.length > 0}
  ELSE LET end == IF r.last < 0 THEN size - 1 ELSE Min({r.last, size - 1})
       IN  {s \in {[offset |-> r.first, length |-> end - r.first + 1]} : r.first < size}

(* R2 says what it returned in one of three forms. *)
reported(s, size) ==
  {[form |-> "both", offset |-> s.offset, length |-> s.length, suffix |-> 0]}
    \cup {x \in {[form |-> "offset", offset |-> s.offset, length |-> 0, suffix |-> 0]} : s.offset + s.length = size}
    \cup {x \in {[form |-> "length", offset |-> 0, length |-> s.length, suffix |-> 0]} : s.offset = 0}
    \cup {x \in {[form |-> "suffix", offset |-> 0, length |-> 0, suffix |-> s.length]} : s.offset + s.length = size}

returnedRange(x, size) ==
  IF x.form = "suffix" THEN [offset |-> size - Min({x.suffix, size}), length |-> Min({x.suffix, size})]
  ELSE [offset |-> IF x.form = "length" THEN 0 ELSE x.offset,
        length |-> IF x.form = "offset" THEN size - x.offset ELSE x.length]

-----------------------------------------------------------------------------
(* The cache rule by what a path is: a manifest or an index always         *)
(* revalidates, also under a digest; else a digest- or size-named file     *)
(* never does.                                                             *)
isImmutable(path) == ~path.manifest /\ path.digestNamed

cacheControl(path, status, forced, errors) ==
  IF forced # "" THEN forced
  ELSE IF status >= 400 /\ errors # "" THEN errors
  ELSE IF isImmutable(path) THEN "immutable" ELSE "revalidate"

(* artifactKey: none for an unsafe path. *)
artifactKey(path, prefix) == {k \in {<<prefix, path.name>>} : path.safe}

(* releaseRel: the release mounts the path and the site does not own it. *)
releaseRel(cfg, path) == cfg.release # "" /\ path.mounted /\ ~path.siteOwned

(* The keys serveArtifact looks up, in order; <<>>: refused before any. *)
keysFor(cfg, path) ==
  LET site == <<cfg.prefix, path.name>>
  IN  IF releaseRel(cfg, path)
      THEN IF ~path.safe THEN <<>>
           ELSE IF cfg.releaseFallback THEN << <<cfg.release, path.name>>, site>>
                ELSE << <<cfg.release, path.name>> >>
      ELSE IF cfg.rejectUnsafeKeys /\ artifactKey(path, cfg.prefix) = {} THEN <<>> ELSE <<site>>

(* lookup: the first key that answers; it is the only one used after. *)
lookup(bucket, keys) ==
  {k \in {keys[i] : i \in {j \in DOMAIN keys :
      keys[j] \in DOMAIN bucket /\ \A l \in 1 .. j - 1 : keys[l] \notin DOMAIN bucket}} : TRUE}

-----------------------------------------------------------------------------
(* An answer: part is the bytes its body holds, said what its headers say  *)
(* of them; etag and size of the object it is of.                          *)
Nothing == [offset |-> 0, length |-> 0]
Answer(status, object, part, said, cache) ==
  [status |-> status, etag |-> object.etag, size |-> object.size, part |-> part, said |-> said,
   cache |-> cache]
Plain(status, cache) == Answer(status, [etag |-> "", size |-> 0], Nothing, Nothing, cache)
Full(object) == [offset |-> 0, length |-> object.size]

(* The get that follows: the bytes R2 returns, ranged or not (a range it   *)
(* cannot serve any more: the whole object, or a throw, answered 500).     *)
served(bucket, key, ranges, ok, miss) ==
  IF key \notin DOMAIN bucket THEN {miss}
  ELSE LET object == bucket[key]
           whole  == Answer(200, object, Full(object), Full(object), ok)
       IN  IF ranges = {} THEN {whole}
           ELSE LET parts == UNION {resolveRange(r, object.size) : r \in ranges}
                IN  IF parts = {} THEN {whole, Plain(500, "no-store")}
                    ELSE {Answer(206, object, s, returnedRange(x, object.size), ok) :
                            s \in parts, x \in UNION {reported(p, object.size) : p \in parts}}

(* serveArtifact: bucket1 is read first, bucket2 for the bytes (or for the *)
(* only read there is).                                                    *)
serveArtifact(cfg, request, bucket1, bucket2) ==
  LET path   == request.path
      mapped == releaseRel(cfg, path)
      errors == IF mapped THEN "no-store" ELSE ""
      ok     == cacheControl(path, 200, "", cfg.errorCacheControl)
      Fail(status, forced) == Plain(status, cacheControl(path, status, forced, cfg.errorCacheControl))
      miss   == Fail(404, errors)
      keys   == keysFor(cfg, path)
      spec   == IF cfg.ranges /\ request.method = "GET" THEN parseRange(request.range) ELSE {}
      found  == lookup(bucket1, keys)
      meta   == bucket1[CHOOSE k \in found : TRUE]
      kept   == {r \in spec : request.ifRange \in {"", meta.etag}}
      only   == lookup(bucket2, keys)
  IN  IF keys = <<>> THEN {miss}
      ELSE IF request.method \notin cfg.artifactMethods THEN {Fail(405, errors)}
      ELSE IF spec # {} THEN
             IF found = {} THEN {miss}
             ELSE IF kept # {} /\ UNION {resolveRange(r, meta.size) : r \in kept} = {}
                  THEN {Fail(416, "no-store")}
             ELSE served(bucket2, CHOOSE k \in found : TRUE, kept, ok, miss)
      ELSE IF only = {} THEN {miss}
      ELSE IF request.method = "HEAD" /\ cfg.artifactHead = "metadata"
           THEN {Answer(200, bucket2[k], Nothing, Full(bucket2[k]), ok) : k \in only}
      ELSE served(bucket2, CHOOSE k \in only : TRUE, {}, ok, miss)
=============================================================================
