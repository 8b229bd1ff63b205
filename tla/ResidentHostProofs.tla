-------------------------- MODULE ResidentHostProofs --------------------------
(***************************************************************************)
(* The resident host: the FileWorker's stream stays legal, the status and  *)
(* the diagnostics belong to the text they are shown for, and no request   *)
(* is lost or doubled, for every number of texts and requests, every ring  *)
(* and every set of oversized and refused texts.                           *)
(***************************************************************************)
EXTENDS ResidentHost, FiniteSetTheorems, SequenceTheorems, NaturalsInduction, TLAPS

-----------------------------------------------------------------------------
(* The messages behind the front door: requests, texts, initialize.  Only   *)
(* a text has a version.                                                    *)
Requested == [m : {"request", "completion", "importCompletion"}, v : {0}, n : {0}, id : Ids]
Texts     == [m : {"open", "change"}, v : Nat \ {0}, n : Nat, id : {NoId}]
Msgs      == Requested \cup Texts \cup {Initialize}

(* The front door between two steps.                                        *)
Doors == [phase : {"booting", "ready", "open", "dead"}, queue : Seq(Msgs), backlog : Seq(Msgs),
          ringBusy : BOOLEAN, doc : Nat, base : Nat, lastVersion : Int,
          progress : [version : Int, at : {"none", "working", "drained", "fatal"}],
          header : {"none", "covered", "refused"},
          writes : {<<>>}, replies : {<<>>}, start : {FALSE}]

(* The machine in a step: with the effects of the step so far.              *)
Steps == [phase : {"booting", "ready", "open", "dead"}, queue : Seq(Msgs), backlog : Seq(Msgs),
          ringBusy : BOOLEAN, doc : Nat, base : Nat, lastVersion : Int,
          progress : [version : Int, at : {"none", "working", "drained", "fatal"}],
          header : {"none", "covered", "refused"},
          writes : Seq(Msgs), replies : Seq(Msgs), start : BOOLEAN]

Workers == [at : {"start", "initialized", "open", "broken"}, v : Nat, n : Nat,
            headed : BOOLEAN, held : SUBSET Ids]

(* What the FileWorker writes.                                              *)
Says ==
  [m : {"header"}, v : Nat \ {0}, n : Nat, id : {NoId}, at : {"covered", "refused"}]
  \cup [m : {"progress"}, v : Nat \ {0}, n : Nat, id : {NoId}, at : {"working", "drained", "fatal"}]
  \cup [m : {"diagnostics"}, v : Nat \ {0}, n : Nat, id : {NoId}, at : {"none"}]
Tells == [m : {"answer"}, v : {0}, n : {0}, id : Ids, at : {"none"}]

Typed ==
  /\ fd \in Doors /\ fw \in Workers
  /\ fifo \in Seq(Msgs) /\ ring \in Seq(Msgs) /\ Len(ring) <= RingCap
  /\ armed \in BOOLEAN /\ dead \in BOOLEAN
  /\ stdout \in {Silent} \cup Says \cup Tells
  /\ clientDoc \in [v : Nat, n : Nat]
  /\ sent \in SUBSET Ids /\ answered \in [Ids -> Nat]

(* The versions in a queue rise, all those of one queue are below those of  *)
(* another; they are over lo and at most hi, and hi is the text n.          *)
Rises(q) == \A j, k \in DOMAIN q : j < k /\ q[j].v # 0 /\ q[k].v # 0 => q[j].v < q[k].v
Below(p, q) == \A j \in DOMAIN p, k \in DOMAIN q : p[j].v # 0 /\ q[k].v # 0 => p[j].v < q[k].v
Dated(q, lo, hi, n) ==
  \A k \in DOMAIN q : q[k].v # 0 => lo < q[k].v /\ q[k].v <= hi /\ (q[k].v = hi => q[k].n = n)

(* A queue the FileWorker reads next: what it expects comes first, and      *)
(* never again.                                                             *)
NoLead(q) == \A k \in DOMAIN q : q[k].m \notin {"initialize", "open"}
LeadsAll(q) ==
  /\ q # <<>> /\ q[1] = Initialize
  /\ \A k \in DOMAIN q : k > 1 => q[k].m # "initialize"
  /\ \A k \in DOMAIN q : q[k].m = "open" => k = 2
  /\ OpensFit => 2 \in DOMAIN q /\ q[2].m = "open"
LeadsOpen(q) ==
  /\ \A k \in DOMAIN q : q[k].m # "initialize"
  /\ \A k \in DOMAIN q : q[k].m = "open" => k = 1
  /\ OpensFit => 1 \in DOMAIN q /\ q[1].m = "open"
Leads(q, at) ==
  /\ at = "start" => LeadsAll(q)
  /\ at = "initialized" => LeadsOpen(q)
  /\ at = "open" => NoLead(q)

(* What flows to the FileWorker, which has the text n at version v: the     *)
(* line at the ring, then what the front door holds back.  The last version *)
(* given out is `last`, for the client's text cn.                           *)
Flow(line, back, at, v, n, last, cn) ==
  /\ line \in Seq(Msgs) /\ back \in Seq(Msgs)
  /\ Leads(line, at) /\ NoLead(back)
  /\ Rises(line) /\ Rises(back) /\ Below(line, back)
  /\ Dated(line, v, last, cn) /\ Dated(back, v, last, cn)
  /\ v <= last /\ (v = last => n = cn)

(* What is said of a text is said of the FileWorker's, or of an older one.  *)
Said(v, n, at) ==
  /\ fw.at = "open" /\ v <= fw.v
  /\ v = fw.v => n = fw.n
  /\ at = "drained" => n \notin RefusedTexts

Closed ==
  /\ ring = <<>> /\ fifo = <<>> /\ fd.backlog = <<>> /\ ~fd.ringBusy
  /\ fd.doc = 0 /\ fd.progress = NoProgress /\ fd.header = "none"
  /\ fw.at = "start" /\ fw.v = 0 /\ fw.held = {} /\ stdout = Silent
  /\ fd.phase = "ready" => clientDoc.v = 0
  /\ clientDoc.v = 0 => fd.queue \in Seq(Requested)
  /\ \A k \in DOMAIN fd.queue : fd.queue[k].m # "initialize"

Running ==
  /\ fd.queue = <<>> /\ clientDoc.v # 0 /\ fd.doc = clientDoc.v
  /\ fd.lastVersion = fd.doc + fd.base
  /\ fd.ringBusy <=> fifo # <<>>
  /\ ~fd.ringBusy => fd.backlog = <<>>
  /\ Flow(ring \o fifo, fd.backlog, fw.at, fw.v, fw.n, fd.lastVersion, clientDoc.n)
  /\ fw.at = "open" => fw.v # 0
  /\ stdout # Silent =>
       /\ fw.at = "open"
       /\ stdout.m # "answer" => Said(stdout.v, stdout.n, stdout.at)
  /\ fd.progress # NoProgress => \E n \in Nat : Said(fd.progress.version, n, fd.progress.at)

IInv ==
  /\ Typed
  /\ armed <=> fd.phase # "booting"
  /\ dead <=> fd.phase = "dead"
  /\ dead => fifo = <<>>
  /\ fw.at = "broken" => ~OpensFit
  /\ fd.phase \in {"booting", "ready"} => Closed
  /\ fd.phase = "open" => Running

(* Where request i is, counted; until the session dies, it is in one place. *)
AtDoor(i) == At(i, fd.queue) + At(i, fd.backlog)
OnWay(i)  == At(i, ring) + At(i, fifo)
There(i)  == (IF i \in fw.held THEN 1 ELSE 0) + (IF stdout.id = i THEN 1 ELSE 0)
Tally(i)  == AtDoor(i) + OnWay(i) + There(i) + answered[i]
Kept == ~dead /\ OpensFit => \A i \in Ids : Tally(i) = IF i \in sent THEN 1 ELSE 0

(* A set of naturals has a least element.                                   *)
LEMMA LeastNat ==
  ASSUME NEW T \in SUBSET Nat, T # {}
  PROVE  \E m \in T : \A x \in T : m <= x
<1>1. \E m \in T : \A x \in T : ~(<<x, m>> \in OpToRel(<, Nat))
  BY NatLessThanWellFounded, WFMin
<1>2. PICK m \in T : \A x \in T : ~(<<x, m>> \in OpToRel(<, Nat))
  BY <1>1
<1>3. \A x \in T : x < m => <<x, m>> \in OpToRel(<, Nat)
  BY DEF OpToRel
<1>4. \A x \in T : ~(x < m)
  BY <1>2, <1>3
<1>5. \A x \in T : x \in Nat /\ m \in Nat
  OBVIOUS
<1> QED BY <1>4, <1>5

(* The length of a sequence.                                                *)
LEMMA SeqIs ==
  ASSUME NEW F, NEW s \in Seq(F)
  PROVE  /\ Len(s) \in Nat /\ DOMAIN s = 1..Len(s)
         /\ \A k \in DOMAIN s : s[k] \in F
BY LenProperties, ElementOfSeq

(* Frames in a list, in its order: those at the positions `at`.             *)
Picks(p, list, at) ==
  \E g \in [DOMAIN p -> at] :
    /\ \A k \in DOMAIN p : p[k] = list[g[k]]
    /\ \A j, k \in DOMAIN p : j < k => g[j] < g[k]
    /\ \A i \in at : \E k \in DOMAIN p : g[k] = i

(* The frames picked are the list's at those positions, in their order.    *)
LEMMA PickedIs ==
  ASSUME NEW F, NEW list \in Seq(F), NEW at \in SUBSET DOMAIN list
  PROVE  Picked(list, at) \in Seq(F) /\ Picks(Picked(list, at), list, at)
<1> DEFINE upTo(i) == {j \in at : j <= i}
           rank(i) == Cardinality(upTo(i))
           m == Cardinality(at)
<1>1. IsFiniteSet(at) /\ m \in Nat /\ \A i \in at : i \in Nat
  <2>1. Len(list) \in Nat /\ DOMAIN list = 1..Len(list)
    BY LenProperties
  <2>2. IsFiniteSet(1..Len(list))
    BY <2>1, FS_Interval
  <2>3. IsFiniteSet(at)
    BY <2>1, <2>2, FS_Subset
  <2> QED BY <2>1, <2>3, FS_CardinalityType
<1>2. ASSUME NEW i \in at PROVE IsFiniteSet(upTo(i)) /\ rank(i) \in 1..m
  <2>1. upTo(i) \in SUBSET at /\ i \in upTo(i)
    BY <1>1
  <2>2. IsFiniteSet(upTo(i)) /\ rank(i) <= m
    BY <1>1, <2>1, FS_Subset
  <2>3. rank(i) \in Nat /\ rank(i) # 0
    BY <2>1, <2>2, FS_CardinalityType, FS_EmptySet
  <2> QED BY <1>1, <2>2, <2>3
<1> HIDE DEF rank, upTo, m
<1>3. ASSUME NEW i \in at, NEW j \in at, i < j PROVE rank(i) < rank(j)
  <2>1. upTo(i) \in SUBSET upTo(j) /\ j \in upTo(j) /\ j \notin upTo(i)
    BY <1>1, <1>3 DEF upTo
  <2>2. rank(i) <= rank(j) /\ (rank(i) = rank(j) => upTo(i) = upTo(j))
    BY <1>2, <2>1, FS_Subset DEF rank
  <2>3. rank(i) \in Nat /\ rank(j) \in Nat
    BY <1>1, <1>2
  <2> QED BY <2>1, <2>2, <2>3
<1> DEFINE f == [i \in at |-> rank(i)]
<1>4. ASSUME NEW i \in at, NEW j \in at, rank(i) = rank(j) PROVE i = j
  <2>1. i \in Nat /\ j \in Nat /\ rank(i) \in Int
    BY <1>1, <1>2
  <2> QED BY <1>3, <1>4, <2>1
<1>5. f \in Injection(at, 1..m)
  <2>1. f \in [at -> 1..m]
    BY <1>2
  <2>2. \A i, j \in at : f[i] = f[j] => i = j
    BY <1>4
  <2> QED BY <2>1, <2>2 DEF Injection, IsInjective
<1>6. IsFiniteSet(1..m) /\ Cardinality(1..m) = m
  <2>1. 1 \in Int /\ m \in Int /\ (1 > m => m = 0)
    BY <1>1
  <2>2. IsFiniteSet(1..m) /\ Cardinality(1..m) = IF 1 > m THEN 0 ELSE m - 1 + 1
    BY <2>1, FS_Interval
  <2> QED BY <2>1, <2>2
<1>7. ASSUME NEW k \in 1..m PROVE \E i \in at : rank(i) = k
  <2>1. f \in Surjection(at, 1..m)
    BY <1>1, <1>5, <1>6, FS_Injection DEF m
  <2> QED BY <2>1 DEF Surjection
<1> DEFINE g == [k \in 1..m |-> CHOOSE i \in at : rank(i) = k]
<1>8. ASSUME NEW k \in 1..m PROVE g[k] \in at /\ rank(g[k]) = k
  BY <1>7
<1>9. Picked(list, at) = [k \in 1..m |-> list[g[k]]]
  BY DEF Picked, rank, upTo, m
<1> HIDE DEF g, f
<1>10. \A i \in at : list[i] \in F
  BY ElementOfSeq, LenProperties
<1>11. Picked(list, at) \in [1..m -> F]
  BY <1>8, <1>9, <1>10
<1>12. Picked(list, at) \in Seq(F) /\ DOMAIN Picked(list, at) = 1..m
  BY <1>1, <1>11, SeqDef
<1>13. g \in [1..m -> at]
  BY <1>8 DEF g
<1>14. ASSUME NEW j \in 1..m, NEW k \in 1..m, j < k PROVE g[j] < g[k]
  <2>1. g[j] \in at /\ g[k] \in at /\ rank(g[j]) = j /\ rank(g[k]) = k /\ g[j] \in Nat /\ g[k] \in Nat /\ j \in Int /\ k \in Int
    BY <1>1, <1>8
  <2>2. g[k] # g[j] /\ ~(g[k] < g[j])
    BY <1>3, <1>14, <2>1
  <2> QED BY <2>1, <2>2
<1>15. ASSUME NEW i \in at PROVE rank(i) \in 1..m /\ g[rank(i)] = i
  BY <1>2, <1>4, <1>8
<1>16. \A k \in 1..m : Picked(list, at)[k] = list[g[k]]
  BY <1>9
<1>17. /\ \A k \in DOMAIN Picked(list, at) : Picked(list, at)[k] = list[g[k]]
       /\ \A j, k \in DOMAIN Picked(list, at) : j < k => g[j] < g[k]
       /\ \A i \in at : \E k \in DOMAIN Picked(list, at) : g[k] = i
  BY <1>12, <1>14, <1>15, <1>16
<1> QED BY <1>12, <1>13, <1>17 DEF Picks

-----------------------------------------------------------------------------
(* Sets that a function pairs off have as many elements.                    *)
LEMMA SameCount ==
  ASSUME NEW S, NEW T, IsFiniteSet(S), NEW f \in [S -> T],
         \A x, y \in S : f[x] = f[y] => x = y, \A t \in T : \E x \in S : f[x] = t
  PROVE  IsFiniteSet(T) /\ Cardinality(T) = Cardinality(S)
<1>1. f \in Bijection(S, T)
  <2>1. f \in Injection(S, T)
    BY DEF Injection, IsInjective
  <2>2. f \in Surjection(S, T)
    BY DEF Surjection
  <2> QED BY <2>1, <2>2 DEF Bijection
<1>2. ExistsBijection(S, T)
  BY <1>1 DEF ExistsBijection
<1> QED BY <1>2, FS_Bijection

(* The places of request i in a queue.                                      *)
Places(i, q) == {k \in DOMAIN q : q[k].id = i}

(* A request is somewhere in a queue a natural number of times.             *)
LEMMA AtIs ==
  ASSUME NEW S, NEW q \in Seq(S), NEW i
  PROVE  IsFiniteSet(Places(i, q)) /\ At(i, q) \in Nat /\ At(i, q) = Cardinality(Places(i, q))
<1>1. Len(q) \in Nat /\ DOMAIN q = 1..Len(q)
  BY SeqIs
<1>2. IsFiniteSet(DOMAIN q)
  BY <1>1, FS_Interval
<1>3. Places(i, q) \in SUBSET DOMAIN q
  BY DEF Places
<1>4. IsFiniteSet(Places(i, q))
  BY <1>2, <1>3, FS_Subset
<1>5. At(i, q) = Cardinality(Places(i, q))
  BY DEF At, Places
<1> QED BY <1>4, <1>5, FS_CardinalityType

(* In an empty queue it is nowhere.                                         *)
LEMMA AtNone ==
  ASSUME NEW i PROVE At(i, <<>>) = 0
<1>1. {k \in DOMAIN <<>> : <<>>[k].id = i} = {}
  OBVIOUS
<1> QED BY <1>1, FS_EmptySet DEF At

(* A request that is in a queue counts.                                     *)
LEMMA AtSome ==
  ASSUME NEW S, NEW q \in Seq(S), NEW k \in DOMAIN q
  PROVE  At(q[k].id, q) # 0
<1>1. k \in Places(q[k].id, q)
  BY DEF Places
<1> QED BY <1>1, AtIs, FS_EmptySet

(* Two queues in one have what both had.                                    *)
LEMMA AtConcat ==
  ASSUME NEW S, NEW p \in Seq(S), NEW q \in Seq(S), NEW i
  PROVE  At(i, p \o q) = At(i, p) + At(i, q)
<1> DEFINE m == Len(p)
           moved == {k \in (m + 1)..(m + Len(q)) : (p \o q)[k].id = i}
<1>1. m \in Nat /\ Len(q) \in Nat /\ DOMAIN p = 1..m /\ DOMAIN q = 1..Len(q)
  BY SeqIs
<1>2. p \o q \in Seq(S) /\ DOMAIN (p \o q) = 1..(m + Len(q))
  BY ConcatProperties, SeqIs
<1>3. /\ \A k \in 1..m : (p \o q)[k] = p[k]
      /\ \A k \in 1..Len(q) : (p \o q)[m + k] = q[k]
  <2>1. \A k \in 1..(m + Len(q)) : (p \o q)[k] = IF k <= m THEN p[k] ELSE q[k - m]
    BY ConcatProperties
  <2>2. ASSUME NEW k \in 1..Len(q) PROVE (p \o q)[m + k] = q[k]
    <3>1. m + k \in 1..(m + Len(q)) /\ ~(m + k <= m) /\ m + k - m = k
      BY <1>1
    <3> QED BY <2>1, <3>1
  <2>3. ASSUME NEW k \in 1..m PROVE (p \o q)[k] = p[k]
    <3>1. k \in 1..(m + Len(q)) /\ k <= m
      BY <1>1
    <3> QED BY <2>1, <3>1
  <2> QED BY <2>2, <2>3
<1>4. Places(i, p \o q) = Places(i, p) \cup moved
  <2>1. 1..(m + Len(q)) = (1..m) \cup ((m + 1)..(m + Len(q)))
    BY <1>1
  <2> QED BY <1>1, <1>2, <1>3, <2>1 DEF Places
<1>5. Places(i, p) \cap moved = {}
  BY <1>1 DEF Places
<1> DEFINE f == [k \in Places(i, q) |-> m + k]
<1>6. f \in [Places(i, q) -> moved]
  <2>1. ASSUME NEW k \in Places(i, q) PROVE m + k \in moved
    <3>1. k \in 1..Len(q) /\ q[k].id = i
      BY <1>1 DEF Places
    <3>2. m + k \in (m + 1)..(m + Len(q)) /\ (p \o q)[m + k] = q[k]
      BY <1>1, <1>3, <3>1
    <3> QED BY <3>1, <3>2
  <2> QED BY <2>1
<1>7. \A x, y \in Places(i, q) : f[x] = f[y] => x = y
  BY <1>1 DEF Places
<1>8. \A t \in moved : \E x \in Places(i, q) : f[x] = t
  <2>1. ASSUME NEW t \in moved PROVE \E x \in Places(i, q) : f[x] = t
    <3>1. t - m \in 1..Len(q) /\ m + (t - m) = t /\ (p \o q)[t].id = i
      BY <1>1
    <3>2. (p \o q)[t] = q[t - m]
      BY <1>3, <3>1
    <3>3. t - m \in Places(i, q)
      BY <1>1, <3>1, <3>2 DEF Places
    <3> QED BY <3>1, <3>3
  <2> QED BY <2>1
<1>9. IsFiniteSet(Places(i, q)) /\ IsFiniteSet(Places(i, p))
  BY AtIs
<1> HIDE DEF f, moved
<1>10. IsFiniteSet(moved) /\ Cardinality(moved) = Cardinality(Places(i, q))
  BY <1>6, <1>7, <1>8, <1>9, SameCount
<1>11. Cardinality(Places(i, p) \cup moved) = Cardinality(Places(i, p)) + Cardinality(moved) - 0
  BY <1>5, <1>9, <1>10, FS_Union, FS_EmptySet
<1>12. /\ At(i, p) = Cardinality(Places(i, p)) /\ At(i, q) = Cardinality(Places(i, q))
       /\ At(i, p \o q) = Cardinality(Places(i, p \o q))
       /\ At(i, p) \in Nat /\ At(i, q) \in Nat
  BY <1>2, AtIs
<1> QED BY <1>4, <1>10, <1>11, <1>12

(* A queue of one frame.                                                    *)
LEMMA AtOne ==
  ASSUME NEW x, NEW i
  PROVE  At(i, <<x>>) = IF x.id = i THEN 1 ELSE 0
<1>1. DOMAIN <<x>> = {1} /\ <<x>>[1] = x
  OBVIOUS
<1>2. CASE x.id = i
  <2>1. {k \in DOMAIN <<x>> : <<x>>[k].id = i} = {1}
    BY <1>1, <1>2
  <2> QED BY <1>2, <2>1, FS_Singleton DEF At
<1>3. CASE x.id # i
  <2>1. {k \in DOMAIN <<x>> : <<x>>[k].id = i} = {}
    BY <1>1, <1>3
  <2> QED BY <1>3, <2>1, FS_EmptySet DEF At
<1> QED BY <1>2, <1>3

(* A frame behind a queue.                                                  *)
LEMMA AtAppend ==
  ASSUME NEW S, NEW q \in Seq(S), NEW x \in S, NEW i
  PROVE  At(i, Append(q, x)) = At(i, q) + IF x.id = i THEN 1 ELSE 0
<1>1. Append(q, x) = q \o <<x>> /\ <<x>> \in Seq(S)
  BY AppendIsConcat
<1>2. At(i, <<x>>) = IF x.id = i THEN 1 ELSE 0
  BY AtOne
<1>3. At(i, q \o <<x>>) = At(i, q) + At(i, <<x>>)
  BY <1>1, AtConcat
<1> QED BY <1>1, <1>2, <1>3

(* The frame read first leaves the queue.                                   *)
LEMMA AtTail ==
  ASSUME NEW S, NEW q \in Seq(S), q # <<>>, NEW i
  PROVE  At(i, q) = At(i, Tail(q)) + IF Head(q).id = i THEN 1 ELSE 0
<1>1. Head(q) \in S /\ Tail(q) \in Seq(S)
  BY HeadTailProperties
<1>2. q = <<Head(q)>> \o Tail(q)
  OBVIOUS
<1>3. <<Head(q)>> \in Seq(S)
  BY <1>1
<1>4. At(i, q) = At(i, <<Head(q)>>) + At(i, Tail(q))
  BY <1>1, <1>2, <1>3, AtConcat
<1>5. At(i, <<Head(q)>>) = IF Head(q).id = i THEN 1 ELSE 0
  BY AtOne
<1>6. At(i, Tail(q)) \in Nat
  BY <1>1, AtIs
<1> QED BY <1>4, <1>5, <1>6

(* Frames that are no replies to i may be left out.                         *)
LEMMA AtPicked ==
  ASSUME NEW S, NEW q \in Seq(S), NEW at \in SUBSET DOMAIN q, NEW i,
         \A k \in DOMAIN q : q[k].id = i => k \in at
  PROVE  At(i, Picked(q, at)) = At(i, q)
<1> DEFINE p == Picked(q, at)
<1>1. p \in Seq(S) /\ Picks(p, q, at)
  BY PickedIs
<1> HIDE DEF p
<1>2. PICK g \in [DOMAIN p -> at] :
        /\ \A k \in DOMAIN p : p[k] = q[g[k]]
        /\ \A j, k \in DOMAIN p : j < k => g[j] < g[k]
        /\ \A l \in at : \E k \in DOMAIN p : g[k] = l
  BY <1>1 DEF Picks
<1>3. Len(p) \in Nat /\ DOMAIN p = 1..Len(p) /\ Len(q) \in Nat /\ DOMAIN q = 1..Len(q)
  BY <1>1, SeqIs
<1> DEFINE f == [k \in Places(i, p) |-> g[k]]
<1>4. f \in [Places(i, p) -> Places(i, q)]
  BY <1>2 DEF Places
<1>5. \A x, y \in Places(i, p) : f[x] = f[y] => x = y
  <2>1. ASSUME NEW x \in DOMAIN p, NEW y \in DOMAIN p, g[x] = g[y] PROVE x = y
    <3>1. g[x] \in DOMAIN q /\ g[y] \in DOMAIN q
      BY <1>2, <2>1
    <3>2. g[x] \in Int /\ g[y] \in Int /\ x \in Int /\ y \in Int
      BY <1>3, <2>1, <3>1
    <3>3. ~(x < y) /\ ~(y < x)
      BY <1>2, <2>1, <3>2
    <3> QED BY <3>2, <3>3
  <2> QED BY <2>1 DEF Places
<1>6. \A t \in Places(i, q) : \E x \in Places(i, p) : f[x] = t
  <2>1. ASSUME NEW t \in Places(i, q) PROVE \E x \in Places(i, p) : f[x] = t
    <3>1. t \in at /\ q[t].id = i
      BY DEF Places
    <3>2. PICK k \in DOMAIN p : g[k] = t
      BY <1>2, <3>1
    <3>3. k \in Places(i, p)
      BY <1>2, <3>1, <3>2 DEF Places
    <3> QED BY <3>2, <3>3
  <2> QED BY <2>1
<1>7. IsFiniteSet(Places(i, p)) /\ At(i, p) = Cardinality(Places(i, p)) /\ At(i, q) = Cardinality(Places(i, q))
  BY <1>1, AtIs
<1> HIDE DEF f
<1>8. Cardinality(Places(i, q)) = Cardinality(Places(i, p))
  BY <1>4, <1>5, <1>6, <1>7, SameCount
<1> QED BY <1>7, <1>8 DEF p

(* f is the fold of a queue: its k-th value is the machine's state after k  *)
(* frames, from the state b.                                                *)
HeldFold(f, b, q, n) ==
  f = [k \in 0..n |-> IF k = 0 THEN b ELSE AdmitHeld(f[k - 1], q[k])]
DrainFold(f, b, q, n) ==
  f = [k \in 0..n |-> IF k = 0 THEN b ELSE admit(f[k - 1], q[k])]

(* The frames of a queue through the machine: the fold exists.              *)
LEMMA HeldExists ==
  ASSUME NEW b, NEW q, NEW n \in Nat
  PROVE  \E f : HeldFold(f, b, q, n)
<1> DEFINE Is(f, m) == f = [k \in 0..m |-> IF k = 0 THEN b ELSE AdmitHeld(f[k - 1], q[k])]
           T == {m \in Nat : ~(\E f : Is(f, m))}
<1>1. SUFFICES ASSUME T # {} PROVE FALSE
  BY <1>1 DEF HeldFold
<1>2. PICK m \in T : \A x \in T : m <= x
  BY <1>1, LeastNat
<1>3. CASE m = 0
  <2>1. Is([k \in 0..0 |-> b], 0)
    OBVIOUS
  <2> QED BY <1>2, <1>3, <2>1
<1>4. CASE m # 0
  <2>1. m - 1 \in Nat /\ m - 1 \notin T /\ m \in Nat
    <3>1. m \in Nat
      BY <1>2
    <3> HIDE DEF T
    <3> QED BY <1>2, <1>4, <3>1
  <2>2. PICK f : Is(f, m - 1)
    BY <2>1
  <2> DEFINE g == [k \in 0..m |-> IF k < m THEN f[k] ELSE AdmitHeld(f[m - 1], q[m])]
  <2>3. ASSUME NEW k \in 0..m
        PROVE  g[k] = IF k = 0 THEN b ELSE AdmitHeld(g[k - 1], q[k])
    <3>1. CASE k < m
      <4>1. k \in 0..m - 1 /\ (k # 0 => k - 1 \in 0..m /\ k - 1 < m)
        BY <2>1, <3>1
      <4>2. f[k] = IF k = 0 THEN b ELSE AdmitHeld(f[k - 1], q[k])
        BY <2>2, <4>1
      <4>3. g[k] = f[k] /\ (k # 0 => g[k - 1] = f[k - 1])
        BY <3>1, <4>1
      <4> QED BY <4>2, <4>3
    <3>2. CASE ~(k < m)
      <4>1. k = m /\ k # 0 /\ m - 1 \in 0..m /\ m - 1 < m
        BY <1>4, <2>1, <3>2
      <4>2. g[k] = AdmitHeld(f[m - 1], q[m]) /\ g[m - 1] = f[m - 1]
        BY <3>2, <4>1
      <4> QED BY <4>1, <4>2
    <3> QED BY <3>1, <3>2
  <2>4. g = [k \in 0..m |-> IF k = 0 THEN b ELSE AdmitHeld(g[k - 1], q[k])]
    <3>1. g = [k \in 0..m |-> g[k]]
      OBVIOUS
    <3> QED BY <2>3, <3>1
  <2> QED BY <1>2, <2>4
<1> QED BY <1>3, <1>4

(* Opening the loop folds the queue over the opened state.                  *)
LEMMA OpenLoopIs ==
  ASSUME NEW s, NEW msg, Len(s.queue) \in Nat
  PROVE  \E f : /\ f[0] = Opened(s, msg)
                /\ \A k \in 1..Len(s.queue) : f[k] = AdmitHeld(f[k - 1], s.queue[k])
                /\ OpenLoop(s, msg) = f[Len(s.queue)]
<1> DEFINE n == Len(s.queue)
           b == Opened(s, msg)
           h == CHOOSE f : HeldFold(f, b, s.queue, n)
<1>3. n \in Nat
  OBVIOUS
<1> HIDE DEF n, b
<1>1. HeldFold(h, b, s.queue, n)
  BY <1>3, HeldExists
<1>2. OpenLoop(s, msg) = h[n]
  BY DEF OpenLoop, HeldFold, b, n
<1> HIDE DEF h
<1>4. h[0] = b /\ \A k \in 1..n : h[k] = AdmitHeld(h[k - 1], s.queue[k])
  <2>1. 0 \in 0..n /\ \A k \in 1..n : k \in 0..n /\ k # 0
    BY <1>3
  <2> QED BY <1>1, <2>1 DEF HeldFold
<1> QED BY <1>2, <1>4 DEF n, b

(* The frames of a queue through admit(): the fold exists.                  *)
LEMMA DrainExists ==
  ASSUME NEW b, NEW q, NEW n \in Nat
  PROVE  \E f : DrainFold(f, b, q, n)
<1> DEFINE Is(f, m) == f = [k \in 0..m |-> IF k = 0 THEN b ELSE admit(f[k - 1], q[k])]
           T == {m \in Nat : ~(\E f : Is(f, m))}
<1>1. SUFFICES ASSUME T # {} PROVE FALSE
  BY <1>1 DEF DrainFold
<1>2. PICK m \in T : \A x \in T : m <= x
  BY <1>1, LeastNat
<1>3. CASE m = 0
  <2>1. Is([k \in 0..0 |-> b], 0)
    OBVIOUS
  <2> QED BY <1>2, <1>3, <2>1
<1>4. CASE m # 0
  <2>1. m - 1 \in Nat /\ m - 1 \notin T /\ m \in Nat
    <3>1. m \in Nat
      BY <1>2
    <3> HIDE DEF T
    <3> QED BY <1>2, <1>4, <3>1
  <2>2. PICK f : Is(f, m - 1)
    BY <2>1
  <2> DEFINE g == [k \in 0..m |-> IF k < m THEN f[k] ELSE admit(f[m - 1], q[m])]
  <2>3. ASSUME NEW k \in 0..m
        PROVE  g[k] = IF k = 0 THEN b ELSE admit(g[k - 1], q[k])
    <3>1. CASE k < m
      <4>1. k \in 0..m - 1 /\ (k # 0 => k - 1 \in 0..m /\ k - 1 < m)
        BY <2>1, <3>1
      <4>2. f[k] = IF k = 0 THEN b ELSE admit(f[k - 1], q[k])
        BY <2>2, <4>1
      <4>3. g[k] = f[k] /\ (k # 0 => g[k - 1] = f[k - 1])
        BY <3>1, <4>1
      <4> QED BY <4>2, <4>3
    <3>2. CASE ~(k < m)
      <4>1. k = m /\ k # 0 /\ m - 1 \in 0..m /\ m - 1 < m
        BY <1>4, <2>1, <3>2
      <4>2. g[k] = admit(f[m - 1], q[m]) /\ g[m - 1] = f[m - 1]
        BY <3>2, <4>1
      <4> QED BY <4>1, <4>2
    <3> QED BY <3>1, <3>2
  <2>4. g = [k \in 0..m |-> IF k = 0 THEN b ELSE admit(g[k - 1], q[k])]
    <3>1. g = [k \in 0..m |-> g[k]]
      OBVIOUS
    <3> QED BY <2>3, <3>1
  <2> QED BY <1>2, <2>4
<1> QED BY <1>3, <1>4

(* A drain folds the queue over the emptied state.                          *)
LEMMA DrainIs ==
  ASSUME NEW s, Len(s.queue) \in Nat
  PROVE  \E f : /\ f[0] = [s EXCEPT !.queue = <<>>]
                /\ \A k \in 1..Len(s.queue) : f[k] = admit(f[k - 1], s.queue[k])
                /\ drain(s) = f[Len(s.queue)]
<1> DEFINE n == Len(s.queue)
           b == [s EXCEPT !.queue = <<>>]
           h == CHOOSE f : DrainFold(f, b, s.queue, n)
<1>3. n \in Nat
  OBVIOUS
<1> HIDE DEF n, b
<1>1. DrainFold(h, b, s.queue, n)
  BY <1>3, DrainExists
<1>2. drain(s) = h[n]
  BY DEF drain, DrainFold, b, n
<1> HIDE DEF h
<1>4. h[0] = b /\ \A k \in 1..n : h[k] = admit(h[k - 1], s.queue[k])
  <2>1. 0 \in 0..n /\ \A k \in 1..n : k \in 0..n /\ k # 0
    BY <1>3
  <2> QED BY <1>1, <2>1 DEF DrainFold
<1> QED BY <1>2, <1>4 DEF n, b

-----------------------------------------------------------------------------
(* Which messages are which.                                                *)
LEMMA MsgIs ==
  ASSUME NEW x \in Msgs
  PROVE  /\ x.v \in Nat /\ x.n \in Nat /\ x.id \in Ids \cup {NoId}
         /\ x.v # 0 <=> x.m \in {"open", "change"}
         /\ x.m = "initialize" => x = Initialize
         /\ x.m \in {"open", "change"} => x \in Texts
         /\ x.m \notin {"initialize", "open", "change"} => x \in Requested
         /\ x.id \in Ids => x \in Requested
         /\ x.v = 0 => x.n = 0
         /\ x \in Requested => x.id \in Ids
<1>1. x \in Requested => x.m \in {"request", "completion", "importCompletion"} /\ x.v = 0 /\ x.n = 0 /\ x.id \in Ids
  BY DEF Requested
<1>2. x \in Texts => x.m \in {"open", "change"} /\ x.v \in Nat \ {0} /\ x.n \in Nat /\ x.id = NoId
  BY DEF Texts
<1>3. x = Initialize => x.m = "initialize" /\ x.v = 0 /\ x.n = 0 /\ x.id = NoId
  BY DEF Initialize, Message
<1>4. x \in Requested \/ x \in Texts \/ x = Initialize
  BY DEF Msgs
<1>5. NoId \notin Ids
  BY HostAssumption
<1> QED BY <1>1, <1>2, <1>3, <1>4, <1>5

(* A position in two queues is one of the first or one of the second.       *)
LEMMA ConcatAt ==
  ASSUME NEW S, NEW p \in Seq(S), NEW q \in Seq(S), NEW k \in DOMAIN (p \o q)
  PROVE  \/ k \in DOMAIN p /\ (p \o q)[k] = p[k]
         \/ k - Len(p) \in DOMAIN q /\ (p \o q)[k] = q[k - Len(p)] /\ \A j \in DOMAIN p : j < k
<1>1. Len(p) \in Nat /\ Len(q) \in Nat /\ DOMAIN p = 1..Len(p) /\ DOMAIN q = 1..Len(q)
  BY SeqIs
<1>2. p \o q \in Seq(S) /\ Len(p \o q) = Len(p) + Len(q)
  BY ConcatProperties
<1>3. DOMAIN (p \o q) = 1..(Len(p) + Len(q))
  BY <1>2, SeqIs
<1>4. \A i \in 1..(Len(p) + Len(q)) : (p \o q)[i] = IF i <= Len(p) THEN p[i] ELSE q[i - Len(p)]
  BY ConcatProperties
<1>5. k \in 1..(Len(p) + Len(q)) /\ k \in Int
  BY <1>1, <1>3
<1>6. CASE k <= Len(p)
  <2>1. (p \o q)[k] = p[k] /\ k \in DOMAIN p
    BY <1>1, <1>4, <1>5, <1>6
  <2> QED BY <2>1
<1>7. CASE ~(k <= Len(p))
  <2>1. (p \o q)[k] = q[k - Len(p)]
    BY <1>4, <1>5, <1>7
  <2>2. k - Len(p) \in DOMAIN q /\ \A j \in DOMAIN p : j < k
    BY <1>1, <1>5, <1>7
  <2> QED BY <2>1, <2>2
<1> QED BY <1>6, <1>7

(* What the front door held back follows what is in line.                   *)
LEMMA FlushFlow ==
  ASSUME NEW line, NEW back, NEW at, NEW v \in Nat, NEW n, NEW last \in Int, NEW cn,
         Flow(line, back, at, v, n, last, cn)
  PROVE  Flow(line \o back, <<>>, at, v, n, last, cn)
<1> DEFINE both == line \o back
<1>1. /\ line \in Seq(Msgs) /\ back \in Seq(Msgs) /\ Leads(line, at) /\ NoLead(back)
      /\ Rises(line) /\ Rises(back) /\ Below(line, back)
      /\ Dated(line, v, last, cn) /\ Dated(back, v, last, cn)
      /\ v <= last /\ (v = last => n = cn)
  BY DEF Flow
<1>2. both \in Seq(Msgs) /\ <<>> \in Seq(Msgs) /\ DOMAIN <<>> = {}
  BY <1>1, ConcatProperties
<1>3. /\ Len(line) \in Nat /\ Len(back) \in Nat /\ DOMAIN line = 1..Len(line) /\ DOMAIN back = 1..Len(back)
      /\ DOMAIN both = 1..Len(both) /\ Len(both) = Len(line) + Len(back)
      /\ \A k \in DOMAIN line : line[k] \in Msgs
      /\ \A k \in DOMAIN back : back[k] \in Msgs
  BY <1>1, <1>2, SeqIs, ConcatProperties
<1>4. \A k \in DOMAIN both :
        \/ k \in DOMAIN line /\ both[k] = line[k]
        \/ k - Len(line) \in DOMAIN back /\ both[k] = back[k - Len(line)] /\ \A j \in DOMAIN line : j < k
  BY <1>1, ConcatAt
<1>5. \A k \in DOMAIN line : k \in DOMAIN both /\ both[k] = line[k]
  <2>1. ASSUME NEW k \in DOMAIN line PROVE k \in DOMAIN both /\ ~(k - Len(line) \in DOMAIN back)
    BY <1>3
  <2> QED BY <1>4, <2>1
<1> HIDE DEF both
<1>6. Rises(both)
  <2>1. SUFFICES ASSUME NEW j \in DOMAIN both, NEW k \in DOMAIN both, j < k, both[j].v # 0, both[k].v # 0
                 PROVE  both[j].v < both[k].v
    BY DEF Rises
  <2>2. CASE k \in DOMAIN line
    <3>1. j \in DOMAIN line
      BY <1>3, <2>1, <2>2
    <3> QED BY <1>1, <1>5, <2>1, <2>2, <3>1 DEF Rises
  <2>3. CASE k \notin DOMAIN line /\ j \in DOMAIN line
    BY <1>1, <1>4, <1>5, <2>1, <2>3 DEF Below
  <2>4. CASE k \notin DOMAIN line /\ j \notin DOMAIN line
    <3>1. j - Len(line) \in DOMAIN back /\ k - Len(line) \in DOMAIN back /\ both[j] = back[j - Len(line)] /\ both[k] = back[k - Len(line)]
      BY <1>4, <2>4
    <3>2. j - Len(line) < k - Len(line)
      BY <1>3, <2>1
    <3> QED BY <1>1, <2>1, <3>1, <3>2 DEF Rises
  <2> QED BY <2>2, <2>3, <2>4
<1>7. Dated(both, v, last, cn)
  BY <1>1, <1>4 DEF Dated
<1>8. Leads(both, at)
  <2>0. /\ \A k \in DOMAIN both : k \notin DOMAIN line => both[k].m \notin {"initialize", "open"}
        /\ \A k \in DOMAIN both : k \in DOMAIN line => both[k] = line[k]
    BY <1>1, <1>4, <1>5 DEF NoLead
  <2>1. ASSUME at = "start" PROVE LeadsAll(both)
    <3>1. LeadsAll(line)
      BY <1>1, <2>1 DEF Leads
    <3>2. 1 \in DOMAIN line
      BY <1>1, <1>3, <3>1, EmptySeq DEF LeadsAll
    <3>3. both # <<>>
      BY <1>2, <1>5, <3>2
    <3> QED BY <1>5, <2>0, <3>1, <3>2, <3>3 DEF LeadsAll
  <2>2. ASSUME at = "initialized" PROVE LeadsOpen(both)
    <3>1. LeadsOpen(line)
      BY <1>1, <2>2 DEF Leads
    <3> QED BY <1>5, <2>0, <3>1 DEF LeadsOpen
  <2>3. at = "open" => NoLead(both)
    BY <1>1, <1>4 DEF Leads, NoLead
  <2> QED BY <2>1, <2>2, <2>3 DEF Leads
<1>9. NoLead(<<>>) /\ Rises(<<>>) /\ Below(both, <<>>) /\ Dated(<<>>, v, last, cn)
  BY <1>2 DEF NoLead, Rises, Below, Dated
<1> QED BY <1>1, <1>2, <1>6, <1>7, <1>8, <1>9 DEF Flow, both

(* What is picked of the frames held back still flows.                      *)
LEMMA PickFlow ==
  ASSUME NEW line, NEW back, NEW at, NEW v \in Nat, NEW n, NEW last \in Int, NEW cn,
         Flow(line, back, at, v, n, last, cn), NEW K \in SUBSET DOMAIN back
  PROVE  Flow(line, Picked(back, K), at, v, n, last, cn)
<1> DEFINE p == Picked(back, K)
<1>1. /\ line \in Seq(Msgs) /\ back \in Seq(Msgs) /\ Leads(line, at) /\ NoLead(back)
      /\ Rises(line) /\ Rises(back) /\ Below(line, back)
      /\ Dated(line, v, last, cn) /\ Dated(back, v, last, cn)
      /\ v <= last /\ (v = last => n = cn)
  BY DEF Flow
<1>2. p \in Seq(Msgs) /\ Picks(p, back, K)
  BY <1>1, PickedIs
<1> HIDE DEF p
<1>3. PICK g \in [DOMAIN p -> K] :
        /\ \A k \in DOMAIN p : p[k] = back[g[k]]
        /\ \A j, k \in DOMAIN p : j < k => g[j] < g[k]
  BY <1>2 DEF Picks
<1>4. \A k \in DOMAIN p : g[k] \in DOMAIN back
  BY <1>3
<1>5. NoLead(p) /\ Dated(p, v, last, cn) /\ Below(line, p)
  BY <1>1, <1>3, <1>4 DEF NoLead, Dated, Below
<1>6. Rises(p)
  BY <1>1, <1>3, <1>4 DEF Rises
<1> QED BY <1>1, <1>2, <1>5, <1>6 DEF Flow, p

(* The newest text behind the frames held back; the older ones, and the     *)
(* FileWorker's, are below it.                                              *)
LEMMA TextFlow ==
  ASSUME NEW line, NEW back, NEW at, NEW v \in Nat, NEW n, NEW last \in Int, NEW cn,
         Flow(line, back, at, v, n, last, cn),
         NEW x \in Texts, x.m = "change", x.v = last + 1
  PROVE  Flow(line, Append(back, x), at, v, n, last + 1, x.n)
<1> DEFINE p == Append(back, x)
<1>1. /\ line \in Seq(Msgs) /\ back \in Seq(Msgs) /\ Leads(line, at) /\ NoLead(back)
      /\ Rises(line) /\ Rises(back) /\ Below(line, back)
      /\ Dated(line, v, last, cn) /\ Dated(back, v, last, cn)
      /\ v <= last /\ (v = last => n = cn)
  BY DEF Flow
<1>2. x \in Msgs /\ x.v \in Nat
  BY DEF Msgs, Texts
<1>3. /\ p \in Seq(Msgs) /\ Len(p) = Len(back) + 1 /\ p[Len(back) + 1] = x
      /\ \A k \in 1..Len(back) : p[k] = back[k]
  BY <1>1, <1>2, AppendProperties
<1> HIDE DEF p
<1>4. /\ Len(back) \in Nat /\ DOMAIN back = 1..Len(back) /\ DOMAIN p = 1..(Len(back) + 1)
      /\ \A k \in DOMAIN back : back[k].v \in Nat
      /\ \A k \in DOMAIN line : line[k].v \in Nat
  BY <1>1, <1>3, SeqIs, MsgIs
<1>5. \A k \in DOMAIN p : (k \in DOMAIN back /\ p[k] = back[k]) \/ (k = Len(back) + 1 /\ p[k] = x)
  <2>1. ASSUME NEW k \in DOMAIN p PROVE k \in DOMAIN back \/ k = Len(back) + 1
    BY <1>4
  <2> QED BY <1>3, <1>4, <2>1
<1>6. NoLead(p)
  BY <1>1, <1>5 DEF NoLead
<1>7. Dated(line, v, last + 1, x.n)
  BY <1>1, <1>4 DEF Dated
<1>8. Dated(p, v, last + 1, x.n)
  <2>1. SUFFICES ASSUME NEW k \in DOMAIN p, p[k].v # 0
                 PROVE  v < p[k].v /\ p[k].v <= last + 1 /\ (p[k].v = last + 1 => p[k].n = x.n)
    BY DEF Dated
  <2>2. CASE k \in DOMAIN back /\ p[k] = back[k]
    <3>1. v < back[k].v /\ back[k].v <= last /\ back[k].v \in Nat
      BY <1>1, <1>4, <2>1, <2>2 DEF Dated
    <3> QED BY <2>2, <3>1
  <2>3. CASE p[k] = x
    BY <1>1, <2>3
  <2> QED BY <1>5, <2>2, <2>3
<1>9. Below(line, p)
  <2>1. SUFFICES ASSUME NEW j \in DOMAIN line, NEW k \in DOMAIN p, line[j].v # 0, p[k].v # 0
                 PROVE  line[j].v < p[k].v
    BY DEF Below
  <2>2. CASE k \in DOMAIN back /\ p[k] = back[k]
    BY <1>1, <2>1, <2>2 DEF Below
  <2>3. CASE p[k] = x
    <3>1. line[j].v <= last /\ line[j].v \in Nat
      BY <1>1, <1>4, <2>1 DEF Dated
    <3> QED BY <2>3, <3>1
  <2> QED BY <1>5, <2>2, <2>3
<1>10. Rises(p)
  <2>1. SUFFICES ASSUME NEW j \in DOMAIN p, NEW k \in DOMAIN p, j < k, p[j].v # 0, p[k].v # 0
                 PROVE  p[j].v < p[k].v
    BY DEF Rises
  <2>2. j \in DOMAIN back /\ p[j] = back[j]
    BY <1>4, <1>5, <2>1
  <2>3. CASE k \in DOMAIN back /\ p[k] = back[k]
    BY <1>1, <2>1, <2>2, <2>3 DEF Rises
  <2>4. CASE p[k] = x
    <3>1. back[j].v <= last /\ back[j].v \in Nat
      BY <1>1, <1>4, <2>1, <2>2 DEF Dated
    <3> QED BY <2>2, <2>4, <3>1
  <2> QED BY <1>5, <2>3, <2>4
<1>11. v <= last + 1 /\ v # last + 1
  BY <1>1
<1> QED BY <1>1, <1>3, <1>6, <1>7, <1>8, <1>9, <1>10, <1>11 DEF Flow, p

(* A request behind the frames held back.                                   *)
LEMMA RequestFlow ==
  ASSUME NEW line, NEW back, NEW at, NEW v \in Nat, NEW n, NEW last \in Int, NEW cn,
         Flow(line, back, at, v, n, last, cn), NEW x \in Requested
  PROVE  Flow(line, Append(back, x), at, v, n, last, cn)
<1> DEFINE p == Append(back, x)
<1>1. /\ line \in Seq(Msgs) /\ back \in Seq(Msgs) /\ Leads(line, at) /\ NoLead(back)
      /\ Rises(line) /\ Rises(back) /\ Below(line, back)
      /\ Dated(line, v, last, cn) /\ Dated(back, v, last, cn)
      /\ v <= last /\ (v = last => n = cn)
  BY DEF Flow
<1>2. x \in Msgs /\ x.v = 0 /\ x.m \notin {"initialize", "open"}
  BY DEF Msgs, Requested
<1>3. /\ p \in Seq(Msgs) /\ Len(p) = Len(back) + 1 /\ p[Len(back) + 1] = x
      /\ \A k \in 1..Len(back) : p[k] = back[k]
  BY <1>1, <1>2, AppendProperties
<1> HIDE DEF p
<1>4. Len(back) \in Nat /\ DOMAIN back = 1..Len(back) /\ DOMAIN p = 1..(Len(back) + 1)
  BY <1>1, <1>3, SeqIs
<1>5. \A k \in DOMAIN p : (k \in DOMAIN back /\ p[k] = back[k]) \/ (k = Len(back) + 1 /\ p[k] = x)
  <2>1. ASSUME NEW k \in DOMAIN p PROVE k \in DOMAIN back \/ k = Len(back) + 1
    BY <1>4
  <2> QED BY <1>3, <1>4, <2>1
<1>6. NoLead(p)
  BY <1>1, <1>2, <1>5 DEF NoLead
<1>7. Dated(p, v, last, cn) /\ Below(line, p)
  BY <1>1, <1>2, <1>5 DEF Dated, Below
<1>8. Rises(p)
  BY <1>1, <1>2, <1>5 DEF Rises
<1> QED BY <1>1, <1>3, <1>6, <1>7, <1>8 DEF Flow, p

(* The queue behind the frame that is read.                                 *)
LEMMA TailIs ==
  ASSUME NEW S, NEW q \in Seq(S), q # <<>>
  PROVE  /\ Tail(q) \in Seq(S) /\ Head(q) = q[1] /\ 1 \in DOMAIN q /\ Head(q) \in S
         /\ \A k \in DOMAIN Tail(q) : k \in Nat \ {0} /\ k + 1 \in DOMAIN q /\ Tail(q)[k] = q[k + 1]
         /\ \A k \in DOMAIN q : k # 1 => k - 1 \in DOMAIN Tail(q)
<1>1. Len(q) \in Nat \ {0} /\ DOMAIN q = 1..Len(q)
  BY SeqIs, EmptySeq
<1>2. /\ Tail(q) \in Seq(S) /\ Len(Tail(q)) = Len(q) - 1
      /\ \A k \in 1..Len(Tail(q)) : Tail(q)[k] = q[k + 1]
  BY HeadTailProperties
<1>3. Head(q) = q[1] /\ Head(q) \in S
  BY HeadTailProperties
<1>4. DOMAIN Tail(q) = 1..(Len(q) - 1)
  BY <1>2, SeqIs
<1>5. ASSUME NEW k \in DOMAIN Tail(q) PROVE k \in Nat \ {0} /\ k + 1 \in DOMAIN q /\ Tail(q)[k] = q[k + 1]
  <2>1. k \in 1..(Len(q) - 1)
    BY <1>4
  <2>2. k \in 1..Len(Tail(q))
    BY <1>2, <2>1
  <2> QED BY <1>1, <1>2, <2>1, <2>2
<1>6. ASSUME NEW k \in DOMAIN q, k # 1 PROVE k - 1 \in DOMAIN Tail(q)
  <2>1. k - 1 \in 1..(Len(q) - 1)
    BY <1>1, <1>6
  <2> QED BY <1>4, <2>1
<1>7. 1 \in DOMAIN q
  BY <1>1
<1> QED BY <1>2, <1>3, <1>5, <1>6, <1>7

(* The versions behind a text that is read are above it.                    *)
LEMMA ReadDates ==
  ASSUME NEW line, NEW back, NEW at, NEW v \in Nat, NEW n, NEW last \in Int, NEW cn,
         Flow(line, back, at, v, n, last, cn), line # <<>>
  PROVE  /\ Rises(Tail(line)) /\ Below(Tail(line), back) /\ Dated(Tail(line), v, last, cn)
         /\ Head(line).v # 0 =>
              /\ v < Head(line).v /\ Head(line).v <= last /\ (Head(line).v = last => Head(line).n = cn)
              /\ Dated(Tail(line), Head(line).v, last, cn) /\ Dated(back, Head(line).v, last, cn)
<1> DEFINE t == Tail(line)
           x == Head(line)
<1>1. /\ line \in Seq(Msgs) /\ back \in Seq(Msgs)
      /\ Rises(line) /\ Rises(back) /\ Below(line, back)
      /\ Dated(line, v, last, cn) /\ Dated(back, v, last, cn)
  BY DEF Flow
<1>2. /\ x = line[1] /\ 1 \in DOMAIN line
      /\ \A k \in DOMAIN t : k \in Nat \ {0} /\ k + 1 \in DOMAIN line /\ t[k] = line[k + 1]
  BY <1>1, TailIs
<1> HIDE DEF t, x
<1>3. Rises(t)
  <2>1. SUFFICES ASSUME NEW j \in DOMAIN t, NEW k \in DOMAIN t, j < k, t[j].v # 0, t[k].v # 0
                 PROVE  t[j].v < t[k].v
    BY DEF Rises
  <2>2. j + 1 < k + 1 /\ j + 1 \in DOMAIN line /\ k + 1 \in DOMAIN line /\ t[j] = line[j + 1] /\ t[k] = line[k + 1]
    BY <1>2, <2>1
  <2> QED BY <1>1, <2>1, <2>2 DEF Rises
<1>4. Below(t, back) /\ Dated(t, v, last, cn)
  BY <1>1, <1>2 DEF Below, Dated
<1>5. ASSUME x.v # 0
      PROVE  /\ v < x.v /\ x.v <= last /\ (x.v = last => x.n = cn)
             /\ Dated(t, x.v, last, cn) /\ Dated(back, x.v, last, cn)
  <2>1. v < x.v /\ x.v <= last /\ (x.v = last => x.n = cn)
    BY <1>1, <1>2, <1>5 DEF Dated
  <2>2. Dated(back, x.v, last, cn)
    BY <1>1, <1>2, <1>5 DEF Dated, Below
  <2>3. ASSUME NEW k \in DOMAIN t, t[k].v # 0 PROVE x.v < t[k].v
    <3>1. 1 < k + 1 /\ k + 1 \in DOMAIN line /\ t[k] = line[k + 1]
      BY <1>2, <2>3
    <3> QED BY <1>1, <1>2, <1>5, <2>3, <3>1 DEF Rises
  <2> QED BY <1>4, <2>1, <2>2, <2>3 DEF Dated
<1> QED BY <1>3, <1>4, <1>5 DEF t, x

(* The FileWorker reads the frame it expects.                               *)
LEMMA ReadFlow ==
  ASSUME NEW line, NEW back, NEW at, NEW v \in Nat, NEW n, NEW last \in Int, NEW cn,
         Flow(line, back, at, v, n, last, cn), line # <<>>
  PROVE  /\ Head(line) \in Msgs
         /\ at = "start" => /\ Head(line) = Initialize
                            /\ Flow(Tail(line), back, "initialized", v, n, last, cn)
         /\ at = "initialized" /\ Head(line).m = "open" =>
              Flow(Tail(line), back, "open", Head(line).v, Head(line).n, last, cn)
         /\ at = "initialized" /\ Head(line).m # "open" => ~OpensFit
         /\ at = "open" /\ Head(line).m = "change" =>
              Head(line).v > v /\ Flow(Tail(line), back, "open", Head(line).v, Head(line).n, last, cn)
         /\ at = "open" /\ Head(line).m # "change" =>
              Head(line) \in Requested /\ Flow(Tail(line), back, "open", v, n, last, cn)
         /\ Flow(Tail(line), back, "broken", v, n, last, cn)
<1> DEFINE t == Tail(line)
           x == Head(line)
<1>1. /\ line \in Seq(Msgs) /\ back \in Seq(Msgs) /\ Leads(line, at) /\ NoLead(back)
      /\ Rises(back) /\ Dated(back, v, last, cn) /\ v <= last /\ (v = last => n = cn)
  BY DEF Flow
<1>2. /\ Rises(t) /\ Below(t, back) /\ Dated(t, v, last, cn)
      /\ x.v # 0 =>
           /\ v < x.v /\ x.v <= last /\ (x.v = last => x.n = cn)
           /\ Dated(t, x.v, last, cn) /\ Dated(back, x.v, last, cn)
  BY ReadDates
<1>3. /\ t \in Seq(Msgs) /\ x = line[1] /\ 1 \in DOMAIN line /\ x \in Msgs
      /\ \A k \in DOMAIN t : k \in Nat \ {0} /\ k + 1 \in DOMAIN line /\ t[k] = line[k + 1]
      /\ \A k \in DOMAIN line : k # 1 => k - 1 \in DOMAIN t
  BY <1>1, TailIs
<1>4. /\ x.v \in Nat /\ (x.v # 0 <=> x.m \in {"open", "change"})
      /\ x.m \notin {"initialize", "open", "change"} => x \in Requested
  BY <1>3, MsgIs
<1> HIDE DEF t, x
<1>5. ASSUME NEW a, Leads(t, a) PROVE Flow(t, back, a, v, n, last, cn)
  BY <1>1, <1>2, <1>3, <1>5 DEF Flow
<1>6. ASSUME NEW a, Leads(t, a), x.v # 0 PROVE Flow(t, back, a, x.v, x.n, last, cn)
  BY <1>1, <1>2, <1>3, <1>6 DEF Flow
<1>7. CASE at = "start"
  <2>1. LeadsAll(line)
    BY <1>1, <1>7 DEF Leads
  <2>2. \A k \in DOMAIN t : t[k].m # "initialize"
    BY <1>3, <2>1 DEF LeadsAll
  <2>3. \A k \in DOMAIN t : t[k].m = "open" => k = 1
    BY <1>3, <2>1 DEF LeadsAll
  <2>4. OpensFit => 1 \in DOMAIN t /\ t[1].m = "open"
    <3>1. SUFFICES ASSUME OpensFit PROVE 1 \in DOMAIN t /\ t[1].m = "open"
      OBVIOUS
    <3>2. 2 \in DOMAIN line /\ line[2].m = "open"
      BY <2>1, <3>1 DEF LeadsAll
    <3>3. 2 - 1 \in DOMAIN t
      BY <1>3, <3>2
    <3>4. 1 \in DOMAIN t
      BY <3>3
    <3>5. t[1] = line[1 + 1]
      BY <1>3, <3>4
    <3> QED BY <3>2, <3>4, <3>5
  <2>5. Leads(t, "initialized")
    BY <2>2, <2>3, <2>4 DEF Leads, LeadsOpen
  <2> QED BY <1>3, <1>5, <1>7, <2>1, <2>5 DEF LeadsAll, Leads, t, x
<1>8. CASE at = "initialized"
  <2>1. LeadsOpen(line)
    BY <1>1, <1>8 DEF Leads
  <2>2. NoLead(t)
    <3>1. ASSUME NEW k \in DOMAIN t PROVE t[k].m \notin {"initialize", "open"}
      <4>1. k + 1 # 1 /\ k + 1 \in DOMAIN line /\ t[k] = line[k + 1]
        BY <1>3
      <4> QED BY <2>1, <4>1 DEF LeadsOpen
    <3> QED BY <3>1 DEF NoLead
  <2>3. Leads(t, "open") /\ Leads(t, "broken")
    BY <2>2 DEF Leads
  <2>4. x.m # "open" => ~OpensFit
    BY <1>3, <2>1 DEF LeadsOpen
  <2> QED BY <1>3, <1>4, <1>5, <1>6, <1>8, <2>3, <2>4 DEF t, x
<1>9. CASE at = "open"
  <2>1. NoLead(line)
    BY <1>1, <1>9 DEF Leads
  <2>2. NoLead(t) /\ x.m \notin {"initialize", "open"}
    BY <1>3, <2>1 DEF NoLead
  <2>3. Leads(t, "open") /\ Leads(t, "broken")
    BY <2>2 DEF Leads
  <2>4. x.m = "change" => x.v > v
    BY <1>2, <1>4
  <2> QED BY <1>3, <1>4, <1>5, <1>6, <1>9, <2>2, <2>3, <2>4 DEF t, x
<1>10. CASE at \notin {"start", "initialized", "open"}
  <2>1. Leads(t, "broken")
    BY DEF Leads
  <2> QED BY <1>3, <1>5, <1>10, <2>1 DEF t, x
<1> QED BY <1>7, <1>8, <1>9, <1>10

(* The opening sequence, as far as its frames fit, with requests behind it. *)
LEMMA OpeningFlow ==
  ASSUME NEW msg \in Texts, msg.m = "open", NEW w \in Seq(Requested), NEW q,
         q = <<Initialize, msg>> \o w,
         NEW K \in SUBSET DOMAIN q, 1 \in K, OpensFit => 2 \in K, NEW n
  PROVE  Flow(Picked(q, K), <<>>, "start", 0, n, msg.v, msg.n)
<1> DEFINE p == Picked(q, K)
<1>1. msg \in Msgs /\ Initialize \in Msgs /\ msg.v \in Nat \ {0}
  BY DEF Msgs, Texts
<1>2. <<Initialize, msg>> \in Seq(Msgs) /\ w \in Seq(Msgs)
  <2>1. w \in Seq(Msgs)
    BY SeqMonotonic DEF Msgs
  <2> QED BY <1>1, <2>1
<1>3. /\ q \in Seq(Msgs) /\ Len(q) = 2 + Len(w) /\ q[1] = Initialize /\ q[2] = msg
      /\ \A k \in DOMAIN q : k \in Nat \ {0} /\ (k > 2 => q[k] \in Requested)
  <2>1. q \in Seq(Msgs) /\ Len(<<Initialize, msg>>) = 2
    BY <1>2, ConcatProperties
  <2>2. Len(q) = 2 + Len(w) /\ Len(w) \in Nat /\ DOMAIN w = 1..Len(w) /\ DOMAIN q = 1..(2 + Len(w))
    BY <1>2, <2>1, ConcatProperties, SeqIs
  <2>3. \A k \in 1..(2 + Len(w)) : q[k] = IF k <= 2 THEN <<Initialize, msg>>[k] ELSE w[k - 2]
    BY <1>2, <2>1, ConcatProperties
  <2>4. q[1] = Initialize /\ q[2] = msg
    <3>1. 1 \in 1..(2 + Len(w)) /\ 2 \in 1..(2 + Len(w))
      BY <2>2
    <3> QED BY <2>3, <3>1
  <2>5. ASSUME NEW k \in DOMAIN q, k > 2 PROVE q[k] \in Requested
    <3>1. k \in 1..(2 + Len(w)) /\ ~(k <= 2) /\ k - 2 \in DOMAIN w
      BY <2>2, <2>5
    <3>2. q[k] = w[k - 2]
      BY <2>3, <3>1
    <3> QED BY <3>1, <3>2, SeqIs
  <2> QED BY <2>1, <2>2, <2>4, <2>5
<1>4. p \in Seq(Msgs) /\ Picks(p, q, K)
  BY <1>3, PickedIs
<1> HIDE DEF p
<1>5. PICK g \in [DOMAIN p -> K] :
        /\ \A k \in DOMAIN p : p[k] = q[g[k]]
        /\ \A j, k \in DOMAIN p : j < k => g[j] < g[k]
        /\ \A i \in K : \E k \in DOMAIN p : g[k] = i
  BY <1>4 DEF Picks
<1>6. /\ Len(p) \in Nat /\ DOMAIN p = 1..Len(p)
      /\ \A k \in DOMAIN p : g[k] \in K /\ g[k] \in DOMAIN q /\ g[k] \in Nat \ {0} /\ k \in Nat \ {0}
  BY <1>3, <1>4, <1>5, SeqIs
<1>7. 1 \in DOMAIN p /\ g[1] = 1
  <2>1. PICK k \in DOMAIN p : g[k] = 1
    BY <1>5
  <2>2. 1 \in DOMAIN p
    BY <1>6, <2>1
  <2>3. k = 1
    <3>1. k # 1 => g[1] < 1 /\ g[1] \in Nat \ {0}
      BY <1>5, <1>6, <2>1, <2>2
    <3> QED BY <3>1
  <2> QED BY <2>1, <2>2, <2>3
<1>8. \A k \in DOMAIN p : k > 1 => g[k] > 1
  BY <1>5, <1>6, <1>7
<1>9. \A k \in DOMAIN p : k > 2 => g[k] > 2
  <2>1. ASSUME NEW k \in DOMAIN p, k > 2 PROVE g[k] > 2
    <3>1. 2 \in DOMAIN p
      BY <1>6, <2>1
    <3>2. 2 < k /\ 2 > 1
      BY <2>1, <1>6
    <3>3. g[2] < g[k] /\ g[2] > 1
      BY <1>5, <1>8, <2>1, <3>1, <3>2
    <3>4. g[2] \in Nat /\ g[k] \in Nat
      BY <1>6, <2>1, <3>1
    <3> QED BY <3>3, <3>4
  <2> QED BY <2>1
<1>10. /\ p[1] = Initialize
       /\ \A k \in DOMAIN p : k > 1 => p[k] = msg \/ p[k] \in Requested
       /\ \A k \in DOMAIN p : k > 2 => p[k] \in Requested
  <2>1. ASSUME NEW k \in DOMAIN p, k > 1 PROVE p[k] = msg \/ p[k] \in Requested
    <3>1. g[k] = 2 \/ g[k] > 2
      BY <1>6, <1>8, <2>1
    <3> QED BY <1>3, <1>5, <1>6, <3>1
  <2>2. p[1] = Initialize
    <3>1. 1 \in DOMAIN p /\ p[1] = q[g[1]]
      BY <1>5, <1>7
    <3> QED BY <1>3, <1>5, <1>7
  <2>3. ASSUME NEW k \in DOMAIN p, k > 2 PROVE p[k] \in Requested
    BY <1>3, <1>5, <1>6, <1>9, <2>3
  <2> QED BY <2>1, <2>2, <2>3
<1>11. OpensFit => 2 \in DOMAIN p /\ p[2] = msg
  <2>1. SUFFICES ASSUME OpensFit PROVE 2 \in DOMAIN p /\ p[2] = msg
    OBVIOUS
  <2>2. PICK k \in DOMAIN p : g[k] = 2
    BY <1>5, <2>1
  <2>3. k = 2
    <3>1. k # 1 /\ ~(k > 2)
      BY <1>7, <1>9, <2>2
    <3> QED BY <1>6, <3>1
  <2> QED BY <1>3, <1>5, <2>2, <2>3
<1>12. /\ Initialize.m = "initialize" /\ Initialize.v = 0
       /\ \A x \in Requested : x.m \notin {"initialize", "open"} /\ x.v = 0
  BY DEF Initialize, Message, Requested
<1>13. \A k \in DOMAIN p : k = 1 \/ k = 2 \/ k > 2
  BY <1>6
<1>14. LeadsAll(p)
  <2>1. p # <<>>
    BY <1>7
  <2>2. \A k \in DOMAIN p : k > 1 => p[k].m # "initialize"
    BY <1>10, <1>12
  <2>3. \A k \in DOMAIN p : p[k].m = "open" => k = 2
    BY <1>10, <1>12, <1>13
  <2> QED BY <1>10, <1>11, <2>1, <2>2, <2>3 DEF LeadsAll
<1>15. \A k \in DOMAIN p : p[k].v # 0 => k = 2 /\ p[k] = msg
  BY <1>10, <1>12, <1>13
<1>16. Rises(p) /\ Dated(p, 0, msg.v, msg.n)
  BY <1>1, <1>15 DEF Rises, Dated
<1>17. /\ <<>> \in Seq(Msgs) /\ NoLead(<<>>) /\ Rises(<<>>) /\ Below(p, <<>>)
       /\ Dated(<<>>, 0, msg.v, msg.n)
  BY DEF NoLead, Rises, Below, Dated
<1>18. Leads(p, "start")
  BY <1>14 DEF Leads
<1>19. 0 <= msg.v /\ msg.v # 0
  BY <1>1
<1> QED BY <1>4, <1>16, <1>17, <1>18, <1>19 DEF Flow, p

-----------------------------------------------------------------------------
(* The requests of a queue are kept when it is re-queued: a closed front    *)
(* door that holds the requests of q.                                       *)
Waits(t, q) ==
  /\ t \in Doors /\ t.phase = "ready" /\ t.backlog = <<>> /\ ~t.ringBusy
  /\ t.doc = 0 /\ t.progress = NoProgress /\ t.header = "none"
  /\ t.queue \in Seq(Requested)
  /\ \A i \in Ids : At(i, t.queue) = At(i, q)

(* A front door that has just opened the loop on msg, with the requests of  *)
(* q behind it.                                                             *)
Loops(t, msg, q) ==
  /\ t \in Steps /\ t.phase = "open" /\ t.queue = <<>> /\ t.backlog = <<>> /\ ~t.ringBusy
  /\ t.doc = msg.v /\ t.base = 0 /\ t.lastVersion = msg.v
  /\ t.progress = NoProgress /\ t.header = "none" /\ t.start
  /\ \E w \in Seq(Requested) : t.writes = <<Initialize, msg>> \o w
  /\ \A i \in Ids : At(i, t.writes) + At(i, t.replies) = At(i, q)

(* A frame that is held supersedes no request.                              *)
LEMMA EnqueueIs ==
  ASSUME NEW list \in Seq(Msgs), NEW x \in Msgs
  PROVE  \E K \in SUBSET DOMAIN list :
           /\ enqueue(list, x) = Append(Picked(list, K), x)
           /\ Picked(list, K) \in Seq(Msgs)
           /\ \A i \in Ids : At(i, enqueue(list, x)) = At(i, list) + IF x.id = i THEN 1 ELSE 0
           /\ \A k \in K : list[k].m \notin Superseded(x)
<1> DEFINE K == {k \in DOMAIN list : list[k].m \notin Superseded(x)}
<1>1. enqueue(list, x) = Append(Picked(list, K), x)
  BY DEF enqueue
<1>2. K \in SUBSET DOMAIN list /\ \A k \in K : list[k].m \notin Superseded(x)
  OBVIOUS
<1>3. \A k \in DOMAIN list : list[k].id \in Ids => k \in K
  <2>1. ASSUME NEW k \in DOMAIN list, list[k].id \in Ids PROVE k \in K
    <3>1. list[k] \in Requested
      BY <2>1, SeqIs, MsgIs
    <3>2. list[k].m \notin {"change", "open"}
      BY <3>1 DEF Requested
    <3>3. Superseded(x) \subseteq {"change", "open"}
      BY DEF Superseded
    <3> QED BY <3>2, <3>3
  <2> QED BY <2>1
<1> HIDE DEF K
<1>4. Picked(list, K) \in Seq(Msgs)
  BY <1>2, PickedIs
<1>5. ASSUME NEW i \in Ids PROVE At(i, enqueue(list, x)) = At(i, list) + IF x.id = i THEN 1 ELSE 0
  <2>1. \A k \in DOMAIN list : list[k].id = i => k \in K
    BY <1>3
  <2>2. At(i, Picked(list, K)) = At(i, list)
    BY <1>2, <2>1, AtPicked
  <2>3. At(i, Append(Picked(list, K), x)) = At(i, Picked(list, K)) + IF x.id = i THEN 1 ELSE 0
    BY <1>4, AtAppend
  <2> QED BY <1>1, <2>2, <2>3
<1> QED BY <1>1, <1>2, <1>4, <1>5

(* Requests held among requests.                                            *)
LEMMA EnqueueRequest ==
  ASSUME NEW list \in Seq(Requested), NEW x \in Requested
  PROVE  /\ enqueue(list, x) \in Seq(Requested)
         /\ \A i \in Ids : At(i, enqueue(list, x)) = At(i, list) + IF x.id = i THEN 1 ELSE 0
<1>1. list \in Seq(Msgs) /\ x \in Msgs
  BY SeqMonotonic DEF Msgs
<1>2. PICK K \in SUBSET DOMAIN list :
           /\ enqueue(list, x) = Append(Picked(list, K), x)
           /\ \A i \in Ids : At(i, enqueue(list, x)) = At(i, list) + IF x.id = i THEN 1 ELSE 0
  BY <1>1, EnqueueIs
<1>3. Picked(list, K) \in Seq(Requested)
  BY PickedIs
<1>4. Append(Picked(list, K), x) \in Seq(Requested)
  BY <1>3, AppendProperties
<1> QED BY <1>2, <1>4

(* A request re-queued at a closed loop.                                    *)
LEMMA WaitsNext ==
  ASSUME NEW t, NEW q \in Seq(Msgs), Waits(t, q), NEW x \in Requested
  PROVE  Waits(admit(t, x), Append(q, x))
<1>1. x.m \in {"request", "completion", "importCompletion"} /\ x.id \in Ids /\ x \in Msgs
  BY DEF Requested, Msgs
<1>2. t \in Doors /\ t.phase = "ready" /\ t.doc = 0 /\ t.header = "none" /\ t.queue \in Seq(Requested)
  BY DEF Waits
<1>3. ~FailsFast(t, x)
  BY <1>2 DEF FailsFast
<1>4. admit(t, x) = AdmitHeld(t, x)
  BY <1>1 DEF admit
<1>5. AdmitHeld(t, x) = [t EXCEPT !.queue = enqueue(t.queue, x)]
  <2>1. x.m # "initialize" /\ x.m # "replayed" /\ t.phase # "dead" /\ t.phase # "open"
    BY <1>1, <1>2
  <2> QED BY <1>2, <1>3, <2>1 DEF AdmitHeld
<1> DEFINE e == enqueue(t.queue, x)
<1>6. e \in Seq(Requested) /\ \A i \in Ids : At(i, e) = At(i, t.queue) + IF x.id = i THEN 1 ELSE 0
  BY <1>2, EnqueueRequest
<1>7. e \in Seq(Msgs)
  BY <1>6, SeqMonotonic DEF Msgs
<1> HIDE DEF e
<1>8. [t EXCEPT !.queue = e] \in Doors
  BY <1>2, <1>7 DEF Doors
<1>9. \A i \in Ids : At(i, e) = At(i, Append(q, x))
  <2>1. ASSUME NEW i \in Ids PROVE At(i, e) = At(i, Append(q, x))
    <3>1. At(i, Append(q, x)) = At(i, q) + IF x.id = i THEN 1 ELSE 0
      BY <1>1, AtAppend
    <3>2. At(i, t.queue) = At(i, q)
      BY DEF Waits
    <3>3. At(i, e) = At(i, t.queue) + IF x.id = i THEN 1 ELSE 0
      BY <1>6
    <3> QED BY <3>1, <3>2, <3>3
  <2> QED BY <2>1
<1> DEFINE u == [t EXCEPT !.queue = e]
<1>10. /\ u.phase = "ready" /\ u.backlog = <<>> /\ ~u.ringBusy /\ u.doc = 0
       /\ u.progress = NoProgress /\ u.header = "none" /\ u.queue = e
  BY <1>2 DEF Waits, Doors
<1>11. admit(t, x) = u
  BY <1>4, <1>5 DEF e
<1> HIDE DEF u
<1>12. u \in Doors
  BY <1>8 DEF u
<1> QED BY <1>6, <1>9, <1>10, <1>11, <1>12 DEF Waits

(* The places of requests before one position of a queue.                   *)
LEMMA PrefixIs ==
  ASSUME NEW S, NEW q \in Seq(S)
  PROVE  /\ SubSeq(q, 1, 0) = <<>> /\ SubSeq(q, 1, Len(q)) = q
         /\ \A k \in 1..Len(q) : /\ SubSeq(q, 1, k - 1) \in Seq(S) /\ q[k] \in S
                                 /\ SubSeq(q, 1, k) = Append(SubSeq(q, 1, k - 1), q[k])
<1>1. Len(q) \in Nat /\ DOMAIN q = 1..Len(q) /\ \A k \in DOMAIN q : q[k] \in S
  BY SeqIs
<1>2. SubSeq(q, 1, 0) = <<>> /\ SubSeq(q, 1, Len(q)) = q
  BY SubSeqEmpty, SubSeqFull
<1>3. ASSUME NEW k \in 1..Len(q)
      PROVE  /\ SubSeq(q, 1, k - 1) \in Seq(S) /\ q[k] \in S
             /\ SubSeq(q, 1, k) = Append(SubSeq(q, 1, k - 1), q[k])
  <2>1. 1 \in 1..Len(q) /\ k \in 1..Len(q) /\ 1 \in Int /\ k - 1 \in Int
    BY <1>1
  <2>2. SubSeq(q, 1, k) = SubSeq(q, 1, k - 1) \o <<q[k]>>
    BY <2>1, SubSeqRecursiveSecond
  <2>3. \A i \in 1..(k - 1) : q[i] \in S
    BY <1>1
  <2>4. SubSeq(q, 1, k - 1) \in Seq(S)
    BY <2>1, <2>3, SubSeqProperties
  <2>5. q[k] \in S
    BY <1>1, <2>1
  <2>6. Append(SubSeq(q, 1, k - 1), q[k]) = SubSeq(q, 1, k - 1) \o <<q[k]>>
    BY <2>4, <2>5, AppendIsConcat
  <2> QED BY <2>2, <2>4, <2>5, <2>6
<1> QED BY <1>2, <1>3

(* A drain re-queues the requests it begins with.                           *)
LEMMA DrainWaits ==
  ASSUME NEW f, NEW q \in Seq(Msgs), NEW m \in 0..Len(q),
         Waits(f[0], <<>>), \A k \in 1..m : f[k] = admit(f[k - 1], q[k]) /\ q[k] \in Requested
  PROVE  Waits(f[m], SubSeq(q, 1, m))
<1> DEFINE T == {k \in 0..m : ~Waits(f[k], SubSeq(q, 1, k))}
<1>1. SUFFICES ASSUME T # {} PROVE FALSE
  <2>1. m \in 0..m
    BY SeqIs
  <2> QED BY <1>1, <2>1
<1>2. T \in SUBSET Nat
  OBVIOUS
<1>3. PICK k \in T : \A x \in T : k <= x
  BY <1>1, <1>2, LeastNat
<1>4. k \in 0..m /\ Len(q) \in Nat
  BY <1>3, SeqIs
<1>5. CASE k = 0
  BY <1>3, <1>5, PrefixIs
<1>6. CASE k # 0
  <2>1. k - 1 \in 0..m /\ k \in 1..m /\ k \in 1..Len(q) /\ ~(k <= k - 1)
    BY <1>4, <1>6
  <2>2. k - 1 \notin T
    <3> HIDE DEF T
    <3> QED BY <1>3, <2>1
  <2>3. Waits(f[k - 1], SubSeq(q, 1, k - 1))
    BY <2>1, <2>2
  <2>4. SubSeq(q, 1, k - 1) \in Seq(Msgs) /\ SubSeq(q, 1, k) = Append(SubSeq(q, 1, k - 1), q[k])
    BY <2>1, PrefixIs
  <2>5. f[k] = admit(f[k - 1], q[k]) /\ q[k] \in Requested
    BY <2>1
  <2>6. Waits(f[k], SubSeq(q, 1, k))
    BY <2>3, <2>4, <2>5, WaitsNext
  <2> QED BY <1>3, <2>6
<1> QED BY <1>5, <1>6

(* A request re-queued behind the opening sequence is written or answered.  *)
LEMMA LoopsNext ==
  ASSUME NEW t, NEW msg \in Texts, NEW q \in Seq(Msgs), Loops(t, msg, q), NEW x \in Requested
  PROVE  Loops(AdmitHeld(t, x), msg, Append(q, x))
<1>1. /\ x.m \in {"request", "completion", "importCompletion"} /\ x.id \in Ids /\ x \in Msgs
      /\ x.v = 0
  BY DEF Requested, Msgs
<1>2. /\ t \in Steps /\ t.phase = "open" /\ t.queue = <<>> /\ t.backlog = <<>> /\ ~t.ringBusy
      /\ t.doc = msg.v /\ t.base = 0 /\ t.lastVersion = msg.v
      /\ t.progress = NoProgress /\ t.header = "none" /\ t.start
      /\ \A i \in Ids : At(i, t.writes) + At(i, t.replies) = At(i, q)
  BY DEF Loops
<1>3. PICK w \in Seq(Requested) : t.writes = <<Initialize, msg>> \o w
  BY DEF Loops
<1>4. t.writes \in Seq(Msgs) /\ t.replies \in Seq(Msgs)
  BY <1>2 DEF Steps
<1>5. AdmitHeld(t, x) = IF FailsFast(t, x) THEN Reply(t, x) ELSE emit(t, x)
  BY <1>1, <1>2 DEF AdmitHeld, Stale
<1>6. \A i \in Ids : /\ At(i, t.writes) \in Nat /\ At(i, t.replies) \in Nat
                     /\ At(i, Append(q, x)) = At(i, q) + IF x.id = i THEN 1 ELSE 0
                     /\ At(i, Append(t.writes, x)) = At(i, t.writes) + IF x.id = i THEN 1 ELSE 0
                     /\ At(i, Append(t.replies, x)) = At(i, t.replies) + IF x.id = i THEN 1 ELSE 0
  BY <1>1, <1>4, AtIs, AtAppend
<1>7. Append(t.writes, x) \in Seq(Msgs) /\ Append(t.replies, x) \in Seq(Msgs)
  BY <1>1, <1>4, AppendProperties
<1>8. CASE FailsFast(t, x)
  <2> DEFINE u == [t EXCEPT !.replies = Append(t.replies, x)]
  <2>1. AdmitHeld(t, x) = u
    BY <1>5, <1>8 DEF Reply
  <2>2. u \in Steps
    BY <1>2, <1>7 DEF Steps
  <2>3. /\ u.phase = "open" /\ u.queue = <<>> /\ u.backlog = <<>> /\ ~u.ringBusy
        /\ u.doc = msg.v /\ u.base = 0 /\ u.lastVersion = msg.v
        /\ u.progress = NoProgress /\ u.header = "none" /\ u.start
        /\ u.writes = t.writes /\ u.replies = Append(t.replies, x)
    BY <1>2 DEF Steps
  <2> HIDE DEF u
  <2>4. \A i \in Ids : At(i, u.writes) + At(i, u.replies) = At(i, Append(q, x))
    <3>1. ASSUME NEW i \in Ids PROVE At(i, u.writes) + At(i, u.replies) = At(i, Append(q, x))
      <4>1. At(i, t.writes) + At(i, t.replies) = At(i, q)
        BY <1>2
      <4> QED BY <1>6, <2>3, <4>1
    <3> QED BY <3>1
  <2> QED BY <1>3, <2>1, <2>2, <2>3, <2>4 DEF Loops
<1>9. CASE ~FailsFast(t, x)
  <2> DEFINE u == [t EXCEPT !.writes = Append(t.writes, x)]
  <2>1. AdmitHeld(t, x) = u
    <3>1. shiftVersions(x, t.base) = x
      BY <1>1 DEF shiftVersions
    <3> QED BY <1>1, <1>2, <1>5, <1>9, <3>1 DEF emit
  <2>2. u \in Steps
    BY <1>2, <1>7 DEF Steps
  <2>3. /\ u.phase = "open" /\ u.queue = <<>> /\ u.backlog = <<>> /\ ~u.ringBusy
        /\ u.doc = msg.v /\ u.base = 0 /\ u.lastVersion = msg.v
        /\ u.progress = NoProgress /\ u.header = "none" /\ u.start
        /\ u.writes = Append(t.writes, x) /\ u.replies = t.replies
    BY <1>2 DEF Steps
  <2> HIDE DEF u
  <2>4. \A i \in Ids : At(i, u.writes) + At(i, u.replies) = At(i, Append(q, x))
    <3>1. ASSUME NEW i \in Ids PROVE At(i, u.writes) + At(i, u.replies) = At(i, Append(q, x))
      <4>1. At(i, t.writes) + At(i, t.replies) = At(i, q)
        BY <1>2
      <4> QED BY <1>6, <2>3, <4>1
    <3> QED BY <3>1
  <2>5. u.writes = <<Initialize, msg>> \o Append(w, x) /\ Append(w, x) \in Seq(Requested)
    <3>1. Append(w, x) = w \o <<x>> /\ Append(w, x) \in Seq(Requested)
      BY AppendIsConcat, AppendProperties
    <3>2. Append(t.writes, x) = t.writes \o <<x>>
      BY <1>1, <1>4, AppendIsConcat
    <3>3. <<Initialize, msg>> \in Seq(Msgs) /\ w \in Seq(Msgs) /\ <<x>> \in Seq(Msgs)
      <4>1. w \in Seq(Msgs)
        BY SeqMonotonic DEF Msgs
      <4>2. Initialize \in Msgs /\ msg \in Msgs
        BY DEF Msgs
      <4> QED BY <1>1, <4>1, <4>2
    <3>4. (<<Initialize, msg>> \o w) \o <<x>> = <<Initialize, msg>> \o (w \o <<x>>)
      BY <3>3, ConcatAssociative
    <3> QED BY <1>3, <2>3, <3>1, <3>2, <3>4
  <2> QED BY <2>1, <2>2, <2>3, <2>4, <2>5 DEF Loops
<1> QED BY <1>8, <1>9

(* The fold behind the opening sequence.                                    *)
LEMMA HeldLoops ==
  ASSUME NEW f, NEW q \in Seq(Requested), NEW msg \in Texts,
         Loops(f[0], msg, <<>>), \A k \in 1..Len(q) : f[k] = AdmitHeld(f[k - 1], q[k])
  PROVE  Loops(f[Len(q)], msg, q)
<1> DEFINE m == Len(q)
           T == {k \in 0..m : ~Loops(f[k], msg, SubSeq(q, 1, k))}
<1>0. SubSeq(q, 1, m) = q /\ SubSeq(q, 1, 0) = <<>> /\ m \in Nat /\ q \in Seq(Msgs)
  <2>1. SubSeq(q, 1, m) = q /\ SubSeq(q, 1, 0) = <<>>
    BY PrefixIs
  <2>2. q \in Seq(Msgs)
    BY SeqMonotonic DEF Msgs
  <2> QED BY <2>1, <2>2, SeqIs
<1> HIDE DEF m
<1>1. SUFFICES ASSUME T # {} PROVE FALSE
  <2>1. m \in 0..m
    BY <1>0
  <2> QED BY <1>0, <1>1, <2>1 DEF m
<1>2. T \in SUBSET Nat
  OBVIOUS
<1>3. PICK k \in T : \A x \in T : k <= x
  BY <1>1, <1>2, LeastNat
<1>4. k \in 0..m
  BY <1>3
<1>5. CASE k = 0
  BY <1>0, <1>3, <1>5
<1>6. CASE k # 0
  <2>1. k - 1 \in 0..m /\ k \in 1..m /\ ~(k <= k - 1)
    BY <1>0, <1>4, <1>6
  <2>2. k - 1 \notin T
    <3> HIDE DEF T
    <3> QED BY <1>3, <2>1
  <2>3. Loops(f[k - 1], msg, SubSeq(q, 1, k - 1))
    BY <2>1, <2>2
  <2>4. SubSeq(q, 1, k - 1) \in Seq(Requested) /\ SubSeq(q, 1, k) = Append(SubSeq(q, 1, k - 1), q[k]) /\ q[k] \in Requested
    BY <2>1, PrefixIs DEF m
  <2>5. f[k] = AdmitHeld(f[k - 1], q[k])
    BY <2>1 DEF m
  <2>6. SubSeq(q, 1, k - 1) \in Seq(Msgs)
    BY <2>4, SeqMonotonic DEF Msgs
  <2>7. Loops(f[k], msg, SubSeq(q, 1, k))
    BY <2>3, <2>4, <2>5, <2>6, LoopsNext
  <2> QED BY <1>3, <2>7
<1> QED BY <1>5, <1>6

(* Opening the loop: nothing that waited is lost or doubled.                *)
LEMMA OpenLoops ==
  ASSUME NEW t, NEW q \in Seq(Msgs), Waits(t, q), NEW msg \in Texts
  PROVE  \E r \in Seq(Requested) : Loops(OpenLoop(t, msg), msg, r) /\ \A i \in Ids : At(i, r) = At(i, q)
<1>1. /\ t \in Doors /\ t.phase = "ready" /\ t.backlog = <<>> /\ ~t.ringBusy
      /\ t.doc = 0 /\ t.progress = NoProgress /\ t.header = "none"
      /\ t.queue \in Seq(Requested)
      /\ \A i \in Ids : At(i, t.queue) = At(i, q)
  BY DEF Waits
<1>2. Len(t.queue) \in Nat
  BY <1>1, SeqIs
<1>3. PICK f : /\ f[0] = Opened(t, msg)
               /\ \A k \in 1..Len(t.queue) : f[k] = AdmitHeld(f[k - 1], t.queue[k])
               /\ OpenLoop(t, msg) = f[Len(t.queue)]
  BY <1>2, OpenLoopIs
<1> DEFINE u == Opened(t, msg)
           two == <<Initialize, msg>>
<1>4. /\ msg \in Msgs /\ msg.v \in Nat /\ msg.id = NoId /\ Initialize \in Msgs /\ Initialize.id = NoId
  BY DEF Msgs, Texts, Initialize, Message
<1>5. two \in Seq(Msgs) /\ <<>> \o two = two /\ two \o <<>> = two /\ <<>> \in Seq(Requested) /\ <<>> \in Seq(Msgs)
  BY <1>4, ConcatEmptySeq
<1>6. t.writes = <<>> /\ t.replies = <<>>
  BY <1>1 DEF Doors
<1>7. u = [t EXCEPT !.phase = "open", !.base = 0, !.doc = msg.v, !.lastVersion = msg.v,
                    !.start = TRUE, !.writes = two, !.queue = <<>>]
  BY <1>5, <1>6 DEF Opened
<1>8. u \in Steps
  <2>1. u = [phase |-> "open", queue |-> <<>>, backlog |-> t.backlog, ringBusy |-> t.ringBusy,
             doc |-> msg.v, base |-> 0, lastVersion |-> msg.v, progress |-> t.progress,
             header |-> t.header, writes |-> two, replies |-> t.replies, start |-> TRUE]
    BY <1>1, <1>7 DEF Doors
  <2>2. /\ t.backlog \in Seq(Msgs) /\ t.ringBusy \in BOOLEAN /\ t.replies \in Seq(Msgs)
        /\ t.progress \in [version : Int, at : {"none", "working", "drained", "fatal"}]
        /\ t.header \in {"none", "covered", "refused"}
    BY <1>1, <1>5, <1>6 DEF Doors
  <2> HIDE DEF u, two
  <2> QED BY <1>4, <1>5, <2>1, <2>2 DEF Steps, two
<1>9. /\ u.phase = "open" /\ u.queue = <<>> /\ u.backlog = <<>> /\ ~u.ringBusy
      /\ u.doc = msg.v /\ u.base = 0 /\ u.lastVersion = msg.v
      /\ u.progress = NoProgress /\ u.header = "none" /\ u.start
      /\ u.writes = two /\ u.replies = <<>>
  BY <1>1, <1>6, <1>7 DEF Doors
<1>10. \A i \in Ids : At(i, two) + At(i, <<>>) = At(i, <<>>)
  <2>1. ASSUME NEW i \in Ids PROVE At(i, two) = 0
    <3>1. {k \in DOMAIN two : two[k].id = i} = {}
      <4>1. NoId # i
        BY HostAssumption
      <4>2. DOMAIN two = 1..2 /\ two[1] = Initialize /\ two[2] = msg
        OBVIOUS
      <4> QED BY <1>4, <4>1, <4>2
    <3> QED BY <3>1, FS_EmptySet DEF At
  <2>2. \A i : At(i, <<>>) = 0
    BY AtNone
  <2> QED BY <2>1, <2>2
<1>11. \E w \in Seq(Requested) : two = two \o w
  BY <1>5
<1> HIDE DEF u, two
<1>12. Loops(u, msg, <<>>)
  BY <1>8, <1>9, <1>10, <1>11 DEF Loops, two
<1>13. Loops(f[Len(t.queue)], msg, t.queue)
  BY <1>1, <1>3, <1>12, HeldLoops DEF u
<1> QED BY <1>1, <1>3, <1>13

-----------------------------------------------------------------------------
(* What goes into the ring and what waits is, in order, what was given.     *)
LEMMA ToRingIs ==
  ASSUME NEW q \in Seq(Msgs), NEW r \in Seq(Msgs), Len(r) <= RingCap
  PROVE  /\ ToRing(q, r).ring \in Seq(Msgs) /\ ToRing(q, r).fifo \in Seq(Msgs)
         /\ Len(ToRing(q, r).ring) <= RingCap
         /\ ToRing(q, r).ring \o ToRing(q, r).fifo = r \o q
<1> DEFINE n == IF Len(q) <= RingCap - Len(r) THEN Len(q) ELSE RingCap - Len(r)
           a == SubSeq(q, 1, n)
           b == SubSeq(q, n + 1, Len(q))
<1>1. Len(q) \in Nat /\ Len(r) \in Nat /\ RingCap \in Nat /\ DOMAIN q = 1..Len(q) /\ \A k \in DOMAIN q : q[k] \in Msgs
  BY HostAssumption, SeqIs
<1>2. n \in 0..Len(q) /\ n + Len(r) <= RingCap
  BY <1>1
<1>3. ToRing(q, r).ring = r \o a /\ ToRing(q, r).fifo = b
  BY DEF ToRing
<1> HIDE DEF n
<1>4. a \in Seq(Msgs) /\ Len(a) = n /\ b \in Seq(Msgs)
  <2>1. /\ 1 \in Int /\ n \in Int /\ n + 1 \in Int /\ Len(q) \in Int
        /\ \A i \in 1..n : q[i] \in Msgs
        /\ \A i \in (n + 1)..Len(q) : q[i] \in Msgs
    BY <1>1, <1>2
  <2>2. a \in Seq(Msgs) /\ Len(a) = IF 1 <= n THEN n - 1 + 1 ELSE 0
    BY <2>1, SubSeqProperties
  <2>3. b \in Seq(Msgs)
    BY <2>1, SubSeqProperties
  <2> QED BY <1>2, <2>2, <2>3
<1>5. a \o b = q
  <2>1. 1 \in 1..Len(q) + 1 /\ n \in (1 - 1)..Len(q) /\ Len(q) \in n..Len(q)
    BY <1>1, <1>2
  <2>2. a \o b = SubSeq(q, 1, Len(q))
    BY <2>1, ConcatAdjacentSubSeq
  <2> QED BY <2>2, SubSeqFull
<1> HIDE DEF a, b
<1>6. r \o a \in Seq(Msgs) /\ Len(r \o a) = Len(r) + Len(a)
  BY <1>4, ConcatProperties
<1>7. (r \o a) \o b = r \o q
  <2>1. ASSUME NEW u \in Seq(Msgs), NEW w \in Seq(Msgs), NEW x \in Seq(Msgs)
        PROVE  (u \o w) \o x = u \o (w \o x)
    BY ConcatAssociative, SMTT(40)
  <2> QED BY <1>4, <1>5, <2>1
<1> QED BY <1>1, <1>2, <1>3, <1>4, <1>6, <1>7

(* The frames written that fit, in their order.                             *)
Fitting(q) == Picked(q, {k \in DOMAIN q : Fits(q[k])})

(* Nothing is picked of nothing.                                            *)
LEMMA FittingNone == Fitting(<<>>) = <<>>
<1>1. <<>> \in Seq(Msgs) /\ DOMAIN <<>> = {}
  BY EmptySeq
<1> DEFINE K == {k \in DOMAIN <<>> : Fits(<<>>[k])}
           p == Picked(<<>>, K)
<1>2. K = {}
  BY <1>1
<1>3. p \in Seq(Msgs) /\ Picks(p, <<>>, K)
  BY <1>1, PickedIs
<1>4. Fitting(<<>>) = p
  BY DEF Fitting
<1> HIDE DEF p, K
<1>5. DOMAIN p = {}
  BY <1>2, <1>3 DEF Picks
<1>6. p = <<>>
  BY <1>3, <1>5, SeqIs, EmptySeq
<1> QED BY <1>4, <1>6

(* Every request fits: none is lost on the way to the ring.                 *)
LEMMA FittingIs ==
  ASSUME NEW q \in Seq(Msgs)
  PROVE  /\ Fitting(q) \in Seq(Msgs)
         /\ \A i \in Ids : At(i, Fitting(q)) = At(i, q)
<1> DEFINE K == {k \in DOMAIN q : Fits(q[k])}
<1>1. \A k \in DOMAIN q : q[k].id \in Ids => k \in K
  <2>1. ASSUME NEW k \in DOMAIN q, q[k].id \in Ids PROVE k \in K
    <3>1. q[k] \in Requested
      BY <2>1, SeqIs, MsgIs
    <3>2. q[k].n = 0
      BY <3>1 DEF Requested
    <3>3. 0 \notin TooLarge
      BY HostAssumption
    <3> QED BY <3>2, <3>3 DEF Fits
  <2> QED BY <2>1
<1>2. K \in SUBSET DOMAIN q
  OBVIOUS
<1>3. Fitting(q) = Picked(q, K)
  BY DEF Fitting
<1> HIDE DEF K
<1>4. \A i \in Ids : At(i, Picked(q, K)) = At(i, q)
  <2>1. ASSUME NEW i \in Ids PROVE At(i, Picked(q, K)) = At(i, q)
    <3>1. \A k \in DOMAIN q : q[k].id = i => k \in K
      BY <1>1
    <3> QED BY <1>2, <3>1, AtPicked
  <2> QED BY <2>1
<1>5. Picked(q, K) \in Seq(Msgs)
  BY <1>2, PickedIs
<1> QED BY <1>3, <1>4, <1>5

(* A step's frames join the line; the front door learns that it is parked.  *)
LEMMA WriteIs ==
  ASSUME NEW s, NEW q \in Seq(Msgs), NEW r \in Seq(Msgs), Len(r) <= RingCap,
         Write(s, q, r), Fresh(s) \in Doors, s.writes \in Seq(Msgs),
         Fresh(s).ringBusy <=> q # <<>>, q # <<>> => s.writes = <<>>
  PROVE  /\ ring' \in Seq(Msgs) /\ fifo' \in Seq(Msgs) /\ Len(ring') <= RingCap
         /\ ring' \o fifo' = (r \o q) \o Fitting(s.writes)
         /\ fd' = [Fresh(s) EXCEPT !.ringBusy = (fifo' # <<>>)]
         /\ q # <<>> => fifo' = q
<1> DEFINE p == Fitting(s.writes)
           m == ToRing(p, r)
<1>1. p \in Seq(Msgs)
  BY FittingIs
<1>2. r \o <<>> = r /\ q \o <<>> = q /\ (r \o q) \o <<>> = r \o q
  BY ConcatEmptySeq, ConcatProperties
<1>3. IF q # <<>>
      THEN fifo' = q \o p /\ ring' = r /\ fd' = Fresh(s)
      ELSE /\ fifo' = m.fifo /\ ring' = m.ring
           /\ fd' = IF m.fifo # <<>> THEN ringParked(s) ELSE Fresh(s)
  BY DEF Write, Fitting
<1>4. /\ m.ring \in Seq(Msgs) /\ m.fifo \in Seq(Msgs) /\ Len(m.ring) <= RingCap
      /\ m.ring \o m.fifo = r \o p
  BY <1>1, ToRingIs
<1>5. ringParked(s) = [Fresh(s) EXCEPT !.ringBusy = TRUE]
  BY DEF ringParked
<1> DEFINE f == Fresh(s)
<1>6. \A b \in BOOLEAN : f.ringBusy = b => f = [f EXCEPT !.ringBusy = b]
  <2>1. f \in Doors
    OBVIOUS
  <2> HIDE DEF f
  <2> QED BY <2>1 DEF Doors
<1>7. f.ringBusy \in BOOLEAN
  <2>1. f \in Doors
    OBVIOUS
  <2> HIDE DEF f
  <2> QED BY <2>1 DEF Doors
<1> HIDE DEF m, f
<1>8. CASE q # <<>>
  <2>1. p = <<>>
    BY <1>8, FittingNone
  <2> HIDE DEF p
  <2>2. fifo' = q /\ ring' = r /\ fd' = f
    BY <1>2, <1>3, <1>8, <2>1 DEF f
  <2>3. f.ringBusy = TRUE
    BY <1>7, <1>8 DEF f
  <2>4. (fifo' # <<>>) = TRUE
    BY <1>8, <2>2
  <2>5. fd' = [f EXCEPT !.ringBusy = (fifo' # <<>>)]
    BY <1>6, <2>2, <2>3, <2>4
  <2> QED BY <1>2, <2>1, <2>2, <2>5 DEF f, p
<1>9. CASE q = <<>>
  <2> HIDE DEF p
  <2>1. fifo' = m.fifo /\ ring' = m.ring /\ fd' = IF m.fifo # <<>> THEN ringParked(s) ELSE f
    BY <1>3, <1>9 DEF f
  <2>2. f.ringBusy = FALSE
    BY <1>7, <1>9 DEF f
  <2>3. fd' = [f EXCEPT !.ringBusy = (fifo' # <<>>)]
    <3>1. CASE m.fifo # <<>>
      <4>1. (fifo' # <<>>) = TRUE
        BY <2>1, <3>1
      <4> QED BY <1>5, <2>1, <3>1, <4>1 DEF f
    <3>2. CASE m.fifo = <<>>
      <4>1. (fifo' # <<>>) = FALSE
        BY <2>1, <3>2
      <4> QED BY <1>6, <2>1, <2>2, <3>2, <4>1
    <3> QED BY <3>1, <3>2
  <2>4. ring' \o fifo' = (r \o q) \o p
    BY <1>2, <1>4, <1>9, <2>1
  <2> QED BY <1>4, <1>9, <2>1, <2>3, <2>4 DEF f, p
<1> QED BY <1>8, <1>9

(* Between two steps the front door has no effects.                         *)
LEMMA DoorIs ==
  ASSUME NEW d \in Doors
  PROVE  Fresh(d) = d /\ d.writes = <<>> /\ d.replies = <<>> /\ ~d.start
<1>1. d.writes = <<>> /\ d.replies = <<>> /\ d.start = FALSE
  BY DEF Doors
<1>2. Fresh(d) = [d EXCEPT !.writes = d.writes, !.replies = d.replies, !.start = d.start]
  BY <1>1 DEF Fresh
<1>3. [d EXCEPT !.writes = d.writes, !.replies = d.replies, !.start = d.start] = d
  BY DEF Doors
<1> QED BY <1>1, <1>2, <1>3

(* An open front door's step, and what it comes to: what is in line flows   *)
(* on, and the requests are where they were.                                *)
Pumps(s, q, r) ==
  /\ Write(s, q, r) /\ q \in Seq(Msgs) /\ r \in Seq(Msgs) /\ Len(r) <= RingCap
  /\ Fresh(s) \in Doors /\ s.writes \in Seq(Msgs)
  /\ Fresh(s).ringBusy <=> q # <<>>
  /\ q # <<>> => s.writes = <<>>
  /\ ~Fresh(s).ringBusy => Fresh(s).backlog = <<>>
Pumped(s, q, r, at, v, n, last, cn) ==
  /\ ring' \in Seq(Msgs) /\ fifo' \in Seq(Msgs) /\ Len(ring') <= RingCap
  /\ fd' \in Doors /\ fd'.phase = Fresh(s).phase /\ fd'.queue = Fresh(s).queue
  /\ fd'.backlog = Fresh(s).backlog /\ fd'.doc = Fresh(s).doc /\ fd'.base = Fresh(s).base
  /\ fd'.lastVersion = Fresh(s).lastVersion /\ fd'.progress = Fresh(s).progress
  /\ fd'.header = Fresh(s).header
  /\ fd'.ringBusy <=> fifo' # <<>>
  /\ ~fd'.ringBusy => fd'.backlog = <<>>
  /\ Flow(ring' \o fifo', fd'.backlog, at, v, n, last, cn)
  /\ \A i \in Ids : At(i, ring') + At(i, fifo') = At(i, r) + At(i, q) + At(i, s.writes)

(* What an open front door writes goes through the pump.                    *)
LEMMA OpenStep ==
  ASSUME NEW s, NEW q, NEW r, Pumps(s, q, r),
         NEW at, NEW v \in Nat, NEW n, NEW last \in Int, NEW cn,
         Flow((r \o q) \o Fitting(s.writes), Fresh(s).backlog, at, v, n, last, cn)
  PROVE  Pumped(s, q, r, at, v, n, last, cn)
<1>0. /\ Write(s, q, r) /\ q \in Seq(Msgs) /\ r \in Seq(Msgs) /\ Len(r) <= RingCap
      /\ Fresh(s) \in Doors /\ s.writes \in Seq(Msgs)
      /\ Fresh(s).ringBusy <=> q # <<>>
      /\ q # <<>> => s.writes = <<>>
      /\ ~Fresh(s).ringBusy => Fresh(s).backlog = <<>>
  BY DEF Pumps
<1>1. /\ ring' \in Seq(Msgs) /\ fifo' \in Seq(Msgs) /\ Len(ring') <= RingCap
      /\ ring' \o fifo' = (r \o q) \o Fitting(s.writes)
      /\ fd' = [Fresh(s) EXCEPT !.ringBusy = (fifo' # <<>>)]
      /\ q # <<>> => fifo' = q
  BY <1>0, WriteIs
<1> DEFINE f == Fresh(s)
<1>2. f \in Doors
  BY <1>0
<1>3. f.ringBusy <=> q # <<>>
  BY <1>0
<1>4. ~f.ringBusy => f.backlog = <<>>
  BY <1>0
<1> HIDE DEF f
<1>5. /\ fd' \in Doors /\ fd'.phase = f.phase /\ fd'.queue = f.queue
      /\ fd'.backlog = f.backlog /\ fd'.doc = f.doc /\ fd'.base = f.base
      /\ fd'.lastVersion = f.lastVersion /\ fd'.progress = f.progress
      /\ fd'.header = f.header
      /\ fd'.ringBusy <=> fifo' # <<>>
  <2>1. fd' = [f EXCEPT !.ringBusy = (fifo' # <<>>)]
    BY <1>1 DEF f
  <2>2. (fifo' # <<>>) \in BOOLEAN
    BY <1>0
  <2>3. \A b \in BOOLEAN : LET g == [f EXCEPT !.ringBusy = b]
                           IN  /\ g \in Doors /\ g.phase = f.phase /\ g.queue = f.queue
                               /\ g.backlog = f.backlog /\ g.doc = f.doc /\ g.base = f.base
                               /\ g.lastVersion = f.lastVersion /\ g.progress = f.progress
                               /\ g.header = f.header /\ g.ringBusy = b
    BY <1>2 DEF Doors
  <2> QED BY <2>1, <2>2, <2>3
<1>6. ~fd'.ringBusy => fd'.backlog = <<>>
  BY <1>1, <1>3, <1>4, <1>5
<1>7. Flow(ring' \o fifo', fd'.backlog, at, v, n, last, cn)
  BY <1>1, <1>5 DEF f
<1>8. ASSUME NEW i \in Ids PROVE At(i, ring') + At(i, fifo') = At(i, r) + At(i, q) + At(i, s.writes)
  <2>1. At(i, ring' \o fifo') = At(i, ring') + At(i, fifo')
    BY <1>1, AtConcat
  <2>2. r \o q \in Seq(Msgs) /\ Fitting(s.writes) \in Seq(Msgs)
    BY <1>0, ConcatProperties, FittingIs
  <2>3. At(i, (r \o q) \o Fitting(s.writes)) = At(i, r \o q) + At(i, Fitting(s.writes))
    BY <2>2, AtConcat
  <2>4. At(i, r \o q) = At(i, r) + At(i, q)
    BY <1>0, AtConcat
  <2>5. At(i, Fitting(s.writes)) = At(i, s.writes)
    BY <1>0, FittingIs
  <2> QED BY <1>1, <2>1, <2>3, <2>4, <2>5
<1> QED BY <1>1, <1>5, <1>6, <1>7, <1>8 DEF Pumped, f

(* What an open loop emits joins what flows: a request, or the newest text. *)
Newest(x, last, cn, last2, cn2) ==
  \/ x \in Requested /\ last2 = last /\ cn2 = cn
  \/ x \in Texts /\ x.m = "change" /\ x.v = last + 1 /\ last2 = last + 1 /\ cn2 = x.n

(* The flow with a frame more, in line or behind it.                        *)
LEMMA EmitFlow ==
  ASSUME NEW line, NEW back, NEW at, NEW v \in Nat, NEW n, NEW last \in Int, NEW cn,
         Flow(line, back, at, v, n, last, cn),
         NEW x \in Msgs, NEW last2 \in Int, NEW cn2, Newest(x, last, cn, last2, cn2)
  PROVE  /\ Flow(line, enqueue(back, x), at, v, n, last2, cn2)
         /\ back = <<>> => Flow(line \o Fitting(<<x>>), <<>>, at, v, n, last2, cn2)
<1>1. back \in Seq(Msgs)
  BY DEF Flow
<1>2. ASSUME NEW b, Flow(line, b, at, v, n, last, cn)
      PROVE  Flow(line, Append(b, x), at, v, n, last2, cn2)
  BY <1>2, TextFlow, RequestFlow DEF Newest
<1>3. Flow(line, enqueue(back, x), at, v, n, last2, cn2)
  <2>1. PICK K \in SUBSET DOMAIN back : enqueue(back, x) = Append(Picked(back, K), x)
    BY <1>1, EnqueueIs
  <2>2. Flow(line, Picked(back, K), at, v, n, last, cn)
    BY PickFlow
  <2> QED BY <1>2, <2>1, <2>2
<1>4. ASSUME back = <<>> PROVE Flow(line \o Fitting(<<x>>), <<>>, at, v, n, last2, cn2)
  <2>1. Append(<<>>, x) = <<x>>
    OBVIOUS
  <2>2. Flow(line, <<x>>, at, v, n, last2, cn2)
    BY <1>2, <1>4, <2>1
  <2> DEFINE K == {k \in DOMAIN <<x>> : Fits(<<x>>[k])}
  <2>3. K \in SUBSET DOMAIN <<x>> /\ Fitting(<<x>>) = Picked(<<x>>, K)
    BY DEF Fitting
  <2> HIDE DEF K
  <2>4. Flow(line, Picked(<<x>>, K), at, v, n, last2, cn2)
    BY <2>2, <2>3, PickFlow
  <2> QED BY <2>3, <2>4, FlushFlow
<1> QED BY <1>3, <1>4

(* A front door that steps in an open loop: the step has at most a write or *)
(* a reply, and what it emits joins the line.                               *)
Onward(d, s, line, at, v, n, cn) ==
  /\ Fresh(s) \in Doors /\ Fresh(s).phase = "open" /\ Fresh(s).queue = <<>>
  /\ Fresh(s).ringBusy = d.ringBusy /\ Fresh(s).progress = d.progress
  /\ ~d.ringBusy => Fresh(s).backlog = <<>>
  /\ d.ringBusy => s.writes = <<>>
  /\ s.writes \in Seq(Msgs) /\ ~s.start
  /\ Flow(line \o Fitting(s.writes), Fresh(s).backlog, at, v, n, Fresh(s).lastVersion, cn)

(* An open door d with one more frame: held back, or written.               *)
Emits(s, d, x) ==
  s = IF d.ringBusy THEN [d EXCEPT !.backlog = enqueue(d.backlog, x)] ELSE [d EXCEPT !.writes = <<x>>]
Keeps(s, d, x) ==
  \A i \in Ids : At(i, Fresh(s).backlog) + At(i, s.writes) = At(i, d.backlog) + IF x.id = i THEN 1 ELSE 0

(* What an open front door emits.                                           *)
LEMMA EmitIs ==
  ASSUME NEW d \in Doors, d.phase = "open", d.queue = <<>>, ~d.ringBusy => d.backlog = <<>>,
         NEW line, NEW at, NEW v \in Nat, NEW n, NEW last \in Int, NEW cn,
         Flow(line, d.backlog, at, v, n, last, cn),
         NEW x \in Msgs, NEW cn2, Newest(x, last, cn, d.lastVersion, cn2),
         NEW s, Emits(s, d, x)
  PROVE  /\ Onward(d, s, line, at, v, n, cn2)
         /\ Fresh(s).doc = d.doc /\ Fresh(s).base = d.base /\ Fresh(s).lastVersion = d.lastVersion
         /\ s.replies = <<>> /\ Keeps(s, d, x)
<1>1. /\ line \in Seq(Msgs) /\ d.backlog \in Seq(Msgs) /\ d.lastVersion \in Int /\ d.ringBusy \in BOOLEAN
      /\ d.writes = <<>> /\ d.replies = <<>> /\ ~d.start
  BY DEF Flow, Doors
<1> DEFINE e == enqueue(d.backlog, x)
<1>2. /\ Flow(line, e, at, v, n, d.lastVersion, cn2)
      /\ d.backlog = <<>> => Flow(line \o Fitting(<<x>>), <<>>, at, v, n, d.lastVersion, cn2)
  BY <1>1, EmitFlow
<1>3. e \in Seq(Msgs) /\ \A i \in Ids : At(i, e) = At(i, d.backlog) + IF x.id = i THEN 1 ELSE 0
  <2>1. e \in Seq(Msgs)
    BY <1>2 DEF Flow
  <2> QED BY <1>1, <2>1, EnqueueIs
<1> HIDE DEF e
<1>4. CASE d.ringBusy
  <2>1. s = [d EXCEPT !.backlog = e]
    BY <1>4 DEF e, Emits
  <2>2. /\ s \in Doors /\ s.backlog = e /\ s.writes = <<>> /\ s.replies = <<>> /\ ~s.start
        /\ s.phase = "open" /\ s.queue = <<>> /\ s.ringBusy = d.ringBusy /\ s.progress = d.progress
        /\ s.doc = d.doc /\ s.base = d.base /\ s.lastVersion = d.lastVersion
    BY <1>3, <2>1 DEF Doors
  <2>3. Fresh(s) = s
    BY <2>2, DoorIs
  <2>4. line \o Fitting(<<>>) = line
    BY <1>1, FittingNone, ConcatEmptySeq
  <2>5. \A i \in Ids : At(i, e) + At(i, <<>>) = At(i, d.backlog) + IF x.id = i THEN 1 ELSE 0
    <3>1. \A i \in Ids : At(i, d.backlog) \in Nat
      BY <1>1, AtIs
    <3>2. \A i : At(i, <<>>) = 0
      BY AtNone
    <3> QED BY <1>3, <3>1, <3>2
  <2>6. <<>> \in Seq(Msgs)
    BY EmptySeq
  <2> QED BY <1>2, <1>4, <2>2, <2>3, <2>4, <2>5, <2>6 DEF Onward, Keeps
<1>5. CASE ~d.ringBusy
  <2>1. s = [d EXCEPT !.writes = <<x>>]
    BY <1>5 DEF Emits
  <2>2. s.writes = <<x>> /\ s.replies = <<>> /\ ~s.start
    BY <1>1, <2>1 DEF Doors
  <2>3. Fresh(s) = d
    BY <1>1, <2>1 DEF Fresh, Doors
  <2>4. d.backlog = <<>> /\ <<x>> \in Seq(Msgs)
    BY <1>5
  <2>5. \A i \in Ids : At(i, <<>>) + At(i, <<x>>) = At(i, <<>>) + IF x.id = i THEN 1 ELSE 0
    <3>1. \A i : At(i, <<>>) = 0 /\ At(i, <<x>>) = IF x.id = i THEN 1 ELSE 0
      BY AtNone, AtOne
    <3> QED BY <3>1
  <2> QED BY <1>2, <1>5, <2>2, <2>3, <2>4, <2>5 DEF Onward, Keeps
<1> QED BY <1>1, <1>4, <1>5

-----------------------------------------------------------------------------
(* A message of the client's at an open loop: the client is then at version *)
(* cv with the text cn, and the message is on its way or answered.          *)
Admitted(s, x, cv, cn) ==
  /\ Onward(fd, s, ring \o fifo, fw.at, fw.v, fw.n, cn)
  /\ Fresh(s).doc = cv /\ Fresh(s).lastVersion = cv + Fresh(s).base
  /\ s.replies \in Seq({x})
  /\ \A i \in Ids : At(i, Fresh(s).backlog) + At(i, s.writes) + At(i, s.replies)
                      = At(i, fd.backlog) + IF x.id = i THEN 1 ELSE 0

(* An open front door, between two steps.                                   *)
LEMMA OpenIs ==
  ASSUME IInv, fd.phase = "open"
  PROVE  /\ fd \in Doors /\ Fresh(fd) = fd /\ fd.writes = <<>> /\ fd.replies = <<>> /\ ~fd.start
         /\ fd.queue = <<>> /\ fd.backlog \in Seq(Msgs) /\ fd.ringBusy \in BOOLEAN
         /\ fd.doc \in Nat \ {0} /\ fd.base \in Nat /\ fd.lastVersion = fd.doc + fd.base
         /\ fd.lastVersion \in Nat \ {0} /\ fd.doc = clientDoc.v
         /\ ~fd.ringBusy => fd.backlog = <<>>
         /\ fd.ringBusy <=> fifo # <<>>
         /\ fifo \in Seq(Msgs) /\ ring \in Seq(Msgs) /\ Len(ring) <= RingCap
         /\ fw.at \in {"start", "initialized", "open", "broken"} /\ fw.v \in Nat
         /\ clientDoc.v \in Nat \ {0} /\ clientDoc.n \in Nat
         /\ Flow(ring \o fifo, fd.backlog, fw.at, fw.v, fw.n, fd.lastVersion, clientDoc.n)
<1>1. /\ fd \in Doors /\ fw \in Workers /\ fifo \in Seq(Msgs) /\ ring \in Seq(Msgs)
      /\ Len(ring) <= RingCap /\ clientDoc \in [v : Nat, n : Nat] /\ Running
  BY DEF IInv, Typed
<1>2. /\ fd.writes = <<>> /\ fd.replies = <<>> /\ ~fd.start
      /\ fd.backlog \in Seq(Msgs) /\ fd.ringBusy \in BOOLEAN
      /\ fd.doc \in Nat /\ fd.base \in Nat /\ Fresh(fd) = fd
  <2>1. /\ fd.backlog \in Seq(Msgs) /\ fd.ringBusy \in BOOLEAN
        /\ fd.doc \in Nat /\ fd.base \in Nat
    BY <1>1 DEF Doors
  <2> QED BY <1>1, <2>1, DoorIs
<1>3. fw.at \in {"start", "initialized", "open", "broken"} /\ fw.v \in Nat
  BY <1>1 DEF Workers
<1> QED BY <1>1, <1>2, <1>3 DEF Running

(* A reply changes nothing else.                                            *)
LEMMA ReplyAdmits ==
  ASSUME IInv, fd.phase = "open", NEW x, x.id \in Ids
  PROVE  Admitted(Reply(fd, x), x, clientDoc.v, clientDoc.n)
<1> DEFINE s == Reply(fd, x)
<1>1. /\ fd \in Doors /\ Fresh(fd) = fd /\ fd.writes = <<>> /\ fd.replies = <<>> /\ ~fd.start
      /\ fd.queue = <<>> /\ fd.backlog \in Seq(Msgs) /\ fd.ringBusy \in BOOLEAN
      /\ fd.lastVersion = fd.doc + fd.base /\ fd.doc = clientDoc.v
      /\ ~fd.ringBusy => fd.backlog = <<>>
      /\ fifo \in Seq(Msgs) /\ ring \in Seq(Msgs)
      /\ Flow(ring \o fifo, fd.backlog, fw.at, fw.v, fw.n, fd.lastVersion, clientDoc.n)
  BY OpenIs
<1>2. s = [fd EXCEPT !.replies = <<x>>]
  BY <1>1 DEF Reply
<1>3. s.writes = <<>> /\ s.replies = <<x>> /\ ~s.start /\ Fresh(s) = fd
  BY <1>1, <1>2 DEF Fresh, Doors
<1> HIDE DEF s
<1>4. <<>> \in Seq(Msgs) /\ (ring \o fifo) \o Fitting(<<>>) = ring \o fifo
  <2>1. ring \o fifo \in Seq(Msgs)
    BY <1>1, ConcatProperties
  <2> QED BY <2>1, FittingNone, ConcatEmptySeq, EmptySeq
<1>5. ASSUME NEW i \in Ids
      PROVE At(i, fd.backlog) + At(i, <<>>) + At(i, <<x>>) = At(i, fd.backlog) + IF x.id = i THEN 1 ELSE 0
  <2>1. At(i, fd.backlog) \in Nat /\ At(i, <<>>) = 0 /\ At(i, <<x>>) = IF x.id = i THEN 1 ELSE 0
    BY <1>1, AtIs, AtNone, AtOne
  <2> QED BY <2>1
<1>6. Onward(fd, s, ring \o fifo, fw.at, fw.v, fw.n, clientDoc.n)
  BY <1>1, <1>3, <1>4 DEF Onward
<1> QED BY <1>1, <1>3, <1>5, <1>6 DEF Admitted, s

(* A request goes on its way.                                               *)
LEMMA RequestAdmits ==
  ASSUME IInv, fd.phase = "open", NEW x \in Requested
  PROVE  Admitted(emit(fd, x), x, clientDoc.v, clientDoc.n)
<1> DEFINE s == emit(fd, x)
<1>1. /\ fd \in Doors /\ Fresh(fd) = fd /\ fd.writes = <<>> /\ fd.replies = <<>> /\ ~fd.start
      /\ fd.queue = <<>> /\ fd.backlog \in Seq(Msgs) /\ fd.ringBusy \in BOOLEAN
      /\ fd.lastVersion = fd.doc + fd.base /\ fd.doc = clientDoc.v
      /\ ~fd.ringBusy => fd.backlog = <<>>
      /\ fd.lastVersion \in Int /\ fw.v \in Nat
      /\ Flow(ring \o fifo, fd.backlog, fw.at, fw.v, fw.n, fd.lastVersion, clientDoc.n)
  BY OpenIs
<1>2. x.m # "change" /\ x.v = 0 /\ x \in Msgs /\ Append(<<>>, x) = <<x>>
  BY DEF Requested, Msgs
<1>3. shiftVersions(x, fd.base) = x
  BY <1>2 DEF shiftVersions
<1>4. Emits(s, fd, x)
  BY <1>1, <1>2, <1>3 DEF emit, Emits
<1>5. Newest(x, fd.lastVersion, clientDoc.n, fd.lastVersion, clientDoc.n)
  BY DEF Newest
<1> HIDE DEF s
<1>6. /\ Onward(fd, s, ring \o fifo, fw.at, fw.v, fw.n, clientDoc.n)
      /\ Fresh(s).doc = fd.doc /\ Fresh(s).base = fd.base /\ Fresh(s).lastVersion = fd.lastVersion
      /\ s.replies = <<>>
      /\ \A i \in Ids : At(i, Fresh(s).backlog) + At(i, s.writes) = At(i, fd.backlog) + IF x.id = i THEN 1 ELSE 0
  <2> DEFINE line == ring \o fifo
             at == fw.at
             v == fw.v
             n == fw.n
             cn == clientDoc.n
  <2>1. Flow(line, fd.backlog, at, v, n, fd.lastVersion, cn) /\ v \in Nat
    BY <1>1
  <2>2. Newest(x, fd.lastVersion, cn, fd.lastVersion, cn)
    BY <1>5
  <2> HIDE DEF line, at, v, n, cn
  <2>3. /\ Onward(fd, s, line, at, v, n, cn)
        /\ Fresh(s).doc = fd.doc /\ Fresh(s).base = fd.base /\ Fresh(s).lastVersion = fd.lastVersion
        /\ s.replies = <<>> /\ Keeps(s, fd, x)
    BY <1>1, <1>2, <1>4, <2>1, <2>2, EmitIs
  <2> QED BY <2>3 DEF Keeps, line, at, v, n, cn
<1>7. \A i \in Ids : At(i, Fresh(s).backlog) + At(i, s.writes) + At(i, s.replies)
                       = At(i, fd.backlog) + IF x.id = i THEN 1 ELSE 0
  <2>1. \A i \in Ids : At(i, <<>>) = 0 /\ At(i, fd.backlog) \in Nat
    BY <1>1, AtNone, AtIs
  <2> QED BY <1>6, <2>1
<1> QED BY <1>1, <1>6, <1>7, EmptySeq DEF Admitted, s

(* The door once the client's text of version cv is its own.                *)
Dating(cv, base) == [fd EXCEPT !.base = base, !.doc = cv, !.lastVersion = cv + base]

(* The newest text goes on its way.                                         *)
LEMMA TextAdmits ==
  ASSUME IInv, fd.phase = "open", NEW cv \in Nat \ {0}, NEW cn \in Nat, NEW base \in Nat,
         cv + base = fd.lastVersion + 1,
         NEW s, Emits(s, Dating(cv, base), Message("change", cv + base, cn, NoId)),
         NEW y, y.id = NoId
  PROVE  Admitted(s, y, cv, cn)
<1> DEFINE t == Dating(cv, base)
           x == Message("change", cv + base, cn, NoId)
<1>1. /\ fd \in Doors /\ Fresh(fd) = fd /\ fd.writes = <<>> /\ fd.replies = <<>> /\ ~fd.start
      /\ fd.queue = <<>> /\ fd.backlog \in Seq(Msgs) /\ fd.ringBusy \in BOOLEAN
      /\ ~fd.ringBusy => fd.backlog = <<>>
      /\ fd.lastVersion \in Int /\ fw.v \in Nat
      /\ Flow(ring \o fifo, fd.backlog, fw.at, fw.v, fw.n, fd.lastVersion, clientDoc.n)
  BY OpenIs
<1>2. /\ t \in Doors /\ t.phase = "open" /\ t.queue = <<>> /\ t.backlog = fd.backlog
      /\ t.ringBusy = fd.ringBusy /\ t.progress = fd.progress /\ t.writes = <<>>
      /\ t.doc = cv /\ t.base = base /\ t.lastVersion = cv + base
  <2> DEFINE last == cv + base
             u == [fd EXCEPT !.base = base, !.doc = cv, !.lastVersion = last]
  <2>1. last \in Int
    OBVIOUS
  <2>2. t = u
    BY DEF Dating
  <2> HIDE DEF last, t
  <2>3. /\ u \in Doors /\ u.phase = "open" /\ u.queue = <<>> /\ u.backlog = fd.backlog
        /\ u.ringBusy = fd.ringBusy /\ u.progress = fd.progress /\ u.writes = <<>>
        /\ u.doc = cv /\ u.base = base /\ u.lastVersion = last
    BY <1>1, <2>1 DEF Doors
  <2> QED BY <2>2, <2>3 DEF last
<1>3. x \in Texts /\ x \in Msgs /\ x.m = "change" /\ x.v = cv + base /\ x.n = cn /\ x.id = NoId
  BY DEF Texts, Msgs, Message
<1>4. Newest(x, fd.lastVersion, clientDoc.n, cv + base, cn)
  BY <1>3 DEF Newest
<1> HIDE DEF t, x
<1>6. Emits(s, t, x)
  BY DEF t, x
<1>7. /\ Onward(t, s, ring \o fifo, fw.at, fw.v, fw.n, cn)
      /\ Fresh(s).doc = t.doc /\ Fresh(s).base = t.base /\ Fresh(s).lastVersion = t.lastVersion
      /\ s.replies = <<>>
      /\ \A i \in Ids : At(i, Fresh(s).backlog) + At(i, s.writes) = At(i, t.backlog) + IF x.id = i THEN 1 ELSE 0
  <2> DEFINE line == ring \o fifo
             at == fw.at
             v == fw.v
             n == fw.n
             m == clientDoc.n
             last == fd.lastVersion
  <2>1. Flow(line, t.backlog, at, v, n, last, m) /\ v \in Nat /\ last \in Int /\ Newest(x, last, m, t.lastVersion, cn)
    BY <1>1, <1>2, <1>4
  <2>2. ~t.ringBusy => t.backlog = <<>>
    BY <1>1, <1>2
  <2> HIDE DEF line, at, v, n, m, last
  <2>3. /\ Onward(t, s, line, at, v, n, cn)
        /\ Fresh(s).doc = t.doc /\ Fresh(s).base = t.base /\ Fresh(s).lastVersion = t.lastVersion
        /\ s.replies = <<>> /\ Keeps(s, t, x)
    <3>1. t \in Doors /\ t.phase = "open" /\ t.queue = <<>> /\ x \in Msgs
      BY <1>2, <1>3
    <3> QED BY <1>6, <2>1, <2>2, <3>1, EmitIs
  <2> QED BY <2>3 DEF Keeps, line, at, v, n
<1>8. Onward(fd, s, ring \o fifo, fw.at, fw.v, fw.n, cn)
  BY <1>2, <1>7 DEF Onward
<1>9. \A i \in Ids : At(i, Fresh(s).backlog) + At(i, s.writes) + At(i, s.replies)
                       = At(i, fd.backlog) + IF y.id = i THEN 1 ELSE 0
  <2>1. \A i \in Ids : At(i, <<>>) = 0 /\ At(i, fd.backlog) \in Nat
    BY <1>1, AtNone, AtIs
  <2> QED BY <1>2, <1>3, <1>7, <2>1
<1> QED BY <1>2, <1>7, <1>8, <1>9, EmptySeq DEF Admitted

(* What emit makes of a change.                                             *)
LEMMA EmitChange ==
  ASSUME NEW d, NEW z, z.m = "change", NEW t, t = [d EXCEPT !.doc = z.v, !.lastVersion = z.v + d.base],
         NEW y, shiftVersions(z, t.base) = y, t.writes = <<>>
  PROVE  Emits(emit(d, z), t, y)
<1>1. emit(d, z) = LET wire == shiftVersions(z, t.base)
                   IN  IF t.ringBusy THEN [t EXCEPT !.backlog = enqueue(@, wire)]
                                     ELSE [t EXCEPT !.writes = Append(@, wire)]
  BY DEF emit
<1>2. emit(d, z) = IF t.ringBusy THEN [t EXCEPT !.backlog = enqueue(@, y)]
                                 ELSE [t EXCEPT !.writes = Append(@, y)]
  BY <1>1
<1>3. Append(t.writes, y) = <<y>>
  <2>1. Append(<<>>, y) = <<y>>
    OBVIOUS
  <2>2. t.writes = <<>>
    OBVIOUS
  <2> QED BY <2>1, <2>2, Zenon
<1>4. [t EXCEPT !.writes = Append(@, y)] = [t EXCEPT !.writes = <<y>>]
  BY <1>3
<1> QED BY <1>2, <1>4 DEF Emits

(* A request at an open loop is answered at once or goes on its way.        *)
LEMMA ClientRequestAdmits ==
  ASSUME IInv, fd.phase = "open", NEW i \in Ids,
         NEW m \in {"initialize", "request", "completion", "importCompletion"}
  PROVE  Admitted(client(fd, Message(m, 0, 0, i)), Message(m, 0, 0, i), clientDoc.v, clientDoc.n)
<1> DEFINE x == Message(m, 0, 0, i)
<1>1. x.m = m /\ x.v = 0 /\ x.id = i /\ (m # "initialize" => x \in Requested)
  BY DEF Message, Requested
<1>2. Fresh(fd) = fd /\ fd.phase = "open"
  BY OpenIs
<1> HIDE DEF x
<1>3. client(fd, x) = AdmitHeld(fd, x)
  BY <1>2 DEF client, admit
<1>4. CASE m = "initialize"
  <2>1. AdmitHeld(fd, x) = Reply(fd, x)
    BY <1>1, <1>4 DEF AdmitHeld
  <2> QED BY <1>1, <1>3, <2>1, ReplyAdmits DEF x
<1>5. CASE m # "initialize"
  <2>1. AdmitHeld(fd, x) = IF FailsFast(fd, x) THEN Reply(fd, x) ELSE emit(fd, x)
    BY <1>1, <1>2, <1>5 DEF AdmitHeld, Stale
  <2>2. Admitted(Reply(fd, x), x, clientDoc.v, clientDoc.n)
    BY <1>1, ReplyAdmits
  <2>3. Admitted(emit(fd, x), x, clientDoc.v, clientDoc.n)
    BY <1>1, <1>5, RequestAdmits
  <2> QED BY <1>3, <2>1, <2>2, <2>3 DEF x
<1> QED BY <1>4, <1>5

(* A change at an open loop continues the version.                          *)
LEMMA ClientChangeAdmits ==
  ASSUME IInv, fd.phase = "open"
  PROVE  Admitted(client(fd, Message("change", clientDoc.v + 1, clientDoc.n + 1, NoId)),
                  Message("change", clientDoc.v + 1, clientDoc.n + 1, NoId), clientDoc.v + 1, clientDoc.n + 1)
<1> DEFINE cv == clientDoc.v + 1
           cn == clientDoc.n + 1
           x == Message("change", cv, cn, NoId)
<1>1. /\ Fresh(fd) = fd /\ fd.writes = <<>> /\ fd.base \in Nat /\ fd.doc = clientDoc.v
      /\ fd.lastVersion = fd.doc + fd.base /\ fd \in Doors
      /\ clientDoc.v \in Nat \ {0} /\ clientDoc.n \in Nat
  BY OpenIs
<1>2. cv \in Nat \ {0} /\ cn \in Nat /\ cv + fd.base = fd.lastVersion + 1 /\ ~(cv <= fd.doc)
  BY <1>1
<1>3. x.m = "change" /\ x.v = cv /\ x.id = NoId
  BY DEF Message
<1>4. Message("change", cv + fd.base, cn, NoId) = [x EXCEPT !.v = @ + fd.base]
  BY DEF Message
<1> HIDE DEF cv, cn, x
<1>5. client(fd, x) = AdmitHeld(fd, x)
  BY <1>1, <1>3 DEF client, admit
<1>6. AdmitHeld(fd, x) = emit(fd, x)
  BY <1>1, <1>2, <1>3 DEF AdmitHeld, FailsFast, IsCompletion, Stale
<1> DEFINE t == Dating(cv, fd.base)
           y == Message("change", cv + fd.base, cn, NoId)
<1>7. t = [fd EXCEPT !.doc = cv, !.lastVersion = cv + fd.base]
  BY <1>1 DEF Dating, Doors
<1>8. t.base = fd.base /\ t.writes = <<>>
  BY <1>1 DEF Dating, Doors
<1>9. shiftVersions(x, fd.base) = y
  BY <1>2, <1>3, <1>4 DEF shiftVersions
<1> HIDE DEF t, y
<1>11. Emits(emit(fd, x), t, y)
  BY <1>3, <1>7, <1>8, <1>9, EmitChange
<1>12. Emits(emit(fd, x), Dating(cv, fd.base), Message("change", cv + fd.base, cn, NoId))
  BY <1>11 DEF t, y
<1> DEFINE s == emit(fd, x)
<1>13. client(fd, x) = s
  BY <1>5, <1>6
<1> HIDE DEF s
<1>14. Admitted(s, x, cv, cn)
  BY <1>1, <1>2, <1>3, <1>12, TextAdmits DEF s
<1>15. Admitted(client(fd, x), x, cv, cn)
  BY <1>13, <1>14
<1> QED BY <1>15 DEF x, cv, cn

(* An open at an open loop is a change whose version the base moves.        *)
LEMMA ClientOpenAdmits ==
  ASSUME IInv, fd.phase = "open"
  PROVE  Admitted(client(fd, Message("open", 1, clientDoc.n + 1, NoId)),
                  Message("open", 1, clientDoc.n + 1, NoId), 1, clientDoc.n + 1)
<1> DEFINE cn == clientDoc.n + 1
           x == Message("open", 1, cn, NoId)
           base == fd.lastVersion
<1>1. /\ Fresh(fd) = fd /\ fd.writes = <<>> /\ base \in Nat /\ fd \in Doors /\ clientDoc.n \in Nat
  BY OpenIs
<1>2. cn \in Nat /\ 1 \in Nat \ {0} /\ 1 + base = fd.lastVersion + 1 /\ fd.lastVersion + 1 - 1 = base
  BY <1>1
<1>3. x.m = "open" /\ x.v = 1 /\ x.n = cn /\ x.id = NoId
  BY DEF Message
<1> HIDE DEF cn, x
<1>4. client(fd, x) = AdmitHeld(fd, x)
  BY <1>1, <1>3 DEF client, admit
<1>5. AdmitHeld(fd, x) = Reopen(fd, x)
  BY <1>1, <1>3 DEF AdmitHeld, FailsFast, IsCompletion
<1> DEFINE d == [fd EXCEPT !.base = base, !.doc = 1]
           z == Message("change", 1, cn, NoId)
           t == Dating(1, base)
           y == Message("change", 1 + base, cn, NoId)
<1>6. Reopen(fd, x) = emit(d, z)
  BY <1>2, <1>3 DEF Reopen
<1>7. z.m = "change" /\ z.v = 1
  BY DEF Message
<1>8. [d EXCEPT !.doc = z.v, !.lastVersion = z.v + d.base] = t /\ t.base = base /\ t.writes = <<>>
  <2>1. d.base = base
    BY <1>1 DEF Doors
  <2>2. [d EXCEPT !.doc = 1, !.lastVersion = 1 + base] = t
    BY <1>1 DEF Doors, Dating
  <2>3. t.base = base /\ t.writes = <<>>
    BY <1>1 DEF Doors, Dating
  <2> HIDE DEF t, z, d
  <2> QED BY <1>7, <2>1, <2>2, <2>3
<1>9. shiftVersions(z, base) = y
  BY <1>1 DEF shiftVersions, Message
<1> HIDE DEF base, d, z, t, y
<1> DEFINE s == emit(d, z)
<1>11. Emits(s, t, y)
  BY <1>7, <1>8, <1>9, EmitChange
<1>12. client(fd, x) = s
  BY <1>4, <1>5, <1>6
<1> HIDE DEF s
<1>13. Emits(s, Dating(1, base), Message("change", 1 + base, cn, NoId))
  BY <1>11 DEF t, y
<1>14. 1 + base = fd.lastVersion + 1
  BY OpenIs DEF base
<1>15. Admitted(s, x, 1, cn)
  BY <1>1, <1>2, <1>3, <1>13, <1>14, TextAdmits
<1>16. Admitted(client(fd, x), x, 1, cn)
  BY <1>12, <1>15
<1> QED BY <1>16 DEF x, cn

(* Replies are counted.                                                     *)
LEMMA AnswersAre ==
  ASSUME NEW S, NEW q \in Seq(S), Answers(q), answered \in [Ids -> Nat]
  PROVE  answered' \in [Ids -> Nat] /\ \A i \in Ids : answered'[i] = answered[i] + At(i, q)
<1>1. answered' = [i \in Ids |-> answered[i] + At(i, q)]
  BY DEF Answers, At
<1>2. \A i \in Ids : At(i, q) \in Nat
  BY AtIs
<1> QED BY <1>1, <1>2

(* The sums of a step.                                                      *)
LEMMA Sums ==
  ASSUME NEW a \in Int, NEW b \in Int, NEW c \in Int, NEW d \in Int,
         NEW da \in Int, NEW db \in Int, NEW dc \in Int, NEW dd \in Int
  PROVE  (a + da) + (b + db) + (c + dc) + (d + dd) = (a + b + c + d) + (da + db + dc + dd)
OBVIOUS

(* Every place holds a number of requests.                                  *)
Tallied ==
  \A i \in Ids : /\ AtDoor(i) \in Int /\ OnWay(i) \in Int /\ There(i) \in Int /\ answered[i] \in Int
                 /\ Tally(i) = AtDoor(i) + OnWay(i) + There(i) + answered[i]

(* In every typed state.                                                    *)
LEMMA TallyIs == Typed => Tallied
<1> SUFFICES ASSUME Typed, NEW i \in Ids
             PROVE  /\ AtDoor(i) \in Int /\ OnWay(i) \in Int /\ There(i) \in Int /\ answered[i] \in Int
                    /\ Tally(i) = AtDoor(i) + OnWay(i) + There(i) + answered[i]
  BY DEF Tallied
<1>1. fd.queue \in Seq(Msgs) /\ fd.backlog \in Seq(Msgs) /\ fifo \in Seq(Msgs) /\ ring \in Seq(Msgs)
      /\ answered[i] \in Nat
  BY DEF Typed, Doors
<1>2. At(i, fd.queue) \in Nat /\ At(i, fd.backlog) \in Nat /\ At(i, fifo) \in Nat /\ At(i, ring) \in Nat
  BY <1>1, AtIs
<1> QED BY <1>1, <1>2 DEF AtDoor, OnWay, There, Tally

(* The requests after a step, by what each place takes in.                  *)
LEMMA TallyNext ==
  ASSUME Typed, NEW i \in Ids,
         NEW da \in Int, NEW db \in Int, NEW dc \in Int, NEW dd \in Int,
         AtDoor(i)' = AtDoor(i) + da, OnWay(i)' = OnWay(i) + db, There(i)' = There(i) + dc,
         answered'[i] = answered[i] + dd
  PROVE  Tally(i)' = Tally(i) + (da + db + dc + dd)
<1>1. /\ AtDoor(i) \in Int /\ OnWay(i) \in Int /\ There(i) \in Int /\ answered[i] \in Int
      /\ Tally(i) = AtDoor(i) + OnWay(i) + There(i) + answered[i]
  BY TallyIs DEF Tallied
<1>2. Tally(i)' = AtDoor(i)' + OnWay(i)' + There(i)' + answered'[i]
  BY DEF Tally
<1> DEFINE a == AtDoor(i)
           b == OnWay(i)
           c == There(i)
           d == answered[i]
<1>3. Tally(i)' = (a + da) + (b + db) + (c + dc) + (d + dd)
  BY <1>2
<1>4. (a + da) + (b + db) + (c + dc) + (d + dd) = (a + b + c + d) + (da + db + dc + dd)
  <2> HIDE DEF a, b, c, d
  <2> QED BY <1>1, Sums DEF a, b, c, d
<1> QED BY <1>1, <1>3, <1>4

(* A message of the client's at an open loop.                               *)
LEMMA OpenApplied ==
  ASSUME IInv, Kept, fd.phase = "open", NEW x, NEW s, Apply(s),
         NEW cv \in Nat \ {0}, NEW cn \in Nat, Admitted(s, x, cv, cn),
         clientDoc' = [v |-> cv, n |-> cn], sent' \in SUBSET Ids,
         \A i \in Ids : x.id = i => i \notin sent,
         \A i \in Ids : i \in sent' <=> i \in sent \/ x.id = i,
         UNCHANGED <<fw, stdout>>
  PROVE  IInv' /\ Kept'
<1>1. /\ Fresh(s) \in Doors /\ Fresh(s).phase = "open" /\ Fresh(s).queue = <<>>
      /\ Fresh(s).ringBusy = fd.ringBusy /\ Fresh(s).progress = fd.progress
      /\ ~fd.ringBusy => Fresh(s).backlog = <<>>
      /\ fd.ringBusy => s.writes = <<>>
      /\ s.writes \in Seq(Msgs) /\ ~s.start
      /\ Flow((ring \o fifo) \o Fitting(s.writes), Fresh(s).backlog, fw.at, fw.v, fw.n, Fresh(s).lastVersion, cn)
      /\ Fresh(s).doc = cv /\ Fresh(s).lastVersion = cv + Fresh(s).base
      /\ s.replies \in Seq({x})
  BY DEF Admitted, Onward
<1>2. Answers(s.replies) /\ Write(s, fifo, ring) /\ UNCHANGED <<armed, dead>>
  BY <1>1 DEF Apply
<1>3. /\ fifo \in Seq(Msgs) /\ ring \in Seq(Msgs) /\ Len(ring) <= RingCap /\ fw.v \in Nat
      /\ fd.ringBusy <=> fifo # <<>>
      /\ fd.queue = <<>> /\ fd.backlog \in Seq(Msgs)
  BY OpenIs
<1>4. Fresh(s).lastVersion \in Int /\ Fresh(s).backlog \in Seq(Msgs)
  BY <1>1 DEF Doors
<1>5. /\ ring' \in Seq(Msgs) /\ fifo' \in Seq(Msgs) /\ Len(ring') <= RingCap
      /\ fd' \in Doors /\ fd'.phase = Fresh(s).phase /\ fd'.queue = Fresh(s).queue
      /\ fd'.backlog = Fresh(s).backlog /\ fd'.doc = Fresh(s).doc /\ fd'.base = Fresh(s).base
      /\ fd'.lastVersion = Fresh(s).lastVersion /\ fd'.progress = Fresh(s).progress
      /\ fd'.header = Fresh(s).header
      /\ fd'.ringBusy <=> fifo' # <<>>
      /\ ~fd'.ringBusy => fd'.backlog = <<>>
      /\ Flow(ring' \o fifo', fd'.backlog, fw.at, fw.v, fw.n, Fresh(s).lastVersion, cn)
      /\ \A i \in Ids : At(i, ring') + At(i, fifo') = At(i, ring) + At(i, fifo) + At(i, s.writes)
  <2> DEFINE at == fw.at
             v == fw.v
             n == fw.n
             last == Fresh(s).lastVersion
  <2>1. Flow((ring \o fifo) \o Fitting(s.writes), Fresh(s).backlog, at, v, n, last, cn) /\ v \in Nat /\ last \in Int
    BY <1>1, <1>3, <1>4
  <2>2. Fresh(s).ringBusy <=> fifo # <<>>
    BY <1>1, <1>3
  <2>3. fifo # <<>> => s.writes = <<>>
    BY <1>1, <1>3
  <2>4. ~Fresh(s).ringBusy => Fresh(s).backlog = <<>>
    BY <1>1
  <2> HIDE DEF at, v, n, last
  <2>5. /\ ring' \in Seq(Msgs) /\ fifo' \in Seq(Msgs) /\ Len(ring') <= RingCap
        /\ fd' \in Doors /\ fd'.phase = Fresh(s).phase /\ fd'.queue = Fresh(s).queue
        /\ fd'.backlog = Fresh(s).backlog /\ fd'.doc = Fresh(s).doc /\ fd'.base = Fresh(s).base
        /\ fd'.lastVersion = Fresh(s).lastVersion /\ fd'.progress = Fresh(s).progress
        /\ fd'.header = Fresh(s).header
        /\ fd'.ringBusy <=> fifo' # <<>>
        /\ ~fd'.ringBusy => fd'.backlog = <<>>
        /\ Flow(ring' \o fifo', fd'.backlog, at, v, n, last, cn)
        /\ \A i \in Ids : At(i, ring') + At(i, fifo') = At(i, ring) + At(i, fifo) + At(i, s.writes)
    <3>1. Pumps(s, fifo, ring)
      BY <1>1, <1>2, <1>3, <2>2, <2>3, <2>4 DEF Pumps
    <3>2. Pumped(s, fifo, ring, at, v, n, last, cn)
      BY <2>1, <3>1, OpenStep
    <3> QED BY <3>2 DEF Pumped
  <2> QED BY <2>5 DEF at, v, n, last
<1>6. answered' \in [Ids -> Nat] /\ \A i \in Ids : answered'[i] = answered[i] + At(i, s.replies)
  <2>1. answered \in [Ids -> Nat]
    BY DEF IInv, Typed
  <2> QED BY <1>1, <1>2, <2>1, AnswersAre
<1>7. Typed'
  <2>1. clientDoc' \in [v : Nat, n : Nat]
    OBVIOUS
  <2> QED BY <1>2, <1>5, <1>6, <2>1 DEF IInv, Typed
<1>8. Running'
  <2>1. /\ fw.at = "open" => fw.v # 0
        /\ stdout # Silent =>
             /\ fw.at = "open"
             /\ stdout.m # "answer" => Said(stdout.v, stdout.n, stdout.at)
        /\ fd.progress # NoProgress => \E n \in Nat : Said(fd.progress.version, n, fd.progress.at)
    BY DEF IInv, Running
  <2>2. fd'.progress = fd.progress
    BY <1>1, <1>5
  <2>3. /\ fd'.queue = <<>> /\ clientDoc'.v # 0 /\ fd'.doc = clientDoc'.v
        /\ fd'.lastVersion = fd'.doc + fd'.base
        /\ Flow(ring' \o fifo', fd'.backlog, fw'.at, fw'.v, fw'.n, fd'.lastVersion, clientDoc'.n)
    BY <1>1, <1>5
  <2> QED BY <1>5, <2>1, <2>2, <2>3 DEF Running, Said
<1>9. IInv'
  BY <1>1, <1>2, <1>5, <1>7, <1>8 DEF IInv
<1>10. Kept'
  <2>1. SUFFICES ASSUME ~dead, OpensFit, NEW i \in Ids
                 PROVE  Tally(i)' = IF i \in sent' THEN 1 ELSE 0
    BY <1>2 DEF Kept
  <2>2. /\ At(i, ring') + At(i, fifo') = At(i, ring) + At(i, fifo) + At(i, s.writes)
        /\ answered'[i] = answered[i] + At(i, s.replies)
        /\ At(i, fd'.backlog) + At(i, s.writes) + At(i, s.replies) = At(i, fd.backlog) + IF x.id = i THEN 1 ELSE 0
        /\ At(i, fd'.queue) = At(i, fd.queue)
    BY <1>1, <1>3, <1>5, <1>6 DEF Admitted
  <2>3. /\ At(i, s.writes) \in Nat /\ At(i, s.replies) \in Nat
        /\ At(i, fd'.backlog) \in Nat /\ At(i, fd.backlog) \in Nat /\ At(i, fd.queue) = 0
    BY <1>1, <1>3, <1>4, <1>5, AtIs, AtNone
  <2> DEFINE w == At(i, s.writes)
             p == At(i, s.replies)
             e == IF x.id = i THEN 1 ELSE 0
             b == At(i, fd.backlog)
             b2 == At(i, fd'.backlog)
  <2>4. AtDoor(i) = 0 + b /\ AtDoor(i)' = 0 + b2
    BY <2>2, <2>3 DEF AtDoor
  <2>5. w \in Int /\ p \in Int /\ e \in Int /\ b \in Int /\ b2 \in Int /\ b2 + w + p = b + e
    BY <2>2, <2>3
  <2>6. OnWay(i)' = OnWay(i) + w /\ answered'[i] = answered[i] + p
    BY <2>2 DEF OnWay
  <2>7. There(i)' = There(i)
    BY DEF There
  <2>8. (IF i \in sent' THEN 1 ELSE 0) = (IF i \in sent THEN 1 ELSE 0) + e
    OBVIOUS
  <2> HIDE DEF w, p, e, b, b2
  <2>9. AtDoor(i)' = AtDoor(i) + (e - w - p) /\ e - w - p \in Int /\ 0 \in Int
    BY <2>4, <2>5
  <2>10. There(i)' = There(i) + 0
    <3>1. There(i) \in Int
      BY TallyIs DEF Tallied, IInv
    <3> QED BY <2>7, <3>1
  <2>11. Tally(i)' = Tally(i) + e
    <3>1. Typed
      BY DEF IInv
    <3>2. Tally(i)' = Tally(i) + ((e - w - p) + w + 0 + p)
      BY <2>5, <2>6, <2>9, <2>10, <3>1, TallyNext
    <3>3. (e - w - p) + w + 0 + p = e
      BY <2>5
    <3> QED BY <3>2, <3>3
  <2>12. Tally(i) = IF i \in sent THEN 1 ELSE 0
    BY <2>1 DEF Kept
  <2> QED BY <2>8, <2>11, <2>12
<1> QED BY <1>9, <1>10

(* The client's actions at an open loop.                                    *)
LEMMA ClientAtOpen ==
  ASSUME IInv, Kept, fd.phase = "open"
  PROVE  /\ ClientOpens => IInv' /\ Kept'
         /\ ClientChanges => IInv' /\ Kept'
         /\ \A i \in Ids, m \in {"initialize", "request", "completion", "importCompletion"} :
              ClientRequests(i, m) => IInv' /\ Kept'
<1>1. /\ clientDoc.v \in Nat \ {0} /\ clientDoc.n \in Nat
      /\ sent \in SUBSET Ids /\ clientDoc \in [v : Nat, n : Nat]
      /\ NoId \notin Ids
  BY OpenIs, HostAssumption DEF IInv, Typed
<1>2. ASSUME ClientOpens PROVE IInv' /\ Kept'
  <2> DEFINE x == Message("open", 1, clientDoc.n + 1, NoId)
             s == client(fd, x)
  <2>1. Apply(s) /\ UNCHANGED <<fw, stdout>> /\ sent' = sent /\ clientDoc' = [v |-> 1, n |-> clientDoc.n + 1]
    BY <1>2 DEF ClientOpens, ClientSends
  <2>2. Admitted(s, x, 1, clientDoc.n + 1)
    BY ClientOpenAdmits
  <2>3. x.id = NoId
    BY DEF Message
  <2>4. 1 \in Nat \ {0} /\ clientDoc.n + 1 \in Nat
    BY <1>1
  <2> HIDE DEF s, x
  <2> QED BY <1>1, <2>1, <2>2, <2>3, <2>4, OpenApplied
<1>3. ASSUME ClientChanges PROVE IInv' /\ Kept'
  <2> DEFINE x == Message("change", clientDoc.v + 1, clientDoc.n + 1, NoId)
             s == client(fd, x)
  <2>1. /\ Apply(s) /\ UNCHANGED <<fw, stdout>> /\ sent' = sent
        /\ clientDoc' = [v |-> clientDoc.v + 1, n |-> clientDoc.n + 1]
    BY <1>3 DEF ClientChanges, ClientSends
  <2>2. Admitted(s, x, clientDoc.v + 1, clientDoc.n + 1)
    BY ClientChangeAdmits
  <2>3. x.id = NoId
    BY DEF Message
  <2>4. clientDoc.v + 1 \in Nat \ {0} /\ clientDoc.n + 1 \in Nat
    BY <1>1
  <2> HIDE DEF s, x
  <2> QED BY <1>1, <2>1, <2>2, <2>3, <2>4, OpenApplied
<1>4. ASSUME NEW i \in Ids, NEW m \in {"initialize", "request", "completion", "importCompletion"},
             ClientRequests(i, m)
      PROVE  IInv' /\ Kept'
  <2> DEFINE x == Message(m, 0, 0, i)
             s == client(fd, x)
  <2>1. Apply(s) /\ UNCHANGED <<fw, stdout, clientDoc>> /\ sent' = sent \cup {i} /\ i \notin sent
    BY <1>4 DEF ClientRequests, ClientSends
  <2>2. Admitted(s, x, clientDoc.v, clientDoc.n)
    BY ClientRequestAdmits
  <2>3. x.id = i
    BY DEF Message
  <2>4. clientDoc' = [v |-> clientDoc.v, n |-> clientDoc.n]
    BY <1>1, <2>1
  <2> HIDE DEF s, x
  <2>5. \A j \in Ids : x.id = j => j \notin sent
    BY <2>1, <2>3
  <2>6. \A j \in Ids : j \in sent' <=> j \in sent \/ x.id = j
    BY <2>1, <2>3
  <2>7. sent' \in SUBSET Ids
    BY <1>1, <2>1
  <2> QED BY <1>1, <2>1, <2>2, <2>4, <2>5, <2>6, <2>7, OpenApplied
<1> QED BY <1>2, <1>3, <1>4

(* Before the loop is open nothing flows, and nothing is said.              *)
LEMMA LiveIsOpen ==
  ASSUME IInv, ~dead, ring # <<>> \/ fifo # <<>> \/ fw.at # "start" \/ stdout # Silent
  PROVE  fd.phase = "open"
<1>1. fd.phase \in {"booting", "ready", "open", "dead"}
  BY DEF IInv, Typed, Doors
<1> QED BY <1>1 DEF IInv, Closed

(* What the FileWorker reads: it stays legal when the opening text fits.    *)
LEMMA ReadIs ==
  ASSUME IInv, FwReads
  PROVE  /\ fd.phase = "open" /\ Head(ring) \in Msgs /\ fw' \in Workers
         /\ UNCHANGED <<fd, fifo, armed, dead, stdout, clientDoc, sent, answered>>
         /\ ring' = Tail(ring) /\ ring' \in Seq(Msgs) /\ Len(ring') <= RingCap
         /\ Flow(ring' \o fifo, fd.backlog, fw'.at, fw'.v, fw'.n, fd.lastVersion, clientDoc.n)
         /\ fw'.at = "broken" => ~OpensFit
         /\ fw'.at = "open" => fw'.v # 0
         /\ fw.at = "open" => /\ fw'.at = "open"
                              /\ fw'.v > fw.v \/ (fw'.v = fw.v /\ fw'.n = fw.n)
         /\ OpensFit => fw'.held = IF Head(ring).id = NoId THEN fw.held ELSE fw.held \cup {Head(ring).id}
<1>1. ring # <<>> /\ ~dead /\ ring' = Tail(ring) /\ UNCHANGED <<fd, fifo, armed, dead, stdout, clientDoc, sent, answered>>
  BY DEF FwReads, clientVars
<1>2. fd.phase = "open"
  BY <1>1, LiveIsOpen
<1>3. /\ fifo \in Seq(Msgs) /\ ring \in Seq(Msgs) /\ Len(ring) <= RingCap
      /\ fw.at \in {"start", "initialized", "open", "broken"} /\ fw.v \in Nat
      /\ fd.lastVersion \in Nat
      /\ Flow(ring \o fifo, fd.backlog, fw.at, fw.v, fw.n, fd.lastVersion, clientDoc.n)
  BY <1>2, OpenIs
<1>4. /\ fw \in Workers
      /\ fw.at = "broken" => ~OpensFit
      /\ fw.at = "open" => fw.v # 0
  BY <1>2 DEF IInv, Typed, Running
<1> DEFINE x == Head(ring)
<1>5. x \in Msgs /\ ring' \in Seq(Msgs) /\ Len(ring') <= RingCap
  <2>1. Tail(ring) \in Seq(Msgs) /\ Len(Tail(ring)) = Len(ring) - 1
    BY <1>1, <1>3, HeadTailProperties
  <2>2. x \in Msgs
    BY <1>1, <1>3, TailIs
  <2>3. Len(ring) \in Nat /\ RingCap \in Nat
    BY <1>3, SeqIs, HostAssumption
  <2> QED BY <1>1, <1>3, <2>1, <2>2, <2>3
<1>6. Head(ring \o fifo) = x /\ Tail(ring \o fifo) = ring' \o fifo /\ ring \o fifo # <<>>
  BY <1>1, <1>3
<1>7. /\ x.id \in Ids \cup {NoId}
      /\ x.m \in {"open", "change"} => x.v \in Nat \ {0} /\ x.n \in Nat /\ x.id = NoId
      /\ x = Initialize => x.m = "initialize" /\ x.id = NoId
      /\ x \in Requested => x.id \in Ids /\ x.id # NoId /\ x.m \notin {"initialize", "open", "change"}
  BY <1>5, HostAssumption DEF Msgs, Requested, Texts, Initialize, Message
<1> DEFINE w == CASE fw.at = "start" /\ x.m = "initialize" -> [fw EXCEPT !.at = "initialized"]
                  [] fw.at = "initialized" /\ x.m = "open" ->
                       [fw EXCEPT !.at = "open", !.v = x.v, !.n = x.n]
                  [] fw.at = "open" /\ x.m = "change" /\ x.v > fw.v ->
                       [fw EXCEPT !.v = x.v, !.n = x.n,
                                  !.headed = @ /\ (fw.n \in RefusedTexts <=> x.n \in RefusedTexts)]
                  [] fw.at = "open" /\ x.id # NoId -> [fw EXCEPT !.held = @ \cup {x.id}]
                  [] OTHER -> [fw EXCEPT !.at = "broken"]
           line2 == ring' \o fifo
<1>8. fw' = w
  BY DEF FwReads
<1>9. /\ fw.at = "start" => /\ x = Initialize
                            /\ Flow(line2, fd.backlog, "initialized", fw.v, fw.n, fd.lastVersion, clientDoc.n)
      /\ fw.at = "initialized" /\ x.m = "open" =>
           Flow(line2, fd.backlog, "open", x.v, x.n, fd.lastVersion, clientDoc.n)
      /\ fw.at = "initialized" /\ x.m # "open" => ~OpensFit
      /\ fw.at = "open" /\ x.m = "change" =>
           x.v > fw.v /\ Flow(line2, fd.backlog, "open", x.v, x.n, fd.lastVersion, clientDoc.n)
      /\ fw.at = "open" /\ x.m # "change" =>
           x \in Requested /\ Flow(line2, fd.backlog, "open", fw.v, fw.n, fd.lastVersion, clientDoc.n)
      /\ Flow(line2, fd.backlog, "broken", fw.v, fw.n, fd.lastVersion, clientDoc.n)
  <2> DEFINE line == ring \o fifo
             at == fw.at
             v == fw.v
             n == fw.n
             back == fd.backlog
             last == fd.lastVersion
             cn == clientDoc.n
  <2>1. Flow(line, back, at, v, n, last, cn) /\ line # <<>> /\ v \in Nat /\ last \in Int
    BY <1>3, <1>6
  <2>2. Head(line) = x /\ Tail(line) = line2
    BY <1>6
  <2> HIDE DEF line, at, v, n, back, last, cn, line2, x
  <2>3. /\ at = "start" => /\ Head(line) = Initialize
                            /\ Flow(Tail(line), back, "initialized", v, n, last, cn)
        /\ at = "initialized" /\ Head(line).m = "open" =>
              Flow(Tail(line), back, "open", Head(line).v, Head(line).n, last, cn)
        /\ at = "initialized" /\ Head(line).m # "open" => ~OpensFit
        /\ at = "open" /\ Head(line).m = "change" =>
              Head(line).v > v /\ Flow(Tail(line), back, "open", Head(line).v, Head(line).n, last, cn)
        /\ at = "open" /\ Head(line).m # "change" =>
              Head(line) \in Requested /\ Flow(Tail(line), back, "open", v, n, last, cn)
        /\ Flow(Tail(line), back, "broken", v, n, last, cn)
    BY <2>1, ReadFlow
  <2> QED BY <2>2, <2>3 DEF at, v, n, back, last, cn
<1> HIDE DEF x, line2, w
<1>10. ASSUME fw.at = "start"
      PROVE  /\ fw' \in Workers
             /\ Flow(line2, fd.backlog, fw'.at, fw'.v, fw'.n, fd.lastVersion, clientDoc.n)
             /\ fw'.at = "broken" => ~OpensFit
             /\ fw'.at = "open" => fw'.v # 0
             /\ fw.at = "open" => fw'.at = "open" /\ (fw'.v > fw.v \/ (fw'.v = fw.v /\ fw'.n = fw.n))
             /\ OpensFit => fw'.held = IF x.id = NoId THEN fw.held ELSE fw.held \cup {x.id}
  <2> DEFINE u == [fw EXCEPT !.at = "initialized"]
  <2>1. fw' = u
    BY <1>7, <1>8, <1>9, <1>10 DEF w
  <2>2. u \in Workers /\ u.at = "initialized" /\ u.v = fw.v /\ u.n = fw.n /\ u.held = fw.held
    BY <1>4 DEF Workers
  <2> HIDE DEF u
  <2> QED BY <1>7, <1>9, <1>10, <2>1, <2>2
<1>11. ASSUME fw.at = "initialized" /\ x.m = "open"
      PROVE  /\ fw' \in Workers
             /\ Flow(line2, fd.backlog, fw'.at, fw'.v, fw'.n, fd.lastVersion, clientDoc.n)
             /\ fw'.at = "broken" => ~OpensFit
             /\ fw'.at = "open" => fw'.v # 0
             /\ fw.at = "open" => fw'.at = "open" /\ (fw'.v > fw.v \/ (fw'.v = fw.v /\ fw'.n = fw.n))
             /\ OpensFit => fw'.held = IF x.id = NoId THEN fw.held ELSE fw.held \cup {x.id}
  <2> DEFINE u == [fw EXCEPT !.at = "open", !.v = x.v, !.n = x.n]
  <2>1. fw' = u
    BY <1>8, <1>11 DEF w
  <2>2. u \in Workers /\ u.at = "open" /\ u.v = x.v /\ u.n = x.n /\ u.held = fw.held
    <3>1. x.v \in Nat /\ x.n \in Nat
      BY <1>7, <1>11
    <3> QED BY <1>4, <3>1 DEF Workers
  <2> HIDE DEF u
  <2> QED BY <1>7, <1>9, <1>11, <2>1, <2>2
<1>12. ASSUME (fw.at = "initialized" /\ x.m # "open") \/ fw.at = "broken"
      PROVE  /\ fw' \in Workers
             /\ Flow(line2, fd.backlog, fw'.at, fw'.v, fw'.n, fd.lastVersion, clientDoc.n)
             /\ fw'.at = "broken" => ~OpensFit
             /\ fw'.at = "open" => fw'.v # 0
             /\ fw.at = "open" => fw'.at = "open" /\ (fw'.v > fw.v \/ (fw'.v = fw.v /\ fw'.n = fw.n))
             /\ OpensFit => fw'.held = IF x.id = NoId THEN fw.held ELSE fw.held \cup {x.id}
  <2> DEFINE u == [fw EXCEPT !.at = "broken"]
  <2>1. fw' = u
    BY <1>8, <1>12 DEF w
  <2>2. u \in Workers /\ u.at = "broken" /\ u.v = fw.v /\ u.n = fw.n
    BY <1>4 DEF Workers
  <2> HIDE DEF u
  <2> QED BY <1>4, <1>9, <1>12, <2>1, <2>2
<1>13. ASSUME fw.at = "open" /\ x.m = "change"
      PROVE  /\ fw' \in Workers
             /\ Flow(line2, fd.backlog, fw'.at, fw'.v, fw'.n, fd.lastVersion, clientDoc.n)
             /\ fw'.at = "broken" => ~OpensFit
             /\ fw'.at = "open" => fw'.v # 0
             /\ fw.at = "open" => fw'.at = "open" /\ (fw'.v > fw.v \/ (fw'.v = fw.v /\ fw'.n = fw.n))
             /\ OpensFit => fw'.held = IF x.id = NoId THEN fw.held ELSE fw.held \cup {x.id}
  <2> DEFINE h == fw.headed /\ (fw.n \in RefusedTexts <=> x.n \in RefusedTexts)
             u == [fw EXCEPT !.v = x.v, !.n = x.n, !.headed = h]
  <2>1. fw' = u
    <3>1. x.v > fw.v
      BY <1>9, <1>13
    <3>2. fw.at # "start" /\ fw.at # "initialized"
      BY <1>13
    <3>3. w = [fw EXCEPT !.v = x.v, !.n = x.n,
                         !.headed = @ /\ (fw.n \in RefusedTexts <=> x.n \in RefusedTexts)]
      BY <1>7, <1>13, <3>1, <3>2 DEF w
    <3> QED BY <1>8, <3>3
  <2>2. u \in Workers /\ u.at = "open" /\ u.v = x.v /\ u.n = x.n /\ u.held = fw.held
    <3>1. h \in BOOLEAN
      BY <1>4 DEF Workers
    <3>2. x.v \in Nat /\ x.n \in Nat
      BY <1>7, <1>13
    <3> HIDE DEF h
    <3> QED BY <1>4, <1>13, <3>1, <3>2 DEF Workers
  <2> HIDE DEF u
  <2> QED BY <1>7, <1>9, <1>13, <2>1, <2>2
<1>14. ASSUME fw.at = "open" /\ x.m # "change"
      PROVE  /\ fw' \in Workers
             /\ Flow(line2, fd.backlog, fw'.at, fw'.v, fw'.n, fd.lastVersion, clientDoc.n)
             /\ fw'.at = "broken" => ~OpensFit
             /\ fw'.at = "open" => fw'.v # 0
             /\ fw.at = "open" => fw'.at = "open" /\ (fw'.v > fw.v \/ (fw'.v = fw.v /\ fw'.n = fw.n))
             /\ OpensFit => fw'.held = IF x.id = NoId THEN fw.held ELSE fw.held \cup {x.id}
  <2> DEFINE h == fw.held \cup {x.id}
             u == [fw EXCEPT !.held = h]
  <2>1. fw' = u
    <3>1. x.id # NoId
      BY <1>7, <1>9, <1>14
    <3> QED BY <1>8, <1>14, <3>1 DEF w
  <2>2. h \in SUBSET Ids
    <3>1. x.id \in Ids
      BY <1>7, <1>9, <1>14
    <3>2. fw.held \in SUBSET Ids
      BY <1>4 DEF Workers
    <3> QED BY <3>1, <3>2
  <2>3. u \in Workers /\ u.at = "open" /\ u.v = fw.v /\ u.n = fw.n /\ u.held = h
    <3> HIDE DEF h
    <3> QED BY <1>4, <1>14, <2>2 DEF Workers
  <2> HIDE DEF u
  <2> QED BY <1>4, <1>7, <1>9, <1>14, <2>1, <2>3
<1> QED BY <1>1, <1>2, <1>3, <1>5, <1>10, <1>11, <1>12, <1>13, <1>14 DEF x, line2

(* The FileWorker reads a frame.                                            *)
LEMMA ReadStep ==
  ASSUME IInv, Kept, FwReads PROVE IInv' /\ Kept'
<1>1. /\ fd.phase = "open" /\ Head(ring) \in Msgs /\ fw' \in Workers
      /\ UNCHANGED <<fd, fifo, armed, dead, stdout, clientDoc, sent, answered>>
      /\ ring' = Tail(ring) /\ ring' \in Seq(Msgs) /\ Len(ring') <= RingCap
      /\ Flow(ring' \o fifo, fd.backlog, fw'.at, fw'.v, fw'.n, fd.lastVersion, clientDoc.n)
      /\ fw'.at = "broken" => ~OpensFit
      /\ fw'.at = "open" => fw'.v # 0
      /\ fw.at = "open" => fw'.at = "open"
      /\ fw.at = "open" => fw'.v > fw.v \/ (fw'.v = fw.v /\ fw'.n = fw.n)
      /\ OpensFit => fw'.held = IF Head(ring).id = NoId THEN fw.held ELSE fw.held \cup {Head(ring).id}
  BY ReadIs
<1>2. Typed /\ Running
  BY <1>1 DEF IInv
<1>3. Typed'
  BY <1>1, <1>2 DEF Typed
<1>4. ASSUME NEW v \in Int, NEW n, NEW at, Said(v, n, at) PROVE Said(v, n, at)'
  <2>1. fw.at = "open" /\ v <= fw.v /\ (v = fw.v => n = fw.n) /\ (at = "drained" => n \notin RefusedTexts)
    BY <1>4 DEF Said
  <2>2. fw.v \in Nat /\ fw'.v \in Nat
    BY <1>1, <1>2 DEF Typed, Workers
  <2>3. v <= fw'.v /\ (v = fw'.v => n = fw'.n)
    BY <1>1, <2>1, <2>2
  <2> QED BY <1>1, <2>1, <2>3 DEF Said
<1>5. Running'
  <2>1. stdout # Silent => fw'.at = "open" /\ (stdout.m # "answer" => Said(stdout.v, stdout.n, stdout.at)')
    <3>1. SUFFICES ASSUME stdout # Silent
                   PROVE  fw'.at = "open" /\ (stdout.m # "answer" => Said(stdout.v, stdout.n, stdout.at)')
      OBVIOUS
    <3>2. fw.at = "open" /\ (stdout.m # "answer" => Said(stdout.v, stdout.n, stdout.at))
      BY <1>2, <3>1 DEF Running
    <3>3. stdout.v \in Int
      BY <1>2, <3>1 DEF Typed, Says, Tells
    <3>4. stdout' = stdout
      BY <1>1
    <3>5. PICK v, n, at : v = stdout.v /\ n = stdout.n /\ at = stdout.at
      OBVIOUS
    <3>6. stdout.m # "answer" => Said(v, n, at)'
      BY <1>4, <3>2, <3>3, <3>5
    <3>7. v = stdout'.v /\ n = stdout'.n /\ at = stdout'.at
      BY <3>4, <3>5
    <3> QED BY <1>1, <3>2, <3>4, <3>5, <3>6, <3>7 DEF Said
  <2>2. fd.progress # NoProgress => \E n \in Nat : Said(fd.progress.version, n, fd.progress.at)'
    <3>1. SUFFICES ASSUME fd.progress # NoProgress
                   PROVE  \E n \in Nat : Said(fd.progress.version, n, fd.progress.at)'
      OBVIOUS
    <3>2. PICK n \in Nat : Said(fd.progress.version, n, fd.progress.at)
      BY <1>2, <3>1 DEF Running
    <3>3. fd.progress.version \in Int
      BY <1>2 DEF Typed, Doors
    <3>4. PICK v, at : v = fd.progress.version /\ at = fd.progress.at
      OBVIOUS
    <3>5. Said(v, n, at)'
      BY <1>4, <3>2, <3>3, <3>4
    <3>6. v = fd'.progress.version /\ at = fd'.progress.at
      BY <1>1, <3>4
    <3> QED BY <3>5, <3>6 DEF Said
  <2>3. /\ fd.queue = <<>> /\ clientDoc.v # 0 /\ fd.doc = clientDoc.v
        /\ fd.lastVersion = fd.doc + fd.base
        /\ fd.ringBusy <=> fifo # <<>>
        /\ ~fd.ringBusy => fd.backlog = <<>>
    BY <1>2 DEF Running
  <2>4. UNCHANGED <<fd, fifo, stdout, clientDoc>>
    BY <1>1
  <2>5. Flow(ring' \o fifo, fd.backlog, fw'.at, fw'.v, fw'.n, fd.lastVersion, clientDoc.n)
    BY <1>1
  <2>6. /\ stdout' # Silent =>
             /\ fw'.at = "open"
             /\ stdout'.m # "answer" => Said(stdout.v, stdout.n, stdout.at)'
        /\ fd'.progress # NoProgress => \E n \in Nat : Said(fd.progress.version, n, fd.progress.at)'
    BY <2>1, <2>2, <2>4
  <2> QED BY <1>1, <2>3, <2>4, <2>5, <2>6 DEF Running
<1>6. IInv'
  BY <1>1, <1>3, <1>5 DEF IInv
<1>7. Kept'
  <2>1. SUFFICES ASSUME ~dead, OpensFit, NEW i \in Ids
                 PROVE  Tally(i)' = IF i \in sent THEN 1 ELSE 0
    BY <1>1 DEF Kept
  <2>2. Tally(i) = IF i \in sent THEN 1 ELSE 0
    BY <2>1 DEF Kept
  <2> DEFINE e == IF Head(ring).id = i THEN 1 ELSE 0
  <2>3. ring \in Seq(Msgs) /\ ring # <<>> /\ fd.backlog \in Seq(Msgs) /\ fifo \in Seq(Msgs) /\ answered[i] \in Nat
        /\ fd.queue \in Seq(Msgs)
    BY <1>2 DEF FwReads, Typed, Doors
  <2>4. At(i, ring) = At(i, Tail(ring)) + e
    BY <2>3, AtTail
  <2>5. At(i, ring) \in Nat /\ At(i, fifo) \in Nat /\ At(i, ring') \in Nat /\ AtDoor(i) \in Nat
    <3>1. At(i, fd.queue) \in Nat /\ At(i, fd.backlog) \in Nat
      BY <2>3, AtIs
    <3>2. At(i, ring) \in Nat /\ At(i, fifo) \in Nat
      BY <2>3, AtIs
    <3>3. ring' \in Seq(Msgs)
      BY <1>1
    <3>4. At(i, ring') \in Nat
      BY <3>3, AtIs
    <3> QED BY <3>1, <3>2, <3>4 DEF AtDoor
  <2>6. AtDoor(i)' = AtDoor(i) + 0
    BY <1>1, <2>5 DEF AtDoor
  <2>7. OnWay(i)' = OnWay(i) + (-e)
    BY <1>1, <2>4, <2>5 DEF OnWay
  <2>8. answered'[i] = answered[i] + 0
    BY <1>1, <2>3
  <2>9. e = 1 => i \notin fw.held
    <3>1. SUFFICES ASSUME e = 1, i \in fw.held PROVE FALSE
      OBVIOUS
    <3>2. OnWay(i) \in Nat /\ OnWay(i) # 0
      BY <1>1, <2>4, <2>5, <3>1 DEF OnWay
    <3>3. There(i) \in Nat /\ There(i) # 0
      BY <3>1 DEF There
    <3>4. Tally(i) = AtDoor(i) + OnWay(i) + There(i) + answered[i]
      BY DEF Tally
    <3>5. (IF i \in sent THEN 1 ELSE 0) \in {0, 1}
      OBVIOUS
    <3> DEFINE a == AtDoor(i)
               b == OnWay(i)
               c == There(i)
               d == answered[i]
               t == Tally(i)
    <3>6. /\ a \in Nat /\ b \in Nat /\ b # 0 /\ c \in Nat /\ c # 0 /\ d \in Nat
          /\ t \in {0, 1} /\ t = a + b + c + d
      BY <2>2, <2>3, <2>5, <3>2, <3>3, <3>4, <3>5
    <3> HIDE DEF a, b, c, d, t, e
    <3> QED BY <3>6
  <2>10. There(i)' = There(i) + e
    <3>1. i \in fw'.held <=> i \in fw.held \/ e = 1
      <4>1. NoId # i
        BY HostAssumption
      <4> QED BY <1>1, <2>1, <4>1
    <3>2. stdout' = stdout
      BY <1>1
    <3> QED BY <2>9, <3>1, <3>2 DEF There
  <2>11. Tally(i)' = Tally(i) + (0 + (-e) + e + 0)
    <3>1. e \in Int /\ -e \in Int /\ 0 \in Int
      OBVIOUS
    <3> HIDE DEF e
    <3> QED BY <1>2, <2>6, <2>7, <2>8, <2>10, <3>1, TallyNext
  <2> QED BY <2>2, <2>11
<1> QED BY <1>6, <1>7

(* A session that dies leaves nothing to keep.                              *)
LEMMA DeathIs ==
  ASSUME IInv, NEW s, Fresh(s) \in Doors, fd' = died(s), fifo' = <<>>, dead' = TRUE, armed' = TRUE,
         UNCHANGED <<ring, fw, stdout>>, clientDoc' \in [v : Nat, n : Nat], sent' \in SUBSET Ids,
         answered' \in [Ids -> Nat]
  PROVE  IInv' /\ Kept'
<1> DEFINE d == Fresh(s)
<1>1. fd' = [d EXCEPT !.phase = "dead", !.backlog = <<>>]
  BY DEF died
<1>2. d \in Doors
  OBVIOUS
<1> HIDE DEF d
<1>3. fd' \in Doors /\ fd'.phase = "dead"
  <2>1. <<>> \in Seq(Msgs) /\ "dead" \in {"booting", "ready", "open", "dead"}
    BY EmptySeq
  <2> QED BY <1>1, <1>2, <2>1 DEF Doors
<1>4. Typed'
  <2>1. fifo' \in Seq(Msgs)
    BY EmptySeq
  <2> QED BY <1>3, <2>1 DEF IInv, Typed
<1>5. IInv'
  BY <1>3, <1>4 DEF IInv
<1>6. Kept'
  BY DEF Kept
<1> QED BY <1>5, <1>6

(* The reported death.                                                      *)
LEMMA WorkerDiesStep ==
  ASSUME IInv, Kept, WorkerDies PROVE IInv' /\ Kept'
<1>1. Typed
  BY DEF IInv
<1>2. fd \in Doors /\ clientDoc \in [v : Nat, n : Nat] /\ sent \in SUBSET Ids /\ answered \in [Ids -> Nat]
  BY <1>1 DEF Typed
<1>3. Fresh(fd) \in Doors
  <2>1. Fresh(fd) = fd
    BY <1>2, DoorIs
  <2> QED BY <1>2, <2>1
<1>4. /\ fd' = died(fd) /\ fifo' = <<>> /\ dead' = TRUE /\ armed' = TRUE
      /\ UNCHANGED <<ring, fw, stdout, clientDoc, sent, answered>>
  BY <1>1 DEF WorkerDies, Die, Typed, clientVars
<1> QED BY <1>2, <1>3, <1>4, DeathIs

(* The FileWorker writes what holds of its text, or an answer it held.      *)
LEMMA SayStep ==
  ASSUME IInv, Kept, NEW msg, FwWrites(msg), fw' \in Workers,
         fw'.at = fw.at, fw'.v = fw.v, fw'.n = fw.n,
         msg \in Says \cup Tells, msg.m # "answer" => Said(msg.v, msg.n, msg.at),
         \A i \in Ids : There(i)' = There(i)
  PROVE  IInv' /\ Kept'
<1>1. /\ fw.at = "open" /\ stdout = Silent /\ ~dead /\ stdout' = msg
      /\ UNCHANGED <<fd, fifo, ring, armed, dead, clientDoc, sent, answered>>
  BY DEF FwWrites, hostVars, clientVars
<1>2. fd.phase = "open" /\ Typed /\ Running
  <2>1. fd.phase = "open"
    BY <1>1, LiveIsOpen
  <2> QED BY <2>1 DEF IInv
<1>3. Typed'
  BY <1>1, <1>2 DEF Typed
<1>4. ASSUME NEW v, NEW n, NEW at, Said(v, n, at) PROVE Said(v, n, at)'
  BY <1>4 DEF Said
<1>5. Running'
  <2>1. stdout'.m # "answer" => Said(msg.v, msg.n, msg.at)'
    BY <1>1, <1>4
  <2>2. fd.progress # NoProgress => \E n \in Nat : Said(fd.progress.version, n, fd.progress.at)'
    <3>1. SUFFICES ASSUME fd.progress # NoProgress
                   PROVE  \E n \in Nat : Said(fd.progress.version, n, fd.progress.at)'
      OBVIOUS
    <3>2. PICK n \in Nat : Said(fd.progress.version, n, fd.progress.at)
      BY <1>2, <3>1 DEF Running
    <3>3. PICK v, at : v = fd.progress.version /\ at = fd.progress.at
      OBVIOUS
    <3>4. Said(v, n, at)'
      BY <1>4, <3>2, <3>3
    <3>5. v = fd'.progress.version /\ at = fd'.progress.at
      BY <1>1, <3>3
    <3> QED BY <3>4, <3>5 DEF Said
  <2>3. /\ fd.queue = <<>> /\ clientDoc.v # 0 /\ fd.doc = clientDoc.v
        /\ fd.lastVersion = fd.doc + fd.base
        /\ fd.ringBusy <=> fifo # <<>>
        /\ ~fd.ringBusy => fd.backlog = <<>>
        /\ Flow(ring \o fifo, fd.backlog, fw.at, fw.v, fw.n, fd.lastVersion, clientDoc.n)
        /\ fw.at = "open" => fw.v # 0
    BY <1>2 DEF Running
  <2>4. UNCHANGED <<fd, fifo, ring, clientDoc>>
    BY <1>1
  <2>5. Flow(ring' \o fifo', fd'.backlog, fw'.at, fw'.v, fw'.n, fd'.lastVersion, clientDoc'.n)
    BY <2>3, <2>4
  <2>6. stdout'.m # "answer" => Said(stdout.v, stdout.n, stdout.at)'
    BY <1>1, <2>1 DEF Said
  <2>7. fd'.progress # NoProgress => \E n \in Nat : Said(fd.progress.version, n, fd.progress.at)'
    BY <2>2, <2>4
  <2> QED BY <1>1, <2>3, <2>4, <2>5, <2>6, <2>7 DEF Running
<1>6. IInv'
  BY <1>1, <1>2, <1>3, <1>5 DEF IInv
<1>7. Kept'
  <2>1. \A i \in Ids : Tally(i)' = Tally(i)
    BY <1>1 DEF Tally, AtDoor, OnWay
  <2>2. sent' = sent /\ dead' = dead
    BY <1>1
  <2> QED BY <2>1, <2>2 DEF Kept
<1> QED BY <1>6, <1>7

(* What the FileWorker writes.                                              *)
LEMMA FwStep ==
  ASSUME IInv, Kept, FwHeader \/ FwProgress \/ FwDrains \/ FwPublishes \/ FwAnswers
  PROVE  IInv' /\ Kept'
<1>1. fw.at = "open" /\ stdout = Silent /\ ~dead
  BY DEF FwHeader, FwProgress, FwDrains, FwPublishes, FwAnswers, FwWrites
<1>2. fd.phase = "open" /\ fw \in Workers /\ fw.v \in Nat \ {0} /\ fw.n \in Nat
  <2>1. fd.phase = "open"
    BY <1>1, LiveIsOpen
  <2>2. fw \in Workers /\ fw.v # 0
    BY <1>1, <2>1 DEF IInv, Typed, Running
  <2> QED BY <2>1, <2>2 DEF Workers
<1>3. NoId \notin Ids /\ Silent.id = NoId
  BY HostAssumption DEF Silent
<1>4. ASSUME NEW m, NEW at, at = "drained" => fw.n \notin RefusedTexts,
             \/ m = "header" /\ at \in {"covered", "refused"}
             \/ m = "progress" /\ at \in {"working", "drained", "fatal"}
             \/ m = "diagnostics" /\ at = "none"
      PROVE  LET x == Out(m, at)
             IN  x \in Says \cup Tells /\ Said(x.v, x.n, x.at) /\ x.id = NoId
  BY <1>1, <1>2, <1>4 DEF Out, Says, Said
<1>5. ASSUME NEW x, x.id = NoId, stdout' = x, fw'.held = fw.held
      PROVE  \A i \in Ids : There(i)' = There(i)
  BY <1>1, <1>3, <1>5 DEF There
<1>6. ASSUME FwHeader PROVE IInv' /\ Kept'
  <2> DEFINE at == IF fw.n \in RefusedTexts THEN "refused" ELSE "covered"
             x == Out("header", at)
  <2>1. FwWrites(x) /\ stdout' = x /\ fw' = [fw EXCEPT !.headed = TRUE]
    BY <1>6 DEF FwHeader, FwWrites
  <2>2. fw' \in Workers /\ fw'.at = fw.at /\ fw'.v = fw.v /\ fw'.n = fw.n /\ fw'.held = fw.held
    BY <1>2, <2>1 DEF Workers
  <2>3. at \in {"covered", "refused"} /\ at # "drained"
    OBVIOUS
  <2> HIDE DEF at
  <2>4. x \in Says \cup Tells /\ Said(x.v, x.n, x.at) /\ x.id = NoId
    BY <1>4, <2>3
  <2> HIDE DEF x
  <2>5. \A i \in Ids : There(i)' = There(i)
    BY <1>5, <2>1, <2>2, <2>4
  <2> QED BY <2>1, <2>2, <2>4, <2>5, SayStep
<1>7. ASSUME NEW m, NEW at,
             \/ m = "progress" /\ at \in {"working", "drained", "fatal"}
             \/ m = "diagnostics" /\ at = "none",
             at = "drained" => fw.n \notin RefusedTexts, FwWrites(Out(m, at)), UNCHANGED fw
      PROVE  IInv' /\ Kept'
  <2> DEFINE x == Out(m, at)
  <2>1. FwWrites(x) /\ stdout' = x
    BY <1>7 DEF FwWrites
  <2>2. fw' \in Workers /\ fw'.at = fw.at /\ fw'.v = fw.v /\ fw'.n = fw.n /\ fw'.held = fw.held
    BY <1>2, <1>7
  <2>4. x \in Says \cup Tells /\ Said(x.v, x.n, x.at) /\ x.id = NoId
    BY <1>4, <1>7
  <2> HIDE DEF x
  <2>5. \A i \in Ids : There(i)' = There(i)
    BY <1>5, <2>1, <2>2, <2>4
  <2> QED BY <2>1, <2>2, <2>4, <2>5, SayStep
<1>8. ASSUME FwProgress \/ FwPublishes PROVE IInv' /\ Kept'
  BY <1>7, <1>8 DEF FwProgress, FwPublishes
<1>9. ASSUME FwDrains PROVE IInv' /\ Kept'
  <2>1. CASE fw.n \in RefusedTexts
    BY <1>7, <1>9, <2>1 DEF FwDrains
  <2>2. CASE fw.n \notin RefusedTexts
    BY <1>7, <1>9, <2>2 DEF FwDrains
  <2> QED BY <2>1, <2>2
<1>10. ASSUME FwAnswers PROVE IInv' /\ Kept'
  <2>1. PICK j \in fw.held :
          /\ FwWrites([m |-> "answer", v |-> 0, n |-> 0, id |-> j, at |-> "none"])
          /\ fw' = [fw EXCEPT !.held = @ \ {j}]
    BY <1>10 DEF FwAnswers
  <2> DEFINE x == [m |-> "answer", v |-> 0, n |-> 0, id |-> j, at |-> "none"]
  <2>2. FwWrites(x) /\ stdout' = x
    BY <2>1 DEF FwWrites
  <2>3. /\ fw' \in Workers /\ fw'.at = fw.at /\ fw'.v = fw.v /\ fw'.n = fw.n
        /\ fw'.held = fw.held \ {j} /\ j \in Ids
    BY <1>2, <2>1 DEF Workers
  <2>4. x \in Says \cup Tells /\ x.m = "answer" /\ x.id = j
    BY <2>3 DEF Tells
  <2> HIDE DEF x
  <2>5. ASSUME NEW i \in Ids PROVE There(i)' = There(i)
    <3>1. CASE i = j
      BY <1>1, <1>3, <2>1, <2>2, <2>3, <2>4, <3>1 DEF There
    <3>2. CASE i # j
      BY <1>1, <1>3, <2>1, <2>2, <2>3, <2>4, <3>2 DEF There
    <3> QED BY <3>1, <3>2
  <2> QED BY <2>2, <2>3, <2>4, <2>5, SayStep
<1> QED BY <1>6, <1>8, <1>9, <1>10

(* A step without its effects is a state between two steps.                 *)
LEMMA FreshIs ==
  ASSUME NEW s \in Steps
  PROVE  /\ Fresh(s) \in Doors /\ Fresh(s).phase = s.phase /\ Fresh(s).queue = s.queue
         /\ Fresh(s).ringBusy = s.ringBusy /\ Fresh(s).backlog = s.backlog
         /\ Fresh(s).doc = s.doc /\ Fresh(s).base = s.base
         /\ Fresh(s).lastVersion = s.lastVersion /\ Fresh(s).progress = s.progress
         /\ Fresh(s).header = s.header
<1> DEFINE f == [s EXCEPT !.writes = <<>>, !.replies = <<>>, !.start = FALSE]
<1>1. Fresh(s) = f
  BY DEF Fresh
<1>2. f \in Doors
  BY DEF Steps, Doors
<1>3. /\ f.phase = s.phase /\ f.queue = s.queue
      /\ f.ringBusy = s.ringBusy /\ f.backlog = s.backlog
      /\ f.doc = s.doc /\ f.base = s.base
      /\ f.lastVersion = s.lastVersion /\ f.progress = s.progress
      /\ f.header = s.header
  BY DEF Steps
<1> QED BY <1>1, <1>2, <1>3

(* The front door told that the pump moves again: it gives its backlog.     *)
LEMMA DrainedIs ==
  ASSUME NEW d \in Doors
  PROVE  LET s == ringDrained(d) IN
           /\ s.writes = d.backlog
           /\ Fresh(s) \in Doors /\ Fresh(s).phase = d.phase /\ Fresh(s).queue = d.queue
           /\ ~Fresh(s).ringBusy /\ Fresh(s).backlog = <<>>
           /\ Fresh(s).doc = d.doc /\ Fresh(s).base = d.base
           /\ Fresh(s).lastVersion = d.lastVersion /\ Fresh(s).progress = d.progress
<1> DEFINE s == ringDrained(d)
           b == d.backlog
<1>1. Fresh(d) = d
  BY DoorIs
<1>2. s = [d EXCEPT !.ringBusy = FALSE, !.writes = b, !.backlog = <<>>]
  BY <1>1 DEF ringDrained
<1>3. s = [phase |-> d.phase, queue |-> d.queue, backlog |-> <<>>, ringBusy |-> FALSE, doc |-> d.doc,
           base |-> d.base, lastVersion |-> d.lastVersion, progress |-> d.progress,
           header |-> d.header, writes |-> b, replies |-> d.replies, start |-> d.start]
  BY <1>2 DEF Doors
<1>4. b \in Seq(Msgs) /\ <<>> \in Seq(Msgs)
  BY EmptySeq DEF Doors
<1>5. s \in Steps
  <2>1. /\ d.replies \in Seq(Msgs) /\ d.start \in BOOLEAN
    BY <1>4 DEF Doors
  <2> HIDE DEF s, b
  <2> QED BY <1>3, <1>4, <2>1 DEF Doors, Steps
<1>6. /\ s.phase = d.phase /\ s.queue = d.queue /\ s.backlog = <<>> /\ ~s.ringBusy
      /\ s.doc = d.doc /\ s.base = d.base /\ s.lastVersion = d.lastVersion /\ s.progress = d.progress
      /\ s.writes = b
  BY <1>3
<1> HIDE DEF s
<1> QED BY <1>5, <1>6, FreshIs DEF s

(* The parked pump moves on, and the front door's backlog with it.          *)
LEMMA PumpStep ==
  ASSUME IInv, Kept, PumpTimer PROVE IInv' /\ Kept'
<1> DEFINE moved == ToRing(fifo, ring)
<1>1. /\ fifo # <<>>
      /\ IF moved.fifo # <<>>
         THEN fifo' = moved.fifo /\ ring' = moved.ring /\ UNCHANGED fd
         ELSE Write(ringDrained(fd), <<>>, moved.ring)
      /\ UNCHANGED <<armed, dead, fw, stdout, clientDoc, sent, answered>>
  BY DEF PumpTimer, clientVars
<1>2. fd.phase = "open" /\ ~dead /\ Typed /\ Running
  <2>1. ~dead
    BY <1>1 DEF IInv
  <2>2. fd.phase = "open"
    BY <1>1, <2>1, LiveIsOpen
  <2> QED BY <2>1, <2>2 DEF IInv
<1>3. /\ fd \in Doors /\ Fresh(fd) = fd /\ fd.queue = <<>> /\ fd.backlog \in Seq(Msgs)
      /\ fd.ringBusy <=> fifo # <<>>
      /\ fifo \in Seq(Msgs) /\ ring \in Seq(Msgs) /\ Len(ring) <= RingCap
      /\ fd.lastVersion \in Nat /\ fw.v \in Nat
      /\ Flow(ring \o fifo, fd.backlog, fw.at, fw.v, fw.n, fd.lastVersion, clientDoc.n)
  BY <1>2, OpenIs
<1>4. /\ moved.ring \in Seq(Msgs) /\ moved.fifo \in Seq(Msgs)
      /\ Len(moved.ring) <= RingCap
      /\ moved.ring \o moved.fifo = ring \o fifo
  BY <1>3, ToRingIs
<1> HIDE DEF moved
<1>5. ASSUME NEW i \in Ids PROVE At(i, moved.ring) + At(i, moved.fifo) = At(i, ring) + At(i, fifo)
  <2>1. At(i, moved.ring \o moved.fifo) = At(i, moved.ring) + At(i, moved.fifo)
    BY <1>4, AtConcat
  <2>2. At(i, ring \o fifo) = At(i, ring) + At(i, fifo)
    BY <1>3, AtConcat
  <2> QED BY <1>4, <2>1, <2>2
<1> DEFINE Done == /\ ring' \in Seq(Msgs) /\ fifo' \in Seq(Msgs) /\ Len(ring') <= RingCap
                   /\ fd' \in Doors /\ fd'.phase = "open" /\ fd'.queue = <<>>
                   /\ fd'.doc = fd.doc /\ fd'.base = fd.base
                   /\ fd'.lastVersion = fd.lastVersion /\ fd'.progress = fd.progress
                   /\ fd'.ringBusy <=> fifo' # <<>>
                   /\ ~fd'.ringBusy => fd'.backlog = <<>>
                   /\ Flow(ring' \o fifo', fd'.backlog, fw.at, fw.v, fw.n, fd.lastVersion, clientDoc.n)
                   /\ \A i \in Ids : At(i, ring') + At(i, fifo') + At(i, fd'.backlog)
                                       = At(i, ring) + At(i, fifo) + At(i, fd.backlog)
<1>6. ASSUME moved.fifo # <<>> PROVE Done
  <2>1. fifo' = moved.fifo /\ ring' = moved.ring /\ fd' = fd
    BY <1>1, <1>6
  <2>2. \A i \in Ids : At(i, ring') + At(i, fifo') = At(i, ring) + At(i, fifo)
    BY <1>5, <2>1
  <2>3. /\ ring' \in Seq(Msgs) /\ fifo' \in Seq(Msgs) /\ Len(ring') <= RingCap
        /\ fd'.ringBusy <=> fifo' # <<>>
        /\ ~fd'.ringBusy => fd'.backlog = <<>>
    BY <1>1, <1>3, <1>4, <1>6, <2>1
  <2>4. ring' \o fifo' = ring \o fifo
    BY <1>4, <2>1
  <2> QED BY <1>2, <1>3, <2>1, <2>2, <2>3, <2>4
<1>7. ASSUME moved.fifo = <<>> PROVE Done
  <2> DEFINE s == ringDrained(fd)
             b == fd.backlog
  <2>1. s.writes = b /\ Write(s, <<>>, moved.ring)
    BY <1>1, <1>3, <1>7, DrainedIs
  <2>2. /\ Fresh(s) \in Doors /\ Fresh(s).phase = "open" /\ Fresh(s).queue = <<>>
        /\ ~Fresh(s).ringBusy /\ Fresh(s).backlog = <<>>
        /\ Fresh(s).doc = fd.doc /\ Fresh(s).base = fd.base
        /\ Fresh(s).lastVersion = fd.lastVersion /\ Fresh(s).progress = fd.progress
    BY <1>2, <1>3, DrainedIs
  <2> HIDE DEF s
  <2>3. s.writes = b
    BY <2>1
  <2>4. /\ Fresh(s) \in Doors /\ Fresh(s).phase = "open" /\ Fresh(s).queue = <<>>
        /\ ~Fresh(s).ringBusy /\ Fresh(s).backlog = <<>>
        /\ Fresh(s).doc = fd.doc /\ Fresh(s).base = fd.base
        /\ Fresh(s).lastVersion = fd.lastVersion /\ Fresh(s).progress = fd.progress
    BY <2>2
  <2> DEFINE line == ring \o fifo
             at == fw.at
             v == fw.v
             n == fw.n
             last == fd.lastVersion
             cn == clientDoc.n
             K == {k \in DOMAIN b : Fits(b[k])}
             r == moved.ring
  <2>5. Flow(line, b, at, v, n, last, cn) /\ v \in Nat /\ last \in Int
    BY <1>3
  <2>6. K \in SUBSET DOMAIN b /\ Fitting(b) = Picked(b, K)
    BY DEF Fitting
  <2>7. (r \o <<>>) = line
    BY <1>4, <1>7
  <2>8. r \in Seq(Msgs) /\ Len(r) <= RingCap /\ b \in Seq(Msgs) /\ Write(s, <<>>, r) /\ s.writes = b
    BY <1>3, <1>4, <2>1
  <2> HIDE DEF line, at, v, n, last, cn, K, r, b
  <2>9. Flow(line, Picked(b, K), at, v, n, last, cn)
    BY <2>5, <2>6, PickFlow
  <2>10. Flow((r \o <<>>) \o Fitting(s.writes), Fresh(s).backlog, at, v, n, last, cn)
    <3>1. Flow(line \o Picked(b, K), <<>>, at, v, n, last, cn)
      BY <2>5, <2>9, FlushFlow
    <3> QED BY <2>4, <2>6, <2>7, <2>8, <3>1
  <2>11. <<>> \in Seq(Msgs)
    BY EmptySeq
  <2>12. /\ ring' \in Seq(Msgs) /\ fifo' \in Seq(Msgs) /\ Len(ring') <= RingCap
         /\ fd' \in Doors /\ fd'.phase = Fresh(s).phase /\ fd'.queue = Fresh(s).queue
         /\ fd'.backlog = Fresh(s).backlog /\ fd'.doc = Fresh(s).doc /\ fd'.base = Fresh(s).base
         /\ fd'.lastVersion = Fresh(s).lastVersion /\ fd'.progress = Fresh(s).progress
         /\ fd'.ringBusy <=> fifo' # <<>>
         /\ ~fd'.ringBusy => fd'.backlog = <<>>
         /\ Flow(ring' \o fifo', fd'.backlog, at, v, n, last, cn)
         /\ \A i \in Ids : At(i, ring') + At(i, fifo') = At(i, r) + At(i, <<>>) + At(i, s.writes)
    <3>1. Pumps(s, <<>>, r)
      BY <2>4, <2>8, <2>11 DEF Pumps
    <3>2. Pumped(s, <<>>, r, at, v, n, last, cn)
      BY <2>5, <2>10, <3>1, OpenStep
    <3> QED BY <3>2 DEF Pumped
  <2>13. ASSUME NEW i \in Ids
         PROVE  At(i, ring') + At(i, fifo') + At(i, fd'.backlog) = At(i, ring) + At(i, fifo) + At(i, fd.backlog)
    <3>1. At(i, ring') + At(i, fifo') = At(i, r) + At(i, <<>>) + At(i, b)
      BY <2>8, <2>12
    <3>2. At(i, r) + At(i, <<>>) = At(i, ring) + At(i, fifo)
      BY <1>5, <1>7 DEF r
    <3>3. At(i, fd'.backlog) = 0
      BY <2>4, <2>12, AtNone
    <3>4. At(i, ring) \in Nat /\ At(i, fifo) \in Nat /\ At(i, b) \in Nat
      BY <1>3, <2>8, AtIs
    <3> QED BY <3>1, <3>2, <3>3, <3>4 DEF b
  <2> QED BY <2>4, <2>12, <2>13 DEF at, v, n, last, cn
<1>8. Done
  BY <1>6, <1>7
<1>9. Typed'
  BY <1>1, <1>2, <1>8 DEF Typed
<1>10. Running'
  <2>1. /\ clientDoc.v # 0 /\ fd.doc = clientDoc.v
        /\ fd.lastVersion = fd.doc + fd.base
        /\ fw.at = "open" => fw.v # 0
        /\ stdout # Silent =>
             /\ fw.at = "open"
             /\ stdout.m # "answer" => Said(stdout.v, stdout.n, stdout.at)
        /\ fd.progress # NoProgress => \E n \in Nat : Said(fd.progress.version, n, fd.progress.at)
    BY <1>2 DEF Running
  <2> QED BY <1>1, <1>8, <2>1 DEF Running, Said
<1>11. IInv'
  BY <1>1, <1>2, <1>8, <1>9, <1>10 DEF IInv
<1>12. Kept'
  <2>1. ASSUME NEW i \in Ids PROVE Tally(i)' = Tally(i)
    <3>1. At(i, ring') + At(i, fifo') + At(i, fd'.backlog) = At(i, ring) + At(i, fifo) + At(i, fd.backlog)
      BY <1>8
    <3>2. /\ At(i, ring') \in Nat /\ At(i, fifo') \in Nat /\ At(i, ring) \in Nat /\ At(i, fifo) \in Nat
          /\ At(i, fd'.backlog) \in Nat /\ At(i, fd.backlog) \in Nat
      <4>1. fd'.backlog \in Seq(Msgs)
        BY <1>8 DEF Doors
      <4> QED BY <1>3, <1>8, <4>1, AtIs
    <3>3. At(i, fd.queue) = 0 /\ At(i, fd'.queue) = 0
      BY <1>3, <1>8, AtNone
    <3> DEFINE a == At(i, fd.backlog)
               a2 == At(i, fd'.backlog)
               b == At(i, ring) + At(i, fifo)
               b2 == At(i, ring') + At(i, fifo')
    <3>4. AtDoor(i) = a /\ AtDoor(i)' = a2 /\ OnWay(i) = b /\ OnWay(i)' = b2
      BY <3>2, <3>3 DEF AtDoor, OnWay
    <3>5. a \in Int /\ a2 \in Int /\ b \in Int /\ b2 \in Int /\ b2 + a2 = b + a
      BY <3>1, <3>2
    <3> HIDE DEF a, a2, b, b2
    <3>6. AtDoor(i)' = AtDoor(i) + (a2 - a) /\ OnWay(i)' = OnWay(i) + (b2 - b)
      BY <3>4, <3>5
    <3>7. There(i) \in Int /\ answered[i] \in Int /\ Tally(i) \in Int
      BY <1>2, TallyIs DEF Tallied
    <3>8. There(i)' = There(i) + 0 /\ answered'[i] = answered[i] + 0
      BY <1>1, <3>7 DEF There
    <3>9. a2 - a \in Int /\ b2 - b \in Int /\ 0 \in Int /\ (a2 - a) + (b2 - b) + 0 + 0 = 0
      BY <3>5
    <3>10. Tally(i)' = Tally(i) + ((a2 - a) + (b2 - b) + 0 + 0)
      BY <1>2, <3>6, <3>8, <3>9, TallyNext
    <3> QED BY <3>7, <3>9, <3>10
  <2> QED BY <1>1, <2>1 DEF Kept
<1> QED BY <1>11, <1>12

(* A frame of the FileWorker's through the machine: it is replied, at the   *)
(* client's version, and nothing is written.                                *)
Served(s, d, x) ==
  /\ s.writes = <<>> /\ s.replies = <<shiftVersions(x, -d.base)>>
  /\ Fresh(s) \in Doors /\ Fresh(s).phase = d.phase /\ Fresh(s).queue = d.queue
  /\ Fresh(s).ringBusy = d.ringBusy /\ Fresh(s).backlog = d.backlog
  /\ Fresh(s).doc = d.doc /\ Fresh(s).base = d.base /\ Fresh(s).lastVersion = d.lastVersion
  /\ \/ Fresh(s).progress = d.progress
     \/ x.m # "answer" /\ Fresh(s).progress = [version |-> x.v, at |-> x.at]

(* Every frame of the FileWorker's is served so.                            *)
LEMMA ServerIs ==
  ASSUME NEW d \in Doors, NEW x \in Says \cup Tells
  PROVE  Served(server(d, x), d, x)
<1> DEFINE s == server(d, x)
<1> DEFINE t == CASE x.m = "progress" -> [d EXCEPT !.progress = [version |-> x.v, at |-> x.at]]
                  [] x.m = "header"   -> [d EXCEPT !.header = x.at]
                  [] OTHER            -> d
           y == shiftVersions(x, -d.base)
<1>1. s = Reply(Fresh(t), y)
  BY DEF server
<1> HIDE DEF s
<1>2. /\ t \in Doors /\ t.phase = d.phase /\ t.queue = d.queue
      /\ t.ringBusy = d.ringBusy /\ t.backlog = d.backlog
      /\ t.doc = d.doc /\ t.base = d.base /\ t.lastVersion = d.lastVersion
      /\ \/ t.progress = d.progress
         \/ x.m # "answer" /\ t.progress = [version |-> x.v, at |-> x.at]
  <2>1. CASE x.m = "progress"
    <3> DEFINE p == [version |-> x.v, at |-> x.at]
    <3>1. p \in [version : Int, at : {"none", "working", "drained", "fatal"}]
      BY <2>1 DEF Says, Tells
    <3>2. t = [d EXCEPT !.progress = p]
      BY <2>1
    <3>3. x.m # "answer"
      BY <2>1
    <3> HIDE DEF t
    <3>4. t.progress = p
      BY <3>2 DEF Doors
    <3>5. /\ t \in Doors /\ t.phase = d.phase /\ t.queue = d.queue
          /\ t.ringBusy = d.ringBusy /\ t.backlog = d.backlog
          /\ t.doc = d.doc /\ t.base = d.base /\ t.lastVersion = d.lastVersion
      <4> HIDE DEF p
      <4> QED BY <3>1, <3>2 DEF Doors
    <3> QED BY <3>3, <3>4, <3>5 DEF t
  <2>2. CASE x.m = "header"
    <3>1. x.at \in {"covered", "refused"}
      BY <2>2 DEF Says, Tells
    <3>2. t = [d EXCEPT !.header = x.at]
      BY <2>2
    <3> HIDE DEF t
    <3>3. /\ t \in Doors /\ t.phase = d.phase /\ t.queue = d.queue
          /\ t.ringBusy = d.ringBusy /\ t.backlog = d.backlog
          /\ t.doc = d.doc /\ t.base = d.base /\ t.lastVersion = d.lastVersion
          /\ t.progress = d.progress
      BY <3>1, <3>2 DEF Doors
    <3> QED BY <3>3 DEF t
  <2>3. CASE x.m # "progress" /\ x.m # "header"
    BY <2>3
  <2> QED BY <2>1, <2>2, <2>3
<1> HIDE DEF t
<1>3. Fresh(t) = t /\ t.writes = <<>> /\ t.replies = <<>> /\ ~t.start
  BY <1>2, DoorIs
<1>4. s = [t EXCEPT !.replies = <<y>>]
  BY <1>1, <1>3 DEF Reply
<1> HIDE DEF y
<1>5. s.writes = <<>> /\ s.replies = <<y>>
  BY <1>2, <1>3, <1>4 DEF Doors
<1>6. Fresh(s) = t
  BY <1>2, <1>3, <1>4 DEF Fresh, Doors
<1> QED BY <1>2, <1>5, <1>6 DEF Served, s, y

(* What the FileWorker says of a text reaches the client under its own      *)
(* version of that text, or under an older one.                             *)
LEMMA ShiftedIs ==
  ASSUME IInv, stdout # Silent, ~dead, stdout.m # "answer"
  PROVE  LET y == shiftVersions(stdout, -fd.base) IN
           /\ y.v <= clientDoc.v
           /\ y.v = clientDoc.v => stdout.n = clientDoc.n
<1>1. fd.phase = "open"
  BY LiveIsOpen
<1>2. /\ fd.doc = clientDoc.v /\ fd.lastVersion = fd.doc + fd.base /\ fd.base \in Nat /\ fd.doc \in Nat
      /\ Flow(ring \o fifo, fd.backlog, fw.at, fw.v, fw.n, fd.lastVersion, clientDoc.n)
      /\ fw.v \in Nat
  BY <1>1, OpenIs
<1>3. stdout \in Says /\ Said(stdout.v, stdout.n, stdout.at)
  BY <1>1 DEF IInv, Typed, Running, Tells
<1>4. stdout.v \in Nat \ {0} /\ stdout.v <= fw.v /\ (stdout.v = fw.v => stdout.n = fw.n)
  BY <1>3 DEF Says, Said
<1>5. fw.v <= fd.lastVersion /\ (fw.v = fd.lastVersion => fw.n = clientDoc.n)
  BY <1>2 DEF Flow
<1>6. shiftVersions(stdout, -fd.base).v = stdout.v + (-fd.base)
  <2>1. shiftVersions(stdout, -fd.base) = [stdout EXCEPT !.v = stdout.v + (-fd.base)]
    BY <1>4 DEF shiftVersions
  <2> QED BY <1>3, <2>1 DEF Says
<1> QED BY <1>2, <1>4, <1>5, <1>6

(* The host takes a frame of the FileWorker's.                              *)
LEMMA HostReadsStep ==
  ASSUME IInv, Kept, HostReads PROVE IInv' /\ Kept'
<1>1. PICK s \in {server(fd, stdout)} :
        /\ Answers(s.replies)
        /\ Write(s, fifo, ring)
  BY DEF HostReads
<1>2. /\ stdout # Silent /\ ~dead /\ stdout' = Silent
      /\ UNCHANGED <<armed, dead, fw, clientDoc, sent>>
  BY DEF HostReads, clientVars
<1>3. fd.phase = "open" /\ Typed /\ Running
  <2>1. fd.phase = "open"
    BY <1>2, LiveIsOpen
  <2> QED BY <2>1 DEF IInv
<1>4. /\ fd \in Doors /\ fd.queue = <<>> /\ fd.backlog \in Seq(Msgs)
      /\ ~fd.ringBusy => fd.backlog = <<>>
      /\ fd.ringBusy <=> fifo # <<>>
      /\ fifo \in Seq(Msgs) /\ ring \in Seq(Msgs) /\ Len(ring) <= RingCap
      /\ fd.lastVersion \in Nat /\ fw.v \in Nat
      /\ Flow(ring \o fifo, fd.backlog, fw.at, fw.v, fw.n, fd.lastVersion, clientDoc.n)
  BY <1>3, OpenIs
<1>5. stdout \in Says \cup Tells
  BY <1>2, <1>3 DEF Typed
<1> DEFINE y == shiftVersions(stdout, -fd.base)
<1>6. /\ s.writes = <<>> /\ s.replies = <<y>>
      /\ Fresh(s) \in Doors /\ Fresh(s).phase = fd.phase /\ Fresh(s).queue = fd.queue
      /\ Fresh(s).ringBusy = fd.ringBusy /\ Fresh(s).backlog = fd.backlog
      /\ Fresh(s).doc = fd.doc /\ Fresh(s).base = fd.base /\ Fresh(s).lastVersion = fd.lastVersion
      /\ \/ Fresh(s).progress = fd.progress
         \/ stdout.m # "answer" /\ Fresh(s).progress = [version |-> stdout.v, at |-> stdout.at]
  <2>1. Served(server(fd, stdout), fd, stdout)
    BY <1>4, <1>5, ServerIs
  <2>2. Served(s, fd, stdout)
    BY <1>1, <2>1
  <2> QED BY <2>2 DEF Served
<1>7. y.id = stdout.id
  BY <1>5 DEF shiftVersions, Says, Tells
<1> HIDE DEF y
<1>8. /\ ring' \in Seq(Msgs) /\ fifo' \in Seq(Msgs) /\ Len(ring') <= RingCap
      /\ fd' \in Doors /\ fd'.phase = "open" /\ fd'.queue = <<>>
      /\ fd'.backlog = fd.backlog /\ fd'.doc = fd.doc /\ fd'.base = fd.base
      /\ fd'.lastVersion = fd.lastVersion /\ fd'.progress = Fresh(s).progress
      /\ fd'.ringBusy <=> fifo' # <<>>
      /\ ~fd'.ringBusy => fd'.backlog = <<>>
      /\ Flow(ring' \o fifo', fd'.backlog, fw.at, fw.v, fw.n, fd.lastVersion, clientDoc.n)
      /\ \A i \in Ids : At(i, ring') + At(i, fifo') = At(i, ring) + At(i, fifo) + At(i, s.writes)
  <2> DEFINE line == ring \o fifo
             at == fw.at
             v == fw.v
             n == fw.n
             last == fd.lastVersion
             cn == clientDoc.n
  <2>1. line \o Fitting(s.writes) = line
    <3>1. line \in Seq(Msgs)
      BY <1>4, ConcatProperties
    <3> QED BY <1>6, <3>1, FittingNone, ConcatEmptySeq
  <2>2. Flow(line \o Fitting(s.writes), Fresh(s).backlog, at, v, n, last, cn) /\ v \in Nat /\ last \in Int
    <3>1. Flow(line, fd.backlog, at, v, n, last, cn) /\ v \in Nat /\ last \in Int
      BY <1>4
    <3>2. Fresh(s).backlog = fd.backlog
      BY <1>6
    <3> HIDE DEF line, at, v, n, last, cn
    <3> QED BY <2>1, <3>1, <3>2
  <2>3. s.writes \in Seq(Msgs)
    BY <1>6, EmptySeq
  <2>4. Flow((ring \o fifo) \o Fitting(s.writes), Fresh(s).backlog, at, v, n, last, cn)
    BY <2>2
  <2> HIDE DEF line, at, v, n, last, cn
  <2>5. /\ Fresh(s).ringBusy <=> fifo # <<>>
        /\ fifo # <<>> => s.writes = <<>>
        /\ ~Fresh(s).ringBusy => Fresh(s).backlog = <<>>
    BY <1>4, <1>6
  <2>6. /\ ring' \in Seq(Msgs) /\ fifo' \in Seq(Msgs) /\ Len(ring') <= RingCap
        /\ fd' \in Doors /\ fd'.phase = Fresh(s).phase /\ fd'.queue = Fresh(s).queue
        /\ fd'.backlog = Fresh(s).backlog /\ fd'.doc = Fresh(s).doc /\ fd'.base = Fresh(s).base
        /\ fd'.lastVersion = Fresh(s).lastVersion /\ fd'.progress = Fresh(s).progress
        /\ fd'.ringBusy <=> fifo' # <<>>
        /\ ~fd'.ringBusy => fd'.backlog = <<>>
        /\ Flow(ring' \o fifo', fd'.backlog, at, v, n, last, cn)
        /\ \A i \in Ids : At(i, ring') + At(i, fifo') = At(i, ring) + At(i, fifo) + At(i, s.writes)
    <3>1. fifo \in Seq(Msgs) /\ ring \in Seq(Msgs) /\ Len(ring) <= RingCap /\ Write(s, fifo, ring) /\ Fresh(s) \in Doors
      BY <1>1, <1>4, <1>6
    <3>2. v \in Nat /\ last \in Int
      BY <2>2
    <3>3. Pumps(s, fifo, ring)
      BY <2>3, <2>5, <3>1 DEF Pumps
    <3>4. Pumped(s, fifo, ring, at, v, n, last, cn)
      BY <2>4, <3>2, <3>3, OpenStep
    <3> QED BY <3>4 DEF Pumped
  <2> QED BY <1>3, <1>4, <1>6, <2>6 DEF at, v, n, last, cn
<1>9. answered' \in [Ids -> Nat] /\ \A i \in Ids : answered'[i] = answered[i] + IF stdout.id = i THEN 1 ELSE 0
  <2>1. answered \in [Ids -> Nat] /\ Answers(<<y>>) /\ <<y>> \in Seq({y})
    BY <1>1, <1>3, <1>6 DEF Typed
  <2>2. answered' \in [Ids -> Nat] /\ \A i \in Ids : answered'[i] = answered[i] + At(i, <<y>>)
    BY <2>1, AnswersAre
  <2>3. \A i : At(i, <<y>>) = IF stdout.id = i THEN 1 ELSE 0
    BY <1>7, AtOne
  <2> QED BY <2>2, <2>3
<1>10. Typed'
  BY <1>2, <1>3, <1>8, <1>9 DEF Typed
<1>11. Running'
  <2>1. /\ clientDoc.v # 0 /\ fd.doc = clientDoc.v
        /\ fd.lastVersion = fd.doc + fd.base
        /\ fw.at = "open" => fw.v # 0
        /\ stdout.m # "answer" => Said(stdout.v, stdout.n, stdout.at)
        /\ fd.progress # NoProgress => \E n \in Nat : Said(fd.progress.version, n, fd.progress.at)
    BY <1>2, <1>3 DEF Running
  <2>2. fd'.progress # NoProgress => \E n \in Nat : Said(fd'.progress.version, n, fd'.progress.at)
    <3>1. CASE Fresh(s).progress = fd.progress
      BY <1>8, <2>1, <3>1
    <3>2. CASE stdout.m # "answer" /\ Fresh(s).progress = [version |-> stdout.v, at |-> stdout.at]
      <4>1. stdout.n \in Nat
        BY <1>5 DEF Says, Tells
      <4>2. fd'.progress.version = stdout.v /\ fd'.progress.at = stdout.at
        BY <1>8, <3>2
      <4> QED BY <2>1, <3>2, <4>1, <4>2
    <3> QED BY <1>6, <3>1, <3>2
  <2>3. Flow(ring' \o fifo', fd'.backlog, fw'.at, fw'.v, fw'.n, fd'.lastVersion, clientDoc'.n)
    BY <1>2, <1>8
  <2> QED BY <1>2, <1>8, <2>1, <2>2, <2>3 DEF Running, Said
<1>12. IInv'
  BY <1>2, <1>3, <1>8, <1>10, <1>11 DEF IInv
<1>13. Kept'
  <2>1. ASSUME NEW i \in Ids PROVE Tally(i)' = Tally(i)
    <3> DEFINE e == IF stdout.id = i THEN 1 ELSE 0
    <3>1. There(i)' = There(i) + (-e)
      <4>1. NoId # i
        BY HostAssumption
      <4>2. stdout'.id # i
        BY <1>2, <4>1 DEF Silent
      <4>3. fw' = fw
        BY <1>2
      <4> QED BY <4>2, <4>3 DEF There
    <3>2. answered'[i] = answered[i] + e
      BY <1>9
    <3>3. Tally(i) \in Int /\ AtDoor(i) \in Int /\ OnWay(i) \in Int
      BY <1>3, TallyIs DEF Tallied
    <3>4. AtDoor(i)' = AtDoor(i)
      BY <1>4, <1>8 DEF AtDoor
    <3>5. OnWay(i)' = OnWay(i)
      <4>1. At(i, ring') + At(i, fifo') = At(i, ring) + At(i, fifo) + At(i, <<>>)
        BY <1>6, <1>8
      <4>2. At(i, <<>>) = 0 /\ At(i, ring) \in Nat /\ At(i, fifo) \in Nat
        BY <1>4, AtNone, AtIs
      <4> QED BY <4>1, <4>2 DEF OnWay
    <3>6. e \in Int /\ -e \in Int /\ 0 \in Int /\ 0 + 0 + (-e) + e = 0
      OBVIOUS
    <3> HIDE DEF e
    <3>7. AtDoor(i)' = AtDoor(i) + 0 /\ OnWay(i)' = OnWay(i) + 0
      BY <3>3, <3>4, <3>5
    <3>8. Tally(i)' = Tally(i) + (0 + 0 + (-e) + e)
      BY <1>3, <3>1, <3>2, <3>6, <3>7, TallyNext
    <3> QED BY <3>3, <3>6, <3>8
  <2> QED BY <1>2, <2>1 DEF Kept
<1> QED BY <1>12, <1>13

-----------------------------------------------------------------------------
(* A step that writes nothing past an unparked pump.                        *)
LEMMA WriteNone ==
  ASSUME NEW s, s.writes = <<>>, NEW r \in Seq(Msgs), Len(r) <= RingCap, Write(s, <<>>, r)
  PROVE  fifo' = <<>> /\ ring' = r /\ fd' = Fresh(s)
<1> DEFINE m == ToRing(<<>>, r)
<1>1. Fitting(s.writes) = <<>>
  BY FittingNone
<1>2. /\ fifo' = m.fifo /\ ring' = m.ring
      /\ fd' = IF m.fifo # <<>> THEN ringParked(s) ELSE Fresh(s)
  <2>1. \E frames \in {Fitting(s.writes)} : \E moved \in {ToRing(frames, r)} :
          /\ fifo' = moved.fifo /\ ring' = moved.ring
          /\ fd' = IF moved.fifo # <<>> THEN ringParked(s) ELSE Fresh(s)
    BY DEF Write, Fitting
  <2> QED BY <1>1, <2>1
<1>3. Len(r) \in Nat /\ RingCap \in Nat /\ Len(<<>>) = 0
  BY SeqIs, EmptySeq, HostAssumption
<1>4. m = [fifo |-> SubSeq(<<>>, 0 + 1, 0), ring |-> r \o SubSeq(<<>>, 1, 0)]
  BY <1>3 DEF ToRing
<1>5. SubSeq(<<>>, 0 + 1, 0) = <<>> /\ SubSeq(<<>>, 1, 0) = <<>> /\ r \o <<>> = r
  <2>1. <<>> \in Seq(Msgs)
    BY EmptySeq
  <2>2. SubSeq(<<>>, 1, 0) = <<>>
    BY <2>1, PrefixIs
  <2> QED BY <2>2, ConcatEmptySeq
<1> HIDE DEF m
<1>6. m.fifo = <<>> /\ m.ring = r
  BY <1>4, <1>5
<1> QED BY <1>2, <1>6

(* A closed front door.                                                     *)
Idle(d) ==
  /\ d \in Doors /\ d.backlog = <<>> /\ ~d.ringBusy
  /\ d.doc = 0 /\ d.progress = NoProgress /\ d.header = "none"

(* A closed front door, as it is between two steps.                         *)
Shuts(d, isArmed, doc) ==
  /\ Idle(d) /\ d.phase \in {"booting", "ready"}
  /\ isArmed \in BOOLEAN /\ (isArmed <=> d.phase # "booting")
  /\ doc \in [v : Nat, n : Nat]
  /\ d.phase = "ready" => doc.v = 0
  /\ doc.v = 0 => d.queue \in Seq(Requested)
  /\ \A k \in DOMAIN d.queue : d.queue[k].m # "initialize"

(* The request x, or none, is sent, and is in q or in p.                    *)
Sends(x) ==
  /\ sent' \in SUBSET Ids
  /\ \A i \in Ids : x.id = i => i \notin sent
  /\ \A i \in Ids : i \in sent' <=> i \in sent \/ x.id = i
Takes(q, p, x) ==
  \A i \in Ids : At(i, q) + At(i, p) = At(i, fd.queue) + IF x.id = i THEN 1 ELSE 0

(* A front door that stays closed: it holds what it got, or answers it.     *)
LEMMA ClosedApplied ==
  ASSUME IInv, Kept, ~dead, fd.phase \in {"booting", "ready"}, NEW s, s.writes = <<>>,
         Answers(s.replies), Write(s, fifo, ring), UNCHANGED <<dead, fw, stdout>>,
         Shuts(Fresh(s), armed', clientDoc'),
         NEW x, s.replies \in Seq({x}), Sends(x), Takes(Fresh(s).queue, s.replies, x)
  PROVE  IInv' /\ Kept'
<1> USE DEF Shuts, Sends, Takes
<1>1. Typed /\ Closed
  BY DEF IInv
<1>2. /\ ring = <<>> /\ fifo = <<>> /\ fd.backlog = <<>>
      /\ fw.at = "start" /\ fw.v = 0 /\ fw.held = {} /\ stdout = Silent
  BY <1>1 DEF Closed
<1>3. fifo' = <<>> /\ ring' = <<>> /\ fd' = Fresh(s)
  <2>1. <<>> \in Seq(Msgs) /\ Len(<<>>) <= RingCap
    BY EmptySeq, HostAssumption
  <2>2. Write(s, <<>>, <<>>)
    BY <1>2
  <2> QED BY <2>1, <2>2, WriteNone
<1>4. answered' \in [Ids -> Nat] /\ \A i \in Ids : answered'[i] = answered[i] + At(i, s.replies)
  <2>1. answered \in [Ids -> Nat]
    BY <1>1 DEF Typed
  <2> QED BY <2>1, AnswersAre
<1>5. Typed'
  <2>1. fifo' \in Seq(Msgs) /\ ring' \in Seq(Msgs) /\ Len(ring') <= RingCap
    BY <1>3, EmptySeq, HostAssumption
  <2>2. fd' \in Doors
    BY <1>3 DEF Idle
  <2> QED BY <1>1, <1>4, <2>1, <2>2 DEF Typed
<1>6. Closed'
  BY <1>2, <1>3 DEF Closed, Idle
<1>7. IInv'
  <2>1. fd'.phase \in {"booting", "ready"} /\ dead' = FALSE /\ fw'.at = "start"
    BY <1>1, <1>2, <1>3 DEF Typed
  <2>2. armed' <=> fd'.phase # "booting"
    BY <1>3
  <2> QED BY <1>3, <1>5, <1>6, <2>1, <2>2 DEF IInv
<1>8. Kept'
  <2>1. SUFFICES ASSUME OpensFit, NEW i \in Ids
                 PROVE  Tally(i)' = IF i \in sent' THEN 1 ELSE 0
    BY DEF Kept
  <2>2. Tally(i) = IF i \in sent THEN 1 ELSE 0
    BY <2>1 DEF Kept
  <2> DEFINE e == IF x.id = i THEN 1 ELSE 0
             p == At(i, s.replies)
             a == At(i, fd.queue)
             a2 == At(i, fd'.queue)
  <2>3. p \in Int /\ a \in Int /\ a2 \in Int /\ e \in Int
    <3>1. fd.queue \in Seq(Msgs) /\ fd'.queue \in Seq(Msgs)
      BY <1>1, <1>5 DEF Typed, Doors
    <3> QED BY <3>1, AtIs
  <2>4. a2 + p = a + e
    BY <1>3
  <2>5. AtDoor(i) = a + 0 /\ AtDoor(i)' = a2 + 0
    <3>1. At(i, fd.backlog) = 0 /\ At(i, fd'.backlog) = 0
      BY <1>2, <1>3, AtNone DEF Idle
    <3> QED BY <3>1 DEF AtDoor
  <2>6. OnWay(i)' = OnWay(i) /\ There(i)' = There(i)
    BY <1>2, <1>3 DEF OnWay, There
  <2>7. OnWay(i) \in Int /\ There(i) \in Int
    BY <1>1, TallyIs DEF Tallied
  <2>8. answered'[i] = answered[i] + p
    BY <1>4
  <2>9. (IF i \in sent' THEN 1 ELSE 0) = (IF i \in sent THEN 1 ELSE 0) + e
    OBVIOUS
  <2> HIDE DEF e, p, a, a2
  <2>10. /\ AtDoor(i)' = AtDoor(i) + (e - p) /\ OnWay(i)' = OnWay(i) + 0 /\ There(i)' = There(i) + 0
         /\ e - p \in Int /\ 0 \in Int /\ (e - p) + 0 + 0 + p = e
    BY <2>3, <2>4, <2>5, <2>6, <2>7
  <2>11. Tally(i)' = Tally(i) + ((e - p) + 0 + 0 + p)
    BY <1>1, <2>3, <2>8, <2>10, TallyNext
  <2> QED BY <2>2, <2>9, <2>10, <2>11
<1> QED BY <1>7, <1>8

(* A dead session takes nothing in.                                         *)
LEMMA DeadApplied ==
  ASSUME IInv, dead, NEW s, s.writes = <<>>, ~s.start, Fresh(s) = fd, Apply(s),
         NEW x, s.replies \in Seq({x}), UNCHANGED <<fw, stdout>>,
         clientDoc' \in [v : Nat, n : Nat], sent' \in SUBSET Ids
  PROVE  IInv' /\ Kept'
<1>1. Typed /\ fd.phase = "dead" /\ fifo = <<>>
  BY DEF IInv
<1>2. Answers(s.replies) /\ Write(s, <<>>, ring) /\ UNCHANGED <<armed, dead>>
  BY <1>1 DEF Apply
<1>3. fifo' = <<>> /\ ring' = ring /\ fd' = fd
  <2>1. ring \in Seq(Msgs) /\ Len(ring) <= RingCap
    BY <1>1 DEF Typed
  <2> QED BY <1>2, <2>1, WriteNone
<1>4. answered' \in [Ids -> Nat]
  <2>1. answered \in [Ids -> Nat]
    BY <1>1 DEF Typed
  <2> QED BY <1>2, <2>1, AnswersAre
<1>5. Typed'
  BY <1>1, <1>2, <1>3, <1>4 DEF Typed
<1>6. IInv'
  BY <1>1, <1>2, <1>3, <1>5 DEF IInv
<1>7. Kept'
  BY <1>2 DEF Kept
<1> QED BY <1>6, <1>7

(* The loop starts on a text: the opening sequence and what waited behind   *)
(* it go to the ring.                                                       *)
LEMMA LoopStarts ==
  ASSUME IInv, Kept, ~dead, fd.phase \in {"booting", "ready"},
         NEW msg \in Texts, msg.m = "open", NEW r \in Seq(Requested), NEW s, Loops(s, msg, r),
         Opens(s), Answers(s.replies), Write(s, fifo, ring), UNCHANGED <<dead, fw, stdout>>,
         armed' = TRUE, clientDoc' = [v |-> msg.v, n |-> msg.n], sent' = sent,
         \A i \in Ids : At(i, r) = At(i, fd.queue)
  PROVE  IInv' /\ Kept'
<1>1. Typed /\ Closed
  BY DEF IInv
<1>2. /\ ring = <<>> /\ fifo = <<>> /\ fd.backlog = <<>>
      /\ fw.at = "start" /\ fw.v = 0 /\ fw.held = {} /\ stdout = Silent
  BY <1>1 DEF Closed
<1>3. /\ s \in Steps /\ s.phase = "open" /\ s.queue = <<>> /\ s.backlog = <<>> /\ ~s.ringBusy
      /\ s.doc = msg.v /\ s.base = 0 /\ s.lastVersion = msg.v
      /\ s.progress = NoProgress /\ s.start
      /\ \A i \in Ids : At(i, s.writes) + At(i, s.replies) = At(i, r)
  BY DEF Loops
<1>4. PICK w \in Seq(Requested) : s.writes = <<Initialize, msg>> \o w
  BY DEF Loops
<1>5. s.writes \in Seq(Msgs) /\ s.replies \in Seq(Msgs)
  BY <1>3 DEF Steps
<1>6. /\ Fresh(s) \in Doors /\ Fresh(s).phase = "open" /\ Fresh(s).queue = <<>>
      /\ ~Fresh(s).ringBusy /\ Fresh(s).backlog = <<>>
      /\ Fresh(s).doc = msg.v /\ Fresh(s).base = 0
      /\ Fresh(s).lastVersion = msg.v /\ Fresh(s).progress = NoProgress
  BY <1>3, FreshIs
<1>7. msg.v \in Nat \ {0} /\ msg.n \in Nat
  BY DEF Texts
<1> DEFINE K == {k \in DOMAIN s.writes : Fits(s.writes[k])}
<1>8. K \in SUBSET DOMAIN s.writes /\ Fitting(s.writes) = Picked(s.writes, K)
  BY DEF Fitting
<1>9. 1 \in K /\ (OpensFit => 2 \in K)
  <2>1. 1 \in DOMAIN s.writes /\ 2 \in DOMAIN s.writes /\ s.writes[1] = Initialize
    <3>1. <<Initialize, msg>> \in Seq(Msgs) /\ w \in Seq(Msgs)
      <4>1. Initialize \in Msgs /\ msg \in Msgs
        BY DEF Msgs
      <4>2. w \in Seq(Msgs)
        BY SeqMonotonic DEF Msgs
      <4> QED BY <4>1, <4>2
    <3>2. Len(<<Initialize, msg>>) = 2 /\ <<Initialize, msg>>[1] = Initialize
      OBVIOUS
    <3>3. Len(s.writes) = 2 + Len(w) /\ \A i \in 1..2 : s.writes[i] = <<Initialize, msg>>[i]
      BY <1>4, <3>1, <3>2, ConcatProperties
    <3>4. Len(w) \in Nat /\ DOMAIN s.writes = 1..Len(s.writes)
      BY <1>5, SeqIs
    <3>5. 1 \in 1..2 /\ 1 \in 1..(2 + Len(w)) /\ 2 \in 1..(2 + Len(w))
      BY <3>4
    <3> QED BY <3>2, <3>3, <3>4, <3>5
  <2>2. Fits(Initialize)
    BY HostAssumption DEF Fits, Initialize, Message
  <2>3. OpensFit => Fits(s.writes[2])
    BY <1>3 DEF Opens
  <2> QED BY <2>1, <2>2, <2>3
<1> HIDE DEF K
<1>10. Flow((<<>> \o <<>>) \o Fitting(s.writes), Fresh(s).backlog, "start", 0, fw.n, msg.v, msg.n)
  <2> DEFINE n == fw.n
             q == s.writes
  <2>1. q = <<Initialize, msg>> \o w /\ K \in SUBSET DOMAIN q
    BY <1>4, <1>8
  <2> HIDE DEF n, q
  <2>2. Flow(Picked(q, K), <<>>, "start", 0, n, msg.v, msg.n)
    BY <1>9, <2>1, OpeningFlow
  <2>3. (<<>> \o <<>>) \o Fitting(s.writes) = Fitting(s.writes)
    <3>1. Fitting(s.writes) \in Seq(Msgs)
      BY <1>5, FittingIs
    <3>2. <<>> \o <<>> = <<>> /\ <<>> \o Fitting(s.writes) = Fitting(s.writes)
      BY <3>1, ConcatEmptySeq, EmptySeq
    <3> QED BY <3>2
  <2>4. Fitting(s.writes) = Picked(q, K)
    BY <1>8 DEF q
  <2> QED BY <1>6, <2>2, <2>3, <2>4 DEF n
<1>11. /\ ring' \in Seq(Msgs) /\ fifo' \in Seq(Msgs) /\ Len(ring') <= RingCap
       /\ fd' \in Doors /\ fd'.phase = "open" /\ fd'.queue = <<>>
       /\ fd'.backlog = <<>> /\ fd'.doc = msg.v /\ fd'.base = 0
       /\ fd'.lastVersion = msg.v /\ fd'.progress = NoProgress
       /\ fd'.ringBusy <=> fifo' # <<>>
       /\ Flow(ring' \o fifo', fd'.backlog, "start", 0, fw.n, msg.v, msg.n)
       /\ \A i \in Ids : At(i, ring') + At(i, fifo') = At(i, <<>>) + At(i, <<>>) + At(i, s.writes)
  <2> DEFINE n == fw.n
             v == msg.v
             m == msg.n
             q == <<>>
  <2>1. q \in Seq(Msgs) /\ Len(q) <= RingCap /\ Write(s, q, q)
    BY <1>2, EmptySeq, HostAssumption
  <2>2. Flow((q \o q) \o Fitting(s.writes), Fresh(s).backlog, "start", 0, n, v, m) /\ 0 \in Nat /\ v \in Int
    BY <1>7, <1>10
  <2>3. /\ Fresh(s).ringBusy <=> q # <<>>
        /\ q # <<>> => s.writes = <<>>
        /\ ~Fresh(s).ringBusy => Fresh(s).backlog = <<>>
    BY <1>6
  <2>4. q = <<>>
    OBVIOUS
  <2> HIDE DEF n, v, m, q
  <2>5. /\ ring' \in Seq(Msgs) /\ fifo' \in Seq(Msgs) /\ Len(ring') <= RingCap
        /\ fd' \in Doors /\ fd'.phase = Fresh(s).phase /\ fd'.queue = Fresh(s).queue
        /\ fd'.backlog = Fresh(s).backlog /\ fd'.doc = Fresh(s).doc /\ fd'.base = Fresh(s).base
        /\ fd'.lastVersion = Fresh(s).lastVersion /\ fd'.progress = Fresh(s).progress
        /\ fd'.ringBusy <=> fifo' # <<>>
        /\ Flow(ring' \o fifo', fd'.backlog, "start", 0, n, v, m)
        /\ \A i \in Ids : At(i, ring') + At(i, fifo') = At(i, q) + At(i, q) + At(i, s.writes)
    <3>1. Pumps(s, q, q)
      BY <1>5, <1>6, <2>1, <2>3 DEF Pumps
    <3>2. Pumped(s, q, q, "start", 0, n, v, m)
      BY <2>2, <3>1, OpenStep
    <3> QED BY <3>2 DEF Pumped
  <2> QED BY <1>6, <2>4, <2>5 DEF n, v, m
<1>12. answered' \in [Ids -> Nat] /\ \A i \in Ids : answered'[i] = answered[i] + At(i, s.replies)
  <2>1. answered \in [Ids -> Nat]
    BY <1>1 DEF Typed
  <2> QED BY <1>5, <2>1, AnswersAre
<1>13. Typed'
  BY <1>1, <1>7, <1>11, <1>12 DEF Typed
<1>14. Running'
  <2>1. /\ fd'.queue = <<>> /\ clientDoc'.v # 0 /\ fd'.doc = clientDoc'.v
        /\ fd'.lastVersion = fd'.doc + fd'.base
        /\ fd'.backlog = <<>> /\ fw'.at = "start" /\ stdout' = Silent /\ fd'.progress = NoProgress
        /\ fd'.ringBusy <=> fifo' # <<>>
    BY <1>2, <1>7, <1>11
  <2>2. Flow(ring' \o fifo', fd'.backlog, fw'.at, fw'.v, fw'.n, fd'.lastVersion, clientDoc'.n)
    BY <1>2, <1>11
  <2> QED BY <2>1, <2>2 DEF Running
<1>15. IInv'
  <2>1. dead' = FALSE /\ fw'.at = "start"
    BY <1>1, <1>2 DEF Typed
  <2> QED BY <1>11, <1>13, <1>14, <2>1 DEF IInv
<1>16. Kept'
  <2>1. SUFFICES ASSUME OpensFit, NEW i \in Ids
                 PROVE  Tally(i)' = IF i \in sent' THEN 1 ELSE 0
    BY DEF Kept
  <2>2. Tally(i) = IF i \in sent' THEN 1 ELSE 0
    BY <2>1 DEF Kept
  <2> DEFINE p == At(i, s.replies)
             w2 == At(i, s.writes)
             a == At(i, fd.queue)
  <2>3. p \in Int /\ a \in Int /\ w2 \in Int
    <3>1. fd.queue \in Seq(Msgs)
      BY <1>1 DEF Typed, Doors
    <3> QED BY <1>5, <3>1, AtIs
  <2>4. w2 + p = a
    BY <1>3
  <2>5. AtDoor(i) = a + 0 /\ AtDoor(i)' = 0 /\ OnWay(i) = 0 /\ OnWay(i)' = 0 + 0 + w2
    <3>1. At(i, <<>>) = 0
      BY AtNone
    <3> QED BY <1>2, <1>11, <3>1 DEF AtDoor, OnWay
  <2>6. There(i)' = There(i) /\ There(i) \in Int
    <3>1. There(i) \in Int
      BY <1>1, TallyIs DEF Tallied
    <3> QED BY <3>1 DEF There
  <2>7. answered'[i] = answered[i] + p /\ Tally(i) \in Int
    BY <1>1, <1>12, TallyIs DEF Tallied
  <2> HIDE DEF p, w2, a
  <2>8. /\ AtDoor(i)' = AtDoor(i) + (-a) /\ OnWay(i)' = OnWay(i) + w2 /\ There(i)' = There(i) + 0
        /\ -a \in Int /\ 0 \in Int /\ (-a) + w2 + 0 + p = 0
    BY <2>3, <2>4, <2>5, <2>6
  <2>9. Tally(i)' = Tally(i) + ((-a) + w2 + 0 + p)
    BY <1>1, <2>3, <2>7, <2>8, TallyNext
  <2> QED BY <2>2, <2>7, <2>8, <2>9
<1> QED BY <1>15, <1>16

(* A closed front door, between two steps.                                  *)
LEMMA ClosedIs ==
  ASSUME IInv, fd.phase \in {"booting", "ready"}
  PROVE  /\ ~dead /\ Idle(fd) /\ Fresh(fd) = fd /\ fd.writes = <<>> /\ fd.replies = <<>> /\ ~fd.start
         /\ fd.queue \in Seq(Msgs) /\ Typed
         /\ fd.phase = "ready" => clientDoc.v = 0
         /\ clientDoc.v = 0 => fd.queue \in Seq(Requested)
         /\ \A k \in DOMAIN fd.queue : fd.queue[k].m # "initialize"
         /\ armed \in BOOLEAN
         /\ armed <=> fd.phase # "booting"
<1>1. Typed /\ Closed /\ ~dead
  BY DEF IInv
<1>2. fd \in Doors
  BY <1>1 DEF Typed
<1>3. Fresh(fd) = fd /\ fd.writes = <<>> /\ fd.replies = <<>> /\ ~fd.start /\ fd.queue \in Seq(Msgs)
  <2>1. fd.queue \in Seq(Msgs)
    BY <1>2 DEF Doors
  <2> QED BY <1>2, <2>1, DoorIs
<1>4. Idle(fd)
  BY <1>1, <1>2 DEF Closed, Idle
<1>5. /\ fd.phase = "ready" => clientDoc.v = 0
      /\ clientDoc.v = 0 => fd.queue \in Seq(Requested)
      /\ \A k \in DOMAIN fd.queue : fd.queue[k].m # "initialize"
  BY <1>1 DEF Closed
<1>6. armed \in BOOLEAN /\ (armed <=> fd.phase # "booting")
  BY <1>1 DEF IInv, Typed
<1> QED BY <1>1, <1>3, <1>4, <1>5, <1>6

(* A frame more is held by a closed front door, and what it is then.        *)
Holds(s, x) == s = [fd EXCEPT !.queue = enqueue(fd.queue, x)]
Held(s, x) ==
  /\ s.writes = <<>> /\ s.replies = <<>> /\ ~s.start /\ Fresh(s) = s /\ Idle(s)
  /\ s.phase = fd.phase /\ s.queue = enqueue(fd.queue, x)
  /\ clientDoc.v = 0 /\ x \in Requested => s.queue \in Seq(Requested)
  /\ \A k \in DOMAIN s.queue : s.queue[k].m # "initialize"
  /\ Takes(s.queue, <<>>, x)

(* A closed front door that holds one frame more stays as it is but for it. *)
LEMMA HoldsIs ==
  ASSUME IInv, fd.phase \in {"booting", "ready"}, NEW x \in Msgs, x.m # "initialize",
         NEW s, Holds(s, x)
  PROVE  Held(s, x)
<1>1. /\ Idle(fd) /\ fd.writes = <<>> /\ fd.replies = <<>> /\ ~fd.start /\ fd.queue \in Seq(Msgs)
      /\ clientDoc.v = 0 => fd.queue \in Seq(Requested)
      /\ \A k \in DOMAIN fd.queue : fd.queue[k].m # "initialize"
  BY ClosedIs
<1> DEFINE q == enqueue(fd.queue, x)
<1>2. PICK K \in SUBSET DOMAIN fd.queue :
        /\ q = Append(Picked(fd.queue, K), x)
        /\ Picked(fd.queue, K) \in Seq(Msgs)
        /\ \A i \in Ids : At(i, q) = At(i, fd.queue) + IF x.id = i THEN 1 ELSE 0
  BY <1>1, EnqueueIs
<1>3. clientDoc.v = 0 /\ x \in Requested => q \in Seq(Requested)
  BY <1>1, EnqueueRequest
<1> HIDE DEF q
<1> DEFINE p == Picked(fd.queue, K)
<1>4. q \in Seq(Msgs) /\ \A k \in DOMAIN q : q[k] = x \/ \E j \in DOMAIN fd.queue : q[k] = fd.queue[j]
  <2>1. p \in Seq(Msgs) /\ Picks(p, fd.queue, K)
    BY <1>1, PickedIs
  <2>2. q = Append(p, x)
    BY <1>2
  <2> HIDE DEF p
  <2>3. q \in Seq(Msgs) /\ Len(q) = Len(p) + 1 /\ q[Len(p) + 1] = x /\ \A k \in 1..Len(p) : q[k] = p[k]
    BY <2>1, <2>2, AppendProperties
  <2>4. DOMAIN p = 1..Len(p) /\ Len(p) \in Nat /\ DOMAIN q = 1..(Len(p) + 1)
    BY <2>1, <2>3, SeqIs
  <2>5. \A k \in DOMAIN p : \E j \in DOMAIN fd.queue : p[k] = fd.queue[j]
    BY <2>1 DEF Picks
  <2>6. ASSUME NEW k \in DOMAIN q PROVE k \in 1..Len(p) \/ k = Len(p) + 1
    BY <2>4
  <2> QED BY <2>3, <2>4, <2>5, <2>6
<1>5. \A k \in DOMAIN q : q[k].m # "initialize"
  BY <1>1, <1>4
<1>6. s = [fd EXCEPT !.queue = q]
  BY DEF q, Holds
<1>7. /\ s \in Doors /\ s.writes = <<>> /\ s.replies = <<>> /\ ~s.start /\ s.phase = fd.phase /\ s.queue = q
      /\ s.backlog = fd.backlog /\ s.ringBusy = fd.ringBusy /\ s.doc = fd.doc
      /\ s.progress = fd.progress /\ s.header = fd.header
  BY <1>1, <1>4, <1>6 DEF Idle, Doors
<1>8. Fresh(s) = s
  BY <1>7, DoorIs
<1>9. Takes(q, <<>>, x)
  <2>1. \A i \in Ids : At(i, <<>>) = 0 /\ At(i, fd.queue) \in Nat
    BY <1>1, AtNone, AtIs
  <2> QED BY <1>2, <2>1 DEF Takes
<1>10. Idle(s)
  BY <1>1, <1>7 DEF Idle
<1> QED BY <1>3, <1>5, <1>7, <1>8, <1>9, <1>10 DEF Held, q

(* A message held by a closed front door.                                   *)
LEMMA ClosedHolds ==
  ASSUME IInv, Kept, fd.phase \in {"booting", "ready"}, NEW x \in Msgs, x.m # "initialize",
         NEW s, Holds(s, x), Apply(s), UNCHANGED <<fw, stdout>>,
         clientDoc' \in [v : Nat, n : Nat], fd.phase = "ready" => clientDoc'.v = 0,
         clientDoc'.v = 0 => clientDoc.v = 0 /\ x \in Requested, Sends(x)
  PROVE  IInv' /\ Kept'
<1>1. Held(s, x)
  BY HoldsIs
<1>2. ~dead /\ armed \in BOOLEAN /\ (armed <=> fd.phase # "booting") /\ fd.queue \in Seq(Msgs)
  BY ClosedIs
<1>3. Answers(s.replies) /\ Write(s, fifo, ring) /\ UNCHANGED <<armed, dead>>
  BY <1>1 DEF Apply, Held
<1>4. s.writes = <<>> /\ s.replies \in Seq({x})
  BY <1>1, EmptySeq DEF Held
<1>5. Takes(Fresh(s).queue, s.replies, x)
  BY <1>1 DEF Held
<1>6. Shuts(Fresh(s), armed', clientDoc')
  <2>1. Fresh(s) = s
    BY <1>1 DEF Held
  <2>2. Shuts(s, armed', clientDoc')
    BY <1>1, <1>2, <1>3 DEF Held, Shuts
  <2> QED BY <2>1, <2>2
<1> QED BY <1>2, <1>3, <1>4, <1>5, <1>6, ClosedApplied

(* The client's opens and changes before the loop is open.                  *)
LEMMA ClientTextAtClosed ==
  ASSUME IInv, Kept, fd.phase \in {"booting", "ready"}, ClientOpens \/ ClientChanges
  PROVE  IInv' /\ Kept'
<1>1. /\ ~dead /\ Idle(fd) /\ Fresh(fd) = fd /\ fd.writes = <<>> /\ fd.replies = <<>> /\ ~fd.start
      /\ fd.queue \in Seq(Msgs) /\ Typed
      /\ fd.phase = "ready" => clientDoc.v = 0
      /\ clientDoc.v = 0 => fd.queue \in Seq(Requested)
      /\ armed \in BOOLEAN
      /\ armed <=> fd.phase # "booting"
  BY ClosedIs
<1>2. clientDoc.v \in Nat /\ clientDoc.n \in Nat /\ sent \in SUBSET Ids /\ answered \in [Ids -> Nat] /\ fd \in Doors
  BY <1>1 DEF Typed
<1>3. PICK m \in {"open", "change"}, cv \in Nat \ {0}, cn \in Nat :
        /\ \E s \in {client(fd, Message(m, cv, cn, NoId))} : Apply(s)
        /\ clientDoc' = [v |-> cv, n |-> cn]
        /\ m = "change" => clientDoc.v # 0
        /\ UNCHANGED <<fw, stdout, sent>>
  <2>1. CASE ClientOpens
    <3>1. 1 \in Nat \ {0} /\ clientDoc.n + 1 \in Nat
      BY <1>2
    <3> QED BY <2>1, <3>1 DEF ClientOpens, ClientSends
  <2>2. CASE ClientChanges
    <3>1. clientDoc.v + 1 \in Nat \ {0} /\ clientDoc.n + 1 \in Nat /\ (clientDoc.v > 0 => clientDoc.v # 0)
      BY <1>2
    <3> QED BY <2>2, <3>1 DEF ClientChanges, ClientSends
  <2> QED BY <2>1, <2>2
<1> DEFINE x == Message(m, cv, cn, NoId)
           s == client(fd, x)
<1>4. x \in Texts /\ x \in Msgs /\ x.m = m /\ x.v = cv /\ x.n = cn /\ x.id = NoId
  BY DEF Texts, Msgs, Message
<1>5. NoId \notin Ids
  BY HostAssumption
<1>6. Apply(s)
  BY <1>3
<1> HIDE DEF x, s
<1>7. s = admit(fd, x)
  BY <1>1 DEF s, client
<1>8. CASE fd.phase = "ready" /\ m = "open"
  <2>1. s = OpenLoop(fd, x)
    BY <1>4, <1>7, <1>8 DEF admit
  <2>2. Waits(fd, fd.queue)
    BY <1>1, <1>2, <1>8 DEF Waits, Idle
  <2>3. PICK r \in Seq(Requested) : Loops(OpenLoop(fd, x), x, r) /\ \A i \in Ids : At(i, r) = At(i, fd.queue)
    BY <1>1, <1>4, <2>2, OpenLoops
  <2>4. Loops(s, x, r)
    BY <2>1, <2>3
  <2>5. armed = TRUE
    BY <1>1, <1>8
  <2>6. CASE Opens(s) /\ Answers(s.replies) /\ Write(s, fifo, ring) /\ UNCHANGED <<armed, dead>>
    <3>1. /\ ~dead /\ armed' = TRUE /\ UNCHANGED <<dead, fw, stdout>>
          /\ clientDoc' = [v |-> x.v, n |-> x.n] /\ sent' = sent /\ x.m = "open"
          /\ Opens(s) /\ Answers(s.replies) /\ Write(s, fifo, ring)
      BY <1>1, <1>3, <1>4, <1>8, <2>5, <2>6
    <3> QED BY <1>4, <2>3, <2>4, <3>1, LoopStarts
  <2>7. CASE s.start /\ Die /\ UNCHANGED answered
    <3>1. /\ fd' = died(fd) /\ fifo' = <<>> /\ dead' = TRUE /\ armed' = TRUE
          /\ UNCHANGED <<ring, fw, stdout>>
      BY <1>3, <2>5, <2>7 DEF Die
    <3>2. clientDoc' \in [v : Nat, n : Nat] /\ sent' \in SUBSET Ids /\ answered' \in [Ids -> Nat] /\ Fresh(fd) \in Doors
      BY <1>1, <1>2, <1>3, <2>7
    <3> QED BY <3>1, <3>2, DeathIs
  <2> QED BY <1>6, <2>6, <2>7 DEF Apply
<1>9. CASE ~(fd.phase = "ready" /\ m = "open")
  <2>1. s = AdmitHeld(fd, x)
    BY <1>4, <1>7, <1>9 DEF admit
  <2>2. AdmitHeld(fd, x) = [fd EXCEPT !.queue = enqueue(fd.queue, x)]
    BY <1>4 DEF AdmitHeld, FailsFast, IsCompletion
  <2>3. Holds(s, x)
    BY <2>1, <2>2 DEF Holds
  <2>4. /\ clientDoc' \in [v : Nat, n : Nat] /\ clientDoc'.v # 0
        /\ fd.phase = "ready" => clientDoc'.v = 0
        /\ x.m # "initialize"
        /\ UNCHANGED <<fw, stdout>>
    BY <1>1, <1>2, <1>3, <1>4, <1>9
  <2>5. Sends(x)
    BY <1>2, <1>3, <1>4, <1>5 DEF Sends
  <2> QED BY <1>4, <1>6, <2>3, <2>4, <2>5, ClosedHolds
<1> QED BY <1>8, <1>9

(* A request before the loop is open is held; initialize is answered.       *)
LEMMA ClientRequestAtClosed ==
  ASSUME IInv, Kept, fd.phase \in {"booting", "ready"}, NEW j \in Ids,
         NEW m \in {"initialize", "request", "completion", "importCompletion"}, ClientRequests(j, m)
  PROVE  IInv' /\ Kept'
<1>1. /\ ~dead /\ Idle(fd) /\ Fresh(fd) = fd /\ fd.writes = <<>> /\ fd.replies = <<>> /\ ~fd.start
      /\ fd.queue \in Seq(Msgs) /\ Typed
      /\ fd.phase = "ready" => clientDoc.v = 0
      /\ clientDoc.v = 0 => fd.queue \in Seq(Requested)
      /\ \A k \in DOMAIN fd.queue : fd.queue[k].m # "initialize"
      /\ armed \in BOOLEAN
      /\ armed <=> fd.phase # "booting"
  BY ClosedIs
<1>2. clientDoc \in [v : Nat, n : Nat] /\ sent \in SUBSET Ids /\ fd \in Doors
  BY <1>1 DEF Typed
<1> DEFINE x == Message(m, 0, 0, j)
           s == client(fd, x)
<1>3. /\ Apply(s) /\ UNCHANGED <<fw, stdout, clientDoc>> /\ j \notin sent
      /\ sent' = sent \cup {j}
  BY DEF ClientRequests, ClientSends
<1>4. x.m = m /\ x.id = j /\ (m # "initialize" => x \in Requested)
  BY DEF Message, Requested
<1> HIDE DEF x, s
<1>5. s = AdmitHeld(fd, x)
  BY <1>1, <1>4 DEF s, client, admit
<1>6. Sends(x) /\ clientDoc' \in [v : Nat, n : Nat]
  BY <1>2, <1>3, <1>4 DEF Sends
<1>7. CASE m = "initialize"
  <2>1. s = [fd EXCEPT !.replies = <<x>>]
    BY <1>1, <1>4, <1>5, <1>7 DEF AdmitHeld, Reply
  <2>2. s.writes = <<>> /\ s.replies = <<x>> /\ ~s.start /\ Fresh(s) = fd
    BY <1>1, <1>2, <2>1 DEF Fresh, Doors
  <2>3. Answers(s.replies) /\ Write(s, fifo, ring) /\ UNCHANGED <<armed, dead>>
    BY <1>3, <2>2 DEF Apply
  <2>4. s.replies \in Seq({x})
    BY <2>2
  <2>5. Takes(Fresh(s).queue, s.replies, x)
    <3>1. \A i : At(i, <<x>>) = IF x.id = i THEN 1 ELSE 0
      BY AtOne
    <3> QED BY <2>2, <3>1 DEF Takes
  <2>6. Shuts(Fresh(s), armed', clientDoc')
    <3>1. Shuts(fd, armed', clientDoc')
      BY <1>1, <1>2, <1>3, <1>6, <2>3 DEF Shuts
    <3> QED BY <2>2, <3>1
  <2>7. UNCHANGED <<dead, fw, stdout>> /\ ~dead
    BY <1>1, <1>3, <2>3
  <2> QED BY <1>6, <2>2, <2>3, <2>4, <2>5, <2>6, <2>7, ClosedApplied
<1>8. CASE m # "initialize"
  <2>1. x \in Requested /\ x \in Msgs /\ x.m \notin {"initialize", "replayed", "open", "change"}
    BY <1>4, <1>8 DEF Msgs, Requested
  <2>2. ~FailsFast(fd, x)
    BY <1>1 DEF FailsFast, Idle
  <2>3. Holds(s, x)
    BY <1>5, <2>1, <2>2 DEF AdmitHeld, Holds
  <2>4. /\ fd.phase = "ready" => clientDoc'.v = 0
        /\ clientDoc'.v = 0 => clientDoc.v = 0 /\ x \in Requested
        /\ UNCHANGED <<fw, stdout>>
    BY <1>1, <1>3, <2>1
  <2> QED BY <1>3, <1>6, <2>1, <2>3, <2>4, ClosedHolds
<1> QED BY <1>7, <1>8

(* The client's actions once the session is dead.                           *)
LEMMA ClientAtDead ==
  ASSUME IInv, Kept, dead
  PROVE  /\ ClientOpens \/ ClientChanges => IInv' /\ Kept'
         /\ \A i \in Ids, m \in {"initialize", "request", "completion", "importCompletion"} :
              ClientRequests(i, m) => IInv' /\ Kept'
<1>1. /\ fd.phase = "dead" /\ Typed /\ fd \in Doors /\ clientDoc \in [v : Nat, n : Nat] /\ sent \in SUBSET Ids
  BY DEF IInv, Typed
<1>2. Fresh(fd) = fd /\ fd.writes = <<>> /\ fd.replies = <<>> /\ ~fd.start
  BY <1>1, DoorIs
<1>3. ASSUME NEW x, x.m \in {"open", "change", "initialize", "request", "completion", "importCompletion"},
             NEW s, s = client(fd, x), Apply(s), UNCHANGED <<fw, stdout>>,
             clientDoc' \in [v : Nat, n : Nat], sent' \in SUBSET Ids
      PROVE  IInv' /\ Kept'
  <2>1. client(fd, x) = AdmitHeld(fd, x)
    BY <1>1, <1>2 DEF client, admit
  <2>2. AdmitHeld(fd, x) = Reply(fd, x) \/ AdmitHeld(fd, x) = fd
    BY <1>1 DEF AdmitHeld
  <2>3. CASE s = fd
    <3>1. s.replies \in Seq({x})
      BY <1>2, <2>3, EmptySeq
    <3> QED BY <1>2, <1>3, <2>3, <3>1, DeadApplied
  <2>4. CASE s = Reply(fd, x)
    <3>1. s = [fd EXCEPT !.replies = <<x>>]
      BY <1>2, <2>4 DEF Reply
    <3>2. s.writes = <<>> /\ s.replies = <<x>> /\ ~s.start /\ Fresh(s) = fd
      BY <1>1, <1>2, <3>1 DEF Fresh, Doors
    <3>3. s.replies \in Seq({x})
      BY <3>2
    <3> QED BY <1>3, <3>2, <3>3, DeadApplied
  <2> QED BY <1>3, <2>1, <2>2, <2>3, <2>4
<1>4. ASSUME ClientOpens PROVE IInv' /\ Kept'
  <2> DEFINE x == Message("open", 1, clientDoc.n + 1, NoId)
             s == client(fd, x)
  <2>1. Apply(s) /\ UNCHANGED <<fw, stdout>> /\ clientDoc' \in [v : Nat, n : Nat] /\ sent' \in SUBSET Ids
    BY <1>1, <1>4 DEF ClientOpens, ClientSends
  <2>2. x.m = "open"
    BY DEF Message
  <2> HIDE DEF x
  <2>3. s = client(fd, x)
    OBVIOUS
  <2> HIDE DEF s
  <2> QED BY <1>3, <2>1, <2>2, <2>3
<1>5. ASSUME ClientChanges PROVE IInv' /\ Kept'
  <2> DEFINE x == Message("change", clientDoc.v + 1, clientDoc.n + 1, NoId)
             s == client(fd, x)
  <2>1. Apply(s) /\ UNCHANGED <<fw, stdout>> /\ clientDoc' \in [v : Nat, n : Nat] /\ sent' \in SUBSET Ids
    BY <1>1, <1>5 DEF ClientChanges, ClientSends
  <2>2. x.m = "change"
    BY DEF Message
  <2> HIDE DEF x
  <2>3. s = client(fd, x)
    OBVIOUS
  <2> HIDE DEF s
  <2> QED BY <1>3, <2>1, <2>2, <2>3
<1>6. ASSUME NEW i \in Ids, NEW m \in {"initialize", "request", "completion", "importCompletion"},
             ClientRequests(i, m)
      PROVE  IInv' /\ Kept'
  <2> DEFINE x == Message(m, 0, 0, i)
             s == client(fd, x)
  <2>1. Apply(s) /\ UNCHANGED <<fw, stdout>> /\ clientDoc' \in [v : Nat, n : Nat] /\ sent' \in SUBSET Ids
    BY <1>1, <1>6 DEF ClientRequests, ClientSends
  <2>2. x.m = m
    BY DEF Message
  <2> HIDE DEF x
  <2>3. s = client(fd, x)
    OBVIOUS
  <2> HIDE DEF s
  <2> QED BY <1>3, <2>1, <2>2, <2>3
<1> QED BY <1>4, <1>5, <1>6

(* The boot ends: what waited goes through the machine again, in order.     *)
LEMMA BootedDrains ==
  ASSUME NEW d, Idle(d), d.phase = "booting"
  PROVE  \E f : /\ Waits(f[0], <<>>)
                /\ \A k \in 1..Len(d.queue) : f[k] = admit(f[k - 1], d.queue[k])
                /\ booted(d) = f[Len(d.queue)]
<1>1. d \in Doors /\ d.backlog = <<>> /\ ~d.ringBusy /\ d.doc = 0 /\ d.progress = NoProgress /\ d.header = "none"
  BY DEF Idle
<1> DEFINE t == [d EXCEPT !.phase = "ready"]
           u == [d EXCEPT !.phase = "ready", !.queue = <<>>]
<1>2. booted(d) = drain(t)
  BY <1>1, DoorIs DEF booted
<1>3. t.queue = d.queue /\ [t EXCEPT !.queue = <<>>] = u
  BY <1>1 DEF Doors
<1>4. d.queue \in Seq(Msgs) /\ Len(d.queue) \in Nat
  BY <1>1, SeqIs DEF Doors
<1>5. /\ u \in Doors /\ u.phase = "ready" /\ u.backlog = <<>> /\ ~u.ringBusy
      /\ u.doc = 0 /\ u.progress = NoProgress /\ u.header = "none" /\ u.queue = <<>>
  <2>1. <<>> \in Seq(Msgs)
    BY EmptySeq
  <2> QED BY <1>1, <2>1 DEF Doors
<1> HIDE DEF t, u
<1>6. Waits(u, <<>>)
  <2>1. <<>> \in Seq(Requested)
    BY EmptySeq
  <2> QED BY <1>5, <2>1 DEF Waits
<1>7. PICK f : /\ f[0] = [t EXCEPT !.queue = <<>>]
               /\ \A k \in 1..Len(t.queue) : f[k] = admit(f[k - 1], t.queue[k])
               /\ drain(t) = f[Len(t.queue)]
  BY <1>3, <1>4, DrainIs
<1> QED BY <1>2, <1>3, <1>6, <1>7

(* With no text among what waited, the machine waits for one.               *)
LEMMA BootedWaits ==
  ASSUME NEW d, Idle(d), d.phase = "booting", d.queue \in Seq(Requested)
  PROVE  Waits(booted(d), d.queue)
<1> DEFINE q == d.queue
<1>1. PICK f : /\ Waits(f[0], <<>>)
               /\ \A k \in 1..Len(q) : f[k] = admit(f[k - 1], q[k])
               /\ booted(d) = f[Len(q)]
  BY BootedDrains
<1>2. q \in Seq(Msgs) /\ Len(q) \in 0..Len(q) /\ \A k \in 1..Len(q) : q[k] \in Requested
  <2>1. q \in Seq(Msgs)
    BY SeqMonotonic DEF Msgs
  <2> QED BY <2>1, SeqIs
<1>3. SubSeq(q, 1, Len(q)) = q
  BY PrefixIs
<1> HIDE DEF q
<1>4. Waits(f[Len(q)], SubSeq(q, 1, Len(q)))
  BY <1>1, <1>2, DrainWaits
<1> QED BY <1>1, <1>3, <1>4 DEF q

(* With the client's document last, the loop opens on it.                   *)
LEMMA BootedOpens ==
  ASSUME NEW d, Idle(d), d.phase = "booting", NEW p \in Seq(Requested), NEW x \in Texts, x.m = "open",
         d.queue = Append(p, x)
  PROVE  \E r \in Seq(Requested) : Loops(booted(d), x, r) /\ \A i \in Ids : At(i, r) = At(i, p)
<1> DEFINE q == d.queue
           m == Len(p)
<1>1. PICK f : /\ Waits(f[0], <<>>)
               /\ \A k \in 1..Len(q) : f[k] = admit(f[k - 1], q[k])
               /\ booted(d) = f[Len(q)]
  BY BootedDrains
<1>2. p \in Seq(Msgs) /\ x \in Msgs /\ m \in Nat /\ \A k \in 1..m : p[k] \in Requested
  <2>1. p \in Seq(Msgs)
    BY SeqMonotonic DEF Msgs
  <2> QED BY <2>1, SeqIs DEF Msgs
<1>3. Len(q) = m + 1 /\ q[m + 1] = x /\ \A k \in 1..m : q[k] = p[k]
  BY <1>2, AppendProperties
<1>4. m \in 0..Len(p) /\ SubSeq(p, 1, m) = p
  BY <1>2, PrefixIs
<1> HIDE DEF q, m
<1>5. \A k \in 1..m : f[k] = admit(f[k - 1], p[k]) /\ p[k] \in Requested
  <2>1. \A k \in 1..m : k \in 1..(m + 1)
    BY <1>2
  <2> QED BY <1>1, <1>2, <1>3, <2>1
<1>6. Waits(f[m], p)
  <2>1. Waits(f[m], SubSeq(p, 1, m))
    BY <1>1, <1>2, <1>4, <1>5, DrainWaits
  <2> QED BY <1>4, <2>1
<1>7. f[m + 1] = OpenLoop(f[m], x)
  <2>1. m + 1 \in 1..(m + 1) /\ (m + 1) - 1 = m
    BY <1>2
  <2>2. f[m + 1] = admit(f[m], x)
    BY <1>1, <1>3, <2>1
  <2>3. f[m].phase = "ready"
    BY <1>6 DEF Waits
  <2> QED BY <2>2, <2>3 DEF admit
<1>8. \E r \in Seq(Requested) : Loops(OpenLoop(f[m], x), x, r) /\ \A i \in Ids : At(i, r) = At(i, p)
  BY <1>2, <1>6, OpenLoops
<1> QED BY <1>1, <1>3, <1>7, <1>8

(* What the closed front door holds besides a text it is given.             *)
LEMMA HeldBehind ==
  ASSUME IInv, fd.phase \in {"booting", "ready"}, NEW x \in Texts, x.m = "open"
  PROVE  \E p \in Seq(Requested) : /\ enqueue(fd.queue, x) = Append(p, x)
                                   /\ \A i \in Ids : At(i, p) = At(i, fd.queue)
<1> DEFINE q == fd.queue
<1>1. q \in Seq(Msgs) /\ \A k \in DOMAIN q : q[k].m # "initialize"
  BY ClosedIs
<1>2. x \in Msgs /\ x.id = NoId
  BY DEF Msgs, Texts
<1> HIDE DEF q
<1>3. PICK K \in SUBSET DOMAIN q :
        /\ enqueue(q, x) = Append(Picked(q, K), x)
        /\ Picked(q, K) \in Seq(Msgs)
        /\ \A i \in Ids : At(i, enqueue(q, x)) = At(i, q) + IF x.id = i THEN 1 ELSE 0
        /\ \A k \in K : q[k].m \notin Superseded(x)
  BY <1>1, <1>2, EnqueueIs
<1> DEFINE p == Picked(q, K)
<1>4. Picks(p, q, K)
  BY <1>1, PickedIs
<1>5. p \in Seq(Msgs) /\ enqueue(q, x) = Append(p, x)
  BY <1>3
<1> HIDE DEF p
<1>6. PICK g \in [DOMAIN p -> K] : \A k \in DOMAIN p : p[k] = q[g[k]]
  BY <1>4 DEF Picks
<1>7. \A k \in DOMAIN p : p[k] \in Requested
  <2>1. SUFFICES ASSUME NEW k \in DOMAIN p PROVE p[k] \in Requested
    OBVIOUS
  <2>2. g[k] \in K /\ g[k] \in DOMAIN q /\ p[k] = q[g[k]]
    BY <1>6
  <2>3. p[k].m \notin {"open", "change", "initialize"}
    <3>1. Superseded(x) = {"change", "open"}
      BY DEF Superseded
    <3> QED BY <1>1, <1>3, <2>2, <3>1
  <2>4. p[k] \in Msgs
    BY <1>5, SeqIs
  <2> QED BY <2>3, <2>4 DEF Msgs, Texts, Initialize, Message
<1>8. p \in Seq(Requested)
  BY <1>5, <1>7, SeqIs, SeqDef
<1>9. \A i \in Ids : At(i, p) = At(i, q)
  <2>1. SUFFICES ASSUME NEW i \in Ids PROVE At(i, p) = At(i, q)
    OBVIOUS
  <2>2. x.id # i
    BY <1>2, HostAssumption
  <2>3. At(i, Append(p, x)) = At(i, p) + IF x.id = i THEN 1 ELSE 0
    BY <1>2, <1>5, AtAppend
  <2>4. At(i, enqueue(q, x)) = At(i, q) + IF x.id = i THEN 1 ELSE 0
    BY <1>3
  <2>5. At(i, p) \in Nat /\ At(i, q) \in Nat
    BY <1>1, <1>5, AtIs
  <2> QED BY <1>5, <2>2, <2>3, <2>4, <2>5
<1> QED BY <1>5, <1>8, <1>9 DEF q

(* The relay's replay and the arm.                                          *)
LEMMA ArmStep ==
  ASSUME IInv, Kept, Arm PROVE IInv' /\ Kept'
<1>1. ~armed /\ ~dead /\ armed' = TRUE /\ UNCHANGED <<fw, stdout, clientDoc, sent>>
  BY DEF Arm, clientVars
<1>2. fd.phase = "booting" /\ Typed
  <2>1. fd.phase = "booting"
    BY <1>1 DEF IInv
  <2> QED BY <2>1 DEF IInv
<1>3. /\ Idle(fd) /\ Fresh(fd) = fd /\ fd.writes = <<>> /\ fd.replies = <<>> /\ ~fd.start
      /\ fd.queue \in Seq(Msgs)
      /\ clientDoc.v = 0 => fd.queue \in Seq(Requested)
  BY <1>2, ClosedIs
<1>4. clientDoc \in [v : Nat, n : Nat] /\ sent \in SUBSET Ids /\ answered \in [Ids -> Nat] /\ fd \in Doors
  BY <1>2 DEF Typed
<1>5. client(fd, Message("replayed", 0, 0, NoId)) = fd
  <2> DEFINE y == Message("replayed", 0, 0, NoId)
  <2>1. y.m = "replayed"
    BY DEF Message
  <2> HIDE DEF y
  <2>2. client(fd, y) = AdmitHeld(fd, y)
    BY <1>2, <1>3, <2>1 DEF client, admit
  <2>3. AdmitHeld(fd, y) = fd
    BY <2>1 DEF AdmitHeld
  <2> QED BY <2>2, <2>3 DEF y
<1> DEFINE s == booted(Replayed(fd))
<1>6. \/ Opens(s) /\ Answers(s.replies) /\ Write(s, fifo, ring) /\ UNCHANGED dead
      \/ /\ s.start
         /\ dead' = TRUE /\ fd' = died(s) /\ fifo' = <<>>
         /\ UNCHANGED <<ring, answered>>
  BY <1>5 DEF Arm
<1>7. CASE clientDoc.v = 0
  <2>1. s = booted(fd)
    BY <1>7 DEF Replayed
  <2>2. fd.queue \in Seq(Requested)
    BY <1>3, <1>7
  <2>3. Waits(booted(fd), fd.queue)
    BY <1>2, <1>3, <2>2, BootedWaits
  <2> HIDE DEF s
  <2>4. /\ s \in Doors /\ s.phase = "ready" /\ s.backlog = <<>> /\ ~s.ringBusy
        /\ s.doc = 0 /\ s.progress = NoProgress /\ s.header = "none"
        /\ s.queue \in Seq(Requested)
        /\ \A i \in Ids : At(i, s.queue) = At(i, fd.queue)
    BY <2>1, <2>3 DEF Waits
  <2>5. s.writes = <<>> /\ s.replies = <<>> /\ ~s.start /\ Fresh(s) = s
    BY <2>4, DoorIs
  <2>6. Answers(s.replies) /\ Write(s, fifo, ring) /\ UNCHANGED <<dead, fw, stdout>>
    BY <1>1, <1>6, <2>5
  <2>7. Idle(s)
    BY <2>4 DEF Idle
  <2>8. \A k \in DOMAIN s.queue : s.queue[k].m # "initialize"
    <3>1. \A k \in DOMAIN s.queue : s.queue[k] \in Requested
      BY <2>4, SeqIs
    <3> QED BY <3>1 DEF Requested
  <2>9. Shuts(Fresh(s), armed', clientDoc')
    <3>1. Shuts(s, armed', clientDoc')
      BY <1>1, <1>4, <1>7, <2>4, <2>7, <2>8 DEF Shuts
    <3> QED BY <2>5, <3>1
  <2> DEFINE x == Initialize
  <2>10. \A i \in Ids : x.id # i
    BY HostAssumption DEF Initialize, Message
  <2> HIDE DEF x
  <2>11. Sends(x)
    BY <1>1, <1>4, <2>10 DEF Sends
  <2>12. Takes(Fresh(s).queue, s.replies, x)
    <3>1. \A i \in Ids : At(i, <<>>) = 0 /\ At(i, fd.queue) \in Nat
      BY <1>3, AtNone, AtIs
    <3> QED BY <2>4, <2>5, <2>10, <3>1 DEF Takes
  <2>13. s.replies \in Seq({x})
    BY <2>5, EmptySeq
  <2>14. ~dead /\ fd.phase \in {"booting", "ready"}
    BY <1>1, <1>2
  <2> QED BY <2>5, <2>6, <2>9, <2>11, <2>12, <2>13, <2>14, ClosedApplied
<1>8. CASE clientDoc.v # 0
  <2> DEFINE x == Message("open", clientDoc.v, clientDoc.n, NoId)
             d == client(fd, x)
  <2>1. x \in Texts /\ x.m = "open" /\ x.v = clientDoc.v /\ x.n = clientDoc.n
    BY <1>4, <1>8 DEF Texts, Message
  <2>2. s = booted(d)
    BY <1>8 DEF Replayed
  <2> HIDE DEF x
  <2>3. d = AdmitHeld(fd, x)
    BY <1>2, <1>3 DEF client, admit
  <2> HIDE DEF d, s
  <2>4. Holds(d, x)
    BY <1>2, <2>1, <2>3 DEF AdmitHeld, Holds, FailsFast, IsCompletion
  <2>5. x \in Msgs /\ x.m # "initialize" /\ fd.phase \in {"booting", "ready"}
    BY <1>2, <2>1 DEF Msgs
  <2>6. Held(d, x)
    BY <2>4, <2>5, HoldsIs
  <2>7. Idle(d) /\ d.phase = "booting" /\ d.queue = enqueue(fd.queue, x)
    BY <1>2, <2>6 DEF Held
  <2>8. PICK p \in Seq(Requested) : /\ enqueue(fd.queue, x) = Append(p, x)
                                    /\ \A i \in Ids : At(i, p) = At(i, fd.queue)
    BY <2>1, <2>5, HeldBehind
  <2>9. d.queue = Append(p, x)
    BY <2>7, <2>8
  <2>10. PICK r \in Seq(Requested) : Loops(booted(d), x, r) /\ \A i \in Ids : At(i, r) = At(i, p)
    BY <2>1, <2>7, <2>9, BootedOpens
  <2>11. Loops(s, x, r) /\ \A i \in Ids : At(i, r) = At(i, fd.queue)
    BY <2>2, <2>8, <2>10
  <2>12. clientDoc' = [v |-> x.v, n |-> x.n] /\ UNCHANGED <<fw, stdout, sent>>
    BY <1>1, <1>4, <2>1
  <2>13. CASE Opens(s) /\ Answers(s.replies) /\ Write(s, fifo, ring) /\ UNCHANGED dead
    BY <1>1, <2>1, <2>5, <2>11, <2>12, <2>13, LoopStarts
  <2>14. CASE /\ s.start
              /\ dead' = TRUE /\ fd' = died(s) /\ fifo' = <<>>
              /\ UNCHANGED <<ring, answered>>
    <3>1. s \in Steps
      BY <2>11 DEF Loops
    <3>2. Fresh(s) \in Doors
      BY <3>1, FreshIs
    <3>3. clientDoc' \in [v : Nat, n : Nat] /\ sent' \in SUBSET Ids /\ answered' \in [Ids -> Nat]
      BY <1>1, <1>4, <2>14
    <3> QED BY <1>1, <2>14, <3>2, <3>3, DeathIs
  <2> QED BY <1>6, <2>13, <2>14
<1> QED BY <1>7, <1>8

(* The invariant holds at first.                                            *)
LEMMA HostInit == Init => IInv /\ Kept
<1> SUFFICES ASSUME Init PROVE IInv /\ Kept
  OBVIOUS
<1>1. /\ fd = initialState /\ fifo = <<>> /\ ring = <<>> /\ armed = FALSE /\ dead = FALSE
      /\ fw = [at |-> "start", v |-> 0, n |-> 0, headed |-> FALSE, held |-> {}]
      /\ stdout = Silent /\ sent = {} /\ answered = [i \in Ids |-> 0]
  BY DEF Init
<1>2. clientDoc \in [v : Nat, n : Nat]
  BY DEF Init, NoDoc
<1>3. <<>> \in Seq(Msgs) /\ <<>> \in Seq(Requested) /\ Len(<<>>) = 0 /\ DOMAIN <<>> = {}
  BY EmptySeq
<1>4. fd \in Doors
  BY <1>1, <1>3 DEF initialState, Doors, NoProgress
<1>5. /\ fd.phase = "booting" /\ fd.queue = <<>> /\ fd.backlog = <<>> /\ ~fd.ringBusy
      /\ fd.doc = 0 /\ fd.progress = NoProgress /\ fd.header = "none"
  BY <1>1 DEF initialState
<1>6. fw \in Workers /\ fw.at = "start" /\ fw.v = 0 /\ fw.held = {}
  BY <1>1 DEF Workers
<1>7. Typed
  <2>1. answered \in [Ids -> Nat] /\ 0 <= RingCap
    BY <1>1, HostAssumption
  <2> QED BY <1>1, <1>2, <1>3, <1>4, <1>6, <2>1 DEF Typed
<1>8. Closed
  BY <1>1, <1>3, <1>5, <1>6 DEF Closed
<1>9. IInv
  BY <1>1, <1>5, <1>6, <1>7, <1>8 DEF IInv
<1>10. Kept
  <2>1. SUFFICES ASSUME NEW i \in Ids PROVE Tally(i) = 0
    BY <1>1 DEF Kept
  <2>2. At(i, <<>>) = 0 /\ stdout.id # i
    BY <1>1, AtNone, HostAssumption DEF Silent
  <2>3. AtDoor(i) = 0 /\ OnWay(i) = 0 /\ There(i) = 0 /\ answered[i] = 0
    BY <1>1, <1>5, <1>6, <2>2 DEF AtDoor, OnWay, There
  <2> QED BY <2>3 DEF Tally
<1> QED BY <1>9, <1>10

(* Every step of the host, the page and the FileWorker keeps it.            *)
LEMMA HostStep == IInv /\ Kept /\ [Next]_vars => IInv' /\ Kept'
<1> SUFFICES ASSUME IInv, Kept, [Next]_vars PROVE IInv' /\ Kept'
  OBVIOUS
<1> DEFINE Kinds == {"initialize", "request", "completion", "importCompletion"}
<1>1. fd.phase \in {"booting", "ready", "open", "dead"}
  BY DEF IInv, Typed, Doors
<1>2. CASE ClientOpens \/ ClientChanges
  <2>1. CASE fd.phase = "open"
    BY <1>2, <2>1, ClientAtOpen
  <2>2. CASE fd.phase \in {"booting", "ready"}
    BY <1>2, <2>2, ClientTextAtClosed
  <2>3. CASE fd.phase = "dead"
    <3>1. dead
      BY <2>3 DEF IInv
    <3> QED BY <1>2, <3>1, ClientAtDead
  <2> QED BY <1>1, <2>1, <2>2, <2>3
<1>3. ASSUME NEW i \in Ids, NEW m \in Kinds, ClientRequests(i, m) PROVE IInv' /\ Kept'
  <2>1. CASE fd.phase = "open"
    BY <1>3, <2>1, ClientAtOpen
  <2>2. CASE fd.phase \in {"booting", "ready"}
    BY <1>3, <2>2, ClientRequestAtClosed
  <2>3. CASE fd.phase = "dead"
    <3>1. dead
      BY <2>3 DEF IInv
    <3> QED BY <1>3, <3>1, ClientAtDead
  <2> QED BY <1>1, <2>1, <2>2, <2>3
<1>4. CASE Arm
  BY <1>4, ArmStep
<1>5. CASE PumpTimer
  BY <1>5, PumpStep
<1>6. CASE HostReads
  BY <1>6, HostReadsStep
<1>7. CASE WorkerDies
  BY <1>7, WorkerDiesStep
<1>8. CASE FwReads
  BY <1>8, ReadStep
<1>9. CASE FwHeader \/ FwProgress \/ FwDrains \/ FwPublishes \/ FwAnswers
  BY <1>9, FwStep
<1>10. CASE UNCHANGED vars
  <2>1. UNCHANGED <<fd, fifo, ring, armed, dead, fw, stdout, clientDoc, sent, answered>>
    BY <1>10 DEF vars, hostVars, clientVars
  <2>2. IInv'
    BY <2>1 DEF IInv, Typed, Closed, Running, Said
  <2>3. Kept'
    BY <2>1 DEF Kept, Tally, AtDoor, OnWay, There
  <2> QED BY <2>2, <2>3
<1> QED BY <1>2, <1>3, <1>4, <1>5, <1>6, <1>7, <1>8, <1>9, <1>10 DEF Next, FileWorker

(* In every reachable state: the types; a closed front door has written     *)
(* nothing; behind an open one the frames still to be read rise in version  *)
(* up to the newest text; a request of a live session is in one place.      *)
THEOREM HostInvariant == Spec => [](IInv /\ Kept)
BY HostInit, HostStep, PTL DEF Spec

(* When the opening text is never one the ring refuses (onAction's start    *)
(* and residentRingWrite()), the FileWorker reads initialize, then didOpen, *)
(* and after them only requests and changes whose versions rise.            *)
THEOREM HostKeepsUp == ASSUME OpensFit PROVE Spec => []WorkerKeepsUp
<1>1. IInv => WorkerKeepsUp
  BY DEF IInv, WorkerKeepsUp
<1> QED BY <1>1, HostInvariant, PTL

(* Under the same condition no request is lost or doubled while the session *)
(* lives: in the held queue, the backlog, the FIFO, the ring, at the        *)
(* FileWorker, in its answer, or replied once.                              *)
THEOREM HostKeepsRequests == ASSUME OpensFit PROVE Spec => []RequestsKept
<1>1. IInv /\ Kept => RequestsKept
  <2>1. SUFFICES ASSUME IInv, Kept, ~dead, NEW i \in sent
                 PROVE  At(i, fd.queue) + At(i, fd.backlog) + At(i, fifo) + At(i, ring)
                          + (IF i \in fw.held THEN 1 ELSE 0) + (IF stdout.id = i THEN 1 ELSE 0)
                          + answered[i] = 1
    BY DEF RequestsKept
  <2>2. Typed /\ i \in Ids
    <3>1. sent \in SUBSET Ids
      BY <2>1 DEF IInv, Typed
    <3> QED BY <2>1, <3>1 DEF IInv
  <2>3. Tally(i) = 1
    BY <2>1, <2>2 DEF Kept
  <2> DEFINE a == At(i, fd.queue)
             b == At(i, fd.backlog)
             c == At(i, fifo)
             d == At(i, ring)
             e == IF i \in fw.held THEN 1 ELSE 0
             f == IF stdout.id = i THEN 1 ELSE 0
             g == answered[i]
  <2>4. a \in Int /\ b \in Int /\ c \in Int /\ d \in Int /\ e \in Int /\ f \in Int /\ g \in Int
    <3>1. /\ fd.queue \in Seq(Msgs) /\ fd.backlog \in Seq(Msgs) /\ fifo \in Seq(Msgs)
          /\ ring \in Seq(Msgs) /\ answered[i] \in Nat
      BY <2>2 DEF Typed, Doors
    <3> QED BY <3>1, AtIs
  <2>5. (a + b) + (d + c) + (e + f) + g = 1
    BY <2>3 DEF Tally, AtDoor, OnWay, There
  <2> HIDE DEF a, b, c, d, e, f, g
  <2>6. a + b + c + d + e + f + g = 1
    BY <2>4, <2>5
  <2> QED BY <2>6 DEF a, b, c, d, e, f, g
<1> QED BY <1>1, HostInvariant, PTL

(* `ready` is shown only for the client's newest text, checked and accepted,*)
(* with no text on its way, whatever the ring refuses.                      *)
THEOREM HostReadyIsNewest == Spec => []ReadyIsNewest
<1>1. IInv => ReadyIsNewest
  <2>1. SUFFICES ASSUME IInv, phaseOf(fd) = "ready"
                 PROVE  /\ fw.n = clientDoc.n
                        /\ fw.n \notin RefusedTexts
                        /\ \A q \in {fd.queue, fd.backlog, fifo, ring} :
                             \A k \in DOMAIN q : q[k].m \notin {"open", "change"}
    BY DEF ReadyIsNewest
  <2>2. Typed /\ fd \in Doors /\ fw \in Workers
    BY <2>1 DEF IInv, Typed
  <2>3. /\ fd.phase \notin {"dead", "booting", "ready"} /\ fd.progress # NoProgress
        /\ Elaborated(fd) /\ fd.progress.at # "fatal"
    BY <2>1 DEF phaseOf
  <2>4. fd.phase = "open" /\ fd.progress.at = "drained" /\ fd.progress.version = fd.lastVersion
    BY <2>2, <2>3 DEF Elaborated, Doors
  <2>5. Running
    BY <2>1, <2>4 DEF IInv
  <2>6. PICK n \in Nat : Said(fd.lastVersion, n, "drained")
    BY <2>3, <2>4, <2>5 DEF Running
  <2>7. /\ fd.queue = <<>>
        /\ Flow(ring \o fifo, fd.backlog, fw.at, fw.v, fw.n, fd.lastVersion, clientDoc.n)
    BY <2>5 DEF Running
  <2>8. /\ fw.v <= fd.lastVersion /\ (fw.v = fd.lastVersion => fw.n = clientDoc.n)
        /\ Dated(ring \o fifo, fw.v, fd.lastVersion, clientDoc.n)
        /\ Dated(fd.backlog, fw.v, fd.lastVersion, clientDoc.n)
    BY <2>7 DEF Flow
  <2>9. fw.v = fd.lastVersion /\ n = fw.n /\ n \notin RefusedTexts
    <3>1. fd.lastVersion <= fw.v /\ fw.v \in Int /\ fd.lastVersion \in Int
      BY <2>2, <2>6 DEF Said, Doors, Workers
    <3> QED BY <2>6, <2>8, <3>1 DEF Said
  <2>10. ring \in Seq(Msgs) /\ fifo \in Seq(Msgs) /\ fd.backlog \in Seq(Msgs)
    BY <2>2 DEF Typed, Doors
  <2>11. ASSUME NEW q \in Seq(Msgs), Dated(q, fw.v, fd.lastVersion, clientDoc.n)
         PROVE  \A k \in DOMAIN q : q[k].m \notin {"open", "change"}
    <3>1. SUFFICES ASSUME NEW k \in DOMAIN q PROVE q[k].m \notin {"open", "change"}
      OBVIOUS
    <3>2. q[k] \in Msgs
      BY SeqIs
    <3>3. q[k].v \in Int /\ (q[k].m \in {"open", "change"} => q[k].v # 0)
      BY <3>2 DEF Msgs, Requested, Texts, Initialize, Message
    <3>4. fd.lastVersion \in Int
      BY <2>2 DEF Doors
    <3>5. ~(fw.v < q[k].v /\ q[k].v <= fd.lastVersion)
      BY <2>9, <3>3, <3>4
    <3> QED BY <2>11, <3>3, <3>5 DEF Dated
  <2>12. \A k \in DOMAIN fd.backlog : fd.backlog[k].m \notin {"open", "change"}
    BY <2>8, <2>10, <2>11
  <2>13. \A k \in DOMAIN (ring \o fifo) : (ring \o fifo)[k].m \notin {"open", "change"}
    <3>1. ring \o fifo \in Seq(Msgs)
      BY <2>10, ConcatProperties
    <3> QED BY <2>8, <2>11, <3>1
  <2>14. /\ \A k \in DOMAIN ring : ring[k].m \notin {"open", "change"}
         /\ \A k \in DOMAIN fifo : fifo[k].m \notin {"open", "change"}
    <3> DEFINE line == ring \o fifo
    <3>1. /\ Len(ring) \in Nat /\ Len(fifo) \in Nat
          /\ DOMAIN ring = 1..Len(ring) /\ DOMAIN fifo = 1..Len(fifo)
      BY <2>10, SeqIs
    <3>2. DOMAIN line = 1..(Len(ring) + Len(fifo))
      BY <2>10, <3>1, ConcatProperties, SeqIs
    <3>3. \A i \in 1..(Len(ring) + Len(fifo)) : line[i] = IF i <= Len(ring) THEN ring[i] ELSE fifo[i - Len(ring)]
      BY <2>10, ConcatProperties
    <3>4. \A k \in DOMAIN line : line[k].m \notin {"open", "change"}
      BY <2>13
    <3> HIDE DEF line
    <3>5. ASSUME NEW k \in DOMAIN ring PROVE k \in DOMAIN line /\ line[k] = ring[k]
      <4>1. k \in 1..(Len(ring) + Len(fifo)) /\ k <= Len(ring)
        BY <3>1
      <4> QED BY <3>2, <3>3, <4>1
    <3>6. ASSUME NEW k \in DOMAIN fifo
          PROVE  k + Len(ring) \in DOMAIN line /\ line[k + Len(ring)] = fifo[k]
      <4>1. /\ k + Len(ring) \in 1..(Len(ring) + Len(fifo)) /\ ~(k + Len(ring) <= Len(ring))
            /\ (k + Len(ring)) - Len(ring) = k
        BY <3>1
      <4> QED BY <3>2, <3>3, <4>1
    <3> QED BY <3>4, <3>5, <3>6
  <2> QED BY <2>6, <2>7, <2>8, <2>9, <2>12, <2>14
<1> QED BY <1>1, HostInvariant, PTL

(* Diagnostics are shown under their own text's version or an older one.    *)
THEOREM HostShownForTheirText == Spec => ShownForTheirText
<1> DEFINE Shows == shown' # shown =>
                      /\ shown'.v <= clientDoc.v
                      /\ shown'.v = clientDoc.v => shown'.n = clientDoc.n
<1>1. IInv /\ [Next]_vars => [Shows]_vars
  <2>1. SUFFICES ASSUME IInv, [Next]_vars, shown' # shown
                 PROVE  /\ shown'.v <= clientDoc.v
                        /\ shown'.v = clientDoc.v => shown'.n = clientDoc.n
    OBVIOUS
  <2>2. HostReads
    BY <2>1 DEF Next, ClientOpens, ClientChanges, ClientRequests, ClientSends, Arm, PumpTimer,
                WorkerDies, FileWorker, FwReads, FwHeader, FwProgress, FwDrains, FwPublishes,
                FwAnswers, FwWrites, vars
  <2>3. /\ stdout # Silent /\ ~dead /\ stdout.m = "diagnostics"
        /\ shown' = [v |-> server(fd, stdout).replies[1].v, n |-> stdout.n]
    BY <2>1, <2>2 DEF HostReads
  <2>4. fd \in Doors /\ stdout \in Says \cup Tells
    BY <2>1, <2>3 DEF IInv, Typed
  <2> DEFINE y == shiftVersions(stdout, -fd.base)
  <2>5. server(fd, stdout).replies = <<y>>
    <3>1. Served(server(fd, stdout), fd, stdout)
      BY <2>4, ServerIs
    <3> QED BY <3>1 DEF Served
  <2>6. y.v <= clientDoc.v /\ (y.v = clientDoc.v => stdout.n = clientDoc.n)
    BY <2>1, <2>3, ShiftedIs
  <2> HIDE DEF y
  <2> QED BY <2>3, <2>5, <2>6
<1> QED BY <1>1, HostInvariant, PTL DEF Spec, ShownForTheirText

=============================================================================
