------------------------- MODULE EditCoalescerProofs -------------------------
(* Proofs about the edit coalescer, for any documents, frames, slots and    *)
(* texts.                                                                   *)
EXTENDS EditCoalescer, SequenceTheorems, FiniteSetTheorems, WellFoundedInduction, TLAPS

-----------------------------------------------------------------------------
(* The texts of `d` that reach the worker before what follows position k of *)
(* the queue: its own, the held change's, and those queued up to there.     *)
Ahead(d, k) ==
  {worker[d]} \cup {t \in {held.text} : held # NoChange /\ held.doc = d}
    \cup {queue[j].text : j \in {j \in DOMAIN queue : j <= k /\ queue[j].id = None /\ queue[j].doc = d}}

(* Where changes wait: held inside a window, or queued when there is none.  *)
Changes ==
  /\ held # NoChange => held \in Frames /\ held.id = None /\ held.text = client[held.doc] /\ windowed
  /\ windowed => \A k \in DOMAIN queue : queue[k].id # None
  /\ disposed => held = NoChange /\ queue = <<>>
  /\ cap \/ recheck => held # NoChange

(* The newest text of a document is at the worker or on its way.            *)
Newest ==
  \A d \in Docs :
    /\ ~disposed => client[d] \in Ahead(d, Len(queue))
    /\ \A t \in Ahead(d, Len(queue)) : t <= client[d]

(* A queued frame's own text will be there before it, or a newer one; and   *)
(* before a token request none that is newer.                               *)
Served ==
  \A k \in DOMAIN queue : queue[k].id # None =>
    /\ \E t \in Ahead(queue[k].doc, k) : queue[k].text <= t
    /\ queue[k].id \in Tokens =>
         /\ queue[k].text \in Ahead(queue[k].doc, k)
         /\ \A t \in Ahead(queue[k].doc, k) : t <= queue[k].text

(* The frames that wait are those in the queue, each once.                  *)
Waits ==
  /\ \A k \in DOMAIN queue : queue[k].id # None => fate[queue[k].id] = "waiting"
  /\ ~disposed => \A i \in Ids : fate[i] = "waiting" => \E k \in DOMAIN queue : queue[k].id = i
  /\ \A j, k \in DOMAIN queue : j # k /\ queue[j].id = queue[k].id => queue[j].id = None

(* They wait in the order they were sent.                                   *)
InOrder ==
  /\ \A i \in Ids : fate[i] = "unsent" <=> \A p \in DOMAIN order : order[p] # i
  /\ \A p, q \in DOMAIN order : order[p] = order[q] => p = q
  /\ \A j, k \in DOMAIN queue, p, q \in DOMAIN order :
       j < k /\ order[p] = queue[j].id /\ order[q] = queue[k].id => p < q

(* The inductive invariant.                                                 *)
IInv ==
  /\ TypeOK /\ Changes /\ Newest /\ Served /\ Waits /\ InOrder
  /\ SentOrderKept /\ ServedAtItsText

-----------------------------------------------------------------------------
(* How a step moves frames.  Its line is the held change, the queue and the *)
(* frame that comes, at positions 0, 1..Len(queue) and Len(queue) + 1; the  *)
(* frames at the positions D reach the worker, and those at K wait.         *)
Selects(out, line, D) ==
  /\ out \in Seq(Frames)
  /\ \E g \in [DOMAIN out -> D] :
       /\ \A k \in DOMAIN out : out[k] = line[g[k]]
       /\ \A j, k \in DOMAIN out : j < k => g[j] < g[k]
       /\ \A p \in D : \E k \in DOMAIN out : g[k] = p

IsLine(line) ==
  /\ line \in [0..Len(queue) + 1 -> Frames \cup {NoChange}]
  /\ line[0] = held /\ \A k \in 1..Len(queue) : line[k] = queue[k]

IsChange(f, d) == f.id = None /\ f.doc = d

(* The worker has text t of d once the frames at D up to p are there.       *)
Latest(line, D, p, d, t) ==
  /\ t = worker[d] \/ \E k \in D : k <= p /\ IsChange(line[k], d) /\ t = line[k].text
  /\ worker[d] <= t /\ \A k \in D : k <= p /\ IsChange(line[k], d) => line[k].text <= t

Reaches(line, D) ==
  /\ worker' \in [Docs -> 0..MaxEdits]
  /\ texts' \in [Ids -> [sent : 0..MaxEdits, got : 0..MaxEdits]]
  /\ \A d \in Docs : Latest(line, D, Len(queue) + 1, d, worker'[d])
  /\ \A k \in D : line[k].id # None =>
       /\ texts'[line[k].id].sent = line[k].text
       /\ Latest(line, D, k, line[k].doc, texts'[line[k].id].got)
  /\ \A i \in Ids : (\A k \in D : line[k].id # i) => texts'[i] = texts[i]

(* What goes and what waits: every change does, none overtakes a frame that *)
(* waits but a keep-alive and a change that comes, none passes the held     *)
(* change, and none waits inside a window.                                  *)
Splits(line, D, K) ==
  /\ D \subseteq 0..Len(queue) + 1 /\ K \subseteq 1..Len(queue) + 1 /\ D \cap K = {}
  /\ \A k \in 1..Len(queue) : queue[k].id = None => k \in D \cup K
  /\ \A j \in K, k \in D : j < k =>
       line[k].id \in KeepAlives \/ (k = Len(queue) + 1 /\ line[k].id = None)
  /\ 0 \in D => held # NoChange
  /\ \A k \in D : line[k].id # None => held = NoChange \/ 0 \in D
  /\ windowed => \A k \in K : line[k].id # None

Fates(line, D, K) ==
  /\ fate' \in [Ids -> {"unsent", "waiting", "forwarded", "answered", "superseded", "cancelled"}]
  /\ \A i \in Ids :
       /\ \A k \in K : line[k].id = i => fate'[i] = "waiting"
       /\ fate'[i] = "waiting" =>
            /\ fate[i] = "waiting" \/ (Len(queue) + 1 \in K /\ i = line[Len(queue) + 1].id)
            /\ disposed \/ \E k \in K : line[k].id = i
       /\ fate'[i] \in {"forwarded", "answered"} =>
            fate[i] \in {"forwarded", "answered"} \/ \E k \in D : line[k].id = i
       /\ fate'[i] = "unsent" <=> fate[i] = "unsent" /\ \A k \in D \cup K : line[k].id # i

(* What comes: nothing, a change that the page types, or another frame.     *)
Quiet(line, D, K) ==
  /\ client' = client /\ order' = order
  /\ Len(queue) + 1 \notin D \cup K

Typed(line, D, K, d) ==
  /\ d \in Docs /\ Types(d) /\ line[Len(queue) + 1] = NewChange(d)
  /\ \/ Len(queue) + 1 \in D \cup K
     \/ windowed /\ held' = NewChange(d)
  /\ Len(queue) + 1 \in K \/ \A k \in K : line[k].doc = d => line[k].id \notin Tokens

Sent(line, D, K, i, d) ==
  /\ i \in Ids /\ d \in Docs /\ line[Len(queue) + 1] = Frame(i, d)
  /\ ~disposed /\ fate[i] = "unsent" /\ order' = Append(order, i) /\ client' = client
  /\ Len(queue) + 1 \in D \cup K

Comes(line, D, K) ==
  \/ Quiet(line, D, K)
  \/ \E d \in Docs : Typed(line, D, K, d)
  \/ \E i \in Ids, d \in Docs : Sent(line, D, K, i, d)

(* The held change stays, goes, or makes way for the one that comes.        *)
Held(line, D, K) ==
  \/ held' = held /\ 0 \notin D /\ (held = NoChange \/ client' = client)
  \/ held' = NoChange /\ (held = NoChange \/ 0 \in D)
  \/ /\ held' = line[Len(queue) + 1] /\ Len(queue) + 1 \notin D \cup K
     /\ windowed /\ \E d \in Docs : Typed(line, D, K, d)
     /\ held = NoChange \/ 0 \in D \/ held.doc = line[Len(queue) + 1].doc

Moves(line, D, K) ==
  /\ IsLine(line) /\ Splits(line, D, K) /\ Selects(queue', line, K)
  /\ Reaches(line, D) /\ Fates(line, D, K) /\ Comes(line, D, K) /\ Held(line, D, K)
  /\ UNCHANGED life

-----------------------------------------------------------------------------
(* A set of naturals has a least element.                                   *)
LEMMA LeastNat ==
  ASSUME NEW T \in SUBSET Nat, T # {}
  PROVE  \E m \in T : \A x \in T : m <= x
<1>1. \E m \in T : \A x \in T : ~(<<x, m>> \in OpToRel(<, Nat))
  BY NatLessThanWellFounded, WFMin
<1>2. PICK m \in T : \A x \in T : ~(<<x, m>> \in OpToRel(<, Nat))
  BY <1>1
<1>3. \A x \in T : x < m => <<x, m>> \in OpToRel(<, Nat)
  BY DEF OpToRel
<1>4. \A x \in T : ~(x < m)
  BY <1>2, <1>3
<1>5. \A x \in T : x \in Nat /\ m \in Nat
  OBVIOUS
<1> QED BY <1>4, <1>5

(* A bounded set of naturals has a greatest.                                *)
LEMMA MaxIs ==
  ASSUME NEW S \in SUBSET Nat, S # {}, NEW b \in Nat, \A x \in S : x <= b
  PROVE  Max(S) \in S /\ \A x \in S : x <= Max(S)
<1> DEFINE T == {u \in Nat : \A x \in S : x <= u}
<1>1. T \in SUBSET Nat /\ b \in T
  OBVIOUS
<1>2. PICK m \in T : \A u \in T : m <= u
  BY <1>1, LeastNat
<1>3. m \in S
  <2>1. ASSUME m \notin S PROVE FALSE
    <3>1. PICK x \in S : TRUE
      OBVIOUS
    <3>2. m \in Nat /\ x \in Nat /\ x <= m /\ x # m
      BY <2>1
    <3>3. m - 1 \in Nat /\ \A y \in S : y <= m - 1
      BY <2>1, <3>2
    <3>4. m - 1 \in T
      BY <3>3
    <3> QED BY <1>2, <3>2, <3>4
  <2> QED BY <2>1
<1>4. \E u \in S : \A y \in S : u >= y
  BY <1>2, <1>3
<1>5. Max(S) \in S /\ \A y \in S : Max(S) >= y
  BY <1>4 DEF Max
<1> QED BY <1>5

(* The frames picked are the queue's at those positions, in their order.    *)
LEMMA PickedIs ==
  ASSUME NEW F, queue \in Seq(F), NEW at \in SUBSET DOMAIN queue
  PROVE  /\ Picked(at) \in Seq(F)
         /\ \E g \in [DOMAIN Picked(at) -> at] :
              /\ \A k \in DOMAIN Picked(at) : Picked(at)[k] = queue[g[k]]
              /\ \A j, k \in DOMAIN Picked(at) : j < k => g[j] < g[k]
              /\ \A i \in at : \E k \in DOMAIN Picked(at) : g[k] = i
<1> DEFINE upTo(i) == {j \in at : j <= i}
           rank(i) == Cardinality(upTo(i))
           m == Cardinality(at)
<1>1. IsFiniteSet(at) /\ m \in Nat /\ \A i \in at : i \in Nat
  <2>1. Len(queue) \in Nat /\ DOMAIN queue = 1..Len(queue)
    BY LenProperties
  <2>2. IsFiniteSet(1..Len(queue))
    BY <2>1, FS_Interval
  <2>3. IsFiniteSet(at)
    BY <2>1, <2>2, FS_Subset
  <2> QED BY <2>1, <2>3, FS_CardinalityType
<1>2. ASSUME NEW i \in at PROVE IsFiniteSet(upTo(i)) /\ rank(i) \in 1..m
  <2>1. upTo(i) \in SUBSET at /\ i \in upTo(i)
    BY <1>1
  <2>2. IsFiniteSet(upTo(i)) /\ rank(i) <= m
    BY <1>1, <2>1, FS_Subset
  <2>3. rank(i) \in Nat /\ rank(i) # 0
    BY <2>1, <2>2, FS_CardinalityType, FS_EmptySet
  <2> QED BY <1>1, <2>2, <2>3
<1> HIDE DEF rank, upTo, m
<1>3. ASSUME NEW i \in at, NEW j \in at, i < j PROVE rank(i) < rank(j)
  <2>1. upTo(i) \in SUBSET upTo(j) /\ j \in upTo(j) /\ j \notin upTo(i)
    BY <1>1, <1>3 DEF upTo
  <2>2. rank(i) <= rank(j) /\ (rank(i) = rank(j) => upTo(i) = upTo(j))
    BY <1>2, <2>1, FS_Subset DEF rank
  <2>3. rank(i) \in Nat /\ rank(j) \in Nat
    BY <1>1, <1>2
  <2> QED BY <2>1, <2>2, <2>3
<1> DEFINE f == [i \in at |-> rank(i)]
<1>4. ASSUME NEW i \in at, NEW j \in at, rank(i) = rank(j) PROVE i = j
  <2>1. i \in Nat /\ j \in Nat /\ rank(i) \in Int
    BY <1>1, <1>2
  <2> QED BY <1>3, <1>4, <2>1
<1>5. f \in Injection(at, 1..m)
  <2>1. f \in [at -> 1..m]
    BY <1>2
  <2>2. \A i, j \in at : f[i] = f[j] => i = j
    BY <1>4
  <2> QED BY <2>1, <2>2 DEF Injection, IsInjective
<1>6. IsFiniteSet(1..m) /\ Cardinality(1..m) = m
  <2>1. 1 \in Int /\ m \in Int /\ (1 > m => m = 0)
    BY <1>1
  <2>2. IsFiniteSet(1..m) /\ Cardinality(1..m) = IF 1 > m THEN 0 ELSE m - 1 + 1
    BY <2>1, FS_Interval
  <2> QED BY <2>1, <2>2
<1>7. ASSUME NEW k \in 1..m PROVE \E i \in at : rank(i) = k
  <2>1. f \in Surjection(at, 1..m)
    BY <1>1, <1>5, <1>6, FS_Injection DEF m
  <2> QED BY <2>1 DEF Surjection
<1> DEFINE g == [k \in 1..m |-> CHOOSE i \in at : rank(i) = k]
<1>8. ASSUME NEW k \in 1..m PROVE g[k] \in at /\ rank(g[k]) = k
  BY <1>7
<1>9. Picked(at) = [k \in 1..m |-> queue[g[k]]]
  BY DEF Picked, rank, upTo, m
<1> HIDE DEF g, f
<1>10. \A i \in at : queue[i] \in F
  BY ElementOfSeq, LenProperties
<1>11. Picked(at) \in [1..m -> F]
  BY <1>8, <1>9, <1>10
<1>12. Picked(at) \in Seq(F) /\ DOMAIN Picked(at) = 1..m
  BY <1>1, <1>11, SeqDef
<1>13. g \in [1..m -> at]
  BY <1>8 DEF g
<1>14. ASSUME NEW j \in 1..m, NEW k \in 1..m, j < k PROVE g[j] < g[k]
  <2>1. g[j] \in at /\ g[k] \in at /\ rank(g[j]) = j /\ rank(g[k]) = k /\ g[j] \in Nat /\ g[k] \in Nat /\ j \in Int /\ k \in Int
    BY <1>1, <1>8
  <2>2. g[k] # g[j] /\ ~(g[k] < g[j])
    BY <1>3, <1>14, <2>1
  <2> QED BY <2>1, <2>2
<1>15. ASSUME NEW i \in at PROVE rank(i) \in 1..m /\ g[rank(i)] = i
  BY <1>2, <1>4, <1>8
<1>16. \A k \in 1..m : Picked(at)[k] = queue[g[k]]
  BY <1>9
<1>17. /\ \A k \in DOMAIN Picked(at) : Picked(at)[k] = queue[g[k]]
       /\ \A j, k \in DOMAIN Picked(at) : j < k => g[j] < g[k]
       /\ \A i \in at : \E k \in DOMAIN Picked(at) : g[k] = i
  BY <1>12, <1>14, <1>15, <1>16
<1> QED BY <1>12, <1>13, <1>17

-----------------------------------------------------------------------------
(* The length of a sequence.                                                *)
LEMMA SeqIs ==
  ASSUME NEW F, NEW s \in Seq(F)
  PROVE  /\ Len(s) \in Nat /\ DOMAIN s = 1..Len(s)
         /\ \A k \in DOMAIN s : s[k] \in F
BY LenProperties, ElementOfSeq

(* Nothing is selected.                                                     *)
LEMMA SelectsNone ==
  ASSUME NEW line PROVE Selects(<<>>, line, {})
<1>1. <<>> \in Seq(Frames) /\ DOMAIN <<>> = {}
  <2>1. <<>> \in Seq(Frames) /\ Len(<<>>) = 0
    BY EmptySeq
  <2> QED BY <2>1, SeqIs
<1> DEFINE g == [k \in {} |-> k]
<1>2. g \in [DOMAIN <<>> -> {}]
  BY <1>1
<1>3. /\ \A k \in DOMAIN <<>> : <<>>[k] = line[g[k]]
      /\ \A j, k \in DOMAIN <<>> : j < k => g[j] < g[k]
      /\ \A p \in {} : \E k \in DOMAIN <<>> : g[k] = p
  BY <1>1
<1> QED BY <1>1, <1>2, <1>3 DEF Selects

(* One frame is selected.                                                   *)
LEMMA SelectsOne ==
  ASSUME NEW line, NEW p, line[p] \in Frames PROVE Selects(<<line[p]>>, line, {p})
<1> DEFINE g == [k \in {1} |-> p]
<1>1. <<line[p]>> \in Seq(Frames) /\ DOMAIN <<line[p]>> = {1} /\ <<line[p]>>[1] = line[p]
  OBVIOUS
<1>2. g \in [{1} -> {p}] /\ g[1] = p
  OBVIOUS
<1>3. \A j, k \in {1} : ~(j < k)
  OBVIOUS
<1>4. /\ \A k \in DOMAIN <<line[p]>> : <<line[p]>>[k] = line[g[k]]
      /\ \A j, k \in DOMAIN <<line[p]>> : j < k => g[j] < g[k]
      /\ \A x \in {p} : \E k \in DOMAIN <<line[p]>> : g[k] = x
  BY <1>1, <1>2, <1>3
<1> QED BY <1>1, <1>2, <1>4 DEF Selects

(* One selection behind another.                                            *)
LEMMA SelectsBoth ==
  ASSUME NEW line, NEW s, NEW t, NEW D \in SUBSET Nat, NEW E \in SUBSET Nat,
         Selects(s, line, D), Selects(t, line, E), \A p \in D, q \in E : p < q
  PROVE  Selects(s \o t, line, D \cup E)
<1> DEFINE m == Len(s)
           n == Len(t)
<1>1. s \in Seq(Frames) /\ t \in Seq(Frames)
  BY DEF Selects
<1>2. m \in Nat /\ n \in Nat /\ DOMAIN s = 1..m /\ DOMAIN t = 1..n
  BY <1>1, SeqIs
<1>3. PICK g \in [1..m -> D] :
        /\ \A k \in 1..m : s[k] = line[g[k]]
        /\ \A j, k \in 1..m : j < k => g[j] < g[k]
        /\ \A p \in D : \E k \in 1..m : g[k] = p
  <2>1. PICK g \in [DOMAIN s -> D] :
          /\ \A k \in DOMAIN s : s[k] = line[g[k]]
          /\ \A j, k \in DOMAIN s : j < k => g[j] < g[k]
          /\ \A p \in D : \E k \in DOMAIN s : g[k] = p
    BY DEF Selects
  <2>2. g \in [1..m -> D]
    BY <1>2, <2>1
  <2>3. /\ \A k \in 1..m : s[k] = line[g[k]]
        /\ \A j, k \in 1..m : j < k => g[j] < g[k]
        /\ \A p \in D : \E k \in 1..m : g[k] = p
    BY <1>2, <2>1
  <2> HIDE DEF m
  <2> QED BY <2>2, <2>3
<1>4. PICK h \in [1..n -> E] :
        /\ \A k \in 1..n : t[k] = line[h[k]]
        /\ \A j, k \in 1..n : j < k => h[j] < h[k]
        /\ \A p \in E : \E k \in 1..n : h[k] = p
  <2>1. PICK h \in [DOMAIN t -> E] :
          /\ \A k \in DOMAIN t : t[k] = line[h[k]]
          /\ \A j, k \in DOMAIN t : j < k => h[j] < h[k]
          /\ \A p \in E : \E k \in DOMAIN t : h[k] = p
    BY DEF Selects
  <2>2. h \in [1..n -> E]
    BY <1>2, <2>1
  <2>3. /\ \A k \in 1..n : t[k] = line[h[k]]
        /\ \A j, k \in 1..n : j < k => h[j] < h[k]
        /\ \A p \in E : \E k \in 1..n : h[k] = p
    BY <1>2, <2>1
  <2> HIDE DEF n
  <2> QED BY <2>2, <2>3
<1>5. /\ s \o t \in Seq(Frames) /\ Len(s \o t) = m + n
      /\ \A k \in 1..m : (s \o t)[k] = s[k]
      /\ \A k \in 1..n : (s \o t)[m + k] = t[k]
  BY <1>1, <1>2, ConcatProperties
<1> HIDE DEF m, n
<1>6. DOMAIN (s \o t) = 1..(m + n)
  BY <1>5, SeqIs
<1> DEFINE f == [k \in 1..(m + n) |-> IF k <= m THEN g[k] ELSE h[k - m]]
<1>7. ASSUME NEW k \in 1..(m + n)
      PROVE  \/ k \in 1..m
             \/ k - m \in 1..n /\ ~(k <= m) /\ m + (k - m) = k
  BY <1>2
<1>8. ASSUME NEW k \in 1..(m + n) PROVE (s \o t)[k] = line[f[k]] /\ f[k] \in D \cup E
  <2>1. CASE k \in 1..m
    <3>1. f[k] = g[k]
      BY <2>1, <1>2
    <3> QED BY <3>1, <2>1, <1>3, <1>5
  <2>2. CASE k - m \in 1..n /\ ~(k <= m) /\ m + (k - m) = k
    <3>1. f[k] = h[k - m]
      BY <2>2
    <3>2. (s \o t)[m + (k - m)] = t[k - m] /\ t[k - m] = line[h[k - m]] /\ h[k - m] \in E
      BY <2>2, <1>4, <1>5
    <3> QED BY <3>1, <3>2, <2>2
  <2> QED BY <1>7, <2>1, <2>2
<1>9. ASSUME NEW j \in 1..(m + n), NEW k \in 1..(m + n), j < k PROVE f[j] < f[k]
  <2>1. CASE k \in 1..m
    <3>1. j \in 1..m /\ f[k] = g[k] /\ f[j] = g[j]
      BY <2>1, <1>2, <1>9
    <3> QED BY <3>1, <2>1, <1>3, <1>9
  <2>2. CASE j \in 1..m /\ k - m \in 1..n /\ ~(k <= m)
    <3>1. f[j] = g[j] /\ f[k] = h[k - m] /\ g[j] \in D /\ h[k - m] \in E
      BY <2>2, <1>2, <1>3, <1>4
    <3> QED BY <3>1
  <2>3. CASE j - m \in 1..n /\ ~(j <= m) /\ k - m \in 1..n /\ ~(k <= m)
    <3>1. f[j] = h[j - m] /\ f[k] = h[k - m] /\ j - m < k - m
      BY <2>3, <1>2, <1>9
    <3> QED BY <3>1, <2>3, <1>4
  <2> QED BY <1>2, <1>7, <1>9, <2>1, <2>2, <2>3
<1>10. ASSUME NEW p \in D \cup E PROVE \E k \in 1..(m + n) : f[k] = p
  <2>1. CASE p \in D
    <3>1. PICK k \in 1..m : g[k] = p
      BY <1>3, <2>1
    <3>2. k \in 1..(m + n) /\ f[k] = g[k]
      BY <1>2
    <3> QED BY <3>1, <3>2
  <2>2. CASE p \in E
    <3>1. PICK k \in 1..n : h[k] = p
      BY <1>4, <2>2
    <3>2. m + k \in 1..(m + n) /\ ~(m + k <= m) /\ (m + k) - m = k
      BY <1>2
    <3>3. f[m + k] = h[k]
      BY <3>2
    <3> QED BY <3>1, <3>2, <3>3
  <2> QED BY <2>1, <2>2
<1>11. f \in [1..(m + n) -> D \cup E]
  BY <1>8
<1> HIDE DEF f
<1>12. f \in [DOMAIN (s \o t) -> D \cup E]
  BY <1>6, <1>11
<1>13. /\ \A k \in DOMAIN (s \o t) : (s \o t)[k] = line[f[k]]
       /\ \A j, k \in DOMAIN (s \o t) : j < k => f[j] < f[k]
       /\ \A p \in D \cup E : \E k \in DOMAIN (s \o t) : f[k] = p
  BY <1>6, <1>8, <1>9, <1>10
<1> QED BY <1>5, <1>12, <1>13 DEF Selects

(* The frames picked are a selection of the line.                           *)
LEMMA SelectsPicked ==
  ASSUME NEW line, queue \in Seq(Frames), IsLine(line), NEW at \in SUBSET DOMAIN queue
  PROVE  Selects(Picked(at), line, at)
<1>1. \A k \in at : line[k] = queue[k]
  BY SeqIs DEF IsLine
<1>2. Picked(at) \in Seq(Frames)
  BY PickedIs
<1>3. PICK g \in [DOMAIN Picked(at) -> at] :
        /\ \A k \in DOMAIN Picked(at) : Picked(at)[k] = queue[g[k]]
        /\ \A j, k \in DOMAIN Picked(at) : j < k => g[j] < g[k]
        /\ \A i \in at : \E k \in DOMAIN Picked(at) : g[k] = i
  BY PickedIs
<1>4. \A k \in DOMAIN Picked(at) : Picked(at)[k] = line[g[k]]
  BY <1>1, <1>3
<1> QED BY <1>2, <1>3, <1>4 DEF Selects

(* So is the whole queue.                                                   *)
LEMMA SelectsQueue ==
  ASSUME NEW line, queue \in Seq(Frames), IsLine(line)
  PROVE  Selects(queue, line, 1..Len(queue))
<1> DEFINE g == [k \in 1..Len(queue) |-> k]
<1>1. DOMAIN queue = 1..Len(queue)
  BY SeqIs
<1>2. g \in [DOMAIN queue -> 1..Len(queue)] /\ \A k \in 1..Len(queue) : g[k] = k
  BY <1>1
<1>3. /\ \A k \in DOMAIN queue : queue[k] = line[g[k]]
      /\ \A j, k \in DOMAIN queue : j < k => g[j] < g[k]
      /\ \A i \in 1..Len(queue) : \E k \in DOMAIN queue : g[k] = i
  BY <1>1, <1>2 DEF IsLine
<1> HIDE DEF g
<1> QED BY <1>2, <1>3 DEF Selects

-----------------------------------------------------------------------------
(* g says where the selected frames are in the line, and which are up to p. *)
Along(g, out, line, D) ==
  /\ g \in [DOMAIN out -> D]
  /\ \A k \in DOMAIN out : out[k] = line[g[k]]
  /\ \A j, k \in DOMAIN out : j < k => g[j] < g[k]
  /\ \A p \in D : \E k \in DOMAIN out : g[k] = p

UpTo(g, out, k, p) == \A j \in DOMAIN out : j <= k <=> g[j] <= p

(* The text of d once the first k of the selected frames are there: those   *)
(* of the line up to p.                                                     *)
LEMMA LatestIs ==
  ASSUME TypeOK, NEW line, NEW D, NEW out \in Seq(Frames), NEW g, Along(g, out, line, D),
         NEW d \in Docs, NEW k \in 0..Len(out), NEW p, UpTo(g, out, k, p)
  PROVE  Latest(line, D, p, d, TextAt(d, out, k)) /\ TextAt(d, out, k) \in 0..MaxEdits
<1> DEFINE J == {j \in 1..k : out[j].id = None /\ out[j].doc = d}
           S == {worker[d]} \cup {out[j].text : j \in J}
<1>1. Len(out) \in Nat /\ DOMAIN out = 1..Len(out) /\ MaxEdits \in Nat
  BY SeqIs, CoalescerAssumption
<1>2. \A j \in DOMAIN out : out[j] \in Frames
  BY SeqIs
<1>3. \A j \in DOMAIN out : out[j].text \in 0..MaxEdits
  BY <1>2 DEF Frames
<1>4. J \subseteq DOMAIN out /\ worker[d] \in 0..MaxEdits
  BY <1>1 DEF TypeOK
<1>5. S \in SUBSET (0..MaxEdits)
  BY <1>3, <1>4
<1>6. S \in SUBSET Nat /\ S # {} /\ \A x \in S : x <= MaxEdits
  BY <1>1, <1>5
<1>7. Max(S) \in S /\ \A x \in S : x <= Max(S)
  BY <1>1, <1>6, MaxIs
<1>8. TextAt(d, out, k) = Max(S)
  BY DEF TextAt
<1>13. /\ g \in [DOMAIN out -> D]
       /\ \A j \in DOMAIN out : out[j] = line[g[j]]
       /\ \A q \in D : \E j \in DOMAIN out : g[j] = q
       /\ \A j \in DOMAIN out : j <= k <=> g[j] <= p
  BY DEF Along, UpTo
<1>9. \A j \in J : j \in DOMAIN out /\ g[j] \in D /\ g[j] <= p /\ IsChange(line[g[j]], d) /\ out[j].text = line[g[j]].text
  <2>1. \A j \in J : j \in DOMAIN out /\ j <= k /\ out[j].id = None /\ out[j].doc = d
    BY <1>1, <1>4
  <2> HIDE DEF J
  <2> QED BY <1>13, <2>1 DEF IsChange
<1>10. ASSUME NEW q \in D, q <= p, IsChange(line[q], d) PROVE line[q].text \in S
  <2>1. PICK j \in DOMAIN out : g[j] = q
    BY <1>13
  <2>2. j <= k /\ out[j] = line[q]
    BY <2>1, <1>10, <1>13
  <2>3. j \in J
    BY <1>1, <1>10, <2>2 DEF IsChange
  <2> QED BY <2>2, <2>3
<1>11. Max(S) = worker[d] \/ \E q \in D : q <= p /\ IsChange(line[q], d) /\ Max(S) = line[q].text
  <2> HIDE DEF J
  <2>1. Max(S) = worker[d] \/ \E j \in J : Max(S) = out[j].text
    BY <1>7
  <2> HIDE DEF S
  <2> QED BY <2>1, <1>9
<1>12. worker[d] \in S
  OBVIOUS
<1> HIDE DEF S, J
<1> QED BY <1>5, <1>7, <1>8, <1>10, <1>11, <1>12 DEF Latest

(* Each frame has an id of its own.                                         *)
OwnIds(line, D) == \A j, k \in D : j # k /\ line[j].id = line[k].id => line[j].id = None

(* What a selection of the line does when it is delivered.                  *)
LEMMA Delivered ==
  ASSUME TypeOK, NEW line, NEW D \in SUBSET (0..Len(queue) + 1), NEW out, Selects(out, line, D),
         OwnIds(line, D), NEW inFlight, NEW gone, NEW answer, Deliver(out, inFlight, gone, answer),
         answer \in {"answered", "superseded"}
  PROVE  /\ Reaches(line, D)
         /\ fate' \in [Ids -> {"unsent", "waiting", "forwarded", "answered", "superseded", "cancelled"}]
         /\ \A i \in Ids :
              /\ (\E k \in D : line[k].id = i) => fate'[i] = "forwarded"
              /\ (\A k \in D : line[k].id # i) => fate'[i] = IF i \in gone THEN answer ELSE fate[i]
<1>1. out \in Seq(Frames)
  BY DEF Selects
<1>2. Len(out) \in Nat /\ DOMAIN out = 1..Len(out) /\ \A k \in DOMAIN out : out[k] \in Frames
  BY <1>1, SeqIs
<1>3. PICK g \in [DOMAIN out -> D] :
        /\ \A k \in DOMAIN out : out[k] = line[g[k]]
        /\ \A j, k \in DOMAIN out : j < k => g[j] < g[k]
        /\ \A p \in D : \E k \in DOMAIN out : g[k] = p
  BY DEF Selects
<1>4. None \notin Ids /\ Len(queue) \in Nat
  BY CoalescerAssumption, SeqIs DEF TypeOK
<1>5. \A j \in DOMAIN out : g[j] \in Int /\ g[j] <= Len(queue) + 1
  <2>1. \A j \in DOMAIN out : g[j] \in D
    OBVIOUS
  <2>2. \A p \in D : p \in Int /\ p <= Len(queue) + 1
    BY <1>4
  <2> QED BY <2>1, <2>2
<1>20. Along(g, out, line, D)
  BY <1>3 DEF Along
<1>6. \A d \in Docs : Latest(line, D, Len(queue) + 1, d, TextAt(d, out, Len(out))) /\ TextAt(d, out, Len(out)) \in 0..MaxEdits
  <2>1. UpTo(g, out, Len(out), Len(queue) + 1)
    BY <1>2, <1>5 DEF UpTo
  <2>2. Len(out) \in 0..Len(out)
    BY <1>2
  <2> QED BY <1>1, <1>20, <2>1, <2>2, LatestIs
<1>7. worker' = [d \in Docs |-> TextAt(d, out, Len(out))]
  BY DEF Deliver
<1>8. /\ worker' \in [Docs -> 0..MaxEdits]
      /\ \A d \in Docs : Latest(line, D, Len(queue) + 1, d, worker'[d])
  BY <1>6, <1>7
<1>9. ASSUME NEW i \in Ids PROVE i \in IdsOf(out) <=> \E k \in D : line[k].id = i
  <2>1. i \in IdsOf(out) <=> \E j \in DOMAIN out : out[j].id = i
    BY <1>4 DEF IdsOf
  <2>2. ASSUME NEW j \in DOMAIN out, out[j].id = i PROVE \E k \in D : line[k].id = i
    <3>1. g[j] \in D /\ out[j] = line[g[j]]
      BY <1>3
    <3> QED BY <2>2, <3>1
  <2>3. ASSUME NEW k \in D, line[k].id = i PROVE \E j \in DOMAIN out : out[j].id = i
    <3>1. PICK j \in DOMAIN out : g[j] = k
      BY <1>3
    <3> QED BY <1>3, <2>3, <3>1
  <2> QED BY <2>1, <2>2, <2>3
<1>10. ASSUME NEW j \in DOMAIN out, out[j].id # None
       PROVE  /\ Arrived(out[j].id, out) = [sent |-> out[j].text, got |-> TextAt(out[j].doc, out, j)]
              /\ Latest(line, D, g[j], out[j].doc, TextAt(out[j].doc, out, j))
              /\ out[j].text \in 0..MaxEdits /\ TextAt(out[j].doc, out, j) \in 0..MaxEdits
  <2>1. out[j].doc \in Docs /\ out[j].text \in 0..MaxEdits
    BY <1>2 DEF Frames
  <2>2. \A l \in DOMAIN out : out[l].id = out[j].id => l = j
    <3>1. SUFFICES ASSUME NEW l \in DOMAIN out, out[l].id = out[j].id, l # j PROVE FALSE
      OBVIOUS
    <3>2. g[l] # g[j]
      <4>1. l < j \/ j < l
        BY <1>2, <3>1
      <4>2. g[l] < g[j] \/ g[j] < g[l]
        BY <4>1, <1>3
      <4> QED BY <4>2, <1>5
    <3>3. g[l] \in D /\ g[j] \in D /\ line[g[l]].id = line[g[j]].id /\ line[g[l]].id # None
      BY <1>3, <1>10, <3>1
    <3> QED BY <3>2, <3>3 DEF OwnIds
  <2>3. (CHOOSE k \in DOMAIN out : out[k].id = out[j].id) = j
    BY <2>2
  <2>4. Arrived(out[j].id, out) = [sent |-> out[j].text, got |-> TextAt(out[j].doc, out, j)]
    BY <2>3 DEF Arrived
  <2>5. UpTo(g, out, j, g[j])
    <3>1. SUFFICES ASSUME NEW l \in DOMAIN out PROVE l <= j <=> g[l] <= g[j]
      BY DEF UpTo
    <3>2. l \in Int /\ j \in Int /\ g[l] \in Int /\ g[j] \in Int
      BY <1>2, <1>5
    <3>3. (l < j => g[l] < g[j]) /\ (j < l => g[j] < g[l]) /\ (l = j => g[l] = g[j])
      BY <1>3
    <3> QED BY <3>2, <3>3
  <2>6. j \in 0..Len(out)
    BY <1>2
  <2>7. Latest(line, D, g[j], out[j].doc, TextAt(out[j].doc, out, j)) /\ TextAt(out[j].doc, out, j) \in 0..MaxEdits
    BY <1>1, <1>20, <2>1, <2>5, <2>6, LatestIs
  <2> QED BY <2>1, <2>4, <2>7
<1>11. texts' = [i \in Ids |-> IF i \in IdsOf(out) THEN Arrived(i, out) ELSE texts[i]]
  BY DEF Deliver
<1>12. ASSUME NEW k \in D, line[k].id # None
       PROVE  /\ line[k].id \in Ids
              /\ texts'[line[k].id] \in [sent : 0..MaxEdits, got : 0..MaxEdits]
              /\ texts'[line[k].id].sent = line[k].text
              /\ Latest(line, D, k, line[k].doc, texts'[line[k].id].got)
  <2>1. PICK j \in DOMAIN out : g[j] = k
    BY <1>3
  <2>2. out[j] = line[k]
    BY <1>3, <2>1
  <2>3. line[k].id \in Ids
    BY <1>2, <1>12, <2>2 DEF Frames
  <2>4. line[k].id \in IdsOf(out)
    BY <1>9, <2>3
  <2>5. texts'[line[k].id] = [sent |-> out[j].text, got |-> TextAt(out[j].doc, out, j)]
    BY <1>10, <1>11, <1>12, <2>2, <2>3, <2>4
  <2>6. texts'[line[k].id].sent = line[k].text /\ texts'[line[k].id].got = TextAt(out[j].doc, out, j)
    BY <2>2, <2>5
  <2>7. Latest(line, D, k, line[k].doc, TextAt(out[j].doc, out, j)) /\ out[j].text \in 0..MaxEdits /\ TextAt(out[j].doc, out, j) \in 0..MaxEdits
    BY <1>10, <1>12, <2>1, <2>2
  <2> QED BY <2>3, <2>5, <2>6, <2>7
<1>13. ASSUME NEW i \in Ids, \A k \in D : line[k].id # i PROVE texts'[i] = texts[i]
  BY <1>9, <1>11, <1>13
<1>14. texts' \in [Ids -> [sent : 0..MaxEdits, got : 0..MaxEdits]]
  <2>1. ASSUME NEW i \in Ids PROVE texts'[i] \in [sent : 0..MaxEdits, got : 0..MaxEdits]
    <3>1. CASE \A k \in D : line[k].id # i
      BY <1>13, <3>1 DEF TypeOK
    <3>2. CASE \E k \in D : line[k].id = i
      BY <1>4, <1>12, <3>2
    <3> QED BY <3>1, <3>2
  <2>2. texts' = [i \in Ids |-> texts'[i]]
    BY <1>11
  <2> QED BY <2>1, <2>2
<1>15. Reaches(line, D)
  BY <1>8, <1>12, <1>13, <1>14 DEF Reaches
<1>16. fate' = [i \in Ids |-> IF i \in IdsOf(out) THEN "forwarded" ELSE IF i \in gone THEN answer ELSE fate[i]]
  BY DEF Deliver
<1>17. \A i \in Ids :
         /\ (\E k \in D : line[k].id = i) => fate'[i] = "forwarded"
         /\ (\A k \in D : line[k].id # i) => fate'[i] = IF i \in gone THEN answer ELSE fate[i]
  BY <1>9, <1>16
<1>18. fate' \in [Ids -> {"unsent", "waiting", "forwarded", "answered", "superseded", "cancelled"}]
  BY <1>16 DEF TypeOK
<1> QED BY <1>15, <1>17, <1>18

-----------------------------------------------------------------------------
(* The newest text typed so far.                                            *)
LEMMA EditsIs ==
  ASSUME TypeOK, NEW d \in Docs
  PROVE  edits \in 0..MaxEdits /\ \A e \in Docs : client[e] <= edits
<1> DEFINE S == {client[e] : e \in Docs}
<1>1. S \in SUBSET (0..MaxEdits) /\ S # {} /\ MaxEdits \in Nat
  BY CoalescerAssumption DEF TypeOK
<1>2. S \in SUBSET Nat /\ \A x \in S : x <= MaxEdits
  BY <1>1
<1>3. Max(S) \in S /\ \A x \in S : x <= Max(S)
  BY <1>1, <1>2, MaxIs
<1> QED BY <1>1, <1>3 DEF edits

(* A typed change is newer than every text before it.                       *)
LEMMA TypedIs ==
  ASSUME TypeOK, NEW d \in Docs, Types(d)
  PROVE  /\ NewChange(d) \in Frames /\ NewChange(d) # NoChange
         /\ NewChange(d).id = None /\ NewChange(d).doc = d
         /\ client' \in [Docs -> 0..MaxEdits]
         /\ client'[d] = NewChange(d).text /\ client[d] <= client'[d]
         /\ \A e \in Docs \ {d} : client'[e] = client[e]
<1>1. edits \in 0..MaxEdits /\ client[d] <= edits /\ edits < MaxEdits /\ MaxEdits \in Nat
  BY EditsIs, CoalescerAssumption DEF Types
<1> HIDE DEF edits
<1>2. edits + 1 \in 0..MaxEdits /\ edits + 1 # 0 /\ client[d] <= edits + 1
  BY <1>1 DEF TypeOK
<1>3. client' = [client EXCEPT ![d] = edits + 1]
  BY DEF Types
<1>4. NewChange(d) = [id |-> None, doc |-> d, text |-> edits + 1]
  BY DEF NewChange
<1>5. NewChange(d) \in Frames /\ NewChange(d).text = edits + 1 /\ NewChange(d).id = None /\ NewChange(d).doc = d
  BY <1>2, <1>4 DEF Frames
<1>6. NewChange(d) # NoChange
  BY <1>2, <1>5 DEF NoChange
<1>7. client \in [Docs -> 0..MaxEdits]
  BY DEF TypeOK
<1>8. client' \in [Docs -> 0..MaxEdits] /\ client'[d] = edits + 1 /\ \A e \in Docs \ {d} : client'[e] = client[e]
  BY <1>2, <1>3, <1>7
<1> QED BY <1>2, <1>5, <1>6, <1>8

(* The frames of a step's line: each once, and those that are not new wait. *)
LEMMA LineIs ==
  ASSUME IInv, NEW line, NEW D, NEW K, IsLine(line), Splits(line, D, K), Comes(line, D, K)
  PROVE  /\ Len(queue) \in Nat /\ D \cup K \subseteq 0..Len(queue) + 1
         /\ DOMAIN queue = 1..Len(queue) /\ \A k \in 1..Len(queue) : line[k] = queue[k] /\ line[k] \in Frames
         /\ line[0] = held /\ (held # NoChange => held \in Frames /\ held.id = None)
         /\ \A k \in D \cup K : line[k] \in Frames
         /\ \A k \in D \cup K : k <= Len(queue) /\ line[k].id # None =>
              k \in 1..Len(queue) /\ fate[line[k].id] = "waiting"
         /\ \A j, k \in D \cup K : j # k /\ line[j].id = line[k].id => line[j].id = None
         /\ disposed => D = {} /\ K = {}
<1>1. Len(queue) \in Nat /\ DOMAIN queue = 1..Len(queue) /\ \A k \in 1..Len(queue) : queue[k] \in Frames
  BY SeqIs DEF IInv, TypeOK
<1>2. /\ D \subseteq 0..Len(queue) + 1 /\ K \subseteq 1..Len(queue) + 1
      /\ 0 \in D => held # NoChange
  BY DEF Splits
<1>3. line[0] = held /\ \A k \in 1..Len(queue) : line[k] = queue[k]
  BY DEF IsLine
<1>4. /\ held # NoChange => held \in Frames /\ held.id = None
      /\ disposed => held = NoChange /\ queue = <<>>
  BY DEF IInv, Changes
<1>5. D \cup K \subseteq 0..Len(queue) + 1
  BY <1>1, <1>2
<1>6. \A k \in D \cup K : k = 0 \/ k \in 1..Len(queue) \/ k = Len(queue) + 1
  BY <1>1, <1>5
<1>7. 0 \notin K
  BY <1>1, <1>2
<1>8. Len(queue) + 1 \in D \cup K =>
        /\ line[Len(queue) + 1] \in Frames /\ ~disposed
        /\ line[Len(queue) + 1].id # None => fate[line[Len(queue) + 1].id] = "unsent"
  <2>1. CASE Quiet(line, D, K)
    BY <2>1 DEF Quiet
  <2>2. ASSUME NEW d \in Docs, Typed(line, D, K, d) PROVE line[Len(queue) + 1] \in Frames /\ ~disposed /\ line[Len(queue) + 1].id = None
    BY <2>2, TypedIs DEF Typed, Types, IInv
  <2>3. ASSUME NEW i \in Ids, NEW d \in Docs, Sent(line, D, K, i, d)
        PROVE  line[Len(queue) + 1] \in Frames /\ ~disposed /\ fate[line[Len(queue) + 1].id] = "unsent"
    <3>1. line[Len(queue) + 1] = [id |-> i, doc |-> d, text |-> client[d]] /\ fate[i] = "unsent" /\ ~disposed
      BY <2>3 DEF Sent, Frame
    <3>2. client[d] \in 0..MaxEdits
      BY DEF IInv, TypeOK
    <3> QED BY <3>1, <3>2 DEF Frames
  <2> QED BY <2>1, <2>2, <2>3 DEF Comes
<1>9. \A k \in D \cup K : line[k] \in Frames
  BY <1>1, <1>2, <1>3, <1>4, <1>6, <1>7, <1>8
<1>10. /\ \A k \in DOMAIN queue : queue[k].id # None => fate[queue[k].id] = "waiting"
       /\ \A j, k \in DOMAIN queue : j # k /\ queue[j].id = queue[k].id => queue[j].id = None
  BY DEF IInv, Waits
<1>11. \A k \in D \cup K : k # Len(queue) + 1 /\ line[k].id # None =>
         k \in 1..Len(queue) /\ fate[line[k].id] = "waiting"
  BY <1>1, <1>2, <1>3, <1>4, <1>6, <1>7, <1>10
<1>12. ASSUME NEW j \in D \cup K, NEW k \in D \cup K, j # k, line[j].id = line[k].id, line[j].id # None PROVE FALSE
  <2>1. CASE j = Len(queue) + 1 \/ k = Len(queue) + 1
    BY <2>1, <1>8, <1>11, <1>12
  <2>2. CASE j # Len(queue) + 1 /\ k # Len(queue) + 1
    BY <2>2, <1>1, <1>3, <1>10, <1>11, <1>12
  <2> QED BY <2>1, <2>2
<1>13. ASSUME disposed PROVE D = {} /\ K = {}
  <2>1. Len(queue) = 0 /\ held = NoChange
    BY <1>4, <1>13, EmptySeq
  <2>2. \A k \in D \cup K : k = 0
    BY <1>6, <1>8, <1>13, <2>1
  <2> QED BY <1>2, <1>7, <2>1, <2>2
<1>14. \A k \in D \cup K : k <= Len(queue) => k # Len(queue) + 1
  BY <1>1
<1> QED BY <1>1, <1>3, <1>4, <1>5, <1>9, <1>11, <1>12, <1>13, <1>14

(* The page's texts only grow, and no change is newer than they are.        *)
LEMMA ClientIs ==
  ASSUME IInv, NEW line, NEW D, NEW K, IsLine(line), Splits(line, D, K), Comes(line, D, K), NEW d \in Docs
  PROVE  /\ client' \in [Docs -> 0..MaxEdits] /\ client[d] <= client'[d]
         /\ worker[d] <= client[d]
         /\ held # NoChange /\ held.doc = d => held.text <= client[d]
         /\ \A k \in 1..Len(queue) : IsChange(line[k], d) => line[k].text <= client[d]
         /\ \A k \in D \cup K : IsChange(line[k], d) => line[k].text <= client'[d]
<1>1. Len(queue) \in Nat /\ DOMAIN queue = 1..Len(queue) /\ D \cup K \subseteq 0..Len(queue) + 1
  BY LineIs
<1>2. \A t \in Ahead(d, Len(queue)) : t <= client[d]
  BY DEF IInv, Newest
<1>3. worker[d] <= client[d] /\ (held # NoChange /\ held.doc = d => held.text <= client[d])
  BY <1>2 DEF Ahead
<1>4. \A k \in 1..Len(queue) : queue[k].id = None /\ queue[k].doc = d => queue[k].text <= client[d]
  BY <1>1, <1>2 DEF Ahead
<1> DEFINE Grows ==
             /\ client' \in [Docs -> 0..MaxEdits] /\ client[d] \in Int /\ client'[d] \in Int /\ client[d] <= client'[d]
             /\ Len(queue) + 1 \in D \cup K /\ IsChange(line[Len(queue) + 1], d) => line[Len(queue) + 1].text <= client'[d]
<1>5. Grows
  <2>0. client \in [Docs -> 0..MaxEdits] /\ None \notin Ids
    BY CoalescerAssumption DEF IInv, TypeOK
  <2>1. CASE Quiet(line, D, K)
    BY <2>0, <2>1 DEF Quiet
  <2>2. ASSUME NEW e \in Docs, Typed(line, D, K, e) PROVE Grows
    <3>1. /\ NewChange(e).id = None /\ NewChange(e).doc = e /\ line[Len(queue) + 1] = NewChange(e)
          /\ client' \in [Docs -> 0..MaxEdits] /\ client'[e] = NewChange(e).text /\ client[e] <= client'[e]
          /\ \A x \in Docs \ {e} : client'[x] = client[x]
      BY <2>2, TypedIs DEF Typed, IInv
    <3>2. client[d] \in Int /\ client'[d] \in Int
      BY <2>0, <3>1
    <3> QED BY <3>1, <3>2 DEF IsChange
  <2>3. ASSUME NEW i \in Ids, NEW e \in Docs, Sent(line, D, K, i, e) PROVE Grows
    <3>1. line[Len(queue) + 1].id = i /\ client' = client
      BY <2>3 DEF Sent, Frame
    <3> QED BY <2>0, <3>1 DEF IsChange
  <2> QED BY <2>1, <2>2, <2>3 DEF Comes
<1>6. line[0] = held /\ (0 \in D => held # NoChange) /\ 0 \notin K /\ \A k \in 1..Len(queue) : line[k] = queue[k]
  BY <1>1 DEF IsLine, Splits
<1>7. ASSUME NEW k \in D \cup K, IsChange(line[k], d) PROVE line[k].text <= client'[d]
  <2>1. line[k] \in Frames /\ (k = 0 \/ k \in 1..Len(queue) \/ k = Len(queue) + 1)
    BY <1>1, LineIs
  <2>2. line[k].text \in Int
    BY <2>1 DEF Frames
  <2>3. k # Len(queue) + 1 => line[k].text <= client[d]
    BY <1>3, <1>4, <1>6, <1>7, <2>1 DEF IsChange
  <2> QED BY <1>5, <1>7, <2>2, <2>3
<1> QED BY <1>3, <1>4, <1>5, <1>6, <1>7 DEF IsChange

-----------------------------------------------------------------------------
(* The texts ahead, before a step and after it, along its line.             *)
LEMMA AheadBefore ==
  ASSUME IInv, NEW line, IsLine(line), NEW d \in Docs, NEW k \in 0..Len(queue), NEW t
  PROVE  t \in Ahead(d, k) <=>
           \/ t = worker[d]
           \/ held # NoChange /\ held.doc = d /\ t = held.text
           \/ \E j \in 1..Len(queue) : j <= k /\ IsChange(line[j], d) /\ t = line[j].text
<1>1. DOMAIN queue = 1..Len(queue) /\ \A j \in 1..Len(queue) : line[j] = queue[j]
  BY SeqIs DEF IsLine, IInv, TypeOK
<1> QED BY <1>1 DEF Ahead, IsChange

(* The line has text t of d among the frames that wait, up to p.            *)
Waiting(line, K, p, d, t) == \E j \in K : j <= p /\ IsChange(line[j], d) /\ t = line[j].text

(* After a step, what is ahead of a frame that waits.                       *)
LEMMA AheadAfter ==
  ASSUME NEW line, NEW K \in SUBSET Nat, NEW g, Along(g, queue', line, K), queue' \in Seq(Frames),
         NEW d \in Docs, NEW k \in DOMAIN queue', NEW t
  PROVE  t \in Ahead(d, k)' <=>
           \/ t = worker'[d]
           \/ held' # NoChange /\ held'.doc = d /\ t = held'.text
           \/ Waiting(line, K, g[k], d, t)
<1>1. /\ g \in [DOMAIN queue' -> K]
      /\ \A j \in DOMAIN queue' : queue'[j] = line[g[j]]
      /\ \A i, j \in DOMAIN queue' : i < j => g[i] < g[j]
      /\ \A p \in K : \E j \in DOMAIN queue' : g[j] = p
  BY DEF Along
<1>2. DOMAIN queue' = 1..Len(queue') /\ Len(queue') \in Nat
  BY SeqIs
<1>3. ASSUME NEW j \in DOMAIN queue' PROVE j <= k <=> g[j] <= g[k]
  <2>0. g[j] \in K /\ g[k] \in K
    BY <1>1
  <2>1. j \in Int /\ k \in Int /\ g[j] \in Int /\ g[k] \in Int
    <3>1. j \in Int /\ k \in Int
      BY <1>2
    <3>2. g[j] \in Nat /\ g[k] \in Nat
      BY <2>0
    <3> QED BY <3>1, <3>2
  <2>2. (j < k => g[j] < g[k]) /\ (k < j => g[k] < g[j]) /\ (j = k => g[j] = g[k])
    BY <1>1
  <2> QED BY <2>1, <2>2
<1> DEFINE Queued == \E j \in DOMAIN queue' : j <= k /\ IsChange(queue'[j], d) /\ t = queue'[j].text
           Kept == Waiting(line, K, g[k], d, t)
<1>4. t \in Ahead(d, k)' <=> t = worker'[d] \/ (held' # NoChange /\ held'.doc = d /\ t = held'.text) \/ Queued
  BY DEF Ahead, IsChange
<1>5. Queued => Kept
  <2>1. SUFFICES ASSUME NEW j \in DOMAIN queue', j <= k, IsChange(queue'[j], d), t = queue'[j].text PROVE Kept
    OBVIOUS
  <2>2. g[j] \in K /\ g[j] <= g[k] /\ queue'[j] = line[g[j]]
    BY <1>1, <1>3, <2>1
  <2> QED BY <2>1, <2>2 DEF Waiting
<1>6. Kept => Queued
  <2>1. SUFFICES ASSUME NEW p \in K, p <= g[k], IsChange(line[p], d), t = line[p].text PROVE Queued
    BY DEF Waiting
  <2>2. PICK j \in DOMAIN queue' : g[j] = p
    BY <1>1
  <2>3. j <= k /\ queue'[j] = line[p]
    BY <1>1, <1>3, <2>1, <2>2
  <2> QED BY <2>1, <2>3
<1> QED BY <1>4, <1>5, <1>6

(* All of them: those ahead of what would come last.                        *)
LEMMA AheadAll ==
  ASSUME NEW line, NEW K \in SUBSET Nat, Selects(queue', line, K), NEW d \in Docs, NEW t
  PROVE  t \in Ahead(d, Len(queue))' <=>
           \/ t = worker'[d]
           \/ held' # NoChange /\ held'.doc = d /\ t = held'.text
           \/ \E j \in K : IsChange(line[j], d) /\ t = line[j].text
<1>1. PICK g \in [DOMAIN queue' -> K] :
      /\ \A j \in DOMAIN queue' : queue'[j] = line[g[j]]
      /\ \A p \in K : \E j \in DOMAIN queue' : g[j] = p
  BY DEF Selects
<1>2. DOMAIN queue' = 1..Len(queue') /\ Len(queue') \in Nat
  BY SeqIs DEF Selects
<1>3. t \in Ahead(d, Len(queue))' <=>
        \/ t = worker'[d]
        \/ held' # NoChange /\ held'.doc = d /\ t = held'.text
        \/ \E j \in DOMAIN queue' : j <= Len(queue') /\ IsChange(queue'[j], d) /\ t = queue'[j].text
  BY DEF Ahead, IsChange
<1>4. \A j \in DOMAIN queue' : j <= Len(queue') /\ g[j] \in K /\ queue'[j] = line[g[j]]
  BY <1>1, <1>2
<1>5. ASSUME NEW p \in K PROVE \E j \in DOMAIN queue' : line[p] = queue'[j]
  <2>1. PICK j \in DOMAIN queue' : g[j] = p
    BY <1>1
  <2> QED BY <1>1, <2>1
<1> QED BY <1>3, <1>4, <1>5

(* A text that is ahead stays ahead, reaches the worker, or makes way for   *)
(* the newer one that is typed.                                             *)
LEMMA Onward ==
  ASSUME IInv, NEW line, NEW D, NEW K, Moves(line, D, K), NEW d \in Docs, NEW k \in 0..Len(queue), NEW t \in Ahead(d, k)
  PROVE  \/ t = worker[d] /\ t <= worker'[d]
         \/ \E j \in D : j <= k /\ IsChange(line[j], d) /\ t = line[j].text /\ t <= worker'[d]
         \/ held' # NoChange /\ held'.doc = d /\ t = held'.text
         \/ \E j \in K : j <= k /\ IsChange(line[j], d) /\ t = line[j].text
         \/ /\ t <= client'[d] /\ held' # NoChange /\ held'.doc = d /\ held'.text = client'[d]
            /\ Len(queue) + 1 \notin K /\ Typed(line, D, K, d)
<1>1. /\ IsLine(line) /\ Splits(line, D, K) /\ Reaches(line, D) /\ Comes(line, D, K) /\ Held(line, D, K)
  BY DEF Moves
<1>2. /\ Len(queue) \in Nat /\ D \cup K \subseteq 0..Len(queue) + 1 /\ line[0] = held
      /\ held # NoChange => held \in Frames /\ held.id = None
  BY <1>1, LineIs
<1>3. worker[d] <= worker'[d] /\ \A j \in D : j <= Len(queue) + 1 /\ IsChange(line[j], d) => line[j].text <= worker'[d]
  BY <1>1 DEF Reaches, Latest
<1>4. \/ t = worker[d]
      \/ held # NoChange /\ held.doc = d /\ t = held.text
      \/ \E j \in 1..Len(queue) : j <= k /\ IsChange(line[j], d) /\ t = line[j].text
  BY <1>1, AheadBefore
<1>5. CASE t = worker[d]
  BY <1>3, <1>5
<1>6. CASE held # NoChange /\ held.doc = d /\ t = held.text
  <2>1. CASE 0 \in D
    <3>1. IsChange(line[0], d) /\ t = line[0].text /\ 0 <= Len(queue) + 1 /\ 0 <= k
      BY <1>2, <1>6 DEF IsChange
    <3> QED BY <1>3, <2>1, <3>1
  <2>2. CASE held' = held
    BY <1>6, <2>2
  <2>3. ASSUME NEW e \in Docs, 0 \notin D, Typed(line, D, K, e), held' = line[Len(queue) + 1],
               Len(queue) + 1 \notin D \cup K, held.doc = line[Len(queue) + 1].doc
        PROVE  /\ t <= client'[d] /\ held' # NoChange /\ held'.doc = d /\ held'.text = client'[d]
               /\ Len(queue) + 1 \notin K /\ Typed(line, D, K, d)
    <3>1. /\ held' = NewChange(e) /\ NewChange(e).doc = e /\ NewChange(e) # NoChange
          /\ client'[e] = NewChange(e).text
      BY <2>3, TypedIs DEF Typed, IInv
    <3>2. e = d
      BY <1>6, <2>3, <3>1
    <3>3. held.text <= client[d] /\ client[d] <= client'[d] /\ client' \in [Docs -> 0..MaxEdits]
      BY <1>1, <1>6, ClientIs
    <3>4. held.text \in Int /\ client[d] \in Int /\ client'[d] \in Int
      BY <1>2, <1>6, <3>3 DEF IInv, TypeOK, Frames
    <3> QED BY <1>6, <2>3, <3>1, <3>2, <3>3, <3>4
  <2> QED BY <1>1, <1>6, <2>1, <2>2, <2>3 DEF Held
<1>7. ASSUME NEW j \in 1..Len(queue), j <= k, IsChange(line[j], d), t = line[j].text
      PROVE  \/ \E p \in D : p <= k /\ IsChange(line[p], d) /\ t = line[p].text /\ t <= worker'[d]
             \/ \E p \in K : p <= k /\ IsChange(line[p], d) /\ t = line[p].text
  <2>1. j \in D \cup K
    BY <1>1, <1>7 DEF Splits, IsLine, IsChange
  <2>2. j <= Len(queue) + 1
    BY <1>2
  <2> QED BY <1>3, <1>7, <2>1, <2>2
<1> QED BY <1>4, <1>5, <1>6, <1>7

(* The newest text stays there or on its way.                               *)
LEMMA NewestKept ==
  ASSUME IInv, NEW line, NEW D, NEW K, Moves(line, D, K), NEW d \in Docs
  PROVE  /\ ~disposed => client'[d] \in Ahead(d, Len(queue))'
         /\ \A t \in Ahead(d, Len(queue))' : t <= client'[d]
<1>1. /\ IsLine(line) /\ Splits(line, D, K) /\ Reaches(line, D) /\ Comes(line, D, K) /\ Held(line, D, K)
      /\ Selects(queue', line, K)
  BY DEF Moves
<1>2. Len(queue) \in Nat /\ D \cup K \subseteq 0..Len(queue) + 1 /\ K \in SUBSET Nat
  BY <1>1, LineIs
<1>3. /\ client' \in [Docs -> 0..MaxEdits] /\ client[d] <= client'[d] /\ worker[d] <= client[d]
      /\ held # NoChange /\ held.doc = d => held.text <= client[d]
      /\ \A k \in D \cup K : IsChange(line[k], d) => line[k].text <= client'[d]
  BY <1>1, ClientIs
<1>4. \/ worker'[d] = worker[d]
      \/ \E k \in D : IsChange(line[k], d) /\ worker'[d] = line[k].text
  BY <1>1 DEF Reaches, Latest
<1>5. client'[d] \in Int /\ client[d] \in Int /\ worker[d] \in Int /\ worker'[d] \in Int
  BY <1>1, <1>3 DEF IInv, TypeOK, Reaches
<1>6. worker'[d] <= client'[d]
  BY <1>3, <1>4, <1>5
<1>7. ASSUME held' # NoChange, held'.doc = d PROVE held'.text <= client'[d]
  <2>1. CASE held' = held
    <3>1. held \in Frames
      BY <1>7, <2>1 DEF IInv, Changes
    <3>2. held.text \in Int
      BY <3>1 DEF Frames
    <3> QED BY <1>3, <1>5, <1>7, <2>1, <3>2
  <2>2. ASSUME NEW e \in Docs, Typed(line, D, K, e), held' = line[Len(queue) + 1] PROVE held'.text <= client'[d]
    <3>1. held' = NewChange(e) /\ NewChange(e).doc = e /\ client'[e] = NewChange(e).text
      BY <2>2, TypedIs DEF Typed, IInv
    <3> QED BY <1>5, <1>7, <3>1
  <2> QED BY <1>1, <1>7, <2>1, <2>2 DEF Held
<1>8. ASSUME NEW t \in Ahead(d, Len(queue))' PROVE t <= client'[d]
  <2>1. \/ t = worker'[d]
        \/ held' # NoChange /\ held'.doc = d /\ t = held'.text
        \/ \E j \in K : IsChange(line[j], d) /\ t = line[j].text
    BY <1>1, <1>2, AheadAll
  <2> QED BY <2>1, <1>3, <1>6, <1>7
<1>9. worker'[d] \in Ahead(d, Len(queue))'
  BY <1>1, <1>2, AheadAll
<1>10. ASSUME ~disposed PROVE client'[d] \in Ahead(d, Len(queue))'
  <2>1. CASE Typed(line, D, K, d)
    <3>1. /\ NewChange(d).id = None /\ NewChange(d).doc = d /\ NewChange(d) # NoChange
          /\ client'[d] = NewChange(d).text /\ line[Len(queue) + 1] = NewChange(d)
      BY <2>1, TypedIs DEF Typed, IInv
    <3>2. IsChange(line[Len(queue) + 1], d) /\ line[Len(queue) + 1].text = client'[d]
      BY <3>1 DEF IsChange
    <3>3. CASE Len(queue) + 1 \in D
      <4>1. line[Len(queue) + 1].text <= worker'[d]
        BY <1>1, <1>2, <3>2, <3>3 DEF Reaches, Latest
      <4>2. worker'[d] = client'[d]
        BY <1>5, <1>6, <3>2, <4>1
      <4> QED BY <1>9, <4>2
    <3>4. CASE Len(queue) + 1 \in K
      BY <1>1, <1>2, <3>2, <3>4, AheadAll
    <3>5. CASE held' = NewChange(d)
      BY <1>1, <1>2, <3>1, <3>5, AheadAll
    <3> QED BY <2>1, <3>3, <3>4, <3>5 DEF Typed
  <2>2. CASE client'[d] = client[d] /\ ~Typed(line, D, K, d)
    <3>1. client[d] \in Ahead(d, Len(queue)) /\ Len(queue) \in 0..Len(queue)
      BY <1>2, <1>10 DEF IInv, Newest
    <3> DEFINE t == client'[d]
    <3>2. t \in Ahead(d, Len(queue))
      BY <2>2, <3>1
    <3> HIDE DEF t
    <3>3. \/ t <= worker'[d]
          \/ held' # NoChange /\ held'.doc = d /\ t = held'.text
          \/ \E j \in K : IsChange(line[j], d) /\ t = line[j].text
      BY <2>2, <3>1, <3>2, Onward
    <3>4. t <= worker'[d] => t = worker'[d]
      BY <1>5, <1>6 DEF t
    <3>5. t \in Ahead(d, Len(queue))'
      BY <1>1, <1>2, <3>3, <3>4, AheadAll
    <3> QED BY <3>5 DEF t
  <2>3. client'[d] = client[d] \/ Typed(line, D, K, d)
    <3>1. CASE Quiet(line, D, K)
      BY <3>1 DEF Quiet
    <3>2. ASSUME NEW e \in Docs, Typed(line, D, K, e) PROVE client'[d] = client[d] \/ Typed(line, D, K, d)
      BY <3>2, TypedIs DEF Typed, IInv
    <3>3. CASE \E i \in Ids, e \in Docs : Sent(line, D, K, i, e)
      BY <3>3 DEF Sent
    <3> QED BY <1>1, <3>1, <3>2, <3>3 DEF Comes
  <2> QED BY <2>1, <2>2, <2>3
<1> QED BY <1>8, <1>10

(* A change that comes is the one that is typed.                            *)
LEMMA NewIsTyped ==
  ASSUME IInv, NEW line, NEW D, NEW K, Comes(line, D, K), NEW d \in Docs,
         Len(queue) + 1 \in D \cup K, IsChange(line[Len(queue) + 1], d)
  PROVE  Typed(line, D, K, d)
<1>1. ~Quiet(line, D, K)
  BY DEF Quiet
<1>2. \A i \in Ids, e \in Docs : ~Sent(line, D, K, i, e)
  BY CoalescerAssumption DEF Sent, Frame, IsChange
<1>3. PICK e \in Docs : Typed(line, D, K, e)
  BY <1>1, <1>2 DEF Comes
<1>4. e = d
  BY <1>3 DEF Typed, NewChange, IsChange
<1> QED BY <1>3, <1>4

-----------------------------------------------------------------------------
(* A frame of the line finds its own text ahead of it, or a newer one, and  *)
(* one whose reply Monaco rebases none that is newer.                       *)
Finds(f, k) ==
  /\ \E t \in Ahead(f.doc, k) : f.text <= t
  /\ f.id \in Tokens => f.text \in Ahead(f.doc, k) /\ \A t \in Ahead(f.doc, k) : t <= f.text

(* Before the step, the frame that comes included.                          *)
LEMMA FindsBefore ==
  ASSUME IInv, NEW line, NEW D, NEW K, Moves(line, D, K), NEW p \in D \cup K, line[p].id # None
  PROVE  \E k \in 0..Len(queue) : (IF p <= Len(queue) THEN k = p ELSE k = Len(queue)) /\ Finds(line[p], k)
<1>1. /\ IsLine(line) /\ Splits(line, D, K) /\ Comes(line, D, K)
  BY DEF Moves
<1>2. /\ Len(queue) \in Nat /\ DOMAIN queue = 1..Len(queue)
      /\ D \cup K \subseteq 0..Len(queue) + 1 /\ \A k \in 1..Len(queue) : line[k] = queue[k]
      /\ p <= Len(queue) => p \in 1..Len(queue)
  BY <1>1, LineIs
<1>3. CASE p <= Len(queue)
  <2>1. p \in DOMAIN queue /\ queue[p] = line[p] /\ p \in 0..Len(queue)
    BY <1>2, <1>3
  <2>2. /\ \E t \in Ahead(queue[p].doc, p) : queue[p].text <= t
        /\ queue[p].id \in Tokens =>
             queue[p].text \in Ahead(queue[p].doc, p) /\ \A t \in Ahead(queue[p].doc, p) : t <= queue[p].text
    BY <2>1 DEF IInv, Served
  <2> QED BY <1>3, <2>1, <2>2 DEF Finds
<1>4. CASE ~(p <= Len(queue))
  <2>1. p = Len(queue) + 1
    BY <1>2, <1>4
  <2>2. PICK i \in Ids, d \in Docs : Sent(line, D, K, i, d)
    <3>1. ~Quiet(line, D, K)
      BY <2>1 DEF Quiet
    <3>2. \A d \in Docs : ~Typed(line, D, K, d)
      BY <2>1 DEF Typed, NewChange
    <3> QED BY <1>1, <3>1, <3>2 DEF Comes
  <2>3. line[p] = [id |-> i, doc |-> d, text |-> client[d]] /\ ~disposed
    BY <2>1, <2>2 DEF Sent, Frame
  <2>4. client[d] \in Ahead(d, Len(queue)) /\ \A t \in Ahead(d, Len(queue)) : t <= client[d]
    BY <2>3 DEF IInv, Newest
  <2>5. client[d] \in Int
    BY DEF IInv, TypeOK
  <2>6. Finds(line[p], Len(queue))
    BY <2>3, <2>4, <2>5 DEF Finds
  <2>7. Len(queue) \in 0..Len(queue)
    BY <1>2
  <2> QED BY <1>4, <2>6, <2>7
<1> QED BY <1>3, <1>4

(* A frame that waits finds them after the step.                            *)
LEMMA ServedKept ==
  ASSUME IInv, NEW line, NEW D, NEW K, Moves(line, D, K), NEW g, Along(g, queue', line, K),
         NEW x \in DOMAIN queue', line[g[x]].id # None
  PROVE  Finds(line[g[x]], x)'
<1>1. /\ IsLine(line) /\ Splits(line, D, K) /\ Reaches(line, D) /\ Comes(line, D, K) /\ Held(line, D, K)
      /\ Selects(queue', line, K)
  BY DEF Moves
<1>2. /\ Len(queue) \in Nat /\ D \cup K \subseteq 0..Len(queue) + 1 /\ K \in SUBSET Nat
      /\ line[0] = held /\ \A k \in D \cup K : line[k] \in Frames
  BY <1>1, LineIs
<1>4. queue' \in Seq(Frames)
  BY <1>1 DEF Selects
<1> DEFINE p == g[x]
           f == line[p]
<1>3. PICK d : d = f.doc
  OBVIOUS
<1>5. p \in K /\ f.id # None
  BY DEF Along
<1>6. f \in Frames /\ d \in Docs /\ f.text \in Int
  BY <1>2, <1>3, <1>5 DEF Frames
<1>7. \A t : t \in Ahead(d, x)' <=>
        \/ t = worker'[d]
        \/ held' # NoChange /\ held'.doc = d /\ t = held'.text
        \/ \E j \in K : j <= p /\ IsChange(line[j], d) /\ t = line[j].text
  <2>1. ASSUME NEW t
        PROVE  t \in Ahead(d, x)' <=>
                 \/ t = worker'[d]
                 \/ held' # NoChange /\ held'.doc = d /\ t = held'.text
                 \/ Waiting(line, K, g[x], d, t)
    <3>1. K \in SUBSET Nat /\ d \in Docs
      BY <1>2, <1>6
    <3> QED BY <1>4, <3>1, AheadAfter
  <2> QED BY <2>1 DEF Waiting
<1> HIDE DEF p, f
<1>8. PICK k \in 0..Len(queue) : (IF p <= Len(queue) THEN k = p ELSE k = Len(queue)) /\ Finds(f, k)
  BY <1>5, FindsBefore DEF f
<1>14. Finds(f, k) =>
         /\ \E t \in Ahead(d, k) : f.text <= t
         /\ f.id \in Tokens => f.text \in Ahead(d, k) /\ \A t \in Ahead(d, k) : t <= f.text
  BY <1>3 DEF Finds
<1>9. k <= p /\ p \in Nat /\ p <= Len(queue) + 1
  BY <1>2, <1>5, <1>8
<1>10. ASSUME NEW t \in Ahead(d, k)
       PROVE  \/ t = worker[d] /\ t <= worker'[d]
              \/ \E j \in D : j <= k /\ IsChange(line[j], d) /\ t = line[j].text /\ t <= worker'[d]
              \/ t \in Ahead(d, x)'
              \/ /\ t <= client'[d] /\ held' # NoChange /\ held'.doc = d /\ held'.text = client'[d]
                 /\ Len(queue) + 1 \notin K /\ Typed(line, D, K, d)
  <2>1. \/ t = worker[d] /\ t <= worker'[d]
        \/ \E j \in D : j <= k /\ IsChange(line[j], d) /\ t = line[j].text /\ t <= worker'[d]
        \/ held' # NoChange /\ held'.doc = d /\ t = held'.text
        \/ \E j \in K : j <= k /\ IsChange(line[j], d) /\ t = line[j].text
        \/ /\ t <= client'[d] /\ held' # NoChange /\ held'.doc = d /\ held'.text = client'[d]
           /\ Len(queue) + 1 \notin K /\ Typed(line, D, K, d)
    BY <1>6, Onward
  <2>2. ASSUME NEW j \in K, j <= k PROVE j <= p
    BY <1>2, <1>9, <2>2
  <2>3. held' # NoChange /\ held'.doc = d /\ t = held'.text => t \in Ahead(d, x)'
    BY <1>7
  <2>4. ASSUME NEW j \in K, j <= k, IsChange(line[j], d), t = line[j].text PROVE t \in Ahead(d, x)'
    BY <1>7, <2>2, <2>4
  <2> QED BY <2>1, <2>3, <2>4
<1>11. worker'[d] \in Ahead(d, x)' /\ worker'[d] \in Int /\ client'[d] \in Int
  BY <1>1, <1>6, <1>7, ClientIs DEF Reaches
<1>12. \E t \in Ahead(d, x)' : f.text <= t
  <2>1. PICK t \in Ahead(d, k) : f.text <= t
    BY <1>8, <1>14
  <2>2. t \in Int
    <3>1. t \in Ahead(d, k)
      OBVIOUS
    <3>2. \A j \in 1..Len(queue) : line[j] \in Frames
      BY <1>1, LineIs
    <3>3. held # NoChange => held \in Frames
      BY DEF IInv, Changes
    <3>4. worker[d] \in Int
      BY <1>6 DEF IInv, TypeOK
    <3> QED BY <1>1, <1>6, <3>1, <3>2, <3>3, <3>4, AheadBefore DEF Frames
  <2>3. CASE t <= worker'[d]
    BY <1>6, <1>11, <2>1, <2>2, <2>3
  <2>4. CASE t \in Ahead(d, x)'
    BY <2>1, <2>4
  <2>5. CASE t <= client'[d] /\ held' # NoChange /\ held'.doc = d /\ held'.text = client'[d]
    <3>1. held'.text \in Ahead(d, x)'
      BY <1>7, <2>5
    <3> QED BY <1>6, <1>11, <2>1, <2>2, <2>5, <3>1
  <2> QED BY <1>10, <2>3, <2>4, <2>5
<1>13. ASSUME f.id \in Tokens
       PROVE  f.text \in Ahead(d, x)' /\ \A t \in Ahead(d, x)' : t <= f.text
  <2>1. f.text \in Ahead(d, k) /\ \A t \in Ahead(d, k) : t <= f.text
    BY <1>8, <1>13, <1>14
  <2>2. ~(Typed(line, D, K, d) /\ Len(queue) + 1 \notin K)
    BY <1>3, <1>5, <1>13 DEF Typed, f
  <2>3. \A t : t \in Ahead(d, k) <=>
           \/ t = worker[d]
           \/ held # NoChange /\ held.doc = d /\ t = held.text
           \/ \E j \in 1..Len(queue) : j <= k /\ IsChange(line[j], d) /\ t = line[j].text
    BY <1>1, <1>6, AheadBefore
  <2>4. ASSUME NEW j \in D \cup K, j <= Len(queue), j <= p, IsChange(line[j], d) PROVE line[j].text \in Ahead(d, k)
    <3>1. CASE j = 0
      <4>1. held # NoChange
        BY <1>1, <1>2, <3>1 DEF Splits
      <4> QED BY <1>2, <2>3, <2>4, <3>1, <4>1 DEF IsChange
    <3>2. CASE j # 0
      <4>1. j \in 1..Len(queue) /\ j <= k
        BY <1>2, <1>8, <2>4, <3>2
      <4> QED BY <2>3, <2>4, <4>1
    <3> QED BY <3>1, <3>2
  <2>5. ASSUME NEW j \in D, IsChange(line[j], d) PROVE j <= Len(queue) /\ j <= p
    <3>1. ~(p < j)
      <4>1. SUFFICES ASSUME p < j PROVE FALSE
        OBVIOUS
      <4>2. line[j].id \in KeepAlives \/ (j = Len(queue) + 1 /\ line[j].id = None)
        BY <1>1, <1>5, <4>1 DEF Splits
      <4>3. j = Len(queue) + 1
        BY <2>5, <4>2, CoalescerAssumption DEF IsChange
      <4>4. Typed(line, D, K, d)
        BY <1>1, <1>6, <2>5, <4>3, NewIsTyped
      <4> QED BY <1>1, <2>2, <4>3, <4>4 DEF Splits
    <3>2. p # j /\ j \in 0..Len(queue) + 1
      BY <1>1, <1>2, <1>5 DEF Splits
    <3>3. j < p
      BY <1>9, <3>1, <3>2
    <3> QED BY <1>9, <1>2, <3>2, <3>3
  <2>6. worker'[d] \in Ahead(d, k)
    <3>1. \/ worker'[d] = worker[d]
          \/ \E j \in D : IsChange(line[j], d) /\ worker'[d] = line[j].text
      BY <1>1, <1>6 DEF Reaches, Latest
    <3> QED BY <2>3, <2>4, <2>5, <3>1
  <2>7. held' # NoChange /\ held'.doc = d => held'.text \in Ahead(d, k)
    <3>1. SUFFICES ASSUME held' # NoChange, held'.doc = d PROVE held'.text \in Ahead(d, k)
      OBVIOUS
    <3>2. CASE held' = held
      BY <2>3, <3>1, <3>2
    <3>3. ASSUME NEW e \in Docs, Typed(line, D, K, e), held' = line[Len(queue) + 1], Len(queue) + 1 \notin D \cup K
          PROVE  FALSE
      <4>1. e = d
        BY <3>1, <3>3, TypedIs DEF Typed, IInv
      <4> QED BY <2>2, <3>3, <4>1
    <3> QED BY <1>1, <3>1, <3>2, <3>3 DEF Held
  <2>8. ASSUME NEW j \in K, j <= p, IsChange(line[j], d) PROVE line[j].text \in Ahead(d, k)
    <3>1. j # p
      BY <1>5, <2>8 DEF IsChange, f
    <3>2. j <= Len(queue)
      BY <1>2, <1>9, <2>8, <3>1
    <3> QED BY <2>4, <2>8, <3>2
  <2>9. ASSUME NEW t \in Ahead(d, x)' PROVE t <= f.text
    BY <1>7, <2>1, <2>6, <2>7, <2>8
  <2>10. f.text \in Ahead(d, x)'
    <3>1. \/ f.text <= worker'[d]
          \/ f.text \in Ahead(d, x)'
      BY <1>10, <2>1, <2>2
    <3>2. worker'[d] <= f.text
      BY <1>11, <2>9
    <3>3. f.text <= worker'[d] => f.text = worker'[d]
      BY <1>6, <1>11, <3>2
    <3> QED BY <1>11, <3>1, <3>3
  <2> QED BY <2>9, <2>10
<1> HIDE DEF f
<1> QED BY <1>3, <1>12, <1>13 DEF Finds, p, f

-----------------------------------------------------------------------------
(* What comes last, if it is no change, was not sent before.                *)
LEMMA NewIsUnsent ==
  ASSUME IInv, NEW line, NEW D, NEW K, Comes(line, D, K), Len(queue) + 1 \in D \cup K, line[Len(queue) + 1].id # None
  PROVE  /\ line[Len(queue) + 1].id \in Ids /\ fate[line[Len(queue) + 1].id] = "unsent"
         /\ order' = Append(order, line[Len(queue) + 1].id) /\ client' = client /\ ~disposed
<1>1. ~Quiet(line, D, K)
  BY DEF Quiet
<1>2. \A d \in Docs : ~Typed(line, D, K, d)
  BY DEF Typed, NewChange
<1>3. PICK i \in Ids, d \in Docs : Sent(line, D, K, i, d)
  BY <1>1, <1>2 DEF Comes
<1> QED BY <1>3 DEF Sent, Frame

(* The order of the frames sent grows at its end.                           *)
LEMMA OrderIs ==
  ASSUME IInv, NEW line, NEW D, NEW K, Comes(line, D, K)
  PROVE  /\ Len(order) \in Nat /\ DOMAIN order = 1..Len(order) /\ order' \in Seq(Ids)
         /\ DOMAIN order' = 1..Len(order') /\ Len(order') \in Nat
         /\ \A p \in 1..Len(order) : p \in DOMAIN order' /\ order'[p] = order[p]
         /\ \A p \in DOMAIN order' : p \in 1..Len(order) \/
              /\ p = Len(order) + 1 /\ order'[p] = line[Len(queue) + 1].id
              /\ Len(queue) + 1 \in D \cup K /\ line[Len(queue) + 1].id # None
<1>1. order \in Seq(Ids) /\ None \notin Ids
  BY CoalescerAssumption DEF IInv, TypeOK
<1>2. Len(order) \in Nat /\ DOMAIN order = 1..Len(order)
  BY <1>1, SeqIs
<1>3. CASE order' = order
  BY <1>1, <1>2, <1>3
<1>4. ASSUME NEW i \in Ids, NEW d \in Docs, Sent(line, D, K, i, d)
      PROVE  /\ order' \in Seq(Ids) /\ Len(order') = Len(order) + 1
             /\ \A p \in 1..Len(order) : order'[p] = order[p]
             /\ order'[Len(order) + 1] = line[Len(queue) + 1].id
             /\ Len(queue) + 1 \in D \cup K /\ line[Len(queue) + 1].id # None
  <2>1. order' = Append(order, i) /\ line[Len(queue) + 1].id = i /\ Len(queue) + 1 \in D \cup K
    BY <1>4 DEF Sent, Frame
  <2> QED BY <1>1, <2>1, AppendProperties
<1>5. CASE \E i \in Ids, d \in Docs : Sent(line, D, K, i, d)
  <2>1. /\ order' \in Seq(Ids) /\ Len(order') = Len(order) + 1
        /\ \A p \in 1..Len(order) : order'[p] = order[p]
        /\ order'[Len(order) + 1] = line[Len(queue) + 1].id
        /\ Len(queue) + 1 \in D \cup K /\ line[Len(queue) + 1].id # None
    BY <1>4, <1>5
  <2>2. DOMAIN order' = 1..(Len(order) + 1) /\ Len(order') \in Nat
    BY <1>2, <2>1, SeqIs
  <2>3. \A p \in 1..(Len(order) + 1) : p \in 1..Len(order) \/ p = Len(order) + 1
    BY <1>2
  <2>4. \A p \in 1..Len(order) : p \in 1..(Len(order) + 1)
    BY <1>2
  <2> QED BY <1>2, <2>1, <2>2, <2>3, <2>4
<1> QED BY <1>3, <1>4, <1>5 DEF Comes, Quiet, Typed, Types

(* The frames that wait are those in the queue.                             *)
LEMMA WaitsKept ==
  ASSUME IInv, NEW line, NEW D, NEW K, Moves(line, D, K) PROVE Waits'
<1>1. /\ IsLine(line) /\ Splits(line, D, K) /\ Comes(line, D, K) /\ Fates(line, D, K)
      /\ disposed' = disposed
  BY DEF Moves, life
<1>2. PICK g : Along(g, queue', line, K) /\ queue' \in Seq(Frames)
  BY DEF Moves, Selects, Along
<1>3. /\ \A k \in DOMAIN queue' : g[k] \in K /\ queue'[k] = line[g[k]]
      /\ \A j, k \in DOMAIN queue' : j < k => g[j] < g[k]
      /\ \A p \in K : \E k \in DOMAIN queue' : g[k] = p
  BY <1>2 DEF Along
<1>4. \A k \in D \cup K : line[k] \in Frames
  BY <1>1, LineIs
<1>5. ASSUME NEW k \in DOMAIN queue', queue'[k].id # None PROVE fate'[queue'[k].id] = "waiting"
  <2>1. queue'[k].id \in Ids
    BY <1>3, <1>4, <1>5 DEF Frames
  <2> QED BY <1>1, <1>3, <2>1 DEF Fates
<1>6. ASSUME NEW i \in Ids, ~disposed, fate'[i] = "waiting" PROVE \E k \in DOMAIN queue' : queue'[k].id = i
  <2>1. PICK p \in K : line[p].id = i
    BY <1>1, <1>6 DEF Fates
  <2>2. PICK k \in DOMAIN queue' : g[k] = p
    BY <1>3
  <2> QED BY <1>3, <2>1, <2>2
<1>7. ASSUME NEW j \in DOMAIN queue', NEW k \in DOMAIN queue', j # k, queue'[j].id = queue'[k].id PROVE queue'[j].id = None
  <2>1. j \in Int /\ k \in Int
    BY <1>2, SeqIs
  <2>2. g[j] \in Int /\ g[k] \in Int
    <3>1. K \in SUBSET Nat
      BY <1>1, LineIs
    <3>2. g[j] \in K /\ g[k] \in K
      BY <1>3
    <3>3. g[j] \in Nat /\ g[k] \in Nat
      BY <3>1, <3>2
    <3> QED BY <3>3
  <2>3. j < k \/ k < j
    BY <1>7, <2>1
  <2>4. g[j] < g[k] \/ g[k] < g[j]
    BY <1>3, <2>3
  <2>5. g[j] # g[k]
    BY <2>2, <2>4
  <2>6. g[j] \in D \cup K /\ g[k] \in D \cup K /\ line[g[j]].id = line[g[k]].id
    BY <1>3, <1>7
  <2> QED BY <1>1, <1>3, <2>5, <2>6, LineIs
<1> QED BY <1>1, <1>5, <1>6, <1>7 DEF Waits

(* Along the line the frames were sent one after the other.                 *)
LEMMA LineInOrder ==
  ASSUME IInv, NEW line, NEW D, NEW K, IsLine(line), Splits(line, D, K), Comes(line, D, K),
         NEW j \in D \cup K, NEW k \in D \cup K, j < k,
         NEW p \in DOMAIN order', NEW q \in DOMAIN order', order'[p] = line[j].id, order'[q] = line[k].id
  PROVE  p < q
<1>1. /\ Len(order) \in Nat /\ DOMAIN order = 1..Len(order) /\ order' \in Seq(Ids)
      /\ \A x \in 1..Len(order) : x \in DOMAIN order' /\ order'[x] = order[x]
      /\ \A x \in DOMAIN order' : x \in 1..Len(order) \/
           /\ x = Len(order) + 1 /\ order'[x] = line[Len(queue) + 1].id
           /\ Len(queue) + 1 \in D \cup K /\ line[Len(queue) + 1].id # None
  BY OrderIs
<1>2. order'[p] \in Ids /\ order'[q] \in Ids /\ None \notin Ids
  BY <1>1, SeqIs, CoalescerAssumption
<1>3. /\ Len(queue) \in Nat /\ DOMAIN queue = 1..Len(queue) /\ \A x \in 1..Len(queue) : line[x] = queue[x]
      /\ D \cup K \subseteq 0..Len(queue) + 1
      /\ \A x \in D \cup K : x <= Len(queue) /\ line[x].id # None => x \in 1..Len(queue) /\ fate[line[x].id] = "waiting"
      /\ \A x, y \in D \cup K : x # y /\ line[x].id = line[y].id => line[x].id = None
  BY LineIs
<1>4. /\ \A i \in Ids : fate[i] = "unsent" <=> \A x \in DOMAIN order : order[x] # i
      /\ \A x, y \in DOMAIN queue, u, v \in DOMAIN order :
           x < y /\ order[u] = queue[x].id /\ order[v] = queue[y].id => u < v
  BY DEF IInv, InOrder
<1>5. j <= Len(queue) /\ j \in Int /\ k \in Int
  BY <1>3
<1>6. j \in 1..Len(queue) /\ fate[line[j].id] = "waiting"
  BY <1>2, <1>3, <1>5
<1>7. p \in 1..Len(order)
  <2>1. SUFFICES ASSUME p \notin 1..Len(order) PROVE FALSE
    OBVIOUS
  <2>2. Len(queue) + 1 \in D \cup K /\ line[Len(queue) + 1].id # None /\ line[j].id = line[Len(queue) + 1].id
    BY <1>1, <2>1
  <2>3. j # Len(queue) + 1
    BY <1>3, <1>5
  <2> QED BY <1>3, <2>2, <2>3
<1>8. CASE k <= Len(queue)
  <2>1. k \in 1..Len(queue) /\ fate[line[k].id] = "waiting"
    BY <1>2, <1>3, <1>8
  <2>2. q \in 1..Len(order)
    <3>1. SUFFICES ASSUME q \notin 1..Len(order) PROVE FALSE
      OBVIOUS
    <3>2. Len(queue) + 1 \in D \cup K /\ line[Len(queue) + 1].id # None /\ line[k].id = line[Len(queue) + 1].id
      BY <1>1, <3>1
    <3>3. k # Len(queue) + 1
      BY <1>3, <1>8
    <3> QED BY <1>3, <3>2, <3>3
  <2>3. j \in DOMAIN queue /\ k \in DOMAIN queue /\ p \in DOMAIN order /\ q \in DOMAIN order
    BY <1>1, <1>3, <1>6, <1>7, <2>1, <2>2
  <2>4. order[p] = queue[j].id /\ order[q] = queue[k].id
    BY <1>1, <1>3, <1>6, <1>7, <2>1, <2>2
  <2> QED BY <1>4, <2>3, <2>4
<1>9. CASE ~(k <= Len(queue))
  <2>1. k = Len(queue) + 1
    BY <1>3, <1>9
  <2>2. fate[line[k].id] = "unsent"
    BY <1>2, <2>1, NewIsUnsent
  <2>3. q \notin 1..Len(order)
    BY <1>1, <1>2, <1>4, <2>2
  <2>4. q = Len(order) + 1
    BY <1>1, <2>3
  <2> QED BY <1>1, <1>7, <2>4
<1> QED BY <1>8, <1>9

(* They wait in the order they were sent.                                   *)
LEMMA InOrderKept ==
  ASSUME IInv, NEW line, NEW D, NEW K, Moves(line, D, K) PROVE InOrder'
<1>1. /\ IsLine(line) /\ Splits(line, D, K) /\ Comes(line, D, K) /\ Fates(line, D, K)
  BY DEF Moves
<1>2. PICK g : Along(g, queue', line, K) /\ queue' \in Seq(Frames)
  BY DEF Moves, Selects, Along
<1>3. /\ \A k \in DOMAIN queue' : g[k] \in K /\ queue'[k] = line[g[k]]
      /\ \A j, k \in DOMAIN queue' : j < k => g[j] < g[k]
  BY <1>2 DEF Along
<1>4. /\ Len(order) \in Nat /\ DOMAIN order = 1..Len(order) /\ order' \in Seq(Ids)
      /\ \A p \in 1..Len(order) : p \in DOMAIN order' /\ order'[p] = order[p]
      /\ \A p \in DOMAIN order' : p \in 1..Len(order) \/
           /\ p = Len(order) + 1 /\ order'[p] = line[Len(queue) + 1].id
           /\ Len(queue) + 1 \in D \cup K /\ line[Len(queue) + 1].id # None
  BY <1>1, OrderIs
<1>5. /\ \A i \in Ids : fate[i] = "unsent" <=> \A p \in DOMAIN order : order[p] # i
      /\ \A p, q \in DOMAIN order : order[p] = order[q] => p = q
  BY DEF IInv, InOrder
<1>6. \A p \in DOMAIN order' : p \notin 1..Len(order) => order'[p] \in Ids /\ fate[order'[p]] = "unsent"
  BY <1>1, <1>4, NewIsUnsent
<1>7. ASSUME NEW i \in Ids PROVE fate'[i] = "unsent" <=> \A p \in DOMAIN order' : order'[p] # i
  <2>1. fate'[i] = "unsent" <=> fate[i] = "unsent" /\ \A k \in D \cup K : line[k].id # i
    BY <1>1 DEF Fates
  <2>2. ASSUME fate'[i] = "unsent", NEW p \in DOMAIN order', order'[p] = i PROVE FALSE
    BY <1>4, <1>5, <2>1, <2>2
  <2>3. ASSUME \A p \in DOMAIN order' : order'[p] # i, fate'[i] # "unsent" PROVE FALSE
    <3>1. fate[i] = "unsent"
      BY <1>4, <1>5, <2>3
    <3>2. PICK k \in D \cup K : line[k].id = i
      BY <2>1, <2>3, <3>1
    <3>3. k = Len(queue) + 1 /\ i # None
      <4>1. i # None
        BY CoalescerAssumption
      <4>2. ~(k <= Len(queue))
        BY <1>1, <3>1, <3>2, <4>1, LineIs
      <4>3. Len(queue) \in Nat /\ D \cup K \subseteq 0..Len(queue) + 1
        BY <1>1, LineIs
      <4> QED BY <4>1, <4>2, <4>3
    <3>4. order' = Append(order, i)
      BY <1>1, <3>2, <3>3, NewIsUnsent
    <3>5. Len(order) + 1 \in DOMAIN order' /\ order'[Len(order) + 1] = i
      <4>1. order \in Seq(Ids)
        BY DEF IInv, TypeOK
      <4>2. Len(order') = Len(order) + 1 /\ order'[Len(order) + 1] = i
        BY <3>4, <4>1, AppendProperties
      <4>3. DOMAIN order' = 1..Len(order')
        BY <1>4, SeqIs
      <4> QED BY <1>4, <4>2, <4>3
    <3> QED BY <2>3, <3>5
  <2> QED BY <2>2, <2>3
<1>8. ASSUME NEW p \in DOMAIN order', NEW q \in DOMAIN order', order'[p] = order'[q] PROVE p = q
  <2>1. p \in 1..Len(order) /\ q \in 1..Len(order) => p = q
    BY <1>4, <1>5, <1>8
  <2>2. p \in 1..Len(order) => fate[order'[p]] # "unsent" \/ order'[p] \notin Ids
    BY <1>4, <1>5
  <2>3. q \in 1..Len(order) => fate[order'[q]] # "unsent" \/ order'[q] \notin Ids
    BY <1>4, <1>5
  <2> QED BY <1>4, <1>6, <1>8, <2>1, <2>2, <2>3
<1>9. ASSUME NEW j \in DOMAIN queue', NEW k \in DOMAIN queue', NEW p \in DOMAIN order', NEW q \in DOMAIN order',
             j < k, order'[p] = queue'[j].id, order'[q] = queue'[k].id
      PROVE  p < q
  <2>1. g[j] \in D \cup K /\ g[k] \in D \cup K /\ g[j] < g[k] /\ order'[p] = line[g[j]].id /\ order'[q] = line[g[k]].id
    BY <1>3, <1>9
  <2> QED BY <1>1, <2>1, LineInOrder
<1> QED BY <1>7, <1>8, <1>9 DEF InOrder

(* None reaches the worker while an earlier one waits, keep-alives apart.   *)
LEMMA SentOrderIsKept ==
  ASSUME IInv, NEW line, NEW D, NEW K, Moves(line, D, K) PROVE SentOrderKept'
<1>1. /\ IsLine(line) /\ Splits(line, D, K) /\ Comes(line, D, K) /\ Fates(line, D, K)
  BY DEF Moves
<1>2. /\ Len(order) \in Nat /\ DOMAIN order = 1..Len(order) /\ order' \in Seq(Ids)
      /\ DOMAIN order' = 1..Len(order') /\ Len(order') \in Nat
      /\ \A p \in 1..Len(order) : p \in DOMAIN order' /\ order'[p] = order[p]
      /\ \A p \in DOMAIN order' : p \in 1..Len(order) \/
           /\ p = Len(order) + 1 /\ order'[p] = line[Len(queue) + 1].id
           /\ Len(queue) + 1 \in D \cup K /\ line[Len(queue) + 1].id # None
  BY <1>1, OrderIs
<1>3. SUFFICES ASSUME NEW j \in DOMAIN order', fate'[order'[j]] \in {"forwarded", "answered"},
                      NEW k \in 1..j - 1, fate'[order'[k]] = "waiting"
               PROVE  order'[j] \in KeepAlives
  BY DEF SentOrderKept
<1>4. j \in Int /\ k \in Int /\ k < j /\ k \in DOMAIN order' /\ k \in 1..Len(order)
  BY <1>2
<1>5. order'[j] \in Ids /\ order'[k] \in Ids /\ None \notin Ids /\ order'[k] = order[k]
  BY <1>2, <1>4, SeqIs, CoalescerAssumption
<1>6. fate[order[k]] = "waiting"
  <2>1. fate[order[k]] # "unsent"
    BY <1>2, <1>4, <1>5 DEF IInv, InOrder
  <2>2. fate[order[k]] = "waiting" \/ (Len(queue) + 1 \in K /\ order[k] = line[Len(queue) + 1].id)
    BY <1>1, <1>3, <1>5 DEF Fates
  <2>3. ASSUME order[k] = line[Len(queue) + 1].id, Len(queue) + 1 \in K PROVE FALSE
    BY <1>1, <1>5, <2>1, <2>3, NewIsUnsent
  <2> QED BY <2>2, <2>3
<1>7. CASE fate[order'[j]] \in {"forwarded", "answered"}
  <2>1. j \in DOMAIN order /\ order'[j] = order[j]
    BY <1>1, <1>2, <1>7, NewIsUnsent
  <2> QED BY <1>4, <1>6, <1>7, <2>1 DEF IInv, SentOrderKept
<1>8. CASE fate[order'[j]] \notin {"forwarded", "answered"}
  <2>1. PICK y \in D : line[y].id = order'[j]
    BY <1>1, <1>3, <1>5, <1>8 DEF Fates
  <2>2. ~disposed
    BY <1>1, <2>1, LineIs
  <2>3. PICK x \in K : line[x].id = order'[k]
    BY <1>1, <1>3, <1>5, <2>2 DEF Fates
  <2>4. x \in D \cup K /\ y \in D \cup K /\ x # y /\ x \in Int /\ y \in Int
    <3>1. Len(queue) \in Nat /\ D \cup K \subseteq 0..Len(queue) + 1
      BY <1>1, LineIs
    <3> QED BY <1>1, <3>1 DEF Splits
  <2>5. ~(y < x)
    <3>1. y < x => j < k
      BY <1>1, <1>4, <2>1, <2>3, <2>4, LineInOrder
    <3> QED BY <1>4, <3>1
  <2>6. x < y
    BY <2>4, <2>5
  <2> QED BY <1>1, <1>5, <2>1, <2>3, <2>6 DEF Splits
<1> QED BY <1>7, <1>8

(* A frame finds its own text at the worker, or a newer one; one whose      *)
(* reply Monaco rebases exactly its own.                                    *)
LEMMA ServedIsKept ==
  ASSUME IInv, NEW line, NEW D, NEW K, Moves(line, D, K) PROVE ServedAtItsText'
<1>1. /\ IsLine(line) /\ Splits(line, D, K) /\ Comes(line, D, K) /\ Fates(line, D, K) /\ Reaches(line, D)
  BY DEF Moves
<1>2. /\ Len(queue) \in Nat /\ D \cup K \subseteq 0..Len(queue) + 1 /\ line[0] = held
      /\ \A k \in D \cup K : line[k] \in Frames
      /\ \A k \in 1..Len(queue) : line[k] = queue[k]
      /\ (held # NoChange => held \in Frames /\ held.id = None)
      /\ \A k \in D \cup K : k <= Len(queue) /\ line[k].id # None => k \in 1..Len(queue) /\ fate[line[k].id] = "waiting"
  BY <1>1, LineIs
<1>3. SUFFICES ASSUME NEW i \in Ids, fate'[i] \in {"forwarded", "answered"}
               PROVE  /\ i \notin KeepAlives => texts'[i].got >= texts'[i].sent
                      /\ i \in Tokens => texts'[i].got = texts'[i].sent
  BY DEF ServedAtItsText
<1>4. CASE \A k \in D : line[k].id # i
  <2>1. fate[i] \in {"forwarded", "answered"}
    BY <1>1, <1>3, <1>4 DEF Fates
  <2>3. texts'[i] = texts[i]
    BY <1>1, <1>4 DEF Reaches
  <2> QED BY <2>1, <2>3 DEF IInv, ServedAtItsText
<1>5. CASE \E k \in D : line[k].id = i
  <2>1. PICK p \in D : line[p].id = i
    BY <1>5
  <2> DEFINE f == line[p]
  <2>2. f \in Frames /\ f.id = i /\ i # None
    BY <1>2, <2>1, CoalescerAssumption
  <2>3. PICK d : d = f.doc
    OBVIOUS
  <2>4. d \in Docs /\ f.text \in Int
    BY <2>2, <2>3 DEF Frames
  <2>5. texts'[i].sent = f.text /\ Latest(line, D, p, d, texts'[i].got) /\ texts'[i].got \in Int
    BY <1>1, <2>1, <2>2, <2>3 DEF Reaches
  <2> DEFINE u == texts'[i].got
  <2>6. /\ u = worker[d] \/ \E k \in D : k <= p /\ IsChange(line[k], d) /\ u = line[k].text
        /\ worker[d] <= u /\ \A k \in D : k <= p /\ IsChange(line[k], d) => line[k].text <= u
    BY <2>5 DEF Latest
  <2> HIDE DEF u
  <2>7. PICK k \in 0..Len(queue) : (IF p <= Len(queue) THEN k = p ELSE k = Len(queue)) /\ Finds(f, k)
    BY <2>1, <2>2, FindsBefore
  <2>8. k <= p /\ p \in Nat /\ p # 0 /\ p <= Len(queue) + 1
    BY <1>2, <2>1, <2>2, <2>7
  <2>9. \A t : t \in Ahead(d, k) <=>
           \/ t = worker[d]
           \/ held # NoChange /\ held.doc = d /\ t = held.text
           \/ \E j \in 1..Len(queue) : j <= k /\ IsChange(line[j], d) /\ t = line[j].text
    BY <1>1, <2>4, AheadBefore
  <2>10. ASSUME i \notin KeepAlives PROVE u >= f.text
    <3>1. PICK t \in Ahead(d, k) : f.text <= t
      BY <2>3, <2>7 DEF Finds
    <3>2. t <= u
      <4>1. CASE t = worker[d]
        BY <2>6, <4>1
      <4>2. CASE held # NoChange /\ held.doc = d /\ t = held.text
        <5>1. 0 \in D
          BY <1>1, <2>1, <2>2, <4>2 DEF Splits
        <5>2. IsChange(line[0], d) /\ 0 <= p
          BY <1>2, <2>8, <4>2 DEF IsChange
        <5> QED BY <1>2, <2>6, <4>2, <5>1, <5>2
      <4>3. ASSUME NEW j \in 1..Len(queue), j <= k, IsChange(line[j], d), t = line[j].text PROVE t <= u
        <5>1. j \in D \cup K /\ j <= p
          BY <1>1, <1>2, <2>7, <2>8, <4>3 DEF Splits, IsChange
        <5>2. j # p
          BY <2>2, <4>3 DEF IsChange
        <5>3. j \in K => j < p
          BY <2>8, <5>1, <5>2
        <5>4. j \notin K
          <6>1. SUFFICES ASSUME j \in K PROVE FALSE
            OBVIOUS
          <6>2. line[p].id \in KeepAlives \/ line[p].id = None
            BY <1>1, <2>1, <5>3, <6>1 DEF Splits
          <6> QED BY <2>2, <2>10, <6>2
        <5> QED BY <2>6, <4>3, <5>1, <5>4
      <4> QED BY <2>9, <3>1, <4>1, <4>2, <4>3
    <3>3. t \in Int
      <4>1. worker[d] \in Int
        BY <2>4 DEF IInv, TypeOK
      <4>2. \A j \in 1..Len(queue) : line[j] \in Frames
        BY <1>1, LineIs
      <4> QED BY <1>2, <2>9, <3>1, <4>1, <4>2 DEF Frames
    <3> QED BY <2>4, <2>5, <3>1, <3>2, <3>3 DEF u
  <2>11. ASSUME i \in Tokens PROVE u <= f.text
    <3>1. \A t \in Ahead(d, k) : t <= f.text
      BY <2>2, <2>3, <2>7, <2>11 DEF Finds
    <3>2. u \in Ahead(d, k)
      <4>1. CASE u = worker[d]
        BY <2>9, <4>1
      <4>2. ASSUME NEW j \in D, j <= p, IsChange(line[j], d), u = line[j].text PROVE u \in Ahead(d, k)
        <5>1. j # p /\ j \in 0..Len(queue) + 1
          BY <1>2, <2>2, <4>2 DEF IsChange
        <5>2. CASE j = 0
          <6>1. held # NoChange
            BY <1>1, <5>2 DEF Splits
          <6> QED BY <1>2, <2>9, <4>2, <5>2, <6>1 DEF IsChange
        <5>3. CASE j # 0
          <6>1. j \in 1..Len(queue) /\ j <= k
            BY <1>2, <2>7, <2>8, <4>2, <5>1, <5>3
          <6> QED BY <2>9, <4>2, <6>1
        <5> QED BY <5>2, <5>3
      <4> QED BY <2>6, <4>1, <4>2
    <3> QED BY <3>1, <3>2
  <2>12. i \in Tokens => i \notin KeepAlives
    BY CoalescerAssumption
  <2> QED BY <2>4, <2>5, <2>10, <2>11, <2>12 DEF u
<1> QED BY <1>4, <1>5

(* A step that moves frames keeps the invariant, given its timers and slots. *)
LEMMA MovesKeep ==
  ASSUME IInv, NEW line, NEW D, NEW K, Moves(line, D, K),
         pending' \subseteq Requests,
         timer' \in BOOLEAN, cap' \in BOOLEAN, recheck' \in BOOLEAN, low' \in BOOLEAN, recent' \in BOOLEAN,
         cap' \/ recheck' => held' # NoChange
  PROVE  IInv'
<1>1. /\ IsLine(line) /\ Splits(line, D, K) /\ Selects(queue', line, K) /\ Reaches(line, D)
      /\ Fates(line, D, K) /\ Comes(line, D, K) /\ Held(line, D, K)
      /\ windowed' = windowed /\ disposed' = disposed
  BY DEF Moves, life
<1>2. PICK g : Along(g, queue', line, K) /\ queue' \in Seq(Frames)
  BY <1>1 DEF Selects, Along
<1>3. \A k \in DOMAIN queue' : g[k] \in K /\ queue'[k] = line[g[k]]
  BY <1>2 DEF Along
<1>4. ASSUME NEW d \in Docs, Typed(line, D, K, d)
      PROVE  /\ NewChange(d) \in Frames /\ NewChange(d) # NoChange
             /\ NewChange(d).id = None /\ NewChange(d).doc = d
             /\ client' \in [Docs -> 0..MaxEdits] /\ client'[d] = NewChange(d).text
             /\ line[Len(queue) + 1] = NewChange(d) /\ ~disposed
  BY <1>4, TypedIs DEF Typed, Types, IInv
<1>5. held' # NoChange =>
        /\ held' \in Frames /\ held'.id = None /\ held'.text = client'[held'.doc] /\ windowed
        /\ ~disposed
  <2>1. held # NoChange =>
          held \in Frames /\ held.id = None /\ held.text = client[held.doc] /\ windowed /\ ~disposed
    BY DEF IInv, Changes
  <2>2. CASE held' = held /\ (held = NoChange \/ client' = client)
    BY <2>1, <2>2
  <2>3. ASSUME NEW d \in Docs, Typed(line, D, K, d), held' = line[Len(queue) + 1], windowed
        PROVE  held' \in Frames /\ held'.id = None /\ held'.text = client'[held'.doc] /\ windowed /\ ~disposed
    BY <1>4, <2>3
  <2> QED BY <1>1, <2>2, <2>3 DEF Held
<1>6. TypeOK'
  <2>1. held' \in Frames \cup {NoChange}
    BY <1>5
  <2>2. client' \in [Docs -> 0..MaxEdits]
    <3>1. client \in [Docs -> 0..MaxEdits]
      BY DEF IInv, TypeOK
    <3> QED BY <1>1, <1>4, <3>1 DEF Comes, Quiet, Sent
  <2>3. order' \in Seq(Ids)
    BY <1>1, OrderIs
  <2>4. windowed' \in BOOLEAN /\ disposed' \in BOOLEAN
    BY <1>1 DEF IInv, TypeOK
  <2>5. {timer', cap', recheck', low', recent', windowed', disposed'} \subseteq BOOLEAN
    BY <2>4
  <2>6. /\ worker' \in [Docs -> 0..MaxEdits]
        /\ texts' \in [Ids -> [sent : 0..MaxEdits, got : 0..MaxEdits]]
        /\ fate' \in [Ids -> {"unsent", "waiting", "forwarded", "answered", "superseded", "cancelled"}]
    BY <1>1 DEF Reaches, Fates
  <2> QED BY <1>2, <2>1, <2>2, <2>3, <2>5, <2>6 DEF TypeOK
<1>7. Changes'
  <2>1. windowed => \A k \in DOMAIN queue' : queue'[k].id # None
    <3>1. windowed => \A k \in K : line[k].id # None
      BY <1>1 DEF Splits
    <3> QED BY <1>3, <3>1
  <2>2. ASSUME disposed PROVE held' = NoChange /\ queue' = <<>>
    <3>1. K = {}
      BY <1>1, <2>2, LineIs
    <3>2. DOMAIN queue' = {}
      BY <1>3, <3>1
    <3>3. Len(queue') = 0
      <4>1. Len(queue') \in Nat /\ DOMAIN queue' = 1..Len(queue')
        BY <1>2, SeqIs
      <4>2. Len(queue') # 0 => 1 \in DOMAIN queue'
        BY <4>1
      <4> QED BY <3>2, <4>2
    <3> QED BY <1>2, <1>5, <2>2, <3>3, EmptySeq
  <2> QED BY <1>1, <1>5, <2>1, <2>2 DEF Changes
<1>8. Newest'
  <2>1. ASSUME NEW d \in Docs
        PROVE  /\ ~disposed => client'[d] \in Ahead(d, Len(queue))'
               /\ \A t \in Ahead(d, Len(queue))' : t <= client'[d]
    BY NewestKept
  <2> QED BY <1>1, <2>1 DEF Newest
<1>9. Served'
  <2>1. SUFFICES ASSUME NEW x \in DOMAIN queue', queue'[x].id # None
                 PROVE  /\ \E t \in Ahead(queue[x].doc, x)' : queue'[x].text <= t
                        /\ queue'[x].id \in Tokens =>
                             /\ queue'[x].text \in Ahead(queue[x].doc, x)'
                             /\ \A t \in Ahead(queue[x].doc, x)' : t <= queue'[x].text
    BY DEF Served
  <2>2. queue'[x] = line[g[x]] /\ line[g[x]].id # None
    BY <1>3, <2>1
  <2>3. Finds(line[g[x]], x)'
    BY <1>2, <2>2, ServedKept
  <2>4. PICK f : f = line[g[x]]
    OBVIOUS
  <2>5. Finds(f, x)'
    BY <2>3, <2>4
  <2>6. PICK d : d = f.doc
    OBVIOUS
  <2>7. /\ \E t \in Ahead(d, x)' : f.text <= t
        /\ f.id \in Tokens => f.text \in Ahead(d, x)' /\ \A t \in Ahead(d, x)' : t <= f.text
    BY <2>5, <2>6 DEF Finds
  <2>8. Ahead(queue[x].doc, x)' = Ahead(d, x)'
    BY <2>2, <2>4, <2>6 DEF Ahead
  <2> QED BY <2>2, <2>4, <2>7, <2>8
<1>10. Waits' /\ InOrder' /\ SentOrderKept' /\ ServedAtItsText'
  BY WaitsKept, InOrderKept, SentOrderIsKept, ServedIsKept
<1> QED BY <1>6, <1>7, <1>8, <1>9, <1>10 DEF IInv

-----------------------------------------------------------------------------
(* Every step has its line.                                                 *)
LEMMA LineExists ==
  ASSUME IInv, NEW new \in Frames \cup {NoChange}
  PROVE  \E line : IsLine(line) /\ line[Len(queue) + 1] = new
<1>1. Len(queue) \in Nat /\ DOMAIN queue = 1..Len(queue) /\ \A k \in 1..Len(queue) : queue[k] \in Frames
  BY SeqIs DEF IInv, TypeOK
<1>2. held \in Frames \cup {NoChange}
  BY DEF IInv, TypeOK
<1> DEFINE line == [k \in 0..Len(queue) + 1 |-> IF k = 0 THEN held ELSE IF k <= Len(queue) THEN queue[k] ELSE new]
<1>3. \A k \in 0..Len(queue) + 1 : k = 0 \/ k \in 1..Len(queue) \/ (k = Len(queue) + 1 /\ k # 0 /\ ~(k <= Len(queue)))
  BY <1>1
<1>4. 0 \in 0..Len(queue) + 1 /\ Len(queue) + 1 \in 0..Len(queue) + 1
  BY <1>1
<1>5. \A k \in 1..Len(queue) : k \in 0..Len(queue) + 1 /\ k # 0 /\ k <= Len(queue)
  BY <1>1
<1>6. \A k \in 0..Len(queue) + 1 : line[k] \in Frames \cup {NoChange}
  BY <1>1, <1>2, <1>3
<1>7. line[0] = held /\ \A k \in 1..Len(queue) : line[k] = queue[k]
  BY <1>4, <1>5
<1>8. line[Len(queue) + 1] = new
  BY <1>1, <1>4
<1>9. line \in [0..Len(queue) + 1 -> Frames \cup {NoChange}]
  BY <1>6
<1> HIDE DEF line
<1> QED BY <1>7, <1>8, <1>9 DEF IsLine

(* Answered here are a request whose reply came, or waiting frames, and all *)
(* those that neither go nor wait.                                          *)
Gone(line, D, K, gone, answer) ==
  /\ \/ answer = "answered" /\ \A i \in gone : fate[i] = "forwarded"
     \/ answer = "superseded" /\ \A i \in gone : fate[i] = "waiting" /\ \A k \in K : line[k].id # i
  /\ \A k \in 1..Len(queue) : k \in D \cup K \/ (answer = "superseded" /\ queue[k].id \in gone)

(* What a delivery does to the frames.                                      *)
LEMMA DeliveryMoves ==
  ASSUME IInv, NEW line, NEW D, NEW K, IsLine(line), Splits(line, D, K), Comes(line, D, K),
         Len(queue) + 1 \notin K,
         NEW out, Selects(out, line, D), NEW inFlight \in SUBSET Requests, NEW gone, NEW answer,
         Deliver(out, inFlight, gone, answer), Gone(line, D, K, gone, answer)
  PROVE  Reaches(line, D) /\ Fates(line, D, K) /\ pending' \subseteq Requests
<1>1. /\ Len(queue) \in Nat /\ DOMAIN queue = 1..Len(queue) /\ D \cup K \subseteq 0..Len(queue) + 1
      /\ \A k \in 1..Len(queue) : line[k] = queue[k]
      /\ \A k \in D \cup K : k <= Len(queue) /\ line[k].id # None => fate[line[k].id] = "waiting"
      /\ \A j, k \in D \cup K : j # k /\ line[j].id = line[k].id => line[j].id = None
  BY LineIs
<1>2. D \in SUBSET (0..Len(queue) + 1) /\ D \cap K = {} /\ \A k \in K : k <= Len(queue)
  BY <1>1 DEF Splits
<1>13. /\ \/ answer = "answered" /\ \A i \in gone : fate[i] = "forwarded"
          \/ answer = "superseded" /\ \A i \in gone : fate[i] = "waiting" /\ \A k \in K : line[k].id # i
       /\ \A k \in 1..Len(queue) : k \in D \cup K \/ (answer = "superseded" /\ queue[k].id \in gone)
  BY DEF Gone
<1>3. answer \in {"answered", "superseded"} /\ TypeOK
  BY <1>13 DEF IInv
<1>12. OwnIds(line, D)
  BY <1>1 DEF OwnIds
<1>4. /\ Reaches(line, D)
      /\ fate' \in [Ids -> {"unsent", "waiting", "forwarded", "answered", "superseded", "cancelled"}]
      /\ \A i \in Ids :
           /\ (\E k \in D : line[k].id = i) => fate'[i] = "forwarded"
           /\ (\A k \in D : line[k].id # i) => fate'[i] = IF i \in gone THEN answer ELSE fate[i]
  BY <1>2, <1>3, <1>12, Delivered
<1>5. ASSUME NEW i \in Ids PROVE i # None
  BY CoalescerAssumption
<1>6. ASSUME NEW i \in Ids, NEW k \in K, line[k].id = i
      PROVE  fate'[i] = "waiting" /\ fate[i] = "waiting" /\ \A j \in D : line[j].id # i
  <2>1. fate[i] = "waiting"
    BY <1>1, <1>2, <1>5, <1>6
  <2>2. \A j \in D : line[j].id # i
    BY <1>1, <1>2, <1>5, <1>6
  <2>3. i \notin gone
    BY <1>6, <1>13, <2>1
  <2> QED BY <1>4, <2>1, <2>2, <2>3
<1>7. ASSUME NEW i \in Ids, fate'[i] = "waiting"
      PROVE  fate[i] = "waiting" /\ (disposed \/ \E k \in K : line[k].id = i)
  <2>1. i \notin gone /\ fate[i] = "waiting" /\ \A k \in D : line[k].id # i
    BY <1>3, <1>4, <1>7, <1>13
  <2>2. ASSUME ~disposed PROVE \E k \in K : line[k].id = i
    <3>1. PICK k \in DOMAIN queue : queue[k].id = i
      BY <2>1, <2>2 DEF IInv, Waits
    <3> QED BY <1>1, <1>13, <2>1, <3>1
  <2> QED BY <2>1, <2>2
<1>8. ASSUME NEW i \in Ids, fate'[i] \in {"forwarded", "answered"}
      PROVE  fate[i] \in {"forwarded", "answered"} \/ \E k \in D : line[k].id = i
  BY <1>4, <1>8, <1>13
<1>9. ASSUME NEW i \in Ids
      PROVE  fate'[i] = "unsent" <=> fate[i] = "unsent" /\ \A k \in D \cup K : line[k].id # i
  <2>1. CASE \E k \in D : line[k].id = i
    BY <1>4, <2>1
  <2>2. CASE \A k \in D : line[k].id # i
    <3>1. fate'[i] = IF i \in gone THEN answer ELSE fate[i]
      BY <1>4, <2>2
    <3>2. fate[i] = "unsent" => i \notin gone /\ \A k \in K : line[k].id # i
      BY <1>6, <1>13
    <3> QED BY <1>3, <2>2, <3>1, <3>2
  <2> QED BY <2>1, <2>2
<1>10. Fates(line, D, K)
  BY <1>4, <1>6, <1>7, <1>8, <1>9 DEF Fates
<1>11. pending' \subseteq Requests
  <2>1. pending' = IF MaxInFlight = 0 THEN {} ELSE inFlight \cup (IdsOf(out) \cap Requests)
    BY DEF Deliver
  <2> QED BY <2>1
<1> QED BY <1>4, <1>10, <1>11

(* When nothing reaches the worker.                                         *)
LEMMA NothingReaches ==
  ASSUME IInv, NEW line, UNCHANGED <<worker, texts>> PROVE Reaches(line, {})
<1>1. worker \in [Docs -> 0..MaxEdits] /\ texts \in [Ids -> [sent : 0..MaxEdits, got : 0..MaxEdits]]
  BY DEF IInv, TypeOK
<1>2. \A d \in Docs : worker[d] <= worker[d]
  BY <1>1
<1> QED BY <1>1, <1>2 DEF Reaches, Latest

(* A step that moves no frame.                                              *)
LEMMA StillKeeps ==
  ASSUME IInv, UNCHANGED <<held, queue, life, seen>>,
         pending' \subseteq Requests,
         timer' \in BOOLEAN, cap' \in BOOLEAN, recheck' \in BOOLEAN, low' \in BOOLEAN, recent' \in BOOLEAN,
         cap' \/ recheck' => held' # NoChange
  PROVE  IInv'
<1>1. /\ held' = held /\ queue' = queue /\ windowed' = windowed /\ disposed' = disposed
      /\ client' = client /\ worker' = worker /\ fate' = fate /\ order' = order /\ texts' = texts
  BY DEF life, seen
<1>2. TypeOK'
  <2>1. windowed \in BOOLEAN /\ disposed \in BOOLEAN
    BY DEF IInv, TypeOK
  <2>2. {timer', cap', recheck', low', recent', windowed, disposed} \subseteq BOOLEAN
    BY <2>1
  <2> QED BY <1>1, <2>2 DEF IInv, TypeOK
<1>3. Changes'
  BY <1>1 DEF IInv, Changes
<1>4. Newest' /\ Served'
  BY <1>1 DEF IInv, Newest, Served, Ahead
<1>5. Waits' /\ InOrder' /\ SentOrderKept' /\ ServedAtItsText'
  BY <1>1 DEF IInv, Waits, InOrder, SentOrderKept, ServedAtItsText
<1> QED BY <1>2, <1>3, <1>4, <1>5 DEF IInv

(* The booleans of the state.                                               *)
LEMMA BooleansIs ==
  ASSUME TypeOK
  PROVE  /\ timer \in BOOLEAN /\ cap \in BOOLEAN /\ recheck \in BOOLEAN /\ low \in BOOLEAN
         /\ recent \in BOOLEAN /\ windowed \in BOOLEAN /\ disposed \in BOOLEAN
BY DEF TypeOK

(* How many frames of the queue the slots allow.                            *)
LEMMA DrainableIs ==
  ASSUME queue \in Seq(Frames), NEW inFlight PROVE Drainable(inFlight) \in 0..Len(queue)
<1> DEFINE InFlight(n) == Cardinality(inFlight) + Cardinality(IdsOf(SubSeq(queue, 1, n)) \cap Requests)
           S == {n \in 0..Len(queue) : \A k \in 1..n : queue[k].id \in Requests => slotFree(InFlight(k - 1))}
<1>1. Len(queue) \in Nat
  BY SeqIs
<1>2. S \in SUBSET (0..Len(queue)) /\ 0 \in S
  <2> HIDE DEF InFlight
  <2> QED BY <1>1
<1>3. Drainable(inFlight) = Max(S)
  BY DEF Drainable
<1> HIDE DEF S
<1>4. S \in SUBSET Nat /\ S # {} /\ \A x \in S : x <= Len(queue)
  BY <1>1, <1>2
<1> QED BY <1>1, <1>2, <1>3, <1>4, MaxIs

-----------------------------------------------------------------------------
(* A change inside a window, sent or held, passes the queue, and the token  *)
(* requests of its document are answered.                                   *)
LEMMA SupersedeMoves ==
  ASSUME IInv, NEW d \in Docs, windowed, Types(d), NEW line, IsLine(line), line[Len(queue) + 1] = NewChange(d),
         NEW D \in SUBSET {Len(queue) + 1}, NEW out, Selects(out, line, D), supersede(d, out),
         \/ Len(queue) + 1 \in D /\ held' = held /\ held = NoChange
         \/ Len(queue) + 1 \notin D /\ held' = NewChange(d) /\ (held = NoChange \/ held.doc = d)
  PROVE  (\E K : Moves(line, D, K)) /\ pending' \subseteq Requests
<1> DEFINE stale == {k \in DOMAIN queue : queue[k].id \in Tokens /\ queue[k].doc = d}
           K == DOMAIN queue \ stale
           gone == {queue[k].id : k \in stale}
<1>1. /\ queue \in Seq(Frames) /\ Len(queue) \in Nat /\ DOMAIN queue = 1..Len(queue)
      /\ \A k \in 1..Len(queue) : line[k] = queue[k] /\ queue[k] \in Frames
  BY SeqIs DEF IInv, TypeOK, IsLine
<1>2. queue' = Picked(K) /\ Deliver(out, pending, gone, "superseded")
  BY DEF supersede
<1>3. None \notin Ids /\ Tokens \subseteq Ids
  BY CoalescerAssumption
<1>4. \A k \in stale : k \in 1..Len(queue) /\ queue[k].id \in Tokens /\ queue[k].doc = d
  BY <1>1
<1>5. /\ K \subseteq 1..Len(queue)
      /\ \A k \in K : line[k].doc = d => line[k].id \notin Tokens
      /\ \A k \in 1..Len(queue) : k \in K \/ k \in stale
  BY <1>1
<1>6. Len(queue) + 1 \notin K /\ 0 \notin D /\ D \cap K = {} /\ D \subseteq 0..Len(queue) + 1 /\ K \subseteq 1..Len(queue) + 1
  BY <1>1, <1>5
<1> HIDE DEF K, stale
<1>7. NewChange(d).id = None /\ NewChange(d).doc = d /\ ~disposed
  BY DEF NewChange, Types
<1>8. windowed => \A k \in 1..Len(queue) : queue[k].id # None
  BY <1>1 DEF IInv, Changes
<1>9. Splits(line, D, K)
  <2>1. \A k \in 1..Len(queue) : queue[k].id = None => k \in D \cup K
    BY <1>3, <1>4, <1>5
  <2>2. \A k \in D : k = Len(queue) + 1 /\ line[k].id = None
    BY <1>7
  <2>3. windowed => \A k \in K : line[k].id # None
    BY <1>1, <1>5, <1>8
  <2> QED BY <1>6, <2>1, <2>2, <2>3 DEF Splits
<1>10. Typed(line, D, K, d)
  BY <1>5 DEF Typed
<1>11. Comes(line, D, K)
  BY <1>10 DEF Comes
<1>12. Held(line, D, K)
  BY <1>6, <1>7, <1>10 DEF Held
<1>13. Selects(queue', line, K)
  <2>1. K \in SUBSET DOMAIN queue
    BY <1>1, <1>5
  <2> QED BY <1>1, <1>2, <2>1, SelectsPicked
<1>14. \A i \in gone : fate[i] = "waiting" /\ \A k \in K : line[k].id # i
  <2>1. SUFFICES ASSUME NEW s \in stale PROVE fate[queue[s].id] = "waiting" /\ \A k \in K : line[k].id # queue[s].id
    OBVIOUS
  <2>2. s \in DOMAIN queue /\ queue[s].id # None
    BY <1>1, <1>3, <1>4
  <2>3. fate[queue[s].id] = "waiting" /\ \A k \in DOMAIN queue : k # s => queue[k].id # queue[s].id
    BY <2>2 DEF IInv, Waits
  <2>4. s \notin K
    BY DEF K
  <2> QED BY <1>1, <1>5, <2>3, <2>4
<1>15. Gone(line, D, K, gone, "superseded")
  BY <1>5, <1>14 DEF Gone
<1>16. pending \in SUBSET Requests
  BY DEF IInv, TypeOK
<1> HIDE DEF gone
<1>17. Reaches(line, D) /\ Fates(line, D, K) /\ pending' \subseteq Requests
  BY <1>2, <1>6, <1>9, <1>11, <1>15, <1>16, DeliveryMoves
<1>18. UNCHANGED life
  BY DEF Types
<1>19. Moves(line, D, K)
  BY <1>9, <1>11, <1>12, <1>13, <1>17, <1>18 DEF Moves
<1> QED BY <1>17, <1>19

(* The three of them.                                                       *)
LEMMA ChangeKeeps ==
  ASSUME IInv, NEW d \in Docs, ChangeAtOnce(d) \/ ChangeHeld(d) \/ ChangeReplaces(d) PROVE IInv'
<1>1. windowed /\ Types(d) /\ TypeOK
  BY DEF ChangeAtOnce, ChangeHeld, ChangeReplaces, IInv
<1>2. NewChange(d) \in Frames /\ NewChange(d) # NoChange
  BY <1>1, TypedIs
<1>3. PICK line : IsLine(line) /\ line[Len(queue) + 1] = NewChange(d)
  BY <1>2, LineExists
<1>4. /\ timer \in BOOLEAN /\ cap \in BOOLEAN /\ recheck \in BOOLEAN /\ low \in BOOLEAN /\ recent \in BOOLEAN
      /\ low' = low /\ recent' = recent
  BY <1>1, BooleansIs DEF Types, pressure
<1>5. cap \/ recheck => held # NoChange
  BY DEF IInv, Changes
<1>6. CASE ChangeAtOnce(d)
  <2>1. Selects(<<NewChange(d)>>, line, {Len(queue) + 1})
    BY <1>2, <1>3, SelectsOne
  <2>2. (\E K : Moves(line, {Len(queue) + 1}, K)) /\ pending' \subseteq Requests
    BY <1>1, <1>3, <1>6, <2>1, SupersedeMoves DEF ChangeAtOnce
  <2>3. timer' = TRUE /\ cap' = cap /\ recheck' = recheck /\ held' = held
    BY <1>6 DEF ChangeAtOnce
  <2> QED BY <1>4, <1>5, <2>2, <2>3, MovesKeep
<1>7. CASE ChangeHeld(d) \/ ChangeReplaces(d)
  <2>1. Selects(<<>>, line, {})
    BY SelectsNone
  <2>2. held' = NewChange(d) /\ supersede(d, <<>>) /\ (held = NoChange \/ held.doc = d)
    BY <1>7 DEF ChangeHeld, ChangeReplaces
  <2>3. (\E K : Moves(line, {}, K)) /\ pending' \subseteq Requests
    BY <1>1, <1>3, <2>1, <2>2, SupersedeMoves
  <2>4. timer' \in BOOLEAN /\ cap' \in BOOLEAN /\ recheck' \in BOOLEAN
    <3>1. CASE UNCHANGED timers
      BY <1>4, <3>1 DEF timers
    <3>2. CASE hold
      BY <1>4, <3>2 DEF hold
    <3> QED BY <1>7, <3>1, <3>2 DEF ChangeHeld, ChangeReplaces
  <2>5. held' # NoChange
    BY <1>2, <2>2
  <2> QED BY <1>4, <2>3, <2>4, <2>5, MovesKeep
<1> QED BY <1>6, <1>7

(* The held change and the queue, in their order.                           *)
LEMMA SelectsAll ==
  ASSUME IInv, NEW line, IsLine(line)
  PROVE  Selects((IF held = NoChange THEN <<>> ELSE <<held>>) \o queue, line,
                 (IF held = NoChange THEN {} ELSE {0}) \cup 1..Len(queue))
<1>1. queue \in Seq(Frames) /\ Len(queue) \in Nat /\ line[0] = held
  BY SeqIs DEF IInv, TypeOK, IsLine
<1>2. Selects(queue, line, 1..Len(queue)) /\ 1..Len(queue) \in SUBSET Nat
  BY <1>1, SelectsQueue
<1>3. CASE held = NoChange
  <2>1. Selects(<<>> \o queue, line, {} \cup 1..Len(queue))
    BY <1>2, SelectsNone, SelectsBoth
  <2> QED BY <1>3, <2>1
<1>4. CASE held # NoChange
  <2>1. held \in Frames
    BY <1>4 DEF IInv, Changes
  <2>2. Selects(<<held>>, line, {0})
    BY <1>1, <2>1, SelectsOne
  <2>3. \A p \in {0}, q \in 1..Len(queue) : p < q
    BY <1>1
  <2>4. {0} \in SUBSET Nat
    OBVIOUS
  <2>5. Selects(<<held>> \o queue, line, {0} \cup 1..Len(queue))
    BY <1>2, <2>2, <2>3, <2>4, SelectsBoth
  <2> QED BY <1>4, <2>5
<1> QED BY <1>3, <1>4

(* A flush lets everything go before the change that comes.                 *)
LEMMA FlushKeeps ==
  ASSUME IInv, NEW d \in Docs, ChangeOther(d) \/ Barrier(d) PROVE IInv'
<1>1. Types(d) /\ TypeOK
  BY DEF ChangeOther, Barrier, IInv
<1>2. NewChange(d) \in Frames /\ NewChange(d) # NoChange /\ NewChange(d).id = None
  BY <1>1, TypedIs
<1>3. PICK line : IsLine(line) /\ line[Len(queue) + 1] = NewChange(d)
  BY <1>2, LineExists
<1>4. /\ timer \in BOOLEAN /\ cap \in BOOLEAN /\ recheck \in BOOLEAN /\ low \in BOOLEAN /\ recent \in BOOLEAN
      /\ low' = low /\ recent' = recent
  BY <1>1, BooleansIs DEF Types, pressure
<1>5. queue \in Seq(Frames) /\ Len(queue) \in Nat /\ pending \in SUBSET Requests
  BY SeqIs DEF IInv, TypeOK
<1>6. PICK all : all = (IF held = NoChange THEN {} ELSE {0}) \cup 1..Len(queue)
  OBVIOUS
<1>7. PICK last, E : /\ E \in SUBSET {Len(queue) + 1} /\ Selects(last, line, E) /\ flushAll(last)
                     /\ \/ ChangeOther(d) /\ E = {}
                        \/ Barrier(d) /\ E = {Len(queue) + 1}
  <2>1. CASE ChangeOther(d)
    <3>1. flushAll(<<>>) /\ Selects(<<>>, line, {})
      BY <2>1, SelectsNone DEF ChangeOther
    <3> QED BY <2>1, <3>1
  <2>2. CASE Barrier(d)
    <3>1. flushAll(<<NewChange(d)>>) /\ Selects(<<NewChange(d)>>, line, {Len(queue) + 1})
      BY <1>2, <1>3, <2>2, SelectsOne DEF Barrier
    <3> QED BY <2>2, <3>1
  <2> QED BY <2>1, <2>2
<1> DEFINE D == all \cup E
           out == (IF held = NoChange THEN <<>> ELSE <<held>>) \o queue \o last
<1>8. Selects(out, line, D)
  <2>1. Selects((IF held = NoChange THEN <<>> ELSE <<held>>) \o queue, line, all)
    BY <1>3, <1>6, SelectsAll
  <2>2. all \in SUBSET (0..Len(queue)) /\ all \in SUBSET Nat /\ E \in SUBSET Nat
    BY <1>5, <1>6, <1>7
  <2>3. \A p \in all, q \in E : p < q
    BY <1>5, <1>7, <2>2
  <2> QED BY <1>7, <2>1, <2>2, <2>3, SelectsBoth
<1>9. queue' = <<>> /\ Deliver(out, pending, {}, "superseded")
  BY <1>7 DEF flushAll, forward
<1>10. /\ D \subseteq 0..Len(queue) + 1 /\ (0 \in D <=> held # NoChange)
       /\ \A k \in 1..Len(queue) : k \in D
       /\ Len(queue) + 1 \in D <=> Len(queue) + 1 \in E
  <2>1. all \subseteq 0..Len(queue) /\ (0 \in all <=> held # NoChange) /\ \A k \in 1..Len(queue) : k \in all
    BY <1>5, <1>6
  <2>2. 0 \notin E /\ E \subseteq 0..Len(queue) + 1
    BY <1>5, <1>7
  <2>3. Len(queue) + 1 \notin all /\ all \subseteq 0..Len(queue) + 1
    BY <1>5, <2>1
  <2> QED BY <2>1, <2>2, <2>3
<1> HIDE DEF D, out
<1>11. Splits(line, D, {})
  BY <1>10 DEF Splits
<1>12. held' = IF Len(queue) + 1 \in D THEN NoChange ELSE NewChange(d)
  BY <1>7, <1>10 DEF ChangeOther, Barrier
<1>13. Len(queue) + 1 \notin D => windowed /\ ChangeOther(d)
  BY <1>7, <1>10 DEF ChangeOther
<1>14. Typed(line, D, {}, d)
  BY <1>1, <1>3, <1>12, <1>13 DEF Typed
<1>15. Comes(line, D, {})
  BY <1>14 DEF Comes
<1>16. Held(line, D, {})
  BY <1>3, <1>10, <1>12, <1>13, <1>14 DEF Held
<1>22. Gone(line, D, {}, {}, "superseded") /\ Len(queue) + 1 \notin {}
  BY <1>10 DEF Gone
<1>17. Reaches(line, D) /\ Fates(line, D, {}) /\ pending' \subseteq Requests
  BY <1>3, <1>5, <1>8, <1>9, <1>11, <1>15, <1>22, DeliveryMoves
<1>18. Selects(queue', line, {})
  BY <1>9, SelectsNone
<1>19. UNCHANGED life
  BY <1>1 DEF Types
<1>20. Moves(line, D, {})
  BY <1>3, <1>11, <1>15, <1>16, <1>17, <1>18, <1>19 DEF Moves
<1>21. timer' \in BOOLEAN /\ cap' = FALSE /\ recheck' = FALSE
  BY <1>4 DEF ChangeOther, Barrier
<1> QED BY <1>4, <1>17, <1>20, <1>21, MovesKeep

-----------------------------------------------------------------------------
(* One more frame at the end of the queue.                                  *)
LEMMA AppendSelects ==
  ASSUME IInv, NEW line, IsLine(line), line[Len(queue) + 1] \in Frames
  PROVE  Selects(Append(queue, line[Len(queue) + 1]), line, 1..Len(queue) \cup {Len(queue) + 1})
<1>1. queue \in Seq(Frames) /\ Len(queue) \in Nat
  BY SeqIs DEF IInv, TypeOK
<1> DEFINE f == line[Len(queue) + 1]
           one == <<f>>
<1>2. Selects(queue, line, 1..Len(queue)) /\ Selects(one, line, {Len(queue) + 1})
  BY <1>1, SelectsQueue, SelectsOne
<1>3. \A p \in 1..Len(queue), q \in {Len(queue) + 1} : p < q
  BY <1>1
<1>4. 1..Len(queue) \in SUBSET Nat /\ {Len(queue) + 1} \in SUBSET Nat
  BY <1>1
<1>5. Selects(queue \o one, line, 1..Len(queue) \cup {Len(queue) + 1})
  BY <1>2, <1>3, <1>4, SelectsBoth
<1>6. f \in Frames
  OBVIOUS
<1> HIDE DEF f
<1>7. queue \o <<f>> = Append(queue, f)
  BY <1>1, <1>6, AppendIsConcat
<1> QED BY <1>5, <1>7 DEF f

(* When no frame but the one that comes changes its fate.                   *)
Stays(line, K) ==
  /\ fate' \in [Ids -> {"unsent", "waiting", "forwarded", "answered", "superseded", "cancelled"}]
  /\ \A k \in 1..Len(queue) : k \in K
  /\ \A i \in Ids : fate'[i] = IF Len(queue) + 1 \in K /\ i = line[Len(queue) + 1].id THEN "waiting" ELSE fate[i]

(* Then what waits goes on waiting, and what was sent is not unsent.        *)
LEMMA NothingMoves ==
  ASSUME IInv, NEW line, NEW K, IsLine(line), Splits(line, {}, K), Comes(line, {}, K), Stays(line, K)
  PROVE  Fates(line, {}, K)
<1>1. /\ Len(queue) \in Nat /\ DOMAIN queue = 1..Len(queue) /\ {} \cup K \subseteq 0..Len(queue) + 1
      /\ \A k \in 1..Len(queue) : line[k] = queue[k]
      /\ \A k \in {} \cup K : k <= Len(queue) /\ line[k].id # None => fate[line[k].id] = "waiting"
  BY LineIs
<1>2. \A k \in K : k <= Len(queue) \/ k = Len(queue) + 1
  BY <1>1
<1>3. ASSUME NEW i \in Ids, NEW k \in K, line[k].id = i PROVE fate'[i] = "waiting"
  <2>1. i # None
    BY CoalescerAssumption
  <2>2. fate'[i] = IF Len(queue) + 1 \in K /\ i = line[Len(queue) + 1].id THEN "waiting" ELSE fate[i]
    BY DEF Stays
  <2>3. k <= Len(queue) => fate[i] = "waiting"
    BY <1>1, <1>3, <2>1
  <2>4. k = Len(queue) + 1 => fate'[i] = "waiting"
    BY <1>3, <2>2
  <2> QED BY <1>2, <2>2, <2>3, <2>4
<1>4. ASSUME NEW i \in Ids, fate'[i] = "waiting"
      PROVE  /\ fate[i] = "waiting" \/ (Len(queue) + 1 \in K /\ i = line[Len(queue) + 1].id)
             /\ disposed \/ \E k \in K : line[k].id = i
  <2>1. fate[i] = "waiting" \/ (Len(queue) + 1 \in K /\ i = line[Len(queue) + 1].id)
    BY <1>4 DEF Stays
  <2>2. ASSUME ~disposed, fate[i] = "waiting" PROVE \E k \in K : line[k].id = i
    <3>1. PICK k \in DOMAIN queue : queue[k].id = i
      BY <2>2 DEF IInv, Waits
    <3> QED BY <1>1, <3>1 DEF Stays
  <2> QED BY <2>1, <2>2
<1>5. ASSUME NEW i \in Ids, fate'[i] \in {"forwarded", "answered"} PROVE fate[i] \in {"forwarded", "answered"}
  BY <1>5 DEF Stays
<1>6. ASSUME NEW i \in Ids PROVE fate'[i] = "unsent" <=> fate[i] = "unsent" /\ \A k \in {} \cup K : line[k].id # i
  <2>1. (\E k \in K : line[k].id = i) => fate'[i] = "waiting"
    BY <1>3
  <2>2. (\A k \in K : line[k].id # i) => fate'[i] = fate[i]
    BY DEF Stays
  <2> QED BY <2>1, <2>2
<1>7. fate' \in [Ids -> {"unsent", "waiting", "forwarded", "answered", "superseded", "cancelled"}]
  BY DEF Stays
<1> QED BY <1>3, <1>4, <1>5, <1>6, <1>7 DEF Fates

-----------------------------------------------------------------------------
(* A drain lets the prefix go that the slots allow, and the keep-alives     *)
(* behind it.                                                               *)
LEMMA DrainMoves ==
  ASSUME IInv, NEW line, IsLine(line), NEW O \in SUBSET {0}, NEW first, Selects(first, line, O),
         NEW replied, \A i \in replied : fate[i] = "forwarded", drain(first, replied),
         0 \in O <=> held # NoChange, held' = NoChange,
         client' = client, order' = order, UNCHANGED life
  PROVE  (\E D, K : Moves(line, D, K)) /\ pending' \subseteq Requests
<1>1. /\ queue \in Seq(Frames) /\ Len(queue) \in Nat /\ DOMAIN queue = 1..Len(queue)
      /\ \A k \in 1..Len(queue) : line[k] = queue[k] /\ queue[k] \in Frames
  BY SeqIs DEF IInv, TypeOK, IsLine
<1> DEFINE inFlight == pending \ replied
           goes == {k \in DOMAIN queue : k <= Drainable(inFlight) \/ queue[k].id \in KeepAlives}
           D == O \cup goes
           K == DOMAIN queue \ goes
<1>2. queue' = Picked(K) /\ Deliver(first \o Picked(goes), inFlight, replied, "answered")
  BY DEF drain
<1>3. Drainable(inFlight) \in 0..Len(queue)
  BY <1>1, DrainableIs
<1>4. \A k \in K : k \in 1..Len(queue) /\ ~(k <= Drainable(inFlight))
  BY <1>1
<1>5. \A k \in goes : k \in 1..Len(queue) /\ (k <= Drainable(inFlight) \/ line[k].id \in KeepAlives)
  BY <1>1
<1>6. \A k \in 1..Len(queue) : k \in goes \/ k \in K
  BY <1>1
<1>7. goes \cap K = {}
  OBVIOUS
<1>8. \A j \in K, k \in goes : j < k => line[k].id \in KeepAlives
  <2>1. SUFFICES ASSUME NEW j \in K, NEW k \in goes, j < k PROVE line[k].id \in KeepAlives
    OBVIOUS
  <2>2. j \in Int /\ k \in Int /\ Drainable(inFlight) \in Int
    BY <1>1, <1>3, <1>4, <1>5
  <2>3. ~(k <= Drainable(inFlight))
    BY <1>4, <2>1, <2>2
  <2> QED BY <1>5, <2>3
<1>9. inFlight \in SUBSET Requests
  BY DEF IInv, TypeOK
<1> HIDE DEF goes, K, inFlight
<1>10. Selects(Picked(goes), line, goes) /\ Selects(queue', line, K)
  <2>1. goes \in SUBSET DOMAIN queue /\ K \in SUBSET DOMAIN queue
    BY <1>1, <1>4, <1>5
  <2> QED BY <1>1, <1>2, <2>1, SelectsPicked
<1>11. Selects(first \o Picked(goes), line, D)
  <2>1. O \in SUBSET Nat /\ goes \in SUBSET Nat
    BY <1>1, <1>5
  <2>2. \A p \in O, q \in goes : p < q
    BY <1>1, <1>5
  <2> QED BY <1>10, <2>1, <2>2, SelectsBoth
<1>12. /\ D \subseteq 0..Len(queue) + 1 /\ K \subseteq 1..Len(queue) + 1 /\ D \cap K = {}
       /\ Len(queue) + 1 \notin D \cup K
       /\ (0 \in D <=> 0 \in O)
  <2>1. 0 \notin goes /\ 0 \notin K /\ Len(queue) + 1 \notin goes /\ Len(queue) + 1 \notin K /\ Len(queue) + 1 \notin O
    BY <1>1, <1>4, <1>5
  <2>2. goes \subseteq 0..Len(queue) + 1 /\ O \subseteq 0..Len(queue) + 1 /\ K \subseteq 1..Len(queue) + 1
    BY <1>1, <1>4, <1>5
  <2> QED BY <1>7, <2>1, <2>2
<1>13. \A j \in K, k \in D : j < k => line[k].id \in KeepAlives
  <2>1. ASSUME NEW j \in K, NEW k \in O PROVE ~(j < k)
    <3>1. k = 0 /\ j \in 1..Len(queue)
      BY <1>4
    <3> QED BY <1>1, <3>1
  <2> QED BY <1>8, <2>1
<1>14. windowed => \A k \in K : line[k].id # None
  BY <1>1, <1>4 DEF IInv, Changes
<1> HIDE DEF D
<1>15. \A k \in 1..Len(queue) : k \in D \cup K
  BY <1>6 DEF D
<1>16. Splits(line, D, K)
  BY <1>12, <1>13, <1>14, <1>15 DEF Splits
<1>17. Comes(line, D, K)
  BY <1>12 DEF Comes, Quiet
<1>18. Held(line, D, K)
  BY <1>12 DEF Held
<1>19. Reaches(line, D) /\ Fates(line, D, K) /\ pending' \subseteq Requests
  <2>1. Gone(line, D, K, replied, "answered")
    BY <1>15 DEF Gone
  <2> QED BY <1>2, <1>9, <1>11, <1>12, <1>16, <1>17, <2>1, DeliveryMoves
<1>20. Moves(line, D, K)
  BY <1>10, <1>16, <1>17, <1>18, <1>19 DEF Moves
<1> QED BY <1>19, <1>20

(* A release.                                                               *)
LEMMA ReleaseKeeps ==
  ASSUME IInv, held # NoChange, release, client' = client, order' = order, UNCHANGED life,
         low' \in BOOLEAN, recent' \in BOOLEAN
  PROVE  IInv'
<1>1. PICK line : IsLine(line) /\ line[Len(queue) + 1] = NoChange
  BY LineExists
<1>2. held \in Frames /\ line[0] = held
  BY <1>1 DEF IInv, Changes, IsLine
<1>3. Selects(<<held>>, line, {0})
  BY <1>2, SelectsOne
<1>4. drain(<<held>>, {}) /\ held' = NoChange /\ timer' = TRUE /\ cap' = FALSE /\ recheck' = FALSE
  BY DEF release
<1>5. (\E D, K : Moves(line, D, K)) /\ pending' \subseteq Requests
  <2>1. PICK O : O = {0}
    OBVIOUS
  <2>2. O \in SUBSET {0} /\ Selects(<<held>>, line, O) /\ (0 \in O <=> held # NoChange)
    BY <1>3, <2>1
  <2>3. PICK none : none = {}
    OBVIOUS
  <2>4. drain(<<held>>, none) /\ \A i \in none : fate[i] = "forwarded"
    BY <1>4, <2>3
  <2> QED BY <1>1, <1>4, <2>2, <2>4, DrainMoves
<1> QED BY <1>4, <1>5, MovesKeep

(* With no window a change is one more frame.                               *)
LEMMA UnwindowedKeeps ==
  ASSUME IInv, NEW d \in Docs, ChangeUnwindowed(d) PROVE IInv'
<1>1. Types(d) /\ TypeOK /\ ~windowed /\ held' = held /\ UNCHANGED timers
  BY DEF ChangeUnwindowed, IInv
<1>2. NewChange(d) \in Frames /\ NewChange(d).id = None
  BY <1>1, TypedIs
<1>3. PICK line : IsLine(line) /\ line[Len(queue) + 1] = NewChange(d)
  BY <1>2, LineExists
<1>4. /\ timer' \in BOOLEAN /\ cap' \in BOOLEAN /\ recheck' \in BOOLEAN /\ low' \in BOOLEAN /\ recent' \in BOOLEAN
      /\ cap' = cap /\ recheck' = recheck /\ UNCHANGED life
  BY <1>1, BooleansIs DEF Types, pressure, timers
<1>5. held = NoChange /\ (cap \/ recheck => held # NoChange)
  BY <1>1 DEF IInv, Changes
<1>6. queue \in Seq(Frames) /\ Len(queue) \in Nat /\ pending \in SUBSET Requests /\ None \notin Ids
  BY SeqIs, CoalescerAssumption DEF IInv, TypeOK
<1>7. CASE queue = <<>>
  <2> DEFINE D == {Len(queue) + 1}
  <2>1. Len(queue) = 0
    BY <1>7, EmptySeq
  <2>2. forward(<<NewChange(d)>>) /\ queue' = queue
    BY <1>7 DEF ChangeUnwindowed
  <2>3. Selects(<<NewChange(d)>>, line, D) /\ Selects(queue', line, {})
    BY <1>2, <1>3, <1>7, <2>2, SelectsOne, SelectsNone
  <2>4. Splits(line, D, {}) /\ Len(queue) + 1 \notin {}
    BY <1>2, <1>3, <2>1 DEF Splits
  <2>5. Typed(line, D, {}, d)
    BY <1>1, <1>3 DEF Typed
  <2>6. Comes(line, D, {}) /\ Held(line, D, {})
    BY <1>1, <1>5, <2>1, <2>5 DEF Comes, Held
  <2>7. Reaches(line, D) /\ Fates(line, D, {}) /\ pending' \subseteq Requests
    <3>1. Deliver(<<NewChange(d)>>, pending, {}, "superseded")
      BY <2>2 DEF forward
    <3>2. Gone(line, D, {}, {}, "superseded")
      BY <2>1 DEF Gone
    <3> HIDE DEF D
    <3> QED BY <1>3, <1>6, <2>3, <2>4, <2>6, <3>1, <3>2, DeliveryMoves
  <2>8. Moves(line, D, {})
    BY <1>3, <1>4, <2>3, <2>4, <2>6, <2>7 DEF Moves
  <2> QED BY <1>1, <1>4, <1>5, <2>7, <2>8, MovesKeep
<1>8. CASE queue # <<>>
  <2> DEFINE K == 1..Len(queue) \cup {Len(queue) + 1}
  <2>1. queue' = Append(queue, NewChange(d)) /\ UNCHANGED <<pending, worker, fate, texts>>
    BY <1>8 DEF ChangeUnwindowed
  <2>2. Selects(queue', line, K)
    BY <1>2, <1>3, <1>6, <2>1, AppendSelects
  <2>3. Splits(line, {}, K)
    BY <1>1, <1>6 DEF Splits
  <2>4. Typed(line, {}, K, d)
    BY <1>1, <1>3 DEF Typed
  <2>5. Comes(line, {}, K) /\ Held(line, {}, K)
    BY <1>1, <1>5, <2>4 DEF Comes, Held
  <2>6. Reaches(line, {})
    BY <2>1, NothingReaches
  <2>7. Fates(line, {}, K)
    <3>1. Stays(line, K)
      <4>1. fate \in [Ids -> {"unsent", "waiting", "forwarded", "answered", "superseded", "cancelled"}] /\ fate' = fate
        BY <2>1 DEF IInv, TypeOK
      <4>2. \A i \in Ids : i # line[Len(queue) + 1].id
        BY <1>2, <1>3, <1>6
      <4> QED BY <4>1, <4>2 DEF Stays
    <3> QED BY <1>3, <2>1, <2>3, <2>5, <3>1, NothingMoves
  <2>8. Moves(line, {}, K)
    BY <1>3, <1>4, <2>2, <2>3, <2>5, <2>6, <2>7 DEF Moves
  <2> QED BY <1>1, <1>4, <1>5, <1>6, <2>1, <2>8, MovesKeep
<1> QED BY <1>7, <1>8

(* Any other frame goes at once, or waits its turn.                         *)
LEMMA SendKeeps ==
  ASSUME IInv, NEW i \in Ids, NEW d \in Docs, Send(i, d) PROVE IInv'
<1>1. /\ ~disposed /\ fate[i] = "unsent" /\ order' = Append(order, i) /\ client' = client /\ held' = held
      /\ UNCHANGED timers /\ UNCHANGED pressure /\ UNCHANGED life /\ TypeOK
  BY DEF Send, IInv
<1>2. Frame(i, d) \in Frames /\ Frame(i, d).id = i /\ i # None
  <2>1. Frame(i, d) = [id |-> i, doc |-> d, text |-> client[d]] /\ client[d] \in 0..MaxEdits
    BY DEF Frame, IInv, TypeOK
  <2> QED BY <2>1, CoalescerAssumption DEF Frames
<1>3. PICK line : IsLine(line) /\ line[Len(queue) + 1] = Frame(i, d)
  BY <1>2, LineExists
<1>4. /\ timer' \in BOOLEAN /\ cap' \in BOOLEAN /\ recheck' \in BOOLEAN /\ low' \in BOOLEAN /\ recent' \in BOOLEAN
      /\ cap' = cap /\ recheck' = recheck
  BY <1>1, BooleansIs DEF pressure, timers
<1>5. /\ cap \/ recheck => held # NoChange
      /\ windowed => \A k \in DOMAIN queue : queue[k].id # None
  BY <1>1 DEF IInv, Changes
<1>6. /\ queue \in Seq(Frames) /\ Len(queue) \in Nat /\ DOMAIN queue = 1..Len(queue) /\ pending \in SUBSET Requests
      /\ \A k \in 1..Len(queue) : line[k] = queue[k]
  BY <1>3, SeqIs DEF IInv, TypeOK, IsLine
<1>7. CASE GoesAtOnce(i)
  <2> DEFINE D == {Len(queue) + 1}
             K == 1..Len(queue)
  <2>1. held = NoChange /\ (i \in KeepAlives \/ queue = <<>>)
    BY <1>7 DEF GoesAtOnce
  <2>2. forward(<<Frame(i, d)>>) /\ queue' = queue
    BY <1>7 DEF Send
  <2>3. Selects(<<Frame(i, d)>>, line, D)
    BY <1>2, <1>3, SelectsOne
  <2>4. Selects(queue', line, K)
    BY <1>3, <1>6, <2>2, SelectsQueue
  <2>5. Splits(line, D, K) /\ Len(queue) + 1 \notin K
    <3>1. D \subseteq 0..Len(queue) + 1 /\ K \subseteq 1..Len(queue) + 1 /\ D \cap K = {} /\ 0 \notin D /\ Len(queue) + 1 \notin K
      BY <1>6
    <3>2. \A j \in K, k \in D : j < k => line[k].id \in KeepAlives
      <4>1. CASE i \in KeepAlives
        BY <1>2, <1>3, <4>1
      <4>2. CASE queue = <<>>
        <5>1. K = {}
          BY <4>2, EmptySeq
        <5> QED BY <5>1
      <4> QED BY <2>1, <4>1, <4>2
    <3>3. windowed => \A k \in K : line[k].id # None
      BY <1>5, <1>6
    <3> HIDE DEF D
    <3> QED BY <2>1, <3>1, <3>2, <3>3 DEF Splits
  <2>6. Sent(line, D, K, i, d)
    BY <1>1, <1>3 DEF Sent
  <2>10. 0 \notin D /\ \A k \in 1..Len(queue) : k \in D \cup K
    BY <1>6
  <2> HIDE DEF D, K
  <2>7. Comes(line, D, K) /\ Held(line, D, K)
    BY <1>1, <2>6, <2>10 DEF Comes, Held
  <2>8. Reaches(line, D) /\ Fates(line, D, K) /\ pending' \subseteq Requests
    <3>1. Deliver(<<Frame(i, d)>>, pending, {}, "superseded")
      BY <2>2 DEF forward
    <3>2. Gone(line, D, K, {}, "superseded")
      BY <2>10 DEF Gone
    <3>3. pending \in SUBSET Requests /\ IsLine(line)
      BY <1>3, <1>6
    <3> QED BY <2>3, <2>5, <2>7, <3>1, <3>2, <3>3, DeliveryMoves
  <2>9. Moves(line, D, K)
    BY <1>1, <1>3, <2>4, <2>5, <2>7, <2>8 DEF Moves
  <2> QED BY <1>1, <1>4, <1>5, <2>8, <2>9, MovesKeep
<1>8. CASE ~GoesAtOnce(i)
  <2> DEFINE K == 1..Len(queue) \cup {Len(queue) + 1}
  <2>1. /\ queue' = Append(queue, Frame(i, d)) /\ fate' = [fate EXCEPT ![i] = "waiting"]
        /\ UNCHANGED <<pending, worker, texts>>
    BY <1>8 DEF Send
  <2>2. Selects(queue', line, K)
    BY <1>2, <1>3, <2>1, AppendSelects
  <2>3. Splits(line, {}, K)
    <3>1. windowed => \A k \in K : line[k].id # None
      BY <1>2, <1>3, <1>5, <1>6
    <3>2. K \subseteq 1..Len(queue) + 1
      BY <1>6
    <3> QED BY <3>1, <3>2 DEF Splits
  <2>4. Sent(line, {}, K, i, d)
    BY <1>1, <1>3 DEF Sent
  <2>5. Comes(line, {}, K) /\ Held(line, {}, K)
    BY <1>1, <2>4 DEF Comes, Held
  <2>6. Reaches(line, {})
    BY <2>1, NothingReaches
  <2>7. Fates(line, {}, K)
    <3>1. fate \in [Ids -> {"unsent", "waiting", "forwarded", "answered", "superseded", "cancelled"}]
      BY DEF IInv, TypeOK
    <3>2. Stays(line, K)
      BY <1>2, <1>3, <2>1, <3>1 DEF Stays
    <3> QED BY <1>3, <2>3, <2>5, <3>2, NothingMoves
  <2>8. Moves(line, {}, K)
    BY <1>1, <1>3, <2>2, <2>3, <2>5, <2>6, <2>7 DEF Moves
  <2> QED BY <1>1, <1>4, <1>5, <1>6, <2>1, <2>8, MovesKeep
<1> QED BY <1>7, <1>8

(* A cancelled request is answered from the queue.                          *)
LEMMA CancelKeeps ==
  ASSUME IInv, NEW i \in Ids, Cancel(i) PROVE IInv'
<1>1. /\ ~disposed /\ order' = order /\ client' = client /\ held' = held /\ pending' = pending
      /\ UNCHANGED timers /\ UNCHANGED pressure /\ UNCHANGED life /\ UNCHANGED <<worker, texts>> /\ TypeOK
      /\ queue' = Picked({k \in DOMAIN queue : queue[k].id # i}) /\ fate' = [fate EXCEPT ![i] = "cancelled"]
      /\ i \in IdsOf(queue)
  BY DEF Cancel, IInv
<1>2. PICK line : IsLine(line) /\ line[Len(queue) + 1] = NoChange
  BY LineExists
<1>3. /\ timer' \in BOOLEAN /\ cap' \in BOOLEAN /\ recheck' \in BOOLEAN /\ low' \in BOOLEAN /\ recent' \in BOOLEAN
      /\ cap' = cap /\ recheck' = recheck
  BY <1>1, BooleansIs DEF pressure, timers
<1>4. /\ cap \/ recheck => held # NoChange
      /\ windowed => \A k \in DOMAIN queue : queue[k].id # None
  BY <1>1 DEF IInv, Changes
<1>5. /\ queue \in Seq(Frames) /\ Len(queue) \in Nat /\ DOMAIN queue = 1..Len(queue) /\ pending \in SUBSET Requests
      /\ \A k \in 1..Len(queue) : line[k] = queue[k]
  BY <1>2, SeqIs DEF IInv, TypeOK, IsLine
<1> DEFINE K == {k \in DOMAIN queue : queue[k].id # i}
<1>6. K \in SUBSET DOMAIN queue /\ K \subseteq 1..Len(queue) + 1 /\ Len(queue) + 1 \notin K
  BY <1>5
<1>7. Selects(queue', line, K)
  BY <1>1, <1>2, <1>5, <1>6, SelectsPicked
<1>8. i # None
  BY CoalescerAssumption
<1>9. Splits(line, {}, K)
  BY <1>4, <1>5, <1>6, <1>8 DEF Splits
<1>10. Comes(line, {}, K) /\ Held(line, {}, K)
  BY <1>1, <1>6 DEF Comes, Quiet, Held
<1>11. Reaches(line, {})
  BY <1>1, NothingReaches
<1>12. /\ fate \in [Ids -> {"unsent", "waiting", "forwarded", "answered", "superseded", "cancelled"}]
       /\ fate[i] = "waiting"
       /\ \A k \in DOMAIN queue : queue[k].id # None => fate[queue[k].id] = "waiting"
       /\ \A x \in Ids : fate[x] = "waiting" => \E k \in DOMAIN queue : queue[k].id = x
  <2>1. \A k \in DOMAIN queue : queue[k].id # None => fate[queue[k].id] = "waiting"
    BY DEF IInv, Waits
  <2>2. fate[i] = "waiting"
    BY <1>1, <1>8, <2>1 DEF IdsOf
  <2> QED BY <1>1, <2>1, <2>2 DEF IInv, TypeOK, Waits
<1>13. \A x \in Ids : fate'[x] = IF x = i THEN "cancelled" ELSE fate[x]
  BY <1>1, <1>12
<1>14. fate' \in [Ids -> {"unsent", "waiting", "forwarded", "answered", "superseded", "cancelled"}]
  BY <1>1, <1>12
<1>15. Fates(line, {}, K)
  <2>1. ASSUME NEW x \in Ids, NEW k \in K, line[k].id = x PROVE fate'[x] = "waiting" /\ fate[x] = "waiting"
    <3>1. x # i /\ x # None /\ queue[k].id = x /\ k \in DOMAIN queue
      BY <1>5, <2>1, CoalescerAssumption
    <3> QED BY <1>12, <1>13, <3>1
  <2>2. ASSUME NEW x \in Ids, fate'[x] = "waiting" PROVE fate[x] = "waiting" /\ \E k \in K : line[k].id = x
    <3>1. x # i /\ fate[x] = "waiting"
      BY <1>13, <2>2
    <3>2. PICK k \in DOMAIN queue : queue[k].id = x
      BY <1>12, <3>1
    <3> QED BY <1>5, <3>1, <3>2
  <2>3. ASSUME NEW x \in Ids, fate'[x] \in {"forwarded", "answered"} PROVE fate[x] \in {"forwarded", "answered"}
    BY <1>13, <2>3
  <2>4. ASSUME NEW x \in Ids PROVE fate'[x] = "unsent" <=> fate[x] = "unsent" /\ \A k \in {} \cup K : line[k].id # x
    BY <1>12, <1>13, <2>1
  <2> HIDE DEF K
  <2> QED BY <1>14, <2>1, <2>2, <2>3, <2>4 DEF Fates
<1> HIDE DEF K
<1>16. Moves(line, {}, K)
  BY <1>1, <1>2, <1>7, <1>9, <1>10, <1>11, <1>15 DEF Moves
<1> QED BY <1>1, <1>3, <1>4, <1>5, <1>16, MovesKeep

(* A reply frees its slot, and the queue moves up.                          *)
LEMMA SettleKeeps ==
  ASSUME IInv, NEW i \in Ids, settle(i) PROVE IInv'
<1>1. /\ fate[i] = "forwarded" /\ held' = held /\ client' = client /\ order' = order
      /\ UNCHANGED timers /\ UNCHANGED pressure /\ UNCHANGED life /\ TypeOK
  BY DEF settle, IInv
<1>2. PICK line : IsLine(line) /\ line[Len(queue) + 1] = NoChange
  BY LineExists
<1>3. /\ timer' \in BOOLEAN /\ cap' \in BOOLEAN /\ recheck' \in BOOLEAN /\ low' \in BOOLEAN /\ recent' \in BOOLEAN
      /\ cap' = cap /\ recheck' = recheck
  BY <1>1, BooleansIs DEF pressure, timers
<1>4. /\ cap \/ recheck => held # NoChange
      /\ windowed => \A k \in DOMAIN queue : queue[k].id # None
  BY <1>1 DEF IInv, Changes
<1>5. /\ queue \in Seq(Frames) /\ Len(queue) \in Nat /\ DOMAIN queue = 1..Len(queue) /\ pending \in SUBSET Requests
      /\ \A k \in 1..Len(queue) : line[k] = queue[k]
  BY <1>2, SeqIs DEF IInv, TypeOK, IsLine
<1>6. PICK replied : replied = {i}
  OBVIOUS
<1>7. \A x \in replied : fate[x] = "forwarded"
  BY <1>1, <1>6
<1>8. CASE i \in pending /\ held = NoChange
  <2>1. drain(<<>>, replied)
    BY <1>6, <1>8 DEF settle
  <2>2. PICK O : O = {}
    OBVIOUS
  <2>3. O \in SUBSET {0} /\ Selects(<<>>, line, O) /\ (0 \in O <=> held # NoChange)
    BY <1>8, <2>2, SelectsNone
  <2>4. held' = NoChange
    BY <1>1, <1>8
  <2>5. (\E D, K : Moves(line, D, K)) /\ pending' \subseteq Requests
    BY <1>1, <1>2, <1>7, <2>1, <2>3, <2>4, DrainMoves
  <2> QED BY <1>1, <1>3, <1>4, <2>5, MovesKeep
<1>9. CASE ~(i \in pending /\ held = NoChange)
  <2> DEFINE K == 1..Len(queue)
             inFlight == pending \ {i}
  <2>1. queue' = queue /\ Deliver(<<>>, inFlight, {i}, "answered")
    BY <1>9 DEF settle
  <2>2. Selects(<<>>, line, {}) /\ Selects(queue', line, K)
    BY <1>2, <1>5, <2>1, SelectsNone, SelectsQueue
  <2>3. Splits(line, {}, K) /\ Len(queue) + 1 \notin K
    BY <1>4, <1>5 DEF Splits
  <2>4. Comes(line, {}, K) /\ Held(line, {}, K)
    BY <1>1, <1>5 DEF Comes, Quiet, Held
  <2>5. inFlight \in SUBSET Requests
    BY <1>5
  <2> HIDE DEF inFlight
  <2>6. Reaches(line, {}) /\ Fates(line, {}, K) /\ pending' \subseteq Requests
    <3>1. Deliver(<<>>, inFlight, replied, "answered")
      BY <1>6, <2>1
    <3>2. Gone(line, {}, K, replied, "answered")
      BY <1>7 DEF Gone
    <3> HIDE DEF K
    <3> QED BY <1>2, <2>2, <2>3, <2>4, <2>5, <3>1, <3>2, DeliveryMoves
  <2>7. Moves(line, {}, K)
    BY <1>1, <1>2, <2>2, <2>3, <2>4, <2>6 DEF Moves
  <2> QED BY <1>1, <1>3, <1>4, <2>6, <2>7, MovesKeep
<1> QED BY <1>8, <1>9

-----------------------------------------------------------------------------
(* The timers, and the pool's samples.                                      *)
LEMMA TimersKeep ==
  ASSUME IInv, tick \/ capped \/ Recheck \/ MemoryEnds \/ Samples PROVE IInv'
<1>1. /\ timer \in BOOLEAN /\ cap \in BOOLEAN /\ recheck \in BOOLEAN /\ low \in BOOLEAN /\ recent \in BOOLEAN
  BY BooleansIs DEF IInv
<1>2. (cap \/ recheck => held # NoChange) /\ pending \subseteq Requests
  BY DEF IInv, Changes, TypeOK
<1>3. ASSUME release, held # NoChange, client' = client, order' = order, UNCHANGED life, low' \in BOOLEAN, recent' \in BOOLEAN
      PROVE  IInv'
  BY <1>3, ReleaseKeeps
<1>4. ASSUME UNCHANGED <<held, queue, life, seen>>, pending' = pending,
             timer' \in BOOLEAN, cap' \in BOOLEAN, recheck' \in BOOLEAN, low' \in BOOLEAN, recent' \in BOOLEAN,
             cap' \/ recheck' => held # NoChange
      PROVE  IInv'
  <2>1. held' = held
    BY <1>4
  <2>2. cap' \/ recheck' => held' # NoChange
    BY <1>4, <2>1
  <2>3. pending' \subseteq Requests
    BY <1>2, <1>4
  <2> QED BY <1>4, <2>2, <2>3, StillKeeps
<1>5. CASE tick
  <2>1. timer /\ low' = low /\ recent' = recent /\ UNCHANGED life
    BY <1>5 DEF tick, pressure
  <2>2. CASE held = NoChange
    <3>1. timer' = FALSE /\ UNCHANGED <<held, queue, pending, cap, recheck, seen>>
      BY <1>5, <2>2 DEF tick
    <3> QED BY <1>1, <1>2, <1>4, <2>1, <3>1
  <2>3. CASE held # NoChange /\ pressured
    <3>1. hold /\ UNCHANGED <<held, queue, pending, worker, fate, texts>> /\ UNCHANGED <<client, order>>
      BY <1>5, <2>3 DEF tick
    <3>2. timer' = FALSE /\ cap' = TRUE /\ recheck' \in BOOLEAN
      BY <1>1, <3>1 DEF hold
    <3>3. UNCHANGED <<held, queue, life, seen>>
      BY <2>1, <3>1 DEF seen
    <3> QED BY <1>1, <1>4, <2>1, <2>3, <3>1, <3>2, <3>3
  <2>4. CASE held # NoChange /\ ~pressured
    <3>1. release /\ UNCHANGED <<client, order>>
      BY <1>5, <2>4 DEF tick
    <3> QED BY <1>1, <1>3, <2>1, <2>4, <3>1
  <2> QED BY <2>2, <2>3, <2>4
<1>6. CASE capped
  <2>1. cap /\ release /\ low' = low /\ recent' = recent /\ UNCHANGED life /\ client' = client /\ order' = order
    BY <1>6 DEF capped, pressure
  <2> QED BY <1>1, <1>2, <1>3, <2>1
<1>7. CASE Recheck
  <2>1. recheck /\ low' = low /\ recent' = recent /\ UNCHANGED life
    BY <1>7 DEF Recheck, pressure
  <2>2. CASE low
    <3>1. recheck' = FALSE /\ UNCHANGED <<held, queue, pending, timer, cap, seen>>
      BY <1>7, <2>2 DEF Recheck
    <3> QED BY <1>1, <1>2, <1>4, <2>1, <3>1
  <2>3. CASE ~low
    <3>1. release /\ UNCHANGED <<client, order>>
      BY <1>7, <2>3 DEF Recheck
    <3> QED BY <1>1, <1>2, <1>3, <2>1, <3>1
  <2> QED BY <2>2, <2>3
<1>8. CASE MemoryEnds
  <2>1. recent' = FALSE /\ UNCHANGED <<held, queue, pending, timers, low, life, seen>>
    BY <1>8 DEF MemoryEnds
  <2>2. timer' = timer /\ cap' = cap /\ recheck' = recheck
    BY <2>1 DEF timers
  <2> QED BY <1>1, <1>2, <1>4, <2>1, <2>2
<1>9. ASSUME NEW few \in BOOLEAN, observe(few) PROVE IInv'
  <2>1. low' \in BOOLEAN /\ recent' \in BOOLEAN /\ UNCHANGED life
    BY <1>1, <1>9 DEF observe
  <2>2. CASE cap /\ ~few /\ ~recent
    <3>1. release /\ UNCHANGED <<client, order>>
      BY <1>9, <2>2 DEF observe
    <3> QED BY <1>2, <1>3, <2>1, <2>2, <3>1
  <2>3. CASE ~(cap /\ ~few /\ ~recent)
    <3>1. recheck' = (recheck \/ (cap /\ few)) /\ UNCHANGED <<held, queue, pending, timer, cap, seen>>
      BY <1>9, <2>3 DEF observe
    <3>2. recheck' \in BOOLEAN /\ (recheck' => recheck \/ cap)
      BY <1>1, <1>9, <3>1
    <3> QED BY <1>1, <1>2, <1>4, <2>1, <3>1, <3>2
  <2> QED BY <2>2, <2>3
<1> QED BY <1>5, <1>6, <1>7, <1>8, <1>9 DEF Samples

(* The session ends: what waits is dropped.                                 *)
LEMMA DisposeKeeps ==
  ASSUME IInv, dispose PROVE IInv'
<1>1. /\ disposed' = TRUE /\ held' = NoChange /\ queue' = <<>>
      /\ timer' = FALSE /\ cap' = FALSE /\ recheck' = FALSE
      /\ windowed' = windowed /\ pending' = pending /\ low' = low /\ recent' = recent
      /\ client' = client /\ worker' = worker /\ fate' = fate /\ order' = order /\ texts' = texts
  BY DEF dispose, pressure, seen
<1>2. queue' \in Seq(Frames) /\ Len(queue') = 0 /\ DOMAIN queue' = {}
  <2>1. <<>> \in Seq(Frames) /\ Len(<<>>) = 0
    BY EmptySeq
  <2>2. DOMAIN <<>> = {}
    BY <2>1, SeqIs
  <2> QED BY <1>1, <2>1, <2>2
<1>3. TypeOK'
  <2>1. low \in BOOLEAN /\ recent \in BOOLEAN /\ windowed \in BOOLEAN
    BY BooleansIs DEF IInv
  <2>2. {timer', cap', recheck', low', recent', windowed', disposed'} \subseteq BOOLEAN
    BY <1>1, <2>1
  <2> QED BY <1>1, <1>2, <2>2 DEF IInv, TypeOK
<1>4. Changes'
  BY <1>1, <1>2 DEF Changes
<1>5. Newest'
  <2>1. ASSUME NEW d \in Docs, NEW t \in Ahead(d, Len(queue))' PROVE t <= client'[d]
    <3>1. t = worker[d]
      BY <1>1, <1>2, <2>1 DEF Ahead
    <3>2. worker[d] \in Ahead(d, Len(queue))
      BY DEF Ahead
    <3> QED BY <1>1, <3>1, <3>2 DEF IInv, Newest
  <2> QED BY <1>1, <2>1 DEF Newest
<1>6. Served' /\ Waits'
  BY <1>1, <1>2 DEF Served, Waits
<1>7. InOrder' /\ SentOrderKept' /\ ServedAtItsText'
  BY <1>1, <1>2 DEF IInv, InOrder, SentOrderKept, ServedAtItsText
<1> QED BY <1>3, <1>4, <1>5, <1>6, <1>7 DEF IInv

(* At the start nothing is held and nothing was sent.                       *)
LEMMA InitHolds == Init => IInv
<1>1. SUFFICES ASSUME Init PROVE IInv
  OBVIOUS
<1>2. /\ held = NoChange /\ queue = <<>> /\ pending = {}
      /\ timer = FALSE /\ cap = FALSE /\ recheck = FALSE /\ low = FALSE /\ recent = FALSE /\ disposed = FALSE
      /\ client = [d \in Docs |-> 0] /\ worker = client
      /\ fate = [i \in Ids |-> "unsent"] /\ order = <<>>
      /\ texts = [i \in Ids |-> [sent |-> 0, got |-> 0]]
  BY <1>1 DEF Init
<1>3. /\ <<>> \in Seq(Frames) /\ <<>> \in Seq(Ids) /\ Len(<<>>) = 0 /\ DOMAIN <<>> = {}
  <2>1. <<>> \in Seq(Frames) /\ <<>> \in Seq(Ids) /\ Len(<<>>) = 0
    BY EmptySeq
  <2> QED BY <2>1, SeqIs
<1>4. TypeOK
  <2>1. windowed \in BOOLEAN
    BY <1>1, CoalescerAssumption DEF Init
  <2>2. {timer, cap, recheck, low, recent, windowed, disposed} \subseteq BOOLEAN
    BY <1>2, <2>1
  <2>3. 0 \in 0..MaxEdits
    BY CoalescerAssumption
  <2>4. client \in [Docs -> 0..MaxEdits] /\ worker \in [Docs -> 0..MaxEdits]
    BY <1>2, <2>3
  <2>5. texts \in [Ids -> [sent : 0..MaxEdits, got : 0..MaxEdits]]
    BY <1>2, <2>3
  <2> QED BY <1>2, <1>3, <2>2, <2>4, <2>5 DEF TypeOK
<1>5. Changes /\ Served /\ Waits
  BY <1>2, <1>3 DEF Changes, Served, Waits
<1>6. Newest
  <2>1. ASSUME NEW d \in Docs PROVE Ahead(d, Len(queue)) = {0} /\ client[d] = 0
    BY <1>2, <1>3 DEF Ahead
  <2> QED BY <2>1 DEF Newest
<1>7. InOrder /\ SentOrderKept /\ ServedAtItsText
  BY <1>2, <1>3 DEF InOrder, SentOrderKept, ServedAtItsText
<1> QED BY <1>4, <1>5, <1>6, <1>7 DEF IInv

(* Every step keeps the invariant.                                          *)
LEMMA NextKeeps == IInv /\ [Next]_vars => IInv'
<1>1. SUFFICES ASSUME IInv, [Next]_vars PROVE IInv'
  OBVIOUS
<1>2. CASE UNCHANGED vars
  <2>1. UNCHANGED <<held, queue, life, seen>> /\ held' = held /\ pending' = pending /\ UNCHANGED timers /\ UNCHANGED pressure
    BY <1>2 DEF vars
  <2>2. /\ timer \in BOOLEAN /\ cap \in BOOLEAN /\ recheck \in BOOLEAN /\ low \in BOOLEAN /\ recent \in BOOLEAN
    BY <1>1, BooleansIs DEF IInv
  <2>3. timer' = timer /\ cap' = cap /\ recheck' = recheck /\ low' = low /\ recent' = recent
    BY <2>1 DEF timers, pressure
  <2>4. (cap \/ recheck => held # NoChange) /\ pending \subseteq Requests
    BY <1>1 DEF IInv, Changes, TypeOK
  <2> QED BY <1>1, <2>1, <2>2, <2>3, <2>4, StillKeeps
<1>3. ASSUME NEW d \in Docs, ChangeAtOnce(d) \/ ChangeHeld(d) \/ ChangeReplaces(d) PROVE IInv'
  BY <1>1, <1>3, ChangeKeeps
<1>4. ASSUME NEW d \in Docs, ChangeOther(d) \/ Barrier(d) PROVE IInv'
  BY <1>1, <1>4, FlushKeeps
<1>5. ASSUME NEW d \in Docs, ChangeUnwindowed(d) PROVE IInv'
  BY <1>1, <1>5, UnwindowedKeeps
<1>6. ASSUME NEW i \in Ids, NEW d \in Docs, Send(i, d) PROVE IInv'
  BY <1>1, <1>6, SendKeeps
<1>7. ASSUME NEW i \in Ids, Cancel(i) PROVE IInv'
  BY <1>1, <1>7, CancelKeeps
<1>8. ASSUME NEW i \in Ids, settle(i) PROVE IInv'
  BY <1>1, <1>8, SettleKeeps
<1>9. CASE tick \/ capped \/ Recheck \/ MemoryEnds \/ Samples
  BY <1>1, <1>9, TimersKeep
<1>10. CASE dispose
  BY <1>1, <1>10, DisposeKeeps
<1> QED BY <1>1, <1>2, <1>3, <1>4, <1>5, <1>6, <1>7, <1>8, <1>9, <1>10 DEF Next

(* The coalescer's invariant: what waits, in which order it was sent, and   *)
(* which texts are ahead of it.                                             *)
THEOREM CoalescerInvariant == Spec => []IInv
<1>1. Init => IInv
  BY InitHolds
<1>2. IInv /\ [Next]_vars => IInv'
  BY NextKeeps
<1> QED BY <1>1, <1>2, PTL DEF Spec

(* Nothing is lost and nothing is merged: inside a window, the newest text  *)
(* of every document is at the worker, or held.                             *)
THEOREM CoalescerNewestText == Spec => []NewestTextHeldOrThere
<1>1. IInv => NewestTextHeldOrThere
  <2>1. SUFFICES ASSUME IInv, ~disposed, windowed, NEW d \in Docs
                 PROVE  IF held # NoChange /\ held.doc = d THEN held.text = client[d] ELSE worker[d] = client[d]
    BY DEF NewestTextHeldOrThere
  <2>2. CASE held # NoChange /\ held.doc = d
    BY <2>1, <2>2 DEF IInv, Changes
  <2>3. CASE ~(held # NoChange /\ held.doc = d)
    <3>1. \A k \in DOMAIN queue : queue[k].id # None
      BY <2>1 DEF IInv, Changes
    <3>2. client[d] \in Ahead(d, Len(queue))
      BY <2>1 DEF IInv, Newest
    <3>3. client[d] = worker[d]
      BY <2>3, <3>1, <3>2 DEF Ahead
    <3> QED BY <2>3, <3>3
  <2> QED BY <2>2, <2>3
<1> QED BY <1>1, CoalescerInvariant, PTL

(* No frame is at the worker while an earlier one waits, keep-alives apart. *)
THEOREM CoalescerSentOrder == Spec => []SentOrderKept
<1>1. IInv => SentOrderKept
  BY DEF IInv
<1> QED BY <1>1, CoalescerInvariant, PTL

(* No frame is served against a text older than the one it was sent after,  *)
(* and a request whose reply Monaco rebases against exactly that one.       *)
THEOREM CoalescerServedAtItsText == Spec => []ServedAtItsText
<1>1. IInv => ServedAtItsText
  BY DEF IInv
<1> QED BY <1>1, CoalescerInvariant, PTL


-----------------------------------------------------------------------------
(* The slots.  A request that holds one is at the worker.                   *)
Slots == (\A i \in pending : fate[i] = "forwarded") /\ WaitsForASlot

(* The requests among the first n frames of the queue, and whether a slot   *)
(* is free once they have gone.                                             *)
Upto(n) == {queue[k].id : k \in 1..n} \cap Requests
RoomAfter(inFlight, n) == slotFree(Cardinality(inFlight) + Cardinality(Upto(n)))

(* The ids of a selection.                                                  *)
LEMMA SelectsIds ==
  ASSUME NEW out, NEW line, NEW D, Selects(out, line, D)
  PROVE  IdsOf(out) = {line[k].id : k \in D} \ {None} /\ (out # <<>> => D # {})
<1>1. PICK g \in [DOMAIN out -> D] :
        /\ \A k \in DOMAIN out : out[k] = line[g[k]]
        /\ \A p \in D : \E k \in DOMAIN out : g[k] = p
  BY DEF Selects
<1>2. ASSUME NEW k \in DOMAIN out PROVE g[k] \in D /\ out[k].id = line[g[k]].id
  BY <1>1
<1>3. ASSUME NEW p \in D PROVE \E k \in DOMAIN out : out[k].id = line[p].id
  BY <1>1
<1>4. IdsOf(out) = {line[k].id : k \in D} \ {None}
  BY <1>2, <1>3 DEF IdsOf
<1>5. ASSUME out # <<>> PROVE D # {}
  <2>1. out \in Seq(Frames) /\ Len(out) \in Nat \ {0} /\ DOMAIN out = 1..Len(out)
    BY <1>5, EmptySeq, SeqIs DEF Selects
  <2>2. 1 \in DOMAIN out
    BY <2>1
  <2> QED BY <1>1, <2>2
<1> QED BY <1>4, <1>5

(* The requests of a prefix of the queue.                                   *)
LEMMA UptoIs ==
  ASSUME queue \in Seq(Frames), NEW n \in 0..Len(queue)
  PROVE  IdsOf(SubSeq(queue, 1, n)) \cap Requests = Upto(n)
<1>1. Len(queue) \in Nat /\ \A k \in 1..n : queue[k] \in Frames
  <2>1. Len(queue) \in Nat /\ DOMAIN queue = 1..Len(queue) /\ \A k \in DOMAIN queue : queue[k] \in Frames
    BY SeqIs
  <2> QED BY <2>1
<1>2. n \in Int /\ 1 \in Int /\ n - 1 + 1 = n /\ \A k \in 1..n : 1 + k - 1 = k
  BY <1>1
<1> DEFINE s == SubSeq(queue, 1, n)
<1>3. /\ s \in Seq(Frames) /\ Len(s) = IF 1 <= n THEN n - 1 + 1 ELSE 0
      /\ \A k \in 1..n - 1 + 1 : s[k] = queue[1 + k - 1]
  BY <1>1, <1>2, SubSeqProperties
<1> HIDE DEF s
<1>4. DOMAIN s = 1..n
  <2>1. DOMAIN s = 1..Len(s) /\ Len(s) = n
    BY <1>2, <1>3, SeqIs
  <2> QED BY <2>1
<1>5. \A k \in 1..n : s[k] = queue[k]
  BY <1>2, <1>3
<1>6. None \notin Requests
  BY CoalescerAssumption
<1>7. IdsOf(s) \cap Requests = Upto(n)
  BY <1>4, <1>5, <1>6 DEF IdsOf, Upto
<1> QED BY <1>7 DEF s

(* A drain takes the longest prefix whose requests find a slot.             *)
LEMMA DrainableIsMost ==
  ASSUME queue \in Seq(Frames), NEW inFlight, NEW m, m = Drainable(inFlight)
  PROVE  /\ m \in 0..Len(queue)
         /\ \A k \in 1..m : queue[k].id \in Requests => RoomAfter(inFlight, k - 1)
         /\ m < Len(queue) => queue[m + 1].id \in Requests /\ ~RoomAfter(inFlight, m)
<1> DEFINE InFlight(n) == Cardinality(inFlight) + Cardinality(IdsOf(SubSeq(queue, 1, n)) \cap Requests)
           S == {n \in 0..Len(queue) : \A k \in 1..n : queue[k].id \in Requests => slotFree(InFlight(k - 1))}
           T == {n \in 0..Len(queue) : \A k \in 1..n : queue[k].id \in Requests => RoomAfter(inFlight, k - 1)}
<1>1. Len(queue) \in Nat
  BY SeqIs
<1>2. \A n \in 0..Len(queue) : slotFree(InFlight(n)) <=> RoomAfter(inFlight, n)
  BY UptoIs DEF RoomAfter
<1>3. m = Max(S)
  BY DEF Drainable
<1> HIDE DEF InFlight
<1>4. S = T
  <2>1. ASSUME NEW n \in 0..Len(queue), NEW k \in 1..n PROVE k - 1 \in 0..Len(queue)
    BY <1>1
  <2> QED BY <1>2, <2>1
<1>5. T \in SUBSET (0..Len(queue)) /\ 0 \in T
  BY <1>1
<1> HIDE DEF S
<1>6. m = Max(T)
  BY <1>3, <1>4
<1>7. m \in T /\ \A x \in T : x <= m
  <2> HIDE DEF T
  <2>1. T \in SUBSET Nat /\ T # {} /\ \A x \in T : x <= Len(queue)
    BY <1>1, <1>5
  <2> QED BY <1>1, <1>6, <2>1, MaxIs
<1>8. m \in 0..Len(queue) /\ \A k \in 1..m : queue[k].id \in Requests => RoomAfter(inFlight, k - 1)
  BY <1>7
<1>9. ASSUME m < Len(queue) PROVE queue[m + 1].id \in Requests /\ ~RoomAfter(inFlight, m)
  <2>1. m + 1 \in 0..Len(queue) /\ m + 1 \in 1..m + 1 /\ ~(m + 1 <= m)
    BY <1>1, <1>8, <1>9
  <2>2. m + 1 \notin T
    BY <1>7, <2>1
  <2>3. PICK k \in 1..m + 1 : queue[k].id \in Requests /\ ~RoomAfter(inFlight, k - 1)
    BY <2>1, <2>2
  <2>4. k \notin 1..m
    BY <1>8, <2>3
  <2>5. k = m + 1 /\ k - 1 = m
    BY <1>1, <1>8, <2>4
  <2> QED BY <2>3, <2>5
<1> QED BY <1>8, <1>9

(* Requests are finitely many.                                              *)
LEMMA FiniteRequests ==
  ASSUME NEW S \in SUBSET Requests PROVE IsFiniteSet(S) /\ Cardinality(S) \in Nat
<1>1. S \in SUBSET Ids /\ IsFiniteSet(Ids)
  BY CoalescerAssumption
<1> QED BY <1>1, FS_Subset, FS_CardinalityType

(* What the slots count: those in flight, and the queue's first requests.   *)
LEMMA RoomIs ==
  ASSUME IInv, Slots, NEW inFlight \in SUBSET pending, NEW n \in 0..Len(queue)
  PROVE  /\ inFlight \cup Upto(n) \in SUBSET Requests /\ inFlight \cap Upto(n) = {}
         /\ RoomAfter(inFlight, n) <=> slotFree(Cardinality(inFlight \cup Upto(n)))
<1>1. pending \subseteq Requests /\ Upto(n) \subseteq Requests /\ None \notin Requests
  BY CoalescerAssumption DEF IInv, TypeOK, Upto
<1>2. inFlight \in SUBSET Requests /\ Upto(n) \in SUBSET Requests
  BY <1>1
<1>3. Len(queue) \in Nat /\ DOMAIN queue = 1..Len(queue)
  BY SeqIs DEF IInv, TypeOK
<1>4. \A k \in 1..n : k \in DOMAIN queue
  BY <1>3
<1>5. \A x \in Upto(n) : fate[x] = "waiting"
  BY <1>1, <1>4 DEF Upto, IInv, Waits
<1>6. \A x \in inFlight : fate[x] = "forwarded"
  BY DEF Slots
<1>7. inFlight \cap Upto(n) = {}
  BY <1>5, <1>6
<1>8. /\ IsFiniteSet(inFlight) /\ IsFiniteSet(Upto(n))
      /\ Cardinality(inFlight) \in Nat /\ Cardinality(Upto(n)) \in Nat
  BY <1>2, FiniteRequests
<1>9. Cardinality(inFlight \cup Upto(n)) = Cardinality(inFlight) + Cardinality(Upto(n)) - Cardinality({})
  BY <1>7, <1>8, FS_Union
<1>10. Cardinality(inFlight \cup Upto(n)) = Cardinality(inFlight) + Cardinality(Upto(n))
  BY <1>8, <1>9, FS_EmptySet
<1> QED BY <1>2, <1>7, <1>10 DEF RoomAfter

(* The last request that a drain sends found a slot.                        *)
LEMMA LastFoundRoom ==
  ASSUME IInv, Slots, NEW inFlight \in SUBSET pending, NEW m \in 0..Len(queue),
         \A k \in 1..m : queue[k].id \in Requests => RoomAfter(inFlight, k - 1)
  PROVE  inFlight \cup Upto(m) \subseteq pending \/ slotFree(Cardinality(inFlight \cup Upto(m)) - 1)
<1>1. Len(queue) \in Nat /\ DOMAIN queue = 1..Len(queue) /\ None \notin Requests
  BY SeqIs, CoalescerAssumption DEF IInv, TypeOK
<1> DEFINE R == {k \in 1..m : queue[k].id \in Requests}
<1>2. CASE R = {}
  <2>1. Upto(m) = {}
    BY <1>2 DEF Upto
  <2> QED BY <2>1
<1>3. CASE R # {}
  <2>1. PICK l : l \in R /\ \A k \in R : k <= l
    <3>1. R \in SUBSET Nat /\ \A k \in R : k <= m
      BY <1>1
    <3>2. m \in Nat
      BY <1>1
    <3> HIDE DEF R
    <3>3. Max(R) \in R /\ \A k \in R : k <= Max(R)
      BY <1>3, <3>1, <3>2, MaxIs
    <3> QED BY <3>3
  <2>2. l \in 1..m /\ queue[l].id \in Requests /\ l - 1 \in 0..Len(queue) /\ l \in DOMAIN queue
    BY <1>1, <2>1
  <2>3. \A k \in 1..m : queue[k].id \in Requests => k <= l
    BY <2>1
  <2> DEFINE x == queue[l].id
             S == inFlight \cup Upto(l - 1)
  <2>4. RoomAfter(inFlight, l - 1)
    BY <2>2
  <2>5. S \in SUBSET Requests /\ slotFree(Cardinality(S))
    BY <2>2, <2>4, RoomIs
  <2>6. x \notin S
    <3>1. x \notin inFlight
      BY <1>1, <2>2 DEF Slots, IInv, Waits
    <3>2. ASSUME NEW k \in 1..l - 1 PROVE queue[k].id # x
      <4>1. k # l /\ k \in DOMAIN queue
        BY <1>1, <2>2
      <4> QED BY <1>1, <2>2, <4>1 DEF IInv, Waits
    <3> QED BY <3>1, <3>2 DEF Upto
  <2>7. inFlight \cup Upto(m) = S \cup {x}
    <3>1. \A k \in 1..m : k \in 1..l - 1 \/ k = l \/ queue[k].id \notin Requests
      BY <1>1, <2>2, <2>3
    <3>2. \A k \in 1..l - 1 : k \in 1..m
      BY <1>1, <2>2
    <3>3. Upto(m) = Upto(l - 1) \cup {x}
      BY <2>2, <3>1, <3>2 DEF Upto
    <3> QED BY <3>3
  <2> HIDE DEF x, S
  <2>8. IsFiniteSet(S) /\ Cardinality(S) \in Nat
    BY <2>5, FiniteRequests
  <2>9. Cardinality(S \cup {x}) = Cardinality(S) + 1
    BY <2>6, <2>8, FS_AddElement
  <2>10. PICK c \in Nat : Cardinality(S) = c
    BY <2>8
  <2>11. Cardinality(inFlight \cup Upto(m)) = c + 1
    BY <2>7, <2>9, <2>10, Zenon
  <2>12. Cardinality(inFlight \cup Upto(m)) - 1 = c
    BY <2>11
  <2> QED BY <2>5, <2>10, <2>12
<1> QED BY <1>2, <1>3

(* Whatever reaches the worker holds its slot there.                        *)
LEMMA DeliverForwards ==
  ASSUME Slots, TypeOK, NEW out, NEW inFlight \in SUBSET pending, NEW gone, NEW answer,
         Deliver(out, inFlight, gone, answer), gone \cap inFlight = {}
  PROVE  \A i \in pending' : fate'[i] = "forwarded"
<1>1. ASSUME NEW i \in pending' PROVE i \in Ids /\ (i \in IdsOf(out) \/ (i \in inFlight /\ i \notin gone))
  BY CoalescerAssumption DEF Deliver, TypeOK
<1>2. \A i \in Ids : fate'[i] = IF i \in IdsOf(out) THEN "forwarded" ELSE IF i \in gone THEN answer ELSE fate[i]
  BY DEF Deliver
<1> QED BY <1>1, <1>2 DEF Slots

(* What a step leaves: requests at the worker in their slots, no more than  *)
(* the cap, and none waiting beside a free one.                             *)
WithinCap ==
  pending' \subseteq pending \/ slotFree(Cardinality(pending') - 1)

(* A drain.                                                                 *)
LEMMA DrainSlots ==
  ASSUME IInv, Slots, NEW line, IsLine(line), NEW O \in SUBSET {0}, NEW first, Selects(first, line, O),
         O # {} => held # NoChange, NEW replied, drain(first, replied)
  PROVE  Slots' /\ WithinCap
<1>1. /\ queue \in Seq(Frames) /\ Len(queue) \in Nat /\ DOMAIN queue = 1..Len(queue) /\ pending \subseteq Requests
      /\ \A k \in 1..Len(queue) : line[k] = queue[k] /\ queue[k] \in Frames
      /\ line[0] = held
  BY SeqIs DEF IInv, TypeOK, IsLine
<1> DEFINE inFlight == pending \ replied
           goes == {k \in DOMAIN queue : k <= Drainable(inFlight) \/ queue[k].id \in KeepAlives}
           K == DOMAIN queue \ goes
           out == first \o Picked(goes)
<1>2. queue' = Picked(K) /\ Deliver(out, inFlight, replied, "answered")
  BY DEF drain
<1>3. PICK m : m = Drainable(inFlight)
  OBVIOUS
<1>4. /\ m \in 0..Len(queue)
      /\ \A k \in 1..m : queue[k].id \in Requests => RoomAfter(inFlight, k - 1)
      /\ m < Len(queue) => ~RoomAfter(inFlight, m)
  BY <1>1, <1>3, DrainableIsMost
<1>5. \A k \in 1..Len(queue) : k \in goes <=> k <= m \/ queue[k].id \in KeepAlives
  BY <1>1, <1>3
<1>6. goes \in SUBSET DOMAIN queue /\ K \in SUBSET DOMAIN queue /\ goes \cap K = {} /\ inFlight \subseteq pending /\ replied \cap inFlight = {}
  OBVIOUS
<1>7. \A k \in K : k \in 1..Len(queue) /\ k \notin goes
  BY <1>1
<1> HIDE DEF goes, K, inFlight
<1>8. Selects(Picked(goes), line, goes) /\ Selects(queue', line, K)
  BY <1>1, <1>2, <1>6, SelectsPicked
<1>9. IdsOf(out) \cap Requests = Upto(m)
  <2>1. O \in SUBSET Nat /\ goes \in SUBSET Nat /\ \A p \in O, q \in goes : p < q
    BY <1>1, <1>6
  <2>2. Selects(out, line, O \cup goes)
    BY <1>8, <2>1, SelectsBoth
  <2>3. IdsOf(out) = {line[k].id : k \in O \cup goes} \ {None}
    BY <2>2, SelectsIds
  <2>4. \A k \in O : line[k].id = None
    BY <1>1 DEF IInv, Changes
  <2>5. Requests \cap KeepAlives = {} /\ None \notin Requests
    BY CoalescerAssumption
  <2>6. \A k \in goes : k \in 1..Len(queue) /\ line[k].id = queue[k].id
    BY <1>1, <1>6
  <2>7. \A k \in 1..m : k \in goes
    BY <1>1, <1>4, <1>5
  <2>8. \A k \in goes : k \in 1..m \/ queue[k].id \in KeepAlives
    BY <1>1, <1>4, <1>5, <2>6
  <2> HIDE DEF out
  <2>9. ASSUME NEW x \in Requests PROVE x \in IdsOf(out) <=> x \in Upto(m)
    BY <2>3, <2>4, <2>5, <2>6, <2>7, <2>8 DEF Upto
  <2>10. Upto(m) \subseteq Requests
    BY DEF Upto
  <2> QED BY <2>9, <2>10
<1> HIDE DEF out
<1>10. pending' = IF MaxInFlight = 0 THEN {} ELSE inFlight \cup Upto(m)
  BY <1>2, <1>9 DEF Deliver
<1>11. inFlight \in SUBSET pending
  BY <1>6
<1>12. WithinCap
  <2>1. CASE MaxInFlight = 0
    BY <1>10, <2>1 DEF WithinCap
  <2>2. CASE MaxInFlight # 0
    BY <1>4, <1>10, <1>11, <2>2, LastFoundRoom DEF WithinCap
  <2> QED BY <2>1, <2>2
<1>13. \A i \in pending' : fate'[i] = "forwarded"
  <2>1. TypeOK
    BY DEF IInv
  <2> QED BY <1>2, <1>6, <1>11, <2>1, DeliverForwards
<1>14. ASSUME queue' # <<>> PROVE ~slotFree(Cardinality(pending')) /\ IdsOf(queue') \cap KeepAlives = {}
  <2>1. K # {} /\ IdsOf(queue') = {line[k].id : k \in K} \ {None}
    BY <1>8, <1>14, SelectsIds
  <2>2. PICK k \in K : TRUE
    BY <2>1
  <2>3. m < Len(queue)
    BY <1>1, <1>4, <1>5, <1>7, <2>2
  <2>4. ~slotFree(Cardinality(inFlight \cup Upto(m)))
    BY <1>4, <1>11, <2>3, RoomIs
  <2>5. MaxInFlight # 0
    BY <2>4 DEF slotFree
  <2>6. ~slotFree(Cardinality(pending'))
    BY <1>10, <2>4, <2>5
  <2>7. \A j \in K : line[j].id \notin KeepAlives
    BY <1>1, <1>5, <1>7
  <2> QED BY <2>1, <2>6, <2>7
<1>15. WaitsForASlot'
  BY <1>14 DEF WaitsForASlot, slotFree
<1> QED BY <1>12, <1>13, <1>15 DEF Slots

(* A step that takes no new slot, and under which what still waits waited   *)
(* for one.                                                                 *)
LEMMA NoNewSlot ==
  ASSUME Slots, pending' \subseteq pending, \A i \in pending' : fate'[i] = "forwarded",
         \/ held' # NoChange
         \/ queue' = <<>>
         \/ /\ held = NoChange /\ queue # <<>> /\ (MaxInFlight # 0 => pending' = pending)
            /\ \A x \in IdsOf(queue') : x \in IdsOf(queue) \/ x \notin KeepAlives
  PROVE  Slots' /\ WithinCap
<1>1. CASE held' # NoChange \/ queue' = <<>>
  BY <1>1 DEF Slots, WaitsForASlot, WithinCap
<1>2. CASE /\ held = NoChange /\ queue # <<>> /\ (MaxInFlight # 0 => pending' = pending)
           /\ \A x \in IdsOf(queue') : x \in IdsOf(queue) \/ x \notin KeepAlives
  <2>1. ~slotFree(Cardinality(pending)) /\ IdsOf(queue) \cap KeepAlives = {}
    BY <1>2 DEF Slots, WaitsForASlot
  <2>2. pending' = pending
    BY <1>2, <2>1 DEF slotFree
  <2>3. ~slotFree(Cardinality(pending'))
    BY <2>1, <2>2
  <2>4. IdsOf(queue') \cap KeepAlives = {}
    BY <1>2, <2>1
  <2>5. WaitsForASlot'
    BY <2>3, <2>4 DEF WaitsForASlot, slotFree, IdsOf
  <2> QED BY <2>2, <2>5 DEF Slots, WithinCap
<1> QED BY <1>1, <1>2

(* A delivery of frames that take no slot.                                  *)
LEMMA DeliverNoSlot ==
  ASSUME Slots, TypeOK, NEW out, IdsOf(out) \cap Requests = {}, NEW gone, NEW answer,
         NEW inFlight \in SUBSET pending, Deliver(out, inFlight, gone, answer), gone \cap inFlight = {}
  PROVE  /\ pending' \subseteq pending /\ \A i \in pending' : fate'[i] = "forwarded"
         /\ MaxInFlight # 0 => pending' = inFlight
<1>1. \A i \in pending' : fate'[i] = "forwarded"
  BY DeliverForwards
<1>2. pending' = IF MaxInFlight = 0 THEN {} ELSE inFlight \cup {}
  BY DEF Deliver
<1> QED BY <1>1, <1>2

(* Frames picked from the queue were there.                                 *)
LEMMA PickedIds ==
  ASSUME queue \in Seq(Frames), NEW at \in SUBSET DOMAIN queue, queue' = Picked(at)
  PROVE  (\A x \in IdsOf(queue') : x \in IdsOf(queue)) /\ (queue = <<>> => queue' = <<>>)
<1>1. Picked(at) \in Seq(Frames)
  BY PickedIs
<1>2. PICK g \in [DOMAIN Picked(at) -> at] : \A k \in DOMAIN Picked(at) : Picked(at)[k] = queue[g[k]]
  BY PickedIs
<1>3. \A k \in DOMAIN queue' : g[k] \in DOMAIN queue /\ queue'[k].id = queue[g[k]].id
  BY <1>2
<1>4. \A x \in IdsOf(queue') : x \in IdsOf(queue)
  BY <1>3 DEF IdsOf
<1>5. ASSUME queue = <<>> PROVE queue' = <<>>
  <2>1. DOMAIN queue = {}
    <3>1. Len(queue) = 0 /\ DOMAIN queue = 1..Len(queue)
      BY <1>5, EmptySeq, SeqIs
    <3> QED BY <3>1
  <2>2. queue' \in Seq(Frames) /\ DOMAIN queue' = {}
    BY <1>1, <1>3, <2>1
  <2>3. queue' # <<>> => Len(queue') \in Nat \ {0} /\ DOMAIN queue' = 1..Len(queue')
    BY <2>2, EmptySeq, SeqIs
  <2>4. Len(queue') \in Nat \ {0} => 1 \in 1..Len(queue')
    OBVIOUS
  <2> QED BY <2>2, <2>3, <2>4
<1> QED BY <1>4, <1>5

(* One frame more.                                                          *)
LEMMA AppendIds ==
  ASSUME queue \in Seq(Frames), NEW f \in Frames, queue' = Append(queue, f)
  PROVE  \A x \in IdsOf(queue') : x \in IdsOf(queue) \/ x = f.id
<1>1. Len(queue) \in Nat /\ DOMAIN queue = 1..Len(queue)
  BY SeqIs
<1>2. /\ queue' \in Seq(Frames) /\ Len(queue') = Len(queue) + 1
      /\ \A k \in 1..Len(queue) : queue'[k] = queue[k]
      /\ queue'[Len(queue) + 1] = f
  BY AppendProperties
<1>3. DOMAIN queue' = 1..Len(queue) + 1
  BY <1>2, SeqIs
<1>4. ASSUME NEW k \in DOMAIN queue' PROVE k \in DOMAIN queue \/ k = Len(queue) + 1
  BY <1>1, <1>3
<1> QED BY <1>1, <1>2, <1>4 DEF IdsOf

(* The id of a single frame.                                                *)
LEMMA OneId ==
  ASSUME NEW f PROVE IdsOf(<<f>>) = {f.id} \ {None} /\ IdsOf(<<>>) = {}
<1>1. DOMAIN <<f>> = {1} /\ <<f>>[1] = f /\ DOMAIN <<>> = {}
  OBVIOUS
<1> QED BY <1>1 DEF IdsOf

(* Changes take no slot; but the frames a flush lets through may.           *)
LEMMA ChangeSlots ==
  ASSUME IInv, Slots, NEW d \in Docs,
         ChangeAtOnce(d) \/ ChangeHeld(d) \/ ChangeReplaces(d) \/ ChangeUnwindowed(d)
  PROVE  Slots' /\ WithinCap
<1>1. Types(d) /\ TypeOK /\ queue \in Seq(Frames) /\ pending \in SUBSET pending /\ None \notin KeepAlives
  BY CoalescerAssumption DEF ChangeAtOnce, ChangeHeld, ChangeReplaces, ChangeUnwindowed, IInv, TypeOK
<1>2. NewChange(d) \in Frames /\ NewChange(d) # NoChange /\ NewChange(d).id = None
  BY <1>1, TypedIs
<1>3. IdsOf(<<NewChange(d)>>) \cap Requests = {} /\ IdsOf(<<>>) \cap Requests = {}
  BY <1>2, OneId
<1>4. ASSUME NEW out, IdsOf(out) \cap Requests = {}, supersede(d, out),
             held' # NoChange \/ (held = NoChange /\ held' = NoChange)
      PROVE  Slots' /\ WithinCap
  <2> DEFINE stale == {k \in DOMAIN queue : queue[k].id \in Tokens /\ queue[k].doc = d}
             gone == {queue[k].id : k \in stale}
             rest == DOMAIN queue \ stale
  <2>1. queue' = Picked(rest) /\ Deliver(out, pending, gone, "superseded") /\ rest \in SUBSET DOMAIN queue
    BY <1>4 DEF supersede
  <2>2. \A i \in gone : fate[i] = "waiting"
    BY CoalescerAssumption DEF IInv, Waits
  <2>3. gone \cap pending = {}
    BY <2>2 DEF Slots
  <2> HIDE DEF gone, rest
  <2>4. /\ pending' \subseteq pending /\ \A i \in pending' : fate'[i] = "forwarded"
        /\ MaxInFlight # 0 => pending' = pending
    BY <1>1, <1>4, <2>1, <2>3, DeliverNoSlot
  <2>5. (\A x \in IdsOf(queue') : x \in IdsOf(queue)) /\ (queue = <<>> => queue' = <<>>)
    BY <1>1, <2>1, PickedIds
  <2> QED BY <1>4, <2>4, <2>5, NoNewSlot
<1>5. CASE ChangeAtOnce(d)
  <2>1. supersede(d, <<NewChange(d)>>) /\ held = NoChange /\ held' = NoChange
    BY <1>5 DEF ChangeAtOnce
  <2> QED BY <1>3, <1>4, <2>1
<1>6. CASE ChangeHeld(d) \/ ChangeReplaces(d)
  <2>1. supersede(d, <<>>) /\ held' # NoChange
    BY <1>2, <1>6 DEF ChangeHeld, ChangeReplaces
  <2> QED BY <1>3, <1>4, <2>1
<1>7. CASE ChangeUnwindowed(d)
  <2>1. held = NoChange /\ held' = held
    BY <1>7 DEF ChangeUnwindowed, IInv, Changes
  <2>2. CASE queue = <<>>
    <3>1. Deliver(<<NewChange(d)>>, pending, {}, "superseded") /\ queue' = <<>>
      BY <1>7, <2>2 DEF ChangeUnwindowed, forward
    <3>2. pending' \subseteq pending /\ \A i \in pending' : fate'[i] = "forwarded"
      BY <1>1, <1>3, <3>1, DeliverNoSlot
    <3> QED BY <3>1, <3>2, NoNewSlot
  <2>3. CASE queue # <<>>
    <3>1. queue' = Append(queue, NewChange(d)) /\ pending' = pending /\ fate' = fate
      BY <1>7, <2>3 DEF ChangeUnwindowed
    <3>2. \A x \in IdsOf(queue') : x \in IdsOf(queue) \/ x = None
      BY <1>1, <1>2, <3>1, AppendIds
    <3>3. \A i \in pending' : fate'[i] = "forwarded"
      BY <3>1 DEF Slots
    <3> QED BY <1>1, <2>1, <2>3, <3>1, <3>2, <3>3, NoNewSlot
  <2> QED BY <2>2, <2>3
<1> QED BY <1>5, <1>6, <1>7

(* A flush may go past the cap, and leaves nothing queued.                  *)
LEMMA FlushSlots ==
  ASSUME IInv, Slots, NEW d \in Docs, ChangeOther(d) \/ Barrier(d)
  PROVE  Slots'
<1>1. PICK last : flushAll(last)
  BY DEF ChangeOther, Barrier
<1>2. PICK out : queue' = <<>> /\ Deliver(out, pending, {}, "superseded")
  BY <1>1 DEF flushAll, forward
<1>3. TypeOK /\ pending \in SUBSET pending /\ {} \cap pending = {}
  BY DEF IInv
<1>4. \A i \in pending' : fate'[i] = "forwarded"
  BY <1>2, <1>3, DeliverForwards
<1>5. WaitsForASlot'
  BY <1>2 DEF WaitsForASlot
<1> QED BY <1>4, <1>5 DEF Slots

(* A frame that goes at once found a slot, or needs none; one that waits    *)
(* found none, or stands behind one that does.                              *)
LEMMA SendSlots ==
  ASSUME IInv, Slots, NEW i \in Ids, NEW d \in Docs, Send(i, d)
  PROVE  Slots' /\ WithinCap
<1>1. fate[i] = "unsent" /\ held' = held /\ TypeOK /\ queue \in Seq(Frames)
      /\ pending \in SUBSET pending /\ pending \in SUBSET Requests /\ {} \cap pending = {}
  BY DEF Send, IInv, TypeOK
<1>2. Frame(i, d) \in Frames /\ Frame(i, d).id = i /\ i # None
  <2>1. Frame(i, d) = [id |-> i, doc |-> d, text |-> client[d]] /\ client[d] \in 0..MaxEdits
    BY DEF Frame, IInv, TypeOK
  <2> QED BY <2>1, CoalescerAssumption DEF Frames
<1>3. IdsOf(<<Frame(i, d)>>) = {i} /\ i \notin pending
  BY <1>1, <1>2, OneId DEF Slots
<1>4. KeepAlives \cap Requests = {}
  BY CoalescerAssumption
<1>5. CASE GoesAtOnce(i)
  <2>1. Deliver(<<Frame(i, d)>>, pending, {}, "superseded") /\ queue' = queue /\ held = NoChange
    BY <1>5 DEF Send, forward, GoesAtOnce
  <2>2. CASE i \notin Requests
    <3>1. /\ pending' \subseteq pending /\ \A x \in pending' : fate'[x] = "forwarded"
          /\ MaxInFlight # 0 => pending' = pending
      <4>1. IdsOf(<<Frame(i, d)>>) \cap Requests = {}
        BY <1>3, <2>2
      <4> QED BY <1>1, <2>1, <4>1, DeliverNoSlot
    <3> QED BY <2>1, <3>1, NoNewSlot
  <2>3. CASE i \in Requests
    <3>1. queue = <<>> /\ slotFree(Cardinality(pending))
      BY <1>4, <1>5, <2>3 DEF GoesAtOnce
    <3>2. \A x \in pending' : fate'[x] = "forwarded"
      BY <1>1, <2>1, DeliverForwards
    <3>3. WaitsForASlot'
      BY <2>1, <3>1 DEF WaitsForASlot
    <3>4. pending' = IF MaxInFlight = 0 THEN {} ELSE pending \cup {i}
      BY <1>3, <2>1, <2>3 DEF Deliver
    <3>5. IsFiniteSet(pending) /\ Cardinality(pending) \in Nat
      BY <1>1, FiniteRequests
    <3>6. Cardinality(pending \cup {i}) = Cardinality(pending) + 1
      BY <1>3, <3>5, FS_AddElement
    <3>7. Cardinality(pending \cup {i}) - 1 = Cardinality(pending)
      BY <3>5, <3>6
    <3>8. WithinCap
      <4>1. CASE MaxInFlight = 0
        BY <3>4, <4>1 DEF WithinCap
      <4>2. CASE MaxInFlight # 0
        <5>1. pending' = pending \cup {i}
          BY <3>4, <4>2
        <5>2. slotFree(Cardinality(pending') - 1)
          BY <3>1, <3>7, <5>1
        <5> QED BY <5>2 DEF WithinCap
      <4> QED BY <4>1, <4>2
    <3> QED BY <3>2, <3>3, <3>8 DEF Slots
  <2> QED BY <2>2, <2>3
<1>6. CASE ~GoesAtOnce(i)
  <2>1. queue' = Append(queue, Frame(i, d)) /\ pending' = pending /\ fate' = [fate EXCEPT ![i] = "waiting"]
    BY <1>6 DEF Send
  <2>2. \A x \in pending' : fate'[x] = "forwarded"
    <3>1. fate \in [Ids -> {"unsent", "waiting", "forwarded", "answered", "superseded", "cancelled"}]
      BY DEF IInv, TypeOK
    <3>2. ASSUME NEW x \in pending PROVE x # i /\ fate[x] = "forwarded"
      BY <1>3, <3>2 DEF Slots
    <3> QED BY <2>1, <3>1, <3>2
  <2>3. \A x \in IdsOf(queue') : x \in IdsOf(queue) \/ x = i
    BY <1>1, <1>2, <2>1, AppendIds
  <2>4. CASE held # NoChange
    BY <1>1, <2>1, <2>2, <2>4, NoNewSlot
  <2>5. CASE held = NoChange
    <3>1. i \notin KeepAlives /\ (queue = <<>> => i \in Requests /\ ~slotFree(Cardinality(pending)))
      BY <1>6, <2>5 DEF GoesAtOnce
    <3>2. CASE queue # <<>>
      BY <2>1, <2>2, <2>3, <2>5, <3>1, <3>2, NoNewSlot
    <3>3. CASE queue = <<>>
      <4>1. IdsOf(queue) = {}
        BY <3>3, OneId
      <4>2. IdsOf(queue') \cap KeepAlives = {}
        BY <2>3, <3>1, <4>1
      <4>3. ~slotFree(Cardinality(pending'))
        BY <2>1, <3>1, <3>3
      <4>4. WaitsForASlot'
        BY <4>2, <4>3 DEF WaitsForASlot, slotFree, IdsOf
      <4> QED BY <2>1, <2>2, <4>4 DEF Slots, WithinCap
    <3> QED BY <3>2, <3>3
  <2> QED BY <2>4, <2>5
<1> QED BY <1>5, <1>6

(* A cancel frees no slot, and a reply does.                                *)
LEMMA RepliesSlots ==
  ASSUME IInv, Slots, NEW i \in Ids, Cancel(i) \/ settle(i)
  PROVE  Slots' /\ WithinCap
<1>1. TypeOK /\ queue \in Seq(Frames) /\ held' = held
  BY DEF IInv, TypeOK, Cancel, settle
<1>2. CASE Cancel(i)
  <2>1. /\ queue' = Picked({k \in DOMAIN queue : queue[k].id # i}) /\ pending' = pending
        /\ fate' = [fate EXCEPT ![i] = "cancelled"] /\ i \in IdsOf(queue)
    BY <1>2 DEF Cancel
  <2>2. i # None /\ fate[i] = "waiting"
    BY <2>1, CoalescerAssumption DEF IdsOf, IInv, Waits
  <2>3. \A x \in pending' : fate'[x] = "forwarded"
    <3>1. fate \in [Ids -> {"unsent", "waiting", "forwarded", "answered", "superseded", "cancelled"}]
      BY DEF IInv, TypeOK
    <3>2. ASSUME NEW x \in pending PROVE x # i /\ fate[x] = "forwarded"
      BY <2>2, <3>2 DEF Slots
    <3> QED BY <2>1, <3>1, <3>2
  <2>4. (\A x \in IdsOf(queue') : x \in IdsOf(queue)) /\ (queue = <<>> => queue' = <<>>)
    BY <1>1, <2>1, PickedIds
  <2> QED BY <1>1, <2>1, <2>3, <2>4, NoNewSlot
<1>3. CASE settle(i)
  <2>1. PICK replied : replied = {i}
    OBVIOUS
  <2>2. CASE i \in pending /\ held = NoChange
    <3>1. drain(<<>>, replied)
      BY <1>3, <2>1, <2>2 DEF settle
    <3>2. PICK line : IsLine(line)
      BY LineExists
    <3>3. PICK O : O = {}
      OBVIOUS
    <3>4. O \in SUBSET {0} /\ Selects(<<>>, line, O) /\ (O # {} => held # NoChange)
      BY <3>3, SelectsNone
    <3> QED BY <3>1, <3>2, <3>4, DrainSlots
  <2>3. CASE ~(i \in pending /\ held = NoChange)
    <3>1. queue' = queue /\ Deliver(<<>>, pending \ replied, replied, "answered")
      BY <1>3, <2>1, <2>3 DEF settle
    <3>2. PICK inFlight : inFlight = pending \ replied
      OBVIOUS
    <3>3. /\ inFlight \in SUBSET pending /\ replied \cap inFlight = {}
          /\ held = NoChange => inFlight = pending
      BY <2>1, <2>3, <3>2
    <3>4. IdsOf(<<>>) \cap Requests = {}
      BY OneId
    <3>5. /\ pending' \subseteq pending /\ \A x \in pending' : fate'[x] = "forwarded"
          /\ MaxInFlight # 0 => pending' = inFlight
      BY <1>1, <3>1, <3>2, <3>3, <3>4, DeliverNoSlot
    <3>6. CASE held = NoChange
      BY <1>1, <3>1, <3>3, <3>5, <3>6, NoNewSlot
    <3>7. CASE held # NoChange
      BY <1>1, <3>5, <3>7, NoNewSlot
    <3> QED BY <3>6, <3>7
  <2> QED BY <2>2, <2>3
<1> QED BY <1>2, <1>3

(* A release.                                                               *)
LEMMA ReleaseSlots ==
  ASSUME IInv, Slots, held # NoChange, release
  PROVE  Slots' /\ WithinCap
<1>1. PICK line : IsLine(line)
  BY LineExists
<1>2. held \in Frames /\ line[0] = held
  BY <1>1 DEF IInv, Changes, IsLine
<1>3. PICK O : O = {0}
  OBVIOUS
<1>4. O \in SUBSET {0} /\ Selects(<<held>>, line, O)
  BY <1>2, <1>3, SelectsOne
<1>5. PICK none : none = {}
  OBVIOUS
<1>6. drain(<<held>>, none)
  BY <1>5 DEF release
<1> QED BY <1>1, <1>4, <1>6, DrainSlots

(* The timers, the samples and the end.                                     *)
LEMMA TimersSlots ==
  ASSUME IInv, Slots, tick \/ capped \/ Recheck \/ MemoryEnds \/ Samples \/ dispose
  PROVE  Slots' /\ WithinCap
<1>1. cap \/ recheck => held # NoChange
  BY DEF IInv, Changes
<1>2. ASSUME UNCHANGED <<held, queue, pending, fate>> PROVE Slots' /\ WithinCap
  <2>1. Slots'
    BY <1>2 DEF Slots, WaitsForASlot, slotFree, IdsOf
  <2> QED BY <1>2, <2>1 DEF WithinCap
<1>3. ASSUME release, held # NoChange PROVE Slots' /\ WithinCap
  BY <1>3, ReleaseSlots
<1>4. CASE tick
  <2>1. CASE held # NoChange /\ ~pressured
    BY <1>3, <1>4, <2>1 DEF tick
  <2>2. CASE ~(held # NoChange /\ ~pressured)
    BY <1>2, <1>4, <2>2 DEF tick, seen
  <2> QED BY <2>1, <2>2
<1>5. CASE capped
  BY <1>1, <1>3, <1>5 DEF capped
<1>6. CASE Recheck
  <2>1. CASE low
    BY <1>2, <1>6, <2>1 DEF Recheck, seen
  <2>2. CASE ~low
    BY <1>1, <1>3, <1>6, <2>2 DEF Recheck
  <2> QED BY <2>1, <2>2
<1>7. CASE MemoryEnds
  BY <1>2, <1>7 DEF MemoryEnds, seen
<1>8. ASSUME NEW few \in BOOLEAN, observe(few) PROVE Slots' /\ WithinCap
  <2>1. CASE cap /\ ~few /\ ~recent
    BY <1>1, <1>3, <1>8, <2>1 DEF observe
  <2>2. CASE ~(cap /\ ~few /\ ~recent)
    BY <1>2, <1>8, <2>2 DEF observe, seen
  <2> QED BY <2>1, <2>2
<1>9. CASE dispose
  <2>1. queue' = <<>> /\ pending' = pending /\ fate' = fate
    BY <1>9 DEF dispose, seen
  <2>2. \A i \in pending' : fate'[i] = "forwarded"
    BY <2>1 DEF Slots
  <2> QED BY <2>1, <2>2, NoNewSlot
<1> QED BY <1>4, <1>5, <1>6, <1>7, <1>8, <1>9 DEF Samples

(* Every step.                                                              *)
LEMMA NextSlots ==
  ASSUME IInv, Slots, [Next]_vars
  PROVE  Slots' /\ (WithinCap \/ \E d \in Docs : Barrier(d) \/ ChangeOther(d))
<1>1. CASE UNCHANGED vars
  <2>1. UNCHANGED <<held, queue, pending, fate>>
    BY <1>1 DEF vars, seen
  <2>2. Slots'
    BY <2>1 DEF Slots, WaitsForASlot, slotFree, IdsOf
  <2> QED BY <2>1, <2>2 DEF WithinCap
<1>2. ASSUME NEW d \in Docs, ChangeAtOnce(d) \/ ChangeHeld(d) \/ ChangeReplaces(d) \/ ChangeUnwindowed(d)
      PROVE  Slots' /\ WithinCap
  BY <1>2, ChangeSlots
<1>3. ASSUME NEW d \in Docs, ChangeOther(d) \/ Barrier(d) PROVE Slots'
  BY <1>3, FlushSlots
<1>4. ASSUME NEW i \in Ids, NEW d \in Docs, Send(i, d) PROVE Slots' /\ WithinCap
  BY <1>4, SendSlots
<1>5. ASSUME NEW i \in Ids, Cancel(i) \/ settle(i) PROVE Slots' /\ WithinCap
  BY <1>5, RepliesSlots
<1>6. CASE tick \/ capped \/ Recheck \/ MemoryEnds \/ Samples \/ dispose
  BY <1>6, TimersSlots
<1> QED BY <1>1, <1>2, <1>3, <1>4, <1>5, <1>6 DEF Next

(* The slots are used, and kept: with nothing held a frame waits only while *)
(* every slot is taken, and only a flush takes the worker past the cap.     *)
THEOREM CoalescerSlotsKept == Spec => SlotsKept
<1>1. Init => Slots
  <2>1. ASSUME Init PROVE pending = {} /\ queue = <<>>
    BY <2>1 DEF Init
  <2> QED BY <2>1 DEF Slots, WaitsForASlot
<1> DEFINE Step == /\ WaitsForASlot'
                   /\ \/ pending' \subseteq pending \/ slotFree(Cardinality(pending') - 1)
                      \/ \E d \in Docs : Barrier(d) \/ ChangeOther(d)
<1>2. IInv /\ Slots /\ [Next]_vars => Slots' /\ Step
  <2>1. Slots' => WaitsForASlot'
    BY DEF Slots
  <2> QED BY <2>1, NextSlots DEF WithinCap
<1>3. SlotsKept <=> [][Step]_vars
  BY DEF SlotsKept
<1> HIDE DEF Step
<1> QED BY <1>1, <1>2, <1>3, CoalescerInvariant, PTL DEF Spec
=============================================================================
