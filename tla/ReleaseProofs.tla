--------------------------- MODULE ReleaseProofs ---------------------------
(* Proofs about the release of artifacts, for every value of its constants; *)
(* then about one request for an artifact and about the runs that fetch a   *)
(* tree, for every request, bucket and tree.                                *)
EXTENDS Release, EdgeWorker, FetchArtifacts, TLAPS, SequenceTheorems

Before(i) == 1..(i - 1)
Pending(s, i, what, key) == \E j \in Before(i) : s[j][1] = what /\ s[j][2] = key   \* written before the i-th of s

(* What an upload has still to write is there to be named, in keys of its  *)
(* own runtime, and replaces a mutable index only when the replaced one's  *)
(* runtime has its copy.                                                   *)
SnapshotsFirst ==
  \A i \in 1..Len(job) : job[i][1] = "snapIndex" =>
    /\ job[i][2] \in {Latest, ReleaseOf[job[i][3]]}
    /\ job[i][3] \in snapz \/ (job[i][3] \in baked /\ \E j \in Before(i) : job[j][1] = "snapz")
    /\ job[i][2] = Latest =>
         LET q == ReleaseOf[snapIndex[Latest]]
         IN  ReleaseOf[job[i][3]] = record /\ (q = record \/ snapIndex[q] # None \/ Pending(job, i, "snapIndex", q))
CopiesFirst ==
  \A i \in 1..Len(job) : job[i][1] = "profIndex" =>
    /\ job[i][2] \in {Latest, job[i][3].runtime}
    /\ job[i][2] = Latest =>
         LET q == profIndex[Latest].runtime
         IN  job[i][3].runtime = record /\ (q = record \/ profIndex[q] # None \/ Pending(job, i, "profIndex", q))

(* An upload ends with the mutable profile index, after its own copies.    *)
EndsWithLatest ==
  job # <<>> /\ job[1][1] \in {"snapz", "snapIndex", "profIndex"} =>
    /\ job[Len(job)][1] = "profIndex" /\ job[Len(job)][2] = Latest
    /\ snapIndex[record] # None \/ Pending(job, Len(job), "snapIndex", record)

(* What a promotion switches before the runtime is, or will be by then,    *)
(* the runtime's own; and the runtime goes before the profile index.       *)
SwitchOrder ==
  \A i \in 1..Len(job) :
    /\ job[i][1] = "runtime" =>
         /\ ReleaseOf[pub.snapshots] = job[i][2] \/ \E j \in Before(i) : job[j][1] = "snapshots"
         /\ pub.packs = PacksOf[job[i][2]] \/ \E j \in Before(i) : job[j][1] = "packs"
         /\ \A j \in Before(i) : /\ job[j][1] = "snapshots" => ReleaseOf[job[j][2]] = job[i][2]
                                 /\ job[j][1] = "packs" => job[j][2] = PacksOf[job[i][2]]
    /\ job[i][1] = "profiles" =>
         /\ pub.runtime = job[i][2].runtime \/ \E j \in Before(i) : job[j][1] = "runtime"
         /\ \A j \in Before(i) : job[j][1] = "runtime" => job[j][2] = job[i][2].runtime

(* Every release ever uploaded is still named: by the mutable indexes or   *)
(* by its copies; and only uploaded ones are deployed.                     *)
UploadedIsNamed ==
  /\ snapIndex[Latest] # None /\ profIndex[Latest] # None
  /\ deployed \in uploaded
  /\ \A q \in uploaded : /\ snapIndex[q] # None \/ ReleaseOf[snapIndex[Latest]] = q
                         /\ profIndex[q] # None \/ profIndex[Latest].runtime = q

(* What a boot has read, by how far it is.                                 *)
AfterProfiles  == {"runtime", "packs", "snapshots", "snapshotsCopy", "region", "booted", "stale", "unpaired", "missing"}
AfterPacks     == {"snapshots", "snapshotsCopy", "region", "booted", "unpaired", "missing"}
AfterSnapshots == {"region", "booted", "unpaired", "missing"}
HasRead ==
  reader.pc # "closed" =>
    /\ reader.pin \in uploaded /\ (~reader.deploys => deployed = reader.pin)
    /\ reader.pc = "profilesCopy" => profIndex[reader.pin] # None
    /\ reader.pc = "snapshotsCopy" => snapIndex[reader.pin] # None
    /\ reader.pc \in AfterProfiles \ {"runtime"} /\ ~reader.deploys => reader.runtime = reader.pin
    /\ reader.pc \in AfterSnapshots \cup {"snapshotsCopy"} => reader.snapshots \in snapz
    /\ reader.pc = "booted" => reader.runtime = ReleaseOf[reader.snapshots]
    /\ ~reader.lost => /\ reader.pc \in AfterProfiles => reader.index = Profiles(reader.pin)
                       /\ reader.pc \in AfterPacks => reader.packs = PacksOf[reader.pin]
                       /\ reader.pc \in AfterSnapshots => ReleaseOf[reader.snapshots] = reader.pin

(* The inductive invariant.                                                *)
IInv ==
  /\ TypeOK /\ NothingDangles /\ SnapshotsFirst /\ CopiesFirst /\ EndsWithLatest /\ SwitchOrder
  /\ UploadedIsNamed /\ HasRead /\ ReaderIsPaired

Writes == Switching \cup Uploading

(* What the elements of a job are.                                         *)
LEMMA WriteTypes ==
  ASSUME NEW w \in Writes
  PROVE /\ w[1] \in {"packs", "snapshots", "runtime", "profiles", "snapz", "snapIndex", "profIndex"}
        /\ w[1] = "packs" => w[2] \in Packs
        /\ w[1] = "snapshots" => w[2] \in Trees
        /\ w[1] = "runtime" => w[2] \in Releases
        /\ w[1] = "profiles" => w[2] \in ProfileIndexes
        /\ w[1] = "snapIndex" => w[2] \in Keys /\ w[3] \in Trees
        /\ w[1] = "profIndex" => w[2] \in Keys /\ w[3] \in ProfileIndexes
        /\ w \in Switching <=> w[1] \in {"packs", "snapshots", "runtime", "profiles"}
BY DEF Writes, Switching, Uploading

(* A job, read from its head.                                              *)
LEMMA JobTypes ==
  ASSUME TypeOK
  PROVE /\ job \in Seq(Writes) /\ Len(job) \in Nat
        /\ \A i \in 1..Len(job) : job[i] \in Writes
        /\ job # <<>> => /\ Len(job) \in Nat \ {0} /\ Head(job) = job[1] /\ Tail(job) \in Seq(Writes)
                         /\ (job \in Seq(Switching) => Tail(job) \in Seq(Switching))
                         /\ (job \in Seq(Uploading) => Tail(job) \in Seq(Uploading))
                         /\ Len(Tail(job)) = Len(job) - 1
                         /\ \A i \in 1..(Len(job) - 1) : Tail(job)[i] = job[i + 1]
        /\ job # <<>> /\ job[1] \in Switching => job \in Seq(Switching)
        /\ job # <<>> /\ job[1] \notin Switching => job \in Seq(Uploading)
<1>1. job \in Seq(Writes)
  BY SeqMonotonic DEF TypeOK, Writes
<1>2. Len(job) \in Nat /\ \A i \in 1..Len(job) : job[i] \in Writes
  BY <1>1, ElementOfSeq, LenProperties
<1>3. ASSUME job # <<>>
      PROVE /\ Len(job) \in Nat \ {0} /\ Head(job) = job[1] /\ Tail(job) \in Seq(Writes)
            /\ (job \in Seq(Switching) => Tail(job) \in Seq(Switching))
            /\ (job \in Seq(Uploading) => Tail(job) \in Seq(Uploading))
            /\ Len(Tail(job)) = Len(job) - 1
            /\ \A i \in 1..(Len(job) - 1) : Tail(job)[i] = job[i + 1]
  <2>1. Len(job) \in Nat \ {0}
    BY <1>1, <1>3, EmptySeq
  <2>2. Head(job) = job[1]
    BY <1>1, <1>3
  <2>3. Tail(job) \in Seq(Writes) /\ Len(Tail(job)) = Len(job) - 1 /\ \A i \in 1..Len(Tail(job)) : Tail(job)[i] = job[i + 1]
    BY <1>1, <1>3, HeadTailProperties
  <2>4. (job \in Seq(Switching) => Tail(job) \in Seq(Switching)) /\ (job \in Seq(Uploading) => Tail(job) \in Seq(Uploading))
    BY <1>3, HeadTailProperties
  <2> QED BY <2>1, <2>2, <2>3, <2>4
<1>4. job # <<>> => (job[1] \in Switching => job \in Seq(Switching)) /\ (job[1] \notin Switching => job \in Seq(Uploading))
  <2> SUFFICES ASSUME job # <<>> PROVE (job[1] \in Switching => job \in Seq(Switching)) /\ (job[1] \notin Switching => job \in Seq(Uploading))
    OBVIOUS
  <2>1. 1 \in 1..Len(job)  BY <1>3
  <2>2. job \in Seq(Uploading) => job[1] \in Uploading  BY <2>1, ElementOfSeq
  <2>3. job \in Seq(Switching) => job[1] \in Switching  BY <2>1, ElementOfSeq
  <2>4. \A w \in Uploading : w \notin Switching  BY DEF Uploading, Switching
  <2> QED BY <2>2, <2>3, <2>4 DEF TypeOK
<1> QED BY <1>1, <1>2, <1>3, <1>4

JobOK == SnapshotsFirst /\ CopiesFirst /\ EndsWithLatest /\ SwitchOrder

(* Nothing is pending of no job.                                           *)
LEMMA NoJob == ASSUME job = <<>> PROVE JobOK
BY DEF JobOK, SnapshotsFirst, CopiesFirst, EndsWithLatest, SwitchOrder

(* What is published, served and deployed at the start is one release.     *)
LEMMA InitIInv == Init => IInv
<1> SUFFICES ASSUME Init PROVE IInv
  OBVIOUS
<1> DEFINE q == ReleaseOf[First]
<1>1. q \in Releases /\ First \in Trees /\ q # Latest /\ Latest \in Keys
  BY ReleaseAssumption DEF Keys
<1>2. pub \in Roots /\ back \in [pub : Roots, record : Releases]
  BY <1>1 DEF Init, Roots, Packs, ProfileIndexes, Tracked
<1>3. /\ snapIndex \in [Keys -> Trees \cup {None}] /\ profIndex \in [Keys -> ProfileIndexes \cup {None}]
      /\ snapIndex[Latest] = First /\ profIndex[Latest] = Profiles(q)
      /\ \A k \in Keys : k # Latest => snapIndex[k] = None /\ profIndex[k] = None
  BY <1>1 DEF Init, ProfileIndexes
<1>4. TypeOK
  BY <1>1, <1>2, <1>3, EmptySeq DEF Init, TypeOK, Closed
<1>5. NothingDangles /\ UploadedIsNamed
  BY <1>1, <1>3, ReleaseAssumption DEF Init, NothingDangles, UploadedIsNamed, Profiles
<1>6. HasRead /\ ReaderIsPaired
  BY DEF Init, Closed, HasRead, ReaderIsPaired
<1>7. JobOK
  BY NoJob DEF Init
<1> QED BY <1>4, <1>5, <1>6, <1>7 DEF IInv, JobOK

(* The bucket may only gain: what a boot has read stays true of it.        *)
LEMMA HasReadStays ==
  ASSUME HasRead, ReaderIsPaired, TypeOK, UNCHANGED <<reader, deployed>>, uploaded \subseteq uploaded', snapz \subseteq snapz',
         \A k \in Keys : (profIndex[k] # None => profIndex'[k] # None) /\ (snapIndex[k] # None => snapIndex'[k] # None)
  PROVE  HasRead' /\ ReaderIsPaired'
<1>1. reader.pc # "closed" => reader.pin \in Keys
  BY DEF TypeOK, Keys, Closed, Boots
<1>2. HasRead'
  BY <1>1 DEF HasRead
<1> QED BY <1>2 DEF ReaderIsPaired

(* A switch before three others.                                           *)
LEMMA Prepended ==
  ASSUME NEW S, NEW a \in S, NEW b \in S, NEW c \in S, NEW d \in S
  PROVE  <<a>> \o <<b, c, d>> = <<a, b, c, d>>
<1> DEFINE l == <<a>> \o <<b, c, d>>
           r == <<a, b, c, d>>
<1>1. /\ <<a>> \in Seq(S) /\ Len(<<a>>) = 1 /\ <<a>>[1] = a
      /\ <<b, c, d>> \in Seq(S) /\ Len(<<b, c, d>>) = 3 /\ r \in Seq(S) /\ Len(r) = 4
  OBVIOUS
<1>2. l \in Seq(S) /\ Len(l) = 4 /\ \A i \in 1..4 : l[i] = IF i <= 1 THEN <<a>>[i] ELSE <<b, c, d>>[i - 1]
  BY <1>1, ConcatProperties
<1>3. l[1] = a /\ l[2] = b /\ l[3] = c /\ l[4] = d
  BY <1>2
<1>4. \A i \in 1..4 : l[i] = r[i]
  BY <1>3
<1> QED BY <1>1, <1>2, <1>4, SeqEqual

(* Promote: the switches of a fresh job are in order.                      *)
LEMMA PromoteIInv == ASSUME IInv, NEW t \in Trees, Promote(t) PROVE IInv'
<1> DEFINE q == ReleaseOf[t]
<1>1. q \in Releases /\ PacksOf[q] \in Packs
  BY ReleaseAssumption DEF Packs
<1>2. PICK withPacks \in BOOLEAN : (withPacks \/ KeepsPacks(t)) /\ job' = Switches(t, withPacks)
  BY DEF Promote
<1>3. Repointed(t) = Profiles(q) \/ withPacks
  <2>1. PICK r \in Releases : pub.profiles = [runtime |-> r, packs |-> PacksOf[r]]
    BY DEF IInv, TypeOK, Roots, ProfileIndexes, Profiles
  <2>2. Repointed(t) = [runtime |-> q, packs |-> PacksOf[r]]
    BY <2>1 DEF Repointed
  <2> QED BY <1>2, <2>1, <2>2 DEF KeepsPacks, Profiles
<1>4. Profiles(q) \in ProfileIndexes
  BY <1>1 DEF ProfileIndexes
<1> DEFINE packs == <<"packs", PacksOf[q]>>
           snapshots == <<"snapshots", t>>
           runtime == <<"runtime", q>>
           profiles == <<"profiles", Profiles(q)>>
<1>5. /\ packs \in Switching /\ snapshots \in Switching /\ runtime \in Switching /\ profiles \in Switching
  BY <1>1, <1>4 DEF Switching
<1> HIDE DEF packs, snapshots, runtime, profiles
<1>6. /\ withPacks => job' = <<packs, snapshots, runtime, profiles>>
      /\ ~withPacks => job' = <<snapshots, runtime, profiles>>
  <2>1. CASE withPacks
    <3>1. job' = <<packs>> \o <<snapshots, runtime, profiles>>
      BY <1>2, <2>1 DEF Switches, StagedProfiles, packs, snapshots, runtime, profiles
    <3> QED BY <1>5, <2>1, <3>1, Prepended
  <2>2. CASE ~withPacks
    <3>1. job' = <<>> \o <<snapshots, runtime, profiles>>
      BY <1>2, <1>3, <2>2 DEF Switches, snapshots, runtime, profiles
    <3> QED BY <1>5, <2>2, <3>1, ConcatEmptySeq
  <2> QED BY <2>1, <2>2
<1>61. job' \in Seq(Switching)
  <2>1. <<packs, snapshots, runtime, profiles>> \in Seq(Switching) /\ <<snapshots, runtime, profiles>> \in Seq(Switching)
    BY <1>5
  <2> QED BY <1>6, <2>1
<1>62. /\ withPacks => Len(job') = 4 /\ job'[1] = packs /\ job'[2] = snapshots /\ job'[3] = runtime /\ job'[4] = profiles
       /\ ~withPacks => Len(job') = 3 /\ job'[1] = snapshots /\ job'[2] = runtime /\ job'[3] = profiles
  BY <1>6
<1>63. /\ packs[1] = "packs" /\ packs[2] = PacksOf[q] /\ snapshots[1] = "snapshots" /\ snapshots[2] = t
       /\ runtime[1] = "runtime" /\ runtime[2] = q /\ profiles[1] = "profiles" /\ profiles[2].runtime = q
  BY DEF packs, snapshots, runtime, profiles, Profiles
<1>7. TypeOK'
  BY <1>61 DEF IInv, TypeOK, Promote, local, bucket, site
<1>8. SnapshotsFirst' /\ CopiesFirst' /\ EndsWithLatest'
  <2>1. \A i \in 1..Len(job') : job'[i][1] \notin {"snapz", "snapIndex", "profIndex"}
    BY <1>62, <1>63
  <2>2. withPacks \/ ~withPacks => 1 \in 1..Len(job')
    BY <1>62
  <2> QED BY <2>1, <2>2 DEF SnapshotsFirst, CopiesFirst, EndsWithLatest
<1>9. SwitchOrder'
  <2>1. pub' = pub
    BY DEF Promote
  <2>2. CASE withPacks
    <3>0. Len(job') = 4 /\ job'[1] = packs /\ job'[2] = snapshots /\ job'[3] = runtime /\ job'[4] = profiles
      BY <1>62, <2>2, Zenon
    <3>1. \A i \in 1..Len(job') : /\ job'[i][1] = "runtime" => i = 3 /\ job'[i][2] = q
                                  /\ job'[i][1] = "profiles" => i = 4 /\ job'[i][2].runtime = q
                                  /\ job'[i][1] = "snapshots" => job'[i][2] = t
                                  /\ job'[i][1] = "packs" => job'[i][2] = PacksOf[q]
      <4>1. \A i \in 1..Len(job') : i = 1 \/ i = 2 \/ i = 3 \/ i = 4
        BY <3>0
      <4> QED BY <3>0, <1>63, <4>1
    <3>2. /\ 1 \in Before(3) /\ 2 \in Before(3) /\ 3 \in Before(4) /\ job'[1][1] = "packs" /\ job'[2][1] = "snapshots"
          /\ job'[3][1] = "runtime" /\ \A i \in 1..4 : Before(i) \subseteq 1..4
      BY <3>0, <1>63 DEF Before
    <3> QED BY <3>0, <3>1, <3>2 DEF SwitchOrder
  <2>3. CASE ~withPacks
    <3>0. Len(job') = 3 /\ job'[1] = snapshots /\ job'[2] = runtime /\ job'[3] = profiles
      BY <1>62, <2>3, Zenon
    <3>1. \A i \in 1..Len(job') : /\ job'[i][1] = "runtime" => i = 2 /\ job'[i][2] = q
                                  /\ job'[i][1] = "profiles" => i = 3 /\ job'[i][2].runtime = q
                                  /\ job'[i][1] = "snapshots" => job'[i][2] = t
                                  /\ job'[i][1] # "packs"
      <4>1. \A i \in 1..Len(job') : i = 1 \/ i = 2 \/ i = 3
        BY <3>0
      <4> QED BY <3>0, <1>63, <4>1
    <3>2. /\ 1 \in Before(2) /\ 2 \in Before(3) /\ job'[1][1] = "snapshots"
          /\ job'[2][1] = "runtime" /\ \A i \in 1..3 : Before(i) \subseteq 1..3
      BY <3>0, <1>63 DEF Before
    <3>3. pub'.packs = PacksOf[q]
      BY <1>2, <2>1, <2>3 DEF KeepsPacks
    <3> QED BY <3>0, <3>1, <3>2, <3>3 DEF SwitchOrder
  <2> QED BY <2>2, <2>3
<1>10. HasRead' /\ ReaderIsPaired'
  BY HasReadStays DEF IInv, Promote, bucket, site
<1>11. NothingDangles' /\ UploadedIsNamed'
  BY DEF IInv, NothingDangles, UploadedIsNamed, Promote, bucket, site
<1> QED BY <1>7, <1>8, <1>9, <1>10, <1>11 DEF IInv

(* The copies an upload makes first, of what is served now.                *)
SnapPin == <<"snapIndex", ReleaseOf[snapIndex[Latest]], snapIndex[Latest]>>
ProfPin == <<"profIndex", profIndex[Latest].runtime, profIndex[Latest]>>
NeedsSnapPin == ReleaseOf[snapIndex[Latest]] # record /\ snapIndex[ReleaseOf[snapIndex[Latest]]] = None
NeedsProfPin == profIndex[Latest].runtime # record /\ profIndex[profIndex[Latest].runtime] = None

(* The mutable indexes always name something of some release.              *)
LEMMA Served ==
  ASSUME IInv
  PROVE  /\ snapIndex[Latest] \in Trees /\ snapIndex[Latest] \in snapz /\ ReleaseOf[snapIndex[Latest]] \in Releases
         /\ profIndex[Latest] \in ProfileIndexes /\ profIndex[Latest].runtime \in Releases
         /\ profIndex[Latest] = Profiles(profIndex[Latest].runtime)
         /\ Latest \in Keys /\ \A q \in Releases : q \in Keys /\ q # Latest
<1>1. Latest \in Keys /\ \A q \in Releases : q \in Keys /\ q # Latest
  BY ReleaseAssumption DEF Keys
<1>2. snapIndex[Latest] \in Trees /\ snapIndex[Latest] \in snapz /\ profIndex[Latest] \in ProfileIndexes
  BY <1>1 DEF IInv, TypeOK, UploadedIsNamed, NothingDangles
<1>3. \A p \in ProfileIndexes : p.runtime \in Releases /\ p = Profiles(p.runtime)
  BY DEF ProfileIndexes, Profiles
<1> QED BY <1>1, <1>2, <1>3, ReleaseAssumption

(* The copies made are those needed.                                       *)
LEMMA PinsMade ==
  ASSUME IInv
  PROVE  /\ Pins \in Seq(Uploading) /\ Len(Pins) \in Nat
         /\ \A i \in 1..Len(Pins) : (NeedsSnapPin /\ Pins[i] = SnapPin) \/ (NeedsProfPin /\ Pins[i] = ProfPin)
         /\ NeedsSnapPin => \E i \in 1..Len(Pins) : Pins[i] = SnapPin
         /\ NeedsProfPin => \E i \in 1..Len(Pins) : Pins[i] = ProfPin
<1> DEFINE A == IF NeedsSnapPin THEN <<SnapPin>> ELSE <<>>
           B == IF NeedsProfPin THEN <<ProfPin>> ELSE <<>>
<1>1. Pins = A \o B
  BY DEF Pins, NeedsSnapPin, NeedsProfPin, SnapPin, ProfPin
<1>2. SnapPin \in Uploading /\ ProfPin \in Uploading
  BY Served DEF SnapPin, ProfPin, Uploading
<1>3. /\ A \in Seq(Uploading) /\ (NeedsSnapPin => Len(A) = 1 /\ A[1] = SnapPin) /\ (~NeedsSnapPin => Len(A) = 0)
      /\ B \in Seq(Uploading) /\ (NeedsProfPin => Len(B) = 1 /\ B[1] = ProfPin) /\ (~NeedsProfPin => Len(B) = 0)
  BY <1>2
<1> HIDE DEF A, B
<1>4. /\ A \o B \in Seq(Uploading) /\ Len(A \o B) = Len(A) + Len(B)
      /\ \A i \in 1..(Len(A) + Len(B)) : (A \o B)[i] = IF i <= Len(A) THEN A[i] ELSE B[i - Len(A)]
  BY <1>3, ConcatProperties
<1>5. \A i \in 1..Len(Pins) : (NeedsSnapPin /\ Pins[i] = SnapPin) \/ (NeedsProfPin /\ Pins[i] = ProfPin)
  BY <1>1, <1>3, <1>4
<1>6. NeedsSnapPin => 1 \in 1..Len(Pins) /\ Pins[1] = SnapPin
  BY <1>1, <1>3, <1>4
<1>7. NeedsProfPin => Len(A) + 1 \in 1..Len(Pins) /\ Pins[Len(A) + 1] = ProfPin
  BY <1>1, <1>3, <1>4
<1> QED BY <1>1, <1>3, <1>4, <1>5, <1>6, <1>7

(* Upload: the writes of a fresh job are in order.                         *)
LEMMA UploadIInv == ASSUME IInv, Upload PROVE IInv'
<1> DEFINE n == Len(Pins)
           t == pub.snapshots
           p == pub.profiles
           Q == <<<<"snapz">>, <<"snapIndex", record, t>>, <<"profIndex", record, p>>,
                  <<"snapIndex", Latest, t>>, <<"profIndex", Latest, p>>>>
<1>1. /\ t \in Trees /\ t \in baked /\ ReleaseOf[t] = record /\ p \in ProfileIndexes /\ p.runtime = record
      /\ record \in Keys /\ Latest \in Keys /\ record # Latest
  BY Served DEF IInv, TypeOK, Roots, Upload, Preflight
<1>2. job' = Pins \o Q
  BY DEF Upload
<1>3. Q \in Seq(Uploading) /\ Len(Q) = 5
  <2>1. /\ <<"snapz">> \in Uploading /\ <<"snapIndex", record, t>> \in Uploading /\ <<"profIndex", record, p>> \in Uploading
        /\ <<"snapIndex", Latest, t>> \in Uploading /\ <<"profIndex", Latest, p>> \in Uploading
    BY <1>1 DEF Uploading
  <2> QED BY <2>1
<1>4. /\ Q[1][1] = "snapz"
      /\ Q[2][1] = "snapIndex" /\ Q[2][2] = record /\ Q[2][3] = t
      /\ Q[3][1] = "profIndex" /\ Q[3][2] = record /\ Q[3][3] = p
      /\ Q[4][1] = "snapIndex" /\ Q[4][2] = Latest /\ Q[4][3] = t
      /\ Q[5][1] = "profIndex" /\ Q[5][2] = Latest /\ Q[5][3] = p
  OBVIOUS
<1> HIDE DEF Q
<1>5. /\ job' \in Seq(Uploading) /\ n \in Nat /\ Len(job') = n + 5
      /\ \A i \in 1..(n + 5) : job'[i] = IF i <= n THEN Pins[i] ELSE Q[i - n]
  <2>1. Pins \in Seq(Uploading) /\ n \in Nat
    BY PinsMade
  <2> HIDE DEF n
  <2>2. /\ Pins \o Q \in Seq(Uploading) /\ Len(Pins \o Q) = Len(Pins) + Len(Q)
        /\ \A i \in 1..(Len(Pins) + Len(Q)) : (Pins \o Q)[i] = IF i <= Len(Pins) THEN Pins[i] ELSE Q[i - Len(Pins)]
    BY <1>3, <2>1, ConcatProperties
  <2> QED BY <1>2, <1>3, <2>1, <2>2 DEF n
<1>6. /\ \A i \in 1..n : job'[i] = Pins[i]
      /\ job'[n + 1] = Q[1] /\ job'[n + 2] = Q[2] /\ job'[n + 3] = Q[3] /\ job'[n + 4] = Q[4] /\ job'[n + 5] = Q[5]
      /\ \A i \in 1..(n + 5) : i \in 1..n \/ i = n + 1 \/ i = n + 2 \/ i = n + 3 \/ i = n + 4 \/ i = n + 5
  <2> HIDE DEF n
  <2>1. \A i \in 1..n : i \in 1..(n + 5) /\ i <= n
    BY <1>5
  <2>2. /\ n + 1 \in 1..(n + 5) /\ n + 2 \in 1..(n + 5) /\ n + 3 \in 1..(n + 5) /\ n + 4 \in 1..(n + 5) /\ n + 5 \in 1..(n + 5)
        /\ ~(n + 1 <= n) /\ ~(n + 2 <= n) /\ ~(n + 3 <= n) /\ ~(n + 4 <= n) /\ ~(n + 5 <= n)
        /\ (n + 1) - n = 1 /\ (n + 2) - n = 2 /\ (n + 3) - n = 3 /\ (n + 4) - n = 4 /\ (n + 5) - n = 5
    BY <1>5
  <2>3. \A i \in 1..n : job'[i] = Pins[i]
    BY <1>5, <2>1
  <2>4. job'[n + 1] = Q[1] /\ job'[n + 2] = Q[2] /\ job'[n + 3] = Q[3] /\ job'[n + 4] = Q[4] /\ job'[n + 5] = Q[5]
    BY <1>5, <2>2
  <2>5. \A i \in 1..(n + 5) : i \in 1..n \/ i = n + 1 \/ i = n + 2 \/ i = n + 3 \/ i = n + 4 \/ i = n + 5
    BY <1>5
  <2> QED BY <2>3, <2>4, <2>5
<1>7. UNCHANGED <<pub, baked, record, snapz, snapIndex, profIndex, deployed, uploaded, back, reader>>
  BY DEF Upload, local, bucket, site
<1>8. /\ SnapPin[1] = "snapIndex" /\ SnapPin[2] = ReleaseOf[snapIndex[Latest]] /\ SnapPin[3] = snapIndex[Latest]
      /\ ProfPin[1] = "profIndex" /\ ProfPin[2] = profIndex[Latest].runtime /\ ProfPin[3] = profIndex[Latest]
  BY DEF SnapPin, ProfPin
<1>9. TypeOK'
  BY <1>5, <1>7 DEF IInv, TypeOK
<1>10. SnapshotsFirst'
  <2> SUFFICES ASSUME NEW i \in 1..Len(job'), job'[i][1] = "snapIndex"
               PROVE  /\ job'[i][2] \in {Latest, ReleaseOf[job'[i][3]]}
                      /\ job'[i][3] \in snapz \/ (job'[i][3] \in baked /\ \E j \in Before(i) : job'[j][1] = "snapz")
                      /\ job'[i][2] = Latest =>
                           LET q == ReleaseOf[snapIndex[Latest]]
                           IN  ReleaseOf[job'[i][3]] = record /\ (q = record \/ snapIndex[q] # None \/ Pending(job', i, "snapIndex", q))
    BY <1>7 DEF SnapshotsFirst, Pending
  <2>1. CASE i \in 1..n
    <3>1. job'[i] = SnapPin  BY <1>6, <1>8, <2>1, PinsMade
    <3> QED BY <1>8, <3>1, Served
  <2>2. CASE i = n + 2
    <3>1. n + 1 \in Before(i)  BY <1>5, <2>2 DEF Before
    <3>2. job'[i] = Q[2] /\ job'[n + 1] = Q[1]  BY <1>6, <2>2
    <3> QED BY <1>1, <1>4, <3>1, <3>2
  <2>3. CASE i = n + 4
    <3>1. n + 1 \in Before(i) /\ 1..n \subseteq Before(i)  BY <1>5, <2>3 DEF Before
    <3>2. NeedsSnapPin => \E j \in Before(i) : job'[j] = SnapPin
      BY <1>6, <3>1, PinsMade
    <3>3. NeedsSnapPin => Pending(job', i, "snapIndex", ReleaseOf[snapIndex[Latest]])
      BY <1>7, <1>8, <3>2 DEF Pending
    <3> QED BY <1>1, <1>4, <1>6, <2>3, <3>1, <3>3 DEF NeedsSnapPin
  <2> QED BY <1>4, <1>5, <1>6, <2>1, <2>2, <2>3
<1>11. CopiesFirst'
  <2> SUFFICES ASSUME NEW i \in 1..Len(job'), job'[i][1] = "profIndex"
               PROVE  /\ job'[i][2] \in {Latest, job'[i][3].runtime}
                      /\ job'[i][2] = Latest =>
                           LET q == profIndex[Latest].runtime
                           IN  job'[i][3].runtime = record /\ (q = record \/ profIndex[q] # None \/ Pending(job', i, "profIndex", q))
    BY <1>7 DEF CopiesFirst, Pending
  <2>1. CASE i \in 1..n
    <3>1. job'[i] = ProfPin  BY <1>6, <1>8, <2>1, PinsMade
    <3> QED BY <1>8, <3>1, Served
  <2>2. CASE i = n + 3
    BY <1>1, <1>4, <1>6, <2>2
  <2>3. CASE i = n + 5
    <3>1. 1..n \subseteq Before(i)  BY <1>5, <2>3 DEF Before
    <3>2. NeedsProfPin => \E j \in Before(i) : job'[j] = ProfPin
      BY <1>6, <3>1, PinsMade
    <3>3. NeedsProfPin => Pending(job', i, "profIndex", profIndex[Latest].runtime)
      BY <1>7, <1>8, <3>2 DEF Pending
    <3> QED BY <1>1, <1>4, <1>6, <2>3, <3>3 DEF NeedsProfPin
  <2> QED BY <1>4, <1>5, <1>6, <2>1, <2>2, <2>3
<1>12. EndsWithLatest'
  <2>1. n + 2 \in Before(n + 5)  BY <1>5 DEF Before
  <2>2. Pending(job', Len(job'), "snapIndex", record')
    BY <1>4, <1>5, <1>6, <1>7, <2>1 DEF Pending
  <2> QED BY <1>4, <1>5, <1>6, <2>2 DEF EndsWithLatest
<1>13. SwitchOrder'
  <2>1. \A i \in 1..n : Pins[i][1] \in {"snapIndex", "profIndex"}
    BY <1>8, PinsMade
  <2>2. \A i \in 1..Len(job') : job'[i][1] \in {"snapz", "snapIndex", "profIndex"}
    <3>1. ASSUME NEW i \in 1..Len(job'), i \in 1..n PROVE job'[i][1] \in {"snapIndex", "profIndex"}
      BY <1>6, <2>1, <3>1
    <3> HIDE DEF n
    <3>2. job'[n + 1][1] = "snapz" /\ job'[n + 2][1] = "snapIndex" /\ job'[n + 3][1] = "profIndex"
      BY <1>4, <1>6
    <3>3. job'[n + 4][1] = "snapIndex" /\ job'[n + 5][1] = "profIndex"
      BY <1>4, <1>6
    <3>4. \A i \in 1..Len(job') : i \in 1..n \/ i = n + 1 \/ i = n + 2 \/ i = n + 3 \/ i = n + 4 \/ i = n + 5
      BY <1>5, <1>6
    <3> QED BY <3>1, <3>2, <3>3, <3>4
  <2> QED BY <2>2 DEF SwitchOrder
<1>14. HasRead' /\ ReaderIsPaired'
  BY <1>7, HasReadStays DEF IInv
<1>15. NothingDangles' /\ UploadedIsNamed'
  BY <1>7 DEF IInv, NothingDangles, UploadedIsNamed
<1> QED BY <1>9, <1>10, <1>11, <1>12, <1>13, <1>14, <1>15 DEF IInv

(* A write done: the others move up.                                       *)
LEMMA Popped ==
  ASSUME TypeOK, job # <<>>, job' = Tail(job)
  PROVE  /\ Len(job') = Len(job) - 1 /\ Len(job) \in Nat \ {0} /\ Head(job) = job[1] /\ 1 \in 1..Len(job)
         /\ job' \in Seq(Switching) \cup Seq(Uploading)
         /\ \A i \in 1..Len(job') : /\ i + 1 \in 1..Len(job) /\ job'[i] = job[i + 1]
                                    /\ \A j \in Before(i) : j + 1 \in Before(i + 1) /\ job'[j] = job[j + 1]
                                    /\ \A j \in Before(i + 1) : j = 1 \/ (j - 1 \in Before(i) /\ job'[j - 1] = job[j])
<1>1. /\ Len(job) \in Nat \ {0} /\ Head(job) = job[1] /\ Len(job') = Len(job) - 1
      /\ \A i \in 1..(Len(job) - 1) : job'[i] = job[i + 1]
      /\ job' \in Seq(Switching) \cup Seq(Uploading)
  BY JobTypes DEF TypeOK
<1>2. ASSUME NEW i \in 1..Len(job')
      PROVE  /\ i + 1 \in 1..Len(job) /\ job'[i] = job[i + 1]
             /\ \A j \in Before(i) : j + 1 \in Before(i + 1) /\ job'[j] = job[j + 1]
             /\ \A j \in Before(i + 1) : j = 1 \/ (j - 1 \in Before(i) /\ job'[j - 1] = job[j])
  <2>1. i \in 1..(Len(job) - 1) /\ Len(job) \in Nat
    BY <1>1
  <2>2. \A j \in Before(i) : j \in 1..(Len(job) - 1) /\ j + 1 \in Before(i + 1)
    BY <2>1 DEF Before
  <2>3. \A j \in Before(i + 1) : j = 1 \/ (j - 1 \in Before(i) /\ j - 1 \in 1..(Len(job) - 1) /\ (j - 1) + 1 = j)
    BY <2>1 DEF Before
  <2> QED BY <1>1, <2>1, <2>2, <2>3
<1>3. 1 \in 1..Len(job)
  BY <1>1
<1> QED BY <1>1, <1>2, <1>3

(* What was pending before the head is done is pending after, or was it.   *)
LEMMA PendingStill ==
  ASSUME TypeOK, job # <<>>, job' = Tail(job), NEW i \in 1..Len(job'), NEW what, NEW key, Pending(job, i + 1, what, key)
  PROVE  Pending(job', i, what, key) \/ (Head(job)[1] = what /\ Head(job)[2] = key)
<1>1. PICK j \in Before(i + 1) : job[j][1] = what /\ job[j][2] = key
  BY DEF Pending
<1>2. j = 1 \/ (j - 1 \in Before(i) /\ job'[j - 1] = job[j])
  BY Popped
<1>3. Head(job) = job[1]
  BY Popped
<1> QED BY <1>1, <1>2, <1>3 DEF Pending

(* A job is a promotion's or an upload's, told by its writes.              *)
LEMMA Tags ==
  /\ \A s \in Seq(Switching) : \A i \in 1..Len(s) : s[i][1] \in {"packs", "snapshots", "runtime", "profiles"}
  /\ \A s \in Seq(Uploading) : \A i \in 1..Len(s) : s[i][1] \in {"snapz", "snapIndex", "profIndex"}
<1>1. ASSUME NEW s \in Seq(Switching), NEW i \in 1..Len(s) PROVE s[i][1] \in {"packs", "snapshots", "runtime", "profiles"}
  <2>1. s[i] \in Switching  BY ElementOfSeq
  <2> QED BY <2>1 DEF Switching
<1>2. ASSUME NEW s \in Seq(Uploading), NEW i \in 1..Len(s) PROVE s[i][1] \in {"snapz", "snapIndex", "profIndex"}
  <2>1. s[i] \in Uploading  BY ElementOfSeq
  <2> QED BY <2>1 DEF Uploading
<1> QED BY <1>1, <1>2

(* An upload's snapshots: the copies and the mutable index name what is    *)
(* there once they are all there.                                          *)
LEMMA PutSnapshotIInv == ASSUME IInv, PutSnapshot PROVE IInv'
<1>1. /\ UNCHANGED <<pub, baked, record, snapIndex, profIndex, deployed, uploaded, back, reader>> /\ snapz \subseteq snapz'
      /\ snapz' \subseteq Trees /\ job # <<>> /\ Head(job)[1] = "snapz"
  BY DEF PutSnapshot, local, site, IInv, TypeOK
<1>2. NothingDangles' /\ UploadedIsNamed' /\ HasRead' /\ ReaderIsPaired'
  BY <1>1, HasReadStays DEF IInv, NothingDangles, UploadedIsNamed
<1>3. CASE job' = job
  BY <1>1, <1>2, <1>3 DEF IInv, TypeOK, SnapshotsFirst, CopiesFirst, EndsWithLatest, SwitchOrder, Pending
<1>4. CASE baked \subseteq snapz /\ job' = Tail(job) /\ snapz' = snapz
  <2>1. TypeOK'
    BY <1>1, <1>4, Popped DEF IInv, TypeOK
  <2>2. SnapshotsFirst'
    BY <1>1, <1>4, Popped, PendingStill DEF IInv, SnapshotsFirst
  <2>3. CopiesFirst'
    BY <1>1, <1>4, Popped, PendingStill DEF IInv, CopiesFirst
  <2>4. EndsWithLatest'
    BY <1>1, <1>4, Popped, PendingStill, JobTypes DEF IInv, EndsWithLatest
  <2>5. SwitchOrder'
    <3>1. job' \in Seq(Uploading)
      <4>1. job \in Seq(Uploading)  BY <1>1, Popped, Tags DEF IInv, TypeOK
      <4> QED BY <1>1, <1>4, <4>1, JobTypes DEF IInv
    <3> QED BY <3>1, Tags DEF SwitchOrder
  <2> QED BY <1>2, <2>1, <2>2, <2>3, <2>4, <2>5 DEF IInv
<1> QED BY <1>3, <1>4 DEF PutSnapshot

(* One index is written: it names what is there, a mutable one takes over  *)
(* only from a runtime that keeps its copy, and the release counts as      *)
(* uploaded once its own is the mutable one.                               *)
LEMMA PutIndexIInv == ASSUME IInv, PutIndex PROVE IInv'
<1> DEFINE w == job[1]
<1>1. /\ job # <<>> /\ job' = Tail(job) /\ Head(job) = w /\ w[1] \in {"snapIndex", "profIndex"} /\ 1 \in 1..Len(job)
      /\ UNCHANGED <<pub, baked, record, snapz, deployed, back, reader>>
      /\ uploaded' = IF Tail(job) = <<>> THEN uploaded \cup {record} ELSE uploaded
      /\ Len(job') = Len(job) - 1 /\ Len(job) \in Nat \ {0} /\ (Tail(job) = <<>> => Len(job) = 1)
  <2>1. job # <<>> /\ job' = Tail(job) /\ Head(job)[1] \in {"snapIndex", "profIndex"}
    BY DEF PutIndex
  <2>2. TypeOK  BY DEF IInv
  <2>3. /\ Len(job') = Len(job) - 1 /\ Len(job) \in Nat \ {0} /\ Head(job) = w /\ 1 \in 1..Len(job)
    BY <2>1, <2>2, Popped
  <2>4. Tail(job) = <<>> => Len(job') = 0
    BY <2>1
  <2> QED BY <2>1, <2>3, <2>4 DEF PutIndex, local
<1>2. /\ w[1] = "snapIndex" => w[2] \in Keys /\ w[3] \in Trees /\ snapIndex' = [snapIndex EXCEPT ![w[2]] = w[3]] /\ profIndex' = profIndex
      /\ w[1] = "profIndex" => w[2] \in Keys /\ w[3] \in ProfileIndexes /\ profIndex' = [profIndex EXCEPT ![w[2]] = w[3]] /\ snapIndex' = snapIndex
  BY <1>1, JobTypes, WriteTypes DEF PutIndex, IInv
<1>3. job' \in Seq(Uploading)
  <2>1. job \in Seq(Uploading)  BY <1>1, Tags DEF IInv, TypeOK
  <2> QED BY <1>1, <2>1, JobTypes DEF IInv
<1>4. /\ Latest \in Keys /\ record \in Releases /\ uploaded \subseteq Releases /\ \A q \in Releases : q \in Keys /\ q # Latest
      /\ \A q \in ProfileIndexes : q # None /\ q.runtime \in Releases /\ q = Profiles(q.runtime)
      /\ None \notin Trees
  <2>1. ASSUME NEW x \in ProfileIndexes PROVE x # None /\ x.runtime \in Releases /\ x = Profiles(x.runtime)
    <3>1. PICK q \in Releases : x = Profiles(q)  BY DEF ProfileIndexes
    <3>2. x # None  BY <3>1, ReleaseAssumption
    <3>3. x.runtime = q  BY <3>1 DEF Profiles
    <3> QED BY <3>1, <3>2, <3>3
  <2> QED BY <2>1, Served, ReleaseAssumption DEF IInv, TypeOK
<1>5. /\ uploaded \subseteq uploaded' /\ uploaded' \subseteq uploaded \cup {record}
      /\ snapIndex' \in [Keys -> Trees \cup {None}] /\ profIndex' \in [Keys -> ProfileIndexes \cup {None}]
      /\ \A q \in Keys : (profIndex[q] # None => profIndex'[q] # None) /\ (snapIndex[q] # None => snapIndex'[q] # None)
  <2>1. uploaded \subseteq uploaded' /\ uploaded' \subseteq uploaded \cup {record}
    BY <1>1
  <2>2. CASE w[1] = "snapIndex"
    <3>1. snapIndex' = [snapIndex EXCEPT ![w[2]] = w[3]] /\ profIndex' = profIndex /\ w[3] \in Trees  BY <1>2, <2>2
    <3> QED BY <1>4, <2>1, <3>1 DEF IInv, TypeOK
  <2>3. CASE w[1] = "profIndex"
    <3>1. profIndex' = [profIndex EXCEPT ![w[2]] = w[3]] /\ snapIndex' = snapIndex /\ w[3] \in ProfileIndexes  BY <1>2, <2>3
    <3> QED BY <1>4, <2>1, <3>1 DEF IInv, TypeOK
  <2> QED BY <1>1, <2>2, <2>3
<1>6. TypeOK'
  BY <1>1, <1>3, <1>4, <1>5 DEF IInv, TypeOK
<1>7. HasRead' /\ ReaderIsPaired'
  BY <1>1, <1>5, HasReadStays DEF IInv
<1>8. SwitchOrder'
  BY <1>3, Tags DEF SwitchOrder
<1>9. Before(1) = {} /\ \A what, key : ~Pending(job, 1, what, key)
  BY DEF Before, Pending
<1>10. NothingDangles'
  <2>1. w[1] = "snapIndex" => w[3] \in snapz /\ w[2] \in {Latest, ReleaseOf[w[3]]}
    BY <1>1, <1>9 DEF IInv, SnapshotsFirst
  <2>2. w[1] = "profIndex" => w[2] \in {Latest, w[3].runtime} /\ w[3] = Profiles(w[3].runtime)
    BY <1>1, <1>2, <1>4 DEF IInv, CopiesFirst
  <2> QED BY <1>1, <1>2, <2>1, <2>2 DEF IInv, TypeOK, NothingDangles
<1>101. \A i \in 1..Len(job') : /\ i + 1 \in 1..Len(job) /\ job'[i] = job[i + 1]
                                 /\ \A j \in Before(i + 1) : j = 1 \/ (j - 1 \in Before(i) /\ job'[j - 1] = job[j])
  BY <1>1, Popped DEF IInv
<1>11. SnapshotsFirst'
  <2> DEFINE q == ReleaseOf[snapIndex[Latest]]
            r == ReleaseOf[snapIndex'[Latest]]
  <2>1. ASSUME NEW i \in 1..Len(job'), job'[i][1] = "snapIndex", job'[i][2] = Latest
        PROVE  ReleaseOf[job'[i][3]] = record /\ (r = record \/ snapIndex'[r] # None \/ Pending(job', i, "snapIndex", r))
    <3>1. ReleaseOf[job'[i][3]] = record /\ (q = record \/ snapIndex[q] # None \/ Pending(job, i + 1, "snapIndex", q))
      BY <1>101, <2>1 DEF IInv, SnapshotsFirst
    <3>2. q \in Keys  BY Served
    <3>3. CASE w[1] = "snapIndex" /\ w[2] = Latest
      <4>1. ReleaseOf[w[3]] = record  BY <1>1, <3>3 DEF IInv, SnapshotsFirst
      <4>2. snapIndex'[Latest] = w[3]  BY <1>2, <1>4, <3>3 DEF IInv, TypeOK
      <4> QED BY <3>1, <4>1, <4>2
    <3>4. CASE ~(w[1] = "snapIndex" /\ w[2] = Latest)
      <4>1. snapIndex'[Latest] = snapIndex[Latest]
        BY <1>1, <1>2, <1>4, <3>4 DEF IInv, TypeOK
      <4>2. Pending(job, i + 1, "snapIndex", q) => Pending(job', i, "snapIndex", q) \/ (w[1] = "snapIndex" /\ w[2] = q)
        BY <1>1, PendingStill DEF IInv
      <4>3. w[1] = "snapIndex" /\ w[2] = q => snapIndex'[q] # None
        BY <1>2, <1>4, <3>2 DEF IInv, TypeOK
      <4> QED BY <1>5, <3>1, <3>2, <4>1, <4>2, <4>3
    <3> QED BY <3>3, <3>4
  <2> HIDE DEF q
  <2>2. ASSUME NEW i \in 1..Len(job'), job'[i][1] = "snapIndex"
        PROVE  /\ job'[i][2] \in {Latest, ReleaseOf[job'[i][3]]}
               /\ job'[i][3] \in snapz \/ (job'[i][3] \in baked /\ \E j \in Before(i) : job'[j][1] = "snapz")
    <3>1. /\ job'[i][2] \in {Latest, ReleaseOf[job'[i][3]]}
          /\ job'[i][3] \in snapz \/ (job'[i][3] \in baked /\ \E j \in Before(i + 1) : job[j][1] = "snapz")
      BY <1>101, <2>2 DEF IInv, SnapshotsFirst
    <3>2. w[1] # "snapz" /\ w = job[1]  BY <1>1
    <3>3. ASSUME NEW j \in Before(i + 1), job[j][1] = "snapz" PROVE \E k \in Before(i) : job'[k][1] = "snapz"
      <4>1. j # 1  BY <3>2, <3>3
      <4> QED BY <1>101, <3>3, <4>1
    <3> QED BY <1>1, <3>1, <3>3
  <2> QED BY <1>1, <2>1, <2>2 DEF SnapshotsFirst
<1>12. CopiesFirst'
  <2> DEFINE q == profIndex[Latest].runtime
            r == profIndex'[Latest].runtime
  <2>1. ASSUME NEW i \in 1..Len(job'), job'[i][1] = "profIndex", job'[i][2] = Latest
        PROVE  job'[i][3].runtime = record /\ (r = record \/ profIndex'[r] # None \/ Pending(job', i, "profIndex", r))
    <3>1. job'[i][3].runtime = record /\ (q = record \/ profIndex[q] # None \/ Pending(job, i + 1, "profIndex", q))
      BY <1>101, <2>1 DEF IInv, CopiesFirst
    <3>2. q \in Keys  BY Served
    <3>3. CASE w[1] = "profIndex" /\ w[2] = Latest
      <4>1. w[3].runtime = record  BY <1>1, <3>3 DEF IInv, CopiesFirst
      <4>2. profIndex'[Latest] = w[3]  BY <1>2, <1>4, <3>3 DEF IInv, TypeOK
      <4> QED BY <3>1, <4>1, <4>2
    <3>4. CASE ~(w[1] = "profIndex" /\ w[2] = Latest)
      <4>1. profIndex'[Latest] = profIndex[Latest]
        BY <1>1, <1>2, <1>4, <3>4 DEF IInv, TypeOK
      <4>2. Pending(job, i + 1, "profIndex", q) => Pending(job', i, "profIndex", q) \/ (w[1] = "profIndex" /\ w[2] = q)
        BY <1>1, PendingStill DEF IInv
      <4>3. w[1] = "profIndex" /\ w[2] = q => profIndex'[q] # None
        BY <1>2, <1>4, <3>2 DEF IInv, TypeOK
      <4> QED BY <1>5, <3>1, <3>2, <4>1, <4>2, <4>3
    <3> QED BY <3>3, <3>4
  <2> HIDE DEF q
  <2>2. ASSUME NEW i \in 1..Len(job'), job'[i][1] = "profIndex"
        PROVE  job'[i][2] \in {Latest, job'[i][3].runtime}
    BY <1>101, <2>2 DEF IInv, CopiesFirst
  <2> QED BY <1>1, <2>1, <2>2 DEF CopiesFirst
<1>13. job' # <<>> => EndsWithLatest'
  <2> SUFFICES ASSUME job' # <<>> PROVE EndsWithLatest'
    OBVIOUS
  <2>1. Len(job') \in 1..Len(job') /\ Len(job') + 1 = Len(job)
    BY <1>1, <1>3, EmptySeq
  <2>2. job'[Len(job')] = job[Len(job)]
    BY <1>1, <2>1, Popped DEF IInv
  <2>3. snapIndex[record] # None \/ Pending(job, Len(job), "snapIndex", record)
    BY <1>1 DEF IInv, EndsWithLatest
  <2>4. Pending(job, Len(job), "snapIndex", record) => Pending(job', Len(job'), "snapIndex", record) \/ (w[1] = "snapIndex" /\ w[2] = record)
    BY <1>1, <2>1, PendingStill DEF IInv
  <2>5. w[1] = "snapIndex" /\ w[2] = record => snapIndex'[record] # None
    BY <1>2, <1>4 DEF IInv, TypeOK
  <2>6. snapIndex'[record] # None \/ Pending(job', Len(job'), "snapIndex", record)
    BY <1>4, <1>5, <2>3, <2>4, <2>5
  <2>7. job[Len(job)][1] = "profIndex" /\ job[Len(job)][2] = Latest
    BY <1>1 DEF IInv, EndsWithLatest
  <2> QED BY <1>1, <2>2, <2>6, <2>7 DEF EndsWithLatest, Pending
<1>14. job' = <<>> => EndsWithLatest'
  BY DEF EndsWithLatest
<1>15. UploadedIsNamed'
  <2>1. snapIndex'[Latest] # None /\ profIndex'[Latest] # None /\ deployed' \in uploaded'
    BY <1>1, <1>4, <1>5 DEF IInv, UploadedIsNamed
  <2>2. ASSUME NEW q \in uploaded
        PROVE  /\ snapIndex'[q] # None \/ ReleaseOf[snapIndex'[Latest]] = q
               /\ profIndex'[q] # None \/ profIndex'[Latest].runtime = q
    <3>1. w[1] = "snapIndex" /\ w[2] = Latest =>
            ReleaseOf[w[3]] = record /\ (ReleaseOf[snapIndex[Latest]] = record \/ snapIndex[ReleaseOf[snapIndex[Latest]]] # None)
      BY <1>1, <1>9 DEF IInv, SnapshotsFirst
    <3>2. w[1] = "profIndex" /\ w[2] = Latest =>
            w[3].runtime = record /\ (profIndex[Latest].runtime = record \/ profIndex[profIndex[Latest].runtime] # None)
      BY <1>1, <1>9 DEF IInv, CopiesFirst
    <3>3. q \in Keys  BY <1>4
    <3>4. /\ snapIndex[q] # None \/ ReleaseOf[snapIndex[Latest]] = q
          /\ profIndex[q] # None \/ profIndex[Latest].runtime = q
      BY DEF IInv, UploadedIsNamed
    <3>5. snapIndex'[q] # None \/ ReleaseOf[snapIndex'[Latest]] = q
      BY <1>1, <1>2, <1>4, <1>5, <3>1, <3>3, <3>4 DEF IInv, TypeOK
    <3>6. profIndex'[q] # None \/ profIndex'[Latest].runtime = q
      BY <1>1, <1>2, <1>4, <1>5, <3>2, <3>3, <3>4 DEF IInv, TypeOK
    <3> QED BY <3>5, <3>6
  <2>3. ASSUME Tail(job) = <<>>
        PROVE  snapIndex'[record] # None /\ profIndex'[Latest].runtime = record
    <3>1. w[1] = "profIndex" /\ w[2] = Latest /\ snapIndex[record] # None
      BY <1>1, <1>9, <2>3 DEF IInv, EndsWithLatest
    <3>2. w[3].runtime = record
      BY <1>1, <3>1 DEF IInv, CopiesFirst
    <3> QED BY <1>2, <1>4, <3>1, <3>2 DEF IInv, TypeOK
  <2> QED BY <1>1, <2>1, <2>2, <2>3 DEF UploadedIsNamed
<1> QED BY <1>6, <1>7, <1>8, <1>10, <1>11, <1>12, <1>13, <1>14, <1>15 DEF IInv

(* One root is switched.                                                   *)
LEMMA SwitchIInv == ASSUME IInv, Switch PROVE IInv'
<1> DEFINE w == job[1]
<1>1. /\ job # <<>> /\ job' = Tail(job) /\ Head(job) = w /\ 1 \in 1..Len(job) /\ Len(job) \in Nat \ {0}
      /\ w[1] \in {"packs", "snapshots", "runtime", "profiles"} /\ pub' = [pub EXCEPT ![w[1]] = w[2]]
      /\ UNCHANGED <<baked, record, snapz, snapIndex, profIndex, deployed, uploaded, back, reader>>
  BY Popped DEF Switch, bucket, site, IInv, TypeOK, Roots
<1>2. job' \in Seq(Switching)
  <2>1. job \in Seq(Switching)  BY <1>1, Tags DEF IInv, TypeOK
  <2> QED BY <1>1, <2>1, JobTypes DEF IInv
<1>3. /\ w[1] = "packs" => w[2] \in Packs /\ pub' = [pub EXCEPT !.packs = w[2]]
      /\ w[1] = "snapshots" => w[2] \in Trees /\ pub' = [pub EXCEPT !.snapshots = w[2]]
      /\ w[1] = "runtime" => w[2] \in Releases /\ pub' = [pub EXCEPT !.runtime = w[2]]
      /\ w[1] = "profiles" => w[2] \in ProfileIndexes /\ pub' = [pub EXCEPT !.profiles = w[2]]
  BY <1>1, JobTypes, WriteTypes DEF IInv
<1>31. /\ pub'.snapshots = (IF w[1] = "snapshots" THEN w[2] ELSE pub.snapshots)
       /\ pub'.packs = (IF w[1] = "packs" THEN w[2] ELSE pub.packs)
       /\ pub'.runtime = (IF w[1] = "runtime" THEN w[2] ELSE pub.runtime)
  BY <1>1, <1>3 DEF IInv, TypeOK, Roots
<1>4. TypeOK'
  BY <1>1, <1>2, <1>3 DEF IInv, TypeOK, Roots
<1>5. HasRead' /\ ReaderIsPaired' /\ NothingDangles' /\ UploadedIsNamed'
  BY <1>1, HasReadStays DEF IInv, NothingDangles, UploadedIsNamed
<1>6. \A i \in 1..Len(job') : job'[i][1] \notin {"snapz", "snapIndex", "profIndex"}
  BY <1>2, Tags
<1>7. SnapshotsFirst' /\ CopiesFirst' /\ EndsWithLatest'
  <2>1. job' # <<>> => 1 \in 1..Len(job')
    BY <1>2, EmptySeq
  <2> QED BY <1>6, <2>1 DEF SnapshotsFirst, CopiesFirst, EndsWithLatest
<1>8. SwitchOrder'
  <2> SUFFICES ASSUME NEW i \in 1..Len(job')
               PROVE  /\ job'[i][1] = "runtime" =>
                           /\ ReleaseOf[pub'.snapshots] = job'[i][2] \/ \E j \in Before(i) : job'[j][1] = "snapshots"
                           /\ pub'.packs = PacksOf[job'[i][2]] \/ \E j \in Before(i) : job'[j][1] = "packs"
                           /\ \A j \in Before(i) : /\ job'[j][1] = "snapshots" => ReleaseOf[job'[j][2]] = job'[i][2]
                                                   /\ job'[j][1] = "packs" => job'[j][2] = PacksOf[job'[i][2]]
                      /\ job'[i][1] = "profiles" =>
                           /\ pub'.runtime = job'[i][2].runtime \/ \E j \in Before(i) : job'[j][1] = "runtime"
                           /\ \A j \in Before(i) : job'[j][1] = "runtime" => job'[j][2] = job'[i][2].runtime
    BY DEF SwitchOrder
  <2>1. /\ i + 1 \in 1..Len(job) /\ job'[i] = job[i + 1] /\ 1 \in Before(i + 1)
        /\ \A j \in Before(i) : j + 1 \in Before(i + 1) /\ job'[j] = job[j + 1]
        /\ \A j \in Before(i + 1) : j = 1 \/ (j - 1 \in Before(i) /\ job'[j - 1] = job[j])
    BY <1>1, Popped DEF IInv, Before
  <2>2. ASSUME job'[i][1] = "runtime"
        PROVE  /\ ReleaseOf[pub'.snapshots] = job'[i][2] \/ \E j \in Before(i) : job'[j][1] = "snapshots"
               /\ pub'.packs = PacksOf[job'[i][2]] \/ \E j \in Before(i) : job'[j][1] = "packs"
    <3>1. /\ ReleaseOf[pub.snapshots] = job[i + 1][2] \/ \E j \in Before(i + 1) : job[j][1] = "snapshots"
          /\ pub.packs = PacksOf[job[i + 1][2]] \/ \E j \in Before(i + 1) : job[j][1] = "packs"
          /\ w[1] = "snapshots" => ReleaseOf[w[2]] = job[i + 1][2]
          /\ w[1] = "packs" => w[2] = PacksOf[job[i + 1][2]]
      BY <2>1, <2>2 DEF IInv, SwitchOrder
    <3>2. ReleaseOf[pub'.snapshots] = job'[i][2] \/ \E j \in Before(i) : job'[j][1] = "snapshots"
      BY <1>31, <2>1, <3>1
    <3>3. pub'.packs = PacksOf[job'[i][2]] \/ \E j \in Before(i) : job'[j][1] = "packs"
      BY <1>31, <2>1, <3>1
    <3> QED BY <3>2, <3>3
  <2>3. ASSUME job'[i][1] = "profiles"
        PROVE  pub'.runtime = job'[i][2].runtime \/ \E j \in Before(i) : job'[j][1] = "runtime"
    <3>1. /\ pub.runtime = job[i + 1][2].runtime \/ \E j \in Before(i + 1) : job[j][1] = "runtime"
          /\ w[1] = "runtime" => w[2] = job[i + 1][2].runtime
      BY <2>1, <2>3 DEF IInv, SwitchOrder
    <3> QED BY <1>31, <2>1, <3>1
  <2>4. ASSUME job'[i][1] = "runtime", NEW j \in Before(i)
        PROVE  /\ job'[j][1] = "snapshots" => ReleaseOf[job'[j][2]] = job'[i][2]
               /\ job'[j][1] = "packs" => job'[j][2] = PacksOf[job'[i][2]]
    BY <2>1, <2>4 DEF IInv, SwitchOrder
  <2>5. ASSUME job'[i][1] = "profiles", NEW j \in Before(i)
        PROVE  job'[j][1] = "runtime" => job'[j][2] = job'[i][2].runtime
    BY <2>1, <2>5 DEF IInv, SwitchOrder
  <2> QED BY <2>2, <2>3, <2>4, <2>5, Zenon
<1> QED BY <1>4, <1>5, <1>7, <1>8 DEF IInv

(* Nothing runs: the job's conjuncts hold, and the rest is as it was.      *)
LEMMA IdleIInv ==
  ASSUME IInv, job' = <<>>, UNCHANGED bucket, UNCHANGED site, UNCHANGED reader, pub' \in Roots, record' \in Releases, baked' = baked
  PROVE  IInv'
<1>1. UNCHANGED <<snapz, snapIndex, profIndex, deployed, uploaded, back, reader>>
  BY DEF bucket, site
<1>2. TypeOK'
  BY <1>1, EmptySeq DEF IInv, TypeOK
<1>3. HasRead' /\ ReaderIsPaired' /\ NothingDangles' /\ UploadedIsNamed'
  BY <1>1, HasReadStays DEF IInv, NothingDangles, UploadedIsNamed
<1>4. SnapshotsFirst' /\ CopiesFirst' /\ EndsWithLatest' /\ SwitchOrder'
  BY DEF SnapshotsFirst, CopiesFirst, EndsWithLatest, SwitchOrder
<1> QED BY <1>2, <1>3, <1>4 DEF IInv

(* A script stops; a record lands; a commit is reverted.                   *)
LEMMA StopIInv == ASSUME IInv, Stop \/ Revert \/ \E q \in Releases : Land(q) PROVE IInv'
<1>1. job' = <<>> /\ UNCHANGED bucket /\ UNCHANGED site /\ UNCHANGED reader /\ baked' = baked
  BY DEF Stop, Revert, Land, local
<1>2. pub' \in Roots /\ record' \in Releases
  BY DEF Stop, Revert, Land, local, IInv, TypeOK
<1> QED BY <1>1, <1>2, IdleIInv

(* A deployment changes what is routed; a boot it finds knows it.          *)
LEMMA DeployIInv == ASSUME IInv, Deploy PROVE IInv'
<1>1. /\ job = <<>> /\ record \in uploaded /\ deployed' = record /\ back' = [pub |-> pub, record |-> record]
      /\ UNCHANGED <<pub, baked, record, job, snapz, snapIndex, profIndex, uploaded>>
      /\ reader' = IF reader = Closed THEN reader ELSE [reader EXCEPT !.deploys = TRUE]
  BY DEF Deploy, Tracked, local, bucket
<1>2. TypeOK'
  BY <1>1 DEF IInv, TypeOK, Boots
<1>3. NothingDangles' /\ UploadedIsNamed' /\ SnapshotsFirst' /\ CopiesFirst' /\ EndsWithLatest' /\ SwitchOrder'
  BY <1>1 DEF IInv, NothingDangles, UploadedIsNamed, SnapshotsFirst, CopiesFirst, EndsWithLatest, SwitchOrder, Pending
<1>4. HasRead' /\ ReaderIsPaired'
  <2>1. CASE reader = Closed
    BY <1>1, <2>1 DEF HasRead, ReaderIsPaired, Closed
  <2>2. CASE reader # Closed
    BY <1>1, <2>2 DEF IInv, TypeOK, Boots, HasRead, ReaderIsPaired
  <2> QED BY <2>1, <2>2
<1> QED BY <1>2, <1>3, <1>4 DEF IInv

(* A boot reads: only the reader changes.                                  *)
LEMMA ReaderIInv ==
  ASSUME IInv, Only, reader' = Closed \/ reader' \in Boots, HasRead', ReaderIsPaired'
  PROVE  IInv'
<1>1. UNCHANGED <<pub, baked, record, job, snapz, snapIndex, profIndex, deployed, uploaded, back>>
  BY DEF Only, local, bucket, site
<1>2. TypeOK'
  BY <1>1 DEF IInv, TypeOK, Boots
<1> QED BY <1>1, <1>2 DEF IInv, NothingDangles, UploadedIsNamed, SnapshotsFirst, CopiesFirst, EndsWithLatest, SwitchOrder, Pending

(* A tab is opened, pinned to the deployed release, and closed.            *)
LEMMA OpenIInv == ASSUME IInv, Open \/ Leave PROVE IInv'
<1>1. Only /\ deployed' = deployed /\ uploaded' = uploaded
  BY DEF Open, Leave, Only, site
<1>2. CASE Open
  <2>1. reader' \in Boots
    BY <1>2 DEF Open, Boots, IInv, TypeOK
  <2>2. HasRead' /\ ReaderIsPaired'
    BY <1>1, <1>2 DEF Open, IInv, UploadedIsNamed, HasRead, ReaderIsPaired, AfterProfiles, AfterPacks, AfterSnapshots
  <2> QED BY <1>1, <2>1, <2>2, ReaderIInv
<1>3. CASE Leave
  <2>1. reader' = Closed  BY <1>3 DEF Leave
  <2>2. HasRead' /\ ReaderIsPaired'
    BY <2>1 DEF Closed, HasRead, ReaderIsPaired
  <2> QED BY <1>1, <2>1, <2>2, ReaderIInv
<1> QED BY <1>2, <1>3

(* Of an index: the mutable one is the pinned release's, or the release    *)
(* was uploaded and its copy is there.                                     *)
LEMMA IndexOfPin ==
  ASSUME IInv, NEW q \in uploaded
  PROVE  /\ q \in Keys /\ q \in Releases
         /\ profIndex[Latest].runtime # q => profIndex[q] # None
         /\ ReleaseOf[snapIndex[Latest]] # q => snapIndex[q] # None
         /\ profIndex[q] # None => profIndex[q] \in ProfileIndexes /\ profIndex[q] = Profiles(q)
         /\ snapIndex[q] # None => snapIndex[q] \in Trees /\ snapIndex[q] \in snapz /\ ReleaseOf[snapIndex[q]] = q
<1>1. q \in Releases /\ q \in Keys /\ q # Latest
  BY Served DEF IInv, TypeOK
<1>2. /\ profIndex[q] # None => profIndex[q] \in ProfileIndexes /\ profIndex[q].runtime = q /\ profIndex[q] = Profiles(profIndex[q].runtime)
      /\ snapIndex[q] # None => snapIndex[q] \in Trees /\ snapIndex[q] \in snapz /\ ReleaseOf[snapIndex[q]] = q
  BY <1>1 DEF IInv, NothingDangles, TypeOK
<1>3. /\ profIndex[Latest].runtime # q => profIndex[q] # None
      /\ ReleaseOf[snapIndex[Latest]] # q => snapIndex[q] # None
  BY DEF IInv, UploadedIsNamed
<1> QED BY <1>1, <1>2, <1>3

(* The boot as its fields: what an action on it may use.                   *)
LEMMA Booting ==
  ASSUME IInv, reader.pc # "closed"
  PROVE  reader \in Boots /\ reader.pin \in uploaded
BY DEF IInv, TypeOK, HasRead, Boots, Closed

(* The profile index is read, and the copy if it is another runtime's.     *)
LEMMA ReadProfilesIInv == ASSUME IInv, ReadProfiles \/ ReadProfilesCopy PROVE IInv'
<1> DEFINE pin == reader.pin
<1>1. Only /\ UNCHANGED <<profIndex, snapIndex, snapz, deployed, uploaded>>
  BY DEF ReadProfiles, ReadProfilesCopy, Only, bucket, site
<1>2. reader \in Boots /\ pin \in uploaded /\ reader.pc \in {"profiles", "profilesCopy"}
  BY Booting DEF ReadProfiles, ReadProfilesCopy
<1>3. profIndex[Latest] \in ProfileIndexes /\ profIndex[Latest] = Profiles(profIndex[Latest].runtime)
  BY Served
<1>4. CASE ReadProfiles
  <2> DEFINE pc == IF profIndex[Latest].runtime # pin THEN "profilesCopy" ELSE "runtime"
  <2>1. reader' = [reader EXCEPT !.index = profIndex[Latest], !.pc = pc]
    BY <1>4 DEF ReadProfiles, Mispaired
  <2>2. reader' \in Boots
    BY <1>2, <1>3, <2>1 DEF Boots
  <2>3. /\ reader'.pin = pin /\ reader'.lost = reader.lost /\ reader'.deploys = reader.deploys
        /\ reader'.index = profIndex[Latest] /\ reader'.pc = pc
    BY <1>2, <2>1 DEF Boots
  <2>4. HasRead' /\ ReaderIsPaired'
    BY <1>1, <1>2, <1>3, <2>3, IndexOfPin DEF IInv, HasRead, ReaderIsPaired, AfterProfiles, AfterPacks, AfterSnapshots
  <2> QED BY <1>1, <2>2, <2>4, ReaderIInv
<1>5. CASE ReadProfilesCopy
  <2>1. /\ reader.pc = "profilesCopy" /\ profIndex[pin] # None /\ profIndex[pin] = Profiles(pin) /\ profIndex[pin].runtime = pin
        /\ profIndex[pin] \in ProfileIndexes
    BY <1>2, <1>5, IndexOfPin DEF ReadProfilesCopy, IInv, HasRead, Profiles
  <2>2. \/ reader' = [reader EXCEPT !.pc = "runtime", !.index = profIndex[pin]]
        \/ reader' = [reader EXCEPT !.pc = "runtime", !.lost = TRUE]
    BY <1>5, <2>1 DEF ReadProfilesCopy, PairedCopyOr, Mispaired
  <2>3. reader' \in Boots
    BY <1>2, <2>1, <2>2 DEF Boots
  <2>4. /\ reader'.pin = pin /\ reader'.deploys = reader.deploys /\ reader'.pc = "runtime"
        /\ reader'.lost \/ reader'.index = profIndex[pin]
    BY <1>2, <2>2 DEF Boots
  <2>5. HasRead' /\ ReaderIsPaired'
    BY <1>1, <1>2, <2>1, <2>4 DEF IInv, HasRead, ReaderIsPaired, AfterProfiles, AfterPacks, AfterSnapshots
  <2> QED BY <1>1, <2>3, <2>5, ReaderIInv
<1> QED BY <1>4, <1>5

(* The runtime and the packs come from the deployed release's prefix.      *)
LEMMA RoutedIInv == ASSUME IInv, ReadRuntime \/ InstallPacks PROVE IInv'
<1>1. Only /\ UNCHANGED <<profIndex, snapIndex, snapz, deployed, uploaded>>
  BY DEF ReadRuntime, InstallPacks, Only, bucket, site
<1>2. /\ reader \in Boots /\ reader.pc \in {"runtime", "packs"} /\ deployed \in Releases /\ PacksOf[deployed] \in Packs
      /\ reader.pin \in uploaded /\ (~reader.deploys => deployed = reader.pin)
      /\ reader.pc = "packs" /\ ~reader.deploys => reader.runtime = reader.pin
      /\ ~reader.lost => reader.index = Profiles(reader.pin)
  BY Booting DEF ReadRuntime, InstallPacks, IInv, TypeOK, Packs, HasRead, AfterProfiles
<1>3. \/ reader' = [reader EXCEPT !.runtime = deployed, !.pc = "packs"] /\ reader.pc = "runtime"
      \/ reader' = [reader EXCEPT !.pc = "stale"] /\ reader.pc = "packs" /\ PacksOf[deployed] # reader.index.packs
      \/ reader' = [reader EXCEPT !.packs = PacksOf[deployed], !.pc = "snapshots"] /\ reader.pc = "packs" /\ PacksOf[deployed] = reader.index.packs
  BY DEF ReadRuntime, InstallPacks, Ends, Routed
<1>4. reader' \in Boots
  <2>1. CASE reader' = [reader EXCEPT !.runtime = deployed, !.pc = "packs"]
    BY <1>2, <2>1 DEF Boots
  <2>2. CASE reader' = [reader EXCEPT !.pc = "stale"]
    BY <1>2, <2>2 DEF Boots
  <2>3. CASE reader' = [reader EXCEPT !.packs = PacksOf[deployed], !.pc = "snapshots"]
    BY <1>2, <2>3 DEF Boots
  <2> QED BY <1>3, <2>1, <2>2, <2>3
<1>5. /\ reader'.pin = reader.pin /\ reader'.deploys = reader.deploys /\ reader'.lost = reader.lost /\ reader'.index = reader.index
      /\ \/ reader'.pc = "packs" /\ reader'.runtime = deployed
         \/ reader.pc = "packs" /\ reader'.pc = "stale" /\ reader'.runtime = reader.runtime /\ PacksOf[deployed] # reader.index.packs
         \/ reader.pc = "packs" /\ reader'.pc = "snapshots" /\ reader'.runtime = reader.runtime /\ PacksOf[deployed] = reader.index.packs
              /\ reader'.packs = PacksOf[deployed]
  BY <1>2, <1>3 DEF Boots
<1>6. ~reader.lost => reader.index.packs = PacksOf[reader.pin]
  BY <1>2 DEF Profiles
<1>7. HasRead' /\ ReaderIsPaired'
  BY <1>1, <1>2, <1>5, <1>6 DEF HasRead, ReaderIsPaired, AfterProfiles, AfterPacks, AfterSnapshots
<1> QED BY <1>1, <1>4, <1>7, ReaderIInv

(* The snapshot index is read like the profile index.                      *)
LEMMA ReadSnapshotsIInv == ASSUME IInv, ReadSnapshots \/ ReadSnapshotsCopy PROVE IInv'
<1> DEFINE pin == reader.pin
<1>1. Only /\ UNCHANGED <<profIndex, snapIndex, snapz, deployed, uploaded>>
  BY DEF ReadSnapshots, ReadSnapshotsCopy, Only, bucket, site
<1>2. /\ reader \in Boots /\ pin \in uploaded /\ reader.pc \in {"snapshots", "snapshotsCopy"}
      /\ (~reader.deploys => deployed = pin)
      /\ ~reader.deploys => reader.runtime = pin
      /\ ~reader.lost => reader.index = Profiles(pin) /\ reader.packs = PacksOf[pin]
      /\ reader.pc = "snapshotsCopy" => snapIndex[pin] # None
  BY Booting DEF ReadSnapshots, ReadSnapshotsCopy, IInv, HasRead, AfterProfiles, AfterPacks
<1>3. CASE ReadSnapshots
  <2> DEFINE pc == IF ReleaseOf[snapIndex[Latest]] # pin THEN "snapshotsCopy" ELSE "region"
  <2>1. reader' = [reader EXCEPT !.snapshots = snapIndex[Latest], !.pc = pc]
    BY <1>3 DEF ReadSnapshots, Mispaired
  <2>2. snapIndex[Latest] \in Trees /\ snapIndex[Latest] \in snapz
    BY Served
  <2>3. reader' \in Boots
    BY <1>2, <2>1, <2>2 DEF Boots
  <2>4. /\ reader'.pin = pin /\ reader'.lost = reader.lost /\ reader'.deploys = reader.deploys /\ reader'.index = reader.index
        /\ reader'.runtime = reader.runtime /\ reader'.packs = reader.packs
        /\ reader'.snapshots = snapIndex[Latest] /\ reader'.pc = pc
    BY <1>2, <2>1 DEF Boots
  <2>5. HasRead' /\ ReaderIsPaired'
    BY <1>1, <1>2, <2>2, <2>4, IndexOfPin DEF HasRead, ReaderIsPaired, AfterProfiles, AfterPacks, AfterSnapshots
  <2> QED BY <1>1, <2>3, <2>5, ReaderIInv
<1>4. CASE ReadSnapshotsCopy
  <2>0. reader.snapshots \in snapz
    BY <1>4 DEF ReadSnapshotsCopy, IInv, HasRead
  <2>1. /\ snapIndex[pin] # None /\ ReleaseOf[snapIndex[pin]] = pin /\ snapIndex[pin] \in Trees /\ snapIndex[pin] \in snapz
    BY <1>2, <1>4, IndexOfPin DEF ReadSnapshotsCopy
  <2>2. \/ reader' = [reader EXCEPT !.pc = "region", !.snapshots = snapIndex[pin]]
        \/ reader' = [reader EXCEPT !.pc = "region", !.lost = TRUE]
    BY <1>4, <2>1 DEF ReadSnapshotsCopy, PairedCopyOr, Mispaired
  <2>3. reader' \in Boots
    BY <1>2, <2>1, <2>2 DEF Boots
  <2>4. /\ reader'.pin = pin /\ reader'.deploys = reader.deploys /\ reader'.pc = "region" /\ reader'.index = reader.index
        /\ reader'.runtime = reader.runtime /\ reader'.packs = reader.packs
        /\ \/ reader'.lost = reader.lost /\ reader'.snapshots = snapIndex[pin]
           \/ reader'.lost /\ reader'.snapshots = reader.snapshots
    BY <1>2, <2>2 DEF Boots
  <2>5. HasRead' /\ ReaderIsPaired'
    BY <1>1, <1>2, <2>0, <2>1, <2>4 DEF HasRead, ReaderIsPaired, AfterProfiles, AfterPacks, AfterSnapshots
  <2> QED BY <1>1, <2>3, <2>5, ReaderIInv
<1> QED BY <1>3, <1>4

(* A snapshot the boot asks for is there, and it asks only for a paired one. *)
LEMMA LoadRegionIInv == ASSUME IInv, LoadRegion PROVE IInv'
<1> DEFINE unpaired == ReleaseOf[reader.snapshots] # reader.runtime
           pc == IF unpaired THEN "unpaired" ELSE IF reader.snapshots \notin snapz THEN "missing" ELSE "booted"
<1>1. Only /\ UNCHANGED <<profIndex, snapIndex, snapz, deployed, uploaded>>
  BY DEF LoadRegion, Only, bucket, site
<1>2. /\ reader \in Boots /\ reader.pin \in uploaded /\ reader.pc = "region"
      /\ (~reader.deploys => deployed = reader.pin /\ reader.runtime = reader.pin)
      /\ ~reader.lost => /\ reader.index = Profiles(reader.pin) /\ reader.packs = PacksOf[reader.pin]
                         /\ ReleaseOf[reader.snapshots] = reader.pin
      /\ reader.snapshots \in snapz
  BY Booting DEF LoadRegion, IInv, HasRead, AfterProfiles, AfterPacks, AfterSnapshots
<1>3. reader' = [reader EXCEPT !.pc = pc]
  BY DEF LoadRegion, Ends, Unpaired, InBucket
<1>4. reader' \in Boots
  BY <1>2, <1>3 DEF Boots
<1>5. /\ reader'.pin = reader.pin /\ reader'.deploys = reader.deploys /\ reader'.lost = reader.lost /\ reader'.index = reader.index
      /\ reader'.runtime = reader.runtime /\ reader'.packs = reader.packs /\ reader'.snapshots = reader.snapshots
      /\ reader'.pc = IF unpaired THEN "unpaired" ELSE "booted"
  BY <1>2, <1>3 DEF Boots
<1>6. HasRead' /\ ReaderIsPaired'
  BY <1>1, <1>2, <1>5 DEF HasRead, ReaderIsPaired, AfterProfiles, AfterPacks, AfterSnapshots
<1> QED BY <1>1, <1>4, <1>6, ReaderIInv

(* Every step of the site and of a boot keeps the invariant.               *)
LEMMA NextIInv == IInv /\ [Next]_vars => IInv'
<1> SUFFICES ASSUME IInv, [Next]_vars PROVE IInv'
  OBVIOUS
<1>1. CASE UNCHANGED vars
  <2>1. UNCHANGED <<pub, baked, record, job, snapz, snapIndex, profIndex, deployed, uploaded, back, reader>>
    BY <1>1 DEF vars, local, bucket, site
  <2>2. TypeOK'
    BY <2>1 DEF IInv, TypeOK
  <2>3. NothingDangles' /\ SnapshotsFirst' /\ CopiesFirst'
    BY <2>1 DEF IInv, NothingDangles, SnapshotsFirst, CopiesFirst, Pending
  <2>4. EndsWithLatest' /\ SwitchOrder' /\ UploadedIsNamed'
    BY <2>1 DEF IInv, EndsWithLatest, SwitchOrder, Pending, UploadedIsNamed
  <2>5. HasRead' /\ ReaderIsPaired'
    BY <2>1 DEF IInv, HasRead, ReaderIsPaired, AfterProfiles, AfterPacks, AfterSnapshots
  <2> QED BY <2>2, <2>3, <2>4, <2>5 DEF IInv
<1>2. CASE Next
  BY <1>2, PromoteIInv, SwitchIInv, StopIInv, UploadIInv, PutSnapshotIInv, PutIndexIInv, DeployIInv, OpenIInv,
     ReadProfilesIInv, RoutedIInv, ReadSnapshotsIInv, LoadRegionIInv DEF Next
<1> QED BY <1>1, <1>2

(* The inductive invariant holds throughout.                               *)
THEOREM ReleaseInvariant == Spec => []IInv
BY InitIInv, NextIInv, PTL DEF Spec

(* The state of the site and of a boot keeps to its types.                 *)
THEOREM ReleaseTypeOK == Spec => []TypeOK
<1>1. IInv => TypeOK  BY DEF IInv
<1> QED BY <1>1, ReleaseInvariant, PTL

(* Whatever stops an upload, every index in the bucket names snapshots     *)
(* that are there, a copy is its own runtime's, and a profile index        *)
(* describes the packs of its runtime.                                     *)
THEOREM IndexesNeverDangle == Spec => []NothingDangles
<1>1. IInv => NothingDangles  BY DEF IInv
<1> QED BY <1>1, ReleaseInvariant, PTL

(* A boot whose copies could be read, and under which nothing was deployed, *)
(* is paired; and one that ends well runs its own packs.                   *)
THEOREM BootsArePaired == Spec => []ReaderIsPaired
<1>1. IInv => ReaderIsPaired  BY DEF IInv
<1> QED BY <1>1, ReleaseInvariant, PTL

(* A promotion switches the runtime after its snapshots and packs, and the *)
(* profile index after the runtime.                                        *)
THEOREM PromotionsCommitLast == Spec => RootsSwitchLast
<1> DEFINE Last == job # <<>> =>
       /\ pub.runtime # pub'.runtime =>
            (ReleaseOf[pub.snapshots] = pub'.runtime /\ pub.packs = PacksOf[pub'.runtime])
       /\ pub.profiles.runtime # pub'.profiles.runtime => pub.runtime = pub'.profiles.runtime
<1>1. ASSUME IInv, [Next]_vars PROVE [Last]_vars
  <2>1. CASE pub' = pub
    BY <2>1
  <2>2. CASE Switch
    <3> DEFINE w == job[1]
    <3>1. /\ job # <<>> /\ Head(job) = w /\ 1 \in 1..Len(job) /\ w \in Writes /\ Before(1) = {}
      BY <1>1, <2>2, JobTypes DEF Switch, IInv, Before
    <3>2. w[1] \in {"packs", "snapshots", "runtime", "profiles"} /\ pub' = [pub EXCEPT ![w[1]] = w[2]]
      BY <1>1, <2>2, <3>1 DEF Switch, IInv, TypeOK, Roots
    <3>3. /\ w[1] = "runtime" => ReleaseOf[pub.snapshots] = w[2] /\ pub.packs = PacksOf[w[2]]
          /\ w[1] = "profiles" => pub.runtime = w[2].runtime
      BY <1>1, <3>1 DEF IInv, SwitchOrder
    <3>4. /\ pub'.runtime = (IF w[1] = "runtime" THEN w[2] ELSE pub.runtime)
          /\ pub'.profiles = (IF w[1] = "profiles" THEN w[2] ELSE pub.profiles)
      BY <1>1, <3>1, <3>2, WriteTypes DEF IInv, TypeOK, Roots
    <3> QED BY <3>3, <3>4
  <2>3. CASE Revert
    BY <2>3 DEF Revert
  <2> QED BY <1>1, <2>1, <2>2, <2>3 DEF Next, vars, local, Promote, Land, Upload, PutSnapshot, PutIndex, Stop, Deploy,
             Open, ReadProfiles, ReadProfilesCopy, ReadRuntime, InstallPacks, ReadSnapshots, ReadSnapshotsCopy, LoadRegion, Leave, Only
<1> QED BY <1>1, ReleaseInvariant, PTL DEF Spec, RootsSwitchLast

-----------------------------------------------------------------------------
(* The Worker's answers (EdgeWorker.tla), for every configuration, request  *)
(* and bucket.                                                              *)
Sized(b) == \A k \in DOMAIN b : b[k].size \in Nat
Absent        == ""   \* a header, or an option, left out
AHeader(h)    == h.first \in Nat \cup {-1} /\ h.last \in Nat \cup {-1}
PartsOf(ranges, object) == UNION {resolveRange(r, object.size) : r \in ranges}
TheKeys(cfg, path) == {keysFor(cfg, path)[i] : i \in DOMAIN keysFor(cfg, path)}

(* The lesser of two numbers.                                               *)
LEMMA LesserOf == ASSUME NEW x \in Int, NEW y \in Int PROVE Min({x, y}) = IF x <= y THEN x ELSE y
<1> DEFINE z == Min({x, y})
<1>1. \E u \in {x, y} : \A v \in {x, y} : u <= v
  OBVIOUS
<1>2. z \in {x, y} /\ \A v \in {x, y} : z <= v
  BY <1>1, Zenon DEF Min
<1>3. z = x \/ z = y
  BY <1>2
<1>4. z <= x /\ z <= y
  BY <1>2
<1> QED BY <1>3, <1>4

(* What a range header resolves to is bytes the object has, of those it     *)
(* asks for.                                                                *)
LEMMA ResolvedIs ==
  ASSUME NEW h, AHeader(h), NEW r \in parseRange(h), NEW size \in Nat, NEW s \in resolveRange(r, size)
  PROVE  /\ s = [offset |-> s.offset, length |-> s.length]
         /\ s.offset \in Nat /\ s.length \in Nat /\ s.length > 0 /\ s.offset + s.length <= size
         /\ IF suffix(r) THEN s.offset + s.length = size /\ s.length <= r.last
            ELSE s.offset = r.first /\ (r.last >= 0 => s.offset + s.length <= r.last + 1)
<1>1. /\ r = [first |-> r.first, last |-> r.last] /\ r # NoRange
      /\ r.first \in Nat \cup {-1} /\ r.last \in Nat \cup {-1}
      /\ r.first >= 0 /\ r.last >= 0 => r.first <= r.last
  BY DEF parseRange, AHeader
<1>2. r.first = -1 => r.last # -1
  BY <1>1 DEF NoRange
<1>3. CASE suffix(r)
  <2>1. r.first = -1 /\ r.last \in Nat
    BY <1>1, <1>2, <1>3 DEF suffix
  <2>2. Min({r.last, size}) = IF r.last <= size THEN r.last ELSE size
    BY <2>1, LesserOf
  <2>3. s = [offset |-> size - Min({r.last, size}), length |-> Min({r.last, size})] /\ s.length > 0
    BY <1>3 DEF resolveRange
  <2> QED BY <1>3, <2>1, <2>2, <2>3
<1>4. CASE ~suffix(r)
  <2>1. r.first \in Nat
    BY <1>1, <1>4 DEF suffix
  <2> DEFINE end == IF r.last < 0 THEN size - 1 ELSE Min({r.last, size - 1})
  <2>2. s = [offset |-> r.first, length |-> end - r.first + 1] /\ r.first < size
    BY <1>4 DEF resolveRange
  <2>3. r.last >= 0 => Min({r.last, size - 1}) = IF r.last <= size - 1 THEN r.last ELSE size - 1
    BY <1>1, LesserOf
  <2>4. end \in Int /\ end <= size - 1 /\ (r.last >= 0 => end <= r.last) /\ r.first <= end
    BY <1>1, <2>1, <2>2, <2>3
  <2> HIDE DEF end
  <2> QED BY <1>1, <1>4, <2>1, <2>2, <2>4
<1> QED BY <1>3, <1>4

(* The Worker reads back the range R2 served from each form it is said in.  *)
LEMMA ReportedIs ==
  ASSUME NEW o \in Nat, NEW l \in Nat, NEW size \in Nat, o + l <= size,
         NEW x \in reported([offset |-> o, length |-> l], size)
  PROVE  returnedRange(x, size) = [offset |-> o, length |-> l]
<1> DEFINE s == [offset |-> o, length |-> l]
<1>1. \/ x = [form |-> "both", offset |-> o, length |-> l, suffix |-> 0]
      \/ x = [form |-> "offset", offset |-> o, length |-> 0, suffix |-> 0] /\ o + l = size
      \/ x = [form |-> "length", offset |-> 0, length |-> l, suffix |-> 0] /\ o = 0
      \/ x = [form |-> "suffix", offset |-> 0, length |-> 0, suffix |-> l] /\ o + l = size
  BY DEF reported
<1>2. Min({l, size}) = l
  BY LesserOf
<1>3. size - l = o \/ o + l # size
  OBVIOUS
<1> QED BY <1>1, <1>2, <1>3 DEF returnedRange

(* At most one key answers a lookup, one of those asked, of the bucket.     *)
LEMMA LookedUp ==
  ASSUME NEW b, NEW cfg, NEW path, NEW k \in lookup(b, keysFor(cfg, path))
  PROVE  /\ k \in TheKeys(cfg, path) /\ k \in DOMAIN b
         /\ lookup(b, keysFor(cfg, path)) = {k}
<1> DEFINE keys == keysFor(cfg, path)
           first == {j \in DOMAIN keys : keys[j] \in DOMAIN b /\ \A l \in 1 .. j - 1 : keys[l] \notin DOMAIN b}
<1>1. DOMAIN keys \in {{}, {1}, {1, 2}}
  <2>1. keys = <<>> \/ (\E u : keys = <<u>>) \/ \E u, v : keys = <<u, v>>
    BY DEF keysFor
  <2> HIDE DEF keys
  <2>2. \A u : DOMAIN <<u>> = {1}
    OBVIOUS
  <2>3. \A u, v : DOMAIN <<u, v>> = {1, 2}
    OBVIOUS
  <2>4. DOMAIN <<>> = {}
    OBVIOUS
  <2> QED BY <2>1, <2>2, <2>3, <2>4
<1>2. lookup(b, keys) = {keys[i] : i \in first}
  BY DEF lookup
<1>3. PICK i \in first : k = keys[i]
  BY <1>2
<1>4. \A j \in first : j = i
  <2> HIDE DEF keys
  <2>1. \A j \in DOMAIN keys : j \in {1, 2}
    BY <1>1
  <2> QED BY <1>3, <2>1
<1>5. first = {i}
  BY <1>3, <1>4
<1> QED BY <1>2, <1>3, <1>5 DEF TheKeys

(* A lookup that no key answers: the bucket has none of them.               *)
LEMMA NoneFound ==
  ASSUME NEW b, NEW cfg, NEW path, lookup(b, keysFor(cfg, path)) = {}
  PROVE  TheKeys(cfg, path) \cap DOMAIN b = {}
<1> DEFINE keys == keysFor(cfg, path)
           first == {j \in DOMAIN keys : keys[j] \in DOMAIN b /\ \A l \in 1 .. j - 1 : keys[l] \notin DOMAIN b}
<1>1. first = {}
  BY DEF lookup
<1>2. keys = <<>> \/ (\E u : keys = <<u>>) \/ \E u, v : keys = <<u, v>>
  BY DEF keysFor
<1> HIDE DEF keys
<1>3. \A u, v : DOMAIN <<u>> = {1} /\ DOMAIN <<u, v>> = {1, 2}
  OBVIOUS
<1>4. \A j \in DOMAIN keys : j = 1 \/ (j = 2 /\ 1 \in DOMAIN keys)
  BY <1>2, <1>3
<1>5. 1 \in DOMAIN keys => keys[1] \notin DOMAIN b
  <2>1. 1 .. 1 - 1 = {}
    OBVIOUS
  <2> QED BY <1>1, <2>1
<1>6. 2 \in DOMAIN keys => keys[2] \notin DOMAIN b
  <2>1. \A l \in 1 .. 2 - 1 : l = 1
    OBVIOUS
  <2> QED BY <1>1, <1>4, <1>5, <2>1
<1>7. \A j \in DOMAIN keys : keys[j] \notin DOMAIN b
  BY <1>4, <1>5, <1>6
<1> QED BY <1>7 DEF TheKeys, keys

(* What the get that follows may answer.                                    *)
ServedAs(b, ranges, key, ok, miss, a) ==
  \/ key \notin DOMAIN b /\ a = miss
  \/ /\ key \in DOMAIN b /\ ranges # {} /\ a = Plain(500, "no-store")
     /\ PartsOf(ranges, b[key]) = {}
  \/ key \in DOMAIN b /\ a = Answer(200, b[key], Full(b[key]), Full(b[key]), ok)
  \/ /\ key \in DOMAIN b
     /\ \E r \in ranges : \E s \in resolveRange(r, b[key].size) : a = Answer(206, b[key], s, s, ok)

(* And it answers so.                                                       *)
LEMMA ServedIs ==
  ASSUME NEW b, Sized(b), NEW h, AHeader(h), NEW ranges \in SUBSET parseRange(h),
         NEW key, NEW ok, NEW miss, NEW a \in served(b, key, ranges, ok, miss)
  PROVE  ServedAs(b, ranges, key, ok, miss, a)
<1> USE DEF ServedAs
<1>1. CASE key \notin DOMAIN b
  BY <1>1 DEF served
<1>2. CASE key \in DOMAIN b
  <2> DEFINE object == b[key]
             parts == UNION {resolveRange(r, object.size) : r \in ranges}
  <2>1. object.size \in Nat
    BY <1>2 DEF Sized
  <2>2. CASE ranges = {}
    BY <1>2, <2>2 DEF served
  <2>3. CASE ranges # {} /\ parts = {}
    BY <1>2, <2>3 DEF served, PartsOf
  <2>4. CASE ranges # {} /\ parts # {}
    <3>1. PICK s \in parts, x \in UNION {reported(p, object.size) : p \in parts} :
            a = Answer(206, object, s, returnedRange(x, object.size), ok)
      BY <1>2, <2>4 DEF served
    <3>2. PICK r \in ranges : s \in resolveRange(r, object.size)
      BY <3>1
    <3>3. PICK p \in parts : x \in reported(p, object.size)
      BY <3>1
    <3>4. PICK q \in ranges : p \in resolveRange(q, object.size)
      BY <3>3
    <3>5. q = r
      BY DEF parseRange
    <3>6. p = s
      BY <3>2, <3>4, <3>5 DEF resolveRange
    <3>7. /\ s = [offset |-> s.offset, length |-> s.length]
          /\ s.offset \in Nat /\ s.length \in Nat /\ s.offset + s.length <= object.size
      BY <2>1, <3>2, ResolvedIs
    <3>8. returnedRange(x, object.size) = s
      <4>1. x \in reported([offset |-> s.offset, length |-> s.length], object.size)
        BY <3>3, <3>6, <3>7
      <4> QED BY <2>1, <3>7, <4>1, ReportedIs
    <3> QED BY <1>2, <3>1, <3>2, <3>8
  <2> QED BY <2>2, <2>3, <2>4
<1> QED BY <1>1, <1>2

(* What the Worker may answer, and when.                                    *)
Forced(cfg, path) == IF releaseRel(cfg, path) THEN "no-store" ELSE Absent
Ok(cfg, path)     == cacheControl(path, 200, Absent, cfg.errorCacheControl)
ErrorAnswer(cfg, path, status, forced) == Plain(status, cacheControl(path, status, forced, cfg.errorCacheControl))

NotFound(cfg, rq, b1, b2, a) ==
  /\ a = ErrorAnswer(cfg, rq.path, 404, Forced(cfg, rq.path))
  /\ LET keys == keysFor(cfg, rq.path)
     IN  \/ keys = <<>> \/ lookup(b1, keys) = {} \/ lookup(b2, keys) = {}
         \/ \E k \in lookup(b1, keys) \cup lookup(b2, keys) : k \notin DOMAIN b2
Refused(cfg, rq, a) == a = ErrorAnswer(cfg, rq.path, 405, Forced(cfg, rq.path))
Unfit(cfg, rq, b1, a) ==
  /\ a = ErrorAnswer(cfg, rq.path, 416, "no-store")
  /\ \E k \in lookup(b1, keysFor(cfg, rq.path)) : \E r \in parseRange(rq.range) : resolveRange(r, b1[k].size) = {}
Overtaken(cfg, rq, b1, b2, a) ==
  /\ a = Plain(500, "no-store")
  /\ \E k \in lookup(b1, keysFor(cfg, rq.path)) :
       /\ k \in DOMAIN b2
       /\ \E ranges \in SUBSET parseRange(rq.range) : PartsOf(ranges, b1[k]) # {} /\ PartsOf(ranges, b2[k]) = {}
Whole(cfg, rq, b1, b2, a) ==
  \E k \in lookup(b1, keysFor(cfg, rq.path)) \cup lookup(b2, keysFor(cfg, rq.path)) :
    /\ k \in DOMAIN b2
    /\ a = Answer(200, b2[k], Full(b2[k]), Full(b2[k]), Ok(cfg, rq.path))
Facts(cfg, rq, b2, a) ==
  /\ rq.method = "HEAD" /\ cfg.artifactHead = "metadata"
  /\ \E k \in lookup(b2, keysFor(cfg, rq.path)) : a = Answer(200, b2[k], Nothing, Full(b2[k]), Ok(cfg, rq.path))
Part(cfg, rq, b1, b2, a) ==
  /\ rq.method = "GET" /\ cfg.ranges
  /\ \E k \in lookup(b1, keysFor(cfg, rq.path)), r \in parseRange(rq.range) :
       /\ k \in DOMAIN b2 /\ rq.ifRange \in {Absent, b1[k].etag}
       /\ \E s \in resolveRange(r, b2[k].size) : a = Answer(206, b2[k], s, s, Ok(cfg, rq.path))

(* The Worker answers one of these.                                         *)
LEMMA Outcomes ==
  ASSUME NEW cfg, NEW rq, AHeader(rq.range), NEW b1, NEW b2, Sized(b2), NEW a \in serveArtifact(cfg, rq, b1, b2)
  PROVE  \/ NotFound(cfg, rq, b1, b2, a) \/ Refused(cfg, rq, a) \/ Unfit(cfg, rq, b1, a)
         \/ Overtaken(cfg, rq, b1, b2, a) \/ Whole(cfg, rq, b1, b2, a) \/ Facts(cfg, rq, b2, a)
         \/ Part(cfg, rq, b1, b2, a)
<1> DEFINE path == rq.path
           keys == keysFor(cfg, path)
           miss == ErrorAnswer(cfg, path, 404, Forced(cfg, path))
           spec == IF cfg.ranges /\ rq.method = "GET" THEN parseRange(rq.range) ELSE {}
           found == lookup(b1, keys)
           key == CHOOSE k \in found : TRUE
           meta == b1[key]
           kept == {r \in spec : rq.ifRange \in {"", meta.etag}}
           only == lookup(b2, keys)
           one == CHOOSE k \in only : TRUE
<1>1. CASE keys = <<>>
  <2>1. a = miss
    BY <1>1, ZenonT(60) DEF serveArtifact, Absent, Forced, ErrorAnswer
  <2> QED BY <1>1, <2>1 DEF NotFound
<1>2. CASE keys # <<>> /\ rq.method \notin cfg.artifactMethods
  <2>1. a = ErrorAnswer(cfg, path, 405, Forced(cfg, path))
    BY <1>2, ZenonT(60) DEF serveArtifact, Absent, Forced, ErrorAnswer
  <2> QED BY <2>1 DEF Refused
<1>3. CASE keys # <<>> /\ rq.method \in cfg.artifactMethods /\ spec # {}
  <2>1. spec = parseRange(rq.range) /\ rq.method = "GET" /\ cfg.ranges
    BY <1>3
  <2>2. CASE found = {}
    <3>1. a = miss
      BY <1>3, <2>2, ZenonT(60) DEF serveArtifact, Absent, Forced, ErrorAnswer
    <3> QED BY <2>2, <3>1 DEF NotFound
  <2>3. CASE found # {} /\ kept # {} /\ PartsOf(kept, meta) = {}
    <3>1. a = ErrorAnswer(cfg, path, 416, "no-store")
      BY <1>3, <2>3, ZenonT(60) DEF serveArtifact, Absent, ErrorAnswer, PartsOf
    <3>2. key \in found
      BY <2>3
    <3>3. PICK r \in kept : resolveRange(r, meta.size) = {}
      <4> HIDE DEF kept, key, meta
      <4> QED BY <2>3 DEF PartsOf
    <3>4. r \in parseRange(rq.range)
      BY <2>1
    <3> QED BY <3>1, <3>2, <3>3, <3>4 DEF Unfit
  <2>4. CASE found # {} /\ ~(kept # {} /\ PartsOf(kept, meta) = {})
    <3>1. a \in served(b2, key, kept, Ok(cfg, path), miss)
      BY <1>3, <2>4, ZenonT(60) DEF serveArtifact, Absent, Forced, ErrorAnswer, Ok, PartsOf
    <3>2. key \in found
      BY <2>4
    <3>3. kept \in SUBSET parseRange(rq.range)
      BY <2>1
    <3>4. \/ key \notin DOMAIN b2 /\ a = miss
          \/ key \in DOMAIN b2 /\ kept # {} /\ a = Plain(500, "no-store") /\ PartsOf(kept, b2[key]) = {}
          \/ key \in DOMAIN b2 /\ a = Answer(200, b2[key], Full(b2[key]), Full(b2[key]), Ok(cfg, path))
          \/ key \in DOMAIN b2 /\ \E r \in kept : \E s \in resolveRange(r, b2[key].size) : a = Answer(206, b2[key], s, s, Ok(cfg, path))
      <4>1. ServedAs(b2, kept, key, Ok(cfg, path), miss, a)
        <5> HIDE DEF kept, key, miss
        <5> QED BY <3>1, <3>3, ServedIs
      <4> HIDE DEF kept, key, miss
      <4> QED BY <4>1 DEF ServedAs
    <3>5. CASE key \notin DOMAIN b2 /\ a = miss
      BY <3>2, <3>5 DEF NotFound
    <3>6. CASE key \in DOMAIN b2 /\ kept # {} /\ a = Plain(500, "no-store") /\ PartsOf(kept, b2[key]) = {}
      <4>1. PartsOf(kept, b1[key]) # {}
        BY <2>4, <3>6
      <4> HIDE DEF kept, key
      <4> QED BY <3>2, <3>3, <3>6, <4>1 DEF Overtaken
    <3>7. CASE key \in DOMAIN b2 /\ a = Answer(200, b2[key], Full(b2[key]), Full(b2[key]), Ok(cfg, path))
      <4> HIDE DEF key
      <4> QED BY <3>2, <3>7 DEF Whole
    <3>8. CASE key \in DOMAIN b2 /\ \E r \in kept : \E s \in resolveRange(r, b2[key].size) : a = Answer(206, b2[key], s, s, Ok(cfg, path))
      <4>1. PICK r \in kept : \E s \in resolveRange(r, b2[key].size) : a = Answer(206, b2[key], s, s, Ok(cfg, path))
        BY <3>8
      <4>2. r \in parseRange(rq.range) /\ rq.ifRange \in {Absent, b1[key].etag}
        BY <3>3 DEF Absent
      <4> HIDE DEF key, kept
      <4> QED BY <2>1, <3>2, <3>8, <4>1, <4>2 DEF Part
    <3> QED BY <3>4, <3>5, <3>6, <3>7, <3>8
  <2> QED BY <2>2, <2>3, <2>4
<1>4. CASE keys # <<>> /\ rq.method \in cfg.artifactMethods /\ spec = {}
  <2>1. CASE only = {}
    <3>1. a = miss
      BY <1>4, <2>1, ZenonT(60) DEF serveArtifact, Absent, Forced, ErrorAnswer
    <3> QED BY <2>1, <3>1 DEF NotFound
  <2>2. CASE only # {} /\ rq.method = "HEAD" /\ cfg.artifactHead = "metadata"
    <3>1. a \in {Answer(200, b2[k], Nothing, Full(b2[k]), Ok(cfg, path)) : k \in only}
      BY <1>4, <2>2, ZenonT(60) DEF serveArtifact, Absent, Ok
    <3> QED BY <2>2, <3>1 DEF Facts
  <2>3. CASE only # {} /\ ~(rq.method = "HEAD" /\ cfg.artifactHead = "metadata")
    <3>1. a \in served(b2, one, {}, Ok(cfg, path), miss)
      BY <1>4, <2>3, ZenonT(60) DEF serveArtifact, Absent, Forced, ErrorAnswer, Ok
    <3>2. one \in only
      BY <2>3
    <3>3. one \in DOMAIN b2
      BY <3>2, LookedUp
    <3>4. a = Answer(200, b2[one], Full(b2[one]), Full(b2[one]), Ok(cfg, path))
      <4>1. \A k \in DOMAIN b2 : \A ok, x : served(b2, k, {}, ok, x) = {Answer(200, b2[k], Full(b2[k]), Full(b2[k]), ok)}
        BY DEF served
      <4> HIDE DEF one, miss
      <4> QED BY <3>1, <3>3, <4>1
    <3> HIDE DEF one
    <3> QED BY <3>2, <3>3, <3>4 DEF Whole
  <2> QED BY <2>1, <2>2, <2>3
<1> QED BY <1>1, <1>2, <1>3, <1>4

(* What an error of a status says to caches.                                *)
Rule(cfg, rq, status, forced) == cacheControl(rq.path, status, forced, cfg.errorCacheControl)

(* An answer's status tells which of them it may be, and each its rule.     *)
LEMMA Statuses ==
  ASSUME NEW cfg, NEW rq, NEW b1, NEW b2, NEW a
  PROVE  /\ NotFound(cfg, rq, b1, b2, a) => a.status = 404 /\ a.cache = Rule(cfg, rq, 404, Forced(cfg, rq.path))
         /\ Refused(cfg, rq, a) => a.status = 405 /\ a.cache = Rule(cfg, rq, 405, Forced(cfg, rq.path))
         /\ Unfit(cfg, rq, b1, a) => a.status = 416 /\ a.cache = Rule(cfg, rq, 416, "no-store")
         /\ Overtaken(cfg, rq, b1, b2, a) => a.status = 500 /\ a.cache = "no-store"
         /\ Whole(cfg, rq, b1, b2, a) => a.status = 200 /\ a.cache = Ok(cfg, rq.path)
         /\ Facts(cfg, rq, b2, a) => a.status = 200 /\ a.cache = Ok(cfg, rq.path)
         /\ Part(cfg, rq, b1, b2, a) => a.status = 206 /\ a.cache = Ok(cfg, rq.path)
<1>1. \A status, cache : Plain(status, cache).status = status /\ Plain(status, cache).cache = cache
  BY DEF Plain, Answer
<1>2. \A status, forced : /\ ErrorAnswer(cfg, rq.path, status, forced).status = status
                          /\ ErrorAnswer(cfg, rq.path, status, forced).cache = Rule(cfg, rq, status, forced)
  BY <1>1 DEF ErrorAnswer, Rule
<1>3. \A status, object, part, said, cache : /\ Answer(status, object, part, said, cache).status = status
                                             /\ Answer(status, object, part, said, cache).cache = cache
  BY DEF Answer
<1>4. NotFound(cfg, rq, b1, b2, a) => a.status = 404 /\ a.cache = Rule(cfg, rq, 404, Forced(cfg, rq.path))
  <2>1. NotFound(cfg, rq, b1, b2, a) => a = ErrorAnswer(cfg, rq.path, 404, Forced(cfg, rq.path))
    BY DEF NotFound
  <2> QED BY <1>2, <2>1
<1>5. Refused(cfg, rq, a) => a.status = 405 /\ a.cache = Rule(cfg, rq, 405, Forced(cfg, rq.path))
  BY <1>2 DEF Refused
<1>6. Unfit(cfg, rq, b1, a) => a.status = 416 /\ a.cache = Rule(cfg, rq, 416, "no-store")
  BY <1>2 DEF Unfit
<1>7. Overtaken(cfg, rq, b1, b2, a) => a.status = 500 /\ a.cache = "no-store"
  BY <1>1 DEF Overtaken
<1>8. Whole(cfg, rq, b1, b2, a) => a.status = 200 /\ a.cache = Ok(cfg, rq.path)
  <2>1. SUFFICES ASSUME Whole(cfg, rq, b1, b2, a) PROVE a.status = 200 /\ a.cache = Ok(cfg, rq.path)
    OBVIOUS
  <2>2. PICK k : a = Answer(200, b2[k], Full(b2[k]), Full(b2[k]), Ok(cfg, rq.path))
    BY <2>1 DEF Whole
  <2> QED BY <2>2 DEF Answer
<1>9. Facts(cfg, rq, b2, a) => a.status = 200 /\ a.cache = Ok(cfg, rq.path)
  <2>1. SUFFICES ASSUME Facts(cfg, rq, b2, a) PROVE a.status = 200 /\ a.cache = Ok(cfg, rq.path)
    OBVIOUS
  <2>2. PICK k : a = Answer(200, b2[k], Nothing, Full(b2[k]), Ok(cfg, rq.path))
    BY <2>1 DEF Facts
  <2> QED BY <2>2 DEF Answer
<1>10. Part(cfg, rq, b1, b2, a) => a.status = 206 /\ a.cache = Ok(cfg, rq.path)
  <2>1. SUFFICES ASSUME Part(cfg, rq, b1, b2, a) PROVE a.status = 206 /\ a.cache = Ok(cfg, rq.path)
    OBVIOUS
  <2>2. PICK k, s : a = Answer(206, b2[k], s, s, Ok(cfg, rq.path))
    BY <2>1 DEF Part
  <2> QED BY <2>2 DEF Answer
<1> QED BY <1>4, <1>5, <1>6, <1>7, <1>8, <1>9, <1>10

(* An upload between the two reads of a ranged request never mixes two      *)
(* objects in one answer: its validator, its size and its bytes are those   *)
(* of one object the bucket held at the second read, under a key this path  *)
(* may be read from; a whole answer says the whole of it, a part says the   *)
(* bytes it holds, which are those the header asks for, as many as there    *)
(* are; and If-Range, when it was given, was the validator of the object    *)
(* then under the same key (serveArtifact).                                 *)
THEOREM AnAnswerIsOneObject ==
  ASSUME NEW cfg, NEW rq, AHeader(rq.range), NEW b1, NEW b2, Sized(b2),
         NEW a \in serveArtifact(cfg, rq, b1, b2), a.status < 400
  PROVE  \E k \in TheKeys(cfg, rq.path) \cap DOMAIN b2 :
           /\ a.etag = b2[k].etag /\ a.size = b2[k].size
           /\ a.status = 200 => /\ a.said = Full(b2[k])
                                /\ a.part # a.said => a.part = Nothing /\ rq.method = "HEAD"
           /\ a.status # 200 => a.status = 206 /\ rq.method = "GET" /\ a.said = a.part
           /\ a.status = 206 =>
                /\ a.part.length > 0 /\ a.part.offset \in Nat /\ a.part.offset + a.part.length <= a.size
                /\ \E r \in parseRange(rq.range) :
                     IF suffix(r) THEN a.part.offset + a.part.length = a.size /\ a.part.length <= r.last
                     ELSE a.part.offset = r.first /\ (r.last >= 0 => a.part.offset + a.part.length <= r.last + 1)
                /\ rq.ifRange # Absent => k \in DOMAIN b1 /\ rq.ifRange = b1[k].etag
<1>1. a.status # 404 /\ a.status # 405 /\ a.status # 416 /\ a.status # 500
  OBVIOUS
<1>2. Whole(cfg, rq, b1, b2, a) \/ Facts(cfg, rq, b2, a) \/ Part(cfg, rq, b1, b2, a)
  BY <1>1, Outcomes, Statuses
<1>3. CASE Whole(cfg, rq, b1, b2, a)
  <2>1. PICK k \in lookup(b1, keysFor(cfg, rq.path)) \cup lookup(b2, keysFor(cfg, rq.path)) :
          k \in DOMAIN b2 /\ a = Answer(200, b2[k], Full(b2[k]), Full(b2[k]), Ok(cfg, rq.path))
    BY <1>3 DEF Whole
  <2>2. k \in TheKeys(cfg, rq.path)
    BY LookedUp
  <2> QED BY <2>1, <2>2 DEF Answer
<1>4. CASE Facts(cfg, rq, b2, a)
  <2>1. PICK k \in lookup(b2, keysFor(cfg, rq.path)) : a = Answer(200, b2[k], Nothing, Full(b2[k]), Ok(cfg, rq.path))
    BY <1>4 DEF Facts
  <2>2. k \in TheKeys(cfg, rq.path) /\ k \in DOMAIN b2
    BY LookedUp
  <2> QED BY <1>4, <2>1, <2>2 DEF Answer, Facts
<1>5. CASE Part(cfg, rq, b1, b2, a)
  <2>1. PICK k \in lookup(b1, keysFor(cfg, rq.path)), r \in parseRange(rq.range) :
          /\ k \in DOMAIN b2 /\ rq.ifRange \in {Absent, b1[k].etag}
          /\ \E s \in resolveRange(r, b2[k].size) : a = Answer(206, b2[k], s, s, Ok(cfg, rq.path))
    BY <1>5 DEF Part
  <2>2. PICK s \in resolveRange(r, b2[k].size) : a = Answer(206, b2[k], s, s, Ok(cfg, rq.path))
    BY <2>1
  <2>3. k \in TheKeys(cfg, rq.path) /\ k \in DOMAIN b1
    BY LookedUp
  <2>4. b2[k].size \in Nat
    BY <2>1 DEF Sized
  <2>5. /\ s.offset \in Nat /\ s.length > 0 /\ s.offset + s.length <= b2[k].size
        /\ IF suffix(r) THEN s.offset + s.length = b2[k].size /\ s.length <= r.last
           ELSE s.offset = r.first /\ (r.last >= 0 => s.offset + s.length <= r.last + 1)
    BY <2>4, ResolvedIs
  <2>6. a.status = 206 /\ a.etag = b2[k].etag /\ a.size = b2[k].size /\ a.part = s /\ a.said = s
    BY <2>2 DEF Answer
  <2>7. rq.method = "GET"
    BY <1>5 DEF Part
  <2>8. rq.ifRange # Absent => k \in DOMAIN b1 /\ rq.ifRange = b1[k].etag
    BY <2>1, <2>3
  <2>9. \E q \in parseRange(rq.range) :
          IF suffix(q) THEN a.part.offset + a.part.length = a.size /\ a.part.length <= q.last
          ELSE a.part.offset = q.first /\ (q.last >= 0 => a.part.offset + a.part.length <= q.last + 1)
    BY <2>5, <2>6
  <2>10. k \in TheKeys(cfg, rq.path) \cap DOMAIN b2 /\ a.status # 200
    BY <2>1, <2>3, <2>6
  <2>11. a.part.length > 0 /\ a.part.offset \in Nat /\ a.part.offset + a.part.length <= a.size
    BY <2>5, <2>6
  <2> QED BY <2>6, <2>7, <2>8, <2>9, <2>10, <2>11
<1> QED BY <1>2, <1>3, <1>4, <1>5

(* A refusal says what is so: 416 that the range does not fit the object    *)
(* looked up; 404, when nothing was uploaded in between, that no key of the *)
(* path is in the bucket; and no answer is 500 but when an upload came      *)
(* between the reads and changed the object's size (serveArtifact).         *)
THEOREM ErrorsAreTrue ==
  ASSUME NEW cfg, NEW rq, AHeader(rq.range), NEW b1, Sized(b1), NEW b2, Sized(b2),
         NEW a \in serveArtifact(cfg, rq, b1, b2)
  PROVE  /\ a.status = 416 => \E k \in TheKeys(cfg, rq.path) \cap DOMAIN b1, r \in parseRange(rq.range) :
                                resolveRange(r, b1[k].size) = {}
         /\ a.status = 404 /\ b1 = b2 => TheKeys(cfg, rq.path) \cap DOMAIN b1 = {}
         /\ a.status = 500 => \E k \in DOMAIN b1 \cap DOMAIN b2 : b1[k].size # b2[k].size
<1>1. ASSUME a.status = 416
      PROVE  \E k \in TheKeys(cfg, rq.path) \cap DOMAIN b1, r \in parseRange(rq.range) : resolveRange(r, b1[k].size) = {}
  <2>1. Unfit(cfg, rq, b1, a)
    <3>1. \/ NotFound(cfg, rq, b1, b2, a) \/ Refused(cfg, rq, a) \/ Unfit(cfg, rq, b1, a)
          \/ Overtaken(cfg, rq, b1, b2, a) \/ Whole(cfg, rq, b1, b2, a) \/ Facts(cfg, rq, b2, a)
          \/ Part(cfg, rq, b1, b2, a)
      BY Outcomes
    <3>2. /\ NotFound(cfg, rq, b1, b2, a) => a.status = 404
          /\ Refused(cfg, rq, a) => a.status = 405
          /\ Overtaken(cfg, rq, b1, b2, a) => a.status = 500
          /\ Whole(cfg, rq, b1, b2, a) \/ Facts(cfg, rq, b2, a) => a.status = 200
          /\ Part(cfg, rq, b1, b2, a) => a.status = 206
      BY Statuses
    <3> QED BY <1>1, <3>1, <3>2
  <2> QED BY <2>1, LookedUp DEF Unfit
<1>2. ASSUME a.status = 404, b1 = b2
      PROVE  TheKeys(cfg, rq.path) \cap DOMAIN b1 = {}
  <2>1. NotFound(cfg, rq, b1, b2, a)
    BY <1>2, Outcomes, Statuses
  <2>2. CASE keysFor(cfg, rq.path) = <<>>
    BY <2>2 DEF TheKeys
  <2>3. CASE lookup(b1, keysFor(cfg, rq.path)) = {}
    BY <2>3, NoneFound
  <2>4. \A k \in lookup(b1, keysFor(cfg, rq.path)) : k \in DOMAIN b1
    BY LookedUp
  <2> QED BY <1>2, <2>1, <2>2, <2>3, <2>4 DEF NotFound
<1>3. ASSUME a.status = 500
      PROVE  \E k \in DOMAIN b1 \cap DOMAIN b2 : b1[k].size # b2[k].size
  <2>1. Overtaken(cfg, rq, b1, b2, a)
    BY <1>3, Outcomes, Statuses
  <2>2. PICK k \in lookup(b1, keysFor(cfg, rq.path)) :
          /\ k \in DOMAIN b2
          /\ \E ranges \in SUBSET parseRange(rq.range) : PartsOf(ranges, b1[k]) # {} /\ PartsOf(ranges, b2[k]) = {}
    BY <2>1 DEF Overtaken
  <2>3. k \in DOMAIN b1
    BY LookedUp
  <2>4. b1[k].size # b2[k].size
    BY <2>2 DEF PartsOf
  <2> QED BY <2>2, <2>3, <2>4
<1> QED BY <1>1, <1>2, <1>3

(* No error outlives its cause in a cache, with the hardened options        *)
(* anywhere and under any options on a path of the release; and only a      *)
(* digest-named file that is no manifest is kept for good (cacheControl).   *)
THEOREM ErrorsAreNotKept ==
  ASSUME NEW cfg, cfg.errorCacheControl \in {Absent, "no-store"}, NEW rq, AHeader(rq.range), NEW b1, NEW b2, Sized(b2),
         NEW a \in serveArtifact(cfg, rq, b1, b2)
  PROVE  /\ a.status >= 400 /\ (cfg.errorCacheControl # Absent \/ releaseRel(cfg, rq.path)) => a.cache = "no-store"
         /\ a.cache = "immutable" => rq.path.digestNamed /\ ~rq.path.manifest
<1>1. \A status, forced : status >= 400 /\ (forced # Absent \/ cfg.errorCacheControl # Absent) =>
        Rule(cfg, rq, status, forced) = IF forced # Absent THEN forced ELSE cfg.errorCacheControl
  BY DEF Rule, cacheControl, Absent
<1>2. \A status, forced : Rule(cfg, rq, status, forced) = "immutable" /\ forced # "immutable" =>
        rq.path.digestNamed /\ ~rq.path.manifest
  BY DEF Rule, cacheControl, Absent, isImmutable
<1>3. Ok(cfg, rq.path) = "immutable" => rq.path.digestNamed /\ ~rq.path.manifest
  BY DEF Ok, cacheControl, Absent, isImmutable
<1>4. Forced(cfg, rq.path) \in {Absent, "no-store"} /\ (releaseRel(cfg, rq.path) => Forced(cfg, rq.path) = "no-store")
  BY DEF Forced, Absent
<1>5. ASSUME NEW status \in {404, 405}, a.status = status, a.cache = Rule(cfg, rq, status, Forced(cfg, rq.path))
      PROVE  /\ cfg.errorCacheControl # Absent \/ releaseRel(cfg, rq.path) => a.cache = "no-store"
             /\ a.cache = "immutable" => rq.path.digestNamed /\ ~rq.path.manifest
  <2>1. status >= 400
    BY <1>5
  <2>2. Forced(cfg, rq.path) # "immutable" /\ Absent # "no-store"
    BY <1>4, Zenon DEF Absent
  <2> QED BY <1>1, <1>2, <1>4, <1>5, <2>1, <2>2
<1>6. CASE NotFound(cfg, rq, b1, b2, a) \/ Refused(cfg, rq, a)
  BY <1>5, <1>6, Statuses
<1>7. CASE Unfit(cfg, rq, b1, a) \/ Overtaken(cfg, rq, b1, b2, a)
  <2>1. Rule(cfg, rq, 416, "no-store") = "no-store"
    BY DEF Rule, cacheControl, Absent
  <2>2. a.cache = "no-store"
    BY <1>7, <2>1, Statuses
  <2> QED BY <2>2
<1>8. CASE Whole(cfg, rq, b1, b2, a) \/ Facts(cfg, rq, b2, a) \/ Part(cfg, rq, b1, b2, a)
  <2>1. a.status \in {200, 206} /\ a.cache = Ok(cfg, rq.path)
    BY <1>8, Statuses
  <2>2. ~(a.status >= 400)
    BY <2>1
  <2> QED BY <1>3, <2>1, <2>2
<1> QED BY <1>6, <1>7, <1>8, Outcomes

PlainAnswers(cfg, rq, path, b) ==
  LET keys == keysFor(cfg, path)
      only == lookup(b, keys)
      miss == ErrorAnswer(cfg, path, 404, Forced(cfg, path))
  IN  IF keys = <<>> \/ only = {} THEN {miss}
      ELSE IF rq.method = "HEAD" /\ cfg.artifactHead = "metadata"
           THEN {Answer(200, b[k], Nothing, Full(b[k]), Ok(cfg, path)) : k \in only}
           ELSE served(b, CHOOSE k \in only : TRUE, {}, Ok(cfg, path), miss)

(* Where no range is asked for, only the second bucket is read.             *)
LEMMA PlainRead ==
  ASSUME NEW cfg, NEW rq, rq.method \in cfg.artifactMethods, rq.method = "GET" => parseRange(rq.range) = {}, NEW b1, NEW b2
  PROVE  serveArtifact(cfg, rq, b1, b2) = PlainAnswers(cfg, rq, rq.path, b2)
<1> DEFINE path == rq.path
           keys == keysFor(cfg, path)
           spec == IF cfg.ranges /\ rq.method = "GET" THEN parseRange(rq.range) ELSE {}
           only == lookup(b2, keys)
           miss == ErrorAnswer(cfg, path, 404, Forced(cfg, path))
<1>1. spec = {} /\ rq.method \in cfg.artifactMethods
  OBVIOUS
<1>2. CASE keys = <<>>
  <2>1. serveArtifact(cfg, rq, b1, b2) = {miss}
    BY <1>2, ZenonT(60) DEF serveArtifact, Absent, Forced, ErrorAnswer
  <2> QED BY <1>2, <2>1 DEF PlainAnswers
<1>3. CASE keys # <<>> /\ only = {}
  <2>1. serveArtifact(cfg, rq, b1, b2) = {miss}
    BY <1>1, <1>3, ZenonT(60) DEF serveArtifact, Absent, Forced, ErrorAnswer
  <2> QED BY <1>3, <2>1 DEF PlainAnswers
<1>4. CASE keys # <<>> /\ only # {} /\ rq.method = "HEAD" /\ cfg.artifactHead = "metadata"
  <2>1. serveArtifact(cfg, rq, b1, b2) = {Answer(200, b2[k], Nothing, Full(b2[k]), Ok(cfg, path)) : k \in only}
    BY <1>1, <1>4, ZenonT(60) DEF serveArtifact, Absent, Ok
  <2> QED BY <1>4, <2>1 DEF PlainAnswers
<1>5. CASE keys # <<>> /\ only # {} /\ ~(rq.method = "HEAD" /\ cfg.artifactHead = "metadata")
  <2>1. serveArtifact(cfg, rq, b1, b2) = served(b2, CHOOSE k \in only : TRUE, {}, Ok(cfg, path), miss)
    BY <1>1, <1>5, ZenonT(60) DEF serveArtifact, Absent, Forced, ErrorAnswer, Ok
  <2> QED BY <1>5, <2>1 DEF PlainAnswers
<1> QED BY <1>2, <1>3, <1>4, <1>5

(* HEAD says the status, the validator, the length and the cache rule that  *)
(* GET without a range says of the same bucket (serveArtifact).             *)
THEOREM HeadIsOfTheGet ==
  ASSUME NEW cfg, {"HEAD", "GET"} \subseteq cfg.artifactMethods, NEW head, NEW get, NEW b1, NEW b2, NEW b3,
         head.method = "HEAD", get.method = "GET", head.path = get.path, parseRange(get.range) = {}
  PROVE  LET about(rq, b) == {<<a.status, a.etag, a.size, a.said, a.cache>> : a \in serveArtifact(cfg, rq, b, b3)}
         IN  about(head, b1) = about(get, b2)
<1> DEFINE path == get.path
           keys == keysFor(cfg, path)
           miss == ErrorAnswer(cfg, path, 404, Forced(cfg, path))
           only == lookup(b3, keys)
           one == CHOOSE k \in only : TRUE
           whole(k) == Answer(200, b3[k], Full(b3[k]), Full(b3[k]), Ok(cfg, path))
           facts(k) == Answer(200, b3[k], Nothing, Full(b3[k]), Ok(cfg, path))
           about(rq, b) == {<<a.status, a.etag, a.size, a.said, a.cache>> : a \in serveArtifact(cfg, rq, b, b3)}
<1>0. /\ serveArtifact(cfg, head, b1, b3) = PlainAnswers(cfg, head, path, b3)
      /\ serveArtifact(cfg, get, b2, b3) = PlainAnswers(cfg, get, path, b3)
  BY PlainRead
<1>1. CASE keys = <<>> \/ only = {}
  <2>1. serveArtifact(cfg, head, b1, b3) = {miss}
    BY <1>0, <1>1 DEF PlainAnswers
  <2>2. serveArtifact(cfg, get, b2, b3) = {miss}
    BY <1>0, <1>1 DEF PlainAnswers
  <2> QED BY <2>1, <2>2
<1>2. CASE keys # <<>> /\ only # {}
  <2>1. one \in only
    BY <1>2
  <2>2. only = {one} /\ one \in DOMAIN b3
    BY <2>1, LookedUp
  <2>3. \A ok, x : served(b3, one, {}, ok, x) = {Answer(200, b3[one], Full(b3[one]), Full(b3[one]), ok)}
    BY <2>2 DEF served
  <2>4. serveArtifact(cfg, get, b2, b3) = served(b3, one, {}, Ok(cfg, path), miss)
    BY <1>0, <1>2 DEF PlainAnswers
  <2>5. serveArtifact(cfg, get, b2, b3) = {whole(one)}
    BY <2>3, <2>4
  <2>6. serveArtifact(cfg, head, b1, b3) = {whole(one)} \/ serveArtifact(cfg, head, b1, b3) = {facts(one)}
    <3>1. CASE cfg.artifactHead = "metadata"
      <4>1. serveArtifact(cfg, head, b1, b3) = {facts(k) : k \in only}
        BY <1>0, <1>2, <3>1 DEF PlainAnswers
      <4> HIDE DEF one, only, facts
      <4> QED BY <2>2, <4>1
    <3>2. CASE cfg.artifactHead # "metadata"
      <4>1. serveArtifact(cfg, head, b1, b3) = served(b3, one, {}, Ok(cfg, path), miss)
        BY <1>0, <1>2, <3>2 DEF PlainAnswers
      <4> QED BY <2>3, <4>1
    <3> QED BY <3>1, <3>2
  <2>7. /\ whole(one).status = facts(one).status /\ whole(one).etag = facts(one).etag
        /\ whole(one).size = facts(one).size /\ whole(one).said = facts(one).said /\ whole(one).cache = facts(one).cache
    BY DEF Answer
  <2> HIDE DEF whole, facts, one
  <2> QED BY <2>5, <2>6, <2>7
<1> QED BY <1>1, <1>2

-----------------------------------------------------------------------------
(* Trees that fetch-artifacts fills (FetchArtifacts.tla): of any files T,   *)
(* by any runs R, under any process numbers.                                *)
FileAt    == {"todo", "checking", "named", "open", "done"}
RunOf(T)  == [pc : {"idle", "fetching", "copying", "ok", "failed", "exited", "killed"}, pid : Int,
              file : [T -> FileAt], live : SUBSET T, failure : {"none", "failed", "interrupted"},
              signalled : BOOLEAN]
TreeOf(T, R) == [out : [T -> {"none", "wrong", "pinned"}],
                 temps : SUBSET [target : T, pid : Int, run : R], runs : [R -> RunOf(T)]]

(* A file that is done is pinned, unless the run fails; the copy is not     *)
(* begun before the run is copying, which it is once the others are pinned. *)
RunOK(run, out, T) ==
  /\ run.pc = "idle" => run.file = [t \in T |-> "todo"] /\ run.failure = "none"
  /\ run.failure = "none" => \A t \in T : run.file[t] = "done" => out[t] = "pinned"
  /\ run.pc = "copying" => \A t \in T \ {"copy"} : out[t] = "pinned" /\ run.file[t] = "done"
  /\ run.pc = "fetching" => run.file["copy"] = "todo"
  /\ run.pc = "ok" => \A t \in T : out[t] = "pinned" /\ run.file[t] = "done"
  /\ run.pc = "failed" => \A t \in T : run.file[t] \in {"todo", "done"}

(* A temp file is of a run that has begun, under its number; of one that    *)
(* may go on, it is open; and a number that is alive is of one run only.    *)
TempsInv(s) ==
  /\ \A temp \in s.temps :
       LET run == s.runs[temp.run]
       IN  /\ temp.pid = run.pid /\ run.pc # "idle"
           /\ run.pc \notin {"exited", "killed"} => run.file[temp.target] = "open"
           /\ \A q \in Running(s) : temp.pid = s.runs[q].pid => temp.run = q
  /\ \A r, q \in Running(s) : s.runs[r].pid = s.runs[q].pid => r = q

FInv(s, T, R) == s \in TreeOf(T, R) /\ TempsInv(s) /\ \A r \in R : RunOK(s.runs[r], s.out, T)

(* A tree before any run satisfies the invariant.                           *)
LEMMA TreeFInv ==
  ASSUME NEW T, "copy" \in T, NEW R, NEW content \in {"none", "wrong", "pinned"}
  PROVE  FInv(Tree(T, R, content), T, R)
<1> DEFINE s == Tree(T, R, content)
<1>1. \A r \in R : s.runs[r] = NewRun(T)
  BY DEF Tree
<1>2. NewRun(T) \in RunOf(T)
  BY DEF NewRun, RunOf, FileAt
<1>3. s \in TreeOf(T, R)
  BY <1>2 DEF Tree, TreeOf
<1>4. Running(s) = {}
  BY <1>1 DEF Running, Tree, NewRun
<1>5. TempsInv(s)
  BY <1>4 DEF TempsInv, Tree
<1>6. \A r \in R : RunOK(s.runs[r], s.out, T)
  BY <1>1 DEF RunOK, NewRun
<1> QED BY <1>3, <1>5, <1>6 DEF FInv

(* A step of run r: it leaves the other runs, keeps what is pinned, and of  *)
(* the others' temp files; and its own are as its state says.               *)
LEMMA RunSteps ==
  ASSUME NEW T, "copy" \in T, NEW R, NEW s, FInv(s, T, R), NEW n \in TreeOf(T, R), NEW r \in R,
         \A q \in R \ {r} : n.runs[q] = s.runs[q],
         \A t \in T : n.out[t] # s.out[t] => n.out[t] = "pinned",
         \A temp \in n.temps : temp \in s.temps \/ temp.run = r,
         n.runs[r].pid = s.runs[r].pid, r \in Running(s), n.runs[r].pc # "idle",
         \A temp \in n.temps : temp.run = r =>
            temp.pid = s.runs[r].pid /\ (n.runs[r].pc \notin {"exited", "killed"} => n.runs[r].file[temp.target] = "open"),
         RunOK(n.runs[r], n.out, T)
  PROVE  FInv(n, T, R)
<1>1. DOMAIN s.runs = R /\ DOMAIN n.runs = R
  BY DEF FInv, TreeOf
<1>2. Running(n) \subseteq Running(s)
  BY <1>1 DEF Running
<1>3. \A q \in R : n.runs[q].pid = s.runs[q].pid
  OBVIOUS
<1>4. \A q \in R \ {r} : RunOK(n.runs[q], n.out, T)
  <2>1. ASSUME NEW q \in R \ {r} PROVE RunOK(n.runs[q], n.out, T)
    <3>1. RunOK(s.runs[q], s.out, T) /\ n.runs[q] = s.runs[q]
      BY DEF FInv
    <3>2. \A t \in T : s.out[t] = "pinned" => n.out[t] = "pinned"
      OBVIOUS
    <3> QED BY <3>1, <3>2 DEF RunOK
  <2> QED BY <2>1
<1>5. \A temp \in n.temps : temp.run \in R
  BY DEF TreeOf
<1>6. ASSUME NEW temp \in n.temps
      PROVE  /\ temp.pid = n.runs[temp.run].pid /\ n.runs[temp.run].pc # "idle"
             /\ n.runs[temp.run].pc \notin {"exited", "killed"} => n.runs[temp.run].file[temp.target] = "open"
             /\ \A q \in Running(n) : temp.pid = n.runs[q].pid => temp.run = q
  <2>1. CASE temp.run = r
    <3>1. \A q \in Running(n) : temp.pid = n.runs[q].pid => q = r
      BY <1>1, <1>2, <1>3, <2>1 DEF FInv, TempsInv, Running
    <3> QED BY <1>3, <2>1, <3>1
  <2>2. CASE temp.run # r
    <3>1. temp \in s.temps /\ n.runs[temp.run] = s.runs[temp.run]
      BY <1>5, <2>2
    <3> QED BY <1>1, <1>2, <1>3, <3>1 DEF FInv, TempsInv, Running
  <2> QED BY <2>1, <2>2
<1>7. \A p, q \in Running(n) : n.runs[p].pid = n.runs[q].pid => p = q
  BY <1>1, <1>2, <1>3 DEF FInv, TempsInv, Running
<1> QED BY <1>4, <1>6, <1>7 DEF FInv, TempsInv

(* What a step keeps: a pinned file stays; the copy is put in place only    *)
(* over files that are pinned; nobody takes away the temp file of a run     *)
(* that goes on but that run; and one that starts finds no other's.         *)
Keeps(s, n, T, R) ==
  /\ \A t \in T : n.out[t] # s.out[t] => n.out[t] = "pinned"
  /\ n.out["copy"] # s.out["copy"] => \A t \in T \ {"copy"} : s.out[t] = "pinned"
  /\ \A temp \in s.temps \ n.temps : temp.run \in Running(s) => n.runs[temp.run] # s.runs[temp.run]
  /\ (\E r \in R : s.runs[r].pc = "idle" /\ n.runs[r].pc # "idle") => \A temp \in n.temps : temp.run \in Running(s)

(* What run r may change: the tree, the temp files and its own state.       *)
Fits(s, r, T, R, out, temps, run) ==
  /\ out \in [T -> {"none", "wrong", "pinned"}] /\ temps \in SUBSET [target : T, pid : Int, run : R] /\ run \in RunOf(T)
  /\ \A t \in T : out[t] # s.out[t] => out[t] = "pinned"
  /\ out["copy"] # s.out["copy"] => s.runs[r].pc = "copying"
  /\ \A temp \in temps : temp \in s.temps \/ temp.run = r
  /\ \A temp \in s.temps \ temps : temp.run = r /\ run # s.runs[r]
  /\ run.pid = s.runs[r].pid /\ run.pc # "idle" /\ RunOK(run, out, T)
  /\ \A temp \in temps : temp.run = r =>
       temp.pid = run.pid /\ (run.pc \notin {"exited", "killed"} => run.file[temp.target] = "open")

(* A step that changes no more satisfies the invariant.                     *)
LEMMA Changes ==
  ASSUME NEW T, "copy" \in T, NEW R, NEW s, FInv(s, T, R), NEW r \in Running(s),
         NEW out, NEW temps, NEW run, Fits(s, r, T, R, out, temps, run),
         NEW n, n = [out |-> out, temps |-> temps, runs |-> [s.runs EXCEPT ![r] = run]]
  PROVE  FInv(n, T, R) /\ Keeps(s, n, T, R)
<1> USE DEF Fits
<1>1. r \in R /\ s.runs \in [R -> RunOf(T)] /\ s.runs[r].pc \in {"fetching", "copying"}
  BY DEF FInv, TreeOf, Running
<1>2. n \in TreeOf(T, R)
  BY <1>1 DEF TreeOf
<1>3. n.runs[r] = run /\ \A q \in R \ {r} : n.runs[q] = s.runs[q]
  BY <1>1
<1>4. n.out = out /\ n.temps = temps
  OBVIOUS
<1>5. FInv(n, T, R)
  BY <1>1, <1>2, <1>3, <1>4, RunSteps
<1>6. out["copy"] # s.out["copy"] => \A t \in T \ {"copy"} : s.out[t] = "pinned"
  BY <1>1 DEF FInv, RunOK
<1>7. ~\E q \in R : s.runs[q].pc = "idle" /\ n.runs[q].pc # "idle"
  BY <1>1, <1>3
<1>8. \A temp \in s.temps \ temps : n.runs[temp.run] # s.runs[temp.run]
  BY <1>3
<1> QED BY <1>4, <1>5, <1>6, <1>7, <1>8 DEF Keeps

(* What is known of a run that goes on.                                     *)
LEMMA Goes ==
  ASSUME NEW T, NEW R, NEW s, FInv(s, T, R), NEW r \in Running(s)
  PROVE  /\ s = [out |-> s.out, temps |-> s.temps, runs |-> s.runs] /\ s.runs \in [R -> RunOf(T)]
         /\ s.out \in [T -> {"none", "wrong", "pinned"}] /\ s.temps \in SUBSET [target : T, pid : Int, run : R]
         /\ r \in R /\ s.runs[r] \in RunOf(T) /\ s.runs[r].pc \in {"fetching", "copying"} /\ RunOK(s.runs[r], s.out, T)
         /\ \A temp \in s.temps : temp.run = r =>
              temp.pid = s.runs[r].pid /\ s.runs[r].file[temp.target] = "open"
<1>1. r \in R /\ s.runs[r].pc \in {"fetching", "copying"}
  BY DEF FInv, TreeOf, Running
<1> QED BY <1>1 DEF FInv, TreeOf, TempsInv

(* A file t in work becomes x, in a run that becomes then.                  *)
Works(run, out, then, after, T, t, x) ==
  /\ run \in RunOf(T) /\ run.pc \in {"fetching", "copying"} /\ RunOK(run, out, T)
  /\ run.file[t] \notin {"todo", "done"} /\ then.file = [run.file EXCEPT ![t] = x] /\ then.pc = run.pc
  /\ \A u \in T : after[u] # out[u] => after[u] = "pinned"
  /\ then.failure = "none" => run.failure = "none" /\ (x = "done" => after[t] = "pinned")

(* What the run knows stays so.                                             *)
LEMMA FileStep ==
  ASSUME NEW T, "copy" \in T, NEW t \in T, NEW run, NEW out, NEW then, NEW after, NEW x, Works(run, out, then, after, T, t, x)
  PROVE  /\ RunOK(then, after, T) /\ (t = "copy" <=> run.pc = "copying")
         /\ then.file[t] = x /\ \A u \in T \ {t} : then.file[u] = run.file[u]
<1> USE DEF Works
<1>1. run.file \in [T -> FileAt]
  BY DEF RunOf
<1>2. then.file[t] = x /\ \A u \in T \ {t} : then.file[u] = run.file[u]
  BY <1>1
<1>3. t = "copy" <=> run.pc = "copying"
  BY DEF RunOK
<1>4. \A u \in T : out[u] = "pinned" => after[u] = "pinned"
  OBVIOUS
<1>5. then.failure = "none" => \A u \in T : then.file[u] = "done" => after[u] = "pinned"
  BY <1>2, <1>4 DEF RunOK
<1>6. then.pc = "copying" => \A u \in T \ {"copy"} : after[u] = "pinned" /\ then.file[u] = "done"
  BY <1>2, <1>3, <1>4 DEF RunOK
<1>7. then.pc = "fetching" => then.file["copy"] = "todo"
  BY <1>2, <1>3 DEF RunOK
<1> QED BY <1>2, <1>3, <1>5, <1>6, <1>7 DEF RunOK

(* A file of the plan is begun, and looked at.                              *)
LEMMA BeginKeeps ==
  ASSUME NEW T, "copy" \in T, NEW R, NEW s, FInv(s, T, R), NEW r \in Running(s), NEW t \in T,
         NEW n \in begin(s, r, t) \cup fileDigest(s, r, t)
  PROVE  FInv(n, T, R) /\ Keeps(s, n, T, R)
<1> DEFINE run == s.runs[r]
<1>1. /\ s = [out |-> s.out, temps |-> s.temps, runs |-> s.runs] /\ s.runs \in [R -> RunOf(T)]
      /\ s.out \in [T -> {"none", "wrong", "pinned"}] /\ s.temps \in SUBSET [target : T, pid : Int, run : R]
      /\ r \in R /\ run \in RunOf(T) /\ run.pc \in {"fetching", "copying"} /\ RunOK(run, s.out, T)
      /\ \A temp \in s.temps : temp.run = r => temp.pid = run.pid /\ run.file[temp.target] = "open"
  BY Goes
<1>2. CASE n \in begin(s, r, t)
  <2> DEFINE then == [run EXCEPT !.file[t] = "checking"]
  <2>1. run.file[t] = "todo" /\ t \in Due(s, r) /\ n = [s EXCEPT !.runs[r].file[t] = "checking"]
    BY <1>2 DEF begin, If
  <2>2. n = [out |-> s.out, temps |-> s.temps, runs |-> [s.runs EXCEPT ![r] = then]]
    BY <1>1, <2>1
  <2>3. then \in RunOf(T) /\ then.pc = run.pc /\ then.pid = run.pid /\ then.failure = run.failure
        /\ then.file = [run.file EXCEPT ![t] = "checking"]
    BY <1>1 DEF RunOf, FileAt
  <2>4. then.file[t] = "checking" /\ \A u \in T \ {t} : then.file[u] = run.file[u]
    BY <1>1, <2>3 DEF RunOf
  <2>5. t = "copy" <=> run.pc = "copying"
    BY <1>1, <2>1 DEF Due, Jobs
  <2> HIDE DEF then, run
  <2>6. RunOK(then, s.out, T)
    BY <1>1, <2>3, <2>4, <2>5 DEF RunOK
  <2>7. \A temp \in s.temps : temp.run = r => temp.pid = then.pid /\ then.file[temp.target] = "open"
    BY <1>1, <2>1, <2>3, <2>4
  <2>8. Fits(s, r, T, R, s.out, s.temps, then)
    BY <1>1, <2>3, <2>6, <2>7 DEF Fits, run
  <2> QED BY <2>2, <2>8, Changes
<1>3. CASE n \in fileDigest(s, r, t)
  <2>1. /\ run.file[t] = "checking"
        /\ n = IF s.out[t] = "pinned" THEN [s EXCEPT !.runs[r].file[t] = "done"]
               ELSE [s EXCEPT !.runs[r].file[t] = "named", !.runs[r].live = @ \cup {t}]
    BY <1>3 DEF fileDigest, If
  <2>2. PICK x \in {"done", "named"}, live \in SUBSET T :
          /\ x = "done" => s.out[t] = "pinned"
          /\ n = [out |-> s.out, temps |-> s.temps, runs |-> [s.runs EXCEPT ![r] = [run EXCEPT !.file[t] = x, !.live = live]]]
    <3>1. CASE s.out[t] = "pinned"
      <4>1. run.live \in SUBSET T
        BY <1>1 DEF RunOf
      <4>2. [run EXCEPT !.file[t] = "done"] = [run EXCEPT !.file[t] = "done", !.live = run.live]
        BY <1>1 DEF RunOf
      <4>3. n = [out |-> s.out, temps |-> s.temps, runs |-> [s.runs EXCEPT ![r] = [run EXCEPT !.file[t] = "done"]]]
        BY <1>1, <2>1, <3>1
      <4> QED BY <3>1, <4>1, <4>2, <4>3
    <3>2. CASE s.out[t] # "pinned"
      <4>1. run.live \cup {t} \in SUBSET T
        BY <1>1 DEF RunOf
      <4>2. n = [out |-> s.out, temps |-> s.temps,
                 runs |-> [s.runs EXCEPT ![r] = [run EXCEPT !.file[t] = "named", !.live = run.live \cup {t}]]]
        BY <1>1, <2>1, <3>2
      <4> QED BY <4>1, <4>2
    <3> QED BY <3>1, <3>2
  <2> DEFINE then == [run EXCEPT !.file[t] = x, !.live = live]
  <2>3. /\ then \in RunOf(T) /\ then.pc = run.pc /\ then.pid = run.pid /\ then.failure = run.failure
        /\ then.file = [run.file EXCEPT ![t] = x]
    BY <1>1 DEF RunOf, FileAt
  <2> HIDE DEF then, run
  <2>4. RunOK(then, s.out, T) /\ then.file[t] = x /\ \A u \in T \ {t} : then.file[u] = run.file[u]
    <3>1. Works(run, s.out, then, s.out, T, t, x)
      BY <1>1, <2>1, <2>2, <2>3 DEF Works
    <3> QED BY <3>1, FileStep
  <2>5. \A temp \in s.temps : temp.run = r => temp.pid = then.pid /\ then.file[temp.target] = "open"
    BY <1>1, <2>1, <2>3, <2>4
  <2>6. Fits(s, r, T, R, s.out, s.temps, then)
    BY <1>1, <2>3, <2>4, <2>5 DEF Fits, run
  <2>7. n = [out |-> s.out, temps |-> s.temps, runs |-> [s.runs EXCEPT ![r] = then]]
    BY <2>2 DEF then
  <2> QED BY <2>6, <2>7, Changes
<1> QED BY <1>2, <1>3

(* A signal, or what arrives, fails a run: the first reason is kept.        *)
LEMMA FailingIs ==
  ASSUME NEW T, NEW R, NEW s, NEW r \in R, NEW why \in {"failed", "interrupted"}, NEW out, NEW temps, NEW runs \in [R -> RunOf(T)],
         s = [out |-> out, temps |-> temps, runs |-> runs]
  PROVE  \E failure \in {"failed", "interrupted"} :
           Failing(s, r, why) = [out |-> out, temps |-> temps, runs |-> [runs EXCEPT ![r] = [runs[r] EXCEPT !.failure = failure]]]
<1>1. runs[r].failure \in {"none", "failed", "interrupted"}
  BY DEF RunOf
<1>2. CASE runs[r].failure = "none"
  <2>1. Failing(s, r, why) = [out |-> out, temps |-> temps, runs |-> [runs EXCEPT ![r] = [runs[r] EXCEPT !.failure = why]]]
    BY <1>2 DEF Failing
  <2> QED BY <2>1
<1>3. CASE runs[r].failure # "none"
  <2>1. Failing(s, r, why) = s
    BY <1>3 DEF Failing
  <2>2. [runs[r] EXCEPT !.failure = runs[r].failure] = runs[r]
    BY DEF RunOf
  <2>3. [runs EXCEPT ![r] = runs[r]] = runs
    OBVIOUS
  <2> QED BY <1>1, <1>3, <2>1, <2>2, <2>3
<1> QED BY <1>2, <1>3

(* writeVerified: a temp file is opened, renamed over its target or given   *)
(* up.                                                                      *)
LEMMA WriteKeeps ==
  ASSUME NEW T, "copy" \in T, NEW R, NEW s, FInv(s, T, R), NEW r \in Running(s), NEW t \in T,
         NEW n \in open(s, r, t) \cup renamed(s, r, t) \cup rejected(s, r, t)
  PROVE  FInv(n, T, R) /\ Keeps(s, n, T, R)
<1> DEFINE run == s.runs[r]
           mine == Temp(s, r, t)
<1>1. /\ s = [out |-> s.out, temps |-> s.temps, runs |-> s.runs] /\ s.runs \in [R -> RunOf(T)]
      /\ s.out \in [T -> {"none", "wrong", "pinned"}] /\ s.temps \in SUBSET [target : T, pid : Int, run : R]
      /\ r \in R /\ run \in RunOf(T) /\ run.pc \in {"fetching", "copying"} /\ RunOK(run, s.out, T)
      /\ \A temp \in s.temps : temp.run = r => temp.pid = run.pid /\ run.file[temp.target] = "open"
  BY Goes
<1>2. mine \in [target : T, pid : Int, run : R] /\ mine.run = r /\ mine.target = t /\ mine.pid = run.pid
  BY <1>1 DEF Temp, RunOf
<1>3. \A temp \in s.temps : temp.run = r /\ temp.target = t => temp = mine
  BY <1>1 DEF Temp
<1>4. CASE n \in open(s, r, t)
  <2> DEFINE then == [run EXCEPT !.file[t] = "open"]
             temps == s.temps \cup {mine}
  <2>1. run.file[t] = "named" /\ n = [s EXCEPT !.runs[r].file[t] = "open", !.temps = @ \cup {mine}]
    BY <1>4 DEF open, If
  <2>2. n = [out |-> s.out, temps |-> temps, runs |-> [s.runs EXCEPT ![r] = then]]
    BY <1>1, <2>1
  <2>3. /\ then \in RunOf(T) /\ then.pc = run.pc /\ then.pid = run.pid /\ then.failure = run.failure
        /\ then.file = [run.file EXCEPT ![t] = "open"]
    BY <1>1 DEF RunOf, FileAt
  <2> HIDE DEF then, run, mine
  <2>4. RunOK(then, s.out, T) /\ then.file[t] = "open" /\ \A u \in T \ {t} : then.file[u] = run.file[u]
    <3>1. Works(run, s.out, then, s.out, T, t, "open")
      BY <1>1, <2>1, <2>3 DEF Works
    <3> QED BY <3>1, FileStep
  <2>5. temps \in SUBSET [target : T, pid : Int, run : R]
    BY <1>1, <1>2
  <2>6. \A temp \in temps : temp.run = r => temp.pid = then.pid /\ then.file[temp.target] = "open"
    BY <1>1, <1>2, <2>1, <2>3, <2>4
  <2>7. Fits(s, r, T, R, s.out, temps, then)
    BY <1>1, <1>2, <2>3, <2>4, <2>5, <2>6 DEF Fits, run
  <2> QED BY <2>2, <2>7, Changes
<1> DEFINE left == [run EXCEPT !.file[t] = "done", !.live = @ \ {t}]
           rest == s.temps \ {mine}
<1>5. Left(s, r, t) = [out |-> s.out, temps |-> rest, runs |-> [s.runs EXCEPT ![r] = left]]
  <2> DEFINE one == [s EXCEPT !.runs[r].file[t] = "done"]
             two == [one EXCEPT !.runs[r].live = @ \ {t}]
             part == [run EXCEPT !.file[t] = "done"]
  <2>1. Left(s, r, t) = [two EXCEPT !.temps = @ \ {mine}]
    BY <1>1 DEF Left
  <2>2. one = [out |-> s.out, temps |-> s.temps, runs |-> [s.runs EXCEPT ![r] = part]]
    BY <1>1
  <2>3. part \in RunOf(T) /\ left = [part EXCEPT !.live = part.live \ {t}]
    BY <1>1 DEF RunOf, FileAt
  <2>4. two = [out |-> s.out, temps |-> s.temps, runs |-> [s.runs EXCEPT ![r] = left]]
    <3> DEFINE runs == [s.runs EXCEPT ![r] = part]
    <3>1. runs[r] = part /\ [runs EXCEPT ![r] = left] = [s.runs EXCEPT ![r] = left]
      BY <1>1
    <3>2. two = [one EXCEPT !.runs = [runs EXCEPT ![r] = [part EXCEPT !.live = part.live \ {t}]]]
      <4>1. one.runs = runs /\ runs[r] = part
        BY <1>1, <2>2
      <4>2. two = [one EXCEPT !.runs = [one.runs EXCEPT ![r] = [one.runs[r] EXCEPT !.live = one.runs[r].live \ {t}]]]
        OBVIOUS
      <4> HIDE DEF part, one, two, runs
      <4> QED BY <4>1, <4>2
    <3> HIDE DEF left, part, two, one
    <3> QED BY <2>2, <2>3, <3>1, <3>2
  <2> HIDE DEF two, left, mine
  <2> QED BY <2>1, <2>4
<1>6. /\ left \in RunOf(T) /\ left.pc = run.pc /\ left.pid = run.pid /\ left.failure = run.failure
      /\ left.file = [run.file EXCEPT ![t] = "done"]
  BY <1>1 DEF RunOf, FileAt
<1>7. ASSUME NEW out \in [T -> {"none", "wrong", "pinned"}], NEW then \in RunOf(T),
             then.pc = run.pc, then.pid = run.pid, then.file = left.file, run.file[t] \in {"named", "open"},
             \A u \in T : out[u] # s.out[u] => out[u] = "pinned" /\ u = t,
             then.failure = "none" => run.failure = "none" /\ out[t] = "pinned",
             n = [out |-> out, temps |-> rest, runs |-> [s.runs EXCEPT ![r] = then]]
      PROVE  FInv(n, T, R) /\ Keeps(s, n, T, R)
  <2> HIDE DEF run, mine, left
  <2>1. /\ RunOK(then, out, T) /\ (t = "copy" <=> run.pc = "copying")
        /\ then.file[t] = "done" /\ \A u \in T \ {t} : then.file[u] = run.file[u]
    <3>1. Works(run, s.out, then, out, T, t, "done")
      BY <1>1, <1>6, <1>7 DEF Works
    <3> QED BY <3>1, FileStep
  <2>2. \A temp \in rest : temp.run = r => temp.pid = then.pid /\ then.file[temp.target] = "open"
    BY <1>1, <1>3, <1>7, <2>1
  <2>3. then # run
    BY <1>7, <2>1
  <2>4. out["copy"] # s.out["copy"] => run.pc = "copying"
    BY <1>7, <2>1
  <2>5. rest \in SUBSET [target : T, pid : Int, run : R] /\ \A temp \in s.temps \ rest : temp.run = r
    BY <1>1, <1>2
  <2>6. Fits(s, r, T, R, out, rest, then)
    BY <1>1, <1>7, <2>1, <2>2, <2>3, <2>4, <2>5 DEF Fits, run
  <2> QED BY <1>7, <2>6, Changes
<1>8. ASSUME n = Failing(Left(s, r, t), r, "failed"), run.file[t] \in {"named", "open"}
      PROVE  FInv(n, T, R) /\ Keeps(s, n, T, R)
  <2> DEFINE runs == [s.runs EXCEPT ![r] = left]
  <2>1. runs \in [R -> RunOf(T)] /\ runs[r] = left
    BY <1>1, <1>6
  <2>2. PICK failure \in {"failed", "interrupted"} :
          n = [out |-> s.out, temps |-> rest, runs |-> [runs EXCEPT ![r] = [runs[r] EXCEPT !.failure = failure]]]
    <3> HIDE DEF runs, rest
    <3> QED BY <1>1, <1>5, <1>8, <2>1, FailingIs DEF runs
  <2> DEFINE then == [left EXCEPT !.failure = failure]
  <2>3. [runs EXCEPT ![r] = [runs[r] EXCEPT !.failure = failure]] = [s.runs EXCEPT ![r] = then]
    <3> HIDE DEF left
    <3> QED BY <1>1, <2>1
  <2>4. /\ then \in RunOf(T) /\ then.pc = run.pc /\ then.pid = run.pid /\ then.failure # "none"
        /\ then.file = left.file
    <3> HIDE DEF left, run
    <3> QED BY <1>6 DEF RunOf
  <2> HIDE DEF left, run, rest, runs, then
  <2> QED BY <1>1, <1>7, <1>8, <2>2, <2>3, <2>4
<1>9. CASE n \in renamed(s, r, t)
  <2>1. /\ run.file[t] = "open"
        /\ n = IF mine \in s.temps THEN [Left(s, r, t) EXCEPT !.out[t] = "pinned"]
               ELSE Failing(Left(s, r, t), r, "failed")
    BY <1>9 DEF renamed, If
  <2>2. CASE mine \in s.temps
    <3> DEFINE out == [s.out EXCEPT ![t] = "pinned"]
    <3>1. n = [out |-> out, temps |-> rest, runs |-> [s.runs EXCEPT ![r] = left]]
      BY <1>5, <2>1, <2>2
    <3>2. out \in [T -> {"none", "wrong", "pinned"}] /\ out[t] = "pinned" /\ \A u \in T : out[u] # s.out[u] => out[u] = "pinned" /\ u = t
      BY <1>1
    <3> HIDE DEF out, left, rest, run
    <3> QED BY <1>6, <1>7, <2>1, <3>1, <3>2
  <2>3. CASE mine \notin s.temps
    BY <1>8, <2>1, <2>3
  <2> QED BY <2>2, <2>3
<1>10. CASE n \in rejected(s, r, t)
  BY <1>8, <1>10 DEF rejected, If
<1> QED BY <1>4, <1>9, <1>10

(* A run's files, then the copy; its end, a signal, a kill.                 *)
LEMMA EndKeeps ==
  ASSUME NEW T, "copy" \in T, NEW R, NEW s, FInv(s, T, R), NEW r \in Running(s),
         NEW n \in wholes(s, r) \cup finish(s, r) \cup onSignal(s, r) \cup Ended(s, r, "killed")
  PROVE  FInv(n, T, R) /\ Keeps(s, n, T, R)
<1> DEFINE run == s.runs[r]
           rest == s.temps \ {Temp(s, r, t) : t \in run.live}
           none == [run EXCEPT !.live = {}]
           AsPc(x) == [out |-> s.out, temps |-> s.temps, runs |-> [s.runs EXCEPT ![r] = [run EXCEPT !.pc = x]]]
<1>1. /\ s = [out |-> s.out, temps |-> s.temps, runs |-> s.runs] /\ s.runs \in [R -> RunOf(T)]
      /\ s.out \in [T -> {"none", "wrong", "pinned"}] /\ s.temps \in SUBSET [target : T, pid : Int, run : R]
      /\ r \in R /\ run \in RunOf(T) /\ run.pc \in {"fetching", "copying"} /\ RunOK(run, s.out, T)
      /\ \A temp \in s.temps : temp.run = r => temp.pid = run.pid /\ run.file[temp.target] = "open"
  BY Goes
<1>2. ASSUME NEW temps \in SUBSET s.temps, NEW then \in RunOf(T), then.pid = run.pid, then.file = run.file, then.pc # "idle",
             \A temp \in s.temps \ temps : temp.run = r /\ then # run, RunOK(then, s.out, T),
             n = [out |-> s.out, temps |-> temps, runs |-> [s.runs EXCEPT ![r] = then]]
      PROVE  FInv(n, T, R) /\ Keeps(s, n, T, R)
  <2>1. Fits(s, r, T, R, s.out, temps, then)
    BY <1>1, <1>2 DEF Fits
  <2> QED BY <1>2, <2>1, Changes
<1>3. ASSUME NEW x \in {"copying", "ok", "failed", "killed"}, n = AsPc(x),
             x \in {"copying", "ok"} => \A t \in T \ {"copy"} : s.out[t] = "pinned" /\ run.file[t] = "done",
             x = "ok" => s.out["copy"] = "pinned" /\ run.file["copy"] = "done",
             x = "failed" => \A t \in T : run.file[t] \in {"todo", "done"}
      PROVE  FInv(n, T, R) /\ Keeps(s, n, T, R)
  <2> DEFINE then == [run EXCEPT !.pc = x]
  <2>1. then \in RunOf(T) /\ then.pid = run.pid /\ then.file = run.file /\ then.pc = x /\ then.failure = run.failure
    BY <1>1 DEF RunOf
  <2> HIDE DEF then
  <2>2. RunOK(then, s.out, T)
    BY <1>1, <1>3, <2>1 DEF RunOK
  <2>3. n = [out |-> s.out, temps |-> s.temps, runs |-> [s.runs EXCEPT ![r] = then]]
    BY <1>3 DEF then
  <2> HIDE DEF run
  <2> QED BY <1>2, <2>1, <2>2, <2>3
<1>4. \A x : Ended(s, r, x) = {AsPc(x)}
  BY <1>1 DEF Ended
<1>5. CASE n \in wholes(s, r)
  <2>1. Jobs(s) = T \ {"copy"}
    BY <1>1 DEF Jobs
  <2>2. /\ run.pc = "fetching" /\ run.failure = "none" /\ \A t \in T \ {"copy"} : run.file[t] = "done"
        /\ n = IF \A t \in T \ {"copy"} : s.out[t] = "pinned" THEN [s EXCEPT !.runs[r].pc = "copying"] ELSE Failing(s, r, "failed")
    BY <1>5, <2>1 DEF wholes, If
  <2>3. \A t \in T \ {"copy"} : s.out[t] = "pinned"
    BY <1>1, <2>2 DEF RunOK
  <2>4. n = AsPc("copying")
    BY <1>1, <2>2, <2>3
  <2> HIDE DEF AsPc, run
  <2> QED BY <1>3, <2>2, <2>3, <2>4
<1>6. CASE n \in finish(s, r)
  <2>1. CASE run.failure # "none"
    <3>1. Settled(s, r) /\ n = AsPc("failed")
      BY <1>4, <1>6, <2>1 DEF finish, If
    <3>2. \A t \in T : run.file[t] \in {"todo", "done"}
      BY <1>1, <3>1 DEF Settled
    <3> HIDE DEF AsPc, run
    <3> QED BY <1>3, <3>1, <3>2
  <2>2. CASE run.failure = "none"
    <3>1. run.pc = "copying" /\ run.file["copy"] = "done" /\ n = AsPc("ok")
      BY <1>4, <1>6, <2>2 DEF finish, If
    <3>2. /\ \A t \in T \ {"copy"} : s.out[t] = "pinned" /\ run.file[t] = "done"
          /\ s.out["copy"] = "pinned"
      BY <1>1, <2>2, <3>1 DEF RunOK
    <3> HIDE DEF AsPc, run
    <3> QED BY <1>3, <3>1, <3>2
  <2> QED BY <2>1, <2>2
<1>7. CASE n \in Ended(s, r, "killed")
  <2>1. n = AsPc("killed")
    BY <1>4, <1>7
  <2> HIDE DEF AsPc, run
  <2> QED BY <1>3, <2>1
<1>8. CASE n \in onSignal(s, r)
  <2> DEFINE cleared == [out |-> s.out, temps |-> rest, runs |-> [s.runs EXCEPT ![r] = none]]
  <2>1. removeLiveTemps(s, r) = cleared
    <3>1. removeLiveTemps(s, r) = [s EXCEPT !.temps = rest, !.runs[r].live = {}]
      BY <1>1 DEF removeLiveTemps
    <3> HIDE DEF rest
    <3> QED BY <1>1, <3>1
  <2>2. none \in RunOf(T) /\ none.pc = run.pc /\ none.pid = run.pid /\ none.file = run.file /\ none.failure = run.failure
        /\ none.signalled = run.signalled
    BY <1>1 DEF RunOf
  <2>3. rest \in SUBSET s.temps /\ \A temp \in s.temps \ rest : temp.run = r
    BY DEF Temp
  <2>4. ASSUME NEW then \in RunOf(T), then.pid = run.pid, then.file = run.file, then.pc \in {run.pc, "exited"},
               then # run, then.failure = "none" => run.failure = "none",
               n = [out |-> s.out, temps |-> rest, runs |-> [s.runs EXCEPT ![r] = then]]
        PROVE  FInv(n, T, R) /\ Keeps(s, n, T, R)
    <3>1. RunOK(then, s.out, T)
      BY <1>1, <2>4 DEF RunOK
    <3> HIDE DEF run, rest
    <3> QED BY <1>1, <1>2, <2>3, <2>4, <3>1
  <2> DEFINE runs == [s.runs EXCEPT ![r] = none]
  <2>5. runs \in [R -> RunOf(T)] /\ runs[r] = none /\ \A then : [runs EXCEPT ![r] = then] = [s.runs EXCEPT ![r] = then]
    BY <1>1, <2>2
  <2>6. CASE run.signalled
    <3> DEFINE then == [none EXCEPT !.pc = "exited"]
    <3>1. n = [out |-> s.out, temps |-> rest, runs |-> [runs EXCEPT ![r] = [runs[r] EXCEPT !.pc = "exited"]]]
      <4>1. n = [cleared EXCEPT !.runs[r].pc = "exited"]
        BY <1>8, <2>1, <2>6 DEF onSignal, Ended
      <4> HIDE DEF rest, none
      <4> QED BY <4>1
    <3>2. then \in RunOf(T) /\ then.pid = run.pid /\ then.file = run.file /\ then.pc = "exited" /\ then.failure = run.failure
      <4> HIDE DEF none, run
      <4> QED BY <2>2 DEF RunOf
    <3>3. then # run
      BY <1>1, <3>2
    <3>4. n = [out |-> s.out, temps |-> rest, runs |-> [s.runs EXCEPT ![r] = then]]
      <4> HIDE DEF none, rest, runs
      <4> QED BY <2>5, <3>1
    <3> HIDE DEF then, none, rest, run
    <3> QED BY <2>4, <3>2, <3>3, <3>4
  <2>7. CASE ~run.signalled
    <3>1. n = [Failing(cleared, r, "interrupted") EXCEPT !.runs[r].signalled = TRUE]
      BY <1>8, <2>1, <2>7 DEF onSignal
    <3>2. PICK failure \in {"failed", "interrupted"} :
            Failing(cleared, r, "interrupted") =
              [out |-> s.out, temps |-> rest, runs |-> [runs EXCEPT ![r] = [runs[r] EXCEPT !.failure = failure]]]
      <4>1. cleared = [out |-> s.out, temps |-> rest, runs |-> runs]
        OBVIOUS
      <4>2. \E failure \in {"failed", "interrupted"} :
              Failing(cleared, r, "interrupted") =
                [out |-> s.out, temps |-> rest, runs |-> [runs EXCEPT ![r] = [runs[r] EXCEPT !.failure = failure]]]
        <5> HIDE DEF rest, none, runs, cleared, run
        <5>1. r \in R /\ runs \in [R -> RunOf(T)] /\ "interrupted" \in {"failed", "interrupted"}
          BY <1>1, <2>5
        <5> QED BY <4>1, <5>1, FailingIs, SMTT(40)
      <4> HIDE DEF rest, none, runs, cleared, run
      <4> QED BY <4>2
    <3> DEFINE failed == [none EXCEPT !.failure = failure]
               then == [failed EXCEPT !.signalled = TRUE]
    <3>3. Failing(cleared, r, "interrupted") = [out |-> s.out, temps |-> rest, runs |-> [s.runs EXCEPT ![r] = failed]]
      <4> HIDE DEF none, rest, runs, cleared
      <4> QED BY <2>5, <3>2
    <3>4. n = [out |-> s.out, temps |-> rest, runs |-> [s.runs EXCEPT ![r] = then]]
      <4>1. [s.runs EXCEPT ![r] = failed][r] = failed
        BY <1>1
      <4>2. \A x : [[s.runs EXCEPT ![r] = failed] EXCEPT ![r] = x] = [s.runs EXCEPT ![r] = x]
        BY <1>1
      <4> DEFINE all == [s.runs EXCEPT ![r] = failed]
      <4>3. n = [[out |-> s.out, temps |-> rest, runs |-> all] EXCEPT !.runs[r].signalled = TRUE]
        BY <3>1, <3>3
      <4>4. n = [out |-> s.out, temps |-> rest, runs |-> [all EXCEPT ![r] = [all[r] EXCEPT !.signalled = TRUE]]]
        <5> HIDE DEF all, rest, failed
        <5> QED BY <4>3
      <4> HIDE DEF failed, rest
      <4> QED BY <4>1, <4>2, <4>4
    <3>5. failed \in RunOf(T) /\ failed.pid = run.pid /\ failed.file = run.file /\ failed.pc = run.pc /\ failed.failure = failure
      <4> HIDE DEF none, run
      <4> QED BY <2>2 DEF RunOf
    <3>6. then \in RunOf(T) /\ then.pid = run.pid /\ then.file = run.file /\ then.pc = run.pc /\ then.failure = failure
          /\ then.signalled = TRUE
      <4> HIDE DEF failed, run
      <4> QED BY <3>5 DEF RunOf
    <3>7. then # run
      <4> HIDE DEF then
      <4> QED BY <2>7, <3>6
    <3>8. then.failure # "none"
      BY <3>6
    <3> HIDE DEF then, failed, rest, run
    <3> QED BY <2>4, <3>4, <3>6, <3>7, <3>8
  <2> QED BY <2>6, <2>7
<1> QED BY <1>5, <1>6, <1>7, <1>8

(* A run starts, under a number that no run has that goes on: it sweeps     *)
(* what dead ones left, and nothing else.                                   *)
LEMMA StartKeeps ==
  ASSUME NEW T, "copy" \in T, NEW R, NEW s, FInv(s, T, R), NEW r \in R, NEW pid \in Int, NEW n \in fetchArtifacts(s, r, pid)
  PROVE  FInv(n, T, R) /\ Keeps(s, n, T, R)
<1> DEFINE run == s.runs[r]
           rest == {temp \in s.temps : temp.pid # pid /\ temp.pid \in alive(s)}
           then == [run EXCEPT !.pc = "fetching", !.pid = pid]
<1>1. /\ s = [out |-> s.out, temps |-> s.temps, runs |-> s.runs] /\ s.runs \in [R -> RunOf(T)] /\ DOMAIN s.runs = R
      /\ s.out \in [T -> {"none", "wrong", "pinned"}] /\ s.temps \in SUBSET [target : T, pid : Int, run : R]
      /\ run \in RunOf(T) /\ TempsInv(s) /\ \A q \in R : RunOK(s.runs[q], s.out, T)
  BY DEF FInv, TreeOf
<1>2. run.pc = "idle" /\ pid \notin alive(s) /\ n = [sweepStaleTemps(s, pid) EXCEPT !.runs[r].pc = "fetching", !.runs[r].pid = pid]
  BY DEF fetchArtifacts, If
<1>3. n = [out |-> s.out, temps |-> rest, runs |-> [s.runs EXCEPT ![r] = then]]
  <2>1. sweepStaleTemps(s, pid) = [out |-> s.out, temps |-> rest, runs |-> s.runs]
    <3>1. sweepStaleTemps(s, pid) = [s EXCEPT !.temps = {temp \in @ : temp.pid # pid /\ temp.pid \in alive(s)}]
      BY DEF sweepStaleTemps
    <3>2. sweepStaleTemps(s, pid) = [s EXCEPT !.temps = rest]
      BY <3>1
    <3> HIDE DEF rest
    <3> QED BY <1>1, <3>2
  <2>2. n = [[out |-> s.out, temps |-> rest, runs |-> s.runs] EXCEPT !.runs[r].pc = "fetching", !.runs[r].pid = pid]
    BY <1>2, <2>1
  <2> HIDE DEF rest
  <2> QED BY <1>1, <2>2
<1>4. then \in RunOf(T) /\ then.pc = "fetching" /\ then.pid = pid /\ then.file = run.file /\ then.failure = run.failure
  BY <1>1 DEF RunOf
<1>5. n.runs[r] = then /\ n.runs \in [R -> RunOf(T)] /\ (\A q \in R \ {r} : n.runs[q] = s.runs[q])
      /\ n.out = s.out /\ n.temps = rest
  <2> HIDE DEF then, rest
  <2> QED BY <1>1, <1>3, <1>4
<1>6. n \in TreeOf(T, R)
  BY <1>1, <1>3, <1>5 DEF TreeOf
<1>7. Running(n) = Running(s) \cup {r} /\ r \notin Running(s)
  BY <1>1, <1>2, <1>4, <1>5 DEF Running
<1>8. RunOK(then, s.out, T)
  BY <1>1, <1>2, <1>4 DEF RunOK
<1>9. \A q \in Running(s) : q \in R /\ q # r /\ s.runs[q].pid # pid
  BY <1>1, <1>2, <1>7 DEF alive, Running
<1>10. \A temp \in rest : temp.run \in Running(s) /\ temp.run # r /\ temp.run \in R
  <2>1. ASSUME NEW temp \in rest PROVE temp.run \in Running(s)
    <3>1. PICK q \in Running(s) : temp.pid = s.runs[q].pid
      BY DEF alive
    <3> QED BY <1>1, <3>1 DEF TempsInv
  <2> QED BY <1>9, <2>1
<1>11. \A temp \in s.temps \ rest : temp.run \notin Running(s)
  <2>1. ASSUME NEW temp \in s.temps, temp.run \in Running(s) PROVE temp \in rest
    <3>1. temp.pid = s.runs[temp.run].pid
      BY <1>1 DEF TempsInv
    <3>2. temp.pid \in alive(s) /\ temp.pid # pid
      BY <1>2, <2>1, <3>1 DEF alive
    <3> QED BY <3>2
  <2> QED BY <2>1
<1> HIDE DEF then, rest, run
<1>12. TempsInv(n)
  <2>1. ASSUME NEW temp \in rest
        PROVE  /\ temp.pid = n.runs[temp.run].pid /\ n.runs[temp.run].pc # "idle"
               /\ n.runs[temp.run].pc \notin {"exited", "killed"} => n.runs[temp.run].file[temp.target] = "open"
               /\ \A q \in Running(n) : temp.pid = n.runs[q].pid => temp.run = q
    <3>1. temp \in s.temps /\ temp.pid # pid
      BY DEF rest
    <3>2. n.runs[temp.run] = s.runs[temp.run]
      BY <1>5, <1>10
    <3>3. \A q \in Running(n) : temp.pid = n.runs[q].pid => temp.run = q
      BY <1>1, <1>4, <1>5, <1>7, <1>9, <3>1 DEF TempsInv
    <3> QED BY <1>1, <3>1, <3>2, <3>3 DEF TempsInv
  <2>2. \A p, q \in Running(n) : n.runs[p].pid = n.runs[q].pid => p = q
    BY <1>1, <1>4, <1>5, <1>7, <1>9 DEF TempsInv
  <2> QED BY <1>5, <2>1, <2>2 DEF TempsInv
<1>13. \A q \in R : RunOK(n.runs[q], n.out, T)
  BY <1>1, <1>5, <1>8
<1> QED BY <1>5, <1>6, <1>10, <1>11, <1>12, <1>13 DEF FInv, Keeps

(* Whatever runs of fetch-artifacts fill a tree, one after the other or at  *)
(* once, failing, interrupted or killed anywhere: no step takes a pinned    *)
(* file away or puts the copy in place over files that are not; none takes  *)
(* the temp file of a run that goes on but that run, and one that starts    *)
(* finds only those; a run that says OK leaves every file as pinned, and    *)
(* one that ends of itself no temp file.  Nor may two runs that go on have  *)
(* one number (fetchArtifacts, writeVerified, sweepStaleTemps, onSignal).   *)
THEOREM TreesAreFilled ==
  ASSUME NEW T, "copy" \in T, NEW R, NEW pids \in SUBSET Int
  PROVE  /\ \A content \in {"none", "wrong", "pinned"} : FInv(Tree(T, R, content), T, R)
         /\ \A s : FInv(s, T, R) =>
              /\ \A n \in steps(s, pids) : FInv(n, T, R) /\ Keeps(s, n, T, R)
              /\ \A r \in R :
                   /\ s.runs[r].pc = "ok" => \A t \in T : s.out[t] = "pinned"
                   /\ s.runs[r].pc \in {"ok", "failed"} => \A temp \in s.temps : temp.run # r
                   /\ r \in Running(s) => \A temp \in s.temps : temp.run = r => s.runs[r].file[temp.target] = "open"
<1>1. \A content \in {"none", "wrong", "pinned"} : FInv(Tree(T, R, content), T, R)
  BY TreeFInv
<1>2. ASSUME NEW s, FInv(s, T, R), NEW n \in steps(s, pids) PROVE FInv(n, T, R) /\ Keeps(s, n, T, R)
  <2>1. DOMAIN s.runs = R /\ DOMAIN s.out = T
    BY <1>2 DEF FInv, TreeOf
  <2>2. \/ \E r \in R, pid \in pids : n \in fetchArtifacts(s, r, pid)
        \/ \E r \in Running(s) : n \in wholes(s, r) \cup finish(s, r) \cup onSignal(s, r) \cup Ended(s, r, "killed")
        \/ \E r \in Running(s), t \in T : \/ n \in begin(s, r, t) \cup fileDigest(s, r, t)
                                          \/ n \in open(s, r, t) \cup renamed(s, r, t) \cup rejected(s, r, t)
    <3>1. \/ n \in UNION {fetchArtifacts(s, r, pid) : r \in DOMAIN s.runs, pid \in pids}
          \/ n \in UNION {wholes(s, r) \cup finish(s, r) \cup onSignal(s, r) \cup Ended(s, r, "killed") : r \in Running(s)}
          \/ n \in UNION {begin(s, r, t) \cup fileDigest(s, r, t) \cup open(s, r, t) \cup renamed(s, r, t) \cup rejected(s, r, t) :
                            r \in Running(s), t \in DOMAIN s.out}
      BY <1>2 DEF steps
    <3>2. CASE n \in UNION {fetchArtifacts(s, r, pid) : r \in DOMAIN s.runs, pid \in pids}
      BY <2>1, <3>2
    <3>3. CASE n \in UNION {wholes(s, r) \cup finish(s, r) \cup onSignal(s, r) \cup Ended(s, r, "killed") : r \in Running(s)}
      BY <3>3
    <3>4. CASE n \in UNION {begin(s, r, t) \cup fileDigest(s, r, t) \cup open(s, r, t) \cup renamed(s, r, t) \cup rejected(s, r, t) :
                              r \in Running(s), t \in DOMAIN s.out}
      <4>1. \E r \in Running(s), t \in DOMAIN s.out :
              n \in begin(s, r, t) \cup fileDigest(s, r, t) \cup open(s, r, t) \cup renamed(s, r, t) \cup rejected(s, r, t)
        BY <3>4
      <4> QED BY <2>1, <4>1
    <3> QED BY <3>1, <3>2, <3>3, <3>4
  <2>3. CASE \E r \in R, pid \in pids : n \in fetchArtifacts(s, r, pid)
    BY <1>2, <2>3, StartKeeps
  <2>4. CASE \E r \in Running(s) : n \in wholes(s, r) \cup finish(s, r) \cup onSignal(s, r) \cup Ended(s, r, "killed")
    BY <1>2, <2>4, EndKeeps
  <2>5. CASE \E r \in Running(s), t \in T : \/ n \in begin(s, r, t) \cup fileDigest(s, r, t)
                                            \/ n \in open(s, r, t) \cup renamed(s, r, t) \cup rejected(s, r, t)
    BY <1>2, <2>5, BeginKeeps, WriteKeeps
  <2> QED BY <2>2, <2>3, <2>4, <2>5
<1>3. ASSUME NEW s, FInv(s, T, R), NEW r \in R
      PROVE  /\ s.runs[r].pc = "ok" => \A t \in T : s.out[t] = "pinned"
             /\ s.runs[r].pc \in {"ok", "failed"} => \A temp \in s.temps : temp.run # r
             /\ r \in Running(s) => \A temp \in s.temps : temp.run = r => s.runs[r].file[temp.target] = "open"
  <2>1. \A temp \in s.temps : temp.target \in T /\ (temp.run = r =>
          (s.runs[r].pc \notin {"exited", "killed"} => s.runs[r].file[temp.target] = "open"))
    BY <1>3 DEF FInv, TreeOf, TempsInv
  <2>2. RunOK(s.runs[r], s.out, T)
    BY <1>3 DEF FInv
  <2>3. r \in Running(s) => s.runs[r].pc \in {"fetching", "copying"}
    BY DEF Running
  <2> QED BY <2>1, <2>2, <2>3 DEF RunOK
<1> QED BY <1>1, <1>2, <1>3
=============================================================================
