------------------------------ MODULE Release ------------------------------
(***************************************************************************)
(* The site's artifacts on their way to a reader: one operator promotes    *)
(* trees into public/, uploads them to the bucket and deploys, each a      *)
(* script that may stop between any two writes, while a reader's boot      *)
(* reads indexes and manifests one after another through the edge worker   *)
(* (pipeline/release, scripts/, infra/, lib/qed64-boot.ts).                *)
(*                                                                         *)
(* A toolchain release is one runtime with its library packs; runtime and  *)
(* packs are served from the prefix of the release the deployed worker     *)
(* names, and always complete there.  A tree is what one bake made for a   *)
(* release: its snapshot is named by its digest.  The two indexes are the  *)
(* site's own: mutable ones, read by every shell, and a copy per runtime.  *)
(* A pack's Lean version is told by the pack.                              *)
(***************************************************************************)
EXTENDS Integers, Sequences

CONSTANTS
  Releases,   \* toolchain releases; a release's runtime goes by its name
  Trees,      \* staged trees
  PacksOf,    \* [Releases -> its packs]
  ReleaseOf,  \* [Trees -> the release it was baked for]
  First,      \* the tree that is published and deployed at the start
  Latest, None

Keys == Releases \cup {Latest}
Profiles(q) == [runtime |-> q, packs |-> PacksOf[q]]

ASSUME ReleaseAssumption ==
  /\ ReleaseOf \in [Trees -> Releases] /\ First \in Trees /\ Latest \notin Releases
  /\ None \notin Trees /\ \A q \in Releases : None # Profiles(q)

VARIABLES
  pub,       \* public/: what its runtime manifest, pack manifests and two indexes name
  baked,     \* trees whose snapshot is in public/snapshots
  record,    \* toolchain/lean4-wasm64-release.json
  job,       \* the writes the running script has still to make
  snapz,     \* trees whose snapshot is in the bucket
  snapIndex, \* [Keys -> the tree the bucket's snapshot index names, or None]
  profIndex, \* [Keys -> what the bucket's profile index names, or None]
  deployed,  \* the release of the deployed shell and worker
  uploaded,  \* releases whose upload has ended
  back,      \* the tracked files of the deployment before
  reader     \* the boot of a tab

local == <<pub, baked, record>>
bucket == <<snapz, snapIndex, profIndex>>
site == <<deployed, uploaded, back>>
vars == <<local, job, bucket, site, reader>>

Closed == [pc |-> "closed"]
Tracked(p, q) == [pub |-> p, record |-> q]

Init ==
  LET q == ReleaseOf[First] IN
  /\ pub = [runtime |-> q, packs |-> PacksOf[q], snapshots |-> First, profiles |-> Profiles(q)]
  /\ baked = {First} /\ record = q /\ job = <<>>
  /\ snapz = {First}
  /\ snapIndex = [k \in Keys |-> IF k = Latest THEN First ELSE None]     \* from before the copies
  /\ profIndex = [k \in Keys |-> IF k = Latest THEN Profiles(q) ELSE None]
  /\ deployed = q /\ uploaded = {q} /\ back = Tracked(pub, q)
  /\ reader = Closed

-----------------------------------------------------------------------------
Packs == {PacksOf[q] : q \in Releases}
ProfileIndexes == {Profiles(q) : q \in Releases}
Roots == [runtime : Releases, packs : Packs, snapshots : Trees, profiles : ProfileIndexes]

(* What a promotion and an upload write.                                   *)
Switching == ({"packs"} \X Packs) \cup ({"snapshots"} \X Trees) \cup ({"runtime"} \X Releases)
               \cup ({"profiles"} \X ProfileIndexes)
Uploading == {<<"snapz">>} \cup ({"snapIndex"} \X Keys \X Trees) \cup ({"profIndex"} \X Keys \X ProfileIndexes)

(* A boot under way or ended: what it has read so far.                     *)
Boots == [pc : {"profiles", "profilesCopy", "runtime", "packs", "snapshots", "snapshotsCopy", "region",
                "booted", "stale", "unpaired", "missing"},
          pin : Releases, index : ProfileIndexes \cup {None}, runtime : Releases \cup {None},
          packs : Packs \cup {None}, snapshots : Trees \cup {None}, lost : BOOLEAN, deploys : BOOLEAN]

TypeOK ==
  /\ pub \in Roots /\ baked \subseteq Trees /\ record \in Releases
  /\ job \in Seq(Switching) \cup Seq(Uploading)
  /\ snapz \subseteq Trees
  /\ snapIndex \in [Keys -> Trees \cup {None}] /\ profIndex \in [Keys -> ProfileIndexes \cup {None}]
  /\ deployed \in Releases /\ uploaded \subseteq Releases /\ back \in [pub : Roots, record : Releases]
  /\ reader = Closed \/ reader \in Boots

-----------------------------------------------------------------------------
(* promote-staging.                                                        *)

(* verify-release: the profile index is the runtime's and describes its    *)
(* manifests.  (It does not read the snapshot index.)                      *)
Verifies ==
  /\ pub.profiles.runtime = pub.runtime
  /\ pub.packs = PacksOf[pub.runtime] /\ pub.profiles.packs = pub.packs

(* A promotion without packs, as the adoption asks for it: the served packs *)
(* are the release's own, and public/ has passed verify-release, so that   *)
(* the served index describes them.  (promote-staging run by hand compares *)
(* the Lean version only.)                                                 *)
KeepsPacks(t) == pub.packs = PacksOf[ReleaseOf[t]] /\ pub.profiles.packs = pub.packs

(* The staged packs' index, or the served one re-pointed.                  *)
StagedProfiles(t) == Profiles(ReleaseOf[t])
Repointed(t) == [pub.profiles EXCEPT !.runtime = ReleaseOf[t]]

(* Mutant: the runtime flips first. *)
SwitchesRuntimeFirst(t, withPacks) ==
  <<<<"runtime", ReleaseOf[t]>>, <<"snapshots", t>>>>
    \o (IF withPacks THEN <<<<"packs", PacksOf[ReleaseOf[t]]>>>> ELSE <<>>)
    \o <<<<"profiles", IF withPacks THEN StagedProfiles(t) ELSE Repointed(t)>>>>

(* The switches, in their order: the profile index is the commit record.   *)
Switches(t, withPacks) ==
  (IF withPacks THEN <<<<"packs", PacksOf[ReleaseOf[t]]>>>> ELSE <<>>)
    \o <<<<"snapshots", t>>, <<"runtime", ReleaseOf[t]>>,
         <<"profiles", IF withPacks THEN StagedProfiles(t) ELSE Repointed(t)>>>>

(* The staging of t is verified and its snapshot copied beside the others. *)
(* Packs may be staged always.  A promotion that stopped is run again.     *)
Promote(t) ==
  /\ job = <<>>
  /\ \E withPacks \in BOOLEAN :
       /\ withPacks \/ KeepsPacks(t)
       /\ job' = Switches(t, withPacks)
  /\ baked' = baked \cup {t}
  /\ UNCHANGED <<pub, record, bucket, site, reader>>

Switch ==
  /\ job # <<>> /\ Head(job)[1] \in DOMAIN pub
  /\ pub' = [pub EXCEPT ![Head(job)[1]] = Head(job)[2]]
  /\ job' = Tail(job)
  /\ UNCHANGED <<baked, record, bucket, site, reader>>

(* The landing: the adopted release's record.                              *)
Land(q) ==
  /\ job = <<>> /\ record # q
  /\ record' = q
  /\ UNCHANGED <<pub, baked, job, bucket, site, reader>>

-----------------------------------------------------------------------------
(* upload-artifacts.                                                       *)

Preflight ==
  /\ pub.runtime = record
  /\ pub.snapshots \in baked /\ ReleaseOf[pub.snapshots] = record
  /\ pub.profiles.runtime = record

PinsNothing == <<>>   \* mutant: the deployed pairing gets no copies

(* What R2 serves now, when it is another runtime's and has no copy yet.   *)
Pins ==
  LET s == snapIndex[Latest]
      p == profIndex[Latest]
      sq == ReleaseOf[s]
  IN (IF sq # record /\ snapIndex[sq] = None THEN <<<<"snapIndex", sq, s>>>> ELSE <<>>)
     \o (IF p.runtime # record /\ profIndex[p.runtime] = None THEN <<<<"profIndex", p.runtime, p>>>> ELSE <<>>)

(* Mutant: the copies are written before the snapshots they name. *)
UploadIndexesFirst ==
  /\ job = <<>> /\ Preflight
  /\ job' = Pins
       \o <<<<"snapIndex", record, pub.snapshots>>, <<"profIndex", record, pub.profiles>>,
            <<"snapz">>,
            <<"snapIndex", Latest, pub.snapshots>>, <<"profIndex", Latest, pub.profiles>>>>
  /\ UNCHANGED <<local, bucket, site, reader>>

Upload ==
  /\ job = <<>> /\ Preflight
  /\ job' = Pins
       \o <<<<"snapz">>,
            <<"snapIndex", record, pub.snapshots>>, <<"profIndex", record, pub.profiles>>,
            <<"snapIndex", Latest, pub.snapshots>>, <<"profIndex", Latest, pub.profiles>>>>
  /\ UNCHANGED <<local, bucket, site, reader>>

(* The snapshots land in any order, then the indexes one by one.           *)
PutSnapshot ==
  /\ job # <<>> /\ Head(job)[1] = "snapz"
  /\ IF baked \subseteq snapz THEN job' = Tail(job) /\ UNCHANGED snapz
     ELSE (\E t \in baked \ snapz : snapz' = snapz \cup {t}) /\ UNCHANGED job
  /\ UNCHANGED <<local, snapIndex, profIndex, site, reader>>

PutIndex ==
  /\ job # <<>> /\ Head(job)[1] \in {"snapIndex", "profIndex"}
  /\ IF Head(job)[1] = "snapIndex"
     THEN snapIndex' = [snapIndex EXCEPT ![Head(job)[2]] = Head(job)[3]] /\ UNCHANGED profIndex
     ELSE profIndex' = [profIndex EXCEPT ![Head(job)[2]] = Head(job)[3]] /\ UNCHANGED snapIndex
  /\ job' = Tail(job)
  /\ uploaded' = IF Tail(job) = <<>> THEN uploaded \cup {record} ELSE uploaded
  /\ UNCHANGED <<local, snapz, deployed, back, reader>>

(* A script fails or is killed between two writes.                         *)
Stop ==
  /\ job # <<>> /\ job' = <<>>
  /\ UNCHANGED <<local, bucket, site, reader>>

-----------------------------------------------------------------------------
(* deploy-app, after the tests: the commit's record and manifests agree.   *)

Accepts ==
  /\ Verifies
  /\ pub.runtime = record /\ ReleaseOf[pub.snapshots] = record

(* Shell and worker ship together, after the upload (docs/DEPLOY.md).      *)
Deploy ==
  /\ job = <<>> /\ Accepts /\ record \in uploaded
  /\ deployed # record
  /\ deployed' = record /\ back' = Tracked(pub, record)
  /\ reader' = IF reader = Closed THEN reader ELSE [reader EXCEPT !.deploys = TRUE]
  /\ UNCHANGED <<local, job, bucket, uploaded>>

(* The rollback reverts the commit; it is deployed like any other.         *)
Revert ==
  /\ job = <<>> /\ Tracked(pub, record) # back
  /\ pub' = back.pub /\ record' = back.record
  /\ UNCHANGED <<baked, job, bucket, site, reader>>

-----------------------------------------------------------------------------
(* A boot.                                                                 *)

Ends(how) == reader' = [reader EXCEPT !.pc = how]
Only == UNCHANGED <<local, job, bucket, site>>

Open ==
  /\ reader = Closed
  /\ reader' = [pc |-> "profiles", pin |-> deployed, index |-> None, runtime |-> None, packs |-> None,
                snapshots |-> None, lost |-> FALSE, deploys |-> FALSE]
  /\ Only

(* pairedCopyOr: an index of another runtime gives way to the pinned       *)
(* runtime's copy, if it can be read and is paired.                        *)
Mispaired(runtime) == runtime # reader.pin
PairedCopyOr(copy, mispaired, served) == IF copy # None /\ ~mispaired THEN copy ELSE served

ReadProfiles ==
  /\ reader.pc = "profiles"
  /\ reader' = [reader EXCEPT !.index = profIndex[Latest],
                              !.pc = IF Mispaired(profIndex[Latest].runtime) THEN "profilesCopy" ELSE "runtime"]
  /\ Only

ReadProfilesCopy ==
  /\ reader.pc = "profilesCopy"
  /\ \/ reader' = [reader EXCEPT !.pc = "runtime",
                                 !.index = LET copy == profIndex[reader.pin] IN PairedCopyOr(copy, Mispaired(copy.runtime), @)]
     \/ reader' = [reader EXCEPT !.pc = "runtime", !.lost = TRUE]
  /\ Only

(* What /runtime/ and the packs' paths serve: the deployed record's prefix. *)
Routed == deployed
InBucket(t) == t \in snapz

(* The pinned manifest is in the deployed release's prefix only if that is *)
(* the pinned release; the mutable one is the deployed release's.          *)
ReadRuntime ==
  /\ reader.pc = "runtime"
  /\ reader' = [reader EXCEPT !.runtime = Routed, !.pc = "packs"]
  /\ Only

(* The pack manifest's name is the same in every release; the index says   *)
(* which release the page pairs with.                                      *)
InstallPacks ==
  /\ reader.pc = "packs"
  /\ IF PacksOf[Routed] # reader.index.packs THEN Ends("stale")
     ELSE reader' = [reader EXCEPT !.packs = PacksOf[Routed], !.pc = "snapshots"]
  /\ Only

ReadSnapshots ==
  /\ reader.pc = "snapshots"
  /\ reader' = [reader EXCEPT !.snapshots = snapIndex[Latest],
                              !.pc = IF Mispaired(ReleaseOf[snapIndex[Latest]]) THEN "snapshotsCopy" ELSE "region"]
  /\ Only

ReadSnapshotsCopy ==
  /\ reader.pc = "snapshotsCopy"
  /\ \/ reader' = [reader EXCEPT !.pc = "region",
                                 !.snapshots = LET copy == snapIndex[reader.pin] IN PairedCopyOr(copy, Mispaired(ReleaseOf[copy]), @)]
     \/ reader' = [reader EXCEPT !.pc = "region", !.lost = TRUE]
  /\ Only

(* A snapshot of another runtime is refused before its bytes are asked for. *)
Unpaired == ReleaseOf[reader.snapshots] # reader.runtime
LoadRegion ==
  /\ reader.pc = "region"
  /\ Ends(IF Unpaired THEN "unpaired" ELSE IF ~InBucket(reader.snapshots) THEN "missing" ELSE "booted")
  /\ Only

Leave ==
  /\ reader.pc \in {"booted", "stale", "unpaired", "missing"}
  /\ reader' = Closed
  /\ Only

-----------------------------------------------------------------------------
Next ==
  \/ \E t \in Trees : Promote(t)
  \/ \E q \in Releases : Land(q)
  \/ Switch \/ Upload \/ PutSnapshot \/ PutIndex \/ Stop \/ Deploy \/ Revert
  \/ Open \/ ReadProfiles \/ ReadProfilesCopy \/ ReadRuntime \/ InstallPacks
  \/ ReadSnapshots \/ ReadSnapshotsCopy \/ LoadRegion \/ Leave

Spec == Init /\ [][Next]_vars

-----------------------------------------------------------------------------
(* Whenever an upload stops, every index in the bucket names snapshots that *)
(* are there, each copy is its own runtime's, and a profile index describes *)
(* the packs of the runtime it names: "BEFORE any index that names them"    *)
(* (upload-artifacts), and no half-promoted public/ gets past its checks.   *)
NothingDangles ==
  \A k \in Keys :
    /\ snapIndex[k] # None => (snapIndex[k] \in snapz /\ k \in {Latest, ReleaseOf[snapIndex[k]]})
    /\ profIndex[k] # None => (k \in {Latest, profIndex[k].runtime}
                               /\ profIndex[k] = Profiles(profIndex[k].runtime))

(* A boot fails for its pairing only when a copy could not be read or the   *)
(* site was deployed under it, whatever uploads, stopped uploads and        *)
(* rollbacks it straddles; and one that ends well runs its own packs.       *)
ReaderIsPaired ==
  /\ reader.pc \in {"stale", "unpaired", "missing"} => (reader.lost \/ reader.deploys)
  /\ (reader.pc = "booted" /\ ~reader.lost) => reader.packs = PacksOf[reader.runtime]

(* In every promotion, interrupted and run again as they may be, the served *)
(* runtime changes only when its snapshots and packs are already served,    *)
(* and the profile index only to the runtime that is served: what the       *)
(* switch order of promote-staging is for.                                  *)
RootsSwitchLast ==
  [][job # <<>> =>
       /\ pub.runtime # pub'.runtime =>
            (ReleaseOf[pub.snapshots] = pub'.runtime /\ pub.packs = PacksOf[pub'.runtime])
       /\ pub.profiles.runtime # pub'.profiles.runtime => pub.runtime = pub'.profiles.runtime]_vars
=============================================================================
