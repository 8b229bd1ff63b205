--------------------------- MODULE PackInstallProofs ---------------------------
(* Proofs about the installs of the library packs, for every number of      *)
(* tabs, sessions and packs.                                                *)
EXTENDS PackInstall, TLAPS

(* A session past its start has a page, and one that installs has a pack.   *)
HasPage ==
  \A s \in Sessions :
    /\ pc[s] \notin {"idle", "gone"} => page[s] \in Pages
    /\ pc[s] \in Installing => at[s] \in Packs /\ plan[s] # "none"
    /\ pc[s] = "failed" /\ why[s] = "storage" => at[s] \in Packs
    /\ why[s] = "consumed" => pc[s] = "failed"

(* What the page has given away is still to be installed again by every     *)
(* loop that no other boot took a pack from.                                *)
SeesSpent ==
  \A s \in Sessions \ robbed : InLoop(s) =>
    \A p \in Packs : installed[page[s]][p] = Spent => p \in todo[s] \cup {at[s]}

At(s, p) == pc[s] \in Storing /\ at[s] = p

(* An install that no other overlaps is the only one of its pack, and the   *)
(* only one that can have a writer.                                         *)
Alone(p) ==
  \A s \in Sessions \ contended[p] : At(s, p) =>
    /\ \A r \in Sessions : At(r, p) => r = s
    /\ writers[p] \subseteq {s}

(* Its files are then the ones its steps left, so it meets no failure but   *)
(* the network's and the storage limit's.                                   *)
ItsFiles(p) ==
  \A s \in Sessions \ contended[p] : At(s, p) =>
    /\ pc[s] \in {"clearing", "creating", "opening", "removing", "moving", "checking", "marking"} => writers[p] = {}
    /\ pc[s] = "opening" => staging[p] # "absent"
    /\ pc[s] \in {"removing", "moving"} => staging[p] = "whole"
    /\ pc[s] = "moving" => pack[p] = "absent"
    /\ pc[s] \in {"checking", "marking", "collecting"} => pack[p] = "whole" /\ origin[p] = s /\ staging[p] = "absent"
    /\ pc[s] = "collecting" => p \in marked
    /\ pc[s] \in {"unmarking", "cleaning"} => why[s] # "storage"

(* While no two installs of a pack overlapped and its file could be read:   *)
(* the marker stands for a whole pack, an install under way has none, and   *)
(* what a page holds or a worker mounted is the file that is there.         *)
Kept(p) ==
  contended[p] = {} /\ p \notin misread =>
    /\ p \in marked => pack[p] = "whole"
    /\ \A s \in Sessions : At(s, p) /\ pc[s] # "collecting" => p \notin marked
    /\ \A s \in Sessions : pc[s] = "booted" /\ mounted[s][p] \in Sessions => p \in marked /\ origin[p] = mounted[s][p]
    /\ \A g \in Pages : installed[g][p] \in Sessions => p \in marked /\ origin[p] = installed[g][p]

(* And while no install of it was cut short: what is left between two.      *)
Tidy(p) ==
  contended[p] = {} /\ p \notin cut =>
    /\ (\A s \in Sessions : ~At(s, p)) => (writers[p] = {} => staging[p] = "absent") /\ (pack[p] # "absent" => Whole(p))
    /\ \A s \in Sessions :
         At(s, p) /\ pc[s] \in {"clearing", "creating", "opening", "writing", "removing", "moving", "cleaning"} =>
           (pack[p] # "absent" => Whole(p))

(* A pack file is some session's.                                           *)
HasOrigin(p) == pack[p] # "absent" => origin[p] \in Sessions

Stored(p) == Alone(p) /\ ItsFiles(p) /\ Kept(p) /\ Tidy(p) /\ HasOrigin(p)

(* The inductive invariant.                                                 *)
IInv == TypeOK /\ HasPage /\ SeesSpent /\ MountsItsBytes /\ BlockedOnlyByAnother /\ \A p \in Packs : Stored(p)

Steps == Installing \cup Over \cup {"idle", "wanting", "ensuring"}
Plans0 == {"none", "page", "exact", "loop"}
Causes == {"none", "network", "quota", "storage", "consumed"}

(* What a page holds is nothing else than what it says.                     *)
LEMMA KindsDiffer == Nobody \notin Sessions /\ {Nothing, Bytes, Spent} \cap Sessions = {} /\ Spent \notin {Nothing, Bytes}
BY PackAssumption DEF Nobody, Nothing, Bytes, Spent, Sessions

(* What a step over the page's map leaves of the map and the snapshots.     *)
LEMMA MapLeaves ==
  ASSUME TypeOK, NEW s \in Sessions, page[s] \in Pages,
         NEW map \in [Packs -> Kinds], NEW set \in SUBSET Packs, NEW given \in SUBSET Packs,
         NEW left \in SUBSET Packs, NEW rest \in SUBSET Packs, Map(s, map, set, given, left, rest)
  PROVE  /\ installed' \in [Pages -> [Packs -> Kinds]] /\ installed'[page[s]] = map
         /\ \A g \in Pages : g # page[s] => installed'[g] = installed[g]
         /\ todo' \in [Sessions -> SUBSET Packs] /\ todo'[s] = left
         /\ \A r \in Sessions \ {s} : todo[r] \subseteq todo'[r]
         /\ ahead' \in [Sessions -> SUBSET Packs]
         /\ robbed' \subseteq Sessions /\ robbed \subseteq robbed'
         /\ given # {} => \A r \in Sessions \ {s} : InLoop(r) /\ page[r] = page[s] => r \in robbed'
<1>1. installed' = [installed EXCEPT ![page[s]] = map]
  BY DEF Map
<1>2. installed' \in [Pages -> [Packs -> Kinds]] /\ installed'[page[s]] = map
      /\ \A g \in Pages : g # page[s] => installed'[g] = installed[g]
  BY <1>1 DEF TypeOK
<1> DEFINE here == {r \in Sessions \ {s} : page[r] = page[s]}
<1>3. todo' = [r \in Sessions |-> IF r = s THEN left
                                  ELSE IF r \in here THEN todo[r] \cup ((ahead[r] \ set) \cap given) ELSE todo[r]]
  BY DEF Map
<1>4. ahead' = [r \in Sessions |-> IF r = s THEN rest ELSE IF r \in here THEN ahead[r] \ (set \cup given) ELSE ahead[r]]
  BY DEF Map
<1>5. todo \in [Sessions -> SUBSET Packs] /\ ahead \in [Sessions -> SUBSET Packs] /\ robbed \subseteq Sessions
  BY DEF TypeOK
<1>6. robbed' = IF given = {} THEN robbed ELSE robbed \cup {r \in here : InLoop(r)}
  BY DEF Map
<1>7. robbed' \subseteq Sessions /\ robbed \subseteq robbed'
      /\ (given # {} => \A r \in Sessions \ {s} : InLoop(r) /\ page[r] = page[s] => r \in robbed')
  BY <1>5, <1>6
<1> HIDE DEF here
<1>8. todo' \in [Sessions -> SUBSET Packs] /\ todo'[s] = left /\ \A r \in Sessions \ {s} : todo[r] \subseteq todo'[r]
  BY <1>3, <1>5
<1>9. ahead' \in [Sessions -> SUBSET Packs]
  BY <1>4, <1>5
<1> QED BY <1>2, <1>7, <1>8, <1>9

(* A session's own state after a step that keeps it at an install.          *)
Boot(s, step, p, for) ==
  /\ pc' \in [Sessions -> Steps] /\ pc'[s] = step
  /\ at' \in [Sessions -> Packs \cup {0}] /\ at'[s] = p
  /\ plan' \in [Sessions -> Plans0] /\ plan'[s] = for
  /\ \A r \in Sessions \ {s} : pc'[r] = pc[r] /\ at'[r] = at[r] /\ plan'[r] = plan[r]

(* A step and an install set so leave the session's own state as Boot says. *)
LEMMA BootLeaves ==
  ASSUME TypeOK, NEW s \in Sessions, NEW step \in Steps, NEW p \in Packs \cup {0}, NEW for \in Plans0,
         Goes(s, step), Plans(s, p, for)
  PROVE  Boot(s, step, p, for)
<1>1. pc' = [pc EXCEPT ![s] = step] /\ at' = [at EXCEPT ![s] = p] /\ plan' = [plan EXCEPT ![s] = for]
  BY DEF Goes, Plans
<1>2. pc \in [Sessions -> Steps] /\ at \in [Sessions -> Packs \cup {0}] /\ plan \in [Sessions -> Plans0]
  BY DEF TypeOK, Steps, Plans0
<1> QED BY <1>1, <1>2 DEF Boot

(* What is true of the page and the session after a step that goes on from  *)
(* the map `map`: no worker has what is spent, and the files are the map's. *)
Left(s, map) ==
  /\ pc' \in [Sessions -> Steps] /\ at' \in [Sessions -> Packs \cup {0}] /\ plan' \in [Sessions -> Plans0]
  /\ pc'[s] \in {"reading", "booted", "failed", "ensuring"}
  /\ \A r \in Sessions \ {s} : pc'[r] = pc[r] /\ at'[r] = at[r] /\ plan'[r] = plan[r] /\ why'[r] = why[r] /\ mounted'[r] = mounted[r]
  /\ pc'[s] = "reading" => at'[s] \in Packs /\ plan'[s] # "none"
  /\ why' \in [Sessions -> Causes] /\ why'[s] = IF pc'[s] = "failed" THEN "consumed" ELSE why[s]
  /\ mounted' \in [Sessions -> [Packs -> Kinds]]
  /\ pc'[s] = "booted" => mounted'[s] = map /\ \A p \in Packs : map[p] # Spent
  /\ ready' \in [Pages -> {"none", "installing", "ready"}]
  /\ installed' \in [Pages -> [Packs -> Kinds]]
  /\ \A g \in Pages : g # page[s] => installed'[g] = installed[g]
  /\ \A p \in Packs : installed'[page[s]][p] \in Sessions => installed'[page[s]][p] = map[p]
  /\ todo' \in [Sessions -> SUBSET Packs] /\ ahead' \in [Sessions -> SUBSET Packs] /\ robbed' \subseteq Sessions
  /\ robbed \subseteq robbed'

(* The names of the steps and of the plans.                                 *)
LEMMA StepNames ==
  /\ {"reading", "booted", "failed", "ensuring", "memory", "cleaning"} \subseteq Steps /\ Storing \subseteq Steps
  /\ {"none", "page", "exact", "loop"} = Plans0 /\ {"none", "network", "quota", "storage", "consumed"} = Causes
  /\ "reading" \in Installing /\ {"booted", "failed", "ensuring"} \cap Installing = {}
  /\ {"reading", "booted", "failed", "ensuring", "memory"} \cap Storing = {}
BY DEF Steps, Storing, Installing, Over, Plans0, Causes

(* Whatever it goes on with, a session leaves the page's map as it made it  *)
(* but for what it transferred, and its own pack out of the store's steps.  *)
LEMMA GoesOnLeaves ==
  ASSUME TypeOK, NEW s \in Sessions, page[s] \in Pages,
         NEW map \in [Packs -> Kinds], NEW set \in SUBSET Packs, NEW left \in SUBSET Packs, NEW rest \in SUBSET Packs,
         NEW for \in {"page", "exact", "loop"}, GoesOn(s, map, set, left, rest, for)
  PROVE  Left(s, map)
<1>0. why \in [Sessions -> Causes] /\ mounted \in [Sessions -> [Packs -> Kinds]]
      /\ ready \in [Pages -> {"none", "installing", "ready"}]
  BY DEF TypeOK, Causes
<1>1. CASE \E p \in left :
             /\ \A q \in left : p <= q
             /\ Plans(s, p, for) /\ Goes(s, "reading")
             /\ Map(s, map, set, {}, left \ {p}, {q \in rest : q > p})
             /\ UNCHANGED <<ready, why, mounted>>
  <2>1. PICK p \in left : /\ Plans(s, p, for) /\ Goes(s, "reading")
                          /\ Map(s, map, set, {}, left \ {p}, {q \in rest : q > p})
                          /\ UNCHANGED <<ready, why, mounted>>
    BY <1>1
  <2>2. p \in Packs /\ left \ {p} \in SUBSET Packs /\ {q \in rest : q > p} \in SUBSET Packs /\ {} \in SUBSET Packs
    OBVIOUS
  <2>3. Boot(s, "reading", p, for)
    BY <2>1, <2>2, BootLeaves, StepNames
  <2>4. /\ installed' \in [Pages -> [Packs -> Kinds]] /\ installed'[page[s]] = map
        /\ \A g \in Pages : g # page[s] => installed'[g] = installed[g]
        /\ todo' \in [Sessions -> SUBSET Packs] /\ ahead' \in [Sessions -> SUBSET Packs]
        /\ robbed' \subseteq Sessions /\ robbed \subseteq robbed'
    BY <2>1, <2>2, MapLeaves
  <2> QED BY <1>0, <2>1, <2>2, <2>3, <2>4 DEF Boot, Left
<1>2. CASE left = {} /\ for = "loop" /\ Boots(s, map, set)
  <2> DEFINE given == {p \in Packs : map[p] = Bytes}
             kept == [p \in Packs |-> IF p \in given THEN Spent ELSE map[p]]
  <2>1. Plans(s, 0, "none") /\ UNCHANGED ready
    BY <1>2 DEF Boots
  <2>2. CASE /\ \E p \in Packs : map[p] = Spent
             /\ Goes(s, "failed") /\ why' = [why EXCEPT ![s] = "consumed"] /\ UNCHANGED mounted
             /\ Map(s, map, set, {}, {}, {})
    <3>1. Boot(s, "failed", 0, "none")
      BY <2>1, <2>2, BootLeaves, StepNames
    <3>2. /\ installed' \in [Pages -> [Packs -> Kinds]] /\ installed'[page[s]] = map
          /\ \A g \in Pages : g # page[s] => installed'[g] = installed[g]
          /\ todo' \in [Sessions -> SUBSET Packs] /\ ahead' \in [Sessions -> SUBSET Packs]
          /\ robbed' \subseteq Sessions /\ robbed \subseteq robbed'
      <4>1. Map(s, map, set, {}, {}, {}) /\ {} \in SUBSET Packs
        BY <2>2
      <4> QED BY <4>1, MapLeaves
    <3>3. why' \in [Sessions -> Causes] /\ why'[s] = "consumed" /\ \A r \in Sessions \ {s} : why'[r] = why[r]
      BY <1>0, <2>2, StepNames
    <3> QED BY <1>0, <2>1, <2>2, <3>1, <3>2, <3>3 DEF Boot, Left
  <2>3. CASE /\ \A p \in Packs : map[p] # Spent
             /\ Goes(s, "booted") /\ mounted' = [mounted EXCEPT ![s] = map] /\ UNCHANGED why
             /\ Map(s, kept, set, given, {}, {})
    <3>1. Boot(s, "booted", 0, "none")
      BY <2>1, <2>3, BootLeaves, StepNames
    <3>2. kept \in [Packs -> Kinds] /\ given \in SUBSET Packs /\ \A p \in Packs : kept[p] \in Sessions => kept[p] = map[p]
      BY KindsDiffer DEF Kinds
    <3>3. /\ installed' \in [Pages -> [Packs -> Kinds]] /\ installed'[page[s]] = kept
          /\ \A g \in Pages : g # page[s] => installed'[g] = installed[g]
          /\ todo' \in [Sessions -> SUBSET Packs] /\ ahead' \in [Sessions -> SUBSET Packs]
          /\ robbed' \subseteq Sessions /\ robbed \subseteq robbed'
      <4>1. Map(s, kept, set, given, {}, {}) /\ {} \in SUBSET Packs
        BY <2>3
      <4> HIDE DEF given, kept
      <4> QED BY <3>2, <4>1, MapLeaves
    <3> HIDE DEF given, kept
    <3>4. mounted' \in [Sessions -> [Packs -> Kinds]] /\ mounted'[s] = map /\ \A r \in Sessions \ {s} : mounted'[r] = mounted[r]
      BY <1>0, <2>3
    <3> QED BY <1>0, <2>1, <2>3, <3>1, <3>2, <3>3, <3>4 DEF Boot, Left
  <2> QED BY <1>2, <2>2, <2>3 DEF Boots
<1>3. CASE /\ left = {} /\ for # "loop"
           /\ Plans(s, 0, "none") /\ Goes(s, "ensuring")
           /\ ready' = [ready EXCEPT ![page[s]] = "ready"]
           /\ Map(s, map, set, {}, {}, {})
           /\ UNCHANGED <<why, mounted>>
  <2>1. Boot(s, "ensuring", 0, "none")
    BY <1>3, BootLeaves, StepNames
  <2>2. /\ installed' \in [Pages -> [Packs -> Kinds]] /\ installed'[page[s]] = map
        /\ \A g \in Pages : g # page[s] => installed'[g] = installed[g]
        /\ todo' \in [Sessions -> SUBSET Packs] /\ ahead' \in [Sessions -> SUBSET Packs]
        /\ robbed' \subseteq Sessions /\ robbed \subseteq robbed'
    BY <1>3, MapLeaves
  <2>3. ready' \in [Pages -> {"none", "installing", "ready"}]
    BY <1>0, <1>3
  <2> QED BY <1>0, <1>3, <2>1, <2>2, <2>3 DEF Boot, Left
<1> QED BY <1>1, <1>2, <1>3 DEF GoesOn

(* The loops of the other boots of the page after the map has changed: what *)
(* was given away, a boot took; what is spent besides was so before.        *)
LEMMA OthersSee ==
  ASSUME TypeOK, HasPage, SeesSpent, NEW s \in Sessions, page[s] \in Pages, page' = page,
         NEW map \in [Packs -> Kinds], NEW set \in SUBSET Packs, NEW given \in SUBSET Packs,
         NEW left \in SUBSET Packs, NEW rest \in SUBSET Packs, Map(s, map, set, given, left, rest),
         \A p \in Packs : map[p] = Spent => installed[page[s]][p] = Spent \/ given # {},
         NEW r \in Sessions \ {s}, r \notin robbed', pc'[r] = pc[r], plan'[r] = plan[r], at'[r] = at[r], InLoop(r)',
         NEW p \in Packs, installed'[page[r]][p] = Spent
  PROVE  p \in todo'[r] \cup {at'[r]}
<1>1. /\ installed'[page[s]] = map /\ \A g \in Pages : g # page[s] => installed'[g] = installed[g]
      /\ todo[r] \subseteq todo'[r] /\ robbed \subseteq robbed'
      /\ given # {} /\ InLoop(r) /\ page[r] = page[s] => r \in robbed'
  BY MapLeaves
<1>2. InLoop(r) /\ r \notin robbed /\ page[r] \in Pages
  BY <1>1, StepNames DEF InLoop, HasPage, Installing, Storing
<1>3. installed[page[r]][p] = Spent
  BY <1>1, <1>2
<1> QED BY <1>1, <1>2, <1>3 DEF SeesSpent

(* Going on keeps what every loop sees of the spent packs, and no worker    *)
(* boots with one.                                                          *)
LEMMA GoesOnSees ==
  ASSUME IInv, NEW s \in Sessions, page[s] \in Pages, page' = page,
         NEW map \in [Packs -> Kinds], NEW set \in SUBSET Packs, NEW left \in SUBSET Packs, NEW rest \in SUBSET Packs,
         NEW for \in {"page", "exact", "loop"}, GoesOn(s, map, set, left, rest, for),
         \A p \in Packs : map[p] = Spent => installed[page[s]][p] = Spent,
         for = "loop" /\ s \notin robbed => \A p \in Packs : map[p] = Spent => p \in left
  PROVE  SeesSpent' /\ MountsItsBytes'
<1>1. TypeOK /\ HasPage /\ SeesSpent /\ MountsItsBytes
  BY DEF IInv
<1>2. Left(s, map)
  BY <1>1, GoesOnLeaves
<1>3. robbed \subseteq robbed' /\ \A r \in Sessions \ {s} : pc'[r] = pc[r] /\ at'[r] = at[r] /\ plan'[r] = plan[r]
  BY <1>2 DEF Left
<1>4. ASSUME NEW r \in Sessions \ {s}, r \notin robbed', InLoop(r)', NEW p \in Packs, installed'[page[r]][p] = Spent
      PROVE  p \in todo'[r] \cup {at'[r]}
  <2>0. r # s /\ r \in Sessions /\ pc'[r] = pc[r] /\ plan'[r] = plan[r] /\ at'[r] = at[r]
    BY <1>3
  <2> DEFINE none == {}
  <2>n. none \in SUBSET Packs /\ \A u \in Packs : map[u] = Spent => installed[page[s]][u] = Spent \/ none # {}
    OBVIOUS
  <2>1. CASE \E q \in left : Map(s, map, set, none, left \ {q}, {u \in rest : u > q})
    <3>1. PICK q \in left : Map(s, map, set, none, left \ {q}, {u \in rest : u > q})
      BY <2>1
    <3> DEFINE others == left \ {q}
               later == {u \in rest : u > q}
    <3>2. others \in SUBSET Packs /\ later \in SUBSET Packs
      OBVIOUS
    <3>3. Map(s, map, set, none, others, later)
      BY <3>1
    <3> HIDE DEF none, others, later
    <3> QED BY <1>1, <2>0, <1>4, <2>n, <3>2, <3>3, OthersSee
  <2>2. CASE Map(s, map, set, none, none, none)
    <3> HIDE DEF none
    <3> QED BY <1>1, <2>0, <1>4, <2>n, <2>2, OthersSee
  <2> DEFINE given == {q \in Packs : map[q] = Bytes}
             kept == [q \in Packs |-> IF q \in given THEN Spent ELSE map[q]]
  <2>3. CASE Map(s, kept, set, given, {}, {})
    <3>1. {} \in SUBSET Packs /\ given \in SUBSET Packs /\ kept \in [Packs -> Kinds]
      BY DEF Kinds
    <3>2. \A q \in Packs : kept[q] = Spent => installed[page[s]][q] = Spent \/ given # {}
      OBVIOUS
    <3> HIDE DEF given, kept
    <3> QED BY <1>1, <2>0, <1>4, <2>3, <3>1, <3>2, OthersSee
  <2> HIDE DEF given, kept
  <2> QED BY <2>1, <2>2, <2>3 DEF GoesOn, Boots, given, kept, none
<1>5. ASSUME s \notin robbed', InLoop(s)', NEW p \in Packs, installed'[page[s]][p] = Spent
      PROVE  p \in todo'[s] \cup {at'[s]}
  <2>1. pc'[s] = "reading" /\ plan'[s] = "loop"
    BY <1>2, <1>5, StepNames DEF InLoop, Left, Installing, Storing
  <2>2. PICK q \in left : Plans(s, q, for) /\ Map(s, map, set, {}, left \ {q}, {u \in rest : u > q})
    <3>1. ~Goes(s, "failed") /\ ~Goes(s, "booted") /\ ~Goes(s, "ensuring")
      BY <1>1, <2>1 DEF Goes, TypeOK
    <3> QED BY <3>1 DEF GoesOn, Boots
  <2>3. at'[s] = q /\ for = "loop"
    BY <1>1, <2>1, <2>2 DEF Plans, TypeOK
  <2>4. installed'[page[s]] = map /\ todo'[s] = left \ {q}
    <3>1. left \ {q} \in SUBSET Packs /\ {u \in rest : u > q} \in SUBSET Packs /\ {} \in SUBSET Packs
      OBVIOUS
    <3> QED BY <1>1, <2>2, <3>1, MapLeaves
  <2>5. s \notin robbed
    BY <1>3, <1>5
  <2> QED BY <1>5, <2>3, <2>4, <2>5
<1>6. SeesSpent'
  BY <1>4, <1>5 DEF SeesSpent
<1>7. pc'[s] = "failed" => s \in robbed'
  <2>1. SUFFICES ASSUME pc'[s] = "failed" PROVE s \in robbed
    BY <1>3
  <2>2. ~Goes(s, "reading") /\ ~Goes(s, "booted") /\ ~Goes(s, "ensuring")
    BY <1>1, <2>1 DEF Goes, TypeOK
  <2>3. left = {} /\ for = "loop" /\ \E p \in Packs : map[p] = Spent
    BY <2>2 DEF GoesOn, Boots
  <2> QED BY <2>3
<1>8. MountsItsBytes'
  <2>1. ASSUME NEW r \in Sessions \ {s} PROVE MountsItsBytes!(r)'
    <3>1. pc'[r] = pc[r] /\ mounted'[r] = mounted[r] /\ why'[r] = why[r]
      BY <1>2 DEF Left
    <3> QED BY <1>1, <1>3, <3>1 DEF MountsItsBytes
  <2>2. MountsItsBytes!(s)'
    BY <1>2, <1>7 DEF Left
  <2> QED BY <2>1, <2>2 DEF MountsItsBytes
<1> QED BY <1>6, <1>8

(* What a session leaves of the store when it goes on from its install, or  *)
(* was in none: its pack is whole, or nothing changed.                      *)
LEMMA LeftKeeps ==
  ASSUME IInv, NEW s \in Sessions, page[s] \in Pages, pc[s] # "failed", NEW map \in [Packs -> Kinds], Left(s, map),
         UNCHANGED <<open, index, page, staging, writers, pack, origin, marked, ceiling, contended, misread, cut>>,
         old' \subseteq Packs, SeesSpent', MountsItsBytes',
         \A p \in Packs : contended[p] = {} /\ p \notin misread /\ map[p] \in Sessions => p \in marked /\ origin[p] = map[p],
         \A p \in Packs : At(s, p) /\ contended[p] = {} /\ p \notin cut => staging[p] = "absent" /\ Whole(p)
  PROVE  IInv'
<1>1. TypeOK'
  BY DEF IInv, TypeOK, Left, Steps, Plans0, Causes
<1>2. HasPage'
  <2>1. ASSUME NEW r \in Sessions \ {s} PROVE HasPage!(r)'
    <3>1. pc'[r] = pc[r] /\ why'[r] = why[r] /\ plan'[r] = plan[r] /\ at'[r] = at[r] /\ page'[r] = page[r]
      BY DEF Left
    <3> QED BY <3>1 DEF IInv, HasPage
  <2>2. HasPage!(s)'
    <3>1. pc'[s] \in Installing => pc'[s] = "reading"
      BY StepNames DEF Left
    <3>2. why'[s] = IF pc'[s] = "failed" THEN "consumed" ELSE why[s]
      BY DEF Left
    <3>3. pc'[s] = "reading" => at'[s] \in Packs /\ plan'[s] # "none"
      BY DEF Left
    <3>4. why[s] # "consumed" /\ page'[s] \in Pages
      BY DEF IInv, HasPage
    <3>5. pc'[s] = "failed" /\ why'[s] = "storage" => FALSE
      BY <3>2
    <3> QED BY <3>1, <3>2, <3>3, <3>4, <3>5
  <2> QED BY <2>1, <2>2 DEF HasPage
<1>3. BlockedOnlyByAnother'
  <2>1. ASSUME NEW r \in Sessions, pc'[r] = "failed", why'[r] = "storage" PROVE r \in contended'[at'[r]]
    <3>1. r # s /\ pc'[r] = pc[r] /\ why'[r] = why[r] /\ at'[r] = at[r]
      BY <2>1 DEF Left
    <3> QED BY <2>1, <3>1 DEF IInv, BlockedOnlyByAnother
  <2> QED BY <2>1 DEF BlockedOnlyByAnother
<1>4. ASSUME NEW p \in Packs PROVE Stored(p)'
  <2>1. Stored(p)
    BY DEF IInv
  <2>2. ~At(s, p)' /\ \A r \in Sessions \ {s} : (At(r, p)' <=> At(r, p)) /\ pc'[r] = pc[r] /\ why'[r] = why[r]
    BY StepNames DEF At, Left
  <2>3. Alone(p)'
    BY <2>1, <2>2 DEF Stored, Alone
  <2>4. ItsFiles(p)'
    BY <2>1, <2>2 DEF Stored, ItsFiles
  <2>5. Kept(p)'
    <3>1. SUFFICES ASSUME contended[p] = {}, p \notin misread PROVE Kept(p)!2'
      BY DEF Kept
    <3>2. Kept(p)!2
      BY <2>1, <3>1 DEF Stored, Kept
    <3>3. \A r \in Sessions : At(r, p)' /\ pc'[r] # "collecting" => p \notin marked'
      BY <2>2, <3>2
    <3>4. ASSUME NEW r \in Sessions, pc'[r] = "booted", mounted'[r][p] \in Sessions
          PROVE  p \in marked' /\ origin'[p] = mounted'[r][p]
      <4>1. CASE r = s
        BY <3>1, <3>4, <4>1 DEF Left
      <4>2. CASE r # s
        BY <3>2, <3>4, <4>2 DEF Left
      <4> QED BY <4>1, <4>2
    <3>5. ASSUME NEW g \in Pages, installed'[g][p] \in Sessions
          PROVE  p \in marked' /\ origin'[p] = installed'[g][p]
      <4>1. CASE g = page[s]
        BY <3>1, <3>5, <4>1 DEF Left
      <4>2. CASE g # page[s]
        BY <3>2, <3>5, <4>2 DEF Left
      <4> QED BY <4>1, <4>2
    <3> QED BY <3>2, <3>3, <3>4, <3>5
  <2>6. Tidy(p)'
    <3>1. SUFFICES ASSUME contended[p] = {}, p \notin cut PROVE Tidy(p)!2'
      BY DEF Tidy
    <3>2. Tidy(p)!2
      BY <2>1, <3>1 DEF Stored, Tidy
    <3>3. (\A r \in Sessions : ~At(r, p)') => (writers'[p] = {} => staging'[p] = "absent") /\ (pack'[p] # "absent" => Whole(p)')
      <4>1. CASE At(s, p)
        BY <3>1, <4>1 DEF Whole
      <4>2. CASE ~At(s, p)
        BY <2>2, <3>2, <4>2 DEF Whole
      <4> QED BY <4>1, <4>2
    <3>4. ASSUME NEW r \in Sessions, At(r, p)',
                 pc'[r] \in {"clearing", "creating", "opening", "writing", "removing", "moving", "cleaning"}
          PROVE  pack'[p] # "absent" => Whole(p)'
      BY <2>2, <3>2, <3>4 DEF Whole
    <3> QED BY <3>3, <3>4
  <2>7. HasOrigin(p)'
    BY <2>1 DEF Stored, HasOrigin
  <2> QED BY <2>3, <2>4, <2>5, <2>6, <2>7 DEF Stored
<1> QED BY <1>1, <1>2, <1>3, <1>4 DEF IInv, SeesSpent, MountsItsBytes

(* A step that goes on from a map whose files are the store's keeps the     *)
(* invariant.                                                               *)
LEMMA GoesOnKeeps ==
  ASSUME IInv, NEW s \in Sessions, page[s] \in Pages, pc[s] # "failed",
         NEW map \in [Packs -> Kinds], NEW set \in SUBSET Packs, NEW left \in SUBSET Packs, NEW rest \in SUBSET Packs,
         NEW for \in {"page", "exact", "loop"}, GoesOn(s, map, set, left, rest, for),
         \A p \in Packs : map[p] = Spent => installed[page[s]][p] = Spent,
         for = "loop" /\ s \notin robbed => \A p \in Packs : map[p] = Spent => p \in left,
         UNCHANGED <<open, index, page, staging, writers, pack, origin, marked, ceiling, contended, misread, cut>>,
         old' \subseteq Packs,
         \A p \in Packs : contended[p] = {} /\ p \notin misread /\ map[p] \in Sessions => p \in marked /\ origin[p] = map[p],
         \A p \in Packs : At(s, p) /\ contended[p] = {} /\ p \notin cut => staging[p] = "absent" /\ Whole(p)
  PROVE  IInv'
<1>1. Left(s, map)
  BY GoesOnLeaves DEF IInv
<1>2. SeesSpent' /\ MountsItsBytes'
  BY GoesOnSees
<1> QED BY <1>1, <1>2, LeftKeeps

(* The end of an install with `kind`: the bytes, or the file that is there. *)
LEMMA InstalledKeeps ==
  ASSUME IInv, NEW s \in Sessions, pc[s] \in Installing, NEW kind \in Sessions \cup {Bytes}, Installed(s, kind),
         UNCHANGED <<open, index, page, staging, writers, pack, origin, marked, ceiling, contended, misread, cut>>,
         old' \subseteq Packs,
         contended[at[s]] = {} /\ at[s] \notin misread /\ kind \in Sessions => at[s] \in marked /\ origin[at[s]] = kind,
         pc[s] \in Storing /\ contended[at[s]] = {} /\ at[s] \notin cut => staging[at[s]] = "absent" /\ Whole(at[s])
  PROVE  IInv'
<1> DEFINE map == [installed[page[s]] EXCEPT ![at[s]] = kind]
<1>1. page[s] \in Pages /\ at[s] \in Packs /\ plan[s] \in {"page", "exact", "loop"}
  <2>1. page[s] \in Pages /\ at[s] \in Packs /\ plan[s] # "none"
    BY DEF IInv, HasPage, Installing, Storing
  <2>2. plan[s] \in {"none", "page", "exact", "loop"}
    BY DEF IInv, TypeOK
  <2> QED BY <2>1, <2>2
<1>2. map \in [Packs -> Kinds] /\ map[at[s]] = kind /\ kind # Spent
      /\ \A p \in Packs : p # at[s] => map[p] = installed[page[s]][p]
  BY <1>1, KindsDiffer DEF IInv, TypeOK, Kinds, Bytes, Spent
<1> DEFINE set == {at[s]}
           left == todo[s]
           rest == ahead[s]
           for == plan[s]
<1>3. set \in SUBSET Packs /\ left \in SUBSET Packs /\ rest \in SUBSET Packs /\ for \in {"page", "exact", "loop"}
  BY <1>1 DEF IInv, TypeOK
<1>4. GoesOn(s, map, set, left, rest, for)
  BY DEF Installed
<1> HIDE DEF map
<1>5. \A p \in Packs : map[p] = Spent => installed[page[s]][p] = Spent
  BY <1>2
<1>6. for = "loop" /\ s \notin robbed => \A p \in Packs : map[p] = Spent => p \in left
  BY <1>2 DEF IInv, SeesSpent, InLoop
<1>7. \A p \in Packs : contended[p] = {} /\ p \notin misread /\ map[p] \in Sessions => p \in marked /\ origin[p] = map[p]
  BY <1>1, <1>2 DEF IInv, Stored, Kept
<1>8. \A p \in Packs : At(s, p) /\ contended[p] = {} /\ p \notin cut => staging[p] = "absent" /\ Whole(p)
  BY DEF At
<1> HIDE DEF set, left, rest, for
<1>9. page[s] \in Pages /\ map \in [Packs -> Kinds]
  BY <1>1, <1>2
<1>10. TypeOK /\ UNCHANGED page
  BY DEF IInv
<1>11. Left(s, map)
  BY <1>3, <1>4, <1>9, <1>10, GoesOnLeaves
<1>12. SeesSpent' /\ MountsItsBytes'
  BY <1>3, <1>4, <1>5, <1>6, <1>9, <1>10, GoesOnSees
<1>13. pc[s] # "failed"
  BY DEF Installing, Storing
<1> QED BY <1>7, <1>8, <1>9, <1>11, <1>12, <1>13, LeftKeeps

(* The types of the store and of what is remembered of it.                  *)
StoreTypes ==
  /\ {staging, pack} \subseteq [Packs -> {"absent", "empty", "whole"}] /\ origin \in [Packs -> Sessions \cup {Nobody}]
  /\ {writers, contended} \subseteq [Packs -> SUBSET Sessions]
  /\ {marked, old, misread, cut} \subseteq SUBSET Packs /\ ceiling \in Nat

(* A step of a session from one step of its install to another.             *)
Moved(s, step, cause) ==
  /\ pc' = [pc EXCEPT ![s] = step] /\ why' = [why EXCEPT ![s] = cause]
  /\ UNCHANGED <<open, artifacts, page, plan, at, todo, ahead, mounted, robbed>>

(* The store has the same of the pack as before.                            *)
Same(p) ==
  /\ staging'[p] = staging[p] /\ writers'[p] = writers[p] /\ pack'[p] = pack[p] /\ origin'[p] = origin[p]
  /\ p \in marked' <=> p \in marked
  /\ contended'[p] = contended[p] /\ (p \in misread' <=> p \in misread) /\ (p \in cut' <=> p \in cut)

(* A step that only moves on moves with the cause it had.                   *)
LEMMA OnlyMoves ==
  ASSUME TypeOK, HasPage, NEW s \in Sessions, pc[s] \in Installing, NEW step, Only(s, step)
  PROVE  Moved(s, step, why[s]) /\ why[s] \in Causes \ {"consumed"}
<1>1. why[s] # "consumed"
  BY DEF HasPage, Installing, Storing
<1> QED BY <1>1 DEF Only, Moved, Goes, TypeOK, Causes

(* A step that fails moves with the cause of the failure.                   *)
LEMMA FailsMoves == ASSUME NEW s, NEW step, NEW cause, Fails(s, step, cause) PROVE Moved(s, step, cause)
BY DEF Fails, Moved, Goes

(* Of another pack than the session's nothing is disturbed.                 *)
LEMMA OtherPacksStored ==
  ASSUME IInv, NEW s \in Sessions, NEW step \in Installing, NEW cause, Moved(s, step, cause),
         NEW p \in Packs, p # at[s], Same(p)
  PROVE  Stored(p)'
<1>1. Stored(p) /\ pc \in [Sessions -> Steps] /\ why \in [Sessions -> Causes]
  BY DEF IInv, TypeOK, Steps, Causes
<1>2. /\ ~At(s, p)' /\ ~At(s, p)
      /\ \A r \in Sessions \ {s} : (At(r, p)' <=> At(r, p)) /\ pc'[r] = pc[r] /\ why'[r] = why[r]
      /\ pc'[s] # "booted" /\ installed' = installed /\ mounted' = mounted
  BY <1>1 DEF At, Moved, artifacts, Installing, Storing
<1>3. Alone(p)' /\ ItsFiles(p)'
  BY <1>1, <1>2 DEF Stored, Alone, ItsFiles, Same
<1>4. Kept(p)'
  BY <1>1, <1>2 DEF Stored, Kept, Same
<1>5. Tidy(p)' /\ HasOrigin(p)'
  BY <1>1, <1>2 DEF Stored, Tidy, HasOrigin, Same, Whole
<1> QED BY <1>3, <1>4, <1>5 DEF Stored

(* A step of an install keeps the invariant if it keeps it of its pack.     *)
LEMMA MovedKeeps ==
  ASSUME IInv, NEW s \in Sessions, pc[s] \in Installing, NEW step \in Installing, NEW cause \in Causes \ {"consumed"},
         Moved(s, step, cause),
         index' = index, StoreTypes', \A p \in Packs : contended[p] \subseteq contended'[p],
         \A p \in Packs : p # at[s] => Same(p), Stored(at[s])'
  PROVE  IInv'
<1>1. pc \in [Sessions -> Steps] /\ why \in [Sessions -> Causes] /\ at \in [Sessions -> Packs \cup {0}]
  BY DEF IInv, TypeOK, Steps, Causes
<1>2. /\ pc' \in [Sessions -> Steps] /\ why' \in [Sessions -> Causes] /\ pc'[s] = step
      /\ \A r \in Sessions \ {s} : pc'[r] = pc[r] /\ why'[r] = why[r]
      /\ pc'[s] \notin {"idle", "gone", "booted", "failed", "wanting", "ensuring"}
  BY <1>1 DEF Moved, Steps, Installing, Storing
<1>3. UNCHANGED <<open, index, ready, installed, page, plan, at, todo, ahead, mounted, robbed>>
  BY DEF Moved, artifacts
<1>4. TypeOK'
  <2>1. pc' \in [Sessions -> Installing \cup Over \cup {"idle", "wanting", "ensuring"}]
        /\ why' \in [Sessions -> {"none", "network", "quota", "storage", "consumed"}]
    BY <1>2 DEF Steps, Causes
  <2> QED BY <1>3, <2>1 DEF IInv, TypeOK, StoreTypes
<1>5. HasPage'
  <2>1. page[s] \in Pages /\ at[s] \in Packs /\ plan[s] # "none" /\ HasPage
    BY DEF IInv, HasPage, Installing, Storing
  <2>2. ASSUME NEW r \in Sessions \ {s} PROVE HasPage!(r)'
    BY <1>2, <1>3, <2>1 DEF HasPage
  <2>3. HasPage!(s)' /\ pc'[s] # "failed"
    <3>1. why'[s] # "consumed"
      BY <1>1 DEF Moved
    <3> QED BY <1>2, <1>3, <2>1, <3>1
  <2> QED BY <2>2, <2>3 DEF HasPage
<1>6. SeesSpent'
  BY <1>2, <1>3 DEF IInv, SeesSpent, InLoop
<1>7. MountsItsBytes'
  BY <1>2, <1>3 DEF IInv, MountsItsBytes
<1>8. BlockedOnlyByAnother'
  BY <1>2, <1>3 DEF IInv, BlockedOnlyByAnother, HasPage
<1>9. ASSUME NEW p \in Packs PROVE Stored(p)'
  <2>1. CASE p = at[s]
    <3>1. Stored(at[s])' /\ at'[s] = p
      BY <1>3, <2>1
    <3> QED BY <3>1
  <2>2. CASE p # at[s]
    <3>1. Same(p)
      BY <2>2
    <3> QED BY <2>2, <3>1, OtherPacksStored
  <2> QED BY <2>1, <2>2
<1> QED BY <1>4, <1>5, <1>6, <1>7, <1>8, <1>9 DEF IInv

(* A boot that fails: nothing of the store but its own staging file goes.   *)
LEMMA ThrowsKeeps ==
  ASSUME IInv, NEW s \in Sessions, pc[s] \in Installing, NEW cause \in Causes \ {"consumed"}, Throws(s, cause),
         cause = "storage" => s \in contended[at[s]],
         UNCHANGED <<writers, pack, origin, marked, old, ceiling, contended, misread, cut>>,
         staging' \in [Packs -> {"absent", "empty", "whole"}], \A p \in Packs : ~At(s, p) => staging'[p] = staging[p],
         \A p \in Packs : At(s, p) => pc[s] = "cleaning" /\ (writers[p] = {} => staging'[p] = "absent")
  PROVE  IInv'
<1>1. pc \in [Sessions -> Steps] /\ why \in [Sessions -> Causes] /\ plan \in [Sessions -> Plans0]
      /\ todo \in [Sessions -> SUBSET Packs] /\ ahead \in [Sessions -> SUBSET Packs] /\ at[s] \in Packs
  BY DEF IInv, TypeOK, HasPage, Steps, Causes, Plans0
<1>2. /\ pc' \in [Sessions -> Steps] /\ pc'[s] = "failed" /\ \A r \in Sessions \ {s} : pc'[r] = pc[r]
      /\ why' \in [Sessions -> Causes] /\ why'[s] = cause /\ \A r \in Sessions \ {s} : why'[r] = why[r]
  BY <1>1 DEF Throws, Goes, Steps, Over
<1>3. /\ plan' \in [Sessions -> Plans0] /\ \A r \in Sessions \ {s} : plan'[r] = plan[r]
      /\ todo' \in [Sessions -> SUBSET Packs] /\ \A r \in Sessions \ {s} : todo'[r] = todo[r]
      /\ ahead' \in [Sessions -> SUBSET Packs]
  BY <1>1 DEF Throws, Plans0
<1>4. UNCHANGED <<open, index, ready, installed, page, at, mounted, robbed>>
  BY DEF Throws, artifacts
<1>5. TypeOK'
  <2>1. /\ pc' \in [Sessions -> Installing \cup Over \cup {"idle", "wanting", "ensuring"}]
        /\ why' \in [Sessions -> {"none", "network", "quota", "storage", "consumed"}]
        /\ plan' \in [Sessions -> {"none", "page", "exact", "loop"}]
    BY <1>2, <1>3 DEF Steps, Causes, Plans0
  <2> QED BY <1>3, <1>4, <2>1 DEF IInv, TypeOK
<1>6. HasPage'
  <2>1. page[s] \in Pages /\ HasPage
    BY DEF IInv, HasPage, Installing, Storing
  <2>2. ASSUME NEW r \in Sessions \ {s} PROVE HasPage!(r)'
    <3>1. pc'[r] = pc[r] /\ why'[r] = why[r] /\ plan'[r] = plan[r] /\ at'[r] = at[r] /\ page'[r] = page[r]
      BY <1>2, <1>3, <1>4
    <3> QED BY <2>1, <3>1 DEF HasPage
  <2>3. HasPage!(s)'
    BY <1>1, <1>2, <1>4, <2>1, StepNames
  <2> QED BY <2>2, <2>3 DEF HasPage
<1>7. SeesSpent'
  BY <1>2, <1>3, <1>4, StepNames DEF IInv, SeesSpent, InLoop
<1>8. MountsItsBytes' /\ BlockedOnlyByAnother'
  BY <1>2, <1>4 DEF IInv, MountsItsBytes, BlockedOnlyByAnother
<1>9. ASSUME NEW p \in Packs PROVE Stored(p)'
  <2>1. Stored(p)
    BY DEF IInv
  <2>2. ~At(s, p)' /\ \A r \in Sessions \ {s} : (At(r, p)' <=> At(r, p)) /\ pc'[r] = pc[r] /\ why'[r] = why[r]
    BY <1>2, <1>4, StepNames DEF At
  <2>3. Alone(p)'
    BY <2>1, <2>2 DEF Stored, Alone
  <2>4. ItsFiles(p)'
    <3>1. CASE At(s, p)
      BY <2>1, <2>2, <3>1 DEF Stored, Alone, ItsFiles
    <3>2. CASE ~At(s, p)
      BY <2>1, <2>2, <3>2 DEF Stored, ItsFiles
    <3> QED BY <3>1, <3>2
  <2>5. Kept(p)'
    BY <1>2, <1>4, <2>1, <2>2 DEF Stored, Kept
  <2>6. Tidy(p)'
    <3>1. CASE At(s, p)
      BY <2>1, <2>2, <3>1 DEF Stored, Tidy, Whole
    <3>2. CASE ~At(s, p)
      BY <2>1, <2>2, <3>2 DEF Stored, Tidy, Whole
    <3> QED BY <3>1, <3>2
  <2>7. HasOrigin(p)'
    BY <2>1 DEF Stored, HasOrigin
  <2> QED BY <2>3, <2>4, <2>5, <2>6, <2>7 DEF Stored
<1> QED BY <1>5, <1>6, <1>7, <1>8, <1>9 DEF IInv

(* What a step of an install from one of its steps to another leaves of the *)
(* sessions, as its pack sees them.                                         *)
Stays(s, p, step, cause) ==
  /\ p \in Packs /\ at[s] = p /\ pc[s] \in Installing /\ Stored(p) /\ at' = at
  /\ pc'[s] = step /\ why'[s] = cause /\ (At(s, p) <=> pc[s] \in Storing) /\ (At(s, p)' <=> step \in Storing)
  /\ \A r \in Sessions \ {s} : (At(r, p)' <=> At(r, p)) /\ pc'[r] = pc[r] /\ why'[r] = why[r]
  /\ pc'[s] # "booted" /\ installed' = installed /\ mounted' = mounted
  /\ s \in Sessions /\ \A r \in Sessions : (At(r, p) => pc[r] \in Storing) /\ (At(r, p)' => pc'[r] \in Storing)

(* A step that moves within an install leaves the sessions so.              *)
LEMMA MovedStays ==
  ASSUME IInv, NEW s \in Sessions, pc[s] \in Installing, NEW step \in Installing, NEW cause \in Causes, Moved(s, step, cause)
  PROVE  Stays(s, at[s], step, cause)
<1>1. pc \in [Sessions -> Steps] /\ why \in [Sessions -> Causes] /\ at[s] \in Packs /\ Stored(at[s])
  BY DEF IInv, TypeOK, HasPage, Steps, Causes
<1>2. UNCHANGED <<installed, at, mounted>> /\ pc' = [pc EXCEPT ![s] = step] /\ why' = [why EXCEPT ![s] = cause]
  BY DEF Moved, artifacts
<1>3. step # "booted"
  BY DEF Installing, Storing
<1>4. pc'[s] = step /\ why'[s] = cause /\ \A r \in Sessions \ {s} : pc'[r] = pc[r] /\ why'[r] = why[r]
  BY <1>1, <1>2
<1>5. /\ (At(s, at[s]) <=> pc[s] \in Storing) /\ (At(s, at[s])' <=> step \in Storing)
      /\ \A r \in Sessions \ {s} : At(r, at[s])' <=> At(r, at[s])
      /\ \A r \in Sessions : (At(r, at[s]) => pc[r] \in Storing) /\ (At(r, at[s])' => pc'[r] \in Storing)
  BY <1>2, <1>4 DEF At
<1> QED BY <1>1, <1>2, <1>3, <1>4, <1>5 DEF Stays

(* A step that changes the store at its own pack only.                      *)
LEMMA OnePack ==
  ASSUME IInv, NEW s \in Sessions, pc[s] \in Installing, NEW step \in Installing, NEW cause \in Causes \ {"consumed"},
         Moved(s, step, cause),
         index' = index, StoreTypes', \A p \in Packs : contended[p] \subseteq contended'[p],
         \A p \in Packs : p # at[s] => Same(p),
         Alone(at[s])', ItsFiles(at[s])', Kept(at[s])', Tidy(at[s])', HasOrigin(at[s])'
  PROVE  IInv'
<1>1. Stored(at[s])'
  BY DEF Stored
<1> QED BY <1>1, MovedKeeps

(* An old staging file goes.                                                *)
LEMMA ClearsIInv == ASSUME IInv, NEW s \in Sessions, Clears(s) PROVE IInv'
<1>1. /\ pc[s] = "clearing" /\ Only(s, "creating")
      /\ staging' = [staging EXCEPT ![at[s]] = Removed(at[s])]
      /\ UNCHANGED <<index, writers, pack, origin, marked, old, ceiling, contended, misread, cut>>
  BY DEF Clears, Only, artifacts, history
<1>2. pc[s] \in Installing /\ pc[s] \in Storing /\ "creating" \in Installing /\ "creating" \in Storing
  BY <1>1 DEF Installing, Storing
<1>3. Moved(s, "creating", why[s]) /\ why[s] \in Causes \ {"consumed"}
  BY <1>1, <1>2, OnlyMoves DEF IInv
<1>4. PICK p \in Packs : p = at[s] /\ Stays(s, p, "creating", why[s])
  BY <1>2, <1>3, MovedStays DEF Stays
<1>5. StoreTypes /\ Removed(p) \in {"absent", staging[p]} /\ (writers[p] = {} => Removed(p) = "absent")
  BY DEF IInv, TypeOK, StoreTypes, Removed
<1>6. StoreTypes' /\ (\A q \in Packs : q # p => Same(q)) /\ staging'[p] = Removed(p)
  BY <1>1, <1>4, <1>5 DEF StoreTypes, Same
<1>7. Alone(p)'
  BY <1>1, <1>2, <1>4, <1>6 DEF Stays, Stored, Alone
<1>8. ItsFiles(p)'
  BY <1>1, <1>2, <1>4, <1>5, <1>6 DEF Stays, Stored, Alone, ItsFiles
<1>9. Kept(p)'
  BY <1>1, <1>2, <1>4, <1>5, <1>6 DEF Stays, Stored, Alone, ItsFiles, Kept
<1>10. Tidy(p)'
  BY <1>1, <1>2, <1>4, <1>5, <1>6 DEF Stays, Stored, Alone, ItsFiles, Tidy, Whole
<1>11. HasOrigin(p)'
  BY <1>1, <1>2, <1>4, <1>5, <1>6 DEF Stays, Stored, HasOrigin
<1>12. at'[s] = p
  BY <1>4 DEF Stays
<1>13. \A q \in Packs : contended[q] \subseteq contended'[q]
  BY <1>1
<1> QED BY <1>1, <1>2, <1>3, <1>4, <1>6, <1>7, <1>8, <1>9, <1>10, <1>11, <1>12, <1>13, OnePack

(* The staging file is there.                                               *)
LEMMA CreatesIInv == ASSUME IInv, NEW s \in Sessions, Creates(s) PROVE IInv'
<1>1. /\ pc[s] = "creating" /\ Only(s, "opening")
      /\ staging' = [staging EXCEPT ![at[s]] = IF @ = "absent" THEN "empty" ELSE @]
      /\ UNCHANGED <<index, writers, pack, origin, marked, old, ceiling, contended, misread, cut>>
  BY DEF Creates, Only, artifacts, history
<1>2. pc[s] \in Installing /\ pc[s] \in Storing /\ "opening" \in Installing /\ "opening" \in Storing
  BY <1>1 DEF Installing, Storing
<1>3. Moved(s, "opening", why[s]) /\ why[s] \in Causes \ {"consumed"}
  BY <1>1, <1>2, OnlyMoves DEF IInv
<1>4. PICK p \in Packs : p = at[s] /\ Stays(s, p, "opening", why[s])
  BY <1>2, <1>3, MovedStays DEF Stays
<1>5. StoreTypes
  BY DEF IInv, TypeOK, StoreTypes
<1>6. StoreTypes' /\ (\A q \in Packs : q # p => Same(q)) /\ staging'[p] # "absent"
  BY <1>1, <1>4, <1>5 DEF StoreTypes, Same
<1>7. Alone(p)'
  BY <1>1, <1>2, <1>4, <1>6 DEF Stays, Stored, Alone
<1>8. ItsFiles(p)'
  BY <1>1, <1>2, <1>4, <1>5, <1>6 DEF Stays, Stored, Alone, ItsFiles
<1>9. Kept(p)'
  BY <1>1, <1>2, <1>4, <1>5, <1>6 DEF Stays, Stored, Alone, ItsFiles, Kept
<1>10. Tidy(p)'
  BY <1>1, <1>2, <1>4, <1>5, <1>6 DEF Stays, Stored, Alone, ItsFiles, Tidy, Whole
<1>11. HasOrigin(p)'
  BY <1>1, <1>2, <1>4, <1>5, <1>6 DEF Stays, Stored, HasOrigin
<1>12. at'[s] = p
  BY <1>4 DEF Stays
<1>13. \A q \in Packs : contended[q] \subseteq contended'[q]
  BY <1>1
<1> QED BY <1>1, <1>2, <1>3, <1>4, <1>6, <1>7, <1>8, <1>9, <1>10, <1>11, <1>12, <1>13, OnePack

(* The pack is whole in the staging file.                                   *)
LEMMA WritesIInv == ASSUME IInv, NEW s \in Sessions, Writes(s) PROVE IInv'
<1>1. /\ pc[s] = "writing" /\ Only(s, "removing")
      /\ staging' = [staging EXCEPT ![at[s]] = "whole"] /\ writers' = [writers EXCEPT ![at[s]] = @ \ {s}]
      /\ UNCHANGED <<index, pack, origin, marked, old, ceiling, contended, misread, cut>>
  BY DEF Writes, Only, artifacts, history
<1>2. pc[s] \in Installing /\ pc[s] \in Storing /\ "removing" \in Installing /\ "removing" \in Storing
  BY <1>1 DEF Installing, Storing
<1>3. Moved(s, "removing", why[s]) /\ why[s] \in Causes \ {"consumed"}
  BY <1>1, <1>2, OnlyMoves DEF IInv
<1>4. PICK p \in Packs : p = at[s] /\ Stays(s, p, "removing", why[s])
  BY <1>2, <1>3, MovedStays DEF Stays
<1>5. StoreTypes
  BY DEF IInv, TypeOK, StoreTypes
<1>6. StoreTypes' /\ (\A q \in Packs : q # p => Same(q)) /\ staging'[p] = "whole" /\ writers'[p] = writers[p] \ {s}
  BY <1>1, <1>4, <1>5 DEF StoreTypes, Same
<1>7. Alone(p)'
  BY <1>1, <1>2, <1>4, <1>6 DEF Stays, Stored, Alone
<1>8. ItsFiles(p)'
  BY <1>1, <1>2, <1>4, <1>5, <1>6 DEF Stays, Stored, Alone, ItsFiles
<1>9. Kept(p)'
  BY <1>1, <1>2, <1>4, <1>5, <1>6 DEF Stays, Stored, Alone, ItsFiles, Kept
<1>10. Tidy(p)'
  BY <1>1, <1>2, <1>4, <1>5, <1>6 DEF Stays, Stored, Alone, ItsFiles, Tidy, Whole
<1>11. HasOrigin(p)'
  BY <1>1, <1>2, <1>4, <1>5, <1>6 DEF Stays, Stored, HasOrigin
<1>12. at'[s] = p
  BY <1>4 DEF Stays
<1>13. \A q \in Packs : contended[q] \subseteq contended'[q]
  BY <1>1
<1> QED BY <1>1, <1>2, <1>3, <1>4, <1>6, <1>7, <1>8, <1>9, <1>10, <1>11, <1>12, <1>13, OnePack

(* An old pack goes: it cannot be read, or no marker stood for it.          *)
LEMMA RemovesPackIInv == ASSUME IInv, NEW s \in Sessions, RemovesPack(s) PROVE IInv'
<1>1. /\ pc[s] = "removing" /\ Only(s, "moving")
      /\ pack' = [pack EXCEPT ![at[s]] = "absent"] /\ origin' = [origin EXCEPT ![at[s]] = Nobody]
      /\ UNCHANGED <<index, staging, writers, marked, old, ceiling, contended, misread, cut>>
  BY DEF RemovesPack, Only, artifacts, history
<1>2. pc[s] \in Installing /\ pc[s] \in Storing /\ "moving" \in Installing /\ "moving" \in Storing
  BY <1>1 DEF Installing, Storing
<1>3. Moved(s, "moving", why[s]) /\ why[s] \in Causes \ {"consumed"}
  BY <1>1, <1>2, OnlyMoves DEF IInv
<1>4. PICK p \in Packs : p = at[s] /\ Stays(s, p, "moving", why[s])
  BY <1>2, <1>3, MovedStays DEF Stays
<1>5. StoreTypes
  BY DEF IInv, TypeOK, StoreTypes
<1>6. StoreTypes' /\ (\A q \in Packs : q # p => Same(q)) /\ pack'[p] = "absent"
  BY <1>1, <1>4, <1>5 DEF StoreTypes, Same
<1>7. Alone(p)'
  BY <1>1, <1>2, <1>4, <1>6 DEF Stays, Stored, Alone
<1>8. ItsFiles(p)'
  BY <1>1, <1>2, <1>4, <1>5, <1>6 DEF Stays, Stored, Alone, ItsFiles
<1>9. Kept(p)'
  BY <1>1, <1>2, <1>4, <1>5, <1>6 DEF Stays, Stored, Alone, ItsFiles, Kept
<1>10. Tidy(p)'
  BY <1>1, <1>2, <1>4, <1>5, <1>6 DEF Stays, Stored, Alone, ItsFiles, Tidy, Whole
<1>11. HasOrigin(p)'
  BY <1>1, <1>2, <1>4, <1>5, <1>6 DEF Stays, Stored, HasOrigin
<1>12. at'[s] = p
  BY <1>4 DEF Stays
<1>13. \A q \in Packs : contended[q] \subseteq contended'[q]
  BY <1>1
<1> QED BY <1>1, <1>2, <1>3, <1>4, <1>6, <1>7, <1>8, <1>9, <1>10, <1>11, <1>12, <1>13, OnePack

(* A pack without its marker goes.                                          *)
LEMMA UnmarksIInv == ASSUME IInv, NEW s \in Sessions, Unmarks(s) PROVE IInv'
<1>1. /\ pc[s] = "unmarking" /\ Only(s, "cleaning")
      /\ pack' = [pack EXCEPT ![at[s]] = "absent"] /\ origin' = [origin EXCEPT ![at[s]] = Nobody] /\ marked' = marked \ {at[s]}
      /\ UNCHANGED <<index, staging, writers, old, ceiling, contended, misread, cut>>
  BY DEF Unmarks, Only, artifacts, history
<1>2. pc[s] \in Installing /\ pc[s] \in Storing /\ "cleaning" \in Installing /\ "cleaning" \in Storing
  BY <1>1 DEF Installing, Storing
<1>3. Moved(s, "cleaning", why[s]) /\ why[s] \in Causes \ {"consumed"}
  BY <1>1, <1>2, OnlyMoves DEF IInv
<1>4. PICK p \in Packs : p = at[s] /\ Stays(s, p, "cleaning", why[s])
  BY <1>2, <1>3, MovedStays DEF Stays
<1>5. StoreTypes
  BY DEF IInv, TypeOK, StoreTypes
<1>6. StoreTypes' /\ (\A q \in Packs : q # p => Same(q)) /\ pack'[p] = "absent" /\ p \notin marked'
  BY <1>1, <1>4, <1>5 DEF StoreTypes, Same
<1>7. Alone(p)'
  BY <1>1, <1>2, <1>4, <1>6 DEF Stays, Stored, Alone
<1>8. ItsFiles(p)'
  BY <1>1, <1>2, <1>4, <1>5, <1>6 DEF Stays, Stored, Alone, ItsFiles
<1>9. Kept(p)'
  BY <1>1, <1>2, <1>4, <1>5, <1>6 DEF Stays, Stored, Alone, ItsFiles, Kept
<1>10. Tidy(p)'
  BY <1>1, <1>2, <1>4, <1>5, <1>6 DEF Stays, Stored, Alone, ItsFiles, Tidy, Whole
<1>11. HasOrigin(p)'
  BY <1>1, <1>2, <1>4, <1>5, <1>6 DEF Stays, Stored, HasOrigin
<1>12. at'[s] = p
  BY <1>4 DEF Stays
<1>13. \A q \in Packs : contended[q] \subseteq contended'[q]
  BY <1>1
<1> QED BY <1>1, <1>2, <1>3, <1>4, <1>6, <1>7, <1>8, <1>9, <1>10, <1>11, <1>12, <1>13, OnePack

(* The writer opens.                                                        *)
LEMMA OpensWell ==
  ASSUME IInv, NEW s \in Sessions, pc[s] = "opening", staging[at[s]] # "absent", Only(s, "writing"),
         writers' = [writers EXCEPT ![at[s]] = @ \cup {s}], UNCHANGED <<staging, pack, origin, marked, old, ceiling, history>>
  PROVE  IInv'
<1>1. pc[s] = "opening" /\ staging[at[s]] # "absent" /\ Only(s, "writing") /\ writers' = [writers EXCEPT ![at[s]] = @ \cup {s}]
       /\ UNCHANGED <<index, staging, pack, origin, marked, old, ceiling, contended, misread, cut>>
  BY DEF Only, Fails, artifacts, history
<1>2. pc[s] \in Installing /\ pc[s] \in Storing /\ "writing" \in Installing /\ "writing" \in Storing
  BY <1>1 DEF Installing, Storing
<1>3. Moved(s, "writing", why[s]) /\ why[s] \in Causes \ {"consumed"}
  BY <1>1, <1>2, OnlyMoves, FailsMoves DEF IInv, Causes
<1>4. PICK p \in Packs : p = at[s] /\ Stays(s, p, "writing", why[s])
  BY <1>2, <1>3, MovedStays DEF Stays
<1>5. StoreTypes
  BY DEF IInv, TypeOK, StoreTypes
<1>6. StoreTypes' /\ (\A q \in Packs : q # p => Same(q)) /\ writers'[p] = writers[p] \cup {s}
  BY <1>1, <1>4, <1>5 DEF StoreTypes, Same, history
<1>7. Alone(p)'
  BY <1>1, <1>2, <1>4, <1>6 DEF Stays, Stored, Alone
<1>8. ItsFiles(p)'
  BY <1>1, <1>2, <1>4, <1>6 DEF Stays, Stored, Alone, ItsFiles
<1>9. Kept(p)'
  BY <1>1, <1>2, <1>4, <1>6 DEF Stays, Stored, Alone, ItsFiles, Kept
<1>10. Tidy(p)'
  BY <1>1, <1>2, <1>4, <1>6 DEF Stays, Stored, Alone, ItsFiles, Tidy, Whole
<1>11. HasOrigin(p)'
  BY <1>1, <1>2, <1>4, <1>6 DEF Stays, Stored, HasOrigin
<1>12. at'[s] = p
  BY <1>4 DEF Stays
<1>13. \A q \in Packs : contended[q] \subseteq contended'[q]
  BY <1>1
<1> QED BY <1>1, <1>2, <1>3, <1>4, <1>6, <1>7, <1>8, <1>9, <1>10, <1>11, <1>12, <1>13, OnePack

(* The staging file becomes the pack.                                       *)
LEMMA MovesWell ==
  ASSUME IInv, NEW s \in Sessions, pc[s] = "moving", staging[at[s]] # "absent", writers[at[s]] = {}, Only(s, "checking"),
         pack' = [pack EXCEPT ![at[s]] = staging[at[s]]], origin' = [origin EXCEPT ![at[s]] = s],
         staging' = [staging EXCEPT ![at[s]] = "absent"], UNCHANGED <<writers, marked, old, ceiling, history>>
  PROVE  IInv'
<1>1. /\ pc[s] = "moving" /\ staging[at[s]] # "absent" /\ writers[at[s]] = {} /\ Only(s, "checking")
      /\ pack' = [pack EXCEPT ![at[s]] = staging[at[s]]] /\ origin' = [origin EXCEPT ![at[s]] = s]
      /\ staging' = [staging EXCEPT ![at[s]] = "absent"]
      /\ UNCHANGED <<index, writers, marked, old, ceiling, contended, misread, cut>>
  BY DEF Only, Fails, artifacts, history
<1>2. pc[s] \in Installing /\ pc[s] \in Storing /\ "checking" \in Installing /\ "checking" \in Storing
  BY <1>1 DEF Installing, Storing
<1>3. Moved(s, "checking", why[s]) /\ why[s] \in Causes \ {"consumed"}
  BY <1>1, <1>2, OnlyMoves, FailsMoves DEF IInv, Causes
<1>4. PICK p \in Packs : p = at[s] /\ Stays(s, p, "checking", why[s])
  BY <1>2, <1>3, MovedStays DEF Stays
<1>5. StoreTypes
  BY DEF IInv, TypeOK, StoreTypes
<1>6. StoreTypes' /\ (\A q \in Packs : q # p => Same(q)) /\ staging'[p] = "absent" /\ pack'[p] = staging[p] /\ origin'[p] = s
  BY <1>1, <1>4, <1>5 DEF StoreTypes, Same, history
<1>7. Alone(p)'
  BY <1>1, <1>2, <1>4, <1>6 DEF Stays, Stored, Alone
<1>8. ItsFiles(p)'
  BY <1>1, <1>2, <1>4, <1>6 DEF Stays, Stored, Alone, ItsFiles
<1>9. Kept(p)'
  BY <1>1, <1>2, <1>4, <1>6 DEF Stays, Stored, Alone, ItsFiles, Kept
<1>10. Tidy(p)'
  BY <1>1, <1>2, <1>4, <1>6 DEF Stays, Stored, Alone, ItsFiles, Tidy, Whole
<1>11. HasOrigin(p)'
  BY <1>1, <1>2, <1>4, <1>6 DEF Stays, Stored, HasOrigin
<1>12. at'[s] = p
  BY <1>4 DEF Stays
<1>13. \A q \in Packs : contended[q] \subseteq contended'[q]
  BY <1>1
<1> QED BY <1>1, <1>2, <1>3, <1>4, <1>6, <1>7, <1>8, <1>9, <1>10, <1>11, <1>12, <1>13, OnePack

(* The pack has its size.                                                   *)
LEMMA ChecksWell ==
  ASSUME IInv, NEW s \in Sessions, pc[s] = "checking", pack[at[s]] = "whole", Only(s, "marking"), UNCHANGED <<store, history>>
  PROVE  IInv'
<1>1. pc[s] = "checking" /\ pack[at[s]] = "whole" /\ Only(s, "marking")
      /\ UNCHANGED <<index, staging, writers, pack, origin, marked, old, ceiling, contended, misread, cut>>
  BY DEF Only, Fails, artifacts, store, history
<1>2. pc[s] \in Installing /\ pc[s] \in Storing /\ "marking" \in Installing /\ "marking" \in Storing
  BY <1>1 DEF Installing, Storing
<1>3. Moved(s, "marking", why[s]) /\ why[s] \in Causes \ {"consumed"}
  BY <1>1, <1>2, OnlyMoves, FailsMoves DEF IInv, Causes
<1>4. PICK p \in Packs : p = at[s] /\ Stays(s, p, "marking", why[s])
  BY <1>2, <1>3, MovedStays DEF Stays
<1>5. StoreTypes
  BY DEF IInv, TypeOK, StoreTypes
<1>6. StoreTypes' /\ (\A q \in Packs : q # p => Same(q)) 
  BY <1>1, <1>4, <1>5 DEF StoreTypes, Same, history
<1>7. Alone(p)'
  BY <1>1, <1>2, <1>4, <1>6 DEF Stays, Stored, Alone
<1>8. ItsFiles(p)'
  BY <1>1, <1>2, <1>4, <1>6 DEF Stays, Stored, Alone, ItsFiles
<1>9. Kept(p)'
  BY <1>1, <1>2, <1>4, <1>6 DEF Stays, Stored, Alone, ItsFiles, Kept
<1>10. Tidy(p)'
  BY <1>1, <1>2, <1>4, <1>6 DEF Stays, Stored, Alone, ItsFiles, Tidy, Whole
<1>11. HasOrigin(p)'
  BY <1>1, <1>2, <1>4, <1>6 DEF Stays, Stored, HasOrigin
<1>12. at'[s] = p
  BY <1>4 DEF Stays
<1>13. \A q \in Packs : contended[q] \subseteq contended'[q]
  BY <1>1
<1> QED BY <1>1, <1>2, <1>3, <1>4, <1>6, <1>7, <1>8, <1>9, <1>10, <1>11, <1>12, <1>13, OnePack

(* The marker is written.                                                   *)
LEMMA MarksWell ==
  ASSUME IInv, NEW s \in Sessions, pc[s] = "marking", marked' = marked \cup {at[s]}, Only(s, "collecting"),
         UNCHANGED <<staging, writers, pack, origin, old, ceiling, history>>
  PROVE  IInv'
<1>1. pc[s] = "marking" /\ marked' = marked \cup {at[s]} /\ Only(s, "collecting")
      /\ UNCHANGED <<index, staging, writers, pack, origin, old, ceiling, contended, misread, cut>>
  BY DEF Only, Fails, artifacts, history
<1>2. pc[s] \in Installing /\ pc[s] \in Storing /\ "collecting" \in Installing /\ "collecting" \in Storing
  BY <1>1 DEF Installing, Storing
<1>3. Moved(s, "collecting", why[s]) /\ why[s] \in Causes \ {"consumed"}
  BY <1>1, <1>2, OnlyMoves, FailsMoves DEF IInv, Causes
<1>4. PICK p \in Packs : p = at[s] /\ Stays(s, p, "collecting", why[s])
  BY <1>2, <1>3, MovedStays DEF Stays
<1>5. StoreTypes
  BY DEF IInv, TypeOK, StoreTypes
<1>6. StoreTypes' /\ (\A q \in Packs : q # p => Same(q)) /\ p \in marked'
  BY <1>1, <1>4, <1>5 DEF StoreTypes, Same, history
<1>7. Alone(p)'
  BY <1>1, <1>2, <1>4, <1>6 DEF Stays, Stored, Alone
<1>8. ItsFiles(p)'
  BY <1>1, <1>2, <1>4, <1>6 DEF Stays, Stored, Alone, ItsFiles
<1>9. Kept(p)'
  BY <1>1, <1>2, <1>4, <1>6 DEF Stays, Stored, Alone, ItsFiles, Kept
<1>10. Tidy(p)'
  BY <1>1, <1>2, <1>4, <1>6 DEF Stays, Stored, Alone, ItsFiles, Tidy, Whole
<1>11. HasOrigin(p)'
  BY <1>1, <1>2, <1>4, <1>6 DEF Stays, Stored, HasOrigin
<1>12. at'[s] = p
  BY <1>4 DEF Stays
<1>13. \A q \in Packs : contended[q] \subseteq contended'[q]
  BY <1>1
<1> QED BY <1>1, <1>2, <1>3, <1>4, <1>6, <1>7, <1>8, <1>9, <1>10, <1>11, <1>12, <1>13, OnePack

(* A step of the storing part fails and leaves the store as it is.          *)
LEMMA FailsIInv ==
  ASSUME IInv, NEW s \in Sessions, NEW cause \in {"network", "quota", "storage"}, pc[s] \in {"opening", "moving"}, Fails(s, "cleaning", cause),
         cause = "storage" => s \in contended[at[s]], UNCHANGED <<store, history>>
  PROVE  IInv'
<1>1. pc[s] \in {"opening", "moving"} /\ Fails(s, "cleaning", cause) /\ (cause = "storage" => s \in contended[at[s]])
      /\ UNCHANGED <<index, staging, writers, pack, origin, marked, old, ceiling, contended, misread, cut>>
  BY DEF Only, Fails, artifacts, store, history
<1>2. pc[s] \in Installing /\ pc[s] \in Storing /\ "cleaning" \in Installing /\ "cleaning" \in Storing
  BY <1>1 DEF Installing, Storing
<1>3. Moved(s, "cleaning", cause) /\ cause \in Causes \ {"consumed"}
  BY <1>1, <1>2, OnlyMoves, FailsMoves DEF IInv, Causes
<1>4. PICK p \in Packs : p = at[s] /\ Stays(s, p, "cleaning", cause)
  BY <1>2, <1>3, MovedStays DEF Stays
<1>5. StoreTypes
  BY DEF IInv, TypeOK, StoreTypes
<1>6. StoreTypes' /\ (\A q \in Packs : q # p => Same(q)) 
  BY <1>1, <1>4, <1>5 DEF StoreTypes, Same, history
<1>7. Alone(p)'
  BY <1>1, <1>2, <1>4, <1>6 DEF Stays, Stored, Alone
<1>8. ItsFiles(p)'
  BY <1>1, <1>2, <1>4, <1>6 DEF Stays, Stored, Alone, ItsFiles
<1>9. Kept(p)'
  BY <1>1, <1>2, <1>4, <1>6 DEF Stays, Stored, Alone, ItsFiles, Kept
<1>10. Tidy(p)'
  BY <1>1, <1>2, <1>4, <1>6 DEF Stays, Stored, Alone, ItsFiles, Tidy, Whole
<1>11. HasOrigin(p)'
  BY <1>1, <1>2, <1>4, <1>6 DEF Stays, Stored, HasOrigin
<1>12. at'[s] = p
  BY <1>4 DEF Stays
<1>13. \A q \in Packs : contended[q] \subseteq contended'[q]
  BY <1>1
<1> QED BY <1>1, <1>2, <1>3, <1>4, <1>6, <1>7, <1>8, <1>9, <1>10, <1>11, <1>12, <1>13, OnePack

(* The pack was put in place but has not its size or its marker.            *)
LEMMA FailsBadly ==
  ASSUME IInv, NEW s \in Sessions, NEW cause \in {"quota", "storage"}, pc[s] \in {"checking", "marking"}, Fails(s, "unmarking", cause),
         cause = "storage" => s \in contended[at[s]], UNCHANGED <<store, history>>
  PROVE  IInv'
<1>1. pc[s] \in {"checking", "marking"} /\ Fails(s, "unmarking", cause) /\ (cause = "storage" => s \in contended[at[s]])
      /\ UNCHANGED <<index, staging, writers, pack, origin, marked, old, ceiling, contended, misread, cut>>
  BY DEF Only, Fails, artifacts, store, history
<1>2. pc[s] \in Installing /\ pc[s] \in Storing /\ "unmarking" \in Installing /\ "unmarking" \in Storing
  BY <1>1 DEF Installing, Storing
<1>3. Moved(s, "unmarking", cause) /\ cause \in Causes \ {"consumed"}
  BY <1>1, <1>2, OnlyMoves, FailsMoves DEF IInv, Causes
<1>4. PICK p \in Packs : p = at[s] /\ Stays(s, p, "unmarking", cause)
  BY <1>2, <1>3, MovedStays DEF Stays
<1>5. StoreTypes
  BY DEF IInv, TypeOK, StoreTypes
<1>6. StoreTypes' /\ (\A q \in Packs : q # p => Same(q)) 
  BY <1>1, <1>4, <1>5 DEF StoreTypes, Same, history
<1>7. Alone(p)'
  BY <1>1, <1>2, <1>4, <1>6 DEF Stays, Stored, Alone
<1>8. ItsFiles(p)'
  BY <1>1, <1>2, <1>4, <1>6 DEF Stays, Stored, Alone, ItsFiles
<1>9. Kept(p)'
  BY <1>1, <1>2, <1>4, <1>6 DEF Stays, Stored, Alone, ItsFiles, Kept
<1>10. Tidy(p)'
  BY <1>1, <1>2, <1>4, <1>6 DEF Stays, Stored, Alone, ItsFiles, Tidy, Whole
<1>11. HasOrigin(p)'
  BY <1>1, <1>2, <1>4, <1>6 DEF Stays, Stored, HasOrigin
<1>12. at'[s] = p
  BY <1>4 DEF Stays
<1>13. \A q \in Packs : contended[q] \subseteq contended'[q]
  BY <1>1
<1> QED BY <1>1, <1>2, <1>3, <1>4, <1>6, <1>7, <1>8, <1>9, <1>10, <1>11, <1>12, <1>13, OnePack

(* The writer is given up, or lingers; a ceiling may be remembered.         *)
LEMMA WriteFailsWith ==
  ASSUME IInv, NEW s \in Sessions, NEW cause \in {"network", "quota"}, pc[s] = "writing", Fails(s, "cleaning", cause),
         NEW gone \in {{}, {s}}, writers' = [writers EXCEPT ![at[s]] = @ \ gone], ceiling' \in Nat,
         UNCHANGED <<staging, pack, origin, marked, old, history>>
  PROVE  IInv'
<1>1. /\ pc[s] = "writing" /\ Fails(s, "cleaning", cause)
      /\ writers' = [writers EXCEPT ![at[s]] = @ \ gone] /\ ceiling' \in Nat
      /\ UNCHANGED <<index, staging, pack, origin, marked, old, contended, misread, cut>>
  BY DEF Only, Fails, artifacts, history
<1>2. pc[s] \in Installing /\ pc[s] \in Storing /\ "cleaning" \in Installing /\ "cleaning" \in Storing
  BY <1>1 DEF Installing, Storing
<1>3. Moved(s, "cleaning", cause) /\ cause \in Causes \ {"consumed"}
  BY <1>1, <1>2, OnlyMoves, FailsMoves DEF IInv, Causes
<1>4. PICK p \in Packs : p = at[s] /\ Stays(s, p, "cleaning", cause)
  BY <1>2, <1>3, MovedStays DEF Stays
<1>5. StoreTypes
  BY DEF IInv, TypeOK, StoreTypes
<1>6. StoreTypes' /\ (\A q \in Packs : q # p => Same(q)) /\ writers'[p] = writers[p] \ gone
  BY <1>1, <1>4, <1>5 DEF StoreTypes, Same, history
<1>7. Alone(p)'
  BY <1>1, <1>2, <1>4, <1>6 DEF Stays, Stored, Alone
<1>8. ItsFiles(p)'
  BY <1>1, <1>2, <1>4, <1>6 DEF Stays, Stored, Alone, ItsFiles
<1>9. Kept(p)'
  BY <1>1, <1>2, <1>4, <1>6 DEF Stays, Stored, Alone, ItsFiles, Kept
<1>10. Tidy(p)'
  BY <1>1, <1>2, <1>4, <1>6 DEF Stays, Stored, Alone, ItsFiles, Tidy, Whole
<1>11. HasOrigin(p)'
  BY <1>1, <1>2, <1>4, <1>6 DEF Stays, Stored, HasOrigin
<1>12. at'[s] = p
  BY <1>4 DEF Stays
<1>13. \A q \in Packs : contended[q] \subseteq contended'[q]
  BY <1>1
<1> QED BY <1>1, <1>2, <1>3, <1>4, <1>6, <1>7, <1>8, <1>9, <1>10, <1>11, <1>12, <1>13, OnePack

(* The writer opens; of a session that is alone it cannot fail.             *)
LEMMA OpensIInv == ASSUME IInv, NEW s \in Sessions, Opens(s) PROVE IInv'
<1>1. CASE staging[at[s]] = "absent" /\ Fails(s, "cleaning", "storage") /\ UNCHANGED writers
  <2>1. pc[s] = "opening" /\ UNCHANGED <<store, history>>
    BY <1>1 DEF Opens, store
  <2>2. s \in contended[at[s]]
    <3>1. at[s] \in Packs /\ At(s, at[s])
      BY <2>1 DEF IInv, HasPage, At, Installing, Storing
    <3> QED BY <1>1, <2>1, <3>1 DEF IInv, Stored, ItsFiles
  <2> QED BY <1>1, <2>1, <2>2, FailsIInv
<1>2. CASE staging[at[s]] # "absent" /\ Only(s, "writing") /\ writers' = [writers EXCEPT ![at[s]] = @ \cup {s}]
  <2>1. pc[s] = "opening" /\ UNCHANGED <<staging, pack, origin, marked, old, ceiling, history>>
    BY DEF Opens
  <2> QED BY <1>2, <2>1, OpensWell
<1> QED BY <1>1, <1>2 DEF Opens

(* The network or the storage fails the write.                              *)
LEMMA WriteFailsIInv == ASSUME IInv, NEW s \in Sessions, WriteFails(s) PROVE IInv'
<1>1. pc[s] = "writing" /\ UNCHANGED <<staging, pack, origin, marked, old, history>> /\ at[s] \in Packs
  BY DEF WriteFails, IInv, HasPage, Installing, Storing
<1>2. CASE writers' = [writers EXCEPT ![at[s]] = @ \ {s}] /\ Fails(s, "cleaning", "network") /\ UNCHANGED ceiling
  <2>1. ceiling' \in Nat
    BY <1>2 DEF IInv, TypeOK
  <2> QED BY <1>1, <1>2, <2>1, WriteFailsWith
<1>3. CASE /\ \E gone \in {{}, {s}} : writers' = [writers EXCEPT ![at[s]] = @ \ gone]
           /\ Fails(s, "cleaning", "quota") /\ \E written \in 0..Size[at[s]] : RecordsCeiling(written)
  <2>1. PICK gone \in {{}, {s}} : writers' = [writers EXCEPT ![at[s]] = @ \ gone]
    BY <1>3
  <2>2. ceiling' \in Nat
    <3>1. Size[at[s]] \in Nat
      BY <1>1, PackAssumption
    <3> QED BY <1>3, <3>1 DEF RecordsCeiling, IInv, TypeOK
  <2> QED BY <1>1, <1>3, <2>1, <2>2, WriteFailsWith
<1> QED BY <1>2, <1>3 DEF WriteFails

(* The staging file becomes the pack, or cannot.                            *)
LEMMA MovesIInv == ASSUME IInv, NEW s \in Sessions, Moves(s) PROVE IInv'
<1>1. pc[s] = "moving" /\ UNCHANGED <<writers, marked, old, ceiling, history>>
  BY DEF Moves
<1>2. CASE /\ staging[at[s]] # "absent" /\ writers[at[s]] = {}
           /\ pack' = [pack EXCEPT ![at[s]] = staging[at[s]]] /\ origin' = [origin EXCEPT ![at[s]] = s]
           /\ staging' = [staging EXCEPT ![at[s]] = "absent"]
           /\ Only(s, "checking")
  BY <1>1, <1>2, MovesWell
<1>3. CASE /\ staging[at[s]] = "absent" \/ writers[at[s]] # {}
           /\ Fails(s, "cleaning", "storage") /\ UNCHANGED <<staging, pack, origin>>
  <2>1. UNCHANGED <<store, history>>
    BY <1>1, <1>3 DEF store
  <2>2. s \in contended[at[s]]
    <3>1. at[s] \in Packs /\ At(s, at[s])
      BY <1>1 DEF IInv, HasPage, At, Installing, Storing
    <3> QED BY <1>1, <1>3, <3>1 DEF IInv, Stored, ItsFiles
  <2> QED BY <1>1, <1>3, <2>1, <2>2, FailsIInv
<1>4. CASE Fails(s, "cleaning", "quota") /\ UNCHANGED <<staging, pack, origin>>
  <2>1. UNCHANGED <<store, history>>
    BY <1>1, <1>4 DEF store
  <2> QED BY <1>1, <1>4, <2>1, FailsIInv
<1> QED BY <1>2, <1>3, <1>4 DEF Moves

(* The pack is whole, unless another session was about.                     *)
LEMMA ChecksIInv == ASSUME IInv, NEW s \in Sessions, Checks(s) PROVE IInv'
<1>1. pc[s] = "checking" /\ UNCHANGED <<store, history>>
  BY DEF Checks
<1>2. CASE pack[at[s]] = "whole" /\ Only(s, "marking")
  BY <1>1, <1>2, ChecksWell
<1>3. CASE pack[at[s]] # "whole" /\ Fails(s, "unmarking", "storage")
  <2>1. s \in contended[at[s]]
    <3>1. at[s] \in Packs /\ At(s, at[s])
      BY <1>1 DEF IInv, HasPage, At, Installing, Storing
    <3> QED BY <1>1, <1>3, <3>1 DEF IInv, Stored, ItsFiles
  <2> QED BY <1>1, <1>3, <2>1, FailsBadly
<1> QED BY <1>2, <1>3 DEF Checks

(* The marker is written, or could not be.                                  *)
LEMMA MarksIInv == ASSUME IInv, NEW s \in Sessions, Marks(s) PROVE IInv'
<1>1. pc[s] = "marking" /\ UNCHANGED <<staging, writers, pack, origin, old, ceiling, history>>
  BY DEF Marks
<1>2. CASE marked' = marked \cup {at[s]} /\ Only(s, "collecting")
  BY <1>1, <1>2, MarksWell
<1>3. CASE Fails(s, "unmarking", "quota") /\ UNCHANGED marked
  <2>1. UNCHANGED <<store, history>>
    BY <1>1, <1>3 DEF store
  <2> QED BY <1>1, <1>3, <2>1, FailsBadly
<1> QED BY <1>2, <1>3 DEF Marks

(* The install has succeeded.                                               *)
LEMMA CollectsIInv == ASSUME IInv, NEW s \in Sessions, Collects(s) PROVE IInv'
<1>1. /\ pc[s] = "collecting" /\ Installed(s, s) /\ old' \subseteq Packs
      /\ UNCHANGED <<open, index, page, staging, writers, pack, origin, marked, ceiling, contended, misread, cut>>
  BY DEF Collects, history, IInv, TypeOK
<1>2. at[s] \in Packs /\ At(s, at[s]) /\ pc[s] \in Installing
  BY <1>1 DEF IInv, HasPage, At, Installing, Storing
<1>3. contended[at[s]] = {} => pack[at[s]] = "whole" /\ origin[at[s]] = s /\ staging[at[s]] = "absent" /\ at[s] \in marked
  BY <1>1, <1>2 DEF IInv, Stored, ItsFiles
<1>4. s \in Sessions \cup {Bytes}
  OBVIOUS
<1> QED BY <1>1, <1>2, <1>3, <1>4, InstalledKeeps DEF Whole

(* The pack is kept in memory, or the network fails.                        *)
LEMMA MemoryIInv == ASSUME IInv, NEW s \in Sessions, Memory(s) PROVE IInv'
<1>1. /\ pc[s] = "memory" /\ UNCHANGED <<store, history>> /\ old' \subseteq Packs
      /\ UNCHANGED <<staging, writers, pack, origin, marked, old, ceiling, contended, misread, cut>>
  BY DEF Memory, store, history, IInv, TypeOK
<1>2. pc[s] \in Installing /\ pc[s] \notin Storing
  BY <1>1, StepNames DEF Installing
<1>3. CASE Installed(s, Bytes) /\ UNCHANGED <<open, index, page>>
  <2>1. Bytes \in Sessions \cup {Bytes} /\ Bytes \notin Sessions
    BY KindsDiffer
  <2> QED BY <1>1, <1>2, <1>3, <2>1, InstalledKeeps
<1>4. CASE Throws(s, "network")
  <2>1. "network" \in Causes \ {"consumed"} /\ staging' \in [Packs -> {"absent", "empty", "whole"}]
    BY <1>1 DEF Causes, IInv, TypeOK
  <2>2. \A p \in Packs : ~At(s, p) /\ staging'[p] = staging[p]
    BY <1>1, <1>2 DEF At
  <2> QED BY <1>1, <1>2, <1>4, <2>1, <2>2, ThrowsKeeps
<1> QED BY <1>3, <1>4 DEF Memory

(* After a storage limit the staging file goes, and memory is tried.        *)
LEMMA CleansToMemory ==
  ASSUME IInv, NEW s \in Sessions, pc[s] = "cleaning", staging' = [staging EXCEPT ![at[s]] = Removed(at[s])],
         Fails(s, "memory", "none"), UNCHANGED <<writers, pack, origin, marked, old, ceiling, history>>
  PROVE  IInv'
<1>1. /\ pc[s] = "cleaning" /\ Fails(s, "memory", "none") /\ staging' = [staging EXCEPT ![at[s]] = Removed(at[s])]
      /\ UNCHANGED <<index, writers, pack, origin, marked, old, ceiling, contended, misread, cut>>
  BY DEF Fails, artifacts, history
<1>2. pc[s] \in Installing /\ pc[s] \in Storing /\ "memory" \in Installing /\ "memory" \notin Storing
  BY <1>1 DEF Installing, Storing
<1>3. Moved(s, "memory", "none") /\ "none" \in Causes \ {"consumed"}
  BY <1>1, FailsMoves DEF Causes
<1>4. PICK p \in Packs : p = at[s] /\ Stays(s, p, "memory", "none")
  BY <1>2, <1>3, MovedStays DEF Stays
<1>5. StoreTypes /\ Removed(p) \in {"absent", staging[p]} /\ (writers[p] = {} => Removed(p) = "absent")
  BY DEF IInv, TypeOK, StoreTypes, Removed
<1>6. StoreTypes' /\ (\A q \in Packs : q # p => Same(q)) /\ (writers[p] = {} => staging'[p] = "absent")
  BY <1>1, <1>4, <1>5 DEF StoreTypes, Same
<1>7. Alone(p)'
  BY <1>1, <1>2, <1>4, <1>6 DEF Stays, Stored, Alone
<1>8. ItsFiles(p)'
  BY <1>1, <1>2, <1>4, <1>6 DEF Stays, Stored, Alone, ItsFiles
<1>9. Kept(p)'
  BY <1>1, <1>2, <1>4, <1>6 DEF Stays, Stored, Alone, ItsFiles, Kept
<1>10. Tidy(p)'
  BY <1>1, <1>2, <1>4, <1>6 DEF Stays, Stored, Alone, ItsFiles, Tidy, Whole
<1>11. HasOrigin(p)'
  BY <1>1, <1>2, <1>4, <1>6 DEF Stays, Stored, HasOrigin
<1>12. at'[s] = p
  BY <1>4 DEF Stays
<1>13. \A q \in Packs : contended[q] \subseteq contended'[q]
  BY <1>1
<1> QED BY <1>1, <1>2, <1>3, <1>4, <1>6, <1>7, <1>8, <1>9, <1>10, <1>11, <1>12, <1>13, OnePack

(* The cleanup of an install.                                               *)
LEMMA CleansIInv == ASSUME IInv, NEW s \in Sessions, Cleans(s) PROVE IInv'
<1>1. /\ pc[s] = "cleaning" /\ staging' = [staging EXCEPT ![at[s]] = Removed(at[s])]
      /\ UNCHANGED <<writers, pack, origin, marked, old, ceiling, history>>
  BY DEF Cleans
<1>2. CASE why[s] = "quota" /\ Fails(s, "memory", "none")
  BY <1>1, <1>2, CleansToMemory
<1>3. CASE why[s] # "quota" /\ Throws(s, why[s])
  <2>1. pc[s] \in Installing /\ at[s] \in Packs /\ At(s, at[s])
    BY <1>1 DEF IInv, HasPage, At, Installing, Storing
  <2>2. why[s] \in Causes \ {"consumed"}
    BY <1>1 DEF IInv, TypeOK, HasPage, Causes
  <2>3. why[s] = "storage" => s \in contended[at[s]]
    BY <1>1, <2>1 DEF IInv, Stored, ItsFiles
  <2>4. staging \in [Packs -> {"absent", "empty", "whole"}]
    BY DEF IInv, TypeOK
  <2>5. Removed(at[s]) \in {"absent", "empty", "whole"} /\ (writers[at[s]] = {} => Removed(at[s]) = "absent")
    BY <2>1, <2>4 DEF Removed
  <2>6. /\ staging' \in [Packs -> {"absent", "empty", "whole"}] /\ staging'[at[s]] = Removed(at[s])
        /\ \A p \in Packs : p # at[s] => staging'[p] = staging[p]
    BY <1>1, <2>1, <2>4, <2>5
  <2>7. \A p \in Packs : At(s, p) <=> p = at[s]
    BY <2>1 DEF At
  <2>8. UNCHANGED <<writers, pack, origin, marked, old, ceiling, contended, misread, cut>>
    BY <1>1 DEF history
  <2>9. \A p \in Packs : ~At(s, p) => staging'[p] = staging[p]
    BY <2>6, <2>7
  <2>10. \A p \in Packs : At(s, p) => pc[s] = "cleaning" /\ (writers[p] = {} => staging'[p] = "absent")
    BY <1>1, <2>5, <2>6, <2>7
  <2> DEFINE cause == why[s]
  <2>11. Throws(s, cause) /\ cause \in Causes \ {"consumed"} /\ (cause = "storage" => s \in contended[at[s]])
    BY <1>3, <2>2, <2>3
  <2> HIDE DEF cause
  <2> QED BY <2>1, <2>6, <2>8, <2>9, <2>10, <2>11, ThrowsKeeps
<1> QED BY <1>2, <1>3 DEF Cleans

(* An install begins to write: with no other about it is alone with the     *)
(* pack's files.                                                            *)
LEMMA ReadsMisses ==
  ASSUME IInv, NEW s \in Sessions, pc[s] = "reading", Only(s, "clearing"), Overlaps(s, at[s]),
         misread' = IF Whole(at[s]) THEN misread \cup {at[s]} ELSE misread, UNCHANGED <<store, cut>>
  PROVE  IInv'
<1>1. /\ pc[s] = "reading" /\ Only(s, "clearing")
      /\ UNCHANGED <<index, staging, writers, pack, origin, marked, old, ceiling, cut>>
  BY DEF Only, artifacts, store
<1>2. /\ pc[s] \in Installing /\ pc[s] \notin Storing /\ "clearing" \in Installing /\ "clearing" \in Storing
      /\ pc[s] # "idle" /\ pc[s] # "gone"
  BY <1>1, StepNames DEF Installing, Storing
<1>3. Moved(s, "clearing", why[s]) /\ why[s] \in Causes \ {"consumed"}
  BY <1>1, <1>2, OnlyMoves DEF IInv
<1>4. PICK p \in Packs : p = at[s] /\ Stays(s, p, "clearing", why[s])
  BY <1>2, <1>3, MovedStays DEF Stays
<1>5. /\ contended' \in [Packs -> SUBSET Sessions] /\ contended[p] \subseteq contended'[p]
      /\ \A q \in Packs : q # p => contended'[q] = contended[q]
      /\ s \in contended'[p] \/ (writers[p] = {} /\ \A r \in Sessions \ {s} : ~At(r, p))
      /\ \A r \in Sessions \ {s} : At(r, p) => r \in contended'[p]
  <2> DEFINE others == {r \in Sessions \ {s} : pc[r] \in Storing /\ at[r] = p} \cup writers[p]
  <2>1. contended' = [contended EXCEPT ![p] = IF others = {} THEN @ ELSE @ \cup others \cup {s}]
    BY <1>4 DEF Overlaps
  <2>2. contended \in [Packs -> SUBSET Sessions] /\ writers[p] \subseteq Sessions /\ others \subseteq Sessions
    BY DEF IInv, TypeOK
  <2>3. \A r \in Sessions \ {s} : At(r, p) => r \in others
    BY DEF At
  <2>4. others = {} => writers[p] = {}
    OBVIOUS
  <2> HIDE DEF others
  <2> QED BY <2>1, <2>2, <2>3, <2>4
<1>6. /\ StoreTypes' /\ (\A q \in Packs : q # p => Same(q))
      /\ p \notin misread' => p \notin misread /\ ~Whole(p)
  <2>1. misread' \subseteq Packs /\ misread \subseteq misread' /\ (\A q \in Packs : q # p => (q \in misread' <=> q \in misread))
        /\ (Whole(p) => p \in misread')
    BY <1>4 DEF IInv, TypeOK
  <2>2. StoreTypes
    BY DEF IInv, TypeOK, StoreTypes
  <2> QED BY <1>1, <1>5, <2>1, <2>2 DEF StoreTypes, Same
<1>7. Alone(p)'
  BY <1>1, <1>2, <1>4, <1>5 DEF Stays, Stored, Alone
<1>8. ItsFiles(p)'
  BY <1>1, <1>2, <1>4, <1>5, <1>7 DEF Stays, Stored, Alone, ItsFiles
<1>9. Kept(p)'
  BY <1>1, <1>2, <1>4, <1>5, <1>6 DEF Stays, Stored, Kept, Whole
<1>10. Tidy(p)'
  BY <1>1, <1>2, <1>4, <1>5 DEF Stays, Stored, Tidy, Whole
<1>11. HasOrigin(p)'
  BY <1>1, <1>4 DEF Stays, Stored, HasOrigin
<1>12. at'[s] = p
  BY <1>4 DEF Stays
<1>13. \A q \in Packs : contended[q] \subseteq contended'[q]
  BY <1>5
<1> QED BY <1>1, <1>2, <1>3, <1>4, <1>6, <1>7, <1>8, <1>9, <1>10, <1>11, <1>12, <1>13, OnePack

(* Memory it is, and the store is left alone.                               *)
LEMMA ReadsToMemory ==
  ASSUME IInv, NEW s \in Sessions, pc[s] = "reading", Only(s, "memory"), UNCHANGED <<store, history>>
  PROVE  IInv'
<1>1. /\ pc[s] = "reading" /\ Only(s, "memory")
      /\ UNCHANGED <<index, staging, writers, pack, origin, marked, old, ceiling, contended, misread, cut>>
  BY DEF Only, artifacts, store, history
<1>2. pc[s] \in Installing /\ pc[s] \notin Storing /\ "memory" \in Installing /\ "memory" \notin Storing
  BY <1>1, StepNames DEF Installing, Storing
<1>3. Moved(s, "memory", why[s]) /\ why[s] \in Causes \ {"consumed"}
  BY <1>1, <1>2, OnlyMoves DEF IInv
<1>4. PICK p \in Packs : p = at[s] /\ Stays(s, p, "memory", why[s])
  BY <1>2, <1>3, MovedStays DEF Stays
<1>5. StoreTypes
  BY DEF IInv, TypeOK, StoreTypes
<1>6. StoreTypes' /\ (\A q \in Packs : q # p => Same(q))
  BY <1>1, <1>5 DEF StoreTypes, Same
<1>7. Alone(p)'
  BY <1>1, <1>2, <1>4, <1>6 DEF Stays, Stored, Alone
<1>8. ItsFiles(p)'
  BY <1>1, <1>2, <1>4, <1>6 DEF Stays, Stored, Alone, ItsFiles
<1>9. Kept(p)'
  BY <1>1, <1>2, <1>4, <1>6 DEF Stays, Stored, Alone, ItsFiles, Kept
<1>10. Tidy(p)'
  BY <1>1, <1>2, <1>4, <1>6 DEF Stays, Stored, Alone, ItsFiles, Tidy, Whole
<1>11. HasOrigin(p)'
  BY <1>1, <1>2, <1>4, <1>6 DEF Stays, Stored, HasOrigin
<1>12. at'[s] = p
  BY <1>4 DEF Stays
<1>13. \A q \in Packs : contended[q] \subseteq contended'[q]
  BY <1>1
<1> QED BY <1>1, <1>2, <1>3, <1>4, <1>6, <1>7, <1>8, <1>9, <1>10, <1>11, <1>12, <1>13, OnePack

(* A pack in the store is taken, or one is installed.                       *)
LEMMA ReadsIInv == ASSUME IInv, NEW s \in Sessions, Reads(s) PROVE IInv'
<1>1. pc[s] = "reading" /\ UNCHANGED store
  BY DEF Reads
<1>2. pc[s] \in Installing /\ pc[s] \notin Storing /\ old' \subseteq Packs /\ at[s] \in Packs
  BY <1>1, StepNames DEF Installing, Storing, store, IInv, TypeOK, HasPage
<1>3. CASE Whole(at[s]) /\ Installed(s, origin[at[s]]) /\ UNCHANGED <<open, index, page, history>>
  <2> DEFINE kind == origin[at[s]]
  <2>1. kind \in Sessions \cup {Bytes} /\ at[s] \in marked
    BY <1>2, <1>3 DEF Whole, IInv, Stored, HasOrigin
  <2>2. Installed(s, kind) /\ origin[at[s]] = kind
    BY <1>3
  <2>3. UNCHANGED <<open, index, page, staging, writers, pack, origin, marked, ceiling, contended, misread, cut>>
    BY <1>1, <1>3 DEF store, history
  <2> HIDE DEF kind
  <2> QED BY <1>2, <2>1, <2>2, <2>3, InstalledKeeps
<1>4. CASE /\ ~KnownToFail(at[s]) /\ Only(s, "clearing") /\ Overlaps(s, at[s])
           /\ misread' = IF Whole(at[s]) THEN misread \cup {at[s]} ELSE misread
           /\ UNCHANGED cut
  BY <1>1, <1>4, ReadsMisses
<1>5. CASE Only(s, "memory") /\ UNCHANGED history
  BY <1>1, <1>5, ReadsToMemory
<1>6. CASE Throws(s, "network") /\ UNCHANGED history
  <2>1. "network" \in Causes \ {"consumed"} /\ staging' \in [Packs -> {"absent", "empty", "whole"}]
    BY <1>1 DEF Causes, IInv, TypeOK, store
  <2>2. \A p \in Packs : ~At(s, p) /\ staging'[p] = staging[p]
    BY <1>1, <1>2 DEF At, store
  <2>3. UNCHANGED <<writers, pack, origin, marked, old, ceiling, contended, misread, cut>>
    BY <1>1, <1>6 DEF store, history
  <2> QED BY <1>2, <1>6, <2>1, <2>2, <2>3, ThrowsKeeps
<1> QED BY <1>1, <1>3, <1>4, <1>5, <1>6 DEF Reads

(* The page's own packs.                                                    *)
LEMMA WantsIInv == ASSUME IInv, NEW s \in Sessions, Wants(s) PROVE IInv'
<1>1. /\ pc[s] = "wanting" /\ page[s] \in Pages /\ UNCHANGED <<open, index, page>> /\ old' \subseteq Packs
      /\ UNCHANGED <<staging, writers, pack, origin, marked, ceiling, contended, misread, cut>>
  BY DEF Wants, store, history, IInv, TypeOK, HasPage
<1>2. PICK wanted \in SUBSET index : GoesOn(s, None, {}, wanted, {}, "page")
  BY DEF Wants
<1> DEFINE map == None
           none == {}
           left == wanted
           for == "page"
<1>3. GoesOn(s, map, none, left, none, for)
  BY <1>2
<1>4. /\ map \in [Packs -> Kinds] /\ none \in SUBSET Packs /\ left \in SUBSET Packs /\ for \in {"page", "exact", "loop"}
      /\ for # "loop" /\ \A p \in Packs : map[p] \notin Sessions /\ map[p] # Spent
  BY KindsDiffer DEF None, Kinds, IInv, TypeOK
<1>5. pc[s] # "failed" /\ \A p \in Packs : ~At(s, p)
  BY <1>1 DEF At, Storing
<1> HIDE DEF map, none, left, for
<1>6. Left(s, map) /\ SeesSpent' /\ MountsItsBytes'
  BY <1>1, <1>3, <1>4, GoesOnLeaves, GoesOnSees DEF IInv
<1> QED BY <1>1, <1>4, <1>5, <1>6, LeftKeeps

(* What of the page's map is in the store.                                  *)
LEMMA MapIsStored ==
  ASSUME IInv, NEW g \in Pages, NEW p \in Packs, contended[p] = {}, p \notin misread, installed[g][p] \in Sessions
  PROVE  p \in marked /\ origin[p] = installed[g][p]
BY DEF IInv, Stored, Kept

(* The exact imports' pack, or the loop over the page's map.                *)
LEMMA EnsuresIInv == ASSUME IInv, NEW s \in Sessions, Ensures(s) PROVE IInv'
<1>1. /\ pc[s] = "ensuring" /\ page[s] \in Pages /\ UNCHANGED <<open, index, page>> /\ old' \subseteq Packs
      /\ UNCHANGED <<staging, writers, pack, origin, marked, ceiling, contended, misread, cut>>
  BY DEF Ensures, store, history, IInv, TypeOK, HasPage
<1> DEFINE map == installed[page[s]]
           none == {}
           spent == Spents(map)
           held == Held(map)
           essential == {Essential}
           exact == "exact"
           loop == "loop"
<1>2. /\ map \in [Packs -> Kinds] /\ none \in SUBSET Packs /\ spent \in SUBSET Packs /\ held \in SUBSET Packs
      /\ exact \in {"page", "exact", "loop"} /\ loop \in {"page", "exact", "loop"} /\ exact # "loop"
      /\ (\A p \in Packs : map[p] = Spent => p \in spent) /\ \A p \in Packs : map[p] = Spent => installed[page[s]][p] = Spent
  BY <1>1 DEF Spents, Held, IInv, TypeOK
<1>3. essential \in SUBSET Packs
  BY PackAssumption DEF Essential, Packs
<1>4. pc[s] # "failed" /\ \A p \in Packs : ~At(s, p)
  BY <1>1 DEF At, Storing
<1>5. \A p \in Packs : contended[p] = {} /\ p \notin misread /\ map[p] \in Sessions => p \in marked /\ origin[p] = map[p]
  BY <1>1, MapIsStored
<1>6. \/ GoesOn(s, map, none, essential, none, exact)
      \/ GoesOn(s, map, none, spent, held, loop)
  BY DEF Ensures
<1> HIDE DEF map, none, spent, held, essential, exact, loop
<1>7. CASE GoesOn(s, map, none, essential, none, exact)
  <2>1. Left(s, map) /\ SeesSpent' /\ MountsItsBytes'
    BY <1>1, <1>2, <1>3, <1>7, GoesOnLeaves, GoesOnSees DEF IInv
  <2> QED BY <1>1, <1>2, <1>4, <1>5, <2>1, LeftKeeps
<1>8. CASE GoesOn(s, map, none, spent, held, loop)
  <2>1. Left(s, map) /\ SeesSpent' /\ MountsItsBytes'
    BY <1>1, <1>2, <1>8, GoesOnLeaves, GoesOnSees DEF IInv
  <2> QED BY <1>1, <1>2, <1>4, <1>5, <2>1, LeftKeeps
<1> QED BY <1>6, <1>7, <1>8

(* A session begins.                                                        *)
LEMMA StartIInv == ASSUME IInv, NEW s \in Sessions, Start(s) PROVE IInv'
<1>1. PICK g \in Pages : page' = [page EXCEPT ![s] = g]
  BY DEF Start, IInv, TypeOK
<1>2. /\ pc[s] = "idle"
      /\ UNCHANGED <<open, index, installed, plan, at, todo, ahead, why, mounted, robbed>>
      /\ UNCHANGED <<staging, writers, pack, origin, marked, old, ceiling, contended, misread, cut>>
  BY DEF Start, store, history
<1>3. PICK step \in {"ensuring", "wanting"} : pc' = [pc EXCEPT ![s] = step]
  BY DEF Start, Goes
<1>4. ready' \in [Pages -> {"none", "installing", "ready"}]
  <2>1. ready \in [Pages -> {"none", "installing", "ready"}]
    BY DEF IInv, TypeOK
  <2>2. UNCHANGED ready \/ \E q \in open : ready' = [ready EXCEPT ![q] = "installing"]
    BY Zenon DEF Start
  <2> QED BY <2>1, <2>2
<1>5. pc \in [Sessions -> Steps] /\ page \in [Sessions -> Pages \cup {NoPage}] /\ step \in Steps \ (Installing \cup Over)
  BY DEF IInv, TypeOK, Steps, Installing, Storing, Over
<1>6. /\ pc' \in [Sessions -> Steps] /\ page' \in [Sessions -> Pages \cup {NoPage}] /\ page'[s] = g /\ pc'[s] = step
      /\ \A r \in Sessions \ {s} : pc'[r] = pc[r] /\ page'[r] = page[r]
  BY <1>1, <1>3, <1>5
<1>7. step \notin Storing /\ step \notin {"failed", "booted", "idle", "gone"} /\ pc[s] \notin Storing
  BY <1>2 DEF Storing
<1>8. TypeOK'
  <2>1. pc' \in [Sessions -> Installing \cup Over \cup {"idle", "wanting", "ensuring"}]
    BY <1>6 DEF Steps
  <2> QED BY <1>2, <1>4, <1>6, <2>1 DEF IInv, TypeOK
<1>9. HasPage'
  BY <1>2, <1>5, <1>6, <1>7 DEF IInv, HasPage
<1>10. SeesSpent'
  BY <1>2, <1>5, <1>6 DEF IInv, SeesSpent, InLoop
<1>11. MountsItsBytes' /\ BlockedOnlyByAnother'
  BY <1>2, <1>6, <1>7 DEF IInv, MountsItsBytes, BlockedOnlyByAnother
<1>12. ASSUME NEW p \in Packs PROVE Stored(p)'
  <2>1. Stored(p)
    BY DEF IInv
  <2>2. (\A r \in Sessions : At(r, p)' <=> At(r, p)) /\ ~At(s, p)
    BY <1>2, <1>6, <1>7 DEF At
  <2>3. Alone(p)' /\ ItsFiles(p)'
    BY <1>2, <1>6, <2>1, <2>2 DEF Stored, Alone, ItsFiles
  <2>4. Kept(p)'
    BY <1>2, <1>6, <1>7, <2>1, <2>2 DEF Stored, Kept
  <2>5. Tidy(p)' /\ HasOrigin(p)'
    BY <1>2, <1>6, <2>1, <2>2 DEF Stored, Tidy, Whole, HasOrigin
  <2> QED BY <2>3, <2>4, <2>5 DEF Stored
<1> QED BY <1>8, <1>9, <1>10, <1>11, <1>12 DEF IInv

(* A tab closes: what was under way in it is no more.                       *)
LEMMA CloseTabIInv == ASSUME IInv, NEW g \in Pages, CloseTab(g) PROVE IInv'
<1> DEFINE mine == {s \in Sessions : page[s] = g}
<1>1. /\ pc' = [s \in Sessions |-> IF s \in mine THEN "gone" ELSE pc[s]]
      /\ page' = [s \in Sessions |-> IF s \in mine THEN NoPage ELSE page[s]]
      /\ plan' = [s \in Sessions |-> IF s \in mine THEN "none" ELSE plan[s]]
      /\ at' = [s \in Sessions |-> IF s \in mine THEN 0 ELSE at[s]]
  BY DEF CloseTab
<1>2. /\ todo' = [s \in Sessions |-> IF s \in mine THEN {} ELSE todo[s]]
      /\ ahead' = [s \in Sessions |-> IF s \in mine THEN {} ELSE ahead[s]]
      /\ why' = [s \in Sessions |-> IF s \in mine THEN "none" ELSE why[s]]
      /\ mounted' = [s \in Sessions |-> IF s \in mine THEN None ELSE mounted[s]]
  BY DEF CloseTab
<1>3. /\ open' = open \ {g} /\ installed' = [installed EXCEPT ![g] = None] /\ ready' = [ready EXCEPT ![g] = "none"]
      /\ writers' = [p \in Packs |-> writers[p] \ mine] /\ robbed' = robbed \ mine
      /\ cut' = cut \cup {p \in Packs : \E s \in mine : s \in writers[p] \/ (pc[s] \in Storing /\ at[s] = p)}
      /\ UNCHANGED <<index, staging, pack, origin, marked, old, ceiling, contended, misread>>
  BY DEF CloseTab
<1>4. \A s \in Sessions \ mine : page[s] # g
  OBVIOUS
<1>5. None \in [Packs -> Kinds] /\ \A p \in Packs : None[p] \notin Sessions
  BY KindsDiffer DEF None, Kinds
<1> HIDE DEF mine
<1>6. TypeOK'
  <2>1. /\ pc' \in [Sessions -> Installing \cup Over \cup {"idle", "wanting", "ensuring"}]
        /\ page' \in [Sessions -> Pages \cup {NoPage}] /\ plan' \in [Sessions -> {"none", "page", "exact", "loop"}]
        /\ at' \in [Sessions -> Packs \cup {0}]
    BY <1>1 DEF IInv, TypeOK, Over
  <2>2. /\ todo' \in [Sessions -> SUBSET Packs] /\ ahead' \in [Sessions -> SUBSET Packs]
        /\ why' \in [Sessions -> {"none", "network", "quota", "storage", "consumed"}]
        /\ mounted' \in [Sessions -> [Packs -> Kinds]]
    BY <1>2, <1>5 DEF IInv, TypeOK
  <2>3. /\ open' \subseteq Pages /\ installed' \in [Pages -> [Packs -> Kinds]]
        /\ ready' \in [Pages -> {"none", "installing", "ready"}]
        /\ writers' \in [Packs -> SUBSET Sessions] /\ robbed' \subseteq Sessions /\ cut' \subseteq Packs
    BY <1>3, <1>5 DEF IInv, TypeOK
  <2> QED BY <1>3, <2>1, <2>2, <2>3 DEF IInv, TypeOK
<1>7. /\ \A s \in Sessions \cap mine : pc'[s] = "gone" /\ why'[s] = "none"
      /\ \A s \in Sessions \ mine : /\ pc'[s] = pc[s] /\ page'[s] = page[s] /\ plan'[s] = plan[s] /\ at'[s] = at[s]
                                    /\ todo'[s] = todo[s] /\ why'[s] = why[s] /\ mounted'[s] = mounted[s]
  BY <1>1, <1>2
<1>8. "gone" \notin Installing /\ "gone" \notin Storing
  BY DEF Installing, Storing
<1>9. HasPage'
  BY <1>7, <1>8 DEF IInv, HasPage
<1>10. SeesSpent'
  <2>1. ASSUME NEW s \in Sessions, s \notin robbed', InLoop(s)', NEW p \in Packs, installed'[page'[s]][p] = Spent
        PROVE  p \in todo'[s] \cup {at'[s]}
    <3>1. s \notin mine /\ s \notin robbed /\ InLoop(s)
      BY <1>3, <1>7, <1>8, <2>1 DEF InLoop
    <3>2. page[s] # g /\ page[s] \in Pages
      BY <1>4, <3>1 DEF IInv, HasPage, InLoop, Installing, Storing
    <3>3. installed'[page'[s]] = installed[page[s]]
      BY <1>3, <1>7, <3>1, <3>2 DEF IInv, TypeOK
    <3> QED BY <1>7, <2>1, <3>1, <3>3 DEF IInv, SeesSpent
  <2> QED BY <2>1 DEF SeesSpent
<1>11. MountsItsBytes' /\ BlockedOnlyByAnother'
  BY <1>3, <1>7 DEF IInv, MountsItsBytes, BlockedOnlyByAnother
<1>12. ASSUME NEW p \in Packs PROVE Stored(p)'
  <2>1. Stored(p) /\ writers'[p] = writers[p] \ mine
    BY <1>3 DEF IInv
  <2>2. \A s \in Sessions : (At(s, p)' <=> At(s, p) /\ s \notin mine)
    BY <1>7, <1>8 DEF At
  <2>3. Alone(p)'
    BY <1>3, <2>1, <2>2 DEF Stored, Alone
  <2>4. ItsFiles(p)'
    BY <1>3, <1>7, <2>1, <2>2 DEF Stored, ItsFiles
  <2>5. Kept(p)'
    <3>1. SUFFICES ASSUME contended[p] = {}, p \notin misread PROVE Kept(p)!2'
      BY <1>3 DEF Kept
    <3>2. Kept(p)!2
      BY <2>1, <3>1 DEF Stored, Kept
    <3>3. \A s \in Sessions : At(s, p)' /\ pc'[s] # "collecting" => p \notin marked'
      BY <1>3, <1>7, <2>2, <3>2
    <3>4. \A s \in Sessions : pc'[s] = "booted" /\ mounted'[s][p] \in Sessions => p \in marked' /\ origin'[p] = mounted'[s][p]
      BY <1>3, <1>7, <3>2
    <3>5. ASSUME NEW q \in Pages, installed'[q][p] \in Sessions PROVE p \in marked' /\ origin'[p] = installed'[q][p]
      BY <1>3, <1>5, <3>2, <3>5 DEF IInv, TypeOK
    <3> QED BY <1>3, <3>2, <3>3, <3>4, <3>5
  <2>6. Tidy(p)'
    <3>1. SUFFICES ASSUME contended[p] = {}, p \notin cut' PROVE Tidy(p)!2'
      BY <1>3 DEF Tidy
    <3>2. p \notin cut /\ \A s \in mine : s \notin writers[p] /\ ~At(s, p)
      BY <1>3, <3>1 DEF At
    <3>3. Tidy(p)!2 /\ writers'[p] = writers[p] /\ \A s \in Sessions : At(s, p)' <=> At(s, p)
      BY <2>1, <2>2, <3>1, <3>2 DEF Stored, Tidy
    <3>4. (\A s \in Sessions : ~At(s, p)') => (writers'[p] = {} => staging'[p] = "absent") /\ (pack'[p] # "absent" => Whole(p)')
      BY <1>3, <3>3 DEF Whole
    <3>5. \A s \in Sessions : At(s, p)' => pc'[s] = pc[s]
      BY <1>7, <2>2
    <3> QED BY <1>3, <3>3, <3>4, <3>5 DEF Whole
  <2>7. HasOrigin(p)'
    BY <1>3, <2>1 DEF Stored, HasOrigin
  <2> QED BY <2>3, <2>4, <2>5, <2>6, <2>7 DEF Stored
<1> QED BY <1>6, <1>9, <1>10, <1>11, <1>12 DEF IInv

(* At first there is nothing.                                               *)
LEMMA InitIInv == Init => IInv
<1> SUFFICES ASSUME Init PROVE IInv
  OBVIOUS
<1>1. PICK w \in Worlds : open = w.tabs /\ index = w.index /\ ceiling = w.ceiling
                          /\ pc = [s \in Sessions |-> IF s <= w.sessions THEN "idle" ELSE "gone"]
  BY DEF Init
<1>2. open \subseteq Pages /\ index \subseteq Packs /\ ceiling \in Nat
  BY <1>1, PackAssumption
<1>3. None \in [Packs -> Kinds] /\ \A p \in Packs : None[p] \notin Sessions /\ None[p] # Spent
  BY KindsDiffer DEF None, Kinds
<1>4. \A s \in Sessions : pc[s] \in {"idle", "gone"}
  BY <1>1
<1>5. TypeOK
  <2>1. pc \in [Sessions -> Installing \cup Over \cup {"idle", "wanting", "ensuring"}]
    BY <1>1 DEF Over
  <2> QED BY <1>2, <1>3, <2>1 DEF Init, TypeOK
<1>6. HasPage /\ SeesSpent /\ MountsItsBytes /\ BlockedOnlyByAnother
  BY <1>4 DEF Init, HasPage, SeesSpent, InLoop, Installing, Storing, MountsItsBytes, BlockedOnlyByAnother
<1>7. ASSUME NEW p \in Packs PROVE Stored(p)
  <2>1. \A s \in Sessions : ~At(s, p) /\ pc[s] # "booted"
    BY <1>4 DEF At, Storing
  <2>2. Alone(p) /\ ItsFiles(p) /\ HasOrigin(p)
    BY <2>1 DEF Init, Alone, ItsFiles, HasOrigin
  <2>3. Kept(p) /\ Tidy(p)
    BY <1>3, <2>1 DEF Init, Kept, Tidy
  <2> QED BY <2>2, <2>3 DEF Stored
<1> QED BY <1>5, <1>6, <1>7 DEF IInv

(* Every step of every session keeps the invariant.                         *)
LEMMA NextIInv == IInv /\ [Next]_vars => IInv'
<1> SUFFICES ASSUME IInv, [Next]_vars PROVE IInv'
  OBVIOUS
<1>1. CASE \E s \in Sessions : Start(s) \/ Step(s)
  <2>1. PICK s \in Sessions : Start(s) \/ Step(s)
    BY <1>1
  <2> QED BY <2>1, StartIInv, WantsIInv, EnsuresIInv, ReadsIInv, ClearsIInv, CreatesIInv, OpensIInv, WritesIInv,
             WriteFailsIInv, RemovesPackIInv, MovesIInv, ChecksIInv, MarksIInv, CollectsIInv, UnmarksIInv, CleansIInv,
             MemoryIInv DEF Step
<1>2. CASE \E g \in Pages : CloseTab(g)
  BY <1>2, CloseTabIInv
<1>3. CASE UNCHANGED vars
  <2>1. /\ UNCHANGED <<open, index, ready, installed, page, pc, plan, at, todo, ahead, why, mounted, robbed>>
        /\ UNCHANGED <<staging, writers, pack, origin, marked, old, ceiling, contended, misread, cut>>
    BY <1>3 DEF vars, boots, artifacts, store, history
  <2>2. TypeOK' /\ HasPage' /\ SeesSpent' /\ MountsItsBytes' /\ BlockedOnlyByAnother'
    BY <2>1 DEF IInv, TypeOK, HasPage, SeesSpent, InLoop, MountsItsBytes, BlockedOnlyByAnother
  <2>3. ASSUME NEW p \in Packs PROVE Stored(p)'
    BY <2>1 DEF IInv, Stored, Alone, ItsFiles, Kept, Tidy, HasOrigin, At, Whole
  <2> QED BY <2>2, <2>3 DEF IInv
<1> QED BY <1>1, <1>2, <1>3 DEF Next

(* The invariant holds of every behaviour of the installs.                  *)
THEOREM InstallInvariant == Spec => []IInv
BY InitIInv, NextIInv, PTL DEF Spec

(* Every state of the installs has its type.                                *)
THEOREM InstallTypeOK == Spec => []TypeOK
<1>1. IInv => TypeOK
  BY DEF IInv
<1> QED BY <1>1, InstallInvariant, PTL

(* Whatever restarts raced the loops: no worker boots with a pack the page  *)
(* has given away, and a boot is refused for one only if another boot of    *)
(* its page took a pack while it was in its loop.                           *)
THEOREM WorkersMountBytes == Spec => []MountsItsBytes
<1>1. IInv => MountsItsBytes
  BY DEF IInv
<1> QED BY <1>1, InstallInvariant, PTL

(* What closed tabs, failed writes and stalled writers left behind never    *)
(* fails an install that no other one overlaps.                             *)
THEOREM StorageNeverBlocks == Spec => []BlockedOnlyByAnother
<1>1. IInv => BlockedOnlyByAnother
  BY DEF IInv
<1> QED BY <1>1, InstallInvariant, PTL

(* Where no two installs of a pack overlapped, the store is sound: a        *)
(* mounted pack that could be read is not replaced, and nothing incomplete  *)
(* survives an install that ran to its end.                                 *)
THEOREM StoreStaysSound == Spec => []StoreIsSound
<1>1. IInv => StoreIsSound
  <2> SUFFICES ASSUME IInv, NEW p \in Packs, contended[p] = {} PROVE StoreIsSound!(p)!2
    BY DEF StoreIsSound
  <2>1. ASSUME p \notin misread, NEW s \in Sessions, pc[s] = "booted", mounted[s][p] \in Sessions
        PROVE  Whole(p) /\ origin[p] = mounted[s][p]
    BY <2>1 DEF IInv, Stored, Kept, Whole
  <2>2. ASSUME p \notin cut, writers[p] = {}, ~(\E s \in Sessions : pc[s] \in Storing /\ at[s] = p)
        PROVE  staging[p] = "absent" /\ (pack[p] # "absent" => Whole(p))
    <3>1. \A s \in Sessions : ~At(s, p)
      BY <2>2 DEF At
    <3> QED BY <2>2, <3>1 DEF IInv, Stored, Tidy
  <2> QED BY <2>1, <2>2
<1> QED BY <1>1, InstallInvariant, PTL
================================================================================
