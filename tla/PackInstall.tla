---------------------------- MODULE PackInstall ----------------------------
(***************************************************************************)
(* The library packs: their install into the browser's storage or memory   *)
(* by lib/profiles.ts, from several tabs and from several sessions of a    *)
(* tab with no lock between them, and their handover to the worker that    *)
(* mounts them by lib/resident-session.ts and lib/client.ts.               *)
(*                                                                         *)
(* The page keeps the installed packs for all its sessions.  A pack in     *)
(* memory is transferred to the worker that boots with it and is spent in  *)
(* the page; a boot installs the spent packs of its snapshot of the map    *)
(* again, one await each, and hands over the map; a disposed session's     *)
(* boot goes on.  In storage, a pack counts once its marker is written.    *)
(*                                                                         *)
(* Of the browser: a file with an open writer can be neither removed nor   *)
(* renamed; every writer of a file has its own copy until it closes; a     *)
(* closed tab's writers are gone.  The index a page holds never changes,   *)
(* so a pack of the map is always in it.                                   *)
(***************************************************************************)
EXTENDS Integers, FiniteSets

CONSTANTS
  Pages,        \* tabs of this site
  NPacks,       \* packs there are
  Size,         \* [Packs -> the chunks a pack is written in]
  MaxSessions,  \* bound: sessions begun, in all tabs
  Worlds        \* bound: the tabs, the index and the known ceiling at the start, and the sessions begun

Packs == 1..NPacks   \* as the page's map and its loops have them
Essential == NPacks  \* the pack for exact imports: always the last

ASSUME PackAssumption ==
  /\ MaxSessions \in Nat /\ NPacks \in Nat \ {0} /\ Size \in [Packs -> Nat]
  /\ Worlds \subseteq [tabs : SUBSET Pages, index : SUBSET Packs, ceiling : Nat, sessions : 0..MaxSessions]

Sessions == 1..MaxSessions
Nobody == 0

(* What a page holds and a worker mounts of a pack: nothing, its bytes,    *)
(* bytes given away, or the stored file some session wrote.                *)
Nothing == 0
Bytes == -1
Spent == -2

VARIABLES
  open,       \* the tabs that are open
  index,      \* the packs the site lists
  ready,      \* [Pages -> "none", "installing" its own packs, "ready"]
  installed,  \* artifacts.installed of every page: [Pages -> [Packs -> what it holds]]
  page,       \* [Sessions -> its page]
  pc,         \* [Sessions -> the step of its boot]
  plan,       \* [Sessions -> whose install it is in: "page", "exact" imports, "loop"]
  at,         \* [Sessions -> the pack it installs, or failed at]
  todo,       \* [Sessions -> the packs it has yet to install after that one]
  ahead,      \* [Sessions -> packs of its snapshot it has not reached and the map still has]
  why,        \* [Sessions -> the failure it is cleaning up after, or died of]
  mounted,    \* [Sessions -> [Packs -> what its worker mounted]]
  staging,    \* [Packs -> <pack>.staging: "absent", "empty", "whole"]
  writers,    \* [Packs -> sessions with an open writer of the staging file]
  pack,       \* [Packs -> <pack>: "absent", "empty", "whole"]
  origin,     \* [Packs -> the session that wrote the pack file]
  marked,     \* the packs whose <pack>.meta.json is there
  old,        \* the packs that have files of a superseded release
  ceiling,    \* writes of this size are known to fail (localStorage); 0: none is
  contended,  \* [Packs -> sessions that installed it while another did]
  misread,    \* packs installed over because the marked file could not be read
  cut,        \* packs an install of which a closed tab cut short
  robbed      \* sessions in whose loop another boot of the page took a pack

boots == <<page, pc, plan, at, todo, ahead, why, mounted, robbed>>
artifacts == <<index, ready, installed>>
store == <<staging, writers, pack, origin, marked, old, ceiling>>
history == <<contended, misread, cut>>
vars == <<open, artifacts, boots, store, history>>

NoPage == "none"
None == [p \in Packs |-> Nothing]
(* The steps between a miss of the cache and the end of the install.       *)
Storing == {"clearing", "creating", "opening", "writing", "removing", "moving", "checking", "marking",
            "collecting", "unmarking", "cleaning"}
Installing == Storing \cup {"reading", "memory"}
Over == {"booted", "failed", "gone"}
InLoop(s) == plan[s] = "loop" /\ pc[s] \in Installing

Init ==
  /\ \E w \in Worlds :
       /\ open = w.tabs /\ index = w.index /\ ceiling = w.ceiling
       /\ pc = [s \in Sessions |-> IF s <= w.sessions THEN "idle" ELSE "gone"]
  /\ ready = [g \in Pages |-> "none"] /\ installed = [g \in Pages |-> None]
  /\ page = [s \in Sessions |-> NoPage]
  /\ plan = [s \in Sessions |-> "none"] /\ at = [s \in Sessions |-> 0]
  /\ todo = [s \in Sessions |-> {}] /\ ahead = [s \in Sessions |-> {}]
  /\ why = [s \in Sessions |-> "none"] /\ mounted = [s \in Sessions |-> None]
  /\ staging = [p \in Packs |-> "absent"] /\ writers = [p \in Packs |-> {}]
  /\ pack = [p \in Packs |-> "absent"] /\ origin = [p \in Packs |-> Nobody]
  /\ marked = {} /\ old = Packs
  /\ contended = [p \in Packs |-> {}] /\ misread = {} /\ cut = {} /\ robbed = {}

-----------------------------------------------------------------------------
(* The page's map and the boots over it.                                   *)

Goes(s, step) == pc' = [pc EXCEPT ![s] = step]
Plans(s, p, for) == at' = [at EXCEPT ![s] = p] /\ plan' = [plan EXCEPT ![s] = for]

(* The page's map becomes `map`: `set` is new in it, `given` was           *)
(* transferred.  The snapshot of another boot of the page keeps what was   *)
(* replaced, and shows what was given away if its loop is not past it.     *)
Map(s, map, set, given, left, rest) ==
  LET here == {r \in Sessions \ {s} : page[r] = page[s]} IN
  /\ installed' = [installed EXCEPT ![page[s]] = map]
  /\ todo' = [r \in Sessions |-> IF r = s THEN left
                                 ELSE IF r \in here THEN todo[r] \cup ((ahead[r] \ set) \cap given) ELSE todo[r]]
  /\ ahead' = [r \in Sessions |-> IF r = s THEN rest ELSE IF r \in here THEN ahead[r] \ (set \cup given) ELSE ahead[r]]
  /\ robbed' = IF given = {} THEN robbed ELSE robbed \cup {r \in here : InLoop(r)}

(* boot(): refused if a pack is spent; else the map goes to the worker,    *)
(* what is in memory by transfer.                                          *)
Boots(s, map, set) ==
  LET given == {p \in Packs : map[p] = Bytes}
      kept == [p \in Packs |-> IF p \in given THEN Spent ELSE map[p]]
  IN
  /\ Plans(s, 0, "none") /\ UNCHANGED ready
  /\ \/ /\ \E p \in Packs : map[p] = Spent
        /\ Goes(s, "failed") /\ why' = [why EXCEPT ![s] = "consumed"] /\ UNCHANGED mounted
        /\ Map(s, map, set, {}, {}, {})
     \/ /\ \A p \in Packs : map[p] # Spent
        /\ Goes(s, "booted") /\ mounted' = [mounted EXCEPT ![s] = map] /\ UNCHANGED why
        /\ Map(s, kept, set, given, {}, {})

(* With the page's map now `map`, s installs the first of the packs `left` *)
(* or, when there is none, goes on: a loop to the worker, the page and the *)
(* exact imports to the session's own boot.                                *)
GoesOn(s, map, set, left, rest, for) ==
  \/ \E p \in left :
       /\ \A q \in left : p <= q
       /\ Plans(s, p, for) /\ Goes(s, "reading")
       /\ Map(s, map, set, {}, left \ {p}, {q \in rest : q > p})
       /\ UNCHANGED <<ready, why, mounted>>
  \/ left = {} /\ for = "loop" /\ Boots(s, map, set)
  \/ /\ left = {} /\ for # "loop"
     /\ Plans(s, 0, "none") /\ Goes(s, "ensuring")
     /\ ready' = [ready EXCEPT ![page[s]] = "ready"]
     /\ Map(s, map, set, {}, {}, {})
     /\ UNCHANGED <<why, mounted>>

(* The install of a session's pack has ended with `kind`.                  *)
Installed(s, kind) ==
  GoesOn(s, [installed[page[s]] EXCEPT ![at[s]] = kind], {at[s]}, todo[s], ahead[s], plan[s])

(* A tab begins by installing its own packs; its relay then begins one     *)
(* session after the other, whatever became of the one before.             *)
Start(s) ==
  /\ pc[s] = "idle" /\ \A r \in Sessions : r < s => pc[r] # "idle"
  /\ \E g \in open :
       /\ page' = [page EXCEPT ![s] = g]
       /\ \/ ready[g] = "ready" /\ Goes(s, "ensuring") /\ UNCHANGED ready
          \/ ready[g] = "none" /\ Goes(s, "wanting") /\ ready' = [ready EXCEPT ![g] = "installing"]
  /\ UNCHANGED <<open, index, installed, plan, at, todo, ahead, why, mounted, robbed, store, history>>

(* installArtifacts: the packs this page asks for.                         *)
Wants(s) ==
  /\ pc[s] = "wanting"
  /\ \E wanted \in SUBSET index : GoesOn(s, None, {}, wanted, {}, "page")
  /\ UNCHANGED <<open, index, page, store, history>>

Spents(map) == {p \in Packs : map[p] = Spent}
Held(map) == {p \in Packs : map[p] \notin {Nothing, Spent}}

(* Mutant: the loop passes over the spent packs. *)
EnsuresUnspent(s) ==
  LET map == installed[page[s]] IN
  /\ pc[s] = "ensuring"
  /\ \/ Essential \in index /\ map[Essential] = Nothing /\ GoesOn(s, map, {}, {Essential}, {}, "exact")
     \/ GoesOn(s, map, {}, {}, Held(map), "loop")
  /\ UNCHANGED <<open, index, page, store, history>>

(* Exact imports install their pack if the page has none; then the loop    *)
(* over a snapshot of the map, whose spent packs are installed again.      *)
Ensures(s) ==
  LET map == installed[page[s]] IN
  /\ pc[s] = "ensuring"
  /\ \/ Essential \in index /\ map[Essential] = Nothing /\ GoesOn(s, map, {}, {Essential}, {}, "exact")
     \/ GoesOn(s, map, {}, Spents(map), Held(map), "loop")
  /\ UNCHANGED <<open, index, page, store, history>>

-----------------------------------------------------------------------------
(* installProfile, for the pack at[s].                                     *)

Throws(s, cause) ==
  /\ Goes(s, "failed") /\ why' = [why EXCEPT ![s] = cause]
  /\ plan' = [plan EXCEPT ![s] = "none"]
  /\ todo' = [todo EXCEPT ![s] = {}] /\ ahead' = [ahead EXCEPT ![s] = {}]
  /\ UNCHANGED <<open, artifacts, page, at, mounted, robbed>>

(* A step that only moves on, and one that fails.                          *)
Only(s, step) == Goes(s, step) /\ UNCHANGED <<open, artifacts, page, plan, at, todo, ahead, why, mounted, robbed>>
Fails(s, step, cause) ==
  /\ Goes(s, step) /\ why' = [why EXCEPT ![s] = cause]
  /\ UNCHANGED <<open, artifacts, page, plan, at, todo, ahead, mounted, robbed>>

Whole(p) == pack[p] = "whole" /\ p \in marked
KnownToFail(p) == ceiling > 0 /\ Size[p] >= ceiling

(* An install that overlaps another's, a stalled writer's included.        *)
Overlaps(s, p) ==
  LET others == {r \in Sessions \ {s} : pc[r] \in Storing /\ at[r] = p} \cup writers[p]
  IN contended' = [contended EXCEPT ![p] = IF others = {} THEN @ ELSE @ \cup others \cup {s}]

(* The manifest is fetched, and is the release the page pairs with, or     *)
(* the boot fails.  A complete, marked pack that can be read always wins;  *)
(* a known ceiling or no storage here means memory.                        *)
Reads(s) ==
  LET p == at[s] IN
  /\ pc[s] = "reading"
  /\ \/ Whole(p) /\ Installed(s, origin[p]) /\ UNCHANGED <<open, index, page, history>>
     \/ /\ ~KnownToFail(p) /\ Only(s, "clearing") /\ Overlaps(s, p)
        /\ misread' = IF Whole(p) THEN misread \cup {p} ELSE misread   \* there, but its data is gone
        /\ UNCHANGED cut
     \/ Only(s, "memory") /\ UNCHANGED history
     \/ Throws(s, "network") /\ UNCHANGED history
  /\ UNCHANGED store

Removed(p) == IF writers[p] = {} THEN "absent" ELSE staging[p]

Clears(s) ==
  LET p == at[s] IN
  /\ pc[s] = "clearing"
  /\ staging' = [staging EXCEPT ![p] = Removed(p)]
  /\ Only(s, "creating")
  /\ UNCHANGED <<writers, pack, origin, marked, old, ceiling, history>>

Creates(s) ==
  LET p == at[s] IN
  /\ pc[s] = "creating"
  /\ staging' = [staging EXCEPT ![p] = IF @ = "absent" THEN "empty" ELSE @]
  /\ Only(s, "opening")
  /\ UNCHANGED <<writers, pack, origin, marked, old, ceiling, history>>

Opens(s) ==
  LET p == at[s] IN
  /\ pc[s] = "opening"
  /\ \/ staging[p] = "absent" /\ Fails(s, "cleaning", "storage") /\ UNCHANGED writers
     \/ staging[p] # "absent" /\ Only(s, "writing") /\ writers' = [writers EXCEPT ![p] = @ \cup {s}]
  /\ UNCHANGED <<staging, pack, origin, marked, old, ceiling, history>>

(* Every part arrives, is verified, inflated and written, and the writer   *)
(* closes: its copy becomes the file.                                      *)
Writes(s) ==
  LET p == at[s] IN
  /\ pc[s] = "writing"
  /\ staging' = [staging EXCEPT ![p] = "whole"] /\ writers' = [writers EXCEPT ![p] = @ \ {s}]
  /\ Only(s, "removing")
  /\ UNCHANGED <<pack, origin, marked, old, ceiling, history>>

(* Mutant: a full disk is an error like another. *)
WriteFailsHard(s) ==
  /\ pc[s] = "writing"
  /\ writers' = [writers EXCEPT ![at[s]] = @ \ {s}] /\ Fails(s, "cleaning", "storage")
  /\ UNCHANGED <<staging, pack, origin, marked, old, ceiling, history>>

(* The smallest size seen to fail is remembered; 0 reads back as none.     *)
RecordsCeiling(written) == ceiling' = IF ceiling = 0 \/ written < ceiling THEN written ELSE ceiling

(* A part fails all its retries; or a write fails or stalls after some     *)
(* chunks, which is remembered.  A stalled writer may outlive its abort.   *)
WriteFails(s) ==
  LET p == at[s] IN
  /\ pc[s] = "writing"
  /\ \/ /\ writers' = [writers EXCEPT ![p] = @ \ {s}]
        /\ Fails(s, "cleaning", "network") /\ UNCHANGED ceiling
     \/ /\ \E gone \in {{}, {s}} : writers' = [writers EXCEPT ![p] = @ \ gone]
        /\ Fails(s, "cleaning", "quota") /\ \E written \in 0..Size[p] : RecordsCeiling(written)
  /\ UNCHANGED <<staging, pack, origin, marked, old, history>>

RemovesPack(s) ==
  LET p == at[s] IN
  /\ pc[s] = "removing"
  /\ pack' = [pack EXCEPT ![p] = "absent"] /\ origin' = [origin EXCEPT ![p] = Nobody]
  /\ Only(s, "moving")
  /\ UNCHANGED <<staging, writers, marked, old, ceiling, history>>

Moves(s) ==
  LET p == at[s] IN
  /\ pc[s] = "moving"
  /\ \/ /\ staging[p] # "absent" /\ writers[p] = {}
        /\ pack' = [pack EXCEPT ![p] = staging[p]] /\ origin' = [origin EXCEPT ![p] = s]
        /\ staging' = [staging EXCEPT ![p] = "absent"]
        /\ Only(s, "checking")
     \/ /\ staging[p] = "absent" \/ writers[p] # {}
        /\ Fails(s, "cleaning", "storage")
        /\ UNCHANGED <<staging, pack, origin>>
     \/ /\ Fails(s, "cleaning", "quota")   \* this browser has no move()
        /\ UNCHANGED <<staging, pack, origin>>
  /\ UNCHANGED <<writers, marked, old, ceiling, history>>

Checks(s) ==
  /\ pc[s] = "checking"
  /\ \/ pack[at[s]] = "whole" /\ Only(s, "marking")
     \/ pack[at[s]] # "whole" /\ Fails(s, "unmarking", "storage")
  /\ UNCHANGED <<store, history>>

Marks(s) ==
  /\ pc[s] = "marking"
  /\ \/ marked' = marked \cup {at[s]} /\ Only(s, "collecting")
     \/ Fails(s, "unmarking", "quota") /\ UNCHANGED marked
  /\ UNCHANGED <<staging, writers, pack, origin, old, ceiling, history>>

(* Superseded releases go, and the install has succeeded.                  *)
Collects(s) ==
  /\ pc[s] = "collecting"
  /\ old' = old \ {at[s]}
  /\ Installed(s, s)
  /\ UNCHANGED <<open, index, page, staging, writers, pack, origin, marked, ceiling, history>>

(* Mutant: only the marker goes. *)
UnmarksOnly(s) ==
  /\ pc[s] = "unmarking"
  /\ marked' = marked \ {at[s]}
  /\ Only(s, "cleaning")
  /\ UNCHANGED <<staging, writers, pack, origin, old, ceiling, history>>

(* A pack whose marker could not be written must not survive.              *)
Unmarks(s) ==
  LET p == at[s] IN
  /\ pc[s] = "unmarking"
  /\ pack' = [pack EXCEPT ![p] = "absent"] /\ origin' = [origin EXCEPT ![p] = Nobody]
  /\ marked' = marked \ {p}
  /\ Only(s, "cleaning")
  /\ UNCHANGED <<staging, writers, old, ceiling, history>>

(* The cleanup; what is known as a storage limit degrades to memory.       *)
Cleans(s) ==
  LET p == at[s] IN
  /\ pc[s] = "cleaning"
  /\ staging' = [staging EXCEPT ![p] = Removed(p)]
  /\ \/ why[s] = "quota" /\ Fails(s, "memory", "none")
     \/ why[s] # "quota" /\ Throws(s, why[s])
  /\ UNCHANGED <<writers, pack, origin, marked, old, ceiling, history>>

Memory(s) ==
  /\ pc[s] = "memory"
  /\ \/ Installed(s, Bytes) /\ UNCHANGED <<open, index, page>>
     \/ Throws(s, "network")
  /\ UNCHANGED <<store, history>>

(* The tab closes: its boots end where they are, its writers are gone.     *)
CloseTab(g) ==
  LET mine == {s \in Sessions : page[s] = g}
      Reset(f, v) == [s \in Sessions |-> IF s \in mine THEN v ELSE f[s]]
  IN
  /\ g \in open /\ open' = open \ {g}
  /\ installed' = [installed EXCEPT ![g] = None] /\ ready' = [ready EXCEPT ![g] = "none"]
  /\ page' = Reset(page, NoPage) /\ pc' = Reset(pc, "gone")
  /\ plan' = Reset(plan, "none") /\ at' = Reset(at, 0) /\ todo' = Reset(todo, {}) /\ ahead' = Reset(ahead, {})
  /\ why' = Reset(why, "none") /\ mounted' = Reset(mounted, None)
  /\ writers' = [p \in Packs |-> writers[p] \ mine]
  /\ cut' = cut \cup {p \in Packs : \E s \in mine : s \in writers[p] \/ (pc[s] \in Storing /\ at[s] = p)}
  /\ robbed' = robbed \ mine
  /\ UNCHANGED <<index, staging, pack, origin, marked, old, ceiling, contended, misread>>

-----------------------------------------------------------------------------
Step(s) ==
  \/ Wants(s) \/ Ensures(s) \/ Reads(s) \/ Clears(s) \/ Creates(s) \/ Opens(s) \/ Writes(s) \/ WriteFails(s)
  \/ RemovesPack(s) \/ Moves(s) \/ Checks(s) \/ Marks(s) \/ Collects(s) \/ Unmarks(s) \/ Cleans(s) \/ Memory(s)

Next ==
  \/ \E s \in Sessions : Start(s) \/ Step(s)
  \/ \E g \in Pages : CloseTab(g)

Spec == Init /\ [][Next]_vars

-----------------------------------------------------------------------------
Kinds == Sessions \cup {Nothing, Bytes, Spent}

TypeOK ==
  /\ open \subseteq Pages /\ index \subseteq Packs
  /\ ready \in [Pages -> {"none", "installing", "ready"}] /\ installed \in [Pages -> [Packs -> Kinds]]
  /\ page \in [Sessions -> Pages \cup {NoPage}]
  /\ pc \in [Sessions -> Installing \cup Over \cup {"idle", "wanting", "ensuring"}]
  /\ plan \in [Sessions -> {"none", "page", "exact", "loop"}] /\ at \in [Sessions -> Packs \cup {0}]
  /\ {todo, ahead} \subseteq [Sessions -> SUBSET Packs]
  /\ why \in [Sessions -> {"none", "network", "quota", "storage", "consumed"}]
  /\ mounted \in [Sessions -> [Packs -> Kinds]]
  /\ {staging, pack} \subseteq [Packs -> {"absent", "empty", "whole"}] /\ origin \in [Packs -> Sessions \cup {Nobody}]
  /\ {writers, contended} \subseteq [Packs -> SUBSET Sessions] /\ robbed \subseteq Sessions
  /\ {marked, old, misread, cut} \subseteq SUBSET Packs /\ ceiling \in Nat

(* No worker boots with a pack the page has given away: its mount would be *)
(* on LEAN_PATH with none of its bytes.  And a boot is refused for such a  *)
(* pack only if another boot of its page took one during its loop, which   *)
(* no restart alone brings about.                                          *)
MountsItsBytes ==
  \A s \in Sessions :
    /\ pc[s] = "booted" => \A p \in Packs : mounted[s][p] # Spent
    /\ pc[s] = "failed" /\ why[s] = "consumed" => s \in robbed

(* Storage never blocks a session: what other sessions and other tabs left *)
(* behind, closed tabs included, does not fail an install that no other    *)
(* one overlaps.                                                           *)
BlockedOnlyByAnother ==
  \A s \in Sessions : (pc[s] = "failed" /\ why[s] = "storage") => s \in contended[at[s]]

(* Unless two installs of a pack overlapped: its file is not replaced      *)
(* under a running session that has it mounted, if it could always be      *)
(* read; and when no install of it is under way and none was cut short, no *)
(* staging file of it and no pack without its marker survives.             *)
StoreIsSound ==
  \A p \in Packs : contended[p] = {} =>
    /\ p \notin misread =>
         \A s \in Sessions : pc[s] = "booted" /\ mounted[s][p] \in Sessions => Whole(p) /\ origin[p] = mounted[s][p]
    /\ p \notin cut /\ writers[p] = {} /\ ~(\E s \in Sessions : pc[s] \in Storing /\ at[s] = p) =>
         staging[p] = "absent" /\ (pack[p] # "absent" => Whole(p))
=============================================================================
