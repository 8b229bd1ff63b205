------------------------------- MODULE MCPage -------------------------------
(***************************************************************************)
(* Three entries beside the base: the umbrella serves a, a small one b,    *)
(* and a larger overlay both.  No entry claims x.                          *)
(***************************************************************************)
EXTENDS Page, WidgetSources

CONSTANTS a, b, x

TheIndex == << [name |-> "init",    roots |-> {},     bytes |-> 1, initialBytes |-> 0],
               [name |-> "mathlib", roots |-> {a},    bytes |-> 3, initialBytes |-> 0],
               [name |-> "course",  roots |-> {b},    bytes |-> 2, initialBytes |-> 0],
               [name |-> "overlay", roots |-> {a, b}, bytes |-> 4, initialBytes |-> 16] >>
TheBase == {"init"}
TheHeaders == {{}, {a, b}}

(* Every index of the base and three entries over two modules, in two sizes. *)
Entries(n) == [name : {n}, roots : SUBSET {a, b}, bytes : 1..2, initialBytes : {0, 16, 32}]
Plain(n) == {e \in Entries(n) : e.initialBytes = 0}
InitEntry == [name |-> "init", roots |-> {}, bytes |-> 1, initialBytes |-> 0]
Indexes == {<<e1, InitEntry, e2, e3>> : e1 \in Plain("e1"), e2 \in Plain("e2"), e3 \in Plain("e3")}

(* At most one entry beside the base; none covers more of what the base does
   not, nor as much in fewer bytes; none is chosen only when none covers any. *)
ASSUME ChoiceIsBest ==
    \A index \in Indexes, modules \in SUBSET {a, b, x} :
      LET chosen == Named(index, chooseSnapshots(index, modules) \ Base)
          covered(e) == Cardinality(modules \cap e.roots)
      IN  /\ Cardinality(chosen) =< 1
          /\ chosen = {} => Claimed(index) \cap modules = {}
          /\ \A e \in chosen : /\ covered(e) > 0
                               /\ \A o \in ToSet(index) :
                                     covered(o) < covered(e) \/ (covered(o) = covered(e) /\ o.bytes >= e.bytes)

(* A widen serves all it can be asked to, in the smallest entry; and the
   session it boots is never widened again for those modules, whichever of
   them the kernel then refuses. *)
ASSUME WidenIsFinal ==
    \A index \in Indexes, modules \in SUBSET {a, b, x} : \A missing \in SUBSET modules :
    \A loaded \in {Base, Base \cup {"e1"}, Base \cup {"e2", "e3"}} :
      LET target == widenTarget(index, missing, loaded, modules)
          serves(e) == modules \cap Claimed(index) \subseteq e.roots /\ missing \subseteq e.roots
      IN  IF target = <<>>
            THEN \/ missing \subseteq RootsOf(index, loaded)
                 \/ \A e \in ToSet(index) : e.name \in loaded \/ ~serves(e)
            ELSE /\ serves(target[1])
                 /\ \A e \in ToSet(index) : serves(e) /\ e.name \notin loaded => e.bytes >= target[1].bytes
                 /\ \A refused \in SUBSET modules :
                      widenTarget(index, refused, Base \cup {target[1].name}, modules) = <<>>

(* Without an index the page behaves as with the one of the base and an
   umbrella that declares nothing but its roots. *)
ASSUME LegacyIsAnIndex ==
    \A roots \in SUBSET {a, b} :
      LET umbrella == [name |-> "mathlib", roots |-> roots, bytes |-> 3, initialBytes |-> 0]
          index == <<InitEntry, umbrella>>
      IN  \A modules \in SUBSET {a, b, x} :
            /\ chooseSnapshots(index, modules) = legacyChoice(roots, modules)
            /\ \A missing \in SUBSET modules, loaded \in {Base, Base \cup {"mathlib"}} :
                 widenTarget(index, missing, loaded, modules)
                   = IF LegacyWidens(roots, missing, loaded) THEN <<umbrella>> ELSE <<>>

(* The commit is never above the cap, and never below what a loaded entry
   declares within it. *)
ASSUME CommitIsBounded ==
    \A e1 \in Entries("e1"), e2 \in Entries("e2") : \A names \in {Base, {"init", "e1"}, {"init", "e1", "e2"}} :
      LET index == <<InitEntry, e1, e2>>
          bytes == initialBytesForEntries(index, names)
      IN  /\ bytes =< Cap
          /\ \A e \in Named(index, names) : e.initialBytes =< Cap => bytes >= e.initialBytes
-----------------------------------------------------------------------------
(* The widget sources: three requests of an InfoView, all for one hash or  *)
(* one for another, cancelled or not, over three sessions; the relay       *)
(* answers what it was handed, whenever and however it likes.              *)
Hashes == {[id \in 1 .. 3 |-> "h"], [id \in 1 .. 3 |-> IF id = 2 THEN "g" ELSE "h"]}

(* Every state such a page reaches. *)
SourceStates(hashOf) ==
  FoldLeft(LAMBDA acc, i :
             [all  |-> acc.all \cup acc.last,
              last |-> {p \in UNION {onPage(q, hashOf) : q \in acc.last} : p.session =< 3} \ acc.all],
           [all |-> {}, last |-> {NoRequests(hashOf)}], [i \in 1 .. 12 |-> i]).all

(* Every request is answered at most once, and is handed to the relay or   *)
(* waits for one that is until then; a result is of the session it was     *)
(* asked in; one session's relay has one request of a hash at a time; and  *)
(* a waiter's cancellation reaches the worker (which never saw it: the     *)
(* comment at widget-source-cache.ts:20 says none does) only when a newer  *)
(* session's flight has replaced the one it waits in.                      *)
ASSUME SourcesAreAnswered ==
  \A hashOf \in Hashes : \A p \in SourceStates(hashOf) :
    /\ \A i, j \in DOMAIN p.said : p.said[i].id = p.said[j].id => i = j
    /\ \A id \in Made(p) :
         \/ id \in p.handed \/ \E i \in DOMAIN p.said : p.said[i].id = id
         \/ \E f \in p.s.flights : id \in ToSet(f.waiters) /\ f.leader \in p.handed
    /\ \A i \in DOMAIN p.said :
         p.said[i].body.kind = "result" => p.said[i].body.source = p.asked[p.said[i].id]
    /\ \A i, j \in p.handed : i # j => p.asked[i] # p.asked[j] \/ hashOf[i] # hashOf[j]
    /\ \A f \in p.s.flights : \A id \in ToSet(f.waiters) :
         interceptCancel(p.s, id).relayed # {} => ~f.listed /\ f.session < p.session
=============================================================================
