----------------------------- MODULE Snapshots -----------------------------
(***************************************************************************)
(* The choice of environments (src/lib/snapshots.ts): which entries of the *)
(* served index a header needs, and to which one a refused session widens. *)
(* A module is a value; an entry's roots are given as the set of modules   *)
(* they claim, so coversModule is membership.  The entries of the base     *)
(* (init) are the first loads of every session.                            *)
(***************************************************************************)
EXTENDS Naturals, FiniteSets, SequencesExt

CONSTANTS Base,        \* the names every session loads first
          InitModules  \* the modules every session serves

(* The most an index may ask of a session's first commit: 6 GiB, in 256 MiB. *)
Cap == 24

(* An index is a sequence of [name, roots, bytes, initialBytes]; an entry
   that declares no commit has initialBytes 0. *)
Named(index, names) == {e \in ToSet(index) : e.name \in names}
RootsOf(index, names) == UNION {e.roots : e \in Named(index, names)}
Names(index) == {e.name : e \in ToSet(index)}
Claimed(index) == RootsOf(index, Names(index))

(* isInit, coversModule: what the base does not serve by itself. *)
Beyond(index, modules) == modules \ (InitModules \cup RootsOf(index, Base))

(* The loops meet the entries in the index's order: of two of one size they
   keep the earlier. *)
Smaller(index, k, j) ==
    index[k].bytes < index[j].bytes \/ (index[k].bytes = index[j].bytes /\ k < j)

(* chooseSnapshots: the loop keeps the entry that covers most, the smaller
   of two that cover as much, the earlier of two of one size. *)
chooseSnapshots(index, modules) ==
    LET covered(k) == Cardinality(Beyond(index, modules) \cap index[k].roots)
        rivals == {k \in DOMAIN index : index[k].name \notin Base /\ covered(k) > 0}
        Beats(k, j) == \/ covered(k) > covered(j)
                       \/ covered(k) = covered(j) /\ Smaller(index, k, j)
    IN  Base \cup {index[k].name : k \in {k \in rivals : \A j \in rivals \ {k} : Beats(k, j)}}

(* What the entry widened to must claim: every missing module, and all of the
   header's that any entry claims and the base does not serve. *)
Required(index, missing, modules) == missing \cup (Beyond(index, modules) \cap Claimed(index))

(* widenTarget: the smallest such entry, not loaded, as <<entry>>; <<>> when
   there is none, or the loaded entries claim every missing module already. *)
widenTarget(index, missing, loaded, modules) ==
    LET rivals == {k \in DOMAIN index : /\ index[k].name \notin loaded
                                        /\ Required(index, missing, modules) \subseteq index[k].roots}
        best == {k \in rivals : \A j \in rivals \ {k} : Smaller(index, k, j)}
    IN  IF missing \subseteq InitModules \cup RootsOf(index, Base \cup loaded) \/ best = {} THEN <<>>
        ELSE <<index[CHOOSE k \in best : TRUE]>>

(* Without an index (needsMathlib and selfWiden): the umbrella, which claims
   `roots`, if any module is one of its; once, if every missing one is. *)
legacyChoice(roots, modules) == Base \cup {n \in {"mathlib"} : modules \cap roots # {}}
LegacyWidens(roots, missing, loaded) == "mathlib" \notin loaded /\ missing # {} /\ missing \subseteq roots

(* initialBytesForEntries: the largest commit declared, capped; else by
   whether any entry but the base is loaded (2 GiB or 256 MiB). *)
initialBytesForEntries(index, names) ==
    LET declared == {e.initialBytes : e \in Named(index, names)} \ {0}
    IN  IF declared # {} THEN Min({Cap, Max(declared)})
        ELSE IF names \subseteq Base THEN 1 ELSE 8
=============================================================================
