------------------------------ MODULE MCRelay ------------------------------
(* The relay on a small instance; request ids are interchangeable. *)
EXTENDS Relay, TLC

Symmetry == Permutations(Ids)
=============================================================================
