--------------------------- MODULE MCResidentHost ---------------------------
(* The resident host on small instances; request ids are interchangeable. *)
EXTENDS ResidentHost, TLC

Symmetry == Permutations(Ids)
=============================================================================
