-------------------------- MODULE MCEditCoalescer --------------------------
(* The edit coalescer on small instances. *)
EXTENDS EditCoalescer
=============================================================================
