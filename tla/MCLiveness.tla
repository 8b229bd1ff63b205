----------------------------- MODULE MCLiveness -----------------------------
(* The watchdog with short delays: a probe after two quiet ticks.          *)
EXTENDS Liveness
=============================================================================
