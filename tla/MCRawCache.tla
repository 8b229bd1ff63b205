----------------------------- MODULE MCRawCache -----------------------------
(* Two tabs, three calls, one removal of the region from outside.          *)
EXTENDS RawCache
=============================================================================
