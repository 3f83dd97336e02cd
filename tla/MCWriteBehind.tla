---------------------------- MODULE MCWriteBehind ----------------------------
(***************************************************************************)
(* WriteBehind for TLC.  Four events let one batch be written while a      *)
(* second collects and a third overtakes the deadline; two flushes let one *)
(* caller join the other's barrier; two failures let a retry fail again.   *)
(***************************************************************************)
EXTENDS WriteBehind
=============================================================================
