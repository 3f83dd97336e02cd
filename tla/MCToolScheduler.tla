--------------------------- MODULE MCToolScheduler ---------------------------
(***************************************************************************)
(* ToolScheduler for TLC.  Four calls let a pool of two refill while an    *)
(* earlier result is held back, and an exclusive barrier have calls on     *)
(* both of its sides.                                                      *)
(***************************************************************************)
EXTENDS ToolScheduler
=============================================================================
