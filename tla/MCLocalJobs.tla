----------------------------- MODULE MCLocalJobs -----------------------------
(***************************************************************************)
(* LocalJobs for TLC.                                                      *)
(*                                                                         *)
(*   Owners      one agent; jobs are its own or nobody's;                  *)
(*   Limit       one, so that a stopping job may hold up the next;         *)
(*   WakeBudget  one, so that a second completion finds it spent;          *)
(*   MaxJobs     two jobs, whose notices and teardowns meet;               *)
(*   MaxWaits    two waits, for one job or for both.                       *)
(***************************************************************************)
EXTENDS LocalJobs
=============================================================================
