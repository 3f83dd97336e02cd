----------------------------- MODULE MCAgentLoop -----------------------------
(***************************************************************************)
(* AgentLoop for TLC.  The bounds of the configurations:                   *)
(*                                                                         *)
(*   MaxMessages  two messages let one be claimed while another is sent,   *)
(*                and a prompt queue behind a running turn;                *)
(*   MaxSteps     one owed step is enough for a turn of two steps, the     *)
(*                shortest in which an ending can outlive its step;        *)
(*   MaxCancels   one cancel aborts any activity at any point of it;       *)
(*   MaxJobs      one maintenance job is what a wake can latch behind.     *)
(*                                                                         *)
(* The violation configurations lower the bounds that their one question   *)
(* does not involve.                                                       *)
(***************************************************************************)
EXTENDS AgentLoop
=============================================================================
