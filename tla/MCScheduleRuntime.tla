-------------------------- MODULE MCScheduleRuntime --------------------------
(***************************************************************************)
(* ScheduleRuntime for TLC.                                                *)
(*                                                                         *)
(*   LastInstant, Intervals  two instants past the first: a fixed rate     *)
(*               that is resumed late skips an occurrence;                 *)
(*   MaxDelay    a wait of two instants takes two segments;                *)
(*   MaxCalls    one call, beside the reminder a session may begin with:   *)
(*               two one-shots, or a one-shot and a rate, due together;    *)
(*   MaxWorks    a turn to call from and a turn or task in the way;        *)
(*   MaxMishaps  one crash, or the clock set once.                         *)
(***************************************************************************)
EXTENDS ScheduleRuntime
=============================================================================
