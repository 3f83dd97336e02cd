---------------------------- MODULE MCGoalRounds ----------------------------
(***************************************************************************)
(* GoalRounds for TLC.                                                     *)
(*                                                                         *)
(*   Caps        caps of one and two rounds: the first is its last, or the *)
(*               second is reserved after a checkpoint;                    *)
(*   MaxChanges  creation or resumption, and a change that meets the round *)
(*               at any point of its way;                                  *)
(*   MaxPrompts  one prompt, ahead of a round, behind it, or in the way of *)
(*               a checkpoint;                                             *)
(*   MaxCancels  one cancel, or one message withdrawn from the queue;      *)
(*   MaxJobs     one maintenance task, in which the agent looks idle.      *)
(***************************************************************************)
EXTENDS GoalRounds

(* Behaviours of Spec for the runs that show a disagreement: a reader      *)
(* should not have to ask whether a promise could be so late.  In these    *)
(* all that is ready to resume goes before what takes time: a listener, a  *)
(* step, a flush, a task, somebody's call.                                 *)
Resuming ==
  \/ \E stage \in Stages \ {"flushing"} : runs[stage] > 0
  \/ at \in {"rejected", "thrown", "closed", "between"}
Resumes == Start \/ Replay \/ Loop \/ Retire \/ FlushReturns \/ RefusalSettles \/ TurnReturns
ResumesFirst == Init /\ [][IF Resuming THEN Resumes ELSE Next]_vars
=============================================================================
