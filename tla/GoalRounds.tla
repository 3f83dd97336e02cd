----------------------------- MODULE GoalRounds -----------------------------
(***************************************************************************)
(* The goal round driver: an active, armed goal is continued in rounds of  *)
(* the same session (goal/goal-round-driver/src/index.ts), over the goal   *)
(* service (goal/goal/src/index.ts, fold.ts) and an agent whose loop is    *)
(* reduced to what the driver sees of it.                                  *)
(*                                                                         *)
(* Handlers run to completion, and wherever one awaits others may run.  A  *)
(* drive runs up to its first await inside the handler that requests it,   *)
(* so a requested drive that may start, and then a latched wake, go before *)
(* anything else (Quiet).  What goes back to the next-step list when a     *)
(* round is dropped, and the content of rounds, are left out: a round is   *)
(* known by the goal revision and the number it carries.                   *)
(***************************************************************************)
EXTENDS Integers, Sequences

CONSTANTS
  Caps,       \* the values of maxGoalRounds in use
  MaxChanges, \* bound: goal mutations by people and tools
  MaxPrompts, \* bound: prompts people send
  MaxCancels, \* bound: cancels of the agent, and removals from its inbox
  MaxJobs     \* bound: maintenance tasks

ASSUME GoalAssumption ==
  /\ Caps \subseteq Nat \ {0}
  /\ MaxChanges \in Nat /\ MaxPrompts \in Nat /\ MaxCancels \in Nat /\ MaxJobs \in Nat

VARIABLES
  goal,        \* the fold of the session's goal events, and the activation
  replayable,  \* the fold has accepted every event
  attempt,     \* DriverState.attempt
  competing,   \* .competingQueued
  needsCheckpoint, requested,
  held,        \* .run is defined
  runs,        \* how many runs are at each stage, .run names them or not
  unsaved,     \* a goal change that is not durable yet
  phase, aborted, latched,  \* the agent's phase, its signal, its wakeRequested
  replay,      \* a latched wake to be replayed
  at,          \* where the agent's driver is
  claimed,     \* the prompt the running turn's first step claimed
  queue,       \* inbox.nextTurn
  reserved,    \* message ids given to rounds
  halted,      \* history: "aborted" once a turn was, or "struck" once a cancel
               \* discarded the attempt's round; "no" when people change the goal
  overtaken,   \* history: the goal changed since the claimed round was last validated
  changes, prompts, cancels, jobs  \* counts, for the bounds

goalVars == <<goal, replayable>>
flags == <<competing, needsCheckpoint, requested>>
saving == <<held, runs, unsaved>>
agentVars == <<phase, aborted, latched, replay, at, claimed>>
history == <<halted, overtaken>>
counts == <<changes, prompts, cancels, jobs>>
vars == <<goalVars, attempt, flags, saving, agentVars, queue, reserved, history, counts>>

(* A run awaits a checkpoint, resumes after it settled or failed, looks    *)
(* whether another drive is requested, or is done and not retired yet.     *)
Stages == {"flushing", "flushed", "failed", "looping", "ending"}
Placed(rs, stage) == [rs EXCEPT ![stage] = @ + 1]
Without(stage) == [runs EXCEPT ![stage] = @ - 1]

Round(rev, number, id) == [rev |-> rev, round |-> number, id |-> id]
Prompt == Round(0, 0, 0)
Nothing == Round(-1, 0, 0)
IsRound(m) == m.round > 0
NoAttempt == [phase |-> "none", msg |-> Nothing, cancelled |-> FALSE, stale |-> FALSE]
NoGoal == [phase |-> "none", rev |-> 0, cap |-> 0, started |-> 0, armed |-> FALSE]

(* sameQueued: a message carries the attempt's round, copies included.     *)
Same(m, a) ==
  a.phase # "none" /\ IsRound(m) /\ m.rev = a.msg.rev /\ m.round = a.msg.round

(* A session created or resumed: activation is never inherited. *)
Init ==
  /\ goal \in {NoGoal} \cup
       {[phase |-> p, rev |-> 1, cap |-> c, started |-> 0, armed |-> FALSE] :
          p \in {"active", "paused"}, c \in Caps}
  /\ replayable = TRUE /\ attempt = NoAttempt
  /\ competing = FALSE /\ needsCheckpoint = FALSE /\ requested = FALSE
  /\ held = FALSE /\ runs = [stage \in Stages |-> 0] /\ unsaved = FALSE
  /\ phase = "idle" /\ aborted = FALSE /\ latched = FALSE /\ replay = FALSE
  /\ at = "off" /\ claimed = Nothing /\ queue = <<>> /\ reserved = 0
  /\ halted = "no" /\ overtaken = FALSE
  /\ changes = 0 /\ prompts = 0 /\ cancels = 0 /\ jobs = 0

-----------------------------------------------------------------------------
(* requestDrive starts a run unless one is held. *)
DriveDue == requested /\ ~held
(* No handler is still running. *)
Quiet == ~DriveDue /\ ~replay

Armed(g) == g.phase = "active" /\ g.armed
(* An unreadable goal can no more be disarmed than driven. *)
Disarmed(g) == IF replayable THEN [g EXCEPT !.armed = FALSE] ELSE g
(* What a turn of a goal carries on: the event and its notification. *)
Moved(g, to) == [g EXCEPT !.phase = to, !.rev = @ + 1, !.armed = FALSE]

(* goal/changed of the driver's own mutations, at rest: with no run held,  *)
(* a run starts inside it and goes up to its checkpoint.                   *)
ChangeHeard(rest) ==
  /\ unsaved' = TRUE /\ needsCheckpoint' = held
  /\ runs' = IF held THEN rest ELSE Placed(rest, "flushing")
  /\ held' = TRUE

(* inbox.claim of a turn's first step, and the claimed event. *)
ClaimFirst(list, a) ==
  /\ queue' = IF list = <<>> THEN <<>> ELSE Tail(list)
  /\ claimed' = IF list = <<>> THEN Nothing ELSE Head(list)
  /\ attempt' = IF list # <<>> /\ Same(Head(list), a)
                THEN [a EXCEPT !.phase = "claimed"] ELSE a
  /\ phase' = "running" /\ aborted' = FALSE /\ latched' = FALSE
  /\ at' = "assembling"

(* send of a waking message: an idle agent opens its turn, one in           *)
(* maintenance or aborted latches the wake, a running one claims it later. *)
Wake(list, a) ==
  \/ phase = "idle" /\ ClaimFirst(list, a)
  \/ /\ phase # "idle"
     /\ queue' = list /\ attempt' = a
     /\ latched' = (latched \/ phase = "maintenance" \/ aborted)
     /\ UNCHANGED <<phase, aborted, at, claimed>>

(* Fault: only a round that did not start is taken back. *)
PausesUnstarted(g, a) == replayable /\ Armed(g) /\ a.phase \in {"queued", "claimed"}

(* An idle agent whose round was reserved or cancelled has its goal paused. *)
Pauses(g, a) ==
  replayable /\ Armed(g) /\ (a.phase \in {"queued", "claimed"} \/ a.cancelled)

(* The driver's idle listener. *)
IdleListener ==
  /\ competing' = FALSE
  /\ requested' = (requested \/ replayable)
  /\ \/ /\ Pauses(goal, attempt)
        /\ goal' = Moved(goal, "paused") /\ attempt' = NoAttempt
        /\ ChangeHeard(runs)
     \/ /\ ~Pauses(goal, attempt)
        /\ UNCHANGED <<goal, attempt, needsCheckpoint, saving>>

(* Fault: the agent is idle before its turn is over. *)
GoIdleEarly ==
  /\ phase' = "idle" /\ aborted' = FALSE /\ UNCHANGED <<at, claimed>>
  /\ replay' = latched /\ latched' = FALSE
  /\ IdleListener
  /\ UNCHANGED <<replayable, queue, reserved, history, counts>>

(* kick ends: the agent is idle, and a latched wake is replayed. *)
GoIdle ==
  /\ phase' = "idle" /\ aborted' = FALSE /\ at' = "off" /\ claimed' = Nothing
  /\ replay' = latched /\ latched' = FALSE
  /\ IdleListener
  /\ UNCHANGED <<replayable, queue, reserved, history, counts>>

(* The driver's listeners on the end of a turn: errors and token ceilings  *)
(* disarm, and so does an abort that hit no round.                         *)
AfterTurn(reason) ==
  LET struck == reason = "aborted" /\ attempt.phase \in {"claimed", "admitted"}
  IN  [goal |-> IF reason \in {"error", "max-tokens"} \/ (reason = "aborted" /\ ~struck)
                THEN Disarmed(goal) ELSE goal,
       attempt |-> IF struck THEN [attempt EXCEPT !.cancelled = TRUE] ELSE attempt]
TurnEnds(reason) ==
  /\ at' = "closed" /\ claimed' = Nothing
  /\ goal' = AfterTurn(reason).goal /\ attempt' = AfterTurn(reason).attempt
  /\ halted' = IF reason = "aborted" THEN "aborted" ELSE halted
  /\ overtaken' = FALSE
  /\ UNCHANGED <<replayable, flags, saving, phase, aborted, latched, replay, queue, reserved, counts>>

-----------------------------------------------------------------------------
(* Fault: the revision is that of the attempt, not of the goal. *)
ValidIfReserved ==
  /\ replayable
  /\ attempt.phase = "claimed" /\ ~attempt.stale /\ Same(claimed, attempt)
  /\ Armed(goal) /\ claimed.round = goal.started + 1

(* validReservation: the claimed round is the attempt's, of the live       *)
(* revision, next in number, and nothing competed with it.                 *)
ValidReservation ==
  /\ replayable
  /\ attempt.phase = "claimed" /\ ~attempt.stale /\ Same(claimed, attempt)
  /\ Armed(goal) /\ goal.rev = claimed.rev /\ claimed.round = goal.started + 1

(* What the fold accepts of a round's user/message. *)
Replays(m) ==
  goal.phase = "active" /\ m.rev = goal.rev /\ m.round = goal.started + 1 /\ m.round <= goal.cap

(* The step opens: the prompt is appended as user/message. *)
Enter ==
  /\ at' = "step"
  /\ \/ /\ ~IsRound(claimed)
        /\ UNCHANGED <<goalVars, attempt>>
     \/ /\ IsRound(claimed)
        /\ attempt' = IF attempt.msg = claimed THEN [attempt EXCEPT !.phase = "admitted"] ELSE attempt
        /\ replayable' = (replayable /\ Replays(claimed))
        /\ goal' = IF replayable' THEN [goal EXCEPT !.started = claimed.round] ELSE goal
  /\ overtaken' = FALSE
  /\ UNCHANGED <<flags, saving, phase, aborted, latched, replay, claimed, queue, reserved, halted,
                 counts>>

(* The step goes on to the next await. *)
Reaches(place) ==
  /\ at' = place
  /\ UNCHANGED <<goalVars, attempt, flags, saving, phase, aborted, latched, replay, claimed, queue,
                 reserved, halted, counts>>

(* The driver's listener drops its round, rejecting the step or throwing,  *)
(* and requests a drive.                                                   *)
Drops(a, place) ==
  /\ at' = place /\ attempt' = a /\ requested' = TRUE
  /\ UNCHANGED <<goalVars, competing, needsCheckpoint, saving, phase, aborted, latched, replay,
                 claimed, queue, reserved, history, counts>>

(* The prompt is assembled, and the driver's pre-step listener is reached. *)
Assembled ==
  /\ at = "assembling" /\ Quiet
  /\ \/ aborted /\ TurnEnds("aborted")
     \/ ~aborted /\ TurnEnds("error")
     \/ ~aborted /\ (IsRound(claimed) => ValidReservation) /\ Reaches("hooks") /\ UNCHANGED overtaken
     \/ /\ ~aborted /\ IsRound(claimed) /\ ~ValidReservation
        /\ Drops(IF Same(claimed, attempt) THEN NoAttempt ELSE attempt, "rejected")

(* A listener inside the driver's own rejects the round: its goal is       *)
(* blocked, if it is still the one the round is of.                        *)
RejectsRound ==
  /\ at' = "rejected" /\ attempt' = NoAttempt
  /\ \/ /\ replayable /\ Armed(goal) /\ goal.rev = claimed.rev
        /\ goal' = Moved(goal, "blocked")
        /\ needsCheckpoint' = TRUE /\ requested' = TRUE /\ unsaved' = TRUE
     \/ /\ ~(replayable /\ Armed(goal) /\ goal.rev = claimed.rev)
        /\ UNCHANGED <<goal, needsCheckpoint, requested, unsaved>>
  /\ UNCHANGED <<replayable, competing, held, runs, phase, aborted, latched, replay, claimed, queue,
                 reserved, history, counts>>

(* The listeners inside the driver's own settle: they throw, reject or     *)
(* enter, and a round they enter is validated again.                       *)
HooksSettle ==
  /\ at = "hooks" /\ Quiet
  /\ \/ aborted /\ TurnEnds("aborted")
     \/ /\ ~aborted /\ ~IsRound(claimed)
        /\ \/ TurnEnds("error")
           \/ Reaches("rejected") /\ UNCHANGED overtaken
           \/ claimed # Nothing /\ Enter
     \/ /\ ~aborted /\ IsRound(claimed)
        /\ Drops(NoAttempt, "thrown") \/ RejectsRound
     \/ ~aborted /\ IsRound(claimed) /\ ~ValidReservation /\ Drops(NoAttempt, "rejected")
     \/ /\ ~aborted /\ IsRound(claimed) /\ ValidReservation
        /\ Reaches("outer") /\ overtaken' = FALSE

(* The driver's listener returned its validated round: the listeners       *)
(* around it settle, and then the waterfall and preStep do.                *)
OuterSettles ==
  /\ at = "outer" /\ Quiet
  /\ \/ aborted /\ TurnEnds("aborted")
     \/ ~aborted /\ (TurnEnds("error") \/ TurnEnds("blocked") \/ Enter)

(* What the driver's listener threw or rejected ends the turn. *)
RefusalSettles ==
  /\ at \in {"rejected", "thrown"} /\ Quiet
  /\ TurnEnds(IF aborted THEN "aborted" ELSE IF at = "thrown" THEN "error" ELSE "blocked")

(* The turn's steps end: what is queued is left to a next turn. *)
StepSettles ==
  /\ at = "step" /\ Quiet
  /\ \/ aborted /\ TurnEnds("aborted")
     \/ ~aborted /\ TurnEnds("error")
     \/ ~aborted /\ queue = <<>> /\ (TurnEnds("completed") \/ TurnEnds("max-tokens"))
     \/ /\ ~aborted /\ queue # <<>>
        /\ \E reason \in {"completed", "max-tokens"} : goal' = AfterTurn(reason).goal
        /\ at' = "between" /\ claimed' = Nothing /\ latched' = FALSE
        /\ UNCHANGED <<replayable, attempt, flags, saving, phase, aborted, replay, queue, reserved,
                       history, counts>>

(* kick goes on: with the next turn, or to its end.  A cancel since the    *)
(* last turn ended ends it without another turn/end.                       *)
TurnReturns ==
  /\ Quiet
  /\ \/ (at = "closed" \/ (at = "between" /\ aborted)) /\ GoIdle
     \/ /\ at = "between" /\ ~aborted
        /\ ClaimFirst(queue, attempt)
        /\ UNCHANGED <<goalVars, flags, saving, replay, reserved, history, counts>>

(* kick's finally block, once the idle listeners returned. *)
Replay ==
  /\ replay /\ ~DriveDue
  /\ replay' = FALSE
  /\ \/ phase = "idle" /\ queue # <<>> /\ ClaimFirst(queue, attempt)
     \/ /\ ~(phase = "idle" /\ queue # <<>>)
        /\ UNCHANGED <<phase, aborted, latched, at, claimed, queue, attempt>>
  /\ UNCHANGED <<goalVars, flags, saving, reserved, history, counts>>

-----------------------------------------------------------------------------
(* readyToDrive; a status of idle covers maintenance. *)
ReadyToDrive == phase # "running" /\ ~competing

(* Fault: a change during the checkpoint goes unseen. *)
ReadyRegardless == ReadyToDrive

ReadyAfterCheckpoint == ReadyToDrive /\ ~needsCheckpoint

(* drive, once nothing is left to checkpoint, by a run the others are rest *)
(* of: a settled attempt asks for a checkpoint of its own, and a goal at   *)
(* its cap, or whose round could not be queued, is blocked.  again and     *)
(* hold are .requested as it stands, and whether a run is held afterwards. *)

(* Fault: the settled attempt is dropped, and that is that. *)
SettleAttemptQuietly(rest, again, hold) ==
  /\ attempt.phase # "none"
  /\ attempt' = NoAttempt
  /\ requested' = again /\ held' = hold /\ runs' = Placed(rest, "looping")
  /\ UNCHANGED <<goal, needsCheckpoint, unsaved, phase, aborted, latched, at, claimed, queue, reserved>>

SettleAttempt(rest, again, hold) ==
  /\ attempt.phase # "none"
  /\ attempt' = NoAttempt
  /\ needsCheckpoint' = TRUE /\ requested' = TRUE
  /\ held' = hold /\ runs' = Placed(rest, "looping")
  /\ UNCHANGED <<goal, unsaved, phase, aborted, latched, at, claimed, queue, reserved>>
NothingToDrive(rest, again, hold) ==
  /\ attempt.phase = "none" /\ ~(replayable /\ Armed(goal))
  /\ requested' = again /\ held' = hold /\ runs' = Placed(rest, "looping")
  /\ UNCHANGED <<goal, attempt, needsCheckpoint, unsaved, phase, aborted, latched, at, claimed,
                 queue, reserved>>
(* The change is heard before hold: the run that starts is not held yet. *)
BlockGoal(rest, again, hold) ==
  /\ attempt.phase = "none" /\ replayable /\ Armed(goal)
  /\ goal' = Moved(goal, "blocked")
  /\ requested' = held
  /\ ChangeHeard(Placed(rest, "looping"))
  /\ UNCHANGED <<attempt, phase, aborted, latched, at, claimed, queue, reserved>>
Reserve(rest, again, hold) ==
  LET msg == Round(goal.rev, goal.started + 1, reserved + 1)
  IN  /\ attempt.phase = "none" /\ replayable /\ Armed(goal) /\ goal.started < goal.cap
      /\ Wake(Append(queue, msg), [NoAttempt EXCEPT !.phase = "queued", !.msg = msg])
      /\ reserved' = reserved + 1
      /\ requested' = again /\ held' = hold /\ runs' = Placed(rest, "looping")
      /\ UNCHANGED <<goal, needsCheckpoint, unsaved>>
Proceed(rest, again, hold) ==
  \/ SettleAttempt(rest, again, hold) \/ NothingToDrive(rest, again, hold)
  \/ BlockGoal(rest, again, hold) \/ Reserve(rest, again, hold)

(* drive, up to its first await. *)
Drive(rest, hold) ==
  /\ \/ /\ ~ReadyToDrive
        /\ requested' = FALSE /\ held' = hold /\ runs' = Placed(rest, "looping")
        /\ UNCHANGED <<goal, attempt, needsCheckpoint, unsaved, phase, aborted, latched, at, claimed,
                       queue, reserved>>
     \/ /\ ReadyToDrive /\ needsCheckpoint
        /\ requested' = FALSE /\ needsCheckpoint' = FALSE
        /\ held' = hold /\ runs' = Placed(rest, "flushing")
        /\ UNCHANGED <<goal, attempt, unsaved, phase, aborted, latched, at, claimed, queue, reserved>>
     \/ ReadyAfterCheckpoint /\ Proceed(rest, FALSE, hold)
  /\ UNCHANGED <<replayable, competing, replay, history, counts>>

(* requestDrive: .run is assigned when the first drive returns. *)
Start == DriveDue /\ Drive(runs, TRUE)

(* A run looks again when its drive returned, and ends. *)
Loop ==
  /\ runs["looping"] > 0 /\ Quiet
  /\ \/ requested /\ Drive(Without("looping"), held)
     \/ /\ ~requested
        /\ runs' = Placed(Without("looping"), "ending")
        /\ UNCHANGED <<goalVars, attempt, flags, held, unsaved, agentVars, queue, reserved, history,
                       counts>>

(* retire: .run is cleared, whichever run it names; a drive requested in   *)
(* the meantime starts at once.                                            *)
Retire ==
  /\ runs["ending"] > 0 /\ Quiet
  /\ runs' = Without("ending") /\ held' = FALSE
  /\ UNCHANGED <<goalVars, attempt, flags, unsaved, agentVars, queue, reserved, history, counts>>

(* The write-behind drains everything, what was enqueued since the flush   *)
(* began included, and settles the flushes that joined it, or fails them.  *)
CheckpointSettles ==
  /\ Quiet
  /\ \E joined \in 1..runs["flushing"], outcome \in {"flushed", "failed"} :
        /\ runs' = [runs EXCEPT !["flushing"] = @ - joined, ![outcome] = @ + joined]
        /\ unsaved' = (unsaved /\ outcome = "failed")
  /\ UNCHANGED <<goalVars, attempt, flags, held, agentVars, queue, reserved, history, counts>>

(* drive looks again after its checkpoint. *)
FlushReturns ==
  /\ Quiet
  /\ \/ /\ runs["failed"] > 0
        /\ goal' = Disarmed(goal)
        /\ runs' = Placed(Without("failed"), "looping")
        /\ UNCHANGED <<attempt, needsCheckpoint, requested, held, unsaved, phase, aborted, latched, at,
                       claimed, queue, reserved>>
     \/ /\ runs["flushed"] > 0 /\ ~ReadyAfterCheckpoint
        /\ runs' = Placed(Without("flushed"), "looping")
        /\ UNCHANGED <<goal, attempt, needsCheckpoint, requested, held, unsaved, phase, aborted, latched,
                       at, claimed, queue, reserved>>
     \/ /\ runs["flushed"] > 0 /\ ReadyAfterCheckpoint
        /\ Proceed(Without("flushed"), requested, held)
  /\ UNCHANGED <<replayable, competing, replay, history, counts>>

-----------------------------------------------------------------------------
(* People send, withdraw and cancel, and start maintenance. *)
SendPrompt ==
  /\ Quiet /\ prompts < MaxPrompts
  /\ prompts' = prompts + 1
  /\ competing' = TRUE
  /\ Wake(Append(queue, Prompt), [attempt EXCEPT !.stale = @ \/ attempt.phase = "queued"])
  /\ UNCHANGED <<goalVars, needsCheckpoint, requested, saving, replay, reserved, history, changes,
                 cancels, jobs>>

(* The discarded event of the attempt's own round. *)
Strikes(messages) == \E m \in messages : Same(m, attempt)
Discarded(messages) == attempt' = [attempt EXCEPT !.cancelled = @ \/ Strikes(messages)]

Withdraw ==
  /\ Quiet /\ cancels < MaxCancels
  /\ cancels' = cancels + 1
  /\ \E i \in 1..Len(queue) :
        /\ queue' = SubSeq(queue, 1, i - 1) \o SubSeq(queue, i + 1, Len(queue))
        /\ Discarded({queue[i]})
  /\ UNCHANGED <<goalVars, flags, saving, agentVars, reserved, history, changes, prompts, jobs>>

Cancel(keepInbox) ==
  LET queued == {queue[i] : i \in 1..Len(queue)}
  IN  /\ Quiet /\ cancels < MaxCancels
      /\ cancels' = cancels + 1
      /\ aborted' = (phase # "idle")
      /\ \/ keepInbox /\ UNCHANGED <<queue, latched, attempt, halted>>
         \/ /\ ~keepInbox
            /\ queue' = <<>> /\ latched' = FALSE
            /\ Discarded(queued)
            /\ halted' = IF Strikes(queued) /\ halted = "no" THEN "struck" ELSE halted
      /\ UNCHANGED <<goalVars, flags, saving, phase, replay, at, claimed, reserved, overtaken, changes,
                     prompts, jobs>>

StartJob ==
  /\ Quiet /\ phase = "idle" /\ jobs < MaxJobs
  /\ jobs' = jobs + 1
  /\ phase' = "maintenance" /\ aborted' = FALSE /\ latched' = FALSE
  /\ UNCHANGED <<goalVars, attempt, flags, saving, replay, at, claimed, queue, reserved, history,
                 changes, prompts, cancels>>

(* The status was idle all along: no listener hears of the end of a task. *)
JobEnds ==
  /\ phase = "maintenance" /\ Quiet
  /\ \/ latched /\ queue # <<>> /\ ClaimFirst(queue, attempt)
     \/ /\ ~(latched /\ queue # <<>>)
        /\ phase' = "idle" /\ aborted' = FALSE /\ latched' = FALSE
        /\ UNCHANGED <<attempt, at, claimed, queue>>
  /\ UNCHANGED <<goalVars, flags, saving, replay, reserved, history, counts>>

(* The goal service's mutations, each against the current revision, by     *)
(* people and by the tools of a running step.                              *)
Mutations ==
  {[phase |-> "active", rev |-> goal.rev + 1, cap |-> c, started |-> 0, armed |-> TRUE] :
     c \in IF goal.phase \in {"none", "complete"} THEN Caps ELSE {}}
  \cup {[goal EXCEPT !.cap = c, !.rev = @ + 1] : c \in IF goal.phase = "none" THEN {} ELSE Caps}
  \cup {Moved(goal, to) : to \in IF goal.phase = "active" THEN {"paused", "blocked"} ELSE {}}
  \cup {Moved(goal, to) : to \in IF goal.phase \in {"active", "paused", "blocked"} THEN {"complete"} ELSE {}}
  \cup {[Moved(goal, "active") EXCEPT !.armed = TRUE] :
         g \in {h \in {goal} : /\ h.phase \in {"active", "paused", "blocked"} /\ ~Armed(h)
                               /\ h.started < h.cap}}
  \cup {[NoGoal EXCEPT !.rev = g.rev + 1] : g \in {h \in {goal} : h.phase # "none"}}

Mutate ==
  /\ Quiet /\ replayable /\ changes < MaxChanges
  /\ changes' = changes + 1
  /\ goal' \in Mutations
  /\ needsCheckpoint' = TRUE /\ requested' = TRUE
  /\ unsaved' = TRUE
  /\ halted' = "no" /\ overtaken' = (at = "outer")
  /\ UNCHANGED <<replayable, attempt, competing, held, runs, agentVars, queue, reserved, prompts,
                 cancels, jobs>>

-----------------------------------------------------------------------------
Agent ==
  \/ Assembled \/ HooksSettle \/ OuterSettles \/ RefusalSettles \/ StepSettles \/ TurnReturns
  \/ Replay \/ JobEnds
Driver == Start \/ Loop \/ Retire \/ CheckpointSettles \/ FlushReturns
People ==
  \/ SendPrompt \/ Withdraw \/ StartJob \/ Mutate
  \/ \E keepInbox \in BOOLEAN : Cancel(keepInbox)

Next == Agent \/ Driver \/ People

Spec == Init /\ [][Next]_vars

(* What the agent and the driver await settles; people owe nothing. *)
FairSpec == Spec /\ WF_vars(Agent) /\ WF_vars(Driver)

-----------------------------------------------------------------------------
MessageType == [rev : Int, round : Nat, id : Nat]
GoalType ==
  [phase : {"none", "active", "paused", "blocked", "complete"}, rev : Nat, cap : Nat,
   started : Nat, armed : BOOLEAN]
AttemptType ==
  [phase : {"none", "queued", "claimed", "admitted"}, msg : MessageType, cancelled : BOOLEAN,
   stale : BOOLEAN]
Places ==
  {"off", "assembling", "hooks", "outer", "rejected", "thrown", "step", "closed", "between"}
TypeOK ==
  /\ goal \in GoalType /\ replayable \in BOOLEAN /\ attempt \in AttemptType
  /\ competing \in BOOLEAN /\ needsCheckpoint \in BOOLEAN /\ requested \in BOOLEAN
  /\ held \in BOOLEAN /\ runs \in [Stages -> Nat] /\ unsaved \in BOOLEAN
  /\ phase \in {"idle", "maintenance", "running"} /\ aborted \in BOOLEAN
  /\ latched \in BOOLEAN /\ replay \in BOOLEAN
  /\ at \in Places /\ (at # "off" <=> phase = "running")
  /\ claimed \in MessageType /\ queue \in Seq(MessageType)
  /\ halted \in {"no", "struck", "aborted"} /\ overtaken \in BOOLEAN
  /\ reserved \in Nat /\ changes \in Nat /\ prompts \in Nat /\ cancels \in Nat /\ jobs \in Nat

(* The session's log stays one the goal fold accepts: a round is admitted  *)
(* only as the next one of the active goal, at its live revision, within   *)
(* its cap.  An event it refuses makes the goal unreadable for good.       *)
AdmittedRoundsReplay == replayable

(* The fold refuses an admitted round only when somebody changed the goal  *)
(* between the driver's second look at it and its user/message.            *)
RefusedOnlyIfOvertaken == [][replayable /\ ~replayable' => overtaken]_vars

Reserves == attempt.phase = "none" /\ attempt'.phase # "none"

(* No round is reserved while a turn was aborted and nobody has changed    *)
(* the goal since, and none ahead of a goal change that is not durable,    *)
(* but for one whose checkpoint another run still awaits, or has just seen *)
(* fail: requestDrive lets runs overlap.                                   *)
ReservedWhenDue ==
  Reserves => halted # "aborted" /\ (unsaved' => runs["flushing"] + runs["failed"] > 0)
RoundsReservedWhenDue == [][ReservedWhenDue]_vars

(* No round is reserved after a cancel took back the reserved one, unless  *)
(* people change the goal: the driver pauses it.                           *)
CancelledRoundsPause == [][Reserves => halted # "struck"]_vars

(* The driver rests with its goal armed: a prompt withdrawn, or a round    *)
(* discarded, while maintenance held it back, which ends unheard.          *)
Stalled ==
  /\ phase = "idle" /\ Quiet /\ runs = [stage \in Stages |-> 0]
  /\ competing \/ attempt.cancelled

(* An armed goal is driven: round after round it comes to its cap, or is   *)
(* stopped, unless the driver stalls or the goal becomes unreadable.       *)
GoalDriven == Armed(goal) ~> ~Armed(goal) \/ Stalled \/ ~replayable

=============================================================================
