-------------------------- MODULE GoalRoundsProofs --------------------------
(***************************************************************************)
(* GoalRounds proved for every set of caps and every bound.                *)
(***************************************************************************)
EXTENDS GoalRounds, SequenceTheorems, TLAPS

(* TypeOK, split by who keeps what. *)
GoalTypes == goal \in GoalType /\ replayable \in BOOLEAN
AttemptTypes == attempt \in AttemptType
DriverTypes ==
  /\ competing \in BOOLEAN /\ needsCheckpoint \in BOOLEAN /\ requested \in BOOLEAN
  /\ held \in BOOLEAN /\ unsaved \in BOOLEAN
RunTypes == runs \in [Stages -> Nat]
AgentTypes ==
  /\ phase \in {"idle", "maintenance", "running"} /\ aborted \in BOOLEAN
  /\ latched \in BOOLEAN /\ replay \in BOOLEAN
  /\ at \in Places /\ (at # "off" <=> phase = "running")
  /\ claimed \in MessageType
QueueTypes == queue \in Seq(MessageType) /\ reserved \in Nat
HistoryTypes == halted \in {"no", "struck", "aborted"} /\ overtaken \in BOOLEAN
CountTypes == changes \in Nat /\ prompts \in Nat /\ cancels \in Nat /\ jobs \in Nat
Typed ==
  /\ GoalTypes /\ AttemptTypes /\ DriverTypes /\ RunTypes /\ AgentTypes /\ QueueTypes
  /\ HistoryTypes /\ CountTypes

-----------------------------------------------------------------------------
LEMMA SmallTypes ==
  /\ Prompt \in MessageType /\ Nothing \in MessageType
  /\ NoAttempt \in AttemptType /\ NoGoal \in GoalType
BY DEF Prompt, Nothing, Round, MessageType, NoAttempt, AttemptType, NoGoal, GoalType

LEMMA MovedTypes ==
  ASSUME NEW g \in GoalType, NEW to \in {"active", "paused", "blocked", "complete"}
  PROVE  /\ Moved(g, to) \in GoalType /\ Disarmed(g) \in GoalType
         /\ Moved(g, to).rev = g.rev + 1 /\ Moved(g, to).phase = to /\ ~Moved(g, to).armed
         /\ Disarmed(g).rev = g.rev /\ Disarmed(g).cap = g.cap /\ (replayable => ~Disarmed(g).armed)
         /\ Disarmed(g).phase = g.phase /\ Disarmed(g).started = g.started
<1>1. /\ Disarmed(g) \in GoalType /\ Disarmed(g).rev = g.rev /\ Disarmed(g).cap = g.cap
      /\ (replayable => ~Disarmed(g).armed)
      /\ Disarmed(g).phase = g.phase /\ Disarmed(g).started = g.started
  BY DEF Disarmed, GoalType
<1>2. Moved(g, to).rev = g.rev + 1 /\ Moved(g, to).phase = to /\ ~Moved(g, to).armed
  BY DEF Moved, GoalType
<1>3. Moved(g, to) \in GoalType
  <2>1. g.rev + 1 \in Nat /\ to \in {"none", "active", "paused", "blocked", "complete"}
    BY DEF GoalType
  <2>2. QED
    BY <2>1 DEF Moved, GoalType
<1>4. QED
  BY <1>1, <1>2, <1>3

(* A run more at one stage, and one less at another. *)
LEMMA StagesChange ==
  ASSUME NEW rs \in [Stages -> Nat], NEW stage \in Stages
  PROVE  /\ Placed(rs, stage) \in [Stages -> Nat]
         /\ \A s \in Stages : Placed(rs, stage)[s] >= rs[s]
         /\ Placed(rs, stage)[stage] > 0
BY DEF Placed

LEMMA StagesLeft ==
  ASSUME RunTypes, NEW stage \in Stages, runs[stage] > 0
  PROVE  /\ Without(stage) \in [Stages -> Nat]
         /\ \A s \in Stages \ {stage} : Without(stage)[s] = runs[s]
BY DEF RunTypes, Without

LEMMA ChangeTypes ==
  ASSUME Typed, NEW rest \in [Stages -> Nat], ChangeHeard(rest)
  PROVE  /\ unsaved' \in BOOLEAN /\ needsCheckpoint' \in BOOLEAN /\ held' \in BOOLEAN
         /\ RunTypes'
<1>1. "flushing" \in Stages
  BY DEF Stages
<1>2. RunTypes'
  BY <1>1, StagesChange DEF ChangeHeard, RunTypes
<1>3. QED
  BY <1>2 DEF ChangeHeard, Typed, DriverTypes

LEMMA RestOfQueue ==
  ASSUME NEW q \in Seq(MessageType), q # <<>>
  PROVE  Head(q) \in MessageType /\ Tail(q) \in Seq(MessageType)
BY HeadTailProperties

(* The queue without its i-th message. *)
LEMMA Removal ==
  ASSUME NEW q \in Seq(MessageType), NEW i \in 1..Len(q)
  PROVE  SubSeq(q, 1, i - 1) \o SubSeq(q, i + 1, Len(q)) \in Seq(MessageType)
<1>1. SubSeq(q, 1, i - 1) \in Seq(MessageType)
  OBVIOUS
<1>2. SubSeq(q, i + 1, Len(q)) \in Seq(MessageType)
  OBVIOUS
<1>3. QED
  BY <1>1, <1>2, ConcatProperties

LEMMA ClaimTypes ==
  ASSUME NEW list \in Seq(MessageType), NEW a \in AttemptType, ClaimFirst(list, a)
  PROVE  /\ queue' \in Seq(MessageType) /\ claimed' \in MessageType /\ attempt' \in AttemptType
         /\ phase' = "running" /\ aborted' = FALSE /\ latched' = FALSE /\ at' = "assembling"
BY RestOfQueue, SmallTypes DEF ClaimFirst, AttemptType

LEMMA IdleTypes ==
  ASSUME Typed, GoIdle
  PROVE  Typed'
<1>1. GoalTypes' /\ AttemptTypes'
  BY MovedTypes, SmallTypes DEF Typed, GoalTypes, AttemptTypes, GoIdle, IdleListener
<1>2. DriverTypes' /\ RunTypes'
  <2>1. competing' = FALSE /\ requested' = (requested \/ replayable)
    BY DEF GoIdle, IdleListener
  <2>2. CASE ChangeHeard(runs)
    BY <2>1, <2>2, ChangeTypes DEF Typed, DriverTypes, RunTypes, GoalTypes
  <2>3. CASE UNCHANGED <<needsCheckpoint, saving>>
    BY <2>1, <2>3 DEF saving, Typed, DriverTypes, RunTypes, GoalTypes
  <2>4. QED
    BY <2>2, <2>3 DEF GoIdle, IdleListener
<1>3. AgentTypes'
  BY SmallTypes DEF Typed, AgentTypes, GoIdle, Places
<1>4. QueueTypes' /\ HistoryTypes' /\ CountTypes'
  BY DEF Typed, QueueTypes, HistoryTypes, CountTypes, GoIdle, history, counts
<1>5. QED
  BY <1>1, <1>2, <1>3, <1>4 DEF Typed

LEMMA AfterTypes ==
  ASSUME Typed, NEW reason
  PROVE  /\ AfterTurn(reason).goal \in {goal, Disarmed(goal)}
         /\ AfterTurn(reason).goal \in GoalType /\ AfterTurn(reason).attempt \in AttemptType
BY MovedTypes DEF Typed, GoalTypes, AttemptTypes, AttemptType, AfterTurn

LEMMA EndsTypes ==
  ASSUME Typed, NEW reason, TurnEnds(reason), at # "off"
  PROVE  Typed'
<1>1. GoalTypes' /\ AttemptTypes'
  BY AfterTypes DEF TurnEnds, Typed, GoalTypes, AttemptTypes
<1>2. DriverTypes' /\ RunTypes' /\ QueueTypes' /\ CountTypes'
  BY DEF TurnEnds, flags, saving, counts, Typed, DriverTypes, RunTypes, QueueTypes, CountTypes
<1>3. AgentTypes'
  BY SmallTypes DEF TurnEnds, Typed, AgentTypes, Places
<1>4. HistoryTypes'
  BY DEF TurnEnds, Typed, HistoryTypes
<1>5. QED
  BY <1>1, <1>2, <1>3, <1>4 DEF Typed

LEMMA EnterTypes ==
  ASSUME Typed, Enter, at # "off"
  PROVE  Typed'
<1> USE DEF flags, saving, counts, goalVars
<1>1. GoalTypes'
  BY DEF Enter, Typed, GoalTypes, GoalType, AgentTypes, MessageType
<1>2. AttemptTypes'
  BY DEF Enter, Typed, AttemptTypes, AttemptType
<1>3. DriverTypes' /\ RunTypes' /\ QueueTypes' /\ CountTypes' /\ HistoryTypes'
  BY DEF Enter, Typed, DriverTypes, RunTypes, QueueTypes, CountTypes, HistoryTypes
<1>4. AgentTypes'
  BY DEF Enter, Typed, AgentTypes, Places
<1>5. QED
  BY <1>1, <1>2, <1>3, <1>4 DEF Typed

LEMMA ReachesTypes ==
  ASSUME Typed, NEW place \in Places \ {"off"}, Reaches(place), overtaken' \in BOOLEAN, at # "off"
  PROVE  Typed'
<1> USE DEF flags, saving, counts, goalVars
<1>1. GoalTypes' /\ AttemptTypes' /\ DriverTypes' /\ RunTypes' /\ QueueTypes' /\ CountTypes'
      /\ HistoryTypes'
  BY DEF Reaches, Typed, GoalTypes, AttemptTypes, DriverTypes, RunTypes, QueueTypes, CountTypes,
     HistoryTypes
<1>2. AgentTypes'
  BY DEF Reaches, Typed, AgentTypes
<1>3. QED
  BY <1>1, <1>2 DEF Typed

LEMMA DropsTypes ==
  ASSUME Typed, NEW place \in Places \ {"off"}, NEW a \in AttemptType, Drops(a, place), at # "off"
  PROVE  Typed'
<1> USE DEF saving, counts, goalVars, history
<1>1. GoalTypes' /\ AttemptTypes' /\ RunTypes' /\ QueueTypes' /\ CountTypes' /\ HistoryTypes'
  BY DEF Drops, Typed, GoalTypes, AttemptTypes, RunTypes, QueueTypes, CountTypes, HistoryTypes
<1>2. DriverTypes'
  BY DEF Drops, Typed, DriverTypes
<1>3. AgentTypes'
  BY DEF Drops, Typed, AgentTypes
<1>4. QED
  BY <1>1, <1>2, <1>3 DEF Typed

LEMMA RejectsTypes ==
  ASSUME Typed, RejectsRound, at # "off"
  PROVE  Typed'
<1> USE DEF counts, history
<1>1. GoalTypes' /\ AttemptTypes'
  BY MovedTypes, SmallTypes DEF RejectsRound, Typed, GoalTypes, AttemptTypes
<1>2. RunTypes' /\ QueueTypes' /\ CountTypes' /\ HistoryTypes'
  BY DEF RejectsRound, Typed, RunTypes, QueueTypes, CountTypes, HistoryTypes
<1>3. DriverTypes'
  BY DEF RejectsRound, Typed, DriverTypes
<1>4. AgentTypes'
  BY DEF RejectsRound, Typed, AgentTypes, Places
<1>5. QED
  BY <1>1, <1>2, <1>3, <1>4 DEF Typed

-----------------------------------------------------------------------------
LEMMA WakeTypes ==
  ASSUME Typed, NEW list \in Seq(MessageType), NEW a \in AttemptType, Wake(list, a)
  PROVE  /\ queue' \in Seq(MessageType) /\ attempt' \in AttemptType /\ claimed' \in MessageType
         /\ phase' \in {"idle", "maintenance", "running"} /\ aborted' \in BOOLEAN
         /\ latched' \in BOOLEAN
         /\ at' \in Places
         /\ (at' # "off" <=> phase' = "running")
<1>1. CASE phase = "idle" /\ ClaimFirst(list, a)
  BY <1>1, ClaimTypes DEF Places
<1>2. CASE phase # "idle"
  BY <1>2 DEF Wake, Typed, AgentTypes
<1>3. QED
  BY <1>1, <1>2 DEF Wake

LEMMA ReserveTypes ==
  ASSUME Typed
  PROVE  LET msg == Round(goal.rev, goal.started + 1, reserved + 1)
         IN  /\ msg \in MessageType /\ IsRound(msg) /\ msg.rev = goal.rev
             /\ msg.round = goal.started + 1 /\ Append(queue, msg) \in Seq(MessageType)
             /\ [NoAttempt EXCEPT !.phase = "queued", !.msg = msg] \in AttemptType
<1> DEFINE msg == Round(goal.rev, goal.started + 1, reserved + 1)
<1>1. /\ goal.rev \in Int /\ goal.started \in Nat /\ goal.started + 1 \in Nat /\ goal.started + 1 > 0
      /\ reserved + 1 \in Nat
  BY DEF Typed, GoalTypes, GoalType, QueueTypes
<1>2. msg \in MessageType /\ IsRound(msg) /\ msg.rev = goal.rev /\ msg.round = goal.started + 1
  BY <1>1 DEF Round, MessageType, IsRound
<1>3. Append(queue, msg) \in Seq(MessageType)
  BY <1>2 DEF Typed, QueueTypes
<1>4. [NoAttempt EXCEPT !.phase = "queued", !.msg = msg] \in AttemptType
  BY <1>2, SmallTypes DEF AttemptType
<1>5. QED
  BY <1>2, <1>3, <1>4

LEMMA ProceedTypes ==
  ASSUME Typed, NEW rest \in [Stages -> Nat], NEW again \in BOOLEAN, NEW hold \in BOOLEAN,
         Proceed(rest, again, hold),
         UNCHANGED <<replayable, competing, replay, history, counts>>
  PROVE  Typed'
<1> USE DEF counts, history
<1>0. Placed(rest, "looping") \in [Stages -> Nat]
  BY StagesChange DEF Stages
<1>1. CASE SettleAttempt(rest, again, hold)
  BY <1>0, <1>1, SmallTypes DEF SettleAttempt, Typed, GoalTypes, AttemptTypes, DriverTypes, RunTypes,
     AgentTypes, QueueTypes, HistoryTypes, CountTypes
<1>2. CASE NothingToDrive(rest, again, hold)
  BY <1>0, <1>2 DEF NothingToDrive, Typed, GoalTypes, AttemptTypes, DriverTypes, RunTypes, AgentTypes,
     QueueTypes, HistoryTypes, CountTypes
<1>3. CASE BlockGoal(rest, again, hold)
  <2>1. DriverTypes' /\ RunTypes'
    BY <1>0, <1>3, ChangeTypes DEF BlockGoal, Typed, DriverTypes
  <2>2. GoalTypes'
    BY <1>3, MovedTypes DEF BlockGoal, Typed, GoalTypes
  <2>3. AttemptTypes' /\ AgentTypes' /\ QueueTypes' /\ HistoryTypes' /\ CountTypes'
    BY <1>3 DEF BlockGoal, Typed, AttemptTypes, AgentTypes, QueueTypes, HistoryTypes, CountTypes
  <2>4. QED
    BY <2>1, <2>2, <2>3 DEF Typed
<1>4. CASE Reserve(rest, again, hold)
  <2> DEFINE msg == Round(goal.rev, goal.started + 1, reserved + 1)
             a == [NoAttempt EXCEPT !.phase = "queued", !.msg = msg]
  <2>1. Append(queue, msg) \in Seq(MessageType) /\ a \in AttemptType
    BY ReserveTypes
  <2>2. Wake(Append(queue, msg), a)
    BY <1>4 DEF Reserve
  <2> HIDE DEF msg, a
  <2>3. AttemptTypes' /\ AgentTypes' /\ queue' \in Seq(MessageType)
    BY <2>1, <2>2, WakeTypes DEF AttemptTypes, AgentTypes, Typed
  <2>4. reserved' \in Nat /\ goal' = goal /\ requested' = again /\ unsaved' = unsaved
        /\ needsCheckpoint' = needsCheckpoint /\ held' = hold /\ runs' = Placed(rest, "looping")
    BY <1>4 DEF Reserve, Typed, QueueTypes
  <2>5. QueueTypes' /\ RunTypes'
    BY <1>0, <2>3, <2>4 DEF QueueTypes, RunTypes
  <2>6. GoalTypes' /\ DriverTypes' /\ HistoryTypes' /\ CountTypes'
    BY <2>4 DEF Typed, GoalTypes, DriverTypes, HistoryTypes, CountTypes
  <2>7. QED
    BY <2>3, <2>5, <2>6 DEF Typed
<1>5. QED
  BY <1>1, <1>2, <1>3, <1>4 DEF Proceed

LEMMA DriveTypes ==
  ASSUME Typed, NEW rest \in [Stages -> Nat], NEW hold \in BOOLEAN, Drive(rest, hold)
  PROVE  Typed'
<1>1. CASE Proceed(rest, FALSE, hold)
  BY <1>1, ProceedTypes DEF Drive
<1>2. CASE ~Proceed(rest, FALSE, hold)
  <2>1. /\ UNCHANGED <<goal, attempt, competing, unsaved, phase, aborted, latched, at, claimed,
                       queue, reserved, replayable, replay, history, counts>>
        /\ requested' = FALSE /\ held' = hold
        /\ needsCheckpoint' \in {needsCheckpoint, FALSE}
        /\ runs' \in {Placed(rest, "looping"), Placed(rest, "flushing")}
    BY <1>2 DEF Drive
  <2>2. DriverTypes'
    BY <2>1 DEF Typed, DriverTypes
  <2>3. RunTypes'
    BY <2>1, StagesChange DEF RunTypes, Stages
  <2>4. GoalTypes' /\ AttemptTypes' /\ QueueTypes' /\ HistoryTypes' /\ CountTypes'
    BY <2>1 DEF history, counts, Typed, GoalTypes, AttemptTypes, QueueTypes, HistoryTypes, CountTypes
  <2>5. AgentTypes'
    BY <2>1 DEF Typed, AgentTypes
  <2>6. QED
    BY <2>2, <2>3, <2>4, <2>5 DEF Typed
<1>3. QED
  BY <1>1, <1>2

LEMMA AgentStepTypes ==
  ASSUME Typed, Agent
  PROVE  Typed'
<1> USE DEF flags, saving, counts, goalVars, history
<1>0. {"hooks", "outer", "rejected", "thrown"} \subseteq Places \ {"off"}
  BY DEF Places
<1>1. ASSUME at # "off", NEW reason, TurnEnds(reason) PROVE Typed'
  BY <1>1, EndsTypes
<1>2. CASE Assembled
  <2>1. at # "off"
    BY <1>2 DEF Assembled
  <2>2. CASE Reaches("hooks") /\ UNCHANGED overtaken
    BY <1>0, <2>1, <2>2, ReachesTypes DEF Typed, HistoryTypes
  <2>3. CASE Drops(IF Same(claimed, attempt) THEN NoAttempt ELSE attempt, "rejected")
    BY <1>0, <2>1, <2>3, SmallTypes, DropsTypes DEF Typed, AttemptTypes
  <2>4. QED
    BY <1>1, <1>2, <2>1, <2>2, <2>3 DEF Assembled
<1>3. CASE HooksSettle
  <2>1. at # "off"
    BY <1>3 DEF HooksSettle
  <2>2. CASE Reaches("rejected") /\ UNCHANGED overtaken
    BY <1>0, <2>1, <2>2, ReachesTypes DEF Typed, HistoryTypes
  <2>3. CASE Enter
    BY <2>1, <2>3, EnterTypes
  <2>4. CASE Drops(NoAttempt, "thrown") \/ Drops(NoAttempt, "rejected")
    BY <1>0, <2>1, <2>4, SmallTypes, DropsTypes
  <2>5. CASE RejectsRound
    BY <2>1, <2>5, RejectsTypes
  <2>6. CASE Reaches("outer") /\ overtaken' = FALSE
    BY <1>0, <2>1, <2>6, ReachesTypes
  <2>7. QED
    BY <1>1, <1>3, <2>1, <2>2, <2>3, <2>4, <2>5, <2>6 DEF HooksSettle
<1>4. CASE OuterSettles
  BY <1>1, <1>4, EnterTypes DEF OuterSettles
<1>5. CASE RefusalSettles
  BY <1>1, <1>5 DEF RefusalSettles
<1>6. CASE StepSettles
  <2>1. at # "off"
    BY <1>6 DEF StepSettles
  <2>2. ASSUME NEW reason, goal' = AfterTurn(reason).goal,
               at' = "between" /\ claimed' = Nothing /\ latched' = FALSE,
               UNCHANGED <<replayable, attempt, flags, saving, phase, aborted, replay, queue, reserved,
                           history, counts>>
        PROVE  Typed'
    <3>1. GoalTypes'
      BY <2>2, AfterTypes DEF Typed, GoalTypes
    <3>2. AgentTypes'
      BY <2>1, <2>2, SmallTypes DEF Typed, AgentTypes, Places
    <3>3. QED
      BY <2>2, <3>1, <3>2 DEF Typed, AttemptTypes, DriverTypes, RunTypes, QueueTypes, HistoryTypes,
         CountTypes
  <2>3. QED
    BY <1>1, <1>6, <2>1, <2>2 DEF StepSettles
<1>7. ASSUME ClaimFirst(queue, attempt), UNCHANGED <<goalVars, flags, saving, reserved, history, counts>>,
             replay' \in BOOLEAN
      PROVE  Typed'
  <2>1. AttemptTypes' /\ AgentTypes' /\ QueueTypes'
    BY <1>7, ClaimTypes DEF Typed, AttemptTypes, AgentTypes, QueueTypes, Places
  <2>2. QED
    BY <1>7, <2>1 DEF Typed, GoalTypes, DriverTypes, RunTypes, HistoryTypes, CountTypes
<1>8. CASE TurnReturns
  BY <1>7, <1>8, IdleTypes DEF TurnReturns, Typed, AgentTypes
<1>9. CASE Replay
  <2>1. CASE UNCHANGED <<phase, aborted, latched, at, claimed, queue, attempt>>
    <3>1. UNCHANGED <<goalVars, flags, saving, reserved, history, counts>> /\ replay' = FALSE
      BY <1>9 DEF Replay
    <3>2. replay' \in BOOLEAN
      BY <3>1
    <3>3. AgentTypes'
      BY <2>1, <3>2 DEF Typed, AgentTypes
    <3>4. GoalTypes' /\ AttemptTypes' /\ DriverTypes' /\ RunTypes' /\ QueueTypes' /\ HistoryTypes'
          /\ CountTypes'
      BY <2>1, <3>1 DEF Typed, GoalTypes, AttemptTypes, DriverTypes, RunTypes, QueueTypes, HistoryTypes,
         CountTypes
    <3>5. QED
      BY <3>3, <3>4 DEF Typed
  <2>2. QED
    BY <1>7, <1>9, <2>1 DEF Replay
<1>10. CASE JobEnds
  <2>1. CASE phase' = "idle" /\ aborted' = FALSE /\ latched' = FALSE
             /\ UNCHANGED <<attempt, at, claimed, queue>>
    <3>1. AgentTypes'
      BY <1>10, <2>1 DEF JobEnds, Typed, AgentTypes
    <3>2. QED
      BY <1>10, <2>1, <3>1 DEF JobEnds, Typed, GoalTypes, AttemptTypes, DriverTypes, RunTypes, QueueTypes,
         HistoryTypes, CountTypes
  <2>2. QED
    BY <1>7, <1>10, <2>1 DEF JobEnds, Typed, AgentTypes
<1>11. QED
  BY <1>2, <1>3, <1>4, <1>5, <1>6, <1>8, <1>9, <1>10 DEF Agent

LEMMA DriverStepTypes ==
  ASSUME Typed, Driver
  PROVE  Typed'
<1> USE DEF flags, counts, goalVars, history, agentVars
<1>0. RunTypes /\ Stages = {"flushing", "flushed", "failed", "looping", "ending"}
  BY DEF Typed, Stages
<1>1. ASSUME RunTypes', DriverTypes',
             UNCHANGED <<goal, replayable, attempt, phase, aborted, latched, replay, at, claimed, queue,
                         reserved, history, counts>>
      PROVE  Typed'
  BY <1>1 DEF Typed, GoalTypes, AttemptTypes, AgentTypes, QueueTypes, HistoryTypes, CountTypes
<1>2. CASE Start
  BY <1>0, <1>2, DriveTypes DEF Start, RunTypes
<1>3. CASE Loop
  <2>1. Without("looping") \in [Stages -> Nat]
    BY <1>0, <1>3, StagesLeft DEF Loop
  <2>2. CASE Drive(Without("looping"), held)
    BY <2>1, <2>2, DriveTypes DEF Typed, DriverTypes
  <2>3. CASE ~Drive(Without("looping"), held)
    <3>1. /\ runs' = Placed(Without("looping"), "ending")
          /\ UNCHANGED <<goalVars, attempt, flags, held, unsaved, agentVars, queue, reserved, history,
                         counts>>
      BY <1>3, <2>3 DEF Loop
    <3>2. RunTypes'
      BY <1>0, <2>1, <3>1, StagesChange DEF RunTypes
    <3>3. DriverTypes'
      BY <3>1 DEF Typed, DriverTypes
    <3>4. QED
      BY <1>1, <3>1, <3>2, <3>3
  <2>4. QED
    BY <2>2, <2>3
<1>4. CASE Retire
  <2>1. RunTypes'
    BY <1>0, <1>4, StagesLeft DEF Retire, RunTypes
  <2>2. DriverTypes'
    BY <1>4 DEF Retire, Typed, DriverTypes
  <2>3. QED
    BY <1>1, <1>4, <2>1, <2>2 DEF Retire
<1>5. CASE CheckpointSettles
  <2>1. PICK joined \in 1..runs["flushing"], outcome \in {"flushed", "failed"} :
          /\ runs' = [runs EXCEPT !["flushing"] = @ - joined, ![outcome] = @ + joined]
          /\ unsaved' = (unsaved /\ outcome = "failed")
    BY <1>5 DEF CheckpointSettles
  <2>2. RunTypes'
    BY <1>0, <2>1 DEF RunTypes
  <2>3. DriverTypes'
    BY <1>5, <2>1 DEF CheckpointSettles, Typed, DriverTypes
  <2>4. QED
    BY <1>1, <1>5, <2>2, <2>3 DEF CheckpointSettles
<1>6. CASE FlushReturns
  <2>1. CASE runs["flushed"] > 0 /\ Proceed(Without("flushed"), requested, held)
    <3>1. Without("flushed") \in [Stages -> Nat]
      BY <1>0, <2>1, StagesLeft
    <3>2. QED
      BY <1>6, <2>1, <3>1, ProceedTypes DEF FlushReturns, Typed, DriverTypes
  <2>2. ASSUME NEW stage \in {"flushed", "failed"}, runs[stage] > 0,
               runs' = Placed(Without(stage), "looping"), goal' \in {goal, Disarmed(goal)},
               UNCHANGED <<attempt, needsCheckpoint, requested, held, unsaved, phase, aborted, latched, at,
                           claimed, queue, reserved>>
        PROVE  Typed'
    <3>1. Without(stage) \in [Stages -> Nat]
      BY <1>0, <2>2, StagesLeft
    <3>2. RunTypes'
      BY <1>0, <2>2, <3>1, StagesChange DEF RunTypes
    <3>3. UNCHANGED <<replayable, competing, replay, history, counts>>
      BY <1>6 DEF FlushReturns
    <3>4. GoalTypes'
      BY <2>2, <3>3, MovedTypes DEF Typed, GoalTypes
    <3>5. DriverTypes'
      BY <2>2, <3>3 DEF Typed, DriverTypes
    <3>6. AttemptTypes' /\ QueueTypes' /\ HistoryTypes' /\ CountTypes'
      BY <2>2, <3>3 DEF Typed, AttemptTypes, QueueTypes, HistoryTypes, CountTypes
    <3>7. AgentTypes'
      BY <2>2, <3>3 DEF Typed, AgentTypes
    <3>8. QED
      BY <3>2, <3>4, <3>5, <3>6, <3>7 DEF Typed
  <2>3. QED
    BY <1>6, <2>1, <2>2 DEF FlushReturns
<1>7. QED
  BY <1>2, <1>3, <1>4, <1>5, <1>6 DEF Driver

(* A change of the goal has a revision of its own. *)
LEMMA MutationTypes ==
  ASSUME Typed, NEW g \in Mutations
  PROVE  g \in GoalType /\ g.rev > goal.rev
<1>1. goal \in GoalType /\ goal.rev \in Nat
  BY DEF Typed, GoalTypes, GoalType
<1>2. \A c \in Caps : c \in Nat
  BY GoalAssumption
<1>3. CASE \E c \in Caps : g = [phase |-> "active", rev |-> goal.rev + 1, cap |-> c, started |-> 0,
                               armed |-> TRUE]
  BY <1>1, <1>2, <1>3 DEF GoalType
<1>4. CASE \E c \in Caps : g = [goal EXCEPT !.cap = c, !.rev = @ + 1]
  <2>1. PICK c \in Caps : g = [goal EXCEPT !.cap = c, !.rev = @ + 1]
    BY <1>4
  <2>2. c \in Nat /\ goal.rev + 1 \in Nat
    BY <1>1, <1>2
  <2>3. g \in GoalType
    BY <1>1, <2>1, <2>2 DEF GoalType
  <2>4. g.rev = goal.rev + 1
    BY <1>1, <2>1 DEF GoalType
  <2>5. QED
    BY <1>1, <2>3, <2>4
<1>5. CASE \E to \in {"paused", "blocked", "complete"} : g = Moved(goal, to)
  <2>1. PICK to \in {"paused", "blocked", "complete"} : g = Moved(goal, to)
    BY <1>5
  <2>2. g \in GoalType /\ g.rev = goal.rev + 1
    BY <1>1, <2>1, MovedTypes
  <2>3. QED
    BY <1>1, <2>2
<1>6. CASE g = [Moved(goal, "active") EXCEPT !.armed = TRUE]
  <2>1. Moved(goal, "active") \in GoalType /\ Moved(goal, "active").rev = goal.rev + 1
    BY <1>1, MovedTypes
  <2>2. QED
    <3>1. g \in GoalType /\ g.rev = Moved(goal, "active").rev
      BY <1>6, <2>1 DEF GoalType
    <3>2. QED
      BY <1>1, <2>1, <3>1
<1>7. CASE g = [NoGoal EXCEPT !.rev = goal.rev + 1]
  <2>1. goal.rev + 1 \in Nat
    BY <1>1
  <2>2. g \in GoalType /\ g.rev = goal.rev + 1
    BY <1>7, <2>1 DEF NoGoal, GoalType
  <2>3. QED
    BY <1>1, <2>2
<1>8. QED
  BY <1>3, <1>4, <1>5, <1>6, <1>7 DEF Mutations

LEMMA PeopleStepTypes ==
  ASSUME Typed, People
  PROVE  Typed'
<1> USE DEF flags, saving, counts, goalVars, agentVars, history
<1>0. ASSUME NEW messages, Discarded(messages) PROVE AttemptTypes'
  BY <1>0 DEF Discarded, Typed, AttemptTypes, AttemptType
<1>1. CASE SendPrompt
  <2> DEFINE a == [attempt EXCEPT !.stale = @ \/ attempt.phase = "queued"]
  <2>0. Append(queue, Prompt) \in Seq(MessageType)
    BY SmallTypes DEF Typed, QueueTypes
  <2>1. Append(queue, Prompt) \in Seq(MessageType) /\ a \in AttemptType
    BY <2>0 DEF Typed, AttemptTypes, AttemptType
  <2>2. Wake(Append(queue, Prompt), a)
    BY <1>1 DEF SendPrompt
  <2> HIDE DEF a
  <2>3. AttemptTypes' /\ AgentTypes' /\ queue' \in Seq(MessageType)
    BY <1>1, <2>1, <2>2, WakeTypes DEF SendPrompt, AttemptTypes, AgentTypes, Typed
  <2>4. DriverTypes'
    BY <1>1 DEF SendPrompt, Typed, DriverTypes
  <2>5. GoalTypes' /\ RunTypes' /\ QueueTypes' /\ HistoryTypes' /\ CountTypes'
    BY <1>1, <2>3 DEF SendPrompt, Typed, GoalTypes, RunTypes, QueueTypes, HistoryTypes, CountTypes
  <2>6. QED
    BY <2>3, <2>4, <2>5 DEF Typed
<1>2. CASE Withdraw
  <2>1. PICK i \in 1..Len(queue) :
          /\ queue' = SubSeq(queue, 1, i - 1) \o SubSeq(queue, i + 1, Len(queue))
          /\ Discarded({queue[i]})
    BY <1>2 DEF Withdraw
  <2>2. AttemptTypes'
    BY <1>0, <2>1
  <2>3. QueueTypes'
    BY <1>2, <2>1, Removal DEF Withdraw, Typed, QueueTypes
  <2>4. GoalTypes' /\ DriverTypes' /\ RunTypes' /\ AgentTypes' /\ HistoryTypes' /\ CountTypes'
    BY <1>2 DEF Withdraw, Typed, GoalTypes, DriverTypes, RunTypes, AgentTypes, HistoryTypes, CountTypes
  <2>5. QED
    BY <2>2, <2>3, <2>4 DEF Typed
<1>3. ASSUME NEW keepInbox \in BOOLEAN, Cancel(keepInbox) PROVE Typed'
  <2>1. UNCHANGED <<goalVars, flags, saving, phase, replay, at, claimed, reserved, overtaken, changes,
                    prompts, jobs>>
        /\ cancels' = cancels + 1 /\ aborted' = (phase # "idle")
    BY <1>3 DEF Cancel
  <2>2. AttemptTypes'
    BY <1>0, <1>3 DEF Cancel, Typed, AttemptTypes
  <2>3. queue' \in {queue, <<>>} /\ latched' \in {latched, FALSE} /\ halted' \in {halted, "struck"}
    BY <1>3 DEF Cancel
  <2>4. AgentTypes'
    BY <2>1, <2>3 DEF Typed, AgentTypes
  <2>5. QueueTypes' /\ HistoryTypes'
    <3>1. <<>> \in Seq(MessageType) /\ queue \in Seq(MessageType)
      BY DEF Typed, QueueTypes
    <3>2. QueueTypes'
      BY <2>1, <2>3, <3>1 DEF Typed, QueueTypes
    <3>3. HistoryTypes'
      BY <2>1, <2>3 DEF Typed, HistoryTypes
    <3>4. QED
      BY <3>2, <3>3
  <2>6. GoalTypes' /\ DriverTypes' /\ RunTypes' /\ CountTypes'
    BY <2>1 DEF Typed, GoalTypes, DriverTypes, RunTypes, CountTypes
  <2>7. QED
    BY <2>2, <2>4, <2>5, <2>6 DEF Typed
<1>4. CASE StartJob
  <2>1. GoalTypes' /\ AttemptTypes' /\ DriverTypes' /\ RunTypes' /\ QueueTypes' /\ HistoryTypes'
    BY <1>4 DEF StartJob, Typed, GoalTypes, AttemptTypes, DriverTypes, RunTypes, QueueTypes, HistoryTypes
  <2>2. AgentTypes'
    BY <1>4 DEF StartJob, Typed, AgentTypes
  <2>3. CountTypes'
    BY <1>4 DEF StartJob, Typed, CountTypes
  <2>4. QED
    BY <2>1, <2>2, <2>3 DEF Typed
<1>5. CASE Mutate
  <2>1. GoalTypes'
    BY <1>5, MutationTypes DEF Mutate, Typed, GoalTypes
  <2>2. DriverTypes'
    BY <1>5 DEF Mutate, Typed, DriverTypes
  <2>3. AttemptTypes' /\ RunTypes' /\ AgentTypes' /\ QueueTypes'
    BY <1>5 DEF Mutate, Typed, AttemptTypes, RunTypes, AgentTypes, QueueTypes
  <2>4. HistoryTypes'
    BY <1>5 DEF Mutate, HistoryTypes
  <2>5. CountTypes'
    BY <1>5 DEF Mutate, Typed, CountTypes
  <2>6. QED
    BY <2>1, <2>2, <2>3, <2>4, <2>5 DEF Typed
<1>6. QED
  BY <1>1, <1>2, <1>3, <1>4, <1>5 DEF People

LEMMA TypesInit == Init => Typed
<1> SUFFICES ASSUME Init PROVE Typed
  OBVIOUS
<1>1. GoalTypes
  <2>1. ASSUME NEW p \in {"active", "paused"}, NEW c \in Caps
        PROVE  [phase |-> p, rev |-> 1, cap |-> c, started |-> 0, armed |-> FALSE] \in GoalType
    BY GoalAssumption DEF GoalType
  <2>2. goal \in GoalType
    BY <2>1, SmallTypes DEF Init
  <2>3. QED
    BY <2>2 DEF Init, GoalTypes
<1>2. AttemptTypes
  BY SmallTypes DEF Init, AttemptTypes
<1>3. DriverTypes /\ RunTypes /\ HistoryTypes /\ CountTypes
  BY DEF Init, DriverTypes, RunTypes, HistoryTypes, CountTypes
<1>4. AgentTypes
  BY SmallTypes DEF Init, AgentTypes, Places
<1>5. QueueTypes
  BY DEF Init, QueueTypes
<1>6. QED
  BY <1>1, <1>2, <1>3, <1>4, <1>5 DEF Typed

LEMMA TypesStep ==
  ASSUME Typed, [Next]_vars
  PROVE  Typed'
<1>1. CASE UNCHANGED vars
  BY <1>1 DEF vars, goalVars, flags, saving, agentVars, history, counts, Typed, GoalTypes, AttemptTypes,
     DriverTypes, RunTypes, AgentTypes, QueueTypes, HistoryTypes, CountTypes
<1>2. QED
  BY <1>1, AgentStepTypes, DriverStepTypes, PeopleStepTypes DEF Next

(* The driver, the goal and the agent it sees keep their types. *)
THEOREM GoalRoundsTypes == Spec => []TypeOK
<1>1. Typed => TypeOK
  BY DEF Typed, GoalTypes, AttemptTypes, DriverTypes, RunTypes, AgentTypes, QueueTypes, HistoryTypes,
     CountTypes, TypeOK
<1>2. QED
  BY <1>1, TypesInit, TypesStep, PTL DEF Spec

-----------------------------------------------------------------------------
(* What a step of anybody but people and tools does to the goal: no round  *)
(* and no failure arms it, lifts its cap or has it go back.                *)
GoalKept ==
  /\ goal' \in {goal, Disarmed(goal), Moved(goal, "paused"), Moved(goal, "blocked"),
                [goal EXCEPT !.started = claimed.round]}
  /\ replayable' => replayable

AttemptHeld ==
  \/ attempt' = NoAttempt
  \/ attempt'.msg = attempt.msg /\ (attempt'.phase = "none" <=> attempt.phase = "none")
Reserved ==
  /\ goal' = goal /\ goal.started < goal.cap
  /\ attempt'.msg.rev = goal.rev /\ attempt'.msg.round = goal.started + 1 /\ attempt'.phase # "none"

(* A reservation is of the revision it was made at, or of one that has     *)
(* been overtaken; within one revision the cap does not change.            *)
Ceiling ==
  /\ attempt.phase = "none" => ~IsRound(attempt.msg)
  /\ attempt.phase # "none" =>
       /\ attempt.msg.rev <= goal.rev
       /\ attempt.msg.rev = goal.rev => attempt.msg.round <= goal.cap

LEMMA KeptGoal ==
  ASSUME Typed, GoalKept
  PROVE  /\ goal'.rev >= goal.rev /\ (goal'.rev = goal.rev => goal'.cap = goal.cap)
         /\ replayable' /\ Armed(goal') =>
              replayable /\ Armed(goal) /\ goal' \in {goal, [goal EXCEPT !.started = claimed.round]}
<1>1. goal \in GoalType /\ goal.rev \in Nat
  BY DEF Typed, GoalTypes, GoalType
<1>2. CASE goal' = goal
  BY <1>1, <1>2 DEF GoalKept
<1>3. CASE goal' = Disarmed(goal)
  BY <1>1, <1>3, MovedTypes DEF GoalKept, Armed
<1>4. CASE goal' = Moved(goal, "paused") \/ goal' = Moved(goal, "blocked")
  <2>1. goal'.rev = goal.rev + 1 /\ ~Armed(goal')
    BY <1>1, <1>4, MovedTypes DEF Armed
  <2>2. QED
    BY <1>1, <2>1
<1>5. CASE goal' = [goal EXCEPT !.started = claimed.round]
  BY <1>1, <1>5 DEF GoalKept, Armed, GoalType
<1>6. QED
  BY <1>2, <1>3, <1>4, <1>5 DEF GoalKept

LEMMA ClaimHolds ==
  ASSUME NEW list \in Seq(MessageType), NEW a \in AttemptType, ClaimFirst(list, a)
  PROVE  /\ attempt'.msg = a.msg
         /\ a.phase = "none" => attempt' = a
         /\ a.phase # "none" => attempt'.phase # "none"
BY DEF ClaimFirst, Same, AttemptType

LEMMA WakeHolds ==
  ASSUME NEW list \in Seq(MessageType), NEW a \in AttemptType, Wake(list, a)
  PROVE  /\ attempt'.msg = a.msg
         /\ a.phase = "none" => attempt' = a
         /\ a.phase # "none" => attempt'.phase # "none"
BY ClaimHolds DEF Wake

LEMMA EndsHold ==
  ASSUME Typed, NEW reason, TurnEnds(reason)
  PROVE  GoalKept /\ AttemptHeld
<1>1. AfterTurn(reason).attempt \in {attempt, [attempt EXCEPT !.cancelled = TRUE]}
  BY DEF AfterTurn
<1>2. AttemptHeld
  BY <1>1 DEF TurnEnds, AttemptHeld, Typed, AttemptTypes, AttemptType
<1>3. GoalKept
  BY AfterTypes DEF TurnEnds, GoalKept
<1>4. QED
  BY <1>2, <1>3

LEMMA EnterHolds ==
  ASSUME Typed, Ceiling, Enter
  PROVE  GoalKept /\ AttemptHeld
<1>1. GoalKept
  <2>1. goal' \in {goal, [goal EXCEPT !.started = claimed.round]}
    BY DEF Enter, goalVars
  <2>2. replayable' => replayable
    BY DEF Enter, goalVars
  <2>3. QED
    BY <2>1, <2>2 DEF GoalKept
<1>2. \/ attempt' = attempt
      \/ /\ attempt.msg = claimed /\ attempt'.msg = attempt.msg /\ IsRound(claimed)
         /\ attempt'.phase # "none"
  BY DEF Enter, Typed, AttemptTypes, AttemptType
<1>3. QED
  BY <1>1, <1>2 DEF AttemptHeld, Ceiling

LEMMA ProceedHolds ==
  ASSUME Typed, NEW rest, NEW again, NEW hold, Proceed(rest, again, hold)
  PROVE  /\ goal' \in {goal, Moved(goal, "blocked")}
         /\ AttemptHeld \/ Reserved
<1>1. CASE SettleAttempt(rest, again, hold) \/ NothingToDrive(rest, again, hold)
  BY <1>1 DEF SettleAttempt, NothingToDrive, AttemptHeld
<1>2. CASE BlockGoal(rest, again, hold)
  BY <1>2 DEF BlockGoal, AttemptHeld
<1>3. CASE Reserve(rest, again, hold)
  <2> DEFINE msg == Round(goal.rev, goal.started + 1, reserved + 1)
             a == [NoAttempt EXCEPT !.phase = "queued", !.msg = msg]
  <2>1. Append(queue, msg) \in Seq(MessageType) /\ a \in AttemptType /\ a.msg = msg
        /\ a.phase = "queued" /\ msg.rev = goal.rev /\ msg.round = goal.started + 1
    BY ReserveTypes DEF NoAttempt
  <2>2. Wake(Append(queue, msg), a) /\ goal' = goal /\ goal.started < goal.cap
    BY <1>3 DEF Reserve
  <2> HIDE DEF msg, a
  <2>3. attempt'.msg = msg /\ attempt'.phase # "none"
    BY <2>1, <2>2, WakeHolds
  <2>4. QED
    BY <2>1, <2>2, <2>3 DEF Reserved
<1>4. QED
  BY <1>1, <1>2, <1>3 DEF Proceed

LEMMA AgentHolds ==
  ASSUME Typed, Ceiling, Agent
  PROVE  GoalKept /\ AttemptHeld
<1> USE DEF goalVars, flags, saving, counts, history
<1>0. attempt \in AttemptType /\ queue \in Seq(MessageType)
  BY DEF Typed, AttemptTypes, QueueTypes
<1>1. ASSUME NEW reason, TurnEnds(reason) PROVE GoalKept /\ AttemptHeld
  BY <1>1, EndsHold
<1>2. ASSUME NEW a \in {attempt, NoAttempt}, NEW place, Drops(a, place) PROVE GoalKept /\ AttemptHeld
  BY <1>2 DEF Drops, GoalKept, AttemptHeld
<1>3. ASSUME NEW place, Reaches(place) PROVE GoalKept /\ AttemptHeld
  BY <1>3 DEF Reaches, GoalKept, AttemptHeld
<1>4. CASE Enter
  BY <1>4, EnterHolds
<1>5. ASSUME ClaimFirst(queue, attempt), UNCHANGED goalVars PROVE GoalKept /\ AttemptHeld
  <2>1. AttemptHeld
    BY <1>0, <1>5, ClaimHolds DEF AttemptHeld
  <2>2. QED
    BY <1>5, <2>1 DEF GoalKept
<1>6. CASE Assembled
  BY <1>1, <1>2, <1>3, <1>6 DEF Assembled
<1>7. CASE HooksSettle
  <2>1. CASE RejectsRound
    BY <2>1 DEF RejectsRound, GoalKept, AttemptHeld
  <2>2. QED
    BY <1>1, <1>2, <1>3, <1>4, <1>7, <2>1 DEF HooksSettle
<1>8. CASE OuterSettles \/ RefusalSettles
  BY <1>1, <1>4, <1>8 DEF OuterSettles, RefusalSettles
<1>9. CASE StepSettles
  <2>1. ASSUME NEW reason, goal' = AfterTurn(reason).goal, UNCHANGED <<replayable, attempt>>
        PROVE  GoalKept /\ AttemptHeld
    BY <2>1, AfterTypes DEF GoalKept, AttemptHeld
  <2>2. QED
    BY <1>1, <1>9, <2>1 DEF StepSettles
<1>10. CASE TurnReturns
  <2>1. CASE GoIdle
    BY <2>1 DEF GoIdle, IdleListener, GoalKept, AttemptHeld
  <2>2. QED
    BY <1>5, <1>10, <2>1 DEF TurnReturns
<1>11. CASE Replay \/ JobEnds
  <2>1. CASE UNCHANGED <<attempt, goalVars>>
    BY <2>1 DEF GoalKept, AttemptHeld
  <2>2. QED
    BY <1>5, <1>11, <2>1 DEF Replay, JobEnds
<1>12. QED
  BY <1>6, <1>7, <1>8, <1>9, <1>10, <1>11 DEF Agent

LEMMA DriverHolds ==
  ASSUME Typed, Driver
  PROVE  GoalKept /\ (AttemptHeld \/ Reserved)
<1> USE DEF goalVars, history
<1>1. UNCHANGED replayable
  BY DEF Driver, Start, Loop, Retire, CheckpointSettles, FlushReturns, Drive
<1>2. ASSUME NEW rest, NEW again, NEW hold, Proceed(rest, again, hold)
      PROVE  GoalKept /\ (AttemptHeld \/ Reserved)
  BY <1>1, <1>2, ProceedHolds DEF GoalKept
<1>3. ASSUME goal' \in {goal, Disarmed(goal)}, attempt' = attempt
      PROVE  GoalKept /\ AttemptHeld
  BY <1>1, <1>3 DEF GoalKept, AttemptHeld
<1>4. ASSUME NEW rest, NEW hold, Drive(rest, hold)
      PROVE  GoalKept /\ (AttemptHeld \/ Reserved)
  BY <1>2, <1>3, <1>4 DEF Drive
<1>5. QED
  BY <1>2, <1>3, <1>4 DEF Driver, Start, Loop, Retire, CheckpointSettles, FlushReturns

LEMMA PeopleHold ==
  ASSUME Typed, People
  PROVE  (GoalKept \/ Mutate) /\ AttemptHeld
<1> USE DEF goalVars
<1>0. attempt \in AttemptType /\ queue \in Seq(MessageType)
  BY DEF Typed, AttemptTypes, QueueTypes
<1>1. ASSUME UNCHANGED goalVars, attempt'.msg = attempt.msg,
             attempt'.phase = "none" <=> attempt.phase = "none"
      PROVE  GoalKept /\ AttemptHeld
  BY <1>1 DEF GoalKept, AttemptHeld
<1>2. CASE SendPrompt
  <2> DEFINE a == [attempt EXCEPT !.stale = @ \/ attempt.phase = "queued"]
  <2>1. Append(queue, Prompt) \in Seq(MessageType)
    BY <1>0, SmallTypes
  <2>2. a \in AttemptType /\ a.msg = attempt.msg /\ a.phase = attempt.phase
    BY <1>0 DEF AttemptType
  <2>3. Wake(Append(queue, Prompt), a) /\ UNCHANGED goalVars
    BY <1>2 DEF SendPrompt
  <2> HIDE DEF a
  <2>4. QED
    BY <1>1, <2>1, <2>2, <2>3, WakeHolds
<1>3. ASSUME NEW messages, Discarded(messages), UNCHANGED goalVars
      PROVE  GoalKept /\ AttemptHeld
  BY <1>0, <1>1, <1>3 DEF Discarded, AttemptType
<1>4. CASE Withdraw
  BY <1>3, <1>4 DEF Withdraw
<1>5. ASSUME NEW keepInbox \in BOOLEAN, Cancel(keepInbox) PROVE GoalKept /\ AttemptHeld
  BY <1>1, <1>3, <1>5 DEF Cancel
<1>6. CASE StartJob
  BY <1>1, <1>6 DEF StartJob
<1>7. CASE Mutate
  BY <1>7 DEF Mutate, AttemptHeld
<1>8. QED
  BY <1>2, <1>4, <1>5, <1>6, <1>7 DEF People

LEMMA StepHolds ==
  ASSUME Typed, Ceiling, [Next]_vars
  PROVE  /\ GoalKept \/ Mutate
         /\ AttemptHeld \/ (Driver /\ Reserved)
<1>1. CASE UNCHANGED vars
  BY <1>1 DEF vars, goalVars, GoalKept, AttemptHeld
<1>2. QED
  BY <1>1, AgentHolds, DriverHolds, PeopleHold DEF Next

LEMMA CeilingStep ==
  ASSUME Typed, Typed', Ceiling, [Next]_vars
  PROVE  Ceiling'
<1>1. /\ goal.rev \in Nat /\ goal.cap \in Nat /\ goal'.rev \in Nat /\ goal'.cap \in Nat
      /\ goal.started \in Nat /\ attempt.msg.rev \in Int /\ attempt.msg.round \in Nat
  BY DEF Typed, GoalTypes, GoalType, AttemptTypes, AttemptType, MessageType
<1>2. goal'.rev >= goal.rev /\ (goal'.rev = goal.rev => goal'.cap = goal.cap)
  <2>1. CASE GoalKept
    BY <2>1, KeptGoal
  <2>2. CASE Mutate
    <3>1. goal' \in Mutations
      BY <2>2 DEF Mutate
    <3>2. goal'.rev > goal.rev
      BY <3>1, MutationTypes
    <3>3. QED
      BY <1>1, <3>2
  <2>3. QED
    BY <2>1, <2>2, StepHolds
<1>3. NoAttempt.phase = "none" /\ ~IsRound(NoAttempt.msg)
  BY DEF NoAttempt, Nothing, Round, IsRound
<1>4. CASE attempt' = NoAttempt
  BY <1>3, <1>4 DEF Ceiling
<1>5. CASE attempt'.msg = attempt.msg /\ (attempt'.phase = "none" <=> attempt.phase = "none")
  BY <1>1, <1>2, <1>5 DEF Ceiling
<1>6. CASE Reserved
  BY <1>1, <1>6 DEF Ceiling, Reserved
<1>7. QED
  BY <1>4, <1>5, <1>6, StepHolds DEF AttemptHeld

-----------------------------------------------------------------------------
(* A round the driver handed on is one the fold accepts, until somebody    *)
(* changes the goal.                                                       *)
Handed == at = "outer" /\ ~overtaken => Replays(claimed)

LEMMA ValidReplays ==
  ASSUME Ceiling, ValidReservation
  PROVE  Replays(claimed)
<1>1. /\ goal.phase = "active" /\ goal.rev = claimed.rev /\ claimed.round = goal.started + 1
      /\ attempt.phase = "claimed" /\ claimed.rev = attempt.msg.rev
      /\ claimed.round = attempt.msg.round
  BY DEF ValidReservation, Armed, Same
<1>2. claimed.round <= goal.cap
  BY <1>1 DEF Ceiling
<1>3. QED
  BY <1>1, <1>2 DEF Replays

(* While the listeners around the driver's own run, nobody but people      *)
(* changes what the fold looks at.                                         *)
LEMMA OuterHolds ==
  ASSUME Typed, at = "outer", at' = "outer", [Next]_vars
  PROVE  overtaken' \/ (goal' \in {goal, Disarmed(goal)} /\ UNCHANGED <<claimed, overtaken>>)
<1> USE DEF goalVars, agentVars, history
<1>0. phase = "running"
  BY DEF Typed, AgentTypes
<1>1. CASE Agent
  BY <1>0, <1>1 DEF Agent, Assembled, HooksSettle, OuterSettles, RefusalSettles, StepSettles, TurnReturns,
     Replay, JobEnds, TurnEnds, Enter, ClaimFirst
<1>2. CASE Driver
  BY <1>0, <1>2 DEF Driver, Start, Loop, Retire, CheckpointSettles, FlushReturns, Drive,
     ReadyAfterCheckpoint, ReadyToDrive
<1>3. CASE People
  BY <1>0, <1>3 DEF People, SendPrompt, Wake, Withdraw, Cancel, StartJob, Mutate
<1>4. CASE UNCHANGED vars
  BY <1>4 DEF vars
<1>5. QED
  BY <1>1, <1>2, <1>3, <1>4 DEF Next

(* The driver's second look is what leads there. *)
LEMMA HandedOn ==
  ASSUME Typed, at # "outer", at' = "outer", [Next]_vars
  PROVE  ValidReservation /\ UNCHANGED <<goal, claimed>>
<1> USE DEF goalVars, agentVars
<1>1. ASSUME NEW list, NEW a, Wake(list, a) PROVE FALSE
  BY <1>1 DEF Wake, ClaimFirst
<1>2. ASSUME NEW rest, NEW again, NEW hold, Proceed(rest, again, hold) PROVE FALSE
  BY <1>1, <1>2 DEF Proceed, SettleAttempt, NothingToDrive, BlockGoal, Reserve
<1>3. ~Driver
  BY <1>2 DEF Driver, Start, Loop, Retire, CheckpointSettles, FlushReturns, Drive
<1>4. ~People /\ ~UNCHANGED vars
  BY <1>1 DEF People, SendPrompt, Withdraw, Cancel, StartJob, Mutate, vars
<1>5. HooksSettle
  BY <1>3, <1>4 DEF Next, Agent, Assembled, OuterSettles, RefusalSettles, StepSettles, TurnReturns,
     Replay, JobEnds, TurnEnds, GoIdle, Enter, ClaimFirst, Reaches, Drops
<1>6. QED
  BY <1>5 DEF HooksSettle, TurnEnds, Reaches, Drops, Enter, RejectsRound

LEMMA HandedStep ==
  ASSUME Typed, Ceiling, Handed, [Next]_vars
  PROVE  Handed'
<1>1. CASE at' # "outer"
  BY <1>1 DEF Handed
<1>2. CASE at' = "outer" /\ at # "outer"
  BY <1>2, HandedOn, ValidReplays DEF Handed, Replays
<1>3. CASE at' = "outer" /\ at = "outer"
  <2>1. CASE overtaken'
    BY <2>1 DEF Handed
  <2>2. CASE goal' \in {goal, Disarmed(goal)} /\ UNCHANGED <<claimed, overtaken>>
    <3>1. /\ goal'.phase = goal.phase /\ goal'.rev = goal.rev /\ goal'.cap = goal.cap
          /\ goal'.started = goal.started
      BY <2>2, MovedTypes DEF Typed, GoalTypes
    <3>2. QED
      BY <1>3, <2>2, <3>1 DEF Handed, Replays
  <2>3. QED
    BY <1>3, <2>1, <2>2, OuterHolds
<1>4. QED
  BY <1>1, <1>2, <1>3

(* Only the admission of a round can make the goal unreadable. *)
LEMMA ReplayableHolds ==
  ASSUME Typed, Handed, [Next]_vars, replayable, ~replayable'
  PROVE  overtaken
<1> USE DEF goalVars, agentVars
<1>1. ~Driver
  BY DEF Driver, Start, Loop, Retire, CheckpointSettles, FlushReturns, Drive
<1>2. ~People /\ ~UNCHANGED vars
  BY DEF People, SendPrompt, Withdraw, Cancel, StartJob, Mutate, vars
<1>3. Enter /\ IsRound(claimed) /\ ~Replays(claimed)
  BY <1>1, <1>2 DEF Next, Agent, Assembled, HooksSettle, OuterSettles, RefusalSettles, StepSettles,
     TurnReturns, Replay, JobEnds, TurnEnds, GoIdle, Enter, Reaches, Drops, RejectsRound
<1>4. at' = "step" /\ at # "step"
  BY <1>1, <1>2, <1>3 DEF Next, Agent, Assembled, HooksSettle, OuterSettles, RefusalSettles, StepSettles,
     TurnReturns, Replay, JobEnds, TurnEnds, GoIdle, Enter, ClaimFirst
<1>5. OuterSettles
  BY <1>1, <1>2, <1>3, <1>4 DEF Next, Agent, Assembled, HooksSettle, RefusalSettles, StepSettles,
     TurnReturns, Replay, JobEnds, TurnEnds, GoIdle, ClaimFirst, Reaches, Drops, RejectsRound
<1>6. QED
  BY <1>3, <1>5 DEF OuterSettles, Handed, Typed, HistoryTypes

(* The goal's fold refuses an admitted round only when somebody changed    *)
(* the goal between the driver's second look at the round and its          *)
(* user/message (goal-round-driver, the pre-step listener and              *)
(* validReservation; goal, fold.ts): whatever else people, the agent and   *)
(* the driver's own runs do, the round was the next one of the live        *)
(* revision, within its cap.                                               *)
THEOREM RoundsReplay == Spec => RefusedOnlyIfOvertaken
<1> DEFINE Inv == Typed /\ Ceiling /\ Handed
<1>1. Init => Inv
  BY TypesInit DEF Init, Ceiling, Handed, NoAttempt, Nothing, Round, IsRound
<1>2. Inv /\ [Next]_vars => Inv' /\ (replayable /\ ~replayable' => overtaken)
  BY TypesStep, CeilingStep, HandedStep, ReplayableHolds
<1>3. QED
  BY <1>1, <1>2, PTL DEF Spec, RefusedOnlyIfOvertaken

-----------------------------------------------------------------------------
(* While the goal is armed, a change of it that is not durable has its     *)
(* checkpoint ahead: asked for, awaited, or failed and about to disarm.    *)
Checkpointed ==
  replayable /\ Armed(goal) /\ unsaved =>
    needsCheckpoint \/ runs["flushing"] > 0 \/ runs["failed"] > 0

(* A goal that is still armed when a turn was aborted is about to be       *)
(* paused: the abort hit a round of it, and the agent is not idle yet.     *)
Halting == halted = "aborted" /\ replayable /\ Armed(goal) => at = "closed" /\ attempt.cancelled

LEMMA Disarming ==
  ASSUME Typed
  PROVE  /\ replayable => ~Armed(Disarmed(goal))
         /\ \A to \in {"paused", "blocked", "complete"} : ~Armed(Moved(goal, to))
BY MovedTypes DEF Typed, GoalTypes, Armed

(* A step that keeps the goal armed leaves what is owed where it was. *)
LEMMA KeepsOwing ==
  ASSUME Typed, Checkpointed, GoalKept,
         replayable' /\ Armed(goal') =>
           /\ unsaved' => unsaved
           /\ needsCheckpoint \/ runs["flushing"] > 0 \/ runs["failed"] > 0 =>
                needsCheckpoint' \/ runs'["flushing"] > 0 \/ runs'["failed"] > 0
  PROVE  Checkpointed'
BY KeptGoal DEF Checkpointed, Armed

(* And one that aborts no turn, and stays in it, keeps what pauses it. *)
LEMMA KeepsHalting ==
  ASSUME Typed, Halting, GoalKept,
         halted' = "aborted" => halted = "aborted",
         attempt.cancelled => attempt'.cancelled, at' = at
  PROVE  Halting'
BY KeptGoal DEF Halting, Armed

LEMMA EndsRest ==
  ASSUME Typed, Checkpointed, Halting, at # "closed", NEW reason, TurnEnds(reason)
  PROVE  Checkpointed' /\ Halting'
<1>1. GoalKept
  BY EndsHold
<1>2. Checkpointed'
  BY <1>1, KeepsOwing DEF TurnEnds, flags, saving
<1>3. CASE reason # "aborted"
  <2>1. halted' = halted
    BY <1>3 DEF TurnEnds
  <2>2. QED
    BY <1>1, <1>2, <2>1, KeptGoal DEF Halting, Armed
<1>4. CASE reason = "aborted"
  <2>1. \/ goal' = Disarmed(goal)
        \/ attempt' = [attempt EXCEPT !.cancelled = TRUE]
    BY <1>4 DEF TurnEnds, AfterTurn
  <2>2. at' = "closed" /\ replayable' = replayable
    BY DEF TurnEnds
  <2>3. CASE goal' = Disarmed(goal)
    BY <1>2, <2>2, <2>3, Disarming DEF Halting, Armed
  <2>4. CASE attempt' = [attempt EXCEPT !.cancelled = TRUE]
    <3>1. attempt'.cancelled
      BY <2>4 DEF Typed, AttemptTypes, AttemptType
    <3>2. QED
      BY <1>2, <2>2, <3>1 DEF Halting
  <2>5. QED
    BY <2>1, <2>3, <2>4
<1>5. QED
  BY <1>3, <1>4

(* The idle listener pauses what was halted, and what it changes asks for  *)
(* a checkpoint.                                                           *)
LEMMA IdleRests ==
  ASSUME Typed, Checkpointed, Halting, GoIdle
  PROVE  Checkpointed' /\ Halting'
<1>1. CASE Pauses(goal, attempt)
  <2>1. goal' = Moved(goal, "paused")
    BY <1>1 DEF GoIdle, IdleListener
  <2>2. ~Armed(goal)'
    BY <2>1, Disarming DEF Armed
  <2>3. QED
    BY <2>2 DEF Checkpointed, Halting
<1>2. CASE ~Pauses(goal, attempt)
  <2>1. UNCHANGED <<goal, replayable, needsCheckpoint, runs, unsaved, halted>>
    BY <1>2 DEF GoIdle, IdleListener, saving, history
  <2>2. Checkpointed'
    BY <2>1 DEF Checkpointed, Armed
  <2>3. ~(halted = "aborted" /\ replayable /\ Armed(goal))
    BY <1>2 DEF Pauses, Halting
  <2>4. QED
    BY <2>1, <2>2, <2>3 DEF Halting, Armed
<1>3. QED
  BY <1>1, <1>2

LEMMA AgentRests ==
  ASSUME Typed, Ceiling, Checkpointed, Halting, Agent
  PROVE  Checkpointed' /\ Halting'
<1> USE DEF goalVars, flags, saving, counts, history
<1>0. GoalKept
  BY AgentHolds
<1>1. ASSUME at # "closed", NEW reason, TurnEnds(reason) PROVE Checkpointed' /\ Halting'
  BY <1>1, EndsRest
<1>2. ASSUME at # "closed", UNCHANGED <<needsCheckpoint, runs, unsaved, halted>>
      PROVE  Checkpointed' /\ Halting'
  <2>1. Checkpointed'
    BY <1>0, <1>2, KeepsOwing
  <2>2. Halting'
    BY <1>0, <1>2, KeptGoal DEF Halting, Armed
  <2>3. QED
    BY <2>1, <2>2
<1>3. CASE Assembled
  BY <1>1, <1>2, <1>3 DEF Assembled, Reaches, Drops
<1>4. CASE HooksSettle
  <2>1. CASE RejectsRound
    <3>1. CASE goal' = Moved(goal, "blocked")
      <4>1. ~Armed(goal)'
        BY <3>1, Disarming DEF Armed
      <4>2. QED
        BY <4>1 DEF Checkpointed, Halting
    <3>2. CASE UNCHANGED <<goal, needsCheckpoint, requested, unsaved>>
      BY <1>2, <1>4, <2>1, <3>2 DEF HooksSettle, RejectsRound
    <3>3. QED
      BY <2>1, <3>1, <3>2 DEF RejectsRound
  <2>2. QED
    BY <1>1, <1>2, <1>4, <2>1 DEF HooksSettle, Reaches, Drops, Enter
<1>5. CASE OuterSettles \/ RefusalSettles
  BY <1>1, <1>2, <1>5 DEF OuterSettles, RefusalSettles, Enter
<1>6. CASE StepSettles
  BY <1>1, <1>2, <1>6 DEF StepSettles
<1>7. CASE TurnReturns
  BY <1>2, <1>7, IdleRests DEF TurnReturns
<1>8. CASE Replay \/ JobEnds
  <2>1. CASE at = "closed"
    <3>1. phase = "running"
      BY <2>1 DEF Typed, AgentTypes
    <3>2. UNCHANGED <<goalVars, flags, saving, attempt, at, halted>>
      BY <1>8, <3>1 DEF Replay, JobEnds, ClaimFirst
    <3>3. QED
      BY <3>2 DEF Checkpointed, Halting, Armed
  <2>2. CASE at # "closed"
    BY <1>2, <1>8, <2>2 DEF Replay, JobEnds
  <2>3. QED
    BY <2>1, <2>2
<1>9. QED
  BY <1>3, <1>4, <1>5, <1>6, <1>7, <1>8 DEF Agent

(* Beyond its checkpoint a drive finds the agent with no turn, and leaves  *)
(* the checkpoints of the other runs alone.                                *)
LEMMA ProceedRests ==
  ASSUME Typed, Checkpointed, Halting, ReadyAfterCheckpoint,
         NEW rest \in [Stages -> Nat], rest["flushing"] = runs["flushing"],
         rest["failed"] = runs["failed"],
         NEW again, NEW hold, Proceed(rest, again, hold), UNCHANGED <<replayable, halted>>
  PROVE  Checkpointed' /\ Halting' /\ ReservedWhenDue
<1>0. /\ at # "closed" /\ ~needsCheckpoint /\ runs \in [Stages -> Nat]
      /\ Stages = {"flushing", "flushed", "failed", "looping", "ending"}
  BY DEF Typed, AgentTypes, RunTypes, ReadyAfterCheckpoint, ReadyToDrive, Stages
<1>1. ~(halted = "aborted" /\ replayable /\ Armed(goal))
  BY <1>0 DEF Halting
<1>2. CASE BlockGoal(rest, again, hold)
  <2>1. ~Armed(goal)' /\ attempt' = attempt
    BY <1>2, Disarming DEF BlockGoal, Armed
  <2>2. QED
    BY <2>1 DEF Checkpointed, Halting, ReservedWhenDue, Reserves
<1>3. CASE ~BlockGoal(rest, again, hold)
  <2>1. /\ goal' = goal /\ unsaved' = unsaved /\ runs' = Placed(rest, "looping")
        /\ \/ attempt' = NoAttempt \/ attempt' = attempt
           \/ replayable /\ Armed(goal)
    BY <1>3 DEF Proceed, SettleAttempt, NothingToDrive, Reserve
  <2>2. runs'["flushing"] = runs["flushing"] /\ runs'["failed"] = runs["failed"]
    BY <1>0, <2>1 DEF Placed
  <2>3. Checkpointed'
    BY <1>0, <2>1, <2>2 DEF Checkpointed, Armed
  <2>4. Halting'
    BY <1>1, <2>1 DEF Halting, Armed
  <2>5. ReservedWhenDue
    <3>1. SUFFICES ASSUME Reserves PROVE halted # "aborted" /\
                     (unsaved' => runs["flushing"] + runs["failed"] > 0)
      BY DEF ReservedWhenDue
    <3>2. replayable /\ Armed(goal)
      BY <2>1, <3>1 DEF Reserves, NoAttempt
    <3>3. unsaved => runs["flushing"] > 0 \/ runs["failed"] > 0
      BY <1>0, <3>2 DEF Checkpointed
    <3>4. QED
      BY <1>0, <1>1, <2>1, <3>2, <3>3
  <2>6. QED
    BY <2>3, <2>4, <2>5
<1>4. QED
  BY <1>2, <1>3

LEMMA DriverRests ==
  ASSUME Typed, Checkpointed, Halting, Driver
  PROVE  Checkpointed' /\ Halting' /\ ReservedWhenDue
<1> USE DEF goalVars, flags, counts, history, agentVars
<1>0. /\ Stages = {"flushing", "flushed", "failed", "looping", "ending"} /\ runs \in [Stages -> Nat]
      /\ RunTypes
  BY DEF Typed, RunTypes, Stages
<1>1. GoalKept
  BY DriverHolds
<1>2. ASSUME attempt' = attempt, UNCHANGED <<at, halted>>,
             replayable' /\ Armed(goal') =>
               /\ unsaved' => unsaved
               /\ needsCheckpoint \/ runs["flushing"] > 0 \/ runs["failed"] > 0 =>
                    needsCheckpoint' \/ runs'["flushing"] > 0 \/ runs'["failed"] > 0
      PROVE  Checkpointed' /\ Halting' /\ ReservedWhenDue
  <2>1. Checkpointed'
    BY <1>1, <1>2, KeepsOwing
  <2>2. Halting'
    BY <1>1, <1>2, KeepsHalting
  <2>3. QED
    BY <1>2, <2>1, <2>2 DEF ReservedWhenDue, Reserves
<1>3. ASSUME NEW rest \in [Stages -> Nat], rest["flushing"] = runs["flushing"],
             rest["failed"] = runs["failed"], NEW hold, Drive(rest, hold)
      PROVE  Checkpointed' /\ Halting' /\ ReservedWhenDue
  <2>1. CASE ReadyAfterCheckpoint /\ Proceed(rest, FALSE, hold)
    BY <1>3, <2>1, ProceedRests DEF Drive
  <2>2. CASE ~(ReadyAfterCheckpoint /\ Proceed(rest, FALSE, hold))
    <3>1. /\ UNCHANGED <<attempt, at, unsaved, halted>>
          /\ \/ needsCheckpoint' = needsCheckpoint /\ runs' = Placed(rest, "looping")
             \/ runs' = Placed(rest, "flushing")
      BY <1>3, <2>2 DEF Drive
    <3>2. \/ /\ needsCheckpoint' = needsCheckpoint
             /\ runs'["flushing"] = runs["flushing"] /\ runs'["failed"] = runs["failed"]
          \/ runs'["flushing"] > 0
      BY <1>0, <1>3, <3>1 DEF Placed
    <3>3. QED
      BY <1>2, <3>1, <3>2
  <2>3. QED
    BY <2>1, <2>2
<1>4. CASE Start
  BY <1>0, <1>3, <1>4 DEF Start
<1>5. CASE Loop
  <2>1. /\ Without("looping") \in [Stages -> Nat]
        /\ Without("looping")["flushing"] = runs["flushing"]
        /\ Without("looping")["failed"] = runs["failed"]
    BY <1>0, <1>5, StagesLeft DEF Loop
  <2>2. CASE Drive(Without("looping"), held)
    BY <1>3, <2>1, <2>2
  <2>3. CASE ~Drive(Without("looping"), held)
    <3>1. /\ runs' = Placed(Without("looping"), "ending")
          /\ UNCHANGED <<attempt, at, halted, needsCheckpoint, unsaved>>
      BY <1>5, <2>3 DEF Loop
    <3>2. runs'["flushing"] = runs["flushing"] /\ runs'["failed"] = runs["failed"]
      BY <1>0, <2>1, <3>1 DEF Placed
    <3>3. QED
      BY <1>2, <3>1, <3>2
  <2>4. QED
    BY <2>2, <2>3
<1>6. CASE Retire
  <2>1. runs'["flushing"] = runs["flushing"] /\ runs'["failed"] = runs["failed"]
    BY <1>0, <1>6, StagesLeft DEF Retire
  <2>2. QED
    BY <1>2, <1>6, <2>1 DEF Retire
<1>7. CASE CheckpointSettles
  <2>1. PICK joined \in 1..runs["flushing"], outcome \in {"flushed", "failed"} :
          /\ runs' = [runs EXCEPT !["flushing"] = @ - joined, ![outcome] = @ + joined]
          /\ unsaved' = (unsaved /\ outcome = "failed")
    BY <1>7 DEF CheckpointSettles
  <2>2. UNCHANGED <<attempt, at, halted, needsCheckpoint, replayable, goal>>
    BY <1>7 DEF CheckpointSettles
  <2>3. CASE outcome = "flushed"
    <3>1. ~unsaved'
      BY <2>1, <2>3
    <3>2. Checkpointed'
      BY <3>1 DEF Checkpointed
    <3>3. Halting'
      BY <1>1, <2>2, KeepsHalting
    <3>4. QED
      BY <2>2, <3>2, <3>3 DEF ReservedWhenDue, Reserves
  <2>4. CASE outcome = "failed"
    <3>1. runs'["failed"] > 0 /\ unsaved' = unsaved
      BY <1>0, <2>1, <2>4 DEF Typed, DriverTypes
    <3>2. QED
      BY <1>2, <2>2, <3>1
  <2>5. QED
    BY <2>3, <2>4
<1>8. CASE FlushReturns
  <2>1. CASE runs["failed"] > 0 /\ goal' = Disarmed(goal)
             /\ UNCHANGED <<attempt, needsCheckpoint, unsaved, at>>
    <3>1. ~(replayable' /\ Armed(goal)')
      BY <1>8, <2>1, Disarming DEF FlushReturns, Armed
    <3>2. QED
      BY <1>2, <1>8, <2>1, <3>1 DEF FlushReturns, Armed
  <2>2. CASE runs["flushed"] > 0
    <3>1. /\ Without("flushed") \in [Stages -> Nat]
          /\ Without("flushed")["flushing"] = runs["flushing"]
          /\ Without("flushed")["failed"] = runs["failed"]
      BY <1>0, <2>2, StagesLeft
    <3>2. CASE runs' = Placed(Without("flushed"), "looping")
               /\ UNCHANGED <<goal, attempt, needsCheckpoint, unsaved, at>>
      <4>1. runs'["flushing"] = runs["flushing"] /\ runs'["failed"] = runs["failed"]
        BY <1>0, <3>1, <3>2 DEF Placed
      <4>2. QED
        BY <1>2, <1>8, <3>2, <4>1 DEF FlushReturns
    <3>3. CASE ReadyAfterCheckpoint /\ Proceed(Without("flushed"), requested, held)
      BY <1>8, <3>1, <3>3, ProceedRests DEF FlushReturns
    <3>4. QED
      BY <1>8, <2>1, <3>2, <3>3 DEF FlushReturns
  <2>3. QED
    BY <1>8, <2>1, <2>2 DEF FlushReturns
<1>9. QED
  BY <1>4, <1>5, <1>6, <1>7, <1>8 DEF Driver

LEMMA PeopleRest ==
  ASSUME Typed, Checkpointed, Halting, People
  PROVE  Checkpointed' /\ Halting'
<1> USE DEF flags, saving, counts, goalVars, agentVars, history
<1>0. attempt \in AttemptType /\ (at # "off" <=> phase = "running")
  BY DEF Typed, AttemptTypes, AgentTypes
<1>1. CASE Mutate
  BY <1>1 DEF Mutate, Checkpointed, Halting
<1>2. CASE ~Mutate
  <2>1. UNCHANGED <<goalVars, needsCheckpoint, saving>>
    BY <1>2 DEF People, SendPrompt, Withdraw, Cancel, StartJob
  <2>2. Checkpointed'
    BY <2>1 DEF Checkpointed, Armed
  <2>3. halted' = "aborted" => halted = "aborted"
    BY <1>2 DEF People, SendPrompt, Withdraw, Cancel, StartJob
  <2>4. at = "closed" /\ attempt.cancelled => at' = "closed" /\ attempt'.cancelled
    BY <1>0, <1>2 DEF People, SendPrompt, Wake, Withdraw, Cancel, Discarded, StartJob, AttemptType
  <2>5. QED
    BY <2>1, <2>2, <2>3, <2>4 DEF Halting, Armed
<1>3. QED
  BY <1>1, <1>2

Rests == Checkpointed /\ Halting

LEMMA RestsStep ==
  ASSUME Typed, Ceiling, Rests, [Next]_vars
  PROVE  Rests' /\ ReservedWhenDue
<1>1. Rests'
  <2>1. CASE UNCHANGED vars
    BY <2>1 DEF vars, goalVars, flags, saving, agentVars, history, Rests, Checkpointed, Halting, Armed
  <2>2. QED
    BY <2>1, AgentRests, DriverRests, PeopleRest DEF Next, Rests
<1>2. ReservedWhenDue
  <2>1. CASE AttemptHeld
    BY <2>1 DEF AttemptHeld, ReservedWhenDue, Reserves, NoAttempt
  <2>2. CASE Driver
    BY <2>2, DriverRests DEF Rests
  <2>3. QED
    BY <2>1, <2>2, StepHolds
<1>3. QED
  BY <1>1, <1>2

(* No round is reserved while a turn was aborted and nobody has changed    *)
(* the goal since, and none ahead of a goal change that is not durable     *)
(* unless another run still awaits or handles the checkpoint of it         *)
(* (goal-round-driver, the listeners on the agent's status and turns, and  *)
(* drive): whatever the caps, the runs that overlap, and the number of     *)
(* prompts, tasks and cancels.                                             *)
THEOREM RoundsAreDue == Spec => RoundsReservedWhenDue
<1> DEFINE Inv == Typed /\ Ceiling /\ Rests
<1>1. Init => Inv
  BY TypesInit DEF Init, Ceiling, NoAttempt, Nothing, Round, IsRound, Rests, Checkpointed, Halting
<1>2. Inv /\ [Next]_vars => Inv' /\ ReservedWhenDue
  BY TypesStep, CeilingStep, RestsStep
<1>3. QED
  BY <1>1, <1>2, PTL DEF Spec, RoundsReservedWhenDue

=============================================================================
