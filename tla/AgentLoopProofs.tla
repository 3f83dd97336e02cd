--------------------------- MODULE AgentLoopProofs ---------------------------
(***************************************************************************)
(* AgentLoop proved for every number of messages, steps, cancels and       *)
(* maintenance tasks: the log's boundaries nest and are numbered as its    *)
(* trace expects, every turn is closed with a reason the ceiling cannot be *)
(* lost from, an aborted activity takes no more work, and every message    *)
(* accepted is waiting, claimed or discarded, once and in order.           *)
(***************************************************************************)
EXTENDS AgentLoop, SequenceTheorems, TLAPS

(* Every action, for proofs by one step per action. *)
Sends == \E tgt \in {"next-turn", "next-step"}, wakeup \in BOOLEAN : Send(tgt, wakeup)
Cancels == \E cause \in {"user", "disposed"}, keepInbox \in BOOLEAN : Cancel(cause, keepInbox)

LEMMA NextCases ==
  ASSUME [Next]_vars
  PROVE  \/ StartTurn \/ OpenBoundary \/ PreStepSettles \/ EnterStep \/ RunStep
         \/ RequestBuilt \/ StreamSettles \/ RecoverySettles \/ ToolsSettle
         \/ StepReturns \/ AfterStep \/ StoppingSettles \/ TurnReturns \/ Retire
         \/ Sends \/ AcceptContext \/ Cancels \/ Remove \/ StartMaintenance \/ WhenIdle
         \/ Wake \/ Converge \/ MaintenanceEnds \/ ActivityResolves \/ WaiterResumes
         \/ UNCHANGED vars
BY DEF Next, Driver, Caller, Sends, Cancels

-----------------------------------------------------------------------------
(* Sequence and range facts of the inbox's lists. *)
LEMMA RangeOfMessages ==
  ASSUME NEW list \in Seq(Messages)
  PROVE  Range(list) \subseteq Messages
BY DEF Range

LEMMA WithoutIsList ==
  ASSUME NEW list \in Seq(Messages), NEW i \in 1..Len(list)
  PROVE  Without(list, i) \in Seq(Messages)
<1>1. i \in Nat /\ Len(list) \in Nat /\ i <= Len(list) /\ 1 <= i
  OBVIOUS
<1>2. SubSeq(list, 1, i - 1) \in Seq(Messages)
  BY <1>1, SubSeqProperties
<1>3. SubSeq(list, i + 1, Len(list)) \in Seq(Messages)
  BY <1>1, SubSeqProperties
<1>4. QED
  BY <1>2, <1>3, ConcatProperties DEF Without

LEMMA EmptyIsList == <<>> \in Seq(Messages)
OBVIOUS

(* The three operators that touch the lists keep their types. *)
LEMMA ClaimTypes ==
  ASSUME InboxTypeOK, turn \in Nat, NEW tgt, Claim(tgt)
  PROVE  InboxTypeOK'
<1> USE DEF InboxTypeOK
<1>1. sent' \in 0..MaxMessages /\ discarded' \subseteq Messages /\ prompts' \subseteq Messages
  BY DEF Claim
<1>2. nextStep' \in Seq(Messages)
  BY EmptyIsList DEF Claim
<1>3. nextTurn' \in Seq(Messages)
  <2>1. nextTurn # <<>> => Tail(nextTurn) \in Seq(Messages)
    BY HeadTailProperties
  <2>2. nextTurn' = nextTurn \/ (nextTurn # <<>> /\ nextTurn' = Tail(nextTurn))
    BY DEF Claim
  <2>3. QED
    BY <2>1, <2>2
<1>4. claimTurn' \in [Messages -> Nat]
  BY DEF Claim
<1>5. QED
  BY <1>1, <1>2, <1>3, <1>4

LEMMA InsertTypes ==
  ASSUME InboxTypeOK, NEW tgt, Insert(tgt)
  PROVE  InboxTypeOK'
<1> USE DEF InboxTypeOK
<1>1. sent' \in 0..MaxMessages /\ sent + 1 \in Messages
  BY AgentLoopBounds DEF Insert, Messages
<1>2. CASE tgt = "next-turn"
  <2>1. Append(nextTurn, sent + 1) \in Seq(Messages)
    BY <1>1, AppendProperties
  <2>2. QED
    BY <1>1, <1>2, <2>1 DEF Insert
<1>3. CASE tgt = "next-step"
  <2>1. Append(nextStep, sent + 1) \in Seq(Messages)
    BY <1>1, AppendProperties
  <2>2. QED
    BY <1>1, <1>3, <2>1 DEF Insert
<1>4. QED
  BY <1>2, <1>3 DEF Insert

(* What waking an agent does to everything but the latch. *)
LEMMA WakeStartsOrLatches ==
  ASSUME NEW wakeAfterAbort, WakeDriver(wakeAfterAbort)
  PROVE  \/ phase = "idle" /\ StartDriver
         \/ phase # "idle" /\ UNCHANGED <<phase, aborted, turn, step, driverVars, activity>>
BY DEF WakeDriver

(* Each part of TypeOK is kept by every step. *)
LEMMA PhaseTypes ==
  ASSUME TypeOK, [Next]_vars
  PROVE  PhaseTypeOK'
<1> USE DEF TypeOK, PhaseTypeOK, vars, phaseVars
<1>1. CASE StartTurn BY <1>1 DEF StartTurn
<1>2. CASE EnterStep BY <1>2 DEF EnterStep
<1>3. CASE TurnReturns BY <1>3 DEF TurnReturns
<1>4. CASE Retire BY <1>4 DEF Retire
<1>5. CASE Cancels BY <1>5 DEF Cancels, Cancel
<1>6. CASE StartMaintenance BY <1>6 DEF StartMaintenance
<1>7. CASE Wake BY <1>7 DEF Wake, WakeDriver, StartDriver
<1>8. CASE Converge BY <1>8 DEF Converge, WakeDriver, StartDriver
<1>9. CASE MaintenanceEnds BY <1>9 DEF MaintenanceEnds, StartDriver
<1>10. CASE OpenBoundary \/ PreStepSettles \/ RunStep \/ RequestBuilt \/
             StreamSettles \/ RecoverySettles \/ ToolsSettle \/ StepReturns \/
             AfterStep \/ StoppingSettles \/ Sends \/ AcceptContext \/ Remove \/
             WhenIdle \/ ActivityResolves \/ WaiterResumes
  BY <1>10 DEF OpenBoundary, PreStepSettles, RunStep, RequestBuilt, StreamSettles,
     RecoverySettles, ToolsSettle, StepReturns, AfterStep, StoppingSettles, Sends,
     Send, AcceptContext, Remove, WhenIdle, ActivityResolves, WaiterResumes
<1>11. CASE UNCHANGED vars BY <1>11
<1>12. QED
  BY <1>1, <1>2, <1>3, <1>4, <1>5, <1>6, <1>7, <1>8, <1>9, <1>10, <1>11, NextCases

LEMMA DriverTypes ==
  ASSUME TypeOK, [Next]_vars
  PROVE  DriverTypeOK'
<1> USE DEF TypeOK, DriverTypeOK, InTurn, vars, driverVars, frameVars
<1>1. CASE StartTurn BY <1>1 DEF StartTurn
<1>2. CASE OpenBoundary BY <1>2 DEF OpenBoundary, FailTurn, EndTurn, ProposeStep
<1>3. CASE PreStepSettles BY <1>3 DEF PreStepSettles
<1>4. CASE EnterStep BY <1>4 DEF EnterStep, FailTurn, EndTurn
<1>5. CASE RunStep BY <1>5 DEF RunStep
<1>6. CASE RequestBuilt BY <1>6 DEF RequestBuilt
<1>7. CASE StreamSettles BY <1>7 DEF StreamSettles
<1>8. CASE RecoverySettles BY <1>8 DEF RecoverySettles
<1>9. CASE ToolsSettle BY <1>9 DEF ToolsSettle
<1>10. CASE StepReturns BY <1>10 DEF StepReturns
<1>11. CASE AfterStep BY <1>11 DEF AfterStep, FailTurn, EndTurn, ProposeStep
<1>12. CASE StoppingSettles BY <1>12 DEF StoppingSettles, FailTurn, EndTurn,
      ProposeStep
<1>13. CASE TurnReturns BY <1>13 DEF TurnReturns
<1>14. CASE Retire
  BY <1>14 DEF Retire, PhaseTypeOK
<1>15. CASE Sends BY <1>15 DEF Sends, Send
<1>16. CASE Wake BY <1>16, WakeStartsOrLatches DEF Wake, StartDriver
<1>17. CASE Converge BY <1>17, WakeStartsOrLatches DEF Converge, StartDriver
<1>18. CASE MaintenanceEnds BY <1>18 DEF MaintenanceEnds, StartDriver
<1>19. CASE Cancels \/ Remove \/ StartMaintenance \/ WhenIdle \/ AcceptContext \/
             ActivityResolves \/ WaiterResumes
  BY <1>19 DEF Cancels, Cancel, Remove, StartMaintenance, WhenIdle, AcceptContext,
     ActivityResolves, WaiterResumes
<1>20. CASE UNCHANGED vars BY <1>20
<1>21. QED
  BY <1>1, <1>2, <1>3, <1>4, <1>5, <1>6, <1>7, <1>8, <1>9, <1>10, <1>11, <1>12, <1>13,
     <1>14, <1>15, <1>16, <1>17, <1>18, <1>19, <1>20, NextCases

LEMMA InboxTypes ==
  ASSUME TypeOK, [Next]_vars
  PROVE  InboxTypeOK'
<1> USE DEF TypeOK, InboxTypeOK, vars, inboxVars
<1>1. CASE OpenBoundary
  <2>1. UNCHANGED inboxVars \/ Claim(target)
    BY <1>1 DEF OpenBoundary, ProposeStep
  <2>2. CASE UNCHANGED inboxVars
    BY <2>2 DEF inboxVars
  <2>3. CASE Claim(target)
    BY <2>3, ClaimTypes DEF CountTypeOK
  <2>4. QED
    BY <2>1, <2>2, <2>3
<1>2. CASE AfterStep
  <2>1. UNCHANGED inboxVars \/ Claim("next-step")
    BY <1>2 DEF AfterStep, ProposeStep
  <2>2. CASE UNCHANGED inboxVars
    BY <2>2 DEF inboxVars
  <2>3. CASE Claim("next-step")
    BY <2>3, ClaimTypes DEF CountTypeOK
  <2>4. QED
    BY <2>1, <2>2, <2>3
<1>3. CASE StoppingSettles
  <2>1. UNCHANGED inboxVars \/ Claim("next-step")
    BY <1>3 DEF StoppingSettles, ProposeStep
  <2>2. CASE UNCHANGED inboxVars
    BY <2>2 DEF inboxVars
  <2>3. CASE Claim("next-step")
    BY <2>3, ClaimTypes DEF CountTypeOK
  <2>4. QED
    BY <2>1, <2>2, <2>3
<1>4. CASE Sends
  <2>1. \E tgt \in {"next-turn", "next-step"} : Insert(tgt)
    BY <1>4 DEF Sends, Send
  <2>2. QED
    BY <2>1, InsertTypes
<1>5. CASE AcceptContext
  BY <1>5, InsertTypes DEF AcceptContext
<1>6. CASE Cancels
  <2>1. UNCHANGED <<sent, claimTurn, prompts>>
    BY <1>6 DEF Cancels, Cancel
  <2>2. \/ UNCHANGED <<nextTurn, nextStep, discarded>>
        \/ /\ nextTurn' = <<>> /\ nextStep' = <<>>
           /\ discarded' = discarded \cup Range(nextTurn) \cup Range(nextStep)
    BY <1>6 DEF Cancels, Cancel
  <2>3. Range(nextTurn) \subseteq Messages /\ Range(nextStep) \subseteq Messages
    BY RangeOfMessages
  <2>4. QED
    BY <2>1, <2>2, <2>3, EmptyIsList
<1>7. CASE Remove
  <2>1. UNCHANGED <<sent, claimTurn, prompts>>
    BY <1>7 DEF Remove
  <2>2. ASSUME NEW i \in 1..Len(nextTurn),
               nextTurn' = Without(nextTurn, i),
               discarded' = discarded \cup {nextTurn[i]}, UNCHANGED nextStep
        PROVE  InboxTypeOK'
    <3>1. nextTurn[i] \in Messages
      BY ElementOfSeq
    <3>2. QED
      BY <2>1, <2>2, <3>1, WithoutIsList
  <2>3. ASSUME NEW i \in 1..Len(nextStep),
               nextStep' = Without(nextStep, i),
               discarded' = discarded \cup {nextStep[i]}, UNCHANGED nextTurn
        PROVE  InboxTypeOK'
    <3>1. nextStep[i] \in Messages
      BY ElementOfSeq
    <3>2. QED
      BY <2>1, <2>3, <3>1, WithoutIsList
  <2>4. QED
    BY <1>7, <2>2, <2>3 DEF Remove
<1>8. CASE StartTurn \/ PreStepSettles \/ EnterStep \/ RunStep \/ RequestBuilt \/
             StreamSettles \/ RecoverySettles \/ ToolsSettle \/ StepReturns \/
             TurnReturns \/ Retire \/ StartMaintenance \/ WhenIdle \/ Wake \/
             Converge \/ MaintenanceEnds \/ ActivityResolves \/ WaiterResumes
  BY <1>8 DEF StartTurn, PreStepSettles, EnterStep, RunStep, RequestBuilt,
     StreamSettles, RecoverySettles, ToolsSettle, StepReturns, TurnReturns, Retire,
     StartMaintenance, WhenIdle, Wake, WakeDriver, StartDriver, Converge,
     MaintenanceEnds, ActivityResolves, WaiterResumes
<1>9. CASE UNCHANGED vars BY <1>9
<1>10. QED
  BY <1>1, <1>2, <1>3, <1>4, <1>5, <1>6, <1>7, <1>8, <1>9, NextCases

LEMMA CountTypes ==
  ASSUME TypeOK, [Next]_vars
  PROVE  CountTypeOK'
<1> USE DEF TypeOK, CountTypeOK, vars, phaseVars, idleVars, logVars, boundVars
<1>1. CASE StartTurn BY <1>1 DEF StartTurn
<1>2. CASE OpenBoundary BY <1>2 DEF OpenBoundary, FailTurn, EndTurn, TurnEndEvent,
      ProposeStep
<1>3. CASE EnterStep BY <1>3 DEF EnterStep, FailTurn, EndTurn, TurnEndEvent
<1>4. CASE StepReturns BY <1>4 DEF StepReturns
<1>5. CASE AfterStep BY <1>5 DEF AfterStep, FailTurn, EndTurn, TurnEndEvent,
      ProposeStep
<1>6. CASE StoppingSettles BY <1>6 DEF StoppingSettles, FailTurn, EndTurn,
      TurnEndEvent, ProposeStep
<1>7. CASE TurnReturns BY <1>7 DEF TurnReturns
<1>8. CASE Retire BY <1>8 DEF Retire
<1>9. CASE Cancels BY <1>9 DEF Cancels, Cancel
<1>10. CASE StartMaintenance BY <1>10 DEF StartMaintenance
<1>11. CASE WhenIdle BY <1>11 DEF WhenIdle
<1>12. CASE Wake
  <2>1. UNCHANGED <<exited, watching, logVars, boundVars>>
    BY <1>12 DEF Wake
  <2>2. \/ turn' = turn /\ step' = 0 /\ activity' = activity + 1
        \/ UNCHANGED <<turn, step, activity>>
    BY <1>12, WakeStartsOrLatches DEF Wake, StartDriver
  <2>3. QED
    BY <2>1, <2>2
<1>13. CASE Converge
  <2>1. UNCHANGED <<exited, watching, logVars, boundVars>>
    BY <1>13 DEF Converge
  <2>2. \/ turn' = turn /\ step' = 0 /\ activity' = activity + 1
        \/ UNCHANGED <<turn, step, activity>>
    BY <1>13, WakeStartsOrLatches DEF Converge, StartDriver
  <2>3. QED
    BY <2>1, <2>2
<1>14. CASE MaintenanceEnds BY <1>14 DEF MaintenanceEnds, StartDriver
<1>15. CASE ActivityResolves BY <1>15 DEF ActivityResolves
<1>16. CASE WaiterResumes BY <1>16 DEF WaiterResumes
<1>17. CASE PreStepSettles \/ RunStep \/ RequestBuilt \/ StreamSettles \/
             RecoverySettles \/ ToolsSettle \/ Sends \/ AcceptContext \/ Remove
  BY <1>17 DEF PreStepSettles, RunStep, RequestBuilt, StreamSettles, RecoverySettles,
     ToolsSettle, Sends, Send, AcceptContext, Remove
<1>18. CASE UNCHANGED vars BY <1>18
<1>19. QED
  BY <1>1, <1>2, <1>3, <1>4, <1>5, <1>6, <1>7, <1>8, <1>9, <1>10, <1>11, <1>12, <1>13,
     <1>14, <1>15, <1>16, <1>17, <1>18, NextCases

LEMMA LogTypes ==
  ASSUME TypeOK, [Next]_vars
  PROVE  LogTypeOK'
<1> USE DEF TypeOK, DriverTypeOK, LogTypeOK, vars, logVars, turnHist
<1>1. CASE StartTurn BY <1>1 DEF StartTurn
<1>2. CASE OpenBoundary BY <1>2 DEF OpenBoundary, FailTurn, EndTurn, TurnEndEvent,
      ProposeStep
<1>3. CASE EnterStep BY <1>3 DEF EnterStep, FailTurn, EndTurn, TurnEndEvent
<1>4. CASE StepReturns BY <1>4 DEF StepReturns
<1>5. CASE AfterStep BY <1>5 DEF AfterStep, FailTurn, EndTurn, TurnEndEvent,
      ProposeStep
<1>6. CASE StoppingSettles BY <1>6 DEF StoppingSettles, FailTurn, EndTurn,
      TurnEndEvent, ProposeStep
<1>7. CASE PreStepSettles \/ RunStep \/ RequestBuilt \/ StreamSettles \/
             RecoverySettles \/ ToolsSettle \/ TurnReturns \/ Retire \/ Sends \/
             AcceptContext \/ Cancels \/ Remove \/ StartMaintenance \/ WhenIdle \/
             Wake \/ Converge \/ MaintenanceEnds \/ ActivityResolves \/
             WaiterResumes
  BY <1>7 DEF PreStepSettles, RunStep, RequestBuilt, StreamSettles, RecoverySettles,
     ToolsSettle, TurnReturns, Retire, Sends, Send, AcceptContext, Cancels, Cancel,
     Remove, StartMaintenance, WhenIdle, Wake, WakeDriver, StartDriver, Converge,
     MaintenanceEnds, ActivityResolves, WaiterResumes
<1>8. CASE UNCHANGED vars BY <1>8
<1>9. QED
  BY <1>1, <1>2, <1>3, <1>4, <1>5, <1>6, <1>7, <1>8, NextCases

LEMMA InitTypes == Init => TypeOK
<1>1. ASSUME Init PROVE InboxTypeOK
  BY <1>1, AgentLoopBounds, EmptyIsList DEF Init, InboxTypeOK
<1>2. ASSUME Init PROVE CountTypeOK /\ LogTypeOK
  BY <1>2 DEF Init, CountTypeOK, LogTypeOK
<1>3. ASSUME Init PROVE DriverTypeOK /\ PhaseTypeOK
  BY <1>3 DEF Init, DriverTypeOK, PhaseTypeOK
<1>4. QED
  BY <1>1, <1>2, <1>3 DEF TypeOK

(* Every state of the driver, its inbox and its log is well formed: in     *)
(* particular a turn's ending is always one of the reasons turn/end knows. *)
THEOREM AgentLoopTypes == Spec => []TypeOK
<1>1. TypeOK /\ [Next]_vars => TypeOK'
  BY PhaseTypes, DriverTypes, InboxTypes, CountTypes, LogTypes DEF TypeOK
<1>2. QED
  BY InitTypes, <1>1, PTL DEF Spec

-----------------------------------------------------------------------------
(* The driver's step counter is fresh wherever a turn may start: what lets *)
(* the log's step numbers follow the phase's, turn after turn.             *)
FreshSteps ==
  /\ at = "starting" \/ (at = "ended" /\ result = "again") => step = 0
  /\ at = "ending" => result # "again"
  /\ at \in InTurn => turn > 0
  /\ activity > 0
Boundaries == TypeOK /\ LogNesting /\ FreshSteps

LEMMA BoundariesStep ==
  ASSUME Boundaries, [Next]_vars
  PROVE  (LogNesting /\ FreshSteps)'
<1> USE DEF Boundaries, TypeOK, PhaseTypeOK, CountTypeOK, LogNesting, FreshSteps,
            InTurn, InStep, vars, phaseVars, driverVars, logVars, idleVars
<1>1. CASE StartTurn BY <1>1 DEF StartTurn
<1>2. CASE OpenBoundary BY <1>2 DEF OpenBoundary, FailTurn, EndTurn, TurnEndEvent,
      ProposeStep
<1>3. CASE PreStepSettles BY <1>3 DEF PreStepSettles
<1>4. CASE EnterStep BY <1>4 DEF EnterStep, FailTurn, EndTurn, TurnEndEvent
<1>5. CASE RunStep BY <1>5 DEF RunStep
<1>6. CASE RequestBuilt BY <1>6 DEF RequestBuilt
<1>7. CASE StreamSettles BY <1>7 DEF StreamSettles
<1>8. CASE RecoverySettles BY <1>8 DEF RecoverySettles
<1>9. CASE ToolsSettle BY <1>9 DEF ToolsSettle
<1>10. CASE StepReturns BY <1>10 DEF StepReturns
<1>11. CASE AfterStep BY <1>11 DEF AfterStep, FailTurn, EndTurn, TurnEndEvent,
      ProposeStep
<1>12. CASE StoppingSettles BY <1>12 DEF StoppingSettles, FailTurn, EndTurn,
      TurnEndEvent, ProposeStep
<1>13. CASE TurnReturns BY <1>13 DEF TurnReturns
<1>14. CASE Retire BY <1>14 DEF Retire
<1>15. CASE StartMaintenance BY <1>15 DEF StartMaintenance
<1>16. CASE Wake
  <2>1. UNCHANGED logVars
    BY <1>16 DEF Wake
  <2>2. CASE phase = "idle" /\ StartDriver
    BY <2>1, <2>2 DEF StartDriver
  <2>3. CASE UNCHANGED <<phase, turn, step, driverVars, activity>>
    BY <2>1, <2>3
  <2>4. QED
    BY <1>16, <2>2, <2>3, WakeStartsOrLatches DEF Wake
<1>17. CASE Converge
  <2>1. UNCHANGED logVars
    BY <1>17 DEF Converge
  <2>2. CASE phase = "idle" /\ StartDriver
    BY <2>1, <2>2 DEF StartDriver
  <2>3. CASE UNCHANGED <<phase, turn, step, driverVars, activity>>
    BY <2>1, <2>3
  <2>4. QED
    BY <1>17, <2>2, <2>3, WakeStartsOrLatches DEF Converge
<1>18. CASE MaintenanceEnds BY <1>18 DEF MaintenanceEnds, StartDriver
<1>19. CASE Sends \/ AcceptContext \/ Cancels \/ Remove \/ WhenIdle \/
             ActivityResolves \/ WaiterResumes
  BY <1>19 DEF Sends, Send, AcceptContext, Cancels, Cancel, Remove, WhenIdle,
     ActivityResolves, WaiterResumes
<1>20. CASE UNCHANGED vars BY <1>20
<1>21. QED
  BY <1>1, <1>2, <1>3, <1>4, <1>5, <1>6, <1>7, <1>8, <1>9, <1>10, <1>11, <1>12, <1>13,
     <1>14, <1>15, <1>16, <1>17, <1>18, <1>19, <1>20, NextCases

LEMMA BoundariesInvariant == Spec => []Boundaries
<1>1. Init => Boundaries
  BY InitTypes DEF Init, Boundaries, LogNesting, FreshSteps, InTurn, InStep
<1>2. Boundaries /\ [Next]_vars => Boundaries'
  <2>1. Boundaries /\ [Next]_vars => TypeOK'
    BY PhaseTypes, DriverTypes, InboxTypes, CountTypes, LogTypes DEF TypeOK, Boundaries
  <2>2. QED
    BY <2>1, BoundariesStep DEF Boundaries
<1>3. QED
  BY <1>1, <1>2, PTL DEF Spec

(* The open turn and step of the log are where the driver stands, and the  *)
(* next numbers are its own: no throw, abort or rejection leaves a         *)
(* boundary open or skips a number.                                        *)
THEOREM BoundariesNest == Spec => []LogNesting
<1>1. Boundaries => LogNesting
  BY DEF Boundaries
<1>2. QED
  BY BoundariesInvariant, <1>1, PTL

LEMMA TracedStep ==
  ASSUME Boundaries, [Next]_vars
  PROVE  Traced
<1> USE DEF Boundaries, TypeOK, CountTypeOK, LogNesting, FreshSteps, InTurn, InStep,
            Traced, vars, logVars
<1>1. CASE StartTurn BY <1>1 DEF StartTurn
<1>2. CASE OpenBoundary BY <1>2 DEF OpenBoundary, FailTurn, EndTurn, TurnEndEvent,
      ProposeStep
<1>3. CASE EnterStep BY <1>3 DEF EnterStep, FailTurn, EndTurn, TurnEndEvent
<1>4. CASE StepReturns BY <1>4 DEF StepReturns
<1>5. CASE AfterStep BY <1>5 DEF AfterStep, FailTurn, EndTurn, TurnEndEvent,
      ProposeStep
<1>6. CASE StoppingSettles BY <1>6 DEF StoppingSettles, FailTurn, EndTurn,
      TurnEndEvent, ProposeStep
<1>7. CASE PreStepSettles \/ RunStep \/ RequestBuilt \/ StreamSettles \/
             RecoverySettles \/ ToolsSettle \/ TurnReturns \/ Retire \/ Sends \/
             AcceptContext \/ Cancels \/ Remove \/ StartMaintenance \/ WhenIdle \/
             Wake \/ Converge \/ MaintenanceEnds \/ ActivityResolves \/
             WaiterResumes
  BY <1>7 DEF PreStepSettles, RunStep, RequestBuilt, StreamSettles, RecoverySettles,
     ToolsSettle, TurnReturns, Retire, Sends, Send, AcceptContext, Cancels, Cancel,
     Remove, StartMaintenance, WhenIdle, Wake, WakeDriver, Converge,
     MaintenanceEnds, ActivityResolves, WaiterResumes
<1>8. CASE UNCHANGED vars BY <1>8
<1>9. QED
  BY <1>1, <1>2, <1>3, <1>4, <1>5, <1>6, <1>7, <1>8, NextCases

(* The driver writes only boundary events the session's invariant          *)
(* companion accepts: one turn at a time, its steps inside it, numbered    *)
(* without a gap.                                                          *)
THEOREM DriverWritesGrammar == Spec => LogGrammar
<1>1. Boundaries /\ [Next]_vars => [Traced]_vars
  BY TracedStep
<1>2. QED
  BY BoundariesInvariant, <1>1, PTL DEF Spec, LogGrammar

(* What the ending of a turn rests on: it is known before the stopping     *)
(* listeners are asked, and follows the ceiling from the step that hit it. *)
Endings ==
  /\ at = "stopping" => turnEnds # "none"
  /\ at \notin InTurn /\ turn > 0 => ended # "none"
  /\ ceiling /\ at \in InTurn => turnEnds = "max-tokens"
  /\ ceiling /\ at \notin InTurn => ended # "completed"

LEMMA EndingsStep ==
  ASSUME Boundaries, Endings, [Next]_vars
  PROVE  Endings'
<1> USE DEF Boundaries, LogNesting, TypeOK, CountTypeOK, LogTypeOK, DriverTypeOK,
            Endings, InTurn, vars, phaseVars, driverVars, logVars, turnHist
<1>1. CASE StartTurn BY <1>1 DEF StartTurn
<1>2. CASE OpenBoundary BY <1>2 DEF OpenBoundary, FailTurn, EndTurn, TurnEndEvent,
      ProposeStep
<1>3. CASE PreStepSettles BY <1>3 DEF PreStepSettles
<1>4. CASE EnterStep BY <1>4 DEF EnterStep, FailTurn, EndTurn, TurnEndEvent
<1>5. CASE RunStep BY <1>5 DEF RunStep
<1>6. CASE RequestBuilt BY <1>6 DEF RequestBuilt
<1>7. CASE StreamSettles BY <1>7 DEF StreamSettles
<1>8. CASE RecoverySettles BY <1>8 DEF RecoverySettles
<1>9. CASE ToolsSettle BY <1>9 DEF ToolsSettle
<1>10. CASE StepReturns BY <1>10 DEF StepReturns
<1>11. CASE AfterStep BY <1>11 DEF AfterStep, FailTurn, EndTurn, TurnEndEvent,
      ProposeStep
<1>12. CASE StoppingSettles BY <1>12 DEF StoppingSettles, FailTurn, EndTurn,
      TurnEndEvent, ProposeStep
<1>13. CASE TurnReturns BY <1>13 DEF TurnReturns
<1>14. CASE Retire BY <1>14 DEF Retire
<1>15. CASE StartMaintenance BY <1>15 DEF StartMaintenance
<1>16. CASE Wake BY <1>16, WakeStartsOrLatches DEF Wake, StartDriver
<1>17. CASE Converge BY <1>17, WakeStartsOrLatches DEF Converge, StartDriver
<1>18. CASE MaintenanceEnds BY <1>18 DEF MaintenanceEnds, StartDriver
<1>19. CASE Sends \/ AcceptContext \/ Cancels \/ Remove \/ WhenIdle \/
             ActivityResolves \/ WaiterResumes
  BY <1>19 DEF Sends, Send, AcceptContext, Cancels, Cancel, Remove, WhenIdle,
     ActivityResolves, WaiterResumes
<1>20. CASE UNCHANGED vars BY <1>20
<1>21. QED
  BY <1>1, <1>2, <1>3, <1>4, <1>5, <1>6, <1>7, <1>8, <1>9, <1>10, <1>11, <1>12, <1>13,
     <1>14, <1>15, <1>16, <1>17, <1>18, <1>19, <1>20, NextCases

LEMMA EndingsInvariant == Spec => []Endings
<1>1. Init => Endings
  BY DEF Init, Endings, InTurn
<1>2. Boundaries /\ Endings /\ [Next]_vars => Endings'
  BY EndingsStep
<1>3. QED
  BY BoundariesInvariant, <1>1, <1>2, PTL DEF Spec

(* Every way out of a turn has assigned the reason its turn/end carries,   *)
(* and no turn that hit the token ceiling is reported completed.           *)
THEOREM EndingsAreClassified == Spec => []EndingClassified
<1>1. Endings => EndingClassified
  BY DEF Endings, EndingClassified, InTurn
<1>2. QED
  BY EndingsInvariant, <1>1, PTL

(* However a turn is left, the log has closed what it opened, with the     *)
(* ending that befits.                                                     *)
THEOREM BoundariesAreClosed == Spec => []BoundariesClosed
<1>1. LogNesting /\ EndingClassified => BoundariesClosed
  BY DEF BoundariesClosed
<1>2. QED
  BY BoundariesNest, EndingsAreClassified, <1>1, PTL

LEMMA AbortedStep ==
  ASSUME [Next]_vars
  PROVE  NoWorkOnceAborted
<1> USE DEF NoWorkOnceAborted, vars, phaseVars, driverVars, inboxVars, logVars
<1>1. CASE StartTurn BY <1>1 DEF StartTurn
<1>2. CASE OpenBoundary BY <1>2 DEF OpenBoundary, FailTurn, EndTurn, TurnEndEvent,
      ProposeStep
<1>3. CASE EnterStep BY <1>3 DEF EnterStep, FailTurn, EndTurn, TurnEndEvent
<1>4. CASE RequestBuilt BY <1>4 DEF RequestBuilt
<1>5. CASE StreamSettles BY <1>5 DEF StreamSettles
<1>6. CASE AfterStep BY <1>6 DEF AfterStep, FailTurn, EndTurn, TurnEndEvent,
      ProposeStep
<1>7. CASE StoppingSettles BY <1>7 DEF StoppingSettles, FailTurn, EndTurn,
      TurnEndEvent, ProposeStep
<1>8. CASE Wake BY <1>8 DEF Wake, WakeDriver, StartDriver
<1>9. CASE Converge BY <1>9 DEF Converge, WakeDriver, StartDriver
<1>10. CASE MaintenanceEnds BY <1>10 DEF MaintenanceEnds, StartDriver
<1>11. CASE PreStepSettles \/ RunStep \/ RecoverySettles \/ ToolsSettle \/
             StepReturns \/ TurnReturns \/ Retire \/ Sends \/ AcceptContext \/
             Cancels \/ Remove \/ StartMaintenance \/ WhenIdle \/ ActivityResolves
             \/ WaiterResumes
  BY <1>11 DEF PreStepSettles, RunStep, RecoverySettles, ToolsSettle, StepReturns,
     TurnReturns, Retire, Sends, Send, Insert, AcceptContext, Cancels, Cancel,
     Remove, StartMaintenance, WhenIdle, ActivityResolves, WaiterResumes
<1>12. CASE UNCHANGED vars BY <1>12
<1>13. QED
  BY <1>1, <1>2, <1>3, <1>4, <1>5, <1>6, <1>7, <1>8, <1>9, <1>10, <1>11, <1>12,
     NextCases

(* An aborted activity claims no input, opens no turn or step, and sends   *)
(* no request to the model.                                                *)
THEOREM AbortStops == Spec => AbortStopsWork
<1>1. [Next]_vars => [NoWorkOnceAborted]_vars
  BY AbortedStep
<1>2. QED
  BY <1>1, PTL DEF Spec, AbortStopsWork

(* A whenIdle call resolves only when no driver, maintenance task or       *)
(* latched wake is left, replacement work included.                        *)
THEOREM WhenIdleQuiescence == Spec => WhenIdleIsQuiescent
<1>1. ASSUME Boundaries, Next PROVE ResolvesQuiescent
  <2>1. CASE WaiterResumes
    BY <1>1, <2>1 DEF WaiterResumes, Resolved, EventLoop, ResolvesQuiescent,
       Boundaries, LogNesting, FreshSteps
  <2>2. CASE WhenIdle
    BY <2>2 DEF WhenIdle, ResolvesQuiescent
  <2>3. CASE ~WaiterResumes /\ ~WhenIdle
    <3>1. watching' = watching
      BY <1>1, <2>3 DEF Next, Driver, Caller, idleVars, StartTurn, OpenBoundary,
         PreStepSettles, EnterStep, RunStep, RequestBuilt, StreamSettles,
         RecoverySettles, ToolsSettle, StepReturns, AfterStep, StoppingSettles,
         TurnReturns, Retire, Send, AcceptContext, Cancel, Remove, StartMaintenance,
         Wake, Converge, MaintenanceEnds, ActivityResolves
    <3>2. QED
      BY <3>1 DEF ResolvesQuiescent
  <2>4. QED
    BY <2>1, <2>2, <2>3
<1>2. Boundaries /\ [Next]_vars => [ResolvesQuiescent]_vars
  BY <1>1
<1>3. QED
  BY BoundariesInvariant, <1>2, PTL DEF Spec, WhenIdleIsQuiescent

-----------------------------------------------------------------------------
(* The inbox: each accepted message is waiting, claimed or discarded, once *)
(* and in order, and each prompt is the only prompt of a turn of its own.  *)

(* What appending, removing and taking the head do to an increasing list.  *)
LEMMA MessagesAreNumbers == \A m \in Messages : m \in Nat /\ m > 0
BY AgentLoopBounds DEF Messages

LEMMA AppendOrdered ==
  ASSUME NEW list \in Seq(Messages), NEW m \in Messages, Increasing(list),
         \A k \in Range(list) : k < m
  PROVE  /\ Increasing(Append(list, m))
         /\ Range(Append(list, m)) = Range(list) \cup {m}
<1> DEFINE longer == Append(list, m)
<1>1. Len(list) \in Nat /\ Len(longer) = Len(list) + 1
  BY AppendProperties
<1>2. \A i \in 1..Len(list) : longer[i] = list[i]
  BY AppendProperties
<1>3. longer[Len(list) + 1] = m
  BY AppendProperties
<1>4. \A i \in 1..Len(list) : list[i] \in Range(list)
  BY DEF Range
<1>5. DOMAIN list = 1..Len(list) /\ DOMAIN longer = 1..(Len(list) + 1)
  BY <1>1, LenProperties, AppendProperties
<1> HIDE DEF longer
<1>6. Increasing(longer)
  <2> SUFFICES ASSUME NEW i \in 1..Len(longer), NEW j \in 1..Len(longer), i < j
               PROVE  longer[i] < longer[j]
    BY DEF Increasing
  <2>1. CASE j = Len(list) + 1
    <3>1. i \in 1..Len(list)
      BY <1>1, <2>1
    <3>2. QED
      BY <3>1, <2>1, <1>2, <1>3, <1>4
  <2>2. CASE j # Len(list) + 1
    <3>1. i \in 1..Len(list) /\ j \in 1..Len(list)
      BY <1>1, <2>2
    <3>2. QED
      BY <3>1, <1>2 DEF Increasing
  <2>3. QED
    BY <2>1, <2>2
<1>7. Range(longer) = Range(list) \cup {m}
  <2>1. ASSUME NEW k \in Range(longer) PROVE k \in Range(list) \cup {m}
    <3>1. PICK i \in 1..(Len(list) + 1) : k = longer[i]
      BY <1>5 DEF Range
    <3>2. CASE i = Len(list) + 1
      BY <3>1, <3>2, <1>3
    <3>3. CASE i # Len(list) + 1
      <4>1. i \in 1..Len(list)
        BY <1>1, <3>3
      <4>2. QED
        BY <4>1, <3>1, <1>2, <1>4
    <3>4. QED
      BY <3>2, <3>3
  <2>2. ASSUME NEW k \in Range(list) PROVE k \in Range(longer)
    <3>1. PICK i \in 1..Len(list) : k = list[i]
      BY <1>5 DEF Range
    <3>2. i \in DOMAIN longer /\ longer[i] = k
      BY <3>1, <1>1, <1>2, <1>5
    <3>3. QED
      BY <3>2 DEF Range
  <2>3. m \in Range(longer)
    <3>1. Len(list) + 1 \in DOMAIN longer
      BY <1>1, <1>5
    <3>2. QED
      BY <3>1, <1>3 DEF Range
  <2>4. QED
    BY <2>1, <2>2, <2>3
<1>8. QED
  BY <1>6, <1>7 DEF longer

LEMMA WithoutOrdered ==
  ASSUME NEW list \in Seq(Messages), NEW i \in 1..Len(list), Increasing(list)
  PROVE  /\ Increasing(Without(list, i))
         /\ Range(Without(list, i)) = Range(list) \ {list[i]}
<1> DEFINE front == SubSeq(list, 1, i - 1)
           back  == SubSeq(list, i + 1, Len(list))
           rest  == front \o back
<1>1. Len(list) \in Nat /\ i \in Nat /\ 1 <= i /\ i <= Len(list)
  OBVIOUS
<1>2. /\ front \in Seq(Messages) /\ Len(front) = i - 1
      /\ \A j \in 1..(i - 1) : front[j] = list[j]
  BY <1>1, SubSeqProperties
<1>3. /\ back \in Seq(Messages) /\ Len(back) = Len(list) - i
      /\ \A j \in 1..(Len(list) - i) : back[j] = list[i + j]
  BY <1>1, SubSeqProperties
<1> HIDE DEF front, back
<1>4. /\ rest \in Seq(Messages) /\ Len(rest) = Len(list) - 1
      /\ \A j \in 1..(Len(list) - 1) :
           rest[j] = IF j < i THEN list[j] ELSE list[j + 1]
  <2>1. rest \in Seq(Messages) /\ Len(rest) = Len(list) - 1
    <3>1. rest \in Seq(Messages) /\ Len(rest) = Len(front) + Len(back)
      BY <1>2, <1>3, ConcatProperties
    <3>2. QED
      BY <1>1, <1>2, <1>3, <3>1
  <2>2. ASSUME NEW j \in 1..(Len(list) - 1)
        PROVE  rest[j] = IF j < i THEN list[j] ELSE list[j + 1]
    <3>1. rest[j] = IF j <= Len(front) THEN front[j] ELSE back[j - Len(front)]
      <4>1. j \in 1..(Len(front) + Len(back))
        BY <1>1, <1>2, <1>3
      <4>2. \A k \in 1..(Len(front) + Len(back)) :
              rest[k] = IF k <= Len(front) THEN front[k] ELSE back[k - Len(front)]
        BY <1>2, <1>3, ConcatProperties
      <4>3. QED
        BY <4>1, <4>2
    <3>2. CASE j < i
      BY <1>1, <1>2, <3>1, <3>2
    <3>3. CASE ~(j < i)
      <4>1. j - Len(front) \in 1..(Len(list) - i) /\ i + (j - Len(front)) = j + 1
        BY <1>1, <1>2, <3>3
      <4>2. back[j - Len(front)] = list[j + 1]
        BY <1>3, <4>1
      <4>3. QED
        BY <1>1, <1>2, <3>1, <3>3, <4>2
    <3>4. QED
      BY <3>2, <3>3
  <2>3. QED
    BY <2>1, <2>2
<1>5. Without(list, i) = rest
  BY DEF Without, front, back
<1> HIDE DEF rest
<1>6. Increasing(rest)
  <2> SUFFICES ASSUME NEW j \in 1..Len(rest), NEW k \in 1..Len(rest), j < k
               PROVE  rest[j] < rest[k]
    BY DEF Increasing
  <2>1. j \in 1..(Len(list) - 1) /\ k \in 1..(Len(list) - 1)
    BY <1>4
  <2>2. /\ j \in 1..Len(list) /\ j + 1 \in 1..Len(list)
        /\ k \in 1..Len(list) /\ k + 1 \in 1..Len(list)
    BY <1>1, <2>1
  <2>3. CASE k < i
    BY <1>1, <1>4, <2>1, <2>2, <2>3 DEF Increasing
  <2>4. CASE ~(k < i) /\ j < i
    BY <1>1, <1>4, <2>1, <2>2, <2>4 DEF Increasing
  <2>5. CASE ~(j < i)
    BY <1>1, <1>4, <2>1, <2>2, <2>5 DEF Increasing
  <2>6. QED
    BY <2>3, <2>4, <2>5
<1>7. Range(rest) = Range(list) \ {list[i]}
  <2>1. DOMAIN rest = 1..(Len(list) - 1) /\ DOMAIN list = 1..Len(list)
    BY <1>4, LenProperties
  <2>2. ASSUME NEW m \in Range(rest) PROVE m \in Range(list) \ {list[i]}
    <3>1. PICK j \in 1..(Len(list) - 1) : m = rest[j]
      BY <2>1 DEF Range
    <3>2. PICK k \in 1..Len(list) : k # i /\ m = list[k]
      <4>1. CASE j < i
        <5>1. j \in 1..Len(list) /\ j # i /\ m = list[j]
          BY <1>1, <1>4, <3>1, <4>1
        <5>2. QED
          BY <5>1
      <4>2. CASE ~(j < i)
        <5>1. j + 1 \in 1..Len(list) /\ j + 1 # i /\ m = list[j + 1]
          BY <1>1, <1>4, <3>1, <4>2
        <5>2. QED
          BY <5>1
      <4>3. QED
        BY <4>1, <4>2
    <3>3. list[k] \in Range(list)
      BY <2>1 DEF Range
    <3>4. list[k] \in Int /\ list[i] \in Int
      <4>1. list[k] \in Messages /\ list[i] \in Messages
        BY ElementOfSeq
      <4>2. QED
        BY <4>1, MessagesAreNumbers
    <3>5. list[k] # list[i]
      <4>1. k < i \/ i < k
        BY <1>1, <3>2
      <4>2. list[k] < list[i] \/ list[i] < list[k]
        BY <4>1 DEF Increasing
      <4>3. QED
        BY <3>4, <4>2
    <3>6. QED
      BY <3>2, <3>3, <3>5
  <2>3. ASSUME NEW m \in Range(list), m # list[i] PROVE m \in Range(rest)
    <3>1. PICK k \in 1..Len(list) : m = list[k]
      BY <2>1 DEF Range
    <3>2. k # i
      BY <2>3, <3>1
    <3>3. CASE k < i
      <4>1. k \in 1..(Len(list) - 1) /\ rest[k] = m
        BY <1>1, <1>4, <3>1, <3>3
      <4>2. QED
        BY <2>1, <4>1 DEF Range
    <3>4. CASE k > i
      <4>1. k - 1 \in 1..(Len(list) - 1) /\ ~(k - 1 < i) /\ (k - 1) + 1 = k
        BY <1>1, <3>4
      <4>2. rest[k - 1] = m
        BY <1>4, <3>1, <4>1
      <4>3. QED
        BY <2>1, <4>1, <4>2 DEF Range
    <3>5. QED
      BY <1>1, <3>2, <3>3, <3>4
  <2>4. QED
    BY <2>2, <2>3
<1>8. QED
  BY <1>5, <1>6, <1>7

LEMMA TailOrdered ==
  ASSUME NEW list \in Seq(Messages), list # <<>>, Increasing(list)
  PROVE  /\ Increasing(Tail(list))
         /\ Range(Tail(list)) = Range(list) \ {Head(list)}
         /\ Head(list) \in Range(list)
         /\ \A m \in Range(list) : Head(list) <= m
<1>1. Len(list) \in Nat /\ 1 \in 1..Len(list) /\ Head(list) = list[1]
  BY EmptySeq, HeadTailProperties
<1>2. DOMAIN list = 1..Len(list)
  BY LenProperties
<1>3. Tail(list) = Without(list, 1)
  <2> DEFINE front == SubSeq(list, 1, 0)
             back  == SubSeq(list, 2, Len(list))
  <2>1. front = <<>>
    BY <1>1, SubSeqProperties, EmptySeq
  <2>2. back \in Seq(Messages) /\ Tail(list) = back
    BY <1>1, SubSeqProperties, HeadTailProperties
  <2>3. Without(list, 1) = front \o back
    BY DEF Without
  <2> HIDE DEF front, back
  <2>4. QED
    BY <2>1, <2>2, <2>3, ConcatEmptySeq
<1>4. Head(list) \in Range(list)
  BY <1>1, <1>2 DEF Range
<1>5. ASSUME NEW m \in Range(list) PROVE Head(list) <= m
  <2>1. PICK i \in 1..Len(list) : m = list[i]
    BY <1>2 DEF Range
  <2>2. m \in Int /\ list[1] \in Int
    <3>1. list[i] \in Messages /\ list[1] \in Messages
      BY <1>1, ElementOfSeq
    <3>2. QED
      BY <2>1, <3>1, MessagesAreNumbers
  <2>3. CASE i = 1
    BY <1>1, <2>1, <2>2, <2>3
  <2>4. CASE i # 1
    <3>1. 1 < i
      BY <2>4
    <3>2. list[1] < list[i]
      BY <1>1, <3>1 DEF Increasing
    <3>3. QED
      BY <1>1, <2>1, <2>2, <3>2
  <2>5. QED
    BY <2>3, <2>4
<1>6. QED
  BY <1>1, <1>3, <1>4, <1>5, WithoutOrdered

LEMMA EmptyOrdered == Increasing(<<>>) /\ Range(<<>>) = {}
BY DEF Increasing, Range

-----------------------------------------------------------------------------
(* Where prompts are: in the next-turn list and nowhere else until a turn  *)
(* claims them; and a turn that opens has claimed nothing yet.             *)
InputLine ==
  /\ \A m \in prompts : m <= sent
  /\ Range(nextTurn) \subseteq prompts
  /\ Range(nextStep) \cap prompts = {}
  /\ \A m \in Messages : claimTurn[m] <= turn
  /\ at = "opening" => \A m \in Messages : claimTurn[m] < turn

Input == InboxAccounted /\ PromptsOwnTheirTurns /\ InputLine

(* InboxAccounted of given lists, claims and discards, message by message  *)
(* and as it is stated.                                                    *)
Waits(m, nt, ns) == m \in Range(nt) \/ m \in Range(ns)
Accounts(nt, ns, ct, disc, count) ==
  /\ Increasing(nt) /\ Increasing(ns)
  /\ \A m \in Messages :
       /\ ~(m \in Range(nt) /\ m \in Range(ns))
       /\ ~(Waits(m, nt, ns) /\ ct[m] > 0)
       /\ ~(Waits(m, nt, ns) /\ m \in disc)
       /\ ~(ct[m] > 0 /\ m \in disc)
       /\ Waits(m, nt, ns) \/ ct[m] > 0 \/ m \in disc <=> m <= count

BySets(nt, ns, ct, disc, count) ==
  LET claimed == {m \in Messages : ct[m] > 0}
      waiting == Range(nt) \cup Range(ns)
  IN  /\ Increasing(nt) /\ Increasing(ns)
      /\ Range(nt) \cap Range(ns) = {}
      /\ waiting \cap claimed = {} /\ waiting \cap disc = {}
      /\ claimed \cap disc = {}
      /\ waiting \cup claimed \cup disc = 1..count

LEMMA AccountsMessages ==
  ASSUME NEW nt \in Seq(Messages), NEW ns \in Seq(Messages),
         NEW ct \in [Messages -> Nat], NEW disc \in SUBSET Messages,
         NEW count \in 0..MaxMessages
  PROVE  Accounts(nt, ns, ct, disc, count) <=> BySets(nt, ns, ct, disc, count)
<1> DEFINE claimed == {m \in Messages : ct[m] > 0}
           waiting == Range(nt) \cup Range(ns)
<1>1. waiting \subseteq Messages
  BY RangeOfMessages
<1>2. 1..count \subseteq Messages /\ \A m \in Messages : m \in 1..count <=> m <= count
  BY AgentLoopBounds DEF Messages
<1>3. \A m \in Messages : /\ m \in claimed <=> ct[m] > 0
                          /\ m \in waiting <=> Waits(m, nt, ns)
  BY DEF Waits
<1>4. claimed \subseteq Messages /\ Range(nt) \subseteq waiting
  OBVIOUS
<1> HIDE DEF claimed
<1>5. Range(nt) \cap Range(ns) = {} <=>
        \A m \in Messages : ~(m \in Range(nt) /\ m \in Range(ns))
  BY <1>1
<1> HIDE DEF waiting
<1>6. (waiting \cup claimed \cup disc = 1..count) <=>
        \A m \in Messages : Waits(m, nt, ns) \/ ct[m] > 0 \/ m \in disc <=> m <= count
  <2>1. (waiting \cup claimed \cup disc = 1..count) <=>
          \A m \in Messages :
            m \in waiting \/ m \in claimed \/ m \in disc <=> m \in 1..count
    BY <1>1, <1>2, <1>4
  <2>2. QED
    BY <2>1, <1>2, <1>3
<1>7. /\ waiting \cap claimed = {} <=>
           \A m \in Messages : ~(Waits(m, nt, ns) /\ ct[m] > 0)
      /\ waiting \cap disc = {} <=>
           \A m \in Messages : ~(Waits(m, nt, ns) /\ m \in disc)
      /\ claimed \cap disc = {} <=>
           \A m \in Messages : ~(ct[m] > 0 /\ m \in disc)
  BY <1>1, <1>3, <1>4
<1>8. Accounts(nt, ns, ct, disc, count) <=>
        /\ Increasing(nt) /\ Increasing(ns)
        /\ Range(nt) \cap Range(ns) = {}
        /\ waiting \cap claimed = {} /\ waiting \cap disc = {}
        /\ claimed \cap disc = {}
        /\ waiting \cup claimed \cup disc = 1..count
  BY <1>5, <1>6, <1>7 DEF Accounts
<1>9. QED
  BY <1>8 DEF BySets, waiting, claimed

LEMMA AccountedNow ==
  ASSUME InboxTypeOK
  PROVE  InboxAccounted <=> Accounts(nextTurn, nextStep, claimTurn, discarded, sent)
<1>1. Accounts(nextTurn, nextStep, claimTurn, discarded, sent)
        <=> BySets(nextTurn, nextStep, claimTurn, discarded, sent)
  BY AccountsMessages DEF InboxTypeOK
<1>2. QED
  BY <1>1 DEF BySets, InboxAccounted

LEMMA AccountedThen ==
  ASSUME InboxTypeOK'
  PROVE  InboxAccounted' <=>
           Accounts(nextTurn', nextStep', claimTurn', discarded', sent')
<1>1. /\ nextTurn' \in Seq(Messages) /\ nextStep' \in Seq(Messages)
      /\ claimTurn' \in [Messages -> Nat] /\ discarded' \in SUBSET Messages
      /\ sent' \in 0..MaxMessages
  BY DEF InboxTypeOK
<1>2. Accounts(nextTurn', nextStep', claimTurn', discarded', sent')
        <=> BySets(nextTurn', nextStep', claimTurn', discarded', sent')
  BY <1>1, AccountsMessages
<1>3. QED
  BY <1>2 DEF BySets, InboxAccounted

-----------------------------------------------------------------------------
(* What each way of touching the inbox keeps. *)
LEMMA InsertKeeps ==
  ASSUME InboxTypeOK, CountTypeOK, Input, NEW tgt \in {"next-turn", "next-step"},
         Insert(tgt), turn' = turn, at' = at
  PROVE  Input'
<1> DEFINE m == sent + 1
<1>1. InboxTypeOK'
  BY InsertTypes
<1>2. m \in Messages /\ sent \in Nat /\ sent' = m /\ claimTurn' = claimTurn
      /\ discarded' = discarded /\ discarded \subseteq Messages
      /\ \A k \in Messages : k \in Nat /\ claimTurn[k] \in Nat
  BY AgentLoopBounds DEF Insert, InboxTypeOK, Messages
<1>3. Accounts(nextTurn, nextStep, claimTurn, discarded, sent)
  BY AccountedNow DEF Input
<1>4. /\ nextTurn \in Seq(Messages) /\ nextStep \in Seq(Messages)
      /\ Range(nextTurn) \subseteq Messages /\ Range(nextStep) \subseteq Messages
      /\ Increasing(nextTurn) /\ Increasing(nextStep)
  BY <1>3, RangeOfMessages DEF Accounts, InboxTypeOK
<1>5. /\ \A k \in Range(nextTurn) : k < m
      /\ \A k \in Range(nextStep) : k < m
      /\ \A k \in prompts : k \in Messages /\ k < m
      /\ claimTurn[m] = 0 /\ m \notin discarded
  <2>1. \A k \in Messages : Waits(k, nextTurn, nextStep) \/ claimTurn[k] > 0 \/ k \in discarded
                              <=> k <= sent
    BY <1>3 DEF Accounts
  <2>2. \A k \in Messages : k <= sent <=> k < m
    BY <1>2
  <2>3. \A k \in prompts : k \in Messages
    BY DEF InboxTypeOK
  <2>4. ~(m < m)
    BY <1>2
  <2>5. claimTurn[m] = 0 /\ m \notin discarded
    BY <1>2, <2>1, <2>2, <2>4
  <2>6. QED
    BY <1>4, <2>1, <2>2, <2>3, <2>5 DEF Waits, Input, InputLine
<1> HIDE DEF m
<1>6. \A k \in Messages : k <= m <=> k <= sent \/ k = m
  BY <1>2 DEF m
<1>7. CASE tgt = "next-turn"
  <2>1. nextTurn' = Append(nextTurn, m) /\ nextStep' = nextStep
        /\ prompts' = prompts \cup {m}
    BY <1>7 DEF Insert, m
  <2>2. Increasing(nextTurn') /\ Range(nextTurn') = Range(nextTurn) \cup {m}
    BY <1>2, <1>4, <1>5, <2>1, AppendOrdered
  <2>3. m \notin Range(nextStep)
    BY <1>2, <1>5
  <2>4. Accounts(nextTurn', nextStep', claimTurn', discarded', sent')
    BY <1>2, <1>3, <1>5, <1>6, <2>1, <2>2, <2>3 DEF Accounts, Waits
  <2>5. PromptsOwnTheirTurns'
    <3> SUFFICES ASSUME NEW k \in prompts', NEW n \in prompts', k < n, claimTurn[n] > 0
                 PROVE  k \in discarded \/ (claimTurn[k] > 0 /\ claimTurn[k] < claimTurn[n])
      BY <1>2 DEF PromptsOwnTheirTurns
    <3>1. n \in prompts
      BY <1>2, <1>5, <2>1
    <3>2. k # m
      BY <1>2, <1>5, <3>1
    <3>3. QED
      BY <2>1, <3>1, <3>2 DEF Input, PromptsOwnTheirTurns
  <2>6. InputLine'
    BY <1>2, <1>5, <1>6, <2>1, <2>2, <2>3 DEF Input, InputLine
  <2>7. QED
    BY <1>1, <2>4, <2>5, <2>6, AccountedThen DEF Input
<1>8. CASE tgt = "next-step"
  <2>1. nextStep' = Append(nextStep, m) /\ nextTurn' = nextTurn /\ prompts' = prompts
    BY <1>8 DEF Insert, m
  <2>2. Increasing(nextStep') /\ Range(nextStep') = Range(nextStep) \cup {m}
    BY <1>2, <1>4, <1>5, <2>1, AppendOrdered
  <2>3. m \notin Range(nextTurn)
    BY <1>2, <1>5
  <2>4. Accounts(nextTurn', nextStep', claimTurn', discarded', sent')
    BY <1>2, <1>3, <1>5, <1>6, <2>1, <2>2, <2>3 DEF Accounts, Waits
  <2>5. PromptsOwnTheirTurns'
    BY <1>2, <2>1 DEF Input, PromptsOwnTheirTurns
  <2>6. m \notin prompts
    BY <1>2, <1>5
  <2>7. InputLine'
    BY <1>2, <1>5, <1>6, <2>1, <2>2, <2>6 DEF Input, InputLine
  <2>8. QED
    BY <1>1, <2>4, <2>5, <2>7, AccountedThen DEF Input
<1>9. QED
  BY <1>7, <1>8

LEMMA DiscardKeeps ==
  ASSUME InboxTypeOK, InboxTypeOK', Input, NEW dropped,
         UNCHANGED <<sent, claimTurn, prompts, turn, at>>,
         dropped \subseteq Range(nextTurn) \cup Range(nextStep),
         discarded' = discarded \cup dropped,
         Increasing(nextTurn'), Increasing(nextStep'),
         Range(nextTurn') = Range(nextTurn) \ dropped,
         Range(nextStep') = Range(nextStep) \ dropped
  PROVE  Input'
<1>1. Accounts(nextTurn, nextStep, claimTurn, discarded, sent)
  BY AccountedNow DEF Input
<1>2. Accounts(nextTurn', nextStep', claimTurn', discarded', sent')
  BY <1>1 DEF Accounts, Waits
<1>3. PromptsOwnTheirTurns'
  BY DEF Input, PromptsOwnTheirTurns
<1>4. InputLine'
  BY DEF Input, InputLine
<1>5. QED
  BY <1>2, <1>3, <1>4, AccountedThen DEF Input

LEMMA ClaimKeeps ==
  ASSUME InboxTypeOK, CountTypeOK, Input, turn > 0, NEW tgt, Claim(tgt),
         tgt = "next-turn" => at = "opening", turn' = turn, at' # "opening"
  PROVE  Input'
<1> DEFINE prompt == IF tgt = "next-turn" /\ nextTurn # <<>> THEN {Head(nextTurn)} ELSE {}
           batch  == Range(nextStep) \cup prompt
<1>1. InboxTypeOK'
  BY ClaimTypes DEF CountTypeOK
<1>2. Accounts(nextTurn, nextStep, claimTurn, discarded, sent)
  BY AccountedNow DEF Input
<1>3. /\ nextTurn \in Seq(Messages) /\ nextStep \in Seq(Messages)
      /\ Range(nextTurn) \subseteq Messages /\ Range(nextStep) \subseteq Messages
      /\ Increasing(nextTurn) /\ Increasing(nextStep) /\ prompts \subseteq Messages
      /\ claimTurn \in [Messages -> Nat] /\ turn \in Nat
  BY <1>2, RangeOfMessages DEF Accounts, InboxTypeOK, CountTypeOK
<1>4. /\ Increasing(nextTurn') /\ Range(nextTurn') = Range(nextTurn) \ prompt
      /\ prompt \subseteq Range(nextTurn)
      /\ \A m \in prompt, k \in Range(nextTurn) : m <= k
  <2>1. CASE tgt = "next-turn" /\ nextTurn # <<>>
    <3>1. nextTurn' = Tail(nextTurn) /\ prompt = {Head(nextTurn)}
      BY <2>1 DEF Claim
    <3>2. QED
      BY <1>3, <2>1, <3>1, TailOrdered
  <2>2. CASE ~(tgt = "next-turn" /\ nextTurn # <<>>)
    <3>1. nextTurn' = nextTurn /\ prompt = {}
      BY <2>2 DEF Claim
    <3>2. QED
      BY <1>3, <3>1
  <2>3. QED
    BY <2>1, <2>2
<1>5. /\ nextStep' = <<>> /\ UNCHANGED <<sent, discarded, prompts>>
      /\ claimTurn' = [m \in Messages |-> IF m \in batch THEN turn ELSE claimTurn[m]]
  BY DEF Claim
<1>6. prompt # {} => tgt = "next-turn"
  OBVIOUS
<1>7. \A m, n \in prompt : m = n
  OBVIOUS
<1> HIDE DEF prompt
<1>8. Increasing(nextStep') /\ Range(nextStep') = {}
  BY <1>5, EmptyOrdered
<1>9. /\ batch \subseteq Messages
      /\ \A m \in Messages : m \in batch => Waits(m, nextTurn, nextStep)
      /\ \A m \in Messages : Waits(m, nextTurn, nextStep)
                               <=> m \in batch \/ Waits(m, nextTurn', nextStep')
      /\ \A m \in Messages : ~(m \in batch /\ Waits(m, nextTurn', nextStep'))
  <2>1. \A m \in Messages : ~(m \in Range(nextTurn) /\ m \in Range(nextStep))
    BY <1>2 DEF Accounts
  <2>2. QED
    BY <1>3, <1>4, <1>8, <2>1 DEF Waits
<1>10. \A m \in batch : claimTurn'[m] = turn
  BY <1>5, <1>9
<1>11. \A m \in Messages : m \notin batch => claimTurn'[m] = claimTurn[m]
  BY <1>5
<1>12. \A m \in prompts : m \in batch <=> m \in prompt
  BY DEF Input, InputLine
<1> HIDE DEF batch
<1>13. \A m \in Messages : claimTurn'[m] > 0 <=> m \in batch \/ claimTurn[m] > 0
  BY <1>10, <1>11
<1>14. Accounts(nextTurn', nextStep', claimTurn', discarded', sent')
  <2>1. \A m \in Messages : ~(m \in Range(nextTurn') /\ m \in Range(nextStep'))
    BY <1>8
  <2>2. \A m \in Messages :
          /\ ~(Waits(m, nextTurn', nextStep') /\ claimTurn'[m] > 0)
          /\ ~(Waits(m, nextTurn', nextStep') /\ m \in discarded')
          /\ ~(claimTurn'[m] > 0 /\ m \in discarded')
          /\ Waits(m, nextTurn', nextStep') \/ claimTurn'[m] > 0 \/ m \in discarded'
               <=> m <= sent'
    BY <1>2, <1>5, <1>9, <1>13 DEF Accounts
  <2>3. QED
    BY <1>4, <1>8, <2>1, <2>2 DEF Accounts
<1>15. PromptsOwnTheirTurns'
  <2> SUFFICES ASSUME NEW m \in prompts, NEW n \in prompts, m < n, claimTurn'[n] > 0,
                      m \notin discarded
               PROVE  claimTurn'[m] > 0 /\ claimTurn'[m] < claimTurn'[n]
    BY <1>5 DEF PromptsOwnTheirTurns
  <2>1. m \in Messages /\ n \in Messages /\ m \in Nat /\ n \in Nat
    BY <1>3, MessagesAreNumbers
  <2>2. ASSUME claimTurn[n] > 0
        PROVE  /\ claimTurn[m] > 0 /\ claimTurn[m] < claimTurn[n]
               /\ m \notin batch /\ n \notin batch
    <3>1. claimTurn[m] > 0 /\ claimTurn[m] < claimTurn[n]
      BY <2>2 DEF Input, PromptsOwnTheirTurns
    <3>2. m \notin batch /\ n \notin batch
      BY <1>2, <1>9, <2>1, <2>2, <3>1 DEF Accounts
    <3>3. QED
      BY <3>1, <3>2
  <2>3. CASE claimTurn[n] > 0
    BY <1>11, <2>1, <2>2, <2>3
  <2>4. CASE ~(claimTurn[n] > 0)
    <3>1. n \in batch /\ n \in prompt
      BY <1>12, <1>13, <2>1, <2>4
    <3>2. at = "opening"
      BY <1>6, <3>1
    <3>3. m \notin prompt
      BY <1>7, <2>1, <3>1
    <3>4. m \notin Range(nextTurn)
      <4>1. m \in Range(nextTurn) => n <= m
        BY <1>4, <3>1
      <4>2. QED
        BY <4>1, <2>1
    <3>5. claimTurn[m] > 0
      <4>1. m <= sent /\ m \notin Range(nextStep)
        BY DEF Input, InputLine
      <4>2. QED
        BY <1>2, <2>1, <3>4, <4>1 DEF Accounts, Waits
    <3>6. claimTurn[m] < turn
      BY <2>1, <3>2 DEF Input, InputLine
    <3>7. m \notin batch
      BY <1>12, <3>3
    <3>8. claimTurn'[m] = claimTurn[m] /\ claimTurn'[n] = turn
      BY <1>10, <1>11, <2>1, <3>1, <3>7
    <3>9. QED
      BY <3>5, <3>6, <3>8
  <2>5. QED
    BY <2>3, <2>4
<1>16. InputLine'
  <2>1. \A m \in Messages : claimTurn'[m] <= turn
    BY <1>3, <1>10, <1>11 DEF Input, InputLine
  <2>2. Range(nextTurn') \subseteq prompts' /\ Range(nextStep') \cap prompts' = {}
        /\ \A m \in prompts' : m <= sent'
    BY <1>4, <1>5, <1>8 DEF Input, InputLine
  <2>3. QED
    BY <2>1, <2>2 DEF InputLine
<1>17. QED
  BY <1>1, <1>14, <1>15, <1>16, AccountedThen DEF Input

(* Steps that leave the inbox alone; only the start of a turn changes its  *)
(* number, and nothing else comes to where a turn opens.                   *)
LEMMA OthersKeep ==
  ASSUME InboxTypeOK, CountTypeOK, Input, UNCHANGED inboxVars,
         \/ turn' = turn + 1
         \/ turn' = turn /\ (at' = "opening" => at = "opening")
  PROVE  Input'
<1>1. InboxAccounted' /\ PromptsOwnTheirTurns'
  BY DEF Input, InboxAccounted, PromptsOwnTheirTurns, inboxVars
<1>2. InputLine'
  <2>1. \A m \in Messages : claimTurn[m] \in Nat /\ claimTurn[m] <= turn /\ turn \in Nat
    BY DEF Input, InputLine, InboxTypeOK, CountTypeOK
  <2>2. \A m \in Messages : claimTurn[m] <= turn' /\ (at' = "opening" => claimTurn[m] < turn')
    BY <2>1 DEF Input, InputLine
  <2>3. QED
    BY <2>2 DEF Input, InputLine, inboxVars
<1>3. QED
  BY <1>1, <1>2 DEF Input

LEMMA InputStep ==
  ASSUME Boundaries, Boundaries', Input, [Next]_vars
  PROVE  Input'
<1>1. InboxTypeOK /\ CountTypeOK /\ InboxTypeOK'
  BY DEF Boundaries, TypeOK
<1>2. at \in InTurn => turn > 0
  BY DEF Boundaries, FreshSteps
<1>3. CASE StartTurn
  <2>1. UNCHANGED inboxVars /\ (turn' = turn + 1 \/ (turn' = turn /\ at' # "opening"))
    BY <1>3 DEF StartTurn
  <2>2. QED
    BY <1>1, <2>1, OthersKeep
<1>4. CASE OpenBoundary
  <2>1. turn' = turn /\ at' # "opening" /\ turn > 0 /\ at = "opening"
    BY <1>2, <1>4 DEF OpenBoundary, FailTurn, EndTurn, ProposeStep, phaseVars, InTurn
  <2>2. UNCHANGED inboxVars \/ Claim(target)
    BY <1>4 DEF OpenBoundary, ProposeStep
  <2>3. QED
    BY <1>1, <2>1, <2>2, ClaimKeeps, OthersKeep
<1>5. CASE AfterStep
  <2>1. turn' = turn /\ at' # "opening" /\ turn > 0
    BY <1>2, <1>5 DEF AfterStep, FailTurn, EndTurn, ProposeStep, phaseVars, InTurn
  <2>2. UNCHANGED inboxVars \/ Claim("next-step")
    BY <1>5 DEF AfterStep, ProposeStep
  <2>3. QED
    BY <1>1, <2>1, <2>2, ClaimKeeps, OthersKeep
<1>6. CASE StoppingSettles
  <2>1. turn' = turn /\ at' # "opening" /\ turn > 0
    BY <1>2, <1>6 DEF StoppingSettles, FailTurn, EndTurn, ProposeStep, phaseVars, InTurn
  <2>2. UNCHANGED inboxVars \/ Claim("next-step")
    BY <1>6 DEF StoppingSettles, ProposeStep
  <2>3. QED
    BY <1>1, <2>1, <2>2, ClaimKeeps, OthersKeep
<1>7. CASE Sends
  <2>1. PICK tgt \in {"next-turn", "next-step"} : Insert(tgt)
    BY <1>7 DEF Sends, Send
  <2>2. turn' = turn /\ at' = at
    BY <1>7 DEF Sends, Send, phaseVars, driverVars
  <2>3. QED
    BY <1>1, <2>1, <2>2, InsertKeeps
<1>8. CASE AcceptContext
  <2>1. Insert("next-step") /\ turn' = turn /\ at' = at
    BY <1>8 DEF AcceptContext, phaseVars, driverVars
  <2>2. QED
    BY <1>1, <2>1, InsertKeeps
<1>9. CASE Cancels
  <2>1. UNCHANGED <<sent, claimTurn, prompts, turn, at>>
    BY <1>9 DEF Cancels, Cancel, driverVars
  <2>2. CASE UNCHANGED <<nextTurn, nextStep, discarded>>
    <3>1. UNCHANGED inboxVars
      BY <2>1, <2>2 DEF inboxVars
    <3>2. QED
      BY <1>1, <2>1, <3>1, OthersKeep
  <2>3. CASE /\ nextTurn' = <<>> /\ nextStep' = <<>>
             /\ discarded' = discarded \cup Range(nextTurn) \cup Range(nextStep)
    <3> DEFINE dropped == Range(nextTurn) \cup Range(nextStep)
    <3>1. discarded' = discarded \cup dropped
      BY <2>3
    <3>2. /\ Increasing(nextTurn') /\ Increasing(nextStep')
          /\ Range(nextTurn') = Range(nextTurn) \ dropped
          /\ Range(nextStep') = Range(nextStep) \ dropped
      BY <2>3, EmptyOrdered
    <3>3. QED
      BY <1>1, <2>1, <3>1, <3>2, DiscardKeeps
  <2>4. QED
    BY <1>9, <2>2, <2>3 DEF Cancels, Cancel
<1>10. CASE Remove
  <2>1. UNCHANGED <<sent, claimTurn, prompts, turn, at>>
    BY <1>10 DEF Remove, phaseVars, driverVars
  <2>2. Accounts(nextTurn, nextStep, claimTurn, discarded, sent)
    BY <1>1, AccountedNow DEF Input
  <2>3. /\ nextTurn \in Seq(Messages) /\ nextStep \in Seq(Messages)
        /\ Increasing(nextTurn) /\ Increasing(nextStep)
        /\ Range(nextTurn) \subseteq Messages /\ Range(nextStep) \subseteq Messages
        /\ \A m \in Messages : ~(m \in Range(nextTurn) /\ m \in Range(nextStep))
    BY <1>1, <2>2, RangeOfMessages DEF Accounts, InboxTypeOK
  <2>4. ASSUME NEW i \in 1..Len(nextTurn),
               nextTurn' = Without(nextTurn, i),
               discarded' = discarded \cup {nextTurn[i]}, UNCHANGED nextStep
        PROVE  Input'
    <3>1. nextTurn[i] \in Range(nextTurn)
      BY <2>3, LenProperties DEF Range
    <3>2. Increasing(nextTurn') /\ Range(nextTurn') = Range(nextTurn) \ {nextTurn[i]}
      BY <2>3, <2>4, WithoutOrdered
    <3>3. Range(nextStep') = Range(nextStep) \ {nextTurn[i]} /\ Increasing(nextStep')
      BY <2>3, <2>4, <3>1
    <3>4. QED
      BY <1>1, <2>1, <2>4, <3>1, <3>2, <3>3, DiscardKeeps
  <2>5. ASSUME NEW i \in 1..Len(nextStep),
               nextStep' = Without(nextStep, i),
               discarded' = discarded \cup {nextStep[i]}, UNCHANGED nextTurn
        PROVE  Input'
    <3>1. nextStep[i] \in Range(nextStep)
      BY <2>3, LenProperties DEF Range
    <3>2. Increasing(nextStep') /\ Range(nextStep') = Range(nextStep) \ {nextStep[i]}
      BY <2>3, <2>5, WithoutOrdered
    <3>3. Range(nextTurn') = Range(nextTurn) \ {nextStep[i]} /\ Increasing(nextTurn')
      BY <2>3, <2>5, <3>1
    <3>4. QED
      BY <1>1, <2>1, <2>5, <3>1, <3>2, <3>3, DiscardKeeps
  <2>6. QED
    BY <1>10, <2>4, <2>5 DEF Remove
<1>11. CASE Wake \/ Converge \/ MaintenanceEnds
  <2>1. UNCHANGED inboxVars /\ turn' = turn /\ (at' = "opening" => at = "opening")
    BY <1>11, WakeStartsOrLatches
       DEF Wake, Converge, MaintenanceEnds, StartDriver, driverVars, phaseVars
  <2>2. QED
    BY <1>1, <2>1, OthersKeep
<1>12. CASE PreStepSettles \/ EnterStep \/ RunStep \/ RequestBuilt \/ StreamSettles \/
             RecoverySettles \/ ToolsSettle \/ StepReturns \/ TurnReturns \/ Retire \/
             StartMaintenance \/ WhenIdle \/ ActivityResolves \/ WaiterResumes
  <2>1. UNCHANGED inboxVars /\ turn' = turn /\ (at' = "opening" => at = "opening")
    BY <1>12 DEF PreStepSettles, EnterStep, FailTurn, EndTurn, RunStep, RequestBuilt,
       StreamSettles, RecoverySettles, ToolsSettle, StepReturns, TurnReturns, Retire,
       StartMaintenance, WhenIdle, ActivityResolves, WaiterResumes, phaseVars, driverVars
  <2>2. QED
    BY <1>1, <2>1, OthersKeep
<1>13. CASE UNCHANGED vars
  <2>1. UNCHANGED inboxVars /\ turn' = turn /\ at' = at
    BY <1>13 DEF vars, phaseVars, driverVars
  <2>2. QED
    BY <1>1, <2>1, OthersKeep
<1>14. QED
  BY <1>3, <1>4, <1>5, <1>6, <1>7, <1>8, <1>9, <1>10, <1>11, <1>12, <1>13, NextCases

(* No message is lost, claimed twice, or out of its order, and a prompt is *)
(* the only prompt of its turn, however sends, removals and cancels fall   *)
(* between the claims of the driver.                                       *)
THEOREM InputReaches == Spec => []InputReachesTurns
<1>1. Init => Input
  <2> SUFFICES ASSUME Init PROVE Input
    OBVIOUS
  <2>1. InboxTypeOK
    BY InitTypes DEF TypeOK
  <2>2. \A m \in Messages : m \in Nat /\ m > 0 /\ claimTurn[m] = 0
    BY MessagesAreNumbers DEF Init
  <2>3. Accounts(nextTurn, nextStep, claimTurn, discarded, sent)
    BY <2>2, EmptyOrdered DEF Init, Accounts, Waits
  <2>4. PromptsOwnTheirTurns /\ InputLine
    BY <2>2, EmptyOrdered DEF Init, PromptsOwnTheirTurns, InputLine
  <2>5. QED
    BY <2>1, <2>3, <2>4, AccountedNow DEF Input
<1>2. Boundaries /\ Boundaries' /\ Input /\ [Next]_vars => Input'
  BY InputStep
<1>3. Input => InputReachesTurns
  BY DEF Input, InputReachesTurns
<1>4. QED
  BY <1>1, <1>2, <1>3, BoundariesInvariant, PTL DEF Spec

=============================================================================
