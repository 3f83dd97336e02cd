------------------------------ MODULE AgentLoop ------------------------------
(***************************************************************************)
(* The concrete driver of one agent, ReactLoopAgent                        *)
(* (packages/core/agent-loop/src/agent.ts), with the inbox it claims from  *)
(* (packages/core/agent/src/inbox.ts) and the turn and step boundaries it  *)
(* writes to the session log, as the session's own invariant companion     *)
(* traces them (packages/core/session/src/invariant.ts).                   *)
(*                                                                         *)
(* One action is one synchronous block of the program.  Between two blocks *)
(* - at an await, in the microtask gap after an awaited promise settled,   *)
(* and inside a synchronous notification - other code may call the agent.  *)
(* Input messages are numbered in the order the inbox accepts them.        *)
(***************************************************************************)
EXTENDS Integers, Sequences, Functions

CONSTANTS
  MaxMessages,   \* bound: messages the inbox accepts
  MaxSteps,      \* bound: the last step of a turn whose tools may owe another request
  MaxCancels,    \* bound: calls of cancel
  MaxJobs        \* bound: maintenance tasks

ASSUME AgentLoopBounds ==
  MaxMessages \in Nat /\ MaxSteps \in Nat /\ MaxCancels \in Nat /\ MaxJobs \in Nat

Messages == 1..MaxMessages

VARIABLES
  (* this.phase *)
  phase,           \* "idle", "maintenance" or "running"
  aborted,         \* the cause the phase's signal carries: "no", "user", "disposed"
  wakeRequested,   \* phase.wakeRequested
  turn, step,      \* phase.turn (lastTurn while idle) and phase.step
  (* the driver: where kick, turn and step stand, and their locals *)
  at,              \* the block that runs next
  result,          \* what the promise it awaits has settled to
  target,          \* turn: the inbox boundary of the next claim
  turnEnds,        \* turn: turnEnds, "none" for null
  (* synchronous frames of the agent suspended in a notification *)
  sending,         \* send is between its insertion and its wakeDriver call
  replay,          \* kick's finally is between going idle and replaying a wake
  (* the inbox *)
  sent,            \* messages accepted so far
  nextTurn, nextStep,
  claimTurn,       \* agent/inbox/claimed: the turn that claimed a message, or 0
  discarded,       \* agent/inbox/discarded
  (* activityDone *)
  activity,        \* identity of the promise activityDone holds
  exited,          \* drivers that left kick, their promise not yet resolved
  watching,        \* the promise a whenIdle call awaits, or 0
  (* the session log: the trace of invariant.ts and the last turn/end *)
  openTurn, openStep, nextTurnNo, nextStepNo, ended,
  (* history *)
  prompts,         \* messages accepted for the next-turn boundary
  ceiling,         \* a step of this turn stopped at max-tokens
  owes,            \* the last step left tool results the model has not seen
  cancels, jobs

phaseVars  == <<phase, aborted, wakeRequested, turn, step>>
driverVars == <<at, result, target, turnEnds>>
frameVars  == <<sending, replay>>
inboxVars  == <<sent, nextTurn, nextStep, claimTurn, discarded, prompts>>
idleVars   == <<activity, exited, watching>>
logVars    == <<openTurn, openStep, nextTurnNo, nextStepNo, ended>>
turnHist   == <<ceiling, owes>>
boundVars  == <<cancels, jobs>>
vars == <<phaseVars, driverVars, frameVars, inboxVars, idleVars, logVars,
          turnHist, boundVars>>

Init ==
  /\ phase = "idle" /\ aborted = "no" /\ wakeRequested = FALSE /\ turn = 0 /\ step = 0
  /\ at = "off" /\ result = "none" /\ target = "next-turn" /\ turnEnds = "none"
  /\ sending = "none" /\ replay = FALSE
  /\ sent = 0 /\ nextTurn = <<>> /\ nextStep = <<>>
  /\ claimTurn = [m \in Messages |-> 0] /\ discarded = {} /\ prompts = {}
  /\ activity = 1 /\ exited = {} /\ watching = 0
  /\ openTurn = 0 /\ openStep = 0 /\ nextTurnNo = 1 /\ nextStepNo = 1 /\ ended = "none"
  /\ ceiling = FALSE /\ owes = FALSE
  /\ cancels = 0 /\ jobs = 0

-----------------------------------------------------------------------------
(* Inbox.hasPending *)
HasPending == nextTurn # <<>> \/ nextStep # <<>>

(* A boundary event is being published to session/event observers: they   *)
(* may abort, but the session refuses an append from inside an append.     *)
Publishing == at \in {"opening", "stepping", "closing", "ending"}

(* The driver runs without returning to the event loop until its first    *)
(* await; a status listener may act at "starting".                        *)
Synchronous == Publishing \/ at = "starting"

(* No synchronous frame of the agent is on the stack. *)
EventLoop == sending = "none" /\ ~replay /\ ~Synchronous

(* setPhase({kind: 'running', ...}) with a fresh activityDone; kick has    *)
(* not been called while agent/status is being published.                  *)
StartDriver ==
  /\ phase' = "running"
  /\ aborted' = "no"
  /\ wakeRequested' = FALSE
  /\ step' = 0
  /\ at' = "starting"
  /\ activity' = activity + 1
  /\ UNCHANGED <<turn, result, target, turnEnds>>

(* wakeDriver: start a driver, or latch the wake behind maintenance or an  *)
(* aborted activity that was not disposed.                                 *)
WakeDriver(wakeAfterAbort) ==
  \/ /\ phase = "idle"
     /\ StartDriver
  \/ /\ phase # "idle"
     /\ wakeRequested' =
          (\/ wakeRequested
           \/ aborted # "disposed" /\ (phase = "maintenance" \/ wakeAfterAbort))
     /\ UNCHANGED <<phase, aborted, turn, step, driverVars, activity>>

(* Inbox.append to one of the two lists. *)
Insert(tgt) ==
  /\ sent < MaxMessages
  /\ sent' = sent + 1
  /\ \/ /\ tgt = "next-turn"
        /\ nextTurn' = Append(nextTurn, sent + 1)
        /\ prompts' = prompts \cup {sent + 1}
        /\ UNCHANGED nextStep
     \/ /\ tgt = "next-step"
        /\ nextStep' = Append(nextStep, sent + 1)
        /\ UNCHANGED <<nextTurn, prompts>>
  /\ UNCHANGED <<claimTurn, discarded>>

-----------------------------------------------------------------------------
(* send, up to the notification of its insertion: waking input for an      *)
(* aborted activity is retargeted, and its class is fixed here.            *)
Send(tgt, wakeup) ==
  /\ sending = "none"
  /\ ~Publishing
  /\ LET wakingAfterAbort == wakeup /\ phase # "idle" /\ aborted # "no"
     IN  /\ Insert(IF wakingAfterAbort THEN "next-turn" ELSE tgt)
         /\ sending' = IF ~wakeup THEN "none"
                       ELSE IF wakingAfterAbort THEN "wake-after-abort" ELSE "wake"
  /\ UNCHANGED <<phaseVars, driverVars, replay, idleVars, logVars, turnHist, boundVars>>

(* Fault: an idle agent is not woken for a message already cancelled. *)
WakeIfPending ==
  /\ sending # "none"
  /\ sending' = "none"
  /\ \/ /\ phase # "idle" \/ HasPending
        /\ WakeDriver(sending = "wake-after-abort")
     \/ /\ phase = "idle" /\ ~HasPending
        /\ UNCHANGED <<phaseVars, driverVars, activity>>
  /\ UNCHANGED <<replay, inboxVars, exited, watching, logVars, turnHist, boundVars>>

(* ... and its call of wakeDriver. *)
Wake ==
  /\ sending # "none"
  /\ sending' = "none"
  /\ WakeDriver(sending = "wake-after-abort")
  /\ UNCHANGED <<replay, inboxVars, exited, watching, logVars, turnHist, boundVars>>

(* Result context of a finished tool call, accepted for the next step. *)
AcceptContext ==
  /\ at = "tools"
  /\ EventLoop
  /\ Insert("next-step")
  /\ UNCHANGED <<phaseVars, driverVars, frameVars, idleVars, logVars, turnHist, boundVars>>

(* cancel: clear the inbox and the latched wake unless keepInbox, and      *)
(* abort the activity; the first cause wins.  From inside a session        *)
(* append, clearing a non-empty inbox throws before anything changes.      *)
Cancel(cause, keepInbox) ==
  /\ cancels < MaxCancels
  /\ cancels' = cancels + 1
  /\ Publishing => keepInbox \/ ~HasPending
  /\ \/ /\ keepInbox
        /\ UNCHANGED <<nextTurn, nextStep, discarded, wakeRequested>>
     \/ /\ ~keepInbox
        /\ discarded' = discarded \cup Range(nextTurn) \cup Range(nextStep)
        /\ nextTurn' = <<>> /\ nextStep' = <<>>
        /\ wakeRequested' = FALSE
  /\ aborted' = IF phase # "idle" /\ aborted = "no" THEN cause ELSE aborted
  /\ UNCHANGED <<phase, turn, step, driverVars, frameVars, sent, claimTurn, prompts,
                 idleVars, logVars, turnHist, jobs>>

(* Inbox.remove of the message located at an index of one list. *)
Without(list, i) == SubSeq(list, 1, i - 1) \o SubSeq(list, i + 1, Len(list))

Remove ==
  /\ ~Publishing
  /\ \/ \E i \in 1..Len(nextTurn) :
          /\ nextTurn' = Without(nextTurn, i)
          /\ discarded' = discarded \cup {nextTurn[i]}
          /\ UNCHANGED nextStep
     \/ \E i \in 1..Len(nextStep) :
          /\ nextStep' = Without(nextStep, i)
          /\ discarded' = discarded \cup {nextStep[i]}
          /\ UNCHANGED nextTurn
  /\ UNCHANGED <<phaseVars, driverVars, frameVars, sent, claimTurn, prompts, idleVars,
                 logVars, turnHist, boundVars>>

(* runMaintenance, and the finally block of its task. *)
StartMaintenance ==
  /\ jobs < MaxJobs
  /\ jobs' = jobs + 1
  /\ phase = "idle"
  /\ phase' = "maintenance"
  /\ aborted' = "no"
  /\ wakeRequested' = FALSE
  /\ activity' = activity + 1
  /\ UNCHANGED <<turn, step, driverVars, frameVars, inboxVars, exited, watching, logVars,
                 turnHist, cancels>>

MaintenanceEnds ==
  /\ phase = "maintenance"
  /\ EventLoop
  /\ \/ /\ wakeRequested /\ HasPending
        /\ StartDriver
     \/ /\ ~(wakeRequested /\ HasPending)
        /\ phase' = "idle"
        /\ aborted' = "no"
        /\ wakeRequested' = FALSE
        /\ UNCHANGED <<turn, step, driverVars, activity>>
  /\ UNCHANGED <<frameVars, inboxVars, exited, watching, logVars, turnHist, boundVars>>

-----------------------------------------------------------------------------
(* Boundary events as the driver appends them and the companion traces them. *)
TurnEndEvent(reason) ==
  /\ openTurn' = 0
  /\ nextTurnNo' = nextTurnNo + 1
  /\ ended' = reason
  /\ UNCHANGED <<openStep, nextStepNo>>

(* Fault: the prompt is claimed without being taken off its list. *)
ClaimKeepsPrompt(tgt) ==
  LET prompt == IF tgt = "next-turn" /\ nextTurn # <<>> THEN {Head(nextTurn)} ELSE {}
      batch  == Range(nextStep) \cup prompt
  IN  /\ claimTurn' = [m \in Messages |-> IF m \in batch THEN turn ELSE claimTurn[m]]
      /\ nextStep' = <<>>
      /\ UNCHANGED <<nextTurn, sent, discarded, prompts>>

(* Inbox.claim: all next-step input and, at a turn boundary, one prompt. *)
Claim(tgt) ==
  LET prompt == IF tgt = "next-turn" /\ nextTurn # <<>> THEN {Head(nextTurn)} ELSE {}
      batch  == Range(nextStep) \cup prompt
  IN  /\ claimTurn' = [m \in Messages |-> IF m \in batch THEN turn ELSE claimTurn[m]]
      /\ nextStep' = <<>>
      /\ nextTurn' = IF prompt = {} THEN nextTurn ELSE Tail(nextTurn)
      /\ UNCHANGED <<sent, discarded, prompts>>

(* The finally block of turn: turn/end is appended, and turn will throw,   *)
(* return false, or fall through to its check of the inbox ("drain").      *)
EndTurn(reason, exit) ==
  /\ TurnEndEvent(reason)
  /\ at' = "ending"
  /\ result' = exit
  /\ UNCHANGED <<target, turnEnds>>

(* The catch block of turn: an aborted signal outranks the error. *)
FailTurn == EndTurn(IF aborted # "no" THEN "aborted" ELSE "error", "throw")

(* The top of the loop of turn: claim, and call preStep up to its await. *)
ProposeStep(tgt) ==
  /\ Claim(tgt)
  /\ target' = tgt
  /\ at' = "prestep"
  /\ result' = "none"
  /\ UNCHANGED <<turnEnds, logVars>>

(* turn, up to the publication of turn/start. *)
StartTurn ==
  /\ at = "starting" \/ (at = "ended" /\ result = "again" /\ ~replay)
  /\ sending = "none"
  /\ \/ /\ aborted # "no"
        /\ at' = "ended"
        /\ result' = "throw"
        /\ UNCHANGED <<turn, target, turnEnds, logVars, turnHist>>
     \/ /\ aborted = "no"
        /\ turn' = turn + 1
        /\ openTurn' = turn + 1
        /\ nextStepNo' = 1
        /\ at' = "opening"
        /\ target' = "next-turn"
        /\ turnEnds' = "none"
        /\ ceiling' = FALSE /\ owes' = FALSE
        /\ UNCHANGED <<result, openStep, nextTurnNo, ended>>
  /\ UNCHANGED <<phase, aborted, wakeRequested, step, frameVars, inboxVars, idleVars,
                 boundVars>>

(* The first boundary of a turn. *)
OpenBoundary ==
  /\ at = "opening"
  /\ sending = "none"
  /\ \/ /\ aborted # "no"
        /\ FailTurn
        /\ UNCHANGED inboxVars
     \/ /\ aborted = "no"
        /\ ProposeStep(target)
  /\ UNCHANGED <<phaseVars, frameVars, idleVars, turnHist, boundVars>>

(* preStep settles: prompt assembly and the agent/pre-step waterfall reject *)
(* the step, enter it with messages, rewrite it to empty, or throw.        *)
PreStepSettles ==
  /\ at = "prestep"
  /\ EventLoop
  /\ result' \in IF aborted # "no" THEN {"throw"} ELSE {"reject", "enter", "empty", "throw"}
  /\ at' = "decided"
  /\ UNCHANGED <<phaseVars, target, turnEnds, frameVars, inboxVars, idleVars, logVars,
                 turnHist, boundVars>>

(* Fault: the signal is not checked again after the decision. *)
EnterStepUnchecked ==
  /\ at = "decided"
  /\ EventLoop
  /\ result = "enter"
  /\ step' = step + 1
  /\ openStep' = step + 1
  /\ at' = "stepping"
  /\ UNCHANGED <<phase, aborted, wakeRequested, turn, result, target, turnEnds, frameVars,
                 inboxVars, idleVars, openTurn, nextTurnNo, nextStepNo, ended, turnHist,
                 boundVars>>

(* turn resumes with the decision, up to the publication of step/start. *)
EnterStep ==
  /\ at = "decided"
  /\ EventLoop
  /\ \/ /\ \/ result = "throw"
           \/ result = "enter" /\ aborted # "no"
           \/ result = "empty" /\ aborted # "no" /\ turnEnds = "none" /\ step > 0
        /\ FailTurn
        /\ UNCHANGED step
     \/ /\ result = "reject"
        /\ EndTurn("blocked", "stop")
        /\ UNCHANGED step
     \/ /\ result = "empty" /\ turnEnds # "none"
        /\ EndTurn(turnEnds, "drain")
        /\ UNCHANGED step
     \/ /\ result = "empty" /\ turnEnds = "none" /\ step = 0
        /\ EndTurn("completed", "stop")
        /\ UNCHANGED step
     \/ /\ result = "enter" \/ (result = "empty" /\ turnEnds = "none" /\ step > 0)
        /\ aborted = "no"
        /\ step' = step + 1
        /\ openStep' = step + 1
        /\ at' = "stepping"
        /\ UNCHANGED <<result, target, turnEnds, openTurn, nextTurnNo, nextStepNo, ended>>
  /\ UNCHANGED <<phase, aborted, wakeRequested, turn, frameVars, inboxVars, idleVars,
                 turnHist, boundVars>>

(* The entered messages are appended and step runs up to its first await. *)
RunStep ==
  /\ at = "stepping"
  /\ \/ aborted # "no" /\ at' = "stepped" /\ result' = "throw"
     \/ aborted = "no" /\ at' = "requesting" /\ result' = "none"
  /\ UNCHANGED <<phaseVars, target, turnEnds, frameVars, inboxVars, idleVars, logVars,
                 turnHist, boundVars>>

(* buildRequest settles: the stream is opened, unless a listener or the    *)
(* call's preparation failed or the signal aborted.                        *)
RequestBuilt ==
  /\ at = "requesting"
  /\ EventLoop
  /\ \/ aborted = "no" /\ at' = "streaming" /\ UNCHANGED result
     \/ at' = "stepped" /\ result' = "throw"
  /\ UNCHANGED <<phaseVars, target, turnEnds, frameVars, inboxVars, idleVars, logVars,
                 turnHist, boundVars>>

(* The stream ends: cut by the signal or an exception, with a failed       *)
(* finish, at the token ceiling, with plain content, or with tool calls.   *)
StreamSettles ==
  /\ at = "streaming"
  /\ EventLoop
  /\ \/ at' = "stepped" /\ result' = "throw"
     \/ aborted = "no" /\ at' = "recovering" /\ UNCHANGED result
     \/ aborted = "no" /\ at' = "stepped" /\ result' \in {"max-tokens", "completed"}
     \/ aborted = "no" /\ at' = "tools" /\ UNCHANGED result
  /\ UNCHANGED <<phaseVars, target, turnEnds, frameVars, inboxVars, idleVars, logVars,
                 turnHist, boundVars>>

(* The agent/request-error waterfall settles: retry in the same step, or   *)
(* fail it; an abort outranks a retry.                                     *)
RecoverySettles ==
  /\ at = "recovering"
  /\ EventLoop
  /\ \/ aborted = "no" /\ at' = "requesting" /\ UNCHANGED result
     \/ at' = "stepped" /\ result' = "throw"
  /\ UNCHANGED <<phaseVars, target, turnEnds, frameVars, inboxVars, idleVars, logVars,
                 turnHist, boundVars>>

(* executeToolCalls settles: a result concluded the turn, the results owe  *)
(* another request, or the scheduler failed.  An abort does not fail it.   *)
ToolsSettle ==
  /\ at = "tools"
  /\ EventLoop
  /\ result' \in {"completed", "throw"} \cup (IF step <= MaxSteps THEN {"owed"} ELSE {})
  /\ at' = "stepped"
  /\ UNCHANGED <<phaseVars, target, turnEnds, frameVars, inboxVars, idleVars, logVars,
                 turnHist, boundVars>>

(* Fault: a normal stop overwrites the ceiling an earlier step hit. *)
StepReturnsLatest ==
  /\ at = "stepped"
  /\ EventLoop
  /\ openStep' = 0
  /\ nextStepNo' = nextStepNo + 1
  /\ turnEnds' = IF result = "throw" THEN turnEnds
                  ELSE IF result = "owed" THEN "none" ELSE result
  /\ ceiling' = (ceiling \/ result = "max-tokens")
  /\ owes' = (result = "owed")
  /\ at' = "closing"
  /\ UNCHANGED <<phaseVars, result, target, frameVars, inboxVars, idleVars, openTurn,
                 nextTurnNo, ended, boundVars>>

(* Fault: the null outcome of a step that owes a request ends the turn. *)
StepReturnsNull ==
  /\ at = "stepped"
  /\ EventLoop
  /\ openStep' = 0
  /\ nextStepNo' = nextStepNo + 1
  /\ turnEnds' = IF result = "throw" \/ turnEnds = "max-tokens" THEN turnEnds ELSE result
  /\ ceiling' = (ceiling \/ result = "max-tokens")
  /\ owes' = (result = "owed")
  /\ at' = "closing"
  /\ UNCHANGED <<phaseVars, result, target, frameVars, inboxVars, idleVars, openTurn,
                 nextTurnNo, ended, boundVars>>

(* Fault: a step that throws leaves its boundary open. *)
StepReturnsOpen ==
  /\ at = "stepped"
  /\ EventLoop
  /\ openStep' = IF result = "throw" THEN openStep ELSE 0
  /\ nextStepNo' = nextStepNo + 1
  /\ turnEnds' = IF result = "throw" \/ turnEnds = "max-tokens" THEN turnEnds
                  ELSE IF result = "owed" THEN "none" ELSE result
  /\ ceiling' = (ceiling \/ result = "max-tokens")
  /\ owes' = (result = "owed")
  /\ at' = "closing"
  /\ UNCHANGED <<phaseVars, result, target, frameVars, inboxVars, idleVars, openTurn,
                 nextTurnNo, ended, boundVars>>

(* turn resumes with the step's outcome and publishes step/end.  The       *)
(* max-tokens ending is sticky.                                            *)
StepReturns ==
  /\ at = "stepped"
  /\ EventLoop
  /\ openStep' = 0
  /\ nextStepNo' = nextStepNo + 1
  /\ turnEnds' = IF result = "throw" \/ turnEnds = "max-tokens" THEN turnEnds
                  ELSE IF result = "owed" THEN "none" ELSE result
  /\ ceiling' = (ceiling \/ result = "max-tokens")
  /\ owes' = (result = "owed")
  /\ at' = "closing"
  /\ UNCHANGED <<phaseVars, result, target, frameVars, inboxVars, idleVars, openTurn,
                 nextTurnNo, ended, boundVars>>

(* Fault: every boundary claims a prompt. *)
AfterStepGreedy ==
  /\ at = "closing"
  /\ result # "throw" /\ aborted = "no"
  /\ turnEnds = "none" \/ nextStep # <<>>
  /\ ProposeStep("next-turn")
  /\ UNCHANGED <<phaseVars, frameVars, idleVars, turnHist, boundVars>>

(* ... and, step/end published, stops, asks the stopping listeners, or     *)
(* proposes the next step.                                                 *)
AfterStep ==
  /\ at = "closing"
  /\ \/ /\ result = "throw" \/ aborted # "no"
        /\ FailTurn
        /\ UNCHANGED inboxVars
     \/ /\ result # "throw" /\ aborted = "no"
        /\ turnEnds # "none" /\ nextStep = <<>>
        /\ at' = "stopping"
        /\ UNCHANGED <<result, target, turnEnds, inboxVars, logVars>>
     \/ /\ result # "throw" /\ aborted = "no"
        /\ turnEnds = "none" \/ nextStep # <<>>
        /\ ProposeStep("next-step")
  /\ UNCHANGED <<phaseVars, frameVars, idleVars, turnHist, boundVars>>

(* Fault: an aborted turn keeps waiting for its stopping listeners. *)
StoppingIgnoresAbort ==
  /\ at = "stopping"
  /\ EventLoop
  /\ aborted = "no"
  /\ nextStep = <<>>
  /\ EndTurn(turnEnds, "drain")
  /\ UNCHANGED <<inboxVars, phaseVars, frameVars, idleVars, turnHist, boundVars>>

(* The agent/turn-stopping listeners settle; what they steered keeps the   *)
(* turn open.                                                              *)
StoppingSettles ==
  /\ at = "stopping"
  /\ EventLoop
  /\ \/ /\ FailTurn
        /\ UNCHANGED inboxVars
     \/ /\ aborted = "no" /\ nextStep = <<>>
        /\ EndTurn(turnEnds, "drain")
        /\ UNCHANGED inboxVars
     \/ /\ aborted = "no" /\ nextStep # <<>>
        /\ ProposeStep("next-step")
  /\ UNCHANGED <<phaseVars, frameVars, idleVars, turnHist, boundVars>>

(* Fault: the next turn of the same driver keeps counting steps. *)
TurnReturnsCounting ==
  /\ at = "ending"
  /\ result = "drain" /\ HasPending
  /\ at' = "ended"
  /\ result' = "again"
  /\ aborted' = "no"
  /\ wakeRequested' = FALSE
  /\ UNCHANGED <<phase, step, turn, target, turnEnds, frameVars, inboxVars, idleVars,
                 logVars, turnHist, boundVars>>

(* turn returns: with input pending, a fresh signal and step count for the *)
(* next turn of the same driver.                                           *)
TurnReturns ==
  /\ at = "ending"
  /\ at' = "ended"
  /\ \/ /\ result = "drain" /\ HasPending
        /\ result' = "again"
        /\ aborted' = "no"
        /\ wakeRequested' = FALSE
        /\ step' = 0
     \/ /\ result = "drain" /\ ~HasPending
        /\ result' = "drained"
        /\ UNCHANGED <<aborted, wakeRequested, step>>
     \/ /\ result # "drain"
        /\ UNCHANGED <<result, aborted, wakeRequested, step>>
  /\ UNCHANGED <<phase, turn, target, turnEnds, frameVars, inboxVars, idleVars, logVars,
                 turnHist, boundVars>>

-----------------------------------------------------------------------------
(* Fault: the wake is read from the phase after it went idle. *)
RetireForgetsWake ==
  /\ at = "ended" /\ result # "again"
  /\ EventLoop
  /\ phase' = "idle" /\ aborted' = "no" /\ wakeRequested' = FALSE /\ step' = 0
  /\ at' = "off" /\ result' = "none"
  /\ exited' = exited \cup {activity}
  /\ UNCHANGED <<turn, target, turnEnds, sending, replay, inboxVars, activity, watching,
                 logVars, turnHist, boundVars>>

(* The finally block of kick, up to the publication of agent/status idle. *)
Retire ==
  /\ at = "ended" /\ result # "again"
  /\ EventLoop
  /\ replay' = wakeRequested
  /\ phase' = "idle"
  /\ aborted' = "no"
  /\ wakeRequested' = FALSE
  /\ step' = 0
  /\ at' = "off"
  /\ result' = "none"
  /\ exited' = exited \cup {activity}
  /\ UNCHANGED <<turn, target, turnEnds, sending, inboxVars, activity, watching, logVars,
                 turnHist, boundVars>>

(* ... and its replay of a latched wake, after every status listener and   *)
(* the synchronous part of what they started.                              *)
Converge ==
  /\ replay
  /\ sending = "none"
  /\ at \notin {"starting", "opening"}
  /\ replay' = FALSE
  /\ \/ HasPending /\ WakeDriver(FALSE)
     \/ ~HasPending /\ UNCHANGED <<phaseVars, driverVars, activity>>
  /\ UNCHANGED <<sending, inboxVars, exited, watching, logVars, turnHist, boundVars>>

(* kick's promise settles, and with it the activityDone of its driver. *)
ActivityResolves ==
  /\ EventLoop
  /\ \E a \in exited : exited' = exited \ {a}
  /\ UNCHANGED <<phaseVars, driverVars, frameVars, inboxVars, activity, watching, logVars,
                 turnHist, boundVars>>

(* Fault: the end of an activity resolves only the promise published last. *)
ResolvedIfLatest(a) == a = activity /\ a \notin exited /\ phase = "idle"

(* The promise an activity published as activityDone has resolved. *)
Resolved(a) == a \notin exited /\ (a = activity => phase = "idle")

(* whenIdle: await activityDone until it is the promise awaited. *)
WhenIdle ==
  /\ watching = 0
  /\ watching' = activity
  /\ UNCHANGED <<phaseVars, driverVars, frameVars, inboxVars, activity, exited, logVars,
                 turnHist, boundVars>>

(* Fault: the waiter does not look for replacement work. *)
WaiterResumesOnce ==
  /\ watching # 0 /\ Resolved(watching)
  /\ EventLoop
  /\ watching' = 0
  /\ UNCHANGED <<phaseVars, driverVars, frameVars, inboxVars, activity, exited, logVars,
                 turnHist, boundVars>>

WaiterResumes ==
  /\ watching # 0 /\ Resolved(watching)
  /\ EventLoop
  /\ watching' = IF watching = activity THEN 0 ELSE activity
  /\ UNCHANGED <<phaseVars, driverVars, frameVars, inboxVars, activity, exited, logVars,
                 turnHist, boundVars>>

-----------------------------------------------------------------------------
(* What the driver does, one block after the other. *)
Driver ==
  \/ StartTurn \/ OpenBoundary \/ PreStepSettles \/ EnterStep \/ RunStep
  \/ RequestBuilt \/ StreamSettles \/ RecoverySettles \/ ToolsSettle
  \/ StepReturns \/ AfterStep \/ StoppingSettles \/ TurnReturns \/ Retire

(* What others ask of the agent. *)
Caller ==
  \/ \E tgt \in {"next-turn", "next-step"}, wakeup \in BOOLEAN : Send(tgt, wakeup)
  \/ AcceptContext
  \/ \E cause \in {"user", "disposed"}, keepInbox \in BOOLEAN : Cancel(cause, keepInbox)
  \/ Remove \/ StartMaintenance \/ WhenIdle

Next ==
  \/ Driver \/ Caller \/ Wake \/ Converge \/ MaintenanceEnds
  \/ ActivityResolves \/ WaiterResumes

Spec == Init /\ [][Next]_vars

(* Everything the driver or a maintenance task awaits settles, and queued  *)
(* reactions run; callers owe nothing.                                     *)
FairSpec ==
  /\ Spec
  /\ WF_vars(Driver) /\ WF_vars(Wake) /\ WF_vars(Converge)
  /\ WF_vars(MaintenanceEnds) /\ WF_vars(ActivityResolves) /\ WF_vars(WaiterResumes)

-----------------------------------------------------------------------------
InTurn == {"opening", "prestep", "decided", "stepping", "requesting", "streaming",
           "recovering", "tools", "stepped", "closing", "stopping"}
InStep == {"stepping", "requesting", "streaming", "recovering", "tools", "stepped"}

PhaseTypeOK ==
  /\ phase \in {"idle", "maintenance", "running"}
  /\ aborted \in {"no", "user", "disposed"} /\ wakeRequested \in BOOLEAN
DriverTypeOK ==
  /\ at \in {"off", "starting", "ending", "ended"} \cup InTurn
  /\ result \in {"none", "reject", "enter", "empty", "throw", "max-tokens", "completed",
                 "owed", "stop", "drain", "drained", "again"}
  /\ at = "stepped" => result \in {"throw", "max-tokens", "completed", "owed"}
  /\ target \in {"next-turn", "next-step"}
  /\ turnEnds \in {"none", "completed", "max-tokens"}
  /\ sending \in {"none", "wake", "wake-after-abort"} /\ replay \in BOOLEAN
InboxTypeOK ==
  /\ sent \in 0..MaxMessages
  /\ nextTurn \in Seq(Messages) /\ nextStep \in Seq(Messages)
  /\ claimTurn \in [Messages -> Nat]
  /\ discarded \subseteq Messages /\ prompts \subseteq Messages
CountTypeOK ==
  /\ turn \in Nat /\ step \in Nat
  /\ openTurn \in Nat /\ openStep \in Nat /\ nextTurnNo \in Nat /\ nextStepNo \in Nat
  /\ activity \in Nat /\ exited \subseteq Nat /\ watching \in Nat
  /\ cancels \in Nat /\ jobs \in Nat
LogTypeOK ==
  /\ ended \in {"none", "completed", "max-tokens", "blocked", "aborted", "error"}
  /\ ceiling \in BOOLEAN /\ owes \in BOOLEAN
TypeOK == PhaseTypeOK /\ DriverTypeOK /\ InboxTypeOK /\ CountTypeOK /\ LogTypeOK

(* The log's open boundaries are exactly where the driver stands: whatever *)
(* throws, aborts or is rejected, a turn left is a turn closed, its step   *)
(* first, and the numbers the driver will write next are those the log     *)
(* expects (repair and replay rely on it).                                 *)
LogNesting ==
  /\ openTurn = IF at \in InTurn THEN turn ELSE 0
  /\ openStep = IF at \in InStep THEN step ELSE 0
  /\ nextTurnNo = IF at \in InTurn THEN turn ELSE turn + 1
  /\ at \in InTurn => nextStepNo = IF at \in InStep THEN step ELSE step + 1
  /\ phase = "running" <=> at # "off"

(* What the invariant companion accepts of each boundary event: turns and  *)
(* steps open one at a time, numbered without a gap, steps inside a turn.  *)
Traced ==
  /\ openTurn' # openTurn =>
       \/ openTurn = 0 /\ openTurn' = nextTurnNo /\ openStep = 0
       \/ openTurn' = 0 /\ openStep = 0
  /\ openStep' # openStep =>
       \/ openStep = 0 /\ openStep' = nextStepNo /\ openTurn # 0
       \/ openStep' = 0 /\ openTurn # 0
LogGrammar == [][Traced]_vars

(* The input accepted so far is, each message once and in its order,       *)
(* waiting in one list, claimed by a turn, or announced as discarded.      *)
Increasing(list) == \A i, j \in 1..Len(list) : i < j => list[i] < list[j]
InboxAccounted ==
  LET claimed == {m \in Messages : claimTurn[m] > 0}
      waiting == Range(nextTurn) \cup Range(nextStep)
  IN  /\ Increasing(nextTurn) /\ Increasing(nextStep)
      /\ Range(nextTurn) \cap Range(nextStep) = {}
      /\ waiting \cap claimed = {} /\ waiting \cap discarded = {}
      /\ claimed \cap discarded = {}
      /\ waiting \cup claimed \cup discarded = 1..sent

(* A followed-up prompt is the sole prompt of its own turn, and prompts    *)
(* take their turns in the order they were accepted.                       *)
PromptsOwnTheirTurns ==
  \A m, n \in prompts :
    m < n /\ claimTurn[n] > 0 =>
      \/ m \in discarded
      \/ claimTurn[m] > 0 /\ claimTurn[m] < claimTurn[n]

(* No accepted input is lost, doubled or reordered on its way to a turn. *)
InputReachesTurns == InboxAccounted /\ PromptsOwnTheirTurns

(* Every exit of a turn has assigned its ending (the assertion at the      *)
(* append of turn/end), and once a step of the turn hit the token ceiling, *)
(* no later step downgrades that ending to completed.                      *)
EndingClassified ==
  at \in {"ending", "ended"} /\ turn > 0 =>
    ended # "none" /\ (ceiling => ended # "completed")

(* However a turn is left - completed, aborted, rejected or by an error -  *)
(* the log has closed exactly what it opened, with the ending that befits. *)
BoundariesClosed == LogNesting /\ EndingClassified

(* An aborted activity takes no more work: it claims no input, opens no    *)
(* turn and no step, and dispatches no request.                            *)
NoWorkOnceAborted ==
  aborted # "no" =>
    /\ claimTurn' = claimTurn
    /\ openTurn' \in {openTurn, 0} /\ openStep' \in {openStep, 0}
    /\ at' = "streaming" => at = "streaming"
AbortStopsWork == [][NoWorkOnceAborted]_vars

(* whenIdle resolves only at quiescence: no driver, task or replay is left, *)
(* replacement work included.                                              *)
ResolvesQuiescent ==
  watching # 0 /\ watching' = 0 => phase = "idle" /\ at = "off" /\ ~replay
WhenIdleIsQuiescent == [][ResolvesQuiescent]_vars

(* A cancelled activity converges. *)
CancelConverges == aborted # "no" ~> aborted = "no"

(* A whenIdle call resolves, however many drivers replaced the one it      *)
(* first awaited, unless failed requests are retried without end.          *)
WhenIdleResolves == watching # 0 ~> watching = 0 \/ at = "recovering"

(* Whatever settles late, no activity and nobody who waits for it hangs. *)
ActivitiesSettle == CancelConverges /\ WhenIdleResolves

(* A cancel hit a driver that has not opened its next turn. *)
TurnPrevented == aborted # "no" /\ (at = "starting" \/ (at = "ended" /\ result = "again"))

(* A wake latched behind maintenance or an aborted activity opens a turn   *)
(* without a further send, unless its input left the inbox or another      *)
(* cancel prevents the turn.                                               *)
LatchedWakeReplays == wakeRequested ~> at = "opening" \/ ~HasPending \/ TurnPrevented

(* A wake submitted while idle opens its turn boundary, even if its input  *)
(* is cleared before the driver claims it, unless a status listener aborts *)
(* the driver before its turn or maintenance is started in between.        *)
IdleWakeOpensTurn ==
  sending # "none" /\ phase = "idle" ~> at = "opening" \/ TurnPrevented \/ phase = "maintenance"

(* No wake is forgotten, whichever phase it met. *)
WakesOpenTurns == LatchedWakeReplays /\ IdleWakeOpensTurn

-----------------------------------------------------------------------------
(* What the documentation says and the code does not do. *)

(* docs/architecture.md: a turn closes once nothing is owed; tools that    *)
(* owe another request lead to the next step.                              *)
NothingOwedAtClose ==
  at = "ending" /\ ended \in {"completed", "max-tokens"} => ~owes

(* agent.ts: live drivers claim queued work themselves.  One that already   *)
(* found its inbox drained will not, so the wake of a message that meets it *)
(* there, the last one sent, has to be latched for a replay.               *)
DrainedLeavesNothing ==
  [][ /\ Wake /\ result = "drained" /\ aborted = "no"
      /\ sent \in Range(nextTurn) \cup Range(nextStep)
      => wakeRequested' ]_vars

=============================================================================
