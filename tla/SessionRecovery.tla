--------------------------- MODULE SessionRecovery ---------------------------
(***************************************************************************)
(* What a crash leaves of a session log and how a cold load repairs it:    *)
(* interruptedTurnClosers (packages/core/session/src/repair.ts), the load  *)
(* that commits them (prepareCore and commitPrepared of the persistence    *)
(* coordinator, commitRepair of the plain JSONL backend), and the trace    *)
(* the session's invariant companion replays over the result               *)
(* (packages/core/session/src/invariant.ts).                               *)
(*                                                                         *)
(* The writer is the agent loop: it appends turn, step, assistant and tool *)
(* events in the order AgentLoop and ToolScheduler allow, and may stop     *)
(* anywhere.  Call ids are those of the model, which reuses them from step *)
(* to step.  An event's seq is its position in the log.                    *)
(***************************************************************************)
EXTENDS Integers, Sequences, FiniteSets, SequencesExt

CONSTANTS
  MaxTurns, MaxSteps,   \* bounds: turns, and steps in all
  MaxCalls,             \* bound: tool calls of one assistant message
  MaxCrashes            \* bound: crashes

ASSUME RecoveryBounds ==
  MaxTurns \in Nat /\ MaxSteps \in Nat /\ MaxCalls \in Nat /\ MaxCrashes \in Nat

CallIds == 1..MaxCalls

VARIABLES
  log,      \* the complete records of the stored log
  torn,     \* bytes of an incomplete record follow them
  mode,     \* "driving", "down" (not loaded) or "repairing" (in commitRepair)
  closers,  \* source.closers of the prepared source
  crashes

vars == <<log, torn, mode, closers, crashes>>

Init == log = <<>> /\ torn = FALSE /\ mode = "driving" /\ closers = <<>> /\ crashes = 0

-----------------------------------------------------------------------------
Event(type, turn, step) ==
  [type |-> type, turn |-> turn, step |-> step, calls |-> {}, source |-> 0, code |-> "none"]
CallsEvent(type, turn, step, calls) == [Event(type, turn, step) EXCEPT !.calls = calls]
ResultEvent(turn, step, c, seq, code) ==
  [CallsEvent("tool/result", turn, step, {c}) EXCEPT !.source = seq, !.code = code]

(* validateEvent and applyTransition: the companion's trace of a log, with *)
(* ok telling whether it accepted every event of it.  Null is 0.           *)
FreshTrace == [ok |-> TRUE, openTurn |-> 0, openStep |-> 0, nextTurn |-> 1, nextStep |-> 1,
               pendingCalls |-> {}]

InOpenStep(t, e) == t.openTurn = e.turn /\ t.openStep = e.step

Advance(t, e) ==
  CASE e.type = "turn/start" ->
         [t EXCEPT !.ok = @ /\ t.openTurn = 0 /\ e.turn = t.nextTurn,
                   !.openTurn = e.turn, !.nextStep = 1]
    [] e.type = "turn/end" ->
         [t EXCEPT !.ok = @ /\ t.openTurn = e.turn /\ t.openStep = 0,
                   !.openTurn = 0, !.nextTurn = @ + 1]
    [] e.type = "step/start" ->
         [t EXCEPT !.ok = @ /\ t.openTurn = e.turn /\ t.openStep = 0 /\ e.step = t.nextStep,
                   !.openStep = e.step]
    [] e.type = "step/end" ->
         [t EXCEPT !.ok = @ /\ InOpenStep(t, e),
                   !.openStep = 0, !.nextStep = @ + 1, !.pendingCalls = {}]
    [] e.type = "assistant/message" -> [t EXCEPT !.ok = @ /\ InOpenStep(t, e)]
    [] e.type = "tool/call" ->
         [t EXCEPT !.ok = @ /\ InOpenStep(t, e), !.pendingCalls = @ \cup e.calls]
    [] e.type = "tool/result" ->
         [t EXCEPT !.ok = @ /\ InOpenStep(t, e)
                            /\ (e.calls \subseteq t.pendingCalls \/ e.code = "not-started"),
                   !.pendingCalls = @ \ e.calls]

(* A fold over a log, as a function of the length of the prefix folded; the *)
(* set binds the value so far once, however often Step mentions it.         *)
Folded(Step(_, _), start, events) ==
  LET upTo[i \in 0..Len(events)] ==
        IF i = 0 THEN start
        ELSE CHOOSE after \in {Step(before, events[i]) : before \in {upTo[i - 1]}} : TRUE
  IN  upTo[Len(events)]

Trace(events) == Folded(Advance, FreshTrace, events)

(* The scan of interruptedTurnClosers.  pendingCalls maps a call to its    *)
(* step and, once its tool/call is met, that event's seq; step 0 is absent.*)
NoCalls == [c \in CallIds |-> [step |-> 0, seq |-> 0]]
FreshScan == [openTurn |-> 0, openStep |-> 0, pending |-> NoCalls, seq |-> 0]

(* Fault: the calls of a closed step stay pending. *)
PendingLeaking(s, e) ==
  CASE e.type \in {"turn/start", "turn/end"} -> NoCalls
    [] e.type = "assistant/message" ->
         [c \in CallIds |-> IF c \in e.calls THEN [step |-> e.step, seq |-> 0] ELSE s.pending[c]]
    [] e.type = "tool/result" ->
         [c \in CallIds |-> IF c \in e.calls THEN NoCalls[c] ELSE s.pending[c]]
    [] OTHER -> s.pending

(* Fault: a recorded call start is not noticed. *)
PendingUnstarted(s, e) ==
  CASE e.type \in {"turn/start", "turn/end", "step/end"} -> NoCalls
    [] e.type = "assistant/message" ->
         [c \in CallIds |-> IF c \in e.calls THEN [step |-> e.step, seq |-> 0] ELSE s.pending[c]]
    [] e.type = "tool/result" ->
         [c \in CallIds |-> IF c \in e.calls THEN NoCalls[c] ELSE s.pending[c]]
    [] OTHER -> s.pending

(* Fault: an answered call stays pending. *)
PendingAnswered(s, e) ==
  CASE e.type \in {"turn/start", "turn/end", "step/end"} -> NoCalls
    [] e.type = "assistant/message" ->
         [c \in CallIds |-> IF c \in e.calls THEN [step |-> e.step, seq |-> 0] ELSE s.pending[c]]
    [] OTHER -> s.pending

PendingAfter(s, e) ==
  CASE e.type \in {"turn/start", "turn/end", "step/end"} -> NoCalls
    [] e.type = "assistant/message" ->
         [c \in CallIds |-> IF c \in e.calls THEN [step |-> e.step, seq |-> 0] ELSE s.pending[c]]
    [] e.type = "tool/call" ->
         [c \in CallIds |-> IF c \in e.calls /\ s.pending[c].step # 0
                            THEN [s.pending[c] EXCEPT !.seq = s.seq + 1] ELSE s.pending[c]]
    [] e.type = "tool/result" ->
         [c \in CallIds |-> IF c \in e.calls THEN NoCalls[c] ELSE s.pending[c]]
    [] OTHER -> s.pending

Scan(s, e) ==
  [openTurn |-> CASE e.type = "turn/start" -> e.turn
                  [] e.type = "turn/end" -> 0
                  [] OTHER -> s.openTurn,
   openStep |-> CASE e.type = "step/start" -> e.step
                  [] e.type \in {"turn/start", "turn/end", "step/end"} -> 0
                  [] OTHER -> s.openStep,
   pending |-> PendingAfter(s, e),
   seq |-> s.seq + 1]

(* The synthetic results of the calls still pending, in transcript order. *)
Pending(s) == {c \in CallIds : s.pending[c].step # 0}
Nth(S, i) == CHOOSE c \in S : Cardinality({d \in S : d < c}) = i - 1
ResultFor(s, c) ==
  ResultEvent(s.openTurn, s.pending[c].step, c, s.pending[c].seq,
              IF s.pending[c].seq # 0 THEN "unknown" ELSE "not-started")
PendingResults(s) ==
  [i \in 1..Cardinality(Pending(s)) |-> ResultFor(s, Nth(Pending(s), i))]

StepCloser(s) ==
  IF s.openStep = 0 THEN <<>> ELSE <<Event("step/end", s.openTurn, s.openStep)>>

(* Fault: the step is closed before its calls are answered. *)
ClosersStepFirst(events) ==
  LET s == Folded(Scan, FreshScan, events)
  IN  IF s.openTurn = 0 THEN <<>>
      ELSE StepCloser(s) \o PendingResults(s) \o <<Event("turn/end", s.openTurn, 0)>>

(* interruptedTurnClosers *)
Closers(events) ==
  LET s == Folded(Scan, FreshScan, events)
  IN  IF s.openTurn = 0 THEN <<>>
      ELSE PendingResults(s) \o StepCloser(s) \o <<Event("turn/end", s.openTurn, 0)>>

-----------------------------------------------------------------------------
(* The writer.  A resumed driver counts turns from the last one of the log *)
(* (the constructor of ReactLoopAgent) and the steps of a turn from one.   *)
Positions(type) == {i \in 1..Len(log) : log[i].type = type}
LastTurn == Max({0} \cup {log[i].turn : i \in Positions("turn/start")})

Here == Trace(log)
InThisStep(type) ==
  {i \in Positions(type) : log[i].turn = Here.openTurn /\ log[i].step = Here.openStep}
CallsOf(positions) == UNION {log[i].calls : i \in positions}

Write(e) ==
  /\ mode = "driving"
  /\ log' = Append(log, e)
  /\ UNCHANGED <<torn, mode, closers, crashes>>

TurnStart ==
  /\ Here.openTurn = 0
  /\ LastTurn < MaxTurns
  /\ Write(Event("turn/start", LastTurn + 1, 0))

TurnEnd ==
  /\ Here.openTurn # 0 /\ Here.openStep = 0
  /\ Write(Event("turn/end", Here.openTurn, 0))

(* A turn goes on only after a step that returned, its calls answered.     *)
StepStart ==
  /\ Here.openTurn # 0 /\ Here.openStep = 0
  /\ Cardinality(Positions("step/start")) < MaxSteps
  /\ \A i \in Positions("assistant/message") : log[i].turn = Here.openTurn =>
       \A c \in log[i].calls : \E j \in Positions("tool/result") :
         log[j].turn = log[i].turn /\ log[j].step = log[i].step /\ log[j].calls = {c}
  /\ Write(Event("step/start", Here.openTurn, Here.nextStep))

(* A step that throws ends with its calls unanswered. *)
StepEnd ==
  /\ Here.openStep # 0
  /\ Write(Event("step/end", Here.openTurn, Here.openStep))

(* Calls are named by their position in the message, so names are reused.  *)
AssistantMessage ==
  /\ Here.openStep # 0
  /\ InThisStep("assistant/message") = {}
  /\ \E n \in 0..MaxCalls :
       Write(CallsEvent("assistant/message", Here.openTurn, Here.openStep, 1..n))

(* Calls start in model order, and results are committed in it. *)
ToolCall ==
  LET unstarted == CallsOf(InThisStep("assistant/message")) \ CallsOf(InThisStep("tool/call"))
  IN  /\ Here.openStep # 0
      /\ unstarted # {}
      /\ Write(CallsEvent("tool/call", Here.openTurn, Here.openStep, {Min(unstarted)}))

ToolResult ==
  LET started == CallsOf(InThisStep("tool/call"))
      open == started \ CallsOf(InThisStep("tool/result"))
      seq == CHOOSE i \in InThisStep("tool/call") : log[i].calls = {Min(open)}
  IN  /\ Here.openStep # 0
      /\ open # {}
      /\ Write(ResultEvent(Here.openTurn, Here.openStep, Min(open), seq, "ok"))

-----------------------------------------------------------------------------
(* The process dies, and may tear the record it was writing.  An empty log *)
(* has no file yet: loading it stands for creating the session again.      *)
(* Events a write-behind batch still held are not in the log at all, so    *)
(* losing them is a crash at an earlier position.                          *)
Crash ==
  /\ mode # "down"
  /\ crashes < MaxCrashes
  /\ crashes' = crashes + 1
  /\ mode' = "down" /\ closers' = <<>>
  /\ \/ /\ mode = "driving"
        /\ torn' \in IF log = <<>> THEN {FALSE} ELSE BOOLEAN
        /\ UNCHANGED log
     \/ /\ mode = "repairing" /\ torn
        /\ UNCHANGED <<log, torn>>
     \/ /\ mode = "repairing" /\ ~torn
        /\ \E k \in 0..Len(closers) :
             /\ log' = log \o SubSeq(closers, 1, k)
             /\ torn' \in IF k < Len(closers) THEN BOOLEAN ELSE {FALSE}

(* prepareCore and commitPrepared: a log that needs no repair is resumed.  *)
Load ==
  /\ mode = "down"
  /\ \E missing \in {Closers(log)} :
       /\ closers' = missing
       /\ mode' = IF torn \/ missing # <<>> THEN "repairing" ELSE "driving"
  /\ UNCHANGED <<log, torn, crashes>>

(* Fault: the torn record is left in place. *)
TruncateNothing ==
  /\ mode = "repairing" /\ torn
  /\ mode' = "down"
  /\ closers' = <<>>
  /\ UNCHANGED <<log, torn, crashes>>

(* Fault: with nothing to append, the repair does not return. *)
TruncateStays ==
  /\ mode = "repairing" /\ torn
  /\ torn' = FALSE
  /\ UNCHANGED <<log, mode, closers, crashes>>

(* commitRepair, its first step: the torn record is cut off. *)
Truncate ==
  /\ mode = "repairing" /\ torn
  /\ torn' = FALSE
  /\ mode' = IF closers = <<>> THEN "down" ELSE "repairing"
  /\ UNCHANGED <<log, closers, crashes>>

(* Fault: the closers are appended to whatever the log ends with. *)
CommitClosersAnyway ==
  /\ mode = "repairing" /\ closers # <<>>
  /\ log' = log \o closers
  /\ mode' = "down"
  /\ closers' = <<>>
  /\ UNCHANGED <<torn, crashes>>

(* ... and its second: the closers are appended, and the log is reloaded. *)
CommitClosers ==
  /\ mode = "repairing" /\ ~torn /\ closers # <<>>
  /\ log' = log \o closers
  /\ mode' = "down"
  /\ closers' = <<>>
  /\ UNCHANGED <<torn, crashes>>

(* The append fails and is rolled back: the load rejects. *)
CommitFails ==
  /\ mode = "repairing" /\ ~torn /\ closers # <<>>
  /\ crashes < MaxCrashes
  /\ crashes' = crashes + 1
  /\ mode' = "down"
  /\ closers' = <<>>
  /\ UNCHANGED <<log, torn>>

Drive ==
  \/ TurnStart \/ TurnEnd \/ StepStart \/ StepEnd \/ AssistantMessage \/ ToolCall \/ ToolResult
Recover == Load \/ Truncate \/ CommitClosers
Next == Drive \/ Recover \/ Crash \/ CommitFails

Spec == Init /\ [][Next]_vars

(* A session that is down is loaded again, and a load proceeds; the writer *)
(* owes nothing.                                                           *)
FairSpec == Spec /\ WF_vars(Recover)

-----------------------------------------------------------------------------
(* The types; a session is driven only over a whole log, and a repair is   *)
(* under way exactly while there is something to repair.                   *)
EventSet ==
  [type : {"turn/start", "turn/end", "step/start", "step/end", "assistant/message",
           "tool/call", "tool/result"},
   turn : Nat, step : Nat, calls : SUBSET CallIds, source : Nat,
   code : {"none", "ok", "unknown", "not-started"}]
TypeOK ==
  /\ log \in Seq(EventSet) /\ closers \in Seq(EventSet)
  /\ torn \in BOOLEAN /\ mode \in {"driving", "down", "repairing"} /\ crashes \in Nat
  /\ mode = "driving" => ~torn
  /\ mode = "repairing" <=> mode # "down" /\ (torn \/ closers # <<>>)

(* Wherever a crash cut the log, the repaired log is one the companion     *)
(* accepts from its first event, with no turn or step left open.           *)
RepairAccepted ==
  LET t == Trace(log \o Closers(log)) IN t.ok /\ t.openTurn = 0 /\ t.openStep = 0

(* The repaired tail answers every call of its open step exactly once.     *)
OpenCalls == CallsOf(InThisStep("assistant/message"))
AnswersTo(c) ==
  {i \in InThisStep("tool/result") : log[i].calls = {c}}
Synthetic(c) ==
  {i \in 1..Len(Closers(log)) : Closers(log)[i].type = "tool/result" /\ Closers(log)[i].calls = {c}}
RepairAnswersOnce ==
  \A c \in CallIds :
    Cardinality(AnswersTo(c)) + Cardinality(Synthetic(c)) =
      IF Here.openStep # 0 /\ c \in OpenCalls THEN 1 ELSE 0

(* The model is told that a call never started only if no start was        *)
(* recorded, and otherwise the result cites the start: a side effect is    *)
(* never invited to be repeated.                                           *)
UnknownWhenStarted ==
  \A c \in CallIds : \A i \in Synthetic(c) :
    LET e == Closers(log)[i]
        starts == {j \in InThisStep("tool/call") : log[j].calls = {c}}
    IN  IF starts = {} THEN e.code = "not-started" /\ e.source = 0
                       ELSE e.code = "unknown" /\ e.source \in starts

(* Every call of the crashed step is answered once, and truthfully. *)
RepairAnswers == RepairAnswersOnce /\ UnknownWhenStarted

(* A repair cut short by another crash and begun again comes to the log    *)
(* the first one was writing.                                              *)
RepairConfluent ==
  LET all == Closers(log)
  IN  \A k \in 0..Len(all) :
        SubSeq(all, 1, k) \o Closers(log \o SubSeq(all, 1, k)) = all

(* No crash, repair or write loses a complete record, and none is written  *)
(* behind a torn one, which would make one corrupt record of the two.      *)
RecordsKept == [][IsPrefix(log, log') /\ (torn => log' = log)]_vars

(* A crashed session is driven again, once it stops crashing. *)
Resumes == mode = "down" ~> mode = "driving"

=============================================================================
