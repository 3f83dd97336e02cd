---------------------------- MODULE ToolScheduler ----------------------------
(***************************************************************************)
(* The schedule of one step's tool calls: executeToolCalls and runGroup    *)
(* (packages/core/agent-loop/src/tool-calls.ts).  Exclusive calls are      *)
(* barriers, parallel calls share a bounded rolling pool, and results are  *)
(* committed in model order whatever order their bodies settle in.         *)
(*                                                                         *)
(* One action is one synchronous block of the scheduling coroutine, or the *)
(* settlement of one tool body.  Calls are named by their model order, so  *)
(* a group's indices are offset by the calls earlier groups consumed.      *)
(***************************************************************************)
EXTENDS Integers, Sequences, FiniteSets

CONSTANTS
  NCalls,    \* the calls of the step
  PoolSize   \* agentLoop.config.maxParallelToolCalls

ASSUME BatchAssumption == NCalls \in Nat /\ PoolSize \in Nat \ {0}

Calls == 1..NCalls
Modes == {"parallel", "exclusive"}

VARIABLES
  live,         \* executionMode of each call in the tool registry
  signal,       \* the step's signal is aborted
  pc,           \* the block of the coroutine that runs next
  next,         \* executeToolCalls: calls consumed by finished groups
  mode, last,   \* the group's mode and its last call
  nextToStart, started, committed,  \* runGroup's counters, as call numbers
  aborted,      \* runGroup: aborted, and the outcome's
  failure,      \* schedulerFailure # undefined
  slot,         \* slots: "none", "post" (needsPost) or "final"
  inFlight,     \* keys of the map of dispatches
  body,         \* the promise of a dispatch: "none", "running" or "settled"
  callSeq,      \* callSeqs: the tool/call event a result will cite, 0 for none
  log,          \* the tool events appended to the session
  ranAs         \* history: the registry's mode of a call when it was started

groupVars == <<next, mode, last>>
countVars == <<nextToStart, started, committed>>
callVars  == <<slot, inFlight, body>>
logVars   == <<callSeq, log, ranAs>>
vars == <<live, signal, pc, aborted, failure, groupVars, countVars, callVars, logVars>>

Init ==
  /\ live \in [Calls -> Modes] /\ signal \in BOOLEAN
  /\ pc = "between" /\ next = 0 /\ mode = "parallel" /\ last = 0
  /\ nextToStart = 0 /\ started = 0 /\ committed = 0
  /\ aborted = FALSE /\ failure = FALSE
  /\ slot = [c \in Calls |-> "none"] /\ body = [c \in Calls |-> "none"] /\ inFlight = {}
  /\ callSeq = [c \in Calls |-> 0] /\ log = <<>> /\ ranAs = [c \in Calls |-> "none"]

-----------------------------------------------------------------------------
CallEvent(c) == [type |-> "call", call |-> c, source |-> 0]
ResultEvent(c, seq) == [type |-> "result", call |-> c, source |-> seq]

(* appendSkippedToolCall for the calls c..d: a durable call/result pair    *)
(* each, after some events.                                                *)
SkippedPairs(after, c, d) ==
  [k \in 1..(2 * (d - c + 1)) |->
     LET call == c + (k - 1) \div 2
     IN  IF k % 2 = 1 THEN CallEvent(call)
                      ELSE [type |-> "skipped", call |-> call, source |-> after + k - 1]]

(* Fault: the last started call is skipped as well. *)
SkippedFromStarted(c, d) == SkippedPairs(Len(log), c - 1, d)

SkippedEvents(c, d) == SkippedPairs(Len(log), c, d)

(* runGroup rejects after every dispatch in flight settled. *)
Fail ==
  /\ failure' = TRUE
  /\ pc' = "draining"

(* startCall, up to its await of prepare. *)
StartCall(c) ==
  /\ log' = Append(log, CallEvent(c))
  /\ callSeq' = [callSeq EXCEPT ![c] = Len(log) + 1]
  /\ ranAs' = [ranAs EXCEPT ![c] = live[c]]
  /\ started' = c
  /\ pc' = "preparing"

(* Fault: a group takes with it the calls it left to the next barrier. *)
EndGroupConsumesAll(ab, lst) ==
  /\ next' = lst
  /\ pc' = "between"
  /\ log' = IF ab THEN log \o SkippedEvents(started + 1, lst) ELSE log
  /\ UNCHANGED <<started, callSeq, ranAs>>

(* runGroup past its loop: an aborted group records its unstarted calls as *)
(* skipped and consumes them; a drained one consumes what it started.      *)
EndGroup(ab, lst) ==
  /\ \/ /\ ab
        /\ log' = log \o SkippedEvents(started + 1, lst)
        /\ next' = lst
        /\ pc' = "between"
     \/ /\ ~ab /\ committed # started
        /\ pc' = "rejected"
        /\ UNCHANGED <<log, next>>
     \/ /\ ~ab /\ committed = started
        /\ next' = started
        /\ pc' = "between"
        /\ UNCHANGED log
  /\ UNCHANGED <<started, callSeq, ranAs>>

(* Fault: the pool admits one dispatch too many. *)
MayOverfill(ab, lst) == ~ab /\ nextToStart < lst /\ Cardinality(inFlight) <= PoolSize

(* Fault: the group's mode stands for its later calls'. *)
NeverReclassified(m) == FALSE

(* The condition of fillPool's loop, but for the re-read of a later call's *)
(* mode: an exclusive one is left to the next group.                       *)
MayStart(ab, lst) == ~ab /\ nextToStart < lst /\ Cardinality(inFlight) < PoolSize
Reclassified(m) == nextToStart > next /\ m = "parallel" /\ live[nextToStart + 1] # "parallel"

(* fillPool at its condition; with no call to start, the outer loop races  *)
(* the dispatches in flight or ends the group.                             *)
FillPool(ab, m, lst) ==
  \/ /\ MayStart(ab, lst)
     /\ ~Reclassified(m)
     /\ StartCall(nextToStart + 1)
     /\ UNCHANGED next
  \/ /\ MayStart(ab, lst) => Reclassified(m)
     /\ \/ /\ inFlight # {}
           /\ pc' = "racing"
           /\ UNCHANGED <<next, started, logVars>>
        \/ /\ inFlight = {}
           /\ EndGroup(ab, lst)

(* Fault: settled results are committed past a call still running. *)
CommitSettled(c, events) ==
  LET ready == {n \in (c + 1)..last : slot[n] # "none"}
  IN  /\ committed' = c + Cardinality(ready)
      /\ log' = events \o [k \in 1..Cardinality(ready) |->
            LET n == CHOOSE r \in ready : Cardinality({o \in ready : o < r}) = k - 1
            IN  ResultEvent(n, callSeq[n])]
      /\ pc' = "committed"

(* commitReady from a call on: final results are appended in the same      *)
(* block, up to one that awaits finalize, a call not settled yet, or none. *)
CommitFrom(c, events) ==
  \E stop \in c..last :
    /\ \A d \in (c + 1)..stop : slot[d] = "final"
    /\ stop < last => slot[stop + 1] # "final"
    /\ committed' = stop
    /\ log' = events \o [k \in 1..(stop - c) |-> ResultEvent(c + k, callSeq[c + k])]
    /\ pc' = IF stop < last /\ slot[stop + 1] = "post" THEN "finalizing" ELSE "committed"

-----------------------------------------------------------------------------
(* executeToolCalls between two groups: return, or classify the next call  *)
(* and open its group.                                                     *)
NextGroup ==
  /\ pc = "between"
  /\ \/ /\ aborted \/ next = NCalls
        /\ log' = log \o SkippedEvents(next + 1, NCalls)
        /\ pc' = "returned"
        /\ UNCHANGED <<aborted, groupVars, started, callSeq, ranAs>>
     \/ /\ ~aborted /\ next < NCalls
        /\ mode' = live[next + 1]
        /\ last' = IF mode' = "parallel" THEN NCalls ELSE next + 1
        /\ aborted' = signal
        /\ FillPool(signal, mode', last')
  /\ UNCHANGED <<live, signal, failure, nextToStart, committed, callVars>>

(* startCall resumes: the call is dispatched, or has its result already.   *)
PrepareSettles ==
  /\ pc = "preparing"
  /\ \/ /\ Fail
        /\ UNCHANGED callVars
     \/ /\ ~failure
        /\ pc' = "started"
        /\ inFlight' = inFlight \cup {started}
        /\ body' = [body EXCEPT ![started] = "running"]
        /\ UNCHANGED <<failure, slot>>
     \/ /\ ~failure
        /\ pc' = "started"
        /\ \E s \in {"post", "final"} : slot' = [slot EXCEPT ![started] = s]
        /\ UNCHANGED <<failure, inFlight, body>>
  /\ UNCHANGED <<live, signal, aborted, groupVars, countVars, logVars>>

(* fillPool resumes after startCall. *)
StartReturns ==
  /\ pc = "started"
  /\ nextToStart' = started
  /\ \/ /\ failure
        /\ Fail
        /\ UNCHANGED <<committed, log>>
     \/ /\ ~failure
        /\ CommitFrom(committed, log)
        /\ UNCHANGED failure
  /\ UNCHANGED <<live, signal, aborted, groupVars, started, callVars, callSeq, ranAs>>

(* finalize, awaited for the next result, settles. *)
FinalizeSettles ==
  /\ pc = "finalizing"
  /\ \/ /\ Fail
        /\ UNCHANGED <<committed, log>>
     \/ /\ CommitFrom(committed + 1,
                      Append(log, ResultEvent(committed + 1, callSeq[committed + 1])))
        /\ UNCHANGED failure
  /\ UNCHANGED <<live, signal, aborted, groupVars, nextToStart, started, callVars,
                 callSeq, ranAs>>

(* Fault: an abort that arrived meanwhile is not noticed. *)
CommitReturnsUnaware ==
  /\ pc = "committed"
  /\ \/ /\ failure
        /\ Fail
        /\ UNCHANGED <<next, started, logVars>>
     \/ /\ ~failure
        /\ FillPool(aborted, mode, last)
        /\ UNCHANGED failure
  /\ UNCHANGED <<live, signal, aborted, mode, last, nextToStart, committed, callVars>>

(* commitReady returns to fillPool or to the outer loop: both check the    *)
(* failure and the signal, and come to fillPool's condition.               *)
CommitReturns ==
  /\ pc = "committed"
  /\ \/ /\ failure
        /\ Fail
        /\ UNCHANGED <<aborted, next, started, logVars>>
     \/ /\ ~failure
        /\ aborted' = (aborted \/ signal)
        /\ FillPool(aborted', mode, last)
        /\ UNCHANGED failure
  /\ UNCHANGED <<live, signal, mode, last, nextToStart, committed, callVars>>

(* Fault: the settled dispatch stays in the map. *)
RaceSettlesKeeping ==
  /\ pc = "racing"
  /\ \E c \in inFlight : body[c] = "settled"
  /\ ~failure
  /\ CommitFrom(committed, log)
  /\ UNCHANGED <<live, signal, aborted, failure, groupVars, nextToStart, started, callVars,
                 callSeq, ranAs>>

(* Promise.race yields a settled dispatch. *)
RaceSettles ==
  /\ pc = "racing"
  /\ \E c \in inFlight :
        /\ body[c] = "settled"
        /\ inFlight' = inFlight \ {c}
  /\ \/ /\ failure
        /\ Fail
        /\ UNCHANGED <<committed, log>>
     \/ /\ ~failure
        /\ CommitFrom(committed, log)
        /\ UNCHANGED failure
  /\ UNCHANGED <<live, signal, aborted, groupVars, nextToStart, started, slot, body,
                 callSeq, ranAs>>

(* Fault: one settled dispatch is taken for all. *)
DrainedByOne ==
  /\ pc = "draining"
  /\ inFlight = {} \/ \E c \in inFlight : body[c] = "settled"
  /\ pc' = "rejected"
  /\ UNCHANGED <<live, signal, aborted, failure, groupVars, countVars, callVars, logVars>>

(* Fault: a failed batch answers the calls it did not start. *)
DrainedFabricating ==
  /\ pc = "draining"
  /\ \A c \in inFlight : body[c] = "settled"
  /\ pc' = "rejected"
  /\ log' = log \o SkippedEvents(started + 1, NCalls)
  /\ UNCHANGED <<live, signal, aborted, failure, groupVars, countVars, callVars, callSeq,
                 ranAs>>

(* The catch block: every dispatch in flight settled, and runGroup rejects. *)
Drained ==
  /\ pc = "draining"
  /\ \A c \in inFlight : body[c] = "settled"
  /\ pc' = "rejected"
  /\ UNCHANGED <<live, signal, aborted, failure, groupVars, countVars, callVars, logVars>>

(* A dispatch settles with a result, or rejects. *)
DispatchSettles ==
  /\ \E c \in Calls :
        /\ body[c] = "running"
        /\ body' = [body EXCEPT ![c] = "settled"]
        /\ \/ /\ \E s \in {"post", "final"} : slot' = [slot EXCEPT ![c] = s]
              /\ UNCHANGED failure
           \/ /\ failure' = TRUE
              /\ UNCHANGED slot
  /\ UNCHANGED <<live, signal, pc, aborted, groupVars, countVars, inFlight, logVars>>

(* The environment: the step is aborted, or the registry changes the mode  *)
(* of a call the schedule has yet to read.                                 *)
Running == pc \notin {"returned", "rejected"}

Abort ==
  /\ Running
  /\ ~signal
  /\ signal' = TRUE
  /\ UNCHANGED <<live, pc, aborted, failure, groupVars, countVars, callVars, logVars>>

Reregister ==
  /\ Running
  /\ \E c \in Calls, m \in Modes :
        /\ c > started
        /\ live[c] # m
        /\ live' = [live EXCEPT ![c] = m]
  /\ UNCHANGED <<signal, pc, aborted, failure, groupVars, countVars, callVars, logVars>>

Settle ==
  \/ NextGroup \/ PrepareSettles \/ StartReturns \/ FinalizeSettles \/ CommitReturns
  \/ RaceSettles \/ Drained \/ DispatchSettles

Next == Settle \/ Abort \/ Reregister

Spec == Init /\ [][Next]_vars

(* Policy checks, finalizers and tool bodies settle (a body that never      *)
(* does holds its step), and the coroutine runs on.                         *)
FairSpec == Spec /\ WF_vars(Settle)

-----------------------------------------------------------------------------
EventType == [type : {"call", "result", "skipped"}, call : Calls, source : Nat]
TypeOK ==
  /\ live \in [Calls -> Modes] /\ mode \in Modes
  /\ signal \in BOOLEAN /\ aborted \in BOOLEAN /\ failure \in BOOLEAN
  /\ pc \in {"between", "preparing", "started", "finalizing", "committed", "racing",
             "draining", "returned", "rejected"}
  /\ next \in 0..NCalls /\ last \in 0..NCalls
  /\ nextToStart \in 0..NCalls /\ started \in 0..NCalls /\ committed \in 0..NCalls
  /\ slot \in [Calls -> {"none", "post", "final"}]
  /\ body \in [Calls -> {"none", "running", "settled"}] /\ inFlight \subseteq Calls
  /\ callSeq \in [Calls -> Nat] /\ log \in Seq(EventType)
  /\ ranAs \in [Calls -> Modes \cup {"none"}]

(* Whatever order bodies settle in, calls and results are recorded in      *)
(* model order, once and without a gap, and a result cites the call it     *)
(* answers.                                                                *)
SameKind(e, f) == (e.type = "call") = (f.type = "call")
OrderedAt(events, j) ==
  /\ events[j].call > 1 =>
       \E i \in 1..(j - 1) :
         SameKind(events[i], events[j]) /\ events[i].call = events[j].call - 1
  /\ \A i \in 1..(j - 1) : SameKind(events[i], events[j]) => events[i].call < events[j].call
  /\ events[j].type # "call" =>
       events[j].source \in 1..(j - 1) /\ events[events[j].source] = CallEvent(events[j].call)
ModelOrder == \A j \in 1..Len(log) : OrderedAt(log, j)

(* A batch that returns, aborted or not, has answered every call of the    *)
(* model, so that the next request replays a valid transcript.             *)
EveryCallAnswered ==
  pc = "returned" =>
    \A c \in Calls : \E i \in 1..Len(log) : log[i].type # "call" /\ log[i].call = c

(* A call that was exclusive when it started had its predecessors' results *)
(* committed, and no other call starts before its own is.                  *)
ExclusiveAlone ==
  LET open == {c \in Calls : ranAs[c] # "none" /\ c > committed}
  IN  \A c \in open : ranAs[c] = "exclusive" => open = {c}

(* The rolling pool never runs more bodies than it is configured to.       *)
PoolBounded == Cardinality({c \in Calls : body[c] = "running"}) <= PoolSize

(* What runs together is what may: a full pool or one exclusive call. *)
PoolDiscipline == ExclusiveAlone /\ PoolBounded

(* Once the signal is aborted no further call is started, and once a       *)
(* dispatch has failed the scheduler, none is started or dispatched.       *)
NoStart == signal => ranAs' = ranAs
NoDispatch ==
  failure => ranAs' = ranAs /\ \A c \in Calls : body[c] = "none" => body'[c] = "none"
NoLateStarts == [][NoStart /\ NoDispatch]_vars

(* Synthetic answers are an aborted batch's, for calls that never started; *)
(* a scheduler failure fabricates none.                                    *)
NothingFabricated ==
  LET skipped == {e \in {log[i] : i \in 1..Len(log)} : e.type = "skipped"}
  IN  skipped # {} => signal /\ pc # "rejected" /\ \A e \in skipped : ranAs[e.call] = "none"

(* The batch's log is a transcript the model may be shown: in its order,   *)
(* complete when the batch returns, and with no answer made up for a call  *)
(* that ran.                                                               *)
TranscriptValid == ModelOrder /\ EveryCallAnswered /\ NothingFabricated

(* A batch is rejected only for a failure, and no tool body outlives its   *)
(* batch, not even a rejected one.                                         *)
FailureContained ==
  /\ pc = "rejected" => failure
  /\ ~Running => \A c \in Calls : body[c] # "running"

(* The batch settles. *)
BatchSettles == <>~Running

=============================================================================
