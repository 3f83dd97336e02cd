------------------------- MODULE ToolSchedulerProofs -------------------------
(***************************************************************************)
(* Safety of the tool scheduler for any number of calls and any pool size, *)
(* by inductive invariants: Schedule (counters, slots and dispatches)      *)
(* first, then PoolLimit, Barriers, Transcript (what the log records) and  *)
(* Synthetic (when it holds answers no tool gave), which rest on it.       *)
(***************************************************************************)
EXTENDS ToolScheduler, FiniteSetTheorems, SequenceTheorems, TLAPS

(* A group is under way, or has failed. *)
Active == pc \in {"preparing", "started", "finalizing", "committed", "racing", "draining",
                  "rejected"}

ControlTypes ==
  /\ live \in [Calls -> Modes] /\ mode \in Modes
  /\ signal \in BOOLEAN /\ aborted \in BOOLEAN /\ failure \in BOOLEAN
  /\ pc \in {"between", "preparing", "started", "finalizing", "committed", "racing",
             "draining", "returned", "rejected"}
  /\ next \in 0..NCalls /\ last \in 0..NCalls
  /\ nextToStart \in 0..NCalls /\ started \in 0..NCalls /\ committed \in 0..NCalls
  /\ slot \in [Calls -> {"none", "post", "final"}]
  /\ body \in [Calls -> {"none", "running", "settled"}] /\ inFlight \subseteq Calls
  /\ ranAs \in [Calls -> Modes \cup {"none"}]

(* What the counters say of each other: calls are consumed, committed and  *)
(* started in this order, and a group that is over has committed all it    *)
(* started.                                                                *)
Counters ==
  /\ Active => /\ next <= committed /\ committed <= started
               /\ next < started /\ started <= last
               /\ mode = "exclusive" => last = next + 1
  /\ pc \in {"preparing", "started"} => nextToStart = started - 1
  /\ pc \in {"finalizing", "committed", "racing"} => nextToStart = started
  /\ pc = "finalizing" => committed < started
  /\ pc \in {"between", "returned"} =>
       /\ committed = started /\ started <= next
       /\ ~aborted => next = started /\ nextToStart = started
  /\ committed <= started

(* Where each call is: not started, with a body in flight, or settled; and *)
(* nothing that settled leaves the map before the failure is noticed or    *)
(* its result can be committed.                                            *)
Placed(c) ==
  /\ c > started => slot[c] = "none" /\ body[c] = "none" /\ ranAs[c] = "none" /\ c \notin inFlight
  /\ c <= started => ranAs[c] # "none"
  /\ body[c] = "running" => c \in inFlight /\ slot[c] = "none"
  /\ c \in inFlight => body[c] # "none" /\ (slot[c] = "none" => body[c] = "running" \/ failure)
  /\ pc = "preparing" /\ c = started => slot[c] = "none" /\ c \notin inFlight /\ body[c] = "none"
  /\ pc \notin {"draining", "rejected"} /\ committed < c /\ c <= started /\ slot[c] = "none" =>
       c \in inFlight \/ (pc = "preparing" /\ c = started)
Places == \A c \in Calls : Placed(c)

(* What the blocks of the coroutine know of the dispatches. *)
Dispatches ==
  /\ pc \in {"between", "returned"} => inFlight = {} /\ ~failure
  /\ pc \in {"committed", "racing"} /\ committed < started => committed + 1 \in inFlight
  /\ pc \in {"draining", "rejected"} => failure
  /\ pc = "rejected" => \A c \in Calls : body[c] # "running"

Schedule == ControlTypes /\ Counters /\ Places /\ Dispatches

-----------------------------------------------------------------------------
LEMMA NextCases ==
  ASSUME [Next]_vars
  PROVE  \/ NextGroup \/ PrepareSettles \/ StartReturns \/ FinalizeSettles \/ CommitReturns
         \/ RaceSettles \/ Drained \/ DispatchSettles \/ Abort \/ Reregister
         \/ UNCHANGED vars
BY DEF Next, Settle

LEMMA ScheduleInit == Init => Schedule
<1> SUFFICES ASSUME Init PROVE Schedule
  OBVIOUS
<1> USE BatchAssumption DEF Init, Calls, Modes
<1>1. ControlTypes
  <2>1. live \in [Calls -> Modes] /\ signal \in BOOLEAN
    BY DEF Init
  <2>2. /\ slot \in [Calls -> {"none", "post", "final"}]
        /\ body \in [Calls -> {"none", "running", "settled"}]
        /\ ranAs \in [Calls -> Modes \cup {"none"}]
    BY DEF Init
  <2>3. /\ next \in 0..NCalls /\ last \in 0..NCalls
        /\ nextToStart \in 0..NCalls /\ started \in 0..NCalls /\ committed \in 0..NCalls
    BY DEF Init
  <2>4. mode \in Modes /\ inFlight \subseteq Calls
    BY DEF Init
  <2>5. aborted \in BOOLEAN /\ failure \in BOOLEAN
    BY DEF Init
  <2>6. QED
    BY <2>1, <2>2, <2>3, <2>4 DEF ControlTypes
<1>2. Counters
  BY DEF Counters, Active
<1>3. Places
  BY DEF Places, Placed
<1>4. Dispatches
  BY DEF Dispatches
<1>5. QED
  BY <1>1, <1>2, <1>3, <1>4 DEF Schedule

LEMMA NextGroupSchedule ==
  ASSUME Schedule, NextGroup
  PROVE  Schedule'
<1> USE BatchAssumption DEF Schedule, ControlTypes, Counters, Places, Placed, Dispatches,
        Active, Calls, Modes, NextGroup, groupVars, callVars, FillPool, logVars
<1>1. CASE aborted \/ next = NCalls
  BY <1>1
<1>2. CASE ~aborted /\ next < NCalls
  <2>1. CASE MayStart(signal, last') /\ StartCall(nextToStart + 1) /\ UNCHANGED next
    BY <1>2, <2>1 DEF MayStart, StartCall
  <2>2. CASE EndGroup(signal, last')
    BY <1>2, <2>2 DEF EndGroup
  <2>3. inFlight = {}
    OBVIOUS
  <2> HIDE DEF Schedule, ControlTypes, Counters, Places, Placed, Dispatches, Active, Modes
  <2>4. QED
    BY <1>2, <2>1, <2>2, <2>3
<1>3. QED
  BY <1>1, <1>2

LEMMA CommitReturnsSchedule ==
  ASSUME Schedule, CommitReturns
  PROVE  Schedule'
<1> USE BatchAssumption DEF Schedule, ControlTypes, Counters, Places, Placed, Dispatches,
        Active, Calls, Modes, CommitReturns, groupVars, callVars, logVars, Fail
<1>1. CASE failure
  BY <1>1
<1>2. CASE ~failure /\ FillPool(aborted', mode, last)
  <2>1. CASE MayStart(aborted', last) /\ StartCall(nextToStart + 1) /\ UNCHANGED next
    BY <1>2, <2>1 DEF MayStart, StartCall
  <2>2. CASE pc' = "racing" /\ UNCHANGED <<next, started, logVars>>
    BY <1>2, <2>2
  <2>3. CASE inFlight = {} /\ EndGroup(aborted', last)
    <3>1. committed = started
      BY <1>2, <2>3
    <3>2. QED
      BY <1>2, <2>3, <3>1 DEF EndGroup
  <2>4. QED
    BY <1>2, <2>1, <2>2, <2>3 DEF FillPool
<1>3. QED
  BY <1>1, <1>2

LEMMA PrepareSettlesSchedule ==
  ASSUME Schedule, PrepareSettles
  PROVE  Schedule'
<1> USE BatchAssumption DEF Schedule, Calls, PrepareSettles, Fail, groupVars, countVars,
        callVars, logVars
<1>1. CASE Fail /\ UNCHANGED callVars
  <2>1. ControlTypes' /\ Counters'
    BY <1>1 DEF ControlTypes, Counters, Active
  <2>2. Places' /\ Dispatches'
    BY <1>1 DEF Places, Placed, Dispatches
  <2>3. QED
    BY <2>1, <2>2
<1>2. CASE /\ ~failure /\ pc' = "started"
           /\ inFlight' = inFlight \cup {started}
           /\ body' = [body EXCEPT ![started] = "running"]
           /\ UNCHANGED <<failure, slot>>
  <2>1. started \in Calls
    BY DEF ControlTypes, Counters, Active
  <2>2. ControlTypes' /\ Counters'
    BY <1>2, <2>1 DEF ControlTypes, Counters, Active
  <2>3. Places' /\ Dispatches'
    BY <1>2, <2>1 DEF Places, Placed, Dispatches, ControlTypes
  <2>4. QED
    BY <2>2, <2>3
<1>3. CASE /\ ~failure /\ pc' = "started"
           /\ \E s \in {"post", "final"} : slot' = [slot EXCEPT ![started] = s]
           /\ UNCHANGED <<failure, inFlight, body>>
  <2>1. started \in Calls
    BY DEF ControlTypes, Counters, Active
  <2>2. ControlTypes' /\ Counters'
    BY <1>3, <2>1 DEF ControlTypes, Counters, Active
  <2>3. Places' /\ Dispatches'
    BY <1>3, <2>1 DEF Places, Placed, Dispatches, ControlTypes
  <2>4. QED
    BY <2>2, <2>3
<1>4. QED
  BY <1>1, <1>2, <1>3

(* The commits: past the last final result, the next one is missing, in    *)
(* flight, or awaits finalize.                                             *)
LEMMA CommitFromSchedule ==
  ASSUME NEW c \in 0..last, NEW events, ControlTypes, Counters, Places, c <= started,
         committed <= c, CommitFrom(c, events), Active, pc \notin {"preparing", "draining", "rejected"},
         UNCHANGED <<started, slot>>
  PROVE  /\ committed' \in 0..NCalls /\ c <= committed' /\ committed' <= started
         /\ pc' \in {"finalizing", "committed"}
         /\ pc' = "finalizing" => committed' < started
         /\ pc' = "committed" /\ committed' < started =>
              slot[committed' + 1] = "none" /\ committed' + 1 \in inFlight
<1> USE BatchAssumption DEF ControlTypes, Counters, Calls, Active
<1>1. PICK stop \in c..last :
        /\ \A d \in (c + 1)..stop : slot[d] = "final"
        /\ stop < last => slot[stop + 1] # "final"
        /\ committed' = stop
        /\ pc' = IF stop < last /\ slot[stop + 1] = "post" THEN "finalizing" ELSE "committed"
  BY DEF CommitFrom
<1>2. stop <= started
  <2>1. SUFFICES ASSUME stop > started PROVE FALSE
    OBVIOUS
  <2>2. stop \in (c + 1)..stop /\ stop \in Calls
    BY <2>1
  <2>3. QED
    BY <1>1, <2>1, <2>2 DEF Places, Placed
<1>3. stop < last => stop + 1 \in Calls
  OBVIOUS
<1>4. pc' = "finalizing" => stop < started
  BY <1>1, <1>2, <1>3 DEF Places, Placed
<1>5. pc' = "committed" /\ stop < started => slot[stop + 1] = "none" /\ stop + 1 \in inFlight
  <2>1. SUFFICES ASSUME pc' = "committed", stop < started
                 PROVE  slot[stop + 1] = "none" /\ stop + 1 \in inFlight
    OBVIOUS
  <2>2. stop + 1 \in Calls /\ stop < last
    BY <2>1
  <2>3. slot[stop + 1] = "none"
    BY <1>1, <2>1, <2>2
  <2>4. Placed(stop + 1)
    BY <2>2 DEF Places
  <2>5. QED
    BY <2>1, <2>2, <2>3, <2>4 DEF Placed
<1>6. QED
  BY <1>1, <1>2, <1>4, <1>5

LEMMA StartReturnsSchedule ==
  ASSUME Schedule, StartReturns
  PROVE  Schedule'
<1> USE BatchAssumption DEF Schedule, Counters, Active, Calls, StartReturns, Fail,
        groupVars, callVars
<1>1. CASE failure
  <2>1. ControlTypes' /\ Counters'
    BY <1>1 DEF ControlTypes
  <2>2. Places' /\ Dispatches'
    BY <1>1 DEF Places, Placed, Dispatches, ControlTypes
  <2>3. QED
    BY <2>1, <2>2
<1>2. CASE ~failure
  <2>1. committed \in 0..last
    BY DEF ControlTypes
  <2>2. /\ committed' \in 0..NCalls /\ committed <= committed' /\ committed' <= started
        /\ pc' \in {"finalizing", "committed"}
        /\ pc' = "finalizing" => committed' < started
        /\ pc' = "committed" /\ committed' < started =>
             slot[committed' + 1] = "none" /\ committed' + 1 \in inFlight
    BY <1>2, <2>1, CommitFromSchedule
  <2>3. ControlTypes' /\ Counters'
    BY <1>2, <2>2 DEF ControlTypes
  <2>4. Places'
    BY <1>2, <2>2 DEF Places, Placed, ControlTypes
  <2>5. Dispatches'
    BY <1>2, <2>2 DEF ControlTypes, Dispatches
  <2>6. QED
    BY <2>3, <2>4, <2>5
<1>3. QED
  BY <1>1, <1>2

LEMMA FinalizeSettlesSchedule ==
  ASSUME Schedule, FinalizeSettles
  PROVE  Schedule'
<1> USE BatchAssumption DEF Schedule, Counters, Active, Calls, FinalizeSettles, Fail,
        groupVars, callVars
<1>1. CASE Fail /\ UNCHANGED <<committed, log>>
  <2>1. ControlTypes' /\ Counters'
    BY <1>1 DEF ControlTypes
  <2>2. Places' /\ Dispatches'
    BY <1>1 DEF Places, Placed, Dispatches, ControlTypes
  <2>3. QED
    BY <2>1, <2>2
<1>2. CASE /\ CommitFrom(committed + 1,
                Append(log, ResultEvent(committed + 1, callSeq[committed + 1])))
           /\ UNCHANGED failure
  <2>1. committed + 1 \in 0..last
    BY DEF ControlTypes
  <2>2. /\ committed' \in 0..NCalls /\ committed <= committed' /\ committed' <= started
        /\ pc' \in {"finalizing", "committed"}
        /\ pc' = "finalizing" => committed' < started
        /\ pc' = "committed" /\ committed' < started =>
             slot[committed' + 1] = "none" /\ committed' + 1 \in inFlight
    <3>1. next <= committed + 1 /\ committed + 1 <= started
      BY DEF ControlTypes
    <3>2. QED
      BY <1>2, <2>1, <3>1, CommitFromSchedule DEF ControlTypes
  <2>3. ControlTypes' /\ Counters'
    BY <1>2, <2>2 DEF ControlTypes
  <2>5. Places'
    BY <1>2, <2>2 DEF Places, Placed, ControlTypes
  <2>6. Dispatches'
    BY <1>2, <2>2 DEF ControlTypes, Dispatches
  <2>7. QED
    BY <2>3, <2>5, <2>6
<1>3. QED
  BY <1>1, <1>2

LEMMA RaceSettlesSchedule ==
  ASSUME Schedule, RaceSettles
  PROVE  Schedule'
<1> USE BatchAssumption DEF Schedule, Counters, Active, Calls, Fail, groupVars
<1>0. PICK s \in inFlight : body[s] = "settled" /\ inFlight' = inFlight \ {s}
  BY DEF RaceSettles
<1> USE DEF RaceSettles
<1>1. CASE failure
  <2>1. ControlTypes' /\ Counters'
    BY <1>1, <1>0 DEF ControlTypes
  <2>2. Places' /\ Dispatches'
    BY <1>1, <1>0 DEF Places, Placed, Dispatches, ControlTypes
  <2>3. QED
    BY <2>1, <2>2
<1>2. CASE ~failure
  <2>1. committed \in 0..last
    BY DEF ControlTypes
  <2>2. /\ committed' \in 0..NCalls /\ committed <= committed' /\ committed' <= started
        /\ pc' \in {"finalizing", "committed"}
        /\ pc' = "finalizing" => committed' < started
        /\ pc' = "committed" /\ committed' < started =>
             slot[committed' + 1] = "none" /\ committed' + 1 \in inFlight
    BY <1>2, <2>1, CommitFromSchedule
  <2>3. ControlTypes' /\ Counters'
    BY <1>2, <1>0, <2>2 DEF ControlTypes
  <2>4. slot[s] # "none"
    BY <1>0, <1>2 DEF Places, Placed, ControlTypes
  <2>6. Places'
    BY <1>2, <1>0, <2>2, <2>4 DEF Places, Placed, ControlTypes
  <2>7. Dispatches'
    BY <1>2, <1>0, <2>2, <2>4 DEF ControlTypes, Dispatches
  <2>8. QED
    BY <2>3, <2>6, <2>7
<1>3. QED
  BY <1>1, <1>2

LEMMA DispatchSettlesSchedule ==
  ASSUME Schedule, DispatchSettles
  PROVE  Schedule'
<1>1. PICK c \in Calls :
        /\ body[c] = "running"
        /\ body' = [body EXCEPT ![c] = "settled"]
        /\ \/ \E s \in {"post", "final"} : slot' = [slot EXCEPT ![c] = s] /\ failure' = failure
           \/ failure' = TRUE /\ slot' = slot
  BY DEF DispatchSettles
<1> USE <1>1 DEF Schedule, DispatchSettles, groupVars, countVars, logVars, Calls
<1>2. c \in inFlight /\ slot[c] = "none" /\ pc \notin {"between", "returned", "rejected"}
  BY DEF Places, Placed, Dispatches
<1>3. ControlTypes' /\ Counters'
  <2>1. slot' \in [Calls -> {"none", "post", "final"}] /\ failure' \in BOOLEAN
    <3>1. CASE \E s \in {"post", "final"} : slot' = [slot EXCEPT ![c] = s] /\ failure' = failure
      BY <3>1 DEF ControlTypes
    <3>2. CASE failure' = TRUE /\ slot' = slot
      BY <3>2 DEF ControlTypes
    <3>3. QED
      BY <3>1, <3>2
  <2>2. QED
    BY <2>1 DEF ControlTypes, Counters, Active
<1>4. Places'
  <2>1. SUFFICES ASSUME NEW d \in Calls PROVE Placed(d)'
    BY DEF Places
  <2>2. CASE d = c
    BY <1>2, <2>2 DEF Places, Placed, ControlTypes
  <2>3. CASE d # c
    <3>1. slot'[d] = slot[d] /\ body'[d] = body[d]
      BY <2>3 DEF ControlTypes
    <3>2. QED
      BY <3>1 DEF Places, Placed, ControlTypes
  <2>4. QED
    BY <2>2, <2>3
<1>5. Dispatches'
  BY <1>2 DEF Dispatches, ControlTypes
<1>6. QED
  BY <1>3, <1>4, <1>5

LEMMA OthersSchedule ==
  ASSUME Schedule, Drained \/ Abort \/ Reregister \/ UNCHANGED vars
  PROVE  Schedule'
<1> USE DEF Schedule, Drained, Abort, Reregister, Running, vars, groupVars, countVars, callVars,
   logVars
<1>1. ControlTypes'
  BY DEF ControlTypes
<1>2. Counters'
  BY DEF Counters, Active
<1>3. Places'
  BY DEF Places, Placed
<1>4. Dispatches'
  BY DEF Dispatches, Places, Placed, ControlTypes
<1>5. QED
  BY <1>1, <1>2, <1>3, <1>4

LEMMA ScheduleInvariant == Spec => []Schedule
<1>1. Schedule /\ [Next]_vars => Schedule'
  BY NextCases, NextGroupSchedule, PrepareSettlesSchedule, StartReturnsSchedule,
     FinalizeSettlesSchedule, CommitReturnsSchedule, RaceSettlesSchedule,
     DispatchSettlesSchedule, OthersSchedule
<1>2. QED
  BY ScheduleInit, <1>1, PTL DEF Spec

(* Only a failed scheduler rejects, since a group that drained has         *)
(* committed every call it started; and no tool body runs on once its      *)
(* batch has returned or been rejected.                                    *)
THEOREM FailuresAreContained == Spec => []FailureContained
<1>1. Schedule => (pc = "rejected" => failure)
  BY DEF Schedule, Dispatches
<1>2. Schedule => (~Running => \A c \in Calls : body[c] # "running")
  BY DEF Schedule, Dispatches, Places, Placed, ControlTypes, Running
<1>3. Schedule => FailureContained
  BY <1>1, <1>2 DEF FailureContained
<1>4. QED
  BY ScheduleInvariant, <1>3, PTL

(* Once a dispatch has failed, no call is started and none dispatched.     *)
LEMMA FailureStops == Spec => [][NoDispatch]_vars
<1>1. Schedule /\ [Next]_vars => [NoDispatch]_vars
  <2> SUFFICES ASSUME Schedule, [Next]_vars, failure
               PROVE  NoDispatch \/ UNCHANGED vars
    BY DEF NoDispatch
  <2>1. CASE NextGroup
    BY <2>1 DEF NextGroup, Schedule, Dispatches
  <2>2. CASE CommitReturns
    BY <2>2 DEF CommitReturns, NoDispatch, logVars, callVars
  <2>3. CASE PrepareSettles
    BY <2>3 DEF PrepareSettles, NoDispatch, logVars, callVars
  <2>4. CASE DispatchSettles
    BY <2>4 DEF DispatchSettles, NoDispatch, logVars, Schedule, ControlTypes
  <2>5. CASE StartReturns \/ FinalizeSettles \/ RaceSettles \/ Drained \/ Abort \/ Reregister
    BY <2>5 DEF StartReturns, FinalizeSettles, RaceSettles, Drained, Abort, Reregister,
       NoDispatch, logVars, callVars
  <2>6. QED
    BY <2>1, <2>2, <2>3, <2>4, <2>5, NextCases
<1>2. QED
  BY ScheduleInvariant, <1>1, PTL DEF Spec

(* Once the step is aborted, no further call is started.                   *)
LEMMA AbortStops == Spec => [][NoStart]_vars
<1>1. [Next]_vars => [NoStart]_vars
  <2> SUFFICES ASSUME [Next]_vars, signal
               PROVE  NoStart \/ UNCHANGED vars
    BY DEF NoStart
  <2>1. CASE NextGroup
    BY <2>1 DEF NextGroup, NoStart, FillPool, MayStart, EndGroup, logVars
  <2>2. CASE CommitReturns
    BY <2>2 DEF CommitReturns, NoStart, FillPool, MayStart, EndGroup, logVars
  <2>3. CASE PrepareSettles \/ DispatchSettles \/ StartReturns \/ FinalizeSettles
             \/ RaceSettles \/ Drained \/ Abort \/ Reregister
    BY <2>3 DEF PrepareSettles, DispatchSettles, StartReturns, FinalizeSettles,
       RaceSettles, Drained, Abort, Reregister, NoStart, logVars
  <2>4. QED
    BY <2>1, <2>2, <2>3, NextCases
<1>2. QED
  BY <1>1, PTL DEF Spec

(* Neither an aborted nor a failed scheduler starts anything more.         *)
THEOREM StartsStop == Spec => NoLateStarts
BY FailureStops, AbortStops, PTL DEF NoLateStarts

-----------------------------------------------------------------------------
(* The pool: only a call that is being prepared is about to join it.       *)
PoolLimit ==
  /\ Cardinality(inFlight) <= PoolSize
  /\ pc = "preparing" => Cardinality(inFlight) < PoolSize

LEMMA CallsFinite == \A S \in SUBSET Calls : IsFiniteSet(S)
<1>1. 1 \in Int /\ NCalls \in Int
  BY BatchAssumption
<1>2. IsFiniteSet(1..NCalls)
  BY <1>1, FS_Interval
<1>3. QED
  BY <1>2, FS_Subset DEF Calls

LEMMA PoolLimitStep ==
  ASSUME Schedule, PoolLimit, [Next]_vars
  PROVE  PoolLimit'
<1>0. IsFiniteSet(inFlight) /\ Cardinality(inFlight) \in Nat
  BY CallsFinite, FS_CardinalityType DEF Schedule, ControlTypes
<1>1. CASE NextGroup \/ CommitReturns
  <2>1. inFlight' = inFlight
    BY <1>1 DEF NextGroup, CommitReturns, callVars
  <2>2. pc' = "preparing" => Cardinality(inFlight) < PoolSize
    BY <1>1 DEF NextGroup, CommitReturns, FillPool, MayStart, EndGroup, Fail
  <2>3. QED
    BY <2>1, <2>2 DEF PoolLimit
<1>2. CASE PrepareSettles
  <2>1. CASE inFlight' = inFlight /\ pc' # "preparing"
    BY <2>1 DEF PoolLimit
  <2>2. CASE inFlight' = inFlight \cup {started} /\ pc' = "started"
    <3>1. started \notin inFlight /\ pc = "preparing"
      BY <1>2, BatchAssumption DEF PrepareSettles, Schedule, Places, Placed, ControlTypes,
         Counters, Active, Calls
    <3>2. Cardinality(inFlight \cup {started}) = Cardinality(inFlight) + 1
      BY <1>0, <3>1, FS_AddElement
    <3>3. QED
      BY <1>0, <2>2, <3>1, <3>2, BatchAssumption DEF PoolLimit
  <2>3. QED
    BY <1>2, <2>1, <2>2 DEF PrepareSettles, Fail, callVars
<1>3. CASE RaceSettles
  <2>1. PICK c \in inFlight : inFlight' = inFlight \ {c}
    BY <1>3 DEF RaceSettles
  <2>2. Cardinality(inFlight') = Cardinality(inFlight) - 1
    BY <1>0, <2>1, FS_RemoveElement
  <2>3. pc' # "preparing"
    BY <1>3 DEF RaceSettles, Fail, CommitFrom
  <2>4. QED
    BY <1>0, <2>2, <2>3, BatchAssumption DEF PoolLimit
<1>4. CASE StartReturns \/ FinalizeSettles
  BY <1>4 DEF StartReturns, FinalizeSettles, Fail, CommitFrom, callVars, PoolLimit
<1>5. CASE Drained \/ DispatchSettles \/ Abort \/ Reregister \/ UNCHANGED vars
  BY <1>5 DEF Drained, DispatchSettles, Abort, Reregister, callVars, vars, PoolLimit
<1>6. QED
  BY <1>1, <1>2, <1>3, <1>4, <1>5, NextCases

(* The pool never runs more bodies than it is configured to.               *)
THEOREM PoolIsBounded == Spec => []PoolBounded
<1>1. Init => PoolLimit
  BY FS_EmptySet, BatchAssumption DEF Init, PoolLimit
<1>2. Schedule /\ PoolLimit => PoolBounded
  <2> SUFFICES ASSUME Schedule, PoolLimit PROVE PoolBounded
    OBVIOUS
  <2> DEFINE Bodies == {c \in Calls : body[c] = "running"}
  <2>1. Bodies \subseteq inFlight
    BY DEF Schedule, Places, Placed
  <2>2. IsFiniteSet(inFlight)
    BY CallsFinite DEF Schedule, ControlTypes
  <2>3. Cardinality(Bodies) <= Cardinality(inFlight) /\ Cardinality(Bodies) \in Nat
        /\ Cardinality(inFlight) \in Nat
    BY <2>1, <2>2, FS_Subset, FS_CardinalityType
  <2>4. QED
    BY <2>3, BatchAssumption DEF PoolLimit, PoolBounded
<1>3. QED
  BY ScheduleInvariant, PoolLimitStep, <1>1, <1>2, PTL DEF Spec

-----------------------------------------------------------------------------
(* Every call of the open group was started in the group's mode.           *)
Barriers == \A c \in Calls : Active /\ next < c /\ c <= started => ranAs[c] = mode

LEMMA BarriersStep ==
  ASSUME Schedule, Barriers, [Next]_vars
  PROVE  Barriers'
<1> USE BatchAssumption DEF Schedule, Barriers, Calls, groupVars, countVars, callVars, logVars
<1>1. CASE NextGroup
  <2>1. CASE pc' \notin {"preparing"}
    BY <1>1, <2>1 DEF NextGroup, FillPool, StartCall, EndGroup, Active, Counters, Dispatches, ControlTypes
  <2>2. CASE pc' = "preparing"
    <3>1. started' = next + 1 /\ next' = next /\ ranAs' = [ranAs EXCEPT ![next + 1] = live[next + 1]]
          /\ mode' = live[next + 1] /\ next + 1 \in Calls
      BY <1>1, <2>2 DEF NextGroup, FillPool, StartCall, EndGroup, Active, Counters, ControlTypes
    <3>2. QED
      BY <3>1 DEF ControlTypes
  <2>3. QED
    BY <2>1, <2>2
<1>2. CASE CommitReturns
  <2>1. CASE StartCall(nextToStart + 1) /\ MayStart(aborted', last) /\ ~Reclassified(mode)
             /\ UNCHANGED next
    <3>1. nextToStart = started /\ next < started /\ mode = "parallel" /\ started + 1 \in Calls
      BY <1>2, <2>1 DEF CommitReturns, MayStart, Counters, Active, ControlTypes, Modes
    <3>2. live[started + 1] = mode /\ ranAs' = [ranAs EXCEPT ![started + 1] = live[started + 1]]
          /\ started' = started + 1 /\ mode' = mode
      BY <1>2, <2>1, <3>1 DEF CommitReturns, StartCall, Reclassified
    <3>3. \A c \in Calls : next < c /\ c <= started => ranAs[c] = mode
      BY <1>2 DEF CommitReturns, Active
    <3>4. \A c \in Calls : next < c /\ c <= started + 1 => ranAs'[c] = mode
      BY <3>1, <3>2, <3>3 DEF ControlTypes
    <3>5. QED
      BY <2>1, <3>2, <3>4
  <2>2. CASE UNCHANGED <<next, started, ranAs>>
    BY <1>2, <2>2 DEF CommitReturns, Active
  <2>3. CASE pc' = "between"
    BY <2>3 DEF Active
  <2>4. QED
    BY <1>2, <2>1, <2>2, <2>3 DEF CommitReturns, FillPool, EndGroup
<1>3. CASE PrepareSettles \/ StartReturns \/ FinalizeSettles \/ RaceSettles \/ Drained
           \/ DispatchSettles \/ Abort \/ Reregister \/ UNCHANGED vars
  <2>1. UNCHANGED <<next, started, ranAs, mode>>
    BY <1>3 DEF PrepareSettles, StartReturns, FinalizeSettles, RaceSettles, Drained,
       DispatchSettles, Abort, Reregister, vars
  <2>2. Active' => Active
    BY <1>3 DEF PrepareSettles, StartReturns, FinalizeSettles, RaceSettles, Drained,
       DispatchSettles, Abort, Reregister, vars, Active
  <2>3. QED
    BY <2>1, <2>2
<1>4. QED
  BY <1>1, <1>2, <1>3, NextCases

(* A call that was exclusive when it started runs between its              *)
(* predecessors' results and its successors' starts.                       *)
THEOREM ExclusiveRunsAlone == Spec => []ExclusiveAlone
<1>1. Init => Barriers
  BY DEF Init, Barriers, Active
<1>2. Schedule /\ Barriers => ExclusiveAlone
  <2> SUFFICES ASSUME Schedule, Barriers,
                      NEW c \in Calls, ranAs[c] = "exclusive", c > committed,
                      NEW d \in Calls, ranAs[d] # "none", d > committed
               PROVE  d = c
    BY DEF ExclusiveAlone
  <2>1. c <= started /\ d <= started
    BY BatchAssumption DEF Schedule, Places, Placed, ControlTypes, Calls
  <2>2. Active
    BY <2>1, BatchAssumption DEF Schedule, Active, ControlTypes, Counters, Calls
  <2>3. ranAs[c] = mode /\ last = next + 1
    BY <2>1, <2>2, BatchAssumption DEF Schedule, Barriers, ControlTypes, Counters, Calls
  <2>4. QED
    BY <2>1, <2>2, <2>3, BatchAssumption DEF Schedule, ControlTypes, Counters, Calls
<1>3. QED
  BY ScheduleInvariant, BarriersStep, <1>1, <1>2, PTL DEF Spec

-----------------------------------------------------------------------------
(* The record of a batch whose first n calls were started or skipped and   *)
(* whose first m were answered: nothing else, and all in model order.      *)
Recorded(events, n, m) ==
  /\ events \in Seq(EventType)
  /\ \A j \in 1..Len(events) : events[j].call <= IF events[j].type = "call" THEN n ELSE m
  /\ \A c \in 1..n : \E j \in 1..Len(events) : events[j].type = "call" /\ events[j].call = c
  /\ \A c \in 1..m : \E j \in 1..Len(events) : events[j].type # "call" /\ events[j].call = c
  /\ \A j \in 1..Len(events) : OrderedAt(events, j)

LEMMA CallEventType ==
  ASSUME NEW c \in Calls
  PROVE  CallEvent(c) \in EventType /\ CallEvent(c).type = "call" /\ CallEvent(c).call = c
BY DEF CallEvent, EventType

LEMMA ResultEventType ==
  ASSUME NEW c \in Calls, NEW s \in Nat
  PROVE  /\ ResultEvent(c, s) \in EventType /\ ResultEvent(c, s).type = "result"
         /\ ResultEvent(c, s).call = c /\ ResultEvent(c, s).source = s
BY DEF ResultEvent, EventType

LEMMA EventFields ==
  ASSUME NEW e \in EventType
  PROVE  /\ e.type \in {"call", "result", "skipped"} /\ e.call \in 1..NCalls
         /\ e.source \in Nat
BY DEF EventType, Calls

(* What an extension of the record must be to take it to n2 calls and m2   *)
(* answers.                                                                *)
Last(n, m, e) == IF e.type = "call" THEN n ELSE m
Extends(events, tail, n, m, n2, m2) ==
  /\ tail \in Seq(EventType)
  /\ \A k \in 1..Len(tail) :
       /\ tail[k].call > Last(n, m, tail[k]) /\ tail[k].call <= Last(n2, m2, tail[k])
       /\ tail[k].call > Last(n, m, tail[k]) + 1 =>
            \E i \in 1..(k - 1) :
              SameKind(tail[i], tail[k]) /\ tail[i].call = tail[k].call - 1
       /\ \A i \in 1..(k - 1) : SameKind(tail[i], tail[k]) => tail[i].call < tail[k].call
       /\ tail[k].type # "call" =>
            /\ tail[k].source \in 1..(Len(events) + k - 1)
            /\ (events \o tail)[tail[k].source] = CallEvent(tail[k].call)
  /\ \A c \in (n + 1)..n2 : \E k \in 1..Len(tail) : tail[k].type = "call" /\ tail[k].call = c
  /\ \A c \in (m + 1)..m2 : \E k \in 1..Len(tail) : tail[k].type # "call" /\ tail[k].call = c

(* Kept events stay ordered. *)
LEMMA OrderedPrefix ==
  ASSUME NEW events, NEW more, NEW j \in Nat, OrderedAt(events, j),
         \A i \in 1..j : more[i] = events[i], j > 0
  PROVE  OrderedAt(more, j)
<1>1. j \in 1..j /\ 1..(j - 1) \subseteq 1..j
  OBVIOUS
<1>2. QED
  BY <1>1 DEF OrderedAt

LEMMA RecordTail ==
  ASSUME NEW events, NEW tail, NEW n \in Nat, NEW m \in Nat, NEW n2 \in Nat, NEW m2 \in Nat,
         n <= n2, m <= m2, Recorded(events, n, m), Extends(events, tail, n, m, n2, m2)
  PROVE  Recorded(events \o tail, n2, m2)
<1> DEFINE more == events \o tail
           N == Len(events)
<1>1. events \in Seq(EventType) /\ tail \in Seq(EventType)
  BY DEF Recorded, Extends
<1>2. /\ more \in Seq(EventType) /\ Len(more) = N + Len(tail) /\ N \in Nat
      /\ Len(tail) \in Nat
      /\ \A j \in 1..N : more[j] = events[j]
      /\ \A k \in 1..Len(tail) : more[N + k] = tail[k]
  BY <1>1
<1>3. \A j \in 1..Len(more) : more[j] \in EventType
  BY <1>2
<1>4. \A j \in 1..Len(more) : j \in 1..N \/ (j - N \in 1..Len(tail) /\ j = N + (j - N))
  BY <1>2
<1> HIDE DEF more, N
<1>5. \A j \in 1..Len(more) : more[j].call <= IF more[j].type = "call" THEN n2 ELSE m2
  <2>1. TAKE j \in 1..Len(more)
  <2>2. CASE j \in 1..N
    <3>1. more[j].call \in Nat
      BY <1>3, EventFields
    <3>2. more[j] = events[j]
      BY <1>2, <2>2
    <3>3. events[j].call <= IF events[j].type = "call" THEN n ELSE m
      BY <2>2 DEF Recorded, N
    <3>4. CASE events[j].type = "call"
      BY <3>1, <3>2, <3>3, <3>4
    <3>5. CASE events[j].type # "call"
      BY <3>1, <3>2, <3>3, <3>5
    <3>6. QED
      BY <3>4, <3>5
  <2>3. CASE j - N \in 1..Len(tail) /\ j = N + (j - N)
    <3>1. more[j] = tail[j - N]
      BY <1>2, <2>3
    <3>2. tail[j - N].call <= Last(n2, m2, tail[j - N])
      BY <2>3 DEF Extends
    <3>3. QED
      BY <3>1, <3>2 DEF Last
  <2>4. QED
    BY <1>4, <2>2, <2>3
<1>6. \A c \in 1..n2 : \E j \in 1..Len(more) : more[j].type = "call" /\ more[j].call = c
  <2>1. TAKE c \in 1..n2
  <2>2. CASE c \in 1..n
    <3>1. PICK j \in 1..N : events[j].type = "call" /\ events[j].call = c
      BY <2>2 DEF Recorded, N
    <3>2. j \in 1..Len(more) /\ more[j] = events[j]
      BY <1>2
    <3>3. QED
      BY <3>1, <3>2
  <2>3. CASE c \in (n + 1)..n2
    <3>1. PICK k \in 1..Len(tail) : tail[k].type = "call" /\ tail[k].call = c
      BY <2>3 DEF Extends
    <3>2. N + k \in 1..Len(more) /\ more[N + k] = tail[k]
      BY <1>2
    <3>3. QED
      BY <3>1, <3>2
  <2>4. QED
    BY <2>2, <2>3
<1>7. \A c \in 1..m2 : \E j \in 1..Len(more) : more[j].type # "call" /\ more[j].call = c
  <2>1. TAKE c \in 1..m2
  <2>2. CASE c \in 1..m
    <3>1. PICK j \in 1..N : events[j].type # "call" /\ events[j].call = c
      BY <2>2 DEF Recorded, N
    <3>2. j \in 1..Len(more) /\ more[j] = events[j]
      BY <1>2
    <3>3. QED
      BY <3>1, <3>2
  <2>3. CASE c \in (m + 1)..m2
    <3>1. PICK k \in 1..Len(tail) : tail[k].type # "call" /\ tail[k].call = c
      BY <2>3 DEF Extends
    <3>2. N + k \in 1..Len(more) /\ more[N + k] = tail[k]
      BY <1>2
    <3>3. QED
      BY <3>1, <3>2
  <2>4. QED
    BY <2>2, <2>3
<1>8. \A j \in 1..Len(more) : OrderedAt(more, j)
  <2>1. TAKE j \in 1..Len(more)
  <2>2. CASE j \in 1..N
    <3>1. OrderedAt(events, j) /\ \A i \in 1..j : more[i] = events[i]
      BY <1>2, <2>2 DEF Recorded, N
    <3>2. QED
      BY <2>2, <3>1, OrderedPrefix
  <2>3. CASE j - N \in 1..Len(tail) /\ j = N + (j - N)
    <3> DEFINE k == j - N
               e == tail[k]
    <3>1. more[j] = e /\ k \in 1..Len(tail) /\ e \in EventType
      BY <1>1, <1>2, <2>3
    <3>2. /\ e.call > Last(n, m, e)
          /\ e.call > Last(n, m, e) + 1 =>
               \E i \in 1..(k - 1) : SameKind(tail[i], e) /\ tail[i].call = e.call - 1
          /\ \A i \in 1..(k - 1) : SameKind(tail[i], e) => tail[i].call < e.call
          /\ e.type # "call" =>
               e.source \in 1..(N + k - 1) /\ more[e.source] = CallEvent(e.call)
      BY <3>1 DEF Extends, more, N
    <3>3. e.call \in Nat /\ e.source \in Nat
      BY <3>1, EventFields
    <3> HIDE DEF e
    <3>4. ASSUME e.call > 1
          PROVE  \E i \in 1..(j - 1) : SameKind(more[i], e) /\ more[i].call = e.call - 1
      <4>1. CASE e.call > Last(n, m, e) + 1
        <5>1. PICK i \in 1..(k - 1) : SameKind(tail[i], e) /\ tail[i].call = e.call - 1
          BY <3>2, <4>1
        <5>2. N + i \in 1..(j - 1) /\ more[N + i] = tail[i]
          BY <1>2, <2>3
        <5>3. QED
          BY <5>1, <5>2
      <4>2. CASE e.call = Last(n, m, e) + 1
        <5>1. PICK i \in 1..N : SameKind(events[i], e) /\ events[i].call = e.call - 1
          <6>1. CASE e.type = "call"
            <7>1. e.call - 1 \in 1..n
              BY <3>3, <3>4, <4>2, <6>1 DEF Last
            <7>2. PICK i \in 1..N : events[i].type = "call" /\ events[i].call = e.call - 1
              BY <7>1 DEF Recorded, N
            <7>3. QED
              BY <6>1, <7>2 DEF SameKind
          <6>2. CASE e.type # "call"
            <7>1. e.call - 1 \in 1..m
              BY <3>3, <3>4, <4>2, <6>2 DEF Last
            <7>2. PICK i \in 1..N : events[i].type # "call" /\ events[i].call = e.call - 1
              BY <7>1 DEF Recorded, N
            <7>3. QED
              BY <6>2, <7>2 DEF SameKind
          <6>3. QED
            BY <6>1, <6>2
        <5>2. i \in 1..(j - 1) /\ more[i] = events[i]
          BY <1>2, <2>3
        <5>3. QED
          BY <5>1, <5>2
      <4>3. Last(n, m, e) \in Nat
        BY DEF Last
      <4>4. QED
        BY <3>2, <3>3, <4>1, <4>2, <4>3
    <3>5. ASSUME NEW i \in 1..(j - 1), SameKind(more[i], e)
          PROVE  more[i].call < e.call
      <4>1. CASE i \in 1..N
        <5>1. events[i].call \in Nat
          BY <1>1, <4>1, EventFields DEF N
        <5>2. events[i].call <= Last(n, m, events[i]) /\ more[i] = events[i]
          BY <1>2, <4>1 DEF Recorded, Last, N
        <5>3. Last(n, m, events[i]) = Last(n, m, e)
          BY <3>5, <5>2 DEF Last, SameKind
        <5>4. QED
          BY <3>2, <3>3, <5>1, <5>2, <5>3 DEF Last
      <4>2. CASE i - N \in 1..(k - 1)
        <5>1. more[i] = tail[i - N]
          <6>1. i - N \in 1..Len(tail) /\ i = N + (i - N)
            BY <1>2, <2>3, <4>2
          <6>2. QED
            BY <1>2, <6>1
        <5>2. QED
          BY <3>2, <3>5, <4>2, <5>1
      <4>3. QED
        BY <1>2, <2>3, <4>1, <4>2
    <3>6. N + k - 1 = j - 1
      BY <1>2, <2>3
    <3>7. QED
      BY <3>1, <3>2, <3>4, <3>5, <3>6 DEF OrderedAt
  <2>4. QED
    BY <1>4, <2>2, <2>3
<1>9. QED
  BY <1>2, <1>5, <1>6, <1>7, <1>8 DEF Recorded, more

(* One call is started. *)
LEMMA RecordCall ==
  ASSUME NEW events, NEW n \in Nat, NEW m \in Nat, n < NCalls, Recorded(events, n, m)
  PROVE  Recorded(Append(events, CallEvent(n + 1)), n + 1, m)
<1> DEFINE e == CallEvent(n + 1)
<1>1. e \in EventType /\ e.type = "call" /\ e.call = n + 1
  BY CallEventType, BatchAssumption DEF Calls
<1> HIDE DEF e
<1>2. events \in Seq(EventType)
  BY DEF Recorded
<1>3. Append(events, e) = events \o <<e>>
  BY <1>1, <1>2, AppendIsConcat
<1>4. <<e>> \in Seq(EventType) /\ Len(<<e>>) = 1 /\ <<e>>[1] = e
  BY <1>1
<1>5. Extends(events, <<e>>, n, m, n + 1, m)
  BY <1>1, <1>4 DEF Extends, Last
<1>6. n + 1 \in Nat /\ n <= n + 1 /\ m <= m
  OBVIOUS
<1>7. Recorded(events \o <<e>>, n + 1, m)
  BY <1>5, <1>6, RecordTail
<1>8. QED
  BY <1>3, <1>7 DEF e

(* Results are committed for the calls up to stop. *)
Results(m, stop, seqs) == [k \in 1..(stop - m) |-> ResultEvent(m + k, seqs[m + k])]

LEMMA ResultsType ==
  ASSUME NEW m \in Nat, NEW stop \in Nat, m <= stop, stop <= NCalls,
         NEW seqs \in [Calls -> Nat]
  PROVE  /\ Results(m, stop, seqs) \in Seq(EventType)
         /\ \A k \in 1..Len(Results(m, stop, seqs)) :
              Results(m, stop, seqs)[k].type # "skipped"
<1> DEFINE n == stop - m
           f == [k \in 1..n |-> ResultEvent(m + k, seqs[m + k])]
<1>1. n \in Nat
  OBVIOUS
<1>2. ASSUME NEW k \in 1..n
      PROVE  /\ ResultEvent(m + k, seqs[m + k]) \in EventType
             /\ ResultEvent(m + k, seqs[m + k]).type # "skipped"
  <2>1. m + k \in Calls
    BY BatchAssumption DEF Calls
  <2>2. seqs[m + k] \in Nat
    BY <2>1
  <2>3. QED
    BY <2>1, <2>2, ResultEventType
<1>3. f \in [1..n -> EventType] /\ \A k \in 1..n : f[k].type # "skipped"
  BY <1>2
<1> HIDE DEF f
<1>4. f \in Seq(EventType) /\ Len(f) = n
  BY <1>1, <1>3
<1>5. f = Results(m, stop, seqs)
  BY DEF f, Results
<1>6. QED
  BY <1>3, <1>4, <1>5

LEMMA RecordResults ==
  ASSUME NEW events, NEW n \in Nat, NEW m \in Nat, NEW stop \in m..n, n <= NCalls, NEW seqs,
         \A c \in (m + 1)..stop : seqs[c] \in 1..Len(events) /\ events[seqs[c]] = CallEvent(c),
         Recorded(events, n, m)
  PROVE  Recorded(events \o Results(m, stop, seqs), n, stop)
<1> DEFINE tail == Results(m, stop, seqs)
<1>1. events \in Seq(EventType) /\ stop - m \in Nat /\ Len(events) \in Nat
  BY DEF Recorded
<1>2. ASSUME NEW k \in 1..(stop - m)
      PROVE  /\ ResultEvent(m + k, seqs[m + k]) \in EventType
             /\ ResultEvent(m + k, seqs[m + k]).type = "result"
             /\ ResultEvent(m + k, seqs[m + k]).call = m + k
             /\ ResultEvent(m + k, seqs[m + k]).source = seqs[m + k]
             /\ seqs[m + k] \in 1..Len(events)
             /\ events[seqs[m + k]] = CallEvent(m + k)
  <2>1. m + k \in Calls /\ m + k \in (m + 1)..stop
    BY <1>2, BatchAssumption DEF Calls
  <2>2. seqs[m + k] \in 1..Len(events) /\ seqs[m + k] \in Nat
    BY <1>1, <2>1
  <2>3. QED
    BY <2>1, <2>2, ResultEventType
<1>3. /\ tail \in Seq(EventType) /\ Len(tail) = stop - m
      /\ \A k \in 1..(stop - m) :
           /\ tail[k].type = "result" /\ tail[k].call = m + k /\ tail[k].source = seqs[m + k]
  <2> DEFINE f == [k \in 1..(stop - m) |-> ResultEvent(m + k, seqs[m + k])]
  <2>1. /\ f \in [1..(stop - m) -> EventType] 
        /\ \A k \in 1..(stop - m) :
             f[k].type = "result" /\ f[k].call = m + k /\ f[k].source = seqs[m + k]
    BY <1>2
  <2> HIDE DEF f
  <2>2. f \in Seq(EventType) /\ Len(f) = stop - m
    BY <1>1, <2>1
  <2>3. QED
    BY <2>1, <2>2 DEF f, Results
<1> HIDE DEF tail
<1>4. \A i \in 1..Len(events) : (events \o tail)[i] = events[i]
  BY <1>1, <1>3
<1>5. ASSUME NEW k \in 1..Len(tail)
      PROVE  /\ tail[k].call > Last(n, m, tail[k]) /\ tail[k].call <= Last(n, stop, tail[k])
             /\ tail[k].call > Last(n, m, tail[k]) + 1 =>
                  \E i \in 1..(k - 1) :
                    SameKind(tail[i], tail[k]) /\ tail[i].call = tail[k].call - 1
             /\ \A i \in 1..(k - 1) : SameKind(tail[i], tail[k]) => tail[i].call < tail[k].call
             /\ tail[k].type # "call" =>
                  /\ tail[k].source \in 1..(Len(events) + k - 1)
                  /\ (events \o tail)[tail[k].source] = CallEvent(tail[k].call)
  <2>1. tail[k].type = "result" /\ tail[k].call = m + k /\ tail[k].source = seqs[m + k]
        /\ k \in 1..(stop - m)
    BY <1>3
  <2>2. seqs[m + k] \in 1..Len(events) /\ events[seqs[m + k]] = CallEvent(m + k)
    BY <1>2, <2>1
  <2>3. tail[k].call > Last(n, m, tail[k]) /\ tail[k].call <= Last(n, stop, tail[k])
    BY <2>1 DEF Last
  <2>4. ASSUME tail[k].call > Last(n, m, tail[k]) + 1
        PROVE  \E i \in 1..(k - 1) :
                 SameKind(tail[i], tail[k]) /\ tail[i].call = tail[k].call - 1
    <3>1. k - 1 \in 1..(k - 1) /\ k - 1 \in 1..(stop - m)
      BY <2>1, <2>4 DEF Last
    <3>2. tail[k - 1].type = "result" /\ tail[k - 1].call = m + (k - 1)
      BY <1>3, <3>1
    <3>3. QED
      <4>1. tail[k].call - 1 = m + (k - 1)
        BY <2>1
      <4>2. SameKind(tail[k - 1], tail[k])
        BY <2>1, <3>2 DEF SameKind
      <4>3. QED
        BY <3>1, <3>2, <4>1, <4>2
  <2>5. \A i \in 1..(k - 1) : tail[i].call < tail[k].call
    BY <1>3, <2>1
  <2>6. tail[k].source \in 1..(Len(events) + k - 1)
        /\ (events \o tail)[tail[k].source] = CallEvent(tail[k].call)
    BY <1>1, <1>4, <2>1, <2>2
  <2>7. QED
    BY <2>3, <2>4, <2>5, <2>6
<1>6. \A c \in (m + 1)..stop : \E k \in 1..Len(tail) : tail[k].type # "call" /\ tail[k].call = c
  <2>1. TAKE c \in (m + 1)..stop
  <2>2. c - m \in 1..(stop - m) /\ m + (c - m) = c
    OBVIOUS
  <2>3. QED
    BY <1>3, <2>2
<1>7. \A c \in (n + 1)..n : FALSE
  OBVIOUS
<1>8. Extends(events, tail, n, m, n, stop)
  BY <1>3, <1>5, <1>6, <1>7 DEF Extends
<1>9. stop \in Nat /\ n <= n /\ m <= stop
  OBVIOUS
<1>10. QED
  BY <1>8, <1>9, RecordTail DEF tail

(* The calls n+1..d are skipped: a call and its answer at positions 2h + 1 *)
(* and 2h + 2 of the extension.                                            *)
LEMMA Halves ==
  ASSUME NEW k \in Nat, k >= 1
  PROVE  /\ (k - 1) \div 2 \in Nat
         /\ \/ k % 2 = 1 /\ k = 2 * ((k - 1) \div 2) + 1
            \/ k % 2 = 0 /\ k = 2 * ((k - 1) \div 2) + 2
OBVIOUS

LEMMA PairPositions ==
  ASSUME NEW h \in Nat
  PROVE  /\ (2 * h + 1) % 2 = 1 /\ ((2 * h + 1) - 1) \div 2 = h
         /\ (2 * h + 2) % 2 = 0 /\ ((2 * h + 2) - 1) \div 2 = h
OBVIOUS

LEMMA PairEvents ==
  ASSUME NEW after \in Nat, NEW c \in Nat \ {0}, NEW d \in Nat, c <= d + 1, d <= NCalls
  PROVE  LET tail == SkippedPairs(after, c, d)
         IN  /\ tail \in Seq(EventType) /\ Len(tail) = 2 * (d - c + 1)
             /\ \A k \in 1..Len(tail) :
                  /\ tail[k].call = c + (k - 1) \div 2
                  /\ tail[k].type = IF k % 2 = 1 THEN "call" ELSE "skipped"
                  /\ k % 2 = 1 => tail[k] = CallEvent(c + (k - 1) \div 2)
                  /\ k % 2 # 1 => tail[k].source = after + k - 1
<1> DEFINE L == 2 * (d - c + 1)
           skipped(k) == [type |-> "skipped", call |-> c + (k - 1) \div 2,
                          source |-> after + k - 1]
           f == [k \in 1..L |-> IF k % 2 = 1 THEN CallEvent(c + (k - 1) \div 2) ELSE skipped(k)]
<1>1. L \in Nat
  OBVIOUS
<1>2. ASSUME NEW k \in 1..L
      PROVE  c + (k - 1) \div 2 \in Calls /\ after + k - 1 \in Nat
  <2>1. k \in Nat /\ k >= 1
    BY <1>1
  <2>2. k >= 2 * ((k - 1) \div 2) + 1 /\ (k - 1) \div 2 \in Nat
    BY <2>1, Halves
  <2>3. 2 * ((k - 1) \div 2) + 1 <= 2 * (d - c + 1)
    BY <2>1, <2>2
  <2>4. (k - 1) \div 2 <= d - c
    BY <2>2, <2>3
  <2>5. QED
    BY <2>1, <2>2, <2>4, BatchAssumption DEF Calls
<1>3. \A k \in 1..L : skipped(k) \in EventType /\ CallEvent(c + (k - 1) \div 2) \in EventType
  BY <1>2, CallEventType DEF EventType
<1>4. f \in [1..L -> EventType]
  BY <1>3
<1>5. \A k \in 1..L :
        /\ f[k].call = c + (k - 1) \div 2
        /\ f[k].type = IF k % 2 = 1 THEN "call" ELSE "skipped"
        /\ k % 2 = 1 => f[k] = CallEvent(c + (k - 1) \div 2)
        /\ k % 2 # 1 => f[k].source = after + k - 1
  BY <1>2, CallEventType
<1> HIDE DEF f
<1>6. f \in Seq(EventType) /\ Len(f) = L
  BY <1>1, <1>4
<1> HIDE DEF L, skipped
<1>7. SkippedPairs(after, c, d) = f
  BY DEF SkippedPairs, f, L, skipped
<1>8. QED
  BY <1>5, <1>6, <1>7 DEF L

LEMMA RecordSkipped ==
  ASSUME NEW events, NEW n \in Nat, NEW d \in n..NCalls, Recorded(events, n, n)
  PROVE  Recorded(events \o SkippedPairs(Len(events), n + 1, d), d, d)
<1> DEFINE tail == SkippedPairs(Len(events), n + 1, d)
           N == Len(events)
<1>1. events \in Seq(EventType) /\ N \in Nat /\ NCalls \in Nat
  BY BatchAssumption DEF Recorded
<1>2. /\ tail \in Seq(EventType) /\ Len(tail) = 2 * (d - n)
      /\ \A k \in 1..Len(tail) :
           /\ tail[k].call = (n + 1) + (k - 1) \div 2
           /\ tail[k].type = IF k % 2 = 1 THEN "call" ELSE "skipped"
           /\ k % 2 = 1 => tail[k] = CallEvent((n + 1) + (k - 1) \div 2)
           /\ k % 2 # 1 => tail[k].source = N + k - 1
  <2>1. N \in Nat /\ n + 1 \in Nat \ {0} /\ d \in Nat /\ n + 1 <= d + 1 /\ d <= NCalls
    BY <1>1
  <2>2. 2 * (d - (n + 1) + 1) = 2 * (d - n)
    BY <1>1
  <2>3. QED
    BY <2>1, <2>2, PairEvents
<1>3. \A k \in 1..Len(tail) : (events \o tail)[N + k] = tail[k]
  BY <1>1, <1>2
<1> HIDE DEF tail, N
<1>4. ASSUME NEW h \in 0..(d - n - 1)
      PROVE  /\ 2 * h + 1 \in 1..Len(tail) /\ tail[2 * h + 1].type = "call"
             /\ tail[2 * h + 1].call = n + 1 + h
             /\ tail[2 * h + 1] = CallEvent(n + 1 + h)
             /\ 2 * h + 2 \in 1..Len(tail) /\ tail[2 * h + 2].type = "skipped"
             /\ tail[2 * h + 2].call = n + 1 + h
             /\ tail[2 * h + 2].source = N + (2 * h + 1)
  <2>1. 2 * h + 1 \in 1..Len(tail) /\ 2 * h + 2 \in 1..Len(tail) /\ h \in Nat
    BY <1>2
  <2>2. /\ (2 * h + 1) % 2 = 1 /\ ((2 * h + 1) - 1) \div 2 = h
        /\ (2 * h + 2) % 2 = 0 /\ ((2 * h + 2) - 1) \div 2 = h
    BY <2>1, PairPositions
  <2>3. N + (2 * h + 2) - 1 = N + (2 * h + 1)
    BY <1>1, <2>1 DEF N
  <2>4. /\ tail[2 * h + 1].type = "call" /\ tail[2 * h + 1].call = n + 1 + h
        /\ tail[2 * h + 1] = CallEvent(n + 1 + h)
    <3> DEFINE p == 2 * h + 1
    <3>1. p % 2 = 1 /\ (p - 1) \div 2 = h /\ p \in 1..Len(tail)
      BY <2>1, <2>2
    <3> HIDE DEF p
    <3>2. /\ tail[p].call = (n + 1) + (p - 1) \div 2
          /\ tail[p].type = IF p % 2 = 1 THEN "call" ELSE "skipped"
          /\ p % 2 = 1 => tail[p] = CallEvent((n + 1) + (p - 1) \div 2)
      BY <1>2, <3>1
    <3>3. tail[p].type = "call" /\ tail[p].call = n + 1 + h /\ tail[p] = CallEvent(n + 1 + h)
      BY <3>1, <3>2
    <3>4. QED
      BY <3>3 DEF p
  <2>5. /\ tail[2 * h + 2].type = "skipped" /\ tail[2 * h + 2].call = n + 1 + h
        /\ tail[2 * h + 2].source = N + (2 * h + 1)
    <3> DEFINE p == 2 * h + 2
    <3>1. p % 2 = 0 /\ (p - 1) \div 2 = h /\ p \in 1..Len(tail) /\ N + p - 1 = N + (2 * h + 1)
      BY <2>1, <2>2, <2>3
    <3> HIDE DEF p
    <3>2. /\ tail[p].call = (n + 1) + (p - 1) \div 2
          /\ tail[p].type = IF p % 2 = 1 THEN "call" ELSE "skipped"
          /\ p % 2 # 1 => tail[p].source = N + p - 1
      BY <1>2, <3>1
    <3>3. tail[p].type = "skipped" /\ tail[p].call = n + 1 + h /\ tail[p].source = N + p - 1
      BY <3>1, <3>2
    <3>4. QED
      BY <3>1, <3>3 DEF p
  <2>6. QED
    BY <2>1, <2>4, <2>5
<1>5. ASSUME NEW k \in 1..Len(tail)
      PROVE  \E h \in 0..(d - n - 1) : k = 2 * h + 1 \/ k = 2 * h + 2
  <2>1. k \in Nat /\ k >= 1 /\ k <= 2 * (d - n)
    BY <1>2
  <2>2. PICK h \in Nat : k = 2 * h + 1 \/ k = 2 * h + 2
    BY <2>1, Halves
  <2>3. h \in 0..(d - n - 1)
    BY <2>1, <2>2
  <2>4. QED
    BY <2>2, <2>3
<1>6. ASSUME NEW k \in 1..Len(tail)
      PROVE  /\ tail[k].call > Last(n, n, tail[k]) /\ tail[k].call <= Last(d, d, tail[k])
             /\ tail[k].call > Last(n, n, tail[k]) + 1 =>
                  \E i \in 1..(k - 1) :
                    SameKind(tail[i], tail[k]) /\ tail[i].call = tail[k].call - 1
             /\ \A i \in 1..(k - 1) : SameKind(tail[i], tail[k]) => tail[i].call < tail[k].call
             /\ tail[k].type # "call" =>
                  /\ tail[k].source \in 1..(N + k - 1)
                  /\ (events \o tail)[tail[k].source] = CallEvent(tail[k].call)
  <2>1. PICK h \in 0..(d - n - 1) : k = 2 * h + 1 \/ k = 2 * h + 2
    BY <1>5
  <2>2. tail[k].call = n + 1 + h
    BY <1>4, <2>1
  <2>3. tail[k].call > Last(n, n, tail[k]) /\ tail[k].call <= Last(d, d, tail[k])
    BY <2>2 DEF Last
  <2>4. ASSUME tail[k].call > Last(n, n, tail[k]) + 1
        PROVE  \E i \in 1..(k - 1) :
                 SameKind(tail[i], tail[k]) /\ tail[i].call = tail[k].call - 1
    <3>1. h - 1 \in 0..(d - n - 1)
      BY <2>2, <2>4 DEF Last
    <3>2. CASE k = 2 * h + 1
      <4>1. 2 * (h - 1) + 1 \in 1..(k - 1)
        BY <3>1, <3>2
      <4>2. tail[2 * (h - 1) + 1].type = "call" /\ tail[2 * (h - 1) + 1].call = n + 1 + (h - 1)
        BY <1>4, <3>1
      <4>3. tail[k].type = "call"
        BY <1>4, <3>2
      <4>4. n + 1 + (h - 1) = tail[k].call - 1
        BY <2>2
      <4>5. QED
        BY <4>1, <4>2, <4>3, <4>4 DEF SameKind
    <3>3. CASE k = 2 * h + 2
      <4>1. 2 * (h - 1) + 2 \in 1..(k - 1)
        BY <3>1, <3>3
      <4>2. tail[2 * (h - 1) + 2].type = "skipped" /\ tail[2 * (h - 1) + 2].call = n + 1 + (h - 1)
        BY <1>4, <3>1
      <4>3. tail[k].type = "skipped"
        BY <1>4, <3>3
      <4>4. n + 1 + (h - 1) = tail[k].call - 1
        BY <2>2
      <4>5. QED
        BY <4>1, <4>2, <4>3, <4>4 DEF SameKind
    <3>4. QED
      BY <2>1, <3>2, <3>3
  <2>5. ASSUME NEW i \in 1..(k - 1), SameKind(tail[i], tail[k])
        PROVE  tail[i].call < tail[k].call
    <3>1. i \in 1..Len(tail) /\ i < k
      BY <1>2
    <3>2. PICK g \in 0..(d - n - 1) : i = 2 * g + 1 \/ i = 2 * g + 2
      BY <1>5, <3>1
    <3>3. tail[i].call = n + 1 + g
      BY <1>4, <3>2
    <3>4. (tail[i].type = "call") = (i = 2 * g + 1)
      BY <1>4, <3>2
    <3>5. (tail[k].type = "call") = (k = 2 * h + 1)
      BY <1>4, <2>1
    <3>6. g < h
      BY <2>1, <2>5, <3>1, <3>2, <3>4, <3>5 DEF SameKind
    <3>7. QED
      BY <2>2, <3>3, <3>6
  <2>6. ASSUME tail[k].type # "call"
        PROVE  /\ tail[k].source \in 1..(N + k - 1)
               /\ (events \o tail)[tail[k].source] = CallEvent(tail[k].call)
    <3>1. k = 2 * h + 2
      BY <1>4, <2>1, <2>6
    <3>2. tail[k].source = N + (2 * h + 1) /\ 2 * h + 1 \in 1..Len(tail)
      BY <1>4, <3>1
    <3>3. (events \o tail)[N + (2 * h + 1)] = CallEvent(n + 1 + h)
      BY <1>3, <1>4, <3>2
    <3>4. N + (2 * h + 1) \in 1..(N + k - 1)
      BY <1>1, <3>1 DEF N
    <3>5. QED
      BY <2>2, <3>2, <3>3, <3>4
  <2>7. QED
    BY <2>3, <2>4, <2>5, <2>6
<1>7. ASSUME NEW c \in (n + 1)..d
      PROVE  /\ \E k \in 1..Len(tail) : tail[k].type = "call" /\ tail[k].call = c
             /\ \E k \in 1..Len(tail) : tail[k].type # "call" /\ tail[k].call = c
  <2>1. c - n - 1 \in 0..(d - n - 1) /\ n + 1 + (c - n - 1) = c
    OBVIOUS
  <2>2. QED
    BY <1>4, <2>1
<1>8. Extends(events, tail, n, n, d, d)
  BY <1>2, <1>6, <1>7 DEF Extends, N
<1>9. d \in Nat /\ n <= d
  OBVIOUS
<1>10. QED
  BY <1>8, <1>9, RecordTail DEF tail

-----------------------------------------------------------------------------
(* The calls recorded and answered so far: a group that ended answered all *)
(* it consumed, and a batch that returned answered all there were.         *)
CallsTo == IF pc = "returned" THEN NCalls ELSE IF pc = "between" THEN next ELSE started
AnswersTo == IF pc = "returned" THEN NCalls ELSE IF pc = "between" THEN next ELSE committed

Cited(seqs, events, c) == seqs[c] \in 1..Len(events) /\ events[seqs[c]] = CallEvent(c)
Transcript ==
  /\ Recorded(log, CallsTo, AnswersTo)
  /\ callSeq \in [Calls -> Nat]
  /\ \A c \in 1..started : Cited(callSeq, log, c)

(* Growing the log keeps what is cited. *)
LEMMA CitedKept ==
  ASSUME NEW events \in Seq(EventType), NEW tail \in Seq(EventType), NEW seqs, NEW c,
         Cited(seqs, events, c)
  PROVE  Cited(seqs, events \o tail, c)
BY DEF Cited

(* startCall records its call and what the result will cite. *)
LEMMA StartCallTranscript ==
  ASSUME Schedule, Transcript, StartCall(nextToStart + 1), nextToStart = started,
         started < NCalls, CallsTo = started, AnswersTo = committed,
         committed' = committed
  PROVE  Transcript'
<1> USE BatchAssumption DEF Schedule, ControlTypes
<1>1. /\ log' = Append(log, CallEvent(started + 1)) /\ started' = started + 1
      /\ callSeq' = [callSeq EXCEPT ![started + 1] = Len(log) + 1] /\ pc' = "preparing"
  BY DEF StartCall
<1>2. log \in Seq(EventType) /\ callSeq \in [Calls -> Nat] /\ Recorded(log, started, committed)
  BY DEF Transcript, Recorded
<1>3. started + 1 \in Calls /\ CallEvent(started + 1) \in EventType
  BY CallEventType DEF Calls
<1>4. Recorded(log', started + 1, committed)
  BY <1>1, <1>2, RecordCall
<1>5. callSeq' \in [Calls -> Nat]
  BY <1>1, <1>2, <1>3
<1>6. /\ Len(log') = Len(log) + 1 /\ log'[Len(log) + 1] = CallEvent(started + 1)
      /\ \A i \in 1..Len(log) : log'[i] = log[i]
  BY <1>1, <1>2, <1>3
<1>7. ASSUME NEW c \in 1..(started + 1)
      PROVE  Cited(callSeq', log', c)
  <2>1. CASE c = started + 1
    BY <1>1, <1>2, <1>3, <1>6, <2>1 DEF Cited
  <2>2. CASE c \in 1..started
    <3>1. callSeq'[c] = callSeq[c] /\ Cited(callSeq, log, c)
      BY <1>1, <1>2, <1>3, <2>2 DEF Transcript, Calls
    <3>2. QED
      BY <1>2, <1>6, <3>1 DEF Cited
  <2>3. QED
    BY <2>1, <2>2
<1>8. CallsTo' = started + 1 /\ AnswersTo' = committed
  BY <1>1 DEF CallsTo, AnswersTo
<1>9. QED
  BY <1>1, <1>4, <1>5, <1>7, <1>8 DEF Transcript

(* A group that ends has answered every call it consumed. *)
LEMMA EndGroupTranscript ==
  ASSUME Schedule, Transcript, NEW ab \in BOOLEAN, NEW lst \in started..NCalls,
         EndGroup(ab, lst), CallsTo = started, AnswersTo = started, committed = started
  PROVE  Transcript'
<1> USE BatchAssumption DEF Schedule, ControlTypes
<1>1. log \in Seq(EventType) /\ callSeq \in [Calls -> Nat] /\ Recorded(log, started, started)
  BY DEF Transcript, Recorded
<1>2. UNCHANGED <<started, callSeq>> /\ pc' = "between"
  BY DEF EndGroup
<1>3. CASE ab
  <2>1. log' = log \o SkippedEvents(started + 1, lst) /\ next' = lst
    BY <1>3 DEF EndGroup
  <2>2. Recorded(log', lst, lst)
    BY <1>1, <2>1, RecordSkipped DEF SkippedEvents
  <2>3. SkippedEvents(started + 1, lst) \in Seq(EventType)
    <3>1. /\ Len(log) \in Nat /\ started + 1 \in Nat \ {0} /\ lst \in Nat
          /\ started + 1 <= lst + 1 /\ lst <= NCalls
      BY <1>1
    <3>2. QED
      BY <3>1, PairEvents DEF SkippedEvents
  <2>4. \A c \in 1..started : Cited(callSeq', log', c)
    BY <1>1, <1>2, <2>1, <2>3, CitedKept DEF Transcript
  <2>5. QED
    BY <1>1, <1>2, <2>1, <2>2, <2>4 DEF Transcript, CallsTo, AnswersTo
<1>4. CASE ~ab
  <2>1. log' = log /\ next' = started
    BY <1>4 DEF EndGroup
  <2>2. QED
    BY <1>1, <1>2, <2>1 DEF Transcript, CallsTo, AnswersTo
<1>5. QED
  BY <1>3, <1>4

LEMMA NextGroupTranscript ==
  ASSUME Schedule, Transcript, NextGroup
  PROVE  Transcript'
<1> USE BatchAssumption DEF NextGroup, groupVars, logVars
<1>1. pc = "between" /\ Recorded(log, next, next) /\ log \in Seq(EventType)
      /\ next \in 0..NCalls /\ callSeq \in [Calls -> Nat]
  BY DEF Transcript, CallsTo, AnswersTo, Recorded, Schedule, ControlTypes
<1>2. CASE aborted \/ next = NCalls
  <2>1. log' = log \o SkippedEvents(next + 1, NCalls) /\ UNCHANGED <<started, callSeq>>
        /\ pc' = "returned"
    BY <1>2
  <2>2. Recorded(log', NCalls, NCalls)
    BY <1>1, <2>1, RecordSkipped DEF SkippedEvents
  <2>3. SkippedEvents(next + 1, NCalls) \in Seq(EventType)
    <3>1. /\ Len(log) \in Nat /\ next + 1 \in Nat \ {0} /\ NCalls \in Nat
          /\ next + 1 <= NCalls + 1 /\ NCalls <= NCalls
      BY <1>1
    <3>2. QED
      BY <3>1, PairEvents DEF SkippedEvents
  <2>4. \A c \in 1..started : Cited(callSeq', log', c)
    BY <1>1, <2>1, <2>3, CitedKept DEF Transcript
  <2>5. QED
    BY <1>1, <2>1, <2>2, <2>4 DEF Transcript, CallsTo, AnswersTo
<1>3. CASE ~aborted /\ next < NCalls
  <2>1. /\ next = started /\ committed = started /\ nextToStart = started
        /\ CallsTo = started /\ AnswersTo = started /\ inFlight = {}
    BY <1>1, <1>3 DEF Schedule, Counters, Dispatches, CallsTo, AnswersTo
  <2>2. last' \in started..NCalls /\ signal \in BOOLEAN /\ committed' = committed
    BY <1>1, <1>3, <2>1 DEF Schedule, ControlTypes
  <2>3. CASE StartCall(nextToStart + 1)
    BY <1>3, <2>1, <2>2, <2>3, StartCallTranscript
  <2>4. CASE EndGroup(signal, last')
    BY <2>1, <2>2, <2>4, EndGroupTranscript
  <2>5. QED
    BY <1>3, <2>1, <2>3, <2>4 DEF FillPool
<1>4. QED
  BY <1>2, <1>3

LEMMA CommitReturnsTranscript ==
  ASSUME Schedule, Transcript, CommitReturns
  PROVE  Transcript'
<1> USE BatchAssumption DEF CommitReturns, logVars
<1>1. /\ pc = "committed" /\ CallsTo = started /\ AnswersTo = committed
      /\ nextToStart = started /\ started <= last /\ last \in 0..NCalls
      /\ started \in 0..NCalls /\ committed \in 0..NCalls
  BY DEF CallsTo, AnswersTo, Schedule, Counters, Active, ControlTypes
<1>2. CASE UNCHANGED <<started, logVars, committed>> /\ pc' \in {"draining", "racing"}
  BY <1>1, <1>2 DEF Transcript, CallsTo, AnswersTo
<1>3. CASE MayStart(aborted', last) /\ StartCall(nextToStart + 1)
  <2>1. started < NCalls /\ committed' = committed
    BY <1>1, <1>3 DEF MayStart
  <2>2. QED
    BY <1>1, <1>3, <2>1, StartCallTranscript
<1>4. CASE inFlight = {} /\ EndGroup(aborted', last)
  <2>1. committed = started
    BY <1>1, <1>4 DEF Schedule, Counters, Dispatches, ControlTypes
  <2>2. aborted' \in BOOLEAN /\ last \in started..NCalls
    BY <1>1, <1>4 DEF Schedule, ControlTypes, EndGroup
  <2>3. QED
    BY <1>1, <1>4, <2>1, <2>2, EndGroupTranscript
<1>5. QED
  BY <1>2, <1>3, <1>4 DEF FillPool, Fail

(* A commit answers the calls it counts. *)
LEMMA CommitFromTranscript ==
  ASSUME ControlTypes, NEW events, NEW c \in 0..started, CommitFrom(c, events),
         Recorded(events, started, c), callSeq \in [Calls -> Nat],
         \A d \in 1..started : Cited(callSeq, events, d),
         committed' \in c..started, UNCHANGED <<started, callSeq>>
  PROVE  Transcript'
<1> USE BatchAssumption DEF ControlTypes
<1>1. /\ log' = events \o Results(c, committed', callSeq)
      /\ pc' \in {"finalizing", "committed"}
  BY DEF CommitFrom, Results
<1>2. \A d \in (c + 1)..committed' :
        callSeq[d] \in 1..Len(events) /\ events[callSeq[d]] = CallEvent(d)
  BY DEF Cited
<1>3. /\ c \in Nat /\ started \in Nat /\ started <= NCalls /\ events \in Seq(EventType)
      /\ committed' \in Nat /\ c <= committed' /\ committed' <= started
  BY DEF Recorded
<1>4. Recorded(log', started, committed')
  BY <1>1, <1>2, <1>3, RecordResults
<1>5. Results(c, committed', callSeq) \in Seq(EventType)
  <2>1. committed' <= NCalls
    BY ONLY <1>3, BatchAssumption
  <2>2. QED
    BY <1>3, <2>1, ResultsType
<1>6. \A d \in 1..started : Cited(callSeq, log', d)
  BY <1>1, <1>3, <1>5, CitedKept
<1>7. CallsTo' = started /\ AnswersTo' = committed'
  BY <1>1 DEF CallsTo, AnswersTo
<1>8. QED
  BY <1>4, <1>6, <1>7 DEF Transcript

(* A step that leaves the record alone. *)
LEMMA RecordUntouched ==
  ASSUME Transcript, UNCHANGED <<log, callSeq, started, committed>>,
         \/ pc \notin {"between", "returned"} /\ pc' \notin {"between", "returned"}
         \/ UNCHANGED <<pc, next>>
  PROVE  Transcript'
<1>1. UNCHANGED <<CallsTo, AnswersTo>>
  BY DEF CallsTo, AnswersTo
<1>2. QED
  BY <1>1 DEF Transcript

LEMMA StartReturnsTranscript ==
  ASSUME Schedule, Transcript, StartReturns
  PROVE  Transcript'
<1> USE DEF StartReturns
<1>1. CASE failure
  BY <1>1, RecordUntouched DEF Fail
<1>2. CASE ~failure
  <2>1. pc = "started" /\ CallsTo = started /\ AnswersTo = committed
    BY DEF CallsTo, AnswersTo
  <2>2. /\ ControlTypes /\ Counters /\ Places /\ committed \in 0..last
        /\ committed \in 0..started /\ Active
    BY <2>1 DEF Schedule, ControlTypes, Counters, Active
  <2>3. committed' \in committed..started
    <3>1. committed' \in 0..NCalls /\ committed <= committed' /\ committed' <= started
      BY <1>2, <2>1, <2>2, CommitFromSchedule DEF callVars
    <3>2. QED
      BY <2>2, <3>1 DEF ControlTypes
  <2>4. QED
    BY <1>2, <2>1, <2>2, <2>3, CommitFromTranscript DEF Transcript
<1>3. QED
  BY <1>1, <1>2

LEMMA RaceSettlesTranscript ==
  ASSUME Schedule, Transcript, RaceSettles
  PROVE  Transcript'
<1> USE DEF RaceSettles
<1>1. CASE failure
  BY <1>1, RecordUntouched DEF Fail
<1>2. CASE ~failure
  <2>1. pc = "racing" /\ CallsTo = started /\ AnswersTo = committed
    BY DEF CallsTo, AnswersTo
  <2>2. /\ ControlTypes /\ Counters /\ Places /\ committed \in 0..last
        /\ committed \in 0..started /\ Active
    BY <2>1 DEF Schedule, ControlTypes, Counters, Active
  <2>3. committed' \in committed..started
    <3>1. committed' \in 0..NCalls /\ committed <= committed' /\ committed' <= started
      BY <1>2, <2>1, <2>2, CommitFromSchedule
    <3>2. QED
      BY <2>2, <3>1 DEF ControlTypes
  <2>4. QED
    BY <1>2, <2>1, <2>2, <2>3, CommitFromTranscript DEF Transcript
<1>3. QED
  BY <1>1, <1>2

LEMMA FinalizeSettlesTranscript ==
  ASSUME Schedule, Transcript, FinalizeSettles
  PROVE  Transcript'
<1> USE DEF FinalizeSettles
<1>1. CASE Fail /\ UNCHANGED <<committed, log>>
  BY <1>1, RecordUntouched DEF Fail
<1>2. CASE CommitFrom(committed + 1,
             Append(log, ResultEvent(committed + 1, callSeq[committed + 1])))
  <2> DEFINE c == committed + 1
             events == Append(log, ResultEvent(c, callSeq[c]))
  <2>1. /\ pc = "finalizing" /\ Recorded(log, started, committed) /\ callSeq \in [Calls -> Nat]
        /\ \A d \in 1..started : Cited(callSeq, log, d)
    BY DEF Transcript, CallsTo, AnswersTo
  <2>2. /\ ControlTypes /\ Counters /\ Places /\ c \in 0..last /\ c \in 0..started
        /\ committed < started /\ c \in Calls /\ committed \in Nat /\ Active
        /\ started \in 0..NCalls
    BY <2>1, BatchAssumption DEF Schedule, ControlTypes, Counters, Active, Calls
  <2>3. Recorded(log \o Results(committed, c, callSeq), started, c)
    <3>1. \A d \in (committed + 1)..c :
            callSeq[d] \in 1..Len(log) /\ log[callSeq[d]] = CallEvent(d)
      BY <2>1, <2>2 DEF Cited
    <3>2. committed \in Nat /\ started \in Nat /\ c \in committed..started /\ started <= NCalls
      BY <2>2
    <3>3. QED
      BY <2>1, <3>1, <3>2, RecordResults
  <2>4. ResultEvent(c, callSeq[c]) \in EventType /\ log \in Seq(EventType)
    BY <2>1, <2>2, ResultEventType DEF Recorded
  <2>5. events = log \o Results(committed, c, callSeq)
    <3>1. 1..(c - committed) = {1}
      BY <2>2
    <3>2. Results(committed, c, callSeq) = [k \in {1} |-> ResultEvent(committed + k, callSeq[committed + k])]
      BY <3>1 DEF Results
    <3>3. Results(committed, c, callSeq) = <<ResultEvent(c, callSeq[c])>>
      BY <3>2
    <3>4. Append(log, ResultEvent(c, callSeq[c])) = log \o <<ResultEvent(c, callSeq[c])>>
      BY <2>4, AppendIsConcat
    <3>5. QED
      BY <3>3, <3>4
  <2>6. \A d \in 1..started : Cited(callSeq, events, d)
    BY <2>1, <2>4 DEF Cited
  <2> HIDE DEF events, c
  <2>7. CommitFrom(c, events)
    BY <1>2 DEF c, events
  <2>8. committed' \in c..started
    <3>1. c <= started /\ committed <= c
      BY <2>2 DEF c
    <3>2. committed' \in 0..NCalls /\ c <= committed' /\ committed' <= started
      BY <2>1, <2>2, <2>7, <3>1, CommitFromSchedule DEF callVars
    <3>3. QED
      BY <2>2, <3>2
  <2>9. QED
    BY <2>1, <2>2, <2>3, <2>5, <2>6, <2>7, <2>8, CommitFromTranscript
<1>3. QED
  BY <1>1, <1>2

LEMMA OthersTranscript ==
  ASSUME Schedule, Transcript,
         PrepareSettles \/ Drained \/ DispatchSettles \/ Abort \/ Reregister \/ UNCHANGED vars
  PROVE  Transcript'
<1> USE RecordUntouched DEF groupVars, countVars, logVars
<1>1. CASE PrepareSettles
  BY <1>1 DEF PrepareSettles, Fail
<1>2. CASE Drained
  BY <1>2 DEF Drained
<1>3. CASE DispatchSettles
  BY <1>3 DEF DispatchSettles
<1>4. CASE Abort
  BY <1>4 DEF Abort
<1>5. CASE Reregister
  BY <1>5 DEF Reregister
<1>6. CASE UNCHANGED vars
  BY <1>6 DEF vars
<1>7. QED
  BY <1>1, <1>2, <1>3, <1>4, <1>5, <1>6

LEMMA TranscriptInit == Init => Transcript
<1> SUFFICES ASSUME Init PROVE Transcript
  OBVIOUS
<1>1. log = <<>> /\ CallsTo = 0 /\ AnswersTo = 0 /\ started = 0
  BY DEF Init, CallsTo, AnswersTo
<1>2. Recorded(<<>>, 0, 0)
  BY DEF Recorded
<1>3. callSeq \in [Calls -> Nat]
  BY DEF Init
<1>4. QED
  BY <1>1, <1>2, <1>3 DEF Transcript

LEMMA TranscriptInvariant == Spec => []Transcript
<1>1. Schedule /\ Transcript /\ [Next]_vars => Transcript'
  BY NextCases, NextGroupTranscript, StartReturnsTranscript, FinalizeSettlesTranscript,
     CommitReturnsTranscript, RaceSettlesTranscript, OthersTranscript
<1>2. QED
  BY TranscriptInit, ScheduleInvariant, <1>1, PTL DEF Spec

(* Calls and results are recorded in model order, once and without a gap,  *)
(* and a result cites its call, whatever order bodies settle in.           *)
THEOREM ResultsInModelOrder == Spec => []ModelOrder
<1>1. Transcript => ModelOrder
  BY DEF Transcript, Recorded, ModelOrder
<1>2. QED
  BY TranscriptInvariant, <1>1, PTL

(* A batch that returns has answered every call, aborted or not. *)
THEOREM ReturnedBatchIsAnswered == Spec => []EveryCallAnswered
<1>1. Transcript => EveryCallAnswered
  <2> SUFFICES ASSUME Transcript, pc = "returned", NEW c \in Calls
               PROVE  \E i \in 1..Len(log) : log[i].type # "call" /\ log[i].call = c
    BY DEF EveryCallAnswered
  <2>1. AnswersTo = NCalls
    BY DEF AnswersTo
  <2>2. QED
    BY <2>1 DEF Transcript, Recorded, Calls
<1>2. QED
  BY TranscriptInvariant, <1>1, PTL

(* Every variable keeps its type. *)
THEOREM TypeCorrect == Spec => []TypeOK
<1>1. Schedule /\ Transcript => TypeOK
  BY DEF Schedule, ControlTypes, Transcript, Recorded, TypeOK
<1>2. QED
  BY ScheduleInvariant, TranscriptInvariant, <1>1, PTL

-----------------------------------------------------------------------------
(* Synthetic answers are an aborted batch's, once its groups are over, for *)
(* calls that never started.                                               *)
Synthetic ==
  /\ aborted => signal
  /\ \A j \in 1..Len(log) :
       log[j].type = "skipped" =>
         aborted /\ log[j].call > started /\ pc \in {"between", "returned"}

LEMMA SkippedTail ==
  ASSUME log \in Seq(EventType), NEW n \in Nat, NEW d \in n..NCalls
  PROVE  LET more == log \o SkippedEvents(n + 1, d)
         IN  /\ \A j \in 1..Len(more) : (j \in 1..Len(log) /\ more[j] = log[j]) \/ more[j].call > n
             /\ n = d => more = log
<1> DEFINE tail == SkippedEvents(n + 1, d)
<1>1. /\ Len(log) \in Nat /\ n + 1 \in Nat \ {0} /\ d \in Nat /\ NCalls \in Nat
      /\ n + 1 <= d + 1 /\ d <= NCalls
  BY BatchAssumption
<1>2. /\ tail \in Seq(EventType) /\ Len(tail) = 2 * (d - (n + 1) + 1)
      /\ \A k \in 1..Len(tail) : tail[k].call = (n + 1) + (k - 1) \div 2
  <2>1. tail = SkippedPairs(Len(log), n + 1, d)
    BY DEF SkippedEvents
  <2> DEFINE pairs == SkippedPairs(Len(log), n + 1, d)
  <2>2. /\ pairs \in Seq(EventType) /\ Len(pairs) = 2 * (d - (n + 1) + 1)
        /\ \A k \in 1..Len(pairs) :
             /\ pairs[k].call = (n + 1) + (k - 1) \div 2
             /\ pairs[k].type = IF k % 2 = 1 THEN "call" ELSE "skipped"
             /\ k % 2 = 1 => pairs[k] = CallEvent((n + 1) + (k - 1) \div 2)
             /\ k % 2 # 1 => pairs[k].source = Len(log) + k - 1
    BY <1>1, PairEvents, Zenon
  <2> HIDE DEF tail, pairs
  <2>3. QED
    BY <2>1, <2>2 DEF pairs
<1> HIDE DEF tail
<1>3. ASSUME NEW k \in 1..Len(tail) PROVE tail[k].call > n
  <2>1. k \in Nat /\ k >= 1
    BY <1>1, <1>2
  <2>2. (k - 1) \div 2 \in Nat
    BY <2>1, Halves
  <2>3. QED
    BY <1>2, <2>2
<1>4. \A j \in 1..Len(log \o tail) :
        (j \in 1..Len(log) /\ (log \o tail)[j] = log[j]) \/ (log \o tail)[j].call > n
  <2> TAKE j \in 1..Len(log \o tail)
  <2>1. CASE j \in 1..Len(log)
    BY <1>2, <2>1
  <2>2. CASE j \notin 1..Len(log)
    <3>1. j - Len(log) \in 1..Len(tail) /\ (log \o tail)[j] = tail[j - Len(log)]
      BY <1>2, <2>2
    <3>2. QED
      BY <1>3, <3>1
  <2>3. QED
    BY <2>1, <2>2
<1>5. n = d => log \o tail = log
  <2>1. n = d => Len(tail) = 0
    BY <1>2
  <2>2. QED
    BY <1>2, <2>1
<1>6. QED
  BY <1>4, <1>5 DEF tail

(* No synthetic answer is in the record of a group under way. *)
LEMMA EndGroupSynthetic ==
  ASSUME Schedule, log \in Seq(EventType), \A j \in 1..Len(log) : log[j].type # "skipped",
         NEW ab \in BOOLEAN, NEW lst \in started..NCalls, EndGroup(ab, lst),
         aborted' = ab, ab => signal, signal' = signal, committed = started
  PROVE  Synthetic'
<1> USE DEF Schedule, ControlTypes, EndGroup
<1>1. CASE ab
  <2>1. log' = log \o SkippedEvents(started + 1, lst) /\ started' = started /\ pc' = "between"
    BY <1>1
  <2>2. \A j \in 1..Len(log') : (j \in 1..Len(log) /\ log'[j] = log[j]) \/ log'[j].call > started
    BY <2>1, SkippedTail
  <2>3. QED
    BY <1>1, <2>1, <2>2 DEF Synthetic
<1>2. CASE ~ab
  BY <1>2 DEF Synthetic
<1>3. QED
  BY <1>1, <1>2

LEMMA StartCallSynthetic ==
  ASSUME Schedule, log \in Seq(EventType), \A j \in 1..Len(log) : log[j].type # "skipped",
         NEW c \in Calls, StartCall(c), aborted' => signal'
  PROVE  Synthetic'
<1>1. log' = Append(log, CallEvent(c)) /\ CallEvent(c).type = "call"
  BY CallEventType DEF StartCall
<1>2. \A j \in 1..Len(log') : log'[j].type # "skipped"
  <2> TAKE j \in 1..Len(log')
  <2>1. j \in 1..Len(log) \/ j = Len(log) + 1
    BY <1>1
  <2>2. QED
    BY <1>1, <2>1
<1>3. QED
  BY <1>2 DEF Synthetic

LEMMA CommitFromSynthetic ==
  ASSUME ControlTypes, NEW events \in Seq(EventType), NEW c \in 0..started,
         \A j \in 1..Len(events) : events[j].type # "skipped", CommitFrom(c, events),
         committed' \in c..started, callSeq \in [Calls -> Nat], aborted' => signal'
  PROVE  Synthetic'
<1> USE BatchAssumption DEF ControlTypes
<1> DEFINE tail == Results(c, committed', callSeq)
<1>1. log' = events \o tail
  BY DEF CommitFrom, Results
<1>2. c \in Nat /\ committed' \in Nat /\ c <= committed' /\ committed' <= NCalls
  OBVIOUS
<1>3. tail \in Seq(EventType)
  BY <1>2, ResultsType
<1>4. \A k \in 1..Len(tail) : tail[k].type # "skipped"
  BY <1>2, ResultsType
<1> HIDE DEF tail
<1>5. \A j \in 1..Len(log') : log'[j].type # "skipped"
  <2> TAKE j \in 1..Len(log')
  <2>1. CASE j \in 1..Len(events)
    BY <1>1, <1>3, <2>1
  <2>2. CASE j \notin 1..Len(events)
    <3>1. j - Len(events) \in 1..Len(tail) /\ log'[j] = tail[j - Len(events)]
      BY <1>1, <1>3, <2>2
    <3>2. QED
      BY <1>4, <3>1
  <2>3. QED
    BY <2>1, <2>2
<1>6. QED
  BY <1>5 DEF Synthetic

(* While a group is under way, the record holds no synthetic answer. *)
LEMMA NoneUnderWay ==
  ASSUME Synthetic, pc \notin {"between", "returned"}
  PROVE  \A j \in 1..Len(log) : log[j].type # "skipped"
BY DEF Synthetic

LEMMA NextGroupSynthetic ==
  ASSUME Schedule, Transcript, Synthetic, NextGroup
  PROVE  Synthetic'
<1> USE BatchAssumption DEF NextGroup, groupVars, logVars
<1>1. /\ pc = "between" /\ log \in Seq(EventType) /\ next \in 0..NCalls /\ started <= next
      /\ committed = started /\ started \in 0..NCalls /\ signal \in BOOLEAN
      /\ ~aborted => next = started /\ nextToStart = started
  BY DEF Transcript, Recorded, Schedule, ControlTypes, Counters
<1>2. CASE aborted \/ next = NCalls
  <2>1. /\ log' = log \o SkippedEvents(next + 1, NCalls) /\ pc' = "returned"
        /\ UNCHANGED <<started, aborted, signal>>
    BY <1>2
  <2>2. next \in Nat /\ NCalls \in next..NCalls
    BY <1>1
  <2>3. /\ \A j \in 1..Len(log') : (j \in 1..Len(log) /\ log'[j] = log[j]) \/ log'[j].call > next
        /\ next = NCalls => log' = log
    BY <1>1, <2>1, <2>2, SkippedTail
  <2>4. log' \in Seq(EventType)
    BY NextGroupTranscript DEF Transcript, Recorded
  <2>5. CASE next = NCalls
    BY <1>1, <2>1, <2>3, <2>5 DEF Synthetic
  <2>6. CASE aborted
    <3>1. ASSUME NEW j \in 1..Len(log') PROVE log'[j].type = "skipped" => log'[j].call > started
      <4>1. log'[j] \in EventType
        BY <2>4
      <4>2. log'[j].call \in Nat
        BY <4>1 DEF EventType, Calls
      <4>3. CASE j \in 1..Len(log) /\ log'[j] = log[j]
        BY <2>1, <4>3 DEF Synthetic
      <4>4. CASE log'[j].call > next
        BY <1>1, <4>2, <4>4
      <4>5. QED
        BY <2>3, <4>3, <4>4
    <3>2. QED
      BY <2>1, <2>6, <3>1 DEF Synthetic
  <2>7. QED
    BY <1>2, <2>5, <2>6
<1>3. CASE ~aborted /\ next < NCalls
  <2>1. \A j \in 1..Len(log) : log[j].type # "skipped"
    BY <1>3 DEF Synthetic
  <2>2. /\ last' \in started..NCalls /\ aborted' = signal /\ signal' = signal
        /\ nextToStart + 1 \in Calls
    BY <1>1, <1>3 DEF Calls
  <2>3. CASE StartCall(nextToStart + 1)
    BY <1>1, <2>1, <2>2, <2>3, StartCallSynthetic
  <2>4. CASE EndGroup(signal, last')
    BY <1>1, <2>1, <2>2, <2>4, EndGroupSynthetic
  <2>5. CASE pc' = "racing" /\ inFlight # {}
    BY <1>1, <2>5 DEF Schedule, Dispatches
  <2>6. QED
    BY <1>3, <2>3, <2>4, <2>5 DEF FillPool
<1>4. QED
  BY <1>2, <1>3

LEMMA CommitReturnsSynthetic ==
  ASSUME Schedule, Transcript, Synthetic, CommitReturns
  PROVE  Synthetic'
<1> USE DEF CommitReturns, logVars
<1>1. \A j \in 1..Len(log) : log[j].type # "skipped"
  BY NoneUnderWay
<1>2. /\ log \in Seq(EventType) /\ signal' = signal /\ (aborted => signal)
      /\ started <= last /\ last \in 0..NCalls /\ started \in 0..NCalls
      /\ nextToStart = started /\ aborted \in BOOLEAN /\ signal \in BOOLEAN
  BY DEF Transcript, Recorded, Synthetic, Schedule, ControlTypes, Counters, Active
<1>3. CASE UNCHANGED log /\ (aborted' => signal)
  BY <1>1, <1>2, <1>3 DEF Synthetic
<1>4. CASE aborted' = (aborted \/ signal) /\ MayStart(aborted', last) /\ StartCall(nextToStart + 1)
  <2>1. nextToStart + 1 \in Calls
    BY <1>2, <1>4, BatchAssumption DEF MayStart, Calls
  <2>2. QED
    BY <1>1, <1>2, <1>4, <2>1, StartCallSynthetic
<1>5. CASE aborted' = (aborted \/ signal) /\ inFlight = {} /\ EndGroup(aborted', last)
  <2>1. committed = started
    BY <1>5 DEF Schedule, Counters, Active, Dispatches, ControlTypes
  <2>2. aborted' \in BOOLEAN /\ last \in started..NCalls /\ (aborted' => signal)
    BY <1>2, <1>5
  <2>3. QED
    BY <1>1, <1>2, <1>5, <2>1, <2>2, EndGroupSynthetic
<1>6. QED
  BY <1>2, <1>3, <1>4, <1>5 DEF FillPool, Fail

LEMMA CommitsSynthetic ==
  ASSUME Schedule, Transcript, Synthetic, StartReturns \/ RaceSettles \/ FinalizeSettles
  PROVE  Synthetic'
<1>1. /\ \A j \in 1..Len(log) : log[j].type # "skipped"
      /\ log \in Seq(EventType) /\ callSeq \in [Calls -> Nat]
      /\ aborted' = aborted /\ signal' = signal /\ (aborted => signal)
  BY NoneUnderWay DEF StartReturns, RaceSettles, FinalizeSettles, Transcript, Recorded, Synthetic
<1>2. CASE log' = log
  BY <1>1, <1>2 DEF Synthetic
<1>3. ASSUME CommitFrom(committed, log), StartReturns \/ RaceSettles
      PROVE  Synthetic'
  <2>1. /\ ControlTypes /\ Counters /\ Places /\ committed \in 0..last
        /\ committed \in 0..started /\ committed <= started /\ committed <= committed
        /\ Active /\ pc \notin {"preparing", "draining", "rejected"}
    BY <1>3 DEF Schedule, ControlTypes, Counters, Active, StartReturns, RaceSettles
  <2>2. UNCHANGED <<started, slot>>
    BY <1>3 DEF StartReturns, RaceSettles, callVars
  <2>3. committed' \in committed..started
    <3>1. committed' \in 0..NCalls /\ committed <= committed' /\ committed' <= started
      BY <1>3, <2>1, <2>2, CommitFromSchedule
    <3>2. QED
      BY <2>1, <3>1 DEF ControlTypes
  <2>4. QED
    BY <1>1, <1>3, <2>1, <2>3, CommitFromSynthetic
<1>4. ASSUME CommitFrom(committed + 1, Append(log, ResultEvent(committed + 1, callSeq[committed + 1]))),
             FinalizeSettles
      PROVE  Synthetic'
  <2> DEFINE c == committed + 1
             events == Append(log, ResultEvent(c, callSeq[c]))
  <2>1. /\ ControlTypes /\ Counters /\ Places /\ c \in 0..last /\ c \in 0..started
        /\ c <= started /\ committed <= c /\ Active /\ c \in Calls
        /\ pc \notin {"preparing", "draining", "rejected"}
    BY <1>4, BatchAssumption
       DEF Schedule, ControlTypes, Counters, Active, FinalizeSettles, Calls
  <2>2. UNCHANGED <<started, slot>>
    BY <1>4 DEF FinalizeSettles, callVars
  <2>3. /\ ResultEvent(c, callSeq[c]) \in EventType
        /\ ResultEvent(c, callSeq[c]).type # "skipped"
    BY <1>1, <2>1, ResultEventType
  <2>4. events \in Seq(EventType) /\ \A j \in 1..Len(events) : events[j].type # "skipped"
    <3>1. /\ events \in Seq(EventType) /\ Len(events) = Len(log) + 1
          /\ events[Len(log) + 1] = ResultEvent(c, callSeq[c])
          /\ \A j \in 1..Len(log) : events[j] = log[j]
      BY <1>1, <2>3
    <3>2. \A j \in 1..Len(events) : j \in 1..Len(log) \/ j = Len(log) + 1
      BY <1>1, <3>1
    <3>3. QED
      BY <1>1, <2>3, <3>1, <3>2
  <2> HIDE DEF events, c
  <2>5. CommitFrom(c, events)
    BY <1>4 DEF c, events
  <2>6. committed' \in c..started
    <3>1. committed' \in 0..NCalls /\ c <= committed' /\ committed' <= started
      BY <2>1, <2>2, <2>5, CommitFromSchedule
    <3>2. QED
      BY <2>1, <3>1 DEF ControlTypes
  <2>7. QED
    BY <1>1, <2>1, <2>4, <2>5, <2>6, CommitFromSynthetic
<1>5. QED
  BY <1>2, <1>3, <1>4 DEF StartReturns, RaceSettles, FinalizeSettles

LEMMA OthersSynthetic ==
  ASSUME Schedule, Synthetic,
         PrepareSettles \/ Drained \/ DispatchSettles \/ Abort \/ Reregister \/ UNCHANGED vars
  PROVE  Synthetic'
<1> USE DEF Synthetic, groupVars, countVars, logVars
<1>1. CASE PrepareSettles
  BY <1>1 DEF PrepareSettles, Fail
<1>2. CASE Drained
  BY <1>2 DEF Drained
<1>3. CASE DispatchSettles
  BY <1>3 DEF DispatchSettles
<1>4. CASE Abort
  BY <1>4 DEF Abort
<1>5. CASE Reregister
  BY <1>5 DEF Reregister
<1>6. CASE UNCHANGED vars
  BY <1>6 DEF vars
<1>7. QED
  BY <1>1, <1>2, <1>3, <1>4, <1>5, <1>6

LEMMA SyntheticInvariant == Spec => []Synthetic
<1>1. Init => Synthetic
  BY DEF Init, Synthetic
<1>2. Schedule /\ Transcript /\ Synthetic /\ [Next]_vars => Synthetic'
  BY NextCases, NextGroupSynthetic, CommitReturnsSynthetic, CommitsSynthetic, OthersSynthetic
<1>3. QED
  BY ScheduleInvariant, TranscriptInvariant, <1>1, <1>2, PTL DEF Spec

(* Only an aborted batch answers in a call's stead, and only a call that   *)
(* never started: a failed scheduler fabricates no answer.                 *)
THEOREM AbortsAloneFabricate == Spec => []NothingFabricated
<1>1. Schedule /\ Transcript /\ Synthetic => NothingFabricated
  <2> SUFFICES ASSUME Schedule, Transcript, Synthetic,
                      NEW i \in 1..Len(log), log[i].type = "skipped"
               PROVE  signal /\ pc # "rejected" /\ ranAs[log[i].call] = "none"
    BY DEF NothingFabricated
  <2>1. aborted /\ signal /\ log[i].call > started /\ pc \in {"between", "returned"}
    BY DEF Synthetic
  <2>2. log[i] \in EventType
    BY DEF Transcript, Recorded
  <2>3. log[i].call \in Calls
    BY <2>2 DEF EventType
  <2>4. QED
    BY <2>1, <2>3 DEF Schedule, Places, Placed
<1>2. QED
  BY ScheduleInvariant, TranscriptInvariant, SyntheticInvariant, <1>1, PTL

(* What runs together is what may: a full pool or one exclusive call. *)
THEOREM PoolDisciplineKept == Spec => []PoolDiscipline
<1>1. ExclusiveAlone /\ PoolBounded => PoolDiscipline
  BY DEF PoolDiscipline
<1>2. QED
  BY ExclusiveRunsAlone, PoolIsBounded, <1>1, PTL

(* The log of a batch is a transcript the model may be shown: in its       *)
(* order, complete when the batch returns, and with no answer made up for  *)
(* a call that ran.                                                        *)
THEOREM TranscriptAlwaysValid == Spec => []TranscriptValid
<1>1. ModelOrder /\ EveryCallAnswered /\ NothingFabricated => TranscriptValid
  BY DEF TranscriptValid
<1>2. QED
  BY ResultsInModelOrder, ReturnedBatchIsAnswered, AbortsAloneFabricate, <1>1, PTL

=============================================================================
