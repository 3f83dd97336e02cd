----------------------------- MODULE WriteBehind -----------------------------
(***************************************************************************)
(* The per-session write controller of the persistence coordinator:        *)
(* packages/session/session-persistence/src/write-behind.ts, driven as     *)
(* PersistenceCoordinator.flush, initFor and createWriteBehind drive it.   *)
(*                                                                         *)
(* Events are named by their sequence number: the n-th enqueued event is   *)
(* n.  One action is one synchronous block of the JavaScript program: the  *)
(* code between two suspension points (an await, a promise reaction, a     *)
(* timer callback) runs to completion, and anything may happen between     *)
(* two blocks.                                                             *)
(***************************************************************************)
EXTENDS Integers, Sequences

CONSTANTS
  MaxEvents,     \* bound: events the session appends
  MaxFlushes,    \* bound: calls of the coordinator's flush
  MaxFailures    \* bound: backend writes that fail

ASSUME BoundsAssumption == MaxEvents \in Nat /\ MaxFlushes \in Nat /\ MaxFailures \in Nat

VARIABLES
  enqueued,         \* number of events handed to enqueue so far
  pending,          \* this.pending: the retained queue
  timer,            \* this.timer # undefined
  active,           \* this.active: "none", "writing" (write in flight) or
                    \*   "settling" (the write settled, finally has not run)
  batch,            \* the prefix spliced off by the active write
  background,       \* whether startBackground owns the active write
  writeFailed,      \* how the settling write ended
  continuing,       \* the continueAutomatic reaction is queued
  barrier,          \* this.barrier: "none", "overlap" (awaiting the write it
                    \*   found active) or "drain" (awaiting its own write)
  deadlineExpired,  \* this.deadlineExpired
  automaticPaused,  \* this.automaticPaused
  init,             \* live.init: "pending", "ok" or "failed"
  joining,          \* coordinator flushes awaiting live.init
  wanted,           \* events enqueued when the last caller joined the barrier
  flushed,          \* events some resolved flush has acknowledged
  durable,          \* the backend's log
  flushes, failures \* counters of the two bounds

(* The queue and what has left it, the scheduling flags, the callers. *)
queueVars == <<enqueued, pending, durable>>
writeVars == <<active, batch, background, writeFailed, continuing>>
flagVars  == <<timer, deadlineExpired, automaticPaused>>
callVars  == <<barrier, joining, wanted, flushed, init>>
boundVars == <<flushes, failures>>
vars == <<queueVars, writeVars, flagVars, callVars, boundVars>>

Init ==
  /\ enqueued = 0 /\ pending = <<>> /\ durable = <<>>
  /\ active = "none" /\ batch = <<>> /\ background = FALSE
  /\ writeFailed = FALSE /\ continuing = FALSE
  /\ timer = FALSE /\ deadlineExpired = FALSE /\ automaticPaused = FALSE
  /\ barrier = "none" /\ joining = 0 /\ wanted = 0 /\ flushed = 0
  /\ init = "pending"
  /\ flushes = 0 /\ failures = 0

-----------------------------------------------------------------------------
(* startWrite: the pending prefix leaves the queue, the wait is cancelled. *)
StartWrite(bg) ==
  /\ active' = "writing"
  /\ batch' = pending
  /\ background' = bg
  /\ pending' = <<>>
  /\ timer' = FALSE
  /\ deadlineExpired' = FALSE
  /\ UNCHANGED writeFailed

(* Fault: resuming a paused path forgets to arm the deadline. *)
EnqueueUnarmed ==
  /\ enqueued < MaxEvents
  /\ enqueued' = enqueued + 1
  /\ pending' = Append(pending, enqueued + 1)
  /\ timer' = (timer \/ (barrier = "none" /\ pending = <<>>))
  /\ automaticPaused' = (automaticPaused /\ barrier # "none")
  /\ UNCHANGED <<durable, deadlineExpired, writeVars, callVars, boundVars>>

(* enqueue: the deadline is armed by the first event of an idle queue, and *)
(* by any event that finds the automatic path paused; never by a barrier.  *)
Enqueue ==
  /\ enqueued < MaxEvents
  /\ enqueued' = enqueued + 1
  /\ pending' = Append(pending, enqueued + 1)
  /\ \/ /\ barrier # "none"
        /\ UNCHANGED flagVars
     \/ /\ barrier = "none"
        /\ automaticPaused
        /\ automaticPaused' = FALSE
        /\ deadlineExpired' = FALSE
        /\ timer' = TRUE
     \/ /\ barrier = "none"
        /\ ~automaticPaused
        /\ timer' = (timer \/ pending = <<>>)
        /\ UNCHANGED <<deadlineExpired, automaticPaused>>
  /\ UNCHANGED <<durable, writeVars, callVars, boundVars>>

(* No promise reaction is queued: only then does the event loop run a timer. *)
MicrotasksDrained ==
  /\ active # "settling"
  /\ ~continuing
  /\ barrier = "none" \/ active = "writing"

(* Fault: a deadline that finds a write active is forgotten. *)
DeadlineForgotten ==
  /\ timer
  /\ MicrotasksDrained
  /\ \/ /\ active # "none"
        /\ timer' = FALSE
        /\ UNCHANGED <<deadlineExpired, pending, active, batch, background, writeFailed>>
     \/ /\ active = "none"
        /\ StartWrite(TRUE)
  /\ UNCHANGED <<enqueued, durable, continuing, automaticPaused, callVars, boundVars>>

(* onDeadline: start a background write, or note that the budget is spent. *)
Deadline ==
  /\ timer
  /\ MicrotasksDrained
  /\ \/ /\ active # "none"
        /\ timer' = FALSE
        /\ deadlineExpired' = TRUE
        /\ UNCHANGED <<pending, active, batch, background, writeFailed>>
     \/ /\ active = "none"
        /\ StartWrite(TRUE)
  /\ UNCHANGED <<enqueued, durable, continuing, automaticPaused, callVars, boundVars>>

(* The session is initialised in the backend, or its id is refused. *)
InitSettles ==
  /\ init = "pending"
  /\ init' \in {"ok", "failed"}
  /\ UNCHANGED <<queueVars, writeVars, flagVars, boundVars, barrier, joining, wanted, flushed>>

(* options.write resolved: the batch is durable, in order, and once. *)
WriteSucceeds ==
  /\ active = "writing"
  /\ init = "ok"
  /\ durable' = durable \o batch
  /\ batch' = <<>>
  /\ active' = "settling"
  /\ writeFailed' = FALSE
  /\ UNCHANGED <<enqueued, pending, background, continuing, flagVars, callVars, boundVars>>

(* Fault: the failed batch is put back behind the events that came later. *)
WriteFailsBehind ==
  /\ active = "writing" /\ init = "ok" /\ failures < MaxFailures
  /\ failures' = failures + 1
  /\ pending' = pending \o batch /\ batch' = <<>>
  /\ active' = "settling" /\ writeFailed' = TRUE
  /\ timer' = FALSE /\ deadlineExpired' = FALSE /\ automaticPaused' = TRUE
  /\ UNCHANGED <<enqueued, durable, background, continuing, callVars, flushes>>

(* Fault: a write that already reached the log is reported failed and retried. *)
WriteFailsAfterCommit ==
  /\ active = "writing" /\ init = "ok" /\ failures < MaxFailures
  /\ failures' = failures + 1
  /\ durable' = durable \o batch
  /\ pending' = batch \o pending /\ batch' = <<>>
  /\ active' = "settling" /\ writeFailed' = TRUE
  /\ timer' = FALSE /\ deadlineExpired' = FALSE /\ automaticPaused' = TRUE
  /\ UNCHANGED <<enqueued, background, continuing, callVars, flushes>>

(* options.write rejected: the catch handler puts the batch back in front. *)
(* A refused initialization rejects every write.                           *)
WriteFails ==
  /\ active = "writing"
  /\ init # "pending"
  /\ \/ init = "failed" /\ UNCHANGED failures
     \/ init = "ok" /\ failures < MaxFailures /\ failures' = failures + 1
  /\ pending' = batch \o pending
  /\ batch' = <<>>
  /\ active' = "settling"
  /\ writeFailed' = TRUE
  /\ timer' = FALSE
  /\ deadlineExpired' = FALSE
  /\ automaticPaused' = TRUE
  /\ UNCHANGED <<enqueued, durable, background, continuing, callVars, flushes>>

(* The finally handler: this.active is cleared, the awaiting code is queued. *)
WriteDone ==
  /\ active = "settling"
  /\ active' = "none"
  /\ continuing' = (background /\ ~writeFailed)
  /\ UNCHANGED <<queueVars, batch, background, writeFailed, flagVars, callVars, boundVars>>

(* continueAutomatic: an expired deadline is served at once. *)
ContinueAutomatic ==
  /\ continuing
  /\ continuing' = FALSE
  /\ \/ /\ barrier = "none" /\ pending # <<>> /\ deadlineExpired
        /\ StartWrite(TRUE)
     \/ /\ ~(barrier = "none" /\ pending # <<>> /\ deadlineExpired)
        /\ UNCHANGED <<pending, active, batch, background, writeFailed, timer, deadlineExpired>>
  /\ UNCHANGED <<enqueued, durable, automaticPaused, callVars, boundVars>>

-----------------------------------------------------------------------------
(* The loop of drainBarrier at its condition: write what is queued, or     *)
(* close admission and resolve the callers in the same block.              *)
DrainLoop(want) ==
  \/ /\ pending # <<>>
     /\ StartWrite(FALSE)
     /\ barrier' = "drain"
     /\ UNCHANGED flushed
  \/ /\ pending = <<>>
     /\ barrier' = "none"
     /\ flushed' = want
     /\ timer' = FALSE
     /\ deadlineExpired' = FALSE
     /\ UNCHANGED <<pending, active, batch, background, writeFailed>>

(* PersistenceCoordinator.flush up to its await of live.init. *)
CoordinatorFlush ==
  /\ flushes < MaxFlushes
  /\ flushes' = flushes + 1
  /\ joining' = joining + 1
  /\ timer' = FALSE
  /\ deadlineExpired' = FALSE
  /\ UNCHANGED <<queueVars, writeVars, automaticPaused, barrier, wanted, flushed, init, failures>>

(* Fault: a rejected caller is discounted twice. *)
FlushRejectedTwice ==
  /\ joining > 0
  /\ init = "failed"
  /\ joining' = joining - 2
  /\ timer' = FALSE
  /\ deadlineExpired' = FALSE
  /\ UNCHANGED <<queueVars, writeVars, automaticPaused, barrier, wanted, flushed, init, boundVars>>

(* ... and after it: a refused initialization rejects the caller. *)
FlushRejected ==
  /\ joining > 0
  /\ init = "failed"
  /\ joining' = joining - 1
  /\ timer' = FALSE
  /\ deadlineExpired' = FALSE
  /\ UNCHANGED <<queueVars, writeVars, automaticPaused, barrier, wanted, flushed, init, boundVars>>

(* SessionWriteBehind.flush: join the barrier, or start one and drain. *)
Flush ==
  /\ joining > 0
  /\ init = "ok"
  /\ joining' = joining - 1
  /\ wanted' = enqueued
  /\ \/ /\ barrier # "none"
        /\ UNCHANGED <<barrier, flushed, pending, flagVars, active, batch, background, writeFailed>>
     \/ /\ barrier = "none"
        /\ automaticPaused' = FALSE
        /\ \/ /\ active # "none"
              /\ barrier' = "overlap"
              /\ timer' = FALSE
              /\ deadlineExpired' = FALSE
              /\ UNCHANGED <<flushed, pending, active, batch, background, writeFailed>>
           \/ /\ active = "none"
              /\ DrainLoop(enqueued)
  /\ UNCHANGED <<enqueued, durable, continuing, init, boundVars>>

(* Fault: the barrier resolves with the overlapping write, drained or not. *)
OverlapResolves ==
  /\ barrier = "overlap"
  /\ active = "none"
  /\ ~continuing
  /\ automaticPaused' = FALSE
  /\ barrier' = "none"
  /\ flushed' = wanted
  /\ UNCHANGED <<queueVars, writeVars, timer, deadlineExpired, joining, wanted, init, boundVars>>

(* drainBarrier after allSettled([overlapping]). *)
OverlapSettled ==
  /\ barrier = "overlap"
  /\ active = "none"
  /\ ~continuing
  /\ automaticPaused' = FALSE
  /\ DrainLoop(wanted)
  /\ UNCHANGED <<enqueued, durable, continuing, joining, wanted, init, boundVars>>

(* Fault: the barrier survives its own failed write. *)
DrainStuck ==
  /\ barrier = "drain"
  /\ active = "none"
  /\ ~continuing
  /\ ~writeFailed
  /\ DrainLoop(wanted)
  /\ UNCHANGED <<enqueued, durable, continuing, automaticPaused, joining, wanted, init, boundVars>>

(* drainBarrier after its own write: loop on success, reject on failure. *)
DrainSettled ==
  /\ barrier = "drain"
  /\ active = "none"
  /\ ~continuing
  /\ \/ ~writeFailed /\ DrainLoop(wanted)
     \/ /\ writeFailed
        /\ barrier' = "none"
        /\ UNCHANGED <<flushed, pending, active, batch, background, writeFailed,
                       timer, deadlineExpired>>
  /\ UNCHANGED <<enqueued, durable, continuing, automaticPaused, joining, wanted, init, boundVars>>

-----------------------------------------------------------------------------
(* What the event loop and the backend do once they can. *)
Settle ==
  \/ Deadline \/ InitSettles \/ WriteSucceeds \/ WriteFails \/ WriteDone
  \/ ContinueAutomatic \/ FlushRejected \/ Flush \/ OverlapSettled \/ DrainSettled

Next == Enqueue \/ CoordinatorFlush \/ Settle

Spec == Init /\ [][Next]_vars

(* Timers fire, promise reactions run and backend writes settle; whether   *)
(* events arrive, and how a write settles, is up to the environment.       *)
FairSpec == Spec /\ WF_vars(Settle)

-----------------------------------------------------------------------------
QueueTypeOK == enqueued \in Nat /\ pending \in Seq(Nat) /\ durable \in Seq(Nat)
WriteTypeOK ==
  /\ active \in {"none", "writing", "settling"} /\ batch \in Seq(Nat)
  /\ background \in BOOLEAN /\ writeFailed \in BOOLEAN /\ continuing \in BOOLEAN
FlagTypeOK == timer \in BOOLEAN /\ deadlineExpired \in BOOLEAN /\ automaticPaused \in BOOLEAN
CallTypeOK ==
  /\ barrier \in {"none", "overlap", "drain"} /\ init \in {"pending", "ok", "failed"}
  /\ joining \in Nat /\ wanted \in Nat /\ flushed \in Nat
BoundTypeOK == flushes \in Nat /\ failures \in Nat
TypeOK == QueueTypeOK /\ WriteTypeOK /\ FlagTypeOK /\ CallTypeOK /\ BoundTypeOK

(* Nothing is lost, repeated or reordered between the session and its log: *)
(* what is stored, what the active write carries and what waits are, end   *)
(* to end, the events enqueued so far, whatever failed and was retried.    *)
Numbered(n) == [i \in 1..n |-> i]
Conservation == (durable \o batch) \o pending = Numbered(enqueued)

(* A resolved flush was a durability barrier: every event enqueued before  *)
(* its last caller joined is in the log.                                   *)
FlushedIsDurable == flushed <= Len(durable)

(* Retained events always have somebody who will write them: a deadline, a *)
(* write that remembers one, a drain, a flush on its way, or - after a     *)
(* failure that paused the automatic path - the next event or flush.       *)
NoStrandedEvents ==
  pending # <<>> =>
    \/ timer
    \/ deadlineExpired /\ (active = "writing" \/ active = "settling" \/ continuing)
    \/ automaticPaused
    \/ barrier # "none" \/ joining > 0
    \/ init = "failed"

(* No event is lost, and none is kept that nobody will write. *)
NothingLostOrStranded == Conservation /\ NoStrandedEvents

(* The scheduling facts NoStrandedEvents and Conservation rest on: only the *)
(* active write carries a batch, a write outside a drain is a background   *)
(* one, a barrier stops the deadline, a queued reaction finds no write     *)
(* active, a failed write has cancelled its deadline, and a drain whose    *)
(* write failed leaves the automatic path paused.                          *)
Scheduling ==
  /\ active # "writing" => batch = <<>>
  /\ active # "none" /\ ~background => barrier = "drain"
  /\ barrier # "none" => ~timer /\ ~deadlineExpired
  /\ continuing /\ barrier = "none" => active = "none"
  /\ active = "settling" /\ writeFailed => ~deadlineExpired
  /\ barrier = "drain" /\ writeFailed /\ active # "writing" => automaticPaused
  /\ wanted <= enqueued

(* An enqueued event becomes durable unless a failed write paused the      *)
(* automatic path or the session was never initialised.                    *)
EventuallyDurable ==
  \A n \in 1..MaxEvents :
    enqueued >= n ~> (Len(durable) >= n \/ automaticPaused \/ init = "failed")

(* Every caller of flush gets an answer. *)
FlushSettles == (barrier # "none" \/ joining > 0) ~> (barrier = "none" /\ joining = 0)

(* Neither an event nor a caller waits for ever. *)
WritesProgress == EventuallyDurable /\ FlushSettles

(* The controller implements the durable log. *)
Log == INSTANCE DurableLog WITH
  appended <- enqueued, stored <- durable, acknowledged <- flushed
ImplementsDurableLog == Log!Spec

=============================================================================
