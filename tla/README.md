# Formal models of the DeepSeek Harness

This directory holds TLA+ models of the harness's core control logic, TLC
configurations that check them on small instances, and proofs TLAPS checks for
every value of the constants. The models are written from the TypeScript under
`packages/`; `PROJECT.json` ties every modelling definition to the lines it
stands for.

* [The system](#the-system): components, state, operations, hazards
* [Modules](#modules): what models what, state by state and action by action
* [Runs](#runs): configurations, bounds, fairness
* [Disagreements found](#disagreements-found)
* [Proofs](#proofs)
* [What is not modelled](#what-is-not-modelled)
* [Plan](#plan)

## The system

The harness runs language-model agents. It is one Node.js process: Cordis
plugins register services, and every piece of state is mutated by synchronous
JavaScript between two awaits. Concurrency is therefore cooperative, and it is
everywhere: each `await`, each promise reaction, each event listener called in
the middle of a method is a point where other code may call back in. A session
is an append-only event log in memory; a write-behind controller copies it to a
backend; a cold load reads it back after a crash.

```
 callers (UI, subagents, goal, schedule, jobs)
    | send/followup/steer/inject, cancel, runMaintenance, whenIdle
    v
 Agent (core/agent-loop/agent.ts) --claims--> Inbox (core/agent/inbox.ts)
    |  turn { step { request, stream, tools } }
    |       \--> Tool scheduler (core/agent-loop/tool-calls.ts) --> tool bodies
    v  session.append
 Session (core/session) --validates--> invariant companion (invariant.ts)
    v  session/event
 Coordinator (session-persistence) --> write-behind --> JSONL / SQLite backend
                      ^                                     |
                      +--- cold load, repair.ts <--- crash -+
```

### Components

Modelled in whole or in part:

| Component | State | Operations | What is hard | Correct when |
|---|---|---|---|---|
| Write-behind controller (`session-persistence/src/write-behind.ts`) | retained queue, deadline timer, active write, barrier, pause flag | `enqueue`, `flush`, deadline, write settlement | deadlines that expire while a write is active; failed batches put back in front of newer events; flushes that join a barrier about to resolve | nothing is lost, doubled or reordered; a resolved flush is a durability barrier; retained events always have someone who will write them |
| Agent loop (`core/agent-loop/src/agent.ts`) | phase (idle / maintenance / running), its abort signal, latched wake, turn and step numbers, the driver's position, `activityDone` | `send`, `cancel`, `runMaintenance`, `whenIdle`; `kick`, `turn`, `step` | input, aborts and waits that arrive at any await, in a microtask gap or from inside a listener | the log stays well formed whatever throws; no input is lost or claimed twice; an aborted activity takes no more work; latched wakes are replayed |
| Inbox (`core/agent/src/inbox.ts`) | the next-turn and next-step lists | append, prepend, claim, remove, replace, clear; replay on restore | claims interleaved with sends and removals | each accepted message is waiting, claimed once, or announced as discarded |
| Tool scheduler (`core/agent-loop/src/tool-calls.ts`) | group mode, three counters, result slots, dispatches in flight, abort and failure flags | grouping, prepare / dispatch / finalize, ordered commit | bodies settle in any order; a dispatch fails or the step is aborted meanwhile; the registry changes a call's mode behind an await | results are committed in model order; exclusive calls are barriers; every call of a returning batch is answered; a failure fabricates nothing and orphans nothing |
| Crash repair (`core/session/src/repair.ts`) | none: a fold over a log | `interruptedTurnClosers` | a log cut anywhere, repair included; call ids and numbers reused | the repaired log is valid and tells the model the truth about started calls |
| Invariant companion (`core/session/src/invariant.ts`) | per-session trace: open turn and step, next numbers, pending calls | `validateEvent`, staging and commit of a transition | a vetoed append must not advance the trace | accepts exactly well-nested logs |
| Persistence coordinator (`session-persistence/src/coordinator.ts`) | live sessions by id, owners, preparations, per-id serialization | `flush`, `initFor`, `prepareCore`, `commitPrepared`, adoption, retirement, deletion | revisions that move between a read and its commit; two owners of one id; retirement with unsaved work | one writer per id, no stale view adopted, no unsaved work dropped |
| JSONL backend (`session-persistence-jsonl/src/index.ts`) | one file per session, its revision | append with rollback, `commitRepair`, read with torn tail | a torn record; a failed append | complete records survive, and nothing follows a torn one |
| Session preparations (`session-persistence/src/preparations.ts`) | an LRU of entries: loading, ready, committing, reserved | inspect, reserve, attach, discard, release, invalidate | an entry invalidated or replaced while its commit is awaited; waiters that must all be woken | one holder at a time, fit to publish; every caller settles |
| Goal rounds (`goal/goal-round-driver`, `goal/goal`) | the reservation of the next round, its flags, the runs of the driver; the goal's revision, phase and activation | drive, checkpoint, reserve, validate, the goal's mutations | prompts, cancels and goal changes while a checkpoint or a listener is awaited; a run started from inside another; an agent that looks idle in maintenance | only the next round of the live revision is admitted; rounds follow durable goal changes; what a cancel stopped is not carried on; an armed goal is driven |
| Schedules (`schedule/schedule`) | a fold of the session's reminder events, a line of transactions, one timer, one idle wait | create, list, delete; drive, arm, dispatch | a crash or a refused append between the inbox insertion and the durable dispatch; failing flushes; wall clocks that are set | reminders are of what is durable and due, and come again only after a crash; what is due is not forgotten |
| Background jobs (`jobs/jobs-local`, `jobs/tool-jobs`) | records with status, waiters, reports; a budget of wakes | start, kill, wait, read, settle, two teardowns, the notice | a wait aborted in the tick its job settles; teardown against producers that throw; stopping jobs and the limit | each completion is known to its owner, and announced only if nobody took it; the limit holds; waits and teardowns end |

Surveyed, not modelled:

| Component | State | Operations | What is hard | Correct when |
|---|---|---|---|---|
| Agent lifecycle (`core/agent-loop/src/index.ts`) | prepared and published machines, owners | prepare, publish, dispose, create, resume | disposal inside the constructor's or an announcement's callback | both registries agree; each machine is released once |
| Session store (`core/session`) | events, surface, observers | append, replace surface | observers that veto or throw in mid-append | the log advances only by accepted events |
| Projections and their cache (`session/session-projection*`) | folded views, cached with their position | fold, load, save | a cached view older than its log | a view equals the fold of its log |
| Subagent continuation (`subagent/subagent`) | parent and child agents | spawn, continue, cancel | a child that settles while its parent is torn down | the parent hears of each child once |
| LLM retry (`llm/llm-retry`) | attempts, backoff timer | recover, abort, dispose | an abort racing the timer | an abort wins; attempts are bounded |
| User approval (`interaction/user-approval`) | open requests | ask, answer, cancel | a late answer to a cancelled request | one outcome per request |
| Storage domain (`storage/storage-domain`) | records, write chain | load, put, close | a failed write in a chain of queued jobs | memory equals the unit on disk |
| Task board (`host/task-board`) | tasks, ledger, schedule | tick, run, record | ticks that overlap because one awaits its task | one run per due time |
| Settings, compaction, tool pipeline, scopes, LLM providers | see `PROJECT.json` | | mostly sequential folds and conversions | |
| Terminal, shell, sandbox, subprocess, host API, web | operating system and network I/O | | outside the harness's own logic | |

`PROJECT.json` lists every hazard with the line where it bites and the
properties that cover it, or why none does yet.

## Modules

One action is always one **synchronous block** of the program: from one
suspension (an `await`, a promise reaction, a timer callback, or a listener
called synchronously) to the next. What an awaited service answers is a
nondeterministic choice over everything its contract allows. Operators whose
comment begins with "Fault:" are not part of any specification: each is the
modelled definition with one plausible mistake in it, used to show that a
property can fail.

### WriteBehind, DurableLog

`DurableLog` is the promise of the persistence seam: the stored log is a prefix
of what was appended, and acknowledgements cover stored events only.
`WriteBehind` is the controller. Events are their own sequence numbers.

| Code | Model |
|---|---|
| `this.pending`, `timer`, `active`, `barrier`, `deadlineExpired`, `automaticPaused` | variables of the same names; `active` tells a write in flight from one that settled but whose `finally` has not run |
| `live.init` of the coordinator | `init` |
| `enqueue` | `Enqueue` |
| `onDeadline` | `Deadline` |
| `startWrite` and its `catch` / `finally` | `StartWrite`, `WriteSucceeds`, `WriteFails`, `WriteDone` |
| `continueAutomatic` | `ContinueAutomatic` |
| `PersistenceCoordinator.flush` | `CoordinatorFlush`, `FlushRejected`, `Flush` |
| `drainBarrier` | `OverlapSettled`, `DrainSettled`, `DrainLoop` |

`wanted` and `flushed` are history: the events enqueued when the last caller
joined the shared barrier promise, and those some resolved flush acknowledged.

### AgentLoop

`at` is the block of `kick`, `turn` or `step` that runs next:

```
off -> starting -> opening -> prestep -> decided -> stepping -> requesting
          |          turn/start              |        step/start     |
          |                                  |                   streaming <-> recovering
          |                                  |                       |
        ended <- ending (turn/end) <- closing/stopping <- stepped <- tools
```

| Code | Model |
|---|---|
| `this.phase` and its controller's signal | `phase`, `aborted` (with its cause), `wakeRequested`, `turn`, `step` |
| `activityDone`, replaced by each driver | `activity`, `exited`, `watching` |
| `send` / `followup` / `steer` / `inject` | `Send` (insertion), then `Wake` (`wakeDriver`): insertion observers run in between and may cancel, remove, or start maintenance |
| `acceptResultContext` | `AcceptContext` |
| `cancel` | `Cancel` |
| `Inbox.remove`, `Inbox.claim` | `Remove`, `Claim` |
| `runMaintenance` | `StartMaintenance`, `MaintenanceEnds` |
| `whenIdle` | `WhenIdle`, `WaiterResumes`; a waiter resumes only when the promise it awaits resolved (`ActivityResolves`) and looks again |
| `kick` | `StartTurn`, `Retire`, `Converge` |
| `turn` | `OpenBoundary`, `PreStepSettles`, `EnterStep`, `RunStep`, `StepReturns`, `AfterStep`, `StoppingSettles`, `TurnReturns`, `EndTurn`, `FailTurn` |
| `step` | `RequestBuilt`, `StreamSettles`, `RecoverySettles`, `ToolsSettle` |
| the trace of `invariant.ts` | `openTurn`, `openStep`, `nextTurnNo`, `nextStepNo`, `ended` |

`prompts`, `ceiling` and `owes` are history the properties speak of.

Abstractions, each of them named here because a property could depend on it:

* Boundary events are not vetoed by other session observers. While one is
  published only aborts can happen, since `Session.append` refuses re-entrance.
* Insertion observers may cancel, remove messages and start maintenance, but do
  not send from inside the notification; listeners of the discard notification
  inside `cancel` do not call back; `agent/error` listeners act before or after
  the `catch`/`finally` block, not within it.
* `Inbox.prepend` and `Inbox.replace`, and arbitrary splices, are left out.
* Retries of a failed request are unbounded, as in the code; the retry policy
  is another plugin.

### ToolScheduler

`executeToolCalls` and `runGroup` as one coroutine: `pc` is its block.

| Code | Model |
|---|---|
| the `for` loop over groups | `NextGroup`, `EndGroup` |
| `fillPool` and its re-read of a later call's mode | `FillPool`, `MayStart`, `Reclassified` |
| `startCall` around its await of `prepare` | `StartCall`, `PrepareSettles`, `StartReturns` |
| `commitReady` around its await of `finalize` | `CommitFrom`, `FinalizeSettles`, `CommitReturns` |
| `Promise.race` over the dispatches | `RaceSettles` (any settled dispatch may win) |
| the `catch` block's `allSettled` | `Drained` |
| a dispatched body | `DispatchSettles` |
| `appendToolCall`, `appendToolResult`, `appendSkippedToolCall` | `CallEvent`, `ResultEvent`, `SkippedEvents` |

The environment may abort the signal and change the registered mode of calls
not yet started at any time. Session appends do not throw here; argument
parsing, result contents and `concludesTurn` are abstracted away.

### SessionRecovery

A stored log of records, a writer that may stop anywhere, and a cold load.

| Code | Model |
|---|---|
| `interruptedTurnClosers` | `Scan` / `PendingAfter` (its loop), `Closers` (its result) |
| `validateEvent`, `applyTransition`, `seedSession` of the companion | `Advance`, `Trace` |
| `prepareCore`, `commitPrepared` | `Load` |
| `commitRepair` | `Truncate`, then `CommitClosers` or `CommitFails` |
| the agent loop and the tool scheduler as writers | `TurnStart` ... `ToolResult` |
| a crash of the process | `Crash`: in mid-record while driving, or after any prefix of the closers |

One process writes. The encoding is plain JSONL: the recovered events of the
zstd encoding are not modelled. Events still in the write-behind queue when the
process dies are simply not in the log, so losing them is a crash at an earlier
position. Call ids are positions in their assistant message and are reused in
every step, the case that makes leftovers of one step dangerous in another. The
load of an empty log stands for creating the session again. Revision checks and
the pool of prepared sources are the subject of SessionPreparations.

### SessionPreparations

The pool that `inspect`, `load` and `prepare` share, and as much of the
coordinator as decides what becomes of its entries. A log is the number of its
records, which stands for its revision too; a `PreparationEntry` object has a
name, so that an entry which replaced another under the same id is told apart
from it, as `entries.get(id) === entry` does.

| Code | Model |
|---|---|
| `entries`, in the order of the map | `order`, `entry` (phase, object, revision, whether it needs a repair) |
| `states[id]`: owner and cursor | `owner`, `cursor` |
| `chains[id]`, `serialize` | `chain`, a queue of loads, commits, checks, appends and retirements; each has one action that starts or settles it |
| `entryFor` and the load it starts | `Join`, `LoadSettles` |
| `reserve` | `Reserve`, `CommitSettles` (`commitPrepared`), `CommitReturns` |
| `reservationSettled` | callers at `settled`, made `woken` by `Remove` and `MakeReady` |
| `release`, `discard`, `attach` | `Release`, `load`'s branch of `CommitReturns`, `Publish` (`attachPrepared`) |
| `touch` | `Touch` |
| `inspect` of both classes, `discardReady` | `Inspect`, `CheckSettles`, `CheckReturns` |
| `observeQueuedAbort` | `Abort` |
| `appendCore`, `assertWritable`, `adopt`, `takeReady`, `invalidate` | `AppendAsked`, `AppendStarts`, `AppendAdopts`, `AppendSettles` |
| `retire`, `retireCore`, `waitForRetirement` | `Retire`, `RetireFlushed` (a final flush that fails rejects those who wait), `Retired`, and the guard of `Join` |

`own` is history: the last revision this process wrote. Another process may
write to a log at any time (`ForeignWrite`), which is what the revisions are
compared for. A revision is compared and acted upon in one step: a foreign write
in between is indistinguishable from one just after. Promise reactions of
different calls may interleave in more ways than the microtask queue allows. A
queued operation counts as started when it is the first of its chain. Sessions
that claim an id without a preparation (`create`, `onCreated`, adoption of live
prefixes) are left out, and logs are neither created nor deleted.

### GoalRounds

The driver's plugin, the goal service it drives, and an agent reduced to what
they see of it: a status, a queue of turns, and the places of a turn at which
listeners run.

| Code | Model |
|---|---|
| `DriverState`: `attempt`, `competingQueued`, `needsCheckpoint`, `requested` | `attempt`, `competing`, `needsCheckpoint`, `requested` |
| `DriverState.run`, and the promises of the runs themselves | `held` (`.run` is defined), and `runs`: how many runs are at each stage, whichever of them `.run` names |
| the goal's fold and its `activation` | `goal`, and `replayable` while the fold has accepted every event |
| `requestDrive`, its loop, `retire` | `DriveDue`, `Start`, `Loop`, `Retire` |
| `drive` | `Drive` up to the flush, `CheckpointSettles`, `FlushReturns` when the run resumes; `SettleAttempt`, `NothingToDrive`, `BlockGoal`, `Reserve` are its exits |
| `goal/changed` | `Mutate`; `ChangeHeard` when the driver itself changed the goal |
| `agent/status`, `session/event`, `agent/inbox/*` listeners | `IdleListener`, `AfterTurn`, `SendPrompt`, `ClaimFirst`, `Discarded` |
| the `agent/pre-step` listener | `Assembled` before `next()`, `HooksSettle` after it |
| its return, listeners registered around it (`prepend`), `preStep` and `turn` up to the append | the places `outer`, `rejected` and `thrown`; `OuterSettles`, `RefusalSettles` |
| the agent's turn | `Enter`, `StepSettles`, `TurnReturns`, `GoIdle`, `Replay`, `Wake` |
| `create`, `edit`, `pause`, `resume`, `complete`, `block`, `clear` | `Mutations` |
| `runMaintenance`, `cancel`, removal from the inbox | `StartJob`, `JobEnds`, `Cancel`, `Withdraw` |

A handler that runs goes before every other step (`Quiet`): a drive runs to its
first await inside the handler that asks for it. Wherever the code awaits, if only
for microtasks, other steps may come first. Three such gaps matter:

* What the driver's listener returned reaches the agent after the listener's own
  return, the listeners around it, the waterfall and `preStep` (`agent.ts:234`,
  `266`). Goal changes, sends and cancels may come in between: the place `outer`.
* A settled flush resumes the run that awaits it later (stage `flushed` or
  `failed`): `CheckpointSettles` is the write-behind's, `FlushReturns` the
  driver's. In between lie the reactions from `write-behind.ts:131` to `drive`,
  and `allSettled` over every listener of the flush (`core/session/src/index.ts:1022-1040`).
* A drive that returned goes on in its run's loop (`looping`), and a run that ends
  is retired by a reaction of its promise (`ending`).

A flush covers all that is retained when its barrier drains, changes made after it
began included, and flushes may join a barrier; so `CheckpointSettles` settles some
or all of those awaited, together. `unsaved` says that a goal change is not durable
yet.

Runs may be several. `requestDrive` assigns `.run` when the synchronous part of the
run has returned; a goal blocked in it is heard by the driver's own `goal/changed`
listener (`ChangeHeard`), which finds no run held and starts one. `Start` then holds
the outer run, and whichever retires first clears `.run` for all.

`halted` and `overtaken` are history. `halted` is `"aborted"` from an aborted turn,
and `"struck"` from a cancel that took back the queued round of the attempt, until
somebody changes the goal. `overtaken` says that the goal changed while a validated
round was on its way to its append.

A goal created after a clear continues the numbers of the former one, which stands
for its fresh id. Not modelled: the teardown of the driver, `session-start` in
mid-life, the next-step context put back when a round is dropped, failures of
`pause`. A failing `followup` is the branch of `BlockGoal` below the cap.

### ScheduleRuntime

Instants are small numbers; the timer counts down what remains of its segment,
while the wall clock may be set.

| Code | Model |
|---|---|
| `foldScheduleEvents`, `dispatchedRecord`, `resolveEveryOccurrence` | `Folded` (a fold by `Apply`), `Replace`, `Occurrence` |
| `allocateScheduleId` | the id in `Changes`: one more than the ids seen |
| `dueDecision` | `Overdue`, `Chosen`, `Target`; `Nth` in the order `byTargetThenCreate` |
| `runScheduleTransaction` | `line`, `stage`: the first of the line runs |
| `flushSchedulePersistence` | `mark` is what the flush covers; `Flushed` or `FlushFails` |
| `requestDrive`, `runRequested`, `retire` | `RequestDrive`, `EndDrive`, `Again` |
| `driveOnce` | `Starts`; `Arms`, `WaitsForIdle`, `Dispatch`, `DispatchRefused`, `ReminderFails`; `OursEnds`, `Dispatched` |
| `arm`, `waitForIdle`, `dispose` | `TimerFires`, `IdleWaitSettles`, `Dispose` |
| `schedule_create`, `schedule_list`, `schedule_delete` | `Call`, then `NeverStarts`, `CallChanges`, `CallRefused` or `CallAnswers` |
| the `agent/status` listener of `index.ts` | `TurnEnds` |
| a crash of the process | `Crash`: any part of the log past what a flush proved durable is lost |

A reminder in the inbox is an event of the log (op `remind`), as the inbox
records its insertions there. Left out: the limit of four-digit years (rates that
run out, decisions that throw), calendar input and time zones, the seeds of
forks, and whose turn follows in the inbox. The two samples of the clock in one
block are one; an agent that leaves the registry is covered by `Dispose`.

### LocalJobs

| Code | Model |
|---|---|
| `store` and each record's `status`, `owner`, `reported` | `store`, `status` (its terminal values are one), `owner`, `reported` |
| `waiters`, `waitResolvers` | `wait`: what each wait is at; `Counted` are those a job counts |
| `listenersClosed`, `ownerCleanups` | `registry`, `alive` |
| `start`, `read`, `kill`, `wait` | `Start`, `Learn`, `Kill`, `Wait` with `WaitExpires`, `WaitAborts`, `WaitReturns` |
| `settle` | `Settle`, from `ProducerSettles` and from `CancelForTeardown` |
| `disposeOwned`, `disposeAll` | `DisposeOwner` and `OwnerDisposed`, `DisposeAll` and `AllDisposed` |
| the reporter of `tool-jobs` | `Notify`, `PersonHeard` (which restores the budget) |
| the owner's turns | `StepClaims`, `TurnDrains`, `TurnEnds` |

`told`, `settled` and `orphans` are history. A notice that was sent counts as told, even if the owner clears
its inbox before reading it. Left out: output and its cursors,
the observers of the set of jobs, which controllers and listeners serve an owner,
and callers that are not agents. `start` itself asks neither whether
its owner's nor whether the registry's teardown began: that neither takes a job then is
an assumption (the guard of `Start`) about the framework, whose disposing scopes refuse
effects, and about hosts, which stop calling a registry they dispose.
`drained` is the gap the run `agent_loop_drained` shows: a notice injected in it
waits for the owner's next turn.

## Runs

| Run | Bounds | States | Question |
|---|---|---|---|
| `write_behind` | 4 events, 2 flushes, 2 failed writes | 6,743 | is anything lost, repeated, reordered or stranded, is a resolved flush a barrier, and is the controller a durable log? |
| `agent_loop` | 2 messages, 1 cancel, 1 task, request owed after step 1 | 691,613 | log nesting and grammar, endings, accounting of input, work after an abort, quiescence; does a cancelled activity end, whenIdle resolve, a latched wake replay, and an idle wake open a turn? |
| `tool_scheduler` | 4 calls, pool of 2 | 595,212 | order, barriers, pool, aborts, failures, settlement of a batch |
| `session_recovery` | 2 turns, 2 steps in all, 2 calls, 2 crashes | 17,204 | is every cut log repaired, truthfully and once, and resumed? |
| `session_preparations` | 2 ids, a pool of 1, 2 callers and 2 calls in all, 1 write | 384,939 | does the pool keep its capacity, is a held source fit to publish and held once, and does every call settle? |
| `goal_rounds` | caps of 1 and 2 rounds, 2 goal changes, 1 prompt, 1 cancel or withdrawal, 1 task | 1,056,192 | is a refused round one that was overtaken, is a round reserved only when it may be, and is an armed goal driven? |
| `schedule_runtime` | 3 instants, rate of 1, timer segments of 1, 1 call, 2 turns or tasks, 1 crash or clock change | 448,788 | is what the runtime says durable, due and said once, and is what is due acted on? |
| `local_jobs` | 1 owner, limit and budget of 1, 2 jobs, 2 waits | 572,086 | is every completion accounted for, and do waits and teardowns end? |
| `agent_loop_owed`, `agent_loop_drained`, `goal_rounds_hooks`, `goal_rounds_cancel` | the smallest that show it | | one statement of the repository each, and a behaviour that violates it |

Deadlock checking is off throughout: an idle agent, a drained queue and a
finished batch may rest for ever, and the bounded environment runs out of
events. What must not rest is stated as a liveness property instead.

### Why the bounds suffice

* **Write-behind**: the longest chain of reactions is a batch in flight, events
  behind it, a flush that joins, and a second flush that joins the barrier. It
  takes three batches; four events let a batch hold two, which a wrong order
  needs. Two failures cover a failure followed by a failing retry.
* **Agent loop**: two messages are needed for input that arrives while other
  input is being claimed, and for two prompts to compete. One cancel aborts
  an activity at any point of it; a second one that meets an activity already
  aborted only clears the inbox and the latched wake again. One step that owes another is
  the shortest turn with a second step. The numbers in the model grow with the
  turns, which the messages bound. The proofs drop all four bounds for the
  properties they cover.
* **Tool scheduler**: with four calls and a pool of two, the pool fills, a
  result is held back behind an earlier call, an exclusive call stands between
  two parallel ones, and a group is cut by a call that was re-registered.
* **Recovery**: the repair's state is the open turn, the open step and its
  pending calls; two calls give an answered one beside a pending one, the
  second step reuses their names in the same turn or in the next, and the second
  crash cuts the first repair.
* **Preparations**: two calls contend for one source, or overflow a pool of one
  with two; one write makes a prepared source stale. A second use by the same
  caller meets what the first left behind: a ready source, a live session, or
  one that is retiring. The names of `Objects` are
  used again once nobody refers to them; that one is left (`Unused`, a guard of
  `Join`) is a bound the run never meets.
* **Goal rounds**: a cap of one makes the first round the last; a cap of two lets
  a second one be reserved after a checkpoint. Two changes are the creation or
  resumption that arms a goal and one more that meets its round anywhere. One
  prompt is ahead of a round or behind it, or keeps the agent busy over a
  checkpoint, so that the next run blocks a goal in its synchronous part and runs
  overlap. One cancel and one task are enough for each stall described below. The
  two runs that show a disagreement restrict `Next` (`ResumesFirst` in
  `MCGoalRounds`): what is ready to resume goes before what takes time, so that no
  trace depends on an unusually late reaction.
* **Schedules**: with three instants a rate that is handled late skips an
  occurrence, and a wait of two segments is re-armed. A reminder that was there
  before and one created by a call may be due together: two one-shots, or a
  one-shot and a rate. A turn to call from leaves a turn or task to be in the way.
* **Jobs**: with a limit of one a stopping job holds up the next, and two jobs
  let notices and teardowns meet. Two waits are for one job or for both, one
  leaving while the other stays.

The larger runs with liveness take one to two and a half minutes each; the rest take
seconds to half a minute.

### Fairness

Each `FairSpec` asks for weak fairness of what the program awaits, never of what
its callers do.

* `WriteBehind`: `WF(Settle)`. Timers fire, promise reactions run and backend
  writes settle. Writes may fail for ever up to the bound, so `WritesProgress`
  excepts a paused automatic path: the code leaves such events to the next flush.
* `AgentLoop`: the driver's awaited services settle and queued reactions run, each
  reaction with a fairness of its own because Node runs them from different
  queues. A request may be retried for ever; `ActivitiesSettle` says so. No
  fairness on `Send`, `Cancel`, `Remove` or `AcceptContext`.
* `ToolScheduler`: `WF(Settle)`. Tool bodies and policy checks settle; the code
  waits for them without a timeout, and so does the property.
* `SessionRecovery`: `WF(Recover)`. Somebody loads a session again; the writer
  owes nothing, and crashes stop after their bound.
* `SessionPreparations`: `WF(Settle)`. Storage operations settle and reactions
  run; a holder publishes or releases, as the agent factory's disposal of a
  preparation guarantees. Callers, appends, aborts, retirement and other
  processes owe nothing. Since calls and writes are bounded, weak fairness of
  the disjunction serves each part of it.
* `GoalRounds`: `WF(Agent)` and `WF(Driver)`. What a turn awaits and a flush
  settle, maintenance ends; people send, cancel and change nothing unless they do.
* `ScheduleRuntime`: flushes settle either way, timers fire, idle waits resolve,
  turns and tasks of others end, and time passes. Nobody calls a tool.
* `LocalJobs`: waits expire and resume, teardowns go on, and a producer that was
  told to stop, by a cancel that did not throw, settles its job: the contract of
  `JobHooks`. A running job may run for ever.

## Disagreements found

Each has a run whose counterexample shows it, and a statement in the
repository it contradicts.

1. **A ceiling ending closes a turn that still owes** (`agent_loop_owed`,
   `NothingOwedAtClose`). `turnEnds` is sticky once a step ended at
   `max-tokens`: when a later step (entered because a message was steered in)
   ends with tool calls, the turn closes although their results have not been
   sent to the model. `docs/architecture.md:63` says a turn closes once nothing
   is owed.
2. **A wake in the gap after draining is left waiting** (`agent_loop_drained`,
   `DrainedLeavesNothing`). `turn()` reads the inbox and decides to stop; the
   phase becomes idle only microtasks later. A waking message sent in between
   finds a running phase: no driver starts and no wake is latched, so it waits
   for the next waking send. The comment at `agent.ts:175` says live drivers claim
   queued work themselves. The property is about waking sends only: input injected
   without a wake is meant to wait.
3. **A goal changed behind the fence lets a stale round in** (`goal_rounds_hooks`,
   `AdmittedRoundsReplay`). The driver validates a round again after the listeners
   inside its own. What it returns reaches the append of the round only after the
   agent's own awaits (`agent.ts:234`, `266`), and after listeners registered with
   `prepend` (`tmux-context`, which awaits a subprocess after `next()`;
   `session-reference`, `time-context`). A goal edited or cleared in that window
   admits a round of the former revision, which the fold refuses for good: every
   later read of the goal throws. With the invariant companion of the goal
   package loaded the append fails instead. `goal-round-driver/src/index.ts:333`
   says the fence fails closed unless the prompt owns the exact live revision,
   and `docs/subsystems/goal.md:100` that a consumer attributes each admitted
   turn with the current revision. That nothing else admits such a round is
   `RefusedOnlyIfOvertaken`, checked and proved.
4. **A round cancelled in maintenance comes back** (`goal_rounds_cancel`,
   `CancelledRoundsPause`). Maintenance looks idle, so a round is reserved and waits.
   The goal is edited, and while that is flushed a cancel takes the round back.
   When the flush settled, `drive` drops the cancelled attempt like a settled one
   (`index.ts:156-162`); the pause is the idle listener's (`263-266`), which hears
   nothing as the status has not changed. The next drive reserves the round again.
   `goal-round-driver/README.md:40` says that at the next idle checkpoint the driver
   pauses such a goal so that cancellation cannot auto-restart it.

A fifth is written into `RoundsReservedWhenDue` instead of being shown by a run of its
own: runs of the goal driver overlap. `.run` is assigned at `index.ts:231`, after the
synchronous part of a run. When that part blocks the goal (`166-172`), its own
`goal/changed` starts a second run, which flushes; the outer one then overwrites and
clears `.run`, and the next change starts a third run beside the second.
`index.ts:207` says triggers are coalesced onto one serialized driver. While runs
overlap, the newer one clears `needsCheckpoint` and awaits the flush of a change made
after the older one's flush settled; the older one resumes, finds nothing to
checkpoint and reserves, though `goal-round-driver/README.md:24` says that the driver
checkpoints pending goal mutations first. The property excepts exactly that
(`runs["flushing"] + runs["failed"] > 0`); without the exception TLC finds a
violation, and with it `RoundsAreDue` proves the rest.

Two further statements differ from the code in ways that need no run to see:
`docs/subsystems/core.md:228` places request-error recovery after the step
closes, and the loop runs it inside the open step; `runtime-types.ts:81` calls a
cancel with no active activity a no-op, and it clears the inbox.

`GoalRounds` showed three more behaviours, which its properties allow for and
which no sentence of the documentation rules out:

* Maintenance counts as idle for the driver, so a change of the goal meanwhile
  clears a queued attempt and reserves the same round a second time. The second
  copy is rejected, and does not consume the number.
* A prompt withdrawn during maintenance leaves `competingQueued` set, and a round
  discarded there leaves a cancelled attempt: nothing looks at either before the
  agent's next turn, and the goal rests (`Stalled`).
* A rejected round returns the agent to idle with a prompt queued behind it
  unclaimed until the next wake.

## Proofs

TLAPS proves the following for every value of the constants; the bounds above
do not enter. The assumptions are the typing of the constants
(`BoundsAssumption`, `AgentLoopBounds`, `BatchAssumption` with a pool of at least
one, `RecoveryBounds`, `PoolAssumption`, `GoalAssumption`, `JobsAssumption`,
`ScheduleAssumption`), which TLC evaluates in the runs. `PoolAssumption` only
asks that the name for no entry is none of the names of entries.

**`WriteBehindProofs`.** That stored, in flight and retained events are exactly
those enqueued, in order, is not inductive by itself: that a failed batch is put
back where it belongs depends on which of `active`, `barrier` and the deadline
may be set together. `IInv` therefore joins `TypeOK`, that relation
(`Scheduling`), `NothingLostOrStranded` and `FlushedIsDurable`, all shown
preserved together, an action at a time. From `IInv` follow the invariants, and
that each step maps to a step of `DurableLog` or a stutter
(`ControllerImplementsLog`).

**`AgentLoopProofs`.** `Boundaries` joins `TypeOK`, `LogNesting` and
`FreshSteps`: the trace's counters agree with the driver's position because a
turn that begins has left no step number behind. `LogGrammar` follows from it.
`Endings` says where a turn's ending is already decided and that a ceiling stays
in it; it gives `EndingClassified` at every exit, exceptional ones included. With
`LogNesting` that is `BoundariesClosed`, the invariant of the run.
`AbortStopsWork` and `WhenIdleIsQuiescent` are action properties shown an action
at a time from the types and `Boundaries`.

The second half of the module is the inbox, `InputReachesTurns`: the accounting
of input (`InboxAccounted`) and the order of prompts (`PromptsOwnTheirTurns`).
Three lemmas say what appending, removing and taking the head do to an
increasing list, and `AccountsMessages` restates the accounting one message at a
time. The strengthening is `InputLine`: prompts stand in the next-turn list and
nowhere else until they are claimed, and a turn that opens has claimed nothing
yet (all claims carry smaller turn numbers). So the head of the list is older
than every other prompt that waits, and what is older than it was claimed by an
earlier turn or discarded. There is one lemma per way of touching the inbox
(insertion, claim, discard, and leaving it alone); that a turn's number is
positive wherever it claims comes from `Boundaries`.

**`ToolSchedulerProofs`.** Every safety property of the module.

* `Schedule` = `ControlTypes` (types), `Counters` (consumed, committed and
  started calls come in this order, where each block of the coroutine finds
  them), `Places` (where a call may be, given its number: nothing that settled
  leaves the map before its result can be committed or the failure noticed) and
  `Dispatches` (what a block knows of the map). `FailureContained` and
  `NoLateStarts` follow.
* `PoolDiscipline` joins two results. `PoolLimit` counts the map rather than the
  running bodies, and knows that a call being prepared has room left: with it,
  `PoolBounded`. `Barriers` (started calls of a group ran in the group's mode)
  gives `ExclusiveAlone`, although the registry may change behind an await.
* `Transcript` says what the log records at each block: calls up to one number
  and answers up to another, all in model order (`Recorded`), and where the call
  an answer will cite stands. `RecordTail` is the one lemma about extending such
  a record; a started call, committed results and skipped pairs are its three
  instances. It gives `ModelOrder`, `EveryCallAnswered` and `TypeOK`.
* `Synthetic` (answers no tool gave are in the log only of an aborted batch
  between its groups, for calls past the last started one) gives
  `NothingFabricated`. With `ModelOrder` and `EveryCallAnswered` it makes
  `TranscriptValid`, the invariant of the run.

**`SessionRecoveryProofs`.** Every safety property of the module, for logs of any
length, any number of calls in a message and any number of crashes. What the
companion (`Trace`) and the repair (`Closers`) compute is a fold over the log.
The first lemmas say what one more event does to each fold (`TraceAppend`,
`ScannedAppend`); they rest on every set of naturals having a least element.
`Good` relates the two folds to the log itself, in six parts: the events of a
call name their step and their call (`Shaped`); the companion accepted all and
counts as the writer does (`Numbered`); turns and steps to come have new numbers
(`Counted`); the last turn is where the writer looks for it (`Latest`); the scan
of the repair sees the open turn and step the companion sees (`Agrees`); and what
it has pending are the calls the open step has not answered, each with its start
(`Awaits`). Accepting a repaired log is not inductive without the last two, since
call ids come again in every step.

* `GoodAppend`: an event that `Fits` keeps a log good, one lemma per kind of
  event and part. What the writer appends fits (`Driven`).
* `NthEnumerates`, `NthRest`: the pending calls are listed once each, in order.
  So the first closer fits, and the closers of the log it extends are the
  others (`FirstFits`, `RestShape`). Going on from there (`Closing`), after any
  number of closers the log is good and its own closers are those left.

`IInv` is `TypeOK`, `Good(log)`, and that a repair under way writes the closers of
the log it loaded. `RepairsAccepted` and `RepairsConfluent` are `Closing` after
all and after some of the closers; `RepairsAnswer` reads `Awaits`;
`RecordsAreKept` is an action property, shown an action at a time.

**`SessionPreparationsProofs`.** The types with the capacity of the pool
(`PreparationsTypes`), that a reserved entry has exactly one holder
(`ReservationsExclusive`), and that a held source is fit to publish
(`ReservationsCurrent`), for any number of ids, callers, calls and writes. None
of the three is inductive. Exclusion rests on an entry being the one a call
joined, and so on names being fresh, and a held source stays at the cursor only
because of what the chain of its id lets run in between. `IInv` joins

* `Types`: the types, the pool's map listing each entry once, and its capacity;
* `Queued`: no chain has an operation twice but for appends, none has a commit
  behind the load of the current entry, an append runs at the head only, and
  retirement is queued only while the id is retiring;
* `Commits` and `Checks`: who queued an operation still waits for it, so one that
  settles finds its caller where the caller left off;
* `Held`: what the holder of an entry knows of it. Its id has no owner and no
  running append, its revision is the cursor's, no older than anything this
  process wrote, and no repair is due (`Fit`); it is the only holder (`Sole`);
  a reserved entry has a holder (`Taken`).

There is one lemma per action and part it can disturb, over lemmas on what `Tail`
and removing an element leave of a sequence.

**`GoalRoundsProofs`.** The types (`GoalRoundsTypes`) and two results about what
the driver admits and reserves, with as many runs as there may be. `GoalKept` and
`StepHolds` first say what any step leaves of the goal and the attempt: the
revision never falls, and who may change it.

* `RoundsReplay`: the goal's fold refuses a round only if the goal changed after
  the driver's second validation. `Ceiling` says that a reservation is of a
  revision no later than the goal's and, at the live revision, of a number within
  its cap, which the driver checked long before; `Handed` says that on its way to
  the append a round that nothing overtook is still one the fold accepts. Only
  somebody's change of the goal overtakes: the driver's own pause and block need
  an idle agent or a rejected round, and none of the runs does either in between.
  The run `goal_rounds_hooks` shows that rounds are overtaken.
* `RoundsAreDue`: no round is reserved after an aborted turn before somebody
  changed the goal, and none over an unsaved change unless some run still awaits or
  has failed a checkpoint. `Checkpointed` accounts for who owes an unsaved change
  its flush (the flag, or a run), and `Halting` says that a goal which is armed
  after an aborted turn has a cancelled attempt and an agent about to go idle,
  whose idle listener pauses it. The run `goal_rounds_cancel` shows that a cancel in
  maintenance cannot be included, and the exception for overlapping runs is the one
  described above: neither half can be strengthened to what the documentation says.

**`LocalJobsProofs`.** `JobsAccounted` from `Kept`, per job and per wait: a job at
work is in the registry; it settled once exactly when its status is terminal; a
report taken early was told; a registry that closes reports everything; a notice
is of a terminal job nobody claimed. The limit is a cardinality, which only
`Start` raises.

**`ScheduleRuntimeProofs`.** Every safety property of the module, for any
records, rates, calls, clock changes and crashes. The log is read by a fold and
cut by crashes at whatever a flush left, so an invariant of the whole log would
not survive a crash: `Good` speaks of every prefix. What is read of a replayable
log (`Sound`) numbers the ids it saw and names each active record once; what was
dispatched lies before what its id has still to come (`Past`), which is why a
later reminder cannot repeat it. `IInv` joins `TypeOK` and

* `Lines`: where the first transaction of the line stands, that the maintenance
  task is the runtime's own exactly while its reminder is queued, and that a
  failed runtime has no drive left but that one;
* `Covers`: a flush under way covers the whole log, since only the running
  transaction appends. It makes a settled flush prove everything durable;
* `Records`: `Good`; who may tell of what (`Speaks`); and that unless an append
  failed, what this life put in the inbox is dispatched (`Answered`).

The lemmas below say that `Fold` takes one more event by `Apply`
(`FoldAppend`), that an event that `Fits` keeps a log good (`GoodAppend`), that a
rate's occurrence lies between its target and the instant (`OccurrenceBounds`),
and that `Nth` lists what is due once each (`NthEnumerates`). A batch of rates is
then told of one event at a time (`TellingStep`, `Telling`), which covers a batch
that an append cuts short. `RemindedOnce` reads `Records`; `ActsOnConfirmed` is
shown at the steps that answer or remind, after `Covers`.

**Only model-checked.** Every liveness property (fairness and `ENABLED` are
outside the prover's reach): `WritesProgress`, `ActivitiesSettle`,
`WakesOpenTurns`, `BatchSettles`, `Resumes`, `CallsSettle`, `GoalDriven`,
`RuntimeSettles`, `JobsSettle`. The induction theorems of the library take an
operator as a parameter, which the installed provers cannot instantiate; where a
fold is proved about, in `SessionRecoveryProofs` and `ScheduleRuntimeProofs`, the
induction is an argument about a least counterexample. Statements over a bounded
input that such an argument does not reach stay with TLC.

## What is not modelled

The tables above and the components of `PROJECT.json` name every part that is
left out. In short: plugins that are operating-system or network I/O, the user
interface and transport; the Cordis framework, which is external; conversions
without control of their own (stream assembly, prompt rendering, file formats);
SQLite persistence, whose atomicity is the database's. Components with control
worth checking that are not modelled yet are in the plan.

## Plan

Done, in this order: the write-behind controller with its abstraction and
refinement; the agent loop; the tool scheduler; crash repair; the pool of
prepared sessions; goal rounds, schedules and background jobs, the three clients
that put work into an agent by themselves. They carry the path from an accepted
message to a durable, replayable log and back to a resumed session. Next, by
weight:

1. **Coordinator composition**: owners, id collisions and the adoption of live
   prefixes (`coordinator.ts`), composing `WriteBehind` for the live path with
   `SessionPreparations` for the cold one; the zstd encoding's recovered tail.
   Property: one writer per id, and no retirement with unsaved work.
2. **`AgentLifecycle`** (`agent-loop/src/index.ts`): prepare, publish, dispose
   against teardown. Property: both registries agree, each machine is released
   once, disposal converges.
3. **`Inbox`**: all splices and their replay from session events; refined by the
   lists of `AgentLoop`. Theorem: replay of the announced splices yields the
   lists, one step at a time.
4. Small modules: `LlmRetry` (to refine `RecoverySettles`), `UserApproval`,
   `StorageDomain`, `TaskBoard`, projections and their cache, settings, and the
   handover of subagent continuation over two agents.

Theorems planned with them: the types and the main safety invariant of each
module, and that the preparations implement a lock on one revision.
