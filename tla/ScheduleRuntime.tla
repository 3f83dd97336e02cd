--------------------------- MODULE ScheduleRuntime ---------------------------
(***************************************************************************)
(* Reminders kept in a session's log (schedule/schedule/src): the tools    *)
(* that create, list and delete them, and the runtime that puts the due    *)
(* ones in the inbox of a live agent.                                      *)
(*                                                                         *)
(* Both work in transactions, one at a time per agent (transaction.ts):    *)
(* each first awaits a flush of the session.  What follows a flush, up to  *)
(* the next one, runs in one block.  The wall clock moves in instants and  *)
(* may be set; a timer counts time that passes.  A crash keeps what a      *)
(* flush proved durable and any further part of the log.                   *)
(***************************************************************************)
EXTENDS Integers, Sequences, FiniteSets

CONSTANTS
  LastInstant,  \* bound: the last instant
  Intervals,    \* the fixed rates asked for
  MaxDelay,     \* MAX_TIMER_DELAY_MS
  MaxCalls,     \* bound: calls of the tools
  MaxWorks,     \* bound: turns and maintenance tasks begun by others
  MaxMishaps    \* bound: times the wall clock is set, and crashes

ASSUME ScheduleAssumption ==
  /\ LastInstant \in Nat /\ Intervals \subseteq Nat \ {0} /\ MaxDelay \in Nat \ {0}
  /\ MaxCalls \in Nat /\ MaxWorks \in Nat /\ MaxMishaps \in Nat

VARIABLES
  now,        \* the wall clock
  log,        \* the session's reminder events, and those that put one in the inbox
  saved,      \* how much of it a flush proved durable
  timer,      \* what is left of the armed timer, or Off
  line,       \* the agent's transactions, the first one running
  stage,      \* how far that one is: "waiting", "preflight", "queued" or "barrier"
  mark,       \* what the flush it awaits covers
  requested, idleWait, stopping, faulted,  \* of ScheduleRuntime
  agent,      \* "idle", "turn", "job" (maintenance of others) or "ours"
  aborted,    \* the signal of what it does
  woken,      \* a reminder parked by our maintenance is to open a turn
  calls, works, sets, crashes,  \* counts, for the bounds
  missed      \* history: the last drive failed, and none was requested since

clock == <<now, sets>>
durable == <<log, saved>>
transactions == <<line, stage, mark>>
runtime == <<timer, requested, idleWait, stopping, faulted, missed>>
agentVars == <<agent, aborted, woken>>
vars == <<clock, durable, transactions, runtime, agentVars, calls, works, crashes>>

Off == -1

(* An event of the log.  due is what the reminder tells of, and history in *)
(* a dispatch; life is history.                                            *)
Event(op, id, at, every, due) ==
  [op |-> op, id |-> id, at |-> at, every |-> every, due |-> due, life |-> crashes]

Transaction(op, id) == [op |-> op, id |-> id]
Drive == Transaction("drive", 0)

-----------------------------------------------------------------------------
(* resolveEveryOccurrence: the latest occurrence due at an instant.        *)
Occurrence(r, accepted) == r.at + ((accepted - r.at) \div r.every) * r.every

Replace(records, r, accepted) ==
  (records \ {r}) \cup
    (IF r.every = 0 THEN {} ELSE {[r EXCEPT !.at = Occurrence(r, accepted) + r.every]})

(* One event of foldScheduleEvents. *)
Apply(s, e) ==
  LET named == {r \in s.active : r.id = e.id}
      fits(r) == (r.every = 0) = (e.at = Off) /\ (r.every > 0 => e.at >= r.at)
  IN  CASE e.op = "create" ->
             [ok |-> s.ok /\ e.id \notin s.seen, seen |-> s.seen \cup {e.id},
              active |-> s.active \cup {[id |-> e.id, at |-> e.at, every |-> e.every]}]
        [] e.op = "delete" ->
             [s EXCEPT !.ok = @ /\ named # {}, !.active = @ \ named]
        [] e.op = "dispatch" ->
             [s EXCEPT !.ok = @ /\ named # {} /\ \A r \in named : fits(r),
                       !.active = IF \A r \in named : fits(r)
                                  THEN UNION {Replace(s.active, r, e.at) : r \in named}
                                  ELSE @]
        [] OTHER -> s

(* A fold as a function of how many events it read; the set binds the      *)
(* state so far once, however often Apply mentions it.                      *)
Fold(events) ==
  LET upTo[i \in 0..Len(events)] ==
        IF i = 0 THEN [ok |-> TRUE, seen |-> {}, active |-> {}]
        ELSE CHOOSE after \in {Apply(before, events[i]) : before \in {upTo[i - 1]}} : TRUE
  IN  upTo[Len(events)]
Folded == Fold(log)

(* dueDecision: one due one-shot before all due fixed rates. *)
Overdue == {r \in Folded.active : r.at <= now}
OneShots == {r \in Overdue : r.every = 0}
Before(r, s) == r.at < s.at \/ (r.at = s.at /\ r.id < s.id)  \* byTargetThenCreate
Nth(records, i) ==
  CHOOSE r \in records : Cardinality({s \in records : Before(s, r)}) = i - 1
Chosen == IF OneShots # {} THEN {Nth(OneShots, 1)} ELSE Overdue

Target == CHOOSE t \in {r.at : r \in Folded.active} : \A r \in Folded.active : t <= r.at

(* arm: a segment of the wait, no longer than the timer can count. *)
ArmedFor ==
  IF Folded.active = {} THEN Off
  ELSE IF Target - now <= MaxDelay THEN Target - now ELSE MaxDelay

-----------------------------------------------------------------------------
(* requestDrive, with l for the line: it is in the line, is put at its     *)
(* end, or has no effect on a stopping or faulted runtime.                 *)
Driving == \E i \in DOMAIN line : line[i] = Drive
Heard == ~stopping /\ ~faulted
RequestDrive(l) ==
  /\ line' = IF Heard /\ ~Driving THEN Append(l, Drive) ELSE l
  /\ timer' = IF Heard THEN Off ELSE timer
  /\ requested' = (requested \/ (Heard /\ Driving))
  /\ missed' = (missed /\ ~Heard)

(* The transaction of a drive is over: the run takes up what was requested *)
(* meanwhile, behind what waits in the line.                               *)
EndDrive(again, failed) ==
  /\ line' = IF again THEN Append(Tail(line), Drive) ELSE Tail(line)
  /\ requested' = FALSE /\ stage' = "waiting" /\ mark' = 0
  /\ missed' = (failed /\ ~again)
Again == requested /\ Heard

EndCall == stage' = "waiting" /\ mark' = 0

(* Fault: a flush that covers only what an earlier one did. *)
FlushStale == mark' = saved

(* What a flush that begins now will have made durable. *)
Flush == mark' = Len(log)
Flushed == saved' = IF mark > saved THEN mark ELSE saved
Flushing(op) == line # <<>> /\ Head(line).op = op /\ stage \in {"preflight", "barrier"}

(* isRunnable; an agent leaves its registry as its scope is disposed. *)
IsRunnable == ~stopping

(* Any record a caller may ask for at this instant. *)
Creations(id) ==
  {Event("create", id, at, 0, {}) : at \in (now + 1)..LastInstant} \cup
  {Event("create", id, now + every, every, {}) : every \in {i \in Intervals : now + i <= LastInstant}}

(* A session created, or resumed with one reminder of an earlier life. *)
Init ==
  /\ now = 0 /\ sets = 0 /\ crashes = 0
  /\ log \in {<<>>} \cup {<<change>> : change \in Creations(1)} /\ saved = Len(log)
  /\ line = <<Drive>> /\ stage = "waiting" /\ mark = 0
  /\ timer = Off /\ requested = FALSE /\ idleWait = FALSE /\ stopping = FALSE
  /\ faulted = FALSE /\ missed = FALSE
  /\ agent = "idle" /\ aborted = FALSE /\ woken = FALSE
  /\ calls = 0 /\ works = 0

-----------------------------------------------------------------------------
(* The first transaction of the line starts: its caller may have cancelled *)
(* it, a drive may be of no use any more.                                  *)
Starts ==
  /\ line # <<>> /\ stage = "waiting"
  /\ timer' = IF Head(line) = Drive THEN Off ELSE timer
  /\ IF Head(line) = Drive THEN IsRunnable ELSE ~aborted
  /\ stage' = "preflight" /\ Flush
  /\ UNCHANGED <<clock, durable, line, requested, idleWait, stopping, faulted, missed, agentVars,
                 calls, works, crashes>>

NeverStarts ==
  /\ line # <<>> /\ stage = "waiting"
  /\ \/ Head(line) = Drive /\ ~IsRunnable /\ EndDrive(Again, FALSE) /\ timer' = Off
     \/ /\ Head(line) # Drive /\ aborted
        /\ line' = Tail(line) /\ EndCall
        /\ UNCHANGED <<timer, requested, missed>>
  /\ UNCHANGED <<clock, durable, idleWait, stopping, faulted, agentVars, calls, works, crashes>>

(* The session does not flush: nothing follows from the log. *)
FlushFails ==
  /\ line # <<>> /\ Flushing(Head(line).op)
  /\ \/ Head(line) = Drive /\ EndDrive(Again, TRUE)
     \/ /\ Head(line) # Drive
        /\ line' = Tail(line) /\ EndCall
        /\ UNCHANGED <<requested, missed>>
  /\ UNCHANGED <<clock, durable, timer, idleWait, stopping, faulted, agentVars, calls, works, crashes>>

-----------------------------------------------------------------------------
(* The tools.  Every preflight that succeeds asks for a drive.             *)
Known(id) == \E r \in Folded.active : r.id = id

(* What schedule_create and schedule_delete append. *)
Changes(call) ==
  LET id == Cardinality(Folded.seen) + 1
  IN  IF call.op = "delete" THEN {Event("delete", call.id, 0, 0, {})}
      ELSE Creations(id)

CallChanges ==
  /\ \E op \in {"create", "delete"} : Flushing(op)
  /\ stage = "preflight" /\ ~aborted
  /\ Head(line).op = "delete" => Known(Head(line).id)
  /\ Flushed
  /\ \E change \in Changes(Head(line)) : log' = Append(log, change)
  /\ stage' = "barrier" /\ mark' = Len(log')
  /\ RequestDrive(line)
  /\ UNCHANGED <<clock, idleWait, stopping, faulted, agentVars, calls, works, crashes>>

(* The caller cancelled, the target is not in the future, or the session   *)
(* takes no event.                                                         *)
CallRefused ==
  /\ \E op \in {"create", "delete"} : Flushing(op)
  /\ stage = "preflight" /\ (Head(line).op = "delete" => Known(Head(line).id))
  /\ Flushed /\ UNCHANGED log
  /\ EndCall /\ RequestDrive(Tail(line))
  /\ UNCHANGED <<clock, idleWait, stopping, faulted, agentVars, calls, works, crashes>>

(* A list, an unknown id, or a change that is durable. *)
CallAnswers ==
  /\ \/ Flushing("list")
     \/ Flushing("delete") /\ stage = "preflight" /\ ~Known(Head(line).id)
     \/ (Flushing("create") \/ Flushing("delete")) /\ stage = "barrier"
  /\ Flushed /\ UNCHANGED log
  /\ EndCall /\ RequestDrive(Tail(line))
  /\ UNCHANGED <<clock, idleWait, stopping, faulted, agentVars, calls, works, crashes>>

-----------------------------------------------------------------------------
(* driveOnce after its preflight.                                          *)
Preflighted ==
  /\ Flushing("drive") /\ stage = "preflight"
  /\ Flushed
  /\ UNCHANGED <<clock, stopping, calls, works, crashes>>

(* Nothing is due: the timer is armed for what is next. *)
Arms ==
  /\ Preflighted /\ (IsRunnable => Overdue = {})
  /\ timer' = IF IsRunnable THEN ArmedFor ELSE timer
  /\ EndDrive(Again, FALSE)
  /\ UNCHANGED <<log, idleWait, faulted, agentVars>>

(* The agent is at work: its next idle boundary is awaited. *)
WaitsForIdle ==
  /\ Preflighted /\ IsRunnable /\ Overdue # {} /\ agent # "idle"
  /\ idleWait' = TRUE
  /\ EndDrive(Again, FALSE)
  /\ UNCHANGED <<log, timer, faulted, agentVars>>

(* The reminder, and the dispatches of what it tells of. *)
OccurrenceOf(r) == <<r.id, IF r.every = 0 THEN r.at ELSE Occurrence(r, now)>>
Reminder(records) == Event("remind", 0, 0, 0, {OccurrenceOf(r) : r \in records})
DispatchOf(r) == Event("dispatch", r.id, IF r.every = 0 THEN Off ELSE now, 0, {OccurrenceOf(r)})
Dispatches(records) ==
  [i \in 1..Cardinality(records) |-> DispatchOf(Nth(records, i))]

(* Fault: the dispatches are appended before the reminder is queued. *)
ToldAfter == Dispatches(Chosen) \o <<Reminder(Chosen)>>

Told == <<Reminder(Chosen)>> \o Dispatches(Chosen)

(* The maintenance task: the reminder enters the inbox, its dispatches the *)
(* log.  One of them may not be taken, or the reminder not framed.         *)
Maintains ==
  /\ Preflighted /\ IsRunnable /\ Overdue # {} /\ agent = "idle"
  /\ agent' = "ours" /\ aborted' = FALSE /\ woken' = TRUE
  /\ stage' = "queued" /\ mark' = 0
  /\ UNCHANGED <<line, requested, idleWait, missed>>
Dispatch ==
  /\ Maintains
  /\ log' = log \o Told
  /\ UNCHANGED <<timer, faulted>>

(* Fault: the runtime goes on after an append failed. *)
DispatchRefusedQuietly ==
  /\ Maintains
  /\ \E n \in 1..(Len(Told) - 1) : log' = log \o SubSeq(Told, 1, n)
  /\ timer' = Off /\ UNCHANGED faulted

DispatchRefused ==
  /\ Maintains
  /\ \E n \in 1..(Len(Told) - 1) : log' = log \o SubSeq(Told, 1, n)
  /\ timer' = Off /\ faulted' = TRUE
ReminderFails ==
  /\ Preflighted /\ IsRunnable /\ Overdue # {} /\ agent = "idle"
  /\ EndDrive(Again, TRUE)
  /\ UNCHANGED <<log, timer, idleWait, faulted, agentVars>>

(* The task is over: its reminder, if it is still there, opens a turn, and *)
(* its dispatches are flushed.                                             *)
OursEnds ==
  /\ agent = "ours"
  /\ agent' = IF woken THEN "turn" ELSE "idle"
  /\ aborted' = FALSE /\ woken' = FALSE
  /\ \/ /\ ~faulted /\ stage' = "barrier" /\ Flush
        /\ UNCHANGED <<line, requested, missed>>
     \/ faulted /\ EndDrive(FALSE, FALSE)
  /\ UNCHANGED <<clock, durable, timer, idleWait, stopping, faulted, calls, works, crashes>>

(* The dispatches are durable: the run looks for more. *)
Dispatched ==
  /\ Flushing("drive") /\ stage = "barrier"
  /\ Flushed /\ UNCHANGED log
  /\ EndDrive((requested \/ IsRunnable) /\ Heard, FALSE)
  /\ timer' = IF IsRunnable /\ Heard THEN Off ELSE timer
  /\ UNCHANGED <<clock, idleWait, stopping, faulted, agentVars, calls, works, crashes>>

(* Fault: the idle boundary passes unnoticed. *)
IdleWaitForgets ==
  /\ idleWait /\ (agent = "idle" \/ stopping)
  /\ idleWait' = FALSE
  /\ UNCHANGED <<clock, durable, transactions, timer, requested, missed, stopping, faulted,
                 agentVars, calls, works, crashes>>

(* whenIdle, or the stop of the runtime. *)
IdleWaitSettles ==
  /\ idleWait /\ (agent = "idle" \/ stopping)
  /\ idleWait' = FALSE
  /\ RequestDrive(line)
  /\ UNCHANGED <<clock, durable, stage, mark, stopping, faulted, agentVars, calls, works, crashes>>

TimerFires ==
  /\ timer = 0
  /\ RequestDrive(line)
  /\ UNCHANGED <<clock, durable, stage, mark, idleWait, stopping, faulted, agentVars, calls, works,
                 crashes>>

(* Fault: a disposed runtime leaves its timer armed. *)
DisposeArmed ==
  /\ ~stopping
  /\ stopping' = TRUE /\ requested' = FALSE
  /\ UNCHANGED <<clock, durable, transactions, timer, idleWait, faulted, missed, agentVars, calls,
                 works, crashes>>

Dispose ==
  /\ ~stopping
  /\ stopping' = TRUE /\ requested' = FALSE /\ timer' = Off
  /\ UNCHANGED <<clock, durable, transactions, idleWait, faulted, missed, agentVars, calls, works,
                 crashes>>

-----------------------------------------------------------------------------
(* The agent: turns and tasks of others, and cancellation.               *)
TurnBegins ==
  /\ agent = "idle" /\ works < MaxWorks
  /\ agent' = "turn" /\ works' = works + 1 /\ aborted' = FALSE
  /\ UNCHANGED <<clock, durable, transactions, runtime, woken, calls, crashes>>

JobBegins ==
  /\ agent = "idle" /\ works < MaxWorks
  /\ agent' = "job" /\ works' = works + 1 /\ aborted' = FALSE
  /\ UNCHANGED <<clock, durable, transactions, runtime, woken, calls, crashes>>

JobEnds ==
  /\ agent = "job" /\ agent' = "idle" /\ aborted' = FALSE
  /\ UNCHANGED <<clock, durable, transactions, runtime, woken, calls, works, crashes>>

(* A turn of the model calls the tools, and waits for them to end. *)
Call ==
  /\ agent = "turn" /\ ~aborted /\ ~stopping /\ calls < MaxCalls
  /\ calls' = calls + 1
  /\ line' \in {Append(line, Transaction(op, 0)) : op \in {"create", "list"}} \cup
               {Append(line, Transaction("delete", id)) : id \in 1..(MaxCalls + 1)}
  /\ UNCHANGED <<clock, durable, stage, mark, runtime, agentVars, works, crashes>>

TurnEnds ==
  /\ agent = "turn" /\ \A i \in DOMAIN line : line[i] = Drive
  /\ agent' = "idle" /\ aborted' = FALSE
  /\ IF \E i \in DOMAIN log : log[i].op # "remind" THEN RequestDrive(line)
     ELSE UNCHANGED <<line, timer, requested, missed>>
  /\ UNCHANGED <<clock, durable, stage, mark, idleWait, stopping, faulted, woken, calls,
                 works, crashes>>

(* cancel: the calls of a turn see its signal; a task that put a reminder  *)
(* in the inbox may have it cleared.                                       *)
Cancel ==
  /\ \/ agent = "turn" /\ aborted' = TRUE /\ UNCHANGED woken
     \/ agent = "ours" /\ woken' = FALSE /\ UNCHANGED aborted
  /\ UNCHANGED <<clock, durable, transactions, runtime, agent, calls, works, crashes>>

-----------------------------------------------------------------------------
(* Time passes, and the wall clock is set. *)
Tick ==
  /\ now < LastInstant \/ timer > 0
  /\ now' = IF now < LastInstant THEN now + 1 ELSE now
  /\ timer' = IF timer > 0 THEN timer - 1 ELSE timer
  /\ UNCHANGED <<sets, durable, transactions, requested, idleWait, stopping, faulted, missed,
                 agentVars, calls, works, crashes>>

SetClock ==
  /\ sets + crashes < MaxMishaps /\ sets' = sets + 1
  /\ now' \in 0..LastInstant
  /\ UNCHANGED <<durable, transactions, runtime, agentVars, calls, works, crashes>>

(* A crash keeps part of what no flush proved durable; the session is      *)
(* resumed, and its schedule installed anew.                               *)
Crash ==
  /\ sets + crashes < MaxMishaps /\ crashes' = crashes + 1
  /\ \E kept \in saved..Len(log) : log' = SubSeq(log, 1, kept) /\ saved' = kept
  /\ line' = <<Drive>> /\ stage' = "waiting" /\ mark' = 0
  /\ timer' = Off /\ requested' = FALSE /\ idleWait' = FALSE /\ stopping' = FALSE
  /\ faulted' = FALSE /\ missed' = FALSE
  /\ agent' = "idle" /\ aborted' = FALSE /\ woken' = FALSE
  /\ UNCHANGED <<clock, calls, works>>

-----------------------------------------------------------------------------
Runtime ==
  \/ Starts \/ NeverStarts \/ FlushFails
  \/ CallChanges \/ CallRefused \/ CallAnswers
  \/ Arms \/ WaitsForIdle \/ Dispatch \/ DispatchRefused \/ ReminderFails
  \/ OursEnds \/ Dispatched
Others ==
  \/ TurnBegins \/ JobBegins \/ Call \/ Dispose \/ SetClock \/ Crash
  \/ Cancel

Wakes == IdleWaitSettles \/ TimerFires
AgentEnds == TurnEnds \/ JobEnds

Next == Runtime \/ Wakes \/ AgentEnds \/ Tick \/ Others

Spec == Init /\ [][Next]_vars

(* Flushes settle either way, timers fire, turns and tasks end. *)
FairSpec ==
  /\ Spec /\ WF_vars(Runtime) /\ WF_vars(Wakes) /\ WF_vars(AgentEnds) /\ WF_vars(Tick)

-----------------------------------------------------------------------------
EventType ==
  [op : {"create", "delete", "dispatch", "remind"}, id : Nat, at : Nat \cup {Off}, every : Nat,
   due : SUBSET (Nat \X Nat), life : Nat]
TransactionType == {Drive} \cup [op : {"create", "list", "delete"}, id : Nat]
TypeOK ==
  /\ now \in 0..LastInstant /\ sets \in Nat
  /\ log \in Seq(EventType)
  /\ saved \in 0..Len(log) /\ mark \in 0..Len(log)
  /\ stage \in {"waiting", "preflight", "queued", "barrier"} /\ (line = <<>> => stage = "waiting")
  /\ line \in Seq(TransactionType)
  /\ \A i, j \in DOMAIN line : line[i] = Drive /\ line[j] = Drive => i = j
  /\ timer \in -1..MaxDelay /\ (stopping => timer = Off)
  /\ requested \in BOOLEAN /\ idleWait \in BOOLEAN /\ stopping \in BOOLEAN
  /\ faulted \in BOOLEAN /\ missed \in BOOLEAN
  /\ agent \in {"idle", "turn", "job", "ours"} /\ aborted \in BOOLEAN
  /\ woken \in BOOLEAN /\ calls \in Nat /\ works \in Nat /\ crashes \in Nat

(* The log replays, whatever a crash cut off; what it records as           *)
(* dispatched was put in the inbox before, and an occurrence comes again   *)
(* only after a crash that lost its dispatch.                              *)
RemindedOnce ==
  LET tells(i, o) == log[i].op = "remind" /\ o \in log[i].due
  IN  /\ Folded.ok
      /\ \A i \in DOMAIN log : log[i].op = "dispatch" =>
            \A o \in log[i].due : \E j \in 1..(i - 1) : tells(j, o)
      /\ \A j \in DOMAIN log : log[j].op = "remind" =>
            \A i \in 1..(j - 1) : log[i].due \cap log[j].due # {} =>
               log[i].op = "remind" /\ log[i].life < log[j].life

(* A tool answers, and the runtime reminds, only when every change in the  *)
(* log is durable; and a reminder is of what is active and due just then.  *)
Confirmed == \A i \in DOMAIN log : log[i].op # "remind" => i <= saved'
Reminds == Len(log') > Len(log) /\ log'[Len(log) + 1].op = "remind"
Reminded == log'[Len(log) + 1].due
ActsOnConfirmed ==
  [][/\ CallAnswers \/ Reminds => Confirmed
     /\ Reminds => \A o \in Reminded : o[2] <= now /\ \E r \in Overdue : r.id = o[1]]_vars

(* A due reminder is dispatched, unless the runtime ended, gave up after a *)
(* failure, or its last drive failed; and a disposed runtime comes to rest.*)
Due(id) == \E r \in Overdue : r.id = id
Excused == stopping \/ faulted \/ missed
Resting == stopping /\ ~Driving /\ ~idleWait
RuntimeSettles ==
  /\ \A id \in 1..(MaxCalls + 1) : Due(id) ~> ~Due(id) \/ Excused
  /\ stopping ~> Resting \/ ~stopping

=============================================================================
