------------------------- MODULE SessionPreparations -------------------------
(***************************************************************************)
(* Cold sessions: the pool of prepared sources that inspect, load and      *)
(* prepare share (session-persistence/src/preparations.ts), and the part   *)
(* of the coordinator that decides their fate: one chain of storage        *)
(* operations per session id, commits that check the revision, appends,    *)
(* publication and retirement (coordinator.ts).                            *)
(*                                                                         *)
(* One action is one synchronous block of a call, or the start or the      *)
(* settlement of an operation of a chain.  A log is the number of its      *)
(* records, which stands for its revision as well.                         *)
(***************************************************************************)
EXTENDS Integers, Sequences, FiniteSets

CONSTANTS
  Ids,        \* session ids, each with a stored log
  Callers,    \* who calls inspect, load and prepare
  Capacity,   \* preparedSessionCacheSize
  Objects,    \* names of the PreparationEntry objects of an id that are in use
  MaxCalls,   \* bound: calls in all
  MaxWrites   \* bound: appends asked for, and writes of other processes

NoObject == 0

ASSUME PoolAssumption ==
  /\ Capacity \in Nat \ {0} /\ MaxCalls \in Nat /\ MaxWrites \in Nat
  /\ Ids # {} /\ IsFiniteSet(Ids) /\ NoObject \notin Objects

VARIABLES
  stored,   \* records of each stored log
  broken,   \* the log ends in a torn record or an open turn
  own,      \* history: its last revision this process wrote
  owner,    \* states[id].owner: "none", a "live" session, a retired one that is
            \* "flushing" or "retiring", or one whose final flush failed ("stuck")
  cursor,   \* states[id].cursor, 0 for no state
  chain,    \* chains[id], the oldest operation first
  running,  \* how far its append is: "none", "adopting" or "writing"
  order,    \* the keys of entries, in the order of the map
  entry,    \* entries[id]
  call,     \* what each caller is doing
  calls, writes   \* counts, for the bounds

logVars == <<stored, broken, own>>
stateVars == <<owner, cursor>>
chainVars == <<chain, running>>
pool == <<order, entry>>
vars == <<logVars, stateVars, chainVars, pool, call, calls, writes>>

NoEntry == [phase |-> "none", object |-> NoObject, rev |-> 0, repair |-> FALSE]
Idle == [at |-> "idle", op |-> "none", id |-> CHOOSE id \in Ids : TRUE, object |-> NoObject,
         rev |-> 0, outcome |-> "none"]

Init ==
  /\ stored = [id \in Ids |-> 1] /\ own = [id \in Ids |-> 0]
  /\ broken \in [Ids -> BOOLEAN]
  /\ owner = [id \in Ids |-> "none"] /\ cursor = [id \in Ids |-> 0]
  /\ chain = [id \in Ids |-> <<>>] /\ running = [id \in Ids |-> "none"]
  /\ order = <<>> /\ entry = [id \in Ids |-> NoEntry]
  /\ call = [c \in Callers |-> Idle] /\ calls = 0 /\ writes = 0

-----------------------------------------------------------------------------
(* The pool's helpers take the calls as they are but for who they wake.    *)
Without(list, x) ==
  IF \A k \in 1..Len(list) : list[k] # x THEN list
  ELSE LET k == CHOOSE k \in 1..Len(list) : list[k] = x
       IN  SubSeq(list, 1, k - 1) \o SubSeq(list, k + 1, Len(list))

(* settleReservation: those who wait for the entry resume. *)
Woken(now, id) ==
  [c \in Callers |->
     IF now[c].at = "settled" /\ now[c].id = id /\ now[c].object = entry[id].object
     THEN [now[c] EXCEPT !.at = "woken"] ELSE now[c]]

(* Fault: those who wait for the reservation are not told. *)
RemoveSilently(id, now) ==
  /\ order' = Without(order, id)
  /\ entry' = [entry EXCEPT ![id] = NoEntry]
  /\ call' = now

(* remove, of an entry that is in the map. *)
Remove(id, now) ==
  /\ order' = Without(order, id)
  /\ entry' = [entry EXCEPT ![id] = NoEntry]
  /\ call' = Woken(now, id)

(* Fault: nothing is evicted. *)
TouchUnbounded(id, entries) ==
  /\ order' = Append(Without(order, id), id)
  /\ entry' = entries

(* touch: the entry becomes the latest, and the first ready one is evicted *)
(* once there are too many.                                                *)
Touch(id, entries) ==
  LET latest == Append(Without(order, id), id)
      ready == {i \in 1..Len(latest) : entries[latest[i]].phase = "ready"}
      first == latest[CHOOSE i \in ready : \A j \in ready : i <= j]
  IN  IF Cardinality(ready) <= Capacity
      THEN order' = latest /\ entry' = entries
      ELSE order' = Without(latest, first) /\ entry' = [entries EXCEPT ![first] = NoEntry]

(* makeReady, of an entry that is in the map. *)
MakeReady(id, source, now) ==
  /\ Touch(id, [entry EXCEPT ![id] = [source EXCEPT !.phase = "ready"]])
  /\ call' = Woken(now, id)

(* The entry a call joined is still the one in the map. *)
Joined(c) == entry[call[c].id].object = call[c].object

Goto(c, at) == [call EXCEPT ![c].at = at]
Return(c) == [call EXCEPT ![c] = Idle]

(* An attempt starts over: its loop turns. *)
Again(c) ==
  [call EXCEPT ![c] = [Idle EXCEPT !.at = "calling", !.op = call[c].op, !.id = call[c].id]]

(* Operations of the chain. *)
Job(kind, by) == [kind |-> kind, by |-> by]
Queue(id, job) == chain' = [chain EXCEPT ![id] = Append(@, job)]
First(id, kind) == chain[id] # <<>> /\ Head(chain[id]).kind = kind
Pop(id) == chain' = [chain EXCEPT ![id] = Tail(@)]
Jobs(id) == {chain[id][i] : i \in 1..Len(chain[id])}

(* Names for a new entry: of an object that nothing refers to any more. *)
Unused(id) ==
  {o \in Objects :
     /\ Job("load", o) \notin Jobs(id)
     /\ \A d \in Callers : call[d].id = id => call[d].object # o}

-----------------------------------------------------------------------------
(* A call arrives. *)
Call(c) ==
  /\ call[c].at = "idle" /\ calls < MaxCalls
  /\ \E op \in {"prepare", "load", "inspect"}, id \in Ids :
        call' = [call EXCEPT ![c] = [Idle EXCEPT !.at = "calling", !.op = op, !.id = id]]
  /\ calls' = calls + 1
  /\ UNCHANGED <<logVars, stateVars, chainVars, pool, writes>>

(* The head of a loop of the coordinator, past the wait for a retirement:  *)
(* a live session answers or refuses at once; otherwise entryFor shares    *)
(* the entry there is, or makes one whose load enters the chain.           *)
Join(c) ==
  LET id == call[c].id
      fresh == CHOOSE o \in Unused(id) : TRUE
  IN  /\ call[c].at = "calling"
      /\ owner[id] \notin {"flushing", "retiring"}
      /\ \/ /\ owner[id] = "live"
            /\ call' = Return(c)
            /\ UNCHANGED <<pool, chain>>
         \/ /\ owner[id] # "live" /\ entry[id].phase = "none" /\ Unused(id) # {}
            /\ entry' = [entry EXCEPT ![id] = [NoEntry EXCEPT !.phase = "loading", !.object = fresh]]
            /\ order' = Append(order, id)
            /\ Queue(id, Job("load", fresh))
            /\ call' = [call EXCEPT ![c].at = "result", ![c].object = fresh]
         \/ /\ owner[id] # "live" /\ entry[id].phase # "none"
            /\ call' = [call EXCEPT ![c].object = entry[id].object, ![c].rev = entry[id].rev,
                          ![c].at = IF entry[id].phase = "loading" THEN "result" ELSE "loaded"]
            /\ UNCHANGED <<pool, chain>>
      /\ UNCHANGED <<logVars, stateVars, running, calls, writes>>

(* prepareCore settles, and with it the entry's result. *)
LoadSettles(id) ==
  LET o == Head(chain[id]).by
      waiting == {c \in Callers : call[c].at = "result" /\ call[c].id = id /\ call[c].object = o}
  IN  /\ First(id, "load")
      /\ Pop(id)
      /\ \/ /\ call' = [c \in Callers |-> IF c \in waiting THEN Idle ELSE call[c]]
            /\ \/ entry[id].object # o /\ UNCHANGED pool
               \/ /\ entry[id].object = o
                  /\ order' = Without(order, id)
                  /\ entry' = [entry EXCEPT ![id] = NoEntry]
         \/ /\ call' = [c \in Callers |->
                          IF c \in waiting THEN [call[c] EXCEPT !.at = "loaded", !.rev = stored[id]]
                                           ELSE call[c]]
            /\ \/ entry[id].object # o /\ UNCHANGED pool
               \/ /\ entry[id].object = o
                  /\ Touch(id, [entry EXCEPT ![id] =
                       [@ EXCEPT !.phase = "ready", !.rev = stored[id], !.repair = broken[id]]])
      /\ UNCHANGED <<logVars, stateVars, running, calls, writes>>

-----------------------------------------------------------------------------
(* reserve, once the entry's result or a reservation it waited for settled. *)
Reserve(c) ==
  LET id == call[c].id
  IN  /\ call[c].op # "inspect" /\ call[c].at \in {"loaded", "woken"}
      /\ \/ /\ ~Joined(c)
            /\ call' = Again(c)
            /\ UNCHANGED <<entry, chain>>
         \/ /\ Joined(c) /\ entry[id].phase # "ready"
            /\ call' = Goto(c, "settled")
            /\ UNCHANGED <<entry, chain>>
         \/ /\ Joined(c) /\ entry[id].phase = "ready"
            /\ entry' = [entry EXCEPT ![id].phase = "committing"]
            /\ Queue(id, Job("commit", c))
            /\ call' = [call EXCEPT ![c].at = "committing", ![c].rev = entry[id].rev,
                                    ![c].outcome = IF entry[id].repair THEN "repair" ELSE "pending"]
      /\ UNCHANGED <<logVars, stateVars, running, order, calls, writes>>

(* commitPrepared: an owner refuses it, another revision or a repair it    *)
(* has to write first asks for a new load.                                 *)
CommitSettles(id) ==
  LET c == Head(chain[id]).by
  IN  /\ First(id, "commit")
      /\ Pop(id)
      /\ \/ /\ call' = [call EXCEPT ![c].outcome = "failed"]
            /\ UNCHANGED <<logVars, cursor>>
         \/ /\ owner[id] = "none" /\ call[c].rev # stored[id]
            /\ call' = [call EXCEPT ![c].outcome = "stale"]
            /\ UNCHANGED <<logVars, cursor>>
         \/ /\ owner[id] = "none" /\ call[c].rev = stored[id] /\ call[c].outcome = "repair"
            /\ stored' = [stored EXCEPT ![id] = @ + 1]
            /\ own' = [own EXCEPT ![id] = stored[id] + 1]
            /\ broken' = [broken EXCEPT ![id] = FALSE]
            /\ call' = [call EXCEPT ![c].outcome = "stale"]
            /\ UNCHANGED cursor
         \/ /\ owner[id] = "none" /\ call[c].rev = stored[id] /\ call[c].outcome = "pending"
            /\ cursor' = [cursor EXCEPT ![id] = call[c].rev]
            /\ call' = [call EXCEPT ![c].outcome = "committed"]
            /\ UNCHANGED logVars
      /\ UNCHANGED <<owner, running, pool, calls, writes>>

(* reserve resumes after its commit.  load discards its reservation at once. *)
CommitReturns(c) ==
  LET id == call[c].id
      leave(now) == \/ Joined(c) /\ Remove(id, now)
                    \/ ~Joined(c) /\ call' = now /\ UNCHANGED pool
  IN  /\ call[c].at = "committing" /\ call[c].outcome \in {"failed", "stale", "committed"}
      /\ \/ call[c].outcome = "failed" /\ leave(Return(c))
         \/ call[c].outcome = "stale" /\ leave(Again(c))
         \/ /\ call[c].outcome = "committed" /\ call[c].op = "prepare"
            /\ \/ Joined(c) /\ MakeReady(id, entry[id], Return(c))
               \/ ~Joined(c) /\ call' = Return(c) /\ UNCHANGED pool
         \/ /\ call[c].outcome = "committed" /\ ~Joined(c)
            /\ call' = Again(c)
            /\ UNCHANGED pool
         \/ /\ call[c].outcome = "committed" /\ Joined(c) /\ call[c].op = "load"
            /\ Remove(id, Return(c))
         \/ /\ call[c].outcome = "committed" /\ Joined(c) /\ call[c].op = "prepare"
            /\ entry' = [entry EXCEPT ![id].phase = "reserved"]
            /\ call' = Goto(c, "holding")
            /\ UNCHANGED order
      /\ UNCHANGED <<logVars, stateVars, chainVars, calls, writes>>

(* The holder releases its reservation: the source is reusable unless its  *)
(* session was written to.                                                 *)
Release(c) ==
  /\ call[c].at = "holding"
  /\ \/ MakeReady(call[c].id, entry[call[c].id], Return(c))
     \/ Remove(call[c].id, Return(c))
  /\ UNCHANGED <<logVars, stateVars, chainVars, calls, writes>>

(* The holder publishes its session: attachPrepared binds it, and appends  *)
(* what the session got before it was published.                           *)
Publish(c) ==
  LET id == call[c].id
  IN  /\ call[c].at = "holding"
      /\ Remove(id, Return(c))
      /\ owner' = [owner EXCEPT ![id] = "live"]
      /\ \/ UNCHANGED <<chain, writes>>
         \/ writes < MaxWrites /\ writes' = writes + 1 /\ Queue(id, Job("append", NoObject))
      /\ UNCHANGED <<logVars, cursor, running, calls>>

(* Fault: an aborted commit leaves its entry reserved. *)
AbortLeavesEntry(c) ==
  LET id == call[c].id
      queued(kind) == \E i \in 2..Len(chain[id]) : chain[id][i] = Job(kind, c)
      dropped(kind) == [chain EXCEPT ![id] = Without(@, Job(kind, c))]
  IN  /\ call[c].op \in {"prepare", "inspect"}
      /\ \/ call[c].at \in {"calling", "result", "settled"} /\ UNCHANGED chain
         \/ call[c].at = "checking" /\ queued("check") /\ chain' = dropped("check")
         \/ call[c].at = "committing" /\ queued("commit") /\ chain' = dropped("commit")
      /\ call' = Return(c)
      /\ UNCHANGED <<logVars, stateVars, running, pool, calls, writes>>

(* A caller's signal aborts: what it waits for goes on without it, but an  *)
(* operation still queued never starts, and takes its entry along.         *)
Abort(c) ==
  LET id == call[c].id
      queued(kind) == \E i \in 2..Len(chain[id]) : chain[id][i] = Job(kind, c)
      dropped(kind) == [chain EXCEPT ![id] = Without(@, Job(kind, c))]
  IN  /\ call[c].op \in {"prepare", "inspect"}
      /\ \/ /\ call[c].at \in {"calling", "result", "settled"}
            /\ call' = Return(c)
            /\ UNCHANGED <<pool, chain>>
         \/ /\ call[c].at = "checking" /\ queued("check")
            /\ chain' = dropped("check")
            /\ call' = Return(c)
            /\ UNCHANGED pool
         \/ /\ call[c].at = "committing" /\ queued("commit")
            /\ chain' = dropped("commit")
            /\ \/ Joined(c) /\ Remove(id, Return(c))
               \/ ~Joined(c) /\ call' = Return(c) /\ UNCHANGED pool
      /\ UNCHANGED <<logVars, stateVars, running, calls, writes>>

-----------------------------------------------------------------------------
(* inspect, once the entry's result settled: it counts as a use, and its   *)
(* revision is checked in the chain.                                       *)
Inspect(c) ==
  LET id == call[c].id
  IN  /\ call[c].op = "inspect" /\ call[c].at = "loaded"
      /\ \/ /\ Joined(c) /\ entry[id].phase = "ready"
            /\ Touch(id, entry)
         \/ /\ ~(Joined(c) /\ entry[id].phase = "ready")
            /\ UNCHANGED pool
      /\ \/ /\ owner[id] = "live"
            /\ call' = Return(c)
            /\ UNCHANGED chain
         \/ /\ owner[id] # "live"
            /\ Queue(id, Job("check", c))
            /\ call' = [call EXCEPT ![c].at = "checking", ![c].outcome = "pending"]
      /\ UNCHANGED <<logVars, stateVars, running, calls, writes>>

(* isPreparedSourceCurrent settles. *)
CheckSettles(id) ==
  LET c == Head(chain[id]).by
  IN  /\ First(id, "check")
      /\ Pop(id)
      /\ \/ call' = Return(c)
         \/ call' = [call EXCEPT ![c].outcome = IF call[c].rev = stored[id] THEN "current" ELSE "stale"]
      /\ UNCHANGED <<logVars, stateVars, running, pool, calls, writes>>

(* inspect resumes: a stale source is discarded unless it is reserved.     *)
CheckReturns(c) ==
  LET id == call[c].id
      retained == Joined(c) /\ entry[id].phase # "ready"
  IN  /\ call[c].at = "checking" /\ call[c].outcome \in {"current", "stale"}
      /\ \/ /\ owner[id] = "live" \/ call[c].outcome = "current" \/ retained
            /\ call' = Return(c)
            /\ UNCHANGED pool
         \/ /\ owner[id] # "live" /\ call[c].outcome = "stale" /\ ~Joined(c)
            /\ call' = Again(c)
            /\ UNCHANGED pool
         \/ /\ owner[id] # "live" /\ call[c].outcome = "stale" /\ Joined(c)
            /\ entry[id].phase = "ready"
            /\ Remove(id, Again(c))
      /\ UNCHANGED <<logVars, stateVars, chainVars, calls, writes>>

-----------------------------------------------------------------------------
(* Somebody appends: the service's callers, or a live session's controller. *)
AppendAsked(id) ==
  /\ writes < MaxWrites
  /\ writes' = writes + 1
  /\ Queue(id, Job("append", NoObject))
  /\ UNCHANGED <<logVars, stateVars, running, pool, call, calls>>

(* Fault: a reserved log is written to. *)
AppendStartsUnchecked(id) ==
  /\ First(id, "append") /\ running[id] = "none"
  /\ \/ /\ cursor[id] > 0
        /\ running' = [running EXCEPT ![id] = "writing"]
        /\ UNCHANGED <<pool, call>>
     \/ /\ cursor[id] = 0
        /\ running' = [running EXCEPT ![id] = "adopting"]
        /\ \/ entry[id].phase = "ready" /\ Remove(id, call)
           \/ entry[id].phase # "ready" /\ UNCHANGED <<pool, call>>
  /\ UNCHANGED <<logVars, stateVars, chain, calls, writes>>

(* appendCore up to its first await: a reserved log is not writable, and a *)
(* log without state is adopted, from the ready source if there is one.    *)
AppendStarts(id) ==
  /\ First(id, "append") /\ running[id] = "none"
  /\ \/ /\ entry[id].phase \in {"committing", "reserved"}
        /\ Pop(id)
        /\ UNCHANGED <<running, pool, call>>
     \/ /\ entry[id].phase \notin {"committing", "reserved"} /\ cursor[id] > 0
        /\ running' = [running EXCEPT ![id] = "writing"]
        /\ UNCHANGED <<chain, pool, call>>
     \/ /\ entry[id].phase \notin {"committing", "reserved"} /\ cursor[id] = 0
        /\ running' = [running EXCEPT ![id] = "adopting"]
        /\ \/ entry[id].phase = "ready" /\ Remove(id, call)
           \/ entry[id].phase # "ready" /\ UNCHANGED <<pool, call>>
        /\ UNCHANGED chain
  /\ UNCHANGED <<logVars, stateVars, calls, writes>>

(* adopt: what is broken is repaired first; either step may fail. *)
AppendAdopts(id) ==
  /\ running[id] = "adopting"
  /\ \/ /\ Pop(id)
        /\ running' = [running EXCEPT ![id] = "none"]
        /\ UNCHANGED <<logVars, cursor>>
     \/ /\ broken[id]
        /\ stored' = [stored EXCEPT ![id] = @ + 1]
        /\ own' = [own EXCEPT ![id] = stored[id] + 1]
        /\ broken' = [broken EXCEPT ![id] = FALSE]
        /\ UNCHANGED <<cursor, chain, running>>
     \/ /\ ~broken[id]
        /\ cursor' = [cursor EXCEPT ![id] = stored[id]]
        /\ running' = [running EXCEPT ![id] = "writing"]
        /\ UNCHANGED <<logVars, chain>>
  /\ UNCHANGED <<owner, pool, call, calls, writes>>

(* appendBatch settles, and a durable batch invalidates the pool's view. *)
AppendSettles(id) ==
  /\ running[id] = "writing"
  /\ Pop(id)
  /\ running' = [running EXCEPT ![id] = "none"]
  /\ \/ UNCHANGED <<logVars, cursor, pool, call>>
     \/ /\ stored' = [stored EXCEPT ![id] = @ + 1]
        /\ own' = [own EXCEPT ![id] = stored[id] + 1]
        /\ cursor' = [cursor EXCEPT ![id] = @ + 1]
        /\ \/ entry[id].phase # "none" /\ Remove(id, call)
           \/ entry[id].phase = "none" /\ UNCHANGED <<pool, call>>
        /\ UNCHANGED broken
  /\ UNCHANGED <<owner, calls, writes>>

-----------------------------------------------------------------------------
(* The live session is disposed: its final flush, then its state goes. *)
Retire(id) ==
  /\ owner[id] = "live"
  /\ owner' = [owner EXCEPT ![id] = "flushing"]
  /\ UNCHANGED <<logVars, cursor, chainVars, pool, call, calls, writes>>

(* A flush that fails rejects those who wait for the retirement with it.   *)
RetireFlushed(id) ==
  /\ owner[id] = "flushing"
  /\ \/ /\ owner' = [owner EXCEPT ![id] = "stuck"]
        /\ call' = [c \in Callers |->
                      IF call[c].at = "calling" /\ call[c].id = id THEN Idle ELSE call[c]]
        /\ UNCHANGED chain
     \/ /\ owner' = [owner EXCEPT ![id] = "retiring"]
        /\ Queue(id, Job("retire", NoObject))
        /\ UNCHANGED call
  /\ UNCHANGED <<logVars, cursor, running, pool, calls, writes>>

Retired(id) ==
  /\ First(id, "retire")
  /\ Pop(id)
  /\ owner' = [owner EXCEPT ![id] = "none"]
  /\ cursor' = [cursor EXCEPT ![id] = 0]
  /\ UNCHANGED <<logVars, running, pool, call, calls, writes>>

(* Another process writes to the log. *)
ForeignWrite(id) ==
  /\ writes < MaxWrites
  /\ writes' = writes + 1
  /\ stored' = [stored EXCEPT ![id] = @ + 1]
  /\ \E b \in BOOLEAN : broken' = [broken EXCEPT ![id] = b]
  /\ UNCHANGED <<own, stateVars, chainVars, pool, call, calls>>

-----------------------------------------------------------------------------
Settle ==
  \/ \E c \in Callers :
       Join(c) \/ Reserve(c) \/ CommitReturns(c) \/ Release(c) \/ Publish(c)
         \/ Inspect(c) \/ CheckReturns(c)
  \/ \E id \in Ids :
       LoadSettles(id) \/ CommitSettles(id) \/ CheckSettles(id) \/ AppendStarts(id)
         \/ AppendAdopts(id) \/ AppendSettles(id) \/ RetireFlushed(id) \/ Retired(id)

Environment ==
  \/ \E c \in Callers : Call(c) \/ Abort(c)
  \/ \E id \in Ids : AppendAsked(id) \/ Retire(id) \/ ForeignWrite(id)

Next == Settle \/ Environment

Spec == Init /\ [][Next]_vars

(* Storage operations settle, queued reactions run, and a holder publishes *)
(* or releases (the resuming caller disposes its preparation).             *)
FairSpec == Spec /\ WF_vars(Settle)

-----------------------------------------------------------------------------
(* The types; the map holds an entry of an id under one key, and no more   *)
(* ready ones than the pool is configured to keep.                         *)
EntryType ==
  [phase : {"none", "loading", "ready", "committing", "reserved"},
   object : Objects \cup {NoObject}, rev : Nat, repair : BOOLEAN]
CallType ==
  [at : {"idle", "calling", "result", "loaded", "settled", "woken", "committing", "holding",
         "checking"},
   op : {"none", "prepare", "load", "inspect"}, id : Ids, object : Objects \cup {NoObject},
   rev : Nat, outcome : {"none", "pending", "repair", "failed", "stale", "committed", "current"}]
TypeOK ==
  /\ stored \in [Ids -> Nat] /\ own \in [Ids -> Nat] /\ broken \in [Ids -> BOOLEAN]
  /\ owner \in [Ids -> {"none", "live", "flushing", "retiring", "stuck"}]
  /\ cursor \in [Ids -> Nat] /\ running \in [Ids -> {"none", "adopting", "writing"}]
  /\ entry \in [Ids -> EntryType] /\ call \in [Callers -> CallType]
  /\ order \in Seq(Ids)
  /\ \A id \in Ids :
        Cardinality({i \in 1..Len(order) : order[i] = id}) = IF entry[id].phase = "none" THEN 0 ELSE 1
  /\ Cardinality({id \in Ids : entry[id].phase = "ready"}) <= Capacity

(* An entry is committing or reserved exactly while one call is: whatever  *)
(* is aborted, evicted or invalidated, no two callers hold a source, and   *)
(* none is left behind as reserved with nobody to release it.              *)
HoldersOf(id) ==
  {c \in Callers : call[c].at \in {"committing", "holding"} /\ call[c].id = id /\ Joined(c)}
ExclusiveReservation ==
  \A id \in Ids :
    Cardinality(HoldersOf(id)) = IF entry[id].phase \in {"committing", "reserved"} THEN 1 ELSE 0

(* A held reservation is fit to publish: its entry is still the one in the *)
(* map, the coordinator's state is ownerless and stands at the end of the  *)
(* source (what attachPrepared requires), and the source holds everything  *)
(* this process wrote to the log.                                          *)
ReservationsAreCurrent ==
  \A c \in Callers :
    call[c].at = "holding" =>
      LET id == call[c].id
      IN  /\ Joined(c) /\ entry[id].phase = "reserved"
          /\ owner[id] = "none" /\ cursor[id] = entry[id].rev
          /\ entry[id].rev >= own[id] /\ ~entry[id].repair

(* The one ready source the pool keeps makes room for another.             *)
Evicts ==
  \E i, j \in Ids :
    /\ i # j
    /\ entry[i].phase = "ready" /\ entry'[i].phase = "none"
    /\ entry[j].phase # "ready" /\ entry'[j].phase = "ready"

(* Every call comes to an end: no reservation, abort, append or change of  *)
(* the log leaves a caller waiting for good.  Only callers of different    *)
(* sessions that evict each other's source for ever, which takes endlessly *)
(* many loads, may keep each other loading.                                *)
CallsSettle ==
  <>[][~Evicts]_vars => \A c \in Callers : call[c].at # "idle" ~> call[c].at = "idle"

=============================================================================
