------------------------------ MODULE LocalJobs ------------------------------
(***************************************************************************)
(* Background jobs (jobs/jobs-local/src/index.ts), and the notices of      *)
(* their completion (jobs/tool-jobs/src/index.ts, onJobDone).              *)
(*                                                                         *)
(* Agents start jobs from their turns, wait for them, read and kill them;  *)
(* a job settles when its producer does.  Every method runs to its end     *)
(* except wait and the two teardowns, which await settlements.  Owners     *)
(* are reduced to their status and their inbox to the notices in it.  The  *)
(* observers of the set of jobs, output and wording are left out.          *)
(***************************************************************************)
EXTENDS Naturals, FiniteSets

CONSTANTS
  Owners,      \* agents
  Limit,       \* maxConcurrentJobsPerOwner
  WakeBudget,  \* maxConsecutiveWakes
  MaxJobs,     \* bound: jobs started
  MaxWaits     \* bound: waits begun

ASSUME JobsAssumption ==
  Limit \in Nat \ {0} /\ WakeBudget \in Nat \ {0} /\ MaxJobs \in Nat /\ MaxWaits \in Nat

Jobs == 1..MaxJobs
Waits == 1..MaxWaits
NoOwner == "nobody"
NoJob == 0

VARIABLES
  status,    \* of each job; "over" for completed, killed and failed
  owner,     \* of each job
  store,     \* the jobs the registry knows
  reported,  \* jobs whose completion somebody has, or is about to be given
  wait,      \* each wait's job, caller and state: "none", "waiting", "resolved"
             \* or "expired" until it returns, "answered", "returned" or "aborted"
  registry,  \* "up", "closing" (disposeAll awaits settlements) or "down"
  alive,     \* each owner: "live", "disposing" (disposeOwned does) or "gone"
  phase,     \* each owner's status: "idle", "busy", or "drained" when its turn
             \* found nothing more to do and is about to be idle
  notices,   \* owners with a notice in their next-step list
  spent,     \* spentWakes of each owner
  told,      \* history: how the completion of each job became known
  settled,   \* history: how often each job settled
  orphans    \* history: jobs whose producer could not be told to stop

jobVars == <<status, owner, store, reported, settled>>
ownerVars == <<phase, notices, spent>>
teardown == <<registry, alive>>
vars == <<jobVars, wait, ownerVars, teardown, told, orphans>>

Init ==
  /\ status = [j \in Jobs |-> "none"] /\ owner = [j \in Jobs |-> NoOwner]
  /\ store = {} /\ reported = {} /\ settled = [j \in Jobs |-> 0]
  /\ wait = [w \in Waits |-> [job |-> NoJob, by |-> NoOwner, state |-> "none"]]
  /\ registry = "up" /\ alive = [o \in Owners |-> "live"]
  /\ phase = [o \in Owners |-> "idle"] /\ notices = {} /\ spent = [o \in Owners |-> 0]
  /\ told = [j \in Jobs |-> {}] /\ orphans = {}

-----------------------------------------------------------------------------
Terminal(j) == status[j] = "over"
Pending(w) == wait[w].state \in {"waiting", "resolved", "expired"}
(* The waits a job counts: an aborted one is no longer counted. *)
Counted(j) == {w \in Waits : wait[w].job = j /\ Pending(w)}

(* Fault: only running jobs take up the limit. *)
RunningOf(o) == {j \in store : owner[j] = o /\ status[j] = "running"}

(* activeTaskCount. *)
ActiveOf(o) == {j \in store : owner[j] = o /\ status[j] \in {"running", "stopping"}}

(* assertAccess: an owned job is its owner's. *)
Accessible(o, j) == j \in store /\ owner[j] \in {o, NoOwner}
CallsFrom(o) == alive[o] # "gone" /\ phase[o] = "busy"

(* Fault: the budget of wakes is never looked at. *)
NotifyAlways(o) ==
  IF phase[o] = "idle"
  THEN /\ phase' = [phase EXCEPT ![o] = "busy"] /\ spent' = [spent EXCEPT ![o] = @ + 1]
       /\ UNCHANGED notices
  ELSE /\ notices' = notices \cup {o}
       /\ UNCHANGED <<phase, spent>>

(* The reporter: an idle owner is woken, while its budget lasts; any other *)
(* finds the notice in its next step.                                      *)
Notify(o) ==
  IF phase[o] = "idle" /\ spent[o] < WakeBudget
  THEN /\ phase' = [phase EXCEPT ![o] = "busy"] /\ spent' = [spent EXCEPT ![o] = @ + 1]
       /\ UNCHANGED notices
  ELSE /\ notices' = notices \cup {o}
       /\ UNCHANGED <<phase, spent>>

(* settle releases every wait for the jobs. *)
Resolve(jobs) ==
  wait' = [w \in Waits |-> IF wait[w].job \in jobs /\ wait[w].state = "waiting"
                           THEN [wait[w] EXCEPT !.state = "resolved"] ELSE wait[w]]

(* Fault: an aborted wait still counts. *)
ClaimedByAborted(j) ==
  j \in reported \/ \E w \in Waits : wait[w].job = j /\ (Pending(w) \/ wait[w].state = "aborted")

(* Fault: the waits for a job do not matter. *)
ClaimedIfReported(j) == j \in reported

(* settle: the first outcome of a job counts.  Whoever waits for it takes  *)
(* its report; if nobody has it, its owner is notified.                    *)
Claimed(j) == j \in reported \/ Counted(j) # {}
Settle(j) ==
  \/ Terminal(j) /\ UNCHANGED <<jobVars, wait, ownerVars, told>>
  \/ /\ ~Terminal(j)
     /\ status' = [status EXCEPT ![j] = "over"]
     /\ settled' = [settled EXCEPT ![j] = @ + 1]
     /\ reported' = reported \cup {i \in {j} : Claimed(i)}
     /\ Resolve({j})
     /\ IF ~Claimed(j) /\ registry = "up" /\ owner[j] # NoOwner
        THEN Notify(owner[j]) /\ told' = [told EXCEPT ![j] = @ \cup {"notice"}]
        ELSE UNCHANGED <<ownerVars, told>>
     /\ UNCHANGED <<owner, store>>

(* The promise of the producer settles, or is rejected. *)
ProducerSettles(j) ==
  /\ status[j] # "none"
  /\ Settle(j)
  /\ UNCHANGED <<teardown, orphans>>

-----------------------------------------------------------------------------
(* Calls from the turns of agents. *)
Start(o) ==
  /\ CallsFrom(o) /\ alive[o] = "live" /\ registry = "up"
  /\ \E j \in Jobs :
       /\ status[j] = "none" /\ \A i \in 1..(j - 1) : status[i] # "none"
       /\ \E to \in {o, NoOwner} :
            /\ Cardinality(ActiveOf(to)) < Limit
            /\ owner' = [owner EXCEPT ![j] = to]
       /\ status' = [status EXCEPT ![j] = "running"]
       /\ store' = store \cup {j}
  /\ UNCHANGED <<reported, settled, wait, ownerVars, teardown, told, orphans>>

(* read, and kill of what is over: the caller has the completion. *)
Learn(o, j) ==
  /\ CallsFrom(o) /\ Accessible(o, j) /\ Terminal(j)
  /\ reported' = reported \cup {j}
  /\ told' = [told EXCEPT ![j] = @ \cup {"answer"}]
  /\ UNCHANGED <<status, owner, store, settled, wait, ownerVars, teardown, orphans>>

(* kill, unless its producer's cancel throws, which leaves all unchanged. *)
Kill(o, j) ==
  /\ CallsFrom(o) /\ Accessible(o, j) /\ ~Terminal(j)
  /\ status' = [status EXCEPT ![j] = "stopping"]
  /\ reported' = reported \cup {j}
  /\ told' = [told EXCEPT ![j] = @ \cup {"kill"}]
  /\ UNCHANGED <<owner, store, settled, wait, ownerVars, teardown, orphans>>

(* wait for what is not over. *)
Wait(o, j) ==
  /\ CallsFrom(o) /\ Accessible(o, j) /\ ~Terminal(j)
  /\ \E w \in Waits :
       /\ wait[w].state = "none" /\ \A v \in 1..(w - 1) : wait[v].state # "none"
       /\ wait' = [wait EXCEPT ![w] = [job |-> j, by |-> o, state |-> "waiting"]]
  /\ UNCHANGED <<jobVars, ownerVars, teardown, told, orphans>>

(* Its time runs out, or its caller aborts it, which uncounts it at once. *)
Leaves(w, state) ==
  /\ wait[w].state = "waiting"
  /\ wait' = [wait EXCEPT ![w].state = state]
  /\ UNCHANGED <<jobVars, ownerVars, teardown, told, orphans>>
WaitExpires(w) == Leaves(w, "expired")
WaitAborts(w) == Leaves(w, "aborted")

(* A wait that was resolved or ran out returns what it finds. *)
WaitReturns(w) ==
  LET found == {j \in {wait[w].job} : Terminal(j)}
  IN  /\ wait[w].state \in {"resolved", "expired"}
      /\ wait' = [wait EXCEPT ![w].state = IF found = {} THEN "returned" ELSE "answered"]
      /\ reported' = reported \cup found
      /\ told' = [j \in Jobs |-> IF j \in found THEN told[j] \cup {"answer"} ELSE told[j]]
      /\ UNCHANGED <<status, owner, store, settled, ownerVars, teardown, orphans>>

-----------------------------------------------------------------------------
(* The owners' turns.  A claimed prompt of a person restores the budget. *)
PersonHeard(o) ==
  /\ alive[o] = "live" /\ phase[o] \in {"idle", "busy"}
  /\ phase' = [phase EXCEPT ![o] = "busy"] /\ spent' = [spent EXCEPT ![o] = 0]
  /\ notices' = notices \ {o}
  /\ UNCHANGED <<jobVars, wait, teardown, told, orphans>>

StepClaims(o) ==
  /\ phase[o] = "busy" /\ o \in notices
  /\ notices' = notices \ {o}
  /\ UNCHANGED <<jobVars, wait, teardown, phase, spent, told, orphans>>

(* A turn does not end over its calls, nor, unless it fails or is          *)
(* cancelled, over a notice.                                               *)
Quiet(o) == \A w \in Waits : Pending(w) => wait[w].by # o
TurnDrains(o) ==
  /\ phase[o] = "busy" /\ Quiet(o) /\ o \notin notices
  /\ phase' = [phase EXCEPT ![o] = "drained"]
  /\ UNCHANGED <<jobVars, wait, teardown, notices, spent, told, orphans>>
TurnEnds(o) ==
  /\ \/ phase[o] = "drained" /\ UNCHANGED notices
     \/ phase[o] = "busy" /\ Quiet(o) /\ notices' \in {notices, notices \ {o}}
  /\ phase' = [phase EXCEPT ![o] = "idle"]
  /\ UNCHANGED <<jobVars, wait, teardown, spent, told, orphans>>

-----------------------------------------------------------------------------
(* Fault: a job whose cancel throws is left to settle. *)
CancelAndHope(jobs) ==
  LET doomed == {j \in jobs : ~Terminal(j)}
  IN  \E throwing \in SUBSET doomed :
        /\ status' = [j \in Jobs |-> IF j \in doomed THEN "stopping" ELSE status[j]]
        /\ reported' = reported \cup doomed
        /\ told' = [j \in Jobs |-> IF j \in doomed THEN told[j] \cup {"teardown"} ELSE told[j]]
        /\ orphans' = orphans \cup throwing
        /\ UNCHANGED <<owner, store, settled, wait, ownerVars>>

(* cancelForTeardown: the report of a live job is taken; one whose cancel  *)
(* throws is settled as failed.                                            *)
CancelForTeardown(jobs) ==
  LET doomed == {j \in jobs : ~Terminal(j)}
  IN  \E throwing \in SUBSET doomed :
        /\ status' = [j \in Jobs |-> IF j \in throwing THEN "over"
                                     ELSE IF j \in doomed THEN "stopping" ELSE status[j]]
        /\ settled' = [j \in Jobs |-> IF j \in throwing THEN settled[j] + 1 ELSE settled[j]]
        /\ reported' = reported \cup doomed
        /\ told' = [j \in Jobs |-> IF j \in doomed THEN told[j] \cup {"teardown"} ELSE told[j]]
        /\ orphans' = orphans \cup throwing
        /\ Resolve(throwing)
        /\ UNCHANGED <<owner, store, ownerVars>>

OwnedBy(o) == {j \in store : owner[j] = o}

(* disposeOwned, until it awaits the settlements and after it. *)
DisposeOwner(o) ==
  /\ alive[o] = "live"
  /\ alive' = [alive EXCEPT ![o] = "disposing"] /\ UNCHANGED registry
  /\ CancelForTeardown(OwnedBy(o))
OwnerDisposed(o) ==
  /\ alive[o] = "disposing" /\ \A j \in OwnedBy(o) : Terminal(j)
  /\ alive' = [alive EXCEPT ![o] = "gone"]
  /\ store' = store \ OwnedBy(o)
  /\ UNCHANGED <<status, owner, reported, settled, wait, ownerVars, registry, told, orphans>>

(* disposeAll, likewise. *)
DisposeAll ==
  /\ registry = "up"
  /\ registry' = "closing" /\ UNCHANGED alive
  /\ CancelForTeardown(store)
AllDisposed ==
  /\ registry = "closing" /\ \A j \in store : Terminal(j)
  /\ registry' = "down" /\ store' = {}
  /\ UNCHANGED <<status, owner, reported, settled, wait, ownerVars, alive, told, orphans>>

-----------------------------------------------------------------------------
WaitSteps == \E w \in Waits : WaitExpires(w) \/ WaitReturns(w)
(* A job that was told to stop and could be. *)
Released == \E j \in Jobs : status[j] = "stopping" /\ j \notin orphans /\ ProducerSettles(j)
Disposals == AllDisposed \/ \E o \in Owners : OwnerDisposed(o)

Next ==
  \/ WaitSteps \/ Disposals \/ DisposeAll
  \/ \E j \in Jobs : ProducerSettles(j)
  \/ \E w \in Waits : WaitAborts(w)
  \/ \E o \in Owners :
       \/ Start(o) \/ PersonHeard(o) \/ StepClaims(o) \/ TurnDrains(o) \/ TurnEnds(o)
       \/ DisposeOwner(o)
       \/ \E j \in Jobs : Learn(o, j) \/ Kill(o, j) \/ Wait(o, j)

Spec == Init /\ [][Next]_vars

(* Deadlines pass, what is resolved resumes, and a producer that was told  *)
(* to stop settles its job; a running one owes nothing.                    *)
FairSpec == Spec /\ WF_vars(WaitSteps) /\ WF_vars(Released) /\ WF_vars(Disposals)

-----------------------------------------------------------------------------
TypeOK ==
  /\ status \in [Jobs -> {"none", "running", "stopping", "over"}]
  /\ owner \in [Jobs -> Owners \cup {NoOwner}]
  /\ store \subseteq Jobs /\ reported \subseteq Jobs /\ orphans \subseteq Jobs
  /\ wait \in [Waits -> [job : Jobs \cup {NoJob}, by : Owners \cup {NoOwner},
                         state : {"none", "waiting", "resolved", "expired", "answered", "returned",
                                  "aborted"}]]
  /\ registry \in {"up", "closing", "down"} /\ alive \in [Owners -> {"live", "disposing", "gone"}]
  /\ phase \in [Owners -> {"idle", "busy", "drained"}] /\ notices \subseteq Owners
  /\ spent \in [Owners -> 0..WakeBudget]
  /\ told \in [Jobs -> SUBSET {"answer", "kill", "notice", "teardown"}]
  /\ settled \in [Jobs -> Nat]

(* No job is lost track of.  While at work it is in the registry and takes *)
(* up its owner's limit, stopping or not; it settles once; and then its    *)
(* completion is known: somebody was given it, or is about to be by a wait *)
(* it counted, or its owner has a notice - which is sent of nothing that   *)
(* was claimed by then.                                                    *)
AtWork(o) == {j \in Jobs : owner[j] = o /\ status[j] \in {"running", "stopping"}}
JobsAccounted ==
  /\ \A o \in Owners \cup {NoOwner} : AtWork(o) \subseteq store /\ Cardinality(AtWork(o)) <= Limit
  /\ \A j \in Jobs :
       /\ settled[j] <= 1
       /\ Terminal(j) /\ owner[j] # NoOwner => told[j] # {} \/ Counted(j) # {}
       /\ "notice" \in told[j] =>
            /\ told[j] \cap {"kill", "teardown"} = {}
            /\ \A w \in Waits : wait[w].job = j => wait[w].state \in {"returned", "aborted"}

(* Every wait ends, and so does every teardown, whatever is waited for     *)
(* meanwhile, and though producers may refuse to be stopped.               *)
JobsSettle ==
  /\ \A w \in Waits : wait[w].state = "waiting" ~> ~Pending(w)
  /\ \A o \in Owners : alive[o] = "disposing" ~> alive[o] = "gone"
  /\ registry = "closing" ~> registry = "down"

=============================================================================
