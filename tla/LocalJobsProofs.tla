--------------------------- MODULE LocalJobsProofs ---------------------------
(***************************************************************************)
(* LocalJobs proved for every number of owners, jobs and waits, every      *)
(* limit and every budget of wakes: no job is lost track of.               *)
(***************************************************************************)
EXTENDS LocalJobs, FiniteSetTheorems, TLAPS

LEMMA NextCases ==
  ASSUME [Next]_vars
  PROVE  \/ \E w \in Waits : WaitExpires(w) \/ WaitAborts(w)
         \/ \E w \in Waits : WaitReturns(w)
         \/ \E j \in Jobs : ProducerSettles(j)
         \/ AllDisposed \/ DisposeAll
         \/ \E o \in Owners :
              \/ Start(o) \/ PersonHeard(o) \/ StepClaims(o) \/ TurnDrains(o) \/ TurnEnds(o)
              \/ DisposeOwner(o) \/ OwnerDisposed(o)
              \/ \E j \in Jobs : Learn(o, j) \/ Kill(o, j) \/ Wait(o, j)
         \/ UNCHANGED vars
BY DEF Next, WaitSteps, Disposals

(* Where the jobs stand: TypeOK without the owners' own state. *)
JobTypes ==
  /\ status \in [Jobs -> {"none", "running", "stopping", "over"}]
  /\ owner \in [Jobs -> Owners \cup {NoOwner}]
  /\ store \subseteq Jobs /\ reported \subseteq Jobs /\ orphans \subseteq Jobs
  /\ told \in [Jobs -> SUBSET {"answer", "kill", "notice", "teardown"}]
  /\ settled \in [Jobs -> Nat]
  /\ registry \in {"up", "closing", "down"} /\ alive \in [Owners -> {"live", "disposing", "gone"}]
WaitTypes ==
  /\ wait \in [Waits -> [job : Jobs \cup {NoJob}, by : Owners \cup {NoOwner},
                         state : {"none", "waiting", "resolved", "expired", "answered", "returned",
                                  "aborted"}]]
  /\ \A w \in Waits : IF wait[w].state = "none" THEN wait[w].job = NoJob ELSE wait[w].job \in Jobs
OwnerTypes ==
  /\ phase \in [Owners -> {"idle", "busy", "drained"}] /\ notices \subseteq Owners
  /\ spent \in [Owners -> 0..WakeBudget]

-----------------------------------------------------------------------------
LEMMA NotifyTypes ==
  ASSUME OwnerTypes, NEW o \in Owners, Notify(o)
  PROVE  OwnerTypes'
BY JobsAssumption DEF OwnerTypes, Notify

LEMMA ResolveTypes ==
  ASSUME WaitTypes, NEW jobs, Resolve(jobs)
  PROVE  WaitTypes'
BY DEF WaitTypes, Resolve

LEMMA SettleTypes ==
  ASSUME JobTypes, WaitTypes, OwnerTypes, NEW j \in Jobs, ProducerSettles(j)
  PROVE  JobTypes' /\ WaitTypes' /\ OwnerTypes'
<1>1. CASE Terminal(j)
  BY <1>1 DEF ProducerSettles, Settle, JobTypes, WaitTypes, OwnerTypes, jobVars, ownerVars, teardown
<1>2. CASE ~Terminal(j)
  <2>1. JobTypes'
    BY <1>2 DEF ProducerSettles, Settle, JobTypes, teardown
  <2>2. WaitTypes'
    BY <1>2, ResolveTypes DEF ProducerSettles, Settle
  <2>3. OwnerTypes'
    <3>1. CASE owner[j] # NoOwner /\ Notify(owner[j])
      BY <3>1, NotifyTypes DEF JobTypes
    <3>2. CASE UNCHANGED ownerVars
      BY <3>2 DEF OwnerTypes, ownerVars
    <3>3. QED
      BY <1>2, <3>1, <3>2 DEF ProducerSettles, Settle
  <2>4. QED
    BY <2>1, <2>2, <2>3
<1>3. QED
  BY <1>1, <1>2

LEMMA CancelTypes ==
  ASSUME JobTypes, WaitTypes, OwnerTypes, NEW jobs \in SUBSET Jobs, CancelForTeardown(jobs),
         registry' \in {"up", "closing", "down"}, alive' \in [Owners -> {"live", "disposing", "gone"}]
  PROVE  JobTypes' /\ WaitTypes' /\ OwnerTypes'
<1> DEFINE doomed == {j \in jobs : ~Terminal(j)}
<1>1. PICK throwing \in SUBSET doomed :
        /\ status' = [j \in Jobs |-> IF j \in throwing THEN "over"
                                     ELSE IF j \in doomed THEN "stopping" ELSE status[j]]
        /\ settled' = [j \in Jobs |-> IF j \in throwing THEN settled[j] + 1 ELSE settled[j]]
        /\ reported' = reported \cup doomed
        /\ told' = [j \in Jobs |-> IF j \in doomed THEN told[j] \cup {"teardown"} ELSE told[j]]
        /\ orphans' = orphans \cup throwing
        /\ Resolve(throwing)
        /\ UNCHANGED <<owner, store, ownerVars>>
  BY DEF CancelForTeardown
<1>2. doomed \subseteq Jobs
  OBVIOUS
<1>3. JobTypes'
  BY <1>1, <1>2 DEF JobTypes
<1>4. WaitTypes'
  BY <1>1, ResolveTypes
<1>5. OwnerTypes'
  BY <1>1 DEF OwnerTypes, ownerVars
<1>6. QED
  BY <1>3, <1>4, <1>5

LEMMA TypesStep ==
  ASSUME JobTypes, WaitTypes, OwnerTypes, [Next]_vars
  PROVE  JobTypes' /\ WaitTypes' /\ OwnerTypes'
<1> USE DEF jobVars, ownerVars, teardown
<1>1. CASE \E w \in Waits : WaitExpires(w) \/ WaitAborts(w)
  <2>1. PICK w \in Waits : WaitExpires(w) \/ WaitAborts(w)
    BY <1>1
  <2>2. JobTypes' /\ OwnerTypes'
    BY <2>1 DEF WaitExpires, WaitAborts, Leaves, JobTypes, OwnerTypes
  <2>3. WaitTypes'
    BY <2>1 DEF WaitExpires, WaitAborts, Leaves, WaitTypes
  <2>4. QED
    BY <2>2, <2>3
<1>2. ASSUME NEW w \in Waits, WaitReturns(w) PROVE JobTypes' /\ WaitTypes' /\ OwnerTypes'
  <2> DEFINE found == {j \in {wait[w].job} : Terminal(j)}
  <2>1. found \subseteq Jobs
    BY <1>2 DEF WaitReturns, WaitTypes
  <2>2. JobTypes'
    BY <1>2, <2>1 DEF WaitReturns, JobTypes
  <2>3. WaitTypes'
    BY <1>2 DEF WaitReturns, WaitTypes
  <2>4. OwnerTypes'
    BY <1>2 DEF WaitReturns, OwnerTypes
  <2>5. QED
    BY <2>2, <2>3, <2>4
<1>3. CASE \E j \in Jobs : ProducerSettles(j)
  BY <1>3, SettleTypes
<1>4. CASE AllDisposed
  BY <1>4 DEF AllDisposed, JobTypes, WaitTypes, OwnerTypes
<1>5. CASE DisposeAll
  BY <1>5, CancelTypes DEF DisposeAll, JobTypes
<1>6. ASSUME NEW o \in Owners, Start(o) PROVE JobTypes' /\ WaitTypes' /\ OwnerTypes'
  BY <1>6 DEF Start, JobTypes, WaitTypes, OwnerTypes
<1>7. ASSUME NEW o \in Owners,
             PersonHeard(o) \/ StepClaims(o) \/ TurnDrains(o) \/ TurnEnds(o)
      PROVE  JobTypes' /\ WaitTypes' /\ OwnerTypes'
  BY <1>7, JobsAssumption DEF PersonHeard, StepClaims, TurnDrains, TurnEnds, JobTypes, WaitTypes,
     OwnerTypes
<1>8. ASSUME NEW o \in Owners, DisposeOwner(o) PROVE JobTypes' /\ WaitTypes' /\ OwnerTypes'
  <2>1. OwnedBy(o) \subseteq Jobs
    BY DEF OwnedBy, JobTypes
  <2>2. QED
    BY <1>8, <2>1, CancelTypes DEF DisposeOwner, JobTypes
<1>9. ASSUME NEW o \in Owners, OwnerDisposed(o) PROVE JobTypes' /\ WaitTypes' /\ OwnerTypes'
  BY <1>9 DEF OwnerDisposed, JobTypes, WaitTypes, OwnerTypes
<1>10. ASSUME NEW o \in Owners, NEW j \in Jobs, Learn(o, j) \/ Kill(o, j) \/ Wait(o, j)
       PROVE  JobTypes' /\ WaitTypes' /\ OwnerTypes'
  <2>1. CASE Learn(o, j)
    BY <2>1 DEF Learn, JobTypes, WaitTypes, OwnerTypes
  <2>2. CASE Kill(o, j)
    BY <2>2 DEF Kill, JobTypes, WaitTypes, OwnerTypes
  <2>3. CASE Wait(o, j)
    BY <2>3 DEF Wait, JobTypes, WaitTypes, OwnerTypes
  <2>4. QED
    BY <1>10, <2>1, <2>2, <2>3
<1>11. CASE UNCHANGED vars
  BY <1>11 DEF vars, JobTypes, WaitTypes, OwnerTypes
<1>12. QED
  BY <1>1, <1>2, <1>3, <1>4, <1>5, <1>6, <1>7, <1>8, <1>9, <1>10, <1>11, NextCases

LEMMA TypesInit == Init => JobTypes /\ WaitTypes /\ OwnerTypes
BY JobsAssumption DEF Init, JobTypes, WaitTypes, OwnerTypes

(* The registry's, its waits' and the owners' state keep their types.      *)
THEOREM LocalJobsTypes == Spec => []TypeOK
<1>1. Init => JobTypes /\ WaitTypes /\ OwnerTypes
  BY TypesInit
<1>2. JobTypes /\ WaitTypes /\ OwnerTypes /\ [Next]_vars => (JobTypes /\ WaitTypes /\ OwnerTypes)'
  BY TypesStep
<1>3. JobTypes /\ WaitTypes /\ OwnerTypes => TypeOK
  BY DEF JobTypes, WaitTypes, OwnerTypes, TypeOK
<1>4. QED
  BY <1>1, <1>2, <1>3, PTL DEF Spec

-----------------------------------------------------------------------------
(* What the registry keeps of each job.  A report taken before the job is  *)
(* over was taken by a kill or a teardown, which told it.                  *)
AtWorkJob(j) == status[j] \in {"running", "stopping"}
JobKept(j) ==
  /\ AtWorkJob(j) => j \in store
  /\ j \in store => status[j] # "none"
  /\ settled[j] = IF Terminal(j) THEN 1 ELSE 0
  /\ Terminal(j) /\ owner[j] # NoOwner => told[j] # {} \/ Counted(j) # {}
  /\ j \in reported /\ ~Terminal(j) => told[j] # {}
  /\ told[j] \cap {"kill", "teardown"} # {} => j \in reported
  /\ registry # "up" /\ AtWorkJob(j) => j \in reported
  /\ "notice" \in told[j] => Terminal(j) /\ told[j] \cap {"kill", "teardown"} = {}

(* A wait counts while its job is not over, and is not over before a wait  *)
(* that was answered; one whose job was noticed had left it by then.       *)
WaitKept(w) ==
  /\ wait[w].state = "waiting" => ~Terminal(wait[w].job)
  /\ wait[w].state = "answered" => Terminal(wait[w].job)
  /\ wait[w].job \in Jobs /\ "notice" \in told[wait[w].job] => wait[w].state \in {"returned", "aborted"}

Limits == \A o \in Owners \cup {NoOwner} : Cardinality(AtWork(o)) <= Limit

Typed == JobTypes /\ WaitTypes /\ OwnerTypes
Kept == (\A j \in Jobs : JobKept(j)) /\ (\A w \in Waits : WaitKept(w))
kept == <<status, owner, store, reported, wait, settled, told, registry>>

LEMMA AtWorkFinite ==
  ASSUME NEW o
  PROVE  AtWork(o) \subseteq Jobs /\ IsFiniteSet(AtWork(o)) /\ Cardinality(AtWork(o)) \in Nat
<1>1. IsFiniteSet(Jobs)
  BY JobsAssumption, FS_Interval DEF Jobs
<1>2. AtWork(o) \subseteq Jobs
  BY DEF AtWork
<1>3. QED
  BY <1>1, <1>2, FS_Subset, FS_CardinalityType

(* No step but a start adds to what an owner has at work. *)
LEMMA LimitsStay ==
  ASSUME Limits, \A o : AtWork(o)' \subseteq AtWork(o)
  PROVE  Limits'
<1>1. ASSUME NEW o \in Owners \cup {NoOwner} PROVE Cardinality(AtWork(o))' <= Limit
  <2>1. IsFiniteSet(AtWork(o)) /\ Cardinality(AtWork(o)) \in Nat
    BY AtWorkFinite
  <2>2. AtWork(o)' \subseteq AtWork(o)
    OBVIOUS
  <2>3. Cardinality(AtWork(o)') <= Cardinality(AtWork(o)) /\ Cardinality(AtWork(o)') \in Nat
    BY <2>1, <2>2, FS_Subset, FS_CardinalityType
  <2>4. QED
    BY <2>1, <2>3, JobsAssumption DEF Limits
<1>2. QED
  BY <1>1 DEF Limits

LEMMA StartLimits ==
  ASSUME Typed, Kept, Limits, NEW o \in Owners, Start(o)
  PROVE  Limits'
<1>1. PICK j \in Jobs, to \in {o, NoOwner} :
        /\ status[j] = "none" /\ Cardinality(ActiveOf(to)) < Limit
        /\ owner' = [owner EXCEPT ![j] = to]
        /\ status' = [status EXCEPT ![j] = "running"]
  BY DEF Start
<1>2. ASSUME NEW p \in Owners \cup {NoOwner} PROVE Cardinality(AtWork(p)') <= Limit
  <2>1. IsFiniteSet(AtWork(p)) /\ Cardinality(AtWork(p)) \in Nat /\ Cardinality(AtWork(p)) <= Limit
    BY AtWorkFinite DEF Limits
  <2>2. CASE p = to
    <3>1. ActiveOf(to) = AtWork(to)
      BY DEF ActiveOf, AtWork, Kept, JobKept, AtWorkJob, Typed, JobTypes
    <3>2. AtWork(p)' = AtWork(p) \cup {j} /\ j \notin AtWork(p)
      BY <1>1, <2>2 DEF AtWork, Typed, JobTypes
    <3>3. Cardinality(AtWork(p)') = Cardinality(AtWork(p)) + 1
      BY <2>1, <3>2, FS_AddElement
    <3>4. QED
      BY <1>1, <2>1, <2>2, <3>1, <3>3, JobsAssumption
  <2>3. CASE p # to
    <3>1. AtWork(p)' = AtWork(p)
      BY <1>1, <2>3 DEF AtWork, Typed, JobTypes
    <3>2. QED
      BY <2>1, <3>1
  <2>4. QED
    BY <2>2, <2>3
<1>3. QED
  BY <1>2 DEF Limits

-----------------------------------------------------------------------------
LEMMA KeptStays ==
  ASSUME Typed, Kept, Limits, UNCHANGED kept
  PROVE  Kept' /\ Limits'
<1>1. Kept'
  BY DEF Kept, kept, JobKept, WaitKept, AtWorkJob, Terminal, Counted, Pending
<1>2. QED
  BY <1>1 DEF Limits, kept, AtWork

LEMMA LeavesKept ==
  ASSUME Typed, Kept, NEW w \in Waits, NEW state \in {"expired", "aborted"}, Leaves(w, state)
  PROVE  Kept'
<1> USE DEF jobVars, ownerVars, teardown
<1>1. ASSUME NEW j \in Jobs PROVE JobKept(j)'
  <2>1. Terminal(j) => wait[w].job # j
    BY DEF Leaves, Kept, WaitKept
  <2>2. Terminal(j) => Counted(j) \subseteq Counted(j)'
    BY <2>1 DEF Leaves, Counted, Pending, Typed, WaitTypes
  <2>3. QED
    BY <2>2 DEF Leaves, Kept, JobKept, AtWorkJob, Terminal
<1>2. ASSUME NEW v \in Waits PROVE WaitKept(v)'
  <2>1. CASE v = w
    BY <2>1 DEF Leaves, Kept, WaitKept, Terminal, Typed, WaitTypes
  <2>2. CASE v # w
    BY <2>2 DEF Leaves, Kept, WaitKept, Terminal, Typed, WaitTypes
  <2>3. QED
    BY <2>1, <2>2
<1>3. QED
  BY <1>1, <1>2 DEF Kept

LEMMA ReturnsKept ==
  ASSUME Typed, Kept, NEW w \in Waits, WaitReturns(w)
  PROVE  Kept'
<1> DEFINE found == {j \in {wait[w].job} : Terminal(j)}
<1>0. wait[w].job \in Jobs
  BY DEF WaitReturns, Typed, WaitTypes
<1>1. ASSUME NEW j \in Jobs PROVE JobKept(j)'
  <2>1. CASE wait[w].job = j /\ Terminal(j)
    <3>1. j \in reported' /\ told'[j] = told[j] \cup {"answer"}
      BY <2>1 DEF WaitReturns
    <3>2. "notice" \notin told[j]
      BY <2>1 DEF WaitReturns, Kept, WaitKept
    <3>3. QED
      BY <2>1, <3>1, <3>2 DEF WaitReturns, Kept, JobKept, AtWorkJob, Terminal, teardown
  <2>2. CASE ~(wait[w].job = j /\ Terminal(j))
    <3>1. told'[j] = told[j] /\ (j \in reported' <=> j \in reported)
      BY <2>2 DEF WaitReturns, Typed, JobTypes
    <3>2. Terminal(j) => Counted(j) \subseteq Counted(j)'
      BY <2>2 DEF WaitReturns, Counted, Pending, Typed, WaitTypes
    <3>3. QED
      BY <3>1, <3>2 DEF WaitReturns, Kept, JobKept, AtWorkJob, Terminal, teardown
  <2>3. QED
    BY <2>1, <2>2
<1>2. ASSUME NEW v \in Waits PROVE WaitKept(v)'
  <2>1. wait'[v].job = wait[v].job
    BY DEF WaitReturns, Typed, WaitTypes
  <2>2. wait[v].job \in Jobs => ("notice" \in told'[wait[v].job] <=> "notice" \in told[wait[v].job])
    BY DEF WaitReturns
  <2>3. CASE v = w
    <3>1. "notice" \notin told[wait[w].job]
      BY <1>0 DEF WaitReturns, Kept, WaitKept
    <3>2. wait'[w].state = IF found = {} THEN "returned" ELSE "answered"
      BY DEF WaitReturns, Typed, WaitTypes
    <3>3. found # {} => Terminal(wait[w].job)
      OBVIOUS
    <3>4. QED
      BY <2>1, <2>2, <2>3, <3>1, <3>2, <3>3 DEF WaitReturns, WaitKept, Terminal
  <2>4. CASE v # w
    <3>1. wait'[v] = wait[v]
      BY <2>4 DEF WaitReturns, Typed, WaitTypes
    <3>2. QED
      BY <2>2, <3>1 DEF WaitReturns, Kept, WaitKept, Terminal
  <2>5. QED
    BY <2>3, <2>4
<1>3. QED
  BY <1>1, <1>2 DEF Kept

LEMMA WaitBeginsKept ==
  ASSUME Typed, Kept, NEW o \in Owners, NEW j \in Jobs, Wait(o, j)
  PROVE  Kept'
<1> USE DEF jobVars, ownerVars, teardown
<1>1. PICK w \in Waits :
        /\ wait[w].state = "none"
        /\ wait' = [wait EXCEPT ![w] = [job |-> j, by |-> o, state |-> "waiting"]]
  BY DEF Wait
<1>2. ASSUME NEW i \in Jobs PROVE JobKept(i)'
  <2>1. Counted(i) \subseteq Counted(i)'
    BY <1>1 DEF Counted, Pending, Typed, WaitTypes
  <2>2. QED
    BY <2>1 DEF Wait, Kept, JobKept, AtWorkJob, Terminal
<1>3. ASSUME NEW v \in Waits PROVE WaitKept(v)'
  <2>1. CASE v = w
    <3>1. "notice" \notin told[j] /\ ~Terminal(j)
      BY DEF Wait, Kept, JobKept
    <3>2. wait'[v].job = j /\ wait'[v].state = "waiting"
      BY <1>1, <2>1 DEF Typed, WaitTypes
    <3>3. QED
      BY <3>1, <3>2 DEF Wait, WaitKept, Terminal
  <2>2. CASE v # w
    <3>1. wait'[v] = wait[v]
      BY <1>1, <2>2 DEF Typed, WaitTypes
    <3>2. QED
      BY <3>1 DEF Wait, Kept, WaitKept, Terminal
  <2>3. QED
    BY <2>1, <2>2
<1>4. QED
  BY <1>2, <1>3 DEF Kept

LEMMA LearnKept ==
  ASSUME Typed, Kept, NEW o \in Owners, NEW j \in Jobs, Learn(o, j) \/ Kill(o, j)
  PROVE  Kept'
<1> USE DEF jobVars, ownerVars, teardown
<1>1. ASSUME NEW i \in Jobs PROVE JobKept(i)'
  <2>1. Counted(i)' = Counted(i)
    BY DEF Learn, Kill, Counted, Pending
  <2>2. CASE i # j
    BY <2>1, <2>2 DEF Learn, Kill, Kept, JobKept, AtWorkJob, Terminal, Typed, JobTypes
  <2>3. CASE i = j /\ Learn(o, j)
    BY <2>1, <2>3 DEF Learn, Kept, JobKept, AtWorkJob, Terminal, Typed, JobTypes
  <2>4. CASE i = j /\ Kill(o, j)
    BY <2>1, <2>4 DEF Kill, Kept, JobKept, AtWorkJob, Terminal, Accessible, Typed, JobTypes
  <2>5. QED
    BY <2>2, <2>3, <2>4
<1>2. ASSUME NEW v \in Waits PROVE WaitKept(v)'
  <2>1. wait' = wait /\ \A i \in Jobs : "notice" \in told'[i] <=> "notice" \in told[i]
    BY DEF Learn, Kill, Typed, JobTypes
  <2>2. wait[v].state # "none" => wait[v].job \in Jobs
    BY DEF Typed, WaitTypes
  <2>3. \A i \in Jobs : Terminal(i)' <=> Terminal(i)
    BY DEF Learn, Kill, Terminal, Typed, JobTypes
  <2>4. QED
    BY <2>1, <2>2, <2>3 DEF Kept, WaitKept
<1>3. QED
  BY <1>1, <1>2 DEF Kept

LEMMA StartKept ==
  ASSUME Typed, Kept, NEW o \in Owners, Start(o)
  PROVE  Kept'
<1> USE DEF jobVars, ownerVars, teardown
<1>1. PICK j \in Jobs, to \in {o, NoOwner} :
        /\ status[j] = "none"
        /\ owner' = [owner EXCEPT ![j] = to]
        /\ status' = [status EXCEPT ![j] = "running"]
        /\ store' = store \cup {j}
  BY DEF Start
<1>2. ASSUME NEW i \in Jobs PROVE JobKept(i)'
  <2>1. Counted(i)' = Counted(i)
    BY DEF Start, Counted, Pending
  <2>2. CASE i = j
    BY <1>1, <2>1, <2>2 DEF Start, Kept, JobKept, AtWorkJob, Terminal, Typed, JobTypes
  <2>3. CASE i # j
    BY <1>1, <2>1, <2>3 DEF Start, Kept, JobKept, AtWorkJob, Terminal, Typed, JobTypes
  <2>4. QED
    BY <2>2, <2>3
<1>3. ASSUME NEW v \in Waits PROVE WaitKept(v)'
  <2>1. wait[v].state # "none" => wait[v].job \in Jobs
    BY DEF Typed, WaitTypes
  <2>2. \A i \in Jobs : Terminal(i)' <=> Terminal(i)
    BY <1>1 DEF Terminal, Typed, JobTypes
  <2>3. QED
    BY <2>1, <2>2 DEF Start, Kept, WaitKept
<1>4. QED
  BY <1>2, <1>3 DEF Kept

(* A wait that is released keeps its job, and is still counted. *)
LEMMA ResolveKeeps ==
  ASSUME WaitTypes, NEW jobs, Resolve(jobs)
  PROVE  /\ \A j : Counted(j)' = Counted(j)
         /\ \A w \in Waits :
              /\ wait'[w].job = wait[w].job
              /\ wait'[w].state = IF wait[w].job \in jobs /\ wait[w].state = "waiting"
                                 THEN "resolved" ELSE wait[w].state
<1>1. \A w \in Waits :
        /\ wait'[w].job = wait[w].job
        /\ wait'[w].state = IF wait[w].job \in jobs /\ wait[w].state = "waiting"
                           THEN "resolved" ELSE wait[w].state
  BY DEF Resolve, WaitTypes
<1>2. \A j : Counted(j)' = Counted(j)
  BY <1>1 DEF Counted, Pending
<1>3. QED
  BY <1>1, <1>2

LEMMA SettleKept ==
  ASSUME Typed, Kept, NEW j \in Jobs, ProducerSettles(j)
  PROVE  Kept'
<1>1. CASE Terminal(j)
  BY <1>1, KeptStays DEF ProducerSettles, Settle, kept, jobVars, teardown, Kept, JobKept, WaitKept,
     AtWorkJob, Terminal, Counted, Pending
<1>2. CASE ~Terminal(j)
  <2>1. /\ status' = [status EXCEPT ![j] = "over"]
        /\ settled' = [settled EXCEPT ![j] = @ + 1]
        /\ reported' = reported \cup {i \in {j} : Claimed(i)}
        /\ Resolve({j})
        /\ UNCHANGED <<owner, store, registry>>
    BY <1>2 DEF ProducerSettles, Settle, teardown
  <2>2. told' = IF ~Claimed(j) /\ registry = "up" /\ owner[j] # NoOwner
                THEN [told EXCEPT ![j] = @ \cup {"notice"}] ELSE told
    BY <1>2 DEF ProducerSettles, Settle
  <2>3. /\ \A i : Counted(i)' = Counted(i)
        /\ \A w \in Waits :
             /\ wait'[w].job = wait[w].job
             /\ wait'[w].state = IF wait[w].job = j /\ wait[w].state = "waiting"
                                THEN "resolved" ELSE wait[w].state
    BY <2>1, ResolveKeeps DEF Typed
  <2>4. JobKept(j)'
    <3>1. AtWorkJob(j) /\ JobKept(j)
      BY <1>2 DEF ProducerSettles, Kept, AtWorkJob, Terminal, Typed, JobTypes
    <3>2. Terminal(j)' /\ ~AtWorkJob(j)' /\ settled'[j] = 1
      BY <1>2, <2>1, <3>1 DEF Terminal, AtWorkJob, JobKept, Typed, JobTypes
    <3>3. CASE told' = told
      <4>1. told'[j] # {} \/ Counted(j)' # {} \/ owner'[j] = NoOwner
        BY <1>2, <2>1, <2>2, <2>3, <3>1, <3>3 DEF JobKept, Claimed, Typed, JobTypes
      <4>2. told'[j] \cap {"kill", "teardown"} # {} => j \in reported'
        BY <2>1, <3>1, <3>3 DEF JobKept
      <4>3. "notice" \notin told'[j]
        BY <1>2, <3>1, <3>3 DEF JobKept
      <4>4. QED
        BY <3>2, <4>1, <4>2, <4>3 DEF JobKept, Terminal
    <3>4. CASE ~Claimed(j) /\ told' = [told EXCEPT ![j] = @ \cup {"notice"}]
      <4>1. told'[j] = told[j] \cup {"notice"} /\ told[j] \cap {"kill", "teardown"} = {}
        BY <3>1, <3>4 DEF Claimed, JobKept, Typed, JobTypes
      <4>2. QED
        BY <3>2, <4>1 DEF JobKept, Terminal
    <3>5. QED
      BY <2>2, <3>3, <3>4
  <2>5. ASSUME NEW i \in Jobs, i # j PROVE JobKept(i)'
    <3>1. told'[i] = told[i] /\ status'[i] = status[i] /\ settled'[i] = settled[i]
      BY <2>1, <2>2, <2>5 DEF Typed, JobTypes
    <3>2. i \in reported' <=> i \in reported
      BY <2>1, <2>5
    <3>3. QED
      BY <2>1, <2>3, <3>1, <3>2 DEF Kept, JobKept, AtWorkJob, Terminal
  <2>6. ASSUME NEW w \in Waits PROVE WaitKept(w)'
    <3>1. wait[w].state # "none" => wait[w].job \in Jobs
      BY DEF Typed, WaitTypes
    <3>2. \A i \in Jobs : Terminal(i)' <=> (Terminal(i) \/ i = j)
      BY <2>1 DEF Terminal, Typed, JobTypes
    <3>3. CASE wait[w].job = j
      <4>1. wait[w].state = "waiting" \/ Claimed(j) \/ told'[j] = told[j]
             \/ wait[w].state \in {"returned", "aborted"}
        BY <1>2, <3>3 DEF Claimed, Counted, Pending, Kept, WaitKept, Typed, WaitTypes, Jobs, NoJob
      <4>2. ~Claimed(j) => ~Pending(w)
        BY <3>3 DEF Claimed, Counted
      <4>3. wait[w].state # "none"
        BY <3>3 DEF Typed, WaitTypes, Jobs, NoJob
      <4>4. wait[w].state # "answered" /\ "notice" \notin told[j]
        BY <1>2, <3>3 DEF Kept, WaitKept, JobKept
      <4>5. "notice" \in told'[j] => wait[w].state \in {"returned", "aborted"}
        BY <2>2, <4>2, <4>3, <4>4 DEF Pending, Typed, WaitTypes
      <4>6. "notice" \in told'[j] => wait'[w].state \in {"returned", "aborted"}
        BY <2>3, <4>5
      <4>7. wait'[w].state # "waiting" /\ wait'[w].state # "answered"
        BY <2>3, <3>3, <4>4
      <4>8. QED
        BY <2>3, <3>3, <4>6, <4>7 DEF WaitKept
    <3>4. CASE wait[w].job # j
      <4>1. wait'[w].state = wait[w].state /\ wait'[w].job = wait[w].job
        BY <2>3, <3>4
      <4>2. wait[w].job \in Jobs => told'[wait[w].job] = told[wait[w].job]
        BY <2>2, <3>4 DEF Typed, JobTypes
      <4>3. QED
        BY <3>1, <3>2, <3>4, <4>1, <4>2 DEF Kept, WaitKept
    <3>5. QED
      BY <3>3, <3>4
  <2>7. QED
    BY <2>4, <2>5, <2>6 DEF Kept
<1>3. QED
  BY <1>1, <1>2

-----------------------------------------------------------------------------
(* A teardown takes the reports of all the jobs it stops; the registry     *)
(* closes only over all of them.                                           *)
LEMMA CancelKept ==
  ASSUME Typed, Kept, NEW jobs \in SUBSET store, CancelForTeardown(jobs),
         registry' = registry \/ jobs = store
  PROVE  Kept'
<1> DEFINE doomed == {j \in jobs : ~Terminal(j)}
<1>1. PICK throwing \in SUBSET doomed :
        /\ status' = [j \in Jobs |-> IF j \in throwing THEN "over"
                                     ELSE IF j \in doomed THEN "stopping" ELSE status[j]]
        /\ settled' = [j \in Jobs |-> IF j \in throwing THEN settled[j] + 1 ELSE settled[j]]
        /\ reported' = reported \cup doomed
        /\ told' = [j \in Jobs |-> IF j \in doomed THEN told[j] \cup {"teardown"} ELSE told[j]]
        /\ orphans' = orphans \cup throwing
        /\ Resolve(throwing)
        /\ UNCHANGED <<owner, store, ownerVars>>
  BY DEF CancelForTeardown
<1>2. /\ \A i : Counted(i)' = Counted(i)
      /\ \A w \in Waits :
           /\ wait'[w].job = wait[w].job
           /\ wait'[w].state = IF wait[w].job \in throwing /\ wait[w].state = "waiting"
                              THEN "resolved" ELSE wait[w].state
  BY <1>1, ResolveKeeps DEF Typed
<1>3. ASSUME NEW i \in Jobs PROVE JobKept(i)'
  <2>1. CASE i \in throwing
    <3>1. ~Terminal(i) /\ i \in store /\ i \in reported'
      BY <1>1, <2>1
    <3>2. Terminal(i)' /\ ~AtWorkJob(i)' /\ told'[i] = told[i] \cup {"teardown"}
      BY <1>1, <2>1 DEF Terminal, AtWorkJob
    <3>3. settled'[i] = 1 /\ "notice" \notin told[i]
      BY <1>1, <2>1, <3>1 DEF Kept, JobKept
    <3>4. QED
      BY <3>1, <3>2, <3>3 DEF JobKept, Terminal
  <2>2. CASE i \in doomed /\ i \notin throwing
    <3>1. ~Terminal(i) /\ i \in store /\ i \in reported'
      BY <1>1, <2>2
    <3>2. ~Terminal(i)' /\ told'[i] = told[i] \cup {"teardown"} /\ settled'[i] = settled[i]
      BY <1>1, <2>2 DEF Terminal
    <3>3. settled[i] = 0 /\ "notice" \notin told[i] /\ i \in store'
      BY <1>1, <3>1 DEF Kept, JobKept
    <3>4. status'[i] = "stopping"
      BY <1>1, <2>2
    <3>5. QED
      BY <3>1, <3>2, <3>3, <3>4 DEF JobKept
  <2>3. CASE i \notin doomed
    <3>1. /\ status'[i] = status[i] /\ settled'[i] = settled[i] /\ told'[i] = told[i]
          /\ (i \in reported' <=> i \in reported)
      BY <1>1, <2>3
    <3>2. AtWorkJob(i) /\ registry' # registry => FALSE
      BY <2>3 DEF Kept, JobKept, AtWorkJob, Terminal
    <3>3. QED
      BY <1>1, <1>2, <3>1, <3>2 DEF Kept, JobKept, AtWorkJob, Terminal
  <2>4. QED
    BY <2>1, <2>2, <2>3
<1>4. ASSUME NEW w \in Waits PROVE WaitKept(w)'
  <2>1. wait[w].state # "none" => wait[w].job \in Jobs
    BY DEF Typed, WaitTypes
  <2>2. \A i \in Jobs : Terminal(i)' <=> (Terminal(i) \/ i \in throwing)
    BY <1>1 DEF Terminal
  <2>3. \A i \in Jobs : "notice" \in told'[i] => "notice" \in told[i]
    BY <1>1
  <2>4. QED
    BY <1>2, <2>1, <2>2, <2>3 DEF Kept, WaitKept
<1>5. QED
  BY <1>3, <1>4 DEF Kept

LEMMA CancelWork ==
  ASSUME Typed, Kept, NEW jobs \in SUBSET store, CancelForTeardown(jobs)
  PROVE  \A o : AtWork(o)' \subseteq AtWork(o)
<1> DEFINE doomed == {j \in jobs : ~Terminal(j)}
<1>1. PICK throwing \in SUBSET doomed :
        /\ status' = [j \in Jobs |-> IF j \in throwing THEN "over"
                                     ELSE IF j \in doomed THEN "stopping" ELSE status[j]]
        /\ UNCHANGED owner
  BY DEF CancelForTeardown
<1>2. \A j \in doomed : status[j] \in {"running", "stopping"}
  BY DEF Kept, JobKept, Terminal, Typed, JobTypes
<1>3. QED
  BY <1>1, <1>2 DEF AtWork

(* Only settled jobs leave the registry. *)
LEMMA DisposedKept ==
  ASSUME Typed, Kept, AllDisposed \/ \E o \in Owners : OwnerDisposed(o)
  PROVE  Kept'
<1>1. UNCHANGED <<status, owner, reported, settled, wait, told>>
  BY DEF AllDisposed, OwnerDisposed
<1>2. registry # "up" <=> registry' # "up"
  BY DEF AllDisposed, OwnerDisposed
<1>3. store' \subseteq store /\ \A j \in store : ~Terminal(j) => j \in store'
  BY DEF AllDisposed, OwnerDisposed
<1>4. ASSUME NEW j \in Jobs PROVE JobKept(j)'
  <2>1. Counted(j)' = Counted(j)
    BY <1>1 DEF Counted, Pending
  <2>2. AtWorkJob(j) => ~Terminal(j)
    BY DEF AtWorkJob, Terminal
  <2>3. QED
    BY <1>1, <1>2, <1>3, <2>1, <2>2 DEF Kept, JobKept, AtWorkJob, Terminal
<1>5. ASSUME NEW w \in Waits PROVE WaitKept(w)'
  BY <1>1 DEF Kept, WaitKept, Terminal
<1>6. QED
  BY <1>4, <1>5 DEF Kept

-----------------------------------------------------------------------------
LEMMA AccountedInit == Init => Kept /\ Limits
<1> SUFFICES ASSUME Init PROVE Kept /\ Limits
  OBVIOUS
<1>1. Kept
  BY DEF Init, Kept, JobKept, WaitKept, AtWorkJob, Terminal, Jobs, NoJob
<1>2. ASSUME NEW o PROVE AtWork(o) = {}
  BY DEF Init, AtWork
<1>3. QED
  BY <1>1, <1>2, FS_EmptySet, JobsAssumption DEF Limits

LEMMA AccountedStep ==
  ASSUME Typed, Kept, Limits, [Next]_vars
  PROVE  Kept' /\ Limits'
<1> USE DEF jobVars, ownerVars, teardown
<1>1. CASE \E w \in Waits : WaitExpires(w) \/ WaitAborts(w)
  <2>1. Kept'
    BY <1>1, LeavesKept DEF WaitExpires, WaitAborts
  <2>2. \A o : AtWork(o)' = AtWork(o)
    BY <1>1 DEF WaitExpires, WaitAborts, Leaves, AtWork
  <2>3. QED
    BY <2>1, <2>2, LimitsStay
<1>2. CASE \E w \in Waits : WaitReturns(w)
  <2>1. \A o : AtWork(o)' = AtWork(o)
    BY <1>2 DEF WaitReturns, AtWork
  <2>2. QED
    BY <1>2, <2>1, ReturnsKept, LimitsStay
<1>3. CASE \E j \in Jobs : ProducerSettles(j)
  <2>1. \A o : AtWork(o)' \subseteq AtWork(o)
    BY <1>3 DEF ProducerSettles, Settle, AtWork, Typed, JobTypes
  <2>2. QED
    BY <1>3, <2>1, SettleKept, LimitsStay
<1>4. CASE AllDisposed \/ \E o \in Owners : OwnerDisposed(o)
  <2>1. \A o : AtWork(o)' = AtWork(o)
    BY <1>4 DEF AllDisposed, OwnerDisposed, AtWork
  <2>2. QED
    BY <1>4, <2>1, DisposedKept, LimitsStay
<1>5. CASE DisposeAll
  <2>1. Kept'
    BY <1>5, CancelKept DEF DisposeAll
  <2>2. \A o : AtWork(o)' \subseteq AtWork(o)
    BY <1>5, CancelWork DEF DisposeAll, Typed, JobTypes
  <2>3. QED
    BY <2>1, <2>2, LimitsStay
<1>6. ASSUME NEW o \in Owners, DisposeOwner(o) PROVE Kept' /\ Limits'
  <2>1. OwnedBy(o) \in SUBSET store
    BY DEF OwnedBy
  <2>2. Kept'
    BY <1>6, <2>1, CancelKept DEF DisposeOwner
  <2>3. \A p : AtWork(p)' \subseteq AtWork(p)
    BY <1>6, <2>1, CancelWork DEF DisposeOwner, Typed, JobTypes
  <2>4. QED
    BY <2>2, <2>3, LimitsStay
<1>7. ASSUME NEW o \in Owners, Start(o) PROVE Kept' /\ Limits'
  BY <1>7, StartKept, StartLimits
<1>8. ASSUME NEW o \in Owners,
             PersonHeard(o) \/ StepClaims(o) \/ TurnDrains(o) \/ TurnEnds(o)
      PROVE  Kept' /\ Limits'
  BY <1>8, KeptStays DEF PersonHeard, StepClaims, TurnDrains, TurnEnds, kept
<1>9. ASSUME NEW o \in Owners, NEW j \in Jobs, Learn(o, j) \/ Kill(o, j)
      PROVE  Kept' /\ Limits'
  <2>1. \A p : AtWork(p)' \subseteq AtWork(p)
    BY <1>9 DEF Learn, Kill, Accessible, Kept, JobKept, AtWork, AtWorkJob, Terminal, Typed, JobTypes
  <2>2. QED
    BY <1>9, <2>1, LearnKept, LimitsStay
<1>10. ASSUME NEW o \in Owners, NEW j \in Jobs, Wait(o, j) PROVE Kept' /\ Limits'
  <2>1. \A p : AtWork(p)' = AtWork(p)
    BY <1>10 DEF Wait, AtWork
  <2>2. QED
    BY <1>10, <2>1, WaitBeginsKept, LimitsStay
<1>11. CASE UNCHANGED vars
  BY <1>11, KeptStays DEF vars, kept
<1>12. QED
  BY <1>1, <1>2, <1>3, <1>4, <1>5, <1>6, <1>7, <1>8, <1>9, <1>10, <1>11, NextCases

LEMMA AccountedFollows ==
  ASSUME Typed, Kept, Limits
  PROVE  JobsAccounted
<1>1. ASSUME NEW o \in Owners \cup {NoOwner}
      PROVE  AtWork(o) \subseteq store /\ Cardinality(AtWork(o)) <= Limit
  BY DEF Limits, AtWork, Kept, JobKept, AtWorkJob
<1>2. ASSUME NEW j \in Jobs
      PROVE  /\ settled[j] <= 1
             /\ Terminal(j) /\ owner[j] # NoOwner => told[j] # {} \/ Counted(j) # {}
             /\ "notice" \in told[j] =>
                  /\ told[j] \cap {"kill", "teardown"} = {}
                  /\ \A w \in Waits : wait[w].job = j => wait[w].state \in {"returned", "aborted"}
  BY DEF Kept, JobKept, WaitKept
<1>3. QED
  BY <1>1, <1>2 DEF JobsAccounted

(* Whatever the producers, the waits and the teardowns do, every job at    *)
(* work takes up its owner's limit, settles at most once, and becomes      *)
(* known exactly as its settlement claimed it (jobs-local, settle and      *)
(* cancelForTeardown).                                                     *)
THEOREM JobsAreAccounted == Spec => []JobsAccounted
<1>1. Init => Typed /\ Kept /\ Limits
  BY TypesInit, AccountedInit DEF Typed
<1>2. Typed /\ Kept /\ Limits /\ [Next]_vars => (Typed /\ Kept /\ Limits)'
  BY TypesStep, AccountedStep DEF Typed
<1>3. Typed /\ Kept /\ Limits => JobsAccounted
  BY AccountedFollows
<1>4. QED
  BY <1>1, <1>2, <1>3, PTL DEF Spec

=============================================================================
