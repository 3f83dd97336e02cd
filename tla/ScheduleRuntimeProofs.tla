------------------------ MODULE ScheduleRuntimeProofs ------------------------
(***************************************************************************)
(* ScheduleRuntime proved for every number of instants, rates, calls,      *)
(* turns and crashes: types, that the log replays and tells of each        *)
(* occurrence once in a life, and that the runtime acts on what is durable.*)
(*                                                                         *)
(* The log is read by a fold and cut by crashes.  Good says of every       *)
(* prefix of a log what the fold reads of it; an event that Fits keeps it, *)
(* and the tools and the runtime append only such events.                  *)
(***************************************************************************)
EXTENDS ScheduleRuntime, SequenceTheorems, FiniteSetTheorems, WellFoundedInduction, TLAPS

(* Every set of naturals that is not empty has a least element. *)
LEMMA Least ==
  ASSUME NEW T \in SUBSET Nat, T # {}
  PROVE  \E m \in T : \A n \in T : m <= n
<1>1. PICK m \in T : \A n \in T : ~(<<n, m>> \in OpToRel(<, Nat))
  BY WFMin, NatLessThanWellFounded
<1>2. \A n \in T : ~(n < m)
  BY <1>1 DEF OpToRel
<1>3. QED
  BY <1>2

(* The states a fold goes through: one for each prefix of the log. *)
Path(g, d, h, n) == g[0] = d /\ \A i \in 1..n : g[i] = h[i][g[i - 1]]

(* A fold by total functions has such a course of states. *)
LEMMA PathExists ==
  ASSUME NEW D, NEW d \in D, NEW n \in Nat, NEW h \in [1..n -> [D -> D]]
  PROVE  \E g \in [0..n -> D] : Path(g, d, h, n)
<1> DEFINE Stuck == {k \in 0..n : ~ \E g \in [0..k -> D] : Path(g, d, h, k)}
<1>1. CASE Stuck = {}
  <2>1. n \in 0..n
    OBVIOUS
  <2>2. QED
    BY <1>1, <2>1
<1>2. CASE Stuck # {}
  <2>1. Stuck \in SUBSET Nat
    OBVIOUS
  <2>2. PICK k \in Stuck : \A j \in Stuck : k <= j
    BY <1>2, <2>1, Least
  <2>3. k \in 0..n /\ ~ \E g \in [0..k -> D] : Path(g, d, h, k)
    OBVIOUS
  <2> HIDE DEF Stuck
  <2>4. CASE k = 0
    <3> DEFINE f == [i \in 0..0 |-> d]
    <3>1. f \in [0..k -> D] /\ Path(f, d, h, k)
      BY <2>4 DEF Path
    <3>2. QED
      BY <2>3, <3>1
  <2>5. CASE k # 0
    <3>1. k - 1 \in 0..n /\ k - 1 \notin Stuck
      BY <2>2, <2>3, <2>5
    <3>2. PICK g \in [0..k - 1 -> D] : Path(g, d, h, k - 1)
      BY <3>1 DEF Stuck
    <3> DEFINE f == [i \in 0..k |-> IF i = k THEN h[k][g[k - 1]] ELSE g[i]]
    <3>3. k \in 1..n /\ k - 1 \in 0..k - 1
      BY <2>3, <2>5
    <3>4. h[k] \in [D -> D] /\ g[k - 1] \in D
      BY <3>2, <3>3
    <3>5. h[k][g[k - 1]] \in D
      BY <3>4
    <3>6. f \in [0..k -> D]
      <4>1. \A i \in 0..k : i # k => i \in 0..k - 1
        BY <3>3
      <4>2. QED
        BY <3>2, <3>5, <4>1
    <3>7. f[0] = d /\ f[k] = h[k][g[k - 1]]
      BY <3>2, <3>3 DEF Path
    <3>8. ASSUME NEW i \in 1..k
          PROVE  f[i] = h[i][f[i - 1]]
      <4>1. i - 1 \in 0..k - 1 /\ f[i - 1] = g[i - 1]
        BY <3>3
      <4>2. CASE i = k
        BY <3>7, <4>1, <4>2
      <4>3. CASE i # k
        <5>1. i \in 1..k - 1 /\ f[i] = g[i]
          BY <3>3, <4>3
        <5>2. QED
          BY <3>2, <4>1, <5>1 DEF Path
      <4>4. QED
        BY <4>2, <4>3
    <3> HIDE DEF f
    <3>9. Path(f, d, h, k)
      BY <3>7, <3>8 DEF Path
    <3>10. QED
      BY <2>3, <3>6, <3>9
  <2>6. QED
    BY <2>4, <2>5
<1>3. QED
  BY <1>1, <1>2

-----------------------------------------------------------------------------
(* A fold state: what foldScheduleEvents read of a log. *)
RecordType == [id : Nat, at : Int, every : Nat]
StateType == [ok : BOOLEAN, seen : SUBSET Nat, active : SUBSET RecordType]
Fresh == [ok |-> TRUE, seen |-> {}, active |-> {}]

(* What the fold of a replayable log has read.                             *)
Sound(s) ==
  /\ s.ok /\ s.seen = 1..Cardinality(s.seen) /\ IsFiniteSet(s.seen)
  /\ IsFiniteSet(s.active)
  /\ \A r \in s.active : r.id \in s.seen /\ r.at \in Nat
  /\ \A r, q \in s.active : r.id = q.id => r = q

(* What was dispatched was of a known id, and lies before what the id has  *)
(* still to come.                                                          *)
Past(l, s) ==
  \A i \in 1..Len(l) : l[i].op = "dispatch" => \A o \in l[i].due :
     o[1] \in s.seen /\ \A r \in s.active : r.id = o[1] => o[2] < r.at

(* Both hold of every prefix, hence of whatever a crash leaves.            *)
Reads(l) == Sound(Fold(l)) /\ Past(l, Fold(l))
Prefix(l, k) == SubSeq(l, 1, k)
Good(l) == \A k \in 0..Len(l) : Reads(Prefix(l, k))

(* A change of the records tells of nothing; a dispatch of what was put in *)
(* the inbox before; a reminder of nothing already dispatched, nor of what *)
(* a reminder of the same life told of.                                    *)
Speaks(l) ==
  \A i \in 1..Len(l) :
    /\ l[i].op \in {"create", "delete"} => l[i].due = {}
    /\ l[i].op = "dispatch" => \A o \in l[i].due : \E j \in 1..(i - 1) : l[j].op = "remind" /\ o \in l[j].due
    /\ l[i].op = "remind" => \A j \in 1..(i - 1) : l[j].due \cap l[i].due # {} =>
         l[j].op = "remind" /\ l[j].life < l[i].life

(* This life's reminders were dispatched, unless an append failed.         *)
Lives(l, life) == \A i \in 1..Len(l) : l[i].life <= life
Answered(l, life) ==
  \A j \in 1..Len(l) : l[j].op = "remind" /\ l[j].life = life =>
     \A o \in l[j].due : \E i \in 1..Len(l) : l[i].op = "dispatch" /\ o \in l[i].due

(* Where the first transaction of the line stands; a runtime that failed   *)
(* has no drive in the line but the one that failed.                       *)
Lines ==
  /\ line \in Seq(TransactionType)
  /\ \A i, j \in DOMAIN line : line[i] = Drive /\ line[j] = Drive => i = j
  /\ stage \in {"waiting", "preflight", "queued", "barrier"} /\ (line = <<>> => stage = "waiting")
  /\ agent = "ours" <=> stage = "queued"
  /\ stage = "queued" => line # <<>> /\ Head(line) = Drive
  /\ faulted => \A i \in DOMAIN line : line[i] = Drive => i = 1 /\ stage = "queued"

(* A flush in progress covers the whole log. *)
Covers ==
  /\ log \in Seq(EventType)
  /\ saved \in 0..Len(log) /\ mark \in 0..Len(log)
  /\ stage \in {"preflight", "barrier"} => mark = Len(log)

(* The types of the rest. *)
Counts ==
  now \in 0..LastInstant /\ sets \in Nat /\ calls \in Nat /\ works \in Nat /\ crashes \in Nat
Timed == timer \in -1..MaxDelay /\ (stopping => timer = Off)
Flags ==
  /\ requested \in BOOLEAN /\ idleWait \in BOOLEAN /\ stopping \in BOOLEAN
  /\ faulted \in BOOLEAN /\ missed \in BOOLEAN
AgentTyped ==
  agent \in {"idle", "turn", "job", "ours"} /\ aborted \in BOOLEAN /\ woken \in BOOLEAN
Plain == Counts /\ Timed /\ Flags /\ AgentTyped

(* What is in the log. *)
Records ==
  /\ Good(log) /\ Speaks(log) /\ Lives(log, crashes)
  /\ ~faulted => Answered(log, crashes)

IInv == TypeOK /\ Lines /\ Covers /\ Records

-----------------------------------------------------------------------------
(* A rate's latest occurrence lies between its target and the instant.     *)
LEMMA OccurrenceBounds ==
  ASSUME NEW r \in RecordType, NEW n \in Int, r.every # 0
  PROVE  /\ Occurrence(r, n) \in Int
         /\ r.at <= n => r.at <= Occurrence(r, n) /\ Occurrence(r, n) <= n
<1> DEFINE e == r.every
           a == r.at
           d == n - a
<1>1. e \in Nat \ {0} /\ a \in Int /\ d \in Int
  BY DEF RecordType
<1> HIDE DEF e, a
<1>2. /\ (d \div e) \in Int /\ (d % e) \in 0..e - 1
      /\ d = e * (d \div e) + (d % e)
  BY <1>1
<1>3. ASSUME NEW q \in Int, NEW m \in Int, 0 <= m, m < e, d = e * q + m, 0 <= d
      PROVE  q * e \in Int /\ 0 <= q * e /\ q * e <= d
  <2>1. q * e = e * q /\ q * e \in Int
    BY <1>1
  <2>2. CASE 0 <= q
    <3>1. 0 <= q * e
      BY <1>1, <2>2
    <3>2. QED
      BY <1>3, <2>1, <3>1
  <2>3. CASE q < 0
    <3>1. e * q + e = e * (q + 1)
      BY <1>1
    <3>2. 0 <= -(q + 1)
      BY <2>3
    <3>3. 0 <= e * (-(q + 1))
      BY <1>1, <3>2
    <3>4. e * (-(q + 1)) = -(e * (q + 1))
      BY <1>1
    <3>5. e * q + e <= 0
      BY <1>1, <3>1, <3>3, <3>4
    <3>6. QED
      BY <1>1, <1>3, <3>5
  <2>4. QED
    BY <2>2, <2>3
<1>4. ASSUME 0 <= d
      PROVE  (d \div e) * e \in Int /\ 0 <= (d \div e) * e /\ (d \div e) * e <= d
  BY <1>1, <1>2, <1>3, <1>4
<1>5. (d \div e) * e \in Int
  BY <1>1, <1>2
<1>6. Occurrence(r, n) = a + (d \div e) * e
  BY DEF Occurrence, e, a
<1> DEFINE p == (d \div e) * e
<1> HIDE DEF p
<1>7. /\ p \in Int /\ (0 <= d => 0 <= p /\ p <= d)
      /\ Occurrence(r, n) = a + p
  BY <1>4, <1>5, <1>6 DEF p
<1>8. Occurrence(r, n) \in Int
  BY <1>1, <1>7
<1>9. ASSUME a <= n
      PROVE  a <= Occurrence(r, n) /\ Occurrence(r, n) <= n
  BY <1>1, <1>7, <1>9
<1>10. QED
  BY <1>8, <1>9 DEF a

(* One event keeps the type of what was read. *)
LEMMA ApplyTyped ==
  ASSUME NEW s \in StateType, NEW e \in EventType
  PROVE  Apply(s, e) \in StateType
<1> DEFINE named == {r \in s.active : r.id = e.id}
           fits(r) == (r.every = 0) = (e.at = Off) /\ (r.every > 0 => e.at >= r.at)
<1>0. e.id \in Nat /\ e.at \in Int /\ e.every \in Nat /\ s.active \in SUBSET RecordType
  BY DEF EventType, StateType, Off
<1>1. CASE e.op = "create"
  BY <1>0, <1>1 DEF Apply, StateType, RecordType
<1>2. CASE e.op = "delete"
  BY <1>2 DEF Apply, StateType
<1>3. CASE e.op = "dispatch"
  <2>1. ASSUME NEW r \in named
        PROVE  Replace(s.active, r, e.at) \in SUBSET RecordType
    <3>1. r \in RecordType
      BY <1>0
    <3>2. CASE r.every = 0
      BY <1>0, <3>2 DEF Replace
    <3>3. CASE r.every # 0
      <4>1. Occurrence(r, e.at) + r.every \in Int
        BY <1>0, <3>1, <3>3, OccurrenceBounds DEF RecordType
      <4>2. [r EXCEPT !.at = Occurrence(r, e.at) + r.every] \in RecordType
        BY <3>1, <4>1 DEF RecordType
      <4>3. QED
        BY <1>0, <3>3, <4>2 DEF Replace
    <3>4. QED
      BY <3>2, <3>3
  <2>2. UNION {Replace(s.active, r, e.at) : r \in named} \in SUBSET RecordType
    BY <2>1
  <2>3. Apply(s, e) = [s EXCEPT !.ok = @ /\ named # {} /\ \A r \in named : fits(r),
                          !.active = IF \A r \in named : fits(r)
                                     THEN UNION {Replace(s.active, r, e.at) : r \in named}
                                     ELSE @]
    BY <1>3 DEF Apply
  <2>4. QED
    <3> HIDE DEF named, fits
    <3>1. QED
      BY <2>2, <2>3 DEF StateType
<1>4. CASE e.op = "remind"
  BY <1>4 DEF Apply
<1>5. QED
  BY <1>1, <1>2, <1>3, <1>4 DEF EventType

(* Reading starts within its type. *)
LEMMA FreshTyped == Fresh \in StateType
BY DEF Fresh, StateType

(* A course that starts afresh and advances by each event ends in Fold. *)
LEMMA FoldCourse ==
  ASSUME NEW l \in Seq(EventType), NEW g \in [0..Len(l) -> StateType],
         g[0] = Fresh, \A i \in 1..Len(l) : g[i] = Apply(g[i - 1], l[i])
  PROVE  Fold(l) = g[Len(l)]
<1> DEFINE n == Len(l)
           Course(f) == f = [i \in 0..n |-> IF i = 0 THEN Fresh
                                ELSE CHOOSE after \in {Apply(before, l[i]) : before \in {f[i - 1]}} : TRUE]
<1>1. ASSUME NEW i \in 1..n, NEW x
      PROVE  (CHOOSE after \in {Apply(before, l[i]) : before \in {x}} : TRUE) = Apply(x, l[i])
  OBVIOUS
<1>2. Course(g)
  <2> DEFINE f == [i \in 0..n |-> IF i = 0 THEN Fresh
                      ELSE CHOOSE after \in {Apply(before, l[i]) : before \in {g[i - 1]}} : TRUE]
  <2>1. ASSUME NEW i \in 0..n
        PROVE  f[i] = g[i]
    <3>1. CASE i = 0
      BY <3>1
    <3>2. CASE i # 0
      <4>1. i \in 1..n
        BY <3>2
      <4>2. f[i] = CHOOSE after \in {Apply(before, l[i]) : before \in {g[i - 1]}} : TRUE
        BY <3>2
      <4>3. QED
        BY <1>1, <4>1, <4>2
    <3>3. QED
      BY <3>1, <3>2
  <2>2. f \in [0..n -> StateType]
    BY <2>1
  <2>3. g \in [0..n -> StateType]
    OBVIOUS
  <2> HIDE DEF f
  <2>4. g = f
    BY <2>1, <2>2, <2>3
  <2>5. QED
    BY <2>4 DEF f
<1> DEFINE u == CHOOSE f : Course(f)
<1>3. Course(u)
  BY <1>2
<1>4. Fold(l) = u[n]
  BY DEF Fold, Fresh
<1>5. n \in Nat
  OBVIOUS
<1>6. ASSUME NEW i \in 0..n
      PROVE  u[i] = IF i = 0 THEN Fresh
                    ELSE CHOOSE after \in {Apply(before, l[i]) : before \in {u[i - 1]}} : TRUE
  BY <1>3
<1> HIDE DEF u, n
<1>7. \A i \in 1..n : u[i] = Apply(u[i - 1], l[i])
  BY <1>1, <1>6
<1>8. u[0] = Fresh
  BY <1>5, <1>6
<1> DEFINE Wrong == {i \in 0..n : u[i] # g[i]}
<1>9. CASE Wrong = {}
  BY <1>4, <1>5, <1>9 DEF n
<1>10. CASE Wrong # {}
  <2>1. Wrong \in SUBSET Nat
    OBVIOUS
  <2>2. PICK k \in Wrong : \A j \in Wrong : k <= j
    BY <1>10, <2>1, Least
  <2>3. k \in 0..n /\ u[k] # g[k]
    OBVIOUS
  <2>4. k # 0
    BY <1>8, <2>3
  <2>5. k \in 1..n /\ k - 1 \in 0..n /\ k - 1 \notin Wrong
    BY <1>5, <2>2, <2>3, <2>4
  <2>6. u[k - 1] = g[k - 1]
    BY <2>5
  <2>7. g[k] = Apply(g[k - 1], l[k])
    BY <2>5 DEF n
  <2>8. QED
    BY <1>7, <2>3, <2>5, <2>6, <2>7
<1>11. QED
  BY <1>9, <1>10

(* Every log has such a course. *)
LEMMA FoldExists ==
  ASSUME NEW l \in Seq(EventType)
  PROVE  \E g \in [0..Len(l) -> StateType] :
           /\ g[0] = Fresh /\ \A i \in 1..Len(l) : g[i] = Apply(g[i - 1], l[i])
           /\ Fold(l) = g[Len(l)]
<1> DEFINE n == Len(l)
           h == [i \in 1..n |-> [x \in StateType |-> Apply(x, l[i])]]
<1>1. n \in Nat /\ \A i \in 1..n : l[i] \in EventType
  OBVIOUS
<1>2. h \in [1..n -> [StateType -> StateType]]
  BY <1>1, ApplyTyped
<1>3. Fresh \in StateType
  BY FreshTyped
<1>4. PICK g \in [0..n -> StateType] : Path(g, Fresh, h, n)
  <2> HIDE DEF n, h
  <2>1. QED
    BY <1>1, <1>2, <1>3, PathExists
<1>5. ASSUME NEW i \in 1..n
      PROVE  g[i] = Apply(g[i - 1], l[i])
  <2>1. i - 1 \in 0..n /\ g[i - 1] \in StateType
    BY <1>1
  <2>2. g[i] = h[i][g[i - 1]]
    BY <1>4 DEF Path
  <2>3. QED
    BY <2>1, <2>2
<1>6. g[0] = Fresh
  BY <1>4 DEF Path
<1>7. Fold(l) = g[n]
  <2>1. g \in [0..Len(l) -> StateType] /\ \A i \in 1..Len(l) : g[i] = Apply(g[i - 1], l[i])
    BY <1>5
  <2>2. QED
    BY <2>1, <1>6, FoldCourse
<1>8. QED
  BY <1>5, <1>6, <1>7

(* One event more advances the fold of the log by that event. *)
LEMMA FoldAppend ==
  ASSUME NEW l \in Seq(EventType), NEW e \in EventType
  PROVE  /\ Fold(l) \in StateType
         /\ Fold(Append(l, e)) = Apply(Fold(l), e)
<1>1. PICK g \in [0..Len(l) -> StateType] :
         /\ g[0] = Fresh /\ \A i \in 1..Len(l) : g[i] = Apply(g[i - 1], l[i])
         /\ Fold(l) = g[Len(l)]
  BY FoldExists
<1> DEFINE n == Len(l)
           m == Append(l, e)
           f == [i \in 0..n + 1 |-> IF i = n + 1 THEN Apply(g[n], e) ELSE g[i]]
<1>2. /\ n \in Nat /\ m \in Seq(EventType) /\ Len(m) = n + 1 /\ m[n + 1] = e
      /\ \A i \in 1..n : m[i] = l[i]
  OBVIOUS
<1>3. g[n] \in StateType /\ Apply(g[n], e) \in StateType
  BY <1>2, ApplyTyped
<1>4. \A i \in 0..n + 1 : i # n + 1 => i \in 0..n
  BY <1>2
<1>5. f \in [0..Len(m) -> StateType]
  <2> HIDE DEF m
  <2>1. QED
    BY <1>2, <1>3, <1>4
<1>6. f[0] = Fresh /\ f[n + 1] = Apply(g[n], e) /\ \A i \in 0..n : f[i] = g[i]
  BY <1>1, <1>2
<1> HIDE DEF f, m, n
<1>7. ASSUME NEW i \in 1..Len(m)
      PROVE  f[i] = Apply(f[i - 1], m[i])
  <2>1. i - 1 \in 0..n /\ f[i - 1] = g[i - 1]
    BY <1>2, <1>6
  <2>2. CASE i = n + 1
    <3>1. i - 1 = n /\ m[i] = e
      BY <1>2, <2>2
    <3>2. QED
      BY <1>6, <2>1, <2>2, <3>1
  <2>3. CASE i # n + 1
    <3>1. i \in 1..n /\ i \in 0..n
      BY <1>2, <2>3
    <3>2. g[i] = Apply(g[i - 1], l[i])
      BY <1>1, <3>1 DEF n
    <3>3. QED
      BY <1>2, <1>6, <2>1, <3>1, <3>2
  <2>4. QED
    BY <2>2, <2>3
<1>8. Fold(m) = f[Len(m)]
  BY <1>2, <1>5, <1>6, <1>7, FoldCourse
<1>9. Fold(l) = g[n]
  BY <1>1 DEF n
<1>10. QED
  BY <1>2, <1>3, <1>6, <1>8, <1>9 DEF m

(* Nothing is read of the empty log. *)
LEMMA FoldEmpty == Fold(<<>>) = Fresh
<1>1. PICK g \in [0..Len(<<>>) -> StateType] : g[0] = Fresh /\ Fold(<<>>) = g[Len(<<>>)]
  <2>1. <<>> \in Seq(EventType)
    OBVIOUS
  <2>2. QED
    BY <2>1, FoldExists
<1>2. QED
  BY <1>1

(* What is read of a log has its type. *)
LEMMA FoldTyped ==
  ASSUME NEW l \in Seq(EventType)
  PROVE  Fold(l) \in StateType
<1>1. PICK g \in [0..Len(l) -> StateType] : Fold(l) = g[Len(l)]
  BY FoldExists
<1>2. Len(l) \in 0..Len(l)
  OBVIOUS
<1>3. QED
  BY <1>1, <1>2

-----------------------------------------------------------------------------
(* The order of due records: by target, then by creation.                  *)
Ordered(S) == S \in SUBSET RecordType /\ \A r, q \in S : r.id = q.id => r = q
Below(S, r) == {q \in S : Before(q, r)}

(* A total order of records with ids of their own. *)
LEMMA BeforeOrders ==
  ASSUME NEW S, Ordered(S), NEW r \in S, NEW q \in S
  PROVE  /\ ~Before(r, r)
         /\ r # q => Before(r, q) \/ Before(q, r)
         /\ \A p \in S : Before(p, q) /\ Before(q, r) => Before(p, r)
<1>1. \A p \in S : p.at \in Int /\ p.id \in Nat
  BY DEF Ordered, RecordType
<1>2. ~Before(r, r)
  BY <1>1 DEF Before
<1>3. r # q => r.id # q.id
  BY DEF Ordered
<1>4. r # q => Before(r, q) \/ Before(q, r)
  BY <1>1, <1>3 DEF Before
<1>5. ASSUME NEW p \in S, Before(p, q), Before(q, r)
      PROVE  Before(p, r)
  BY <1>1, <1>5 DEF Before
<1>6. QED
  BY <1>2, <1>4, <1>5

(* What is earlier has fewer before it. *)
LEMMA BelowCounts ==
  ASSUME NEW S, Ordered(S), IsFiniteSet(S), NEW r \in S
  PROVE  /\ Cardinality(S) \in Nat /\ IsFiniteSet(Below(S, r))
         /\ Cardinality(Below(S, r)) \in 0..Cardinality(S) - 1
         /\ \A q \in S : Before(q, r) => Cardinality(Below(S, q)) < Cardinality(Below(S, r))
<1>1. \A q \in S : IsFiniteSet(Below(S, q)) /\ Cardinality(Below(S, q)) \in Nat
  BY FS_Subset, FS_CardinalityType DEF Below
<1>2. Cardinality(S) \in Nat
  BY FS_CardinalityType
<1>3. IsFiniteSet(S \ {r}) /\ Cardinality(S \ {r}) = Cardinality(S) - 1
  BY FS_RemoveElement
<1>4. Below(S, r) \subseteq S \ {r}
  BY BeforeOrders DEF Below
<1>5. Cardinality(Below(S, r)) <= Cardinality(S) - 1
  BY <1>3, <1>4, FS_Subset
<1>6. ASSUME NEW q \in S, Before(q, r)
      PROVE  Cardinality(Below(S, q)) < Cardinality(Below(S, r))
  <2>1. q \in Below(S, r) /\ q \notin Below(S, q)
    BY <1>6, BeforeOrders DEF Below
  <2>2. Below(S, q) \subseteq Below(S, r) \ {q}
    <3>1. ASSUME NEW p \in Below(S, q)
          PROVE  p \in Below(S, r) \ {q}
      <4>1. p \in S /\ Before(p, q) /\ p # q
        BY <2>1 DEF Below
      <4>2. Before(p, r)
        BY <1>6, <4>1, BeforeOrders
      <4>3. QED
        BY <4>1, <4>2 DEF Below
    <3>2. QED
      BY <3>1
  <2>3. IsFiniteSet(Below(S, r) \ {q}) /\ Cardinality(Below(S, r) \ {q}) = Cardinality(Below(S, r)) - 1
    BY <1>1, <2>1, FS_RemoveElement
  <2>4. Cardinality(Below(S, q)) <= Cardinality(Below(S, r)) - 1
    BY <2>2, <2>3, FS_Subset
  <2>5. QED
    BY <1>1, <2>4
<1>7. QED
  BY <1>1, <1>2, <1>5, <1>6

(* Nth enumerates the records, each of them once. *)
LEMMA NthEnumerates ==
  ASSUME NEW S, Ordered(S), IsFiniteSet(S)
  PROVE  /\ Cardinality(S) \in Nat
         /\ \A i \in 1..Cardinality(S) : Nth(S, i) \in S /\ Cardinality(Below(S, Nth(S, i))) = i - 1
         /\ \A r \in S : \E i \in 1..Cardinality(S) : Nth(S, i) = r
         /\ \A i, j \in 1..Cardinality(S) : Nth(S, i) = Nth(S, j) => i = j
<1> DEFINE n == Cardinality(S)
           f == [c \in S |-> Cardinality(Below(S, c)) + 1]
<1>1. n \in Nat /\ \A c \in S : Cardinality(Below(S, c)) \in 0..n - 1
  <2>1. n \in Nat
    BY FS_CardinalityType
  <2>2. QED
    BY <2>1, BelowCounts
<1>2. f \in [S -> 1..n]
  BY <1>1
<1>3. ASSUME NEW c \in S, NEW d \in S, Cardinality(Below(S, c)) = Cardinality(Below(S, d))
      PROVE  c = d
  <2>1. ~Before(c, d) /\ ~Before(d, c)
    BY <1>1, <1>3, BelowCounts
  <2>2. QED
    BY <2>1, BeforeOrders
<1>4. f \in Injection(S, 1..n)
  <2>1. ASSUME NEW c \in S, NEW d \in S, f[c] = f[d]
        PROVE  c = d
    <3>1. Cardinality(Below(S, c)) + 1 = Cardinality(Below(S, d)) + 1
      BY <2>1
    <3>2. Cardinality(Below(S, c)) = Cardinality(Below(S, d))
      BY <1>1, <3>1
    <3>3. QED
      BY <1>3, <3>2
  <2> HIDE DEF f
  <2>2. QED
    BY <1>2, <2>1 DEF Injection, IsInjective
<1>5. IsFiniteSet(1..n) /\ Cardinality(1..n) = n
  BY <1>1, FS_Interval
<1> HIDE DEF f
<1>6. f \in Surjection(S, 1..n)
  BY <1>4, <1>5, FS_Injection
<1>7. ASSUME NEW i \in 1..n
      PROVE  \E c \in S : Cardinality(Below(S, c)) = i - 1
  <2>1. PICK c \in S : f[c] = i
    BY <1>6 DEF Surjection
  <2>2. Cardinality(Below(S, c)) + 1 = i
    BY <2>1 DEF f
  <2>3. QED
    BY <1>1, <2>2
<1>8. ASSUME NEW i \in 1..n
      PROVE  Nth(S, i) \in S /\ Cardinality(Below(S, Nth(S, i))) = i - 1
  BY <1>7 DEF Nth, Below
<1>9. ASSUME NEW c \in S
      PROVE  \E i \in 1..n : Nth(S, i) = c
  <2>1. Cardinality(Below(S, c)) \in 0..n - 1
    BY <1>1
  <2>2. PICK i \in 1..n : i - 1 = Cardinality(Below(S, c))
    <3> DEFINE k == Cardinality(Below(S, c))
    <3>1. k \in 0..n - 1
      BY <2>1
    <3> HIDE DEF k, n
    <3>2. \E i \in 1..n : i - 1 = k
      <4> DEFINE i == k + 1
      <4>1. i \in 1..n /\ i - 1 = k
        BY <1>1, <3>1
      <4> HIDE DEF i
      <4>2. QED
        BY <4>1
    <3>3. QED
      BY <3>2 DEF k
  <2>3. Nth(S, i) \in S /\ Cardinality(Below(S, Nth(S, i))) = Cardinality(Below(S, c))
    BY <1>8, <2>2
  <2>4. Nth(S, i) = c
    BY <1>3, <2>3
  <2>5. QED
    BY <2>4
<1>10. ASSUME NEW i \in 1..n, NEW j \in 1..n, Nth(S, i) = Nth(S, j)
       PROVE  i = j
  <2>1. i - 1 = j - 1
    BY <1>8, <1>10
  <2>2. QED
    BY <1>1, <2>1
<1>11. QED
  BY <1>1, <1>8, <1>9, <1>10

-----------------------------------------------------------------------------
(* An event that may follow a log of which s was read.                     *)
OccurrenceAt(r, n) == IF r.every = 0 THEN r.at ELSE Occurrence(r, n)
Settles(r, n, e) ==
  /\ r.at <= n /\ e.id = r.id /\ e.at = (IF r.every = 0 THEN Off ELSE n)
  /\ e.due = {<<r.id, OccurrenceAt(r, n)>>}
Fits(s, e) ==
  \/ e.op = "create" /\ e.at \in Nat /\ e.id = Cardinality(s.seen) + 1
  \/ e.op = "delete" /\ \E r \in s.active : r.id = e.id
  \/ e.op = "dispatch" /\ \E r \in s.active, n \in Nat : Settles(r, n, e)
  \/ e.op = "remind"

(* A created record is under a number not used before. *)
LEMMA CreateKeeps ==
  ASSUME NEW s \in StateType, NEW e \in EventType, Sound(s),
         e.op = "create", e.at \in Nat, e.id = Cardinality(s.seen) + 1
  PROVE  /\ Sound(Apply(s, e)) /\ s.seen \subseteq Apply(s, e).seen
         /\ \A q \in Apply(s, e).active : q \in s.active \/ q.id \notin s.seen
<1> DEFINE c == Cardinality(s.seen)
           r == [id |-> e.id, at |-> e.at, every |-> e.every]
           t == Apply(s, e)
<1>1. c \in Nat /\ s.seen = 1..c /\ s.ok /\ IsFiniteSet(s.seen) /\ IsFiniteSet(s.active)
  BY FS_CardinalityType DEF Sound
<1> HIDE DEF c
<1>2. e.id = c + 1 /\ e.id \notin s.seen
  BY <1>1 DEF c
<1>3. t.ok /\ t.seen = s.seen \cup {e.id} /\ t.active = s.active \cup {r}
  BY <1>1, <1>2 DEF Apply
<1>4. r.id = e.id /\ r.at = e.at
  OBVIOUS
<1> HIDE DEF r, t
<1>5. t.seen = 1..c + 1
  BY <1>1, <1>2, <1>3
<1>6. Cardinality(t.seen) = c + 1 /\ IsFiniteSet(t.seen)
  BY <1>1, <1>5, FS_Interval
<1>7. IsFiniteSet(t.active)
  <2>1. IsFiniteSet(s.active \cup {r})
    BY <1>1, FS_AddElement
  <2>2. QED
    BY <1>3, <2>1
<1>8. \A q \in t.active : q.id \in t.seen /\ q.at \in Nat
  BY <1>3, <1>4 DEF Sound
<1>9. ASSUME NEW p \in t.active, NEW q \in t.active, p.id = q.id
      PROVE  p = q
  BY <1>2, <1>3, <1>4, <1>9 DEF Sound
<1>10. Sound(t)
  BY <1>3, <1>5, <1>6, <1>7, <1>8, <1>9 DEF Sound
<1>11. QED
  BY <1>2, <1>3, <1>4, <1>10 DEF t

(* A deleted record was active. *)
LEMMA DeleteKeeps ==
  ASSUME NEW s \in StateType, NEW e \in EventType, Sound(s),
         e.op = "delete", \E r \in s.active : r.id = e.id
  PROVE  Sound(Apply(s, e)) /\ Apply(s, e).seen = s.seen /\ Apply(s, e).active \subseteq s.active
<1> DEFINE t == Apply(s, e)
<1>1. t.ok = s.ok /\ t.seen = s.seen /\ t.active = s.active \ {r \in s.active : r.id = e.id}
  BY DEF Apply, StateType, Sound
<1> HIDE DEF t
<1>2. IsFiniteSet(t.active) /\ t.active \subseteq s.active
  BY <1>1, FS_Subset DEF Sound
<1>3. Sound(t)
  BY <1>1, <1>2 DEF Sound
<1>4. QED
  BY <1>1, <1>2, <1>3 DEF t

(* A dispatch replaces one record by its next occurrence, if it has one. *)
LEMMA DispatchReplaces ==
  ASSUME NEW s \in StateType, NEW e \in EventType, Sound(s),
         e.op = "dispatch", NEW r \in s.active, NEW n \in Nat, Settles(r, n, e)
  PROVE  /\ Apply(s, e).ok /\ Apply(s, e).seen = s.seen
         /\ Apply(s, e).active = Replace(s.active, r, e.at)
<1> DEFINE t == Apply(s, e)
           named == {q \in s.active : q.id = e.id}
           fits(q) == (q.every = 0) = (e.at = Off) /\ (q.every > 0 => e.at >= q.at)
<1>1. r \in RecordType /\ r.at \in Nat /\ r.at <= n /\ e.id = r.id
  BY DEF StateType, Sound, Settles
<1>2. named = {r}
  BY <1>1 DEF Sound
<1>3. fits(r)
  <2>1. CASE r.every = 0
    BY <2>1 DEF Settles
  <2>2. CASE r.every # 0
    <3>1. e.at = n /\ n # Off /\ e.at >= r.at
      BY <1>1, <2>2 DEF Settles, Off
    <3>2. QED
      BY <2>2, <3>1
  <2>3. QED
    BY <2>1, <2>2
<1>4. t = [s EXCEPT !.ok = @ /\ named # {} /\ \A q \in named : fits(q),
                    !.active = IF \A q \in named : fits(q)
                               THEN UNION {Replace(s.active, q, e.at) : q \in named}
                               ELSE @]
  BY DEF Apply
<1> HIDE DEF fits
<1>5. (\A q \in named : fits(q)) /\ named # {}
  BY <1>2, <1>3
<1>6. UNION {Replace(s.active, q, e.at) : q \in named} = Replace(s.active, r, e.at)
  BY <1>2
<1> HIDE DEF named
<1>7. t.seen = s.seen /\ t.ok = s.ok /\ t.active = Replace(s.active, r, e.at)
  BY <1>4, <1>5, <1>6 DEF StateType
<1>8. QED
  BY <1>7 DEF t, Sound

(* What is active after a dispatch: others, or what comes after it. *)
LEMMA DispatchKeeps ==
  ASSUME NEW s \in StateType, NEW e \in EventType, Sound(s),
         e.op = "dispatch", NEW r \in s.active, NEW n \in Nat, Settles(r, n, e)
  PROVE  /\ Sound(Apply(s, e)) /\ Apply(s, e).seen = s.seen
         /\ \A q \in s.active : q.id # r.id => q \in Apply(s, e).active
         /\ \A q \in Apply(s, e).active :
              \/ q \in s.active /\ q.id # r.id
              \/ q.id = r.id /\ OccurrenceAt(r, n) < q.at
         /\ OccurrenceAt(r, n) \in Nat /\ r.at <= OccurrenceAt(r, n) /\ OccurrenceAt(r, n) <= n
<1> DEFINE t == Apply(s, e)
           o == OccurrenceAt(r, n)
           next == [r EXCEPT !.at = Occurrence(r, n) + r.every]
<1>1. r \in RecordType /\ r.at \in Nat /\ r.at <= n /\ e.id = r.id /\ r.every \in Nat
  BY DEF StateType, Sound, Settles, RecordType
<1>2. t.ok /\ t.seen = s.seen /\ t.active = Replace(s.active, r, e.at)
  BY DispatchReplaces
<1>3. o \in Nat /\ r.at <= o /\ o <= n
  <2>1. CASE r.every = 0
    BY <1>1, <2>1 DEF OccurrenceAt
  <2>2. CASE r.every # 0
    BY <1>1, <2>2, OccurrenceBounds DEF OccurrenceAt
  <2>3. QED
    BY <2>1, <2>2
<1>4. r.every = 0 => t.active = s.active \ {r}
  BY <1>2 DEF Replace
<1>5. r.every # 0 => /\ t.active = (s.active \ {r}) \cup {next}
                     /\ next.id = r.id /\ next.at = o + r.every
  <2>1. ASSUME r.every # 0
        PROVE  t.active = (s.active \ {r}) \cup {next} /\ next.id = r.id /\ next.at = o + r.every
    <3>1. e.at = n
      BY <2>1 DEF Settles
    <3>2. next.id = r.id /\ next.at = Occurrence(r, n) + r.every
      BY <1>1 DEF RecordType
    <3>3. o = Occurrence(r, n)
      BY <2>1 DEF OccurrenceAt
    <3>4. t.active = (s.active \ {r}) \cup {next}
      BY <1>2, <2>1, <3>1 DEF Replace
    <3>5. QED
      BY <3>2, <3>3, <3>4
  <2>2. QED
    BY <2>1
<1> HIDE DEF t, o, next
<1>6. \A q \in s.active : q.id # r.id => q \in t.active
  BY <1>4, <1>5
<1>7. ASSUME NEW q \in t.active
      PROVE  \/ q \in s.active /\ q.id # r.id
             \/ r.every # 0 /\ q = next
  BY <1>4, <1>5, <1>7 DEF Sound
<1>8. r.every # 0 => next.id = r.id /\ o < next.at /\ next.at \in Nat
  BY <1>1, <1>3, <1>5
<1>9. IsFiniteSet(t.active)
  <2>1. IsFiniteSet(s.active \ {r})
    BY FS_Subset DEF Sound
  <2>2. IsFiniteSet((s.active \ {r}) \cup {next})
    BY <2>1, FS_AddElement
  <2>3. QED
    BY <1>4, <1>5, <2>1, <2>2
<1>10. \A q \in t.active : q.id \in t.seen /\ q.at \in Nat
  BY <1>2, <1>7, <1>8 DEF Sound
<1>11. ASSUME NEW p \in t.active, NEW q \in t.active, p.id = q.id
       PROVE  p = q
  BY <1>7, <1>8, <1>11 DEF Sound
<1>12. Sound(t)
  BY <1>2, <1>9, <1>10, <1>11 DEF Sound
<1>13. QED
  BY <1>2, <1>3, <1>6, <1>7, <1>8, <1>12 DEF t, o

-----------------------------------------------------------------------------
(* What appending an event does to the prefixes of a log. *)
LEMMA PrefixOf ==
  ASSUME NEW S, NEW l \in Seq(S), NEW k \in 0..Len(l)
  PROVE  /\ Prefix(l, k) \in Seq(S) /\ Len(Prefix(l, k)) = k
         /\ \A i \in 1..k : Prefix(l, k)[i] = l[i]
         /\ \A j \in 0..k : Prefix(Prefix(l, k), j) = Prefix(l, j)
         /\ Prefix(l, Len(l)) = l
<1>1. Len(l) \in Nat /\ k \in Nat /\ k <= Len(l) /\ \A i \in 1..Len(l) : l[i] \in S
  OBVIOUS
<1>2. ASSUME NEW j \in 0..k
      PROVE  /\ Prefix(l, j) \in Seq(S) /\ Len(Prefix(l, j)) = j
             /\ \A i \in 1..j : Prefix(l, j)[i] = l[i]
  <2>1. j \in Int /\ 1 \in Int /\ 0 <= j /\ \A i \in 1..j : l[i] \in S
    BY <1>1
  <2> HIDE DEF Prefix
  <2>2. /\ SubSeq(l, 1, j) \in Seq(S)
        /\ Len(SubSeq(l, 1, j)) = IF 1 <= j THEN j - 1 + 1 ELSE 0
        /\ \A i \in 1..j - 1 + 1 : SubSeq(l, 1, j)[i] = l[1 + i - 1]
    BY <2>1, SubSeqProperties
  <2>3. QED
    BY <2>1, <2>2 DEF Prefix
<1> DEFINE p == Prefix(l, k)
<1>3. k \in 0..k
  BY <1>1
<1>4. p \in Seq(S) /\ Len(p) = k /\ \A i \in 1..k : p[i] = l[i]
  BY <1>2, <1>3
<1> HIDE DEF p
<1>5. ASSUME NEW j \in 0..k
      PROVE  Prefix(p, j) = Prefix(l, j)
  <2>1. j \in Int /\ 1 \in Int /\ 0 <= j /\ \A i \in 1..j : p[i] \in S
    BY <1>1, <1>4
  <2>2. /\ SubSeq(p, 1, j) \in Seq(S)
        /\ Len(SubSeq(p, 1, j)) = IF 1 <= j THEN j - 1 + 1 ELSE 0
        /\ \A i \in 1..j - 1 + 1 : SubSeq(p, 1, j)[i] = p[1 + i - 1]
    BY <2>1, SubSeqProperties
  <2>3. /\ Prefix(p, j) \in Seq(S) /\ Len(Prefix(p, j)) = j
        /\ \A i \in 1..j : Prefix(p, j)[i] = l[i]
    BY <1>4, <2>1, <2>2 DEF Prefix
  <2>4. QED
    BY <1>2, <2>3
<1>6. Prefix(l, Len(l)) = l
  BY SubSeqFull DEF Prefix
<1>7. QED
  BY <1>4, <1>5, <1>6 DEF p

(* The prefixes of an extended log are the log, extended, and its own. *)
LEMMA PrefixAppend ==
  ASSUME NEW S, NEW l \in Seq(S), NEW e \in S
  PROVE  LET m == Append(l, e)
         IN  /\ m \in Seq(S) /\ Len(m) = Len(l) + 1 /\ m[Len(l) + 1] = e
             /\ \A i \in 1..Len(l) : m[i] = l[i]
             /\ \A k \in 0..Len(m) : Prefix(m, k) = IF k = Len(m) THEN m ELSE Prefix(l, k)
<1> DEFINE m == Append(l, e)
<1>1. /\ m \in Seq(S) /\ Len(m) = Len(l) + 1 /\ m[Len(l) + 1] = e /\ Len(l) \in Nat
      /\ \A i \in 1..Len(l) : m[i] = l[i]
  BY AppendProperties
<1> HIDE DEF m
<1>2. ASSUME NEW k \in 0..Len(l)
      PROVE  Prefix(m, k) = Prefix(l, k)
  <2>1. k \in 0..Len(m) /\ k \in 0..Len(l)
    BY <1>1
  <2>2. Prefix(m, k) \in Seq(S) /\ Len(Prefix(m, k)) = k /\ \A i \in 1..k : Prefix(m, k)[i] = m[i]
    BY <1>1, <2>1, PrefixOf
  <2>3. Prefix(l, k) \in Seq(S) /\ Len(Prefix(l, k)) = k /\ \A i \in 1..k : Prefix(l, k)[i] = l[i]
    BY <1>1, <2>1, PrefixOf
  <2>4. \A i \in 1..k : Prefix(m, k)[i] = Prefix(l, k)[i]
    BY <1>1, <2>2, <2>3
  <2>5. QED
    BY <2>2, <2>3, <2>4
<1>3. Prefix(m, Len(m)) = m
  <2>1. Len(m) \in 0..Len(m)
    BY <1>1
  <2>2. QED
    BY <1>1, <2>1, PrefixOf
<1>4. ASSUME NEW k \in 0..Len(m)
      PROVE  Prefix(m, k) = IF k = Len(m) THEN m ELSE Prefix(l, k)
  <2>1. k # Len(m) => k \in 0..Len(l)
    BY <1>1
  <2>2. QED
    BY <1>2, <1>3, <2>1
<1>5. QED
  BY <1>1, <1>4 DEF m

(* A good log stays good when it is cut. *)
LEMMA GoodPrefix ==
  ASSUME NEW l \in Seq(EventType), Good(l), NEW k \in 0..Len(l)
  PROVE  Prefix(l, k) \in Seq(EventType) /\ Len(Prefix(l, k)) = k /\ Good(Prefix(l, k))
<1>1. /\ Prefix(l, k) \in Seq(EventType) /\ Len(Prefix(l, k)) = k
      /\ \A j \in 0..k : Prefix(Prefix(l, k), j) = Prefix(l, j)
  BY PrefixOf
<1>2. \A j \in 0..k : j \in 0..Len(l)
  OBVIOUS
<1>3. QED
  BY <1>1, <1>2 DEF Good

(* What a good log says of itself. *)
LEMMA GoodReads ==
  ASSUME NEW l \in Seq(EventType), Good(l)
  PROVE  Fold(l) \in StateType /\ Sound(Fold(l)) /\ Past(l, Fold(l))
<1>1. Len(l) \in 0..Len(l) /\ Prefix(l, Len(l)) = l
  BY SubSeqFull DEF Prefix
<1>2. Reads(l)
  BY <1>1 DEF Good
<1>3. Fold(l) \in StateType
  BY FoldTyped
<1>4. QED
  BY <1>2, <1>3 DEF Reads

(* An event that fits keeps a log good. *)
LEMMA GoodAppend ==
  ASSUME NEW l \in Seq(EventType), NEW e \in EventType, Good(l), Fits(Fold(l), e)
  PROVE  /\ Append(l, e) \in Seq(EventType) /\ Good(Append(l, e))
         /\ Fold(Append(l, e)) = Apply(Fold(l), e)
<1> DEFINE s == Fold(l)
           m == Append(l, e)
           t == Apply(s, e)
<1>1. s \in StateType /\ Sound(s) /\ Past(l, s) /\ Fold(m) = t
  BY GoodReads, FoldAppend
<1>2. /\ m \in Seq(EventType) /\ Len(m) = Len(l) + 1 /\ m[Len(l) + 1] = e /\ Len(l) \in Nat
      /\ \A i \in 1..Len(l) : m[i] = l[i]
      /\ \A k \in 0..Len(m) : Prefix(m, k) = IF k = Len(m) THEN m ELSE Prefix(l, k)
  BY PrefixAppend
<1>3. Fits(s, e)
  OBVIOUS
<1> HIDE DEF s, m, t
<1>4. ASSUME Sound(t), s.seen \subseteq t.seen,
             \A q \in t.active : \A i \in 1..Len(l) : \A o \in l[i].due :
                l[i].op = "dispatch" /\ o[1] = q.id => o[2] < q.at,
             e.op = "dispatch" => \A o \in e.due : o[1] \in t.seen /\ \A q \in t.active : q.id = o[1] => o[2] < q.at
      PROVE  Sound(t) /\ Past(m, t)
  <2>1. ASSUME NEW i \in 1..Len(m), m[i].op = "dispatch", NEW o \in m[i].due
        PROVE  o[1] \in t.seen /\ \A q \in t.active : q.id = o[1] => o[2] < q.at
    <3>1. CASE i = Len(l) + 1
      BY <1>2, <1>4, <2>1, <3>1
    <3>2. CASE i # Len(l) + 1
      <4>1. i \in 1..Len(l) /\ m[i] = l[i]
        BY <1>2, <3>2
      <4>2. o[1] \in s.seen
        BY <1>1, <2>1, <4>1 DEF Past
      <4>3. QED
        BY <1>4, <2>1, <4>1, <4>2
    <3>3. QED
      BY <3>1, <3>2
  <2>2. QED
    BY <1>4, <2>1 DEF Past
<1>5. Sound(t) /\ Past(m, t)
  <2>1. CASE e.op = "create" /\ e.at \in Nat /\ e.id = Cardinality(s.seen) + 1
    <3>1. Sound(t) /\ s.seen \subseteq t.seen /\ \A q \in t.active : q \in s.active \/ q.id \notin s.seen
      BY <1>1, <2>1, CreateKeeps DEF t
    <3>2. ASSUME NEW q \in t.active, NEW i \in 1..Len(l), NEW o \in l[i].due,
                 l[i].op = "dispatch", o[1] = q.id
          PROVE  o[2] < q.at
      <4>1. o[1] \in s.seen
        BY <1>1, <3>2 DEF Past
      <4>2. q \in s.active
        BY <3>1, <3>2, <4>1
      <4>3. QED
        BY <1>1, <3>2, <4>2 DEF Past
    <3>3. e.op # "dispatch"
      BY <2>1
    <3>4. QED
      BY <1>4, <3>1, <3>2, <3>3
  <2>2. CASE e.op = "delete" /\ \E r \in s.active : r.id = e.id
    <3>1. Sound(t) /\ t.seen = s.seen /\ t.active \subseteq s.active
      BY <1>1, <2>2, DeleteKeeps DEF t
    <3>2. ASSUME NEW q \in t.active, NEW i \in 1..Len(l), NEW o \in l[i].due,
                 l[i].op = "dispatch", o[1] = q.id
          PROVE  o[2] < q.at
      BY <1>1, <3>1, <3>2 DEF Past
    <3>3. e.op # "dispatch"
      BY <2>2
    <3>4. QED
      BY <1>4, <3>1, <3>2, <3>3
  <2>3. CASE e.op = "dispatch" /\ \E r \in s.active, n \in Nat : Settles(r, n, e)
    <3>1. PICK r \in s.active, n \in Nat : Settles(r, n, e)
      BY <2>3
    <3>2. /\ Sound(t) /\ t.seen = s.seen
          /\ \A q \in t.active : \/ q \in s.active /\ q.id # r.id
                                 \/ q.id = r.id /\ OccurrenceAt(r, n) < q.at
          /\ OccurrenceAt(r, n) \in Nat /\ r.at <= OccurrenceAt(r, n)
      BY <1>1, <2>3, <3>1, DispatchKeeps DEF t
    <3>3. r.id \in s.seen /\ r.at \in Nat
      BY <1>1 DEF Sound
    <3>4. ASSUME NEW q \in t.active, NEW i \in 1..Len(l), NEW o \in l[i].due,
                 l[i].op = "dispatch", o[1] = q.id
          PROVE  o[2] < q.at
      <4>1. CASE q \in s.active
        BY <1>1, <3>4, <4>1 DEF Past
      <4>2. CASE q.id = r.id /\ OccurrenceAt(r, n) < q.at
        <5>1. o[2] < r.at
          BY <1>1, <3>4, <4>2 DEF Past
        <5>2. o[2] \in Nat
          <6>1. l[i] \in EventType
            OBVIOUS
          <6>2. o \in Nat \X Nat
            BY <3>4, <6>1 DEF EventType
          <6>3. QED
            BY <6>2
        <5>3. q.at \in Nat
          BY <3>2 DEF Sound
        <5>4. QED
          BY <3>2, <3>3, <4>2, <5>1, <5>2, <5>3
      <4>3. QED
        BY <3>2, <4>1, <4>2
    <3>5. ASSUME NEW o \in e.due
          PROVE  o[1] \in t.seen /\ \A q \in t.active : q.id = o[1] => o[2] < q.at
      <4>1. o = <<r.id, OccurrenceAt(r, n)>>
        BY <3>1 DEF Settles
      <4>2. o[1] = r.id /\ o[2] = OccurrenceAt(r, n)
        BY <4>1
      <4>3. QED
        BY <3>2, <3>3, <4>2
    <3>6. QED
      BY <1>4, <3>2, <3>4, <3>5
  <2>4. CASE e.op = "remind"
    <3>1. t = s
      BY <2>4 DEF Apply, t
    <3>2. QED
      BY <1>1, <1>4, <2>4, <3>1 DEF Past
  <2>5. QED
    BY <1>3, <2>1, <2>2, <2>3, <2>4 DEF Fits
<1>6. Good(m)
  <2>1. ASSUME NEW k \in 0..Len(m)
        PROVE  Reads(Prefix(m, k))
    <3>1. CASE k = Len(m)
      BY <1>1, <1>2, <1>5, <3>1 DEF Reads
    <3>2. CASE k # Len(m)
      <4>1. k \in 0..Len(l)
        BY <1>2, <3>2
      <4>2. QED
        BY <1>2, <3>2, <4>1 DEF Good
    <3>3. QED
      BY <3>1, <3>2
  <2>2. QED
    BY <2>1 DEF Good
<1>7. QED
  BY <1>1, <1>2, <1>6 DEF s, m, t

(* What may be said after a log. *)
SaysFits(l, e) ==
  /\ e.op \in {"create", "delete"} => e.due = {}
  /\ e.op = "dispatch" => \A o \in e.due : \E j \in 1..Len(l) : l[j].op = "remind" /\ o \in l[j].due
  /\ e.op = "remind" => \A j \in 1..Len(l) : l[j].due \cap e.due # {} =>
       l[j].op = "remind" /\ l[j].life < e.life

LEMMA SpeaksAppend ==
  ASSUME NEW l \in Seq(EventType), NEW e \in EventType, Speaks(l), SaysFits(l, e)
  PROVE  Speaks(Append(l, e))
<1> DEFINE m == Append(l, e)
<1>1. /\ Len(m) = Len(l) + 1 /\ m[Len(l) + 1] = e /\ Len(l) \in Nat
      /\ \A i \in 1..Len(l) : m[i] = l[i]
  BY AppendProperties
<1> HIDE DEF m
<1>2. ASSUME NEW i \in 1..Len(m)
      PROVE  /\ m[i].op \in {"create", "delete"} => m[i].due = {}
             /\ m[i].op = "dispatch" => \A o \in m[i].due : \E j \in 1..(i - 1) : m[j].op = "remind" /\ o \in m[j].due
             /\ m[i].op = "remind" => \A j \in 1..(i - 1) : m[j].due \cap m[i].due # {} =>
                  m[j].op = "remind" /\ m[j].life < m[i].life
  <2>1. CASE i = Len(l) + 1
    <3>1. i - 1 = Len(l) /\ m[i] = e
      BY <1>1, <2>1
    <3>2. QED
      BY <1>1, <3>1 DEF SaysFits
  <2>2. CASE i # Len(l) + 1
    <3>1. i \in 1..Len(l) /\ m[i] = l[i] /\ \A j \in 1..(i - 1) : j \in 1..Len(l) /\ m[j] = l[j]
      BY <1>1, <2>2
    <3>2. /\ l[i].op \in {"create", "delete"} => l[i].due = {}
          /\ l[i].op = "dispatch" => \A o \in l[i].due : \E j \in 1..(i - 1) : l[j].op = "remind" /\ o \in l[j].due
          /\ l[i].op = "remind" => \A j \in 1..(i - 1) : l[j].due \cap l[i].due # {} =>
               l[j].op = "remind" /\ l[j].life < l[i].life
      BY <3>1 DEF Speaks
    <3>3. ASSUME l[i].op = "dispatch", NEW o \in l[i].due
          PROVE  \E j \in 1..(i - 1) : m[j].op = "remind" /\ o \in m[j].due
      <4>1. PICK j \in 1..(i - 1) : l[j].op = "remind" /\ o \in l[j].due
        BY <3>2, <3>3
      <4>2. QED
        BY <3>1, <4>1
    <3>4. ASSUME l[i].op = "remind", NEW j \in 1..(i - 1), l[j].due \cap l[i].due # {}
          PROVE  l[j].op = "remind" /\ l[j].life < l[i].life
      BY <3>2, <3>4
    <3>5. QED
      BY <3>1, <3>2, <3>3, <3>4
  <2>3. QED
    BY <2>1, <2>2
<1>3. QED
  BY <1>2 DEF Speaks, m

(* A log that is cut says no more than it did. *)
LEMMA SpeaksPrefix ==
  ASSUME NEW l \in Seq(EventType), Speaks(l), NEW k \in 0..Len(l)
  PROVE  Speaks(Prefix(l, k))
<1> DEFINE p == Prefix(l, k)
<1>1. Len(p) = k /\ \A i \in 1..k : p[i] = l[i]
  BY PrefixOf
<1>2. Len(l) \in Nat
  OBVIOUS
<1> HIDE DEF p
<1>3. ASSUME NEW i \in 1..Len(p)
      PROVE  i \in 1..Len(l) /\ p[i] = l[i] /\ \A j \in 1..(i - 1) : p[j] = l[j]
  BY <1>1, <1>2
<1>4. QED
  BY <1>3 DEF Speaks, p

-----------------------------------------------------------------------------
(* The records chosen are due, and in an order of their own. *)
LEMMA ChosenDue ==
  ASSUME TypeOK, Good(log)
  PROVE  /\ Ordered(Folded.active) /\ IsFiniteSet(Folded.active)
         /\ \A r \in Folded.active : r.at \in Nat /\ r.every \in Nat /\ r.id \in Nat /\ r \in RecordType
         /\ Chosen \subseteq Overdue /\ Ordered(Chosen) /\ IsFiniteSet(Chosen)
         /\ Overdue # {} => Chosen # {}
<1> DEFINE s == Folded
<1>1. log \in Seq(EventType)
  BY DEF TypeOK
<1>2. s \in StateType /\ Sound(s)
  BY <1>1, GoodReads DEF Folded
<1>3. Ordered(s.active) /\ IsFiniteSet(s.active)
  BY <1>2 DEF Ordered, Sound, StateType
<1>4. \A r \in s.active : r.at \in Nat /\ r.every \in Nat /\ r.id \in Nat /\ r \in RecordType
  BY <1>2 DEF Sound, StateType, RecordType
<1>5. Overdue \subseteq s.active /\ OneShots \subseteq Overdue
  BY DEF Overdue, OneShots
<1>6. \A S : S \subseteq s.active => Ordered(S) /\ IsFiniteSet(S)
  BY <1>3, FS_Subset DEF Ordered
<1>7. CASE OneShots = {}
  BY <1>3, <1>4, <1>5, <1>6, <1>7 DEF Chosen
<1>8. CASE OneShots # {}
  <2>1. Ordered(OneShots) /\ IsFiniteSet(OneShots)
    BY <1>5, <1>6
  <2>2. Cardinality(OneShots) \in Nat /\ Cardinality(OneShots) # 0
    BY <1>8, <2>1, FS_EmptySet, FS_CardinalityType
  <2>3. 1 \in 1..Cardinality(OneShots)
    BY <2>2
  <2>4. Nth(OneShots, 1) \in OneShots
    BY <2>1, <2>3, NthEnumerates
  <2>5. Chosen = {Nth(OneShots, 1)}
    BY <1>8 DEF Chosen
  <2>6. Chosen \subseteq Overdue /\ Chosen # {} /\ Chosen \subseteq s.active
    BY <1>5, <2>4, <2>5
  <2>7. QED
    BY <1>3, <1>4, <1>6, <2>6
<1>9. QED
  BY <1>7, <1>8

(* The occurrence told of a due record is due. *)
LEMMA OccurrenceDue ==
  ASSUME TypeOK, Good(log), NEW r \in Overdue
  PROVE  /\ OccurrenceOf(r) = <<r.id, OccurrenceAt(r, now)>>
         /\ OccurrenceAt(r, now) \in Nat /\ r.at <= OccurrenceAt(r, now)
         /\ OccurrenceAt(r, now) <= now /\ OccurrenceOf(r) \in Nat \X Nat
<1>1. r \in RecordType /\ r.at \in Nat /\ r.id \in Nat /\ r.at <= now /\ now \in Nat
  BY ChosenDue, ScheduleAssumption DEF Overdue, TypeOK
<1>2. OccurrenceOf(r) = <<r.id, OccurrenceAt(r, now)>>
  BY DEF OccurrenceOf, OccurrenceAt
<1>3. CASE r.every = 0
  BY <1>1, <1>2, <1>3 DEF OccurrenceAt
<1>4. CASE r.every # 0
  <2>1. Occurrence(r, now) \in Int /\ r.at <= Occurrence(r, now) /\ Occurrence(r, now) <= now
    BY <1>1, <1>4, OccurrenceBounds
  <2>2. OccurrenceAt(r, now) = Occurrence(r, now)
    BY <1>4 DEF OccurrenceAt
  <2>3. QED
    BY <1>1, <1>2, <2>1, <2>2
<1>5. QED
  BY <1>3, <1>4

-----------------------------------------------------------------------------
(* What a maintenance task appends: a reminder of all that was chosen, and *)
(* a dispatch of each.                                                     *)
LEMMA ToldFields ==
  ASSUME TypeOK, Good(log)
  PROVE  /\ Cardinality(Chosen) \in Nat /\ Told \in Seq(EventType)
         /\ Len(Told) = Cardinality(Chosen) + 1
         /\ Told[1].op = "remind" /\ Told[1].life = crashes
         /\ Told[1].due = {OccurrenceOf(r) : r \in Chosen}
         /\ \A i \in 1..Cardinality(Chosen) :
              /\ Nth(Chosen, i) \in Chosen
              /\ Told[i + 1].op = "dispatch" /\ Told[i + 1].life = crashes
              /\ Told[i + 1].due = {OccurrenceOf(Nth(Chosen, i))}
              /\ Settles(Nth(Chosen, i), now, Told[i + 1])
<1> DEFINE n == Cardinality(Chosen)
           d == Dispatches(Chosen)
           e == Reminder(Chosen)
<1>1. n \in Nat /\ \A i \in 1..n : Nth(Chosen, i) \in Chosen
  BY ChosenDue, NthEnumerates
<1>2. crashes \in Nat /\ now \in Nat /\ Chosen \subseteq Overdue
  BY ChosenDue, ScheduleAssumption DEF TypeOK
<1>3. \A r \in Chosen : OccurrenceOf(r) \in Nat \X Nat
  BY <1>2, OccurrenceDue
<1>4. e \in EventType /\ e.op = "remind" /\ e.life = crashes /\ e.due = {OccurrenceOf(r) : r \in Chosen}
  <2>1. {OccurrenceOf(r) : r \in Chosen} \in SUBSET (Nat \X Nat)
    BY <1>3
  <2> DEFINE due == {OccurrenceOf(r) : r \in Chosen}
  <2>2. e = [op |-> "remind", id |-> 0, at |-> 0, every |-> 0, due |-> due, life |-> crashes]
    BY DEF Reminder, Event
  <2>3. due \in SUBSET (Nat \X Nat)
    BY <2>1
  <2> HIDE DEF due, e
  <2>4. e \in EventType /\ e.op = "remind" /\ e.life = crashes /\ e.due = due
    BY <1>2, <2>2, <2>3 DEF EventType
  <2>5. QED
    BY <2>4 DEF due
<1>5. ASSUME NEW r \in Chosen
      PROVE  /\ DispatchOf(r) \in EventType /\ DispatchOf(r).op = "dispatch"
             /\ DispatchOf(r).life = crashes /\ DispatchOf(r).due = {OccurrenceOf(r)}
             /\ Settles(r, now, DispatchOf(r))
  <2> DEFINE f == DispatchOf(r)
             at == IF r.every = 0 THEN Off ELSE now
             due == {OccurrenceOf(r)}
  <2>1. f = [op |-> "dispatch", id |-> r.id, at |-> at, every |-> 0, due |-> due, life |-> crashes]
    BY DEF DispatchOf, Event
  <2>2. r.id \in Nat /\ r.at <= now
    BY <1>2, ChosenDue DEF Overdue
  <2>3. at \in Nat \cup {Off} /\ due \in SUBSET (Nat \X Nat)
    BY <1>2, <1>3
  <2> HIDE DEF f, at, due
  <2>4. f \in EventType /\ f.op = "dispatch" /\ f.life = crashes /\ f.due = due /\ f.id = r.id /\ f.at = at
    BY <1>2, <2>1, <2>2, <2>3 DEF EventType
  <2>5. due = {<<r.id, OccurrenceAt(r, now)>>}
    BY <1>2, OccurrenceDue DEF due
  <2>6. Settles(r, now, f)
    BY <2>2, <2>4, <2>5 DEF Settles, at
  <2>7. QED
    BY <2>4, <2>6 DEF f, due
<1>6. d \in Seq(EventType) /\ Len(d) = n /\ \A i \in 1..n : d[i] = DispatchOf(Nth(Chosen, i))
  <2>1. \A i \in 1..n : DispatchOf(Nth(Chosen, i)) \in EventType
    BY <1>1, <1>5
  <2>2. d = [i \in 1..n |-> DispatchOf(Nth(Chosen, i))]
    BY DEF Dispatches
  <2> HIDE DEF n
  <2>3. QED
    BY <1>1, <2>1, <2>2
<1> HIDE DEF d, e, n
<1>7. Told = <<e>> \o d
  BY DEF Told, e, d
<1>8. /\ Told \in Seq(EventType) /\ Len(Told) = n + 1 /\ Told[1] = e
      /\ \A i \in 1..n : Told[i + 1] = d[i]
  BY <1>1, <1>4, <1>6, <1>7
<1>9. QED
  BY <1>1, <1>4, <1>5, <1>6, <1>8 DEF n

(* The log while it is told, once n of the events are in. *)
ToldSoFar(m, n) ==
  /\ m \in Seq(EventType) /\ Good(m) /\ Speaks(m) /\ Lives(m, crashes)
  /\ Len(m) = Len(log) + n
  /\ \A i \in 1..Len(log) : m[i] = log[i]
  /\ \A i \in 1..n : m[Len(log) + i] = Told[i]
  /\ n >= 1 => \A i \in n..Cardinality(Chosen) : Nth(Chosen, i) \in Fold(m).active

(* Each event may follow those before it: the reminder, since nothing due  *)
(* was dispatched or told of in this life; a dispatch, since the reminder  *)
(* told of it and its record has not been replaced by those before it.     *)
LEMMA TellingStep ==
  ASSUME TypeOK, Good(log), Speaks(log), Lives(log, crashes), Answered(log, crashes),
         NEW n \in 0..Cardinality(Chosen), NEW m, ToldSoFar(m, n)
  PROVE  ToldSoFar(Append(m, Told[n + 1]), n + 1)
<1> DEFINE c == Cardinality(Chosen)
           e == Told[n + 1]
           w == Append(m, e)
           base == Len(log)
<1>1. /\ c \in Nat /\ Len(Told) = c + 1 /\ n \in Nat /\ n <= c /\ base \in Nat
      /\ Told \in Seq(EventType) /\ log \in Seq(EventType)
  BY ToldFields DEF TypeOK
<1>2. e \in EventType /\ e.life = crashes /\ crashes \in Nat
  <2>1. n + 1 \in 1..Len(Told)
    BY <1>1
  <2>2. e \in EventType
    BY <1>1, <2>1
  <2>3. n = 0 \/ n \in 1..c
    BY <1>1
  <2>4. e.life = crashes
    BY <2>3, ToldFields
  <2>5. QED
    BY <2>2, <2>4 DEF TypeOK
<1>3. /\ m \in Seq(EventType) /\ Good(m) /\ Speaks(m) /\ Lives(m, crashes) /\ Len(m) = base + n
      /\ \A i \in 1..base : m[i] = log[i]
      /\ \A i \in 1..n : m[base + i] = Told[i]
      /\ n >= 1 => \A i \in n..c : Nth(Chosen, i) \in Fold(m).active
  BY DEF ToldSoFar
<1>4. Chosen \subseteq Overdue /\ Overdue \subseteq Folded.active
  BY ChosenDue DEF Overdue
<1>5. /\ Fits(Fold(m), e) /\ SaysFits(m, e)
      /\ \A i \in (n + 1)..c : Nth(Chosen, i) \in Apply(Fold(m), e).active
  <2>1. CASE n = 0
    <3>1. e.op = "remind" /\ e.due = {OccurrenceOf(r) : r \in Chosen}
      BY <2>1, ToldFields
    <3>2. m = log
      BY <1>1, <1>3, <2>1
    <3>3. ASSUME NEW j \in 1..base, log[j].due \cap e.due # {}
          PROVE  log[j].op = "remind" /\ log[j].life < e.life
      <4>1. PICK r \in Chosen : OccurrenceOf(r) \in log[j].due
        BY <3>1, <3>3
      <4> DEFINE o == OccurrenceOf(r)
      <4>2. /\ r \in Folded.active /\ r \in Overdue /\ o = <<r.id, OccurrenceAt(r, now)>>
            /\ OccurrenceAt(r, now) \in Nat /\ r.at <= OccurrenceAt(r, now) /\ r.at \in Nat
        BY <1>4, OccurrenceDue, ChosenDue
      <4>3. o[1] = r.id /\ o[2] = OccurrenceAt(r, now)
        BY <4>2
      <4> HIDE DEF o
      <4>4. ~(o[2] < r.at)
        BY <4>2, <4>3
      <4>5. Past(log, Folded)
        BY <1>1, GoodReads DEF Folded
      <4>6. ASSUME NEW i \in 1..base, log[i].op = "dispatch", o \in log[i].due
            PROVE  FALSE
        BY <4>2, <4>3, <4>4, <4>5, <4>6 DEF Past
      <4>7. log[j] \in EventType
        BY <1>1
      <4>8. log[j].op = "remind"
        <5>1. log[j].op # "dispatch"
          BY <4>1, <4>6 DEF o
        <5>2. log[j].op \notin {"create", "delete"}
          BY <4>1 DEF Speaks
        <5>3. QED
          BY <4>7, <5>1, <5>2 DEF EventType
      <4>9. log[j].life # crashes
        <5>1. SUFFICES ASSUME log[j].life = crashes
                       PROVE  FALSE
          OBVIOUS
        <5>2. \E i \in 1..base : log[i].op = "dispatch" /\ o \in log[i].due
          BY <4>1, <4>8, <5>1 DEF Answered, o
        <5>3. QED
          BY <4>6, <5>2
      <4>10. log[j].life \in Nat /\ log[j].life <= crashes
        BY <4>7 DEF EventType, Lives
      <4>11. QED
        BY <1>2, <4>8, <4>9, <4>10
    <3>4. SaysFits(m, e)
      BY <3>1, <3>2, <3>3 DEF SaysFits
    <3>5. Fits(Fold(m), e) /\ Apply(Fold(m), e) = Folded
      BY <3>1, <3>2 DEF Fits, Apply, Folded
    <3>6. \A i \in 1..c : Nth(Chosen, i) \in Chosen
      BY ToldFields
    <3>7. QED
      BY <1>4, <2>1, <3>4, <3>5, <3>6
  <2>2. CASE n # 0
    <3> DEFINE r == Nth(Chosen, n)
               s == Fold(m)
    <3>1. n \in 1..c /\ n \in n..c /\ n >= 1
      BY <1>1, <2>2
    <3>2. e.op = "dispatch" /\ e.due = {OccurrenceOf(r)} /\ Settles(r, now, e) /\ r \in Chosen
      BY <3>1, ToldFields
    <3>3. r \in s.active /\ s \in StateType /\ Sound(s) /\ now \in Nat
      BY <1>3, <3>1, GoodReads, ScheduleAssumption DEF TypeOK
    <3>4. Fits(s, e)
      BY <3>2, <3>3 DEF Fits
    <3>5. SaysFits(m, e)
      <4>1. Told[1].op = "remind" /\ OccurrenceOf(r) \in Told[1].due
        BY <3>2, ToldFields
      <4>2. base + 1 \in 1..Len(m) /\ m[base + 1] = Told[1]
        BY <1>1, <1>3, <3>1
      <4>3. QED
        BY <3>2, <4>1, <4>2 DEF SaysFits
    <3> HIDE DEF s
    <3>6. ASSUME NEW i \in (n + 1)..c
          PROVE  Nth(Chosen, i) \in Apply(s, e).active
      <4>1. i \in n..c /\ i \in 1..c /\ i # n
        BY <1>1, <3>6
      <4>2. Nth(Chosen, i) \in s.active
        BY <1>3, <3>1, <4>1 DEF s
      <4>3. Nth(Chosen, i) # r /\ Nth(Chosen, i) \in Chosen
        BY <3>1, <4>1, ChosenDue, NthEnumerates
      <4>4. Nth(Chosen, i).id # r.id
        BY <3>2, <4>3, ChosenDue DEF Ordered
      <4>5. \A q \in s.active : q.id # r.id => q \in Apply(s, e).active
        BY <1>2, <3>2, <3>3, DispatchKeeps
      <4>6. QED
        BY <4>2, <4>4, <4>5
    <3>7. QED
      BY <3>4, <3>5, <3>6 DEF s
  <2>3. QED
    BY <2>1, <2>2
<1>6. Good(w) /\ w \in Seq(EventType) /\ Fold(w) = Apply(Fold(m), e)
  BY <1>2, <1>3, <1>5, GoodAppend
<1>7. Speaks(w)
  BY <1>2, <1>3, <1>5, SpeaksAppend
<1>8. /\ Len(w) = base + n + 1 /\ w[base + n + 1] = e
      /\ \A i \in 1..base + n : w[i] = m[i]
  <2> HIDE DEF e, base
  <2>0. e \in EventType /\ m \in Seq(EventType)
    BY <1>2, <1>3
  <2>1. /\ Len(w) = Len(m) + 1 /\ w[Len(m) + 1] = e
        /\ \A i \in 1..Len(m) : w[i] = m[i]
    BY <2>0, PrefixAppend
  <2> HIDE DEF w
  <2>2. QED
    BY <1>3, <2>1
<1> HIDE DEF w, e, c, base
<1>9. Lives(w, crashes)
  <2>1. ASSUME NEW i \in 1..Len(w)
        PROVE  w[i].life <= crashes
    <3>1. CASE i = base + n + 1
      BY <1>2, <1>8, <3>1
    <3>2. CASE i # base + n + 1
      <4>1. i \in 1..base + n
        BY <1>1, <1>8, <3>2
      <4>2. QED
        BY <1>3, <1>8, <4>1 DEF Lives
    <3>3. QED
      BY <3>1, <3>2
  <2>2. QED
    BY <2>1 DEF Lives
<1>10. \A i \in 1..base : w[i] = log[i]
  BY <1>1, <1>3, <1>8
<1>11. ASSUME NEW i \in 1..n + 1
       PROVE  w[base + i] = Told[i]
  <2>1. CASE i = n + 1
    <3>1. base + i = base + n + 1
      BY <1>1, <2>1
    <3>2. QED
      BY <1>8, <2>1, <3>1 DEF e
  <2>2. CASE i # n + 1
    <3>1. i \in 1..n /\ base + i \in 1..base + n
      BY <1>1, <2>2
    <3>2. QED
      BY <1>3, <1>8, <3>1
  <2>3. QED
    BY <2>1, <2>2
<1>12. \A i \in (n + 1)..c : Nth(Chosen, i) \in Fold(w).active
  BY <1>5, <1>6
<1>13. Len(w) = base + (n + 1)
  BY <1>1, <1>8
<1>14. QED
  BY <1>6, <1>7, <1>9, <1>10, <1>11, <1>12, <1>13 DEF ToldSoFar, w, e, c, base

(* A longer prefix of a sequence appends one element more. *)
LEMMA OneMore ==
  ASSUME NEW S, NEW l \in Seq(S), NEW cl \in Seq(S), NEW k \in 1..Len(cl)
  PROVE  /\ l \o SubSeq(cl, 1, k) = Append(l \o SubSeq(cl, 1, k - 1), cl[k])
         /\ l \o SubSeq(cl, 1, k - 1) \in Seq(S) /\ cl[k] \in S
<1>1. k \in Nat /\ Len(cl) \in Nat /\ cl[k] \in S /\ 1 \in 1..Len(cl)
  OBVIOUS
<1>2. SubSeq(cl, 1, k) = SubSeq(cl, 1, k - 1) \o <<cl[k]>>
  BY <1>1, SubSeqRecursiveSecond
<1> DEFINE a == SubSeq(cl, 1, k - 1)
<1>3. a \in Seq(S)
  <2>1. \A i \in 1..k - 1 : cl[i] \in S
    BY <1>1
  <2>2. QED
    BY <1>1, <2>1, SubSeqProperties
<1> HIDE DEF a
<1>4. l \o (a \o <<cl[k]>>) = (l \o a) \o <<cl[k]>>
  BY <1>1, <1>3, ConcatAssociative
<1>5. l \o a \in Seq(S)
  BY <1>3, ConcatProperties
<1>6. (l \o a) \o <<cl[k]>> = Append(l \o a, cl[k])
  BY <1>1, <1>5
<1>7. QED
  BY <1>1, <1>2, <1>4, <1>5, <1>6 DEF a

(* However many of the events are in, the log is a good one. *)
LEMMA Telling ==
  ASSUME TypeOK, Good(log), Speaks(log), Lives(log, crashes), Answered(log, crashes),
         NEW n \in 0..Len(Told)
  PROVE  ToldSoFar(log \o SubSeq(Told, 1, n), n)
<1> DEFINE m(k) == log \o SubSeq(Told, 1, k)
           Wrong == {k \in 0..Len(Told) : ~ToldSoFar(m(k), k)}
<1>1. /\ Told \in Seq(EventType) /\ log \in Seq(EventType) /\ Len(Told) \in Nat
      /\ Len(Told) = Cardinality(Chosen) + 1 /\ Cardinality(Chosen) \in Nat
  BY ToldFields DEF TypeOK
<1>2. ToldSoFar(m(0), 0)
  <2>1. SubSeq(Told, 1, 0) = <<>>
    BY SubSeqEmpty
  <2>2. m(0) = log
    BY <1>1, <2>1, ConcatEmptySeq
  <2> HIDE DEF m
  <2>3. QED
    BY <1>1, <2>2 DEF ToldSoFar
<1>3. ASSUME NEW k \in 1..Len(Told), ToldSoFar(m(k - 1), k - 1)
      PROVE  ToldSoFar(m(k), k)
  <2>1. k - 1 \in 0..Cardinality(Chosen) /\ k - 1 + 1 = k
    BY <1>1
  <2>2. m(k) = Append(m(k - 1), Told[k])
    BY <1>1, OneMore
  <2> DEFINE p == k - 1
             u == m(p)
  <2>3. p \in 0..Cardinality(Chosen) /\ p + 1 = k /\ ToldSoFar(u, p) /\ m(k) = Append(u, Told[k])
    BY <1>3, <2>1, <2>2
  <2> HIDE DEF p, u, m
  <2>4. ToldSoFar(Append(u, Told[p + 1]), p + 1)
    BY <2>3, TellingStep
  <2>5. QED
    BY <2>3, <2>4
<1> HIDE DEF m
<1>4. CASE Wrong = {}
  <2>1. ToldSoFar(m(n), n)
    BY <1>4
  <2>2. QED
    BY <2>1 DEF m
<1>5. CASE Wrong # {}
  <2>1. Wrong \in SUBSET Nat
    BY <1>1
  <2>2. PICK k \in Wrong : \A j \in Wrong : k <= j
    BY <1>5, <2>1, Least
  <2>3. k \in 0..Len(Told) /\ ~ToldSoFar(m(k), k) /\ k # 0
    BY <1>2
  <2>4. k \in 1..Len(Told) /\ k - 1 \in 0..Len(Told) /\ ~(k <= k - 1)
    BY <1>1, <2>3
  <2>5. k - 1 \notin Wrong
    BY <2>2, <2>4
  <2>6. ToldSoFar(m(k - 1), k - 1)
    BY <2>4, <2>5
  <2>7. QED
    BY <1>3, <2>3, <2>4, <2>6
<1>6. QED
  BY <1>4, <1>5

(* When all are in, this life's reminders are dispatched. *)
LEMMA ToldAll ==
  ASSUME TypeOK, Good(log), Speaks(log), Lives(log, crashes), Answered(log, crashes)
  PROVE  ToldSoFar(log \o Told, Len(Told)) /\ Answered(log \o Told, crashes)
<1> DEFINE n == Len(Told)
           m == log \o Told
           base == Len(log)
<1>1. /\ Told \in Seq(EventType) /\ log \in Seq(EventType) /\ n \in Nat /\ base \in Nat
      /\ n = Cardinality(Chosen) + 1 /\ Cardinality(Chosen) \in Nat
  BY ToldFields DEF TypeOK
<1>2. ToldSoFar(m, n)
  <2>1. n \in 0..Len(Told) /\ SubSeq(Told, 1, n) = Told
    BY <1>1, SubSeqFull
  <2> HIDE DEF n
  <2>2. ToldSoFar(log \o SubSeq(Told, 1, n), n)
    BY <2>1, Telling
  <2>3. QED
    BY <2>1, <2>2
<1> HIDE DEF m, n, base
<1>3. /\ Len(m) = base + n /\ \A i \in 1..base : m[i] = log[i]
      /\ \A i \in 1..n : m[base + i] = Told[i]
  BY <1>2 DEF ToldSoFar, base
<1>4. ASSUME NEW j \in 1..Len(m), m[j].op = "remind", m[j].life = crashes, NEW o \in m[j].due
      PROVE  \E i \in 1..Len(m) : m[i].op = "dispatch" /\ o \in m[i].due
  <2>1. CASE j \in 1..base
    <3>1. PICK i \in 1..base : log[i].op = "dispatch" /\ o \in log[i].due
      BY <1>3, <1>4, <2>1 DEF Answered, base
    <3>2. i \in 1..Len(m) /\ m[i] = log[i]
      BY <1>1, <1>3
    <3>3. QED
      BY <3>1, <3>2
  <2>2. CASE j \notin 1..base
    <3> DEFINE k == j - base
    <3>1. k \in 1..n /\ j = base + k
      BY <1>1, <1>3, <2>2
    <3> HIDE DEF k
    <3>2. m[j] = Told[k]
      BY <1>3, <3>1
    <3>3. k = 1
      <4>1. CASE k # 1
        <5> DEFINE i == k - 1
        <5>1. i \in 1..Cardinality(Chosen) /\ k = i + 1
          BY <1>1, <3>1, <4>1
        <5> HIDE DEF i
        <5>2. Told[k].op = "dispatch"
          BY <5>1, ToldFields
        <5>3. QED
          BY <1>4, <3>2, <5>2
      <4>2. QED
        BY <4>1
    <3>4. PICK r \in Chosen : o = OccurrenceOf(r)
      BY <1>4, <3>2, <3>3, ToldFields
    <3>5. PICK i \in 1..Cardinality(Chosen) : Nth(Chosen, i) = r
      BY ChosenDue, NthEnumerates
    <3>6. Told[i + 1].op = "dispatch" /\ o \in Told[i + 1].due
      BY <3>4, <3>5, ToldFields
    <3>7. i + 1 \in 1..n /\ base + (i + 1) \in 1..Len(m)
      BY <1>1, <1>3
    <3>8. m[base + (i + 1)] = Told[i + 1]
      BY <1>3, <3>7
    <3>9. QED
      BY <3>6, <3>7, <3>8
  <2>3. QED
    BY <2>1, <2>2
<1>5. QED
  BY <1>2, <1>4 DEF Answered, m, n

-----------------------------------------------------------------------------
(* The parts the types are shown in. *)
LEMMA TypeParts == TypeOK /\ Lines /\ Covers <=> Lines /\ Covers /\ Plain
BY DEF TypeOK, Lines, Covers, Plain, Counts, Timed, Flags, AgentTyped

(* A line with at most one drive in it. *)
IsLine(l) == l \in Seq(TransactionType) /\ \A i, j \in 1..Len(l) : l[i] = Drive /\ l[j] = Drive => i = j
Drives(l) == \E i \in 1..Len(l) : l[i] = Drive

(* What becomes of a line when its first transaction is over. *)
LEMMA TailLine ==
  ASSUME NEW l, IsLine(l), l # <<>>
  PROVE  /\ IsLine(Tail(l)) /\ Head(l) = l[1] /\ 1 \in 1..Len(l) /\ Head(l) \in TransactionType
         /\ Drives(Tail(l)) => Drives(l) /\ Head(l) # Drive
<1>1. /\ l \in Seq(TransactionType) /\ Tail(l) \in Seq(TransactionType) /\ Len(Tail(l)) = Len(l) - 1
      /\ Head(l) \in TransactionType /\ Head(l) = l[1] /\ Len(l) \in Nat \ {0}
      /\ \A i \in 1..Len(Tail(l)) : Tail(l)[i] = l[i + 1]
  BY HeadTailProperties, EmptySeq, LenProperties DEF IsLine
<1>2. \A i \in 1..Len(Tail(l)) : i + 1 \in 1..Len(l) /\ i + 1 # 1 /\ i \in Nat
  BY <1>1
<1>3. 1 \in 1..Len(l)
  BY <1>1
<1>4. ASSUME NEW i \in 1..Len(Tail(l)), NEW j \in 1..Len(Tail(l)), Tail(l)[i] = Drive, Tail(l)[j] = Drive
      PROVE  i = j
  <2>1. l[i + 1] = Drive /\ l[j + 1] = Drive
    BY <1>1, <1>4
  <2>2. i + 1 = j + 1
    BY <1>2, <2>1 DEF IsLine
  <2>3. QED
    BY <1>2, <2>2
<1>5. ASSUME NEW i \in 1..Len(Tail(l)), Tail(l)[i] = Drive
      PROVE  Drives(l) /\ Head(l) # Drive
  <2>1. i + 1 \in 1..Len(l) /\ l[i + 1] = Drive /\ i + 1 # 1
    BY <1>1, <1>2, <1>5
  <2>2. QED
    BY <1>1, <1>3, <2>1 DEF IsLine, Drives
<1>6. QED
  BY <1>1, <1>3, <1>4, <1>5 DEF IsLine, Drives

(* What becomes of one that grows. *)
LEMMA LongerLine ==
  ASSUME NEW l, IsLine(l), NEW t \in TransactionType, t = Drive => ~Drives(l)
  PROVE  /\ IsLine(Append(l, t)) /\ Append(l, t) # <<>>
         /\ l # <<>> => Head(Append(l, t)) = Head(l)
         /\ t # Drive => \A i \in 1..Len(Append(l, t)) : Append(l, t)[i] = Drive => i \in 1..Len(l) /\ l[i] = Drive
<1> DEFINE m == Append(l, t)
<1>1. /\ l \in Seq(TransactionType) /\ m \in Seq(TransactionType) /\ Len(m) = Len(l) + 1 /\ Len(l) \in Nat
      /\ m[Len(l) + 1] = t /\ \A i \in 1..Len(l) : m[i] = l[i]
  BY AppendProperties DEF IsLine
<1>2. m # <<>>
  BY <1>1
<1>3. l # <<>> => Head(m) = Head(l)
  BY <1>1
<1> HIDE DEF m
<1>4. \A i \in 1..Len(m) : i = Len(l) + 1 \/ i \in 1..Len(l)
  BY <1>1
<1>5. ASSUME NEW i \in 1..Len(m), NEW j \in 1..Len(m), m[i] = Drive, m[j] = Drive
      PROVE  i = j
  BY <1>1, <1>4, <1>5 DEF IsLine, Drives
<1>6. \A i \in 1..Len(m) : m[i] = Drive /\ t # Drive => i \in 1..Len(l) /\ l[i] = Drive
  BY <1>1, <1>4
<1>7. QED
  BY <1>1, <1>2, <1>3, <1>5, <1>6 DEF IsLine, m

(* The line as Lines speaks of it. *)
LEMMA LineNow ==
  ASSUME Lines
  PROVE  /\ IsLine(line) /\ (Driving <=> Drives(line)) /\ Drive \in TransactionType
         /\ faulted /\ stage # "queued" => ~Drives(line)
         /\ faulted /\ line # <<>> => ~Drives(Tail(line))
<1>1. IsLine(line) /\ (Driving <=> Drives(line)) /\ Drive \in TransactionType
  BY DEF Lines, IsLine, Driving, Drives, TransactionType
<1>2. faulted /\ stage # "queued" => ~Drives(line)
  BY DEF Lines, Drives
<1>3. ASSUME faulted, line # <<>>
      PROVE  ~Drives(Tail(line))
  <2>1. /\ Head(line) = line[1] /\ 1 \in 1..Len(line)
        /\ Drives(Tail(line)) => Drives(line) /\ Head(line) # Drive
    BY <1>1, <1>3, TailLine
  <2>2. Drives(line) => line[1] = Drive
    BY <1>3 DEF Lines, Drives
  <2>3. QED
    BY <2>1, <2>2
<1>4. QED
  BY <1>1, <1>2, <1>3

(* What Lines asks of a line and of where its first transaction stands. *)
LineFits(l, st, ag, fl) ==
  /\ IsLine(l)
  /\ st \in {"waiting", "preflight", "queued", "barrier"} /\ (l = <<>> => st = "waiting")
  /\ ag = "ours" <=> st = "queued"
  /\ st = "queued" => l # <<>> /\ Head(l) = Drive
  /\ fl => st = "queued" \/ ~Drives(l)

LEMMA LineIs == Lines <=> LineFits(line, stage, agent, faulted)
<1>1. ASSUME Lines
      PROVE  LineFits(line, stage, agent, faulted)
  BY <1>1, LineNow DEF Lines, LineFits
<1>2. ASSUME LineFits(line, stage, agent, faulted)
      PROVE  Lines
  <2>1. IsLine(line)
    BY <1>2 DEF LineFits
  <2>2. ASSUME faulted, NEW i \in DOMAIN line, line[i] = Drive
        PROVE  i = 1 /\ stage = "queued"
    <3>1. i \in 1..Len(line)
      BY <2>1 DEF IsLine
    <3>2. stage = "queued" /\ line # <<>> /\ Head(line) = Drive
      BY <1>2, <2>2, <3>1 DEF LineFits, Drives
    <3>3. line[1] = Drive /\ 1 \in 1..Len(line)
      BY <2>1, <3>2, TailLine
    <3>4. QED
      BY <2>1, <2>2, <3>1, <3>2, <3>3 DEF IsLine
  <2>3. DOMAIN line = 1..Len(line)
    BY <2>1 DEF IsLine
  <2>4. QED
    BY <1>2, <2>2, <2>3 DEF LineFits, Lines, IsLine
<1>3. QED
  BY <1>1, <1>2

(* requestDrive leaves a line in order. *)
LEMMA RequestedLine ==
  ASSUME Lines, NEW l, l = line \/ (line # <<>> /\ l = Tail(line)), RequestDrive(l)
  PROVE  /\ IsLine(line')
         /\ l # <<>> => line' # <<>> /\ Head(line') = Head(l)
         /\ faulted /\ ~Drives(l) => ~Drives(line')
         /\ l = line /\ faulted => line' = line
<1>1. IsLine(l) /\ (Drives(l) => Drives(line))
  BY LineNow, TailLine
<1>2. Drive \in TransactionType /\ (Driving <=> Drives(line))
  BY LineNow
<1>3. CASE Heard /\ ~Driving
  <2>1. line' = Append(l, Drive) /\ ~Drives(l) /\ ~faulted
    BY <1>1, <1>2, <1>3 DEF RequestDrive, Heard
  <2>2. QED
    BY <1>1, <1>2, <2>1, LongerLine
<1>4. CASE ~(Heard /\ ~Driving)
  BY <1>1, <1>4 DEF RequestDrive
<1>5. QED
  BY <1>3, <1>4

(* And so does the end of a drive; a failed runtime is not driven again.   *)
LEMMA EndedLine ==
  ASSUME Lines, line # <<>>, Head(line) = Drive, NEW again \in BOOLEAN, NEW failed, EndDrive(again, failed),
         faulted => ~again
  PROVE  IsLine(line') /\ stage' = "waiting" /\ (faulted => ~Drives(line'))
<1>1. IsLine(Tail(line)) /\ ~Drives(Tail(line)) /\ Drive \in TransactionType
  BY LineNow, TailLine
<1>2. CASE again
  <2>1. line' = Append(Tail(line), Drive) /\ ~faulted
    BY <1>2 DEF EndDrive
  <2>2. QED
    BY <1>1, <2>1, LongerLine DEF EndDrive
<1>3. CASE ~again
  BY <1>1, <1>3 DEF EndDrive
<1>4. QED
  BY <1>2, <1>3

(* The first transaction, and whether it is a drive. *)
LEMMA HeadIs ==
  ASSUME Lines, line # <<>>
  PROVE  Head(line) \in TransactionType /\ (Head(line) = Drive <=> Head(line).op = "drive")
<1>1. Head(line) \in TransactionType
  BY LineNow, TailLine
<1>2. \A t \in TransactionType : t = Drive <=> t.op = "drive"
  BY DEF TransactionType, Transaction, Drive
<1>3. QED
  BY <1>1, <1>2

LEMMA LinesThen == Lines' <=> LineFits(line, stage, agent, faulted)'
BY LineIs, PTL

(* A line that is not at a maintenance task of ours. *)
LEMMA Unqueued ==
  ASSUME IsLine(line'), stage' \in {"waiting", "preflight", "barrier"},
         line' = <<>> => stage' = "waiting", agent' # "ours", faulted' => ~Drives(line')
  PROVE  Lines'
<1>1. LineFits(line', stage', agent', faulted')
  BY DEF LineFits
<1>2. QED
  BY <1>1, LinesThen

(* The transactions of calls, up to what follows their first flush. *)
LEMMA CallLines ==
  ASSUME Lines,
         \/ Starts \/ NeverStarts \/ FlushFails
         \/ CallChanges \/ CallRefused \/ CallAnswers
  PROVE  Lines'
<1>1. IsLine(line) /\ (faulted /\ stage # "queued" => ~Drives(line))
  BY LineNow
<1>2. stage # "queued" => agent # "ours"
  BY DEF Lines
<1>3. CASE Starts
  <2>1. line # <<>> /\ stage = "waiting" /\ stage' = "preflight" /\ line' = line
        /\ agent' = agent /\ faulted' = faulted
    BY <1>3 DEF Starts, agentVars
  <2>2. QED
    BY <1>1, <1>2, <2>1, Unqueued
<1>4. ASSUME line # <<>>, Head(line) = Drive, stage # "queued", agent' = agent, faulted' = faulted,
             NEW failed \in BOOLEAN, EndDrive(Again, failed)
      PROVE  Lines'
  <2>1. Again \in BOOLEAN /\ (faulted => ~Again)
    BY DEF Again, Heard
  <2>2. IsLine(line') /\ stage' = "waiting" /\ (faulted => ~Drives(line'))
    BY <1>4, <2>1, EndedLine
  <2>3. QED
    BY <1>2, <1>4, <2>2, Unqueued
<1>5. ASSUME line # <<>>, stage # "queued", line' = Tail(line), EndCall, agent' = agent, faulted' = faulted
      PROVE  Lines'
  <2>1. IsLine(line') /\ (faulted => ~Drives(line'))
    BY <1>1, <1>5, TailLine
  <2>2. QED
    BY <1>2, <1>5, <2>1, Unqueued DEF EndCall
<1>6. CASE NeverStarts
  <2>1. line # <<>> /\ stage = "waiting" /\ agent' = agent /\ faulted' = faulted
    BY <1>6 DEF NeverStarts, agentVars
  <2>2. CASE Head(line) = Drive
    <3>1. EndDrive(Again, FALSE)
      BY <1>6, <2>2 DEF NeverStarts
    <3>2. QED
      BY <1>4, <2>1, <2>2, <3>1
  <2>3. CASE Head(line) # Drive
    <3>1. line' = Tail(line) /\ EndCall
      BY <1>6, <2>3 DEF NeverStarts
    <3>2. QED
      BY <1>5, <2>1, <3>1
  <2>4. QED
    BY <2>2, <2>3
<1>7. CASE FlushFails
  <2>1. line # <<>> /\ stage # "queued" /\ agent' = agent /\ faulted' = faulted
    BY <1>7 DEF FlushFails, Flushing, agentVars
  <2>2. CASE Head(line) = Drive
    <3>1. EndDrive(Again, TRUE)
      BY <1>7, <2>2 DEF FlushFails
    <3>2. QED
      BY <1>4, <2>1, <2>2, <3>1
  <2>3. CASE Head(line) # Drive
    <3>1. line' = Tail(line) /\ EndCall
      BY <1>7, <2>3 DEF FlushFails
    <3>2. QED
      BY <1>5, <2>1, <3>1
  <2>4. QED
    BY <2>2, <2>3
<1>8. CASE CallChanges
  <2>1. /\ line # <<>> /\ stage # "queued" /\ stage' = "barrier" /\ RequestDrive(line)
        /\ agent' = agent /\ faulted' = faulted
    BY <1>8 DEF CallChanges, Flushing, agentVars
  <2>2. IsLine(line') /\ line' # <<>> /\ (faulted => ~Drives(line'))
    BY <1>1, <2>1, RequestedLine
  <2>3. QED
    BY <1>2, <2>1, <2>2, Unqueued
<1>9. CASE CallRefused \/ CallAnswers
  <2>1. /\ line # <<>> /\ stage # "queued" /\ stage' = "waiting" /\ RequestDrive(Tail(line))
        /\ agent' = agent /\ faulted' = faulted
    BY <1>9 DEF CallRefused, CallAnswers, Flushing, EndCall, agentVars
  <2>2. faulted => ~Drives(Tail(line))
    BY <1>1, <2>1, TailLine
  <2>3. IsLine(line') /\ (faulted => ~Drives(line'))
    BY <2>1, <2>2, RequestedLine
  <2>4. QED
    BY <1>2, <2>1, <2>3, Unqueued
<1>10. QED
  BY <1>3, <1>6, <1>7, <1>8, <1>9

(* The transactions of drives. *)
LEMMA DriveLines ==
  ASSUME Lines,
         \/ Arms \/ WaitsForIdle \/ Dispatch \/ DispatchRefused \/ ReminderFails
         \/ OursEnds \/ Dispatched
  PROVE  Lines'
<1>1. IsLine(line) /\ (faulted /\ stage # "queued" => ~Drives(line))
  BY LineNow
<1>2. stage = "queued" <=> agent = "ours"
  BY DEF Lines
<1>3. ASSUME line # <<>>, Head(line) = Drive, agent' # "ours", faulted' = faulted,
             NEW again \in BOOLEAN, faulted => ~again, NEW failed \in BOOLEAN, EndDrive(again, failed)
      PROVE  Lines'
  <2>1. IsLine(line') /\ stage' = "waiting" /\ (faulted => ~Drives(line'))
    BY <1>3, EndedLine
  <2>2. QED
    BY <1>3, <2>1, Unqueued
<1>4. Again \in BOOLEAN /\ (faulted => ~Again)
  BY DEF Again, Heard
<1>5. ASSUME Flushing("drive")
      PROVE  line # <<>> /\ Head(line) = Drive /\ stage # "queued" /\ agent # "ours"
  BY <1>2, <1>5, HeadIs DEF Flushing
<1>6. CASE Arms \/ WaitsForIdle \/ ReminderFails
  <2>1. Flushing("drive") /\ agent' = agent /\ faulted' = faulted
        /\ (EndDrive(Again, FALSE) \/ EndDrive(Again, TRUE))
    BY <1>6 DEF Arms, WaitsForIdle, ReminderFails, Preflighted, agentVars
  <2>2. QED
    BY <1>3, <1>4, <1>5, <2>1
<1>7. CASE Dispatch \/ DispatchRefused
  <2>1. Flushing("drive") /\ agent' = "ours" /\ stage' = "queued" /\ line' = line
    BY <1>7 DEF Dispatch, DispatchRefused, Maintains, Preflighted
  <2>2. LineFits(line', stage', agent', faulted')
    BY <1>1, <1>5, <2>1 DEF LineFits
  <2>3. QED
    BY <2>2, LinesThen
<1>8. CASE OursEnds
  <2>1. agent = "ours" /\ agent' # "ours" /\ faulted' = faulted /\ line # <<>> /\ Head(line) = Drive
    BY <1>2, <1>8 DEF OursEnds, Lines
  <2>2. CASE ~faulted
    <3>1. stage' = "barrier" /\ line' = line
      BY <1>8, <2>2 DEF OursEnds
    <3>2. QED
      BY <1>1, <2>1, <2>2, <3>1, Unqueued
  <2>3. CASE faulted
    <3>1. EndDrive(FALSE, FALSE)
      BY <1>8, <2>3 DEF OursEnds
    <3>2. QED
      BY <1>3, <2>1, <3>1
  <2>4. QED
    BY <2>2, <2>3
<1>9. CASE Dispatched
  <2> DEFINE again == (requested \/ IsRunnable) /\ Heard
  <2>1. again \in BOOLEAN /\ (faulted => ~again)
    BY DEF Heard
  <2>2. Flushing("drive") /\ EndDrive(again, FALSE) /\ agent' = agent /\ faulted' = faulted
    BY <1>9 DEF Dispatched, agentVars
  <2> HIDE DEF again
  <2>3. QED
    BY <1>3, <1>5, <2>1, <2>2
<1>10. QED
  BY <1>6, <1>7, <1>8, <1>9

(* What others do with the line. *)
LEMMA OtherLines ==
  ASSUME Lines, Wakes \/ AgentEnds \/ Tick \/ Others \/ UNCHANGED vars
  PROVE  Lines'
<1>1. IsLine(line) /\ (faulted /\ stage # "queued" => ~Drives(line)) /\ LineFits(line, stage, agent, faulted)
  BY LineNow, LineIs
<1>2. stage = "queued" <=> agent = "ours"
  BY DEF Lines
<1>3. ASSUME line' = line, stage' = stage, agent' = "ours" <=> agent = "ours", faulted' = faulted
      PROVE  Lines'
  <2>1. LineFits(line', stage', agent', faulted')
    BY <1>1, <1>3 DEF LineFits
  <2>2. QED
    BY <2>1, LinesThen
<1>4. ASSUME RequestDrive(line), stage' = stage, agent' = "ours" <=> agent = "ours", faulted' = faulted
      PROVE  Lines'
  <2>1. /\ IsLine(line') /\ (line # <<>> => line' # <<>> /\ Head(line') = Head(line))
        /\ (faulted => line' = line)
        /\ (line = <<>> => stage = "waiting")
    BY <1>1, <1>4, RequestedLine DEF LineFits
  <2>2. LineFits(line', stage', agent', faulted')
    BY <1>1, <1>4, <2>1 DEF LineFits
  <2>3. QED
    BY <2>2, LinesThen
<1>5. CASE Wakes
  <2>1. RequestDrive(line) /\ stage' = stage /\ agent' = agent /\ faulted' = faulted
    BY <1>5 DEF Wakes, IdleWaitSettles, TimerFires, agentVars
  <2>2. QED
    BY <1>4, <2>1
<1>6. CASE TurnEnds
  <2>1. agent = "turn" /\ agent' = "idle" /\ stage' = stage /\ faulted' = faulted
        /\ (RequestDrive(line) \/ line' = line)
    BY <1>6 DEF TurnEnds
  <2>2. QED
    BY <1>3, <1>4, <2>1
<1>7. CASE \/ JobEnds \/ TurnBegins \/ JobBegins \/ Tick \/ Dispose \/ SetClock \/ Cancel
           \/ UNCHANGED vars
  <2>1. line' = line /\ stage' = stage /\ faulted' = faulted /\ (agent' = "ours" <=> agent = "ours")
    BY <1>7 DEF JobEnds, TurnBegins, JobBegins, Tick, Dispose, SetClock, Cancel, vars, transactions,
                runtime, agentVars
  <2>2. QED
    BY <1>3, <2>1
<1>8. CASE Call
  <2>1. PICK t \in TransactionType \ {Drive} : line' = Append(line, t)
    <3>1. \A op \in {"create", "list", "delete"}, id \in Nat :
            Transaction(op, id) \in TransactionType \ {Drive}
      BY DEF Transaction, TransactionType, Drive
    <3>2. \A id \in 1..(MaxCalls + 1) : id \in Nat
      BY ScheduleAssumption
    <3>3. 0 \in Nat /\ {"create", "list"} \subseteq {"create", "list", "delete"}
      OBVIOUS
    <3>4. QED
      BY <1>8, <3>1, <3>2, <3>3 DEF Call
  <2>2. stage' = stage /\ agent' = agent /\ faulted' = faulted /\ agent = "turn"
    BY <1>8 DEF Call, runtime, agentVars
  <2>3. /\ IsLine(line') /\ line' # <<>>
        /\ \A i \in 1..Len(line') : line'[i] = Drive => i \in 1..Len(line) /\ line[i] = Drive
    BY <1>1, <2>1, LongerLine
  <2>4. stage # "queued" /\ stage \in {"waiting", "preflight", "queued", "barrier"}
    BY <1>2, <2>2 DEF Lines
  <2>5. faulted => ~Drives(line')
    BY <1>1, <2>3, <2>4 DEF Drives
  <2>6. QED
    BY <2>2, <2>3, <2>4, <2>5, Unqueued
<1>9. CASE Crash
  <2>1. line' = <<Drive>> /\ stage' = "waiting" /\ agent' = "idle" /\ faulted' = FALSE
    BY <1>9 DEF Crash
  <2>2. IsLine(<<Drive>>)
    BY LineNow DEF IsLine
  <2>3. QED
    BY <2>1, <2>2, Unqueued
<1>10. QED
  BY <1>5, <1>6, <1>7, <1>8, <1>9 DEF AgentEnds, Others

-----------------------------------------------------------------------------
(* A record asked for is of a new id, and tells of nothing. *)
LEMMA CreationFits ==
  ASSUME crashes \in Nat, now \in Nat, NEW l \in Seq(EventType), Good(l),
         NEW change \in Creations(Cardinality(Fold(l).seen) + 1)
  PROVE  /\ change \in EventType /\ change.op = "create" /\ change.life = crashes
         /\ Fits(Fold(l), change) /\ SaysFits(l, change)
<1> DEFINE id == Cardinality(Fold(l).seen) + 1
<1>1. LastInstant \in Nat /\ Intervals \subseteq Nat \ {0}
  BY ScheduleAssumption
<1>2. ASSUME NEW at \in Nat, NEW every \in Nat, id \in Nat, change = Event("create", id, at, every, {})
      PROVE  /\ change \in EventType /\ change.op = "create" /\ change.life = crashes
             /\ change.id = id /\ change.at = at /\ change.due = {}
  <2> HIDE DEF id
  <2>1. change = [op |-> "create", id |-> id, at |-> at, every |-> every, due |-> {}, life |-> crashes]
    BY <1>2 DEF Event
  <2>2. QED
    BY <1>2, <2>1 DEF EventType
<1>3. id \in Nat
  <2>1. Sound(Fold(l))
    BY GoodReads
  <2>2. Cardinality(Fold(l).seen) \in Nat
    BY <2>1, FS_CardinalityType DEF Sound
  <2>3. QED
    BY <2>2
<1>4. change \in Creations(id)
  OBVIOUS
<1> HIDE DEF id
<1>5. \E at \in Nat, every \in Nat : change = Event("create", id, at, every, {})
  <2>1. CASE change \in {Event("create", id, at, 0, {}) : at \in (now + 1)..LastInstant}
    <3>1. \A at \in (now + 1)..LastInstant : at \in Nat /\ 0 \in Nat
      BY <1>1
    <3>2. QED
      BY <2>1, <3>1
  <2>2. CASE change \in {Event("create", id, now + every, every, {}) :
                           every \in {i \in Intervals : now + i <= LastInstant}}
    <3>1. PICK every \in Intervals : change = Event("create", id, now + every, every, {})
      BY <2>2
    <3>2. every \in Nat /\ now + every \in Nat
      BY <1>1
    <3>3. QED
      BY <3>1, <3>2
  <2>3. QED
    BY <1>4, <2>1, <2>2 DEF Creations
<1>6. PICK at \in Nat, every \in Nat : change = Event("create", id, at, every, {})
  BY <1>5
<1>7. /\ change \in EventType /\ change.op = "create" /\ change.life = crashes /\ change.id = id
      /\ change.at \in Nat /\ change.due = {}
  BY <1>2, <1>3, <1>6
<1>8. Fits(Fold(l), change) /\ SaysFits(l, change)
  BY <1>7 DEF Fits, SaysFits, id
<1>9. QED
  BY <1>7, <1>8

(* What the tools append may follow the log. *)
LEMMA ChangeFits ==
  ASSUME IInv, line # <<>>, Head(line).op \in {"create", "delete"},
         Head(line).op = "delete" => Known(Head(line).id),
         NEW change \in Changes(Head(line))
  PROVE  /\ change \in EventType /\ change.op \in {"create", "delete"} /\ change.life = crashes
         /\ Fits(Folded, change) /\ SaysFits(log, change)
<1>1. crashes \in Nat /\ now \in Nat /\ LastInstant \in Nat /\ Intervals \subseteq Nat \ {0}
      /\ log \in Seq(EventType) /\ Good(log)
  BY ScheduleAssumption DEF IInv, TypeOK, Records
<1>2. ASSUME NEW op \in {"create", "delete"}, NEW id \in Nat, NEW at \in Nat, NEW every \in Nat,
             change = Event(op, id, at, every, {})
      PROVE  /\ change \in EventType /\ change.op = op /\ change.life = crashes
             /\ change.id = id /\ change.at = at /\ change.due = {}
  <2>1. change = [op |-> op, id |-> id, at |-> at, every |-> every, due |-> {}, life |-> crashes]
    BY <1>2 DEF Event
  <2>2. QED
    BY <1>1, <2>1 DEF EventType
<1>3. CASE Head(line).op = "delete"
  <2> DEFINE id == Head(line).id
  <2>1. id \in Nat
    <3>1. Head(line) \in TransactionType
      BY HeadIs DEF IInv
    <3>2. \A t \in TransactionType : t.id \in Nat
      BY DEF TransactionType, Transaction, Drive
    <3>3. QED
      BY <3>1, <3>2
  <2>2. change = Event("delete", id, 0, 0, {})
    BY <1>3 DEF Changes
  <2>3. \E r \in Folded.active : r.id = id
    BY <1>3 DEF Known
  <2> HIDE DEF id
  <2>4. change \in EventType /\ change.op = "delete" /\ change.life = crashes /\ change.id = id /\ change.due = {}
    BY <1>2, <2>1, <2>2
  <2>5. Fits(Folded, change) /\ SaysFits(log, change)
    BY <2>3, <2>4 DEF Fits, SaysFits
  <2>6. QED
    BY <2>4, <2>5
<1>4. CASE Head(line).op # "delete"
  <2>1. change \in Creations(Cardinality(Fold(log).seen) + 1)
    BY <1>4 DEF Changes, Folded
  <2>2. QED
    BY <1>1, <2>1, CreationFits DEF Folded
<1>5. QED
  BY <1>3, <1>4

(* It keeps what is known of the log. *)
LEMMA ChangeRecords ==
  ASSUME IInv, CallChanges
  PROVE  log' \in Seq(EventType) /\ Len(log') = Len(log) + 1 /\ log'[Len(log) + 1].op # "remind" /\ Records'
<1>1. /\ line # <<>> /\ Head(line).op \in {"create", "delete"}
      /\ Head(line).op = "delete" => Known(Head(line).id)
      /\ crashes' = crashes /\ faulted' = faulted
  BY DEF CallChanges, Flushing
<1>2. PICK change \in Changes(Head(line)) : log' = Append(log, change)
  BY DEF CallChanges
<1> DEFINE m == Append(log, change)
<1>3. /\ change \in EventType /\ change.op \in {"create", "delete"} /\ change.life = crashes
      /\ Fits(Folded, change) /\ SaysFits(log, change)
  BY <1>1, ChangeFits
<1>4. /\ log \in Seq(EventType) /\ Good(log) /\ Speaks(log) /\ Lives(log, crashes) /\ crashes \in Nat
      /\ ~faulted => Answered(log, crashes)
  BY DEF IInv, TypeOK, Records
<1>5. m \in Seq(EventType) /\ Good(m)
  BY <1>3, <1>4, GoodAppend DEF Folded
<1>6. Speaks(m)
  BY <1>3, <1>4, SpeaksAppend
<1>7. /\ Len(m) = Len(log) + 1 /\ m[Len(log) + 1] = change /\ Len(log) \in Nat
      /\ \A i \in 1..Len(log) : m[i] = log[i]
  BY <1>3, <1>4, PrefixAppend
<1> HIDE DEF m
<1>8. \A i \in 1..Len(m) : i = Len(log) + 1 \/ i \in 1..Len(log)
  BY <1>7
<1>9. Lives(m, crashes)
  BY <1>3, <1>4, <1>7, <1>8 DEF Lives
<1>10. ASSUME ~faulted
       PROVE  Answered(m, crashes)
  <2>1. ASSUME NEW j \in 1..Len(m), m[j].op = "remind", m[j].life = crashes, NEW o \in m[j].due
        PROVE  \E i \in 1..Len(m) : m[i].op = "dispatch" /\ o \in m[i].due
    <3>1. j \in 1..Len(log) /\ m[j] = log[j]
      BY <1>3, <1>7, <1>8, <2>1
    <3>2. PICK i \in 1..Len(log) : log[i].op = "dispatch" /\ o \in log[i].due
      BY <1>4, <1>10, <2>1, <3>1 DEF Answered
    <3>3. i \in 1..Len(m) /\ m[i] = log[i]
      BY <1>7
    <3>4. QED
      BY <3>2, <3>3
  <2>2. QED
    BY <2>1 DEF Answered
<1>11. Good(log') /\ Speaks(log') /\ Lives(log', crashes') /\ (~faulted' => Answered(log', crashes'))
  BY <1>1, <1>2, <1>5, <1>6, <1>9, <1>10 DEF m
<1>12. QED
  BY <1>2, <1>3, <1>5, <1>7, <1>11 DEF Records, m

(* The runtime acts for a drive, and has not failed. *)
LEMMA Acting ==
  ASSUME IInv, Maintains
  PROVE  /\ ~faulted /\ Answered(log, crashes) /\ mark = Len(log) /\ crashes' = crashes
         /\ log \in Seq(EventType) /\ Good(log) /\ Speaks(log) /\ Lives(log, crashes) /\ TypeOK
         /\ Overdue # {}
<1>1. line # <<>> /\ Head(line).op = "drive" /\ stage = "preflight" /\ Overdue # {} /\ crashes' = crashes
  BY DEF Maintains, Preflighted, Flushing
<1>2. Head(line) = Drive /\ 1 \in 1..Len(line) /\ line[1] = Drive
  BY <1>1, HeadIs, LineNow, TailLine DEF IInv
<1>3. ~faulted
  BY <1>1, <1>2, LineNow DEF IInv, Drives
<1>4. mark = Len(log)
  BY <1>1 DEF IInv, Covers
<1>5. QED
  BY <1>1, <1>3, <1>4 DEF IInv, TypeOK, Records

(* All of its events are in: a reminder, and what dispatches it. *)
LEMMA DispatchRecords ==
  ASSUME IInv, Dispatch
  PROVE  log' \in Seq(EventType) /\ Len(log') >= Len(log) + 1 /\ log'[Len(log) + 1] = Told[1] /\ Records'
<1>1. Maintains /\ log' = log \o Told /\ faulted' = faulted
  BY DEF Dispatch
<1> DEFINE m == log \o Told
<1>2. ToldSoFar(m, Len(Told)) /\ Answered(m, crashes)
  BY <1>1, Acting, ToldAll
<1>3. Len(Told) \in Nat /\ Len(Told) >= 1 /\ Len(log) \in Nat
  BY <1>1, Acting, ToldFields
<1> HIDE DEF m
<1>4. 1 \in 1..Len(Told)
  BY <1>3
<1>5. m \in Seq(EventType) /\ Len(m) >= Len(log) + 1 /\ m[Len(log) + 1] = Told[1]
  BY <1>2, <1>3, <1>4 DEF ToldSoFar
<1>6. Good(m) /\ Speaks(m) /\ Lives(m, crashes)
  BY <1>2 DEF ToldSoFar
<1>7. crashes' = crashes
  BY <1>1, Acting
<1>8. QED
  BY <1>1, <1>2, <1>5, <1>6, <1>7 DEF Records, m

(* Only some of them are: the runtime has failed. *)
LEMMA RefusedRecords ==
  ASSUME IInv, DispatchRefused
  PROVE  log' \in Seq(EventType) /\ Len(log') >= Len(log) + 1 /\ log'[Len(log) + 1] = Told[1] /\ Records'
<1>1. Maintains /\ faulted' = TRUE
  BY DEF DispatchRefused
<1>2. PICK n \in 1..(Len(Told) - 1) : log' = log \o SubSeq(Told, 1, n)
  BY DEF DispatchRefused
<1> DEFINE m == log \o SubSeq(Told, 1, n)
<1>3. Len(Told) \in Nat /\ Len(log) \in Nat
  BY <1>1, Acting, ToldFields
<1>4. n \in 0..Len(Told) /\ n \in Nat /\ n >= 1
  BY <1>3
<1>5. ToldSoFar(m, n)
  BY <1>1, <1>4, Acting, Telling
<1> HIDE DEF m
<1>6. 1 \in 1..n
  BY <1>4
<1>7. m \in Seq(EventType) /\ Len(m) >= Len(log) + 1 /\ m[Len(log) + 1] = Told[1]
  BY <1>3, <1>4, <1>5, <1>6 DEF ToldSoFar
<1>8. Good(m) /\ Speaks(m) /\ Lives(m, crashes)
  BY <1>5 DEF ToldSoFar
<1>9. crashes' = crashes
  BY <1>1, Acting
<1>10. QED
  BY <1>1, <1>2, <1>7, <1>8, <1>9 DEF Records, m

(* A crash leaves a prefix, to which another life follows. *)
LEMMA CrashRecords ==
  ASSUME IInv, Crash
  PROVE  log' \in Seq(EventType) /\ Len(log') <= Len(log) /\ saved' = Len(log') /\ Records'
<1>1. PICK kept \in saved..Len(log) : log' = SubSeq(log, 1, kept) /\ saved' = kept
  BY DEF Crash
<1>2. crashes' = crashes + 1 /\ crashes \in Nat /\ log \in Seq(EventType) /\ saved \in Nat /\ Len(log) \in Nat
  BY DEF Crash, IInv, TypeOK
<1>3. kept \in 0..Len(log) /\ kept <= Len(log)
  BY <1>2
<1> DEFINE p == Prefix(log, kept)
<1>4. /\ p \in Seq(EventType) /\ Len(p) = kept /\ \A i \in 1..kept : p[i] = log[i]
      /\ Good(p) /\ Speaks(p)
  BY <1>2, <1>3, PrefixOf, GoodPrefix, SpeaksPrefix DEF IInv, Records
<1>5. log' = p
  BY <1>1 DEF Prefix
<1> HIDE DEF p
<1>6. ASSUME NEW i \in 1..Len(p)
      PROVE  p[i].life \in Nat /\ p[i].life <= crashes
  <2>1. i \in 1..kept /\ i \in 1..Len(log)
    BY <1>2, <1>3, <1>4
  <2>2. p[i] = log[i] /\ log[i] \in EventType /\ log[i].life <= crashes
    BY <1>2, <1>4, <2>1 DEF IInv, Records, Lives
  <2>3. QED
    BY <2>2 DEF EventType
<1>7. Lives(p, crashes')
  BY <1>2, <1>6 DEF Lives
<1>8. Answered(p, crashes')
  <2>1. \A i \in 1..Len(p) : p[i].life # crashes'
    BY <1>2, <1>6
  <2>2. QED
    BY <2>1 DEF Answered
<1>9. QED
  BY <1>1, <1>3, <1>4, <1>5, <1>7, <1>8 DEF Records

(* Who writes to the log. *)
LEMMA LogSteps ==
  ASSUME [Next]_vars
  PROVE  \/ CallChanges \/ Dispatch \/ DispatchRefused \/ Crash
         \/ log' = log /\ crashes' = crashes /\ faulted' = faulted
<1> SUFFICES ASSUME ~CallChanges, ~Dispatch, ~DispatchRefused, ~Crash
             PROVE  log' = log /\ crashes' = crashes /\ faulted' = faulted
  OBVIOUS
<1>1. CASE Runtime
  BY <1>1 DEF Runtime, Starts, NeverStarts, FlushFails, CallRefused, CallAnswers, Arms,
       WaitsForIdle, ReminderFails, OursEnds, Dispatched, Preflighted, durable
<1>2. CASE Wakes \/ AgentEnds \/ Tick
  BY <1>2 DEF Wakes, AgentEnds, Tick, IdleWaitSettles, TimerFires, TurnEnds, JobEnds, durable, runtime
<1>3. CASE Others
  BY <1>3 DEF Others, TurnBegins, JobBegins, Call, Dispose, SetClock, Cancel, durable, runtime
<1>4. CASE UNCHANGED vars
  BY <1>4 DEF vars, durable, runtime
<1>5. QED
  BY <1>1, <1>2, <1>3, <1>4 DEF Next

(* Every other step leaves the log alone. *)
LEMMA RecordsStep ==
  ASSUME IInv, [Next]_vars
  PROVE  log' \in Seq(EventType) /\ Records' /\ (log' = log \/ Len(log') > Len(log) \/ saved' = Len(log'))
<1>1. CASE CallChanges
  <2>1. Len(log) \in Nat
    BY DEF IInv, TypeOK
  <2>2. QED
    BY <1>1, <2>1, ChangeRecords
<1>2. CASE Dispatch \/ DispatchRefused
  <2>1. Len(log) \in Nat
    BY DEF IInv, TypeOK
  <2>2. log' \in Seq(EventType) /\ Len(log') >= Len(log) + 1 /\ Records'
    BY <1>2, DispatchRecords, RefusedRecords
  <2>3. Len(log') \in Nat
    BY <2>2
  <2>4. QED
    BY <2>1, <2>2, <2>3
<1>3. CASE Crash
  BY <1>3, CrashRecords
<1>4. CASE log' = log /\ crashes' = crashes /\ faulted' = faulted
  <2>1. log \in Seq(EventType) /\ Records
    BY DEF IInv, TypeOK
  <2>2. QED
    BY <1>4, <2>1 DEF Records
<1>5. QED
  BY <1>1, <1>2, <1>3, <1>4, LogSteps

-----------------------------------------------------------------------------
(* Once flushed, the log is durable. *)
LEMMA FlushedAll ==
  ASSUME Covers, Flushed, stage \in {"preflight", "barrier"}
  PROVE  saved' = Len(log)
<1>1. mark = Len(log) /\ saved \in Nat /\ Len(log) \in Nat /\ saved <= Len(log)
  BY DEF Covers
<1>2. QED
  BY <1>1 DEF Flushed

(* What a flush under way covers stays the whole log. *)
LEMMA CoversStep ==
  ASSUME IInv, [Next]_vars
  PROVE  Covers'
<1>1. /\ log \in Seq(EventType) /\ saved \in 0..Len(log) /\ mark \in 0..Len(log) /\ Len(log) \in Nat
      /\ stage \in {"preflight", "barrier"} => mark = Len(log)
      /\ Covers /\ Lines
  BY DEF IInv, Covers
<1>2. log' \in Seq(EventType) /\ Len(log') \in Nat
  BY RecordsStep
<1>3. ASSUME log' = log, saved' \in {saved, Len(log)},
             \/ stage' = stage /\ mark' = mark
             \/ stage' \in {"waiting", "queued"} /\ mark' = 0
             \/ mark' = Len(log)
      PROVE  Covers'
  BY <1>1, <1>3 DEF Covers
<1>4. ASSUME Flushing(Head(line).op), Flushed
      PROVE  saved' = Len(log)
  BY <1>1, <1>4, FlushedAll DEF Flushing
<1>5. CASE Starts
  BY <1>3, <1>5 DEF Starts, Flush, durable
<1>6. CASE NeverStarts \/ FlushFails
  BY <1>3, <1>6 DEF NeverStarts, FlushFails, EndDrive, EndCall, durable
<1>7. CASE CallChanges
  <2>1. saved' = Len(log) /\ mark' = Len(log')
    BY <1>1, <1>7, FlushedAll DEF CallChanges
  <2>2. Len(log') = Len(log) + 1
    BY <1>7, ChangeRecords
  <2>3. saved' \in 0..Len(log') /\ mark' \in 0..Len(log')
    BY <1>1, <1>2, <2>1, <2>2
  <2>4. QED
    BY <1>2, <2>1, <2>3 DEF Covers
<1>8. CASE CallRefused \/ CallAnswers
  <2>1. saved' = Len(log)
    BY <1>1, <1>8, FlushedAll DEF CallRefused, CallAnswers, Flushing
  <2>2. QED
    BY <1>3, <1>8, <2>1 DEF CallRefused, CallAnswers, EndCall
<1>9. ASSUME Preflighted
      PROVE  saved' = Len(log)
  BY <1>1, <1>9, FlushedAll DEF Preflighted
<1>10. CASE Arms \/ WaitsForIdle \/ ReminderFails
  BY <1>3, <1>9, <1>10 DEF Arms, WaitsForIdle, ReminderFails, EndDrive
<1>11. CASE Dispatch \/ DispatchRefused
  <2>1. saved' = Len(log) /\ mark' = 0 /\ stage' = "queued"
    BY <1>9, <1>11 DEF Dispatch, DispatchRefused, Maintains
  <2>2. Len(log') >= Len(log) + 1
    BY <1>11, DispatchRecords, RefusedRecords
  <2>3. saved' \in 0..Len(log') /\ mark' \in 0..Len(log')
    BY <1>1, <1>2, <2>1, <2>2
  <2>4. QED
    BY <1>2, <2>1, <2>3 DEF Covers
<1>12. CASE OursEnds
  BY <1>3, <1>12 DEF OursEnds, EndDrive, Flush, durable
<1>13. CASE Dispatched
  <2>1. saved' = Len(log)
    BY <1>1, <1>13, FlushedAll DEF Dispatched
  <2>2. QED
    BY <1>3, <1>13, <2>1 DEF Dispatched, EndDrive
<1>14. CASE Crash
  <2>1. saved' = Len(log') /\ mark' = 0 /\ stage' = "waiting"
    BY <1>14, CrashRecords DEF Crash
  <2>2. QED
    BY <1>2, <2>1 DEF Covers
<1>15. CASE Wakes \/ AgentEnds \/ Tick
  BY <1>3, <1>15 DEF Wakes, AgentEnds, Tick, IdleWaitSettles, TimerFires, TurnEnds, JobEnds, durable, transactions
<1>16. CASE Others /\ ~Crash
  BY <1>3, <1>16 DEF Others, TurnBegins, JobBegins, Call, Dispose, SetClock, Cancel, durable, transactions
<1>17. CASE UNCHANGED vars
  BY <1>3, <1>17 DEF vars, durable, transactions
<1>18. QED
  BY <1>5, <1>6, <1>7, <1>8, <1>10, <1>11, <1>12, <1>13, <1>14, <1>15, <1>16, <1>17 DEF Next, Runtime

(* A wait for what is next is a wait, in segments a timer can count. *)
LEMMA ArmedTyped ==
  ASSUME TypeOK, Good(log), Overdue = {}
  PROVE  ArmedFor \in -1..MaxDelay
<1>1. /\ \A r \in Folded.active : r.at \in Nat
      /\ now \in Nat /\ MaxDelay \in Nat \ {0}
  BY ChosenDue, ScheduleAssumption DEF TypeOK
<1>2. CASE Folded.active = {}
  BY <1>1, <1>2 DEF ArmedFor, Off
<1>3. CASE Folded.active # {}
  <2> DEFINE T == {r.at : r \in Folded.active}
  <2>1. T \in SUBSET Nat /\ T # {}
    BY <1>1, <1>3
  <2>2. PICK m \in T : \A n \in T : m <= n
    BY <2>1, Least
  <2>3. Target \in T
    BY <2>2 DEF Target
  <2>4. Target \in Nat /\ Target > now
    <3>1. PICK r \in Folded.active : Target = r.at
      BY <2>3
    <3>2. ~(r.at <= now)
      BY <3>1 DEF Overdue
    <3>3. QED
      BY <1>1, <3>1, <3>2
  <2>5. QED
    BY <1>1, <1>3, <2>4 DEF ArmedFor
<1>4. QED
  BY <1>2, <1>3

(* The types of the rest, a step at a time. *)
LEMMA PlainStep ==
  ASSUME IInv, [Next]_vars
  PROVE  Plain'
<1>1. Plain /\ LastInstant \in Nat /\ MaxDelay \in Nat \ {0}
  BY ScheduleAssumption, TypeParts DEF IInv
<1>2. TypeOK /\ Good(log)
  BY DEF IInv, Records
<1> USE DEF Off
<1>3. ASSUME NEW again \in BOOLEAN, NEW failed \in BOOLEAN, EndDrive(again, failed)
      PROVE  requested' \in BOOLEAN /\ missed' \in BOOLEAN
  BY <1>3 DEF EndDrive
<1>4. ASSUME NEW l, RequestDrive(l), stopping' = stopping
      PROVE  /\ requested' \in BOOLEAN /\ missed' \in BOOLEAN /\ timer' \in -1..MaxDelay
             /\ stopping' => timer' = Off
  BY <1>1, <1>4 DEF RequestDrive, Heard, Plain, Counts, Timed, Flags, AgentTyped
<1>5. Again \in BOOLEAN
  BY <1>1 DEF Again, Heard, Plain, Counts, Timed, Flags, AgentTyped
<1>6. CASE Starts
  <2>1. Counts'
    BY <1>1, <1>6 DEF Starts, Plain, Counts, clock, agentVars
  <2>2. Timed'
    BY <1>1, <1>6 DEF Starts, Plain, Timed, clock, agentVars
  <2>3. Flags'
    BY <1>1, <1>6 DEF Starts, Plain, Flags, clock, agentVars
  <2>4. AgentTyped'
    BY <1>1, <1>6 DEF Starts, Plain, AgentTyped, clock, agentVars
  <2>5. QED
    BY <2>1, <2>2, <2>3, <2>4 DEF Plain
<1>7. CASE NeverStarts \/ FlushFails
  <2>1. requested' \in BOOLEAN /\ missed' \in BOOLEAN
    BY <1>1, <1>3, <1>5, <1>7 DEF NeverStarts, FlushFails, Plain, Counts, Timed, Flags, AgentTyped
  <2>2. timer' \in {timer, Off}
    BY <1>7 DEF NeverStarts, FlushFails
  <2>0. stopping' = stopping
    BY <1>7 DEF NeverStarts, FlushFails
  <2>3. Counts'
    BY <1>1, <1>7, <2>1, <2>2 DEF NeverStarts, FlushFails, Plain, Counts, clock, agentVars
  <2>4. Timed'
    BY <1>1, <2>2, <2>0 DEF Plain, Timed
  <2>5. Flags'
    BY <1>1, <1>7, <2>1, <2>2 DEF NeverStarts, FlushFails, Plain, Flags, clock, agentVars
  <2>6. AgentTyped'
    BY <1>1, <1>7, <2>1, <2>2 DEF NeverStarts, FlushFails, Plain, AgentTyped, clock, agentVars
  <2>7. QED
    BY <2>3, <2>4, <2>5, <2>6 DEF Plain
<1>8. CASE CallChanges \/ CallRefused \/ CallAnswers
  <2>1. /\ requested' \in BOOLEAN /\ missed' \in BOOLEAN /\ timer' \in -1..MaxDelay
        /\ stopping' => timer' = Off
    BY <1>4, <1>8 DEF CallChanges, CallRefused, CallAnswers
  <2>2. Counts'
    BY <1>1, <1>8, <2>1 DEF CallChanges, CallRefused, CallAnswers, Plain, Counts, clock, agentVars
  <2>3. Timed'
    BY <1>1, <1>8, <2>1 DEF CallChanges, CallRefused, CallAnswers, Plain, Timed, clock, agentVars
  <2>4. Flags'
    BY <1>1, <1>8, <2>1 DEF CallChanges, CallRefused, CallAnswers, Plain, Flags, clock, agentVars
  <2>5. AgentTyped'
    BY <1>1, <1>8, <2>1 DEF CallChanges, CallRefused, CallAnswers, Plain, AgentTyped, clock, agentVars
  <2>6. QED
    BY <2>2, <2>3, <2>4, <2>5 DEF Plain
<1>9. CASE Arms
  <2>1. requested' \in BOOLEAN /\ missed' \in BOOLEAN
    BY <1>3, <1>5, <1>9 DEF Arms
  <2>2. timer' \in -1..MaxDelay /\ (stopping => timer' = timer)
    BY <1>1, <1>2, <1>9, ArmedTyped DEF Arms, IsRunnable, Plain, Counts, Timed, Flags, AgentTyped
  <2>3. Counts'
    BY <1>1, <1>9, <2>1, <2>2 DEF Arms, Preflighted, Plain, Counts, clock, agentVars
  <2>4. Timed'
    BY <1>1, <1>9, <2>1, <2>2 DEF Arms, Preflighted, Plain, Timed, clock, agentVars
  <2>5. Flags'
    BY <1>1, <1>9, <2>1, <2>2 DEF Arms, Preflighted, Plain, Flags, clock, agentVars
  <2>6. AgentTyped'
    BY <1>1, <1>9, <2>1, <2>2 DEF Arms, Preflighted, Plain, AgentTyped, clock, agentVars
  <2>7. QED
    BY <2>3, <2>4, <2>5, <2>6 DEF Plain
<1>10. CASE WaitsForIdle \/ ReminderFails
  <2>1. requested' \in BOOLEAN /\ missed' \in BOOLEAN
    BY <1>3, <1>5, <1>10 DEF WaitsForIdle, ReminderFails
  <2>2. Counts'
    BY <1>1, <1>10, <2>1 DEF WaitsForIdle, ReminderFails, Preflighted, Plain, Counts, clock, agentVars
  <2>3. Timed'
    <3>1. timer' = timer /\ stopping' = stopping
      BY <1>10 DEF WaitsForIdle, ReminderFails, Preflighted
    <3>2. QED
      BY <1>1, <3>1 DEF Plain, Timed
  <2>4. Flags'
    BY <1>1, <1>10, <2>1 DEF WaitsForIdle, ReminderFails, Preflighted, Plain, Flags, clock, agentVars
  <2>5. AgentTyped'
    BY <1>1, <1>10, <2>1 DEF WaitsForIdle, ReminderFails, Preflighted, Plain, AgentTyped, clock, agentVars
  <2>6. QED
    BY <2>2, <2>3, <2>4, <2>5 DEF Plain
<1>11. CASE Dispatch \/ DispatchRefused
  <2>1. Counts'
    BY <1>1, <1>11 DEF Dispatch, DispatchRefused, Maintains, Preflighted, Plain, Counts, clock
  <2>2. Timed'
    BY <1>1, <1>11 DEF Dispatch, DispatchRefused, Maintains, Preflighted, Plain, Timed, clock
  <2>3. Flags'
    BY <1>1, <1>11 DEF Dispatch, DispatchRefused, Maintains, Preflighted, Plain, Flags, clock
  <2>4. AgentTyped'
    BY <1>1, <1>11 DEF Dispatch, DispatchRefused, Maintains, Preflighted, Plain, AgentTyped, clock
  <2>5. QED
    BY <2>1, <2>2, <2>3, <2>4 DEF Plain
<1>12. CASE OursEnds
  <2>1. requested' \in BOOLEAN /\ missed' \in BOOLEAN
    BY <1>1, <1>3, <1>12 DEF OursEnds, Plain, Counts, Timed, Flags, AgentTyped
  <2>2. Counts'
    BY <1>1, <1>12, <2>1 DEF OursEnds, Plain, Counts, clock
  <2>3. Timed'
    BY <1>1, <1>12, <2>1 DEF OursEnds, Plain, Timed, clock
  <2>4. Flags'
    BY <1>1, <1>12, <2>1 DEF OursEnds, Plain, Flags, clock
  <2>5. AgentTyped'
    BY <1>1, <1>12, <2>1 DEF OursEnds, Plain, AgentTyped, clock
  <2>6. QED
    BY <2>2, <2>3, <2>4, <2>5 DEF Plain
<1>13. CASE Dispatched
  <2> DEFINE again == (requested \/ IsRunnable) /\ Heard
  <2>1. again \in BOOLEAN
    BY <1>1 DEF Heard, IsRunnable, Plain, Counts, Timed, Flags, AgentTyped
  <2>2. EndDrive(again, FALSE)
    BY <1>13 DEF Dispatched
  <2> HIDE DEF again
  <2>3. requested' \in BOOLEAN /\ missed' \in BOOLEAN
    BY <1>3, <2>1, <2>2
  <2>4. timer' \in {timer, Off}
    BY <1>13 DEF Dispatched
  <2>5. Counts'
    BY <1>1, <1>13, <2>3, <2>4 DEF Dispatched, Plain, Counts, clock, agentVars
  <2>6. Timed'
    BY <1>1, <1>13, <2>3, <2>4 DEF Dispatched, Plain, Timed, clock, agentVars
  <2>7. Flags'
    BY <1>1, <1>13, <2>3, <2>4 DEF Dispatched, Plain, Flags, clock, agentVars
  <2>8. AgentTyped'
    BY <1>1, <1>13, <2>3, <2>4 DEF Dispatched, Plain, AgentTyped, clock, agentVars
  <2>9. QED
    BY <2>5, <2>6, <2>7, <2>8 DEF Plain
<1>14. CASE Wakes
  <2>1. /\ requested' \in BOOLEAN /\ missed' \in BOOLEAN /\ timer' \in -1..MaxDelay
        /\ stopping' => timer' = Off
    BY <1>4, <1>14 DEF Wakes, IdleWaitSettles, TimerFires
  <2>2. Counts'
    BY <1>1, <1>14, <2>1 DEF Wakes, IdleWaitSettles, TimerFires, Plain, Counts, clock, agentVars
  <2>3. Timed'
    BY <1>1, <1>14, <2>1 DEF Wakes, IdleWaitSettles, TimerFires, Plain, Timed, clock, agentVars
  <2>4. Flags'
    BY <1>1, <1>14, <2>1 DEF Wakes, IdleWaitSettles, TimerFires, Plain, Flags, clock, agentVars
  <2>5. AgentTyped'
    BY <1>1, <1>14, <2>1 DEF Wakes, IdleWaitSettles, TimerFires, Plain, AgentTyped, clock, agentVars
  <2>6. QED
    BY <2>2, <2>3, <2>4, <2>5 DEF Plain
<1>15. CASE TurnEnds
  <2>1. /\ requested' \in BOOLEAN /\ missed' \in BOOLEAN /\ timer' \in -1..MaxDelay
        /\ stopping' => timer' = Off
    BY <1>1, <1>4, <1>15 DEF TurnEnds, Plain, Counts, Timed, Flags, AgentTyped
  <2>2. Counts'
    BY <1>1, <1>15, <2>1 DEF TurnEnds, Plain, Counts, clock
  <2>3. Timed'
    BY <1>1, <1>15, <2>1 DEF TurnEnds, Plain, Timed, clock
  <2>4. Flags'
    BY <1>1, <1>15, <2>1 DEF TurnEnds, Plain, Flags, clock
  <2>5. AgentTyped'
    BY <1>1, <1>15, <2>1 DEF TurnEnds, Plain, AgentTyped, clock
  <2>6. QED
    BY <2>2, <2>3, <2>4, <2>5 DEF Plain
<1>16. CASE JobEnds \/ TurnBegins \/ JobBegins
  <2>1. Counts'
    BY <1>1, <1>16 DEF JobEnds, TurnBegins, JobBegins, Plain, Counts, clock, runtime
  <2>2. Timed'
    BY <1>1, <1>16 DEF JobEnds, TurnBegins, JobBegins, Plain, Timed, clock, runtime
  <2>3. Flags'
    BY <1>1, <1>16 DEF JobEnds, TurnBegins, JobBegins, Plain, Flags, clock, runtime
  <2>4. AgentTyped'
    BY <1>1, <1>16 DEF JobEnds, TurnBegins, JobBegins, Plain, AgentTyped, clock, runtime
  <2>5. QED
    BY <2>1, <2>2, <2>3, <2>4 DEF Plain
<1>17. CASE Call \/ Cancel
  <2>1. Counts'
    BY <1>1, <1>17 DEF Call, Cancel, Plain, Counts, clock, runtime, agentVars
  <2>2. Timed'
    BY <1>1, <1>17 DEF Call, Cancel, Plain, Timed, clock, runtime, agentVars
  <2>3. Flags'
    BY <1>1, <1>17 DEF Call, Cancel, Plain, Flags, clock, runtime, agentVars
  <2>4. AgentTyped'
    BY <1>1, <1>17 DEF Call, Cancel, Plain, AgentTyped, clock, runtime, agentVars
  <2>5. QED
    BY <2>1, <2>2, <2>3, <2>4 DEF Plain
<1>18. CASE Tick
  <2>1. Counts'
    BY <1>1, <1>18 DEF Tick, Plain, Counts, agentVars
  <2>2. Timed'
    BY <1>1, <1>18 DEF Tick, Plain, Timed, agentVars
  <2>3. Flags'
    BY <1>1, <1>18 DEF Tick, Plain, Flags, agentVars
  <2>4. AgentTyped'
    BY <1>1, <1>18 DEF Tick, Plain, AgentTyped, agentVars
  <2>5. QED
    BY <2>1, <2>2, <2>3, <2>4 DEF Plain
<1>19. CASE Dispose \/ SetClock
  <2>1. Counts'
    BY <1>1, <1>19 DEF Dispose, SetClock, Plain, Counts, clock, runtime, agentVars
  <2>2. Timed'
    BY <1>1, <1>19 DEF Dispose, SetClock, Plain, Timed, clock, runtime, agentVars
  <2>3. Flags'
    BY <1>1, <1>19 DEF Dispose, SetClock, Plain, Flags, clock, runtime, agentVars
  <2>4. AgentTyped'
    BY <1>1, <1>19 DEF Dispose, SetClock, Plain, AgentTyped, clock, runtime, agentVars
  <2>5. QED
    BY <2>1, <2>2, <2>3, <2>4 DEF Plain
<1>20. CASE Crash
  <2>1. Counts'
    BY <1>1, <1>20 DEF Crash, Plain, Counts, clock
  <2>2. Timed'
    BY <1>1, <1>20 DEF Crash, Plain, Timed, clock
  <2>3. Flags'
    BY <1>1, <1>20 DEF Crash, Plain, Flags, clock
  <2>4. AgentTyped'
    BY <1>1, <1>20 DEF Crash, Plain, AgentTyped, clock
  <2>5. QED
    BY <2>1, <2>2, <2>3, <2>4 DEF Plain
<1>21. CASE UNCHANGED vars
  <2>1. Counts'
    BY <1>1, <1>21 DEF vars, Plain, Counts, clock, runtime, agentVars
  <2>2. Timed'
    BY <1>1, <1>21 DEF vars, Plain, Timed, clock, runtime, agentVars
  <2>3. Flags'
    BY <1>1, <1>21 DEF vars, Plain, Flags, clock, runtime, agentVars
  <2>4. AgentTyped'
    BY <1>1, <1>21 DEF vars, Plain, AgentTyped, clock, runtime, agentVars
  <2>5. QED
    BY <2>1, <2>2, <2>3, <2>4 DEF Plain
<1>22. QED
  BY <1>6, <1>7, <1>8, <1>9, <1>10, <1>11, <1>12, <1>13, <1>14, <1>15, <1>16, <1>17, <1>18, <1>19,
     <1>20, <1>21 DEF Next, Runtime, AgentEnds, Others


-----------------------------------------------------------------------------
(* An empty log is replayable. *)
LEMMA EmptyGood == <<>> \in Seq(EventType) /\ Good(<<>>) /\ Speaks(<<>>) /\ Cardinality(Fold(<<>>).seen) = 0
<1>1. <<>> \in Seq(EventType) /\ Len(<<>>) = 0
  OBVIOUS
<1>2. Fold(<<>>) = Fresh /\ Cardinality({}) = 0 /\ IsFiniteSet({})
  BY FoldEmpty, FS_EmptySet
<1>3. Fresh.ok = TRUE /\ Fresh.seen = {} /\ Fresh.active = {}
  BY DEF Fresh
<1>4. Sound(Fold(<<>>))
  <2>1. {} = 1..0
    OBVIOUS
  <2>2. QED
    BY <1>2, <1>3, <2>1 DEF Sound
<1>5. Past(<<>>, Fold(<<>>))
  BY <1>1 DEF Past
<1>6. Reads(<<>>)
  BY <1>4, <1>5 DEF Reads
<1>7. Good(<<>>)
  <2>1. ASSUME NEW l \in Seq(EventType), Len(l) = 0
        PROVE  Prefix(l, 0) = l
    <3>1. 0 \in 0..Len(l)
      BY <2>1
    <3>2. Prefix(l, Len(l)) = l
      BY <3>1, PrefixOf
    <3>3. QED
      BY <2>1, <3>2
  <2>2. \A k \in 0..Len(<<>>) : k = 0
    BY <1>1
  <2>3. QED
    BY <1>1, <1>6, <2>1, <2>2 DEF Good
<1>8. Speaks(<<>>)
  BY <1>1 DEF Speaks
<1>9. QED
  BY <1>1, <1>2, <1>3, <1>7, <1>8

(* A session starts with nothing in its log, or one record. *)
LEMMA InitRecords ==
  ASSUME Init
  PROVE  log \in Seq(EventType) /\ Records
<1>1. crashes = 0 /\ now = 0 /\ log \in {<<>>} \cup {<<change>> : change \in Creations(1)}
  BY DEF Init
<1>2. CASE log = <<>>
  <2>1. Len(log) = 0
    BY <1>2
  <2>2. Lives(log, crashes) /\ Answered(log, crashes)
    BY <2>1 DEF Lives, Answered
  <2>3. QED
    BY <1>2, <2>2, EmptyGood DEF Records
<1>3. CASE log \in {<<change>> : change \in Creations(1)}
  <2>1. PICK change \in Creations(1) : log = <<change>>
    BY <1>3
  <2>2. change \in Creations(Cardinality(Fold(<<>>).seen) + 1) /\ crashes \in Nat /\ now \in Nat
    BY <1>1, EmptyGood
  <2>3. /\ change \in EventType /\ change.op = "create" /\ change.life = crashes
        /\ Fits(Fold(<<>>), change) /\ SaysFits(<<>>, change)
    BY <2>2, EmptyGood, CreationFits
  <2>4. log = Append(<<>>, change)
    BY <2>1
  <2>5. log \in Seq(EventType) /\ Good(log)
    BY <2>3, <2>4, EmptyGood, GoodAppend
  <2>6. Speaks(log)
    BY <2>3, <2>4, EmptyGood, SpeaksAppend
  <2>7. Len(log) = 1 /\ log[1] = change
    BY <2>1
  <2>8. Lives(log, crashes) /\ Answered(log, crashes)
    BY <2>2, <2>3, <2>7 DEF Lives, Answered
  <2>9. QED
    BY <2>5, <2>6, <2>8 DEF Records
<1>4. QED
  BY <1>1, <1>2, <1>3

(* The invariant holds at first. *)
LEMMA InitInv == Init => IInv
<1> SUFFICES ASSUME Init
             PROVE  IInv
  OBVIOUS
<1>1. log \in Seq(EventType) /\ Records
  BY InitRecords
<1>2. Lines
  <2>1. line = <<Drive>> /\ stage = "waiting" /\ agent = "idle" /\ faulted = FALSE
    BY DEF Init
  <2>2. Drive \in TransactionType
    BY DEF TransactionType
  <2>3. line \in Seq(TransactionType) /\ DOMAIN line = 1..1 /\ line # <<>>
    BY <2>1, <2>2
  <2>4. \A i, j \in DOMAIN line : i = j
    BY <2>3
  <2>5. QED
    BY <2>1, <2>3, <2>4 DEF Lines
<1>3. Covers
  <2>1. saved = Len(log) /\ mark = 0 /\ stage = "waiting" /\ Len(log) \in Nat
    BY <1>1 DEF Init
  <2>2. QED
    BY <1>1, <2>1 DEF Covers
<1>4. Plain
  <2>1. Counts
    BY ScheduleAssumption DEF Init, Counts
  <2>2. Timed
    BY ScheduleAssumption DEF Init, Timed, Off
  <2>3. Flags
    BY DEF Init, Flags
  <2>4. AgentTyped
    BY DEF Init, AgentTyped
  <2>5. QED
    BY <2>1, <2>2, <2>3, <2>4 DEF Plain
<1>5. QED
  BY <1>1, <1>2, <1>3, <1>4, TypeParts DEF IInv

(* Every step keeps it. *)
LEMMA StepInv == IInv /\ [Next]_vars => IInv'
<1> SUFFICES ASSUME IInv, [Next]_vars
             PROVE  IInv'
  OBVIOUS
<1>1. Lines
  BY DEF IInv
<1>2. Lines'
  BY <1>1, CallLines, DriveLines, OtherLines DEF Next, Runtime
<1>3. Covers' /\ Plain' /\ Records'
  BY CoversStep, PlainStep, RecordsStep
<1>4. (TypeOK /\ Lines /\ Covers)' <=> (Lines /\ Covers /\ Plain)'
  BY TypeParts, PTL
<1>5. TypeOK'
  BY <1>2, <1>3, <1>4
<1>6. QED
  BY <1>2, <1>3, <1>5 DEF IInv

(* The invariant of ScheduleRuntime: what a drive and a tool rely on.      *)
THEOREM ScheduleInvariant == Spec => []IInv
BY InitInv, StepInv, PTL DEF Spec

-----------------------------------------------------------------------------
(* Every variable keeps its type: a runtime has at most one drive in the   *)
(* line (requestDrive), and a disposed one no timer.                       *)
THEOREM ScheduleTypes == Spec => []TypeOK
<1>1. IInv => TypeOK
  BY DEF IInv
<1>2. QED
  BY <1>1, ScheduleInvariant, PTL

(* The log of schedule events replays after any crash, and no occurrence   *)
(* is put in the inbox twice within one life of the process (driveOnce).   *)
THEOREM RemindersOnce == Spec => []RemindedOnce
<1>1. ASSUME IInv
      PROVE  RemindedOnce
  <2>1. log \in Seq(EventType) /\ Good(log) /\ Speaks(log)
    BY <1>1 DEF IInv, TypeOK, Records
  <2>2. Folded.ok
    BY <2>1, GoodReads DEF Folded, Sound
  <2>3. DOMAIN log = 1..Len(log)
    BY <2>1
  <2>4. ASSUME NEW i \in DOMAIN log, log[i].op = "dispatch", NEW o \in log[i].due
        PROVE  \E j \in 1..(i - 1) : log[j].op = "remind" /\ o \in log[j].due
    BY <2>1, <2>3, <2>4 DEF Speaks
  <2>5. ASSUME NEW j \in DOMAIN log, log[j].op = "remind",
               NEW i \in 1..(j - 1), log[i].due \cap log[j].due # {}
        PROVE  log[i].op = "remind" /\ log[i].life < log[j].life
    BY <2>1, <2>3, <2>5 DEF Speaks
  <2>6. QED
    BY <2>2, <2>4, <2>5 DEF RemindedOnce
<1>2. QED
  BY <1>1, ScheduleInvariant, PTL

(* A tool answers once what is in the log is durable.                      *)
LEMMA AnswersConfirmed ==
  ASSUME IInv, CallAnswers
  PROVE  Confirmed /\ ~Reminds
<1>1. /\ log' = log /\ Flushed /\ stage \in {"preflight", "barrier"} /\ Covers
      /\ log \in Seq(EventType) /\ Len(log) \in Nat
  BY DEF IInv, CallAnswers, Flushing, Covers
<1>2. saved' = Len(log)
  BY <1>1, FlushedAll
<1>3. \A i \in DOMAIN log : i <= saved'
  BY <1>1, <1>2
<1>4. QED
  BY <1>1, <1>3 DEF Confirmed, Reminds

(* The runtime reminds of what is active and due, the log being durable.   *)
LEMMA RemindsDue ==
  ASSUME IInv, Maintains, Reminds, log'[Len(log) + 1] = Told[1]
  PROVE  Confirmed /\ \A o \in Reminded : o[2] <= now /\ \E r \in Overdue : r.id = o[1]
<1>1. /\ Covers /\ log \in Seq(EventType) /\ Good(log) /\ TypeOK
      /\ Flushed /\ stage = "preflight"
  <2>1. Covers /\ Flushed /\ stage = "preflight"
    BY DEF IInv, Maintains, Preflighted
  <2>2. QED
    BY <2>1, Acting
<1>2. Confirmed
  <2>1. saved' = Len(log)
    BY <1>1, FlushedAll
  <2>2. QED
    BY <1>1, <2>1 DEF Confirmed
<1>3. Reminded = {OccurrenceOf(r) : r \in Chosen} /\ Chosen \subseteq Overdue
  BY <1>1, ToldFields, ChosenDue DEF Reminded
<1>4. ASSUME NEW o \in Reminded
      PROVE  o[2] <= now /\ \E r \in Overdue : r.id = o[1]
  <2>1. PICK r \in Overdue : o = OccurrenceOf(r)
    BY <1>3
  <2>2. o = <<r.id, OccurrenceAt(r, now)>> /\ OccurrenceAt(r, now) <= now
    BY <1>1, <2>1, OccurrenceDue
  <2>3. QED
    BY <2>1, <2>2
<1>5. QED
  BY <1>2, <1>4

(* Only a maintenance task of the runtime puts a reminder in the inbox.    *)
LEMMA WhoReminds ==
  ASSUME IInv, [Next]_vars, Reminds
  PROVE  Maintains /\ log'[Len(log) + 1] = Told[1]
<1>1. Len(log) \in Nat
  BY DEF IInv, TypeOK
<1>2. CASE CallChanges
  BY <1>2, ChangeRecords DEF Reminds
<1>3. CASE Dispatch
  BY <1>3, DispatchRecords DEF Dispatch
<1>4. CASE DispatchRefused
  BY <1>4, RefusedRecords DEF DispatchRefused
<1>5. CASE Crash
  <2>1. Len(log') <= Len(log) /\ Len(log') \in Nat
    BY <1>5, CrashRecords
  <2>2. QED
    BY <1>1, <2>1 DEF Reminds
<1>6. CASE log' = log
  BY <1>1, <1>6 DEF Reminds
<1>7. QED
  BY <1>2, <1>3, <1>4, <1>5, <1>6, LogSteps

(* What a tool answers, and what the runtime tells the agent, rests on a   *)
(* durable log (transaction.ts flushes first, driveOnce reads after).      *)
THEOREM ActsConfirmed == Spec => ActsOnConfirmed
<1>1. ASSUME IInv, [Next]_vars
      PROVE  [/\ CallAnswers \/ Reminds => Confirmed
              /\ Reminds => \A o \in Reminded : o[2] <= now /\ \E r \in Overdue : r.id = o[1]]_vars
  <2>1. CASE CallAnswers
    BY <1>1, <2>1, AnswersConfirmed
  <2>2. CASE Reminds
    <3>1. Maintains /\ log'[Len(log) + 1] = Told[1]
      BY <1>1, <2>2, WhoReminds
    <3>2. QED
      BY <1>1, <2>2, <3>1, RemindsDue
  <2>3. QED
    BY <2>1, <2>2
<1>2. QED
  BY <1>1, ScheduleInvariant, PTL DEF Spec, ActsOnConfirmed
=============================================================================
