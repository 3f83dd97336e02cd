------------------------ MODULE SessionRecoveryProofs ------------------------
(***************************************************************************)
(* Proofs about SessionRecovery, for every value of its bounds: types, and *)
(* that a repair is accepted, confluent and truthful and loses no record.  *)
(*                                                                         *)
(* Trace and the scan of interruptedTurnClosers are folds over the log, so *)
(* first it is shown that appending an event advances a fold by it.  What  *)
(* both folds say of a log is Good, which an event that Fits keeps: the    *)
(* writer writes only such events, and so does a repair, because the first *)
(* closer fits the log and leaves the rest of the closers to write.        *)
(***************************************************************************)
EXTENDS SessionRecovery, SequenceTheorems, FiniteSetTheorems, WellFoundedInduction, TLAPS

(* Every set of naturals that is not empty has a least element. *)
LEMMA Least ==
  ASSUME NEW T \in SUBSET Nat, T # {}
  PROVE  \E m \in T : \A n \in T : m <= n
<1>1. PICK m \in T : \A n \in T : ~(<<n, m>> \in OpToRel(<, Nat))
  BY WFMin, NatLessThanWellFounded
<1>2. \A n \in T : ~(n < m)
  BY <1>1 DEF OpToRel
<1>3. QED
  BY <1>2

(* The states a fold goes through: one for each prefix of the log. *)
Path(g, d, h, n) == g[0] = d /\ \A i \in 1..n : g[i] = h[i][g[i - 1]]

(* A fold by total functions has such a course of states. *)
LEMMA PathExists ==
  ASSUME NEW D, NEW d \in D, NEW n \in Nat, NEW h \in [1..n -> [D -> D]]
  PROVE  \E g \in [0..n -> D] : Path(g, d, h, n)
<1> DEFINE Stuck == {k \in 0..n : ~ \E g \in [0..k -> D] : Path(g, d, h, k)}
<1>1. CASE Stuck = {}
  <2>1. n \in 0..n
    OBVIOUS
  <2>2. QED
    BY <1>1, <2>1
<1>2. CASE Stuck # {}
  <2>1. Stuck \in SUBSET Nat
    OBVIOUS
  <2>2. PICK k \in Stuck : \A j \in Stuck : k <= j
    BY <1>2, <2>1, Least
  <2>3. k \in 0..n /\ ~ \E g \in [0..k -> D] : Path(g, d, h, k)
    OBVIOUS
  <2> HIDE DEF Stuck
  <2>4. CASE k = 0
    <3> DEFINE f == [i \in 0..0 |-> d]
    <3>1. f \in [0..k -> D] /\ Path(f, d, h, k)
      BY <2>4 DEF Path
    <3>2. QED
      BY <2>3, <3>1
  <2>5. CASE k # 0
    <3>1. k - 1 \in 0..n /\ k - 1 \notin Stuck
      BY <2>2, <2>3, <2>5
    <3>2. PICK g \in [0..k - 1 -> D] : Path(g, d, h, k - 1)
      BY <3>1 DEF Stuck
    <3> DEFINE f == [i \in 0..k |-> IF i = k THEN h[k][g[k - 1]] ELSE g[i]]
    <3>3. k \in 1..n /\ k - 1 \in 0..k - 1
      BY <2>3, <2>5
    <3>4. h[k] \in [D -> D] /\ g[k - 1] \in D
      BY <3>2, <3>3
    <3>5. h[k][g[k - 1]] \in D
      BY <3>4
    <3>6. f \in [0..k -> D]
      <4>1. \A i \in 0..k : i # k => i \in 0..k - 1
        BY <3>3
      <4>2. QED
        BY <3>2, <3>5, <4>1
    <3>7. f[0] = d /\ f[k] = h[k][g[k - 1]]
      BY <3>2, <3>3 DEF Path
    <3>8. ASSUME NEW i \in 1..k
          PROVE  f[i] = h[i][f[i - 1]]
      <4>1. i - 1 \in 0..k - 1 /\ f[i - 1] = g[i - 1]
        BY <3>3
      <4>2. CASE i = k
        BY <3>7, <4>1, <4>2
      <4>3. CASE i # k
        <5>1. i \in 1..k - 1 /\ f[i] = g[i]
          BY <3>3, <4>3
        <5>2. QED
          BY <3>2, <4>1, <5>1 DEF Path
      <4>4. QED
        BY <4>2, <4>3
    <3> HIDE DEF f
    <3>9. Path(f, d, h, k)
      BY <3>7, <3>8 DEF Path
    <3>10. QED
      BY <2>3, <3>6, <3>9
  <2>6. QED
    BY <2>4, <2>5
<1>3. QED
  BY <1>1, <1>2

-----------------------------------------------------------------------------
TraceType == [ok : BOOLEAN, openTurn : Nat, openStep : Nat, nextTurn : Nat, nextStep : Nat,
              pendingCalls : SUBSET CallIds]
PendingType == [step : Nat, seq : Nat]
ScanType == [openTurn : Nat, openStep : Nat, pending : [CallIds -> PendingType], seq : Nat]
Scanned(l) == Folded(Scan, FreshScan, l)

(* What each event does to the trace, one field after another. *)
LEMMA AdvanceType ==
  ASSUME NEW t \in TraceType, NEW e \in EventSet
  PROVE  Advance(t, e) \in TraceType
<1> USE DEF TraceType, EventSet
<1>1. CASE e.type = "turn/start"
  BY <1>1 DEF Advance
<1>2. CASE e.type = "turn/end"
  <2>1. t.nextTurn + 1 \in Nat
    OBVIOUS
  <2>2. QED
    BY <1>2, <2>1 DEF Advance
<1>3. CASE e.type = "step/start"
  BY <1>3 DEF Advance
<1>4. CASE e.type = "step/end"
  <2>1. t.nextStep + 1 \in Nat
    OBVIOUS
  <2>2. QED
    BY <1>4, <2>1 DEF Advance, InOpenStep
<1>5. CASE e.type = "assistant/message"
  BY <1>5 DEF Advance, InOpenStep
<1>6. CASE e.type = "tool/call"
  BY <1>6 DEF Advance, InOpenStep
<1>7. CASE e.type = "tool/result"
  BY <1>7 DEF Advance, InOpenStep
<1>8. QED
  BY <1>1, <1>2, <1>3, <1>4, <1>5, <1>6, <1>7

(* The pending calls of the scan keep their type. *)
LEMMA PendingTyped ==
  ASSUME NEW s \in ScanType, NEW e \in EventSet
  PROVE  PendingAfter(s, e) \in [CallIds -> PendingType]
<1> USE DEF ScanType, PendingType
<1>0. e.step \in Nat /\ s.seq + 1 \in Nat
  BY DEF EventSet
<1>1. CASE e.type \in {"turn/start", "turn/end", "step/end"}
  BY <1>1 DEF PendingAfter, NoCalls
<1>2. CASE e.type = "assistant/message"
  BY <1>0, <1>2 DEF PendingAfter
<1>3. CASE e.type = "tool/call"
  <2>1. ASSUME NEW c \in CallIds
        PROVE  [s.pending[c] EXCEPT !.seq = s.seq + 1] \in PendingType
    BY <1>0
  <2>2. QED
    BY <1>3, <2>1 DEF PendingAfter
<1>4. CASE e.type = "tool/result"
  BY <1>4 DEF PendingAfter, NoCalls
<1>5. CASE e.type = "step/start"
  BY <1>5 DEF PendingAfter
<1>6. QED
  BY <1>1, <1>2, <1>3, <1>4, <1>5 DEF EventSet

(* The scan keeps its type. *)
LEMMA ScanTyped ==
  ASSUME NEW s \in ScanType, NEW e \in EventSet
  PROVE  Scan(s, e) \in ScanType
<1>1. PendingAfter(s, e) \in [CallIds -> PendingType]
  BY PendingTyped
<1>2. e.turn \in Nat /\ e.step \in Nat
  BY DEF EventSet
<1>3. QED
  BY <1>1, <1>2 DEF Scan, ScanType

(* Both start within their types. *)
LEMMA Fresh == FreshTrace \in TraceType /\ FreshScan \in ScanType
BY DEF FreshTrace, FreshScan, TraceType, ScanType, PendingType, NoCalls

(* A course that starts afresh and advances by each event ends in Trace. *)
LEMMA TraceCourse ==
  ASSUME NEW l \in Seq(EventSet), NEW g \in [0..Len(l) -> TraceType],
         g[0] = FreshTrace, \A i \in 1..Len(l) : g[i] = Advance(g[i - 1], l[i])
  PROVE  Trace(l) = g[Len(l)]
<1> DEFINE n == Len(l)
           Course(f) == f = [i \in 0..n |-> IF i = 0 THEN FreshTrace
                                ELSE CHOOSE after \in {Advance(before, l[i]) : before \in {f[i - 1]}} : TRUE]
<1>1. ASSUME NEW i \in 1..n, NEW x
      PROVE  (CHOOSE after \in {Advance(before, l[i]) : before \in {x}} : TRUE) = Advance(x, l[i])
  OBVIOUS
<1>2. Course(g)
  <2> DEFINE f == [i \in 0..n |-> IF i = 0 THEN FreshTrace
                      ELSE CHOOSE after \in {Advance(before, l[i]) : before \in {g[i - 1]}} : TRUE]
  <2>1. ASSUME NEW i \in 0..n
        PROVE  f[i] = g[i]
    <3>1. CASE i = 0
      BY <3>1
    <3>2. CASE i # 0
      <4>1. i \in 1..n
        BY <3>2
      <4>2. f[i] = CHOOSE after \in {Advance(before, l[i]) : before \in {g[i - 1]}} : TRUE
        BY <3>2
      <4>3. QED
        BY <1>1, <4>1, <4>2
    <3>3. QED
      BY <3>1, <3>2
  <2>2. f \in [0..n -> TraceType]
    BY <2>1
  <2>3. g \in [0..n -> TraceType]
    OBVIOUS
  <2> HIDE DEF f
  <2>4. g = f
    BY <2>1, <2>2, <2>3
  <2>5. QED
    BY <2>4 DEF f
<1> DEFINE u == CHOOSE f : Course(f)
<1>3. Course(u)
  BY <1>2
<1>4. Trace(l) = u[n]
  BY DEF Trace, Folded
<1>5. n \in Nat
  OBVIOUS
<1>6. ASSUME NEW i \in 0..n
      PROVE  u[i] = IF i = 0 THEN FreshTrace
                    ELSE CHOOSE after \in {Advance(before, l[i]) : before \in {u[i - 1]}} : TRUE
  BY <1>3
<1> HIDE DEF u, n
<1>7. \A i \in 1..n : u[i] = Advance(u[i - 1], l[i])
  BY <1>1, <1>6
<1>8. u[0] = FreshTrace
  BY <1>5, <1>6
<1> DEFINE Off == {i \in 0..n : u[i] # g[i]}
<1>9. CASE Off = {}
  BY <1>4, <1>5, <1>9 DEF n
<1>10. CASE Off # {}
  <2>1. Off \in SUBSET Nat
    OBVIOUS
  <2>2. PICK k \in Off : \A j \in Off : k <= j
    BY <1>10, <2>1, Least
  <2>3. k \in 0..n /\ u[k] # g[k]
    OBVIOUS
  <2>4. k # 0
    BY <1>8, <2>3
  <2>5. k \in 1..n /\ k - 1 \in 0..n /\ k - 1 \notin Off
    BY <1>5, <2>2, <2>3, <2>4
  <2>6. u[k - 1] = g[k - 1]
    BY <2>5
  <2>7. g[k] = Advance(g[k - 1], l[k])
    BY <2>5 DEF n
  <2>8. QED
    BY <1>7, <2>3, <2>5, <2>6, <2>7
<1>11. QED
  BY <1>9, <1>10

(* Every log has such a course. *)
LEMMA TraceExists ==
  ASSUME NEW l \in Seq(EventSet)
  PROVE  \E g \in [0..Len(l) -> TraceType] :
           /\ g[0] = FreshTrace /\ \A i \in 1..Len(l) : g[i] = Advance(g[i - 1], l[i])
           /\ Trace(l) = g[Len(l)]
<1> DEFINE n == Len(l)
           h == [i \in 1..n |-> [x \in TraceType |-> Advance(x, l[i])]]
<1>1. n \in Nat /\ \A i \in 1..n : l[i] \in EventSet
  OBVIOUS
<1>2. h \in [1..n -> [TraceType -> TraceType]]
  BY <1>1, AdvanceType
<1>3. FreshTrace \in TraceType
  BY Fresh
<1>4. PICK g \in [0..n -> TraceType] : Path(g, FreshTrace, h, n)
  <2> HIDE DEF n, h
  <2>1. QED
    BY <1>1, <1>2, <1>3, PathExists
<1>5. ASSUME NEW i \in 1..n
      PROVE  g[i] = Advance(g[i - 1], l[i])
  <2>1. i - 1 \in 0..n /\ g[i - 1] \in TraceType
    BY <1>1
  <2>2. g[i] = h[i][g[i - 1]]
    BY <1>4 DEF Path
  <2>3. QED
    BY <2>1, <2>2
<1>6. g[0] = FreshTrace
  BY <1>4 DEF Path
<1>7. Trace(l) = g[n]
  <2>1. g \in [0..Len(l) -> TraceType] /\ \A i \in 1..Len(l) : g[i] = Advance(g[i - 1], l[i])
    BY <1>5
  <2>2. QED
    BY <2>1, <1>6, TraceCourse
<1>8. QED
  BY <1>5, <1>6, <1>7

(* One event more advances the fold of the log by that event. *)
LEMMA TraceAppend ==
  ASSUME NEW l \in Seq(EventSet), NEW e \in EventSet
  PROVE  /\ Trace(l) \in TraceType
         /\ Trace(Append(l, e)) = Advance(Trace(l), e)
<1>1. PICK g \in [0..Len(l) -> TraceType] :
         /\ g[0] = FreshTrace /\ \A i \in 1..Len(l) : g[i] = Advance(g[i - 1], l[i])
         /\ Trace(l) = g[Len(l)]
  BY TraceExists
<1> DEFINE n == Len(l)
           m == Append(l, e)
           f == [i \in 0..n + 1 |-> IF i = n + 1 THEN Advance(g[n], e) ELSE g[i]]
<1>2. /\ n \in Nat /\ m \in Seq(EventSet) /\ Len(m) = n + 1 /\ m[n + 1] = e
      /\ \A i \in 1..n : m[i] = l[i]
  OBVIOUS
<1>3. g[n] \in TraceType /\ Advance(g[n], e) \in TraceType
  BY <1>2, AdvanceType
<1>4. \A i \in 0..n + 1 : i # n + 1 => i \in 0..n
  BY <1>2
<1>5. f \in [0..Len(m) -> TraceType]
  <2> HIDE DEF m
  <2>1. QED
    BY <1>2, <1>3, <1>4
<1>6. f[0] = FreshTrace /\ f[n + 1] = Advance(g[n], e) /\ \A i \in 0..n : f[i] = g[i]
  BY <1>1, <1>2
<1> HIDE DEF f, m, n
<1>7. ASSUME NEW i \in 1..Len(m)
      PROVE  f[i] = Advance(f[i - 1], m[i])
  <2>1. i - 1 \in 0..n /\ f[i - 1] = g[i - 1]
    BY <1>2, <1>6
  <2>2. CASE i = n + 1
    <3>1. i - 1 = n /\ m[i] = e
      BY <1>2, <2>2
    <3>2. QED
      BY <1>6, <2>1, <2>2, <3>1
  <2>3. CASE i # n + 1
    <3>1. i \in 1..n /\ i \in 0..n
      BY <1>2, <2>3
    <3>2. g[i] = Advance(g[i - 1], l[i])
      BY <1>1, <3>1 DEF n
    <3>3. QED
      BY <1>2, <1>6, <2>1, <3>1, <3>2
  <2>4. QED
    BY <2>2, <2>3
<1>8. Trace(m) = f[Len(m)]
  BY <1>2, <1>5, <1>6, <1>7, TraceCourse
<1>9. Trace(l) = g[n]
  BY <1>1 DEF n
<1>10. QED
  BY <1>2, <1>3, <1>6, <1>8, <1>9 DEF m

(* The trace of the empty log is the fresh one. *)
LEMMA TraceEmpty == Trace(<<>>) = FreshTrace
<1>1. PICK g \in [0..Len(<<>>) -> TraceType] : g[0] = FreshTrace /\ Trace(<<>>) = g[Len(<<>>)]
  <2>1. <<>> \in Seq(EventSet)
    OBVIOUS
  <2>2. QED
    BY <2>1, TraceExists
<1>2. QED
  BY <1>1

(* The same for the scan. *)
LEMMA ScannedCourse ==
  ASSUME NEW l \in Seq(EventSet), NEW g \in [0..Len(l) -> ScanType],
         g[0] = FreshScan, \A i \in 1..Len(l) : g[i] = Scan(g[i - 1], l[i])
  PROVE  Scanned(l) = g[Len(l)]
<1> DEFINE n == Len(l)
           Course(f) == f = [i \in 0..n |-> IF i = 0 THEN FreshScan
                                ELSE CHOOSE after \in {Scan(before, l[i]) : before \in {f[i - 1]}} : TRUE]
<1>1. ASSUME NEW i \in 1..n, NEW x
      PROVE  (CHOOSE after \in {Scan(before, l[i]) : before \in {x}} : TRUE) = Scan(x, l[i])
  OBVIOUS
<1>2. Course(g)
  <2> DEFINE f == [i \in 0..n |-> IF i = 0 THEN FreshScan
                      ELSE CHOOSE after \in {Scan(before, l[i]) : before \in {g[i - 1]}} : TRUE]
  <2>1. ASSUME NEW i \in 0..n
        PROVE  f[i] = g[i]
    <3>1. CASE i = 0
      BY <3>1
    <3>2. CASE i # 0
      <4>1. i \in 1..n
        BY <3>2
      <4>2. f[i] = CHOOSE after \in {Scan(before, l[i]) : before \in {g[i - 1]}} : TRUE
        BY <3>2
      <4>3. QED
        BY <1>1, <4>1, <4>2
    <3>3. QED
      BY <3>1, <3>2
  <2>2. f \in [0..n -> ScanType]
    BY <2>1
  <2>3. g \in [0..n -> ScanType]
    OBVIOUS
  <2> HIDE DEF f
  <2>4. g = f
    BY <2>1, <2>2, <2>3
  <2>5. QED
    BY <2>4 DEF f
<1> DEFINE u == CHOOSE f : Course(f)
<1>3. Course(u)
  BY <1>2
<1>4. Scanned(l) = u[n]
  BY DEF Scanned, Folded
<1>5. n \in Nat
  OBVIOUS
<1>6. ASSUME NEW i \in 0..n
      PROVE  u[i] = IF i = 0 THEN FreshScan
                    ELSE CHOOSE after \in {Scan(before, l[i]) : before \in {u[i - 1]}} : TRUE
  BY <1>3
<1> HIDE DEF u, n
<1>7. \A i \in 1..n : u[i] = Scan(u[i - 1], l[i])
  BY <1>1, <1>6
<1>8. u[0] = FreshScan
  BY <1>5, <1>6
<1> DEFINE Off == {i \in 0..n : u[i] # g[i]}
<1>9. CASE Off = {}
  BY <1>4, <1>5, <1>9 DEF n
<1>10. CASE Off # {}
  <2>1. Off \in SUBSET Nat
    OBVIOUS
  <2>2. PICK k \in Off : \A j \in Off : k <= j
    BY <1>10, <2>1, Least
  <2>3. k \in 0..n /\ u[k] # g[k]
    OBVIOUS
  <2>4. k # 0
    BY <1>8, <2>3
  <2>5. k \in 1..n /\ k - 1 \in 0..n /\ k - 1 \notin Off
    BY <1>5, <2>2, <2>3, <2>4
  <2>6. u[k - 1] = g[k - 1]
    BY <2>5
  <2>7. g[k] = Scan(g[k - 1], l[k])
    BY <2>5 DEF n
  <2>8. QED
    BY <1>7, <2>3, <2>5, <2>6, <2>7
<1>11. QED
  BY <1>9, <1>10

(* Every log has such a course. *)
LEMMA ScannedExists ==
  ASSUME NEW l \in Seq(EventSet)
  PROVE  \E g \in [0..Len(l) -> ScanType] :
           /\ g[0] = FreshScan /\ \A i \in 1..Len(l) : g[i] = Scan(g[i - 1], l[i])
           /\ Scanned(l) = g[Len(l)]
<1> DEFINE n == Len(l)
           h == [i \in 1..n |-> [x \in ScanType |-> Scan(x, l[i])]]
<1>1. n \in Nat /\ \A i \in 1..n : l[i] \in EventSet
  OBVIOUS
<1>2. h \in [1..n -> [ScanType -> ScanType]]
  BY <1>1, ScanTyped
<1>3. FreshScan \in ScanType
  BY Fresh
<1>4. PICK g \in [0..n -> ScanType] : Path(g, FreshScan, h, n)
  <2> HIDE DEF n, h
  <2>1. QED
    BY <1>1, <1>2, <1>3, PathExists
<1>5. ASSUME NEW i \in 1..n
      PROVE  g[i] = Scan(g[i - 1], l[i])
  <2>1. i - 1 \in 0..n /\ g[i - 1] \in ScanType
    BY <1>1
  <2>2. g[i] = h[i][g[i - 1]]
    BY <1>4 DEF Path
  <2>3. QED
    BY <2>1, <2>2
<1>6. g[0] = FreshScan
  BY <1>4 DEF Path
<1>7. Scanned(l) = g[n]
  <2>1. g \in [0..Len(l) -> ScanType] /\ \A i \in 1..Len(l) : g[i] = Scan(g[i - 1], l[i])
    BY <1>5
  <2>2. QED
    BY <2>1, <1>6, ScannedCourse
<1>8. QED
  BY <1>5, <1>6, <1>7

(* One event more advances the fold of the log by that event. *)
LEMMA ScannedAppend ==
  ASSUME NEW l \in Seq(EventSet), NEW e \in EventSet
  PROVE  /\ Scanned(l) \in ScanType
         /\ Scanned(Append(l, e)) = Scan(Scanned(l), e)
<1>1. PICK g \in [0..Len(l) -> ScanType] :
         /\ g[0] = FreshScan /\ \A i \in 1..Len(l) : g[i] = Scan(g[i - 1], l[i])
         /\ Scanned(l) = g[Len(l)]
  BY ScannedExists
<1> DEFINE n == Len(l)
           m == Append(l, e)
           f == [i \in 0..n + 1 |-> IF i = n + 1 THEN Scan(g[n], e) ELSE g[i]]
<1>2. /\ n \in Nat /\ m \in Seq(EventSet) /\ Len(m) = n + 1 /\ m[n + 1] = e
      /\ \A i \in 1..n : m[i] = l[i]
  OBVIOUS
<1>3. g[n] \in ScanType /\ Scan(g[n], e) \in ScanType
  BY <1>2, ScanTyped
<1>4. \A i \in 0..n + 1 : i # n + 1 => i \in 0..n
  BY <1>2
<1>5. f \in [0..Len(m) -> ScanType]
  <2> HIDE DEF m
  <2>1. QED
    BY <1>2, <1>3, <1>4
<1>6. f[0] = FreshScan /\ f[n + 1] = Scan(g[n], e) /\ \A i \in 0..n : f[i] = g[i]
  BY <1>1, <1>2
<1> HIDE DEF f, m, n
<1>7. ASSUME NEW i \in 1..Len(m)
      PROVE  f[i] = Scan(f[i - 1], m[i])
  <2>1. i - 1 \in 0..n /\ f[i - 1] = g[i - 1]
    BY <1>2, <1>6
  <2>2. CASE i = n + 1
    <3>1. i - 1 = n /\ m[i] = e
      BY <1>2, <2>2
    <3>2. QED
      BY <1>6, <2>1, <2>2, <3>1
  <2>3. CASE i # n + 1
    <3>1. i \in 1..n /\ i \in 0..n
      BY <1>2, <2>3
    <3>2. g[i] = Scan(g[i - 1], l[i])
      BY <1>1, <3>1 DEF n
    <3>3. QED
      BY <1>2, <1>6, <2>1, <3>1, <3>2
  <2>4. QED
    BY <2>2, <2>3
<1>8. Scanned(m) = f[Len(m)]
  BY <1>2, <1>5, <1>6, <1>7, ScannedCourse
<1>9. Scanned(l) = g[n]
  BY <1>1 DEF n
<1>10. QED
  BY <1>2, <1>3, <1>6, <1>8, <1>9 DEF m

(* The scan of the empty log is the fresh one. *)
LEMMA ScannedEmpty == Scanned(<<>>) = FreshScan
<1>1. PICK g \in [0..Len(<<>>) -> ScanType] : g[0] = FreshScan /\ Scanned(<<>>) = g[Len(<<>>)]
  <2>1. <<>> \in Seq(EventSet)
    OBVIOUS
  <2>2. QED
    BY <2>1, ScannedExists
<1>2. QED
  BY <1>1

(* Both folds have values of their types. *)
LEMMA FoldsTyped ==
  ASSUME NEW l \in Seq(EventSet)
  PROVE  Trace(l) \in TraceType /\ Scanned(l) \in ScanType
<1>1. [type |-> "turn/start", turn |-> 0, step |-> 0, calls |-> {}, source |-> 0, code |-> "none"]
        \in EventSet
  BY DEF EventSet
<1>2. QED
  BY <1>1, TraceAppend, ScannedAppend

-----------------------------------------------------------------------------
(* The open step of a log: its events, the calls its message opened, and   *)
(* their recorded starts and answers.                                      *)
Spoken == {"assistant/message", "tool/call", "tool/result"}
InStep(l, type) ==
  {i \in 1..Len(l) : l[i].type = type /\ l[i].turn = Trace(l).openTurn
                                      /\ l[i].step = Trace(l).openStep}
Opened(l) == {c \in CallIds : \E i \in InStep(l, "assistant/message") : c \in l[i].calls}
Starts(l, c) == {i \in InStep(l, "tool/call") : l[i].calls = {c}}
Answers(l, c) == {i \in InStep(l, "tool/result") : l[i].calls = {c}}

(* A call's events are of a step, and of one call. *)
Shaped(l) ==
  \A i \in 1..Len(l) :
    /\ l[i].type \in Spoken => l[i].step # 0
    /\ l[i].type \in {"tool/call", "tool/result"} => \E c \in CallIds : l[i].calls = {c}

(* The companion accepted the log, and counts as the writer does. *)
Numbered(l) ==
  LET t == Trace(l)
  IN  /\ t.ok /\ t.nextTurn # 0 /\ t.nextStep # 0
      /\ t.openTurn \in {0, t.nextTurn} /\ t.openStep \in {0, t.nextStep}
      /\ t.openTurn = 0 => t.openStep = 0

(* Turns and steps to come have new numbers. *)
Counted(l) ==
  LET t == Trace(l)
  IN  \A i \in 1..Len(l) :
        /\ l[i].turn < t.nextTurn \/ l[i].turn = t.openTurn
        /\ l[i].turn = t.openTurn /\ t.openTurn # 0 => l[i].step < t.nextStep \/ l[i].step = t.openStep

(* The last turn is the one before the next, or the open one. *)
Started(l, turn) == \E i \in 1..Len(l) : l[i].type = "turn/start" /\ l[i].turn = turn
Latest(l) ==
  LET t == Trace(l)
  IN  /\ t.openTurn # 0 => Started(l, t.openTurn)
      /\ t.openTurn = 0 /\ t.nextTurn # 1 => Started(l, t.nextTurn - 1)

(* The scan of the repair sees the turn and step the companion sees. *)
Agrees(l) ==
  LET t == Trace(l)
      s == Scanned(l)
  IN  s.openTurn = t.openTurn /\ s.openStep = t.openStep /\ s.seq = Len(l)

(* What the scan has pending are the calls the open step has not answered, *)
(* each with its start; the companion awaits those that started.           *)
AwaitsCall(l, c, p, t) ==
  /\ p.step = 0 => p = NoCalls[c]
  /\ p.step # 0 => t.openStep # 0 /\ p.step = t.openStep
  /\ p.step # 0 <=> c \in Opened(l) /\ Answers(l, c) = {}
  /\ p.step # 0 => IF p.seq = 0 THEN Starts(l, c) = {} ELSE p.seq \in Starts(l, c)
  /\ \A i, j \in Answers(l, c) : i = j
  /\ Answers(l, c) # {} => c \in Opened(l)
  /\ Starts(l, c) # {} => c \in Opened(l)
  /\ Starts(l, c) # {} /\ Answers(l, c) = {} => c \in t.pendingCalls
Awaits(l) == \A c \in CallIds : AwaitsCall(l, c, Scanned(l).pending[c], Trace(l))

Good(l) ==
  Shaped(l) /\ Numbered(l) /\ Counted(l) /\ Latest(l) /\ Agrees(l) /\ Awaits(l)

(* An event that may follow a log: of the writer, or of a repair. *)
FitsTurn(t, e) ==
  \/ e.type = "turn/start" /\ t.openTurn = 0 /\ e.turn = t.nextTurn /\ e.step = 0
  \/ e.type = "turn/end" /\ t.openTurn # 0 /\ t.openStep = 0 /\ e.turn = t.openTurn
FitsStep(t, e) ==
  \/ /\ e.type = "step/start" /\ t.openTurn # 0 /\ t.openStep = 0
     /\ e.turn = t.openTurn /\ e.step = t.nextStep
  \/ e.type = "step/end" /\ t.openStep # 0 /\ InOpenStep(t, e)
FitsMessage(l, t, e) ==
  e.type = "assistant/message" /\ t.openStep # 0 /\ InOpenStep(t, e) /\ Opened(l) = {}
FitsCall(l, t, e) ==
  /\ e.type = "tool/call" /\ t.openStep # 0 /\ InOpenStep(t, e)
  /\ \E c \in Opened(l) : e.calls = {c}
FitsResult(l, t, e) ==
  /\ e.type = "tool/result" /\ t.openStep # 0 /\ InOpenStep(t, e)
  /\ \E c \in Opened(l) : /\ e.calls = {c} /\ Answers(l, c) = {}
                          /\ c \in t.pendingCalls \/ e.code = "not-started"
Fits(l, e) ==
  LET t == Trace(l)
  IN  \/ FitsTurn(t, e) \/ FitsStep(t, e)
      \/ FitsMessage(l, t, e) \/ FitsCall(l, t, e) \/ FitsResult(l, t, e)

(* An event of the open step leaves the trace's cursor alone. *)
LEMMA SpokenMoves ==
  ASSUME NEW t \in TraceType, NEW e \in EventSet, e.type \in Spoken, InOpenStep(t, e)
  PROVE  LET u == Advance(t, e)
         IN  /\ u.openTurn = t.openTurn /\ u.openStep = t.openStep
             /\ u.nextTurn = t.nextTurn /\ u.nextStep = t.nextStep
             /\ e.type = "assistant/message" => (t.ok => u.ok) /\ u.pendingCalls = t.pendingCalls
             /\ e.type = "tool/call" => (t.ok => u.ok) /\ u.pendingCalls = t.pendingCalls \cup e.calls
             /\ e.type = "tool/result" =>
                  /\ t.ok /\ (e.calls \subseteq t.pendingCalls \/ e.code = "not-started") => u.ok
                  /\ u.pendingCalls = t.pendingCalls \ e.calls
<1> USE DEF TraceType
<1>1. CASE e.type = "assistant/message"
  BY <1>1 DEF Advance, InOpenStep
<1>2. CASE e.type = "tool/call"
  BY <1>2 DEF Advance, InOpenStep
<1>3. CASE e.type = "tool/result"
  BY <1>3 DEF Advance, InOpenStep
<1>4. QED
  BY <1>1, <1>2, <1>3 DEF Spoken

(* What a boundary of a turn or a step does to the cursor of the trace. *)
LEMMA BoundaryMoves ==
  ASSUME NEW t \in TraceType, NEW e \in EventSet
  PROVE  LET u == Advance(t, e)
         IN  /\ e.type = "turn/start" =>
                  /\ u.openTurn = e.turn /\ u.openStep = t.openStep
                  /\ u.nextTurn = t.nextTurn /\ u.nextStep = 1
                  /\ t.ok /\ t.openTurn = 0 /\ e.turn = t.nextTurn => u.ok
             /\ e.type = "turn/end" =>
                  /\ u.openTurn = 0 /\ u.openStep = t.openStep
                  /\ u.nextTurn = t.nextTurn + 1 /\ u.nextStep = t.nextStep
                  /\ t.ok /\ t.openTurn = e.turn /\ t.openStep = 0 => u.ok
             /\ e.type = "step/start" =>
                  /\ u.openTurn = t.openTurn /\ u.openStep = e.step
                  /\ u.nextTurn = t.nextTurn /\ u.nextStep = t.nextStep
                  /\ t.ok /\ t.openTurn = e.turn /\ t.openStep = 0 /\ e.step = t.nextStep => u.ok
             /\ e.type = "step/end" =>
                  /\ u.openTurn = t.openTurn /\ u.openStep = 0
                  /\ u.nextTurn = t.nextTurn /\ u.nextStep = t.nextStep + 1
                  /\ t.ok /\ InOpenStep(t, e) => u.ok
<1> USE DEF TraceType
<1>1. CASE e.type = "turn/start"
  BY <1>1 DEF Advance
<1>2. CASE e.type = "turn/end"
  BY <1>2 DEF Advance
<1>3. CASE e.type = "step/start"
  BY <1>3 DEF Advance
<1>4. CASE e.type = "step/end"
  BY <1>4 DEF Advance, InOpenStep
<1>5. QED
  BY <1>1, <1>2, <1>3, <1>4

(* An event of the open step joins it. *)
LEMMA JoinsStep ==
  ASSUME NEW l \in Seq(EventSet), NEW e \in EventSet, NEW type,
         e.type \in Spoken, InOpenStep(Trace(l), e)
  PROVE  InStep(Append(l, e), type) =
           InStep(l, type) \cup (IF e.type = type THEN {Len(l) + 1} ELSE {})
<1>1. Trace(l) \in TraceType /\ Trace(Append(l, e)) = Advance(Trace(l), e)
  BY TraceAppend
<1>2. /\ Trace(Append(l, e)).openTurn = Trace(l).openTurn
      /\ Trace(Append(l, e)).openStep = Trace(l).openStep
  BY <1>1, SpokenMoves
<1> DEFINE m == Append(l, e)
<1>3. /\ Len(m) = Len(l) + 1 /\ Len(l) \in Nat /\ m[Len(l) + 1] = e
      /\ \A i \in 1..Len(l) : m[i] = l[i]
  OBVIOUS
<1>4. 1..Len(m) = 1..Len(l) \cup {Len(l) + 1}
  BY <1>3
<1>5. e.turn = Trace(l).openTurn /\ e.step = Trace(l).openStep
  BY DEF InOpenStep
<1> HIDE DEF m
<1>6. InStep(m, type) = InStep(l, type) \cup (IF e.type = type THEN {Len(l) + 1} ELSE {})
  <2>1. ASSUME NEW i \in 1..Len(l)
        PROVE  i \in InStep(m, type) <=> i \in InStep(l, type)
    BY <1>2, <1>3, <1>4 DEF InStep, m
  <2>2. Len(l) + 1 \in InStep(m, type) <=> e.type = type
    BY <1>2, <1>3, <1>4, <1>5 DEF InStep, m
  <2>3. InStep(m, type) \subseteq 1..Len(m) /\ InStep(l, type) \subseteq 1..Len(l)
    BY DEF InStep
  <2>4. Len(l) + 1 \notin 1..Len(l)
    BY <1>3
  <2>5. QED
    BY <1>4, <2>1, <2>2, <2>3, <2>4
<1>7. QED
  BY <1>6 DEF m

(* A log with one event more. *)
Grown(l, e, m) ==
  /\ l \in Seq(EventSet) /\ e \in EventSet /\ m \in Seq(EventSet)
  /\ Len(l) \in Nat /\ Len(m) = Len(l) + 1 /\ m[Len(l) + 1] = e
  /\ \A i \in 1..Len(l) : i \in 1..Len(m) /\ m[i] = l[i] /\ l[i].turn \in Nat /\ l[i].step \in Nat
  /\ Len(l) + 1 \in 1..Len(m) /\ \A i \in 1..Len(m) : i \in 1..Len(l) \/ i = Len(l) + 1
  /\ Trace(l) \in TraceType /\ Trace(m) \in TraceType /\ Trace(m) = Advance(Trace(l), e)
  /\ Scanned(l) \in ScanType /\ Scanned(m) = Scan(Scanned(l), e)
  /\ \A type : e.type \in Spoken /\ InOpenStep(Trace(l), e) =>
       InStep(m, type) = InStep(l, type) \cup (IF e.type = type THEN {Len(l) + 1} ELSE {})

(* Appending an event grows the log by it. *)
LEMMA AppendGrows ==
  ASSUME NEW l \in Seq(EventSet), NEW e \in EventSet
  PROVE  Grown(l, e, Append(l, e))
<1> DEFINE m == Append(l, e)
<1>1. /\ m \in Seq(EventSet) /\ Len(l) \in Nat /\ Len(m) = Len(l) + 1 /\ m[Len(l) + 1] = e
      /\ \A i \in 1..Len(l) : m[i] = l[i] /\ l[i] \in EventSet
  OBVIOUS
<1>2. /\ \A i \in 1..Len(l) : i \in 1..Len(m)
      /\ Len(l) + 1 \in 1..Len(m) /\ \A i \in 1..Len(m) : i \in 1..Len(l) \/ i = Len(l) + 1
  BY <1>1
<1>7. \A i \in 1..Len(l) : l[i].turn \in Nat /\ l[i].step \in Nat
  BY <1>1 DEF EventSet
<1>3. /\ Trace(l) \in TraceType /\ Trace(m) = Advance(Trace(l), e)
      /\ Scanned(l) \in ScanType /\ Scanned(m) = Scan(Scanned(l), e)
  BY TraceAppend, ScannedAppend
<1>4. Trace(m) \in TraceType
  BY <1>3, AdvanceType
<1>5. ASSUME NEW type, e.type \in Spoken, InOpenStep(Trace(l), e)
      PROVE  InStep(m, type) = InStep(l, type) \cup (IF e.type = type THEN {Len(l) + 1} ELSE {})
  BY <1>5, JoinsStep
<1> HIDE DEF m
<1>6. Grown(l, e, m)
  BY <1>1, <1>2, <1>3, <1>4, <1>5, <1>7 DEF Grown
<1>8. QED
  BY <1>6 DEF m

(* Nothing is awaited where the open step has no event of a call. *)
LEMMA AwaitsNothing ==
  ASSUME NEW m, \A type \in Spoken : InStep(m, type) = {},
         \A c \in CallIds : Scanned(m).pending[c] = NoCalls[c]
  PROVE  Awaits(m)
<1>1. ASSUME NEW c \in CallIds
      PROVE  AwaitsCall(m, c, Scanned(m).pending[c], Trace(m))
  <2>1. Opened(m) = {} /\ Starts(m, c) = {} /\ Answers(m, c) = {}
    BY DEF Opened, Starts, Answers, Spoken
  <2>2. Scanned(m).pending[c].step = 0 /\ Scanned(m).pending[c] = NoCalls[c]
    BY DEF NoCalls
  <2>3. QED
    BY <2>1, <2>2 DEF AwaitsCall
<1>2. QED
  BY <1>1 DEF Awaits

(* No step is open: no event of a call is of it. *)
LEMMA NoStepOpen ==
  ASSUME NEW m, Shaped(m), Trace(m).openStep = 0
  PROVE  \A type \in Spoken : InStep(m, type) = {}
BY DEF Shaped, InStep

(* The shape of the events is kept by an event that has it. *)
LEMMA ShapedGrows ==
  ASSUME NEW l, NEW e, NEW m, Grown(l, e, m), Shaped(l),
         e.type \in Spoken => e.step # 0,
         e.type \in {"tool/call", "tool/result"} => \E c \in CallIds : e.calls = {c}
  PROVE  Shaped(m)
<1>1. ASSUME NEW i \in 1..Len(m)
      PROVE  /\ m[i].type \in Spoken => m[i].step # 0
             /\ m[i].type \in {"tool/call", "tool/result"} => \E c \in CallIds : m[i].calls = {c}
  <2>1. CASE i \in 1..Len(l)
    <3>1. m[i] = l[i]
      BY <2>1 DEF Grown
    <3>2. QED
      BY <2>1, <3>1 DEF Shaped
  <2>2. CASE i = Len(l) + 1
    <3>1. m[i] = e
      BY <2>2 DEF Grown
    <3>2. QED
      BY <3>1
  <2>3. QED
    BY <2>1, <2>2 DEF Grown
<1>2. QED
  BY <1>1 DEF Shaped

(* A turn is started and ended well. *)
LEMMA GoodTurn ==
  ASSUME NEW l, NEW e, NEW m, Grown(l, e, m), Good(l), FitsTurn(Trace(l), e)
  PROVE  Good(m)
<1> DEFINE t == Trace(l)
           u == Trace(m)
           s == Scanned(l)
<1>1. /\ t \in TraceType /\ e \in EventSet /\ u = Advance(t, e) /\ u \in TraceType
      /\ s \in ScanType /\ Scanned(m) = Scan(s, e) /\ Len(m) = Len(l) + 1
  BY DEF Grown
<1>2. /\ t.nextTurn \in Nat /\ t.nextStep \in Nat /\ t.openTurn \in Nat /\ t.openStep \in Nat
      /\ t.ok /\ t.nextTurn # 0 /\ t.nextStep # 0
      /\ t.openTurn \in {0, t.nextTurn} /\ t.openStep \in {0, t.nextStep}
      /\ t.openTurn = 0 => t.openStep = 0
  BY <1>1 DEF Good, Numbered, TraceType
<1>3. t.openStep = 0 /\ e.type \in {"turn/start", "turn/end"}
  BY <1>2 DEF FitsTurn
<1>4. u.openStep = 0
  BY <1>1, <1>3, BoundaryMoves
<1>5. Shaped(m)
  BY <1>3, ShapedGrows DEF Good, Spoken
<1>6. Awaits(m)
  <2>1. \A c \in CallIds : Scanned(m).pending[c] = NoCalls[c]
    BY <1>1, <1>3 DEF Scan, PendingAfter
  <2>2. QED
    BY <1>4, <1>5, <2>1, NoStepOpen, AwaitsNothing
<1>7. CASE e.type = "turn/start"
  <2>1. t.openTurn = 0 /\ e.turn = t.nextTurn /\ e.step = 0
    BY <1>7 DEF FitsTurn
  <2>2. u.openTurn = t.nextTurn /\ u.nextTurn = t.nextTurn /\ u.nextStep = 1 /\ u.ok
    BY <1>1, <1>2, <1>7, <2>1, BoundaryMoves
  <2>3. Numbered(m)
    BY <1>2, <1>4, <2>2 DEF Numbered
  <2>4. Counted(m)
    <3>1. ASSUME NEW i \in 1..Len(m)
          PROVE  /\ m[i].turn < u.nextTurn \/ m[i].turn = u.openTurn
                 /\ m[i].turn = u.openTurn /\ u.openTurn # 0 =>
                      m[i].step < u.nextStep \/ m[i].step = u.openStep
      <4>1. CASE i \in 1..Len(l)
        <5>1. m[i] = l[i] /\ l[i].turn \in Nat
          BY <4>1 DEF Grown
        <5>2. l[i].turn < t.nextTurn \/ l[i].turn = t.openTurn
          BY <4>1 DEF Good, Counted
        <5>3. l[i].turn < t.nextTurn
          BY <1>2, <2>1, <5>2
        <5>4. QED
          BY <1>2, <2>2, <5>1, <5>3
      <4>2. CASE i = Len(l) + 1
        <5>1. m[i] = e
          BY <4>2 DEF Grown
        <5>2. QED
          BY <1>4, <2>1, <2>2, <5>1
      <4>3. QED
        BY <4>1, <4>2 DEF Grown
    <3>2. QED
      BY <3>1 DEF Counted
  <2>5. Latest(m)
    <3>1. Len(l) + 1 \in 1..Len(m) /\ m[Len(l) + 1] = e
      BY DEF Grown
    <3>2. Started(m, u.openTurn)
      BY <1>7, <2>1, <2>2, <3>1 DEF Started
    <3>3. QED
      BY <1>2, <2>2, <3>2 DEF Latest
  <2>6. Agrees(m)
    BY <1>1, <1>4, <1>7, <2>1, <2>2 DEF Good, Agrees, Scan
  <2>7. QED
    BY <1>5, <1>6, <2>3, <2>4, <2>5, <2>6 DEF Good
<1>8. CASE e.type = "turn/end"
  <2>1. t.openTurn # 0 /\ e.turn = t.openTurn /\ t.openTurn = t.nextTurn
    BY <1>2, <1>8 DEF FitsTurn
  <2>2. u.openTurn = 0 /\ u.nextTurn = t.nextTurn + 1 /\ u.nextStep = t.nextStep /\ u.ok
    BY <1>1, <1>2, <1>3, <1>8, <2>1, BoundaryMoves
  <2>3. Numbered(m)
    BY <1>2, <1>4, <2>2 DEF Numbered
  <2>4. Counted(m)
    <3>1. ASSUME NEW i \in 1..Len(m)
          PROVE  m[i].turn < u.nextTurn
      <4>1. CASE i \in 1..Len(l)
        <5>1. m[i] = l[i] /\ l[i].turn \in Nat
          BY <4>1 DEF Grown
        <5>2. l[i].turn < t.nextTurn \/ l[i].turn = t.openTurn
          BY <4>1 DEF Good, Counted
        <5>3. QED
          BY <1>2, <2>1, <2>2, <5>1, <5>2
      <4>2. CASE i = Len(l) + 1
        <5>1. m[i] = e
          BY <4>2 DEF Grown
        <5>2. QED
          BY <1>2, <2>1, <2>2, <5>1
      <4>3. QED
        BY <4>1, <4>2 DEF Grown
    <3>2. QED
      BY <2>2, <3>1 DEF Counted
  <2>5. Latest(m)
    <3>1. Started(l, t.openTurn)
      BY <2>1 DEF Good, Latest
    <3>2. Started(m, t.openTurn)
      BY <3>1 DEF Started, Grown
    <3>3. u.nextTurn - 1 = t.openTurn
      BY <1>2, <2>1, <2>2
    <3>4. QED
      BY <2>2, <3>2, <3>3 DEF Latest
  <2>6. Agrees(m)
    BY <1>1, <1>4, <1>8, <2>2 DEF Good, Agrees, Scan
  <2>7. QED
    BY <1>5, <1>6, <2>3, <2>4, <2>5, <2>6 DEF Good
<1>9. QED
  BY <1>3, <1>7, <1>8

(* A step is started and ended well. *)
LEMMA GoodStep ==
  ASSUME NEW l, NEW e, NEW m, Grown(l, e, m), Good(l), FitsStep(Trace(l), e)
  PROVE  Good(m)
<1> DEFINE t == Trace(l)
           u == Trace(m)
           s == Scanned(l)
<1>1. /\ t \in TraceType /\ e \in EventSet /\ u = Advance(t, e) /\ u \in TraceType
      /\ s \in ScanType /\ Scanned(m) = Scan(s, e) /\ Len(m) = Len(l) + 1
  BY DEF Grown
<1>2. /\ t.nextTurn \in Nat /\ t.nextStep \in Nat /\ t.openTurn \in Nat /\ t.openStep \in Nat
      /\ t.ok /\ t.nextTurn # 0 /\ t.nextStep # 0
      /\ t.openTurn \in {0, t.nextTurn} /\ t.openStep \in {0, t.nextStep}
      /\ t.openTurn = 0 => t.openStep = 0
  BY <1>1 DEF Good, Numbered, TraceType
<1>3. /\ e.type \in {"step/start", "step/end"} /\ e.turn = t.openTurn /\ e.step = t.nextStep
      /\ t.openTurn # 0 /\ t.openTurn = t.nextTurn
  BY <1>2 DEF FitsStep, InOpenStep
<1>4. u.openTurn = t.openTurn /\ u.nextTurn = t.nextTurn
  BY <1>1, <1>3, BoundaryMoves
<1>5. Shaped(m)
  BY <1>3, ShapedGrows DEF Good, Spoken
<1>6. Latest(m)
  <2>1. Started(l, t.openTurn)
    BY <1>3 DEF Good, Latest
  <2>2. Started(m, t.openTurn)
    BY <2>1 DEF Started, Grown
  <2>3. QED
    BY <1>3, <1>4, <2>2 DEF Latest
<1>7. CASE e.type = "step/start"
  <2>1. t.openStep = 0
    BY <1>7 DEF FitsStep
  <2>2. u.openStep = t.nextStep /\ u.nextStep = t.nextStep /\ u.ok
    BY <1>1, <1>2, <1>3, <1>7, <2>1, BoundaryMoves
  <2>3. Numbered(m)
    BY <1>2, <1>3, <1>4, <2>2 DEF Numbered
  <2>4. ASSUME NEW i \in 1..Len(l)
        PROVE  /\ m[i] = l[i]
               /\ m[i].turn < u.nextTurn \/ m[i].turn = u.openTurn
               /\ m[i].turn = u.openTurn => m[i].step < t.nextStep
    <3>1. m[i] = l[i] /\ l[i].turn \in Nat /\ l[i].step \in Nat
      BY DEF Grown
    <3>2. /\ l[i].turn < t.nextTurn \/ l[i].turn = t.openTurn
          /\ l[i].turn = t.openTurn => l[i].step < t.nextStep \/ l[i].step = 0
      BY <1>3, <2>1 DEF Good, Counted
    <3>3. QED
      BY <1>2, <1>4, <3>1, <3>2
  <2>5. m[Len(l) + 1] = e
    BY DEF Grown
  <2>6. Counted(m)
    <3>1. ASSUME NEW i \in 1..Len(m)
          PROVE  /\ m[i].turn < u.nextTurn \/ m[i].turn = u.openTurn
                 /\ m[i].turn = u.openTurn => m[i].step < u.nextStep \/ m[i].step = u.openStep
      <4>1. CASE i \in 1..Len(l)
        BY <2>2, <2>4, <4>1
      <4>2. CASE i = Len(l) + 1
        BY <1>3, <1>4, <2>2, <2>5, <4>2
      <4>3. QED
        BY <4>1, <4>2 DEF Grown
    <3>2. QED
      BY <3>1 DEF Counted
  <2>7. Awaits(m)
    <3>1. \A type \in Spoken : InStep(m, type) = {}
      <4>1. ASSUME NEW type \in Spoken, NEW i \in InStep(m, type)
            PROVE  FALSE
        <5>1. /\ i \in 1..Len(m) /\ m[i].type = type
              /\ m[i].turn = u.openTurn /\ m[i].step = u.openStep
          BY DEF InStep
        <5>2. CASE i \in 1..Len(l)
          BY <1>2, <2>2, <2>4, <5>1, <5>2
        <5>3. CASE i = Len(l) + 1
          BY <1>7, <2>5, <5>1, <5>3 DEF Spoken
        <5>4. QED
          BY <5>1, <5>2, <5>3 DEF Grown
      <4>2. QED
        BY <4>1
    <3>2. ASSUME NEW c \in CallIds
          PROVE  Scanned(m).pending[c] = NoCalls[c]
      <4>1. Scanned(m).pending[c] = s.pending[c]
        BY <1>1, <1>7 DEF Scan, PendingAfter
      <4>2. AwaitsCall(l, c, s.pending[c], t)
        BY DEF Good, Awaits
      <4>3. QED
        BY <2>1, <4>1, <4>2 DEF AwaitsCall
    <3>3. QED
      BY <3>1, <3>2, AwaitsNothing
  <2>8. Agrees(m)
    BY <1>1, <1>3, <1>4, <1>7, <2>2 DEF Good, Agrees, Scan
  <2>9. QED
    BY <1>5, <1>6, <2>3, <2>6, <2>7, <2>8 DEF Good
<1>8. CASE e.type = "step/end"
  <2>1. t.openStep = t.nextStep
    BY <1>2, <1>8 DEF FitsStep
  <2>2. u.openStep = 0 /\ u.nextStep = t.nextStep + 1 /\ u.ok
    BY <1>1, <1>2, <1>3, <1>8, <2>1, BoundaryMoves DEF InOpenStep
  <2>3. Numbered(m)
    BY <1>2, <1>3, <1>4, <2>2 DEF Numbered
  <2>4. m[Len(l) + 1] = e
    BY DEF Grown
  <2>5. Counted(m)
    <3>1. ASSUME NEW i \in 1..Len(m)
          PROVE  /\ m[i].turn < u.nextTurn \/ m[i].turn = u.openTurn
                 /\ m[i].turn = u.openTurn => m[i].step < u.nextStep
      <4>1. CASE i \in 1..Len(l)
        <5>1. m[i] = l[i] /\ l[i].turn \in Nat /\ l[i].step \in Nat
          BY <4>1 DEF Grown
        <5>2. /\ l[i].turn < t.nextTurn \/ l[i].turn = t.openTurn
              /\ l[i].turn = t.openTurn => l[i].step < t.nextStep \/ l[i].step = t.nextStep
          BY <1>3, <2>1, <4>1 DEF Good, Counted
        <5>3. QED
          BY <1>2, <1>4, <2>2, <5>1, <5>2
      <4>2. CASE i = Len(l) + 1
        BY <1>2, <1>3, <1>4, <2>2, <2>4, <4>2
      <4>3. QED
        BY <4>1, <4>2 DEF Grown
    <3>2. QED
      BY <3>1 DEF Counted
  <2>6. Awaits(m)
    <3>1. \A c \in CallIds : Scanned(m).pending[c] = NoCalls[c]
      BY <1>1, <1>8 DEF Scan, PendingAfter
    <3>2. QED
      BY <1>5, <2>2, <3>1, NoStepOpen, AwaitsNothing
  <2>7. Agrees(m)
    BY <1>1, <1>4, <1>8, <2>2 DEF Good, Agrees, Scan
  <2>8. QED
    BY <1>5, <1>6, <2>3, <2>5, <2>6, <2>7 DEF Good
<1>9. QED
  BY <1>3, <1>7, <1>8

(* An event of the open step disturbs only what is awaited. *)
LEMMA GoodSpoken ==
  ASSUME NEW l, NEW e, NEW m, Grown(l, e, m), Good(l),
         e.type \in Spoken, InOpenStep(Trace(l), e), Trace(l).openStep # 0, Trace(m).ok,
         e.type \in {"tool/call", "tool/result"} => \E c \in CallIds : e.calls = {c}
  PROVE  /\ Shaped(m) /\ Numbered(m) /\ Counted(m) /\ Latest(m) /\ Agrees(m)
         /\ Trace(m).openStep = Trace(l).openStep
<1> DEFINE t == Trace(l)
           u == Trace(m)
           s == Scanned(l)
<1>1. /\ t \in TraceType /\ e \in EventSet /\ u = Advance(t, e) /\ u \in TraceType
      /\ s \in ScanType /\ Scanned(m) = Scan(s, e) /\ Len(m) = Len(l) + 1
  BY DEF Grown
<1>2. /\ u.openTurn = t.openTurn /\ u.openStep = t.openStep
      /\ u.nextTurn = t.nextTurn /\ u.nextStep = t.nextStep
  BY <1>1, SpokenMoves
<1>3. e.turn = t.openTurn /\ e.step = t.openStep
  BY DEF InOpenStep
<1>4. Shaped(m)
  BY <1>3, ShapedGrows DEF Good
<1>5. Numbered(m)
  BY <1>2 DEF Good, Numbered
<1>6. Counted(m)
  <2>1. ASSUME NEW i \in 1..Len(m)
        PROVE  /\ m[i].turn < u.nextTurn \/ m[i].turn = u.openTurn
               /\ m[i].turn = u.openTurn /\ u.openTurn # 0 =>
                    m[i].step < u.nextStep \/ m[i].step = u.openStep
    <3>1. CASE i \in 1..Len(l)
      BY <1>2, <3>1 DEF Good, Counted, Grown
    <3>2. CASE i = Len(l) + 1
      BY <1>2, <1>3, <3>2 DEF Grown
    <3>3. QED
      BY <3>1, <3>2 DEF Grown
  <2>2. QED
    BY <2>1 DEF Counted
<1>7. Latest(m)
  <2>1. ASSUME NEW turn, Started(l, turn)
        PROVE  Started(m, turn)
    BY <2>1 DEF Started, Grown
  <2>2. QED
    BY <1>2, <2>1 DEF Good, Latest
<1>8. Agrees(m)
  BY <1>1, <1>2 DEF Good, Agrees, Scan, Spoken
<1>9. QED
  BY <1>2, <1>4, <1>5, <1>6, <1>7, <1>8

(* An assistant message opens the calls of its step, none of which is      *)
(* started or answered.                                                    *)
LEMMA GoodMessage ==
  ASSUME NEW l, NEW e, NEW m, Grown(l, e, m), Good(l), FitsMessage(l, Trace(l), e)
  PROVE  Good(m)
<1> DEFINE t == Trace(l)
           u == Trace(m)
           s == Scanned(l)
<1>1. /\ t \in TraceType /\ e \in EventSet /\ u = Advance(t, e) /\ u \in TraceType
      /\ s \in ScanType /\ Scanned(m) = Scan(s, e)
  BY DEF Grown
<1>2. /\ e.type = "assistant/message" /\ e.type \in Spoken /\ InOpenStep(t, e)
      /\ t.openStep # 0 /\ e.step = t.openStep /\ Opened(l) = {} /\ t.ok /\ e.calls \subseteq CallIds
  BY <1>1 DEF FitsMessage, Spoken, InOpenStep, Good, Numbered, EventSet
<1>3. u.ok
  BY <1>1, <1>2, SpokenMoves
<1>4. /\ Shaped(m) /\ Numbered(m) /\ Counted(m) /\ Latest(m) /\ Agrees(m)
      /\ u.openStep = t.openStep
  <2>1. e.type \notin {"tool/call", "tool/result"}
    BY <1>2
  <2>2. QED
    BY <1>2, <1>3, <2>1, GoodSpoken
<1>7. /\ InStep(m, "assistant/message") = InStep(l, "assistant/message") \cup {Len(l) + 1}
      /\ InStep(m, "tool/call") = InStep(l, "tool/call")
      /\ InStep(m, "tool/result") = InStep(l, "tool/result")
      /\ \A type : \A i \in InStep(l, type) : m[i] = l[i]
      /\ m[Len(l) + 1] = e
  <2>1. \A type : InStep(m, type) = InStep(l, type) \cup (IF e.type = type THEN {Len(l) + 1} ELSE {})
    BY <1>2 DEF Grown
  <2>2. e.type = "assistant/message"
    BY <1>2
  <2>3. InStep(m, "assistant/message") = InStep(l, "assistant/message") \cup {Len(l) + 1}
    BY <2>1, <2>2
  <2>4. InStep(m, "tool/call") = InStep(l, "tool/call")
    BY <2>1, <2>2
  <2>5. InStep(m, "tool/result") = InStep(l, "tool/result")
    BY <2>1, <2>2
  <2>6. \A type : \A i \in InStep(l, type) : m[i] = l[i]
    BY DEF InStep, Grown
  <2>7. QED
    BY <2>3, <2>4, <2>5, <2>6 DEF Grown
<1>5. ASSUME NEW c \in CallIds
      PROVE  AwaitsCall(m, c, Scanned(m).pending[c], u)
  <2> DEFINE p == Scanned(m).pending[c]
  <2>1. AwaitsCall(l, c, s.pending[c], t)
    BY DEF Good, Awaits
  <2>2. /\ s.pending[c].step = 0 /\ s.pending[c] = NoCalls[c]
        /\ Starts(l, c) = {} /\ Answers(l, c) = {}
    BY <1>2, <2>1 DEF AwaitsCall
  <2>3. Starts(m, c) = {} /\ Answers(m, c) = {}
    BY <1>7, <2>2 DEF Starts, Answers
  <2>4. c \in Opened(m) <=> c \in e.calls
    <3>1. \A i \in InStep(l, "assistant/message") : m[i] = l[i] /\ c \notin l[i].calls
      BY <1>2, <1>7 DEF Opened
    <3>2. QED
      BY <1>7, <3>1 DEF Opened
  <2>5. p = IF c \in e.calls THEN [step |-> e.step, seq |-> 0] ELSE s.pending[c]
    BY <1>1, <1>2 DEF Scan, PendingAfter
  <2>6. NoCalls[c].step = 0
    BY DEF NoCalls
  <2> HIDE DEF p
  <2>7. CASE c \in e.calls
    <3>1. p.step = e.step /\ p.seq = 0
      BY <2>5, <2>7
    <3>2. QED
      BY <1>2, <1>4, <2>3, <2>4, <2>7, <3>1 DEF AwaitsCall, p
  <2>8. CASE c \notin e.calls
    BY <2>2, <2>3, <2>4, <2>5, <2>8 DEF AwaitsCall, p
  <2>9. QED
    BY <2>7, <2>8
<1>6. QED
  BY <1>4, <1>5 DEF Good, Awaits

(* A start is recorded for a call of the open step. *)
LEMMA GoodCall ==
  ASSUME NEW l, NEW e, NEW m, Grown(l, e, m), Good(l), FitsCall(l, Trace(l), e)
  PROVE  Good(m)
<1> DEFINE t == Trace(l)
           u == Trace(m)
           s == Scanned(l)
           n == Len(l) + 1
<1>1. /\ t \in TraceType /\ e \in EventSet /\ u = Advance(t, e) /\ u \in TraceType
      /\ s \in ScanType /\ Scanned(m) = Scan(s, e) /\ Len(l) \in Nat /\ m[n] = e
  BY DEF Grown
<1>2. /\ e.type = "tool/call" /\ e.type \in Spoken /\ InOpenStep(t, e)
      /\ t.openStep # 0 /\ t.ok
  BY DEF FitsCall, Spoken, Good, Numbered
<1>3. PICK d \in Opened(l) : e.calls = {d}
  BY DEF FitsCall
<1>4. d \in CallIds
  BY DEF Opened
<1>5. u.ok /\ u.pendingCalls = t.pendingCalls \cup {d}
  BY <1>1, <1>2, <1>3, SpokenMoves
<1>6. /\ Shaped(m) /\ Numbered(m) /\ Counted(m) /\ Latest(m) /\ Agrees(m)
      /\ u.openStep = t.openStep
  BY <1>2, <1>3, <1>4, <1>5, GoodSpoken
<1>7. s.seq = Len(l)
  BY DEF Good, Agrees
<1>8. /\ InStep(m, "assistant/message") = InStep(l, "assistant/message")
      /\ InStep(m, "tool/call") = InStep(l, "tool/call") \cup {n}
      /\ InStep(m, "tool/result") = InStep(l, "tool/result")
      /\ \A type : \A i \in InStep(l, type) : i \in 1..Len(l) /\ m[i] = l[i]
  <2>1. \A type : InStep(m, type) = InStep(l, type) \cup (IF e.type = type THEN {Len(l) + 1} ELSE {})
    BY <1>2 DEF Grown
  <2>2. e.type = "tool/call"
    BY <1>2
  <2>3. InStep(m, "assistant/message") = InStep(l, "assistant/message")
    BY <2>1, <2>2
  <2>4. InStep(m, "tool/call") = InStep(l, "tool/call") \cup {n}
    BY <2>1, <2>2
  <2>5. InStep(m, "tool/result") = InStep(l, "tool/result")
    BY <2>1, <2>2
  <2>6. \A type : \A i \in InStep(l, type) : i \in 1..Len(l) /\ m[i] = l[i]
    BY DEF InStep, Grown
  <2>7. QED
    BY <2>3, <2>4, <2>5, <2>6
<1> HIDE DEF n
<1>9. ASSUME NEW c \in CallIds
      PROVE  AwaitsCall(m, c, Scanned(m).pending[c], u)
  <2> DEFINE p == Scanned(m).pending[c]
             q == s.pending[c]
  <2>1. AwaitsCall(l, c, q, t)
    BY DEF Good, Awaits
  <2>2. Answers(m, c) = Answers(l, c)
    BY <1>8 DEF Answers
  <2>3. c \in Opened(m) <=> c \in Opened(l)
    BY <1>8 DEF Opened
  <2>4. Starts(m, c) = Starts(l, c) \cup (IF c = d THEN {n} ELSE {})
    <3>1. \A i \in InStep(l, "tool/call") : i \in Starts(m, c) <=> i \in Starts(l, c)
      BY <1>8 DEF Starts
    <3>2. n \in Starts(m, c) <=> c = d
      BY <1>1, <1>3, <1>8 DEF Starts
    <3>3. Starts(m, c) \subseteq InStep(l, "tool/call") \cup {n} /\ Starts(l, c) \subseteq InStep(l, "tool/call")
      BY <1>8 DEF Starts
    <3>4. n \notin InStep(l, "tool/call")
      BY <1>1, <1>8 DEF n
    <3>5. QED
      BY <3>1, <3>2, <3>3, <3>4
  <2>5. p = IF c = d /\ q.step # 0 THEN [q EXCEPT !.seq = s.seq + 1] ELSE q
    BY <1>1, <1>2, <1>3 DEF Scan, PendingAfter
  <2>6. q \in PendingType
    BY <1>1 DEF ScanType
  <2> HIDE DEF p, q
  <2>7. CASE c = d /\ q.step # 0
    <3>1. p = [q EXCEPT !.seq = s.seq + 1]
      BY <2>5, <2>7
    <3>2. p.step = q.step /\ p.seq = n /\ n # 0
      BY <1>1, <1>7, <2>6, <3>1 DEF PendingType, n
    <3>3. n \in Starts(m, c) /\ c \in u.pendingCalls /\ c \in Opened(l)
      BY <1>3, <1>5, <2>4, <2>7
    <3>4. q.step = t.openStep /\ Answers(l, c) = {}
      BY <2>1, <2>7 DEF AwaitsCall
    <3>5. QED
      BY <1>6, <2>2, <2>3, <2>7, <3>2, <3>3, <3>4 DEF AwaitsCall, p
  <2>8. CASE c = d /\ q.step = 0
    <3>1. p = q /\ c \in u.pendingCalls /\ c \in Opened(l)
      BY <1>3, <1>5, <2>5, <2>8
    <3>2. /\ q = NoCalls[c] /\ Answers(l, c) # {} 
          /\ \A i, j \in Answers(l, c) : i = j
      BY <2>1, <2>8, <3>1 DEF AwaitsCall
    <3>3. QED
      BY <2>2, <2>3, <2>8, <3>1, <3>2 DEF AwaitsCall, p
  <2>9. CASE c # d
    <3>1. p = q /\ Starts(m, c) = Starts(l, c) /\ (c \in t.pendingCalls => c \in u.pendingCalls)
      BY <1>5, <2>4, <2>5, <2>9
    <3>2. QED
      BY <1>6, <2>1, <2>2, <2>3, <3>1 DEF AwaitsCall, p
  <2>10. QED
    BY <2>7, <2>8, <2>9
<1>10. QED
  BY <1>6, <1>9 DEF Good, Awaits

(* A call of the open step is answered, once. *)
LEMMA GoodResult ==
  ASSUME NEW l, NEW e, NEW m, Grown(l, e, m), Good(l), FitsResult(l, Trace(l), e)
  PROVE  Good(m)
<1> DEFINE t == Trace(l)
           u == Trace(m)
           s == Scanned(l)
           n == Len(l) + 1
<1>1. /\ t \in TraceType /\ e \in EventSet /\ u = Advance(t, e) /\ u \in TraceType
      /\ s \in ScanType /\ Scanned(m) = Scan(s, e) /\ Len(l) \in Nat /\ m[n] = e
  BY DEF Grown
<1>2. /\ e.type = "tool/result" /\ e.type \in Spoken /\ InOpenStep(t, e)
      /\ t.openStep # 0 /\ t.ok
  BY DEF FitsResult, Spoken, Good, Numbered
<1>3. PICK d \in Opened(l) : /\ e.calls = {d} /\ Answers(l, d) = {}
                             /\ d \in t.pendingCalls \/ e.code = "not-started"
  BY DEF FitsResult
<1>4. d \in CallIds
  BY DEF Opened
<1>5. u.ok /\ u.pendingCalls = t.pendingCalls \ {d}
  BY <1>1, <1>2, <1>3, SpokenMoves
<1>6. /\ Shaped(m) /\ Numbered(m) /\ Counted(m) /\ Latest(m) /\ Agrees(m)
      /\ u.openStep = t.openStep
  BY <1>2, <1>3, <1>4, <1>5, GoodSpoken
<1>8. /\ InStep(m, "assistant/message") = InStep(l, "assistant/message")
      /\ InStep(m, "tool/call") = InStep(l, "tool/call")
      /\ InStep(m, "tool/result") = InStep(l, "tool/result") \cup {n}
      /\ \A type : \A i \in InStep(l, type) : i \in 1..Len(l) /\ m[i] = l[i]
  <2>1. \A type : InStep(m, type) = InStep(l, type) \cup (IF e.type = type THEN {Len(l) + 1} ELSE {})
    BY <1>2 DEF Grown
  <2>2. e.type = "tool/result"
    BY <1>2
  <2>3. InStep(m, "assistant/message") = InStep(l, "assistant/message")
    BY <2>1, <2>2
  <2>4. InStep(m, "tool/call") = InStep(l, "tool/call")
    BY <2>1, <2>2
  <2>5. InStep(m, "tool/result") = InStep(l, "tool/result") \cup {n}
    BY <2>1, <2>2
  <2>6. \A type : \A i \in InStep(l, type) : i \in 1..Len(l) /\ m[i] = l[i]
    BY DEF InStep, Grown
  <2>7. QED
    BY <2>3, <2>4, <2>5, <2>6
<1> HIDE DEF n
<1>9. ASSUME NEW c \in CallIds
      PROVE  AwaitsCall(m, c, Scanned(m).pending[c], u)
  <2> DEFINE p == Scanned(m).pending[c]
             q == s.pending[c]
  <2>1. AwaitsCall(l, c, q, t)
    BY DEF Good, Awaits
  <2>2. Starts(m, c) = Starts(l, c)
    BY <1>8 DEF Starts
  <2>3. c \in Opened(m) <=> c \in Opened(l)
    BY <1>8 DEF Opened
  <2>4. Answers(m, c) = Answers(l, c) \cup (IF c = d THEN {n} ELSE {})
    <3>1. \A i \in InStep(l, "tool/result") : i \in Answers(m, c) <=> i \in Answers(l, c)
      BY <1>8 DEF Answers
    <3>2. n \in Answers(m, c) <=> c = d
      BY <1>1, <1>3, <1>8 DEF Answers
    <3>3. Answers(m, c) \subseteq InStep(l, "tool/result") \cup {n} /\ Answers(l, c) \subseteq InStep(l, "tool/result")
      BY <1>8 DEF Answers
    <3>4. n \notin InStep(l, "tool/result")
      BY <1>1, <1>8 DEF n
    <3>5. QED
      BY <3>1, <3>2, <3>3, <3>4
  <2>5. p = IF c = d THEN NoCalls[c] ELSE q
    BY <1>1, <1>2, <1>3 DEF Scan, PendingAfter
  <2> HIDE DEF p, q
  <2>7. CASE c = d
    <3>1. p = NoCalls[c] /\ p.step = 0
      BY <2>5, <2>7 DEF NoCalls
    <3>2. Answers(m, c) = {n} /\ c \in Opened(l)
      BY <1>3, <2>4, <2>7
    <3>3. QED
      BY <2>3, <3>1, <3>2 DEF AwaitsCall, p
  <2>9. CASE c # d
    <3>1. p = q /\ Answers(m, c) = Answers(l, c) /\ (c \in t.pendingCalls => c \in u.pendingCalls)
      BY <1>5, <2>4, <2>5, <2>9
    <3>2. QED
      BY <1>6, <2>1, <2>2, <2>3, <3>1 DEF AwaitsCall, p
  <2>10. QED
    BY <2>7, <2>9
<1>10. QED
  BY <1>6, <1>9 DEF Good, Awaits

(* An event that fits a good log leaves a good one. *)
LEMMA GoodAppend ==
  ASSUME NEW l \in Seq(EventSet), NEW e \in EventSet, Good(l), Fits(l, e)
  PROVE  Good(Append(l, e))
<1>1. Grown(l, e, Append(l, e))
  BY AppendGrows
<1>2. QED
  BY <1>1, GoodTurn, GoodStep, GoodMessage, GoodCall, GoodResult DEF Fits

(* The empty log is a good one. *)
LEMMA GoodEmpty == Good(<<>>)
<1>1. Trace(<<>>) = FreshTrace /\ Scanned(<<>>) = FreshScan
  BY TraceEmpty, ScannedEmpty
<1>2. Shaped(<<>>) /\ Counted(<<>>)
  BY DEF Shaped, Counted
<1>3. Numbered(<<>>) /\ Latest(<<>>) /\ Agrees(<<>>)
  BY <1>1 DEF Numbered, Latest, Agrees, FreshTrace, FreshScan
<1>4. Awaits(<<>>)
  <2>1. \A type \in Spoken : InStep(<<>>, type) = {}
    BY DEF InStep
  <2>2. \A c \in CallIds : Scanned(<<>>).pending[c] = NoCalls[c]
    BY <1>1 DEF FreshScan
  <2>3. QED
    BY <2>1, <2>2, AwaitsNothing
<1>5. QED
  BY <1>2, <1>3, <1>4 DEF Good

-----------------------------------------------------------------------------
(* Counting the members of a set below one of them orders it. *)
Below(S, c) == {d \in S : d < c}

(* Counting the members below one of them is strictly monotonic. *)
LEMMA BelowCounts ==
  ASSUME NEW S \in SUBSET Nat, IsFiniteSet(S)
  PROVE  /\ Cardinality(S) \in Nat
         /\ \A c \in S : Cardinality(Below(S, c)) \in 0..Cardinality(S) - 1
         /\ \A c, d \in S : c < d => Cardinality(Below(S, c)) < Cardinality(Below(S, d))
<1>1. Cardinality(S) \in Nat
  BY FS_CardinalityType
<1>2. ASSUME NEW c \in S, NEW T \in SUBSET S, Below(S, c) \cup {c} \subseteq T
      PROVE  /\ Cardinality(Below(S, c)) \in Nat /\ Cardinality(T) \in Nat
             /\ Cardinality(Below(S, c)) < Cardinality(T)
  <2>1. IsFiniteSet(T) /\ IsFiniteSet(Below(S, c))
    BY FS_Subset DEF Below
  <2>2. Cardinality(Below(S, c)) \in Nat /\ Cardinality(T) \in Nat
    BY <2>1, FS_CardinalityType
  <2>3. c \notin Below(S, c)
    BY DEF Below
  <2>4. Cardinality(Below(S, c) \cup {c}) = Cardinality(Below(S, c)) + 1
    BY <2>1, <2>3, FS_AddElement
  <2>5. Cardinality(Below(S, c) \cup {c}) <= Cardinality(T)
    BY <1>2, <2>1, FS_Subset
  <2>6. QED
    BY <2>2, <2>4, <2>5
<1>3. ASSUME NEW c \in S
      PROVE  Cardinality(Below(S, c)) \in 0..Cardinality(S) - 1
  <2>1. Below(S, c) \cup {c} \subseteq S
    BY DEF Below
  <2>2. QED
    BY <1>1, <1>2, <2>1
<1>4. ASSUME NEW c \in S, NEW d \in S, c < d
      PROVE  Cardinality(Below(S, c)) < Cardinality(Below(S, d))
  <2>1. \A x \in Below(S, c) : x \in S /\ x < d
    <3>1. ASSUME NEW x \in S, x < c
          PROVE  x < d
      <4>1. x \in Nat /\ c \in Nat /\ d \in Nat
        OBVIOUS
      <4>2. QED
        BY <1>4, <3>1, <4>1
    <3>2. QED
      BY <3>1 DEF Below
  <2>2. Below(S, c) \cup {c} \subseteq Below(S, d) /\ Below(S, d) \in SUBSET S
    BY <1>4, <2>1 DEF Below
  <2>3. QED
    BY <1>2, <2>2
<1>5. QED
  BY <1>1, <1>3, <1>4

(* Nth enumerates a finite set of numbers, each of them once. *)
LEMMA NthEnumerates ==
  ASSUME NEW S \in SUBSET Nat, IsFiniteSet(S)
  PROVE  /\ Cardinality(S) \in Nat
         /\ \A i \in 1..Cardinality(S) : Nth(S, i) \in S /\ Cardinality(Below(S, Nth(S, i))) = i - 1
         /\ \A c \in S : /\ Cardinality(Below(S, c)) + 1 \in 1..Cardinality(S)
                         /\ Nth(S, Cardinality(Below(S, c)) + 1) = c
<1> DEFINE n == Cardinality(S)
           f == [c \in S |-> Cardinality(Below(S, c)) + 1]
<1>1. n \in Nat /\ \A c \in S : Cardinality(Below(S, c)) \in 0..n - 1
  BY BelowCounts
<1>2. f \in [S -> 1..n]
  BY <1>1
<1>3. ASSUME NEW c \in S, NEW d \in S, Cardinality(Below(S, c)) = Cardinality(Below(S, d))
      PROVE  c = d
  <2>1. c \in Nat /\ d \in Nat
    OBVIOUS
  <2>2. ~(c < d) /\ ~(d < c)
    BY <1>1, <1>3, BelowCounts
  <2>3. QED
    BY <2>1, <2>2
<1>4. f \in Injection(S, 1..n)
  <2>1. ASSUME NEW c \in S, NEW d \in S, f[c] = f[d]
        PROVE  c = d
    <3>1. Cardinality(Below(S, c)) + 1 = Cardinality(Below(S, d)) + 1
      BY <2>1
    <3>2. Cardinality(Below(S, c)) = Cardinality(Below(S, d))
      BY <1>1, <3>1
    <3>3. QED
      BY <1>3, <3>2
  <2> HIDE DEF f
  <2>2. QED
    BY <1>2, <2>1 DEF Injection, IsInjective
<1>5. IsFiniteSet(1..n) /\ Cardinality(1..n) = n
  BY <1>1, FS_Interval
<1> HIDE DEF f
<1>6. f \in Surjection(S, 1..n)
  BY <1>4, <1>5, FS_Injection
<1>7. ASSUME NEW i \in 1..n
      PROVE  \E c \in S : Cardinality(Below(S, c)) = i - 1
  <2>1. PICK c \in S : f[c] = i
    BY <1>6 DEF Surjection
  <2>2. Cardinality(Below(S, c)) + 1 = i
    BY <2>1 DEF f
  <2>3. QED
    BY <1>1, <2>2
<1>8. ASSUME NEW i \in 1..n
      PROVE  Nth(S, i) \in S /\ Cardinality(Below(S, Nth(S, i))) = i - 1
  BY <1>7 DEF Nth, Below
<1>9. ASSUME NEW c \in S
      PROVE  /\ Cardinality(Below(S, c)) + 1 \in 1..n
             /\ Nth(S, Cardinality(Below(S, c)) + 1) = c
  <2>1. Cardinality(Below(S, c)) + 1 \in 1..n /\ Cardinality(Below(S, c)) + 1 - 1 = Cardinality(Below(S, c))
    BY <1>1
  <2>2. PICK i \in 1..n : i = Cardinality(Below(S, c)) + 1
    BY <2>1
  <2>3. i - 1 = Cardinality(Below(S, c))
    <3>1. Cardinality(Below(S, c)) \in 0..n - 1
      BY <1>1
    <3> HIDE DEF n
    <3>2. QED
      BY <1>1, <2>2, <3>1
  <2>4. Nth(S, i) \in S /\ Cardinality(Below(S, Nth(S, i))) = Cardinality(Below(S, c))
    BY <1>8, <2>3
  <2>5. Nth(S, i) = c
    BY <1>3, <2>4
  <2>6. QED
    BY <2>2, <2>5
<1>10. QED
  BY <1>1, <1>8, <1>9

(* Without its first member, a set is enumerated from its second on. *)
LEMMA NthRest ==
  ASSUME NEW S \in SUBSET Nat, IsFiniteSet(S), S # {}
  PROVE  LET R == S \ {Nth(S, 1)}
         IN  /\ Nth(S, 1) \in S /\ IsFiniteSet(R) /\ Cardinality(R) = Cardinality(S) - 1
             /\ \A i \in 1..Cardinality(R) : Nth(R, i) = Nth(S, i + 1)
<1> DEFINE m == Nth(S, 1)
           R == S \ {m}
           n == Cardinality(S)
<1>1. n \in Nat /\ n # 0
  BY FS_EmptySet, FS_CardinalityType
<1>2. m \in S /\ Cardinality(Below(S, m)) = 0
  <2>1. 1 \in 1..n
    BY <1>1
  <2>2. QED
    BY <2>1, NthEnumerates
<1>3. IsFiniteSet(R) /\ Cardinality(R) = n - 1
  BY <1>2, FS_RemoveElement
<1>4. Below(S, m) = {}
  <2>1. IsFiniteSet(Below(S, m))
    BY FS_Subset DEF Below
  <2>2. QED
    BY <1>2, <2>1, FS_EmptySet
<1>5. ASSUME NEW i \in 1..n - 1
      PROVE  Nth(R, i) = Nth(S, i + 1)
  <2> DEFINE c == Nth(S, i + 1)
  <2>1. i + 1 \in 1..n /\ i + 1 - 1 = i /\ i # 0
    BY <1>1
  <2>2. c \in S /\ Cardinality(Below(S, c)) = i
    BY <2>1, NthEnumerates
  <2>3. c # m
    BY <1>2, <2>1, <2>2
  <2> HIDE DEF c, m
  <2>4. c \in Nat /\ m \in Nat /\ ~(c < m)
    BY <1>2, <1>4, <2>2 DEF Below
  <2>5. m < c
    BY <2>3, <2>4
  <2>6. Below(R, c) = Below(S, c) \ {m} /\ m \in Below(S, c)
    BY <1>2, <2>5 DEF Below
  <2>7. IsFiniteSet(Below(S, c))
    BY FS_Subset DEF Below
  <2>8. Cardinality(Below(R, c)) = i - 1
    <3>1. Cardinality(Below(S, c) \ {m}) = Cardinality(Below(S, c)) - 1
      BY <2>6, <2>7, FS_RemoveElement
    <3>2. QED
      BY <2>2, <2>6, <3>1
  <2>9. c \in R
    BY <2>2, <2>3
  <2>10. i - 1 + 1 = i
    OBVIOUS
  <2>11. Nth(R, i) = c
    <3>1. R \in SUBSET Nat
      OBVIOUS
    <3> HIDE DEF R
    <3>2. Nth(R, Cardinality(Below(R, c)) + 1) = c
      BY <1>3, <2>9, <3>1, NthEnumerates
    <3>3. QED
      BY <2>8, <2>10, <3>2
  <2>12. QED
    BY <2>11 DEF c
<1>6. QED
  BY <1>2, <1>3, <1>5

-----------------------------------------------------------------------------
(* The closers that a scan leads to. *)
Rest(s) ==
  IF s.openTurn = 0 THEN <<>>
  ELSE PendingResults(s) \o StepCloser(s) \o <<Event("turn/end", s.openTurn, 0)>>
Results(s) == Cardinality(Pending(s))

EventTypes ==
  {"turn/start", "turn/end", "step/start", "step/end", "assistant/message", "tool/call", "tool/result"}
ResultCodes == {"none", "ok", "unknown", "not-started"}

(* The fields of a boundary event. *)
LEMMA Events ==
  ASSUME NEW turn \in Nat, NEW step \in Nat, NEW type \in EventTypes
  PROVE  LET e == Event(type, turn, step)
         IN  e \in EventSet /\ e.type = type /\ e.turn = turn /\ e.step = step
BY DEF Event, EventSet, EventTypes

(* The fields of the events that end a step and a turn. *)
LEMMA EndEvents ==
  ASSUME NEW turn \in Nat, NEW step \in Nat
  PROVE  /\ Event("step/end", turn, step).type = "step/end"
         /\ Event("step/end", turn, step).turn = turn /\ Event("step/end", turn, step).step = step
         /\ Event("step/end", turn, step) \in EventSet
         /\ Event("turn/end", turn, step).type = "turn/end"
         /\ Event("turn/end", turn, step).turn = turn /\ Event("turn/end", turn, step) \in EventSet
<1>1. "step/end" \in EventTypes /\ "turn/end" \in EventTypes
  BY DEF EventTypes
<1>2. QED
  BY <1>1, Events

(* The fields of an event that names calls. *)
LEMMA CallsEvents ==
  ASSUME NEW turn \in Nat, NEW step \in Nat, NEW type \in EventTypes, NEW calls \in SUBSET CallIds
  PROVE  LET e == CallsEvent(type, turn, step, calls)
         IN  /\ e \in EventSet /\ e.type = type /\ e.turn = turn /\ e.step = step
             /\ e.calls = calls
<1>1. CallsEvent(type, turn, step, calls) =
        [type |-> type, turn |-> turn, step |-> step, calls |-> calls, source |-> 0, code |-> "none"]
  BY DEF Event, CallsEvent
<1>2. QED
  BY <1>1 DEF EventSet, EventTypes

(* The fields of a tool result. *)
LEMMA ResultEvents ==
  ASSUME NEW turn \in Nat, NEW step \in Nat, NEW c \in CallIds, NEW seq \in Nat,
         NEW code \in ResultCodes
  PROVE  LET e == ResultEvent(turn, step, c, seq, code)
         IN  /\ e \in EventSet /\ e.type = "tool/result" /\ e.turn = turn /\ e.step = step
             /\ e.calls = {c} /\ e.source = seq /\ e.code = code
<1> DEFINE w == CallsEvent("tool/result", turn, step, {c})
           e == [w EXCEPT !.source = seq, !.code = code]
<1>1. w \in EventSet /\ w.type = "tool/result" /\ w.turn = turn /\ w.step = step /\ w.calls = {c}
  BY CallsEvents DEF EventTypes
<1> HIDE DEF w
<1>2. /\ e.type = "tool/result" /\ e.turn = turn /\ e.step = step
      /\ e.calls = {c} /\ e.source = seq /\ e.code = code
  BY <1>1 DEF EventSet
<1>3. e \in EventSet
  BY <1>1 DEF EventSet, ResultCodes
<1>4. ResultEvent(turn, step, c, seq, code) = e
  BY DEF ResultEvent, w
<1> HIDE DEF e
<1>5. QED
  BY <1>2, <1>3, <1>4

(* The calls pending are finitely many numbers. *)
LEMMA PendingFinite ==
  ASSUME NEW s \in ScanType
  PROVE  /\ Pending(s) \in SUBSET Nat /\ Pending(s) \subseteq CallIds
         /\ IsFiniteSet(Pending(s)) /\ Results(s) \in Nat
<1>1. CallIds \in SUBSET Nat /\ IsFiniteSet(CallIds)
  BY RecoveryBounds, FS_Interval DEF CallIds
<1>2. Pending(s) \in SUBSET CallIds
  BY DEF Pending
<1>3. IsFiniteSet(Pending(s))
  BY <1>1, <1>2, FS_Subset
<1>4. QED
  BY <1>1, <1>2, <1>3, FS_CardinalityType DEF Results

(* The fields of a synthetic result: it answers its call, and cites the    *)
(* start of one that started.                                              *)
LEMMA ResultForCall ==
  ASSUME NEW s \in ScanType, NEW c \in CallIds
  PROVE  LET e == ResultFor(s, c)
             p == s.pending[c]
         IN  /\ e \in EventSet /\ e.type = "tool/result"
             /\ e.turn = s.openTurn /\ e.step = p.step
             /\ e.calls = {c} /\ e.source = p.seq
             /\ e.code = IF p.seq # 0 THEN "unknown" ELSE "not-started"
<1> DEFINE turn == s.openTurn
           step == s.pending[c].step
           seq == s.pending[c].seq
           code == IF seq # 0 THEN "unknown" ELSE "not-started"
<1>1. turn \in Nat /\ step \in Nat /\ seq \in Nat
  BY DEF ScanType, PendingType
<1>2. code \in ResultCodes
  BY DEF ResultCodes
<1>3. ResultFor(s, c) = ResultEvent(turn, step, c, seq, code)
  BY DEF ResultFor
<1> HIDE DEF turn, step, seq, code
<1>4. LET e == ResultEvent(turn, step, c, seq, code)
      IN  /\ e \in EventSet /\ e.type = "tool/result" /\ e.turn = turn /\ e.step = step
          /\ e.calls = {c} /\ e.source = seq /\ e.code = code
  BY <1>1, <1>2, ResultEvents
<1>5. LET e == ResultFor(s, c)
      IN  /\ e \in EventSet /\ e.type = "tool/result" /\ e.turn = turn /\ e.step = step
          /\ e.calls = {c} /\ e.source = seq /\ e.code = code
  BY <1>3, <1>4
<1>6. QED
  BY <1>5 DEF turn, step, seq, code

(* The closers in order: a result for each call pending, the end of the    *)
(* open step, the end of the turn.                                         *)
LEMMA RestShape ==
  ASSUME NEW s \in ScanType
  PROVE  /\ Rest(s) \in Seq(EventSet)
         /\ s.openTurn = 0 => Rest(s) = <<>>
         /\ s.openTurn # 0 =>
              /\ Len(Rest(s)) = Results(s) + (IF s.openStep = 0 THEN 1 ELSE 2)
              /\ \A i \in 1..Results(s) : Rest(s)[i] = ResultFor(s, Nth(Pending(s), i))
              /\ s.openStep # 0 => Rest(s)[Results(s) + 1] = Event("step/end", s.openTurn, s.openStep)
              /\ Rest(s)[Len(Rest(s))] = Event("turn/end", s.openTurn, 0)
<1> DEFINE n == Results(s)
           r == PendingResults(s)
           a == StepCloser(s)
           z == Event("turn/end", s.openTurn, 0)
           x == Event("step/end", s.openTurn, s.openStep)
<1>1. n \in Nat /\ s.openTurn \in Nat /\ s.openStep \in Nat
  BY PendingFinite DEF ScanType
<1>2. z \in EventSet /\ x \in EventSet
  BY <1>1, EndEvents
<1>3. /\ r \in Seq(EventSet) /\ Len(r) = n
      /\ \A i \in 1..n : r[i] = ResultFor(s, Nth(Pending(s), i))
  <2>1. r = [i \in 1..n |-> ResultFor(s, Nth(Pending(s), i))]
    BY DEF PendingResults, Results
  <2>2. \A i \in 1..n : Nth(Pending(s), i) \in CallIds
    BY PendingFinite, NthEnumerates DEF Results
  <2>3. \A i \in 1..n : ResultFor(s, Nth(Pending(s), i)) \in EventSet
    BY <2>2, ResultForCall
  <2> HIDE DEF n, r
  <2>4. QED
    BY <1>1, <2>1, <2>3
<1>4. /\ a \in Seq(EventSet) /\ Len(a) = IF s.openStep = 0 THEN 0 ELSE 1
      /\ s.openStep # 0 => a[1] = x
  <2>1. a = IF s.openStep = 0 THEN <<>> ELSE <<x>>
    BY DEF StepCloser
  <2> HIDE DEF x, a
  <2>2. QED
    BY <1>2, <2>1
<1> HIDE DEF n, r, a, z, x
<1>5. CASE s.openTurn = 0
  BY <1>5 DEF Rest
<1>6. CASE s.openTurn # 0
  <2>1. Rest(s) = r \o a \o <<z>>
    BY <1>6 DEF Rest, r, a, z
  <2>2. r \o a \in Seq(EventSet) /\ Len(r \o a) = n + Len(a)
    BY <1>3, <1>4, ConcatProperties
  <2>3. /\ \A i \in 1..n : (r \o a)[i] = r[i]
        /\ s.openStep # 0 => (r \o a)[n + 1] = x
    <3>1. ASSUME NEW i \in 1..n
          PROVE  (r \o a)[i] = r[i]
      BY <1>3, <1>4
    <3>2. ASSUME s.openStep # 0
          PROVE  (r \o a)[n + 1] = x
      <4>1. Len(a) = 1 /\ a[1] = x
        BY <1>4, <3>2
      <4>2. (r \o a)[n + 1] = a[1]
        <5>1. /\ n + 1 \in 1..Len(r) + Len(a) /\ ~(n + 1 <= Len(r)) /\ n + 1 - Len(r) = 1
          BY <1>1, <1>3, <4>1
        <5>2. (r \o a)[n + 1] = a[n + 1 - Len(r)]
          BY <1>3, <1>4, <5>1, ConcatProperties
        <5>3. QED
          BY <5>1, <5>2
      <4>3. QED
        BY <4>1, <4>2
    <3>3. QED
      BY <3>1, <3>2
  <2> DEFINE b == r \o a
  <2> HIDE DEF b
  <2>4. b \in Seq(EventSet) /\ Len(b) = n + Len(a)
    BY <2>2 DEF b
  <2>5. /\ \A i \in 1..n : b[i] = r[i]
        /\ s.openStep # 0 => b[n + 1] = x
    BY <2>3 DEF b
  <2>6. Rest(s) = b \o <<z>>
    BY <2>1 DEF b
  <2>7. Rest(s) = Append(b, z)
    BY <1>2, <2>4, <2>6, AppendIsConcat
  <2>8. Rest(s) \in Seq(EventSet) /\ Len(Rest(s)) = n + Len(a) + 1
    BY <1>2, <2>4, <2>7, AppendProperties
  <2>9. /\ \A i \in 1..n + Len(a) : Rest(s)[i] = b[i]
        /\ Rest(s)[n + Len(a) + 1] = z
    BY <1>2, <2>4, <2>7, AppendProperties
  <2>10. \A i \in 1..n : Rest(s)[i] = r[i]
    <3>1. \A i \in 1..n : i \in 1..n + Len(a)
      BY <1>1, <1>4
    <3>2. QED
      BY <2>5, <2>9, <3>1
  <2>11. s.openStep # 0 => Rest(s)[n + 1] = x
    <3>1. s.openStep # 0 => n + 1 \in 1..n + Len(a)
      BY <1>1, <1>4
    <3>2. QED
      BY <2>5, <2>9, <3>1
  <2>12. Len(Rest(s)) = n + (IF s.openStep = 0 THEN 1 ELSE 2)
    BY <1>1, <1>4, <2>8
  <2>13. Rest(s)[Len(Rest(s))] = z
    BY <2>8, <2>9
  <2>14. QED
    BY <1>3, <1>6, <2>8, <2>10, <2>11, <2>12, <2>13 DEF n, z, x
<1>7. QED
  BY <1>5, <1>6

(* The first closer accounts for itself: what it leaves to close is what   *)
(* was to follow it.                                                       *)
LEMMA RestShrinks ==
  ASSUME NEW s \in ScanType, s.openTurn # 0, s.openStep = 0 => Pending(s) = {}
  PROVE  LET e == Rest(s)[1]
             u == Scan(s, e)
         IN  /\ Len(Rest(s)) \in Nat \ {0} /\ e \in EventSet /\ u \in ScanType
             /\ Len(Rest(u)) = Len(Rest(s)) - 1
             /\ \A i \in 1..Len(Rest(u)) : Rest(u)[i] = Rest(s)[i + 1]
<1> DEFINE e == Rest(s)[1]
           u == Scan(s, e)
           P == Pending(s)
           n == Results(s)
<1>1. n \in Nat /\ P \in SUBSET Nat /\ P \subseteq CallIds /\ IsFiniteSet(P) /\ n = Cardinality(P)
  BY PendingFinite DEF Results
<1>2. /\ Rest(s) \in Seq(EventSet)
      /\ Len(Rest(s)) = n + (IF s.openStep = 0 THEN 1 ELSE 2)
      /\ \A i \in 1..n : Rest(s)[i] = ResultFor(s, Nth(P, i))
      /\ s.openStep # 0 => Rest(s)[n + 1] = Event("step/end", s.openTurn, s.openStep)
      /\ Rest(s)[Len(Rest(s))] = Event("turn/end", s.openTurn, 0)
  BY RestShape
<1>3. Len(Rest(s)) \in Nat \ {0}
  BY <1>1, <1>2
<1>4. e \in EventSet
  BY <1>2, <1>3
<1>5. u \in ScanType
  BY <1>4, ScanTyped
<1>6. s.openTurn \in Nat /\ s.openStep \in Nat
  BY DEF ScanType
<1>7. P = {} <=> n = 0
  BY <1>1, FS_EmptySet
<1> HIDE DEF e, u, P, n
<1>8. CASE n # 0
  <2> DEFINE c0 == Nth(P, 1)
             R == P \ {c0}
  <2>1. s.openStep # 0 /\ Len(Rest(s)) = n + 2
    BY <1>2, <1>7, <1>8 DEF P
  <2>2. /\ c0 \in P /\ IsFiniteSet(R) /\ Cardinality(R) = n - 1
        /\ \A i \in 1..Cardinality(R) : Nth(R, i) = Nth(P, i + 1)
    BY <1>1, <1>7, <1>8, NthRest
  <2> HIDE DEF c0, R
  <2>3. c0 \in CallIds
    BY <1>1, <2>2
  <2>4. e = ResultFor(s, c0)
    <3>1. 1 \in 1..n
      BY <1>1, <1>8
    <3>2. QED
      BY <1>2, <3>1 DEF e, c0
  <2>5. e.type = "tool/result" /\ e.calls = {c0}
    BY <2>3, <2>4, ResultForCall
  <2>6. /\ u.openTurn = s.openTurn /\ u.openStep = s.openStep
        /\ \A c \in CallIds : u.pending[c] = IF c = c0 THEN NoCalls[c] ELSE s.pending[c]
    <3>1. u.openTurn = s.openTurn /\ u.openStep = s.openStep
      BY <2>5 DEF u, Scan
    <3>2. u.pending = PendingAfter(s, e)
      BY DEF u, Scan
    <3>3. PendingAfter(s, e) = [c \in CallIds |-> IF c \in e.calls THEN NoCalls[c] ELSE s.pending[c]]
      BY <2>5 DEF PendingAfter
    <3>4. QED
      BY <2>5, <3>1, <3>2, <3>3
  <2>7. Pending(u) = R
    <3>1. \A c \in CallIds : u.pending[c].step # 0 <=> c # c0 /\ s.pending[c].step # 0
      BY <2>6 DEF NoCalls
    <3>2. QED
      BY <3>1 DEF Pending, R, P
  <2>8. Results(u) = n - 1 /\ Len(Rest(u)) = n - 1 + 2 /\ Len(Rest(u)) \in Nat
    <3>1. Results(u) = n - 1
      BY <2>2, <2>7 DEF Results
    <3>2. Len(Rest(u)) = Results(u) + 2
      BY <1>5, <2>1, <2>6, RestShape
    <3>3. QED
      BY <1>1, <1>8, <3>1, <3>2
  <2>9. ASSUME NEW i \in 1..Len(Rest(u))
        PROVE  Rest(u)[i] = Rest(s)[i + 1]
    <3>1. CASE i <= n - 1
      <4>1. i \in 1..Results(u) /\ i \in 1..Cardinality(R) /\ i + 1 \in 1..n
        BY <1>1, <2>2, <2>8, <3>1
      <4>2. Rest(u)[i] = ResultFor(u, Nth(R, i))
        BY <1>5, <2>1, <2>6, <2>7, <4>1, RestShape
      <4>3. Rest(s)[i + 1] = ResultFor(s, Nth(R, i))
        BY <1>2, <2>2, <4>1
      <4>4. R \in SUBSET Nat /\ R \subseteq CallIds
        BY <1>1 DEF R
      <4>5. Nth(R, i) \in R
        BY <2>2, <4>1, <4>4, NthEnumerates
      <4>6. Nth(R, i) \in CallIds /\ Nth(R, i) # c0
        BY <4>4, <4>5 DEF R
      <4>7. u.pending[Nth(R, i)] = s.pending[Nth(R, i)]
        BY <2>6, <4>6
      <4>8. ResultFor(u, Nth(R, i)) = ResultFor(s, Nth(R, i))
        BY <2>6, <4>7 DEF ResultFor
      <4>9. QED
        BY <4>2, <4>3, <4>8
    <3>2. CASE i = n
      <4>1. Rest(u)[i] = Event("step/end", s.openTurn, s.openStep)
        <5>1. i = Results(u) + 1
          BY <1>1, <2>8, <3>2
        <5>2. QED
          BY <1>5, <2>1, <2>6, <5>1, RestShape
      <4>2. QED
        BY <1>2, <2>1, <3>2, <4>1
    <3>3. CASE i = n + 1
      <4>1. i = Len(Rest(u)) /\ i + 1 = Len(Rest(s))
        BY <1>1, <2>1, <2>8, <3>3
      <4>2. Rest(u)[i] = Event("turn/end", s.openTurn, 0)
        BY <1>5, <2>6, <4>1, RestShape
      <4>3. QED
        BY <1>2, <4>1, <4>2
    <3>4. i <= n - 1 \/ i = n \/ i = n + 1
      BY <1>1, <2>8
    <3>5. QED
      BY <3>1, <3>2, <3>3, <3>4
  <2>10. Len(Rest(u)) = Len(Rest(s)) - 1
    BY <1>1, <2>1, <2>8
  <2>11. QED
    BY <1>3, <1>4, <1>5, <2>9, <2>10 DEF e, u
<1>9. CASE n = 0 /\ s.openStep # 0
  <2>1. e = Event("step/end", s.openTurn, s.openStep) /\ Len(Rest(s)) = 2
    BY <1>2, <1>9 DEF e
  <2>2. e.type = "step/end"
    BY <1>6, <2>1, EndEvents
  <2>3. u.openTurn = s.openTurn /\ u.openStep = 0 /\ u.pending = NoCalls
    BY <2>2 DEF u, Scan, PendingAfter
  <2>4. Results(u) = 0
    <3>1. Pending(u) = {}
      BY <2>3 DEF Pending, NoCalls
    <3>2. QED
      BY <3>1, FS_EmptySet DEF Results
  <2>5. Len(Rest(u)) = 1 /\ Rest(u)[1] = Event("turn/end", s.openTurn, 0)
    <3>1. Len(Rest(u)) = 1
      <4>1. Len(Rest(u)) = Results(u) + 1
        BY <1>5, <1>9, <2>3, RestShape
      <4>2. QED
        BY <2>4, <4>1
    <3>2. Rest(u)[Len(Rest(u))] = Event("turn/end", u.openTurn, 0)
      BY <1>5, <2>3, RestShape
    <3>3. QED
      BY <2>3, <3>1, <3>2
  <2>6. \A i \in 1..Len(Rest(u)) : Rest(u)[i] = Rest(s)[i + 1]
    <3>1. Rest(u)[1] = Rest(s)[2]
      BY <1>2, <2>1, <2>5
    <3>2. \A i \in 1..1 : i = 1 /\ i + 1 = 2
      OBVIOUS
    <3>3. QED
      BY <2>5, <3>1, <3>2
  <2>7. QED
    BY <1>3, <1>4, <1>5, <2>1, <2>5, <2>6 DEF e, u
<1>10. CASE s.openStep = 0
  <2>1. n = 0
    BY <1>7, <1>10 DEF P
  <2>2. Len(Rest(s)) = 1 /\ e = Event("turn/end", s.openTurn, 0)
    <3>1. Len(Rest(s)) = 1
      BY <1>2, <1>10, <2>1
    <3>2. QED
      BY <1>2, <3>1 DEF e
  <2>3. e.type = "turn/end"
    BY <1>6, <2>2, EndEvents
  <2>4. u.openTurn = 0
    BY <2>3 DEF u, Scan
  <2>5. Rest(u) = <<>>
    BY <1>5, <2>4, RestShape
  <2>6. QED
    BY <1>3, <1>4, <1>5, <2>2, <2>5 DEF e, u
<1>11. QED
  BY <1>8, <1>9, <1>10

(* The first closer fits the log. *)
LEMMA FirstFits ==
  ASSUME NEW l \in Seq(EventSet), Good(l), Scanned(l).openTurn # 0
  PROVE  /\ Scanned(l) \in ScanType
         /\ Scanned(l).openStep = 0 => Pending(Scanned(l)) = {}
         /\ Fits(l, Rest(Scanned(l))[1])
<1> DEFINE s == Scanned(l)
           t == Trace(l)
           e == Rest(s)[1]
           P == Pending(s)
           n == Results(s)
<1>1. s \in ScanType /\ t \in TraceType
  BY FoldsTyped
<1>2. s.openTurn = t.openTurn /\ s.openStep = t.openStep /\ s.openTurn \in Nat /\ s.openStep \in Nat
  BY <1>1 DEF Good, Agrees, ScanType
<1>3. \A c \in CallIds : AwaitsCall(l, c, s.pending[c], t)
  BY DEF Good, Awaits
<1>4. s.openStep = 0 => P = {}
  BY <1>2, <1>3 DEF AwaitsCall, Pending
<1>5. n \in Nat /\ P \in SUBSET Nat /\ P \subseteq CallIds /\ IsFiniteSet(P) /\ n = Cardinality(P)
  BY <1>1, PendingFinite DEF Results
<1>6. /\ Len(Rest(s)) = n + (IF s.openStep = 0 THEN 1 ELSE 2)
      /\ \A i \in 1..n : Rest(s)[i] = ResultFor(s, Nth(P, i))
      /\ s.openStep # 0 => Rest(s)[n + 1] = Event("step/end", s.openTurn, s.openStep)
      /\ Rest(s)[Len(Rest(s))] = Event("turn/end", s.openTurn, 0)
  BY <1>1, RestShape
<1>7. P = {} <=> n = 0
  BY <1>5, FS_EmptySet
<1> HIDE DEF P, n
<1>8. CASE n # 0
  <2>1. 1 \in 1..n
    BY <1>5, <1>8
  <2>2. PICK c \in P : c = Nth(P, 1)
    BY <1>5, <2>1, NthEnumerates
  <2>3. c \in CallIds /\ s.pending[c].step # 0
    BY <2>2 DEF P, Pending
  <2>4. e = ResultFor(s, c)
    BY <1>6, <2>1, <2>2
  <2>5. /\ e.type = "tool/result" /\ e.turn = s.openTurn /\ e.step = s.pending[c].step
        /\ e.calls = {c} /\ e.code = IF s.pending[c].seq # 0 THEN "unknown" ELSE "not-started"
    BY <1>1, <2>3, <2>4, ResultForCall
  <2>6. AwaitsCall(l, c, s.pending[c], t)
    BY <1>3, <2>3
  <2>7. t.openStep # 0 /\ e.step = t.openStep /\ c \in Opened(l) /\ Answers(l, c) = {}
    BY <2>3, <2>5, <2>6 DEF AwaitsCall
  <2>8. c \in t.pendingCalls \/ e.code = "not-started"
    <3>1. CASE s.pending[c].seq = 0
      BY <2>5, <3>1
    <3>2. CASE s.pending[c].seq # 0
      BY <2>3, <2>6, <2>7, <3>2 DEF AwaitsCall
    <3>3. QED
      BY <3>1, <3>2
  <2> HIDE DEF e
  <2>9. FitsResult(l, t, e)
    BY <1>2, <2>5, <2>7, <2>8 DEF FitsResult, InOpenStep
  <2>10. QED
    BY <1>1, <1>4, <2>9 DEF Fits, e, P
<1>9. CASE n = 0 /\ s.openStep # 0
  <2>1. e = Event("step/end", s.openTurn, s.openStep)
    BY <1>6, <1>9
  <2>2. e.type = "step/end" /\ e.turn = s.openTurn /\ e.step = s.openStep
    BY <1>2, <2>1, EndEvents
  <2> HIDE DEF e
  <2>3. FitsStep(t, e)
    BY <1>2, <1>9, <2>2 DEF FitsStep, InOpenStep
  <2>4. QED
    BY <1>1, <1>4, <2>3 DEF Fits, e, P
<1>10. CASE s.openStep = 0
  <2>1. n = 0
    BY <1>4, <1>7, <1>10
  <2>2. e = Event("turn/end", s.openTurn, 0)
    <3>1. Len(Rest(s)) = 1
      BY <1>6, <1>10, <2>1
    <3>2. QED
      BY <1>6, <3>1
  <2>3. e.type = "turn/end" /\ e.turn = s.openTurn
    BY <1>2, <2>2, EndEvents
  <2> HIDE DEF e
  <2>4. FitsTurn(t, e)
    BY <1>2, <1>10, <2>3 DEF FitsTurn
  <2>5. QED
    BY <1>1, <1>4, <2>4 DEF Fits, e, P
<1>11. QED
  BY <1>8, <1>9, <1>10

(* A longer prefix of a sequence appends one element more. *)
LEMMA OneMore ==
  ASSUME NEW S, NEW l \in Seq(S), NEW cl \in Seq(S), NEW k \in 1..Len(cl)
  PROVE  /\ l \o SubSeq(cl, 1, k) = Append(l \o SubSeq(cl, 1, k - 1), cl[k])
         /\ l \o SubSeq(cl, 1, k - 1) \in Seq(S) /\ cl[k] \in S
<1>1. k \in Nat /\ Len(cl) \in Nat /\ cl[k] \in S /\ 1 \in 1..Len(cl)
  OBVIOUS
<1>2. SubSeq(cl, 1, k) = SubSeq(cl, 1, k - 1) \o <<cl[k]>>
  BY <1>1, SubSeqRecursiveSecond
<1> DEFINE a == SubSeq(cl, 1, k - 1)
<1>3. a \in Seq(S)
  <2>1. \A i \in 1..k - 1 : cl[i] \in S
    BY <1>1
  <2>2. QED
    BY <1>1, <2>1, SubSeqProperties
<1> HIDE DEF a
<1>4. l \o (a \o <<cl[k]>>) = (l \o a) \o <<cl[k]>>
  BY <1>1, <1>3, ConcatAssociative
<1>5. l \o a \in Seq(S)
  BY <1>3, ConcatProperties
<1>6. (l \o a) \o <<cl[k]>> = Append(l \o a, cl[k])
  BY <1>1, <1>5
<1>7. QED
  BY <1>1, <1>2, <1>4, <1>5, <1>6 DEF a

(* Every prefix of the closers leaves a good log, and the rest to close. *)
LEMMA Closing ==
  ASSUME NEW l \in Seq(EventSet), Good(l)
  PROVE  /\ Closers(l) \in Seq(EventSet)
         /\ \A k \in 0..Len(Closers(l)) :
              LET m == l \o SubSeq(Closers(l), 1, k)
              IN  m \in Seq(EventSet) /\ Good(m)
                  /\ Closers(m) = SubSeq(Closers(l), k + 1, Len(Closers(l)))
<1>1. \A m : Closers(m) = Rest(Scanned(m))
  BY DEF Closers, Rest, Scanned
<1>2. ASSUME NEW m \in Seq(EventSet)
      PROVE  Scanned(m) \in ScanType
  BY FoldsTyped
<1> DEFINE cl == Closers(l)
           n == Len(cl)
           upTo(k) == l \o SubSeq(cl, 1, k)
           Closed(k) == /\ upTo(k) \in Seq(EventSet) /\ Good(upTo(k))
                        /\ Closers(upTo(k)) = SubSeq(cl, k + 1, n)
<1>3. cl \in Seq(EventSet) /\ n \in Nat
  <2>1. cl \in Seq(EventSet)
    BY <1>1, <1>2, RestShape
  <2>2. QED
    BY <2>1
<1> HIDE DEF cl
<1>4. Closed(0)
  <2>1. SubSeq(cl, 1, 0) = <<>> /\ l \o <<>> = l
    BY <1>3, SubSeqEmpty, ConcatEmptySeq
  <2>2. SubSeq(cl, 1, n) = cl
    BY <1>3, SubSeqFull
  <2>3. upTo(0) = l
    BY <2>1
  <2>4. 0 + 1 = 1
    OBVIOUS
  <2>5. QED
    BY <2>2, <2>3, <2>4 DEF cl
<1>5. ASSUME NEW k \in 1..n, Closed(k - 1)
      PROVE  Closed(k)
  <2> DEFINE m == upTo(k - 1)
             s == Scanned(m)
             e == cl[k]
  <2>1. k - 1 + 1 = k /\ k \in Nat /\ k \in 1..Len(cl)
    BY <1>3
  <2>2. m \in Seq(EventSet) /\ Good(m) /\ Closers(m) = SubSeq(cl, k, n)
    BY <1>5, <2>1
  <2>3. upTo(k) = Append(m, e) /\ e \in EventSet
    BY <1>3, <2>1, OneMore
  <2>4. /\ Len(SubSeq(cl, k, n)) = n - k + 1
        /\ \A i \in 1..n - k + 1 : SubSeq(cl, k, n)[i] = cl[k + i - 1]
    BY <1>3, <2>1
  <2> HIDE DEF upTo, e, n
  <2>5. s \in ScanType /\ Rest(s) = SubSeq(cl, k, n)
    BY <1>1, <1>2, <2>2
  <2>6. Len(Rest(s)) = n - k + 1 /\ n - k + 1 \in Nat \ {0}
    <3>1. n \in Nat /\ k \in Nat /\ k <= n
      BY <1>3, <2>1 DEF n
    <3>2. QED
      BY <2>4, <2>5, <3>1
  <2>7. Rest(s)[1] = e
    <3>1. 1 \in 1..n - k + 1 /\ k + 1 - 1 = k
      BY <2>1, <2>6
    <3>2. QED
      BY <2>4, <2>5, <3>1 DEF e
  <2>8. s.openTurn # 0
    <3>1. Rest(s) # <<>>
      BY <2>6
    <3>2. QED
      BY <2>5, <3>1, RestShape
  <2> HIDE DEF m
  <2>9. Fits(m, e) /\ (s.openStep = 0 => Pending(s) = {})
    BY <2>2, <2>7, <2>8, FirstFits
  <2> DEFINE w == Append(m, e)
             u == Scan(s, e)
  <2>10. w \in Seq(EventSet) /\ Good(w) /\ Scanned(w) = u
    BY <2>2, <2>3, <2>9, GoodAppend, ScannedAppend
  <2>11. /\ u \in ScanType /\ Len(Rest(u)) = n - k + 1 - 1
         /\ \A i \in 1..Len(Rest(u)) : Rest(u)[i] = Rest(s)[i + 1]
    <3>1. s \in ScanType
      BY <2>5
    <3> HIDE DEF s
    <3>2. /\ Scan(s, Rest(s)[1]) \in ScanType
          /\ Len(Rest(Scan(s, Rest(s)[1]))) = Len(Rest(s)) - 1
          /\ \A i \in 1..Len(Rest(Scan(s, Rest(s)[1]))) :
               Rest(Scan(s, Rest(s)[1]))[i] = Rest(s)[i + 1]
      BY <2>8, <2>9, <3>1, RestShrinks
    <3>3. u = Scan(s, Rest(s)[1])
      BY <2>7
    <3> HIDE DEF u
    <3>4. u \in ScanType /\ Len(Rest(u)) = Len(Rest(s)) - 1
      BY <3>2, <3>3
    <3>5. \A i \in 1..Len(Rest(u)) : Rest(u)[i] = Rest(s)[i + 1]
      BY <3>2, <3>3, Zenon
    <3>6. n \in Nat /\ k \in Nat
      BY <1>3, <2>1 DEF n
    <3>7. Len(Rest(u)) = n - k + 1 - 1
      BY <2>6, <3>4, <3>6
    <3>8. QED
      BY <3>4, <3>5, <3>7
  <2> HIDE DEF w, u
  <2>12. Rest(u) = SubSeq(cl, k + 1, n)
    <3>1. /\ SubSeq(cl, k + 1, n) \in Seq(EventSet) /\ Len(SubSeq(cl, k + 1, n)) = n - k
          /\ \A i \in 1..n - k : SubSeq(cl, k + 1, n)[i] = cl[k + i]
      BY <1>3, <2>1 DEF n
    <3>2. Len(Rest(u)) = n - k /\ Rest(u) \in Seq(EventSet)
      <4>1. n \in Nat
        BY <1>3 DEF n
      <4>2. QED
        BY <2>1, <2>11, <4>1, RestShape
    <3>3. ASSUME NEW i \in 1..Len(Rest(u))
          PROVE  Rest(u)[i] = SubSeq(cl, k + 1, n)[i]
      <4>1. i \in 1..n - k /\ i + 1 \in 1..n - k + 1 /\ k + (i + 1) - 1 = k + i
        BY <1>3, <2>1, <3>2 DEF n
      <4>2. Rest(s)[i + 1] = cl[k + (i + 1) - 1]
        BY <2>4, <2>5, <4>1
      <4>3. QED
        BY <2>11, <3>1, <4>1, <4>2
    <3>4. QED
      BY <3>1, <3>2, <3>3, SeqEqual
  <2>13. upTo(k) = w /\ Closers(w) = SubSeq(cl, k + 1, n)
    BY <1>1, <2>3, <2>10, <2>12 DEF w
  <2>14. QED
    BY <2>10, <2>13
<1> DEFINE Off == {k \in 0..n : ~Closed(k)}
<1>6. CASE Off = {}
  <2>1. \A k \in 0..n : Closed(k)
    BY <1>6
  <2> HIDE DEF Closed
  <2>2. QED
    BY <1>3, <2>1 DEF Closed, cl
<1>7. CASE Off # {}
  <2> HIDE DEF Closed, n
  <2>1. Off \in SUBSET Nat
    OBVIOUS
  <2>2. PICK k \in Off : \A j \in Off : k <= j
    BY <1>7, <2>1, Least
  <2>3. k \in 0..n /\ ~Closed(k)
    OBVIOUS
  <2>4. k \in 1..n /\ k - 1 \in 0..n
    BY <1>3, <1>4, <2>3
  <2>5. k - 1 \notin Off
    BY <2>2, <2>4
  <2>6. Closed(k - 1)
    BY <2>4, <2>5
  <2>7. QED
    BY <1>5, <2>3, <2>4, <2>6
<1>8. QED
  BY <1>6, <1>7

-----------------------------------------------------------------------------
(* The writer's view of the log, and the properties', are those of Good. *)
LEMMA Views ==
  ASSUME log \in Seq(EventSet), Good(log)
  PROVE  /\ \A type : InThisStep(type) = InStep(log, type)
         /\ CallsOf(InThisStep("assistant/message")) = Opened(log)
         /\ CallsOf(InThisStep("tool/call")) = {c \in CallIds : Starts(log, c) # {}}
         /\ CallsOf(InThisStep("tool/result")) = {c \in CallIds : Answers(log, c) # {}}
<1>1. \A type : InThisStep(type) = InStep(log, type)
  BY DEF InThisStep, InStep, Positions, Here
<1>2. \A i \in 1..Len(log) : log[i] \in EventSet /\ log[i].calls \subseteq CallIds
  <2>1. \A i \in 1..Len(log) : log[i] \in EventSet
    OBVIOUS
  <2>2. QED
    BY <2>1 DEF EventSet
<1>3. \A type : \A i \in InStep(log, type) : i \in 1..Len(log) /\ log[i].type = type
  BY DEF InStep
<1>4. CallsOf(InThisStep("assistant/message")) = Opened(log)
  BY <1>1, <1>2, <1>3 DEF CallsOf, Opened
<1>5. \A i \in 1..Len(log) : log[i].type \in {"tool/call", "tool/result"} =>
        \E c \in CallIds : log[i].calls = {c}
  BY DEF Good, Shaped
<1>6. CallsOf(InThisStep("tool/call")) = {c \in CallIds : Starts(log, c) # {}}
  <2>1. \A i \in InStep(log, "tool/call") : \E c \in CallIds : log[i].calls = {c}
    BY <1>3, <1>5
  <2>2. QED
    BY <1>1, <2>1 DEF CallsOf, Starts
<1>7. CallsOf(InThisStep("tool/result")) = {c \in CallIds : Answers(log, c) # {}}
  <2>1. \A i \in InStep(log, "tool/result") : \E c \in CallIds : log[i].calls = {c}
    BY <1>3, <1>5
  <2>2. QED
    BY <1>1, <2>1 DEF CallsOf, Answers
<1>8. QED
  BY <1>1, <1>4, <1>6, <1>7

(* The least of a set of numbers is in it. *)
LEMMA MinIs ==
  ASSUME NEW S \in SUBSET Nat, S # {}
  PROVE  Min(S) \in S
<1>1. \E m \in S : \A n \in S : m <= n
  BY Least
<1>2. QED
  BY <1>1 DEF Min

(* With no turn open, the next turn is the one after the last of the log. *)
LEMMA LastTurnIs ==
  ASSUME log \in Seq(EventSet), Good(log), Here.openTurn = 0
  PROVE  LastTurn + 1 = Here.nextTurn
<1> DEFINE n == Here.nextTurn
           S == {0} \cup {log[i].turn : i \in Positions("turn/start")}
<1>1. n \in Nat /\ n # 0
  <2>1. Trace(log) \in TraceType
    BY FoldsTyped
  <2>2. QED
    BY <2>1 DEF Here, TraceType, Good, Numbered
<1>2. \A i \in 1..Len(log) : log[i].turn \in Nat
  <2>1. \A i \in 1..Len(log) : log[i] \in EventSet
    OBVIOUS
  <2>2. QED
    BY <2>1 DEF EventSet
<1>3. \A i \in 1..Len(log) : log[i].turn <= n - 1
  <2>1. \A i \in 1..Len(log) : log[i].turn < n \/ log[i].turn = 0
    BY DEF Good, Counted, Here
  <2> HIDE DEF n
  <2>2. QED
    BY <1>1, <1>2, <2>1
<1>4. n - 1 \in S
  <2>1. CASE n = 1
    BY <2>1
  <2>2. CASE n # 1
    <3>1. Started(log, n - 1)
      BY <2>2 DEF Good, Latest, Here
    <3>2. PICK i \in 1..Len(log) : log[i].type = "turn/start" /\ log[i].turn = n - 1
      BY <3>1 DEF Started
    <3>3. QED
      BY <3>2 DEF Positions
  <2>3. QED
    BY <2>1, <2>2
<1>5. \A x \in S : x \in Nat /\ x <= n - 1
  BY <1>1, <1>2, <1>3 DEF Positions
<1> HIDE DEF n, S
<1>6. Max(S) \in S /\ \A y \in S : Max(S) >= y
  <2>1. \E x \in S : \A y \in S : x >= y
    BY <1>1, <1>4, <1>5
  <2>2. QED
    BY <2>1 DEF Max
<1>7. Max(S) = n - 1
  BY <1>1, <1>4, <1>5, <1>6
<1>8. LastTurn = Max(S)
  BY DEF LastTurn, S
<1>9. QED
  BY <1>1, <1>7, <1>8 DEF n

(* Whatever the writer writes fits the log. *)
LEMMA Driven ==
  ASSUME TypeOK, Good(log), Drive
  PROVE  \E e \in EventSet : Fits(log, e) /\ Write(e)
<1> DEFINE t == Trace(log)
<1>1. log \in Seq(EventSet)
  BY DEF TypeOK
<1>2. t \in TraceType /\ Here = t
  BY <1>1, FoldsTyped DEF Here
<1>3. t.openTurn \in Nat /\ t.openStep \in Nat /\ t.nextTurn \in Nat /\ t.nextStep \in Nat
  BY <1>2 DEF TraceType
<1>4. t.openTurn = 0 => t.openStep = 0
  BY DEF Good, Numbered
<1>5. CallIds \in SUBSET Nat
  BY RecoveryBounds DEF CallIds
<1>6. \A c \in CallIds : AwaitsCall(log, c, Scanned(log).pending[c], t)
  BY DEF Good, Awaits
<1>7. CASE TurnStart
  <2>1. t.openTurn = 0 /\ Write(Event("turn/start", LastTurn + 1, 0)) /\ LastTurn + 1 = t.nextTurn
    BY <1>1, <1>2, <1>7, LastTurnIs DEF TurnStart
  <2> DEFINE e == Event("turn/start", t.nextTurn, 0)
  <2>2. e \in EventSet /\ e.type = "turn/start" /\ e.turn = t.nextTurn /\ e.step = 0
    BY <1>3, Events DEF EventTypes
  <2>3. Write(e)
    BY <2>1
  <2> HIDE DEF e
  <2>4. FitsTurn(t, e)
    BY <2>1, <2>2 DEF FitsTurn
  <2>5. QED
    BY <2>2, <2>3, <2>4 DEF Fits
<1>8. CASE TurnEnd
  <2>1. t.openTurn # 0 /\ t.openStep = 0 /\ Write(Event("turn/end", t.openTurn, 0))
    BY <1>2, <1>8 DEF TurnEnd
  <2> DEFINE e == Event("turn/end", t.openTurn, 0)
  <2>2. e \in EventSet /\ e.type = "turn/end" /\ e.turn = t.openTurn
    BY <1>3, Events DEF EventTypes
  <2>3. Write(e)
    BY <2>1
  <2> HIDE DEF e
  <2>4. FitsTurn(t, e)
    BY <2>1, <2>2 DEF FitsTurn
  <2>5. QED
    BY <2>2, <2>3, <2>4 DEF Fits
<1>9. CASE StepStart
  <2>1. t.openTurn # 0 /\ t.openStep = 0 /\ Write(Event("step/start", t.openTurn, t.nextStep))
    BY <1>2, <1>9 DEF StepStart
  <2> DEFINE e == Event("step/start", t.openTurn, t.nextStep)
  <2>2. e \in EventSet /\ e.type = "step/start" /\ e.turn = t.openTurn /\ e.step = t.nextStep
    BY <1>3, Events DEF EventTypes
  <2>3. Write(e)
    BY <2>1
  <2> HIDE DEF e
  <2>4. FitsStep(t, e)
    BY <2>1, <2>2 DEF FitsStep
  <2>5. QED
    BY <2>2, <2>3, <2>4 DEF Fits
<1>10. CASE StepEnd
  <2>1. t.openStep # 0 /\ Write(Event("step/end", t.openTurn, t.openStep))
    BY <1>2, <1>10 DEF StepEnd
  <2> DEFINE e == Event("step/end", t.openTurn, t.openStep)
  <2>2. e \in EventSet /\ e.type = "step/end" /\ e.turn = t.openTurn /\ e.step = t.openStep
    BY <1>3, Events DEF EventTypes
  <2>3. Write(e)
    BY <2>1
  <2> HIDE DEF e
  <2>4. FitsStep(t, e)
    BY <1>4, <2>1, <2>2 DEF FitsStep, InOpenStep
  <2>5. QED
    BY <2>2, <2>3, <2>4 DEF Fits
<1>11. CASE AssistantMessage
  <2>1. PICK n \in 0..MaxCalls :
          Write(CallsEvent("assistant/message", t.openTurn, t.openStep, 1..n))
    BY <1>2, <1>11 DEF AssistantMessage
  <2> DEFINE e == CallsEvent("assistant/message", t.openTurn, t.openStep, 1..n)
  <2>2. 1..n \in SUBSET CallIds
    BY RecoveryBounds DEF CallIds
  <2>3. e \in EventSet /\ e.type = "assistant/message" /\ e.turn = t.openTurn /\ e.step = t.openStep
    BY <1>3, <2>2, CallsEvents DEF EventTypes
  <2>4. t.openStep # 0 /\ Opened(log) = {}
    <3>1. t.openStep # 0 /\ InThisStep("assistant/message") = {}
      BY <1>2, <1>11 DEF AssistantMessage
    <3>2. InStep(log, "assistant/message") = {}
      BY <1>1, <3>1, Views
    <3>3. QED
      BY <3>1, <3>2 DEF Opened
  <2> HIDE DEF e
  <2>5. FitsMessage(log, t, e)
    BY <2>3, <2>4 DEF FitsMessage, InOpenStep
  <2>6. QED
    BY <2>1, <2>3, <2>5 DEF Fits, e
<1>12. CASE ToolCall
  <2> DEFINE unstarted == CallsOf(InThisStep("assistant/message")) \ CallsOf(InThisStep("tool/call"))
             c == Min(unstarted)
             e == CallsEvent("tool/call", t.openTurn, t.openStep, {c})
  <2>1. t.openStep # 0 /\ unstarted # {} /\ Write(e)
    BY <1>2, <1>12 DEF ToolCall
  <2>2. unstarted \subseteq Opened(log)
    BY <1>1, Views
  <2>3. Opened(log) \subseteq CallIds
    BY DEF Opened
  <2> HIDE DEF unstarted
  <2>4. c \in unstarted
    BY <1>5, <2>1, <2>2, <2>3, MinIs
  <2>5. c \in CallIds /\ c \in Opened(log)
    BY <2>2, <2>3, <2>4
  <2> HIDE DEF c
  <2>6. /\ e \in EventSet /\ e.type = "tool/call" /\ e.turn = t.openTurn /\ e.step = t.openStep
        /\ e.calls = {c}
    BY <1>3, <2>5, CallsEvents DEF EventTypes
  <2> HIDE DEF e
  <2>7. FitsCall(log, t, e)
    BY <2>1, <2>5, <2>6 DEF FitsCall, InOpenStep
  <2>8. QED
    BY <2>1, <2>6, <2>7 DEF Fits
<1>13. CASE ToolResult
  <2> DEFINE open == CallsOf(InThisStep("tool/call")) \ CallsOf(InThisStep("tool/result"))
             c == Min(open)
             seq == CHOOSE i \in InThisStep("tool/call") : log[i].calls = {c}
             e == ResultEvent(t.openTurn, t.openStep, c, seq, "ok")
  <2>1. t.openStep # 0 /\ open # {} /\ Write(e)
    BY <1>2, <1>13 DEF ToolResult
  <2>2. open = {d \in CallIds : Starts(log, d) # {} /\ Answers(log, d) = {}}
    BY <1>1, Views
  <2> HIDE DEF open
  <2>3. c \in open
    BY <1>5, <2>1, <2>2, MinIs
  <2>4. c \in CallIds /\ Starts(log, c) # {} /\ Answers(log, c) = {}
    BY <2>2, <2>3
  <2> HIDE DEF c
  <2>5. c \in Opened(log) /\ c \in t.pendingCalls
    BY <1>6, <2>4 DEF AwaitsCall
  <2>6. seq \in Nat
    <3>1. InThisStep("tool/call") = InStep(log, "tool/call")
      BY <1>1, Views
    <3>2. \E i \in InThisStep("tool/call") : log[i].calls = {c}
      BY <2>4, <3>1 DEF Starts
    <3>3. seq \in InThisStep("tool/call")
      BY <3>2
    <3>4. QED
      BY <3>1, <3>3 DEF InStep
  <2> HIDE DEF seq
  <2>7. /\ e \in EventSet /\ e.type = "tool/result" /\ e.turn = t.openTurn /\ e.step = t.openStep
        /\ e.calls = {c}
    <3>1. "ok" \in ResultCodes
      BY DEF ResultCodes
    <3>2. ASSUME NEW turn \in Nat, NEW step \in Nat
          PROVE  LET r == ResultEvent(turn, step, c, seq, "ok")
                 IN  /\ r \in EventSet /\ r.type = "tool/result" /\ r.turn = turn /\ r.step = step
                     /\ r.calls = {c}
      BY <2>4, <2>6, <3>1, ResultEvents
    <3>3. QED
      BY <1>3, <3>2
  <2> HIDE DEF e
  <2>8. FitsResult(log, t, e)
    BY <2>1, <2>4, <2>5, <2>7 DEF FitsResult, InOpenStep
  <2>9. QED
    BY <2>1, <2>7, <2>8 DEF Fits
<1>14. QED
  BY <1>7, <1>8, <1>9, <1>10, <1>11, <1>12, <1>13 DEF Drive

-----------------------------------------------------------------------------
(* The inductive invariant: the log is a good one, and a repair under way  *)
(* writes the closers of the log it loaded.                                *)
IInv ==
  /\ TypeOK /\ Good(log)
  /\ mode = "repairing" => closers = Closers(log)

(* The invariant holds at first. *)
LEMMA InitInv == Init => IInv
<1>1. ASSUME Init
      PROVE  IInv
  <2>1. log = <<>> /\ closers = <<>> /\ torn = FALSE /\ mode = "driving" /\ crashes = 0
    BY <1>1 DEF Init
  <2>2. <<>> \in Seq(EventSet)
    OBVIOUS
  <2>3. TypeOK
    BY <2>1, <2>2 DEF TypeOK
  <2>4. QED
    BY <2>1, <2>3, GoodEmpty DEF IInv
<1>2. QED
  BY <1>1

(* The writer keeps the invariant. *)
LEMMA DriveInv ==
  ASSUME IInv, Drive
  PROVE  IInv'
<1>1. PICK e \in EventSet : Fits(log, e) /\ Write(e)
  BY Driven DEF IInv
<1>2. log' = Append(log, e) /\ mode = "driving" /\ UNCHANGED <<torn, mode, closers, crashes>>
  BY <1>1 DEF Write
<1>3. Append(log, e) \in Seq(EventSet) /\ Good(Append(log, e))
  BY <1>1, GoodAppend DEF IInv, TypeOK
<1>4. TypeOK'
  BY <1>2, <1>3 DEF IInv, TypeOK
<1>5. QED
  BY <1>2, <1>3, <1>4 DEF IInv

(* What a repair writes, whole or in part, and what is left of it then. *)
LEMMA RepairWrites ==
  ASSUME IInv, mode = "repairing", NEW k \in 0..Len(closers)
  PROVE  /\ log \o SubSeq(closers, 1, k) \in Seq(EventSet) /\ Good(log \o SubSeq(closers, 1, k))
         /\ SubSeq(closers, 1, Len(closers)) = closers
BY Closing, SubSeqFull DEF IInv, TypeOK

(* A crash keeps the invariant: whatever part of the closers it lets       *)
(* through, the log is a good one.                                         *)
LEMMA CrashInv ==
  ASSUME IInv, Crash
  PROVE  IInv'
<1>1. mode' = "down" /\ closers' = <<>> /\ crashes' \in Nat
  BY DEF Crash, IInv, TypeOK
<1>2. log' \in Seq(EventSet) /\ Good(log') /\ torn' \in BOOLEAN
  <2>1. CASE log' = log /\ torn' \in BOOLEAN
    BY <2>1 DEF IInv, TypeOK
  <2>2. CASE mode = "driving" /\ torn' \in (IF log = <<>> THEN {FALSE} ELSE BOOLEAN) /\ UNCHANGED log
    BY <2>1, <2>2
  <2>3. CASE UNCHANGED <<log, torn>>
    BY <2>1, <2>3 DEF IInv, TypeOK
  <2>4. ASSUME mode = "repairing", NEW k \in 0..Len(closers),
               log' = log \o SubSeq(closers, 1, k),
               torn' \in IF k < Len(closers) THEN BOOLEAN ELSE {FALSE}
        PROVE  log' \in Seq(EventSet) /\ Good(log') /\ torn' \in BOOLEAN
    <3>1. Good(log \o SubSeq(closers, 1, k)) /\ log \o SubSeq(closers, 1, k) \in Seq(EventSet)
      BY <2>4, RepairWrites
    <3>2. torn' \in BOOLEAN
      BY <2>4
    <3>3. QED
      BY <2>4, <3>1, <3>2
  <2>5. QED
    BY <2>2, <2>3, <2>4 DEF Crash
<1>3. QED
  BY <1>1, <1>2 DEF IInv, TypeOK

(* A load keeps the invariant: it prepares the closers of the log it       *)
(* read.                                                                   *)
LEMMA LoadInv ==
  ASSUME IInv, Load
  PROVE  IInv'
<1>1. /\ closers' = Closers(log) /\ UNCHANGED <<log, torn, crashes>>
      /\ mode' = IF torn \/ Closers(log) # <<>> THEN "repairing" ELSE "driving"
  BY DEF Load
<1>2. Closers(log) \in Seq(EventSet)
  BY Closing DEF IInv, TypeOK
<1> DEFINE missing == Closers(log)
<1>3. TypeOK'
  <2> HIDE DEF missing
  <2>1. /\ closers' = missing /\ missing \in Seq(EventSet)
        /\ mode' = IF torn \/ missing # <<>> THEN "repairing" ELSE "driving"
    BY <1>1, <1>2 DEF missing
  <2>2. QED
    BY <1>1, <2>1 DEF IInv, TypeOK
<1>4. Closers(log') = Closers(log) /\ Good(log')
  BY <1>1 DEF IInv
<1>5. QED
  BY <1>1, <1>3, <1>4 DEF IInv

(* The steps of a repair keep the invariant. *)
LEMMA RepairInv ==
  ASSUME IInv, Truncate \/ CommitClosers \/ CommitFails
  PROVE  IInv'
<1>1. CASE Truncate
  <2>1. /\ UNCHANGED <<log, closers, crashes>> /\ torn' = FALSE /\ mode = "repairing"
        /\ mode' = IF closers = <<>> THEN "down" ELSE "repairing"
    BY <1>1 DEF Truncate
  <2>2. TypeOK'
    BY <2>1 DEF IInv, TypeOK
  <2>3. Good(log') /\ Closers(log') = Closers(log) /\ closers' = Closers(log)
    BY <2>1 DEF IInv
  <2>4. QED
    BY <2>2, <2>3 DEF IInv
<1>2. CASE CommitClosers
  <2>1. /\ mode = "repairing" /\ log' = log \o closers /\ mode' = "down" /\ closers' = <<>>
        /\ UNCHANGED <<torn, crashes>>
    BY <1>2 DEF CommitClosers
  <2>2. Len(closers) \in 0..Len(closers)
    BY DEF IInv, TypeOK
  <2>3. log \o closers \in Seq(EventSet) /\ Good(log \o closers)
    BY <2>1, <2>2, RepairWrites
  <2>4. TypeOK'
    BY <2>1, <2>3 DEF IInv, TypeOK
  <2>5. QED
    BY <2>1, <2>3, <2>4 DEF IInv
<1>3. CASE CommitFails
  <2>1. /\ mode' = "down" /\ closers' = <<>> /\ UNCHANGED <<log, torn>> /\ crashes' = crashes + 1
    BY <1>3 DEF CommitFails
  <2>2. TypeOK'
    BY <2>1 DEF IInv, TypeOK
  <2>3. QED
    BY <2>1, <2>2 DEF IInv
<1>4. QED
  BY <1>1, <1>2, <1>3

(* The log stays good, and a repair under way stays the one it needs.      *)
THEOREM RecoveryInvariant == Spec => []IInv
<1>1. ASSUME IInv, [Next]_vars
      PROVE  IInv'
  <2>1. CASE Drive
    BY <1>1, <2>1, DriveInv
  <2>2. CASE Recover
    BY <1>1, <2>2, LoadInv, RepairInv DEF Recover
  <2>3. CASE Crash
    BY <1>1, <2>3, CrashInv
  <2>4. CASE CommitFails
    BY <1>1, <2>4, RepairInv
  <2>5. CASE UNCHANGED vars
    <3>1. log' = log /\ torn' = torn /\ mode' = mode /\ closers' = closers /\ crashes' = crashes
      BY <2>5 DEF vars
    <3>2. QED
      BY <1>1, <3>1 DEF IInv, TypeOK
  <2>6. QED
    BY <1>1, <2>1, <2>2, <2>3, <2>4, <2>5 DEF Next
<1>2. QED
  BY <1>1, InitInv, PTL DEF Spec

(* The types, whatever the bounds: a session is driven only over a whole   *)
(* log, and a repair is under way exactly while there is something to      *)
(* repair.                                                                 *)
THEOREM RecoveryTypes == Spec => []TypeOK
<1>1. IInv => TypeOK
  BY DEF IInv
<1>2. QED
  BY <1>1, RecoveryInvariant, PTL

(* Wherever the log was cut, interruptedTurnClosers completes it to one    *)
(* the session invariant companion accepts from its first event, no turn   *)
(* or step left open.                                                      *)
THEOREM RepairsAccepted == Spec => []RepairAccepted
<1>1. ASSUME IInv
      PROVE  RepairAccepted
  <2> DEFINE cl == Closers(log)
             m == log \o cl
             t == Trace(m)
             s == Scanned(m)
  <2>1. log \in Seq(EventSet) /\ Good(log)
    BY <1>1 DEF IInv, TypeOK
  <2>2. m \in Seq(EventSet) /\ Good(m) /\ Closers(m) = <<>>
    <3>1. cl \in Seq(EventSet)
      BY <2>1, Closing
    <3>2. Len(cl) \in Nat /\ Len(cl) \in 0..Len(cl) /\ SubSeq(cl, 1, Len(cl)) = cl
      BY <3>1, SubSeqFull
    <3>3. SubSeq(cl, Len(cl) + 1, Len(cl)) = <<>>
      BY <3>2, SubSeqEmpty
    <3>4. LET x == log \o SubSeq(cl, 1, Len(cl))
          IN  x \in Seq(EventSet) /\ Good(x) /\ Closers(x) = SubSeq(cl, Len(cl) + 1, Len(cl))
      BY <2>1, <3>2, Closing
    <3>5. QED
      BY <3>2, <3>3, <3>4
  <2> HIDE DEF m
  <2>3. s.openTurn = 0
    <3>1. s \in ScanType
      BY <2>2, FoldsTyped
    <3>2. Rest(s) = <<>>
      BY <2>2 DEF Closers, Rest, Scanned
    <3>3. s.openTurn # 0 => Len(Rest(s)) # 0
      BY <3>1, RestShape, PendingFinite
    <3>4. QED
      BY <3>2, <3>3
  <2>4. t.ok /\ t.openTurn = 0 /\ t.openStep = 0
    BY <2>2, <2>3 DEF Good, Agrees, Numbered
  <2>5. QED
    BY <2>4 DEF RepairAccepted, m
<1>2. QED
  BY <1>1, RecoveryInvariant, PTL

(* A repair cut short after any number of closers and begun again comes    *)
(* to the log the first one was writing.                                   *)
THEOREM RepairsConfluent == Spec => []RepairConfluent
<1>1. ASSUME IInv
      PROVE  RepairConfluent
  <2> DEFINE all == Closers(log)
  <2>1. log \in Seq(EventSet) /\ Good(log)
    BY <1>1 DEF IInv, TypeOK
  <2>2. all \in Seq(EventSet)
    BY <2>1, Closing
  <2>3. ASSUME NEW k \in 0..Len(all)
        PROVE  SubSeq(all, 1, k) \o Closers(log \o SubSeq(all, 1, k)) = all
    <3>1. Closers(log \o SubSeq(all, 1, k)) = SubSeq(all, k + 1, Len(all))
      BY <2>1, Closing
    <3> HIDE DEF all
    <3>2. Len(all) \in Nat /\ 1 \in 1..Len(all) + 1 /\ k \in 1 - 1..Len(all) /\ Len(all) \in k..Len(all)
      BY <2>2
    <3>3. SubSeq(all, 1, k) \o SubSeq(all, k + 1, Len(all)) = SubSeq(all, 1, Len(all))
      BY <2>2, <3>2, ConcatAdjacentSubSeq
    <3>4. SubSeq(all, 1, Len(all)) = all
      BY <2>2, SubSeqFull
    <3>5. QED
      BY <3>1, <3>3, <3>4, Zenon
  <2>4. QED
    BY <2>3, Zenon DEF RepairConfluent
<1>2. QED
  BY <1>1, RecoveryInvariant, PTL

(* The closers answer the calls that the scan has pending. *)
LEMMA Synthesized ==
  ASSUME log \in Seq(EventSet), Good(log), NEW c \in CallIds
  PROVE  LET s == Scanned(log)
         IN  /\ s \in ScanType
             /\ c \in Pending(s) => Synthetic(c) = {Cardinality(Below(Pending(s), c)) + 1}
             /\ c \notin Pending(s) => Synthetic(c) = {}
             /\ \A i \in Synthetic(c) : c \in Pending(s) /\ Closers(log)[i] = ResultFor(s, c)
<1> DEFINE s == Scanned(log)
           P == Pending(s)
           n == Results(s)
           cl == Closers(log)
<1>1. s \in ScanType
  BY FoldsTyped
<1>2. cl = Rest(s)
  BY DEF Closers, Rest, Scanned
<1>3. n \in Nat /\ P \in SUBSET Nat /\ P \subseteq CallIds /\ IsFiniteSet(P) /\ n = Cardinality(P)
  BY <1>1, PendingFinite DEF Results
<1>4. Synthetic(c) = {i \in 1..Len(cl) : cl[i].type = "tool/result" /\ cl[i].calls = {c}}
  BY DEF Synthetic
<1>5. \A d \in P : s.pending[d].step # 0 /\ d \in CallIds
  BY DEF Pending
<1>6. \A d \in CallIds : AwaitsCall(log, d, s.pending[d], Trace(log))
  BY DEF Good, Awaits
<1>7. s.openTurn = 0 => s.openStep = 0
  BY DEF Good, Numbered, Agrees
<1>8. s.openStep = 0 => P = {}
  BY <1>5, <1>6 DEF AwaitsCall, Good, Agrees
<1> HIDE DEF s, P, n, cl
<1>9. CASE s.openTurn = 0
  <2>1. cl = <<>> /\ P = {}
    BY <1>1, <1>2, <1>7, <1>8, <1>9, RestShape
  <2>2. Synthetic(c) = {}
    BY <1>4, <2>1
  <2>3. QED
    BY <1>1, <2>1, <2>2 DEF s, P, cl
<1>10. CASE s.openTurn # 0
  <2>1. /\ cl \in Seq(EventSet) /\ Len(cl) = n + (IF s.openStep = 0 THEN 1 ELSE 2)
        /\ \A i \in 1..n : cl[i] = ResultFor(s, Nth(P, i))
        /\ s.openStep # 0 => cl[n + 1] = Event("step/end", s.openTurn, s.openStep)
        /\ cl[Len(cl)] = Event("turn/end", s.openTurn, 0)
    BY <1>1, <1>2, <1>10, RestShape DEF n, P
  <2>2. s.openTurn \in Nat /\ s.openStep \in Nat
    BY <1>1 DEF ScanType
  <2>3. ASSUME NEW i \in 1..Len(cl), i \notin 1..n
        PROVE  cl[i].type # "tool/result"
    <3>1. Event("step/end", s.openTurn, s.openStep).type = "step/end"
      BY <2>2, EndEvents
    <3>2. Event("turn/end", s.openTurn, 0).type = "turn/end"
      BY <2>2, EndEvents
    <3>3. i = Len(cl) \/ (s.openStep # 0 /\ i = n + 1)
      BY <1>3, <2>1, <2>3
    <3>4. QED
      BY <2>1, <3>1, <3>2, <3>3
  <2>4. \A i \in 1..n : /\ i \in 1..Len(cl) /\ Nth(P, i) \in P
                        /\ Cardinality(Below(P, Nth(P, i))) = i - 1
    BY <1>3, <2>1, NthEnumerates
  <2>5. \A i \in 1..n : cl[i].type = "tool/result" /\ cl[i].calls = {Nth(P, i)}
    <3>1. \A i \in 1..n : Nth(P, i) \in CallIds
      BY <1>3, <2>4
    <3>2. QED
      BY <1>1, <2>1, <3>1, ResultForCall
  <2>6. Synthetic(c) = {i \in 1..n : Nth(P, i) = c}
    <3>1. \A i \in Synthetic(c) : i \in 1..n /\ Nth(P, i) = c
      BY <1>4, <2>3, <2>5
    <3>2. \A i \in 1..n : Nth(P, i) = c => i \in Synthetic(c)
      BY <1>4, <2>4, <2>5
    <3>3. QED
      BY <3>1, <3>2
  <2>7. ASSUME NEW i \in Synthetic(c)
        PROVE  c \in P /\ cl[i] = ResultFor(s, c) /\ i = Cardinality(Below(P, c)) + 1
    <3>1. i \in 1..n /\ Nth(P, i) = c
      BY <2>6
    <3>2. c \in P /\ cl[i] = ResultFor(s, c) /\ Cardinality(Below(P, c)) = i - 1
      BY <2>1, <2>4, <3>1
    <3>3. QED
      BY <1>3, <3>1, <3>2
  <2>8. ASSUME c \in P
        PROVE  Cardinality(Below(P, c)) + 1 \in Synthetic(c)
    <3>1. /\ Cardinality(Below(P, c)) + 1 \in 1..n
          /\ Nth(P, Cardinality(Below(P, c)) + 1) = c
      BY <1>3, <2>8, NthEnumerates
    <3>2. QED
      BY <2>6, <3>1
  <2>9. c \in P => Synthetic(c) = {Cardinality(Below(P, c)) + 1}
    BY <2>7, <2>8
  <2>10. c \notin P => Synthetic(c) = {}
    BY <2>7
  <2>11. QED
    BY <1>1, <2>7, <2>9, <2>10 DEF s, P, cl
<1>11. QED
  BY <1>9, <1>10

(* A good log is answered by its closers, each open call once and          *)
(* truthfully.                                                             *)
LEMMA Answered ==
  ASSUME log \in Seq(EventSet), Good(log)
  PROVE  RepairAnswers
<1> DEFINE s == Scanned(log)
           t == Trace(log)
<1>1. \A type : InThisStep(type) = InStep(log, type)
  BY Views
<1>2. OpenCalls = Opened(log) /\ Here = t
  BY Views DEF OpenCalls, Here
<1>3. ASSUME NEW c \in CallIds
      PROVE  /\ AnswersTo(c) = Answers(log, c)
             /\ {j \in InThisStep("tool/call") : log[j].calls = {c}} = Starts(log, c)
  BY <1>1 DEF AnswersTo, Answers, Starts
<1>4. \A c \in CallIds : AwaitsCall(log, c, s.pending[c], t)
  BY DEF Good, Awaits
<1>5. t.openStep = 0 => Opened(log) = {}
  <2>1. t.openStep = 0 => InStep(log, "assistant/message") = {}
    BY NoStepOpen DEF Good, Spoken
  <2>2. QED
    BY <2>1 DEF Opened
<1>6. \A c \in CallIds : c \in Pending(s) <=> s.pending[c].step # 0
  BY DEF Pending
<1>7. Cardinality({}) = 0 /\ \A x : Cardinality({x}) = 1
  BY FS_EmptySet, FS_Singleton
<1> HIDE DEF s, t
<1>8. ASSUME NEW c \in CallIds
      PROVE  Cardinality(AnswersTo(c)) + Cardinality(Synthetic(c)) =
               IF Here.openStep # 0 /\ c \in OpenCalls THEN 1 ELSE 0
  <2>1. /\ s.pending[c].step # 0 <=> c \in Opened(log) /\ Answers(log, c) = {}
        /\ \A i, j \in Answers(log, c) : i = j
        /\ Answers(log, c) # {} => c \in Opened(log)
    BY <1>4 DEF AwaitsCall
  <2>2. c \in Pending(s) => Cardinality(Synthetic(c)) = 1
    BY <1>7, Synthesized DEF s
  <2>3. c \notin Pending(s) => Cardinality(Synthetic(c)) = 0
    BY <1>7, Synthesized DEF s
  <2>4. Cardinality(Answers(log, c)) = IF Answers(log, c) = {} THEN 0 ELSE 1
    <3>1. CASE Answers(log, c) = {}
      BY <1>7, <3>1
    <3>2. CASE Answers(log, c) # {}
      <4>1. PICK i \in Answers(log, c) : TRUE
        BY <3>2
      <4>2. Answers(log, c) = {i}
        BY <2>1, <4>1
      <4>3. QED
        BY <1>7, <3>2, <4>2
    <3>3. QED
      BY <3>1, <3>2
  <2>5. AnswersTo(c) = Answers(log, c)
    BY <1>3
  <2>6. CASE c \in Opened(log)
    <3>1. Here.openStep # 0 /\ c \in OpenCalls
      BY <1>2, <1>5, <2>6
    <3>2. CASE Answers(log, c) = {}
      <4>1. Cardinality(Synthetic(c)) = 1 /\ Cardinality(Answers(log, c)) = 0
        BY <1>6, <2>1, <2>2, <2>4, <2>6, <3>2
      <4>2. QED
        BY <2>5, <3>1, <4>1
    <3>3. CASE Answers(log, c) # {}
      <4>1. Cardinality(Synthetic(c)) = 0 /\ Cardinality(Answers(log, c)) = 1
        BY <1>6, <2>1, <2>3, <2>4, <3>3
      <4>2. QED
        BY <2>5, <3>1, <4>1
    <3>4. QED
      BY <3>2, <3>3
  <2>7. CASE c \notin Opened(log)
    <3>1. Cardinality(Synthetic(c)) = 0 /\ Cardinality(Answers(log, c)) = 0
      BY <1>6, <2>1, <2>3, <2>4, <2>7
    <3>2. c \notin OpenCalls
      BY <1>2, <2>7
    <3>3. QED
      BY <2>5, <3>1, <3>2
  <2>8. QED
    BY <2>6, <2>7
<1>9. ASSUME NEW c \in CallIds, NEW i \in Synthetic(c)
      PROVE  LET e == Closers(log)[i]
                 starts == {j \in InThisStep("tool/call") : log[j].calls = {c}}
             IN  IF starts = {} THEN e.code = "not-started" /\ e.source = 0
                                ELSE e.code = "unknown" /\ e.source \in starts
  <2>1. s \in ScanType /\ c \in Pending(s) /\ Closers(log)[i] = ResultFor(s, c)
    BY Synthesized DEF s
  <2>2. /\ ResultFor(s, c).source = s.pending[c].seq
        /\ ResultFor(s, c).code = IF s.pending[c].seq # 0 THEN "unknown" ELSE "not-started"
    BY <2>1, ResultForCall
  <2>3. IF s.pending[c].seq = 0 THEN Starts(log, c) = {} ELSE s.pending[c].seq \in Starts(log, c)
    BY <1>4, <1>6, <2>1 DEF AwaitsCall
  <2>4. CASE s.pending[c].seq = 0
    BY <1>3, <2>1, <2>2, <2>3, <2>4
  <2>5. CASE s.pending[c].seq # 0
    BY <1>3, <2>1, <2>2, <2>3, <2>5
  <2>6. QED
    BY <2>4, <2>5
<1>10. QED
  BY <1>8, <1>9 DEF RepairAnswers, RepairAnswersOnce, UnknownWhenStarted

(* Every call of the crashed step has one answer in the repaired log, and  *)
(* the synthetic ones say truthfully whether the call had started.         *)
THEOREM RepairsAnswer == Spec => []RepairAnswers
<1>1. IInv => RepairAnswers
  BY Answered DEF IInv, TypeOK
<1>2. QED
  BY <1>1, RecoveryInvariant, PTL

(* A sequence is a prefix of what continues it. *)
LEMMA Extends ==
  ASSUME NEW S, NEW l \in Seq(S), NEW x \in Seq(S)
  PROVE  IsPrefix(l, l \o x)
<1>1. Len(l) \in Nat /\ Len(x) \in Nat /\ Len(l \o x) = Len(l) + Len(x)
  BY ConcatProperties
<1>2. l = SubSeq(l \o x, 1, Len(l))
  <2>1. CASE l = <<>>
    BY <2>1, SubSeqEmpty
  <2>2. CASE l # <<>>
    <3>1. 1 \in 1..Len(l) /\ Len(l) \in 1..Len(l)
      BY <1>1, <2>2
    <3>2. SubSeq(l \o x, 1, Len(l)) = SubSeq(l, 1, Len(l))
      BY <3>1, SubSeqOfConcat1
    <3>3. QED
      BY <3>2, SubSeqFull
  <2>3. QED
    BY <2>1, <2>2
<1>3. SubSeq(l, 1, Len(l)) = l
  BY SubSeqFull
<1>4. QED
  BY <1>1, <1>2, <1>3 DEF IsPrefix

(* No step loses a complete record, and none is written behind a torn      *)
(* one.                                                                    *)
THEOREM RecordsAreKept == Spec => RecordsKept
<1>1. ASSUME IInv, [Next]_vars
      PROVE  [IsPrefix(log, log') /\ (torn => log' = log)]_vars
  <2>1. log \in Seq(EventSet) /\ closers \in Seq(EventSet)
    BY <1>1 DEF IInv, TypeOK
  <2>2. IsPrefix(log, log)
    <3>1. <<>> \in Seq(EventSet) /\ log \o <<>> = log
      BY <2>1, ConcatEmptySeq
    <3>2. QED
      BY <2>1, <3>1, Extends
  <2>3. CASE Drive
    <3>1. PICK e \in EventSet : Write(e)
      BY <1>1, <2>3, Driven DEF IInv
    <3>2. log' = log \o <<e>> /\ ~torn
      BY <1>1, <2>1, <3>1, AppendIsConcat DEF Write, IInv, TypeOK
    <3>3. <<e>> \in Seq(EventSet)
      OBVIOUS
    <3>4. IsPrefix(log, log \o <<e>>)
      BY <2>1, <3>3, Extends
    <3>5. QED
      BY <3>2, <3>4
  <2>4. CASE Load \/ Truncate \/ CommitFails
    <3>1. log' = log
      BY <2>4 DEF Load, Truncate, CommitFails
    <3>2. QED
      BY <2>2, <3>1
  <2>5. CASE CommitClosers
    <3>1. log' = log \o closers /\ ~torn
      BY <2>5 DEF CommitClosers
    <3>2. IsPrefix(log, log \o closers)
      BY <2>1, Extends
    <3>3. QED
      BY <3>1, <3>2
  <2>6. CASE Crash
    <3>1. CASE log' = log
      BY <2>2, <3>1
    <3>2. ASSUME ~torn, NEW k \in 0..Len(closers), log' = log \o SubSeq(closers, 1, k)
          PROVE  IsPrefix(log, log') /\ (torn => log' = log)
      <4>1. SubSeq(closers, 1, k) \in Seq(EventSet)
        <5>1. k \in Int /\ \A i \in 1..k : closers[i] \in EventSet
          BY <2>1
        <5>2. QED
          BY <5>1, SubSeqProperties
      <4>2. IsPrefix(log, log \o SubSeq(closers, 1, k))
        BY <2>1, <4>1, Extends
      <4>3. QED
        BY <3>2, <4>2
    <3>3. QED
      BY <2>6, <3>1, <3>2 DEF Crash
  <2>7. QED
    BY <1>1, <2>3, <2>4, <2>5, <2>6 DEF Next, Recover
<1>2. QED
  BY <1>1, RecoveryInvariant, PTL DEF Spec, RecordsKept

=============================================================================
