---------------------- MODULE SessionPreparationsProofs ----------------------
(***************************************************************************)
(* SessionPreparations proved for every set of sessions and callers, every *)
(* capacity of the pool and any number of calls and writes: a reservation  *)
(* is exclusive, is never left behind, and stays fit to publish.           *)
(***************************************************************************)
EXTENDS SessionPreparations, SequenceTheorems, FiniteSetTheorems, WellFoundedInduction, TLAPS

Elements(list) == {list[i] : i \in 1..Len(list)}

(* Every set of naturals that is not empty has a least element. *)
LEMMA Least ==
  ASSUME NEW T \in SUBSET Nat, T # {}
  PROVE  \E m \in T : \A n \in T : m <= n
<1>1. PICK m \in T : \A n \in T : ~(<<n, m>> \in OpToRel(<, Nat))
  BY WFMin, NatLessThanWellFounded
<1>2. \A n \in T : ~(n < m)
  BY <1>1 DEF OpToRel
<1>3. QED
  BY <1>2

-----------------------------------------------------------------------------
(* Part of a sequence, in its order. *)
Within(t, s) ==
  \E f \in [1..Len(t) -> 1..Len(s)] :
    /\ \A i, j \in 1..Len(t) : i < j => f[i] < f[j]
    /\ \A i \in 1..Len(t) : t[i] = s[f[i]]
Injective(s) == \A i, j \in 1..Len(s) : s[i] = s[j] => i = j

(* What Tail leaves of a sequence. *)
LEMMA TailWithin ==
  ASSUME NEW S, NEW s \in Seq(S), s # <<>>
  PROVE  Tail(s) \in Seq(S) /\ Head(s) \in S /\ Within(Tail(s), s) /\ Head(s) = s[1] /\ 1 \in 1..Len(s)
<1>1. /\ Tail(s) \in Seq(S) /\ Head(s) \in S /\ Len(Tail(s)) = Len(s) - 1 /\ Len(s) \in Nat \ {0}
      /\ Head(s) = s[1]
      /\ \A i \in 1..Len(Tail(s)) : Tail(s)[i] = s[i + 1]
  BY HeadTailProperties, EmptySeq, LenProperties
<1> DEFINE f == [i \in 1..Len(Tail(s)) |-> i + 1]
<1>2. f \in [1..Len(Tail(s)) -> 1..Len(s)]
  BY <1>1
<1>3. \A i, j \in 1..Len(Tail(s)) : i < j => f[i] < f[j]
  OBVIOUS
<1>4. \A i \in 1..Len(Tail(s)) : Tail(s)[i] = s[f[i]]
  BY <1>1
<1> HIDE DEF f
<1>5. Within(Tail(s), s)
  BY <1>2, <1>3, <1>4 DEF Within
<1>6. QED
  BY <1>1, <1>5

(* Without leaves a sequence alone that has no such element. *)
LEMMA WithoutNone ==
  ASSUME NEW S, NEW s \in Seq(S), NEW x, \A k \in 1..Len(s) : s[k] # x
  PROVE  Without(s, x) = s /\ Within(s, s)
<1>1. Without(s, x) = s
  BY DEF Without
<1> DEFINE f == [i \in 1..Len(s) |-> i]
<1>2. f \in [1..Len(s) -> 1..Len(s)] /\ (\A i, j \in 1..Len(s) : i < j => f[i] < f[j])
      /\ \A i \in 1..Len(s) : s[i] = s[f[i]]
  OBVIOUS
<1> HIDE DEF f
<1>3. Within(s, s)
  BY <1>2 DEF Within
<1>4. QED
  BY <1>1, <1>3

(* What Without leaves when the element is there. *)
LEMMA WithoutOne ==
  ASSUME NEW S, NEW s \in Seq(S), NEW x, \E k \in 1..Len(s) : s[k] = x
  PROVE  \E k \in 1..Len(s) :
           /\ s[k] = x
           /\ Without(s, x) \in Seq(S) /\ Len(Without(s, x)) = Len(s) - 1
           /\ \A i \in 1..Len(s) - 1 : Without(s, x)[i] = IF i < k THEN s[i] ELSE s[i + 1]
<1> DEFINE k == CHOOSE k \in 1..Len(s) : s[k] = x
           a == SubSeq(s, 1, k - 1)
           b == SubSeq(s, k + 1, Len(s))
<1>1. k \in 1..Len(s) /\ s[k] = x
  OBVIOUS
<1>2. Without(s, x) = a \o b
  BY DEF Without
<1> HIDE DEF k
<1>3. Len(s) \in Nat
  BY LenProperties
<1>4. a \in Seq(S) /\ Len(a) = k - 1 /\ \A i \in 1..k - 1 : a[i] = s[i]
  BY <1>1, <1>3, SubSeqProperties
<1>5. b \in Seq(S) /\ Len(b) = Len(s) - k /\ \A i \in 1..Len(s) - k : b[i] = s[k + i]
  BY <1>1, <1>3, SubSeqProperties
<1> HIDE DEF a, b
<1>6. /\ a \o b \in Seq(S) /\ Len(a \o b) = Len(s) - 1
      /\ \A i \in 1..Len(s) - 1 : (a \o b)[i] = IF i <= Len(a) THEN a[i] ELSE b[i - Len(a)]
  <2>1. Len(a) + Len(b) = Len(s) - 1
    BY <1>1, <1>3, <1>4, <1>5
  <2>2. a \in Seq(S) /\ b \in Seq(S)
    BY <1>4, <1>5
  <2>3. /\ a \o b \in Seq(S) /\ Len(a \o b) = Len(a) + Len(b)
        /\ \A i \in 1..Len(a) + Len(b) :
             (a \o b)[i] = IF i <= Len(a) THEN a[i] ELSE b[i - Len(a)]
    BY <2>2, ConcatProperties
  <2>4. QED
    BY <2>1, <2>3
<1>7. ASSUME NEW i \in 1..Len(s) - 1
      PROVE  (a \o b)[i] = IF i < k THEN s[i] ELSE s[i + 1]
  <2>1. CASE i < k
    BY <2>1, <1>1, <1>3, <1>4, <1>6
  <2>2. CASE ~(i < k)
    <3>1. i - Len(a) \in 1..Len(s) - k /\ k + (i - Len(a)) = i + 1 /\ ~(i <= Len(a))
      BY <2>2, <1>1, <1>3, <1>4
    <3>2. QED
      BY <2>2, <3>1, <1>5, <1>6
  <2>3. QED
    BY <2>1, <2>2
<1>8. QED
  BY <1>1, <1>2, <1>6, <1>7

(* Without takes nothing but the element out, and keeps the order. *)
LEMMA WithoutWithin ==
  ASSUME NEW S, NEW s \in Seq(S), NEW x
  PROVE  Without(s, x) \in Seq(S) /\ Within(Without(s, x), s)
<1>1. CASE \A k \in 1..Len(s) : s[k] # x
  BY <1>1, WithoutNone
<1>2. CASE \E k \in 1..Len(s) : s[k] = x
  <2>1. PICK k \in 1..Len(s) :
           /\ s[k] = x
           /\ Without(s, x) \in Seq(S) /\ Len(Without(s, x)) = Len(s) - 1
           /\ \A i \in 1..Len(s) - 1 : Without(s, x)[i] = IF i < k THEN s[i] ELSE s[i + 1]
    BY <1>2, WithoutOne
  <2> DEFINE t == Without(s, x)
             f == [i \in 1..Len(t) |-> IF i < k THEN i ELSE i + 1]
  <2>2. Len(s) \in Nat
    BY LenProperties
  <2> HIDE DEF t
  <2>3. f \in [1..Len(t) -> 1..Len(s)]
    BY <2>1, <2>2 DEF t
  <2>4. \A i, j \in 1..Len(t) : i < j => f[i] < f[j]
    BY <2>1, <2>2 DEF t
  <2>5. \A i \in 1..Len(t) : t[i] = s[f[i]]
    BY <2>1, <2>2 DEF t
  <2> HIDE DEF f
  <2>6. QED
    BY <2>1, <2>3, <2>4, <2>5 DEF Within, t
<1>3. QED
  BY <1>1, <1>2

(* What is true of a sequence's elements and of their order is true of a part. *)
LEMMA WithinElements ==
  ASSUME NEW s, NEW t, Within(t, s)
  PROVE  Elements(t) \subseteq Elements(s) /\ (Injective(s) => Injective(t))
<1>1. PICK f \in [1..Len(t) -> 1..Len(s)] :
        /\ \A i, j \in 1..Len(t) : i < j => f[i] < f[j]
        /\ \A i \in 1..Len(t) : t[i] = s[f[i]]
  BY DEF Within
<1>2. Elements(t) \subseteq Elements(s)
  BY <1>1 DEF Elements
<1>3. ASSUME Injective(s), NEW i \in 1..Len(t), NEW j \in 1..Len(t), t[i] = t[j]
      PROVE  i = j
  <2>1. f[i] = f[j]
    BY <1>1, <1>3 DEF Injective
  <2>2. ~(i < j) /\ ~(j < i)
    BY <2>1, <1>1
  <2>3. QED
    BY <2>2
<1>4. QED
  BY <1>2, <1>3 DEF Injective

(* Of a sequence without duplicates, Without takes the element out for     *)
(* good.                                                                   *)
LEMMA WithoutElements ==
  ASSUME NEW S, NEW s \in Seq(S), NEW x, Injective(s)
  PROVE  Elements(Without(s, x)) = Elements(s) \ {x} /\ Injective(Without(s, x))
<1>1. CASE \A k \in 1..Len(s) : s[k] # x
  BY <1>1, WithoutNone DEF Elements
<1>2. CASE \E k \in 1..Len(s) : s[k] = x
  <2>1. PICK k \in 1..Len(s) :
           /\ s[k] = x
           /\ Without(s, x) \in Seq(S) /\ Len(Without(s, x)) = Len(s) - 1
           /\ \A i \in 1..Len(s) - 1 : Without(s, x)[i] = IF i < k THEN s[i] ELSE s[i + 1]
    BY <1>2, WithoutOne
  <2> DEFINE t == Without(s, x)
  <2>2. Len(s) \in Nat
    BY LenProperties
  <2> HIDE DEF t
  <2>3. ASSUME NEW i \in 1..Len(t)
        PROVE  t[i] # x
    <3>1. i \in 1..Len(s) /\ i + 1 \in 1..Len(s)
      BY <2>1, <2>2 DEF t
    <3>2. s[i] = x => i = k
      BY <3>1, <2>1 DEF Injective
    <3>3. s[i + 1] = x => i + 1 = k
      BY <3>1, <2>1 DEF Injective
    <3>4. QED
      BY <3>1, <3>2, <3>3, <2>1 DEF t
  <2>4. ASSUME NEW j \in 1..Len(s), s[j] # x
        PROVE  \E i \in 1..Len(t) : t[i] = s[j]
    <3>1. CASE j < k
      BY <3>1, <2>1, <2>2 DEF t
    <3>2. CASE k < j
      <4>1. j - 1 \in 1..Len(t) /\ ~(j - 1 < k) /\ (j - 1) + 1 = j
        BY <3>2, <2>1, <2>2 DEF t
      <4>2. t[j - 1] = s[j]
        BY <4>1, <2>1 DEF t
      <4>3. QED
        BY <4>1, <4>2
    <3>3. QED
      BY <3>1, <3>2, <2>1, <2>4
  <2>5. Within(t, s)
    BY WithoutWithin DEF t
  <2>6. Elements(t) \subseteq Elements(s) /\ (Injective(s) => Injective(t))
    BY <2>5, WithinElements
  <2>7. Elements(s) \ {x} \subseteq Elements(t)
    BY <2>4 DEF Elements
  <2>8. x \notin Elements(t)
    BY <2>3 DEF Elements
  <2>9. Elements(t) = Elements(s) \ {x} /\ Injective(t)
    BY <2>6, <2>7, <2>8
  <2>10. QED
    BY <2>9 DEF t
<1>3. QED
  BY <1>1, <1>2

(* A new element makes no duplicate. *)
LEMMA AppendElements ==
  ASSUME NEW S, NEW s \in Seq(S), NEW x \in S
  PROVE  /\ Append(s, x) \in Seq(S) /\ Elements(Append(s, x)) = Elements(s) \cup {x}
         /\ (Injective(s) /\ x \notin Elements(s) => Injective(Append(s, x)))
<1>1. /\ Append(s, x) \in Seq(S) /\ Len(Append(s, x)) = Len(s) + 1 /\ Len(s) \in Nat
      /\ Append(s, x)[Len(s) + 1] = x
      /\ \A i \in 1..Len(s) : Append(s, x)[i] = s[i]
  BY AppendProperties, LenProperties
<1> DEFINE t == Append(s, x)
<1> HIDE DEF t
<1>2. 1..Len(t) = 1..Len(s) \cup {Len(s) + 1}
  BY <1>1 DEF t
<1>3. Elements(t) = Elements(s) \cup {x}
  BY <1>1, <1>2 DEF Elements, t
<1>4. ASSUME Injective(s), x \notin Elements(s) PROVE Injective(t)
  <2>1. \A i \in 1..Len(s) : t[i] # t[Len(s) + 1]
    BY <1>1, <1>4 DEF Elements, t
  <2>2. \A i, j \in 1..Len(s) : t[i] = t[j] => i = j
    BY <1>1, <1>4 DEF Injective, t
  <2>3. QED
    BY <2>1, <2>2, <1>2 DEF Injective
<1>5. QED
  BY <1>1, <1>3, <1>4 DEF t

-----------------------------------------------------------------------------
(* The map of entries: its keys are the ids that have one, each once.      *)
Pool(list, entries) ==
  /\ entries \in [Ids -> EntryType]
  /\ \A id \in Ids : entries[id].phase = "none" <=> entries[id].object = NoObject
  /\ list \in Seq(Ids) /\ Injective(list)
  /\ \A id \in Ids : id \in Elements(list) <=> entries[id].phase # "none"
ReadyIds(entries) == {id \in Ids : entries[id].phase = "ready"}
Bounded(entries) == Cardinality(ReadyIds(entries)) <= Capacity

(* An id that is not in the map. *)
LEMMA NoEntryType ==
  /\ NoEntry \in EntryType /\ NoEntry.phase = "none" /\ NoEntry.object = NoObject
BY DEF NoEntry, EntryType

(* A change of one entry that is there and stays there. *)
LEMMA UpdateKeeps ==
  ASSUME NEW list, NEW entries, Pool(list, entries), NEW id \in Ids, NEW e \in EntryType,
         entries[id].phase # "none", e.phase # "none", e.object # NoObject
  PROVE  Pool(list, [entries EXCEPT ![id] = e])
BY DEF Pool

(* entries.delete(id), there or not. *)
LEMMA RemoveKeeps ==
  ASSUME NEW list, NEW entries, Pool(list, entries), NEW id \in Ids
  PROVE  Pool(Without(list, id), [entries EXCEPT ![id] = NoEntry])
<1> DEFINE es == [entries EXCEPT ![id] = NoEntry]
<1>1. es \in [Ids -> EntryType] /\ es[id] = NoEntry /\ \A i \in Ids \ {id} : es[i] = entries[i]
  BY NoEntryType DEF Pool
<1>2. /\ Without(list, id) \in Seq(Ids) /\ Injective(Without(list, id))
      /\ Elements(Without(list, id)) = Elements(list) \ {id}
  BY WithoutWithin, WithoutElements DEF Pool
<1> HIDE DEF es
<1>3. \A i \in Ids : es[i].phase = "none" <=> es[i].object = NoObject
  BY <1>1, NoEntryType DEF Pool
<1>4. \A i \in Ids : i \in Elements(Without(list, id)) <=> es[i].phase # "none"
  BY <1>1, <1>2, NoEntryType DEF Pool
<1>5. QED
  BY <1>1, <1>2, <1>3, <1>4 DEF Pool, es

(* entries.set(id, entry) of an id that is not in the map. *)
LEMMA AppendKeeps ==
  ASSUME NEW list, NEW entries, Pool(list, entries), NEW id \in Ids, NEW e \in EntryType,
         entries[id].phase = "none", e.phase # "none", e.object # NoObject
  PROVE  Pool(Append(list, id), [entries EXCEPT ![id] = e])
<1> DEFINE es == [entries EXCEPT ![id] = e]
<1>1. es \in [Ids -> EntryType] /\ es[id] = e /\ \A i \in Ids \ {id} : es[i] = entries[i]
  BY DEF Pool
<1>2. /\ Append(list, id) \in Seq(Ids) /\ Injective(Append(list, id))
      /\ Elements(Append(list, id)) = Elements(list) \cup {id}
  BY AppendElements DEF Pool
<1> HIDE DEF es
<1>3. \A i \in Ids : es[i].phase = "none" <=> es[i].object = NoObject
  BY <1>1 DEF Pool
<1>4. \A i \in Ids : i \in Elements(Append(list, id)) <=> es[i].phase # "none"
  BY <1>1, <1>2 DEF Pool
<1>5. QED
  BY <1>1, <1>2, <1>3, <1>4 DEF Pool, es

(* An entry that becomes the latest. *)
LEMMA LatestKeeps ==
  ASSUME NEW list, NEW entries, Pool(list, entries), NEW id \in Ids, entries[id].phase # "none"
  PROVE  Pool(Append(Without(list, id), id), entries)
<1>1. /\ Without(list, id) \in Seq(Ids) /\ Injective(Without(list, id))
      /\ Elements(Without(list, id)) = Elements(list) \ {id}
  BY WithoutWithin, WithoutElements DEF Pool
<1>2. /\ Append(Without(list, id), id) \in Seq(Ids) /\ Injective(Append(Without(list, id), id))
      /\ Elements(Append(Without(list, id), id)) = (Elements(list) \ {id}) \cup {id}
  BY <1>1, AppendElements
<1>3. QED
  BY <1>2 DEF Pool

(* The ready positions of the map's order are as many as the ready ids. *)
LEMMA ReadyPositions ==
  ASSUME NEW list, NEW entries, Pool(list, entries),
         NEW ready, ready = {i \in 1..Len(list) : entries[list[i]].phase = "ready"}
  PROVE  /\ IsFiniteSet(ready) /\ IsFiniteSet(ReadyIds(entries))
         /\ Cardinality(ready) \in Nat /\ Cardinality(ReadyIds(entries)) \in Nat
         /\ Cardinality(ReadyIds(entries)) <= Cardinality(ready)
<1>1. Len(list) \in Nat
  BY LenProperties DEF Pool
<1>2. IsFiniteSet(1..Len(list))
  BY <1>1, FS_Interval
<1>3. IsFiniteSet(ready)
  BY <1>2, FS_Subset
<1> DEFINE f == [i \in ready |-> list[i]]
<1>4. f \in [ready -> ReadyIds(entries)]
  BY ElementOfSeq DEF ReadyIds, Pool
<1>5. ASSUME NEW id \in ReadyIds(entries)
      PROVE  \E i \in ready : f[i] = id
  <2>1. PICK i \in 1..Len(list) : list[i] = id
    BY <1>5 DEF Pool, ReadyIds, Elements
  <2>2. QED
    BY <2>1, <1>5 DEF ReadyIds
<1> HIDE DEF f
<1>6. f \in Surjection(ready, ReadyIds(entries))
  BY <1>4, <1>5 DEF Surjection
<1>7. QED
  BY <1>3, <1>6, FS_Surjection, FS_CardinalityType

(* touch: the pool is in order, no entry is lost but one that was ready,   *)
(* and the ready ones are as many as the pool keeps.                       *)
LEMMA TouchKeeps ==
  ASSUME NEW id \in Ids, NEW entries, Pool(order, entry), Bounded(entry), Pool(order, entries),
         entries[id].phase # "none", \A i \in Ids \ {id} : entries[i] = entry[i], PoolAssumption,
         Touch(id, entries)
  PROVE  /\ Pool(order', entry') /\ Bounded(entry')
         /\ \A i \in Ids : \/ entry'[i] = entries[i]
                           \/ entries[i].phase = "ready" /\ entry'[i] = NoEntry
<1> DEFINE latest == Append(Without(order, id), id)
           ready == {i \in 1..Len(latest) : entries[latest[i]].phase = "ready"}
           least == CHOOSE i \in ready : \A j \in ready : i <= j
           first == latest[least]
<1>1. Pool(latest, entries)
  BY LatestKeeps, Zenon
<1>2. \/ Cardinality(ready) <= Capacity /\ order' = latest /\ entry' = entries
      \/ /\ ~(Cardinality(ready) <= Capacity)
         /\ order' = Without(latest, first) /\ entry' = [entries EXCEPT ![first] = NoEntry]
  BY DEF Touch
<1> HIDE DEF latest
<1>3. /\ IsFiniteSet(ready) /\ IsFiniteSet(ReadyIds(entries))
      /\ Cardinality(ready) \in Nat /\ Cardinality(ReadyIds(entries)) \in Nat
      /\ Cardinality(ReadyIds(entries)) <= Cardinality(ready)
  BY <1>1, ReadyPositions
<1>4. Capacity \in Nat \ {0}
  BY DEF PoolAssumption
<1>5. CASE Cardinality(ready) <= Capacity /\ order' = latest /\ entry' = entries
  BY <1>1, <1>3, <1>4, <1>5 DEF Bounded
<1>6. CASE /\ ~(Cardinality(ready) <= Capacity)
           /\ order' = Without(latest, first) /\ entry' = [entries EXCEPT ![first] = NoEntry]
  <2>1. ready # {}
    BY <1>3, <1>4, <1>6, FS_EmptySet
  <2>2. ready \in SUBSET Nat
    OBVIOUS
  <2>3. least \in ready
    BY <2>1, <2>2, Least
  <2> HIDE DEF least
  <2>4. first \in Ids /\ entries[first].phase = "ready"
    BY <2>3, <1>1, ElementOfSeq DEF Pool
  <2> HIDE DEF ready, first
  <2>5. Pool(order', entry')
    BY <1>1, <1>6, <2>4, RemoveKeeps
  <2>6. entry' \in [Ids -> EntryType] /\ entry'[first] = NoEntry
        /\ \A i \in Ids \ {first} : entry'[i] = entries[i]
    BY <1>1, <1>6, <2>4, NoEntryType DEF Pool
  <2>7. ReadyIds(entry') = ReadyIds(entries) \ {first}
    BY <2>6, <2>4, NoEntryType DEF ReadyIds
  <2>8. Cardinality(ReadyIds(entry')) = Cardinality(ReadyIds(entries)) - 1
    <3>1. first \in ReadyIds(entries)
      BY <2>4 DEF ReadyIds
    <3>2. IsFiniteSet(ReadyIds(entries))
      BY <1>3
    <3>3. Cardinality(ReadyIds(entries) \ {first}) = Cardinality(ReadyIds(entries)) - 1
      BY <3>1, <3>2, FS_RemoveElement
    <3>4. QED
      BY <2>7, <3>3
  <2>9. ReadyIds(entries) \subseteq ReadyIds(entry) \cup {id}
    BY DEF ReadyIds
  <2>10. IsFiniteSet(ReadyIds(entry)) /\ Cardinality(ReadyIds(entry)) \in Nat
    BY ReadyPositions
  <2>15. /\ IsFiniteSet(ReadyIds(entry) \cup {id})
         /\ \/ Cardinality(ReadyIds(entry) \cup {id}) = Cardinality(ReadyIds(entry))
            \/ Cardinality(ReadyIds(entry) \cup {id}) = Cardinality(ReadyIds(entry)) + 1
    BY <2>10, FS_AddElement
  <2>11. /\ IsFiniteSet(ReadyIds(entry) \cup {id})
         /\ Cardinality(ReadyIds(entry) \cup {id}) \in Nat
         /\ Cardinality(ReadyIds(entry) \cup {id}) <= Cardinality(ReadyIds(entry)) + 1
    BY <2>10, <2>15
  <2>12. Cardinality(ReadyIds(entries)) <= Cardinality(ReadyIds(entry) \cup {id})
    BY <2>9, <2>11, FS_Subset
  <2>13. Bounded(entry')
    <3>1. Cardinality(ReadyIds(entry)) <= Capacity
      BY DEF Bounded
    <3>2. Cardinality(ReadyIds(entry')) <= Capacity
      BY <3>1, <2>8, <2>10, <2>11, <2>12, <1>3, <1>4
    <3>3. QED
      BY <3>2 DEF Bounded
  <2>14. QED
    BY <2>4, <2>5, <2>6, <2>13
<1> HIDE DEF ready, least, first
<1>7. QED
  BY <1>2, <1>5, <1>6

-----------------------------------------------------------------------------
(* The inductive invariant, in parts.                                      *)
JobType ==
  {Job("load", o) : o \in Objects} \cup {Job("commit", c) : c \in Callers}
    \cup {Job("check", c) : c \in Callers} \cup {Job("append", NoObject), Job("retire", NoObject)}

Logs ==
  /\ stored \in [Ids -> Nat] /\ own \in [Ids -> Nat] /\ broken \in [Ids -> BOOLEAN]
  /\ \A id \in Ids : own[id] <= stored[id]
States ==
  /\ owner \in [Ids -> {"none", "live", "flushing", "retiring", "stuck"}]
  /\ cursor \in [Ids -> Nat] /\ running \in [Ids -> {"none", "adopting", "writing"}]
Chains == chain \in [Ids -> Seq(JobType)]
Referring == {"result", "loaded", "settled", "woken", "committing", "holding", "checking"}
Calls(now) ==
  /\ now \in [Callers -> CallType]
  /\ \A c \in Callers : now[c].at \in Referring => now[c].object \in Objects
Entries == Pool(order, entry) /\ Bounded(entry)
Types == Logs /\ States /\ Chains /\ Calls(call) /\ Entries

(* What is queued: no operation twice but appends, no commit behind the    *)
(* load of the entry there is, an append that runs at the head.            *)
Distinct(s) == \A i, j \in 1..Len(s) : s[i] = s[j] /\ s[i].kind # "append" => i = j
Ahead(s, o) == \A i, j \in 1..Len(s) : s[i] = Job("load", o) /\ i < j => s[j].kind # "commit"
Queued ==
  \A id \in Ids :
    /\ Distinct(chain[id]) /\ Ahead(chain[id], entry[id].object)
    /\ running[id] # "none" => First(id, "append")
    /\ Job("retire", NoObject) \in Jobs(id) => owner[id] = "retiring"
    /\ Job("load", entry[id].object) \in Jobs(id) => entry[id].phase = "loading"

(* Who queued it waits for it; once an entry is loaded, only the call that *)
(* reserved it has a commit in the chain.                                  *)
Commits ==
  \A id \in Ids, c \in Callers :
    Job("commit", c) \in Jobs(id) =>
      /\ call[c].at = "committing" /\ call[c].id = id /\ call[c].outcome \in {"pending", "repair"}
      /\ entry[id].phase \notin {"none", "loading"} => Joined(c)
Checks ==
  \A id \in Ids, c \in Callers :
    Job("check", c) \in Jobs(id) =>
      call[c].at = "checking" /\ call[c].id = id /\ call[c].outcome = "pending"

(* The source a reservation holds, from its commit on. *)
Current(id) ==
  /\ owner[id] = "none" /\ running[id] = "none"
  /\ cursor[id] = entry[id].rev /\ entry[id].rev >= own[id] /\ ~entry[id].repair
HoldAts == {"committing", "holding"}
Holds(c) == call[c].at \in HoldAts /\ Joined(c)
Fit(c) ==
  LET id == call[c].id
  IN  /\ call[c].at = "holding" => Joined(c) /\ entry[id].phase = "reserved" /\ Current(id)
      /\ call[c].at = "committing" /\ Joined(c) =>
           /\ entry[id].phase = "committing" /\ entry[id].rev = call[c].rev
           /\ call[c].outcome = "pending" => ~entry[id].repair
           /\ call[c].outcome = "committed" => Current(id)
Sole == \A c, d \in Callers : Holds(c) /\ Holds(d) /\ call[c].id = call[d].id => c = d
Reserved(id) == entry[id].phase \in {"committing", "reserved"}
Taken == \A id \in Ids : Reserved(id) => \E c \in Callers : Holds(c) /\ call[c].id = id
Held == (\A c \in Callers : Fit(c)) /\ Sole /\ Taken

IInv == Types /\ Queued /\ Commits /\ Checks /\ Held

-----------------------------------------------------------------------------
(* An operation is its kind and who queued it. *)
LEMMA JobFacts ==
  ASSUME NEW k, NEW b, NEW k2, NEW b2
  PROVE  /\ (Job(k, b) = Job(k2, b2) <=> k = k2 /\ b = b2)
         /\ Job(k, b).kind = k /\ Job(k, b).by = b
BY DEF Job

(* The five kinds of operations, and who queues each. *)
LEMMA JobKinds ==
  ASSUME NEW job \in JobType
  PROVE  /\ job.kind \in {"load", "commit", "check", "append", "retire"}
         /\ (job.kind = "load" => job.by \in Objects /\ job = Job("load", job.by))
         /\ (job.kind = "commit" => job.by \in Callers /\ job = Job("commit", job.by))
         /\ (job.kind = "check" => job.by \in Callers /\ job = Job("check", job.by))
         /\ (job.kind = "append" => job = Job("append", NoObject))
         /\ (job.kind = "retire" => job = Job("retire", NoObject))
BY DEF JobType, Job

(* The operations the actions queue. *)
LEMMA JobsMade ==
  /\ \A o \in Objects : Job("load", o) \in JobType
  /\ \A c \in Callers : Job("commit", c) \in JobType /\ Job("check", c) \in JobType
  /\ Job("append", NoObject) \in JobType /\ Job("retire", NoObject) \in JobType
BY DEF JobType

(* No operation loads for an entry that does not exist. *)
LEMMA NoLoad ==
  ASSUME PoolAssumption, NEW s \in Seq(JobType)
  PROVE  Job("load", NoObject) \notin Elements(s)
<1>1. \A i \in 1..Len(s) : s[i] \in JobType
  BY ElementOfSeq
<1>2. ASSUME NEW i \in 1..Len(s), s[i] = Job("load", NoObject)
      PROVE  FALSE
  <2>1. s[i].kind = "load" /\ s[i].by = NoObject
    BY <1>2, JobFacts
  <2>2. NoObject \in Objects
    BY <2>1, <1>1, JobKinds
  <2>3. QED
    BY <2>2 DEF PoolAssumption
<1>3. QED
  BY <1>2 DEF Elements

(* What is left of a chain keeps its order and has no more duplicates. *)
LEMMA WithinOrder ==
  ASSUME NEW s, NEW t, Within(t, s)
  PROVE  /\ Distinct(s) => Distinct(t)
         /\ \A o : Ahead(s, o) => Ahead(t, o)
<1>1. PICK f \in [1..Len(t) -> 1..Len(s)] :
        /\ \A i, j \in 1..Len(t) : i < j => f[i] < f[j]
        /\ \A i \in 1..Len(t) : t[i] = s[f[i]]
  BY DEF Within
<1>2. ASSUME Distinct(s), NEW i \in 1..Len(t), NEW j \in 1..Len(t), t[i] = t[j],
             t[i].kind # "append"
      PROVE  i = j
  <2>1. f[i] = f[j]
    BY <1>1, <1>2 DEF Distinct
  <2>2. ~(i < j) /\ ~(j < i)
    BY <2>1, <1>1
  <2>3. QED
    BY <2>2
<1>3. ASSUME NEW o, Ahead(s, o), NEW i \in 1..Len(t), NEW j \in 1..Len(t), t[i] = Job("load", o),
             i < j
      PROVE  t[j].kind # "commit"
  BY <1>1, <1>3 DEF Ahead
<1>4. QED
  BY <1>2, <1>3 DEF Distinct, Ahead

(* An operation that settles leaves the chain. *)
LEMMA TailJobs ==
  ASSUME NEW s \in Seq(JobType), s # <<>>
  PROVE  /\ Tail(s) \in Seq(JobType) /\ Head(s) \in JobType /\ Head(s) \in Elements(s)
         /\ Within(Tail(s), s) /\ Elements(Tail(s)) \subseteq Elements(s)
         /\ (Distinct(s) /\ Head(s).kind # "append" => Head(s) \notin Elements(Tail(s)))
         /\ \A o : Ahead(s, o) /\ Head(s) = Job("load", o) =>
              \A c \in Callers : Job("commit", c) \notin Elements(Tail(s))
<1>1. /\ Tail(s) \in Seq(JobType) /\ Head(s) \in JobType /\ Within(Tail(s), s)
      /\ Head(s) = s[1] /\ 1 \in 1..Len(s)
  BY TailWithin
<1>2. Elements(Tail(s)) \subseteq Elements(s) /\ Head(s) \in Elements(s)
  BY <1>1, WithinElements DEF Elements
<1>3. ASSUME NEW x \in Elements(Tail(s))
      PROVE  \E j \in 1..Len(s) : 1 < j /\ s[j] = x
  <2>1. PICK i \in 1..Len(Tail(s)) : x = Tail(s)[i]
    BY <1>3 DEF Elements
  <2>2. Tail(s)[i] = s[i + 1] /\ Len(Tail(s)) = Len(s) - 1 /\ Len(s) \in Nat
    BY HeadTailProperties, LenProperties
  <2>3. QED
    BY <2>1, <2>2
<1>4. ASSUME Distinct(s), Head(s).kind # "append", Head(s) \in Elements(Tail(s))
      PROVE  FALSE
  <2>1. PICK j \in 1..Len(s) : 1 < j /\ s[j] = Head(s)
    BY <1>3, <1>4
  <2>2. 1 = j
    BY <2>1, <1>1, <1>4 DEF Distinct
  <2>3. QED
    BY <2>1, <2>2
<1>5. ASSUME NEW o, Ahead(s, o), Head(s) = Job("load", o), NEW c \in Callers,
             Job("commit", c) \in Elements(Tail(s))
      PROVE  FALSE
  <2>1. PICK j \in 1..Len(s) : 1 < j /\ s[j] = Job("commit", c)
    BY <1>3, <1>5
  <2>2. s[j].kind # "commit"
    BY <2>1, <1>1, <1>5 DEF Ahead
  <2>3. QED
    BY <2>1, <2>2, JobFacts
<1>6. QED
  BY <1>1, <1>2, <1>4, <1>5

(* An operation that is aborted while it is queued behind another. *)
LEMMA WithoutJobs ==
  ASSUME NEW s \in Seq(JobType), NEW x \in JobType, Distinct(s), x.kind # "append",
         NEW q \in 2..Len(s), s[q] = x
  PROVE  /\ Without(s, x) \in Seq(JobType) /\ Within(Without(s, x), s)
         /\ x \notin Elements(Without(s, x))
         /\ Without(s, x) # <<>> /\ Head(Without(s, x)) = Head(s)
<1>1. Without(s, x) \in Seq(JobType) /\ Within(Without(s, x), s)
  BY WithoutWithin
<1>2. Len(s) \in Nat
  BY LenProperties
<1>3. PICK k \in 1..Len(s) :
         /\ s[k] = x
         /\ Without(s, x) \in Seq(JobType) /\ Len(Without(s, x)) = Len(s) - 1
         /\ \A i \in 1..Len(s) - 1 : Without(s, x)[i] = IF i < k THEN s[i] ELSE s[i + 1]
  BY <1>2, WithoutOne
<1> DEFINE t == Without(s, x)
<1> HIDE DEF t
<1>4. k = q
  BY <1>2, <1>3 DEF Distinct
<1>5. ASSUME NEW i \in 1..Len(t)
      PROVE  t[i] # x
  <2>1. i \in 1..Len(s) /\ i + 1 \in 1..Len(s)
    BY <1>2, <1>3 DEF t
  <2>2. s[i] = x => i = k
    BY <2>1, <1>3 DEF Distinct
  <2>3. s[i + 1] = x => i + 1 = k
    BY <2>1, <1>3 DEF Distinct
  <2>4. QED
    BY <2>1, <2>2, <2>3, <1>3 DEF t
<1>6. t[1] = s[1] /\ Len(t) >= 1
  BY <1>2, <1>3, <1>4 DEF t
<1>7. t # <<>> /\ s # <<>>
  BY <1>2, <1>6, EmptySeq
<1>8. Head(t) = t[1] /\ Head(s) = s[1]
  BY <1>1, <1>7, HeadTailProperties DEF t
<1>9. QED
  BY <1>1, <1>5, <1>6, <1>7, <1>8 DEF t, Elements

(* An operation that is queued goes behind all others. *)
LEMMA AppendJobs ==
  ASSUME NEW s \in Seq(JobType), NEW x \in JobType
  PROVE  /\ Append(s, x) \in Seq(JobType) /\ Elements(Append(s, x)) = Elements(s) \cup {x}
         /\ (Distinct(s) /\ (x.kind = "append" \/ x \notin Elements(s)) => Distinct(Append(s, x)))
         /\ \A o : Ahead(s, o) /\ (x.kind # "commit" \/ Job("load", o) \notin Elements(s))
                     => Ahead(Append(s, x), o)
         /\ (s # <<>> => Append(s, x) # <<>> /\ Head(Append(s, x)) = Head(s))
<1>1. /\ Append(s, x) \in Seq(JobType) /\ Len(Append(s, x)) = Len(s) + 1 /\ Len(s) \in Nat
      /\ Append(s, x)[Len(s) + 1] = x
      /\ \A i \in 1..Len(s) : Append(s, x)[i] = s[i]
  BY AppendProperties, LenProperties
<1> DEFINE t == Append(s, x)
<1> HIDE DEF t
<1>2. 1..Len(t) = 1..Len(s) \cup {Len(s) + 1}
  BY <1>1 DEF t
<1>3. t \in Seq(JobType) /\ Elements(t) = Elements(s) \cup {x}
  BY AppendElements DEF t
<1>4. ASSUME Distinct(s), x.kind = "append" \/ x \notin Elements(s)
      PROVE  Distinct(t)
  <2>1. \A i \in 1..Len(s) : t[i] = t[Len(s) + 1] => t[i].kind = "append"
    BY <1>1, <1>4 DEF Elements, t
  <2>2. \A i, j \in 1..Len(s) : t[i] = t[j] /\ t[i].kind # "append" => i = j
    BY <1>1, <1>4 DEF Distinct, t
  <2>3. QED
    BY <2>1, <2>2, <1>2 DEF Distinct
<1>5. ASSUME NEW o, Ahead(s, o), x.kind # "commit" \/ Job("load", o) \notin Elements(s)
      PROVE  Ahead(t, o)
  <2>1. ASSUME NEW i \in 1..Len(t), NEW j \in 1..Len(t), t[i] = Job("load", o), i < j
        PROVE  t[j].kind # "commit"
    <3>1. i \in 1..Len(s) /\ t[i] = s[i]
      BY <2>1, <1>1, <1>2 DEF t
    <3>2. CASE j \in 1..Len(s)
      BY <3>1, <3>2, <2>1, <1>1, <1>5 DEF Ahead, t
    <3>3. CASE j = Len(s) + 1
      BY <3>1, <3>3, <2>1, <1>1, <1>5 DEF Elements, t
    <3>4. QED
      BY <3>2, <3>3, <2>1, <1>2
  <2>2. QED
    BY <2>1 DEF Ahead
<1>6. ASSUME s # <<>> PROVE t # <<>> /\ Head(t) = Head(s)
  <2>1. Len(s) # 0
    BY <1>6, EmptySeq
  <2>2. t # <<>> /\ t[1] = s[1]
    BY <2>1, <1>1, EmptySeq DEF t
  <2>3. QED
    BY <2>2, <1>3, <1>6, HeadTailProperties
<1>7. QED
  BY <1>3, <1>4, <1>5, <1>6 DEF t

(* A chain that stays as it is is part of itself. *)
LEMMA WithinItself ==
  ASSUME NEW S, NEW s \in Seq(S)
  PROVE  Within(s, s)
<1> DEFINE f == [i \in 1..Len(s) |-> i]
<1>1. /\ f \in [1..Len(s) -> 1..Len(s)] /\ (\A i, j \in 1..Len(s) : i < j => f[i] < f[j])
      /\ \A i \in 1..Len(s) : s[i] = s[f[i]]
  OBVIOUS
<1> HIDE DEF f
<1>2. QED
  BY <1>1 DEF Within

-----------------------------------------------------------------------------
(* What the calls' helpers make of the calls. *)
LEMMA IdleType == PoolAssumption => Idle \in CallType /\ Idle.at = "idle"
<1>1. ASSUME PoolAssumption PROVE (CHOOSE id \in Ids : TRUE) \in Ids
  BY <1>1 DEF PoolAssumption
<1>2. QED
  BY <1>1 DEF Idle, CallType

(* One call goes on, to what a call may be. *)
LEMMA CallGoes ==
  ASSUME Calls(call), NEW c \in Callers, NEW r \in CallType,
         r.at \in Referring => r.object \in Objects
  PROVE  /\ Calls([call EXCEPT ![c] = r])
         /\ [call EXCEPT ![c] = r][c] = r
         /\ \A d \in Callers \ {c} : [call EXCEPT ![c] = r][d] = call[d]
BY DEF Calls

(* A call ends. *)
LEMMA CallReturns ==
  ASSUME Calls(call), NEW c \in Callers, PoolAssumption
  PROVE  /\ Calls(Return(c)) /\ Return(c)[c] = Idle
         /\ \A d \in Callers \ {c} : Return(c)[d] = call[d]
BY IdleType, CallGoes DEF Return, Referring

(* A call starts over. *)
LEMMA CallAgain ==
  ASSUME Calls(call), NEW c \in Callers, PoolAssumption
  PROVE  /\ Calls(Again(c)) /\ Again(c)[c].at = "calling"
         /\ \A d \in Callers \ {c} : Again(c)[d] = call[d]
<1> DEFINE r == [Idle EXCEPT !.at = "calling", !.op = call[c].op, !.id = call[c].id]
<1>1. r \in CallType /\ r.at = "calling"
  BY IdleType DEF Calls, CallType
<1> HIDE DEF r
<1>2. Again(c) = [call EXCEPT ![c] = r]
  BY DEF Again, r
<1>3. r.at \notin Referring
  BY <1>1 DEF Referring
<1>4. /\ Calls([call EXCEPT ![c] = r]) /\ [call EXCEPT ![c] = r][c] = r
      /\ \A d \in Callers \ {c} : [call EXCEPT ![c] = r][d] = call[d]
  BY <1>1, <1>3, CallGoes
<1>5. QED
  BY <1>1, <1>2, <1>4

(* settleReservation resumes those who wait for a reservation, and nobody  *)
(* else.                                                                   *)
LEMMA CallWoken ==
  ASSUME NEW now, Calls(now), NEW id \in Ids
  PROVE  /\ Calls(Woken(now, id))
         /\ \A c \in Callers : \/ Woken(now, id)[c] = now[c]
                               \/ now[c].at = "settled" /\ Woken(now, id)[c].at = "woken"
<1> DEFINE W == Woken(now, id)
<1>1. ASSUME NEW c \in Callers
      PROVE  /\ W[c] \in CallType
             /\ W[c].at \in Referring => W[c].object \in Objects
             /\ W[c] = now[c] \/ (now[c].at = "settled" /\ W[c].at = "woken")
  <2>1. now[c] \in CallType /\ (now[c].at \in Referring => now[c].object \in Objects)
    BY DEF Calls
  <2>2. W[c] = IF now[c].at = "settled" /\ now[c].id = id /\ now[c].object = entry[id].object
               THEN [now[c] EXCEPT !.at = "woken"] ELSE now[c]
    BY DEF Woken
  <2> HIDE DEF W
  <2>3. CASE W[c] = now[c]
    BY <2>1, <2>3
  <2>4. CASE now[c].at = "settled" /\ W[c] = [now[c] EXCEPT !.at = "woken"]
    <3>1. W[c] \in CallType /\ W[c].at = "woken" /\ W[c].object = now[c].object
      BY <2>1, <2>4 DEF CallType
    <3>2. now[c].object \in Objects
      BY <2>4 DEF Calls, Referring
    <3>3. QED
      BY <2>4, <3>1, <3>2
  <2>5. QED
    BY <2>2, <2>3, <2>4
<1>2. W \in [Callers -> CallType]
  <2>1. W = [c \in Callers |-> W[c]]
    BY DEF Woken
  <2>2. QED
    BY <2>1, <1>1
<1>3. QED
  BY <1>1, <1>2 DEF Calls

-----------------------------------------------------------------------------
(* Reservations stay as they are while a step lets nobody reserve: who     *)
(* leaves loses the entry, whose entry goes does not hold it yet.          *)
LEMMA HeldKept ==
  ASSUME Held,
         \A c \in Callers : call'[c].at \in HoldAts => call'[c] = call[c],
         \A c \in Callers : call'[c].at \in HoldAts =>
           \/ /\ entry'[call[c].id] = entry[call[c].id]
              /\ Current(call[c].id) => Current(call[c].id)'
           \/ call[c].at = "committing" /\ entry'[call[c].id].object # call[c].object,
         \A id \in Ids : Reserved(id)' =>
           /\ entry'[id] = entry[id]
           /\ \A c \in Callers : Holds(c) /\ call[c].id = id => call'[c] = call[c]
  PROVE  Held'
<1>1. ASSUME NEW c \in Callers, call'[c].at \in HoldAts
      PROVE  Fit(c)' /\ (Holds(c)' => Holds(c) /\ call'[c].id = call[c].id)
  <2>1. call'[c] = call[c] /\ Fit(c)
    BY <1>1 DEF Held
  <2>2. CASE /\ entry'[call[c].id] = entry[call[c].id]
             /\ Current(call[c].id) => Current(call[c].id)'
    BY <2>1, <2>2 DEF Fit, Joined, Holds
  <2>3. CASE call[c].at = "committing" /\ entry'[call[c].id].object # call[c].object
    BY <2>1, <2>3 DEF Fit, Joined, Holds
  <2>4. QED
    BY <1>1, <2>2, <2>3
<1>2. \A c \in Callers : Fit(c)'
  BY <1>1 DEF Fit, HoldAts
<1>3. Sole'
  BY <1>1 DEF Sole, Held, Holds
<1>4. Taken'
  <2>1. ASSUME NEW id \in Ids, Reserved(id)'
        PROVE  \E c \in Callers : Holds(c)' /\ call'[c].id = id
    <3>1. entry'[id] = entry[id] /\ Reserved(id)
      BY <2>1 DEF Reserved
    <3>2. PICK c \in Callers : Holds(c) /\ call[c].id = id
      BY <3>1 DEF Held, Taken
    <3>3. call'[c] = call[c]
      BY <2>1, <3>2
    <3>4. Holds(c)' /\ call'[c].id = id
      BY <3>1, <3>2, <3>3 DEF Holds, Joined
    <3>5. QED
      BY <3>4
  <2>2. QED
    BY <2>1 DEF Taken
<1>5. QED
  BY <1>2, <1>3, <1>4 DEF Held

(* The same of what the operations of the chains have to do with the calls. *)
LEMMA CommitsKept ==
  ASSUME Commits,
         \A id \in Ids, c \in Callers : Job("commit", c) \in Jobs(id)' =>
           /\ Job("commit", c) \in Jobs(id) /\ call'[c] = call[c]
           /\ entry'[id].phase \notin {"none", "loading"} =>
                entry[id].phase \notin {"none", "loading"} /\ entry'[id].object = entry[id].object
  PROVE  Commits'
BY DEF Commits, Joined

(* The checks that are queued belong to calls that still wait for them. *)
LEMMA ChecksKept ==
  ASSUME Checks,
         \A id \in Ids, c \in Callers : Job("check", c) \in Jobs(id)' =>
           Job("check", c) \in Jobs(id) /\ call'[c] = call[c]
  PROVE  Checks'
BY DEF Checks

(* No operation is queued, and no entry loads that did not. *)
LEMMA QueuedKept ==
  ASSUME Queued, Chains', PoolAssumption,
         \A id \in Ids : Within(chain'[id], chain[id]),
         \A id \in Ids : entry'[id].object \in {entry[id].object, NoObject},
         \A id \in Ids : running'[id] # "none" => First(id, "append")',
         \A id \in Ids : Job("retire", NoObject) \in Jobs(id)' => owner'[id] = "retiring",
         \A id \in Ids : Job("load", entry[id].object) \in Jobs(id)' =>
           entry'[id].phase = "loading" \/ entry'[id].object = NoObject
  PROVE  Queued'
<1>1. ASSUME NEW id \in Ids
      PROVE  /\ Distinct(chain'[id]) /\ Ahead(chain'[id], entry'[id].object)
             /\ (Job("load", entry'[id].object) \in Jobs(id)' => entry'[id].phase = "loading")
  <2>1. Distinct(chain'[id]) /\ Ahead(chain'[id], entry[id].object)
    BY WithinOrder DEF Queued
  <2>2. chain'[id] \in Seq(JobType) /\ Jobs(id)' = Elements(chain'[id])
    BY DEF Chains, Jobs, Elements
  <2>3. Job("load", NoObject) \notin Elements(chain'[id])
    BY <2>2, NoLoad
  <2>4. Ahead(chain'[id], NoObject)
    BY <2>3 DEF Ahead, Elements
  <2>5. QED
    BY <2>1, <2>2, <2>3, <2>4
<1>2. QED
  BY <1>1 DEF Queued

(* A call that commits or holds loses its entry, or never was its holder. *)
LEMMA Loses ==
  ASSUME Types, Held, PoolAssumption, NEW c \in Callers, call[c].at \in HoldAts,
         NEW o \in {entry[call[c].id].object, NoObject},
         \/ ~Reserved(call[c].id)
         \/ \E d \in Callers \ {c} : Holds(d) /\ call[d].id = call[c].id
         \/ o = NoObject /\ ~Current(call[c].id)
  PROVE  call[c].at = "committing" /\ o # call[c].object
<1>1. call[c].object \in Objects /\ call[c].object # NoObject
  BY DEF Types, Calls, HoldAts, Referring, PoolAssumption
<1>2. Fit(c) /\ Sole
  BY DEF Held
<1>3. CASE ~Reserved(call[c].id)
  BY <1>1, <1>2, <1>3 DEF Fit, Joined, Reserved, HoldAts
<1>4. CASE \E d \in Callers \ {c} : Holds(d) /\ call[d].id = call[c].id
  <2>1. ~Joined(c)
    BY <1>2, <1>4 DEF Sole, Holds
  <2>2. QED
    BY <1>1, <1>2, <2>1 DEF Fit, Joined, HoldAts
<1>5. CASE o = NoObject /\ ~Current(call[c].id)
  BY <1>1, <1>2, <1>5 DEF Fit, HoldAts
<1>6. QED
  BY <1>3, <1>4, <1>5

SameState(id) ==
  owner'[id] = owner[id] /\ own'[id] = own[id] /\ cursor'[id] = cursor[id] /\ running'[id] = running[id]
Shrinks(except) ==
  \A id \in Ids \ {except} :
    entry'[id] = entry[id] \/ (entry[id].phase = "ready" /\ entry'[id] = NoEntry)

(* Nothing is reserved of an id after the step: its holder left, or there *)
(* was none, or what it reserved is invalidated before its commit is done. *)
LEMMA HeldLeaves ==
  ASSUME Types, Held, PoolAssumption, NEW only \in Ids,
         \A c \in Callers : call'[c].at \in HoldAts => call'[c] = call[c],
         \A c \in Callers : Holds(c) => call'[c] = call[c] \/ call[c].id = only,
         \A id \in Ids \ {only} : SameState(id),
         Shrinks(only),
         ~Reserved(only)', entry'[only].object \in {entry[only].object, NoObject},
         \A c \in Callers : call[c].id = only /\ call'[c].at \in HoldAts =>
           \/ ~Reserved(only)
           \/ \E d \in Callers \ {c} : Holds(d) /\ call[d].id = only
           \/ entry'[only].object = NoObject /\ ~Current(only)
  PROVE  Held'
<1>1. ASSUME NEW c \in Callers, call'[c].at \in HoldAts
      PROVE  \/ /\ entry'[call[c].id] = entry[call[c].id]
                /\ Current(call[c].id) => Current(call[c].id)'
             \/ call[c].at = "committing" /\ entry'[call[c].id].object # call[c].object
  <2>1. call[c].at \in HoldAts /\ call[c].id \in Ids /\ call'[c] = call[c]
    <3>1. call'[c] = call[c]
      BY <1>1
    <3>2. call[c] \in CallType
      BY DEF Types, Calls
    <3>3. QED
      BY <1>1, <3>1, <3>2 DEF CallType
  <2>2. CASE call[c].id = only
    <3>1. \/ ~Reserved(call[c].id)
          \/ \E d \in Callers \ {c} : Holds(d) /\ call[d].id = call[c].id
          \/ entry'[only].object = NoObject /\ ~Current(call[c].id)
      BY <2>2, <1>1
    <3>2. entry'[only].object \in {entry[call[c].id].object, NoObject}
      BY <2>2
    <3>3. call[c].at = "committing" /\ entry'[only].object # call[c].object
      BY <2>1, <3>1, <3>2, Loses
    <3>4. QED
      BY <2>2, <3>3
  <2>3. CASE call[c].id # only /\ entry'[call[c].id] = entry[call[c].id]
    <3>1. SameState(call[c].id)
      BY <2>1, <2>3
    <3>2. QED
      BY <2>1, <2>3, <3>1 DEF SameState, Current
  <2>4. CASE call[c].id # only /\ entry[call[c].id].phase = "ready" /\ entry'[call[c].id] = NoEntry
    <3>1. ~Reserved(call[c].id)
      BY <2>4 DEF Reserved
    <3>2. call[c].at = "committing" /\ NoObject # call[c].object
      BY <2>1, <3>1, Loses
    <3>3. QED
      BY <2>4, <3>2, NoEntryType
  <2>5. QED
    BY <2>1, <2>2, <2>3, <2>4 DEF Shrinks
<1>2. ASSUME NEW id \in Ids, Reserved(id)'
      PROVE  /\ entry'[id] = entry[id]
             /\ \A c \in Callers : Holds(c) /\ call[c].id = id => call'[c] = call[c]
  <2>1. id # only
    BY <1>2
  <2>2. entry'[id] # NoEntry
    BY <1>2, NoEntryType DEF Reserved
  <2>3. QED
    BY <2>1, <2>2 DEF Shrinks
<1>3. QED
  BY <1>1, <1>2, HeldKept

(* A call that does not wait for a commit has none in a chain. *)
LEMMA NoCommit ==
  ASSUME Commits, NEW c \in Callers,
         call[c].at # "committing" \/ call[c].outcome \notin {"pending", "repair"}
  PROVE  \A id \in Ids : Job("commit", c) \notin Jobs(id)
BY DEF Commits

(* A call that does not wait for a check has none in a chain. *)
LEMMA NoCheck ==
  ASSUME Checks, NEW c \in Callers, call[c].at # "checking" \/ call[c].outcome # "pending"
  PROVE  \A id \in Ids : Job("check", c) \notin Jobs(id)
BY DEF Checks

-----------------------------------------------------------------------------
(* A call goes on that has no operation in a chain and holds nothing. *)
LEMMA CallMoves ==
  ASSUME IInv, UNCHANGED <<logVars, stateVars, chainVars, pool>>, Calls(call'),
         NEW c \in Callers, \A d \in Callers \ {c} : call'[d] = call[d],
         call'[c].at \notin HoldAts, ~Holds(c),
         \A id \in Ids : Job("commit", c) \notin Jobs(id) /\ Job("check", c) \notin Jobs(id)
  PROVE  IInv'
<1> USE DEF IInv
<1>1. Types'
  BY DEF Types, Logs, States, Chains, Entries, logVars, stateVars, chainVars, pool
<1>3. Queued'
  BY DEF Queued, First, Jobs, chainVars, stateVars, pool
<1>4. Commits'
  BY CommitsKept DEF Jobs, chainVars, pool
<1>5. Checks'
  BY ChecksKept DEF Jobs, chainVars
<1>6. Held'
  <2>1. \A d \in Callers : call'[d].at \in HoldAts => call'[d] = call[d]
    OBVIOUS
  <2>2. \A d \in Callers : Holds(d) => call'[d] = call[d]
    OBVIOUS
  <2>3. entry' = entry
    BY DEF pool
  <2>4. \A id : Current(id)' = Current(id)
    BY DEF Current, pool, stateVars, logVars, chainVars
  <2>5. QED
    BY <2>1, <2>2, <2>3, <2>4, HeldKept
<1>7. QED
  BY <1>1, <1>3, <1>4, <1>5, <1>6

(* Call: a call arrives. *)
LEMMA CallStep ==
  ASSUME IInv, PoolAssumption, NEW c \in Callers, Call(c)
  PROVE  IInv'
<1>1. PICK op \in {"prepare", "load", "inspect"}, id \in Ids :
        call' = [call EXCEPT ![c] = [Idle EXCEPT !.at = "calling", !.op = op, !.id = id]]
  BY DEF Call
<1> DEFINE r == [Idle EXCEPT !.at = "calling", !.op = op, !.id = id]
<1>2. r \in CallType /\ r.at = "calling"
  BY IdleType DEF CallType
<1> HIDE DEF r
<1>3. r.at \notin Referring /\ r.at \notin HoldAts
  BY <1>2 DEF Referring, HoldAts
<1>4. call' = [call EXCEPT ![c] = r]
  BY <1>1 DEF r
<1>5. Calls(call') /\ call'[c] = r /\ \A d \in Callers \ {c} : call'[d] = call[d]
  <2>1. /\ Calls([call EXCEPT ![c] = r]) /\ [call EXCEPT ![c] = r][c] = r
        /\ \A d \in Callers \ {c} : [call EXCEPT ![c] = r][d] = call[d]
    BY <1>2, <1>3, CallGoes DEF IInv, Types
  <2>2. QED
    BY <1>4, <2>1
<1>6. /\ call[c].at = "idle" /\ UNCHANGED <<logVars, stateVars, chainVars, pool>>
  BY DEF Call
<1>7. ~Holds(c)
  BY <1>6 DEF Holds, HoldAts
<1>8. \A i \in Ids : Job("commit", c) \notin Jobs(i) /\ Job("check", c) \notin Jobs(i)
  BY <1>6, NoCommit, NoCheck DEF IInv
<1>9. QED
  BY <1>3, <1>5, <1>6, <1>7, <1>8, CallMoves

(* CallMoves, where the call changes by an assignment. *)
LEMMA CallBecomes ==
  ASSUME IInv, UNCHANGED <<logVars, stateVars, chainVars, pool>>, NEW c \in Callers,
         NEW r \in CallType, r.at \in Referring => r.object \in Objects,
         call' = [call EXCEPT ![c] = r], r.at \notin HoldAts, ~Holds(c),
         \A id \in Ids : Job("commit", c) \notin Jobs(id) /\ Job("check", c) \notin Jobs(id)
  PROVE  IInv'
<1>1. Calls(call)
  BY DEF IInv, Types
<1>2. call' \in [Callers -> CallType] /\ call'[c] = r /\ \A d \in Callers \ {c} : call'[d] = call[d]
  BY <1>1 DEF Calls
<1>3. Calls(call')
  BY <1>1, <1>2 DEF Calls
<1>4. QED
  BY <1>2, <1>3, CallMoves

(* An operation enters a chain. *)
LEMMA QueueFacts ==
  ASSUME Chains, Queued, NEW id \in Ids, NEW job \in JobType, Queue(id, job),
         job.kind = "append" \/ job \notin Jobs(id)
  PROVE  /\ Chains' /\ \A i \in Ids : Distinct(chain'[i])
         /\ \A i \in Ids \ {id} : chain'[i] = chain[i] /\ Jobs(i)' = Jobs(i)
         /\ Jobs(id)' = Jobs(id) \cup {job}
         /\ \A i \in Ids, k \in {"append"} : First(i, k) => First(i, k)'
         /\ \A o : Ahead(chain[id], o) /\ (job.kind # "commit" \/ Job("load", o) \notin Jobs(id))
                     => Ahead(chain'[id], o)
<1>1. chain[id] \in Seq(JobType) /\ Distinct(chain[id]) /\ Jobs(id) = Elements(chain[id])
  BY DEF Chains, Queued, Jobs, Elements
<1>2. chain' = [chain EXCEPT ![id] = Append(chain[id], job)]
  BY DEF Queue
<1> DEFINE t == Append(chain[id], job)
<1>3. /\ t \in Seq(JobType) /\ Elements(t) = Elements(chain[id]) \cup {job}
      /\ Distinct(t)
      /\ \A o : Ahead(chain[id], o) /\ (job.kind # "commit" \/ Job("load", o) \notin Elements(chain[id]))
                  => Ahead(t, o)
      /\ (chain[id] # <<>> => t # <<>> /\ Head(t) = Head(chain[id]))
  BY <1>1, AppendJobs
<1> HIDE DEF t
<1>4. chain' \in [Ids -> Seq(JobType)] /\ chain'[id] = t /\ \A i \in Ids \ {id} : chain'[i] = chain[i]
  BY <1>2, <1>3 DEF Chains, t
<1>5. Jobs(id)' = Elements(t) /\ \A i \in Ids \ {id} : Jobs(i)' = Jobs(i)
  BY <1>4 DEF Jobs, Elements
<1>6. \A i \in Ids, k \in {"append"} : First(i, k) => First(i, k)'
  BY <1>3, <1>4 DEF First
<1>7. \A i \in Ids : Distinct(chain'[i])
  BY <1>3, <1>4 DEF Queued
<1>8. QED
  BY <1>1, <1>3, <1>4, <1>5, <1>6, <1>7 DEF Chains

(* An operation other than a load enters a chain. *)
LEMMA QueuedGrows ==
  ASSUME Chains, Queued, PoolAssumption, NEW id \in Ids, NEW job \in JobType, Queue(id, job),
         job.kind = "append" \/ job \notin Jobs(id), job.kind # "load",
         job.kind = "commit" => Job("load", entry[id].object) \notin Jobs(id),
         running' = running,
         \A i \in Ids : entry'[i].object \in {entry[i].object, NoObject},
         \A i \in Ids : entry[i].phase = "loading" =>
           entry'[i].phase = "loading" \/ entry'[i].object = NoObject,
         \A i \in Ids : Job("retire", NoObject) \in Jobs(i)' => owner'[i] = "retiring"
  PROVE  Queued'
<1>1. /\ Chains' /\ \A i \in Ids : Distinct(chain'[i])
      /\ \A i \in Ids \ {id} : chain'[i] = chain[i] /\ Jobs(i)' = Jobs(i)
      /\ Jobs(id)' = Jobs(id) \cup {job}
      /\ \A i \in Ids, k \in {"append"} : First(i, k) => First(i, k)'
      /\ \A o : Ahead(chain[id], o) /\ (job.kind # "commit" \/ Job("load", o) \notin Jobs(id))
                  => Ahead(chain'[id], o)
  BY QueueFacts
<1>2. \A o : job # Job("load", o)
  BY JobFacts
<1>3. ASSUME NEW i \in Ids
      PROVE  /\ Ahead(chain'[i], entry'[i].object)
             /\ (Job("load", entry'[i].object) \in Jobs(i)' => entry'[i].phase = "loading")
  <2>1. Ahead(chain'[i], entry[i].object)
    BY <1>1 DEF Queued
  <2>2. chain'[i] \in Seq(JobType) /\ Jobs(i)' = Elements(chain'[i])
    BY <1>1 DEF Chains, Jobs, Elements
  <2>3. Job("load", NoObject) \notin Elements(chain'[i])
    BY <2>2, NoLoad
  <2>4. Ahead(chain'[i], NoObject)
    BY <2>3 DEF Ahead, Elements
  <2>5. Job("load", entry[i].object) \in Jobs(i)' => entry[i].phase = "loading"
    BY <1>1, <1>2 DEF Queued
  <2>6. QED
    BY <2>1, <2>2, <2>3, <2>4, <2>5
<1>4. QED
  BY <1>1, <1>3 DEF Queued

(* The operation at the head of a chain settles. *)
LEMMA PopFacts ==
  ASSUME Chains, Queued, NEW id \in Ids, NEW kind, First(id, kind), Pop(id)
  PROVE  /\ Chains' /\ \A i \in Ids : Within(chain'[i], chain[i]) /\ Jobs(i)' \subseteq Jobs(i)
         /\ \A i \in Ids \ {id} : chain'[i] = chain[i]
         /\ Head(chain[id]) \in JobType /\ Head(chain[id]) \in Jobs(id)
         /\ Head(chain[id]).kind = kind
         /\ (kind # "append" => Head(chain[id]) \notin Jobs(id)')
         /\ (kind # "append" => \A i \in Ids : running[i] # "none" => First(i, "append")')
         /\ (Head(chain[id]) = Job("load", entry[id].object) =>
               \A c \in Callers : Job("commit", c) \notin Jobs(id)')
<1>1. chain[id] \in Seq(JobType) /\ chain[id] # <<>> /\ Jobs(id) = Elements(chain[id])
      /\ Head(chain[id]).kind = kind /\ Distinct(chain[id]) /\ Ahead(chain[id], entry[id].object)
  BY DEF Chains, First, Jobs, Elements, Queued
<1> DEFINE t == Tail(chain[id])
<1>2. /\ t \in Seq(JobType) /\ Head(chain[id]) \in JobType /\ Head(chain[id]) \in Elements(chain[id])
      /\ Within(t, chain[id]) /\ Elements(t) \subseteq Elements(chain[id])
      /\ (kind # "append" => Head(chain[id]) \notin Elements(t))
      /\ (Head(chain[id]) = Job("load", entry[id].object) =>
            \A c \in Callers : Job("commit", c) \notin Elements(t))
  BY <1>1, TailJobs
<1>3. chain' = [chain EXCEPT ![id] = t]
  BY DEF Pop
<1> HIDE DEF t
<1>4. chain' \in [Ids -> Seq(JobType)] /\ chain'[id] = t /\ \A i \in Ids \ {id} : chain'[i] = chain[i]
  BY <1>2, <1>3 DEF Chains
<1>5. Jobs(id)' = Elements(t) /\ \A i \in Ids \ {id} : Jobs(i)' = Jobs(i)
  BY <1>4 DEF Jobs, Elements
<1>6. \A i \in Ids \ {id} : Within(chain'[i], chain[i])
  BY <1>4, WithinItself DEF Chains
<1>7. ASSUME kind # "append", NEW i \in Ids, running[i] # "none"
      PROVE  First(i, "append")'
  <2>1. First(i, "append")
    BY <1>7 DEF Queued
  <2>2. i # id
    BY <2>1, <1>1, <1>7 DEF First
  <2>3. QED
    BY <2>1, <2>2, <1>4 DEF First
<1>8. QED
  BY <1>1, <1>2, <1>4, <1>5, <1>6, <1>7 DEF Chains

(* Join: a call shares the entry there is, or makes one whose load is      *)
(* queued; a fresh object is none that a call or a load still refers to.   *)
LEMMA JoinStep ==
  ASSUME IInv, PoolAssumption, NEW c \in Callers, Join(c)
  PROVE  IInv'
<1>0. call[c] \in CallType /\ call[c].id \in Ids
  BY DEF IInv, Types, Calls, CallType
<1> PICK id \in Ids : id = call[c].id
  BY <1>0
<1> PICK fresh : fresh = CHOOSE o \in Unused(id) : TRUE
  OBVIOUS
<1> DEFINE e == [NoEntry EXCEPT !.phase = "loading", !.object = fresh]
<1>1. /\ id \in Ids /\ call[c] \in CallType /\ call[c].at = "calling" /\ id = call[c].id
      /\ UNCHANGED <<logVars, stateVars, running>>
  BY <1>0 DEF Join
<1>2. /\ ~Holds(c)
      /\ \A i \in Ids : Job("commit", c) \notin Jobs(i) /\ Job("check", c) \notin Jobs(i)
  BY <1>1, NoCommit, NoCheck DEF IInv, Holds, HoldAts
<1>3. CASE call' = Return(c) /\ UNCHANGED <<pool, chain>>
  <2>1. UNCHANGED <<logVars, stateVars, chainVars, pool>>
    BY <1>1, <1>3 DEF chainVars
  <2>2. Idle \in CallType /\ Idle.at \notin Referring /\ Idle.at \notin HoldAts
    BY IdleType DEF Referring, HoldAts
  <2>3. QED
    BY <1>2, <1>3, <2>1, <2>2, CallBecomes DEF Return
<1>4. CASE /\ entry[id].phase # "none"
           /\ call' = [call EXCEPT ![c].object = entry[id].object, ![c].rev = entry[id].rev,
                         ![c].at = IF entry[id].phase = "loading" THEN "result" ELSE "loaded"]
           /\ UNCHANGED <<pool, chain>>
  <2>1. UNCHANGED <<logVars, stateVars, chainVars, pool>>
    BY <1>1, <1>4 DEF chainVars
  <2> DEFINE r == [call[c] EXCEPT !.object = entry[id].object, !.rev = entry[id].rev,
                     !.at = IF entry[id].phase = "loading" THEN "result" ELSE "loaded"]
  <2>2. entry[id] \in EntryType /\ entry[id].object # NoObject
    BY <1>1, <1>4 DEF IInv, Types, Entries, Pool
  <2>3. /\ r.at \in {"result", "loaded"} /\ r.object = entry[id].object
    BY <1>1 DEF CallType
  <2>4. r \in CallType
    BY <1>1, <2>2 DEF CallType, EntryType
  <2>5. call' = [call EXCEPT ![c] = r]
    BY <1>4 DEF IInv, Types, Calls
  <2> HIDE DEF r
  <2>6. r.object \in Objects /\ r.at \notin HoldAts
    BY <2>2, <2>3 DEF EntryType, HoldAts
  <2>7. QED
    BY <1>2, <2>1, <2>4, <2>5, <2>6, CallBecomes
<1>5. CASE /\ entry[id].phase = "none" /\ Unused(id) # {}
           /\ entry' = [entry EXCEPT ![id] = e] /\ order' = Append(order, id)
           /\ Queue(id, Job("load", fresh))
           /\ call' = [call EXCEPT ![c].at = "result", ![c].object = fresh]
  <2>1. /\ fresh \in Objects /\ fresh # NoObject /\ Job("load", fresh) \notin Jobs(id)
        /\ \A d \in Callers : call[d].id = id => call[d].object # fresh
    BY <1>5 DEF Unused, PoolAssumption
  <2>2. e \in EntryType /\ e.phase = "loading" /\ e.object = fresh
    BY <2>1 DEF EntryType, NoEntry
  <2> HIDE DEF e
  <2>3. entry \in [Ids -> EntryType] /\ Pool(order, entry) /\ Bounded(entry)
    BY DEF IInv, Types, Entries, Pool
  <2>4. entry'[id] = e /\ \A i \in Ids \ {id} : entry'[i] = entry[i]
    BY <1>1, <1>5, <2>3
  <2> DEFINE r == [call[c] EXCEPT !.at = "result", !.object = fresh]
  <2>5. r.at = "result" /\ r.object = fresh /\ r.id = id
    BY <1>1 DEF CallType
  <2>6. r \in CallType
    BY <1>1, <2>1 DEF CallType
  <2>7. call' = [call EXCEPT ![c] = r]
    BY <1>5 DEF IInv, Types, Calls
  <2> HIDE DEF r
  <2>8. Calls(call') /\ call'[c] = r /\ \A d \in Callers \ {c} : call'[d] = call[d]
    <3>1. /\ Calls([call EXCEPT ![c] = r]) /\ [call EXCEPT ![c] = r][c] = r
          /\ \A d \in Callers \ {c} : [call EXCEPT ![c] = r][d] = call[d]
      <4>1. Calls(call) /\ r.object \in Objects
        BY <2>1, <2>5 DEF IInv, Types
      <4>2. QED
        BY <4>1, <2>6, CallGoes
    <3>2. QED
      BY <2>7, <3>1
  <2>9. Entries'
    <3>1. Pool(order', entry')
      BY <1>1, <1>5, <2>1, <2>2, <2>3, AppendKeeps
    <3>2. ReadyIds(entry') = ReadyIds(entry)
      BY <1>1, <1>5, <2>2, <2>4 DEF ReadyIds
    <3>3. QED
      BY <2>3, <3>1, <3>2 DEF Entries, Bounded
  <2> DEFINE job == Job("load", fresh)
  <2>10. job \in JobType /\ job.kind = "load"
    BY <2>1, JobsMade, JobFacts
  <2>20. Queue(id, job) /\ job \notin Jobs(id)
    BY <1>5, <2>1
  <2>21. Chains /\ Queued
    BY DEF IInv, Types
  <2>22. job # Job("retire", NoObject) /\ \A d : job # Job("commit", d) /\ job # Job("check", d)
    BY <2>10, JobFacts
  <2> HIDE DEF job
  <2>11. /\ Chains' /\ \A i \in Ids : Distinct(chain'[i])
         /\ \A i \in Ids \ {id} : chain'[i] = chain[i] /\ Jobs(i)' = Jobs(i)
         /\ Jobs(id)' = Jobs(id) \cup {job}
         /\ \A i \in Ids, k \in {"append"} : First(i, k) => First(i, k)'
         /\ \A o : Ahead(chain[id], o) /\ (job.kind # "commit" \/ Job("load", o) \notin Jobs(id))
                     => Ahead(chain'[id], o)
    BY <1>1, <2>10, <2>20, <2>21, QueueFacts
  <2>12. Types'
    BY <1>1, <2>8, <2>9, <2>11 DEF IInv, Types, Logs, States, logVars, stateVars
  <2>13. Queued'
    <3>1. Ahead(chain[id], fresh)
      BY <2>1 DEF Ahead, Jobs
    <3>2. Ahead(chain'[id], entry'[id].object)
      BY <3>1, <2>2, <2>4, <2>10, <2>11
    <3>3. \A i \in Ids : Job("retire", NoObject) \in Jobs(i)' => Job("retire", NoObject) \in Jobs(i)
      BY <2>11, <2>22
    <3>4. ASSUME NEW i \in Ids \ {id}
          PROVE  /\ Ahead(chain'[i], entry'[i].object)
                 /\ Job("load", entry'[i].object) \in Jobs(i)' => entry'[i].phase = "loading"
      BY <2>4, <2>11 DEF IInv, Queued
    <3>5. running' = running /\ owner' = owner
      BY <1>1 DEF stateVars
    <3>6. ASSUME NEW i \in Ids
          PROVE  /\ Distinct(chain'[i]) /\ Ahead(chain'[i], entry'[i].object)
                 /\ running'[i] # "none" => First(i, "append")'
                 /\ Job("retire", NoObject) \in Jobs(i)' => owner'[i] = "retiring"
                 /\ Job("load", entry'[i].object) \in Jobs(i)' => entry'[i].phase = "loading"
      BY <2>2, <2>4, <2>11, <3>2, <3>3, <3>4, <3>5 DEF Queued, IInv
    <3>7. QED
      BY <3>6 DEF Queued
  <2>14. \A i \in Ids, d \in Callers : /\ Job("commit", d) \in Jobs(i)' => Job("commit", d) \in Jobs(i)
                                       /\ Job("check", d) \in Jobs(i)' => Job("check", d) \in Jobs(i)
    BY <2>11, <2>22
  <2>15. Commits'
    BY <1>2, <2>2, <2>4, <2>8, <2>14, CommitsKept DEF IInv
  <2>16. Checks'
    BY <1>2, <2>8, <2>14, ChecksKept DEF IInv
  <2>17. Held'
    <3>1. \A d \in Callers : call'[d].at \in HoldAts => d # c /\ call'[d] = call[d]
      BY <2>5, <2>8 DEF HoldAts
    <3>2. ASSUME NEW d \in Callers, call'[d].at \in HoldAts
          PROVE  \/ /\ entry'[call[d].id] = entry[call[d].id]
                    /\ Current(call[d].id) => Current(call[d].id)'
                 \/ call[d].at = "committing" /\ entry'[call[d].id].object # call[d].object
      <4>1. call'[d] = call[d] /\ call[d].id \in Ids
        BY <3>1, <3>2 DEF IInv, Types, Calls, CallType
      <4>2. CASE call[d].id = id
        <5>1. ~Reserved(id)
          BY <1>5 DEF Reserved
        <5>2. call[d].at = "committing"
          BY <3>2, <4>1, <4>2, <5>1, Loses DEF IInv
        <5>3. entry'[id].object # call[d].object
          BY <4>2, <2>1, <2>2, <2>4
        <5>4. QED
          BY <4>2, <5>2, <5>3
      <4>3. CASE call[d].id # id
        <5>1. entry'[call[d].id] = entry[call[d].id]
          BY <4>1, <4>3, <2>4
        <5>2. Current(call[d].id) => Current(call[d].id)'
          BY <1>1, <4>1, <5>1 DEF Current, logVars, stateVars
        <5>3. QED
          BY <5>1, <5>2
      <4>4. QED
        BY <4>2, <4>3
    <3>3. \A i \in Ids : Reserved(i)' => entry'[i] = entry[i]
      BY <2>2, <2>4 DEF Reserved
    <3>4. \A d \in Callers : Holds(d) => call'[d] = call[d]
      BY <1>2, <2>8
    <3>5. QED
      BY <3>1, <3>2, <3>3, <3>4, HeldKept DEF IInv
  <2>18. QED
    BY <2>12, <2>13, <2>15, <2>16, <2>17 DEF IInv
<1>6. QED
  BY <1>1, <1>3, <1>4, <1>5 DEF Join

(* No entry changes, and no reservation is disturbed. *)
LEMMA HeldStill ==
  ASSUME Held, entry' = entry,
         \A c \in Callers : call'[c].at \in HoldAts => call'[c] = call[c] /\ call[c].id \in Ids,
         \A c \in Callers : Holds(c) => call'[c] = call[c],
         \A id \in Ids : Reserved(id) /\ Current(id) => Current(id)'
  PROVE  Held'
<1>1. ASSUME NEW c \in Callers, call'[c].at \in HoldAts
      PROVE  \/ /\ entry'[call[c].id] = entry[call[c].id]
                /\ Current(call[c].id) => Current(call[c].id)'
             \/ call[c].at = "committing" /\ entry'[call[c].id].object # call[c].object
  <2>1. call'[c] = call[c] /\ call[c].id \in Ids /\ call[c].at \in HoldAts /\ Fit(c)
    BY <1>1 DEF Held
  <2>2. CASE Joined(c)
    <3>1. Reserved(call[c].id)
      BY <2>1, <2>2 DEF Fit, Reserved, HoldAts
    <3>2. PICK id \in Ids : id = call[c].id
      BY <2>1
    <3>3. Current(id) => Current(id)'
      BY <3>1, <3>2
    <3>4. call[c].id = id /\ call'[c].id = id
      BY <2>1, <3>2
    <3>5. QED
      BY <3>3, <3>4 DEF Current
  <2>3. CASE ~Joined(c)
    BY <2>1, <2>3 DEF Fit, Joined, HoldAts
  <2>4. QED
    BY <2>2, <2>3
<1>2. \A id \in Ids : Reserved(id)' => entry'[id] = entry[id]
  OBVIOUS
<1>3. QED
  BY <1>1, <1>2, HeldKept

(* LoadSettles: the entry becomes ready, which may evict another, or goes; *)
(* nobody has reserved it while it was loading.                            *)
LEMMA LoadSettlesStep ==
  ASSUME IInv, PoolAssumption, NEW id \in Ids, LoadSettles(id)
  PROVE  IInv'
<1>0. Logs /\ States /\ Chains /\ Calls(call) /\ Entries /\ Queued /\ Commits /\ Checks /\ Held /\ Types
  BY DEF IInv, Types
<1> PICK o : o = Head(chain[id]).by
  OBVIOUS
<1> DEFINE waiting == {c \in Callers : call[c].at = "result" /\ call[c].id = id /\ call[c].object = o}
<1>1. /\ First(id, "load") /\ Pop(id) /\ o = Head(chain[id]).by
      /\ UNCHANGED <<logVars, stateVars, running, calls, writes>>
  BY DEF LoadSettles
<1>2. /\ Chains' /\ \A i \in Ids : Within(chain'[i], chain[i]) /\ Jobs(i)' \subseteq Jobs(i)
      /\ \A i \in Ids \ {id} : chain'[i] = chain[i]
      /\ Head(chain[id]) \in JobType /\ Head(chain[id]) \in Jobs(id)
      /\ Head(chain[id]).kind = "load"
      /\ Head(chain[id]) \notin Jobs(id)'
      /\ \A i \in Ids : running[i] # "none" => First(i, "append")'
      /\ (Head(chain[id]) = Job("load", entry[id].object) =>
            \A c \in Callers : Job("commit", c) \notin Jobs(id)')
  BY <1>0, <1>1, PopFacts
<1>3. Head(chain[id]) = Job("load", o)
  BY <1>1, <1>2, JobKinds
<1>4. entry[id].object = o => entry[id].phase = "loading"
  BY <1>0, <1>2, <1>3 DEF Queued
<1>5. entry \in [Ids -> EntryType] /\ Pool(order, entry) /\ Bounded(entry)
  <2>1. Pool(order, entry) /\ Bounded(entry)
    BY <1>0 DEF Entries
  <2>2. entry \in [Ids -> EntryType]
    BY <2>1, Zenon DEF Pool
  <2>3. QED
    BY <2>1, <2>2
<1>6. /\ Calls(call') /\ \A c \in Callers \ waiting : call'[c] = call[c]
      /\ \A c \in waiting : call'[c].at \in {"idle", "loaded"}
  <2>1. CASE call' = [c \in Callers |-> IF c \in waiting THEN Idle ELSE call[c]]
    <3>1. Idle \in CallType /\ Idle.at = "idle"
      BY IdleType
    <3>2. Idle.at \notin Referring
      BY <3>1 DEF Referring
    <3>3. QED
      BY <1>0, <2>1, <3>1, <3>2 DEF Calls
  <2>2. CASE call' = [c \in Callers |->
                        IF c \in waiting THEN [call[c] EXCEPT !.at = "loaded", !.rev = stored[id]]
                                         ELSE call[c]]
    <3>1. ASSUME NEW c \in waiting
          PROVE  /\ call'[c] = [call[c] EXCEPT !.at = "loaded", !.rev = stored[id]]
                 /\ call[c] \in CallType /\ call[c].object \in Objects /\ stored[id] \in Nat
      BY <1>0, <2>2 DEF Calls, Logs, Referring
    <3>2. ASSUME NEW c \in waiting
          PROVE  call'[c] \in CallType /\ call'[c].at = "loaded" /\ call'[c].object = call[c].object
      <4>1. call'[c].at = "loaded" /\ call'[c].object = call[c].object
        BY <3>1 DEF CallType
      <4>2. [call[c] EXCEPT !.at = "loaded", !.rev = stored[id]] \in CallType
        BY <3>1 DEF CallType
      <4>3. QED
        BY <3>1, <4>1, <4>2
    <3>3. \A c \in Callers \ waiting : call'[c] = call[c]
      BY <2>2
    <3>4. call' \in [Callers -> CallType]
      <4>1. call' = [c \in Callers |-> call'[c]]
        BY <2>2
      <4>2. QED
        BY <1>0, <4>1, <3>2, <3>3 DEF Calls
    <3>5. QED
      BY <1>0, <3>1, <3>2, <3>3, <3>4 DEF Calls
  <2>3. QED
    BY <2>1, <2>2 DEF LoadSettles
<1>7. /\ Entries' /\ Shrinks(id)
      /\ \/ UNCHANGED pool
         \/ /\ entry[id].object = o /\ entry'[id].object \in {o, NoObject}
            /\ entry'[id].phase \in {"none", "ready"}
  <2>1. CASE UNCHANGED pool
    BY <1>0, <2>1 DEF Entries, pool, Shrinks
  <2>2. CASE /\ entry[id].object = o
             /\ order' = Without(order, id) /\ entry' = [entry EXCEPT ![id] = NoEntry]
    <3>1. Pool(order', entry')
      BY <1>5, <2>2, RemoveKeeps
    <3>2. entry'[id] = NoEntry /\ \A i \in Ids \ {id} : entry'[i] = entry[i]
      BY <1>5, <2>2
    <3>3. ReadyIds(entry') = ReadyIds(entry)
      BY <1>4, <2>2, <3>2, NoEntryType DEF ReadyIds
    <3>4. QED
      BY <1>5, <2>2, <3>1, <3>2, <3>3, NoEntryType DEF Entries, Bounded, Shrinks
  <2>3. CASE /\ entry[id].object = o
             /\ Touch(id, [entry EXCEPT ![id] =
                  [@ EXCEPT !.phase = "ready", !.rev = stored[id], !.repair = broken[id]]])
    <3> DEFINE e == [entry[id] EXCEPT !.phase = "ready", !.rev = stored[id], !.repair = broken[id]]
               es == [entry EXCEPT ![id] = e]
    <3>1. entry[id] \in EntryType /\ stored[id] \in Nat /\ broken[id] \in BOOLEAN
      BY <1>0, <1>5 DEF Logs
    <3>2. e \in EntryType
      BY <3>1 DEF EntryType
    <3>3. e.phase = "ready" /\ e.object = o
      BY <3>1, <2>3 DEF EntryType
    <3>4. Touch(id, es)
      BY <2>3
    <3>5. entry[id].phase = "loading" /\ o # NoObject
      BY <1>4, <1>5, <2>3 DEF Pool
    <3> HIDE DEF e
    <3>6. Pool(order, es) /\ es[id] = e /\ \A i \in Ids \ {id} : es[i] = entry[i]
      BY <1>5, <3>2, <3>3, <3>5, UpdateKeeps
    <3> HIDE DEF es
    <3>7. /\ Pool(order', entry') /\ Bounded(entry')
          /\ \A i \in Ids : \/ entry'[i] = es[i]
                            \/ es[i].phase = "ready" /\ entry'[i] = NoEntry
      BY <1>5, <3>3, <3>4, <3>6, TouchKeeps
    <3>8. QED
      BY <2>3, <3>3, <3>6, <3>7, NoEntryType DEF Entries, Shrinks
  <2>4. QED
    BY <2>1, <2>2, <2>3 DEF LoadSettles
<1> HIDE DEF waiting
<1>8. Types'
  BY <1>0, <1>1, <1>2, <1>6, <1>7 DEF Types, Logs, States, logVars, stateVars
<1>9. Queued'
  <2>1. ASSUME NEW i \in Ids
        PROVE  entry'[i].object \in {entry[i].object, NoObject}
    BY <1>7, NoEntryType DEF Shrinks, pool
  <2>2. ASSUME NEW i \in Ids, Job("load", entry[i].object) \in Jobs(i)'
        PROVE  entry'[i].phase = "loading" \/ entry'[i].object = NoObject
    <3>1. entry[i].phase = "loading"
      BY <1>0, <1>2, <2>2 DEF Queued
    <3>2. i = id => entry[id].object # o
      BY <1>2, <1>3, <2>2
    <3>3. entry'[i] = entry[i]
      BY <1>7, <3>1, <3>2 DEF Shrinks, pool
    <3>4. QED
      BY <3>1, <3>3
  <2>3. \A i \in Ids : Job("retire", NoObject) \in Jobs(i)' => owner'[i] = "retiring"
    BY <1>0, <1>1, <1>2 DEF Queued, stateVars
  <2>4. \A i \in Ids : running'[i] # "none" => First(i, "append")'
    BY <1>1, <1>2
  <2>5. QED
    BY <1>0, <1>2, <2>1, <2>2, <2>3, <2>4, QueuedKept
<1>10. ASSUME NEW i \in Ids, NEW c \in Callers, Job("commit", c) \in Jobs(i)'
       PROVE  /\ Job("commit", c) \in Jobs(i) /\ call'[c] = call[c]
              /\ entry'[i].phase \notin {"none", "loading"} =>
                   entry[i].phase \notin {"none", "loading"} /\ entry'[i].object = entry[i].object
  <2>1. Job("commit", c) \in Jobs(i) /\ call[c].at = "committing"
    BY <1>0, <1>2, <1>10 DEF Commits
  <2>2. call'[c] = call[c]
    BY <1>6, <2>1 DEF waiting
  <2>3. i = id => entry[id].object # o
    BY <1>2, <1>3, <1>10
  <2>4. entry'[i] = entry[i] \/ entry'[i] = NoEntry
    BY <1>7, <2>3 DEF Shrinks, pool
  <2>5. QED
    BY <2>1, <2>2, <2>4, NoEntryType
<1>11. Commits'
  BY <1>0, <1>10, CommitsKept
<1>12. Checks'
  <2>1. ASSUME NEW i \in Ids, NEW c \in Callers, Job("check", c) \in Jobs(i)'
        PROVE  Job("check", c) \in Jobs(i) /\ call'[c] = call[c]
    <3>1. Job("check", c) \in Jobs(i) /\ call[c].at = "checking"
      BY <1>0, <1>2, <2>1 DEF Checks
    <3>2. QED
      BY <1>6, <3>1 DEF waiting
  <2>2. QED
    BY <1>0, <2>1, ChecksKept
<1>13. Held'
  <2>1. \A c \in Callers : call'[c].at \in HoldAts => call'[c] = call[c]
    BY <1>6 DEF HoldAts
  <2>2. \A c \in Callers : Holds(c) => call'[c] = call[c]
    BY <1>6 DEF waiting, Holds, HoldAts
  <2>3. \A i \in Ids : SameState(i)
    BY <1>1 DEF SameState, logVars, stateVars
  <2>4. CASE UNCHANGED pool
    <3>1. entry' = entry
      BY <2>4 DEF pool
    <3>2. \A i \in Ids : Current(i) => Current(i)'
      BY <2>3, <3>1 DEF Current, SameState
    <3>3. \A c \in Callers : call[c].id \in Ids
      BY <1>0 DEF Calls, CallType
    <3>4. QED
      BY <1>0, <2>1, <2>2, <3>1, <3>2, <3>3, HeldStill
  <2>5. CASE /\ entry[id].object = o /\ entry'[id].object \in {o, NoObject}
             /\ entry'[id].phase \in {"none", "ready"}
    <3>1. ~Reserved(id) /\ ~Reserved(id)'
      BY <1>4, <2>5 DEF Reserved
    <3>2. QED
      BY <1>0, <1>7, <2>1, <2>2, <2>3, <2>5, <3>1, HeldLeaves
  <2>6. QED
    BY <1>7, <2>4, <2>5
<1>14. QED
  BY <1>8, <1>9, <1>11, <1>12, <1>13 DEF IInv

(* remove. *)
LEMMA RemoveFacts ==
  ASSUME Entries, NEW id \in Ids, NEW now, Calls(now), Remove(id, now)
  PROVE  /\ Entries' /\ Shrinks(id) /\ entry'[id] = NoEntry /\ Calls(call')
         /\ \A i \in Ids \ {id} : entry'[i] = entry[i]
         /\ \A c \in Callers : \/ call'[c] = now[c]
                               \/ now[c].at = "settled" /\ call'[c].at = "woken"
<1>1. entry \in [Ids -> EntryType] /\ Pool(order, entry) /\ Bounded(entry)
  BY DEF Entries, Pool
<1>2. /\ order' = Without(order, id) /\ entry' = [entry EXCEPT ![id] = NoEntry]
      /\ call' = Woken(now, id)
  BY DEF Remove
<1>3. Pool(order', entry')
  BY <1>1, <1>2, RemoveKeeps
<1>4. entry'[id] = NoEntry /\ \A i \in Ids \ {id} : entry'[i] = entry[i]
  BY <1>1, <1>2
<1>5. ReadyIds(entry') \subseteq ReadyIds(entry)
  BY <1>4, NoEntryType DEF ReadyIds
<1>6. /\ IsFiniteSet(ReadyIds(entry)) /\ Cardinality(ReadyIds(entry)) \in Nat
      /\ Cardinality(ReadyIds(entry')) \in Nat
  BY <1>1, <1>3, ReadyPositions
<1>7. Cardinality(ReadyIds(entry')) <= Cardinality(ReadyIds(entry))
  BY <1>5, <1>6, FS_Subset
<1>8. Bounded(entry')
  <2>1. Cardinality(ReadyIds(entry)) <= Capacity
    BY <1>1 DEF Bounded
  <2>2. QED
    BY <2>1, <1>6, <1>7, PoolAssumption DEF Bounded, PoolAssumption
<1>9. QED
  BY <1>2, <1>3, <1>4, <1>8, CallWoken DEF Entries, Shrinks

(* makeReady, of the entry as it is. *)
LEMMA ReadyFacts ==
  ASSUME Entries, PoolAssumption, NEW id \in Ids, entry[id].phase # "none",
         NEW now, Calls(now), MakeReady(id, entry[id], now)
  PROVE  /\ Entries' /\ Shrinks(id) /\ Calls(call')
         /\ entry'[id].phase \in {"none", "ready"}
         /\ entry'[id].object \in {entry[id].object, NoObject}
         /\ \A c \in Callers : \/ call'[c] = now[c]
                               \/ now[c].at = "settled" /\ call'[c].at = "woken"
<1>1. entry \in [Ids -> EntryType] /\ Pool(order, entry) /\ Bounded(entry)
      /\ entry[id] \in EntryType /\ entry[id].object # NoObject
  BY DEF Entries, Pool
<1> DEFINE e == [entry[id] EXCEPT !.phase = "ready"]
           es == [entry EXCEPT ![id] = e]
<1>2. e \in EntryType /\ e.phase = "ready" /\ e.object = entry[id].object
  BY <1>1 DEF EntryType
<1>3. Touch(id, es) /\ call' = Woken(now, id)
  BY DEF MakeReady
<1> HIDE DEF e
<1>4. Pool(order, es) /\ es[id] = e /\ \A i \in Ids \ {id} : es[i] = entry[i]
  BY <1>1, <1>2, UpdateKeeps
<1> HIDE DEF es
<1>5. /\ Pool(order', entry') /\ Bounded(entry')
      /\ \A i \in Ids : \/ entry'[i] = es[i]
                        \/ es[i].phase = "ready" /\ entry'[i] = NoEntry
  BY <1>1, <1>2, <1>3, <1>4, TouchKeeps
<1>6. QED
  BY <1>2, <1>3, <1>4, <1>5, CallWoken, NoEntryType DEF Entries, Shrinks

(* What is queued stays as it was while an entry that is loaded goes. *)
LEMMA QueuedShrinks ==
  ASSUME Queued, Chains', PoolAssumption, NEW id \in Ids, Shrinks(id),
         entry'[id].object \in {entry[id].object, NoObject}, entry[id].phase # "loading",
         \A i \in Ids : Within(chain'[i], chain[i]),
         \A i \in Ids : Jobs(i)' \subseteq Jobs(i),
         \A i \in Ids : running'[i] # "none" => First(i, "append")',
         \A i \in Ids : Job("retire", NoObject) \in Jobs(i)' => owner'[i] = "retiring"
  PROVE  Queued'
<1>1. ASSUME NEW i \in Ids
      PROVE  entry'[i].object \in {entry[i].object, NoObject}
  BY NoEntryType DEF Shrinks
<1>2. ASSUME NEW i \in Ids, Job("load", entry[i].object) \in Jobs(i)'
      PROVE  entry'[i].phase = "loading" \/ entry'[i].object = NoObject
  <2>1. entry[i].phase = "loading"
    BY <1>2 DEF Queued
  <2>2. entry'[i] = entry[i]
    BY <2>1 DEF Shrinks
  <2>3. QED
    BY <2>1, <2>2
<1>3. QED
  BY <1>1, <1>2, QueuedKept

(* A call leaves, and its entry goes or is free again. *)
LEMMA Leaves ==
  ASSUME IInv, PoolAssumption, UNCHANGED logVars, States', Chains', Entries', Calls(call'), Queued',
         NEW c \in Callers, NEW id \in Ids, id = call[c].id, Shrinks(id),
         entry'[id].phase \in {"none", "ready"},
         entry'[id].object \in {entry[id].object, NoObject},
         entry[id].phase \notin {"none", "loading"},
         Holds(c) \/ ~Reserved(id), call'[c].at \notin HoldAts,
         \A d \in Callers \ {c} : \/ call'[d] = call[d]
                                  \/ call[d].at = "settled" /\ call'[d].at = "woken",
         \A i \in Ids \ {id} : SameState(i),
         \A i \in Ids, d \in Callers :
           /\ Job("commit", d) \in Jobs(i)' => Job("commit", d) \in Jobs(i) /\ d # c
           /\ Job("check", d) \in Jobs(i)' => Job("check", d) \in Jobs(i) /\ d # c
  PROVE  IInv'
<1> USE DEF IInv
<1>1. Types'
  BY DEF Types, Logs, logVars
<1>2. Commits'
  <2>1. ASSUME NEW i \in Ids, NEW d \in Callers, Job("commit", d) \in Jobs(i)'
        PROVE  /\ Job("commit", d) \in Jobs(i) /\ call'[d] = call[d]
               /\ entry'[i].phase \notin {"none", "loading"} =>
                    entry[i].phase \notin {"none", "loading"} /\ entry'[i].object = entry[i].object
    <3>1. Job("commit", d) \in Jobs(i) /\ d # c /\ call[d].at = "committing"
      BY <2>1 DEF Commits
    <3>2. call'[d] = call[d]
      BY <3>1
    <3>3. CASE i = id
      <4>1. entry'[id].phase \notin {"none", "loading"} => entry'[id].object # NoObject
        BY DEF Entries, Pool
      <4>2. QED
        BY <3>1, <3>2, <3>3, <4>1
    <3>4. CASE i # id
      <4>1. entry'[i] = entry[i] \/ entry'[i] = NoEntry
        BY <3>4 DEF Shrinks
      <4>2. QED
        BY <3>1, <3>2, <4>1, NoEntryType
    <3>5. QED
      BY <3>3, <3>4
  <2>2. QED
    BY <2>1, CommitsKept
<1>3. Checks'
  <2>1. ASSUME NEW i \in Ids, NEW d \in Callers, Job("check", d) \in Jobs(i)'
        PROVE  Job("check", d) \in Jobs(i) /\ call'[d] = call[d]
    <3>1. Job("check", d) \in Jobs(i) /\ d # c /\ call[d].at = "checking"
      BY <2>1 DEF Checks
    <3>2. QED
      BY <3>1
  <2>2. QED
    BY <2>1, ChecksKept
<1>4. Held'
  <2>1. \A d \in Callers : call'[d].at \in HoldAts => call'[d] = call[d] /\ d # c
    BY DEF HoldAts
  <2>2. ASSUME NEW d \in Callers, Holds(d)
        PROVE  call'[d] = call[d] \/ call[d].id = id
    BY <2>2 DEF Holds, HoldAts
  <2>3. ~Reserved(id)'
    BY DEF Reserved
  <2>4. \A d \in Callers : call[d].id = id /\ call'[d].at \in HoldAts =>
          \/ ~Reserved(id) \/ \E b \in Callers \ {d} : Holds(b) /\ call[b].id = id
    BY <2>1
  <2>5. Types /\ Held
    OBVIOUS
  <2>6. QED
    BY <2>1, <2>2, <2>3, <2>4, <2>5, HeldLeaves
<1>5. QED
  BY <1>1, <1>2, <1>3, <1>4

(* Reserve: a ready entry has no holder, so the call that takes it is the  *)
(* only one, and no load of this entry is ahead of its commit any more.    *)
LEMMA ReserveStep ==
  ASSUME IInv, PoolAssumption, NEW c \in Callers, Reserve(c)
  PROVE  IInv'
<1>0. Logs /\ States /\ Chains /\ Calls(call) /\ Entries /\ Queued /\ Commits /\ Checks /\ Held /\ Types
  BY DEF IInv, Types
<1>1. call[c] \in CallType /\ call[c].id \in Ids
  BY <1>0 DEF Calls, CallType
<1> PICK id \in Ids : id = call[c].id
  BY <1>1
<1>2. call[c].at \in {"loaded", "woken"} /\ UNCHANGED <<logVars, stateVars, running, order>>
  BY DEF Reserve
<1>3. /\ ~Holds(c) /\ call[c].object \in Objects
      /\ \A i \in Ids : Job("commit", c) \notin Jobs(i) /\ Job("check", c) \notin Jobs(i)
  BY <1>0, <1>2, NoCommit, NoCheck DEF Holds, HoldAts, Calls, Referring
<1>4. CASE call' = Again(c) /\ UNCHANGED <<entry, chain>>
  <2>1. UNCHANGED <<logVars, stateVars, chainVars, pool>>
    BY <1>2, <1>4 DEF chainVars, pool
  <2>2. /\ Calls(call') /\ call'[c].at = "calling"
        /\ \A d \in Callers \ {c} : call'[d] = call[d]
    BY <1>0, <1>4, CallAgain
  <2>3. QED
    BY <1>3, <2>1, <2>2, CallMoves DEF HoldAts
<1>5. CASE call' = Goto(c, "settled") /\ UNCHANGED <<entry, chain>>
  <2>1. UNCHANGED <<logVars, stateVars, chainVars, pool>>
    BY <1>2, <1>5 DEF chainVars, pool
  <2> DEFINE r == [call[c] EXCEPT !.at = "settled"]
  <2>2. r \in CallType /\ r.at = "settled" /\ r.object = call[c].object
    BY <1>1 DEF CallType
  <2>3. call' = [call EXCEPT ![c] = r]
    BY <1>5 DEF Goto
  <2> HIDE DEF r
  <2>4. r.object \in Objects /\ r.at \notin HoldAts
    BY <1>3, <2>2 DEF HoldAts
  <2>5. QED
    BY <1>3, <2>1, <2>2, <2>3, <2>4, CallBecomes
<1>6. CASE /\ Joined(c) /\ entry[id].phase = "ready"
           /\ entry' = [entry EXCEPT ![id].phase = "committing"]
           /\ Queue(id, Job("commit", c))
           /\ call' = [call EXCEPT ![c].at = "committing", ![c].rev = entry[id].rev,
                                   ![c].outcome = IF entry[id].repair THEN "repair" ELSE "pending"]
  <2>1. entry \in [Ids -> EntryType] /\ Pool(order, entry) /\ Bounded(entry)
        /\ entry[id] \in EntryType /\ entry[id].object # NoObject
    BY <1>0, <1>6 DEF Entries, Pool
  <2> DEFINE e == [entry[id] EXCEPT !.phase = "committing"]
  <2>2. e \in EntryType
    BY <2>1 DEF EntryType
  <2>3. e.phase = "committing" /\ e.object = entry[id].object /\ e.rev = entry[id].rev
        /\ e.repair = entry[id].repair
    BY <2>1 DEF EntryType
  <2>4. entry' = [entry EXCEPT ![id] = e]
    BY <1>6
  <2> HIDE DEF e
  <2>5. entry'[id] = e /\ \A i \in Ids \ {id} : entry'[i] = entry[i]
    BY <2>1, <2>4
  <2>6. Entries'
    <3>1. Pool(order', entry')
      <4>1. Pool(order, [entry EXCEPT ![id] = e])
        BY <1>6, <2>1, <2>2, <2>3, UpdateKeeps
      <4>2. order' = order
        BY <1>2
      <4>3. QED
        BY <2>4, <4>1, <4>2
    <3>2. ReadyIds(entry') \subseteq ReadyIds(entry)
      BY <2>3, <2>5 DEF ReadyIds
    <3>3. /\ IsFiniteSet(ReadyIds(entry)) /\ Cardinality(ReadyIds(entry)) \in Nat
          /\ Cardinality(ReadyIds(entry')) \in Nat
      BY <2>1, <3>1, ReadyPositions
    <3>4. Cardinality(ReadyIds(entry')) <= Cardinality(ReadyIds(entry))
      BY <3>2, <3>3, FS_Subset
    <3>5. Capacity \in Nat /\ Cardinality(ReadyIds(entry)) <= Capacity
      BY <2>1 DEF Bounded, PoolAssumption
    <3>6. Cardinality(ReadyIds(entry')) <= Capacity
      BY <3>3, <3>4, <3>5
    <3>7. QED
      BY <3>1, <3>6 DEF Entries, Bounded
  <2> DEFINE r == [call[c] EXCEPT !.at = "committing", !.rev = entry[id].rev,
                     !.outcome = IF entry[id].repair THEN "repair" ELSE "pending"]
  <2>7. /\ r.at = "committing" /\ r.rev = entry[id].rev /\ r.id = id /\ r.object = call[c].object
        /\ r.outcome = IF entry[id].repair THEN "repair" ELSE "pending"
    BY <1>1 DEF CallType
  <2>8. r \in CallType
    BY <1>1, <2>1 DEF CallType, EntryType
  <2>9. call' = [call EXCEPT ![c] = r]
    BY <1>0, <1>6 DEF Calls
  <2> HIDE DEF r
  <2>10. Calls(call') /\ call'[c] = r /\ \A d \in Callers \ {c} : call'[d] = call[d]
    <3>1. r.object \in Objects
      BY <1>3, <2>7
    <3>2. /\ Calls([call EXCEPT ![c] = r]) /\ [call EXCEPT ![c] = r][c] = r
          /\ \A d \in Callers \ {c} : [call EXCEPT ![c] = r][d] = call[d]
      BY <1>0, <2>8, <3>1, CallGoes
    <3>3. QED
      BY <2>9, <3>2
  <2> DEFINE job == Job("commit", c)
  <2>11. job \in JobType /\ job.kind = "commit" /\ Queue(id, job) /\ job \notin Jobs(id)
    BY <1>3, <1>6, JobsMade, JobFacts
  <2>12. job # Job("retire", NoObject) /\ \A d \in Callers : job # Job("check", d)
    BY JobFacts
  <2>13. \A d \in Callers : job = Job("commit", d) => d = c
    BY JobFacts
  <2>14. Job("load", entry[id].object) \notin Jobs(id)
    BY <1>0, <1>6 DEF Queued
  <2> HIDE DEF job
  <2>15. /\ Chains' /\ \A i \in Ids \ {id} : Jobs(i)' = Jobs(i)
         /\ Jobs(id)' = Jobs(id) \cup {job}
    BY <1>0, <2>11, QueueFacts
  <2>16. Types'
    BY <1>0, <1>2, <2>6, <2>10, <2>15 DEF Types, Logs, States, logVars, stateVars
  <2>17. Queued'
    <3>1. \A i \in Ids : entry'[i].object = entry[i].object
      BY <2>3, <2>5
    <3>2. \A i \in Ids : entry[i].phase = "loading" => entry'[i].phase = "loading"
      BY <1>6, <2>5
    <3>3. \A i \in Ids : Job("retire", NoObject) \in Jobs(i)' => owner'[i] = "retiring"
      BY <1>0, <1>2, <2>12, <2>15 DEF Queued, stateVars
    <3>4. running' = running
      BY <1>2
    <3>5. QED
      BY <1>0, <2>11, <2>14, <3>1, <3>2, <3>3, <3>4, QueuedGrows
  <2>18. Commits'
    <3>1. ASSUME NEW i \in Ids, NEW d \in Callers, Job("commit", d) \in Jobs(i)'
          PROVE  /\ call'[d].at = "committing" /\ call'[d].id = i
                 /\ call'[d].outcome \in {"pending", "repair"}
                 /\ entry'[i].phase \notin {"none", "loading"} => Joined(d)'
      <4>1. CASE d = c
        <5>1. i = id
          BY <1>3, <2>15, <3>1, <4>1
        <5>2. QED
          BY <1>6, <2>3, <2>5, <2>7, <2>10, <4>1, <5>1 DEF Joined
      <4>2. CASE d # c
        <5>1. Job("commit", d) \in Jobs(i)
          BY <2>13, <2>15, <3>1, <4>2
        <5>2. /\ call[d].at = "committing" /\ call[d].id = i
              /\ call[d].outcome \in {"pending", "repair"}
              /\ entry[i].phase \notin {"none", "loading"} => Joined(d)
          BY <1>0, <5>1 DEF Commits
        <5>3. /\ call'[d] = call[d] /\ entry'[i].object = entry[i].object
              /\ (entry'[i].phase \notin {"none", "loading"} => entry[i].phase \notin {"none", "loading"})
          BY <1>6, <2>3, <2>5, <2>10, <4>2
        <5>4. QED
          BY <5>2, <5>3 DEF Joined
      <4>3. QED
        BY <4>1, <4>2
    <3>2. QED
      BY <3>1 DEF Commits
  <2>19. Checks'
    BY <1>0, <1>3, <2>10, <2>12, <2>15, ChecksKept
  <2>20. ASSUME NEW d \in Callers \ {c}
         PROVE  Fit(d)' /\ (Holds(d)' => Holds(d) /\ call[d].id # id) /\ (Holds(d) => Holds(d)')
    <3>1. call'[d] = call[d] /\ Fit(d) /\ call[d].id \in Ids
      BY <1>0, <2>10 DEF Held, Calls, CallType
    <3>2. CASE call[d].id = id
      <4>1. ~Holds(d) /\ call[d].at # "holding"
        BY <1>6, <3>1, <3>2 DEF Fit, Holds, HoldAts
      <4>2. Joined(d)' = Joined(d)
        BY <2>3, <2>5, <3>1, <3>2 DEF Joined
      <4>3. ~Holds(d)'
        BY <3>1, <4>1, <4>2 DEF Holds
      <4>4. QED
        BY <3>1, <4>1, <4>3 DEF Fit, Holds, HoldAts
    <3>3. CASE call[d].id # id
      <4>1. entry'[call[d].id] = entry[call[d].id]
        BY <2>5, <3>1, <3>3, Zenon
      <4>2. QED
        BY <1>2, <3>1, <3>3, <4>1 DEF Fit, Holds, Joined, Current, logVars, stateVars
    <3>4. QED
      BY <3>2, <3>3
  <2>21. Fit(c)' /\ Holds(c)'
    BY <1>6, <2>3, <2>5, <2>7, <2>10 DEF Fit, Holds, Joined, HoldAts
  <2>22. Held'
    <3>1. Sole'
      <4>1. ASSUME NEW a \in Callers, NEW b \in Callers, Holds(a)', Holds(b)', call'[a].id = call'[b].id
            PROVE  a = b
        BY <1>0, <2>7, <2>10, <2>20, <4>1 DEF Held, Sole
      <4>2. QED
        BY <4>1 DEF Sole
    <3>2. Taken'
      <4>1. ASSUME NEW i \in Ids, Reserved(i)'
            PROVE  \E a \in Callers : Holds(a)' /\ call'[a].id = i
        <5>1. CASE i = id
          BY <5>1, <2>7, <2>10, <2>21
        <5>2. CASE i # id
          <6>1. Reserved(i)
            BY <2>5, <4>1, <5>2 DEF Reserved
          <6>2. PICK a \in Callers : Holds(a) /\ call[a].id = i
            BY <1>0, <6>1 DEF Held, Taken
          <6>3. a # c
            BY <1>3, <6>2
          <6>4. QED
            BY <2>10, <2>20, <6>2, <6>3
        <5>3. QED
          BY <5>1, <5>2
      <4>2. QED
        BY <4>1 DEF Taken
    <3>3. QED
      BY <2>20, <2>21, <3>1, <3>2 DEF Held
  <2>23. QED
    BY <2>16, <2>17, <2>18, <2>19, <2>22 DEF IInv
<1>7. QED
  BY <1>4, <1>5, <1>6 DEF Reserve

(* CommitSettles: a commit succeeds only without an owner and at the       *)
(* revision the entry was loaded at, and the chain runs no append          *)
(* meanwhile.                                                              *)
LEMMA CommitSettlesStep ==
  ASSUME IInv, PoolAssumption, NEW id \in Ids, CommitSettles(id)
  PROVE  IInv'
<1>0. Logs /\ States /\ Chains /\ Calls(call) /\ Entries /\ Queued /\ Commits /\ Checks /\ Held /\ Types
  BY DEF IInv, Types
<1>1. First(id, "commit") /\ Pop(id) /\ UNCHANGED <<owner, running, pool>>
  BY DEF CommitSettles
<1>2. /\ Chains' /\ \A i \in Ids : Within(chain'[i], chain[i]) /\ Jobs(i)' \subseteq Jobs(i)
      /\ \A i \in Ids \ {id} : chain'[i] = chain[i]
      /\ Head(chain[id]) \in JobType /\ Head(chain[id]) \in Jobs(id)
      /\ Head(chain[id]).kind = "commit"
      /\ Head(chain[id]) \notin Jobs(id)'
      /\ \A i \in Ids : running[i] # "none" => First(i, "append")'
  BY <1>0, <1>1, PopFacts
<1>3. Head(chain[id]).by \in Callers
  BY <1>2, JobKinds
<1> PICK c \in Callers : c = Head(chain[id]).by
  BY <1>3
<1>4. Head(chain[id]) = Job("commit", c)
  BY <1>2, JobKinds
<1>5. /\ call[c].at = "committing" /\ call[c].id = id /\ call[c].outcome \in {"pending", "repair"}
      /\ entry[id].phase \notin {"none", "loading"} => Joined(c)
  BY <1>0, <1>2, <1>4 DEF Commits
<1>6. running[id] = "none"
  BY <1>0, <1>1 DEF Queued, First
<1>7. \/ /\ call' = [call EXCEPT ![c].outcome = "failed"] /\ UNCHANGED <<logVars, cursor>>
      \/ /\ call' = [call EXCEPT ![c].outcome = "stale"] /\ UNCHANGED <<logVars, cursor>>
      \/ /\ stored' = [stored EXCEPT ![id] = @ + 1]
         /\ own' = [own EXCEPT ![id] = stored[id] + 1]
         /\ broken' = [broken EXCEPT ![id] = FALSE]
         /\ call' = [call EXCEPT ![c].outcome = "stale"]
         /\ UNCHANGED cursor
      \/ /\ owner[id] = "none" /\ call[c].rev = stored[id] /\ call[c].outcome = "pending"
         /\ cursor' = [cursor EXCEPT ![id] = call[c].rev]
         /\ call' = [call EXCEPT ![c].outcome = "committed"]
         /\ UNCHANGED logVars
  BY DEF CommitSettles
<1>8. call[c] \in CallType
  BY <1>0 DEF Calls
<1>9. PICK out \in {"failed", "stale", "committed"} : call' = [call EXCEPT ![c].outcome = out]
  BY <1>7
<1> DEFINE r == [call[c] EXCEPT !.outcome = out]
<1>10. /\ r.at = "committing" /\ r.id = id /\ r.object = call[c].object /\ r.rev = call[c].rev
       /\ r.outcome = out
  BY <1>5, <1>8 DEF CallType
<1>11. r \in CallType /\ call' = [call EXCEPT ![c] = r]
  BY <1>8, <1>9 DEF CallType
<1> HIDE DEF r
<1>12. Calls(call') /\ call'[c] = r /\ \A d \in Callers \ {c} : call'[d] = call[d]
  <2>1. r.object \in Objects /\ Calls(call)
    BY <1>0, <1>5, <1>10 DEF Calls, Referring
  <2>4. r \in CallType
    BY <1>11
  <2>2. /\ Calls([call EXCEPT ![c] = r]) /\ [call EXCEPT ![c] = r][c] = r
        /\ \A d \in Callers \ {c} : [call EXCEPT ![c] = r][d] = call[d]
    BY <2>1, <2>4, CallGoes
  <2>3. QED
    BY <1>11, <2>2
<1>13. Logs' /\ cursor' \in [Ids -> Nat]
       /\ \A i \in Ids \ {id} : cursor'[i] = cursor[i] /\ own'[i] = own[i]
  <2>1. CASE UNCHANGED <<logVars, cursor>>
    BY <1>0, <2>1 DEF Logs, States, logVars
  <2>2. CASE /\ stored' = [stored EXCEPT ![id] = @ + 1]
             /\ own' = [own EXCEPT ![id] = stored[id] + 1]
             /\ broken' = [broken EXCEPT ![id] = FALSE]
             /\ UNCHANGED cursor
    BY <1>0, <2>2 DEF Logs, States
  <2>3. CASE /\ cursor' = [cursor EXCEPT ![id] = call[c].rev]
             /\ UNCHANGED logVars
    <3>1. call[c].rev \in Nat
      BY <1>8 DEF CallType
    <3>2. QED
      BY <1>0, <2>3, <3>1 DEF Logs, States, logVars
  <2>4. QED
    BY <1>7, <2>1, <2>2, <2>3
<1>14. owner' = owner /\ running' = running /\ entry' = entry /\ order' = order
  BY <1>1 DEF pool
<1>15. Types'
  BY <1>0, <1>2, <1>12, <1>13, <1>14 DEF Types, States, Entries
<1>16. Queued'
  <2>1. \A i \in Ids : Job("retire", NoObject) \in Jobs(i)' => owner'[i] = "retiring"
    BY <1>0, <1>2, <1>14 DEF Queued
  <2>2. \A i \in Ids : Job("load", entry[i].object) \in Jobs(i)' => entry'[i].phase = "loading"
    BY <1>0, <1>2, <1>14 DEF Queued
  <2>3. QED
    BY <1>0, <1>2, <1>14, <2>1, <2>2, QueuedKept
<1>17. Commits'
  <2>1. ASSUME NEW i \in Ids, NEW d \in Callers, Job("commit", d) \in Jobs(i)'
        PROVE  Job("commit", d) \in Jobs(i) /\ call'[d] = call[d]
    <3>1. Job("commit", d) \in Jobs(i) /\ call[d].id = i
      BY <1>0, <1>2, <2>1 DEF Commits
    <3>2. d # c
      BY <1>2, <1>4, <1>5, <2>1, <3>1
    <3>3. QED
      BY <1>12, <3>1, <3>2
  <2>2. QED
    BY <1>0, <1>14, <2>1, CommitsKept
<1>18. Checks'
  <2>1. ASSUME NEW i \in Ids, NEW d \in Callers, Job("check", d) \in Jobs(i)'
        PROVE  Job("check", d) \in Jobs(i) /\ call'[d] = call[d]
    <3>1. Job("check", d) \in Jobs(i) /\ call[d].at = "checking"
      BY <1>0, <1>2, <2>1 DEF Checks
    <3>2. QED
      BY <1>5, <1>12, <3>1
  <2>2. QED
    BY <1>0, <2>1, ChecksKept
<1>19. ASSUME NEW d \in Callers
       PROVE  /\ call'[d].at = call[d].at /\ call'[d].id = call[d].id /\ (Holds(d)' <=> Holds(d))
              /\ call[d].id \in Ids
  <2>1. call'[d].at = call[d].at /\ call'[d].id = call[d].id /\ call'[d].object = call[d].object
    BY <1>5, <1>10, <1>12
  <2>2. call[d].id \in Ids
    BY <1>0 DEF Calls, CallType
  <2>3. QED
    BY <1>14, <2>1, <2>2 DEF Holds, Joined
<1>20. Fit(c)'
  <2>1. CASE out # "committed"
    BY <1>0, <1>5, <1>10, <1>12, <1>14, <2>1 DEF Held, Fit, Joined
  <2>2. CASE out = "committed"
    <3>1. /\ owner[id] = "none" /\ call[c].rev = stored[id] /\ call[c].outcome = "pending"
          /\ cursor'[id] = call[c].rev /\ own' = own
      <4>1. call'[c].outcome = "committed"
        BY <1>10, <1>12, <2>2
      <4>2. /\ owner[id] = "none" /\ call[c].rev = stored[id] /\ call[c].outcome = "pending"
            /\ cursor' = [cursor EXCEPT ![id] = call[c].rev] /\ UNCHANGED logVars
        <5>1. call \in [Callers -> CallType]
          BY <1>0 DEF Calls
        <5>2. \A o : call' = [call EXCEPT ![c].outcome = o] => call'[c].outcome = o
          BY <1>8, <5>1 DEF CallType
        <5>3. "failed" # "committed" /\ "stale" # "committed"
          OBVIOUS
        <5>4. QED
          BY <1>7, <4>1, <5>2, <5>3
      <4>3. QED
        BY <1>0, <4>2 DEF States, logVars
    <3>2. own[id] <= stored[id] /\ own[id] \in Nat /\ stored[id] \in Nat
      BY <1>0 DEF Logs
    <3>3. ASSUME Joined(c)
          PROVE  entry[id].phase = "committing" /\ entry[id].rev = call[c].rev /\ ~entry[id].repair
      BY <1>0, <1>5, <3>1, <3>3 DEF Held, Fit
    <3>4. ASSUME Joined(c)
          PROVE  Current(id)'
      BY <1>6, <1>14, <3>1, <3>2, <3>3, <3>4 DEF Current
    <3>5. Joined(c)' <=> Joined(c)
      BY <1>10, <1>12, <1>14, <1>5 DEF Joined
    <3>6. QED
      BY <1>5, <1>10, <1>12, <1>14, <2>2, <3>3, <3>4, <3>5 DEF Fit, Current
  <2>3. QED
    BY <2>1, <2>2
<1>21. ASSUME NEW d \in Callers \ {c}
       PROVE  Fit(d)'
  <2>1. call'[d] = call[d] /\ Fit(d) /\ call[d].id \in Ids
    BY <1>0, <1>12, <1>19 DEF Held
  <2>2. CASE call[d].id = id
    <3>1. Holds(d) => Joined(c)
      BY <1>0, <1>5, <2>1, <2>2 DEF Fit, Holds, HoldAts
    <3>2. Joined(c) => Holds(c)
      BY <1>5 DEF Holds, HoldAts
    <3>3. ~Holds(d)
      BY <1>0, <1>5, <2>2, <3>1, <3>2 DEF Held, Sole
    <3>4. call[d].at # "holding" /\ ~(call[d].at = "committing" /\ Joined(d))
      BY <2>1, <3>3 DEF Fit, Holds, HoldAts
    <3>5. QED
      BY <1>14, <2>1, <3>4 DEF Fit, Joined
  <2>3. CASE call[d].id # id
    BY <1>13, <1>14, <2>1, <2>3 DEF Fit, Joined, Current
  <2>4. QED
    BY <2>2, <2>3
<1>22. Held'
  <2>1. Sole'
    BY <1>0, <1>19 DEF Held, Sole
  <2>2. Taken'
    BY <1>0, <1>14, <1>19 DEF Held, Taken, Reserved
  <2>3. QED
    BY <1>20, <1>21, <2>1, <2>2 DEF Held
<1>23. QED
  BY <1>15, <1>16, <1>17, <1>18, <1>22 DEF IInv

(* The holder of an entry, or a call that found it ready, takes it out or  *)
(* makes it ready.                                                         *)
LEMMA GivesUp ==
  ASSUME IInv, PoolAssumption, UNCHANGED <<logVars, stateVars, chainVars>>,
         NEW c \in Callers, NEW id \in Ids, id = call[c].id, NEW now \in {Return(c), Again(c)},
         Remove(id, now) \/ MakeReady(id, entry[id], now),
         entry[id].phase \notin {"none", "loading"}, Holds(c) \/ ~Reserved(id),
         \A i \in Ids : Job("commit", c) \notin Jobs(i) /\ Job("check", c) \notin Jobs(i)
  PROVE  IInv'
<1>0. Logs /\ States /\ Chains /\ Calls(call) /\ Entries /\ Queued /\ Commits /\ Checks /\ Held /\ Types
  BY DEF IInv, Types
<1>1. /\ Calls(Return(c)) /\ Return(c)[c].at = "idle"
      /\ \A d \in Callers \ {c} : Return(c)[d] = call[d]
  BY <1>0, CallReturns, IdleType
<1>2. /\ Calls(Again(c)) /\ Again(c)[c].at = "calling"
      /\ \A d \in Callers \ {c} : Again(c)[d] = call[d]
  BY <1>0, CallAgain
<1>3. /\ Calls(now) /\ now[c].at \in {"idle", "calling"}
      /\ \A d \in Callers \ {c} : now[d] = call[d]
  BY <1>1, <1>2
<1>4. /\ Entries' /\ Shrinks(id) /\ Calls(call')
      /\ entry'[id].phase \in {"none", "ready"}
      /\ entry'[id].object \in {entry[id].object, NoObject}
      /\ \A d \in Callers : \/ call'[d] = now[d]
                            \/ now[d].at = "settled" /\ call'[d].at = "woken"
  <2>1. CASE Remove(id, now)
    BY <1>0, <1>3, <2>1, RemoveFacts, NoEntryType
  <2>2. CASE MakeReady(id, entry[id], now)
    BY <1>0, <1>3, <2>2, ReadyFacts
  <2>3. QED
    BY <2>1, <2>2
<1>5. States' /\ Chains' /\ (\A i \in Ids : SameState(i)) /\ (\A i \in Ids : Jobs(i)' = Jobs(i))
  BY <1>0 DEF States, Chains, stateVars, chainVars, SameState, logVars, Jobs
<1>6. Queued'
  <2>1. \A i \in Ids : Within(chain'[i], chain[i])
    BY <1>0, WithinItself DEF Chains, chainVars
  <2>2. \A i \in Ids : running'[i] # "none" => First(i, "append")'
    BY <1>0 DEF Queued, First, chainVars
  <2>3. \A i \in Ids : Job("retire", NoObject) \in Jobs(i)' => owner'[i] = "retiring"
    BY <1>0, <1>5 DEF Queued, stateVars
  <2>4. \A i \in Ids : Jobs(i)' \subseteq Jobs(i)
    BY <1>5
  <2>5. QED
    BY <1>0, <1>4, <1>5, <2>1, <2>2, <2>3, <2>4, QueuedShrinks
<1>7. call'[c].at \notin HoldAts
  BY <1>3, <1>4 DEF HoldAts
<1>8. \A d \in Callers \ {c} : \/ call'[d] = call[d]
                               \/ call[d].at = "settled" /\ call'[d].at = "woken"
  BY <1>3, <1>4
<1>9. \A i \in Ids, d \in Callers :
         /\ Job("commit", d) \in Jobs(i)' => Job("commit", d) \in Jobs(i) /\ d # c
         /\ Job("check", d) \in Jobs(i)' => Job("check", d) \in Jobs(i) /\ d # c
  BY <1>5
<1>10. UNCHANGED logVars
  OBVIOUS
<1>11. QED
  BY <1>4, <1>5, <1>6, <1>7, <1>8, <1>9, <1>10, Leaves

(* A call that has settled its commit has no operation left in a chain. *)
LEMMA CommitReturnsStep ==
  ASSUME IInv, PoolAssumption, NEW c \in Callers, CommitReturns(c)
  PROVE  IInv'
<1>0. Logs /\ States /\ Chains /\ Calls(call) /\ Entries /\ Queued /\ Commits /\ Checks /\ Held /\ Types
  BY DEF IInv, Types
<1>1. call[c] \in CallType /\ call[c].id \in Ids
  BY <1>0 DEF Calls, CallType
<1> PICK id \in Ids : id = call[c].id
  BY <1>1
<1>2. /\ call[c].at = "committing" /\ call[c].outcome \in {"failed", "stale", "committed"}
      /\ UNCHANGED <<logVars, stateVars, chainVars, calls, writes>>
  BY DEF CommitReturns
<1>3. /\ \A i \in Ids : Job("commit", c) \notin Jobs(i) /\ Job("check", c) \notin Jobs(i)
      /\ call[c].object \in Objects
      /\ \A i \in Ids : Jobs(i)' = Jobs(i)
  BY <1>0, <1>2, NoCommit, NoCheck DEF Calls, Referring, Jobs, chainVars
<1>4. Joined(c) => Holds(c) /\ entry[id].phase = "committing"
  BY <1>0, <1>2 DEF Holds, HoldAts, Held, Fit
<1>5. States' /\ Chains' /\ UNCHANGED logVars /\ \A i \in Ids : SameState(i)
  BY <1>0, <1>2 DEF States, Chains, stateVars, chainVars, SameState, logVars
<1>6. /\ Calls(Return(c)) /\ Return(c)[c].at = "idle"
      /\ \A d \in Callers \ {c} : Return(c)[d] = call[d]
  BY <1>0, CallReturns, IdleType
<1>7. /\ Calls(Again(c)) /\ Again(c)[c].at = "calling"
      /\ \A d \in Callers \ {c} : Again(c)[d] = call[d]
  BY <1>0, CallAgain
<1>8. ASSUME NEW now \in {Return(c), Again(c)}, call' = now, UNCHANGED pool, ~Joined(c)
      PROVE  IInv'
  <2>1. /\ Calls(call') /\ call'[c].at \in {"idle", "calling"}
        /\ \A d \in Callers \ {c} : call'[d] = call[d]
    BY <1>6, <1>7, <1>8
  <2>2. ~Holds(c) /\ call'[c].at \notin HoldAts
    BY <1>8, <2>1 DEF Holds, HoldAts
  <2>3. UNCHANGED <<logVars, stateVars, chainVars, pool>>
    BY <1>2, <1>8
  <2>4. QED
    BY <1>3, <2>1, <2>2, <2>3, CallMoves
<1>9. ASSUME NEW now \in {Return(c), Again(c)}, Joined(c),
             Remove(id, now) \/ MakeReady(id, entry[id], now)
      PROVE  IInv'
  <2>1. entry[id].phase \notin {"none", "loading"} /\ Holds(c)
    BY <1>4, <1>9
  <2>2. UNCHANGED <<logVars, stateVars, chainVars>>
    BY <1>2
  <2>3. QED
    BY <1>3, <1>9, <2>1, <2>2, GivesUp
<1>10. CASE /\ call[c].outcome = "committed" /\ Joined(c)
            /\ entry' = [entry EXCEPT ![id].phase = "reserved"]
            /\ call' = Goto(c, "holding")
            /\ UNCHANGED order
  <2>1. entry \in [Ids -> EntryType] /\ Pool(order, entry) /\ Bounded(entry)
        /\ entry[id] \in EntryType /\ entry[id].object # NoObject /\ entry[id].phase = "committing"
    BY <1>0, <1>4, <1>10 DEF Entries, Pool
  <2> DEFINE e == [entry[id] EXCEPT !.phase = "reserved"]
  <2>2. e \in EntryType
    BY <2>1 DEF EntryType
  <2>3. e.phase = "reserved" /\ e.object = entry[id].object /\ e.rev = entry[id].rev
        /\ e.repair = entry[id].repair
    BY <2>1 DEF EntryType
  <2>4. entry' = [entry EXCEPT ![id] = e]
    BY <1>10
  <2> HIDE DEF e
  <2>5. entry'[id] = e /\ \A i \in Ids \ {id} : entry'[i] = entry[i]
    BY <2>1, <2>4
  <2>6. Entries'
    <3>1. Pool(order, [entry EXCEPT ![id] = e])
      BY <2>1, <2>2, <2>3, UpdateKeeps
    <3>2. Pool(order', entry')
      BY <1>10, <2>4, <3>1
    <3>3. ReadyIds(entry') = ReadyIds(entry)
      BY <2>1, <2>3, <2>5 DEF ReadyIds
    <3>4. QED
      BY <2>1, <3>2, <3>3 DEF Entries, Bounded
  <2> DEFINE r == [call[c] EXCEPT !.at = "holding"]
  <2>7. r.at = "holding" /\ r.id = id /\ r.object = call[c].object
    BY <1>1 DEF CallType
  <2>8. r \in CallType
    BY <1>1 DEF CallType
  <2>9. call' = [call EXCEPT ![c] = r]
    BY <1>10 DEF Goto
  <2> HIDE DEF r
  <2>10. Calls(call') /\ call'[c] = r /\ \A d \in Callers \ {c} : call'[d] = call[d]
    <3>1. r.object \in Objects /\ Calls(call)
      BY <1>0, <1>3, <2>7
    <3>2. /\ Calls([call EXCEPT ![c] = r]) /\ [call EXCEPT ![c] = r][c] = r
          /\ \A d \in Callers \ {c} : [call EXCEPT ![c] = r][d] = call[d]
      BY <2>8, <3>1, CallGoes
    <3>3. QED
      BY <2>9, <3>2
  <2>11. Types'
    BY <1>0, <1>5, <2>6, <2>10 DEF Types, Logs, logVars
  <2>12. \A i \in Ids : /\ entry'[i].object = entry[i].object
                        /\ entry'[i].phase = "loading" <=> entry[i].phase = "loading"
                        /\ entry'[i].phase = "none" <=> entry[i].phase = "none"
    BY <2>1, <2>3, <2>5
  <2>13. Queued'
    BY <1>0, <1>2, <1>3, <2>12 DEF Queued, First, stateVars, chainVars
  <2>14. Commits'
    BY <1>0, <1>3, <2>10, <2>12, CommitsKept
  <2>15. Checks'
    BY <1>0, <1>3, <2>10, ChecksKept
  <2>16. Holds(c)' /\ Fit(c)'
    <3>1. Current(id) /\ Joined(c)
      BY <1>0, <1>2, <1>10 DEF Held, Fit
    <3>2. Current(id)' /\ Joined(c)'
      BY <1>5, <2>3, <2>5, <2>7, <2>10, <3>1 DEF Current, Joined, SameState
    <3>3. QED
      BY <2>3, <2>5, <2>7, <2>10, <3>2 DEF Fit, Holds, HoldAts, Current
  <2>17. ASSUME NEW d \in Callers \ {c}
         PROVE  Fit(d)' /\ (Holds(d)' <=> Holds(d)) /\ (Holds(d) => call[d].id # id)
    <3>1. call'[d] = call[d] /\ Fit(d) /\ call[d].id \in Ids
      BY <1>0, <2>10 DEF Held, Calls, CallType
    <3>2. Holds(d)' <=> Holds(d)
      BY <2>12, <3>1 DEF Holds, Joined
    <3>3. Holds(d) => call[d].id # id
      BY <1>0, <1>4, <1>10 DEF Held, Sole
    <3>4. CASE call[d].id = id
      <4>1. ~Holds(d)'
        BY <3>2, <3>3, <3>4
      <4>2. call[d].at # "holding"
        BY <3>1, <3>3, <3>4 DEF Fit, Holds, HoldAts
      <4>3. QED
        BY <3>1, <3>2, <3>3, <4>1, <4>2 DEF Fit, Holds, HoldAts
    <3>5. CASE call[d].id # id
      <4>1. entry'[call[d].id] = entry[call[d].id] /\ SameState(call[d].id)
        BY <1>5, <2>5, <3>1, <3>5
      <4>2. Fit(d)'
        BY <3>1, <4>1 DEF Fit, Joined, Current, SameState
      <4>3. QED
        BY <3>2, <3>3, <4>2
    <3>6. QED
      BY <3>4, <3>5
  <2>18. Held'
    <3>1. Holds(c)
      BY <1>4, <1>10
    <3>2. \A d \in Callers : (Holds(d)' <=> Holds(d)) /\ call'[d].id = call[d].id
      BY <2>7, <2>10, <2>16, <2>17, <3>1
    <3>3. Sole'
      BY <1>0, <3>2 DEF Held, Sole
    <3>4. \A i \in Ids : Reserved(i)' => Reserved(i)
      BY <2>1, <2>5 DEF Reserved
    <3>5. Taken'
      BY <1>0, <3>2, <3>4 DEF Held, Taken
    <3>6. QED
      BY <2>16, <2>17, <3>3, <3>5 DEF Held
  <2>19. QED
    BY <2>11, <2>13, <2>14, <2>15, <2>18 DEF IInv
<1>11. QED
  BY <1>2, <1>8, <1>9, <1>10 DEF CommitReturns

(* Release: the holder gives the entry up. *)
LEMMA ReleaseStep ==
  ASSUME IInv, PoolAssumption, NEW c \in Callers, Release(c)
  PROVE  IInv'
<1>1. call[c].id \in Ids /\ Commits /\ Checks /\ Fit(c)
  BY DEF IInv, Types, Calls, CallType, Held
<1> PICK id \in Ids : id = call[c].id
  BY <1>1
<1>2. call[c].at = "holding" /\ UNCHANGED <<logVars, stateVars, chainVars>>
  BY DEF Release
<1>3. Holds(c) /\ entry[id].phase \notin {"none", "loading"}
  BY <1>1, <1>2 DEF Fit, Holds, HoldAts
<1>4. \A i \in Ids : Job("commit", c) \notin Jobs(i) /\ Job("check", c) \notin Jobs(i)
  BY <1>1, <1>2, NoCommit, NoCheck
<1>5. MakeReady(id, entry[id], Return(c)) \/ Remove(id, Return(c))
  BY DEF Release
<1>6. QED
  BY <1>2, <1>3, <1>4, <1>5, GivesUp

(* Publish: the holder takes the entry out and becomes the owner. *)
LEMMA PublishStep ==
  ASSUME IInv, PoolAssumption, NEW c \in Callers, Publish(c)
  PROVE  IInv'
<1>0. Logs /\ States /\ Chains /\ Calls(call) /\ Entries /\ Queued /\ Commits /\ Checks /\ Held /\ Types
  BY DEF IInv, Types
<1>1. call[c].id \in Ids
  BY <1>0 DEF Calls, CallType
<1> PICK id \in Ids : id = call[c].id
  BY <1>1
<1>2. /\ call[c].at = "holding" /\ Remove(id, Return(c))
      /\ owner' = [owner EXCEPT ![id] = "live"]
      /\ UNCHANGED <<logVars, cursor, running>>
  BY DEF Publish
<1>3. Holds(c) /\ entry[id].phase = "reserved" /\ owner[id] = "none"
  BY <1>0, <1>2 DEF Held, Fit, Holds, HoldAts, Current
<1>4. \A i \in Ids : Job("commit", c) \notin Jobs(i) /\ Job("check", c) \notin Jobs(i)
  BY <1>0, <1>2, NoCommit, NoCheck
<1>5. /\ Calls(Return(c)) /\ Return(c)[c].at = "idle"
      /\ \A d \in Callers \ {c} : Return(c)[d] = call[d]
  BY <1>0, CallReturns, IdleType
<1>6. /\ Entries' /\ Shrinks(id) /\ entry'[id] = NoEntry /\ Calls(call')
      /\ \A i \in Ids \ {id} : entry'[i] = entry[i]
      /\ \A d \in Callers : \/ call'[d] = Return(c)[d]
                            \/ Return(c)[d].at = "settled" /\ call'[d].at = "woken"
  BY <1>0, <1>2, <1>5, RemoveFacts
<1>7. States' /\ owner'[id] = "live" /\ \A i \in Ids \ {id} : owner'[i] = owner[i]
  BY <1>0, <1>2 DEF States
<1>8. \A i \in Ids \ {id} : SameState(i)
  BY <1>2, <1>7 DEF SameState, logVars
<1>9. Job("retire", NoObject) \notin Jobs(id)
  BY <1>0, <1>3 DEF Queued
<1>10. \A i \in Ids : entry'[i].object \in {entry[i].object, NoObject}
  BY <1>6, NoEntryType
<1>11. \A i \in Ids : entry[i].phase = "loading" => entry'[i].phase = "loading"
  BY <1>3, <1>6
<1>12. /\ Chains' /\ Queued'
       /\ \A i \in Ids, d \in Callers :
            /\ Job("commit", d) \in Jobs(i)' => Job("commit", d) \in Jobs(i)
            /\ Job("check", d) \in Jobs(i)' => Job("check", d) \in Jobs(i)
  <2>1. CASE UNCHANGED chain
    <3>1. \A i \in Ids : Jobs(i)' = Jobs(i) /\ Within(chain'[i], chain[i])
      BY <1>0, <2>1, WithinItself DEF Jobs, Chains
    <3>2. \A i \in Ids : running'[i] # "none" => First(i, "append")'
      BY <1>0, <1>2, <2>1 DEF Queued, First
    <3>3. \A i \in Ids : Job("retire", NoObject) \in Jobs(i)' => owner'[i] = "retiring"
      BY <1>0, <1>7, <1>9, <3>1 DEF Queued
    <3>4. Chains'
      BY <1>0, <2>1 DEF Chains
    <3>5. \A i \in Ids : Jobs(i)' \subseteq Jobs(i)
      BY <3>1
    <3>6. entry'[id].object \in {entry[id].object, NoObject} /\ entry[id].phase # "loading"
      BY <1>3, <1>10
    <3>7. Queued'
      BY <1>0, <1>6, <3>1, <3>2, <3>3, <3>4, <3>5, <3>6, QueuedShrinks
    <3>8. QED
      BY <3>1, <3>4, <3>7
  <2>2. CASE Queue(id, Job("append", NoObject))
    <3> DEFINE job == Job("append", NoObject)
    <3>1. job \in JobType /\ job.kind = "append" /\ job.kind # "load" /\ job.kind # "commit"
      BY JobsMade, JobFacts
    <3>2. job # Job("retire", NoObject) /\ \A d : job # Job("commit", d) /\ job # Job("check", d)
      BY JobFacts
    <3> HIDE DEF job
    <3>3. Queue(id, job)
      BY <2>2 DEF job
    <3>4. /\ Chains' /\ \A i \in Ids \ {id} : Jobs(i)' = Jobs(i)
          /\ Jobs(id)' = Jobs(id) \cup {job}
      BY <1>0, <3>1, <3>3, QueueFacts
    <3>5. \A i \in Ids : Job("retire", NoObject) \in Jobs(i)' => owner'[i] = "retiring"
      BY <1>0, <1>7, <1>9, <3>2, <3>4 DEF Queued
    <3>6. running' = running
      BY <1>2
    <3>7. Queued'
      BY <1>0, <1>10, <1>11, <3>1, <3>3, <3>5, <3>6, QueuedGrows
    <3>8. QED
      BY <3>2, <3>4, <3>7
  <2>3. QED
    BY <2>1, <2>2 DEF Publish
<1>13. call'[c].at \notin HoldAts
  BY <1>5, <1>6 DEF HoldAts
<1>14. \A d \in Callers \ {c} : \/ call'[d] = call[d]
                                \/ call[d].at = "settled" /\ call'[d].at = "woken"
  BY <1>5, <1>6
<1>15. \A i \in Ids, d \in Callers :
         /\ Job("commit", d) \in Jobs(i)' => Job("commit", d) \in Jobs(i) /\ d # c
         /\ Job("check", d) \in Jobs(i)' => Job("check", d) \in Jobs(i) /\ d # c
  BY <1>4, <1>12
<1>16. /\ entry'[id].phase \in {"none", "ready"} /\ entry[id].phase \notin {"none", "loading"}
       /\ entry'[id].object \in {entry[id].object, NoObject} /\ UNCHANGED logVars
  BY <1>2, <1>3, <1>6, NoEntryType
<1>17. QED
  BY <1>3, <1>6, <1>7, <1>8, <1>12, <1>13, <1>14, <1>15, <1>16, Leaves

(* A queued operation of an aborted call never starts. *)
LEMMA DropFacts ==
  ASSUME Chains, Queued, NEW id \in Ids, NEW job \in JobType, job.kind # "append",
         NEW q \in 2..Len(chain[id]), chain[id][q] = job,
         chain' = [chain EXCEPT ![id] = Without(@, job)]
  PROVE  /\ Chains' /\ \A i \in Ids : Within(chain'[i], chain[i]) /\ Jobs(i)' \subseteq Jobs(i)
         /\ job \notin Jobs(id)'
         /\ \A i \in Ids : First(i, "append") => First(i, "append")'
<1>1. chain[id] \in Seq(JobType) /\ Distinct(chain[id])
  BY DEF Chains, Queued
<1> DEFINE t == Without(chain[id], job)
<1>2. /\ t \in Seq(JobType) /\ Within(t, chain[id]) /\ job \notin Elements(t)
      /\ t # <<>> /\ Head(t) = Head(chain[id])
  BY <1>1, WithoutJobs
<1>3. Elements(t) \subseteq Elements(chain[id])
  BY <1>2, WithinElements
<1> HIDE DEF t
<1>4. chain' \in [Ids -> Seq(JobType)] /\ chain'[id] = t /\ \A i \in Ids \ {id} : chain'[i] = chain[i]
  BY <1>2 DEF Chains, t
<1>5. /\ Jobs(id)' = Elements(t) /\ Jobs(id) = Elements(chain[id])
      /\ \A i \in Ids \ {id} : Jobs(i)' = Jobs(i)
  BY <1>4 DEF Jobs, Elements
<1>6. \A i \in Ids \ {id} : Within(chain'[i], chain[i])
  BY <1>4, WithinItself DEF Chains
<1>7. \A i \in Ids : First(i, "append") => First(i, "append")'
  BY <1>2, <1>4 DEF First
<1>8. QED
  BY <1>2, <1>3, <1>4, <1>5, <1>6, <1>7 DEF Chains

(* A call goes on that holds nothing and has no operation in a chain, or   *)
(* whose operation leaves it.                                              *)
LEMMA CallDrops ==
  ASSUME IInv, PoolAssumption, UNCHANGED <<logVars, stateVars, running, pool>>, Calls(call'),
         NEW c \in Callers, \A d \in Callers \ {c} : call'[d] = call[d],
         call'[c].at \notin HoldAts, ~Holds(c),
         Chains', \A i \in Ids : Within(chain'[i], chain[i]) /\ Jobs(i)' \subseteq Jobs(i),
         \A i \in Ids : running[i] # "none" => First(i, "append")',
         \A i \in Ids : Job("commit", c) \notin Jobs(i)' /\ Job("check", c) \notin Jobs(i)'
  PROVE  IInv'
<1>0. Logs /\ States /\ Chains /\ Calls(call) /\ Entries /\ Queued /\ Commits /\ Checks /\ Held /\ Types
  BY DEF IInv, Types
<1>1. Types'
  BY <1>0 DEF Types, Logs, States, Entries, logVars, stateVars, pool
<1>2. entry' = entry /\ owner' = owner /\ running' = running
  BY DEF pool, stateVars
<1>3. Queued'
  <2>1. \A i \in Ids : Job("retire", NoObject) \in Jobs(i)' => owner'[i] = "retiring"
    BY <1>0, <1>2 DEF Queued
  <2>2. \A i \in Ids : Job("load", entry[i].object) \in Jobs(i)' => entry'[i].phase = "loading"
    BY <1>0, <1>2 DEF Queued
  <2>3. QED
    BY <1>0, <1>2, <2>1, <2>2, QueuedKept
<1>4. Commits'
  <2>1. \A i \in Ids, d \in Callers : Job("commit", d) \in Jobs(i)' =>
          Job("commit", d) \in Jobs(i) /\ call'[d] = call[d]
    OBVIOUS
  <2>2. QED
    BY <1>0, <1>2, <2>1, CommitsKept
<1>5. Checks'
  BY <1>0, ChecksKept
<1>6. Held'
  <2>1. \A d \in Callers : call'[d].at \in HoldAts => call'[d] = call[d] /\ call[d].id \in Ids
    BY <1>0 DEF Calls, CallType
  <2>2. \A d \in Callers : Holds(d) => call'[d] = call[d]
    OBVIOUS
  <2>3. \A i \in Ids : Current(i) => Current(i)'
    BY <1>2 DEF Current, stateVars, logVars
  <2>4. QED
    BY <1>0, <1>2, <2>1, <2>2, <2>3, HeldStill
<1>7. QED
  BY <1>1, <1>3, <1>4, <1>5, <1>6 DEF IInv

(* Abort: a queued operation is dropped, and a commit that was takes its   *)
(* entry along.                                                            *)
LEMMA AbortStep ==
  ASSUME IInv, PoolAssumption, NEW c \in Callers, Abort(c)
  PROVE  IInv'
<1>0. Logs /\ States /\ Chains /\ Calls(call) /\ Entries /\ Queued /\ Commits /\ Checks /\ Held /\ Types
  BY DEF IInv, Types
<1>1. call[c].id \in Ids
  BY <1>0 DEF Calls, CallType
<1> PICK id \in Ids : id = call[c].id
  BY <1>1
<1>2. UNCHANGED <<logVars, stateVars, running>>
  BY DEF Abort
<1>3. /\ Calls(Return(c)) /\ Return(c)[c].at = "idle"
      /\ \A d \in Callers \ {c} : Return(c)[d] = call[d]
  BY <1>0, CallReturns, IdleType
<1>4. Return(c)[c].at \notin HoldAts
  BY <1>3 DEF HoldAts
<1>5. CASE /\ call[c].at \in {"calling", "result", "settled"} /\ call' = Return(c)
           /\ UNCHANGED <<pool, chain>>
  <2>1. ~Holds(c) /\ \A i \in Ids : Job("commit", c) \notin Jobs(i) /\ Job("check", c) \notin Jobs(i)
    BY <1>0, <1>5, NoCommit, NoCheck DEF Holds, HoldAts
  <2>2. UNCHANGED <<logVars, stateVars, chainVars, pool>>
    BY <1>2, <1>5 DEF chainVars
  <2>3. QED
    BY <1>3, <1>4, <1>5, <2>1, <2>2, CallMoves
<1>6. ASSUME NEW kind \in {"check", "commit"}, call[c].at = IF kind = "check" THEN "checking" ELSE "committing",
             NEW q \in 2..Len(chain[id]), chain[id][q] = Job(kind, c),
             chain' = [chain EXCEPT ![id] = Without(@, Job(kind, c))]
      PROVE  /\ Chains' /\ \A i \in Ids : Within(chain'[i], chain[i]) /\ Jobs(i)' \subseteq Jobs(i)
             /\ \A i \in Ids : First(i, "append") => First(i, "append")'
             /\ \A i \in Ids : Job("commit", c) \notin Jobs(i)' /\ Job("check", c) \notin Jobs(i)'
  <2> DEFINE job == Job(kind, c)
  <2>1. job \in JobType /\ job.kind # "append"
    BY JobsMade, JobFacts
  <2>2. \A i \in Ids : \/ kind = "check" /\ Job("commit", c) \notin Jobs(i)
                       \/ kind = "commit" /\ Job("check", c) \notin Jobs(i)
    BY <1>0, <1>6 DEF Commits, Checks
  <2>3. \A i \in Ids : job \in Jobs(i) => i = id
    BY <1>0, <1>6 DEF Commits, Checks
  <2>4. chain[id][q] = job /\ chain' = [chain EXCEPT ![id] = Without(@, job)]
    BY <1>6
  <2> HIDE DEF job
  <2>5. /\ Chains' /\ \A i \in Ids : Within(chain'[i], chain[i]) /\ Jobs(i)' \subseteq Jobs(i)
        /\ job \notin Jobs(id)'
        /\ \A i \in Ids : First(i, "append") => First(i, "append")'
    BY <1>0, <2>1, <2>4, DropFacts
  <2>6. \A i \in Ids : job \notin Jobs(i)'
    BY <2>3, <2>5
  <2>7. \A i \in Ids : Job("commit", c) \notin Jobs(i)' /\ Job("check", c) \notin Jobs(i)'
    BY <2>2, <2>5, <2>6 DEF job
  <2>8. QED
    BY <2>5, <2>7
<1>7. ASSUME NEW kind \in {"check", "commit"}, call[c].at = IF kind = "check" THEN "checking" ELSE "committing",
             NEW q \in 2..Len(chain[id]), chain[id][q] = Job(kind, c),
             chain' = [chain EXCEPT ![id] = Without(@, Job(kind, c))],
             call' = Return(c), UNCHANGED pool, ~Holds(c)
      PROVE  IInv'
  <2>1. \A i \in Ids : running[i] # "none" => First(i, "append")'
    BY <1>0, <1>6, <1>7 DEF Queued
  <2>2. UNCHANGED <<logVars, stateVars, running, pool>>
    BY <1>2, <1>7
  <2>3. /\ Chains' /\ \A i \in Ids : Within(chain'[i], chain[i]) /\ Jobs(i)' \subseteq Jobs(i)
        /\ \A i \in Ids : Job("commit", c) \notin Jobs(i)' /\ Job("check", c) \notin Jobs(i)'
    BY <1>6, <1>7
  <2>4. /\ Calls(call') /\ call'[c].at \notin HoldAts
        /\ \A d \in Callers \ {c} : call'[d] = call[d]
    BY <1>3, <1>4, <1>7
  <2>5. QED
    BY <1>7, <2>1, <2>2, <2>3, <2>4, CallDrops
<1>8. ASSUME call[c].at = "committing",
             NEW q \in 2..Len(chain[id]), chain[id][q] = Job("commit", c),
             chain' = [chain EXCEPT ![id] = Without(@, Job("commit", c))],
             Joined(c), Remove(id, Return(c))
      PROVE  IInv'
  <2>1. /\ Chains' /\ \A i \in Ids : Within(chain'[i], chain[i]) /\ Jobs(i)' \subseteq Jobs(i)
        /\ \A i \in Ids : First(i, "append") => First(i, "append")'
        /\ \A i \in Ids : Job("commit", c) \notin Jobs(i)' /\ Job("check", c) \notin Jobs(i)'
    BY <1>6, <1>8
  <2>2. Holds(c) /\ entry[id].phase = "committing"
    BY <1>0, <1>8 DEF Held, Fit, Holds, HoldAts
  <2>3. /\ Entries' /\ Shrinks(id) /\ entry'[id] = NoEntry /\ Calls(call')
        /\ \A d \in Callers : \/ call'[d] = Return(c)[d]
                              \/ Return(c)[d].at = "settled" /\ call'[d].at = "woken"
    BY <1>0, <1>3, <1>8, RemoveFacts
  <2>4. /\ entry'[id].object \in {entry[id].object, NoObject} /\ entry'[id].phase \in {"none", "ready"}
        /\ entry[id].phase \notin {"none", "loading"} /\ entry[id].phase # "loading"
    BY <2>2, <2>3, NoEntryType
  <2>5. Queued'
    <3>1. \A i \in Ids : running'[i] # "none" => First(i, "append")'
      BY <1>0, <1>2, <2>1 DEF Queued
    <3>2. \A i \in Ids : Job("retire", NoObject) \in Jobs(i)' => owner'[i] = "retiring"
      BY <1>0, <1>2, <2>1 DEF Queued, stateVars
    <3>3. QED
      BY <1>0, <2>1, <2>3, <2>4, <3>1, <3>2, QueuedShrinks
  <2>6. call'[c].at \notin HoldAts
    BY <1>3, <2>3 DEF HoldAts
  <2>7. \A d \in Callers \ {c} : \/ call'[d] = call[d]
                                 \/ call[d].at = "settled" /\ call'[d].at = "woken"
    BY <1>3, <2>3
  <2>8. \A i \in Ids, d \in Callers :
           /\ Job("commit", d) \in Jobs(i)' => Job("commit", d) \in Jobs(i) /\ d # c
           /\ Job("check", d) \in Jobs(i)' => Job("check", d) \in Jobs(i) /\ d # c
    BY <2>1
  <2>9. States' /\ UNCHANGED logVars /\ \A i \in Ids : SameState(i)
    BY <1>0, <1>2 DEF States, stateVars, logVars, SameState
  <2>10. QED
    BY <2>1, <2>2, <2>3, <2>4, <2>5, <2>6, <2>7, <2>8, <2>9, Leaves
<1>9. CASE /\ call[c].at = "checking"
           /\ \E q \in 2..Len(chain[id]) : chain[id][q] = Job("check", c)
           /\ chain' = [chain EXCEPT ![id] = Without(@, Job("check", c))]
           /\ call' = Return(c) /\ UNCHANGED pool
  <2>1. ~Holds(c)
    BY <1>9 DEF Holds, HoldAts
  <2>2. QED
    BY <1>7, <1>9, <2>1
<1>10. CASE /\ call[c].at = "committing"
            /\ \E q \in 2..Len(chain[id]) : chain[id][q] = Job("commit", c)
            /\ chain' = [chain EXCEPT ![id] = Without(@, Job("commit", c))]
            /\ \/ Joined(c) /\ Remove(id, Return(c))
               \/ ~Joined(c) /\ call' = Return(c) /\ UNCHANGED pool
  <2>1. CASE Joined(c) /\ Remove(id, Return(c))
    BY <1>8, <1>10, <2>1
  <2>2. CASE ~Joined(c) /\ call' = Return(c) /\ UNCHANGED pool
    <3>1. ~Holds(c)
      BY <2>2 DEF Holds
    <3>2. QED
      BY <1>7, <1>10, <2>2, <3>1
  <2>3. QED
    BY <1>10, <2>1, <2>2
<1>11. QED
  BY <1>5, <1>9, <1>10 DEF Abort

(* CheckSettles: the answer of a check reaches the call that asked. *)
LEMMA CheckSettlesStep ==
  ASSUME IInv, PoolAssumption, NEW id \in Ids, CheckSettles(id)
  PROVE  IInv'
<1>0. Logs /\ States /\ Chains /\ Calls(call) /\ Entries /\ Queued /\ Commits /\ Checks /\ Held /\ Types
  BY DEF IInv, Types
<1>1. First(id, "check") /\ Pop(id) /\ UNCHANGED <<logVars, stateVars, running, pool>>
  BY DEF CheckSettles
<1>2. /\ Chains' /\ \A i \in Ids : Within(chain'[i], chain[i]) /\ Jobs(i)' \subseteq Jobs(i)
      /\ Head(chain[id]) \in JobType /\ Head(chain[id]) \in Jobs(id)
      /\ Head(chain[id]).kind = "check"
      /\ Head(chain[id]) \notin Jobs(id)'
      /\ \A i \in Ids : running[i] # "none" => First(i, "append")'
  BY <1>0, <1>1, PopFacts
<1>3. Head(chain[id]).by \in Callers
  BY <1>2, JobKinds
<1> PICK c \in Callers : c = Head(chain[id]).by
  BY <1>3
<1>4. Head(chain[id]) = Job("check", c)
  BY <1>2, JobKinds
<1>5. call[c].at = "checking" /\ call[c].id = id /\ call[c] \in CallType
  BY <1>0, <1>2, <1>4 DEF Checks, Calls
<1>6. \A i \in Ids : Job("commit", c) \notin Jobs(i)' /\ Job("check", c) \notin Jobs(i)'
  <2>1. ASSUME NEW i \in Ids, Job("check", c) \in Jobs(i)'
        PROVE  FALSE
    <3>1. Job("check", c) \in Jobs(i)
      BY <1>2, <2>1
    <3>2. i = id
      BY <1>0, <1>5, <3>1 DEF Checks
    <3>3. QED
      BY <1>2, <1>4, <2>1, <3>2
  <2>2. QED
    BY <1>0, <1>2, <1>5, <2>1 DEF Commits
<1>7. /\ Calls(call') /\ call'[c].at \in {"idle", "checking"}
      /\ \A d \in Callers \ {c} : call'[d] = call[d]
  <2>1. CASE call' = Return(c)
    BY <1>0, <2>1, CallReturns, IdleType
  <2>2. CASE call' = [call EXCEPT ![c].outcome = IF call[c].rev = stored[id] THEN "current" ELSE "stale"]
    <3> DEFINE r == [call[c] EXCEPT !.outcome = IF call[c].rev = stored[id] THEN "current" ELSE "stale"]
    <3>1. r.at = "checking" /\ r.object = call[c].object
      BY <1>5 DEF CallType
    <3>2. r \in CallType
      BY <1>5 DEF CallType
    <3>3. call' = [call EXCEPT ![c] = r]
      BY <2>2
    <3> HIDE DEF r
    <3>4. r.object \in Objects /\ Calls(call)
      BY <1>0, <1>5, <3>1 DEF Calls, Referring
    <3>5. /\ Calls([call EXCEPT ![c] = r]) /\ [call EXCEPT ![c] = r][c] = r
          /\ \A d \in Callers \ {c} : [call EXCEPT ![c] = r][d] = call[d]
      BY <3>2, <3>4, CallGoes
    <3>6. QED
      BY <3>1, <3>3, <3>5
  <2>3. QED
    BY <2>1, <2>2 DEF CheckSettles
<1>8. ~Holds(c) /\ call'[c].at \notin HoldAts
  BY <1>5, <1>7 DEF Holds, HoldAts
<1>9. QED
  BY <1>1, <1>2, <1>6, <1>7, <1>8, CallDrops

(* CheckReturns: a stale entry goes only if it is ready. *)
LEMMA CheckReturnsStep ==
  ASSUME IInv, PoolAssumption, NEW c \in Callers, CheckReturns(c)
  PROVE  IInv'
<1>0. Logs /\ States /\ Chains /\ Calls(call) /\ Entries /\ Queued /\ Commits /\ Checks /\ Held /\ Types
  BY DEF IInv, Types
<1>1. call[c].id \in Ids
  BY <1>0 DEF Calls, CallType
<1> PICK id \in Ids : id = call[c].id
  BY <1>1
<1>2. /\ call[c].at = "checking" /\ call[c].outcome \in {"current", "stale"}
      /\ UNCHANGED <<logVars, stateVars, chainVars>>
  BY DEF CheckReturns
<1>3. ~Holds(c) /\ \A i \in Ids : Job("commit", c) \notin Jobs(i) /\ Job("check", c) \notin Jobs(i)
  BY <1>0, <1>2, NoCommit, NoCheck DEF Holds, HoldAts
<1>4. CASE call' \in {Return(c), Again(c)} /\ UNCHANGED pool
  <2>1. /\ Calls(Return(c)) /\ Return(c)[c].at = "idle"
        /\ \A d \in Callers \ {c} : Return(c)[d] = call[d]
    BY <1>0, CallReturns, IdleType
  <2>2. /\ Calls(Again(c)) /\ Again(c)[c].at = "calling"
        /\ \A d \in Callers \ {c} : Again(c)[d] = call[d]
    BY <1>0, CallAgain
  <2>3. /\ Calls(call') /\ call'[c].at \in {"idle", "calling"}
        /\ \A d \in Callers \ {c} : call'[d] = call[d]
    BY <1>4, <2>1, <2>2
  <2>4. call'[c].at \notin HoldAts
    BY <2>3 DEF HoldAts
  <2>5. UNCHANGED <<logVars, stateVars, chainVars, pool>>
    BY <1>2, <1>4
  <2>6. QED
    BY <1>3, <2>3, <2>4, <2>5, CallMoves
<1>5. CASE entry[id].phase = "ready" /\ Remove(id, Again(c))
  <2>1. entry[id].phase \notin {"none", "loading"} /\ ~Reserved(id)
    BY <1>5 DEF Reserved
  <2>2. QED
    BY <1>2, <1>3, <1>5, <2>1, GivesUp
<1>6. QED
  BY <1>4, <1>5 DEF CheckReturns

(* Inspect: a ready entry becomes the latest, and a check is queued. *)
LEMMA InspectStep ==
  ASSUME IInv, PoolAssumption, NEW c \in Callers, Inspect(c)
  PROVE  IInv'
<1>0. Logs /\ States /\ Chains /\ Calls(call) /\ Entries /\ Queued /\ Commits /\ Checks /\ Held /\ Types
  BY DEF IInv, Types
<1>1. call[c].id \in Ids /\ call[c] \in CallType
  BY <1>0 DEF Calls, CallType
<1> PICK id \in Ids : id = call[c].id
  BY <1>1
<1>2. call[c].at = "loaded" /\ UNCHANGED <<logVars, stateVars, running>>
  BY DEF Inspect
<1>3. /\ ~Holds(c) /\ call[c].object \in Objects
      /\ \A i \in Ids : Job("commit", c) \notin Jobs(i) /\ Job("check", c) \notin Jobs(i)
  BY <1>0, <1>2, NoCommit, NoCheck DEF Holds, HoldAts, Calls, Referring
<1>4. /\ Entries' /\ Shrinks(id)
      /\ \/ UNCHANGED pool
         \/ entry[id].phase = "ready" /\ (entry'[id] = entry[id] \/ entry'[id] = NoEntry)
  <2>1. CASE UNCHANGED pool
    BY <1>0, <2>1 DEF Entries, pool, Shrinks
  <2>2. CASE entry[id].phase = "ready" /\ Touch(id, entry)
    <3>1. /\ Pool(order', entry') /\ Bounded(entry')
          /\ \A i \in Ids : \/ entry'[i] = entry[i]
                            \/ entry[i].phase = "ready" /\ entry'[i] = NoEntry
      BY <1>0, <2>2, TouchKeeps DEF Entries
    <3>2. QED
      BY <2>2, <3>1 DEF Entries, Shrinks
  <2>3. QED
    BY <2>1, <2>2 DEF Inspect
<1>5. /\ \A i \in Ids : entry'[i] = entry[i] \/ (entry[i].phase = "ready" /\ entry'[i] = NoEntry)
      /\ \A i \in Ids : entry'[i].object \in {entry[i].object, NoObject}
      /\ \A i \in Ids : entry[i].phase = "loading" => entry'[i].phase = "loading"
  BY <1>4, NoEntryType DEF Shrinks, pool
<1>6. /\ Calls(call') /\ call'[c].at \in {"idle", "checking"} /\ call'[c].id \in Ids
      /\ \A d \in Callers \ {c} : call'[d] = call[d]
      /\ \/ UNCHANGED chain
         \/ /\ Queue(id, Job("check", c)) /\ call'[c].at = "checking" /\ call'[c].id = id
            /\ call'[c].outcome = "pending"
  <2>1. CASE call' = Return(c) /\ UNCHANGED chain
    <3>1. Idle \in CallType /\ Idle.at = "idle"
      BY IdleType
    <3>2. Calls(call') /\ call'[c] = Idle /\ \A d \in Callers \ {c} : call'[d] = call[d]
      BY <1>0, <2>1, CallReturns
    <3>3. QED
      BY <2>1, <3>1, <3>2 DEF CallType
  <2>2. CASE /\ Queue(id, Job("check", c))
             /\ call' = [call EXCEPT ![c].at = "checking", ![c].outcome = "pending"]
    <3> DEFINE r == [call[c] EXCEPT !.at = "checking", !.outcome = "pending"]
    <3>1. r.at = "checking" /\ r.object = call[c].object /\ r.id = id /\ r.outcome = "pending"
      BY <1>1 DEF CallType
    <3>2. r \in CallType
      BY <1>1 DEF CallType
    <3>3. call' = [call EXCEPT ![c] = r]
      BY <1>0, <2>2 DEF Calls
    <3> HIDE DEF r
    <3>4. r.object \in Objects /\ Calls(call)
      BY <1>0, <1>3, <3>1
    <3>5. /\ Calls([call EXCEPT ![c] = r]) /\ [call EXCEPT ![c] = r][c] = r
          /\ \A d \in Callers \ {c} : [call EXCEPT ![c] = r][d] = call[d]
      BY <3>2, <3>4, CallGoes
    <3>6. QED
      BY <2>2, <3>1, <3>3, <3>5
  <2>3. QED
    BY <2>1, <2>2 DEF Inspect
<1>7. owner' = owner /\ running' = running /\ \A i \in Ids : SameState(i)
  BY <1>2 DEF stateVars, logVars, SameState
<1>8. /\ Chains' /\ Queued'
      /\ \A i \in Ids, d \in Callers :
           /\ Job("commit", d) \in Jobs(i)' => Job("commit", d) \in Jobs(i)
           /\ Job("check", d) \in Jobs(i)' => Job("check", d) \in Jobs(i) \/ (d = c /\ i = id /\ chain' # chain)
  <2>1. CASE UNCHANGED chain
    <3>1. \A i \in Ids : Jobs(i)' = Jobs(i) /\ Within(chain'[i], chain[i])
      BY <1>0, <2>1, WithinItself DEF Jobs, Chains
    <3>2. \A i \in Ids : running'[i] # "none" => First(i, "append")'
      BY <1>0, <1>7, <2>1 DEF Queued, First
    <3>3. \A i \in Ids : Job("retire", NoObject) \in Jobs(i)' => owner'[i] = "retiring"
      BY <1>0, <1>7, <3>1 DEF Queued
    <3>4. Chains'
      BY <1>0, <2>1 DEF Chains
    <3>5. \A i \in Ids : Job("load", entry[i].object) \in Jobs(i)' => entry'[i].phase = "loading"
      BY <1>0, <1>5, <3>1 DEF Queued
    <3>6. Queued'
      BY <1>0, <1>5, <3>1, <3>2, <3>3, <3>4, <3>5, QueuedKept
    <3>7. QED
      BY <3>1, <3>4, <3>6
  <2>2. CASE Queue(id, Job("check", c))
    <3> DEFINE job == Job("check", c)
    <3>1. job \in JobType /\ job.kind = "check" /\ job.kind # "load" /\ job.kind # "commit"
      BY JobsMade, JobFacts
    <3>2. /\ job # Job("retire", NoObject) /\ \A d : job # Job("commit", d)
          /\ \A d : job = Job("check", d) => d = c
      BY JobFacts
    <3>3. job \notin Jobs(id) /\ Queue(id, job)
      BY <1>3, <2>2
    <3> HIDE DEF job
    <3>4. /\ Chains' /\ \A i \in Ids \ {id} : Jobs(i)' = Jobs(i)
          /\ Jobs(id)' = Jobs(id) \cup {job}
      BY <1>0, <3>1, <3>3, QueueFacts
    <3>5. \A i \in Ids : Job("retire", NoObject) \in Jobs(i)' => owner'[i] = "retiring"
      BY <1>0, <1>7, <3>2, <3>4 DEF Queued
    <3>6. Queued'
      BY <1>0, <1>5, <1>7, <3>1, <3>3, <3>5, QueuedGrows
    <3>7. chain' # chain
      BY <3>3, <3>4 DEF Jobs
    <3>8. QED
      BY <3>2, <3>4, <3>6, <3>7
  <2>3. QED
    BY <1>6, <2>1, <2>2
<1>9. Types'
  BY <1>0, <1>2, <1>4, <1>6, <1>8 DEF Types, Logs, States, logVars, stateVars
<1>10. Commits'
  <2>1. ASSUME NEW i \in Ids, NEW d \in Callers, Job("commit", d) \in Jobs(i)'
        PROVE  /\ Job("commit", d) \in Jobs(i) /\ call'[d] = call[d]
               /\ entry'[i].phase \notin {"none", "loading"} =>
                    entry[i].phase \notin {"none", "loading"} /\ entry'[i].object = entry[i].object
    <3>1. Job("commit", d) \in Jobs(i) /\ d # c
      BY <1>3, <1>8, <2>1
    <3>2. entry'[i] = entry[i] \/ entry'[i] = NoEntry
      BY <1>5
    <3>3. QED
      BY <1>6, <3>1, <3>2, NoEntryType
  <2>2. QED
    BY <1>0, <2>1, CommitsKept
<1>11. Checks'
  <2>1. ASSUME NEW i \in Ids, NEW d \in Callers, Job("check", d) \in Jobs(i)'
        PROVE  call'[d].at = "checking" /\ call'[d].id = i /\ call'[d].outcome = "pending"
    <3>1. CASE Job("check", d) \in Jobs(i)
      BY <1>0, <1>3, <1>6, <3>1 DEF Checks
    <3>2. CASE d = c /\ i = id /\ chain' # chain
      BY <1>6, <3>2
    <3>3. QED
      BY <1>8, <2>1, <3>1, <3>2
  <2>2. QED
    BY <2>1 DEF Checks
<1>12. Held'
  <2>1. \A d \in Callers : call'[d].at \in HoldAts => call'[d] = call[d] /\ call[d].id \in Ids
    BY <1>0, <1>6 DEF HoldAts, Calls, CallType
  <2>2. \A d \in Callers : Holds(d) => call'[d] = call[d]
    BY <1>3, <1>6
  <2>3. CASE UNCHANGED pool
    <3>1. entry' = entry
      BY <2>3 DEF pool
    <3>2. \A i \in Ids : Current(i) => Current(i)'
      BY <1>7, <3>1 DEF Current, SameState
    <3>3. QED
      BY <1>0, <2>1, <2>2, <3>1, <3>2, HeldStill
  <2>4. CASE entry[id].phase = "ready" /\ (entry'[id] = entry[id] \/ entry'[id] = NoEntry)
    <3>1. ~Reserved(id) /\ ~Reserved(id)'
      BY <2>4, NoEntryType DEF Reserved
    <3>2. entry'[id].object \in {entry[id].object, NoObject}
      BY <1>5
    <3>3. QED
      BY <1>0, <1>4, <1>7, <2>1, <2>2, <3>1, <3>2, HeldLeaves
  <2>5. QED
    BY <1>4, <2>3, <2>4
<1>13. QED
  BY <1>8, <1>9, <1>10, <1>11, <1>12 DEF IInv

-----------------------------------------------------------------------------
(* The log, the coordinator's state or a chain changes, the pool does not, *)
(* nor any call but such as are refused before they asked for anything.    *)
LEMMA StateMovesRefusing ==
  ASSUME IInv, UNCHANGED pool, Logs', States', Chains', Queued', Calls(call'),
         \A c \in Callers : call'[c] = call[c] \/ (call[c].at = "calling" /\ call'[c].at = "idle"),
         \A i \in Ids, d \in Callers :
           /\ Job("commit", d) \in Jobs(i)' => Job("commit", d) \in Jobs(i)
           /\ Job("check", d) \in Jobs(i)' => Job("check", d) \in Jobs(i),
         \A i \in Ids : Reserved(i) /\ Current(i) => Current(i)'
  PROVE  IInv'
<1>0. Calls(call) /\ Entries /\ Commits /\ Checks /\ Held
  BY DEF IInv, Types
<1>1. entry' = entry /\ order' = order
  BY DEF pool
<1>2. Types'
  BY <1>0, <1>1 DEF Types, Entries
<1>3. Commits' /\ Checks'
  <2>1. ASSUME NEW i \in Ids, NEW d \in Callers
        PROVE  /\ Job("commit", d) \in Jobs(i)' => Job("commit", d) \in Jobs(i) /\ call'[d] = call[d]
               /\ Job("check", d) \in Jobs(i)' => Job("check", d) \in Jobs(i) /\ call'[d] = call[d]
    <3>1. Job("commit", d) \in Jobs(i) => call[d].at = "committing"
      BY <1>0 DEF Commits
    <3>2. Job("check", d) \in Jobs(i) => call[d].at = "checking"
      BY <1>0 DEF Checks
    <3>3. QED
      BY <3>1, <3>2
  <2>2. QED
    BY <1>0, <1>1, <2>1, CommitsKept, ChecksKept
<1>4. Held'
  <2>1. \A c \in Callers : call[c].id \in Ids
    BY <1>0 DEF Calls, CallType
  <2>2. \A c \in Callers : call'[c].at \in HoldAts => call'[c] = call[c]
    BY DEF HoldAts
  <2>3. \A c \in Callers : Holds(c) => call'[c] = call[c]
    BY DEF Holds, HoldAts
  <2>4. QED
    BY <1>0, <1>1, <2>1, <2>2, <2>3, HeldStill
<1>5. QED
  BY <1>2, <1>3, <1>4 DEF IInv

(* ... and neither does any call.                                          *)
LEMMA StateMoves ==
  ASSUME IInv, UNCHANGED <<pool, call>>, Logs', States', Chains', Queued',
         \A i \in Ids, d \in Callers :
           /\ Job("commit", d) \in Jobs(i)' => Job("commit", d) \in Jobs(i)
           /\ Job("check", d) \in Jobs(i)' => Job("check", d) \in Jobs(i),
         \A i \in Ids : Reserved(i) /\ Current(i) => Current(i)'
  PROVE  IInv'
<1>1. Calls(call')
  BY DEF IInv, Types
<1>2. UNCHANGED pool /\ \A c \in Callers : call'[c] = call[c]
  OBVIOUS
<1>3. QED
  BY <1>1, <1>2, StateMovesRefusing

(* An append takes an entry out that no finished commit has reserved. *)
LEMMA EntryGoes ==
  ASSUME IInv, PoolAssumption, NEW id \in Ids, Remove(id, call), Logs', States', Chains',
         \A i \in Ids : Within(chain'[i], chain[i]) /\ Jobs(i)' \subseteq Jobs(i),
         \A i \in Ids : running'[i] # "none" => First(i, "append")', owner' = owner,
         \A i \in Ids \ {id} : SameState(i), ~Reserved(id) \/ ~Current(id)
  PROVE  IInv'
<1>0. Calls(call) /\ Entries /\ Queued /\ Commits /\ Checks /\ Held /\ Types
  BY DEF IInv, Types
<1>1. /\ Entries' /\ Shrinks(id) /\ entry'[id] = NoEntry /\ Calls(call')
      /\ \A i \in Ids \ {id} : entry'[i] = entry[i]
      /\ \A c \in Callers : \/ call'[c] = call[c]
                            \/ call[c].at = "settled" /\ call'[c].at = "woken"
  BY <1>0, RemoveFacts
<1>2. Types'
  BY <1>1 DEF Types
<1>3. Queued'
  <2>1. \A i \in Ids : entry'[i].object \in {entry[i].object, NoObject}
    BY <1>1, NoEntryType
  <2>2. \A i \in Ids : Job("retire", NoObject) \in Jobs(i)' => owner'[i] = "retiring"
    BY <1>0 DEF Queued
  <2>3. \A i \in Ids : Job("load", entry[i].object) \in Jobs(i)' =>
          entry'[i].phase = "loading" \/ entry'[i].object = NoObject
    BY <1>0, <1>1, NoEntryType DEF Queued
  <2>4. QED
    BY <1>0, <2>1, <2>2, <2>3, QueuedKept
<1>4. Commits'
  <2>1. ASSUME NEW i \in Ids, NEW d \in Callers, Job("commit", d) \in Jobs(i)'
        PROVE  /\ Job("commit", d) \in Jobs(i) /\ call'[d] = call[d]
               /\ entry'[i].phase \notin {"none", "loading"} =>
                    entry[i].phase \notin {"none", "loading"} /\ entry'[i].object = entry[i].object
    <3>1. Job("commit", d) \in Jobs(i) /\ call[d].at = "committing"
      BY <1>0, <2>1 DEF Commits
    <3>2. call'[d] = call[d]
      BY <1>1, <3>1
    <3>3. QED
      BY <1>1, <3>1, <3>2, NoEntryType
  <2>2. QED
    BY <1>0, <2>1, CommitsKept
<1>5. Checks'
  <2>1. ASSUME NEW i \in Ids, NEW d \in Callers, Job("check", d) \in Jobs(i)'
        PROVE  Job("check", d) \in Jobs(i) /\ call'[d] = call[d]
    <3>1. Job("check", d) \in Jobs(i) /\ call[d].at = "checking"
      BY <1>0, <2>1 DEF Checks
    <3>2. QED
      BY <1>1, <3>1
  <2>2. QED
    BY <1>0, <2>1, ChecksKept
<1>6. Held'
  <2>1. \A c \in Callers : call'[c].at \in HoldAts => call'[c] = call[c]
    BY <1>1 DEF HoldAts
  <2>2. \A c \in Callers : Holds(c) => call'[c] = call[c]
    BY <1>1 DEF Holds, HoldAts
  <2>3. ~Reserved(id)' /\ entry'[id].object = NoObject
    BY <1>1, NoEntryType DEF Reserved
  <2>4. QED
    BY <1>0, <1>1, <2>1, <2>2, <2>3, HeldLeaves
<1>7. QED
  BY <1>2, <1>3, <1>4, <1>5, <1>6 DEF IInv

(* An append, or a retirement, enters a chain. *)
LEMMA JobEnters ==
  ASSUME IInv, PoolAssumption, UNCHANGED <<logVars, cursor, running, pool, call>>, States',
         NEW id \in Ids, NEW job \in {Job("append", NoObject), Job("retire", NoObject)},
         Queue(id, job), job.kind = "append" \/ job \notin Jobs(id),
         job = Job("retire", NoObject) => owner'[id] = "retiring",
         \A i \in Ids : owner[i] \in {"none", "retiring"} => owner'[i] = owner[i]
  PROVE  IInv'
<1>0. Logs /\ Chains /\ Queued
  BY DEF IInv, Types
<1>1. entry' = entry /\ running' = running /\ cursor' = cursor /\ own' = own
  BY DEF pool, logVars
<1>2. /\ job \in JobType /\ job.kind # "load" /\ job.kind # "commit"
      /\ \A d : job # Job("commit", d) /\ job # Job("check", d)
  BY JobsMade, JobFacts
<1>3. /\ Chains' /\ \A i \in Ids \ {id} : Jobs(i)' = Jobs(i)
      /\ Jobs(id)' = Jobs(id) \cup {job}
  BY <1>0, <1>2, QueueFacts
<1>4. ASSUME NEW i \in Ids, Job("retire", NoObject) \in Jobs(i)'
      PROVE  owner'[i] = "retiring"
  <2>1. CASE Job("retire", NoObject) \in Jobs(i)
    BY <1>0, <2>1 DEF Queued
  <2>2. CASE i = id /\ job = Job("retire", NoObject)
    BY <2>2
  <2>3. QED
    BY <1>3, <1>4, <2>1, <2>2
<1>5. Queued'
  BY <1>0, <1>1, <1>2, <1>4, QueuedGrows
<1>6. \A i \in Ids, d \in Callers :
        /\ Job("commit", d) \in Jobs(i)' => Job("commit", d) \in Jobs(i)
        /\ Job("check", d) \in Jobs(i)' => Job("check", d) \in Jobs(i)
  BY <1>2, <1>3
<1>7. Logs'
  BY <1>0 DEF Logs, logVars
<1>8. \A i \in Ids : Reserved(i) /\ Current(i) => Current(i)'
  BY <1>1 DEF Current
<1>9. QED
  BY <1>3, <1>5, <1>6, <1>7, <1>8, StateMoves

(* AppendAsked: an append is queued. *)
LEMMA AppendAskedStep ==
  ASSUME IInv, PoolAssumption, NEW id \in Ids, AppendAsked(id)
  PROVE  IInv'
<1>1. /\ Queue(id, Job("append", NoObject)) /\ owner' = owner
      /\ UNCHANGED <<logVars, cursor, running, pool, call>>
  BY DEF AppendAsked, stateVars
<1>2. /\ Job("append", NoObject).kind = "append"
      /\ Job("append", NoObject) # Job("retire", NoObject)
  BY JobFacts
<1>3. States'
  BY <1>1 DEF IInv, Types, States
<1>4. QED
  BY <1>1, <1>2, <1>3, JobEnters

(* Retire: a live session is no ownerless one. *)
LEMMA RetireStep ==
  ASSUME IInv, PoolAssumption, NEW id \in Ids, Retire(id)
  PROVE  IInv'
<1>0. Logs /\ States /\ Chains /\ Queued
  BY DEF IInv, Types
<1>1. /\ owner[id] = "live" /\ owner' = [owner EXCEPT ![id] = "flushing"]
      /\ UNCHANGED <<logVars, cursor, chainVars, pool, call>>
  BY DEF Retire
<1>2. chain' = chain /\ running' = running /\ \A i : Jobs(i)' = Jobs(i)
  BY <1>1 DEF chainVars, Jobs
<1>3. States' /\ Logs' /\ Chains'
  BY <1>0, <1>1, <1>2 DEF States, Logs, Chains, logVars
<1>4. \A i \in Ids : owner'[i] = IF i = id THEN "flushing" ELSE owner[i]
  BY <1>0, <1>1 DEF States
<1>5. Queued'
  <2>1. entry' = entry
    BY <1>1 DEF pool
  <2>2. QED
    BY <1>0, <1>1, <1>2, <1>4, <2>1 DEF Queued, First
<1>6. \A i \in Ids : Reserved(i) /\ Current(i) => Current(i)'
  BY <1>1, <1>2, <1>4 DEF Current, pool, logVars
<1>7. QED
  BY <1>1, <1>2, <1>3, <1>5, <1>6, StateMoves

(* RetireFlushed: a retirement is queued, the only one. *)
LEMMA RetireFlushedStep ==
  ASSUME IInv, PoolAssumption, NEW id \in Ids, RetireFlushed(id)
  PROVE  IInv'
<1>0. Logs /\ States /\ Chains /\ Queued
  BY DEF IInv, Types
<1>1. owner[id] = "flushing" /\ UNCHANGED <<logVars, cursor, running, pool>>
  BY DEF RetireFlushed
<1>2. CASE /\ owner' = [owner EXCEPT ![id] = "stuck"] /\ UNCHANGED chain
           /\ call' = [c \in Callers |->
                         IF call[c].at = "calling" /\ call[c].id = id THEN Idle ELSE call[c]]
  <2>1. States' /\ Logs' /\ Chains' /\ \A i : Jobs(i)' = Jobs(i)
    BY <1>0, <1>1, <1>2 DEF States, Logs, Chains, logVars, Jobs
  <2>2. \A i \in Ids : owner'[i] = IF i = id THEN "stuck" ELSE owner[i]
    BY <1>0, <1>2 DEF States
  <2>3. Queued'
    <3>1. entry' = entry
      BY <1>1 DEF pool
    <3>2. QED
      BY <1>0, <1>1, <1>2, <2>1, <2>2, <3>1 DEF Queued, First
  <2>4. \A i \in Ids : Reserved(i) /\ Current(i) => Current(i)'
    BY <1>1, <2>2 DEF Current, pool, logVars
  <2>5. /\ Calls(call')
        /\ \A c \in Callers : call'[c] = call[c] \/ (call[c].at = "calling" /\ call'[c].at = "idle")
    <3>1. Idle \in CallType /\ Idle.at = "idle"
      BY IdleType
    <3>2. Idle.at \notin Referring
      BY <3>1 DEF Referring
    <3>3. Calls(call)
      BY DEF IInv, Types
    <3>4. QED
      BY <1>2, <3>1, <3>2, <3>3 DEF Calls
  <2>6. UNCHANGED pool
    BY <1>1
  <2>7. QED
    BY <2>1, <2>3, <2>4, <2>5, <2>6, StateMovesRefusing
<1>3. CASE /\ owner' = [owner EXCEPT ![id] = "retiring"] /\ UNCHANGED call
           /\ Queue(id, Job("retire", NoObject))
  <2>1. \A i \in Ids : owner'[i] = IF i = id THEN "retiring" ELSE owner[i]
    BY <1>0, <1>3 DEF States
  <2>2. States'
    BY <1>0, <1>1, <1>3 DEF States
  <2>3. Job("retire", NoObject) \notin Jobs(id)
    BY <1>0, <1>1 DEF Queued
  <2>4. QED
    BY <1>1, <1>3, <2>1, <2>2, <2>3, JobEnters
<1>4. QED
  BY <1>2, <1>3 DEF RetireFlushed

(* Retired: the state goes; until then the owner was there, so nothing was *)
(* reserved and committed.                                                 *)
LEMMA RetiredStep ==
  ASSUME IInv, PoolAssumption, NEW id \in Ids, Retired(id)
  PROVE  IInv'
<1>0. Logs /\ States /\ Chains /\ Queued
  BY DEF IInv, Types
<1>1. /\ First(id, "retire") /\ Pop(id) /\ owner' = [owner EXCEPT ![id] = "none"]
      /\ cursor' = [cursor EXCEPT ![id] = 0] /\ UNCHANGED <<logVars, running, pool, call>>
  BY DEF Retired
<1>2. /\ Chains' /\ \A i \in Ids : Within(chain'[i], chain[i]) /\ Jobs(i)' \subseteq Jobs(i)
      /\ \A i \in Ids \ {id} : chain'[i] = chain[i]
      /\ Head(chain[id]) \in JobType /\ Head(chain[id]) \in Jobs(id)
      /\ Head(chain[id]).kind = "retire"
      /\ Head(chain[id]) \notin Jobs(id)'
      /\ \A i \in Ids : running[i] # "none" => First(i, "append")'
  BY <1>0, <1>1, PopFacts
<1>3. Head(chain[id]) = Job("retire", NoObject)
  BY <1>2, JobKinds
<1>4. owner[id] = "retiring"
  BY <1>0, <1>2, <1>3 DEF Queued
<1>5. /\ States' /\ Logs'
      /\ \A i \in Ids \ {id} : owner'[i] = owner[i] /\ cursor'[i] = cursor[i]
  BY <1>0, <1>1 DEF States, Logs, logVars
<1>6. entry' = entry /\ running' = running /\ own' = own
  BY <1>1 DEF pool, logVars
<1>7. Queued'
  <2>1. ASSUME NEW i \in Ids, Job("retire", NoObject) \in Jobs(i)'
        PROVE  owner'[i] = "retiring"
    BY <1>0, <1>2, <1>3, <1>5, <2>1 DEF Queued
  <2>2. \A i \in Ids : Job("load", entry[i].object) \in Jobs(i)' => entry'[i].phase = "loading"
    BY <1>0, <1>2, <1>6 DEF Queued
  <2>3. QED
    BY <1>0, <1>2, <1>6, <2>1, <2>2, QueuedKept
<1>8. \A i \in Ids : Reserved(i) /\ Current(i) => Current(i)'
  BY <1>4, <1>5, <1>6 DEF Current
<1>9. \A i \in Ids, d \in Callers :
        /\ Job("commit", d) \in Jobs(i)' => Job("commit", d) \in Jobs(i)
        /\ Job("check", d) \in Jobs(i)' => Job("check", d) \in Jobs(i)
  BY <1>2
<1>10. QED
  BY <1>1, <1>2, <1>5, <1>7, <1>8, <1>9, StateMoves

(* ForeignWrite: another process moves the end of the log, not what this   *)
(* one knows.                                                              *)
LEMMA ForeignWriteStep ==
  ASSUME IInv, PoolAssumption, NEW id \in Ids, ForeignWrite(id)
  PROVE  IInv'
<1>0. Logs /\ States /\ Chains /\ Queued
  BY DEF IInv, Types
<1>1. /\ stored' = [stored EXCEPT ![id] = @ + 1]
      /\ \E b \in BOOLEAN : broken' = [broken EXCEPT ![id] = b]
      /\ UNCHANGED <<own, stateVars, chainVars, pool, call>>
  BY DEF ForeignWrite
<1>2. Logs'
  <2>1. stored' \in [Ids -> Nat] /\ broken' \in [Ids -> BOOLEAN] /\ own' = own
    BY <1>0, <1>1 DEF Logs
  <2>2. \A i \in Ids : stored[i] <= stored'[i]
    BY <1>0, <1>1 DEF Logs
  <2>3. QED
    BY <1>0, <2>1, <2>2 DEF Logs
<1>3. States' /\ Chains' /\ Queued'
  BY <1>0, <1>1 DEF States, Chains, Queued, First, Jobs, stateVars, chainVars, pool
<1>4. \A i \in Ids : Current(i) => Current(i)'
  BY <1>1 DEF Current, stateVars, chainVars, pool
<1>5. \A i \in Ids : Jobs(i)' = Jobs(i)
  BY <1>1 DEF Jobs, chainVars
<1>6. QED
  BY <1>1, <1>2, <1>3, <1>4, <1>5, StateMoves

(* An append's operation leaves its chain, or starts to run: the pool and  *)
(* the coordinator's state of other sessions stay as they are.             *)
LEMMA AppendPops ==
  ASSUME IInv, NEW id \in Ids, First(id, "append"), Pop(id),
         \A i \in Ids \ {id} : running'[i] = running[i], running'[id] = "none"
  PROVE  /\ Chains' /\ \A i \in Ids : Within(chain'[i], chain[i]) /\ Jobs(i)' \subseteq Jobs(i)
         /\ \A i \in Ids : running'[i] # "none" => First(i, "append")'
<1>0. Chains /\ Queued
  BY DEF IInv, Types
<1>1. /\ Chains' /\ \A i \in Ids : Within(chain'[i], chain[i]) /\ Jobs(i)' \subseteq Jobs(i)
      /\ \A i \in Ids \ {id} : chain'[i] = chain[i]
  BY <1>0, PopFacts
<1>2. \A i \in Ids : running'[i] # "none" => First(i, "append")'
  BY <1>0, <1>1 DEF Queued, First
<1>3. QED
  BY <1>1, <1>2

(* AppendPops, of an append that starts or goes on. *)
LEMMA AppendStays ==
  ASSUME IInv, NEW id \in Ids, First(id, "append"), UNCHANGED chain,
         \A i \in Ids \ {id} : running'[i] = running[i]
  PROVE  /\ Chains' /\ \A i \in Ids : Within(chain'[i], chain[i]) /\ Jobs(i)' \subseteq Jobs(i)
         /\ \A i \in Ids : running'[i] # "none" => First(i, "append")'
<1>0. Chains /\ Queued
  BY DEF IInv, Types
<1>1. Chains' /\ \A i \in Ids : Jobs(i)' = Jobs(i)
  BY <1>0 DEF Chains, Jobs
<1>2. \A i \in Ids : Within(chain'[i], chain[i])
  BY <1>0, WithinItself DEF Chains
<1>3. \A i \in Ids : running'[i] # "none" => First(i, "append")'
  BY <1>0 DEF Queued, First
<1>4. QED
  BY <1>1, <1>2, <1>3

(* An append goes on and takes no entry out. *)
LEMMA AppendMoves ==
  ASSUME IInv, PoolAssumption, UNCHANGED <<pool, call, owner>>, Logs', States', Chains',
         NEW id \in Ids, \A i \in Ids \ {id} : SameState(i),
         \A i \in Ids : Within(chain'[i], chain[i]) /\ Jobs(i)' \subseteq Jobs(i),
         \A i \in Ids : running'[i] # "none" => First(i, "append")',
         ~Reserved(id) \/ ~Current(id) \/ SameState(id)
  PROVE  IInv'
<1>0. Queued
  BY DEF IInv
<1>1. entry' = entry /\ owner' = owner
  BY DEF pool
<1>2. Queued'
  <2>1. \A i \in Ids : Job("retire", NoObject) \in Jobs(i)' => owner'[i] = "retiring"
    BY <1>0, <1>1 DEF Queued
  <2>2. \A i \in Ids : Job("load", entry[i].object) \in Jobs(i)' => entry'[i].phase = "loading"
    BY <1>0, <1>1 DEF Queued
  <2>3. QED
    BY <1>0, <1>1, <2>1, <2>2, QueuedKept
<1>3. \A i \in Ids : Reserved(i) /\ Current(i) => Current(i)'
  BY <1>1 DEF Current, SameState
<1>4. \A i \in Ids, d \in Callers :
        /\ Job("commit", d) \in Jobs(i)' => Job("commit", d) \in Jobs(i)
        /\ Job("check", d) \in Jobs(i)' => Job("check", d) \in Jobs(i)
  OBVIOUS
<1>5. QED
  BY <1>2, <1>3, <1>4, StateMoves

(* AppendStarts: a reserved log refuses it; adoption takes a ready entry. *)
LEMMA AppendStartsStep ==
  ASSUME IInv, PoolAssumption, NEW id \in Ids, AppendStarts(id)
  PROVE  IInv'
<1>0. Logs /\ States /\ Chains /\ Queued
  BY DEF IInv, Types
<1>1. /\ First(id, "append") /\ running[id] = "none" /\ owner' = owner /\ cursor' = cursor
      /\ own' = own /\ UNCHANGED <<logVars, stateVars>>
  BY DEF AppendStarts, stateVars, logVars
<1>2. Logs'
  BY <1>0, <1>1 DEF Logs, logVars
<1>3. CASE Pop(id) /\ UNCHANGED <<running, pool, call>>
  <2>1. \A i \in Ids : SameState(i)
    BY <1>1, <1>3 DEF SameState
  <2>2. States'
    BY <1>0, <1>1, <1>3 DEF States
  <2>3. /\ Chains' /\ \A i \in Ids : Within(chain'[i], chain[i]) /\ Jobs(i)' \subseteq Jobs(i)
        /\ \A i \in Ids : running'[i] # "none" => First(i, "append")'
    BY <1>1, <1>3, AppendPops
  <2>4. QED
    BY <1>1, <1>2, <1>3, <2>1, <2>2, <2>3, AppendMoves
<1>4. ASSUME NEW how \in {"adopting", "writing"}, running' = [running EXCEPT ![id] = how],
             UNCHANGED chain
      PROVE  /\ Chains' /\ \A i \in Ids : Within(chain'[i], chain[i]) /\ Jobs(i)' \subseteq Jobs(i)
             /\ \A i \in Ids : running'[i] # "none" => First(i, "append")'
             /\ States' /\ \A i \in Ids \ {id} : SameState(i)
  <2>1. States' /\ \A i \in Ids \ {id} : running'[i] = running[i]
    BY <1>0, <1>1, <1>4 DEF States
  <2>2. \A i \in Ids \ {id} : SameState(i)
    BY <1>1, <2>1 DEF SameState
  <2>3. QED
    BY <1>1, <1>4, <2>1, <2>2, AppendStays
<1>5. CASE /\ ~Reserved(id) /\ running' = [running EXCEPT ![id] = "writing"]
           /\ UNCHANGED <<chain, pool, call>>
  <2>1. /\ Chains' /\ \A i \in Ids : Within(chain'[i], chain[i]) /\ Jobs(i)' \subseteq Jobs(i)
        /\ \A i \in Ids : running'[i] # "none" => First(i, "append")'
        /\ States' /\ \A i \in Ids \ {id} : SameState(i)
    BY <1>4, <1>5
  <2>2. QED
    BY <1>1, <1>2, <1>5, <2>1, AppendMoves
<1>6. CASE /\ ~Reserved(id) /\ running' = [running EXCEPT ![id] = "adopting"] /\ UNCHANGED chain
           /\ Remove(id, call) \/ UNCHANGED <<pool, call>>
  <2>1. /\ Chains' /\ \A i \in Ids : Within(chain'[i], chain[i]) /\ Jobs(i)' \subseteq Jobs(i)
        /\ \A i \in Ids : running'[i] # "none" => First(i, "append")'
        /\ States' /\ \A i \in Ids \ {id} : SameState(i)
    BY <1>4, <1>6
  <2>2. CASE UNCHANGED <<pool, call>>
    BY <1>1, <1>2, <1>6, <2>1, <2>2, AppendMoves
  <2>3. CASE Remove(id, call)
    BY <1>1, <1>2, <1>6, <2>1, <2>3, EntryGoes
  <2>4. QED
    BY <1>6, <2>2, <2>3
<1>7. QED
  BY <1>3, <1>5, <1>6 DEF AppendStarts, Reserved

(* AppendAdopts: while it adopts, no reservation of the id is committed. *)
LEMMA AppendAdoptsStep ==
  ASSUME IInv, PoolAssumption, NEW id \in Ids, AppendAdopts(id)
  PROVE  IInv'
<1>0. Logs /\ States /\ Chains /\ Queued
  BY DEF IInv, Types
<1>1. running[id] = "adopting" /\ UNCHANGED <<pool, call, owner>>
  BY DEF AppendAdopts
<1>2. First(id, "append") /\ ~Current(id)
  BY <1>0, <1>1 DEF Queued, Current
<1>3. /\ Chains' /\ \A i \in Ids : Within(chain'[i], chain[i]) /\ Jobs(i)' \subseteq Jobs(i)
      /\ \A i \in Ids : running'[i] # "none" => First(i, "append")'
      /\ States' /\ Logs' /\ \A i \in Ids \ {id} : SameState(i)
  <2>1. CASE /\ Pop(id) /\ running' = [running EXCEPT ![id] = "none"]
             /\ UNCHANGED <<logVars, cursor>>
    <3>1. /\ States' /\ Logs' /\ running'[id] = "none"
          /\ \A i \in Ids \ {id} : running'[i] = running[i]
      BY <1>0, <1>1, <2>1 DEF States, Logs, logVars
    <3>2. \A i \in Ids \ {id} : SameState(i)
      BY <1>1, <2>1, <3>1 DEF SameState, logVars
    <3>3. QED
      BY <1>2, <2>1, <3>1, <3>2, AppendPops
  <2>2. CASE /\ stored' = [stored EXCEPT ![id] = @ + 1]
             /\ own' = [own EXCEPT ![id] = stored[id] + 1]
             /\ broken' = [broken EXCEPT ![id] = FALSE]
             /\ UNCHANGED <<cursor, chain, running>>
    <3>1. /\ stored[id] + 1 \in Nat /\ own[id] <= stored[id]
      BY <1>0 DEF Logs
    <3>2. Logs' /\ \A i \in Ids \ {id} : own'[i] = own[i]
      BY <1>0, <2>2, <3>1 DEF Logs
    <3>3. States' /\ \A i \in Ids \ {id} : SameState(i)
      BY <1>0, <1>1, <2>2, <3>2 DEF States, SameState
    <3>4. QED
      BY <1>2, <2>2, <3>2, <3>3, AppendStays
  <2>3. CASE /\ cursor' = [cursor EXCEPT ![id] = stored[id]]
             /\ running' = [running EXCEPT ![id] = "writing"]
             /\ UNCHANGED <<logVars, chain>>
    <3>1. stored[id] \in Nat
      BY <1>0 DEF Logs
    <3>2. /\ States' /\ Logs'
          /\ \A i \in Ids \ {id} : running'[i] = running[i] /\ cursor'[i] = cursor[i]
      BY <1>0, <1>1, <2>3, <3>1 DEF States, Logs, logVars
    <3>3. \A i \in Ids \ {id} : SameState(i)
      BY <1>1, <2>3, <3>2 DEF SameState, logVars
    <3>4. QED
      BY <1>2, <2>3, <3>2, <3>3, AppendStays
  <2>4. QED
    BY <2>1, <2>2, <2>3 DEF AppendAdopts
<1>4. QED
  BY <1>1, <1>2, <1>3, AppendMoves

(* AppendSettles: an append that wrote took the entry out, whatever its    *)
(* phase: no reservation of the id was committed while it was writing.     *)
LEMMA AppendSettlesStep ==
  ASSUME IInv, PoolAssumption, NEW id \in Ids, AppendSettles(id)
  PROVE  IInv'
<1>0. Logs /\ States /\ Chains /\ Queued
  BY DEF IInv, Types
<1>1. /\ running[id] = "writing" /\ Pop(id) /\ running' = [running EXCEPT ![id] = "none"]
      /\ owner' = owner
  BY DEF AppendSettles
<1>2. First(id, "append") /\ ~Current(id)
  BY <1>0, <1>1 DEF Queued, Current
<1>3. /\ running'[id] = "none" /\ running' \in [Ids -> {"none", "adopting", "writing"}]
      /\ \A i \in Ids \ {id} : running'[i] = running[i]
  BY <1>0, <1>1 DEF States
<1>4. /\ Chains' /\ \A i \in Ids : Within(chain'[i], chain[i]) /\ Jobs(i)' \subseteq Jobs(i)
      /\ \A i \in Ids : running'[i] # "none" => First(i, "append")'
  BY <1>1, <1>2, <1>3, AppendPops
<1>5. CASE UNCHANGED <<logVars, cursor, pool, call>>
  <2>1. States' /\ Logs' /\ \A i \in Ids \ {id} : SameState(i)
    BY <1>0, <1>1, <1>3, <1>5 DEF States, Logs, SameState, logVars
  <2>2. QED
    BY <1>1, <1>2, <1>4, <1>5, <2>1, AppendMoves
<1>6. CASE /\ stored' = [stored EXCEPT ![id] = @ + 1]
           /\ own' = [own EXCEPT ![id] = stored[id] + 1]
           /\ cursor' = [cursor EXCEPT ![id] = @ + 1]
           /\ Remove(id, call) \/ UNCHANGED <<pool, call>>
           /\ UNCHANGED broken
  <2>1. stored[id] + 1 \in Nat /\ own[id] <= stored[id] /\ cursor[id] + 1 \in Nat
    BY <1>0 DEF Logs, States
  <2>2. Logs' /\ \A i \in Ids \ {id} : own'[i] = own[i]
    BY <1>0, <1>6, <2>1 DEF Logs
  <2>3. States' /\ \A i \in Ids \ {id} : cursor'[i] = cursor[i]
    BY <1>0, <1>1, <1>3, <1>6, <2>1 DEF States
  <2>4. \A i \in Ids \ {id} : SameState(i)
    BY <1>1, <1>3, <2>2, <2>3 DEF SameState
  <2>5. CASE UNCHANGED <<pool, call>>
    BY <1>1, <1>2, <1>4, <2>2, <2>3, <2>4, <2>5, AppendMoves
  <2>6. CASE Remove(id, call)
    BY <1>1, <1>2, <1>4, <2>2, <2>3, <2>4, <2>6, EntryGoes
  <2>7. QED
    BY <1>6, <2>5, <2>6
<1>7. QED
  BY <1>5, <1>6 DEF AppendSettles

-----------------------------------------------------------------------------
(* The invariant holds at first. *)
LEMMA InitHolds ==
  ASSUME PoolAssumption, Init
  PROVE  IInv
<1>1. NoEntry \in EntryType /\ NoEntry.phase = "none" /\ NoEntry.object = NoObject
  BY NoEntryType
<1>2. Idle \in CallType /\ Idle.at = "idle"
  BY IdleType
<1>3. Logs /\ States
  BY DEF Init, Logs, States
<1>4. \A id \in Ids : chain[id] = <<>> /\ entry[id] = NoEntry /\ running[id] = "none"
  BY DEF Init
<1>5. Chains /\ \A id \in Ids : Jobs(id) = {}
  <2>1. Chains
    BY DEF Init, Chains
  <2>2. \A id \in Ids : Len(chain[id]) = 0
    BY <1>4
  <2>3. QED
    BY <2>1, <2>2 DEF Jobs
<1>6. \A c \in Callers : call[c].at = "idle"
  BY <1>2 DEF Init
<1>7. Calls(call)
  BY <1>2, <1>6 DEF Init, Calls, Referring
<1>8. Entries
  <2>1. order \in Seq(Ids) /\ Len(order) = 0
    BY DEF Init
  <2>2. Injective(order) /\ Elements(order) = {}
    BY <2>1 DEF Injective, Elements
  <2>3. Pool(order, entry)
    BY <2>1, <2>2, <1>1, <1>4 DEF Pool, Init
  <2>4. ReadyIds(entry) = {}
    BY <1>1, <1>4 DEF ReadyIds
  <2>5. Bounded(entry)
    BY <2>4, FS_EmptySet DEF Bounded, PoolAssumption
  <2>6. QED
    BY <2>3, <2>5 DEF Entries
<1>9. Queued
  <2>1. \A id \in Ids : Len(chain[id]) = 0
    BY <1>4
  <2>2. \A id \in Ids : Distinct(chain[id]) /\ Ahead(chain[id], entry[id].object)
    BY <2>1 DEF Distinct, Ahead
  <2>3. QED
    BY <1>4, <1>5, <2>2 DEF Queued
<1>10. Commits /\ Checks
  BY <1>5 DEF Commits, Checks
<1>11. Held
  BY <1>1, <1>4, <1>6 DEF Held, Fit, Sole, Taken, Holds, HoldAts, Reserved
<1>12. QED
  BY <1>3, <1>5, <1>7, <1>8, <1>9, <1>10, <1>11 DEF IInv, Types

(* A step that changes nothing. *)
LEMMA Stutters ==
  ASSUME IInv, UNCHANGED vars
  PROVE  IInv'
<1>0. Logs /\ States /\ Chains /\ Queued /\ UNCHANGED <<pool, call>>
  BY DEF IInv, Types, vars
<1>1. Logs' /\ States' /\ Chains' /\ Queued'
  BY <1>0 DEF vars, logVars, stateVars, chainVars, pool, Logs, States, Chains, Queued, First, Jobs
<1>2. \A i \in Ids : Jobs(i)' = Jobs(i) /\ (Current(i) => Current(i)')
  BY DEF vars, logVars, stateVars, chainVars, pool, Jobs, Current
<1>3. QED
  BY <1>0, <1>1, <1>2, StateMoves

(* Every step keeps the invariant. *)
LEMMA NextHolds ==
  ASSUME PoolAssumption, IInv, [Next]_vars
  PROVE  IInv'
<1>1. ASSUME NEW c \in Callers,
             Join(c) \/ Reserve(c) \/ CommitReturns(c) \/ Release(c) \/ Publish(c)
               \/ Inspect(c) \/ CheckReturns(c) \/ Call(c) \/ Abort(c)
      PROVE  IInv'
  BY <1>1, JoinStep, ReserveStep, CommitReturnsStep, ReleaseStep, PublishStep, InspectStep,
     CheckReturnsStep, CallStep, AbortStep
<1>2. ASSUME NEW id \in Ids,
             LoadSettles(id) \/ CommitSettles(id) \/ CheckSettles(id) \/ AppendStarts(id)
               \/ AppendAdopts(id) \/ AppendSettles(id) \/ RetireFlushed(id) \/ Retired(id)
               \/ AppendAsked(id) \/ Retire(id) \/ ForeignWrite(id)
      PROVE  IInv'
  BY <1>2, LoadSettlesStep, CommitSettlesStep, CheckSettlesStep, AppendStartsStep,
     AppendAdoptsStep, AppendSettlesStep, RetireFlushedStep, RetiredStep, AppendAskedStep,
     RetireStep, ForeignWriteStep
<1>3. CASE UNCHANGED vars
  BY <1>3, Stutters
<1>4. QED
  BY <1>1, <1>2, <1>3 DEF Next, Settle, Environment

(* Every behaviour keeps the invariant. *)
THEOREM PreparationsInvariant == Spec => []IInv
<1>1. Init => IInv
  BY InitHolds, PoolAssumption
<1>2. IInv /\ [Next]_vars => IInv'
  BY NextHolds, PoolAssumption
<1>3. QED
  BY <1>1, <1>2, PTL DEF Spec

(* The invariant gives the types, and the keys of the map. *)
LEMMA InvTypes ==
  ASSUME IInv
  PROVE  TypeOK
<1>1. Logs /\ States /\ Calls(call) /\ Pool(order, entry) /\ Bounded(entry)
  BY DEF IInv, Types, Entries
<1>2. ASSUME NEW id \in Ids
      PROVE  Cardinality({i \in 1..Len(order) : order[i] = id})
               = IF entry[id].phase = "none" THEN 0 ELSE 1
  <2> DEFINE S == {i \in 1..Len(order) : order[i] = id}
  <2>1. CASE entry[id].phase = "none"
    <3>1. S = {}
      BY <1>1, <2>1 DEF Pool, Elements
    <3>2. QED
      BY <2>1, <3>1, FS_EmptySet
  <2>2. CASE entry[id].phase # "none"
    <3>1. PICK k \in 1..Len(order) : order[k] = id
      BY <1>1, <2>2 DEF Pool, Elements
    <3>2. S = {k}
      BY <1>1, <3>1 DEF Pool, Injective
    <3>3. Cardinality({k}) = 1
      BY FS_Singleton
    <3>4. QED
      BY <2>2, <3>2, <3>3
  <2>3. QED
    BY <2>1, <2>2
<1>3. QED
  BY <1>1, <1>2 DEF TypeOK, Logs, States, Calls, Pool, Bounded, ReadyIds

(* The invariant gives one holder for each reserved entry. *)
LEMMA InvExclusive ==
  ASSUME IInv
  PROVE  ExclusiveReservation
<1>1. Held /\ Sole /\ Taken /\ \A c \in Callers : Fit(c)
  BY DEF IInv, Held
<1>2. ASSUME NEW id \in Ids
      PROVE  Cardinality(HoldersOf(id)) = IF entry[id].phase \in {"committing", "reserved"} THEN 1 ELSE 0
  <2>1. \A c \in HoldersOf(id) : c \in Callers /\ Holds(c) /\ call[c].id = id /\ Reserved(id)
    BY <1>1 DEF HoldersOf, Holds, HoldAts, Fit, Reserved
  <2>2. CASE Reserved(id)
    <3>1. PICK c \in Callers : Holds(c) /\ call[c].id = id
      BY <1>1, <2>2 DEF Taken
    <3>2. HoldersOf(id) = {c}
      BY <1>1, <2>1, <3>1 DEF Sole, HoldersOf, Holds, HoldAts
    <3>3. Cardinality({c}) = 1
      BY FS_Singleton
    <3>4. QED
      BY <2>2, <3>2, <3>3 DEF Reserved
  <2>3. CASE ~Reserved(id)
    <3>1. HoldersOf(id) = {}
      BY <2>1, <2>3
    <3>2. QED
      BY <2>3, <3>1, FS_EmptySet DEF Reserved
  <2>4. QED
    BY <2>2, <2>3
<1>3. QED
  BY <1>2 DEF ExclusiveReservation

(* The invariant gives what a publication needs. *)
LEMMA InvCurrent ==
  ASSUME IInv
  PROVE  ReservationsAreCurrent
BY DEF IInv, Held, Fit, Current, ReservationsAreCurrent

(* The pool and the chains keep their shape: each prepared session is in   *)
(* the map under one key, and never are more ready than                    *)
(* preparedSessionCacheSize.                                               *)
THEOREM PreparationsTypes == Spec => []TypeOK
<1>1. IInv => TypeOK
  BY InvTypes
<1>2. QED
  BY <1>1, PreparationsInvariant, PTL

(* Whatever is aborted, evicted or invalidated, no two callers ever hold a *)
(* prepared session, and none is left reserved that nobody can release.    *)
THEOREM ReservationsExclusive == Spec => []ExclusiveReservation
<1>1. IInv => ExclusiveReservation
  BY InvExclusive
<1>2. QED
  BY <1>1, PreparationsInvariant, PTL

(* A reservation that is held can be published: it is in the pool, the log *)
(* has no owner, and the source holds everything this process wrote to it. *)
THEOREM ReservationsCurrent == Spec => []ReservationsAreCurrent
<1>1. IInv => ReservationsAreCurrent
  BY InvCurrent
<1>2. QED
  BY <1>1, PreparationsInvariant, PTL

=============================================================================
