-------------------------- MODULE WriteBehindProofs --------------------------
(***************************************************************************)
(* WriteBehind proved for every number of events, flushes and failures:    *)
(* the queue loses, repeats and reorders nothing, a resolved flush was a   *)
(* durability barrier, no retained event is left without a writer, and the *)
(* controller implements DurableLog.                                       *)
(***************************************************************************)
EXTENDS WriteBehind, SequenceTheorems, TLAPS

(* Every action, for proofs by one step per action. *)
LEMMA NextCases ==
  ASSUME [Next]_vars
  PROVE  \/ Enqueue \/ CoordinatorFlush \/ Deadline \/ InitSettles
         \/ WriteSucceeds \/ WriteFails \/ WriteDone \/ ContinueAutomatic
         \/ FlushRejected \/ Flush \/ OverlapSettled \/ DrainSettled
         \/ UNCHANGED vars
BY DEF Next, Settle

-----------------------------------------------------------------------------
(* Sequences of consecutive numbers. *)
LEMMA NumberedIsSeq ==
  ASSUME NEW n \in Nat
  PROVE  Numbered(n) \in Seq(Nat) /\ Len(Numbered(n)) = n
BY DEF Numbered

(* Appending the next number. *)
LEMMA NumberedAppend ==
  ASSUME NEW n \in Nat
  PROVE  Append(Numbered(n), n + 1) = Numbered(n + 1)
<1>1. /\ Append(Numbered(n), n + 1) \in Seq(Nat)
      /\ Len(Append(Numbered(n), n + 1)) = n + 1
      /\ \A i \in 1..n : Append(Numbered(n), n + 1)[i] = i
      /\ Append(Numbered(n), n + 1)[n + 1] = n + 1
  BY NumberedIsSeq, AppendProperties DEF Numbered
<1>2. Numbered(n + 1) \in Seq(Nat) /\ Len(Numbered(n + 1)) = n + 1
  BY NumberedIsSeq
<1>3. ASSUME NEW i \in 1..(n + 1)
      PROVE  Append(Numbered(n), n + 1)[i] = Numbered(n + 1)[i]
  BY <1>1 DEF Numbered
<1>4. QED
  BY <1>1, <1>2, <1>3, SeqEqual

(* A prefix of consecutive numbers is one. *)
LEMMA NumberedPrefix ==
  ASSUME NEW s \in Seq(Nat), NEW t \in Seq(Nat), NEW n \in Nat,
         s \o t = Numbered(n)
  PROVE  s = Numbered(Len(s)) /\ Len(s) + Len(t) = n
<1>1. Len(s) + Len(t) = n
  BY ConcatProperties, NumberedIsSeq
<1>2. Len(s) \in Nat /\ Len(t) \in Nat
  BY LenProperties
<1>3. \A i \in 1..Len(s) : s[i] = i
  <2>1. SUFFICES ASSUME NEW i \in 1..Len(s) PROVE s[i] = i
    OBVIOUS
  <2>2. i \in 1..(Len(s) + Len(t)) /\ i <= Len(s)
    BY <1>2
  <2>3. (s \o t)[i] = s[i]
    BY <2>2, ConcatProperties
  <2>4. Numbered(n)[i] = i
    BY <2>2, <1>1 DEF Numbered
  <2>5. QED
    BY <2>3, <2>4
<1>4. QED
  BY <1>1, <1>2, <1>3, NumberedIsSeq, SeqEqual DEF Numbered

-----------------------------------------------------------------------------
(* Concatenation of queues, from the theorems of the library. *)
LEMMA ConcatNat ==
  ASSUME NEW s \in Seq(Nat), NEW t \in Seq(Nat), NEW u \in Seq(Nat)
  PROVE  s \o t \in Seq(Nat) /\ (s \o t) \o u = s \o (t \o u)
<1>1. s \o t \in Seq(Nat)
  BY ConcatProperties
<1>2. (s \o t) \o u = s \o (t \o u)
  <2>1. /\ s \o t \in Seq(Nat) /\ t \o u \in Seq(Nat)
        /\ (s \o t) \o u \in Seq(Nat) /\ s \o (t \o u) \in Seq(Nat)
    BY ConcatProperties
  <2>2. /\ Len((s \o t) \o u) = Len(s) + Len(t) + Len(u)
        /\ Len(s \o (t \o u)) = Len(s) + Len(t) + Len(u)
    BY <2>1, ConcatProperties
  <2>3. ASSUME NEW i \in 1..Len((s \o t) \o u)
        PROVE  ((s \o t) \o u)[i] = (s \o (t \o u))[i]
    BY <2>1, <2>2, ConcatProperties
  <2>4. QED
    BY <2>1, <2>2, <2>3, SeqEqual
<1>3. QED
  BY <1>1, <1>2

(* The empty queue is a queue. *)
LEMMA EmptyIsSeq == <<>> \in Seq(Nat) /\ Len(<<>>) = 0
OBVIOUS

(* The type invariant is inductive by itself, part by part. *)
LEMMA TypeInit == Init => TypeOK
<1> SUFFICES ASSUME Init PROVE TypeOK
  OBVIOUS
<1>1. QueueTypeOK
  BY EmptyIsSeq DEF Init, QueueTypeOK
<1>2. WriteTypeOK
  BY EmptyIsSeq DEF Init, WriteTypeOK
<1>3. FlagTypeOK /\ CallTypeOK /\ BoundTypeOK
  BY DEF Init, FlagTypeOK, CallTypeOK, BoundTypeOK
<1>4. QED
  BY <1>1, <1>2, <1>3 DEF TypeOK

LEMMA QueueTypeStep == TypeOK /\ [Next]_vars => QueueTypeOK'
<1> SUFFICES ASSUME TypeOK, [Next]_vars PROVE QueueTypeOK'
  OBVIOUS
<1> USE DEF TypeOK, QueueTypeOK, queueVars
<1>1. CASE Enqueue
  BY <1>1, AppendProperties DEF Enqueue
<1>2. CASE WriteSucceeds
  BY <1>2, ConcatProperties DEF WriteSucceeds, WriteTypeOK
<1>3. CASE WriteFails
  BY <1>3, ConcatProperties DEF WriteFails, WriteTypeOK
<1>4. CASE Deadline \/ ContinueAutomatic
  BY <1>4, EmptyIsSeq DEF Deadline, ContinueAutomatic, StartWrite
<1>5. CASE Flush
  BY <1>5, EmptyIsSeq DEF Flush, DrainLoop, StartWrite
<1>6. CASE OverlapSettled \/ DrainSettled
  BY <1>6, EmptyIsSeq DEF OverlapSettled, DrainSettled, DrainLoop, StartWrite
<1>7. CASE \/ CoordinatorFlush \/ InitSettles \/ WriteDone \/ FlushRejected
           \/ UNCHANGED vars
  BY <1>7 DEF CoordinatorFlush, InitSettles, WriteDone, FlushRejected, vars
<1>8. QED
  BY <1>1, <1>2, <1>3, <1>4, <1>5, <1>6, <1>7, NextCases

LEMMA WriteTypeStep == TypeOK /\ [Next]_vars => WriteTypeOK'
BY NextCases, EmptyIsSeq
   DEF TypeOK, QueueTypeOK, WriteTypeOK, FlagTypeOK, CallTypeOK, BoundTypeOK,
       queueVars, writeVars, flagVars, callVars, boundVars, Enqueue, CoordinatorFlush,
       Deadline, InitSettles, WriteSucceeds, WriteFails, WriteDone,
       ContinueAutomatic, FlushRejected, Flush, OverlapSettled, DrainSettled,
       DrainLoop, StartWrite, vars

LEMMA FlagTypeStep == TypeOK /\ [Next]_vars => FlagTypeOK'
BY NextCases
   DEF TypeOK, QueueTypeOK, WriteTypeOK, FlagTypeOK, CallTypeOK, BoundTypeOK,
       queueVars, writeVars, flagVars, callVars, boundVars, Enqueue, CoordinatorFlush,
       Deadline, InitSettles, WriteSucceeds, WriteFails, WriteDone,
       ContinueAutomatic, FlushRejected, Flush, OverlapSettled, DrainSettled,
       DrainLoop, StartWrite, vars

LEMMA CallTypeStep == TypeOK /\ [Next]_vars => CallTypeOK'
<1> SUFFICES ASSUME TypeOK, [Next]_vars PROVE CallTypeOK'
  OBVIOUS
<1> USE DEF TypeOK, CallTypeOK, callVars
<1>1. CASE CoordinatorFlush \/ FlushRejected \/ InitSettles
  BY <1>1 DEF CoordinatorFlush, FlushRejected, InitSettles
<1>2. CASE Flush
  <2>1. joining' \in Nat /\ wanted' \in Nat /\ init' = init
    BY <1>2 DEF Flush, QueueTypeOK
  <2>2. /\ barrier' = barrier \/ barrier' \in {"none", "overlap", "drain"}
        /\ flushed' = flushed \/ flushed' = enqueued
    BY <1>2 DEF Flush, DrainLoop
  <2>3. QED
    BY <2>1, <2>2 DEF QueueTypeOK
<1>3. CASE OverlapSettled \/ DrainSettled
  BY <1>3 DEF OverlapSettled, DrainSettled, DrainLoop
<1>4. CASE \/ Enqueue \/ Deadline \/ WriteSucceeds \/ WriteFails \/ WriteDone
           \/ ContinueAutomatic \/ UNCHANGED vars
  BY <1>4 DEF Enqueue, Deadline, WriteSucceeds, WriteFails, WriteDone,
              ContinueAutomatic, vars
<1>5. QED
  BY <1>1, <1>2, <1>3, <1>4, NextCases

LEMMA BoundTypeStep == TypeOK /\ [Next]_vars => BoundTypeOK'
<1> SUFFICES ASSUME TypeOK, [Next]_vars PROVE BoundTypeOK'
  OBVIOUS
<1> USE DEF TypeOK, BoundTypeOK, boundVars
<1>1. CASE CoordinatorFlush \/ WriteFails
  BY <1>1 DEF CoordinatorFlush, WriteFails
<1>2. CASE \/ Enqueue \/ Deadline \/ InitSettles \/ WriteSucceeds \/ WriteDone
           \/ ContinueAutomatic \/ FlushRejected \/ Flush \/ OverlapSettled
           \/ DrainSettled \/ UNCHANGED vars
  BY <1>2 DEF Enqueue, Deadline, InitSettles, WriteSucceeds, WriteDone,
              ContinueAutomatic, FlushRejected, Flush, OverlapSettled, DrainSettled, vars
<1>3. QED
  BY <1>1, <1>2, NextCases

LEMMA TypeStep == TypeOK /\ [Next]_vars => TypeOK'
BY QueueTypeStep, WriteTypeStep, FlagTypeStep, CallTypeStep, BoundTypeStep DEF TypeOK

(* The state of the write controller is well typed in every reachable state. *)
THEOREM WriteBehindTypes == Spec => []TypeOK
BY TypeInit, TypeStep, PTL DEF Spec

-----------------------------------------------------------------------------
(* The scheduling facts are inductive over the type invariant. *)
LEMMA SchedulingStep == TypeOK /\ Scheduling /\ [Next]_vars => Scheduling'
<1> SUFFICES ASSUME TypeOK, Scheduling, [Next]_vars PROVE Scheduling'
  OBVIOUS
<1> USE DEF TypeOK, QueueTypeOK, WriteTypeOK, FlagTypeOK, CallTypeOK, BoundTypeOK,
           Scheduling, queueVars, writeVars, flagVars, callVars, boundVars
<1>1. CASE Enqueue
  BY <1>1 DEF Enqueue
<1>2. CASE CoordinatorFlush
  BY <1>2 DEF CoordinatorFlush
<1>3. CASE Deadline
  BY <1>3 DEF Deadline, StartWrite, MicrotasksDrained
<1>4. CASE InitSettles
  BY <1>4 DEF InitSettles
<1>5. CASE WriteSucceeds
  BY <1>5 DEF WriteSucceeds
<1>6. CASE WriteFails
  BY <1>6 DEF WriteFails
<1>7. CASE WriteDone
  BY <1>7 DEF WriteDone
<1>8. CASE ContinueAutomatic
  BY <1>8 DEF ContinueAutomatic, StartWrite
<1>9. CASE FlushRejected
  BY <1>9 DEF FlushRejected
<1>10. CASE Flush
  BY <1>10 DEF Flush, DrainLoop, StartWrite
<1>11. CASE OverlapSettled
  BY <1>11 DEF OverlapSettled, DrainLoop, StartWrite
<1>12. CASE DrainSettled
  BY <1>12 DEF DrainSettled, DrainLoop, StartWrite
<1>13. CASE UNCHANGED vars
  BY <1>13 DEF vars
<1>14. QED
  BY <1>1, <1>2, <1>3, <1>4, <1>5, <1>6, <1>7, <1>8, <1>9, <1>10, <1>11,
     <1>12, <1>13, NextCases
-----------------------------------------------------------------------------
(* A retained event keeps somebody who will write it. *)
LEMMA NoStrandedStep ==
  TypeOK /\ Scheduling /\ NoStrandedEvents /\ [Next]_vars => NoStrandedEvents'
<1> SUFFICES ASSUME TypeOK, Scheduling, NoStrandedEvents, [Next]_vars
             PROVE  NoStrandedEvents'
  OBVIOUS
<1> USE DEF NoStrandedEvents, queueVars, writeVars, flagVars, callVars, boundVars
<1>1. CASE Enqueue
  <2>1. CASE barrier # "none"
    BY <1>1, <2>1 DEF Enqueue
  <2>2. CASE barrier = "none" /\ automaticPaused
    BY <1>1, <2>2 DEF Enqueue
  <2>3. CASE barrier = "none" /\ ~automaticPaused
    <3>1. /\ timer' = (timer \/ pending = <<>>) /\ deadlineExpired' = deadlineExpired
          /\ active' = active /\ continuing' = continuing
          /\ joining' = joining /\ init' = init
      BY <1>1, <2>3 DEF Enqueue
    <3>2. CASE timer'
      BY <3>2
    <3>3. CASE ~timer'
      BY <2>3, <3>1, <3>3
    <3>4. QED
      BY <3>2, <3>3
  <2>4. QED
    BY <2>1, <2>2, <2>3
<1>2. CASE CoordinatorFlush
  BY <1>2 DEF CoordinatorFlush, TypeOK, CallTypeOK
<1>3. CASE Deadline
  BY <1>3 DEF Deadline, StartWrite, MicrotasksDrained, TypeOK, WriteTypeOK
<1>4. CASE InitSettles
  BY <1>4 DEF InitSettles
<1>5. CASE WriteSucceeds
  BY <1>5 DEF WriteSucceeds
<1>6. CASE WriteFails
  BY <1>6 DEF WriteFails
<1>7. CASE WriteDone
  BY <1>7 DEF WriteDone, Scheduling
<1>8. CASE ContinueAutomatic
  BY <1>8 DEF ContinueAutomatic, StartWrite, Scheduling
<1>9. CASE FlushRejected
  BY <1>9 DEF FlushRejected
<1>10. CASE Flush
  BY <1>10 DEF Flush, DrainLoop, StartWrite
<1>11. CASE OverlapSettled
  BY <1>11 DEF OverlapSettled, DrainLoop, StartWrite
<1>12. CASE DrainSettled
  BY <1>12 DEF DrainSettled, DrainLoop, StartWrite, Scheduling
<1>13. CASE UNCHANGED vars
  BY <1>13 DEF vars
<1>14. QED
  BY <1>1, <1>2, <1>3, <1>4, <1>5, <1>6, <1>7, <1>8, <1>9, <1>10, <1>11,
     <1>12, <1>13, NextCases

(* Starting a write moves the whole queue into the batch. *)
LEMMA StartWriteConserves ==
  ASSUME TypeOK, NEW bg \in BOOLEAN, StartWrite(bg), batch = <<>>, durable' = durable
  PROVE  (durable' \o batch') \o pending' = (durable \o batch) \o pending
<1>1. durable \o <<>> = durable /\ durable \o pending \in Seq(Nat)
  BY ConcatEmptySeq, ConcatProperties DEF TypeOK, QueueTypeOK
<1>2. (durable \o pending) \o <<>> = durable \o pending
  BY <1>1, ConcatEmptySeq
<1>3. QED
  BY <1>1, <1>2 DEF StartWrite

LEMMA ConservationStep ==
  TypeOK /\ Scheduling /\ Conservation /\ [Next]_vars => Conservation'
<1> SUFFICES ASSUME TypeOK, Scheduling, Conservation, [Next]_vars
             PROVE  Conservation'
  OBVIOUS
<1>0. /\ enqueued \in Nat /\ pending \in Seq(Nat) /\ durable \in Seq(Nat)
      /\ batch \in Seq(Nat) /\ durable \o batch \in Seq(Nat)
  BY ConcatProperties DEF TypeOK, QueueTypeOK, WriteTypeOK
<1> USE DEF Conservation, queueVars, writeVars, flagVars, callVars, boundVars
<1>1. CASE Enqueue
  <2> DEFINE stored == durable \o batch
  <2>0. stored \in Seq(Nat)
    BY <1>0
  <2> HIDE DEF stored
  <2>1. Append(stored \o pending, enqueued + 1) = Numbered(enqueued + 1)
    BY <1>0, NumberedAppend DEF stored
  <2>2. enqueued + 1 \in Nat /\ stored \o pending \in Seq(Nat)
    BY <1>0, <2>0, ConcatNat
  <2>3. /\ Append(stored \o pending, enqueued + 1) = (stored \o pending) \o <<enqueued + 1>>
        /\ Append(pending, enqueued + 1) = pending \o <<enqueued + 1>>
    BY <1>0, <2>2, AppendIsConcat
  <2>4. <<enqueued + 1>> \in Seq(Nat)
    BY <2>2
  <2>5. (stored \o pending) \o <<enqueued + 1>> = stored \o (pending \o <<enqueued + 1>>)
    <3>1. pending \in Seq(Nat)
      BY <1>0
    <3>2. QED
      BY <2>0, <2>4, <3>1, ConcatNat, Zenon
  <2>6. /\ durable' \o batch' = stored /\ enqueued' = enqueued + 1
        /\ pending' = Append(pending, enqueued + 1)
    BY <1>1 DEF Enqueue, stored
  <2>7. QED
    BY <2>1, <2>3, <2>5, <2>6
<1>2. CASE WriteSucceeds
  <2>1. (durable \o batch) \o <<>> = durable \o batch
    BY <1>0, ConcatEmptySeq
  <2>2. QED
    BY <1>2, <2>1 DEF WriteSucceeds
<1>3. CASE WriteFails
  <2>1. (durable \o batch) \o pending = durable \o (batch \o pending)
    <3>1. durable \in Seq(Nat) /\ batch \in Seq(Nat) /\ pending \in Seq(Nat)
      BY <1>0
    <3>2. QED
      BY <3>1, ConcatNat, Zenon
  <2>2. durable \o <<>> = durable
    BY <1>0, ConcatEmptySeq
  <2>3. QED
    BY <1>3, <2>1, <2>2 DEF WriteFails
<1>4. CASE Deadline
  BY <1>4, StartWriteConserves DEF Deadline, Scheduling
<1>5. CASE ContinueAutomatic
  BY <1>5, StartWriteConserves DEF ContinueAutomatic, Scheduling
<1>6. CASE Flush
  BY <1>6, StartWriteConserves DEF Flush, DrainLoop, Scheduling
<1>7. CASE OverlapSettled \/ DrainSettled
  BY <1>7, StartWriteConserves DEF OverlapSettled, DrainSettled, DrainLoop, Scheduling
<1>8. CASE \/ CoordinatorFlush \/ InitSettles \/ WriteDone \/ FlushRejected
           \/ UNCHANGED vars
  BY <1>8 DEF CoordinatorFlush, InitSettles, WriteDone, FlushRejected, vars
<1>9. QED
  BY <1>1, <1>2, <1>3, <1>4, <1>5, <1>6, <1>7, <1>8, NextCases

-----------------------------------------------------------------------------
(* With nothing waiting and nothing in flight, the log holds every event. *)
LEMMA DrainedIsDurable ==
  ASSUME TypeOK, Scheduling, Conservation, active # "writing", pending = <<>>
  PROVE  Len(durable) = enqueued
<1>1. /\ enqueued \in Nat /\ durable \in Seq(Nat) /\ batch = <<>>
  BY DEF TypeOK, QueueTypeOK, Scheduling
<1>2. durable \o <<>> = durable
  BY <1>1, ConcatEmptySeq
<1>3. durable = Numbered(enqueued)
  BY <1>1, <1>2 DEF Conservation
<1>4. QED
  BY <1>1, <1>3, NumberedIsSeq

(* A flush resolves only where DrainedIsDurable applies. *)
LEMMA FlushedStep ==
  TypeOK /\ Scheduling /\ Conservation /\ FlushedIsDurable /\ [Next]_vars
    => FlushedIsDurable'
<1> SUFFICES ASSUME TypeOK, Scheduling, Conservation, FlushedIsDurable, [Next]_vars
             PROVE  FlushedIsDurable'
  OBVIOUS
<1>0. /\ flushed \in Nat /\ enqueued \in Nat /\ wanted \in Nat /\ wanted <= enqueued
      /\ durable \in Seq(Nat) /\ batch \in Seq(Nat) /\ Len(durable) \in Nat
  BY LenProperties DEF TypeOK, QueueTypeOK, WriteTypeOK, CallTypeOK, Scheduling
<1> USE DEF FlushedIsDurable, queueVars, writeVars, flagVars, callVars, boundVars
<1>1. CASE WriteSucceeds
  <2>1. Len(durable \o batch) = Len(durable) + Len(batch) /\ Len(batch) \in Nat
    BY <1>0, ConcatProperties, LenProperties
  <2>2. durable' = durable \o batch /\ flushed' = flushed
    BY <1>1 DEF WriteSucceeds
  <2>3. QED
    BY <1>0, <2>1, <2>2
<1>2. CASE Flush
  <2>1. durable' = durable
    BY <1>2 DEF Flush
  <2>2. \/ flushed' = flushed
        \/ active = "none" /\ pending = <<>> /\ flushed' = enqueued
    BY <1>2 DEF Flush, DrainLoop
  <2>3. QED
    BY <1>0, <2>1, <2>2, DrainedIsDurable
<1>3. CASE OverlapSettled \/ DrainSettled
  <2>1. durable' = durable
    BY <1>3 DEF OverlapSettled, DrainSettled
  <2>2. \/ flushed' = flushed
        \/ active = "none" /\ pending = <<>> /\ flushed' = wanted
    BY <1>3 DEF OverlapSettled, DrainSettled, DrainLoop
  <2>3. QED
    BY <1>0, <2>1, <2>2, DrainedIsDurable
<1>4. CASE \/ Enqueue \/ CoordinatorFlush \/ Deadline \/ InitSettles \/ WriteFails
           \/ WriteDone \/ ContinueAutomatic \/ FlushRejected \/ UNCHANGED vars
  BY <1>4 DEF Enqueue, CoordinatorFlush, Deadline, InitSettles, WriteFails, WriteDone,
              ContinueAutomatic, FlushRejected, vars
<1>5. QED
  BY <1>1, <1>2, <1>3, <1>4, NextCases

-----------------------------------------------------------------------------
(* The inductive invariant: conservation and the barrier need the          *)
(* scheduling facts (who owns a write, when a batch is in flight).         *)
IInv ==
  TypeOK /\ Scheduling /\ Conservation /\ FlushedIsDurable /\ NoStrandedEvents

LEMMA IInvInit == Init => IInv
<1> SUFFICES ASSUME Init PROVE IInv
  OBVIOUS
<1>1. TypeOK /\ Scheduling /\ NoStrandedEvents /\ FlushedIsDurable
  BY TypeInit, EmptyIsSeq DEF Init, Scheduling, NoStrandedEvents, FlushedIsDurable
<1>2. Conservation
  <2>1. Numbered(0) = <<>>
    BY NumberedIsSeq, EmptyIsSeq, SeqEqual
  <2>2. (<<>> \o <<>>) \o <<>> = <<>>
    BY EmptyIsSeq, ConcatEmptySeq
  <2>3. QED
    BY <2>1, <2>2 DEF Init, Conservation
<1>3. QED
  BY <1>1, <1>2 DEF IInv

LEMMA IInvStep == IInv /\ [Next]_vars => IInv'
BY TypeStep, SchedulingStep, ConservationStep, FlushedStep, NoStrandedStep DEF IInv

LEMMA WriteBehindInvariant == Spec => []IInv
BY IInvInit, IInvStep, PTL DEF Spec

(* Nothing handed to the controller is lost, repeated or reordered, however *)
(* many writes fail and are retried.                                        *)
THEOREM NothingLost == Spec => []Conservation
<1>1. IInv => Conservation
  BY DEF IInv
<1>2. QED
  BY <1>1, WriteBehindInvariant, PTL

(* A flush that resolved has made every event it covers durable. *)
THEOREM FlushIsABarrier == Spec => []FlushedIsDurable
<1>1. IInv => FlushedIsDurable
  BY DEF IInv
<1>2. QED
  BY <1>1, WriteBehindInvariant, PTL

(* Every retained event has a timer, a write, a drain or a caller to write  *)
(* it, unless a failed write paused the automatic path.                     *)
THEOREM NothingStranded == Spec => []NoStrandedEvents
<1>1. IInv => NoStrandedEvents
  BY DEF IInv
<1>2. QED
  BY <1>1, WriteBehindInvariant, PTL

(* Nothing handed to the controller is lost, and nothing it keeps is left  *)
(* without a writer.                                                       *)
THEOREM NothingLostOrStrandedEver == Spec => []NothingLostOrStranded
<1>1. Conservation /\ NoStrandedEvents => NothingLostOrStranded
  BY DEF NothingLostOrStranded
<1>2. QED
  BY NothingLost, NothingStranded, <1>1, PTL

-----------------------------------------------------------------------------
(* What a drain acknowledges covers what earlier flushes acknowledged. *)
AcknowledgedGrows == flushed <= wanted

LEMMA AcknowledgedStep ==
  IInv /\ AcknowledgedGrows /\ [Next]_vars => AcknowledgedGrows'
<1> SUFFICES ASSUME IInv, AcknowledgedGrows, [Next]_vars PROVE AcknowledgedGrows'
  OBVIOUS
<1>0. /\ flushed \in Nat /\ enqueued \in Nat /\ wanted \in Nat
      /\ flushed <= wanted /\ wanted <= enqueued
  BY DEF IInv, TypeOK, QueueTypeOK, CallTypeOK, Scheduling, AcknowledgedGrows
<1> USE DEF AcknowledgedGrows, queueVars, writeVars, flagVars, callVars, boundVars
<1>1. CASE Flush
  <2>1. wanted' = enqueued /\ (flushed' = flushed \/ flushed' = enqueued)
    BY <1>1 DEF Flush, DrainLoop
  <2>2. QED
    BY <1>0, <2>1
<1>2. CASE OverlapSettled \/ DrainSettled
  <2>1. wanted' = wanted /\ (flushed' = flushed \/ flushed' = wanted)
    BY <1>2 DEF OverlapSettled, DrainSettled, DrainLoop
  <2>2. QED
    BY <1>0, <2>1
<1>3. CASE \/ Enqueue \/ CoordinatorFlush \/ Deadline \/ InitSettles \/ WriteSucceeds
           \/ WriteFails \/ WriteDone \/ ContinueAutomatic \/ FlushRejected
           \/ UNCHANGED vars
  BY <1>0, <1>3 DEF Enqueue, CoordinatorFlush, Deadline, InitSettles, WriteSucceeds,
              WriteFails, WriteDone, ContinueAutomatic, FlushRejected, vars
<1>4. QED
  BY <1>1, <1>2, <1>3, NextCases

(* The batch of a write extends the log by the next events, none skipped. *)
LEMMA WriteIsPersist == IInv /\ WriteSucceeds => Log!Persist
<1> SUFFICES ASSUME IInv, WriteSucceeds PROVE Log!Persist
  OBVIOUS
<1>0. /\ durable \in Seq(Nat) /\ batch \in Seq(Nat) /\ pending \in Seq(Nat)
      /\ enqueued \in Nat /\ durable \o batch \in Seq(Nat)
  BY ConcatProperties DEF IInv, TypeOK, QueueTypeOK, WriteTypeOK
<1> DEFINE n == Len(durable \o batch)
<1>1. durable \o batch = Numbered(n) /\ n + Len(pending) = enqueued
  BY <1>0, NumberedPrefix DEF IInv, Conservation
<1>2. n = Len(durable) + Len(batch)
  BY <1>0, ConcatProperties
<1>3. n \in Len(durable)..enqueued
  BY <1>0, <1>1, <1>2, LenProperties
<1>4. durable' = [i \in 1..n |-> i] /\ enqueued' = enqueued /\ flushed' = flushed
  BY <1>1 DEF WriteSucceeds, Numbered, callVars
<1>5. QED
  BY <1>3, <1>4 DEF Log!Persist

(* Every step of the controller is a step of the durable log, or a stutter. *)
LEMMA RefinementStep == IInv /\ IInv' /\ AcknowledgedGrows /\ [Next]_vars => [Log!Next]_Log!vars
<1> SUFFICES ASSUME IInv, IInv', AcknowledgedGrows, [Next]_vars
             PROVE  Log!Next \/ UNCHANGED <<enqueued, durable, flushed>>
  BY DEF Log!vars
<1>0. /\ flushed \in Nat /\ enqueued \in Nat /\ wanted \in Nat /\ Len(durable) \in Nat
      /\ flushed <= wanted /\ wanted <= enqueued
      /\ flushed' \in Nat /\ flushed' <= Len(durable')
  BY LenProperties
     DEF IInv, TypeOK, QueueTypeOK, CallTypeOK, Scheduling, AcknowledgedGrows,
         FlushedIsDurable
<1> USE DEF queueVars, writeVars, flagVars, callVars, boundVars
<1>1. CASE Enqueue
  BY <1>1 DEF Enqueue, Log!Next, Log!AppendEvent
<1>2. CASE WriteSucceeds
  BY <1>2, WriteIsPersist DEF Log!Next
<1>3. CASE Flush \/ OverlapSettled \/ DrainSettled
  <2>1. /\ enqueued' = enqueued /\ durable' = durable
        /\ flushed' = flushed \/ flushed' = enqueued \/ flushed' = wanted
    BY <1>3 DEF Flush, OverlapSettled, DrainSettled, DrainLoop
  <2>2. flushed' \in flushed..Len(durable)
    BY <1>0, <2>1
  <2>3. QED
    BY <2>1, <2>2 DEF Log!Next, Log!Acknowledge
<1>4. CASE \/ CoordinatorFlush \/ Deadline \/ InitSettles \/ WriteFails \/ WriteDone
           \/ ContinueAutomatic \/ FlushRejected \/ UNCHANGED vars
  BY <1>4 DEF CoordinatorFlush, Deadline, InitSettles, WriteFails, WriteDone,
              ContinueAutomatic, FlushRejected, vars
<1>5. QED
  BY <1>1, <1>2, <1>3, <1>4, NextCases

(* The write controller implements the durable log: whatever the timing of *)
(* deadlines, writes, retries and flushes, the stored log is a gapless      *)
(* prefix of what was appended and a resolved flush acknowledges only that. *)
THEOREM ControllerImplementsLog == Spec => ImplementsDurableLog
<1>1. Init => Log!Init /\ AcknowledgedGrows
  BY DEF Init, Log!Init, AcknowledgedGrows
<1>2. IInv /\ AcknowledgedGrows /\ [Next]_vars => AcknowledgedGrows'
  BY AcknowledgedStep
<1>3. IInv /\ IInv' /\ AcknowledgedGrows /\ [Next]_vars => [Log!Next]_Log!vars
  BY RefinementStep
<1>4. QED
  BY <1>1, <1>2, <1>3, WriteBehindInvariant, PTL DEF Spec, ImplementsDurableLog, Log!Spec

=============================================================================
