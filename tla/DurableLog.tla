------------------------------ MODULE DurableLog ------------------------------
(***************************************************************************)
(* What the persistence seam promises of one session                       *)
(* (packages/session/session-persistence/src/index.ts and write-behind.ts):*)
(* the stored log is always a prefix of what the session appended, and a   *)
(* resolved flush has acknowledged only stored events.  How batches are    *)
(* cut, delayed, retried and awaited is left to the implementation.        *)
(***************************************************************************)
EXTENDS Integers, Sequences

VARIABLES
  appended,      \* number of events the session has appended
  stored,        \* the backend's log, a sequence of event numbers
  acknowledged   \* events known to be stored by some resolved flush

vars == <<appended, stored, acknowledged>>

Init == appended = 0 /\ stored = <<>> /\ acknowledged = 0

(* The session appends one event. *)
AppendEvent == appended' = appended + 1 /\ UNCHANGED <<stored, acknowledged>>

(* Some events appended before become durable, in order and without a gap. *)
Persist ==
  /\ \E n \in Len(stored)..appended : stored' = [i \in 1..n |-> i]
  /\ UNCHANGED <<appended, acknowledged>>

(* A flush resolves. *)
Acknowledge ==
  /\ acknowledged' \in acknowledged..Len(stored)
  /\ UNCHANGED <<appended, stored>>

Next == AppendEvent \/ Persist \/ Acknowledge

Spec == Init /\ [][Next]_vars

=============================================================================
