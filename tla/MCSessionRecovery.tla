-------------------------- MODULE MCSessionRecovery --------------------------
(***************************************************************************)
(* SessionRecovery for TLC.  The second of two steps follows the first in  *)
(* its turn, inheriting the call names, or opens a second turn, behind a   *)
(* repaired one perhaps; two calls leave one answered and one pending, and *)
(* two crashes interrupt the repair of the first.                          *)
(***************************************************************************)
EXTENDS SessionRecovery
=============================================================================
