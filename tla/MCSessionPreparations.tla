----------------------- MODULE MCSessionPreparations -----------------------
(***************************************************************************)
(* SessionPreparations for TLC.  Two ids and a pool of one make every      *)
(* second ready source evict the first; two calls contend for one source,  *)
(* wait for each other, come back after it was published and retired, or   *)
(* are two uses of one caller; one write makes a prepared source stale,    *)
(* and the torn logs among the initial states are repaired by a second.    *)
(***************************************************************************)
EXTENDS SessionPreparations
CONSTANTS c1, c2
=============================================================================
