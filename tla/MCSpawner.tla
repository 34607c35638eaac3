------------------------------ MODULE MCSpawner ------------------------------
(***************************************************************************)
(* A spawner with its logger and another instance: one that it spawns or   *)
(* one that an earlier run left behind, an optimizer or not.               *)
(***************************************************************************)
EXTENDS Spawner

CONSTANTS spawner, logger, other
=============================================================================
