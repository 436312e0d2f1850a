---------------------------- MODULE MCDeployment ----------------------------
(***************************************************************************)
(* Deployment for TLC: one snapshot is retained and two starts are         *)
(* allowed, so that a few backups prune and a few failing starts use them  *)
(* up; in half of the initial states the operator has a demo snapshot.     *)
(***************************************************************************)
EXTENDS Deployment

CONSTANTS demo, torn, empty
=============================================================================
