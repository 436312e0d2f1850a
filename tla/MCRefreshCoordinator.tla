------------------------ MODULE MCRefreshCoordinator ------------------------
(***************************************************************************)
(* RefreshCoordinator for TLC: two HTTP requests and the scheduler, and    *)
(* enough calls that a third finds the coordinator queued, running, done,  *)
(* and replaced.                                                           *)
(***************************************************************************)
EXTENDS RefreshCoordinator

CONSTANTS a1, a2, scheduler, free
=============================================================================
