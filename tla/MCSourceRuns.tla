---------------------------- MODULE MCSourceRuns ----------------------------
(***************************************************************************)
(* SourceRuns for TLC: two sources, the backoff going from two to its     *)
(* maximum of three time units, jobs enough for a failure, a skip and a    *)
(* retry, and one crash anywhere.                                          *)
(***************************************************************************)
EXTENDS SourceRuns

CONSTANTS nvd, feed
=============================================================================
