---------------------------- MODULE MCDashboard ----------------------------
(***************************************************************************)
(* Dashboard for TLC: two filters of three pages, a superseded request     *)
(* beside the current one, and events enough to page, change the filter,   *)
(* and page again.                                                         *)
(***************************************************************************)
EXTENDS Dashboard

CONSTANTS f, g, none
=============================================================================
