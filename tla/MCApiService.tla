---------------------------- MODULE MCApiService ----------------------------
(***************************************************************************)
(* ApiService for TLC: more clients than permits.                          *)
(***************************************************************************)
EXTENDS ApiService
=============================================================================
