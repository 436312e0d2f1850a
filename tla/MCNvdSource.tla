---------------------------- MODULE MCNvdSource ----------------------------
(***************************************************************************)
(* NvdSource for TLC: two pages, which three records do not fit, an index  *)
(* that lags one time unit behind, windows so narrow that an outage        *)
(* exceeds them, and so wide that a record on a page may be modified again *)
(* and leave the window to slide over the next one.                        *)
(***************************************************************************)
EXTENDS NvdSource
=============================================================================
