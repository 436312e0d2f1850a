---------------------------- MODULE MCCisaSource ----------------------------
(***************************************************************************)
(* CisaSource for TLC: three editions, of which the last drops a           *)
(* vulnerability, and the deadline of 120 s under two settings.  With the  *)
(* defaults of src/config.rs (attempts of 120 s, 15 s to connect, two      *)
(* retries) an official endpoint that hangs uses the whole deadline; with  *)
(* those of deploy/azure (45 s, 10 s, one retry) the mirror has its time.  *)
(***************************************************************************)
EXTENDS CisaSource

MCListed == <<{"a"}, {"a", "b"}, {"b"}>>

MCSettings ==
    {[timeout |-> 240, connect |-> 30, retries |-> 2],
     [timeout |-> 90, connect |-> 20, retries |-> 1]}
=============================================================================
