--------------------------- MODULE BoundedService ---------------------------
(***************************************************************************)
(* What the clients of the API may rely on, whatever its handlers do: so   *)
(* many of them at most are served at a time, one is turned away only      *)
(* while all places are taken, and none is served for longer than the      *)
(* deadline.  Permits, queries, answers and the reasons for which a        *)
(* request ends are left to the implementation.                            *)
(***************************************************************************)
EXTENDS Naturals, FiniteSets

CONSTANTS
    Clients,
    Places,                   \* how many are served at a time
    Deadline

VARIABLES
    inside,                   \* the clients that are served
    busy,                     \* those that were turned away and have not come again
    since                     \* how long each has been inside

vars == <<inside, busy, since>>

Init ==
    /\ inside = {} /\ busy = {}
    /\ since = [c \in Clients |-> 0]

Enter(c) ==
    /\ c \notin inside \cup busy
    /\ Cardinality(inside) < Places
    /\ inside' = inside \cup {c}
    /\ UNCHANGED <<busy, since>>

TurnAway(c) ==
    /\ c \notin inside \cup busy
    /\ Cardinality(inside) = Places
    /\ busy' = busy \cup {c}
    /\ UNCHANGED <<inside, since>>

GiveUp(c) ==
    /\ c \in busy
    /\ busy' = busy \ {c}
    /\ UNCHANGED <<inside, since>>

\* Answered, expired or gone: the place is free again.
Depart(c) ==
    /\ c \in inside
    /\ inside' = inside \ {c}
    /\ since' = [since EXCEPT ![c] = 0]
    /\ UNCHANGED busy

\* Time does not pass a deadline.
Wait ==
    /\ \A c \in inside : since[c] < Deadline
    /\ since' = [c \in Clients |-> IF c \in inside THEN since[c] + 1 ELSE 0]
    /\ UNCHANGED <<inside, busy>>

Next ==
    \/ \E c \in Clients : Enter(c) \/ TurnAway(c) \/ GiveUp(c) \/ Depart(c)
    \/ Wait

Spec == Init /\ [][Next]_vars
=============================================================================
