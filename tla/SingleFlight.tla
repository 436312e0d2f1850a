---------------------------- MODULE SingleFlight ----------------------------
(***************************************************************************)
(* What POST /api/v1/refresh, the scheduler and the startup task may rely  *)
(* on, whatever the coordinator does inside: at any time at most one       *)
(* refresh job is in flight; a request either owns a new job or joins the  *)
(* job in flight; a request that is refused leaves nothing behind.         *)
(***************************************************************************)
EXTENDS Naturals

CONSTANT Callers      \* the tasks that ask for a refresh

VARIABLES
    open,             \* FALSE while the process is going down
    current,          \* the job in flight, 0 when there is none
    issued,           \* how many job identifiers have been handed out
    claim,            \* claim[c]: the job caller c has claimed, not yet confirmed
    answer            \* answer[c]: what caller c was told, and of which job

vars == <<open, current, issued, claim, answer>>

Answers == [kind : {"none", "pending", "accepted", "coalesced", "refused"}, job : Nat]

None == [kind |-> "none", job |-> 0]

Init ==
    /\ open = TRUE
    /\ current = 0
    /\ issued = 0
    /\ claim = [c \in Callers |-> 0]
    /\ answer = [c \in Callers |-> None]

Ask(c) ==
    /\ answer[c].kind # "pending"
    /\ answer' = [answer EXCEPT ![c] = [kind |-> "pending", job |-> 0]]
    /\ UNCHANGED <<open, current, issued, claim>>

\* Only an idle service hands out a job, and every job is a fresh one.
Claim(c) ==
    /\ answer[c].kind = "pending"
    /\ claim[c] = 0
    /\ current = 0
    /\ issued' = issued + 1
    /\ current' = issued'
    /\ claim' = [claim EXCEPT ![c] = issued']
    /\ UNCHANGED <<open, answer>>

Confirm(c) ==
    /\ answer[c].kind = "pending"
    /\ claim[c] # 0
    /\ answer' = [answer EXCEPT ![c] = [kind |-> "accepted", job |-> claim[c]]]
    /\ claim' = [claim EXCEPT ![c] = 0]
    /\ UNCHANGED <<open, current, issued>>

Join(c) ==
    /\ answer[c].kind = "pending"
    /\ claim[c] = 0
    /\ current # 0
    /\ answer' = [answer EXCEPT ![c] = [kind |-> "coalesced", job |-> current]]
    /\ UNCHANGED <<open, current, issued, claim>>

\* A refused request gives up the job it claimed.
Refuse(c) ==
    /\ answer[c].kind # "accepted"
    /\ answer' = [answer EXCEPT ![c] = [kind |-> "refused", job |-> 0]]
    /\ current' = IF claim[c] # 0 THEN 0 ELSE current
    /\ claim' = [claim EXCEPT ![c] = 0]
    /\ UNCHANGED <<open, issued>>

End ==
    /\ current # 0
    /\ current' = 0
    /\ UNCHANGED <<open, issued, claim, answer>>

Close ==
    /\ open
    /\ open' = FALSE
    /\ UNCHANGED <<current, issued, claim, answer>>

\* Only a service that is going down may lose a request between its claim and
\* the withdrawal of that claim.
Abandon(c) ==
    /\ ~open
    /\ claim[c] # 0
    /\ answer' = [answer EXCEPT ![c] = [kind |-> "refused", job |-> 0]]
    /\ claim' = [claim EXCEPT ![c] = 0]
    /\ UNCHANGED <<open, current, issued>>

\* A new process starts idle and knows no caller of the old one.
Reset ==
    /\ open' = TRUE
    /\ current' = 0
    /\ claim' = [c \in Callers |-> 0]
    /\ answer' = [c \in Callers |-> None]
    /\ UNCHANGED issued

Next ==
    \/ \E c \in Callers : Ask(c) \/ Claim(c) \/ Confirm(c) \/ Join(c) \/ Refuse(c) \/ Abandon(c)
    \/ End
    \/ Close
    \/ Reset

Spec == Init /\ [][Next]_vars
=============================================================================
