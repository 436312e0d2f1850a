----------------------------- MODULE ApiService -----------------------------
(***************************************************************************)
(* src/api.rs: requests that are admitted by a semaphore, handled before a *)
(* deadline, and read a database that ingestion writes meanwhile.  Of the  *)
(* handlers, stats counts with two queries and keeps its answer in a       *)
(* cache, without a lock across them; the CVE detail reads the item, its   *)
(* evidence and its validation one after the other; the probes are not     *)
(* admitted but have a deadline.                                           *)
(*                                                                         *)
(* Time is relative: an age counts the ticks since something happened.  A  *)
(* statistic is 0 while it is current, and then one more than the ticks    *)
(* since a commit overtook the first of its queries.                       *)
(***************************************************************************)
EXTENDS Integers, FiniteSets

CONSTANTS
    Clients,
    Permits,                  \* 64
    Deadline, ProbeDeadline,  \* 10 s and 2 s
    TTL,                      \* 10 s
    MaxBatches                \* bound

ASSUME ClientsAssumption == IsFiniteSet(Clients)
ASSUME PermitsAssumption == Permits \in Nat \ {0}
ASSUME TimeAssumption ==
    /\ Deadline \in Nat \ {0} /\ ProbeDeadline \in 1..Deadline /\ TTL \in Nat \ {0}
ASSUME BatchesAssumption == MaxBatches \in Nat

VARIABLES
    free,                     \* state.admission: permits left
    cache,                    \* state.stats_cache: its age and its statistic
    batches,                  \* the database: commits that wrote the CVE's item and evidence
    pc, age,                  \* each request: its step, and how long it has been running
    stats,                    \* the statistic that it holds
    item, evidence            \* the batch of the item and of the evidence that it has read

gathered == <<stats, item, evidence>>
vars == <<free, cache, batches, pc, age, gathered>>

\* A statistic of this age is too old to be served; later ages are not told apart.
TooOld == TTL + Deadline + 1

NoCache == [age |-> TTL, stats |-> 0]

Nothing == [c \in Clients |-> 0]

Init ==
    /\ free = Permits
    /\ cache = NoCache
    /\ batches = 0
    /\ pc = [c \in Clients |-> "none"] /\ age = Nothing
    /\ stats = Nothing /\ item = Nothing /\ evidence = Nothing

-----------------------------------------------------------------------------
(* Admission, deadline, and the end of a request *)

Handling == {"stats_cache", "stats_totals", "stats_categories", "stats_store",
             "item", "evidence", "validation"}
Running == Handling \union {"probe"}
Replied == {"ok", "not_found", "error", "busy", "late"}

\* The requests that hold a permit.
Handled == {c \in Clients : pc[c] \in Handling}

TimeLimit(c) == IF pc[c] = "probe" THEN ProbeDeadline ELSE Deadline

Goto(c, step) == pc' = [pc EXCEPT ![c] = step]

Arrive(c) ==
    /\ pc[c] = "none"
    /\ \/ Goto(c, "probe") /\ UNCHANGED free
       \/ /\ free > 0
          /\ \E step \in {"stats_cache", "item"} : Goto(c, step)
          /\ free' = free - 1
       \/ /\ free = 0
          /\ Goto(c, "busy") /\ UNCHANGED free
    /\ UNCHANGED <<cache, batches, age, gathered>>

\* Variant: the permit is given back whether or not one was taken.
ReleaseAny(c) == free' = free + 1

\* The permit, if the request has one, is dropped with it.
Release(c) == free' = IF pc[c] \in Handling THEN free + 1 ELSE free

Reply(c, status) ==
    /\ Goto(c, status) /\ Release(c)
    /\ age' = [age EXCEPT ![c] = 0]

Forget(c) ==
    /\ stats' = [stats EXCEPT ![c] = 0]
    /\ item' = [item EXCEPT ![c] = 0]
    /\ evidence' = [evidence EXCEPT ![c] = 0]

\* The handler is dropped wherever it is waiting.
Expire(c) ==
    /\ pc[c] \in Running
    /\ age[c] = TimeLimit(c)
    /\ Reply(c, "late") /\ Forget(c)
    /\ UNCHANGED <<cache, batches>>

\* Variant: only an answer gives the permit back.
LeaveHolding(c) ==
    /\ pc[c] # "none"
    /\ Goto(c, "none") /\ Forget(c)
    /\ age' = [age EXCEPT ![c] = 0]
    /\ UNCHANGED <<free, cache, batches>>

\* The client has its answer, or goes away without it.
Leave(c) ==
    /\ pc[c] # "none"
    /\ Reply(c, "none") /\ Forget(c)
    /\ UNCHANGED <<cache, batches>>

-----------------------------------------------------------------------------
(* Handlers *)

Probe(c) ==
    /\ pc[c] = "probe"
    /\ Reply(c, "ok")
    /\ UNCHANGED <<cache, batches, gathered>>

\* Variant: an entry is renewed by its use.
StatsCacheRenews(c) ==
    /\ pc[c] = "stats_cache"
    /\ \/ /\ cache.age < TTL
          /\ stats' = [stats EXCEPT ![c] = cache.stats]
          /\ cache' = [cache EXCEPT !.age = 0]
          /\ Reply(c, "ok")
       \/ /\ cache.age >= TTL
          /\ Goto(c, "stats_totals") /\ UNCHANGED <<stats, cache, free, age>>
    /\ UNCHANGED <<batches, item, evidence>>

\* The lock on the cache is given back before the query.
StatsCache(c) ==
    /\ pc[c] = "stats_cache"
    /\ \/ /\ cache.age < TTL
          /\ stats' = [stats EXCEPT ![c] = cache.stats]
          /\ Reply(c, "ok")
       \/ /\ cache.age >= TTL
          /\ Goto(c, "stats_totals") /\ UNCHANGED <<stats, free, age>>
    /\ UNCHANGED <<cache, batches, item, evidence>>

StatsTotals(c) ==
    /\ pc[c] = "stats_totals"
    /\ Goto(c, "stats_categories")
    /\ stats' = [stats EXCEPT ![c] = 0]
    /\ UNCHANGED <<free, cache, batches, age, item, evidence>>

\* A query of its own, so that a commit may come between the two.
StatsCategories(c) ==
    /\ pc[c] = "stats_categories"
    /\ Goto(c, "stats_store")
    /\ UNCHANGED <<free, cache, batches, age, gathered>>

\* The entry is dated when it is stored; it may replace one of a later query.
StatsStore(c) ==
    /\ pc[c] = "stats_store"
    /\ cache' = [age |-> 0, stats |-> stats[c]]
    /\ Reply(c, "ok")
    /\ UNCHANGED <<batches, gathered>>

GetItem(c) ==
    /\ pc[c] = "item"
    /\ item' = [item EXCEPT ![c] = batches]
    /\ \/ batches = 0 /\ Reply(c, "not_found")
       \/ batches > 0 /\ Goto(c, "evidence") /\ UNCHANGED <<free, age>>
    /\ UNCHANGED <<cache, batches, stats, evidence>>

GetEvidence(c) ==
    /\ pc[c] = "evidence"
    /\ evidence' = [evidence EXCEPT ![c] = batches]
    /\ Goto(c, "validation")
    /\ UNCHANGED <<free, cache, batches, age, stats, item>>

\* Variant: the item is read last.
GetValidationThenItem(c) ==
    /\ pc[c] = "validation"
    /\ item' = [item EXCEPT ![c] = batches]
    /\ Reply(c, "ok")
    /\ UNCHANGED <<cache, batches, stats, evidence>>

GetValidation(c) ==
    /\ pc[c] = "validation"
    /\ Reply(c, "ok")
    /\ UNCHANGED <<cache, batches, gathered>>

QueryFails(c) ==
    /\ pc[c] \in {"probe", "stats_totals", "stats_categories", "item", "evidence", "validation"}
    /\ Reply(c, "error") /\ Forget(c)
    /\ UNCHANGED <<cache, batches>>

Handle(c) ==
    \/ Probe(c) \/ QueryFails(c)
    \/ StatsCache(c) \/ StatsTotals(c) \/ StatsCategories(c) \/ StatsStore(c)
    \/ GetItem(c) \/ GetEvidence(c) \/ GetValidation(c)

-----------------------------------------------------------------------------
(* The database and the clock *)

Overtaken(s) == IF s = 0 THEN 1 ELSE s
Older(s) == IF s \in 1..(TooOld - 1) THEN s + 1 ELSE s

Counting == {"stats_categories", "stats_store"}

\* What becomes of the statistics that have not been answered yet.
Statistics(Change(_)) ==
    /\ stats' = [c \in Clients |-> IF pc[c] \in Counting THEN Change(stats[c]) ELSE stats[c]]
    /\ UNCHANGED <<item, evidence>>

\* apply_batch, with the item and its evidence in one transaction.
Ingest ==
    /\ batches < MaxBatches
    /\ batches' = batches + 1
    /\ cache' = [cache EXCEPT !.stats = Overtaken(@)]
    /\ Statistics(Overtaken)
    /\ UNCHANGED <<free, pc, age>>

\* No request outlives its deadline.
Tick ==
    /\ \A c \in Clients : pc[c] \in Running => age[c] < TimeLimit(c)
    /\ age' = [c \in Clients |-> IF pc[c] \in Running THEN age[c] + 1 ELSE age[c]]
    /\ cache' = [age |-> IF cache.age < TTL THEN cache.age + 1 ELSE TTL,
                 stats |-> Older(cache.stats)]
    /\ Statistics(Older)
    /\ UNCHANGED <<free, batches, pc>>

Next ==
    \/ \E c \in Clients : Arrive(c) \/ Handle(c) \/ Expire(c) \/ Leave(c)
    \/ Ingest
    \/ Tick

\* Time passes, and the timer of a request fires; a handler may wait for ever.
Fairness == WF_vars(Tick) /\ \A c \in Clients : WF_vars(Expire(c))

Spec == Init /\ [][Next]_vars

FairSpec == Spec /\ Fairness

-----------------------------------------------------------------------------
(* Properties *)

\* Every variable in its range.
TypeOK ==
    /\ free \in 0..Permits
    /\ cache \in [age : 0..TTL, stats : 0..TooOld]
    /\ batches \in 0..MaxBatches
    /\ pc \in [Clients -> Running \union Replied \union {"none"}]
    /\ age \in [Clients -> 0..Deadline]
    /\ stats \in [Clients -> 0..TooOld]
    /\ item \in [Clients -> 0..batches] /\ evidence \in [Clients -> 0..batches]

\* Every permit is free or with a request that is being handled, however requests
\* end: an answer, the deadline, a client that went away.
PermitsAccounted == Cardinality(Handled) = Permits - free

\* With its permits and timers, and whatever becomes of handlers and clients, the
\* server is a service of so many places: it turns a client away only when that many
\* requests are being handled at that moment, and serves none beyond its deadline.
Service == INSTANCE BoundedService WITH
    Places <- Permits,
    inside <- Handled,
    busy   <- {c \in Clients : pc[c] = "busy"},
    since  <- [c \in Clients |-> IF c \in Handled THEN age[c] ELSE 0]

ImplementsBoundedService == Service!Spec

\* What /stats answers was true within the life of an entry and the deadline of
\* the request that computed it, whichever requests filled the cache.
StatsFresh == \A c \in Clients : pc[c] = "ok" => stats[c] < TooOld

\* The detail of a CVE never shows an item whose own evidence it does not show,
\* although the three reads are not one snapshot.
ItemIsSupported ==
    \A c \in Clients : pc[c] = "ok" /\ item[c] > 0 => evidence[c] >= item[c]

\* An overloaded server admits again, even if every handler hangs.
AdmitsAgain == free = 0 ~> free > 0
=============================================================================
