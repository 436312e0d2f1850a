-------------------------- MODULE ApiServiceProofs --------------------------
(***************************************************************************)
(* Proofs about the query API, for every set of clients, items and writes. *)
(*                                                                         *)
(* ApiService, for every number of permits and every deadline and lifetime:*)
(* no permit is lost, statistics are no older than the two times together, *)
(* and the detail of a CVE shows the evidence of the item that it shows.   *)
(*                                                                         *)
(* ItemMerge and ItemPaging, for every page size and any number of changes *)
(* of the table: which columns of a row depend on the order of its writes  *)
(* and which do not, and a walk delivers what keeps its place exactly once.*)
(***************************************************************************)
EXTENDS ApiService, ItemPaging, FiniteSetTheorems, TLAPS

\* A request holds only what its handler has read so far.
HoldInv ==
    \A c \in Clients :
        /\ pc[c] \in {"none", "probe", "stats_cache", "stats_totals", "item", "evidence",
                      "validation", "not_found"} => stats[c] = 0
        /\ pc[c] \in {"none", "probe", "stats_cache", "stats_totals", "stats_categories",
                      "stats_store"}
              => item[c] = 0
        /\ pc[c] = "validation" => evidence[c] >= item[c]

\* A statistic that is about to be stored was overtaken while its request ran ...
StoreInv == \A c \in Clients : pc[c] \in Counting => stats[c] <= age[c] + 1

\* ... and a living entry since then, or while its request ran.
EntryInv == cache.age < TTL => cache.stats <= cache.age + Deadline + 1

IInv ==
    /\ TypeOK /\ PermitsAccounted /\ StatsFresh /\ ItemIsSupported
    /\ HoldInv /\ StoreInv /\ EntryInv

-----------------------------------------------------------------------------
(* Permits *)

LEMMA HandledIsFinite == IsFiniteSet(Handled) /\ Cardinality(Handled) \in Nat
  BY ClientsAssumption, FS_Subset, FS_CardinalityType, Handled \subseteq Clients DEF Handled

\* A step of one request keeps the count if its permit follows its place.
LEMMA OneStepAccounts ==
  ASSUME TypeOK, PermitsAccounted, NEW c \in Clients, NEW step, Goto(c, step),
         \/ free' = free /\ (pc[c] \in Handling <=> step \in Handling)
         \/ free' = free - 1 /\ pc[c] \notin Handling /\ step \in Handling
         \/ free' = free + 1 /\ pc[c] \in Handling /\ step \notin Handling
  PROVE  /\ PermitsAccounted'
         /\ free' = free + 1 => free < Permits
<1>1. IsFiniteSet(Handled) /\ Cardinality(Handled) \in Nat
  BY HandledIsFinite
<1>2. free \in 0..Permits /\ Permits \in Nat
  BY PermitsAssumption DEF TypeOK
<1>3. Cardinality(Handled) = Permits - free
  BY DEF PermitsAccounted, Handled
<1>4. Handled' = {d \in Clients : IF d = c THEN step \in Handling ELSE pc[d] \in Handling}
  BY DEF TypeOK, Handled, Goto
<1>5. CASE free' = free /\ (pc[c] \in Handling <=> step \in Handling)
  <2>1. Handled' = Handled
    BY <1>4, <1>5 DEF Handled
  <2>2. Cardinality(Handled') = Permits - free'
    BY <1>3, <1>5, <2>1
  <2>3. PermitsAccounted'
    BY <2>2 DEF PermitsAccounted, Handled
  <2> QED
    BY <1>2, <1>5, <2>3
<1>6. CASE free' = free - 1 /\ pc[c] \notin Handling /\ step \in Handling
  <2>1. Handled' = Handled \union {c} /\ c \notin Handled
    BY <1>4, <1>6 DEF Handled
  <2>2. Cardinality(Handled') = Cardinality(Handled) + 1
    BY <1>1, <2>1, FS_AddElement
  <2>3. Cardinality(Handled') = Permits - free'
    BY <1>1, <1>2, <1>3, <1>6, <2>2
  <2>4. PermitsAccounted'
    BY <2>3 DEF PermitsAccounted, Handled
  <2> QED
    BY <1>2, <1>6, <2>3, <2>4
<1>7. CASE free' = free + 1 /\ pc[c] \in Handling /\ step \notin Handling
  <2>1. Handled' = Handled \ {c} /\ c \in Handled
    BY <1>4, <1>7 DEF Handled
  <2>2. Cardinality(Handled') = Cardinality(Handled) - 1
    BY <1>1, <2>1, FS_RemoveElement
  <2>3. Cardinality(Handled') \in Nat
    BY <1>1, <2>1, FS_RemoveElement, FS_CardinalityType
  <2>4. Cardinality(Handled') = Permits - free' /\ free < Permits
    BY <1>1, <1>2, <1>3, <1>7, <2>2, <2>3
  <2>5. PermitsAccounted'
    BY <2>4 DEF PermitsAccounted, Handled
  <2> QED
    BY <1>2, <1>7, <2>4, <2>5
<1> QED
  BY <1>5, <1>6, <1>7

LEMMA ReplyAccounts ==
  ASSUME TypeOK, PermitsAccounted, NEW c \in Clients, NEW step, Reply(c, step),
         step \notin Handling
  PROVE  PermitsAccounted' /\ free' \in 0..Permits
<1>1. free \in 0..Permits /\ Permits \in Nat
  BY PermitsAssumption DEF TypeOK
<1>2. CASE pc[c] \in Handling
  <2>1. free' = free + 1 /\ Goto(c, step)
    BY <1>2 DEF Reply, Release
  <2> QED
    BY <1>1, <1>2, <2>1, OneStepAccounts
<1>3. CASE pc[c] \notin Handling
  <2>1. free' = free /\ Goto(c, step)
    BY <1>3 DEF Reply, Release
  <2> QED
    BY <1>1, <1>3, <2>1, OneStepAccounts
<1> QED
  BY <1>2, <1>3
-----------------------------------------------------------------------------
(* Statistics and details *)

\* What the invariant says of requests and the cache, permits apart.
ReadsInv == StatsFresh /\ ItemIsSupported /\ HoldInv /\ StoreInv /\ EntryInv

LEMMA Ranges ==
  /\ Deadline \in Nat \ {0} /\ ProbeDeadline \in Nat \ {0} /\ ProbeDeadline <= Deadline
  /\ TTL \in Nat \ {0} /\ TooOld \in Nat /\ TooOld = TTL + Deadline + 1
  BY TimeAssumption DEF TooOld

LEMMA Initially == Init => IInv
<1> SUFFICES ASSUME Init PROVE IInv
  OBVIOUS
<1> USE Ranges, PermitsAssumption, BatchesAssumption DEF Init, Nothing, NoCache
<1>1. TypeOK
  BY DEF TypeOK
<1>2. ReadsInv
  BY DEF ReadsInv, StatsFresh, ItemIsSupported, HoldInv, StoreInv, EntryInv, Counting
<1>3. PermitsAccounted
  <2>1. {c \in Clients : pc[c] \in Handling} = {}
    BY DEF Handling
  <2> QED
    BY <2>1, FS_EmptySet DEF PermitsAccounted, Handled
<1> QED
  BY <1>1, <1>2, <1>3 DEF IInv, ReadsInv

\* A step of one request: what it may become, the rest being as it was.
StepOf(c) ==
    /\ pc' = [pc EXCEPT ![c] = pc'[c]] /\ age' = [age EXCEPT ![c] = age'[c]]
    /\ stats' = [stats EXCEPT ![c] = stats'[c]]
    /\ item' = [item EXCEPT ![c] = item'[c]] /\ evidence' = [evidence EXCEPT ![c] = evidence'[c]]

\* The invariant for one request.
RequestOK(c) ==
    /\ pc[c] \in Running \union Replied \union {"none"}
    /\ age[c] \in 0..Deadline /\ stats[c] \in 0..TooOld
    /\ item[c] \in 0..batches /\ evidence[c] \in 0..batches
    /\ pc[c] = "ok" => stats[c] < TooOld
    /\ pc[c] = "ok" /\ item[c] > 0 => evidence[c] >= item[c]
    /\ pc[c] \in {"none", "probe", "stats_cache", "stats_totals", "item", "evidence",
                  "validation", "not_found"} => stats[c] = 0
    /\ pc[c] \in {"none", "probe", "stats_cache", "stats_totals", "stats_categories",
                  "stats_store"} => item[c] = 0
    /\ pc[c] = "validation" => evidence[c] >= item[c]
    /\ pc[c] \in Counting => stats[c] <= age[c] + 1

LEMMA RequestsAreOK ==
  ASSUME IInv, NEW c \in Clients
  PROVE  RequestOK(c)
  BY DEF IInv, TypeOK, StatsFresh, ItemIsSupported, HoldInv, StoreInv, RequestOK

LEMMA OneStepKeepsIInv ==
  ASSUME IInv, NEW c \in Clients, StepOf(c), RequestOK(c)', UNCHANGED batches,
         free' \in 0..Permits, PermitsAccounted',
         cache' \in [age : 0..TTL, stats : 0..TooOld], EntryInv'
  PROVE  IInv'
<1>1. TypeOK'
  BY DEF IInv, TypeOK, StepOf, RequestOK
<1>2. StatsFresh' /\ ItemIsSupported'
  BY DEF IInv, TypeOK, StatsFresh, ItemIsSupported, StepOf, RequestOK
<1>3. HoldInv'
  BY DEF IInv, TypeOK, HoldInv, StepOf, RequestOK
<1>4. StoreInv'
  BY DEF IInv, TypeOK, StoreInv, StepOf, RequestOK
<1> QED
  BY <1>1, <1>2, <1>3, <1>4 DEF IInv

LEMMA ArriveKeepsIInv ==
  ASSUME IInv, NEW c \in Clients, Arrive(c)
  PROVE  IInv'
<1>1. PICK step \in {"probe", "stats_cache", "item", "busy"} :
        /\ Goto(c, step)
        /\ \/ UNCHANGED free /\ step \in {"probe", "busy"}
           \/ free' = free - 1 /\ free > 0 /\ step \in {"stats_cache", "item"}
  BY DEF Arrive
<1>2. pc[c] = "none" /\ UNCHANGED <<cache, batches, age, gathered>>
  BY DEF Arrive
<1>3. TypeOK /\ PermitsAccounted
  BY DEF IInv
<1>4. PermitsAccounted'
  BY <1>1, <1>2, <1>3, OneStepAccounts DEF Handling
<1>5. free' \in 0..Permits
  BY <1>1, <1>3, PermitsAssumption DEF TypeOK
<1>6. StepOf(c) /\ pc'[c] = step
  BY <1>1, <1>2, <1>3 DEF StepOf, Goto, gathered, TypeOK
<1>7. RequestOK(c)'
  <2>1. RequestOK(c)
    BY RequestsAreOK
  <2> QED
    BY <1>1, <1>2, <1>6, <2>1 DEF RequestOK, gathered, Counting, Running, Handling, Replied
<1> QED
  BY <1>2, <1>4, <1>5, <1>6, <1>7, OneStepKeepsIInv DEF IInv, TypeOK, EntryInv
\* A reply, whatever the request has with it.
LEMMA ReplyKeepsIInv ==
  ASSUME IInv, NEW c \in Clients, NEW step \in Replied \union {"none"}, Reply(c, step),
         stats' = [stats EXCEPT ![c] = stats'[c]], item' = [item EXCEPT ![c] = item'[c]],
         evidence' = [evidence EXCEPT ![c] = evidence'[c]], UNCHANGED batches,
         stats'[c] \in 0..TooOld, item'[c] \in 0..batches, evidence'[c] \in 0..batches,
         step = "ok" => stats'[c] < TooOld /\ (item'[c] > 0 => evidence'[c] >= item'[c]),
         step \in {"none", "not_found"} => stats'[c] = 0 ,
         step = "none" => item'[c] = 0,
         cache' \in [age : 0..TTL, stats : 0..TooOld], EntryInv'
  PROVE  IInv'
<1>1. TypeOK /\ PermitsAccounted
  BY DEF IInv
<1>2. step \notin Handling
  BY DEF Handling, Replied
<1>3. PermitsAccounted' /\ free' \in 0..Permits
  BY <1>1, <1>2, ReplyAccounts
<1>4. pc'[c] = step /\ age'[c] = 0 /\ StepOf(c)
  BY <1>1 DEF Reply, Goto, StepOf, TypeOK
<1>5. RequestOK(c)'
  BY <1>4, Ranges DEF RequestOK, Counting, Running, Handling, Replied
<1> QED
  BY <1>3, <1>4, <1>5, OneStepKeepsIInv

\* The next step of a handler.
LEMMA GoingOnKeepsIInv ==
  ASSUME IInv, NEW c \in Clients, NEW step \in Handling, Goto(c, step), pc[c] \in Handling,
         UNCHANGED <<free, cache, batches, age>>, StepOf(c), RequestOK(c)'
  PROVE  IInv'
<1>1. TypeOK /\ PermitsAccounted /\ EntryInv
  BY DEF IInv
<1>2. PermitsAccounted'
  BY <1>1, OneStepAccounts
<1> QED
  BY <1>1, <1>2, OneStepKeepsIInv DEF TypeOK, EntryInv

LEMMA EndKeepsIInv ==
  ASSUME IInv, NEW c \in Clients, Expire(c) \/ Leave(c) \/ QueryFails(c)
  PROVE  IInv'
<1>1. TypeOK /\ EntryInv
  BY DEF IInv
<1>2. PICK step \in {"late", "none", "error"} : Reply(c, step)
  BY DEF Expire, Leave, QueryFails
<1>3. Forget(c) /\ UNCHANGED <<cache, batches>>
  BY DEF Expire, Leave, QueryFails
<1>4. /\ stats'[c] = 0 /\ item'[c] = 0 /\ evidence'[c] = 0
      /\ stats' = [stats EXCEPT ![c] = stats'[c]] /\ item' = [item EXCEPT ![c] = item'[c]]
      /\ evidence' = [evidence EXCEPT ![c] = evidence'[c]]
  BY <1>1, <1>3 DEF Forget, TypeOK
<1>5. step \in Replied \union {"none"}
  BY DEF Replied
<1>6. batches \in Nat /\ cache' \in [age : 0..TTL, stats : 0..TooOld] /\ EntryInv'
  BY <1>1, <1>3, BatchesAssumption DEF TypeOK, EntryInv
<1> QED
  BY <1>2, <1>3, <1>4, <1>5, <1>6, Ranges, ReplyKeepsIInv

LEMMA HandleKeepsIInv ==
  ASSUME IInv, NEW c \in Clients, Handle(c)
  PROVE  IInv'
<1>1. TypeOK /\ EntryInv /\ RequestOK(c)
  BY RequestsAreOK DEF IInv
<1>2. cache \in [age : 0..TTL, stats : 0..TooOld] /\ batches \in Nat
  BY <1>1, BatchesAssumption DEF TypeOK
<1>3. /\ stats = [stats EXCEPT ![c] = stats[c]]
      /\ item = [item EXCEPT ![c] = item[c]]
      /\ evidence = [evidence EXCEPT ![c] = evidence[c]]
  BY <1>1 DEF TypeOK
<1>4. "ok" \in Replied \union {"none"} /\ "not_found" \in Replied \union {"none"}
  BY DEF Replied
<1>5. CASE Probe(c) \/ GetValidation(c)
  BY <1>1, <1>2, <1>3, <1>4, <1>5, Ranges, ReplyKeepsIInv
  DEF Probe, GetValidation, RequestOK, gathered, EntryInv
<1>6. CASE StatsCache(c)
  <2>1. CASE cache.age < TTL
    <3> cache.age \in Int /\ TTL \in Int /\ ~(cache.age >= TTL)
      BY <1>2, <2>1, Ranges
    <3>1. Reply(c, "ok") /\ stats' = [stats EXCEPT ![c] = cache.stats]
          /\ UNCHANGED <<cache, batches, item, evidence>>
      BY <1>6 DEF StatsCache
    <3>2. stats'[c] = cache.stats /\ cache.stats \in 0..TooOld /\ cache.stats < TooOld
      BY <1>1, <1>2, <2>1, <3>1, Ranges DEF TypeOK, EntryInv
    <3>3. item[c] = 0 /\ item[c] \in 0..batches /\ evidence[c] \in 0..batches
      BY <1>1, <1>6 DEF StatsCache, RequestOK
    <3>4. /\ stats' = [stats EXCEPT ![c] = stats'[c]]
          /\ item' = [item EXCEPT ![c] = item'[c]]
          /\ evidence' = [evidence EXCEPT ![c] = evidence'[c]]
      BY <1>3, <3>1, <3>2
    <3>5. cache' \in [age : 0..TTL, stats : 0..TooOld] /\ EntryInv'
      BY <1>1, <1>2, <3>1 DEF EntryInv
    <3>6. item'[c] = 0 /\ item'[c] \in 0..batches /\ evidence'[c] \in 0..batches
      BY <3>1, <3>3
    <3>7. stats'[c] \in 0..TooOld /\ stats'[c] < TooOld /\ ~(item'[c] > 0)
      BY <3>2, <3>6
    <3> QED
      BY <1>4, <3>1, <3>4, <3>5, <3>6, <3>7, ReplyKeepsIInv
  <2>2. CASE cache.age >= TTL
    <3>1. Goto(c, "stats_totals") /\ UNCHANGED <<free, cache, batches, age, stats, item, evidence>>
      BY <1>2, <1>6, <2>2, Ranges DEF StatsCache
    <3>2. StepOf(c) /\ RequestOK(c)'
      BY <1>1, <1>3, <1>6, <3>1
      DEF StatsCache, StepOf, Goto, RequestOK, TypeOK, Counting, Running, Handling, Replied
    <3> QED
      BY <1>6, <3>1, <3>2, GoingOnKeepsIInv DEF StatsCache, Handling
  <2> QED
    BY <1>2, <2>1, <2>2, Ranges
<1>7. CASE StatsTotals(c)
  <2>1. StepOf(c) /\ RequestOK(c)'
    BY <1>1, <1>3, <1>7, Ranges
    DEF StatsTotals, StepOf, Goto, RequestOK, TypeOK, Counting, Running, Handling, Replied
  <2> QED
    BY <1>7, <2>1, GoingOnKeepsIInv DEF StatsTotals, Handling
<1>8. CASE StatsCategories(c)
  <2>1. StepOf(c) /\ RequestOK(c)'
    BY <1>1, <1>3, <1>8, Ranges
    DEF StatsCategories, StepOf, Goto, RequestOK, TypeOK, Counting, Running, Handling, Replied, gathered
  <2> QED
    BY <1>8, <2>1, GoingOnKeepsIInv DEF StatsCategories, Handling, gathered
<1>9. CASE StatsStore(c)
  <2>1. cache' = [age |-> 0, stats |-> stats[c]] /\ stats[c] <= Deadline + 1
    BY <1>1, <1>9, Ranges DEF StatsStore, RequestOK, Counting
  <2>2. stats[c] \in 0..TooOld /\ stats[c] < TooOld
    BY <1>1, <2>1, Ranges DEF RequestOK
  <2>3. cache' \in [age : 0..TTL, stats : 0..TooOld] /\ EntryInv'
    BY <2>1, <2>2, Ranges DEF EntryInv
  <2> QED
    BY <1>1, <1>3, <1>4, <1>9, <2>2, <2>3, ReplyKeepsIInv DEF StatsStore, RequestOK, gathered
<1>10. CASE GetItem(c)
  <2>1. item' = [item EXCEPT ![c] = item'[c]] /\ item'[c] = batches
    BY <1>1, <1>10 DEF GetItem, TypeOK
  <2>2. CASE batches = 0
    <3>1. Reply(c, "not_found") /\ UNCHANGED <<cache, batches, stats, evidence>>
      BY <1>10, <2>2 DEF GetItem
    <3>2. /\ stats' = [stats EXCEPT ![c] = stats'[c]] /\ stats'[c] = 0 /\ stats'[c] \in 0..TooOld
          /\ evidence' = [evidence EXCEPT ![c] = evidence'[c]] /\ evidence'[c] \in 0..batches
          /\ item'[c] \in 0..batches
      BY <1>1, <1>2, <1>3, <1>10, <2>1, <3>1, Ranges DEF GetItem, RequestOK
    <3>3. cache' \in [age : 0..TTL, stats : 0..TooOld] /\ EntryInv'
      BY <1>1, <1>2, <3>1 DEF EntryInv
    <3> QED
      BY <1>4, <2>1, <3>1, <3>2, <3>3, ReplyKeepsIInv
  <2>3. CASE batches > 0
    <3>1. Goto(c, "evidence") /\ UNCHANGED <<free, cache, batches, age, stats, evidence>>
      BY <1>2, <1>10, <2>3 DEF GetItem
    <3>2. StepOf(c) /\ RequestOK(c)'
      BY <1>1, <1>2, <1>3, <1>10, <2>1, <3>1
      DEF GetItem, StepOf, Goto, RequestOK, TypeOK, Counting, Running, Handling, Replied
    <3> QED
      BY <1>10, <3>1, <3>2, GoingOnKeepsIInv DEF GetItem, Handling
  <2> QED
    BY <1>2, <2>2, <2>3
<1>11. CASE GetEvidence(c)
  <2>1. StepOf(c) /\ RequestOK(c)'
    BY <1>1, <1>2, <1>3, <1>11
    DEF GetEvidence, StepOf, Goto, RequestOK, TypeOK, Counting, Running, Handling, Replied
  <2> QED
    BY <1>11, <2>1, GoingOnKeepsIInv DEF GetEvidence, Handling
<1>12. CASE QueryFails(c)
  BY <1>12, EndKeepsIInv
<1> QED
  BY <1>5, <1>6, <1>7, <1>8, <1>9, <1>10, <1>11, <1>12 DEF Handle

-----------------------------------------------------------------------------
(* The database and the clock *)

\* No request moves: each is as it was, but for its age and an unstored statistic.
LEMMA StandingKeepsIInv ==
  ASSUME IInv, UNCHANGED <<free, pc, item, evidence>>, batches' \in Nat, batches <= batches',
         batches' <= MaxBatches,
         age' \in [Clients -> 0..Deadline], stats' \in [Clients -> 0..TooOld],
         \A c \in Clients :
            IF pc[c] \in Counting THEN stats'[c] <= age'[c] + 1 ELSE stats'[c] = stats[c],
         cache' \in [age : 0..TTL, stats : 0..TooOld], EntryInv'
  PROVE  IInv'
<1>1. TypeOK'
  BY BatchesAssumption DEF IInv, TypeOK
<1>2. PermitsAccounted'
  BY DEF IInv, PermitsAccounted, Handled
<1>3. StatsFresh' /\ ItemIsSupported' /\ HoldInv' /\ StoreInv'
  BY DEF IInv, StatsFresh, ItemIsSupported, HoldInv, StoreInv, Counting
<1> QED
  BY <1>1, <1>2, <1>3 DEF IInv

LEMMA IngestKeepsIInv ==
  ASSUME IInv, Ingest
  PROVE  IInv'
<1>1. TypeOK /\ StoreInv /\ EntryInv
  BY DEF IInv
<1>2. batches' \in Nat /\ batches <= batches' /\ batches' <= MaxBatches
  BY <1>1, BatchesAssumption DEF Ingest, TypeOK
<1>3. /\ cache' \in [age : 0..TTL, stats : 0..TooOld]
      /\ cache'.age = cache.age
      /\ cache'.stats = Overtaken(cache.stats)
  <2>1. cache' = [age |-> cache.age, stats |-> Overtaken(cache.stats)]
    BY <1>1 DEF Ingest, TypeOK
  <2> QED
    BY <1>1, <2>1, Ranges DEF TypeOK, Overtaken
<1>4. EntryInv'
  BY <1>1, <1>3, Ranges DEF TypeOK, EntryInv, Overtaken
<1>5. UNCHANGED <<free, pc, age, item, evidence>>
  BY DEF Ingest, Statistics
<1>6. stats' = [c \in Clients |-> IF pc[c] \in Counting THEN Overtaken(stats[c]) ELSE stats[c]]
  BY DEF Ingest, Statistics
<1>7. stats' \in [Clients -> 0..TooOld]
  BY <1>1, <1>6, Ranges DEF TypeOK, Overtaken
<1>8. \A c \in Clients :
         IF pc[c] \in Counting THEN stats'[c] <= age'[c] + 1 ELSE stats'[c] = stats[c]
  BY <1>1, <1>5, <1>6, Ranges DEF TypeOK, StoreInv, Overtaken
<1> QED
  BY <1>1, <1>2, <1>3, <1>4, <1>5, <1>7, <1>8, StandingKeepsIInv DEF TypeOK

LEMMA TickKeepsIInv ==
  ASSUME IInv, Tick
  PROVE  IInv'
<1>1. TypeOK /\ StoreInv /\ EntryInv
  BY DEF IInv
<1>2. UNCHANGED <<free, pc, batches, item, evidence>>
  BY DEF Tick, Statistics
<1>3. batches' \in Nat /\ batches <= batches' /\ batches' <= MaxBatches
  BY <1>1, <1>2, BatchesAssumption DEF TypeOK
<1>4. /\ cache' \in [age : 0..TTL, stats : 0..TooOld]
      /\ cache'.age < TTL => cache'.age = cache.age + 1 /\ cache.age < TTL
      /\ cache'.stats <= cache.stats + 1
  <2>1. cache.age \in 0..TTL /\ cache.stats \in 0..TooOld
    BY <1>1 DEF TypeOK
  <2>2. Older(cache.stats) \in 0..TooOld /\ Older(cache.stats) <= cache.stats + 1
    BY <2>1, Ranges DEF Older
  <2>3. cache' = [age |-> IF cache.age < TTL THEN cache.age + 1 ELSE TTL,
                  stats |-> Older(cache.stats)]
    BY DEF Tick
  <2> QED
    BY <2>1, <2>2, <2>3, Ranges
<1>5. EntryInv'
  BY <1>1, <1>4, Ranges DEF TypeOK, EntryInv
<1>6. \A c \in Clients : TimeLimit(c) \in Nat /\ TimeLimit(c) <= Deadline
  BY Ranges DEF TimeLimit
<1>7. \A c \in Clients :
         age'[c] = IF pc[c] \in Running THEN age[c] + 1 ELSE age[c]
  BY DEF Tick
<1>8. age' \in [Clients -> 0..Deadline]
  BY <1>1, <1>6, Ranges DEF Tick, TypeOK
<1>9. stats' = [c \in Clients |-> IF pc[c] \in Counting THEN Older(stats[c]) ELSE stats[c]]
  BY DEF Tick, Statistics
<1>10. stats' \in [Clients -> 0..TooOld]
  BY <1>1, <1>9, Ranges DEF TypeOK, Older
<1>11. \A c \in Clients :
          IF pc[c] \in Counting THEN stats'[c] <= age'[c] + 1 ELSE stats'[c] = stats[c]
  <2> SUFFICES ASSUME NEW c \in Clients
               PROVE  IF pc[c] \in Counting THEN stats'[c] <= age'[c] + 1
                                               ELSE stats'[c] = stats[c]
    OBVIOUS
  <2>1. CASE pc[c] \in Counting
    <3>1. pc[c] \in Running
      BY <2>1 DEF Counting, Running, Handling
    <3>2. stats[c] \in 0..TooOld /\ age[c] \in 0..Deadline /\ stats[c] <= age[c] + 1
      BY <1>1, <2>1 DEF TypeOK, StoreInv
    <3>3. stats'[c] <= stats[c] + 1 /\ stats'[c] \in Int
      BY <1>9, <1>10, <2>1, <3>2, Ranges DEF Older
    <3> QED
      BY <1>7, <2>1, <3>1, <3>2, <3>3, Ranges
  <2> QED
    BY <1>9, <2>1
<1> QED
  BY <1>2, <1>3, <1>4, <1>5, <1>8, <1>10, <1>11, StandingKeepsIInv

LEMMA NextKeepsIInv == IInv /\ [Next]_vars => IInv'
<1> SUFFICES ASSUME IInv, [Next]_vars PROVE IInv'
  OBVIOUS
<1>1. CASE \E c \in Clients : Arrive(c) \/ Handle(c) \/ Expire(c) \/ Leave(c)
  BY <1>1, ArriveKeepsIInv, HandleKeepsIInv, EndKeepsIInv
<1>2. CASE Ingest
  BY <1>2, IngestKeepsIInv
<1>3. CASE Tick
  BY <1>3, TickKeepsIInv
<1>4. CASE UNCHANGED vars
  BY <1>4 DEF vars, gathered, IInv, TypeOK, PermitsAccounted, Handled, StatsFresh,
              ItemIsSupported, HoldInv, StoreInv, EntryInv
<1> QED
  BY <1>1, <1>2, <1>3, <1>4 DEF Next

LEMMA Invariance == Spec => []IInv
  BY Initially, NextKeepsIInv, PTL DEF Spec

-----------------------------------------------------------------------------
(* Theorems *)

\* Every variable of the service stays in its range.
THEOREM TypeCorrect == Spec => []TypeOK
<1>1. IInv => TypeOK
  BY DEF IInv
<1> QED
  BY <1>1, Invariance, PTL

\* Every admission permit is free or with a request that is being handled, whatever
\* ended the requests before: an answer, their deadline, or their client.
THEOREM PermitsKept == Spec => []PermitsAccounted
<1>1. IInv => PermitsAccounted
  BY DEF IInv
<1> QED
  BY <1>1, Invariance, PTL

\* What /stats answers was true within the lifetime of a cache entry and the
\* deadline of a request, however the requests that fill the cache overtake each
\* other.
THEOREM FreshStatistics == Spec => []StatsFresh
<1>1. IInv => StatsFresh
  BY DEF IInv
<1> QED
  BY <1>1, Invariance, PTL

\* The detail of a CVE shows the evidence of the item it shows, although ingestion
\* commits between its reads.
THEOREM SupportedItems == Spec => []ItemIsSupported
<1>1. IInv => ItemIsSupported
  BY DEF IInv
<1> QED
  BY <1>1, Invariance, PTL

-----------------------------------------------------------------------------
(* The service is a BoundedService *)

\* Only a request that is under way has been running for some time.
AgeInv == \A c \in Clients : pc[c] \in Running \/ age[c] = 0

Busy == {c \in Clients : pc[c] = "busy"}
Since == [c \in Clients |-> IF c \in Handled THEN age[c] ELSE 0]

LEMMA PermitsArePlaces ==
  ASSUME TypeOK, PermitsAccounted
  PROVE  /\ free > 0 <=> Cardinality(Handled) < Permits
         /\ free = 0 <=> Cardinality(Handled) = Permits
  BY HandledIsFinite, PermitsAssumption DEF TypeOK, PermitsAccounted

LEMMA SameCount == \A S : Service!Cardinality(S) = Cardinality(S)
  BY DEF Service!Cardinality, Cardinality

\* What one request may do to its place and its time, whatever else it does.
LEMMA Moves ==
  ASSUME NEW c \in Clients, Arrive(c) \/ Handle(c) \/ Expire(c) \/ Leave(c)
  PROVE  \E step :
            /\ Goto(c, step)
            /\ \/ pc[c] = "none" /\ step \in Handling /\ free > 0 /\ age' = age
               \/ pc[c] = "none" /\ step = "busy" /\ free = 0 /\ age' = age
               \/ pc[c] = "none" /\ step = "probe" /\ age' = age
               \/ pc[c] \in Handling /\ step \in Handling /\ age' = age
               \/ step \notin Running \cup {"busy"} /\ age' = [age EXCEPT ![c] = 0]
<1> USE DEF Running, Handling
<1>1. CASE Arrive(c)
  BY <1>1 DEF Arrive
<1>2. CASE Expire(c) \/ Leave(c) \/ Probe(c) \/ StatsStore(c) \/ GetValidation(c) \/ QueryFails(c)
  BY <1>2 DEF Expire, Leave, Probe, StatsStore, GetValidation, QueryFails, Reply
<1>3. CASE StatsCache(c) \/ GetItem(c)
  BY <1>3 DEF StatsCache, GetItem, Reply
<1>4. CASE StatsTotals(c) \/ StatsCategories(c) \/ GetEvidence(c)
  BY <1>4 DEF StatsTotals, StatsCategories, GetEvidence
<1> QED
  BY <1>1, <1>2, <1>3, <1>4 DEF Handle

LEMMA MovesRefine ==
  ASSUME TypeOK, PermitsAccounted, AgeInv, NEW c \in Clients,
         Arrive(c) \/ Handle(c) \/ Expire(c) \/ Leave(c)
  PROVE  [Service!Next]_Service!vars /\ AgeInv'
<1>1. PICK step :
            /\ Goto(c, step)
            /\ \/ pc[c] = "none" /\ step \in Handling /\ free > 0 /\ age' = age
               \/ pc[c] = "none" /\ step = "busy" /\ free = 0 /\ age' = age
               \/ pc[c] = "none" /\ step = "probe" /\ age' = age
               \/ pc[c] \in Handling /\ step \in Handling /\ age' = age
               \/ step \notin Running \cup {"busy"} /\ age' = [age EXCEPT ![c] = 0]
  BY Moves
<1>2. \A d \in Clients : pc'[d] = IF d = c THEN step ELSE pc[d]
  BY <1>1 DEF Goto, TypeOK
<1>3. Handled' = {d \in Clients : IF d = c THEN step \in Handling ELSE pc[d] \in Handling}
  BY <1>2 DEF Handled
<1>4. Busy' = {d \in Clients : IF d = c THEN step = "busy" ELSE pc[d] = "busy"}
  BY <1>2 DEF Busy
<1>5. age \in [Clients -> 0..Deadline]
  BY DEF TypeOK
<1>6. AgeInv'
  BY <1>1, <1>2, <1>5 DEF AgeInv, Running, Handling
<1>7. CASE pc[c] = "none" /\ step \in Handling /\ free > 0 /\ age' = age
  <2>1. Handled' = Handled \cup {c} /\ Busy' = Busy /\ c \notin Handled \cup Busy
    BY <1>3, <1>4, <1>7 DEF Handled, Busy, Handling
  <2>2. Since' = Since
    BY <1>7, <2>1 DEF Since, AgeInv, Running, Handling
  <2>3. Cardinality(Handled) < Permits
    BY <1>7, PermitsArePlaces
  <2>4. Service!Enter(c)
    BY <2>1, <2>2, <2>3, SameCount DEF Service!Enter, Busy, Since
  <2> QED
    BY <1>6, <2>4 DEF Service!Next
<1>8. CASE pc[c] = "none" /\ step = "busy" /\ free = 0 /\ age' = age
  <2>1. Handled' = Handled /\ Busy' = Busy \cup {c} /\ c \notin Handled \cup Busy
    BY <1>3, <1>4, <1>8 DEF Handled, Busy, Handling
  <2>2. Since' = Since
    BY <1>8, <2>1 DEF Since
  <2>3. Cardinality(Handled) = Permits
    BY <1>8, PermitsArePlaces
  <2>4. Service!TurnAway(c)
    BY <2>1, <2>2, <2>3, SameCount DEF Service!TurnAway, Busy, Since
  <2> QED
    BY <1>6, <2>4 DEF Service!Next
<1>9. CASE \/ pc[c] = "none" /\ step = "probe" /\ age' = age
           \/ pc[c] \in Handling /\ step \in Handling /\ age' = age
  <2>1. Handled' = Handled /\ Busy' = Busy
    BY <1>3, <1>4, <1>9 DEF Handled, Busy, Handling
  <2>2. Since' = Since
    BY <1>9, <2>1 DEF Since
  <2> QED
    BY <1>6, <2>1, <2>2 DEF Service!vars, Busy, Since
<1>10. CASE step \notin Running \cup {"busy"} /\ age' = [age EXCEPT ![c] = 0]
  <2>1. Handled' = Handled \ {c} /\ Busy' = Busy \ {c}
    BY <1>3, <1>4, <1>10 DEF Handled, Busy, Running
  <2>2. Since' = [Since EXCEPT ![c] = 0]
    BY <1>5, <1>10, <2>1 DEF Since
  <2>3. CASE c \in Handled
    <3>1. Busy' = Busy
      BY <2>1, <2>3 DEF Handled, Busy, Handling
    <3>2. Service!Depart(c)
      BY <2>1, <2>2, <2>3, <3>1 DEF Service!Depart, Busy, Since
    <3> QED
      BY <1>6, <3>2 DEF Service!Next
  <2>4. CASE c \notin Handled
    <3>1. Handled' = Handled /\ Since' = Since
      BY <2>1, <2>2, <2>4 DEF Since
    <3>2. CASE c \in Busy
      <4>1. Service!GiveUp(c)
        BY <2>1, <3>1, <3>2 DEF Service!GiveUp, Busy, Since
      <4> QED
        BY <1>6, <4>1 DEF Service!Next
    <3>3. CASE c \notin Busy
      BY <1>6, <2>1, <3>1, <3>3 DEF Service!vars, Busy, Since
    <3> QED
      BY <3>2, <3>3
  <2> QED
    BY <2>3, <2>4
<1> QED
  BY <1>1, <1>7, <1>8, <1>9, <1>10

LEMMA TickRefines ==
  ASSUME TypeOK, AgeInv, Tick
  PROVE  [Service!Next]_Service!vars /\ AgeInv'
<1>1. pc' = pc /\ Handled' = Handled /\ Busy' = Busy
  BY DEF Tick, Handled, Busy
<1>2. age' = [c \in Clients |-> IF pc[c] \in Running THEN age[c] + 1 ELSE age[c]]
  BY DEF Tick
<1>3. AgeInv'
  BY <1>1, <1>2 DEF AgeInv
<1>4. \A c \in Handled : pc[c] \in Running /\ Since[c] = age[c] /\ age[c] < Deadline
  BY DEF Tick, Handled, Since, TimeLimit, Running, Handling
<1>5. Since' = [c \in Clients |-> IF c \in Handled THEN Since[c] + 1 ELSE 0]
  BY <1>1, <1>2, <1>4 DEF Since
<1>6. Service!Wait
  BY <1>1, <1>4, <1>5 DEF Service!Wait, Busy, Since
<1> QED
  BY <1>3, <1>6 DEF Service!Next

\* However requests are answered, dropped or left, the server is a service of Permits
\* places: it turns a client away only when they are all taken at that moment, and no
\* handler keeps one beyond the deadline.
THEOREM ServiceIsBounded == Spec => ImplementsBoundedService
<1>1. Init => Service!Init /\ AgeInv
  <2> SUFFICES ASSUME Init PROVE Service!Init /\ AgeInv
    OBVIOUS
  <2>1. Handled = {} /\ Busy = {} /\ Since = [c \in Clients |-> 0]
    BY DEF Init, Handled, Busy, Since, Handling
  <2> QED
    BY <2>1 DEF Service!Init, Busy, Since, Init, Nothing, AgeInv
<1>2. IInv /\ AgeInv /\ [Next]_vars => [Service!Next]_Service!vars /\ AgeInv'
  <2> SUFFICES ASSUME IInv, AgeInv, [Next]_vars PROVE [Service!Next]_Service!vars /\ AgeInv'
    OBVIOUS
  <2>1. CASE \E c \in Clients : Arrive(c) \/ Handle(c) \/ Expire(c) \/ Leave(c)
    BY <2>1, MovesRefine DEF IInv
  <2>2. CASE Tick
    BY <2>2, TickRefines DEF IInv
  <2>3. CASE Ingest \/ UNCHANGED vars
    <3>1. pc' = pc /\ age' = age
      BY <2>3 DEF Ingest, vars
    <3> QED
      BY <3>1 DEF Service!vars, Handled, AgeInv
  <2> QED
    BY <2>1, <2>2, <2>3 DEF Next
<1> QED
  BY <1>1, <1>2, Invariance, PTL DEF Spec, ImplementsBoundedService, Service!Spec

-----------------------------------------------------------------------------
(* Lists: the walk of ItemPaging over the rows of ItemMerge *)

-----------------------------------------------------------------------------
(* The merge of a write into a row *)

Numbers == Nat \cup {Null}

\* A number that is the best so far, against one more.
LEMMA LargerIsBest ==
  ASSUME NEW values \in SUBSET Numbers, NEW x, BestOf(x, values, AtLeast),
         NEW y \in Numbers
  PROVE  BestOf(Larger(y, x), values \cup {y}, AtLeast)
<1>1. x \in Numbers
  BY DEF BestOf
<1>2. x = Null => values = {Null}
  BY DEF BestOf
<1>3. \A v \in values \ {Null} : x >= v
  BY DEF BestOf, AtLeast
<1>4. CASE y = Null
  BY <1>1, <1>2, <1>3, <1>4 DEF BestOf, AtLeast, Larger
<1>5. CASE y # Null /\ x = Null
  BY <1>2, <1>5 DEF BestOf, AtLeast, Larger, Numbers
<1>6. CASE y # Null /\ x # Null /\ y >= x
  BY <1>1, <1>3, <1>6 DEF BestOf, AtLeast, Larger, Numbers
<1>7. CASE y # Null /\ x # Null /\ ~(y >= x)
  BY <1>1, <1>3, <1>7 DEF BestOf, AtLeast, Larger, Numbers
<1> QED
  BY <1>4, <1>5, <1>6, <1>7

LEMMA LargerEitherWay ==
  ASSUME NEW x \in Numbers, NEW y \in Numbers
  PROVE  Larger(x, y) = Larger(y, x)
  BY NullAssumption DEF Larger, Numbers

LEMMA SmallerIsBest ==
  ASSUME NEW values \in SUBSET Numbers, NEW x, BestOf(x, values, AtMost),
         NEW y \in Numbers
  PROVE  BestOf(Smaller(x, y), values \cup {y}, AtMost)
<1>1. x \in Numbers
  BY DEF BestOf
<1>2. x = Null => values = {Null}
  BY DEF BestOf
<1>3. \A v \in values \ {Null} : x <= v
  BY DEF BestOf, AtMost
<1>4. CASE x = Null
  BY <1>2, <1>4 DEF BestOf, AtMost, Smaller, Numbers
<1>5. CASE x # Null /\ y = Null
  BY <1>1, <1>3, <1>5 DEF BestOf, AtMost, Smaller
<1>6. CASE x # Null /\ y # Null /\ x <= y
  BY <1>1, <1>3, <1>6 DEF BestOf, AtMost, Smaller, Numbers
<1>7. CASE x # Null /\ y # Null /\ ~(x <= y)
  BY <1>1, <1>3, <1>7 DEF BestOf, AtMost, Smaller, Numbers
<1> QED
  BY <1>4, <1>5, <1>6, <1>7

\* The severity is never NULL, and the rank of the greater one is kept.
LEMMA SeverityIsBest ==
  ASSUME NEW values \in SUBSET Nat, NEW x, BestOf(x, values, AtLeast), NEW y \in Nat
  PROVE  BestOf(IF y >= x THEN y ELSE x, values \cup {y}, AtLeast)
<1>1. x \in Nat /\ x # Null
  BY NullAssumption DEF BestOf
<1>2. \A v \in values : x >= v
  BY NullAssumption DEF BestOf, AtLeast
<1> QED
  BY <1>1, <1>2, NullAssumption DEF BestOf, AtLeast

LEMMA OneWrite ==
  ASSUME NEW w \in Writes
  PROVE  /\ BestOfAll(w, {w})
         /\ <<w>> \in Seq(Writes) /\ <<w>> # <<>>
         /\ WritesOf(<<w>>) = {w} /\ LastWord(w, <<w>>)
<1>1. w.trust \in Nat /\ w.severity \in Nat /\ w.score \in Numbers
  BY WritesAssumption DEF Numbers
<1>2. w.published \in Numbers /\ w.updated \in Numbers
  BY WritesAssumption DEF Numbers, Texts
<1>3. /\ BestOf(w.trust, {v.trust : v \in {w}}, AtLeast)
      /\ BestOf(w.severity, {v.severity : v \in {w}}, AtLeast)
      /\ BestOf(w.score, {v.score : v \in {w}}, AtLeast)
  BY <1>1 DEF BestOf, AtLeast, Numbers
<1>4. /\ BestOf(w.published, {v.published : v \in {w}}, AtMost)
      /\ BestOf(w.updated, {v.updated : v \in {w}}, AtLeast)
  BY <1>2 DEF BestOf, AtLeast, AtMost, Numbers
<1>5. BestOfAll(w, {w})
  BY <1>3, <1>4 DEF BestOfAll
<1> DEFINE s == <<w>>
<1>6. s \in Seq(Writes) /\ s # <<>> /\ DOMAIN s = {1} /\ s[1] = w
  OBVIOUS
<1> HIDE DEF s
<1>7. WritesOf(s) = {w}
  BY <1>6 DEF WritesOf
<1>8. Speakers(s) = {1} /\ Tellers(s) = {1}
  <2>1. \A k \in {1} : \A j \in 1..k : s[j].trust <= s[k].trust
    BY <1>1, <1>6
  <2>2. Speakers(s) = {1}
    BY <1>6, <2>1 DEF Speakers
  <2> QED
    BY <2>2 DEF Tellers
<1>9. \A column : FromLast(w, s, {1}, column)
  BY <1>6 DEF FromLast
<1>10. IF Dated(s) = {} THEN w.due = Null ELSE FromLast(w, s, Dated(s), "due")
  <2>1. Dated(s) = IF w.due = Null THEN {} ELSE {1}
    BY <1>6 DEF Dated
  <2> QED
    BY <1>9, <2>1
<1>11. LastWord(w, s)
  BY <1>6, <1>8, <1>9, <1>10 DEF LastWord
<1> QED
  BY <1>5, <1>6, <1>7, <1>11 DEF s

\* The columns of a row that are the best of its writes: a merge adds its write to
\* their set and forgets nothing of it.
LEMMA MergeKeepsBest ==
  ASSUME NEW row, NEW writes \in SUBSET Writes, BestOfAll(row, writes), NEW w \in Writes
  PROVE  BestOfAll(Merge(row, w), writes \cup {w})
<1> DEFINE merged == Merge(row, w)
<1>0. /\ w.trust \in Nat /\ w.severity \in Nat /\ w.score \in Numbers
      /\ w.published \in Numbers /\ w.updated \in Numbers
  BY WritesAssumption DEF Numbers, Texts
<1>1. merged.exploited <=> \E v \in writes \cup {w} : v.exploited
  <2>1. merged.exploited <=> (row.exploited \/ w.exploited)
    BY DEF Merge
  <2>2. row.exploited <=> \E v \in writes : v.exploited
    BY DEF BestOfAll
  <2> QED
    BY <2>1, <2>2
<1>2. BestOf(merged.severity, {v.severity : v \in writes \cup {w}}, AtLeast)
  <2>1. merged.severity = IF w.severity >= row.severity THEN w.severity ELSE row.severity
    BY DEF Merge
  <2>2. {v.severity : v \in writes} \in SUBSET Nat
    BY WritesAssumption
  <2>3. BestOf(row.severity, {v.severity : v \in writes}, AtLeast)
    BY DEF BestOfAll
  <2>4. BestOf(merged.severity, {v.severity : v \in writes} \cup {w.severity}, AtLeast)
    BY <1>0, <2>1, <2>2, <2>3, SeverityIsBest
  <2>5. {v.severity : v \in writes \cup {w}} = {v.severity : v \in writes} \cup {w.severity}
    OBVIOUS
  <2> QED
    BY <2>4, <2>5
<1>3. BestOf(merged.score, {v.score : v \in writes \cup {w}}, AtLeast)
  <2>1. merged.score = Larger(w.score, row.score)
    BY DEF Merge
  <2>2. {v.score : v \in writes} \in SUBSET Numbers
    BY WritesAssumption DEF Numbers
  <2>3. BestOf(row.score, {v.score : v \in writes}, AtLeast)
    BY DEF BestOfAll
  <2>4. BestOf(merged.score, {v.score : v \in writes} \cup {w.score}, AtLeast)
    BY <1>0, <2>1, <2>2, <2>3, LargerIsBest
  <2>5. {v.score : v \in writes \cup {w}} = {v.score : v \in writes} \cup {w.score}
    OBVIOUS
  <2> QED
    BY <2>4, <2>5
<1>4. BestOf(merged.published, {v.published : v \in writes \cup {w}}, AtMost)
  <2>1. merged.published = Smaller(row.published, w.published)
    BY DEF Merge
  <2>2. {v.published : v \in writes} \in SUBSET Numbers
    BY WritesAssumption DEF Numbers, Texts
  <2>3. BestOf(row.published, {v.published : v \in writes}, AtMost)
    BY DEF BestOfAll
  <2>4. BestOf(merged.published, {v.published : v \in writes} \cup {w.published}, AtMost)
    BY <1>0, <2>1, <2>2, <2>3, SmallerIsBest
  <2>5. {v.published : v \in writes \cup {w}}
          = {v.published : v \in writes} \cup {w.published}
    OBVIOUS
  <2> QED
    BY <2>4, <2>5
<1>5. BestOf(merged.updated, {v.updated : v \in writes \cup {w}}, AtLeast)
  <2>1. merged.updated = Larger(row.updated, w.updated)
    BY DEF Merge
  <2>2. {v.updated : v \in writes} \in SUBSET Numbers
    BY WritesAssumption DEF Numbers, Texts
  <2>3. BestOf(row.updated, {v.updated : v \in writes}, AtLeast)
    BY DEF BestOfAll
  <2>4. BestOf(merged.updated, {v.updated : v \in writes} \cup {w.updated}, AtLeast)
    <3>1. row.updated \in Numbers
      BY <2>2, <2>3 DEF BestOf
    <3> QED
      BY <1>0, <2>1, <2>2, <2>3, <3>1, LargerIsBest, LargerEitherWay
  <2>5. {v.updated : v \in writes \cup {w}} = {v.updated : v \in writes} \cup {w.updated}
    OBVIOUS
  <2> QED
    BY <2>4, <2>5
<1>6. BestOf(merged.trust, {v.trust : v \in writes \cup {w}}, AtLeast)
  <2>1. merged.trust = IF w.trust >= row.trust THEN w.trust ELSE row.trust
    BY DEF Merge
  <2>2. {v.trust : v \in writes} \in SUBSET Nat
    BY WritesAssumption
  <2>3. BestOf(row.trust, {v.trust : v \in writes}, AtLeast)
    BY DEF BestOfAll
  <2>4. BestOf(merged.trust, {v.trust : v \in writes} \cup {w.trust}, AtLeast)
    BY <1>0, <2>1, <2>2, <2>3, SeverityIsBest
  <2>5. {v.trust : v \in writes \cup {w}} = {v.trust : v \in writes} \cup {w.trust}
    OBVIOUS
  <2> QED
    BY <2>4, <2>5
<1> HIDE DEF merged
<1>7. BestOfAll(merged, writes \cup {w})
  BY <1>1, <1>2, <1>3, <1>4, <1>5, <1>6 DEF BestOfAll
<1> QED
  BY <1>7 DEF merged

-----------------------------------------------------------------------------
(* The order of the writes *)

LEMMA OneMore ==
  ASSUME NEW s \in Seq(Writes), NEW w \in Writes
  PROVE  /\ Append(s, w) \in Seq(Writes) /\ Append(s, w) # <<>>
         /\ Len(s) \in Nat /\ DOMAIN s = 1..Len(s)
         /\ DOMAIN Append(s, w) = 1..(Len(s) + 1)
         /\ Append(s, w)[Len(s) + 1] = w
         /\ \A k \in 1..Len(s) : Append(s, w)[k] = s[k] /\ s[k] \in Writes
  OBVIOUS

LEMMA SameSubset ==
  ASSUME NEW n \in Nat, NEW P, P \subseteq 1..(n + 1), NEW Q, Q \subseteq 1..n \cup {n + 1},
         \A k \in 1..(n + 1) : k \in P <=> k \in Q
  PROVE  P = Q
<1>1. Q \subseteq 1..(n + 1)
  OBVIOUS
<1> DEFINE D == 1..(n + 1)
<1>2. P \subseteq D /\ Q \subseteq D /\ \A k \in D : k \in P <=> k \in Q
  BY <1>1
<1> HIDE DEF D
<1> QED
  BY <1>2

LEMMA OneMoreWrite ==
  ASSUME NEW s \in Seq(Writes), NEW w \in Writes
  PROVE  WritesOf(Append(s, w)) = WritesOf(s) \cup {w} /\ WritesOf(s) \in SUBSET Writes
<1> DEFINE t == Append(s, w)
           n == Len(s)
<1>1. /\ n \in Nat /\ DOMAIN s = 1..n /\ DOMAIN t = 1..(n + 1) /\ t[n + 1] = w
      /\ \A k \in 1..n : t[k] = s[k] /\ s[k] \in Writes
  BY OneMore
<1> HIDE DEF t, n
<1>2. WritesOf(t) \subseteq WritesOf(s) \cup {w}
  BY <1>1 DEF WritesOf
<1>3. \A k \in 1..n : s[k] \in WritesOf(t)
  BY <1>1 DEF WritesOf
<1>4. w \in WritesOf(t)
  BY <1>1 DEF WritesOf
<1>5. WritesOf(t) = WritesOf(s) \cup {w} /\ WritesOf(s) \in SUBSET Writes
  BY <1>1, <1>2, <1>3, <1>4 DEF WritesOf
<1> QED
  BY <1>5 DEF t

\* A column after one more write, which has it or has it not.
LEMMA ColumnAfterWrite ==
  ASSUME NEW s \in Seq(Writes), NEW w \in Writes, NEW places \in SUBSET DOMAIN s,
         NEW row, NEW new, NEW column
  PROVE  /\ new[column] = w[column]
               => FromLast(new, Append(s, w), places \cup {Len(s) + 1}, column)
         /\ new[column] = row[column] /\ FromLast(row, s, places, column)
               => FromLast(new, Append(s, w), places, column)
<1> DEFINE t == Append(s, w)
           n == Len(s)
<1>1. /\ n \in Nat /\ places \in SUBSET (1..n) /\ t[n + 1] = w
      /\ \A k \in 1..n : t[k] = s[k]
  BY OneMore
<1> HIDE DEF t, n
<1>2. new[column] = w[column] => FromLast(new, t, places \cup {n + 1}, column)
  BY <1>1 DEF FromLast
<1>3. new[column] = row[column] /\ FromLast(row, s, places, column)
         => FromLast(new, t, places, column)
  BY <1>1 DEF FromLast
<1> QED
  BY <1>2, <1>3 DEF t, n

\* A write takes the words over when no write before it was more trusted.
LEMMA SpeakersAfterWrite ==
  ASSUME NEW s \in Seq(Writes), NEW w \in Writes
  PROVE  /\ Speakers(Append(s, w)) =
               Speakers(s) \cup (IF \A v \in WritesOf(s) : v.trust <= w.trust
                                 THEN {Len(s) + 1} ELSE {})
         /\ Speakers(s) \in SUBSET DOMAIN s
<1> DEFINE t == Append(s, w)
           n == Len(s)
           Outranked == \A j \in 1..n : s[j].trust <= w.trust
<1>1. /\ n \in Nat /\ DOMAIN s = 1..n /\ DOMAIN t = 1..(n + 1) /\ t[n + 1] = w
      /\ \A k \in 1..n : t[k] = s[k] /\ s[k] \in Writes
  BY OneMore
<1>2. w.trust <= w.trust
  BY WritesAssumption
<1>3. Outranked <=> \A v \in WritesOf(s) : v.trust <= w.trust
  BY <1>1 DEF WritesOf
<1> HIDE DEF t, n
<1>4. \A k \in 1..n : k \in Speakers(t) <=> k \in Speakers(s)
  BY <1>1 DEF Speakers
<1>5. n + 1 \in Speakers(t) <=> Outranked
  BY <1>1, <1>2 DEF Speakers
<1>6. Speakers(t) \subseteq 1..(n + 1) /\ Speakers(s) \subseteq 1..n
  BY <1>1 DEF Speakers
<1>7. CASE Outranked
  <2>1. Speakers(t) = Speakers(s) \cup {n + 1}
    BY <1>1, <1>4, <1>5, <1>6, <1>7
  <2> QED
    BY <1>1, <1>3, <1>6, <1>7, <2>1 DEF t, n
<1>8. CASE ~Outranked
  <2>1. \A k \in 1..(n + 1) : k \in Speakers(t) <=> k \in Speakers(s)
    BY <1>1, <1>4, <1>5, <1>6, <1>8
  <2>2. Speakers(t) = Speakers(s)
    BY <1>1, <1>6, <2>1, SameSubset
  <2> QED
    BY <1>1, <1>3, <1>6, <1>8, <2>2 DEF t, n
<1> QED
  BY <1>7, <1>8

LEMMA TellersAfterWrite ==
  ASSUME NEW s \in Seq(Writes), s # <<>>, NEW w \in Writes
  PROVE  /\ Tellers(Append(s, w)) =
               Tellers(s) \cup (IF /\ \A v \in WritesOf(s) : v.trust <= w.trust
                                   /\ w.summary # ""
                                THEN {Len(s) + 1} ELSE {})
         /\ Tellers(s) \in SUBSET DOMAIN s
<1> DEFINE t == Append(s, w)
           n == Len(s)
           Speaks == \A v \in WritesOf(s) : v.trust <= w.trust
<1>1. /\ n \in Nat /\ n # 0 /\ DOMAIN s = 1..n /\ t[n + 1] = w
      /\ \A k \in 1..n : t[k] = s[k]
  BY OneMore
<1>2. /\ Speakers(t) = Speakers(s) \cup (IF Speaks THEN {n + 1} ELSE {})
      /\ Speakers(s) \in SUBSET (1..n)
  BY <1>1, SpeakersAfterWrite
<1>3. /\ \A k \in 1..n : k \in Speakers(t) <=> k \in Speakers(s)
      /\ n + 1 \in Speakers(t) <=> Speaks
      /\ Speakers(t) \subseteq 1..(n + 1) /\ Speakers(s) \subseteq 1..n
  BY <1>1, <1>2
<1> HIDE DEF t, n, Speaks
<1>4. Tellers(t) \subseteq 1..(n + 1) /\ Tellers(s) \subseteq 1..n
  BY <1>3 DEF Tellers
<1>5. ASSUME NEW k \in 1..n PROVE k \in Tellers(t) <=> k \in Tellers(s)
  <2>1. t[k].summary = s[k].summary
    BY <1>1
  <2> QED
    BY <1>3, <2>1 DEF Tellers
<1>6. n + 1 \in Tellers(t) <=> Speaks /\ w.summary # ""
  <2>1. n + 1 # 1 /\ t[n + 1].summary = w.summary
    BY <1>1
  <2> QED
    BY <1>3, <2>1 DEF Tellers
<1>7. CASE Speaks /\ w.summary # ""
  <2>1. \A k \in 1..(n + 1) : k \in Tellers(t) <=> k \in Tellers(s) \cup {n + 1}
    <3>1. n + 1 \in Tellers(t)
      BY <1>6, <1>7
    <3>2. \A k \in 1..(n + 1) : k \in 1..n \/ k = n + 1
      BY <1>1
    <3> QED
      BY <1>1, <1>5, <3>1, <3>2
  <2>2. Tellers(t) = Tellers(s) \cup {n + 1}
    BY <1>1, <1>4, <2>1, SameSubset
  <2> QED
    BY <1>1, <1>4, <1>7, <2>2 DEF t, n, Speaks
<1>8. CASE ~(Speaks /\ w.summary # "")
  <2>1. \A k \in 1..(n + 1) : k \in Tellers(t) <=> k \in Tellers(s)
    <3>1. n + 1 \notin Tellers(t)
      BY <1>6, <1>8
    <3>2. n + 1 \notin Tellers(s)
      BY <1>1, <1>4
    <3>3. \A k \in 1..(n + 1) : k \in 1..n \/ k = n + 1
      BY <1>1
    <3> QED
      BY <1>5, <3>1, <3>2, <3>3
  <2>2. Tellers(t) = Tellers(s)
    BY <1>1, <1>4, <2>1, SameSubset
  <2> QED
    BY <1>1, <1>4, <1>8, <2>2 DEF t, n, Speaks
<1> QED
  BY <1>7, <1>8

LEMMA DatedAfterWrite ==
  ASSUME NEW s \in Seq(Writes), NEW w \in Writes
  PROVE  /\ Dated(Append(s, w)) = Dated(s) \cup (IF w.due # Null THEN {Len(s) + 1} ELSE {})
         /\ Dated(s) \in SUBSET DOMAIN s
<1> DEFINE t == Append(s, w)
           n == Len(s)
<1>1. /\ n \in Nat /\ DOMAIN s = 1..n /\ DOMAIN t = 1..(n + 1) /\ t[n + 1] = w
      /\ \A k \in 1..n : t[k] = s[k]
  BY OneMore
<1> HIDE DEF t, n
<1>2. Dated(t) = Dated(s) \cup (IF w.due # Null THEN {n + 1} ELSE {})
  BY <1>1 DEF Dated
<1> QED
  BY <1>2 DEF t, n, Dated

\* A merge leaves every column to the last of the writes that it belongs to.
LEMMA MergeKeepsOrder ==
  ASSUME NEW row, NEW s \in Seq(Writes), s # <<>>, NEW w \in Writes,
         BestOfAll(row, WritesOf(s)), LastWord(row, s)
  PROVE  LastWord(Merge(row, w), Append(s, w))
<1> DEFINE merged == Merge(row, w)
           t == Append(s, w)
           n == Len(s)
           Speaks == \A v \in WritesOf(s) : v.trust <= w.trust
<1>1. w.trust >= row.trust <=> Speaks
  <2>1. BestOf(row.trust, {v.trust : v \in WritesOf(s)}, AtLeast)
    BY DEF BestOfAll
  <2>2. \A v \in WritesOf(s) : v.trust \in Nat /\ v.trust # Null
    BY OneMoreWrite, WritesAssumption, NullAssumption
  <2>3. row.trust \in Nat /\ \A v \in WritesOf(s) : v.trust <= row.trust
    BY <2>1, <2>2 DEF BestOf, AtLeast
  <2>4. PICK v \in WritesOf(s) : v.trust = row.trust
    BY <2>1 DEF BestOf
  <2>5. w.trust \in Nat
    BY WritesAssumption
  <2> QED
    BY <2>2, <2>3, <2>4, <2>5
<1>2. /\ merged.title = IF Speaks THEN w.title ELSE row.title
      /\ merged.source = IF Speaks THEN w.source ELSE row.source
      /\ merged.trust = IF Speaks THEN w.trust ELSE row.trust
      /\ merged.summary = IF Speaks /\ w.summary # "" THEN w.summary ELSE row.summary
      /\ merged.due = IF w.due # Null THEN w.due ELSE row.due
      /\ merged.ingested = w.ingested /\ merged.categories = w.categories
  BY <1>1 DEF Merge, Coalesce
<1> HIDE DEF merged, Speaks
<1>3. ASSUME NEW column \in {"title", "source", "trust"}
      PROVE  FromLast(merged, t, Speakers(t), column)
  <2>1. merged[column] = IF Speaks THEN w[column] ELSE row[column]
    BY <1>2
  <2>2. FromLast(row, s, Speakers(s), column)
    BY DEF LastWord
  <2>3. Speakers(t) = Speakers(s) \cup (IF Speaks THEN {n + 1} ELSE {})
    BY SpeakersAfterWrite DEF Speaks
  <2>4. Speakers(s) \in SUBSET DOMAIN s
    BY SpeakersAfterWrite
  <2>5. CASE Speaks
    <3>1. Speakers(t) = Speakers(s) \cup {n + 1} /\ merged[column] = w[column]
      BY <2>1, <2>3, <2>5
    <3>2. FromLast(merged, t, Speakers(s) \cup {n + 1}, column)
      BY <2>4, <3>1, ColumnAfterWrite
    <3> QED
      BY <3>1, <3>2
  <2>6. CASE ~Speaks
    <3>1. Speakers(t) = Speakers(s) /\ merged[column] = row[column]
      BY <2>1, <2>3, <2>6
    <3> QED
      BY <2>2, <2>4, <3>1, ColumnAfterWrite
  <2> QED
    BY <2>5, <2>6
<1>4. FromLast(merged, t, Tellers(t), "summary")
  <2>1. FromLast(row, s, Tellers(s), "summary")
    BY DEF LastWord
  <2>2. Tellers(t) = Tellers(s) \cup (IF Speaks /\ w.summary # "" THEN {n + 1} ELSE {})
    BY TellersAfterWrite DEF Speaks
  <2>3. Tellers(s) \in SUBSET DOMAIN s
    BY TellersAfterWrite
  <2>4. CASE Speaks /\ w.summary # ""
    <3>1. Tellers(t) = Tellers(s) \cup {n + 1} /\ merged["summary"] = w["summary"]
      BY <1>2, <2>2, <2>4
    <3>2. FromLast(merged, t, Tellers(s) \cup {n + 1}, "summary")
      BY <2>3, <3>1, ColumnAfterWrite
    <3> QED
      BY <3>1, <3>2
  <2>5. CASE ~(Speaks /\ w.summary # "")
    <3>1. Tellers(t) = Tellers(s) /\ merged["summary"] = row["summary"]
      BY <1>2, <2>2, <2>5
    <3> QED
      BY <2>1, <2>3, <3>1, ColumnAfterWrite
  <2> QED
    BY <2>4, <2>5
<1>5. ASSUME NEW column \in {"categories", "ingested"}
      PROVE  FromLast(merged, t, DOMAIN t, column)
  <2>1. merged[column] = w[column]
    BY <1>2
  <2>2. DOMAIN t = DOMAIN s \cup {n + 1}
    BY OneMore
  <2>3. FromLast(merged, t, DOMAIN s \cup {n + 1}, column)
    BY <2>1, ColumnAfterWrite
  <2> QED
    BY <2>2, <2>3
<1>6. IF Dated(t) = {} THEN merged.due = Null ELSE FromLast(merged, t, Dated(t), "due")
  <2>1. IF Dated(s) = {} THEN row.due = Null ELSE FromLast(row, s, Dated(s), "due")
    BY DEF LastWord
  <2>2. Dated(t) = Dated(s) \cup (IF w.due # Null THEN {n + 1} ELSE {})
    BY DatedAfterWrite
  <2>3. Dated(s) \in SUBSET DOMAIN s
    BY DatedAfterWrite
  <2>4. CASE w.due # Null
    <3>1. Dated(t) = Dated(s) \cup {n + 1} /\ merged["due"] = w["due"]
      BY <1>2, <2>2, <2>4
    <3>2. FromLast(merged, t, Dated(s) \cup {n + 1}, "due")
      BY <2>3, <3>1, ColumnAfterWrite
    <3>3. Dated(t) # {}
      BY <3>1
    <3> QED
      BY <3>1, <3>2, <3>3
  <2>5. CASE w.due = Null
    <3>1. Dated(t) = Dated(s) /\ merged["due"] = row["due"]
      BY <1>2, <2>2, <2>5
    <3> QED
      BY <2>1, <2>3, <3>1, ColumnAfterWrite
  <2> QED
    BY <2>4, <2>5
<1>7. LastWord(merged, t)
  BY <1>3, <1>4, <1>5, <1>6 DEF LastWord
<1> QED
  BY <1>7 DEF merged

-----------------------------------------------------------------------------
(* The inductive invariant *)

\* Every row has the time of a run to fall back on, and the writes it was made of.
RowInv == \A i \in present : rows[i].ingested \in Texts

\* A row that keeps its place has been delivered when the cursor is past it, and
\* only then.
PlaceInv == \A i \in Items \ moved :
    /\ i \notin present => seen[i] = 0
    /\ i \in present /\ walk = "first" => seen[i] = 0
    /\ i \in present /\ walk = "more" => seen[i] = IF i \in Rows THEN 0 ELSE 1
    /\ i \in present /\ walk = "done" => seen[i] = 1
    /\ seen[i] <= 1

PagingIInv == PagingTypeOK /\ RowInv /\ BestIsKept /\ LastWordCounts /\ PlaceInv

-----------------------------------------------------------------------------
(* Two orders of the same writes *)

LEMMA BestIsOne ==
  ASSUME NEW V, V \subseteq Nat \cup {Null}, NEW x, NEW y,
         \/ BestOf(x, V, AtLeast) /\ BestOf(y, V, AtLeast)
         \/ BestOf(x, V, AtMost) /\ BestOf(y, V, AtMost)
  PROVE  x = y
<1>1. x \in V /\ y \in V /\ (x = Null => V = {Null}) /\ (y = Null => V = {Null})
  BY DEF BestOf
<1>2. CASE x = Null \/ y = Null
  BY <1>1, <1>2
<1>3. CASE x # Null /\ y # Null
  <2>1. x \in Nat /\ y \in Nat /\ x \in V \ {Null} /\ y \in V \ {Null}
    BY <1>1, <1>3
  <2>2. (x >= y /\ y >= x) \/ (x <= y /\ y <= x)
    BY <2>1 DEF BestOf, AtLeast, AtMost
  <2> QED
    BY <2>1, <2>2
<1> QED
  BY <1>2, <1>3

\* The last write of some places, in two sequences, when the writes at all those places
\* agree on the column.
LEMMA AgreedColumn ==
  ASSUME NEW s, NEW t, NEW P, NEW Q, NEW q, NEW r, NEW column,
         FromLast(q, s, P, column), FromLast(r, t, Q, column),
         \A j \in P, k \in Q : s[j][column] = t[k][column]
  PROVE  q[column] = r[column]
  BY DEF FromLast

\* Two rows that were made of the same writes, in different orders: severity, score,
\* dates, claim and trust are the same, and the place in the lists is as soon as one
\* source has given a date.  Title and source are the same if the most trusted sources
\* agree on them, and a due date if all that give one do: when NVD and CISA, which are
\* equally trusted, both write a CVE, the later one's words stand.
THEOREM SameWritesSameColumns ==
  ASSUME NEW s \in Seq(Writes), NEW t \in Seq(Writes), WritesOf(s) = WritesOf(t),
         NEW q, BestOfAll(q, WritesOf(s)), LastWord(q, s),
         NEW r, BestOfAll(r, WritesOf(t)), LastWord(r, t)
  PROVE  /\ q.exploited <=> r.exploited
         /\ q.trust = r.trust /\ q.severity = r.severity /\ q.score = r.score
         /\ q.published = r.published /\ q.updated = r.updated
         /\ (\E w \in WritesOf(s) : w.published # Null \/ w.updated # Null)
               => Effective(q) = Effective(r)
         /\ \A column \in {"title", "source"} :
               (\A v, w \in WritesOf(s) : v.trust = q.trust /\ w.trust = q.trust
                                             => v[column] = w[column])
                  => q[column] = r[column]
         /\ (\A v, w \in WritesOf(s) : v.due # Null /\ w.due # Null => v.due = w.due)
               => q.due = r.due
<1> DEFINE g == WritesOf(s)
<1>0. g \in SUBSET Writes
  BY DEF WritesOf
<1>1. \A w \in g : /\ w.severity \in Nat /\ w.score \in Nat \cup {Null} /\ w.trust \in Nat
                  /\ w.published \in Nat \cup {Null} /\ w.updated \in Nat \cup {Null}
  BY <1>0, WritesAssumption DEF Texts
<1>2. q.exploited <=> r.exploited
  BY DEF BestOfAll
<1> HIDE DEF g
<1>a. BestOfAll(q, g) /\ BestOfAll(r, g)
  BY DEF g
<1>3. q.severity = r.severity
  <2>1. {w.severity : w \in g} \subseteq Nat \cup {Null}
    BY <1>1
  <2> QED
    BY <1>a, <2>1, BestIsOne DEF BestOfAll
<1>4. q.score = r.score
  <2>1. {w.score : w \in g} \subseteq Nat \cup {Null}
    BY <1>1
  <2> QED
    BY <1>a, <2>1, BestIsOne DEF BestOfAll
<1>5. q.published = r.published
  <2>1. {w.published : w \in g} \subseteq Nat \cup {Null}
    BY <1>1
  <2> QED
    BY <1>a, <2>1, BestIsOne DEF BestOfAll
<1>6. q.updated = r.updated
  <2>1. {w.updated : w \in g} \subseteq Nat \cup {Null}
    BY <1>1
  <2> QED
    BY <1>a, <2>1, BestIsOne DEF BestOfAll
<1>7. q.trust = r.trust
  <2>1. {w.trust : w \in g} \subseteq Nat \cup {Null}
    BY <1>1
  <2> QED
    BY <1>a, <2>1, BestIsOne DEF BestOfAll
<1>8. ASSUME NEW w \in g, w.published # Null \/ w.updated # Null
      PROVE  Effective(q) = Effective(r)
  <2>1. q.published # Null \/ q.updated # Null
    <3>1. /\ q.published = Null => {v.published : v \in g} = {Null}
          /\ q.updated = Null => {v.updated : v \in g} = {Null}
      BY <1>a DEF BestOfAll, BestOf
    <3>2. w.published \in {v.published : v \in g} /\ w.updated \in {v.updated : v \in g}
      BY <1>8
    <3> QED
      BY <1>8, <3>1, <3>2
  <2> QED
    BY <1>5, <1>6, <2>1 DEF Effective, Coalesce
<1>9. ASSUME NEW column \in {"title", "source"},
             \A v, w \in g : v.trust = q.trust /\ w.trust = q.trust => v[column] = w[column]
      PROVE  q[column] = r[column]
  <2>1. FromLast(q, s, Speakers(s), column) /\ FromLast(q, s, Speakers(s), "trust")
    BY DEF LastWord
  <2>2. FromLast(r, t, Speakers(t), column) /\ FromLast(r, t, Speakers(t), "trust")
    BY DEF LastWord
  <2>0. Speakers(s) \subseteq Nat /\ Speakers(t) \subseteq Nat
    BY DEF Speakers
  <2>3. PICK j \in Speakers(s) : q[column] = s[j][column] /\ \A i \in Speakers(s) : i <= j
    BY <2>1 DEF FromLast
  <2>4. PICK k \in Speakers(t) : r[column] = t[k][column] /\ \A i \in Speakers(t) : i <= k
    BY <2>2 DEF FromLast
  <2>5. s[j].trust = q.trust
    <3>1. PICK i \in Speakers(s) : q.trust = s[i].trust /\ \A l \in Speakers(s) : l <= i
      BY <2>1 DEF FromLast
    <3>2. i = j
      BY <2>0, <2>3, <3>1
    <3> QED
      BY <3>1, <3>2
  <2>6. t[k].trust = q.trust
    <3>1. PICK i \in Speakers(t) : r.trust = t[i].trust /\ \A l \in Speakers(t) : l <= i
      BY <2>2 DEF FromLast
    <3>2. i = k
      BY <2>0, <2>4, <3>1
    <3> QED
      BY <1>7, <3>1, <3>2
  <2>7. s[j] \in g /\ t[k] \in g
    BY DEF Speakers, WritesOf, g
  <2> QED
    BY <1>9, <2>3, <2>4, <2>5, <2>6, <2>7
<1>10. ASSUME \A v, w \in g : v.due # Null /\ w.due # Null => v.due = w.due
       PROVE  q.due = r.due
  <2>1. /\ \A k \in Dated(s) : s[k] \in g /\ s[k].due # Null
        /\ \A k \in Dated(t) : t[k] \in g /\ t[k].due # Null
    BY DEF Dated, WritesOf, g
  <2>2. Dated(s) = {} <=> Dated(t) = {}
    <3>1. Dated(s) = {} <=> \A w \in g : w.due = Null
      BY DEF Dated, WritesOf, g
    <3>2. Dated(t) = {} <=> \A w \in g : w.due = Null
      <4>1. g = WritesOf(t)
        BY DEF g
      <4> QED
        BY <4>1 DEF Dated, WritesOf
    <3> QED
      BY <3>1, <3>2
  <2>3. CASE Dated(s) = {}
    BY <2>2, <2>3 DEF LastWord
  <2>4. CASE Dated(s) # {}
    <3>1. FromLast(q, s, Dated(s), "due") /\ FromLast(r, t, Dated(t), "due")
      BY <2>2, <2>4 DEF LastWord
    <3> QED
      BY <1>10, <2>1, <3>1, AgreedColumn
  <2> QED
    BY <2>3, <2>4
<1> QED
  BY <1>2, <1>3, <1>4, <1>5, <1>6, <1>7, <1>8, <1>9, <1>10 DEF g

\* The timestamp that lists are ordered by is always there.
LEMMA EffectiveType ==
  ASSUME NEW row, NEW writes \in SUBSET Writes, BestOfAll(row, writes), row.ingested \in Texts
  PROVE  Effective(row) \in Texts
<1>1. row.published \in Texts \cup {Null} /\ row.updated \in Texts \cup {Null}
  BY WritesAssumption DEF BestOfAll, BestOf
<1> QED
  BY <1>1 DEF Effective, Coalesce

LEMMA PagingInitially == PagingInit => PagingIInv
<1> SUFFICES ASSUME PagingInit PROVE PagingIInv
  OBVIOUS
<1>1. PICK held \in SUBSET Items : rows \in [held -> Writes]
  BY DEF PagingInit
<1>2. present = held /\ \A i \in present : rows[i] \in WritesFor(i) /\ rows[i] \in Writes
  BY <1>1 DEF PagingInit, present
<1>3. given = [i \in present |-> <<rows[i]>>] /\ moved = {} /\ walk = "first"
  BY DEF PagingInit
<1>4. \A i \in present : /\ BestOfAll(rows[i], WritesOf(given[i]))
                        /\ LastWord(rows[i], given[i])
                        /\ WritesOf(given[i]) = {rows[i]}
  BY <1>2, <1>3, OneWrite
<1>5. \A i \in present : rows[i].ingested \in Texts
  BY <1>2, WritesAssumption
<1>6. \A i \in present : stamp[i] \in Texts
  <2> SUFFICES ASSUME NEW i \in present PROVE stamp[i] \in Texts
    OBVIOUS
  <2>1. WritesOf(given[i]) \in SUBSET Writes
    BY <1>2, <1>4
  <2> QED
    BY <2>1, <1>4, <1>5, EffectiveType DEF stamp
<1>7. PagingTypeOK
  <2>1. \A i \in present : given[i] \in Seq(WritesFor(i)) /\ given[i] # <<>>
    BY <1>2, <1>3
  <2> QED
    BY <1>1, <1>2, <1>3, <1>6, <2>1, ChangesAssumption DEF PagingInit, PagingTypeOK
<1>8. PlaceInv
  BY <1>3 DEF PagingInit, PlaceInv
<1>9. BestIsKept /\ LastWordCounts /\ RowInv
  BY <1>4, <1>5 DEF RowInv, BestIsKept, LastWordCounts
<1> QED
  BY <1>7, <1>8, <1>9 DEF PagingIInv

-----------------------------------------------------------------------------
(* A page *)

\* The rows are in one order, by their timestamps and identifiers.
LEMMA NewerOrders ==
  /\ \A s \in Texts, i \in Nat : ~Newer(s, i, s, i)
  /\ \A s, t \in Texts, i, j \in Nat : i # j => Newer(s, i, t, j) \/ Newer(t, j, s, i)
  /\ \A s, t, u \in Texts, i, j, k \in Nat :
        Newer(s, i, t, j) /\ Newer(t, j, u, k) => Newer(s, i, u, k)
  BY DEF Newer, Texts

LEMMA RowsFinite ==
  ASSUME PagingTypeOK
  PROVE  /\ IsFiniteSet(Rows) /\ Rows \subseteq present
         /\ \A S \in SUBSET Rows : IsFiniteSet(S) /\ Cardinality(S) \in Nat
         /\ Cardinality(Rows) \in Nat
<1>1. Rows \subseteq present /\ present \subseteq Items
  BY DEF Rows, PagingTypeOK
<1>2. IsFiniteSet(Items)
  BY ItemsAssumption
<1>3. \A S \in SUBSET Items : IsFiniteSet(S) /\ Cardinality(S) \in Nat
  BY <1>2, FS_Subset, FS_CardinalityType
<1> QED
  BY <1>1, <1>3

\* Every row of the page is newer than every row that the page leaves.
LEMMA PageIsNewest ==
  ASSUME PagingTypeOK, NEW last \in Page, NEW i \in Rows \ Page
  PROVE  Newer(stamp[last], last, stamp[i], i)
<1> DEFINE Before(k) == {j \in Rows : Newer(stamp[j], j, stamp[k], k)}
<1>1. last \in Rows /\ Cardinality(Before(last)) < Limit /\ ~(Cardinality(Before(i)) < Limit)
  BY DEF Page, Top
<1>2. \A j \in Rows : stamp[j] \in Texts /\ j \in Nat
  BY RowsFinite, ItemsAssumption DEF PagingTypeOK
<1>3. i # last
  OBVIOUS
<1>4. CASE Newer(stamp[i], i, stamp[last], last)
  <2>1. Before(i) \subseteq Before(last)
    <3> SUFFICES ASSUME NEW j \in Rows, Newer(stamp[j], j, stamp[i], i)
                 PROVE  Newer(stamp[j], j, stamp[last], last)
      OBVIOUS
    <3> QED
      BY <1>1, <1>2, <1>4, NewerOrders
  <2>2. IsFiniteSet(Before(last)) /\ IsFiniteSet(Before(i))
    BY RowsFinite
  <2>3. Cardinality(Before(i)) <= Cardinality(Before(last))
    BY <2>1, <2>2, FS_Subset
  <2>4. Cardinality(Before(i)) \in Nat /\ Cardinality(Before(last)) \in Nat
    BY RowsFinite
  <2> QED
    BY <1>1, <2>3, <2>4, LimitAssumption
<1> QED
  BY <1>1, <1>2, <1>3, <1>4, NewerOrders

\* A page of everything that is left.
LEMMA LastPageIsAll ==
  ASSUME PagingTypeOK, Cardinality(Rows) <= Limit
  PROVE  Page = Rows
<1> SUFFICES ASSUME NEW i \in Rows
             PROVE  Cardinality({j \in Rows : Newer(stamp[j], j, stamp[i], i)}) < Limit
  BY DEF Page, Top
<1> DEFINE Before == {j \in Rows : Newer(stamp[j], j, stamp[i], i)}
<1>1. stamp[i] \in Texts /\ i \in Nat
  BY RowsFinite, ItemsAssumption DEF PagingTypeOK
<1>2. i \notin Before
  BY <1>1, NewerOrders
<1>3. Before \in SUBSET Rows /\ Before # Rows
  BY <1>2
<1>4. Cardinality(Before) <= Cardinality(Rows) /\ Cardinality(Before) # Cardinality(Rows)
  BY <1>3, RowsFinite, FS_Subset
<1>5. Cardinality(Before) \in Nat /\ Cardinality(Rows) \in Nat
  BY <1>3, RowsFinite
<1> QED
  BY <1>4, <1>5, LimitAssumption

LEMMA FetchKeepsPagingIInv ==
  ASSUME PagingIInv, FetchPage
  PROVE  PagingIInv'
<1> USE DEF PagingIInv
<1>1. UNCHANGED table /\ walk \in {"first", "more"}
  BY DEF FetchPage
<1>2. /\ UNCHANGED <<rows, given, moved, changes>>
      /\ present' = present /\ stamp' = stamp
  BY <1>1 DEF table, present, stamp
<1>3. /\ seen \in [Items -> 0..2]
      /\ seen' = [i \in Items |-> IF i \in Page /\ seen[i] < 2 THEN seen[i] + 1 ELSE seen[i]]
  BY DEF FetchPage, Deliver, PagingTypeOK
<1>4. Page \subseteq Rows /\ Rows \subseteq present /\ present \subseteq Items
  BY RowsFinite DEF Page, Top, PagingTypeOK
<1>5. \A i \in present : stamp[i] \in Texts /\ i \in Nat
  BY ItemsAssumption DEF PagingTypeOK
<1>6. \A i \in Items \ moved : i \in present =>
        seen[i] = IF i \in Rows THEN 0 ELSE 1
  <2>1. walk = "first" => Rows = present
    BY DEF Rows
  <2> QED
    BY <1>1, <2>1 DEF PlaceInv
<1>7. \/ /\ walk' = "more"
         /\ \E i \in Page : Last(Page, i) /\ cursor' = [stamp |-> stamp[i], id |-> i]
      \/ /\ Cardinality(Rows) <= Limit
         /\ walk' = "done"
         /\ UNCHANGED cursor
  BY DEF FetchPage
<1>8. CASE /\ walk' = "more"
           /\ \E i \in Page : Last(Page, i) /\ cursor' = [stamp |-> stamp[i], id |-> i]
  <2>1. PICK last \in Page : Last(Page, last) /\ cursor' = [stamp |-> stamp[last], id |-> last]
    BY <1>8
  <2>2. last \in Items /\ cursor' \in Cursors /\ cursor'.stamp = stamp[last] /\ cursor'.id = last
    BY <1>4, <1>5, <2>1 DEF Cursors
  <2>3. \A i \in Page : i # last => Newer(stamp[i], i, stamp[last], last)
    BY <2>1 DEF Last
  <2>4. \A i \in present : i \in Rows' <=> Newer(stamp[last], last, stamp[i], i)
    BY <1>2, <1>8, <2>2 DEF Rows
  <2>5. \A i \in Rows \ Page : i \in Rows'
    BY <1>4, <2>1, <2>4, PageIsNewest
  <2>6. \A i \in Page : i \notin Rows'
    BY <1>4, <1>5, <2>1, <2>3, <2>4, NewerOrders
  <2>7. \A i \in present \ Rows : i \notin Rows'
    <3> SUFFICES ASSUME NEW i \in present \ Rows, Newer(stamp[last], last, stamp[i], i)
                 PROVE  FALSE
      BY <2>4
    <3>1. /\ walk = "more"
          /\ ~Newer(cursor.stamp, cursor.id, stamp[i], i)
          /\ Newer(cursor.stamp, cursor.id, stamp[last], last)
      BY <1>4 DEF Rows
    <3>2. cursor.stamp \in Texts /\ cursor.id \in Nat
      BY <3>1, ItemsAssumption DEF PagingTypeOK, Cursors
    <3> QED
      BY <1>4, <1>5, <3>1, <3>2, NewerOrders
  <2>8. PlaceInv'
    <3>1. \A i \in Items \ moved : i \notin present => seen[i] = 0
      BY DEF PlaceInv
    <3>2. \A i \in Items \ moved : i \notin present => seen'[i] = 0
      BY <1>3, <1>4, <3>1
    <3>3. \A i \in Items \ moved : i \in present => seen'[i] = IF i \in Rows' THEN 0 ELSE 1
      BY <1>3, <1>4, <1>6, <2>5, <2>6, <2>7
    <3> QED
      BY <1>2, <1>8, <3>2, <3>3 DEF PlaceInv
  <2>9. PagingTypeOK'
    <3>1. cursor' # NoCursor
      BY <2>2, CursorAssumption
    <3>2. seen' \in [Items -> 0..2]
      BY <1>3
    <3>3. \A i \in Items : seen'[i] > 0 => i \in present \cup moved
      BY <1>3, <1>4 DEF PagingTypeOK
    <3> QED
      BY <1>2, <1>8, <2>2, <3>1, <3>2, <3>3 DEF PagingTypeOK, WritesFor
  <2> QED
    BY <1>2, <2>8, <2>9 DEF RowInv, BestIsKept, LastWordCounts
<1>9. CASE Cardinality(Rows) <= Limit /\ walk' = "done" /\ UNCHANGED cursor
  <2>1. Page = Rows
    BY <1>9, LastPageIsAll
  <2>2. PlaceInv'
    <3>1. \A i \in Items \ moved : i \notin present => seen[i] = 0
      BY DEF PlaceInv
    <3>2. \A i \in Items \ moved : i \notin present => seen'[i] = 0
      BY <1>3, <1>4, <3>1
    <3>3. \A i \in Items \ moved : i \in present => seen'[i] = 1
      BY <1>3, <1>4, <1>6, <2>1
    <3> QED
      BY <1>2, <1>9, <3>2, <3>3 DEF PlaceInv
  <2>3. PagingTypeOK'
    <3>1. seen' \in [Items -> 0..2]
      BY <1>3
    <3>2. \A i \in Items : seen'[i] > 0 => i \in present \cup moved
      BY <1>3, <1>4 DEF PagingTypeOK
    <3> QED
      BY <1>2, <1>9, <3>1, <3>2 DEF PagingTypeOK, WritesFor
  <2> QED
    BY <1>2, <2>2, <2>3 DEF RowInv, BestIsKept, LastWordCounts
<1> QED
  BY <1>7, <1>8, <1>9

-----------------------------------------------------------------------------
(* The table *)

\* What the table does to the rows that keep their place: nothing that the query sees.
LEMMA TableKeepsPlaces ==
  ASSUME PagingIInv, UNCHANGED client, moved \subseteq moved',
         \A i \in Items \ moved' : i \in present' <=> i \in present,
         \A i \in present \ moved' : stamp'[i] = stamp[i]
  PROVE  PlaceInv'
<1>1. UNCHANGED <<walk, cursor, seen>>
  BY DEF client
<1>2. present \subseteq Items
  BY DEF PagingIInv, PagingTypeOK
<1>3. \A i \in present \ moved' : i \in Rows' <=> i \in Rows
  BY <1>1, <1>2 DEF Rows
<1>4. \A i \in Items \ moved' :
        /\ i \notin present => seen[i] = 0
        /\ i \in present /\ walk = "first" => seen[i] = 0
        /\ i \in present /\ walk = "more" => seen[i] = IF i \in Rows THEN 0 ELSE 1
        /\ i \in present /\ walk = "done" => seen[i] = 1
        /\ seen[i] <= 1
  BY DEF PagingIInv, PlaceInv
<1> QED
  BY <1>1, <1>3, <1>4 DEF PlaceInv

LEMMA UpsertKeepsPagingIInv ==
  ASSUME PagingIInv, NEW i \in Items, Upsert(i)
  PROVE  PagingIInv'
<1> USE DEF PagingIInv
<1>1. UNCHANGED client /\ changes' \in 0..MaxChanges
  BY ChangesAssumption DEF Upsert, PagingTypeOK
<1>2. PICK w \in WritesFor(i) :
        \/ /\ i \notin present
           /\ rows' = Put(rows, i, w)
           /\ given' = Put(given, i, <<w>>)
           /\ moved' = moved \cup {i}
        \/ /\ i \in present
           /\ rows' = Put(rows, i, Merge(rows[i], w))
           /\ given' = Put(given, i, Append(given[i], w))
           /\ moved' = IF Effective(rows'[i]) = stamp[i] THEN moved ELSE moved \cup {i}
  BY DEF Upsert
<1>3. w \in Writes
  BY DEF WritesFor
<1>4. present' = present \cup {i} /\ DOMAIN given' = present'
  BY <1>2 DEF Put, present, PagingTypeOK
<1>5. \A k \in present \ {i} : rows'[k] = rows[k] /\ given'[k] = given[k]
  BY <1>2 DEF Put, present, PagingTypeOK
<1>6. /\ given'[i] \in Seq(WritesFor(i)) /\ given'[i] # <<>>
      /\ BestOfAll(rows'[i], WritesOf(given'[i])) /\ LastWord(rows'[i], given'[i])
      /\ rows'[i].ingested \in Texts
  <2>1. CASE i \notin present
    <3>1. rows'[i] = w /\ given'[i] = <<w>>
      BY <1>2, <2>1 DEF Put
    <3>2. <<w>> \in Seq(WritesFor(i)) /\ <<w>> # <<>>
      OBVIOUS
    <3> QED
      BY <1>3, <3>1, <3>2, OneWrite, WritesAssumption
  <2>2. CASE i \in present
    <3>1. rows'[i] = Merge(rows[i], w) /\ given'[i] = Append(given[i], w)
      BY <1>2, <2>2 DEF Put
    <3>2. given[i] \in Seq(WritesFor(i)) /\ given[i] # <<>>
      BY <2>2 DEF PagingTypeOK
    <3>3. given[i] \in Seq(Writes)
      BY <3>2 DEF WritesFor
    <3>4. BestOfAll(rows[i], WritesOf(given[i])) /\ LastWord(rows[i], given[i])
      BY <2>2 DEF BestIsKept, LastWordCounts
    <3>5. BestOfAll(rows'[i], WritesOf(given'[i]))
      BY <1>3, <3>1, <3>3, <3>4, OneMoreWrite, MergeKeepsBest
    <3>6. LastWord(rows'[i], given'[i])
      BY <1>3, <3>1, <3>2, <3>3, <3>4, MergeKeepsOrder
    <3>7. rows'[i].ingested = w.ingested
      <4>1. Merge(rows[i], w).ingested = w.ingested
        BY DEF Merge
      <4> QED
        BY <3>1, <4>1
    <3>8. given'[i] \in Seq(WritesFor(i)) /\ given'[i] # <<>>
      BY <3>1, <3>2
    <3> QED
      BY <1>3, <3>5, <3>6, <3>7, <3>8, WritesAssumption
  <2> QED
    BY <2>1, <2>2
<1>7. BestIsKept' /\ LastWordCounts' /\ RowInv'
  BY <1>4, <1>5, <1>6 DEF BestIsKept, LastWordCounts, RowInv
<1>8. /\ moved \subseteq moved' /\ moved' \subseteq moved \cup {i}
      /\ i \notin present => i \in moved'
  BY <1>2
<1>9. \A k \in present' : given'[k] \in Seq(WritesFor(k)) /\ given'[k] # <<>>
  BY <1>4, <1>5, <1>6 DEF PagingTypeOK
<1>10. \A k \in present' : stamp'[k] \in Texts
  <2> SUFFICES ASSUME NEW k \in present' PROVE stamp'[k] \in Texts
    OBVIOUS
  <2>1. stamp'[k] = Effective(rows'[k])
    BY DEF stamp
  <2>2. given'[k] \in Seq(Writes)
    <3>1. WritesFor(k) \subseteq Writes /\ given'[k] \in Seq(WritesFor(k))
      BY <1>9 DEF WritesFor
    <3> QED
      BY <3>1
  <2>3. WritesOf(given'[k]) \in SUBSET Writes
    BY <1>3, <2>2, OneMoreWrite
  <2>4. BestOfAll(rows'[k], WritesOf(given'[k])) /\ rows'[k].ingested \in Texts
    BY <1>7 DEF BestIsKept, RowInv
  <2> QED
    BY <2>1, <2>3, <2>4, EffectiveType
<1>11. PagingTypeOK'
  <2>1. UNCHANGED <<walk, cursor, seen>>
    BY <1>1 DEF client
  <2>2. \A k \in Items : seen'[k] > 0 => k \in present' \cup moved'
    BY <1>4, <1>8, <2>1 DEF PagingTypeOK
  <2>3. present' \subseteq Items /\ moved' \subseteq Items
    BY <1>4, <1>8 DEF PagingTypeOK
  <2>4. \A k \in present' : given'[k] \in Seq(WritesFor(k)') /\ given'[k] # <<>>
    BY <1>9 DEF WritesFor
  <2> QED
    BY <1>1, <1>4, <1>10, <2>1, <2>2, <2>3, <2>4 DEF PagingTypeOK
<1>12. PlaceInv'
  <2>1. \A k \in Items \ moved' : k \in present' <=> k \in present
    BY <1>4, <1>8
  <2>2. \A k \in present \ moved' : stamp'[k] = stamp[k]
    <3> SUFFICES ASSUME NEW k \in present \ moved' PROVE stamp'[k] = stamp[k]
      OBVIOUS
    <3>1. stamp'[k] = Effective(rows'[k]) /\ stamp[k] = Effective(rows[k])
      BY <1>4 DEF stamp
    <3>2. CASE k = i
      BY <1>2, <3>1, <3>2
    <3>3. CASE k # i
      BY <1>5, <3>1, <3>3
    <3> QED
      BY <3>2, <3>3
  <2> QED
    BY <1>1, <1>8, <2>1, <2>2, TableKeepsPlaces
<1> QED
  BY <1>7, <1>11, <1>12

LEMMA CleanupKeepsPagingIInv ==
  ASSUME PagingIInv, Cleanup
  PROVE  PagingIInv'
<1> USE DEF PagingIInv
<1>1. UNCHANGED client /\ changes' \in 0..MaxChanges
  BY ChangesAssumption DEF Cleanup, PagingTypeOK
<1>2. PICK oldest \in News \cap present :
        LET gone == {i \in News \cap present : stamp[i] <= stamp[oldest]} IN
        /\ rows' = Without(rows, gone)
        /\ given' = Without(given, gone)
        /\ moved' = moved \cup gone
  BY DEF Cleanup
<1> DEFINE gone == {i \in News \cap present : stamp[i] <= stamp[oldest]}
<1>3. rows' = Without(rows, gone) /\ given' = Without(given, gone) /\ moved' = moved \cup gone
  BY <1>2
<1>4. gone \subseteq present
  OBVIOUS
<1> HIDE DEF gone
<1>5. present' = present \ gone /\ DOMAIN given' = present'
  BY <1>3 DEF Without, present, PagingTypeOK
<1>6. \A k \in present' : rows'[k] = rows[k] /\ given'[k] = given[k]
  BY <1>3, <1>5 DEF Without, present, PagingTypeOK
<1>7. BestIsKept' /\ LastWordCounts' /\ RowInv'
  BY <1>5, <1>6 DEF BestIsKept, LastWordCounts, RowInv
<1>8. \A k \in present' : stamp'[k] = stamp[k]
  BY <1>5, <1>6 DEF stamp
<1>9. PagingTypeOK'
  <2>1. UNCHANGED <<walk, cursor, seen>>
    BY <1>1 DEF client
  <2>2. \A k \in Items : seen'[k] > 0 => k \in present' \cup moved'
    BY <1>3, <1>5, <2>1 DEF PagingTypeOK
  <2>3. present' \subseteq Items /\ moved' \subseteq Items
    BY <1>3, <1>4, <1>5 DEF PagingTypeOK
  <2>4. \A k \in present' : /\ given'[k] \in Seq(WritesFor(k)') /\ given'[k] # <<>>
                          /\ stamp'[k] \in Texts
    BY <1>5, <1>6, <1>8 DEF PagingTypeOK, WritesFor
  <2> QED
    BY <1>1, <1>5, <2>1, <2>2, <2>3, <2>4 DEF PagingTypeOK
<1>10. PlaceInv'
  <2>1. \A k \in Items \ moved' : k \in present' <=> k \in present
    BY <1>3, <1>5
  <2>2. \A k \in present \ moved' : stamp'[k] = stamp[k]
    BY <1>3, <1>5, <1>8
  <2> QED
    BY <1>1, <1>3, <2>1, <2>2, TableKeepsPlaces
<1> QED
  BY <1>7, <1>9, <1>10

LEMMA NextKeepsPagingIInv == PagingIInv /\ [PagingNext]_pagingVars => PagingIInv'
<1> SUFFICES ASSUME PagingIInv, [PagingNext]_pagingVars PROVE PagingIInv'
  OBVIOUS
<1>1. CASE FetchPage
  BY <1>1, FetchKeepsPagingIInv
<1>2. CASE RefuseCursor
  <2>1. UNCHANGED <<rows, given, moved, changes, cursor, seen>> /\ walk' = "refused"
    BY <1>2 DEF RefuseCursor, table
  <2>2. present' = present /\ stamp' = stamp
    BY <2>1 DEF present, stamp
  <2> QED
    BY <2>1, <2>2
    DEF PagingIInv, PagingTypeOK, WritesFor, RowInv, BestIsKept, LastWordCounts, PlaceInv
<1>3. CASE \E i \in Items : Upsert(i)
  BY <1>3, UpsertKeepsPagingIInv
<1>4. CASE Cleanup
  BY <1>4, CleanupKeepsPagingIInv
<1>5. CASE UNCHANGED pagingVars
  <2>1. UNCHANGED <<rows, given, moved, changes, walk, cursor, seen>>
    BY <1>5 DEF pagingVars, client, table
  <2>2. present' = present /\ stamp' = stamp /\ Rows' = Rows
    BY <2>1 DEF present, stamp, Rows
  <2> QED
    BY <2>1, <2>2
    DEF PagingIInv, PagingTypeOK, WritesFor, RowInv, BestIsKept, LastWordCounts, PlaceInv
<1> QED
  BY <1>1, <1>2, <1>3, <1>4, <1>5 DEF PagingNext

LEMMA PagingInvariance == PagingSpec => []PagingIInv
  BY PagingInitially, NextKeepsPagingIInv, PTL DEF PagingSpec

-----------------------------------------------------------------------------
(* Theorems *)

\* Every row can be ordered and every cursor decoded back to a place in the order,
\* and only a row that is or was in the table is delivered.
THEOREM PagingTypeCorrect == PagingSpec => []PagingTypeOK
<1>1. PagingIInv => PagingTypeOK
  BY DEF PagingIInv
<1> QED
  BY <1>1, PagingInvariance, PTL

\* A row that keeps its place during a walk over the pages is delivered once: it is
\* never repeated, and never left out of a walk that has come to its end.
THEOREM DeliveredOnce == PagingSpec => []SteadyOnce
<1>1. PagingIInv => SteadyOnce
  BY DEF PagingIInv, PlaceInv, SteadyOnce
<1> QED
  BY <1>1, PagingInvariance, PTL

\* No severity, score, claim or date that a source has given is lost in a merge: these
\* columns are functions of the set of the writes of a row (SameWritesSameColumns).
THEOREM BestSurvives == PagingSpec => []BestIsKept
<1>1. PagingIInv => BestIsKept
  BY DEF PagingIInv
<1> QED
  BY <1>1, PagingInvariance, PTL

\* Every other column of a row is that of the last of the writes that it belongs to:
\* the order of the commits decides between equally trusted sources, and for the
\* categories and the time of the run between all.
THEOREM LastWordStands == PagingSpec => []LastWordCounts
<1>1. PagingIInv => LastWordCounts
  BY DEF PagingIInv
<1> QED
  BY <1>1, PagingInvariance, PTL
=============================================================================
