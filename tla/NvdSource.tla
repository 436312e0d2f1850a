----------------------------- MODULE NvdSource -----------------------------
(***************************************************************************)
(* src/ingest/nvd.rs over apply_batch of src/db.rs: the incremental,       *)
(* paged synchronisation with the NVD API.  A run asks for the records     *)
(* whose lastModified lies between the cursor, less an overlap, and the    *)
(* time it started, reads them page by page at an offset, and commits the  *)
(* records with the new cursor in one transaction.                         *)
(*                                                                         *)
(* The API is external: a modification appears in its index after a lag,   *)
(* and a page is computed from the index as it is when it is asked for.    *)
(* A record is its rank in the API's order; a version of a record is the   *)
(* time of its modification, 0 for none.                                   *)
(***************************************************************************)
EXTENDS Integers, FiniteSets

CONSTANTS
    Records,
    PageSize,                 \* config.nvd_results_per_page
    PageLimit,                \* 500 in the code
    Overlap,                  \* config.nvd_overlap_minutes
    InitialWindow,            \* config.nvd_initial_window_days
    ResetWindow,              \* one day: the window when the cursor is in the future
    MaxWindow,                \* 119 days
    Lag,                      \* how long the API's index may be behind
    Start, MaxTime, MaxChanges, MaxFailures     \* bounds

ASSUME RecordsAssumption == Records \subseteq Nat /\ IsFiniteSet(Records)
ASSUME PagesAssumption == PageSize \in Nat \ {0} /\ PageLimit \in Nat \ {0}
ASSUME WindowAssumption ==
    /\ Overlap \in Nat /\ MaxWindow \in Nat
    /\ InitialWindow \in 0..MaxWindow /\ ResetWindow \in 0..MaxWindow
ASSUME ApiAssumption == Lag \in Nat
ASSUME LimitsAssumption ==
    Start \in Nat \ {0} /\ MaxTime \in Nat /\ MaxChanges \in Nat /\ MaxFailures \in Nat

VARIABLES
    now,
    changed, shown,           \* the API: each record's version, and the one in the index
    stored, cursor,           \* the database: items and sync_state; 0 is no cursor
    at,                       \* the run: idle, paging, commit
    from, to,                 \* lastModStartDate and lastModEndDate
    index, pages, batch,      \* startIndex, pages asked for, versions collected
    horizon,                  \* history: how far back the committed windows connect,
    skipped, hidden,          \* the records that slid over startIndex in this run, and
                              \* those that a committed run has passed over for it
    changes, failures

api == <<changed, shown, changes>>
disk == <<stored, cursor, horizon, hidden>>
run == <<at, from, to, index, pages, batch, skipped>>
vars == <<now, api, disk, run, failures>>

NoRecords == [r \in Records |-> 0]

Idle ==
    /\ at = "idle"
    /\ from = 0 /\ to = 0 /\ index = 0 /\ pages = 0 /\ batch = NoRecords
    /\ skipped = {}

Init ==
    /\ now = Start
    /\ changed \in [Records -> {0, Start}] /\ shown = changed
    /\ stored = NoRecords /\ cursor = 0
    /\ Idle
    /\ horizon = 0 /\ hidden = {}
    /\ changes = 0 /\ failures = 0

-----------------------------------------------------------------------------
(* A run *)

\* Variant: continues just after the cursor.
WindowStartExact ==
    LET wanted == IF cursor = 0 THEN now - InitialWindow ELSE cursor + 1
        begun  == IF wanted > now THEN now - ResetWindow ELSE wanted
    IN  IF now - begun > MaxWindow THEN now - MaxWindow ELSE begun

WindowStart ==
    LET wanted == IF cursor = 0 THEN now - InitialWindow ELSE cursor - Overlap
        begun  == IF wanted > now THEN now - ResetWindow ELSE wanted
    IN  IF now - begun > MaxWindow THEN now - MaxWindow ELSE begun

Begin ==
    /\ at = "idle"
    /\ at' = "paging"
    /\ from' = WindowStart
    /\ to' = now
    /\ UNCHANGED <<now, api, disk, index, pages, batch, skipped, failures>>

Results == {r \in Records : shown[r] # 0 /\ from <= shown[r] /\ shown[r] <= to}

Rank(r) == Cardinality({q \in Results : q < r})

\* The page at startIndex: the results with that many predecessors or more.
Page == {r \in Results : index <= Rank(r) /\ Rank(r) < index + PageSize}

\* One round of the loop; an empty page or the total of this page ends it.
FetchPage ==
    /\ at = "paging"
    /\ pages < PageLimit
    /\ pages' = pages + 1
    /\ batch' = [r \in Records |-> IF r \in Page THEN shown[r] ELSE batch[r]]
    /\ index' = index + Cardinality(Page)
    /\ at' = IF Page = {} \/ index' >= Cardinality(Results) THEN "commit" ELSE "paging"
    /\ UNCHANGED <<now, api, disk, from, to, skipped, failures>>

Stop ==
    /\ at' = "idle"
    /\ from' = 0 /\ to' = 0 /\ index' = 0 /\ pages' = 0 /\ batch' = NoRecords
    /\ skipped' = {}

\* Variant: commits what the pages so far have brought.
PageLimitCommits ==
    /\ at = "paging"
    /\ pages = PageLimit
    /\ at' = "commit"
    /\ UNCHANGED <<now, api, disk, from, to, index, pages, batch, skipped, failures>>

\* The next page is one too many.
PageLimitReached ==
    /\ at = "paging"
    /\ pages = PageLimit
    /\ Stop
    /\ UNCHANGED <<now, api, disk, failures>>

\* A request fails for good, the adapter's deadline passes, the transaction is
\* rolled back or the process dies: nothing of the run is left.
Fail ==
    /\ at # "idle"
    /\ failures < MaxFailures
    /\ failures' = failures + 1
    /\ Stop
    /\ UNCHANGED <<now, api, disk>>

\* History: what slid over startIndex and came with no page of this run, until
\* some run brings it.
PassedOver ==
    {r \in hidden : batch[r] = 0} \union {r \in skipped : batch[r] < shown[r]}

\* Variant: the cursor is the time of the commit.
CommitNow ==
    /\ at = "commit"
    /\ stored' = [r \in Records |-> IF batch[r] # 0 THEN batch[r] ELSE stored[r]]
    /\ cursor' = now
    /\ horizon' = IF cursor = 0 \/ from > cursor - Overlap THEN from ELSE horizon
    /\ hidden' = PassedOver
    /\ Stop
    /\ UNCHANGED <<now, api, failures>>

\* apply_batch: the records and the cursor, together.
Commit ==
    /\ at = "commit"
    /\ stored' = [r \in Records |-> IF batch[r] # 0 THEN batch[r] ELSE stored[r]]
    /\ cursor' = to
    /\ horizon' = IF cursor = 0 \/ from > cursor - Overlap THEN from ELSE horizon
    /\ hidden' = PassedOver
    /\ Stop
    /\ UNCHANGED <<now, api, failures>>

-----------------------------------------------------------------------------
(* The API and the clock *)

Modify(r) ==
    /\ changes < MaxChanges
    /\ changed[r] # now
    /\ changed' = [changed EXCEPT ![r] = now]
    /\ changes' = changes + 1
    /\ UNCHANGED <<now, shown, disk, run, failures>>

\* The new version is after the window, so the record leaves the results: if a
\* page had it, those behind it move up, and the next one is on no page.
Slides(r) == at = "paging" /\ r \in Results /\ Rank(r) < index /\ changed[r] > to

Publish(r) ==
    /\ shown[r] # changed[r]
    /\ shown' = [shown EXCEPT ![r] = changed[r]]
    /\ skipped' = IF Slides(r) THEN skipped \union {q \in Results : Rank(q) = index} ELSE skipped
    /\ UNCHANGED <<now, changed, changes, disk, at, from, to, index, pages, batch, failures>>

Tick ==
    /\ now < MaxTime
    /\ \A r \in Records : shown[r] # changed[r] => now < changed[r] + Lag
    /\ now' = now + 1
    /\ UNCHANGED <<api, disk, run, failures>>

Run == Begin \/ FetchPage \/ PageLimitReached \/ Commit

Next ==
    \/ Run
    \/ Fail
    \/ \E r \in Records : Modify(r) \/ Publish(r)
    \/ Tick

\* The scheduler starts runs for ever and a run's steps have deadlines; the
\* index catches up.
Fairness == WF_vars(Run) /\ \A r \in Records : SF_vars(Publish(r))

Spec == Init /\ [][Next]_vars

FairSpec == Spec /\ Fairness

-----------------------------------------------------------------------------
(* Properties *)

\* Every variable in its range; startIndex never passes what was delivered, and
\* the cursor is never ahead of the clock.
TypeOK ==
    /\ now \in Nat
    /\ changed \in [Records -> 0..now] /\ shown \in [Records -> 0..now]
    /\ stored \in [Records -> 0..now] /\ cursor \in 0..now
    /\ at \in {"idle", "paging", "commit"}
    /\ from \in Int /\ to \in 0..now
    /\ index \in 0..Cardinality(Records) /\ pages \in 0..PageLimit
    /\ batch \in [Records -> 0..now]
    /\ horizon \in Int /\ skipped \subseteq Records /\ hidden \subseteq Records
    /\ changes \in Nat /\ failures \in Nat

\* The cursor never passes a record: what was modified within the windows that
\* connect back from the cursor, and longer before it than the overlap, is in
\* the database in that version or a later one, whatever failed or crashed in
\* between.  The offset costs one record for each one that is modified again,
\* and so leaves the window, between two pages, and no other.
NoGap ==
    \A r \in Records \ hidden :
        shown[r] # 0 /\ horizon <= shown[r] /\ shown[r] + Overlap < cursor
            => stored[r] >= shown[r]

\* Only an outage that is longer than the API's widest window breaks the
\* connection: then, and on the first run, the horizon moves.
HorizonMovesOnlyAfterOutage ==
    [][horizon' # horizon => cursor = 0 \/ cursor' - (cursor - Overlap) > MaxWindow]_vars

\* The window holds more records than a run may ask for.
Overfull == at = "paging" /\ Cardinality(Results) > PageLimit * PageSize

\* A record that is behind the API catches up with it, unless an outage has put
\* its last modification behind the horizon, so much has changed at once that
\* every run over it fails, or a run has passed over it.
EveryChangeArrives ==
    \A r \in Records :
        stored[r] # changed[r] ~>
            stored[r] = changed[r] \/ changed[r] < horizon \/ Overfull \/ r \in hidden
=============================================================================
