----------------------------- MODULE SourceRuns -----------------------------
(***************************************************************************)
(* src/ingest/mod.rs: run_sources and run_one_source, with the Repository  *)
(* operations they call.  One refresh job runs every registered source as  *)
(* a task of its own behind a semaphore: read the backoff, run the adapter *)
(* under its deadline, commit the batch, clear or mark the failure, record *)
(* the run, report.  Each await is a step; every database call may fail    *)
(* (busy, full, unavailable), the adapter may fail or panic, and the       *)
(* process may die between any two steps.                                  *)
(*                                                                         *)
(* Jobs do not overlap: RefreshCoordinator shows that.  Time is counted in *)
(* backoff units.                                                          *)
(***************************************************************************)
EXTENDS Integers, FiniteSets

CONSTANTS
    Sources,          \* the registry
    Concurrency,      \* config.source_concurrency
    Base, Maximum,    \* config.source_failure_backoff, ..._max
    CountCap,         \* the failure count saturates here (31 in the code)
    MaxTime, MaxJobs, MaxCrashes     \* bounds

ASSUME SemaphoreAssumption == Concurrency \in Nat \ {0}            \* config.rs: clamp(1, 64)
ASSUME BackoffAssumption == Base \in Nat /\ Maximum \in Nat /\ Base <= Maximum
ASSUME CapAssumption == CountCap \in Nat \ {0}
\* Arithmetic, named because the provers know nothing of powers.
ASSUME DoublingAssumption ==
    \A a, b \in 1..CountCap : a <= b => Base * 2^(a - 1) <= Base * 2^(b - 1)
ASSUME LimitsAssumption == MaxTime \in Nat /\ MaxJobs \in Nat /\ MaxCrashes \in Nat

VARIABLES
    now,
    failures, until,  \* sync_state: source:<id>:failure_count and :backoff_until; 0 is no row
    rows,             \* ingestion_runs: the row of this job's run of the source
    open,             \* a job is being executed
    dead,             \* the worker task has unwound
    at, out,          \* per source task: the await point, and the status it will report
                      \* ("failed" where the task has none)
    report,           \* RefreshReport: how each source has been counted
    last,             \* history: how the source's last decided run ended
    failedAt, streak, \* history: last marked failure, failures marked since the last commit
    jobs, crashes

db == <<failures, until, rows>>
task == <<at, out>>
history == <<last, failedAt, streak>>
vars == <<now, db, open, dead, task, report, history, jobs, crashes>>

Points == {"idle", "wait", "check", "noteSkip", "fetch", "apply", "clear", "noteEnd", "mark", "noteFail", "back"}
Outcomes == {"success", "skipped", "failed"}

Smaller(a, b) == IF a <= b THEN a ELSE b

\* mark_source_failure: base * 2^(count - 1), never more than the maximum.
Backoff(count) == Smaller(Base * 2^(count - 1), Maximum)

Init ==
    /\ now = 1
    /\ failures = [s \in Sources |-> 0]
    /\ until = [s \in Sources |-> 0]
    /\ rows = [s \in Sources |-> "none"]
    /\ open = FALSE /\ dead = FALSE
    /\ at = [s \in Sources |-> "idle"]
    /\ out = [s \in Sources |-> "failed"]
    /\ report = [s \in Sources |-> "none"]
    /\ last = [s \in Sources |-> "none"]
    /\ failedAt = [s \in Sources |-> 0]
    /\ streak = [s \in Sources |-> 0]
    /\ jobs = 0 /\ crashes = 0

Go(s, p) == at' = [at EXCEPT ![s] = p]

\* The task of s returns a status to be counted.
Yield(s, status) == Go(s, "back") /\ out' = [out EXCEPT ![s] = status]

-----------------------------------------------------------------------------
(* run_sources *)

StartJob ==
    /\ ~open /\ ~dead
    /\ jobs < MaxJobs
    /\ jobs' = jobs + 1
    /\ open' = TRUE
    /\ at' = [s \in Sources |-> "wait"]
    /\ report' = [s \in Sources |-> "none"]
    /\ rows' = [s \in Sources |-> "none"]
    /\ UNCHANGED <<now, failures, until, dead, out, history, crashes>>

\* Variant: a permit is never given back.
HoldersForEver == {s \in Sources : at[s] # "wait"}

Holders == {s \in Sources : at[s] \notin {"idle", "wait", "back"}}

Acquire(s) ==
    /\ at[s] = "wait"
    /\ Cardinality(Holders) < Concurrency
    /\ Go(s, "check")
    /\ UNCHANGED <<now, db, open, dead, out, report, history, jobs, crashes>>

\* Variant: a task that ended with an error is not counted.
CollectOutcomesOnly(s) ==
    /\ at[s] = "back"
    /\ Go(s, "idle")
    /\ out' = [out EXCEPT ![s] = "failed"]
    /\ report' = [report EXCEPT ![s] = IF rows[s] = "none" THEN @ ELSE out[s]]
    /\ UNCHANGED <<now, db, open, dead, history, jobs, crashes>>

\* One result of the FuturesUnordered; an Err counts as failed.
Collect(s) ==
    /\ at[s] = "back"
    /\ Go(s, "idle")
    /\ out' = [out EXCEPT ![s] = "failed"]
    /\ report' = [report EXCEPT ![s] = out[s]]
    /\ UNCHANGED <<now, db, open, dead, history, jobs, crashes>>

\* tasks.next() has returned None.
EndJob ==
    /\ open
    /\ \A s \in Sources : at[s] = "idle"
    /\ open' = FALSE
    /\ UNCHANGED <<now, db, dead, task, report, history, jobs, crashes>>

-----------------------------------------------------------------------------
(* run_one_source *)

\* Any `?` of the task: the run ends as an error without a row.
DatabaseError(s) ==
    /\ at[s] \in {"check", "noteSkip", "clear", "noteEnd", "mark", "noteFail"}
    /\ Yield(s, "failed")
    /\ UNCHANGED <<now, db, open, dead, report, history, jobs, crashes>>

CheckBackoff(s) ==
    /\ at[s] = "check"
    /\ Go(s, IF until[s] > now THEN "noteSkip" ELSE "fetch")
    /\ UNCHANGED <<now, db, open, dead, out, report, history, jobs, crashes>>

RecordSkip(s) ==
    /\ at[s] = "noteSkip"
    /\ rows' = [rows EXCEPT ![s] = "skipped"]
    /\ Yield(s, "skipped")
    /\ UNCHANGED <<now, failures, until, open, dead, report, history, jobs, crashes>>

\* The adapter answers within its deadline with an output that validates, new
\* or unchanged ("skipped"); or it fails, panics, is too late or is rejected.
RunAdapter(s) ==
    /\ at[s] = "fetch"
    /\ \/ /\ \E status \in {"success", "skipped"} : out' = [out EXCEPT ![s] = status]
          /\ Go(s, "apply")
       \/ /\ Go(s, "mark")
          /\ UNCHANGED out
    /\ UNCHANGED <<now, db, open, dead, report, history, jobs, crashes>>

\* apply_batch: one transaction, committed or not at all.
ApplyBatch(s) ==
    /\ at[s] = "apply"
    /\ \/ /\ Go(s, "clear")
          /\ last' = [last EXCEPT ![s] = "committed"]
          /\ streak' = [streak EXCEPT ![s] = 0]
       \/ /\ Go(s, "mark")
          /\ UNCHANGED <<last, streak>>
    /\ UNCHANGED <<now, db, open, dead, out, report, failedAt, jobs, crashes>>

ClearFailure(s) ==
    /\ at[s] = "clear"
    /\ failures' = [failures EXCEPT ![s] = 0]
    /\ until' = [until EXCEPT ![s] = 0]
    /\ Go(s, "noteEnd")
    /\ UNCHANGED <<now, rows, open, dead, out, report, history, jobs, crashes>>

RecordEnd(s) ==
    /\ at[s] = "noteEnd"
    /\ rows' = [rows EXCEPT ![s] = out[s]]
    /\ Yield(s, out[s])
    /\ UNCHANGED <<now, failures, until, open, dead, report, history, jobs, crashes>>

\* Variant: a failure restarts the count.
MarkFirstFailure(s) ==
    /\ at[s] = "mark"
    /\ failures' = [failures EXCEPT ![s] = 1]
    /\ until' = [until EXCEPT ![s] = now + Backoff(failures'[s])]
    /\ last' = [last EXCEPT ![s] = "failed"]
    /\ failedAt' = [failedAt EXCEPT ![s] = now]
    /\ streak' = [streak EXCEPT ![s] = @ + 1]
    /\ Go(s, "noteFail")
    /\ UNCHANGED <<now, rows, open, dead, out, report, jobs, crashes>>

\* Variant: the count is not limited.
MarkFailureUncapped(s) ==
    /\ at[s] = "mark"
    /\ failures' = [failures EXCEPT ![s] = @ + 1]
    /\ until' = [until EXCEPT ![s] = now + Backoff(failures'[s])]
    /\ last' = [last EXCEPT ![s] = "failed"]
    /\ failedAt' = [failedAt EXCEPT ![s] = now]
    /\ streak' = [streak EXCEPT ![s] = @ + 1]
    /\ Go(s, "noteFail")
    /\ UNCHANGED <<now, rows, open, dead, out, report, jobs, crashes>>

\* Variant: the rows are not kept per source.
MarkEverySource(s) ==
    /\ at[s] = "mark"
    /\ failures' = [r \in Sources |-> Smaller(failures[r] + 1, CountCap)]
    /\ until' = [r \in Sources |-> now + Backoff(failures'[s])]
    /\ last' = [last EXCEPT ![s] = "failed"]
    /\ failedAt' = [failedAt EXCEPT ![s] = now]
    /\ streak' = [streak EXCEPT ![s] = @ + 1]
    /\ Go(s, "noteFail")
    /\ UNCHANGED <<now, rows, open, dead, out, report, jobs, crashes>>

\* Nobody else writes these two rows while the source's task runs, so that
\* reading the count and writing it back is one step.
MarkFailure(s) ==
    /\ at[s] = "mark"
    /\ failures' = [failures EXCEPT ![s] = Smaller(@ + 1, CountCap)]
    /\ until' = [until EXCEPT ![s] = now + Backoff(failures'[s])]
    /\ last' = [last EXCEPT ![s] = "failed"]
    /\ failedAt' = [failedAt EXCEPT ![s] = now]
    /\ streak' = [streak EXCEPT ![s] = @ + 1]
    /\ Go(s, "noteFail")
    /\ UNCHANGED <<now, rows, open, dead, out, report, jobs, crashes>>

RecordFailure(s) ==
    /\ at[s] = "noteFail"
    /\ rows' = [rows EXCEPT ![s] = "failed"]
    /\ Yield(s, "failed")
    /\ UNCHANGED <<now, failures, until, open, dead, report, history, jobs, crashes>>

\* truncate_error panics when byte 2000 of the message is inside a character.
\* The panic is outside the adapter's catch_unwind: it unwinds the task that
\* polls every source, which is the refresh worker.
TruncatePanic(s) ==
    /\ at[s] = "noteFail"
    /\ dead' = TRUE
    /\ open' = FALSE
    /\ at' = [r \in Sources |-> "idle"] /\ out' = [r \in Sources |-> "failed"]
    /\ UNCHANGED <<now, db, report, history, jobs, crashes>>

-----------------------------------------------------------------------------
Tick ==
    /\ now < MaxTime
    /\ now' = now + 1
    /\ UNCHANGED <<db, open, dead, task, report, history, jobs, crashes>>

\* The process is replaced; what is committed stays.
Crash ==
    /\ crashes < MaxCrashes
    /\ crashes' = crashes + 1
    /\ open' = FALSE /\ dead' = FALSE
    /\ at' = [s \in Sources |-> "idle"] /\ out' = [s \in Sources |-> "failed"]
    /\ report' = [s \in Sources |-> "none"]
    /\ UNCHANGED <<now, db, history, jobs>>

Task(s) ==
    \/ Acquire(s) \/ CheckBackoff(s) \/ RecordSkip(s) \/ RunAdapter(s) \/ ApplyBatch(s)
    \/ ClearFailure(s) \/ RecordEnd(s) \/ MarkFailure(s) \/ RecordFailure(s)
    \/ DatabaseError(s) \/ TruncatePanic(s) \/ Collect(s)

Next ==
    \/ StartJob
    \/ \E s \in Sources : Task(s)
    \/ EndJob
    \/ Tick
    \/ Crash

\* The worker polls its tasks; the adapter ends by its deadline and database
\* calls by the busy timeout; the semaphore is first come, first served.
Fairness == WF_vars(EndJob) /\ \A s \in Sources : WF_vars(Task(s))

Spec == Init /\ [][Next]_vars

FairSpec == Spec /\ Fairness

-----------------------------------------------------------------------------
(* Properties *)

\* Every variable in its range; the failure count saturates.
TypeOK ==
    /\ now \in Nat /\ jobs \in Nat /\ crashes \in Nat
    /\ failures \in [Sources -> 0..CountCap]
    /\ until \in [Sources -> Int]
    /\ rows \in [Sources -> Outcomes \cup {"none"}]
    /\ open \in BOOLEAN /\ dead \in BOOLEAN
    /\ at \in [Sources -> Points]
    /\ out \in [Sources -> Outcomes]
    /\ report \in [Sources -> Outcomes \cup {"none"}]
    /\ last \in [Sources -> {"none", "committed", "failed"}]
    /\ failedAt \in [Sources -> Nat]
    /\ streak \in [Sources -> Nat]

Collected(s) == open /\ at[s] = "idle"

\* The report and the run history never contradict each other: a source that is
\* counted as succeeded or skipped has the row that says so, and a source without
\* a row of the same status is counted as failed; none is left out.
ReportMatchesHistory ==
    \A s \in Sources : Collected(s) =>
        /\ report[s] # "none"
        /\ report[s] \in {"success", "skipped"} => rows[s] = report[s]
        /\ report[s] = "failed" => rows[s] \in {"failed", "none"}

\* A source is skipped for its backoff only when its last decided run failed,
\* even when the process died between the commit of a batch and the deletion of
\* the failure rows.
SkipOnlyAfterFailure == \A s \in Sources : at[s] = "noteSkip" => last[s] = "failed"

\* An adapter is not run again before the exponential backoff of the failures
\* marked since its last commit is over, whatever jobs and crashes come between.
NoEarlyRetry ==
    [][\A s \in Sources :
         at[s] = "check" /\ at'[s] = "fetch" /\ last[s] = "failed" =>
            now >= failedAt[s] + Backoff(Smaller(streak[s], CountCap))]_vars

\* However its sources fail, a job ends.
JobEnds == open ~> ~open

\* A failing source becomes an entry of the report and leaves the refresh alone.
RefreshSurvives == ~dead
=============================================================================
