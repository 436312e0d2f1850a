-------------------------- MODULE SourceRunsProofs --------------------------
(***************************************************************************)
(* Proofs about the runs of sources.                                       *)
(*                                                                         *)
(* SourceRuns, for every registry, permit count, backoff and bound: the    *)
(* safety invariants and the retry discipline, from one inductive          *)
(* invariant.                                                              *)
(*                                                                         *)
(* FeedSource, the adapter of a feed, for every set of entries, every      *)
(* assignment of item ids to them, every window, cap and number of         *)
(* documents: the saved ETag names the saved content, and that content is  *)
(* in the database.                                                        *)
(***************************************************************************)
EXTENDS SourceRuns, FeedSource, SequenceTheorems, TLAPS

\* A task that has not ended has written no row of this job.
RowInv == \A s \in Sources : at[s] \notin {"idle", "back"} => rows[s] = "none"

\* A task that has ended reports what its row says.
BackInv ==
    \A s \in Sources : at[s] = "back" =>
        /\ out[s] \in {"success", "skipped"} => rows[s] = out[s]
        /\ out[s] = "failed" => rows[s] \in {"failed", "none"}

\* A backoff still runs only while the last decided run is a failure.
ElapsedInv ==
    \A s \in Sources : at[s] \in {"fetch", "apply"} \/ last[s] # "failed" => until[s] <= now

\* The failure rows are deleted only after a commit.
ClearInv == \A s \in Sources : at[s] = "clear" => last[s] = "committed"

\* The persisted count is never below the failures since the last commit: a
\* deletion that did not happen leaves it higher.
CountInv ==
    \A s \in Sources :
        /\ failures[s] >= Smaller(streak[s], CountCap)
        /\ streak[s] = 0 <=> last[s] # "failed"

\* The persisted deadline is that of the last failure.
DeadlineInv ==
    \A s \in Sources : last[s] = "failed" => until[s] = failedAt[s] + Backoff(failures[s])

IInv ==
    /\ TypeOK /\ ReportMatchesHistory /\ SkipOnlyAfterFailure
    /\ RowInv /\ BackInv /\ ElapsedInv /\ ClearInv /\ CountInv /\ DeadlineInv

-----------------------------------------------------------------------------
LEMMA BackoffType == \A n \in 1..CountCap : Backoff(n) \in Int
<1>1. \A n \in 1..CountCap : 2^(n - 1) \in Int
  BY CapAssumption
<1> QED
  BY <1>1, BackoffAssumption, CapAssumption DEF Backoff, Smaller

LEMMA BackoffGrows ==
  \A a, b \in 1..CountCap : a <= b => Backoff(a) <= Backoff(b)
<1>1. \A n \in 1..CountCap : Base * 2^(n - 1) \in Int
  BY CapAssumption, BackoffAssumption
<1> QED
  BY <1>1, BackoffAssumption, CapAssumption, DoublingAssumption DEF Backoff, Smaller

LEMMA InitIInv == Init => IInv
<1> SUFFICES ASSUME Init PROVE IInv
  OBVIOUS
<1>1. now \in Nat /\ jobs \in Nat /\ crashes \in Nat
  BY DEF Init
<1>2. open \in BOOLEAN /\ dead \in BOOLEAN
  BY DEF Init
<1>3. failures \in [Sources -> 0..CountCap] /\ until \in [Sources -> Int]
  BY CapAssumption DEF Init
<1>4. failedAt \in [Sources -> Nat] /\ streak \in [Sources -> Nat]
  BY DEF Init
<1>5. at \in [Sources -> Points] /\ out \in [Sources -> Outcomes]
  BY DEF Init, Points, Outcomes
<1>6. /\ rows \in [Sources -> Outcomes \cup {"none"}]
      /\ report \in [Sources -> Outcomes \cup {"none"}]
      /\ last \in [Sources -> {"none", "committed", "failed"}]
  BY DEF Init, Outcomes
<1>7. TypeOK
  BY <1>1, <1>2, <1>3, <1>4, <1>5, <1>6 DEF TypeOK
<1> QED
  BY <1>7, CapAssumption
     DEF Init, IInv, ReportMatchesHistory, SkipOnlyAfterFailure, Collected, RowInv,
         BackInv, ElapsedInv, ClearInv, CountInv, DeadlineInv, Smaller

LEMMA StartJobStep == ASSUME IInv, StartJob PROVE IInv'
<1>1. TypeOK'
  BY CapAssumption, BackoffType DEF IInv, TypeOK, StartJob, history, Points, Outcomes
<1>2. ReportMatchesHistory'
  BY <1>1
     DEF IInv, TypeOK, ReportMatchesHistory, Collected, BackInv, StartJob, history, Points,
         Outcomes
<1>3. SkipOnlyAfterFailure'
  BY <1>1
     DEF IInv, TypeOK, SkipOnlyAfterFailure, ElapsedInv, StartJob, history, Points,
         Outcomes
<1>4. RowInv'
  BY <1>1
     DEF IInv, TypeOK, RowInv, ReportMatchesHistory, StartJob, history, Points, Outcomes
<1>5. BackInv'
  BY <1>1 DEF IInv, TypeOK, BackInv, RowInv, StartJob, history, Points, Outcomes
<1>6. ElapsedInv'
  BY <1>1 DEF IInv, TypeOK, ElapsedInv, StartJob, history, Points, Outcomes
<1>7. ClearInv'
  BY <1>1 DEF IInv, TypeOK, ClearInv, StartJob, history, Points, Outcomes
<1>8. CountInv'
  BY <1>1, CapAssumption
     DEF IInv, TypeOK, CountInv, ClearInv, Smaller, StartJob, history, Points, Outcomes
<1>9. DeadlineInv'
  BY <1>1 DEF IInv, TypeOK, DeadlineInv, ClearInv, StartJob, history, Points, Outcomes
<1> QED
  BY <1>1, <1>2, <1>3, <1>4, <1>5, <1>6, <1>7, <1>8, <1>9 DEF IInv

LEMMA AcquireStep == ASSUME IInv, NEW s \in Sources, Acquire(s) PROVE IInv'
<1>1. TypeOK'
  BY CapAssumption, BackoffType DEF IInv, TypeOK, Acquire, db, history, Go, Points, Outcomes
<1>2. ReportMatchesHistory'
  BY <1>1
     DEF IInv, TypeOK, ReportMatchesHistory, Collected, BackInv, Acquire, db, history, Go,
         Points, Outcomes
<1>3. SkipOnlyAfterFailure'
  BY <1>1
     DEF IInv, TypeOK, SkipOnlyAfterFailure, ElapsedInv, Acquire, db, history, Go, Points,
         Outcomes
<1>4. RowInv'
  BY <1>1
     DEF IInv, TypeOK, RowInv, ReportMatchesHistory, Acquire, db, history, Go, Points,
         Outcomes
<1>5. BackInv'
  BY <1>1 DEF IInv, TypeOK, BackInv, RowInv, Acquire, db, history, Go, Points, Outcomes
<1>6. ElapsedInv'
  BY <1>1 DEF IInv, TypeOK, ElapsedInv, Acquire, db, history, Go, Points, Outcomes
<1>7. ClearInv'
  BY <1>1 DEF IInv, TypeOK, ClearInv, Acquire, db, history, Go, Points, Outcomes
<1>8. CountInv'
  BY <1>1, CapAssumption
     DEF IInv, TypeOK, CountInv, ClearInv, Smaller, Acquire, db, history, Go, Points,
         Outcomes
<1>9. DeadlineInv'
  BY <1>1
     DEF IInv, TypeOK, DeadlineInv, ClearInv, Acquire, db, history, Go, Points, Outcomes
<1> QED
  BY <1>1, <1>2, <1>3, <1>4, <1>5, <1>6, <1>7, <1>8, <1>9 DEF IInv

LEMMA CollectStep == ASSUME IInv, NEW s \in Sources, Collect(s) PROVE IInv'
<1>1. TypeOK'
  BY CapAssumption, BackoffType DEF IInv, TypeOK, Collect, db, history, Go, Points, Outcomes
<1>2. ReportMatchesHistory'
  BY <1>1
     DEF IInv, TypeOK, ReportMatchesHistory, Collected, BackInv, Collect, db, history, Go,
         Points, Outcomes
<1>3. SkipOnlyAfterFailure'
  BY <1>1
     DEF IInv, TypeOK, SkipOnlyAfterFailure, ElapsedInv, Collect, db, history, Go, Points,
         Outcomes
<1>4. RowInv'
  BY <1>1
     DEF IInv, TypeOK, RowInv, ReportMatchesHistory, Collect, db, history, Go, Points,
         Outcomes
<1>5. BackInv'
  BY <1>1 DEF IInv, TypeOK, BackInv, RowInv, Collect, db, history, Go, Points, Outcomes
<1>6. ElapsedInv'
  BY <1>1 DEF IInv, TypeOK, ElapsedInv, Collect, db, history, Go, Points, Outcomes
<1>7. ClearInv'
  BY <1>1 DEF IInv, TypeOK, ClearInv, Collect, db, history, Go, Points, Outcomes
<1>8. CountInv'
  BY <1>1, CapAssumption
     DEF IInv, TypeOK, CountInv, ClearInv, Smaller, Collect, db, history, Go, Points,
         Outcomes
<1>9. DeadlineInv'
  BY <1>1
     DEF IInv, TypeOK, DeadlineInv, ClearInv, Collect, db, history, Go, Points, Outcomes
<1> QED
  BY <1>1, <1>2, <1>3, <1>4, <1>5, <1>6, <1>7, <1>8, <1>9 DEF IInv

LEMMA EndJobStep == ASSUME IInv, EndJob PROVE IInv'
<1>1. TypeOK'
  BY CapAssumption, BackoffType
     DEF IInv, TypeOK, EndJob, db, task, history, Points, Outcomes
<1>2. ReportMatchesHistory'
  BY <1>1
     DEF IInv, TypeOK, ReportMatchesHistory, Collected, BackInv, EndJob, db, task, history,
         Points, Outcomes
<1>3. SkipOnlyAfterFailure'
  BY <1>1
     DEF IInv, TypeOK, SkipOnlyAfterFailure, ElapsedInv, EndJob, db, task, history, Points,
         Outcomes
<1>4. RowInv'
  BY <1>1
     DEF IInv, TypeOK, RowInv, ReportMatchesHistory, EndJob, db, task, history, Points,
         Outcomes
<1>5. BackInv'
  BY <1>1 DEF IInv, TypeOK, BackInv, RowInv, EndJob, db, task, history, Points, Outcomes
<1>6. ElapsedInv'
  BY <1>1 DEF IInv, TypeOK, ElapsedInv, EndJob, db, task, history, Points, Outcomes
<1>7. ClearInv'
  BY <1>1 DEF IInv, TypeOK, ClearInv, EndJob, db, task, history, Points, Outcomes
<1>8. CountInv'
  BY <1>1, CapAssumption
     DEF IInv, TypeOK, CountInv, ClearInv, Smaller, EndJob, db, task, history, Points,
         Outcomes
<1>9. DeadlineInv'
  BY <1>1
     DEF IInv, TypeOK, DeadlineInv, ClearInv, EndJob, db, task, history, Points, Outcomes
<1> QED
  BY <1>1, <1>2, <1>3, <1>4, <1>5, <1>6, <1>7, <1>8, <1>9 DEF IInv

LEMMA DatabaseErrorStep == ASSUME IInv, NEW s \in Sources, DatabaseError(s) PROVE IInv'
<1>1. TypeOK'
  BY CapAssumption, BackoffType
     DEF IInv, TypeOK, DatabaseError, db, history, Go, Yield, Points, Outcomes
<1>2. ReportMatchesHistory'
  BY <1>1
     DEF IInv, TypeOK, ReportMatchesHistory, Collected, BackInv, DatabaseError, db,
         history, Go, Yield, Points, Outcomes
<1>3. SkipOnlyAfterFailure'
  BY <1>1
     DEF IInv, TypeOK, SkipOnlyAfterFailure, ElapsedInv, DatabaseError, db, history, Go,
         Yield, Points, Outcomes
<1>4. RowInv'
  BY <1>1
     DEF IInv, TypeOK, RowInv, ReportMatchesHistory, DatabaseError, db, history, Go, Yield,
         Points, Outcomes
<1>5. BackInv'
  BY <1>1
     DEF IInv, TypeOK, BackInv, RowInv, DatabaseError, db, history, Go, Yield, Points,
         Outcomes
<1>6. ElapsedInv'
  BY <1>1
     DEF IInv, TypeOK, ElapsedInv, DatabaseError, db, history, Go, Yield, Points, Outcomes
<1>7. ClearInv'
  BY <1>1
     DEF IInv, TypeOK, ClearInv, DatabaseError, db, history, Go, Yield, Points, Outcomes
<1>8. CountInv'
  BY <1>1, CapAssumption
     DEF IInv, TypeOK, CountInv, ClearInv, Smaller, DatabaseError, db, history, Go, Yield,
         Points, Outcomes
<1>9. DeadlineInv'
  BY <1>1
     DEF IInv, TypeOK, DeadlineInv, ClearInv, DatabaseError, db, history, Go, Yield,
         Points, Outcomes
<1> QED
  BY <1>1, <1>2, <1>3, <1>4, <1>5, <1>6, <1>7, <1>8, <1>9 DEF IInv

LEMMA CheckBackoffStep == ASSUME IInv, NEW s \in Sources, CheckBackoff(s) PROVE IInv'
<1>1. TypeOK'
  BY CapAssumption, BackoffType
     DEF IInv, TypeOK, CheckBackoff, db, history, Go, Points, Outcomes
<1>2. ReportMatchesHistory'
  BY <1>1
     DEF IInv, TypeOK, ReportMatchesHistory, Collected, BackInv, CheckBackoff, db, history,
         Go, Points, Outcomes
<1>3. SkipOnlyAfterFailure'
  BY <1>1
     DEF IInv, TypeOK, SkipOnlyAfterFailure, ElapsedInv, CheckBackoff, db, history, Go,
         Points, Outcomes
<1>4. RowInv'
  BY <1>1
     DEF IInv, TypeOK, RowInv, ReportMatchesHistory, CheckBackoff, db, history, Go, Points,
         Outcomes
<1>5. BackInv'
  BY <1>1 DEF IInv, TypeOK, BackInv, RowInv, CheckBackoff, db, history, Go, Points, Outcomes
<1>6. ElapsedInv'
  BY <1>1 DEF IInv, TypeOK, ElapsedInv, CheckBackoff, db, history, Go, Points, Outcomes
<1>7. ClearInv'
  BY <1>1 DEF IInv, TypeOK, ClearInv, CheckBackoff, db, history, Go, Points, Outcomes
<1>8. CountInv'
  BY <1>1, CapAssumption
     DEF IInv, TypeOK, CountInv, ClearInv, Smaller, CheckBackoff, db, history, Go, Points,
         Outcomes
<1>9. DeadlineInv'
  BY <1>1
     DEF IInv, TypeOK, DeadlineInv, ClearInv, CheckBackoff, db, history, Go, Points,
         Outcomes
<1> QED
  BY <1>1, <1>2, <1>3, <1>4, <1>5, <1>6, <1>7, <1>8, <1>9 DEF IInv

LEMMA RecordSkipStep == ASSUME IInv, NEW s \in Sources, RecordSkip(s) PROVE IInv'
<1>1. TypeOK'
  BY CapAssumption, BackoffType
     DEF IInv, TypeOK, RecordSkip, history, Go, Yield, Points, Outcomes
<1>2. ReportMatchesHistory'
  BY <1>1
     DEF IInv, TypeOK, ReportMatchesHistory, Collected, BackInv, RecordSkip, history, Go,
         Yield, Points, Outcomes
<1>3. SkipOnlyAfterFailure'
  BY <1>1
     DEF IInv, TypeOK, SkipOnlyAfterFailure, ElapsedInv, RecordSkip, history, Go, Yield,
         Points, Outcomes
<1>4. RowInv'
  BY <1>1
     DEF IInv, TypeOK, RowInv, ReportMatchesHistory, RecordSkip, history, Go, Yield,
         Points, Outcomes
<1>5. BackInv'
  BY <1>1
     DEF IInv, TypeOK, BackInv, RowInv, RecordSkip, history, Go, Yield, Points, Outcomes
<1>6. ElapsedInv'
  BY <1>1 DEF IInv, TypeOK, ElapsedInv, RecordSkip, history, Go, Yield, Points, Outcomes
<1>7. ClearInv'
  BY <1>1 DEF IInv, TypeOK, ClearInv, RecordSkip, history, Go, Yield, Points, Outcomes
<1>8. CountInv'
  BY <1>1, CapAssumption
     DEF IInv, TypeOK, CountInv, ClearInv, Smaller, RecordSkip, history, Go, Yield, Points,
         Outcomes
<1>9. DeadlineInv'
  BY <1>1
     DEF IInv, TypeOK, DeadlineInv, ClearInv, RecordSkip, history, Go, Yield, Points,
         Outcomes
<1> QED
  BY <1>1, <1>2, <1>3, <1>4, <1>5, <1>6, <1>7, <1>8, <1>9 DEF IInv

LEMMA RunAdapterStep == ASSUME IInv, NEW s \in Sources, RunAdapter(s) PROVE IInv'
<1>1. TypeOK'
  BY CapAssumption, BackoffType
     DEF IInv, TypeOK, RunAdapter, db, history, Go, Points, Outcomes
<1>2. ReportMatchesHistory'
  BY <1>1
     DEF IInv, TypeOK, ReportMatchesHistory, Collected, BackInv, RunAdapter, db, history,
         Go, Points, Outcomes
<1>3. SkipOnlyAfterFailure'
  BY <1>1
     DEF IInv, TypeOK, SkipOnlyAfterFailure, ElapsedInv, RunAdapter, db, history, Go,
         Points, Outcomes
<1>4. RowInv'
  BY <1>1
     DEF IInv, TypeOK, RowInv, ReportMatchesHistory, RunAdapter, db, history, Go, Points,
         Outcomes
<1>5. BackInv'
  BY <1>1 DEF IInv, TypeOK, BackInv, RowInv, RunAdapter, db, history, Go, Points, Outcomes
<1>6. ElapsedInv'
  BY <1>1 DEF IInv, TypeOK, ElapsedInv, RunAdapter, db, history, Go, Points, Outcomes
<1>7. ClearInv'
  BY <1>1 DEF IInv, TypeOK, ClearInv, RunAdapter, db, history, Go, Points, Outcomes
<1>8. CountInv'
  BY <1>1, CapAssumption
     DEF IInv, TypeOK, CountInv, ClearInv, Smaller, RunAdapter, db, history, Go, Points,
         Outcomes
<1>9. DeadlineInv'
  BY <1>1
     DEF IInv, TypeOK, DeadlineInv, ClearInv, RunAdapter, db, history, Go, Points, Outcomes
<1> QED
  BY <1>1, <1>2, <1>3, <1>4, <1>5, <1>6, <1>7, <1>8, <1>9 DEF IInv

LEMMA ApplyBatchStep == ASSUME IInv, NEW s \in Sources, ApplyBatch(s) PROVE IInv'
<1>1. TypeOK'
  BY CapAssumption, BackoffType DEF IInv, TypeOK, ApplyBatch, db, Go, Points, Outcomes
<1>2. ReportMatchesHistory'
  BY <1>1
     DEF IInv, TypeOK, ReportMatchesHistory, Collected, BackInv, ApplyBatch, db, Go,
         Points, Outcomes
<1>3. SkipOnlyAfterFailure'
  BY <1>1
     DEF IInv, TypeOK, SkipOnlyAfterFailure, ElapsedInv, ApplyBatch, db, Go, Points,
         Outcomes
<1>4. RowInv'
  BY <1>1
     DEF IInv, TypeOK, RowInv, ReportMatchesHistory, ApplyBatch, db, Go, Points, Outcomes
<1>5. BackInv'
  BY <1>1 DEF IInv, TypeOK, BackInv, RowInv, ApplyBatch, db, Go, Points, Outcomes
<1>6. ElapsedInv'
  BY <1>1 DEF IInv, TypeOK, ElapsedInv, ApplyBatch, db, Go, Points, Outcomes
<1>7. ClearInv'
  BY <1>1 DEF IInv, TypeOK, ClearInv, ApplyBatch, db, Go, Points, Outcomes
<1>8. CountInv'
  BY <1>1, CapAssumption
     DEF IInv, TypeOK, CountInv, ClearInv, Smaller, ApplyBatch, db, Go, Points, Outcomes
<1>9. DeadlineInv'
  BY <1>1 DEF IInv, TypeOK, DeadlineInv, ClearInv, ApplyBatch, db, Go, Points, Outcomes
<1> QED
  BY <1>1, <1>2, <1>3, <1>4, <1>5, <1>6, <1>7, <1>8, <1>9 DEF IInv

LEMMA ClearFailureStep == ASSUME IInv, NEW s \in Sources, ClearFailure(s) PROVE IInv'
<1>1. TypeOK'
  BY CapAssumption, BackoffType
     DEF IInv, TypeOK, ClearFailure, history, Go, Points, Outcomes
<1>2. ReportMatchesHistory'
  BY <1>1
     DEF IInv, TypeOK, ReportMatchesHistory, Collected, BackInv, ClearFailure, history, Go,
         Points, Outcomes
<1>3. SkipOnlyAfterFailure'
  BY <1>1
     DEF IInv, TypeOK, SkipOnlyAfterFailure, ElapsedInv, ClearFailure, history, Go, Points,
         Outcomes
<1>4. RowInv'
  BY <1>1
     DEF IInv, TypeOK, RowInv, ReportMatchesHistory, ClearFailure, history, Go, Points,
         Outcomes
<1>5. BackInv'
  BY <1>1 DEF IInv, TypeOK, BackInv, RowInv, ClearFailure, history, Go, Points, Outcomes
<1>6. ElapsedInv'
  BY <1>1 DEF IInv, TypeOK, ElapsedInv, ClearFailure, history, Go, Points, Outcomes
<1>7. ClearInv'
  BY <1>1 DEF IInv, TypeOK, ClearInv, ClearFailure, history, Go, Points, Outcomes
<1>8. CountInv'
  BY <1>1, CapAssumption
     DEF IInv, TypeOK, CountInv, ClearInv, Smaller, ClearFailure, history, Go, Points,
         Outcomes
<1>9. DeadlineInv'
  BY <1>1
     DEF IInv, TypeOK, DeadlineInv, ClearInv, ClearFailure, history, Go, Points, Outcomes
<1> QED
  BY <1>1, <1>2, <1>3, <1>4, <1>5, <1>6, <1>7, <1>8, <1>9 DEF IInv

LEMMA RecordEndStep == ASSUME IInv, NEW s \in Sources, RecordEnd(s) PROVE IInv'
<1>1. TypeOK'
  BY CapAssumption, BackoffType
     DEF IInv, TypeOK, RecordEnd, history, Go, Yield, Points, Outcomes
<1>2. ReportMatchesHistory'
  BY <1>1
     DEF IInv, TypeOK, ReportMatchesHistory, Collected, BackInv, RecordEnd, history, Go,
         Yield, Points, Outcomes
<1>3. SkipOnlyAfterFailure'
  BY <1>1
     DEF IInv, TypeOK, SkipOnlyAfterFailure, ElapsedInv, RecordEnd, history, Go, Yield,
         Points, Outcomes
<1>4. RowInv'
  BY <1>1
     DEF IInv, TypeOK, RowInv, ReportMatchesHistory, RecordEnd, history, Go, Yield, Points,
         Outcomes
<1>5. BackInv'
  BY <1>1 DEF IInv, TypeOK, BackInv, RowInv, RecordEnd, history, Go, Yield, Points, Outcomes
<1>6. ElapsedInv'
  BY <1>1 DEF IInv, TypeOK, ElapsedInv, RecordEnd, history, Go, Yield, Points, Outcomes
<1>7. ClearInv'
  BY <1>1 DEF IInv, TypeOK, ClearInv, RecordEnd, history, Go, Yield, Points, Outcomes
<1>8. CountInv'
  BY <1>1, CapAssumption
     DEF IInv, TypeOK, CountInv, ClearInv, Smaller, RecordEnd, history, Go, Yield, Points,
         Outcomes
<1>9. DeadlineInv'
  BY <1>1
     DEF IInv, TypeOK, DeadlineInv, ClearInv, RecordEnd, history, Go, Yield, Points,
         Outcomes
<1> QED
  BY <1>1, <1>2, <1>3, <1>4, <1>5, <1>6, <1>7, <1>8, <1>9 DEF IInv

LEMMA MarkFailureStep == ASSUME IInv, NEW s \in Sources, MarkFailure(s) PROVE IInv'
<1>1. TypeOK'
  <2>1. failures' \in [Sources -> 0..CountCap]
    BY CapAssumption DEF IInv, TypeOK, MarkFailure, Smaller
  <2>2. failures'[s] \in 1..CountCap
    BY CapAssumption DEF IInv, TypeOK, MarkFailure, Smaller
  <2>3. until' \in [Sources -> Int]
    BY <2>2, BackoffType DEF IInv, TypeOK, MarkFailure
  <2> QED
    BY <2>1, <2>3 DEF IInv, TypeOK, MarkFailure, Go, Points
<1>2. ReportMatchesHistory'
  BY <1>1
     DEF IInv, TypeOK, ReportMatchesHistory, Collected, BackInv, MarkFailure, Go, Points,
         Outcomes
<1>3. SkipOnlyAfterFailure'
  BY <1>1
     DEF IInv, TypeOK, SkipOnlyAfterFailure, ElapsedInv, MarkFailure, Go, Points, Outcomes
<1>4. RowInv'
  BY <1>1 DEF IInv, TypeOK, RowInv, ReportMatchesHistory, MarkFailure, Go, Points, Outcomes
<1>5. BackInv'
  BY <1>1 DEF IInv, TypeOK, BackInv, RowInv, MarkFailure, Go, Points, Outcomes
<1>6. ElapsedInv'
  BY <1>1 DEF IInv, TypeOK, ElapsedInv, MarkFailure, Go, Points, Outcomes
<1>7. ClearInv'
  BY <1>1 DEF IInv, TypeOK, ClearInv, MarkFailure, Go, Points, Outcomes
<1>8. CountInv'
  BY <1>1, CapAssumption
     DEF IInv, TypeOK, CountInv, ClearInv, Smaller, MarkFailure, Go, Points, Outcomes
<1>9. DeadlineInv'
  BY <1>1 DEF IInv, TypeOK, DeadlineInv, ClearInv, MarkFailure, Go, Points, Outcomes
<1> QED
  BY <1>1, <1>2, <1>3, <1>4, <1>5, <1>6, <1>7, <1>8, <1>9 DEF IInv

LEMMA RecordFailureStep == ASSUME IInv, NEW s \in Sources, RecordFailure(s) PROVE IInv'
<1>1. TypeOK'
  BY CapAssumption, BackoffType
     DEF IInv, TypeOK, RecordFailure, history, Go, Yield, Points, Outcomes
<1>2. ReportMatchesHistory'
  BY <1>1
     DEF IInv, TypeOK, ReportMatchesHistory, Collected, BackInv, RecordFailure, history,
         Go, Yield, Points, Outcomes
<1>3. SkipOnlyAfterFailure'
  BY <1>1
     DEF IInv, TypeOK, SkipOnlyAfterFailure, ElapsedInv, RecordFailure, history, Go, Yield,
         Points, Outcomes
<1>4. RowInv'
  BY <1>1
     DEF IInv, TypeOK, RowInv, ReportMatchesHistory, RecordFailure, history, Go, Yield,
         Points, Outcomes
<1>5. BackInv'
  BY <1>1
     DEF IInv, TypeOK, BackInv, RowInv, RecordFailure, history, Go, Yield, Points, Outcomes
<1>6. ElapsedInv'
  BY <1>1 DEF IInv, TypeOK, ElapsedInv, RecordFailure, history, Go, Yield, Points, Outcomes
<1>7. ClearInv'
  BY <1>1 DEF IInv, TypeOK, ClearInv, RecordFailure, history, Go, Yield, Points, Outcomes
<1>8. CountInv'
  BY <1>1, CapAssumption
     DEF IInv, TypeOK, CountInv, ClearInv, Smaller, RecordFailure, history, Go, Yield,
         Points, Outcomes
<1>9. DeadlineInv'
  BY <1>1
     DEF IInv, TypeOK, DeadlineInv, ClearInv, RecordFailure, history, Go, Yield, Points,
         Outcomes
<1> QED
  BY <1>1, <1>2, <1>3, <1>4, <1>5, <1>6, <1>7, <1>8, <1>9 DEF IInv

LEMMA TruncatePanicStep == ASSUME IInv, NEW s \in Sources, TruncatePanic(s) PROVE IInv'
<1>1. TypeOK'
  BY CapAssumption, BackoffType
     DEF IInv, TypeOK, TruncatePanic, db, history, Points, Outcomes
<1>2. ReportMatchesHistory'
  BY <1>1
     DEF IInv, TypeOK, ReportMatchesHistory, Collected, BackInv, TruncatePanic, db,
         history, Points, Outcomes
<1>3. SkipOnlyAfterFailure'
  BY <1>1
     DEF IInv, TypeOK, SkipOnlyAfterFailure, ElapsedInv, TruncatePanic, db, history,
         Points, Outcomes
<1>4. RowInv'
  BY <1>1
     DEF IInv, TypeOK, RowInv, ReportMatchesHistory, TruncatePanic, db, history, Points,
         Outcomes
<1>5. BackInv'
  BY <1>1 DEF IInv, TypeOK, BackInv, RowInv, TruncatePanic, db, history, Points, Outcomes
<1>6. ElapsedInv'
  BY <1>1 DEF IInv, TypeOK, ElapsedInv, TruncatePanic, db, history, Points, Outcomes
<1>7. ClearInv'
  BY <1>1 DEF IInv, TypeOK, ClearInv, TruncatePanic, db, history, Points, Outcomes
<1>8. CountInv'
  BY <1>1, CapAssumption
     DEF IInv, TypeOK, CountInv, ClearInv, Smaller, TruncatePanic, db, history, Points,
         Outcomes
<1>9. DeadlineInv'
  BY <1>1
     DEF IInv, TypeOK, DeadlineInv, ClearInv, TruncatePanic, db, history, Points, Outcomes
<1> QED
  BY <1>1, <1>2, <1>3, <1>4, <1>5, <1>6, <1>7, <1>8, <1>9 DEF IInv

LEMMA TickStep == ASSUME IInv, Tick PROVE IInv'
<1>1. TypeOK'
  BY CapAssumption, BackoffType DEF IInv, TypeOK, Tick, db, task, history, Points, Outcomes
<1>2. ReportMatchesHistory'
  BY <1>1
     DEF IInv, TypeOK, ReportMatchesHistory, Collected, BackInv, Tick, db, task, history,
         Points, Outcomes
<1>3. SkipOnlyAfterFailure'
  BY <1>1
     DEF IInv, TypeOK, SkipOnlyAfterFailure, ElapsedInv, Tick, db, task, history, Points,
         Outcomes
<1>4. RowInv'
  BY <1>1
     DEF IInv, TypeOK, RowInv, ReportMatchesHistory, Tick, db, task, history, Points,
         Outcomes
<1>5. BackInv'
  BY <1>1 DEF IInv, TypeOK, BackInv, RowInv, Tick, db, task, history, Points, Outcomes
<1>6. ElapsedInv'
  BY <1>1 DEF IInv, TypeOK, ElapsedInv, Tick, db, task, history, Points, Outcomes
<1>7. ClearInv'
  BY <1>1 DEF IInv, TypeOK, ClearInv, Tick, db, task, history, Points, Outcomes
<1>8. CountInv'
  BY <1>1, CapAssumption
     DEF IInv, TypeOK, CountInv, ClearInv, Smaller, Tick, db, task, history, Points,
         Outcomes
<1>9. DeadlineInv'
  BY <1>1 DEF IInv, TypeOK, DeadlineInv, ClearInv, Tick, db, task, history, Points, Outcomes
<1> QED
  BY <1>1, <1>2, <1>3, <1>4, <1>5, <1>6, <1>7, <1>8, <1>9 DEF IInv

LEMMA CrashStep == ASSUME IInv, Crash PROVE IInv'
<1>1. TypeOK'
  <2>1. at' \in [Sources -> Points] /\ out' \in [Sources -> Outcomes]
    BY DEF Crash, Points, Outcomes
  <2>2. report' \in [Sources -> Outcomes \cup {"none"}]
    BY DEF Crash, Outcomes
  <2>3. open' \in BOOLEAN /\ dead' \in BOOLEAN
    BY DEF Crash
  <2>4. crashes' \in Nat
    BY DEF IInv, TypeOK, Crash
  <2> QED
    BY <2>1, <2>2, <2>3, <2>4 DEF IInv, TypeOK, Crash, db, history
<1>2. ReportMatchesHistory'
  BY <1>1
     DEF IInv, TypeOK, ReportMatchesHistory, Collected, BackInv, Crash, db, history,
         Points, Outcomes
<1>3. SkipOnlyAfterFailure'
  BY <1>1
     DEF IInv, TypeOK, SkipOnlyAfterFailure, ElapsedInv, Crash, db, history, Points,
         Outcomes
<1>4. RowInv'
  BY <1>1
     DEF IInv, TypeOK, RowInv, ReportMatchesHistory, Crash, db, history, Points, Outcomes
<1>5. BackInv'
  BY <1>1 DEF IInv, TypeOK, BackInv, RowInv, Crash, db, history, Points, Outcomes
<1>6. ElapsedInv'
  BY <1>1 DEF IInv, TypeOK, ElapsedInv, Crash, db, history, Points, Outcomes
<1>7. ClearInv'
  BY <1>1 DEF IInv, TypeOK, ClearInv, Crash, db, history, Points, Outcomes
<1>8. CountInv'
  BY <1>1, CapAssumption
     DEF IInv, TypeOK, CountInv, ClearInv, Smaller, Crash, db, history, Points, Outcomes
<1>9. DeadlineInv'
  BY <1>1 DEF IInv, TypeOK, DeadlineInv, ClearInv, Crash, db, history, Points, Outcomes
<1> QED
  BY <1>1, <1>2, <1>3, <1>4, <1>5, <1>6, <1>7, <1>8, <1>9 DEF IInv

LEMMA StutterStep == ASSUME IInv, UNCHANGED vars PROVE IInv'
<1> USE DEF vars, db, task, history
<1>1. TypeOK' /\ ReportMatchesHistory' /\ SkipOnlyAfterFailure'
  BY DEF IInv, TypeOK, ReportMatchesHistory, Collected, SkipOnlyAfterFailure
<1>2. RowInv' /\ BackInv' /\ ElapsedInv' /\ ClearInv' /\ CountInv' /\ DeadlineInv'
  BY DEF IInv, RowInv, BackInv, ElapsedInv, ClearInv, CountInv, DeadlineInv
<1> QED
  BY <1>1, <1>2 DEF IInv

LEMMA NextIInv == ASSUME IInv, [Next]_vars PROVE IInv'
<1>1. ASSUME NEW s \in Sources, Task(s) PROVE IInv'
  BY <1>1, AcquireStep, CollectStep, DatabaseErrorStep, CheckBackoffStep, RecordSkipStep,
     RunAdapterStep, ApplyBatchStep, ClearFailureStep, RecordEndStep, MarkFailureStep,
     RecordFailureStep, TruncatePanicStep
     DEF Task
<1> QED
  BY <1>1, StartJobStep, EndJobStep, TickStep, CrashStep, StutterStep DEF Next

LEMMA Inductive == Spec => []IInv
<1> QED
  BY InitIInv, NextIInv, PTL DEF Spec

-----------------------------------------------------------------------------
\* Every variable of a refresh stays in its range, the failure count below its cap.
THEOREM TypeCorrect == Spec => []TypeOK
<1>1. IInv => TypeOK
  BY DEF IInv
<1> QED
  BY <1>1, Inductive, PTL

\* For every registry: the report that run_sources returns and the rows that
\* run_one_source has written in ingestion_runs never contradict each other.
THEOREM ReportIsHistory == Spec => []ReportMatchesHistory
<1>1. IInv => ReportMatchesHistory
  BY DEF IInv
<1> QED
  BY <1>1, Inductive, PTL

\* For every backoff configuration: a source is skipped only while its last
\* decided run is a failure, wherever earlier processes have died.
THEOREM NoSpuriousSkip == Spec => []SkipOnlyAfterFailure
<1>1. IInv => SkipOnlyAfterFailure
  BY DEF IInv
<1> QED
  BY <1>1, Inductive, PTL

\* For every base, maximum and cap: no run of an adapter comes before the
\* exponential delay of the failures since the last commit has passed.
THEOREM BackoffRespected == Spec => NoEarlyRetry
<1>1. ASSUME IInv, [Next]_vars, NEW s \in Sources,
             at[s] = "check", at'[s] = "fetch", last[s] = "failed"
      PROVE  now >= failedAt[s] + Backoff(Smaller(streak[s], CountCap))
  <2>1. until[s] <= now
    <3>1. CASE CheckBackoff(s)
      BY <1>1, <3>1 DEF IInv, TypeOK, CheckBackoff, Go
    <3>2. ASSUME NEW r \in Sources, r # s, Task(r) PROVE at'[s] = at[s] \/ at'[s] = "idle"
      BY <1>1, <3>2
         DEF IInv, TypeOK, Task, Acquire, Collect, DatabaseError, CheckBackoff, RecordSkip,
             RunAdapter, ApplyBatch, ClearFailure, RecordEnd, MarkFailure, RecordFailure,
             TruncatePanic, Go, Yield
    <3>3. ASSUME Task(s), ~CheckBackoff(s) PROVE at'[s] # "fetch"
      BY <1>1, <3>3
         DEF IInv, TypeOK, Task, Acquire, Collect, DatabaseError, RecordSkip, RunAdapter,
             ApplyBatch, ClearFailure, RecordEnd, MarkFailure, RecordFailure, TruncatePanic,
             Go, Yield
    <3>4. CASE StartJob \/ EndJob \/ Tick \/ Crash \/ UNCHANGED vars
      BY <1>1, <3>4 DEF StartJob, EndJob, Tick, Crash, vars, task
    <3> QED
      BY <1>1, <3>1, <3>2, <3>3, <3>4 DEF Next
  <2>2. /\ until[s] = failedAt[s] + Backoff(failures[s])
        /\ failures[s] >= Smaller(streak[s], CountCap)
        /\ streak[s] # 0
    BY <1>1 DEF IInv, DeadlineInv, CountInv
  <2>3. failures[s] \in 1..CountCap /\ Smaller(streak[s], CountCap) \in 1..CountCap
    BY <1>1, <2>2, CapAssumption DEF IInv, TypeOK, Smaller
  <2>4. Backoff(Smaller(streak[s], CountCap)) <= Backoff(failures[s])
    BY <2>2, <2>3, BackoffGrows
  <2> QED
    BY <1>1, <2>1, <2>2, <2>3, <2>4, BackoffType DEF IInv, TypeOK
<1>2. IInv /\ [Next]_vars =>
        [\A s \in Sources :
           at[s] = "check" /\ at'[s] = "fetch" /\ last[s] = "failed" =>
             now >= failedAt[s] + Backoff(Smaller(streak[s], CountCap))]_vars
  BY <1>1
<1> QED
  BY <1>2, Inductive, PTL DEF Spec, NoEarlyRetry

-----------------------------------------------------------------------------
(* The adapter of a feed *)

\* The row that a run has read is still the row.
ReadInv == step # "idle" => read = cache

\* What is about to be committed is unchanged, or has passed validation.
ValidInv == step = "commit" => Unchanged(docs[got]) \/ Valid(docs[got])

FeedIInv == FeedTypeOK /\ TagNamesContent /\ CacheBacked /\ ReadInv /\ ValidInv

-----------------------------------------------------------------------------
(* The site *)

LEMMA ServedIsADocument ==
  ASSUME docs \in Seq(Seq(Listing)), docs # <<>>
  PROVE  Len(docs) \in Nat \ {0} /\ Served \in Seq(Listing) /\ Len(Served) \in Nat
<1>1. Len(docs) \in Nat \ {0}
  BY EmptySeq
<1>2. Len(docs) \in 1..Len(docs)
  BY <1>1
<1>3. Served \in Seq(Listing)
  BY <1>2, ElementOfSeq DEF Served
<1> QED
  BY <1>1, <1>3, LenProperties

\* Whatever happens at the site, a document is added at the end or none is.
SiteStep ==
    /\ UNCHANGED <<disk, run>>
    /\ old \subseteq old' /\ old' \subseteq Keys
    /\ \/ UNCHANGED docs
       \/ \E doc \in Seq(Listing) : docs' = Append(docs, doc)

LEMMA SiteAppends ==
  ASSUME FeedTypeOK, Site
  PROVE  SiteStep
<1> USE ServedIsADocument DEF FeedTypeOK
<1>1. ASSUME NEW e \in Entries, Publish(e)
      PROVE  SiteStep
  <2> DEFINE head == [entry |-> e, rev |-> 0]
             long == <<head>> \o Served
             n == IF Len(Served) < Window THEN Len(Served) + 1 ELSE Window
  <2>1. <<head>> \in Seq(Listing) /\ Len(<<head>>) = 1
    <3>1. head \in Listing
      BY DEF Listing
    <3> QED
      BY <3>1
  <2>2. long \in Seq(Listing) /\ Len(long) = Len(Served) + 1
    BY <2>1, ConcatProperties
  <2>3. n \in Int /\ n <= Len(long)
    BY <2>2, SizesAssumption
  <2>4. \A i \in 1..n : long[i] \in Listing
    BY <2>2, <2>3, ElementOfSeq
  <2>5. SubSeq(long, 1, n) \in Seq(Listing)
    <3> HIDE DEF long, n, FeedTypeOK
    <3> QED
      BY <2>3, <2>4, SubSeqProperties
  <2> QED
    BY <1>1, <2>5 DEF Publish, Serve, SiteStep
<1>2. ASSUME NEW i \in 1..Len(Served), Edit(i)
      PROVE  SiteStep
  <2> DEFINE edited == [Served EXCEPT ![i].rev = 1 - @]
             listing == [Served[i] EXCEPT !.rev = 1 - @]
  <2>1. Served[i] \in Listing
    BY ElementOfSeq
  <2>2. listing \in Listing
    <3>1. PICK e \in Entries, r \in {0, 1} : Served[i] = [entry |-> e, rev |-> r]
      BY <2>1 DEF Listing
    <3>2. listing = [entry |-> e, rev |-> 1 - r]
      BY <3>1
    <3>3. 1 - r \in {0, 1}
      OBVIOUS
    <3> QED
      BY <3>2, <3>3 DEF Listing
  <2>3. edited = [Served EXCEPT ![i] = listing]
    OBVIOUS
  <2>4. edited \in Seq(Listing)
    BY <2>2, <2>3, ExceptSeq
  <2> QED
    BY <1>2, <2>4 DEF Edit, Serve, SiteStep
<1>3. ASSUME NEW i \in 1..Len(Served), Withdraw(i)
      PROVE  SiteStep
  <2>1. \A j \in 1..Len(Served) : Served[j] \in Listing
    BY ElementOfSeq
  <2>2. SubSeq(Served, 1, i - 1) \in Seq(Listing)
    <3>1. \A j \in 1..(i - 1) : Served[j] \in Listing
      BY <2>1
    <3> QED
      BY <3>1, SubSeqProperties
  <2>3. SubSeq(Served, i + 1, Len(Served)) \in Seq(Listing)
    <3>1. \A j \in (i + 1)..Len(Served) : Served[j] \in Listing
      BY <2>1
    <3> QED
      BY <3>1, SubSeqProperties
  <2>4. SubSeq(Served, 1, i - 1) \o SubSeq(Served, i + 1, Len(Served)) \in Seq(Listing)
    BY <2>2, <2>3, ConcatProperties
  <2> QED
    BY <1>3, <2>4 DEF Withdraw, Serve, SiteStep
<1>4. CASE Redeploy
  BY <1>4 DEF Redeploy, Serve, SiteStep
<1>5. ASSUME NEW k \in Keys, Age(k)
      PROVE  SiteStep
  BY <1>5 DEF Age, SiteStep
<1> QED
  BY <1>1, <1>2, <1>3, <1>4, <1>5 DEF Site

\* A longer history has the documents of the shorter one.
LEMMA HistoryGrows ==
  ASSUME NEW doc \in Seq(Listing), docs \in Seq(Seq(Listing)), docs # <<>>,
         docs' = Append(docs, doc)
  PROVE  /\ docs' \in Seq(Seq(Listing)) /\ docs' # <<>>
         /\ Len(docs) \in Nat /\ Len(docs') = Len(docs) + 1
         /\ \A t \in 1..Len(docs) : docs'[t] = docs[t]
<1> DEFINE D == Seq(Listing)
<1>1. docs \in Seq(D) /\ doc \in D
  OBVIOUS
<1> HIDE DEF D
<1>2. /\ Len(docs) \in Nat
      /\ Append(docs, doc) \in Seq(D)
      /\ Len(Append(docs, doc)) = Len(docs) + 1
      /\ \A t \in 1..Len(docs) : Append(docs, doc)[t] = docs[t]
  BY <1>1
<1>3. docs' # <<>>
  <2>1. Len(<<>>) = 0
    BY EmptySeq
  <2>2. Len(docs') # 0
    BY <1>2
  <2> QED
    BY <2>1, <2>2, Zenon
<1> QED
  BY <1>2, <1>3 DEF D

-----------------------------------------------------------------------------
(* The invariant *)

LEMMA FeedInitially == FeedInit => FeedIInv
<1> SUFFICES ASSUME FeedInit PROVE FeedIInv
  OBVIOUS
<1> USE DEF FeedInit, NoCache
<1>1. <<>> \in Seq(Listing) /\ docs \in Seq(Seq(Listing)) /\ docs # <<>> /\ Len(docs) = 1
  OBVIOUS
<1>2. cache \in Cached /\ read \in Cached
  BY <1>1 DEF Cached
<1>3. FeedTypeOK
  BY <1>1, <1>2 DEF FeedTypeOK
<1> QED
  BY <1>3 DEF FeedIInv, TagNamesContent, CacheBacked, ReadInv, ValidInv

LEMMA SiteKeepsFeedIInv ==
  ASSUME FeedIInv, Site
  PROVE  FeedIInv'
<1> USE DEF FeedIInv
<1>1. SiteStep
  BY SiteAppends
<1>2. /\ docs' \in Seq(Seq(Listing)) /\ docs' # <<>>
      /\ Len(docs) \in Nat /\ Len(docs') \in Nat /\ Len(docs) <= Len(docs')
      /\ \A t \in 1..Len(docs) : docs'[t] = docs[t]
  <2>1. CASE UNCHANGED docs
    BY <2>1, ServedIsADocument DEF FeedTypeOK
  <2>2. CASE \E doc \in Seq(Listing) : docs' = Append(docs, doc)
    BY <2>2, HistoryGrows DEF FeedTypeOK
  <2> QED
    BY <1>1, <2>1, <2>2 DEF SiteStep
<1>3. Cached \subseteq Cached'
  BY <1>2 DEF Cached
<1>4. FeedTypeOK'
  BY <1>1, <1>2, <1>3 DEF FeedTypeOK, SiteStep, disk, run
<1>5. cache.tag \in 0..Len(docs)
  BY DEF FeedTypeOK, Cached
<1>6. TagNamesContent'
  BY <1>1, <1>2, <1>5 DEF TagNamesContent, SiteStep, disk
<1>7. CacheBacked'
  BY <1>1 DEF CacheBacked, SiteStep, disk, Taken, Key
<1>8. ReadInv' /\ ValidInv'
  <2>1. step = "commit" => docs'[got] = docs[got]
    BY <1>2 DEF FeedTypeOK
  <2> QED
    BY <1>1, <2>1 DEF ReadInv, ValidInv, SiteStep, disk, run, Unchanged, Valid, Taken, Key
<1> QED
  BY <1>4, <1>6, <1>7, <1>8

\* A valid document leaves every key that it takes with the one listing of it.
LEMMA UpsertedHasTheDocument ==
  ASSUME NEW doc, Valid(doc), NEW i \in Taken(doc), Key(doc, i) \in Keys
  PROVE  Upserted(doc)[Key(doc, i)] = doc[i]
<1> DEFINE j == CHOOSE j \in Taken(doc) : Key(doc, j) = Key(doc, i)
<1>1. j \in Taken(doc) /\ Key(doc, j) = Key(doc, i)
  OBVIOUS
<1>2. j = i
  BY <1>1 DEF Valid
<1> QED
  BY <1>2 DEF Upserted

LEMMA TakenAreListings ==
  ASSUME NEW doc \in Seq(Listing), NEW i \in Taken(doc)
  PROVE  doc[i] \in Listing /\ Key(doc, i) \in Keys
<1>1. i \in 1..Len(doc)
  BY DEF Taken
<1>2. doc[i] \in Listing
  BY <1>1, ElementOfSeq
<1> QED
  BY <1>2, KeysAssumption DEF Key, Listing

LEMMA CommitKeepsFeedIInv ==
  ASSUME FeedIInv, Commit
  PROVE  FeedIInv'
<1> DEFINE doc == docs[got]
<1> USE DEF FeedIInv
<1>1. got \in 1..Len(docs) /\ doc \in Seq(Listing) /\ Len(docs) \in Nat
  <2>1. got \in 1..Len(docs)
    BY DEF FeedTypeOK, Commit
  <2> QED
    BY <2>1, ElementOfSeq, ServedIsADocument DEF FeedTypeOK
<1>2. read = cache
  BY DEF ReadInv, Commit
<1>3. /\ step' = "idle" /\ read' = NoCache /\ got' = 0 /\ UNCHANGED site
      /\ cache' = [tag |-> got, doc |-> doc]
      /\ stored' = IF Unchanged(doc) THEN stored ELSE Upserted(doc)
  BY DEF Commit, Stop
<1> HIDE DEF doc
<1>4. stored' \in [Keys -> Listing \union {NotStored}]
  <2>1. ASSUME NEW k \in Keys, NEW i \in Taken(doc), Key(doc, i) = k
        PROVE  doc[CHOOSE j \in Taken(doc) : Key(doc, j) = k] \in Listing
    BY <1>1, <2>1, TakenAreListings
  <2> QED
    BY <1>3, <2>1 DEF Upserted, FeedTypeOK
<1>5. FeedTypeOK'
  <2>1. cache' \in Cached /\ NoCache \in Cached
    BY <1>1, <1>3 DEF Cached, NoCache
  <2> QED
    BY <1>1, <1>3, <1>4, <2>1 DEF FeedTypeOK, site, Cached
<1>6. TagNamesContent'
  BY <1>3 DEF TagNamesContent, site, doc
<1>7. CacheBacked'
  <2>1. CASE Unchanged(doc)
    BY <1>2, <1>3, <2>1 DEF Unchanged, CacheBacked, site, Taken, Key
  <2>2. CASE ~ Unchanged(doc)
    <3>1. Valid(doc)
      BY <2>2 DEF ValidInv, Commit, doc
    <3>2. \A i \in Taken(doc) : stored'[Key(doc, i)] = doc[i]
      BY <1>1, <1>3, <2>2, <3>1, TakenAreListings, UpsertedHasTheDocument
    <3> QED
      BY <1>3, <3>2 DEF CacheBacked, Taken, Key
  <2> QED
    BY <2>1, <2>2
<1> QED
  BY <1>3, <1>5, <1>6, <1>7 DEF ReadInv, ValidInv

LEMMA NextKeepsFeedIInv == FeedIInv /\ [FeedNext]_feedVars => FeedIInv'
<1> SUFFICES ASSUME FeedIInv, [FeedNext]_feedVars PROVE FeedIInv'
  OBVIOUS
<1> USE DEF FeedIInv
<1>1. ASSUME UNCHANGED <<site, disk>>, step' \in {"idle", "sent", "commit"},
             read' \in Cached, got' \in 0..Len(docs), got' # 0 <=> step' = "commit"
      PROVE  (FeedTypeOK /\ TagNamesContent /\ CacheBacked)'
  BY <1>1 DEF FeedTypeOK, TagNamesContent, CacheBacked, site, disk, Cached, Taken, Key
<1>2. Len(docs) \in Nat \ {0} /\ NoCache \in Cached
  BY ServedIsADocument DEF FeedTypeOK, Cached, NoCache
<1>3. CASE Begin
  BY <1>1, <1>2, <1>3 DEF Begin, FeedTypeOK, ReadInv, ValidInv, site, disk
<1>4. CASE NotModified
  BY <1>1, <1>2, <1>4 DEF NotModified, Stop, ReadInv, ValidInv
<1>5. CASE Receive
  <2>1. (FeedTypeOK /\ TagNamesContent /\ CacheBacked)'
    BY <1>1, <1>2, <1>5 DEF Receive, FeedTypeOK
  <2> QED
    BY <1>5, <2>1 DEF Receive, ReadInv, ValidInv, site, disk, Served, Unchanged, Valid, Taken, Key
<1>6. CASE Reject
  BY <1>1, <1>2, <1>6 DEF Reject, Stop, ReadInv, ValidInv
<1>7. CASE Commit
  BY <1>7, CommitKeepsFeedIInv
<1>8. CASE Fail
  BY <1>1, <1>2, <1>8 DEF Fail, Stop, ReadInv, ValidInv
<1>9. CASE Cleanup
  <2>1. FeedTypeOK'
    BY <1>9 DEF Cleanup, FeedTypeOK, site, run, Cached
  <2>2. CacheBacked'
    <3>1. cache.tag # 0 => \A i \in Taken(cache.doc) : Key(cache.doc, i) \in Keys
      BY TakenAreListings DEF FeedTypeOK, Cached
    <3> QED
      BY <1>9, <3>1 DEF Cleanup, CacheBacked, site, Taken, Key
  <2> QED
    BY <1>9, <2>1, <2>2 DEF Cleanup, TagNamesContent, ReadInv, ValidInv, site, run
<1>10. CASE Site
  BY <1>10, SiteKeepsFeedIInv
<1>11. CASE UNCHANGED feedVars
  BY <1>11 DEF feedVars, site, disk, run, FeedTypeOK, Cached, TagNamesContent, CacheBacked,
               ReadInv, ValidInv, Unchanged, Valid, Taken, Key
<1> QED
  BY <1>3, <1>4, <1>5, <1>6, <1>7, <1>8, <1>9, <1>10, <1>11 DEF FeedNext

LEMMA FeedInvariance == FeedSpec => []FeedIInv
  BY FeedInitially, NextKeepsFeedIInv, PTL DEF FeedSpec

-----------------------------------------------------------------------------
(* Theorems *)

\* Every variable of the feed's refresh stays in its range.
THEOREM FeedTypeCorrect == FeedSpec => []FeedTypeOK
<1>1. FeedIInv => FeedTypeOK
  BY DEF FeedIInv
<1> QED
  BY <1>1, FeedInvariance, PTL

\* Doing nothing on a 304 or an equal hash is right: what the saved document
\* lists, within the cap and the retention, is in the database as it is listed,
\* for a feed of any size, edited, shortened and reposted in any order.
THEOREM SavedContentIsStored == FeedSpec => []CacheBacked
<1>1. FeedIInv => CacheBacked
  BY DEF FeedIInv
<1> QED
  BY <1>1, FeedInvariance, PTL

\* The saved ETag belongs to the saved content, so that a 304 is about a
\* document that was stored.
THEOREM SavedTagNamesContent == FeedSpec => []TagNamesContent
<1>1. FeedIInv => TagNamesContent
  BY DEF FeedIInv
<1> QED
  BY <1>1, FeedInvariance, PTL
=============================================================================
