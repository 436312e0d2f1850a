-------------------------- MODULE CrossValidation --------------------------
(***************************************************************************)
(* src/ingest/validate.rs over cve_evidence and cve_validation of          *)
(* src/db.rs: the stage of a refresh job that follows the sources.  It     *)
(* takes the CVEs whose validation is oldest, stores the canonical record  *)
(* of each, reads all their evidence, and stores what follows from it.     *)
(*                                                                         *)
(* Evidence is a row per CVE and source: here the set of sources seen, and *)
(* the status of the canonical record.  Severity, CVSS and exploitation    *)
(* are columns that are computed and stored together with the confidence   *)
(* and are left out; of an EPSS score it matters whether there is one.     *)
(* The canonical registry is external: it may withdraw a CVE, reinstate    *)
(* it, or not answer.  So is FIRST EPSS, which may fail.                   *)
(***************************************************************************)
EXTENDS Integers, FiniteSets

CONSTANTS
    Cves,
    Sources,
    Structured,               \* the sources whose batches carry an item for the CVE
    Authoritative,            \* the sources whose evidence is authoritative
    Rated,                    \* the CVEs that FIRST EPSS has a score for
    BatchSize,                \* config.validation_batch_size
    MaxObservations, MaxFailures, MaxRulings     \* bounds

ASSUME SourcesAssumption ==
    /\ IsFiniteSet(Cves) /\ IsFiniteSet(Sources)
    /\ Structured \subseteq Sources /\ Authoritative \subseteq Sources /\ Rated \subseteq Cves
ASSUME BatchAssumption == BatchSize \in Nat \ {0}
ASSUME LimitsAssumption == MaxObservations \in Nat /\ MaxFailures \in Nat /\ MaxRulings \in Nat

VARIABLES
    seen, status,             \* cve_evidence: the sources, and the canonical record
    confidence, scored,       \* cve_validation; "none" is no row; where epss_probability is set
    older,                    \* pairs of CVEs: the first has the smaller calculated_at
    at,                       \* the job: sources, canonical, scores, read, store
    chosen, scores, computed, \* cve_ids, epss_scores, the validations of those that were read
    registry,                 \* the canonical registry
    unchanged,                \* history: the CVEs with no new evidence since they were validated
    passes,                   \* history: how often the second was validated since the first was
    observations, failures, rulings

evidence == <<seen, status>>
validation == <<confidence, scored, older, passes>>
job == <<at, chosen, scores, computed>>
bounds == <<observations, failures, rulings>>
vars == <<evidence, validation, job, registry, unchanged, bounds>>

Statuses == {"published", "rejected"}

Init ==
    /\ seen = [c \in Cves |-> {}]
    /\ status = [c \in Cves |-> "none"]
    /\ confidence = [c \in Cves |-> "none"]
    /\ scored = {} /\ older = {}
    /\ at = "sources" /\ chosen = {} /\ scores = {} /\ computed = [c \in {} |-> "none"]
    /\ registry = [c \in Cves |-> "published"]
    /\ unchanged = {}
    /\ passes = [c \in Cves |-> [d \in Cves |-> 0]]
    /\ observations = 0 /\ failures = 0 /\ rulings = 0

-----------------------------------------------------------------------------
(* The confidence *)

Ladder == <<"low", "medium", "high", "very-high">>

\* How many sources speak of the CVE, the canonical record included.
Independent(c) == Cardinality(seen[c]) + (IF status[c] # "none" THEN 1 ELSE 0)
Official(c) ==
    Cardinality(seen[c] \cap Authoritative) + (IF status[c] # "none" THEN 1 ELSE 0)

Step(c) ==
    CASE Official(c) >= 2 /\ Independent(c) >= 3 -> 4
      [] Official(c) >= 2 /\ Independent(c) < 3 -> 3
      [] Official(c) = 1 /\ Independent(c) >= 3 -> 3
      [] Official(c) = 1 /\ Independent(c) < 3 -> 2
      [] Official(c) < 1 /\ Independent(c) >= 2 -> 2
      [] OTHER -> 1

Assess(c) == IF status[c] = "rejected" THEN "rejected" ELSE Ladder[Step(c)]

-----------------------------------------------------------------------------
(* The evidence of the sources *)

\* Variant: while the validation of an earlier job is still under way.
ObserveAtAnyTime(c, s) ==
    /\ observations < MaxObservations
    /\ observations' = observations + 1
    /\ s \notin seen[c]
    /\ seen' = [seen EXCEPT ![c] = @ \cup {s}]
    /\ unchanged' = unchanged \ {c}
    /\ UNCHANGED <<status, validation, job, registry, failures, rulings>>

\* A batch of the source is committed with its first evidence of the CVE; a
\* repeated one overwrites the row.
Observe(c, s) ==
    /\ at = "sources"
    /\ observations < MaxObservations
    /\ observations' = observations + 1
    /\ s \notin seen[c]
    /\ seen' = [seen EXCEPT ![c] = @ \cup {s}]
    /\ unchanged' = unchanged \ {c}
    /\ UNCHANGED <<status, validation, job, registry, failures, rulings>>

\* The registry withdraws or reinstates the CVE.
Rule(c) ==
    /\ rulings < MaxRulings
    /\ rulings' = rulings + 1
    /\ \E s \in Statuses \ {registry[c]} : registry' = [registry EXCEPT ![c] = s]
    /\ UNCHANGED <<evidence, validation, job, unchanged, observations, failures>>

-----------------------------------------------------------------------------
(* The stage *)

\* The CVEs that have an item.
Listed == {c \in Cves : seen[c] \cap Structured # {}}

\* ORDER BY: those never validated, then by calculated_at.
Before(c, d) ==
    \/ confidence[c] = "none" /\ confidence[d] # "none"
    \/ <<c, d>> \in older

\* Variant: the limit without the order.
SelectAny ==
    /\ at = "sources"
    /\ Listed # {}
    /\ \E batch \in SUBSET Listed :
        /\ Cardinality(batch) <= BatchSize
        /\ batch = Listed \/ Cardinality(batch) = BatchSize
        /\ chosen' = batch
    /\ at' = "canonical"
    /\ UNCHANGED <<evidence, validation, scores, computed, registry, unchanged, bounds>>

\* The sources are done; without a CVE the stage has nothing to do.
Select ==
    /\ at = "sources"
    /\ Listed # {}
    /\ \E batch \in SUBSET Listed :
        /\ Cardinality(batch) <= BatchSize
        /\ batch = Listed \/ Cardinality(batch) = BatchSize
        /\ \A c \in batch, d \in Listed \ batch : ~ Before(d, c)
        /\ chosen' = batch
    /\ at' = "canonical"
    /\ UNCHANGED <<evidence, validation, scores, computed, registry, unchanged, bounds>>

\* The canonical rows after the registry's answers: a CVE that it does not answer
\* for, or answers with another record, keeps the row it has.
Records(answered) == [c \in Cves |-> IF c \in answered THEN registry[c] ELSE status[c]]

\* The records that the registry answered with are stored in one transaction.
StoreCanonical ==
    /\ at = "canonical"
    /\ \E answered \in SUBSET chosen :
        /\ status' = Records(answered)
        /\ unchanged' = {c \in unchanged : status'[c] = status[c]}
    /\ at' = "scores"
    /\ UNCHANGED <<seen, validation, chosen, scores, computed, registry, bounds>>

\* The scores of the chosen CVEs; a request that fails, in whichever chunk, leaves
\* the stage without any.
FetchScores ==
    /\ at = "scores"
    /\ \/ scores' = chosen \cap Rated /\ UNCHANGED failures
       \/ /\ failures < MaxFailures
          /\ failures' = failures + 1
          /\ scores' = {}
    /\ at' = "read"
    /\ UNCHANGED <<evidence, validation, chosen, computed, registry, unchanged,
                   observations, rulings>>

Excused(missed) ==
    [c \in Cves |-> [d \in Cves |-> IF c \in missed THEN 0 ELSE passes[c][d]]]

\* Variant: a CVE whose evidence cannot be read has none.
ReadOrDefault ==
    /\ at = "read"
    /\ \E missed \in SUBSET chosen :
        /\ Cardinality(missed) <= MaxFailures - failures
        /\ failures' = failures + Cardinality(missed)
        /\ computed' = [c \in chosen |-> IF c \in missed THEN "low" ELSE Assess(c)]
    /\ at' = "store"
    /\ UNCHANGED <<evidence, validation, chosen, scores, registry, unchanged,
                   observations, rulings>>

\* Without a score or with one, the evidence of each CVE is read and assessed; one
\* whose query fails is left out, and its turn counts as taken.
Read ==
    /\ at = "read"
    /\ \E missed \in SUBSET chosen :
        /\ Cardinality(missed) <= MaxFailures - failures
        /\ failures' = failures + Cardinality(missed)
        /\ computed' = [c \in chosen \ missed |-> Assess(c)]
        /\ passes' = Excused(missed)
    /\ at' = "store"
    /\ UNCHANGED <<evidence, confidence, scored, older, chosen, scores, registry, unchanged,
                   observations, rulings>>

Ready ==
    /\ at' = "sources"
    /\ chosen' = {} /\ scores' = {}
    /\ computed' = [c \in {} |-> "none"]

\* d is validated in this step: one pass more for every listed c that is not.
Passed ==
    [c \in Cves |-> [d \in Cves |->
        IF c \in DOMAIN computed \/ c \notin Listed THEN 0
        ELSE IF d \in DOMAIN computed /\ passes[c][d] < 2 THEN passes[c][d] + 1
        ELSE passes[c][d]]]

\* The validations are stored in one transaction, with a score or with none
\* instead, and the job ends.
StoreValidations ==
    /\ at = "store"
    /\ confidence' = [c \in Cves |-> IF c \in DOMAIN computed THEN computed[c] ELSE confidence[c]]
    /\ scored' = (scored \ DOMAIN computed) \cup (scores \cap DOMAIN computed)
    /\ older' = {p \in Cves \X Cves :
        \/ p \in older /\ p[1] \notin DOMAIN computed /\ p[2] \notin DOMAIN computed
        \/ /\ p[1] \notin DOMAIN computed /\ confidence[p[1]] # "none"
           /\ p[2] \in DOMAIN computed}
    /\ passes' = Passed
    /\ unchanged' = unchanged \cup DOMAIN computed
    /\ Ready
    /\ UNCHANGED <<evidence, registry, bounds>>

\* A transaction fails, or the process dies: the stage is given up, and what it
\* has committed stays.
Abandon ==
    /\ at # "sources"
    /\ failures < MaxFailures
    /\ failures' = failures + 1
    /\ Ready
    /\ UNCHANGED <<evidence, validation, registry, unchanged, observations, rulings>>

Run == Select \/ StoreCanonical \/ FetchScores \/ Read \/ StoreValidations

Next ==
    \/ \E c \in Cves : Rule(c) \/ \E s \in Sources : Observe(c, s)
    \/ Run
    \/ Abandon

\* The scheduler starts a job for ever, and every request and query of the stage
\* has a deadline.
Spec == Init /\ [][Next]_vars

FairSpec == Spec /\ WF_vars(Run)

-----------------------------------------------------------------------------
(* Properties *)

Confidences == {"none", "rejected", "low", "medium", "high", "very-high"}

\* Every variable in its range; between two stages there is no list of CVEs.
TypeOK ==
    /\ seen \in [Cves -> SUBSET Sources]
    /\ status \in [Cves -> Statuses \cup {"none"}]
    /\ confidence \in [Cves -> Confidences]
    /\ scored \subseteq Rated /\ scores \subseteq chosen \cap Rated
    /\ older \subseteq Cves \X Cves
    /\ at \in {"sources", "canonical", "scores", "read", "store"}
    /\ chosen \subseteq Cves
    /\ at = "sources" => chosen = {}
    /\ DOMAIN computed \subseteq chosen
    /\ computed \in [DOMAIN computed -> Confidences]
    /\ registry \in [Cves -> Statuses]
    /\ unchanged \subseteq Cves
    /\ passes \in [Cves -> [Cves -> 0..2]]
    /\ observations \in Nat /\ failures \in Nat /\ rulings \in Nat

\* A CVE that has been validated, with no new evidence since, carries the
\* confidence its evidence deserves, whatever was stored, lost or given up between
\* the read of the evidence and the store of the validation.
ConfidenceIsCurrent == \A c \in unchanged : confidence[c] = Assess(c)

\* No CVE is validated twice while another that is listed waits: the rotation
\* passes over a CVE at most once for each other one, unless its evidence could
\* not be read when its turn came.
NoOvertaking == \A c, d \in Cves : passes[c][d] <= 1

\* Place of a confidence on the ladder.
Height(level) == IF level = "none" THEN 0 ELSE CHOOSE i \in 1..4 : Ladder[i] = level

\* Evidence only accumulates: short of a rejection, which may come and go, the
\* stored confidence of a CVE never falls.
ConfidenceOnlyGrows ==
    [][\A c \in Cves :
        {confidence[c], confidence'[c]} \subseteq Confidences \ {"rejected"}
            => Height(confidence[c]) <= Height(confidence'[c])]_vars

\* What is known of the CVE is what is stored.
Settled(c) == confidence[c] = Assess(c) /\ (c \in scored <=> c \in Rated)

\* The rotation comes round to every listed CVE: what its evidence deserves is
\* sooner or later what is stored, and a score that a failed request has wiped
\* out is back.
EveryCveIsRevalidated ==
    \A c \in Cves : c \in Listed /\ ~ Settled(c) ~> Settled(c)
=============================================================================
