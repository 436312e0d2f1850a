----------------------- MODULE CrossValidationProofs -----------------------
(***************************************************************************)
(* Proofs about CrossValidation for every set of CVEs and sources, every   *)
(* batch size and every bound: the stored confidence is current, the       *)
(* rotation overtakes nobody, and confidence only grows.                   *)
(***************************************************************************)
EXTENDS CrossValidation, FiniteSetTheorems, TLAPS

\* What is about to be stored follows from the evidence as it is.
ComputedInv ==
    /\ at = "store" => \A c \in DOMAIN computed : computed[c] = Assess(c)
    /\ at # "store" => DOMAIN computed = {}

\* A CVE that has passed another one comes after it in the rotation.
OrderInv == \A c, d \in Cves : passes[c][d] >= 1 => Before(c, d)

\* The stage holds the CVEs whose turn it is ...
TurnInv ==
    at \in {"canonical", "scores", "read"} =>
        \A c \in chosen, d \in Listed \ chosen : ~ Before(d, c)

\* ... and stores nobody who would pass another one a second time.
StoreInv ==
    at = "store" =>
        \A d \in DOMAIN computed, c \in Listed \ DOMAIN computed : passes[c][d] = 0

\* A stored confidence is never above what the evidence deserves.
GrowthInv ==
    \A c \in Cves :
        confidence[c] \notin {"none", "rejected"} =>
            \E k \in 1..4 : confidence[c] = Ladder[k] /\ k <= Step(c)

IInv ==
    /\ TypeOK /\ ConfidenceIsCurrent /\ NoOvertaking
    /\ ComputedInv /\ OrderInv /\ TurnInv /\ StoreInv /\ GrowthInv

-----------------------------------------------------------------------------
(* The confidence *)

\* How many sources there are is a number, and more evidence is not less.
LEMMA CountGrows ==
  ASSUME NEW S \in SUBSET Sources, NEW T \in SUBSET S, NEW A
  PROVE  /\ Cardinality(S) \in Nat /\ Cardinality(T) \in Nat
         /\ Cardinality(S \cap A) \in Nat /\ Cardinality(T \cap A) \in Nat
         /\ Cardinality(T) <= Cardinality(S)
         /\ Cardinality(T \cap A) <= Cardinality(S \cap A)
<1>1. IsFiniteSet(S)
  BY FS_Subset, SourcesAssumption
<1>2. IsFiniteSet(T) /\ Cardinality(T) <= Cardinality(S)
  BY <1>1, FS_Subset
<1>3. IsFiniteSet(S \cap A)
  BY <1>1, FS_Subset, S \cap A \in SUBSET S
<1>4. /\ IsFiniteSet(T \cap A)
      /\ Cardinality(T \cap A) <= Cardinality(S \cap A)
  BY <1>3, FS_Subset, T \cap A \in SUBSET (S \cap A)
<1> QED
  BY <1>1, <1>2, <1>3, <1>4, FS_CardinalityType

LEMMA CountsAreNumbers ==
  ASSUME TypeOK, NEW c \in Cves
  PROVE  Independent(c) \in Nat /\ Official(c) \in Nat
<1>1. seen[c] \in SUBSET Sources
  BY DEF TypeOK
<1>2. Cardinality(seen[c]) \in Nat /\ Cardinality(seen[c] \cap Authoritative) \in Nat
  BY <1>1, CountGrows, seen[c] \in SUBSET seen[c]
<1> QED
  BY <1>2 DEF Independent, Official

LEMMA StepType ==
  ASSUME TypeOK, NEW c \in Cves
  PROVE  Step(c) \in 1..4
BY CountsAreNumbers DEF Step

LEMMA AssessType ==
  ASSUME TypeOK, NEW c \in Cves
  PROVE  Assess(c) \in Confidences \ {"none"}
BY StepType DEF Assess, Ladder, Confidences

LEMMA HeightOfStep ==
  ASSUME NEW k \in 1..4
  PROVE  Height(Ladder[k]) = k
<1>1. Ladder[k] # "none"
  BY DEF Ladder
<1>2. \A i \in 1..4 : Ladder[i] = Ladder[k] <=> i = k
  BY DEF Ladder
<1> QED
  BY <1>1, <1>2 DEF Height

\* With the canonical record on one side and the sources on the other, evidence
\* that only accumulates does not lower the step.
LEMMA StepGrows ==
  ASSUME TypeOK, TypeOK', NEW c \in Cves,
         seen[c] \subseteq seen'[c],
         status[c] # "none" => status'[c] # "none"
  PROVE  Step(c) \in 1..4 /\ Step(c)' \in 1..4 /\ Step(c) <= Step(c)'
<1>1. /\ seen[c] \in SUBSET Sources /\ seen'[c] \in SUBSET Sources
  BY DEF TypeOK
<1>2. /\ Cardinality(seen[c]) \in Nat /\ Cardinality(seen'[c]) \in Nat
      /\ Cardinality(seen[c] \cap Authoritative) \in Nat
      /\ Cardinality(seen'[c] \cap Authoritative) \in Nat
      /\ Cardinality(seen[c]) <= Cardinality(seen'[c])
      /\ Cardinality(seen[c] \cap Authoritative) <= Cardinality(seen'[c] \cap Authoritative)
  BY <1>1, CountGrows
<1>3. /\ Independent(c) \in Nat /\ Independent(c)' \in Nat
      /\ Official(c) \in Nat /\ Official(c)' \in Nat
      /\ Independent(c) <= Independent(c)' /\ Official(c) <= Official(c)'
  BY <1>2 DEF Independent, Official
<1> QED
  BY <1>3 DEF Step

-----------------------------------------------------------------------------
(* Type correctness *)

LEMMA InitTypeOK == Init => TypeOK
BY LimitsAssumption DEF Init, TypeOK, Statuses, Confidences

LEMMA NextTypeOK == TypeOK /\ [Next]_vars => TypeOK'
<1> SUFFICES ASSUME TypeOK, [Next]_vars PROVE TypeOK'
  OBVIOUS
<1> USE LimitsAssumption
<1>1. ASSUME NEW c \in Cves, Rule(c) PROVE TypeOK'
  BY <1>1 DEF TypeOK, Rule, evidence, validation, job
<1>2. ASSUME NEW c \in Cves, NEW s \in Sources, Observe(c, s) PROVE TypeOK'
  BY <1>2 DEF TypeOK, Observe, validation, job
<1>3. CASE Select
  BY <1>3 DEF TypeOK, Select, Listed, evidence, validation, bounds
<1>4. CASE StoreCanonical
  BY <1>4 DEF TypeOK, StoreCanonical, Records, validation, bounds
<1>5. CASE FetchScores
  BY <1>5 DEF TypeOK, FetchScores, evidence, validation
<1>6. CASE Read
  <2> PICK missed \in SUBSET chosen :
        /\ failures' = failures + Cardinality(missed)
        /\ computed' = [c \in chosen \ missed |-> Assess(c)]
        /\ passes' = Excused(missed)
        /\ Cardinality(missed) <= MaxFailures - failures
    BY <1>6 DEF Read
  <2>1. computed' \in [DOMAIN computed' -> Confidences] /\ DOMAIN computed' \subseteq chosen
    BY AssessType DEF TypeOK
  <2>2. passes' \in [Cves -> [Cves -> 0..2]]
    BY DEF TypeOK, Excused
  <2>3. failures' \in Nat
    <3>1. Cardinality(missed) \in Nat
      <4>1. IsFiniteSet(missed)
        BY FS_Subset, SourcesAssumption DEF TypeOK
      <4> QED
        BY <4>1, FS_CardinalityType
    <3> QED
      BY <3>1 DEF TypeOK
  <2> QED
    BY <1>6, <2>1, <2>2, <2>3 DEF TypeOK, Read, evidence
<1>7. CASE StoreValidations
  <2>1. confidence' \in [Cves -> Confidences]
    BY <1>7 DEF TypeOK, StoreValidations
  <2>2. passes' \in [Cves -> [Cves -> 0..2]]
    <3>1. \A c, d \in Cves : passes[c][d] \in 0..2
      BY DEF TypeOK
    <3> QED
      BY <1>7, <3>1 DEF StoreValidations, Passed
  <2> QED
    BY <1>7, <2>1, <2>2 DEF TypeOK, StoreValidations, Ready, evidence, bounds
<1>8. CASE Abandon
  BY <1>8 DEF TypeOK, Abandon, Ready, evidence, validation
<1>9. CASE UNCHANGED vars
  BY <1>9 DEF TypeOK, vars, evidence, validation, job, bounds
<1> QED
  BY <1>1, <1>2, <1>3, <1>4, <1>5, <1>6, <1>7, <1>8, <1>9 DEF Next, Run

-----------------------------------------------------------------------------
(* The inductive invariant *)

LEMMA InitIInv == Init => IInv
<1> SUFFICES ASSUME Init PROVE IInv
  OBVIOUS
<1>1. TypeOK
  BY InitTypeOK
<1>2. ConfidenceIsCurrent /\ NoOvertaking /\ OrderInv /\ GrowthInv
  BY DEF Init, ConfidenceIsCurrent, NoOvertaking, OrderInv, GrowthInv
<1>3. ComputedInv /\ TurnInv /\ StoreInv
  BY DEF Init, ComputedInv, TurnInv, StoreInv
<1> QED
  BY <1>1, <1>2, <1>3 DEF IInv

LEMMA NextIInv == IInv /\ [Next]_vars => IInv'
<1> SUFFICES ASSUME IInv, [Next]_vars PROVE IInv'
  OBVIOUS
<1>0. TypeOK /\ TypeOK'
  BY NextTypeOK DEF IInv
<1>1. ASSUME NEW c \in Cves, Rule(c) PROVE IInv'
  <2>1. \A d \in Cves : Assess(d)' = Assess(d) /\ Step(d)' = Step(d)
    BY <1>1 DEF Rule, Assess, Step, Independent, Official, evidence
  <2>2. Listed' = Listed /\ \A d, e \in Cves : Before(d, e)' = Before(d, e)
    BY <1>1 DEF Rule, Listed, Before, evidence, validation
  <2>3. /\ UNCHANGED <<confidence, passes, at, chosen, computed, unchanged>>
    BY <1>1 DEF Rule, validation, job
  <2>4. ConfidenceIsCurrent' /\ GrowthInv'
    BY <1>0, <2>1, <2>3 DEF IInv, ConfidenceIsCurrent, GrowthInv, TypeOK
  <2>5. NoOvertaking' /\ OrderInv' /\ StoreInv'
    BY <2>2, <2>3 DEF IInv, NoOvertaking, OrderInv, StoreInv
  <2>6. ComputedInv'
    BY <1>0, <2>1, <2>3 DEF IInv, ComputedInv, TypeOK
  <2>7. TurnInv'
    <3>1. chosen \subseteq Cves /\ Listed \subseteq Cves
      BY <1>0 DEF TypeOK, Listed
    <3> QED
      BY <2>2, <2>3, <3>1 DEF IInv, TurnInv
  <2> QED
    BY <1>0, <2>4, <2>5, <2>6, <2>7 DEF IInv
<1>2. ASSUME NEW c \in Cves, NEW s \in Sources, Observe(c, s) PROVE IInv'
  <2>1. /\ UNCHANGED <<status, confidence, older, passes, at, chosen, computed>>
        /\ at = "sources" /\ DOMAIN computed = {}
        /\ unchanged' = unchanged \ {c}
    BY <1>2 DEF Observe, validation, job, IInv, ComputedInv
  <2>2. \A d \in Cves : seen[d] \subseteq seen'[d] /\ (d # c => seen'[d] = seen[d])
    BY <1>0, <1>2 DEF Observe, TypeOK
  <2>3. ASSUME NEW d \in unchanged'
        PROVE  Assess(d)' = Assess(d) /\ confidence'[d] = confidence[d] /\ d \in unchanged
    <3>1. d \in Cves /\ d # c /\ d \in unchanged
      BY <1>0, <2>1 DEF TypeOK
    <3>2. seen'[d] = seen[d] /\ status' = status
      BY <2>1, <2>2, <3>1
    <3> QED
      BY <2>1, <3>1, <3>2 DEF Assess, Step, Independent, Official
  <2>4. ASSUME NEW d \in Cves
        PROVE  Step(d) \in 1..4 /\ Step(d)' \in 1..4 /\ Step(d) <= Step(d)'
    <3>1. seen[d] \subseteq seen'[d] /\ (status[d] # "none" => status'[d] # "none")
      BY <2>1, <2>2
    <3> QED
      BY <1>0, <3>1, StepGrows
  <2>5. GrowthInv'
    BY <2>1, <2>4 DEF IInv, GrowthInv
  <2> QED
    BY <1>0, <2>1, <2>3, <2>5
       DEF IInv, ConfidenceIsCurrent, NoOvertaking, ComputedInv, OrderInv, TurnInv, StoreInv,
           Before
<1>3. CASE Select
  <2>1. UNCHANGED <<seen, status, confidence, older, passes, computed, unchanged>>
    BY <1>3 DEF Select, evidence, validation
  <2>2. /\ at' = "canonical" /\ at = "sources"
        /\ \A c \in chosen', d \in Listed \ chosen' : ~ Before(d, c)
    BY <1>3 DEF Select
  <2>3. TurnInv'
    BY <2>1, <2>2 DEF TurnInv, Before, Listed
  <2> QED
    BY <1>0, <2>1, <2>2, <2>3
       DEF IInv, ConfidenceIsCurrent, NoOvertaking, ComputedInv, OrderInv, StoreInv,
           GrowthInv, Before, Assess, Step, Independent, Official
<1>4. CASE StoreCanonical
  <2>1. /\ UNCHANGED <<seen, confidence, older, passes, computed, chosen>>
        /\ at = "canonical" /\ at' = "scores"
        /\ unchanged' = {c \in unchanged : status'[c] = status[c]}
    BY <1>4 DEF StoreCanonical, validation
  <2>2. \A c \in Cves : status[c] # "none" => status'[c] # "none"
    BY <1>0, <1>4 DEF StoreCanonical, Records, TypeOK, Statuses
  <2>3. ASSUME NEW c \in Cves
        PROVE  Step(c) \in 1..4 /\ Step(c)' \in 1..4 /\ Step(c) <= Step(c)'
    <3>1. seen[c] \subseteq seen'[c] /\ (status[c] # "none" => status'[c] # "none")
      BY <2>1, <2>2
    <3> QED
      BY <1>0, <3>1, StepGrows
  <2>4. GrowthInv'
    BY <2>1, <2>3 DEF IInv, GrowthInv
  <2>5. \A c \in unchanged' : Assess(c)' = Assess(c) /\ c \in unchanged
    BY <2>1 DEF Assess, Step, Independent, Official
  <2> QED
    BY <1>0, <2>1, <2>4, <2>5
       DEF IInv, ConfidenceIsCurrent, NoOvertaking, ComputedInv, OrderInv, TurnInv, StoreInv,
           Before, Listed
<1>5. CASE FetchScores
  <2>1. /\ UNCHANGED <<seen, status, confidence, older, passes, computed, chosen, unchanged>>
        /\ at = "scores" /\ at' = "read"
    BY <1>5 DEF FetchScores, evidence, validation
  <2> QED
    BY <1>0, <2>1
       DEF IInv, ConfidenceIsCurrent, NoOvertaking, ComputedInv, OrderInv, TurnInv, StoreInv,
           GrowthInv, Before, Listed, Assess, Step, Independent, Official
<1>6. CASE Read
  <2>1. /\ UNCHANGED <<seen, status, confidence, older, chosen, unchanged>>
        /\ at = "read" /\ at' = "store"
    BY <1>6 DEF Read, evidence
  <2> PICK missed \in SUBSET chosen :
        /\ computed' = [c \in chosen \ missed |-> Assess(c)]
        /\ passes' = Excused(missed)
    BY <1>6 DEF Read
  <2>2. \A c \in Cves : Assess(c)' = Assess(c) /\ Step(c)' = Step(c)
    BY <2>1 DEF Assess, Step, Independent, Official
  <2>3. ComputedInv'
    BY <1>0, <2>1, <2>2 DEF ComputedInv, TypeOK
  <2>4. \A c, d \in Cves : passes'[c][d] = IF c \in missed THEN 0 ELSE passes[c][d]
    BY DEF Excused
  <2>5. NoOvertaking' /\ OrderInv'
    BY <2>1, <2>4 DEF IInv, NoOvertaking, OrderInv, Before
  <2>6. StoreInv'
    <3> SUFFICES ASSUME NEW d \in chosen \ missed, NEW c \in Listed \ (chosen \ missed)
                 PROVE  passes'[c][d] = 0
      BY <2>1 DEF StoreInv, Listed
    <3>1. c \in Cves /\ d \in Cves
      BY <1>0 DEF Listed, TypeOK
    <3>2. CASE c \in missed
      BY <2>4, <3>1, <3>2
    <3>3. CASE c \notin missed
      <4>1. ~ Before(c, d)
        BY <2>1, <3>3 DEF IInv, TurnInv
      <4>2. passes[c][d] \in 0..2 /\ ~ (passes[c][d] >= 1)
        BY <1>0, <3>1, <4>1 DEF IInv, OrderInv, TypeOK
      <4> QED
        BY <2>4, <3>1, <3>3, <4>2
    <3> QED
      BY <3>2, <3>3
  <2> QED
    BY <1>0, <2>1, <2>2, <2>3, <2>5, <2>6
       DEF IInv, ConfidenceIsCurrent, TurnInv, GrowthInv, TypeOK
<1>7. CASE StoreValidations
  <2> DEFINE done == DOMAIN computed
  <2>1. /\ UNCHANGED <<seen, status>>
        /\ at = "store" /\ at' = "sources" /\ done \subseteq Cves
        /\ DOMAIN computed' = {} /\ unchanged' = unchanged \cup done
    BY <1>0, <1>7 DEF StoreValidations, Ready, evidence, TypeOK
  <2>2. \A c \in Cves : confidence'[c] = IF c \in done THEN Assess(c) ELSE confidence[c]
    BY <1>7, <2>1 DEF StoreValidations, IInv, ComputedInv
  <2>3. \A c \in Cves : Assess(c)' = Assess(c) /\ Step(c)' = Step(c)
    BY <2>1 DEF Assess, Step, Independent, Official
  <2>4. ConfidenceIsCurrent'
    BY <1>0, <2>1, <2>2, <2>3 DEF IInv, ConfidenceIsCurrent, TypeOK
  <2>5. GrowthInv'
    <3> SUFFICES ASSUME NEW c \in Cves, confidence'[c] \notin {"none", "rejected"}
                 PROVE  \E k \in 1..4 : confidence'[c] = Ladder[k] /\ k <= Step(c)'
      BY DEF GrowthInv
    <3>1. CASE c \in done
      BY <1>0, <2>2, <2>3, <3>1, StepType DEF Assess
    <3>2. CASE c \notin done
      BY <2>2, <2>3, <3>2 DEF IInv, GrowthInv
    <3> QED
      BY <3>1, <3>2
  <2>6. \A c, d \in Cves :
          passes'[c][d] = IF c \in done \/ c \notin Listed THEN 0
                          ELSE IF d \in done /\ passes[c][d] < 2 THEN passes[c][d] + 1
                          ELSE passes[c][d]
    BY <1>7 DEF StoreValidations, Passed
  <2>7. \A c, d \in Cves : c \in Listed \ done /\ d \in done => passes[c][d] = 0
    BY <2>1 DEF IInv, StoreInv
  <2>8. \A c, d \in Cves : passes[c][d] \in 0..2 /\ passes[c][d] <= 1
    BY <1>0 DEF IInv, NoOvertaking, TypeOK
  <2>9. NoOvertaking'
    BY <2>6, <2>7, <2>8 DEF NoOvertaking
  <2>10. OrderInv'
    <3> SUFFICES ASSUME NEW c \in Cves, NEW d \in Cves, passes'[c][d] >= 1
                 PROVE  Before(c, d)'
      BY DEF OrderInv
    <3>1. c \in Listed \ done
      BY <2>6
    <3>2. /\ confidence'[c] = confidence[c]
          /\ <<c, d>> \in older' <=>
               \/ <<c, d>> \in older /\ d \notin done
               \/ confidence[c] # "none" /\ d \in done
      BY <1>7, <2>2, <3>1 DEF StoreValidations
    <3>3. CASE d \in done
      <4>1. confidence'[d] # "none"
        BY <1>0, <2>2, <3>3, AssessType
      <4> QED
        BY <3>2, <3>3, <4>1 DEF Before
    <3>4. CASE d \notin done
      <4>1. passes[c][d] >= 1 /\ confidence'[d] = confidence[d]
        BY <2>2, <2>6, <3>1, <3>4
      <4>2. Before(c, d)
        BY <4>1 DEF IInv, OrderInv
      <4> QED
        BY <3>2, <3>4, <4>1, <4>2 DEF Before
    <3> QED
      BY <3>3, <3>4
  <2> QED
    BY <1>0, <2>1, <2>4, <2>5, <2>9, <2>10 DEF IInv, ComputedInv, TurnInv, StoreInv
<1>8. CASE Abandon
  <2>1. /\ UNCHANGED <<seen, status, confidence, older, passes, unchanged>>
        /\ at' = "sources" /\ DOMAIN computed' = {}
    BY <1>8 DEF Abandon, Ready, evidence, validation
  <2> QED
    BY <1>0, <2>1
       DEF IInv, ConfidenceIsCurrent, NoOvertaking, ComputedInv, OrderInv, TurnInv, StoreInv,
           GrowthInv, Before, Assess, Step, Independent, Official
<1>9. CASE UNCHANGED vars
  <2>1. UNCHANGED <<seen, status, confidence, older, passes, at, chosen, computed, unchanged>>
    BY <1>9 DEF vars, evidence, validation, job
  <2>2. /\ \A c : Assess(c)' = Assess(c) /\ Step(c)' = Step(c)
        /\ Listed' = Listed /\ \A c, d : Before(c, d)' = Before(c, d)
    BY <2>1 DEF Listed, Before, Assess, Step, Independent, Official
  <2>3. ConfidenceIsCurrent' /\ GrowthInv' /\ NoOvertaking' /\ OrderInv'
    BY <2>1, <2>2 DEF IInv, ConfidenceIsCurrent, GrowthInv, NoOvertaking, OrderInv
  <2>4. ComputedInv' /\ TurnInv' /\ StoreInv'
    BY <2>1, <2>2 DEF IInv, ComputedInv, TurnInv, StoreInv
  <2> QED
    BY <1>0, <2>3, <2>4 DEF IInv
<1> QED
  BY <1>1, <1>2, <1>3, <1>4, <1>5, <1>6, <1>7, <1>8, <1>9 DEF Next, Run

THEOREM Inductive == Spec => []IInv
BY InitIInv, NextIInv, PTL DEF Spec

-----------------------------------------------------------------------------
(* The theorems *)

\* For any sources, CVEs and batch size: the state of the stage stays in range.
THEOREM TypeCorrect == Spec => []TypeOK
<1>1. IInv => TypeOK
  BY DEF IInv
<1> QED
  BY <1>1, Inductive, PTL

\* A validation that stands without newer evidence is the one the evidence
\* deserves: what run stores is what it read, although the stage may be given
\* up between any two of its transactions.
THEOREM CurrentConfidence == Spec => []ConfidenceIsCurrent
<1>1. IInv => ConfidenceIsCurrent
  BY DEF IInv
<1> QED
  BY <1>1, Inductive, PTL

\* For every number of CVEs and every batch size: the order of
\* cve_ids_for_validation lets no CVE pass another one twice.
THEOREM FairRotation == Spec => []NoOvertaking
<1>1. IInv => NoOvertaking
  BY DEF IInv
<1> QED
  BY <1>1, Inductive, PTL

\* For any set of authoritative sources: confidence never falls unless the
\* canonical record is rejected.
THEOREM GrowingConfidence == Spec => ConfidenceOnlyGrows
<1>1. ASSUME IInv, [Next]_vars, NEW c \in Cves,
             {confidence[c], confidence'[c]} \subseteq Confidences \ {"rejected"}
      PROVE  Height(confidence[c]) <= Height(confidence'[c])
  <2>1. CASE confidence'[c] = confidence[c]
    <3>1. Height(confidence[c]) \in Nat
      <4>1. CASE confidence[c] = "none"
        BY <4>1 DEF Height
      <4>2. CASE confidence[c] # "none"
        <5>1. PICK k \in 1..4 : confidence[c] = Ladder[k]
          BY <1>1, <4>2 DEF IInv, GrowthInv
        <5> QED
          BY <5>1, HeightOfStep
      <4> QED
        BY <4>1, <4>2
    <3> QED
      BY <2>1, <3>1
  <2>2. CASE confidence'[c] # confidence[c]
    <3>1. StoreValidations /\ c \in DOMAIN computed
      BY <1>1, <2>2
         DEF Next, Run, Rule, Observe, Select, StoreCanonical, FetchScores, Read, StoreValidations,
             Abandon, vars, validation
    <3>2. confidence'[c] = Assess(c)
      BY <1>1, <3>1 DEF IInv, ComputedInv, StoreValidations
    <3>3. Step(c) \in 1..4 /\ confidence'[c] = Ladder[Step(c)]
      BY <1>1, <3>2, StepType DEF IInv, Assess
    <3>4. Height(confidence'[c]) = Step(c)
      BY <3>3, HeightOfStep
    <3>5. CASE confidence[c] = "none"
      BY <3>3, <3>4, <3>5 DEF Height
    <3>6. CASE confidence[c] # "none"
      <4>1. PICK k \in 1..4 : confidence[c] = Ladder[k] /\ k <= Step(c)
        BY <1>1, <3>6 DEF IInv, GrowthInv
      <4> QED
        BY <3>3, <3>4, <4>1, HeightOfStep
    <3> QED
      BY <3>5, <3>6
  <2> QED
    BY <2>1, <2>2
<1>2. IInv /\ [Next]_vars =>
        [\A c \in Cves :
           {confidence[c], confidence'[c]} \subseteq Confidences \ {"rejected"} =>
             Height(confidence[c]) <= Height(confidence'[c])]_vars
  BY <1>1
<1> QED
  BY <1>2, Inductive, PTL DEF Spec, ConfidenceOnlyGrows
=============================================================================
