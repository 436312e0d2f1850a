-------------------------- MODULE NvdSourceProofs --------------------------
(***************************************************************************)
(* Proofs about NvdSource for every set of records, every page size and    *)
(* page limit, every overlap and window and every lag of the API's index:  *)
(* the windows of the committed runs connect, and nothing falls between    *)
(* them or between two pages but what the offset costs.                    *)
(***************************************************************************)
EXTENDS NvdSource, FiniteSetTheorems, TLAPS

-----------------------------------------------------------------------------
(* Places in an ordered set *)

CountBelow(S, x) == Cardinality({q \in S : q < x})

LEMMA CountBelowType ==
  ASSUME NEW S \in SUBSET Nat, IsFiniteSet(S)
  PROVE  /\ Cardinality(S) \in Nat
         /\ \A x : CountBelow(S, x) \in Nat
         /\ \A x \in S : CountBelow(S, x) < Cardinality(S)
<1>1. Cardinality(S) \in Nat
  BY FS_CardinalityType
<1>2. ASSUME NEW x
      PROVE  /\ CountBelow(S, x) \in Nat
             /\ x \in S => CountBelow(S, x) < Cardinality(S)
  <2> DEFINE below == {q \in S : q < x}
  <2>1. below \in SUBSET S
    OBVIOUS
  <2>2. /\ IsFiniteSet(below) /\ Cardinality(below) <= Cardinality(S)
        /\ Cardinality(S) = Cardinality(below) => S = below
    BY <2>1, FS_Subset
  <2>3. Cardinality(below) \in Nat
    BY <2>2, FS_CardinalityType
  <2>4. x \in S => below # S
    OBVIOUS
  <2> HIDE DEF below
  <2>5. x \in S => Cardinality(below) < Cardinality(S)
    BY <1>1, <2>2, <2>3, <2>4
  <2> QED
    BY <2>3, <2>5 DEF CountBelow, below
<1> QED
  BY <1>1, <1>2

LEMMA CountBelowGrows ==
  ASSUME NEW S \in SUBSET Nat, IsFiniteSet(S), NEW x \in S, NEW y \in S, x < y
  PROVE  CountBelow(S, x) < CountBelow(S, y)
<1> DEFINE below(z) == {q \in S : q < z}
<1>1. below(x) \cup {x} \subseteq below(y)
  <2>1. \A z \in S : z < x => z < y
    OBVIOUS
  <2> QED
    BY <2>1
<1>2. below(x) \in SUBSET S /\ below(y) \in SUBSET S /\ x \notin below(x)
  OBVIOUS
<1>3. IsFiniteSet(below(x)) /\ IsFiniteSet(below(y))
  BY <1>2, FS_Subset
<1> HIDE DEF below
<1>4. Cardinality(below(x) \cup {x}) = Cardinality(below(x)) + 1
  BY <1>2, <1>3, FS_AddElement
<1>5. Cardinality(below(x) \cup {x}) <= Cardinality(below(y))
  BY <1>1, <1>3, FS_Subset
<1>6. Cardinality(below(x)) \in Nat /\ Cardinality(below(y)) \in Nat
  BY <1>3, FS_CardinalityType
<1>7. Cardinality(below(x)) < Cardinality(below(y))
  BY <1>4, <1>5, <1>6
<1> QED
  BY <1>7 DEF CountBelow, below

\* Members with places in an interval are no more than the interval is long.
LEMMA NoMoreThanPlaces ==
  ASSUME NEW S \in SUBSET Nat, IsFiniteSet(S), NEW T \in SUBSET S,
         NEW a \in Int, NEW b \in Int, \A x \in T : CountBelow(S, x) \in a..b
  PROVE  /\ Cardinality(T) <= Cardinality(a..b)
         /\ Cardinality(T) = Cardinality(a..b) => \A k \in a..b : \E x \in T : CountBelow(S, x) = k
<1> DEFINE place == [x \in T |-> CountBelow(S, x)]
<1>1. place \in [T -> a..b]
  OBVIOUS
<1>2. \A x, y \in T : place[x] = place[y] => x = y
  <2> SUFFICES ASSUME NEW x \in T, NEW y \in T, CountBelow(S, x) = CountBelow(S, y), x # y
               PROVE  FALSE
    OBVIOUS
  <2>1. x \in S /\ y \in S /\ x \in Nat /\ y \in Nat
    OBVIOUS
  <2>2. x < y \/ y < x
    BY <2>1
  <2>3. CountBelow(S, x) < CountBelow(S, y) \/ CountBelow(S, y) < CountBelow(S, x)
    BY <2>1, <2>2, CountBelowGrows
  <2>4. CountBelow(S, x) \in Nat
    BY CountBelowType
  <2> QED
    BY <2>3, <2>4
<1>3. place \in Injection(T, a..b)
  BY <1>1, <1>2 DEF Injection, IsInjective
<1>4. IsFiniteSet(a..b)
  BY FS_Interval
<1>5. /\ Cardinality(T) <= Cardinality(a..b)
      /\ Cardinality(T) = Cardinality(a..b) <=> place \in Surjection(T, a..b)
  BY <1>3, <1>4, FS_Injection
<1>6. place \in Surjection(T, a..b) => \A k \in a..b : \E x \in T : place[x] = k
  BY DEF Surjection
<1> QED
  BY <1>5, <1>6

\* Every place from the first to the last is taken.
LEMMA EveryPlace ==
  ASSUME NEW S \in SUBSET Nat, IsFiniteSet(S), NEW k \in 0..(Cardinality(S) - 1)
  PROVE  \E x \in S : CountBelow(S, x) = k
<1> DEFINE n == Cardinality(S)
<1>1. n \in Nat
  BY CountBelowType
<1>2. \A x \in S : CountBelow(S, x) \in 0..(n - 1)
  BY <1>1, CountBelowType
<1>3. Cardinality(0..(n - 1)) = n
  <2>1. 0 \in Int /\ n - 1 \in Int
    BY <1>1
  <2>2. Cardinality(0..(n - 1)) = IF 0 > n - 1 THEN 0 ELSE n - 1 - 0 + 1
    BY <2>1, FS_Interval
  <2> QED
    BY <1>1, <2>2
<1> HIDE DEF n
<1>4. \A j \in 0..(n - 1) : \E x \in S : CountBelow(S, x) = j
  <2>1. S \in SUBSET S /\ 0 \in Int /\ n - 1 \in Int /\ Cardinality(S) = Cardinality(0..(n - 1))
    BY <1>1, <1>3 DEF n
  <2> QED
    BY <1>2, <2>1, NoMoreThanPlaces
<1> QED
  BY <1>4 DEF n

\* A page is no longer than it may be, and does not reach behind the last place.
LEMMA PageLength ==
  ASSUME NEW S \in SUBSET Nat, IsFiniteSet(S), NEW i \in Nat, NEW size \in Nat \ {0}
  PROVE  LET page == {x \in S : i <= CountBelow(S, x) /\ CountBelow(S, x) < i + size} IN
         /\ Cardinality(page) \in 0..size
         /\ page # {} => i + Cardinality(page) <= Cardinality(S)
         /\ page = {} => Cardinality(S) <= i
<1> DEFINE page == {x \in S : i <= CountBelow(S, x) /\ CountBelow(S, x) < i + size}
           n == Cardinality(S)
<1>1. page \in SUBSET S /\ n \in Nat /\ \A x \in S : CountBelow(S, x) \in 0..(n - 1)
  BY CountBelowType
<1>2. IsFiniteSet(page)
  BY <1>1, FS_Subset
<1>3. Cardinality(page) \in Nat
  BY <1>2, FS_CardinalityType
<1>4. \A x \in page : CountBelow(S, x) \in i..(i + size - 1) /\ CountBelow(S, x) \in i..(n - 1)
  BY <1>1
<1>5. \A a, b \in Int : a <= b => Cardinality(a..b) = b - a + 1
  <2> SUFFICES ASSUME NEW a \in Int, NEW b \in Int, a <= b
               PROVE  Cardinality(a..b) = b - a + 1
    OBVIOUS
  <2>1. Cardinality(a..b) = IF a > b THEN 0 ELSE b - a + 1
    BY FS_Interval
  <2> QED
    BY <2>1
<1>6. page = {} => n <= i
  <2> SUFFICES ASSUME page = {}, i < n PROVE FALSE
    BY <1>1
  <2>1. PICK x \in S : CountBelow(S, x) = i
    BY <1>1, EveryPlace
  <2>2. x \in page
    BY <2>1
  <2> QED
    BY <2>2
<1> HIDE DEF page, n
<1>7. Cardinality(page) <= size
  <2>1. i \in Int /\ i + size - 1 \in Int /\ i <= i + size - 1
    OBVIOUS
  <2>2. Cardinality(page) <= Cardinality(i..(i + size - 1))
    BY <1>1, <1>4, <2>1, NoMoreThanPlaces
  <2>3. Cardinality(i..(i + size - 1)) = size
    BY <1>5, <2>1
  <2> QED
    BY <2>2, <2>3
<1>8. page # {} => i + Cardinality(page) <= n
  <2> SUFFICES ASSUME page # {} PROVE i + Cardinality(page) <= n
    OBVIOUS
  <2>1. i \in Int /\ n - 1 \in Int /\ i <= n - 1
    <3>1. PICK x \in page : TRUE
      OBVIOUS
    <3>2. CountBelow(S, x) \in i..(i + size - 1) /\ CountBelow(S, x) \in i..(n - 1)
      BY <1>4
    <3> QED
      BY <1>1, <3>2
  <2>2. Cardinality(page) <= Cardinality(i..(n - 1))
    BY <1>1, <1>4, <2>1, NoMoreThanPlaces
  <2>3. Cardinality(i..(n - 1)) = n - i
    BY <1>1, <1>5, <2>1
  <2> QED
    BY <1>1, <1>3, <2>2, <2>3
<1> QED
  BY <1>3, <1>6, <1>7, <1>8 DEF page, n

\* One member less: those behind it move up by one place.
LEMMA CountBelowWithout ==
  ASSUME NEW S \in SUBSET Nat, IsFiniteSet(S), NEW x \in S, NEW y
  PROVE  CountBelow(S, y) = CountBelow(S \ {x}, y) + (IF x < y THEN 1 ELSE 0)
<1> DEFINE below == {q \in S : q < y}
<1>1. {q \in S \ {x} : q < y} = below \ {x}
  OBVIOUS
<1>2. below \in SUBSET S /\ (x \in below <=> x < y)
  OBVIOUS
<1>3. IsFiniteSet(below)
  BY <1>2, FS_Subset
<1> HIDE DEF below
<1>4. Cardinality(below \ {x}) = IF x \in below THEN Cardinality(below) - 1 ELSE Cardinality(below)
  BY <1>3, FS_RemoveElement
<1>5. Cardinality(below) \in Nat
  BY <1>3, FS_CardinalityType
<1>6. Cardinality(below) = Cardinality(below \ {x}) + (IF x < y THEN 1 ELSE 0)
  BY <1>2, <1>4, <1>5
<1> QED
  BY <1>1, <1>6 DEF CountBelow, below

\* More members: nobody moves up.
LEMMA CountBelowMonotone ==
  ASSUME NEW S \in SUBSET Nat, IsFiniteSet(S), NEW T \in SUBSET S, NEW y
  PROVE  CountBelow(T, y) <= CountBelow(S, y)
<1>1. {q \in T : q < y} \subseteq {q \in S : q < y}
  OBVIOUS
<1>2. IsFiniteSet({q \in S : q < y})
  BY FS_Subset, {q \in S : q < y} \subseteq S
<1> QED
  BY <1>1, <1>2, FS_Subset DEF CountBelow

-----------------------------------------------------------------------------
(* The inductive invariant *)

\* A record's version reaches the index within the lag, and the index never goes back.
LagInv == \A r \in Records :
    /\ shown[r] <= changed[r]
    /\ shown[r] # changed[r] => now <= changed[r] + Lag

\* Between runs there is nothing of a run.
IdleInv == at = "idle" => index = 0 /\ batch = NoRecords /\ skipped = {}

\* The window of a run connects to the cursor, unless it is the first or the widest.
WindowInv == at # "idle" /\ cursor # 0 =>
    from = cursor - Overlap \/ to - (cursor - Overlap) > MaxWindow

\* A collected version is one of the window, and not ahead of the index.
BatchInv == \A r \in Records : batch[r] # 0 => from <= batch[r] /\ batch[r] <= shown[r]

\* A result needs no further page: the run has its version, has counted it among those
\* that slid over the offset, or saw it in the window only within the lag.
Settled(r) == batch[r] = shown[r] \/ r \in skipped \/ to <= shown[r] + Lag

\* What lies before startIndex is settled, and after the last page everything is.
PagedInv == at # "idle" =>
    \A r \in Results : at = "commit" \/ Rank(r) < index => Settled(r)

IInv == TypeOK /\ LagInv /\ IdleInv /\ WindowInv /\ BatchInv /\ PagedInv

LEMMA RankFacts ==
  ASSUME NEW r
  PROVE  /\ Rank(r) = CountBelow(Results, r)
         /\ Results \in SUBSET Records /\ Results \in SUBSET Nat /\ IsFiniteSet(Results)
         /\ Cardinality(Results) \in Nat /\ Cardinality(Results) <= Cardinality(Records)
<1>1. Results \in SUBSET Records
  BY DEF Results
<1>2. IsFiniteSet(Results) /\ Cardinality(Results) <= Cardinality(Records)
  BY <1>1, RecordsAssumption, FS_Subset
<1> QED
  BY <1>1, <1>2, RecordsAssumption, FS_CardinalityType DEF Rank, CountBelow

LEMMA Initially == Init => IInv
<1> SUFFICES ASSUME Init PROVE IInv
  OBVIOUS
<1>1. Cardinality(Records) \in Nat
  BY RecordsAssumption, FS_CardinalityType
<1>2. /\ changed \in [Records -> 0..now] /\ shown = changed /\ now \in Nat
      /\ NoRecords \in [Records -> 0..now]
  BY LimitsAssumption DEF Init, NoRecords
<1>3. TypeOK
  BY <1>1, <1>2, PagesAssumption DEF Init, Idle, TypeOK
<1>4. LagInv /\ IdleInv /\ WindowInv /\ BatchInv /\ PagedInv
  BY <1>2 DEF Init, Idle, LagInv, IdleInv, WindowInv, BatchInv, PagedInv, NoRecords
<1> QED
  BY <1>3, <1>4 DEF IInv

-----------------------------------------------------------------------------
(* A run *)

LEMMA WindowType ==
  ASSUME TypeOK
  PROVE  /\ WindowStart \in Int
         /\ cursor # 0 => \/ WindowStart = cursor - Overlap
                          \/ now - (cursor - Overlap) > MaxWindow
  BY WindowAssumption DEF TypeOK, WindowStart

LEMMA BeginKeepsIInv ==
  ASSUME IInv, Begin
  PROVE  IInv'
<1> USE DEF IInv
<1>1. /\ at = "idle" /\ at' = "paging" /\ from' = WindowStart /\ to' = now
      /\ UNCHANGED <<now, changed, shown, changes, stored, cursor, horizon, hidden, index, pages,
                     batch, skipped, failures>>
  BY DEF Begin, api, disk
<1>2. index' = 0 /\ batch' = NoRecords
  BY <1>1 DEF IdleInv
<1>3. TypeOK'
  BY <1>1, WindowType DEF TypeOK
<1>4. WindowInv'
  BY <1>1, WindowType DEF WindowInv
<1>5. BatchInv'
  BY <1>2 DEF BatchInv, NoRecords
<1>6. PagedInv'
  <2> SUFFICES ASSUME NEW r \in Results', Rank(r)' < 0 PROVE FALSE
    BY <1>1, <1>2 DEF PagedInv
  <2>1. Results' \in SUBSET Nat /\ IsFiniteSet(Results')
    <3>1. Results' \in SUBSET Records
      BY DEF Results
    <3> QED
      BY <3>1, RecordsAssumption, FS_Subset
  <2>2. Rank(r)' \in Nat
    BY <2>1, CountBelowType DEF Rank, CountBelow
  <2> QED
    BY <2>2
<1> QED
  BY <1>1, <1>3, <1>4, <1>5, <1>6 DEF LagInv, IdleInv

LEMMA FetchKeepsIInv ==
  ASSUME IInv, FetchPage
  PROVE  IInv'
<1> USE DEF IInv
<1>1. /\ at = "paging" /\ pages < PageLimit /\ pages' = pages + 1
      /\ batch' = [r \in Records |-> IF r \in Page THEN shown[r] ELSE batch[r]]
      /\ index' = index + Cardinality(Page)
      /\ at' = IF Page = {} \/ index' >= Cardinality(Results) THEN "commit" ELSE "paging"
      /\ UNCHANGED <<now, changed, shown, changes, stored, cursor, horizon, hidden, from, to,
                     skipped, failures>>
  BY DEF FetchPage, api, disk
<1>2. Results' = Results /\ \A r : Rank(r)' = Rank(r)
  BY <1>1 DEF Results, Rank
<1>3. /\ Cardinality(Page) \in 0..PageSize
      /\ Page # {} => index + Cardinality(Page) <= Cardinality(Results)
      /\ Page = {} => Cardinality(Results) <= index
  <2>1. Page = {r \in Results : index <= CountBelow(Results, r)
                                  /\ CountBelow(Results, r) < index + PageSize}
    BY RankFacts DEF Page
  <2>2. index \in Nat /\ PageSize \in Nat \ {0}
    BY PagesAssumption, RankFacts, FS_CardinalityType, RecordsAssumption DEF TypeOK
  <2> QED
    BY <2>1, <2>2, RankFacts, PageLength
<1>4. /\ index \in Nat /\ Cardinality(Results) \in Nat /\ Cardinality(Records) \in Nat
      /\ Cardinality(Results) <= Cardinality(Records) /\ index <= Cardinality(Records)
  BY RankFacts, RecordsAssumption, FS_CardinalityType DEF TypeOK
<1>5. \A r \in Results : Rank(r) \in Nat /\ Rank(r) < Cardinality(Results)
  BY RankFacts, CountBelowType
<1>6. \A r \in Page : r \in Results /\ shown[r] # 0 /\ from <= shown[r] /\ shown[r] \in 0..now
  BY DEF Page, Results, TypeOK
<1>7. index' \in 0..Cardinality(Records)
  <2>1. CASE Page = {}
    BY <1>1, <1>4, <2>1, FS_EmptySet
  <2>2. CASE Page # {}
    BY <1>1, <1>3, <1>4, <2>2
  <2> QED
    BY <2>1, <2>2
<1>8. TypeOK'
  <2>1. batch' \in [Records -> 0..now]
    BY <1>1, <1>6 DEF TypeOK
  <2>2. pages' \in 0..PageLimit
    BY <1>1, PagesAssumption DEF TypeOK
  <2> QED
    BY <1>1, <1>7, <2>1, <2>2 DEF TypeOK
<1>9. BatchInv'
  BY <1>1, <1>6 DEF BatchInv, TypeOK
<1>10. PagedInv'
  <2> SUFFICES ASSUME NEW r \in Results, at' = "commit" \/ Rank(r) < index'
               PROVE  batch'[r] = shown[r] \/ r \in skipped \/ to <= shown[r] + Lag
    BY <1>1, <1>2 DEF PagedInv, Settled
  <2>1. r \in Records
    BY RankFacts
  <2>2. Rank(r) < index'
    BY <1>1, <1>3, <1>4, <1>5, FS_EmptySet
  <2>3. CASE Rank(r) < index
    BY <1>1, <2>1, <2>3 DEF PagedInv, Settled
  <2>4. CASE ~(Rank(r) < index)
    <3>1. r \in Page
      BY <1>1, <1>3, <1>4, <1>5, <2>2, <2>4, PagesAssumption DEF Page
    <3> QED
      BY <1>1, <2>1, <3>1
  <2> QED
    BY <2>3, <2>4
<1>11. at' \in {"paging", "commit"}
  BY <1>1
<1> QED
  BY <1>1, <1>8, <1>9, <1>10, <1>11 DEF LagInv, IdleInv, WindowInv

\* Ending a run, with or without a commit.
LEMMA StopKeepsIInv ==
  ASSUME IInv, Stop, UNCHANGED <<now, api>>, failures' \in Nat,
         stored' \in [Records -> 0..now], cursor' \in 0..now, horizon' \in Int,
         hidden' \subseteq Records
  PROVE  IInv'
<1> USE DEF IInv
<1>1. /\ at' = "idle" /\ from' = 0 /\ to' = 0 /\ index' = 0 /\ pages' = 0
      /\ batch' = NoRecords /\ skipped' = {}
      /\ UNCHANGED <<now, changed, shown, changes>>
  BY DEF Stop, api
<1>2. Cardinality(Records) \in Nat /\ PageLimit \in Nat
  BY RecordsAssumption, PagesAssumption, FS_CardinalityType
<1>3. NoRecords \in [Records -> 0..now]
  BY DEF NoRecords, TypeOK
<1>4. TypeOK'
  BY <1>1, <1>2, <1>3 DEF TypeOK
<1> QED
  BY <1>1, <1>4 DEF LagInv, IdleInv, WindowInv, BatchInv, PagedInv, NoRecords

LEMMA CommitKeepsIInv ==
  ASSUME IInv, Commit
  PROVE  IInv'
<1> USE DEF IInv
<1>1. stored' \in [Records -> 0..now]
  BY DEF Commit, TypeOK
<1>2. cursor' \in 0..now /\ horizon' \in Int
  BY DEF Commit, TypeOK
<1>3. hidden' \subseteq Records
  BY DEF Commit, PassedOver, TypeOK
<1> QED
  BY <1>1, <1>2, <1>3, StopKeepsIInv DEF Commit, TypeOK

-----------------------------------------------------------------------------
(* The API and the clock *)

LEMMA ModifyKeepsIInv ==
  ASSUME IInv, NEW r \in Records, Modify(r)
  PROVE  IInv'
<1> USE DEF IInv
<1>1. /\ changed' = [changed EXCEPT ![r] = now] /\ changes' = changes + 1
      /\ UNCHANGED <<now, shown, stored, cursor, horizon, hidden, at, from, to, index, pages,
                     batch, skipped, failures>>
  BY DEF Modify, disk, run
<1>2. TypeOK'
  BY <1>1 DEF TypeOK
<1>3. LagInv'
  BY <1>1, ApiAssumption DEF LagInv, TypeOK
<1>4. Results' = Results /\ \A q : Rank(q)' = Rank(q)
  BY <1>1 DEF Results, Rank
<1> QED
  BY <1>1, <1>2, <1>3, <1>4
  DEF IdleInv, WindowInv, BatchInv, PagedInv, Settled, NoRecords

LEMMA TickKeepsIInv ==
  ASSUME IInv, Tick
  PROVE  IInv'
<1> USE DEF IInv
<1>1. /\ now' = now + 1
      /\ \A r \in Records : shown[r] # changed[r] => now < changed[r] + Lag
      /\ UNCHANGED <<changed, shown, changes, stored, cursor, horizon, hidden, at, from, to,
                     index, pages, batch, skipped, failures>>
  BY DEF Tick, api, disk, run
<1>2. TypeOK'
  BY <1>1 DEF TypeOK
<1>3. LagInv'
  BY <1>1, ApiAssumption DEF LagInv, TypeOK
<1>4. Results' = Results /\ \A q : Rank(q)' = Rank(q)
  BY <1>1 DEF Results, Rank
<1> QED
  BY <1>1, <1>2, <1>3, <1>4
  DEF IdleInv, WindowInv, BatchInv, PagedInv, Settled, NoRecords

\* What the index shows of a record now was not in it a lag ago.
LEMMA PublishedLate ==
  ASSUME IInv, NEW r \in Records, Publish(r)
  PROVE  /\ shown' = [shown EXCEPT ![r] = changed[r]]
         /\ shown[r] < changed[r] /\ now <= changed[r] + Lag
         /\ shown'[r] = changed[r] /\ \A q \in Records \ {r} : shown'[q] = shown[q]
         /\ shown' \in [Records -> 0..now]
         /\ UNCHANGED <<now, changed, changes, stored, cursor, horizon, hidden, at, from, to,
                        index, pages, batch, failures>>
  BY DEF Publish, disk, IInv, LagInv, TypeOK

\* An offset stays right while the results change under it, but for the record that
\* slides over it.
LEMMA PublishKeepsPagedInv ==
  ASSUME IInv, NEW r \in Records, Publish(r)
  PROVE  PagedInv'
<1> USE DEF IInv
<1>1. /\ shown[r] < changed[r] /\ now <= changed[r] + Lag
      /\ shown'[r] = changed[r] /\ \A q \in Records \ {r} : shown'[q] = shown[q]
      /\ UNCHANGED <<now, at, from, to, index, batch>>
  BY PublishedLate
<1>2. /\ skipped \subseteq skipped'
      /\ Slides(r) => {q \in Results : Rank(q) = index} \subseteq skipped'
  BY DEF Publish
<1>3. \A q \in Records \ {r} : q \in Results' <=> q \in Results
  BY <1>1 DEF Results
<1>4. Results' \in SUBSET Records /\ Results \in SUBSET Records
  BY DEF Results
<1>5. Results' \in SUBSET Nat /\ IsFiniteSet(Results')
  BY <1>4, RecordsAssumption, FS_Subset
<1>6. \A q : Rank(q)' = CountBelow(Results', q)
  BY DEF Rank, CountBelow
<1>7. \A q : Rank(q)' \in Nat /\ Rank(q) \in Nat
  BY <1>5, <1>6, RankFacts, CountBelowType
<1>8. index \in Nat
  BY RecordsAssumption, FS_CardinalityType DEF TypeOK
<1> SUFFICES ASSUME at # "idle", NEW q \in Results', at = "commit" \/ Rank(q)' < index
             PROVE  batch[q] = shown'[q] \/ q \in skipped' \/ to <= shown'[q] + Lag
  BY <1>1 DEF PagedInv, Settled
<1>9. CASE q = r
  BY <1>1, <1>9, ApiAssumption DEF TypeOK
<1>10. CASE q # r
  <2>1. q \in Results /\ q \in Records /\ shown'[q] = shown[q]
    BY <1>1, <1>3, <1>4, <1>10
  <2>2. CASE at = "commit" \/ Rank(q) < index
    BY <1>2, <2>1, <2>2 DEF PagedInv, Settled
  <2>3. CASE at # "commit" /\ ~(Rank(q) < index)
    <3>1. at = "paging" /\ Rank(q)' < Rank(q) /\ Rank(q)' < index
      BY <1>7, <1>8, <2>3 DEF TypeOK
    <3>2. r \in Results /\ r \notin Results'
      <4> SUFFICES ASSUME r \in Results' \/ r \notin Results PROVE FALSE
        OBVIOUS
      <4>1. Results \in SUBSET Results'
        BY <1>3, <1>4
      <4>2. Rank(q) <= Rank(q)'
        BY <1>5, <1>6, <4>1, RankFacts, CountBelowMonotone
      <4> QED
        BY <1>7, <3>1, <4>2
    <3>3. Results' = Results \ {r}
      BY <1>3, <1>4, <3>2
    <3>4. Rank(q) = Rank(q)' + (IF r < q THEN 1 ELSE 0)
      BY <1>6, <3>2, <3>3, RankFacts, CountBelowWithout
    <3>5. r < q /\ Rank(q) = index
      BY <1>7, <1>8, <2>3, <3>1, <3>4
    <3>6. Rank(r) < Rank(q)
      BY <2>1, <3>2, <3>5, RankFacts, CountBelowGrows
    <3>7. changed[r] > to
      BY <1>1, <3>2 DEF Results, TypeOK
    <3>8. Slides(r)
      BY <3>1, <3>2, <3>5, <3>6, <3>7 DEF Slides
    <3> QED
      BY <1>2, <2>1, <3>5, <3>8
  <2> QED
    BY <2>2, <2>3
<1> QED
  BY <1>9, <1>10

LEMMA PublishKeepsIInv ==
  ASSUME IInv, NEW r \in Records, Publish(r)
  PROVE  IInv'
<1> USE DEF IInv
<1>1. /\ shown[r] < changed[r] /\ shown'[r] = changed[r]
      /\ \A q \in Records \ {r} : shown'[q] = shown[q]
      /\ shown' \in [Records -> 0..now]
      /\ UNCHANGED <<now, changed, changes, stored, cursor, horizon, hidden, at, from, to,
                     index, pages, batch, failures>>
  BY PublishedLate
<1>2. skipped' \subseteq Records /\ (at = "idle" => skipped' = skipped)
  BY DEF Publish, Slides, Results, TypeOK
<1>3. TypeOK'
  BY <1>1, <1>2 DEF TypeOK
<1>4. LagInv'
  BY <1>1 DEF LagInv, TypeOK
<1>5. BatchInv'
  BY <1>1 DEF BatchInv, TypeOK
<1>6. IdleInv' /\ WindowInv'
  BY <1>1, <1>2 DEF IdleInv, WindowInv, NoRecords
<1>7. PagedInv'
  BY PublishKeepsPagedInv
<1> QED
  BY <1>3, <1>4, <1>5, <1>6, <1>7

LEMMA NextKeepsIInv == IInv /\ [Next]_vars => IInv'
<1> SUFFICES ASSUME IInv, [Next]_vars PROVE IInv'
  OBVIOUS
<1>1. CASE Begin
  BY <1>1, BeginKeepsIInv
<1>2. CASE FetchPage
  BY <1>2, FetchKeepsIInv
<1>3. CASE PageLimitReached
  BY <1>3, StopKeepsIInv DEF PageLimitReached, disk, IInv, TypeOK
<1>4. CASE Commit
  BY <1>4, CommitKeepsIInv
<1>5. CASE Fail
  BY <1>5, StopKeepsIInv DEF Fail, disk, IInv, TypeOK
<1>6. CASE \E r \in Records : Modify(r) \/ Publish(r)
  BY <1>6, ModifyKeepsIInv, PublishKeepsIInv
<1>7. CASE Tick
  BY <1>7, TickKeepsIInv
<1>8. CASE UNCHANGED vars
  <2>1. UNCHANGED <<now, changed, shown, changes, stored, cursor, horizon, hidden, at, from, to,
                    index, pages, batch, skipped, failures>>
    BY <1>8 DEF vars, api, disk, run
  <2>2. Results' = Results /\ \A q : Rank(q)' = Rank(q)
    BY <2>1 DEF Results, Rank
  <2> QED
    BY <2>1, <2>2
    DEF IInv, TypeOK, LagInv, IdleInv, WindowInv, BatchInv, PagedInv, Settled, NoRecords
<1> QED
  BY <1>1, <1>2, <1>3, <1>4, <1>5, <1>6, <1>7, <1>8 DEF Next, Run

LEMMA Invariance == Spec => []IInv
  BY Initially, NextKeepsIInv, PTL DEF Spec

-----------------------------------------------------------------------------
(* What the cursor stands for *)

\* A commit brings every record that its window or an earlier one owes.
LEMMA CommitLeavesNoGap ==
  ASSUME Lag <= Overlap, IInv, NoGap, Commit
  PROVE  NoGap'
<1> USE DEF IInv
<1>1. /\ at = "commit" /\ cursor' = to /\ hidden' = PassedOver /\ shown' = shown
      /\ stored' = [r \in Records |-> IF batch[r] # 0 THEN batch[r] ELSE stored[r]]
      /\ horizon' = IF cursor = 0 \/ from > cursor - Overlap THEN from ELSE horizon
  BY DEF Commit, api
<1> SUFFICES ASSUME NEW r \in Records, r \notin PassedOver, shown[r] # 0,
                    horizon' <= shown[r], shown[r] + Overlap < to
             PROVE  stored'[r] >= shown[r]
  BY <1>1 DEF NoGap
<1>2. /\ shown[r] \in Nat /\ stored[r] \in Nat /\ batch[r] \in Nat /\ Overlap \in Nat
      /\ Lag \in Nat /\ from \in Int /\ to \in Nat /\ cursor \in Nat /\ horizon \in Int
  BY WindowAssumption, ApiAssumption DEF TypeOK
<1>3. batch[r] # 0 => from <= batch[r] /\ batch[r] <= shown[r]
  BY DEF BatchInv
<1>4. stored'[r] = IF batch[r] # 0 THEN batch[r] ELSE stored[r]
  BY <1>1
<1>5. CASE shown[r] < from
  <2>1. cursor # 0 /\ ~(from > cursor - Overlap) /\ horizon' = horizon
    BY <1>1, <1>2, <1>5
  <2>2. batch[r] = 0
    BY <1>2, <1>3, <1>5
  <2>3. r \notin hidden
    BY <2>2 DEF PassedOver
  <2>4. shown[r] + Overlap < cursor
    BY <1>2, <1>5, <2>1
  <2>5. stored[r] >= shown[r]
    BY <2>1, <2>3, <2>4 DEF NoGap
  <2> QED
    BY <1>4, <2>2, <2>5
<1>6. CASE from <= shown[r]
  <2>1. r \in Results
    BY <1>2, <1>6 DEF Results
  <2>2. batch[r] = shown[r] \/ r \in skipped \/ to <= shown[r] + Lag
    BY <1>1, <2>1 DEF PagedInv, Settled
  <2>3. ~(to <= shown[r] + Lag)
    BY <1>2
  <2>4. r \in skipped => ~(batch[r] < shown[r])
    BY DEF PassedOver
  <2>5. batch[r] = shown[r]
    BY <1>2, <1>3, <2>2, <2>3, <2>4
  <2> QED
    BY <1>2, <1>4, <2>5
<1> QED
  BY <1>2, <1>5, <1>6

LEMMA NextLeavesNoGap ==
  ASSUME Lag <= Overlap, IInv, NoGap, [Next]_vars
  PROVE  NoGap'
<1>1. CASE Commit
  BY <1>1, CommitLeavesNoGap
<1>2. CASE \E r \in Records : Publish(r)
  <2>1. PICK r \in Records : Publish(r)
    BY <1>2
  <2>2. /\ now <= changed[r] + Lag /\ shown'[r] = changed[r]
        /\ \A q \in Records \ {r} : shown'[q] = shown[q]
        /\ UNCHANGED <<stored, cursor, horizon, hidden>>
    BY <2>1, PublishedLate
  <2>3. ~(shown'[r] + Overlap < cursor)
    BY <2>2, WindowAssumption, ApiAssumption DEF IInv, TypeOK
  <2> QED
    BY <2>2, <2>3 DEF NoGap
<1>3. CASE UNCHANGED <<shown, stored, cursor, horizon, hidden>>
  BY <1>3 DEF NoGap
<1>4. \/ Commit \/ \E r \in Records : Publish(r)
      \/ UNCHANGED <<shown, stored, cursor, horizon, hidden>>
  BY DEF Next, Run, Begin, FetchPage, PageLimitReached, Fail, Modify, Tick, vars, api, disk
<1> QED
  BY <1>1, <1>2, <1>3, <1>4

-----------------------------------------------------------------------------
(* What the offset costs *)

\* The modifications that the index does not show yet.
Pending == {r \in Records : shown[r] # changed[r]}

\* A record is passed over for one that was modified, and each modification is
\* published once.
MissInv == Cardinality(skipped \cup hidden) + Cardinality(Pending) <= changes

LEMMA RecordsCounted ==
  ASSUME NEW S, S \subseteq Records
  PROVE  /\ IsFiniteSet(S) /\ Cardinality(S) \in Nat
         /\ \A T \in SUBSET S : Cardinality(T) <= Cardinality(S)
         /\ \A r : Cardinality(S \cup {r}) <= Cardinality(S) + 1
         /\ \A r \in S : Cardinality(S \ {r}) = Cardinality(S) - 1
<1>1. IsFiniteSet(S)
  BY RecordsAssumption, FS_Subset
<1>2. Cardinality(S) \in Nat
  BY <1>1, FS_CardinalityType
<1>3. \A T \in SUBSET S : Cardinality(T) <= Cardinality(S)
  BY <1>1, FS_Subset
<1>4. ASSUME NEW r
      PROVE  /\ Cardinality(S \cup {r}) <= Cardinality(S) + 1
             /\ r \in S => Cardinality(S \ {r}) = Cardinality(S) - 1
  <2>1. Cardinality(S \cup {r}) = IF r \in S THEN Cardinality(S) ELSE Cardinality(S) + 1
    BY <1>1, FS_AddElement
  <2>2. r \in S => Cardinality(S \ {r}) = Cardinality(S) - 1
    BY <1>1, FS_RemoveElement
  <2> QED
    BY <1>2, <2>1, <2>2
<1> QED
  BY <1>1, <1>2, <1>3, <1>4

\* At most one record slides over the offset when one leaves the results.
LEMMA OneSlides ==
  ASSUME TypeOK, NEW q \in Results, NEW p \in Results, Rank(q) = index, Rank(p) = index
  PROVE  q = p
<1>1. q \in Nat /\ p \in Nat
  BY RankFacts
<1>2. q < p => Rank(q) < Rank(p)
  BY RankFacts, CountBelowGrows
<1>3. p < q => Rank(p) < Rank(q)
  BY RankFacts, CountBelowGrows
<1>4. Rank(q) \in Nat /\ Rank(p) \in Nat
  BY RankFacts, CountBelowType
<1> QED
  BY <1>1, <1>2, <1>3, <1>4

LEMMA PublishKeepsMissInv ==
  ASSUME IInv, MissInv, NEW r \in Records, Publish(r)
  PROVE  MissInv'
<1> USE DEF IInv
<1>1. /\ shown[r] < changed[r] /\ shown'[r] = changed[r]
      /\ \A q \in Records \ {r} : shown'[q] = shown[q]
      /\ UNCHANGED <<changed, changes, hidden>>
  BY PublishedLate
<1>2. r \in Pending /\ Pending' = Pending \ {r} /\ Pending \subseteq Records
  BY <1>1 DEF Pending, Publish
<1>3. skipped' \cup hidden' \subseteq Records /\ skipped \cup hidden \subseteq Records
  BY DEF TypeOK, Publish, disk, Results
<1>4. \E q : skipped' \cup hidden' \subseteq (skipped \cup hidden) \cup {q}
  <2>1. CASE \E q \in Results : Rank(q) = index
    <3>1. PICK q \in Results : Rank(q) = index
      BY <2>1
    <3>2. {p \in Results : Rank(p) = index} \subseteq {q}
      BY <3>1, OneSlides
    <3> QED
      BY <1>1, <3>2 DEF Publish
  <2>2. CASE ~ \E q \in Results : Rank(q) = index
    BY <1>1, <2>2 DEF Publish
  <2> QED
    BY <2>1, <2>2
<1>5. Cardinality(skipped' \cup hidden') <= Cardinality(skipped \cup hidden) + 1
  <2>1. PICK q : skipped' \cup hidden' \subseteq (skipped \cup hidden) \cup {q}
    BY <1>4
  <2> DEFINE old == skipped \cup hidden
             new == skipped' \cup hidden'
  <2>2. IsFiniteSet(old) /\ Cardinality(old) \in Nat /\ Cardinality(old \cup {q}) <= Cardinality(old) + 1
    BY <1>3, RecordsCounted
  <2>3. IsFiniteSet(old \cup {q}) /\ Cardinality(old \cup {q}) \in Nat
    BY <2>2, FS_AddElement, FS_CardinalityType
  <2>4. Cardinality(new) <= Cardinality(old \cup {q})
    BY <2>1, <2>3, FS_Subset
  <2>5. Cardinality(new) \in Nat
    BY <1>3, RecordsCounted
  <2> QED
    BY <2>2, <2>3, <2>4, <2>5
<1>6. Cardinality(Pending') = Cardinality(Pending) - 1 /\ Cardinality(Pending) \in Nat
  BY <1>2, RecordsCounted
<1>7. Cardinality(skipped \cup hidden) \in Nat /\ Cardinality(skipped' \cup hidden') \in Nat
  BY <1>3, RecordsCounted
<1>8. changes' = changes /\ changes \in Nat
  BY <1>1 DEF TypeOK
<1> QED
  BY <1>5, <1>6, <1>7, <1>8 DEF MissInv

LEMMA NextKeepsMissInv ==
  ASSUME IInv, MissInv, [Next]_vars
  PROVE  MissInv'
<1> USE DEF IInv
<1>1. CASE \E r \in Records : Publish(r)
  BY <1>1, PublishKeepsMissInv
<1>2. Pending \subseteq Records /\ skipped \cup hidden \subseteq Records
  BY DEF Pending, TypeOK
<1>3. /\ Cardinality(Pending) \in Nat /\ Cardinality(skipped \cup hidden) \in Nat
      /\ changes \in Nat
  BY <1>2, RecordsCounted DEF TypeOK
<1>4. CASE \E r \in Records : Modify(r)
  <2>1. PICK r \in Records : Modify(r)
    BY <1>4
  <2>2. changes' = changes + 1 /\ UNCHANGED <<shown, skipped, hidden>>
    BY <2>1 DEF Modify, disk, run
  <2>3. Pending' \subseteq Pending \cup {r}
    BY <2>1 DEF Pending, Modify, TypeOK
  <2>4. Pending \cup {r} \subseteq Records
    BY <1>2
  <2>5. /\ Cardinality(Pending') <= Cardinality(Pending \cup {r})
        /\ Cardinality(Pending \cup {r}) <= Cardinality(Pending) + 1
        /\ Cardinality(Pending \cup {r}) \in Nat /\ Cardinality(Pending') \in Nat
    BY <1>2, <2>3, <2>4, RecordsCounted
  <2> QED
    BY <1>3, <2>2, <2>5 DEF MissInv
<1>5. CASE UNCHANGED <<changed, shown, changes>> /\ skipped' \cup hidden' \subseteq skipped \cup hidden
  <2>1. Pending' = Pending
    BY <1>5 DEF Pending
  <2>2. Cardinality(skipped' \cup hidden') <= Cardinality(skipped \cup hidden)
    BY <1>2, <1>5, RecordsCounted
  <2>3. Cardinality(skipped' \cup hidden') \in Nat
    BY <1>2, <1>5, RecordsCounted
  <2> QED
    BY <1>3, <1>5, <2>1, <2>2, <2>3 DEF MissInv
<1>6. \/ \E r \in Records : Publish(r) \/ Modify(r)
      \/ UNCHANGED <<changed, shown, changes>> /\ skipped' \cup hidden' \subseteq skipped \cup hidden
  BY DEF Next, Run, Begin, FetchPage, PageLimitReached, Fail, Commit, PassedOver, Stop, Tick,
         vars, api, disk, run
<1> QED
  BY <1>1, <1>4, <1>5, <1>6

-----------------------------------------------------------------------------
(* Theorems *)

\* startIndex stays within the records whatever the API publishes between two pages,
\* the pages within their limit, and the cursor within the clock.
THEOREM TypeCorrect == Spec => []TypeOK
<1>1. IInv => TypeOK
  BY DEF IInv
<1> QED
  BY <1>1, Invariance, PTL

\* If the overlap covers the lag of the API's index, the cursor never passes a record
\* that the database lacks, but for those that the offset has passed over: not when a
\* run fails, stops at the page limit or dies, and not when records come, go and are
\* modified again between two pages.
THEOREM CursorLeavesNoGap ==
  ASSUME Lag <= Overlap
  PROVE  Spec => []NoGap
<1>1. Init => NoGap
  BY WindowAssumption, LimitsAssumption DEF Init, NoGap
<1>2. IInv /\ NoGap /\ [Next]_vars => NoGap'
  BY NextLeavesNoGap
<1> QED
  BY <1>1, <1>2, Invariance, PTL DEF Spec

\* Only the first run and an outage longer than the widest window of the API move the
\* horizon behind which records may be missing.
THEOREM OutageMovesHorizon == Spec => HorizonMovesOnlyAfterOutage
<1> DEFINE Step == horizon' # horizon => cursor = 0 \/ cursor' - (cursor - Overlap) > MaxWindow
<1>1. IInv /\ [Next]_vars => [Step]_vars
  <2> SUFFICES ASSUME IInv, Next, horizon' # horizon, cursor # 0
               PROVE  cursor' - (cursor - Overlap) > MaxWindow
    OBVIOUS
  <2>1. Commit
    BY DEF Next, Run, Begin, FetchPage, PageLimitReached, Fail, Modify, Publish, Tick, disk
  <2>2. cursor' = to /\ from > cursor - Overlap /\ at # "idle"
    BY <2>1 DEF Commit
  <2>3. from = cursor - Overlap \/ to - (cursor - Overlap) > MaxWindow
    BY <2>2 DEF IInv, WindowInv
  <2>4. from \in Int /\ cursor \in Int /\ Overlap \in Int
    BY WindowAssumption DEF IInv, TypeOK
  <2> QED
    BY <2>2, <2>3, <2>4
<1> QED
  BY <1>1, Invariance, PTL DEF Spec, HorizonMovesOnlyAfterOutage

\* The exception of NoGap is no escape: however many pages a window has and however the
\* records move in it, no more of them are passed over than modifications were made.
THEOREM OneMissPerModification == Spec => [](Cardinality(hidden) <= changes)
<1>1. Init => MissInv
  <2> SUFFICES ASSUME Init PROVE MissInv
    OBVIOUS
  <2>1. Pending = {} /\ skipped \cup hidden = {} /\ changes = 0
    BY DEF Init, Idle, Pending
  <2> QED
    BY <2>1, FS_EmptySet DEF MissInv
<1>2. IInv /\ MissInv /\ [Next]_vars => MissInv'
  BY NextKeepsMissInv
<1>3. IInv /\ MissInv => Cardinality(hidden) <= changes
  <2> SUFFICES ASSUME IInv, MissInv PROVE Cardinality(hidden) <= changes
    OBVIOUS
  <2>1. /\ Cardinality(hidden) <= Cardinality(skipped \cup hidden)
        /\ Cardinality(hidden) \in Nat /\ Cardinality(skipped \cup hidden) \in Nat
        /\ Cardinality(Pending) \in Nat /\ changes \in Nat
    BY RecordsCounted DEF IInv, TypeOK, Pending
  <2> QED
    BY <2>1 DEF MissInv
<1> QED
  BY <1>1, <1>2, <1>3, Invariance, PTL DEF Spec
=============================================================================
