--------------------------- MODULE DashboardProofs ---------------------------
(***************************************************************************)
(* Proofs about Dashboard for every set of filters, every length of a walk *)
(* and every number of requests on their way: the list is one walk through *)
(* the filter of the form, and the flag of a load is never left behind.    *)
(***************************************************************************)
EXTENDS Dashboard, FiniteSetTheorems, FunctionTheorems, TLAPS

\* A cursor of the filter that the form shows, or none.
Ours(c) == c # None => c.filter = wanted

\* The request whose answer will be shown.
CurrentInv ==
    \A r \in requests : r.id = controller =>
        /\ ~typing => r.filter = wanted /\ Ours(r.cursor)
        /\ r.kind = "append" => r.cursor = cursor /\ (feed # <<>> => cursor # None)
        /\ r.kind # "append" => r.cursor = None

\* Until the search is started the form may be ahead of the list.
FilterInv ==
    ~typing =>
        /\ Ours(cursor)
        /\ \A n \in DOMAIN feed : feed[n].filter = wanted /\ Ours(feed[n].cursor)

\* Each page follows its predecessor, and the cursor the last one.
OrderInv ==
    /\ \A n \in DOMAIN feed :
          /\ n > 1 => PageOf(feed[n].cursor) = PageOf(feed[n - 1].cursor) + 1
          /\ n = 1 /\ ~failed => feed[n].cursor = None
    /\ feed # <<>> =>
          /\ more <=> cursor # None
          /\ cursor # None => PageOf(cursor) = PageOf(feed[Len(feed)].cursor) + 1
    /\ feed = <<>> /\ ~failed => cursor = None

IInv ==
    /\ TypeOK /\ IsFiniteSet(requests)
    /\ LoadingIsBacked /\ CurrentInv /\ FilterInv /\ OrderInv

-----------------------------------------------------------------------------
(* Helpers *)

LEMMA PageOfType ==
  ASSUME NEW c \in Cursors \cup {None}
  PROVE  PageOf(c) \in 1..MaxPages
  BY NoneAssumption, BoundsAssumption DEF Cursors, PageOf

\* There are more identifiers than requests on their way.
LEMMA FreshIdIsFresh ==
  ASSUME IsFiniteSet(requests), Cardinality(requests) < MaxRequests
  PROVE  FreshId \in 1..MaxRequests + 1 /\ \A r \in requests : r.id # FreshId
<1> USE BoundsAssumption
<1> SUFFICES ASSUME \A id \in 1..MaxRequests + 1 : \E r \in requests : r.id = id
             PROVE  FALSE
  BY DEF FreshId
<1> DEFINE ids == {r.id : r \in requests}
           idOf == [r \in requests |-> r.id]
<1>1. idOf \in Surjection(requests, ids)
  BY DEF Surjection
<1>2. IsFiniteSet(ids) /\ Cardinality(ids) <= Cardinality(requests)
  <2> HIDE DEF ids, idOf
  <2> QED
    BY <1>1, FS_Surjection
<1>3. 1..MaxRequests + 1 \in SUBSET ids
  OBVIOUS
<1> HIDE DEF ids
<1>4. Cardinality(1..MaxRequests + 1) <= Cardinality(ids)
  BY <1>2, <1>3, FS_Subset
<1>5. Cardinality(1..MaxRequests + 1) = MaxRequests + 1
  BY FS_Interval
<1>6. Cardinality(requests) \in Nat /\ Cardinality(ids) \in Nat
  BY <1>2, FS_CardinalityType
<1> QED
  BY <1>2, <1>4, <1>5, <1>6

LEMMA Initially == Init => IInv
<1> SUFFICES ASSUME Init PROVE IInv
  OBVIOUS
<1>1. TypeOK
  <2>1. feed \in Seq(Pages) /\ requests \subseteq Requests /\ polls \subseteq Nat
    BY DEF Init
  <2>2. typing \in BOOLEAN /\ loading \in BOOLEAN /\ failed \in BOOLEAN /\ more \in BOOLEAN
    BY DEF Init
  <2> QED
    BY <2>1, <2>2 DEF Init, TypeOK
<1>2. IsFiniteSet(requests)
  BY FS_EmptySet DEF Init
<1>3. LoadingIsBacked /\ CurrentInv /\ FilterInv /\ OrderInv
  BY DEF Init, LoadingIsBacked, CurrentInv, FilterInv, OrderInv, Ours
<1> QED
  BY <1>1, <1>2, <1>3 DEF IInv

-----------------------------------------------------------------------------
(* A load begins *)

NewRequest(kind, form, from) ==
    [id |-> FreshId, kind |-> kind, filter |-> form,
     cursor |-> IF kind = "append" THEN from ELSE None, since |-> finished]

\* What the start of a load leaves: a request of a controller of its own.
LEMMA BeginFacts ==
  ASSUME IInv, NEW kind \in Kinds, NEW form \in Filters, NEW from \in Cursors \cup {None},
         Begin(kind, form, from), finished' = finished
  PROVE  /\ loading' = TRUE /\ controller' \in Nat /\ more' = more
         /\ requests' \subseteq Requests /\ IsFiniteSet(requests')
         /\ \A r, s \in requests' : r.id = s.id => r = s
         /\ \E r \in requests' : r.id = controller'
         /\ \A r \in requests' : r.id = controller' => r = NewRequest(kind, form, from)
         /\ kind = "replace" => feed' = <<>> /\ failed' = FALSE
         /\ kind # "replace" => UNCHANGED <<feed, failed>>
<1> DEFINE new == NewRequest(kind, form, from)
<1>1. FreshId \in Nat /\ \A r \in requests : r.id # FreshId
  BY FreshIdIsFresh, BoundsAssumption DEF Begin, IInv
<1>2. new \in Requests
  BY <1>1 DEF NewRequest, Requests, IInv, TypeOK
<1>3. requests' = requests \cup {new} /\ controller' = new.id
  BY DEF Begin, NewRequest
<1>4. new.id = FreshId
  BY DEF NewRequest
<1> HIDE DEF new
<1>5. \A r \in requests' : r.id = controller' => r = new
  BY <1>1, <1>3, <1>4
<1>6. IsFiniteSet(requests')
  BY <1>3, FS_AddElement DEF IInv
<1>7. \A r, s \in requests' : r.id = s.id => r = s
  BY <1>1, <1>3, <1>4 DEF IInv, TypeOK
<1> QED
  BY <1>1, <1>2, <1>3, <1>4, <1>5, <1>6, <1>7 DEF Begin, IInv, TypeOK, new

\* A load for the form as it is, from the start or from the cursor.
LEMMA ReplaceKeepsIInv ==
  ASSUME IInv, wanted' \in Filters, typing' \in BOOLEAN, Reset(wanted'),
         UNCHANGED <<polling, finished>>, events' \in Nat, failures' \in Nat
  PROVE  IInv'
<1>1. PICK form \in Filters :
        form = wanted' /\ cursor' = None /\ Begin("replace", form, None)
  BY DEF Reset, Begin
<1>2. /\ loading' = TRUE /\ controller' \in Nat /\ more' = more
      /\ requests' \subseteq Requests /\ IsFiniteSet(requests')
      /\ \A r, s \in requests' : r.id = s.id => r = s
      /\ \E r \in requests' : r.id = controller'
      /\ \A r \in requests' : r.id = controller' =>
            r.kind = "replace" /\ r.filter = wanted' /\ r.cursor = None
      /\ feed' = <<>> /\ failed' = FALSE
  <2>1. \A r \in requests' : r.id = controller' => r = NewRequest("replace", form, None)
    BY <1>1, BeginFacts DEF Kinds
  <2>2. \A r \in requests' : r.id = controller' =>
          r.kind = "replace" /\ r.filter = wanted' /\ r.cursor = None
    BY <1>1, <2>1 DEF NewRequest
  <2> QED
    BY <1>1, <2>2, BeginFacts DEF Kinds
<1>3. TypeOK'
  <2>1. feed' \in Seq(Pages)
    BY <1>2
  <2>2. loading' \in BOOLEAN /\ failed' \in BOOLEAN
    BY <1>2
  <2>3. more' \in BOOLEAN
    BY <1>2, Zenon DEF IInv, TypeOK
  <2> QED
    BY <1>1, <1>2, <2>1, <2>2, <2>3 DEF IInv, TypeOK, polling
<1>4. LoadingIsBacked' /\ CurrentInv' /\ FilterInv' /\ OrderInv'
  BY <1>1, <1>2 DEF LoadingIsBacked, CurrentInv, FilterInv, OrderInv, Ours
<1> QED
  BY <1>2, <1>3, <1>4 DEF IInv

LEMMA ContinueKeepsIInv ==
  ASSUME IInv, NEW kind \in {"append", "background"},
         NEW form \in Filters, NEW from \in Cursors \cup {None},
         form = wanted, from = cursor, Begin(kind, form, from),
         kind = "append" => more,
         UNCHANGED <<wanted, typing, cursor, finished>>, polls' \subseteq Nat,
         lastFinished' \in Nat, events' \in Nat, failures' \in Nat
  PROVE  IInv'
<1>1. kind \in Kinds /\ kind # "replace" /\ finished' = finished
  BY DEF Kinds
<1>2. loading' = TRUE /\ controller' \in Nat /\ more' = more /\ UNCHANGED <<feed, failed>>
  BY <1>1, BeginFacts
<1>3. /\ requests' \subseteq Requests /\ IsFiniteSet(requests')
      /\ \A r, s \in requests' : r.id = s.id => r = s
  BY <1>1, BeginFacts
<1>4. \E r \in requests' : r.id = controller'
  BY <1>1, BeginFacts
<1>5. \A r \in requests' : r.id = controller' =>
        r.kind = kind /\ r.filter = form /\ r.cursor = IF kind = "append" THEN from ELSE None
  <2>1. \A r \in requests' : r.id = controller' => r = NewRequest(kind, form, from)
    BY <1>1, BeginFacts
  <2> QED
    BY <2>1 DEF NewRequest
<1>6. TypeOK'
  BY <1>2, <1>3 DEF IInv, TypeOK
<1>7. CurrentInv'
  BY <1>2, <1>5 DEF IInv, CurrentInv, FilterInv, OrderInv, Ours
<1>8. LoadingIsBacked' /\ FilterInv' /\ OrderInv'
  BY <1>2, <1>4 DEF IInv, LoadingIsBacked, FilterInv, OrderInv, Ours
<1> QED
  BY <1>3, <1>6, <1>7, <1>8 DEF IInv

\* A load that is skipped, or that begins.
LEMMA BeginUnlessLoadingKeepsIInv ==
  ASSUME IInv, BeginUnlessLoading("background"),
         UNCHANGED <<wanted, typing, finished, events, failures>>, polls' \subseteq Nat,
         lastFinished' \in Nat
  PROVE  IInv'
<1>1. CASE UNCHANGED <<load, list>>
  BY <1>1 DEF IInv, TypeOK, LoadingIsBacked, CurrentInv, FilterInv, OrderInv, Ours, load, list
<1>2. CASE Begin("background", wanted, cursor) /\ UNCHANGED cursor
  <2>1. PICK form \in Filters, from \in Cursors \cup {None} :
          form = wanted /\ from = cursor /\ Begin("background", form, from)
    BY <1>2 DEF Begin, IInv, TypeOK
  <2>2. events' \in Nat /\ failures' \in Nat
    BY DEF IInv, TypeOK
  <2> QED
    BY <1>2, <2>1, <2>2, ContinueKeepsIInv
<1> QED
  BY <1>1, <1>2 DEF BeginUnlessLoading

-----------------------------------------------------------------------------
(* A load ends *)

\* Without the request of the current controller the flag is down; another one
\* changes nothing.
LEMMA RequestGone ==
  ASSUME IInv, NEW r \in requests, requests' = requests \ {r}, controller' = controller
  PROVE  /\ requests' \subseteq Requests /\ IsFiniteSet(requests')
         /\ \A q, s \in requests' : q.id = s.id => q = s
         /\ r.id = controller => \A q \in requests' : q.id # controller'
         /\ r.id # controller =>
               ((\E q \in requests' : q.id = controller') <=> (\E q \in requests : q.id = controller))
<1>1. \A q, s \in requests : q.id = s.id => q = s
  BY DEF IInv, TypeOK
<1>2. requests \subseteq Requests /\ IsFiniteSet(requests)
  BY DEF IInv, TypeOK
<1>3. IsFiniteSet(requests')
  BY <1>2, FS_RemoveElement
<1> QED
  BY <1>1, <1>2, <1>3

LEMMA AnswerKeepsIInv ==
  ASSUME IInv, NEW r \in requests, Answer(r)
  PROVE  IInv'
<1>1. /\ r.id = controller /\ Show(r) /\ loading' = FALSE /\ requests' = requests \ {r}
      /\ UNCHANGED <<wanted, typing, controller, polling, finished, events, failures>>
  BY DEF Answer
<1>2. /\ requests' \subseteq Requests /\ IsFiniteSet(requests')
      /\ \A q, s \in requests' : q.id = s.id => q = s
  BY <1>1, RequestGone
<1>3. \A q \in requests' : q.id # controller'
  BY <1>1, RequestGone
<1>4. r \in Requests
  BY DEF IInv, TypeOK
<1>5. PICK table \in r.since..finished, end \in BOOLEAN :
        LET page == [filter |-> r.filter, cursor |-> r.cursor, table |-> table] IN
        /\ feed' = IF r.kind = "append" THEN Append(feed, page) ELSE <<page>>
        /\ failed' = (failed /\ r.kind = "append")
        /\ cursor' = IF end \/ PageOf(r.cursor) = MaxPages THEN None
                     ELSE [filter |-> r.filter, page |-> PageOf(r.cursor) + 1]
        /\ more' = (cursor' # None)
  BY <1>1 DEF Show
<1> DEFINE page == [filter |-> r.filter, cursor |-> r.cursor, table |-> table]
<1>6. /\ feed' = IF r.kind = "append" THEN Append(feed, page) ELSE <<page>>
      /\ failed' = (failed /\ r.kind = "append")
      /\ more' = (cursor' # None)
  BY <1>5
<1>7. page \in Pages /\ page.filter = r.filter /\ page.cursor = r.cursor
  BY <1>4 DEF Requests, Pages, IInv, TypeOK
<1> HIDE DEF page
<1>8. PageOf(r.cursor) \in 1..MaxPages
  BY <1>4, PageOfType DEF Requests
<1>9. cursor' = None \/ /\ cursor' \in Cursors /\ cursor'.filter = r.filter
                        /\ PageOf(cursor') = PageOf(r.cursor) + 1
  <2>1. CASE end \/ PageOf(r.cursor) = MaxPages
    BY <1>5, <2>1
  <2>2. CASE ~(end \/ PageOf(r.cursor) = MaxPages)
    <3>1. cursor' = [filter |-> r.filter, page |-> PageOf(r.cursor) + 1]
      BY <1>5, <2>2
    <3>2. PageOf(r.cursor) + 1 \in 2..MaxPages
      BY <1>8, <2>2, BoundsAssumption
    <3>3. cursor' \in Cursors
      BY <1>4, <3>1, <3>2 DEF Cursors, Requests
    <3>4. cursor' # None
      BY <3>3, NoneAssumption
    <3> QED
      BY <3>1, <3>3, <3>4 DEF PageOf
  <2> QED
    BY <2>1, <2>2
<1>10. feed \in Seq(Pages)
  BY DEF IInv, TypeOK
<1>11. feed' \in Seq(Pages)
  BY <1>6, <1>7, <1>10
<1>12. TypeOK'
  <2>1. failed' \in BOOLEAN /\ more' \in BOOLEAN
    BY <1>6
  <2>2. loading' \in BOOLEAN
    BY <1>1
  <2> QED
    BY <1>1, <1>2, <1>9, <1>11, <2>1, <2>2 DEF IInv, TypeOK, polling
<1>13. /\ feed' # <<>> /\ feed'[Len(feed')] = page /\ Len(feed') \in Nat /\ Len(feed') >= 1
       /\ DOMAIN feed' = 1..Len(feed')
       /\ r.kind # "append" => Len(feed') = 1
       /\ r.kind = "append" => /\ Len(feed') = Len(feed) + 1 /\ Len(feed) \in Nat
                               /\ \A n \in 1..Len(feed) : feed'[n] = feed[n]
  <2>1. CASE r.kind = "append"
    <3>1. feed' = Append(feed, page)
      BY <1>6, <2>1
    <3>2. Len(feed') = Len(feed) + 1 /\ Len(feed) \in Nat /\ DOMAIN feed' = 1..Len(feed')
      BY <1>7, <1>10, <3>1
    <3>3. feed'[Len(feed')] = page /\ \A n \in 1..Len(feed) : feed'[n] = feed[n]
      BY <1>7, <1>10, <3>1
    <3> QED
      BY <2>1, <3>2, <3>3
  <2>2. CASE r.kind # "append"
    <3>1. feed' = <<page>>
      BY <1>6, <2>2
    <3> QED
      BY <2>2, <3>1
  <2> QED
    BY <2>1, <2>2
<1>14. LoadingIsBacked' /\ CurrentInv'
  BY <1>1, <1>3 DEF LoadingIsBacked, CurrentInv
<1>15. FilterInv'
  <2> SUFFICES ASSUME ~typing
               PROVE  /\ Ours(cursor)'
                      /\ \A n \in DOMAIN feed' : feed'[n].filter = wanted /\ Ours(feed'[n].cursor)
    BY <1>1 DEF FilterInv, Ours
  <2>1. r.filter = wanted /\ Ours(r.cursor)
    BY <1>1 DEF IInv, CurrentInv
  <2>2. \A n \in DOMAIN feed : feed[n].filter = wanted /\ Ours(feed[n].cursor)
    BY DEF IInv, FilterInv
  <2>3. DOMAIN feed = 1..Len(feed)
    BY <1>10
  <2>4. Ours(cursor)'
    BY <1>1, <1>9, <2>1 DEF Ours
  <2>5. ASSUME NEW n \in DOMAIN feed'
        PROVE  feed'[n].filter = wanted /\ Ours(feed'[n].cursor)
    <3>1. CASE n = Len(feed')
      BY <1>7, <1>13, <2>1, <3>1
    <3>2. CASE n # Len(feed')
      <4>0. r.kind = "append"
        <5> SUFFICES ASSUME r.kind # "append" PROVE FALSE
          OBVIOUS
        <5>1. Len(feed') = 1 /\ DOMAIN feed' = 1..Len(feed')
          BY <1>13
        <5>2. n \in 1..1
          BY <5>1
        <5> QED
          BY <3>2, <5>1, <5>2
      <4>1. n \in DOMAIN feed /\ feed'[n] = feed[n]
        BY <1>13, <2>3, <3>2, <4>0
      <4> QED
        BY <2>2, <4>1
    <3> QED
      BY <3>1, <3>2
  <2> QED
    BY <2>4, <2>5
<1>16. OrderInv'
  <2>1. CASE r.kind = "append"
    <3>1. r.cursor = cursor /\ (feed # <<>> => cursor # None)
      BY <1>1, <2>1 DEF IInv, CurrentInv
    <3>2. DOMAIN feed = 1..Len(feed) /\ (feed = <<>> <=> Len(feed) = 0)
      BY <1>10
    <3>3. ASSUME NEW n \in DOMAIN feed'
          PROVE  /\ n > 1 => PageOf(feed'[n].cursor) = PageOf(feed'[n - 1].cursor) + 1
                 /\ n = 1 /\ ~failed' => feed'[n].cursor = None
      <4>1. CASE n = Len(feed')
        <5>1. feed'[n].cursor = cursor
          BY <1>7, <1>13, <3>1, <4>1
        <5>2. n > 1 => PageOf(feed'[n].cursor) = PageOf(feed'[n - 1].cursor) + 1
          BY <1>13, <2>1, <3>1, <3>2, <4>1, <5>1 DEF IInv, OrderInv
        <5>3. n = 1 /\ ~failed' => feed'[n].cursor = None
          <6> SUFFICES ASSUME n = 1, ~failed' PROVE cursor = None
            BY <5>1
          <6>1. feed = <<>>
            BY <1>13, <2>1, <3>2, <4>1
          <6>2. ~failed
            BY <1>6, <2>1
          <6> QED
            BY <6>1, <6>2 DEF IInv, OrderInv
        <5> QED
          BY <5>2, <5>3
      <4>2. CASE n # Len(feed')
        <5>1. n \in DOMAIN feed /\ feed'[n] = feed[n]
          BY <1>13, <2>1, <3>2, <4>2
        <5>2. n > 1 => feed'[n - 1] = feed[n - 1]
          BY <1>13, <2>1, <3>2, <5>1
        <5> QED
          BY <1>6, <2>1, <5>1, <5>2 DEF IInv, OrderInv
      <4> QED
        BY <4>1, <4>2
    <3> QED
      BY <1>6, <1>7, <1>9, <1>13, <3>3 DEF OrderInv
  <2>2. CASE r.kind # "append"
    <3>1. r.cursor = None
      BY <1>1, <2>2 DEF IInv, CurrentInv
    <3>2. Len(feed') = 1 /\ DOMAIN feed' = 1..1
      BY <1>13, <2>2
    <3>3. feed'[1].cursor = None
      BY <1>7, <1>13, <2>2, <3>1
    <3>4. more' <=> cursor' # None
      BY <1>6
    <3>5. cursor' # None => PageOf(cursor') = PageOf(feed'[Len(feed')].cursor) + 1
      BY <1>7, <1>9, <1>13
    <3>6. feed' # <<>>
      BY <1>13
    <3>7. \A n \in DOMAIN feed' : n = 1
      BY <3>2
    <3> QED
      BY <3>3, <3>4, <3>5, <3>6, <3>7 DEF OrderInv
  <2> QED
    BY <2>1, <2>2
<1> QED
  BY <1>2, <1>12, <1>14, <1>15, <1>16 DEF IInv

LEMMA FailKeepsIInv ==
  ASSUME IInv, NEW r \in requests, Fail(r)
  PROVE  IInv'
<1>1. /\ r.id = controller /\ loading' = FALSE /\ requests' = requests \ {r}
      /\ failures' = failures + 1
      /\ UNCHANGED <<wanted, typing, cursor, controller, more, polling, finished, events>>
      /\ (UNCHANGED <<feed, failed>>) \/ (feed' = <<>> /\ failed' = TRUE)
  BY DEF Fail
<1>2. /\ requests' \subseteq Requests /\ IsFiniteSet(requests')
      /\ \A q, s \in requests' : q.id = s.id => q = s
      /\ \A q \in requests' : q.id # controller'
  BY <1>1, RequestGone
<1>3. feed' \in Seq(Pages) /\ failures' \in Nat
  <2>1. feed \in Seq(Pages) /\ failures \in Nat
    BY DEF IInv, TypeOK
  <2>2. <<>> \in Seq(Pages)
    OBVIOUS
  <2>3. feed' = feed \/ feed' = <<>>
    BY <1>1
  <2>4. feed' \in Seq(Pages)
    BY <2>1, <2>2, <2>3, Zenon
  <2>5. failures' \in Nat
    BY <1>1, <2>1
  <2> QED
    BY <2>4, <2>5
<1>4. failed' \in BOOLEAN
  BY <1>1, Zenon DEF IInv, TypeOK
<1>5. loading' \in BOOLEAN
  BY <1>1
<1>6. typing' \in BOOLEAN /\ more' \in BOOLEAN
  BY <1>1, Zenon DEF IInv, TypeOK
<1>7. TypeOK'
  BY <1>1, <1>2, <1>3, <1>4, <1>5, <1>6 DEF IInv, TypeOK, polling
<1>8. LoadingIsBacked' /\ CurrentInv'
  BY <1>1, <1>2 DEF LoadingIsBacked, CurrentInv
<1>9. FilterInv' /\ OrderInv'
  BY <1>1 DEF IInv, FilterInv, OrderInv, Ours
<1> QED
  BY <1>2, <1>7, <1>8, <1>9 DEF IInv

LEMMA SupersededKeepsIInv ==
  ASSUME IInv, NEW r \in requests, Superseded(r)
  PROVE  IInv'
<1>1. /\ r.id # controller /\ requests' = requests \ {r}
      /\ UNCHANGED <<wanted, typing, cursor, loading, controller, list, polling, finished,
                     events, failures>>
  BY DEF Superseded
<1>2. /\ requests' \subseteq Requests /\ IsFiniteSet(requests')
      /\ \A q, s \in requests' : q.id = s.id => q = s
      /\ (\E q \in requests' : q.id = controller') <=> (\E q \in requests : q.id = controller)
  BY <1>1, RequestGone
<1>3. TypeOK'
  BY <1>1, <1>2 DEF IInv, TypeOK, polling, list
<1>4. LoadingIsBacked'
  BY <1>1, <1>2 DEF IInv, LoadingIsBacked
<1>5. CurrentInv' /\ FilterInv' /\ OrderInv'
  BY <1>1 DEF IInv, CurrentInv, FilterInv, OrderInv, Ours, list
<1> QED
  BY <1>2, <1>3, <1>4, <1>5 DEF IInv

-----------------------------------------------------------------------------
(* The user, the timers and the server *)

LEMMA ResetsKeepIInv == IInv /\ (Select \/ SearchTimer) => IInv'
<1> SUFFICES ASSUME IInv, Select \/ SearchTimer PROVE IInv'
  OBVIOUS
<1>1. CASE Select
  <2>1. /\ wanted' \in Filters /\ Reset(wanted') /\ UNCHANGED <<typing, polling, finished>>
        /\ events' = events + 1 /\ failures' = failures
    BY <1>1 DEF Select, Event
  <2>2. events' \in Nat /\ failures' \in Nat
    BY <2>1 DEF IInv, TypeOK
  <2>3. typing' \in BOOLEAN
    BY <2>1, Zenon DEF IInv, TypeOK
  <2> QED
    BY <2>1, <2>2, <2>3, ReplaceKeepsIInv
<1>2. CASE SearchTimer
  <2>1. /\ wanted' = wanted /\ typing' = FALSE /\ Reset(wanted)
        /\ UNCHANGED <<polling, finished, events, failures>>
    BY <1>2 DEF SearchTimer
  <2>2. wanted' \in Filters /\ events' \in Nat /\ failures' \in Nat
    BY <2>1 DEF IInv, TypeOK
  <2>3. Reset(wanted')
    BY <2>1 DEF Reset, Begin
  <2>4. typing' \in BOOLEAN
    BY <2>1
  <2> QED
    BY <2>1, <2>2, <2>3, <2>4, ReplaceKeepsIInv
<1> QED
  BY <1>1, <1>2

LEMMA TypeKeepsIInv == IInv /\ Type => IInv'
<1> SUFFICES ASSUME IInv, Type PROVE IInv'
  OBVIOUS
<1>1. /\ wanted' \in Filters /\ typing' = TRUE /\ events' = events + 1
      /\ UNCHANGED <<load, list, polling, finished, failures>>
  BY DEF Type, Event
<1>2. events' \in Nat
  BY <1>1 DEF IInv, TypeOK
<1>3. TypeOK'
  BY <1>1, <1>2 DEF IInv, TypeOK, load, list, polling
<1>4. LoadingIsBacked' /\ CurrentInv' /\ FilterInv' /\ OrderInv'
  BY <1>1 DEF IInv, LoadingIsBacked, CurrentInv, FilterInv, OrderInv, load, list
<1>5. IsFiniteSet(requests')
  BY <1>1 DEF IInv, load
<1> QED
  BY <1>3, <1>4, <1>5 DEF IInv

LEMMA LoadMoreKeepsIInv == IInv /\ LoadMore => IInv'
<1> SUFFICES ASSUME IInv, LoadMore PROVE IInv'
  OBVIOUS
<1>1. PICK form \in Filters, from \in Cursors \cup {None} :
        form = wanted /\ from = cursor /\ Begin("append", form, from)
  BY DEF LoadMore, Begin, IInv, TypeOK
<1>2. /\ more /\ events' = events + 1
      /\ UNCHANGED <<wanted, typing, cursor, polling, finished, failures>>
  BY DEF LoadMore, Event
<1>3. /\ polls' \subseteq Nat /\ lastFinished' \in Nat /\ events' \in Nat /\ failures' \in Nat
  BY <1>2 DEF IInv, TypeOK, polling
<1> QED
  BY <1>1, <1>2, <1>3, ContinueKeepsIInv

LEMMA BackgroundKeepsIInv == IInv /\ Background => IInv'
<1> SUFFICES ASSUME IInv, Background PROVE IInv'
  OBVIOUS
<1>1. /\ BeginUnlessLoading("background")
      /\ UNCHANGED <<wanted, typing, polling, finished, events, failures>>
  BY DEF Background
<1>2. polls' \subseteq Nat /\ lastFinished' \in Nat
  BY <1>1 DEF IInv, TypeOK, polling
<1> QED
  BY <1>1, <1>2, BeginUnlessLoadingKeepsIInv

\* What neither the form nor the list nor a load takes part in.
LEMMA ElsewhereKeepsIInv ==
  ASSUME IInv, UNCHANGED <<wanted, typing, load, list>>,
         polls' \subseteq Nat, lastFinished' \in Nat, finished' \in Nat,
         events' \in Nat, failures' \in Nat
  PROVE  IInv'
<1>1. TypeOK'
  BY DEF IInv, TypeOK, load, list
<1>2. LoadingIsBacked' /\ CurrentInv' /\ FilterInv' /\ OrderInv'
  BY DEF IInv, LoadingIsBacked, CurrentInv, FilterInv, OrderInv, Ours, load, list
<1>3. IsFiniteSet(requests')
  BY DEF IInv, load
<1> QED
  BY <1>1, <1>2, <1>3 DEF IInv

LEMMA StatusKeepsIInv ==
  ASSUME IInv, NEW seen \in polls, Status(seen)
  PROVE  IInv'
<1>1. /\ polls' = polls \ {seen} /\ UNCHANGED <<wanted, typing, finished, events, failures>>
      /\ \/ lastFinished' = seen /\ BeginUnlessLoading("background")
         \/ UNCHANGED <<lastFinished, load, list>>
  BY DEF Status
<1>2. /\ polls' \subseteq Nat /\ seen \in Nat /\ finished' \in Nat
      /\ events' \in Nat /\ failures' \in Nat
  BY <1>1 DEF IInv, TypeOK
<1>3. CASE lastFinished' = seen /\ BeginUnlessLoading("background")
  BY <1>1, <1>2, <1>3, BeginUnlessLoadingKeepsIInv
<1>4. CASE UNCHANGED <<lastFinished, load, list>>
  <2>1. lastFinished' \in Nat
    BY <1>4 DEF IInv, TypeOK
  <2> QED
    BY <1>1, <1>2, <1>4, <2>1, ElsewhereKeepsIInv
<1> QED
  BY <1>1, <1>3, <1>4

LEMMA ServerKeepsIInv ==
  ASSUME IInv, Poll \/ Finish \/ \E seen \in polls : LosePoll(seen)
  PROVE  IInv'
<1>1. UNCHANGED <<wanted, typing, load, list, lastFinished, events>>
  BY DEF Poll, Finish, LosePoll, polling
<1>2. polls' \subseteq Nat /\ finished' \in Nat /\ failures' \in Nat
  <2>1. polls \subseteq Nat /\ finished \in Nat /\ failures \in Nat
    BY DEF IInv, TypeOK
  <2>2. CASE Poll
    BY <2>1, <2>2 DEF Poll
  <2>3. CASE Finish
    BY <2>1, <2>3 DEF Finish, polling
  <2>4. CASE \E seen \in polls : LosePoll(seen)
    BY <2>1, <2>4 DEF LosePoll
  <2> QED
    BY <2>2, <2>3, <2>4
<1>3. lastFinished' \in Nat /\ events' \in Nat
  BY <1>1 DEF IInv, TypeOK
<1> QED
  BY <1>1, <1>2, <1>3, ElsewhereKeepsIInv

LEMMA NextKeepsIInv == IInv /\ [Next]_vars => IInv'
<1> SUFFICES ASSUME IInv, [Next]_vars PROVE IInv'
  OBVIOUS
<1>1. CASE \E r \in requests : Answer(r) \/ Fail(r) \/ Superseded(r)
  BY <1>1, AnswerKeepsIInv, FailKeepsIInv, SupersededKeepsIInv
<1>2. CASE Select \/ SearchTimer
  BY <1>2, ResetsKeepIInv
<1>3. CASE Type
  BY <1>3, TypeKeepsIInv
<1>4. CASE LoadMore
  BY <1>4, LoadMoreKeepsIInv
<1>5. CASE Background
  BY <1>5, BackgroundKeepsIInv
<1>6. CASE \E seen \in polls : Status(seen)
  BY <1>6, StatusKeepsIInv
<1>7. CASE Poll \/ Finish \/ \E seen \in polls : LosePoll(seen)
  BY <1>7, ServerKeepsIInv
<1>8. CASE UNCHANGED vars
  <2>1. UNCHANGED <<wanted, typing, load, list>>
    BY <1>8 DEF vars
  <2>2. /\ polls' \subseteq Nat /\ lastFinished' \in Nat /\ finished' \in Nat
        /\ events' \in Nat /\ failures' \in Nat
    BY <1>8 DEF vars, polling, IInv, TypeOK
  <2> QED
    BY <2>1, <2>2, ElsewhereKeepsIInv
<1> QED
  BY <1>1, <1>2, <1>3, <1>4, <1>5, <1>6, <1>7, <1>8 DEF Next

LEMMA Invariance == Spec => []IInv
  BY Initially, NextKeepsIInv, PTL DEF Spec

-----------------------------------------------------------------------------
(* Theorems *)

\* For any filters, walks and numbers of requests every variable stays in its range,
\* and no two requests on their way share a controller.
THEOREM TypeCorrect == Spec => []TypeOK
<1>1. IInv => TypeOK
  BY DEF IInv
<1> QED
  BY <1>1, Invariance, PTL

\* Whatever is aborted, fails or answers late, the list at rest is one walk through
\* the filter of the form, without a page twice or left out.
THEOREM ListIsOneWalk == Spec => []OneWalk
<1>1. ASSUME IInv, ~typing, NEW n \in DOMAIN feed
      PROVE  Follows(n)
  BY <1>1 DEF IInv, FilterInv, OrderInv, Ours, Follows
<1>2. IInv => OneWalk
  BY <1>1 DEF OneWalk
<1> QED
  BY <1>2, Invariance, PTL

\* The flag of a load is up exactly as long as an answer will take it down.
THEOREM FlagIsBacked == Spec => []LoadingIsBacked
<1>1. IInv => LoadingIsBacked
  BY DEF IInv
<1> QED
  BY <1>1, Invariance, PTL
=============================================================================
