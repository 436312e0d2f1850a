------------------------------ MODULE Dashboard ------------------------------
(***************************************************************************)
(* The list of web/app.js: loads for a changed filter, for the next page,  *)
(* every minute and after a finished refresh, of which a later one aborts  *)
(* an earlier one.  The program is event driven: a handler runs to its     *)
(* next await, and the answers of fetch arrive in any order, or not at all.*)
(*                                                                         *)
(* The server is external: a walk through a filter has at most MaxPages    *)
(* pages, an answer reflects the table at some moment between request and  *)
(* answer, and the table is known by the number of finished refreshes.     *)
(***************************************************************************)
EXTENDS Integers, Sequences, FiniteSets

CONSTANTS
    Filters,                  \* contents of the form, the search text included
    None,
    MaxPages,
    MaxRequests,              \* bound: requests of the list on their way
    MaxPolls,                 \* bound: status requests on their way
    MaxEvents, MaxFailures, MaxRefreshes     \* bounds

Cursors == [filter : Filters, page : 2..MaxPages]

ASSUME NoneAssumption == None \notin Nat /\ None \notin Cursors
ASSUME BoundsAssumption ==
    /\ MaxPages \in Nat \ {0} /\ MaxRequests \in Nat \ {0} /\ MaxPolls \in Nat
    /\ MaxEvents \in Nat /\ MaxFailures \in Nat /\ MaxRefreshes \in Nat

VARIABLES
    wanted,                   \* the form
    typing,                   \* searchTimer runs
    cursor, loading, controller,     \* of the object state
    feed, failed, more,       \* the page: the list, an error box, the button for more
    requests,                 \* of the list, on their way
    polls, lastFinished,      \* status answers on their way, and the last one shown
    finished,                 \* the server: how many refreshes have finished
    events, failures

list == <<feed, failed, more>>
load == <<cursor, loading, controller, requests>>
polling == <<polls, lastFinished>>
vars == <<wanted, typing, load, list, polling, finished, events, failures>>

Kinds == {"replace", "append", "background"}

Requests ==
    [id : Nat, kind : Kinds, filter : Filters, cursor : Cursors \cup {None}, since : Nat]

PageOf(c) == IF c = None THEN 1 ELSE c.page

\* The handlers are bound before the first load starts: it is one of these.
Init ==
    /\ wanted \in Filters /\ typing = FALSE
    /\ cursor = None /\ loading = FALSE /\ controller = None
    /\ requests = {}
    /\ feed = <<>> /\ failed = FALSE /\ more = FALSE
    /\ polls = {} /\ lastFinished = 0
    /\ finished = 0
    /\ events = 0 /\ failures = 0

-----------------------------------------------------------------------------
(* loadItems *)

FreshId == CHOOSE id \in 1..MaxRequests + 1 : \A r \in requests : r.id # id

\* Up to the await: an earlier request is aborted, its answer may be on its way
\* all the same.  form and from are the form
\* and state.cursor as the caller has left them.
Begin(kind, form, from) ==
    /\ Cardinality(requests) < MaxRequests
    /\ loading' = TRUE
    /\ controller' = FreshId
    /\ requests' = requests \cup
        {[id |-> FreshId, kind |-> kind, filter |-> form,
          cursor |-> IF kind = "append" THEN from ELSE None, since |-> finished]}
    /\ IF kind = "replace" THEN feed' = <<>> /\ failed' = FALSE
                           ELSE UNCHANGED <<feed, failed>>
    /\ UNCHANGED more

\* A load in the background or of the next page gives way to one that is under way.
BeginUnlessLoading(kind) ==
    \/ loading /\ UNCHANGED <<load, list>>
    \/ ~loading /\ Begin(kind, wanted, cursor) /\ UNCHANGED cursor

\* The rest of loadItems, when the answer is for the current controller.
Show(r) ==
    \E table \in r.since..finished, end \in BOOLEAN :
        LET page == [filter |-> r.filter, cursor |-> r.cursor, table |-> table] IN
        /\ feed' = IF r.kind = "append" THEN Append(feed, page) ELSE <<page>>
        /\ failed' = (failed /\ r.kind = "append")
        /\ cursor' = IF end \/ PageOf(r.cursor) = MaxPages THEN None
                     ELSE [filter |-> r.filter, page |-> PageOf(r.cursor) + 1]
        /\ more' = (cursor' # None)

\* Variant: whoever answers is shown.
AnswerAnyway(r) ==
    /\ Show(r)
    /\ loading' = (loading /\ r.id # controller)
    /\ requests' = requests \ {r}
    /\ UNCHANGED <<wanted, typing, controller, polling, finished, events, failures>>

Answer(r) ==
    /\ r.id = controller
    /\ Show(r)
    /\ loading' = FALSE
    /\ requests' = requests \ {r}
    /\ UNCHANGED <<wanted, typing, controller, polling, finished, events, failures>>

\* Variant: an error in the background leaves the flag of the load behind.
FailQuietly(r) ==
    /\ r.id = controller
    /\ failures < MaxFailures
    /\ failures' = failures + 1
    /\ IF r.kind = "background" THEN UNCHANGED <<feed, failed>> ELSE feed' = <<>> /\ failed' = TRUE
    /\ loading' = (r.kind = "background")
    /\ requests' = requests \ {r}
    /\ UNCHANGED <<wanted, typing, cursor, controller, more, polling, finished, events>>

\* An error is shown in place of the list, even if it was the next page that failed.
Fail(r) ==
    /\ r.id = controller
    /\ failures < MaxFailures
    /\ failures' = failures + 1
    /\ IF r.kind = "background" THEN UNCHANGED <<feed, failed>> ELSE feed' = <<>> /\ failed' = TRUE
    /\ loading' = FALSE
    /\ requests' = requests \ {r}
    /\ UNCHANGED <<wanted, typing, cursor, controller, more, polling, finished, events>>

\* Variant: the aborted request unlocks the buttons.
SupersededUnlocks(r) ==
    /\ r.id # controller
    /\ loading' = FALSE
    /\ requests' = requests \ {r}
    /\ UNCHANGED <<wanted, typing, cursor, controller, list, polling, finished, events, failures>>

\* The answer or the AbortError of a request that a later one has superseded.
Superseded(r) ==
    /\ r.id # controller
    /\ requests' = requests \ {r}
    /\ UNCHANGED <<wanted, typing, cursor, loading, controller, list, polling, finished,
                   events, failures>>

-----------------------------------------------------------------------------
(* The user *)

Event == events < MaxEvents /\ events' = events + 1

\* resetAndLoad
Reset(form) == cursor' = None /\ Begin("replace", form, None)

\* A change of a selection, the form submitted or cleared, the reload button.
Select ==
    /\ Event
    /\ wanted' \in Filters
    /\ Reset(wanted')
    /\ UNCHANGED <<typing, polling, finished, failures>>

\* A key in the search field restarts the timer.
Type ==
    /\ Event
    /\ wanted' \in Filters
    /\ typing' = TRUE
    /\ UNCHANGED <<load, list, polling, finished, failures>>

SearchTimer ==
    /\ typing
    /\ typing' = FALSE
    /\ Reset(wanted)
    /\ UNCHANGED <<wanted, polling, finished, events, failures>>

\* The button is hidden without a cursor, and disabled during a load.
LoadMore ==
    /\ Event
    /\ more /\ ~loading
    /\ Begin("append", wanted, cursor)
    /\ UNCHANGED <<wanted, typing, cursor, polling, finished, failures>>

-----------------------------------------------------------------------------
(* The timers and the server *)

\* Every 60 seconds.
Background ==
    /\ BeginUnlessLoading("background")
    /\ UNCHANGED <<wanted, typing, polling, finished, events, failures>>

\* Every 15 seconds; the answer is the status of some moment after the request.
Poll ==
    /\ Cardinality(polls) < MaxPolls
    /\ polls' = polls \cup {finished}
    /\ UNCHANGED <<wanted, typing, load, list, lastFinished, finished, events, failures>>

\* A finish that is not the one shown last brings a load in the background with it.
Status(seen) ==
    /\ polls' = polls \ {seen}
    /\ \/ /\ seen \notin {0, lastFinished}
          /\ lastFinished' = seen
          /\ BeginUnlessLoading("background")
       \/ /\ seen \in {0, lastFinished}
          /\ UNCHANGED <<lastFinished, load, list>>
    /\ UNCHANGED <<wanted, typing, finished, events, failures>>

\* No answer, or an error.
LosePoll(seen) ==
    /\ failures < MaxFailures
    /\ failures' = failures + 1
    /\ polls' = polls \ {seen}
    /\ UNCHANGED <<wanted, typing, load, list, lastFinished, finished, events>>

Finish ==
    /\ finished < MaxRefreshes
    /\ finished' = finished + 1
    /\ UNCHANGED <<wanted, typing, load, list, polling, events, failures>>

Next ==
    \/ \E r \in requests : Answer(r) \/ Fail(r) \/ Superseded(r)
    \/ Select \/ Type \/ SearchTimer \/ LoadMore
    \/ Background \/ Poll
    \/ \E seen \in polls : Status(seen) \/ LosePoll(seen)
    \/ Finish

Spec == Init /\ [][Next]_vars

\* Timers fire, and the server answers within its deadline; users need do nothing.
Fairness ==
    /\ WF_vars(\E r \in requests : Answer(r))
    /\ WF_vars(\E r \in requests : Superseded(r))
    /\ WF_vars(SearchTimer)
    /\ WF_vars(Background)

FairSpec == Spec /\ Fairness

-----------------------------------------------------------------------------
(* Properties *)

Pages == [filter : Filters, cursor : Cursors \cup {None}, table : Nat]

\* Every variable in its range, and no two requests of one controller.
TypeOK ==
    /\ wanted \in Filters /\ typing \in BOOLEAN
    /\ cursor \in Cursors \cup {None}
    /\ loading \in BOOLEAN
    /\ controller \in Nat \cup {None}
    /\ requests \subseteq Requests
    /\ \A r, s \in requests : r.id = s.id => r = s
    /\ feed \in Seq(Pages)
    /\ failed \in BOOLEAN /\ more \in BOOLEAN
    /\ polls \subseteq Nat /\ lastFinished \in Nat /\ finished \in Nat
    /\ events \in Nat /\ failures \in Nat

\* A page, or the cursor that leads to it, is of the filter and follows its predecessor.
Follows(n) ==
    /\ feed[n].filter = wanted
    /\ feed[n].cursor # None => feed[n].cursor.filter = wanted
    /\ n > 1 => PageOf(feed[n].cursor) = PageOf(feed[n - 1].cursor) + 1
    /\ n = 1 /\ ~failed => feed[n].cursor = None

\* When the list has come to rest it is one walk through the filter that the form
\* shows: no page of another filter, none twice, none left out, and, unless an error
\* stands in its place, from the start.
OneWalk == ~loading /\ ~typing => \A n \in DOMAIN feed : Follows(n)

\* The flag that holds back the next page and the background loads is up exactly as
\* long as an answer will take it down, whatever has been aborted meanwhile.
LoadingIsBacked == loading <=> \E r \in requests : r.id = controller

\* A finished refresh reaches the list by itself, although the load that its status
\* brings about may be skipped, superseded or fail.
NewsReachesList ==
    \A n \in 1..MaxRefreshes : finished >= n ~> feed # <<>> /\ feed[1].table >= n
=============================================================================
