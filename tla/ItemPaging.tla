----------------------------- MODULE ItemPaging -----------------------------
(***************************************************************************)
(* GET /api/v1/items with a cursor: list_items of src/db.rs, decode_cursor *)
(* of src/api.rs.  A client walks the items that match its filter, newest  *)
(* first, page by page, while refreshes merge what sources deliver into    *)
(* the table and the retention cleanup deletes from it.  A page is one     *)
(* SELECT; a merge is one item of a batch's transaction, so that a batch   *)
(* of several is several merges with no page between them.                 *)
(***************************************************************************)
EXTENDS ItemMerge, FiniteSets

CONSTANTS
    Items,                    \* identifiers, ordered as the primary key is
    News, NewsWrites,         \* the items of kind news, and what feeds write
    Zoned,                    \* the texts with an offset from UTC
    Limit,                    \* the limit parameter
    NoCursor,                 \* the cursor of a first request
    MaxChanges                \* bound: changes of the table during the walk

ASSUME ItemsAssumption == Items \subseteq Nat /\ IsFiniteSet(Items)
ASSUME LimitAssumption == Limit \in Nat \ {0}       \* validate_item_query: 1..200
ASSUME ChangesAssumption == MaxChanges \in Nat

Cursors == [stamp : Texts, id : Items]

ASSUME CursorAssumption == NoCursor \notin Cursors

VARIABLES
    rows,                     \* the table: a row for each item that it holds
    walk,                     \* the client: first, more, done, refused
    cursor,                   \* next_cursor of the last page
    seen,                     \* how often each item was delivered
    given,                    \* history: the writes that each row was made from, in their order
    moved,                    \* history: rows that came, went or changed place since the walk began
    changes

client == <<walk, cursor, seen>>
table == <<rows, given, moved, changes>>
pagingVars == <<client, table>>

present == DOMAIN rows
stamp == [i \in present |-> Effective(rows[i])]

WritesFor(i) == {w \in Writes : w \in NewsWrites <=> i \in News}

\* The walk begins when every row has been written once.
PagingInit ==
    /\ \E held \in SUBSET Items : rows \in [held -> Writes]
    /\ \A i \in present : rows[i] \in WritesFor(i)
    /\ given = [i \in present |-> <<rows[i]>>]
    /\ walk = "first"
    /\ cursor = NoCursor
    /\ seen = [i \in Items |-> 0]
    /\ moved = {}
    /\ changes = 0

-----------------------------------------------------------------------------
(* The query *)

\* ORDER BY effective timestamp DESC, id DESC.
Newer(s, i, t, j) == s > t \/ (s = t /\ i > j)

\* Variant: the cursor's own row is delivered again.
RowsFromCursor ==
    {i \in present : walk = "more" => ~Newer(stamp[i], i, cursor.stamp, cursor.id)}

Rows == {i \in present : walk = "more" => Newer(cursor.stamp, cursor.id, stamp[i], i)}

\* LIMIT: the rows with fewer than that many newer ones.
Top(limit) ==
    {i \in Rows : Cardinality({j \in Rows : Newer(stamp[j], j, stamp[i], i)}) < limit}

Last(page, i) == i \in page /\ \A j \in page \ {i} : Newer(stamp[j], j, stamp[i], i)

Page == Top(Limit)

\* Counted up to two, which is once too often.
Deliver == seen' = [i \in Items |-> IF i \in Page /\ seen[i] < 2 THEN seen[i] + 1 ELSE seen[i]]

\* Variant: the cursor is the row that was fetched to see whether there is more.
FetchPageUnpopped ==
    /\ walk \in {"first", "more"}
    /\ walk = "more" => cursor.stamp \in Zoned
    /\ Deliver
    /\ \/ /\ Cardinality(Rows) > Limit
          /\ walk' = "more"
          /\ \E i \in Rows : Last(Top(Limit + 1), i) /\ cursor' = [stamp |-> stamp[i], id |-> i]
       \/ /\ Cardinality(Rows) <= Limit
          /\ walk' = "done"
          /\ UNCHANGED cursor
    /\ UNCHANGED table

\* One request: limit + 1 rows are fetched to see whether there are more, and
\* the last row that is delivered becomes the cursor.
FetchPage ==
    /\ walk \in {"first", "more"}
    /\ walk = "more" => cursor.stamp \in Zoned
    /\ Deliver
    /\ \/ /\ Cardinality(Rows) > Limit
          /\ walk' = "more"
          /\ \E i \in Page : Last(Page, i) /\ cursor' = [stamp |-> stamp[i], id |-> i]
       \/ /\ Cardinality(Rows) <= Limit
          /\ walk' = "done"
          /\ UNCHANGED cursor
    /\ UNCHANGED table

\* decode_cursor: the timestamp must parse as RFC 3339, which has an offset.
RefuseCursor ==
    /\ walk = "more"
    /\ cursor.stamp \notin Zoned
    /\ walk' = "refused"
    /\ UNCHANGED <<cursor, seen, table>>

-----------------------------------------------------------------------------
(* The table *)

Put(f, i, x) == [j \in DOMAIN f \cup {i} |-> IF j = i THEN x ELSE f[j]]

Without(f, gone) == [j \in DOMAIN f \ gone |-> f[j]]

\* apply_batch inserts the row, or merges the write into it.
Upsert(i) ==
    /\ changes < MaxChanges
    /\ changes' = changes + 1
    /\ \E w \in WritesFor(i) :
        \/ /\ i \notin present
           /\ rows' = Put(rows, i, w)
           /\ given' = Put(given, i, <<w>>)
           /\ moved' = moved \cup {i}
        \/ /\ i \in present
           /\ rows' = Put(rows, i, Merge(rows[i], w))
           /\ given' = Put(given, i, Append(given[i], w))
           /\ moved' = IF Effective(rows'[i]) = stamp[i] THEN moved ELSE moved \cup {i}
    /\ UNCHANGED client

\* cleanup_retention: the news before a cutoff, here that just after one of them.
Cleanup ==
    /\ changes < MaxChanges
    /\ changes' = changes + 1
    /\ \E oldest \in News \cap present :
        LET gone == {i \in News \cap present : stamp[i] <= stamp[oldest]} IN
        /\ rows' = Without(rows, gone)
        /\ given' = Without(given, gone)
        /\ moved' = moved \cup gone
    /\ UNCHANGED client

PagingNext ==
    \/ FetchPage
    \/ RefuseCursor
    \/ \E i \in Items : Upsert(i)
    \/ Cleanup

\* The client asks for the next page; a request ends at its deadline at the latest.
PagingFairness == WF_pagingVars(FetchPage) /\ WF_pagingVars(RefuseCursor)

PagingSpec == PagingInit /\ [][PagingNext]_pagingVars

PagingFairSpec == PagingSpec /\ PagingFairness

-----------------------------------------------------------------------------
(* Properties *)

\* Every variable in its range; no row is delivered that was never in the table.
PagingTypeOK ==
    /\ present \subseteq Items
    /\ \A i \in present : stamp[i] \in Texts
    /\ DOMAIN given = present
    /\ \A i \in present : given[i] \in Seq(WritesFor(i)) /\ given[i] # <<>>
    /\ walk \in {"first", "more", "done", "refused"}
    /\ cursor \in Cursors \cup {NoCursor}
    /\ walk = "more" => cursor # NoCursor
    /\ seen \in [Items -> 0..2]
    /\ moved \subseteq Items
    /\ changes \in 0..MaxChanges
    /\ \A i \in Items : seen[i] > 0 => i \in present \cup moved

\* A row that keeps its place during the walk is delivered exactly once, however
\* often it is written meanwhile, and however the rows around it come, go and
\* move between two pages.
SteadyOnce ==
    \A i \in Items \ moved :
        /\ seen[i] <= 1
        /\ walk = "done" /\ i \in present => seen[i] = 1

\* A severity, a score or a claim of exploitation that a source has given stays
\* with the row until a greater one, and so do the earliest date of publication and
\* the latest of a change: in whatever order the batches were committed, these
\* columns are the best of what the sources have written.
BestIsKept == \A i \in present : BestOfAll(rows[i], WritesOf(given[i]))

\* The other columns follow the order of the commits, in this way and no other: title
\* and source are those of one write, the last of the most trusted sources (NVD and
\* CISA are equal), never of one source each; the summary is that of the last such
\* write that has one, be it of another source; a due date outlives the writes
\* without one; categories, and the time of the run that places a row without a
\* date in the lists, are of the last write, of whatever source.
LastWordCounts == \A i \in present : LastWord(rows[i], given[i])

\* A walk comes to its end although rows keep moving into its way: every page
\* is strictly older than the one before.
WalkEnds == <>(walk \in {"done", "refused"})

\* The server accepts the cursors that it hands out.
CursorsAccepted == walk # "refused"
=============================================================================
