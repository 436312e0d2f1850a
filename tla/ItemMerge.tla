----------------------------- MODULE ItemMerge -----------------------------
(***************************************************************************)
(* The row of an item and the upsert of apply_batch (src/db.rs): what a    *)
(* write of one source leaves of what others wrote before.  CVE items are  *)
(* written by NVD, CISA and GitHub under one identifier, in the order in   *)
(* which their adapters finish; a news item is written by its feed alone.  *)
(*                                                                         *)
(* A write carries a title, which stands for every column that follows the *)
(* trust of its source (URL, name, region, language, raw_json); a summary, *)
(* "" if it is empty; source and trust; severity as its rank in the CASE   *)
(* of the statement (0 is NULL); the claim of exploitation; a due date,    *)
(* which stands for the columns that COALESCE; the categories, which stand *)
(* for what every write replaces (CVE links, hash); and three timestamps,  *)
(* texts that SQLite compares as such, here by their place among all texts.*)
(***************************************************************************)
EXTENDS Naturals, Sequences

CONSTANTS
    Writes,                   \* what batches carry for an item
    Null

Texts == Nat \ {0}

ASSUME WritesAssumption == \A w \in Writes :
    /\ w.trust \in 1..3 /\ w.severity \in 0..5 /\ w.score \in Nat \cup {Null}
    /\ w.exploited \in BOOLEAN
    /\ w.published \in Texts \cup {Null} /\ w.updated \in Texts \cup {Null}
    /\ w.ingested \in Texts

ASSUME NullAssumption == Null \notin Nat

\* COALESCE of two columns.
Coalesce(x, y) == IF x # Null THEN x ELSE y

\* CASE WHEN either is NULL THEN the other ELSE MAX or MIN.
Larger(x, y) ==
    IF x = Null THEN y ELSE IF y = Null THEN x ELSE IF x >= y THEN x ELSE y
Smaller(x, y) ==
    IF x = Null THEN y ELSE IF y = Null THEN x ELSE IF x <= y THEN x ELSE y

\* Variant: the words of an equally trusted source do not replace those of the row.
MergeFirstOfEquals(row, w) ==
    LET winner == IF w.trust > row.trust THEN w ELSE row
        higher == IF w.severity >= row.severity THEN w ELSE row
    IN  [title |-> winner.title, source |-> winner.source, trust |-> winner.trust,
         summary |-> IF w.trust > row.trust /\ w.summary # "" THEN w.summary ELSE row.summary,
         severity |-> higher.severity,
         score |-> Larger(w.score, row.score),
         exploited |-> row.exploited \/ w.exploited,
         due |-> Coalesce(w.due, row.due),
         published |-> Smaller(row.published, w.published),
         updated |-> Larger(row.updated, w.updated),
         ingested |-> w.ingested, categories |-> w.categories]

\* Variant: the claim of the more trusted source.
MergeTrustedClaim(row, w) ==
    LET winner == IF w.trust >= row.trust THEN w ELSE row IN
    [title |-> winner.title, source |-> winner.source, trust |-> winner.trust,
     summary |-> IF w.trust >= row.trust /\ w.summary # "" THEN w.summary ELSE row.summary,
     severity |-> IF w.severity >= row.severity THEN w.severity ELSE row.severity,
     score |-> Larger(w.score, row.score),
     exploited |-> winner.exploited,
     due |-> Coalesce(w.due, row.due),
     published |-> Smaller(row.published, w.published),
     updated |-> Larger(row.updated, w.updated),
     ingested |-> w.ingested, categories |-> w.categories]

\* ON CONFLICT(id) DO UPDATE
Merge(row, w) ==
    LET winner == IF w.trust >= row.trust THEN w ELSE row
        higher == IF w.severity >= row.severity THEN w ELSE row
    IN  [title |-> winner.title,
         summary |-> IF w.trust >= row.trust /\ w.summary # "" THEN w.summary ELSE row.summary,
         source |-> winner.source,
         trust |-> IF w.trust >= row.trust THEN w.trust ELSE row.trust,
         severity |-> higher.severity,
         score |-> Larger(w.score, row.score),
         exploited |-> row.exploited \/ w.exploited,
         due |-> Coalesce(w.due, row.due),
         published |-> Smaller(row.published, w.published),
         updated |-> Larger(row.updated, w.updated),
         ingested |-> w.ingested, categories |-> w.categories]

\* effective_timestamp, by which lists are ordered and news is retained.
Effective(row) ==
    IF row.published # Null THEN row.published
    ELSE Coalesce(row.updated, row.ingested)

-----------------------------------------------------------------------------
(* What a row owes the writes it was made from, and their order *)

\* A number that is the best of those that were written, and none if there is none.
BestOf(x, values, Beats(_, _)) ==
    /\ x \in values
    /\ x = Null => values = {Null}
    /\ \A v \in values \ {Null} : Beats(x, v)

AtLeast(x, y) == x >= y
AtMost(x, y) == x <= y

\* The columns that are the best of the set of writes, whatever their order.
BestOfAll(row, writes) ==
    /\ row.exploited <=> \E w \in writes : w.exploited
    /\ BestOf(row.trust, {w.trust : w \in writes}, AtLeast)
    /\ BestOf(row.severity, {w.severity : w \in writes}, AtLeast)
    /\ BestOf(row.score, {w.score : w \in writes}, AtLeast)
    /\ BestOf(row.published, {w.published : w \in writes}, AtMost)
    /\ BestOf(row.updated, {w.updated : w \in writes}, AtLeast)

WritesOf(s) == {s[k] : k \in DOMAIN s}

\* A column is that of the last of some of the writes s.
FromLast(row, s, places, column) ==
    \E k \in places : row[column] = s[k][column] /\ \A j \in places : j <= k

\* The writes of a source that none before them outranks, and among them those that
\* have a summary or that created the row; the writes with a due date.
Speakers(s) == {k \in DOMAIN s : \A j \in 1..k : s[j].trust <= s[k].trust}
Tellers(s) == {k \in Speakers(s) : k = 1 \/ s[k].summary # ""}
Dated(s) == {k \in DOMAIN s : s[k].due # Null}

\* The columns that follow the order of the writes.
LastWord(row, s) ==
    /\ \A column \in {"title", "source", "trust"} : FromLast(row, s, Speakers(s), column)
    /\ FromLast(row, s, Tellers(s), "summary")
    /\ \A column \in {"categories", "ingested"} : FromLast(row, s, DOMAIN s, column)
    /\ IF Dated(s) = {} THEN row.due = Null ELSE FromLast(row, s, Dated(s), "due")
=============================================================================
