----------------------------- MODULE FeedSource -----------------------------
(***************************************************************************)
(* src/ingest/feeds.rs over send_once of src/ingest/http.rs, validate of   *)
(* src/ingest/source.rs and apply_batch of src/db.rs: the conditional      *)
(* refresh of one news feed.  A run sends the validators that the last     *)
(* commit saved, and is answered by 304 or by a document; a document whose *)
(* content hash is the saved one moves the validators only, another one is *)
(* mapped to items that are committed with its validators and its hash in  *)
(* one transaction.                                                        *)
(*                                                                         *)
(* The site is external: it publishes documents, newest entry first, and   *)
(* an ETag is the number of the document it was given to.  An entry in a   *)
(* document is its identity and its revision; KeyOf gives the item id that *)
(* stable_id makes of it.  A hash stands for the document it was taken of. *)
(* A revision stands for what the upsert replaces (title, URL, categories);*)
(* every entry has a date of publication.                                  *)
(***************************************************************************)
EXTENDS Integers, Sequences

CONSTANTS
    Entries, Keys, KeyOf,
    Linkless,                 \* entries without an http link
    Window,                   \* how many entries the site lists
    Cap,                      \* take(250)
    NotStored,
    MaxDocs                   \* bound

ASSUME KeysAssumption == KeyOf \in [Entries -> Keys] /\ Linkless \subseteq Entries
ASSUME SizesAssumption == Window \in Nat /\ Cap \in Nat /\ MaxDocs \in Nat \ {0}

Listing == [entry : Entries, rev : {0, 1}]

ASSUME NotStoredAssumption == NotStored \notin Listing

VARIABLES
    docs,                     \* the site: the documents so far, the last one served
    old,                      \* keys whose publication is before the retention cutoff
    stored, cache,            \* the database: items and source_cache; tag 0 is no row
    step, read, got           \* the run: its step, the cache row it read, its document

site == <<docs, old>>
disk == <<stored, cache>>
run == <<step, read, got>>
feedVars == <<site, disk, run>>

NoCache == [tag |-> 0, doc |-> <<>>]

FeedInit ==
    /\ docs = << <<>> >> /\ old = {}
    /\ stored = [k \in Keys |-> NotStored] /\ cache = NoCache
    /\ step = "idle" /\ read = NoCache /\ got = 0

-----------------------------------------------------------------------------
(* The site and the clock *)

Served == docs[Len(docs)]

Serve(doc) ==
    /\ Len(docs) < MaxDocs
    /\ docs' = Append(docs, doc)
    /\ UNCHANGED <<old, disk, run>>

Publish(e) == Serve(SubSeq(<<[entry |-> e, rev |-> 0]>> \o Served, 1,
                           IF Len(Served) < Window THEN Len(Served) + 1 ELSE Window))

Edit(i) == Serve([Served EXCEPT ![i].rev = 1 - @])

Withdraw(i) == Serve(SubSeq(Served, 1, i - 1) \o SubSeq(Served, i + 1, Len(Served)))

\* The same document under a new ETag.
Redeploy == Serve(Served)

Age(k) ==
    /\ k \notin old
    /\ old' = old \union {k}
    /\ UNCHANGED <<docs, disk, run>>

Site ==
    \/ \E e \in Entries : Publish(e)
    \/ \E i \in 1..Len(Served) : Edit(i) \/ Withdraw(i)
    \/ Redeploy
    \/ \E k \in Keys : Age(k)

-----------------------------------------------------------------------------
(* A run *)

Key(doc, i) == KeyOf[doc[i].entry]

\* The positions of a document that become items.
Taken(doc) == {i \in 1..Len(doc) : i <= Cap /\ doc[i].entry \notin Linkless}

\* validate: no two news items of a batch have the same id.
Valid(doc) == \A i, j \in Taken(doc) : Key(doc, i) = Key(doc, j) => i = j

Begin ==
    /\ step = "idle"
    /\ step' = "sent"
    /\ read' = cache
    /\ UNCHANGED <<site, disk, got>>

\* Variant: the document is not let go of.
StopHolding == step' = "idle" /\ read' = NoCache /\ UNCHANGED got

Stop == step' = "idle" /\ read' = NoCache /\ got' = 0

\* The site knows the ETag that the request carries.
NotModified ==
    /\ step = "sent"
    /\ read.tag = Len(docs)
    /\ Stop
    /\ UNCHANGED <<site, disk>>

Unchanged(doc) == read.tag # 0 /\ read.doc = doc

\* Variant: the cache row is saved ahead of the batch.
ReceiveSavesRow ==
    /\ step = "sent"
    /\ Unchanged(Served) \/ Valid(Served)
    /\ step' = "commit"
    /\ got' = Len(docs)
    /\ cache' = [tag |-> Len(docs), doc |-> Served]
    /\ UNCHANGED <<site, stored, read>>

\* A document arrives in full; the site may ignore validators.  Unless its hash
\* is the saved one it is parsed, mapped and validated.
Receive ==
    /\ step = "sent"
    /\ Unchanged(Served) \/ Valid(Served)
    /\ step' = "commit"
    /\ got' = Len(docs)
    /\ UNCHANGED <<site, disk, read>>

\* Variant: the validators are saved although the batch is rejected.
RejectSavesTag ==
    /\ step = "sent"
    /\ ~Unchanged(Served) /\ ~Valid(Served)
    /\ cache' = [cache EXCEPT !.tag = Len(docs)]
    /\ Stop
    /\ UNCHANGED <<site, stored>>

\* The batch does not pass validate.
Reject ==
    /\ step = "sent"
    /\ ~Unchanged(Served) /\ ~Valid(Served)
    /\ Stop
    /\ UNCHANGED <<site, disk>>

\* The listings that a document brings, over the items that there are.
Upserted(doc) ==
    [k \in Keys |-> IF \E i \in Taken(doc) : Key(doc, i) = k
                    THEN doc[CHOOSE i \in Taken(doc) : Key(doc, i) = k]
                    ELSE stored[k]]

\* Variant: an unchanged document leaves the cache row alone.
CommitKeepsTag ==
    /\ step = "commit"
    /\ IF Unchanged(docs[got])
       THEN UNCHANGED disk
       ELSE stored' = Upserted(docs[got]) /\ cache' = [tag |-> got, doc |-> docs[got]]
    /\ Stop
    /\ UNCHANGED site

\* apply_batch: the items, unless nothing has changed, and the cache row.
Commit ==
    /\ step = "commit"
    /\ stored' = IF Unchanged(docs[got]) THEN stored ELSE Upserted(docs[got])
    /\ cache' = [tag |-> got, doc |-> docs[got]]
    /\ Stop
    /\ UNCHANGED site

\* No answer within the attempts or the deadline, a body that is too large or
\* no feed, a transaction that is rolled back, the end of the process.
Fail ==
    /\ step # "idle"
    /\ Stop
    /\ UNCHANGED <<site, disk>>

\* cleanup_retention, between the runs of two refreshes.
Cleanup ==
    /\ step = "idle"
    /\ stored' = [k \in Keys |-> IF k \in old THEN NotStored ELSE stored[k]]
    /\ UNCHANGED <<site, cache, run>>

FeedNext == Begin \/ NotModified \/ Receive \/ Reject \/ Commit \/ Fail \/ Cleanup \/ Site

\* The scheduler starts runs for ever; a site that keeps being asked and a
\* database that keeps being written do not fail every time.
FeedFairness == WF_feedVars(Begin) /\ SF_feedVars(NotModified) /\ SF_feedVars(Receive) /\ SF_feedVars(Commit)

FeedSpec == FeedInit /\ [][FeedNext]_feedVars

FeedFairSpec == FeedSpec /\ FeedFairness

-----------------------------------------------------------------------------
(* Properties *)

Cached == [tag : 0..Len(docs), doc : Seq(Listing)]

\* Every variable in its range; a run has a document when it commits, and only then.
FeedTypeOK ==
    /\ docs \in Seq(Seq(Listing)) /\ docs # <<>> /\ old \subseteq Keys
    /\ stored \in [Keys -> Listing \union {NotStored}]
    /\ cache \in Cached /\ read \in Cached
    /\ step \in {"idle", "sent", "commit"}
    /\ got \in 0..Len(docs) /\ (got # 0 <=> step = "commit")

\* A 304 or an equal hash may be answered by doing nothing: whatever the saved
\* document lists within the cap and with a link, and retention does not remove,
\* is stored as it is listed there, after failures, rejected batches and crashes.
CacheBacked ==
    cache.tag # 0 =>
        \A i \in Taken(cache.doc) :
            Key(cache.doc, i) \notin old => stored[Key(cache.doc, i)] = cache.doc[i]

\* The saved ETag is one that the site gave to the saved content: a 304 never
\* stands for a document that this database has not seen.
TagNamesContent == cache.tag # 0 => docs[cache.tag] = cache.doc

\* Once the site rests at a document that passes validation, its content and its
\* last ETag are saved for good, so that every later request can be answered by
\* 304; a new ETag of the same content is picked up.
Settles ==
    <>[]Valid(Served) => <>[](cache = [tag |-> Len(docs), doc |-> Served])
=============================================================================
