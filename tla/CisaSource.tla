----------------------------- MODULE CisaSource -----------------------------
(***************************************************************************)
(* src/ingest/cisa.rs over send_limited of src/ingest/http.rs, the adapter *)
(* deadline of src/ingest/mod.rs and apply_batch of src/db.rs: the CISA    *)
(* catalog of exploited vulnerabilities, read from the official endpoint   *)
(* or else from a mirror, with retries, against the clock.                 *)
(*                                                                         *)
(* The endpoints are external.  The catalog is its edition, 0 for none;    *)
(* Listed gives the vulnerabilities of an edition, and no two editions     *)
(* have the same content.  Time is counted from the start of a run in      *)
(* units of half a second; an answer takes none of it.  How long an        *)
(* attempt may last, and how many there are, is set by the environment of  *)
(* the process, while the deadline of the adapter is a literal.            *)
(***************************************************************************)
EXTENDS Integers

CONSTANTS
    Cves, MaxEdition, Listed,
    Settings,                 \* what the environment may set
    Deadline,                 \* timeout_seconds of the descriptor: 120 s
    MaxOutages, MaxFailures   \* bounds

ASSUME EditionsAssumption ==
    MaxEdition \in Nat \ {0} /\ Listed \in [1..MaxEdition -> SUBSET Cves]
\* config.source_timeout, config.http_connect_timeout, config.source_retry_attempts.max(1)
ASSUME TimeAssumption ==
    /\ Settings \subseteq [timeout : Nat \ {0}, connect : Nat \ {0}, retries : Nat \ {0}]
    /\ Deadline \in Nat \ {0}
ASSUME LimitsAssumption == MaxOutages \in Nat /\ MaxFailures \in Nat

VARIABLES
    config,                   \* the setting of the process
    edition, copy,            \* what the official endpoint and the mirror serve
    health,                   \* how each of them answers
    evidence, cache,          \* the database: each CVE's row and the saved hash, as editions
    at, url, attempt, elapsed,   \* the run: its step, its place in the two loops, its clock
    read, got,                \* the hash that it read, the catalog that it selected
    asked,                    \* history: the endpoints that this run has asked, or the last one
    outages, failures

world == <<config, edition, copy, health, outages>>
disk == <<evidence, cache>>
run == <<at, url, attempt, elapsed, read, got, asked>>
vars == <<world, disk, run, failures>>

Urls == {"official", "mirror"}
\* A catalog, something else, an error at once, no connection, or a connection and no
\* answer.
Health == {"good", "invalid", "refusing", "unreachable", "hanging"}

Init ==
    /\ config \in Settings
    /\ edition = 1 /\ copy = 1 /\ outages = 0
    /\ health = [u \in Urls |-> "good"]
    /\ evidence = [c \in Cves |-> 0] /\ cache = 0
    /\ at = "idle" /\ url = "official" /\ attempt = 0 /\ elapsed = 0
    /\ read = 0 /\ got = 0 /\ asked = {}
    /\ failures = 0

-----------------------------------------------------------------------------
(* The endpoints *)

Release ==
    /\ edition < MaxEdition
    /\ edition' = edition + 1
    /\ UNCHANGED <<config, copy, health, outages, disk, run, failures>>

Copy ==
    /\ copy # edition
    /\ copy' = edition
    /\ UNCHANGED <<config, edition, health, outages, disk, run, failures>>

Break(u, h) ==
    /\ outages < MaxOutages
    /\ health[u] # h
    /\ health' = [health EXCEPT ![u] = h]
    /\ outages' = outages + 1
    /\ UNCHANGED <<config, edition, copy, disk, run, failures>>

Site == Release \/ Copy \/ \E u \in Urls, h \in Health : Break(u, h)

Serves(u) == IF u = "official" THEN edition ELSE copy

-----------------------------------------------------------------------------
(* A run *)

\* 500 ms, doubled by every attempt, up to ten times.
Delay == <<1, 2, 4, 8, 16, 32, 64, 128, 256, 512, 1024>>[IF attempt < 10 THEN attempt + 1 ELSE 11]

Begin ==
    /\ at = "idle"
    /\ at' = "attempt"
    /\ read' = cache
    /\ asked' = {}
    /\ UNCHANGED <<url, attempt, elapsed, got, world, disk, failures>>

\* Variant: the next run starts with the endpoint that was used last.
EndSticky ==
    /\ at' = "idle" /\ attempt' = 0 /\ elapsed' = 0
    /\ read' = 0 /\ got' = 0
    /\ UNCHANGED url

End ==
    /\ at' = "idle" /\ url' = "official" /\ attempt' = 0 /\ elapsed' = 0
    /\ read' = 0 /\ got' = 0

\* The endpoint is given up, for the other one or for good.
NextUrl ==
    IF url = "official"
    THEN /\ url' = "mirror" /\ attempt' = 0
         /\ UNCHANGED <<at, read, got>>
    ELSE End

\* Variant: the deadline of the adapter does not count.
RetryUndated(time) ==
    \/ /\ attempt < config.retries
       /\ attempt' = attempt + 1
       /\ UNCHANGED <<at, url, elapsed, read, got>>
    \/ /\ attempt = config.retries
       /\ NextUrl
       /\ url = "official" => UNCHANGED elapsed

\* The attempt has failed after some time: the deadline, which is over the
\* delay too, another attempt, or the end of this endpoint.
Retry(time) ==
    LET spent == elapsed + time + (IF attempt < config.retries THEN Delay ELSE 0)
    IN  \/ spent >= Deadline /\ End
        \/ /\ spent < Deadline /\ attempt < config.retries
           /\ attempt' = attempt + 1 /\ elapsed' = spent
           /\ UNCHANGED <<at, url, read, got>>
        \/ /\ spent < Deadline /\ attempt = config.retries
           /\ NextUrl
           /\ url = "official" => elapsed' = spent

Ask(h) ==
    /\ at = "attempt"
    /\ health[url] = h
    /\ asked' = asked \union {url}
    /\ UNCHANGED <<world, disk, failures>>

\* A response whose hash is the saved one, or a catalog.
Answer ==
    /\ Ask("good")
    /\ at' = "commit"
    /\ got' = Serves(url)
    /\ UNCHANGED <<url, attempt, elapsed, read>>

\* Variant: a response that is no catalog ends the run.
MisanswerFails ==
    /\ Ask("invalid")
    /\ End

\* A response that is no catalog is not asked for again.
Misanswer ==
    /\ Ask("invalid")
    /\ NextUrl
    /\ url = "official" => UNCHANGED elapsed

Refuse == Ask("refusing") /\ Retry(0)

\* How long an attempt lasts that ends with its timeout, or that of the connection.
Lasts(h) ==
    IF h = "unreachable" /\ config.connect < config.timeout THEN config.connect
    ELSE config.timeout

Hang == \E h \in {"unreachable", "hanging"} : Ask(h) /\ Retry(Lasts(h))

\* Variant: an edition that is older than the saved one leaves the rows alone.
CommitNewer ==
    /\ at = "commit"
    /\ evidence' = [c \in Cves |-> IF got > read /\ c \in Listed[got] THEN got ELSE evidence[c]]
    /\ cache' = got
    /\ End
    /\ UNCHANGED <<asked, world, failures>>

\* apply_batch: the rows, unless the hash is the saved one, and the hash.
Commit ==
    /\ at = "commit"
    /\ evidence' = [c \in Cves |-> IF got # read /\ c \in Listed[got] THEN got ELSE evidence[c]]
    /\ cache' = got
    /\ End
    /\ UNCHANGED <<asked, world, failures>>

\* The database fails or the process ends.
Fail ==
    /\ at # "idle"
    /\ failures < MaxFailures
    /\ failures' = failures + 1
    /\ End
    /\ UNCHANGED <<asked, world, disk>>

Run == Begin \/ Answer \/ Misanswer \/ Refuse \/ Hang \/ Commit

Next == Run \/ Fail \/ Site

\* The scheduler starts runs for ever, and every wait of a run has a timeout.
Fairness == WF_vars(Run)

Spec == Init /\ [][Next]_vars

FairSpec == Spec /\ Fairness

-----------------------------------------------------------------------------
(* Properties *)

\* Every variable in its range; a run that goes on is within its deadline.
TypeOK ==
    /\ config \in Settings
    /\ edition \in 1..MaxEdition /\ copy \in 1..edition
    /\ health \in [Urls -> Health]
    /\ evidence \in [Cves -> 0..edition] /\ cache \in 0..edition
    /\ at \in {"idle", "attempt", "commit"} /\ url \in Urls
    /\ attempt \in 0..config.retries /\ elapsed \in 0..(Deadline - 1)
    /\ read \in 0..edition /\ got \in 0..edition /\ (got # 0 <=> at = "commit")
    /\ asked \subseteq Urls
    /\ outages \in Nat /\ failures \in Nat

\* An equal hash may be answered by doing nothing: the saved edition, and no
\* later or earlier one, is in every row that it lists, whichever endpoint it
\* came from.
CacheBacked == cache # 0 => \A c \in Listed[cache] : evidence[c] = cache

\* The rows go back to an earlier edition only in a run that has asked the
\* official endpoint in vain and found the mirror behind.
BackOnlyThroughMirror ==
    [][\A c \in Cves : evidence'[c] < evidence[c] =>
          url = "mirror" /\ asked = Urls]_vars

\* When the official endpoint is back, its latest edition is stored for good,
\* whatever the mirror has put in between.
LatestReturns ==
    <>[](health["official"] = "good") => <>[](cache = edition)

\* All attempts at an endpoint that lets them wait, and the delays between them, end
\* before the deadline of the adapter.
LeavesTime(h) == (config.retries + 1) * Lasts(h) + 2 ^ config.retries - 1 < Deadline

Waiting(u) == health[u] \in {"unreachable", "hanging"}

\* While the official endpoint is out, the mirror's edition is stored: always if the
\* official one answers with something else or refuses, and if it lets the attempts
\* wait, under the settings that leave the mirror time.
MirrorServes ==
    <>[](/\ health["official"] # "good" /\ health["mirror"] = "good"
         /\ Waiting("official") => LeavesTime(health["official"]))
        => <>[](cache = copy)

\* And only under those: if the official endpoint takes connections and answers none,
\* and one attempt may last as long as the adapter (the default of
\* SOURCE_TIMEOUT_SECONDS is the deadline itself), every run ends before it has asked
\* the mirror, and the catalog is as old as the outage.
HangingStarvesMirror ==
    <>[](health["official"] = "hanging" /\ ~LeavesTime("hanging"))
        => <>[]("mirror" \notin asked)
=============================================================================
