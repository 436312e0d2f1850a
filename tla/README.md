# TLA+ models of cyberwatch-rs

cyberwatch-rs is one process that collects security intelligence (NVD, CISA KEV,
GitHub advisories, news feeds), stores it in an embedded SQL database,
cross-validates CVEs against the CVE Program, and serves a JSON API and a
dashboard. These modules model its control: who may do what in which order,
what is committed together, and what is left after a failure. Paths below are
those of the repository.

Check a module with `tlc -config <cfg> <MC module>`, a proof with
`tlapm <module>Proofs.tla` (those of `ItemMerge` and `ItemPaging` are in
`ApiServiceProofs`, those of `FeedSource` in `SourceRunsProofs`). `PROJECT.json` lists the runs, the lines that each
definition models, the mutants that show each property can fail, the hazards
and the theorems.

## The system

| Component | State | Operations | Talks to |
|---|---|---|---|
| Refresh coordinator, `src/refresh.rs` | status document, enqueue gate, a channel of capacity 8, worker task | `request`, `worker`, `execute_refresh` | API handlers and scheduler call it; it runs ingestion, validation and retention |
| Process and scheduler, `src/main.rs` | tasks of the runtime | startup request, ticker, graceful shutdown | coordinator |
| Ingestion job, `src/ingest/mod.rs` | semaphore, one future per source, report; `sync_state` failure rows, `ingestion_runs` | `run_sources`, `run_one_source` | adapters, persistence |
| NVD adapter, `src/ingest/nvd.rs` | cursor in `sync_state` | window, paging, batch | NVD API, `apply_batch` |
| CISA and feed adapters, `src/ingest/cisa.rs`, `feeds.rs` | `source_cache` (validators, content hash) | conditional fetch, parse, batch | HTTP transport |
| GitHub adapter, `src/ingest/github.rs` | none | newest pages | HTTP transport |
| HTTP transport, `src/ingest/http.rs` | none | retry with delay, size limit, redirect and address checks | adapters |
| Source contract, `src/ingest/source.rs` | registry | validation of a batch | ingestion job |
| Cross-validation, `src/ingest/validate.rs`, `epss.rs` | `cve_evidence`, `cve_validation` | rotation, canonical record, assessment | persistence, CVE Program, FIRST |
| Persistence, `src/db.rs`, `schema.sql` | tables, a write gate | `apply_batch` (merge of items), queries, retention | everything above |
| API, `src/api.rs` | admission semaphore, statistics cache, counters | list with cursors, detail, statistics, refresh, metrics | coordinator, persistence |
| Dashboard, `web/app.js` | form, cursor, the flag and the controller of a load, timers | loads, paging, polling | API |
| Backup and deployment, `tools/backup.py`, `deploy/azure/*` | snapshots, `app.env`, systemd units | publish, prune, restore, health check | database file, the process |
| Classifier, configuration, demo, health probe, packaging and policy tools | none, or read once | pure functions and one-shot scripts | |

What is hard in it: requests race for the single refresh slot, and axum drops
their futures at a deadline, at any await; a job is a dozen transactions, any of
which may fail, and the process may die between any two; external sources are
paged while they change, and answer late, partly or not at all; clients page
through a table that is being written; a page loads its list for several reasons
at once; and a restore switches databases under units that restart the service.

Correct means, for each component:

- coordinator: one job at a time, a status that tells the truth, and no status
  "queued" or "running" that nothing will ever change;
- ingestion: a report that agrees with the recorded history, a backoff that is
  neither spurious nor too short, a job that ends;
- NVD: the cursor never passes a record that was not stored;
- cross-validation: a stored confidence is the one its evidence deserves, and
  every CVE gets its turn;
- query API: a walk delivers every row that stays put exactly once, and ends;
- feed and CISA adapters: whenever a run may do nothing because nothing has
  changed, everything it would have stored is stored, and a lagging or broken
  endpoint delays the catalog but never loses it;
- API: an answer is as fresh as promised and consistent with itself, and an
  overloaded server admits again;
- merge: in whatever order sources commit, no severity, score, date or claim of
  exploitation is lost; title, source and trust of a row are of one write, the last of
  the most trusted sources, and what else depends on the order of commits does so in a
  known way;
- dashboard: the list at rest is one walk through the filter that the form shows,
  and a finished refresh reaches it;
- backup and deployment: the last completed snapshot is always there and whole, no
  restore costs a commit, and the service runs on the database that is configured.

## Modules

`SingleFlight` is the abstract service the coordinator promises: a caller claims
a job, is coalesced onto the current one, or is refused; jobs end. Nothing of
gates, channels and documents is in it.

`RefreshCoordinator` models `refresh.rs` await by await. A caller goes through
`Acquire` (the gate), `Check` (status read: coalesce or go on), `Publish` (status
write), `TrySend`, and `Rollback` when the send fails. `Drop` is the deadline of
`api.rs` dropping the future where it awaits; the step to `TrySend` has no await
and is no such place. The worker goes through `Receive`, `Start`, `Execute`,
`Finish`; `Shutdown`, `DropWorker` and `Replace` are the end of the process and
its successor. What happens inside `Execute` is in the modules of ingestion and validation.

`SourceRuns` models `run_sources` and `run_one_source` for one job after
another: each source is a task behind the semaphore that goes through the await
points `check`, `noteSkip`, `fetch`, `apply`, `clear`, `noteEnd`, `mark`,
`noteFail`. `DatabaseError` is the `?` at each of them. `last`, `failedAt` and
`streak` are history variables: what really happened to a source, against which
the persisted failure count and backoff time are compared.

`NvdSource` models one adapter's synchronisation over time. The API is external:
a modification (`Modify`) shows in its index after a lag (`Publish`), and each
page is computed from the index as it is then, so that a record that is modified
between two pages leaves the results and those behind it move up. `horizon`,
`skipped` and `hidden` are history variables: how far back the committed windows
connect without a hole, and which records slid over the offset and were missed.

`CrossValidation` models `validate::run`: `Select`, `StoreCanonical`, `FetchScores`
(EPSS, all or nothing), `Read`, `StoreValidations`, with `Abandon` for an error or a crash at any of them.
`calculated_at` appears only as the order it induces (`older`), so that jobs can
go on for ever in a finite model. `unchanged` and `passes` are history.

`FeedSource` models one feed: `Begin` reads the `source_cache` row, the site
answers with 304 (`NotModified`) or with a document (`Receive`, or `Reject` when
`validate` finds a duplicate), `Commit` is the transaction of items and cache
row, `Cleanup` is retention. The site is external: documents are numbered, the
number is the ETag, and the same document may be served under a new one.

`CisaSource` models `cisa.rs` over the attempts of `send_limited`, in half-second
units against the adapter's deadline, which is a literal, while `Settings` are the
timeouts and retries that the environment may set: `Refuse` and `Hang` are attempts that
fail at once or at a timeout (of the connection or of the attempt), `Misanswer` is a body
without a catalog, `NextUrl` the mirror or the end. A catalog is its edition; the mirror copies editions when
it likes. `asked` and `verdict` are history variables.

`ApiService` models `observe_and_bound` and the handlers `stats` and `get_cve`:
`Arrive` takes a permit or is refused, `Expire` and `Leave` drop the handler at
any await, and the queries of a handler are steps between which `Ingest` commits.
The age of a statistic counts from the commit that overtook the first of its two
queries.

`BoundedService` is the abstract service behind this: so many clients are inside at
most, one is turned away only while that many are, and none stays beyond the
deadline. Nothing of permits, handlers and answers is in it.

`ItemMerge` is the `ON CONFLICT` clause of `apply_batch` as an operator on rows,
with what a row owes to the set of writes it was made from (`BestOfAll`), and to their
order (`LastWord`).
`ItemPaging` puts it to use: the cursor of `list_items` for one client that walks to
the end, while `Upsert` merges the writes of several sources and `Cleanup` applies
retention between its pages. `given` and `moved` are history variables. The names of
its specification begin with `Paging`, and those of `FeedSource` with `Feed`, because
their proofs are in a module that extends another component as well.

`Dashboard` models `loadItems` and its callers in `web/app.js`: `Begin` is the code
up to the await of the answer, `Answer` and `Fail` the rest for the current
controller, `Superseded` the rest for one that was aborted. `Select`, `Type`,
`LoadMore` are the user, `SearchTimer`, `Background`, `Poll` the timers. The server
is external: an answer reflects the table at some moment of the request.

`Deployment` models a supervised installation step by step: `backup-daily.py` and
`restore-runtime.py` over `tools/backup.py`, the units of `configure-runtime.py`, the
health check, and the start of the process with its refusal of a demo database.
A restore can end in five ways. It completes; a step inside its `try` fails
(`RestoreFails`, or a service that does not get ready) and it is undone; an interrupt, or
a failure during the undo, takes the way of `finally` only (`RestoreBreaks`); a signal, or
a failure outside the `try`, ends it where it is (`RestoreKilled`); the power fails.
`PowerLoss` may come between any two steps, and takes what is not on disk: a name
whose directory is not synced, content that is not, and the versions of `app.env` since
its last write-back (`unsynced`, `WriteBack`), which the script never syncs. `active` is
what systemd has been told (`on`, `off`) or has decided (`failed`, too many starts).
systemd and the file system are modelled as the scripts use them. `restore-runtime.py`
takes no lock, unlike `backup-daily.py:24`. That the operator runs one restore at a time,
and does not reinstall during one (`configure-runtime.py:46` rewrites `app.env`), is
assumed by the guard of `RestoreBegin`; two at once could start the service on a database
that the other one's setting does not name.

`MC*.tla` and `*.cfg` give constants for TLC; definitions named `...` in a
comment that begins with "Variant" are plausible mistakes, used only to show that
the properties notice them.

## Runs

| Run | What it shows |
|---|---|
| refresh | refinement of `SingleFlight` (and with it one job at a time and verdicts only from the worker); truthful status, no orphaned busy status; every job and every call ends |
| source_runs | report and run history agree; backoff neither spurious (after a crash between commit and deletion) nor short (across jobs and crashes); jobs end |
| source_panic | finding, below |
| nvd | no hole behind the cursor, not even when a run hits the page limit, but for the one record that each slide of the offset hides; only an outage moves the horizon; every change arrives unless the windows overflow |
| validation | stored confidence is current; nobody is overtaken twice; confidence never falls short of a rejection; every CVE is revalidated and gets its score |
| paging | a row that keeps its place is delivered exactly once however often it is merged; severity, score, dates and claim are the best of the set of writes; every other column is that of the last of the writes it belongs to; the walk ends |
| paging_cursor | finding, below |
| feed | saved validators and hash stand for stored content; a saved ETag belongs to the saved content; a feed that comes to rest is saved for good |
| cisa | the saved hash stands for the stored rows; rows go back only through a lagging mirror, and come forward again; the mirror serves while the official endpoint is out, unless that endpoint hangs under the default timeouts: then no run reaches the mirror (`HangingStarvesMirror`, see the known limits) |
| api | refinement of `BoundedService`; no permit is lost; statistics no older than cache lifetime and deadline together, although a slow request may overwrite a newer entry; a detail shows the evidence of its item; admission resumes even if every handler hangs |
| dashboard | the list at rest is one walk through the filter of the form; the flag of a load is never left behind; a finished refresh reaches the list although the load that announces it is skipped, aborted or fails |
| deployment | the last completed snapshot survives prunes, kills and power loss; no commit is lost; what runs is what `app.env` names; a restore that completes or is undone ends with the timers and the service running, which stays down only at the start limit |

The type invariants are theorems of every module that has a specification, and are not
checked by a run again.

Bounds, and why they are enough:

- refresh: two HTTP callers and the scheduler, four calls, one restart. Two
  callers race at the gate, a third finds their job queued, running or done. The
  channel has capacity 1: at most one job is ever in it, which the theorem
  `SingleJob` extends to every capacity.
- source_runs: two sources on one permit, three jobs, one crash, six time units
  with delays 2 and 3 (the maximum) and a count that saturates at 2: the delay
  grows, is cut, expires and is lost sight of by a crash.
- nvd: three records on pages of one, of which a run asks for two at most, so
  that a window fits or overflows; overlap, lag and windows of one or two units,
  so that each of the cases of `WindowStart` (first run, cursor, cut window)
  happens; one modification, which may shift the pages of the run that is under
  way, one failure. The case of a cursor in the future
  needs a clock that steps back and does not occur.
- validation: three CVEs in batches of one, so that the order of the rotation
  matters; a structured source and a feed; two of the CVEs have a score;
  three observations, two rulings of the registry, one failure.
- paging: two CVEs and a news item on pages of one; four writes of three sources
  for the CVEs, two of them equally trusted, with and without summary, severity, score
  and dates, two of a feed; three timestamps, so that the order is decided by time and by identifier and a merge
  moves a row in either direction; three changes.
- feed: four entries, of which two share an identifier and one has no link, in
  documents of three with a cap of two, so that an entry may be beyond the cap;
  four documents, enough to revise, withdraw, repeat and redeploy one.
- cisa: three editions, the last of which drops a CVE; three changes of an endpoint's
  health, one failure. The deadline of 120 s, the defaults of `config.rs` (attempts of
  120 s, 15 s to connect, two retries) and the settings of the Azure installation (45 s,
  10 s, one) are the real values; a process has one of the two settings.
- api: three clients on two permits, so that one is refused; a deadline of one
  tick and a lifetime of two; two commits. A request may therefore outlive a
  commit between any two of its reads, and two computations may overlap.
- dashboard: two filters of three pages, so that a page may be missing in the middle
  of a walk; two requests, one of them superseded; four events, enough to page,
  change the filter and page again; one poll, refresh and failure.
- deployment: one snapshot is kept, so that a prune may take the wrong one; three
  runs of a script in any order (`MaxStamps`), one commit, one fault, one power loss;
  two starts, so that failing ones exhaust them. A fault is one of: the service hangs or
  ends, a backup fails, a restore fails, breaks off or is killed.

`CHECK_DEADLOCK FALSE` is set where the bounds let a model stop; the runs cisa
and api are checked for deadlock as well.

Fairness:

- The runtime polls every woken task, so a step of a caller, the worker or a
  source task that stays enabled is taken (weak fairness). The coordinator's
  gate is a tokio `Mutex`, which is first come, first served: strong fairness of
  `Acquire`.
- `Execute`, `RunAdapter` and the steps of a run end, because an adapter runs
  under its deadline (`ingest/mod.rs:160`), an HTTP attempt under its timeout, and a
  database call under the busy timeout. That a run may instead end the worker by a
  panic is the finding source_panic; `JobsEnd` is about a process without it.
- `NvdSource` and `CrossValidation` assume that the scheduler keeps starting
  jobs, and that NVD's index catches up.
- `FeedSource` assumes strong fairness of an answer and of a commit: a site that is
  asked for ever does not fail every time. `CisaSource` needs only that a run goes
  on, since each of its waits has a timeout (whether that leaves time for the mirror is
  what `MirrorServes` and `HangingStarvesMirror` are about); failures of the database are bounded.
- `ApiService` assumes that time passes and that the timer of a request fires
  (`Tick`, `Expire`), and nothing of handlers: they may hang for ever.
- `Dashboard` assumes that timers fire and that the server answers the current
  request or the browser reports its end (`fetch` has the server's deadline behind
  it); failures are bounded, and users need do nothing.
- `Deployment` assumes that a restore goes on, since each of its commands comes to an
  end, that systemd launches what is to run, and that the health timer fires. Nothing is
  assumed of failures, signals, write-back and the interval of the start limit.
- `Execute` of `RefreshCoordinator` is fair, so run refresh would not notice a job that
  never ends; that a job ends is `JobEnds` of run source_runs. The lock of the status
  document is not modelled: each holder releases it without another await, and
  `CallsReturn` is about the gate.

The environment (clock, modifications, failures, calls, crashes) is never fair.

Assumptions on the constants are the `ASSUME`s of the modules. Beyond them: the
clock does not step back, and in run nvd a run fits the adapter's deadline. That a
window which overflows the page limit fails for ever is listed as a hazard. `NoGap`
needs an index that lags no longer than the overlap (`NVD_OVERLAP_MINUTES`, 10 by
default, 0 to 1440), which the theorem has as its hypothesis and run nvd in its
constants; the code has no way to know that lag.

## Findings

- source_panic (`src/ingest/mod.rs:262`): `truncate_error` cuts a long message at
  byte 2000 and panics when that is inside a character. It runs outside the
  `catch_unwind` around the adapter, so one source's message ends the worker, and
  the status stays "running". `ARCHITECTURE.md:101` promises a report entry.
- paging_cursor (`src/api.rs:477`): `next_cursor` carries the timestamp as the
  source wrote it, NVD writes none with an offset, and `decode_cursor` refuses
  such a cursor. `ARCHITECTURE.md:175` says that the endpoint supports cursors.

Known limits, which the models assume or except:

- NVD is paged by offset (`src/ingest/nvd.rs:128`). A record that is modified
  between two pages leaves the window, the rest moves up by one, and the record on
  the page boundary is not delivered, although the cursor moves past it. `NoGap`
  and `EveryChangeArrives` except exactly those records (`hidden`) until another
  window brings them.
- With `SOURCE_TIMEOUT_SECONDS` at its default of 120 (`src/config.rs:159-163`) one
  attempt may last as long as the whole CISA adapter (`src/ingest/cisa.rs:35`, `:50`). An
  official endpoint that takes connections and does not answer then ends every run before
  the mirror is tried: `HangingStarvesMirror` states that as what the code does, and
  `MirrorServes` excepts exactly this case (`LeavesTime`). `README.md:292`, which promises
  the mirror automatically, stands under "CISA reports invalid JSON", and for an answer
  that is no catalog it is right under every setting. Refused and unreachable endpoints
  leave the time under both settings, and the Azure installation in every case.
- The dashboard, with `currentParameters` reading the form when a load starts: while
  the search delay runs, a next page may be of the new text below an old one, which
  `OneWalk` excepts (`~typing`) because the search then replaces the list. A failed
  next page wipes the list, and the button then continues below the error
  (`OneWalk` excepts that as `failed`). A detail that answers late is shown without a
  check, and statistics are loaded once per finished refresh and not repeated after a
  failure.
- What a restore leaves behind when it is cut off (`abandoned`, excepted by
  `ServiceReturns`). A SIGINT in the `try` of `restore-runtime.py` is no `Exception`, so
  that line 62 does not undo anything and only the timers come back; the same holds for a
  write of `app.env` that fails at line 65. The service may then be stopped, and the
  health check does not start it, since it acts on "unhealthy" only
  (`check-health.sh:5`). A SIGTERM, and a failure at lines 47, 48 or 70, which are outside
  the `try`, may leave the timers off as well. No data is lost, and nothing runs on another
  database (`NothingLost`, `RunsSelected`).
- A power loss, or one of those endings, while `app.env` is being rewritten leaves it
  empty: the process refuses to start, and backups and restores refuse to run, until an
  operator writes it again. A power loss soon after a restore may also bring back the old
  setting, hence the old database. After ten failing starts within 300 s systemd refuses
  the start of the undone restore too (`active = "failed"` in `ServiceReturns`). Snapshots
  are ordered by name, hence by a clock that must not step back.

## Proofs

Everything is proved for all values of the constants that satisfy the
assumptions, as `Spec => ...`; each component has one invariant (`IInv`, or
`PagingIInv` and `FeedIInv` in a module that proves about two), shown to hold
initially and to survive every action, of which the properties are consequences.

- `RefreshCoordinatorProofs`: `TypeOK`, `OneJobInFlight`, `StatusIsTruthful`,
  `BusyIsBacked`, `VerdictOnlyFromWorker`, and the refinement of `SingleFlight`.
  The invariant adds who holds the gate (`GateInv`), that between test and
  publication nobody else makes the coordinator busy (`PublishInv`), that between
  publication and send nothing is in flight (`SendInv`), and that a send fails
  only in a process that is going down (`RollbackInv`): the reason why the
  rollback to a default status cannot erase a running job.
- `SourceRunsProofs`: `TypeOK`, `ReportMatchesHistory`, `SkipOnlyAfterFailure`,
  `NoEarlyRetry`. The invariant says that a task that has not ended has no row
  (`RowInv`), what a row and a returned status have to do with each other
  (`BackInv`), that a backoff outlives only a failure (`ElapsedInv`, `ClearInv`),
  and that the persisted count is never below the real one (`CountInv`,
  `DeadlineInv`): a crash can only lengthen a backoff. That powers of two grow is
  the named assumption `DoublingAssumption`, which TLC evaluates.
- `CrossValidationProofs`: `TypeOK`, `ConfidenceIsCurrent`, `NoOvertaking`,
  `ConfidenceOnlyGrows`. A CVE that has passed another stands behind it in the
  rotation (`OrderInv`); the stage holds those whose turn it is (`TurnInv`) and so
  stores nobody who would pass another again (`StoreInv`); a stored confidence is
  never above what the evidence deserves (`GrowthInv`), because evidence
  accumulates (`StepGrows`).
- `SourceRunsProofs` of `FeedSource`: `FeedTypeOK`, `CacheBacked`, `TagNamesContent`.
  The invariant adds that the row a run has read is still the row there is, since
  only the run's own commit writes it (`ReadInv`), so that the decision "unchanged",
  taken from an old read, is still right at the commit.
- `NvdSourceProofs`: `TypeOK`, `NoGap`, `HorizonMovesOnlyAfterOutage`. `NoGap` is earned
  while a run is still paging: a result before the offset is in the batch in the
  version that is shown, or slid over the offset, or appeared in the window so late
  that the overlap of the next one covers it; after the last page that holds of every
  result (`PagedInv`). Offsets are compared with records by counting (`CountBelow`,
  `NoMoreThanPlaces`, `EveryPlace`): a page takes the next places, and a record that
  leaves the results moves those behind it up by one. A version is shown within the
  lag of its modification (`LagInv`), and a window begins where the last one ended,
  less the overlap, unless it was cut (`WindowInv`); hence the hypothesis
  `Lag <= Overlap`. It is needed: with a lag one longer than the overlap TLC finds a
  record that is published behind the cursor and never asked for.
  `OneMissPerModification` bounds the exception of `NoGap`: never are more records
  hidden than were modified, because each modification is published once and takes at
  most one record over an offset.
- `CisaSourceProofs`: `TypeOK`, `CacheBacked`, `BackOnlyThroughMirror`. The invariant
  says that a run on the mirror has asked the official endpoint, that a run on the
  official endpoint has a catalog no older than any row, and, with `TypeOK`, that no
  row is ahead of the official edition.
- `ApiServiceProofs`: `TypeOK`, `PermitsAccounted`, `StatsFresh`, `ItemIsSupported`.
  The invariant dates what is not yet answered: a statistic on its way to the cache
  was overtaken while its request ran (`StoreInv`), one in a living entry since it
  was stored or while that request ran (`EntryInv`); and it says what a request may
  hold at each step (`HoldInv`). The refinement of `BoundedService` follows from
  `PermitsAccounted`, by which a semaphore without permits means that all places are
  taken, and from the fact that only a request under way has an age (`AgeInv`): every
  step of a request enters, is turned away, departs, gives up, or stutters (`Moves`).
- `ApiServiceProofs` of `ItemMerge` and `ItemPaging`: `BestIsKept`, `LastWordCounts`,
  `PagingTypeOK`, `SteadyOnce`. One write more keeps a row that is the best of the writes
  so far the best of them (`MergeKeepsBest`), and the last word the last (`MergeKeepsOrder`): an invariant of the
  table, without an induction over sequences. `SameWritesSameColumns` draws the
  consequence for orders: two rows that are made of the same set of writes agree on
  severity, score, dates, claim and trust, on their place in the lists once a source has
  given a date, on title and source if the most trusted sources agree on them, and on the
  due date if all that give one do. It does not say more because more is not so: NVD and
  CISA are equally trusted and the later one's words stand, categories are those of the
  last write, and an undated row is placed by the time of the last run. For the walk,
  `PlaceInv` says that a row that has not moved has been delivered once, or not yet if it
  is older than the cursor: a page is the newest of the rest (`PageIsNewest`), the last
  one all of it (`LastPageIsAll`), and the table moves other rows only
  (`TableKeepsPlaces`).
- `DashboardProofs`: `TypeOK`, `OneWalk`, `LoadingIsBacked`. The invariant says what the
  current request will bring: a page of the form's filter at the cursor of the list
  (`CurrentInv`), as long as the search delay is not running; that the list and the
  cursor are of that filter (`FilterInv`); and that each page follows its
  predecessor and the cursor the last page (`OrderInv`). Controllers are told apart
  because there are more identifiers than requests (`FreshIdIsFresh`, by counting).
- `DeploymentProofs`: `TypeOK`, `RecoveryPoint`, `NothingLost`, `RunsSelected`. The
  invariant says that a published file is whole and of a time no later than the
  clock (`SnapsInv`), what a backup has copied and synced at each step
  (`BackupInv`), that a restore writes only a file of its own and that nothing
  wants the service between its stop and its start (`RestoreInv`), and that every
  commit is in some file (`FilesInv`). A restore that is cut off leaves all that as it is
  (`CutOffKeepsIInv`); what `app.env` says after a power loss does not matter to it, since
  nothing runs then.

Only model-checked: the liveness properties (`JobsEnd`, `CallsReturn`,
`JobEnds`, `EveryChangeArrives`, `EveryCveIsRevalidated`, `WalkEnds`, `Settles`,
`LatestReturns`, `MirrorServes`, `HangingStarvesMirror`, `AdmitsAgain`, `NewsReachesList`, `ServiceReturns`),
since the prover knows neither fairness nor ENABLED. Every safety property of a
passing run is a theorem. The two findings are counterexamples of runs.

## Not modelled

- Text: classification (`classifier.rs`), parsing and formatting are pure functions;
  a document is its identity and revision in every module.
- Configuration (`config.rs`) is read once: its values are the constants, its ranges
  their assumptions. The GitHub adapter keeps no state and is one of the sources of
  `SourceRuns`. Address and redirect checks of `http.rs` are functions of one URL.
- In `CrossValidation` the disagreement flags: computed from the rows that decide the
  confidence, and stored with it. In `FeedSource` the evidence of mentions, in
  `ItemMerge` the mentioned CVEs, which follow the last write as the categories do. In `ApiService` the metrics, which nothing
  reads back, and the handlers that make a single query.
- In `Dashboard` the dialogs, the statistics and the refresh button, which load one
  document each.
- Provisioning, installation, packaging and policy scripts: one-shot I/O on external
  services and files.
- A composition of `RefreshCoordinator` and `SourceRuns`: the coordinator waits for a
  job whatever it does, and the job knows nothing of the coordinator; the one path
  between them, a panic, is the finding source_panic.

Worth doing next: a clock that steps back in `SourceRuns` and `NvdSource`; an abstract
specification of conditional synchronisation that `FeedSource` and `CisaSource` both
implement.
