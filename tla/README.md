# securityportal-api in TLA+

securityportal-api fetches CSAF security advisories from one Trusted Provider (ROLIE
feeds), verifies and stores them in PostgreSQL, and serves them over a read-only HTTP
API. This directory models the program: TLA+ modules translated from its source, TLC
configurations that check them on small instances, and proofs of the most important
properties for every instance.

## 1. Inventory

| Component | Source | State | Operations | Interacts with |
|---|---|---|---|---|
| Advisory store | `pkg/database/store.go`, `migrations/000-setup.sql` | tables `advisories`, `documents`, the identity sequence, row locks | `StoreDocument` (upsert, insert, trigger `update_advisory`, commit), `TombstoneAbsent`, `CountActiveAdvisories`, `SetWatermark` | called by the ingestion cycle; read by the queries |
| Ingestion cycle | `pkg/ingest/poll.go`, `ingest.go`, `persist.go`, `feedhealth.go` | per cycle: what is left to fetch, the present-set, feed health | `Poll`, `RunOnce`, `FetchAndVerify`, `Handle`, `checkFeedHealth`, `maybeSweep` | provider over HTTP, store |
| Downloader | `pkg/ingest/download.go`, `provider.go` | key ring | `Run`, `processFile`, hash and signature checks | gocsaf enumerates the feeds and calls it back per feed |
| TLP policy | `pkg/config`, `pkg/auth` | none after start | `IsPublishable`, role principals | gates ingestion and every read |
| Migrations | `pkg/database/migrations.go`, `main.go` | table `versions`, the schema | `Migrate`, `runMigrate` with retry | run by `migrate` and `serve` |
| Server lifecycle | `cmd/.../main.go`, `pkg/web/server.go` | goroutines, listener | start, signal, shutdown | HTTP server and poll loop in one errgroup |
| Reads | `pkg/database/queries.go`, `filters.go`, `facets.go` | none (database); the client keeps offsets, ids and links | list, get, permalink, facets | handlers; the ingestion commits in between |
| HTTP | `pkg/web` | none | handlers, pagination links, Atom, CSV | reads |
| Facet extraction | triggers in `000-setup.sql`, `002-facets-and-fts.sql` | `unique_cves`, join tables | `extract_cves` and its siblings | fired by `StoreDocument` |

What is hard here:

* **Concurrency.** More than one process writes to one database: API containers that each
  poll (`docs/DEPLOYMENT.md`, two instances on one PostgreSQL) and a manual `ingest`
  beside a running server. Every transaction runs at READ COMMITTED.
* **An environment that changes while it is read.** A cycle takes minutes: feed after
  feed, file after file, then a probe of the feeds, a count, a sweep. The provider edits,
  moves and retires advisories and its feeds fail meanwhile.
* **A destructive step.** The deletion sweep withdraws every stored advisory that the
  cycle did not see. Everything above decides whether what it did not see is gone.
* **Failures** between any two steps: lost connections, lost COMMIT answers, cancelled
  contexts, crashes, restarts.

What makes each component correct:

* store: one head per advisory, the newest revision; no revision twice; what was
  acknowledged stays; failures leave no half-written advisory;
* cycle: the sweep withdraws only what is gone, and a bounded share; restricted documents
  never get in; the portal converges to what the provider publishes;
* migrations: versions applied in order, once, by one of several starters;
* reads: restricted and withdrawn advisories never shown as current; a client that follows
  pages, links and facets misses nothing, up to the commits that happen meanwhile;
* extraction: a stored document has its links, and stores never wait for each other for ever;
* lifecycle: every exit path ends every goroutine and reports the cause.

`PROJECT.json` lists the hazards at their lines, with the property that covers each or
the reason why none does yet.

## 2. Plan

| # | Module | Models | Composes | State |
|---|---|---|---|---|
| 1 | `RevisionOrder` | columns of a revision, SQL comparison, revision key | | built |
| 2 | `AdvisoryLog` | abstract store: atomic store and withdraw | 1 | built |
| 3 | `AdvisoryStore`, `AdvisoryStoreProofs`, `AdvisoryStoreRefinement` | the transactions | 1, implements 2 | built, proved |
| 4 | `IngestCycle`, `IngestCycleProofs` | cycles of several ingesters against a provider | 2 | built, proved |
| 5 | `SchemaVersion`, `Migrations`, `MigrationsProofs` | the schema of a database; concurrent migrators of several releases, crashes, retry | `Migrations` implements `SchemaVersion` | built, proved |
| 6 | `ServeLifecycle`, `ServeLifecycleProofs` | errgroup, signals, listener, drain, exit | | built, proved |
| 7 | `CveIndex`, `Extraction`, `ExtractionProofs` | abstract index: document after document; `extract_cves` of concurrent transactions | `Extraction` implements `CveIndex` | built, proved |
| 8 | `Publication` | label normalisation in both forms of the policy; severity bands | 1 | built |
| 9 | `ReadApi`, `ReadApiProofs` | pages, permalinks and facets interleaved with stores and sweeps | 2, 8 | built, proved |
| 10 | | the handlers' validation, the other facet dimensions, role principals | 9 | open |

Abstract specifications: `AdvisoryLog` for the store, on which `IngestCycle` and `ReadApi`
build, `SchemaVersion` (one migrator at a time, in order) for the migrations, and `CveIndex`
(one document at a time) for the extraction.

## 3. The modules

### RevisionOrder and AdvisoryLog

A revision is the tuple of generated columns that decide its fate: advisory, version,
revision history length, status, release date; all but the version may be `NULL`, because
the documents are not validated against the CSAF schema. `Newer` is the `IF` of
`update_advisory`, `SameRevisionKey` the unique constraint; both with SQL's treatment of
NULL. Versions and dates are naturals, of which the code only uses order and equality.

`AdvisoryLog` is what callers rely on: the revisions of each advisory, its head, and the
withdrawn advisories, with atomic `Store` and `Withdraw`.

### AdvisoryStore

| Code | Model |
|---|---|
| tables `advisories`, `documents` (committed) | `advisories`, `documents`; `latest` NULL and FALSE are one value |
| `documents.id` identity | `sequence`, drawn by every INSERT, also by one that conflicts, never rolled back |
| row lock of an advisory | `lock` |
| an open transaction | `tx[w]` |
| `upsertAdvisory` | `UpsertAdvisory` (waits for the row and locks it) |
| INSERT ... ON CONFLICT DO NOTHING and the trigger's SELECT | `InsertDocument` |
| rest of `update_advisory` | `DecideLead` |
| COMMIT, answer received or lost | `CommitStore(w, heard)` |
| `TombstoneAbsent` | `BeginSweep` (snapshot), `SweepRow` (lock and look again), `CommitSweep` |
| deferred `tx.Rollback`, cancellation, crash | `Rollback` |

Uncommitted writes are kept in `tx` and become visible at commit, which is what READ
COMMITTED shows to others. Two workers that insert a new advisory at once meet on the unique index, which
blocks like a row lock, so `lock` stands for both. The trigger's SELECT and its updates are
separate steps, so that what it read can be stale when it writes; that it never is follows
from the lock of the advisory row, which is what `NoUniqueViolation` and the proof show.
Deadlocks of two sweeps and stores over several rows are resolved by PostgreSQL with a rollback,
an instance of `Rollback`.

### IngestCycle

| Code | Model |
|---|---|
| `Poll`'s ticker | `StartCycle`; a cycle of one ingester never overlaps with itself |
| `processROLIE` and `Downloader.Run` per feed | `VisitFeed`: a feed that is down is passed over, a feed with a restricted label is not downloaded |
| `processFile` and `Persister.Handle` | `MissFile`, `SkipFile`, `DropFile`, `StoreFile`, `RejectFile` |
| `checkFeedHealth` | `BeginProbe`, `ProbeFeed` feed by feed |
| `maybeSweep` up to the count | `DecideSweep`, with `EnumeratedAll`, the empty present-set and `Implausible` |
| `TombstoneAbsent` | `Sweep`, as `AdvisoryLog!Withdraw` |
| `SetWatermark` | `Record` |
| every error return, cancellation, crash and restart | `Abort` |

The provider is the environment. A file's URL names its feed and its advisory, not its revision,
so a listed file can be replaced before it is downloaded (`Fetched`), or be gone because it
was retired or moved to another feed (`Available`). `changed` and `faulted` in a cycle are
history: they say which advisories the provider touched, and whose file or feed failed,
while the cycle ran. No guard reads them. The feeds are visited in any order, which covers the order of every
provider's metadata. A lost answer to a store or to a sweep is the step followed by `Abort`.
`SetWatermark` is reduced to a flag, because nothing reads the time except the health endpoint.

### SchemaVersion and Migrations

| Code | Model |
|---|---|
| table `versions` | `versions`; absent as long as it is empty, since the script that creates it also fills it |
| the objects and backfills of the scripts | `schema`: the migrations whose effects the database has |
| `currentVersion`, two queries | `CheckTable`, `ReadVersion` |
| the plan of `Migrate` | `Pending`, kept in `proc[p].todo` |
| `applyMigration` | `RunScript`, `RecordVersion`, `Commit`, or `ScriptFails`, `RecordFails`, `LoseAnswer` |
| errors, cancelled contexts, crashes | `Disconnect`, `Crash` |
| `runMigrate`'s loop | `Fail`: back to `"table"`, or `"stopped"` after the deadline |
| `runServe`, `runPoll` | the process is `"working"` once `Migrate` has returned |

Each process is a build of some release, whose newest embedded migration is `Release[p]`: in a
rolling update an old and a new build start on the same database. Two transactions
at the same migration wait for each other (`Blocked`): they create the same relations, or
alter the same tables. The waiting one then fails, on its script or on the primary key of
`versions`. `Slow` are the migrations with a statement that takes longer than
`SECURITYPORTAL_QUERY_TIMEOUT`; the setup script never is, as it runs on an empty database. A
process that waits may run into the timeout as well.
Backoff and deadline are a choice between trying again and exiting. `ingest` is not in the model: it
does not migrate, although `README.md:105` says that it does.

### ServeLifecycle

| Code | Model |
|---|---|
| `runServe`, `runPoll` up to `Migrate` | `Start`, or `StartFails` (also when a signal cancels it) |
| `signal.NotifyContext`, errgroup's context | `Signal`; `Cancelled` |
| goroutine of `ListenAndServe`, channel `errs` | `listener`: `ListenerOpens`, `ListenerFails`, `ListenerCloses` |
| `Server.Run`'s select and `Shutdown` | `RunSeesError`, `RunSeesCancel`, `Drained`, `DrainExpires` |
| a request, up to and after its query | `Accept`, `Query` or `QueryRefused`, `QueryEnds`, `Answer` |
| `Poll` | `PollRefuses`, `FirstCycle`, `EndCycle`, `NextCycle`, `StopPolling` |
| `group.Wait` and what is returned | `LeaveGroup`, `groupErr` being errgroup's first error |
| deferred `db.Close`, exit of the process | `Exit`: waits for connections in use, cuts what is in flight |

A select with two ready cases takes either, so both `RunSeesError` and `RunSeesCancel` are
possible then, and a poll loop may take another tick after the cancel. `command` chooses `serve`
or `poll`; the latter has no HTTP server. A failed cycle does not end the loop, so `EndCycle`
stands for both outcomes. `failures` is history.

The model shows details that comments leave out. When the listener fails, `Run` returns without
`Shutdown`, so requests in flight are not drained. `server.go:168-170` says that the error is
non-nil "only if the listener itself failed", but an expired grace period returns the
error of `Shutdown` (`:189`). A signal during `Migrate` makes the command exit with an error. An invalid
ingest configuration ends the whole of `serve`, the API included.

### CveIndex and Extraction

| Code | Model |
|---|---|
| `unique_cves`, `documents_cves` (committed) | the variables of these names |
| `StoreDocument` up to the insert that fires the trigger | `BeginExtract`; the statement's snapshot is `tx[w].snapshot` |
| CTE `inserted`, row by row | `InsertCve`, which waits while another transaction has the same entry uncommitted (`Blocked`) |
| CTEs `selected` and `resolved`, the insert of links | `Resolved`, `InsertLinks` |
| COMMIT, rollback | `CommitDocument`, `Rollback` |
| PostgreSQL's deadlock detector | `AbortDeadlocked` |

The parts of one WITH statement see one snapshot. A conflicting entry that was committed after it
is neither inserted by this statement nor visible to it, which is how a link is lost.
`raced` is history: what others committed between a document's snapshot and its links.
`extract_products` and `extract_tsv` write rows of their own document only.

`CveIndex` is what is left of the promise of `extract_cves` when it races: documents are indexed one after the
other, each in one step, and a document may miss links only to CVEs that the dictionary
had before it. `IndexesAtomically` says that the overlapping transactions look like that.

### Publication and ReadApi

`Publication` has the publication policy twice, as the code has: `IsPublishable` trims and folds the
label in Go, `PublishableTLPSet` spells out the labels for `upper(d.tlp) = ANY (...)` in SQL, which
does not trim. Scores are in hundredths; `FacetBand` is the CASE of `facetSeverity`,
`InBand` the ranges of `severityCondition`.

| Code | Model |
|---|---|
| `newFilteredWhere` | `Visible`, `Selected`; filters other than label and severity are the set `Matches` |
| `orderClause` | `SortsBefore`, `Rank` |
| `parseListOptions` | `StartWalk`, `ClampedLimit`, `RefuseOffset` |
| `ListAdvisories`, two statements | `CountRows`, then `PageRows` with LIMIT and OFFSET as `Page` |
| `buildCollectionLinks`, `paginationBaseURL` | `HasNext`, `NextOffset`; the `"broken"` outcome of `PageRows` |
| `GetDocument`, `GetByPublisherTrackingID` with its handler | `Document`, `Permalink` |
| `ComputeFacets` | `CountTlp`, `CountSeverity`: the label column and the last statement stand for the seven |
| commits of the ingestion | `StoreDocument`, `TombstoneAbsent`: those of `AdvisoryLog`, with the rows' ids |

There is one client, who pages, keeps a row, or asks for the facets; reads change nothing, so
several would not disturb each other. `always`, `risen`, `sunk`, `pushed`, `repeated` and
`touched` are history: what the commits did to the rows the client is reading. A kept row
is a document id and the names of its revision, which is all the links contain. `PaddedNames`
are documents whose publisher has white space around it: `advisories.publisher`
is trimmed, the `publisher_name` of the link is not.

Three comments that the model does not follow: `links.go:88` says that a limit of 25 at offset 30
gives the previous offset 25, the code gives 0; `README.md:195` has the next link
"omitted at the end", while beyond `maxOffset` it is there and answered with 400 (`RefuseOffset`); and
`facets.go:180` says that the CASE mirrors `severityBands`, which have gaps (`InGap`).

## 4. Runs

| Run | Shows | Bounds |
|---|---|---|
| `store` | every property of the store and that it implements `AdvisoryLog` | 2 workers, 2 advisories, 4 revisions (initial, same-day update, late older one, one without a date), `MaxDocId` 4 |
| `store_incomplete_key` | a document without a revision history is stored again and again | as above, one revision |
| `ingest_shared` | what a sweep may withdraw, what a finished cycle has stored, no restricted document in the database | 2 ingesters, 2 advisories, 5 revisions (one restricted by its label, one the database refuses), 3 feeds, 1 edit, 1 fault |
| `ingest_alone` | the bound on a sweep, what a sweep leaves after a quiet cycle, and convergence in both directions | 1 ingester, 3 advisories, 5 revisions (one restricted by its label), 2 feeds (both public), guard from 2 advisories on, 1 edit, 2 faults |
| `ingest_skipped_file` | one skipped file withdraws a live advisory | 1 file fault |
| `migrations` | order, consistency of schema and version, and that every process comes up | 3 processes (`serve` and `migrate` of release 2, `poll` of release 1), versions 0 to 2 as in the repository, migration 2 slow, 2 faults, every initial version |
| `migrations_serve_only` | a slow migration keeps a server down for ever | 1 process, no fault |
| `lifecycle` | the drain, the exit status, that no worker is left stuck, and that everything stops | `serve` and `poll`, 2 requests, every failure at any point |
| `extraction` | what a race for a CVE costs and what it cannot, that `CveIndex` is implemented, deadlocks, and that stores end | 3 workers, 3 documents, 3 CVEs in orders that contradict each other |
| `extraction_lost_link` | a document stored without a link to its CVE | as above |
| `reads` | what a client that pages, keeps a link or asks for facets can rely on | 3 advisories, 5 revisions (a restricted one, one without a score, one between two bands, a padded name), 4 documents, 2 commits while the client is busy, pages of 1 or 2, `MaxOffset` 1 |
| `reads_links` | the next link of a filtered or sorted list is broken | as above |

*Why the bounds are enough.* Every interleaving hazard of the store is between two
transactions on one advisory; the second advisory is for the sweep's several rows, and four
ids let one document be tried again after a rollback. In the cycle the races are between
one ingester, the provider, and a second ingester; one edit or fault at every point of
a cycle, with a second cycle after it, reaches each. An edit publishes an advisory, revises it, moves it to another feed,
retires it or restricts it by its label; `RetiredGetsWithdrawn` is about the last two. A move to
a restricted feed, which to a cycle is a retirement (it never opens that feed), is not in the runs:
the theorems have it (`OnlyPublic`, `MirrorAlone`).
`MinCorpus` is 10 in the code and 2 in `ingest_alone`, where the guard is in force for three
advisories; in `ingest_shared` it is 10 and the guard is not.
In `extraction` three workers are the least for a circle of waiting transactions longer
than two. In `reads` two commits move a row past the client and another one after the
count; three advisories make three pages of one, the third beyond `MaxOffset`, and the limit 0
is the one that must be replaced.

*Fairness.* `PublishedGetsServed` and `RetiredGetsWithdrawn` assume weak fairness of each
ingester's steps: the ticker fires, each HTTP request has a 60 second timeout
(`provider.go`), and a database call returns. Nothing is assumed of the provider; the
properties have its health as a premise (`Healthy` for good) and the bound on faults says
that files do not fail for ever.

`ComesUp` assumes weak fairness of each process's own steps, starts included: docker compose
(`restart: unless-stopped`), systemd (`Restart=on-failure`) and Kubernetes start a failed
process again. In `migrations` the slow migration is applied by `migrate`, which has no statement timeout;
`migrations_serve_only` takes `migrate` away. Two faults let one transaction be lost and
another's answer too, and a third process takes part in every race of two.

`StopsAltogether` assumes that goroutines which can run do, that a cycle and a statement end, by
their timeouts or by the cancelled context, and, strongly, that a select does not prefer the
ticker for ever (`StopPolling`; Go chooses among ready cases at random). Clients need not do anything.
`EveryStoreEnds` assumes that a statement goes on when it can and that PostgreSQL
finds deadlocks; strong fairness of `InsertCve` is because a transaction that waits for an
entry is woken before a later one gets it. `WalkEnds` assumes that the client goes on and that its
requests return, nothing of the ingestion.

*Symmetry* of workers and ingesters is used for safety only.

### What the violated properties say

* `StoredOnlyOnce`: see the finding at `000-setup.sql:134`. `CompleteKeysStoredOnce` proves that incomplete
  revision keys are all there is to it.
* `SweepOnlyGone`: a file that is skipped counts as absent, and its advisory is withdrawn although every feed
  is healthy. `SweepJustified`, which holds, names the other way: a feed that was down during the pull
  and is back for the probe. `PublishedGetsServed` says that the next healthy cycle repairs the damage.
* `ComesUp` with a server alone: the statement timeout meant for reads also cancels migrations.
* `LinksComplete`: see the finding at `000-setup.sql:270`. `LinksLostToRaces`, which holds and is proved, says
  that nothing else loses a link, and `LinksCompleteAlone` that a single writer loses none; nothing
  repairs one, as the revision is a duplicate from then on.
* `LinksKeepQuery`: the link has two question marks; `WalkComplete` is about clients that count
  for themselves or have no parameters.

`SweepBounded` is a property of one ingester only: the count and the sweep are two statements, and
nothing keeps a second ingester from changing the corpus in between. `RetiredGetsWithdrawn` is about
retirements below the guard's fraction: a larger one is refused by every later cycle as well, which
`poll.go:37` leaves to an operator.

## 5. Proofs

All safety invariants and action properties that a passing run checks are theorems, and all three refinements. A
few theorems have no run of their own, because they bound what another one says:
`CompleteKeysStoredOnce`, `AckedIsServed`, `LinksCompleteAlone`, `OrderedStoresGoOn`, `WalksAreBounded`.

### Store

`AdvisoryStoreProofs` proves, for any sets of workers, advisories and revisions and any
`MaxDocId`, the seven safety properties of the store as theorems of `Spec`. The inductive invariant
`IInv` adds to them:

* `LockInv`: a worker in a store holds the lock of its advisory, and of no other; a sweeper
  holds exactly the rows it has marked;
* `IdInv`: every row has an id that was drawn, so the next id is fresh;
* `TxInv`: what each open transaction has read is still true: its revision is no duplicate, its `old` is
  the head, and it leads exactly when it should.

`TxInv` is why the properties are inductive: at COMMIT the new rows are computed from what was read
statements earlier. It survives the other workers' steps because they cannot touch a locked
advisory (lemma `TxFrame`).

Two theorems join these properties under a premise on the documents. `CompleteKeysStoredOnce`: where every document
has a revision history and a status, no revision is stored twice. `AckedIsServed`: nothing that
`StoreDocument` acknowledged is newer than the head it is served with, provided that a provider
does not reissue a version, history length and status with another release date, since that
document is dropped as a duplicate (`store.go:65`). Assumptions: the constants' named ones, that `NULL` is no row, worker
or revision.

`AdvisoryStoreRefinement` proves `ImplementsLog`: under the mapping `StoredRevisions`,
`HeadRevision`, `WithdrawnAdvisories`, `Init` maps to `LogInit` (`LogInitial`), a
`CommitStore` is `Store` of the transaction's revision (`LogStore`), a `CommitSweep` is
`Withdraw` of the marked rows (`LogSweep`), and every other step leaves the tables alone. The
argument for `LogStore` is `TxInv` again: the head that the transaction compared with is
still the head when it commits (`OldIsHead`), and its revision key is still free or taken.

### Ingestion

`IngestCycleProofs` is about any number of ingesters, feeds and revisions, any provider and any
`MinCorpus` and bounds. Its invariant is `CoverInv`: as long as the provider leaves an
advisory alone during a cycle and neither its file nor its feed failed, the advisory is
somewhere in the cycle: in the present-set, among the files still to process, in a feed
still to visit, or in a feed that is down, and the last only until the feed health has been
probed. It says nothing of other advisories, which is what `SweepJustified` excuses. At the
sweep only the present-set is left, which gives `SweepJustified`; at the watermark the
present-set or a feed that is down, which gives `PullComplete`. `OnlyPublicStored` is
inductive together with `FilesInv`: only files of publishable feeds are ever processed.

`BoundedAlone` proves `SweepBounded` for one ingester (`Ingesters = {i}`). `LoneInv` says that what the present-set
holds is active and that the numbers `Implausible` compared are still the numbers when the sweep
runs, because nobody else writes; the rest is arithmetic on cardinalities of finite sets
(`IngestAssumption` makes `Advisories` finite).

`MirrorAlone` proves `SweepMirrors`, also for one ingester: after its sweep, an advisory that the
provider did not change during the cycle is served only if it is published; and if it is, and
neither its file nor its feed failed, it is served, the published revision is stored, and the
head is not older than that revision. `CoverInv` says that each published advisory is in the
present-set by then; `PresentInv` is the converse, that the present-set holds nothing but what is published
or was changed meanwhile, and `HeadTop` that a head is not older than what was stored for it (`NewerOrder`: `Newer`
is a strict order, with NULLs too). It is the safety part of `PublishedGetsServed` and `RetiredGetsWithdrawn`: what is left to
TLC is that a quiet cycle comes and gets to its sweep. "Published" is `Publishes` in all three, which an
advisory that was restricted by its label or moved to a restricted feed does not satisfy.

### Migrations

`MigrationsProofs` is about any number of processes, releases and migrations. Its
invariant says of every plan that is still being carried out (`Planned`): the database is
at least where the plan starts, and every version from there to the newest is recorded. So
either the next migration of the plan is the next version of the database, or the primary key of
`versions` refuses it; and a setup script that has run in a transaction finds the
database still empty at its COMMIT, since no two transactions are at the same migration
(`AloneInv`) and every other plan needs an installed database. This gives `SchemaMatchesVersion`,
`WorksOnItsSchema` and the refinement of `SchemaVersion` (`InOrder`).
`TopInv` carries the existence of a newest version through the steps, which would otherwise
need induction on finite sets. Assumed is `MigrationsAssumption`.

### Extraction

`ExtractionProofs`, for any workers, documents and CVEs: what a transaction has inserted is nobody
else's and not in the dictionary, and each CVE it has passed is its own or committed (`TxInv`, `Apart`),
so whatever it left to another transaction was committed before it went on. That gives
`DictionaryCovers`; and what is missing from its links is then what others committed since
its snapshot, which is `LinksLostToRaces`. `DeadlockNeedsDisorder` rests on `Behind`: what a statement has
inserted lies behind its position in its own list. Were the lists in one order, then on a
circle the transaction at the awaited CVE of least rank would hold another awaited CVE, of
still lower rank (`LeastNumber` takes the minimum by well-foundedness, without an induction
over the circle).

`OrderedStoresGoOn` turns this into progress: while the documents being stored agree on an order,
some open transaction waits for nobody. `WaitsEndInCircle` has the reason, for finitely many workers:
the smallest set of transactions that wait only within it is a circle that PostgreSQL would
find, and there is none. Without the order TLC finds states in which everybody waits.

`IndexRefinement` maps each `CommitDocument` to `Index` of its document (`CommitIndexes`) and every other
step to a stutter. It needs `Own`: what a transaction has inserted is its own document's, and what others
committed since its snapshot (`raced`) is in the dictionary. `NoOrphanCve` is about the same COMMIT: an entry that
is new in the dictionary was inserted by this document and is among its links, and no later step takes links away.
For `LinksCompleteAlone`, with one worker, `Still` says that the dictionary is its snapshot as long as it
has a transaction open, so nothing has raced. Assumed is `ExtractionAssumption`: finitely many CVEs, documents with lists of them.

### Lifecycle

`ServeLifecycleProofs`, for any set of requests. The invariant relates the stages of the goroutines to each
other (`Stages`), says that a `Run` that has drained leaves no request in flight (`Quiet`), and
that every recorded error has happened and is not lost (`Recorded`). `NobodyStuck` follows: a failure is either
with the errgroup, which has cancelled the poller and `Run`, or still in `errs`, and then
`Run` is in the select that takes it; and a `Run` that drains has a listener goroutine
whose last word it is waiting for. It is the safety part of `StopsAltogether`.

### Reads

`ReadApiProofs`, for any advisories, revisions, labels and scores, any limit and any number of
commits:

* `WalkComplete` follows from `WalkTracked`: a row that stays in the list and was not moved is behind the offset until
  it is seen and before it from then on; and when the count announced no next page, before the
  end. It needs that a row's rank is below the number of rows (`RankBelowTotal`).
* `RowResolves` follows from `HeadRows` (the head of an advisory is the row that its id names) and
  `RowKept`, which survives because rows are only added and `Newer` is transitive.
* `FacetsMatchList` follows from `FacetsTracked` (counts still hold for what no commit has changed)
  and `BandsNest`, about the arithmetic of the bands.
* `GatesAgree` follows from the definitions, for every configuration of labels.
* `WalksAreBounded`: each statement of a walk lowers `WalkLeft`, a natural number, because a limit is at least 1
  (`ClampedLimit` replaces 0) and no offset beyond `MaxOffset` is counted (`WalkInBounds`). With the fairness of
  `WalkEnds` this is why a walk ends while the ingestion goes on adding rows.

Assumed are the constants' named assumptions: finitely many advisories, labels and scores of their types.

### What is not proved

Only model-checked: the liveness properties (`PublishedGetsServed`, `RetiredGetsWithdrawn`,
`ComesUp`, `StopsAltogether`, `EveryStoreEnds`, `WalkEnds`), since
liveness under fairness is out of the prover's reach; the safety part of three of them is proved, as said above, and
the ranking function of `WalkEnds`. The violated properties of section 4 are
counterexamples, not theorems.

## 6. Not modelled

`delete_advisory` (nothing deletes documents), timestamps `recent` and `withdrawn_at`,
hashing and OpenPGP (one outcome per file), configuration parsing, formatting of Atom, CSV and
OpenAPI, free-text search and its rank order, the five other facet columns and the cap of their
values, the validation of filters, the previous link, the health endpoint, the `ingest` command's frame,
`GetByTrackingID` and role principals (no caller), deployment files and tests.
