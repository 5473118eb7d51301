# A TLA+ model of kor-travel-weather

kor-travel-weather collects weather from KMA, AirKorea and other providers with
Dagster jobs, stores it in PostgreSQL, and exports it to other services through
FastAPI. Its difficult part is not the weather. It is what happens between the
transactions: a collection must become visible all at once or not at all, while
collectors lose their leases, publishers overlap, partitions are dropped under an
ingest, readers page through what was current an hour ago and a collector of
garbage removes files. This directory models those protocols, model-checks them
on small instances and proves their safety for every size.

## The system

| Part | State it keeps | Operations | What is hard |
|---|---|---|---|
| Collectors (`kma_weather`, `mid_export`, `airkorea_weather`, `regional_sources`, `alert_events`) | staged facts and sources, prepared attempts | fetch, stage, flush, capture, finish | every call may raise, a run may be lost to another process in the middle of a batch |
| KMA rotation (`definitions`) | the slot of a chain of runs | choose the grids of a run | late and retried runs, edits of the catalog |
| Sync runs (`repository`, `external_weather`) | `weather_sync_runs` | start, heartbeat, ingest, publish and finish, finish, reap | a reaped worker does not know it; the reply of a COMMIT can be lost |
| Recovery sensor (`sync_recovery`) | position in memory | lease reaper, paged orchestrator sweep | rows are classified outside any transaction; lookups fail; the position is lost on restart |
| Source status (`export_status`) | latest terminal per source key, pending flag | record terminal, reconcile | terminals are projected out of order, some of them much later |
| Fact store (`repository`, `partitions`, `default_partition`) | sources, facts by day, projection, alert events | ingest, replay, project, retain, drop days, repair DEFAULT | the catalog of partitions is read in one step and used in another; DDL is deferred |
| Short-forecast retention (`retention`) | key and time in the asset's metadata | resume, purge in batches, sweep the head | rows arrive behind the position; clocks and policies change |
| Export attempts (`export_receipts`, `export_lifecycle`) | attempts, owners with epochs, expected chunks, closures, receipts | create, claim, expect, record, close source, close plan, reconcile | a newer attempt takes the scope at any time; the orchestrator is asked between two transactions |
| Promotion (`export_heads`) | plans, generations, heads, pins, publication clock | declare, bind, pin, verify, commit | the parent is read in one transaction and replaced in another, with file I/O between; crashes leave pins |
| Approved inventory (`export_inventory`) | latest generation per location | record, bootstrap | several namespaces and the bootstrap write one row |
| Publisher tick (`export_publisher`, `export_collector`) | session lock, keyset cursor, tick budget | retire, fresh phase, sweep, stop | a tick sees only a part of the candidates, broken ones use up its errors |
| Artifact files (`export_artifacts`) | content-named files, lock files | publish, present, read, guard | database and directory are not one transaction; readers and writers wait for each other |
| Snapshots (`export_snapshots`) | handles with a frozen vector of generations | freeze, reuse, renew, fall back, page, prune | a handle is committed without the guard and must outlive the heads it froze |
| Readers (`export_forecasts`, `export_mid_reader`, `export_daily_reader`, `export_locations`, `export_inventory_selection`) | cursors and `next_since` of clients | first page, next page, delta | publications, edits and expiries between two pages of one answer |
| Daily aggregation (`export_daily_store`) | checkpoint, summaries | refresh | two callers at one checkpoint; it walks behind publications |
| Artifact collection (`export_gc`) | none | scan, recheck, unlink | the live set is read by several statements |
| Admin, REST API, providers, Dagster wiring, AirKorea client, admin UI | – | – | see "Not modelled" |

Interaction: a Dagster asset starts a sync run, fetches, and for an export
creates and claims an attempt, binds the response, ingests chunk by chunk (the
receipt commits with the facts, the file is written after that) and closes. The
publisher sensor later reconciles the attempt (run, orchestrator, files), pins,
verifies and commits it as a generation that replaces the head of its namespace.
Readers freeze a vector of heads into a handle and page through the files of
its generations. The daily aggregation follows the generations in watermark
order; the collector removes files that no head, handle, unread generation or
pending attempt refers to. The nightly job drops old days of facts under the
ingests of all collectors. They share PostgreSQL rows, one directory and its file
locks; nothing else.

What makes each part correct: a run reports what it stored (collectors); one
running run per dataset, no living run reaped, no effect after the terminal, no
dataset blocked for ever (runs); a reader is shown the newest outcome (status);
one row per response, a projection that names the newest stored fact, no lineage
lost, no retained row dropped, no standstill unnoticed (facts); a generation is
the whole bound response of a successful run, the generations of a namespace are
one line whose head only advances, and every publishable attempt is published
(promotion, tick); no file disappears while somebody may read it and every other
one does in the end (files, snapshots, collection); an answer marked ok is whole
and a client that follows deltas misses nothing (readers).

## Modules

| Module | Models |
|---|---|
| `ExportLifecycle` | attempts, owners, receipts, closures, runs and what the orchestrator says of them: the tables and the collector's operations |
| `ExportHeads` | extends it with plans, generations, heads, pins, clock, inventory and the publishers; composes collectors, runs and publishers into one specification |
| `PublicationLog` | the abstract specification of publication: an append-only log |
| `ExportHeadsRefinement` | the refinement mapping from `ExportHeads` to `PublicationLog` |
| `ExportHeadsProofs`, `ExportHeadsPublicationProofs` | the theorems about `ExportHeads`: its safety; the refinement and the content of what it publishes |
| `ServingProofs`, `ExportReadersProofs` | the theorems about `Serving`: guard and ticks; readers |
| `SyncRunLeaseProofs`, `FactStoreProofs`, `ExportSnapshotsProofs`, `CollectionProofs` | the theorems about the components they are named after |
| `SyncRunLease` | sync runs, workers, both reapers, the recovery sensor, the status projection |
| `FactStore` | sources, facts, projection, partitions, the nightly job, the operator's commands |
| `CollectorRun` | what all collector jobs share: row, staging, chunked publication, ends |
| `KmaCollection`, `KmaAlerts`, `StationCollection`, `AlertEventSync` | the jobs, each extending `CollectorRun` |
| `StationRotation`, `ShortRetention` | the choice of KMA grids; the short-forecast retention job |
| `Collection` | composes the jobs |
| `ExportSnapshots` | files, attempts as writers of files, promotion, handles, aggregation, collector |
| `ExportReaders` | what clients of the export API are told, page by page |
| `ArtifactGuard` | slots, turnstile and file lock around the artifacts |
| `PublisherTick` | the sensor's evaluations and its cursor |
| `Serving` | composes the last three |
| `MC*` | the instances TLC checks |

### ExportLifecycle, ExportHeads, PublicationLog

A row of a table is a record (`AttemptRow`, `OwnerRow`, `PlanRow`,
`GenerationRow`, `HeadRow`, `PinRow`, `InventoryRow`), a missing row a record
with its initial values. A transaction is one action, because each one locks the
rows it decides on (`_locked`, `_current_owners`, `with_for_update`); what
the code does between transactions is a step of its own. `promote` is
therefore six steps of a publisher after `StartPromotion`: `ReconcileRead`,
`ReconcileVerify` (files and orchestrator, no transaction), `ReconcileSeal`,
`PinArtifacts`, `ReadArtifacts` (no transaction) and `CommitHead`, and `Crash`
may come between any two. `RetireSettled` is the first transaction of
`_publisher_terminal` as well as both statements of `retire_settled_attempts`.
`ProbeTerminal` and `RetireTerminal` are the rest of `_publisher_terminal`.

Digests are abstracted to what is compared: a chunk is recorded `exact` or not,
contents are compared by identity and have a number of points, a namespace is a
descriptor. Time stands for revision and fetch times. `Contents`, `Points` and
`MaxTime` give the cases of the shrink and revision guards.

`PublicationLog` is what the other parts rely on, without transactions, files,
publishers or ownership: publications are added one at a time, each later than
all others and after the latest of its own namespace, and are never changed; a
location is approved with later and later ones. `ExportHeadsRefinement` reads the
log off the generation and plan rows, the latest publications off the heads and
the approvals off the inventory. `ExportReaders` takes it for granted: there a
publication is its place in the watermark order.

### SyncRunLease

`sync` is `weather_sync_runs`, `worker` the process of the run, `status` the
status table, `sweep` the local state of the sensor. Every conditional UPDATE is
guarded by `Running`. `TerminalRows` and `RecordTerminals` are shared by all
who terminalise a run; the set `P` of each is the runs whose projection succeeded
in its savepoint, the others stay pending. `started_at` is taken before the
transaction that waits for the advisory lock, so `BeginStart` and
`StartSyncRun` are separate and rows may appear in another order than their
start times. The transaction itself is two steps: `CheckSyncRun` has the lock of the dataset,
locks the rows past their lease and finds no other run, `StartSyncRun` inserts its own and
commits; in between other starts, heartbeats, reapers and retries go on as far as the
locks (`StartLocked`, `Locked`) let them. The partial unique index is left out, so that
`OneRunningPerDataset` rests on the locks alone. `ReconcileExportStatus` takes the
oldest pending run that no other request has locked, one at a time; its projection
may fail again and then the run stays pending and is the next one tried. `Contradicted` are
runs whose projection always fails, because `record_terminal` rejects their
clocks. The sweep reads a page, classifies its rows one by one in keyset
order and then writes; the orchestrator and the workers go on between.

### FactStore

Time is counted in days. `facts` are the rows of `weather_values`, dated by the
day they became known; `attached` are the partitions, `floor` the constraint that
keeps days with a partition of their own out of DEFAULT, `limbo` the rows of
tables that are detached and not yet dropped. An ingest is two steps: it looks at
the source row and the catalog (`Validated` decides what is skipped as past
retention, re-dated or a replay), then it writes facts, projection and lineage;
another ingest or a DDL step may come between, and a writer that loses a lock
race starts again, at most `LockAttempts` times. The nightly job is one step
per transaction, any of which may be deferred because its lock is not granted or
may be the last before the job dies; deferrals are marked on the table and
counted. The operator may repair DEFAULT (`default_partition.py`) at any time; the
cutoff of a purge is computed once, when its command begins, and its later
transactions still use it.

### The collector jobs

A worker's code is one `try` block whose calls may all raise. `Raise` is that
step, and a condition under which the code must raise is a negated guard of the
ordinary step. `Reap` is another process ending the run, `Crash` the worker's
death without a word, `Recover` the recovery that follows. Staged facts are
flushed in the transactions of `chunk_publications`; each carries a source record
and so looks at the run's row again. The code's generator is a queue of what was
handed to it and what is left; `location_chunk` is the next batch of locations, in the
order in which their first facts were staged, and `Publication` the transaction made
of it. On top of this, `KmaCollection` has the
prefetch window, the budgets of rows and values, the two parts of a mid-term
region and the export captures; `KmaAlerts` the locations that are locked, tried
again, and reported in the note the next runs read; `StationCollection`
AirKorea's two runs and the regional rosters, where `beach_export` is KHOA's index, which
captures a planned station's record without the newest-record rule; `AlertEventSync` the
reading of a list that changes between pages, and its threads: one starts the run,
another publishes it. A cancellation stops neither. The worker awaits the start before it
seals the run (`"joining"`), but not the publication, so `PublishEvents` by the thread may
come before `SealCancelled`, after it, or not at all.

`StationRotation` and `ShortRetention` are not collectors of facts. The first
gives the grids of each slot's run; the second the purge that resumes behind the
key in its metadata. The code cuts sorted lists, the grids that fill up a slot and the
locations a note has room for; the models say it by rank, so many elements come
before this one.

Each job has its own row, lock and worker, and the jobs meet only in the tables
`FactStore` and `SyncRunLease` are about. In `Collection` a behaviour therefore
follows one job, fixed in the initial state, and the other variables rest.

### ExportSnapshots

Attempts appear here only as writers of files; what makes one publishable is in
`ExportHeads`. The guard is the predicate `GuardFree`: every section under the
guard except the collector's is a single action, and the collector is inside it
from `GCLock` to its last unlink. `live_artifact_digests` is two steps, because
its statements see different committed states; `lstat` and `unlink` are two steps
as well. The two inserts of a capacity fallback from an expired handle are one
action, since nothing depends on the first without the second. Handles are a
sequence in issue order. Time is bounded by `Horizon`, after which nothing new
begins, plus all the windows, so that everything expires within the bound.
`LatestSnapshots` is 0 in `snapshot_reader`: the newest handles are kept
whatever their age, which can only protect more files, and other selections may use all
of them up. It is 1 in `snapshot_files`, where a kept handle holds files until
it is pruned.

### ExportReaders, ArtifactGuard, PublisherTick

`ExportReaders` has the five readers as styles of one request: the first page
freezes, later pages follow the cursor, and each page looks at catalog, freshness
and coverage when it is answered. A client keeps what it was given and goes on
with `next_since` where the style has it. `ArtifactGuard` has one step per lock:
a reader takes a slot, passes the turnstile and shares the file lock, a writer
holds the turnstile until the readers are gone; every wait may time out and every
thread may die. `PublisherTick` has one step per candidate; a promotion publishes
the attempt, settles it or leaves it, and that it may do so is shown in
`ExportHeads`. In `Serving` a behaviour follows one of the three: readers
and ticks never wait for each other except in the guard, and what they share is
the subject of `ExportHeads` and `ExportSnapshots`.

## Runs

| Run | Instance | Checks |
|---|---|---|
| `heads_race` | 2 attempts, 2 publishers, 2 namespaces of one scope, 1 location, a crash | `OwnerFreezesHead`, `ImplementsLog` |
| `heads_timeline` | 2 attempts, 2 contents (one less than half the other), 2 times | `ShrinkBounded`, `FetchNeverOlder`, `PinsReleased`, `RevisionsInOrder` |
| `heads_liveness` | 2 attempts of an orchestrated run, 2 chunks, a publisher, a crash, `FairSpec` | `PublishedComplete`, `PublishedRunsSucceeded`, `SealedOwnerSurvives`, `PublishableIsPublished`, `EndedIsSettled` |
| `lease` | a native and an orchestrated run of one dataset | `OneRunningPerDataset`, `LoadedIsExact`, `StatusIsCurrent`, `LiveRunsSurvive` |
| `lease_sweep` | 2 orchestrated runs, one of which can never be recorded, a page of 2, a fault, `FairSpec` | `AbandonedIsReaped`, `TerminalsAreShown` |
| `snapshot_reader` | 2 attempts, a reader, an aggregation, the collector | `VerifiedFilesPresent` |
| `snapshot_files` | 3 attempts, two with the same content, and one trouble: a second aggregation, a late write, a collection that dies, or a client whose snapshot is the newest; `FairSpec` | `PublishedFilesPresent`, `GarbageIsCollected` |
| `facts_ingest` | 2 writers, 2 revisions of one point, 4 days, retention of one day | `OneRowPerResponse`, `CurrentIsNewest`, `PointersNameFacts` |
| `facts_retention` | 1 writer, a short forecast for day 3, an alert response, an operator's command | `LineageKept`, `MissedTwiceIsOverdue`, `RetainedNeverDropped` |
| `facts_hole` | an ordinary point, a short forecast for day 5, days 1 to 5 | `DroppedDayNeverFailsBatch`, which is violated (see "Findings") |
| `collection` | all 14 jobs, each limit small enough to be met, up to 3 runs of a job | `SuccessIsComplete`, `StarvedIsReported`, `RosterConfirmed`, `FullSweep`, `NothingHidesBeforePosition`, `EveryNoticeOnce`, `LostRunPublishesNothing`, `CancelledIsSealed`, `RunEnds`, `PlansSettled` |
| `serving` | 5 styles, a client, 2 locations, pages of one; 3 readers and 2 writers with 2 slots; 3 attempts, one broken, one undeclared, a fault | `DeltaMissesNothing`, `OkIsWhole`, `SomebodyGetsIn`, `EveryCandidateConsidered` |

What they show beyond their names. `ImplementsLog` is the refinement: a crash, a
retirement or a change of owner between any two steps of two promotions leaves one
log. `PublishedComplete` and `PublishedRunsSucceeded` say that a published attempt
is the whole bound response of a run that both the database and the orchestrator
call successful, although the orchestrator was asked between two transactions.
`CurrentIsNewest` and `OneRowPerResponse` hold although the same response is fetched
on several days and outlives the partition of its first fetch. `PointersNameFacts`
rests on the foreign key being dropped and validated around a detach: an ingest may
put back a pointer to the leaving day, and the validation then fails and is
repeated. `MissedTwiceIsOverdue` holds even when the mark on the table could not be
written; it leaves out a day that an operator created anew after it had passed,
whose table starts without a mark. `SuccessIsComplete` says that a run which ends
green or partial has stored all it accepted, except what its note admits.
`CancelledIsSealed` says what a cancelled alert run leaves behind: no running row, none
that starts afterwards, and a success if its events were stored, whichever of the
thread and the handler came first. `RunEnds` speaks of the row as well as of the worker.
`RevisionsInOrder` is about all generations of a namespace, of which the commit compares
only the last. `EndedIsSettled` covers runs that failed, runs that the orchestrator alone
calls failed, and successful ones; the successful attempts that it leaves pending are in
the observations below. `TerminalsAreShown` says that an outcome reaches the status
table, or a newer one does; a retry takes only the oldest pending run, and
the exception is a run that cannot be recorded and holds up all newer ones.
`GarbageIsCollected` lets a file stay while a head, a pending attempt or an unexpired
handle needs it; generations not yet aggregated and handles past their
expiry must let go of it.
`DeltaMissesNothing` is about the chain of answers, not about one. `EveryNoticeOnce`
says that a list of notices which changes between the pages is still published
whole, each notice in a version it had during the run.

Bounds. Two attempts are enough for every race in `ExportHeads` between an attempt
and what overtakes it; the theorems remove the bound for the properties they cover.
Two publishers are one more than the lease admits. One crash is enough to leave each
intermediate state behind, because the retry starts from the rows alone. The clocks
have the fewest values that tell expired from valid; in `FactStore` four days let a
response be stored, expire, be fetched again and expire again. In `snapshot_files`
the third attempt repeats the content of the first, so that old garbage is needed
again, and two aggregations read one checkpoint, of which the slower one must not take it
back; a snapshot's validity is over at once there (`TTL` 0), and what holds its files is
that it is among the newest, until it is pruned. In `collection` every budget is two to five, so that a flush takes several
transactions and each limit is reached from both sides, three runs of the alert job
are one more than a streak of `StarvedRuns`, and a list of notices has up to three
pages of one notice. `EveryCandidateConsidered` counts the ticks that make headway;
`TickAssumption` is what lets them: broken candidates are fewer than the errors that
stop a phase, and a tick takes more candidates than the fresh phase can use up (see
the observations below for what happens otherwise).

Constraints. `CollectorOrder` restricts the runs of `ExportHeads` to the order
in which the collectors call the operations; the theorems do without it.
`UnrejectedOrder` also drops rejected attempts where only times matter.
`SecondChunkAlone` gives a second chunk only to an attempt that is alone: what it
removes are interleavings with another attempt, and it cuts no step of a publisher
or of retirement, so the fair steps of `heads_liveness` are all within it.
`PublishedSoon` lets an ingest take at most a day in `facts_ingest` and leaves
deferred steps to `facts_retention`. On the last day of the instance, which is
there for what retention does with the days before, `LastDayCalm` leaves one
ingest in `facts_ingest` and `LastDayQuiet` none in `facts_retention`.
`OneTrouble` keeps the alert response, the
operator, deferral and repeated ingests of `facts_retention` from meeting each
other; each of them meets everything else. `TroublesApart` does so for the second
aggregation, late writes, stopped collections and the client of `snapshot_files`;
`snapshot_reader` has the client with everything but the second aggregation and stopped
collections. Of the fair steps it cuts only starts of the second aggregation, after the
first batch or while there is another trouble, and then the first one does the work.
`ForwardKept` leaves in `facts_hole`
only days that retention itself has removed. No liveness run uses symmetry;
elsewhere symmetry is over attempts, publishers, writers and, if all are native,
runs: no operator chooses among them (`Newest` in `SyncRunLease` does, by rank,
and its runs use no symmetry).

Deadlock is not checked: the instances are bounded, and the system is at rest
when every attempt is settled and the clock has reached its bound. That waiting
threads do not block each other is `SomebodyGetsIn`; that jobs end is `RunEnds`.

## Fairness

- `ExportHeads`: weak fairness of each publisher's next step and of retirement,
  because the sensor ticks for ever; strong fairness of `ProcessCandidate` for
  each candidate, because the keyset sweep comes back to every pending candidate
  but a publisher may be busy with another one when it does.
  `EveryCandidateConsidered` of `PublisherTick` is the reason for it. Collectors,
  runs and the orchestrator owe nothing.
- `SyncRunLease`: the clock, the sensor, the reconciliation that each status
  request tries, a start that has the lock (its transaction commits or dies), and the
  orchestrator noticing a worker that is gone (run monitoring). Workers owe nothing
  else. The number of failed lookups, failed retries and restarts is bounded: a lookup
  that fails for ever does starve its page, and a run that can never be recorded
  (`Contradicted`) every retry after it.
- `ExportSnapshots`: the clock, the collector, pruning and aggregation, which the
  publisher's ticks call. Readers and attempts owe nothing: an attempt that
  never ends keeps its files, which `GarbageIsCollected` allows.
- `Collection`: the worker and its threads go on unless the process is killed. Requests
  have timeouts and the code waits for nothing else. The recovery of a row whose worker
  is gone is fair too, for which `AbandonedIsReaped` of `SyncRunLease` is the reason.
- `FactStore` and `Serving` state no fairness. `EveryCandidateConsidered` counts
  ticks instead.

## Theorems

`ExportHeadsProofs` proves `TypeCorrect`, `Spec => []TypeOK`, for every set of
attempts, runs, publishers, namespaces, chunks and locations and every bound, one
lemma per action. It also proves `HeadIsFrozen`, `ShrinkIsBounded`,
`FetchIsNeverOlder`, `WatermarkIsUnique` and `RevisionsAreOrdered`. None of these
properties is inductive. The parent is read when files are pinned, the shrink
guard earlier still, when the response is bound, and neither is looked at again
except for the comparison of the parent's identity. What connects those moments
is ownership: while an attempt owns its scope, nobody else can commit there, so
the head stays what it was at the claim. The inductive invariant
`IInv == TypeInv /\ Support /\ Safety` says this in seven supporting parts:

- `ClaimedAttempts`, `DeclaredAttempts`, `BoundAttempts`: what a row in each
  stage has been through, so that an attempt at a later stage has a scope, a plan
  and a bound response;
- `PromotedAttempts`: what a publisher between two transactions knows;
- `PublishedAttempts`: what a committed attempt and its parent were;
- `WatermarkIsLast`: the publication clock is not before any generation;
- `OwnerOutlastsHead`: the owner of a scope claimed it after the attempt behind
  the head of each namespace of that scope; from this and the epochs follows that
  the attempt which bound its response against a head still faces that head
  when it commits.

`RevisionsAreOrdered` is about every two generations of a namespace, and the commit
looks at the last one only. `RevInv` adds what makes that one enough: the head names a
committed generation and has its revision (`HeadIsPublished`), and no generation of the
namespace is later than it or has a higher revision, or its revision with another
content (`HeadIsNewest`). The new generation is past all others by `WatermarkIsLast`,
and the rows of published attempts no longer change.

`ExportHeadsPublicationProofs` proves `PublicationIsALog`, `Spec =>
ImplementsLog`: initial states map to the empty log, and under `IInv` every step
maps to a step of the log or a stutter. `CommitHead` maps to `Publish` together
with the approvals of its locations; that its parent is the latest publication of
the namespace and its watermark past all others is what `IInv` gives. The
bootstrap maps to approvals alone. All other actions leave log, latest and
approvals as they are.

The same module proves what publication promises about content.
`PublishedRunsSucceed` needs to remember, in `CInv`, that a sealed attempt was
sealed when its run had succeeded in the database and that a run which ended
stays as it ended. `PublishedIsComplete` needs that a closure lists chunks of the
declared plan, that what a publisher has validated stays recorded, and that chunks
are only added while the attempt is preparing. `SealedOwnersSurvive` is an action
property: the retirement's statements name superseded or settled rows only.
`PinsAreReleased` has the hypothesis `OnePublisher`, at most one publisher,
which is what the publisher lease provides: with two of them the slower one
pins after the faster one has committed, and the statement is false.

`SyncRunLeaseProofs` proves all four safety properties of the runs. `LeaseInv`
says what a worker between two steps may believe, what stays true between the check and
the insert of a start because the lock and the row locks are held (`StartsHold`), that a
terminal row never changes again, what a sweep has on its page, and that a terminal whose projection
is pending has no newer one shown in its place. `Newest` is a least element by
rank, and that there is one needs the table of runs to be finite
(`LeaseAssumption`) and the least-number principle, which
`WellFoundedInduction` states for sets and not for operators.

`FactStoreProofs` proves five of the six properties of `FactStore` and its
types. Lineage and retained forecasts follow step by step. The other three
depend on what is inside the partition window, and `WindowInv` says it:

- `FloorHasDay`, `CatalogKnows`: a day is not attached and detached at once, and
  while the floor is validated a fact lies on an attached day or below the floor;
- `JobKnows`: what the nightly job has listed is still so when it comes to it. The
  days to drop are detached, the expired ones attached, and all of them before a
  cutoff that is not after the latest one at which pointers were purged;
- `MarksKnow`: a missed day whose table is still there carries its mark, or the
  run that missed it hands it to the next one;
- `PointersKnow`, part of `ProjectionKnows`: a pointer is about its own point and
  dangles only below the latest purge, and the operator's purge stays below it.

`ProjectionKnows` adds `PointersNameFacts` and `CurrentIsNewest` themselves, which
are inductive together: a projection row is replaced only by a revision that sorts
after it, and one that is deleted names a fact outside the window.

`ExportSnapshotsProofs` proves `PublishedFilesPresent` and `VerifiedFilesPresent`. The
difficulty is that the collector unlinks by a list it made earlier. `FilesInv`
adds that while the collector is between its second look and its last unlink
(`GuardKnows`) its list has the files of the heads, of the generations still to
be aggregated, and of every snapshot a request has looked at and still relies on;
that a file about to be unlinked is not on the list (`VictimIsGarbage`); that
requests refer to rows that were issued (`HandlesKnown`), and that an aggregation
never takes the checkpoint back (`BatchesGoOn`). A reader issues, reuses and
copies snapshots without the guard, so its steps are proved by their effect:
`Extended` (rows are only added; a row keeps its vector, does not come back from
pruning, and its expiry moves only while it is valid) and `Continues` (a request
comes to rely on files only by looking at them under the guard). A snapshot that
is renewed during a collection was valid when the collection began, since
`clock` is not after `now`, and is on the list already.

`ServingProofs` proves `SomebodyGetsIn` and `EveryCandidateConsidered`. For the
guard typing is enough, and the argument is which waiting thread has come furthest:
a reader behind the turnstile finds no writer at the file, a writer in the
turnstile finds nobody, with an empty turnstile a reader with a slot or a writer
passes it, and otherwise all slots are free. For the sweep, `Distance` is the
number of ids between the cursor and an attempt, going round from the last id to
the first. `CursorComesBack` says that the ticks that passed an attempt over and its
distance are together fewer than the attempts: a tick that counts as passing it
over has brought the cursor nearer. `NobodyPassed` says so of a tick in
progress, and `PageKnows` what it rests on, that an attempt after the position
which the tick has not seen is still on the page or beyond it, and that in the
second case a row more was read, so the sweep does not start again from the first
id. `OrderedById` shows that the query's `ORDER BY` with a limit skips nobody. From
`TickAssumption` the proof uses only that the attempts are finitely many and that
pages and ticks have room for one; the number of broken candidates matters for
whether ticks make headway, which the property presupposes.

`ExportReadersProofs` proves `DeltaMissesNothing` and `OkIsWhole`. Both follow one
publication on its way to a client, and `ReadersInv` has a part for each station: a
freeze takes the rows of all its locations as they were at one watermark
(`FrozenWell`); a handle that is issued, reused or fallen back to answers the
watermark the client asked from (`HandleKnown`); the pages answered so far brought
only what the handle has, left out only what was over, and if all were ok brought
everything (`BroughtOnly`, `LeftOutOver`, `OkBrought`); and the copy a client keeps
has for each location the newest row up to `next_since` unless it is over
(`HoldsRow`). `Carries` says what no step does to what was read before: publications
and snapshots are only added.

`CollectionProofs` goes job by job, since a behaviour follows one (`JobIsFixed`).

- `LostRunPublishesNothing` needs `IsQueue` only: while something is left in the
  queue, the next transaction carries a source record, and it is that record whose
  insertion looks at the run's row.
- `CancelledIsSealed`: `EventThreads` says which thread may be under way at each step of
  the worker and what its row says then: no row runs while a thread starts one, a thread
  left with a publication has a worker that is sealing or gone, and events are stored
  only in a success.
- `SuccessIsComplete`: `CompleteInv` says where everything accepted is at each moment,
  stored, left in the queue, or staged (`Owed`). Each job adds at which steps its
  staging is already flushed (`KmaComplete`, `AlertComplete`, `RegionalComplete`,
  `AirKoreaComplete`, `EventComplete`). The lemmas they share say that a chunk and
  what is left after it are what was there before, and that a queue with something
  left has a next chunk, for which the first facts of the locations are
  put in order by the least-number principle.
- `RosterConfirmed`: `RosterInv` connects a capture with the response it was made
  from, through the fan-out to the sealed attempt; `NewestOf` is the rule that KHOA's
  index does without.
- `StarvedIsReported`: by `StarvedInv` notes and history are finite, and a note with
  room for all has all (`NoteListsAll`), so that the intersection the code reports
  is the set of starved locations.
- `FullSweep`: `RotationInv` says what a slot's run asked for. The slots of a turn have
  different remainders, so their windows together have every place of the list
  (`WindowsCover`, `RemainderOfSum`), and every enabled location has a place.
- `NothingHidesBeforePosition`: `PurgeKnows` says of a purge in progress that what is
  stored up to its position arrived after the last head sweep, through batches that
  are cut off, put back and repeated.
- `EveryNoticeOnce`: two lists with the same newest notice are versions of one
  another, place by place (`Aligned`), a later list has no earlier newest notice
  (`Before`), and a newest notice is in no list older than itself (`Fresh`). A run
  that succeeds read its first page again and saw as many different notices as the
  list is long, hence every page came from a list with the first one's places
  (`PagesKnow`, `EventInv`).
- `PlansSettled`: an attempt in preparation is one the worker still holds, but for the
  one whose response it has in hand, and before a run ends well nothing is held any
  more (`KmaPlans` with `MidHolds`, `RegionalPlans`, `AirKoreaPlans`, together
  `PlansInv`). The first part is an invariant of all jobs; the second speaks of the
  step with which a pipeline of nowcasts or forecasts fails.

The only assumptions are the named ones on the constants (`ConstantsAssumption`,
`HeadsAssumption`, `LeaseAssumption`, `FactAssumption`, `SnapshotsAssumption`,
`GuardAssumption`, `TickAssumption`, `ReadersAssumption`, `RunAssumption`,
`KmaAssumption`, `AlertAssumption`, `StationAssumption`, `EventAssumption`,
`RotationAssumption`, `ShortRetentionAssumption`), which TLC evaluates in each run,
and `OnePublisher` where it is said. Most of the inductive invariants were first
checked with TLC on the instances of their runs, leaving out typings that TLC cannot
enumerate.

Only model-checked:

- everything under fairness, which is out of the prover's reach; and
- `OneRowPerResponse` of `FactStore`, which does not hold without the constraint
  of its run: if the job could not create the forward days in time, a response
  may be stored on an older day and again after the gap has been filled. Stating
  it without that hypothesis would need an account of which gaps are filled later.

## Findings

- `facts_hole`: the docstring of `_retention_bounds` says that a fact dated in a
  day which retention has dropped is skipped, not a failure of its batch. The
  horizon is the oldest attached day. Retention keeps an expired day that holds
  short forecasts still needed and drops newer expired days behind it, so a
  dropped day can lie above the horizon; a fact that arrives dated there finds no
  partition, DEFAULT's floor refuses it and the batch raises.

Observations without a run of their own.

Publication and snapshots:

- The comparison of the parent in the final transaction can only refuse an
  attempt that has lost its scope or was committed (`OwnerFreezesHead`), so it is
  a second line of defence.
- A newer claim that fails later still supersedes an older attempt that succeeded.
- Two publishers of one attempt can leave pins behind, which only the publisher
  lease prevents.
- `ensure_snapshot_files` says that it reissues a snapshot once before it answers
  503; the loop issues a third one, which nobody looks at.
- The docstring of `live_artifact_digests` speaks of one point in time, its
  statements see several; `PublishedFilesPresent` shows that the second look under the
  guard and the new mtime of a rewritten file make this harmless.
- Three candidates whose evaluation always fails stop the fresh phase of each
  tick, and with it the sweep, and as many fresh candidates as a tick takes leave
  the sweep nothing; `TickAssumption` excludes both.

Readers:

- A location that is enabled again after its scope was published is not in a
  delta, although the pages say ok.
- One mid-term location with one expired part makes the whole style unavailable.
- A location in the frozen list of daily summaries that was first published after
  the freeze and is disabled while its page is answered is missing, although all
  pages say ok; `OkIsWhole` leaves it out.
- Pages of daily summaries do not compare the frozen list with locations enabled
  since.

Facts and retention:

- A pending run that the status table can never record is tried first by every request
  and holds up the retries of all newer pending runs (`TerminalsAreShown`).
- A projection of a terminal that comes late is dropped if a newer run was
  projected, so `last_success_at` may miss a success.
- A repeated `establish_floor` partitions days again that retention had dropped;
  a floor whose first day is deferred makes that day look expired.
- A head sweep of the short-forecast job that runs out of time is recorded as
  made, and its `complete_snapshot` does not cover the rows before its position.

Collectors:

- AirKorea's fallback for an anchor without an address always fails; its
  `keep_alive` runs outside the `try`, so a lost lease there leaves the row running
  and its attempts preparing until recovery.
- The error path of `publish_regional_records` does not settle its captures; a
  KMA lease lost between preparation and pipeline, or an ingest that raises with a
  response in hand, leaves attempts preparing; `mid_export` rejects nothing when
  it fails. The publisher's retirement cleans up after all of them
  (`EndedIsSettled`).
- Retirement does not reach an attempt of a successful run that was never claimed or has
  no declared plan, nor one that promotion refuses for its content or revision
  (`Leftover`): it stays pending, and keeps its files, until a newer attempt claims its
  scope.
- A cancelled alert run may end as a success: the thread that publishes it is not stopped
  and may commit before the handler seals the run.
- The alert pages of a successful run are one snapshot only up to two pages. With
  three, two notices corrected in place between the pages give a mixture that no
  list ever was: one in its old version, one in its new. `EveryNoticeOnce` says what
  does hold.
- The search for starved locations does not see ids past the note's length, nor
  beyond the runs it lists.

## Not modelled

- Page contents, aggregation arithmetic, hourly winners, the one-off backfill of
  summaries, provider formats, quotas, the mapping of alert areas to locations:
  data rather than protocol.
- Cohorts and descriptors: identities, represented by model values.
- Admin sessions, credentials and the login limit: single-row transactions apart
  from collection and publication.
- REST routing, Dagster wiring, metrics, settings, command line and migrations:
  no protocol state. Export requests enter through `ExportReaders` and
  `ExportSnapshots`.
- The readers' branches without the approved inventory, which the API never takes.
- Providers and the AirKorea client, which are I/O and a library; the admin UI,
  which only calls the API.
- Files removed by hand and disk failures. Clocks run backwards only in
  `ShortRetention`, whose code looks for it.

## Plan

What is left, in this order:

1. `OneRowPerResponse`, with the gaps of the forward window in the invariant.
2. The branches of the readers without the approved inventory, if the API ever takes
   them.
