---------------------------- MODULE CollectorRun -----------------------------
(***************************************************************************)
(* What every collector job of the Dagster package shares: its row of      *)
(* weather_sync_runs, the facts and source records it has staged in        *)
(* memory, the short transactions it publishes them with                   *)
(* (chunked_publish.py), and how it ends.                                  *)
(*                                                                         *)
(* A behaviour follows one job, fixed in the initial state: each job has   *)
(* its own row, lock and worker.  Successive runs of the job reuse the     *)
(* variables; what an earlier run stored is the subject of FactStore.      *)
(*                                                                         *)
(* The worker's code is one try block, and any call in it may raise: the   *)
(* provider, the database, a limit, a cancellation.  Raise is that step;   *)
(* a condition under which the code must raise is a negated guard of the   *)
(* ordinary step, which leaves Raise as the only one enabled.              *)
(*                                                                         *)
(* A fact is [src, loc, n]: the n-th value of source record src for        *)
(* location loc.  A location is a number, which gives the order of ids.    *)
(***************************************************************************)
EXTENDS Integers, FiniteSets, SequencesExt

CONSTANTS
    Jobs,               \* the jobs a behaviour may follow
    Units,              \* what a job requests one at a time: grid, region, station, dataset
    LocsOf,             \* [Units -> Seq(Nat)]: the locations a unit's response fans out to
    PublishLocations,   \* PUBLISH_CHUNK_LOCATIONS, GRID_PUBLISH_LOCATIONS
    PublishValues,      \* PUBLISH_CHUNK_VALUES, GRID_PUBLISH_VALUES
    MaxValues,          \* the run's budget of normalized facts
    MaxRuns             \* [Jobs -> Nat]: bound on the ticks of a behaviour

ASSUME RunAssumption ==
    /\ LocsOf \in [Units -> Seq(Nat)]
    /\ {PublishLocations, PublishValues, MaxValues} \subseteq Nat \ {0}
    /\ MaxRuns \in [Jobs -> Nat]

VARIABLES
    job,
    runs,       \* ticks of the schedule so far
    row,        \* status of the job's newest sync run
    at,         \* where the worker is, "idle" without one
    sources,    \* source records staged in memory
    values,     \* facts staged in memory, in order
    queue,      \* what the flush under way still has to commit
    back,       \* where the worker continues after the flush
    facts,      \* facts this run has committed
    records,    \* source records this run has committed
    due,        \* facts of the responses the run has accepted
    fetched,    \* source records of those responses
    plans,      \* [Units -> status of the unit's export attempt]
    held        \* units whose prepared attempt the worker still holds

runVars == <<job, runs, row, at, sources, values, queue, back, facts, records, due, fetched,
             plans, held>>

\* "deferred": a rejection was tried and its write failed; the attempt stays preparing.
PlanStates == {"none", "preparing", "ingested", "rejected", "deferred"}
Terminal == {"success", "partial", "failed", "cancelled"}

Fact(src, loc, n) == [src |-> src, loc |-> loc, n |-> n]

FactsOf(src, locs, n) == [k \in 1 .. n * Len(locs) |->
    Fact(src, locs[((k - 1) \div n) + 1], ((k - 1) % n) + 1)]

(***************************************************************************)
(* chunked_publish.py: a generator of transactions.  It holds the facts    *)
(* and the locations it has not handed out yet; source records without     *)
(* facts go out last, in a transaction of their own.                       *)
(***************************************************************************)
CitedBy(vals) == {v.src : v \in ToSet(vals)}
LocationsOf(vals) == {v.loc : v \in ToSet(vals)}

chunk_publications(vals, maxLocations, maxValues) ==
    [vals |-> vals, left |-> LocationsOf(vals), most |-> maxLocations, room |-> maxValues,
     uncited |-> {}]

\* Mutation: Sources without facts are forgotten.
NoUncitedSources(srcs, vals) == {}

uncited_sources(srcs, vals) == srcs \ CitedBy(vals)

SourcesOnly(srcs) == [chunk_publications(<<>>, 1, 1) EXCEPT !.uncited = srcs]
NothingQueued == SourcesOnly({})
Drained == queue.left = {} /\ queue.uncited = {}

\* Whole locations in order of appearance, as many as fit and at least one.
location_chunk ==
    LET First(l) == Min({i \in DOMAIN queue.vals : queue.vals[i].loc = l})
        UpTo(l)  == {m \in queue.left : First(m) <= First(l)}
        Size(ls) == Cardinality({i \in DOMAIN queue.vals : queue.vals[i].loc \in ls})
    IN  {l \in queue.left : /\ Cardinality(UpTo(l)) <= queue.most
                            /\ Cardinality(UpTo(l)) = 1 \/ Size(UpTo(l)) <= queue.room}

Chunk == {v \in ToSet(queue.vals) : v.loc \in location_chunk}

\* Mutation: Each source record is sent once, with the first facts that cite it.
PublishSourcesOnce(chunk) == [sources |-> {v.src : v \in chunk} \ records, facts |-> chunk]

\* A publication carries its facts and exactly the source records they cite.
Publication(chunk) == [sources |-> {v.src : v \in chunk}, facts |-> chunk]

(***************************************************************************)
(* The database: ingest_batch re-checks that the run still owns its row    *)
(* through the source records it is given, and only through them.          *)
(***************************************************************************)
Alive == row = "running"

Ingest(pub) ==
    /\ pub.sources # {} => Alive
    /\ facts' = facts \cup pub.facts
    /\ records' = records \cup pub.sources

\* Publishes what is staged, then goes on at `next' with nothing staged.
BeginFlush(pubs, next) ==
    /\ CitedBy(values) \subseteq sources
    /\ queue' = pubs
    /\ back' = next
    /\ at' = "flush"

StagedAs(srcs, vals) == [chunk_publications(vals, PublishLocations, PublishValues)
                           EXCEPT !.uncited = uncited_sources(srcs, vals)]
Staged == StagedAs(sources, values)

\* ingest_fanout and _native_fanout: one response, outside the staged batch.
BeginFanout(pubs, next) ==
    /\ queue' = pubs
    /\ back' = next
    /\ at' = "fanout"

PublishChunk ==
    /\ at \in {"flush", "fanout"}
    /\ \/ /\ queue.left # {}
          /\ Ingest(Publication(Chunk))
          /\ queue' = [queue EXCEPT !.left = @ \ location_chunk]
       \/ /\ queue.left = {} /\ queue.uncited # {}
          /\ Ingest([sources |-> queue.uncited, facts |-> {}])
          /\ queue' = [queue EXCEPT !.uncited = {}]
    /\ UNCHANGED <<job, runs, row, at, sources, values, back, due, fetched, plans, held>>

\* Mutation: The batch is not emptied after it was published.
EndFlushKeepingBatch ==
    /\ at = "flush" /\ Drained
    /\ at' = back
    /\ queue' = NothingQueued
    /\ UNCHANGED <<job, runs, row, sources, values, back, facts, records, due, fetched, plans,
                   held>>

EndFlush ==
    /\ at = "flush" /\ Drained
    /\ at' = back
    /\ queue' = NothingQueued
    /\ sources' = {}
    /\ values' = <<>>
    /\ UNCHANGED <<job, runs, row, back, facts, records, due, fetched, plans, held>>

EndFanout ==
    /\ at = "fanout" /\ Drained
    /\ at' = back
    /\ queue' = NothingQueued
    /\ UNCHANGED <<job, runs, row, sources, values, back, facts, records, due, fetched, plans,
                   held>>

(***************************************************************************)
(* Export attempts.  Preparing one may fail, which leaves the unit without *)
(* or with a rejected one; the collection goes on either way.  A rejection *)
(* is best effort.                                                         *)
(***************************************************************************)
prepare(units) ==
    /\ held' \in SUBSET units
    /\ plans' = [u \in Units |-> IF u \in held' THEN "preparing" ELSE "none"]

Rejections(units) ==
    {[u \in Units |-> IF u \notin units THEN plans[u]
                      ELSE IF u \in failed THEN "deferred" ELSE "rejected"]
       : failed \in SUBSET units}

\* The worker takes the attempt out of its table; binding the response may fail.
Bind(u) ==
    /\ held' = held \ {u}
    /\ IF u \in held THEN plans' \in {plans} \cup Rejections({u}) ELSE UNCHANGED plans

Unroute(u) ==
    /\ held' = held \ {u}
    /\ plans' \in Rejections({u} \cap held)

\* The response is stored: the plan is sealed, or rejected when that fails.
Seal(u) ==
    IF plans[u] = "preparing"
    THEN plans' \in Rejections({u}) \cup {[plans EXCEPT ![u] = "ingested"]}
    ELSE UNCHANGED plans

(***************************************************************************)
(* The run.                                                                *)
(***************************************************************************)
\* The transaction of start_sync_run: a new row, with nothing stored or staged yet.
NewRow ==
    /\ ~Alive
    /\ row' = "running"
    /\ facts' = {} /\ records' = {} /\ due' = {} /\ fetched' = {}
    /\ sources' = {} /\ values' = <<>> /\ queue' = NothingQueued /\ back' = "idle"
    /\ plans' = [u \in Units |-> "none"] /\ held' = {}

Start(next) ==
    /\ at = "idle" /\ runs < MaxRuns[job]
    /\ NewRow
    /\ runs' = runs + 1
    /\ at' = next
    /\ UNCHANGED job

\* A tick that finds a running row ends without one of its own.
SkipOverlap ==
    /\ Alive /\ runs < MaxRuns[job]
    /\ runs' = runs + 1
    /\ UNCHANGED <<job, row, at, sources, values, queue, back, facts, records, due, fetched,
                   plans, held>>

\* publish_and_finish: the last source records and the final status in one
\* transaction, of a run that is still running.
Complete(status, last) ==
    /\ Alive
    /\ records' = records \cup last
    /\ row' = status
    /\ at' = "idle"

\* finish_sync_run leaves a terminal row alone.
Fail ==
    /\ row' = IF Alive THEN "failed" ELSE row
    /\ at' = "idle"

\* Everything the worker held in memory goes with the exception.
Drop == sources' = {} /\ values' = <<>> /\ queue' = NothingQueued

\* The lease expired and another process ended the run; the worker goes on.
Reap ==
    /\ Alive /\ at # "idle"
    /\ row' = "failed"
    /\ UNCHANGED <<job, runs, at, sources, values, queue, back, facts, records, due, fetched,
                   plans, held>>

\* The worker dies, or its terminal write fails: the row is left running.
Crash ==
    /\ at # "idle"
    /\ at' = "idle"
    /\ Drop
    /\ held' = {}
    /\ UNCHANGED <<job, runs, row, back, facts, records, due, fetched, plans>>

\* The recovery sensor ends the row of a worker that is gone.
Recover ==
    /\ Alive /\ at = "idle"
    /\ row' = "failed"
    /\ UNCHANGED <<job, runs, at, sources, values, queue, back, facts, records, due, fetched,
                   plans, held>>

RunInit ==
    /\ job \in Jobs
    /\ runs = 0 /\ row = "none" /\ at = "idle" /\ back = "idle"
    /\ sources = {} /\ values = <<>> /\ queue = NothingQueued
    /\ facts = {} /\ records = {} /\ due = {} /\ fetched = {}
    /\ plans = [u \in Units |-> "none"] /\ held = {}
=============================================================================
