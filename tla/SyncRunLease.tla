----------------------------- MODULE SyncRunLease -----------------------------
(***************************************************************************)
(* The lease of a source sync run (weather_sync_runs in repository.py):    *)
(* one running run per dataset, the heartbeats, publications and finish of *)
(* its worker, the two reapers that fail the run of a worker that died     *)
(* (the lease reaper and the orchestrator sweep of the                     *)
(* weather_sync_recovery sensor), and the projection of every terminal     *)
(* into the status table the export API reads (export_status.py).          *)
(*                                                                         *)
(* Ownership is one column: every writer is a conditional UPDATE on        *)
(* status = 'running', or locks the row and checks it.  A worker never     *)
(* learns that it was reaped until its next statement; the sweep reads a   *)
(* page of rows, asks the orchestrator about each one outside any          *)
(* transaction, and only then writes.  A start checks the rows and inserts *)
(* its own in one transaction that holds the advisory lock of the dataset  *)
(* and the rows it reaps; the partial unique index behind that lock is not *)
(* modelled, so that what is shown rests on the lock alone.                *)
(*                                                                         *)
(* Abstractions.  A run is one worker process that calls start_sync_run    *)
(* once.  A publication is one committed batch of facts and counts as one  *)
(* loaded value.  The keys a run reports (export_status_scopes) are those  *)
(* of its dataset plan; the catalog does not change.  The clock does not   *)
(* tick between the page query of the sweep and the cutoff it takes right  *)
(* after it.  Times that decide nothing (finished_at, and the times of the *)
(* last success and failure in the status table) are left out.             *)
(***************************************************************************)
EXTENDS Naturals, FiniteSets

CONSTANTS
    Runs,           \* sync runs (run_id)
    DagsterRuns,    \* the runs with an orchestrator_run_id
    DatasetOf,      \* (provider, dataset_key) of a run
    Keys,           \* status scopes (provider, dataset_key, forecast_style)
    KeysOf,         \* [Runs -> SUBSET Keys], export_status_scopes
    Contradicted,   \* runs whose clocks record_terminal never accepts
    Rank,           \* [Runs -> Nat], the order of the run ids
    Lease,          \* SYNC_RUN_LEASE_MINUTES
    Horizon,        \* bound: workers act up to this time
    PageLimit,      \* rows of one page of the sweep
    MaxBatches,     \* bound on the publications of a run
    MaxFaults,      \* bound on failed lookups and retries and on restarts
    None            \* SQL NULL

ASSUME LeaseAssumption ==
    /\ IsFiniteSet(Runs) /\ DagsterRuns \subseteq Runs
    /\ KeysOf \in [Runs -> SUBSET Keys]
    /\ Contradicted \subseteq Runs
    /\ Rank \in [Runs -> Nat]
    /\ \A r, q \in Runs : Rank[r] = Rank[q] => r = q
    /\ Lease \in Nat
    /\ Horizon \in Nat
    /\ PageLimit \in Nat \ {0}
    /\ MaxBatches \in Nat
    /\ MaxFaults \in Nat
    /\ None \notin Runs

VARIABLES
    now,        \* wall clock
    sync,       \* [Runs -> row of weather_sync_runs]
    worker,     \* [Runs -> the process that collects]
    facts,      \* [Runs -> publications committed for the run]
    orch,       \* [Runs -> what the orchestrator knows of the worker]
    status,     \* [Keys -> row of weather_export_source_status]
    sweep,      \* local state of the recovery sensor
    faults      \* number of faults so far

vars == <<now, sync, worker, facts, orch, status, sweep, faults>>

Terminal  == {"success", "partial", "failed"}
RunStatus == {"none", "running"} \cup Terminal

\* `by' is who terminalised the run, as its error text tells.
SyncRow ==
    [status : RunStatus, started : Nat, beat : Nat, pending : BOOLEAN, loaded : Nat,
     by : {"none", "worker", "lease", "sweep"}]

\* `at' is the started_at of a worker that starts, `reaped' the rows its open
\* transaction failed, and `sent' its own count of what it published.
Worker ==
    [pc : {"new", "starting", "inserting", "working", "failing", "gone"}, at : Nat,
     reaped : SUBSET Runs, sent : Nat]

StatusRow == [run : Runs \cup {None}, status : Terminal \cup {"none"}]

\* `resume' is the keyset position kept in memory between ticks and `after' the
\* one of the running tick; `page' are the rows still to be classified and `last'
\* the one classified last; `more' says that the position goes on after it; `at'
\* is the time the cutoff was taken and `stale' the rows past it when read.
Sweep ==
    [pc : {"idle", "page", "classify", "reap"}, resume : Runs \cup {None},
     after : Runs \cup {None}, page : SUBSET Runs, stale : SUBSET Runs, at : Nat,
     last : Runs \cup {None}, terminal : SUBSET Runs, missing : SUBSET Runs,
     more : BOOLEAN, stopped : BOOLEAN]

Asleep(resume) ==
    [pc |-> "idle", resume |-> resume, after |-> None, page |-> {}, stale |-> {}, at |-> 0,
     last |-> None, terminal |-> {}, missing |-> {}, more |-> FALSE, stopped |-> FALSE]

\* Type invariant of the rows, the workers and the sweep.
TypeOK ==
    /\ now \in Nat
    /\ sync \in [Runs -> SyncRow]
    /\ worker \in [Runs -> Worker]
    /\ facts \in [Runs -> Nat]
    /\ orch \in [Runs -> {"none", "live", "finished", "missing"}]
    /\ status \in [Keys -> StatusRow]
    /\ sweep \in Sweep
    /\ faults \in Nat

Init ==
    /\ now = 0
    /\ sync = [r \in Runs |->
                 [status |-> "none", started |-> 0, beat |-> 0, pending |-> FALSE,
                  loaded |-> 0, by |-> "none"]]
    /\ worker = [r \in Runs |-> [pc |-> "new", at |-> 0, reaped |-> {}, sent |-> 0]]
    /\ facts = [r \in Runs |-> 0]
    /\ orch = [r \in Runs |-> "none"]
    /\ status = [k \in Keys |-> [run |-> None, status |-> "none"]]
    /\ sweep = Asleep(None)
    /\ faults = 0

-----------------------------------------------------------------------------
(***************************************************************************)
(* Shared predicates.                                                      *)
(***************************************************************************)

Running(r) == sync[r].status = "running"
Done(r)    == sync[r].status \in Terminal

\* The heartbeat is older than the lease at time t.
Expired(r, t) == sync[r].beat + Lease < t

\* (started_at, run_id) order, by which the sweep walks and the status table decides.
Before(rows, r, q) ==
    \/ rows[r].started < rows[q].started
    \/ rows[r].started = rows[q].started /\ Rank[r] < Rank[q]

Newest(rows, R) == CHOOSE r \in R : \A q \in R : q = r \/ Before(rows, q, r)

\* Native rows past their lease, which the lease reaper fails.
StaleRuns == {r \in Runs \ DagsterRuns : Running(r) /\ Expired(r, now)}

\* The rows that starts hold: whoever would write one of them waits.
Locked == UNION {worker[r].reaped : r \in Runs}

\* The projections that can succeed when the runs of R become terminal.
Projections(R) == SUBSET (R \ Contradicted)

\* The runs of P whose terminal record_terminal writes for the key k.
AnyTerminals(rows, P, k) == {r \in P : k \in KeysOf[r]}
NewerTerminals(rows, P, k) ==
    {r \in P : k \in KeysOf[r] /\ (status[k].run = None \/ Before(rows, status[k].run, r))}

\* The status table after the terminals of P were recorded: only a newer run
\* replaces a row.
RecordTerminals(rows, P) ==
    status' = [k \in Keys |->
        LET newer == NewerTerminals(rows, P, k)
            r == Newest(rows, newer)
        IN  IF newer = {} THEN status[k] ELSE [run |-> r, status |-> rows[r].status]]

\* The rows after the runs of R became terminal now; the projection of those in P
\* succeeded in its savepoint, the others stay pending.
TerminalRows(R, P, outcome, by) ==
    [r \in Runs |->
        IF r \in R THEN [sync[r] EXCEPT !.status = outcome, !.by = by,
                                       !.pending = KeysOf[r] # {} /\ r \notin P]
        ELSE sync[r]]

Terminalise(R, P, outcome, by) ==
    /\ sync' = TerminalRows(R, P, outcome, by)
    /\ RecordTerminals(TerminalRows(R, P, outcome, by), P)

-----------------------------------------------------------------------------
(***************************************************************************)
(* The worker.                                                             *)
(***************************************************************************)

WorkerGoes(r, pc) == worker' = [worker EXCEPT ![r] = [@ EXCEPT !.pc = pc, !.reaped = {}]]

\* started_at is taken before the transaction that waits for the advisory lock.
BeginStart(r) ==
    /\ worker[r].pc = "new"
    /\ now <= Horizon
    /\ worker' = [worker EXCEPT ![r] = [@ EXCEPT !.pc = "starting", !.at = now]]
    /\ orch' = [orch EXCEPT ![r] = IF r \in DagsterRuns THEN "live" ELSE "none"]
    /\ UNCHANGED <<now, sync, facts, status, sweep, faults>>

NoLock(r) == FALSE

\* The advisory lock of the dataset, held by a start until its transaction ends.
StartLocked(r) ==
    \E q \in Runs : worker[q].pc = "inserting" /\ DatasetOf[q] = DatasetOf[r]

\* start_sync_run has the lock and the rows past their lease, and fails those.
Reaping(r) ==
    /\ worker[r].pc = "starting"
    /\ ~StartLocked(r)
    /\ StaleRuns \cap Locked = {}

\* Another run of the dataset is running once the stale ones are reaped.
Blocked(r) ==
    \E q \in Runs \ StaleRuns : DatasetOf[q] = DatasetOf[r] /\ Running(q)

CheckSyncRun(r) ==
    /\ Reaping(r)
    /\ ~Blocked(r)
    /\ worker' = [worker EXCEPT ![r] = [@ EXCEPT !.pc = "inserting", !.reaped = StaleRuns]]
    /\ UNCHANGED <<now, sync, facts, orch, status, sweep, faults>>

\* The insert and the COMMIT.
StartSyncRun(r) ==
    /\ worker[r].pc = "inserting"
    /\ \E P \in Projections(worker[r].reaped) :
          LET rows == TerminalRows(worker[r].reaped, P, "failed", "lease")
          IN  /\ sync' = [rows EXCEPT ![r] =
                    [status |-> "running", started |-> worker[r].at, beat |-> worker[r].at,
                     pending |-> FALSE, loaded |-> 0, by |-> "none"]]
              /\ RecordTerminals(rows, P)
    /\ worker' = [worker EXCEPT ![r] = [@ EXCEPT !.pc = "working", !.at = 0, !.reaped = {}]]
    /\ UNCHANGED <<now, facts, orch, sweep, faults>>

\* SyncRunAlreadyActive rolls the reaping back with the rest.
RefuseSyncRun(r) ==
    /\ Reaping(r)
    /\ Blocked(r)
    /\ WorkerGoes(r, "gone")
    /\ UNCHANGED <<now, sync, facts, orch, status, sweep, faults>>

\* The collection raises: a failed fetch, a lock timeout, or a heartbeat or a
\* publication that finds the run terminal.
WorkerRaises(r) ==
    /\ worker[r].pc = "working"
    /\ WorkerGoes(r, "failing")
    /\ UNCHANGED <<now, sync, facts, orch, status, sweep, faults>>

HeartbeatSyncRun(r) ==
    /\ worker[r].pc = "working"
    /\ now <= Horizon
    /\ Running(r) /\ r \notin Locked
    /\ sync[r].beat # now
    /\ sync' = [sync EXCEPT ![r].beat = now]
    /\ UNCHANGED <<now, worker, facts, orch, status, sweep, faults>>

\* ingest_batch under the locked running row; the reply of the COMMIT may be lost,
\* and then the worker does not count the batch and fails.
IngestBatch(r, lost) ==
    /\ worker[r].pc = "working"
    /\ facts[r] < MaxBatches
    /\ Running(r) /\ r \notin Locked
    /\ facts' = [facts EXCEPT ![r] = @ + 1]
    /\ sync' = [sync EXCEPT ![r].loaded = @ + 1]
    /\ IF lost THEN WorkerGoes(r, "failing") ELSE worker' = [worker EXCEPT ![r].sent = @ + 1]
    /\ UNCHANGED <<now, orch, status, sweep, faults>>

\* What publish_and_finish reports: the earlier batches and this one's `last' values.
LastBatchOnly(r, last) == last
LoadedAtFinish(r, last) == worker[r].sent + last

\* publish_and_finish: the last facts and the terminal in one transaction.
PublishAndFinish(r, outcome, last, lost) ==
    /\ worker[r].pc = "working"
    /\ Running(r) /\ r \notin Locked
    /\ facts[r] + last <= MaxBatches
    /\ facts' = [facts EXCEPT ![r] = @ + last]
    /\ \E P \in Projections({r}) :
          LET rows == [TerminalRows({r}, P, outcome, "worker")
                          EXCEPT ![r].loaded = LoadedAtFinish(r, last)]
          IN  sync' = rows /\ RecordTerminals(rows, P)
    /\ WorkerGoes(r, IF lost THEN "failing" ELSE "gone")
    /\ UNCHANGED <<now, orch, sweep, faults>>

\* finish_sync_run of a worker that raised: a no-op when the run is terminal.
FinishSyncRun(r) ==
    /\ worker[r].pc = "failing"
    /\ r \notin Locked
    /\ \E P \in Projections({r}) :
          IF Running(r) THEN Terminalise({r}, P, "failed", "worker")
          ELSE UNCHANGED <<sync, status>>
    /\ WorkerGoes(r, "gone")
    /\ UNCHANGED <<now, facts, orch, sweep, faults>>

WorkerDies(r) ==
    /\ worker[r].pc \in {"starting", "inserting", "working", "failing"}
    /\ WorkerGoes(r, "gone")
    /\ UNCHANGED <<now, sync, facts, orch, status, sweep, faults>>

WorkerStep(r) ==
    \/ BeginStart(r)
    \/ CheckSyncRun(r)
    \/ StartSyncRun(r)
    \/ RefuseSyncRun(r)
    \/ WorkerRaises(r)
    \/ HeartbeatSyncRun(r)
    \/ \E lost \in BOOLEAN : IngestBatch(r, lost)
    \/ \E outcome \in {"success", "partial"}, last \in {0, 1}, lost \in BOOLEAN :
          PublishAndFinish(r, outcome, last, lost)
    \/ FinishSyncRun(r)
    \/ WorkerDies(r)

-----------------------------------------------------------------------------
(***************************************************************************)
(* The orchestrator (external): a run it knows ends when its worker does,  *)
(* or before (a cancellation), and its metadata may be lost.               *)
(***************************************************************************)

OrchestratorEnds(r) ==
    /\ orch[r] = "live"
    /\ orch' = [orch EXCEPT ![r] = "finished"]
    /\ UNCHANGED <<now, sync, worker, facts, status, sweep, faults>>

OrchestratorForgets(r) ==
    /\ orch[r] \in {"live", "finished"}
    /\ orch' = [orch EXCEPT ![r] = "missing"]
    /\ UNCHANGED <<now, sync, worker, facts, status, sweep, faults>>

-----------------------------------------------------------------------------
(***************************************************************************)
(* The recovery sensor: reconcile_stale_sync_runs, then the sweep over the *)
(* orchestrator's runs, page by page.                                      *)
(***************************************************************************)

\* The lease reaper; the tick goes on unless it used up the budget.
SensorTick ==
    /\ sweep.pc = "idle"
    /\ StaleRuns \cap Locked = {}
    /\ \E P \in Projections(StaleRuns) : Terminalise(StaleRuns, P, "failed", "lease")
    /\ \/ sweep' = [Asleep(sweep.resume) EXCEPT !.pc = "page", !.after = sweep.resume]
       \/ StaleRuns # {} /\ UNCHANGED sweep
    /\ UNCHANGED <<now, worker, facts, orch, faults>>

\* The rows of the next page.
Candidates ==
    {r \in DagsterRuns : Running(r) /\ (sweep.after = None \/ Before(sync, sweep.after, r))}

Page ==
    {r \in Candidates : Cardinality({q \in Candidates : Before(sync, q, r)}) < PageLimit}

ReadPage ==
    /\ sweep.pc = "page"
    /\ sweep' =
          IF Page = {} THEN Asleep(None)
          ELSE [sweep EXCEPT !.pc = "classify", !.page = Page, !.at = now,
                             !.stale = {r \in Page : Expired(r, now)},
                             !.more = Cardinality(Page) = PageLimit]
    /\ UNCHANGED <<now, sync, worker, facts, orch, status, faults>>

\* One lookup: a finished worker is terminal, a lost one only past its lease.
Classify(r) ==
    /\ sweep.pc = "classify"
    /\ r \in sweep.page
    /\ \A q \in sweep.page : q = r \/ Before(sync, r, q)
    /\ sweep' =
          [sweep EXCEPT !.page = @ \ {r}, !.last = r,
             !.pc = IF sweep.page = {r} THEN "reap" ELSE "classify",
             !.terminal = IF orch[r] = "finished" THEN @ \cup {r} ELSE @,
             !.missing = IF orch[r] = "missing" /\ r \in sweep.stale THEN @ \cup {r} ELSE @]
    /\ UNCHANGED <<now, sync, worker, facts, orch, status, faults>>

\* From the second row on the tick may run out of budget.
StopEarly ==
    /\ sweep.pc = "classify"
    /\ sweep.last # None
    /\ sweep' = [sweep EXCEPT !.pc = "reap", !.more = TRUE, !.stopped = TRUE]
    /\ UNCHANGED <<now, sync, worker, facts, orch, status, faults>>

\* A lookup that raises ends the tick: nothing of the page is written and the
\* next tick starts where this one did.
LookupFails ==
    /\ sweep.pc = "classify"
    /\ faults < MaxFaults
    /\ faults' = faults + 1
    /\ sweep' = Asleep(sweep.resume)
    /\ UNCHANGED <<now, sync, worker, facts, orch, status>>

\* The rows the conditional UPDATE of the page changes.
ReapedFinishedOnly == {r \in sweep.terminal : Running(r)}
ReapedUnchecked == {r \in sweep.terminal \cup sweep.missing : Running(r)}
Reaped ==
    {r \in sweep.terminal \cup sweep.missing :
        Running(r) /\ (r \in sweep.terminal \/ Expired(r, sweep.at))}

\* Where the sweep goes on.
Resume == IF sweep.more THEN sweep.last ELSE None

Reap ==
    /\ sweep.pc = "reap"
    /\ \E P \in Projections(Reaped) : Terminalise(Reaped, P, "failed", "sweep")
    /\ \/ sweep' = Asleep(Resume)
       \/ /\ sweep.more /\ ~sweep.stopped
          /\ sweep' = [Asleep(sweep.resume) EXCEPT !.pc = "page", !.after = Resume]
    /\ UNCHANGED <<now, worker, facts, orch, faults>>

\* The position is in memory only.
CodeServerRestarts ==
    /\ faults < MaxFaults
    /\ faults' = faults + 1
    /\ sweep' = Asleep(None)
    /\ UNCHANGED <<now, sync, worker, facts, orch, status>>

RetryNewest(R, r) == r \in R /\ \A q \in R : q = r \/ Before(sync, q, r)

\* The pending run that a retry takes: the oldest of R.
RetryNext(R, r) == r \in R /\ \A q \in R : q = r \/ Before(sync, r, q)

\* reconcile_export_status with limit 1, past the rows another request has locked.
\* The projection may fail again in its savepoint, and that of some runs always does;
\* then the run stays pending, and the next request takes it again.
ReconcileExportStatus(locked) ==
    /\ \E r \in Runs :
          /\ RetryNext({q \in Runs \ locked : sync[q].pending}, r)
          /\ \/ /\ r \notin Contradicted
                /\ sync' = [sync EXCEPT ![r].pending = FALSE]
                /\ RecordTerminals(sync, {r})
                /\ UNCHANGED faults
             \/ /\ faults < MaxFaults
                /\ faults' = faults + 1
                /\ UNCHANGED <<sync, status>>
    /\ UNCHANGED <<now, worker, facts, orch, sweep>>

Tick ==
    /\ now < Horizon + Lease + 1
    /\ now' = now + 1
    /\ UNCHANGED <<sync, worker, facts, orch, status, sweep, faults>>

SweepStep == SensorTick \/ ReadPage \/ (\E r \in Runs : Classify(r)) \/ Reap

Next ==
    \/ \E r \in Runs :
          \/ WorkerStep(r)
          \/ OrchestratorEnds(r)
          \/ OrchestratorForgets(r)
    \/ \E locked \in SUBSET Runs : ReconcileExportStatus(locked)
    \/ SweepStep
    \/ StopEarly
    \/ LookupFails
    \/ CodeServerRestarts
    \/ Tick

Spec == Init /\ [][Next]_vars

\* Time passes, the sensor ticks every minute, the status API is polled, also when
\* no other request has a row locked, the orchestrator notices a worker that is gone
\* (run_monitoring), and a start ends its transaction or is killed.  No other worker
\* has to do anything, and lookups may fail and ticks stop early.
Fairness ==
    /\ WF_vars(Tick)
    /\ WF_vars(SweepStep)
    /\ WF_vars(ReconcileExportStatus({}))
    /\ \A r \in Runs : WF_vars(worker[r].pc = "inserting" /\ (StartSyncRun(r) \/ WorkerDies(r)))
    /\ \A r \in Runs : WF_vars(worker[r].pc = "gone" /\ OrchestratorEnds(r))

FairSpec == Spec /\ Fairness

-----------------------------------------------------------------------------
(***************************************************************************)
(* Properties.                                                             *)
(***************************************************************************)

\* A dataset is collected by one run at a time, although a start inserts its row after
\* it checked the others, stale rows are reaped by whoever comes first, and another
\* start may be between its check and its insert.
OneRunningPerDataset ==
    \A r, q \in Runs : Running(r) /\ Running(q) /\ DatasetOf[r] = DatasetOf[q] => r = q

\* No reaper takes a run from a worker that shows life: a native run is reaped only
\* when its heartbeat is older than the lease at that moment, and an orchestrated one
\* only when the orchestrator no longer has it live, and also past its lease if all
\* the sweep knows is that the metadata is gone.
LiveRunsSurvive ==
    [][\A r \in Runs :
          Running(r) /\ Done(r)' /\ sync'[r].by # "worker" =>
              IF r \in DagsterRuns
              THEN orch[r] # "live" /\ (r \in sweep.terminal \/ Expired(r, now))
              ELSE Expired(r, now)]_vars

\* The row counts exactly the values that were committed, whoever terminalises the run
\* and whichever replies were lost.
LoadedIsExact == \A r \in Runs : sync[r].loaded = facts[r]

\* The status a reader is given, which it is only while no terminal waits for its
\* projection, is the outcome of the newest terminal run of the key.
StatusIsCurrent ==
    \A k \in Keys :
        LET done == {r \in Runs : Done(r) /\ k \in KeysOf[r]}
        IN  (\A r \in done : ~sync[r].pending) =>
                IF done = {} THEN status[k].run = None
                ELSE LET r == Newest(sync, done)
                     IN  status[k].run = r /\ status[k].status = sync[r].status

\* A dataset is not blocked for ever by a worker that is gone: its run is reaped, by
\* the lease or by the sweep, although ticks stop early, lookups fail and the
\* position of the sweep is lost.
AbandonedIsReaped ==
    \A r \in Runs : worker[r].pc = "gone" /\ Running(r) ~> ~Running(r)

\* The outcome of a run, or of a newer one, is shown for each of its keys in the end,
\* although its projection failed when it ended and retries take one run at a time and
\* fail again: only an older run that can never be recorded holds it up.
TerminalsAreShown ==
    \A r \in Runs \ Contradicted : \A k \in KeysOf[r] :
        Done(r) ~>
            \/ status[k].run # None /\ ~Before(sync, status[k].run, r)
            \/ \E q \in Contradicted : sync[q].pending /\ Before(sync, q, r)
=============================================================================
