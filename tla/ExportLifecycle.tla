--------------------------- MODULE ExportLifecycle ---------------------------
(***************************************************************************)
(* The collector's side of the map-service export: the source sync run,    *)
(* the export attempt, the owner epoch of its source scope, and the        *)
(* completeness barrier of its chunks (export_receipts.py,                 *)
(* export_lifecycle.py, and the capture step of the ingest transaction in  *)
(* repository.py).                                                         *)
(*                                                                         *)
(* Every operation of the code is one database transaction that locks the  *)
(* run, the attempt and the scope owner, in this order, so each one is an  *)
(* atomic action.  An operation that raises leaves the rows as they were   *)
(* and is not an action; an operation repeated with the same arguments is  *)
(* a stutter.  Nothing is assumed about the order in which a collector     *)
(* calls the operations or about how many collectors run: the guards of    *)
(* the code alone decide.                                                  *)
(*                                                                         *)
(* Abstractions.                                                           *)
(*  - An attempt plans exactly one source scope: begin_export_attempt is   *)
(*    only called with [descriptor.source_scope], and declare insists.     *)
(*  - The seal digest is a hash of rows that no longer change once         *)
(*    plan_closed_at is set, so `closed' stands for both columns.          *)
(*  - A chunk receipt remembers only whether the points the fact table     *)
(*    admitted are the planned ones ("exact") or none ("empty").           *)
(*  - FAILURE and CANCELED of the orchestrator are one status, and so are  *)
(*    all the native run statuses that are neither running nor success.    *)
(***************************************************************************)
EXTENDS Naturals, FiniteSets

CONSTANTS
    Attempts,       \* attempt identities (weather_export_attempts.attempt_id)
    Runs,           \* source sync runs (weather_sync_runs.run_id)
    DagsterRuns,    \* the runs that record an orchestrator run id
    DatasetOf,      \* the (provider, dataset) of a run
    Scopes,         \* source scopes (weather_export_scope_owners.source_scope)
    ChunkKeys,      \* chunk keys an attempt may expect
    None            \* SQL NULL

ASSUME ConstantsAssumption ==
    /\ DagsterRuns \subseteq Runs
    /\ None \notin Attempts
    /\ None \notin Runs
    /\ None \notin Scopes

VARIABLES
    run,        \* [Runs -> native status of the sync run]
    orch,       \* [Runs -> status of the orchestrator run, "none" for native]
    att,        \* [Attempts -> row of weather_export_attempts]
    owner,      \* [Scopes -> row of weather_export_scope_owners]
    expected,   \* [Attempts -> chunk keys planned before their receipts]
    closure,    \* [Attempts -> chunk keys of the closed source, {} when open]
    chunk,      \* [Attempts -> [ChunkKeys -> receipt of the chunk]]
    validated,  \* [Attempts -> chunk keys whose file was verified]
    files       \* the artifact files that exist, as <<attempt, chunk key>>

lifecycleVars ==
    <<run, orch, att, owner, expected, closure, chunk, validated, files>>

RunStatus     == {"none", "running", "success", "failed"}
OrchStatus    == {"none", "STARTED", "SUCCESS", "FAILURE"}
AttemptStatus == {"none", "preparing", "sealed", "failed"}
Receipt       == {"none", "exact", "empty"}

AttemptRow ==
    [status : AttemptStatus, run : Runs \cup {None}, scope : Scopes \cup {None},
     epoch : Nat, closed : BOOLEAN]

OwnerRow == [epoch : Nat, active : Attempts \cup {None}]

LifecycleTypeOK ==
    /\ run \in [Runs -> RunStatus]
    /\ orch \in [Runs -> OrchStatus]
    /\ att \in [Attempts -> AttemptRow]
    /\ owner \in [Scopes -> OwnerRow]
    /\ expected \in [Attempts -> SUBSET ChunkKeys]
    /\ closure \in [Attempts -> SUBSET ChunkKeys]
    /\ chunk \in [Attempts -> [ChunkKeys -> Receipt]]
    /\ validated \in [Attempts -> SUBSET ChunkKeys]
    /\ files \subseteq Attempts \X ChunkKeys

LifecycleInit ==
    /\ run = [r \in Runs |-> "none"]
    /\ orch = [r \in Runs |-> "none"]
    /\ att = [a \in Attempts |->
                [status |-> "none", run |-> None, scope |-> None,
                 epoch |-> 0, closed |-> FALSE]]
    /\ owner = [s \in Scopes |-> [epoch |-> 0, active |-> None]]
    /\ expected = [a \in Attempts |-> {}]
    /\ closure = [a \in Attempts |-> {}]
    /\ chunk = [a \in Attempts |-> [k \in ChunkKeys |-> "none"]]
    /\ validated = [a \in Attempts |-> {}]
    /\ files = {}

-----------------------------------------------------------------------------
(***************************************************************************)
(* Predicates the transactions share.                                      *)
(***************************************************************************)

RunIs(a, status) == att[a].run # None /\ run[att[a].run] = status

Recorded(a) == {k \in ChunkKeys : chunk[a][k] # "none"}

OnceOwner(a) == att[a].epoch # 0

\* _current_owners: the claimed epoch and the active attempt are both still ours.
CurrentOwner(a) ==
    /\ att[a].epoch # 0
    /\ owner[att[a].scope] = [epoch |-> att[a].epoch, active |-> a]

\* The source is still being collected under this attempt.
Preparing(a) == RunIs(a, "running") /\ att[a].status = "preparing"

-----------------------------------------------------------------------------
(***************************************************************************)
(* The source sync run and its orchestrator run.  Their own module is      *)
(* SyncRunLease; here only the statuses the export reads are kept.         *)
(***************************************************************************)

StartSyncRun(r) ==
    /\ run[r] = "none"
    /\ \A q \in Runs : DatasetOf[q] = DatasetOf[r] => run[q] # "running"
    /\ run' = [run EXCEPT ![r] = "running"]
    /\ orch' = [orch EXCEPT ![r] = IF r \in DagsterRuns THEN "STARTED" ELSE "none"]
    /\ UNCHANGED <<att, owner, expected, closure, chunk, validated, files>>

\* finish_sync_run, publish_and_finish and both reapers: a compare-and-set on running.
FinishSyncRun(r, status) ==
    /\ run[r] = "running"
    /\ run' = [run EXCEPT ![r] = status]
    /\ UNCHANGED <<orch, att, owner, expected, closure, chunk, validated, files>>

OrchestratorFinishes(r, status) ==
    /\ orch[r] = "STARTED"
    /\ orch' = [orch EXCEPT ![r] = status]
    /\ UNCHANGED <<run, att, owner, expected, closure, chunk, validated, files>>

-----------------------------------------------------------------------------
(***************************************************************************)
(* The attempt: create, claim the scope, plan chunks, record receipts,     *)
(* close the source and the plan.                                          *)
(***************************************************************************)

CreateExportAttempt(a, r, s) ==
    /\ att[a].status = "none"
    /\ run[r] = "running"
    /\ att' = [att EXCEPT ![a] =
                 [status |-> "preparing", run |-> r, scope |-> s,
                  epoch |-> 0, closed |-> FALSE]]
    /\ UNCHANGED <<run, orch, owner, expected, closure, chunk, validated, files>>

\* The scope changes hands: the upsert raises the epoch and names this attempt.
Claim(a) ==
    /\ Preparing(a)
    /\ att[a].epoch = 0
    /\ Recorded(a) = {}
    /\ LET s == att[a].scope
           e == owner[s].epoch + 1
       IN  /\ owner' = [owner EXCEPT ![s] = [epoch |-> e, active |-> a]]
           /\ att' = [att EXCEPT ![a].epoch = e]
    /\ UNCHANGED <<run, orch, expected, closure, chunk, validated, files>>

ExpectChunk(a, k) ==
    /\ CurrentOwner(a)
    /\ Preparing(a)
    /\ ~att[a].closed
    /\ k \notin expected[a]
    /\ closure[a] = {}
    /\ expected' = [expected EXCEPT ![a] = @ \cup {k}]
    /\ UNCHANGED <<run, orch, att, owner, closure, chunk, validated, files>>

\* validate_planned_capture, of an attempt that claimed a scope.
PlannedCapture(a, k) == att[a].epoch # 0 => CurrentOwner(a) /\ k \in expected[a]

\* record_export_chunk inside the ingest transaction, which holds the running run.
\* An attempt that never claimed a scope may still record receipts (and can
\* then no longer claim); a claimed one needs its ownership and its chunk plan.
RecordChunk(a, k, receipt) ==
    /\ Preparing(a)
    /\ ~att[a].closed
    /\ chunk[a][k] = "none"
    /\ PlannedCapture(a, k)
    /\ chunk' = [chunk EXCEPT ![a][k] = receipt]
    /\ UNCHANGED <<run, orch, att, owner, expected, closure, validated, files>>

\* ExportArtifactStore.publish, after the ingest transaction committed.
PublishArtifact(a, k) ==
    /\ chunk[a][k] # "none"
    /\ <<a, k>> \notin files
    /\ files' = files \cup {<<a, k>>}
    /\ UNCHANGED <<run, orch, att, owner, expected, closure, chunk, validated>>

CloseSource(a, keys) ==
    /\ CurrentOwner(a)
    /\ Preparing(a)
    /\ ~att[a].closed
    /\ keys # {} /\ keys \subseteq expected[a]
    /\ closure[a] = {}
    /\ closure' = [closure EXCEPT ![a] = keys]
    /\ UNCHANGED <<run, orch, att, owner, expected, chunk, validated, files>>

\* The completeness barrier: the closed source names every expected chunk,
\* every one has its receipt, and some point was admitted.
Barrier(a) ==
    /\ expected[a] # {}
    /\ closure[a] = expected[a]
    /\ Recorded(a) = expected[a]
    /\ \E k \in expected[a] : chunk[a][k] = "exact"

ClosePlan(a) ==
    /\ CurrentOwner(a)
    /\ ~att[a].closed
    /\ Preparing(a)
    /\ Barrier(a)
    /\ att' = [att EXCEPT ![a].closed = TRUE]
    /\ UNCHANGED <<run, orch, owner, expected, closure, chunk, validated, files>>

\* _reject of the collector and _fail_export_capture of the ingest: a failed
\* preparation, capture or file write gives the attempt up, the facts stay.
RejectAttempt(a) ==
    /\ att[a].status = "preparing"
    /\ att' = [att EXCEPT ![a].status = "failed"]
    /\ UNCHANGED <<run, orch, owner, expected, closure, chunk, validated, files>>
=============================================================================
