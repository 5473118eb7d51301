--------------------------- MODULE ShortRetention ----------------------------
(***************************************************************************)
(* The short-forecast retention job (retention.py and its Dagster asset).  *)
(* Expired rows are removed in index order, a batch per transaction; the   *)
(* key reached is kept in the asset's metadata, and the next run goes on   *)
(* behind it.  Rows may still appear before that key, so now and then a    *)
(* run starts at the head again.                                           *)
(*                                                                         *)
(* A row is its key, a number in index order; its target time is the hour  *)
(* HourOf(k).                                                              *)
(***************************************************************************)
EXTENDS Integers, FiniteSetsExt

CONSTANTS
    Keys,           \* keys a short forecast may have
    PerHour,        \* keys of one target hour
    KeepHours,      \* SHORT_FORECAST_HOURS
    SweepHours,     \* HEAD_SWEEP_INTERVAL
    LagAlert,       \* BACKLOG_LAG_ALERT, in hours
    StallRuns,      \* LAG_STALL_RUNS
    BatchRows,      \* batch_size
    MaxBatches,     \* max_batches
    MaxHour,        \* bound on the clock
    MaxLate,        \* bound on rows that arrive after they expired
    MaxChanges      \* bound on policy or database changes and on clock steps back

ASSUME ShortRetentionAssumption ==
    /\ Keys \subseteq Nat
    /\ {PerHour, SweepHours, StallRuns, BatchRows, MaxBatches, MaxHour} \subseteq Nat \ {0}
    /\ {KeepHours, LagAlert, MaxLate, MaxChanges} \subseteq Nat

VARIABLES
    hour,       \* the clock
    forecasts,  \* short-forecast rows
    policy,     \* version of the policy and database a position belongs to
    late,       \* rows that arrived after they expired
    saved,      \* metadata of the latest materialization
    purge,      \* the run under way, or how the last one ended
    arrived,    \* rows stored since the last head sweep that was carried through
    swept       \* the latest hour at which a run started at the head

shortVars == <<hour, forecasts, policy, late, saved, purge, arrived, swept>>

NoKey == -1
NoLag == -1
NoMetadata == [key |-> NoKey, policy |-> 0, head_scan_at |-> 0, lag |-> NoLag, stalls |-> 0,
               status |-> "none", cutoff |-> 0, at |-> 0]
NoPurge == [at |-> "idle", failed |-> FALSE]

HourOf(k) == k \div PerHour
short_forecast_cutoff == hour - KeepHours
Expired(cutoff) == {k \in forecasts : HourOf(k) < cutoff}

\* Where a run starts: behind the saved key unless it belongs to another policy or
\* database, lies ahead of the clock, or the last head sweep is too long ago.
resume_position ==
    LET From(after, scanned, why, back) ==
            [after |-> after, scanned |-> scanned, discarded |-> why, fallback |-> back]
    IN  CASE saved.key = NoKey -> From(NoKey, hour, "none", NoKey)
          [] saved.policy # policy -> From(NoKey, hour, "policy_changed", NoKey)
          [] HourOf(saved.key) >= short_forecast_cutoff -> From(NoKey, hour, "ahead_of_cutoff", NoKey)
          [] hour - saved.head_scan_at >= SweepHours ->
               From(NoKey, hour, "periodic_head_sweep", saved.key)
          [] OTHER -> From(saved.key, saved.head_scan_at, "none", NoKey)

\* Mutation: Every run records a head sweep.
StartPurgeAsSweep ==
    /\ purge.at = "idle"
    /\ LET start == resume_position
       IN  /\ purge' = [at |-> "batch", key |-> start.after, fallback |-> start.fallback,
                        scanned |-> hour, discarded |-> start.discarded,
                        head |-> start.after = NoKey, cutoff |-> short_forecast_cutoff,
                        batches |-> 0, deleted |-> FALSE, remaining |-> "unknown",
                        status |-> "budget_exhausted", new |-> {}]
           /\ swept' = IF start.after = NoKey /\ hour > swept THEN hour ELSE swept
    /\ UNCHANGED <<hour, forecasts, policy, late, saved, arrived>>

StartPurge ==
    /\ purge.at = "idle"
    /\ LET start == resume_position
       IN  /\ purge' = [at |-> "batch", key |-> start.after, fallback |-> start.fallback,
                        scanned |-> start.scanned, discarded |-> start.discarded,
                        head |-> start.after = NoKey, cutoff |-> short_forecast_cutoff,
                        batches |-> 0, deleted |-> FALSE, remaining |-> "unknown",
                        status |-> "budget_exhausted", new |-> {}]
           /\ swept' = IF start.after = NoKey /\ hour > swept THEN hour ELSE swept
    /\ UNCHANGED <<hour, forecasts, policy, late, saved, arrived>>

More == purge.at = "batch" /\ purge.batches < MaxBatches

\* purge_expired_short_forecast: the next rows in order, none skipped; ORDER BY with
\* LIMIT takes the rows that fewer than BatchRows others precede.
PurgeBatch ==
    /\ More
    /\ LET found == {k \in Expired(purge.cutoff) : k > purge.key}
           batch == {k \in found : Cardinality({x \in found : x < k}) < BatchRows}
           left  == batch # found
       IN  /\ forecasts' = forecasts \ batch
           /\ purge' = [purge EXCEPT !.batches = @ + 1,
                                     !.key = IF batch = {} THEN @ ELSE Max(batch),
                                     !.deleted = @ \/ batch # {},
                                     !.remaining = IF left THEN "some" ELSE "none",
                                     !.status = IF left THEN @ ELSE "complete_snapshot",
                                     !.at = IF left THEN @ ELSE "end"]
    /\ UNCHANGED <<hour, policy, late, saved, arrived, swept>>

\* Another purge holds the lock, a row lock or a statement times out: the batch is
\* rolled back.  A head sweep cut off at its first statement goes on from the saved key.
DeferBatch ==
    /\ More
    /\ \E canceled \in BOOLEAN :
         purge' = IF canceled /\ purge.fallback # NoKey /\ purge.key = NoKey
                  THEN [purge EXCEPT !.batches = @ + 1, !.key = purge.fallback,
                                     !.fallback = NoKey, !.head = FALSE]
                  ELSE [purge EXCEPT !.batches = @ + 1, !.status = "deferred", !.at = "end"]
    /\ UNCHANGED <<hour, forecasts, policy, late, saved, arrived, swept>>

\* The seconds or the batches of a run are used up.
ExhaustBudget ==
    /\ purge.at = "batch"
    /\ purge' = [purge EXCEPT !.at = "end"]
    /\ UNCHANGED <<hour, forecasts, policy, late, saved, arrived, swept>>

backlog_lag ==
    IF purge.remaining = "none" THEN 0
    ELSE IF purge.remaining = "some" /\ purge.key # NoKey THEN purge.cutoff - HourOf(purge.key)
    ELSE NoLag

_UNTRUSTED_HISTORY == {"policy_changed", "ahead_of_cutoff"}
Baseline == IF purge.discarded \in _UNTRUSTED_HISTORY THEN NoMetadata ELSE saved

lag_stall_runs ==
    IF \/ purge.remaining # "some" \/ backlog_lag = NoLag \/ backlog_lag <= LagAlert
       \/ Baseline.lag # NoLag /\ backlog_lag < Baseline.lag
    THEN 0 ELSE Baseline.stalls + 1

made_progress == purge.status = "complete_snapshot" \/ purge.deleted
backlog_stalled == lag_stall_runs >= StallRuns

\* Without progress the run fails and leaves the metadata of the one before; a run
\* that only falls further behind fails too, but hands its position on.
FinishPurge ==
    /\ purge.at = "end"
    /\ saved' = IF ~made_progress THEN saved
                ELSE [key |-> purge.key, policy |-> policy, head_scan_at |-> purge.scanned,
                      lag |-> backlog_lag, stalls |-> lag_stall_runs, status |-> purge.status,
                      cutoff |-> purge.cutoff, at |-> hour]
    /\ arrived' = IF made_progress /\ purge.head THEN purge.new ELSE arrived
    /\ purge' = [NoPurge EXCEPT !.failed = ~made_progress \/ backlog_stalled]
    /\ UNCHANGED <<hour, forecasts, policy, late, swept>>

\* The run is cut off by its time limit: batches are committed, metadata is not.
KillPurge ==
    /\ purge.at # "idle"
    /\ purge' = [NoPurge EXCEPT !.failed = TRUE]
    /\ UNCHANGED <<hour, forecasts, policy, late, saved, arrived, swept>>

(***************************************************************************)
(* The surroundings.  Collection admits rows that are not expired; a slow  *)
(* commit, a restored backup or a corrected clock bring older ones.        *)
(***************************************************************************)
StoreForecast ==
    \E k \in Keys \ forecasts :
        /\ HourOf(k) <= hour
        /\ \/ HourOf(k) >= short_forecast_cutoff /\ late' = late
           \/ HourOf(k) < short_forecast_cutoff /\ late < MaxLate /\ late' = late + 1
        /\ forecasts' = forecasts \cup {k}
        /\ arrived' = arrived \cup {k}
        /\ purge' = IF purge.at = "idle" THEN purge ELSE [purge EXCEPT !.new = @ \cup {k}]
        /\ UNCHANGED <<hour, policy, saved, swept>>

PassHour ==
    /\ purge.at = "idle" /\ hour < MaxHour
    /\ hour' = hour + 1
    /\ UNCHANGED <<forecasts, policy, late, saved, purge, arrived, swept>>

\* A new policy or database name, or a clock set back.
ChangePolicy ==
    /\ purge.at = "idle" /\ policy < MaxChanges
    /\ policy' = policy + 1
    /\ UNCHANGED <<hour, forecasts, late, saved, purge, arrived, swept>>

SetClockBack ==
    /\ purge.at = "idle" /\ hour > KeepHours /\ hour > saved.at - MaxChanges
    /\ hour' = hour - 1
    /\ UNCHANGED <<forecasts, policy, late, saved, purge, arrived, swept>>

ShortInit ==
    /\ hour = KeepHours /\ policy = 0 /\ late = 0 /\ swept = 0
    /\ forecasts = {} /\ arrived = {}
    /\ saved = NoMetadata /\ purge = NoPurge

ShortWorker == PurgeBatch \/ DeferBatch \/ ExhaustBudget \/ FinishPurge
ShortSurroundings == KillPurge \/ StoreForecast \/ PassHour \/ ChangePolicy \/ SetClockBack

\* No expired row hides before the position: whatever lies there arrived since the
\* last head sweep that was carried through, and a run that saved its position
\* found the last sweep less than SweepHours ago by the clock (resume_position,
\* run_short_forecast_retention).
NothingHidesBeforePosition ==
    /\ {k \in forecasts : k <= saved.key} \subseteq arrived
    /\ saved.status = "complete_snapshot" => Expired(saved.cutoff) \subseteq arrived
    /\ saved.at - swept < SweepHours
=============================================================================
