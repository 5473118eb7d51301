---------------------------- MODULE PublisherTick ----------------------------
(***************************************************************************)
(* The sensor weather_export_publisher: one evaluation (tick) retires what *)
(* can no longer be published, promotes the candidates of the newest       *)
(* successful runs (fresh), sweeps all candidates by attempt id from a     *)
(* cursor that the sensor keeps, and refreshes the daily summaries and     *)
(* collects garbage, which are in ExportSnapshots.  What a promotion does  *)
(* is in ExportHeads; here it publishes the attempt, settles it, or leaves *)
(* it sealed.                                                              *)
(*                                                                         *)
(* The process slot and the advisory lock let one tick run at a time, so   *)
(* an evaluation that finds them taken changes nothing.  Time is not       *)
(* modelled: a drain may meet its deadline after any candidate.  What      *)
(* keeps a tick from getting anywhere (a deadline before its first         *)
(* candidate, an error of the database, a lost evaluation) counts as a     *)
(* fault and is bounded: FRESH_SHARE leaves the sweep a part of every      *)
(* tick's budget.                                                          *)
(***************************************************************************)
EXTENDS Integers, Sequences, FiniteSets

CONSTANTS
    Attempts,       \* 1 .. n in the order of their ids
    Runs,           \* sync runs
    RunOf,          \* [Attempts -> Runs]
    NativeRuns,     \* runs that are not executed by Dagster
    Undeclared,     \* attempts whose worker died before it closed their plan
    Broken,         \* attempts whose evaluation always ends in a database error
    CandidatePage,           \* CANDIDATE_PAGE
    RunWindow,      \* FRESH_RUN_WINDOW
    TickAttempts,   \* MAX_TICK_ATTEMPTS
    TickErrors,     \* MAX_CONSECUTIVE_CANDIDATE_ERRORS
    MaxFaults, MaxEvents    \* bounds

\* Broken candidates are too few to stop the fresh phase of every tick, and a tick
\* takes more than the fresh candidates.
ASSUME TickAssumption ==
    /\ IsFiniteSet(Attempts) /\ Attempts = 1 .. Cardinality(Attempts)
    /\ {CandidatePage, RunWindow, TickErrors, TickAttempts} \subseteq Nat \ {0}
    /\ Broken \subseteq Attempts /\ Cardinality(Broken) < TickErrors
    /\ TickAttempts > Cardinality(Attempts)

VARIABLES
    att,        \* [Attempts -> "open", "planned", "sealed" or "done"]
    old,        \* attempts whose scopes have all passed to newer attempts
    native,     \* [Runs -> "running", "success" or "failed"]
    orch,       \* [Runs -> status of the Dagster run]
    finished,   \* [Runs -> place of the run in the order of finished_at, or 0]
    cursor,     \* the sensor's cursor: an attempt, 0 (none) or Garbled
    tick,       \* the evaluation in progress
    retireDue,  \* _RETIRE_NEXT has passed
    missed,     \* history: [Attempts -> ticks in a row that kept a cursor and passed it over]
    faults, events  \* number of faults and of changes around the publisher so far

tickVars == <<att, old, native, orch, finished, cursor, tick, retireDue, missed, faults, events>>

Garbled == -1
Pending == {a \in Attempts : att[a] # "done"}

\* `page' is the number of rows read, `at' the stage, `todo' the candidates of the page not yet
\* reached and `last' the last one processed; `probed' is the TickStatusProbe.
NoTick ==
    [at |-> "idle", after |-> 0, start |-> 0, lost |-> FALSE, ok |-> TRUE,
     seen |-> {}, errors |-> 0, stopped |-> FALSE, fresh |-> 0, swept |-> 0,
     page |-> 0, todo |-> <<>>, processed |-> 0, last |-> 0,
     window |-> {}, older |-> Cardinality(Runs) + 1, key |-> <<>>, probed |-> <<>>]

TickInit ==
    /\ att \in [Attempts -> {"open", "planned", "done"}]
    /\ \A a \in Attempts : att[a] = "open" => a \in Undeclared
    /\ \A a \in Attempts : att[a] = "planned" => a \notin Undeclared
    /\ old = {}
    /\ native \in [Runs -> {"running", "success"}]
    /\ orch = [r \in Runs |-> IF native[r] = "success" THEN "SUCCESS" ELSE "STARTED"]
    /\ finished \in [Runs -> 0 .. Cardinality({r \in Runs : native[r] = "success"})]
    /\ \A r, q \in Runs : /\ finished[r] = 0 <=> native[r] = "running"
                          /\ r # q /\ finished[r] = finished[q] => finished[r] = 0
    /\ cursor = Garbled
    /\ tick = NoTick
    /\ retireDue = TRUE
    /\ missed = [a \in Attempts |-> 0]
    /\ faults = 0 /\ events = 0

-----------------------------------------------------------------------------
(***************************************************************************)
(* Around the publisher.                                                   *)
(***************************************************************************)

Event == events < MaxEvents /\ events' = events + 1

\* A run ends, and the Dagster run with it or later; a Dagster run also ends alone.
RunEnds(r, status) ==
    /\ Event /\ native[r] = "running"
    /\ native' = [native EXCEPT ![r] = status]
    /\ finished' = [finished EXCEPT ![r] = Cardinality({q \in Runs : finished[q] # 0}) + 1]
    /\ \E s \in {"STARTED", IF status = "success" THEN "SUCCESS" ELSE "FAILURE"} :
          orch' = [orch EXCEPT ![r] = s]
    /\ UNCHANGED <<att, old, cursor, tick, retireDue, missed, faults>>

DagsterEnds(r, status) ==
    /\ Event /\ orch[r] = "STARTED"
    /\ status = "SUCCESS" => native[r] # "running"
    /\ orch' = [orch EXCEPT ![r] = status]
    /\ UNCHANGED <<att, old, native, finished, cursor, tick, retireDue, missed, faults>>

\* Newer attempts claim all the scopes of the attempt.
Supersede(a) ==
    /\ Event /\ a \in Pending \ old
    /\ old' = old \cup {a}
    /\ UNCHANGED <<att, native, orch, finished, cursor, tick, retireDue, missed, faults>>

RetireIntervalPasses ==
    /\ ~retireDue /\ retireDue' = TRUE
    /\ Event
    /\ UNCHANGED <<att, old, native, orch, finished, cursor, tick, missed, faults>>

-----------------------------------------------------------------------------
(***************************************************************************)
(* One candidate.                                                          *)
(***************************************************************************)

Fault == faults < MaxFaults /\ faults' = faults + 1

Asked(r) == r \in DOMAIN tick.probed
\* What the probe says of a Dagster run now: what it said before in this tick, or what
\* it is told, or nothing when the lookup fails.
Told(r) == IF Asked(r) THEN {tick.probed[r]} ELSE {orch[r], "unknown"}
Remember(r, status) ==
    IF r \in NativeRuns THEN tick.probed
    ELSE [q \in DOMAIN tick.probed \cup {r} |-> IF q = r THEN status ELSE tick.probed[q]]

\* _lock_free_verdict
Verdict(a, status) ==
    LET r == RunOf[a]
    IN  IF native[r] = "failed" THEN "LOCKED"
        ELSE IF r \notin NativeRuns /\ status = "FAILURE" THEN "LOCKED"
        ELSE IF r \notin NativeRuns /\ status # "SUCCESS" THEN "NOT_READY"
        ELSE IF native[r] = "running" THEN "NOT_READY"
        ELSE "READY"

\* _process_candidate: what becomes of the attempt.
Outcomes(a, verdict, fresh) ==
    CASE verdict = "NOT_READY" -> {att[a]}
      [] verdict = "LOCKED"    -> {"done"}
      [] a \in old             -> IF fresh THEN {att[a]} ELSE {"done"}
      [] att[a] = "open"       -> {"open"}
      [] OTHER                 -> {"sealed", "done"}

Advance(a) == [tick EXCEPT !.todo = Tail(@), !.processed = @ + 1, !.last = a, !.seen = @ \cup {a}]

\* A candidate of an earlier phase of this tick is passed over.
PassSeen ==
    /\ tick.at \in {"fresh drain", "sweep drain"} /\ tick.todo # <<>> /\ ~tick.stopped
    /\ Head(tick.todo) \in tick.seen
    /\ tick' = Advance(Head(tick.todo))
    /\ UNCHANGED <<att, old, native, orch, finished, cursor, retireDue, missed, faults, events>>

Candidate(a) ==
    /\ tick.at \in {"fresh drain", "sweep drain"} /\ tick.todo # <<>> /\ ~tick.stopped
    /\ a = Head(tick.todo) /\ a \notin tick.seen

\* An attempt that a failed Dagster run left behind ends its native run, too.
Process ==
    \E a \in Attempts :
        /\ Candidate(a)
        /\ \E status \in IF RunOf[a] \in NativeRuns \/ native[RunOf[a]] = "failed"
                         THEN {"unknown"} ELSE Told(RunOf[a]) :
             LET verdict == Verdict(a, status)
                 asked   == IF native[RunOf[a]] = "failed" THEN tick.probed
                            ELSE Remember(RunOf[a], status)
             IN  IF a \in Broken /\ verdict # "NOT_READY"
                 THEN /\ tick' = [Advance(a) EXCEPT
                            !.errors = @ + 1, !.stopped = tick.errors + 1 >= TickErrors,
                            !.probed = asked]
                      /\ UNCHANGED <<att, native>>
                 ELSE /\ tick' = [Advance(a) EXCEPT !.errors = 0, !.probed = asked]
                      /\ \E s \in Outcomes(a, verdict, tick.at = "fresh drain") :
                            att' = [att EXCEPT ![a] = s]
                      /\ native' = IF verdict = "LOCKED" /\ native[RunOf[a]] = "running"
                                   THEN [native EXCEPT ![RunOf[a]] = "failed"] ELSE native
        /\ UNCHANGED <<old, orch, finished, cursor, retireDue, missed, faults, events>>

\* A passing error: of this candidate only, or of the database.
ProcessFails(systemic) ==
    \E a \in Attempts :
        /\ Candidate(a) /\ Fault
        /\ tick' = [Advance(a) EXCEPT
              !.errors = IF systemic THEN @ + 1 ELSE 0,
              !.stopped = systemic /\ tick.errors + 1 >= TickErrors]
        /\ UNCHANGED <<att, old, native, orch, finished, cursor, retireDue, missed, events>>

-----------------------------------------------------------------------------
(***************************************************************************)
(* The stages of a tick.                                                   *)
(***************************************************************************)

\* A cursor that does not parse is reset.
Begin ==
    /\ tick.at = "idle"
    /\ LET after == IF cursor = Garbled THEN 0 ELSE cursor
       IN  tick' = [NoTick EXCEPT !.at = IF retireDue THEN "retire" ELSE "fresh",
                                  !.after = after, !.start = after]
    /\ UNCHANGED <<att, old, native, orch, finished, cursor, retireDue, missed, faults, events>>

\* retire_settled_attempts, once per interval whether or not it fails.
Retire ==
    /\ tick.at = "retire"
    /\ \E gone \in {{}, {a \in Pending : a \in old \/ native[RunOf[a]] = "failed"}} :
          att' = [a \in Attempts |-> IF a \in gone THEN "done" ELSE att[a]]
    /\ retireDue' = FALSE
    /\ tick' = [tick EXCEPT !.at = "fresh"]
    /\ UNCHANGED <<old, native, orch, finished, cursor, missed, faults, events>>

FreshRuns ==
    {r \in Runs : native[r] = "success" /\ \E a \in Attempts : RunOf[a] = r /\ att[a] = "planned"}

\* _fresh_run_window: the newest runs older than the last window.
NewestRuns ==
    LET R == {r \in FreshRuns : finished[r] < tick.older}
    IN  {r \in R : Cardinality({q \in R : finished[q] > finished[r]}) < RunWindow}

\* Rows of the window, newest run first and highest id first within a run.
FreshKey(a) == <<finished[RunOf[a]], a>>
Before(k, m) == k[1] > m[1] \/ (k[1] = m[1] /\ k[2] > m[2])
FreshRows(window) ==
    {a \in Attempts : /\ RunOf[a] \in window /\ att[a] = "planned" /\ a \notin old
                      /\ native[RunOf[a]] = "success"
                      /\ tick.key = <<>> \/ Before(tick.key, FreshKey(a))}

Ordered(S, Less(_, _)) ==
    [i \in 1 .. Cardinality(S) |->
        CHOOSE a \in S : Cardinality({b \in S : Less(b, a)}) = i - 1]
FirstOf(s, n) == SubSeq(s, 1, IF n < Len(s) THEN n ELSE Len(s))

\* TickStatusProbe.prefetch asks for all the runs of a page at once; when that fails,
\* each candidate asks for itself.
Prefetched(rows) ==
    LET ask == {RunOf[rows[i]] : i \in 1 .. Len(rows)}
               \ (NativeRuns \cup {r \in Runs : native[r] = "failed"} \cup DOMAIN tick.probed)
    IN  {tick.probed,
         [r \in DOMAIN tick.probed \cup ask |-> IF r \in ask THEN orch[r] ELSE tick.probed[r]]}

ToSweep(t) == [t EXCEPT !.at = "sweep", !.window = NoTick.window, !.older = NoTick.older,
                        !.key = NoTick.key]

ReadFresh ==
    /\ tick.at = "fresh" /\ ~tick.stopped /\ tick.fresh < TickAttempts
    /\ LET window == IF tick.window = {} THEN NewestRuns ELSE tick.window
           order  == Ordered(FreshRows(window), LAMBDA b, a : Before(FreshKey(b), FreshKey(a)))
           rows   == FirstOf(order, IF CandidatePage < TickAttempts - tick.fresh THEN CandidatePage
                                    ELSE TickAttempts - tick.fresh)
       IN  CASE window = {} -> tick' = ToSweep(tick)
             [] window # {} /\ rows = <<>> ->
                  tick' = [tick EXCEPT !.window = {}, !.key = <<>>,
                             !.older = CHOOSE k \in {finished[r] : r \in window} :
                                          \A r \in window : k <= finished[r]]
             [] OTHER ->
                  \E probed \in Prefetched(rows) :
                      tick' = [tick EXCEPT !.at = "fresh drain", !.window = window,
                                 !.page = Len(rows), !.todo = rows, !.processed = 0,
                                 !.last = 0, !.probed = probed]
    /\ UNCHANGED <<att, old, native, orch, finished, cursor, retireDue, missed, faults, events>>

\* The page is done: the next one; a drain that was stopped or met its deadline ends
\* the phase.
FreshDrained ==
    /\ tick.at = "fresh drain"
    /\ LET next == [tick EXCEPT
                       !.at = "fresh", !.fresh = @ + tick.processed,
                       !.todo = <<>>, !.page = 0, !.processed = 0, !.last = 0,
                       !.key = IF tick.last = 0 THEN @ ELSE FreshKey(tick.last)]
       IN  tick' = IF tick.todo = <<>> THEN next ELSE ToSweep(next)
    /\ UNCHANGED <<att, old, native, orch, finished, cursor, retireDue, missed, faults, events>>

\* The phase is stopped, has seen enough, meets its deadline, or its query fails; then
\* its candidates are not counted.
FreshEnds ==
    /\ tick.at = "fresh"
    /\ \E counted \in {0, tick.fresh} : tick' = [ToSweep(tick) EXCEPT !.fresh = counted]
    /\ UNCHANGED <<att, old, native, orch, finished, cursor, retireDue, missed, faults, events>>

\* publish_pending_exports reads one row more than it processes.
ReadSweep ==
    /\ tick.at = "sweep" /\ ~tick.stopped /\ tick.fresh + tick.swept < TickAttempts
    /\ LET rest  == {a \in Pending : a > tick.after}
           left  == TickAttempts - tick.fresh - tick.swept
           limit == IF CandidatePage < left THEN CandidatePage ELSE left
           rows  == FirstOf(Ordered(rest, LAMBDA b, a : b < a), limit + 1)
       IN  \E probed \in Prefetched(FirstOf(rows, limit)) :
              tick' = [tick EXCEPT !.at = "sweep drain", !.page = Len(rows),
                         !.todo = FirstOf(rows, limit), !.processed = 0, !.last = 0,
                         !.probed = probed]
    /\ UNCHANGED <<att, old, native, orch, finished, cursor, retireDue, missed, faults, events>>

\* Mutation: a candidate that ended in an error is tried again before the sweep goes on.
NextCursorHeldBack(t) ==
    IF t.processed < t.page
    THEN IF t.last = 0 \/ t.errors > 0 THEN t.after ELSE t.last
    ELSE 0
\* Where the sweep goes on: after the last candidate processed, from the start when the
\* rows are used up.
NextCursor(t) ==
    IF t.processed < t.page THEN IF t.last = 0 THEN t.after ELSE t.last ELSE 0

\* The drain ends: all its candidates are done, or it was stopped, or met its deadline
\* (before its first candidate only as a fault).
SweepDrained ==
    /\ tick.at = "sweep drain"
    /\ IF tick.todo = <<>> \/ tick.stopped \/ tick.processed > 0 THEN UNCHANGED faults ELSE Fault
    /\ tick' = [tick EXCEPT
            !.at = IF tick.processed \in 1 .. tick.page - 1 /\ tick.todo = <<>>
                   THEN "sweep" ELSE "update",
            !.after = NextCursor(tick), !.swept = @ + tick.processed,
            !.page = 0, !.todo = <<>>, !.processed = 0, !.last = 0]
    /\ UNCHANGED <<att, old, native, orch, finished, cursor, retireDue, missed, events>>

\* The tick has seen enough, the budget is used up, or the query failed.
SweepEnds ==
    /\ tick.at = "sweep"
    /\ \/ /\ tick.stopped \/ tick.fresh + tick.swept >= TickAttempts \/ tick.swept > 0
          /\ tick' = [tick EXCEPT !.at = "update"] /\ UNCHANGED faults
       \/ /\ ~tick.stopped /\ Fault
          /\ \E ok \in BOOLEAN : tick' = [tick EXCEPT !.at = "update", !.ok = ok]
    /\ UNCHANGED <<att, old, native, orch, finished, cursor, retireDue, missed, events>>

\* The lease is given back and the cursor is kept, unless the daemon gave up on the
\* evaluation.
Update ==
    /\ tick.at = "update"
    /\ cursor' = IF ~tick.lost /\ (tick.ok \/ tick.after # tick.start) THEN tick.after ELSE cursor
    /\ missed' = [a \in Attempts |->
          IF a \in tick.seen \/ a \notin Pending THEN 0
          ELSE IF tick.lost \/ ~tick.ok \/ tick.swept = 0 THEN missed[a]
          ELSE missed[a] + 1]
    /\ tick' = NoTick
    /\ UNCHANGED <<att, old, native, orch, finished, retireDue, faults, events>>

\* The daemon's call times out, or giving back the lease fails: the tick goes on but
\* its cursor is lost.
Abandon ==
    /\ tick.at # "idle" /\ ~tick.lost /\ Fault
    /\ tick' = [tick EXCEPT !.lost = TRUE]
    /\ UNCHANGED <<att, old, native, orch, finished, cursor, retireDue, missed, events>>

\* The process dies and starts again, with all intervals due.
Die ==
    /\ tick.at # "idle" /\ Fault
    /\ tick' = NoTick /\ retireDue' = TRUE
    /\ UNCHANGED <<att, old, native, orch, finished, cursor, missed, events>>

TickStep ==
    \/ Begin \/ Retire \/ ReadFresh \/ FreshDrained \/ FreshEnds \/ ReadSweep
    \/ SweepDrained \/ SweepEnds \/ Update \/ PassSeen \/ Process

TickSurroundings ==
    \/ \E r \in Runs : \E s \in {"success", "failed"} : RunEnds(r, s)
    \/ \E r \in Runs : \E s \in {"SUCCESS", "FAILURE"} : DagsterEnds(r, s)
    \/ \E a \in Attempts : Supersede(a)
    \/ RetireIntervalPasses
    \/ \E systemic \in BOOLEAN : ProcessFails(systemic)
    \/ Abandon
    \/ Die

-----------------------------------------------------------------------------
\* Every candidate is looked at again and again as long as it is pending: as many ticks
\* that make some headway as there are attempts do not pass one over, although others
\* are broken, a tick sees only a part of them and evaluations are lost (_drain,
\* publish_pending_exports, the sensor's cursor).
EveryCandidateConsidered == \A a \in Attempts : missed[a] < Cardinality(Attempts)
=============================================================================
