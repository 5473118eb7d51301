------------------------------ MODULE KmaAlerts ------------------------------
(***************************************************************************)
(* The KMA alerts job of kma_weather.py: every notice of an issuing        *)
(* office fans out to the locations it matches.  A location that another   *)
(* writer has locked is skipped instead of waited on, tried again for a    *)
(* few rounds, and otherwise left to the next run; the run's note lists    *)
(* the skipped locations, and the next runs read the note back to tell     *)
(* routine contention from starvation.                                     *)
(***************************************************************************)
EXTENDS CollectorRun

CONSTANTS
    StationOrder,       \* issuing offices, in the order of the targets
    MaxNotices,         \* bound on the notices one office has out
    AlertLocations,     \* ALERT_PUBLISH_LOCATIONS
    AlertStageValues,   \* KMA_STAGE_VALUES
    AlertStageSources,  \* KMA_STAGE_SOURCES
    AlertRounds,        \* ALERT_SKIP_RETRY_ROUNDS
    StarvedRuns,        \* ALERT_STARVED_RUNS
    RunListExtra,       \* list_sync_runs returns StarvedRuns + RunListExtra runs
    AlertPartialMin,    \* ALERT_PARTIAL_MIN_SKIPPED
    NoteIds             \* location ids that fit ALERT_SKIP_NOTE_CHARS

ASSUME AlertAssumption ==
    /\ ToSet(StationOrder) \subseteq Units
    /\ {MaxNotices, AlertLocations, AlertStageValues, AlertStageSources, StarvedRuns,
        RunListExtra, AlertPartialMin, NoteIds} \subseteq Nat \ {0}
    /\ AlertRounds \in Nat

VARIABLES
    offices,    \* offices not yet asked
    notices,    \* sets of locations the unread notices of this office match
    notice,     \* source record of the notice at hand
    fan,        \* locations the notice at hand still has to reach
    round,      \* retry round of the alert flush under way
    locked,     \* locations found locked in this round
    seen, published, skipped,   \* alert locations of the run so far
    note,       \* locations the newest run's note reports as skipped
    history     \* earlier runs, oldest first: [status, note]

alertVars == <<offices, notices, notice, fan, round, locked, seen, published, skipped, note,
               history>>

AlertJobs == {"kma_alerts"}

StartAlerts ==
    /\ job \in AlertJobs
    /\ Start("setup")
    /\ offices' \in Prefixes(StationOrder)
    /\ notices' = <<>> /\ notice' = <<>> /\ fan' = <<>> /\ round' = 0 /\ locked' = {}
    /\ seen' = {} /\ published' = {} /\ skipped' = {} /\ note' = {}
    /\ history' = IF row = "none" THEN history
                  ELSE LET all == Append(history, [status |-> row, note |-> note])
                           keep == StarvedRuns + RunListExtra - 1
                       IN  IF Len(all) <= keep THEN all ELSE Tail(all)

SetupAlerts ==
    /\ job \in AlertJobs /\ at = "setup" /\ offices # <<>> /\ Alive
    /\ at' = "offices"
    /\ UNCHANGED <<job, runs, row, sources, values, queue, back, facts, records, due, fetched,
                   plans, held>>
    /\ UNCHANGED alertVars

\* weather_warning_list: the notices of the last days, and what each matches.
AskOffice ==
    /\ at = "offices" /\ offices # <<>> /\ Alive
    /\ notices' \in BoundedSeq(SUBSET ToSet(LocsOf[Head(offices)]), MaxNotices)
    /\ notice' = <<Head(offices), 0>>
    /\ offices' = Tail(offices)
    /\ at' = "notices"
    /\ UNCHANGED <<job, runs, row, sources, values, queue, back, facts, records, due, fetched,
                   plans, held>>
    /\ UNCHANGED <<fan, round, locked, seen, published, skipped, note, history>>

\* _publish_alerts: transactions of whole locations, however many facts.
Rounds(vals) == chunk_publications(vals, AlertLocations, Max({1, Len(vals)}))

BeginAlertFlush(next) ==
    /\ CitedBy(values) \subseteq sources
    /\ queue' = Rounds(values)
    /\ back' = next
    /\ at' = "skip_locked"
    /\ round' = 0 /\ locked' = {}

FlushNotices ==
    /\ at = "notices" /\ notices # <<>> /\ Cardinality(sources) >= AlertStageSources
    /\ BeginAlertFlush("notices")
    /\ UNCHANGED <<job, runs, row, sources, values, facts, records, due, fetched, plans, held>>
    /\ UNCHANGED <<offices, notices, notice, fan, seen, published, skipped, note, history>>

\* A notice that yields no value is passed over; any other is one source record.
NextNotice ==
    /\ at = "notices" /\ notices # <<>> /\ Cardinality(sources) < AlertStageSources
    /\ notices' = Tail(notices)
    /\ notice' = <<notice[1], notice[2] + 1>>
    /\ \/ /\ sources' = sources \cup {notice'}
          /\ fetched' = fetched \cup {notice'}
          /\ fan' = SetToSortSeq(Head(notices), <)
          /\ at' = "fan"
       \/ UNCHANGED <<sources, fetched, fan, at>>
    /\ UNCHANGED <<job, runs, row, values, queue, back, facts, records, due, plans, held>>
    /\ UNCHANGED <<offices, round, locked, seen, published, skipped, note, history>>

\* The source goes with the batch it is in: after a flush it is staged again.
FanNotice ==
    /\ at = "fan" /\ fan # <<>> /\ Cardinality(due) < MaxValues
    /\ LET f == Fact(notice, Head(fan), 1)
       IN  /\ sources' = sources \cup {notice}
           /\ values' = Append(values, f)
           /\ due' = due \cup {f}
           /\ seen' = seen \cup {f.loc}
    /\ fan' = Tail(fan)
    /\ IF Len(values') >= AlertStageValues
       THEN /\ queue' = Rounds(values') /\ back' = "fan" /\ at' = "skip_locked"
            /\ round' = 0 /\ locked' = {}
       ELSE UNCHANGED <<queue, back, at, round, locked>>
    /\ UNCHANGED <<job, runs, row, facts, records, fetched, plans, held>>
    /\ UNCHANGED <<offices, notices, notice, published, skipped, note, history>>

EndNotice ==
    /\ at = "fan" /\ fan = <<>>
    /\ at' = "notices"
    /\ UNCHANGED <<job, runs, row, sources, values, queue, back, facts, records, due, fetched,
                   plans, held>>
    /\ UNCHANGED alertVars

EndOffice ==
    /\ at = "notices" /\ notices = <<>> /\ Alive
    /\ at' = "offices"
    /\ UNCHANGED <<job, runs, row, sources, values, queue, back, facts, records, due, fetched,
                   plans, held>>
    /\ UNCHANGED alertVars

EndOffices ==
    /\ at = "offices" /\ offices = <<>>
    /\ BeginAlertFlush("assess")
    /\ UNCHANGED <<job, runs, row, sources, values, facts, records, due, fetched, plans, held>>
    /\ UNCHANGED <<offices, notices, notice, fan, seen, published, skipped, note, history>>

(***************************************************************************)
(* The flush.  ingest_skip_locked stores the source records and the facts  *)
(* of the locations whose lock it got.                                     *)
(***************************************************************************)
\* The locations whose advisory lock another transaction holds, of those tried.
Busy(locs) == SUBSET locs

SkipLocked ==
    /\ at = "skip_locked" /\ queue.left # {}
    /\ \E busy \in Busy(location_chunk) :
         /\ Ingest([Publication(Chunk) EXCEPT !.facts = {f \in @ : f.loc \notin busy}])
         /\ locked' = locked \cup busy
    /\ queue' = [queue EXCEPT !.left = @ \ location_chunk]
    /\ UNCHANGED <<job, runs, row, at, sources, values, back, due, fetched, plans, held>>
    /\ UNCHANGED <<offices, notices, notice, fan, round, seen, published, skipped, note, history>>

NextRound ==
    /\ at = "skip_locked" /\ queue.left = {} /\ locked # {} /\ round < AlertRounds
    /\ queue' = [Rounds(values) EXCEPT !.left = locked]
    /\ locked' = {}
    /\ round' = round + 1
    /\ UNCHANGED <<job, runs, row, at, sources, values, back, facts, records, due, fetched,
                   plans, held>>
    /\ UNCHANGED <<offices, notices, notice, fan, seen, published, skipped, note, history>>

EndRounds ==
    /\ at = "skip_locked" /\ queue.left = {} /\ (locked = {} \/ round = AlertRounds)
    /\ skipped' = skipped \cup locked
    /\ published' = published \cup (LocationsOf(values) \ locked)
    /\ queue' = SourcesOnly(uncited_sources(sources, values))
    /\ at' = "flush"
    /\ UNCHANGED <<job, runs, row, sources, values, back, facts, records, due, fetched, plans,
                   held>>
    /\ UNCHANGED <<offices, notices, notice, fan, round, locked, seen, note, history>>

(***************************************************************************)
(* The status of the run.                                                  *)
(***************************************************************************)
\* _alert_skip_note lists the ids in order, as many as fit.
_alert_skip_note(locs) == {l \in locs : Cardinality({m \in locs : m <= l}) <= NoteIds}

\* A failed run counts only when its error is a skip note.
Counted == {i \in DOMAIN history : history[i].status # "failed" \/ history[i].note # {}}

\* The newest n of them.
Newest(n) == {i \in Counted : Cardinality({j \in Counted : j >= i}) <= n}

\* Mutation: One run too many is asked of the history.
StarvedOneRunLater ==
    IF Cardinality(Counted) < StarvedRuns THEN {}
    ELSE {l \in skipped : \A i \in Newest(StarvedRuns) : l \in _alert_skip_note(history[i].note)}

_starved_alert_locations ==
    IF Cardinality(Counted) < StarvedRuns - 1 THEN {}
    ELSE {l \in skipped : \A i \in Newest(StarvedRuns - 1) :
                             l \in _alert_skip_note(history[i].note)}

NothingPublished == skipped # {} /\ published = {} /\ Cardinality(seen) >= AlertPartialMin

AlertStatus ==
    IF \/ _starved_alert_locations # {}
       \/ /\ Cardinality(skipped) >= AlertPartialMin
          /\ 10 * Cardinality(skipped) > Cardinality(seen)
    THEN "partial" ELSE "success"

Forget == offices' = <<>> /\ notices' = <<>> /\ notice' = <<>> /\ fan' = <<>> /\ round' = 0
            /\ locked' = {} /\ seen' = {} /\ published' = {} /\ skipped' = {}

\* The note leads the error, so that this run counts for the next ones.
FailSkipped ==
    /\ at = "assess" /\ NothingPublished
    /\ Fail
    /\ note' = IF Alive THEN skipped ELSE note
    /\ Forget
    /\ UNCHANGED <<job, runs, sources, values, queue, back, facts, records, due, fetched, plans,
                   held, history>>

FinishAlerts ==
    /\ at = "assess" /\ ~NothingPublished
    /\ Complete(AlertStatus, {})
    /\ note' = skipped
    /\ Forget
    /\ UNCHANGED <<job, runs, sources, values, queue, back, facts, due, fetched, plans, held,
                   history>>

RaiseAlerts ==
    /\ job \in AlertJobs /\ at # "idle" /\ ~(at = "assess" /\ NothingPublished)
    /\ Fail
    /\ Drop
    /\ Forget
    /\ UNCHANGED <<job, runs, back, facts, records, due, fetched, plans, held, note, history>>

AlertShared == (PublishChunk \/ EndFlush) /\ UNCHANGED alertVars

AlertWorker ==
    /\ job \in AlertJobs
    /\ \/ AlertShared \/ SetupAlerts \/ AskOffice \/ FlushNotices \/ NextNotice \/ FanNotice
       \/ EndNotice \/ EndOffice \/ EndOffices \/ SkipLocked \/ NextRound \/ EndRounds
       \/ FailSkipped \/ FinishAlerts \/ RaiseAlerts

AlertInit ==
    /\ offices = <<>> /\ notices = <<>> /\ notice = <<>> /\ fan = <<>> /\ round = 0
    /\ locked = {} /\ seen = {} /\ published = {} /\ skipped = {} /\ note = {}
    /\ history = <<>>
=============================================================================
