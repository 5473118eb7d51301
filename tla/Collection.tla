----------------------------- MODULE Collection ------------------------------
(***************************************************************************)
(* The Dagster jobs together: KMA grids, mid-term regions and alerts, the  *)
(* observation networks, alert events, the choice of KMA targets, and      *)
(* short-forecast retention.  A behaviour follows one job, fixed by the    *)
(* initial state; the variables of the other jobs keep their initial       *)
(* values.                                                                 *)
(***************************************************************************)
EXTENDS KmaCollection, KmaAlerts, StationCollection, AlertEventSync, StationRotation,
        ShortRetention

vars == <<runVars, kmaVars, alertVars, stationVars, eventVars, rotationVars, shortVars>>

Init ==
    /\ RunInit /\ KmaInit /\ AlertInit /\ StationInit /\ EventInit /\ RotationInit /\ ShortInit

OthersOfKma == UNCHANGED <<alertVars, stationVars, eventVars, rotationVars, shortVars>>
OthersOfAlerts == UNCHANGED <<kmaVars, stationVars, eventVars, rotationVars, shortVars>>
OthersOfStations == UNCHANGED <<kmaVars, alertVars, eventVars, rotationVars, shortVars>>
OthersOfEvents == UNCHANGED <<kmaVars, alertVars, stationVars, rotationVars, shortVars>>
OthersOfTargets == UNCHANGED <<runVars, kmaVars, alertVars, stationVars, eventVars, shortVars>>
OthersOfRetention == UNCHANGED <<runVars, kmaVars, alertVars, stationVars, eventVars, rotationVars>>

Worker ==
    \/ KmaWorker /\ OthersOfKma
    \/ AlertWorker /\ OthersOfAlerts
    \/ StationWorker /\ OthersOfStations
    \/ EventWorker /\ OthersOfEvents
    \/ ShortWorker /\ OthersOfRetention

Starts ==
    \/ StartKma /\ OthersOfKma
    \/ StartAlerts /\ OthersOfAlerts
    \/ StartStations /\ OthersOfStations
    \/ BeginEvents /\ OthersOfEvents
    \/ job = "short_retention" /\ StartPurge /\ OthersOfRetention

OthersOfTheRow == UNCHANGED <<kmaVars, alertVars, stationVars, eventVars, rotationVars, shortVars>>

Others ==
    \/ (SkipOverlap \/ Reap \/ Crash \/ Recover) /\ OthersOfTheRow
    \/ (ListChanges \/ CancelEvents) /\ OthersOfEvents
    \/ job = "kma_targets" /\ RotationNext /\ OthersOfTargets
    \/ job = "short_retention" /\ ShortSurroundings /\ OthersOfRetention

Next == Starts \/ Worker \/ Others

\* The worker's own steps are fair, and its threads': it goes on unless it is killed.
\* So is the recovery of an abandoned row, which is SyncRunLease's AbandonedIsReaped.
Spec == Init /\ [][Next]_vars /\ WF_vars(Worker) /\ WF_vars(Recover /\ OthersOfTheRow)

-----------------------------------------------------------------------------
Reported == IF job \in AlertJobs THEN note ELSE {}

\* A run that ends as success or partial has stored every source record and
\* every fact of the responses it accepted; the only facts it may lack are those
\* of alert locations its own note reports as skipped (_stage_and_publish_weather,
\* publish_regional_records, _run_airkorea_weather_sync).
SuccessIsComplete ==
    row \in {"success", "partial"} /\ at = "idle" =>
        /\ fetched \subseteq records
        /\ \A f \in due \ facts : f.loc \in Reported

\* A run that is no longer running, because another process ended it, stores nothing
\* more: every transaction carries a source record and so re-checks the row
\* (chunk_publications).
LostRunPublishesNothing ==
    [][row # "running" /\ runs' = runs /\ row' # "running" => facts' = facts]_vars

\* A finished KMA grid job leaves no export attempt in preparation, but for one
\* whose rejection could not be written and the one in hand when an ingest
\* failed; a job that succeeded leaves none (reject_leftovers, finish).
Preparing == {u \in Units : plans[u] = "preparing"}
PlansSettled ==
    /\ [](at = "idle" /\ row \in {"success", "partial"} => Preparing = {})
    /\ [][InPipeline /\ job \in {"nowcast", "forecast"} /\ at' = "idle"
            => Crash \/ Cardinality(Preparing') <= 1]_vars

\* An alert location skipped by this run and by the StarvedRuns - 1 counted runs
\* before it never hides behind a green run, as long as every note had room for
\* all the locations skipped (_starved_alert_locations).
Streak ==
    IF Cardinality(Counted) < StarvedRuns - 1 THEN {}
    ELSE {l \in note : \A i \in Newest(StarvedRuns - 1) :
            /\ l \in history[i].note
            /\ Cardinality(history[i].note) <= NoteIds}

StarvedIsReported == at = "idle" /\ row = "success" => Streak = {}

\* An export capture is taken only from a response that stays within the roster
\* fixed before the request, of a record that is stored, and where records carry a
\* time, of the station's newest (publish_regional_records, SdkCollectionContext).
RosterConfirmed ==
    job \in RegionalExports =>
        \A s \in RegionalStations : plans[s] = "ingested" =>
            /\ complete /\ active \subseteq roster.known
            /\ \E t \in 1 .. MaxRecords :
                  /\ Fact(<<s, t>>, LocOf(s), 1) \in facts
                  /\ job = "beach_export" \/ t = newest[s]

\* The lists of the run whose places are those of the final list.
Alike == {l \in lists : Len(l) = Len(listing) /\ (l # <<>> => l[1] = listing[1])}

\* Pages are read while the list changes.  A run that succeeds publishes each notice
\* of the final list exactly once, in one of the versions it had during the run, and
\* nothing else; with at most two pages that is the list as it was at one moment
\* (collect_alert_pages).
EveryNoticeOnce ==
    job \in EventJobs /\ row = "success" /\ at = "idle" =>
        LET events      == {f.n : f \in facts}
            Versions(i) == {l[i] : l \in Alike}
        IN  /\ \A i \in 1 .. Len(listing) : \E v \in events : events \cap Versions(i) = {v}
            /\ events \subseteq UNION {Versions(i) : i \in 1 .. Len(listing)}
            /\ Len(pages) <= 2 => \E l \in lists : ToSet(l) = events

\* Cancelling the job stops neither the thread that starts its run nor the one that
\* publishes it.  Once the cancellation was handled the run does not stay running nor
\* start after all, and it is a success if its events were stored, before or after
\* (run_alert_event_sync_async).
CancelledIsSealed ==
    job \in EventJobs /\ cancelling = "sealed" =>
        /\ ~Alive
        /\ facts # {} => row = "success"

\* Every run ends, and its row with it: requests are retried a bounded number of times,
\* batches drain, rounds are counted, and any exception ends the worker.
RunEnds ==
    at # "idle" \/ Alive \/ purge.at # "idle" ~> at = "idle" /\ ~Alive /\ purge.at = "idle"
=============================================================================
