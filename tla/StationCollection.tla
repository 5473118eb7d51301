-------------------------- MODULE StationCollection --------------------------
(***************************************************************************)
(* The jobs of the observation networks: AirKorea (airkorea_weather.py)    *)
(* and the regional sources, KHOA, krforest and krex (regional_sources.py, *)
(* export_sdk_collection.py).  A unit is a station, with one location.     *)
(*                                                                         *)
(* AirKorea is two runs: one refreshes the catalog of stations, the next   *)
(* asks one bulk request per sido, and per station for the others.  The    *)
(* second run's requests are outside any try block: a lost lease there     *)
(* ends the worker without a word to its row, which is Crash.              *)
(*                                                                         *)
(* A regional job asks once and publishes record by record.  With exports  *)
(* on, the roster of stations is fixed before the request; only the newest *)
(* record of a station is captured, for KHOA's beach index, whose records  *)
(* carry no time, the first, and nothing is when the response goes beyond  *)
(* the roster.                                                             *)
(***************************************************************************)
EXTENDS CollectorRun

CONSTANTS
    Stations,       \* SUBSET Units: measurement stations
    RegionalStations,   \* those a regional source reports
    SidoOf,         \* [Stations -> sido, "none" for an anchor without one]
    NameOf,         \* [Stations -> station name]
    StationValues,  \* numbers of values a measurement may yield
    MaxRecords      \* bound on the records of a regional response

ASSUME StationAssumption ==
    /\ RegionalStations \subseteq Stations /\ Stations \subseteq Units
    /\ \A s \in Stations : Len(LocsOf[s]) = 1
    /\ IsFiniteSet(Stations)
    /\ DOMAIN SidoOf = Stations /\ DOMAIN NameOf = Stations
    /\ StationValues \subseteq Nat /\ MaxRecords \in Nat

VARIABLES
    active,     \* AirKorea: enabled stations of the catalog; regional: stations seen in a record
    todo,       \* AirKorea: requests left; regional: records left
    matched,    \* stations whose measurement was accepted
    failed,     \* stations the run reports as failed
    roster,     \* regional: stations known before the request, with or without a plan
    complete,   \* regional: nothing has spoken against the response's coverage
    newest      \* regional_export: [station -> time of its newest record], 0 without one

stationVars == <<active, todo, matched, failed, roster, complete, newest>>

AirKoreaJobs == {"airkorea", "airkorea_export"}
RegionalExports == {"regional_export", "beach_export"}
RegionalJobs == {"regional"} \cup RegionalExports
StationJobs == AirKoreaJobs \cup RegionalJobs
Exports == job \in {"airkorea_export"} \cup RegionalExports

LocOf(s) == LocsOf[s][1]
ForgetStations ==
    /\ todo' = <<>> /\ matched' = {} /\ failed' = {} /\ active' = {}
    /\ roster' = [known |-> {}, disabled |-> {}] /\ complete' = TRUE
    /\ newest' = [s \in RegionalStations |-> 0]

StartStations ==
    /\ job \in StationJobs
    /\ Start(IF job \in AirKoreaJobs THEN "catalog" ELSE "roster")
    /\ ForgetStations

(***************************************************************************)
(* AirKorea.                                                               *)
(***************************************************************************)
\* The catalog run: anchors are inserted, never overwritten; disabled ones are left out.
FetchCatalog ==
    /\ at = "catalog" /\ Alive
    /\ \E listed \in SUBSET Stations :
         /\ active' \in SUBSET listed
         /\ fetched' = {<<s, 0>> : s \in listed}
    /\ at' = "catalog_end"
    /\ UNCHANGED <<job, runs, row, sources, values, queue, back, facts, records, due, plans, held>>
    /\ UNCHANGED <<todo, matched, failed, roster, complete, newest>>

FinishCatalog ==
    /\ at = "catalog_end" /\ Alive
    /\ records' = records \cup fetched
    /\ row' = "success"
    /\ at' = "measure"
    /\ UNCHANGED <<job, runs, sources, values, queue, back, facts, due, fetched, plans, held>>
    /\ UNCHANGED stationVars

\* One bulk request per sido, in order; the stations without one are asked singly.
Sidos(S) == {SidoOf[s] : s \in S} \ {"none"}
RequestsFor(S) ==
    LET bulk == {{s \in S : SidoOf[s] = d} : d \in Sidos(S)}
    IN  SetToSeq(bulk) \o SetToSeq({{s} : s \in {s \in S : SidoOf[s] = "none"}})

StartMeasurements ==
    /\ at = "measure"
    /\ row' = "running"
    /\ records' = {} /\ fetched' = {}
    /\ IF Exports THEN prepare(active) ELSE UNCHANGED <<plans, held>>
    /\ todo' = RequestsFor(active)
    /\ at' = "request"
    /\ UNCHANGED <<job, runs, sources, values, queue, back, facts, due>>
    /\ UNCHANGED <<active, matched, failed, roster, complete, newest>>

\* A name that stands for two anchors of the request identifies neither.
Namesakes(s) == {t \in Head(todo) : NameOf[t] = NameOf[s]}

\* The stations a response identifies; any other of the request is missing for now.
Sure(covered) == {s \in covered : Namesakes(s) = {s}}
Measurements(sure, n) ==
    LET station(k) == SetToSeq(sure)[((k - 1) \div n) + 1]
    IN  [k \in 1 .. n * Cardinality(sure) |->
           Fact(<<station(k), 1>>, LocOf(station(k)), ((k - 1) % n) + 1)]
Fits(covered, n) == Len(values) + Len(Measurements(Sure(covered), n)) <= MaxValues

append_measurement(covered, n) ==
    LET new  == {<<s, 1>> : s \in Sure(covered)}
        more == Measurements(Sure(covered), n)
    IN  /\ Fits(covered, n)
        /\ sources' = sources \cup new
        /\ values' = values \o more
        /\ fetched' = fetched \cup new
        /\ due' = due \cup ToSet(more)
        /\ matched' = matched \cup Sure(covered)
        /\ failed' = failed \cup (covered \ Sure(covered))

MeasureGroup ==
    /\ at = "request" /\ todo # <<>> /\ Alive
    /\ \/ \E covered \in SUBSET Head(todo), n \in StationValues : append_measurement(covered, n)
       \/ /\ failed' = failed \cup Head(todo)
          /\ UNCHANGED <<sources, values, fetched, due, matched>>
    /\ todo' = Tail(todo)
    /\ UNCHANGED <<job, runs, row, at, queue, back, facts, records, plans, held>>
    /\ UNCHANGED <<active, roster, complete, newest>>

\* A response over the budget ends the run by hand, outside any try block.
OverBudget ==
    /\ at = "request" /\ todo # <<>> /\ Alive
    /\ \E covered \in SUBSET Head(todo), n \in StationValues : ~Fits(covered, n)
    /\ Fail
    /\ Drop
    /\ held' = {}
    /\ UNCHANGED <<job, runs, back, facts, records, due, fetched, plans>>
    /\ UNCHANGED stationVars

EndMeasurements ==
    /\ at = "request" /\ todo = <<>>
    /\ failed' = failed \cup (active \ matched)
    /\ todo' = IF Exports THEN SetToSeq(sources) ELSE <<>>
    /\ IF Exports THEN at' = "capture" /\ UNCHANGED <<queue, back>>
       ELSE BeginFanout(chunk_publications(values, PublishLocations, PublishValues), "finish")
    /\ UNCHANGED <<job, runs, row, sources, values, facts, records, due, fetched, plans, held>>
    /\ UNCHANGED <<active, matched, roster, complete, newest>>

\* A transaction of its own for facts that cite all the sources, or for sources alone.
AtOnce(srcs, vals) == [chunk_publications(vals, Max({1, Len(vals)}), Len(vals))
                         EXCEPT !.uncited = uncited_sources(srcs, vals)]

\* With exports each station is one transaction, with or without its plan.
CaptureStation ==
    /\ at = "capture" /\ todo # <<>> /\ Alive
    /\ LET src == Head(todo)
           own == {v \in ToSet(values) : v.src = src}
       IN  /\ Bind(src[1])
           /\ BeginFanout(AtOnce({src}, SetToSeq(own)), "sealed")
    /\ UNCHANGED <<job, runs, row, sources, values, facts, records, due, fetched>>
    /\ UNCHANGED stationVars

SealStation ==
    /\ at = "sealed" /\ job \in AirKoreaJobs
    /\ Seal(Head(todo)[1])
    /\ todo' = Tail(todo)
    /\ at' = "capture"
    /\ UNCHANGED <<job, runs, row, sources, values, queue, back, facts, records, due, fetched,
                   held>>
    /\ UNCHANGED <<active, matched, failed, roster, complete, newest>>

\* Plans of stations the responses did not cover are rejected.
RejectUncovered ==
    /\ at = "capture" /\ todo = <<>>
    /\ plans' \in Rejections(held)
    /\ held' = {}
    /\ at' = "finish"
    /\ UNCHANGED <<job, runs, row, sources, values, queue, back, facts, records, due, fetched>>
    /\ UNCHANGED stationVars

(***************************************************************************)
(* Regional sources.                                                       *)
(***************************************************************************)
\* prepare_sdk_collection: the known stations, and a plan for each enabled one.
PrepareRoster ==
    /\ at = "roster" /\ job \in RegionalJobs
    /\ \E known \in SUBSET RegionalStations : \E disabled \in SUBSET known :
         /\ roster' = [known |-> known, disabled |-> disabled]
         /\ complete' = (known # {})
         /\ IF Exports THEN prepare(known \ disabled) ELSE UNCHANGED <<plans, held>>
    /\ at' = "ask"
    /\ UNCHANGED <<job, runs, row, sources, values, queue, back, facts, records, due, fetched>>
    /\ UNCHANGED <<active, todo, matched, failed, newest>>

\* Nothing could be asked for: the run is recorded as failed, and that is all.
SkipRegional ==
    /\ at = "ask"
    /\ Fail
    /\ Drop
    /\ held' = {}
    /\ UNCHANGED <<job, runs, back, facts, records, due, fetched, plans>>
    /\ UNCHANGED stationVars

Record == [station : RegionalStations, time : 1 .. MaxRecords, n : StationValues]

\* invalidate: capture stops, collection goes on.
Invalidate ==
    /\ complete' = FALSE
    /\ held' = {}
    /\ plans' \in Rejections(held)

\* Mutation: A station outside the roster is overlooked.
NeverUnknown(recs) == FALSE

Unknown(recs) == \E r \in ToSet(recs) : r.station \notin roster.known

\* observe_krex_page: the receipt of the page is whole and its count fits the roster.
Confirmed == BOOLEAN

AskRegional ==
    /\ at = "ask"
    /\ \E recs \in BoundedSeq(Record, MaxRecords), confirmed \in Confirmed :
         LET last(s) == Max({0} \cup {r.time : r \in {q \in ToSet(recs) : q.station = s}})
             sure    == complete /\ confirmed /\ ~Unknown(recs)
         IN  /\ todo' = recs
             /\ active' = {r.station : r \in ToSet(recs)}
             /\ newest' = [s \in RegionalStations |->
                             IF job = "regional_export" /\ sure THEN last(s) ELSE 0]
             /\ IF Exports /\ ~sure THEN Invalidate ELSE UNCHANGED <<complete, plans, held>>
    /\ at' = "record"
    /\ UNCHANGED <<job, runs, row, sources, values, queue, back, facts, records, due, fetched>>
    /\ UNCHANGED <<matched, failed, roster>>

Rec == Head(todo)
RecFacts == FactsOf(<<Rec.station, Rec.time>>, LocsOf[Rec.station], Rec.n)
\* A record without coordinates or values, or of a station disabled meanwhile, is skipped.
Usable == Rec.station \notin roster.disabled /\ Rec.n > 0
WithinBudget == Cardinality(due) + Rec.n <= MaxValues
Capture ==
    /\ complete /\ Exports /\ Rec.station \in held
    /\ job = "beach_export" \/ newest[Rec.station] = Rec.time

SkipRecord ==
    /\ at = "record" /\ todo # <<>>
    /\ todo' = Tail(todo)
    /\ UNCHANGED runVars
    /\ UNCHANGED <<active, matched, failed, roster, complete, newest>>

\* The budget cuts between stations: what is staged is published, the rest is not.
Truncate ==
    /\ at = "record" /\ todo # <<>> /\ Usable /\ ~WithinBudget
    /\ todo' = <<>>
    /\ UNCHANGED runVars
    /\ UNCHANGED <<active, matched, failed, roster, complete, newest>>

Full ==
    LET locs == {v.loc : v \in ToSet(values)}
    IN  /\ values # <<>>
        /\ \/ LocOf(Rec.station) \notin locs /\ Cardinality(locs) >= PublishLocations
           \/ Len(values) + Rec.n > PublishValues

FlushRecords ==
    /\ at = "record" /\ todo # <<>> /\ Usable /\ WithinBudget
    /\ values # <<>> /\ (Capture \/ Full)
    /\ BeginFlush(AtOnce(sources, values), "record")
    /\ UNCHANGED <<job, runs, row, sources, values, facts, records, due, fetched, plans, held>>
    /\ UNCHANGED stationVars

StageRecord ==
    /\ at = "record" /\ todo # <<>> /\ Usable /\ WithinBudget /\ ~Capture /\ ~Full
    /\ sources' = sources \cup CitedBy(RecFacts)
    /\ values' = values \o RecFacts
    /\ due' = due \cup ToSet(RecFacts)
    /\ fetched' = fetched \cup CitedBy(RecFacts)
    /\ todo' = Tail(todo)
    /\ UNCHANGED <<job, runs, row, at, queue, back, facts, records, plans, held>>
    /\ UNCHANGED <<active, matched, failed, roster, complete, newest>>

CaptureRecord ==
    /\ at = "record" /\ todo # <<>> /\ Usable /\ WithinBudget /\ Capture /\ values = <<>>
    /\ Bind(Rec.station)
    /\ due' = due \cup ToSet(RecFacts)
    /\ fetched' = fetched \cup CitedBy(RecFacts)
    /\ BeginFanout(AtOnce(CitedBy(RecFacts), RecFacts), "sealed")
    /\ UNCHANGED <<job, runs, row, sources, values, facts, records>>
    /\ UNCHANGED stationVars

SealRecord ==
    /\ at = "sealed" /\ job \in RegionalJobs
    /\ Seal(Rec.station)
    /\ todo' = Tail(todo)
    /\ at' = "record"
    /\ UNCHANGED <<job, runs, row, sources, values, queue, back, facts, records, due, fetched,
                   held>>
    /\ UNCHANGED <<active, matched, failed, roster, complete, newest>>

EndRecords ==
    /\ at = "record" /\ todo = <<>>
    /\ IF values # <<>> THEN BeginFlush(AtOnce(sources, values), "record") /\ UNCHANGED <<plans, held>>
       ELSE /\ at' = "finish"
            /\ plans' \in Rejections(held)
            /\ held' = {}
            /\ UNCHANGED <<queue, back>>
    /\ UNCHANGED <<job, runs, row, sources, values, facts, records, due, fetched>>
    /\ UNCHANGED stationVars

(***************************************************************************)
(* The end of either.                                                      *)
(***************************************************************************)
FinishStations ==
    /\ job \in StationJobs /\ at = "finish"
    /\ Complete("success", IF Exports THEN {} ELSE uncited_sources(sources, values))
    /\ sources' = {} /\ values' = <<>>
    /\ UNCHANGED <<job, runs, queue, back, facts, due, fetched, plans, held>>
    /\ UNCHANGED stationVars

\* The try blocks: all but the requests of AirKorea's second run.  Plans still
\* held are left as they are.
Guarded ==
    \/ job \in RegionalJobs
    \/ at \in {"catalog", "catalog_end", "capture", "fanout", "sealed", "finish"}

RaiseStations ==
    /\ job \in StationJobs /\ at # "idle" /\ Guarded
    /\ Fail
    /\ Drop
    /\ held' = {}
    /\ UNCHANGED <<job, runs, back, facts, records, due, fetched, plans>>
    /\ UNCHANGED stationVars

\* An exception between the try blocks (keep_alive of a lost run) ends the worker and
\* leaves the row as it is.
Escape ==
    /\ job \in StationJobs /\ at # "idle" /\ ~Guarded
    /\ at' = "idle"
    /\ Drop
    /\ held' = {}
    /\ UNCHANGED <<job, runs, row, back, facts, records, due, fetched, plans>>
    /\ UNCHANGED stationVars

StationShared == (PublishChunk \/ EndFlush \/ EndFanout) /\ UNCHANGED stationVars

StationWorker ==
    /\ job \in StationJobs
    /\ \/ StationShared \/ FetchCatalog \/ FinishCatalog \/ StartMeasurements \/ MeasureGroup
       \/ OverBudget \/ EndMeasurements \/ CaptureStation \/ SealStation \/ RejectUncovered
       \/ PrepareRoster \/ SkipRegional \/ AskRegional \/ SkipRecord \/ Truncate
       \/ FlushRecords \/ StageRecord \/ CaptureRecord \/ SealRecord \/ EndRecords
       \/ FinishStations \/ RaiseStations \/ Escape

StationInit ==
    /\ active = {} /\ todo = <<>> /\ matched = {} /\ failed = {}
    /\ roster = [known |-> {}, disabled |-> {}] /\ complete = TRUE
    /\ newest = [s \in RegionalStations |-> 0]
=============================================================================
