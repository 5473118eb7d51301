---------------------------- MODULE KmaCollection ----------------------------
(***************************************************************************)
(* The KMA grid and mid-term jobs: kma_weather.py and mid_export.py with   *)
(* the export collector they use (export_collector.py).                    *)
(*                                                                         *)
(* Requests run at most FetchConcurrency ahead of the one consumer, each   *)
(* with the budget that was left when it was sent; responses are consumed  *)
(* in order, staged, and published in batches.  "grid" stages everything,  *)
(* "nowcast" and "forecast" are the same job with exports on, "mid" asks   *)
(* for two parts per region pair, "mid_export" for one native scope at a   *)
(* time.                                                                   *)
(*                                                                         *)
(* A response is [rows, n, missing, invalid]: its rows, the values it      *)
(* yields per location, the values dropped as missing or out of range.     *)
(***************************************************************************)
EXTENDS CollectorRun

CONSTANTS
    GroupOrder,         \* units in the order targets_from_settings lists them
    Responses,          \* what the provider may answer
    MaxGroups,          \* max_grids, max_mid_groups
    MaxRows,            \* max_response_rows
    ResponseRows,       \* GRID_RESPONSE_ROWS
    ResponseValues,     \* GRID_RESPONSE_VALUES
    StageValues,        \* GRID_STAGE_VALUES
    StageSources,       \* KMA_STAGE_SOURCES
    FetchConcurrency,   \* GRID_FETCH_CONCURRENCY
    Retries,
    ValuePartialMin     \* VALUE_PARTIAL_MIN_SKIPPED

ASSUME KmaAssumption ==
    /\ GroupOrder \in Seq(Units)
    /\ Responses \subseteq [rows : Nat, n : Nat, missing : Nat, invalid : Nat]
    /\ {MaxGroups, MaxRows, ResponseRows, ResponseValues, StageValues, StageSources,
        FetchConcurrency} \subseteq Nat \ {0}
    /\ Retries \in Nat /\ ValuePartialMin \in Nat

VARIABLES
    groups,     \* units not yet requested, in order
    pending,    \* requests under way, in order
    cur,        \* the response being consumed
    tally       \* rows, facts, values accepted, missing and invalid so far

kmaVars == <<groups, pending, cur, tally>>

GridJobs == {"grid", "nowcast", "forecast"}
ExportJobs == {"nowcast", "forecast", "mid_export"}
KmaJobs == GridJobs \cup {"mid", "mid_export"}

NoResponse == [unit |-> "none", part |-> 0, parts |-> <<>>, locs |-> <<>>]
NoTally == [rows |-> 0, facts |-> 0, accepted |-> 0, missing |-> 0, invalid |-> 0]

Source(u, part) == <<u, part>>
Sum(S) == FoldLeft(+, 0, S)
Col(parts, f) == [i \in 1 .. Len(parts) |-> parts[i][f]]

(***************************************************************************)
(* Setup: the checks of the targets, their catalog rows, the groups of     *)
(* targets that share a request, and the attempts of an export job.        *)
(***************************************************************************)
StartKma ==
    /\ job \in KmaJobs
    /\ Start("setup")
    /\ groups' \in Prefixes(GroupOrder)
    /\ pending' = <<>> /\ cur' = NoResponse /\ tally' = NoTally

\* prepare_grids passes over the groups that do not fit one transaction.
PreparedGrids == {u \in ToSet(groups) : Len(LocsOf[u]) <= PublishLocations}

\* _native_scopes: each part of each region, however many locations it has.
PreparedScopes == ToSet(groups)

Setup ==
    /\ job \in KmaJobs /\ at = "setup"
    /\ groups # <<>> /\ Len(groups) <= MaxGroups
    /\ IF job \in ExportJobs
       THEN prepare(IF job = "mid_export" THEN PreparedScopes ELSE PreparedGrids)
       ELSE UNCHANGED <<plans, held>>
    /\ at' = "prepared"
    /\ UNCHANGED <<job, runs, row, sources, values, queue, back, facts, records, due, fetched>>
    /\ UNCHANGED kmaVars

EnterPipeline ==
    /\ job \in KmaJobs /\ at = "prepared" /\ Alive
    /\ at' = IF job = "mid_export" THEN "mid" ELSE "pipe"
    /\ UNCHANGED <<job, runs, row, sources, values, queue, back, facts, records, due, fetched,
                   plans, held>>
    /\ UNCHANGED kmaVars

(***************************************************************************)
(* Requests.                                                               *)
(***************************************************************************)
Min2(a, b) == IF a < b THEN a ELSE b
Max2(a, b) == IF a < b THEN b ELSE a

\* The budget fetch_group hands to a request, read when the request is sent.
Request(u) ==
    LET left == MaxValues - tally.facts
    IN  [unit |-> u, tries |-> 0, parts |-> <<>>,
         rows |-> Min2(ResponseRows, MaxRows - tally.rows),
         left |-> left,
         room |-> Min2(ResponseValues, Max2(1, left \div Len(LocsOf[u])))]

_prefetch_grids ==
    /\ at = "pipe" /\ groups # <<>> /\ Len(pending) < FetchConcurrency
    /\ pending' = Append(pending, Request(Head(groups)))
    /\ groups' = Tail(groups)
    /\ UNCHANGED runVars /\ UNCHANGED <<cur, tally>>

Waiting == at = "pipe" /\ (groups = <<>> \/ Len(pending) = FetchConcurrency)

\* stage_grid accepts the parts, each within what the earlier ones left.
stage_grid(request, parts) ==
    /\ request.rows > 0
    /\ request.left >= Len(LocsOf[request.unit])
    /\ \A i \in 1 .. Len(parts) :
         LET before == SubSeq(parts, 1, i - 1)
             rows == request.rows - Sum(Col(before, "rows"))
             room == request.room - Sum(Col(before, "n"))
         IN  /\ rows > 0 /\ room > 0
             /\ parts[i].rows <= Min2(rows, Max2(1, room))
             /\ parts[i].n <= room
             /\ job = "mid" => parts[i].rows > 0
    /\ \E i \in 1 .. Len(parts) : parts[i].n + parts[i].missing + parts[i].invalid > 0

PartsOf == IF job = "mid" THEN [1 .. 2 -> {r \in Responses : r.missing + r.invalid = 0}]
           ELSE [1 .. 1 -> Responses]

\* Requests are answered in any order; a transient failure is retried.
Answer(i) ==
    /\ Waiting /\ i \in 1 .. Len(pending) /\ pending[i].parts = <<>>
    /\ \/ \E parts \in PartsOf :
            /\ stage_grid(pending[i], parts)
            /\ pending' = [pending EXCEPT ![i].parts = parts]
       \/ /\ pending[i].tries < Retries
          /\ pending' = [pending EXCEPT ![i].tries = @ + 1]
    /\ UNCHANGED runVars /\ UNCHANGED <<groups, cur, tally>>

(***************************************************************************)
(* append_group.                                                           *)
(***************************************************************************)
Consume ==
    /\ Waiting /\ pending # <<>> /\ Head(pending).parts # <<>>
    /\ cur' = [unit |-> Head(pending).unit, part |-> 1, parts |-> Head(pending).parts,
               locs |-> <<>>]
    /\ pending' = Tail(pending)
    /\ IF Cardinality(sources) >= StageSources THEN BeginFlush(Staged, "admit")
       ELSE at' = "admit" /\ UNCHANGED <<queue, back>>
    /\ UNCHANGED <<job, runs, row, sources, values, facts, records, due, fetched, plans, held>>
    /\ UNCHANGED <<groups, tally>>

\* A request did not know what the one before it used: the budget is checked again.
Admit ==
    LET rows == Sum(Col(cur.parts, "rows"))
        n    == Sum(Col(cur.parts, "n"))
        all  == n * Len(LocsOf[cur.unit])
    IN  /\ at = "admit" /\ Alive
        /\ tally.rows + rows <= MaxRows
        /\ tally.facts + all <= MaxValues
        /\ tally' = [rows |-> tally.rows + rows, facts |-> tally.facts + all,
                     accepted |-> tally.accepted + n,
                     missing |-> tally.missing + Sum(Col(cur.parts, "missing")),
                     invalid |-> tally.invalid + Sum(Col(cur.parts, "invalid"))]
        /\ at' = "append"
        /\ UNCHANGED <<job, runs, row, sources, values, queue, back, facts, records, due,
                       fetched, plans, held>>
        /\ UNCHANGED <<groups, pending, cur>>

Part == Source(cur.unit, cur.part)
PartFacts(locs) == FactsOf(Part, locs, Head(cur.parts).n)
SortedLocs(u) == SetToSortSeq(ToSet(LocsOf[u]), <)
NextPart == [cur EXCEPT !.part = @ + 1, !.parts = Tail(@), !.locs = <<>>]

\* nowcast captures a response only when it fits one transaction.
Captured ==
    /\ job \in {"nowcast", "forecast"}
    /\ job = "nowcast" =>
         LET all == Head(cur.parts).n * Len(LocsOf[cur.unit])
         IN  0 < all /\ all <= PublishValues /\ Len(LocsOf[cur.unit]) <= PublishLocations

\* _native_fanout: a response without values is still recorded.
NativeFanout(all) == StagedAs({Part}, all)

\* ingest and ingest_fanout: the response goes out at once, in location order.
CapturePart ==
    /\ at = "append" /\ cur.parts # <<>> /\ cur.locs = <<>> /\ Captured
    /\ LET all == PartFacts(SortedLocs(cur.unit))
       IN  /\ IF all = <<>> THEN Unroute(cur.unit) ELSE Bind(cur.unit)
           /\ due' = due \cup ToSet(all)
           /\ fetched' = fetched \cup {Part}
           /\ BeginFanout(NativeFanout(all), "seal")
    /\ UNCHANGED <<job, runs, row, sources, values, facts, records>>
    /\ UNCHANGED kmaVars

SealPart ==
    /\ at = "seal"
    /\ Seal(cur.unit)
    /\ cur' = NextPart
    /\ at' = IF job = "mid_export" THEN "mid" ELSE "append"
    /\ UNCHANGED <<job, runs, row, sources, values, queue, back, facts, records, due, fetched,
                   held>>
    /\ UNCHANGED <<groups, pending, tally>>

StagePart ==
    /\ at = "append" /\ cur.parts # <<>> /\ cur.locs = <<>> /\ ~Captured
    /\ IF job = "nowcast" THEN Unroute(cur.unit) ELSE UNCHANGED <<plans, held>>
    /\ sources' = sources \cup {Part}
    /\ fetched' = fetched \cup {Part}
    /\ cur' = [cur EXCEPT !.locs = LocsOf[cur.unit]]
    /\ UNCHANGED <<job, runs, row, at, values, queue, back, facts, records, due>>
    /\ UNCHANGED <<groups, pending, tally>>

\* A location that would overflow the batch waits until the batch is published.
FlushFirst == values # <<>> /\ Len(values) + Head(cur.parts).n > StageValues

FlushBatch ==
    /\ at = "append" /\ cur.locs # <<>> /\ FlushFirst
    /\ BeginFlush(Staged, "append")
    /\ UNCHANGED <<job, runs, row, sources, values, facts, records, due, fetched, plans, held>>
    /\ UNCHANGED kmaVars

\* The lineage of a response is staged again after a flush in its middle.
StageLocation ==
    /\ at = "append" /\ cur.locs # <<>> /\ ~FlushFirst
    /\ LET new  == PartFacts(<<Head(cur.locs)>>)
           more == Tail(cur.locs)
           full == Len(values \o new) >= StageValues
       IN  /\ sources' = sources \cup {Part}
           /\ values' = values \o new
           /\ due' = due \cup ToSet(new)
           /\ cur' = IF more = <<>> THEN NextPart ELSE [cur EXCEPT !.locs = more]
           /\ IF full
              THEN queue' = StagedAs(sources', values \o new) /\ back' = "append" /\ at' = "flush"
              ELSE UNCHANGED <<queue, back, at>>
    /\ UNCHANGED <<job, runs, row, facts, records, fetched, plans, held>>
    /\ UNCHANGED <<groups, pending, tally>>

EndGroup ==
    /\ at = "append" /\ cur.parts = <<>> /\ Alive
    /\ cur' = NoResponse
    /\ at' = "pipe"
    /\ UNCHANGED <<job, runs, row, sources, values, queue, back, facts, records, due, fetched,
                   plans, held>>
    /\ UNCHANGED <<groups, pending, tally>>

\* The pipeline is drained: attempts that were never consumed are rejected.
EndPipeline ==
    /\ at = "pipe" /\ groups = <<>> /\ pending = <<>>
    /\ plans' \in Rejections(held)
    /\ held' = {}
    /\ at' = "final"
    /\ UNCHANGED <<job, runs, row, sources, values, queue, back, facts, records, due, fetched>>
    /\ UNCHANGED kmaVars

(***************************************************************************)
(* collect_mid_exports: one request per scope, an empty answer asked once  *)
(* more, each response published before the next request.                  *)
(***************************************************************************)
MidRequest ==
    /\ at = "mid" /\ groups # <<>> /\ Alive
    /\ tally.rows < MaxRows /\ tally.facts < MaxValues
    /\ cur' = [unit |-> Head(groups), part |-> 1, parts |-> <<>>, locs |-> <<>>]
    /\ groups' = Tail(groups)
    /\ at' = "verify"
    /\ UNCHANGED <<job, runs, row, sources, values, queue, back, facts, records, due, fetched,
                   plans, held>>
    /\ UNCHANGED <<pending, tally>>

MidAnswer ==
    /\ at \in {"verify", "reverify"} /\ Alive
    /\ \E r \in Responses :
         LET all == FactsOf(Part, SortedLocs(cur.unit), r.n)
         IN  /\ r.missing + r.invalid = 0 /\ r.rows <= 1
             /\ tally.facts + Len(all) <= MaxValues
             /\ IF r.rows = 0
                THEN /\ at = "verify"
                     /\ at' = "reverify"
                     /\ UNCHANGED <<cur, tally, due, fetched, queue, back, plans, held>>
                ELSE /\ cur' = [cur EXCEPT !.parts = <<r>>]
                     /\ tally' = [tally EXCEPT !.rows = @ + 1, !.facts = @ + Len(all),
                                               !.accepted = @ + r.n]
                     /\ due' = due \cup ToSet(all)
                     /\ fetched' = fetched \cup {Part}
                     /\ IF all = <<>> THEN Unroute(cur.unit) ELSE Bind(cur.unit)
                     /\ BeginFanout(NativeFanout(all), "seal")
    /\ UNCHANGED <<job, runs, row, sources, values, facts, records>>
    /\ UNCHANGED <<groups, pending>>

EndMid ==
    /\ at = "mid" /\ groups = <<>> /\ tally.facts > 0
    /\ at' = "final"
    /\ UNCHANGED <<job, runs, row, sources, values, queue, back, facts, records, due, fetched,
                   plans, held>>
    /\ UNCHANGED kmaVars

(***************************************************************************)
(* The end: the rest of the batch, the status, the row.                    *)
(***************************************************************************)
Skipped == tally.missing + tally.invalid

ValueStatus ==
    IF \/ tally.invalid > 0
       \/ /\ tally.missing >= ValuePartialMin
          /\ 10 * tally.missing > tally.accepted + Skipped
    THEN "partial" ELSE "success"

Conclude ==
    /\ job \in KmaJobs /\ at = "final"
    /\ Skipped > 0 => tally.accepted > 0
    /\ CitedBy(values) \subseteq sources
    /\ BeginFanout(chunk_publications(values, PublishLocations, PublishValues), "finish")
    /\ UNCHANGED <<job, runs, row, sources, values, facts, records, due, fetched, plans, held>>
    /\ UNCHANGED kmaVars

FinishKma ==
    /\ job \in KmaJobs /\ at = "finish"
    /\ Complete(ValueStatus, uncited_sources(sources, values))
    /\ sources' = {} /\ values' = <<>>
    /\ UNCHANGED <<job, runs, queue, back, facts, due, fetched, plans, held>>
    /\ UNCHANGED kmaVars

\* An exception of the pipeline cancels the requests under way and rejects the
\* attempts still held; one outside it leaves them.
InPipeline ==
    \/ at \in {"pipe", "admit", "append", "seal"}
    \/ at \in {"flush", "fanout"} /\ back # "finish"

\* Mutation: the attempts the worker still holds are not rejected.
RaiseKmaForgetting ==
    /\ job \in KmaJobs /\ at # "idle"
    /\ Fail
    /\ Drop
    /\ held' = {}
    /\ groups' = <<>> /\ pending' = <<>> /\ cur' = NoResponse
    /\ UNCHANGED <<job, runs, back, facts, records, due, fetched, plans, tally>>

RaiseKma ==
    /\ job \in KmaJobs /\ at # "idle"
    /\ Fail
    /\ Drop
    /\ IF InPipeline /\ job # "mid_export" THEN plans' \in Rejections(held) ELSE UNCHANGED plans
    /\ held' = {}
    /\ groups' = <<>> /\ pending' = <<>> /\ cur' = NoResponse
    /\ UNCHANGED <<job, runs, back, facts, records, due, fetched, tally>>

KmaShared == (PublishChunk \/ EndFlush \/ EndFanout) /\ UNCHANGED kmaVars

KmaWorker ==
    /\ job \in KmaJobs
    /\ \/ KmaShared \/ Setup \/ EnterPipeline \/ _prefetch_grids
       \/ \E i \in 1 .. FetchConcurrency : Answer(i)
       \/ Consume \/ Admit \/ CapturePart \/ SealPart \/ StagePart \/ FlushBatch
       \/ StageLocation \/ EndGroup \/ EndPipeline \/ MidRequest \/ MidAnswer \/ EndMid
       \/ Conclude \/ FinishKma \/ RaiseKma

KmaInit ==
    /\ groups = <<>> /\ pending = <<>> /\ cur = NoResponse /\ tally = NoTally
=============================================================================
