--------------------------- MODULE CollectionProofs ---------------------------
(***************************************************************************)
(* Theorems about the jobs, proved job by job: a behaviour follows one of  *)
(* them (JobIsFixed), so every invariant is about the jobs it names and    *)
(* holds of the others because none of their steps touches its variables.  *)
(*                                                                         *)
(*   LostRunsPublishNothing  the queue of a run that was ended elsewhere   *)
(*   RosterIsConfirmed       stations of a regional export                 *)
(*   SuccessesAreComplete    what a run owes when it ends well             *)
(*   StarvedAreReported      locations that alert runs leave out           *)
(*   TurnsAreFull            the rotation of KMA targets                   *)
(*   NothingHides            the position of the retention sweep           *)
(*   NoticesAreWhole         the pages of a list that changes              *)
(*   CancellationsAreSealed  the threads of a cancelled job                *)
(*   PlansAreSettled         export attempts left in preparation           *)
(***************************************************************************)
EXTENDS Collection, FiniteSetTheorems, WellFoundedInduction, TLAPS

\* The steps that a job of the observation networks takes part in.
StationStep ==
    \/ StartStations
    \/ StationWorker
    \/ (SkipOverlap \/ Reap \/ Crash \/ Recover) /\ UNCHANGED stationVars
    \/ UNCHANGED <<runVars, stationVars>>

\* The steps of a behaviour that follows such a job.
LEMMA StationSteps ==
    ASSUME [Next]_vars, job \in StationJobs
    PROVE  StationStep
  <1>1. job \notin KmaJobs /\ job \notin AlertJobs /\ job \notin EventJobs
        /\ job # "kma_targets" /\ job # "short_retention"
    BY DEF StationJobs, AirKoreaJobs, RegionalJobs, RegionalExports, KmaJobs, GridJobs, AlertJobs,
       EventJobs
  <1>2. CASE UNCHANGED vars
    BY <1>2 DEF vars, StationStep, runVars
  <1>3. CASE Starts
    <2>1. StartStations
      BY <1>1, <1>3 DEF Starts, StartKma, StartAlerts, BeginEvents
    <2> QED BY <2>1 DEF StationStep, StartStations, Start
  <1>4. CASE Worker
    <2>1. CASE StationWorker
      BY <2>1 DEF StationStep
    <2>2. CASE ShortWorker /\ OthersOfRetention
      BY <2>2 DEF OthersOfRetention, StationStep, runVars
    <2>3. KmaWorker => job \in KmaJobs
      BY DEF KmaWorker
    <2>4. AlertWorker => job \in AlertJobs
      BY DEF AlertWorker
    <2>5. EventWorker => job \in EventJobs
      BY DEF EventWorker, StartEvents, ThreadFails, ReadPage, RereadFirst, PublishEvents,
         SealCancelled, RaiseEvents
    <2> QED BY <1>1, <1>4, <2>1, <2>2, <2>3, <2>4, <2>5 DEF Worker
  <1>5. CASE Others
    <2>1. CASE (SkipOverlap \/ Reap \/ Crash \/ Recover) /\ UNCHANGED stationVars
      BY <2>1 DEF StationStep, SkipOverlap, Reap, Crash, Recover
    <2> QED BY <1>1, <1>5, <2>1 DEF Others, OthersOfTheRow, ListChanges, CancelEvents, stationVars
  <1> QED BY <1>2, <1>3, <1>4, <1>5 DEF Next

\* A behaviour follows one job.
LEMMA JobIsFixed == ASSUME [Next]_vars PROVE job' = job
  <1>1. CASE UNCHANGED vars
    BY <1>1 DEF vars, runVars
  <1>2. CASE Starts
    BY <1>2 DEF Starts, StartKma, StartAlerts, StartStations, BeginEvents, Start,
       OthersOfRetention, runVars
  <1>3. CASE Others
    BY <1>3 DEF Others, SkipOverlap, Reap, Crash, Recover, ListChanges, CancelEvents,
       OthersOfTargets, OthersOfRetention, runVars
  <1>4. CASE Worker
    <2>1. KmaWorker => job' = job
      BY DEF KmaWorker, KmaShared, PublishChunk, EndFlush, EndFanout, Setup, EnterPipeline,
         _prefetch_grids, Answer, Consume, Admit, CapturePart, SealPart, StagePart, FlushBatch,
         StageLocation, EndGroup, EndPipeline, MidRequest, MidAnswer, EndMid, Conclude,
         FinishKma, RaiseKma, runVars
    <2>2. AlertWorker => job' = job
      BY DEF AlertWorker, AlertShared, PublishChunk, EndFlush, SetupAlerts, AskOffice,
         FlushNotices, NextNotice, FanNotice, EndNotice, EndOffice, EndOffices, SkipLocked,
         NextRound, EndRounds, FailSkipped, FinishAlerts, RaiseAlerts
    <2>3. StationWorker => job' = job
      BY DEF StationWorker, StationShared, PublishChunk, EndFlush, EndFanout,
         FetchCatalog, FinishCatalog, StartMeasurements, MeasureGroup, OverBudget,
         EndMeasurements, CaptureStation, SealStation, RejectUncovered, PrepareRoster,
         SkipRegional, AskRegional, SkipRecord, Truncate, FlushRecords, StageRecord,
         CaptureRecord, SealRecord, EndRecords, FinishStations, RaiseStations, Escape, runVars
    <2>4. EventWorker => job' = job
      BY DEF EventWorker, StartEvents, ThreadFails, ReadPage, RereadFirst, PublishEvents,
         SealCancelled, RaiseEvents
    <2>5. ShortWorker /\ OthersOfRetention => job' = job
      BY DEF OthersOfRetention, runVars
    <2> QED BY <1>4, <2>1, <2>2, <2>3, <2>4, <2>5 DEF Worker
  <1> QED BY <1>1, <1>2, <1>3, <1>4 DEF Next

-----------------------------------------------------------------------------
(***************************************************************************)
(* Numbers and finite sets.                                                *)
(***************************************************************************)
Smaller == {mn \in Nat \X Nat : mn[1] < mn[2]}

\* The least-number principle.
LEMMA LeastExists ==
    ASSUME NEW U \in SUBSET Nat, U # {}
    PROVE  \E u \in U : \A m \in U : u <= m
  <1>1. IsWellFoundedOn(Smaller, Nat)
    BY NatLessThanWellFounded DEF OpToRel, Smaller
  <1>2. PICK u \in U : \A m \in U : <<m, u>> \notin Smaller
    BY <1>1, WFMin
  <1>3. \A m, k \in Nat : m < k => <<m, k>> \in Smaller
    BY DEF Smaller
  <1>4. \A m \in U : ~(m < u)
    BY <1>2, <1>3
  <1> QED BY <1>4

\* A finite set of numbers is bounded: a smallest set that is not could lose an element.
LEMMA FiniteIsBounded ==
    ASSUME NEW S \in SUBSET Nat, IsFiniteSet(S)
    PROVE  \E b \in Nat : \A x \in S : x <= b
  <1> DEFINE Bounded(T) == \E b \in Nat : \A x \in T : x <= b
             Sizes == {Cardinality(T) : T \in {R \in SUBSET S : ~Bounded(R)}}
  <1> SUFFICES ASSUME ~Bounded(S) PROVE FALSE
    OBVIOUS
  <1>1. Cardinality(S) \in Sizes
    OBVIOUS
  <1>2. Sizes \in SUBSET Nat /\ Sizes # {}
    BY <1>1, FS_Subset, FS_CardinalityType
  <1>3. PICK u \in Sizes : \A m \in Sizes : u <= m
    <2> HIDE DEF Sizes
    <2> QED BY <1>2, LeastExists
  <1>4. PICK T \in SUBSET S : ~Bounded(T) /\ u = Cardinality(T)
    BY <1>3
  <1>5. IsFiniteSet(T)
    BY FS_Subset
  <1>6. PICK x \in T : TRUE
    BY <1>4
  <1>7. Cardinality(T \ {x}) = u - 1 /\ u \in Nat
    BY <1>4, <1>5, FS_RemoveElement, FS_CardinalityType
  <1>8. Bounded(T \ {x})
    <2> SUFFICES ASSUME ~Bounded(T \ {x}) PROVE FALSE
      OBVIOUS
    <2>1. Cardinality(T \ {x}) \in Sizes
      OBVIOUS
    <2> HIDE DEF Sizes, Bounded
    <2> QED BY <2>1, <1>3, <1>7
  <1>9. PICK b \in Nat : \A y \in T \ {x} : y <= b
    BY <1>8
  <1>10. \A y \in T : y <= b + x
    <2> SUFFICES ASSUME NEW y \in T PROVE y <= b + x
      OBVIOUS
    <2>1. x \in Nat /\ y \in Nat
      OBVIOUS
    <2>2. CASE y = x
      BY <2>1, <2>2
    <2>3. CASE y # x
      <3>1. y <= b
        BY <1>9, <2>3
      <3> QED BY <3>1, <2>1
    <2> QED BY <2>2, <2>3
  <1>11. b + x \in Nat
    OBVIOUS
  <1> QED BY <1>4, <1>10, <1>11

\* The greatest element of a finite set of numbers.
LEMMA MaxIsGreatest ==
    ASSUME NEW S \in SUBSET Nat, IsFiniteSet(S), S # {}
    PROVE  Max(S) \in S /\ \A x \in S : x <= Max(S)
  <1>1. PICK b \in Nat : \A x \in S : x <= b
    BY FiniteIsBounded
  <1> DEFINE U == {b - x : x \in S}
  <1>2. U \in SUBSET Nat /\ U # {}
    <2>1. \A x \in S : b - x \in Nat
      BY <1>1
    <2> QED BY <2>1
  <1>3. PICK u \in U : \A m \in U : u <= m
    <2> HIDE DEF U
    <2> QED BY <1>2, LeastExists
  <1>4. PICK x \in S : u = b - x
    BY <1>3
  <1>5. \A y \in S : x >= y
    <2> SUFFICES ASSUME NEW y \in S PROVE x >= y
      OBVIOUS
    <2>1. b - y \in U
      OBVIOUS
    <2>2. b - x <= b - y
      BY <1>3, <1>4, <2>1
    <2>3. x \in Nat /\ y \in Nat
      OBVIOUS
    <2> QED BY <2>2, <2>3
  <1> HIDE DEF U
  <1>6. Max(S) \in S /\ \A y \in S : Max(S) >= y
    BY <1>5 DEF Max
  <1>7. \A y \in S : Max(S) >= y => y <= Max(S)
    BY <1>6
  <1> QED BY <1>6, <1>7

-----------------------------------------------------------------------------
(***************************************************************************)
(* The queue: what of it is stored or still to be stored.                  *)
(***************************************************************************)
FactsLeft(q) == {v \in ToSet(q.vals) : v.loc \in q.left}
SourcesLeft(q) == {v.src : v \in FactsLeft(q)} \cup q.uncited

StoredFacts == facts \cup FactsLeft(queue)
StoredSources == records \cup SourcesLeft(queue)

IsQueue(q) == \E v, l, m, r, u : q = [vals |-> v, left |-> l, most |-> m, room |-> r, uncited |-> u]

\* A new flush stores all its facts, the sources they cite, and the uncited ones.
LEMMA FlushHoldsAll ==
    ASSUME NEW vals, NEW m, NEW r, NEW u,
           NEW q, q = [chunk_publications(vals, m, r) EXCEPT !.uncited = u]
    PROVE  IsQueue(q) /\ FactsLeft(q) = ToSet(vals) /\ SourcesLeft(q) = CitedBy(vals) \cup u
  <1>1. q = [vals |-> vals, left |-> LocationsOf(vals), most |-> m, room |-> r, uncited |-> u]
    BY DEF chunk_publications
  <1>2. FactsLeft(q) = ToSet(vals)
    BY <1>1 DEF FactsLeft, LocationsOf
  <1> QED BY <1>1, <1>2 DEF IsQueue, SourcesLeft, CitedBy

\* The same without sources of its own.
LEMMA ChunksHoldAll ==
    ASSUME NEW vals, NEW m, NEW r, NEW q, q = chunk_publications(vals, m, r)
    PROVE  IsQueue(q) /\ FactsLeft(q) = ToSet(vals) /\ SourcesLeft(q) = CitedBy(vals)
           /\ q.vals = vals /\ q.uncited = {}
  <1>1. q = [vals |-> vals, left |-> LocationsOf(vals), most |-> m, room |-> r, uncited |-> {}]
    BY DEF chunk_publications
  <1>2. FactsLeft(q) = ToSet(vals)
    BY <1>1 DEF FactsLeft, LocationsOf
  <1>3. q.vals = vals /\ q.uncited = {}
    BY <1>1
  <1>4. SourcesLeft(q) = CitedBy(vals)
    BY <1>2, <1>3 DEF SourcesLeft, CitedBy
  <1>5. IsQueue(q)
    BY <1>1 DEF IsQueue
  <1> QED BY <1>2, <1>3, <1>4, <1>5

\* A queue of source records alone holds no fact.
LEMMA EmptyFlush ==
    ASSUME NEW u, NEW q, q = SourcesOnly(u)
    PROVE  IsQueue(q) /\ FactsLeft(q) = {} /\ SourcesLeft(q) = u
  <1>1. ToSet(<<>>) = {} /\ CitedBy(<<>>) = {}
    BY DEF ToSet, CitedBy
  <1>2. q = [chunk_publications(<<>>, 1, 1) EXCEPT !.uncited = u]
    BY DEF SourcesOnly
  <1>3. PICK s, k : s = <<>> /\ k = 1
    OBVIOUS
  <1>4. q = [chunk_publications(s, k, k) EXCEPT !.uncited = u]
    BY <1>2, <1>3
  <1>5. IsQueue(q) /\ FactsLeft(q) = ToSet(s) /\ SourcesLeft(q) = CitedBy(s) \cup u
    BY <1>4, FlushHoldsAll
  <1> QED BY <1>1, <1>3, <1>5

\* The queue of a worker that publishes nothing is empty.
LEMMA NothingIsLeft ==
    ASSUME NEW q, q = NothingQueued
    PROVE  IsQueue(q) /\ FactsLeft(q) = {} /\ SourcesLeft(q) = {}
  <1>1. q = SourcesOnly({})
    BY DEF NothingQueued
  <1>2. IsQueue(q) /\ FactsLeft(q) = {} /\ SourcesLeft(q) = {}
    BY <1>1, EmptyFlush
  <1> QED BY <1>2

\* A generator that has run dry has nothing left to hand out.
LEMMA DrainedIsEmpty ==
    ASSUME Drained
    PROVE  FactsLeft(queue) = {} /\ SourcesLeft(queue) = {}
  BY DEF Drained, FactsLeft, SourcesLeft

\* A transaction moves facts and sources from the queue to the database, and only
\* with the row still running does it store a fact.
LEMMA ChunkMoves ==
    ASSUME IsQueue(queue), PublishChunk
    PROVE  /\ IsQueue(queue') /\ facts \subseteq facts' /\ records \subseteq records'
           /\ StoredFacts \subseteq StoredFacts' /\ StoredSources \subseteq StoredSources'
           /\ row # "running" => facts' = facts
  <1>1. PICK v, l, m, r, u : queue = [vals |-> v, left |-> l, most |-> m, room |-> r, uncited |-> u]
    BY DEF IsQueue
  <1>2. PICK C, Q : C = location_chunk /\ Q = Chunk
    OBVIOUS
  <1>3. Q = {f \in ToSet(v) : f.loc \in C}
    BY <1>1, <1>2 DEF Chunk
  <1>4. CASE /\ queue.left # {} /\ Ingest(Publication(Chunk))
             /\ queue' = [queue EXCEPT !.left = @ \ location_chunk]
    <2>1. queue' = [vals |-> v, left |-> l \ C, most |-> m, room |-> r, uncited |-> u]
      BY <1>1, <1>2, <1>4
    <2>2. facts' = facts \cup Q /\ records' = records \cup {f.src : f \in Q}
      BY <1>2, <1>4 DEF Ingest, Publication
    <2>3. row # "running" => Q = {}
      BY <1>2, <1>4 DEF Ingest, Publication, Alive
    <2>4. FactsLeft(queue) \subseteq FactsLeft(queue') \cup Q
      BY <1>1, <1>3, <2>1 DEF FactsLeft
    <2>5. SourcesLeft(queue) \subseteq SourcesLeft(queue') \cup {f.src : f \in Q}
      BY <1>1, <2>1, <2>4 DEF SourcesLeft
    <2> QED BY <2>1, <2>2, <2>3, <2>4, <2>5 DEF IsQueue, StoredFacts, StoredSources
  <1>5. CASE /\ queue.left = {} /\ queue.uncited # {}
             /\ Ingest([sources |-> queue.uncited, facts |-> {}])
             /\ queue' = [queue EXCEPT !.uncited = {}]
    <2>1. queue' = [vals |-> v, left |-> l, most |-> m, room |-> r, uncited |-> {}]
      BY <1>1, <1>5
    <2>2. facts' = facts /\ records' = records \cup u
      BY <1>1, <1>5 DEF Ingest
    <2>3. FactsLeft(queue') = FactsLeft(queue)
      BY <1>1, <2>1 DEF FactsLeft
    <2>4. SourcesLeft(queue) \subseteq SourcesLeft(queue') \cup u
      BY <1>1, <2>1, <2>3 DEF SourcesLeft
    <2> QED BY <2>1, <2>2, <2>3, <2>4 DEF IsQueue, StoredFacts, StoredSources
  <1> QED BY <1>4, <1>5 DEF PublishChunk

-----------------------------------------------------------------------------
(***************************************************************************)
(* Steps and what they store.                                              *)
(***************************************************************************)
\* A flush begins.
Begins ==
    \E vals, m, r, u : queue' = [chunk_publications(vals, m, r) EXCEPT !.uncited = u]

\* A step that stores no fact.
StoresNothing ==
    /\ facts' = facts
    /\ \/ queue' = queue
       \/ queue' = NothingQueued
       \/ \E u : queue' = SourcesOnly(u)
       \/ \E vals, m, r : queue' = chunk_publications(vals, m, r)
       \/ Begins

\* A step of the run it belongs to.
OfTheRun ==
    /\ IsQueue(queue')
    /\ row # "running" /\ runs' = runs /\ row' # "running" => facts' = facts

\* A step that stores nothing keeps the promise, whatever it queues.
LEMMA NothingIsOfTheRun == ASSUME IsQueue(queue), StoresNothing PROVE OfTheRun
  <1>1. CASE queue' = queue
    BY <1>1 DEF StoresNothing, OfTheRun
  <1>2. CASE queue' = NothingQueued
    BY <1>2, NothingIsLeft DEF StoresNothing, OfTheRun
  <1>3. ASSUME NEW u, queue' = SourcesOnly(u) PROVE OfTheRun
    BY <1>3, EmptyFlush DEF StoresNothing, OfTheRun
  <1>4. ASSUME NEW vals, NEW m, NEW r, queue' = chunk_publications(vals, m, r) PROVE OfTheRun
    BY <1>4, ChunksHoldAll DEF StoresNothing, OfTheRun
  <1>5. ASSUME NEW vals, NEW m, NEW r, NEW u,
               queue' = [chunk_publications(vals, m, r) EXCEPT !.uncited = u]
        PROVE  OfTheRun
    BY <1>5, FlushHoldsAll DEF StoresNothing, OfTheRun
  <1> QED BY <1>1, <1>2, <1>3, <1>4, <1>5 DEF StoresNothing, Begins

\* A start begins another run.
LEMMA StartsOfTheRun == ASSUME NEW next, Start(next), runs \in Nat PROVE OfTheRun
  <1>1. queue' = NothingQueued /\ runs' # runs
    BY DEF Start, NewRow
  <1> QED BY <1>1, NothingIsLeft DEF OfTheRun

\* A flush queues what is staged.
LEMMA StagedBegins == ASSUME NEW srcs, NEW vals, queue' = StagedAs(srcs, vals) PROVE Begins
  BY DEF StagedAs, Begins

\* A response published on its own is queued whole.
LEMMA AtOnceBegins == ASSUME NEW srcs, NEW vals, queue' = AtOnce(srcs, vals) PROVE Begins
  BY DEF AtOnce, Begins

\* The steps of the KMA grid and mid-term jobs.
LEMMA KmaOfTheRun == ASSUME IsQueue(queue), KmaWorker PROVE OfTheRun
  <1>1. PublishChunk => OfTheRun
    BY ChunkMoves DEF OfTheRun
  <1>2. EndFlush \/ EndFanout \/ RaiseKma => StoresNothing
    BY DEF EndFlush, EndFanout, RaiseKma, Drop, StoresNothing
  <1>3. Setup \/ EnterPipeline \/ _prefetch_grids \/ (\E i \in 1 .. FetchConcurrency : Answer(i))
          \/ Admit \/ SealPart \/ StagePart \/ EndGroup \/ EndPipeline \/ MidRequest \/ EndMid
          \/ FinishKma
        => StoresNothing
    BY DEF Setup, EnterPipeline, _prefetch_grids, Answer, Admit, SealPart, StagePart, EndGroup,
       EndPipeline, MidRequest, EndMid, FinishKma, StoresNothing, runVars
  <1>4. Consume \/ FlushBatch => StoresNothing
    BY StagedBegins DEF Consume, FlushBatch, BeginFlush, Staged, StoresNothing
  <1>5. CapturePart \/ MidAnswer => StoresNothing
    BY StagedBegins DEF CapturePart, MidAnswer, BeginFanout, NativeFanout, StoresNothing
  <1>6. StageLocation => StoresNothing
    BY StagedBegins DEF StageLocation, StoresNothing
  <1>7. Conclude => StoresNothing
    BY DEF Conclude, BeginFanout, StoresNothing
  <1> QED BY <1>1, <1>2, <1>3, <1>4, <1>5, <1>6, <1>7, NothingIsOfTheRun DEF KmaWorker, KmaShared

\* A transaction of the alerts stores the facts of the locations it got.
LEMMA SkipMoves ==
    ASSUME IsQueue(queue), SkipLocked
    PROVE  /\ IsQueue(queue')
           /\ row # "running" => facts' = facts
           /\ queue'.vals = queue.vals /\ queue'.uncited = queue.uncited
           /\ records \subseteq records' /\ StoredSources \subseteq StoredSources'
           /\ facts \subseteq facts'
           /\ \A f \in StoredFacts : f \in StoredFacts' \/ f.loc \in locked'
           /\ locked \subseteq locked'
  <1>1. PICK v, l, m, r, u : queue = [vals |-> v, left |-> l, most |-> m, room |-> r, uncited |-> u]
    BY DEF IsQueue
  <1>2. PICK C, Q : C = location_chunk /\ Q = Chunk
    OBVIOUS
  <1>3. Q = {f \in ToSet(v) : f.loc \in C}
    BY <1>1, <1>2 DEF Chunk
  <1>4. PICK busy \in SUBSET C :
          /\ Ingest([Publication(Q) EXCEPT !.facts = {f \in @ : f.loc \notin busy}])
          /\ locked' = locked \cup busy
    BY <1>2 DEF SkipLocked, Busy
  <1>5. queue' = [vals |-> v, left |-> l \ C, most |-> m, room |-> r, uncited |-> u]
    BY <1>1, <1>2 DEF SkipLocked
  <1>6. PICK P : P = {f \in Q : f.loc \notin busy}
    OBVIOUS
  <1>7. [Publication(Q) EXCEPT !.facts = {f \in @ : f.loc \notin busy}]
          = [sources |-> {f.src : f \in Q}, facts |-> P]
    <2>1. PICK S : S = {f.src : f \in Q}
      OBVIOUS
    <2>2. PICK pub : pub = [sources |-> S, facts |-> Q]
      OBVIOUS
    <2>3. Publication(Q) = pub
      BY <2>1, <2>2 DEF Publication
    <2>4. {f \in pub.facts : f.loc \notin busy} = P
      BY <1>6, <2>2
    <2>5. [pub EXCEPT !.facts = P] = [sources |-> S, facts |-> P]
      BY <2>2
    <2> QED BY <2>1, <2>3, <2>4, <2>5
  <1>8. facts' = facts \cup P /\ records' = records \cup {f.src : f \in Q}
        /\ ({f.src : f \in Q} # {} => Alive)
    BY <1>4, <1>7 DEF Ingest
  <1>9. row # "running" => Q = {}
    BY <1>8 DEF Alive
  <1>10. FactsLeft(queue) \subseteq FactsLeft(queue') \cup Q
    BY <1>1, <1>3, <1>5 DEF FactsLeft
  <1>11. SourcesLeft(queue) \subseteq SourcesLeft(queue') \cup {f.src : f \in Q}
    BY <1>1, <1>5, <1>10 DEF SourcesLeft
  <1>12. \A f \in Q : f \in P \/ f.loc \in locked'
    BY <1>4, <1>6
  <1>13. IsQueue(queue') /\ queue'.vals = queue.vals /\ queue'.uncited = queue.uncited
    BY <1>1, <1>5 DEF IsQueue
  <1>14. StoredSources \subseteq StoredSources'
    BY <1>8, <1>11 DEF StoredSources
  <1>15. \A f \in StoredFacts : f \in StoredFacts' \/ f.loc \in locked'
    BY <1>8, <1>10, <1>12 DEF StoredFacts
  <1> QED BY <1>4, <1>6, <1>8, <1>9, <1>13, <1>14, <1>15

\* Locations tried again.
LEMMA RetryIsQueue ==
    ASSUME NEW vals, NEW m, NEW r, NEW l, NEW q,
           q = [chunk_publications(vals, m, r) EXCEPT !.left = l]
    PROVE  IsQueue(q)
  <1>1. q = [vals |-> vals, left |-> l, most |-> m, room |-> r, uncited |-> {}]
    BY DEF chunk_publications
  <1> QED BY <1>1 DEF IsQueue

\* The steps of the alert job.
LEMMA AlertsOfTheRun == ASSUME IsQueue(queue), AlertWorker PROVE OfTheRun
  <1>1. PublishChunk => OfTheRun
    BY ChunkMoves DEF OfTheRun
  <1>2. SkipLocked => OfTheRun
    BY SkipMoves DEF OfTheRun
  <1>3. EndFlush \/ RaiseAlerts \/ SetupAlerts \/ AskOffice \/ NextNotice \/ EndNotice \/ EndOffice
          \/ FailSkipped \/ FinishAlerts \/ EndRounds
        => StoresNothing
    BY DEF EndFlush, RaiseAlerts, Drop, SetupAlerts, AskOffice, NextNotice, EndNotice, EndOffice,
       FailSkipped, FinishAlerts, EndRounds, StoresNothing
  <1>4. FlushNotices \/ EndOffices \/ FanNotice => StoresNothing
    BY DEF FlushNotices, EndOffices, FanNotice, BeginAlertFlush, Rounds, StoresNothing
  <1>5. NextRound => OfTheRun
    <2> SUFFICES ASSUME NextRound PROVE OfTheRun
      OBVIOUS
    <2>1. PICK r : r = Max({1, Len(values)})
      OBVIOUS
    <2>2. queue' = [chunk_publications(values, AlertLocations, r) EXCEPT !.left = locked]
          /\ facts' = facts
      BY <2>1 DEF NextRound, Rounds
    <2>3. IsQueue(queue')
      BY <2>2, RetryIsQueue
    <2> QED BY <2>2, <2>3 DEF OfTheRun
  <1> QED BY <1>1, <1>2, <1>3, <1>4, <1>5, NothingIsOfTheRun DEF AlertWorker, AlertShared

\* The steps of the observation networks' jobs.
LEMMA StationsOfTheRun == ASSUME IsQueue(queue), StationWorker PROVE OfTheRun
  <1>1. PublishChunk => OfTheRun
    BY ChunkMoves DEF OfTheRun
  <1>2. EndFlush \/ EndFanout \/ RaiseStations \/ Escape \/ OverBudget \/ SkipRegional
        => StoresNothing
    BY DEF EndFlush, EndFanout, RaiseStations, Escape, OverBudget, SkipRegional, Drop, StoresNothing
  <1>3. FetchCatalog \/ FinishCatalog \/ StartMeasurements \/ MeasureGroup \/ SealStation
          \/ RejectUncovered \/ PrepareRoster \/ AskRegional \/ SkipRecord \/ Truncate
          \/ StageRecord \/ SealRecord \/ FinishStations
        => StoresNothing
    BY DEF FetchCatalog, FinishCatalog, StartMeasurements, MeasureGroup, SealStation,
       RejectUncovered, PrepareRoster, AskRegional, SkipRecord, Truncate, StageRecord, SealRecord,
       FinishStations, StoresNothing, runVars
  <1>4. EndMeasurements => StoresNothing
    BY DEF EndMeasurements, BeginFanout, StoresNothing
  <1>5. CaptureStation \/ CaptureRecord => StoresNothing
    BY AtOnceBegins DEF CaptureStation, CaptureRecord, BeginFanout, StoresNothing
  <1>6. FlushRecords \/ EndRecords => StoresNothing
    BY AtOnceBegins DEF FlushRecords, EndRecords, BeginFlush, StoresNothing
  <1> QED BY <1>1, <1>2, <1>3, <1>4, <1>5, <1>6, NothingIsOfTheRun DEF StationWorker, StationShared

\* The steps of the alert-event job.
LEMMA EventsOfTheRun == ASSUME IsQueue(queue), EventWorker PROVE OfTheRun
  <1>1. ThreadFails \/ ReadPage \/ RereadFirst \/ SealCancelled \/ RaiseEvents => StoresNothing
    BY DEF ThreadFails, ReadPage, RereadFirst, SealCancelled, RaiseEvents, Drop, StoresNothing
  <1>2. PublishEvents => OfTheRun
    BY DEF PublishEvents, Alive, OfTheRun
  <1>3. StartEvents => OfTheRun
    BY NothingIsLeft DEF StartEvents, NewRow, OfTheRun
  <1> QED BY <1>1, <1>2, <1>3, NothingIsOfTheRun DEF EventWorker

\* The worker's steps are no ticks of the schedule.
LEMMA RunsAreTicks == ASSUME Worker PROVE runs' = runs
  <1>1. KmaWorker => runs' = runs
      BY DEF KmaWorker, KmaShared, PublishChunk, EndFlush, EndFanout, Setup, EnterPipeline,
         _prefetch_grids, Answer, Consume, Admit, CapturePart, SealPart, StagePart, FlushBatch,
         StageLocation, EndGroup, EndPipeline, MidRequest, MidAnswer, EndMid, Conclude,
         FinishKma, RaiseKma, runVars
  <1>2. AlertWorker => runs' = runs
      BY DEF AlertWorker, AlertShared, PublishChunk, EndFlush, SetupAlerts, AskOffice,
         FlushNotices, NextNotice, FanNotice, EndNotice, EndOffice, EndOffices, SkipLocked,
         NextRound, EndRounds, FailSkipped, FinishAlerts, RaiseAlerts
  <1>3. StationWorker => runs' = runs
      BY DEF StationWorker, StationShared, PublishChunk, EndFlush, EndFanout,
         FetchCatalog, FinishCatalog, StartMeasurements, MeasureGroup, OverBudget,
         EndMeasurements, CaptureStation, SealStation, RejectUncovered, PrepareRoster,
         SkipRegional, AskRegional, SkipRecord, Truncate, FlushRecords, StageRecord,
         CaptureRecord, SealRecord, EndRecords, FinishStations, RaiseStations, Escape, runVars
  <1>4. EventWorker => runs' = runs
      BY DEF EventWorker, StartEvents, ThreadFails, ReadPage, RereadFirst, PublishEvents,
         SealCancelled, RaiseEvents
  <1>5. ShortWorker /\ OthersOfRetention => runs' = runs
      BY DEF OthersOfRetention, runVars
  <1> QED BY <1>1, <1>2, <1>3, <1>4, <1>5 DEF Worker

\* Every step keeps the queue in shape, and a run whose row was ended elsewhere stores
\* nothing more.
LEMMA StepsAreOfTheRun ==
    ASSUME IsQueue(queue), runs \in Nat, [Next]_vars
    PROVE  OfTheRun /\ runs' \in Nat
  <1>1. CASE UNCHANGED vars
    BY <1>1, NothingIsOfTheRun DEF vars, runVars, StoresNothing
  <1>2. CASE Starts
    <2>1. CASE StartPurge /\ OthersOfRetention
      BY <2>1, NothingIsOfTheRun DEF OthersOfRetention, runVars, StoresNothing
    <2>2. CASE StartKma \/ StartAlerts \/ StartStations
      <3>1. \E next : Start(next)
        BY <2>2 DEF StartKma, StartAlerts, StartStations
      <3> QED BY <3>1, StartsOfTheRun DEF Start
    <2>3. CASE BeginEvents
      <3>1. StoresNothing /\ runs' \in Nat
        BY <2>3 DEF BeginEvents, StoresNothing
      <3> QED BY <3>1, NothingIsOfTheRun
    <2> QED BY <1>2, <2>1, <2>2, <2>3 DEF Starts
  <1>3. CASE Worker
    <2>1. OfTheRun
      <3>1. CASE ShortWorker /\ OthersOfRetention
        BY <3>1, NothingIsOfTheRun DEF OthersOfRetention, runVars, StoresNothing
      <3> QED BY <1>3, <3>1, KmaOfTheRun, AlertsOfTheRun, StationsOfTheRun, EventsOfTheRun DEF Worker
    <2>2. runs' = runs
      BY <1>3, RunsAreTicks
    <2> QED BY <2>1, <2>2
  <1>4. CASE Others
    <2>1. CASE SkipOverlap \/ Reap \/ Crash \/ Recover
      BY <2>1, NothingIsOfTheRun DEF SkipOverlap, Reap, Crash, Recover, Drop, StoresNothing
    <2>2. CASE ListChanges \/ CancelEvents
      BY <2>2, NothingIsOfTheRun DEF ListChanges, CancelEvents, runVars, StoresNothing
    <2>3. CASE OthersOfTargets \/ OthersOfRetention
      BY <2>3, NothingIsOfTheRun DEF OthersOfTargets, OthersOfRetention, runVars, StoresNothing
    <2> QED BY <1>4, <2>1, <2>2, <2>3 DEF Others, SkipOverlap, Reap, Crash, Recover, ListChanges,
                                            CancelEvents, OthersOfTargets, OthersOfRetention, runVars
  <1> QED BY <1>1, <1>2, <1>3, <1>4 DEF Next, vars, runVars

\* A run whose row was ended by another process stores no further fact
\* (chunk_publications, ingest_batch).
THEOREM LostRunsPublishNothing == Spec => LostRunPublishesNothing
  <1>1. Init => IsQueue(queue) /\ runs \in Nat
    BY NothingIsLeft DEF Init, RunInit
  <1>2. IsQueue(queue) /\ runs \in Nat /\ [Next]_vars => (IsQueue(queue) /\ runs \in Nat)'
    BY StepsAreOfTheRun DEF OfTheRun
  <1>3. IsQueue(queue) /\ runs \in Nat /\ [Next]_vars
          => [row # "running" /\ runs' = runs /\ row' # "running" => facts' = facts]_vars
    BY StepsAreOfTheRun DEF OfTheRun
  <1> QED BY <1>1, <1>2, <1>3, PTL DEF Spec, LostRunPublishesNothing

-----------------------------------------------------------------------------
(***************************************************************************)
(* Export attempts.                                                        *)
(***************************************************************************)
Ingested == {u \in Units : plans[u] = "ingested"}
PlansTyped == plans \in [Units -> PlanStates]

\* A rejection stores nothing.
LEMMA RejectionsIngestNothing ==
    ASSUME PlansTyped, NEW S, plans' \in Rejections(S)
    PROVE  PlansTyped' /\ Ingested' \subseteq Ingested
  BY DEF PlansTyped, PlanStates, Rejections, Ingested

\* Attempts are prepared for a run that has none.
LEMMA PreparedIsNotIngested ==
    ASSUME NEW S, prepare(S)
    PROVE  PlansTyped' /\ Ingested' = {}
  BY DEF prepare, PlansTyped, PlanStates, Ingested

\* Handing over a response stores nothing by itself.
LEMMA BindIngestsNothing ==
    ASSUME PlansTyped, NEW u, Bind(u)
    PROVE  PlansTyped' /\ Ingested' \subseteq Ingested
  BY RejectionsIngestNothing DEF Bind, PlansTyped, Ingested

\* Sealing concerns one attempt.
LEMMA SealIngestsOne ==
    ASSUME PlansTyped, NEW u \in Units, Seal(u)
    PROVE  PlansTyped' /\ Ingested' \subseteq Ingested \cup {u}
  <1>1. CASE plans' \in Rejections({u})
    BY <1>1, RejectionsIngestNothing
  <1>2. CASE plans' = [plans EXCEPT ![u] = "ingested"]
    BY <1>2 DEF PlansTyped, PlanStates, Ingested
  <1>3. CASE UNCHANGED plans
    BY <1>3 DEF PlansTyped, Ingested
  <1> QED BY <1>1, <1>2, <1>3 DEF Seal

-----------------------------------------------------------------------------
(***************************************************************************)
(* The roster of an export job of a regional source.                       *)
(***************************************************************************)
\* What a captured record stores first.
CapturedFact == Fact(<<Rec.station, Rec.time>>, LocOf(Rec.station), 1)
NewestOf(s, t) == job = "beach_export" \/ t = newest[s]
IsCaptured == todo # <<>> /\ complete /\ NewestOf(Rec.station, Rec.time)

Within == complete => active \subseteq roster.known
Proved(s) ==
    /\ complete /\ active \subseteq roster.known
    /\ \E t \in 1 .. MaxRecords : Fact(<<s, t>>, LocOf(s), 1) \in facts /\ NewestOf(s, t)

RosterInv ==
    /\ PlansTyped
    /\ todo \in Seq(Record)
    /\ at \in {"idle", "roster", "ask", "record", "flush", "fanout", "sealed", "finish"}
    /\ at \in {"roster", "ask"} => Ingested = {}
    /\ at \in {"record", "flush", "fanout", "sealed", "finish"} => Within
    /\ at = "flush" => back = "record"
    /\ at = "fanout" => back = "sealed" /\ IsCaptured /\ CapturedFact \in StoredFacts
    /\ at = "sealed" => IsCaptured /\ CapturedFact \in facts
    /\ \A s \in RegionalStations : s \in Ingested => Proved(s)

\* No plan and no roster at the beginning.
LEMMA RosterInit == Init => RosterInv
  BY DEF Init, RunInit, StationInit, RosterInv, PlansTyped, PlanStates, Ingested

\* The first fact of a captured record is the one the property speaks of.
LEMMA CapturedIsFirst ==
    ASSUME RosterInv, todo # <<>>, Usable
    PROVE  CapturedFact \in ToSet(RecFacts)
  <1> DEFINE n == Rec.n
             locs == LocsOf[Rec.station]
  <1>1. Rec \in Record
    BY DEF RosterInv, Rec
  <1>2. Rec.station \in Stations /\ Rec.station \in Units /\ n \in Nat /\ n > 0
    BY <1>1, StationAssumption DEF Record, Usable
  <1>3. Len(locs) = 1
    BY <1>2, StationAssumption
  <1>4. 1 \in 1 .. n * Len(locs) /\ ((1 - 1) \div n) + 1 = 1 /\ ((1 - 1) % n) + 1 = 1
    <2> HIDE DEF n, locs
    <2>1. n * Len(locs) = n
      BY <1>2, <1>3
    <2>2. (1 - 1) \div n = 0 /\ (1 - 1) % n = 0
      BY <1>2
    <2> QED BY <2>1, <2>2, <1>2
  <1>5. RecFacts[1] = CapturedFact /\ 1 \in DOMAIN RecFacts
    BY <1>4 DEF RecFacts, FactsOf, CapturedFact, LocOf
  <1> QED BY <1>5 DEF ToSet

\* Steps that touch no export attempt, no fact and nothing of the roster.
LEMMA RosterKept ==
    ASSUME RosterInv, UNCHANGED <<job, plans, todo, complete, active, roster, newest>>,
           facts \subseteq facts'
    PROVE  /\ PlansTyped' /\ todo' \in Seq(Record) /\ Ingested' = Ingested
           /\ Within => Within'
           /\ \A s \in RegionalStations : s \in Ingested' => Proved(s)'
  BY DEF RosterInv, PlansTyped, Ingested, Within, Proved, NewestOf, LocOf

\* The worker is gone, or its row or its clock is touched by others.
LEMMA RosterOthers ==
    ASSUME RosterInv, UNCHANGED <<job, plans, todo, complete, active, roster, newest, facts>>,
           at' = "idle" \/ UNCHANGED <<at, queue, back>>
    PROVE  RosterInv'
  BY RosterKept DEF RosterInv, IsCaptured, NewestOf, CapturedFact, Rec, LocOf, Within, StoredFacts

\* A start forgets the roster and the plans.
LEMMA RosterStart ==
    ASSUME StartStations, job \in RegionalExports
    PROVE  RosterInv'
  <1>1. at' = "roster" /\ todo' = <<>> /\ plans' = [u \in Units |-> "none"]
    BY DEF StartStations, Start, NewRow, ForgetStations, AirKoreaJobs, RegionalExports
  <1>2. PlansTyped' /\ Ingested' = {}
    BY <1>1 DEF PlansTyped, PlanStates, Ingested
  <1> QED BY <1>1, <1>2 DEF RosterInv

\* The transactions of the queue confirm no station.
LEMMA RosterShared ==
    ASSUME RosterInv, IsQueue(queue), StationShared
    PROVE  RosterInv'
  <1>1. facts \subseteq facts' /\ UNCHANGED <<job, plans, todo, complete, active, roster, newest>>
    BY DEF StationShared, PublishChunk, Ingest, EndFlush, EndFanout, stationVars
  <1>2. UNCHANGED <<CapturedFact, IsCaptured>>
    BY <1>1 DEF CapturedFact, IsCaptured, NewestOf, Rec, LocOf
  <1>3. CASE PublishChunk
    <2>1. UNCHANGED <<at, back>> /\ at \in {"flush", "fanout"}
      BY <1>3 DEF PublishChunk
    <2>2. StoredFacts \subseteq StoredFacts'
      BY <1>3, ChunkMoves
    <2> QED BY <1>1, <1>2, <2>1, <2>2, RosterKept DEF RosterInv
  <1>4. CASE EndFlush
    BY <1>1, <1>2, <1>4, RosterKept DEF RosterInv, EndFlush
  <1>5. CASE EndFanout
    <2>1. FactsLeft(queue) = {} /\ facts' = facts
      BY <1>5, DrainedIsEmpty DEF EndFanout
    <2>2. CapturedFact \in facts /\ IsCaptured /\ at' = "sealed"
      BY <1>5, <2>1 DEF RosterInv, EndFanout, StoredFacts
    <2> QED BY <1>1, <1>2, <1>5, <2>1, <2>2, RosterKept DEF RosterInv, EndFanout
  <1> QED BY <1>3, <1>4, <1>5 DEF StationShared

\* The roster is prepared with a plan for it, or without one.
LEMMA RosterPrepared ==
    ASSUME RosterInv, PrepareRoster, job \in RegionalExports
    PROVE  RosterInv'
  <1>1. Exports
    BY DEF Exports, RegionalExports
  <1>2. PlansTyped' /\ Ingested' = {}
    BY <1>1, PreparedIsNotIngested DEF PrepareRoster
  <1> QED BY <1>2 DEF RosterInv, PrepareRoster

\* The provider answers with a sequence of records.
LEMMA RecordsAsked == ASSUME AskRegional PROVE todo' \in Seq(Record)
  <1>1. PICK recs \in BoundedSeq(Record, MaxRecords) : todo' = recs
    BY DEF AskRegional
  <1>2. PICK m \in 0 .. MaxRecords : recs \in [1 .. m -> Record]
    BY DEF BoundedSeq, SeqOf
  <1>3. m \in Nat
    BY StationAssumption
  <1> QED BY <1>1, <1>2, <1>3

\* The response is read record by record.
LEMMA RosterAsked ==
    ASSUME RosterInv, AskRegional, job \in RegionalExports
    PROVE  RosterInv'
  <1>1. Exports /\ at = "ask" /\ at' = "record" /\ Ingested = {} /\ PlansTyped
    BY DEF Exports, RegionalExports, AskRegional, RosterInv
  <1>2. PICK recs \in BoundedSeq(Record, MaxRecords), confirmed \in Confirmed :
          LET sure == complete /\ confirmed /\ ~Unknown(recs)
          IN  /\ todo' = recs
              /\ active' = {r.station : r \in ToSet(recs)}
              /\ IF Exports /\ ~sure THEN Invalidate ELSE UNCHANGED <<job, complete, plans, held>>
    BY DEF AskRegional
  <1>3. todo' \in Seq(Record)
    BY RecordsAsked
  <1>4. PlansTyped' /\ Ingested' = {}
    <2>1. CASE Invalidate
      BY <1>1, <2>1, RejectionsIngestNothing DEF Invalidate
    <2>2. CASE UNCHANGED plans
      BY <1>1, <2>2 DEF PlansTyped, Ingested
    <2> QED BY <1>2, <2>1, <2>2
  <1>5. Within'
    <2>1. CASE Invalidate
      BY <2>1 DEF Invalidate, Within
    <2>2. CASE ~Invalidate
      BY <1>1, <1>2, <2>2 DEF Unknown, Within, AskRegional
    <2> QED BY <2>1, <2>2
  <1> QED BY <1>1, <1>3, <1>4, <1>5 DEF RosterInv

\* A record passed over, staged, or cut off by the budget.
LEMMA RosterPassed ==
    ASSUME RosterInv, SkipRecord \/ Truncate \/ StageRecord
    PROVE  RosterInv'
  <1>1. /\ at = "record" /\ at' = "record" /\ todo # <<>> /\ todo' \in {Tail(todo), <<>>}
        /\ UNCHANGED <<job, plans, complete, active, roster, newest, facts>>
    BY DEF SkipRecord, Truncate, StageRecord, runVars
  <1>2. todo' \in Seq(Record)
    <2>1. todo \in Seq(Record) /\ <<>> \in Seq(Record)
      BY DEF RosterInv
    <2>2. Tail(todo) \in Seq(Record)
      BY <1>1, <2>1
    <2> QED BY <1>1, <2>1, <2>2
  <1>3. PlansTyped' /\ Ingested' = Ingested /\ Within'
        /\ \A s \in RegionalStations : s \in Ingested' => Proved(s)'
    BY <1>1 DEF RosterInv, PlansTyped, Ingested, Within, Proved, NewestOf, LocOf
  <1> QED BY <1>1, <1>2, <1>3 DEF RosterInv

\* A record's facts are queued before its unit is sealed.
LEMMA RosterCaptured ==
    ASSUME RosterInv, CaptureRecord
    PROVE  RosterInv'
  <1>1. /\ at = "record" /\ at' = "fanout" /\ back' = "sealed"
        /\ queue' = AtOnce(CitedBy(RecFacts), RecFacts)
        /\ todo # <<>> /\ Usable /\ Capture
        /\ UNCHANGED <<job, todo, complete, active, roster, newest, facts>>
    BY DEF CaptureRecord, BeginFanout, stationVars
  <1>2. PlansTyped' /\ Ingested' \subseteq Ingested
    BY BindIngestsNothing DEF CaptureRecord, RosterInv
  <1>3. CapturedFact \in ToSet(RecFacts)
    BY <1>1, CapturedIsFirst
  <1>4. FactsLeft(queue') = ToSet(RecFacts)
    BY <1>1, FlushHoldsAll DEF AtOnce
  <1>5. IsCaptured' /\ CapturedFact' = CapturedFact
    BY <1>1 DEF Capture, IsCaptured, NewestOf, CapturedFact, Rec, LocOf
  <1>6. Within' /\ \A s \in RegionalStations : s \in Ingested' => Proved(s)'
    BY <1>1, <1>2 DEF RosterInv, Within, Proved, NewestOf, LocOf
  <1>7. CapturedFact' \in StoredFacts'
    BY <1>3, <1>4, <1>5 DEF StoredFacts
  <1> QED BY <1>1, <1>2, <1>5, <1>6, <1>7 DEF RosterInv

\* A record is sealed once its facts are stored.
LEMMA RosterSealed ==
    ASSUME RosterInv, SealRecord
    PROVE  RosterInv'
  <1>1. /\ at = "sealed" /\ at' = "record" /\ todo # <<>> /\ todo' = Tail(todo)
        /\ UNCHANGED <<job, complete, active, roster, newest, facts>>
    BY DEF SealRecord, RosterInv, IsCaptured
  <1>2. Rec \in Record /\ Rec.station \in RegionalStations /\ Rec.station \in Units
    <2>1. Rec \in Record
      BY <1>1 DEF RosterInv, Rec
    <2> QED BY <2>1, StationAssumption DEF Record
  <1>3. PlansTyped' /\ Ingested' \subseteq Ingested \cup {Rec.station}
    BY <1>2, SealIngestsOne DEF SealRecord, RosterInv
  <1>4. Within /\ IsCaptured /\ CapturedFact \in facts
    BY <1>1 DEF RosterInv
  <1>5. Proved(Rec.station)
    BY <1>2, <1>4 DEF Proved, IsCaptured, CapturedFact, Within, Record
  <1>6. \A s \in RegionalStations : s \in Ingested' => Proved(s)'
    BY <1>1, <1>3, <1>5 DEF RosterInv, Proved, NewestOf, LocOf
  <1>7. todo' \in Seq(Record) /\ Within'
    BY <1>1, <1>4 DEF RosterInv, Within
  <1> QED BY <1>1, <1>3, <1>6, <1>7 DEF RosterInv

\* The batch, or the last of it, goes to the queue.
LEMMA RosterFlushed ==
    ASSUME RosterInv, FlushRecords \/ EndRecords
    PROVE  RosterInv'
  <1>1. /\ at = "record"
        /\ UNCHANGED <<job, todo, complete, active, roster, newest, facts>>
    BY DEF FlushRecords, EndRecords, stationVars
  <1>2. PlansTyped' /\ Ingested' \subseteq Ingested
    BY RejectionsIngestNothing DEF FlushRecords, EndRecords, RosterInv, PlansTyped, Ingested
  <1>3. at' = "finish" \/ (at' = "flush" /\ back' = "record")
    <2>1. CASE FlushRecords
      BY <2>1 DEF FlushRecords, BeginFlush
    <2>2. CASE EndRecords
      BY <2>2 DEF EndRecords, BeginFlush
    <2> QED BY <2>1, <2>2
  <1>4. Within' /\ todo' \in Seq(Record)
        /\ \A s \in RegionalStations : s \in Ingested' => Proved(s)'
    BY <1>1, <1>2 DEF RosterInv, Within, Proved, NewestOf, LocOf
  <1> QED BY <1>2, <1>3, <1>4 DEF RosterInv

\* Every step of the regional export's worker.
LEMMA RosterWorker ==
    ASSUME RosterInv, IsQueue(queue), StationWorker, job \in RegionalExports
    PROVE  RosterInv'
  <1>1. job \notin AirKoreaJobs /\ at \notin {"catalog", "catalog_end", "measure", "request", "capture"}
    BY DEF AirKoreaJobs, RegionalExports, RosterInv
  <1>2. ~(FetchCatalog \/ FinishCatalog \/ StartMeasurements \/ MeasureGroup \/ OverBudget
            \/ EndMeasurements \/ CaptureStation \/ SealStation \/ RejectUncovered)
    BY <1>1 DEF FetchCatalog, FinishCatalog, StartMeasurements, MeasureGroup, OverBudget,
         EndMeasurements, CaptureStation, SealStation, RejectUncovered
  <1>3. CASE SkipRegional \/ FinishStations \/ RaiseStations \/ Escape
    <2>1. at' = "idle" /\ UNCHANGED <<job, plans, todo, complete, active, roster, newest, facts>>
      BY <1>3 DEF SkipRegional, FinishStations, RaiseStations, Escape, Fail, Complete, stationVars
    <2> QED BY <2>1, RosterOthers
  <1> QED BY <1>2, <1>3, RosterShared, RosterPrepared, RosterAsked, RosterPassed, RosterCaptured,
           RosterSealed, RosterFlushed DEF StationWorker

\* The induction step.
LEMMA RosterStep ==
    ASSUME job \in RegionalExports => RosterInv, IsQueue(queue), [Next]_vars
    PROVE  (job \in RegionalExports => RosterInv)'
  <1> SUFFICES ASSUME job' \in RegionalExports PROVE RosterInv'
    OBVIOUS
  <1>1. job' = job
    BY JobIsFixed
  <1>2. StationStep
    BY <1>1, StationSteps DEF StationJobs, RegionalJobs
  <1>3. CASE (SkipOverlap \/ Reap \/ Crash \/ Recover) /\ UNCHANGED stationVars
    <2>1. UNCHANGED <<job, plans, todo, complete, active, roster, newest, facts>>
          /\ (at' = "idle" \/ UNCHANGED <<at, queue, back>>)
      BY <1>3 DEF SkipOverlap, Reap, Crash, Recover, stationVars
    <2> QED BY <1>1, <2>1, RosterOthers
  <1>4. CASE UNCHANGED <<runVars, stationVars>>
    BY <1>1, <1>4, RosterOthers DEF runVars, stationVars
  <1> QED BY <1>1, <1>2, <1>3, <1>4, RosterStart, RosterWorker DEF StationStep

\* An export capture of a regional source stands for a whole, known response and for
\* a record of the station, its newest where records carry a time, whatever else it held
\* and however the run ends (publish_regional_records, SdkCollectionContext).
THEOREM RosterIsConfirmed == Spec => []RosterConfirmed
  <1> DEFINE Good == IsQueue(queue) /\ runs \in Nat /\ (job \in RegionalExports => RosterInv)
  <1>1. Init => Good
    BY RosterInit, NothingIsLeft DEF Init, RunInit
  <1>2. Good /\ [Next]_vars => Good'
    BY RosterStep, StepsAreOfTheRun DEF OfTheRun
  <1>3. Good => RosterConfirmed
    BY StationAssumption DEF RosterInv, RosterConfirmed, Ingested, Proved, NewestOf
  <1> QED BY <1>1, <1>2, <1>3, PTL DEF Spec

-----------------------------------------------------------------------------
(***************************************************************************)
(* Sequences as collections.                                               *)
(***************************************************************************)
IsSeq(s) == \E S : s \in Seq(S)

\* What two sequences hold together.
LEMMA JoinedSeq ==
    ASSUME NEW s, IsSeq(s), NEW t, IsSeq(t)
    PROVE  IsSeq(s \o t) /\ ToSet(s \o t) = ToSet(s) \cup ToSet(t)
  <1>1. PICK S : s \in Seq(S)
    BY DEF IsSeq
  <1>2. PICK T : t \in Seq(T)
    BY DEF IsSeq
  <1>3. PICK U : U = S \cup T
    OBVIOUS
  <1>4. s \in Seq(U) /\ t \in Seq(U)
    BY <1>1, <1>2, <1>3
  <1>5. s \o t \in Seq(U)
    BY <1>4
  <1>6. PICK m \in Nat, n \in Nat : m = Len(s) /\ n = Len(t)
    BY <1>4
  <1>7. DOMAIN (s \o t) = 1 .. m + n /\ DOMAIN s = 1 .. m /\ DOMAIN t = 1 .. n
    BY <1>4, <1>6
  <1>8. \A i \in 1 .. m + n : (s \o t)[i] = IF i <= m THEN s[i] ELSE t[i - m]
    BY <1>4, <1>6
  <1>9. ASSUME NEW x \in ToSet(s \o t) PROVE x \in ToSet(s) \cup ToSet(t)
    <2>1. PICK i \in 1 .. m + n : x = (s \o t)[i]
      BY <1>7, <1>9 DEF ToSet
    <2>2. CASE i <= m
      BY <1>7, <1>8, <2>1, <2>2 DEF ToSet
    <2>3. CASE ~(i <= m)
      <3>1. i - m \in 1 .. n
        BY <2>3
      <3>2. x = t[i - m]
        BY <1>8, <2>1, <2>3
      <3> QED BY <1>7, <3>1, <3>2 DEF ToSet
    <2> QED BY <2>2, <2>3
  <1>10. ASSUME NEW x \in ToSet(s) PROVE x \in ToSet(s \o t)
    <2>1. PICK i \in 1 .. m : x = s[i]
      BY <1>7 DEF ToSet
    <2>2. i \in 1 .. m + n /\ i <= m
      OBVIOUS
    <2>3. (s \o t)[i] = x
      BY <1>8, <2>1, <2>2
    <2> QED BY <1>7, <2>2, <2>3 DEF ToSet
  <1>11. ASSUME NEW x \in ToSet(t) PROVE x \in ToSet(s \o t)
    <2>1. PICK i \in 1 .. n : x = t[i]
      BY <1>7 DEF ToSet
    <2>2. i + m \in 1 .. m + n /\ ~(i + m <= m) /\ (i + m) - m = i
      OBVIOUS
    <2>3. (s \o t)[i + m] = x
      BY <1>8, <2>1, <2>2
    <2> QED BY <1>7, <2>2, <2>3 DEF ToSet
  <1> QED BY <1>5, <1>9, <1>10, <1>11 DEF IsSeq

\* One more element.
LEMMA AppendedSeq ==
    ASSUME NEW s, IsSeq(s), NEW e
    PROVE  IsSeq(Append(s, e)) /\ ToSet(Append(s, e)) = ToSet(s) \cup {e}
  <1>1. PICK S : s \in Seq(S)
    BY DEF IsSeq
  <1>2. PICK U : U = S \cup {e}
    OBVIOUS
  <1>3. s \in Seq(U) /\ e \in U
    BY <1>1, <1>2
  <1>4. Append(s, e) \in Seq(U)
    BY <1>3
  <1>5. PICK n \in Nat : n = Len(s)
    BY <1>3
  <1>6. DOMAIN s = 1 .. n /\ DOMAIN Append(s, e) = 1 .. n + 1
    BY <1>3, <1>5
  <1>7. \A i \in 1 .. n + 1 : Append(s, e)[i] = IF i = n + 1 THEN e ELSE s[i]
    BY <1>3, <1>5
  <1>8. ToSet(Append(s, e)) \subseteq ToSet(s) \cup {e}
    <2> SUFFICES ASSUME NEW i \in 1 .. n + 1 PROVE Append(s, e)[i] \in ToSet(s) \cup {e}
      BY <1>6 DEF ToSet
    <2>1. i = n + 1 \/ i \in 1 .. n
      OBVIOUS
    <2> QED BY <1>6, <1>7, <2>1 DEF ToSet
  <1>9. e \in ToSet(Append(s, e))
    <2>1. n + 1 \in 1 .. n + 1
      OBVIOUS
    <2> QED BY <1>6, <1>7, <2>1 DEF ToSet
  <1>10. ASSUME NEW i \in 1 .. n PROVE s[i] \in ToSet(Append(s, e))
    <2>1. i \in 1 .. n + 1 /\ i # n + 1
      OBVIOUS
    <2> QED BY <1>6, <1>7, <2>1 DEF ToSet
  <1>11. ToSet(s) \subseteq ToSet(Append(s, e))
    BY <1>6, <1>10 DEF ToSet
  <1> QED BY <1>4, <1>8, <1>9, <1>11 DEF IsSeq

\* A sequence is its head and the rest.
LEMMA HeadAndTail ==
    ASSUME NEW s, IsSeq(s), s # <<>>
    PROVE  IsSeq(Tail(s)) /\ ToSet(s) = {Head(s)} \cup ToSet(Tail(s))
  <1>1. PICK S : s \in Seq(S)
    BY DEF IsSeq
  <1>2. PICK n \in Nat : n = Len(s) /\ n > 0
    BY <1>1
  <1>3. Tail(s) \in Seq(S) /\ Len(Tail(s)) = n - 1 /\ n - 1 \in Nat
    BY <1>1, <1>2
  <1>4. DOMAIN s = 1 .. n /\ DOMAIN Tail(s) = 1 .. n - 1
    BY <1>1, <1>2, <1>3
  <1>5. \A i \in 1 .. n - 1 : Tail(s)[i] = s[i + 1]
    BY <1>1, <1>2
  <1>6. Head(s) = s[1] /\ 1 \in 1 .. n
    BY <1>1, <1>2
  <1>7. ASSUME NEW i \in 1 .. n PROVE s[i] \in {Head(s)} \cup ToSet(Tail(s))
    <2>1. CASE i = 1
      BY <1>6, <2>1
    <2>2. CASE i # 1
      <3>1. i - 1 \in 1 .. n - 1 /\ (i - 1) + 1 = i
        BY <2>2
      <3> QED BY <1>4, <1>5, <3>1 DEF ToSet
    <2> QED BY <2>1, <2>2
  <1>8. ASSUME NEW i \in 1 .. n - 1 PROVE Tail(s)[i] \in ToSet(s)
    <2>1. i + 1 \in 1 .. n
      OBVIOUS
    <2> QED BY <1>4, <1>5, <2>1 DEF ToSet
  <1>9. Head(s) \in ToSet(s)
    BY <1>4, <1>6 DEF ToSet
  <1>10. ToSet(Tail(s)) \subseteq ToSet(s)
    BY <1>4, <1>8 DEF ToSet
  <1>11. ToSet(s) \subseteq {Head(s)} \cup ToSet(Tail(s))
    BY <1>4, <1>7 DEF ToSet
  <1> QED BY <1>3, <1>9, <1>10, <1>11 DEF IsSeq

\* The empty sequence lists nothing.
LEMMA NothingInSeq ==
    ASSUME NEW s, s = <<>>
    PROVE  IsSeq(s) /\ ToSet(s) = {} /\ CitedBy(s) = {}
  <1>1. s \in Seq({}) /\ DOMAIN s = {}
    OBVIOUS
  <1>2. ToSet(s) = {}
    BY <1>1 DEF ToSet
  <1>3. CitedBy(s) = {}
    BY <1>2 DEF CitedBy
  <1>4. IsSeq(s)
    BY <1>1 DEF IsSeq
  <1> QED BY <1>2, <1>3, <1>4

\* The facts of one location.
LEMMA FactsOfOneLocation ==
    ASSUME NEW src, NEW locs, Len(locs) = 1, NEW n \in Nat
    PROVE  IsSeq(FactsOf(src, locs, n)) /\ DOMAIN FactsOf(src, locs, n) = 1 .. n
           /\ CitedBy(FactsOf(src, locs, n)) \subseteq {src}
  <1>1. n * Len(locs) = n
    <2>1. n * 1 = n
      OBVIOUS
    <2> QED BY <2>1
  <1>2. PICK s : s = FactsOf(src, locs, n)
    OBVIOUS
  <1>3. s = [k \in 1 .. n |-> Fact(src, locs[((k - 1) \div n) + 1], ((k - 1) % n) + 1)]
    BY <1>1, <1>2 DEF FactsOf
  <1>4. \A k \in 1 .. n : s[k].src = src
    BY <1>3 DEF Fact
  <1>5. DOMAIN s = 1 .. n
    BY <1>3
  <1>6. PICK S : S = {s[k] : k \in 1 .. n}
    OBVIOUS
  <1>7. s \in [1 .. n -> S]
    BY <1>3, <1>6
  <1>8. s \in Seq(S)
    BY <1>7
  <1>9. CitedBy(s) \subseteq {src}
    BY <1>4, <1>5 DEF CitedBy, ToSet
  <1> QED BY <1>2, <1>5, <1>8, <1>9 DEF IsSeq

\* A finite set, listed.
LEMMA ListedSet ==
    ASSUME NEW S, IsFiniteSet(S)
    PROVE  /\ SetToSeq(S) \in Seq(S) /\ ToSet(SetToSeq(S)) = S
           /\ SetToSeq(S) \in [1 .. Cardinality(S) -> S]
  <1>1. PICK n \in Nat : ExistsBijection(1 .. n, S)
    BY FS_NatBijection
  <1>2. Cardinality(S) = n
    BY <1>1, FS_CountingElements
  <1>3. PICK f \in [1 .. n -> S] : IsInjective(f)
    BY <1>1 DEF ExistsBijection, Bijection, Injection
  <1>4. SetToSeq(S) \in [1 .. n -> S] /\ IsInjective(SetToSeq(S))
    BY <1>2, <1>3 DEF SetToSeq
  <1>5. PICK g : g = SetToSeq(S)
    OBVIOUS
  <1>6. g \in Injection(1 .. n, S)
    BY <1>4, <1>5 DEF Injection
  <1>7. IsFiniteSet(1 .. n) /\ Cardinality(1 .. n) = n
    <2>1. Cardinality(1 .. n) = IF 1 > n THEN 0 ELSE n - 1 + 1
      BY FS_Interval
    <2> QED BY <2>1, FS_Interval
  <1>8. g \in Surjection(1 .. n, S)
    BY <1>2, <1>6, <1>7, FS_Injection DEF Bijection
  <1>9. ToSet(g) = S
    BY <1>4, <1>5, <1>8 DEF Surjection, ToSet
  <1> QED BY <1>2, <1>4, <1>5, <1>9

\* A sequence holds finitely many elements.
LEMMA FiniteSeq ==
    ASSUME NEW s, IsSeq(s)
    PROVE  IsFiniteSet(ToSet(s))
  <1>1. PICK n \in Nat : DOMAIN s = 1 .. n
    BY DEF IsSeq
  <1>2. s = [i \in 1 .. n |-> s[i]]
    BY <1>1 DEF IsSeq
  <1>3. s \in Surjection(1 .. n, ToSet(s))
    BY <1>1, <1>2 DEF Surjection, ToSet
  <1>4. IsFiniteSet(1 .. n)
    BY FS_Interval
  <1> QED BY <1>3, <1>4, FS_Surjection

-----------------------------------------------------------------------------
(***************************************************************************)
(* What a run still owes: the records and facts of the responses it has    *)
(* accepted are stored, in the queue, or staged.                           *)
(***************************************************************************)
Done == row \in {"success", "partial"}
Whole == fetched \subseteq records /\ due \subseteq facts

Owed ==
    /\ fetched \subseteq StoredSources \cup sources
    /\ due \subseteq StoredFacts \cup ToSet(values)

\* What is staged is in the queue or stored, with or without records of no fact.
Flushed == sources \subseteq StoredSources /\ ToSet(values) \subseteq StoredFacts
Published == CitedBy(values) \subseteq StoredSources /\ ToSet(values) \subseteq StoredFacts

runData == <<sources, values, queue, facts, records, due, fetched>>

\* The steps of a behaviour, by the job they belong to.
LEMMA JobSteps ==
    ASSUME [Next]_vars
    PROVE  \/ job \in KmaJobs /\ (StartKma \/ KmaWorker)
           \/ job \in AlertJobs /\ (StartAlerts \/ AlertWorker)
           \/ job \in StationJobs /\ (StartStations \/ StationWorker)
           \/ job \in EventJobs /\ (BeginEvents \/ EventWorker \/ CancelEvents)
           \/ (SkipOverlap \/ Reap \/ Crash \/ Recover)
                /\ UNCHANGED <<kmaVars, alertVars, stationVars>>
           \/ UNCHANGED <<runVars, kmaVars, alertVars, stationVars>>
  <1>1. CASE UNCHANGED vars
    BY <1>1 DEF vars, runVars
  <1>2. CASE Starts
    BY <1>2 DEF Starts, StartKma, StartAlerts, StartStations, BeginEvents,
       OthersOfRetention, runVars
  <1>3. CASE Worker
    BY <1>3 DEF Worker, KmaWorker, AlertWorker, StationWorker, EventWorker, StartEvents, ThreadFails,
       ReadPage, RereadFirst, PublishEvents, SealCancelled, RaiseEvents, OthersOfRetention, runVars
  <1>4. CASE Others
    BY <1>4 DEF Others, OthersOfTheRow, ListChanges, CancelEvents, OthersOfEvents, OthersOfTargets,
       OthersOfRetention, runVars
  <1> QED BY <1>1, <1>2, <1>3, <1>4 DEF Next

\* Other processes end rows, kill workers and pass ticks over; none stores anything.
LEMMA OthersStoreNothing ==
    ASSUME SkipOverlap \/ Reap \/ Crash \/ Recover
    PROVE  /\ UNCHANGED <<facts, records, due, fetched>>
           /\ row' = row \/ (~Done /\ ~Done')
           /\ at' = "idle" \/ UNCHANGED <<at, back, runData>>
  BY DEF SkipOverlap, Reap, Crash, Recover, Alive, Done, runData

\* Steps that neither accept, stage nor store.
LEMMA QuietOwes == ASSUME Owed, UNCHANGED runData PROVE Owed'
  BY DEF Owed, runData, StoredFacts, StoredSources

\* A transaction of the queue moves its chunk to the database.
LEMMA ChunkOwes ==
    ASSUME IsQueue(queue), PublishChunk
    PROVE  /\ Owed => Owed'
           /\ Flushed => Flushed'
           /\ Published => Published'
           /\ UNCHANGED <<row, at, sources, values, back, due, fetched>>
  <1>1. StoredFacts \subseteq StoredFacts' /\ StoredSources \subseteq StoredSources'
    BY ChunkMoves
  <1>2. UNCHANGED <<row, at, sources, values, back, due, fetched>>
    BY DEF PublishChunk
  <1>3. Owed => Owed'
    BY <1>1, <1>2 DEF Owed
  <1>4. Flushed => Flushed'
    BY <1>1, <1>2 DEF Flushed
  <1>5. Published => Published'
    BY <1>1, <1>2 DEF Published, CitedBy
  <1> QED BY <1>2, <1>3, <1>4, <1>5

\* A batch goes to the queue with all it holds.
LEMMA FlushOwes ==
    ASSUME Owed, queue = NothingQueued, NEW m, NEW r,
           queue' = [chunk_publications(values, m, r) EXCEPT !.uncited = uncited_sources(sources, values)],
           UNCHANGED <<sources, values, facts, records, due, fetched>>
    PROVE  Owed' /\ Flushed'
  <1>1. FactsLeft(queue) = {} /\ SourcesLeft(queue) = {}
    BY NothingIsLeft
  <1>2. PICK u : u = uncited_sources(sources, values)
    OBVIOUS
  <1>3. FactsLeft(queue') = ToSet(values) /\ SourcesLeft(queue') = CitedBy(values) \cup u
    BY <1>2, FlushHoldsAll
  <1>4. sources \subseteq CitedBy(values) \cup u
    BY <1>2 DEF uncited_sources
  <1>5. StoredFacts = facts /\ StoredSources = records
    BY <1>1 DEF StoredFacts, StoredSources
  <1>6. StoredFacts' = facts \cup ToSet(values) /\ StoredSources' = records \cup CitedBy(values) \cup u
    BY <1>3 DEF StoredFacts, StoredSources
  <1> QED BY <1>4, <1>5, <1>6 DEF Owed, Flushed

\* A response goes to the queue on its own.
LEMMA FanoutOwes ==
    ASSUME Owed, queue = NothingQueued, NEW all, NEW m, NEW r, NEW u,
           queue' = [chunk_publications(all, m, r) EXCEPT !.uncited = u],
           fetched' \subseteq fetched \cup CitedBy(all) \cup u, due' \subseteq due \cup ToSet(all),
           UNCHANGED <<sources, values, facts, records>>
    PROVE  Owed'
  <1>1. FactsLeft(queue) = {} /\ SourcesLeft(queue) = {}
    BY NothingIsLeft
  <1>2. FactsLeft(queue') = ToSet(all) /\ SourcesLeft(queue') = CitedBy(all) \cup u
    BY FlushHoldsAll
  <1>3. StoredFacts = facts /\ StoredSources = records
    BY <1>1 DEF StoredFacts, StoredSources
  <1>4. StoredFacts' = facts \cup ToSet(all) /\ StoredSources' = records \cup CitedBy(all) \cup u
    BY <1>2 DEF StoredFacts, StoredSources
  <1> QED BY <1>3, <1>4 DEF Owed

\* The facts staged last go to the queue before the end of the run.
LEMMA LastFlushOwes ==
    ASSUME Owed, queue = NothingQueued, NEW m, NEW r,
           queue' = chunk_publications(values, m, r),
           UNCHANGED <<sources, values, facts, records, due, fetched>>
    PROVE  Owed' /\ Published'
  <1>1. FactsLeft(queue) = {} /\ SourcesLeft(queue) = {}
    BY NothingIsLeft
  <1>2. FactsLeft(queue') = ToSet(values) /\ SourcesLeft(queue') = CitedBy(values)
    BY ChunksHoldAll
  <1>3. StoredFacts = facts /\ StoredSources = records
    BY <1>1 DEF StoredFacts, StoredSources
  <1>4. StoredFacts' = facts \cup ToSet(values) /\ StoredSources' = records \cup CitedBy(values)
    BY <1>2 DEF StoredFacts, StoredSources
  <1> QED BY <1>3, <1>4 DEF Owed, Published, CitedBy

\* The queue has run dry: what was left of it is stored.
LEMMA DrainedStores ==
    ASSUME Drained, queue' = NothingQueued, UNCHANGED <<facts, records>>
    PROVE  StoredFacts' = StoredFacts /\ StoredSources' = StoredSources
           /\ StoredFacts = facts /\ StoredSources = records
  BY NothingIsLeft, DrainedIsEmpty DEF StoredFacts, StoredSources

\* A flushed batch may be emptied: all it held is stored.
LEMMA EndFlushOwes == ASSUME Owed, Flushed, EndFlush PROVE Owed'
  <1>1. StoredFacts' = StoredFacts /\ StoredSources' = StoredSources
    BY DrainedStores DEF EndFlush
  <1> QED BY <1>1 DEF EndFlush, Owed, Flushed

\* The end of a response's queue leaves the staged batch alone.
LEMMA EndFanoutOwes ==
    ASSUME EndFanout
    PROVE  /\ Owed => Owed'
           /\ Published => Published'
           /\ Flushed => Flushed'
           /\ StoredFacts' = StoredFacts /\ StoredSources' = StoredSources
  <1>1. StoredFacts' = StoredFacts /\ StoredSources' = StoredSources
    BY DrainedStores DEF EndFanout
  <1> QED BY <1>1 DEF EndFanout, Owed, Published, Flushed, CitedBy

\* With nothing in the queue, stored is what the database holds.
LEMMA NothingQueuedStores ==
    ASSUME queue = NothingQueued
    PROVE  StoredFacts = facts /\ StoredSources = records
  BY NothingIsLeft DEF StoredFacts, StoredSources

\* A run begins with nothing owed.
LEMMA StartOwesNothing ==
    ASSUME NEW next, Start(next)
    PROVE  /\ Owed' /\ ~Done' /\ IsSeq(values)' /\ at' = next
           /\ sources' = {} /\ values' = <<>> /\ queue' = NothingQueued /\ due' = {}
  BY NothingInSeq DEF Start, NewRow, Owed, Done

-----------------------------------------------------------------------------
(***************************************************************************)
(* A KMA job.                                                              *)
(***************************************************************************)
IsRequest(r) ==
    \E u, t, p, rows, left, room :
        /\ r = [unit |-> u, tries |-> t, parts |-> p, rows |-> rows, left |-> left, room |-> room]
        /\ p \in Seq(Responses)
Requests == \E S : pending \in Seq(S) /\ \A r \in S : IsRequest(r)

IsResponse(c) ==
    \E u, k, p, l :
        /\ c = [unit |-> u, part |-> k, parts |-> p, locs |-> l]
        /\ p \in Seq(Responses)

Sealing == at = "seal" \/ (at = "fanout" /\ back = "seal")
Closing == at = "finish" \/ (at = "fanout" /\ back = "finish")

\* The requests under way and the response at hand.
KmaShape ==
    /\ Requests
    /\ IsResponse(cur)
    /\ cur.locs # <<>> \/ Sealing => cur.parts # <<>>

\* What is staged, queued and owed at each place of the worker.
KmaStaged ==
    /\ IsSeq(values)
    /\ Owed
    /\ at \notin {"flush", "fanout"} => queue = NothingQueued
    /\ at = "flush" => back \in {"admit", "append"} /\ Flushed
    /\ at = "fanout" => back \in {"seal", "finish"}
    /\ Closing => Published

KmaComplete ==
    /\ Done => at = "idle" /\ Whole
    /\ at # "idle" => KmaShape /\ KmaStaged

\* A step that leaves the requests and the response in hand alone.
LEMMA ShapeKept ==
    ASSUME KmaShape, UNCHANGED <<pending, cur>>, Sealing' => Sealing
    PROVE  KmaShape'
  BY DEF KmaShape, Requests, IsResponse

\* Steps that only move on, away from places that promise nothing more.
LEMMA KmaMovesOn ==
    ASSUME KmaComplete, at # "idle", UNCHANGED runData, row' = row, KmaShape',
           at \notin {"flush", "fanout"}, at' \notin {"idle", "flush", "fanout", "finish"}
    PROVE  KmaComplete'
  <1>1. ~Done /\ KmaStaged /\ queue = NothingQueued
    BY DEF KmaComplete, KmaStaged
  <1>2. Owed' /\ IsSeq(values)' /\ queue' = NothingQueued
    BY <1>1, QuietOwes DEF KmaStaged, runData
  <1>3. ~Done'
    BY <1>1 DEF Done
  <1> QED BY <1>2, <1>3 DEF KmaComplete, KmaStaged, Closing

\* The first request is well formed, and so are the rest.
LEMMA RequestsKept ==
    ASSUME Requests, pending # <<>>
    PROVE  IsRequest(Head(pending)) /\ \E S : Tail(pending) \in Seq(S) /\ \A r \in S : IsRequest(r)
  BY DEF Requests

\* A window of requests more is sent.
LEMMA RequestSent ==
    ASSUME Requests, _prefetch_grids
    PROVE  Requests'
  <1>1. PICK S : pending \in Seq(S) /\ \A r \in S : IsRequest(r)
    BY DEF Requests
  <1>2. PICK q : q = Request(Head(groups))
    OBVIOUS
  <1>3. IsRequest(q)
    <2>1. <<>> \in Seq(Responses)
      OBVIOUS
    <2>2. PICK p, u, t, rows, left, room : p = <<>> /\ q = [unit |-> u, tries |-> t, parts |-> p, rows |-> rows, left |-> left, room |-> room]
      BY <1>2 DEF Request
    <2> QED BY <2>1, <2>2 DEF IsRequest
  <1>4. PICK T : T = S \cup {q}
    OBVIOUS
  <1>5. pending' = Append(pending, q)
    BY <1>2 DEF _prefetch_grids
  <1>6. pending \in Seq(T) /\ q \in T
    BY <1>1, <1>4
  <1>7. pending' \in Seq(T)
    BY <1>5, <1>6
  <1>8. \A r \in T : IsRequest(r)
    BY <1>1, <1>3, <1>4
  <1> QED BY <1>7, <1>8 DEF Requests

\* One request is answered.
LEMMA RequestAnswered ==
    ASSUME Requests, NEW i \in 1 .. FetchConcurrency, Answer(i)
    PROVE  Requests'
  <1>1. PICK S : pending \in Seq(S) /\ \A r \in S : IsRequest(r)
    BY DEF Requests
  <1>2. i \in 1 .. Len(pending) /\ pending[i] \in S
    BY <1>1 DEF Answer
  <1>3. PICK u, t, p, rows, left, room :
          /\ pending[i] = [unit |-> u, tries |-> t, parts |-> p, rows |-> rows, left |-> left, room |-> room]
          /\ p \in Seq(Responses)
    BY <1>1, <1>2 DEF IsRequest
  <1>4. \E q : pending' = [pending EXCEPT ![i] = q] /\ IsRequest(q)
    <2>1. ASSUME NEW parts \in PartsOf, pending' = [pending EXCEPT ![i].parts = parts]
          PROVE  \E q : pending' = [pending EXCEPT ![i] = q] /\ IsRequest(q)
      <3>1. parts \in Seq(Responses)
        <4>1. PICK k \in Nat : parts \in [1 .. k -> Responses]
          <5>1. CASE job = "mid"
            <6>1. parts \in [1 .. 2 -> Responses]
              BY <5>1 DEF PartsOf
            <6> QED BY <6>1
          <5>2. CASE job # "mid"
            <6>1. parts \in [1 .. 1 -> Responses]
              BY <5>2 DEF PartsOf
            <6> QED BY <6>1
          <5> QED BY <5>1, <5>2
        <4> QED BY <4>1
      <3>2. PICK q : q = [unit |-> u, tries |-> t, parts |-> parts, rows |-> rows, left |-> left, room |-> room]
        OBVIOUS
      <3>3. q = [pending[i] EXCEPT !.parts = parts]
        BY <1>3, <3>2
      <3>4. pending' = [pending EXCEPT ![i] = q]
        BY <2>1, <3>3
      <3>5. IsRequest(q)
        BY <3>1, <3>2 DEF IsRequest
      <3> QED BY <3>4, <3>5
    <2>2. ASSUME pending' = [pending EXCEPT ![i].tries = @ + 1]
          PROVE  \E q : pending' = [pending EXCEPT ![i] = q] /\ IsRequest(q)
      <3>1. PICK q : q = [unit |-> u, tries |-> t + 1, parts |-> p, rows |-> rows, left |-> left, room |-> room]
        OBVIOUS
      <3>2. q = [pending[i] EXCEPT !.tries = @ + 1]
        BY <1>3, <3>1
      <3>3. pending' = [pending EXCEPT ![i] = q]
        BY <2>2, <3>2
      <3>4. IsRequest(q)
        BY <1>3, <3>1 DEF IsRequest
      <3> QED BY <3>3, <3>4
    <2> QED BY <2>1, <2>2 DEF Answer
  <1>5. PICK q : pending' = [pending EXCEPT ![i] = q] /\ IsRequest(q)
    BY <1>4
  <1>6. PICK T : T = S \cup {q}
    OBVIOUS
  <1>7. pending \in Seq(T) /\ q \in T
    BY <1>1, <1>6
  <1>8. pending' \in Seq(T)
    BY <1>2, <1>5, <1>7
  <1>9. \A r \in T : IsRequest(r)
    BY <1>1, <1>5, <1>6
  <1> QED BY <1>8, <1>9 DEF Requests

\* The next part of the response at hand.
LEMMA NextPartIsResponse ==
    ASSUME IsResponse(cur), cur.parts # <<>>
    PROVE  IsResponse(NextPart) /\ NextPart.locs = <<>>
  <1>1. PICK u, k, p, l : cur = [unit |-> u, part |-> k, parts |-> p, locs |-> l] /\ p \in Seq(Responses)
    BY DEF IsResponse
  <1>2. PICK q, e : q = Tail(p) /\ e = <<>>
    OBVIOUS
  <1>3. q \in Seq(Responses)
    BY <1>1, <1>2
  <1>4. NextPart = [unit |-> u, part |-> k + 1, parts |-> q, locs |-> e]
    <2>1. PICK k1 : k1 = k + 1
      OBVIOUS
    <2>2. [[[cur EXCEPT !.part = k1] EXCEPT !.parts = q] EXCEPT !.locs = e]
            = [unit |-> u, part |-> k1, parts |-> q, locs |-> e]
      <3>1. PICK c : c = [cur EXCEPT !.part = k1]
        OBVIOUS
      <3>2. c = [unit |-> u, part |-> k1, parts |-> p, locs |-> l]
        BY <1>1, <3>1
      <3>3. PICK d : d = [c EXCEPT !.parts = q]
        OBVIOUS
      <3>4. d = [unit |-> u, part |-> k1, parts |-> q, locs |-> l]
        BY <3>2, <3>3
      <3>5. [d EXCEPT !.locs = e] = [unit |-> u, part |-> k1, parts |-> q, locs |-> e]
        BY <3>4
      <3> QED BY <3>1, <3>3, <3>5
    <2>3. cur.part = k /\ cur.parts = p
      BY <1>1
    <2> QED BY <1>2, <2>1, <2>2, <2>3 DEF NextPart
  <1>5. NextPart.locs = e
    BY <1>4
  <1>6. IsResponse(NextPart)
    BY <1>3, <1>4 DEF IsResponse
  <1> QED BY <1>2, <1>5, <1>6

\* A response keeps its parts as its locations are worked off.
LEMMA LocsOfResponse ==
    ASSUME IsResponse(cur), NEW m
    PROVE  /\ IsResponse([cur EXCEPT !.locs = m])
           /\ [cur EXCEPT !.locs = m].parts = cur.parts
  <1>1. PICK u, k, p, l : cur = [unit |-> u, part |-> k, parts |-> p, locs |-> l] /\ p \in Seq(Responses)
    BY DEF IsResponse
  <1>2. PICK c : c = [cur EXCEPT !.locs = m]
    OBVIOUS
  <1>3. c = [unit |-> u, part |-> k, parts |-> p, locs |-> m]
    BY <1>1, <1>2
  <1>4. c.parts = cur.parts
    BY <1>1, <1>3
  <1>5. IsResponse(c)
    BY <1>1, <1>3 DEF IsResponse
  <1> QED BY <1>2, <1>4, <1>5

\* A start owes nothing.
LEMMA StartKmaComplete == ASSUME StartKma PROVE KmaComplete'
  <1>1. PICK next : next = "setup"
    OBVIOUS
  <1>2. Start(next)
    BY <1>1 DEF StartKma
  <1>3. Owed' /\ ~Done' /\ IsSeq(values)' /\ at' = next /\ queue' = NothingQueued
    BY <1>2, StartOwesNothing
  <1>4. KmaStaged'
    BY <1>1, <1>3 DEF KmaStaged, Closing
  <1>5. PICK e : e = <<>>
    OBVIOUS
  <1>6. pending' = e /\ cur' = [unit |-> "none", part |-> 0, parts |-> e, locs |-> e]
    BY <1>5 DEF StartKma, NoResponse
  <1>7. Requests'
    <2>1. pending' \in Seq({})
      BY <1>5, <1>6
    <2> QED BY <2>1 DEF Requests
  <1>8. IsResponse(cur)' /\ cur'.locs = <<>>
    <2>1. e \in Seq(Responses)
      BY <1>5
    <2>2. cur'.locs = e
      BY <1>6
    <2> QED BY <1>5, <1>6, <2>1, <2>2 DEF IsResponse
  <1>9. KmaShape'
    BY <1>1, <1>3, <1>7, <1>8 DEF KmaShape, Sealing
  <1> QED BY <1>3, <1>4, <1>9 DEF KmaComplete

\* Requests are sent, answered and checked; the pipeline begins and ends.
LEMMA KmaRequests ==
    ASSUME KmaComplete,
           \/ Setup \/ EnterPipeline \/ _prefetch_grids \/ Admit \/ EndPipeline \/ EndMid
           \/ \E i \in 1 .. FetchConcurrency : Answer(i)
    PROVE  KmaComplete'
  <1>1. at \notin {"idle", "flush", "fanout"}
    BY DEF Setup, EnterPipeline, _prefetch_grids, Answer, Waiting, Admit, EndPipeline, EndMid
  <1>2. KmaShape
    BY <1>1 DEF KmaComplete
  <1>3. CASE Setup \/ EnterPipeline \/ Admit \/ EndPipeline \/ EndMid
    <2>1. UNCHANGED <<runData, row, pending, cur>>
          /\ at' \in {"prepared", "mid", "pipe", "append", "final"}
      BY <1>3 DEF Setup, EnterPipeline, Admit, EndPipeline, EndMid, runData, kmaVars
    <2>2. KmaShape'
      BY <1>2, <2>1, ShapeKept DEF Sealing
    <2> QED BY <1>1, <2>1, <2>2, KmaMovesOn
  <1>4. CASE _prefetch_grids \/ \E i \in 1 .. FetchConcurrency : Answer(i)
    <2>1. UNCHANGED <<runData, row, cur, at, back>> /\ at = "pipe"
      BY <1>4 DEF _prefetch_grids, Answer, Waiting, runVars, runData
    <2>2. Requests'
      BY <1>2, <1>4, RequestSent, RequestAnswered DEF KmaShape
    <2>3. KmaShape'
      BY <1>2, <2>1, <2>2 DEF KmaShape, Sealing
    <2> QED BY <1>1, <2>1, <2>3, KmaMovesOn
  <1> QED BY <1>3, <1>4

\* A response leaves the worker's hands, or a request of the mid-term export begins.
LEMMA KmaTurns ==
    ASSUME KmaComplete, SealPart \/ EndGroup \/ MidRequest
    PROVE  KmaComplete'
  <1>1. /\ at \in {"seal", "append", "mid"} /\ at' \in {"mid", "append", "pipe", "verify"}
        /\ UNCHANGED <<runData, row, pending>>
    BY DEF SealPart, EndGroup, MidRequest, runData
  <1>2. KmaShape
    BY <1>1 DEF KmaComplete
  <1>3. IsResponse(cur)' /\ cur'.locs = <<>>
    <2>1. CASE SealPart
      <3>1. cur.parts # <<>> /\ cur' = NextPart
        BY <1>2, <2>1 DEF SealPart, KmaShape, Sealing
      <3> QED BY <1>2, <3>1, NextPartIsResponse DEF KmaShape
    <2>2. CASE EndGroup \/ MidRequest
      <3>1. PICK e : e = <<>>
        OBVIOUS
      <3>2. e \in Seq(Responses)
        BY <3>1
      <3>3. PICK u, k : cur' = [unit |-> u, part |-> k, parts |-> e, locs |-> e]
        BY <2>2, <3>1 DEF EndGroup, MidRequest, NoResponse
      <3>4. cur'.locs = e
        BY <3>3
      <3> QED BY <3>1, <3>2, <3>3, <3>4 DEF IsResponse
    <2> QED BY <2>1, <2>2
  <1>4. KmaShape'
    BY <1>1, <1>2, <1>3 DEF KmaShape, Requests, Sealing
  <1> QED BY <1>1, <1>4, KmaMovesOn

\* A batch is published before more is staged.
LEMMA KmaFlushes ==
    ASSUME KmaComplete, at \notin {"idle", "flush", "fanout"}, KmaShape', queue' = Staged,
           at' = "flush", back' \in {"admit", "append"},
           UNCHANGED <<row, sources, values, facts, records, due, fetched>>
    PROVE  KmaComplete'
  <1>1. KmaStaged /\ queue = NothingQueued /\ ~Done
    BY DEF KmaComplete, KmaStaged
  <1>2. Owed' /\ Flushed'
    BY <1>1, FlushOwes DEF KmaStaged, Staged, StagedAs
  <1>3. ~Done' /\ IsSeq(values)'
    BY <1>1 DEF Done, KmaStaged
  <1> QED BY <1>2, <1>3 DEF KmaComplete, KmaStaged, Closing

\* The response in hand is the first of those asked for.
LEMMA KmaConsumes ==
    ASSUME KmaComplete, Consume
    PROVE  KmaComplete'
  <1>1. at = "pipe" /\ pending # <<>> /\ Head(pending).parts # <<>>
    BY DEF Consume, Waiting
  <1>2. KmaShape
    BY <1>1 DEF KmaComplete
  <1>3. IsRequest(Head(pending)) /\ \E S : Tail(pending) \in Seq(S) /\ \A r \in S : IsRequest(r)
    BY <1>1, <1>2, RequestsKept DEF KmaShape
  <1>4. Requests'
    BY <1>3 DEF Consume, Requests
  <1>5. PICK p \in Seq(Responses) : p = Head(pending).parts
    BY <1>3 DEF IsRequest
  <1>6. PICK u, k, e : cur' = [unit |-> u, part |-> k, parts |-> p, locs |-> e]
    BY <1>5 DEF Consume
  <1>7. IsResponse(cur)' /\ cur'.parts # <<>>
    BY <1>1, <1>5, <1>6 DEF IsResponse
  <1>8. KmaShape'
    BY <1>4, <1>7 DEF KmaShape
  <1>9. CASE BeginFlush(Staged, "admit")
    BY <1>1, <1>8, <1>9, KmaFlushes DEF Consume, BeginFlush
  <1>10. CASE at' = "admit" /\ UNCHANGED <<queue, back>>
    BY <1>1, <1>8, <1>10, KmaMovesOn DEF Consume, runData
  <1> QED BY <1>9, <1>10 DEF Consume

\* A full batch is flushed before the next location is staged.
LEMMA KmaBatchFull ==
    ASSUME KmaComplete, FlushBatch
    PROVE  KmaComplete'
  <1>1. at = "append" /\ at' = "flush" /\ UNCHANGED <<pending, cur>>
    BY DEF FlushBatch, BeginFlush, kmaVars
  <1>2. KmaShape'
    BY <1>1, ShapeKept DEF KmaComplete, Sealing
  <1> QED BY <1>1, <1>2, KmaFlushes DEF FlushBatch, BeginFlush

\* A response goes out at once.
LEMMA KmaFansOut ==
    ASSUME KmaComplete, at \notin {"idle", "flush", "fanout"}, KmaShape', NEW all,
           queue' = NativeFanout(all), at' = "fanout", back' = "seal",
           due' = due \cup ToSet(all), fetched' = fetched \cup {Part},
           UNCHANGED <<row, sources, values, facts, records>>
    PROVE  KmaComplete'
  <1>1. KmaStaged /\ queue = NothingQueued /\ ~Done
    BY DEF KmaComplete, KmaStaged
  <1>2. PICK u : u = uncited_sources({Part}, all)
    OBVIOUS
  <1>3. queue' = [chunk_publications(all, PublishLocations, PublishValues) EXCEPT !.uncited = u]
    BY <1>2 DEF NativeFanout, StagedAs
  <1>4. {Part} \subseteq CitedBy(all) \cup u
    BY <1>2 DEF uncited_sources
  <1>5. Owed'
    BY <1>1, <1>3, <1>4, FanoutOwes DEF KmaStaged
  <1>6. ~Done' /\ IsSeq(values)'
    BY <1>1 DEF Done, KmaStaged
  <1> QED BY <1>5, <1>6 DEF KmaComplete, KmaStaged, Closing

\* A part of an exported response is queued on its own.
LEMMA KmaCaptures ==
    ASSUME KmaComplete, CapturePart
    PROVE  KmaComplete'
  <1>1. at = "append" /\ at' = "fanout" /\ back' = "seal" /\ cur.parts # <<>>
        /\ UNCHANGED <<pending, cur, row, sources, values, facts, records>>
    BY DEF CapturePart, BeginFanout, kmaVars
  <1>2. KmaShape'
    BY <1>1 DEF KmaComplete, KmaShape, Requests
  <1>3. PICK all : /\ queue' = NativeFanout(all) /\ due' = due \cup ToSet(all)
                   /\ fetched' = fetched \cup {Part}
    BY DEF CapturePart, BeginFanout
  <1> QED BY <1>1, <1>2, <1>3, KmaFansOut

\* A mid-term answer is accepted, or skipped.
LEMMA KmaMidAnswers ==
    ASSUME KmaComplete, MidAnswer
    PROVE  KmaComplete'
  <1>1. at \in {"verify", "reverify"} /\ UNCHANGED <<pending, row, sources, values, facts, records>>
    BY DEF MidAnswer
  <1>2. KmaShape
    BY <1>1 DEF KmaComplete
  <1>3. PICK r \in Responses :
          LET all == FactsOf(Part, SortedLocs(cur.unit), r.n)
          IN  IF r.rows = 0
              THEN /\ at' = "reverify"
                   /\ UNCHANGED <<cur, tally, due, fetched, queue, back, plans, held>>
              ELSE /\ cur' = [cur EXCEPT !.parts = <<r>>]
                   /\ due' = due \cup ToSet(all)
                   /\ fetched' = fetched \cup {Part}
                   /\ BeginFanout(NativeFanout(all), "seal")
    BY DEF MidAnswer
  <1>4. CASE r.rows = 0
    <2>1. at' = "reverify" /\ UNCHANGED <<cur, due, fetched, queue, back>>
      BY <1>3, <1>4
    <2>2. KmaShape'
      BY <1>1, <1>2, <2>1, ShapeKept DEF Sealing
    <2> QED BY <1>1, <2>1, <2>2, KmaMovesOn DEF runData
  <1>5. CASE r.rows # 0
    <2>1. PICK all : /\ cur' = [cur EXCEPT !.parts = <<r>>]
                     /\ due' = due \cup ToSet(all)
                     /\ fetched' = fetched \cup {Part}
                     /\ queue' = NativeFanout(all) /\ back' = "seal" /\ at' = "fanout"
      BY <1>3, <1>5 DEF BeginFanout
    <2>2. PICK u, k, p, l : cur = [unit |-> u, part |-> k, parts |-> p, locs |-> l]
      BY <1>2 DEF KmaShape, IsResponse
    <2>3. PICK q : q = <<r>>
      OBVIOUS
    <2>4. q \in Seq(Responses) /\ q # <<>>
      BY <2>3
    <2>5. cur' = [unit |-> u, part |-> k, parts |-> q, locs |-> l]
      BY <2>1, <2>2, <2>3
    <2>6. IsResponse(cur)' /\ cur'.parts # <<>>
      BY <2>4, <2>5 DEF IsResponse
    <2>7. KmaShape'
      BY <1>1, <1>2, <2>6 DEF KmaShape, Requests
    <2> QED BY <1>1, <2>1, <2>7, KmaFansOut
  <1> QED BY <1>4, <1>5

\* A response is staged: first its record, then location by location.
LEMMA KmaStagesPart ==
    ASSUME KmaComplete, StagePart
    PROVE  KmaComplete'
  <1>1. /\ at = "append" /\ at' = "append" /\ cur.parts # <<>>
        /\ sources' = sources \cup {Part} /\ fetched' = fetched \cup {Part}
        /\ UNCHANGED <<row, values, queue, back, facts, records, due, pending>>
    BY DEF StagePart
  <1>2. KmaShape /\ KmaStaged /\ queue = NothingQueued /\ ~Done
    BY <1>1 DEF KmaComplete, KmaStaged
  <1>3. IsResponse(cur)' /\ cur'.parts = cur.parts
    BY <1>2, LocsOfResponse DEF StagePart, KmaShape
  <1>4. KmaShape'
    BY <1>1, <1>2, <1>3 DEF KmaShape, Requests
  <1>5. StoredFacts' = StoredFacts /\ StoredSources' = StoredSources
    BY <1>1 DEF StoredFacts, StoredSources
  <1>6. Owed'
    BY <1>1, <1>2, <1>5 DEF Owed, KmaStaged
  <1>7. ~Done' /\ IsSeq(values)' /\ queue' = NothingQueued
    BY <1>1, <1>2 DEF Done, KmaStaged
  <1> QED BY <1>1, <1>4, <1>6, <1>7 DEF KmaComplete, KmaStaged, Closing

\* A location's facts join the batch.
LEMMA KmaStagesLocation ==
    ASSUME KmaComplete, StageLocation
    PROVE  KmaComplete'
  <1>1. at = "append" /\ cur.locs # <<>> /\ KmaShape /\ KmaStaged /\ queue = NothingQueued /\ ~Done
    BY DEF KmaComplete, KmaStaged, StageLocation
  <1>2. cur.parts # <<>> /\ IsResponse(cur)
    BY <1>1 DEF KmaShape
  <1>3. PICK n \in Nat : n = Head(cur.parts).n
    <2>1. PICK p \in Seq(Responses) : p = cur.parts
      BY <1>2 DEF IsResponse
    <2>2. Head(p) \in Responses
      BY <1>2, <2>1
    <2> QED BY <2>1, <2>2, KmaAssumption
  <1>4. PICK new : new = PartFacts(<<Head(cur.locs)>>)
    OBVIOUS
  <1>5. IsSeq(new)
    <2>1. PICK locs : locs = <<Head(cur.locs)>>
      OBVIOUS
    <2>2. Len(locs) = 1
      BY <2>1
    <2>3. new = FactsOf(Part, locs, n)
      BY <1>3, <1>4, <2>1 DEF PartFacts
    <2> QED BY <2>2, <2>3, FactsOfOneLocation
  <1>6. PICK more : more = Tail(cur.locs)
    OBVIOUS
  <1>7. /\ sources' = sources \cup {Part} /\ values' = values \o new
        /\ due' = due \cup ToSet(new)
        /\ cur' = IF more = <<>> THEN NextPart ELSE [cur EXCEPT !.locs = more]
        /\ \/ queue' = StagedAs(sources', values') /\ back' = "append" /\ at' = "flush"
           \/ UNCHANGED <<queue, back, at>>
        /\ UNCHANGED <<row, facts, records, fetched, pending>>
    BY <1>4, <1>6 DEF StageLocation
  <1>8. IsSeq(values)' /\ ToSet(values') = ToSet(values) \cup ToSet(new)
    BY <1>1, <1>5, <1>7, JoinedSeq DEF KmaStaged
  <1>9. IsResponse(cur)' /\ (cur'.locs # <<>> => cur'.parts # <<>>)
    <2>1. CASE more = <<>>
      BY <1>2, <1>7, <2>1, NextPartIsResponse
    <2>2. CASE more # <<>>
      BY <1>2, <1>7, <2>2, LocsOfResponse
    <2> QED BY <2>1, <2>2
  <1>10. KmaShape'
    BY <1>1, <1>7, <1>9 DEF KmaShape, Requests, Sealing
  <1>11. StoredFacts = facts /\ StoredSources = records
    BY <1>1, NothingQueuedStores
  <1>12. fetched' \subseteq records' \cup sources' /\ due' \subseteq facts' \cup ToSet(values')
    BY <1>1, <1>7, <1>8, <1>11 DEF KmaStaged, Owed
  <1>13. ~Done'
    BY <1>1, <1>7 DEF Done
  <1>14. CASE UNCHANGED <<queue, back, at>>
    <2>1. queue' = NothingQueued
      BY <1>1, <1>14
    <2>2. StoredFacts' = facts' /\ StoredSources' = records'
      BY <2>1, NothingIsLeft DEF StoredFacts, StoredSources
    <2>3. Owed'
      BY <1>12, <2>2 DEF Owed
    <2> QED BY <1>1, <1>8, <1>10, <1>13, <1>14, <2>1, <2>3 DEF KmaComplete, KmaStaged, Closing
  <1>15. CASE queue' = StagedAs(sources', values') /\ back' = "append" /\ at' = "flush"
    <2>1. PICK u : u = uncited_sources(sources', values')
      OBVIOUS
    <2>2. queue' = [chunk_publications(values', PublishLocations, PublishValues) EXCEPT !.uncited = u]
      BY <1>15, <2>1 DEF StagedAs
    <2>3. FactsLeft(queue') = ToSet(values') /\ SourcesLeft(queue') = CitedBy(values') \cup u
      BY <2>2, FlushHoldsAll
    <2>4. sources' \subseteq CitedBy(values') \cup u
      BY <2>1 DEF uncited_sources
    <2>5. StoredFacts' = facts' \cup ToSet(values') /\ StoredSources' = records' \cup CitedBy(values') \cup u
      BY <2>3 DEF StoredFacts, StoredSources
    <2>6. Owed' /\ Flushed'
      BY <1>12, <2>4, <2>5 DEF Owed, Flushed
    <2> QED BY <1>8, <1>10, <1>13, <1>15, <2>6 DEF KmaComplete, KmaStaged, Closing
  <1> QED BY <1>7, <1>14, <1>15

\* The last facts, and the end of the run.
LEMMA KmaConcludes ==
    ASSUME KmaComplete, Conclude
    PROVE  KmaComplete'
  <1>1. /\ at = "final" /\ at' = "fanout" /\ back' = "finish"
        /\ queue' = chunk_publications(values, PublishLocations, PublishValues)
        /\ UNCHANGED <<row, sources, values, facts, records, due, fetched, pending, cur>>
    BY DEF Conclude, BeginFanout, kmaVars
  <1>2. KmaShape /\ KmaStaged /\ queue = NothingQueued /\ ~Done
    BY <1>1 DEF KmaComplete, KmaStaged
  <1>3. Owed' /\ Published'
    BY <1>1, <1>2, LastFlushOwes DEF KmaStaged
  <1>4. KmaShape'
    BY <1>1, <1>2, ShapeKept DEF Sealing
  <1>5. ~Done' /\ IsSeq(values)'
    BY <1>1, <1>2 DEF Done, KmaStaged
  <1> QED BY <1>1, <1>3, <1>4, <1>5 DEF KmaComplete, KmaStaged

\* A run ends well only with everything published.
LEMMA KmaFinishes ==
    ASSUME KmaComplete, FinishKma
    PROVE  KmaComplete'
  <1>1. /\ at = "finish" /\ at' = "idle"
        /\ records' = records \cup uncited_sources(sources, values)
        /\ UNCHANGED <<facts, due, fetched>>
    BY DEF FinishKma, Complete
  <1>2. KmaStaged /\ queue = NothingQueued /\ Published
    BY <1>1 DEF KmaComplete, KmaStaged, Closing
  <1>3. StoredFacts = facts /\ StoredSources = records
    BY <1>2, NothingQueuedStores
  <1>4. Whole'
    BY <1>1, <1>2, <1>3 DEF KmaStaged, Owed, Published, Whole, uncited_sources
  <1> QED BY <1>1, <1>4 DEF KmaComplete

\* The transactions of the queue.
LEMMA KmaShares ==
    ASSUME KmaComplete, IsQueue(queue), KmaShared
    PROVE  KmaComplete'
  <1>1. UNCHANGED <<pending, cur>> /\ at \in {"flush", "fanout"} /\ row' = row
    BY DEF KmaShared, kmaVars, PublishChunk, EndFlush, EndFanout
  <1>2. KmaShape /\ KmaStaged /\ ~Done /\ ~Done'
    BY <1>1 DEF KmaComplete, Done
  <1>3. CASE PublishChunk
    <2>1. /\ UNCHANGED <<row, at, sources, values, back, due, fetched>> /\ Owed'
          /\ Flushed => Flushed'
          /\ Published => Published'
      BY <1>2, <1>3, ChunkOwes DEF KmaStaged
    <2>2. KmaShape'
      BY <1>1, <1>2, <2>1, ShapeKept DEF Sealing
    <2>3. KmaStaged'
      BY <1>1, <1>2, <2>1 DEF KmaStaged, Closing
    <2> QED BY <1>2, <2>2, <2>3 DEF KmaComplete
  <1>4. CASE EndFlush
    <2>1. at = "flush" /\ at' = back /\ back \in {"admit", "append"} /\ Flushed
          /\ values' = <<>> /\ queue' = NothingQueued
      BY <1>2, <1>4 DEF EndFlush, KmaStaged
    <2>2. Owed'
      BY <1>2, <1>4, <2>1, EndFlushOwes DEF KmaStaged
    <2>3. KmaShape'
      BY <1>1, <1>2, <2>1, ShapeKept DEF Sealing
    <2>4. IsSeq(values)'
      BY <2>1, NothingInSeq
    <2>5. KmaStaged'
      BY <2>1, <2>2, <2>4 DEF KmaStaged, Closing
    <2> QED BY <1>2, <2>3, <2>5 DEF KmaComplete
  <1>5. CASE EndFanout
    <2>1. at = "fanout" /\ at' = back /\ back \in {"seal", "finish"}
          /\ UNCHANGED <<values, back>> /\ queue' = NothingQueued
      BY <1>2, <1>5 DEF EndFanout, KmaStaged
    <2>2. Owed' /\ (Published => Published')
      BY <1>2, <1>5, EndFanoutOwes DEF KmaStaged
    <2>3. KmaShape'
      BY <1>1, <1>2, <2>1, ShapeKept DEF Sealing
    <2>4. Closing' => Closing
      BY <2>1 DEF Closing
    <2>5. KmaStaged'
      BY <1>2, <2>1, <2>2, <2>4 DEF KmaStaged
    <2> QED BY <1>2, <2>3, <2>5 DEF KmaComplete
  <1> QED BY <1>3, <1>4, <1>5 DEF KmaShared

\* A failed run does not end well.
LEMMA KmaRaises ==
    ASSUME KmaComplete, RaiseKma
    PROVE  KmaComplete'
  BY DEF RaiseKma, Fail, Alive, Done, KmaComplete

\* Every step of the worker.
LEMMA KmaWorks ==
    ASSUME KmaComplete, IsQueue(queue), KmaWorker
    PROVE  KmaComplete'
  BY KmaRequests, KmaTurns, KmaConsumes, KmaBatchFull, KmaCaptures, KmaMidAnswers, KmaStagesPart,
     KmaStagesLocation, KmaConcludes, KmaFinishes, KmaShares, KmaRaises DEF KmaWorker

\* What others do leaves what is owed alone.
LEMMA KmaAmongOthers ==
    ASSUME KmaComplete,
           \/ (SkipOverlap \/ Reap \/ Crash \/ Recover) /\ UNCHANGED kmaVars
           \/ UNCHANGED <<runVars, kmaVars>>
    PROVE  KmaComplete'
  <1>1. /\ UNCHANGED <<facts, records, due, fetched, pending, cur>>
        /\ row' = row \/ (~Done /\ ~Done')
        /\ at' = "idle" \/ UNCHANGED <<at, back, runData>>
    BY OthersStoreNothing DEF kmaVars, runVars, runData
  <1>2. Done' => Done /\ Whole'
    BY <1>1 DEF KmaComplete, Done, Whole
  <1>3. CASE at' = "idle"
    BY <1>2, <1>3 DEF KmaComplete
  <1>4. CASE UNCHANGED <<at, back, runData>>
    <2>1. KmaStaged => KmaStaged'
      <3>1. StoredFacts' = StoredFacts /\ StoredSources' = StoredSources
        BY <1>4 DEF runData, StoredFacts, StoredSources
      <3> QED BY <1>4, <3>1 DEF runData, KmaStaged, Owed, Flushed, Published, Closing, CitedBy, IsSeq
    <2>2. KmaShape => KmaShape'
      BY <1>1, <1>4, ShapeKept DEF Sealing
    <2> QED BY <1>2, <1>4, <2>1, <2>2 DEF KmaComplete
  <1> QED BY <1>1, <1>3, <1>4

-----------------------------------------------------------------------------
(***************************************************************************)
(* The alerts job: a fact may be left to the next run, its location noted. *)
(***************************************************************************)
AlertPlaces == {"notices", "fan", "assess"}

AlertOwed ==
    /\ fetched \subseteq StoredSources \cup sources
    /\ \A f \in due : f \in StoredFacts \/ f \in ToSet(values) \/ f.loc \in skipped

\* In the middle of a flush: tried and locked, or stored, or still to be tried.
AlertRound ==
    /\ back \in AlertPlaces
    /\ queue.vals = values /\ queue.uncited = {}
    /\ CitedBy(values) \subseteq StoredSources
    /\ \A v \in ToSet(values) : v \in StoredFacts \/ v.loc \in locked

AlertFlushed ==
    /\ back \in AlertPlaces
    /\ sources \subseteq StoredSources
    /\ \A v \in ToSet(values) : v \in StoredFacts \/ v.loc \in skipped

AlertStaged ==
    /\ IsSeq(values)
    /\ AlertOwed
    /\ at # "fanout"
    /\ at \notin {"flush", "skip_locked"} => queue = NothingQueued
    /\ at = "skip_locked" => AlertRound
    /\ at = "flush" => AlertFlushed
    /\ at = "assess" => values = <<>> /\ sources = {}

AlertWhole == fetched \subseteq records /\ \A f \in due : f \in facts \/ f.loc \in note

AlertComplete ==
    /\ Done => at = "idle" /\ AlertWhole
    /\ at # "idle" => AlertStaged

\* A start owes nothing.
LEMMA StartAlertsComplete == ASSUME StartAlerts PROVE AlertComplete'
  <1>1. PICK next : next = "setup"
    OBVIOUS
  <1>2. Start(next)
    BY <1>1 DEF StartAlerts
  <1>3. Owed' /\ ~Done' /\ IsSeq(values)' /\ at' = next /\ queue' = NothingQueued /\ due' = {}
    BY <1>2, StartOwesNothing
  <1>4. AlertStaged'
    BY <1>1, <1>3 DEF AlertStaged, AlertOwed, Owed
  <1> QED BY <1>3, <1>4 DEF AlertComplete

\* Steps that neither accept, stage nor store.
LEMMA AlertMovesOn ==
    ASSUME AlertComplete, at \notin {"idle", "flush", "skip_locked"},
           at' \notin {"idle", "fanout", "flush", "skip_locked", "assess"},
           UNCHANGED <<row, sources, values, queue, facts, records, due, fetched, skipped>>
    PROVE  AlertComplete'
  <1>1. StoredFacts' = StoredFacts /\ StoredSources' = StoredSources
    BY DEF StoredFacts, StoredSources
  <1>2. AlertStaged'
    BY <1>1 DEF AlertComplete, AlertStaged, AlertOwed
  <1>3. ~Done'
    BY DEF AlertComplete, Done
  <1> QED BY <1>2, <1>3 DEF AlertComplete

\* Setting up, and going from office to office and notice to notice.
LEMMA AlertTurns ==
    ASSUME AlertComplete, SetupAlerts \/ AskOffice \/ EndNotice \/ EndOffice
    PROVE  AlertComplete'
  <1>1. /\ at \notin {"idle", "flush", "skip_locked"}
        /\ at' \in {"offices", "notices"}
        /\ UNCHANGED <<row, sources, values, queue, facts, records, due, fetched, skipped>>
    BY DEF SetupAlerts, AskOffice, EndNotice, EndOffice, alertVars
  <1> QED BY <1>1, AlertMovesOn

\* A notice is one source record.
LEMMA AlertNotices ==
    ASSUME AlertComplete, NextNotice
    PROVE  AlertComplete'
  <1>1. /\ at = "notices" /\ UNCHANGED <<row, values, queue, facts, records, due, skipped>>
        /\ \/ /\ sources' = sources \cup {notice'} /\ fetched' = fetched \cup {notice'} /\ at' = "fan"
           \/ UNCHANGED <<sources, fetched, at>>
    BY DEF NextNotice
  <1>2. StoredFacts' = StoredFacts /\ StoredSources' = StoredSources
    BY <1>1 DEF StoredFacts, StoredSources
  <1>3. AlertOwed'
    BY <1>1, <1>2 DEF AlertComplete, AlertStaged, AlertOwed
  <1>4. AlertStaged'
    BY <1>1, <1>3 DEF AlertComplete, AlertStaged
  <1>5. ~Done'
    BY <1>1 DEF AlertComplete, Done
  <1> QED BY <1>4, <1>5 DEF AlertComplete

\* A flush begins with every fact staged and no location locked.
LEMMA AlertFlushes ==
    ASSUME at # "idle", AlertStaged, ~Done, at \notin {"flush", "skip_locked"},
           queue' = Rounds(values'), at' = "skip_locked", back' \in AlertPlaces, locked' = {},
           IsSeq(values)', fetched' \subseteq fetched \cup sources', sources \subseteq sources',
           ToSet(values) \subseteq ToSet(values'), due' \subseteq due \cup ToSet(values'),
           UNCHANGED <<row, facts, records, skipped>>
    PROVE  AlertComplete'
  <1>1. PICK r : r = Max({1, Len(values')})
    OBVIOUS
  <1>2. queue' = chunk_publications(values', AlertLocations, r)
    BY <1>1 DEF Rounds
  <1>3. /\ FactsLeft(queue') = ToSet(values') /\ SourcesLeft(queue') = CitedBy(values')
        /\ queue'.vals = values' /\ queue'.uncited = {}
    BY <1>2, ChunksHoldAll
  <1>4. StoredFacts = facts /\ StoredSources = records
    BY NothingQueuedStores DEF AlertStaged
  <1>5. StoredFacts' = facts \cup ToSet(values') /\ StoredSources' = records \cup CitedBy(values')
    BY <1>3 DEF StoredFacts, StoredSources
  <1>6. AlertOwed'
    BY <1>4, <1>5 DEF AlertStaged, AlertOwed
  <1>7. AlertRound'
    BY <1>3, <1>5 DEF AlertRound, CitedBy
  <1>8. ~Done'
    BY DEF Done
  <1> QED BY <1>6, <1>7, <1>8 DEF AlertComplete, AlertStaged

\* The staged notices go to the queue.
LEMMA AlertBatches ==
    ASSUME AlertComplete, FlushNotices \/ EndOffices
    PROVE  AlertComplete'
  <1>1. /\ at \in {"notices", "offices"} /\ at' = "skip_locked" /\ back' \in AlertPlaces
        /\ locked' = {} /\ queue' = Rounds(values)
        /\ UNCHANGED <<row, sources, values, facts, records, due, fetched, skipped>>
    BY DEF FlushNotices, EndOffices, BeginAlertFlush, AlertPlaces
  <1>2. queue' = Rounds(values')
    BY <1>1 DEF Rounds
  <1>3. at # "idle" /\ AlertStaged /\ ~Done /\ IsSeq(values)'
    BY <1>1 DEF AlertComplete, AlertStaged
  <1> QED BY <1>1, <1>2, <1>3, AlertFlushes

\* A notice reaches one location after the other.
LEMMA AlertFans ==
    ASSUME AlertComplete, FanNotice
    PROVE  AlertComplete'
  <1>1. PICK f : f = Fact(notice, Head(fan), 1)
    OBVIOUS
  <1>2. /\ at = "fan" /\ sources' = sources \cup {notice} /\ values' = Append(values, f)
        /\ due' = due \cup {f} /\ UNCHANGED <<row, facts, records, fetched, skipped>>
        /\ \/ queue' = Rounds(values') /\ back' = "fan" /\ at' = "skip_locked" /\ locked' = {}
           \/ UNCHANGED <<queue, back, at>>
    BY <1>1 DEF FanNotice
  <1>3. at # "idle" /\ AlertStaged /\ ~Done
    BY <1>2 DEF AlertComplete
  <1>4. IsSeq(values)' /\ ToSet(values') = ToSet(values) \cup {f}
    BY <1>2, <1>3, AppendedSeq DEF AlertStaged
  <1>5. CASE queue' = Rounds(values') /\ back' = "fan" /\ at' = "skip_locked" /\ locked' = {}
    BY <1>2, <1>3, <1>4, <1>5, AlertFlushes DEF AlertPlaces
  <1>6. CASE UNCHANGED <<queue, back, at>>
    <2>1. StoredFacts' = StoredFacts /\ StoredSources' = StoredSources
      BY <1>2, <1>6 DEF StoredFacts, StoredSources
    <2>2. AlertOwed'
      BY <1>2, <1>3, <1>4, <2>1 DEF AlertStaged, AlertOwed
    <2>3. ~Done'
      BY <1>2, <1>3 DEF Done
    <2> QED BY <1>2, <1>3, <1>4, <1>6, <2>2, <2>3 DEF AlertComplete, AlertStaged
  <1> QED BY <1>2, <1>5, <1>6

\* A location whose lock was not got is remembered.
LEMMA AlertSkips ==
    ASSUME AlertComplete, IsQueue(queue), SkipLocked
    PROVE  AlertComplete'
  <1>1. at = "skip_locked" /\ UNCHANGED <<row, at, sources, values, back, due, fetched, skipped>>
    BY DEF SkipLocked
  <1>2. AlertStaged /\ AlertRound /\ ~Done
    BY <1>1 DEF AlertComplete, AlertStaged
  <1>3. /\ queue'.vals = queue.vals /\ queue'.uncited = queue.uncited
        /\ StoredSources \subseteq StoredSources' /\ facts \subseteq facts'
        /\ \A f \in StoredFacts : f \in StoredFacts' \/ f.loc \in locked'
        /\ locked \subseteq locked'
    BY SkipMoves
  <1>4. \A f \in StoredFacts : f \in facts' \/ f \in ToSet(values)
    BY <1>2, <1>3 DEF StoredFacts, FactsLeft, AlertRound
  <1>5. facts' \subseteq StoredFacts'
    BY DEF StoredFacts
  <1>6. AlertOwed'
    BY <1>1, <1>2, <1>3, <1>4, <1>5 DEF AlertStaged, AlertOwed
  <1>7. AlertRound'
    BY <1>1, <1>2, <1>3 DEF AlertRound, CitedBy
  <1>8. ~Done'
    BY <1>1, <1>2 DEF Done
  <1> QED BY <1>1, <1>2, <1>6, <1>7, <1>8 DEF AlertComplete, AlertStaged

\* The locked locations are tried again.
LEMMA AlertTriesAgain ==
    ASSUME AlertComplete, IsQueue(queue), NextRound
    PROVE  AlertComplete'
  <1>1. at = "skip_locked" /\ queue.left = {} /\ locked' = {}
        /\ UNCHANGED <<row, at, sources, values, back, facts, records, due, fetched, skipped>>
    BY DEF NextRound
  <1>2. AlertStaged /\ AlertRound /\ ~Done
    BY <1>1 DEF AlertComplete, AlertStaged
  <1>3. PICK r : r = Max({1, Len(values)})
    OBVIOUS
  <1>4. queue' = [chunk_publications(values, AlertLocations, r) EXCEPT !.left = locked]
    BY <1>3 DEF NextRound, Rounds
  <1>5. /\ queue'.vals = values /\ queue'.uncited = {}
        /\ \A v : v \in FactsLeft(queue') <=> v \in ToSet(values) /\ v.loc \in locked
    <2>1. PICK q, vals, l : q = queue' /\ vals = values /\ l = locked
      OBVIOUS
    <2>2. q = [chunk_publications(vals, AlertLocations, r) EXCEPT !.left = l]
      BY <1>4, <2>1
    <2>3. /\ q.vals = vals /\ q.uncited = {}
          /\ \A v : v \in FactsLeft(q) <=> v \in ToSet(vals) /\ v.loc \in l
      <3>1. q = [vals |-> vals, left |-> l, most |-> AlertLocations, room |-> r, uncited |-> {}]
        BY <2>2 DEF chunk_publications
      <3>2. q.vals = vals /\ q.left = l /\ q.uncited = {}
        BY <3>1
      <3> QED BY <3>2 DEF FactsLeft
    <2> QED BY <2>1, <2>3
  <1>6. StoredFacts = facts /\ StoredSources = records
    BY <1>1, <1>2 DEF StoredFacts, StoredSources, FactsLeft, SourcesLeft, AlertRound
  <1>7. facts \subseteq StoredFacts' /\ records \subseteq StoredSources'
    BY <1>1 DEF StoredFacts, StoredSources
  <1>8. AlertOwed'
    BY <1>1, <1>2, <1>6, <1>7 DEF AlertStaged, AlertOwed
  <1>9. \A v \in ToSet(values) : v \in StoredFacts'
    BY <1>1, <1>2, <1>5, <1>6 DEF AlertRound, StoredFacts
  <1>10. AlertRound'
    BY <1>1, <1>2, <1>5, <1>6, <1>7, <1>9 DEF AlertRound, CitedBy
  <1>11. ~Done'
    BY <1>1, <1>2 DEF Done
  <1> QED BY <1>1, <1>2, <1>8, <1>10, <1>11 DEF AlertComplete, AlertStaged

\* The rounds are over: what is still locked counts as skipped.
LEMMA AlertEndsRounds ==
    ASSUME AlertComplete, EndRounds
    PROVE  AlertComplete'
  <1>1. at = "skip_locked" /\ at' = "flush" /\ queue.left = {} /\ skipped' = skipped \cup locked
        /\ queue' = SourcesOnly(uncited_sources(sources, values))
        /\ UNCHANGED <<row, sources, values, back, facts, records, due, fetched>>
    BY DEF EndRounds
  <1>2. AlertStaged /\ AlertRound /\ ~Done
    BY <1>1 DEF AlertComplete, AlertStaged
  <1>3. PICK u : u = uncited_sources(sources, values)
    OBVIOUS
  <1>4. FactsLeft(queue') = {} /\ SourcesLeft(queue') = u
    BY <1>1, <1>3, EmptyFlush
  <1>5. StoredFacts = facts /\ StoredSources = records
    BY <1>1, <1>2 DEF StoredFacts, StoredSources, FactsLeft, SourcesLeft, AlertRound
  <1>6. StoredFacts' = facts /\ StoredSources' = records \cup u
    BY <1>1, <1>4 DEF StoredFacts, StoredSources
  <1>7. AlertOwed'
    BY <1>1, <1>2, <1>5, <1>6 DEF AlertStaged, AlertOwed
  <1>8. AlertFlushed'
    BY <1>1, <1>2, <1>3, <1>5, <1>6 DEF AlertRound, AlertFlushed, uncited_sources
  <1>9. ~Done'
    BY <1>1, <1>2 DEF Done
  <1> QED BY <1>1, <1>2, <1>7, <1>8, <1>9 DEF AlertComplete, AlertStaged

\* The transactions of the queue.
LEMMA AlertShares ==
    ASSUME AlertComplete, IsQueue(queue), AlertShared
    PROVE  AlertComplete'
  <1>1. UNCHANGED <<row, due, fetched, skipped, back>> /\ at \in {"flush", "fanout"}
    BY DEF AlertShared, alertVars, PublishChunk, EndFlush
  <1>2. AlertStaged /\ at = "flush" /\ AlertFlushed /\ ~Done
    BY <1>1 DEF AlertComplete, AlertStaged
  <1>3. ~Done'
    BY <1>1, <1>2 DEF Done
  <1>4. CASE PublishChunk
    <2>1. StoredFacts \subseteq StoredFacts' /\ StoredSources \subseteq StoredSources'
      BY <1>4, ChunkMoves
    <2>2. UNCHANGED <<at, sources, values>>
      BY <1>4 DEF PublishChunk
    <2>3. AlertOwed' /\ AlertFlushed'
      BY <1>1, <1>2, <2>1, <2>2 DEF AlertStaged, AlertOwed, AlertFlushed
    <2> QED BY <1>2, <1>3, <2>2, <2>3 DEF AlertComplete, AlertStaged
  <1>5. CASE EndFlush
    <2>1. StoredFacts' = StoredFacts /\ StoredSources' = StoredSources
      BY <1>5, DrainedStores DEF EndFlush
    <2>2. at' = back /\ sources' = {} /\ values' = <<>> /\ queue' = NothingQueued
      BY <1>5 DEF EndFlush
    <2>3. IsSeq(values)'
      BY <2>2, NothingInSeq
    <2>4. AlertOwed'
      BY <1>1, <1>2, <2>1, <2>2 DEF AlertStaged, AlertOwed, AlertFlushed
    <2>5. at' \in AlertPlaces
      BY <1>2, <2>2 DEF AlertFlushed
    <2> QED BY <1>3, <2>2, <2>3, <2>4, <2>5 DEF AlertComplete, AlertStaged, AlertPlaces
  <1> QED BY <1>4, <1>5 DEF AlertShared

\* The end: the note names every location that was skipped.
LEMMA AlertFinishes ==
    ASSUME AlertComplete, FinishAlerts
    PROVE  AlertComplete'
  <1>1. /\ at = "assess" /\ at' = "idle" /\ note' = skipped /\ records \subseteq records'
        /\ UNCHANGED <<facts, due, fetched>>
    BY DEF FinishAlerts, Complete
  <1>2. AlertStaged /\ values = <<>> /\ sources = {} /\ queue = NothingQueued
    BY <1>1 DEF AlertComplete, AlertStaged
  <1>3. StoredFacts = facts /\ StoredSources = records
    BY <1>2, NothingQueuedStores
  <1>4. ToSet(values) = {}
    BY <1>2, NothingInSeq
  <1>5. AlertWhole'
    BY <1>1, <1>2, <1>3, <1>4 DEF AlertStaged, AlertOwed, AlertWhole
  <1> QED BY <1>1, <1>5 DEF AlertComplete

\* A failed run does not end well.
LEMMA AlertRaises ==
    ASSUME AlertComplete, RaiseAlerts \/ FailSkipped
    PROVE  AlertComplete'
  BY DEF RaiseAlerts, FailSkipped, Fail, Alive, Done, AlertComplete

\* Every step of the worker.
LEMMA AlertWorks ==
    ASSUME AlertComplete, IsQueue(queue), AlertWorker
    PROVE  AlertComplete'
  BY AlertTurns, AlertNotices, AlertBatches, AlertFans, AlertSkips, AlertTriesAgain,
     AlertEndsRounds, AlertShares, AlertFinishes, AlertRaises DEF AlertWorker

\* Steps of other processes, and of other jobs.
LEMMA AlertAmongOthers ==
    ASSUME AlertComplete,
           \/ (SkipOverlap \/ Reap \/ Crash \/ Recover) /\ UNCHANGED alertVars
           \/ UNCHANGED <<runVars, alertVars>>
    PROVE  AlertComplete'
  <1>1. /\ UNCHANGED <<facts, records, due, fetched, locked, skipped, note>>
        /\ row' = row \/ (~Done /\ ~Done')
        /\ at' = "idle" \/ UNCHANGED <<at, back, runData>>
    BY OthersStoreNothing DEF alertVars, runVars, runData
  <1>2. Done' => Done /\ at = "idle" /\ AlertWhole'
    BY <1>1 DEF AlertComplete, Done, AlertWhole
  <1>3. CASE at' = "idle"
    BY <1>2, <1>3 DEF AlertComplete
  <1>4. CASE UNCHANGED <<at, back, runData>>
    <2>1. StoredFacts' = StoredFacts /\ StoredSources' = StoredSources
      BY <1>4 DEF runData, StoredFacts, StoredSources
    <2>2. AlertStaged => AlertStaged'
      BY <1>1, <1>4, <2>1 DEF runData, AlertStaged, AlertOwed, AlertRound, AlertFlushed, CitedBy, IsSeq
    <2> QED BY <1>2, <1>4, <2>2 DEF AlertComplete
  <1> QED BY <1>1, <1>3, <1>4

-----------------------------------------------------------------------------
(***************************************************************************)
(* A regional job.                                                         *)
(***************************************************************************)
RegionalPlaces == {"roster", "ask", "record", "flush", "fanout", "sealed", "finish"}

RegionalStaged ==
    /\ at \in RegionalPlaces
    /\ todo \in Seq(Record)
    /\ at \in {"fanout", "sealed"} => todo # <<>>
    /\ IsSeq(values)
    /\ values = <<>> => sources = {}
    /\ Owed
    /\ at \notin {"flush", "fanout"} => queue = NothingQueued
    /\ at = "flush" => back = "record" /\ Flushed
    /\ at = "fanout" => back = "sealed"
    /\ at = "finish" => values = <<>>

RegionalComplete ==
    /\ Done => at = "idle" /\ Whole
    /\ at # "idle" => RegionalStaged

\* A start owes nothing.
LEMMA StartRegionalComplete ==
    ASSUME StartStations, job \in RegionalJobs
    PROVE  RegionalComplete'
  <1>1. job \notin AirKoreaJobs
    BY DEF RegionalJobs, RegionalExports, AirKoreaJobs
  <1>2. PICK next : next = "roster"
    OBVIOUS
  <1>3. Start(next)
    BY <1>1, <1>2 DEF StartStations
  <1>4. /\ Owed' /\ ~Done' /\ IsSeq(values)' /\ at' = next /\ queue' = NothingQueued
        /\ sources' = {} /\ values' = <<>>
    BY <1>3, StartOwesNothing
  <1>5. todo' \in Seq(Record)
    BY DEF StartStations, ForgetStations
  <1> QED BY <1>2, <1>4, <1>5 DEF RegionalComplete, RegionalStaged, RegionalPlaces

\* Steps that touch neither the run's data nor its row.
LEMMA RegionalMovesOn ==
    ASSUME RegionalComplete, at \in RegionalPlaces \ {"flush", "fanout"},
           at' \in RegionalPlaces \ {"flush", "fanout", "sealed"}, todo' \in Seq(Record),
           at' = "finish" => values = <<>>,
           UNCHANGED <<runData, row>>
    PROVE  RegionalComplete'
  <1>1. RegionalStaged /\ queue = NothingQueued /\ ~Done
    BY DEF RegionalComplete, RegionalStaged, RegionalPlaces
  <1>2. Owed'
    BY <1>1, QuietOwes DEF RegionalStaged
  <1>3. UNCHANGED <<values, sources, queue>> /\ ~Done'
    BY <1>1 DEF runData, Done
  <1> QED BY <1>1, <1>2, <1>3 DEF RegionalComplete, RegionalStaged

\* Preparing, asking and passing over records stages nothing.
LEMMA RegionalAsks ==
    ASSUME RegionalComplete, PrepareRoster \/ AskRegional \/ SkipRecord \/ Truncate \/ SealRecord
    PROVE  RegionalComplete'
  <1>1. at \in {"roster", "ask", "record", "sealed"} /\ at' \in {"ask", "record"}
        /\ UNCHANGED <<runData, row>>
    BY DEF PrepareRoster, AskRegional, SkipRecord, Truncate, SealRecord, runData, runVars
  <1>2. todo' \in Seq(Record)
    <2>1. todo \in Seq(Record) /\ (at = "sealed" => todo # <<>>)
      BY <1>1 DEF RegionalComplete, RegionalStaged
    <2>2. CASE PrepareRoster
      BY <2>1, <2>2 DEF PrepareRoster
    <2>3. CASE AskRegional
      BY <2>3, RecordsAsked
    <2>4. CASE SkipRecord \/ SealRecord
      <3>1. todo # <<>> /\ todo' = Tail(todo)
        BY <2>1, <2>4 DEF SkipRecord, SealRecord
      <3> QED BY <2>1, <3>1
    <2>5. CASE Truncate
      BY <2>5 DEF Truncate
    <2> QED BY <2>2, <2>3, <2>4, <2>5
  <1> QED BY <1>1, <1>2, RegionalMovesOn DEF RegionalPlaces

\* A record's facts: at least one, all of its source.
LEMMA FactsOfRecord ==
    ASSUME todo \in Seq(Record), todo # <<>>, Usable
    PROVE  IsSeq(RecFacts) /\ ToSet(RecFacts) # {}
  <1>1. Rec \in Record
    BY DEF Rec
  <1>2. PICK n \in Nat : n = Rec.n /\ n > 0
    BY <1>1, StationAssumption DEF Record, Usable
  <1>3. PICK locs : locs = LocsOf[Rec.station]
    OBVIOUS
  <1>4. Len(locs) = 1
    BY <1>1, <1>3, StationAssumption DEF Record
  <1>5. PICK src : src = <<Rec.station, Rec.time>>
    OBVIOUS
  <1>6. RecFacts = FactsOf(src, locs, n)
    BY <1>2, <1>3, <1>5 DEF RecFacts
  <1>7. IsSeq(RecFacts) /\ DOMAIN RecFacts = 1 .. n
    BY <1>4, <1>6, FactsOfOneLocation
  <1>8. 1 \in DOMAIN RecFacts
    BY <1>2, <1>7
  <1> QED BY <1>7, <1>8 DEF ToSet

\* A record's facts join the batch with their source.
LEMMA RegionalStages ==
    ASSUME RegionalComplete, StageRecord
    PROVE  RegionalComplete'
  <1>1. PICK new : new = RecFacts
    OBVIOUS
  <1>2. /\ at = "record" /\ at' = at /\ todo # <<>> /\ Usable /\ todo' = Tail(todo)
        /\ sources' = sources \cup CitedBy(new) /\ values' = values \o new
        /\ due' = due \cup ToSet(new) /\ fetched' = fetched \cup CitedBy(new)
        /\ UNCHANGED <<row, queue, facts, records>>
    BY <1>1 DEF StageRecord
  <1>3. RegionalStaged /\ queue = NothingQueued /\ ~Done
    BY <1>2 DEF RegionalComplete, RegionalStaged
  <1>4. IsSeq(new) /\ ToSet(new) # {}
    BY <1>1, <1>2, <1>3, FactsOfRecord DEF RegionalStaged
  <1>5. IsSeq(values)' /\ ToSet(values') = ToSet(values) \cup ToSet(new)
    BY <1>2, <1>3, <1>4, JoinedSeq DEF RegionalStaged
  <1>6. values' # <<>>
    BY <1>4, <1>5, NothingInSeq
  <1>7. todo' \in Seq(Record)
    <2>1. todo \in Seq(Record)
      BY <1>3 DEF RegionalStaged
    <2> QED BY <1>2, <2>1
  <1>8. StoredFacts' = StoredFacts /\ StoredSources' = StoredSources
    BY <1>2 DEF StoredFacts, StoredSources
  <1>9. Owed'
    BY <1>2, <1>3, <1>5, <1>8 DEF RegionalStaged, Owed
  <1>10. ~Done'
    BY <1>2, <1>3 DEF Done
  <1> QED BY <1>2, <1>3, <1>5, <1>6, <1>7, <1>9, <1>10 DEF RegionalComplete, RegionalStaged, RegionalPlaces

\* What is staged is published before a capture, and at the end.
LEMMA RegionalFlushes ==
    ASSUME RegionalComplete, at = "record", at' = "flush", back' = "record",
           queue' = AtOnce(sources, values),
           UNCHANGED <<row, sources, values, facts, records, due, fetched, todo>>
    PROVE  RegionalComplete'
  <1>1. RegionalStaged /\ queue = NothingQueued /\ ~Done
    BY DEF RegionalComplete, RegionalStaged
  <1>2. PICK m, r : m = Max({1, Len(values)}) /\ r = Len(values)
    OBVIOUS
  <1>3. queue' = [chunk_publications(values, m, r) EXCEPT !.uncited = uncited_sources(sources, values)]
    BY <1>2 DEF AtOnce
  <1>4. Owed' /\ Flushed'
    BY <1>1, <1>3, FlushOwes DEF RegionalStaged
  <1>5. ~Done' /\ IsSeq(values)' /\ todo' \in Seq(Record)
    BY <1>1 DEF Done, RegionalStaged
  <1> QED BY <1>1, <1>4, <1>5 DEF RegionalComplete, RegionalStaged, RegionalPlaces

\* The batch goes to the queue.
LEMMA RegionalEnds ==
    ASSUME RegionalComplete, FlushRecords \/ EndRecords
    PROVE  RegionalComplete'
  <1>1. at = "record" /\ UNCHANGED <<row, sources, values, facts, records, due, fetched, todo>>
    BY DEF FlushRecords, EndRecords, stationVars
  <1>2. CASE BeginFlush(AtOnce(sources, values), "record")
    BY <1>1, <1>2, RegionalFlushes DEF BeginFlush
  <1>3. CASE values = <<>> /\ at' = "finish" /\ UNCHANGED queue
    <2>1. todo' \in Seq(Record)
      BY <1>1 DEF RegionalComplete, RegionalStaged
    <2> QED BY <1>1, <1>3, <2>1, RegionalMovesOn DEF RegionalPlaces, runData
  <1> QED BY <1>2, <1>3 DEF FlushRecords, EndRecords

\* A record of an exported station is queued on its own.
LEMMA RegionalCaptures ==
    ASSUME RegionalComplete, CaptureRecord
    PROVE  RegionalComplete'
  <1>1. PICK new, srcs : new = RecFacts /\ srcs = CitedBy(RecFacts)
    OBVIOUS
  <1>2. /\ at = "record" /\ at' = "fanout" /\ back' = "sealed" /\ todo # <<>> /\ values = <<>>
        /\ queue' = AtOnce(srcs, new) /\ due' = due \cup ToSet(new) /\ fetched' = fetched \cup srcs
        /\ UNCHANGED <<row, sources, values, facts, records, todo>>
    BY <1>1 DEF CaptureRecord, BeginFanout, stationVars
  <1>3. RegionalStaged /\ queue = NothingQueued /\ ~Done
    BY <1>2 DEF RegionalComplete, RegionalStaged
  <1>4. PICK m, r, u : m = Max({1, Len(new)}) /\ r = Len(new) /\ u = uncited_sources(srcs, new)
    OBVIOUS
  <1>5. queue' = [chunk_publications(new, m, r) EXCEPT !.uncited = u]
    BY <1>2, <1>4 DEF AtOnce
  <1>6. srcs \subseteq CitedBy(new) \cup u
    BY <1>1
  <1>7. Owed'
    BY <1>2, <1>3, <1>5, <1>6, FanoutOwes DEF RegionalStaged
  <1>8. ~Done' /\ IsSeq(values)' /\ todo' \in Seq(Record)
    BY <1>2, <1>3 DEF Done, RegionalStaged
  <1> QED BY <1>2, <1>3, <1>7, <1>8 DEF RegionalComplete, RegionalStaged, RegionalPlaces

\* The transactions of the queue.
LEMMA RegionalShares ==
    ASSUME RegionalComplete, IsQueue(queue), StationShared
    PROVE  RegionalComplete'
  <1>1. UNCHANGED todo /\ at \in {"flush", "fanout"} /\ row' = row
    BY DEF StationShared, stationVars, PublishChunk, EndFlush, EndFanout
  <1>2. RegionalStaged /\ ~Done /\ ~Done' /\ todo' \in Seq(Record)
    BY <1>1 DEF RegionalComplete, RegionalStaged, Done
  <1>3. CASE PublishChunk
    <2>1. /\ UNCHANGED <<row, at, sources, values, back, due, fetched>> /\ Owed'
          /\ Flushed => Flushed'
      BY <1>2, <1>3, ChunkOwes DEF RegionalStaged
    <2> QED BY <1>1, <1>2, <2>1 DEF RegionalComplete, RegionalStaged
  <1>4. CASE EndFlush
    <2>1. /\ at = "flush" /\ at' = "record" /\ Flushed
          /\ sources' = {} /\ values' = <<>> /\ queue' = NothingQueued
      BY <1>2, <1>4 DEF EndFlush, RegionalStaged
    <2>2. Owed'
      BY <1>2, <1>4, <2>1, EndFlushOwes DEF RegionalStaged
    <2>3. IsSeq(values)'
      BY <2>1, NothingInSeq
    <2> QED BY <1>2, <2>1, <2>2, <2>3 DEF RegionalComplete, RegionalStaged, RegionalPlaces
  <1>5. CASE EndFanout
    <2>1. /\ at = "fanout" /\ at' = "sealed" /\ todo # <<>>
          /\ UNCHANGED <<sources, values>> /\ queue' = NothingQueued
      BY <1>2, <1>5 DEF EndFanout, RegionalStaged
    <2>2. Owed'
      BY <1>2, <1>5, EndFanoutOwes DEF RegionalStaged
    <2> QED BY <1>1, <1>2, <2>1, <2>2 DEF RegionalComplete, RegionalStaged, RegionalPlaces
  <1> QED BY <1>3, <1>4, <1>5 DEF StationShared

\* The end of a run, with nothing staged.
LEMMA RegionalFinishes ==
    ASSUME RegionalComplete, FinishStations
    PROVE  RegionalComplete'
  <1>1. /\ at = "finish" /\ at' = "idle" /\ records \subseteq records'
        /\ UNCHANGED <<facts, due, fetched>>
    BY DEF FinishStations, Complete
  <1>2. RegionalStaged /\ queue = NothingQueued /\ values = <<>> /\ sources = {}
    BY <1>1 DEF RegionalComplete, RegionalStaged
  <1>3. StoredFacts = facts /\ StoredSources = records /\ ToSet(values) = {}
    BY <1>2, NothingQueuedStores, NothingInSeq
  <1>4. Whole'
    BY <1>1, <1>2, <1>3 DEF RegionalStaged, Owed, Whole
  <1> QED BY <1>1, <1>4 DEF RegionalComplete

\* A failed or empty run does not end well.
LEMMA RegionalRaises ==
    ASSUME RegionalComplete, SkipRegional \/ RaiseStations \/ Escape
    PROVE  RegionalComplete'
  BY DEF SkipRegional, RaiseStations, Escape, Fail, Alive, Done, RegionalComplete

\* Every step of the worker.
LEMMA RegionalWorks ==
    ASSUME RegionalComplete, IsQueue(queue), job \in RegionalJobs, StationWorker
    PROVE  RegionalComplete'
  <1>1. job \notin AirKoreaJobs
    BY DEF RegionalJobs, RegionalExports, AirKoreaJobs
  <1>2. at = "idle" \/ at \in RegionalPlaces
    BY DEF RegionalComplete, RegionalStaged
  <1>3. at \notin {"catalog", "catalog_end", "measure", "request", "capture"}
    BY <1>2 DEF RegionalPlaces
  <1>4. ~(FetchCatalog \/ FinishCatalog \/ StartMeasurements \/ MeasureGroup \/ OverBudget
            \/ EndMeasurements \/ CaptureStation \/ SealStation \/ RejectUncovered)
    BY <1>1, <1>3 DEF FetchCatalog, FinishCatalog, StartMeasurements, MeasureGroup, OverBudget,
         EndMeasurements, CaptureStation, SealStation, RejectUncovered
  <1> QED BY <1>4, RegionalAsks, RegionalStages, RegionalEnds, RegionalCaptures, RegionalShares,
           RegionalFinishes, RegionalRaises DEF StationWorker

\* Steps of other processes, and of other jobs.
LEMMA RegionalAmongOthers ==
    ASSUME RegionalComplete,
           \/ (SkipOverlap \/ Reap \/ Crash \/ Recover) /\ UNCHANGED stationVars
           \/ UNCHANGED <<runVars, stationVars>>
    PROVE  RegionalComplete'
  <1>1. /\ UNCHANGED <<facts, records, due, fetched, todo>>
        /\ row' = row \/ (~Done /\ ~Done')
        /\ at' = "idle" \/ UNCHANGED <<at, back, runData>>
    BY OthersStoreNothing DEF stationVars, runVars, runData
  <1>2. Done' => Done /\ at = "idle" /\ Whole'
    BY <1>1 DEF RegionalComplete, Done, Whole
  <1>3. CASE at' = "idle"
    BY <1>2, <1>3 DEF RegionalComplete
  <1>4. CASE UNCHANGED <<at, back, runData>>
    <2>1. StoredFacts' = StoredFacts /\ StoredSources' = StoredSources
      BY <1>4 DEF runData, StoredFacts, StoredSources
    <2>2. RegionalStaged => RegionalStaged'
      BY <1>1, <1>4, <2>1 DEF runData, RegionalStaged, Owed, Flushed, IsSeq
    <2> QED BY <1>2, <1>4, <2>2 DEF RegionalComplete
  <1> QED BY <1>1, <1>3, <1>4

-----------------------------------------------------------------------------
(***************************************************************************)
(* An AirKorea job.                                                        *)
(***************************************************************************)
CatalogPlaces == {"catalog", "catalog_end", "measure"}
AirKoreaPlaces == CatalogPlaces \cup {"request", "capture", "fanout", "sealed", "finish"}

\* A station's record and facts are stored or in the queue.
Sent(src) == src \in StoredSources /\ \A v \in ToSet(values) : v.src = src => v \in StoredFacts
SentUnlessIn(list) == \A src \in sources : Sent(src) \/ src \in ToSet(list)

ExportStaged ==
    /\ at = "capture" => SentUnlessIn(todo)
    /\ at \in {"fanout", "sealed"} => todo # <<>> /\ SentUnlessIn(Tail(todo))
    /\ at = "fanout" => back = "sealed"
    /\ at = "finish" => Flushed

PlainStaged ==
    /\ at \notin {"capture", "sealed"}
    /\ at = "fanout" => back = "finish"
    /\ at \in {"fanout", "finish"} => Published

AirKoreaStaged ==
    /\ at \in AirKoreaPlaces
    /\ active \subseteq Stations
    /\ at = "request" => todo \in Seq(SUBSET Stations)
    /\ at \notin CatalogPlaces => IsSeq(todo)
    /\ IsSeq(values)
    /\ sources \subseteq Stations \X {1}
    /\ CitedBy(values) \subseteq sources
    /\ IF at \in CatalogPlaces THEN due = {} /\ values = <<>> /\ sources = {} ELSE Owed
    /\ at # "fanout" => queue = NothingQueued
    /\ IF Exports THEN ExportStaged ELSE PlainStaged

AirKoreaComplete ==
    /\ Done => at \in {"idle", "measure"} /\ Whole
    /\ at # "idle" => AirKoreaStaged

\* A start owes nothing.
LEMMA StartAirKoreaComplete ==
    ASSUME StartStations, job \in AirKoreaJobs
    PROVE  AirKoreaComplete'
  <1>1. PICK next : next = "catalog"
    OBVIOUS
  <1>2. Start(next)
    BY <1>1 DEF StartStations
  <1>3. /\ Owed' /\ ~Done' /\ IsSeq(values)' /\ at' = next /\ queue' = NothingQueued
        /\ sources' = {} /\ values' = <<>> /\ due' = {}
    BY <1>2, StartOwesNothing
  <1>4. CitedBy(values') = {}
    BY <1>3, NothingInSeq
  <1>5. active' = {}
    BY DEF StartStations, ForgetStations
  <1> QED BY <1>1, <1>3, <1>4, <1>5 DEF AirKoreaComplete, AirKoreaStaged, AirKoreaPlaces,
             CatalogPlaces, ExportStaged, PlainStaged

\* The list of stations, and the run that stores it.
LEMMA AirKoreaCatalog ==
    ASSUME AirKoreaComplete, FetchCatalog \/ FinishCatalog
    PROVE  AirKoreaComplete'
  <1>1. /\ at \in {"catalog", "catalog_end"} /\ at' \in {"catalog_end", "measure"}
        /\ UNCHANGED <<job, sources, values, queue, facts, due>>
        /\ active' \subseteq Stations \/ active' = active
    BY DEF FetchCatalog, FinishCatalog, stationVars
  <1>2. AirKoreaStaged /\ due = {} /\ values = <<>> /\ sources = {} /\ queue = NothingQueued /\ ~Done
    BY <1>1 DEF AirKoreaComplete, AirKoreaStaged, CatalogPlaces
  <1>3. CitedBy(values') = {} /\ IsSeq(values)'
    BY <1>1, <1>2, NothingInSeq
  <1>4. AirKoreaStaged'
    BY <1>1, <1>2, <1>3 DEF AirKoreaStaged, AirKoreaPlaces, CatalogPlaces, ExportStaged,
       PlainStaged, Exports
  <1>5. CASE FetchCatalog
    <2>1. ~Done'
      BY <1>2, <1>5 DEF FetchCatalog, Done
    <2> QED BY <1>4, <2>1 DEF AirKoreaComplete
  <1>6. CASE FinishCatalog
    <2>1. at' = "measure" /\ fetched' = fetched /\ records' = records \cup fetched
      BY <1>6 DEF FinishCatalog
    <2>2. Whole'
      BY <1>1, <1>2, <2>1 DEF Whole
    <2> QED BY <1>4, <2>1, <2>2 DEF AirKoreaComplete
  <1> QED BY <1>5, <1>6

\* The requests of the second run.
LEMMA RequestsAreForStations ==
    ASSUME NEW S \in SUBSET Stations
    PROVE  RequestsFor(S) \in Seq(SUBSET Stations)
  <1>1. IsFiniteSet(SUBSET Stations)
    BY StationAssumption, FS_SUBSET
  <1>2. PICK A, B : /\ A = {{s \in S : SidoOf[s] = d} : d \in Sidos(S)}
                    /\ B = {{s} : s \in {s \in S : SidoOf[s] = "none"}}
    OBVIOUS
  <1>3. A \in SUBSET SUBSET Stations /\ B \in SUBSET SUBSET Stations
    BY <1>2
  <1>4. IsFiniteSet(A) /\ IsFiniteSet(B)
    BY <1>1, <1>3, FS_Subset
  <1>5. SetToSeq(A) \in Seq(A) /\ SetToSeq(B) \in Seq(B)
    BY <1>4, ListedSet
  <1>6. PICK a, b : a = SetToSeq(A) /\ b = SetToSeq(B)
    OBVIOUS
  <1>7. a \in Seq(SUBSET Stations) /\ b \in Seq(SUBSET Stations)
    BY <1>3, <1>5, <1>6
  <1>8. RequestsFor(S) = a \o b
    BY <1>2, <1>6 DEF RequestsFor
  <1> QED BY <1>7, <1>8

\* The second run of the job begins with nothing owed.
LEMMA AirKoreaBegins ==
    ASSUME AirKoreaComplete, StartMeasurements
    PROVE  AirKoreaComplete'
  <1>1. /\ at = "measure" /\ at' = "request" /\ row' = "running" /\ fetched' = {}
        /\ todo' = RequestsFor(active)
        /\ UNCHANGED <<job, sources, values, queue, facts, due, active>>
    BY DEF StartMeasurements
  <1>2. AirKoreaStaged /\ due = {} /\ values = <<>> /\ sources = {} /\ queue = NothingQueued
    BY <1>1 DEF AirKoreaComplete, AirKoreaStaged, CatalogPlaces
  <1>3. todo' \in Seq(SUBSET Stations)
    BY <1>1, <1>2, RequestsAreForStations DEF AirKoreaStaged
  <1>4. IsSeq(todo)'
    BY <1>3 DEF IsSeq
  <1>5. CitedBy(values') = {} /\ IsSeq(values)'
    BY <1>1, <1>2, NothingInSeq
  <1>6. Owed'
    BY <1>1, <1>2 DEF Owed
  <1>7. AirKoreaStaged'
    BY <1>1, <1>2, <1>3, <1>4, <1>5, <1>6 DEF AirKoreaStaged, AirKoreaPlaces, CatalogPlaces,
       ExportStaged, PlainStaged, Exports
  <1>8. ~Done'
    BY <1>1 DEF Done
  <1> QED BY <1>7, <1>8 DEF AirKoreaComplete

\* The k-th of n facts for each of c locations is of one of them.
LEMMA QuotientBelow ==
    ASSUME NEW n \in Nat, NEW c \in Nat, NEW k \in 1 .. n * c
    PROVE  ((k - 1) \div n) + 1 \in 1 .. c
  <1>1. n * c \in Nat /\ n # 0
    <2>1. n * c \in Nat
      OBVIOUS
    <2>2. n = 0 => n * c = 0
      OBVIOUS
    <2> QED BY <2>1, <2>2
  <1>2. PICK q, r : q = (k - 1) \div n /\ r = (k - 1) % n
    OBVIOUS
  <1>3. q \in Int /\ r \in 0 .. n - 1 /\ k - 1 = n * q + r
    BY <1>1, <1>2
  <1>4. q < c
    <2> SUFFICES ASSUME q >= c PROVE FALSE
      BY <1>3
    <2>1. n * q >= n * c
      BY <1>1, <1>3
    <2>2. n * q \in Int
      BY <1>3
    <2> QED BY <1>1, <1>3, <2>1, <2>2
  <1>5. q >= 0
    <2> SUFFICES ASSUME q <= -1 PROVE FALSE
      BY <1>3
    <2>1. n * q <= n * (-1)
      BY <1>1, <1>3
    <2>2. n * (-1) = -n /\ n * q \in Int
      BY <1>3
    <2> QED BY <1>1, <1>3, <2>1, <2>2
  <1> QED BY <1>2, <1>3, <1>4, <1>5

\* The facts of the stations a response identifies.
LEMMA FactsOfMeasurements ==
    ASSUME NEW S \in SUBSET Stations, NEW n \in Nat
    PROVE  IsSeq(Measurements(S, n)) /\ CitedBy(Measurements(S, n)) \subseteq {<<s, 1>> : s \in S}
  <1>1. IsFiniteSet(S)
    BY StationAssumption, FS_Subset
  <1>2. PICK c \in Nat : c = Cardinality(S)
    BY <1>1, FS_CardinalityType
  <1>3. PICK f : f = SetToSeq(S)
    OBVIOUS
  <1>4. f \in [1 .. c -> S]
    BY <1>1, <1>2, <1>3, ListedSet
  <1>5. PICK m \in Nat : m = n * c
    OBVIOUS
  <1>6. PICK s : s = Measurements(S, n)
    OBVIOUS
  <1>7. s = [k \in 1 .. m |-> Fact(<<f[((k - 1) \div n) + 1], 1>>, LocOf(f[((k - 1) \div n) + 1]),
                                   ((k - 1) % n) + 1)]
    BY <1>2, <1>3, <1>5, <1>6 DEF Measurements
  <1>8. PICK T : T = {s[k] : k \in 1 .. m}
    OBVIOUS
  <1>9. s \in [1 .. m -> T]
    BY <1>7, <1>8
  <1>10. s \in Seq(T)
    BY <1>9
  <1>11. ASSUME NEW k \in 1 .. m PROVE s[k].src \in {<<e, 1>> : e \in S}
    <2>1. PICK i \in 1 .. c : i = ((k - 1) \div n) + 1
      BY <1>5, QuotientBelow
    <2>2. s[k].src = <<f[i], 1>>
      BY <1>7, <2>1 DEF Fact
    <2>3. f[i] \in S
      BY <1>4
    <2> QED BY <2>2, <2>3
  <1>12. CitedBy(s) \subseteq {<<e, 1>> : e \in S}
    BY <1>9, <1>11 DEF CitedBy, ToSet
  <1> QED BY <1>6, <1>10, <1>12 DEF IsSeq

\* A group of measurements joins the batch.
LEMMA AirKoreaMeasures ==
    ASSUME AirKoreaComplete, MeasureGroup
    PROVE  AirKoreaComplete'
  <1>1. /\ at = "request" /\ at' = at /\ todo # <<>> /\ todo' = Tail(todo)
        /\ UNCHANGED <<job, row, queue, facts, records, active>>
    BY DEF MeasureGroup
  <1>2. AirKoreaStaged /\ Owed /\ queue = NothingQueued /\ ~Done /\ todo \in Seq(SUBSET Stations)
    BY <1>1 DEF AirKoreaComplete, AirKoreaStaged, CatalogPlaces
  <1>3. todo' \in Seq(SUBSET Stations) /\ Head(todo) \in SUBSET Stations
    BY <1>1, <1>2
  <1>4. IsSeq(todo)'
    BY <1>3 DEF IsSeq
  <1>5. StoredFacts' = StoredFacts /\ StoredSources' = StoredSources
    BY <1>1 DEF StoredFacts, StoredSources
  <1>6. /\ Owed' /\ IsSeq(values)' /\ sources' \subseteq Stations \X {1}
        /\ CitedBy(values') \subseteq sources'
    <2>1. ASSUME NEW covered \in SUBSET Head(todo), NEW n \in StationValues,
                 append_measurement(covered, n)
          PROVE  /\ Owed' /\ IsSeq(values)' /\ sources' \subseteq Stations \X {1}
                 /\ CitedBy(values') \subseteq sources'
      <3>1. PICK sure : sure = Sure(covered)
        OBVIOUS
      <3>2. sure \in SUBSET Stations /\ n \in Nat
        BY <1>3, <3>1, StationAssumption DEF Sure
      <3>3. PICK more, new : more = Measurements(sure, n) /\ new = {<<s, 1>> : s \in sure}
        OBVIOUS
      <3>4. IsSeq(more) /\ CitedBy(more) \subseteq new /\ new \subseteq Stations \X {1}
        BY <3>2, <3>3, FactsOfMeasurements
      <3>5. /\ sources' = sources \cup new /\ values' = values \o more
            /\ fetched' = fetched \cup new /\ due' = due \cup ToSet(more)
        BY <2>1, <3>1, <3>3 DEF append_measurement
      <3>6. IsSeq(values)' /\ ToSet(values') = ToSet(values) \cup ToSet(more)
        BY <1>2, <3>4, <3>5, JoinedSeq DEF AirKoreaStaged
      <3>7. CitedBy(values') = CitedBy(values) \cup CitedBy(more)
        BY <3>6 DEF CitedBy
      <3>8. Owed'
        BY <1>2, <1>5, <3>5, <3>6 DEF Owed
      <3> QED BY <1>2, <3>4, <3>5, <3>6, <3>7, <3>8 DEF AirKoreaStaged
    <2>2. CASE UNCHANGED <<sources, values, fetched, due>>
      BY <1>2, <1>5, <2>2 DEF AirKoreaStaged, Owed
    <2> QED BY <2>1, <2>2 DEF MeasureGroup
  <1>7. AirKoreaStaged'
    BY <1>1, <1>2, <1>3, <1>4, <1>6 DEF AirKoreaStaged, AirKoreaPlaces, CatalogPlaces,
       ExportStaged, PlainStaged, Exports
  <1>8. ~Done'
    BY <1>1, <1>2 DEF Done
  <1> QED BY <1>7, <1>8 DEF AirKoreaComplete

\* What is stored or queued stays so.
LEMMA SentStays ==
    ASSUME StoredFacts \subseteq StoredFacts', StoredSources \subseteq StoredSources',
           UNCHANGED <<sources, values>>, NEW t
    PROVE  SentUnlessIn(t) => \A src \in sources' : Sent(src)' \/ src \in ToSet(t)
  BY DEF SentUnlessIn, Sent

\* All groups are read: the facts go to the queue, or station by station.
LEMMA AirKoreaEndsMeasuring ==
    ASSUME AirKoreaComplete, EndMeasurements
    PROVE  AirKoreaComplete'
  <1>1. /\ at = "request" /\ UNCHANGED <<job, row, sources, values, facts, records, due, fetched, active>>
    BY DEF EndMeasurements
  <1>2. AirKoreaStaged /\ Owed /\ queue = NothingQueued /\ ~Done /\ Exports' = Exports
    BY <1>1 DEF AirKoreaComplete, AirKoreaStaged, CatalogPlaces, Exports
  <1>3. ~Done'
    BY <1>1, <1>2 DEF Done
  <1>4. IsSeq(values)' /\ CitedBy(values') \subseteq sources' /\ sources' \subseteq Stations \X {1}
        /\ active' \subseteq Stations
    BY <1>1, <1>2 DEF AirKoreaStaged
  <1>5. CASE Exports
    <2>1. at' = "capture" /\ queue' = queue /\ todo' = SetToSeq(sources)
      BY <1>5 DEF EndMeasurements
    <2>2. IsFiniteSet(sources)
      <3>1. IsFiniteSet({1})
        BY FS_Singleton
      <3>2. IsFiniteSet(Stations \X {1})
        BY <3>1, StationAssumption, FS_Product
      <3> QED BY <1>2, <3>2, FS_Subset DEF AirKoreaStaged
    <2>3. IsSeq(todo)' /\ ToSet(todo') = sources
      BY <2>1, <2>2, ListedSet DEF IsSeq
    <2>4. Owed'
      BY <1>1, <1>2, <2>1, QuietOwes DEF runData
    <2>5. SentUnlessIn(todo)'
      BY <1>1, <2>3 DEF SentUnlessIn
    <2>6. AirKoreaStaged'
      BY <1>2, <1>4, <1>5, <2>1, <2>3, <2>4, <2>5 DEF AirKoreaStaged, AirKoreaPlaces, CatalogPlaces,
         ExportStaged
    <2> QED BY <1>3, <2>6 DEF AirKoreaComplete
  <1>6. CASE ~Exports
    <2>1. /\ at' = "fanout" /\ back' = "finish" /\ todo' = <<>>
          /\ queue' = chunk_publications(values, PublishLocations, PublishValues)
      BY <1>6 DEF EndMeasurements, BeginFanout
    <2>2. Owed' /\ Published'
      BY <1>1, <1>2, <2>1, LastFlushOwes
    <2>3. IsSeq(todo)'
      BY <2>1, NothingInSeq
    <2>4. AirKoreaStaged'
      BY <1>2, <1>4, <1>6, <2>1, <2>2, <2>3 DEF AirKoreaStaged, AirKoreaPlaces, CatalogPlaces, PlainStaged
    <2> QED BY <1>3, <2>4 DEF AirKoreaComplete
  <1> QED BY <1>5, <1>6

\* A station's record and facts go to the queue.
LEMMA AirKoreaCaptures ==
    ASSUME AirKoreaComplete, CaptureStation
    PROVE  AirKoreaComplete'
  <1>1. PICK src : src = Head(todo)
    OBVIOUS
  <1>2. PICK own : own = {v \in ToSet(values) : v.src = src}
    OBVIOUS
  <1>3. PICK srcs, all : srcs = {src} /\ all = SetToSeq(own)
    OBVIOUS
  <1>4. /\ at = "capture" /\ at' = "fanout" /\ back' = "sealed" /\ todo # <<>>
        /\ queue' = AtOnce(srcs, all)
        /\ UNCHANGED <<job, row, sources, values, facts, records, due, fetched, active, todo>>
    BY <1>1, <1>2, <1>3 DEF CaptureStation, BeginFanout, stationVars
  <1>5. AirKoreaStaged /\ Owed /\ queue = NothingQueued /\ ~Done /\ Exports /\ Exports' = Exports
        /\ SentUnlessIn(todo) /\ IsSeq(todo)
    BY <1>4 DEF AirKoreaComplete, AirKoreaStaged, CatalogPlaces, Exports, PlainStaged, ExportStaged
  <1>6. ToSet(all) = own
    <2>1. IsFiniteSet(ToSet(values))
      BY <1>5, FiniteSeq DEF AirKoreaStaged
    <2>2. IsFiniteSet(own)
      BY <1>2, <2>1, FS_Subset
    <2> QED BY <1>3, <2>2, ListedSet
  <1>7. PICK m, r, u : m = Max({1, Len(all)}) /\ r = Len(all) /\ u = uncited_sources(srcs, all)
    OBVIOUS
  <1>8. queue' = [chunk_publications(all, m, r) EXCEPT !.uncited = u]
    BY <1>4, <1>7 DEF AtOnce
  <1>9. Owed'
    BY <1>4, <1>5, <1>8, FanoutOwes
  <1>10. FactsLeft(queue') = own /\ SourcesLeft(queue') = CitedBy(all) \cup u
    BY <1>6, <1>8, FlushHoldsAll
  <1>11. StoredFacts = facts /\ StoredSources = records
    BY <1>5, NothingQueuedStores
  <1>12. StoredFacts' = facts \cup own /\ StoredSources' = records \cup CitedBy(all) \cup u
    BY <1>4, <1>10 DEF StoredFacts, StoredSources
  <1>13. src \in CitedBy(all) \cup u
    BY <1>3, <1>7 DEF uncited_sources
  <1>14. Sent(src)'
    BY <1>2, <1>4, <1>12, <1>13 DEF Sent
  <1>15. ToSet(todo) = {src} \cup ToSet(Tail(todo)) /\ IsSeq(Tail(todo))
    BY <1>1, <1>4, <1>5, HeadAndTail
  <1>16. SentUnlessIn(Tail(todo))'
    <2>1. \A s \in sources' : Sent(s)' \/ s \in ToSet(todo)
      BY <1>4, <1>5, <1>11, <1>12, SentStays
    <2> QED BY <1>4, <1>14, <1>15, <2>1 DEF SentUnlessIn
  <1>17. AirKoreaStaged'
    BY <1>4, <1>5, <1>9, <1>16 DEF AirKoreaStaged, AirKoreaPlaces, CatalogPlaces, ExportStaged
  <1>18. ~Done'
    BY <1>4, <1>5 DEF Done
  <1> QED BY <1>17, <1>18 DEF AirKoreaComplete

\* A station is sealed, and after the last one all is stored.
LEMMA AirKoreaSeals ==
    ASSUME AirKoreaComplete, SealStation \/ RejectUncovered
    PROVE  AirKoreaComplete'
  <1>1. /\ at \in {"sealed", "capture"}
        /\ UNCHANGED <<job, row, sources, values, queue, facts, records, due, fetched, active>>
        /\ \/ at = "sealed" /\ at' = "capture" /\ todo' = Tail(todo)
           \/ at = "capture" /\ at' = "finish" /\ todo' = todo /\ todo = <<>>
    BY DEF SealStation, RejectUncovered, stationVars
  <1>2. AirKoreaStaged /\ Owed /\ queue = NothingQueued /\ ~Done /\ Exports /\ Exports' = Exports
        /\ ExportStaged /\ IsSeq(todo)
    BY <1>1 DEF AirKoreaComplete, AirKoreaStaged, CatalogPlaces, Exports, PlainStaged
  <1>3. Owed' /\ ~Done'
    BY <1>1, <1>2, QuietOwes DEF runData, Done
  <1>4. StoredFacts' = StoredFacts /\ StoredSources' = StoredSources
    BY <1>1 DEF StoredFacts, StoredSources
  <1>5. /\ IsSeq(values)' /\ CitedBy(values') \subseteq sources' /\ sources' \subseteq Stations \X {1}
        /\ active' \subseteq Stations
    BY <1>1, <1>2 DEF AirKoreaStaged
  <1>6. CASE at = "sealed" /\ at' = "capture" /\ todo' = Tail(todo)
    <2>1. SentUnlessIn(Tail(todo)) /\ todo # <<>>
      BY <1>2, <1>6 DEF ExportStaged
    <2>2. \A src \in sources' : Sent(src)' \/ src \in ToSet(Tail(todo))
      BY <1>1, <1>4, <2>1, SentStays
    <2>3. SentUnlessIn(todo)'
      BY <1>6, <2>2 DEF SentUnlessIn
    <2>4. IsSeq(todo)'
      BY <1>2, <1>6, <2>1, HeadAndTail
    <2>5. AirKoreaStaged'
      BY <1>1, <1>2, <1>3, <1>5, <1>6, <2>3, <2>4 DEF AirKoreaStaged, AirKoreaPlaces, CatalogPlaces,
         ExportStaged
    <2> QED BY <1>3, <2>5 DEF AirKoreaComplete
  <1>7. CASE at = "capture" /\ at' = "finish" /\ todo' = todo /\ todo = <<>>
    <2>1. SentUnlessIn(todo)
      BY <1>2, <1>7 DEF ExportStaged
    <2>2. \A src \in sources : Sent(src)
      BY <1>7, <2>1, NothingInSeq DEF SentUnlessIn
    <2>3. Flushed
      BY <1>2, <2>2 DEF Flushed, Sent, AirKoreaStaged, CitedBy
    <2>4. Flushed'
      BY <1>1, <1>4, <2>3 DEF Flushed
    <2>5. AirKoreaStaged'
      BY <1>1, <1>2, <1>3, <1>5, <1>7, <2>4 DEF AirKoreaStaged, AirKoreaPlaces, CatalogPlaces,
         ExportStaged, IsSeq
    <2> QED BY <1>3, <2>5 DEF AirKoreaComplete
  <1> QED BY <1>1, <1>6, <1>7

\* The transactions of the queue.
LEMMA AirKoreaShares ==
    ASSUME AirKoreaComplete, IsQueue(queue), StationShared
    PROVE  AirKoreaComplete'
  <1>1. /\ at \in {"flush", "fanout"}
        /\ UNCHANGED <<job, row, due, fetched, active, todo, back>>
    BY DEF StationShared, stationVars, PublishChunk, EndFlush, EndFanout
  <1>2. AirKoreaStaged /\ at = "fanout" /\ Owed /\ ~Done /\ Exports' = Exports
    BY <1>1 DEF AirKoreaComplete, AirKoreaStaged, AirKoreaPlaces, CatalogPlaces, Exports
  <1>3. ~Done'
    BY <1>1, <1>2 DEF Done
  <1>4. /\ Owed' /\ (Published => Published') /\ UNCHANGED <<sources, values>>
        /\ StoredFacts \subseteq StoredFacts' /\ StoredSources \subseteq StoredSources'
        /\ \/ at' = "fanout"
           \/ at' = back /\ queue' = NothingQueued
    <2>1. CASE PublishChunk
      BY <1>2, <2>1, ChunkMoves, ChunkOwes
    <2>2. CASE EndFanout
      BY <1>2, <2>2, EndFanoutOwes DEF EndFanout
    <2> QED BY <1>2, <2>1, <2>2 DEF StationShared, EndFlush
  <1>5. /\ IsSeq(values)' /\ CitedBy(values') \subseteq sources' /\ sources' \subseteq Stations \X {1}
        /\ active' \subseteq Stations /\ IsSeq(todo)'
    BY <1>1, <1>2, <1>4 DEF AirKoreaStaged, CatalogPlaces
  <1>6. CASE Exports
    <2>1. todo # <<>> /\ SentUnlessIn(Tail(todo)) /\ back = "sealed"
      BY <1>2, <1>6 DEF AirKoreaStaged, ExportStaged
    <2>2. \A src \in sources' : Sent(src)' \/ src \in ToSet(Tail(todo))
      BY <1>4, <2>1, SentStays
    <2>3. SentUnlessIn(Tail(todo))'
      BY <1>1, <2>2 DEF SentUnlessIn
    <2>4. AirKoreaStaged'
      BY <1>1, <1>2, <1>4, <1>5, <1>6, <2>1, <2>3 DEF AirKoreaStaged, AirKoreaPlaces, CatalogPlaces,
         ExportStaged
    <2> QED BY <1>3, <2>4 DEF AirKoreaComplete
  <1>7. CASE ~Exports
    <2>1. back = "finish" /\ Published
      BY <1>2, <1>7 DEF AirKoreaStaged, PlainStaged
    <2>2. AirKoreaStaged'
      BY <1>1, <1>2, <1>4, <1>5, <1>7, <2>1 DEF AirKoreaStaged, AirKoreaPlaces, CatalogPlaces,
         PlainStaged
    <2> QED BY <1>3, <2>2 DEF AirKoreaComplete
  <1> QED BY <1>6, <1>7

\* The end of the second run stores what records are left.
LEMMA AirKoreaFinishes ==
    ASSUME AirKoreaComplete, FinishStations
    PROVE  AirKoreaComplete'
  <1>1. /\ at = "finish" /\ at' = "idle" /\ UNCHANGED <<facts, due, fetched>>
        /\ records' = records \cup (IF Exports THEN {} ELSE uncited_sources(sources, values))
    BY DEF FinishStations, Complete
  <1>2. AirKoreaStaged /\ Owed /\ queue = NothingQueued
    BY <1>1 DEF AirKoreaComplete, AirKoreaStaged, CatalogPlaces
  <1>3. StoredFacts = facts /\ StoredSources = records
    BY <1>2, NothingQueuedStores
  <1>4. IF Exports THEN Flushed ELSE Published
    BY <1>1, <1>2 DEF AirKoreaStaged, ExportStaged, PlainStaged
  <1>5. Whole'
    BY <1>1, <1>2, <1>3, <1>4 DEF Owed, Flushed, Published, Whole, uncited_sources
  <1> QED BY <1>1, <1>5 DEF AirKoreaComplete

\* A worker that ends between its two runs leaves the first one whole.
LEMMA AirKoreaLeaves ==
    ASSUME AirKoreaComplete, OverBudget \/ RaiseStations \/ Escape
    PROVE  AirKoreaComplete'
  <1>1. at' = "idle" /\ UNCHANGED <<facts, records, due, fetched>>
        /\ (row' = row \/ (row' = "failed" /\ row = "running"))
    BY DEF OverBudget, RaiseStations, Escape, Fail, Alive
  <1> QED BY <1>1 DEF AirKoreaComplete, Done, Whole

\* Every step of the worker.
LEMMA AirKoreaWorks ==
    ASSUME AirKoreaComplete, IsQueue(queue), job \in AirKoreaJobs, StationWorker
    PROVE  AirKoreaComplete'
  <1>1. job \notin RegionalJobs
    BY DEF RegionalJobs, RegionalExports, AirKoreaJobs
  <1>2. at = "idle" \/ at \in AirKoreaPlaces
    BY DEF AirKoreaComplete, AirKoreaStaged
  <1>3. at \notin {"roster", "ask", "record"}
    BY <1>2 DEF AirKoreaPlaces, CatalogPlaces
  <1>4. ~(PrepareRoster \/ SkipRegional \/ AskRegional \/ SkipRecord \/ Truncate
            \/ FlushRecords \/ StageRecord \/ CaptureRecord \/ SealRecord \/ EndRecords)
    BY <1>1, <1>3 DEF PrepareRoster, SkipRegional, AskRegional, SkipRecord, Truncate,
       FlushRecords, StageRecord, CaptureRecord, SealRecord, EndRecords
  <1> QED BY <1>4, AirKoreaCatalog, AirKoreaBegins, AirKoreaMeasures, AirKoreaEndsMeasuring,
           AirKoreaCaptures, AirKoreaSeals, AirKoreaShares, AirKoreaFinishes, AirKoreaLeaves
      DEF StationWorker

\* Steps of other processes, and of other jobs.
LEMMA AirKoreaAmongOthers ==
    ASSUME AirKoreaComplete,
           \/ (SkipOverlap \/ Reap \/ Crash \/ Recover) /\ UNCHANGED stationVars
           \/ UNCHANGED <<runVars, stationVars>>
    PROVE  AirKoreaComplete'
  <1>1. /\ UNCHANGED <<job, facts, records, due, fetched, todo, active>>
        /\ row' = row \/ (~Done /\ ~Done')
        /\ at' = "idle" \/ UNCHANGED <<at, back, runData>>
    BY OthersStoreNothing DEF SkipOverlap, Reap, Crash, Recover, stationVars, runVars, runData
  <1>2. Done' => Done /\ at \in {"idle", "measure"} /\ Whole'
    BY <1>1 DEF AirKoreaComplete, Done, Whole
  <1>3. CASE at' = "idle"
    BY <1>2, <1>3 DEF AirKoreaComplete
  <1>4. CASE UNCHANGED <<at, back, runData>>
    <2>1. StoredFacts' = StoredFacts /\ StoredSources' = StoredSources
      BY <1>4 DEF runData, StoredFacts, StoredSources
    <2>2. /\ Owed => Owed'
          /\ Flushed => Flushed'
          /\ Published => Published'
          /\ Exports' = Exports
      BY <1>1, <1>4, <2>1 DEF runData, Owed, Flushed, Published, CitedBy, Exports
    <2>3. (SentUnlessIn(todo) => SentUnlessIn(todo)')
          /\ (SentUnlessIn(Tail(todo)) => SentUnlessIn(Tail(todo))')
      BY <1>1, <1>4, <2>1 DEF runData, SentUnlessIn, Sent
    <2>4. (ExportStaged => ExportStaged') /\ (PlainStaged => PlainStaged')
      BY <1>1, <1>4, <2>2, <2>3 DEF ExportStaged, PlainStaged
    <2>5. AirKoreaStaged => AirKoreaStaged'
      BY <1>1, <1>4, <2>2, <2>4 DEF runData, AirKoreaStaged, CitedBy, IsSeq
    <2> QED BY <1>2, <1>4, <2>5 DEF AirKoreaComplete
  <1> QED BY <1>1, <1>3, <1>4

-----------------------------------------------------------------------------
(***************************************************************************)
(* Alert events are stored with the end of their run.                      *)
(***************************************************************************)
EventComplete == Done => Whole

\* A run starts with nothing of the run before, and its row is running.
LEMMA StartEventsComplete == ASSUME StartEvents PROVE EventComplete'
  BY DEF StartEvents, NewRow, EventComplete, Done

\* Asking for a start, reading, cancelling and failing store nothing and end no row well.
LEMMA EventsEndBadly ==
    ASSUME EventComplete,
           BeginEvents \/ ThreadFails \/ ReadPage \/ RereadFirst \/ SealCancelled \/ RaiseEvents
             \/ CancelEvents
    PROVE  EventComplete'
  <1>1. UNCHANGED <<facts, records, due, fetched>>
        /\ (row' = row \/ row' = "cancelled" \/ row' = "failed")
    BY DEF BeginEvents, ThreadFails, ReadPage, RereadFirst, SealCancelled, RaiseEvents, CancelEvents,
       Fail
  <1> QED BY <1>1 DEF EventComplete, Done, Whole

\* The events, the records of all pages and the end of the run are one transaction.
LEMMA PublishEventsComplete == ASSUME PublishEvents PROVE EventComplete'
  <1>1. due' = facts' /\ fetched' \subseteq records'
    BY DEF PublishEvents
  <1> QED BY <1>1 DEF EventComplete, Whole

\* Every step of the alert-event job.
LEMMA EventWorks ==
    ASSUME EventComplete, BeginEvents \/ EventWorker \/ CancelEvents
    PROVE  EventComplete'
  BY StartEventsComplete, EventsEndBadly, PublishEventsComplete DEF EventWorker

\* Steps of other processes, and of other jobs.
LEMMA EventAmongOthers ==
    ASSUME EventComplete,
           SkipOverlap \/ Reap \/ Crash \/ Recover \/ UNCHANGED runVars
    PROVE  EventComplete'
  <1>1. CASE SkipOverlap \/ Reap \/ Crash \/ Recover
    <2>1. /\ UNCHANGED <<facts, records, due, fetched>>
          /\ row' = row \/ (~Done /\ ~Done')
          /\ at' = "idle" \/ at' = at
      BY <1>1, OthersStoreNothing
    <2> QED BY <2>1 DEF EventComplete, Done, Whole
  <1>2. CASE UNCHANGED runVars
    BY <1>2 DEF runVars, EventComplete, Done, Whole
  <1> QED BY <1>1, <1>2

-----------------------------------------------------------------------------
(***************************************************************************)
(* All jobs.                                                               *)
(***************************************************************************)
WritingJobs == KmaJobs \cup AlertJobs \cup StationJobs \cup EventJobs

CompleteInv ==
    /\ job \in KmaJobs => KmaComplete
    /\ job \in AlertJobs => AlertComplete
    /\ job \in RegionalJobs => RegionalComplete
    /\ job \in AirKoreaJobs => AirKoreaComplete
    /\ job \in EventJobs => EventComplete
    /\ job \notin WritingJobs => ~Done

\* Nothing has run yet.
LEMMA InitIsComplete == ASSUME Init PROVE CompleteInv
  <1>1. at = "idle" /\ ~Done
    BY DEF Init, RunInit, Done
  <1> QED BY <1>1 DEF CompleteInv, KmaComplete, AlertComplete, RegionalComplete, AirKoreaComplete,
             EventComplete

\* The jobs are of one family each.
LEMMA FamiliesAreApart ==
    /\ KmaJobs \cap (AlertJobs \cup StationJobs \cup EventJobs) = {}
    /\ AlertJobs \cap (StationJobs \cup EventJobs) = {}
    /\ StationJobs \cap EventJobs = {}
    /\ RegionalJobs \cap AirKoreaJobs = {}
    /\ StationJobs = RegionalJobs \cup AirKoreaJobs
  BY DEF KmaJobs, GridJobs, AlertJobs, StationJobs, RegionalJobs, RegionalExports, AirKoreaJobs,
     EventJobs

\* The steps of a run keep its part of the invariant.
LEMMA FamilySteps ==
    ASSUME CompleteInv, IsQueue(queue),
           \/ job \in KmaJobs /\ (StartKma \/ KmaWorker)
           \/ job \in AlertJobs /\ (StartAlerts \/ AlertWorker)
           \/ job \in StationJobs /\ (StartStations \/ StationWorker)
           \/ job \in EventJobs /\ (BeginEvents \/ EventWorker \/ CancelEvents),
           job' = job
    PROVE  CompleteInv'
  <1>1. CASE job \in KmaJobs
    <2>1. StartKma \/ KmaWorker
      BY <1>1, FamiliesAreApart
    <2>2. KmaComplete'
      BY <1>1, <2>1, StartKmaComplete, KmaWorks DEF CompleteInv
    <2> QED BY <1>1, <2>2, FamiliesAreApart DEF CompleteInv, WritingJobs
  <1>2. CASE job \in AlertJobs
    <2>1. StartAlerts \/ AlertWorker
      BY <1>2, FamiliesAreApart
    <2>2. AlertComplete'
      BY <1>2, <2>1, StartAlertsComplete, AlertWorks DEF CompleteInv
    <2> QED BY <1>2, <2>2, FamiliesAreApart DEF CompleteInv, WritingJobs
  <1>3. CASE job \in RegionalJobs
    <2>1. StartStations \/ StationWorker
      BY <1>3, FamiliesAreApart
    <2>2. RegionalComplete'
      BY <1>3, <2>1, StartRegionalComplete, RegionalWorks DEF CompleteInv
    <2> QED BY <1>3, <2>2, FamiliesAreApart DEF CompleteInv, WritingJobs
  <1>4. CASE job \in AirKoreaJobs
    <2>1. StartStations \/ StationWorker
      BY <1>4, FamiliesAreApart
    <2>2. AirKoreaComplete'
      BY <1>4, <2>1, StartAirKoreaComplete, AirKoreaWorks DEF CompleteInv
    <2> QED BY <1>4, <2>2, FamiliesAreApart DEF CompleteInv, WritingJobs
  <1>5. CASE job \in EventJobs
    <2>1. BeginEvents \/ EventWorker \/ CancelEvents
      BY <1>5, FamiliesAreApart
    <2>2. EventComplete'
      BY <1>5, <2>1, EventWorks DEF CompleteInv
    <2> QED BY <1>5, <2>2, FamiliesAreApart DEF CompleteInv, WritingJobs
  <1> QED BY <1>1, <1>2, <1>3, <1>4, <1>5, FamiliesAreApart

\* So do the steps of other processes.
LEMMA SurroundingSteps ==
    ASSUME CompleteInv,
           \/ (SkipOverlap \/ Reap \/ Crash \/ Recover)
                /\ UNCHANGED <<kmaVars, alertVars, stationVars>>
           \/ UNCHANGED <<runVars, kmaVars, alertVars, stationVars>>,
           job' = job
    PROVE  CompleteInv'
  <1>1. /\ KmaComplete => KmaComplete'
        /\ AlertComplete => AlertComplete'
        /\ RegionalComplete => RegionalComplete'
        /\ AirKoreaComplete => AirKoreaComplete'
        /\ EventComplete => EventComplete'
    BY KmaAmongOthers, AlertAmongOthers, RegionalAmongOthers, AirKoreaAmongOthers, EventAmongOthers
  <1>2. ~Done => ~Done'
    <2>1. CASE UNCHANGED runVars
      BY <2>1 DEF runVars, Done
    <2>2. CASE SkipOverlap \/ Reap \/ Crash \/ Recover
      BY <2>2, OthersStoreNothing DEF Done
    <2> QED BY <2>1, <2>2
  <1> QED BY <1>1, <1>2 DEF CompleteInv

\* The induction step.
LEMMA CompleteStep ==
    ASSUME CompleteInv, IsQueue(queue), [Next]_vars
    PROVE  CompleteInv'
  BY JobSteps, JobIsFixed, FamilySteps, SurroundingSteps

\* What the invariant says of a run that has ended well.
LEMMA CompleteSaysSo == ASSUME CompleteInv PROVE SuccessIsComplete
  <1> SUFFICES ASSUME Done, at = "idle"
               PROVE  fetched \subseteq records /\ \A f \in due \ facts : f.loc \in Reported
    BY DEF SuccessIsComplete, Done
  <1>1. job \in WritingJobs
    BY DEF CompleteInv
  <1>2. CASE job \in AlertJobs
    BY <1>2 DEF CompleteInv, AlertComplete, AlertWhole, Reported
  <1>3. CASE job \notin AlertJobs
    <2>1. Whole
      BY <1>1, <1>3, FamiliesAreApart DEF CompleteInv, WritingJobs, KmaComplete, RegionalComplete,
         AirKoreaComplete, EventComplete
    <2> QED BY <2>1 DEF Whole
  <1> QED BY <1>2, <1>3

\* A run that ends as success or partial has stored the record and the facts of every
\* response it accepted, but for the alert locations its note reports
\* (_stage_and_publish_weather, publish_regional_records, _run_airkorea_weather_sync,
\* publish_alert_events).
THEOREM SuccessesAreComplete == Spec => []SuccessIsComplete
  <1>1. Init => IsQueue(queue) /\ runs \in Nat /\ CompleteInv
    BY NothingIsLeft, InitIsComplete DEF Init, RunInit
  <1>2. IsQueue(queue) /\ runs \in Nat /\ CompleteInv /\ [Next]_vars
          => (IsQueue(queue) /\ runs \in Nat /\ CompleteInv)'
    BY StepsAreOfTheRun, CompleteStep DEF OfTheRun
  <1>3. CompleteInv => SuccessIsComplete
    BY CompleteSaysSo
  <1> QED BY <1>1, <1>2, <1>3, PTL DEF Spec

-----------------------------------------------------------------------------
(***************************************************************************)
(* Attempts that are prepared and not settled: the worker still holds      *)
(* them, but for the one whose response it has in hand.                    *)
(***************************************************************************)
\* What is rejected is no longer in preparation.
LEMMA RejectionsSettle ==
    ASSUME PlansTyped, NEW S, plans' \in Rejections(S)
    PROVE  PlansTyped' /\ Preparing' \subseteq Preparing \ S
  BY DEF PlansTyped, PlanStates, Rejections, Preparing

\* What is prepared is held.
LEMMA PreparedIsHeld ==
    ASSUME NEW S, prepare(S)
    PROVE  PlansTyped' /\ Preparing' \subseteq held' /\ held' \subseteq S
  BY DEF prepare, PlansTyped, PlanStates, Preparing

\* The attempt whose response is in hand is given out.
LEMMA BindGivesOut ==
    ASSUME PlansTyped, NEW u, Bind(u)
    PROVE  PlansTyped' /\ Preparing' \subseteq Preparing /\ held' = held \ {u}
  BY RejectionsSettle DEF Bind, PlansTyped, Preparing

\* A response without values, or one that is not captured, settles its attempt.
LEMMA UnrouteSettles ==
    ASSUME PlansTyped, NEW u, Unroute(u)
    PROVE  PlansTyped' /\ Preparing' \subseteq Preparing \ ({u} \cap held) /\ held' = held \ {u}
  BY RejectionsSettle DEF Unroute

\* A stored response settles its attempt, whether sealing it works or not.
LEMMA SealSettles ==
    ASSUME PlansTyped, NEW u, Seal(u)
    PROVE  PlansTyped' /\ Preparing' \subseteq Preparing \ {u}
  <1>1. CASE plans[u] = "preparing" /\ plans' \in Rejections({u})
    BY <1>1, RejectionsSettle
  <1>2. CASE plans' = [plans EXCEPT ![u] = "ingested"]
    BY <1>2 DEF PlansTyped, PlanStates, Preparing
  <1>3. CASE plans[u] # "preparing" /\ UNCHANGED plans
    BY <1>3 DEF PlansTyped, Preparing
  <1> QED BY <1>1, <1>2, <1>3 DEF Seal

\* A run begins without attempts.
LEMMA StartPreparesNothing ==
    ASSUME NEW next, Start(next)
    PROVE  PlansTyped' /\ Preparing' = {} /\ held' = {} /\ at' = next /\ ~Done'
  BY DEF Start, NewRow, PlansTyped, PlanStates, Preparing, Done

\* The failure of a run that has not ended is no success.
LEMMA FailIsNotDone == ASSUME ~Done, Fail PROVE ~Done' /\ at' = "idle"
  BY DEF Fail, Done, Alive

\* Places of mid_export, which publishes each response before the next request: an
\* attempt it holds is for a request to come.
MidHolds ==
    /\ at \notin {"pipe", "admit", "append", "flush"}
    /\ IsSeq(groups)
    /\ held \subseteq ToSet(groups) \cup (IF at \in {"verify", "reverify"} THEN {cur.unit} ELSE {})

KmaPlans ==
    /\ Done => Preparing = {}
    /\ at # "idle" =>
          /\ Preparing \subseteq held \cup (IF Sealing THEN {cur.unit} ELSE {})
          /\ at = "setup" => Preparing = {} /\ held = {}
          /\ at = "final" \/ Closing => Preparing = {}
          /\ IF job = "mid_export" THEN MidHolds ELSE at \notin {"mid", "verify", "reverify"}

\* A KMA job begins.
LEMMA StartKmaPlans == ASSUME StartKma PROVE PlansTyped' /\ KmaPlans'
  <1>1. PICK next : next = "setup"
    OBVIOUS
  <1>2. PlansTyped' /\ Preparing' = {} /\ held' = {} /\ at' = next /\ ~Done'
    BY <1>1, StartPreparesNothing DEF StartKma
  <1>3. IsSeq(groups')
    <2>1. GroupOrder \in Seq(Units)
      BY KmaAssumption
    <2>2. PICK l \in 0 .. Len(GroupOrder) : groups' = SubSeq(GroupOrder, 1, l)
      BY DEF StartKma, Prefixes
    <2>3. groups' \in Seq(Units)
      BY <2>1, <2>2
    <2> QED BY <2>3 DEF IsSeq
  <1> QED BY <1>1, <1>2, <1>3 DEF KmaPlans, MidHolds, Sealing, Closing

\* Steps of the grid jobs' pipeline, and of all jobs before and after it.
LEMMA PipelinePlans ==
    ASSUME KmaComplete, PlansTyped, KmaPlans, at # "idle",
           \/ EnterPipeline \/ _prefetch_grids \/ (\E i \in 1 .. FetchConcurrency : Answer(i))
           \/ Consume \/ Admit \/ FlushBatch \/ StageLocation \/ EndGroup \/ Conclude \/ EndMid,
           job' = job
    PROVE  PlansTyped' /\ KmaPlans'
  <1>1. ~Done /\ UNCHANGED <<plans, held, row>>
    BY DEF KmaComplete, EnterPipeline, _prefetch_grids, Answer, Consume, Admit, FlushBatch,
       StageLocation, EndGroup, Conclude, EndMid, runVars
  <1>2. PlansTyped' /\ Preparing' = Preparing /\ held' = held /\ ~Done'
    BY <1>1 DEF PlansTyped, Preparing, Done
  <1>3. CASE EnterPipeline
    BY <1>2, <1>3 DEF EnterPipeline, KmaPlans, MidHolds, Sealing, Closing, kmaVars
  <1>4. CASE _prefetch_grids \/ (\E i \in 1 .. FetchConcurrency : Answer(i))
    BY <1>2, <1>4 DEF _prefetch_grids, Answer, Waiting, KmaPlans, MidHolds, Sealing, Closing, runVars
  <1>5. CASE Consume
    BY <1>2, <1>5 DEF Consume, Waiting, BeginFlush, KmaPlans, MidHolds, Sealing, Closing
  <1>6. CASE Admit \/ EndGroup
    BY <1>2, <1>6 DEF Admit, EndGroup, KmaPlans, MidHolds, Sealing, Closing
  <1>7. CASE FlushBatch \/ StageLocation
    BY <1>2, <1>7 DEF FlushBatch, BeginFlush, StageLocation, KmaPlans, MidHolds, Sealing, Closing
  <1>8. CASE EndMid
    <2>1. MidHolds /\ groups = <<>> /\ at = "mid" /\ at' = "final" /\ groups' = groups
      BY <1>8 DEF EndMid, KmaPlans, kmaVars
    <2>2. ToSet(groups) = {}
      BY <2>1, NothingInSeq
    <2>3. held = {} /\ Preparing = {}
      BY <2>1, <2>2 DEF KmaPlans, MidHolds, Sealing
    <2> QED BY <1>2, <2>1, <2>2, <2>3 DEF KmaPlans, MidHolds, Sealing, Closing
  <1>9. CASE Conclude
    BY <1>2, <1>9 DEF Conclude, BeginFanout, KmaPlans, MidHolds, Sealing, Closing, kmaVars
  <1> QED BY <1>3, <1>4, <1>5, <1>6, <1>7, <1>8, <1>9

\* The attempts of a run are prepared together.
LEMMA SetupPlans ==
    ASSUME KmaComplete, PlansTyped, KmaPlans, Setup, job' = job
    PROVE  PlansTyped' /\ KmaPlans'
  <1>1. at = "setup" /\ at' = "prepared" /\ ~Done /\ ~Done' /\ UNCHANGED <<groups, cur>>
    BY DEF Setup, KmaComplete, Done, kmaVars
  <1>2. Preparing = {} /\ held = {} /\ (job = "mid_export" => IsSeq(groups))
    BY <1>1 DEF KmaPlans, MidHolds
  <1>3. CASE job \notin ExportJobs
    <2>1. PlansTyped' /\ Preparing' = {} /\ held' = {}
      BY <1>2, <1>3 DEF Setup, PlansTyped, Preparing
    <2> QED BY <1>1, <1>2, <1>3, <2>1 DEF KmaPlans, Sealing, Closing, MidHolds
  <1>4. CASE job \in ExportJobs
    <2>1. PICK S : prepare(S) /\ (job = "mid_export" => S = ToSet(groups))
      BY <1>4 DEF Setup, PreparedScopes
    <2>2. PlansTyped' /\ Preparing' \subseteq held' /\ held' \subseteq S
      BY <2>1, PreparedIsHeld
    <2> QED BY <1>1, <1>2, <2>1, <2>2 DEF KmaPlans, Sealing, Closing, MidHolds
  <1> QED BY <1>3, <1>4

\* A captured response is bound or its attempt settled; it is in hand until it is sealed.
LEMMA CapturePlans ==
    ASSUME KmaComplete, PlansTyped, KmaPlans, CapturePart, job' = job
    PROVE  PlansTyped' /\ KmaPlans'
  <1>1. at = "append" /\ at' = "fanout" /\ back' = "seal" /\ ~Done /\ ~Done' /\ cur' = cur
        /\ job # "mid_export"
    BY DEF CapturePart, Captured, BeginFanout, KmaComplete, Done, kmaVars
  <1>2. PICK u : u = cur.unit
    OBVIOUS
  <1>3. Unroute(u) \/ Bind(u)
    BY <1>2 DEF CapturePart
  <1>4. PlansTyped' /\ Preparing' \subseteq Preparing /\ held' = held \ {u}
    BY <1>3, BindGivesOut, UnrouteSettles
  <1>5. Preparing \subseteq held
    BY <1>1 DEF KmaPlans, Sealing
  <1> QED BY <1>1, <1>2, <1>4, <1>5 DEF KmaPlans, Sealing, Closing

\* A response that is not captured settles its attempt.
LEMMA StagePlans ==
    ASSUME KmaComplete, PlansTyped, KmaPlans, StagePart, job' = job
    PROVE  PlansTyped' /\ KmaPlans'
  <1>1. at = "append" /\ at' = "append" /\ ~Done /\ ~Done'
    BY DEF StagePart, KmaComplete, Done
  <1>2. PICK u : u = cur.unit
    OBVIOUS
  <1>3. Unroute(u) \/ UNCHANGED <<plans, held>>
    BY <1>2 DEF StagePart
  <1>4. Preparing \subseteq held /\ job # "mid_export"
    BY <1>1 DEF KmaPlans, Sealing, MidHolds
  <1>5. PlansTyped' /\ Preparing' \subseteq held'
    BY <1>3, <1>4, UnrouteSettles DEF PlansTyped, Preparing
  <1> QED BY <1>1, <1>4, <1>5 DEF KmaPlans, Sealing, Closing

\* The response in hand is sealed.
LEMMA SealPlans ==
    ASSUME KmaComplete, PlansTyped, KmaPlans, SealPart, job' = job
    PROVE  PlansTyped' /\ KmaPlans'
  <1>1. at = "seal" /\ ~Done /\ ~Done' /\ held' = held /\ groups' = groups
        /\ at' = IF job = "mid_export" THEN "mid" ELSE "append"
    BY DEF SealPart, KmaComplete, Done
  <1>2. PICK u : u = cur.unit
    OBVIOUS
  <1>3. PlansTyped' /\ Preparing' \subseteq Preparing \ {u}
    BY <1>2, SealSettles DEF SealPart
  <1>4. Preparing \subseteq held \cup {u}
    BY <1>1, <1>2 DEF KmaPlans, Sealing
  <1> QED BY <1>1, <1>3, <1>4 DEF KmaPlans, Sealing, Closing, MidHolds

\* The attempts that were never given out are rejected.
LEMMA EndPipelinePlans ==
    ASSUME KmaComplete, PlansTyped, KmaPlans, EndPipeline, job' = job
    PROVE  PlansTyped' /\ KmaPlans'
  <1>1. at = "pipe" /\ at' = "final" /\ ~Done /\ ~Done' /\ held' = {}
    BY DEF EndPipeline, KmaComplete, Done
  <1>2. PlansTyped' /\ Preparing' \subseteq Preparing \ held
    BY RejectionsSettle DEF EndPipeline
  <1>3. Preparing \subseteq held /\ job # "mid_export"
    BY <1>1 DEF KmaPlans, Sealing, MidHolds
  <1> QED BY <1>1, <1>2, <1>3 DEF KmaPlans, Sealing, Closing

\* A scope is asked for.
LEMMA MidRequestPlans ==
    ASSUME KmaComplete, PlansTyped, KmaPlans, MidRequest, job' = job
    PROVE  PlansTyped' /\ KmaPlans'
  <1>1. at = "mid" /\ at' = "verify" /\ ~Done /\ ~Done' /\ UNCHANGED <<plans, held>>
        /\ groups # <<>> /\ groups' = Tail(groups)
    BY DEF MidRequest, KmaComplete, Done
  <1>2. job = "mid_export" /\ MidHolds /\ held \subseteq ToSet(groups)
    BY <1>1 DEF KmaPlans, MidHolds
  <1>3. PICK S : groups \in Seq(S)
    BY <1>2 DEF MidHolds, IsSeq
  <1>4. ToSet(groups) \subseteq {Head(groups)} \cup ToSet(Tail(groups)) /\ Tail(groups) \in Seq(S)
    <2>1. \A i \in 1 .. Len(groups) : groups[i] = Head(groups) \/ \E j \in 1 .. Len(Tail(groups)) :
                                         groups[i] = Tail(groups)[j]
      <3> SUFFICES ASSUME NEW i \in 1 .. Len(groups), i # 1
                   PROVE  \E j \in 1 .. Len(Tail(groups)) : groups[i] = Tail(groups)[j]
        BY <1>1, <1>3
      <3>1. i - 1 \in 1 .. Len(Tail(groups)) /\ Tail(groups)[i - 1] = groups[i]
        BY <1>1, <1>3
      <3> QED BY <3>1
    <2>2. Tail(groups) \in Seq(S) /\ DOMAIN groups = 1 .. Len(groups)
          /\ DOMAIN Tail(groups) = 1 .. Len(Tail(groups))
      BY <1>1, <1>3
    <2> QED BY <2>1, <2>2 DEF ToSet
  <1>5. cur'.unit = Head(groups)
    BY DEF MidRequest
  <1>6. Preparing' = Preparing /\ PlansTyped' /\ Preparing \subseteq held
    BY <1>1 DEF Preparing, PlansTyped, KmaPlans, Sealing
  <1>7. IsSeq(groups')
    BY <1>1, <1>4 DEF IsSeq
  <1>8. held' \subseteq ToSet(groups') \cup {cur'.unit}
    BY <1>1, <1>2, <1>4, <1>5
  <1>9. MidHolds'
    BY <1>1, <1>7, <1>8 DEF MidHolds
  <1> QED BY <1>1, <1>2, <1>6, <1>9 DEF KmaPlans, Sealing, Closing

\* A scope is answered: its attempt is given out or settled.
LEMMA MidAnswerPlans ==
    ASSUME KmaComplete, PlansTyped, KmaPlans, MidAnswer, job' = job
    PROVE  PlansTyped' /\ KmaPlans'
  <1>1. at \in {"verify", "reverify"} /\ ~Done /\ ~Done' /\ groups' = groups
    BY DEF MidAnswer, KmaComplete, Done
  <1>2. job = "mid_export" /\ MidHolds /\ Preparing \subseteq held
    BY <1>1 DEF KmaPlans, Sealing
  <1>3. PICK u : u = cur.unit
    OBVIOUS
  <1>4. PICK r \in Responses :
          \/ at' = "reverify" /\ UNCHANGED <<cur, plans, held>>
          \/ /\ cur' = [cur EXCEPT !.parts = <<r>>]
             /\ Unroute(u) \/ Bind(u)
             /\ at' = "fanout" /\ back' = "seal"
    BY <1>3 DEF MidAnswer, BeginFanout
  <1>5. CASE at' = "reverify" /\ UNCHANGED <<cur, plans, held>>
    BY <1>1, <1>2, <1>5 DEF KmaPlans, MidHolds, PlansTyped, Preparing, Sealing, Closing
  <1>6. CASE /\ cur' = [cur EXCEPT !.parts = <<r>>]
             /\ Unroute(u) \/ Bind(u)
             /\ at' = "fanout" /\ back' = "seal"
    <2>1. PlansTyped' /\ Preparing' \subseteq Preparing /\ held' = held \ {u}
      BY <1>6, BindGivesOut, UnrouteSettles
    <2>2. cur'.unit = u
      <3>1. PICK k, v, p, l : cur = [unit |-> k, part |-> v, parts |-> p, locs |-> l]
        BY <1>1 DEF KmaComplete, KmaShape, IsResponse
      <3> QED BY <1>3, <1>6, <3>1
    <2>3. held' \subseteq ToSet(groups)
      BY <1>1, <1>2, <1>3, <2>1 DEF MidHolds
    <2>4. MidHolds'
      BY <1>1, <1>2, <1>6, <2>3 DEF MidHolds
    <2> QED BY <1>1, <1>2, <1>6, <2>1, <2>2, <2>4 DEF KmaPlans, Sealing, Closing
  <1> QED BY <1>4, <1>5, <1>6

\* The queue's transactions and their end.
LEMMA QueuePlans ==
    ASSUME KmaComplete, PlansTyped, KmaPlans, KmaShared, job' = job
    PROVE  PlansTyped' /\ KmaPlans'
  <1>1. at \in {"flush", "fanout"} /\ ~Done /\ ~Done' /\ UNCHANGED <<plans, held, back, cur, groups>>
        /\ at' \in {at, back}
    BY DEF KmaShared, PublishChunk, EndFlush, EndFanout, KmaComplete, Done, kmaVars
  <1>2. (at = "flush" => back \in {"admit", "append"}) /\ (at = "fanout" => back \in {"seal", "finish"})
    BY <1>1 DEF KmaComplete, KmaStaged
  <1>3. PlansTyped' /\ Preparing' = Preparing
    BY <1>1 DEF PlansTyped, Preparing
  <1>4. CASE at = "flush"
    BY <1>1, <1>2, <1>3, <1>4 DEF KmaPlans, MidHolds, Sealing, Closing
  <1>5. CASE at = "fanout"
    BY <1>1, <1>2, <1>3, <1>5 DEF KmaPlans, MidHolds, Sealing, Closing
  <1> QED BY <1>1, <1>4, <1>5

\* The end of the run, with or without success.
LEMMA EndPlans ==
    ASSUME KmaComplete, PlansTyped, KmaPlans, FinishKma \/ RaiseKma, job' = job
    PROVE  /\ PlansTyped' /\ KmaPlans'
           /\ RaiseKma /\ InPipeline /\ job # "mid_export" => Preparing' \subseteq {cur.unit}
  <1>1. CASE FinishKma
    <2>1. at = "finish" /\ at' = "idle" /\ plans' = plans
      BY <1>1 DEF FinishKma, Complete
    <2>2. PlansTyped' /\ Preparing' = {}
      BY <2>1 DEF KmaPlans, Closing, PlansTyped, Preparing
    <2>3. ~RaiseKma \/ ~InPipeline
      BY <2>1 DEF InPipeline
    <2> QED BY <2>1, <2>2, <2>3 DEF KmaPlans
  <1>2. CASE RaiseKma
    <2>1. at # "idle" /\ ~Done' /\ at' = "idle"
      BY <1>2, FailIsNotDone DEF RaiseKma, KmaComplete
    <2>2. plans' \in Rejections(held) \/ plans' = plans
      BY <1>2 DEF RaiseKma
    <2>3. PlansTyped'
      BY <2>2, RejectionsSettle DEF PlansTyped
    <2>4. ASSUME InPipeline, job # "mid_export" PROVE Preparing' \subseteq {cur.unit}
      <3>1. Preparing' \subseteq Preparing \ held
        BY <1>2, <2>4, RejectionsSettle DEF RaiseKma
      <3> QED BY <2>1, <3>1 DEF KmaPlans
    <2> QED BY <2>1, <2>3, <2>4 DEF KmaPlans
  <1> QED BY <1>1, <1>2

\* All steps of a KMA job.
LEMMA KmaSettles ==
    ASSUME KmaComplete, PlansTyped, KmaPlans, KmaWorker, job' = job
    PROVE  PlansTyped' /\ KmaPlans'
  <1>1. at # "idle"
    BY DEF KmaWorker, KmaShared, PublishChunk, EndFlush, EndFanout, Setup, EnterPipeline,
       _prefetch_grids, Answer, Waiting, Consume, Admit, CapturePart, SealPart, StagePart,
       FlushBatch, StageLocation, EndGroup, EndPipeline, MidRequest, MidAnswer, EndMid, Conclude,
       FinishKma, RaiseKma
  <1> QED BY <1>1, PipelinePlans, SetupPlans, CapturePlans, StagePlans, SealPlans, EndPipelinePlans,
             MidRequestPlans, MidAnswerPlans, QueuePlans, EndPlans DEF KmaWorker

\* The attempts of AirKorea's second run, one in hand per captured station.
AirKoreaPlans ==
    /\ Done => Preparing = {}
    /\ ~Exports \/ at \in CatalogPlaces => Preparing = {}
    /\ at # "idle" =>
          /\ at = "finish" => Preparing = {}
          /\ Preparing \subseteq held \cup (IF at \in {"fanout", "sealed"} THEN {Head(todo)[1]} ELSE {})

\* The attempts of a regional job, one in hand per captured record.
RegionalPlans ==
    /\ Done => Preparing = {}
    /\ at # "idle" =>
          /\ at \in {"roster", "finish"} => Preparing = {}
          /\ Preparing \subseteq held \cup (IF at \in {"fanout", "sealed"} THEN {Rec.station} ELSE {})

\* A job of the observation networks begins.
LEMMA StartStationPlans == ASSUME StartStations PROVE PlansTyped' /\ AirKoreaPlans' /\ RegionalPlans'
  <1>1. PICK next : next = IF job \in AirKoreaJobs THEN "catalog" ELSE "roster"
    OBVIOUS
  <1>2. PlansTyped' /\ Preparing' = {} /\ held' = {} /\ at' = next /\ ~Done'
    BY <1>1, StartPreparesNothing DEF StartStations
  <1> QED BY <1>2 DEF AirKoreaPlans, RegionalPlans

\* Steps of AirKorea that leave the attempts alone, away from a response in hand.
LEMMA AirKoreaKeepsPlans ==
    ASSUME AirKoreaComplete, PlansTyped, AirKoreaPlans, at # "idle", job' = job, job \in AirKoreaJobs,
           FetchCatalog \/ FinishCatalog \/ MeasureGroup \/ OverBudget \/ EndMeasurements
             \/ RaiseStations \/ Escape
    PROVE  PlansTyped' /\ AirKoreaPlans'
  <1>1. UNCHANGED plans /\ Exports' = Exports
    BY DEF FetchCatalog, FinishCatalog, MeasureGroup, OverBudget, EndMeasurements, RaiseStations,
       Escape, Exports
  <1>2. PlansTyped' /\ Preparing' = Preparing
    BY <1>1 DEF PlansTyped, Preparing
  <1>3. CASE FetchCatalog
    BY <1>1, <1>2, <1>3 DEF FetchCatalog, AirKoreaPlans, CatalogPlaces, Done
  <1>4. CASE FinishCatalog
    BY <1>1, <1>2, <1>4 DEF FinishCatalog, AirKoreaPlans, CatalogPlaces, Done
  <1>5. CASE MeasureGroup
    BY <1>1, <1>2, <1>5 DEF MeasureGroup, AirKoreaPlans, CatalogPlaces, Done
  <1>6. CASE OverBudget
    <2>1. ~Done
      BY <1>6 DEF OverBudget, Alive, Done
    <2>2. ~Done' /\ at' = "idle"
      BY <1>6, <2>1, FailIsNotDone DEF OverBudget
    <2> QED BY <1>1, <1>2, <2>2 DEF AirKoreaPlans, CatalogPlaces
  <1>7. CASE EndMeasurements
    <2>1. at = "request" /\ row' = row /\ held' = held /\ at' = IF Exports THEN "capture" ELSE "fanout"
      BY <1>7 DEF EndMeasurements, BeginFanout
    <2> QED BY <1>1, <1>2, <2>1 DEF AirKoreaPlans, CatalogPlaces, Done
  <1>8. CASE RaiseStations
    <2>1. at' = "idle" /\ (Done' => Done)
      BY <1>8 DEF RaiseStations, Fail, Done, Alive
    <2> QED BY <1>1, <1>2, <2>1 DEF AirKoreaPlans, CatalogPlaces
  <1>9. CASE Escape
    <2>1. at' = "idle" /\ row' = row
      BY <1>9 DEF Escape
    <2> QED BY <1>1, <1>2, <2>1 DEF AirKoreaPlans, CatalogPlaces, Done
  <1> QED BY <1>3, <1>4, <1>5, <1>6, <1>7, <1>8, <1>9

\* Steps of AirKorea that prepare, give out and settle attempts, and the end.
LEMMA AirKoreaGivesOut ==
    ASSUME AirKoreaComplete, PlansTyped, AirKoreaPlans, at # "idle", job' = job, job \in AirKoreaJobs,
           StartMeasurements \/ CaptureStation \/ SealStation \/ RejectUncovered \/ FinishStations
             \/ StationShared
    PROVE  PlansTyped' /\ AirKoreaPlans'
  <1>1. Exports' = Exports
    BY DEF Exports
  <1>2. CASE StartMeasurements
    <2>1. at = "measure" /\ at' = "request" /\ ~Done' /\ Preparing = {}
      BY <1>2 DEF StartMeasurements, AirKoreaPlans, CatalogPlaces, Done
    <2>2. CASE ~Exports
      <3>1. PlansTyped' /\ Preparing' = {}
        BY <1>2, <2>1, <2>2 DEF StartMeasurements, PlansTyped, Preparing
      <3> QED BY <1>1, <2>1, <3>1 DEF AirKoreaPlans
    <2>3. CASE Exports
      <3>1. PlansTyped' /\ Preparing' \subseteq held'
        BY <1>2, <2>3, PreparedIsHeld DEF StartMeasurements
      <3> QED BY <1>1, <2>1, <2>3, <3>1 DEF AirKoreaPlans, CatalogPlaces
    <2> QED BY <2>2, <2>3
  <1>3. CASE CaptureStation
    <2>1. PICK u : u = Head(todo)[1]
      OBVIOUS
    <2>2. at = "capture" /\ at' = "fanout" /\ todo' = todo /\ row' = row /\ Bind(u)
      BY <1>3, <2>1 DEF CaptureStation, BeginFanout, stationVars
    <2>3. PlansTyped' /\ Preparing' \subseteq Preparing /\ held' = held \ {u}
      BY <2>2, BindGivesOut
    <2> QED BY <1>1, <2>1, <2>2, <2>3 DEF AirKoreaPlans, CatalogPlaces, Done
  <1>4. CASE SealStation
    <2>1. PICK u : u = Head(todo)[1]
      OBVIOUS
    <2>2. at = "sealed" /\ at' = "capture" /\ row' = row /\ held' = held /\ Seal(u)
      BY <1>4, <2>1 DEF SealStation
    <2>3. PlansTyped' /\ Preparing' \subseteq Preparing \ {u}
      BY <2>2, SealSettles
    <2> QED BY <1>1, <2>1, <2>2, <2>3 DEF AirKoreaPlans, CatalogPlaces, Done
  <1>5. CASE RejectUncovered
    <2>1. at = "capture" /\ at' = "finish" /\ row' = row
      BY <1>5 DEF RejectUncovered
    <2>2. PlansTyped' /\ Preparing' \subseteq Preparing \ held
      BY <1>5, RejectionsSettle DEF RejectUncovered
    <2> QED BY <1>1, <2>1, <2>2 DEF AirKoreaPlans, CatalogPlaces, Done
  <1>6. CASE FinishStations
    <2>1. at = "finish" /\ at' = "idle" /\ plans' = plans
      BY <1>6 DEF FinishStations, Complete
    <2>2. PlansTyped' /\ Preparing' = {}
      BY <2>1 DEF AirKoreaPlans, PlansTyped, Preparing
    <2> QED BY <2>1, <2>2 DEF AirKoreaPlans
  <1>7. CASE StationShared
    <2>1. at \in {"flush", "fanout"} /\ at' \in {at, back} /\ UNCHANGED <<row, plans, held, todo>>
      BY <1>7 DEF StationShared, PublishChunk, EndFlush, EndFanout, stationVars
    <2>2. at = "fanout" /\ back = IF Exports THEN "sealed" ELSE "finish"
      BY <2>1 DEF AirKoreaComplete, AirKoreaStaged, AirKoreaPlaces, CatalogPlaces, ExportStaged,
         PlainStaged
    <2>3. PlansTyped' /\ Preparing' = Preparing
      BY <2>1 DEF PlansTyped, Preparing
    <2> QED BY <1>1, <2>1, <2>2, <2>3 DEF AirKoreaPlans, CatalogPlaces, Done
  <1> QED BY <1>2, <1>3, <1>4, <1>5, <1>6, <1>7

\* All steps of AirKorea.
LEMMA AirKoreaSettles ==
    ASSUME AirKoreaComplete, PlansTyped, AirKoreaPlans, StationWorker, job' = job,
           job \in AirKoreaJobs, job \notin RegionalJobs
    PROVE  PlansTyped' /\ AirKoreaPlans'
  <1>1. at # "idle"
    BY DEF StationWorker, StationShared, PublishChunk, EndFlush, EndFanout, FetchCatalog,
       FinishCatalog, StartMeasurements, MeasureGroup, OverBudget, EndMeasurements, CaptureStation,
       SealStation, RejectUncovered, PrepareRoster, SkipRegional, AskRegional, SkipRecord, Truncate,
       FlushRecords, StageRecord, CaptureRecord, SealRecord, EndRecords, FinishStations,
       RaiseStations, Escape
  <1>2. at \notin {"roster", "ask", "record"}
    BY <1>1 DEF AirKoreaComplete, AirKoreaStaged, AirKoreaPlaces, CatalogPlaces
  <1>3. ~(PrepareRoster \/ SkipRegional \/ AskRegional \/ SkipRecord \/ Truncate \/ FlushRecords
            \/ StageRecord \/ CaptureRecord \/ SealRecord \/ EndRecords)
    BY <1>2 DEF PrepareRoster, SkipRegional, AskRegional, SkipRecord, Truncate, FlushRecords,
       StageRecord, CaptureRecord, SealRecord, EndRecords
  <1> QED BY <1>1, <1>3, AirKoreaKeepsPlans, AirKoreaGivesOut DEF StationWorker

\* Steps of a regional job that leave the attempts alone, away from a response in hand.
LEMMA RegionalKeepsPlans ==
    ASSUME RegionalComplete, PlansTyped, RegionalPlans, at # "idle",
           SkipRegional \/ SkipRecord \/ Truncate \/ FlushRecords \/ StageRecord \/ RaiseStations
    PROVE  PlansTyped' /\ RegionalPlans'
  <1>1. UNCHANGED plans /\ ~Done
    BY DEF SkipRegional, SkipRecord, Truncate, FlushRecords, StageRecord, RaiseStations, runVars,
       RegionalComplete
  <1>2. PlansTyped' /\ Preparing' = Preparing
    BY <1>1 DEF PlansTyped, Preparing
  <1>3. CASE SkipRegional \/ RaiseStations
    <2>1. ~Done' /\ at' = "idle"
      BY <1>1, <1>3, FailIsNotDone DEF SkipRegional, RaiseStations
    <2> QED BY <1>2, <2>1 DEF RegionalPlans
  <1>4. CASE SkipRecord \/ Truncate \/ FlushRecords \/ StageRecord
    <2>1. at = "record" /\ at' \in {"record", "flush"} /\ row' = row /\ held' = held
      BY <1>4 DEF SkipRecord, Truncate, FlushRecords, BeginFlush, StageRecord, runVars
    <2> QED BY <1>1, <1>2, <2>1 DEF RegionalPlans, Done
  <1> QED BY <1>3, <1>4

\* Steps of a regional job that prepare, give out and settle attempts, and the end.
LEMMA RegionalGivesOut ==
    ASSUME RegionalComplete, PlansTyped, RegionalPlans, at # "idle",
           PrepareRoster \/ AskRegional \/ CaptureRecord \/ SealRecord \/ EndRecords
             \/ FinishStations \/ StationShared
    PROVE  PlansTyped' /\ RegionalPlans'
  <1>1. ~Done
    BY DEF RegionalComplete
  <1>2. CASE PrepareRoster
    <2>1. at = "roster" /\ at' = "ask" /\ row' = row /\ Preparing = {}
      BY <1>2 DEF PrepareRoster, RegionalPlans
    <2>2. PlansTyped' /\ Preparing' \subseteq held'
      <3>1. (\E S : prepare(S)) \/ UNCHANGED <<plans, held>>
        BY <1>2 DEF PrepareRoster
      <3> QED BY <2>1, <3>1, PreparedIsHeld DEF PlansTyped, Preparing
    <2> QED BY <1>1, <2>1, <2>2 DEF RegionalPlans, Done
  <1>3. CASE AskRegional
    <2>1. at = "ask" /\ at' = "record" /\ row' = row
      BY <1>3 DEF AskRegional
    <2>2. Invalidate \/ UNCHANGED <<plans, held>>
      BY <1>3 DEF AskRegional
    <2>3. Preparing \subseteq held
      BY <2>1 DEF RegionalPlans
    <2>4. PlansTyped' /\ Preparing' \subseteq held'
      BY <2>2, <2>3, RejectionsSettle DEF Invalidate, PlansTyped, Preparing
    <2> QED BY <1>1, <2>1, <2>4 DEF RegionalPlans, Done
  <1>4. CASE CaptureRecord
    <2>1. PICK u : u = Rec.station
      OBVIOUS
    <2>2. at = "record" /\ at' = "fanout" /\ row' = row /\ Bind(u) /\ todo' = todo
      BY <1>4, <2>1 DEF CaptureRecord, BeginFanout, stationVars
    <2>3. PlansTyped' /\ Preparing' \subseteq Preparing /\ held' = held \ {u}
      BY <2>2, BindGivesOut
    <2>4. Rec' = Rec
      BY <2>2 DEF Rec
    <2> QED BY <1>1, <2>1, <2>2, <2>3, <2>4 DEF RegionalPlans, Done
  <1>5. CASE SealRecord
    <2>1. PICK u : u = Rec.station
      OBVIOUS
    <2>2. at = "sealed" /\ at' = "record" /\ row' = row /\ held' = held /\ Seal(u)
      BY <1>5, <2>1 DEF SealRecord
    <2>3. PlansTyped' /\ Preparing' \subseteq Preparing \ {u}
      BY <2>2, SealSettles
    <2> QED BY <1>1, <2>1, <2>2, <2>3 DEF RegionalPlans, Done
  <1>6. CASE EndRecords
    <2>1. at = "record" /\ row' = row /\ Preparing \subseteq held
      BY <1>6 DEF EndRecords, RegionalPlans
    <2>2. CASE at' = "flush" /\ UNCHANGED <<plans, held>>
      BY <1>1, <2>1, <2>2 DEF RegionalPlans, PlansTyped, Preparing, Done
    <2>3. CASE at' = "finish" /\ plans' \in Rejections(held)
      BY <1>1, <2>1, <2>3, RejectionsSettle DEF RegionalPlans, Done
    <2> QED BY <1>6, <2>2, <2>3 DEF EndRecords, BeginFlush
  <1>7. CASE FinishStations
    <2>1. at = "finish" /\ at' = "idle" /\ plans' = plans
      BY <1>7 DEF FinishStations, Complete
    <2>2. PlansTyped' /\ Preparing' = {}
      BY <2>1 DEF RegionalPlans, PlansTyped, Preparing
    <2> QED BY <2>1, <2>2 DEF RegionalPlans
  <1>8. CASE StationShared
    <2>1. at \in {"flush", "fanout"} /\ at' \in {at, back} /\ UNCHANGED <<row, plans, held, todo>>
          /\ (at = "flush" => PublishChunk \/ EndFlush)
      BY <1>8 DEF StationShared, PublishChunk, EndFlush, EndFanout, stationVars
    <2>2. (at = "flush" => back = "record") /\ (at = "fanout" => back = "sealed")
      BY <2>1 DEF RegionalComplete, RegionalStaged
    <2>3. PlansTyped' /\ Preparing' = Preparing /\ Rec' = Rec
      BY <2>1 DEF PlansTyped, Preparing, Rec
    <2> QED BY <1>1, <2>1, <2>2, <2>3 DEF RegionalPlans, Done
  <1> QED BY <1>2, <1>3, <1>4, <1>5, <1>6, <1>7, <1>8

\* All steps of a regional job.
LEMMA RegionalSettles ==
    ASSUME RegionalComplete, PlansTyped, RegionalPlans, StationWorker, job \in RegionalJobs,
           job \notin AirKoreaJobs
    PROVE  PlansTyped' /\ RegionalPlans'
  <1>1. at # "idle"
    BY DEF StationWorker, StationShared, PublishChunk, EndFlush, EndFanout, FetchCatalog,
       FinishCatalog, StartMeasurements, MeasureGroup, OverBudget, EndMeasurements, CaptureStation,
       SealStation, RejectUncovered, PrepareRoster, SkipRegional, AskRegional, SkipRecord, Truncate,
       FlushRecords, StageRecord, CaptureRecord, SealRecord, EndRecords, FinishStations,
       RaiseStations, Escape
  <1>2. at \notin {"catalog", "catalog_end", "measure", "request", "capture"}
    BY <1>1 DEF RegionalComplete, RegionalStaged, RegionalPlaces
  <1>3. ~(FetchCatalog \/ FinishCatalog \/ StartMeasurements \/ MeasureGroup \/ OverBudget
            \/ EndMeasurements \/ CaptureStation \/ SealStation \/ RejectUncovered \/ Escape)
    BY <1>2 DEF FetchCatalog, FinishCatalog, StartMeasurements, MeasureGroup, OverBudget,
       EndMeasurements, CaptureStation, SealStation, RejectUncovered, Escape, Guarded
  <1> QED BY <1>1, <1>3, RegionalKeepsPlans, RegionalGivesOut DEF StationWorker

-----------------------------------------------------------------------------
(***************************************************************************)
(* All jobs.                                                               *)
(***************************************************************************)
PlansInv ==
    /\ PlansTyped
    /\ job \in KmaJobs => KmaPlans
    /\ job \in RegionalJobs => RegionalPlans
    /\ job \in AirKoreaJobs => AirKoreaPlans
    /\ job \notin KmaJobs \cup StationJobs => Preparing = {}

\* No attempts yet.
LEMMA InitPlans == ASSUME Init PROVE PlansInv
  <1>1. at = "idle" /\ ~Done /\ PlansTyped /\ Preparing = {}
    BY DEF Init, RunInit, Done, PlansTyped, PlanStates, Preparing
  <1> QED BY <1>1 DEF PlansInv, KmaPlans, RegionalPlans, AirKoreaPlans

\* The jobs without exports have no attempts.
LEMMA NoExportsNoPlans ==
    ASSUME PlansTyped, Preparing = {},
           StartAlerts \/ AlertWorker \/ BeginEvents \/ EventWorker \/ CancelEvents
    PROVE  PlansTyped' /\ Preparing' = {}
  <1>1. CASE \E next : Start(next)
    BY <1>1, StartPreparesNothing
  <1>2. CASE AlertWorker
    <2>1. plans' = plans
      BY <1>2 DEF AlertWorker, AlertShared, PublishChunk, EndFlush, SetupAlerts, AskOffice,
         FlushNotices, NextNotice, FanNotice, EndNotice, EndOffice, EndOffices, SkipLocked,
         NextRound, EndRounds, FailSkipped, FinishAlerts, RaiseAlerts
    <2> QED BY <2>1 DEF PlansTyped, Preparing
  <1>3. CASE BeginEvents \/ EventWorker \/ CancelEvents
    <2>1. plans' = plans \/ plans' = [u \in Units |-> "none"]
      BY <1>3 DEF BeginEvents, EventWorker, StartEvents, NewRow, ThreadFails, ReadPage, RereadFirst,
         PublishEvents, SealCancelled, RaiseEvents, CancelEvents
    <2> QED BY <2>1 DEF PlansTyped, PlanStates, Preparing
  <1> QED BY <1>1, <1>2, <1>3 DEF StartAlerts

\* Other processes change no attempt, and the worker forgets what it held as it dies.
LEMMA PlansAmongOthers ==
    ASSUME PlansInv, CompleteInv, job' = job,
           \/ (SkipOverlap \/ Reap \/ Crash \/ Recover)
                /\ UNCHANGED <<kmaVars, alertVars, stationVars>>
           \/ UNCHANGED <<runVars, kmaVars, alertVars, stationVars>>
    PROVE  PlansInv'
  <1>1. PlansTyped' /\ Preparing' = Preparing
    BY DEF SkipOverlap, Reap, Crash, Recover, runVars, PlansInv, PlansTyped, Preparing
  <1>2. \/ at' = "idle"
        \/ UNCHANGED <<at, back, held, cur, groups, todo>>
    BY DEF SkipOverlap, Reap, Crash, Recover, runVars, kmaVars, stationVars
  <1>3. row' = row \/ (~Done /\ ~Done')
    <2>1. CASE SkipOverlap \/ Reap \/ Crash \/ Recover
      BY <2>1, OthersStoreNothing
    <2>2. CASE UNCHANGED runVars
      BY <2>2 DEF runVars
    <2> QED BY <2>1, <2>2
  <1>4. (Done' => Done) /\ Exports' = Exports /\ (UNCHANGED todo => Rec' = Rec)
    BY <1>3 DEF Done, Exports, Rec
  <1>5. KmaPlans => KmaPlans'
    BY <1>1, <1>2, <1>4 DEF KmaPlans, Sealing, Closing, MidHolds
  <1>6. RegionalPlans => RegionalPlans'
    BY <1>1, <1>2, <1>4 DEF RegionalPlans
  <1>7. AirKoreaPlans => AirKoreaPlans'
    <2>1. CASE at' = "idle"
      BY <1>1, <1>4, <2>1 DEF AirKoreaPlans, CatalogPlaces
    <2>2. CASE UNCHANGED <<at, back, held, cur, groups, todo>>
      BY <1>1, <1>4, <2>2 DEF AirKoreaPlans, CatalogPlaces
    <2> QED BY <1>2, <2>1, <2>2
  <1> QED BY <1>1, <1>5, <1>6, <1>7 DEF PlansInv

\* The induction step.
LEMMA PlansStep ==
    ASSUME PlansInv, CompleteInv, [Next]_vars
    PROVE  PlansInv'
  <1>1. job' = job
    BY JobIsFixed
  <1>2. CASE job \in KmaJobs /\ (StartKma \/ KmaWorker)
    <2>1. PlansTyped' /\ KmaPlans'
      BY <1>1, <1>2, StartKmaPlans, KmaSettles DEF PlansInv, CompleteInv
    <2> QED BY <1>1, <1>2, <2>1, FamiliesAreApart DEF PlansInv
  <1>3. CASE job \in RegionalJobs /\ (StartStations \/ StationWorker)
    <2>1. PlansTyped' /\ RegionalPlans'
      BY <1>3, StartStationPlans, RegionalSettles, FamiliesAreApart DEF PlansInv, CompleteInv
    <2> QED BY <1>1, <1>3, <2>1, FamiliesAreApart DEF PlansInv
  <1>4. CASE job \in AirKoreaJobs /\ (StartStations \/ StationWorker)
    <2>1. PlansTyped' /\ AirKoreaPlans'
      BY <1>1, <1>4, StartStationPlans, AirKoreaSettles, FamiliesAreApart DEF PlansInv, CompleteInv
    <2> QED BY <1>1, <1>4, <2>1, FamiliesAreApart DEF PlansInv
  <1>5. CASE \/ job \in AlertJobs /\ (StartAlerts \/ AlertWorker)
             \/ job \in EventJobs /\ (BeginEvents \/ EventWorker \/ CancelEvents)
    <2>1. job \notin KmaJobs \cup StationJobs
      BY <1>5, FamiliesAreApart
    <2>2. PlansTyped' /\ Preparing' = {}
      BY <1>5, <2>1, NoExportsNoPlans DEF PlansInv
    <2> QED BY <1>1, <2>1, <2>2, FamiliesAreApart DEF PlansInv
  <1> QED BY <1>1, <1>2, <1>3, <1>4, <1>5, JobSteps, FamiliesAreApart, PlansAmongOthers

\* A run that ended well has nothing in preparation.
LEMMA NothingIsPreparing == ASSUME PlansInv, CompleteInv, Done PROVE Preparing = {}
  BY FamiliesAreApart DEF PlansInv, CompleteInv, KmaPlans, RegionalPlans, AirKoreaPlans

\* An exception of the pipeline leaves the attempt of the response in hand at most.
LEMMA OneIsLeft ==
    ASSUME PlansInv, CompleteInv, [Next]_vars, InPipeline, job \in {"nowcast", "forecast"},
           at' = "idle", ~Crash
    PROVE  Cardinality(Preparing') <= 1
  <1>1. job \in KmaJobs /\ job # "mid_export" /\ at # "idle"
    BY DEF KmaJobs, GridJobs, InPipeline
  <1>2. StartKma \/ KmaWorker
    <2>1. ~(SkipOverlap \/ Reap \/ Recover) /\ ~UNCHANGED runVars
      BY <1>1 DEF SkipOverlap, Reap, Recover, runVars
    <2> QED BY <1>1, <2>1, JobSteps, FamiliesAreApart
  <1>3. KmaComplete /\ KmaPlans /\ PlansTyped
    BY <1>1 DEF PlansInv, CompleteInv
  <1>4. RaiseKma
    <2>1. (at = "flush" => back \in {"admit", "append"}) /\ (at = "fanout" => back \in {"seal", "finish"})
      BY <1>1, <1>3 DEF KmaComplete, KmaStaged
    <2>2. ~(EndFlush \/ EndFanout \/ PublishChunk)
      BY <1>1, <2>1 DEF EndFlush, EndFanout, PublishChunk
    <2>3. ~FinishKma /\ ~StartKma
      BY <1>1 DEF FinishKma, StartKma, Start, InPipeline
    <2>4. ~(Setup \/ EnterPipeline \/ _prefetch_grids \/ (\E i \in 1 .. FetchConcurrency : Answer(i)))
      BY <1>1 DEF Setup, EnterPipeline, _prefetch_grids, Answer, Waiting, runVars
    <2>5. ~(Consume \/ Admit \/ StagePart \/ FlushBatch \/ StageLocation)
      BY DEF Consume, Admit, StagePart, FlushBatch, StageLocation, BeginFlush
    <2>6. ~(CapturePart \/ SealPart \/ EndGroup \/ EndPipeline \/ MidRequest \/ MidAnswer \/ EndMid
              \/ Conclude)
      BY DEF CapturePart, BeginFanout, SealPart, EndGroup, EndPipeline, MidRequest, MidAnswer,
         EndMid, Conclude
    <2> QED BY <1>2, <2>2, <2>3, <2>4, <2>5, <2>6 DEF KmaWorker, KmaShared
  <1>5. PICK u : u = cur.unit
    OBVIOUS
  <1>6. Preparing' \subseteq {u}
    BY <1>1, <1>3, <1>4, <1>5, JobIsFixed, EndPlans
  <1>7. PICK P : P = Preparing'
    OBVIOUS
  <1>8. IsFiniteSet({u}) /\ Cardinality({u}) = 1
    BY FS_Singleton
  <1>9. Cardinality(P) <= 1
    BY <1>6, <1>7, <1>8, FS_Subset
  <1> QED BY <1>7, <1>9

\* A run that ended well leaves no export attempt in preparation, and the pipeline of
\* nowcasts and forecasts, when it fails, at most the one in hand
\* (reject_leftovers, finish, publish_regional_records, collect_mid_exports).
THEOREM PlansAreSettled == Spec => PlansSettled
  <1>1. Init => IsQueue(queue) /\ runs \in Nat /\ CompleteInv /\ PlansInv
    BY NothingIsLeft, InitIsComplete, InitPlans DEF Init, RunInit
  <1>2. IsQueue(queue) /\ runs \in Nat /\ CompleteInv /\ PlansInv /\ [Next]_vars
          => (IsQueue(queue) /\ runs \in Nat /\ CompleteInv /\ PlansInv)'
    BY StepsAreOfTheRun, CompleteStep, PlansStep DEF OfTheRun
  <1>3. CompleteInv /\ PlansInv
          => (at = "idle" /\ row \in {"success", "partial"} => Preparing = {})
    BY NothingIsPreparing DEF Done
  <1>4. CompleteInv /\ PlansInv /\ [Next]_vars
          => [InPipeline /\ job \in {"nowcast", "forecast"} /\ at' = "idle"
                => Crash \/ Cardinality(Preparing') <= 1]_vars
    BY OneIsLeft
  <1> QED BY <1>1, <1>2, <1>3, <1>4, PTL DEF Spec, PlansSettled

-----------------------------------------------------------------------------
(***************************************************************************)
(* Alert locations that run after run leaves out.                          *)
(***************************************************************************)
HistoryKnown == \E S : history \in Seq(S) /\ \A h \in S : IsFiniteSet(h.note)

StarvedInv ==
    /\ AlertComplete
    /\ IsFiniteSet(skipped) /\ IsFiniteSet(note) /\ HistoryKnown
    /\ at = "skip_locked" => IsFiniteSet(queue.left) /\ IsFiniteSet(locked)
    /\ StarvedIsReported

\* A note with room for all the locations lists all of them.
LEMMA NoteListsAll ==
    ASSUME NEW locs, IsFiniteSet(locs), Cardinality(locs) <= NoteIds
    PROVE  _alert_skip_note(locs) = locs
  <1> SUFFICES ASSUME NEW l \in locs
               PROVE  Cardinality({m \in locs : m <= l}) <= NoteIds
    BY DEF _alert_skip_note
  <1>1. PICK part : part = {m \in locs : m <= l}
    OBVIOUS
  <1>2. part \subseteq locs
    BY <1>1
  <1>3. IsFiniteSet(part) /\ Cardinality(part) <= Cardinality(locs)
    BY <1>2, FS_Subset
  <1>4. Cardinality(part) \in Nat /\ Cardinality(locs) \in Nat /\ NoteIds \in Nat
    BY <1>3, FS_CardinalityType, AlertAssumption
  <1> QED BY <1>1, <1>3, <1>4

\* What the notes had room for, the run finds in them.
LEMMA StreaksAreFound ==
    ASSUME HistoryKnown, IsFiniteSet(skipped), _starved_alert_locations = {}, UNCHANGED history,
           note' = skipped
    PROVE  Streak' = {}
  <1> SUFFICES ASSUME ~(Cardinality(Counted) < StarvedRuns - 1),
                      NEW l \in skipped,
                      \A i \in Newest(StarvedRuns - 1) :
                          l \in history[i].note /\ Cardinality(history[i].note) <= NoteIds
               PROVE  FALSE
    BY DEF Streak, Counted, Newest
  <1>1. PICK S : history \in Seq(S) /\ \A h \in S : IsFiniteSet(h.note)
    BY DEF HistoryKnown
  <1>2. \A i \in Newest(StarvedRuns - 1) : i \in 1 .. Len(history)
    BY <1>1 DEF Newest, Counted
  <1>3. \A i \in 1 .. Len(history) : IsFiniteSet(history[i].note)
    BY <1>1
  <1>4. \A i \in Newest(StarvedRuns - 1) : l \in _alert_skip_note(history[i].note)
    <2> SUFFICES ASSUME NEW i \in Newest(StarvedRuns - 1) PROVE l \in _alert_skip_note(history[i].note)
      OBVIOUS
    <2>1. PICK locs : locs = history[i].note
      OBVIOUS
    <2>2. IsFiniteSet(locs) /\ Cardinality(locs) <= NoteIds /\ l \in locs
      BY <1>2, <1>3, <2>1
    <2>3. l \in _alert_skip_note(locs)
      BY <2>2, NoteListsAll
    <2> QED BY <2>1, <2>3
  <1> QED BY <1>4 DEF _starved_alert_locations

\* The history of the next run ends with the last one.
LEMMA HistoryGrows ==
    ASSUME HistoryKnown, IsFiniteSet(note),
           NEW keep, NEW all, all = Append(history, [status |-> row, note |-> note]),
           history' = history \/ history' = all \/ history' = Tail(all)
    PROVE  HistoryKnown'
  <1>1. PICK S : history \in Seq(S) /\ \A h \in S : IsFiniteSet(h.note)
    BY DEF HistoryKnown
  <1>2. PICK r, T : r = [status |-> row, note |-> note] /\ T = S \cup {r}
    OBVIOUS
  <1>3. r.note = note
    BY <1>2
  <1>4. \A h \in T : IsFiniteSet(h.note)
    BY <1>1, <1>2, <1>3
  <1>5. history \in Seq(T) /\ r \in T
    BY <1>1, <1>2
  <1>6. all \in Seq(T) /\ all # <<>>
    BY <1>2, <1>5
  <1>7. Tail(all) \in Seq(T)
    BY <1>6
  <1> QED BY <1>4, <1>5, <1>6, <1>7 DEF HistoryKnown

\* A new run has not ended well.
LEMMA StarvedStart == ASSUME StarvedInv, StartAlerts PROVE StarvedInv'
  <1>1. PICK next : next = "setup"
    OBVIOUS
  <1>2. row' = "running" /\ at' = next /\ skipped' = {} /\ note' = {}
    BY <1>1 DEF StartAlerts, Start, NewRow
  <1>3. HistoryKnown'
    <2>1. PICK all : all = Append(history, [status |-> row, note |-> note])
      OBVIOUS
    <2>2. history' = history \/ history' = all \/ history' = Tail(all)
      BY <2>1 DEF StartAlerts
    <2> QED BY <2>1, <2>2, HistoryGrows DEF StarvedInv
  <1>4. IsFiniteSet({})
    BY FS_EmptySet
  <1> QED BY <1>1, <1>2, <1>3, <1>4, StartAlertsComplete DEF StarvedInv, StarvedIsReported

\* The lock rounds look at finitely many locations.
LEMMA RoundsAreFinite ==
    ASSUME NEW vals, IsSeq(vals), queue' = Rounds(vals), locked' = {}
    PROVE  IsFiniteSet(queue'.left) /\ IsFiniteSet(locked')
  <1>1. queue'.left = LocationsOf(vals)
    BY DEF Rounds, chunk_publications
  <1>2. IsFiniteSet(ToSet(vals))
    BY FiniteSeq
  <1>3. PICK V, L : V = ToSet(vals) /\ L = LocationsOf(vals)
    OBVIOUS
  <1>4. L = {v.loc : v \in V}
    BY <1>3 DEF LocationsOf
  <1>5. PICK f : f = [v \in V |-> v.loc]
    OBVIOUS
  <1>6. f \in Surjection(V, L)
    BY <1>4, <1>5 DEF Surjection
  <1>7. IsFiniteSet(L)
    BY <1>2, <1>3, <1>6, FS_Surjection
  <1>8. IsFiniteSet({})
    BY FS_EmptySet
  <1> QED BY <1>1, <1>3, <1>7, <1>8

\* The steps of the worker before it judges the run.
LEMMA StarvedRounds ==
    ASSUME StarvedInv, AlertWorker, ~FinishAlerts
    PROVE  /\ UNCHANGED history
           /\ IsFiniteSet(skipped') /\ IsFiniteSet(note')
           /\ at' = "skip_locked" => IsFiniteSet(queue'.left) /\ IsFiniteSet(locked')
           /\ row' = row \/ row' = "failed"
           /\ ~Done
  <1>1. at # "idle"
    BY DEF AlertWorker, AlertShared, PublishChunk, EndFlush, SetupAlerts, AskOffice, FlushNotices,
       NextNotice, FanNotice, EndNotice, EndOffice, EndOffices, SkipLocked, NextRound, EndRounds,
       FailSkipped, FinishAlerts, RaiseAlerts
  <1>2. ~Done /\ IsSeq(values)
    BY <1>1 DEF StarvedInv, AlertComplete, AlertStaged
  <1>3. CASE FailSkipped \/ RaiseAlerts
    <2>1. IsFiniteSet({})
      BY FS_EmptySet
    <2>2. at' = "idle" /\ skipped' = {} /\ (note' = note \/ note' = skipped)
          /\ history' = history /\ (row' = row \/ row' = "failed")
      BY <1>3 DEF FailSkipped, RaiseAlerts, Fail, Forget
    <2>3. at' # "skip_locked"
      BY <2>2
    <2> QED BY <1>2, <2>1, <2>2, <2>3 DEF StarvedInv
  <1>4. CASE FanNotice
    <2>1. PICK f, new : f = Fact(notice, Head(fan), 1) /\ new = Append(values, f)
      OBVIOUS
    <2>2. IsSeq(new)
      BY <1>2, <2>1, AppendedSeq
    <2>3. values' = new /\ UNCHANGED <<history, skipped, note, row>> /\ at = "fan"
          /\ (at' = "skip_locked" => queue' = Rounds(new) /\ locked' = {})
      BY <1>4, <2>1 DEF FanNotice
    <2> QED BY <1>2, <2>2, <2>3, RoundsAreFinite DEF StarvedInv
  <1>5. CASE FlushNotices \/ EndOffices
    <2>1. UNCHANGED <<history, skipped, note, row>> /\ queue' = Rounds(values) /\ locked' = {}
      BY <1>5 DEF FlushNotices, EndOffices, BeginAlertFlush
    <2> QED BY <1>2, <2>1, RoundsAreFinite DEF StarvedInv
  <1>6. CASE SkipLocked
    <2>1. PICK busy \in Busy(location_chunk) : locked' = locked \cup busy
      BY <1>6 DEF SkipLocked
    <2>2. UNCHANGED <<history, skipped, note, row>> /\ at = "skip_locked"
          /\ queue' = [queue EXCEPT !.left = @ \ location_chunk]
      BY <1>6 DEF SkipLocked
    <2>3. IsFiniteSet(queue.left) /\ IsFiniteSet(locked)
      BY <2>2 DEF StarvedInv
    <2>4. busy \subseteq queue.left
      BY DEF Busy, location_chunk
    <2>5. IsFiniteSet(locked')
      BY <2>1, <2>3, <2>4, FS_Subset, FS_Union
    <2>6. queue'.left \subseteq queue.left
      BY <2>2
    <2> QED BY <1>2, <2>2, <2>3, <2>5, <2>6, FS_Subset DEF StarvedInv
  <1>7. CASE NextRound
    <2>1. UNCHANGED <<history, skipped, note, row>> /\ at = "skip_locked"
          /\ queue' = [Rounds(values) EXCEPT !.left = locked] /\ locked' = {}
      BY <1>7 DEF NextRound
    <2>2. queue'.left = locked
      BY <2>1 DEF Rounds, chunk_publications
    <2>3. IsFiniteSet({})
      BY FS_EmptySet
    <2> QED BY <1>2, <2>1, <2>2, <2>3 DEF StarvedInv
  <1>8. CASE EndRounds
    <2>1. UNCHANGED <<history, note, row>> /\ at = "skip_locked" /\ at' = "flush"
          /\ skipped' = skipped \cup locked
      BY <1>8 DEF EndRounds
    <2>2. IsFiniteSet(skipped')
      BY <2>1, FS_Union DEF StarvedInv
    <2>3. at' # "skip_locked"
      BY <2>1
    <2> QED BY <1>2, <2>1, <2>2, <2>3 DEF StarvedInv
  <1>9. CASE AlertShared \/ SetupAlerts \/ AskOffice \/ NextNotice \/ EndNotice \/ EndOffice
    <2>1. UNCHANGED <<history, note, row, skipped, locked>>
      BY <1>9 DEF AlertShared, PublishChunk, EndFlush, SetupAlerts, AskOffice, NextNotice, EndNotice,
         EndOffice, alertVars
    <2>2. at' # "skip_locked"
      <3>1. CASE AlertShared
        <4>1. at = "flush" \/ at = "fanout"
          BY <3>1 DEF AlertShared, PublishChunk, EndFlush
        <4>2. at' = at \/ (at = "flush" /\ at' = back)
          BY <3>1 DEF AlertShared, PublishChunk, EndFlush
        <4>3. at = "flush" => back \in AlertPlaces
          BY <1>1 DEF StarvedInv, AlertComplete, AlertStaged, AlertFlushed
        <4> QED BY <4>1, <4>2, <4>3 DEF AlertPlaces
      <3> QED BY <1>9, <3>1 DEF SetupAlerts, AskOffice, NextNotice, EndNotice, EndOffice
    <2> QED BY <1>2, <2>1, <2>2 DEF StarvedInv
  <1> QED BY <1>3, <1>4, <1>5, <1>6, <1>7, <1>8, <1>9 DEF AlertWorker

\* A run that finds nothing starved may end as a success.
LEMMA StarvedFinish ==
    ASSUME StarvedInv, FinishAlerts
    PROVE  /\ IsFiniteSet(skipped') /\ IsFiniteSet(note') /\ HistoryKnown'
           /\ at' = "idle" /\ StarvedIsReported'
  <1>1. at' = "idle" /\ note' = skipped /\ skipped' = {} /\ history' = history
        /\ row' = AlertStatus
    BY DEF FinishAlerts, Complete, Forget
  <1>2. IsFiniteSet({})
    BY FS_EmptySet
  <1>3. row' = "success" => _starved_alert_locations = {}
    BY <1>1 DEF AlertStatus
  <1>4. row' = "success" => Streak' = {}
    BY <1>1, <1>3, StreaksAreFound DEF StarvedInv
  <1> QED BY <1>1, <1>2, <1>4 DEF StarvedInv, StarvedIsReported, HistoryKnown

\* Every step of the worker.
LEMMA StarvedWorks ==
    ASSUME StarvedInv, IsQueue(queue), AlertWorker
    PROVE  StarvedInv'
  <1>1. AlertComplete'
    BY AlertWorks DEF StarvedInv
  <1>2. CASE FinishAlerts
    <2>1. at' # "skip_locked"
      BY <1>2, StarvedFinish
    <2> QED BY <1>1, <1>2, <2>1, StarvedFinish DEF StarvedInv
  <1>3. CASE ~FinishAlerts
    <2>1. /\ UNCHANGED history
          /\ IsFiniteSet(skipped') /\ IsFiniteSet(note')
          /\ at' = "skip_locked" => IsFiniteSet(queue'.left) /\ IsFiniteSet(locked')
          /\ row' = row \/ row' = "failed"
          /\ ~Done
      BY <1>3, StarvedRounds
    <2>2. row' # "success"
      BY <2>1 DEF Done
    <2> QED BY <1>1, <2>1, <2>2 DEF StarvedInv, StarvedIsReported, HistoryKnown
  <1> QED BY <1>2, <1>3

\* Steps of other processes, and of other jobs.
LEMMA StarvedAmongOthers ==
    ASSUME StarvedInv,
           \/ (SkipOverlap \/ Reap \/ Crash \/ Recover) /\ UNCHANGED alertVars
           \/ UNCHANGED <<runVars, alertVars>>
    PROVE  StarvedInv'
  <1>1. UNCHANGED <<note, history, skipped, locked>>
    BY DEF alertVars
  <1>2. Streak' = Streak
    BY <1>1 DEF Streak, Counted, Newest
  <1>3. /\ at' = "skip_locked" => at = "skip_locked" /\ queue' = queue
        /\ at' = "idle" /\ row' = "success" => at = "idle" /\ row = "success"
    <2>1. CASE UNCHANGED runVars
      BY <2>1 DEF runVars
    <2>2. CASE SkipOverlap \/ Reap \/ Crash \/ Recover
      <3>1. at' # "idle" => UNCHANGED <<at, queue>>
        BY <2>2, OthersStoreNothing DEF runData
      <3>2. Done => at = "idle"
        BY DEF StarvedInv, AlertComplete
      <3>3. row' = row \/ (~Done /\ ~Done')
        BY <2>2, OthersStoreNothing
      <3>4. "skip_locked" # "idle"
        OBVIOUS
      <3> QED BY <3>1, <3>2, <3>3, <3>4 DEF Done
    <2> QED BY <2>1, <2>2
  <1> QED BY <1>1, <1>2, <1>3, AlertAmongOthers DEF StarvedInv, StarvedIsReported, HistoryKnown

\* The induction step.
LEMMA StarvedStep ==
    ASSUME StarvedInv, job \in AlertJobs, IsQueue(queue), [Next]_vars
    PROVE  StarvedInv'
  <1>1. \/ StartAlerts \/ AlertWorker
        \/ (SkipOverlap \/ Reap \/ Crash \/ Recover) /\ UNCHANGED alertVars
        \/ UNCHANGED <<runVars, alertVars>>
    BY JobSteps, FamiliesAreApart
  <1> QED BY <1>1, StarvedStart, StarvedWorks, StarvedAmongOthers

\* Other jobs report nothing skipped.
LEMMA NoteIsOfAlerts == ASSUME [Next]_vars, job \notin AlertJobs PROVE note' = note
  <1>1. CASE UNCHANGED vars
    BY <1>1 DEF vars, alertVars
  <1>2. CASE Starts
    BY <1>2 DEF Starts, StartAlerts, OthersOfKma, OthersOfStations, OthersOfEvents,
       OthersOfRetention, alertVars
  <1>3. CASE Worker
    BY <1>3 DEF Worker, AlertWorker, OthersOfKma, OthersOfStations, OthersOfEvents,
       OthersOfRetention, alertVars
  <1>4. CASE Others
    BY <1>4 DEF Others, OthersOfTheRow, OthersOfEvents, OthersOfTargets, OthersOfRetention, alertVars
  <1> QED BY <1>1, <1>2, <1>3, <1>4 DEF Next

ReportsInv ==
    /\ IsQueue(queue) /\ runs \in Nat
    /\ job \in AlertJobs => StarvedInv
    /\ job \notin AlertJobs => note = {}

\* An alert location skipped by this run and the counted runs before it never hides
\* behind a green run, as long as the notes had room (_starved_alert_locations).
THEOREM StarvedAreReported == Spec => []StarvedIsReported
  <1>1. Init => ReportsInv
    <2> SUFFICES ASSUME Init PROVE IsQueue(queue) /\ runs \in Nat /\ StarvedInv /\ note = {}
      BY DEF ReportsInv
    <2>1. at = "idle" /\ row = "none" /\ history = <<>> /\ note = {} /\ skipped = {}
          /\ queue = NothingQueued /\ runs = 0
      BY DEF Init, RunInit, AlertInit
    <2>2. IsFiniteSet({})
      BY FS_EmptySet
    <2>3. history \in Seq({})
      BY <2>1
    <2>4. HistoryKnown
      BY <2>3 DEF HistoryKnown
    <2>5. StarvedInv
      BY <2>1, <2>2, <2>4 DEF StarvedInv, AlertComplete, Done, StarvedIsReported
    <2> QED BY <2>1, <2>5, NothingIsLeft
  <1>2. ReportsInv /\ [Next]_vars => ReportsInv'
    <2> SUFFICES ASSUME ReportsInv, [Next]_vars PROVE ReportsInv'
      OBVIOUS
    <2>1. job' = job /\ IsQueue(queue)' /\ (runs \in Nat)'
      BY JobIsFixed, StepsAreOfTheRun DEF ReportsInv, OfTheRun
    <2> QED BY <2>1, StarvedStep, NoteIsOfAlerts DEF ReportsInv
  <1>3. ReportsInv => StarvedIsReported
    BY DEF ReportsInv, StarvedInv, StarvedIsReported, Streak
  <1> QED BY <1>1, <1>2, <1>3, PTL DEF Spec

-----------------------------------------------------------------------------
(***************************************************************************)
(* The windows of the rotation.                                            *)
(***************************************************************************)
\* A quotient and its remainder.
LEMMA DivMod ==
    ASSUME NEW x \in Int, NEW n \in Nat \ {0}
    PROVE  \E q \in Int, r \in 0 .. n - 1 : x \div n = q /\ x % n = r /\ x = n * q + r
  <1>1. x \div n \in Int
    OBVIOUS
  <1>2. x % n \in 0 .. n - 1
    OBVIOUS
  <1>3. x = n * (x \div n) + (x % n)
    OBVIOUS
  <1> QED BY <1>1, <1>2, <1>3

\* No multiple of n but zero is nearer to zero than n.
LEMMA NoMultipleBetween ==
    ASSUME NEW n \in Nat \ {0}, NEW d \in Int, n * d < n, -n < n * d
    PROVE  d = 0
  <1>1. CASE d >= 1
    <2>1. n * d >= n * 1
      BY <1>1
    <2> QED BY <2>1
  <1>2. CASE d <= -1
    <2>1. n * d <= n * (-1)
      BY <1>2
    <2> QED BY <2>1
  <1> QED BY <1>1, <1>2

\* A remainder is what is left of any multiple.
LEMMA RemainderIs ==
    ASSUME NEW x \in Int, NEW n \in Nat \ {0}, NEW q \in Int, NEW r \in 0 .. n - 1,
           x = n * q + r
    PROVE  x % n = r
  <1>1. PICK p \in Int, t \in 0 .. n - 1 : x = n * p + t /\ x % n = t
    BY DivMod
  <1>2. n * q \in Int /\ n * p \in Int /\ n * (p - q) = n * p - n * q
    OBVIOUS
  <1>3. n * (p - q) = r - t
    BY <1>1, <1>2
  <1>4. n * (p - q) < n /\ -n < n * (p - q)
    BY <1>1, <1>3
  <1>5. p - q = 0
    BY <1>4, NoMultipleBetween
  <1>6. p = q
    BY <1>5
  <1> QED BY <1>1, <1>6

\* Remainders may be taken before an addition.
LEMMA RemainderOfSum ==
    ASSUME NEW x \in Int, NEW i \in Int, NEW n \in Nat \ {0}
    PROVE  ((x % n) + i) % n = (x + i) % n
  <1>1. PICK q \in Int, r \in 0 .. n - 1 : x = n * q + r /\ x % n = r
    BY DivMod
  <1>2. PICK p \in Int, t \in 0 .. n - 1 : r + i = n * p + t /\ (r + i) % n = t
    <2>1. PICK y \in Int : y = r + i
      OBVIOUS
    <2>2. \E p \in Int, t \in 0 .. n - 1 : y = n * p + t /\ y % n = t
      BY DivMod
    <2> QED BY <2>1, <2>2
  <1>3. n * q \in Int /\ n * p \in Int /\ n * (p + q) = n * p + n * q
    OBVIOUS
  <1>4. x + i = n * (p + q) + t
    BY <1>1, <1>2, <1>3
  <1>5. (x + i) % n = t
    <2>1. PICK y \in Int, z \in Int : y = x + i /\ z = p + q
      OBVIOUS
    <2>2. y = n * z + t
      BY <1>4, <2>1
    <2>3. y % n = t
      BY <2>2, RemainderIs
    <2> QED BY <2>1, <2>3
  <1> QED BY <1>1, <1>2, <1>5

\* So many windows of b places cover n places.
LEMMA WindowsEnough ==
    ASSUME NEW n \in Nat \ {0}, NEW b \in Nat \ {0}, NEW j \in 0 .. n - 1
    PROVE  j \div b \in 0 .. ((n + b - 1) \div b) - 1
  <1>1. PICK k \in Int, t \in 0 .. b - 1 : j = b * k + t /\ j \div b = k
    BY DivMod
  <1>2. PICK m \in Int, u \in 0 .. b - 1 : n + b - 1 = b * m + u /\ (n + b - 1) \div b = m
    BY DivMod
  <1>3. k >= 0
    <2> SUFFICES ASSUME k <= -1 PROVE FALSE
      OBVIOUS
    <2>1. b * k <= b * (-1)
      OBVIOUS
    <2> QED BY <1>1, <2>1
  <1>4. k <= m - 1
    <2> SUFFICES ASSUME m - k <= 0 PROVE FALSE
      OBVIOUS
    <2>1. b * m \in Int /\ b * k \in Int /\ b * m <= b * k
      OBVIOUS
    <2> QED BY <1>1, <1>2, <2>1
  <1> QED BY <1>1, <1>2, <1>3, <1>4

\* One of w windows, of `take' places on a circle of n, reaches place p.
Reached(p, first, w, take, n) ==
    \E s \in first .. first + w - 1, i \in 0 .. take - 1 : p = (((s * take) % n) + i) % n

\* The windows of successive slots follow one another around the circle.
LEMMA WindowsCover ==
    ASSUME NEW n \in Nat \ {0}, NEW b \in Nat \ {0}, NEW first \in Nat, NEW p \in 0 .. n - 1,
           NEW take, take = IF b < n THEN b ELSE n, NEW w, w = (n + b - 1) \div b
    PROVE  Reached(p, first, w, take, n)
  <1>1. w \in Int /\ \A j \in 0 .. n - 1 : j \div b \in 0 .. w - 1
    BY WindowsEnough
  <1>2. CASE b < n
    <2>1. PICK d \in Int : d = p - first * b
      OBVIOUS
    <2>2. PICK q \in Int, j \in 0 .. n - 1 : d = n * q + j
      BY DivMod
    <2>3. PICK k \in Int, i \in 0 .. b - 1 : j = b * k + i /\ j \div b = k
      BY DivMod
    <2>4. k \in 0 .. w - 1
      BY <1>1, <2>3
    <2>5. (first + k) * b = first * b + b * k /\ b * k \in Int /\ n * q \in Int /\ n * (0 - q) = 0 - n * q
      OBVIOUS
    <2>6. (first + k) * b + i = n * (0 - q) + p
      BY <2>1, <2>2, <2>3, <2>5
    <2>7. PICK x \in Int, y \in Int, z \in Int : x = (first + k) * b /\ y = x + i /\ z = 0 - q
      BY <2>5
    <2>8. ((((first + k) * b) % n) + i) % n = p
      <3>1. y = n * z + p
        BY <2>6, <2>7
      <3>2. y % n = p
        BY <3>1, RemainderIs
      <3>3. i \in Int
        OBVIOUS
      <3>4. ((x % n) + i) % n = (x + i) % n
        BY <3>3, RemainderOfSum
      <3> QED BY <2>7, <3>2, <3>4
    <2>9. first + k \in first .. first + w - 1 /\ i \in 0 .. take - 1 /\ take = b
      BY <1>1, <1>2, <2>4
    <2> QED BY <2>8, <2>9 DEF Reached
  <1>3. CASE ~(b < n)
    <2>1. 0 \div b \in 0 .. w - 1
      BY <1>1
    <2>2. first \in first .. first + w - 1
      BY <1>1, <2>1
    <2>3. first * n = n * first + 0 /\ first * n \in Int
      OBVIOUS
    <2>4. (first * n) % n = 0
      BY <2>3, RemainderIs
    <2>5. p = n * 0 + p
      OBVIOUS
    <2>6. (0 + p) % n = p
      BY <2>5, RemainderIs
    <2>7. take = n /\ p \in 0 .. take - 1
      BY <1>3
    <2> QED BY <2>2, <2>4, <2>6, <2>7 DEF Reached
  <1> QED BY <1>2, <1>3

-----------------------------------------------------------------------------
(***************************************************************************)
(* The choice of KMA targets.                                              *)
(***************************************************************************)
\* The catalog is finite, and so are the grids it is on.
LEMMA GridsAreFinite ==
    ASSUME enabled \subseteq Anchors
    PROVE  /\ IsFiniteSet(Covered) /\ Cardinality(Covered) \in Nat
           /\ IsFiniteSet(FillGrid) /\ Cardinality(FillGrid) \in Nat
           /\ FillGrid \subseteq Nat
  <1>1. PICK A, f : A = Anchors /\ f = GridOf
    OBVIOUS
  <1>2. IsFiniteSet(A) /\ f \in [A -> Nat]
    BY <1>1, RotationAssumption
  <1>3. PICK all : all = {f[a] : a \in A}
    OBVIOUS
  <1>4. f \in Surjection(A, all)
    BY <1>2, <1>3 DEF Surjection
  <1>5. IsFiniteSet(all)
    BY <1>2, <1>4, FS_Surjection
  <1>6. all \subseteq Nat
    BY <1>2, <1>3
  <1>7. Covered \subseteq all /\ FillGrid \subseteq all
    BY <1>1, <1>3, RotationAssumption DEF Covered, FillGrid, FillStations, _kma_grid_targets
  <1>8. IsFiniteSet(Covered) /\ IsFiniteSet(FillGrid)
    BY <1>5, <1>7, FS_Subset
  <1> QED BY <1>6, <1>7, <1>8, FS_CardinalityType

\* A grid of the circle has a place on it.
LEMMA PlacesAreOnTheCircle ==
    ASSUME enabled \subseteq Anchors, NEW g \in FillGrid
    PROVE  Place(g) \in 0 .. Cardinality(FillGrid) - 1
  <1>1. PICK S : S = FillGrid
    OBVIOUS
  <1>2. IsFiniteSet(S) /\ Cardinality(S) \in Nat /\ g \in Nat
    BY <1>1, GridsAreFinite
  <1>3. PICK B : B = {h \in S : h < g}
    OBVIOUS
  <1>4. B \subseteq S /\ g \notin B /\ g \in S
    BY <1>1, <1>2, <1>3
  <1>5. IsFiniteSet(B) /\ Cardinality(B) <= Cardinality(S) /\ Cardinality(B) \in Nat
    BY <1>2, <1>4, FS_Subset, FS_CardinalityType
  <1>6. Cardinality(B) # Cardinality(S)
    BY <1>2, <1>4, FS_Subset
  <1>7. Place(g) = Cardinality(B)
    BY <1>1, <1>3 DEF Place
  <1> QED BY <1>1, <1>2, <1>5, <1>6, <1>7

Chain == [slot : Nat, tag : {NoTag} \cup Nat, done : BOOLEAN]
TargetsOf(s) == Covered \cup _station_grid_fill(s)

RotationInv ==
    /\ slot \in Nat /\ edits \in Nat
    /\ enabled \subseteq Anchors
    /\ chain \subseteq Chain
    /\ \A r \in asked : /\ r.edit \in Nat /\ r.edit <= edits
                        /\ r.edit = edits => r.grids = TargetsOf(r.slot)

\* The first slot, with nothing asked for yet.
LEMMA RotationStarts == Init => RotationInv
  BY DEF Init, RotationInit, RotationInv

\* What was asked for under this version of the catalog is what its slot's window holds.
LEMMA RotationStep ==
    ASSUME RotationInv, RotationNext \/ UNCHANGED rotationVars
    PROVE  RotationInv'
  <1>1. CASE UNCHANGED <<enabled, edits>>
    <2>1. \A s : TargetsOf(s)' = TargetsOf(s)
      BY <1>1 DEF TargetsOf, Covered, _station_grid_fill, FillGrid, FillStations, Budget, Place,
         _kma_grid_targets
    <2>2. enabled' \subseteq Anchors /\ edits' \in Nat /\ edits' = edits
      BY <1>1 DEF RotationInv
    <2>3. CASE Tick \/ UNCHANGED rotationVars
      <3>1. slot' \in Nat /\ chain' = chain /\ asked' = asked
        BY <2>3 DEF Tick, rotationVars, RotationInv
      <3> QED BY <2>1, <2>2, <3>1 DEF RotationInv
    <2>4. CASE CreateRun
      <3>1. PICK tag \in {NoTag} \cup (0 .. slot) :
               chain' = chain \cup {[slot |-> slot, tag |-> tag, done |-> FALSE]}
        BY <2>4 DEF CreateRun
      <3>2. slot \in Nat /\ tag \in {NoTag} \cup Nat
        BY DEF RotationInv
      <3>3. [slot |-> slot, tag |-> tag, done |-> FALSE] \in Chain
        BY <3>2 DEF Chain
      <3>4. chain' \subseteq Chain /\ slot' \in Nat /\ asked' = asked
        BY <2>4, <3>1, <3>3 DEF CreateRun, RotationInv
      <3> QED BY <2>1, <2>2, <3>4 DEF RotationInv
    <2>5. CASE CollectTargets
      <3>1. PICK c \in chain :
              /\ asked' = asked \cup {[slot |-> IF c.tag # NoTag THEN c.tag ELSE c.slot, edit |-> edits,
                                       grids |-> Covered \cup _station_grid_fill(_kma_rotation_slot(c))]}
              /\ chain' = (chain \ {c}) \cup {[c EXCEPT !.done = TRUE]}
              /\ UNCHANGED <<slot, enabled, edits>>
        BY <2>5 DEF CollectTargets
      <3>2. c \in Chain
        BY DEF RotationInv
      <3>3. [c EXCEPT !.done = TRUE] \in Chain
        BY <3>2 DEF Chain
      <3>4. chain' \subseteq Chain /\ slot' \in Nat
        BY <3>1, <3>3 DEF RotationInv
      <3>5. PICK s, g : s = _kma_rotation_slot(c) /\ g = TargetsOf(s)
        OBVIOUS
      <3>6. asked' = asked \cup {[slot |-> s, edit |-> edits, grids |-> g]}
        BY <3>1, <3>5 DEF _kma_rotation_slot, TargetsOf
      <3>7. \A r \in asked' : /\ r.edit \in Nat /\ r.edit <= edits'
                              /\ r.edit = edits' => r.grids = TargetsOf(r.slot)'
        BY <2>1, <2>2, <3>5, <3>6 DEF RotationInv
      <3> QED BY <2>2, <3>4, <3>7 DEF RotationInv
    <2>6. CASE EditCatalog
      BY <1>1, <2>6 DEF EditCatalog, RotationInv
    <2> QED BY <2>3, <2>4, <2>5, <2>6 DEF RotationNext
  <1>2. CASE EditCatalog
    <2>1. edits \in Nat /\ edits' = edits + 1 /\ UNCHANGED <<slot, chain, asked>>
      BY <1>2 DEF EditCatalog, RotationInv
    <2>2. enabled' \subseteq Anchors
      BY <1>2 DEF EditCatalog, RotationInv
    <2>3. \A r \in asked' : r.edit \in Nat /\ r.edit <= edits' /\ r.edit # edits'
      BY <2>1 DEF RotationInv
    <2> QED BY <2>1, <2>2, <2>3 DEF RotationInv
  <1> QED BY <1>1, <1>2 DEF RotationNext, Tick, CreateRun, CollectTargets, rotationVars

\* A turn asks for every grid of an enabled location.
LEMMA TurnIsFull == ASSUME RotationInv PROVE FullSweep
  <1> DEFINE Slots(from) == from .. from + rotation_runs - 1
             Turn(from) == {r \in asked : r.edit = edits /\ r.slot \in Slots(from)}
  <1> SUFFICES ASSUME NEW from \in 0 .. slot, Budget > 0,
                      {r.slot : r \in Turn(from)} = Slots(from), Turn(from) # {}
               PROVE  {GridOf[a] : a \in enabled} \subseteq UNION {r.grids : r \in Turn(from)}
    BY DEF FullSweep
  <1> SUFFICES ASSUME NEW a \in enabled
               PROVE  \E r \in Turn(from) : GridOf[a] \in r.grids
    OBVIOUS
  <1> DEFINE turn == Turn(from)
  <1>1. \A r \in turn : r.grids = Covered \cup _station_grid_fill(r.slot)
    BY DEF RotationInv, TargetsOf
  <1>2. PICK g : g = GridOf[a]
    OBVIOUS
  <1>3. CASE g \in Covered
    BY <1>1, <1>2, <1>3
  <1>4. CASE g \notin Covered
    <2>1. a \notin _kma_grid_targets
      BY <1>2, <1>4 DEF Covered
    <2>2. a \in FillStations
      BY <2>1 DEF FillStations, _kma_grid_targets
    <2>3. g \in FillGrid
      BY <1>2, <1>4, <2>2 DEF FillGrid
    <2>4. enabled \subseteq Anchors /\ from \in Nat
      BY DEF RotationInv
    <2>5. PICK n, b, p : n = Cardinality(FillGrid) /\ b = Budget /\ p = Place(g)
      OBVIOUS
    <2>6. n \in Nat /\ p \in 0 .. n - 1
      BY <2>3, <2>4, <2>5, GridsAreFinite, PlacesAreOnTheCircle
    <2>7. b \in Nat \ {0}
      BY <2>4, <2>5, GridsAreFinite, RotationAssumption DEF Budget
    <2>8. n \in Nat \ {0} /\ rotation_runs = (n + b - 1) \div b
      BY <2>5, <2>6 DEF rotation_runs
    <2>9. PICK take : take = IF b < n THEN b ELSE n
      OBVIOUS
    <2>10. PICK w : w = (n + b - 1) \div b /\ w = rotation_runs
      BY <2>8
    <2>11. PICK s \in from .. from + w - 1, i \in 0 .. take - 1 : p = (((s * take) % n) + i) % n
      <3>1. n \in Nat \ {0} /\ b \in Nat \ {0} /\ from \in Nat /\ p \in 0 .. n - 1
        BY <2>4, <2>6, <2>7, <2>8
      <3>2. Reached(p, from, w, take, n)
        BY <2>9, <2>10, <3>1, WindowsCover
      <3> QED BY <3>2 DEF Reached
    <2>12. g \in _station_grid_fill(s)
      BY <2>3, <2>5, <2>9, <2>11 DEF _station_grid_fill
    <2>13. PICK r \in turn : r.slot = s
      BY <2>10, <2>11
    <2> QED BY <1>1, <1>2, <2>12, <2>13
  <1> QED BY <1>3, <1>4

\* Once every slot of one turn has been collected with one version of the catalog, every
\* enabled location has been asked for (_station_grid_fill, _kma_rotation_slot).
THEOREM TurnsAreFull == Spec => []FullSweep
  <1>1. Init => RotationInv
    BY RotationStarts
  <1>2. RotationInv /\ [Next]_vars => RotationInv'
    <2>1. [Next]_vars => RotationNext \/ UNCHANGED rotationVars
      <3>1. UNCHANGED vars => UNCHANGED rotationVars
        BY DEF vars
      <3>2. Next => RotationNext \/ UNCHANGED rotationVars
        BY DEF Next, Starts, Worker, Others, OthersOfKma, OthersOfAlerts, OthersOfStations,
           OthersOfEvents, OthersOfRetention, OthersOfTheRow
      <3> QED BY <3>1, <3>2
    <2> QED BY <2>1, RotationStep
  <1>3. RotationInv => FullSweep
    BY TurnIsFull
  <1> QED BY <1>1, <1>2, <1>3, PTL DEF Spec

-----------------------------------------------------------------------------
(***************************************************************************)
(* The short-forecast retention job.                                       *)
(***************************************************************************)
\* A later key has no earlier hour.
LEMMA HoursAreOrdered ==
    ASSUME NEW j \in Nat, NEW k \in Nat, j <= k
    PROVE  HourOf(j) \in Nat /\ HourOf(k) \in Nat /\ HourOf(j) <= HourOf(k)
  <1> DEFINE d == PerHour
             p == j \div d
             q == k \div d
  <1>1. d \in Nat /\ d > 0
    BY ShortRetentionAssumption
  <1>2. p \in Nat /\ q \in Nat /\ d * p <= j /\ j < d * p + d /\ d * q <= k /\ k < d * q + d
    <2> HIDE DEF d
    <2> QED BY <1>1
  <1>3. ~(p >= q + 1)
    <2> SUFFICES ASSUME p >= q + 1 PROVE FALSE
      OBVIOUS
    <2> HIDE DEF d, p, q
    <2>1. d * p >= d * (q + 1)
      BY <1>1, <1>2
    <2>2. d * (q + 1) = d * q + d
      BY <1>1, <1>2
    <2> QED BY <1>1, <1>2, <2>1, <2>2
  <1> HIDE DEF d, p, q
  <1>4. p <= q
    BY <1>2, <1>3
  <1> QED BY <1>2, <1>4 DEF HourOf, p, q, d

Positions == Nat \cup {NoKey}

Reasons == {"none", "policy_changed", "ahead_of_cutoff", "periodic_head_sweep"}
PurgeRow == [at : {"batch", "end"}, key : Positions, fallback : Positions, scanned : Int,
             discarded : Reasons, head : BOOLEAN, cutoff : Int, batches : Int, deleted : BOOLEAN,
             remaining : {"unknown", "some", "none"},
             status : {"budget_exhausted", "complete_snapshot", "deferred"}, new : SUBSET Nat]

\* What has been stored since the head was last swept, by the run's own account.
Known == IF purge.head THEN purge.new ELSE arrived

\* What a run under way knows.
PurgeKnows ==
    purge.at # "idle" =>
        /\ purge \in PurgeRow
        /\ purge.fallback \in {NoKey, saved.key}
        /\ purge.scanned <= swept
        /\ hour - swept < SweepHours
        /\ {k \in forecasts : k <= purge.key} \subseteq Known
        /\ purge.status = "complete_snapshot" =>
              purge.at = "end" /\ Expired(purge.cutoff) \subseteq Known

ShortInv ==
    /\ hour \in Int /\ swept \in Int /\ policy \in Nat
    /\ forecasts \in SUBSET Nat /\ IsFiniteSet(forecasts) /\ arrived \in SUBSET Nat
    /\ saved.key \in Positions /\ saved.head_scan_at \in Int /\ saved.at \in Int
    /\ saved.head_scan_at <= swept
    /\ PurgeKnows
    /\ NothingHidesBeforePosition

ShortStep ==
    \/ StartPurge \/ PurgeBatch \/ DeferBatch \/ ExhaustBudget \/ FinishPurge \/ KillPurge
    \/ StoreForecast \/ PassHour \/ ChangePolicy \/ SetClockBack
    \/ UNCHANGED shortVars

\* The steps of a behaviour, as far as retention sees them.
LEMMA ShortSteps == ASSUME [Next]_vars PROVE ShortStep
  <1>1. CASE UNCHANGED vars
    BY <1>1 DEF vars, ShortStep
  <1>2. CASE Starts
    BY <1>2 DEF Starts, ShortStep, OthersOfKma, OthersOfAlerts, OthersOfStations, OthersOfEvents,
       shortVars
  <1>3. CASE Worker
    BY <1>3 DEF Worker, ShortStep, ShortWorker, OthersOfKma, OthersOfAlerts, OthersOfStations,
       OthersOfEvents, shortVars
  <1>4. CASE Others
    BY <1>4 DEF Others, OthersOfTheRow, ShortStep, ShortSurroundings, OthersOfEvents, OthersOfTargets, shortVars
  <1> QED BY <1>1, <1>2, <1>3, <1>4 DEF Next

\* The initial states.
LEMMA ShortInitial == Init => ShortInv
  <1> SUFFICES ASSUME Init PROVE ShortInv
    OBVIOUS
  <1>1. /\ hour = KeepHours /\ policy = 0 /\ swept = 0 /\ forecasts = {} /\ arrived = {}
        /\ saved = NoMetadata /\ purge = NoPurge /\ KeepHours \in Nat
        /\ SweepHours \in Nat /\ SweepHours > 0
    BY ShortRetentionAssumption DEF Init, ShortInit
  <1>2. /\ saved.key = -1 /\ saved.head_scan_at = 0 /\ saved.at = 0 /\ saved.status = "none"
        /\ purge.at = "idle"
    BY <1>1 DEF NoMetadata, NoPurge, NoKey
  <1>3. IsFiniteSet(forecasts)
    BY <1>1, FS_EmptySet
  <1>4. NothingHidesBeforePosition /\ PurgeKnows
    BY <1>1, <1>2 DEF NothingHidesBeforePosition, PurgeKnows
  <1> QED BY <1>1, <1>2, <1>3, <1>4 DEF ShortInv, Positions, NoKey

\* Where a run starts, and what the rows before that place are.
LEMMA ResumeIsSound ==
    ASSUME ShortInv
    PROVE  LET start == resume_position
           IN  /\ start.after \in {NoKey, saved.key} /\ start.fallback \in {NoKey, saved.key}
               /\ start.scanned \in {hour, saved.head_scan_at} /\ start.discarded \in Reasons
               /\ start.after = NoKey => start.scanned = hour
               /\ start.after # NoKey => /\ start.scanned = saved.head_scan_at
                                         /\ hour - saved.head_scan_at < SweepHours
  <1>1. SweepHours \in Nat /\ hour \in Int /\ saved.head_scan_at \in Int
    BY ShortRetentionAssumption DEF ShortInv
  <1>2. PICK start : start = resume_position
    OBVIOUS
  <1>3. \/ /\ start \in {[after |-> NoKey, scanned |-> hour, discarded |-> why, fallback |-> second] :
                          why \in Reasons,
                          second \in {NoKey, saved.key}}
        \/ /\ start = [after |-> saved.key, scanned |-> saved.head_scan_at, discarded |-> "none",
                       fallback |-> NoKey]
           /\ saved.key # NoKey /\ ~(hour - saved.head_scan_at >= SweepHours)
    BY <1>2 DEF resume_position, Reasons
  <1>4. ~(hour - saved.head_scan_at >= SweepHours) => hour - saved.head_scan_at < SweepHours
    BY <1>1
  <1>6. /\ start.after \in {NoKey, saved.key} /\ start.fallback \in {NoKey, saved.key}
        /\ start.scanned \in {hour, saved.head_scan_at} /\ start.discarded \in Reasons
    BY <1>3 DEF Reasons
  <1>7. start.after = NoKey => start.scanned = hour
    BY <1>3
  <1>8. start.after # NoKey => start.scanned = saved.head_scan_at /\ hour - saved.head_scan_at < SweepHours
    BY <1>3, <1>4
  <1> QED BY <1>2, <1>6, <1>7, <1>8

\* A purge starts from the saved policy and position.
LEMMA ShortStarts ==
    ASSUME ShortInv, StartPurge
    PROVE  ShortInv'
  <1>1. PICK start :
          /\ start = resume_position
          /\ purge' = [at |-> "batch", key |-> start.after, fallback |-> start.fallback,
                       scanned |-> start.scanned, discarded |-> start.discarded,
                       head |-> start.after = NoKey, cutoff |-> short_forecast_cutoff,
                       batches |-> 0, deleted |-> FALSE, remaining |-> "unknown",
                       status |-> "budget_exhausted", new |-> {}]
          /\ swept' = IF start.after = NoKey /\ hour > swept THEN hour ELSE swept
    BY DEF StartPurge
  <1>2. UNCHANGED <<hour, forecasts, policy, late, saved, arrived>>
    BY DEF StartPurge
  <1>3. /\ start.after \in {NoKey, saved.key} /\ start.fallback \in {NoKey, saved.key}
        /\ start.scanned \in {hour, saved.head_scan_at} /\ start.discarded \in Reasons
        /\ start.after = NoKey => start.scanned = hour
        /\ start.after # NoKey => /\ start.scanned = saved.head_scan_at
                                  /\ hour - saved.head_scan_at < SweepHours
    BY <1>1, ResumeIsSound
  <1>4. /\ hour \in Int /\ swept \in Int /\ saved.head_scan_at \in Int /\ saved.at \in Int
        /\ saved.head_scan_at <= swept /\ saved.key \in Positions /\ SweepHours \in Nat \ {0}
    BY ShortRetentionAssumption DEF ShortInv
  <1>5. swept' \in Int /\ swept' >= swept /\ (start.after = NoKey => swept' >= hour)
    BY <1>1, <1>4
  <1>6. start.scanned \in Int /\ start.scanned <= swept' /\ hour - swept' < SweepHours
    BY <1>3, <1>4, <1>5
  <1>7. short_forecast_cutoff \in Int
    BY <1>4, ShortRetentionAssumption DEF short_forecast_cutoff
  <1>8. purge' \in PurgeRow
    <2> start.after \in Positions /\ start.fallback \in Positions
      BY <1>3, <1>4 DEF Positions
    <2> QED BY <1>1, <1>3, <1>6, <1>7 DEF PurgeRow
  <1>9. {k \in forecasts' : k <= purge'.key} \subseteq Known'
    <2>1. CASE start.after = NoKey
      <3>1. purge'.key = -1 /\ forecasts' \in SUBSET Nat
        BY <1>1, <1>2, <2>1 DEF ShortInv, NoKey
      <3>2. \A k \in Nat : ~(k <= -1)
        OBVIOUS
      <3> QED BY <3>1, <3>2
    <2>2. CASE start.after # NoKey
      BY <1>1, <1>2, <1>3, <2>2 DEF ShortInv, NothingHidesBeforePosition, Known
    <2> QED BY <2>1, <2>2
  <1>10. PurgeKnows'
    BY <1>1, <1>2, <1>3, <1>6, <1>8, <1>9 DEF PurgeKnows
  <1>11. NothingHidesBeforePosition'
    <2>1. saved.at - swept' < SweepHours
      BY <1>4, <1>5 DEF ShortInv, NothingHidesBeforePosition
    <2> QED BY <1>2, <2>1 DEF ShortInv, NothingHidesBeforePosition, Expired
  <1>12. saved.head_scan_at <= swept'
    BY <1>4, <1>5
  <1> QED BY <1>2, <1>5, <1>10, <1>11, <1>12 DEF ShortInv

\* A batch takes the expired rows behind the key, up to the new key, and leaves none.
LEMMA BatchSkipsNothing ==
    ASSUME ShortInv, PurgeBatch
    PROVE  /\ purge' \in PurgeRow /\ forecasts' \subseteq forecasts /\ IsFiniteSet(forecasts')
           /\ purge'.new = purge.new /\ purge'.head = purge.head /\ purge'.cutoff = purge.cutoff
           /\ purge'.fallback = purge.fallback /\ purge'.scanned = purge.scanned
           /\ \A k \in forecasts' : k <= purge'.key => k <= purge.key
           /\ purge'.status = "complete_snapshot" =>
                 /\ purge'.at = "end"
                 /\ \A k \in forecasts' : HourOf(k) < purge.cutoff => k <= purge.key
  <1> DEFINE key == purge.key
             cut == purge.cutoff
  <1>1. purge \in PurgeRow /\ forecasts \in SUBSET Nat /\ IsFiniteSet(forecasts)
        /\ purge.at = "batch" /\ purge.status # "complete_snapshot"
    BY DEF PurgeBatch, More, ShortInv, PurgeKnows
  <1> DEFINE found == {k \in Expired(purge.cutoff) : k > purge.key}
             batch == {k \in found : Cardinality({x \in found : x < k}) < BatchRows}
             left  == batch # found
  <1>2. /\ found = {k \in Expired(purge.cutoff) : k > purge.key}
        /\ batch = {k \in found : Cardinality({x \in found : x < k}) < BatchRows}
        /\ left = (batch # found)
        /\ forecasts' = forecasts \ batch
        /\ purge' = [purge EXCEPT !.batches = @ + 1,
                                  !.key = IF batch = {} THEN @ ELSE Max(batch),
                                  !.deleted = @ \/ batch # {},
                                  !.remaining = IF left THEN "some" ELSE "none",
                                  !.status = IF left THEN @ ELSE "complete_snapshot",
                                  !.at = IF left THEN @ ELSE "end"]
    BY Zenon DEF PurgeBatch
  <1> HIDE DEF found, batch, left
  <1>3. found \subseteq forecasts /\ found \in SUBSET Nat /\ IsFiniteSet(found) /\ batch \subseteq found
        /\ IsFiniteSet(batch)
    <2>1. found \subseteq forecasts /\ batch \subseteq found
      BY <1>2 DEF Expired
    <2> QED BY <1>1, <2>1, FS_Subset
  <1>4. batch # {} => Max(batch) \in batch /\ \A k \in batch : k <= Max(batch)
    BY <1>3, MaxIsGreatest
  <1>5. \A j \in found, k \in batch : j < k => j \in batch
    <2> SUFFICES ASSUME NEW j \in found, NEW k \in batch, j < k PROVE j \in batch
      OBVIOUS
    <2> DEFINE J == {x \in found : x < j}
               K == {x \in found : x < k}
    <2>1. J \subseteq K
      <3> SUFFICES ASSUME NEW x \in found, x < j PROVE x < k
        OBVIOUS
      <3>1. x \in Nat /\ j \in Nat /\ k \in Nat
        BY <1>3
      <3> QED BY <3>1
    <2>2. IsFiniteSet(K)
      BY <1>3, FS_Subset
    <2>3. Cardinality(J) \in Nat /\ Cardinality(K) \in Nat /\ Cardinality(J) <= Cardinality(K)
      BY <2>1, <2>2, FS_Subset, FS_CardinalityType
    <2>4. Cardinality(K) < BatchRows /\ BatchRows \in Nat
      BY <1>2, ShortRetentionAssumption
    <2>5. Cardinality(J) < BatchRows
      <3> HIDE DEF J, K
      <3> QED BY <2>3, <2>4
    <2> QED BY <1>2, <2>5
  <1>6. /\ purge'.key = IF batch = {} THEN key ELSE Max(batch)
        /\ purge'.status = IF left THEN purge.status ELSE "complete_snapshot"
        /\ purge'.at = IF left THEN purge.at ELSE "end"
        /\ purge'.new = purge.new /\ purge'.head = purge.head /\ purge'.cutoff = purge.cutoff
        /\ purge'.fallback = purge.fallback /\ purge'.scanned = purge.scanned
    BY <1>1, <1>2 DEF PurgeRow
  <1>7. purge' \in PurgeRow
    <2>1. purge'.key \in Positions
      <3>1. key \in Positions
        BY <1>1 DEF PurgeRow
      <3> QED BY <1>3, <1>4, <1>6, <3>1 DEF Positions
    <2>2. PICK b, d, r, st, w :
             /\ b = purge.batches + 1 /\ d = (purge.deleted \/ batch # {})
             /\ r = (IF left THEN "some" ELSE "none")
             /\ st = (IF left THEN purge.status ELSE "complete_snapshot")
             /\ w = (IF left THEN purge.at ELSE "end")
      OBVIOUS
    <2>3. b \in Int /\ d \in BOOLEAN /\ r \in {"unknown", "some", "none"} /\ w \in {"batch", "end"}
          /\ st \in {"budget_exhausted", "complete_snapshot", "deferred"}
      BY <1>1, <2>2 DEF PurgeRow
    <2>4. PICK q \in Positions : q = purge'.key
      BY <2>1
    <2>5. purge' = [purge EXCEPT !.batches = b, !.key = q, !.deleted = d, !.remaining = r,
                                 !.status = st, !.at = w]
      BY <1>2, <1>6, <2>2, <2>4
    <2> QED BY <1>1, <2>3, <2>5 DEF PurgeRow
  <1>8. \A k \in forecasts' : k <= purge'.key => k <= key
    <2> SUFFICES ASSUME NEW k \in forecasts', k <= purge'.key, ~(k <= key) PROVE FALSE
      OBVIOUS
    <2>1. k \in forecasts /\ k \notin batch /\ k \in Nat
      BY <1>1, <1>2
    <2>2. batch # {} /\ k <= Max(batch)
      BY <1>6
    <2>3. Max(batch) \in found /\ Max(batch) \in Nat /\ HourOf(Max(batch)) < cut
      BY <1>2, <1>3, <1>4, <2>2 DEF Expired
    <2>4. HourOf(k) <= HourOf(Max(batch)) /\ HourOf(k) \in Nat /\ HourOf(Max(batch)) \in Nat
      BY <2>1, <2>2, <2>3, HoursAreOrdered
    <2>5. HourOf(k) < cut /\ key \in Int
      BY <1>1, <2>3, <2>4 DEF PurgeRow, Positions, NoKey
    <2>6. k > key
      BY <2>1, <2>5
    <2>7. k \in found
      BY <1>2, <2>1, <2>5, <2>6 DEF Expired
    <2>8. k < Max(batch)
      BY <1>4, <2>1, <2>2, <2>3
    <2> QED BY <1>4, <1>5, <2>1, <2>2, <2>7, <2>8
  <1>9. ASSUME purge'.status = "complete_snapshot"
        PROVE  purge'.at = "end" /\ \A k \in forecasts' : HourOf(k) < cut => k <= key
    <2>1. ~left /\ batch = found
      BY <1>1, <1>2, <1>6, <1>9
    <2>2. purge'.at = "end"
      BY <1>6, <2>1
    <2>3. ASSUME NEW k \in forecasts', HourOf(k) < cut PROVE k <= key
      <3>1. k \in forecasts /\ k \in Nat /\ k \notin found /\ key \in Int
        BY <1>1, <1>2, <2>1 DEF PurgeRow, Positions, NoKey
      <3>2. ~(k > key)
        BY <1>2, <2>3, <3>1 DEF Expired
      <3> QED BY <3>1, <3>2
    <2> QED BY <2>2, <2>3
  <1>10. forecasts' \subseteq forecasts /\ IsFiniteSet(forecasts')
    BY <1>1, <1>2, FS_Subset
  <1> QED BY <1>6, <1>7, <1>8, <1>9, <1>10

\* A batch deletes what it has examined.
LEMMA ShortBatches ==
    ASSUME ShortInv, PurgeBatch
    PROVE  ShortInv'
  <1>1. UNCHANGED <<hour, policy, saved, arrived, swept>> /\ purge.at # "idle"
    BY DEF PurgeBatch, More
  <1>2. Known' = Known
    BY <1>1, BatchSkipsNothing DEF Known
  <1>3. \A k \in forecasts : k <= purge.key => k \in Known
    BY <1>1 DEF ShortInv, PurgeKnows
  <1>4. {k \in forecasts' : k <= purge'.key} \subseteq Known'
    BY <1>2, <1>3, BatchSkipsNothing
  <1>5. purge'.status = "complete_snapshot" => Expired(purge.cutoff)' \subseteq Known'
    BY <1>2, <1>3, BatchSkipsNothing DEF Expired
  <1>6. PurgeKnows'
    BY <1>1, <1>4, <1>5, BatchSkipsNothing DEF ShortInv, PurgeKnows, Expired
  <1>7. NothingHidesBeforePosition'
    BY <1>1, BatchSkipsNothing DEF ShortInv, NothingHidesBeforePosition, Expired
  <1> QED BY <1>1, <1>6, <1>7, BatchSkipsNothing DEF ShortInv

\* A purge that stops early saves where it is.
LEMMA ShortDefers ==
    ASSUME ShortInv, DeferBatch \/ ExhaustBudget
    PROVE  ShortInv'
  <1>1. UNCHANGED <<hour, forecasts, policy, saved, arrived, swept>> /\ purge.at # "idle"
        /\ purge.at = "batch"
    BY DEF DeferBatch, ExhaustBudget, More
  <1>2. purge \in PurgeRow /\ purge.status # "complete_snapshot"
    BY <1>1 DEF ShortInv, PurgeKnows
  <1>3. NothingHidesBeforePosition'
    BY <1>1 DEF ShortInv, NothingHidesBeforePosition, Expired
  <1>4. CASE purge' = [purge EXCEPT !.batches = @ + 1, !.key = purge.fallback,
                                    !.fallback = NoKey, !.head = FALSE]
             /\ purge.fallback # NoKey
    <2>a. purge.fallback = saved.key /\ purge.fallback \in Positions /\ NoKey \in Positions
      BY <1>1, <1>2, <1>4 DEF PurgeRow, Positions, ShortInv, PurgeKnows
    <2>b. PICK b \in Int : b = purge.batches + 1
      BY <1>2 DEF PurgeRow
    <2>c. purge' = [purge EXCEPT !.batches = b, !.key = saved.key, !.fallback = NoKey, !.head = FALSE]
      BY <1>4, <2>a, <2>b
    <2>d. purge' \in PurgeRow
      BY <1>2, <2>a, <2>c DEF PurgeRow
    <2>1. /\ purge' \in PurgeRow /\ purge'.key = saved.key /\ purge'.fallback = NoKey
          /\ purge'.head = FALSE /\ purge'.status = purge.status /\ purge'.scanned = purge.scanned
      BY <1>2, <2>c, <2>d DEF PurgeRow
    <2>2. {k \in forecasts : k <= saved.key} \subseteq arrived
      BY DEF ShortInv, NothingHidesBeforePosition
    <2>3. PurgeKnows'
      BY <1>1, <1>2, <2>1, <2>2 DEF ShortInv, PurgeKnows, Known
    <2> QED BY <1>1, <1>3, <2>3 DEF ShortInv
  <1>5. CASE \/ purge' = [purge EXCEPT !.batches = @ + 1, !.status = "deferred", !.at = "end"]
             \/ purge' = [purge EXCEPT !.at = "end"]
    <2>1. /\ purge' \in PurgeRow /\ purge'.key = purge.key /\ purge'.fallback = purge.fallback
          /\ purge'.head = purge.head /\ purge'.status # "complete_snapshot"
          /\ purge'.scanned = purge.scanned /\ purge'.new = purge.new
      <3>1. PICK b \in Int : b = purge.batches + 1
        BY <1>2 DEF PurgeRow
      <3>2. \/ purge' = [purge EXCEPT !.batches = b, !.status = "deferred", !.at = "end"]
            \/ purge' = [purge EXCEPT !.at = "end"]
        BY <1>5, <3>1
      <3>3. purge' \in PurgeRow
        BY <1>2, <3>2 DEF PurgeRow
      <3> QED BY <1>2, <3>2, <3>3 DEF PurgeRow
    <2>2. PurgeKnows'
      BY <1>1, <2>1 DEF ShortInv, PurgeKnows, Known
    <2> QED BY <1>1, <1>3, <2>2 DEF ShortInv
  <1> QED BY <1>4, <1>5 DEF DeferBatch, ExhaustBudget

\* A purge at the end of its sweep.
LEMMA ShortFinishes ==
    ASSUME ShortInv, FinishPurge
    PROVE  ShortInv'
  <1>1. /\ UNCHANGED <<hour, forecasts, policy, swept>> /\ purge.at = "end" /\ purge.at # "idle"
        /\ purge' = [NoPurge EXCEPT !.failed = ~made_progress \/ backlog_stalled]
        /\ \/ ~made_progress /\ saved' = saved /\ arrived' = arrived
           \/ /\ made_progress /\ arrived' = IF purge.head THEN purge.new ELSE arrived
              /\ saved' = [key |-> purge.key, policy |-> policy, head_scan_at |-> purge.scanned,
                           lag |-> backlog_lag, stalls |-> lag_stall_runs,
                           status |-> purge.status, cutoff |-> purge.cutoff, at |-> hour]
    BY DEF FinishPurge
  <1>2. purge'.at = "idle"
    BY <1>1 DEF NoPurge
  <1>3. PurgeKnows'
    BY <1>2 DEF PurgeKnows
  <1>4. CASE saved' = saved /\ arrived' = arrived
    BY <1>1, <1>3, <1>4 DEF ShortInv, NothingHidesBeforePosition, Expired
  <1>5. CASE saved' # saved \/ arrived' # arrived
    <2>1. /\ arrived' = Known /\ saved'.key = purge.key /\ saved'.head_scan_at = purge.scanned
          /\ saved'.status = purge.status /\ saved'.cutoff = purge.cutoff /\ saved'.at = hour
      BY <1>1, <1>5 DEF Known
    <2>2. purge \in PurgeRow /\ arrived \in SUBSET Nat
      BY <1>1 DEF ShortInv, PurgeKnows
    <2>3. /\ saved'.key \in Positions /\ saved'.head_scan_at \in Int /\ saved'.at \in Int
          /\ arrived' \in SUBSET Nat
      BY <2>1, <2>2 DEF PurgeRow, ShortInv, Known
    <2>4. saved'.head_scan_at <= swept'
      BY <1>1, <2>1 DEF ShortInv, PurgeKnows
    <2>5. NothingHidesBeforePosition'
      BY <1>1, <2>1 DEF ShortInv, PurgeKnows, NothingHidesBeforePosition, Expired
    <2> QED BY <1>1, <1>3, <2>3, <2>4, <2>5 DEF ShortInv
  <1> QED BY <1>4, <1>5

\* A forecast arrives during the sweep.
LEMMA ShortStores ==
    ASSUME ShortInv, StoreForecast
    PROVE  ShortInv'
  <1>1. PICK k \in Keys \ forecasts :
          /\ forecasts' = forecasts \cup {k}
          /\ arrived' = arrived \cup {k}
          /\ purge' = IF purge.at = "idle" THEN purge ELSE [purge EXCEPT !.new = @ \cup {k}]
          /\ UNCHANGED <<hour, policy, saved, swept>>
    BY DEF StoreForecast
  <1>2. k \in Nat
    BY ShortRetentionAssumption
  <1>3. forecasts' \in SUBSET Nat /\ IsFiniteSet(forecasts') /\ arrived' \in SUBSET Nat
    BY <1>1, <1>2, FS_AddElement DEF ShortInv
  <1>4. NothingHidesBeforePosition'
    BY <1>1 DEF ShortInv, NothingHidesBeforePosition, Expired
  <1>5. CASE purge.at = "idle"
    BY <1>1, <1>3, <1>4, <1>5 DEF ShortInv, PurgeKnows
  <1>6. CASE purge.at # "idle"
    <2>1. purge \in PurgeRow
      BY <1>6 DEF ShortInv, PurgeKnows
    <2>2. /\ purge' \in PurgeRow /\ purge'.new = purge.new \cup {k} /\ purge'.head = purge.head
          /\ purge'.key = purge.key /\ purge'.cutoff = purge.cutoff /\ purge'.status = purge.status
          /\ purge'.fallback = purge.fallback /\ purge'.scanned = purge.scanned
          /\ purge'.at = purge.at
      BY <1>1, <1>2, <1>6, <2>1 DEF PurgeRow
    <2>3. Known' = Known \cup {k}
      BY <1>1, <2>2 DEF Known
    <2>4. {j \in forecasts' : j <= purge'.key} \subseteq Known'
      BY <1>1, <1>6, <2>2, <2>3 DEF ShortInv, PurgeKnows
    <2>5. purge'.status = "complete_snapshot" => Expired(purge.cutoff)' \subseteq Known'
      BY <1>1, <1>6, <2>2, <2>3 DEF ShortInv, PurgeKnows, Expired
    <2>6. PurgeKnows'
      BY <1>1, <1>6, <2>2, <2>4, <2>5 DEF ShortInv, PurgeKnows, Expired
    <2> QED BY <1>1, <1>3, <1>4, <2>6 DEF ShortInv
  <1> QED BY <1>5, <1>6

\* The surroundings that touch no row, and the end of a run that is cut off.
LEMMA ShortOthers ==
    ASSUME ShortInv, KillPurge \/ PassHour \/ ChangePolicy \/ SetClockBack \/ UNCHANGED shortVars
    PROVE  ShortInv'
  <1>1. CASE KillPurge
    <2>1. UNCHANGED <<hour, forecasts, policy, saved, arrived, swept>> /\ purge'.at = "idle"
      BY <1>1 DEF KillPurge, NoPurge
    <2> QED BY <2>1 DEF ShortInv, PurgeKnows, NothingHidesBeforePosition, Expired
  <1>2. CASE PassHour \/ ChangePolicy \/ SetClockBack
    <2>1. UNCHANGED <<forecasts, saved, arrived, swept, purge>> /\ purge.at = "idle"
          /\ hour' \in {hour, hour + 1, hour - 1} /\ policy' \in {policy, policy + 1}
      BY <1>2 DEF PassHour, ChangePolicy, SetClockBack
    <2>2. hour' \in Int /\ policy' \in Nat
      BY <2>1 DEF ShortInv
    <2> QED BY <2>1, <2>2 DEF ShortInv, PurgeKnows, NothingHidesBeforePosition, Expired
  <1>3. CASE UNCHANGED shortVars
    BY <1>3 DEF shortVars, ShortInv, PurgeKnows, NothingHidesBeforePosition, Expired, Known
  <1> QED BY <1>1, <1>2, <1>3

\* However batches are cut off, put back or repeated, and however the clock and the
\* policy move, what lies before the position a run hands on has arrived since the last
\* head sweep, and a position is not handed on for longer than SweepHours
\* (purge_expired_short_forecast, resume_position).
THEOREM NothingHides == Spec => []NothingHidesBeforePosition
  <1>1. Init => ShortInv
    BY ShortInitial
  <1>2. ShortInv /\ [Next]_vars => ShortInv'
    BY ShortSteps, ShortStarts, ShortBatches, ShortDefers, ShortFinishes, ShortStores, ShortOthers
       DEF ShortStep
  <1>3. ShortInv => NothingHidesBeforePosition
    BY DEF ShortInv
  <1> QED BY <1>1, <1>2, <1>3, PTL DEF Spec

-----------------------------------------------------------------------------
(***************************************************************************)
(* The pages of the alert events.                                          *)
(***************************************************************************)
\* Position i of a list is on page p.
OnPage(p, i) == (p - 1) * PageSize < i /\ i <= p * PageSize
Entries(l, p) == {l[i] : i \in {j \in 1 .. Len(l) : OnPage(p, j)}}

\* An entry is on one page.
LEMMA PagesAreApart ==
    ASSUME NEW p \in Nat, NEW q \in Nat, NEW i \in Nat, OnPage(p, i), OnPage(q, i)
    PROVE  p = q
  <1>1. PageSize \in Nat /\ PageSize > 0
    BY EventAssumption
  <1>2. \A a, b \in Nat : a < b /\ OnPage(a, i) => ~OnPage(b, i)
    <2> SUFFICES ASSUME NEW a \in Nat, NEW b \in Nat, a < b, OnPage(a, i), OnPage(b, i)
                 PROVE  FALSE
      OBVIOUS
    <2>1. a <= b - 1 /\ b - 1 \in Nat
      OBVIOUS
    <2>2. a * PageSize <= (b - 1) * PageSize
      BY <1>1, <2>1
    <2>3. a * PageSize \in Nat /\ (b - 1) * PageSize \in Nat
      BY <1>1, <2>1
    <2> QED BY <2>2, <2>3 DEF OnPage
  <1> QED BY <1>2

\* Every entry is on a page.
LEMMA PagesCover ==
    ASSUME NEW n \in Nat, NEW i \in Nat \ {0}, i <= n * PageSize
    PROVE  \E p \in 1 .. n : OnPage(p, i)
  <1> DEFINE q == (i - 1) \div PageSize
  <1>1. PageSize \in Nat /\ PageSize > 0
    BY EventAssumption
  <1>2. q \in Nat /\ PageSize * q <= i - 1 /\ i - 1 < PageSize * q + PageSize
    BY <1>1
  <1> HIDE DEF q
  <1>3. q < n
    <2> SUFFICES ASSUME n <= q PROVE FALSE
      BY <1>2
    <2>1. n * PageSize <= q * PageSize
      BY <1>1, <1>2
    <2>2. q * PageSize = PageSize * q /\ q * PageSize \in Nat /\ n * PageSize \in Nat
      BY <1>1, <1>2
    <2> QED BY <1>2, <2>1, <2>2
  <1>4. q + 1 \in 1 .. n
    BY <1>2, <1>3
  <1>5. (q + 1 - 1) * PageSize = PageSize * q /\ (q + 1) * PageSize = PageSize * q + PageSize
    BY <1>1, <1>2
  <1>6. PageSize * q \in Nat
    BY <1>1, <1>2
  <1>7. OnPage(q + 1, i)
    BY <1>1, <1>2, <1>5, <1>6 DEF OnPage
  <1> QED BY <1>4, <1>7

\* The smaller of two numbers.
LEMMA MinOfTwo ==
    ASSUME NEW a \in Nat, NEW b \in Nat
    PROVE  Min({a, b}) = IF a <= b THEN a ELSE b
  <1>1. Min({a, b}) \in {a, b} /\ \A y \in {a, b} : Min({a, b}) <= y
    <2>1. \E x \in {a, b} : \A y \in {a, b} : x <= y
      OBVIOUS
    <2> QED BY <2>1 DEF Min
  <1> QED BY <1>1

\* A page holds the entries of its positions, and no more than PageSize of them.
LEMMA PageIsPart ==
    ASSUME NEW p \in Nat \ {0}, listing \in Seq(Nat)
    PROVE  ToSet(Page(p)) = Entries(listing, p)
  <1> DEFINE from == (p - 1) * PageSize + 1
             to == Min({p * PageSize, Len(listing)})
  <1>1. PageSize \in Nat /\ PageSize > 0 /\ Len(listing) \in Nat
    BY EventAssumption
  <1>2. (p - 1) * PageSize \in Nat /\ p * PageSize \in Nat /\ from \in Nat \ {0}
    BY <1>1
  <1>3. to \in Nat /\ to <= Len(listing) /\ to <= p * PageSize
        /\ (to = Len(listing) \/ to = p * PageSize)
    BY <1>1, <1>2, MinOfTwo
  <1>4. Page(p) = SubSeq(listing, from, to)
    BY DEF Page
  <1> HIDE DEF from, to
  <1>5. ToSet(SubSeq(listing, from, to)) = {listing[i] : i \in from .. to}
    <2>1. SubSeq(listing, from, to) = [i \in 1 .. (to - from + 1) |-> listing[i + from - 1]]
      BY <1>2, <1>3
    <2>2. ToSet(SubSeq(listing, from, to)) = {listing[i + from - 1] : i \in 1 .. (to - from + 1)}
      BY <2>1 DEF ToSet
    <2>3. \A i \in from .. to : i - from + 1 \in 1 .. (to - from + 1) /\ (i - from + 1) + from - 1 = i
      BY <1>2, <1>3
    <2>4. \A i \in 1 .. (to - from + 1) : i + from - 1 \in from .. to
      BY <1>2, <1>3
    <2> QED BY <2>2, <2>3, <2>4
  <1>6. from .. to = {j \in 1 .. Len(listing) : OnPage(p, j)}
    BY <1>1, <1>2, <1>3 DEF OnPage, from
  <1> QED BY <1>4, <1>5, <1>6 DEF Entries

\* A page has at most PageSize entries.
LEMMA PartIsSmall ==
    ASSUME NEW l \in Seq(Nat), NEW p \in Nat \ {0}
    PROVE  IsFiniteSet(Entries(l, p)) /\ Cardinality(Entries(l, p)) <= PageSize
  <1> DEFINE D == {j \in 1 .. Len(l) : OnPage(p, j)}
             f == [i \in D |-> l[i]]
             a == (p - 1) * PageSize + 1
             b == p * PageSize
  <1>1. PageSize \in Nat /\ PageSize > 0 /\ Len(l) \in Nat
    BY EventAssumption
  <1>2. (p - 1) * PageSize \in Nat /\ p * PageSize \in Nat /\ p * PageSize = (p - 1) * PageSize + PageSize
    BY <1>1
  <1>3. D \subseteq a .. b /\ a \in Int /\ b \in Int
    BY <1>1, <1>2 DEF OnPage
  <1>4. IsFiniteSet(a .. b) /\ Cardinality(a .. b) = PageSize
    <2>1. IsFiniteSet(a .. b) /\ Cardinality(a .. b) = IF a > b THEN 0 ELSE b - a + 1
      BY <1>3, FS_Interval
    <2> QED BY <1>1, <1>2, <2>1
  <1> HIDE DEF a, b
  <1>5. IsFiniteSet(D) /\ Cardinality(D) <= PageSize /\ Cardinality(D) \in Nat
    BY <1>3, <1>4, FS_Subset, FS_CardinalityType
  <1>6. f \in Surjection(D, Entries(l, p))
    BY DEF Surjection, Entries
  <1> HIDE DEF D, f
  <1>7. IsFiniteSet(Entries(l, p)) /\ Cardinality(Entries(l, p)) <= Cardinality(D)
    BY <1>5, <1>6, FS_Surjection
  <1>8. Cardinality(Entries(l, p)) \in Nat
    BY <1>7, FS_CardinalityType
  <1> QED BY <1>1, <1>5, <1>7, <1>8

\* Lists with the same newest notice are versions of one another, place by place.
Aligned(k, l) ==
    k # <<>> /\ l # <<>> /\ k[1] = l[1] =>
        /\ Len(k) = Len(l)
        /\ \A i \in 1 .. Len(k), j \in 1 .. Len(l) : k[i] = l[j] => i = j

\* A list and a later one.
Before(k, l) ==
    k # <<>> =>
        /\ l # <<>> /\ k[1] <= l[1]
        /\ k[1] = l[1] => Len(k) = Len(l) /\ \A i \in 1 .. Len(k) : k[i] <= l[i]

\* The newest notice of a list is in no list with an older newest notice.
Fresh(k, l) == k # <<>> /\ l # <<>> /\ l[1] < k[1] => \A i \in 1 .. Len(l) : l[i] # k[1]

NoticesOf(l) == l \in Seq(Nat) /\ \A i \in 1 .. Len(l) : l[i] <= issued

ListsKnow ==
    /\ listing \in lists
    /\ \A l \in lists : NoticesOf(l) /\ Before(l, listing)
    /\ \A k, l \in lists : Aligned(k, l) /\ Fresh(k, l)

ListingTyped ==
    /\ issued \in Nat /\ NoticesOf(listing)
    /\ \A i, j \in 1 .. Len(listing) : listing[i] = listing[j] => i = j

\* Page p was read from list l.
ReadFrom(p, l) == l \in lists /\ Len(l) = total /\ ToSet(pages[p]) = Entries(l, p)

PagesKnow ==
    /\ pages \in Seq(Seq(Nat))
    /\ pages = <<>> => total = -1
    /\ pages # <<>> =>
          /\ total \in Nat
          /\ \E first \in lists :
                /\ ReadFrom(1, first)
                /\ \A p \in 1 .. Len(pages) : \E l \in lists : ReadFrom(p, l) /\ Before(first, l)
    /\ IsFiniteSet(Seen) /\ Cardinality(Seen) <= Len(pages) * PageSize

\* The list after a change of the provider: one with a new first notice, or the
\* list with a new version of another notice.
LEMMA NewFirst ==
    ASSUME ListsKnow, ListingTyped, NEW n \in Seq(Nat), NEW w \in Nat, w = issued + 1,
           issued' = w, lists' = lists \cup {n}, listing' = n, Len(n) > 0, n[1] = w,
           \A i \in 1 .. Len(n) : n[i] <= w,
           \A i, j \in 1 .. Len(n) : n[i] = n[j] => i = j
    PROVE  ListsKnow' /\ ListingTyped'
  <1>1. \A l \in lists : l \in Seq(Nat) /\ \A i \in 1 .. Len(l) : l[i] < w
    <2> SUFFICES ASSUME NEW l \in lists PROVE l \in Seq(Nat) /\ \A i \in 1 .. Len(l) : l[i] < w
      OBVIOUS
    <2>1. l \in Seq(Nat) /\ \A i \in 1 .. Len(l) : l[i] <= issued
      BY DEF ListsKnow, NoticesOf
    <2>2. \A i \in 1 .. Len(l) : l[i] \in Nat /\ l[i] < issued + 1
      BY <2>1 DEF ListingTyped
    <2> QED BY <2>1, <2>2
  <1>2. \A l \in lists : NoticesOf(l)'
    <2> SUFFICES ASSUME NEW l \in lists PROVE NoticesOf(l)'
      OBVIOUS
    <2>1. \A i \in 1 .. Len(l) : l[i] \in Nat /\ l[i] <= w
      BY <1>1
    <2> QED BY <1>1, <2>1 DEF NoticesOf
  <1>3. NoticesOf(n)'
    BY DEF NoticesOf
  <1>4. \A l \in lists : Before(l, n)
    <2> SUFFICES ASSUME NEW l \in lists, l # <<>> PROVE n # <<>> /\ l[1] <= n[1] /\ l[1] # n[1]
      BY DEF Before
    <2>1. l \in Seq(Nat) /\ 1 \in 1 .. Len(l)
      BY <1>1
    <2>2. l[1] < w /\ l[1] \in Nat
      BY <1>1, <2>1
    <2> QED BY <2>2
  <1>5. Before(n, n)
    BY DEF Before
  <1>6. \A l \in lists : l # <<>> => l[1] # w /\ l[1] < w /\ \A i \in 1 .. Len(l) : l[i] # w
    <2> SUFFICES ASSUME NEW l \in lists, l # <<>>
                 PROVE  l[1] # w /\ l[1] < w /\ \A i \in 1 .. Len(l) : l[i] # w
      OBVIOUS
    <2>1. l \in Seq(Nat) /\ 1 \in 1 .. Len(l)
      BY <1>1
    <2>2. \A i \in 1 .. Len(l) : l[i] < w /\ l[i] \in Nat
      BY <1>1, <2>1
    <2> QED BY <2>1, <2>2
  <1>7. \A l \in lists : Aligned(l, n) /\ Aligned(n, l) /\ Fresh(n, l) /\ Fresh(l, n)
    <2> SUFFICES ASSUME NEW l \in lists
                 PROVE  Aligned(l, n) /\ Aligned(n, l) /\ Fresh(n, l) /\ Fresh(l, n)
      OBVIOUS
    <2>1. Aligned(l, n) /\ Aligned(n, l)
      BY <1>6 DEF Aligned
    <2>2. Fresh(n, l)
      BY <1>6 DEF Fresh
    <2>3. Fresh(l, n)
      <3> SUFFICES ASSUME l # <<>>, n[1] < l[1] PROVE FALSE
        BY DEF Fresh
      <3>1. l[1] < w /\ l[1] \in Nat
        <4>1. l \in Seq(Nat) /\ 1 \in 1 .. Len(l)
          BY <1>1
        <4> QED BY <1>1, <4>1
      <3> QED BY <3>1
    <2> QED BY <2>1, <2>2, <2>3
  <1>8. Aligned(n, n) /\ Fresh(n, n)
    BY DEF Aligned, Fresh
  <1>9. ListsKnow'
    BY <1>2, <1>3, <1>4, <1>5, <1>7, <1>8 DEF ListsKnow
  <1> QED BY <1>3, <1>9 DEF ListingTyped

\* A notice other than the newest is corrected in place.
LEMMA Correction ==
    ASSUME ListsKnow, ListingTyped, NEW p \in 2 .. Len(listing), NEW w \in Nat, w = issued + 1,
           issued' = w, lists' = lists \cup {listing'}, listing' = [listing EXCEPT ![p] = w]
    PROVE  ListsKnow' /\ ListingTyped'
  <1>1. PICK n : n = listing'
    OBVIOUS
  <1>2. PICK c : c = listing
    OBVIOUS
  <1>3. c \in lists /\ c \in Seq(Nat) /\ \A i \in 1 .. Len(c) : c[i] \in Nat /\ c[i] < w
    <2>1. c \in lists /\ c \in Seq(Nat) /\ \A i \in 1 .. Len(c) : c[i] <= issued
      BY <1>2 DEF ListsKnow, NoticesOf
    <2>2. issued \in Nat
      BY DEF ListingTyped
    <2>3. \A i \in 1 .. Len(c) : c[i] \in Nat /\ c[i] < issued + 1
      BY <2>1, <2>2
    <2> QED BY <2>1, <2>3
  <1>4. /\ n \in Seq(Nat) /\ Len(n) = Len(c) /\ p \in 2 .. Len(c) /\ n[p] = w /\ n # <<>> /\ c # <<>>
        /\ \A i \in 1 .. Len(c) : i # p => n[i] = c[i]
        /\ n[1] = c[1]
    BY <1>1, <1>2, <1>3
  <1>5. \A l \in lists : l \in Seq(Nat) /\ \A i \in 1 .. Len(l) : l[i] \in Nat /\ l[i] < w /\ l[i] # w
    <2> SUFFICES ASSUME NEW l \in lists
                 PROVE  l \in Seq(Nat) /\ \A i \in 1 .. Len(l) : l[i] \in Nat /\ l[i] < w /\ l[i] # w
      OBVIOUS
    <2>1. l \in Seq(Nat) /\ \A i \in 1 .. Len(l) : l[i] <= issued
      BY DEF ListsKnow, NoticesOf
    <2>2. issued \in Nat
      BY DEF ListingTyped
    <2>3. \A i \in 1 .. Len(l) : l[i] \in Nat /\ l[i] < issued + 1
      BY <2>1, <2>2
    <2>4. \A i \in 1 .. Len(l) : l[i] # w
      BY <2>3
    <2> QED BY <2>1, <2>3, <2>4
  <1>6. \A l \in lists : NoticesOf(l)'
    <2> SUFFICES ASSUME NEW l \in lists PROVE NoticesOf(l)'
      OBVIOUS
    <2>1. \A i \in 1 .. Len(l) : l[i] \in Nat /\ l[i] <= w
      BY <1>5
    <2> QED BY <1>5, <2>1 DEF NoticesOf
  <1>7. \A i \in 1 .. Len(n) : n[i] <= w /\ c[i] <= n[i] /\ n[i] \in Nat
    <2> SUFFICES ASSUME NEW i \in 1 .. Len(n) PROVE n[i] <= w /\ c[i] <= n[i] /\ n[i] \in Nat
      OBVIOUS
    <2>1. c[i] \in Nat /\ c[i] < w
      BY <1>3, <1>4
    <2>2. CASE i = p
      BY <1>4, <2>1, <2>2
    <2>3. CASE i # p
      BY <1>4, <2>1, <2>3
    <2> QED BY <2>2, <2>3
  <1>8. NoticesOf(n)'
    BY <1>4, <1>7 DEF NoticesOf
  <1>9. \A l \in lists : Before(l, n)
    <2> SUFFICES ASSUME NEW l \in lists, l # <<>>
                 PROVE  /\ n # <<>> /\ l[1] <= n[1]
                        /\ l[1] = n[1] => Len(l) = Len(n) /\ \A i \in 1 .. Len(l) : l[i] <= n[i]
      BY DEF Before
    <2>1. Before(l, c)
      BY <1>2 DEF ListsKnow
    <2>2. l[1] <= c[1] /\ (l[1] = c[1] => Len(l) = Len(c) /\ \A i \in 1 .. Len(l) : l[i] <= c[i])
      BY <2>1 DEF Before
    <2>3. ASSUME l[1] = n[1], NEW i \in 1 .. Len(l) PROVE l[i] <= n[i]
      <3>1. l[i] <= c[i] /\ i \in 1 .. Len(n)
        BY <1>4, <2>2, <2>3
      <3>2. c[i] <= n[i] /\ c[i] \in Nat /\ n[i] \in Nat /\ l[i] \in Nat
        BY <1>3, <1>4, <1>5, <1>7, <3>1
      <3> QED BY <3>1, <3>2
    <2> QED BY <1>4, <2>2, <2>3
  <1>10. Before(n, n)
    BY <1>4, <1>7 DEF Before
  <1>11. \A l \in lists : \A i \in 1 .. Len(n), j \in 1 .. Len(l) :
            l # <<>> /\ l[1] = n[1] /\ n[i] = l[j] => i = j
    <2> SUFFICES ASSUME NEW l \in lists, NEW i \in 1 .. Len(n), NEW j \in 1 .. Len(l),
                        l # <<>>, l[1] = n[1], n[i] = l[j]
                 PROVE  i = j
      OBVIOUS
    <2>1. i # p
      BY <1>4, <1>5
    <2>2. c[i] = l[j] /\ i \in 1 .. Len(c)
      BY <1>4, <2>1
    <2>3. Aligned(c, l)
      BY <1>3 DEF ListsKnow
    <2> QED BY <1>4, <2>2, <2>3 DEF Aligned
  <1>12. \A l \in lists : l # <<>> /\ l[1] = n[1] => Len(l) = Len(n)
    <2> SUFFICES ASSUME NEW l \in lists, l # <<>>, l[1] = n[1] PROVE Len(l) = Len(n)
      OBVIOUS
    <2>1. Aligned(l, c)
      BY <1>3 DEF ListsKnow
    <2> QED BY <1>4, <2>1 DEF Aligned
  <1>13. \A l \in lists : Aligned(l, n) /\ Aligned(n, l)
    BY <1>11, <1>12 DEF Aligned
  <1>14. \A l \in lists : Fresh(n, l)
    <2> SUFFICES ASSUME NEW l \in lists PROVE Fresh(n, l)
      OBVIOUS
    <2>1. Fresh(c, l)
      BY <1>3 DEF ListsKnow
    <2> QED BY <1>4, <2>1 DEF Fresh
  <1>15. \A l \in lists : Fresh(l, n)
    <2> SUFFICES ASSUME NEW l \in lists, l # <<>>, n[1] < l[1] PROVE FALSE
      BY DEF Fresh
    <2>1. Before(l, c)
      BY <1>2 DEF ListsKnow
    <2>2. l[1] <= c[1] /\ 1 \in 1 .. Len(l) /\ 1 \in 1 .. Len(c)
      BY <1>4, <1>5, <2>1 DEF Before
    <2>3. l[1] \in Nat /\ c[1] \in Nat
      BY <1>3, <1>5, <2>2
    <2> QED BY <1>4, <2>2, <2>3
  <1>16. \A i, j \in 1 .. Len(n) : n[i] = n[j] => i = j
    <2> SUFFICES ASSUME NEW i \in 1 .. Len(n), NEW j \in 1 .. Len(n), n[i] = n[j] PROVE i = j
      OBVIOUS
    <2>1. \A k \in 1 .. Len(c) : c[k] # w
      BY <1>3, <1>5
    <2>2. i \in 1 .. Len(c) /\ j \in 1 .. Len(c)
      BY <1>4
    <2>3. \A a, b \in 1 .. Len(c) : c[a] = c[b] => a = b
      BY <1>2 DEF ListingTyped
    <2> QED BY <1>4, <2>1, <2>2, <2>3
  <1>17. Aligned(n, n) /\ Fresh(n, n)
    <2>1. ~(n[1] < n[1])
      <3>1. 1 \in 1 .. Len(n)
        BY <1>4
      <3>2. n[1] \in Nat
        BY <1>7, <3>1
      <3> QED BY <3>2
    <2> QED BY <1>16, <2>1 DEF Aligned, Fresh
  <1>18. ListsKnow'
    <2>1. lists' = lists \cup {n} /\ listing' = n
      BY <1>1
    <2>2. \A l \in lists' : NoticesOf(l)' /\ Before(l, n)
      BY <1>6, <1>8, <1>9, <1>10, <2>1
    <2>3. \A k, l \in lists : Aligned(k, l) /\ Fresh(k, l)
      BY DEF ListsKnow
    <2>4. \A k, l \in lists' : Aligned(k, l) /\ Fresh(k, l)
      BY <1>13, <1>14, <1>15, <1>17, <2>1, <2>3
    <2> HIDE DEF Aligned, Before, Fresh, NoticesOf
    <2> QED BY <2>1, <2>2, <2>4 DEF ListsKnow
  <1> QED BY <1>1, <1>8, <1>16, <1>18 DEF ListingTyped

\* A fresh notice before others.
LEMMA PushedFirst ==
    ASSUME NEW t \in Seq(Nat), NEW w \in Nat,
           \A i \in 1 .. Len(t) : t[i] # w /\ t[i] <= w,
           \A i, j \in 1 .. Len(t) : t[i] = t[j] => i = j
    PROVE  LET n == <<w>> \o t
           IN  /\ n \in Seq(Nat) /\ Len(n) > 0 /\ n[1] = w
               /\ \A i \in 1 .. Len(n) : n[i] <= w
               /\ \A i, j \in 1 .. Len(n) : n[i] = n[j] => i = j
  <1>1. PICK n : n = <<w>> \o t
    OBVIOUS
  <1>2. n \in Seq(Nat) /\ Len(n) = Len(t) + 1 /\ n[1] = w /\ Len(t) \in Nat
    BY <1>1
  <1>3. \A i \in 2 .. Len(n) : n[i] = t[i - 1] /\ i - 1 \in 1 .. Len(t)
    BY <1>1, <1>2
  <1>4. \A i \in 1 .. Len(n) : i = 1 \/ i \in 2 .. Len(n)
    BY <1>2
  <1>5. \A i \in 1 .. Len(n) : n[i] <= w
    <2> SUFFICES ASSUME NEW i \in 1 .. Len(n) PROVE n[i] <= w
      OBVIOUS
    <2>1. CASE i = 1
      BY <1>2, <2>1
    <2>2. CASE i \in 2 .. Len(n)
      BY <1>3, <2>2
    <2> QED BY <1>4, <2>1, <2>2
  <1>6. ASSUME NEW i \in 1 .. Len(n), NEW j \in 1 .. Len(n), n[i] = n[j] PROVE i = j
    <2>1. CASE i = 1 /\ j \in 2 .. Len(n)
      BY <1>2, <1>3, <1>6, <2>1
    <2>2. CASE j = 1 /\ i \in 2 .. Len(n)
      BY <1>2, <1>3, <1>6, <2>2
    <2>3. CASE i \in 2 .. Len(n) /\ j \in 2 .. Len(n)
      <3>1. t[i - 1] = t[j - 1] /\ i - 1 \in 1 .. Len(t) /\ j - 1 \in 1 .. Len(t)
        BY <1>3, <1>6, <2>3
      <3>2. i - 1 = j - 1
        BY <3>1
      <3> QED BY <3>2, <2>3
    <2> QED BY <1>4, <2>1, <2>2, <2>3
  <1>7. Len(n) > 0
    BY <1>2
  <1> QED BY <1>1, <1>2, <1>5, <1>6, <1>7

\* However the provider's list changes.
LEMMA ListChangesKept ==
    ASSUME ListsKnow, ListingTyped, ListChanges
    PROVE  ListsKnow' /\ ListingTyped'
  <1>1. PICK c, w : c = listing /\ w = issued + 1
    OBVIOUS
  <1>2. /\ issued \in Nat /\ w \in Nat /\ issued' = w /\ lists' = lists \cup {listing'}
        /\ c \in Seq(Nat) /\ \A i \in 1 .. Len(c) : c[i] \in Nat /\ c[i] <= issued
        /\ \A i, j \in 1 .. Len(c) : c[i] = c[j] => i = j
    BY <1>1 DEF ListChanges, ListingTyped, NoticesOf
  <1>3. \A i \in 1 .. Len(c) : c[i] # w /\ c[i] <= w
    BY <1>1, <1>2
  <1>4. CASE listing' = <<w>> \o c
    <2>1. PICK n \in Seq(Nat) :
             /\ n = listing' /\ Len(n) > 0 /\ n[1] = w
             /\ \A i \in 1 .. Len(n) : n[i] <= w
             /\ \A i, j \in 1 .. Len(n) : n[i] = n[j] => i = j
      BY <1>2, <1>3, <1>4, PushedFirst
    <2> QED BY <1>1, <1>2, <2>1, NewFirst
  <1>5. CASE c # <<>> /\ listing' = <<w>> \o Front(c)
    <2>1. PICK t : t = Front(c)
      OBVIOUS
    <2>2. t \in Seq(Nat) /\ Len(t) = Len(c) - 1 /\ \A i \in 1 .. Len(t) : t[i] = c[i] /\ i \in 1 .. Len(c)
      <3>1. Len(c) \in Nat /\ Len(c) >= 1 /\ Len(c) - 1 \in Nat
        BY <1>2, <1>5
      <3>2. t = SubSeq(c, 1, Len(c) - 1)
        BY <2>1 DEF Front
      <3>3. t = [i \in 1 .. (Len(c) - 1) |-> c[i]]
        BY <1>2, <3>1, <3>2
      <3>4. \A i \in 1 .. (Len(c) - 1) : i \in 1 .. Len(c) /\ c[i] \in Nat
        BY <1>2, <3>1
      <3> QED BY <3>1, <3>3, <3>4
    <2>3. \A i \in 1 .. Len(t) : t[i] # w /\ t[i] <= w
      BY <1>3, <2>2
    <2>4. \A i, j \in 1 .. Len(t) : t[i] = t[j] => i = j
      BY <1>2, <2>2
    <2>5. PICK n \in Seq(Nat) :
             /\ n = listing' /\ Len(n) > 0 /\ n[1] = w
             /\ \A i \in 1 .. Len(n) : n[i] <= w
             /\ \A i, j \in 1 .. Len(n) : n[i] = n[j] => i = j
      <3>1. listing' = <<w>> \o t /\ w \in Nat
        BY <1>2, <1>5, <2>1
      <3> QED BY <2>2, <2>3, <2>4, <3>1, PushedFirst
    <2> QED BY <1>1, <1>2, <2>5, NewFirst
  <1>6. ASSUME NEW p \in 1 .. Len(c), listing' = [c EXCEPT ![p] = w]
        PROVE  ListsKnow' /\ ListingTyped'
    <2>1. CASE p \in 2 .. Len(c)
      BY <1>1, <1>2, <1>6, <2>1, Correction
    <2>2. CASE p = 1
      <3>1. PICK n : n = listing'
        OBVIOUS
      <3>2. n \in Seq(Nat) /\ Len(n) = Len(c) /\ Len(n) > 0 /\ n[1] = w
            /\ \A i \in 1 .. Len(c) : i # 1 => n[i] = c[i]
        BY <1>2, <1>6, <2>2, <3>1
      <3>3. \A i \in 1 .. Len(n) : n[i] <= w
        BY <1>2, <1>3, <3>2
      <3>4. \A i, j \in 1 .. Len(n) : n[i] = n[j] => i = j
        BY <1>2, <1>3, <3>2
      <3> QED BY <1>1, <1>2, <3>1, <3>2, <3>3, <3>4, NewFirst
    <2>3. p = 1 \/ p \in 2 .. Len(c)
      BY <1>2
    <2> QED BY <2>1, <2>2, <2>3
  <1>7. \/ listing' = <<w>> \o c
        \/ c # <<>> /\ listing' = <<w>> \o Front(c)
        \/ \E p \in 1 .. Len(c) : listing' = [c EXCEPT ![p] = w]
    BY <1>1, <1>2 DEF ListChanges
  <1> QED BY <1>4, <1>5, <1>6, <1>7

\* The notices of the pages, page by page.
LEMMA UnionOfPages ==
    ASSUME NEW ps \in Seq(Seq(Nat))
    PROVE  UNION {ToSet(p) : p \in ToSet(ps)} = UNION {ToSet(ps[i]) : i \in 1 .. Len(ps)}
  <1>1. ToSet(ps) = {ps[i] : i \in 1 .. Len(ps)}
    BY DEF ToSet
  <1> QED BY <1>1

\* Pages already read do not depend on the list any more.
LEMMA PagesOutliveChanges ==
    ASSUME PagesKnow, UNCHANGED <<pages, total>>, lists \subseteq lists'
    PROVE  PagesKnow'
  <1>1. Seen' = Seen
    BY DEF Seen
  <1>2. \A p, l : ReadFrom(p, l) => ReadFrom(p, l)'
    BY DEF ReadFrom
  <1>3. ASSUME pages # <<>>
        PROVE  \E first \in lists' :
                 /\ ReadFrom(1, first)'
                 /\ \A p \in 1 .. Len(pages) : \E l \in lists' : ReadFrom(p, l)' /\ Before(first, l)
    <2>1. PICK first \in lists :
             /\ ReadFrom(1, first)
             /\ \A p \in 1 .. Len(pages) : \E l \in lists : ReadFrom(p, l) /\ Before(first, l)
      BY <1>3 DEF PagesKnow
    <2> HIDE DEF ReadFrom, Before
    <2> QED BY <1>2, <2>1
  <1> QED BY <1>1, <1>3 DEF PagesKnow

\* A page read from the list of the moment.
LEMMA PageIsRead ==
    ASSUME ListsKnow, ListingTyped, PagesKnow, ReadPage
    PROVE  PagesKnow' /\ pages' # <<>> /\ total' = Len(listing)
  <1>1. PICK q, p, c : q = Len(pages) + 1 /\ p = Page(q) /\ c = listing
    OBVIOUS
  <1>2. /\ pages' = Append(pages, p) /\ total' = Len(c) /\ lists' = lists /\ listing' = c
        /\ total \in {-1, Len(c)}
    BY <1>1 DEF ReadPage, Accepted
  <1>3. pages \in Seq(Seq(Nat)) /\ q \in Nat \ {0} /\ c \in Seq(Nat) /\ c \in lists
    BY <1>1 DEF PagesKnow, ListingTyped, NoticesOf, ListsKnow
  <1>4. ToSet(p) = Entries(c, q) /\ p \in Seq(Nat)
    <2>1. ToSet(p) = Entries(c, q)
      BY <1>1, <1>3, PageIsPart
    <2>2. p \in Seq(Nat)
      <3>1. PICK a, b : a = (q - 1) * PageSize + 1 /\ b = Min({q * PageSize, Len(listing)})
                        /\ p = SubSeq(listing, a, b)
        BY <1>1 DEF Page
      <3>2. PageSize \in Nat /\ Len(c) \in Nat
        BY <1>3, EventAssumption
      <3>3. (q - 1) * PageSize \in Nat /\ q * PageSize \in Nat
        BY <1>3, <3>2
      <3>4. a \in Nat \ {0} /\ b \in Nat /\ b <= Len(c)
        BY <1>1, <3>1, <3>2, <3>3, MinOfTwo
      <3>5. CASE a <= b
        <4>1. PICK n \in Nat : n = b - a + 1
          BY <3>4, <3>5
        <4>2. p = [i \in 1 .. n |-> c[i + a - 1]]
          <5>1. SubSeq(c, a, b) = [i \in 1 .. (b - a + 1) |-> c[i + a - 1]]
            BY <1>3, <3>4
          <5> QED BY <1>1, <3>1, <4>1, <5>1
        <4>3. \A i \in 1 .. n : i + a - 1 \in 1 .. Len(c)
          BY <3>2, <3>4, <4>1
        <4>4. \A i \in 1 .. n : c[i + a - 1] \in Nat
          BY <1>3, <4>3
        <4> QED BY <4>2, <4>4
      <3>6. CASE b < a
        <4>1. p = <<>>
          BY <1>1, <1>3, <3>1, <3>4, <3>6
        <4> QED BY <4>1
      <3> QED BY <3>4, <3>5, <3>6
    <2> QED BY <2>1, <2>2
  <1>5. /\ pages' \in Seq(Seq(Nat)) /\ Len(pages') = q /\ pages'[q] = p /\ pages' # <<>>
        /\ \A i \in 1 .. Len(pages) : pages'[i] = pages[i]
    BY <1>1, <1>2, <1>3, <1>4
  <1>6. Seen' = Seen \cup ToSet(p)
    <2>1. Seen' = UNION {ToSet(pages'[i]) : i \in 1 .. q}
      <3>1. UNION {ToSet(x) : x \in ToSet(pages')} = UNION {ToSet(pages'[i]) : i \in 1 .. Len(pages')}
        BY <1>5, UnionOfPages
      <3>2. Seen' = UNION {ToSet(x) : x \in ToSet(pages')}
        BY DEF Seen, ToSet
      <3> QED BY <1>5, <3>1, <3>2
    <2>2. Seen = UNION {ToSet(pages[i]) : i \in 1 .. Len(pages)}
      BY <1>3, UnionOfPages DEF Seen
    <2>3. \A i \in 1 .. q : i \in 1 .. Len(pages) \/ i = q
      BY <1>1, <1>3
    <2>4. 1 .. Len(pages) \subseteq 1 .. q /\ q \in 1 .. q
      BY <1>1, <1>3
    <2>5. \A i \in 1 .. Len(pages) : ToSet(pages'[i]) = ToSet(pages[i])
      BY <1>5
    <2>6. ToSet(pages'[q]) = ToSet(p)
      BY <1>5
    <2> QED BY <2>1, <2>2, <2>3, <2>4, <2>5, <2>6
  <1>7. IsFiniteSet(Seen') /\ Cardinality(Seen') <= q * PageSize
    <2>1. IsFiniteSet(ToSet(p)) /\ Cardinality(ToSet(p)) <= PageSize
      BY <1>3, <1>4, PartIsSmall
    <2>2. IsFiniteSet(Seen) /\ Cardinality(Seen) <= Len(pages) * PageSize
      BY DEF PagesKnow
    <2>3. IsFiniteSet(Seen') /\ Cardinality(Seen') = Cardinality(Seen) + Cardinality(ToSet(p))
                                                      - Cardinality(Seen \cap ToSet(p))
      BY <1>6, <2>1, <2>2, FS_Union
    <2>4. IsFiniteSet(Seen \cap ToSet(p))
      BY <2>2, FS_Subset
    <2>5. Cardinality(Seen) \in Nat /\ Cardinality(ToSet(p)) \in Nat /\ Cardinality(Seen \cap ToSet(p)) \in Nat
      BY <2>1, <2>2, <2>4, FS_CardinalityType
    <2>6. q * PageSize = Len(pages) * PageSize + PageSize /\ Len(pages) * PageSize \in Nat /\ PageSize \in Nat
      <3>1. PICK k \in Nat : k = Len(pages) /\ q = k + 1
        BY <1>1, <1>3
      <3>2. PageSize \in Nat
        BY EventAssumption
      <3> QED BY <3>1, <3>2
    <2>7. PICK m, k, a, b, d : /\ m = q * PageSize /\ k = Len(pages) * PageSize
                               /\ a = Cardinality(Seen) /\ b = Cardinality(ToSet(p))
                               /\ d = Cardinality(Seen \cap ToSet(p))
      OBVIOUS
    <2>8. a + b - d <= m
      BY <2>1, <2>2, <2>5, <2>6, <2>7
    <2> QED BY <2>3, <2>7, <2>8
  <1>8. ReadFrom(q, c)'
    BY <1>2, <1>3, <1>4, <1>5 DEF ReadFrom
  <1>9. \E first \in lists :
           /\ ReadFrom(1, first)'
           /\ \A i \in 1 .. q : \E l \in lists : ReadFrom(i, l)' /\ Before(first, l)
    <2>1. CASE pages = <<>>
      <3>1. q = 1 /\ Before(c, c)
        BY <1>1, <1>3, <2>1 DEF ListsKnow
      <3> QED BY <1>3, <1>8, <3>1
    <2>2. CASE pages # <<>>
      <3>1. total = Len(c)
        BY <1>2, <1>3, <2>2 DEF PagesKnow
      <3>2. PICK first \in lists :
               /\ ReadFrom(1, first)
               /\ \A i \in 1 .. Len(pages) : \E l \in lists : ReadFrom(i, l) /\ Before(first, l)
        BY <2>2 DEF PagesKnow
      <3>3. \A i \in 1 .. Len(pages), l \in lists : ReadFrom(i, l) => ReadFrom(i, l)'
        BY <1>2, <1>5, <3>1 DEF ReadFrom
      <3>4. 1 \in 1 .. Len(pages)
        BY <1>3, <2>2
      <3>5. Before(first, c)
        BY <1>1 DEF ListsKnow
      <3>6. \A i \in 1 .. q : i \in 1 .. Len(pages) \/ i = q
        BY <1>1, <1>3
      <3>7. \A i \in 1 .. q : \E l \in lists : ReadFrom(i, l)' /\ Before(first, l)
        <4> SUFFICES ASSUME NEW i \in 1 .. q PROVE \E l \in lists : ReadFrom(i, l)' /\ Before(first, l)
          OBVIOUS
        <4>1. CASE i = q
          BY <1>3, <1>8, <3>5, <4>1
        <4>2. CASE i \in 1 .. Len(pages)
          BY <3>2, <3>3, <4>2
        <4> QED BY <3>6, <4>1, <4>2
      <3>8. ReadFrom(1, first)'
        BY <3>2, <3>3, <3>4
      <3> QED BY <3>7, <3>8
    <2> QED BY <2>1, <2>2
  <1>10. \E first \in lists' :
            /\ ReadFrom(1, first)'
            /\ \A i \in 1 .. Len(pages') : \E l \in lists' : ReadFrom(i, l)' /\ Before(first, l)
    BY <1>2, <1>5, <1>9
  <1>11. total' \in Nat
    BY <1>2, <1>3
  <1>12. IsFiniteSet(Seen') /\ Cardinality(Seen') <= Len(pages') * PageSize
    BY <1>5, <1>7
  <1>13. PagesKnow'
    BY <1>5, <1>10, <1>11, <1>12 DEF PagesKnow
  <1> QED BY <1>1, <1>2, <1>5, <1>13

\* What a run may publish.
IsWhole(events, versions, shown, length, count) ==
    LET Versions(i) == {l[i] : l \in versions}
    IN  /\ \A i \in 1 .. length : \E v \in events : events \cap Versions(i) = {v}
        /\ events \subseteq UNION {Versions(i) : i \in 1 .. length}
        /\ count <= 2 => \E l \in shown : ToSet(l) = events

WholeNotices(events) == IsWhole(events, Alike, lists, Len(listing), Len(pages))

\* Pages of the whole length that begin and end with the same first page.
LEMMA PagesFitTogether ==
    ASSUME ListsKnow, ListingTyped, PagesKnow, pages # <<>>, Cardinality(Seen) = total,
           total = Len(listing), ToSet(pages[1]) = Entries(listing, 1)
    PROVE  WholeNotices(Seen)
  <1>1. PICK c, n, t : c = listing /\ n = Len(pages) /\ t = total
    OBVIOUS
  <1>2. /\ c \in Seq(Nat) /\ c \in lists /\ Len(c) = t /\ t \in Nat /\ n \in Nat \ {0} /\ 1 \in 1 .. n
        /\ PageSize \in Nat \ {0} /\ t <= n * PageSize
    BY <1>1, EventAssumption DEF ListingTyped, NoticesOf, ListsKnow, PagesKnow
  <1>3. PICK first \in lists :
          /\ ReadFrom(1, first)
          /\ \A p \in 1 .. n : \E l \in lists : ReadFrom(p, l) /\ Before(first, l)
    BY <1>1 DEF PagesKnow
  <1>4. \A l \in lists : l \in Seq(Nat) /\ Before(l, c)
    BY <1>1 DEF ListsKnow, NoticesOf
  <1>5. Seen = UNION {ToSet(pages[p]) : p \in 1 .. n}
    BY <1>1, UnionOfPages DEF PagesKnow, Seen
  <1>6. \A i \in 1 .. t : \E p \in 1 .. n : OnPage(p, i)
    <2> SUFFICES ASSUME NEW i \in 1 .. t PROVE \E p \in 1 .. n : OnPage(p, i)
      OBVIOUS
    <2>1. n * PageSize \in Nat
      BY <1>2
    <2>2. i <= n * PageSize /\ i \in Nat \ {0} /\ n \in Nat
      BY <1>2, <2>1
    <2> QED BY <2>2, PagesCover
  <1>7. t > 0 => first # <<>> /\ c # <<>> /\ first[1] = c[1]
    <2> SUFFICES ASSUME t > 0 PROVE first # <<>> /\ c # <<>> /\ first[1] = c[1]
      OBVIOUS
    <2>1. Len(first) = t /\ first \in Seq(Nat) /\ first # <<>> /\ c # <<>> /\ 1 \in 1 .. Len(c)
          /\ 1 \in 1 .. Len(first)
      BY <1>1, <1>2, <1>3, <1>4 DEF ReadFrom
    <2>2. OnPage(1, 1)
      BY <1>2 DEF OnPage
    <2>3. c[1] \in Entries(c, 1)
      BY <2>1, <2>2 DEF Entries
    <2>4. Entries(c, 1) = Entries(first, 1)
      BY <1>1, <1>3 DEF ReadFrom
    <2>5. \E j \in 1 .. Len(first) : first[j] = c[1]
      BY <2>3, <2>4 DEF Entries
    <2>6. first[1] <= c[1] /\ first[1] \in Nat /\ c[1] \in Nat
      BY <1>2, <1>4, <2>1 DEF Before
    <2>7. Fresh(c, first)
      BY <1>1, <1>2 DEF ListsKnow
    <2>8. ~(first[1] < c[1])
      BY <2>1, <2>5, <2>7 DEF Fresh
    <2> QED BY <2>1, <2>6, <2>8
  \* Every page was read from a version of the final list.
  <1>8. \A p \in 1 .. n : \E l \in Alike : ReadFrom(p, l) /\ Before(first, l)
    <2> SUFFICES ASSUME NEW p \in 1 .. n PROVE \E l \in Alike : ReadFrom(p, l) /\ Before(first, l)
      OBVIOUS
    <2>1. PICK l \in lists : ReadFrom(p, l) /\ Before(first, l)
      BY <1>3
    <2>2. Len(l) = t /\ l \in Seq(Nat)
      BY <1>1, <1>4, <2>1 DEF ReadFrom
    <2>3. l # <<>> => l[1] = c[1]
      <3> SUFFICES ASSUME l # <<>> PROVE l[1] = c[1]
        OBVIOUS
      <3>1. t > 0 /\ 1 \in 1 .. Len(l) /\ 1 \in 1 .. Len(c)
        BY <1>2, <2>2
      <3>2. first # <<>> /\ c # <<>> /\ first[1] = c[1]
        BY <1>7, <3>1
      <3>3. first[1] <= l[1] /\ l[1] <= c[1] /\ l[1] \in Nat /\ c[1] \in Nat
        BY <1>2, <1>4, <2>1, <2>2, <3>1, <3>2 DEF Before
      <3> QED BY <3>2, <3>3
    <2> QED BY <1>1, <1>2, <2>1, <2>2, <2>3 DEF Alike
  <1>9. \A k, l \in Alike : /\ k \in lists /\ l \in lists /\ Len(k) = t /\ Len(l) = t
                            /\ \A i, j \in 1 .. t : k[i] = l[j] => i = j
    <2> SUFFICES ASSUME NEW k \in Alike, NEW l \in Alike
                 PROVE  /\ k \in lists /\ l \in lists /\ Len(k) = t /\ Len(l) = t
                        /\ \A i, j \in 1 .. t : k[i] = l[j] => i = j
      OBVIOUS
    <2>1. k \in lists /\ l \in lists /\ Len(k) = t /\ Len(l) = t
      BY <1>1 DEF Alike
    <2>2. ASSUME NEW i \in 1 .. t, NEW j \in 1 .. t, k[i] = l[j] PROVE i = j
      <3>1. k # <<>> /\ l # <<>>
        BY <1>2, <1>4, <2>1
      <3>2. k[1] = l[1]
        BY <1>1, <3>1 DEF Alike
      <3>3. Aligned(k, l)
        BY <2>1 DEF ListsKnow
      <3> QED BY <2>1, <2>2, <3>1, <3>2, <3>3 DEF Aligned
    <2> QED BY <2>1, <2>2
  <1>10. ASSUME NEW p \in 1 .. n, NEW l \in Alike, ReadFrom(p, l)
         PROVE  ToSet(pages[p]) = {l[i] : i \in {j \in 1 .. t : OnPage(p, j)}}
    BY <1>9, <1>10 DEF ReadFrom, Entries
  \* Each place was read once.
  <1>11. ASSUME NEW i \in 1 .. t
         PROVE  \E v \in Seen : Seen \cap {l[i] : l \in Alike} = {v}
    <2>1. PICK p \in 1 .. n : OnPage(p, i)
      BY <1>6
    <2>2. PICK k \in Alike : ReadFrom(p, k)
      BY <1>8
    <2>3. k[i] \in Seen
      BY <1>5, <1>10, <2>1, <2>2
    <2>4. ASSUME NEW w \in Seen, NEW l \in Alike, w = l[i] PROVE w = k[i]
      <3>1. PICK q \in 1 .. n : w \in ToSet(pages[q])
        BY <1>5
      <3>2. PICK m \in Alike : ReadFrom(q, m)
        BY <1>8
      <3>3. PICK j \in 1 .. t : OnPage(q, j) /\ w = m[j]
        <4>1. ToSet(pages[q]) = {m[x] : x \in {y \in 1 .. t : OnPage(q, y)}}
          BY <1>10, <3>2
        <4> QED BY <3>1, <4>1
      <3>4. i = j
        BY <1>9, <2>4, <3>3
      <3>5. p \in Nat /\ q \in Nat /\ i \in Nat
        BY <1>2
      <3>6. p = q
        BY <2>1, <3>3, <3>4, <3>5, PagesAreApart
      <3>7. k[i] \in ToSet(pages[q])
        BY <1>10, <2>1, <2>2, <3>6
      <3>8. PICK h \in 1 .. t : k[i] = m[h]
        <4>1. ToSet(pages[q]) = {m[x] : x \in {y \in 1 .. t : OnPage(q, y)}}
          BY <1>10, <3>2
        <4> QED BY <3>7, <4>1
      <3>9. h = i
        BY <1>9, <3>8
      <3> QED BY <3>3, <3>4, <3>8, <3>9
    <2>5. k[i] \in {l[i] : l \in Alike}
      BY <2>2
    <2> QED BY <2>3, <2>4, <2>5
  <1>12. Seen \subseteq UNION {{l[i] : l \in Alike} : i \in 1 .. t}
    <2> SUFFICES ASSUME NEW w \in Seen PROVE \E i \in 1 .. t : \E l \in Alike : w = l[i]
      OBVIOUS
    <2>1. PICK q \in 1 .. n : w \in ToSet(pages[q])
      BY <1>5
    <2>2. PICK m \in Alike : ReadFrom(q, m)
      BY <1>8
    <2>3. ToSet(pages[q]) = {m[x] : x \in {y \in 1 .. t : OnPage(q, y)}}
      BY <1>10, <2>2
    <2> QED BY <2>1, <2>2, <2>3
  \* With two pages the list from which the second was read had the same first page.
  <1>13. ASSUME n <= 2 PROVE \E l \in lists : ToSet(l) = Seen
    <2>1. PICK l \in Alike : ReadFrom(n, l) /\ Before(first, l)
      BY <1>2, <1>8
    <2>2. l \in lists /\ Len(l) = t /\ l \in Seq(Nat)
      BY <1>4, <1>9, <2>1
    <2>3. ToSet(l) = {l[i] : i \in 1 .. t}
      BY <2>2 DEF ToSet
    <2>4. CASE n = 1
      <3>1. Seen = ToSet(pages[1])
        BY <1>5, <2>4
      <3>2. \A i \in 1 .. t : OnPage(1, i)
        BY <1>2, <1>6, <2>4
      <3>3. ToSet(pages[1]) = {l[i] : i \in 1 .. t}
        BY <1>10, <2>1, <2>4, <3>2
      <3> QED BY <2>2, <2>3, <3>1, <3>3
    <2>5. CASE n = 2
      <3>1. Seen = ToSet(pages[1]) \cup ToSet(pages[2])
        <4>1. 1 .. n = {1, 2}
          BY <2>5
        <4> QED BY <1>5, <4>1
      <3>2. \A i \in 1 .. t : OnPage(1, i) \/ OnPage(2, i)
        <4>1. 1 .. n = {1, 2}
          BY <2>5
        <4> QED BY <1>6, <4>1
      <3>3. ToSet(pages[2]) = {l[i] : i \in {j \in 1 .. t : OnPage(2, j)}}
        BY <1>10, <2>1, <2>5
      <3>4. first \in Alike
        BY <1>1, <1>2, <1>3, <1>4, <1>7 DEF Alike, ReadFrom
      <3>5. ToSet(pages[1]) = {first[i] : i \in {j \in 1 .. t : OnPage(1, j)}}
        BY <1>2, <1>3, <1>10, <3>4
      <3>6. \A i \in 1 .. t : OnPage(1, i) => first[i] = l[i]
        <4> SUFFICES ASSUME NEW i \in 1 .. t, OnPage(1, i) PROVE first[i] = l[i]
          OBVIOUS
        <4>1. first # <<>> /\ first[1] = c[1] /\ c # <<>> /\ Len(first) = t
          BY <1>2, <1>7, <1>9, <3>4
        <4>2. l # <<>> /\ l[1] = c[1]
          BY <1>1, <2>1, <2>2 DEF Alike
        <4>3. first[i] <= l[i]
          BY <2>1, <2>2, <4>1, <4>2 DEF Before
        <4>4. l[i] <= c[i]
          BY <1>4, <2>2, <4>2 DEF Before
        <4>5. c \in Alike
          BY <1>1, <1>2 DEF Alike
        <4>6. c[i] \in Entries(c, 1)
          BY <1>2 DEF Entries
        <4>7. PICK j \in 1 .. t : c[i] = first[j]
          BY <1>1, <3>5, <4>6
        <4>8. i = j
          BY <1>9, <3>4, <4>5, <4>7
        <4>9. first \in Seq(Nat) /\ first[i] \in Nat /\ l[i] \in Nat /\ c[i] \in Nat
          BY <1>2, <1>4, <2>2, <4>1
        <4> QED BY <4>3, <4>4, <4>7, <4>8, <4>9
      <3>7. ToSet(pages[1]) = {l[i] : i \in {j \in 1 .. t : OnPage(1, j)}}
        BY <3>5, <3>6
      <3>8. Seen = {l[i] : i \in 1 .. t}
        BY <3>1, <3>2, <3>3, <3>7
      <3> QED BY <2>2, <2>3, <3>8
    <2> QED BY <1>2, <1>13, <2>4, <2>5
  <1> QED BY <1>1, <1>2, <1>11, <1>12, <1>13 DEF WholeNotices, IsWhole

\* The transaction of a publication can still commit.
Publishing == at = "publish" \/ (thread = "publish" /\ Alive)

\* Where the worker and its threads are, and what its row says of it.
EventThreads ==
    /\ at \in {"idle", "starting", "joining", "reading", "rereading", "publish", "sealing"}
    /\ at \in {"reading", "rereading", "publish"} => row # "success" /\ thread = "none"
    /\ at \in {"starting", "joining"} => thread = "start"
    /\ thread = "start" => ~Alive /\ at \in {"idle", "starting", "joining"}
    /\ thread = "publish" => at \in {"idle", "sealing"}
    /\ facts # {} => row = "success"
    /\ cancelling = "sealed" => at = "idle" /\ ~Alive /\ thread # "start"

\* What the pages and the events are of the provider's list.
EventPages ==
    /\ ListingTyped
    /\ at \in {"reading", "rereading"} \/ Publishing => ListsKnow /\ PagesKnow
    /\ at = "rereading" \/ Publishing => pages # <<>> /\ Cardinality(Seen) = total
    /\ Publishing => total = Len(listing) /\ ToSet(pages[1]) = Entries(listing, 1)
    /\ row = "success" => WholeNotices({f.n : f \in facts})

EventInv == job \in EventJobs => EventThreads /\ EventPages

\* The properties are part of the invariant.
LEMMA InvIsEveryNoticeOnce == ASSUME EventInv PROVE EveryNoticeOnce
  BY DEF EventInv, EventPages, EveryNoticeOnce, WholeNotices, IsWhole

LEMMA InvIsCancelledIsSealed == ASSUME EventInv PROVE CancelledIsSealed
  BY DEF EventInv, EventThreads, CancelledIsSealed

\* The steps that the job of the alert events takes part in.
EventStep ==
    \/ BeginEvents
    \/ EventWorker
    \/ ListChanges
    \/ CancelEvents
    \/ (SkipOverlap \/ Reap \/ Crash \/ Recover) /\ UNCHANGED eventVars
    \/ UNCHANGED <<runVars, eventVars>>

\* The steps of a behaviour that follows the alert-event job.
LEMMA EventSteps ==
    ASSUME [Next]_vars, job \in EventJobs
    PROVE  EventStep
  <1>1. job \notin KmaJobs /\ job \notin AlertJobs /\ job \notin StationJobs
        /\ job # "kma_targets" /\ job # "short_retention"
    BY DEF EventJobs, StationJobs, AirKoreaJobs, RegionalJobs, RegionalExports, KmaJobs, GridJobs,
       AlertJobs
  <1>2. CASE UNCHANGED vars
    BY <1>2 DEF vars, EventStep, runVars
  <1>3. CASE Starts
    <2>1. BeginEvents
      BY <1>1, <1>3 DEF Starts, StartKma, StartAlerts, StartStations
    <2> QED BY <2>1 DEF EventStep
  <1>4. CASE Worker
    <2>1. CASE EventWorker
      BY <2>1 DEF EventStep
    <2>2. CASE ShortWorker /\ OthersOfRetention
      BY <2>2 DEF OthersOfRetention, EventStep, runVars
    <2>3. KmaWorker => job \in KmaJobs
      BY DEF KmaWorker
    <2>4. AlertWorker => job \in AlertJobs
      BY DEF AlertWorker
    <2>5. StationWorker => job \in StationJobs
      BY DEF StationWorker
    <2> QED BY <1>1, <1>4, <2>1, <2>2, <2>3, <2>4, <2>5 DEF Worker
  <1>5. CASE Others
    <2>1. CASE (SkipOverlap \/ Reap \/ Crash \/ Recover) /\ UNCHANGED eventVars
      BY <2>1 DEF EventStep
    <2> QED BY <1>1, <1>5, <2>1 DEF Others, OthersOfTheRow, EventStep, OthersOfTargets, OthersOfRetention
  <1> QED BY <1>2, <1>3, <1>4, <1>5 DEF Next

\* The worker and its threads, step by step.
LEMMA ThreadsStep ==
    ASSUME EventThreads, EventStep
    PROVE  EventThreads'
  <1>1. CASE BeginEvents
    BY <1>1 DEF BeginEvents, EventThreads, Alive
  <1>2. CASE StartEvents
    BY <1>2 DEF StartEvents, NewRow, EventThreads, Alive
  <1>3. CASE ThreadFails
    BY <1>3 DEF ThreadFails, EventThreads, Alive
  <1>4. CASE ReadPage
    BY <1>4 DEF ReadPage, EventThreads, Alive
  <1>5. CASE RereadFirst
    BY <1>5 DEF RereadFirst, eventVars, EventThreads, Alive
  <1>6. CASE PublishEvents
    BY <1>6 DEF PublishEvents, EventThreads, Alive
  <1>7. CASE SealCancelled
    BY <1>7 DEF SealCancelled, EventThreads, Alive
  <1>8. CASE RaiseEvents
    BY <1>8 DEF RaiseEvents, Fail, eventVars, EventThreads, Alive
  <1>9. CASE ListChanges
    BY <1>9 DEF ListChanges, runVars, EventThreads, Alive
  <1>10. CASE CancelEvents
    BY <1>10 DEF CancelEvents, EventThreads, Alive
  <1>11. CASE (SkipOverlap \/ Reap \/ Crash \/ Recover) /\ UNCHANGED eventVars
    BY <1>11 DEF SkipOverlap, Reap, Crash, Recover, eventVars, EventThreads, Alive
  <1>12. CASE UNCHANGED <<runVars, eventVars>>
    BY <1>12 DEF runVars, eventVars, EventThreads, Alive
  <1> QED BY <1>1, <1>2, <1>3, <1>4, <1>5, <1>6, <1>7, <1>8, <1>9, <1>10, <1>11, <1>12
          DEF EventStep, EventWorker

\* A run starts with the list of the moment as the only one it may publish from.
LEMMA EventsStart ==
    ASSUME EventThreads, EventPages, StartEvents
    PROVE  EventPages'
  <1>1. /\ at' \in {"idle", "reading", "sealing"} /\ row' = "running" /\ thread' = "none"
        /\ UNCHANGED <<listing, issued>> /\ pages' = <<>> /\ total' = -1 /\ lists' = {listing}
    BY DEF StartEvents, NewRow, EventThreads
  <1>2. ListingTyped'
    BY <1>1 DEF EventPages, ListingTyped, NoticesOf
  <1>3. ListsKnow'
    <2>1. Aligned(listing, listing)
      BY DEF EventPages, ListingTyped, Aligned
    <2>2. ASSUME listing # <<>> PROVE \A i \in 1 .. Len(listing) : listing[i] <= listing[i] /\ listing[i] \in Nat
      BY DEF EventPages, ListingTyped, NoticesOf
    <2>3. Before(listing, listing) /\ Fresh(listing, listing)
      <3> SUFFICES ASSUME listing # <<>> PROVE Before(listing, listing) /\ Fresh(listing, listing)
        BY DEF Before, Fresh
      <3>1. 1 \in 1 .. Len(listing)
        BY DEF EventPages, ListingTyped, NoticesOf
      <3>2. listing[1] <= listing[1] /\ ~(listing[1] < listing[1])
        BY <2>2, <3>1
      <3> QED BY <2>2, <3>2 DEF Before, Fresh
    <2>4. NoticesOf(listing)'
      BY <1>2 DEF ListingTyped
    <2> QED BY <1>1, <2>1, <2>3, <2>4 DEF ListsKnow
  <1>4. PagesKnow'
    <2>1. Seen' = {} /\ pages' \in Seq(Seq(Nat)) /\ Len(pages') = 0
      BY <1>1 DEF Seen, ToSet
    <2>2. IsFiniteSet({}) /\ Cardinality({}) = 0 /\ 0 <= 0 * PageSize
      BY FS_EmptySet, EventAssumption
    <2> QED BY <1>1, <2>1, <2>2 DEF PagesKnow
  <1> QED BY <1>1, <1>2, <1>3, <1>4 DEF EventPages, Publishing

\* A page is read and accepted.
LEMMA EventsRead ==
    ASSUME EventThreads, EventPages, ReadPage
    PROVE  EventPages'
  <1>1. /\ at = "reading" /\ row # "success" /\ thread = "none"
        /\ ListsKnow /\ PagesKnow /\ ListingTyped
        /\ UNCHANGED <<row, facts, listing, issued, lists, thread>>
    BY DEF EventThreads, EventPages, ReadPage
  <1>2. PICK p : /\ p = Page(Len(pages) + 1) /\ pages' = Append(pages, p) /\ total' = Len(listing)
                 /\ at' = IF Cardinality(Seen \cup ToSet(p)) # Len(listing) THEN "reading"
                          ELSE IF pages = <<>> THEN "publish" ELSE "rereading"
    BY DEF ReadPage
  <1>3. PagesKnow' /\ pages' # <<>>
    BY <1>1, PageIsRead
  <1>4. ListsKnow' /\ ListingTyped'
    BY <1>1 DEF ListsKnow, ListingTyped, NoticesOf
  <1>5. Seen' = Seen \cup ToSet(p) /\ (pages = <<>> => ToSet(pages'[1]) = Entries(listing, 1))
    <2>1. pages \in Seq(Seq(Nat)) /\ pages' \in Seq(Seq(Nat)) /\ Len(pages') = Len(pages) + 1
          /\ \A i \in 1 .. Len(pages) : pages'[i] = pages[i]
      <3>1. pages \in Seq(Seq(Nat)) /\ pages' \in Seq(Seq(Nat))
        BY <1>1, <1>3 DEF PagesKnow
      <3> QED BY <1>2, <3>1
    <2>2. pages'[Len(pages')] = p
      BY <1>2, <2>1
    <2>3. Seen = UNION {ToSet(pages[i]) : i \in 1 .. Len(pages)}
      BY <2>1, UnionOfPages DEF Seen
    <2>4. Seen' = UNION {ToSet(pages'[i]) : i \in 1 .. Len(pages')}
      <3>1. UNION {ToSet(x) : x \in ToSet(pages')} = UNION {ToSet(pages'[i]) : i \in 1 .. Len(pages')}
        BY <2>1, UnionOfPages
      <3>2. Seen' = UNION {ToSet(x) : x \in ToSet(pages')}
        BY DEF Seen, ToSet
      <3> QED BY <3>1, <3>2
    <2>5. \A i \in 1 .. Len(pages') : i \in 1 .. Len(pages) \/ i = Len(pages')
      BY <2>1
    <2>6. 1 .. Len(pages) \subseteq 1 .. Len(pages') /\ Len(pages') \in 1 .. Len(pages')
      BY <2>1
    <2>7. Seen' = Seen \cup ToSet(p)
      <3>1. \A i \in 1 .. Len(pages) : ToSet(pages'[i]) = ToSet(pages[i])
        BY <2>1
      <3>2. ToSet(pages'[Len(pages')]) = ToSet(p)
        BY <2>2
      <3> QED BY <2>3, <2>4, <2>5, <2>6, <3>1, <3>2
    <2>8. ASSUME pages = <<>> PROVE ToSet(pages'[1]) = Entries(listing, 1)
      <3>1. Len(pages) = 0 /\ Len(pages') = 1
        BY <2>1, <2>8
      <3>2. ToSet(Page(1)) = Entries(listing, 1)
        BY <1>1, PageIsPart DEF ListingTyped, NoticesOf
      <3> QED BY <1>2, <2>2, <3>1, <3>2
    <2> QED BY <2>7, <2>8
  <1>6. UNCHANGED Entries(listing, 1)
    BY <1>1 DEF Entries
  <1>7. at' \in {"reading", "rereading", "publish"}
    BY <1>2
  <1>8. at' \in {"rereading", "publish"} => Cardinality(Seen') = total'
    BY <1>2, <1>5
  <1>9. at' = "publish" => total' = Len(listing') /\ ToSet(pages'[1]) = Entries(listing', 1)
    BY <1>1, <1>2, <1>5, <1>6
  <1> HIDE DEF ListsKnow, PagesKnow, ListingTyped, Seen, Entries
  <1>10. Entries(listing', 1) = Entries(listing, 1)'
    BY DEF Entries
  <1> QED BY <1>1, <1>3, <1>4, <1>7, <1>8, <1>9, <1>10 DEF EventPages, Publishing

\* The first page is still the same.
LEMMA EventsReread ==
    ASSUME EventThreads, EventPages, RereadFirst
    PROVE  EventPages'
  <1>1. /\ at = "rereading" /\ at' = "publish" /\ row # "success" /\ UNCHANGED <<row, facts>>
        /\ UNCHANGED eventVars
        /\ total = Len(listing) /\ ToSet(Page(1)) = ToSet(pages[1])
    BY DEF RereadFirst, Unmoved, EventThreads
  <1>2. ToSet(pages[1]) = Entries(listing, 1)
    BY <1>1, PageIsPart DEF EventPages, ListingTyped, NoticesOf
  <1>3. UNCHANGED <<listing, issued, pages, total, lists>>
    BY <1>1 DEF eventVars
  <1>4. Seen' = Seen
    BY <1>3 DEF Seen
  <1>5. ListsKnow' /\ ListingTyped'
    BY <1>1, <1>3 DEF EventPages, ListsKnow, ListingTyped, NoticesOf
  <1>6. PagesKnow'
    BY <1>1, <1>3, PagesOutliveChanges DEF EventPages
  <1>7. Entries(listing, 1)' = Entries(listing, 1)
    BY <1>3 DEF Entries
  <1> QED BY <1>1, <1>2, <1>3, <1>4, <1>5, <1>6, <1>7 DEF EventPages, Publishing

\* The run publishes the notices of the pages it has read.
LEMMA EventsPublished ==
    ASSUME EventThreads, EventPages, PublishEvents
    PROVE  EventPages'
  <1>1. /\ Publishing /\ facts = {} /\ ListsKnow /\ PagesKnow /\ ListingTyped /\ pages # <<>>
        /\ Cardinality(Seen) = total /\ total = Len(listing)
        /\ ToSet(pages[1]) = Entries(listing, 1)
    BY DEF PublishEvents, Publishing, EventThreads, EventPages, Alive
  <1>2. facts' = {f \in {Fact(i, 0, e) : i \in 1 .. Len(pages), e \in Seen} : f.n \in ToSet(pages[f.src])}
    BY <1>1 DEF PublishEvents
  <1>3. {f.n : f \in facts'} = Seen
    <2>1. \A f \in facts' : f.n \in Seen
      BY <1>2 DEF Fact
    <2>2. ASSUME NEW e \in Seen PROVE \E f \in facts' : f.n = e
      <3>1. PICK i \in 1 .. Len(pages) : e \in ToSet(pages[i])
        BY <1>1, UnionOfPages DEF Seen, PagesKnow
      <3>2. Fact(i, 0, e).n = e /\ Fact(i, 0, e).src = i
        BY DEF Fact
      <3>3. Fact(i, 0, e) \in {Fact(k, 0, x) : k \in 1 .. Len(pages), x \in Seen}
        OBVIOUS
      <3> QED BY <1>2, <3>1, <3>2, <3>3
    <2> QED BY <2>1, <2>2
  <1>4. WholeNotices(Seen)
    BY <1>1, PagesFitTogether
  <1>5. UNCHANGED <<listing, issued, pages, total, lists>> /\ row' = "success"
        /\ at' \in {"idle", "sealing"} /\ ~Alive'
    BY DEF PublishEvents, EventThreads, Alive
  <1>6. WholeNotices({f.n : f \in facts})'
    <2>1. {f.n : f \in facts}' = Seen
      BY <1>3
    <2>2. PICK S : S = Seen
      OBVIOUS
    <2>3. WholeNotices(S)
      BY <1>4, <2>2
    <2>4. Alike' = Alike
      BY <1>5 DEF Alike
    <2> HIDE DEF Alike, IsWhole
    <2> QED BY <1>5, <2>1, <2>2, <2>3, <2>4 DEF WholeNotices
  <1>7. ListingTyped'
    BY <1>1, <1>5 DEF ListingTyped, NoticesOf
  <1> QED BY <1>5, <1>6, <1>7 DEF EventPages, Publishing

\* The provider changes its list while the pages are read.
LEMMA EventsChange ==
    ASSUME EventThreads, EventPages, ListChanges
    PROVE  EventPages'
  <1>1. /\ at \in {"reading", "rereading"} /\ row # "success" /\ thread = "none"
        /\ UNCHANGED <<at, row, facts, thread>>
        /\ lists' = lists \cup {listing'} /\ UNCHANGED <<pages, total>>
    BY DEF ListChanges, runVars, EventThreads
  <1>2. ListsKnow' /\ ListingTyped'
    BY <1>1, ListChangesKept DEF EventPages
  <1>3. PagesKnow'
    BY <1>1, PagesOutliveChanges DEF EventPages
  <1>4. Seen' = Seen
    BY <1>1 DEF Seen
  <1> HIDE DEF ListsKnow, PagesKnow, ListingTyped, Seen
  <1> QED BY <1>1, <1>2, <1>3, <1>4 DEF EventPages, Publishing

\* Steps that leave the pages and the list alone, and begin nothing.
LEMMA EventsKept ==
    ASSUME EventPages, facts' = facts,
           UNCHANGED <<listing, issued, pages, total, lists>>,
           at' \in {"reading", "rereading"} => at' = at,
           Publishing' => Publishing,
           row' = "success" => row = "success"
    PROVE  EventPages'
  <1>1. ListingTyped' = ListingTyped /\ Seen' = Seen /\ Entries(listing, 1)' = Entries(listing, 1)
    BY DEF ListingTyped, NoticesOf, Seen, Entries
  <1>2. ListsKnow => ListsKnow'
    BY DEF ListsKnow, NoticesOf
  <1>3. PagesKnow => PagesKnow'
    BY PagesOutliveChanges
  <1>4. WholeNotices({f.n : f \in facts}) => WholeNotices({f.n : f \in facts})'
    <2>1. Alike' = Alike
      BY DEF Alike
    <2> HIDE DEF Alike, IsWhole
    <2> QED BY <2>1 DEF WholeNotices
  <1> HIDE DEF ListsKnow, PagesKnow, ListingTyped, Seen, WholeNotices, Entries, Publishing
  <1> QED BY <1>1, <1>2, <1>3, <1>4 DEF EventPages

\* The induction step.
LEMMA EventsStep ==
    ASSUME EventInv, [Next]_vars
    PROVE  EventInv'
  <1> SUFFICES ASSUME job \in EventJobs PROVE EventThreads' /\ EventPages'
    BY JobIsFixed DEF EventInv
  <1>1. EventStep /\ EventThreads /\ EventPages
    BY EventSteps DEF EventInv
  <1>2. EventThreads'
    BY <1>1, ThreadsStep
  <1> DEFINE Kept == /\ facts' = facts /\ UNCHANGED <<listing, issued, pages, total, lists>>
                     /\ at' \in {"reading", "rereading"} => at' = at
                     /\ Publishing' => Publishing
                     /\ row' = "success" => row = "success"
  <1>3. Kept => EventPages'
    BY <1>1, EventsKept
  <1>4. CASE BeginEvents
    <2>1. Kept
      BY <1>4 DEF BeginEvents, Publishing
    <2> QED BY <1>2, <1>3, <2>1
  <1>5. CASE ThreadFails
    <2>1. Kept
      BY <1>1, <1>5 DEF ThreadFails, Publishing, EventThreads
    <2> QED BY <1>2, <1>3, <2>1
  <1>6. CASE SealCancelled
    <2>1. Kept
      BY <1>6 DEF SealCancelled, Publishing, Alive
    <2> QED BY <1>2, <1>3, <2>1
  <1>7. CASE RaiseEvents
    <2>1. Kept
      BY <1>1, <1>7 DEF RaiseEvents, Fail, eventVars, Publishing, Alive, EventThreads
    <2> QED BY <1>2, <1>3, <2>1
  <1>8. CASE CancelEvents
    <2>1. Kept
      BY <1>1, <1>8 DEF CancelEvents, Publishing, Alive, EventThreads
    <2> QED BY <1>2, <1>3, <2>1
  <1>9. CASE (SkipOverlap \/ Reap \/ Crash \/ Recover) /\ UNCHANGED eventVars
    <2>1. Kept
      BY <1>9 DEF SkipOverlap, Reap, Crash, Recover, eventVars, Publishing, Alive
    <2> QED BY <1>2, <1>3, <2>1
  <1>10. CASE UNCHANGED <<runVars, eventVars>>
    <2>1. Kept
      BY <1>10 DEF runVars, eventVars, Publishing, Alive
    <2> QED BY <1>2, <1>3, <2>1
  <1> QED BY <1>1, <1>2, <1>4, <1>5, <1>6, <1>7, <1>8, <1>9, <1>10, EventsStart, EventsRead,
             EventsReread, EventsPublished, EventsChange
          DEF EventStep, EventWorker

\* The provider has issued the numbers of its first list.
LEMMA EventsInit == ASSUME Init PROVE EventInv
  <1>1. /\ at = "idle" /\ row = "none" /\ facts = {} /\ thread = "none" /\ cancelling = "no"
        /\ listing \in InitialNotices
        /\ issued = Max({0} \cup ToSet(listing))
    BY DEF Init, RunInit, EventInit
  <1>2. PICK l : l = listing
    OBVIOUS
  <1>3. l \in Seq(1 .. MaxNoticeId) /\ IsInjective(l) /\ MaxNoticeId \in Nat
    BY <1>1, <1>2, EventAssumption
  <1>4. ToSet(l) \subseteq 1 .. MaxNoticeId /\ ToSet(l) = {l[i] : i \in 1 .. Len(l)}
    <2>1. DOMAIN l = 1 .. Len(l) /\ \A i \in 1 .. Len(l) : l[i] \in 1 .. MaxNoticeId
      BY <1>3
    <2> QED BY <2>1 DEF ToSet
  <1>5. IsFiniteSet({0} \cup ToSet(l)) /\ ({0} \cup ToSet(l)) \in SUBSET Nat
    <2>1. IsFiniteSet(1 .. MaxNoticeId)
      BY <1>3, FS_Interval
    <2>2. IsFiniteSet(ToSet(l))
      BY <1>4, <2>1, FS_Subset
    <2>3. IsFiniteSet({0} \cup ToSet(l))
      <3>1. {0} \cup ToSet(l) = ToSet(l) \cup {0}
        OBVIOUS
      <3> QED BY <2>2, <3>1, FS_AddElement
    <2>4. \A x \in ToSet(l) : x \in Nat
      BY <1>3, <1>4
    <2>5. \A x \in {0} \cup ToSet(l) : x \in Nat
      BY <2>4
    <2> QED BY <2>3, <2>5
  <1>6. issued \in Nat /\ \A x \in ToSet(l) : x <= issued
    BY <1>1, <1>2, <1>5, MaxIsGreatest
  <1>7. \A i, j \in 1 .. Len(l) : l[i] = l[j] => i = j
    BY <1>3 DEF IsInjective
  <1>8. ListingTyped
    <2>1. l \in Seq(Nat)
      BY <1>3
    <2>2. \A i \in 1 .. Len(l) : l[i] <= issued
      BY <1>4, <1>6
    <2> QED BY <1>2, <1>6, <1>7, <2>1, <2>2 DEF ListingTyped, NoticesOf
  <1> QED BY <1>1, <1>8 DEF EventInv, EventThreads, EventPages, Publishing, Alive

\* Pages are read while the list changes: a successful run publishes each notice of the
\* final list once, in a version it had during the run, and nothing else; with at most
\* two pages, the list as it was at one moment (collect_alert_pages).
THEOREM NoticesAreWhole == Spec => []EveryNoticeOnce
  <1>1. Init => EventInv
    BY EventsInit
  <1>2. EventInv /\ [Next]_vars => EventInv'
    BY EventsStep
  <1>3. EventInv => EveryNoticeOnce
    BY InvIsEveryNoticeOnce
  <1> QED BY <1>1, <1>2, <1>3, PTL DEF Spec

\* Cancelling the job stops neither the thread that starts its run nor the one that
\* publishes it.  Once the cancellation was handled no row runs or starts after all, and
\* the row of stored events is a success, whichever of the two wrote it first
\* (run_alert_event_sync_async).
THEOREM CancellationsAreSealed == Spec => []CancelledIsSealed
  <1>1. Init => EventInv
    BY EventsInit
  <1>2. EventInv /\ [Next]_vars => EventInv'
    BY EventsStep
  <1>3. EventInv => CancelledIsSealed
    BY InvIsCancelledIsSealed
  <1> QED BY <1>1, <1>2, <1>3, PTL DEF Spec
=============================================================================
