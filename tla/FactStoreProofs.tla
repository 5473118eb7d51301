--------------------------- MODULE FactStoreProofs ---------------------------
(***************************************************************************)
(* Proofs about FactStore, for any number of collectors, responses, points *)
(* and days.                                                               *)
(***************************************************************************)
EXTENDS FactStore, WellFoundedInduction, TLAPS

-----------------------------------------------------------------------------
(***************************************************************************)
(* Least and greatest days.                                                *)
(***************************************************************************)

NatLess == {mn \in Nat \X Nat : mn[1] < mn[2]}

\* Min of a nonempty set of numbers is its least element.
LEMMA MinIsLeast ==
    ASSUME NEW T \in SUBSET Nat, T # {}
    PROVE  Min(T) \in T /\ \A m \in T : Min(T) <= m
<1>1. IsWellFoundedOn(NatLess, Nat)
  BY NatLessThanWellFounded DEF OpToRel, NatLess
<1>2. PICK n \in T : \A m \in T : <<m, n>> \notin NatLess
  BY <1>1, WFMin
<1>3. \A m, k \in Nat : m < k => <<m, k>> \in NatLess
  BY DEF NatLess
<1>4. \A m \in T : ~(m < n)
  BY <1>2, <1>3
<1>5. \A m \in T : n <= m
  BY <1>4
<1>. QED
  BY <1>5 DEF Min

\* Max of two numbers.
LEMMA MaxOfTwo ==
    ASSUME NEW a \in Int, NEW b \in Int
    PROVE  Max({a, b}) \in {a, b} /\ a <= Max({a, b}) /\ b <= Max({a, b})
<1>1. \E x \in {a, b} : \A y \in {a, b} : x >= y
  OBVIOUS
<1>. QED
  BY <1>1 DEF Max

LEMMA MaxNat ==
    ASSUME NEW a \in Nat, NEW b \in Int
    PROVE  Max({a, b}) \in Nat
<1>1. Max({a, b}) \in {a, b} /\ a <= Max({a, b})
  BY MaxOfTwo
<1>. QED
  BY <1>1

\* The days are numbers, and no fact is None.
LEMMA Days ==
    /\ Day \subseteq Nat \ {0} /\ None \notin Fact
    /\ MaxDay \in Nat /\ AheadDays \in Nat /\ RetentionDays \in Nat \ {0}
    /\ LockAttempts \in Nat \ {0} /\ DeferralLimit \in Nat \ {0} /\ OperatorUses \in Nat
    /\ 1 .. MaxDay \subseteq Day /\ 1 \in Day
<1>1. MaxDay \in Nat \ {0} /\ AheadDays \in Nat \ {0}
  BY FactAssumption
<1>. QED
  BY <1>1, FactAssumption DEF Day, Fact

-----------------------------------------------------------------------------
(***************************************************************************)
(* Types.                                                                  *)
(***************************************************************************)

\* The fields of a writer that has resolved its response.
LEMMA Resolved ==
    ASSUME TypeOK, NEW w \in Writers, writer[w].pc = "resolved"
    PROVE  /\ writer[w].r \in Responses /\ writer[w].fetched \in Day
           /\ writer[w].at \in Day /\ writer[w].fresh \in BOOLEAN
           /\ writer[w].floor \in Day \cup {0} /\ writer[w].days \subseteq Day
           /\ writer[w].tries \in 0 .. LockAttempts - 1
  BY DEF TypeOK, WriterState

\* An ingest stores its fact under a day, or raises, or stores none.
LEMMA KnownDay ==
    ASSUME TypeOK, NEW w \in Writers, writer[w].pc = "resolved"
    PROVE  KnownAt(writer[w]) \in Day \cup {0, None}
<1>. DEFINE s == writer[w]
<1>1. /\ s.r \in Responses /\ s.fetched \in Day /\ s.at \in Day
      /\ s.floor \in Day \cup {0} /\ s.days \subseteq Day
  BY Resolved
<1>2. Stored(s.r) \subseteq Day /\ today \in Day
  BY Days DEF Stored, TypeOK
<1>. HIDE DEF s
<1>3. Readmitted(s) \in Day \cup {0, None}
  <2>1. Stored(s.r) # {} => Min(Stored(s.r)) \in Stored(s.r)
    BY <1>2, Days, MinIsLeast
  <2>. QED
    BY <1>1, <1>2, <2>1 DEF Readmitted
<1>4. Redated(s) \in Day \cup {0, None}
  <2>. DEFINE later == {d \in Stored(s.r) : d >= Horizon(s.floor, s.days)}
  <2>0. later \subseteq Nat /\ later \subseteq Day
    BY <1>2, Days
  <2>1. later # {} => Min(later) \in Day
    <3>. HIDE DEF later
    <3>. QED
      BY <2>0, MinIsLeast
  <2>. QED
    BY <1>1, <2>1 DEF Redated
<1>. QED
  BY <1>1, <1>3, <1>4 DEF KnownAt, Clock, s

-----------------------------------------------------------------------------
(***************************************************************************)
(* Who changes what.                                                       *)
(***************************************************************************)

IngestStep(w) ==
    \/ \E r \in Responses : Fetch(w, r)
    \/ Resolve(w)
    \/ Publish(w)
    \/ PublishAlertEvents(w)
    \/ LoseLockRace(w)
RetentionStep == StartJob \/ JobStep \/ CrashJob
OperatorStep ==
    \/ \E d \in Day : EstablishFloor(d)
    \/ ValidateAndCreate
    \/ PurgeDefault
    \/ SwapDefault
    \/ DropOldDefault
    \/ OperatorValidates
    \/ DeleteExpiredRows
    \/ CommandStops

\* The steps by actor.
LEMMA StepsByActor ==
    ASSUME [Next]_vars
    PROVE  \/ Tick
           \/ \E w \in Writers : IngestStep(w)
           \/ RetentionStep
           \/ \E B \in SUBSET facts : PurgeShort(B)
           \/ OperatorStep
           \/ UNCHANGED vars
  BY DEF Next, IngestStep, RetentionStep, OperatorStep

\* A collector touches no catalog, no pointer deletion, and neither the job nor the operator.
LEMMA IngestFrame ==
    ASSUME NEW w \in Writers, IngestStep(w)
    PROVE  /\ UNCHANGED <<today, attached, floor, detached, limbo, fkValid, marks, record, job>>
           /\ UNCHANGED <<op, opUses, opCutoff, purgedBefore, missedLast, dropped, recreated>>
<1>. USE DEF tables, catalog, operator, history, Raise
<1>1. ASSUME NEW r \in Responses, Fetch(w, r)
      PROVE  /\ UNCHANGED <<today, attached, floor, detached, limbo, fkValid, marks, record, job>>
             /\ UNCHANGED <<op, opUses, opCutoff, purgedBefore, missedLast, dropped, recreated>>
  BY <1>1 DEF Fetch
<1>2. CASE Resolve(w)
  BY <1>2 DEF Resolve
<1>3. CASE Publish(w)
  BY <1>3 DEF Publish
<1>4. CASE PublishAlertEvents(w)
  BY <1>4 DEF PublishAlertEvents
<1>5. CASE LoseLockRace(w)
  BY <1>5 DEF LoseLockRace
<1>. QED
  BY <1>1, <1>2, <1>3, <1>4, <1>5 DEF IngestStep

\* The retention job touches no ingest and no operator.
LEMMA RetentionFrame ==
    ASSUME RetentionStep
    PROVE  UNCHANGED <<today, cited, writer, op, opUses, opCutoff, recreated, refused>>
<1>. USE DEF tables, catalog, operator, history
<1>1. CASE StartJob
  BY <1>1 DEF StartJob
<1>2. CASE ForwardFloor
  BY <1>2 DEF ForwardFloor
<1>3. CASE CreateForwardDay
  BY <1>3 DEF CreateForwardDay
<1>4. CASE DeleteExpiredPointers
  BY <1>4 DEF DeleteExpiredPointers
<1>5. CASE DropLeftover
  BY <1>5 DEF DropLeftover
<1>6. CASE DetachExpired
  BY <1>6 DEF DetachExpired
<1>7. CASE DropDetached
  BY <1>7 DEF DropDetached
<1>8. CASE ValidateKeys
  BY <1>8 DEF ValidateKeys
<1>9. CASE PurgeSources
  BY <1>9 DEF PurgeSources
<1>10. CASE CrashJob
  BY <1>10 DEF CrashJob
<1>. QED
  BY <1>1, <1>2, <1>3, <1>4, <1>5, <1>6, <1>7, <1>8, <1>9, <1>10 DEF RetentionStep, JobStep

\* The operator touches no ingest and not the job.
LEMMA OperatorFrame ==
    ASSUME OperatorStep
    PROVE  /\ UNCHANGED <<today, source, cited, events, detached, marks, record, writer, job>>
           /\ UNCHANGED <<missedLast, dropped, refused>>
<1>. USE DEF tables, catalog, operator, history
<1>1. ASSUME NEW d \in Day, EstablishFloor(d)
      PROVE  /\ UNCHANGED <<today, source, cited, events, detached, marks, record, writer, job>>
             /\ UNCHANGED <<missedLast, dropped, refused>>
  BY <1>1 DEF EstablishFloor
<1>2. CASE ValidateAndCreate
  BY <1>2 DEF ValidateAndCreate
<1>3. CASE PurgeDefault
  BY <1>3 DEF PurgeDefault
<1>4. CASE SwapDefault
  BY <1>4 DEF SwapDefault
<1>5. CASE DropOldDefault
  BY <1>5 DEF DropOldDefault
<1>6. CASE OperatorValidates
  BY <1>6 DEF OperatorValidates
<1>7. CASE DeleteExpiredRows
  BY <1>7 DEF DeleteExpiredRows
<1>8. CASE CommandStops
  BY <1>8 DEF CommandStops
<1>. QED
  BY <1>1, <1>2, <1>3, <1>4, <1>5, <1>6, <1>7, <1>8 DEF OperatorStep

-----------------------------------------------------------------------------
(***************************************************************************)
(* Types are preserved.                                                    *)
(***************************************************************************)

\* The fact an ingest publishes.
NewFact(w) == [r |-> writer[w].r, at |-> KnownAt(writer[w])]

\* What a publication that stores a fact does.
Stores(w) ==
    /\ NewFact(w) \in Fact
    /\ NewFact(w) \in facts \/ Lands(NewFact(w).at)
    /\ facts' = facts \cup {NewFact(w)}
    /\ current' = Projected(NewFact(w))

\* An ingest leaves the tables alone, or it stores its source, which is then
\* there, and at most one row.
LEMMA PublishEffect ==
    ASSUME TypeOK, NEW w \in Writers, Publish(w)
    PROVE  /\ events' = events /\ writer[w].pc = "resolved" /\ writer' = [writer EXCEPT ![w] = IdleWriter]
           /\ \/ UNCHANGED <<source, cited, facts, current>>
              \/ /\ SourceStored(writer[w]) /\ ~SourceGone(writer[w])
                 /\ Stores(w) \/ UNCHANGED <<facts, current>>
<1>1. /\ events' = events /\ writer[w].pc = "resolved" /\ writer' = [writer EXCEPT ![w] = IdleWriter]
  BY DEF Publish, Raise, WriterDone, tables
<1>2. CASE SourceGone(writer[w])
  BY <1>1, <1>2 DEF Publish, Raise, tables
<1>3. CASE ~SourceGone(writer[w]) /\ Unroutable(NewFact(w))
  BY <1>1, <1>3 DEF Publish, Raise, tables, NewFact
<1>4. CASE ~SourceGone(writer[w]) /\ ~Unroutable(NewFact(w)) /\ KnownAt(writer[w]) = None
  BY <1>1, <1>4 DEF Publish, NewFact
<1>5. CASE ~SourceGone(writer[w]) /\ ~Unroutable(NewFact(w)) /\ KnownAt(writer[w]) # None
  <2>1. /\ SourceStored(writer[w])
        /\ facts' = facts \cup {NewFact(w)}
        /\ current' = Projected(NewFact(w))
    BY <1>5 DEF Publish, NewFact
  <2>2. writer[w].r \in Responses /\ KnownAt(writer[w]) \in Day \cup {0}
    BY <1>1, <1>5, Resolved, KnownDay
  <2>3. NewFact(w).at = KnownAt(writer[w])
    BY DEF NewFact
  <2>4. NewFact(w) \in facts \/ (NewFact(w).at # 0 /\ Lands(NewFact(w).at))
    BY <1>5, <2>3 DEF Unroutable
  <2>5. NewFact(w) \in Fact
    <3>1. NewFact(w) \in facts => NewFact(w) \in Fact
      BY DEF TypeOK, TablesTyped
    <3>2. NewFact(w).at # 0 => NewFact(w) \in Fact
      BY <2>2, <2>3 DEF Fact, NewFact
    <3>. QED
      BY <2>4, <3>1, <3>2
  <2>. QED
    BY <1>1, <1>5, <2>1, <2>4, <2>5 DEF Stores
<1>. QED
  BY <1>2, <1>3, <1>4, <1>5

\* An alert collector stores its source, which is then there, and at most one event.
LEMMA AlertEffect ==
    ASSUME TypeOK, NEW w \in Writers, PublishAlertEvents(w)
    PROVE  /\ UNCHANGED <<facts, current>> /\ writer[w].pc = "resolved"
           /\ writer' = [writer EXCEPT ![w] = IdleWriter]
           /\ \/ UNCHANGED <<source, cited, events>>
              \/ /\ SourceStored(writer[w]) /\ ~SourceGone(writer[w])
                 /\ events' \subseteq events \cup {[r |-> writer[w].r, at |-> today]}
<1>1. CASE SourceGone(writer[w])
  BY <1>1 DEF PublishAlertEvents, Raise, tables, WriterDone
<1>2. CASE ~SourceGone(writer[w])
  BY <1>2 DEF PublishAlertEvents, WriterDone
<1>. QED
  BY <1>1, <1>2

\* A stored source has a date.
LEMMA SourceStoredEffect ==
    ASSUME TypeOK, NEW w \in Writers, writer[w].pc = "resolved",
           SourceStored(writer[w]), ~SourceGone(writer[w])
    PROVE  /\ source' \in [Responses -> Day \cup {0}] /\ cited' \subseteq Responses
           /\ source'[writer[w].r] # 0
           /\ \A r \in Responses : source[r] # 0 => source'[r] # 0
<1>1. /\ writer[w].r \in Responses /\ writer[w].fetched \in Day /\ writer[w].fresh \in BOOLEAN
  BY Resolved
<1>2. source \in [Responses -> Day \cup {0}] /\ cited \subseteq Responses
  BY DEF TypeOK, TablesTyped
<1>3. writer[w].fetched # 0
  BY <1>1, Days
<1>. QED
  BY <1>1, <1>2, <1>3 DEF SourceStored, SourceGone

\* The projection stays a function to facts, and only the fact's own point moves.
LEMMA ProjectedEffect ==
    ASSUME TypeOK, NEW f \in Fact
    PROVE  /\ PointOf[f.r] \in Points
           /\ Projected(f) \in [Points -> Fact \cup {None}]
           /\ \A p \in Points : p # PointOf[f.r] => Projected(f)[p] = current[p]
           /\ Projected(f)[PointOf[f.r]] =
                IF current[PointOf[f.r]] = None \/ Newer(f, current[PointOf[f.r]])
                THEN f ELSE current[PointOf[f.r]]
<1>1. PointOf[f.r] \in Points
  BY FactAssumption DEF Fact
<1>2. current \in [Points -> Fact \cup {None}]
  BY DEF TypeOK, TablesTyped
<1>. QED
  BY <1>1, <1>2 DEF Projected

\* The ingest keeps the tables typed.
LEMMA IngestTablesTyped ==
    ASSUME TypeOK, NEW w \in Writers, IngestStep(w)
    PROVE  TablesTyped'
<1>0. TablesTyped
  BY DEF TypeOK
<1>1. limbo' = limbo
  BY IngestFrame
<1>2. CASE Publish(w)
  <2>1. /\ events' = events /\ writer[w].pc = "resolved"
        /\ \/ UNCHANGED <<source, cited, facts, current>>
           \/ /\ SourceStored(writer[w]) /\ ~SourceGone(writer[w])
              /\ Stores(w) \/ UNCHANGED <<facts, current>>
    BY <1>2, PublishEffect
  <2>2. UNCHANGED <<source, cited>> \/ (source' \in [Responses -> Day \cup {0}] /\ cited' \subseteq Responses)
    BY <2>1, SourceStoredEffect
  <2>3. UNCHANGED <<facts, current>> \/ (facts' \subseteq facts \cup Fact /\ current' \in [Points -> Fact \cup {None}])
    BY <2>1, ProjectedEffect DEF Stores
  <2>. QED
    BY <1>0, <1>1, <2>1, <2>2, <2>3 DEF TablesTyped
<1>3. CASE PublishAlertEvents(w)
  <2>1. /\ UNCHANGED <<facts, current>> /\ writer[w].pc = "resolved"
        /\ \/ UNCHANGED <<source, cited, events>>
           \/ /\ SourceStored(writer[w]) /\ ~SourceGone(writer[w])
              /\ events' \subseteq events \cup {[r |-> writer[w].r, at |-> today]}
    BY <1>3, AlertEffect
  <2>2. UNCHANGED <<source, cited>> \/ (source' \in [Responses -> Day \cup {0}] /\ cited' \subseteq Responses)
    BY <2>1, SourceStoredEffect
  <2>3. [r |-> writer[w].r, at |-> today] \in Fact
    BY <2>1, Resolved, Days DEF Fact, TypeOK
  <2>. QED
    BY <1>0, <1>1, <2>1, <2>2, <2>3 DEF TablesTyped
<1>4. CASE UNCHANGED tables
  BY <1>0, <1>1, <1>4 DEF tables, TablesTyped
<1>. QED
  BY <1>2, <1>3, <1>4 DEF IngestStep, Fetch, Resolve, LoseLockRace

\* The ingest keeps the writers typed.
LEMMA IngestWritersTyped ==
    ASSUME TypeOK, NEW w \in Writers, IngestStep(w)
    PROVE  writer' \in [Writers -> WriterState]
<1>0. writer \in [Writers -> WriterState] /\ IdleWriter \in WriterState
  BY DEF TypeOK, IdleWriter, WriterState
<1>1. ASSUME NEW r \in Responses, Fetch(w, r)
      PROVE  writer' \in [Writers -> WriterState]
  <2>1. today \in Day /\ 0 \in 0 .. LockAttempts - 1
    BY Days DEF TypeOK
  <2>2. ReadyWriter(r, today, 0) \in WriterState
    BY <2>1 DEF ReadyWriter, WriterState
  <2>. QED
    BY <1>0, <1>1, <2>2 DEF Fetch
<1>2. CASE Resolve(w)
  <2>. DEFINE s == writer[w]
              t == [s EXCEPT !.pc = "resolved", !.at = SourceClock(s.r, s.fetched),
                             !.fresh = source[s.r] = 0, !.floor = ValidFloor,
                             !.days = IF ValidFloor = 0 THEN {} ELSE attached]
  <2>1. /\ s \in WriterState /\ s.pc = "ready" /\ s.r \in Responses /\ s.fetched \in Day
        /\ s.tries \in 0 .. LockAttempts - 1
    BY <1>0, <1>2 DEF Resolve, WriterState
  <2>2. SourceClock(s.r, s.fetched) \in Day /\ (source[s.r] = 0) \in BOOLEAN
    BY <2>1 DEF SourceClock, TypeOK, TablesTyped
  <2>3. ValidFloor \in Day \cup {0} /\ attached \subseteq Day
    BY DEF ValidFloor, TypeOK, CatalogTyped
  <2>4. t \in WriterState
    BY <2>1, <2>2, <2>3 DEF WriterState
  <2>5. writer' = [writer EXCEPT ![w] = t]
    BY <1>2 DEF Resolve
  <2>. QED
    BY <1>0, <2>4, <2>5
<1>3. CASE Publish(w) \/ PublishAlertEvents(w)
  BY <1>0, <1>3, PublishEffect, AlertEffect
<1>4. CASE LoseLockRace(w)
  <2>. DEFINE s == writer[w]
  <2>1. s.r \in Responses /\ s.fetched \in Day /\ s.tries \in 0 .. LockAttempts - 1
    BY <1>4, Resolved DEF LoseLockRace
  <2>2. s.tries + 1 < LockAttempts => s.tries + 1 \in 0 .. LockAttempts - 1
    BY <2>1, Days
  <2>3. s.tries + 1 < LockAttempts => ReadyWriter(s.r, s.fetched, s.tries + 1) \in WriterState
    BY <2>1, <2>2 DEF ReadyWriter, WriterState
  <2>. QED
    BY <1>0, <1>4, <2>3 DEF LoseLockRace
<1>. QED
  BY <1>1, <1>2, <1>3, <1>4 DEF IngestStep

\* Shorthands for the job.
LEMMA JobFacts ==
    ASSUME TypeOK
    PROVE  /\ job.pc = "idle" => job = IdleJob
           /\ job.pc # "idle" => job \in RunningJob
           /\ \A n \in 0 .. DeferralLimit : Capped(n) \in 0 .. DeferralLimit
           /\ 1 \in 0 .. DeferralLimit /\ 0 \in 0 .. DeferralLimit
<1>1. \A n \in 0 .. DeferralLimit : Capped(n) \in 0 .. DeferralLimit
  BY Days DEF Capped
<1>2. 1 \in 0 .. DeferralLimit /\ 0 \in 0 .. DeferralLimit
  BY Days
<1>. QED
  BY <1>1, <1>2 DEF TypeOK, RunningJob, IdleJob

\* The first of a set of days belongs to it.
LEMMA FirstDay ==
    ASSUME NEW T \in SUBSET Day, T # {}
    PROVE  Min(T) \in T /\ Min(T) \in Day
  BY MinIsLeast, Days

\* The forward window holds days.
LEMMA WindowDays ==
    ASSUME TypeOK, job.pc # "idle", NEW f \in Day \cup {0}
    PROVE  ForwardWindow(f) \subseteq Day
<1>1. job.start \in 1 .. MaxDay
  BY JobFacts DEF RunningJob
<1>2. job.start .. job.start + AheadDays \subseteq Day
  BY <1>1, Days DEF Day
<1>. QED
  BY <1>2 DEF ForwardWindow, MissingDays

\* Missing a day and dropping a table keep the job typed.
LEMMA MissedTyped ==
    ASSUME NEW d \in Day, NEW next \in RunningJob, NEW written \in BOOLEAN, Missed(d, written, next)
    PROVE  job' \in RunningJob
  BY DEF Missed, RunningJob

LEMMA DropTableTyped ==
    ASSUME TypeOK, NEW d \in Day, NEW next \in RunningJob, DropTable(d, next)
    PROVE  job' \in RunningJob
<1>1. /\ [next EXCEPT !.held = TRUE] \in RunningJob /\ [next EXCEPT !.retention = 0] \in RunningJob
      /\ [next EXCEPT !.held = TRUE, !.retention = Capped(@)] \in RunningJob
  BY JobFacts DEF RunningJob
<1>. QED
  BY <1>1, MissedTyped DEF DropTable

\* The retention job keeps its own state typed.
LEMMA JobTyped ==
    ASSUME TypeOK, RetentionStep
    PROVE  job' \in RunningJob \cup {IdleJob}
<1>1. CASE StartJob
  <2>0. today \in 1 .. MaxDay /\ 0 \in 0 .. 2 /\ 0 \in 0 .. DeferralLimit
    BY JobFacts DEF TypeOK
  <2>1. [IdleJob EXCEPT !.pc = "floor", !.start = today] \in RunningJob
    BY <2>0 DEF RunningJob, IdleJob
  <2>. QED
    BY <1>1, <2>1 DEF StartJob
<1>2. CASE ForwardFloor
  <2>1. /\ job \in RunningJob /\ floor.day \in Day \cup {0} /\ job.start \in Day
    BY <1>2, JobFacts, Days DEF ForwardFloor, TypeOK, CatalogTyped, RunningJob
  <2>2. ForwardWindow(floor.day) \subseteq Day /\ ForwardWindow(job.start) \subseteq Day
    BY <1>2, <2>1, WindowDays DEF ForwardFloor
  <2>3. \/ job' = [job EXCEPT !.pc = "create", !.todo = ForwardWindow(floor.day)]
        \/ job' = [job EXCEPT !.pc = "create", !.todo = ForwardWindow(job.start)]
        \/ job' = [job EXCEPT !.pc = "create"]
        \/ job' = [job EXCEPT !.pc = "create", !.forward = 1]
    BY <1>2 DEF ForwardFloor
  <2>4. \A T \in SUBSET Day : [job EXCEPT !.pc = "create", !.todo = T] \in RunningJob
    BY <2>1 DEF RunningJob
  <2>5. /\ [job EXCEPT !.pc = "create"] \in RunningJob
        /\ [job EXCEPT !.pc = "create", !.forward = 1] \in RunningJob
    BY <2>1, JobFacts DEF RunningJob
  <2>. QED
    BY <2>2, <2>3, <2>4, <2>5
<1>3. CASE CreateForwardDay
  <2>. DEFINE d == Min(job.todo)
  <2>1. job \in RunningJob
    BY <1>3, JobFacts DEF CreateForwardDay
  <2>. HIDE DEF d
  <2>2. \/ job' = [job EXCEPT !.todo = @ \ {d}, !.forward = 0]
        \/ job' = [job EXCEPT !.todo = @ \ {d}, !.forward = Capped(@)]
    BY <1>3 DEF CreateForwardDay, d
  <2>3. /\ [job EXCEPT !.todo = @ \ {d}, !.forward = 0] \in RunningJob
        /\ [job EXCEPT !.todo = @ \ {d}, !.forward = Capped(@)] \in RunningJob
    BY <2>1, JobFacts DEF RunningJob
  <2>. QED
    BY <2>2, <2>3
<1>4. CASE DeleteExpiredPointers
  <2>1. job \in RunningJob
    BY <1>4, JobFacts DEF DeleteExpiredPointers
  <2>2. ExpiredDays(detached) \subseteq Day /\ ExpiredDays(attached) \subseteq Day
    BY DEF ExpiredDays, TypeOK, CatalogTyped
  <2>. QED
    BY <1>4, <2>1, <2>2 DEF DeleteExpiredPointers, RunningJob
<1>5. CASE DropLeftover
  <2>. DEFINE d == Min(job.todo)
  <2>1. job \in RunningJob /\ job.todo # {}
    BY <1>5, JobFacts DEF DropLeftover
  <2>2. d \in Day
    BY <2>1, FirstDay DEF RunningJob
  <2>3. [job EXCEPT !.todo = @ \ {d}] \in RunningJob
    BY <2>1 DEF RunningJob
  <2>4. DropTable(d, [job EXCEPT !.todo = @ \ {d}])
    BY <1>5 DEF DropLeftover
  <2>. QED
    BY <2>2, <2>3, <2>4, DropTableTyped
<1>6. CASE DetachExpired
  <2>. DEFINE d == Min(job.expired)
              rest == [job EXCEPT !.expired = @ \ {d}]
  <2>0. job \in RunningJob /\ job.expired # {}
    BY <1>6, JobFacts DEF DetachExpired
  <2>1. d \in Day
    BY <2>0, FirstDay DEF RunningJob
  <2>2. rest \in RunningJob
    BY <2>0 DEF RunningJob
  <2>3. \/ job' = rest
        \/ job' = [rest EXCEPT !.pc = "drop", !.todo = {d}, !.retention = 0]
        \/ \E written \in BOOLEAN : Missed(d, written, [rest EXCEPT !.retention = Capped(@)])
    BY <1>6 DEF DetachExpired
  <2>. HIDE DEF rest, d
  <2>4. /\ [rest EXCEPT !.pc = "drop", !.todo = {d}, !.retention = 0] \in RunningJob
        /\ [rest EXCEPT !.retention = Capped(@)] \in RunningJob
    BY JobFacts, <2>1, <2>2 DEF RunningJob
  <2>. QED
    BY MissedTyped, <2>1, <2>2, <2>3, <2>4
<1>7. CASE DropDetached
  <2>0. job \in RunningJob
    BY <1>7, JobFacts DEF DropDetached
  <2>1. [job EXCEPT !.pc = "expired", !.todo = {}] \in RunningJob /\ job.todo \subseteq Day
    BY <2>0 DEF RunningJob
  <2>. QED
    BY DropTableTyped, <1>7, <2>1 DEF DropDetached
<1>8. CASE ValidateKeys
  <2>0. job \in RunningJob
    BY <1>8, JobFacts DEF ValidateKeys
  <2>1. \/ job.tries < 2 /\ job' = [job EXCEPT !.tries = @ + 1, !.pc = "sources"]
        \/ job.tries < 2 /\ job' = [job EXCEPT !.tries = @ + 1, !.pc = @]
        \/ job' = [job EXCEPT !.pc = "sources"]
    BY <1>8 DEF ValidateKeys
  <2>3. job.tries < 2 => job.tries + 1 \in 0 .. 2
    BY <2>0 DEF RunningJob
  <2>4. job.pc \in {"floor", "create", "expired", "drop", "sources"}
    BY <2>0 DEF RunningJob
  <2>5. \A n \in 0 .. 2, pc \in {"floor", "create", "expired", "drop", "sources"} :
            [job EXCEPT !.tries = n, !.pc = pc] \in RunningJob
    BY <2>0 DEF RunningJob
  <2>6. [job EXCEPT !.pc = "sources"] \in RunningJob
    BY <2>0 DEF RunningJob
  <2>7. /\ job.tries < 2 => [job EXCEPT !.tries = @ + 1, !.pc = "sources"] \in RunningJob
        /\ job.tries < 2 => [job EXCEPT !.tries = @ + 1, !.pc = @] \in RunningJob
        /\ [job EXCEPT !.pc = "sources"] \in RunningJob
    BY <2>3, <2>4, <2>5, <2>6
  <2>. QED
    BY <2>1, <2>7
<1>9. CASE PurgeSources \/ CrashJob
  BY <1>9 DEF PurgeSources, CrashJob
<1>. QED
  BY <1>1, <1>2, <1>3, <1>4, <1>5, <1>6, <1>7, <1>8, <1>9 DEF RetentionStep, JobStep

\* The operator's step stays typed, and so do the operator's cutoff and uses.
LEMMA OperatorStepTyped ==
    ASSUME TypeOK, OperatorStep
    PROVE  OperatorTyped'
<1>0. OperatorTyped /\ OperatorUses \in Nat /\ today \in Int /\ RetentionDays \in Int
  BY Days DEF TypeOK
<1>. USE DEF OperatorTyped
<1>1. ASSUME NEW d \in Day, EstablishFloor(d)
      PROVE  OperatorTyped'
  BY <1>0, <1>1 DEF EstablishFloor, BeginCommand
<1>2. CASE ValidateAndCreate
  BY <1>0, <1>2 DEF ValidateAndCreate
<1>3. CASE PurgeDefault
  BY <1>0, <1>3 DEF PurgeDefault, BeginCommand
<1>4. CASE SwapDefault
  BY <1>0, <1>4 DEF SwapDefault
<1>5. CASE DropOldDefault
  BY <1>0, <1>5 DEF DropOldDefault
<1>6. CASE OperatorValidates
  BY <1>0, <1>6 DEF OperatorValidates
<1>7. CASE DeleteExpiredRows
  BY <1>0, <1>7 DEF DeleteExpiredRows
<1>8. CASE CommandStops
  BY <1>0, <1>8 DEF CommandStops
<1>. QED
  BY <1>1, <1>2, <1>3, <1>4, <1>5, <1>6, <1>7, <1>8 DEF OperatorStep

\* Only rows, pointers and uncited sources go; rows of the fact table may move
\* to a detached table.
Cleans ==
    /\ facts' \subseteq facts /\ limbo' \subseteq facts \cup limbo /\ events' \subseteq events
    /\ current' = current \/ \E P \in SUBSET Points : current' = PointersDeleted(P)
    /\ source' = source \/ source' = [r \in Responses |-> IF Uncited(r) THEN source'[r] ELSE source[r]]
    /\ source' \in [Responses -> Day \cup {0}]

\* The retention job only cleans the tables.
LEMMA RetentionCleans ==
    ASSUME TypeOK, RetentionStep
    PROVE  Cleans
<1>0. source \in [Responses -> Day \cup {0}]
  BY DEF TypeOK, TablesTyped
<1>. USE DEF Cleans
<1>1. CASE StartJob \/ ForwardFloor \/ CreateForwardDay \/ CrashJob
  BY <1>0, <1>1 DEF StartJob, ForwardFloor, CreateForwardDay, CrashJob, tables, catalog
<1>2. CASE DeleteExpiredPointers
  <2>1. ExpiredPointers(Cutoff) \subseteq Points
    BY DEF ExpiredPointers
  <2>. QED
    BY <1>0, <1>2, <2>1 DEF DeleteExpiredPointers, catalog
<1>3. ASSUME NEW d, NEW next, DropTable(d, next) PROVE limbo' \subseteq limbo
  BY <1>3 DEF DropTable
<1>4. CASE DropLeftover \/ DropDetached
  BY <1>0, <1>3, <1>4 DEF DropLeftover, DropDetached, tables
<1>5. CASE DetachExpired
  <2>1. facts' \subseteq facts /\ limbo' \subseteq facts \cup limbo
    BY <1>5 DEF DetachExpired, detach_partition, RowsOf
  <2>. QED
    BY <1>0, <1>5, <2>1 DEF DetachExpired
<1>6. CASE ValidateKeys
  <2>1. Dangling \subseteq Points
    BY DEF Dangling
  <2>. QED
    BY <1>0, <1>6, <2>1 DEF ValidateKeys, Validated
<1>7. CASE PurgeSources
  <2>1. UNCHANGED <<facts, current, limbo>>
    BY <1>7 DEF PurgeSources, catalog
  <2>2. UNCHANGED <<events, source>> \/
        /\ events' \subseteq events
        /\ \E G \in SUBSET Responses : /\ \A r \in G : Uncited(r)
                                       /\ source' = [r \in Responses |-> IF r \in G THEN 0 ELSE source[r]]
    BY <1>7 DEF PurgeSources
  <2>. QED
    BY <1>0, <2>1, <2>2
<1>. QED
  BY <1>1, <1>2, <1>4, <1>5, <1>6, <1>7 DEF RetentionStep, JobStep

\* So does the operator.
LEMMA OperatorCleans ==
    ASSUME TypeOK, OperatorStep
    PROVE  Cleans
<1>0. /\ source \in [Responses -> Day \cup {0}]
      /\ source' = source /\ events' = events
  BY OperatorFrame DEF TypeOK, TablesTyped
<1>. USE DEF Cleans
<1>1. ASSUME NEW d \in Day, EstablishFloor(d) PROVE Cleans
  BY <1>0, <1>1 DEF EstablishFloor, tables
<1>2. CASE ValidateAndCreate \/ CommandStops
  BY <1>0, <1>2 DEF ValidateAndCreate, CommandStops, tables, catalog
<1>3. CASE PurgeDefault
  <2>1. \A c : ExpiredPointers(c) \subseteq Points
    BY DEF ExpiredPointers
  <2>. QED
    BY <1>0, <1>3, <2>1 DEF PurgeDefault, catalog
<1>4. CASE SwapDefault
  BY <1>0, <1>4 DEF SwapDefault, DefaultRows
<1>5. CASE DropOldDefault
  BY <1>0, <1>5 DEF DropOldDefault, tables
<1>6. CASE OperatorValidates
  <2>1. Dangling \subseteq Points
    BY DEF Dangling
  <2>. QED
    BY <1>0, <1>6, <2>1 DEF OperatorValidates, Validated
<1>7. CASE DeleteExpiredRows
  <2>1. \A c : ExpiredPointers(c) \subseteq Points
    BY DEF ExpiredPointers
  <2>. QED
    BY <1>0, <1>7, <2>1 DEF DeleteExpiredRows, catalog
<1>. QED
  BY <1>1, <1>2, <1>3, <1>4, <1>5, <1>6, <1>7 DEF OperatorStep

\* And the short-forecast cleanup.
LEMMA PurgeShortCleans ==
    ASSUME TypeOK, NEW B \in SUBSET facts, PurgeShort(B)
    PROVE  Cleans
<1>1. {p \in Points : current[p] \in B} \subseteq Points
  OBVIOUS
<1>. QED
  BY <1>1 DEF PurgeShort, Cleans, catalog, TypeOK, TablesTyped

\* Cleaning keeps the tables typed and every pointer it keeps.
LEMMA CleanTables ==
    ASSUME TypeOK, Cleans, cited' = cited
    PROVE  /\ TablesTyped'
           /\ \A p \in Points : current'[p] = current[p] \/ current'[p] = None
<1>1. TablesTyped
  BY DEF TypeOK
<1>2. /\ current' \in [Points -> Fact \cup {None}]
      /\ \A p \in Points : current'[p] = current[p] \/ current'[p] = None
  <2>1. current \in [Points -> Fact \cup {None}]
    BY <1>1 DEF TablesTyped
  <2>2. \A P \in SUBSET Points : /\ PointersDeleted(P) \in [Points -> Fact \cup {None}]
                                 /\ \A p \in Points : PointersDeleted(P)[p] \in {current[p], None}
    BY <2>1 DEF PointersDeleted
  <2>. QED
    BY <2>1, <2>2 DEF Cleans
<1>. QED
  BY <1>1, <1>2 DEF Cleans, TablesTyped

\* A drop keeps the catalog typed.
LEMMA DropTableCatalog ==
    ASSUME TypeOK, NEW d \in Day, NEW next, DropTable(d, next)
    PROVE  detached' \subseteq detached /\ marks' \subseteq marks \cup {d}
  BY DEF DropTable, Missed, write_deferral_mark

\* The retention job keeps the catalog typed.
LEMMA RetentionCatalog ==
    ASSUME TypeOK, RetentionStep
    PROVE  CatalogTyped'
<1>0. CatalogTyped
  BY DEF TypeOK
<1>. USE DEF CatalogTyped
<1>1. CASE StartJob \/ DeleteExpiredPointers \/ CrashJob
  BY <1>0, <1>1 DEF StartJob, DeleteExpiredPointers, CrashJob, catalog
<1>2. CASE ForwardFloor
  <2>1. NoFloor \in [day : Day \cup {0}, valid : BOOLEAN]
    BY DEF NoFloor
  <2>2. [day |-> job.start, valid |-> TRUE] \in [day : Day \cup {0}, valid : BOOLEAN]
    BY <1>2, JobFacts, Days DEF ForwardFloor, RunningJob
  <2>3. floor' \in {floor, NoFloor, [day |-> job.start, valid |-> TRUE]}
    BY <1>2 DEF ForwardFloor
  <2>. QED
    BY <1>0, <1>2, <2>1, <2>2, <2>3 DEF ForwardFloor
<1>3. CASE CreateForwardDay
  <2>1. job.todo \subseteq Day /\ job.todo # {}
    BY <1>3, JobFacts DEF CreateForwardDay, RunningJob
  <2>2. Min(job.todo) \in Day
    BY <2>1, FirstDay
  <2>. QED
    BY <1>0, <1>3, <2>2 DEF CreateForwardDay
<1>4. CASE DropLeftover
  <2>1. job.todo \subseteq Day /\ job.todo # {}
    BY <1>4, JobFacts DEF DropLeftover, RunningJob
  <2>2. Min(job.todo) \in Day
    BY <2>1, FirstDay
  <2>3. detached' \subseteq detached /\ marks' \subseteq marks \cup Day
    BY <1>4, <2>2, DropTableCatalog DEF DropLeftover
  <2>. QED
    BY <1>0, <1>4, <2>3 DEF DropLeftover
<1>5. CASE DetachExpired
  <2>1. job.expired \subseteq Day /\ job.expired # {}
    BY <1>5, JobFacts DEF DetachExpired, RunningJob
  <2>2. Min(job.expired) \in Day
    BY <2>1, FirstDay
  <2>3. /\ attached' \subseteq attached /\ detached' \subseteq detached \cup Day
        /\ marks' \subseteq marks \cup Day /\ fkValid' \in {fkValid, FALSE}
    BY <1>5, <2>2 DEF DetachExpired, detach_partition, KeysNotValid, Missed, write_deferral_mark
  <2>. QED
    BY <1>0, <1>5, <2>3 DEF DetachExpired
<1>6. CASE DropDetached
  <2>1. job.todo \subseteq Day
    BY <1>6, JobFacts DEF DropDetached, RunningJob
  <2>2. detached' \subseteq detached /\ marks' \subseteq marks \cup Day
    BY <1>6, <2>1, DropTableCatalog DEF DropDetached
  <2>. QED
    BY <1>0, <1>6, <2>2 DEF DropDetached
<1>7. CASE ValidateKeys
  <2>1. fkValid' \in {fkValid, TRUE}
    BY <1>7 DEF ValidateKeys, Validated
  <2>. QED
    BY <1>0, <1>7, <2>1 DEF ValidateKeys
<1>8. CASE PurgeSources
  <2>1. job.unmarked \subseteq Day
    BY <1>8, JobFacts DEF PurgeSources, RunningJob
  <2>2. record' \in {record, job.unmarked}
    BY <1>8 DEF PurgeSources
  <2>. QED
    BY <1>0, <1>8, <2>1, <2>2 DEF PurgeSources, catalog
<1>. QED
  BY <1>1, <1>2, <1>3, <1>4, <1>5, <1>6, <1>7, <1>8 DEF RetentionStep, JobStep

\* The days created from the floor are days, unless there is no floor.
LEMMA FromFloor ==
    ASSUME TypeOK, floor.day # 0, CreateFromFloor
    PROVE  /\ attached' \subseteq attached \cup Day
           /\ recreated' \subseteq recreated \cup Day
<1>1. floor.day \in Day /\ today \in 1 .. MaxDay
  BY DEF TypeOK, CatalogTyped
<1>2. floor.day .. today + AheadDays \subseteq Day
  BY <1>1, Days DEF Day
<1>. QED
  BY <1>2 DEF CreateFromFloor, MissingDays

\* A floor that is validated, or that the operator's command is about, has a day.
FloorHasDay == floor.valid \/ op = "floor" => floor.day # 0

\* The operator keeps the catalog and the history typed.
LEMMA OperatorCatalog ==
    ASSUME TypeOK, FloorHasDay, OperatorStep
    PROVE  CatalogTyped' /\ recreated' \subseteq Day /\ purgedBefore' \in Nat
<1>0. CatalogTyped /\ recreated \subseteq Day /\ purgedBefore \in Nat /\ floor \in [day : Day \cup {0}, valid : BOOLEAN]
  BY DEF TypeOK, HistoryTyped, CatalogTyped
<1>f. UNCHANGED <<detached, marks, record>>
  BY OperatorFrame
<1>. USE DEF CatalogTyped
<1>1. ASSUME NEW d \in Day, EstablishFloor(d)
      PROVE  CatalogTyped' /\ recreated' \subseteq Day /\ purgedBefore' \in Nat
  <2>1. [day |-> d, valid |-> FALSE] \in [day : Day \cup {0}, valid : BOOLEAN]
    OBVIOUS
  <2>2. floor' \in {floor, [day |-> d, valid |-> FALSE]}
    BY <1>1 DEF EstablishFloor
  <2>3. attached' \subseteq attached \cup Day /\ recreated' \subseteq recreated \cup Day
    BY <1>1, FromFloor DEF EstablishFloor, FloorHasDay
  <2>4. UNCHANGED <<fkValid, purgedBefore>>
    BY <1>1 DEF EstablishFloor
  <2>. QED
    BY <1>0, <1>f, <2>1, <2>2, <2>3, <2>4
<1>2. CASE ValidateAndCreate
  <2>1. /\ NoFloor \in [day : Day \cup {0}, valid : BOOLEAN]
        /\ [floor EXCEPT !.valid = TRUE] \in [day : Day \cup {0}, valid : BOOLEAN]
    BY <1>0 DEF NoFloor
  <2>2. floor' \in {NoFloor, [floor EXCEPT !.valid = TRUE]}
    BY <1>2 DEF ValidateAndCreate, DropFloor
  <2>3. attached' \subseteq attached \cup Day /\ recreated' \subseteq recreated \cup Day
    BY <1>2, FromFloor DEF ValidateAndCreate, DropFloor, FloorHasDay
  <2>4. UNCHANGED <<fkValid, purgedBefore>>
    BY <1>2 DEF ValidateAndCreate
  <2>. QED
    BY <1>0, <1>f, <2>1, <2>2, <2>3, <2>4
<1>3. CASE PurgeDefault
  <2>1. today - RetentionDays \in Int
    BY Days DEF TypeOK
  <2>2. Max({purgedBefore, today - RetentionDays}) \in Nat
    BY <1>0, <2>1, MaxNat
  <2>. QED
    BY <1>0, <1>3, <2>2 DEF PurgeDefault, catalog
<1>4. CASE SwapDefault
  BY <1>0, <1>f, <1>4 DEF SwapDefault, KeysNotValid, history
<1>5. CASE DropOldDefault
  BY <1>0, <1>f, <1>5 DEF DropOldDefault, history
<1>6. CASE OperatorValidates
  BY <1>0, <1>f, <1>6 DEF OperatorValidates, Validated, history
<1>7. CASE DeleteExpiredRows \/ CommandStops
  BY <1>0, <1>7 DEF DeleteExpiredRows, CommandStops, catalog, history
<1>. QED
  BY <1>1, <1>2, <1>3, <1>4, <1>5, <1>6, <1>7 DEF OperatorStep

\* The retention job keeps the history typed.
LEMMA RetentionHistory ==
    ASSUME TypeOK, RetentionStep
    PROVE  HistoryTyped'
<1>0. HistoryTyped /\ UNCHANGED <<recreated, refused>>
  BY RetentionFrame DEF TypeOK
<1>. USE DEF HistoryTyped
<1>1. CASE DeleteExpiredPointers
  <2>1. Cutoff \in Int
    BY <1>1, JobFacts, Days DEF DeleteExpiredPointers, RunningJob, Cutoff
  <2>2. Max({purgedBefore, Cutoff}) \in Nat
    BY <1>0, <2>1, MaxNat
  <2>. QED
    BY <1>0, <1>1, <2>2 DEF DeleteExpiredPointers
<1>2. CASE DetachExpired
  <2>1. job.expired \subseteq Day /\ job.expired # {}
    BY <1>2, JobFacts DEF DetachExpired, RunningJob
  <2>2. Min(job.expired) \in Day
    BY <2>1, FirstDay
  <2>3. dropped' \subseteq dropped \cup Day
    BY <1>2, <2>2 DEF DetachExpired
  <2>. QED
    BY <1>0, <1>2, <2>3 DEF DetachExpired
<1>3. CASE PurgeSources
  <2>1. job.missed \subseteq Day
    BY <1>3, JobFacts DEF PurgeSources, RunningJob
  <2>. QED
    BY <1>0, <1>3, <2>1 DEF PurgeSources
<1>4. CASE UNCHANGED history
  BY <1>0, <1>4 DEF history
<1>. QED
  BY <1>1, <1>2, <1>3, <1>4
  DEF RetentionStep, JobStep, StartJob, ForwardFloor, CreateForwardDay, DropLeftover, DropDetached,
      ValidateKeys, CrashJob

\* The floor keeps its day.
LEMMA FloorStep ==
    ASSUME TypeOK, FloorHasDay, [Next]_vars
    PROVE  FloorHasDay'
<1>0. floor \in [day : Day \cup {0}, valid : BOOLEAN]
  BY DEF TypeOK, CatalogTyped
<1>. USE DEF FloorHasDay
<1>1. CASE ForwardFloor
  <2>1. job.start # 0
    BY <1>1, JobFacts DEF ForwardFloor, RunningJob
  <2>2. op' = op /\ op = "idle"
    BY <1>1 DEF ForwardFloor, operator
  <2>3. floor' \in {floor, NoFloor, [day |-> job.start, valid |-> TRUE]}
    BY <1>1 DEF ForwardFloor
  <2>. QED
    BY <2>1, <2>2, <2>3 DEF NoFloor
<1>2. ASSUME NEW d \in Day, EstablishFloor(d) PROVE FloorHasDay'
  <2>1. d # 0
    BY Days
  <2>. QED
    BY <1>2, <2>1 DEF EstablishFloor, BeginCommand
<1>3. CASE ValidateAndCreate
  BY <1>0, <1>3 DEF ValidateAndCreate, DropFloor, NoFloor
<1>4. CASE floor' = floor /\ (op' = op \/ op' # "floor")
  BY <1>4
<1>5. CASE Tick \/ (\E w \in Writers : IngestStep(w)) \/ UNCHANGED vars
  BY <1>4, <1>5, IngestFrame DEF Tick, vars, catalog, processes, operator
<1>6. CASE \E B \in SUBSET facts : PurgeShort(B)
  BY <1>4, <1>6 DEF PurgeShort, catalog, processes, operator
<1>7. CASE RetentionStep /\ ~ForwardFloor
  <2>1. op' = op
    BY <1>7, RetentionFrame
  <2>2. floor' = floor
    BY <1>7 DEF RetentionStep, JobStep, StartJob, CreateForwardDay, DeleteExpiredPointers, DropLeftover,
                DetachExpired, DropDetached, ValidateKeys, PurgeSources, CrashJob, catalog
  <2>. QED
    BY <1>4, <2>1, <2>2
<1>8. CASE PurgeDefault \/ SwapDefault \/ DropOldDefault \/ OperatorValidates
             \/ DeleteExpiredRows \/ CommandStops
  BY <1>8 DEF PurgeDefault, SwapDefault, DropOldDefault, OperatorValidates, DeleteExpiredRows,
              CommandStops, catalog
<1>. QED
  BY <1>1, <1>2, <1>3, <1>5, <1>6, <1>7, <1>8, StepsByActor DEF OperatorStep

\* Every step keeps the types.
LEMMA TypeStep ==
    ASSUME TypeOK, FloorHasDay, [Next]_vars
    PROVE  TypeOK'
<1>1. CASE Tick
  BY <1>1, Days DEF Tick, TypeOK, TablesTyped, CatalogTyped, OperatorTyped, HistoryTyped,
                    tables, catalog, processes, operator, history
<1>2. ASSUME NEW w \in Writers, IngestStep(w) PROVE TypeOK'
  <2>1. TablesTyped' /\ writer' \in [Writers -> WriterState]
    BY <1>2, IngestTablesTyped, IngestWritersTyped
  <2>2. refused' \in BOOLEAN
    BY <1>2 DEF IngestStep, Fetch, Resolve, Publish, PublishAlertEvents, LoseLockRace, history,
                TypeOK, HistoryTyped
  <2>. QED
    BY <1>2, <2>1, <2>2, IngestFrame DEF TypeOK, CatalogTyped, OperatorTyped, HistoryTyped
<1>3. CASE RetentionStep
  BY <1>3, RetentionCleans, CleanTables, RetentionCatalog, JobTyped, RetentionHistory,
     RetentionFrame DEF TypeOK, OperatorTyped
<1>4. ASSUME NEW B \in SUBSET facts, PurgeShort(B) PROVE TypeOK'
  <2>1. TablesTyped'
    BY <1>4, PurgeShortCleans, CleanTables DEF PurgeShort
  <2>. QED
    BY <1>4, <2>1 DEF PurgeShort, TypeOK, CatalogTyped, OperatorTyped, HistoryTyped,
                      catalog, processes, operator, history
<1>5. CASE OperatorStep
  BY <1>5, OperatorCleans, CleanTables, OperatorCatalog, OperatorStepTyped, OperatorFrame
  DEF TypeOK, HistoryTyped
<1>6. CASE UNCHANGED vars
  BY <1>6 DEF vars, TypeOK, TablesTyped, CatalogTyped, OperatorTyped, HistoryTyped,
              tables, catalog, processes, operator, history
<1>. QED
  BY <1>1, <1>2, <1>3, <1>4, <1>5, <1>6, StepsByActor

\* The initial state is typed.
LEMMA TypeInit ==
    ASSUME Init
    PROVE  TypeOK /\ FloorHasDay
<1>1. TablesTyped
  BY DEF Init, TablesTyped
<1>2. CatalogTyped
  BY FactAssumption, Days DEF Init, CatalogTyped, NoFloor
<1>3. writer \in [Writers -> WriterState]
  BY DEF Init, IdleWriter, WriterState
<1>4. today \in 1 .. MaxDay
  BY FactAssumption DEF Init
<1>5. OperatorTyped /\ HistoryTyped
  <2>1. 0 \in 0 .. OperatorUses
    BY Days
  <2>2. OperatorTyped
    BY <2>1 DEF Init, OperatorTyped
  <2>3. refused \in BOOLEAN
    BY DEF Init
  <2>. QED
    BY <2>2, <2>3 DEF Init, HistoryTyped
<1>6. job \in RunningJob \cup {IdleJob}
  BY DEF Init
<1>7. FloorHasDay
  BY DEF Init, FloorHasDay, NoFloor
<1>. QED
  BY <1>1, <1>2, <1>3, <1>4, <1>5, <1>6, <1>7 DEF TypeOK

\* The tables, the catalog, the collectors, the job and the operator keep their types.
THEOREM TypeCorrect == Spec => []TypeOK
<1>1. Init => TypeOK /\ FloorHasDay
  BY TypeInit
<1>2. TypeOK /\ FloorHasDay /\ [Next]_vars => (TypeOK /\ FloorHasDay)'
  BY TypeStep, FloorStep
<1>. QED
  BY <1>1, <1>2, PTL DEF Spec

-----------------------------------------------------------------------------
(***************************************************************************)
(* Lineage and retained short forecasts.                                   *)
(***************************************************************************)

\* A collector that stores a row stores its source with it.
LEMMA IngestLineage ==
    ASSUME TypeOK, LineageKept, NEW w \in Writers, IngestStep(w)
    PROVE  LineageKept'
<1>0. /\ facts \subseteq Fact /\ limbo \subseteq Fact /\ events \subseteq Fact
      /\ \A f \in Fact : f.r \in Responses
  BY DEF TypeOK, TablesTyped, Fact
<1>1. limbo' = limbo
  BY IngestFrame
<1>2. ASSUME writer[w].pc = "resolved", SourceStored(writer[w]), ~SourceGone(writer[w]), NEW g,
             g.r = writer[w].r, facts' \cup events' \subseteq facts \cup events \cup {g}
      PROVE  LineageKept'
  <2>1. /\ source'[writer[w].r] # 0
        /\ \A r \in Responses : source[r] # 0 => source'[r] # 0
    BY <1>2, SourceStoredEffect
  <2>2. ASSUME NEW f \in facts' \cup limbo' \cup events' PROVE source'[f.r] # 0
    <3>1. CASE f \in facts \cup limbo \cup events
      BY <1>0, <2>1, <3>1 DEF LineageKept
    <3>2. CASE f = g
      BY <1>2, <2>1, <3>2
    <3>. QED
      BY <1>1, <1>2, <3>1, <3>2
  <2>. QED
    BY <2>2 DEF LineageKept
<1>3. CASE UNCHANGED <<source, facts, events>>
  BY <1>1, <1>3 DEF LineageKept
<1>4. CASE Publish(w)
  <2>1. /\ events' = events /\ writer[w].pc = "resolved"
        /\ \/ UNCHANGED <<source, cited, facts, current>>
           \/ /\ SourceStored(writer[w]) /\ ~SourceGone(writer[w])
              /\ Stores(w) \/ UNCHANGED <<facts, current>>
    BY <1>4, PublishEffect
  <2>2. PICK g : g = NewFact(w)
    OBVIOUS
  <2>3. /\ g.r = writer[w].r
        /\ Stores(w) \/ UNCHANGED <<facts, current>>
             => facts' \cup events' \subseteq facts \cup events \cup {g}
    BY <2>1, <2>2 DEF Stores, NewFact
  <2>. QED
    BY <1>2, <1>3, <2>1, <2>3
<1>5. CASE PublishAlertEvents(w)
  <2>1. /\ UNCHANGED <<facts, current>> /\ writer[w].pc = "resolved"
        /\ \/ UNCHANGED <<source, cited, events>>
           \/ /\ SourceStored(writer[w]) /\ ~SourceGone(writer[w])
              /\ events' \subseteq events \cup {[r |-> writer[w].r, at |-> today]}
    BY <1>5, AlertEffect
  <2>2. PICK g : g = [r |-> writer[w].r, at |-> today]
    OBVIOUS
  <2>3. /\ g.r = writer[w].r
        /\ events' \subseteq events \cup {g}
             => facts' \cup events' \subseteq facts \cup events \cup {g}
    BY <2>1, <2>2
  <2>. QED
    BY <1>2, <1>3, <2>1, <2>2, <2>3
<1>6. CASE UNCHANGED tables
  BY <1>3, <1>6 DEF tables
<1>. QED
  BY <1>4, <1>5, <1>6 DEF IngestStep, Fetch, Resolve, LoseLockRace

\* Cleaning deletes no source that a remaining row cites.
LEMMA CleanLineage ==
    ASSUME TypeOK, LineageKept, Cleans
    PROVE  LineageKept'
<1>0. \A f \in facts \cup limbo \cup events : f.r \in Responses
  BY DEF TypeOK, TablesTyped, Fact
<1>1. \A f \in facts \cup limbo \cup events : ~Uncited(f.r)
  BY DEF Uncited, CitedByRows
<1>2. \A r \in Responses : ~Uncited(r) => source'[r] = source[r]
  BY DEF Cleans
<1>3. facts' \cup limbo' \cup events' \subseteq facts \cup limbo \cup events
  BY DEF Cleans
<1>. QED
  BY <1>0, <1>1, <1>2, <1>3 DEF LineageKept

\* No source record is deleted while a row cites it, in the fact table, in a
\* detached table that waits for its drop, or as an alert event: neither the
\* purge of uncited sources racing an ingest nor a drop of a table loses lineage.
THEOREM SourcesOutliveRows == Spec => []LineageKept
<1>1. Init => LineageKept
  BY DEF Init, LineageKept
<1>2. TypeOK /\ LineageKept /\ [Next]_vars => LineageKept'
  <2>. SUFFICES ASSUME TypeOK, LineageKept, [Next]_vars PROVE LineageKept'
    OBVIOUS
  <2>1. CASE Tick \/ UNCHANGED vars
    BY <2>1 DEF Tick, vars, tables, catalog, LineageKept
  <2>2. CASE \E w \in Writers : IngestStep(w)
    BY <2>2, IngestLineage
  <2>3. CASE RetentionStep \/ OperatorStep \/ \E B \in SUBSET facts : PurgeShort(B)
    BY <2>3, RetentionCleans, OperatorCleans, PurgeShortCleans, CleanLineage
  <2>. QED
    BY <2>1, <2>2, <2>3, StepsByActor
<1>. QED
  BY <1>1, <1>2, TypeCorrect, PTL DEF Spec

KeepsRetained == \A f \in facts \cup limbo : Retained(f.r) => f \in facts' \cup limbo'

\* A drop of a table keeps what must be preserved.
LEMMA DropKeepsRetained ==
    ASSUME NEW d, NEW next, DropTable(d, next), facts' = facts
    PROVE  KeepsRetained
<1>1. CASE limbo' = limbo
  BY <1>1 DEF KeepsRetained
<1>2. CASE ~MustPreserve(RowsOf(limbo, d)) /\ limbo' = limbo \ RowsOf(limbo, d)
  BY <1>2 DEF KeepsRetained, MustPreserve
<1>. QED
  BY <1>1, <1>2 DEF DropTable

\* No step loses a short forecast about today or later: not the drop of a
\* partition or of DEFAULT, not the deletion of expired rows, not the cleanup of
\* short forecasts, whatever has been published since the cutoff was computed.
THEOREM ShortForecastsKept == Spec => RetainedNeverDropped
<1>1. TypeOK /\ [Next]_vars => KeepsRetained
  <2>. SUFFICES ASSUME TypeOK, [Next]_vars PROVE KeepsRetained
    OBVIOUS
  <2>0. CASE facts \subseteq facts' /\ limbo' = limbo
    BY <2>0 DEF KeepsRetained
  <2>1. CASE Tick \/ UNCHANGED vars
    BY <2>0, <2>1 DEF Tick, vars, tables, catalog
  <2>2. ASSUME NEW w \in Writers, IngestStep(w) PROVE KeepsRetained
    <3>1. CASE Publish(w)
      BY <2>0, <2>2, <3>1, PublishEffect, IngestFrame DEF Stores
    <3>2. CASE PublishAlertEvents(w)
      BY <2>0, <2>2, <3>2, AlertEffect, IngestFrame
    <3>3. CASE UNCHANGED tables
      BY <2>0, <2>2, <3>3, IngestFrame DEF tables
    <3>. QED
      BY <2>2, <3>1, <3>2, <3>3 DEF IngestStep, Fetch, Resolve, LoseLockRace
  <2>3. CASE StartJob \/ ForwardFloor \/ CreateForwardDay \/ DeleteExpiredPointers \/ ValidateKeys
               \/ PurgeSources \/ CrashJob
    BY <2>0, <2>3 DEF StartJob, ForwardFloor, CreateForwardDay, DeleteExpiredPointers, ValidateKeys,
                      PurgeSources, CrashJob, tables, catalog
  <2>4. CASE DropLeftover \/ DropDetached
    BY <2>4, DropKeepsRetained DEF DropLeftover, DropDetached, tables
  <2>5. CASE DetachExpired
    BY <2>5 DEF DetachExpired, detach_partition, KeepsRetained
  <2>6. ASSUME NEW B \in SUBSET facts, PurgeShort(B) PROVE KeepsRetained
    <3>1. \A f \in facts : f.r \in Responses /\ ShortDay[PointOf[f.r]] \in Nat /\ today \in Nat
      BY FactAssumption, Days DEF TypeOK, TablesTyped, Fact
    <3>2. \A f \in facts : ~(ExpiredShort(f.r) /\ Retained(f.r))
      BY <3>1 DEF ExpiredShort, Retained
    <3>. QED
      BY <2>6, <3>2 DEF PurgeShort, KeepsRetained, catalog
  <2>7. ASSUME NEW d \in Day, EstablishFloor(d) PROVE KeepsRetained
    BY <2>0, <2>7 DEF EstablishFloor, tables
  <2>8. CASE ValidateAndCreate \/ PurgeDefault \/ OperatorValidates \/ CommandStops
    BY <2>0, <2>8 DEF ValidateAndCreate, PurgeDefault, OperatorValidates, CommandStops, tables, catalog
  <2>9. CASE SwapDefault
    BY <2>9 DEF SwapDefault, KeepsRetained
  <2>10. CASE DropOldDefault
    BY <2>10 DEF DropOldDefault, KeepsRetained, MustPreserve, tables
  <2>11. CASE DeleteExpiredRows
    BY <2>11 DEF DeleteExpiredRows, ExpiredRows, KeepsRetained, catalog
  <2>. QED
    BY <2>1, <2>2, <2>3, <2>4, <2>5, <2>6, <2>7, <2>8, <2>9, <2>10, <2>11, StepsByActor
    DEF RetentionStep, JobStep, OperatorStep
<1>. QED
  BY <1>1, TypeCorrect, PTL DEF Spec, RetainedNeverDropped, KeepsRetained

-----------------------------------------------------------------------------
(***************************************************************************)
(* The inductive invariant of the retention window.                        *)
(***************************************************************************)

\* A day has one table; with a validated floor DEFAULT holds days before it only.
CatalogKnows ==
    /\ attached \cap detached = {}
    /\ floor.valid => \A f \in facts : f.at \in attached \/ f.at < floor.day

\* What a running job has listed is still so, however long it waits: nobody else
\* detaches or drops a table, and the days it lists have passed their cutoff.
JobKnows ==
    /\ \A d \in missedLast : d < today
    /\ job.pc # "idle" => job.start <= today /\ \A d \in missedLast : d < job.start
    /\ \A d \in job.missed : d < job.start
    /\ job.pc \in {"floor", "create"} => job.missed = {}
    /\ job.pc = "floor" => job.todo = {}
    /\ job.pc = "create" => \A d \in job.todo : job.start <= d /\ d \notin detached
    /\ job.pc \in {"expired", "drop"} =>
          /\ job.todo \subseteq detached /\ job.expired \subseteq attached
          /\ \A d \in job.todo \cup job.expired : d < Cutoff
          /\ Cutoff <= purgedBefore

\* A missed day carries its mark, or the run that missed it hands it over, as
\* long as its table is there.
MarksKnow ==
    /\ \A d \in missedLast \ recreated : d \in attached \cup detached => d \in marks \cup record
    /\ \A d \in job.missed \ recreated :
          d \in attached \cup detached => d \in marks \cup job.unmarked

\* A pointer is about its own point, and dangles only below the latest cutoff;
\* the operator's purge stays below it.
PointersKnow ==
    /\ \A p \in Points : current[p] # None =>
          /\ PointOf[current[p].r] = p
          /\ current[p] \in facts \/ current[p].at < purgedBefore
    /\ op = "swap" => floor.valid /\ floor.day <= purgedBefore
    /\ op = "rows" => opCutoff <= purgedBefore

\* A drop of a table touches one detached day and its mark.
LEMMA DropTableEffect ==
    ASSUME NEW d, NEW next, DropTable(d, next)
    PROVE  \/ detached' = detached /\ marks' = marks /\ job' = [next EXCEPT !.held = TRUE]
           \/ detached' = detached \ {d} /\ marks' = marks \ {d} /\ job' = [next EXCEPT !.retention = 0]
           \/ /\ detached' = detached
              /\ \E written \in BOOLEAN : Missed(d, written, [next EXCEPT !.held = TRUE, !.retention = Capped(@)])
  BY DEF DropTable

\* The days created from the floor had no table.
LEMMA FromFloorEffect ==
    ASSUME TypeOK, CreateFromFloor
    PROVE  \E M \in SUBSET Int : /\ M \cap (attached \cup detached) = {}
                                 /\ attached' = attached \cup M
                                 /\ recreated' = recreated \cup {d \in M : d < today}
<1>1. MissingDays(floor.day, floor.day, today + AheadDays) \subseteq Int
  BY Days DEF MissingDays, TypeOK, CatalogTyped
<1>2. MissingDays(floor.day, floor.day, today + AheadDays) \cap (attached \cup detached) = {}
  BY DEF MissingDays
<1>. QED
  BY <1>1, <1>2 DEF CreateFromFloor

\* A day keeps one table, and DEFAULT the days before a validated floor.
LEMMA CatalogStep ==
    ASSUME TypeOK, FloorHasDay, JobKnows, CatalogKnows, [Next]_vars
    PROVE  CatalogKnows'
<1>0. CASE UNCHANGED <<attached, detached, floor>> /\ facts' \subseteq facts
  BY <1>0 DEF CatalogKnows
<1>1. CASE Tick \/ UNCHANGED vars
  BY <1>0, <1>1 DEF Tick, vars, tables, catalog
<1>2. ASSUME NEW w \in Writers, IngestStep(w) PROVE CatalogKnows'
  <2>1. UNCHANGED <<attached, detached, floor>>
    BY <1>2, IngestFrame
  <2>2. CASE Publish(w)
    <3>1. CASE Stores(w)
      <4>1. PICK g : g = NewFact(w)
        OBVIOUS
      <4>2. facts' = facts \cup {g} /\ (g \in facts \/ Lands(g.at))
        BY <3>1, <4>1 DEF Stores
      <4>. QED
        BY <2>1, <4>2 DEF CatalogKnows, Lands, FloorHasDay
    <3>. QED
      BY <1>0, <2>1, <2>2, <3>1, PublishEffect
  <2>3. CASE PublishAlertEvents(w)
    BY <1>0, <2>1, <2>3, AlertEffect
  <2>4. CASE UNCHANGED tables
    BY <1>0, <2>1, <2>4 DEF tables
  <2>. QED
    BY <1>2, <2>2, <2>3, <2>4 DEF IngestStep, Fetch, Resolve, LoseLockRace
<1>3. CASE StartJob \/ DeleteExpiredPointers \/ ValidateKeys \/ PurgeSources \/ CrashJob
  BY <1>0, <1>3 DEF StartJob, DeleteExpiredPointers, ValidateKeys, PurgeSources, CrashJob, tables, catalog
<1>4. CASE ForwardFloor
  <2>1. UNCHANGED <<attached, detached, facts>>
    BY <1>4 DEF ForwardFloor, tables
  <2>2. \/ floor' = floor
        \/ floor' = NoFloor
        \/ DefaultRows = {}
    BY <1>4 DEF ForwardFloor
  <2>. QED
    BY <2>1, <2>2 DEF CatalogKnows, NoFloor, DefaultRows
<1>5. CASE CreateForwardDay
  <2>1. job.todo \subseteq Day /\ job.todo # {}
    BY <1>5, JobFacts DEF CreateForwardDay, RunningJob
  <2>2. Min(job.todo) \in job.todo
    BY <2>1, FirstDay
  <2>3. Min(job.todo) \notin detached
    BY <1>5, <2>2 DEF CreateForwardDay, JobKnows
  <2>4. UNCHANGED <<detached, floor, facts>> /\ attached' \in {attached, attached \cup {Min(job.todo)}}
    BY <1>5 DEF CreateForwardDay, tables
  <2>. QED
    BY <2>3, <2>4 DEF CatalogKnows
<1>6. CASE DropLeftover \/ DropDetached
  <2>1. UNCHANGED <<attached, floor, facts>>
    BY <1>6 DEF DropLeftover, DropDetached, tables
  <2>2. detached' \subseteq detached
    BY <1>6, DropTableEffect DEF DropLeftover, DropDetached
  <2>. QED
    BY <2>1, <2>2 DEF CatalogKnows
<1>7. CASE DetachExpired
  <2>1. floor' = floor
    BY <1>7 DEF DetachExpired
  <2>2. \/ UNCHANGED <<attached, detached, facts>>
        \/ \E d : /\ facts' = facts \ RowsOf(facts, d)
                  /\ attached' = attached \ {d} /\ detached' = detached \cup {d}
    BY <1>7 DEF DetachExpired, detach_partition
  <2>. QED
    BY <2>1, <2>2 DEF CatalogKnows, RowsOf
<1>8. CASE \E B \in SUBSET facts : PurgeShort(B)
  BY <1>0, <1>8 DEF PurgeShort, catalog
<1>9. ASSUME NEW d \in Day, EstablishFloor(d) PROVE CatalogKnows'
  <2>1. UNCHANGED <<facts, detached>>
    BY <1>9 DEF EstablishFloor, tables
  <2>2. CASE floor' = [day |-> d, valid |-> FALSE] /\ attached' = attached
    BY <2>1, <2>2 DEF CatalogKnows
  <2>3. CASE floor' = floor /\ CreateFromFloor
    BY <2>1, <2>3, FromFloorEffect DEF CatalogKnows
  <2>. QED
    BY <1>9, <2>2, <2>3 DEF EstablishFloor
<1>10. CASE ValidateAndCreate
  <2>1. UNCHANGED <<facts, detached>>
    BY <1>10 DEF ValidateAndCreate, tables
  <2>2. CASE floor' = NoFloor /\ attached' = attached
    BY <2>1, <2>2 DEF CatalogKnows, NoFloor
  <2>3. CASE /\ \A f \in DefaultRows : f.at < floor.day
             /\ floor' = [floor EXCEPT !.valid = TRUE]
             /\ CreateFromFloor
    <3>1. floor'.day = floor.day
      BY <2>3 DEF TypeOK, CatalogTyped
    <3>. QED
      BY <2>1, <2>3, <3>1, FromFloorEffect DEF CatalogKnows, DefaultRows
  <2>. QED
    BY <1>10, <2>2, <2>3 DEF ValidateAndCreate, DropFloor
<1>11. CASE PurgeDefault \/ SwapDefault \/ DropOldDefault \/ OperatorValidates \/ DeleteExpiredRows
              \/ CommandStops
  BY <1>0, <1>11 DEF PurgeDefault, SwapDefault, DropOldDefault, OperatorValidates, DeleteExpiredRows,
                     CommandStops, tables, catalog
<1>. QED
  BY <1>1, <1>2, <1>3, <1>4, <1>5, <1>6, <1>7, <1>8, <1>9, <1>10, <1>11, StepsByActor
  DEF RetentionStep, JobStep, OperatorStep

\* What a run has missed so far is unchanged.
SameMissed == UNCHANGED <<job.missed, job.overdue, job.unmarked>>

\* Day d joins what the run has missed, marked or handed over, and overdue when
\* it was marked or handed over before.
MissesDay(d) ==
    /\ job'.missed = job.missed \cup {d}
    /\ job.overdue \subseteq job'.overdue /\ (d \in marks \cup record => d \in job'.overdue)
    /\ marks \subseteq marks'
    /\ job.unmarked \subseteq job'.unmarked /\ d \in marks' \cup job'.unmarked

LEMMA MissedEffect ==
    ASSUME NEW d, NEW next \in RunningJob, NEW written \in BOOLEAN, Missed(d, written, next),
           next.missed = job.missed, next.overdue = job.overdue, next.unmarked = job.unmarked
    PROVE  /\ MissesDay(d) /\ job'.pc = next.pc /\ job'.start = next.start
           /\ job'.todo = next.todo /\ job'.expired = next.expired
  BY DEF Missed, write_deferral_mark, MissesDay, RunningJob

\* The drop of a detached table, by a later run or right after its detach.
DropsOne(d) ==
    /\ job'.pc = "expired" /\ job'.start = job.start /\ job'.expired = job.expired
    /\ job'.todo \subseteq job.todo \ {d}
    /\ \/ detached' = detached /\ marks' = marks /\ SameMissed
       \/ detached' = detached \ {d} /\ marks' = marks \ {d} /\ SameMissed
       \/ detached' = detached /\ MissesDay(d)

LEMMA DropTableJob ==
    ASSUME TypeOK, NEW d \in Day, NEW next \in RunningJob, DropTable(d, next),
           next.missed = job.missed, next.overdue = job.overdue, next.unmarked = job.unmarked,
           next.pc = "expired", next.start = job.start, next.expired = job.expired,
           next.todo \subseteq job.todo \ {d}
    PROVE  DropsOne(d)
<1>1. CASE job' = [next EXCEPT !.held = TRUE] /\ detached' = detached /\ marks' = marks
  BY <1>1 DEF DropsOne, RunningJob, SameMissed
<1>2. CASE /\ job' = [next EXCEPT !.retention = 0]
           /\ detached' = detached \ {d} /\ marks' = marks \ {d}
  BY <1>2 DEF DropsOne, RunningJob, SameMissed
<1>3. ASSUME detached' = detached, NEW written \in BOOLEAN,
             Missed(d, written, [next EXCEPT !.held = TRUE, !.retention = Capped(@)])
      PROVE  DropsOne(d)
  <2>. DEFINE n == [next EXCEPT !.held = TRUE, !.retention = Capped(@)]
  <2>1. /\ n \in RunningJob /\ n.missed = job.missed /\ n.overdue = job.overdue
        /\ n.unmarked = job.unmarked /\ n.pc = "expired" /\ n.start = job.start
        /\ n.expired = job.expired /\ n.todo \subseteq job.todo \ {d}
    BY JobFacts DEF RunningJob
  <2>2. Missed(d, written, n)
    BY <1>3
  <2>. HIDE DEF n
  <2>3. /\ MissesDay(d) /\ job'.pc = n.pc /\ job'.start = n.start
        /\ job'.todo = n.todo /\ job'.expired = n.expired
    BY <2>1, <2>2, MissedEffect
  <2>. QED
    BY <1>3, <2>1, <2>3 DEF DropsOne
<1>. QED
  BY <1>1, <1>2, <1>3, DropTableEffect

LEMMA DropEffect ==
    ASSUME TypeOK, DropLeftover \/ DropDetached
    PROVE  /\ UNCHANGED <<today, attached, record, purgedBefore, missedLast, recreated>>
           /\ job.pc \in {"expired", "drop"} /\ job \in RunningJob
           /\ \E d \in job.todo : DropsOne(d)
<1>1. /\ UNCHANGED <<today, attached, record, purgedBefore, missedLast, recreated>>
      /\ job.pc \in {"expired", "drop"} /\ job \in RunningJob
  BY JobFacts DEF DropLeftover, DropDetached, history
<1>2. CASE DropLeftover
  <2>. DEFINE d == Min(job.todo)
              n == [job EXCEPT !.todo = @ \ {d}]
  <2>1. job.todo # {} /\ DropTable(d, n) /\ job.pc = "expired"
    BY <1>2 DEF DropLeftover
  <2>2. d \in job.todo /\ d \in Day
    BY <1>1, <2>1, FirstDay DEF RunningJob
  <2>3. /\ n \in RunningJob /\ n.missed = job.missed /\ n.overdue = job.overdue
        /\ n.unmarked = job.unmarked /\ n.pc = job.pc /\ n.start = job.start
        /\ n.expired = job.expired /\ n.todo \subseteq job.todo \ {d}
    BY <1>1 DEF RunningJob
  <2>. HIDE DEF n, d
  <2>. QED
    BY <1>1, <2>1, <2>2, <2>3, DropTableJob
<1>3. CASE DropDetached
  <2>. DEFINE n == [job EXCEPT !.pc = "expired", !.todo = {}]
  <2>1. PICK d \in job.todo : DropTable(d, n)
    BY <1>3 DEF DropDetached
  <2>2. d \in Day
    BY <1>1 DEF RunningJob
  <2>3. /\ n \in RunningJob /\ n.missed = job.missed /\ n.overdue = job.overdue
        /\ n.unmarked = job.unmarked /\ n.pc = "expired" /\ n.start = job.start
        /\ n.expired = job.expired /\ n.todo \subseteq job.todo \ {d}
    BY <1>1 DEF RunningJob
  <2>. HIDE DEF n
  <2>. QED
    BY <1>1, <2>1, <2>2, <2>3, DropTableJob
<1>. QED
  BY <1>2, <1>3

\* The detach of an expired day, its deferral, or its skip behind a held day.
DetachesOne(d) ==
    /\ job'.start = job.start /\ job'.expired = job.expired \ {d}
    /\ \/ /\ job'.pc = "expired" /\ job'.todo = {} /\ SameMissed
          /\ UNCHANGED <<attached, detached, marks, facts, limbo, fkValid>>
       \/ /\ job'.pc = "drop" /\ job'.todo = {d} /\ SameMissed
          /\ detach_partition(d) /\ marks' = marks
       \/ /\ job'.pc = "expired" /\ job'.todo = {} /\ MissesDay(d)
          /\ UNCHANGED <<attached, detached, facts, limbo, fkValid>>

LEMMA DetachEffect ==
    ASSUME TypeOK, DetachExpired
    PROVE  /\ UNCHANGED <<today, current, floor, record, purgedBefore, missedLast, recreated>>
           /\ job.pc = "expired" /\ job.todo = {} /\ job \in RunningJob
           /\ \E d \in job.expired : DetachesOne(d)
<1>1. /\ UNCHANGED <<today, current, floor, record, purgedBefore, missedLast, recreated>>
      /\ job.pc = "expired" /\ job.todo = {} /\ job \in RunningJob /\ job.expired # {}
  BY JobFacts DEF DetachExpired
<1>. DEFINE d == Min(job.expired)
            rest == [job EXCEPT !.expired = @ \ {d}]
            gone == [rest EXCEPT !.pc = "drop", !.todo = {d}, !.retention = 0]
            late == [rest EXCEPT !.retention = Capped(@)]
<1>2. d \in job.expired /\ d \in Day
  BY <1>1, FirstDay DEF RunningJob
<1>3. \/ /\ job' = rest
         /\ UNCHANGED <<attached, detached, marks, facts, limbo, fkValid>>
      \/ /\ job' = gone /\ detach_partition(d) /\ marks' = marks
      \/ /\ \E written \in BOOLEAN : Missed(d, written, late)
         /\ UNCHANGED <<attached, detached, facts, limbo, fkValid>>
  BY DEF DetachExpired
<1>. HIDE DEF d
<1>4. /\ rest.start = job.start /\ rest.expired = job.expired \ {d} /\ rest.pc = "expired"
      /\ rest.todo = {} /\ rest.missed = job.missed /\ rest.overdue = job.overdue
      /\ rest.unmarked = job.unmarked /\ rest \in RunningJob
  BY <1>1 DEF RunningJob
<1>. HIDE DEF rest
<1>5. /\ gone.start = rest.start /\ gone.expired = rest.expired /\ gone.pc = "drop"
      /\ gone.todo = {d} /\ gone.missed = rest.missed /\ gone.overdue = rest.overdue
      /\ gone.unmarked = rest.unmarked
  BY <1>4 DEF RunningJob
<1>6. /\ late.start = rest.start /\ late.expired = rest.expired /\ late.pc = rest.pc
      /\ late.todo = rest.todo /\ late.missed = rest.missed /\ late.overdue = rest.overdue
      /\ late.unmarked = rest.unmarked /\ late \in RunningJob
  BY <1>4, JobFacts DEF RunningJob
<1>. HIDE DEF gone, late
<1>7. ASSUME job' = rest, UNCHANGED <<attached, detached, marks, facts, limbo, fkValid>>
      PROVE  DetachesOne(d)
  BY <1>4, <1>7 DEF DetachesOne, SameMissed
<1>8. ASSUME job' = gone, detach_partition(d), marks' = marks
      PROVE  DetachesOne(d)
  BY <1>4, <1>5, <1>8 DEF DetachesOne, SameMissed
<1>9. ASSUME NEW written \in BOOLEAN, Missed(d, written, late),
             UNCHANGED <<attached, detached, facts, limbo, fkValid>>
      PROVE  DetachesOne(d)
  <2>1. /\ MissesDay(d) /\ job'.pc = late.pc /\ job'.start = late.start
        /\ job'.todo = late.todo /\ job'.expired = late.expired
    BY <1>4, <1>6, <1>9, MissedEffect
  <2>. QED
    BY <1>4, <1>6, <1>9, <2>1 DEF DetachesOne
<1>. QED
  BY <1>1, <1>2, <1>3, <1>7, <1>8, <1>9

\* Steps of the others leave the job's lists alone: they detach nothing, remove
\* no partition and move no cutoff back.
OthersStep ==
    /\ UNCHANGED <<job, missedLast, detached, marks, record>>
    /\ attached \subseteq attached' /\ today <= today' /\ today' \in Nat
    /\ purgedBefore <= purgedBefore' /\ purgedBefore' \in Nat
    /\ recreated \subseteq recreated'
    /\ \A d \in attached' \ attached : d \notin detached /\ (d < today => d \in recreated')

LEMMA OthersEffect ==
    ASSUME TypeOK, [Next]_vars, ~RetentionStep
    PROVE  OthersStep
<1>0. today \in Nat /\ purgedBefore \in Nat
  BY DEF TypeOK, HistoryTyped
<1>. USE DEF OthersStep
<1>1. CASE Tick
  BY <1>0, <1>1 DEF Tick, catalog, processes, history
<1>2. CASE UNCHANGED vars
  BY <1>0, <1>2 DEF vars, catalog, processes, history
<1>3. CASE \E w \in Writers : IngestStep(w)
  BY <1>0, <1>3, IngestFrame
<1>4. CASE \E B \in SUBSET facts : PurgeShort(B)
  BY <1>0, <1>4 DEF PurgeShort, catalog, processes, history
<1>5. CASE OperatorStep
  <2>1. UNCHANGED <<today, job, missedLast, detached, marks, record>>
    BY <1>5, OperatorFrame
  <2>2. CASE UNCHANGED <<attached, recreated, purgedBefore>>
    BY <1>0, <2>1, <2>2
  <2>3. CASE CreateFromFloor /\ purgedBefore' = purgedBefore
    BY <1>0, <2>1, <2>3, FromFloorEffect
  <2>4. ASSUME NEW d \in Day, EstablishFloor(d) PROVE OthersStep
    BY <2>2, <2>3, <2>4 DEF EstablishFloor
  <2>5. CASE ValidateAndCreate
    BY <2>2, <2>3, <2>5 DEF ValidateAndCreate, DropFloor
  <2>6. CASE PurgeDefault
    <3>1. purgedBefore' \in {purgedBefore, Max({purgedBefore, today - RetentionDays})}
      BY <2>6 DEF PurgeDefault
    <3>2. /\ purgedBefore <= Max({purgedBefore, today - RetentionDays})
          /\ Max({purgedBefore, today - RetentionDays}) \in Nat
      BY <1>0, Days, MaxOfTwo, MaxNat
    <3>3. UNCHANGED <<attached, recreated>>
      BY <2>6 DEF PurgeDefault, catalog
    <3>. QED
      BY <1>0, <2>1, <3>1, <3>2, <3>3
  <2>7. CASE SwapDefault \/ DropOldDefault \/ OperatorValidates \/ DeleteExpiredRows \/ CommandStops
    BY <2>2, <2>7 DEF SwapDefault, DropOldDefault, OperatorValidates, DeleteExpiredRows, CommandStops,
                      catalog, history
  <2>. QED
    BY <1>5, <2>4, <2>5, <2>6, <2>7 DEF OperatorStep
<1>. QED
  BY <1>1, <1>2, <1>3, <1>4, <1>5, StepsByActor

\* The job's lists stay true.
LEMMA JobKnowsStep ==
    ASSUME TypeOK, JobKnows, [Next]_vars
    PROVE  JobKnows'
<1>0. /\ today \in Nat /\ purgedBefore \in Nat /\ missedLast \subseteq Nat /\ RetentionDays \in Nat
      /\ job.start \in Nat
  BY Days DEF TypeOK, HistoryTyped, RunningJob, IdleJob
<1>i. IdleJob.pc = "idle" /\ IdleJob.missed = {}
  BY DEF IdleJob
<1>1. CASE ~RetentionStep
  <2>1. OthersStep
    BY <1>1, OthersEffect
  <2>. QED
    BY <1>0, <2>1 DEF OthersStep, JobKnows, Cutoff
<1>2. CASE StartJob
  <2>1. job'.pc = "floor" /\ job'.start = today /\ job'.missed = {} /\ job'.todo = {}
    BY <1>2 DEF StartJob, IdleJob
  <2>2. UNCHANGED <<today, missedLast>>
    BY <1>2 DEF StartJob, history
  <2>. QED
    BY <1>0, <2>1, <2>2 DEF JobKnows
<1>3. CASE ForwardFloor
  <2>1. UNCHANGED <<today, missedLast, detached>> /\ job.pc = "floor" /\ job \in RunningJob
    BY <1>3, JobFacts DEF ForwardFloor, history
  <2>2. /\ job'.pc = "create" /\ job'.start = job.start /\ job'.missed = job.missed
        /\ job'.todo \in {job.todo, ForwardWindow(floor.day), ForwardWindow(job.start)}
    <3>1. \/ job' = [job EXCEPT !.pc = "create", !.todo = ForwardWindow(floor.day)]
          \/ job' = [job EXCEPT !.pc = "create", !.todo = ForwardWindow(job.start)]
          \/ job' = [job EXCEPT !.pc = "create"]
          \/ job' = [job EXCEPT !.pc = "create", !.forward = 1]
      BY <1>3 DEF ForwardFloor
    <3>. QED
      BY <2>1, <3>1 DEF RunningJob
  <2>3. \A f : \A d \in ForwardWindow(f) : job.start <= d /\ d \notin detached
    BY <1>0, Days DEF ForwardWindow, MissingDays
  <2>. QED
    BY <2>1, <2>2, <2>3 DEF JobKnows
<1>4. CASE CreateForwardDay
  <2>1. UNCHANGED <<today, missedLast, detached>> /\ job.pc = "create" /\ job \in RunningJob
    BY <1>4, JobFacts DEF CreateForwardDay, history
  <2>2. /\ job'.pc = "create" /\ job'.start = job.start /\ job'.missed = job.missed
        /\ job'.todo \subseteq job.todo
    <3>1. \/ job' = [job EXCEPT !.todo = @ \ {Min(job.todo)}, !.forward = 0]
          \/ job' = [job EXCEPT !.todo = @ \ {Min(job.todo)}, !.forward = Capped(@)]
      BY <1>4 DEF CreateForwardDay
    <3>. QED
      BY <2>1, <3>1 DEF RunningJob
  <2>. QED
    BY <2>1, <2>2 DEF JobKnows
<1>5. CASE DeleteExpiredPointers
  <2>1. UNCHANGED <<today, missedLast, detached, attached>> /\ job.pc = "create" /\ job \in RunningJob
    BY <1>5, JobFacts DEF DeleteExpiredPointers, catalog
  <2>2. /\ job'.pc = "expired" /\ job'.start = job.start /\ job'.missed = job.missed
        /\ job'.todo = ExpiredDays(detached) /\ job'.expired = ExpiredDays(attached)
    BY <1>5, <2>1 DEF DeleteExpiredPointers, RunningJob
  <2>3. \A S \in SUBSET Day : \A d \in ExpiredDays(S) : d \in S /\ d < Cutoff
    BY <1>0, Days DEF ExpiredDays, Cutoff
  <2>4. Cutoff <= purgedBefore' /\ Cutoff' = Cutoff
    <3>1. Cutoff \in Int
      BY <1>0 DEF Cutoff
    <3>. QED
      BY <1>0, <1>5, <2>2, <3>1, MaxOfTwo DEF DeleteExpiredPointers, Cutoff
  <2>5. attached \subseteq Day /\ detached \subseteq Day
    BY DEF TypeOK, CatalogTyped
  <2>. QED
    BY <2>1, <2>2, <2>3, <2>4, <2>5 DEF JobKnows
<1>6. CASE DropLeftover \/ DropDetached
  <2>1. /\ UNCHANGED <<today, attached, record, purgedBefore, missedLast, recreated>>
        /\ job.pc \in {"expired", "drop"}
    BY <1>6, DropEffect
  <2>2. PICK d \in job.todo : DropsOne(d)
    BY <1>6, DropEffect
  <2>3. Cutoff' = Cutoff /\ Cutoff \in Int /\ Cutoff <= job.start
    BY <1>0, <2>2, Days DEF Cutoff, DropsOne
  <2>4. d < job.start
    <3>1. d \in Nat /\ d < Cutoff
      BY <1>6, <2>1, <2>2, DropEffect, Days DEF JobKnows, RunningJob
    <3>. QED
      BY <1>0, <2>3, <3>1
  <2>5. job'.missed \subseteq job.missed \cup {d}
    BY <2>2 DEF DropsOne, SameMissed, MissesDay
  <2>6. job'.pc = "expired" /\ job'.start = job.start /\ job'.todo \subseteq detached'
        /\ job'.expired \subseteq attached' /\ job'.todo \cup job'.expired \subseteq job.todo \cup job.expired
    BY <2>1, <2>2 DEF DropsOne, JobKnows
  <2>. QED
    BY <2>1, <2>3, <2>4, <2>5, <2>6 DEF JobKnows
<1>7. CASE DetachExpired
  <2>1. /\ UNCHANGED <<today, record, purgedBefore, missedLast, recreated>>
        /\ job.pc = "expired" /\ job.todo = {}
    BY <1>7, DetachEffect
  <2>2. PICK d \in job.expired : DetachesOne(d)
    BY <1>7, DetachEffect
  <2>3. Cutoff' = Cutoff /\ Cutoff \in Int /\ Cutoff <= job.start
    BY <1>0, <2>2, Days DEF Cutoff, DetachesOne
  <2>4. d < job.start
    <3>1. d \in Nat /\ d < Cutoff
      BY <1>7, <2>1, <2>2, DetachEffect, Days DEF JobKnows, RunningJob
    <3>. QED
      BY <1>0, <2>3, <3>1
  <2>5. job'.missed \subseteq job.missed \cup {d}
    BY <2>2 DEF DetachesOne, SameMissed, MissesDay
  <2>6. job'.pc \in {"expired", "drop"} /\ job'.start = job.start /\ job'.todo \subseteq detached'
        /\ job'.expired \subseteq attached' /\ job'.todo \cup job'.expired \subseteq job.expired
    BY <2>1, <2>2 DEF DetachesOne, JobKnows, detach_partition
  <2>. QED
    BY <2>1, <2>3, <2>4, <2>5, <2>6 DEF JobKnows
<1>8. CASE ValidateKeys
  <2>1. UNCHANGED <<today, missedLast, detached, attached, purgedBefore>> /\ job.pc = "expired" /\ job \in RunningJob
    BY <1>8, JobFacts DEF ValidateKeys, history
  <2>2. /\ job'.pc \in {"sources", "expired"} /\ job'.start = job.start /\ job'.missed = job.missed
        /\ job'.todo = job.todo /\ job'.expired = job.expired
    BY <1>8, <2>1 DEF ValidateKeys, RunningJob
  <2>. QED
    BY <2>1, <2>2 DEF JobKnows, Cutoff
<1>9. CASE PurgeSources
  <2>1. job' = IdleJob /\ today' = today /\ missedLast' \in {missedLast, job.missed} /\ job.pc # "idle"
    BY <1>9 DEF PurgeSources
  <2>2. \A d \in job.missed : d < today
    <3>1. job.missed \subseteq Nat
      BY <2>1, JobFacts, Days DEF RunningJob
    <3>. QED
      BY <1>0, <2>1, <3>1 DEF JobKnows
  <2>3. \A d \in missedLast' : d < today'
    BY <2>1, <2>2 DEF JobKnows
  <2>. QED
    BY <1>i, <2>1, <2>3 DEF JobKnows
<1>10. CASE CrashJob
  BY <1>i, <1>10 DEF CrashJob, JobKnows, history
<1>. QED
  BY <1>1, <1>2, <1>3, <1>4, <1>5, <1>6, <1>7, <1>8, <1>9, <1>10 DEF RetentionStep, JobStep

\* A missed day stays marked or handed over while its table is there, and a day
\* missed by two recorded runs in a row is overdue.
LEMMA MarksStep ==
    ASSUME TypeOK, CatalogKnows, JobKnows, MarksKnow, MissedTwiceIsOverdue, [Next]_vars
    PROVE  MarksKnow' /\ MissedTwiceIsOverdue'
<1>. USE DEF MarksKnow, MissedTwiceIsOverdue
<1>i. IdleJob.pc = "idle" /\ IdleJob.missed = {}
  BY DEF IdleJob
<1>0. /\ today \in Nat /\ missedLast \subseteq Nat /\ job.start \in Nat /\ job.missed \subseteq Nat
  <2>1. today \in Nat /\ missedLast \subseteq Nat
    BY Days DEF TypeOK, HistoryTyped
  <2>2. CASE job.pc = "idle"
    BY <2>1, <2>2, JobFacts DEF IdleJob
  <2>3. CASE job.pc # "idle"
    BY <2>1, <2>3, JobFacts, Days DEF RunningJob
  <2>. QED
    BY <2>2, <2>3
<1>1. CASE ~RetentionStep
  <2>1. OthersStep
    BY <1>1, OthersEffect
  <2>2. \A d \in missedLast \cup job.missed : d < today
    BY <1>0, JobFacts, <1>i DEF JobKnows
  <2>. QED
    BY <2>1, <2>2 DEF OthersStep
<1>2. CASE job'.missed = {} /\ UNCHANGED <<missedLast, recreated, attached, detached, marks, record>>
  BY <1>2
<1>3. CASE StartJob
  BY <1>2, <1>3 DEF StartJob, IdleJob, catalog, history
<1>4. CASE CrashJob
  BY <1>2, <1>i, <1>4 DEF CrashJob, catalog, history
<1>5. CASE ForwardFloor
  <2>1. job'.missed = job.missed /\ job.missed = {}
    BY <1>5, JobFacts DEF ForwardFloor, JobKnows, RunningJob
  <2>. QED
    BY <1>2, <1>5, <2>1 DEF ForwardFloor, history
<1>6. CASE CreateForwardDay
  <2>1. job'.missed = job.missed /\ job.missed = {}
    BY <1>6, JobFacts DEF CreateForwardDay, JobKnows, RunningJob
  <2>2. job.todo \subseteq Day /\ job.todo # {}
    BY <1>6, JobFacts DEF CreateForwardDay, RunningJob
  <2>3. Min(job.todo) \in job.todo /\ Min(job.todo) \in Nat
    BY <2>2, FirstDay, Days
  <2>4. Min(job.todo) \notin missedLast
    BY <1>0, <1>6, <2>3 DEF CreateForwardDay, JobKnows
  <2>. QED
    BY <1>6, <2>1, <2>4 DEF CreateForwardDay, history
<1>7. CASE DeleteExpiredPointers
  <2>1. job'.missed = job.missed /\ job.missed = {}
    BY <1>7, JobFacts DEF DeleteExpiredPointers, JobKnows, RunningJob
  <2>. QED
    BY <1>2, <1>7, <2>1 DEF DeleteExpiredPointers, catalog
<1>8. CASE DropLeftover \/ DropDetached
  <2>1. /\ UNCHANGED <<attached, record, missedLast, recreated>>
        /\ job.pc \in {"expired", "drop"}
    BY <1>8, DropEffect
  <2>2. PICK d \in job.todo : DropsOne(d)
    BY <1>8, DropEffect
  <2>3. d \in detached /\ d \notin attached
    BY <2>1, <2>2 DEF JobKnows, CatalogKnows
  <2>4. CASE detached' = detached /\ marks' = marks /\ SameMissed
    BY <2>1, <2>4 DEF SameMissed
  <2>5. CASE detached' = detached \ {d} /\ marks' = marks \ {d} /\ SameMissed
    BY <2>1, <2>3, <2>5 DEF SameMissed
  <2>6. CASE detached' = detached /\ MissesDay(d)
    BY <2>1, <2>3, <2>6 DEF MissesDay
  <2>. QED
    BY <2>2, <2>4, <2>5, <2>6 DEF DropsOne
<1>9. CASE DetachExpired
  <2>1. /\ UNCHANGED <<record, missedLast, recreated>> /\ job.pc = "expired"
    BY <1>9, DetachEffect
  <2>2. PICK d \in job.expired : DetachesOne(d)
    BY <1>9, DetachEffect
  <2>3. d \in attached
    BY <2>1, <2>2 DEF JobKnows
  <2>4. CASE SameMissed /\ UNCHANGED <<attached, detached, marks>>
    BY <2>1, <2>4 DEF SameMissed
  <2>5. CASE SameMissed /\ detach_partition(d) /\ marks' = marks
    BY <2>1, <2>3, <2>5 DEF SameMissed, detach_partition
  <2>6. CASE MissesDay(d) /\ UNCHANGED <<attached, detached>>
    BY <2>1, <2>3, <2>6 DEF MissesDay
  <2>. QED
    BY <2>2, <2>4, <2>5, <2>6 DEF DetachesOne
<1>10. CASE ValidateKeys
  <2>1. UNCHANGED <<missedLast, recreated, detached, attached, marks, record>>
    BY <1>10 DEF ValidateKeys, history
  <2>2. SameMissed
    BY <1>10, JobFacts DEF ValidateKeys, RunningJob, SameMissed
  <2>. QED
    BY <2>1, <2>2 DEF SameMissed
<1>11. CASE PurgeSources
  <2>1. job' = IdleJob /\ UNCHANGED <<recreated, attached, detached, marks>>
    BY <1>11 DEF PurgeSources, catalog
  <2>2. \/ UNCHANGED <<record, missedLast>>
        \/ record' = job.unmarked /\ missedLast' = job.missed
    BY <1>11 DEF PurgeSources
  <2>. QED
    BY <1>i, <2>1, <2>2
<1>. QED
  BY <1>1, <1>3, <1>4, <1>5, <1>6, <1>7, <1>8, <1>9, <1>10, <1>11 DEF RetentionStep, JobStep

-----------------------------------------------------------------------------
(***************************************************************************)
(* The projection.                                                         *)
(***************************************************************************)

\* A pointer names a stored fact of its point, or one that retention has passed.
PointerFits(p) ==
    current[p] # None =>
        PointOf[current[p].r] = p /\ (current[p] \in facts \/ current[p].at < purgedBefore)

\* A fact inside the window is named by the pointer of its point, or an older one.
FactShown(f) ==
    f.at >= purgedBefore /\ ~ExpiredShort(f.r) =>
        current[PointOf[f.r]] # None /\ ~Newer(f, current[PointOf[f.r]])

\* revision_order is a strict order.
LEMMA NewerIsOrder ==
    ASSUME NEW f \in Fact, NEW g \in Fact, NEW h \in Fact
    PROVE  ~Newer(f, f) /\ (Newer(f, g) /\ Newer(g, h) => Newer(f, h))
<1>1. \A x \in {f, g, h} : x.at \in Nat /\ x.r \in Nat
  BY FactAssumption, Days DEF Fact
<1>. QED
  BY <1>1 DEF Newer

\* What the projection invariants need of the types.
LEMMA FactTypes ==
    ASSUME TypeOK
    PROVE  /\ \A f \in facts : f \in Fact
           /\ \A f \in Fact : f.at \in Nat /\ f.r \in Responses /\ PointOf[f.r] \in Points /\ f # None
           /\ \A p \in Points : current[p] # None => current[p] \in Fact
           /\ today \in Nat /\ purgedBefore \in Nat /\ opCutoff \in Int
           /\ \A r \in Responses : ShortDay[PointOf[r]] \in Nat
  BY FactAssumption, Days DEF TypeOK, TablesTyped, HistoryTyped, OperatorTyped, Fact

LEMMA FloorNat == TypeOK => floor.day \in Nat
<1>1. TypeOK => floor.day \in Day \cup {0}
  BY DEF TypeOK, CatalogTyped
<1>2. Day \cup {0} \subseteq Nat
  BY Days
<1>. QED
  BY <1>1, <1>2

ProjectionKnows == PointersKnow /\ PointersNameFacts /\ CurrentIsNewest

LEMMA ProjectionParts ==
    ASSUME TypeOK
    PROVE  ProjectionKnows <=>
             /\ \A p \in Points : PointerFits(p)
             /\ \A f \in facts : FactShown(f)
             /\ fkValid => \A p \in Points : current[p] # None => current[p] \in facts
             /\ op = "swap" => floor.valid /\ floor.day <= purgedBefore
             /\ op = "rows" => opCutoff <= purgedBefore
  BY DEF ProjectionKnows, PointersKnow, PointersNameFacts, CurrentIsNewest, PointerFits, FactShown, Dangling

\* A step that deletes pointers below the cutoff, or at rows that are not there,
\* or at expired short forecasts, and rows no remaining pointer inside the
\* window names.
Trims ==
    /\ facts' \subseteq facts /\ today <= today' /\ today' \in Nat
    /\ purgedBefore <= purgedBefore' /\ purgedBefore' \in Nat
    /\ \A p \in Points : current'[p] = current[p] \/ current'[p] = None
    /\ \A p \in Points : current[p] # None /\ current'[p] = None =>
          \/ current[p].at < purgedBefore' \/ current[p] \notin facts \/ ExpiredShort(current[p].r)
    /\ \A p \in Points : current'[p] # None /\ current'[p] \in facts =>
          current'[p] \in facts' \/ current'[p].at < purgedBefore'

LEMMA TrimKeeps ==
    ASSUME TypeOK, Trims, \A p \in Points : PointerFits(p), \A f \in facts : FactShown(f)
    PROVE  /\ \A p \in Points : PointerFits(p)'
           /\ \A f \in facts' : FactShown(f)'
<1>0. /\ \A f \in facts : f \in Fact
      /\ \A f \in Fact : f.at \in Nat /\ f.r \in Responses /\ PointOf[f.r] \in Points /\ f # None
      /\ \A p \in Points : current[p] # None => current[p] \in Fact
      /\ today \in Nat /\ purgedBefore \in Nat
      /\ \A r \in Responses : ShortDay[PointOf[r]] \in Nat
  BY FactTypes
<1>1. ASSUME NEW p \in Points PROVE PointerFits(p)'
  BY <1>0 DEF PointerFits, Trims
<1>2. ASSUME NEW f \in facts' PROVE FactShown(f)'
  <2>. SUFFICES ASSUME f.at >= purgedBefore', ~ExpiredShort(f.r)'
                PROVE  current'[PointOf[f.r]] # None /\ ~Newer(f, current'[PointOf[f.r]])
    BY DEF FactShown, Newer
  <2>. PICK p : p = PointOf[f.r]
    OBVIOUS
  <2>1. f \in facts /\ f \in Fact /\ p \in Points /\ f.at \in Nat
    BY <1>0 DEF Trims
  <2>2. f.at >= purgedBefore /\ ~ExpiredShort(f.r)
    <3>1. ExpiredShort(f.r) => ExpiredShort(f.r)'
      BY <1>0, <2>1 DEF ExpiredShort, Trims
    <3>. QED
      BY <1>0, <2>1, <3>1 DEF Trims
  <2>3. current[p] # None /\ ~Newer(f, current[p]) /\ current[p] \in Fact /\ PointOf[current[p].r] = p
    BY <1>0, <2>1, <2>2 DEF FactShown, PointerFits
  <2>4. current[p].at \in Nat /\ f.at <= current[p].at
    BY <1>0, <2>1, <2>3 DEF Newer
  <2>5. ~(current[p].at < purgedBefore')
    BY <2>1, <2>4 DEF Trims
  <2>6. ~ExpiredShort(current[p].r)
    BY <2>2, <2>3 DEF ExpiredShort
  <2>7. current[p] \in facts
    BY <1>0, <2>1, <2>3, <2>4, <2>5 DEF PointerFits, Trims
  <2>8. current'[p] = current[p]
    BY <2>1, <2>3, <2>5, <2>6, <2>7 DEF Trims
  <2>. QED
    BY <2>3, <2>8
<1>. QED
  BY <1>1, <1>2

\* The pointers that expire at a cutoff lie below it.
LEMMA ExpiredPointersGo ==
    ASSUME NEW c, current' = PointersDeleted(ExpiredPointers(c))
    PROVE  /\ \A p \in Points : current'[p] = current[p] \/ current'[p] = None
           /\ \A p \in Points : current[p] # None /\ current'[p] = None => current[p].at < c
  BY DEF PointersDeleted, ExpiredPointers

\* Validating the keys deletes dangling pointers, or finds none.
LEMMA ValidatedEffect ==
    ASSUME Validated
    PROVE  /\ \A p \in Points : current'[p] = current[p] \/ current'[p] = None
           /\ \A p \in Points : current[p] # None /\ current'[p] = None => current[p] \notin facts
           /\ fkValid' = fkValid \/ (current' = current /\ Dangling = {})
  BY DEF Validated, PointersDeleted, Dangling

\* Every step but the ingest's trims the projection.
LEMMA TrimStep ==
    ASSUME TypeOK, CatalogKnows, JobKnows, ProjectionKnows, [Next]_vars,
           ~\E w \in Writers : IngestStep(w)
    PROVE  Trims
<1>0. /\ today \in Nat /\ purgedBefore \in Nat /\ opCutoff \in Int
      /\ \A f \in facts : f \in Fact
      /\ \A f \in Fact : f.at \in Nat
      /\ \A p \in Points : current[p] # None => current[p] \in Fact
  BY FactTypes
<1>1. CASE /\ UNCHANGED <<facts, current, purgedBefore>>
           /\ today <= today' /\ today' \in Nat
  BY <1>0, <1>1 DEF Trims
<1>2. CASE Tick
  BY <1>0, <1>1, <1>2 DEF Tick, tables, history
<1>3. CASE UNCHANGED vars
  BY <1>0, <1>1, <1>3 DEF vars, tables, history
<1>4. CASE StartJob \/ ForwardFloor \/ CreateForwardDay \/ DropLeftover \/ DropDetached \/ PurgeSources
             \/ CrashJob
  BY <1>0, <1>1, <1>4 DEF StartJob, ForwardFloor, CreateForwardDay, DropLeftover, DropDetached,
                          PurgeSources, CrashJob, tables, history
<1>5. CASE DeleteExpiredPointers
  <2>1. Cutoff \in Int
    BY <1>5, JobFacts, Days DEF DeleteExpiredPointers, RunningJob, Cutoff
  <2>2. /\ purgedBefore' \in Nat /\ purgedBefore <= purgedBefore' /\ Cutoff <= purgedBefore'
    BY <1>0, <1>5, <2>1, MaxOfTwo, MaxNat DEF DeleteExpiredPointers
  <2>3. UNCHANGED <<today, facts>> /\ current' = PointersDeleted(ExpiredPointers(Cutoff))
    BY <1>5 DEF DeleteExpiredPointers
  <2>4. /\ \A p \in Points : current'[p] = current[p] \/ current'[p] = None
        /\ \A p \in Points : current[p] # None /\ current'[p] = None => current[p].at < Cutoff
    BY <2>3 DEF PointersDeleted, ExpiredPointers
  <2>5. \A p \in Points : current[p] # None /\ current'[p] = None => current[p].at < purgedBefore'
    BY <1>0, <2>1, <2>2, <2>4
  <2>. QED
    BY <1>0, <2>2, <2>3, <2>4, <2>5 DEF Trims
<1>6. CASE DetachExpired
  <2>1. UNCHANGED <<today, current, purgedBefore>> /\ job.pc = "expired"
    BY <1>6, DetachEffect
  <2>2. PICK d \in job.expired : DetachesOne(d)
    BY <1>6, DetachEffect
  <2>3. d < purgedBefore
    <3>1. d < Cutoff /\ Cutoff <= purgedBefore
      BY <2>1, <2>2 DEF JobKnows
    <3>2. d \in Nat /\ Cutoff \in Int
      <4>1. job \in RunningJob
        BY <1>6, DetachEffect
      <4>2. job.start \in Nat /\ job.expired \subseteq Nat
        BY <4>1, Days DEF RunningJob
      <4>. QED
        BY <2>2, <4>2, Days DEF Cutoff
    <3>. QED
      BY <1>0, <3>1, <3>2
  <2>4. facts' = facts \/ facts' = facts \ RowsOf(facts, d)
    BY <2>2 DEF DetachesOne, detach_partition
  <2>. QED
    BY <1>0, <2>1, <2>3, <2>4 DEF Trims, RowsOf
<1>7. CASE ValidateKeys \/ OperatorValidates
  <2>1. UNCHANGED <<today, facts, purgedBefore>>
    BY <1>7 DEF ValidateKeys, OperatorValidates, history
  <2>2. Validated \/ current' = current
    BY <1>7 DEF ValidateKeys, OperatorValidates
  <2>. QED
    BY <1>0, <1>1, <2>1, <2>2, ValidatedEffect DEF Trims
<1>8. ASSUME NEW B \in SUBSET facts, PurgeShort(B) PROVE Trims
  <2>1. /\ UNCHANGED <<today, purgedBefore>> /\ facts' = facts \ B
        /\ \A f \in B : ExpiredShort(f.r)
        /\ current' = PointersDeleted({p \in Points : current[p] \in B})
    BY <1>8 DEF PurgeShort, history
  <2>2. \A p \in Points : current'[p] = IF current[p] \in B THEN None ELSE current[p]
    BY <2>1 DEF PointersDeleted
  <2>. QED
    BY <1>0, <2>1, <2>2 DEF Trims
<1>9. CASE PurgeDefault
  <2>. DEFINE c == today - RetentionDays
  <2>1. c \in Int
    BY <1>0, Days
  <2>2. UNCHANGED <<today, facts>>
    BY <1>9 DEF PurgeDefault
  <2>3. CASE UNCHANGED <<current, purgedBefore>>
    BY <1>0, <1>1, <2>2, <2>3
  <2>4. CASE /\ current' = PointersDeleted(ExpiredPointers(c))
             /\ purgedBefore' = Max({purgedBefore, c})
    <3>1. /\ purgedBefore' \in Nat /\ purgedBefore <= purgedBefore' /\ c <= purgedBefore'
      BY <1>0, <2>1, <2>4, MaxOfTwo, MaxNat
    <3>2. /\ \A p \in Points : current'[p] = current[p] \/ current'[p] = None
          /\ \A p \in Points : current[p] # None /\ current'[p] = None => current[p].at < c
      BY <2>4 DEF PointersDeleted, ExpiredPointers
    <3>. HIDE DEF c
    <3>3. \A p \in Points : current[p] # None /\ current'[p] = None => current[p].at < purgedBefore'
      BY <1>0, <2>1, <3>1, <3>2
    <3>. QED
      BY <1>0, <2>2, <3>1, <3>2, <3>3 DEF Trims
  <2>. QED
    BY <1>9, <2>3, <2>4 DEF PurgeDefault
<1>10. CASE SwapDefault
  <2>1. UNCHANGED <<today, current, purgedBefore>> /\ facts' = facts \ DefaultRows
    BY <1>10 DEF SwapDefault, history
  <2>2. floor.valid /\ floor.day <= purgedBefore
    BY <1>10 DEF SwapDefault, ProjectionKnows, PointersKnow
  <2>3. floor.day \in Nat
    BY FloorNat
  <2>4. \A f \in DefaultRows : f.at < purgedBefore
    BY <1>0, <2>2, <2>3 DEF DefaultRows, CatalogKnows
  <2>. QED
    BY <1>0, <2>1, <2>4 DEF Trims
<1>11. CASE DeleteExpiredRows
  <2>1. UNCHANGED <<today, purgedBefore>> /\ opCutoff <= purgedBefore
    BY <1>11 DEF DeleteExpiredRows, history, ProjectionKnows, PointersKnow
  <2>2. CASE current' = PointersDeleted(ExpiredPointers(opCutoff)) /\ facts' = facts
    <3>1. /\ \A p \in Points : current'[p] = current[p] \/ current'[p] = None
          /\ \A p \in Points : current[p] # None /\ current'[p] = None => current[p].at < opCutoff
      BY <2>2 DEF PointersDeleted, ExpiredPointers
    <3>2. \A p \in Points : current[p] # None /\ current'[p] = None => current[p].at < purgedBefore'
      BY <1>0, <2>1, <3>1
    <3>. QED
      BY <1>0, <2>1, <2>2, <3>1, <3>2 DEF Trims
  <2>3. CASE /\ \A p \in Points : current[p] \notin ExpiredRows(opCutoff)
             /\ facts' = facts \ ExpiredRows(opCutoff) /\ current' = current
    BY <1>0, <2>1, <2>3 DEF Trims
  <2>. QED
    BY <1>11, <2>2, <2>3 DEF DeleteExpiredRows
<1>12. ASSUME NEW d \in Day, EstablishFloor(d) PROVE Trims
  BY <1>0, <1>1, <1>12 DEF EstablishFloor, tables
<1>13. CASE ValidateAndCreate \/ DropOldDefault \/ CommandStops
  BY <1>0, <1>1, <1>13 DEF ValidateAndCreate, DropOldDefault, CommandStops, tables, history
<1>. QED
  BY <1>2, <1>3, <1>4, <1>5, <1>6, <1>7, <1>8, <1>9, <1>10, <1>11, <1>12, <1>13, StepsByActor
  DEF RetentionStep, JobStep, OperatorStep

\* An ingest that stores a fact keeps the projection complete and current.
LEMMA StoreKeeps ==
    ASSUME TypeOK, NEW w \in Writers, Stores(w), UNCHANGED <<today, purgedBefore>>,
           \A p \in Points : PointerFits(p), \A f \in facts : FactShown(f)
    PROVE  /\ \A p \in Points : PointerFits(p)'
           /\ \A f \in facts' : FactShown(f)'
           /\ \A p \in Points : current'[p] = current[p] \/ current'[p] \in facts'
<1>1. PICK g \in Fact : g = NewFact(w)
  BY DEF Stores
<1>2. facts' = facts \cup {g} /\ current' = Projected(g)
  BY <1>1 DEF Stores
<1>3. PICK q \in Points : q = PointOf[g.r]
  BY ProjectedEffect
<1>4. /\ \A p \in Points : p # q => current'[p] = current[p]
      /\ current'[q] = IF current[q] = None \/ Newer(g, current[q]) THEN g ELSE current[q]
  BY <1>2, <1>3, ProjectedEffect
<1>5. /\ \A f \in facts : f \in Fact
      /\ \A f \in Fact : f.at \in Nat /\ f.r \in Responses /\ PointOf[f.r] \in Points /\ f # None
      /\ \A p \in Points : current[p] # None => current[p] \in Fact
  BY FactTypes
<1>6. ASSUME NEW p \in Points PROVE PointerFits(p)'
  BY <1>2, <1>3, <1>4, <1>6 DEF PointerFits
<1>7. ASSUME NEW f \in facts' PROVE FactShown(f)'
  <2>. SUFFICES ASSUME f.at >= purgedBefore, ~ExpiredShort(f.r)
                PROVE  current'[PointOf[f.r]] # None /\ ~Newer(f, current'[PointOf[f.r]])
    BY DEF FactShown, Newer, ExpiredShort
  <2>1. CASE f = g
    <3>1. ~Newer(g, g) /\ g # None
      BY <1>5, NewerIsOrder
    <3>. QED
      BY <1>3, <1>4, <2>1, <3>1
  <2>2. CASE f \in facts
    <3>1. current[PointOf[f.r]] # None /\ ~Newer(f, current[PointOf[f.r]])
      BY <2>2 DEF FactShown
    <3>2. CASE PointOf[f.r] # q
      BY <1>4, <1>5, <2>2, <3>1, <3>2
    <3>3. CASE PointOf[f.r] = q
      <4>1. f \in Fact /\ current[q] \in Fact /\ g # None
        BY <1>5, <2>2, <3>1, <3>3
      <4>2. Newer(g, current[q]) => ~Newer(f, g)
        BY <3>1, <3>3, <4>1, NewerIsOrder
      <4>. QED
        BY <1>4, <3>1, <3>3, <4>1, <4>2
    <3>. QED
      BY <3>2, <3>3
  <2>. QED
    BY <1>2, <2>1, <2>2
<1>. QED
  BY <1>2, <1>4, <1>6, <1>7

\* The foreign key: validated only without dangling pointers, dropped by every
\* detach, and kept by every other deletion.
KeysHold == fkValid => \A p \in Points : current[p] # None => current[p] \in facts

LEMMA KeysStep ==
    ASSUME TypeOK, CatalogKnows, JobKnows, ProjectionKnows, [Next]_vars,
           ~\E w \in Writers : IngestStep(w)
    PROVE  KeysHold'
<1>0. KeysHold
  BY ProjectionParts DEF KeysHold
<1>. USE DEF KeysHold
<1>1. CASE UNCHANGED <<facts, current, fkValid>>
  BY <1>0, <1>1
<1>2. CASE Tick \/ UNCHANGED vars
  BY <1>1, <1>2 DEF Tick, vars, tables, catalog
<1>3. CASE StartJob \/ ForwardFloor \/ CreateForwardDay \/ DropLeftover \/ DropDetached \/ PurgeSources
             \/ CrashJob
  BY <1>1, <1>3 DEF StartJob, ForwardFloor, CreateForwardDay, DropLeftover, DropDetached,
                    PurgeSources, CrashJob, tables, catalog
<1>4. CASE /\ UNCHANGED <<facts, fkValid>>
           /\ \A p \in Points : current'[p] = current[p] \/ current'[p] = None
  BY <1>0, <1>4
<1>5. CASE DeleteExpiredPointers \/ PurgeDefault
  <2>1. UNCHANGED <<facts, fkValid>>
    BY <1>5 DEF DeleteExpiredPointers, PurgeDefault, catalog
  <2>2. Trims
    BY TrimStep
  <2>. QED
    BY <1>4, <2>1, <2>2 DEF Trims
<1>6. CASE DetachExpired
  <2>1. current' = current
    BY <1>6, DetachEffect
  <2>2. PICK d \in job.expired : DetachesOne(d)
    BY <1>6, DetachEffect
  <2>3. UNCHANGED <<facts, fkValid>> \/ fkValid' = FALSE
    BY <2>2 DEF DetachesOne, detach_partition, KeysNotValid
  <2>. QED
    BY <1>0, <2>1, <2>3
<1>7. CASE ValidateKeys \/ OperatorValidates
  <2>1. facts' = facts
    BY <1>7 DEF ValidateKeys, OperatorValidates
  <2>2. Validated \/ UNCHANGED <<current, fkValid>>
    BY <1>7 DEF ValidateKeys, OperatorValidates
  <2>3. CASE Validated
    BY <1>0, <2>1, <2>3, ValidatedEffect DEF Dangling
  <2>. QED
    BY <1>1, <2>1, <2>2, <2>3
<1>8. ASSUME NEW B \in SUBSET facts, PurgeShort(B) PROVE KeysHold'
  <2>1. /\ fkValid' = fkValid /\ facts' = facts \ B
        /\ current' = PointersDeleted({p \in Points : current[p] \in B})
    BY <1>8 DEF PurgeShort, catalog
  <2>2. \A p \in Points : current'[p] = IF current[p] \in B THEN None ELSE current[p]
    BY <2>1 DEF PointersDeleted
  <2>. QED
    BY <1>0, <2>1, <2>2
<1>9. CASE SwapDefault
  BY <1>9 DEF SwapDefault, KeysNotValid
<1>10. CASE DeleteExpiredRows
  <2>1. fkValid' = fkValid
    BY <1>10 DEF DeleteExpiredRows, catalog
  <2>2. CASE facts' = facts
    BY <1>4, <2>1, <2>2, TrimStep DEF Trims
  <2>3. CASE /\ \A p \in Points : current[p] \notin ExpiredRows(opCutoff)
             /\ facts' = facts \ ExpiredRows(opCutoff) /\ current' = current
    BY <1>0, <2>1, <2>3
  <2>. QED
    BY <1>10, <2>2, <2>3 DEF DeleteExpiredRows
<1>11. ASSUME NEW d \in Day, EstablishFloor(d) PROVE KeysHold'
  BY <1>1, <1>11 DEF EstablishFloor, tables
<1>12. CASE ValidateAndCreate \/ DropOldDefault \/ CommandStops
  BY <1>1, <1>12 DEF ValidateAndCreate, DropOldDefault, CommandStops, tables, catalog
<1>. QED
  BY <1>2, <1>3, <1>5, <1>6, <1>7, <1>8, <1>9, <1>10, <1>11, <1>12, StepsByActor
  DEF RetentionStep, JobStep, OperatorStep

\* The operator's purge stays at or below the latest cutoff.
PurgeBelow ==
    /\ op = "swap" => floor.valid /\ floor.day <= purgedBefore
    /\ op = "rows" => opCutoff <= purgedBefore

LEMMA PurgeBelowStep ==
    ASSUME TypeOK, PurgeBelow, purgedBefore <= purgedBefore', purgedBefore' \in Nat, [Next]_vars
    PROVE  PurgeBelow'
<1>0. floor.day \in Nat /\ purgedBefore \in Nat /\ opCutoff \in Int
  BY FloorNat, FactTypes
<1>. USE DEF PurgeBelow
<1>1. CASE UNCHANGED <<op, opCutoff, floor>>
  BY <1>0, <1>1
<1>2. CASE op' \notin {"swap", "rows"}
  BY <1>2
<1>3. CASE Tick \/ UNCHANGED vars
  BY <1>1, <1>3 DEF Tick, vars, catalog, processes, operator
<1>4. CASE \E w \in Writers : IngestStep(w)
  BY <1>1, <1>4, IngestFrame
<1>5. CASE \E B \in SUBSET facts : PurgeShort(B)
  BY <1>1, <1>5 DEF PurgeShort, catalog, processes, operator
<1>6. CASE RetentionStep /\ ~ForwardFloor
  <2>1. UNCHANGED <<op, opCutoff>>
    BY <1>6, RetentionFrame
  <2>2. floor' = floor
    BY <1>6 DEF RetentionStep, JobStep, StartJob, CreateForwardDay, DeleteExpiredPointers, DropLeftover,
                DetachExpired, DropDetached, ValidateKeys, PurgeSources, CrashJob, catalog
  <2>. QED
    BY <1>1, <2>1, <2>2
<1>7. CASE ForwardFloor
  BY <1>2, <1>7 DEF ForwardFloor, operator
<1>8. ASSUME NEW d \in Day, EstablishFloor(d) PROVE PurgeBelow'
  <2>1. op = "idle"
    BY <1>8 DEF EstablishFloor, BeginCommand
  <2>2. op' = "floor" \/ op' = op
    BY <1>8 DEF EstablishFloor
  <2>. QED
    BY <1>2, <2>1, <2>2
<1>9. CASE PurgeDefault
  <2>1. /\ floor' = floor
        /\ \/ op' = "dropold"
           \/ /\ floor.valid /\ opCutoff' = today - RetentionDays
              /\ purgedBefore' = Max({purgedBefore, today - RetentionDays})
              /\ op' = "swap" => floor.day <= today - RetentionDays
    BY <1>9 DEF PurgeDefault, catalog
  <2>2. today - RetentionDays \in Int
    BY Days DEF TypeOK
  <2>3. today - RetentionDays <= Max({purgedBefore, today - RetentionDays})
    BY <1>0, <2>2, MaxOfTwo
  <2>. QED
    BY <1>0, <1>2, <2>1, <2>2, <2>3
<1>10. CASE SwapDefault \/ DropOldDefault \/ ValidateAndCreate \/ CommandStops
  BY <1>2, <1>10 DEF SwapDefault, DropOldDefault, ValidateAndCreate, CommandStops
<1>11. CASE OperatorValidates \/ DeleteExpiredRows
  <2>1. UNCHANGED <<opCutoff, floor>> /\ op' \in {op, "idle"}
    BY <1>11 DEF OperatorValidates, DeleteExpiredRows, catalog
  <2>. QED
    BY <1>1, <1>2, <2>1
<1>. QED
  BY <1>3, <1>4, <1>5, <1>6, <1>7, <1>8, <1>9, <1>10, <1>11, StepsByActor DEF OperatorStep

\* Every step keeps the projection's invariant.
LEMMA ProjectionStep ==
    ASSUME TypeOK, TypeOK', CatalogKnows, JobKnows, ProjectionKnows, [Next]_vars
    PROVE  ProjectionKnows'
<1>1. /\ \A p \in Points : PointerFits(p)
      /\ \A f \in facts : FactShown(f)
      /\ KeysHold /\ PurgeBelow
  BY ProjectionParts DEF KeysHold, PurgeBelow
<1>2. CASE ~\E w \in Writers : IngestStep(w)
  <2>1. Trims
    BY <1>2, TrimStep
  <2>2. /\ \A p \in Points : PointerFits(p)'
        /\ \A f \in facts' : FactShown(f)'
    BY <1>1, <2>1, TrimKeeps
  <2>3. KeysHold' /\ PurgeBelow'
    BY <1>1, <1>2, <2>1, KeysStep, PurgeBelowStep DEF Trims
  <2>. QED
    BY <2>2, <2>3 DEF ProjectionKnows, PointersKnow, PointersNameFacts, CurrentIsNewest, PointerFits,
                      FactShown, Dangling, KeysHold, PurgeBelow
<1>3. ASSUME NEW w \in Writers, IngestStep(w) PROVE ProjectionKnows'
  <2>1. UNCHANGED <<today, purgedBefore, fkValid>>
    BY <1>3, IngestFrame
  <2>2. PurgeBelow'
    BY <1>1, <2>1, PurgeBelowStep, FactTypes
  <2>3. CASE UNCHANGED <<facts, current>>
    <3>1. (\A p \in Points : PointerFits(p)') /\ (\A f \in facts' : FactShown(f)') /\ KeysHold'
      BY <1>1, <2>1, <2>3 DEF PointerFits, FactShown, KeysHold, Newer, ExpiredShort
    <3>. QED
      BY <2>2, <3>1 DEF ProjectionKnows, PointersKnow, PointersNameFacts, CurrentIsNewest, PointerFits,
                        FactShown, Dangling, KeysHold, PurgeBelow
  <2>4. CASE Stores(w)
    <3>1. /\ \A p \in Points : PointerFits(p)'
          /\ \A f \in facts' : FactShown(f)'
          /\ \A p \in Points : current'[p] = current[p] \/ current'[p] \in facts'
      BY <1>1, <2>1, <2>4, StoreKeeps
    <3>2. KeysHold'
      BY <1>1, <2>1, <2>4, <3>1 DEF KeysHold, Stores
    <3>. QED
      BY <2>2, <3>1, <3>2 DEF ProjectionKnows, PointersKnow, PointersNameFacts, CurrentIsNewest,
                              PointerFits, FactShown, Dangling, KeysHold, PurgeBelow
  <2>5. UNCHANGED <<facts, current>> \/ Stores(w)
    <3>1. CASE Publish(w) \/ PublishAlertEvents(w)
      BY <3>1, PublishEffect, AlertEffect
    <3>2. CASE UNCHANGED tables
      BY <3>2 DEF tables
    <3>. QED
      BY <1>3, <3>1, <3>2 DEF IngestStep, Fetch, Resolve, LoseLockRace
  <2>. QED
    BY <2>3, <2>4, <2>5
<1>. QED
  BY <1>2, <1>3

-----------------------------------------------------------------------------
(***************************************************************************)
(* Theorems.                                                               *)
(***************************************************************************)

WindowInv ==
    /\ TypeOK /\ FloorHasDay
    /\ CatalogKnows /\ JobKnows /\ MarksKnow
    /\ MissedTwiceIsOverdue /\ ProjectionKnows

\* The invariant holds at the start.
LEMMA WindowInit == Init => WindowInv
<1>. SUFFICES ASSUME Init PROVE WindowInv
  OBVIOUS
<1>1. TypeOK /\ FloorHasDay
  BY TypeInit
<1>2. CatalogKnows
  BY DEF Init, CatalogKnows, NoFloor
<1>3. JobKnows /\ MarksKnow /\ MissedTwiceIsOverdue
  BY DEF Init, JobKnows, MarksKnow, MissedTwiceIsOverdue, IdleJob
<1>4. ProjectionKnows
  BY DEF Init, ProjectionKnows, PointersKnow, PointersNameFacts, CurrentIsNewest, Dangling
<1>. QED
  BY <1>1, <1>2, <1>3, <1>4 DEF WindowInv

\* It is inductive.
LEMMA WindowSpec == Spec => []WindowInv
<1>1. WindowInv /\ [Next]_vars => WindowInv'
  BY TypeStep, FloorStep, CatalogStep, JobKnowsStep, MarksStep, ProjectionStep DEF WindowInv
<1>. QED
  BY <1>1, WindowInit, PTL DEF Spec

\* Once the projection's foreign key is validated again, every pointer names a
\* stored fact: no interleaving of ingests, deferred detaches, operator commands
\* and repeated validations leaves a validated key with a dangling pointer.
THEOREM ValidatedKeysHold == Spec => []PointersNameFacts
<1>1. WindowInv => PointersNameFacts
  BY DEF WindowInv, ProjectionKnows
<1>. QED
  BY <1>1, WindowSpec, PTL

\* Whatever the order in which late, repeated and re-dated responses commit,
\* every point with a fact inside the window has a pointer, and no stored
\* revision is newer: not even the deletion of pointers at a cutoff while
\* collectors publish hides a fact that is kept.
THEOREM ProjectionIsCurrent == Spec => []CurrentIsNewest
<1>1. WindowInv => CurrentIsNewest
  BY DEF WindowInv, ProjectionKnows
<1>. QED
  BY <1>1, WindowSpec, PTL

\* A day that two recorded retention runs in a row were due to drop and missed is
\* reported overdue, whether its mark could be written or not, and whatever runs
\* died in between.
THEOREM StandstillIsSeen == Spec => []MissedTwiceIsOverdue
<1>1. WindowInv => MissedTwiceIsOverdue
  BY DEF WindowInv
<1>. QED
  BY <1>1, WindowSpec, PTL
=============================================================================
