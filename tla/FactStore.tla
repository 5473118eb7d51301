------------------------------ MODULE FactStore ------------------------------
(***************************************************************************)
(* The append-only fact table weather_values, partitioned by the day a     *)
(* fact became known, its projection weather_current_values and its source *)
(* records: the ingest transaction of repository.py, the nightly retention *)
(* job (purge_expired_history, partitions.py), the short-forecast cleanup  *)
(* and the operator's tools for the DEFAULT partition                      *)
(* (default_partition.py).                                                 *)
(*                                                                         *)
(* Collectors, the job and an operator run concurrently; each is a process *)
(* whose step is one database transaction, except that an ingest reads the *)
(* source row and the partition catalog in one step and writes in another: *)
(* replays take no lock that keeps partition DDL out between the two.      *)
(*                                                                         *)
(* Abstractions.  Time is counted in days, from 1; 0 means absent.  A      *)
(* response is a raw payload under its identity, and yields one fact about *)
(* one logical point; responses are numbers, which order their keys.  A    *)
(* point may be a short forecast, with the day it is about.  Locations,    *)
(* values and payloads are left out.                                       *)
(***************************************************************************)
EXTENDS Integers, FiniteSets, FiniteSetsExt

CONSTANTS
    Writers,        \* collectors that publish
    Responses,      \* SUBSET Nat: raw responses a provider may serve
    Points,         \* logical points (location, dataset, metric, target)
    PointOf,        \* [Responses -> Points]
    ShortDay,       \* [Points -> Nat], day a short forecast is about, 0 for the others
    Events,         \* responses of the alert collector, stored as alert events
    Linked,         \* responses published with a sync run, which then cites them (alerts always)
    None,
    RetentionDays, AheadDays, AlertDays,
    LockAttempts,   \* INGEST_LOCK_ATTEMPTS
    DeferralLimit,  \* PARTITION_DDL_DEFERRAL_LIMIT
    FirstDays,      \* days partitioned by create_schema
    OperatorUses,   \* bound on operator commands
    MaxDay          \* bound on the clock

ASSUME FactAssumption ==
    /\ Responses \subseteq Nat
    /\ Events \subseteq Linked /\ Linked \subseteq Responses
    /\ PointOf \in [Responses -> Points]
    /\ ShortDay \in [Points -> Nat]
    /\ {RetentionDays, AheadDays, AlertDays, LockAttempts, DeferralLimit, MaxDay}
         \subseteq Nat \ {0}
    /\ FirstDays \subseteq 1 .. MaxDay
    /\ OperatorUses \in Nat
    /\ None \notin [r : Responses, at : Nat]

VARIABLES
    today,
    source,     \* [Responses -> Nat]: fetched_at of the source record, 0 without one
    cited,      \* responses a sync run is linked to
    events,     \* alert events: [r, at], at = first_seen_at
    facts,      \* rows of weather_values: [r, at], at = known_at
    current,    \* [Points -> fact or None]: weather_current_values
    attached,   \* days with a dated partition
    floor,      \* [day, valid]: DEFAULT's floor constraint, day 0 without one
    detached,   \* days whose table is detached and not dropped
    limbo,      \* rows of detached tables, the old DEFAULT's included
    fkValid,    \* the projection's foreign key is validated
    marks,      \* days whose table carries the deferral mark
    record,     \* partitions_unmarked of the last recorded retention run
    writer,     \* [Writers -> local state of an ingest]
    job,        \* local state of the retention job
    op,         \* the operator's step; it holds the maintenance lock unless "idle"
    opUses,
    opCutoff,   \* the cutoff of the operator's last purge
    \* History, for the properties only.
    purgedBefore,   \* the latest cutoff pointers were deleted for
    missedLast,     \* days the last recorded run was due to drop and missed
    dropped,        \* days retention has detached
    recreated,      \* days an operator partitioned after they had passed
    refused         \* an ingest that saw the current catalog had its row refused

tables == <<source, cited, events, facts, current>>
catalog == <<attached, floor, detached, limbo, fkValid, marks>>
operator == <<op, opUses, opCutoff>>
processes == <<writer, job, operator>>
history == <<purgedBefore, missedLast, dropped, recreated, refused>>
vars == <<today, tables, catalog, record, processes, history>>

Day == 1 .. MaxDay + AheadDays
Fact == [r : Responses, at : Day]
IdleWriter == [pc |-> "idle", r |-> None, fetched |-> 0, tries |-> 0,
               at |-> 0, fresh |-> FALSE, floor |-> 0, days |-> {}]
ReadyWriter(r, fetched, tries) ==
    [pc |-> "ready", r |-> r, fetched |-> fetched, tries |-> tries,
     at |-> 0, fresh |-> FALSE, floor |-> 0, days |-> {}]
IdleJob == [pc |-> "idle", start |-> 0, todo |-> {}, expired |-> {},
            held |-> FALSE, forward |-> 0, retention |-> 0, tries |-> 0,
            missed |-> {}, overdue |-> {}, unmarked |-> {}]

WriterState ==
    [pc : {"idle"}, r : {None}, fetched : {0}, tries : {0}, at : {0}, fresh : {FALSE},
     floor : {0}, days : {{}}] \cup
    [pc : {"ready"}, r : Responses, fetched : Day, tries : 0 .. LockAttempts - 1, at : {0},
     fresh : {FALSE}, floor : {0}, days : {{}}] \cup
    [pc : {"resolved"}, r : Responses, fetched : Day, tries : 0 .. LockAttempts - 1, at : Day,
     fresh : BOOLEAN, floor : Day \cup {0}, days : SUBSET Day]
RunningJob ==
    [pc : {"floor", "create", "expired", "drop", "sources"}, start : 1 .. MaxDay,
     todo : SUBSET Day, expired : SUBSET Day, held : BOOLEAN, forward : 0 .. DeferralLimit,
     retention : 0 .. DeferralLimit, tries : 0 .. 2, missed : SUBSET Day,
     overdue : SUBSET Day, unmarked : SUBSET Day]
TablesTyped ==
    /\ source \in [Responses -> Day \cup {0}]
    /\ cited \subseteq Responses
    /\ events \subseteq Fact /\ facts \subseteq Fact /\ limbo \subseteq Fact
    /\ current \in [Points -> Fact \cup {None}]
CatalogTyped ==
    /\ attached \subseteq Day /\ detached \subseteq Day /\ marks \subseteq Day
    /\ floor \in [day : Day \cup {0}, valid : BOOLEAN]
    /\ fkValid \in BOOLEAN
    /\ record \subseteq Day
OperatorTyped ==
    /\ op \in {"idle", "floor", "swap", "rows", "dropold", "validate"}
    /\ opUses \in 0 .. OperatorUses /\ opCutoff \in Int
HistoryTyped ==
    /\ purgedBefore \in Nat /\ refused \in BOOLEAN
    /\ missedLast \subseteq Day /\ dropped \subseteq Day /\ recreated \subseteq Day

\* Types of the tables, the catalog and the processes.
TypeOK ==
    /\ today \in 1 .. MaxDay
    /\ TablesTyped /\ CatalogTyped
    /\ writer \in [Writers -> WriterState] /\ job \in RunningJob \cup {IdleJob}
    /\ OperatorTyped /\ HistoryTyped

\* DEFAULT without a floor, as drop_unvalidated_floor leaves it.
NoFloor == [day |-> 0, valid |-> FALSE]

Init ==
    /\ today = 1
    /\ source = [r \in Responses |-> 0] /\ cited = {} /\ events = {}
    /\ facts = {} /\ current = [p \in Points |-> None]
    /\ attached = FirstDays /\ floor = NoFloor
    /\ detached = {} /\ limbo = {} /\ fkValid = TRUE /\ marks = {} /\ record = {}
    /\ writer = [w \in Writers |-> IdleWriter] /\ job = IdleJob
    /\ op = "idle" /\ opUses = 0 /\ opCutoff = 0
    /\ purgedBefore = 0 /\ missedLast = {} /\ dropped = {} /\ recreated = {} /\ refused = FALSE

Tick ==
    /\ today < MaxDay
    /\ today' = today + 1
    /\ UNCHANGED <<tables, catalog, record, processes, history>>

-----------------------------------------------------------------------------
(***************************************************************************)
(* What the ingest computes.                                               *)
(***************************************************************************)

\* retained_short_forecast and expired_short_forecast.
Retained(r) == ShortDay[PointOf[r]] >= today
ExpiredShort(r) == ShortDay[PointOf[r]] \in 1 .. today - 1

\* default_partition_floor: an unvalidated floor counts as absent.
ValidFloor == IF floor.valid THEN floor.day ELSE 0

\* _retention_bounds on a catalog read: 0 when there is no horizon.
Horizon(f, days) ==
    LET lowers == {d \in days : d >= f} IN
    IF f = 0 \/ lowers = {} THEN 0 ELSE Min(lowers)
InExpiredWindow(f, days, d) == f <= d /\ d < Horizon(f, days)

\* routable of _readmit_retained_short_session.
Routable(f, days, d) == f = 0 \/ d < f \/ d \in days

Stored(r) == {d \in Day : [r |-> r, at |-> d] \in facts}

\* _readmit_retained_short_session for one fact; 0 when it raises.
Readmitted(w) ==
    IF w.at \in Stored(w.r) THEN w.at
    ELSE IF ~w.fresh /\ Stored(w.r) # {} THEN Min(Stored(w.r))
    ELSE IF Routable(w.floor, w.days, w.at) THEN w.at
    ELSE IF Routable(w.floor, w.days, today) THEN today
    ELSE 0

RedatedByFetch(w) ==
    IF w.fetched >= Horizon(w.floor, w.days) THEN w.fetched ELSE None

\* _redate_forgotten_replays_session for one stale replay: the earliest row the
\* store still holds, else this fetch, else the fact is dropped.
Redated(w) ==
    LET h == Horizon(w.floor, w.days)
        later == {d \in Stored(w.r) : d >= h}
    IN  IF later # {} THEN Min(later)
        ELSE IF w.fetched >= h THEN w.fetched
        ELSE None

Forgotten(w) ==
    ~w.fresh /\ w.at < Horizon(w.floor, w.days) /\ w.at \notin Stored(w.r)

Clock(w) ==
    IF Retained(w.r) THEN Readmitted(w) ELSE IF Forgotten(w) THEN Redated(w) ELSE w.at

\* The day under which the fact is stored, None when it is past retention on
\* arrival (_insert_value_session) and only its source is kept.
KnownAt(w) ==
    IF \/ ExpiredShort(w.r)
       \/ ~Retained(w.r) /\ Clock(w) # None /\ InExpiredWindow(w.floor, w.days, Clock(w))
    THEN None
    ELSE Clock(w)

\* Where PostgreSQL routes a row: its partition, or DEFAULT if the floor allows.
Lands(d) == d \in attached \/ floor.day = 0 \/ d < floor.day

\* revision_order.
Newer(f, g) == f.at > g.at \/ (f.at = g.at /\ f.r > g.r)

ProjectedAlways(f) == [current EXCEPT ![PointOf[f.r]] = f]

\* PROJECTION_UPSERT_SQL.
Projected(f) ==
    [current EXCEPT ![PointOf[f.r]] = IF @ = None \/ Newer(f, @) THEN f ELSE @]

-----------------------------------------------------------------------------
(***************************************************************************)
(* The ingest.                                                             *)
(***************************************************************************)

\* A collector has a response in hand; it publishes it now or days later.
Fetch(w, r) ==
    /\ writer[w].pc = "idle"
    /\ writer' = [writer EXCEPT ![w] = ReadyWriter(r, today, 0)]
    /\ UNCHANGED <<today, tables, catalog, record, job, operator, history>>

\* _advisory_xact_lock_once: another open transaction holds the source key.
KeyLocked(w, r) ==
    \E v \in Writers \ {w} : writer[v].pc = "resolved" /\ writer[v].r = r

\* _record_source_session: the clock of the stored source, or of the one inserted.
SourceClock(r, fetched) == IF source[r] = 0 THEN fetched ELSE source[r]

\* The first half of the transaction: the source key is locked, its row found
\* or inserted, the run linked, the partition catalog read.
Resolve(w) ==
    LET r == writer[w].r IN
    /\ writer[w].pc = "ready"
    /\ ~KeyLocked(w, r)
    /\ writer' = [writer EXCEPT ![w] =
                    [@ EXCEPT !.pc = "resolved",
                              !.at = SourceClock(r, writer[w].fetched),
                              !.fresh = source[r] = 0,
                              !.floor = ValidFloor,
                              !.days = IF ValidFloor = 0 THEN {} ELSE attached]]
    /\ UNCHANGED <<today, tables, catalog, record, job, operator, history>>

WriterDone(w) == writer' = [writer EXCEPT ![w] = IdleWriter]

\* An error that is no lock conflict: the batch fails and is not run again.
Raise(w) ==
    /\ WriterDone(w)
    /\ UNCHANGED <<today, tables, catalog, record, job, operator, purgedBefore, missedLast,
                   dropped, recreated>>

\* A replay whose source retention has deleted since it was resolved.
SourceGone(s) == ~s.fresh /\ source[s.r] = 0

\* The fact has no partition that takes it.
Unroutable(f) == f.at # None /\ f \notin facts /\ (f.at = 0 \/ ~Lands(f.at))

\* The source and its link to the run.
SourceStored(s) ==
    /\ source' = [source EXCEPT ![s.r] = IF s.fresh THEN s.fetched ELSE @]
    /\ cited' = IF s.r \in Linked THEN cited \cup {s.r} ELSE cited

\* The second half: facts, projection and source commit together.
Publish(w) ==
    LET s == writer[w]
        known == KnownAt(s)
        f == [r |-> s.r, at |-> known]
        seesCatalog == s.floor = ValidFloor /\ (s.floor # 0 => s.days = attached)
    IN
    /\ s.pc = "resolved"
    /\ s.r \notin Events
    /\ IF SourceGone(s)
       THEN Raise(w) /\ UNCHANGED refused
       ELSE IF Unroutable(f)
       THEN Raise(w) /\ refused' = (refused \/ (seesCatalog /\ known \in dropped))
       ELSE /\ SourceStored(s)
            /\ IF known = None
               THEN UNCHANGED <<facts, current>>
               ELSE /\ facts' = facts \cup {f}
                    /\ current' = Projected(f)
            /\ WriterDone(w)
            /\ UNCHANGED <<today, events, catalog, record, job, operator, history>>

\* publish_alert_events: events already known keep their first sighting.
PublishAlertEvents(w) ==
    LET s == writer[w] IN
    /\ s.pc = "resolved"
    /\ s.r \in Events
    /\ IF SourceGone(s)
       THEN Raise(w) /\ UNCHANGED refused
       ELSE /\ SourceStored(s)
            /\ events' = IF \E e \in events : e.r = s.r THEN events
                         ELSE events \cup {[r |-> s.r, at |-> today]}
            /\ WriterDone(w)
            /\ UNCHANGED <<today, facts, current, catalog, record, job, operator, history>>

\* _retry_lock_race: a lock conflict rolls everything back and the transaction
\* runs again from the start, a bounded number of times.
LoseLockRace(w) ==
    LET s == writer[w] IN
    /\ s.pc = "resolved"
    /\ writer' = [writer EXCEPT ![w] =
                    IF s.tries + 1 < LockAttempts
                    THEN ReadyWriter(s.r, s.fetched, s.tries + 1)
                    ELSE IdleWriter]
    /\ UNCHANGED <<today, tables, catalog, record, job, operator, history>>

-----------------------------------------------------------------------------
(***************************************************************************)
(* The nightly retention job.  Its transactions wait for an operator who   *)
(* holds the maintenance lock.  Partition DDL locks the source records     *)
(* against an ingest that inserted one, and the drop of a detached table   *)
(* against every open ingest; a step that keeps losing is deferred.        *)
(***************************************************************************)

NoIngestInserts == \A w \in Writers : ~(writer[w].pc = "resolved" /\ writer[w].fresh)
NoIngestOpen == \A w \in Writers : writer[w].pc # "resolved"

RowsOf(rows, d) == {f \in rows : f.at = d}
DefaultRows == {f \in facts : f.at \notin attached}

PreserveNothing(rows) == FALSE

\* _preserve_short_forecast_partition refuses these rows.
MustPreserve(rows) == \E f \in rows : Retained(f.r)

\* missing_forward_days from the day a to the day b; the table of a detached
\* day still has its name.
MissingDays(f, a, b) == {d \in a .. b : d >= f} \ (attached \cup detached)

Dangling == {p \in Points : current[p] # None /\ current[p] \notin facts}
PointersDeleted(P) == [p \in Points |-> IF p \in P THEN None ELSE current[p]]

\* Pointers before the cutoff, except those at a retained short forecast.
ExpiredPointers(c) ==
    {p \in Points : /\ current[p] # None /\ current[p].at < c
                    /\ ~(current[p] \in facts /\ Retained(current[p].r))}

\* The job of a day; the cutoff falls within the day Cutoff - 1, after its facts.
StartJob ==
    /\ job.pc = "idle"
    /\ today > RetentionDays
    /\ job' = [IdleJob EXCEPT !.pc = "floor", !.start = today]
    /\ UNCHANGED <<today, tables, catalog, record, writer, operator, history>>

Cutoff == job.start - RetentionDays + 1

ForwardWindow(f) == MissingDays(f, job.start, job.start + AheadDays)

\* _forward_floor: reuse a validated floor; else remove an unvalidated one and
\* establish the floor if DEFAULT is empty.
ForwardFloor ==
    /\ job.pc = "floor"
    /\ op = "idle"
    /\ \/ /\ floor.valid
          /\ job' = [job EXCEPT !.pc = "create", !.todo = ForwardWindow(floor.day)]
          /\ UNCHANGED floor
       \/ /\ ~floor.valid /\ NoIngestInserts
          /\ IF DefaultRows = {}
             THEN /\ floor' = [day |-> job.start, valid |-> TRUE]
                  /\ job' = [job EXCEPT !.pc = "create", !.todo = ForwardWindow(job.start)]
             ELSE /\ floor' = NoFloor
                  /\ job' = [job EXCEPT !.pc = "create"]
       \/ /\ ~floor.valid
          /\ job' = [job EXCEPT !.pc = "create", !.forward = 1]
          /\ UNCHANGED floor
    /\ UNCHANGED <<today, tables, attached, detached, limbo, fkValid, marks, record,
                   writer, operator, history>>

\* The circuit breaker of _try_partition_ddl: failures in a row, up to its limit.
Capped(n) == IF n < DeferralLimit THEN n + 1 ELSE n

\* One forward day, created or deferred.
CreateForwardDay ==
    /\ job.pc = "create" /\ job.todo # {}
    /\ LET d == Min(job.todo) IN
       \/ /\ op = "idle" /\ NoIngestInserts /\ job.forward < DeferralLimit
          /\ attached' = attached \cup {d}
          /\ job' = [job EXCEPT !.todo = @ \ {d}, !.forward = 0]
       \/ /\ job' = [job EXCEPT !.todo = @ \ {d}, !.forward = Capped(@)]
          /\ UNCHANGED attached
    /\ UNCHANGED <<today, tables, floor, detached, limbo, fkValid, marks, record,
                   writer, operator, history>>

\* expired_partitions: the whole day precedes the cutoff.
ExpiredDays(days) == {d \in days : d + 1 <= job.start - RetentionDays}

\* The pointers into the expiring days go, then the expired days are listed.
DeleteExpiredPointers ==
    /\ job.pc = "create" /\ job.todo = {}
    /\ op = "idle"
    /\ current' = PointersDeleted(ExpiredPointers(Cutoff))
    /\ purgedBefore' = Max({purgedBefore, Cutoff})
    /\ job' = [job EXCEPT !.pc = "expired", !.todo = ExpiredDays(detached),
                          !.expired = ExpiredDays(attached)]
    /\ UNCHANGED <<today, source, cited, events, facts, catalog, record, writer, operator,
                   missedLast, dropped, recreated, refused>>

\* The mark on the day's table, unless another session locks the table.
write_deferral_mark(d, written) == marks' = IF written THEN marks \cup {d} ELSE marks

MissedUnreported(d, written, next) ==
    /\ write_deferral_mark(d, written)
    /\ job' = [next EXCEPT !.missed = @ \cup {d},
                           !.overdue = IF d \in marks THEN @ \cup {d} ELSE @,
                           !.unmarked = IF written THEN @ ELSE @ \cup {d}]

\* A day that was due and not done is marked on its table; it is overdue when an
\* earlier run marked it or handed it over.
Missed(d, written, next) ==
    /\ write_deferral_mark(d, written)
    /\ job' = [next EXCEPT !.missed = @ \cup {d},
                           !.overdue = IF d \in marks \cup record THEN @ \cup {d} ELSE @,
                           !.unmarked = IF written THEN @ ELSE @ \cup {d}]

\* The detached table of day d goes with its rows, or is missed and holds back
\* the days behind it, or must be preserved.
DropTable(d, next) ==
    \/ /\ op = "idle" /\ NoIngestOpen /\ job.retention < DeferralLimit
       /\ IF MustPreserve(RowsOf(limbo, d))
          THEN /\ job' = [next EXCEPT !.held = TRUE]
               /\ UNCHANGED <<detached, limbo, marks>>
          ELSE /\ detached' = detached \ {d}
               /\ limbo' = limbo \ RowsOf(limbo, d)
               /\ marks' = marks \ {d}
               /\ job' = [next EXCEPT !.retention = 0]
    \/ \E written \in BOOLEAN :
          /\ Missed(d, written, [next EXCEPT !.held = TRUE, !.retention = Capped(@)])
          /\ UNCHANGED <<detached, limbo>>

DropLeftover ==
    /\ job.pc = "expired" /\ job.todo # {}
    /\ LET d == Min(job.todo) IN DropTable(d, [job EXCEPT !.todo = @ \ {d}])
    /\ UNCHANGED <<today, tables, attached, floor, fkValid, record, writer, operator, history>>

\* A detach drops the foreign keys into the facts and adds them again, not validated.
KeysNotValid == fkValid' = FALSE

detach_partition(d) ==
    /\ facts' = facts \ RowsOf(facts, d)
    /\ limbo' = limbo \cup RowsOf(facts, d)
    /\ attached' = attached \ {d} /\ detached' = detached \cup {d}
    /\ KeysNotValid

DetachExpired ==
    /\ job.pc = "expired" /\ job.todo = {} /\ job.expired # {}
    /\ LET d == Min(job.expired)
           rest == [job EXCEPT !.expired = @ \ {d}]
       IN
       \/ /\ job.held
          /\ job' = rest
          /\ UNCHANGED <<facts, attached, detached, limbo, fkValid, marks, dropped>>
       \/ /\ ~job.held /\ op = "idle" /\ NoIngestInserts /\ job.retention < DeferralLimit
          /\ IF MustPreserve(RowsOf(facts, d))
             THEN /\ job' = rest
                  /\ UNCHANGED <<facts, attached, detached, limbo, fkValid, dropped>>
             ELSE /\ detach_partition(d)
                  /\ dropped' = dropped \cup {d}
                  /\ job' = [rest EXCEPT !.pc = "drop", !.todo = {d}, !.retention = 0]
          /\ UNCHANGED marks
       \/ /\ ~job.held
          /\ \E written \in BOOLEAN : Missed(d, written, [rest EXCEPT !.retention = Capped(@)])
          /\ UNCHANGED <<facts, attached, detached, limbo, fkValid, dropped>>
    /\ UNCHANGED <<today, source, cited, events, current, floor, record, writer, operator,
                   purgedBefore, missedLast, recreated, refused>>

DropDetached ==
    /\ job.pc = "drop"
    /\ \E d \in job.todo : DropTable(d, [job EXCEPT !.pc = "expired", !.todo = {}])
    /\ UNCHANGED <<today, tables, attached, floor, fkValid, record, writer, operator, history>>

ValidatedUnchecked ==
    /\ fkValid' = TRUE
    /\ UNCHANGED current

\* VALIDATE CONSTRAINT, or the dangling rows it met are deleted.
Validated ==
    \/ /\ Dangling = {}
       /\ fkValid' = TRUE
       /\ UNCHANGED current
    \/ /\ Dangling # {}
       /\ current' = PointersDeleted(Dangling)
       /\ UNCHANGED fkValid

\* _validate_fact_foreign_keys: two tries; deferred when it loses its lock.
ValidateKeys ==
    /\ job.pc = "expired" /\ job.todo = {} /\ job.expired = {}
    /\ \/ /\ ~fkValid /\ op = "idle" /\ job.tries < 2 /\ job.retention < DeferralLimit
          /\ Validated
          /\ job' = [job EXCEPT !.tries = @ + 1,
                                !.pc = IF Dangling = {} THEN "sources" ELSE @]
       \/ /\ job' = [job EXCEPT !.pc = "sources"]
          /\ UNCHANGED <<current, fkValid>>
    /\ UNCHANGED <<today, source, cited, events, facts, attached, floor, detached, limbo,
                   marks, record, writer, operator, history>>

CitedByLiveRows(r) == \E f \in facts \cup events : f.r = r

CitedByRows(r) == \E f \in facts \cup limbo \cup events : f.r = r

\* PURGE_SOURCE_RECORDS_SQL, with the tables that are detached and not dropped.
Uncited(r) == ~CitedByRows(r) /\ r \notin cited

\* Alert events past their own retention and the uncited sources go.  An open
\* ingest that just linked such a source makes the foreign key refuse the delete.
PurgeSources ==
    LET old == {e \in events : e.at < Min({Cutoff, today - AlertDays})}
        gone == {r \in Responses : source[r] \in 1 .. Cutoff - 1 /\ Uncited(r)}
        linking == {writer[w].r : w \in {v \in Writers :
                      writer[v].pc = "resolved" /\ ~writer[v].fresh}} \cap Linked
    IN
    /\ job.pc = "sources"
    /\ op = "idle"
    /\ job' = IdleJob
    /\ IF gone \cap linking # {}
       THEN UNCHANGED <<events, source, record, missedLast>>
       ELSE /\ events' = events \ old
            /\ source' = [r \in Responses |-> IF r \in gone THEN 0 ELSE source[r]]
            /\ record' = job.unmarked
            /\ missedLast' = job.missed
    /\ UNCHANGED <<today, cited, facts, current, catalog, writer, operator, purgedBefore,
                   dropped, recreated, refused>>

\* The run's process dies, or an error that is no lock conflict ends it.
CrashJob ==
    /\ job.pc # "idle"
    /\ job' = IdleJob
    /\ UNCHANGED <<today, tables, catalog, record, writer, operator, history>>

\* purge_expired_short_forecast, one batch B; pointers first.
PurgeShort(B) ==
    /\ op = "idle"
    /\ B # {} /\ \A f \in B : ExpiredShort(f.r)
    /\ current' = PointersDeleted({p \in Points : current[p] \in B})
    /\ facts' = facts \ B
    /\ UNCHANGED <<today, source, cited, events, catalog, record, processes, history>>

-----------------------------------------------------------------------------
(***************************************************************************)
(* The operator's commands on DEFAULT, each under the maintenance lock.    *)
(***************************************************************************)

OldDefault == {f \in limbo : f.at \notin detached}

BeginCommand ==
    /\ op = "idle"
    /\ opUses < OperatorUses
    /\ opUses' = opUses + 1

\* ensure_forward_partitions from the floor, passed days included.
CreateFromFloor ==
    LET missing == MissingDays(floor.day, floor.day, today + AheadDays) IN
    /\ attached' = attached \cup missing
    /\ recreated' = recreated \cup {d \in missing : d < today}

\* establish_floor: a leftover unvalidated floor goes, a later one is added NOT
\* VALID; a validated floor is reused and its missing days created.
EstablishFloor(d) ==
    /\ BeginCommand
    /\ \/ /\ ~floor.valid
          /\ d > today
          /\ floor' = [day |-> d, valid |-> FALSE]
          /\ op' = "floor"
          /\ UNCHANGED <<attached, recreated>>
       \/ /\ floor.valid
          /\ NoIngestInserts
          /\ d = floor.day
          /\ CreateFromFloor
          /\ UNCHANGED <<floor, op>>
    /\ UNCHANGED <<today, tables, detached, limbo, fkValid, marks, record, writer, job,
                   opCutoff, purgedBefore, missedLast, dropped, refused>>

DropFloor == floor' = NoFloor /\ UNCHANGED <<attached, recreated>>

\* _validate_and_create: the floor is validated and its partitions created in
\* one transaction; on failure the floor is removed again.
ValidateAndCreate ==
    /\ op = "floor"
    /\ op' = "idle"
    /\ \/ /\ NoIngestInserts
          /\ \A f \in DefaultRows : f.at < floor.day
          /\ floor' = [floor EXCEPT !.valid = TRUE]
          /\ CreateFromFloor
       \/ DropFloor
    /\ UNCHANGED <<today, tables, detached, limbo, fkValid, marks, record, writer, job, opUses,
                   opCutoff, purgedBefore, missedLast, dropped, refused>>

\* purge_execute: finish an interrupted swap first; else clear the pointers and
\* swap DEFAULT out when all of it has expired, or delete its expired rows.
PurgeDefault ==
    LET c == today - RetentionDays IN
    /\ BeginCommand
    /\ \/ /\ OldDefault # {}
          /\ op' = "dropold"
          /\ UNCHANGED <<current, purgedBefore, opCutoff>>
       \/ /\ OldDefault = {}
          /\ floor.valid
          /\ current' = PointersDeleted(ExpiredPointers(c))
          /\ purgedBefore' = Max({purgedBefore, c})
          /\ opCutoff' = c
          /\ op' = IF floor.day <= c THEN "swap" ELSE "rows"
    /\ UNCHANGED <<today, source, cited, events, facts, catalog, record, writer, job,
                   missedLast, dropped, recreated, refused>>

\* swap_default: the old DEFAULT is detached, an empty one takes its floor.
SwapDefault ==
    /\ op = "swap"
    /\ NoIngestInserts
    /\ ~MustPreserve(DefaultRows)
    /\ facts' = facts \ DefaultRows
    /\ limbo' = limbo \cup DefaultRows
    /\ KeysNotValid
    /\ op' = "dropold"
    /\ UNCHANGED <<today, source, cited, events, current, attached, floor, detached, marks,
                   record, writer, job, opUses, opCutoff, history>>

DropOldDefault ==
    /\ op = "dropold"
    /\ NoIngestOpen
    /\ ~MustPreserve(OldDefault)
    /\ limbo' = limbo \ OldDefault
    /\ op' = "validate"
    /\ UNCHANGED <<today, tables, attached, floor, detached, fkValid, marks, record, writer,
                   job, opUses, opCutoff, history>>

OperatorValidates ==
    /\ op = "validate"
    /\ Validated
    /\ op' = IF Dangling = {} THEN "idle" ELSE op
    /\ UNCHANGED <<today, source, cited, events, facts, attached, floor, detached, limbo, marks,
                   record, writer, job, opUses, opCutoff, history>>

ExpiredRows(c) == {f \in DefaultRows : f.at < c /\ ~Retained(f.r)}

\* purge_expired_rows: a row a pointer came back to is refused by the foreign
\* key; the pointers are cleared and the walk repeated.
DeleteExpiredRows ==
    LET old == ExpiredRows(opCutoff)
        pointed == {p \in Points : current[p] \in old}
    IN
    /\ op = "rows"
    /\ IF pointed # {}
       THEN current' = PointersDeleted(ExpiredPointers(opCutoff)) /\ UNCHANGED <<facts, op>>
       ELSE facts' = facts \ old /\ op' = "idle" /\ UNCHANGED current
    /\ UNCHANGED <<today, source, cited, events, catalog, record, writer, job, opUses, opCutoff,
                   history>>

\* The command is interrupted or refused; what it committed stays.
CommandStops ==
    /\ op # "idle"
    /\ op' = "idle"
    /\ UNCHANGED <<today, tables, catalog, record, writer, job, opUses, opCutoff, history>>

-----------------------------------------------------------------------------
JobStep ==
    \/ ForwardFloor
    \/ CreateForwardDay
    \/ DeleteExpiredPointers
    \/ DropLeftover
    \/ DetachExpired
    \/ DropDetached
    \/ ValidateKeys
    \/ PurgeSources

Next ==
    \/ Tick
    \/ \E w \in Writers :
          \/ \E r \in Responses : Fetch(w, r)
          \/ Resolve(w)
          \/ Publish(w)
          \/ PublishAlertEvents(w)
          \/ LoseLockRace(w)
    \/ StartJob
    \/ JobStep
    \/ CrashJob
    \/ \E B \in SUBSET facts : PurgeShort(B)
    \/ \E d \in Day : EstablishFloor(d)
    \/ ValidateAndCreate
    \/ PurgeDefault
    \/ SwapDefault
    \/ DropOldDefault
    \/ OperatorValidates
    \/ DeleteExpiredRows
    \/ CommandStops

Spec == Init /\ [][Next]_vars

-----------------------------------------------------------------------------
(***************************************************************************)
(* Properties.                                                             *)
(***************************************************************************)

\* Once the projection's foreign key is validated again, every pointer names a
\* stored fact, although an ingest may put a pointer back between the deletion
\* of the expiring pointers and the detach of their day.
PointersNameFacts == fkValid => Dangling = {}

\* A response the provider serves for days, re-fetched by several collectors and
\* outliving the partition of its first fetch, has one row inside the retention
\* window, not one per fetch; days an operator partitions anew do not count.
OneRowPerResponse ==
    \A f, g \in {h \in facts : h.at >= purgedBefore /\ h.at \notin recreated} :
        f.r = g.r => f = g

\* The projection is complete and current: whatever the order in which late,
\* repeated and re-dated responses commit, each point inside the window has a
\* pointer, and no stored revision is newer.
CurrentIsNewest ==
    \A f \in facts : f.at >= purgedBefore /\ ~ExpiredShort(f.r) =>
        LET c == current[PointOf[f.r]] IN c # None /\ ~Newer(f, c)

\* Lineage: no source record is deleted while a fact cites it, in the fact table,
\* in a detached table that waits for its drop, or as an alert event.
LineageKept == \A f \in facts \cup limbo \cup events : source[f.r] # 0

\* Retention never drops a short forecast that is about today or later.
RetainedNeverDropped ==
    [][\A f \in facts \cup limbo : Retained(f.r) => f \in facts' \cup limbo']_vars

\* Retention that stands still is seen: a day that two recorded runs in a row
\* were due to drop and missed is reported overdue, even when the mark on its
\* table could not be written; the new table of a day an operator partitions
\* anew starts without a mark.
MissedTwiceIsOverdue == (job.missed \cap missedLast) \ recreated \subseteq job.overdue

\* What _retention_bounds says of an ingest: a fact of a day that retention has
\* dropped is skipped or re-dated, it does not fail the batch.
DroppedDayNeverFailsBatch == ~refused
=============================================================================
