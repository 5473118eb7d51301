---------------------------- MODULE ExportSnapshots ----------------------------
(***************************************************************************)
(* The files of the export and everybody who needs one to stay: the        *)
(* attempts that write it (repository.ingest_batch, ExportArtifactStore),  *)
(* the promotion that publishes it (export_heads), the frozen snapshots    *)
(* readers page through (export_snapshots, export_forecasts), the daily    *)
(* aggregation that walks behind the publications (export_daily_store),    *)
(* and the collector of garbage that removes what none of them refers to   *)
(* (export_gc).                                                            *)
(*                                                                         *)
(* The database and the directory are not one transaction.  A file is      *)
(* named by the digest of its content, so a new attempt may need a file    *)
(* that is old garbage; a reader commits its snapshot without any lock on  *)
(* the files; the live set of the collector is read by several statements, *)
(* each of which sees another committed state.  What orders them is the    *)
(* artifact guard: the collector holds it exclusively from its second look *)
(* at the references to the last unlink, and every other section under     *)
(* the guard is one action here, which needs the collector to be outside.  *)
(*                                                                         *)
(* Abstractions.  A generation is the attempt it was published from; what  *)
(* makes an attempt publishable is in ExportHeads.  A pointer is a head or *)
(* a row of the approved inventory.  The pins of a promotion only repeat   *)
(* references of unpublished attempts and heads and are left out.  There   *)
(* is one selection; handles of other selections only matter by filling    *)
(* the latest LatestSnapshots.                                             *)
(***************************************************************************)
EXTENDS Naturals, Sequences, FiniteSets

CONSTANTS
    Attempts,        \* attempts, and the generations published from them
    Pointers,        \* heads and approved inventory rows
    PointersOf,      \* [Attempts -> SUBSET Pointers], what a promotion moves
    Digests,         \* names of artifact files
    FilesOf,         \* [Attempts -> SUBSET Digests], the chunks of an attempt
    Readers,         \* requests to the export API
    DailyWorkers,    \* callers of refresh_daily_summaries
    TTL,             \* SNAPSHOT_TTL
    Retention,       \* retention window of the collector
    Grace,           \* age below which a file is not removed
    PruneRetain,     \* SNAPSHOT_PRUNE_RETAIN
    LatestSnapshots, \* LATEST_SNAPSHOTS, as far as this selection gets to use them
    DailyLimit,      \* generations of one aggregation batch
    Horizon,         \* bound: nothing new begins after this time
    MaxHandles,      \* bound on the snapshot rows
    MaxStops,        \* bound on collections that give up
    None             \* SQL NULL

ASSUME SnapshotsAssumption ==
    /\ PointersOf \in [Attempts -> SUBSET Pointers]
    /\ FilesOf \in [Attempts -> SUBSET Digests]
    /\ {TTL, Retention, Grace, PruneRetain, LatestSnapshots, Horizon, MaxHandles, MaxStops}
          \subseteq Nat
    /\ DailyLimit \in Nat \ {0}
    /\ None \notin Attempts \cup Nat

VARIABLES
    now,        \* wall clock
    att,        \* [Attempts -> row of the attempt and its receipts]
    file,       \* [Digests -> mtime of the artifact file, or None]
    ptr,        \* [Pointers -> generation]
    gens,       \* the generations in the order of their watermarks
    roster,     \* the pointers that the enabled locations select
    handles,    \* weather_export_snapshots in issue order
    reader,     \* [Readers -> local state of a request]
    checkpoint, \* weather_daily_summary_progress, as a position in gens
    daily,      \* [DailyWorkers -> local state of an aggregation]
    gc,         \* local state of the collector
    stops       \* number of collections that gave up

vars == <<now, att, file, ptr, gens, roster, handles, reader, checkpoint, daily, gc, stops>>

\* `receipts' are the chunks committed to the database, `written' those whose
\* file was put in place afterwards.
AttemptRow ==
    [status : {"none", "pending", "published", "failed"}, receipts : SUBSET Digests,
     written : SUBSET Digests, created : Nat]

Vector == [Pointers -> Attempts \cup {None}]

\* `vector' is None at the pointers that the snapshot does not select.
HandleRow == [vector : Vector, limited : BOOLEAN, expires : Nat, alive : BOOLEAN]

\* `view' is the vector of the freeze, `ready' whether every selected pointer had
\* a generation, `last' the newest handle it saw and `until' its expiry; `handle'
\* is the snapshot of the request, `reused' whether it was there before, and
\* `issues' how often one was issued for the request.
Reader ==
    [pc : {"idle", "issue", "frozen", "check", "renew", "page", "read"},
     view : Vector, ready : BOOLEAN, last : Nat, until : Nat, handle : Nat, reused : BOOLEAN,
     issues : Nat]

NoVector == [p \in Pointers |-> None]
IdleReader ==
    [pc |-> "idle", view |-> NoVector, ready |-> FALSE, last |-> 0, until |-> 0, handle |-> 0,
     reused |-> FALSE, issues |-> 0]

DailyWorker == [pc : {"idle", "files", "commit"}, after : Nat, upto : Nat]
IdleDaily == [pc |-> "idle", after |-> 0, upto |-> 0]

\* `clock' is the time the collection began, `live' what its queries found so far,
\* `victim' the file it is about to unlink.
Collector ==
    [pc : {"idle", "scan", "batch", "recheck", "unlink"}, clock : Nat, live : SUBSET Digests,
     eligible : SUBSET Digests, victim : SUBSET Digests]
IdleCollector == [pc |-> "idle", clock |-> 0, live |-> {}, eligible |-> {}, victim |-> {}]

\* Type invariant of the rows, the files and the processes.
TypeOK ==
    /\ now \in Nat
    /\ att \in [Attempts -> AttemptRow]
    /\ file \in [Digests -> Nat \cup {None}]
    /\ ptr \in Vector
    /\ gens \in Seq(Attempts)
    /\ roster \subseteq Pointers
    /\ handles \in Seq(HandleRow)
    /\ reader \in [Readers -> Reader]
    /\ checkpoint \in Nat
    /\ daily \in [DailyWorkers -> DailyWorker]
    /\ gc \in Collector
    /\ stops \in Nat

Init ==
    /\ now = 0
    /\ att = [a \in Attempts |->
                [status |-> "none", receipts |-> {}, written |-> {}, created |-> 0]]
    /\ file = [d \in Digests |-> None]
    /\ ptr = NoVector
    /\ gens = <<>>
    /\ roster \in SUBSET Pointers
    /\ handles = <<>>
    /\ reader = [r \in Readers |-> IdleReader]
    /\ checkpoint = 0
    /\ daily = [w \in DailyWorkers |-> IdleDaily]
    /\ gc = IdleCollector
    /\ stops = 0

-----------------------------------------------------------------------------
(***************************************************************************)
(* Shared predicates.                                                      *)
(***************************************************************************)

\* Nobody but the collector keeps the guard from one action to the next.
GuardFree == gc.pc \notin {"recheck", "unlink"}

Present(D) == \A d \in D : file[d] # None

\* The generations of a vector and their files.
Generations(v) == {v[p] : p \in Pointers} \ {None}
FilesOfAll(G)  == UNION {FilesOf[g] : g \in G}
HandleFiles(h) == FilesOfAll(Generations(handles[h].vector))

Alive == {h \in 1 .. Len(handles) : handles[h].alive}

\* The newest row of the selection, 0 when there is none.
LastHandle ==
    IF Alive = {} THEN 0 ELSE CHOOSE h \in Alive : \A i \in Alive : i <= h

Latest == {h \in Alive : Cardinality({i \in Alive : i > h}) < LatestSnapshots}

\* The generations after the checkpoint of the daily aggregation.
Unread == {gens[i] : i \in checkpoint + 1 .. Len(gens)}

-----------------------------------------------------------------------------
(***************************************************************************)
(* The attempts and their promotion.                                       *)
(***************************************************************************)

\* ingest_batch commits the receipt of a chunk with its facts.
RecordChunk(a, d) ==
    /\ now <= Horizon
    /\ att[a].status \in {"none", "pending"}
    /\ d \in FilesOf[a] \ att[a].receipts
    /\ att[a].receipts = att[a].written
    /\ att' = [att EXCEPT ![a].status = "pending", ![a].receipts = @ \cup {d}]
    /\ UNCHANGED <<now, file, ptr, gens, roster, handles, reader, checkpoint, daily, gc, stops>>

\* ExportArtifactStore.publish after the commit: the file is replaced even if it
\* exists, so that its mtime is new.
WriteArtifact(a, d) ==
    /\ now <= Horizon
    /\ GuardFree
    /\ att[a].status = "pending"
    /\ d \in att[a].receipts \ att[a].written
    /\ file' = [file EXCEPT ![d] = now]
    /\ att' = [att EXCEPT ![a].written = @ \cup {d}]
    /\ UNCHANGED <<now, ptr, gens, roster, handles, reader, checkpoint, daily, gc, stops>>

\* The final transaction of a promotion, under the exclusive guard.
Promote(a) ==
    /\ GuardFree
    /\ att[a].status = "pending"
    /\ att[a].written = FilesOf[a]
    /\ Present(FilesOf[a])
    /\ att' = [att EXCEPT ![a] = [@ EXCEPT !.status = "published", !.created = now]]
    /\ gens' = Append(gens, a)
    /\ ptr' = [p \in Pointers |-> IF p \in PointersOf[a] THEN a ELSE ptr[p]]
    /\ UNCHANGED <<now, file, roster, handles, reader, checkpoint, daily, gc, stops>>

\* A failed write, a rejection or a retirement.
FailAttempt(a) ==
    /\ att[a].status = "pending"
    /\ att' = [att EXCEPT ![a].status = "failed"]
    /\ UNCHANGED <<now, file, ptr, gens, roster, handles, reader, checkpoint, daily, gc, stops>>

\* An operator enables or disables locations.
EditRoster ==
    /\ now <= Horizon
    /\ roster' \in (SUBSET Pointers) \ {roster}
    /\ UNCHANGED <<now, att, file, ptr, gens, handles, reader, checkpoint, daily, gc, stops>>

-----------------------------------------------------------------------------
(***************************************************************************)
(* The readers: the first page issues a snapshot, the others follow it.    *)
(***************************************************************************)

Request(r) ==
    /\ reader[r].pc = "idle"
    /\ now <= Horizon
    /\ reader' = [reader EXCEPT ![r].pc = "issue"]
    /\ UNCHANGED <<now, att, file, ptr, gens, roster, handles, checkpoint, daily, gc, stops>>

\* The REPEATABLE READ snapshot of a freeze: catalog, heads and handles.
FreezeRead(r) ==
    /\ reader[r].pc = "issue"
    /\ reader' = [reader EXCEPT ![r] = [@ EXCEPT
          !.pc = "frozen",
          !.view = [p \in Pointers |-> IF p \in roster THEN ptr[p] ELSE None],
          !.ready = roster # {} /\ \A p \in roster : ptr[p] # None,
          !.last = LastHandle,
          !.until = IF LastHandle = 0 THEN 0 ELSE handles[LastHandle].expires]]
    /\ UNCHANGED <<now, att, file, ptr, gens, roster, handles, checkpoint, daily, gc, stops>>

Row(v, limited) == [vector |-> v, limited |-> limited, expires |-> now + TTL, alive |-> TRUE]

\* The request goes on with the snapshot h: a third issue is not looked at.
Issued(r, h, reused) ==
    reader' = [reader EXCEPT ![r] =
        IF reader[r].issues = 2 THEN IdleReader
        ELSE [IdleReader EXCEPT !.pc = "check", !.handle = h, !.reused = reused,
                                !.issues = reader[r].issues + 1]]

\* The newest handle of the freeze is unexpired and has the same manifest.
Reusable(r) ==
    /\ reader[r].last # 0
    /\ handles[reader[r].last].vector = reader[r].view
    /\ ~handles[reader[r].last].limited
    /\ reader[r].until > now

\* _freeze: reuse the newest handle, or insert one.
FreezeCommit(r) ==
    /\ now <= Horizon
    /\ reader[r].pc = "frozen"
    /\ reader[r].ready
    /\ IF Reusable(r)
       THEN Issued(r, reader[r].last, TRUE) /\ UNCHANGED handles
       ELSE /\ Len(handles) < MaxHandles
            /\ handles' = Append(handles, Row(reader[r].view, FALSE))
            /\ Issued(r, Len(handles) + 1, FALSE)
    /\ UNCHANGED <<now, att, file, ptr, gens, roster, checkpoint, daily, gc, stops>>

\* _previous_success, when the selection has no complete vector: the newest handle
\* while it is valid, else a new one for its vector.
PreviousSuccess(r) ==
    /\ now <= Horizon
    /\ reader[r].pc = "frozen"
    /\ ~reader[r].ready
    /\ LastHandle # 0
    /\ \/ /\ handles[LastHandle].expires > now
          /\ Issued(r, LastHandle, TRUE)
          /\ UNCHANGED handles
       \/ /\ handles[LastHandle].expires <= now
          /\ Len(handles) < MaxHandles
          /\ handles' = Append(handles, Row(handles[LastHandle].vector,
                                            handles[LastHandle].limited))
          /\ Issued(r, Len(handles) + 1, FALSE)
    /\ UNCHANGED <<now, att, file, ptr, gens, roster, checkpoint, daily, gc, stops>>

\* There is no previous success: 503.
NoPreviousSuccess(r) ==
    /\ reader[r].pc = "frozen"
    /\ LastHandle = 0
    /\ reader' = [reader EXCEPT ![r] = IdleReader]
    /\ UNCHANGED <<now, att, file, ptr, gens, roster, handles, checkpoint, daily, gc, stops>>

\* _capacity_fallback, when the manifest would be too large: the previous success,
\* in a handle of its own that says so.
CapacityFallback(r) ==
    /\ now <= Horizon
    /\ reader[r].pc = "frozen"
    /\ reader[r].ready
    /\ LastHandle # 0
    /\ LET last == handles[LastHandle]
           copies == IF last.expires > now THEN <<>> ELSE <<Row(last.vector, last.limited)>>
           marked == IF last.limited THEN copies ELSE Append(copies, Row(last.vector, TRUE))
       IN  /\ Len(handles) + Len(marked) <= MaxHandles
           /\ handles' = handles \o marked
           /\ IF marked = <<>> THEN Issued(r, LastHandle, TRUE)
              ELSE Issued(r, Len(handles) + Len(marked), FALSE)
    /\ UNCHANGED <<now, att, file, ptr, gens, roster, checkpoint, daily, gc, stops>>

\* Mutation: A snapshot is taken to have its files.
CheckSkipped(r) == TRUE

\* ensure_snapshot_files, under the shared guard.
AllPresent(r) == Present(HandleFiles(reader[r].handle))

CheckFiles(r) ==
    /\ reader[r].pc = "check"
    /\ GuardFree
    /\ reader' = [reader EXCEPT ![r].pc = IF AllPresent(r) THEN "renew" ELSE "issue"]
    /\ UNCHANGED <<now, att, file, ptr, gens, roster, handles, checkpoint, daily, gc, stops>>

\* _renew_reused, which may fail and only touches a handle that is still valid.
Renew(r) ==
    /\ reader[r].pc = "renew"
    /\ LET h == reader[r].handle
       IN  \/ UNCHANGED handles
           \/ /\ now <= Horizon
              /\ reader[r].reused
              /\ handles[h].alive
              /\ handles[h].expires > now
              /\ handles[h].expires < now + TTL
              /\ handles' = [handles EXCEPT ![h].expires = now + TTL]
    /\ reader' = [reader EXCEPT ![r].pc = "read"]
    /\ UNCHANGED <<now, att, file, ptr, gens, roster, checkpoint, daily, gc, stops>>

\* The files of a page, one shared section each; a missing file fails the request.
ReadFiles(r) ==
    /\ reader[r].pc = "read"
    /\ GuardFree
    /\ reader' = [reader EXCEPT ![r] =
          IF Present(HandleFiles(@.handle)) THEN [@ EXCEPT !.pc = "page"] ELSE IdleReader]
    /\ UNCHANGED <<now, att, file, ptr, gens, roster, handles, checkpoint, daily, gc, stops>>

\* The next page: a handle that expired or was pruned ends in 410.
NextPage(r) ==
    /\ reader[r].pc = "page"
    /\ LET h == handles[reader[r].handle]
       IN  reader' = [reader EXCEPT ![r] =
              IF h.alive /\ h.expires > now THEN [@ EXCEPT !.pc = "read"] ELSE IdleReader]
    /\ UNCHANGED <<now, att, file, ptr, gens, roster, handles, checkpoint, daily, gc, stops>>

\* The last page, or a client that does not come back.
EndRequest(r) ==
    /\ reader[r].pc # "idle"
    /\ reader' = [reader EXCEPT ![r] = IdleReader]
    /\ UNCHANGED <<now, att, file, ptr, gens, roster, handles, checkpoint, daily, gc, stops>>

\* Mutation: The newest snapshot is kept for a fallback.
PruneAllButLast ==
    /\ \E V \in SUBSET {h \in Alive \ {LastHandle} : handles[h].expires + PruneRetain < now} :
          /\ V # {}
          /\ handles' = [h \in 1 .. Len(handles) |->
                           [handles[h] EXCEPT !.alive = @ /\ h \notin V]]
    /\ UNCHANGED <<now, att, file, ptr, gens, roster, reader, checkpoint, daily, gc, stops>>

\* prune_export_snapshots; SKIP LOCKED and the limit leave any of the victims.
PruneSnapshots ==
    /\ \E V \in SUBSET {h \in Alive : handles[h].expires + PruneRetain < now} :
          /\ V # {}
          /\ handles' = [h \in 1 .. Len(handles) |->
                           [handles[h] EXCEPT !.alive = @ /\ h \notin V]]
    /\ UNCHANGED <<now, att, file, ptr, gens, roster, reader, checkpoint, daily, gc, stops>>

-----------------------------------------------------------------------------
(***************************************************************************)
(* The daily aggregation.                                                  *)
(***************************************************************************)

DailyRead(w) ==
    /\ daily[w].pc = "idle"
    /\ checkpoint < Len(gens)
    /\ daily' = [daily EXCEPT ![w] =
          [pc |-> "files", after |-> checkpoint,
           upto |-> IF Len(gens) < checkpoint + DailyLimit THEN Len(gens)
                    ELSE checkpoint + DailyLimit]]
    /\ UNCHANGED <<now, att, file, ptr, gens, roster, handles, reader, checkpoint, gc, stops>>

\* The files of the batch; a missing one defers the aggregation.
DailyFiles(w) ==
    /\ daily[w].pc = "files"
    /\ GuardFree
    /\ daily' = [daily EXCEPT ![w] =
          IF Present(FilesOfAll({gens[i] : i \in @.after + 1 .. @.upto}))
          THEN [@ EXCEPT !.pc = "commit"] ELSE IdleDaily]
    /\ UNCHANGED <<now, att, file, ptr, gens, roster, handles, reader, checkpoint, gc, stops>>

\* Mutation: The checkpoint moves wherever the batch ended.
CommitAnyway(w) ==
    /\ daily[w].pc = "commit"
    /\ checkpoint' = daily[w].upto
    /\ daily' = [daily EXCEPT ![w] = IdleDaily]
    /\ UNCHANGED <<now, att, file, ptr, gens, roster, handles, reader, gc, stops>>

\* The checkpoint moves only if it is still the one the batch began at.
DailyCommit(w) ==
    /\ daily[w].pc = "commit"
    /\ checkpoint' = IF checkpoint = daily[w].after THEN daily[w].upto ELSE checkpoint
    /\ daily' = [daily EXCEPT ![w] = IdleDaily]
    /\ UNCHANGED <<now, att, file, ptr, gens, roster, handles, reader, gc, stops>>

-----------------------------------------------------------------------------
(***************************************************************************)
(* The collector of garbage.  live_artifact_digests is two statements that *)
(* matter: the files of live generations, and the receipts of attempts     *)
(* that are not published.                                                 *)
(***************************************************************************)

LiveGenerations(t) ==
    Generations(ptr)
    \cup {a \in Attempts : att[a].status = "published" /\ att[a].created + Retention > t}
    \cup (UNION {Generations(handles[h].vector) :
                   h \in {i \in Alive : handles[i].expires + Retention > t} \cup Latest})
    \cup Unread

Referenced(t) == FilesOfAll(LiveGenerations(t))

Received == UNION {att[a].receipts : a \in {b \in Attempts : att[b].status = "pending"}}

Unreferenced(live) == Digests \ (live \cup Received)

\* Old enough to be removed by a collection that began at t.
Aged(d, t) == file[d] # None /\ file[d] + Grace < t

\* The first look, without the guard.
GCStart ==
    /\ gc.pc = "idle"
    /\ gc' = [IdleCollector EXCEPT !.pc = "scan", !.clock = now, !.live = Referenced(now)]
    /\ UNCHANGED <<now, att, file, ptr, gens, roster, handles, reader, checkpoint, daily, stops>>

GCScan ==
    /\ gc.pc = "scan"
    /\ LET eligible == {d \in Unreferenced(gc.live) : Aged(d, gc.clock)}
       IN  gc' = IF eligible = {} THEN IdleCollector
                 ELSE [gc EXCEPT !.pc = "batch", !.live = {}, !.eligible = eligible]
    /\ UNCHANGED <<now, att, file, ptr, gens, roster, handles, reader, checkpoint, daily, stops>>

\* The second look, with the exclusive guard.
GCLock ==
    /\ gc.pc = "batch"
    /\ gc' = [gc EXCEPT !.pc = "recheck", !.live = Referenced(gc.clock)]
    /\ UNCHANGED <<now, att, file, ptr, gens, roster, handles, reader, checkpoint, daily, stops>>

GCRecheck ==
    /\ gc.pc = "recheck"
    /\ gc' = [gc EXCEPT !.pc = "unlink", !.live = @ \cup Received]
    /\ UNCHANGED <<now, att, file, ptr, gens, roster, handles, reader, checkpoint, daily, stops>>

\* The collector is done with the file d, and with its last one with the batch.
Passed(d) == IF gc.eligible = {d} THEN IdleCollector
             ELSE [gc EXCEPT !.eligible = @ \ {d}, !.victim = {}]

\* A file that a reference names by now, or that was written again, is passed over.
GCStat(d) ==
    /\ gc.pc = "unlink"
    /\ gc.victim = {}
    /\ d \in gc.eligible
    /\ gc' = IF d \notin gc.live /\ Aged(d, gc.clock) THEN [gc EXCEPT !.victim = {d}]
             ELSE Passed(d)
    /\ UNCHANGED <<now, att, file, ptr, gens, roster, handles, reader, checkpoint, daily, stops>>

\* What lstat found is unlinked by name.
GCUnlink(d) ==
    /\ d \in gc.victim
    /\ file' = [file EXCEPT ![d] = None]
    /\ gc' = Passed(d)
    /\ UNCHANGED <<now, att, ptr, gens, roster, handles, reader, checkpoint, daily, stops>>

\* The guard cannot be had in time, the budget is used up, or the process dies.
GCStop ==
    /\ gc.pc # "idle"
    /\ stops < MaxStops
    /\ stops' = stops + 1
    /\ gc' = IdleCollector
    /\ UNCHANGED <<now, att, file, ptr, gens, roster, handles, reader, checkpoint, daily>>

GCStep ==
    \/ GCStart
    \/ GCScan
    \/ GCLock
    \/ GCRecheck
    \/ \E d \in Digests : GCStat(d) \/ GCUnlink(d)

Tick ==
    /\ now < Horizon + TTL + Retention + Grace + PruneRetain + 1
    /\ now' = now + 1
    /\ UNCHANGED <<att, file, ptr, gens, roster, handles, reader, checkpoint, daily, gc, stops>>

ReaderStep(r) ==
    \/ Request(r)
    \/ FreezeRead(r)
    \/ FreezeCommit(r)
    \/ PreviousSuccess(r)
    \/ NoPreviousSuccess(r)
    \/ CapacityFallback(r)
    \/ CheckFiles(r)
    \/ Renew(r)
    \/ ReadFiles(r)
    \/ NextPage(r)
    \/ EndRequest(r)

DailyStep(w) == DailyRead(w) \/ DailyFiles(w) \/ DailyCommit(w)

Next ==
    \/ \E a \in Attempts :
          \/ \E d \in Digests : RecordChunk(a, d) \/ WriteArtifact(a, d)
          \/ Promote(a)
          \/ FailAttempt(a)
    \/ EditRoster
    \/ \E r \in Readers : ReaderStep(r)
    \/ PruneSnapshots
    \/ \E w \in DailyWorkers : DailyStep(w)
    \/ GCStep
    \/ GCStop
    \/ Tick

Spec == Init /\ [][Next]_vars

\* The clock runs and the publisher ticks: it collects, aggregates and prunes.
Fairness ==
    /\ WF_vars(Tick)
    /\ WF_vars(GCStep)
    /\ WF_vars(PruneSnapshots)
    /\ \A w \in DailyWorkers : WF_vars(DailyStep(w))

FairSpec == Spec /\ Fairness

-----------------------------------------------------------------------------
(***************************************************************************)
(* Properties.                                                             *)
(***************************************************************************)

\* A snapshot that a request has looked at keeps its files until it is pruned or the
\* retention window after its expiry is over, although it was committed without the
\* guard, heads move on, and the collector may have been at work all along.
VerifiedFilesPresent ==
    \A r \in Readers :
        reader[r].pc \in {"renew", "page", "read"} =>
            LET h == reader[r].handle
            IN  handles[h].alive /\ handles[h].expires + Retention > now =>
                    Present(HandleFiles(h))

\* What heads and approved inventory rows refer to is on disk, although the live set
\* of the collector is read by several statements while attempts turn into heads.
HeadFilesPresent == Present(FilesOfAll(Generations(ptr)))

\* The daily aggregation never finds a generation after its checkpoint without files,
\* however far it is behind and however many of them run.
UnreadFilesPresent == Present(FilesOfAll(Unread))

\* No file of a publication disappears while it is a head or waits to be aggregated.
PublishedFilesPresent == HeadFilesPresent /\ UnreadFilesPresent

\* The files of heads, of attempts that are not published, and of snapshots a client
\* may still page through.
Needed ==
    FilesOfAll(Generations(ptr) \cup
               UNION {Generations(handles[h].vector) : h \in {i \in Alive : handles[i].expires > now}})
    \cup Received

\* Every other file is removed in the end: collections give up, the daily aggregation
\* follows with delay, and the newest snapshots hold their files until they are pruned
\* (collect_export_artifacts, prune_export_snapshots).
GarbageIsCollected ==
    \A d \in Digests : file[d] # None /\ d \notin Needed ~> file[d] = None \/ d \in Needed
=============================================================================
