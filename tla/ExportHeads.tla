----------------------------- MODULE ExportHeads -----------------------------
(***************************************************************************)
(* Publication of collected weather data: an attempt that proved its       *)
(* source complete becomes the head generation of its namespace            *)
(* (export_heads.py, the reconciliation of export_lifecycle.py, the        *)
(* retirement of export_collector.py and the approved-location inventory   *)
(* of export_inventory.py), on top of the collector's side in              *)
(* ExportLifecycle.                                                        *)
(*                                                                         *)
(* A publisher promotes an attempt in several transactions with file and   *)
(* orchestrator I/O between them, so a publisher is a process with a       *)
(* program counter: another publisher, a collector or a crash may come     *)
(* between any two of its steps.  The scheduled publisher holds a lease,   *)
(* but the code lets manual publishers run beside it and says the head     *)
(* compare-and-set protects them: Publishers may be any set.               *)
(*                                                                         *)
(* Abstractions.  A generation is identified by its attempt (the column    *)
(* is unique).  A namespace is a descriptor; it belongs to one scope and   *)
(* selects a set of locations.  The content of a response is a model       *)
(* value with a number of points.  Time is one clock that never runs       *)
(* backwards.                                                              *)
(***************************************************************************)
EXTENDS ExportLifecycle

CONSTANTS
    Publishers,     \* processes that promote attempts
    Namespaces,     \* head namespaces (digests of scope descriptors)
    ScopeOf,        \* [Namespaces -> Scopes], descriptor.source_scope
    Retrieval,      \* namespaces whose revision is the fetch time
    Locations,      \* catalog locations
    LocationsOf,    \* [Namespaces -> SUBSET Locations], descriptor.location_ids
    Contents,       \* normalised contents a source may return
    Points,         \* [Contents -> Nat], their number of points
    MaxTime,        \* bound on the clock
    MaxBatch,       \* chunks verified by one reconciliation (8 in promote)
    MaxCrashes      \* bound on publisher crashes

ASSUME HeadsAssumption ==
    /\ ScopeOf \in [Namespaces -> Scopes]
    /\ Retrieval \subseteq Namespaces
    /\ LocationsOf \in [Namespaces -> SUBSET Locations]
    /\ Points \in [Contents -> Nat \ {0}]
    /\ None \notin Namespaces
    /\ None \notin Contents
    /\ MaxTime \in Nat
    /\ MaxBatch \in Nat \ {0}
    /\ MaxCrashes \in Nat

VARIABLES
    now,        \* wall clock
    plan,       \* [Attempts -> row of weather_export_scope_plans]
    gen,        \* [Attempts -> row of weather_export_generations]
    head,       \* [Namespaces -> row of weather_export_heads]
    pubClock,   \* weather_export_publication_clock
    inventory,  \* [Locations -> row of weather_export_approved_locations]
    pins,       \* [Attempts -> the rows of weather_export_pending_refs]
    pub,        \* [Publishers -> local state of a promotion]
    crashes     \* number of publisher crashes so far

headVars == <<now, plan, gen, head, pubClock, inventory, pins, pub, crashes>>
vars == <<lifecycleVars, headVars>>

\* `parts' are the chunks into which the points of the bound response fall: the
\* normalization digest stands for all of them together.
PlanRow ==
    [ns : Namespaces \cup {None}, bound : Nat, rev : Nat, fetched : Nat,
     content : Contents \cup {None}, parts : SUBSET ChunkKeys]

\* `at' is created_at, 0 as long as the attempt has no generation; `files' is
\* the attempt whose artifacts the generation refers to.
GenerationRow ==
    [at : Nat, parent : Attempts \cup {None}, files : Attempts \cup {None}]

HeadRow ==
    [gen : Attempts \cup {None}, version : Nat, rev : Nat, fetched : Nat,
     content : Contents \cup {None}]

InventoryRow == [gen : Attempts \cup {None}, at : Nat]

\* `own': the candidate's own files are pinned; `parent': the generation whose
\* files are pinned as the parent's.
PinRow == [own : BOOLEAN, parent : Attempts \cup {None}]
NoPins == [own |-> FALSE, parent |-> None]

PC == {"idle", "reconcile", "verify", "seal", "pin", "read", "commit", "terminal"}

PublisherState ==
    [pc : PC, a : Attempts \cup {None}, batch : SUBSET ChunkKeys,
     parent : Attempts \cup {None}, reuse : BOOLEAN]

Idle == [pc |-> "idle", a |-> None, batch |-> {}, parent |-> None, reuse |-> FALSE]

HeadsTypeOK ==
    /\ now \in Nat
    /\ plan \in [Attempts -> PlanRow]
    /\ gen \in [Attempts -> GenerationRow]
    /\ head \in [Namespaces -> HeadRow]
    /\ pubClock \in Nat
    /\ inventory \in [Locations -> InventoryRow]
    /\ pins \in [Attempts -> PinRow]
    /\ pub \in [Publishers -> PublisherState]
    /\ crashes \in Nat

\* Type invariant of the rows and of the publishers' local state.
TypeOK == LifecycleTypeOK /\ HeadsTypeOK

HeadsInit ==
    /\ now = 0
    /\ plan = [a \in Attempts |->
                 [ns |-> None, bound |-> 0, rev |-> 0, fetched |-> 0, content |-> None,
                  parts |-> {}]]
    /\ gen = [a \in Attempts |-> [at |-> 0, parent |-> None, files |-> None]]
    /\ head = [n \in Namespaces |->
                 [gen |-> None, version |-> 0, rev |-> 0, fetched |-> 0, content |-> None]]
    /\ pubClock = 0
    /\ inventory = [l \in Locations |-> [gen |-> None, at |-> 0]]
    /\ pins = [a \in Attempts |-> NoPins]
    /\ pub = [p \in Publishers |-> Idle]
    /\ crashes = 0

Init == LifecycleInit /\ HeadsInit

-----------------------------------------------------------------------------
(***************************************************************************)
(* Derived state.                                                          *)
(***************************************************************************)

Declared(a)  == plan[a].ns # None
Bound(a)     == plan[a].content # None
Committed(a) == gen[a].at # 0
Pending(a)   == att[a].status \in {"preparing", "sealed"} /\ ~Committed(a)

\* Artifacts of the attempt x: one file per receipt.
Artifacts(x) == IF x = None THEN {} ELSE {<<x, k>> : k \in Recorded(x)}

\* Artifacts the generation g refers to.
References(g) == IF g = None THEN {} ELSE Artifacts(gen[g].files)

SupersededIgnoringEpoch(a) ==
    att[a].epoch # 0 /\ owner[att[a].scope].epoch >= att[a].epoch

\* _SUPERSEDED_SQL: the claimed scope has moved on to a newer epoch.
Superseded(a) ==
    /\ att[a].epoch # 0
    /\ owner[att[a].scope].epoch > att[a].epoch
    /\ owner[att[a].scope].active # a

Greater(x, y) == IF x > y THEN x ELSE y

\* Points of the current head, 0 when the namespace was never published.
HeadPoints(n) == IF head[n].gen = None THEN 0 ELSE Points[head[n].content]

-----------------------------------------------------------------------------
(***************************************************************************)
(* The collector: declare the descriptor before the request, bind the      *)
(* response, then the operations of ExportLifecycle.                       *)
(***************************************************************************)

Tick ==
    /\ now < MaxTime
    /\ now' = now + 1
    /\ UNCHANGED <<lifecycleVars, plan, gen, head, pubClock, inventory, pins, pub, crashes>>

Declare(a, n) ==
    /\ CurrentOwner(a)
    /\ Preparing(a)
    /\ ScopeOf[n] = att[a].scope
    /\ ~Declared(a)
    /\ expected[a] = {}
    /\ plan' = [plan EXCEPT ![a] = [@ EXCEPT !.ns = n, !.bound = now]]
    /\ UNCHANGED <<lifecycleVars, now, gen, head, pubClock, inventory, pins, pub, crashes>>

AnyResponseTimes(a, f, v) ==
    f \in 0 .. now /\ v \in 0 .. f

\* A response fetched after the declaration, not newer than the clock, whose
\* revision is not newer than its fetch (and is the fetch for a retrieval
\* namespace).
ResponseTimes(a, f, v) ==
    /\ f \in plan[a].bound .. now
    /\ v \in 0 .. f
    /\ plan[a].ns \in Retrieval => v = f

\* The shrink guard: less than half the points of the current head is refused.
NoShrinkGuard(a, c) == TRUE
ShrinkGuard(a, c) == ~(2 * Points[c] < HeadPoints(plan[a].ns))

\* bind_kma_response, bind_external_response and bind_mid_response.
BindResponse(a, c, f, v, K) ==
    /\ CurrentOwner(a)
    /\ Preparing(a)
    /\ Declared(a)
    /\ ResponseTimes(a, f, v)
    /\ ShrinkGuard(a, c)
    /\ ~Bound(a)
    /\ expected[a] = {}
    /\ K # {}
    /\ plan' = [plan EXCEPT ![a] =
                 [@ EXCEPT !.content = c, !.fetched = f, !.rev = v, !.parts = K]]
    /\ UNCHANGED <<lifecycleVars, now, gen, head, pubClock, inventory, pins, pub, crashes>>

\* seal_head_plan: a declared plan must be bound.
PlanComplete(a) == Declared(a) => Bound(a)

\* validate_head_capture: the captured values are points of the bound response.
CaptureValid(a, k) == Declared(a) => Bound(a) /\ k \in plan[a].parts

\* The capture in the savepoint of _ingest_batch_session; its failure is RejectAttempt.
CaptureChunk(a, k, x) == CaptureValid(a, k) /\ RecordChunk(a, k, x)

CollectorStep(a) ==
    /\ \/ \E r \in Runs, s \in Scopes : CreateExportAttempt(a, r, s)
       \/ Claim(a)
       \/ \E k \in ChunkKeys : ExpectChunk(a, k)
       \/ \E k \in ChunkKeys, x \in {"exact", "empty"} : CaptureChunk(a, k, x)
       \/ \E k \in ChunkKeys : PublishArtifact(a, k)
       \/ \E K \in SUBSET ChunkKeys : CloseSource(a, K)
       \/ PlanComplete(a) /\ ClosePlan(a)
       \/ RejectAttempt(a)
    /\ UNCHANGED headVars

RunStep(r) ==
    /\ \/ StartSyncRun(r)
       \/ \E status \in {"success", "failed"} : FinishSyncRun(r, status)
       \/ \E status \in {"SUCCESS", "FAILURE"} : OrchestratorFinishes(r, status)
    /\ UNCHANGED headVars

-----------------------------------------------------------------------------
(***************************************************************************)
(* The publisher.  A promotion that returns or raises forgets its local    *)
(* state; what its transactions committed stays.                           *)
(***************************************************************************)

Goto(p, pc) == pub' = [pub EXCEPT ![p].pc = pc]

Return(p) ==
    /\ pub' = [pub EXCEPT ![p] = Idle]
    /\ UNCHANGED <<lifecycleVars, now, plan, gen, head, pubClock, inventory, pins, crashes>>

\* A crash, a lost connection, a lock timeout or a failed orchestrator lookup.
Crash(p) ==
    /\ pub[p].pc # "idle"
    /\ crashes < MaxCrashes
    /\ crashes' = crashes + 1
    /\ pub' = [pub EXCEPT ![p] = Idle]
    /\ UNCHANGED <<lifecycleVars, now, plan, gen, head, pubClock, inventory, pins>>

StartFreshOnly(p, a) ==
    /\ pub[p].pc = "idle"
    /\ Pending(a) /\ att[a].status = "preparing"
    /\ Declared(a)
    /\ pub' = [pub EXCEPT ![p] = [@ EXCEPT !.pc = "reconcile", !.a = a]]
    /\ UNCHANGED <<lifecycleVars, now, plan, gen, head, pubClock, inventory, pins, crashes>>

\* The sweep picks a pending candidate with a plan; promote finds no generation.
StartPromotion(p, a) ==
    /\ pub[p].pc = "idle"
    /\ Pending(a)
    /\ Declared(a)
    /\ pub' = [pub EXCEPT ![p] = [@ EXCEPT !.pc = "reconcile", !.a = a]]
    /\ UNCHANGED <<lifecycleVars, now, plan, gen, head, pubClock, inventory, pins, crashes>>

\* What the first transaction of reconcile lets through.
Reconcilable(a) ==
    /\ CurrentOwner(a)
    /\ att[a].status # "failed"
    /\ RunIs(a, "success")
    /\ att[a].closed

ReconcileRead(p) ==
    LET a == pub[p].a
        unvalidated == Recorded(a) \ validated[a]
    IN
    /\ pub[p].pc = "reconcile"
    /\ \/ ~Reconcilable(a) /\ Return(p)
       \/ /\ Reconcilable(a)
          /\ \/ att[a].status = "sealed" /\ Goto(p, "pin")
             \/ /\ att[a].status = "preparing"
                /\ \E batch \in SUBSET unvalidated :
                     /\ Cardinality(batch) <= MaxBatch
                     /\ unvalidated # {} => batch # {}
                     /\ pub' = [pub EXCEPT ![p] = [@ EXCEPT !.pc = "verify", !.batch = batch]]
          /\ UNCHANGED <<lifecycleVars, now, plan, gen, head, pubClock, inventory, pins, crashes>>

\* Between the transactions: the exact orchestrator status and the files.
OrchestratorNotFailed(a) == orch[att[a].run] # "FAILURE"
OrchestratorAgrees(a) ==
    att[a].run \in DagsterRuns => orch[att[a].run] = "SUCCESS"

ReconcileVerify(p) ==
    LET a == pub[p].a
        proven == OrchestratorAgrees(a) /\ \A k \in pub[p].batch : <<a, k>> \in files
    IN
    /\ pub[p].pc = "verify"
    /\ \/ ~proven /\ Return(p)
       \/ /\ proven
          /\ Goto(p, "seal")
          /\ UNCHANGED <<lifecycleVars, now, plan, gen, head, pubClock, inventory, pins, crashes>>

\* The second transaction of reconcile.
StillReconcilable(a) ==
    CurrentOwner(a) /\ RunIs(a, "success") /\ att[a].status # "failed"

ReconcileSeal(p) ==
    LET a == pub[p].a
        done == validated[a] \cup pub[p].batch
    IN
    /\ pub[p].pc = "seal"
    /\ \/ ~StillReconcilable(a) /\ Return(p)
       \/ /\ StillReconcilable(a)
          /\ validated' = [validated EXCEPT ![a] = done]
          /\ \/ /\ Recorded(a) \subseteq done
                /\ att' = [att EXCEPT ![a].status = "sealed"]
                /\ Goto(p, "pin")
             \/ /\ ~(Recorded(a) \subseteq done)
                /\ pub' = [pub EXCEPT ![p] = Idle]
                /\ UNCHANGED att
          /\ UNCHANGED <<run, orch, owner, expected, closure, chunk, files,
                         now, plan, gen, head, pubClock, inventory, pins, crashes>>

\* The pin rows after the insert; ON CONFLICT DO NOTHING keeps an earlier try's.
Pinned(row, parent) ==
    [own |-> TRUE, parent |-> IF row.parent = None THEN parent ELSE row.parent]

\* The second transaction of promote: read plan, receipts and parent head, and
\* pin both sets of files.
PinArtifacts(p) ==
    LET a == pub[p].a
        parent == head[plan[a].ns].gen
    IN
    /\ pub[p].pc = "pin"
    /\ \/ ~(CurrentOwner(a) /\ Bound(a)) /\ Return(p)
       \/ /\ CurrentOwner(a) /\ Bound(a)
          /\ pins' = [pins EXCEPT ![a] = Pinned(@, parent)]
          /\ pub' = [pub EXCEPT ![p] = [@ EXCEPT !.pc = "read", !.parent = parent]]
          /\ UNCHANGED <<lifecycleVars, now, plan, gen, head, pubClock, inventory, crashes>>

\* Outside any transaction: the union of the files must be exactly the bound
\* response; equal content reuses the parent's files.
ContentUnproven(a) == Artifacts(a) \subseteq files
ContentProven(a) ==
    /\ Artifacts(a) \subseteq files
    /\ Recorded(a) = plan[a].parts
    /\ \A k \in Recorded(a) : chunk[a][k] = "exact"

ReadArtifacts(p) ==
    LET a == pub[p].a
        parent == pub[p].parent
        reuse == parent # None /\ plan[parent].content = plan[a].content
        proven == ContentProven(a) /\ (reuse => References(parent) \subseteq files)
    IN
    /\ pub[p].pc = "read"
    /\ \/ ~proven /\ Return(p)
       \/ /\ proven
          /\ pub' = [pub EXCEPT ![p] = [@ EXCEPT !.pc = "commit", !.reuse = reuse]]
          /\ UNCHANGED <<lifecycleVars, now, plan, gen, head, pubClock, inventory, pins, crashes>>

\* record_approved_locations for the generation g published at t; V are the
\* selected locations whose catalog row still matches the descriptor.
RecordApproved(g, t, V) ==
    inventory' = [l \in Locations |->
        IF l \in V /\ inventory[l].at < t THEN [gen |-> g, at |-> t] ELSE inventory[l]]

\* What the final transaction checks before it writes.
MayCommitAgain(p) ==
    LET a == pub[p].a IN
    CurrentOwner(a) /\ RunIs(a, "success") /\ att[a].status = "sealed"

MayCommitIgnoringRevision(p) ==
    LET a == pub[p].a
        old == head[plan[a].ns]
    IN  /\ ~Committed(a)
        /\ CurrentOwner(a)
        /\ RunIs(a, "success") /\ att[a].status = "sealed"
        /\ old.gen = pub[p].parent

MayCommit(p) ==
    LET a == pub[p].a
        old == head[plan[a].ns]
    IN  /\ ~Committed(a)
        /\ CurrentOwner(a)
        /\ RunIs(a, "success") /\ att[a].status = "sealed"
        /\ old.gen = pub[p].parent
        /\ old.gen # None => /\ plan[a].rev >= old.rev
                             /\ plan[a].rev = old.rev => plan[a].content = old.content
        /\ (IF pub[p].reuse THEN References(old.gen) ELSE Artifacts(a)) \subseteq files

\* The watermark moves strictly past every earlier publication.
NextWatermark == Greater(pubClock + 1, now)

CommitHead(p) ==
    LET a == pub[p].a
        n == plan[a].ns
        old == head[n]
    IN
    /\ pub[p].pc = "commit"
    /\ \/ ~MayCommit(p) /\ Return(p)
       \/ /\ MayCommit(p)
          /\ pubClock' = NextWatermark
          /\ gen' = [gen EXCEPT ![a] =
                [at |-> NextWatermark, parent |-> old.gen,
                 files |-> IF pub[p].reuse THEN gen[old.gen].files ELSE a]]
          /\ head' = [head EXCEPT ![n] =
                [gen |-> a, version |-> old.version + 1, rev |-> plan[a].rev,
                 fetched |-> Greater(plan[a].fetched, old.fetched),
                 content |-> plan[a].content]]
          /\ \E V \in SUBSET LocationsOf[n] : RecordApproved(a, NextWatermark, V)
          /\ pins' = [pins EXCEPT ![a] = NoPins]
          /\ pub' = [pub EXCEPT ![p] = Idle]
          /\ UNCHANGED <<lifecycleVars, now, plan, crashes>>

-----------------------------------------------------------------------------
(***************************************************************************)
(* Retirement of attempts that can no longer be promoted, and the          *)
(* inventory bootstrap.                                                    *)
(***************************************************************************)

RetiredKeepingPins(a) ==
    /\ att' = [att EXCEPT ![a].status = "failed"]
    /\ UNCHANGED pins

\* _retire: the attempt fails and its pins go.
Retired(a) ==
    /\ att' = [att EXCEPT ![a].status =
                  IF @ \in {"preparing", "sealed"} THEN "failed" ELSE @]
    /\ pins' = [pins EXCEPT ![a] = NoPins]

\* retire_settled_attempts, both statements, and the first transaction of
\* _publisher_terminal.
RetireSettled(a) ==
    /\ Pending(a)
    /\ Superseded(a) \/ RunIs(a, "failed")
    /\ Retired(a)
    /\ UNCHANGED <<run, orch, owner, expected, closure, chunk, validated, files,
                   now, plan, gen, head, pubClock, inventory, pub, crashes>>

NativeFailure(a) == RunIs(a, "failed")

\* A failure of the run or of its orchestrator.
ConfirmedFailure(a) == RunIs(a, "failed") \/ orch[att[a].run] = "FAILURE"

\* _publisher_terminal between its transactions.
ProbeTerminal(p, a) ==
    /\ pub[p].pc = "idle"
    /\ Pending(a)
    /\ ~Superseded(a)
    /\ ConfirmedFailure(a)
    /\ pub' = [pub EXCEPT ![p] = [@ EXCEPT !.pc = "terminal", !.a = a]]
    /\ UNCHANGED <<lifecycleVars, now, plan, gen, head, pubClock, inventory, pins, crashes>>

\* Its last transaction: a published attempt is left alone, a running run is
\* terminalised, the attempt retired.
RetireTerminal(p) ==
    LET a == pub[p].a
        r == att[a].run
    IN
    /\ pub[p].pc = "terminal"
    /\ \/ Committed(a) /\ Return(p)
       \/ /\ ~Committed(a)
          /\ run' = [run EXCEPT ![r] = IF @ = "running" THEN "failed" ELSE @]
          /\ Retired(a)
          /\ pub' = [pub EXCEPT ![p] = Idle]
          /\ UNCHANGED <<orch, owner, expected, closure, chunk, validated, files,
                         now, plan, gen, head, pubClock, inventory, crashes>>

\* bootstrap_approved_locations for one namespace.
BootstrapInventory(n) ==
    /\ head[n].gen # None
    /\ \E V \in SUBSET LocationsOf[n] :
          RecordApproved(head[n].gen, gen[head[n].gen].at, V)
    /\ UNCHANGED <<lifecycleVars, now, plan, gen, head, pubClock, pins, pub, crashes>>

-----------------------------------------------------------------------------
\* One visit of the scheduled publisher to a candidate: only a successful one is
\* promoted, a failed one goes to _publisher_terminal.
ProcessCandidate(p, a) ==
    \/ ProbeTerminal(p, a)
    \/ RunIs(a, "success") /\ OrchestratorAgrees(a) /\ StartPromotion(p, a)

PublisherStep(p) ==
    \/ ReconcileRead(p)
    \/ ReconcileVerify(p)
    \/ ReconcileSeal(p)
    \/ PinArtifacts(p)
    \/ ReadArtifacts(p)
    \/ CommitHead(p)
    \/ RetireTerminal(p)

Next ==
    \/ Tick
    \/ \E r \in Runs : RunStep(r)
    \/ \E a \in Attempts :
          \/ CollectorStep(a)
          \/ \E n \in Namespaces : Declare(a, n)
          \/ \E c \in Contents, f, v \in 0 .. now, K \in SUBSET ChunkKeys :
                BindResponse(a, c, f, v, K)
          \/ RetireSettled(a)
    \/ \E p \in Publishers :
          \/ \E a \in Attempts : StartPromotion(p, a) \/ ProbeTerminal(p, a)
          \/ PublisherStep(p)
          \/ Crash(p)
    \/ \E n \in Namespaces : BootstrapInventory(n)

Spec == Init /\ [][Next]_vars

\* The publisher sensor ticks for ever: a promotion it began goes on, its keyset
\* sweep comes back to every pending candidate, and retirement runs every few
\* minutes.  Nothing is assumed of the collectors, which may stop at any point.
Fairness ==
    /\ \A p \in Publishers : WF_vars(PublisherStep(p))
    /\ \A p \in Publishers, a \in Attempts : SF_vars(ProcessCandidate(p, a))
    /\ \A a \in Attempts : WF_vars(RetireSettled(a))

FairSpec == Spec /\ Fairness

-----------------------------------------------------------------------------
(***************************************************************************)
(* Properties.                                                             *)
(***************************************************************************)

\* What a promotion publishes was collected by a run that really succeeded:
\* the native run, read twice under its lock, and the orchestrator run,
\* probed once between the two reconcile transactions and never again.
PublishedRunsSucceeded ==
    \A a \in Attempts : Committed(a) =>
        /\ RunIs(a, "success")
        /\ att[a].run \in DagsterRuns => orch[att[a].run] = "SUCCESS"
        /\ att[a].status = "sealed"

\* A published generation is the whole bound response, nothing less: the chunks
\* the collector planned are all its parts, and each has a receipt with exactly
\* the planned points and a verified file.
PublishedComplete ==
    \A a \in Attempts : Committed(a) =>
        /\ expected[a] = plan[a].parts /\ Recorded(a) = expected[a]
        /\ validated[a] = expected[a]
        /\ \A k \in expected[a] : chunk[a][k] = "exact" /\ <<a, k>> \in files

\* As long as an unpublished attempt owns its scope, nobody can move the head
\* it took as its parent: the parent comparison of the final transaction only
\* ever refuses a promotion that lost its scope or was already committed.
OwnerFreezesHead ==
    \A p \in Publishers :
        LET a == pub[p].a IN
        pub[p].pc \in {"read", "commit"} /\ CurrentOwner(a) /\ ~Committed(a)
            => head[plan[a].ns].gen = pub[p].parent

\* The shrink guard reads the head when the response is bound, long before
\* the promotion; the published generation still never has less than half the
\* points of the generation it replaces.
ShrinkBounded ==
    \A a \in Attempts : Committed(a) /\ gen[a].parent # None =>
        2 * Points[plan[a].content] >= Points[plan[gen[a].parent].content]

\* A generation was fetched no earlier than its parent, so the maximum that
\* promote takes for the head's source_collected_at never hides an older fetch.
FetchNeverOlder ==
    \A a \in Attempts : Committed(a) /\ gen[a].parent # None =>
        plan[gen[a].parent].fetched <= plan[a].fetched

\* With the publisher lease held, so that one publisher runs at a time, no pin
\* outlives its promotion: a pin left behind would keep files for ever.
PinsReleased ==
    \A a \in Attempts : Committed(a) \/ att[a].status = "failed" => pins[a] = NoPins

\* Publications are totally ordered by the watermark, across namespaces.
WatermarkOrders ==
    \A a, b \in Attempts : Committed(a) /\ gen[a].at = gen[b].at => a = b

\* Whoever follows a namespace by its watermarks never meets an older revision after a
\* newer one nor two contents of one revision, however many generations lie between and
\* in whichever order their responses were fetched, bound and sealed.
RevisionsInOrder ==
    \A a, b \in Attempts :
        Committed(a) /\ Committed(b) /\ plan[a].ns = plan[b].ns /\ gen[a].at <= gen[b].at =>
            /\ plan[a].rev <= plan[b].rev
            /\ plan[a].rev = plan[b].rev => plan[a].content = plan[b].content

\* Retirement never gives up an attempt that can still be published: once
\* sealed, an unpublished attempt fails only after it lost its scope.
SealedOwnerSurvives ==
    [][\A a \in Attempts :
          att[a].status = "sealed" /\ CurrentOwner(a) => att'[a].status = "sealed"]_vars

\* What a successful, complete attempt still needs to be published: its scope
\* and a revision the head does not refuse.
Publishable(a) ==
    LET old == head[plan[a].ns] IN
    /\ Reconcilable(a)
    /\ Bound(a)
    /\ OrchestratorAgrees(a)
    /\ ContentProven(a)
    /\ old.gen # None => /\ plan[a].rev >= old.rev
                         /\ plan[a].rev = old.rev => plan[a].content = old.content

\* A publishable attempt is published, whatever crashes and other candidates
\* come between, unless a newer attempt takes its scope or its own collector
\* still rejects it.
PublishableIsPublished ==
    \A a \in Attempts :
        Publishable(a) ~> Committed(a) \/ ~CurrentOwner(a) \/ att[a].status = "failed"

\* The run of the attempt is over, and so is its orchestrator's.
Ended(a) ==
    \/ RunIs(a, "failed")
    \/ orch[att[a].run] = "FAILURE"
    \/ RunIs(a, "success") /\ OrchestratorAgrees(a)

\* What neither promotion nor retirement touches: a successful attempt that was never
\* claimed, or whose plan, content or revision does not let it be published, as long as
\* no newer attempt claims its scope.
Leftover(a) ==
    /\ RunIs(a, "success") /\ OrchestratorAgrees(a)
    /\ ~Superseded(a) /\ ~Publishable(a)

\* An attempt whose run is over does not stay pending, where it would keep its receipts
\* and files from the garbage collector: it is published or retired, also when the
\* orchestrator calls a run failed that the database calls successful, unless it is a
\* leftover.
EndedIsSettled ==
    \A a \in Attempts : Pending(a) /\ Ended(a) ~> ~Pending(a) \/ Leftover(a)
=============================================================================
