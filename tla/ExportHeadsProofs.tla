-------------------------- MODULE ExportHeadsProofs --------------------------
(***************************************************************************)
(* Proofs about ExportHeads.  First the types, then the safety of          *)
(* publication: while an unpublished attempt owns its scope nobody moves   *)
(* the head it will replace, so what was checked against the head when the *)
(* descriptor was declared and when the response was bound still holds     *)
(* when the generation is committed, any number of transactions,           *)
(* publishers and crashes later.                                           *)
(***************************************************************************)
EXTENDS ExportHeads, TLAPS

-----------------------------------------------------------------------------
(***************************************************************************)
(* The types.                                                              *)
(***************************************************************************)

\* An attempt that exists has its run and its scope.
CreatedAttempts ==
    \A a \in Attempts : att[a].status # "none" => att[a].run \in Runs /\ att[a].scope \in Scopes

\* A publisher that works on something works on an existing attempt, and
\* promotes only one whose descriptor was declared.  Files are only reused from
\* a parent.
BusyPublishers ==
    \A p \in Publishers : pub[p].pc # "idle" =>
        /\ pub[p].a \in Attempts
        /\ att[pub[p].a].status # "none"
        /\ pub[p].pc # "terminal" => Declared(pub[p].a)
        /\ pub[p].pc = "commit" /\ pub[p].reuse => pub[p].parent # None

TypeInv == TypeOK /\ CreatedAttempts /\ BusyPublishers

\* What an update of a single column of weather_export_attempts keeps.
SameIdentity(x) ==
    /\ att'[x].run = att[x].run
    /\ att'[x].scope = att[x].scope
    /\ att'[x].status = att[x].status

\* Setting owner_epochs keeps the attempts well typed and the other columns.
LEMMA EpochUpdate ==
    ASSUME att \in [Attempts -> AttemptRow], NEW a \in Attempts, NEW e \in Nat,
           att' = [att EXCEPT ![a].epoch = e]
    PROVE  /\ att' \in [Attempts -> AttemptRow]
           /\ \A x \in Attempts : SameIdentity(x)
  BY DEF AttemptRow, SameIdentity

\* So does setting plan_closed_at.
LEMMA ClosedUpdate ==
    ASSUME att \in [Attempts -> AttemptRow], NEW a \in Attempts,
           att' = [att EXCEPT ![a].closed = TRUE]
    PROVE  /\ att' \in [Attempts -> AttemptRow]
           /\ \A x \in Attempts : SameIdentity(x)
  BY DEF AttemptRow, SameIdentity

\* The initial state is well typed.
LEMMA InitTypeInv == Init => TypeInv
  BY ConstantsAssumption, HeadsAssumption
  DEF Init, LifecycleInit, HeadsInit, TypeInv, TypeOK, LifecycleTypeOK, HeadsTypeOK,
      CreatedAttempts, BusyPublishers, RunStatus, OrchStatus, AttemptStatus, Receipt,
      AttemptRow, OwnerRow, PlanRow, GenerationRow, HeadRow, InventoryRow, PinRow, NoPins,
      PC, PublisherState, Idle

\* Every operation of a collector and of a run keeps the rows well typed.
LEMMA RunStepTypeInv == ASSUME TypeInv, NEW r \in Runs, RunStep(r) PROVE TypeInv'
  <1>1. CASE StartSyncRun(r) /\ UNCHANGED headVars
    BY <1>1 DEF StartSyncRun, headVars, TypeInv, TypeOK, LifecycleTypeOK, HeadsTypeOK,
        CreatedAttempts, BusyPublishers, RunStatus, OrchStatus, Declared
  <1>2. CASE /\ \E status \in {"success", "failed"} : FinishSyncRun(r, status)
             /\ UNCHANGED headVars
    BY <1>2 DEF FinishSyncRun, headVars, TypeInv, TypeOK, LifecycleTypeOK, HeadsTypeOK,
        CreatedAttempts, BusyPublishers, RunStatus, Declared
  <1>3. CASE /\ \E status \in {"SUCCESS", "FAILURE"} : OrchestratorFinishes(r, status)
             /\ UNCHANGED headVars
    BY <1>3 DEF OrchestratorFinishes, headVars, TypeInv, TypeOK, LifecycleTypeOK, HeadsTypeOK,
        CreatedAttempts, BusyPublishers, OrchStatus, Declared
  <1> QED BY <1>1, <1>2, <1>3 DEF RunStep

LEMMA CollectorStepTypeInv ==
    ASSUME TypeInv, NEW a \in Attempts, CollectorStep(a) PROVE TypeInv'
  <1> USE ConstantsAssumption
  <1> USE DEF headVars, TypeInv, TypeOK, LifecycleTypeOK, HeadsTypeOK, CreatedAttempts,
        BusyPublishers, Declared, Preparing, RunIs
  <1>1. CASE (\E r \in Runs, s \in Scopes : CreateExportAttempt(a, r, s)) /\ UNCHANGED headVars
    BY <1>1 DEF CreateExportAttempt, AttemptRow, AttemptStatus
  <1>2. CASE Claim(a) /\ UNCHANGED headVars
    <2> DEFINE s == att[a].scope
               e == owner[s].epoch + 1
    <2>1. s \in Scopes /\ e \in Nat
      BY <1>2 DEF Claim, OwnerRow, AttemptRow
    <2>2. owner' \in [Scopes -> OwnerRow]
      BY <1>2, <2>1 DEF Claim, OwnerRow
    <2>3. att' = [att EXCEPT ![a].epoch = e]
      BY <1>2 DEF Claim
    <2> HIDE DEF e, s
    <2>4. /\ att' \in [Attempts -> AttemptRow]
          /\ \A x \in Attempts : SameIdentity(x)
      BY <2>1, <2>3, EpochUpdate
    <2> QED BY <1>2, <2>2, <2>4 DEF Claim, SameIdentity
  <1>3. CASE (\E k \in ChunkKeys : ExpectChunk(a, k)) /\ UNCHANGED headVars
    BY <1>3 DEF ExpectChunk
  <1>4. CASE /\ \E k \in ChunkKeys, x \in {"exact", "empty"} : RecordChunk(a, k, x)
             /\ UNCHANGED headVars
    BY <1>4 DEF RecordChunk, Receipt
  <1>5. CASE (\E k \in ChunkKeys : PublishArtifact(a, k)) /\ UNCHANGED headVars
    BY <1>5 DEF PublishArtifact
  <1>6. CASE (\E K \in SUBSET ChunkKeys : CloseSource(a, K)) /\ UNCHANGED headVars
    BY <1>6 DEF CloseSource
  <1>7. CASE ClosePlan(a) /\ UNCHANGED headVars
    BY <1>7, ClosedUpdate DEF ClosePlan, SameIdentity
  <1>8. CASE RejectAttempt(a) /\ UNCHANGED headVars
    BY <1>8 DEF RejectAttempt, AttemptRow, AttemptStatus
  <1> QED BY <1>1, <1>2, <1>3, <1>4, <1>5, <1>6, <1>7, <1>8 DEF CollectorStep, CaptureChunk

\* A step that only rewrites plan rows.
LEMMA PlanUpdate ==
    ASSUME TypeInv, NEW a \in Attempts, NEW row \in PlanRow,
           row.ns = None => plan[a].ns = None,
           plan' = [plan EXCEPT ![a] = row],
           UNCHANGED <<lifecycleVars, now, gen, head, pubClock, inventory, pins, pub, crashes>>
    PROVE  TypeInv'
  <1>1. plan' \in [Attempts -> PlanRow]
    BY DEF TypeInv, TypeOK, HeadsTypeOK
  <1>2. \A x \in Attempts : Declared(x) => Declared(x)'
    BY DEF TypeInv, TypeOK, HeadsTypeOK, Declared
  <1> QED BY <1>1, <1>2 DEF lifecycleVars, TypeInv, TypeOK, LifecycleTypeOK, HeadsTypeOK,
        CreatedAttempts, BusyPublishers

LEMMA DeclareTypeInv ==
    ASSUME TypeInv, NEW a \in Attempts, NEW n \in Namespaces, Declare(a, n)
    PROVE  TypeInv'
  <1> DEFINE row == [plan[a] EXCEPT !.ns = n, !.bound = now]
  <1>1. row \in PlanRow /\ row.ns # None
    BY HeadsAssumption DEF TypeInv, TypeOK, HeadsTypeOK, PlanRow
  <1>2. plan' = [plan EXCEPT ![a] = row]
    BY DEF Declare
  <1> HIDE DEF row
  <1> QED BY <1>1, <1>2, PlanUpdate DEF Declare

LEMMA BindTypeInv ==
    ASSUME TypeInv, NEW a \in Attempts, NEW c \in Contents, NEW f \in 0 .. now,
           NEW v \in 0 .. now, NEW K \in SUBSET ChunkKeys, BindResponse(a, c, f, v, K)
    PROVE  TypeInv'
  <1> DEFINE row == [plan[a] EXCEPT !.content = c, !.fetched = f, !.rev = v, !.parts = K]
  <1>1. f \in Nat /\ v \in Nat
    BY DEF TypeInv, TypeOK, HeadsTypeOK
  <1>2. row \in PlanRow /\ row.ns = plan[a].ns
    BY <1>1 DEF TypeInv, TypeOK, HeadsTypeOK, PlanRow
  <1>3. plan' = [plan EXCEPT ![a] = row]
    BY DEF BindResponse
  <1> HIDE DEF row
  <1> QED BY <1>2, <1>3, PlanUpdate DEF BindResponse

\* Retirement keeps the attempts and their pins well typed, and every attempt.
LEMMA RetiredType ==
    ASSUME att \in [Attempts -> AttemptRow], pins \in [Attempts -> PinRow],
           NEW a \in Attempts, Retired(a)
    PROVE  /\ att' \in [Attempts -> AttemptRow]
           /\ pins' \in [Attempts -> PinRow]
           /\ \A x \in Attempts : /\ att'[x].run = att[x].run
                                  /\ att'[x].scope = att[x].scope
                                  /\ att'[x].epoch = att[x].epoch
                                  /\ att'[x].status = "none" <=> att[x].status = "none"
  <1> DEFINE status == IF att[a].status \in {"preparing", "sealed"}
                         THEN "failed" ELSE att[a].status
             row == [att[a] EXCEPT !.status = status]
  <1>1. status \in AttemptStatus /\ (status = "none" <=> att[a].status = "none")
    BY DEF AttemptRow, AttemptStatus
  <1>2. att' = [att EXCEPT ![a] = row]
    BY DEF Retired
  <1>3. pins' \in [Attempts -> PinRow]
    BY DEF Retired, PinRow, NoPins
  <1> HIDE DEF status
  <1>4. /\ row \in AttemptRow
        /\ row.run = att[a].run
        /\ row.scope = att[a].scope
        /\ row.epoch = att[a].epoch
        /\ row.status = status
    BY <1>1 DEF AttemptRow
  <1> HIDE DEF row
  <1> QED BY <1>1, <1>2, <1>3, <1>4

LEMMA RetireTypeInv == ASSUME TypeInv, NEW a \in Attempts, RetireSettled(a) PROVE TypeInv'
  <1>1. Retired(a)
    BY DEF RetireSettled
  <1>2. /\ att' \in [Attempts -> AttemptRow]
        /\ pins' \in [Attempts -> PinRow]
        /\ \A x \in Attempts : /\ att'[x].run = att[x].run
                               /\ att'[x].scope = att[x].scope
                               /\ att'[x].status = "none" <=> att[x].status = "none"
    BY <1>1, RetiredType DEF TypeInv, TypeOK, LifecycleTypeOK, HeadsTypeOK
  <1> QED BY <1>2 DEF RetireSettled, TypeInv, TypeOK, LifecycleTypeOK, HeadsTypeOK,
        CreatedAttempts, BusyPublishers, Declared

\* Writing approvals keeps the inventory well typed.
LEMMA RecordApprovedType ==
    ASSUME inventory \in [Locations -> InventoryRow],
           NEW g \in Attempts, NEW t \in Nat, NEW V, RecordApproved(g, t, V)
    PROVE  inventory' \in [Locations -> InventoryRow]
  BY DEF RecordApproved, InventoryRow

LEMMA BootstrapTypeInv ==
    ASSUME TypeInv, NEW n \in Namespaces, BootstrapInventory(n) PROVE TypeInv'
  <1>1. head[n].gen \in Attempts /\ gen[head[n].gen].at \in Nat
    BY DEF BootstrapInventory, TypeInv, TypeOK, HeadsTypeOK, HeadRow, GenerationRow
  <1>2. inventory' \in [Locations -> InventoryRow]
    BY <1>1, RecordApprovedType DEF BootstrapInventory, TypeInv, TypeOK, HeadsTypeOK
  <1> QED BY <1>2 DEF BootstrapInventory, lifecycleVars, TypeInv, TypeOK, LifecycleTypeOK,
        HeadsTypeOK, CreatedAttempts, BusyPublishers, Declared

\* A publisher that returns, crashes or goes on.
LEMMA ReturnTypeInv == ASSUME TypeInv, NEW p \in Publishers, Return(p) PROVE TypeInv'
  BY DEF Return, Idle, PublisherState, PC, lifecycleVars, TypeInv, TypeOK, LifecycleTypeOK,
         HeadsTypeOK, CreatedAttempts, BusyPublishers, Declared

LEMMA CrashTypeInv == ASSUME TypeInv, NEW p \in Publishers, Crash(p) PROVE TypeInv'
  BY DEF Crash, Idle, PublisherState, PC, lifecycleVars, TypeInv, TypeOK, LifecycleTypeOK,
         HeadsTypeOK, CreatedAttempts, BusyPublishers, Declared

\* A step that only moves a publisher.
LEMMA PublisherMoves ==
    ASSUME TypeInv, NEW p \in Publishers, NEW local \in PublisherState,
           local.pc # "idle" => /\ local.a \in Attempts
                                /\ att[local.a].status # "none"
                                /\ local.pc # "terminal" => Declared(local.a)
                                /\ local.pc = "commit" /\ local.reuse => local.parent # None,
           pub' = [pub EXCEPT ![p] = local],
           UNCHANGED <<lifecycleVars, now, plan, gen, head, pubClock, inventory, pins, crashes>>
    PROVE  TypeInv'
  <1>1. pub' \in [Publishers -> PublisherState]
    BY DEF TypeInv, TypeOK, HeadsTypeOK
  <1>2. BusyPublishers'
    BY DEF TypeInv, TypeOK, HeadsTypeOK, BusyPublishers, Declared, lifecycleVars
  <1> QED BY <1>1, <1>2 DEF lifecycleVars, TypeInv, TypeOK, LifecycleTypeOK, HeadsTypeOK,
        CreatedAttempts

LEMMA StartTypeInv ==
    ASSUME TypeInv, NEW p \in Publishers, NEW a \in Attempts, StartPromotion(p, a)
    PROVE  TypeInv'
  <1> DEFINE local == [pub[p] EXCEPT !.pc = "reconcile", !.a = a]
  <1>1. local \in PublisherState /\ local.pc = "reconcile" /\ local.a = a
    BY DEF TypeInv, TypeOK, HeadsTypeOK, PublisherState, PC
  <1>2. att[a].status # "none" /\ Declared(a)
    BY DEF StartPromotion, Pending
  <1>3. pub' = [pub EXCEPT ![p] = local]
    BY DEF StartPromotion
  <1> HIDE DEF local
  <1> QED BY <1>1, <1>2, <1>3, PublisherMoves DEF StartPromotion

LEMMA ProbeTypeInv ==
    ASSUME TypeInv, NEW p \in Publishers, NEW a \in Attempts, ProbeTerminal(p, a)
    PROVE  TypeInv'
  <1> DEFINE local == [pub[p] EXCEPT !.pc = "terminal", !.a = a]
  <1>1. local \in PublisherState /\ local.pc = "terminal" /\ local.a = a
    BY DEF TypeInv, TypeOK, HeadsTypeOK, PublisherState, PC
  <1>2. att[a].status # "none"
    BY DEF ProbeTerminal, Pending
  <1>3. pub' = [pub EXCEPT ![p] = local]
    BY DEF ProbeTerminal
  <1> HIDE DEF local
  <1> QED BY <1>1, <1>2, <1>3, PublisherMoves DEF ProbeTerminal

\* Every step of a promotion keeps the rows and the local state well typed.
LEMMA GotoTypeInv ==
    ASSUME TypeInv, NEW p \in Publishers, NEW pc \in PC \ {"idle", "terminal", "commit"},
           pub[p].pc \notin {"idle", "terminal"}, Goto(p, pc),
           UNCHANGED <<lifecycleVars, now, plan, gen, head, pubClock, inventory, pins, crashes>>
    PROVE  TypeInv'
  <1> DEFINE local == [pub[p] EXCEPT !.pc = pc]
  <1>1. local \in PublisherState /\ local.pc = pc /\ local.a = pub[p].a
    BY DEF TypeInv, TypeOK, HeadsTypeOK, PublisherState
  <1>2. pub[p].a \in Attempts /\ att[pub[p].a].status # "none" /\ Declared(pub[p].a)
    BY DEF TypeInv, BusyPublishers
  <1>3. pub' = [pub EXCEPT ![p] = local]
    BY DEF Goto
  <1> HIDE DEF local
  <1> QED BY <1>1, <1>2, <1>3, PublisherMoves

LEMMA ReconcileReadTypeInv ==
    ASSUME TypeInv, NEW p \in Publishers, ReconcileRead(p) PROVE TypeInv'
  <1> DEFINE a == pub[p].a
  <1>1. CASE Return(p)
    BY <1>1, ReturnTypeInv
  <1>2. CASE Goto(p, "pin") /\ UNCHANGED <<lifecycleVars, now, plan, gen, head, pubClock,
                                          inventory, pins, crashes>>
    <2>1. pub[p].pc = "reconcile"
      BY DEF ReconcileRead
    <2> QED BY <1>2, <2>1, GotoTypeInv DEF PC
  <1>3. ASSUME NEW batch \in SUBSET ChunkKeys,
               pub' = [pub EXCEPT ![p] = [@ EXCEPT !.pc = "verify", !.batch = batch]],
               UNCHANGED <<lifecycleVars, now, plan, gen, head, pubClock, inventory, pins,
                           crashes>>
        PROVE  TypeInv'
    <2> DEFINE local == [pub[p] EXCEPT !.pc = "verify", !.batch = batch]
    <2>1. local \in PublisherState /\ local.pc = "verify" /\ local.a = a
      BY DEF TypeInv, TypeOK, HeadsTypeOK, PublisherState, PC
    <2>2. a \in Attempts /\ att[a].status # "none" /\ Declared(a)
      BY DEF ReconcileRead, TypeInv, BusyPublishers
    <2>3. pub' = [pub EXCEPT ![p] = local]
      BY <1>3
    <2> HIDE DEF local
    <2> QED BY <1>3, <2>1, <2>2, <2>3, PublisherMoves
  <1>4. Recorded(a) \ validated[a] \subseteq ChunkKeys
    BY DEF Recorded
  <1> QED BY <1>1, <1>2, <1>3, <1>4 DEF ReconcileRead

LEMMA ReconcileVerifyTypeInv ==
    ASSUME TypeInv, NEW p \in Publishers, ReconcileVerify(p) PROVE TypeInv'
  <1>1. CASE Return(p)
    BY <1>1, ReturnTypeInv
  <1>2. CASE Goto(p, "seal") /\ UNCHANGED <<lifecycleVars, now, plan, gen, head, pubClock,
                                           inventory, pins, crashes>>
    <2>1. pub[p].pc = "verify"
      BY DEF ReconcileVerify
    <2> QED BY <1>2, <2>1, GotoTypeInv DEF PC
  <1> QED BY <1>1, <1>2 DEF ReconcileVerify

\* Sealing changes only the status of the attempt.
LEMMA SealedType ==
    ASSUME att \in [Attempts -> AttemptRow], NEW a \in Attempts,
           att' = [att EXCEPT ![a].status = "sealed"]
    PROVE  /\ att' \in [Attempts -> AttemptRow]
           /\ \A x \in Attempts : /\ att'[x].run = att[x].run
                                  /\ att'[x].scope = att[x].scope
                                  /\ att'[x].epoch = att[x].epoch
                                  /\ att'[x].status = IF x = a THEN "sealed" ELSE att[x].status
  BY DEF AttemptRow, AttemptStatus

LEMMA GotoType ==
    ASSUME pub \in [Publishers -> PublisherState], NEW p \in Publishers, NEW pc \in PC,
           Goto(p, pc)
    PROVE  /\ pub' \in [Publishers -> PublisherState]
           /\ \A q \in Publishers : /\ pub'[q].a = pub[q].a
                                    /\ pub'[q].parent = pub[q].parent
                                    /\ pub'[q].reuse = pub[q].reuse
                                    /\ pub'[q].pc = IF q = p THEN pc ELSE pub[q].pc
  BY DEF Goto, PublisherState

LEMMA ReconcileSealTypeInv ==
    ASSUME TypeInv, NEW p \in Publishers, ReconcileSeal(p) PROVE TypeInv'
  <1> DEFINE a == pub[p].a
             done == validated[a] \cup pub[p].batch
  <1>0. a \in Attempts /\ att[a].status # "none" /\ Declared(a) /\ pub[p].batch \subseteq ChunkKeys
    BY DEF ReconcileSeal, TypeInv, BusyPublishers, TypeOK, HeadsTypeOK, PublisherState
  <1>1. CASE Return(p)
    BY <1>1, ReturnTypeInv
  <1>2. CASE ~Return(p)
    <2>1. /\ validated' = [validated EXCEPT ![a] = done]
          /\ UNCHANGED <<run, orch, owner, expected, closure, chunk, files,
                         now, plan, gen, head, pubClock, inventory, pins, crashes>>
      BY <1>2 DEF ReconcileSeal
    <2>2. validated' \in [Attempts -> SUBSET ChunkKeys]
      BY <1>0, <2>1 DEF TypeInv, TypeOK, LifecycleTypeOK
    <2>3. CASE att' = [att EXCEPT ![a].status = "sealed"] /\ Goto(p, "pin")
      <3>1. /\ att' \in [Attempts -> AttemptRow]
            /\ \A x \in Attempts : /\ att'[x].run = att[x].run
                                   /\ att'[x].scope = att[x].scope
                                   /\ att'[x].status # "none" <=> att[x].status # "none"
        <4> HIDE DEF a
        <4>1. att \in [Attempts -> AttemptRow]
          BY DEF TypeInv, TypeOK, LifecycleTypeOK
        <4>2. /\ att' \in [Attempts -> AttemptRow]
              /\ \A x \in Attempts : /\ att'[x].run = att[x].run
                                     /\ att'[x].scope = att[x].scope
                                     /\ att'[x].status = IF x = a THEN "sealed" ELSE att[x].status
          BY <1>0, <2>3, <4>1, SealedType
        <4> QED BY <1>0, <4>2
      <3>2. /\ pub' \in [Publishers -> PublisherState]
            /\ \A q \in Publishers : /\ pub'[q].a = pub[q].a
                                     /\ pub'[q].parent = pub[q].parent
                                     /\ pub'[q].reuse = pub[q].reuse
                                     /\ pub'[q].pc = IF q = p THEN "pin" ELSE pub[q].pc
        BY <2>3, GotoType DEF TypeInv, TypeOK, HeadsTypeOK, PC
      <3>3. BusyPublishers'
        BY <1>0, <2>1, <3>1, <3>2 DEF TypeInv, BusyPublishers, Declared
      <3> QED BY <2>1, <2>2, <3>1, <3>2, <3>3
          DEF TypeInv, TypeOK, LifecycleTypeOK, HeadsTypeOK, CreatedAttempts
    <2>4. CASE pub' = [pub EXCEPT ![p] = Idle] /\ UNCHANGED att
      BY <2>1, <2>2, <2>4 DEF TypeInv, TypeOK, LifecycleTypeOK, HeadsTypeOK, CreatedAttempts,
          BusyPublishers, Declared, Idle, PublisherState, PC
    <2> QED BY <1>2, <2>3, <2>4 DEF ReconcileSeal
  <1> QED BY <1>1, <1>2

LEMMA PinArtifactsTypeInv ==
    ASSUME TypeInv, NEW p \in Publishers, PinArtifacts(p) PROVE TypeInv'
  <1> DEFINE a == pub[p].a
             parent == head[plan[a].ns].gen
             local == [pub[p] EXCEPT !.pc = "read", !.parent = parent]
  <1>1. CASE Return(p)
    BY <1>1, ReturnTypeInv
  <1>2. CASE /\ pins' = [pins EXCEPT ![a] = Pinned(@, parent)]
             /\ pub' = [pub EXCEPT ![p] = local]
             /\ UNCHANGED <<lifecycleVars, now, plan, gen, head, pubClock, inventory, crashes>>
    <2>1. a \in Attempts /\ att[a].status # "none" /\ Declared(a)
      BY DEF PinArtifacts, TypeInv, BusyPublishers
    <2>2. parent \in Attempts \cup {None}
      BY <2>1 DEF TypeInv, TypeOK, HeadsTypeOK, PlanRow, HeadRow, Declared
    <2> HIDE DEF parent
    <2>3. local \in PublisherState /\ local.pc = "read" /\ local.a = a
      BY <2>2 DEF TypeInv, TypeOK, HeadsTypeOK, PublisherState, PC
    <2> HIDE DEF local
    <2>4. pub' \in [Publishers -> PublisherState]
      BY <1>2, <2>3 DEF TypeInv, TypeOK, HeadsTypeOK
    <2>5. BusyPublishers'
      BY <1>2, <2>1, <2>3
      DEF TypeInv, TypeOK, HeadsTypeOK, BusyPublishers, Declared, lifecycleVars
    <2>6. pins' \in [Attempts -> PinRow]
      BY <1>2, <2>1, <2>2 DEF TypeInv, TypeOK, HeadsTypeOK, Pinned, PinRow
    <2> QED BY <1>2, <2>4, <2>5, <2>6 DEF lifecycleVars, TypeInv, TypeOK, LifecycleTypeOK,
          HeadsTypeOK, CreatedAttempts
  <1> QED BY <1>1, <1>2 DEF PinArtifacts

LEMMA ReadArtifactsTypeInv ==
    ASSUME TypeInv, NEW p \in Publishers, ReadArtifacts(p) PROVE TypeInv'
  <1> DEFINE a == pub[p].a
             reuse == pub[p].parent # None /\ plan[pub[p].parent].content = plan[a].content
             local == [pub[p] EXCEPT !.pc = "commit", !.reuse = reuse]
  <1>1. CASE Return(p)
    BY <1>1, ReturnTypeInv
  <1>2. CASE /\ pub' = [pub EXCEPT ![p] = local]
             /\ UNCHANGED <<lifecycleVars, now, plan, gen, head, pubClock, inventory, pins,
                            crashes>>
    <2>1. a \in Attempts /\ att[a].status # "none" /\ Declared(a)
      BY DEF ReadArtifacts, TypeInv, BusyPublishers
    <2>2. reuse \in BOOLEAN /\ (reuse => pub[p].parent # None)
      OBVIOUS
    <2> HIDE DEF reuse
    <2>3. /\ local \in PublisherState
          /\ local.pc = "commit" /\ local.a = a /\ local.reuse = reuse
          /\ local.parent = pub[p].parent
      BY <2>2 DEF TypeInv, TypeOK, HeadsTypeOK, PublisherState, PC
    <2> HIDE DEF local
    <2> QED BY <1>2, <2>1, <2>2, <2>3, PublisherMoves
  <1> QED BY <1>1, <1>2 DEF ReadArtifacts

LEMMA RetireTerminalTypeInv ==
    ASSUME TypeInv, NEW p \in Publishers, RetireTerminal(p) PROVE TypeInv'
  <1> DEFINE a == pub[p].a
             r == att[a].run
  <1>1. CASE Return(p)
    BY <1>1, ReturnTypeInv
  <1>2. CASE ~Return(p)
    <2>1. /\ Retired(a)
          /\ run' = [run EXCEPT ![r] = IF @ = "running" THEN "failed" ELSE @]
          /\ pub' = [pub EXCEPT ![p] = Idle]
          /\ UNCHANGED <<orch, owner, expected, closure, chunk, validated, files,
                         now, plan, gen, head, pubClock, inventory, crashes>>
      BY <1>2 DEF RetireTerminal
    <2>2. a \in Attempts /\ r \in Runs
      BY DEF RetireTerminal, TypeInv, BusyPublishers, CreatedAttempts
    <2> HIDE DEF a, r
    <2>3. /\ att' \in [Attempts -> AttemptRow]
          /\ pins' \in [Attempts -> PinRow]
          /\ \A x \in Attempts : /\ att'[x].run = att[x].run
                                 /\ att'[x].scope = att[x].scope
                                 /\ att'[x].status = "none" <=> att[x].status = "none"
      BY <2>1, <2>2, RetiredType DEF TypeInv, TypeOK, LifecycleTypeOK, HeadsTypeOK
    <2>4. run' \in [Runs -> RunStatus]
      BY <2>1, <2>2 DEF TypeInv, TypeOK, LifecycleTypeOK, RunStatus
    <2>5. pub' \in [Publishers -> PublisherState]
      BY <2>1 DEF TypeInv, TypeOK, HeadsTypeOK, Idle, PublisherState, PC
    <2>6. BusyPublishers'
      BY <2>1, <2>3 DEF TypeInv, TypeOK, HeadsTypeOK, BusyPublishers, Declared, Idle
    <2>7. CreatedAttempts'
      BY <2>3 DEF TypeInv, CreatedAttempts
    <2> QED BY <2>1, <2>3, <2>4, <2>5, <2>6, <2>7
        DEF TypeInv, TypeOK, LifecycleTypeOK, HeadsTypeOK
  <1> QED BY <1>1, <1>2

\* The watermark is a time past every earlier one.
LEMMA WatermarkAdvances ==
    ASSUME now \in Nat, pubClock \in Nat
    PROVE  NextWatermark \in Nat /\ NextWatermark > pubClock
  BY DEF NextWatermark, Greater

LEMMA CommitHeadTypeInv ==
    ASSUME TypeInv, NEW p \in Publishers, CommitHead(p) PROVE TypeInv'
  <1> DEFINE a == pub[p].a
             n == plan[a].ns
             old == head[n]
             g == [at |-> NextWatermark, parent |-> old.gen,
                   files |-> IF pub[p].reuse THEN gen[old.gen].files ELSE a]
             h == [gen |-> a, version |-> old.version + 1, rev |-> plan[a].rev,
                   fetched |-> Greater(plan[a].fetched, old.fetched),
                   content |-> plan[a].content]
  <1>1. CASE Return(p)
    BY <1>1, ReturnTypeInv
  <1>2. CASE ~Return(p)
    <2>1. /\ MayCommit(p)
          /\ pubClock' = NextWatermark
          /\ gen' = [gen EXCEPT ![a] = g]
          /\ head' = [head EXCEPT ![n] = h]
          /\ \E V \in SUBSET LocationsOf[n] : RecordApproved(a, NextWatermark, V)
          /\ pins' = [pins EXCEPT ![a] = NoPins]
          /\ pub' = [pub EXCEPT ![p] = Idle]
          /\ UNCHANGED <<lifecycleVars, now, plan, crashes>>
      BY <1>2 DEF CommitHead
    <2>2. a \in Attempts /\ n \in Namespaces /\ pub[p].pc = "commit"
      BY DEF CommitHead, TypeInv, BusyPublishers, TypeOK, HeadsTypeOK, PlanRow, Declared
    <2>3. NextWatermark \in Nat
      BY WatermarkAdvances DEF TypeInv, TypeOK, HeadsTypeOK
    <2>4. old \in HeadRow /\ plan[a] \in PlanRow
      BY <2>2 DEF TypeInv, TypeOK, HeadsTypeOK
    <2>5. pub[p].reuse => old.gen \in Attempts
      BY <2>1, <2>2, <2>4 DEF MayCommit, TypeInv, BusyPublishers, HeadRow
    <2>6. g \in GenerationRow
      BY <2>2, <2>3, <2>4, <2>5 DEF TypeInv, TypeOK, HeadsTypeOK, GenerationRow, HeadRow
    <2>7. h \in HeadRow
      BY <2>2, <2>4 DEF HeadRow, PlanRow, Greater
    <2>8. inventory' \in [Locations -> InventoryRow]
      BY <2>1, <2>2, <2>3, RecordApprovedType DEF TypeInv, TypeOK, HeadsTypeOK
    <2> HIDE DEF a, n, old, g, h
    <2>9. gen' \in [Attempts -> GenerationRow] /\ head' \in [Namespaces -> HeadRow]
      BY <2>1, <2>2, <2>6, <2>7 DEF TypeInv, TypeOK, HeadsTypeOK
    <2>10. pins' \in [Attempts -> PinRow]
      BY <2>1, <2>2 DEF TypeInv, TypeOK, HeadsTypeOK, NoPins, PinRow
    <2>11. pub' \in [Publishers -> PublisherState]
      BY <2>1 DEF TypeInv, TypeOK, HeadsTypeOK, Idle, PublisherState, PC
    <2>12. BusyPublishers'
      BY <2>1 DEF TypeInv, TypeOK, HeadsTypeOK, BusyPublishers, Declared, Idle, lifecycleVars
    <2> QED BY <2>1, <2>3, <2>8, <2>9, <2>10, <2>11, <2>12
        DEF TypeInv, TypeOK, LifecycleTypeOK, HeadsTypeOK, CreatedAttempts, lifecycleVars
  <1> QED BY <1>1, <1>2

LEMMA TickTypeInv == ASSUME TypeInv, Tick PROVE TypeInv'
  BY DEF Tick, lifecycleVars, TypeInv, TypeOK, LifecycleTypeOK, HeadsTypeOK,
         CreatedAttempts, BusyPublishers, Declared

LEMMA StutterTypeInv == ASSUME TypeInv, UNCHANGED vars PROVE TypeInv'
  BY DEF vars, headVars, lifecycleVars, TypeInv, TypeOK, LifecycleTypeOK, HeadsTypeOK,
         CreatedAttempts, BusyPublishers, Declared

\* The inductive step: every action keeps the type invariant.
LEMMA NextTypeInv == TypeInv /\ [Next]_vars => TypeInv'
  <1> SUFFICES ASSUME TypeInv, [Next]_vars PROVE TypeInv'
    OBVIOUS
  <1>1. CASE \E r \in Runs : RunStep(r)
    BY <1>1, RunStepTypeInv
  <1>2. CASE \E a \in Attempts :
               \/ CollectorStep(a)
               \/ \E n \in Namespaces : Declare(a, n)
               \/ \E c \in Contents, f, v \in 0 .. now, K \in SUBSET ChunkKeys :
                     BindResponse(a, c, f, v, K)
               \/ RetireSettled(a)
    BY <1>2, CollectorStepTypeInv, DeclareTypeInv, BindTypeInv, RetireTypeInv
  <1>3. CASE \E p \in Publishers :
               \/ \E a \in Attempts : StartPromotion(p, a) \/ ProbeTerminal(p, a)
               \/ PublisherStep(p)
               \/ Crash(p)
    BY <1>3, StartTypeInv, ProbeTypeInv, CrashTypeInv, ReconcileReadTypeInv,
       ReconcileVerifyTypeInv, ReconcileSealTypeInv, PinArtifactsTypeInv,
       ReadArtifactsTypeInv, CommitHeadTypeInv, RetireTerminalTypeInv DEF PublisherStep
  <1> QED BY <1>1, <1>2, <1>3, TickTypeInv, BootstrapTypeInv, StutterTypeInv DEF Next

\* Type correctness: every reachable state of the collectors, the publishers and
\* the rows they share is well typed, for any number of each.
THEOREM TypeCorrect == Spec => []TypeOK
  <1>1. Spec => []TypeInv
    BY InitTypeInv, NextTypeInv, PTL DEF Spec
  <1> QED BY <1>1, PTL DEF TypeInv

-----------------------------------------------------------------------------
(***************************************************************************)
(* The safety of publication.                                              *)
(***************************************************************************)

\* A scope is only ever claimed for an attempt that was created.
ClaimedAttempts ==
    \A a \in Attempts : att[a].epoch # 0 => att[a].status # "none"

\* A descriptor is only declared by an attempt that claimed its scope.
DeclaredAttempts ==
    \A a \in Attempts : Declared(a) => att[a].epoch # 0 /\ ScopeOf[plan[a].ns] = att[a].scope

\* A response is only bound to a declared descriptor, and was fetched since.
BoundAttempts ==
    \A a \in Attempts : Bound(a) =>
        Declared(a) /\ plan[a].bound <= plan[a].fetched /\ plan[a].fetched <= now

\* Only a bound response gets as far as the files, ...
PromotedAttempts ==
    \A p \in Publishers : pub[p].pc \in {"read", "commit"} => Bound(pub[p].a)

\* ... so a generation and its parent are bound, as is the generation of a head,
PublishedAttempts ==
    /\ \A a \in Attempts : Committed(a) =>
          Bound(a) /\ (gen[a].parent # None => Bound(gen[a].parent))
    /\ \A n \in Namespaces : head[n].gen # None =>
          Bound(head[n].gen) /\ plan[head[n].gen].content = head[n].content

\* and no publication is newer than the watermark.
WatermarkIsLast ==
    \A a \in Attempts : gen[a].at <= pubClock

\* What an unpublished owner may rely on: the head it will replace was fetched
\* before its own descriptor was declared, and has no more than twice the
\* points of its own response.
OwnerReplaces(a, h) ==
    /\ plan[h.gen].fetched <= plan[a].bound
    /\ Bound(a) => Points[h.content] <= 2 * Points[plan[a].content]

OwnerOutlastsHead ==
    \A a \in Attempts :
        CurrentOwner(a) /\ Declared(a) /\ ~Committed(a) /\ head[plan[a].ns].gen # None
            => OwnerReplaces(a, head[plan[a].ns])

\* The inductive invariant.
Support ==
    /\ ClaimedAttempts
    /\ DeclaredAttempts
    /\ BoundAttempts
    /\ PromotedAttempts
    /\ PublishedAttempts
    /\ WatermarkIsLast
    /\ OwnerOutlastsHead

Safety ==
    /\ OwnerFreezesHead
    /\ ShrinkBounded
    /\ FetchNeverOlder
    /\ WatermarkOrders

IInv == TypeInv /\ Support /\ Safety

-----------------------------------------------------------------------------
(***************************************************************************)
(* Steps that publish nothing.                                             *)
(***************************************************************************)

\* What such a step does to ownership: a claimed attempt keeps its epoch and
\* its scope and can only lose the ownership of it.
OwnersKept ==
    \A x \in Attempts :
        /\ att'[x].epoch # 0 => att'[x].status # "none"
        /\ att[x].epoch # 0 => /\ att'[x].epoch = att[x].epoch
                               /\ att'[x].scope = att[x].scope
                               /\ CurrentOwner(x)' => CurrentOwner(x)

\* What it does to the publishers: none gets to the files.
PublishersKept ==
    \A p \in Publishers : pub'[p].pc \in {"read", "commit"} =>
        /\ pub[p].pc \in {"read", "commit"}
        /\ pub'[p].a = pub[p].a
        /\ pub'[p].parent = pub[p].parent

LEMMA QuietStep ==
    ASSUME IInv, OwnersKept, PublishersKept, now' \in Nat, now <= now',
           UNCHANGED <<plan, gen, head, pubClock>>
    PROVE  Support' /\ Safety'
  <1> USE DEF IInv, Support, Safety, TypeInv, TypeOK, HeadsTypeOK
  <1>1. ClaimedAttempts'
    BY DEF OwnersKept, ClaimedAttempts
  <1>2. DeclaredAttempts'
    BY DEF OwnersKept, DeclaredAttempts, Declared
  <1>3. BoundAttempts'
    <2> SUFFICES ASSUME NEW a \in Attempts, Bound(a)'
                 PROVE  (Declared(a) /\ plan[a].bound <= plan[a].fetched /\ plan[a].fetched <= now)'
      BY DEF BoundAttempts
    <2>1. Declared(a) /\ plan[a].bound <= plan[a].fetched /\ plan[a].fetched <= now
      BY DEF BoundAttempts, Bound
    <2>2. plan[a].fetched \in Nat
      BY DEF PlanRow
    <2> QED BY <2>1, <2>2 DEF Declared
  <1>4. PromotedAttempts'
    BY DEF PublishersKept, PromotedAttempts, Bound
  <1>5. PublishedAttempts' /\ WatermarkIsLast'
    BY DEF PublishedAttempts, WatermarkIsLast, Committed, Bound
  <1>6. OwnerOutlastsHead'
    BY DEF OwnersKept, OwnerOutlastsHead, OwnerReplaces, DeclaredAttempts, Declared, Bound,
           Committed
  <1>7. OwnerFreezesHead'
    <2> SUFFICES ASSUME NEW p \in Publishers, pub'[p].pc \in {"read", "commit"},
                        CurrentOwner(pub[p].a)', ~Committed(pub[p].a)'
                 PROVE  head'[plan'[pub'[p].a].ns].gen = pub'[p].parent
      BY DEF OwnerFreezesHead
    <2>1. /\ pub[p].pc \in {"read", "commit"}
          /\ pub'[p].a = pub[p].a
          /\ pub'[p].parent = pub[p].parent
      BY DEF PublishersKept
    <2>2. pub[p].a \in Attempts /\ Declared(pub[p].a)
      BY <2>1 DEF BusyPublishers
    <2>3. att[pub[p].a].epoch # 0
      BY <2>2 DEF DeclaredAttempts
    <2>4. CurrentOwner(pub[p].a)
      BY <2>1, <2>2, <2>3 DEF OwnersKept, CurrentOwner
    <2> QED BY <2>1, <2>4 DEF OwnerFreezesHead, Committed
  <1>8. ShrinkBounded' /\ FetchNeverOlder' /\ WatermarkOrders'
    BY DEF ShrinkBounded, FetchNeverOlder, WatermarkOrders, Committed
  <1> QED BY <1>1, <1>2, <1>3, <1>4, <1>5, <1>6, <1>7, <1>8

\* Rows that did not change keep their owners.
LEMMA SameOwners ==
    ASSUME ClaimedAttempts, UNCHANGED <<att, owner>> PROVE OwnersKept
  BY DEF ClaimedAttempts, OwnersKept, CurrentOwner

\* A change of status, of plan_closed_at or of nothing at all keeps them too.
LEMMA SameClaims ==
    ASSUME ClaimedAttempts, UNCHANGED owner,
           \A x \in Attempts : /\ att'[x].epoch = att[x].epoch
                               /\ att'[x].scope = att[x].scope
                               /\ att[x].status # "none" => att'[x].status # "none"
    PROVE  OwnersKept
  BY DEF ClaimedAttempts, OwnersKept, CurrentOwner

LEMMA SamePublishers == ASSUME UNCHANGED pub PROVE PublishersKept
  BY DEF PublishersKept

\* The scope changes hands: only the attempt that claims it gains anything.
LEMMA ClaimKeepsOwners ==
    ASSUME TypeInv, ClaimedAttempts, NEW a \in Attempts, Claim(a) PROVE OwnersKept
  <1> DEFINE s == att[a].scope
             e == owner[s].epoch + 1
             row == [att[a] EXCEPT !.epoch = e]
  <1>1. /\ owner' = [owner EXCEPT ![s] = [epoch |-> e, active |-> a]]
        /\ att' = [att EXCEPT ![a] = row]
        /\ att[a].epoch = 0
        /\ att[a].status = "preparing"
    BY DEF Claim, Preparing
  <1>2. row.status = "preparing"
    BY <1>1 DEF TypeInv, TypeOK, LifecycleTypeOK, AttemptRow
  <1>3. s \in Scopes
    BY <1>1 DEF TypeInv, CreatedAttempts
  <1> HIDE DEF s, e, row
  <1>4. \A x \in Attempts : att'[x] = IF x = a THEN row ELSE att[x]
    BY <1>1 DEF TypeInv, TypeOK, LifecycleTypeOK
  <1>5. ASSUME NEW x \in Attempts, att[x].epoch # 0, CurrentOwner(x)'
        PROVE  CurrentOwner(x)
    <2>1. x # a /\ att'[x] = att[x]
      BY <1>1, <1>4, <1>5
    <2>2. att[x].scope \in Scopes
      BY <1>5 DEF TypeInv, CreatedAttempts, ClaimedAttempts
    <2>3. att[x].scope # s
      BY <1>1, <1>3, <1>5, <2>1 DEF CurrentOwner, TypeInv, TypeOK, LifecycleTypeOK
    <2> QED BY <1>1, <1>3, <1>5, <2>1, <2>2, <2>3
        DEF CurrentOwner, TypeInv, TypeOK, LifecycleTypeOK
  <1> QED BY <1>1, <1>2, <1>4, <1>5 DEF OwnersKept, ClaimedAttempts

LEMMA CollectorKeepsOwners ==
    ASSUME TypeInv, ClaimedAttempts, NEW a \in Attempts, CollectorStep(a) PROVE OwnersKept
  <1> USE DEF TypeInv, TypeOK, LifecycleTypeOK
  <1>1. CASE \E r \in Runs, s \in Scopes : CreateExportAttempt(a, r, s)
    <2>1. PICK r \in Runs, s \in Scopes : CreateExportAttempt(a, r, s)
      BY <1>1
    <2> DEFINE row == [status |-> "preparing", run |-> r, scope |-> s,
                       epoch |-> 0, closed |-> FALSE]
    <2>2. att' = [att EXCEPT ![a] = row] /\ att[a].status = "none" /\ owner' = owner
      BY <2>1 DEF CreateExportAttempt
    <2>3. row.epoch = 0
      OBVIOUS
    <2> HIDE DEF row
    <2>4. \A x \in Attempts : att'[x] = IF x = a THEN row ELSE att[x]
      BY <2>2
    <2>5. att[a].epoch = 0
      BY <2>2 DEF ClaimedAttempts
    <2> QED BY <2>2, <2>3, <2>4, <2>5 DEF OwnersKept, ClaimedAttempts, CurrentOwner
  <1>2. CASE Claim(a)
    BY <1>2, ClaimKeepsOwners
  <1>3. CASE UNCHANGED <<att, owner>>
    BY <1>3, SameOwners
  <1>4. CASE ClosePlan(a)
    <2>1. att' = [att EXCEPT ![a] = [att[a] EXCEPT !.closed = TRUE]] /\ owner' = owner
      BY <1>4 DEF ClosePlan
    <2>2. \A x \in Attempts : /\ att'[x].epoch = att[x].epoch
                              /\ att'[x].scope = att[x].scope
                              /\ att'[x].status = att[x].status
      BY <2>1 DEF AttemptRow
    <2> QED BY <2>1, <2>2, SameClaims
  <1>5. CASE RejectAttempt(a)
    <2>1. att' = [att EXCEPT ![a] = [att[a] EXCEPT !.status = "failed"]] /\ owner' = owner
      BY <1>5 DEF RejectAttempt
    <2>2. \A x \in Attempts : /\ att'[x].epoch = att[x].epoch
                              /\ att'[x].scope = att[x].scope
                              /\ att[x].status # "none" => att'[x].status # "none"
      BY <2>1 DEF AttemptRow
    <2> QED BY <2>1, <2>2, SameClaims
  <1> QED BY <1>1, <1>2, <1>3, <1>4, <1>5
      DEF CollectorStep, ExpectChunk, CaptureChunk, RecordChunk, PublishArtifact, CloseSource

LEMMA RetiredKeepsOwners ==
    ASSUME TypeInv, ClaimedAttempts, NEW a \in Attempts, Retired(a), UNCHANGED owner
    PROVE  OwnersKept
  BY RetiredType, SameClaims DEF TypeInv, TypeOK, LifecycleTypeOK, HeadsTypeOK

\* A publisher that returns, crashes or begins is not at the files.
LEMMA MovedPublisher ==
    ASSUME TypeInv, NEW p \in Publishers, NEW local,
           pub' = [pub EXCEPT ![p] = local],
           local.pc \in {"read", "commit"} =>
               /\ pub[p].pc \in {"read", "commit"}
               /\ local.a = pub[p].a
               /\ local.parent = pub[p].parent
    PROVE  PublishersKept
  BY DEF PublishersKept, TypeInv, TypeOK, HeadsTypeOK

LEMMA IdlePublisher ==
    ASSUME TypeInv, NEW p \in Publishers, pub' = [pub EXCEPT ![p] = Idle] PROVE PublishersKept
  BY MovedPublisher DEF Idle

LEMMA GotoKeepsPublishers ==
    ASSUME TypeInv, NEW p \in Publishers, NEW pc \in PC \ {"read", "commit"}, Goto(p, pc)
    PROVE  PublishersKept
  BY GotoType DEF PublishersKept, TypeInv, TypeOK, HeadsTypeOK

\* The part of a step that the proofs below see.
QuietFrame ==
    /\ OwnersKept
    /\ PublishersKept
    /\ now' \in Nat /\ now <= now'
    /\ UNCHANGED <<plan, gen, head, pubClock>>

LEMMA ReturnIsQuiet ==
    ASSUME TypeInv, ClaimedAttempts, NEW p \in Publishers, Return(p) PROVE QuietFrame
  <1>1. OwnersKept
    BY SameOwners DEF Return, lifecycleVars
  <1>2. PublishersKept
    BY IdlePublisher DEF Return
  <1> QED BY <1>1, <1>2 DEF QuietFrame, Return, TypeInv, TypeOK, HeadsTypeOK

\* A step that changes no row but the publisher's local state.
LEMMA LocalIsQuiet ==
    ASSUME TypeInv, ClaimedAttempts, PublishersKept,
           UNCHANGED <<lifecycleVars, now, plan, gen, head, pubClock>>
    PROVE  QuietFrame
  BY SameOwners DEF QuietFrame, lifecycleVars, TypeInv, TypeOK, HeadsTypeOK

\* The steps of a promotion up to its pins.
LEMMA ReconcileIsQuiet ==
    ASSUME TypeInv, ClaimedAttempts, NEW p \in Publishers,
           ReconcileRead(p) \/ ReconcileVerify(p) \/ ReconcileSeal(p)
    PROVE  QuietFrame
  <1> DEFINE a == pub[p].a
  <1>1. CASE Return(p)
    BY <1>1, ReturnIsQuiet
  <1>2. CASE ReconcileRead(p) /\ ~Return(p)
    <2>1. UNCHANGED <<lifecycleVars, now, plan, gen, head, pubClock>>
      BY <1>2 DEF ReconcileRead
    <2>2. CASE Goto(p, "pin")
      BY <2>1, <2>2, GotoKeepsPublishers, LocalIsQuiet DEF PC
    <2>3. ASSUME NEW batch \in SUBSET (Recorded(a) \ validated[a]),
                 pub' = [pub EXCEPT ![p] = [@ EXCEPT !.pc = "verify", !.batch = batch]]
          PROVE  QuietFrame
      <3> DEFINE local == [pub[p] EXCEPT !.pc = "verify", !.batch = batch]
      <3>1. local.pc = "verify" /\ pub' = [pub EXCEPT ![p] = local]
        BY <2>3 DEF TypeInv, TypeOK, HeadsTypeOK, PublisherState
      <3> HIDE DEF local
      <3>2. PublishersKept
        BY <3>1, MovedPublisher
      <3> QED BY <2>1, <3>2, LocalIsQuiet
    <2> QED BY <1>2, <2>2, <2>3 DEF ReconcileRead
  <1>3. CASE ReconcileVerify(p) /\ ~Return(p)
    BY <1>3, GotoKeepsPublishers, LocalIsQuiet DEF ReconcileVerify, PC
  <1>4. CASE ReconcileSeal(p) /\ ~Return(p)
    <2>1. a \in Attempts
      BY <1>4 DEF ReconcileSeal, TypeInv, BusyPublishers
    <2>2. UNCHANGED <<owner, now, plan, gen, head, pubClock>>
      BY <1>4 DEF ReconcileSeal
    <2>3. CASE att' = [att EXCEPT ![a].status = "sealed"] /\ Goto(p, "pin")
      <3>1. att \in [Attempts -> AttemptRow]
        BY DEF TypeInv, TypeOK, LifecycleTypeOK
      <3> HIDE DEF a
      <3>2. \A x \in Attempts : /\ att'[x].epoch = att[x].epoch
                                /\ att'[x].scope = att[x].scope
                                /\ att'[x].status = IF x = a THEN "sealed" ELSE att[x].status
        BY <2>1, <2>3, <3>1, SealedType
      <3>3. OwnersKept
        BY <2>2, <3>2, SameClaims
      <3>4. PublishersKept
        BY <2>3, GotoKeepsPublishers DEF PC
      <3> QED BY <2>2, <3>3, <3>4 DEF QuietFrame, TypeInv, TypeOK, HeadsTypeOK
    <2>4. CASE pub' = [pub EXCEPT ![p] = Idle] /\ UNCHANGED att
      <3>1. OwnersKept
        BY <2>2, <2>4, SameOwners
      <3>2. PublishersKept
        BY <2>4, IdlePublisher
      <3> QED BY <2>2, <3>1, <3>2 DEF QuietFrame, TypeInv, TypeOK, HeadsTypeOK
    <2> QED BY <1>4, <2>3, <2>4 DEF ReconcileSeal
  <1> QED BY <1>1, <1>2, <1>3, <1>4

LEMMA ReadIsQuiet ==
    ASSUME TypeInv, ClaimedAttempts, NEW p \in Publishers, ReadArtifacts(p) PROVE QuietFrame
  <1> DEFINE reuse == /\ pub[p].parent # None
                      /\ plan[pub[p].parent].content = plan[pub[p].a].content
             local == [pub[p] EXCEPT !.pc = "commit", !.reuse = reuse]
  <1>1. CASE Return(p)
    BY <1>1, ReturnIsQuiet
  <1>2. CASE /\ pub' = [pub EXCEPT ![p] = local]
             /\ UNCHANGED <<lifecycleVars, now, plan, gen, head, pubClock>>
    <2>1. local.a = pub[p].a /\ local.parent = pub[p].parent /\ pub[p].pc = "read"
      BY DEF ReadArtifacts, TypeInv, TypeOK, HeadsTypeOK, PublisherState
    <2> HIDE DEF local
    <2> QED BY <1>2, <2>1, MovedPublisher, LocalIsQuiet
  <1> QED BY <1>1, <1>2 DEF ReadArtifacts

LEMMA TerminalIsQuiet ==
    ASSUME TypeInv, ClaimedAttempts, NEW p \in Publishers, RetireTerminal(p) PROVE QuietFrame
  <1> DEFINE a == pub[p].a
  <1>1. CASE Return(p)
    BY <1>1, ReturnIsQuiet
  <1>2. CASE Retired(a) /\ pub' = [pub EXCEPT ![p] = Idle]
             /\ UNCHANGED <<owner, now, plan, gen, head, pubClock>>
    <2>1. a \in Attempts
      BY DEF RetireTerminal, TypeInv, BusyPublishers
    <2> HIDE DEF a
    <2>2. OwnersKept
      BY <1>2, <2>1, RetiredKeepsOwners
    <2>3. PublishersKept
      BY <1>2, IdlePublisher
    <2> QED BY <1>2, <2>2, <2>3 DEF QuietFrame, TypeInv, TypeOK, HeadsTypeOK
  <1> QED BY <1>1, <1>2 DEF RetireTerminal

LEMMA BeginIsQuiet ==
    ASSUME TypeInv, ClaimedAttempts, NEW p \in Publishers, NEW a \in Attempts,
           StartPromotion(p, a) \/ ProbeTerminal(p, a)
    PROVE  QuietFrame
  <1>1. PICK pc \in {"reconcile", "terminal"} :
           pub' = [pub EXCEPT ![p] = [pub[p] EXCEPT !.pc = pc, !.a = a]]
    BY DEF StartPromotion, ProbeTerminal
  <1> DEFINE local == [pub[p] EXCEPT !.pc = pc, !.a = a]
  <1>2. local.pc = pc
    BY DEF TypeInv, TypeOK, HeadsTypeOK, PublisherState
  <1> HIDE DEF local
  <1>3. PublishersKept
    BY <1>1, <1>2, MovedPublisher DEF local
  <1> QED BY <1>3, LocalIsQuiet DEF StartPromotion, ProbeTerminal

\* All the steps that publish nothing and plan nothing.
LEMMA QuietSteps ==
    ASSUME TypeInv, ClaimedAttempts,
           \/ Tick
           \/ \E r \in Runs : RunStep(r)
           \/ \E a \in Attempts : CollectorStep(a) \/ RetireSettled(a)
           \/ \E p \in Publishers, a \in Attempts : StartPromotion(p, a) \/ ProbeTerminal(p, a)
           \/ \E p \in Publishers :
                 \/ ReconcileRead(p) \/ ReconcileVerify(p) \/ ReconcileSeal(p)
                 \/ ReadArtifacts(p) \/ RetireTerminal(p) \/ Return(p) \/ Crash(p)
           \/ \E n \in Namespaces : BootstrapInventory(n)
           \/ UNCHANGED vars
    PROVE  QuietFrame
  <1>1. CASE Tick
    BY <1>1, SameOwners, SamePublishers
    DEF Tick, lifecycleVars, QuietFrame, TypeInv, TypeOK, HeadsTypeOK
  <1>2. CASE \E r \in Runs : RunStep(r)
    <2>1. UNCHANGED <<att, owner, pub, now, plan, gen, head, pubClock>>
      BY <1>2 DEF RunStep, StartSyncRun, FinishSyncRun, OrchestratorFinishes, headVars
    <2> QED BY <2>1, SameOwners, SamePublishers DEF QuietFrame, TypeInv, TypeOK, HeadsTypeOK
  <1>3. CASE \E a \in Attempts : CollectorStep(a)
    <2>1. UNCHANGED <<pub, now, plan, gen, head, pubClock>>
      BY <1>3 DEF CollectorStep, headVars
    <2> QED BY <1>3, <2>1, CollectorKeepsOwners, SamePublishers
        DEF QuietFrame, TypeInv, TypeOK, HeadsTypeOK
  <1>4. CASE \E a \in Attempts : RetireSettled(a)
    BY <1>4, RetiredKeepsOwners, SamePublishers
    DEF RetireSettled, QuietFrame, TypeInv, TypeOK, HeadsTypeOK
  <1>5. CASE \E p \in Publishers : Crash(p)
    BY <1>5, IdlePublisher, LocalIsQuiet DEF Crash
  <1>6. CASE \E n \in Namespaces : BootstrapInventory(n)
    BY <1>6, SamePublishers, LocalIsQuiet DEF BootstrapInventory
  <1>7. CASE UNCHANGED vars
    BY <1>7, SamePublishers, LocalIsQuiet DEF vars, headVars
  <1> QED BY <1>1, <1>2, <1>3, <1>4, <1>5, <1>6, <1>7, ReconcileIsQuiet, ReadIsQuiet,
             TerminalIsQuiet, BeginIsQuiet, ReturnIsQuiet

-----------------------------------------------------------------------------
(***************************************************************************)
(* The steps that plan: declare and bind.                                  *)
(***************************************************************************)

\* The declaration is made by the owner: whatever the head of its namespace
\* is, its response was fetched before now.
LEMMA DeclareSafe ==
    ASSUME IInv, NEW a \in Attempts, NEW n \in Namespaces, Declare(a, n)
    PROVE  Support' /\ Safety'
  <1> DEFINE row == [plan[a] EXCEPT !.ns = n, !.bound = now]
  <1>1. /\ plan' = [plan EXCEPT ![a] = row]
        /\ UNCHANGED <<att, owner, now, gen, head, pubClock, pub>>
        /\ CurrentOwner(a) /\ ~Declared(a) /\ ScopeOf[n] = att[a].scope
    BY DEF Declare, lifecycleVars
  <1>2. /\ row.ns = n /\ row.bound = now
        /\ row.content = plan[a].content /\ row.fetched = plan[a].fetched
    BY DEF IInv, TypeInv, TypeOK, HeadsTypeOK, PlanRow
  <1> HIDE DEF row
  <1>3. /\ plan'[a] = row
        /\ \A x \in Attempts : x # a => plan'[x] = plan[x]
    BY <1>1 DEF IInv, TypeInv, TypeOK, HeadsTypeOK
  <1>4. ~Bound(a) /\ ~Bound(a)'
    BY <1>1, <1>2, <1>3 DEF IInv, Support, BoundAttempts, Bound
  <1>5. \A x \in Attempts : Bound(x)' <=> Bound(x)
    BY <1>3, <1>4 DEF Bound
  <1>6. \A x \in Attempts : Bound(x) => plan'[x] = plan[x]
    BY <1>3, <1>4
  <1>7. \A x \in Attempts : CurrentOwner(x)' <=> CurrentOwner(x)
    BY <1>1 DEF CurrentOwner
  <1>8. \A x \in Attempts : Committed(x)' <=> Committed(x)
    BY <1>1 DEF Committed
  <1>9. ClaimedAttempts' /\ WatermarkIsLast' /\ WatermarkOrders'
    BY <1>1 DEF IInv, Support, Safety, ClaimedAttempts, WatermarkIsLast, WatermarkOrders,
        Committed
  <1>10. DeclaredAttempts'
    BY <1>1, <1>2, <1>3 DEF IInv, Support, DeclaredAttempts, Declared, CurrentOwner
  <1>11. BoundAttempts'
    BY <1>1, <1>5, <1>6 DEF IInv, Support, BoundAttempts, Declared
  <1>12. PromotedAttempts'
    BY <1>1, <1>5 DEF IInv, Support, TypeInv, PromotedAttempts, BusyPublishers
  <1>14. \A x \in Attempts : gen[x].parent \in Attempts \cup {None}
    BY DEF IInv, TypeInv, TypeOK, HeadsTypeOK, GenerationRow
  <1>15. \A m \in Namespaces : head[m].gen \in Attempts \cup {None}
    BY DEF IInv, TypeInv, TypeOK, HeadsTypeOK, HeadRow
  <1>16. PublishedAttempts'
    BY <1>1, <1>5, <1>6, <1>8, <1>14, <1>15 DEF IInv, Support, PublishedAttempts
  <1>17. OwnerOutlastsHead'
    <2> SUFFICES ASSUME NEW x \in Attempts, CurrentOwner(x), ~Committed(x), Declared(x)',
                        head[plan'[x].ns].gen # None
                 PROVE  OwnerReplaces(x, head[plan[x].ns])'
      BY <1>1, <1>7, <1>8 DEF OwnerOutlastsHead
    <2>1. CASE x = a
      <3>1. plan'[x].ns = n /\ plan'[x].bound = now
        BY <1>2, <1>3, <2>1
      <3>2. head[n].gen \in Attempts /\ Bound(head[n].gen)
        BY <1>15, <3>1 DEF IInv, Support, PublishedAttempts
      <3>3. plan'[head[n].gen].fetched <= now
        BY <1>6, <3>2 DEF IInv, Support, BoundAttempts
      <3> QED BY <1>1, <1>4, <2>1, <3>1, <3>3 DEF OwnerReplaces
    <2>2. CASE x # a
      <3>1. plan'[x] = plan[x] /\ Declared(x)
        BY <1>3, <2>2 DEF Declared
      <3>2. plan[x].ns \in Namespaces
        BY <3>1 DEF IInv, TypeInv, TypeOK, HeadsTypeOK, PlanRow, Declared
      <3>3. head[plan[x].ns].gen \in Attempts /\ Bound(head[plan[x].ns].gen)
        BY <1>15, <3>1, <3>2 DEF IInv, Support, PublishedAttempts
      <3>4. OwnerReplaces(x, head[plan[x].ns])
        BY <3>1 DEF IInv, Support, OwnerOutlastsHead
      <3> QED BY <1>1, <1>5, <1>6, <3>1, <3>3, <3>4 DEF OwnerReplaces
    <2> QED BY <2>1, <2>2
  <1>18. OwnerFreezesHead'
    <2>1. \A p \in Publishers : pub[p].pc \in {"read", "commit"} =>
             pub[p].a \in Attempts /\ plan'[pub[p].a] = plan[pub[p].a]
      BY <1>6 DEF IInv, Support, TypeInv, PromotedAttempts, BusyPublishers
    <2> QED BY <1>1, <1>7, <1>8, <2>1 DEF IInv, Safety, OwnerFreezesHead
  <1>19. ShrinkBounded' /\ FetchNeverOlder'
    BY <1>1, <1>6, <1>8, <1>14
    DEF IInv, Support, Safety, PublishedAttempts, ShrinkBounded, FetchNeverOlder
  <1> QED BY <1>9, <1>10, <1>11, <1>12, <1>16, <1>17, <1>18, <1>19 DEF Support, Safety

\* The response is bound by the owner, against the head as it is now: fetched
\* since the declaration, and past the shrink guard.
LEMMA BindSafe ==
    ASSUME IInv, NEW a \in Attempts, NEW c \in Contents, NEW f \in 0 .. now,
           NEW v \in 0 .. now, NEW K \in SUBSET ChunkKeys, BindResponse(a, c, f, v, K)
    PROVE  Support' /\ Safety'
  <1> DEFINE row == [plan[a] EXCEPT !.content = c, !.fetched = f, !.rev = v, !.parts = K]
  <1>1. /\ plan' = [plan EXCEPT ![a] = row]
        /\ UNCHANGED <<att, owner, now, gen, head, pubClock, pub>>
        /\ CurrentOwner(a) /\ Declared(a) /\ ~Bound(a) /\ ShrinkGuard(a, c)
        /\ plan[a].bound <= f /\ f <= now
    BY DEF BindResponse, ResponseTimes, lifecycleVars, IInv, TypeInv, TypeOK, HeadsTypeOK,
        PlanRow
  <1>2. /\ row.ns = plan[a].ns /\ row.bound = plan[a].bound
        /\ row.content = c /\ row.fetched = f
    BY DEF IInv, TypeInv, TypeOK, HeadsTypeOK, PlanRow
  <1> HIDE DEF row
  <1>3. /\ plan'[a] = row
        /\ \A x \in Attempts : x # a => plan'[x] = plan[x]
    BY <1>1 DEF IInv, TypeInv, TypeOK, HeadsTypeOK
  <1>4. \A x \in Attempts : Bound(x) => Bound(x)' /\ plan'[x] = plan[x]
    BY <1>1, <1>3 DEF Bound
  <1>5. \A x \in Attempts : Declared(x)' <=> Declared(x)
    BY <1>2, <1>3 DEF Declared
  <1>6. \A x \in Attempts : plan'[x].ns = plan[x].ns /\ plan'[x].bound = plan[x].bound
    BY <1>2, <1>3
  <1>7. \A x \in Attempts : CurrentOwner(x)' <=> CurrentOwner(x)
    BY <1>1 DEF CurrentOwner
  <1>8. \A x \in Attempts : Committed(x)' <=> Committed(x)
    BY <1>1 DEF Committed
  <1>9. ClaimedAttempts' /\ WatermarkIsLast' /\ WatermarkOrders'
    BY <1>1 DEF IInv, Support, Safety, ClaimedAttempts, WatermarkIsLast, WatermarkOrders,
        Committed
  <1>10. DeclaredAttempts'
    BY <1>1, <1>5, <1>6 DEF IInv, Support, DeclaredAttempts
  <1>11. BoundAttempts'
    BY <1>1, <1>2, <1>3, <1>5 DEF IInv, Support, BoundAttempts, Bound
  <1>12. PromotedAttempts'
    BY <1>1, <1>4 DEF IInv, Support, TypeInv, PromotedAttempts, BusyPublishers
  <1>13. \A x \in Attempts : gen[x].parent \in Attempts \cup {None}
    BY DEF IInv, TypeInv, TypeOK, HeadsTypeOK, GenerationRow
  <1>14. \A m \in Namespaces : head[m].gen \in Attempts \cup {None}
    BY DEF IInv, TypeInv, TypeOK, HeadsTypeOK, HeadRow
  <1>15. PublishedAttempts'
    BY <1>1, <1>4, <1>8, <1>13, <1>14 DEF IInv, Support, PublishedAttempts
  <1>16. OwnerOutlastsHead'
    <2> SUFFICES ASSUME NEW x \in Attempts, CurrentOwner(x), ~Committed(x), Declared(x),
                        head[plan[x].ns].gen # None
                 PROVE  OwnerReplaces(x, head[plan[x].ns])'
      BY <1>1, <1>5, <1>6, <1>7, <1>8 DEF OwnerOutlastsHead
    <2> DEFINE h == head[plan[x].ns]
    <2>1. plan[x].ns \in Namespaces
      BY DEF IInv, TypeInv, TypeOK, HeadsTypeOK, PlanRow, Declared
    <2>2. h.gen \in Attempts /\ Bound(h.gen) /\ h.content = plan[h.gen].content
      BY <1>14, <2>1 DEF IInv, Support, PublishedAttempts
    <2>3. OwnerReplaces(x, h)
      BY DEF IInv, Support, OwnerOutlastsHead
    <2>4. CASE x = a
      <3>1. h.content \in Contents
        BY <2>2 DEF Bound, IInv, TypeInv, TypeOK, HeadsTypeOK, PlanRow
      <3>2. Points[h.content] \in Nat /\ Points[c] \in Nat
        BY <3>1, HeadsAssumption
      <3>3. Points[h.content] <= 2 * Points[c]
        BY <1>1, <2>4, <3>2 DEF ShrinkGuard, HeadPoints
      <3> QED BY <1>1, <1>2, <1>3, <1>4, <2>2, <2>3, <2>4, <3>3 DEF OwnerReplaces
    <2>5. CASE x # a
      <3>1. plan'[x] = plan[x] /\ (Bound(x)' <=> Bound(x))
        BY <1>3, <2>5 DEF Bound
      <3> QED BY <1>1, <1>4, <2>2, <2>3, <3>1 DEF OwnerReplaces
    <2> QED BY <2>4, <2>5
  <1>17. OwnerFreezesHead'
    <2>1. \A p \in Publishers : pub[p].pc \in {"read", "commit"} =>
             pub[p].a \in Attempts /\ plan'[pub[p].a] = plan[pub[p].a]
      BY <1>4 DEF IInv, Support, TypeInv, PromotedAttempts, BusyPublishers
    <2> QED BY <1>1, <1>7, <1>8, <2>1 DEF IInv, Safety, OwnerFreezesHead
  <1>18. ShrinkBounded' /\ FetchNeverOlder'
    BY <1>1, <1>4, <1>8, <1>13
    DEF IInv, Support, Safety, PublishedAttempts, ShrinkBounded, FetchNeverOlder
  <1> QED BY <1>9, <1>10, <1>11, <1>12, <1>15, <1>16, <1>17, <1>18 DEF Support, Safety

-----------------------------------------------------------------------------
(***************************************************************************)
(* The steps that publish: pin and commit.                                 *)
(***************************************************************************)

\* Pinning reads the parent from the head.
LEMMA PinSafe ==
    ASSUME IInv, NEW p \in Publishers, PinArtifacts(p) PROVE Support' /\ Safety'
  <1> DEFINE a == pub[p].a
             parent == head[plan[a].ns].gen
             local == [pub[p] EXCEPT !.pc = "read", !.parent = parent]
  <1>1. CASE Return(p)
    BY <1>1, ReturnIsQuiet, QuietStep DEF IInv, Support, QuietFrame
  <1>2. CASE ~Return(p)
    <2>1. /\ pub' = [pub EXCEPT ![p] = local]
          /\ UNCHANGED <<att, owner, now, plan, gen, head, pubClock>>
          /\ Bound(a)
      BY <1>2 DEF PinArtifacts, lifecycleVars
    <2>2. /\ local.a = a /\ local.parent = parent
          /\ pub'[p] = local
          /\ \A q \in Publishers : q # p => pub'[q] = pub[q]
      BY <2>1 DEF IInv, TypeInv, TypeOK, HeadsTypeOK, PublisherState
    <2> HIDE DEF local
    <2>3. \A x : /\ CurrentOwner(x)' <=> CurrentOwner(x)
                 /\ Committed(x)' <=> Committed(x)
                 /\ Declared(x)' <=> Declared(x)
                 /\ Bound(x)' <=> Bound(x)
      BY <2>1 DEF CurrentOwner, Committed, Declared, Bound
    <2>4. PromotedAttempts'
      BY <2>1, <2>2, <2>3 DEF IInv, Support, PromotedAttempts
    <2>5. OwnerFreezesHead'
      <3> SUFFICES ASSUME NEW q \in Publishers, pub'[q].pc \in {"read", "commit"},
                          CurrentOwner(pub'[q].a), ~Committed(pub'[q].a)
                   PROVE  head[plan[pub'[q].a].ns].gen = pub'[q].parent
        BY <2>1 DEF OwnerFreezesHead, CurrentOwner, Committed
      <3>1. CASE q = p
        BY <2>2, <3>1
      <3>2. CASE q # p
        BY <2>2, <3>2 DEF IInv, Safety, OwnerFreezesHead
      <3> QED BY <3>1, <3>2
    <2>6. /\ ClaimedAttempts' /\ DeclaredAttempts' /\ BoundAttempts' /\ PublishedAttempts'
          /\ WatermarkIsLast' /\ OwnerOutlastsHead'
      BY <2>1, <2>3 DEF IInv, Support, ClaimedAttempts, DeclaredAttempts, BoundAttempts,
          PublishedAttempts, WatermarkIsLast, OwnerOutlastsHead, OwnerReplaces
    <2>7. ShrinkBounded' /\ FetchNeverOlder' /\ WatermarkOrders'
      BY <2>1, <2>3 DEF IInv, Safety, ShrinkBounded, FetchNeverOlder, WatermarkOrders
    <2> QED BY <2>4, <2>5, <2>6, <2>7 DEF Support, Safety
  <1> QED BY <1>1, <1>2

\* Two owners never plan the same namespace: it belongs to one scope, and a scope
\* has one active attempt.
LEMMA OwnersDiffer ==
    ASSUME DeclaredAttempts, NEW x \in Attempts, NEW y \in Attempts,
           Declared(x), Declared(y), CurrentOwner(x), CurrentOwner(y),
           plan[x].ns = plan[y].ns
    PROVE  x = y
  <1>1. att[x].scope = att[y].scope
    BY DEF DeclaredAttempts
  <1>2. [epoch |-> att[x].epoch, active |-> x] = [epoch |-> att[y].epoch, active |-> y]
    BY <1>1 DEF CurrentOwner
  <1> QED BY <1>2

\* The commit moves only the head of the namespace whose owner is published.
LEMMA CommitSafe ==
    ASSUME IInv, NEW p \in Publishers, CommitHead(p) PROVE Support' /\ Safety'
  <1> DEFINE a == pub[p].a
             n == plan[a].ns
             old == head[n]
             g == [at |-> NextWatermark, parent |-> old.gen,
                   files |-> IF pub[p].reuse THEN gen[old.gen].files ELSE a]
             h == [gen |-> a, version |-> old.version + 1, rev |-> plan[a].rev,
                   fetched |-> Greater(plan[a].fetched, old.fetched),
                   content |-> plan[a].content]
  <1>1. CASE Return(p)
    BY <1>1, ReturnIsQuiet, QuietStep DEF IInv, Support, QuietFrame
  <1>2. CASE ~Return(p)
    <2>1. /\ MayCommit(p)
          /\ pubClock' = NextWatermark
          /\ gen' = [gen EXCEPT ![a] = g]
          /\ head' = [head EXCEPT ![n] = h]
          /\ pub' = [pub EXCEPT ![p] = Idle]
          /\ UNCHANGED <<att, owner, now, plan>>
      BY <1>2 DEF CommitHead, lifecycleVars
    <2>2. a \in Attempts /\ Declared(a) /\ Bound(a) /\ n \in Namespaces
      BY DEF CommitHead, IInv, Support, TypeInv, BusyPublishers, PromotedAttempts, TypeOK,
          HeadsTypeOK, PlanRow, Declared
    <2>3. CurrentOwner(a) /\ ~Committed(a) /\ old.gen \in Attempts \cup {None}
      BY <2>1, <2>2 DEF MayCommit, IInv, TypeInv, TypeOK, HeadsTypeOK, HeadRow
    <2>4. NextWatermark \in Nat /\ NextWatermark > pubClock /\ pubClock \in Nat
      BY WatermarkAdvances DEF IInv, TypeInv, TypeOK, HeadsTypeOK
    <2>5. /\ g.at = NextWatermark /\ g.parent = old.gen
          /\ h.gen = a /\ h.content = plan[a].content
      OBVIOUS
    <2>6. old.gen # None => OwnerReplaces(a, old) /\ Bound(old.gen)
                            /\ plan[old.gen].content = old.content
      BY <2>2, <2>3 DEF IInv, Support, OwnerOutlastsHead, PublishedAttempts
    <2> HIDE DEF a, n, old, g, h
    <2>7. /\ gen'[a] = g
          /\ \A x \in Attempts : x # a => gen'[x] = gen[x]
      BY <2>1, <2>2 DEF IInv, TypeInv, TypeOK, HeadsTypeOK
    <2>8. /\ head'[n] = h
          /\ \A m \in Namespaces : m # n => head'[m] = head[m]
      BY <2>1, <2>2 DEF IInv, TypeInv, TypeOK, HeadsTypeOK
    <2>9. \A x \in Attempts : gen[x].at \in Nat /\ gen[x].at <= pubClock
      BY DEF IInv, Support, WatermarkIsLast, TypeInv, TypeOK, HeadsTypeOK, GenerationRow
    <2>10. \A x \in Attempts : Committed(x)' <=> Committed(x) \/ x = a
      BY <2>4, <2>5, <2>7 DEF Committed
    <2>11. \A x : /\ CurrentOwner(x)' <=> CurrentOwner(x)
                  /\ Declared(x)' <=> Declared(x)
                  /\ Bound(x)' <=> Bound(x)
      BY <2>1 DEF CurrentOwner, Declared, Bound
    <2>12. \A x \in Attempts : Declared(x) => plan[x].ns \in Namespaces
      BY DEF IInv, TypeInv, TypeOK, HeadsTypeOK, PlanRow, Declared
    <2>13. ASSUME NEW x \in Attempts, Declared(x), CurrentOwner(x), ~Committed(x)'
           PROVE  ~Committed(x) /\ head'[plan[x].ns] = head[plan[x].ns]
      <3>1. x # a /\ ~Committed(x)
        BY <2>10, <2>13
      <3>2. plan[x].ns # n
        BY <2>2, <2>3, <2>13, <3>1, OwnersDiffer DEF IInv, Support, n
      <3> QED BY <2>8, <2>12, <2>13, <3>1, <3>2
    <2>14. ClaimedAttempts' /\ DeclaredAttempts' /\ BoundAttempts'
      BY <2>1, <2>11
      DEF IInv, Support, ClaimedAttempts, DeclaredAttempts, BoundAttempts
    <2>15. \A q \in Publishers : pub'[q].pc \in {"read", "commit"} => q # p /\ pub'[q] = pub[q]
      BY <2>1 DEF IInv, TypeInv, TypeOK, HeadsTypeOK, Idle
    <2>16. PromotedAttempts'
      BY <2>11, <2>15 DEF IInv, Support, PromotedAttempts
    <2>17. PublishedAttempts'
      <3>1. ASSUME NEW x \in Attempts, Committed(x)'
            PROVE  Bound(x) /\ (gen'[x].parent # None => Bound(gen'[x].parent))
        BY <2>2, <2>5, <2>6, <2>7, <2>10, <3>1 DEF IInv, Support, PublishedAttempts
      <3>2. ASSUME NEW m \in Namespaces, head'[m].gen # None
            PROVE  Bound(head'[m].gen) /\ plan[head'[m].gen].content = head'[m].content
        BY <2>2, <2>5, <2>8, <3>2 DEF IInv, Support, PublishedAttempts
      <3> QED BY <2>1, <2>11, <3>1, <3>2 DEF PublishedAttempts
    <2>18. WatermarkIsLast'
      BY <2>1, <2>4, <2>5, <2>7, <2>9 DEF WatermarkIsLast
    <2>19. OwnerOutlastsHead'
      BY <2>1, <2>11, <2>13 DEF IInv, Support, OwnerOutlastsHead, OwnerReplaces
    <2>20. OwnerFreezesHead'
      <3> SUFFICES ASSUME NEW q \in Publishers, pub'[q].pc \in {"read", "commit"},
                          CurrentOwner(pub[q].a)', ~Committed(pub[q].a)'
                   PROVE  head'[plan'[pub'[q].a].ns].gen = pub'[q].parent
        BY DEF OwnerFreezesHead
      <3>1. pub'[q] = pub[q] /\ pub[q].pc \in {"read", "commit"}
        BY <2>15
      <3>2. pub[q].a \in Attempts /\ Declared(pub[q].a)
        BY <3>1 DEF IInv, TypeInv, BusyPublishers
      <3>3. CurrentOwner(pub[q].a)
        BY <2>1, <3>1 DEF CurrentOwner
      <3>4. /\ ~Committed(pub[q].a)
            /\ head'[plan[pub[q].a].ns] = head[plan[pub[q].a].ns]
        BY <2>13, <3>1, <3>2, <3>3 DEF Committed
      <3> QED BY <2>1, <3>1, <3>3, <3>4 DEF IInv, Safety, OwnerFreezesHead
    <2>21. WatermarkOrders'
      BY <2>4, <2>5, <2>7, <2>9, <2>10 DEF IInv, Safety, WatermarkOrders
    <2>22. ShrinkBounded'
      <3> SUFFICES ASSUME NEW x \in Attempts, Committed(x)', gen'[x].parent # None
                   PROVE  2 * Points[plan[x].content] >= Points[plan[gen'[x].parent].content]
        BY <2>1 DEF ShrinkBounded
      <3>1. CASE x = a
        <4>1. old.content \in Contents /\ plan[a].content \in Contents
          BY <2>2, <2>3, <2>5, <2>6, <2>7, <3>1
          DEF Bound, IInv, TypeInv, TypeOK, HeadsTypeOK, PlanRow
        <4>2. Points[old.content] \in Nat /\ Points[plan[a].content] \in Nat
          BY <4>1, HeadsAssumption
        <4> QED BY <2>2, <2>5, <2>6, <2>7, <3>1, <4>2 DEF OwnerReplaces
      <3>2. CASE x # a
        BY <2>7, <2>10, <3>2 DEF IInv, Safety, ShrinkBounded
      <3> QED BY <3>1, <3>2
    <2>23. FetchNeverOlder'
      <3> SUFFICES ASSUME NEW x \in Attempts, Committed(x)', gen'[x].parent # None
                   PROVE  plan[gen'[x].parent].fetched <= plan[x].fetched
        BY <2>1 DEF FetchNeverOlder
      <3>1. CASE x = a
        <4>1. plan[a].bound <= plan[a].fetched
          BY <2>2 DEF IInv, Support, BoundAttempts
        <4>2. plan[a] \in PlanRow /\ plan[old.gen] \in PlanRow
          BY <2>2, <2>3, <2>5, <2>7, <3>1 DEF IInv, TypeInv, TypeOK, HeadsTypeOK
        <4> QED BY <2>5, <2>6, <2>7, <3>1, <4>1, <4>2 DEF OwnerReplaces, PlanRow
      <3>2. CASE x # a
        BY <2>7, <2>10, <3>2 DEF IInv, Safety, FetchNeverOlder
      <3> QED BY <3>1, <3>2
    <2> QED BY <2>14, <2>16, <2>17, <2>18, <2>19, <2>20, <2>21, <2>22, <2>23
        DEF Support, Safety
  <1> QED BY <1>1, <1>2

-----------------------------------------------------------------------------
LEMMA InitSafe == Init => Support /\ Safety
  BY HeadsAssumption, ConstantsAssumption
  DEF Init, LifecycleInit, HeadsInit, Support, Safety, ClaimedAttempts, DeclaredAttempts,
      BoundAttempts, PromotedAttempts, PublishedAttempts, WatermarkIsLast, OwnerOutlastsHead,
      OwnerFreezesHead, ShrinkBounded, FetchNeverOlder, WatermarkOrders, Declared, Bound,
      Committed, Idle

\* The inductive step.
LEMMA NextSafe == IInv /\ [Next]_vars => IInv'
  <1> SUFFICES ASSUME IInv, [Next]_vars PROVE IInv'
    OBVIOUS
  <1>1. TypeInv'
    BY NextTypeInv DEF IInv
  <1>2. CASE \E a \in Attempts : \/ \E n \in Namespaces : Declare(a, n)
                                 \/ \E c \in Contents, f, v \in 0 .. now, K \in SUBSET ChunkKeys :
                                       BindResponse(a, c, f, v, K)
    BY <1>1, <1>2, DeclareSafe, BindSafe DEF IInv
  <1>3. CASE \E p \in Publishers : PinArtifacts(p) \/ CommitHead(p)
    BY <1>1, <1>3, PinSafe, CommitSafe DEF IInv
  <1>4. CASE QuietFrame
    BY <1>1, <1>4, QuietStep DEF IInv, QuietFrame
  <1>5. TypeInv /\ ClaimedAttempts
    BY DEF IInv, Support
  <1> QED BY <1>2, <1>3, <1>4, <1>5, QuietSteps DEF Next, PublisherStep

LEMMA SpecSafe == Spec => []IInv
  BY InitTypeInv, InitSafe, NextSafe, PTL DEF Spec, IInv

\* While an unpublished attempt owns its scope nobody moves the head that a
\* publisher took as its parent, however many publishers promote.
THEOREM HeadIsFrozen == Spec => []OwnerFreezesHead
  BY SpecSafe, PTL DEF IInv, Safety

\* A generation never has less than half the points of the one it replaces,
\* although the shrink guard ran several transactions before the commit.
THEOREM ShrinkIsBounded == Spec => []ShrinkBounded
  BY SpecSafe, PTL DEF IInv, Safety

\* A generation was never fetched before the one it replaces.
THEOREM FetchIsNeverOlder == Spec => []FetchNeverOlder
  BY SpecSafe, PTL DEF IInv, Safety

\* No two generations, of any namespaces, share a watermark.
THEOREM WatermarkIsUnique == Spec => []WatermarkOrders
  BY SpecSafe, PTL DEF IInv, Safety

-----------------------------------------------------------------------------
(***************************************************************************)
(* Revisions.  The final transaction compares the candidate with the head  *)
(* alone; that this orders all the generations of a namespace needs the    *)
(* head to be their last and newest one.                                   *)
(***************************************************************************)

HeadIsPublished ==
    \A n \in Namespaces : head[n].gen # None =>
        Committed(head[n].gen) /\ plan[head[n].gen].ns = n /\ plan[head[n].gen].rev = head[n].rev

HeadIsNewest ==
    \A a \in Attempts : Committed(a) =>
        LET h == head[plan[a].ns] IN
        /\ h.gen # None /\ gen[a].at <= gen[h.gen].at
        /\ plan[a].rev <= h.rev
        /\ plan[a].rev = h.rev => plan[a].content = h.content

RevInv == HeadIsPublished /\ HeadIsNewest /\ RevisionsInOrder

LEMMA InitRev == Init => RevInv
  BY DEF Init, HeadsInit, RevInv, HeadIsPublished, HeadIsNewest, RevisionsInOrder, Committed

\* The rows of committed attempts do not change, nor do the heads.
LEMMA KeptRev ==
    ASSUME IInv, RevInv, UNCHANGED <<gen, head>>,
           \A x \in Attempts : Committed(x) => plan'[x] = plan[x]
    PROVE  RevInv'
  <1>1. \A x \in Attempts : Committed(x)' <=> Committed(x)
    BY DEF Committed
  <1>2. \A n \in Namespaces : head[n].gen \in Attempts \cup {None}
    BY DEF IInv, TypeInv, TypeOK, HeadsTypeOK, HeadRow
  <1>3. HeadIsPublished'
    <2> SUFFICES ASSUME NEW n \in Namespaces, head[n].gen # None
                 PROVE  /\ Committed(head[n].gen)'
                        /\ plan'[head[n].gen].ns = n /\ plan'[head[n].gen].rev = head[n].rev
      BY DEF HeadIsPublished
    <2>1. head[n].gen \in Attempts /\ Committed(head[n].gen)
      BY <1>2 DEF RevInv, HeadIsPublished
    <2> QED BY <1>1, <2>1 DEF RevInv, HeadIsPublished
  <1>4. HeadIsNewest'
    BY <1>1 DEF RevInv, HeadIsNewest
  <1>5. RevisionsInOrder'
    BY <1>1 DEF RevInv, RevisionsInOrder
  <1> QED BY <1>3, <1>4, <1>5 DEF RevInv

\* A descriptor is declared, and a response bound, only before the publication.
LEMMA PlannedBefore ==
    ASSUME IInv, NEW a \in Attempts,
           \/ \E n \in Namespaces : Declare(a, n)
           \/ \E c \in Contents, f, v \in 0 .. now, K \in SUBSET ChunkKeys :
                 BindResponse(a, c, f, v, K)
    PROVE  /\ UNCHANGED <<gen, head>>
           /\ \A x \in Attempts : Committed(x) => plan'[x] = plan[x]
  <1>1. ~Committed(a)
    BY DEF Declare, BindResponse, IInv, Support, PublishedAttempts, BoundAttempts
  <1>2. \A x \in Attempts : x # a => plan'[x] = plan[x]
    BY DEF Declare, BindResponse, IInv, TypeInv, TypeOK, HeadsTypeOK
  <1> QED BY <1>1, <1>2 DEF Declare, BindResponse

\* The commit puts the candidate behind the newest generation of its namespace.
LEMMA CommitRev ==
    ASSUME IInv, RevInv, NEW p \in Publishers, CommitHead(p)
    PROVE  RevInv'
  <1> DEFINE a == pub[p].a
             n == plan[a].ns
             old == head[n]
             g == [at |-> NextWatermark, parent |-> old.gen,
                   files |-> IF pub[p].reuse THEN gen[old.gen].files ELSE a]
             h == [gen |-> a, version |-> old.version + 1, rev |-> plan[a].rev,
                   fetched |-> Greater(plan[a].fetched, old.fetched),
                   content |-> plan[a].content]
  <1>1. CASE Return(p)
    BY <1>1, KeptRev DEF Return
  <1>2. CASE ~Return(p)
    <2>1. /\ MayCommit(p)
          /\ gen' = [gen EXCEPT ![a] = g]
          /\ head' = [head EXCEPT ![n] = h]
          /\ UNCHANGED plan
      BY <1>2 DEF CommitHead
    <2>2. a \in Attempts /\ n \in Namespaces
      BY DEF CommitHead, IInv, Support, TypeInv, BusyPublishers, PromotedAttempts, TypeOK,
          HeadsTypeOK, PlanRow, Declared
    <2>3. /\ ~Committed(a)
          /\ old.gen # None => /\ plan[a].rev >= old.rev
                               /\ plan[a].rev = old.rev => plan[a].content = old.content
      BY <2>1 DEF MayCommit
    <2>4. NextWatermark \in Nat /\ NextWatermark > pubClock /\ pubClock \in Nat
      BY WatermarkAdvances DEF IInv, TypeInv, TypeOK, HeadsTypeOK
    <2>5. g.at = NextWatermark /\ h.gen = a /\ h.rev = plan[a].rev /\ h.content = plan[a].content
      OBVIOUS
    <2>6. /\ \A x \in Attempts : plan[x].rev \in Nat
          /\ \A m \in Namespaces : head[m].rev \in Nat /\ head[m].gen \in Attempts \cup {None}
      BY DEF IInv, TypeInv, TypeOK, HeadsTypeOK, PlanRow, HeadRow
    <2>7. \A x \in Attempts : gen[x].at \in Nat /\ gen[x].at <= pubClock
      BY DEF IInv, Support, WatermarkIsLast, TypeInv, TypeOK, HeadsTypeOK, GenerationRow
    <2>8. \A x \in Attempts : Committed(x) => plan[x].ns \in Namespaces
      BY DEF IInv, Support, PublishedAttempts, BoundAttempts, TypeInv, TypeOK, HeadsTypeOK,
             PlanRow, Declared
    <2> HIDE DEF a, n, old, g, h
    <2>9. /\ gen'[a] = g
          /\ \A x \in Attempts : x # a => gen'[x] = gen[x]
      BY <2>1, <2>2 DEF IInv, TypeInv, TypeOK, HeadsTypeOK
    <2>10. /\ head'[n] = h
           /\ \A m \in Namespaces : m # n => head'[m] = head[m]
      BY <2>1, <2>2 DEF IInv, TypeInv, TypeOK, HeadsTypeOK
    <2>11. \A x \in Attempts : Committed(x)' <=> Committed(x) \/ x = a
      BY <2>4, <2>5, <2>9 DEF Committed
    <2>12. HeadIsPublished'
      <3> SUFFICES ASSUME NEW m \in Namespaces, head'[m].gen # None
                   PROVE  /\ Committed(head[m].gen)'
                          /\ plan[head'[m].gen].ns = m
                          /\ plan[head'[m].gen].rev = head'[m].rev
        BY <2>1 DEF HeadIsPublished
      <3>1. CASE m = n
        BY <2>2, <2>5, <2>10, <2>11, <3>1 DEF n
      <3>2. CASE m # n
        <4>1. head'[m] = head[m] /\ head[m].gen \in Attempts
          BY <2>6, <2>10, <3>2
        <4> QED BY <2>11, <4>1 DEF RevInv, HeadIsPublished
      <3> QED BY <3>1, <3>2
    <2>13. ASSUME NEW x \in Attempts, Committed(x), plan[x].ns = n
           PROVE  /\ x # a /\ gen[x].at < NextWatermark
                  /\ plan[x].rev <= plan[a].rev
                  /\ plan[x].rev = plan[a].rev => plan[x].content = plan[a].content
      <3>1. /\ old.gen # None /\ plan[x].rev <= old.rev
            /\ plan[x].rev = old.rev => plan[x].content = old.content
        BY <2>13 DEF RevInv, HeadIsNewest, old
      <3>2. old.rev \in Nat
        BY <2>2, <2>6 DEF old
      <3>3. x # a
        BY <2>3, <2>13
      <3>4. gen[x].at < NextWatermark
        BY <2>4, <2>7
      <3>5. plan[x].rev \in Nat /\ plan[a].rev \in Nat /\ old.rev <= plan[a].rev
        BY <2>2, <2>3, <2>6, <3>1, <3>2
      <3>6. plan[x].rev = plan[a].rev => plan[x].rev = old.rev /\ plan[a].rev = old.rev
        BY <3>1, <3>2, <3>5
      <3> QED BY <2>3, <3>1, <3>2, <3>3, <3>4, <3>5, <3>6
    <2>14. HeadIsNewest'
      <3> SUFFICES ASSUME NEW x \in Attempts, Committed(x)'
                   PROVE  LET k == head'[plan[x].ns] IN
                          /\ k.gen # None /\ gen'[x].at <= gen'[k.gen].at
                          /\ plan[x].rev <= k.rev
                          /\ plan[x].rev = k.rev => plan[x].content = k.content
        BY <2>1 DEF HeadIsNewest
      <3>1. CASE x = a
        BY <2>2, <2>4, <2>5, <2>6, <2>9, <2>10, <3>1, ConstantsAssumption DEF n
      <3>2. CASE x # a /\ plan[x].ns = n
        BY <2>2, <2>4, <2>5, <2>7, <2>9, <2>10, <2>11, <2>13, <3>2, ConstantsAssumption
      <3>3. CASE x # a /\ plan[x].ns # n
        <4>1. Committed(x) /\ plan[x].ns \in Namespaces
          BY <2>8, <2>11, <3>3
        <4>2. head'[plan[x].ns] = head[plan[x].ns] /\ gen'[x] = gen[x]
          BY <2>9, <2>10, <3>3, <4>1
        <4>3. head[plan[x].ns].gen \in Attempts /\ head[plan[x].ns].gen # a
          BY <2>3, <2>6, <4>1 DEF RevInv, HeadIsNewest, HeadIsPublished
        <4> QED BY <2>9, <4>1, <4>2, <4>3 DEF RevInv, HeadIsNewest
      <3> QED BY <3>1, <3>2, <3>3
    <2>15. RevisionsInOrder'
      <3> SUFFICES ASSUME NEW x \in Attempts, NEW y \in Attempts, Committed(x)', Committed(y)',
                          plan[x].ns = plan[y].ns, gen'[x].at <= gen'[y].at
                   PROVE  /\ plan[x].rev <= plan[y].rev
                          /\ plan[x].rev = plan[y].rev => plan[x].content = plan[y].content
        BY <2>1 DEF RevisionsInOrder
      <3>1. CASE x = y
        BY <2>6, <3>1
      <3>2. CASE x # y /\ y = a
        BY <2>11, <2>13, <3>2 DEF n
      <3>3. CASE x # y /\ x = a
        BY <2>4, <2>5, <2>7, <2>9, <3>3
      <3>4. CASE x # a /\ y # a
        BY <2>9, <2>11, <3>4 DEF RevInv, RevisionsInOrder
      <3> QED BY <3>1, <3>2, <3>3, <3>4
    <2> QED BY <2>12, <2>14, <2>15 DEF RevInv
  <1> QED BY <1>1, <1>2

LEMMA NextRev == IInv /\ RevInv /\ [Next]_vars => RevInv'
  <1> SUFFICES ASSUME IInv, RevInv, [Next]_vars PROVE RevInv'
    OBVIOUS
  <1>1. CASE \E p \in Publishers : CommitHead(p)
    BY <1>1, CommitRev
  <1>2. CASE QuietFrame
    BY <1>2, KeptRev DEF QuietFrame
  <1>3. CASE \E a \in Attempts : \/ \E n \in Namespaces : Declare(a, n)
                                 \/ \E c \in Contents, f, v \in 0 .. now, K \in SUBSET ChunkKeys :
                                       BindResponse(a, c, f, v, K)
    BY <1>3, PlannedBefore, KeptRev
  <1>4. CASE \E p \in Publishers : PinArtifacts(p)
    BY <1>4, KeptRev DEF PinArtifacts, Return
  <1>5. TypeInv /\ ClaimedAttempts
    BY DEF IInv, Support
  <1> QED BY <1>1, <1>2, <1>3, <1>4, <1>5, QuietSteps DEF Next, PublisherStep

\* The generations of a namespace carry, in the order of their watermarks, revisions that
\* never go back, and one content for each: the compare-and-set of the head reads the
\* head alone, but the head is always the last and the newest of them.
THEOREM RevisionsAreOrdered == Spec => []RevisionsInOrder
  BY SpecSafe, InitRev, NextRev, PTL DEF Spec, RevInv
=============================================================================
