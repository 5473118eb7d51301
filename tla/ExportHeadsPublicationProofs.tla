--------------------- MODULE ExportHeadsPublicationProofs ---------------------
(***************************************************************************)
(* What a publication is, proved.  ExportHeads implements PublicationLog   *)
(* for any number of attempts, namespaces and publishers: the invariant of *)
(* ExportHeadsProofs supplies what the commit relies on, that an attempt   *)
(* that is promoted has declared its namespace and no publication is past  *)
(* the watermark.  And what is published is complete: a plan that was      *)
(* closed behind its barrier never changes again, a run that succeeded     *)
(* stays so, and so what the two transactions of reconcile, the            *)
(* orchestrator probe and the file reads of a promotion established one    *)
(* after the other still holds together when the generation is committed.  *)
(***************************************************************************)
EXTENDS ExportHeadsProofs, ExportHeadsRefinement

-----------------------------------------------------------------------------
(***************************************************************************)
(* The implementation of the log.                                          *)
(***************************************************************************)

\* The refinement mapping.
mappedLog    == [a \in Attempts |-> LogEntry(a)]
mappedLatest == [n \in Namespaces |-> [gen |-> head[n].gen, version |-> head[n].version]]

\* The empty tables are the empty log.
LEMMA InitRefines == Init => Log!Init
  BY DEF Init, HeadsInit, Log!Init, Log!Unpublished, LogEntry, Committed

\* A step that leaves the generations, the heads and the namespaces of the published
\* attempts alone is a stuttering step.
LEMMA Stutters ==
    ASSUME UNCHANGED <<gen, head>>,
           \A a \in Attempts : Committed(a) => plan'[a].ns = plan[a].ns
    PROVE  UNCHANGED <<mappedLog, mappedLatest>>
  <1>1. \A a \in Attempts : LogEntry(a)' = LogEntry(a)
    BY DEF LogEntry, Committed
  <1> QED BY <1>1 DEF mappedLog, mappedLatest

\* The plan of a published attempt is never declared again.
LEMMA PlanStutters ==
    ASSUME IInv, NEW a \in Attempts,
           \/ \E n \in Namespaces : Declare(a, n)
           \/ \E c \in Contents, f, v \in 0 .. now, K \in SUBSET ChunkKeys :
                 BindResponse(a, c, f, v, K)
    PROVE  UNCHANGED <<mappedLog, mappedLatest>>
  <1>1. UNCHANGED <<gen, head>>
    BY DEF Declare, BindResponse
  <1>2. \A x \in Attempts : Committed(x) => Declared(x) /\ Bound(x)
    BY DEF IInv, Support, PublishedAttempts, BoundAttempts
  <1>3. plan \in [Attempts -> PlanRow]
    BY DEF IInv, TypeInv, TypeOK, HeadsTypeOK
  <1>4. CASE \E n \in Namespaces : Declare(a, n)
    <2>1. ~Declared(a) /\ \A x \in Attempts \ {a} : plan'[x] = plan[x]
      BY <1>3, <1>4 DEF Declare
    <2> QED BY <1>1, <1>2, <2>1, Stutters
  <1>5. CASE \E c \in Contents, f, v \in 0 .. now, K \in SUBSET ChunkKeys :
                 BindResponse(a, c, f, v, K)
    <2>1. ~Bound(a) /\ \A x \in Attempts \ {a} : plan'[x] = plan[x]
      BY <1>3, <1>5 DEF BindResponse
    <2> QED BY <1>1, <1>2, <2>1, Stutters
  <1> QED BY <1>4, <1>5

\* record_approved_locations moves approvals forward, to the watermark of its generation.
LEMMA ApprovalsAdvance ==
    ASSUME NEW g \in Attempts, NEW t, NEW V, t = mappedLog'[g].at, RecordApproved(g, t, V)
    PROVE  \A l \in Locations : Log!Approve(l)
  BY DEF RecordApproved, Log!Approve, mappedLog

\* Where nothing is approved, every approval stays.
LEMMA ApprovalsStay ==
    ASSUME UNCHANGED inventory PROVE \A l \in Locations : Log!Approve(l)
  BY DEF Log!Approve

\* Only the final transaction and the bootstrap write approvals.
LEMMA InventoryWriters ==
    ASSUME [Next]_vars
    PROVE  \/ UNCHANGED inventory
           \/ \E p \in Publishers : CommitHead(p)
           \/ \E n \in Namespaces : BootstrapInventory(n)
  <1>1. CASE \E p \in Publishers :
              \/ \E a \in Attempts : StartPromotion(p, a) \/ ProbeTerminal(p, a)
              \/ PublisherStep(p)
              \/ Crash(p)
    BY <1>1 DEF PublisherStep, StartPromotion, ProbeTerminal, Crash, ReconcileRead,
       ReconcileVerify, ReconcileSeal, PinArtifacts, ReadArtifacts, RetireTerminal, Return
  <1>2. CASE \E a \in Attempts :
              \/ CollectorStep(a)
              \/ \E n \in Namespaces : Declare(a, n)
              \/ \E c \in Contents, f, v \in 0 .. now, K \in SUBSET ChunkKeys :
                    BindResponse(a, c, f, v, K)
              \/ RetireSettled(a)
    BY <1>2 DEF CollectorStep, Declare, BindResponse, RetireSettled, headVars
  <1>3. CASE Tick \/ (\E r \in Runs : RunStep(r)) \/ UNCHANGED vars
    BY <1>3 DEF Tick, RunStep, headVars, vars
  <1> QED BY <1>1, <1>2, <1>3 DEF Next

\* The final transaction of a promotion adds its attempt at the end of the log.
LEMMA CommitRefines ==
    ASSUME IInv, NEW p \in Publishers, CommitHead(p)
    PROVE  Log!Next \/ UNCHANGED <<mappedLog, mappedLatest, inventory>>
  <1>0. CASE Return(p)
    BY <1>0, Stutters DEF Return
  <1>1. CASE MayCommit(p) /\ ~Return(p)
    <2>0. pub[p].a \in Attempts /\ ~Committed(pub[p].a)
      BY <1>1 DEF CommitHead, MayCommit, IInv, TypeInv, BusyPublishers
    <2>1. PICK a \in Attempts : a = pub[p].a /\ ~Committed(a)
      BY <2>0
    <2>2. PICK n \in Namespaces : n = plan[a].ns
      BY <2>1 DEF CommitHead, IInv, Support, PromotedAttempts, BoundAttempts, Declared,
         TypeInv, TypeOK, HeadsTypeOK, PlanRow
    <2> DEFINE g == [at |-> NextWatermark, parent |-> head[n].gen,
                     files |-> IF pub[p].reuse THEN gen[head[n].gen].files ELSE a]
               h == [gen |-> a, version |-> head[n].version + 1, rev |-> plan[a].rev,
                     fetched |-> Greater(plan[a].fetched, head[n].fetched),
                     content |-> plan[a].content]
    <2>write. /\ gen' = [gen EXCEPT ![a] = g] /\ head' = [head EXCEPT ![n] = h]
          /\ plan' = plan
      BY <1>1, <2>1, <2>2 DEF CommitHead
    <2>3. /\ gen \in [Attempts -> GenerationRow] /\ head \in [Namespaces -> HeadRow]
          /\ pubClock \in Nat /\ now \in Nat
      BY DEF IInv, TypeInv, TypeOK, HeadsTypeOK
    <2>4. NextWatermark \in Nat /\ pubClock < NextWatermark
      BY <2>3, WatermarkAdvances DEF IInv
    <2>5. \A b \in Attempts : gen[b].at \in Nat /\ gen[b].at < NextWatermark
      BY <2>3, <2>4 DEF IInv, Support, WatermarkIsLast, GenerationRow
    <2>6. /\ gen'[a] = g /\ \A b \in Attempts \ {a} : gen'[b] = gen[b]
          /\ head'[n] = h /\ \A m \in Namespaces \ {n} : head'[m] = head[m]
      BY <2>write, <2>1, <2>2, <2>3
    <2>7. g.at = NextWatermark /\ g.parent = head[n].gen /\ h.gen = a
          /\ h.version = head[n].version + 1
      OBVIOUS
    <2> HIDE DEF g, h
    <2>8. LogEntry(a)' = [ns |-> n, at |-> NextWatermark, parent |-> head[n].gen]
      <3>1. gen'[a].at = NextWatermark /\ gen'[a].parent = head[n].gen /\ plan'[a].ns = n
        BY <2>write, <2>2, <2>6, <2>7
      <3>2. NextWatermark # 0
        BY <2>3, <2>4
      <3> QED BY <3>1, <3>2 DEF LogEntry, Committed
    <2>9. LogEntry(a) = [ns |-> None, at |-> 0, parent |-> None]
      BY <2>1 DEF LogEntry
    <2>10. \A b \in Attempts \ {a} : LogEntry(b)' = LogEntry(b)
      BY <2>write, <2>6 DEF LogEntry, Committed
    <2>11. \A b \in Attempts : LogEntry(b).at < LogEntry(a)'.at
      BY <2>4, <2>5, <2>8 DEF LogEntry
    <2>12. mappedLog' = [mappedLog EXCEPT ![a] =
              [ns |-> n, at |-> mappedLog'[a].at, parent |-> mappedLatest[n].gen]]
      <3>1. mappedLog'[a] = LogEntry(a)' /\ mappedLatest[n].gen = head[n].gen
        BY DEF mappedLog, mappedLatest
      <3>2. mappedLog'[a] = [ns |-> n, at |-> mappedLog'[a].at, parent |-> mappedLatest[n].gen]
        BY <2>8, <3>1
      <3>3. \A b \in Attempts \ {a} : mappedLog'[b] = mappedLog[b]
        BY <2>10 DEF mappedLog
      <3>4. mappedLog = [b \in Attempts |-> mappedLog[b]]
            /\ mappedLog' = [b \in Attempts |-> mappedLog'[b]]
        BY DEF mappedLog
      <3> QED BY <3>2, <3>3, <3>4
    <2>13. mappedLatest' = [mappedLatest EXCEPT ![n] = [gen |-> a, version |-> @.version + 1]]
      BY <2>2, <2>6, <2>7 DEF mappedLatest
    <2>14. Log!Publish(a, n)
      BY <2>1, <2>9, <2>11, <2>12, <2>13 DEF Log!Publish, Log!Unpublished, mappedLog, mappedLatest
    <2>15. PICK V \in SUBSET LocationsOf[n] : RecordApproved(a, NextWatermark, V)
      BY <1>1, <2>1, <2>2 DEF CommitHead
    <2>16. mappedLog'[a].at = NextWatermark
      BY <2>8 DEF mappedLog
    <2>17. \A l \in Locations : Log!Approve(l)
      BY <2>1, <2>15, <2>16, ApprovalsAdvance
    <2> QED BY <2>1, <2>2, <2>14, <2>17 DEF Log!Next
  <1> QED BY <1>0, <1>1 DEF CommitHead

\* The bootstrap approves locations with the heads there are.
LEMMA BootstrapRefines ==
    ASSUME IInv, NEW n \in Namespaces, BootstrapInventory(n)
    PROVE  Log!Next
  <1>1. PICK g \in Attempts : g = head[n].gen
    BY DEF BootstrapInventory, IInv, TypeInv, TypeOK, HeadsTypeOK, HeadRow
  <1>2. UNCHANGED <<mappedLog, mappedLatest>>
    BY Stutters DEF BootstrapInventory
  <1>3. PICK V : RecordApproved(g, gen[g].at, V)
    BY <1>1 DEF BootstrapInventory
  <1>4. gen' = gen /\ mappedLog'[g].at = gen[g].at
    BY DEF BootstrapInventory, mappedLog, LogEntry, Committed
  <1>5. \A l \in Locations : Log!Approve(l)
    BY <1>3, <1>4, ApprovalsAdvance
  <1> QED BY <1>2, <1>5 DEF Log!Next, mappedLog, mappedLatest

\* Every other step changes no published row.
LEMMA OthersStutter ==
    ASSUME IInv, [Next]_vars, ~ \E p \in Publishers : CommitHead(p)
    PROVE  UNCHANGED <<mappedLog, mappedLatest>>
  <1>1. CASE \E a \in Attempts : \/ \E n \in Namespaces : Declare(a, n)
                                 \/ \E c \in Contents, f, v \in 0 .. now, K \in SUBSET ChunkKeys :
                                       BindResponse(a, c, f, v, K)
    BY <1>1, PlanStutters
  <1>2. CASE QuietFrame
    BY <1>2, Stutters DEF QuietFrame
  <1>3. CASE \E p \in Publishers : PinArtifacts(p)
    BY <1>3, Stutters DEF PinArtifacts, Return
  <1>4. TypeInv /\ ClaimedAttempts
    BY DEF IInv, Support
  <1> QED BY <1>1, <1>2, <1>3, <1>4, QuietSteps DEF Next, PublisherStep

LEMMA NextRefines ==
    ASSUME IInv, [Next]_vars
    PROVE  Log!Next \/ UNCHANGED <<mappedLog, mappedLatest, inventory>>
  BY CommitRefines, BootstrapRefines, OthersStutter, InventoryWriters

\* Whatever publishers, collectors, crashes and retirements do, what readers see is
\* one log of publications that only grows at its end, and approvals of its entries
\* that only move forward (_promote, record_approved_locations).
THEOREM PublicationIsALog == Spec => ImplementsLog
  <1>1. IInv /\ [Next]_vars => [Log!Next]_<<mappedLog, mappedLatest, inventory>>
    BY NextRefines
  <1> QED BY <1>1, InitRefines, SpecSafe, PTL DEF Spec, ImplementsLog, Log!Spec, mappedLog,
          mappedLatest

-----------------------------------------------------------------------------
(***************************************************************************)
(* The inductive invariant.                                                *)
(***************************************************************************)

\* A closed plan passed the completeness barrier, and still does.
ClosedPlans ==
    \A a \in Attempts : att[a].closed => att[a].status # "none" /\ Barrier(a)

\* Only recorded chunks whose file exists are validated.
ValidatedChunks ==
    \A a \in Attempts : \A k \in validated[a] : k \in Recorded(a) /\ <<a, k>> \in files

\* An orchestrator run exists only for a started run that names one.
OrchestratorRuns ==
    \A r \in Runs : run[r] = "none" \/ r \notin DagsterRuns => orch[r] = "none"

\* What a promotion established so far.
Proven(p) ==
    LET a == pub[p].a
        pc == pub[p].pc
    IN  /\ pc \in {"verify", "seal", "pin", "read", "commit"} =>
              att[a].closed /\ RunIs(a, "success")
        /\ pc \in {"verify", "seal"} => pub[p].batch \subseteq Recorded(a)
        /\ pc = "seal" => OrchestratorAgrees(a) /\ \A k \in pub[p].batch : <<a, k>> \in files
        /\ pc = "pin" => att[a].status = "sealed" \/ ~CurrentOwner(a)
        /\ pc = "commit" => ContentProven(a)
        /\ pc = "terminal" => RunIs(a, "failed") \/ orch[att[a].run] = "FAILURE"

SealedAttempts ==
    \A a \in Attempts : att[a].status = "sealed" =>
        att[a].closed /\ RunIs(a, "success") /\ OrchestratorAgrees(a) /\ Recorded(a) \subseteq validated[a]

CommittedAttempts ==
    \A a \in Attempts : Committed(a) => att[a].status = "sealed" /\ ContentProven(a)

CInv ==
    /\ ClosedPlans
    /\ ValidatedChunks
    /\ OrchestratorRuns
    /\ \A p \in Publishers : Proven(p)
    /\ SealedAttempts
    /\ CommittedAttempts

\* With one publisher: what it promotes is not yet committed, and only a sealed
\* attempt that is not yet published has pins.
OnePublisher == \A p, q \in Publishers : p = q

PinsHeld ==
    /\ \A p \in Publishers : pub[p].pc \notin {"idle", "terminal"} => ~Committed(pub[p].a)
    /\ \A a \in Attempts : pins[a] # NoPins => att[a].status = "sealed" /\ ~Committed(a)

-----------------------------------------------------------------------------
(***************************************************************************)
(* Who writes what.                                                        *)
(***************************************************************************)

\* Steps that leave the tables of ExportLifecycle alone.
LEMMA ReadersOfLifecycle ==
    ASSUME NEW p \in Publishers, PublisherStep(p)
    PROVE  UNCHANGED lifecycleVars \/ ReconcileSeal(p) \/ RetireTerminal(p)
<1>1. ReconcileRead(p) => UNCHANGED lifecycleVars
  BY DEF ReconcileRead, Return
<1>2. ReconcileVerify(p) => UNCHANGED lifecycleVars
  BY DEF ReconcileVerify, Return
<1>3. PinArtifacts(p) => UNCHANGED lifecycleVars
  BY DEF PinArtifacts, Return
<1>4. ReadArtifacts(p) => UNCHANGED lifecycleVars
  BY DEF ReadArtifacts, Return
<1>5. CommitHead(p) => UNCHANGED lifecycleVars
  BY DEF CommitHead, Return
<1>. QED
  BY <1>1, <1>2, <1>3, <1>4, <1>5 DEF PublisherStep

LEMMA LifecycleWriters ==
    ASSUME [Next]_vars
    PROVE  \/ UNCHANGED lifecycleVars
           \/ \E r \in Runs : RunStep(r)
           \/ \E a \in Attempts : CollectorStep(a) \/ RetireSettled(a)
           \/ \E p \in Publishers : ReconcileSeal(p) \/ RetireTerminal(p)
<1>1. Tick => UNCHANGED lifecycleVars
  BY DEF Tick
<1>2. \A a \in Attempts, n \in Namespaces : Declare(a, n) => UNCHANGED lifecycleVars
  BY DEF Declare
<1>3. \A a \in Attempts, c \in Contents, f, v \in 0 .. now, K \in SUBSET ChunkKeys :
          BindResponse(a, c, f, v, K) => UNCHANGED lifecycleVars
  BY DEF BindResponse
<1>4. \A p \in Publishers, a \in Attempts :
          StartPromotion(p, a) \/ ProbeTerminal(p, a) => UNCHANGED lifecycleVars
  BY DEF StartPromotion, ProbeTerminal
<1>5. \A p \in Publishers : Crash(p) => UNCHANGED lifecycleVars
  BY DEF Crash
<1>6. \A n \in Namespaces : BootstrapInventory(n) => UNCHANGED lifecycleVars
  BY DEF BootstrapInventory
<1>7. UNCHANGED vars => UNCHANGED lifecycleVars
  BY DEF vars
<1>. QED
  BY <1>1, <1>2, <1>3, <1>4, <1>5, <1>6, <1>7, ReadersOfLifecycle DEF Next

LEMMA RunWriters ==
    ASSUME [Next]_vars
    PROVE  \/ UNCHANGED <<run, orch>>
           \/ \E r \in Runs : RunStep(r)
           \/ \E p \in Publishers : RetireTerminal(p)
<1>1. \A a \in Attempts : CollectorStep(a) => UNCHANGED <<run, orch>>
  BY DEF CollectorStep, CreateExportAttempt, Claim, ExpectChunk, CaptureChunk, RecordChunk,
         PublishArtifact, CloseSource, ClosePlan, RejectAttempt
<1>2. \A a \in Attempts : RetireSettled(a) => UNCHANGED <<run, orch>>
  BY DEF RetireSettled
<1>3. \A p \in Publishers : ReconcileSeal(p) => UNCHANGED <<run, orch>>
  BY DEF ReconcileSeal, Return, lifecycleVars
<1>. QED
  BY <1>1, <1>2, <1>3, LifecycleWriters DEF lifecycleVars

LEMMA AttemptWriters ==
    ASSUME [Next]_vars
    PROVE  \/ UNCHANGED att
           \/ \E a \in Attempts :
                \/ \E r \in Runs, s \in Scopes : CreateExportAttempt(a, r, s)
                \/ Claim(a) \/ ClosePlan(a) \/ RejectAttempt(a) \/ RetireSettled(a)
           \/ \E p \in Publishers : ReconcileSeal(p) \/ RetireTerminal(p)
<1>1. \A a \in Attempts : CollectorStep(a) =>
          \/ UNCHANGED att
          \/ \E r \in Runs, s \in Scopes : CreateExportAttempt(a, r, s)
          \/ Claim(a) \/ ClosePlan(a) \/ RejectAttempt(a)
  BY DEF CollectorStep, ExpectChunk, CaptureChunk, RecordChunk, PublishArtifact, CloseSource
<1>2. \A r \in Runs : RunStep(r) => UNCHANGED att
  BY DEF RunStep, StartSyncRun, FinishSyncRun, OrchestratorFinishes
<1>. QED
  BY <1>1, <1>2, LifecycleWriters DEF lifecycleVars

\* The plan of chunks, its closure and the receipts, of an attempt that is not closed.
LEMMA ChunkWriters ==
    ASSUME [Next]_vars
    PROVE  \/ UNCHANGED <<expected, closure, chunk>>
           \/ \E a \in Attempts :
                \/ \E k \in ChunkKeys : ExpectChunk(a, k)
                \/ \E k \in ChunkKeys, x \in {"exact", "empty"} : RecordChunk(a, k, x)
                \/ \E K \in SUBSET ChunkKeys : CloseSource(a, K)
<1>1. \A a \in Attempts : CollectorStep(a) =>
          \/ UNCHANGED <<expected, closure, chunk>>
          \/ \E k \in ChunkKeys : ExpectChunk(a, k)
          \/ \E k \in ChunkKeys, x \in {"exact", "empty"} : RecordChunk(a, k, x)
          \/ \E K \in SUBSET ChunkKeys : CloseSource(a, K)
  BY DEF CollectorStep, CreateExportAttempt, Claim, CaptureChunk, PublishArtifact, ClosePlan,
         RejectAttempt
<1>2. \A r \in Runs : RunStep(r) => UNCHANGED <<expected, closure, chunk>>
  BY DEF RunStep, StartSyncRun, FinishSyncRun, OrchestratorFinishes
<1>3. \A a \in Attempts : RetireSettled(a) => UNCHANGED <<expected, closure, chunk>>
  BY DEF RetireSettled
<1>4. \A p \in Publishers : ReconcileSeal(p) => UNCHANGED <<expected, closure, chunk>>
  BY DEF ReconcileSeal, Return, lifecycleVars
<1>5. \A p \in Publishers : RetireTerminal(p) => UNCHANGED <<expected, closure, chunk>>
  BY DEF RetireTerminal, Return, lifecycleVars
<1>. QED
  BY <1>1, <1>2, <1>3, <1>4, <1>5, LifecycleWriters DEF lifecycleVars

\* Files are only added, and validated chunks only by the second transaction of reconcile.
LEMMA FileWriters ==
    ASSUME [Next]_vars
    PROVE  /\ files \subseteq files'
           /\ UNCHANGED validated \/ \E p \in Publishers : ReconcileSeal(p)
<1>1. \A a \in Attempts : CollectorStep(a) => files \subseteq files' /\ UNCHANGED validated
  BY DEF CollectorStep, CreateExportAttempt, Claim, ExpectChunk, CaptureChunk, RecordChunk,
         PublishArtifact, CloseSource, ClosePlan, RejectAttempt
<1>2. \A r \in Runs : RunStep(r) => UNCHANGED <<files, validated>>
  BY DEF RunStep, StartSyncRun, FinishSyncRun, OrchestratorFinishes
<1>3. \A a \in Attempts : RetireSettled(a) => UNCHANGED <<files, validated>>
  BY DEF RetireSettled
<1>4. \A p \in Publishers : ReconcileSeal(p) => UNCHANGED files
  BY DEF ReconcileSeal, Return, lifecycleVars
<1>5. \A p \in Publishers : RetireTerminal(p) => UNCHANGED <<files, validated>>
  BY DEF RetireTerminal, Return, lifecycleVars
<1>. QED
  BY <1>1, <1>2, <1>3, <1>4, <1>5, LifecycleWriters DEF lifecycleVars

\* Plans change before the first chunk is expected.
LEMMA PlanWriters ==
    ASSUME [Next]_vars
    PROVE  \/ UNCHANGED plan
           \/ \E a \in Attempts : expected[a] = {} /\ \E row : plan' = [plan EXCEPT ![a] = row]
<1>1. Tick => UNCHANGED plan
  BY DEF Tick
<1>2. \A r \in Runs : RunStep(r) => UNCHANGED plan
  BY DEF RunStep, headVars
<1>3. \A a \in Attempts : CollectorStep(a) \/ RetireSettled(a) => UNCHANGED plan
  BY DEF CollectorStep, headVars, RetireSettled
<1>4. \A p \in Publishers : PublisherStep(p) => UNCHANGED plan
  BY DEF PublisherStep, ReconcileRead, ReconcileVerify, ReconcileSeal, PinArtifacts,
         ReadArtifacts, CommitHead, RetireTerminal, Return
<1>5. \A p \in Publishers, a \in Attempts :
          StartPromotion(p, a) \/ ProbeTerminal(p, a) \/ Crash(p) => UNCHANGED plan
  BY DEF StartPromotion, ProbeTerminal, Crash
<1>6. \A n \in Namespaces : BootstrapInventory(n) => UNCHANGED plan
  BY DEF BootstrapInventory
<1>7. UNCHANGED vars => UNCHANGED plan
  BY DEF vars, headVars
<1>8. \A a \in Attempts, n \in Namespaces : Declare(a, n) =>
          expected[a] = {} /\ \E row : plan' = [plan EXCEPT ![a] = row]
  BY DEF Declare
<1>9. \A a \in Attempts, c \in Contents, f, v \in 0 .. now, K \in SUBSET ChunkKeys :
          BindResponse(a, c, f, v, K) =>
              expected[a] = {} /\ \E row : plan' = [plan EXCEPT ![a] = row]
  BY DEF BindResponse
<1>10. \A p \in Publishers : Crash(p) => UNCHANGED plan
  BY DEF Crash
<1>. QED
  BY <1>1, <1>2, <1>3, <1>4, <1>5, <1>6, <1>7, <1>8, <1>9, <1>10 DEF Next

LEMMA GenerationWriters ==
    ASSUME [Next]_vars
    PROVE  UNCHANGED gen \/ \E p \in Publishers : CommitHead(p) /\ MayCommit(p)
<1>1. Tick => UNCHANGED gen
  BY DEF Tick
<1>2. \A r \in Runs : RunStep(r) => UNCHANGED gen
  BY DEF RunStep, headVars
<1>3. \A a \in Attempts : CollectorStep(a) \/ RetireSettled(a) => UNCHANGED gen
  BY DEF CollectorStep, headVars, RetireSettled
<1>4. \A p \in Publishers : PublisherStep(p) => UNCHANGED gen \/ (CommitHead(p) /\ MayCommit(p))
  BY DEF PublisherStep, ReconcileRead, ReconcileVerify, ReconcileSeal, PinArtifacts,
         ReadArtifacts, CommitHead, RetireTerminal, Return
<1>5. \A p \in Publishers, a \in Attempts :
          StartPromotion(p, a) \/ ProbeTerminal(p, a) => UNCHANGED gen
  BY DEF StartPromotion, ProbeTerminal
<1>6. \A n \in Namespaces : BootstrapInventory(n) => UNCHANGED gen
  BY DEF BootstrapInventory
<1>7. UNCHANGED vars => UNCHANGED gen
  BY DEF vars, headVars
<1>8. \A a \in Attempts, n \in Namespaces : Declare(a, n) => UNCHANGED gen
  BY DEF Declare
<1>9. \A a \in Attempts, c \in Contents, f, v \in 0 .. now, K \in SUBSET ChunkKeys :
          BindResponse(a, c, f, v, K) => UNCHANGED gen
  BY DEF BindResponse
<1>10. \A p \in Publishers : Crash(p) => UNCHANGED gen
  BY DEF Crash
<1>. QED
  BY <1>1, <1>2, <1>3, <1>4, <1>5, <1>6, <1>7, <1>8, <1>9, <1>10 DEF Next

-----------------------------------------------------------------------------
(***************************************************************************)
(* What every step keeps.                                                  *)
(***************************************************************************)

\* A write of the status column, by whichever statement.
StatusOnly(a, status) ==
    \A x \in Attempts :
        /\ att'[x].run = att[x].run
        /\ att'[x].closed = att[x].closed
        /\ att'[x].status = IF x = a THEN status ELSE att[x].status

LEMMA StatusWrite ==
    ASSUME att \in [Attempts -> AttemptRow], NEW a \in Attempts, NEW status,
           att' = [att EXCEPT ![a].status = status]
    PROVE  StatusOnly(a, status)
  BY DEF AttemptRow, StatusOnly

LEMMA RetiredWrite ==
    ASSUME att \in [Attempts -> AttemptRow], NEW a \in Attempts, Retired(a)
    PROVE  StatusOnly(a, IF att[a].status \in {"preparing", "sealed"} THEN "failed"
                         ELSE att[a].status)
  BY DEF AttemptRow, StatusOnly, Retired

\* A publisher that is not at rest works on an attempt that exists.
LEMMA BusyAttempt ==
    ASSUME IInv, NEW p \in Publishers, pub[p].pc # "idle"
    PROVE  pub[p].a \in Attempts /\ att[pub[p].a].status # "none"
  BY DEF IInv, TypeInv, BusyPublishers

AttemptsKept ==
    \A x \in Attempts :
        /\ att[x].status # "none" => att'[x].status # "none" /\ att'[x].run = att[x].run
        /\ att[x].closed => att'[x].closed
        /\ att'[x].closed => att[x].closed \/ ClosePlan(x)

LEMMA StatusKeeps ==
    ASSUME NEW a \in Attempts, NEW status, status = "none" => att[a].status = "none",
           StatusOnly(a, status)
    PROVE  AttemptsKept
  BY DEF AttemptsKept, StatusOnly

LEMMA KeepsAttempts ==
    ASSUME IInv, CInv, [Next]_vars
    PROVE  AttemptsKept
<1>0. att \in [Attempts -> AttemptRow]
  BY DEF IInv, TypeInv, TypeOK, LifecycleTypeOK
<1>1. CASE UNCHANGED att
  BY <1>1 DEF AttemptsKept
<1>2. ASSUME NEW a \in Attempts, NEW r \in Runs, NEW s \in Scopes, CreateExportAttempt(a, r, s)
      PROVE  AttemptsKept
  <2>1. /\ att[a].status = "none" /\ att'[a].closed = FALSE
        /\ \A x \in Attempts \ {a} : att'[x] = att[x]
    BY <1>0, <1>2 DEF CreateExportAttempt
  <2>2. ~att[a].closed
    BY <2>1 DEF CInv, ClosedPlans
  <2>. QED
    BY <2>1, <2>2 DEF AttemptsKept
<1>3. ASSUME NEW a \in Attempts, Claim(a) PROVE AttemptsKept
  BY <1>0, <1>3 DEF Claim, AttemptRow, AttemptsKept
<1>4. ASSUME NEW a \in Attempts, ClosePlan(a) PROVE AttemptsKept
  <2>1. att' = [att EXCEPT ![a].closed = TRUE]
    BY <1>4 DEF ClosePlan
  <2>2. \A x \in Attempts : /\ att'[x].run = att[x].run /\ att'[x].status = att[x].status
                            /\ att'[x].closed <=> (x = a \/ att[x].closed)
    BY <1>0, <2>1 DEF AttemptRow
  <2>. QED
    BY <1>4, <2>2 DEF AttemptsKept
<1>5. ASSUME NEW a \in Attempts, RejectAttempt(a) PROVE AttemptsKept
  BY <1>0, <1>5, StatusWrite, StatusKeeps DEF RejectAttempt
<1>6. ASSUME NEW a \in Attempts, Retired(a) PROVE AttemptsKept
  BY <1>0, <1>6, RetiredWrite, StatusKeeps
<1>7. ASSUME NEW p \in Publishers, ReconcileSeal(p) PROVE AttemptsKept
  <2>1. CASE UNCHANGED att
    BY <1>1, <2>1
  <2>2. CASE att' = [att EXCEPT ![pub[p].a].status = "sealed"]
    <3>1. pub[p].a \in Attempts
      BY <1>7, BusyAttempt DEF ReconcileSeal
    <3>. QED
      BY <1>0, <2>2, <3>1, StatusWrite, StatusKeeps
  <2>. QED
    BY <1>7, <2>1, <2>2 DEF ReconcileSeal, Return, lifecycleVars
<1>8. ASSUME NEW p \in Publishers, RetireTerminal(p) PROVE AttemptsKept
  <2>1. CASE UNCHANGED att
    BY <1>1, <2>1
  <2>2. CASE Retired(pub[p].a)
    <3>1. pub[p].a \in Attempts
      BY <1>8, BusyAttempt DEF RetireTerminal
    <3>. QED
      BY <1>6, <2>2, <3>1
  <2>. QED
    BY <1>8, <2>1, <2>2 DEF RetireTerminal, Return, lifecycleVars
<1>9. \A a \in Attempts : RetireSettled(a) => Retired(a)
  BY DEF RetireSettled
<1>. QED
  BY <1>1, <1>2, <1>3, <1>4, <1>5, <1>6, <1>7, <1>8, <1>9, AttemptWriters

\* Receipts stay, and a closed plan does not change at all.
ChunksKept ==
    \A x \in Attempts :
        /\ \A k \in ChunkKeys : chunk[x][k] # "none" => chunk'[x][k] = chunk[x][k]
        /\ att[x].closed => /\ expected'[x] = expected[x] /\ closure'[x] = closure[x]
                            /\ chunk'[x] = chunk[x] /\ plan'[x] = plan[x]

LEMMA KeepsChunks ==
    ASSUME IInv, CInv, [Next]_vars
    PROVE  ChunksKept
<1>0. /\ expected \in [Attempts -> SUBSET ChunkKeys] /\ closure \in [Attempts -> SUBSET ChunkKeys]
      /\ chunk \in [Attempts -> [ChunkKeys -> Receipt]] /\ plan \in [Attempts -> PlanRow]
  BY DEF IInv, TypeInv, TypeOK, LifecycleTypeOK, HeadsTypeOK
<1>1. \A x \in Attempts : att[x].closed => plan'[x] = plan[x]
  <2>1. \A x \in Attempts : att[x].closed => expected[x] # {}
    BY DEF CInv, ClosedPlans, Barrier
  <2>. QED
    BY <1>0, <2>1, PlanWriters
<1>2. CASE UNCHANGED <<expected, closure, chunk>>
  BY <1>1, <1>2 DEF ChunksKept
<1>3. ASSUME NEW a \in Attempts, NEW k \in ChunkKeys, ExpectChunk(a, k) PROVE ChunksKept
  BY <1>0, <1>1, <1>3 DEF ChunksKept, ExpectChunk
<1>4. ASSUME NEW a \in Attempts, NEW k \in ChunkKeys, NEW x \in {"exact", "empty"},
             RecordChunk(a, k, x)
      PROVE  ChunksKept
  BY <1>0, <1>1, <1>4 DEF ChunksKept, RecordChunk
<1>5. ASSUME NEW a \in Attempts, NEW K \in SUBSET ChunkKeys, CloseSource(a, K) PROVE ChunksKept
  BY <1>0, <1>1, <1>5 DEF ChunksKept, CloseSource
<1>. QED
  BY <1>2, <1>3, <1>4, <1>5, ChunkWriters

\* A run that ended, and an orchestrator run that ended, stay as they are.
RunsKept ==
    \A r \in Runs :
        /\ run[r] = "success" => run'[r] = "success"
        /\ run[r] = "failed" => run'[r] = "failed"
        /\ orch[r] = "SUCCESS" => orch'[r] = "SUCCESS"
        /\ orch[r] = "FAILURE" => orch'[r] = "FAILURE"

LEMMA KeepsRuns ==
    ASSUME IInv, CInv, [Next]_vars
    PROVE  RunsKept /\ OrchestratorRuns'
<1>0. run \in [Runs -> RunStatus] /\ orch \in [Runs -> OrchStatus] /\ OrchestratorRuns
  BY DEF IInv, TypeInv, TypeOK, LifecycleTypeOK, CInv
<1>1. CASE UNCHANGED <<run, orch>>
  BY <1>0, <1>1 DEF RunsKept, OrchestratorRuns
<1>2. ASSUME NEW r \in Runs, StartSyncRun(r) PROVE RunsKept /\ OrchestratorRuns'
  BY <1>0, <1>2 DEF RunsKept, OrchestratorRuns, StartSyncRun
<1>3. ASSUME NEW r \in Runs, NEW status \in {"success", "failed"}, FinishSyncRun(r, status)
      PROVE  RunsKept /\ OrchestratorRuns'
  BY <1>0, <1>3 DEF RunsKept, OrchestratorRuns, FinishSyncRun
<1>4. ASSUME NEW r \in Runs, NEW status \in {"SUCCESS", "FAILURE"}, OrchestratorFinishes(r, status)
      PROVE  RunsKept /\ OrchestratorRuns'
  BY <1>0, <1>4 DEF RunsKept, OrchestratorRuns, OrchestratorFinishes
<1>5. ASSUME NEW p \in Publishers, RetireTerminal(p) PROVE RunsKept /\ OrchestratorRuns'
  <2>1. CASE ~Committed(pub[p].a)
    <3>. DEFINE r == att[pub[p].a].run
    <3>1. r \in Runs
      BY <1>5, BusyAttempt DEF RetireTerminal, IInv, TypeInv, CreatedAttempts
    <3>2. run' = [run EXCEPT ![r] = IF @ = "running" THEN "failed" ELSE @] /\ UNCHANGED orch
      BY <1>5, <2>1 DEF RetireTerminal
    <3>. HIDE DEF r
    <3>. QED
      BY <1>0, <3>1, <3>2 DEF RunsKept, OrchestratorRuns
  <2>2. CASE Committed(pub[p].a)
    BY <1>1, <1>5, <2>2 DEF RetireTerminal, Return, lifecycleVars
  <2>. QED
    BY <2>1, <2>2
<1>. QED
  BY <1>1, <1>2, <1>3, <1>4, <1>5, RunWriters DEF RunStep

\* Ownership can only be lost.
LEMMA KeepsOwners ==
    ASSUME IInv, [Next]_vars
    PROVE  OwnersKept
<1>1. CASE UNCHANGED lifecycleVars
  BY <1>1, SameOwners DEF IInv, Support, lifecycleVars
<1>2. CASE ~(UNCHANGED lifecycleVars)
  <2>1. \A a \in Attempts :
            /\ \A n \in Namespaces : Declare(a, n) => UNCHANGED lifecycleVars
            /\ \A c \in Contents, f, v \in 0 .. now, K \in SUBSET ChunkKeys :
                   BindResponse(a, c, f, v, K) => UNCHANGED lifecycleVars
    BY DEF Declare, BindResponse
  <2>2. \A p \in Publishers : PinArtifacts(p) \/ CommitHead(p) => UNCHANGED lifecycleVars
    BY DEF PinArtifacts, CommitHead, Return
  <2>3. TypeInv /\ ClaimedAttempts
    BY DEF IInv, Support
  <2>. QED
    BY <1>2, <2>1, <2>2, <2>3, QuietSteps DEF Next, PublisherStep, QuietFrame
<1>. QED
  BY <1>1, <1>2

-----------------------------------------------------------------------------
(***************************************************************************)
(* What was once established of an attempt stays established.              *)
(***************************************************************************)

LEMMA RecordedStays ==
    ASSUME ChunksKept, NEW a \in Attempts
    PROVE  Recorded(a) \subseteq Recorded(a)' /\ (att[a].closed => Recorded(a)' = Recorded(a))
  BY DEF ChunksKept, Recorded

LEMMA RunStays ==
    ASSUME IInv, AttemptsKept, RunsKept, NEW a \in Attempts, att[a].status # "none"
    PROVE  /\ RunIs(a, "success") => RunIs(a, "success")'
           /\ RunIs(a, "failed") => RunIs(a, "failed")'
           /\ OrchestratorAgrees(a) => OrchestratorAgrees(a)'
           /\ orch[att[a].run] = "FAILURE" => orch'[att'[a].run] = "FAILURE"
<1>1. att[a].run \in Runs /\ att'[a].run = att[a].run
  BY DEF IInv, TypeInv, CreatedAttempts, AttemptsKept
<1>. QED
  BY <1>1 DEF RunIs, OrchestratorAgrees, RunsKept

LEMMA ContentStays ==
    ASSUME ChunksKept, files \subseteq files', NEW a \in Attempts, att[a].closed, ContentProven(a)
    PROVE  ContentProven(a)'
<1>1. Recorded(a)' = Recorded(a) /\ chunk'[a] = chunk[a] /\ plan'[a] = plan[a]
  BY RecordedStays DEF ChunksKept
<1>2. Artifacts(a)' = Artifacts(a)
  BY <1>1 DEF Artifacts
<1>. QED
  BY <1>1, <1>2 DEF ContentProven

\* Only an unpublished attempt that lost its scope, or whose run or orchestrator run
\* failed, is retired, and of a sealed one neither failed.
LEMMA SealedStays ==
    ASSUME IInv, CInv, [Next]_vars, NEW x \in Attempts, att[x].status = "sealed",
           CurrentOwner(x) \/ Committed(x)
    PROVE  att'[x].status = "sealed"
<1>0. /\ att \in [Attempts -> AttemptRow] /\ att[x].run \in Runs /\ owner \in [Scopes -> OwnerRow]
      /\ att[x].scope \in Scopes
  BY DEF IInv, TypeInv, TypeOK, LifecycleTypeOK, CreatedAttempts
<1>1. /\ RunIs(x, "success") /\ ~RunIs(x, "failed") /\ orch[att[x].run] # "FAILURE"
      /\ Superseded(x) => Committed(x)
  <2>1. RunIs(x, "success") /\ OrchestratorAgrees(x)
    BY DEF CInv, SealedAttempts
  <2>2. orch[att[x].run] # "FAILURE"
    BY <1>0, <2>1 DEF OrchestratorAgrees, CInv, OrchestratorRuns
  <2>3. Superseded(x) => Committed(x)
    BY DEF CurrentOwner, Superseded
  <2>. QED
    BY <2>1, <2>2, <2>3 DEF RunIs
<1>2. ASSUME NEW a \in Attempts,
             \/ \E r \in Runs, s \in Scopes : CreateExportAttempt(a, r, s)
             \/ Claim(a) \/ ClosePlan(a) \/ RejectAttempt(a)
      PROVE  att'[x].status = "sealed"
  BY <1>0, <1>2 DEF CreateExportAttempt, Claim, ClosePlan, RejectAttempt, AttemptRow
<1>3. ASSUME NEW a \in Attempts, RetireSettled(a) PROVE att'[x].status = "sealed"
  <2>1. a # x
    BY <1>1, <1>3 DEF RetireSettled, Pending
  <2>. QED
    BY <1>0, <1>3, <2>1, RetiredWrite DEF RetireSettled, StatusOnly
<1>4. ASSUME NEW p \in Publishers, ReconcileSeal(p) PROVE att'[x].status = "sealed"
  <2>1. pub[p].a \in Attempts
    BY <1>4, BusyAttempt DEF ReconcileSeal
  <2>2. CASE UNCHANGED att
    BY <2>2
  <2>3. CASE att' = [att EXCEPT ![pub[p].a].status = "sealed"]
    BY <1>0, <2>1, <2>3, StatusWrite DEF StatusOnly
  <2>. QED
    BY <1>4, <2>2, <2>3 DEF ReconcileSeal, Return, lifecycleVars
<1>5. ASSUME NEW p \in Publishers, RetireTerminal(p) PROVE att'[x].status = "sealed"
  <2>1. pub[p].a \in Attempts /\ pub[p].a # x
    BY <1>1, <1>5, BusyAttempt DEF RetireTerminal, CInv, Proven
  <2>2. CASE UNCHANGED att
    BY <2>2
  <2>3. CASE Retired(pub[p].a)
    BY <1>0, <2>1, <2>3, RetiredWrite DEF StatusOnly
  <2>. QED
    BY <1>5, <2>2, <2>3 DEF RetireTerminal, Return, lifecycleVars
<1>. QED
  BY <1>2, <1>3, <1>4, <1>5, AttemptWriters

-----------------------------------------------------------------------------
(***************************************************************************)
(* The invariant is inductive.                                             *)
(***************************************************************************)

LEMMA ClosedPlansStay ==
    ASSUME IInv, CInv, [Next]_vars
    PROVE  ClosedPlans'
<1>. SUFFICES ASSUME NEW x \in Attempts, att'[x].closed
              PROVE  att'[x].status # "none" /\ Barrier(x)'
  BY DEF ClosedPlans
<1>1. CASE att[x].closed
  <2>1. att[x].status # "none" /\ Barrier(x)
    BY <1>1 DEF CInv, ClosedPlans
  <2>2. Recorded(x)' = Recorded(x) /\ expected'[x] = expected[x] /\ closure'[x] = closure[x]
        /\ chunk'[x] = chunk[x]
    BY <1>1, KeepsChunks, RecordedStays DEF ChunksKept
  <2>. QED
    BY <2>1, <2>2, KeepsAttempts DEF AttemptsKept, Barrier
<1>2. CASE ClosePlan(x)
  <2>1. att[x].status # "none" /\ Barrier(x) /\ UNCHANGED <<expected, closure, chunk>>
    BY <1>2 DEF ClosePlan, Preparing
  <2>. QED
    BY <2>1, KeepsAttempts DEF AttemptsKept, Barrier, Recorded
<1>. QED
  BY <1>1, <1>2, KeepsAttempts DEF AttemptsKept

\* What the second transaction of reconcile validates was recorded, and its file read.
LEMMA ValidatedStay ==
    ASSUME IInv, CInv, [Next]_vars
    PROVE  ValidatedChunks'
<1>1. \A x \in Attempts : Recorded(x) \subseteq Recorded(x)'
  BY KeepsChunks, RecordedStays
<1>2. files \subseteq files'
  BY FileWriters
<1>3. CASE UNCHANGED validated
  BY <1>1, <1>2, <1>3 DEF CInv, ValidatedChunks
<1>4. ASSUME NEW p \in Publishers, ReconcileSeal(p), ~(UNCHANGED validated)
      PROVE  ValidatedChunks'
  <2>. DEFINE a == pub[p].a
  <2>1. a \in Attempts /\ pub[p].pc = "seal"
    BY <1>4, BusyAttempt DEF ReconcileSeal
  <2>2. validated' = [validated EXCEPT ![a] = validated[a] \cup pub[p].batch]
    BY <1>4 DEF ReconcileSeal, Return, lifecycleVars
  <2>3. pub[p].batch \subseteq Recorded(a) /\ \A k \in pub[p].batch : <<a, k>> \in files
    BY <2>1 DEF CInv, Proven
  <2>4. \A x \in Attempts : \A k \in validated'[x] :
            k \in validated[x] \/ (x = a /\ k \in pub[p].batch)
    BY <2>1, <2>2 DEF IInv, TypeInv, TypeOK, LifecycleTypeOK
  <2>. HIDE DEF a
  <2>. QED
    BY <1>1, <1>2, <2>3, <2>4 DEF CInv, ValidatedChunks
<1>. QED
  BY <1>3, <1>4, FileWriters

\* A promotion that does not move keeps what it established.
LEMMA ProvenStays ==
    ASSUME IInv, CInv, [Next]_vars, NEW p \in Publishers, pub'[p] = pub[p]
    PROVE  Proven(p)'
<1>0. PICK a : a = pub[p].a
  OBVIOUS
<1>1. CASE pub[p].pc \in {"idle", "reconcile"}
  BY <1>1 DEF Proven
<1>2. CASE pub[p].pc \notin {"idle", "reconcile"}
  <2>1. a \in Attempts /\ att[a].status # "none"
    BY <1>0, <1>2, BusyAttempt
  <2>2. /\ AttemptsKept /\ ChunksKept /\ RunsKept /\ OwnersKept /\ files \subseteq files'
        /\ Recorded(a) \subseteq Recorded(a)'
    BY <2>1, KeepsAttempts, KeepsChunks, KeepsRuns, KeepsOwners, FileWriters, RecordedStays
  <2>3. Proven(p)
    BY DEF CInv
  <2>4. pub[p].pc \in {"verify", "seal", "pin", "read", "commit"} =>
            att'[a].closed /\ RunIs(a, "success")'
    BY <1>0, <2>1, <2>2, <2>3, RunStays DEF Proven, AttemptsKept
  <2>5. pub[p].pc \in {"verify", "seal"} => pub[p].batch \subseteq Recorded(a)'
    BY <1>0, <2>2, <2>3 DEF Proven
  <2>6. pub[p].pc = "seal" =>
            OrchestratorAgrees(a)' /\ \A k \in pub[p].batch : <<a, k>> \in files'
    BY <1>0, <2>1, <2>2, <2>3, RunStays DEF Proven
  <2>7. pub[p].pc = "pin" => att'[a].status = "sealed" \/ ~CurrentOwner(a)'
    <3>1. pub[p].pc = "pin" => att[a].epoch # 0
      BY <1>0 DEF IInv, TypeInv, BusyPublishers, Support, DeclaredAttempts
    <3>2. pub[p].pc = "pin" => (CurrentOwner(a)' => CurrentOwner(a))
      BY <2>1, <2>2, <3>1 DEF OwnersKept
    <3>. QED
      BY <1>0, <2>1, <2>3, <3>2, SealedStays DEF Proven
  <2>8. pub[p].pc = "commit" => ContentProven(a)'
    BY <1>0, <2>1, <2>2, <2>3, ContentStays DEF Proven
  <2>9. pub[p].pc = "terminal" => RunIs(a, "failed")' \/ orch'[att'[a].run] = "FAILURE"
    BY <1>0, <2>1, <2>2, <2>3, RunStays DEF Proven
  <2>10. pub'[p].a = a /\ pub'[p].pc = pub[p].pc /\ pub'[p].batch = pub[p].batch
    BY <1>0
  <2>. QED
    BY <2>4, <2>5, <2>6, <2>7, <2>8, <2>9, <2>10 DEF Proven
<1>. QED
  BY <1>1, <1>2

\* A step of one publisher is not a step of another.
LEMMA OneMoves ==
    ASSUME TypeInv, NEW p \in Publishers, NEW q \in Publishers, p # q,
           PublisherStep(p) \/ Crash(p)
               \/ \E a \in Attempts : StartPromotion(p, a) \/ ProbeTerminal(p, a)
    PROVE  pub'[q] = pub[q]
<1>0. pub \in [Publishers -> PublisherState]
  BY DEF TypeInv, TypeOK, HeadsTypeOK
<1>1. ReconcileRead(p) => pub'[q] = pub[q]
  BY <1>0 DEF ReconcileRead, Goto, Return
<1>2. ReconcileVerify(p) => pub'[q] = pub[q]
  BY <1>0 DEF ReconcileVerify, Goto, Return
<1>3. ReconcileSeal(p) => pub'[q] = pub[q]
  BY <1>0 DEF ReconcileSeal, Goto, Return
<1>4. PinArtifacts(p) \/ ReadArtifacts(p) => pub'[q] = pub[q]
  BY <1>0 DEF PinArtifacts, ReadArtifacts, Return
<1>5. CommitHead(p) \/ RetireTerminal(p) \/ Crash(p) => pub'[q] = pub[q]
  BY <1>0 DEF CommitHead, RetireTerminal, Crash, Return
<1>6. (\E a \in Attempts : StartPromotion(p, a) \/ ProbeTerminal(p, a)) => pub'[q] = pub[q]
  BY <1>0 DEF StartPromotion, ProbeTerminal
<1>. QED
  BY <1>1, <1>2, <1>3, <1>4, <1>5, <1>6 DEF PublisherStep

\* The steps of a publisher that goes on with an attempt.
Advances(p) ==
    \/ ReconcileRead(p) \/ ReconcileVerify(p) \/ ReconcileSeal(p)
    \/ PinArtifacts(p) \/ ReadArtifacts(p)
    \/ \E a \in Attempts : ProbeTerminal(p, a)

LEMMA Moves ==
    ASSUME IInv, [Next]_vars, NEW q \in Publishers
    PROVE  pub'[q] = pub[q] \/ pub'[q].pc \in {"idle", "reconcile"} \/ Advances(q)
<1>0. TypeInv /\ pub \in [Publishers -> PublisherState]
  BY DEF IInv, TypeInv, TypeOK, HeadsTypeOK
<1>1. CASE UNCHANGED pub
  BY <1>1
<1>2. ASSUME NEW p \in Publishers,
             PublisherStep(p) \/ Crash(p)
                 \/ \E a \in Attempts : StartPromotion(p, a) \/ ProbeTerminal(p, a)
      PROVE  pub'[q] = pub[q] \/ pub'[q].pc \in {"idle", "reconcile"} \/ Advances(q)
  <2>1. CASE p # q
    BY <1>0, <1>2, <2>1, OneMoves
  <2>2. CASE p = q
    <3>1. CommitHead(p) \/ RetireTerminal(p) \/ Crash(p) => pub'[p].pc = "idle"
      <4>1. CommitHead(p) \/ RetireTerminal(p) \/ Crash(p) => pub' = [pub EXCEPT ![p] = Idle]
        BY DEF CommitHead, RetireTerminal, Crash, Return
      <4>. QED
        BY <1>0, <4>1 DEF Idle
    <3>2. (\E a \in Attempts : StartPromotion(p, a)) => pub'[p].pc = "reconcile"
      BY <1>0 DEF StartPromotion, PublisherState
    <3>. QED
      BY <1>2, <2>2, <3>1, <3>2 DEF PublisherStep, Advances
  <2>. QED
    BY <2>1, <2>2
<1>3. \/ UNCHANGED pub
      \/ \E p \in Publishers :
            PublisherStep(p) \/ Crash(p)
                \/ \E a \in Attempts : StartPromotion(p, a) \/ ProbeTerminal(p, a)
  BY DEF Next, Tick, RunStep, CollectorStep, headVars, Declare, BindResponse, RetireSettled,
         BootstrapInventory, vars
<1>. QED
  BY <1>1, <1>2, <1>3

\* Steps that only read the tables of ExportLifecycle leave what they read as it is.
LEMMA ReadAgain ==
    ASSUME UNCHANGED lifecycleVars, UNCHANGED plan, NEW a
    PROVE  /\ Recorded(a)' = Recorded(a) /\ att'[a] = att[a]
           /\ \A status : RunIs(a, status)' <=> RunIs(a, status)
           /\ OrchestratorAgrees(a)' <=> OrchestratorAgrees(a)
           /\ CurrentOwner(a)' <=> CurrentOwner(a)
           /\ ContentProven(a)' <=> ContentProven(a)
           /\ orch'[att'[a].run] = orch[att[a].run]
  BY DEF lifecycleVars, Recorded, RunIs, OrchestratorAgrees, CurrentOwner, ContentProven, Artifacts

LEMMA RestProven ==
    ASSUME NEW p \in Publishers, pub'[p].pc \in {"idle", "reconcile"}
    PROVE  Proven(p)'
  BY DEF Proven

LEMMA ReturnRests ==
    ASSUME IInv, NEW p \in Publishers, Return(p)
    PROVE  Proven(p)'
<1>1. pub'[p].pc = "idle"
  BY DEF Return, Idle, IInv, TypeInv, TypeOK, HeadsTypeOK
<1>. QED
  BY <1>1, RestProven

\* The first transaction of reconcile, and the probe and the file reads after it.
LEMMA ReconcileProves ==
    ASSUME IInv, CInv, NEW p \in Publishers, ReconcileRead(p) \/ ReconcileVerify(p)
    PROVE  Proven(p)'
<1>0. PICK a : a = pub[p].a
  OBVIOUS
<1>1. pub \in [Publishers -> PublisherState] /\ pub[p] \in PublisherState /\ a \in Attempts
  BY <1>0, BusyAttempt DEF ReconcileRead, ReconcileVerify, IInv, TypeInv, TypeOK, HeadsTypeOK
<1>2. CASE Return(p)
  BY <1>2, ReturnRests
<1>3. CASE ~Return(p) /\ ReconcileRead(p)
  <2>1. UNCHANGED lifecycleVars /\ UNCHANGED plan /\ Reconcilable(a)
    BY <1>0, <1>3 DEF ReconcileRead
  <2>2. CASE att[a].status = "sealed" /\ Goto(p, "pin")
    <3>1. pub'[p].pc = "pin" /\ pub'[p].a = a
      BY <1>0, <1>1, <2>2 DEF Goto, PublisherState
    <3>. QED
      BY <2>1, <2>2, <3>1, ReadAgain DEF Proven, Reconcilable
  <2>3. CASE \E batch \in SUBSET (Recorded(a) \ validated[a]) :
                pub' = [pub EXCEPT ![p] = [@ EXCEPT !.pc = "verify", !.batch = batch]]
    <3>1. pub'[p].pc = "verify" /\ pub'[p].a = a /\ pub'[p].batch \subseteq Recorded(a)
      BY <1>0, <1>1, <2>3 DEF PublisherState
    <3>. QED
      BY <2>1, <3>1, ReadAgain DEF Proven, Reconcilable
  <2>. QED
    BY <1>0, <1>3, <2>2, <2>3 DEF ReconcileRead
<1>4. CASE ~Return(p) /\ ReconcileVerify(p)
  <2>1. /\ UNCHANGED lifecycleVars /\ UNCHANGED plan /\ pub[p].pc = "verify"
        /\ OrchestratorAgrees(a) /\ \A k \in pub[p].batch : <<a, k>> \in files
        /\ Goto(p, "seal")
    BY <1>0, <1>4 DEF ReconcileVerify
  <2>2. pub'[p].pc = "seal" /\ pub'[p].a = a /\ pub'[p].batch = pub[p].batch
    BY <1>0, <1>1, <2>1 DEF Goto, PublisherState
  <2>3. att[a].closed /\ RunIs(a, "success") /\ pub[p].batch \subseteq Recorded(a)
    BY <1>0, <2>1 DEF CInv, Proven
  <2>4. files' = files
    BY <2>1 DEF lifecycleVars
  <2>. QED
    BY <2>1, <2>2, <2>3, <2>4, ReadAgain DEF Proven
<1>. QED
  BY <1>2, <1>3, <1>4

\* The second transaction of reconcile.
LEMMA SealProves ==
    ASSUME IInv, CInv, [Next]_vars, NEW p \in Publishers, ReconcileSeal(p)
    PROVE  Proven(p)'
<1>0. PICK a : a = pub[p].a
  OBVIOUS
<1>1. /\ pub \in [Publishers -> PublisherState] /\ pub[p] \in PublisherState /\ a \in Attempts
      /\ att[a].status # "none" /\ att \in [Attempts -> AttemptRow]
  BY <1>0, BusyAttempt DEF ReconcileSeal, IInv, TypeInv, TypeOK, HeadsTypeOK, LifecycleTypeOK
<1>2. CASE Return(p)
  BY <1>2, ReturnRests
<1>3. CASE pub' = [pub EXCEPT ![p] = Idle]
  <2>1. pub'[p].pc = "idle"
    BY <1>1, <1>3 DEF Idle
  <2>. QED
    BY <2>1, RestProven
<1>4. CASE att' = [att EXCEPT ![a].status = "sealed"] /\ Goto(p, "pin")
  <2>1. pub'[p].pc = "pin" /\ pub'[p].a = a
    BY <1>0, <1>1, <1>4 DEF Goto, PublisherState
  <2>2. att'[a].status = "sealed"
    BY <1>1, <1>4, StatusWrite DEF StatusOnly
  <2>3. att[a].closed /\ RunIs(a, "success")
    BY <1>0 DEF ReconcileSeal, CInv, Proven
  <2>4. att'[a].closed /\ RunIs(a, "success")'
    BY <1>1, <2>3, KeepsAttempts, KeepsRuns, RunStays DEF AttemptsKept
  <2>. QED
    BY <2>1, <2>2, <2>4 DEF Proven
<1>. QED
  BY <1>0, <1>2, <1>3, <1>4 DEF ReconcileSeal

\* Pinning, reading the files, and the probe of a failed run.
LEMMA PromoteProves ==
    ASSUME IInv, CInv, NEW p \in Publishers, PinArtifacts(p) \/ ReadArtifacts(p)
    PROVE  Proven(p)'
<1>0. PICK a : a = pub[p].a
  OBVIOUS
<1>1. pub \in [Publishers -> PublisherState] /\ pub[p] \in PublisherState
  BY DEF IInv, TypeInv, TypeOK, HeadsTypeOK
<1>2. CASE Return(p)
  BY <1>2, ReturnRests
<1>3. att[a].closed /\ RunIs(a, "success")
  BY <1>0 DEF PinArtifacts, ReadArtifacts, CInv, Proven
<1>4. CASE ~Return(p) /\ PinArtifacts(p)
  <2>1. UNCHANGED lifecycleVars /\ UNCHANGED plan
    BY <1>4 DEF PinArtifacts
  <2>2. pub'[p].pc = "read" /\ pub'[p].a = a
    <3>1. PICK x : pub' = [pub EXCEPT ![p] = [@ EXCEPT !.pc = "read", !.parent = x]]
      BY <1>4 DEF PinArtifacts
    <3>. QED
      BY <1>0, <1>1, <3>1 DEF PublisherState
  <2>. QED
    BY <1>3, <2>1, <2>2, ReadAgain DEF Proven
<1>5. CASE ~Return(p) /\ ReadArtifacts(p)
  <2>1. UNCHANGED lifecycleVars /\ UNCHANGED plan /\ ContentProven(a)
    BY <1>0, <1>5 DEF ReadArtifacts
  <2>2. pub'[p].pc = "commit" /\ pub'[p].a = a
    <3>1. PICK x : pub' = [pub EXCEPT ![p] = [@ EXCEPT !.pc = "commit", !.reuse = x]]
      BY <1>5 DEF ReadArtifacts
    <3>. QED
      BY <1>0, <1>1, <3>1 DEF PublisherState
  <2>. QED
    BY <1>3, <2>1, <2>2, ReadAgain DEF Proven
<1>. QED
  BY <1>2, <1>4, <1>5

LEMMA ProbeProves ==
    ASSUME IInv, NEW p \in Publishers, NEW a \in Attempts, ProbeTerminal(p, a)
    PROVE  Proven(p)'
<1>1. /\ UNCHANGED lifecycleVars /\ UNCHANGED plan
      /\ RunIs(a, "failed") \/ orch[att[a].run] = "FAILURE"
  BY DEF ProbeTerminal, ConfirmedFailure
<1>2. pub'[p].pc = "terminal" /\ pub'[p].a = a
  BY DEF ProbeTerminal, IInv, TypeInv, TypeOK, HeadsTypeOK, PublisherState
<1>. QED
  BY <1>1, <1>2, ReadAgain DEF Proven

LEMMA ProvenNext ==
    ASSUME IInv, CInv, [Next]_vars, NEW p \in Publishers
    PROVE  Proven(p)'
  BY Moves, ProvenStays, RestProven, ReconcileProves, SealProves, PromoteProves, ProbeProves
  DEF Advances

\* Only the second transaction of reconcile seals, once every receipt is validated.
LEMMA SealedBy ==
    ASSUME IInv, CInv, [Next]_vars, NEW x \in Attempts,
           att[x].status # "sealed", att'[x].status = "sealed"
    PROVE  \E p \in Publishers : ReconcileSeal(p) /\ pub[p].a = x /\ Recorded(x) \subseteq validated'[x]
<1>0. att \in [Attempts -> AttemptRow] /\ validated \in [Attempts -> SUBSET ChunkKeys]
  BY DEF IInv, TypeInv, TypeOK, LifecycleTypeOK
<1>1. ASSUME NEW a \in Attempts,
             \/ \E r \in Runs, s \in Scopes : CreateExportAttempt(a, r, s)
             \/ Claim(a) \/ ClosePlan(a) \/ RejectAttempt(a)
      PROVE  FALSE
  BY <1>0, <1>1 DEF CreateExportAttempt, Claim, ClosePlan, RejectAttempt, AttemptRow
<1>2. ASSUME NEW a \in Attempts, Retired(a) PROVE FALSE
  BY <1>0, <1>2, RetiredWrite DEF StatusOnly
<1>3. ASSUME NEW p \in Publishers, RetireTerminal(p) PROVE FALSE
  <2>1. pub[p].a \in Attempts
    BY <1>3, BusyAttempt DEF RetireTerminal
  <2>. QED
    BY <1>2, <1>3, <2>1 DEF RetireTerminal, Return, lifecycleVars
<1>4. ASSUME NEW p \in Publishers, ReconcileSeal(p)
      PROVE  pub[p].a = x /\ Recorded(x) \subseteq validated'[x]
  <2>1. pub[p].a \in Attempts
    BY <1>4, BusyAttempt DEF ReconcileSeal
  <2>2. att' # att
    OBVIOUS
  <2>3. /\ att' = [att EXCEPT ![pub[p].a].status = "sealed"]
        /\ validated' = [validated EXCEPT ![pub[p].a] = validated[pub[p].a] \cup pub[p].batch]
        /\ Recorded(pub[p].a) \subseteq validated[pub[p].a] \cup pub[p].batch
    BY <1>4, <2>2 DEF ReconcileSeal, Return, lifecycleVars
  <2>4. pub[p].a = x
    BY <1>0, <2>1, <2>3, StatusWrite DEF StatusOnly
  <2>. QED
    BY <1>0, <2>3, <2>4
<1>5. \A a \in Attempts : RetireSettled(a) => Retired(a)
  BY DEF RetireSettled
<1>. QED
  BY <1>1, <1>2, <1>3, <1>4, <1>5, AttemptWriters

LEMMA SealedNext ==
    ASSUME IInv, CInv, [Next]_vars
    PROVE  SealedAttempts'
<1>. SUFFICES ASSUME NEW x \in Attempts, att'[x].status = "sealed"
              PROVE  /\ att'[x].closed /\ RunIs(x, "success")' /\ OrchestratorAgrees(x)'
                     /\ Recorded(x)' \subseteq validated'[x]
  BY DEF SealedAttempts
<1>1. AttemptsKept /\ ChunksKept /\ RunsKept
  BY KeepsAttempts, KeepsChunks, KeepsRuns
<1>2. CASE att[x].status = "sealed"
  <2>1. /\ att[x].closed /\ RunIs(x, "success") /\ OrchestratorAgrees(x)
        /\ Recorded(x) \subseteq validated[x]
    BY <1>2 DEF CInv, SealedAttempts
  <2>2. validated[x] \subseteq validated'[x]
    <3>1. CASE UNCHANGED validated
      BY <3>1
    <3>2. ASSUME NEW p \in Publishers, ReconcileSeal(p), ~(UNCHANGED validated)
          PROVE  validated[x] \subseteq validated'[x]
      <4>1. validated' = [validated EXCEPT ![pub[p].a] = validated[pub[p].a] \cup pub[p].batch]
        BY <3>2 DEF ReconcileSeal, Return, lifecycleVars
      <4>. QED
        BY <4>1 DEF IInv, TypeInv, TypeOK, LifecycleTypeOK
    <3>. QED
      BY <3>1, <3>2, FileWriters
  <2>. QED
    BY <1>1, <1>2, <2>1, <2>2, RecordedStays, RunStays DEF AttemptsKept
<1>3. CASE att[x].status # "sealed"
  <2>1. PICK p \in Publishers :
            ReconcileSeal(p) /\ pub[p].a = x /\ Recorded(x) \subseteq validated'[x]
    BY <1>3, SealedBy
  <2>2. att[x].closed /\ RunIs(x, "success") /\ OrchestratorAgrees(x) /\ att[x].status # "none"
    BY <2>1, BusyAttempt DEF ReconcileSeal, CInv, Proven
  <2>. QED
    BY <1>1, <2>1, <2>2, RecordedStays, RunStays DEF AttemptsKept
<1>. QED
  BY <1>2, <1>3

\* The last transaction checks that the attempt is sealed; its content was read before.
LEMMA CommittedNext ==
    ASSUME IInv, CInv, [Next]_vars
    PROVE  CommittedAttempts'
<1>. SUFFICES ASSUME NEW x \in Attempts, Committed(x)'
              PROVE  att'[x].status = "sealed" /\ ContentProven(x)'
  BY DEF CommittedAttempts
<1>1. CASE Committed(x)
  <2>1. att[x].status = "sealed" /\ ContentProven(x)
    BY <1>1 DEF CInv, CommittedAttempts
  <2>2. att[x].closed
    BY <2>1 DEF CInv, SealedAttempts
  <2>. QED
    BY <1>1, <2>1, <2>2, SealedStays, ContentStays, KeepsChunks, FileWriters
<1>2. CASE ~Committed(x)
  <2>1. PICK p \in Publishers : CommitHead(p) /\ MayCommit(p)
    BY <1>2, GenerationWriters DEF Committed
  <2>2. pub[p].a \in Attempts /\ pub[p].pc = "commit"
    BY <2>1, BusyAttempt DEF CommitHead
  <2>3. x = pub[p].a
    <3>1. \E row : gen' = [gen EXCEPT ![pub[p].a] = row] \/ gen' = gen
      BY <2>1 DEF CommitHead, Return
    <3>. QED
      BY <1>2, <2>2, <3>1 DEF IInv, TypeInv, TypeOK, HeadsTypeOK, Committed
  <2>4. ContentProven(x) /\ att[x].status = "sealed"
    BY <2>1, <2>2, <2>3 DEF CInv, Proven, MayCommit
  <2>5. UNCHANGED lifecycleVars /\ UNCHANGED plan
    BY <2>1 DEF CommitHead, Return
  <2>. QED
    BY <2>4, <2>5, ReadAgain
<1>. QED
  BY <1>1, <1>2

LEMMA CompleteInit == Init => CInv
<1>. SUFFICES ASSUME Init PROVE CInv
  OBVIOUS
<1>1. /\ \A a \in Attempts : att[a].status = "none" /\ ~att[a].closed /\ validated[a] = {}
      /\ \A a \in Attempts : ~Committed(a)
      /\ \A r \in Runs : orch[r] = "none"
      /\ \A p \in Publishers : pub[p].pc = "idle"
  BY DEF Init, LifecycleInit, HeadsInit, Idle, Committed
<1>. QED
  BY <1>1 DEF CInv, ClosedPlans, ValidatedChunks, OrchestratorRuns, Proven, SealedAttempts,
     CommittedAttempts

LEMMA CompleteNext == IInv /\ CInv /\ [Next]_vars => CInv'
<1>. SUFFICES ASSUME IInv, CInv, [Next]_vars PROVE CInv'
  OBVIOUS
<1>1. \A p \in Publishers : Proven(p)'
  BY ProvenNext
<1>. QED
  BY <1>1, ClosedPlansStay, ValidatedStay, KeepsRuns, SealedNext, CommittedNext DEF CInv

LEMMA SpecComplete == Spec => [](IInv /\ CInv)
  BY SpecSafe, CompleteInit, CompleteNext, PTL DEF Spec

-----------------------------------------------------------------------------
(***************************************************************************)
(* Theorems.                                                               *)
(***************************************************************************)

\* promote publishes only what a run collected that succeeded, in the database and in
\* the orchestrator, although the last transaction asks the orchestrator nothing.
THEOREM PublishedRunsSucceed == Spec => []PublishedRunsSucceeded
<1>1. IInv /\ CInv => PublishedRunsSucceeded
  BY DEF CInv, CommittedAttempts, SealedAttempts, PublishedRunsSucceeded, OrchestratorAgrees
<1>. QED
  BY <1>1, SpecComplete, PTL

LEMMA CompleteIsWhole == IInv /\ CInv => PublishedComplete
<1>. SUFFICES ASSUME IInv, CInv, NEW a \in Attempts, Committed(a)
              PROVE  /\ expected[a] = plan[a].parts /\ Recorded(a) = expected[a]
                     /\ validated[a] = expected[a]
                     /\ \A k \in expected[a] : chunk[a][k] = "exact" /\ <<a, k>> \in files
  BY DEF PublishedComplete
<1>1. ContentProven(a) /\ att[a].closed /\ Recorded(a) \subseteq validated[a]
  BY DEF CInv, CommittedAttempts, SealedAttempts
<1>2. Barrier(a)
  BY <1>1 DEF CInv, ClosedPlans
<1>3. Recorded(a) = expected[a] /\ Recorded(a) = plan[a].parts
      /\ \A k \in Recorded(a) : chunk[a][k] = "exact"
  BY <1>1, <1>2 DEF Barrier, ContentProven
<1>4. validated[a] \subseteq Recorded(a) /\ \A k \in validated[a] : <<a, k>> \in files
  BY DEF CInv, ValidatedChunks
<1>. QED
  BY <1>1, <1>3, <1>4

\* A head never names part of a response: close_plan, the two transactions of reconcile and
\* the reads of promote look at the chunks at different times, and nothing changes them
\* in between.
THEOREM PublishedIsComplete == Spec => []PublishedComplete
  BY CompleteIsWhole, SpecComplete, PTL

\* Retirement, by whichever of its statements and however late after its probe, never
\* fails a sealed attempt that still owns its scope.
THEOREM SealedOwnersSurvive == Spec => SealedOwnerSurvives
<1>1. IInv /\ CInv /\ [Next]_vars =>
          [\A a \in Attempts :
              att[a].status = "sealed" /\ CurrentOwner(a) => att'[a].status = "sealed"]_vars
  BY SealedStays
<1>. QED
  BY <1>1, SpecComplete, PTL DEF Spec, SealedOwnerSurvives

-----------------------------------------------------------------------------
(***************************************************************************)
(* Pins, with the publisher lease held.                                    *)
(***************************************************************************)

\* A promotion that goes on is of the same attempt, or has just begun.
LEMMA PromotionGoesOn ==
    ASSUME IInv, [Next]_vars, NEW p \in Publishers, pub'[p].pc \notin {"idle", "terminal"}
    PROVE  \/ pub[p].pc \notin {"idle", "terminal"} /\ pub'[p].a = pub[p].a
           \/ \E a \in Attempts : Pending(a) /\ pub'[p].a = a
<1>0. TypeInv /\ pub \in [Publishers -> PublisherState] /\ pub[p] \in PublisherState
  BY DEF IInv, TypeInv, TypeOK, HeadsTypeOK
<1>1. CASE UNCHANGED pub
  BY <1>1
<1>2. ASSUME NEW q \in Publishers, q # p,
             PublisherStep(q) \/ Crash(q)
                 \/ \E a \in Attempts : StartPromotion(q, a) \/ ProbeTerminal(q, a)
      PROVE  pub'[p] = pub[p]
  BY <1>0, <1>2, OneMoves
<1>3. ASSUME NEW a \in Attempts, StartPromotion(p, a) PROVE Pending(a) /\ pub'[p].a = a
  BY <1>0, <1>3 DEF StartPromotion, PublisherState
<1>4. ASSUME NEW a \in Attempts, ProbeTerminal(p, a) PROVE FALSE
  BY <1>0, <1>4 DEF ProbeTerminal, PublisherState
<1>5. CASE pub' = [pub EXCEPT ![p] = Idle]
  BY <1>0, <1>5 DEF Idle
<1>6. Return(p) \/ Crash(p) \/ CommitHead(p) \/ RetireTerminal(p) => pub' = [pub EXCEPT ![p] = Idle]
  BY DEF Return, Crash, CommitHead, RetireTerminal
<1>7. ASSUME pub[p].pc \in {"reconcile", "verify", "seal", "pin", "read"},
             \/ \E pc : pub' = [pub EXCEPT ![p].pc = pc]
             \/ \E pc, x : pub' = [pub EXCEPT ![p] = [@ EXCEPT !.pc = pc, !.batch = x]]
             \/ \E pc, x : pub' = [pub EXCEPT ![p] = [@ EXCEPT !.pc = pc, !.parent = x]]
             \/ \E pc, x : pub' = [pub EXCEPT ![p] = [@ EXCEPT !.pc = pc, !.reuse = x]]
      PROVE  pub[p].pc \notin {"idle", "terminal"} /\ pub'[p].a = pub[p].a
  BY <1>0, <1>7 DEF PublisherState
<1>8. CASE ReconcileRead(p)
  BY <1>5, <1>6, <1>7, <1>8 DEF ReconcileRead, Goto
<1>9. CASE ReconcileVerify(p)
  BY <1>5, <1>6, <1>7, <1>9 DEF ReconcileVerify, Goto
<1>10. CASE ReconcileSeal(p)
  BY <1>5, <1>6, <1>7, <1>10 DEF ReconcileSeal, Goto
<1>11. CASE PinArtifacts(p)
  BY <1>5, <1>6, <1>7, <1>11 DEF PinArtifacts
<1>12. CASE ReadArtifacts(p)
  BY <1>5, <1>6, <1>7, <1>12 DEF ReadArtifacts
<1>13. \/ UNCHANGED pub
       \/ \E q \in Publishers :
             PublisherStep(q) \/ Crash(q)
                 \/ \E a \in Attempts : StartPromotion(q, a) \/ ProbeTerminal(q, a)
  BY DEF Next, Tick, RunStep, CollectorStep, headVars, Declare, BindResponse, RetireSettled,
         BootstrapInventory, vars
<1>14. CASE PublisherStep(p) \/ Crash(p)
  BY <1>5, <1>6, <1>8, <1>9, <1>10, <1>11, <1>12, <1>14 DEF PublisherStep
<1>. QED
  BY <1>1, <1>2, <1>3, <1>4, <1>13, <1>14

\* Who writes pins: the second transaction of promote, the last one, and retirement.
LEMMA PinWriters ==
    ASSUME IInv, [Next]_vars, NEW x \in Attempts
    PROVE  \/ pins'[x] = pins[x] \/ pins'[x] = NoPins
           \/ \E p \in Publishers :
                 /\ pub[p].pc = "pin" /\ pub[p].a = x /\ CurrentOwner(x)
                 /\ UNCHANGED lifecycleVars /\ UNCHANGED gen
<1>0. pins \in [Attempts -> PinRow]
  BY DEF IInv, TypeInv, TypeOK, HeadsTypeOK
<1>1. ASSUME NEW a \in Attempts, pins' = [pins EXCEPT ![a] = NoPins]
      PROVE  pins'[x] = pins[x] \/ pins'[x] = NoPins
  BY <1>0, <1>1
<1>2. \A a \in Attempts : RetireSettled(a) => pins' = [pins EXCEPT ![a] = NoPins]
  BY DEF RetireSettled, Retired
<1>3. \A p \in Publishers : RetireTerminal(p) \/ CommitHead(p) =>
          pub[p].a \in Attempts /\ (UNCHANGED pins \/ pins' = [pins EXCEPT ![pub[p].a] = NoPins])
  BY BusyAttempt DEF RetireTerminal, CommitHead, Retired, Return
<1>4. ASSUME NEW p \in Publishers, PinArtifacts(p), ~(UNCHANGED pins)
      PROVE  \/ pins'[x] = pins[x]
             \/ /\ pub[p].pc = "pin" /\ pub[p].a = x /\ CurrentOwner(x)
                /\ UNCHANGED lifecycleVars /\ UNCHANGED gen
  <2>1. /\ pub[p].pc = "pin" /\ CurrentOwner(pub[p].a)
        /\ UNCHANGED lifecycleVars /\ UNCHANGED gen
        /\ \E row : pins' = [pins EXCEPT ![pub[p].a] = row]
    BY <1>4 DEF PinArtifacts, Return
  <2>. QED
    BY <1>0, <2>1
<1>5. \A p \in Publishers :
          ReconcileRead(p) \/ ReconcileVerify(p) \/ ReconcileSeal(p) \/ ReadArtifacts(p) \/ Crash(p)
              => UNCHANGED pins
  BY DEF ReconcileRead, ReconcileVerify, ReconcileSeal, ReadArtifacts, Return, Crash
<1>6. \A p \in Publishers, a \in Attempts :
          StartPromotion(p, a) \/ ProbeTerminal(p, a) => UNCHANGED pins
  BY DEF StartPromotion, ProbeTerminal
<1>7. \A a \in Attempts : CollectorStep(a) => UNCHANGED pins
  BY DEF CollectorStep, headVars
<1>8. \A a \in Attempts, n \in Namespaces : Declare(a, n) => UNCHANGED pins
  BY DEF Declare
<1>9. \A a \in Attempts, c \in Contents, f, v \in 0 .. now, K \in SUBSET ChunkKeys :
          BindResponse(a, c, f, v, K) => UNCHANGED pins
  BY DEF BindResponse
<1>10. (UNCHANGED vars) \/ Tick \/ (\E r \in Runs : RunStep(r))
           \/ (\E n \in Namespaces : BootstrapInventory(n)) => UNCHANGED pins
  BY DEF vars, headVars, Tick, RunStep, BootstrapInventory
<1>11. CASE UNCHANGED pins
  BY <1>11
<1>12. ASSUME NEW p \in Publishers, PublisherStep(p)
       PROVE  \/ pins'[x] = pins[x] \/ pins'[x] = NoPins
              \/ /\ pub[p].pc = "pin" /\ pub[p].a = x /\ CurrentOwner(x)
                 /\ UNCHANGED lifecycleVars /\ UNCHANGED gen
  BY <1>1, <1>3, <1>4, <1>5, <1>11, <1>12 DEF PublisherStep
<1>. QED
  BY <1>1, <1>2, <1>5, <1>6, <1>7, <1>8, <1>9, <1>10, <1>11, <1>12 DEF Next

\* An attempt that stops being sealed, or is committed, gives its pins up in that step.
LEMMA PinsGoWithTheAttempt ==
    ASSUME IInv, CInv, [Next]_vars, NEW x \in Attempts,
           \/ att[x].status = "sealed" /\ att'[x].status # "sealed"
           \/ ~Committed(x) /\ Committed(x)'
    PROVE  pins'[x] = NoPins
<1>0. att \in [Attempts -> AttemptRow] /\ pins \in [Attempts -> PinRow]
      /\ gen \in [Attempts -> GenerationRow]
  BY DEF IInv, TypeInv, TypeOK, HeadsTypeOK, LifecycleTypeOK
<1>1. CASE ~Committed(x) /\ Committed(x)'
  <2>1. PICK p \in Publishers : CommitHead(p) /\ MayCommit(p)
    BY <1>1, GenerationWriters DEF Committed
  <2>2. pub[p].a \in Attempts
    BY <2>1, BusyAttempt DEF CommitHead
  <2>3. gen' # gen
    BY <1>1 DEF Committed
  <2>4. /\ \E row : gen' = [gen EXCEPT ![pub[p].a] = row]
        /\ pins' = [pins EXCEPT ![pub[p].a] = NoPins]
    BY <2>1, <2>3 DEF CommitHead, Return
  <2>5. x = pub[p].a
    BY <1>0, <1>1, <2>2, <2>4 DEF Committed
  <2>. QED
    BY <1>0, <2>4, <2>5
<1>2. CASE att[x].status = "sealed" /\ att'[x].status # "sealed"
  <2>1. ASSUME NEW a \in Attempts,
               \/ \E r \in Runs, s \in Scopes : CreateExportAttempt(a, r, s)
               \/ Claim(a) \/ ClosePlan(a) \/ RejectAttempt(a)
        PROVE  att'[x].status = "sealed"
    BY <1>0, <1>2, <2>1 DEF CreateExportAttempt, Claim, ClosePlan, RejectAttempt, AttemptRow
  <2>2. ASSUME NEW a \in Attempts, Retired(a) PROVE pins'[x] = NoPins
    <3>1. a = x
      BY <1>0, <1>2, <2>2, RetiredWrite DEF StatusOnly
    <3>. QED
      BY <1>0, <2>2, <3>1 DEF Retired
  <2>3. ASSUME NEW p \in Publishers, ReconcileSeal(p) PROVE att'[x].status = "sealed"
    <3>1. pub[p].a \in Attempts
      BY <2>3, BusyAttempt DEF ReconcileSeal
    <3>2. CASE UNCHANGED att
      BY <1>2, <3>2
    <3>3. CASE att' = [att EXCEPT ![pub[p].a].status = "sealed"]
      BY <1>0, <1>2, <3>1, <3>3, StatusWrite DEF StatusOnly
    <3>. QED
      BY <2>3, <3>2, <3>3 DEF ReconcileSeal, Return, lifecycleVars
  <2>4. ASSUME NEW p \in Publishers, RetireTerminal(p) PROVE pins'[x] = NoPins
    <3>1. pub[p].a \in Attempts /\ att' # att
      BY <1>2, <2>4, BusyAttempt DEF RetireTerminal
    <3>. QED
      BY <2>2, <2>4, <3>1 DEF RetireTerminal, Return, lifecycleVars
  <2>5. \A a \in Attempts : RetireSettled(a) => Retired(a)
    BY DEF RetireSettled
  <2>. QED
    BY <1>2, <2>1, <2>2, <2>3, <2>4, <2>5, AttemptWriters
<1>. QED
  BY <1>1, <1>2

LEMMA PinsNext ==
    ASSUME OnePublisher, IInv, CInv, PinsHeld, [Next]_vars
    PROVE  PinsHeld'
<1>1. ASSUME NEW p \in Publishers, pub'[p].pc \notin {"idle", "terminal"}
      PROVE  ~Committed(pub[p].a)'
  <2>1. CASE UNCHANGED gen
    BY <1>1, <2>1, PromotionGoesOn DEF PinsHeld, Pending, Committed
  <2>2. ASSUME NEW q \in Publishers, CommitHead(q) PROVE FALSE
    <3>1. pub' = [pub EXCEPT ![p] = Idle]
      BY <2>2 DEF OnePublisher, CommitHead, Return
    <3>. QED
      BY <1>1, <3>1 DEF Idle, IInv, TypeInv, TypeOK, HeadsTypeOK
  <2>. QED
    BY <2>1, <2>2, GenerationWriters
<1>2. ASSUME NEW x \in Attempts, pins'[x] # NoPins
      PROVE  att'[x].status = "sealed" /\ ~Committed(x)'
  <2>1. att[x].status = "sealed" /\ ~Committed(x)
    <3>1. CASE pins'[x] = pins[x]
      BY <1>2, <3>1 DEF PinsHeld
    <3>2. ASSUME NEW p \in Publishers, pub[p].pc = "pin", pub[p].a = x, CurrentOwner(x)
          PROVE  att[x].status = "sealed" /\ ~Committed(x)
      BY <3>2 DEF PinsHeld, CInv, Proven
    <3>. QED
      BY <1>2, <3>1, <3>2, PinWriters
  <2>. QED
    BY <1>2, <2>1, PinsGoWithTheAttempt
<1>. QED
  BY <1>1, <1>2 DEF PinsHeld

\* With the publisher lease held no pin of weather_export_pending_refs outlives its
\* attempt: what was published or retired keeps no file from the garbage collector.
THEOREM PinsAreReleased ==
    ASSUME OnePublisher
    PROVE  Spec => []PinsReleased
<1>1. Init => PinsHeld
  BY DEF Init, HeadsInit, PinsHeld, Idle
<1>2. IInv /\ CInv /\ PinsHeld /\ [Next]_vars => PinsHeld'
  BY PinsNext
<1>3. PinsHeld => PinsReleased
  BY DEF PinsHeld, PinsReleased
<1>. QED
  BY <1>1, <1>2, <1>3, SpecComplete, PTL DEF Spec
=============================================================================
