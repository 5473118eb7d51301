------------------------- MODULE SyncRunLeaseProofs --------------------------
(***************************************************************************)
(* Proofs about SyncRunLease, for any number of runs, datasets and keys.   *)
(***************************************************************************)
EXTENDS SyncRunLease, FiniteSetTheorems, WellFoundedInduction, TLAPS

-----------------------------------------------------------------------------
(***************************************************************************)
(* The order of runs: every set of runs has a newest one.                  *)
(***************************************************************************)

Newer(rows, R, r) == \A q \in R : q = r \/ Before(rows, q, r)

NatLess == {mn \in Nat \X Nat : mn[1] < mn[2]}

\* A nonempty set of numbers has a least element.
LEMMA LeastNat ==
    ASSUME NEW T \in SUBSET Nat, T # {}
    PROVE  \E n \in T : \A m \in T : n <= m
<1>1. IsWellFoundedOn(NatLess, Nat)
  BY NatLessThanWellFounded DEF OpToRel, NatLess
<1>2. PICK n \in T : \A m \in T : <<m, n>> \notin NatLess
  BY <1>1, WFMin
<1>3. \A m, k \in Nat : m < k => <<m, k>> \in NatLess
  BY DEF NatLess
<1>4. \A m \in T : ~(m < n)
  BY <1>2, <1>3
<1>. QED
  BY <1>4

\* (started_at, run_id) is a total order of the runs.
LEMMA BeforeIsOrder ==
    ASSUME NEW rows \in [Runs -> SyncRow], NEW r \in Runs, NEW q \in Runs, NEW t \in Runs
    PROVE  /\ r = q \/ Before(rows, r, q) \/ Before(rows, q, r)
           /\ ~(Before(rows, r, q) /\ Before(rows, q, r))
           /\ ~Before(rows, r, r)
           /\ Before(rows, r, q) /\ Before(rows, q, t) => Before(rows, r, t)
<1>1. \A x \in {r, q, t} : rows[x].started \in Nat /\ Rank[x] \in Nat
  BY LeaseAssumption DEF SyncRow
<1>2. Rank[r] = Rank[q] => r = q
  BY LeaseAssumption
<1>. QED
  BY <1>1, <1>2 DEF Before

\* Every nonempty set of runs has a newest one: the table is finite.
LEMMA NewestExists ==
    ASSUME NEW rows \in [Runs -> SyncRow], NEW R \in SUBSET Runs, R # {}
    PROVE  \E r \in R : Newer(rows, R, r)
<1>1. IsFiniteSet(R)
  BY FS_Subset, LeaseAssumption
<1>2. PICK n \in Nat : ExistsBijection(1 .. n, R)
  BY <1>1, FS_CardinalityType
<1>6. PICK f \in [1 .. n -> R] : \A r \in R : \E i \in 1 .. n : f[i] = r
  BY <1>2 DEF ExistsBijection, Bijection, Surjection
<1>. DEFINE Upto(m) == {f[i] : i \in 1 .. m}
            Good(m) == \E r \in Upto(m) : Newer(rows, Upto(m), r)
            Bad == {m \in 1 .. n : ~Good(m)}
<1>3. Bad = {}
  <2>. SUFFICES ASSUME Bad # {} PROVE FALSE
    OBVIOUS
  <2>1. PICK m \in Bad : \A k \in Bad : m <= k
    BY LeastNat, Bad \in SUBSET Nat
  <2>. m \in 1 .. n /\ ~Good(m)
    BY <2>1
  <2>2. CASE m = 1
    BY <2>2 DEF Newer
  <2>3. CASE m > 1
    <3>1. m - 1 \in 1 .. n /\ m - 1 \notin Bad
      <4>. HIDE DEF Bad
      <4>. QED
        BY <2>1, <2>3
    <3>2. PICK r \in Upto(m - 1) : Newer(rows, Upto(m - 1), r)
      BY <3>1 DEF Newer
    <3>3. Upto(m) = Upto(m - 1) \cup {f[m]}
      BY <2>3
    <3>4. r \in Runs /\ f[m] \in Runs /\ Upto(m - 1) \subseteq Runs
      BY <2>3
    <3>5. \A q \in Upto(m - 1) : q \in Runs /\ (q = r \/ Before(rows, q, r))
      BY <3>2, <3>4 DEF Newer
    <3>6. r \in Upto(m) /\ f[m] \in Upto(m) /\ \A q \in Upto(m) : q \in Upto(m - 1) \/ q = f[m]
      BY <3>2, <3>3
    <3>g. ~\E x \in Upto(m) : \A q \in Upto(m) : q = x \/ Before(rows, q, x)
      BY DEF Newer
    <3>. HIDE DEF Upto, Good, Bad
    <3>7. CASE Before(rows, r, f[m])
      <4>1. \A q \in Upto(m - 1) : Before(rows, q, f[m])
        BY <3>4, <3>5, <3>7, BeforeIsOrder
      <4>. QED
        BY <3>6, <3>g, <4>1
    <3>8. CASE ~Before(rows, r, f[m])
      <4>1. f[m] = r \/ Before(rows, f[m], r)
        BY <3>4, <3>8, BeforeIsOrder
      <4>. QED
        BY <3>5, <3>6, <3>g, <4>1
    <3>. QED
      BY <3>7, <3>8
  <2>. QED
    BY <2>2, <2>3
<1>4. n \in 1 .. n /\ Upto(n) = R
  BY <1>6
<1>. QED
  BY <1>3, <1>4

\* Newest picks it, and there is only one.
LEMMA NewestIsNewer ==
    ASSUME NEW rows \in [Runs -> SyncRow], NEW R \in SUBSET Runs, R # {}
    PROVE  /\ Newest(rows, R) \in R /\ Newer(rows, R, Newest(rows, R))
           /\ \A r \in R : Newer(rows, R, r) => r = Newest(rows, R)
<1>1. Newest(rows, R) \in R /\ Newer(rows, R, Newest(rows, R))
  BY NewestExists DEF Newest, Newer
<1>2. ASSUME NEW r \in R, Newer(rows, R, r), r # Newest(rows, R)
      PROVE  FALSE
  BY <1>1, <1>2, BeforeIsOrder DEF Newer
<1>. QED
  BY <1>1, <1>2

-----------------------------------------------------------------------------
(***************************************************************************)
(* The inductive invariant.                                                *)
(***************************************************************************)

\* What the process of a run tells of its row: it has none before its start, and
\* while it works it has counted all that was committed for it.
WorkersKnow ==
    \A r \in Runs :
        /\ worker[r].pc \in {"new", "starting", "inserting"} =>
              sync[r].status = "none" /\ facts[r] = 0 /\ worker[r].sent = 0
        /\ worker[r].pc = "new" => orch[r] = "none"
        /\ worker[r].pc = "working" => worker[r].sent = facts[r]

\* What holds of a start between its check and its insert: the rows it reaped stay as
\* they were, no other start has one of them, and no run of its dataset has come.
StartsHold ==
    \A r \in Runs :
        /\ worker[r].pc # "inserting" => worker[r].reaped = {}
        /\ \A q \in worker[r].reaped : Running(q) /\ q \notin DagsterRuns /\ Expired(q, now)
        /\ worker[r].pc = "inserting" =>
              \A q \in Runs \ worker[r].reaped : DatasetOf[q] = DatasetOf[r] => ~Running(q)
        /\ \A q \in Runs \ {r} :
              /\ worker[q].reaped \cap worker[r].reaped = {}
              /\ worker[q].pc = "inserting" /\ worker[r].pc = "inserting" =>
                     DatasetOf[q] # DatasetOf[r]

\* What the sweep remembers of its page is still so when it writes: a run that was
\* not live does not come to life again, and lost metadata is not found again.
SweepKnows ==
    /\ sweep.at <= now
    /\ \A r \in sweep.page \cup sweep.terminal \cup sweep.missing :
          r \in DagsterRuns /\ worker[r].pc # "new"
    /\ \A r \in sweep.terminal : orch[r] # "live"
    /\ \A r \in sweep.missing : orch[r] = "missing"

\* The status row of a key is the outcome of a terminal run of the key, and no
\* terminal that was projected is of a newer run.
Projected(rows, st) ==
    \A k \in Keys :
        /\ st[k].run # None =>
              /\ rows[st[k].run].status \in Terminal
              /\ k \in KeysOf[st[k].run]
              /\ st[k].status = rows[st[k].run].status
        /\ \A r \in Runs :
              rows[r].status \in Terminal /\ k \in KeysOf[r] /\ ~rows[r].pending =>
                  st[k].run # None /\ (r = st[k].run \/ Before(rows, r, st[k].run))

PendingIsDone == \A r \in Runs : sync[r].pending => Done(r)

LeaseInv ==
    /\ TypeOK
    /\ WorkersKnow
    /\ StartsHold
    /\ SweepKnows
    /\ OneRunningPerDataset
    /\ LoadedIsExact
    /\ PendingIsDone
    /\ Projected(sync, status)

-----------------------------------------------------------------------------
(***************************************************************************)
(* The projection of terminals.                                            *)
(***************************************************************************)

\* Recording the terminals of P leaves the status table projected, whichever other
\* runs became terminal with them and whichever of them are older than its rows.
LEMMA RecordProjects ==
    ASSUME TypeOK, Projected(sync, status),
           NEW rows \in [Runs -> SyncRow], NEW P \in SUBSET Runs,
           \A r \in Runs : rows[r].started = sync[r].started,
           \A r \in Runs : Done(r) => rows[r].status = sync[r].status,
           \A r \in P : rows[r].status \in Terminal,
           \A r \in Runs \ P :
              rows[r].status \in Terminal /\ KeysOf[r] # {} /\ ~rows[r].pending =>
                  Done(r) /\ ~sync[r].pending,
           RecordTerminals(rows, P)
    PROVE  /\ status' \in [Keys -> StatusRow] /\ Projected(rows, status')
           /\ \A k \in Keys, r \in P : k \in KeysOf[r] =>
                  status'[k].run # None /\ (r = status'[k].run \/ Before(rows, r, status'[k].run))
<1>. DEFINE newer(k) == NewerTerminals(rows, P, k)
            new(k) == Newest(rows, newer(k))
<1>1. \A x, y \in Runs : Before(rows, x, y) <=> Before(sync, x, y)
  BY DEF Before
<1>2. \A k \in Keys :
          /\ newer(k) = {} => status'[k] = status[k]
          /\ newer(k) # {} => /\ status'[k].run = new(k)
                              /\ status'[k].status = rows[new(k)].status
                              /\ status'[k] \in StatusRow
                              /\ new(k) \in newer(k) /\ Newer(rows, newer(k), new(k))
  <2>. SUFFICES ASSUME NEW k \in Keys
                PROVE  /\ newer(k) = {} => status'[k] = status[k]
                       /\ newer(k) # {} => /\ status'[k].run = new(k)
                                           /\ status'[k].status = rows[new(k)].status
                                           /\ status'[k] \in StatusRow
                                           /\ new(k) \in newer(k) /\ Newer(rows, newer(k), new(k))
    OBVIOUS
  <2>1. newer(k) \in SUBSET P /\ newer(k) \in SUBSET Runs
    BY DEF NewerTerminals
  <2>2. status'[k] = IF newer(k) = {} THEN status[k]
                     ELSE [run |-> new(k), status |-> rows[new(k)].status]
    BY DEF RecordTerminals
  <2>3. status[k] \in StatusRow
    BY DEF TypeOK
  <2>. HIDE DEF newer
  <2>4. newer(k) # {} => new(k) \in newer(k) /\ Newer(rows, newer(k), new(k))
    BY <2>1, NewestIsNewer
  <2>. HIDE DEF new
  <2>5. newer(k) # {} => rows[new(k)] \in SyncRow /\ rows[new(k)].status \in Terminal
                          /\ new(k) \in Runs
    BY <2>1, <2>4
  <2>. QED
    BY <2>2, <2>3, <2>4, <2>5 DEF StatusRow, SyncRow, Terminal
<1>3. status' \in [Keys -> StatusRow]
  <2>1. \A k \in Keys : status'[k] \in StatusRow
    BY <1>2 DEF TypeOK
  <2>2. status' = [k \in Keys |-> status'[k]]
    BY DEF RecordTerminals
  <2>. QED
    BY <2>1, <2>2
<1>4. ASSUME NEW k \in Keys, status'[k].run # None
      PROVE  /\ rows[status'[k].run].status \in Terminal
             /\ k \in KeysOf[status'[k].run]
             /\ status'[k].status = rows[status'[k].run].status
  <2>1. CASE newer(k) = {}
    <3>1. status[k].run \in Runs /\ status'[k] = status[k]
      BY <1>2, <1>4, <2>1 DEF TypeOK, StatusRow
    <3>. QED
      BY <1>4, <3>1 DEF Projected, Done
  <2>2. CASE newer(k) # {}
    <3>1. new(k) \in newer(k) /\ status'[k].run = new(k) /\ status'[k].status = rows[new(k)].status
      BY <1>2, <2>2
    <3>2. \A r \in newer(k) : r \in P /\ k \in KeysOf[r]
      BY DEF NewerTerminals
    <3>. HIDE DEF newer, new
    <3>. QED
      BY <3>1, <3>2
  <2>. QED
    BY <2>1, <2>2
<1>5. ASSUME NEW k \in Keys, NEW r \in Runs,
             rows[r].status \in Terminal, k \in KeysOf[r], ~rows[r].pending \/ r \in P
      PROVE  status'[k].run # None /\ (r = status'[k].run \/ Before(rows, r, status'[k].run))
  <2>. DEFINE old == status[k].run
  <2>1. old \in Runs \cup {None} /\ None \notin Runs
    BY LeaseAssumption DEF TypeOK, StatusRow
  <2>2. r \notin newer(k) => old # None /\ (r = old \/ Before(rows, r, old))
    <3>1. CASE r \in P
      BY <1>5, <2>1, <3>1, BeforeIsOrder DEF NewerTerminals
    <3>2. CASE r \notin P
      <4>1. Done(r) /\ ~sync[r].pending
        BY <1>5, <3>2
      <4>2. old # None /\ (r = old \/ Before(sync, r, old))
        BY <1>5, <4>1 DEF Projected, Done
      <4>. QED
        BY <1>1, <2>1, <4>2
    <3>. QED
      BY <3>1, <3>2
  <2>3. CASE newer(k) = {}
    BY <1>2, <2>2, <2>3
  <2>4. CASE newer(k) # {}
    <3>1. /\ status'[k].run = new(k) /\ new(k) \in newer(k)
          /\ Newer(rows, newer(k), new(k))
      BY <1>2, <2>4
    <3>2. \A q \in newer(k) : q \in Runs /\ (old # None => Before(rows, old, q))
      BY DEF NewerTerminals
    <3>. HIDE DEF newer, new
    <3>3. new(k) \in Runs /\ new(k) # None /\ (old # None => Before(rows, old, new(k)))
      BY <2>1, <3>1, <3>2
    <3>4. CASE r \in newer(k)
      BY <3>1, <3>3, <3>4 DEF Newer
    <3>5. CASE r \notin newer(k)
      <4>1. old \in Runs /\ Before(rows, old, new(k)) /\ (r = old \/ Before(rows, r, old))
        BY <2>1, <2>2, <3>3, <3>5
      <4>. QED
        BY <3>1, <3>3, <4>1, BeforeIsOrder
    <3>. QED
      BY <3>4, <3>5
  <2>. QED
    BY <2>3, <2>4
<1>. QED
  BY <1>3, <1>4, <1>5 DEF Projected

\* The columns of two versions of the table that the projection looks at are equal.
SameTerminals(rows, base) ==
    \A r \in Runs : /\ rows[r].started = base[r].started
                    /\ rows[r].status = base[r].status
                    /\ rows[r].pending = base[r].pending

\* The same for runs that become terminal with TerminalRows, all of them running.
LEMMA TerminalsProject ==
    ASSUME LeaseInv, NEW R \in SUBSET Runs, NEW P \in SUBSET R, \A r \in R : Running(r),
           NEW outcome \in Terminal, NEW by,
           NEW rows \in [Runs -> SyncRow], SameTerminals(rows, TerminalRows(R, P, outcome, by)),
           RecordTerminals(rows, P)
    PROVE  status' \in [Keys -> StatusRow] /\ Projected(rows, status')
<1>1. \A r \in R : /\ rows[r].started = sync[r].started /\ rows[r].status = outcome
                   /\ rows[r].pending = (KeysOf[r] # {} /\ r \notin P)
  BY DEF TerminalRows, SameTerminals, LeaseInv, TypeOK, SyncRow
<1>2. \A r \in Runs \ R : /\ rows[r].started = sync[r].started /\ rows[r].status = sync[r].status
                          /\ rows[r].pending = sync[r].pending
  BY DEF TerminalRows, SameTerminals
<1>3. \A r \in R : ~Done(r)
  BY DEF Running, Done, Terminal
<1>4. \A r \in Runs \ P :
          rows[r].status \in Terminal /\ KeysOf[r] # {} /\ ~rows[r].pending =>
              Done(r) /\ ~sync[r].pending
  BY <1>1, <1>2 DEF Done
<1>5. /\ \A r \in Runs : rows[r].started = sync[r].started
      /\ \A r \in Runs : Done(r) => rows[r].status = sync[r].status
      /\ \A r \in P : rows[r].status \in Terminal
      /\ P \in SUBSET Runs
  BY <1>1, <1>2, <1>3
<1>. QED
  BY <1>4, <1>5, RecordProjects DEF LeaseInv

LEMMA TerminalRowsType ==
    ASSUME TypeOK, NEW R \in SUBSET Runs, NEW P \in SUBSET R,
           NEW outcome \in Terminal, NEW by \in {"worker", "lease", "sweep"}
    PROVE  TerminalRows(R, P, outcome, by) \in [Runs -> SyncRow]
  BY DEF TerminalRows, TypeOK, SyncRow, RunStatus

-----------------------------------------------------------------------------
(***************************************************************************)
(* Starts between their check and their insert.                            *)
(***************************************************************************)

\* No worker begins its insert, and those that end give up what they hold.
StartsEnd ==
    \A r \in Runs :
        /\ worker'[r].pc = "inserting" => worker[r].pc = "inserting"
        /\ worker'[r].reaped = IF worker'[r].pc = "inserting" THEN worker[r].reaped ELSE {}

\* A step of someone else that leaves the held rows alone and starts no run.
LEMMA HoldsOn ==
    ASSUME LeaseInv, now' \in Nat, now' >= now, StartsEnd,
           \A r \in Runs : Running(r)' => Running(r),
           \A r \in Locked \cap Runs : Running(r)' /\ sync'[r].beat = sync[r].beat
    PROVE  StartsHold'
<1>1. \A r \in Runs : /\ worker'[r].reaped \subseteq worker[r].reaped
                      /\ worker[r].reaped \subseteq Locked \cap Runs
  BY DEF StartsEnd, Locked, LeaseInv, TypeOK, Worker
<1>2. ASSUME NEW r \in Runs, NEW q \in worker'[r].reaped
      PROVE  Running(q)' /\ q \notin DagsterRuns /\ Expired(q, now)'
  <2>1. q \in worker[r].reaped /\ q \in Locked \cap Runs
    BY <1>1, <1>2
  <2>2. Running(q)' /\ sync'[q].beat = sync[q].beat /\ q \notin DagsterRuns /\ Expired(q, now)
    BY <2>1 DEF LeaseInv, StartsHold
  <2>3. sync[q].beat \in Nat /\ Lease \in Nat /\ now \in Nat
    BY <2>1, LeaseAssumption DEF LeaseInv, TypeOK, SyncRow
  <2>. QED
    BY <2>2, <2>3 DEF Expired
<1>3. ASSUME NEW r \in Runs, worker'[r].pc = "inserting",
             NEW q \in Runs \ worker'[r].reaped, DatasetOf[q] = DatasetOf[r]
      PROVE  ~Running(q)'
  <2>1. worker[r].pc = "inserting" /\ q \notin worker[r].reaped
    BY <1>3 DEF StartsEnd
  <2>. QED
    BY <1>3, <2>1 DEF LeaseInv, StartsHold
<1>4. ASSUME NEW r \in Runs, NEW q \in Runs \ {r}
      PROVE  /\ worker'[q].reaped \cap worker'[r].reaped = {}
             /\ worker'[q].pc = "inserting" /\ worker'[r].pc = "inserting" =>
                    DatasetOf[q] # DatasetOf[r]
  BY <1>1 DEF LeaseInv, StartsHold, StartsEnd
<1>. QED
  BY <1>2, <1>3, <1>4 DEF StartsHold, StartsEnd

\* A step that moves no worker and leaves status and heartbeat of the rows alone.
LEMMA SameHolds ==
    ASSUME LeaseInv, UNCHANGED worker, now' \in Nat, now' >= now,
           \A r \in Runs : sync'[r].status = sync[r].status /\ sync'[r].beat = sync[r].beat
    PROVE  StartsHold'
<1>1. StartsEnd
  BY DEF StartsEnd, LeaseInv, StartsHold
<1>2. \A r \in Locked \cap Runs : Running(r)
  BY DEF Locked, LeaseInv, StartsHold
<1>. QED
  BY <1>1, <1>2, HoldsOn DEF Running

\* A worker that leaves its present step.
LEMMA GoesOn ==
    ASSUME LeaseInv, NEW r \in Runs, NEW pc \in {"failing", "gone"}, WorkerGoes(r, pc)
    PROVE  /\ worker' \in [Runs -> Worker] /\ worker'[r].pc = pc /\ StartsEnd
           /\ worker'[r].sent = worker[r].sent
           /\ \A q \in Runs \ {r} : worker'[q] = worker[q]
<1>1. /\ worker \in [Runs -> Worker] /\ worker[r] \in Worker
      /\ worker' = [worker EXCEPT ![r] = [worker[r] EXCEPT !.pc = pc, !.reaped = {}]]
  BY DEF WorkerGoes, LeaseInv, TypeOK
<1>2. /\ [worker[r] EXCEPT !.pc = pc, !.reaped = {}] \in Worker
      /\ [worker[r] EXCEPT !.pc = pc, !.reaped = {}].pc = pc
      /\ [worker[r] EXCEPT !.pc = pc, !.reaped = {}].reaped = {}
      /\ [worker[r] EXCEPT !.pc = pc, !.reaped = {}].sent = worker[r].sent
  BY <1>1 DEF Worker
<1>3. /\ worker' \in [Runs -> Worker] /\ worker'[r].pc = pc /\ worker'[r].reaped = {}
      /\ worker'[r].sent = worker[r].sent
      /\ \A q \in Runs \ {r} : worker'[q] = worker[q]
  BY <1>1, <1>2
<1>. QED
  BY <1>3 DEF StartsEnd, LeaseInv, StartsHold

-----------------------------------------------------------------------------
(***************************************************************************)
(* Steps that terminalise runs.                                            *)
(***************************************************************************)

\* What terminalising running runs leaves of the invariant, whoever does it.
LEMMA TerminaliseSafe ==
    ASSUME LeaseInv, NEW R \in SUBSET Runs, NEW P \in SUBSET R, \A r \in R : Running(r),
           NEW outcome \in Terminal, NEW by \in {"worker", "lease", "sweep"},
           Terminalise(R, P, outcome, by)
    PROVE  /\ sync' \in [Runs -> SyncRow] /\ status' \in [Keys -> StatusRow]
           /\ Projected(sync', status')
           /\ OneRunningPerDataset' /\ PendingIsDone'
           /\ \A r \in Runs : /\ sync'[r].loaded = sync[r].loaded
                              /\ sync[r].status = "none" => sync'[r].status = "none"
                              /\ Running(r)' => Running(r)
                              /\ r \notin R => sync'[r] = sync[r]
<1>. DEFINE rows == TerminalRows(R, P, outcome, by)
<1>1. sync' = rows /\ RecordTerminals(rows, P)
  BY DEF Terminalise
<1>2. rows \in [Runs -> SyncRow]
  BY TerminalRowsType DEF LeaseInv
<1>3. status' \in [Keys -> StatusRow] /\ Projected(rows, status')
  BY <1>1, <1>2, TerminalsProject DEF SameTerminals
<1>4. \A r \in R : /\ rows[r].status = outcome /\ rows[r].loaded = sync[r].loaded
                   /\ sync[r].status = "running"
  BY DEF TerminalRows, LeaseInv, TypeOK, SyncRow, Running
<1>5. \A r \in Runs \ R : rows[r] = sync[r]
  BY DEF TerminalRows
<1>. HIDE DEF rows
<1>6. \A r \in Runs : Running(r)' => Running(r)
  BY <1>1, <1>4, <1>5 DEF Running, Terminal
<1>7. OneRunningPerDataset'
  BY <1>6 DEF LeaseInv, OneRunningPerDataset
<1>8. PendingIsDone'
  BY <1>1, <1>4, <1>5 DEF LeaseInv, PendingIsDone, Done
<1>. QED
  BY <1>1, <1>2, <1>3, <1>4, <1>5, <1>6, <1>7, <1>8

\* A tick that begins, and one that ended, remembers nothing but its position.
LEMMA FreshSweep ==
    ASSUME LeaseInv, NEW resume \in Runs \cup {None}, NEW after \in Runs \cup {None},
           now' \in Nat,
           \/ sweep' = Asleep(resume)
           \/ sweep' = [Asleep(resume) EXCEPT !.pc = "page", !.after = after]
    PROVE  sweep' \in Sweep /\ SweepKnows'
<1>1. PICK pc \in {"idle", "page"}, x \in Runs \cup {None} :
          sweep' = [pc |-> pc, resume |-> resume, after |-> x, page |-> {}, stale |-> {},
                    at |-> 0, last |-> None, terminal |-> {}, missing |-> {}, more |-> FALSE,
                    stopped |-> FALSE]
  BY DEF Asleep
<1>2. sweep' \in Sweep
  BY <1>1 DEF Sweep
<1>3. /\ sweep'.at = 0 /\ sweep'.page = {} /\ sweep'.terminal = {} /\ sweep'.missing = {}
  BY <1>1
<1>. QED
  BY <1>2, <1>3 DEF SweepKnows

LEMMA SensorTickSafe == LeaseInv /\ SensorTick => LeaseInv'
<1>. SUFFICES ASSUME LeaseInv, SensorTick PROVE LeaseInv'
  OBVIOUS
<1>1. PICK P \in SUBSET StaleRuns : Terminalise(StaleRuns, P, "failed", "lease")
  BY DEF SensorTick, Projections
<1>2. StaleRuns \in SUBSET Runs /\ \A r \in StaleRuns : Running(r)
  BY DEF StaleRuns
<1>3. /\ sync' \in [Runs -> SyncRow] /\ status' \in [Keys -> StatusRow]
      /\ Projected(sync', status')
      /\ OneRunningPerDataset' /\ PendingIsDone'
      /\ \A r \in Runs : /\ sync'[r].loaded = sync[r].loaded
                         /\ sync[r].status = "none" => sync'[r].status = "none"
                         /\ Running(r)' => Running(r)
                         /\ r \notin StaleRuns => sync'[r] = sync[r]
  BY <1>1, <1>2, TerminaliseSafe, "failed" \in Terminal, "lease" \in {"worker", "lease", "sweep"}
     DEF Terminal
<1>4. UNCHANGED <<now, worker, facts, orch, faults>>
  BY DEF SensorTick
<1>5. sweep' \in Sweep /\ SweepKnows'
  <2>1. CASE UNCHANGED sweep
    BY <1>4, <2>1 DEF LeaseInv, TypeOK, SweepKnows
  <2>2. CASE sweep' = [Asleep(sweep.resume) EXCEPT !.pc = "page", !.after = sweep.resume]
    BY <1>4, <2>2, FreshSweep DEF LeaseInv, TypeOK, Sweep
  <2>. QED
    BY <2>1, <2>2 DEF SensorTick
<1>6. StartsHold'
  <2>1. \A r \in Locked \cap Runs : sync'[r] = sync[r] /\ Running(r)
    BY <1>3 DEF SensorTick, Locked, LeaseInv, StartsHold
  <2>2. StartsEnd
    BY <1>4 DEF StartsEnd, LeaseInv, StartsHold
  <2>. QED
    BY <1>3, <1>4, <2>1, <2>2, HoldsOn DEF Running, LeaseInv, TypeOK
<1>. QED
  BY <1>3, <1>4, <1>5, <1>6 DEF LeaseInv, TypeOK, WorkersKnow, LoadedIsExact

LEMMA ReapSafe == LeaseInv /\ Reap => LeaseInv'
<1>. SUFFICES ASSUME LeaseInv, Reap PROVE LeaseInv'
  OBVIOUS
<1>1. PICK P \in SUBSET Reaped : Terminalise(Reaped, P, "failed", "sweep")
  BY DEF Reap, Projections
<1>2. Reaped \in SUBSET Runs /\ \A r \in Reaped : Running(r)
  BY LeaseAssumption DEF Reaped, LeaseInv, SweepKnows
<1>3. /\ sync' \in [Runs -> SyncRow] /\ status' \in [Keys -> StatusRow]
      /\ Projected(sync', status')
      /\ OneRunningPerDataset' /\ PendingIsDone'
      /\ \A r \in Runs : /\ sync'[r].loaded = sync[r].loaded
                         /\ sync[r].status = "none" => sync'[r].status = "none"
                         /\ Running(r)' => Running(r)
                         /\ r \notin Reaped => sync'[r] = sync[r]
  BY <1>1, <1>2, TerminaliseSafe, "failed" \in Terminal, "sweep" \in {"worker", "lease", "sweep"}
     DEF Terminal
<1>4. UNCHANGED <<now, worker, facts, orch, faults>>
  BY DEF Reap
<1>5. sweep' \in Sweep /\ SweepKnows'
  <2>1. Resume \in Runs \cup {None} /\ sweep.resume \in Runs \cup {None}
    BY DEF Resume, LeaseInv, TypeOK, Sweep
  <2>2. CASE sweep' = Asleep(Resume)
    BY <1>4, <2>1, <2>2, FreshSweep DEF LeaseInv, TypeOK
  <2>3. CASE sweep' = [Asleep(sweep.resume) EXCEPT !.pc = "page", !.after = Resume]
    BY <1>4, <2>1, <2>3, FreshSweep DEF LeaseInv, TypeOK
  <2>. QED
    BY <2>2, <2>3 DEF Reap
<1>6. StartsHold'
  <2>1. \A r \in Locked \cap Runs : r \notin DagsterRuns /\ Running(r)
    BY DEF Locked, LeaseInv, StartsHold
  <2>2. \A r \in Reaped : r \in DagsterRuns
    BY DEF Reaped, LeaseInv, SweepKnows
  <2>3. \A r \in Locked \cap Runs : sync'[r] = sync[r] /\ Running(r)
    BY <1>3, <2>1, <2>2
  <2>4. StartsEnd
    BY <1>4 DEF StartsEnd, LeaseInv, StartsHold
  <2>. QED
    BY <1>3, <1>4, <2>3, <2>4, HoldsOn DEF Running, LeaseInv, TypeOK
<1>. QED
  BY <1>3, <1>4, <1>5, <1>6 DEF LeaseInv, TypeOK, WorkersKnow, LoadedIsExact

LEMMA FinishSafe ==
    ASSUME LeaseInv, NEW r \in Runs, FinishSyncRun(r)
    PROVE  LeaseInv'
<1>1. /\ worker[r].pc = "failing" /\ r \notin Locked /\ WorkerGoes(r, "gone")
      /\ UNCHANGED <<now, facts, orch, sweep, faults>>
  BY DEF FinishSyncRun
<1>g. /\ worker' \in [Runs -> Worker] /\ worker'[r].pc = "gone" /\ StartsEnd
      /\ \A q \in Runs \ {r} : worker'[q] = worker[q]
  BY <1>1, GoesOn
<1>2. SweepKnows'
  BY <1>1, <1>g DEF LeaseInv, TypeOK, SweepKnows, Sweep
<1>l. \A q \in Locked \cap Runs : q # r /\ Running(q)
  BY <1>1 DEF Locked, LeaseInv, StartsHold
<1>3. CASE Running(r)
  <2>1. PICK P \in SUBSET {r} : Terminalise({r}, P, "failed", "worker")
    BY <1>3 DEF FinishSyncRun, Projections
  <2>2. /\ sync' \in [Runs -> SyncRow] /\ status' \in [Keys -> StatusRow]
        /\ Projected(sync', status')
        /\ OneRunningPerDataset' /\ PendingIsDone'
        /\ \A q \in Runs : /\ sync'[q].loaded = sync[q].loaded
                           /\ sync[q].status = "none" => sync'[q].status = "none"
                           /\ Running(q)' => Running(q)
                           /\ q \notin {r} => sync'[q] = sync[q]
    BY <1>3, <2>1, TerminaliseSafe, {r} \in SUBSET Runs, "failed" \in Terminal,
       "worker" \in {"worker", "lease", "sweep"}
       DEF Terminal
  <2>3. WorkersKnow'
    BY <1>1, <1>g, <2>2 DEF LeaseInv, WorkersKnow
  <2>4. StartsHold'
    BY <1>1, <1>g, <1>l, <2>2, HoldsOn DEF Running, LeaseInv, TypeOK
  <2>. QED
    BY <1>1, <1>g, <1>2, <2>2, <2>3, <2>4 DEF LeaseInv, TypeOK, LoadedIsExact
<1>4. CASE ~Running(r)
  <2>1. UNCHANGED <<sync, status>>
    BY <1>4 DEF FinishSyncRun
  <2>2. WorkersKnow'
    BY <1>1, <1>g, <2>1 DEF LeaseInv, WorkersKnow
  <2>3. StartsHold'
    BY <1>1, <1>g, <1>l, <2>1, HoldsOn DEF Running, LeaseInv, TypeOK
  <2>. QED
    BY <1>1, <1>g, <1>2, <2>1, <2>2, <2>3 DEF LeaseInv, TypeOK, LoadedIsExact,
       OneRunningPerDataset, PendingIsDone, Running, Done
<1>. QED
  BY <1>3, <1>4

LEMMA PublishAndFinishSafe ==
    ASSUME LeaseInv, NEW r \in Runs, NEW outcome \in {"success", "partial"},
           NEW last \in {0, 1}, NEW lost \in BOOLEAN, PublishAndFinish(r, outcome, last, lost)
    PROVE  LeaseInv'
<1>. DEFINE base(P) == TerminalRows({r}, P, outcome, "worker")
            rows(P) == [base(P) EXCEPT ![r].loaded = LoadedAtFinish(r, last)]
            next == IF lost THEN "failing" ELSE "gone"
<1>1. /\ worker[r].pc = "working" /\ Running(r) /\ r \notin Locked
      /\ facts' = [facts EXCEPT ![r] = @ + last]
      /\ WorkerGoes(r, next)
      /\ UNCHANGED <<now, orch, sweep, faults>>
  BY DEF PublishAndFinish
<1>2. PICK P \in SUBSET {r} : sync' = rows(P) /\ RecordTerminals(rows(P), P)
  BY DEF PublishAndFinish, Projections
<1>3. outcome \in Terminal /\ P \in SUBSET Runs /\ {r} \in SUBSET Runs
  BY DEF Terminal
<1>4. base(P) \in [Runs -> SyncRow]
  BY <1>3, TerminalRowsType DEF LeaseInv
<1>5. worker[r].sent = facts[r] /\ facts[r] \in Nat /\ facts \in [Runs -> Nat]
  BY <1>1 DEF LeaseInv, WorkersKnow, TypeOK
<1>6. /\ base(P)[r].status = outcome /\ sync[r].status = "running"
      /\ \A q \in Runs \ {r} : base(P)[q] = sync[q]
  BY <1>1 DEF TerminalRows, LeaseInv, TypeOK, SyncRow, Running
<1>. HIDE DEF base
<1>7. /\ rows(P) \in [Runs -> SyncRow]
      /\ \A q \in Runs : /\ rows(P)[q].started = base(P)[q].started
                         /\ rows(P)[q].status = base(P)[q].status
                         /\ rows(P)[q].pending = base(P)[q].pending
      /\ \A q \in Runs \ {r} : rows(P)[q] = base(P)[q]
      /\ rows(P)[r].loaded = facts[r] + last
  BY <1>4, <1>5 DEF SyncRow, LoadedAtFinish
<1>. HIDE DEF rows
<1>8. status' \in [Keys -> StatusRow] /\ Projected(sync', status')
  <2>0. PICK R \in SUBSET Runs : R = {r}
    OBVIOUS
  <2>1. SameTerminals(rows(P), TerminalRows(R, P, outcome, "worker"))
    BY <1>7, <2>0 DEF base, SameTerminals
  <2>2. P \in SUBSET R /\ \A q \in R : Running(q)
    BY <1>1, <2>0
  <2>3. RecordTerminals(rows(P), P) /\ sync' = rows(P)
    BY <1>2
  <2>4. status' \in [Keys -> StatusRow] /\ Projected(rows(P), status')
    BY <1>3, <1>7, <2>1, <2>2, <2>3, TerminalsProject
  <2>. QED
    BY <2>3, <2>4
<1>9. OneRunningPerDataset' /\ PendingIsDone'
  <2>1. \A q \in Runs : Running(q)' => Running(q)
    BY <1>2, <1>6, <1>7 DEF Running, Terminal
  <2>2. PendingIsDone'
    BY <1>2, <1>3, <1>6, <1>7 DEF LeaseInv, PendingIsDone, Done
  <2>. QED
    BY <2>1, <2>2 DEF LeaseInv, OneRunningPerDataset
<1>10. LoadedIsExact' /\ facts' \in [Runs -> Nat]
  BY <1>1, <1>2, <1>5, <1>6, <1>7 DEF LeaseInv, LoadedIsExact
<1>11. /\ worker' \in [Runs -> Worker] /\ worker'[r].pc \in {"failing", "gone"}
       /\ \A q \in Runs \ {r} : worker'[q] = worker[q]
       /\ StartsEnd
  BY <1>1, GoesOn
<1>12. WorkersKnow'
  BY <1>1, <1>2, <1>5, <1>6, <1>7, <1>11 DEF LeaseInv, WorkersKnow
<1>13. SweepKnows'
  <2>1. \A q \in DagsterRuns : worker[q].pc # "new" => worker'[q].pc # "new"
    BY <1>11, LeaseAssumption
  <2>. QED
    BY <1>1, <2>1 DEF LeaseInv, SweepKnows
<1>14. StartsHold'
  <2>1. \A q \in Locked \cap Runs : q # r /\ Running(q)
    BY <1>1 DEF Locked, LeaseInv, StartsHold
  <2>2. \A q \in Runs : /\ Running(q)' => Running(q)
                        /\ q # r => sync'[q] = sync[q]
    BY <1>2, <1>6, <1>7 DEF Running, Terminal
  <2>. QED
    BY <1>1, <1>11, <2>1, <2>2, HoldsOn DEF Running, LeaseInv, TypeOK
<1>. QED
  BY <1>1, <1>2, <1>7, <1>8, <1>9, <1>10, <1>11, <1>12, <1>13, <1>14 DEF LeaseInv, TypeOK

LEMMA StartSafe ==
    ASSUME LeaseInv, NEW r \in Runs, StartSyncRun(r)
    PROVE  LeaseInv'
<1>. DEFINE mine == worker[r].reaped
            rows(P) == TerminalRows(mine, P, "failed", "lease")
            fresh == [status |-> "running", started |-> worker[r].at, beat |-> worker[r].at,
                      pending |-> FALSE, loaded |-> 0, by |-> "none"]
<1>1. /\ worker[r].pc = "inserting"
      /\ worker' = [worker EXCEPT ![r] = [@ EXCEPT !.pc = "working", !.at = 0, !.reaped = {}]]
      /\ UNCHANGED <<now, facts, orch, sweep, faults>>
  BY DEF StartSyncRun
<1>2. PICK P \in SUBSET mine :
          sync' = [rows(P) EXCEPT ![r] = fresh] /\ RecordTerminals(rows(P), P)
  BY DEF StartSyncRun, Projections
<1>3. mine \in SUBSET Runs /\ \A q \in mine : Running(q)
  BY DEF LeaseInv, TypeOK, Worker, StartsHold
<1>4. rows(P) \in [Runs -> SyncRow]
  BY <1>3, TerminalRowsType, "failed" \in Terminal, "lease" \in {"worker", "lease", "sweep"}
     DEF LeaseInv, Terminal
<1>5. status' \in [Keys -> StatusRow] /\ Projected(rows(P), status')
  <2>1. "failed" \in Terminal
    BY DEF Terminal
  <2>. QED
    BY <1>2, <1>3, <1>4, <2>1, TerminalsProject DEF SameTerminals
<1>6. /\ sync[r].status = "none" /\ facts[r] = 0 /\ worker[r].sent = 0
      /\ fresh \in SyncRow
  BY <1>1 DEF LeaseInv, WorkersKnow, TypeOK, Worker, SyncRow, RunStatus
<1>7. /\ \A q \in mine : /\ rows(P)[q].status = "failed" /\ sync[q].status = "running"
                              /\ rows(P)[q].loaded = sync[q].loaded
      /\ \A q \in Runs \ mine : rows(P)[q] = sync[q]
      /\ r \notin mine
  BY <1>3, <1>6 DEF TerminalRows, LeaseInv, TypeOK, SyncRow, Running
<1>h. /\ \A q \in Runs \ mine : DatasetOf[q] = DatasetOf[r] => ~Running(q)
      /\ \A q \in Runs \ {r} : worker[q].reaped \cap mine = {}
  BY <1>1 DEF LeaseInv, StartsHold
<1>. HIDE DEF rows, mine
<1>8. /\ sync' \in [Runs -> SyncRow] /\ sync'[r] = fresh
      /\ \A q \in Runs \ {r} : sync'[q] = rows(P)[q]
  BY <1>2, <1>4, <1>6
<1>9. Projected(sync', status')
  <2>1. \A k \in Keys : status'[k].run # None => status'[k].run \in Runs \ {r}
    <3>. SUFFICES ASSUME NEW k \in Keys, status'[k].run # None
                  PROVE  status'[k].run \in Runs /\ status'[k].run # r
      OBVIOUS
    <3>1. rows(P)[status'[k].run].status \in Terminal
      BY <1>5 DEF Projected
    <3>2. rows(P)[r].status = "none"
      BY <1>6, <1>7
    <3>. QED
      BY <1>5, <3>1, <3>2 DEF StatusRow, Terminal
  <2>2. \A q \in Runs : sync'[q].status \in Terminal => q # r
    BY <1>8 DEF Terminal
  <2>3. \A q, t \in Runs \ {r} : Before(sync', q, t) <=> Before(rows(P), q, t)
    BY <1>8 DEF Before
  <2>. QED
    BY <1>5, <1>8, <2>1, <2>2, <2>3 DEF Projected
<1>10. OneRunningPerDataset'
  <2>1. \A q \in Runs \ {r} : Running(q)' => Running(q) /\ q \notin mine
    BY <1>7, <1>8 DEF Running
  <2>2. \A q \in Runs \ {r} : Running(q)' => DatasetOf[q] # DatasetOf[r]
    BY <1>h, <2>1
  <2>. QED
    BY <2>1, <2>2 DEF LeaseInv, OneRunningPerDataset
<1>11. PendingIsDone'
  <2>1. "failed" \in Terminal
    BY DEF Terminal
  <2>. QED
    BY <1>7, <1>8, <2>1 DEF LeaseInv, PendingIsDone, Done
<1>12. LoadedIsExact'
  BY <1>1, <1>6, <1>7, <1>8 DEF LeaseInv, LoadedIsExact
<1>13. /\ worker' \in [Runs -> Worker] /\ worker'[r].pc = "working" /\ worker'[r].sent = 0
       /\ worker'[r].reaped = {}
       /\ \A q \in Runs \ {r} : worker'[q] = worker[q]
  BY <1>1, <1>6 DEF LeaseInv, TypeOK, Worker
<1>14. WorkersKnow'
  BY <1>1, <1>6, <1>7, <1>8, <1>13 DEF LeaseInv, WorkersKnow
<1>15. SweepKnows'
  BY <1>1, <1>13 DEF LeaseInv, SweepKnows
<1>16. StartsHold'
  <2>1. \A q \in Runs \ {r} : \A t \in worker[q].reaped :
            t # r /\ t \notin mine /\ sync'[t] = sync[t] /\ Running(t)'
    BY <1>3, <1>6, <1>7, <1>8, <1>h DEF LeaseInv, StartsHold, TypeOK, Worker, Running
  <2>2. \A q \in Runs \ {r} : worker[q].pc = "inserting" => DatasetOf[q] # DatasetOf[r]
    BY <1>1 DEF LeaseInv, StartsHold
  <2>3. \A q \in Runs \ {r} : Running(q)' => Running(q)
    BY <1>7, <1>8 DEF Running
  <2>4. \A q \in Runs \ {r} : worker[q].reaped \subseteq Runs
    BY DEF LeaseInv, TypeOK, Worker
  <2>5. \A q \in Runs \ {r} : \A t \in worker[q].reaped :
            t \notin DagsterRuns /\ Expired(t, now)'
    BY <1>1, <2>1 DEF LeaseInv, StartsHold, Expired
  <2>6. ASSUME NEW q \in Runs \ {r}, worker[q].pc = "inserting",
               NEW t \in Runs \ worker[q].reaped, DatasetOf[t] = DatasetOf[q]
        PROVE  ~Running(t)'
    <3>1. t # r /\ ~Running(t)
      BY <2>2, <2>6 DEF LeaseInv, StartsHold
    <3>. QED
      BY <2>3, <3>1
  <2>. QED
    BY <1>13, <2>1, <2>5, <2>6 DEF LeaseInv, StartsHold
<1>. QED
  BY <1>1, <1>5, <1>8, <1>9, <1>10, <1>11, <1>12, <1>13, <1>14, <1>15, <1>16 DEF LeaseInv, TypeOK

LEMMA CheckSafe ==
    ASSUME LeaseInv, NEW r \in Runs, CheckSyncRun(r)
    PROVE  LeaseInv'
<1>1. /\ worker[r].pc = "starting" /\ ~StartLocked(r) /\ StaleRuns \cap Locked = {} /\ ~Blocked(r)
      /\ worker' = [worker EXCEPT ![r] = [@ EXCEPT !.pc = "inserting", !.reaped = StaleRuns]]
      /\ UNCHANGED <<now, sync, facts, orch, status, sweep, faults>>
  BY DEF CheckSyncRun, Reaping
<1>2. StaleRuns \in SUBSET Runs
  BY DEF StaleRuns
<1>3. /\ worker' \in [Runs -> Worker] /\ worker'[r].pc = "inserting"
      /\ worker'[r].reaped = StaleRuns /\ worker'[r].sent = worker[r].sent
      /\ \A q \in Runs \ {r} : worker'[q] = worker[q]
  <2>. HIDE DEF StaleRuns
  <2>. QED
    BY <1>1, <1>2 DEF LeaseInv, TypeOK, Worker
<1>4. WorkersKnow'
  BY <1>1, <1>3 DEF LeaseInv, WorkersKnow
<1>5. SweepKnows'
  BY <1>1, <1>3, LeaseAssumption DEF LeaseInv, SweepKnows
<1>6. StartsHold'
  <2>1. \A q \in StaleRuns : Running(q) /\ q \notin DagsterRuns /\ Expired(q, now)
    BY DEF StaleRuns
  <2>2. \A q \in Runs \ StaleRuns : DatasetOf[q] = DatasetOf[r] => ~Running(q)
    BY <1>1 DEF Blocked
  <2>3. \A q \in Runs \ {r} : worker[q].reaped \cap StaleRuns = {}
    BY <1>1 DEF Locked
  <2>4. \A q \in Runs : worker[q].pc = "inserting" => DatasetOf[q] # DatasetOf[r]
    BY <1>1 DEF StartLocked
  <2>. HIDE DEF StaleRuns
  <2>5. \A q \in Runs : Running(q)' <=> Running(q)
    BY <1>1 DEF Running
  <2>6. \A q \in Runs : Expired(q, now)' <=> Expired(q, now)
    BY <1>1 DEF Expired
  <2>7. \A q \in Runs : worker'[q].reaped \subseteq Runs
    BY <1>3 DEF Worker
  <2>. QED
    BY <1>1, <1>2, <1>3, <2>1, <2>2, <2>3, <2>4, <2>5, <2>6, <2>7 DEF LeaseInv, StartsHold
<1>. QED
  BY <1>1, <1>3, <1>4, <1>5, <1>6 DEF LeaseInv, TypeOK, OneRunningPerDataset, PendingIsDone,
     LoadedIsExact, Running, Done

\* A retry that records the terminal of r.
LEMMA RecordedSafe ==
    ASSUME LeaseInv, NEW r \in Runs,
           sync[r].pending, sync' = [sync EXCEPT ![r].pending = FALSE],
           RecordTerminals(sync, {r}),
           UNCHANGED <<now, worker, facts, orch, sweep, faults>>
    PROVE  LeaseInv'
<1>1. /\ sync[r].pending /\ sync' = [sync EXCEPT ![r].pending = FALSE]
      /\ RecordTerminals(sync, {r})
      /\ UNCHANGED <<now, worker, facts, orch, sweep, faults>>
  OBVIOUS
<1>2. /\ sync \in [Runs -> SyncRow] /\ Done(r)
      /\ sync' \in [Runs -> SyncRow]
      /\ \A q \in Runs \ {r} : sync'[q] = sync[q]
      /\ \A q \in Runs : /\ sync'[q].status = sync[q].status /\ sync'[q].loaded = sync[q].loaded
                         /\ sync'[q].started = sync[q].started /\ sync'[q].beat = sync[q].beat
      /\ ~sync'[r].pending
  <2>1. sync \in [Runs -> SyncRow] /\ Done(r)
    BY <1>1 DEF LeaseInv, TypeOK, PendingIsDone
  <2>2. sync[r] \in SyncRow
    BY <2>1
  <2>3. sync' = [sync EXCEPT ![r] = [sync[r] EXCEPT !.pending = FALSE]]
    BY <1>1
  <2>4. /\ [sync[r] EXCEPT !.pending = FALSE] \in SyncRow
        /\ ~[sync[r] EXCEPT !.pending = FALSE].pending
        /\ [sync[r] EXCEPT !.pending = FALSE].status = sync[r].status
        /\ [sync[r] EXCEPT !.pending = FALSE].loaded = sync[r].loaded
        /\ [sync[r] EXCEPT !.pending = FALSE].started = sync[r].started
        /\ [sync[r] EXCEPT !.pending = FALSE].beat = sync[r].beat
    BY <2>2 DEF SyncRow
  <2>. QED
    BY <2>1, <2>3, <2>4
<1>3. /\ status' \in [Keys -> StatusRow] /\ Projected(sync, status')
      /\ \A k \in Keys : k \in KeysOf[r] =>
             status'[k].run # None /\ (r = status'[k].run \/ Before(sync, r, status'[k].run))
  <2>1. \A q \in Runs \ {r} : sync[q].status \in Terminal => Done(q)
    BY DEF Done
  <2>2. sync[r].status \in Terminal
    BY <1>2 DEF Done
  <2>. QED
    BY <1>1, <1>2, <2>1, <2>2, RecordProjects DEF LeaseInv
<1>4. Projected(sync', status')
  <2>1. \A q, t \in Runs : Before(sync', q, t) <=> Before(sync, q, t)
    BY <1>2 DEF Before
  <2>2. \A k \in Keys : status'[k].run # None => status'[k].run \in Runs
    BY <1>3 DEF StatusRow
  <2>. QED
    BY <1>2, <1>3, <2>1, <2>2 DEF Projected
<1>5. OneRunningPerDataset' /\ PendingIsDone' /\ LoadedIsExact'
  BY <1>1, <1>2 DEF LeaseInv, OneRunningPerDataset, PendingIsDone, LoadedIsExact, Running, Done
<1>6. WorkersKnow' /\ SweepKnows'
  BY <1>1, <1>2 DEF LeaseInv, WorkersKnow, SweepKnows
<1>7. StartsHold'
  BY <1>1, <1>2, SameHolds DEF LeaseInv, TypeOK
<1>. QED
  BY <1>1, <1>2, <1>3, <1>4, <1>5, <1>6, <1>7 DEF LeaseInv, TypeOK

LEMMA ReconcileSafe ==
    ASSUME LeaseInv, NEW locked \in SUBSET Runs, ReconcileExportStatus(locked)
    PROVE  LeaseInv'
<1>1. /\ UNCHANGED <<now, worker, facts, orch, sweep>>
      /\ \/ UNCHANGED <<sync, status>> /\ faults' = faults + 1
         \/ \E r \in Runs : /\ sync[r].pending /\ sync' = [sync EXCEPT ![r].pending = FALSE]
                            /\ RecordTerminals(sync, {r}) /\ UNCHANGED faults
  BY DEF ReconcileExportStatus, RetryNext
<1>2. CASE UNCHANGED <<sync, status>> /\ faults' = faults + 1
  <2>1. StartsHold' /\ WorkersKnow' /\ SweepKnows'
    BY <1>1, <1>2, SameHolds DEF LeaseInv, TypeOK, WorkersKnow, SweepKnows
  <2>. QED
    BY <1>1, <1>2, <2>1 DEF LeaseInv, TypeOK, OneRunningPerDataset, PendingIsDone,
       LoadedIsExact, Running, Done
<1>. QED
  BY <1>1, <1>2, RecordedSafe

-----------------------------------------------------------------------------
(***************************************************************************)
(* The other steps of a worker.                                            *)
(***************************************************************************)

\* A step that only moves a worker on, past its start.
LEMMA MoveSafe ==
    ASSUME LeaseInv, NEW r \in Runs, NEW pc \in {"failing", "gone"},
           worker[r].pc \in {"starting", "inserting", "working", "failing"}, WorkerGoes(r, pc),
           UNCHANGED <<now, sync, facts, orch, status, sweep, faults>>
    PROVE  LeaseInv'
<1>1. /\ worker' \in [Runs -> Worker] /\ worker'[r].pc = pc /\ StartsEnd
      /\ \A q \in Runs \ {r} : worker'[q] = worker[q]
  BY GoesOn
<1>2. WorkersKnow'
  BY <1>1 DEF LeaseInv, WorkersKnow
<1>3. SweepKnows'
  <2>1. \A q \in DagsterRuns : worker[q].pc # "new" => worker'[q].pc # "new"
    BY <1>1, LeaseAssumption
  <2>. QED
    BY <2>1 DEF LeaseInv, SweepKnows
<1>4. StartsHold'
  <2>1. \A q \in Locked \cap Runs : Running(q)
    BY DEF Locked, LeaseInv, StartsHold
  <2>. QED
    BY <1>1, <2>1, HoldsOn DEF Running, LeaseInv, TypeOK
<1>. QED
  BY <1>1, <1>2, <1>3, <1>4 DEF LeaseInv, TypeOK, OneRunningPerDataset, PendingIsDone, LoadedIsExact,
     Running, Done

LEMMA BeginSafe ==
    ASSUME LeaseInv, NEW r \in Runs, BeginStart(r)
    PROVE  LeaseInv'
<1>1. /\ worker[r].pc = "new"
      /\ worker' = [worker EXCEPT ![r] = [@ EXCEPT !.pc = "starting", !.at = now]]
      /\ orch' = [orch EXCEPT ![r] = IF r \in DagsterRuns THEN "live" ELSE "none"]
      /\ UNCHANGED <<now, sync, facts, status, sweep, faults>>
  BY DEF BeginStart
<1>2. /\ worker' \in [Runs -> Worker] /\ worker'[r].pc = "starting"
      /\ worker'[r].sent = worker[r].sent /\ worker'[r].reaped = worker[r].reaped
      /\ \A q \in Runs \ {r} : worker'[q] = worker[q] /\ orch'[q] = orch[q]
      /\ orch' \in [Runs -> {"none", "live", "finished", "missing"}]
  BY <1>1 DEF LeaseInv, TypeOK, Worker
<1>3. WorkersKnow'
  BY <1>1, <1>2 DEF LeaseInv, WorkersKnow
<1>4. SweepKnows'
  BY <1>1, <1>2, LeaseAssumption DEF LeaseInv, SweepKnows
<1>5. StartsHold'
  <2>1. StartsEnd
    BY <1>1, <1>2 DEF StartsEnd, LeaseInv, StartsHold
  <2>2. \A q \in Locked \cap Runs : Running(q)
    BY DEF Locked, LeaseInv, StartsHold
  <2>. QED
    BY <1>1, <2>1, <2>2, HoldsOn DEF Running, LeaseInv, TypeOK
<1>. QED
  BY <1>1, <1>2, <1>3, <1>4, <1>5 DEF LeaseInv, TypeOK, OneRunningPerDataset, PendingIsDone,
     LoadedIsExact, Running, Done

\* The projection looks at neither heartbeats nor counts.
LEMMA SameProjection ==
    ASSUME LeaseInv, UNCHANGED status, sync' \in [Runs -> SyncRow],
           \A r \in Runs : /\ sync'[r].status = sync[r].status
                           /\ sync'[r].started = sync[r].started
                           /\ sync'[r].pending = sync[r].pending
    PROVE  Projected(sync', status') /\ OneRunningPerDataset' /\ PendingIsDone'
<1>1. \A q, t \in Runs : Before(sync', q, t) <=> Before(sync, q, t)
  BY DEF Before
<1>2. \A k \in Keys : status[k].run # None => status[k].run \in Runs
  BY DEF LeaseInv, TypeOK, StatusRow
<1>3. Projected(sync', status')
  BY <1>1, <1>2 DEF LeaseInv, Projected
<1>. QED
  BY <1>3 DEF LeaseInv, OneRunningPerDataset, PendingIsDone, Running, Done

LEMMA HeartbeatSafe ==
    ASSUME LeaseInv, NEW r \in Runs, HeartbeatSyncRun(r)
    PROVE  LeaseInv'
<1>1. /\ sync' = [sync EXCEPT ![r].beat = now] /\ r \notin Locked
      /\ UNCHANGED <<now, worker, facts, orch, status, sweep, faults>>
  BY DEF HeartbeatSyncRun
<1>2. /\ sync' \in [Runs -> SyncRow]
      /\ \A q \in Runs : /\ sync'[q].status = sync[q].status /\ sync'[q].loaded = sync[q].loaded
                         /\ sync'[q].started = sync[q].started
                         /\ sync'[q].pending = sync[q].pending
      /\ \A q \in Runs \ {r} : sync'[q] = sync[q]
  BY <1>1 DEF LeaseInv, TypeOK, SyncRow
<1>3. Projected(sync', status') /\ OneRunningPerDataset' /\ PendingIsDone'
  BY <1>1, <1>2, SameProjection
<1>4. WorkersKnow' /\ SweepKnows' /\ LoadedIsExact'
  BY <1>1, <1>2 DEF LeaseInv, WorkersKnow, SweepKnows, LoadedIsExact
<1>5. StartsHold'
  <2>1. StartsEnd
    BY <1>1 DEF StartsEnd, LeaseInv, StartsHold
  <2>2. \A q \in Locked \cap Runs : q # r /\ Running(q)
    BY <1>1 DEF Locked, LeaseInv, StartsHold
  <2>. QED
    BY <1>1, <1>2, <2>1, <2>2, HoldsOn DEF Running, LeaseInv, TypeOK
<1>. QED
  BY <1>1, <1>2, <1>3, <1>4, <1>5 DEF LeaseInv, TypeOK

LEMMA IngestSafe ==
    ASSUME LeaseInv, NEW r \in Runs, NEW lost \in BOOLEAN, IngestBatch(r, lost)
    PROVE  LeaseInv'
<1>1. /\ worker[r].pc = "working"
      /\ facts' = [facts EXCEPT ![r] = @ + 1]
      /\ sync' = [sync EXCEPT ![r].loaded = @ + 1]
      /\ \/ WorkerGoes(r, "failing")
         \/ worker' = [worker EXCEPT ![r].sent = @ + 1]
      /\ UNCHANGED <<now, orch, status, sweep, faults>>
  BY DEF IngestBatch
<1>2. /\ sync' \in [Runs -> SyncRow] /\ sync'[r].loaded = sync[r].loaded + 1
      /\ \A q \in Runs : /\ sync'[q].status = sync[q].status
                         /\ sync'[q].started = sync[q].started
                         /\ sync'[q].pending = sync[q].pending
                         /\ sync'[q].beat = sync[q].beat
      /\ \A q \in Runs \ {r} : sync'[q].loaded = sync[q].loaded
  <2>1. sync \in [Runs -> SyncRow] /\ sync' = [sync EXCEPT ![r].loaded = @ + 1]
    BY <1>1 DEF LeaseInv, TypeOK
  <2>. QED
    BY <2>1 DEF SyncRow
<1>3. /\ facts' \in [Runs -> Nat] /\ facts'[r] = facts[r] + 1
      /\ \A q \in Runs \ {r} : facts'[q] = facts[q]
  BY <1>1 DEF LeaseInv, TypeOK
<1>4. /\ worker' \in [Runs -> Worker]
      /\ \/ worker'[r].pc = "failing"
         \/ worker'[r].pc = "working" /\ worker'[r].sent = worker[r].sent + 1
      /\ \A q \in Runs \ {r} : worker'[q] = worker[q]
      /\ StartsEnd
  <2>1. worker \in [Runs -> Worker] /\ worker[r] \in Worker /\ worker[r].pc = "working"
    BY <1>1 DEF LeaseInv, TypeOK
  <2>2. CASE WorkerGoes(r, "failing")
    BY <2>2, GoesOn
  <2>3. CASE worker' = [worker EXCEPT ![r].sent = @ + 1]
    <3>1. /\ worker' \in [Runs -> Worker] /\ worker'[r].sent = worker[r].sent + 1
          /\ worker'[r].pc = "working" /\ worker'[r].reaped = worker[r].reaped
          /\ \A q \in Runs \ {r} : worker'[q] = worker[q]
      BY <2>1, <2>3 DEF Worker
    <3>. QED
      BY <2>1, <3>1 DEF StartsEnd, LeaseInv, StartsHold
  <2>. QED
    BY <1>1, <2>2, <2>3
<1>5. Projected(sync', status') /\ OneRunningPerDataset' /\ PendingIsDone'
  BY <1>1, <1>2, SameProjection
<1>6. LoadedIsExact'
  BY <1>2, <1>3 DEF LeaseInv, LoadedIsExact
<1>7. WorkersKnow'
  BY <1>1, <1>2, <1>3, <1>4 DEF LeaseInv, WorkersKnow
<1>8. SweepKnows'
  <2>1. \A q \in DagsterRuns : worker[q].pc # "new" => worker'[q].pc # "new"
    BY <1>4, LeaseAssumption
  <2>. QED
    BY <1>1, <2>1 DEF LeaseInv, SweepKnows
<1>9. StartsHold'
  <2>1. \A q \in Locked \cap Runs : Running(q)
    BY DEF Locked, LeaseInv, StartsHold
  <2>. QED
    BY <1>1, <1>2, <1>4, <2>1, HoldsOn DEF Running, LeaseInv, TypeOK
<1>. QED
  BY <1>1, <1>2, <1>3, <1>4, <1>5, <1>6, <1>7, <1>8, <1>9 DEF LeaseInv, TypeOK

-----------------------------------------------------------------------------
(***************************************************************************)
(* The orchestrator, the sweep and the clock.                              *)
(***************************************************************************)

\* A step that leaves the tables and the workers alone.
LEMMA AloofSafe ==
    ASSUME LeaseInv, UNCHANGED <<sync, worker, facts, status>>,
           now' \in Nat, now' >= now, orch' \in [Runs -> {"none", "live", "finished", "missing"}],
           sweep' \in Sweep, faults' \in Nat, SweepKnows',
           \A r \in Runs : orch[r] = "none" => orch'[r] = "none"
    PROVE  LeaseInv'
<1>1. WorkersKnow'
  BY DEF LeaseInv, WorkersKnow
<1>2. StartsHold'
  BY SameHolds
<1>. QED
  BY <1>1, <1>2 DEF LeaseInv, TypeOK, OneRunningPerDataset, PendingIsDone, LoadedIsExact, Running, Done

LEMMA OrchestratorEndsSafe ==
    ASSUME LeaseInv, NEW r \in Runs, OrchestratorEnds(r)
    PROVE  LeaseInv'
<1>1. /\ orch[r] = "live" /\ orch' = [orch EXCEPT ![r] = "finished"]
      /\ UNCHANGED <<now, sync, worker, facts, status, sweep, faults>>
  BY DEF OrchestratorEnds
<1>2. /\ orch' \in [Runs -> {"none", "live", "finished", "missing"}]
      /\ \A q \in Runs : q = r \/ orch'[q] = orch[q]
      /\ orch'[r] = "finished"
  BY <1>1 DEF LeaseInv, TypeOK
<1>3. SweepKnows'
  BY <1>1, <1>2, LeaseAssumption DEF LeaseInv, SweepKnows
<1>. QED
  BY <1>1, <1>2, <1>3, AloofSafe DEF LeaseInv, TypeOK

LEMMA OrchestratorForgetsSafe ==
    ASSUME LeaseInv, NEW r \in Runs, OrchestratorForgets(r)
    PROVE  LeaseInv'
<1>1. /\ orch[r] \in {"live", "finished"} /\ orch' = [orch EXCEPT ![r] = "missing"]
      /\ UNCHANGED <<now, sync, worker, facts, status, sweep, faults>>
  BY DEF OrchestratorForgets
<1>2. /\ orch' \in [Runs -> {"none", "live", "finished", "missing"}]
      /\ \A q \in Runs : q = r \/ orch'[q] = orch[q]
      /\ orch'[r] = "missing"
  BY <1>1 DEF LeaseInv, TypeOK
<1>3. SweepKnows'
  BY <1>1, <1>2, LeaseAssumption DEF LeaseInv, SweepKnows
<1>. QED
  BY <1>1, <1>2, <1>3, AloofSafe DEF LeaseInv, TypeOK

LEMMA ReadPageSafe ==
    ASSUME LeaseInv, ReadPage
    PROVE  LeaseInv'
<1>1. UNCHANGED <<now, sync, worker, facts, orch, status, faults>>
  BY DEF ReadPage
<1>2. CASE sweep' = Asleep(None)
  <2>1. sweep' \in Sweep /\ SweepKnows'
    BY <1>1, <1>2, FreshSweep DEF LeaseInv, TypeOK
  <2>. QED
    BY <1>1, <2>1, AloofSafe DEF LeaseInv, TypeOK
<1>3. CASE sweep' = [sweep EXCEPT !.pc = "classify", !.page = Page, !.at = now,
                                  !.stale = {r \in Page : Expired(r, now)},
                                  !.more = Cardinality(Page) = PageLimit]
  <2>1. /\ Page \in SUBSET Runs /\ {r \in Page : Expired(r, now)} \in SUBSET Runs
        /\ \A r \in Page : r \in DagsterRuns /\ Running(r)
    BY LeaseAssumption DEF Page, Candidates
  <2>2. (Cardinality(Page) = PageLimit) \in BOOLEAN
    OBVIOUS
  <2>3. sweep \in Sweep /\ now \in Nat
    BY DEF LeaseInv, TypeOK
  <2>4. /\ sweep' \in Sweep /\ sweep'.at = now /\ sweep'.page = Page
        /\ sweep'.terminal = sweep.terminal /\ sweep'.missing = sweep.missing
    <3>. HIDE DEF Page
    <3>. QED
      BY <1>3, <2>1, <2>2, <2>3 DEF Sweep
  <2>5. \A r \in Page : worker[r].pc # "new"
    BY <2>1 DEF LeaseInv, WorkersKnow, Running
  <2>6. SweepKnows'
    BY <1>1, <2>1, <2>3, <2>4, <2>5 DEF LeaseInv, SweepKnows
  <2>. QED
    BY <1>1, <2>4, <2>6, AloofSafe DEF LeaseInv, TypeOK
<1>. QED
  BY <1>2, <1>3 DEF ReadPage

LEMMA ClassifySafe ==
    ASSUME LeaseInv, NEW r \in Runs, Classify(r)
    PROVE  LeaseInv'
<1>1. /\ r \in sweep.page
      /\ UNCHANGED <<now, sync, worker, facts, orch, status, faults>>
  BY DEF Classify
<1>2. sweep \in Sweep
  BY DEF LeaseInv, TypeOK
<1>3. /\ sweep' \in Sweep /\ sweep'.at = sweep.at
      /\ sweep'.page = sweep.page \ {r}
      /\ sweep'.terminal = IF orch[r] = "finished" THEN sweep.terminal \cup {r} ELSE sweep.terminal
      /\ sweep'.missing = IF orch[r] = "missing" /\ r \in sweep.stale THEN sweep.missing \cup {r}
                          ELSE sweep.missing
  BY <1>2 DEF Classify, Sweep
<1>4. /\ \A q \in sweep'.terminal : q \in sweep.terminal \/ (q = r /\ orch[r] = "finished")
      /\ \A q \in sweep'.missing : q \in sweep.missing \/ (q = r /\ orch[r] = "missing")
  BY <1>3
<1>5. SweepKnows'
  BY <1>1, <1>3, <1>4 DEF LeaseInv, SweepKnows
<1>. QED
  BY <1>1, <1>3, <1>5, AloofSafe DEF LeaseInv, TypeOK

LEMMA StopEarlySafe ==
    ASSUME LeaseInv, StopEarly
    PROVE  LeaseInv'
<1>1. UNCHANGED <<now, sync, worker, facts, orch, status, faults>>
  BY DEF StopEarly
<1>2. /\ sweep' \in Sweep /\ sweep'.at = sweep.at /\ sweep'.page = sweep.page
      /\ sweep'.terminal = sweep.terminal /\ sweep'.missing = sweep.missing
  BY DEF StopEarly, LeaseInv, TypeOK, Sweep
<1>3. SweepKnows'
  BY <1>1, <1>2 DEF LeaseInv, SweepKnows
<1>. QED
  BY <1>1, <1>2, <1>3, AloofSafe DEF LeaseInv, TypeOK

\* A failed lookup and a restart of the code server forget the page.
LEMMA FaultSafe ==
    ASSUME LeaseInv, LookupFails \/ CodeServerRestarts
    PROVE  LeaseInv'
<1>1. UNCHANGED <<now, sync, worker, facts, orch, status>> /\ faults' = faults + 1
  BY DEF LookupFails, CodeServerRestarts
<1>2. PICK p \in Runs \cup {None} : sweep' = Asleep(p)
  BY DEF LookupFails, CodeServerRestarts, LeaseInv, TypeOK, Sweep
<1>3. sweep' \in Sweep /\ SweepKnows'
  BY <1>1, <1>2, FreshSweep DEF LeaseInv, TypeOK
<1>. QED
  BY <1>1, <1>3, AloofSafe DEF LeaseInv, TypeOK

LEMMA TickSafe ==
    ASSUME LeaseInv, Tick
    PROVE  LeaseInv'
<1>1. now' = now + 1 /\ UNCHANGED <<sync, worker, facts, orch, status, sweep, faults>>
  BY DEF Tick
<1>2. SweepKnows'
  BY <1>1 DEF LeaseInv, TypeOK, SweepKnows, Sweep
<1>. QED
  BY <1>1, <1>2, AloofSafe DEF LeaseInv, TypeOK

-----------------------------------------------------------------------------
(***************************************************************************)
(* The invariant is inductive.                                             *)
(***************************************************************************)

LEMMA InitSafe == Init => LeaseInv
<1>. SUFFICES ASSUME Init PROVE LeaseInv
  OBVIOUS
<1>1. sweep = Asleep(None)
  BY DEF Init
<1>2. /\ sweep \in Sweep /\ sweep.at = 0
      /\ sweep.page = {} /\ sweep.terminal = {} /\ sweep.missing = {}
  BY <1>1 DEF Asleep, Sweep
<1>3. \A r \in Runs : sync[r].status = "none" /\ ~sync[r].pending
  BY DEF Init
<1>4. TypeOK
  <2>1. sync \in [Runs -> SyncRow] /\ worker \in [Runs -> Worker]
    BY DEF Init, SyncRow, RunStatus, Worker
  <2>2. status \in [Keys -> StatusRow]
    BY DEF Init, StatusRow
  <2>. QED
    BY <1>2, <2>1, <2>2 DEF Init, TypeOK
<1>5. WorkersKnow /\ LoadedIsExact /\ StartsHold
  BY DEF Init, WorkersKnow, LoadedIsExact, StartsHold
<1>6. SweepKnows
  BY <1>2 DEF Init, SweepKnows
<1>7. Projected(sync, status)
  BY <1>3 DEF Init, Projected, Terminal
<1>8. OneRunningPerDataset /\ PendingIsDone
  BY <1>3 DEF OneRunningPerDataset, PendingIsDone, Running
<1>. QED
  BY <1>4, <1>5, <1>6, <1>7, <1>8 DEF LeaseInv

LEMMA WorkerSafe ==
    ASSUME LeaseInv, NEW r \in Runs, WorkerStep(r)
    PROVE  LeaseInv'
<1>1. CASE BeginStart(r)
  BY <1>1, BeginSafe
<1>2. CASE StartSyncRun(r)
  BY <1>2, StartSafe
<1>3. CASE RefuseSyncRun(r)
  BY <1>3, MoveSafe DEF RefuseSyncRun, Reaping
<1>4. CASE WorkerRaises(r)
  BY <1>4, MoveSafe DEF WorkerRaises
<1>5. CASE HeartbeatSyncRun(r)
  BY <1>5, HeartbeatSafe
<1>6. CASE \E lost \in BOOLEAN : IngestBatch(r, lost)
  BY <1>6, IngestSafe
<1>7. CASE \E outcome \in {"success", "partial"}, last \in {0, 1}, lost \in BOOLEAN :
              PublishAndFinish(r, outcome, last, lost)
  BY <1>7, PublishAndFinishSafe
<1>8. CASE FinishSyncRun(r)
  BY <1>8, FinishSafe
<1>9. CASE WorkerDies(r)
  BY <1>9, MoveSafe DEF WorkerDies
<1>10. CASE CheckSyncRun(r)
  BY <1>10, CheckSafe
<1>. QED
  BY <1>1, <1>2, <1>3, <1>4, <1>5, <1>6, <1>7, <1>8, <1>9, <1>10 DEF WorkerStep

LEMMA NextSafe == LeaseInv /\ [Next]_vars => LeaseInv'
<1>. SUFFICES ASSUME LeaseInv, [Next]_vars PROVE LeaseInv'
  OBVIOUS
<1>1. ASSUME NEW r \in Runs, WorkerStep(r) PROVE LeaseInv'
  BY <1>1, WorkerSafe
<1>2. ASSUME NEW r \in Runs, OrchestratorEnds(r) PROVE LeaseInv'
  BY <1>2, OrchestratorEndsSafe
<1>3. ASSUME NEW r \in Runs, OrchestratorForgets(r) PROVE LeaseInv'
  BY <1>3, OrchestratorForgetsSafe
<1>4. ASSUME NEW locked \in SUBSET Runs, ReconcileExportStatus(locked) PROVE LeaseInv'
  BY <1>4, ReconcileSafe
<1>5. CASE SensorTick
  BY <1>5, SensorTickSafe
<1>6. CASE ReadPage
  BY <1>6, ReadPageSafe
<1>7. ASSUME NEW r \in Runs, Classify(r) PROVE LeaseInv'
  BY <1>7, ClassifySafe
<1>8. CASE Reap
  BY <1>8, ReapSafe
<1>9. CASE StopEarly
  BY <1>9, StopEarlySafe
<1>10. CASE LookupFails \/ CodeServerRestarts
  BY <1>10, FaultSafe
<1>11. CASE Tick
  BY <1>11, TickSafe
<1>12. CASE UNCHANGED vars
  <2>1. UNCHANGED <<now, sync, worker, facts, orch, status, sweep, faults>>
    BY <1>12 DEF vars
  <2>2. SweepKnows'
    BY <2>1 DEF LeaseInv, SweepKnows
  <2>. QED
    BY <2>1, <2>2, AloofSafe DEF LeaseInv, TypeOK
<1>. QED
  BY <1>1, <1>2, <1>3, <1>4, <1>5, <1>6, <1>7, <1>8, <1>9, <1>10, <1>11, <1>12
     DEF Next, SweepStep

LEMMA SpecSafe == Spec => []LeaseInv
  BY InitSafe, NextSafe, PTL DEF Spec

-----------------------------------------------------------------------------
(***************************************************************************)
(* Theorems.                                                               *)
(***************************************************************************)

\* start_sync_run reaps the stale rows, checks the others and inserts its own under the
\* advisory lock of the dataset: no two runs of one dataset are ever running, with any
\* number of workers between their check and their insert, and of reapers.
THEOREM OneRunPerDataset == Spec => []OneRunningPerDataset
<1>1. LeaseInv => OneRunningPerDataset
  BY DEF LeaseInv
<1>. QED
  BY <1>1, SpecSafe, PTL

\* ingest_batch, publish_and_finish and the reapers leave the row counting exactly what
\* was committed for the run.
THEOREM LoadedCountsCommits == Spec => []LoadedIsExact
<1>1. LeaseInv => LoadedIsExact
  BY DEF LeaseInv
<1>. QED
  BY <1>1, SpecSafe, PTL

LEMMA ProjectedIsCurrent == LeaseInv => StatusIsCurrent
<1>. SUFFICES ASSUME LeaseInv, NEW k \in Keys,
                     \A r \in Runs : Done(r) /\ k \in KeysOf[r] => ~sync[r].pending
              PROVE  LET done == {r \in Runs : Done(r) /\ k \in KeysOf[r]}
                     IN  IF done = {} THEN status[k].run = None
                         ELSE LET r == Newest(sync, done)
                              IN  status[k].run = r /\ status[k].status = sync[r].status
  BY DEF StatusIsCurrent
<1>. DEFINE done == {r \in Runs : Done(r) /\ k \in KeysOf[r]}
            s == status[k].run
<1>1. sync \in [Runs -> SyncRow] /\ s \in Runs \cup {None}
  BY DEF LeaseInv, TypeOK, StatusRow
<1>2. s # None => s \in done /\ status[k].status = sync[s].status
  BY <1>1 DEF LeaseInv, Projected, Done
<1>3. \A r \in done : s # None /\ (r = s \/ Before(sync, r, s))
  BY DEF LeaseInv, Projected, Done
<1>4. done \in SUBSET Runs
  OBVIOUS
<1>. HIDE DEF done
<1>5. done # {} => s # None /\ s \in done /\ Newer(sync, done, s)
  BY <1>2, <1>3 DEF Newer
<1>6. done # {} => s = Newest(sync, done)
  BY <1>1, <1>4, <1>5, NewestIsNewer
<1>7. IF done = {} THEN s = None
      ELSE s = Newest(sync, done) /\ status[k].status = sync[Newest(sync, done)].status
  BY <1>2, <1>5, <1>6
<1>. QED
  BY <1>7 DEF done

\* record_terminal replaces a row only for a newer run, and terminals are recorded late,
\* in any order and again: once none is pending, the status table shows the newest
\* terminal run of every key.
THEOREM StatusShowsNewest == Spec => []StatusIsCurrent
  BY ProjectedIsCurrent, SpecSafe, PTL

-----------------------------------------------------------------------------
(***************************************************************************)
(* No reaper takes a run from a live worker.                               *)
(***************************************************************************)

TakenFromTheDead ==
    \A r \in Runs :
        Running(r) /\ Done(r)' /\ sync'[r].by # "worker" =>
            IF r \in DagsterRuns
            THEN orch[r] # "live" /\ (r \in sweep.terminal \/ Expired(r, now))
            ELSE Expired(r, now)

\* Only the runs of R become terminal, and their rows say by whom.
LEMMA TerminalRowsTell ==
    ASSUME LeaseInv, NEW R, NEW P, NEW outcome, NEW by
    PROVE  \A r \in Runs :
              IF r \in R THEN TerminalRows(R, P, outcome, by)[r].by = by
              ELSE TerminalRows(R, P, outcome, by)[r] = sync[r]
  BY DEF TerminalRows, LeaseInv, TypeOK, SyncRow

LEMMA RunningNotDone == \A r \in Runs : ~(Running(r) /\ Done(r))
  BY DEF Running, Done, Terminal

LEMMA StaleIsDead == \A r \in StaleRuns : r \notin DagsterRuns /\ Expired(r, now)
  BY DEF StaleRuns

LEMMA ReapedIsDead ==
    ASSUME LeaseInv
    PROVE  \A r \in Reaped : /\ r \in DagsterRuns /\ orch[r] # "live"
                             /\ r \in sweep.terminal \/ Expired(r, now)
<1>. SUFFICES ASSUME NEW r \in Reaped
              PROVE  /\ r \in DagsterRuns /\ orch[r] # "live"
                     /\ r \in sweep.terminal \/ Expired(r, now)
  OBVIOUS
<1>1. /\ r \in sweep.terminal \cup sweep.missing
      /\ r \in sweep.terminal \/ Expired(r, sweep.at)
  BY DEF Reaped
<1>2. r \in DagsterRuns /\ orch[r] # "live" /\ sweep.at <= now
  BY <1>1 DEF LeaseInv, SweepKnows
<1>3. sync[r].beat \in Nat /\ Lease \in Nat /\ sweep.at \in Nat /\ now \in Nat
  BY <1>2, LeaseAssumption DEF LeaseInv, TypeOK, SyncRow, Sweep
<1>4. Expired(r, sweep.at) => Expired(r, now)
  BY <1>2, <1>3 DEF Expired
<1>. QED
  BY <1>1, <1>2, <1>4

\* A step that changes no status takes no run.
LEMMA SameStatusTakesNone ==
    ASSUME \A r \in Runs : Running(r) => sync'[r].status = sync[r].status
    PROVE  TakenFromTheDead
  BY RunningNotDone DEF TakenFromTheDead, Running, Done

LEMMA WorkerTakesFromTheDead ==
    ASSUME LeaseInv, NEW r \in Runs, WorkerStep(r)
    PROVE  TakenFromTheDead
<1>1. CASE StartSyncRun(r)
  <2>. DEFINE mine == worker[r].reaped
              rows(P) == TerminalRows(mine, P, "failed", "lease")
              fresh == [status |-> "running", started |-> worker[r].at, beat |-> worker[r].at,
                        pending |-> FALSE, loaded |-> 0, by |-> "none"]
  <2>1. PICK P : sync' = [rows(P) EXCEPT ![r] = fresh]
    BY <1>1 DEF StartSyncRun
  <2>2. \A q \in Runs \ {r} : sync'[q] = rows(P)[q]
    BY <2>1 DEF TerminalRows
  <2>3. \A q \in Runs \ mine : rows(P)[q] = sync[q]
    BY TerminalRowsTell
  <2>4. ~Running(r)
    BY <1>1 DEF StartSyncRun, LeaseInv, WorkersKnow, Running
  <2>5. \A q \in mine : q \notin DagsterRuns /\ Expired(q, now)
    BY DEF LeaseInv, StartsHold
  <2>. HIDE DEF rows, mine
  <2>6. \A q \in Runs : Running(q) /\ Done(q)' => q \in mine
    BY <2>2, <2>3, <2>4, RunningNotDone DEF Running, Done
  <2>. QED
    BY <2>5, <2>6 DEF TakenFromTheDead
<1>2. CASE \E outcome \in {"success", "partial"}, last \in {0, 1}, lost \in BOOLEAN :
              PublishAndFinish(r, outcome, last, lost)
  <2>1. PICK outcome \in {"success", "partial"}, last \in {0, 1}, P \in SUBSET {r} :
            sync' = [TerminalRows({r}, P, outcome, "worker")
                        EXCEPT ![r].loaded = LoadedAtFinish(r, last)]
    BY <1>2 DEF PublishAndFinish, Projections
  <2>2. \A q \in Runs : IF q = r THEN sync'[q].by = "worker" ELSE sync'[q] = sync[q]
    BY <2>1 DEF TerminalRows, LeaseInv, TypeOK, SyncRow
  <2>. QED
    BY <2>2, RunningNotDone DEF TakenFromTheDead, Running, Done
<1>3. CASE FinishSyncRun(r)
  <2>1. CASE Running(r)
    <3>1. PICK P : sync' = TerminalRows({r}, P, "failed", "worker")
      BY <1>3, <2>1 DEF FinishSyncRun, Terminalise
    <3>2. \A q \in Runs : IF q = r THEN sync'[q].by = "worker" ELSE sync'[q] = sync[q]
      BY <3>1, TerminalRowsTell
    <3>. QED
      BY <3>2, RunningNotDone DEF TakenFromTheDead, Running, Done
  <2>2. CASE ~Running(r)
    BY <1>3, <2>2, SameStatusTakesNone DEF FinishSyncRun
  <2>. QED
    BY <2>1, <2>2
<1>4. CASE HeartbeatSyncRun(r) \/ \E lost \in BOOLEAN : IngestBatch(r, lost)
  <2>1. \A q \in Runs : sync'[q].status = sync[q].status
    BY <1>4 DEF HeartbeatSyncRun, IngestBatch, LeaseInv, TypeOK, SyncRow
  <2>. QED
    BY <2>1, SameStatusTakesNone
<1>5. CASE BeginStart(r) \/ CheckSyncRun(r) \/ RefuseSyncRun(r) \/ WorkerRaises(r)
           \/ WorkerDies(r)
  <2>1. UNCHANGED sync
    BY <1>5 DEF BeginStart, CheckSyncRun, RefuseSyncRun, WorkerRaises, WorkerDies
  <2>. QED
    BY <2>1, SameStatusTakesNone
<1>. QED
  BY <1>1, <1>2, <1>3, <1>4, <1>5 DEF WorkerStep

LEMMA NextTakesFromTheDead == LeaseInv /\ [Next]_vars => TakenFromTheDead
<1>. SUFFICES ASSUME LeaseInv, [Next]_vars PROVE TakenFromTheDead
  OBVIOUS
<1>1. ASSUME NEW r \in Runs, WorkerStep(r) PROVE TakenFromTheDead
  BY <1>1, WorkerTakesFromTheDead
<1>2. CASE SensorTick
  <2>1. PICK P : sync' = TerminalRows(StaleRuns, P, "failed", "lease")
    BY <1>2 DEF SensorTick, Terminalise
  <2>2. \A q \in Runs \ StaleRuns : sync'[q] = sync[q]
    BY <2>1, TerminalRowsTell
  <2>. QED
    BY <2>2, RunningNotDone, StaleIsDead DEF TakenFromTheDead, Running, Done
<1>3. CASE Reap
  <2>1. PICK P : sync' = TerminalRows(Reaped, P, "failed", "sweep")
    BY <1>3 DEF Reap, Terminalise
  <2>2. \A q \in Runs \ Reaped : sync'[q] = sync[q]
    BY <2>1, TerminalRowsTell
  <2>. QED
    BY <2>2, RunningNotDone, ReapedIsDead DEF TakenFromTheDead, Running, Done
<1>4. ASSUME NEW locked \in SUBSET Runs, ReconcileExportStatus(locked) PROVE TakenFromTheDead
  <2>1. \A q \in Runs : sync'[q].status = sync[q].status
    BY <1>4 DEF ReconcileExportStatus, LeaseInv, TypeOK, SyncRow
  <2>. QED
    BY <2>1, SameStatusTakesNone
<1>5. CASE UNCHANGED sync
  BY <1>5, SameStatusTakesNone
<1>6. \/ \E r \in Runs : WorkerStep(r)
      \/ \E locked \in SUBSET Runs : ReconcileExportStatus(locked)
      \/ SensorTick \/ Reap \/ UNCHANGED sync
  BY DEF Next, SweepStep, OrchestratorEnds, OrchestratorForgets, ReadPage, Classify, StopEarly,
         LookupFails, CodeServerRestarts, Tick, vars
<1>. QED
  BY <1>1, <1>2, <1>3, <1>4, <1>5, <1>6

\* The conditional UPDATEs of the two reapers, after a page was read and classified
\* outside any transaction: a run whose worker shows life is never failed.
THEOREM ReapersSpareTheLiving == Spec => LiveRunsSurvive
<1>1. LeaseInv /\ [Next]_vars => [TakenFromTheDead]_vars
  BY NextTakesFromTheDead
<1>. QED
  BY <1>1, SpecSafe, PTL DEF Spec, LiveRunsSurvive, TakenFromTheDead
=============================================================================
