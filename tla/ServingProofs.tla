--------------------------- MODULE ServingProofs ---------------------------
(***************************************************************************)
(* Proofs about Serving: the guard around the files lets somebody in, and  *)
(* the sweep of the publisher comes back to every candidate, for any       *)
(* number of threads, slots, attempts and candidates per page.             *)
(***************************************************************************)
EXTENDS Serving, FiniteSetTheorems, TLAPS

-----------------------------------------------------------------------------
(***************************************************************************)
(* The guard around the files.                                             *)
(***************************************************************************)

\* How many locks each thread needs.
LEMMA LockCount ==
    /\ \A t \in FileReaders : Len(LockOrder(t)) = 3
    /\ \A t \in Threads \ FileReaders : Len(LockOrder(t)) = 2
  BY DEF LockOrder

\* A thread has taken no more locks than there are for it.
GuardTyped ==
    /\ step \in [Threads -> -1 .. 3]
    /\ \A t \in Threads : step[t] <= Len(LockOrder(t))

LEMMA GuardTypedInit == GuardInit => GuardTyped
  BY LockCount DEF GuardInit, GuardTyped, Outside

\* No thread goes past its last lock.
LEMMA GuardTypedStep ==
    ASSUME GuardTyped, GuardNext
    PROVE  GuardTyped'
<1>1. PICK t \in Threads : Enter(t) \/ Acquire(t) \/ GuardTimeout(t) \/ Leave(t)
  BY DEF GuardNext
<1>2. step[t] \in Int /\ Len(LockOrder(t)) \in {2, 3}
  BY LockCount DEF GuardTyped
<1>3. PICK n \in -1 .. Len(LockOrder(t)) : step' = [step EXCEPT ![t] = n]
  <2>1. CASE Enter(t)
    <3>1. step' = [step EXCEPT ![t] = 0] /\ 0 \in -1 .. Len(LockOrder(t))
      BY <2>1, <1>2 DEF Enter
    <3>. QED
      BY <3>1
  <2>2. CASE Acquire(t)
    <3>1. step' = [step EXCEPT ![t] = step[t] + 1] /\ step[t] + 1 \in -1 .. Len(LockOrder(t))
      BY <2>2, <1>2 DEF Acquire, Waiting
    <3>. QED
      BY <3>1
  <2>3. CASE GuardTimeout(t) \/ Leave(t)
    <3>1. step' = [step EXCEPT ![t] = -1] /\ -1 \in -1 .. Len(LockOrder(t))
      BY <2>3, <1>2 DEF GuardTimeout, Leave, Outside
    <3>. QED
      BY <3>1
  <2>. QED
    BY <1>1, <2>1, <2>2, <2>3
<1>. QED
  BY <1>2, <1>3 DEF GuardTyped, LockOrder

\* What a thread that is not inside holds.
LEMMA HeldLocks ==
    ASSUME GuardTyped, NEW t \in Threads, ~Inside(t)
    PROVE  /\ t \in FileReaders => /\ step[t] \in {-1, 0, 1, 2}
                                   /\ Holds(t, "slot") <=> step[t] \in {1, 2}
                                   /\ Holds(t, "admission") <=> step[t] = 2
                                   /\ ~Holds(t, "lock")
           /\ t \notin FileReaders => /\ step[t] \in {-1, 0, 1}
                                      /\ Holds(t, "admission") <=> step[t] = 1
                                      /\ ~Holds(t, "slot") /\ ~Holds(t, "lock")
<1>1. step[t] \in -1 .. 3 /\ step[t] # Len(LockOrder(t)) /\ step[t] <= Len(LockOrder(t))
  BY DEF GuardTyped, Inside
<1>2. ASSUME t \in FileReaders
      PROVE  /\ step[t] \in {-1, 0, 1, 2}
             /\ Holds(t, "slot") <=> step[t] \in {1, 2}
             /\ Holds(t, "admission") <=> step[t] = 2
             /\ ~Holds(t, "lock")
  <2>1. LockOrder(t) = <<"slot", "admission", "lock">>
    BY <1>2 DEF LockOrder
  <2>2. step[t] \in {-1, 0, 1, 2}
    BY <1>1, <2>1
  <2>3. \A i \in 1 .. step[t] : i \in {1, 2}
    BY <2>2
  <2>4. ~Inside(t)
    OBVIOUS
  <2>. HIDE DEF Inside
  <2>. QED
    BY <2>1, <2>2, <2>3, <2>4 DEF Holds
<1>3. ASSUME t \notin FileReaders
      PROVE  /\ step[t] \in {-1, 0, 1}
             /\ Holds(t, "admission") <=> step[t] = 1
             /\ ~Holds(t, "slot") /\ ~Holds(t, "lock")
  <2>1. LockOrder(t) = <<"admission", "lock">>
    BY <1>3 DEF LockOrder
  <2>2. step[t] \in {-1, 0, 1}
    BY <1>1, <2>1
  <2>3. \A i \in 1 .. step[t] : i = 1
    BY <2>2
  <2>. QED
    BY <1>3, <2>1, <2>2, <2>3 DEF Holds
<1>. QED
  BY <1>2, <1>3

\* The waiting thread that has come furthest can go on: a reader behind the
\* turnstile finds no writer at the file, a writer in the turnstile nobody, and
\* with the turnstile empty a reader with a slot or a writer passes it; if only
\* readers without a slot wait, all slots are free.
LEMMA FurthestGoesOn == GuardTyped => SomebodyGetsIn
<1>. SUFFICES ASSUME GuardTyped, \A t \in Threads : ~Inside(t), NEW w \in Threads, Waiting(w)
              PROVE  \E t \in Threads : Waiting(t) /\ Free(t, LockOrder(t)[step[t] + 1])
  BY DEF SomebodyGetsIn
<1>1. \A t \in Threads : ~Holds(t, "lock")
  BY HeldLocks
<1>2. \A t \in Threads : step[t] \in {-1, 0, 1, 2} /\ (t \notin FileReaders => step[t] # 2)
  BY HeldLocks
<1>3. \A t \in Threads : Waiting(t) <=> step[t] >= 0
  <2>. SUFFICES ASSUME NEW t \in Threads PROVE Waiting(t) <=> step[t] >= 0
    OBVIOUS
  <2>1. Len(LockOrder(t)) = IF t \in FileReaders THEN 3 ELSE 2
    BY LockCount
  <2>. QED
    BY <1>2, <2>1 DEF Waiting
<1>4. CASE \E t \in FileReaders : step[t] = 2
  <2>1. PICK t \in FileReaders : step[t] = 2
    BY <1>4
  <2>2. LockOrder(t)[step[t] + 1] = "lock" /\ t \in Threads
    BY <2>1 DEF LockOrder, Threads
  <2>3. Free(t, "lock")
    BY <1>1 DEF Free, Holders
  <2>. QED
    BY <2>1, <2>2, <2>3, <1>3
<1>5. CASE ~(\E t \in FileReaders : step[t] = 2) /\ \E t \in Threads \ FileReaders : step[t] = 1
  <2>1. PICK t \in Threads \ FileReaders : step[t] = 1
    BY <1>5
  <2>2. LockOrder(t)[step[t] + 1] = "lock"
    BY <2>1 DEF LockOrder
  <2>3. Free(t, "lock")
    BY <1>1 DEF Free, Holders
  <2>. QED
    BY <2>1, <2>2, <2>3, <1>3
<1>6. CASE ~(\E t \in FileReaders : step[t] = 2) /\ ~\E t \in Threads \ FileReaders : step[t] = 1
  <2>1. Holders("admission") = {}
    BY <1>6, HeldLocks DEF Holders
  <2>2. ASSUME NEW t \in Threads, step[t] = (IF t \in FileReaders THEN 1 ELSE 0)
        PROVE  Free(t, LockOrder(t)[step[t] + 1])
    <3>1. LockOrder(t)[step[t] + 1] = "admission"
      BY <2>2 DEF LockOrder
    <3>. QED
      BY <2>1, <3>1 DEF Free
  <2>3. CASE \E t \in Threads : step[t] = (IF t \in FileReaders THEN 1 ELSE 0)
    <3>1. PICK t \in Threads : step[t] = (IF t \in FileReaders THEN 1 ELSE 0)
      BY <2>3
    <3>. QED
      BY <3>1, <2>2, <1>3
  <2>4. CASE ~\E t \in Threads : step[t] = (IF t \in FileReaders THEN 1 ELSE 0)
    <3>1. w \in FileReaders /\ step[w] = 0
      BY <2>4, <1>2, <1>3, <1>6
    <3>2. Holders("slot") = {}
      BY <2>4, <1>6, HeldLocks DEF Holders
    <3>3. LockOrder(w)[step[w] + 1] = "slot"
      BY <3>1 DEF LockOrder
    <3>4. Free(w, "slot")
      BY <3>2, FS_EmptySet, GuardAssumption DEF Free
    <3>. QED
      BY <3>3, <3>4
  <2>. QED
    BY <2>3, <2>4
<1>. QED
  BY <1>4, <1>5, <1>6

\* No interleaving of readers and writers, time-outs and deaths leaves threads
\* in the guard that all wait for each other: as long as nobody is inside, one of
\* those that wait can take its next lock (ExportArtifactStore.guard).
THEOREM GuardNeverBlocks == Spec => []SomebodyGetsIn
<1>1. Init => GuardTyped
  BY GuardTypedInit DEF Init
<1>2. GuardTyped /\ [Next]_vars => GuardTyped'
  <2>. SUFFICES ASSUME GuardTyped, [Next]_vars PROVE GuardTyped'
    OBVIOUS
  <2>1. CASE GuardNext
    BY <2>1, GuardTypedStep
  <2>2. CASE UNCHANGED guardVars
    BY <2>2 DEF GuardTyped, guardVars
  <2>. QED
    BY <2>1, <2>2 DEF Next, vars
<1>. QED
  BY <1>1, <1>2, FurthestGoesOn, PTL DEF Spec

-----------------------------------------------------------------------------
(***************************************************************************)
(* The candidates in the order of their ids.                               *)
(***************************************************************************)

\* The number of elements of S before a.
RankIn(S, a) == Cardinality({b \in S : b < a})

LEMMA RankBounds ==
    ASSUME NEW S \in SUBSET Nat, IsFiniteSet(S), NEW a \in S
    PROVE  RankIn(S, a) \in 0 .. Cardinality(S) - 1
<1>1. {b \in S : b < a} \in SUBSET (S \ {a})
  OBVIOUS
<1>2. IsFiniteSet(S \ {a}) /\ Cardinality(S \ {a}) = Cardinality(S) - 1 /\ Cardinality(S) \in Nat
  BY FS_RemoveElement, FS_CardinalityType
<1>3. /\ IsFiniteSet({b \in S : b < a})
      /\ Cardinality({b \in S : b < a}) <= Cardinality(S \ {a})
  BY <1>1, <1>2, FS_Subset
<1>4. Cardinality({b \in S : b < a}) \in Nat
  BY <1>3, FS_CardinalityType
<1>. QED
  BY <1>2, <1>3, <1>4 DEF RankIn

LEMMA RankGrows ==
    ASSUME NEW S \in SUBSET Nat, IsFiniteSet(S), NEW a \in S, NEW c \in S, a < c
    PROVE  RankIn(S, a) < RankIn(S, c)
<1>1. PICK A : A = {b \in S : b < a}
  OBVIOUS
<1>2. PICK C : C = {b \in S : b < c}
  OBVIOUS
<1>3. A \in SUBSET S /\ C \in SUBSET S /\ a \notin A /\ A \cup {a} \in SUBSET C
  <2>1. A \in SUBSET S /\ C \in SUBSET S
    BY <1>1, <1>2
  <2>2. \A b \in S : (b < a => b < c) /\ ~(a < a)
    OBVIOUS
  <2>. QED
    BY <1>1, <1>2, <2>1, <2>2
<1>4. IsFiniteSet(A) /\ IsFiniteSet(C)
  BY <1>3, FS_Subset
<1>5. Cardinality(A \cup {a}) = Cardinality(A) + 1
  BY <1>3, <1>4, FS_AddElement
<1>6. Cardinality(A \cup {a}) <= Cardinality(C)
  BY <1>3, <1>4, FS_Subset
<1>7. Cardinality(A) \in Nat /\ Cardinality(C) \in Nat
  BY <1>4, FS_CardinalityType
<1>. QED
  BY <1>1, <1>2, <1>5, <1>6, <1>7 DEF RankIn

\* Every rank is taken.
LEMMA RankTaken ==
    ASSUME NEW S \in SUBSET Nat, IsFiniteSet(S), NEW k \in 0 .. Cardinality(S) - 1
    PROVE  \E a \in S : RankIn(S, a) = k
<1>1. PICK R : R = 0 .. Cardinality(S) - 1
  OBVIOUS
<1>2. PICK f : f = [a \in S |-> RankIn(S, a)]
  OBVIOUS
<1>3. Cardinality(S) \in Nat
  BY FS_CardinalityType
<1>4. IsFiniteSet(R) /\ Cardinality(R) = Cardinality(S)
  <2>1. PICK m \in Int : m = Cardinality(S) - 1
    BY <1>3
  <2>2. IsFiniteSet(0 .. m) /\ Cardinality(0 .. m) = IF 0 > m THEN 0 ELSE m - 0 + 1
    BY FS_Interval
  <2>. QED
    BY <1>1, <1>3, <2>1, <2>2
<1>5. f \in [S -> R]
  BY <1>1, <1>2, RankBounds
<1>6. ASSUME NEW a \in S, NEW c \in S, f[a] = f[c]
      PROVE  a = c
  <2>1. RankIn(S, a) = RankIn(S, c) /\ RankIn(S, a) \in Int
    BY <1>2, <1>6, RankBounds
  <2>2. ~(a < c) /\ ~(c < a)
    BY <2>1, RankGrows
  <2>. QED
    BY <2>2
<1>7. f \in Injection(S, R)
  BY <1>5, <1>6 DEF Injection, IsInjective
<1>8. f \in Surjection(S, R)
  BY <1>4, <1>7, FS_Injection
<1>. QED
  BY <1>1, <1>2, <1>8 DEF Surjection

\* Ordered by id, a set is listed without gaps and in increasing order.
ById(S) == [i \in 1 .. Cardinality(S) |-> CHOOSE a \in S : RankIn(S, a) = i - 1]

LEMMA OrderedById ==
    ASSUME NEW S \in SUBSET Nat, IsFiniteSet(S),
           NEW o, o = ById(S)
    PROVE  /\ o \in Seq(S) /\ Len(o) = Cardinality(S)
           /\ \A i, j \in 1 .. Len(o) : i < j => o[i] < o[j]
           /\ \A a \in S : \E i \in 1 .. Len(o) : o[i] = a
<1>1. Cardinality(S) \in Nat
  BY FS_CardinalityType
<1>3. ASSUME NEW i \in 1 .. Cardinality(S)
      PROVE  o[i] \in S /\ RankIn(S, o[i]) = i - 1
  <2>1. i - 1 \in 0 .. Cardinality(S) - 1
    BY <1>1
  <2>2. \E a \in S : RankIn(S, a) = i - 1
    BY <2>1, RankTaken
  <2>. QED
    BY <2>2 DEF ById
<1>4. o \in Seq(S) /\ Len(o) = Cardinality(S)
  BY <1>1, <1>3 DEF ById
<1>n. \A a \in S : a \in Int /\ RankIn(S, a) \in 0 .. Cardinality(S) - 1
  BY RankBounds
<1>g. \A a, c \in S : a < c => RankIn(S, a) < RankIn(S, c)
  BY RankGrows
<1>5. ASSUME NEW i \in 1 .. Len(o), NEW j \in 1 .. Len(o), i < j
      PROVE  o[i] < o[j]
  <2>1. PICK x \in S : x = o[i] /\ RankIn(S, x) = i - 1
    BY <1>3, <1>4
  <2>2. PICK y \in S : y = o[j] /\ RankIn(S, y) = j - 1
    BY <1>3, <1>4
  <2>3. x \in Int /\ y \in Int /\ i - 1 < j - 1
    BY <1>n, <1>1, <1>4, <1>5
  <2>4. x # y
    BY <2>1, <2>2, <2>3
  <2>5. y < x => j - 1 < i - 1
    BY <2>1, <2>2, <1>g
  <2>6. x < y
    BY <2>3, <2>4, <2>5, <1>1, <1>4
  <2>. QED
    BY <2>1, <2>2, <2>6
<1>6. ASSUME NEW a \in S
      PROVE  \E i \in 1 .. Len(o) : o[i] = a
  <2>1. PICK i \in Int : i = RankIn(S, a) + 1
    BY <1>n, <1>1
  <2>2. i \in 1 .. Cardinality(S) /\ RankIn(S, a) = i - 1
    BY <1>1, <2>1, <1>n
  <2>3. PICK x \in S : x = o[i] /\ RankIn(S, x) = RankIn(S, a)
    BY <1>3, <2>2
  <2>4. RankIn(S, a) \in Int /\ x \in Int /\ a \in Int
    BY <1>n
  <2>5. ~(x < a) /\ ~(a < x)
    <3>1. x < a => RankIn(S, x) < RankIn(S, a)
      BY <1>g
    <3>2. a < x => RankIn(S, a) < RankIn(S, x)
      BY <1>g
    <3>. QED
      BY <3>1, <3>2, <2>3, <2>4
  <2>6. x = a
    BY <2>4, <2>5
  <2>. QED
    BY <1>4, <2>2, <2>3, <2>6
<1>. QED
  BY <1>4, <1>5, <1>6

-----------------------------------------------------------------------------
(***************************************************************************)
(* The sweep of the publisher: the inductive invariant.                    *)
(***************************************************************************)

N == Cardinality(Attempts)

\* Where a tick begins, and how far a sweep that begins after c is from a when it
\* goes through all ids and starts again from the first.
Place(c) == IF c = Garbled THEN 0 ELSE c
Distance(c, a) == IF a > c THEN a - 1 - c ELSE a - 1 - c + N

\* The types of what a sweep counts with; a tick begins at the cursor.
TickTyped ==
    /\ cursor \in {Garbled} \cup (0 .. N)
    /\ missed \in [Attempts -> Nat] /\ DOMAIN att = Attempts
    /\ DOMAIN tick = DOMAIN NoTick
    /\ tick.after \in 0 .. N /\ tick.start \in 0 .. N
    /\ tick.fresh \in Nat /\ tick.swept \in Nat /\ tick.processed \in Nat
    /\ tick.at # "idle" => tick.start = Place(cursor)

\* A tick passes nobody over without looking at him: the way to an attempt it has not
\* seen is not longer than at its start, and shorter once the sweep has moved.
NobodyPassed ==
    \A a \in Pending \ tick.seen :
        /\ Distance(tick.after, a) <= Distance(tick.start, a)
        /\ tick.swept > 0 => Distance(tick.after, a) < Distance(tick.start, a)

\* A page in work: its candidates follow each other and the last one processed; an
\* unseen attempt after the position is still to come on the page, or is beyond it,
\* and then a row more was read.
Listed(a) == \E i \in 1 .. Len(tick.todo) : tick.todo[i] = a
Beyond(a) ==
    /\ tick.processed + Len(tick.todo) < tick.page
    /\ a > tick.last
    /\ \A i \in 1 .. Len(tick.todo) : a > tick.todo[i]

PageTyped ==
    /\ tick.todo \in Seq(Attempts) /\ tick.page \in Nat /\ tick.last \in 0 .. N
    /\ tick.processed + Len(tick.todo) <= tick.page
    /\ tick.processed = 0 => tick.last = 0
    /\ tick.processed > 0 => tick.last > tick.after
    /\ \A i \in 1 .. Len(tick.todo) : tick.todo[i] > tick.after /\ tick.todo[i] > tick.last
    /\ \A i, j \in 1 .. Len(tick.todo) : i < j => tick.todo[i] < tick.todo[j]
PageKnows ==
    tick.at = "sweep drain" =>
        /\ PageTyped
        /\ \A a \in Pending \ tick.seen : a > tick.after => Listed(a) \/ Beyond(a)

\* Ticks that passed an attempt over and ids still before it are together fewer than
\* the attempts.
CursorComesBack == \A a \in Attempts : missed[a] + Distance(Place(cursor), a) < N

SweepInv == TickTyped /\ NobodyPassed /\ PageKnows /\ CursorComesBack

-----------------------------------------------------------------------------
(***************************************************************************)
(* Its steps.                                                              *)
(***************************************************************************)

LEMMA Ids ==
    /\ IsFiniteSet(Attempts) /\ N \in Nat /\ Attempts = 1 .. N
    /\ CandidatePage \in Nat \ {0} /\ TickAttempts \in Nat \ {0}
  BY TickAssumption, FS_CardinalityType DEF N

\* The way is shorter from a later place that does not lie beyond a, and from the first
\* id once there is nothing left of the round but what comes before the place.
LEMMA DistanceShrinks ==
    ASSUME NEW c \in 0 .. N, NEW a \in Attempts
    PROVE  /\ Distance(c, a) \in 0 .. N - 1
           /\ \A d \in 0 .. N : c < d /\ (a > d \/ ~(a > c)) => Distance(d, a) < Distance(c, a)
           /\ ~(a > c) => Distance(0, a) <= Distance(c, a)
           /\ ~(a > c) /\ c < N => Distance(0, a) < Distance(c, a)
  BY Ids DEF Distance

\* The fields of an evaluation.
LEMMA TickFields ==
    DOMAIN NoTick = {"at", "after", "start", "lost", "ok", "seen", "errors", "stopped", "fresh",
                     "swept", "page", "todo", "processed", "last", "window", "older", "key", "probed"}
  BY DEF NoTick

\* A step that leaves the sweep where it is.
SweepRests ==
    /\ UNCHANGED <<cursor, missed>>
    /\ DOMAIN att' = Attempts /\ DOMAIN tick' = DOMAIN NoTick
    /\ tick'.after = tick.after /\ tick'.start = tick.start /\ tick'.swept = tick.swept
    /\ tick'.fresh \in Nat /\ tick'.processed \in Nat
    /\ tick.at # "idle" /\ tick'.at # "sweep drain"
    /\ Pending' \ tick'.seen \subseteq Pending \ tick.seen

LEMMA RestingSweep ==
    ASSUME SweepInv, SweepRests
    PROVE  SweepInv'
<1>1. TickTyped'
  BY DEF SweepInv, SweepRests, TickTyped, Place, N
<1>2. NobodyPassed'
  BY DEF SweepInv, SweepRests, NobodyPassed, Distance
<1>3. PageKnows'
  BY DEF SweepRests, PageKnows
<1>4. CursorComesBack'
  BY DEF SweepInv, SweepRests, CursorComesBack, Place, Distance
<1>. QED
  BY <1>1, <1>2, <1>3, <1>4 DEF SweepInv

\* The steps around the sweep leave it where it is.
LEMMA RetireRests == SweepInv /\ Retire => SweepRests
<1>. SUFFICES ASSUME SweepInv, Retire PROVE SweepRests
  OBVIOUS
<1>1. DOMAIN att = Attempts /\ DOMAIN tick = DOMAIN NoTick /\ tick.fresh \in Nat /\ tick.processed \in Nat
  BY DEF SweepInv, TickTyped
<1>2. tick' = [tick EXCEPT !.at = "fresh"]
  BY DEF Retire
<1>3. Pending' \subseteq Pending
  BY DEF Retire, Pending
<1>. QED
  BY <1>1, <1>2, <1>3, TickFields DEF Retire, SweepRests

LEMMA FreshEndsRests == SweepInv /\ FreshEnds => SweepRests
<1>. SUFFICES ASSUME SweepInv, FreshEnds PROVE SweepRests
  OBVIOUS
<1>1. DOMAIN att = Attempts /\ DOMAIN tick = DOMAIN NoTick /\ tick.fresh \in Nat /\ tick.processed \in Nat
  BY DEF SweepInv, TickTyped
<1>2. PICK counted \in {0, tick.fresh} : tick' = [ToSweep(tick) EXCEPT !.fresh = counted]
  BY DEF FreshEnds
<1>3. Pending' = Pending
  BY DEF FreshEnds, Pending
<1>. QED
  BY <1>1, <1>2, <1>3, TickFields DEF FreshEnds, SweepRests, ToSweep

LEMMA ReadFreshRests == SweepInv /\ ReadFresh => SweepRests
<1>. SUFFICES ASSUME SweepInv, ReadFresh PROVE SweepRests
  OBVIOUS
<1>1. DOMAIN att = Attempts /\ DOMAIN tick = DOMAIN NoTick /\ tick.fresh \in Nat /\ tick.processed \in Nat
  BY DEF SweepInv, TickTyped
<1>2. Pending' = Pending /\ att' = att
  BY DEF ReadFresh, Pending
<1>3. /\ DOMAIN tick' = DOMAIN NoTick /\ tick'.seen = tick.seen
      /\ tick'.after = tick.after /\ tick'.start = tick.start /\ tick'.swept = tick.swept
      /\ tick'.fresh \in Nat /\ tick'.processed \in Nat
      /\ tick'.at \in {"fresh", "fresh drain", "sweep"}
  <2>. DEFINE window == IF tick.window = {} THEN NewestRuns ELSE tick.window
              order  == Ordered(FreshRows(window), LAMBDA b, a : Before(FreshKey(b), FreshKey(a)))
              rows   == FirstOf(order, IF CandidatePage < TickAttempts - tick.fresh
                                       THEN CandidatePage ELSE TickAttempts - tick.fresh)
              older  == CHOOSE k \in {finished[r] : r \in window} :
                                   \A r \in window : k <= finished[r]
  <2>3. CASE window = {}
    <3>1. tick' = ToSweep(tick)
      BY <2>3 DEF ReadFresh, Ordered
    <3>. QED
      BY <1>1, <3>1, TickFields DEF ReadFresh, ToSweep
  <2>4. CASE window # {} /\ rows = <<>>
    <3>1. tick' = [tick EXCEPT !.window = {}, !.key = <<>>, !.older = older]
      BY <2>4 DEF ReadFresh, Ordered
    <3>. HIDE DEF window, older, rows
    <3>2. tick.at = "fresh"
      BY DEF ReadFresh
    <3>. QED
      BY <1>1, <3>1, <3>2, TickFields
  <2>5. CASE window # {} /\ rows # <<>>
    <3>1. PICK probed :
            tick' = [tick EXCEPT !.at = "fresh drain", !.window = window, !.page = Len(rows),
                                 !.todo = rows, !.processed = 0, !.last = 0, !.probed = probed]
      BY <2>5 DEF ReadFresh, Ordered
    <3>. HIDE DEF window, rows
    <3>. QED
      BY <1>1, <3>1, TickFields
  <2>. HIDE DEF window, rows
  <2>. QED
    BY <2>3, <2>4, <2>5
<1>4. tick.at = "fresh" /\ UNCHANGED <<cursor, missed>>
  BY DEF ReadFresh
<1>5. tick.at # "idle" /\ tick'.at # "sweep drain"
  BY <1>3, <1>4
<1>. QED
  BY <1>1, <1>2, <1>3, <1>4, <1>5 DEF SweepRests

LEMMA FreshDrainedRests == SweepInv /\ FreshDrained => SweepRests
<1>. SUFFICES ASSUME SweepInv, FreshDrained PROVE SweepRests
  OBVIOUS
<1>1. DOMAIN att = Attempts /\ DOMAIN tick = DOMAIN NoTick /\ tick.fresh \in Nat /\ tick.processed \in Nat
  BY DEF SweepInv, TickTyped
<1>2. Pending' = Pending
  BY DEF FreshDrained, Pending
<1>3. PICK next : /\ \E key : next = [tick EXCEPT
                                 !.at = "fresh", !.fresh = tick.fresh + tick.processed,
                                 !.todo = <<>>, !.page = 0, !.processed = 0, !.last = 0, !.key = key]
                  /\ tick' = next \/ tick' = ToSweep(next)
  BY DEF FreshDrained
<1>4. /\ DOMAIN next = DOMAIN NoTick /\ next.at = "fresh"
      /\ next.after = tick.after /\ next.start = tick.start /\ next.swept = tick.swept
      /\ next.fresh \in Nat /\ next.processed \in Nat /\ next.seen = tick.seen
  BY <1>1, <1>3, TickFields
<1>5. CASE tick' = next
  BY <1>1, <1>2, <1>4, <1>5 DEF FreshDrained, SweepRests
<1>6. CASE tick' = ToSweep(next)
  BY <1>1, <1>2, <1>4, <1>6, TickFields DEF FreshDrained, SweepRests, ToSweep
<1>. QED
  BY <1>3, <1>5, <1>6

LEMMA SweepEndsRests == SweepInv /\ SweepEnds => SweepRests
<1>. SUFFICES ASSUME SweepInv, SweepEnds PROVE SweepRests
  OBVIOUS
<1>1. DOMAIN att = Attempts /\ DOMAIN tick = DOMAIN NoTick /\ tick.fresh \in Nat /\ tick.processed \in Nat
  BY DEF SweepInv, TickTyped
<1>2. Pending' = Pending
  BY DEF SweepEnds, Pending
<1>3. \/ tick' = [tick EXCEPT !.at = "update"]
      \/ \E ok \in BOOLEAN : tick' = [tick EXCEPT !.at = "update", !.ok = ok]
  BY DEF SweepEnds
<1>4. CASE tick' = [tick EXCEPT !.at = "update"]
  BY <1>1, <1>2, <1>4, TickFields DEF SweepEnds, SweepRests
<1>5. CASE \E ok \in BOOLEAN : tick' = [tick EXCEPT !.at = "update", !.ok = ok]
  BY <1>1, <1>2, <1>5, TickFields DEF SweepEnds, SweepRests
<1>. QED
  BY <1>3, <1>4, <1>5

\* The world around the publisher does not touch it.
LEMMA QuietStep ==
    ASSUME SweepInv, UNCHANGED <<tick, cursor, missed>>, UNCHANGED att
    PROVE  SweepInv'
  BY DEF SweepInv, TickTyped, NobodyPassed, PageKnows, CursorComesBack, PageTyped, Listed, Beyond,
         Pending, Place, Distance, N

LEMMA AbandonStep == SweepInv /\ Abandon => SweepInv'
<1>. SUFFICES ASSUME SweepInv, Abandon PROVE SweepInv'
  OBVIOUS
<1>1. DOMAIN tick = DOMAIN NoTick
  BY DEF SweepInv, TickTyped
<1>2. tick' = [tick EXCEPT !.lost = TRUE] /\ UNCHANGED <<att, cursor, missed>>
  BY DEF Abandon
<1>3. /\ DOMAIN tick' = DOMAIN NoTick /\ tick'.at = tick.at
      /\ tick'.after = tick.after /\ tick'.start = tick.start /\ tick'.swept = tick.swept
      /\ tick'.fresh = tick.fresh /\ tick'.processed = tick.processed /\ tick'.seen = tick.seen
      /\ tick'.todo = tick.todo /\ tick'.page = tick.page /\ tick'.last = tick.last
  BY <1>1, <1>2, TickFields
<1>4. TickTyped' /\ CursorComesBack'
  BY <1>2, <1>3 DEF SweepInv, TickTyped, CursorComesBack, Place, Distance, N
<1>5. NobodyPassed'
  BY <1>2, <1>3 DEF SweepInv, NobodyPassed, Pending, Distance, N
<1>6. PageKnows'
  BY <1>2, <1>3 DEF SweepInv, PageKnows, PageTyped, Listed, Beyond, Pending, N
<1>. QED
  BY <1>4, <1>5, <1>6 DEF SweepInv

\* An evaluation that begins at the cursor, or that is over, has passed nobody.
LEMMA FreshTick ==
    ASSUME SweepInv, UNCHANGED att, CursorComesBack',
           cursor' \in {Garbled} \cup (0 .. N), missed' \in [Attempts -> Nat],
           DOMAIN tick' = DOMAIN NoTick, tick'.swept = 0, tick'.fresh = 0, tick'.processed = 0,
           tick'.after \in 0 .. N, tick'.start = tick'.after, tick'.at \in {"idle", "retire", "fresh"},
           tick'.at # "idle" => tick'.start = Place(cursor')
    PROVE  SweepInv'
<1>1. TickTyped'
  <2>1. DOMAIN att = Attempts
    BY DEF SweepInv, TickTyped
  <2>. QED
    BY <2>1 DEF TickTyped, Place, N
<1>2. NobodyPassed'
  <2>1. \A a \in Attempts : Distance(tick'.after, a) \in Int
    BY DistanceShrinks, Ids
  <2>2. \A a \in Attempts : Distance(tick'.after, a) <= Distance(tick'.start, a)
    BY <2>1
  <2>. QED
    BY <2>2 DEF NobodyPassed, Pending, Distance, N
<1>3. PageKnows'
  BY DEF PageKnows
<1>. QED
  BY <1>1, <1>2, <1>3 DEF SweepInv

LEMMA BeginStep == SweepInv /\ Begin => SweepInv'
<1>. SUFFICES ASSUME SweepInv, Begin PROVE SweepInv'
  OBVIOUS
<1>1. UNCHANGED <<att, cursor, missed>>
  BY DEF Begin
<1>2. CursorComesBack' /\ cursor' \in {Garbled} \cup (0 .. N) /\ missed' \in [Attempts -> Nat]
  BY <1>1 DEF SweepInv, TickTyped, CursorComesBack, Place, Distance, N
<1>3. PICK stage \in {"retire", "fresh"} :
          tick' = [NoTick EXCEPT !.at = stage, !.after = Place(cursor), !.start = Place(cursor)]
  BY DEF Begin, Place
<1>4. Place(cursor) \in 0 .. N
  BY Ids DEF SweepInv, TickTyped, Place
<1>5. /\ DOMAIN tick' = DOMAIN NoTick /\ tick'.swept = 0 /\ tick'.fresh = 0 /\ tick'.processed = 0
      /\ tick'.after = Place(cursor) /\ tick'.start = Place(cursor) /\ tick'.at = stage
  BY <1>3 DEF NoTick
<1>6. Place(cursor') = Place(cursor)
  BY <1>1
<1>. QED
  BY <1>1, <1>2, <1>4, <1>5, <1>6, FreshTick

LEMMA DieStep == SweepInv /\ Die => SweepInv'
<1>. SUFFICES ASSUME SweepInv, Die PROVE SweepInv'
  OBVIOUS
<1>1. UNCHANGED <<att, cursor, missed>> /\ tick' = NoTick
  BY DEF Die
<1>2. CursorComesBack' /\ cursor' \in {Garbled} \cup (0 .. N) /\ missed' \in [Attempts -> Nat]
  BY <1>1 DEF SweepInv, TickTyped, CursorComesBack, Place, Distance, N
<1>3. /\ DOMAIN tick' = DOMAIN NoTick /\ tick'.swept = 0 /\ tick'.fresh = 0 /\ tick'.processed = 0
      /\ tick'.after = 0 /\ tick'.start = 0 /\ tick'.at = "idle"
  BY <1>1 DEF NoTick
<1>4. 0 \in 0 .. N
  BY Ids
<1>. QED
  BY <1>1, <1>2, <1>3, <1>4, FreshTick

\* The next candidate of a page has been dealt with, whatever became of it.
Looked(a) ==
    /\ tick.at \in {"fresh drain", "sweep drain"} /\ tick.todo # <<>> /\ a = Head(tick.todo)
    /\ UNCHANGED <<cursor, missed>>
    /\ DOMAIN att' = Attempts /\ DOMAIN tick' = DOMAIN NoTick
    /\ tick'.at = tick.at /\ tick'.after = tick.after /\ tick'.start = tick.start
    /\ tick'.swept = tick.swept /\ tick'.fresh = tick.fresh /\ tick'.page = tick.page
    /\ tick'.todo = Tail(tick.todo) /\ tick'.processed = tick.processed + 1
    /\ tick'.last = a /\ tick'.seen = tick.seen \cup {a}
    /\ Pending' \subseteq Pending \cup {a}

\* Every step in a drain does this to the page.
LEMMA DrainLooks ==
    ASSUME SweepInv, PassSeen \/ Process \/ \E systemic \in BOOLEAN : ProcessFails(systemic)
    PROVE  \E a : Looked(a)
<1>1. DOMAIN tick = DOMAIN NoTick /\ DOMAIN att = Attempts
  BY DEF SweepInv, TickTyped
<1>3. ASSUME NEW a, NEW errors, NEW stopped, NEW probed,
             \/ tick' = Advance(a)
             \/ tick' = [Advance(a) EXCEPT !.errors = errors, !.probed = probed]
             \/ tick' = [Advance(a) EXCEPT !.errors = errors, !.stopped = stopped]
             \/ tick' = [Advance(a) EXCEPT !.errors = errors, !.stopped = stopped, !.probed = probed]
      PROVE  /\ DOMAIN tick' = DOMAIN NoTick
             /\ tick'.at = tick.at /\ tick'.after = tick.after /\ tick'.start = tick.start
             /\ tick'.swept = tick.swept /\ tick'.fresh = tick.fresh /\ tick'.page = tick.page
             /\ tick'.todo = Tail(tick.todo) /\ tick'.processed = tick.processed + 1
             /\ tick'.last = a /\ tick'.seen = tick.seen \cup {a}
  <2>1. PICK next : next = Advance(a)
    OBVIOUS
  <2>2. /\ DOMAIN next = DOMAIN NoTick
        /\ next.at = tick.at /\ next.after = tick.after /\ next.start = tick.start
        /\ next.swept = tick.swept /\ next.fresh = tick.fresh /\ next.page = tick.page
        /\ next.todo = Tail(tick.todo) /\ next.processed = tick.processed + 1
        /\ next.last = a /\ next.seen = tick.seen \cup {a}
    BY <1>1, <2>1, TickFields DEF Advance
  <2>3. CASE tick' = next
    BY <2>2, <2>3
  <2>4. CASE tick' = [next EXCEPT !.errors = errors, !.probed = probed]
    BY <2>2, <2>4, TickFields
  <2>5. CASE tick' = [next EXCEPT !.errors = errors, !.stopped = stopped]
    BY <2>2, <2>5, TickFields
  <2>6. CASE tick' = [next EXCEPT !.errors = errors, !.stopped = stopped, !.probed = probed]
    BY <2>2, <2>6, TickFields
  <2>. QED
    BY <1>3, <2>1, <2>3, <2>4, <2>5, <2>6
<1>4. CASE PassSeen
  <2>a. PICK a : a = Head(tick.todo)
    OBVIOUS
  <2>1. tick' = Advance(a) /\ UNCHANGED <<att, cursor, missed>>
    BY <2>a, <1>4 DEF PassSeen
  <2>2. Pending' = Pending
    BY <2>1 DEF Pending
  <2>3. tick.at \in {"fresh drain", "sweep drain"} /\ tick.todo # <<>>
    BY <1>4 DEF PassSeen
  <2>. QED
    BY <1>1, <1>3, <2>a, <2>1, <2>2, <2>3 DEF Looked
<1>5. CASE \E systemic \in BOOLEAN : ProcessFails(systemic)
  <2>a. PICK a : a = Head(tick.todo)
    OBVIOUS
  <2>1. PICK errors, stopped : /\ tick' = [Advance(a) EXCEPT !.errors = errors, !.stopped = stopped]
                               /\ UNCHANGED <<att, cursor, missed>>
    BY <2>a, <1>5 DEF ProcessFails, Candidate, Advance
  <2>2. Pending' = Pending
    BY <2>1 DEF Pending
  <2>3. tick.at \in {"fresh drain", "sweep drain"} /\ tick.todo # <<>>
    BY <1>5 DEF ProcessFails, Candidate
  <2>. QED
    BY <1>1, <1>3, <2>a, <2>1, <2>2, <2>3 DEF Looked
<1>6. CASE Process
  <2>0. PICK a \in Attempts :
           /\ Candidate(a)
           /\ \E status :
                  LET verdict == Verdict(a, status)
                      asked   == IF native[RunOf[a]] = "failed" THEN tick.probed
                                 ELSE Remember(RunOf[a], status)
                  IN  IF a \in Broken /\ verdict # "NOT_READY"
                      THEN /\ tick' = [Advance(a) EXCEPT
                                 !.errors = @ + 1, !.stopped = tick.errors + 1 >= TickErrors,
                                 !.probed = asked]
                           /\ UNCHANGED <<att, native>>
                      ELSE /\ tick' = [Advance(a) EXCEPT !.errors = 0, !.probed = asked]
                           /\ \E s \in Outcomes(a, verdict, tick.at = "fresh drain") :
                                 att' = [att EXCEPT ![a] = s]
    BY <1>6 DEF Process
  <2>3. \E s : att' = att \/ att' = [att EXCEPT ![a] = s]
    BY <2>0
  <2>4. DOMAIN att' = Attempts /\ Pending' \subseteq Pending \cup {a}
    BY <1>1, <2>0, <2>3 DEF Pending
  <2>5. UNCHANGED <<cursor, missed>>
    BY <1>6 DEF Process
  <2>6. tick.at \in {"fresh drain", "sweep drain"} /\ tick.todo # <<>> /\ a = Head(tick.todo)
    BY <2>0 DEF Candidate
  <2>7. PICK errors, stopped, asked :
           \/ tick' = [Advance(a) EXCEPT !.errors = errors, !.stopped = stopped, !.probed = asked]
           \/ tick' = [Advance(a) EXCEPT !.errors = errors, !.probed = asked]
    BY <2>0
  <2>8. /\ DOMAIN tick' = DOMAIN NoTick
        /\ tick'.at = tick.at /\ tick'.after = tick.after /\ tick'.start = tick.start
        /\ tick'.swept = tick.swept /\ tick'.fresh = tick.fresh /\ tick'.page = tick.page
        /\ tick'.todo = Tail(tick.todo) /\ tick'.processed = tick.processed + 1
        /\ tick'.last = a /\ tick'.seen = tick.seen \cup {a}
    <3>1. PICK next : next = Advance(a)
      OBVIOUS
    <3>2. CASE tick' = [next EXCEPT !.errors = errors, !.stopped = stopped, !.probed = asked]
      BY <1>3, <3>1, <3>2
    <3>3. CASE tick' = [next EXCEPT !.errors = errors, !.probed = asked]
      BY <1>3, <3>1, <3>3
    <3>. QED
      BY <2>7, <3>1, <3>2, <3>3
  <2>. QED
    BY <2>4, <2>5, <2>6, <2>8 DEF Looked
<1>. QED
  BY <1>4, <1>5, <1>6

\* What the rest of a list is.
LEMMA RestOfList ==
    ASSUME NEW S, NEW s \in Seq(S), s # <<>>
    PROVE  /\ Head(s) = s[1] /\ Head(s) \in S /\ Len(s) \in Nat \ {0}
           /\ Tail(s) \in Seq(S) /\ Len(Tail(s)) = Len(s) - 1
           /\ \A i \in 1 .. Len(s) - 1 : Tail(s)[i] = s[i + 1]
  OBVIOUS

LEMMA LookedStep ==
    ASSUME SweepInv, NEW a, Looked(a)
    PROVE  SweepInv'
<1>0. tick'.fresh \in Nat /\ tick'.processed \in Nat
  <2>1. tick.fresh \in Nat /\ tick.processed \in Nat
    BY DEF SweepInv, TickTyped
  <2>2. tick'.fresh = tick.fresh /\ tick'.processed = tick.processed + 1
    BY DEF Looked
  <2>. QED
    BY <2>1, <2>2
<1>1. CASE tick.at = "fresh drain"
  <2>2. tick.at # "idle" /\ tick'.at # "sweep drain"
    BY <1>1 DEF Looked
  <2>3. Pending' \ tick'.seen \subseteq Pending \ tick.seen
    BY DEF Looked
  <2>4. SweepRests
    BY <1>0, <2>2, <2>3 DEF Looked, SweepRests
  <2>. QED
    BY <2>4, RestingSweep
<1>2. CASE tick.at = "sweep drain"
  <2>1. TickTyped' /\ CursorComesBack'
    <3>2. TickTyped'
      BY <1>0 DEF SweepInv, Looked, TickTyped, Place, N
    <3>. QED
      BY <3>2 DEF SweepInv, Looked, CursorComesBack, Place, Distance, N
  <2>2. Pending' \ tick'.seen \subseteq Pending \ tick.seen /\ a \notin Pending' \ tick'.seen
    BY DEF Looked
  <2>3. NobodyPassed'
    BY <2>2 DEF SweepInv, Looked, NobodyPassed, Distance, N
  <2>4. PICK todo \in Seq(Attempts) : todo = tick.todo
    BY <1>2 DEF SweepInv, PageKnows, PageTyped
  <2>5. todo # <<>> /\ a = Head(todo) /\ tick'.todo = Tail(todo)
    BY <2>4 DEF Looked
  <2>6. PICK rest \in Seq(Attempts) : rest = Tail(todo)
    BY <2>4, <2>5, RestOfList
  <2>7. /\ Len(todo) \in Nat \ {0} /\ Len(rest) = Len(todo) - 1
        /\ a = todo[1] /\ a \in Attempts
        /\ \A i \in 1 .. Len(rest) : i + 1 \in 1 .. Len(todo) /\ rest[i] = todo[i + 1] /\ rest[i] \in Attempts
    BY <2>4, <2>5, <2>6, RestOfList
  <2>8. PageTyped
    BY <1>2 DEF SweepInv, PageKnows
  <2>9. /\ tick'.todo = rest /\ tick'.page = tick.page /\ tick'.after = tick.after
        /\ tick'.processed = tick.processed + 1 /\ tick'.last = a /\ tick.processed \in Nat
    BY <2>5, <2>6 DEF Looked, SweepInv, TickTyped
  <2>10. /\ a > tick.after /\ a \in 0 .. N
         /\ \A i \in 1 .. Len(rest) : rest[i] > tick.after /\ rest[i] > a
         /\ \A i, j \in 1 .. Len(rest) : i < j => rest[i] < rest[j]
    <3>1. /\ \A i \in 1 .. Len(todo) : todo[i] > tick.after
          /\ \A i, j \in 1 .. Len(todo) : i < j => todo[i] < todo[j]
      BY <2>4, <2>8 DEF PageTyped
    <3>2. a > tick.after /\ a \in 0 .. N
      BY <2>7, <3>1, Ids
    <3>3. ASSUME NEW i \in 1 .. Len(rest)
          PROVE  rest[i] > tick.after /\ rest[i] > a
      <4>1. 1 \in 1 .. Len(todo) /\ i + 1 \in 1 .. Len(todo) /\ 1 < i + 1
        BY <2>7
      <4>2. todo[1] < todo[i + 1]
        BY <3>1, <4>1
      <4>3. rest[i] \in Int /\ a \in Int
        BY <2>7, Ids
      <4>. QED
        BY <2>7, <3>1, <4>1, <4>2, <4>3
    <3>4. ASSUME NEW i \in 1 .. Len(rest), NEW j \in 1 .. Len(rest), i < j
          PROVE  rest[i] < rest[j]
      <4>1. i + 1 \in 1 .. Len(todo) /\ j + 1 \in 1 .. Len(todo) /\ i + 1 < j + 1
        BY <2>7, <3>4
      <4>. QED
        BY <2>7, <3>1, <4>1
    <3>. QED
      BY <3>2, <3>3, <3>4
  <2>11. tick.processed + 1 + Len(rest) <= tick.page /\ tick.page \in Nat
    BY <2>4, <2>7, <2>8, <2>9 DEF PageTyped
  <2>12. PageTyped'
    BY <2>6, <2>7, <2>9, <2>10, <2>11 DEF PageTyped, N
  <2>13. ASSUME NEW b \in Pending' \ tick'.seen, b > tick'.after
         PROVE  Listed(b)' \/ Beyond(b)'
    <3>1. b \in Pending \ tick.seen /\ b # a /\ b > tick.after /\ b \in Int
      BY <2>2, <2>9, <2>13, Ids DEF Pending
    <3>2. CASE \E i \in 1 .. Len(todo) : todo[i] = b
      <4>1. PICK i \in 1 .. Len(todo) : todo[i] = b
        BY <3>2
      <4>2. i # 1
        BY <2>7, <3>1, <4>1
      <4>3. i - 1 \in 1 .. Len(rest) /\ rest[i - 1] = b
        BY <2>7, <4>1, <4>2
      <4>. QED
        BY <2>9, <4>3 DEF Listed
    <3>3. CASE Beyond(b)
      <4>1. /\ tick.processed + Len(todo) < tick.page
            /\ \A i \in 1 .. Len(todo) : b > todo[i]
        BY <2>4, <3>3 DEF Beyond
      <4>2. tick.processed + 1 + Len(rest) < tick.page
        BY <2>7, <2>9, <2>11, <4>1
      <4>3. b > a
        BY <2>7, <4>1
      <4>4. \A i \in 1 .. Len(rest) : b > rest[i]
        BY <2>7, <4>1
      <4>. QED
        BY <2>9, <4>2, <4>3, <4>4 DEF Beyond
    <3>4. Listed(b) \/ Beyond(b)
      BY <1>2, <3>1 DEF SweepInv, PageKnows
    <3>. QED
      BY <2>4, <3>2, <3>3, <3>4 DEF Listed
  <2>14. PageKnows'
    BY <2>12, <2>13 DEF PageKnows
  <2>. QED
    BY <2>1, <2>3, <2>14 DEF SweepInv
<1>. QED
  BY <1>1, <1>2 DEF Looked

\* What a list is made of, and what the beginning of a list is.
LEMMA ElementOfList ==
    ASSUME NEW S, NEW s \in Seq(S)
    PROVE  Len(s) \in Nat /\ \A i \in 1 .. Len(s) : s[i] \in S
  OBVIOUS

LEMMA WiderList ==
    ASSUME NEW S, NEW T \in SUBSET S, NEW s \in Seq(T)
    PROVE  s \in Seq(S)
<1>1. Len(s) \in Nat /\ s = [i \in 1 .. Len(s) |-> s[i]] /\ \A i \in 1 .. Len(s) : s[i] \in T
  OBVIOUS
<1>2. \A i \in 1 .. Len(s) : s[i] \in S
  BY <1>1
<1>. QED
  BY <1>1, <1>2

LEMMA FirstOfList ==
    ASSUME NEW S, NEW s \in Seq(S), NEW n \in Nat, NEW t, t = FirstOf(s, n)
    PROVE  /\ t \in Seq(S) /\ Len(t) = (IF n < Len(s) THEN n ELSE Len(s))
           /\ \A i \in 1 .. Len(t) : t[i] = s[i]
<1>1. PICK m \in Nat : m = (IF n < Len(s) THEN n ELSE Len(s)) /\ m <= Len(s)
  OBVIOUS
<1>2. t = SubSeq(s, 1, m)
  BY <1>1 DEF FirstOf
<1>. QED
  BY <1>1, <1>2

\* A new page lists the attempts that follow the position, and has read one row more
\* if there are more of them.
LEMMA ReadSweepStep == SweepInv /\ ReadSweep => SweepInv'
<1>. SUFFICES ASSUME SweepInv, ReadSweep PROVE SweepInv'
  OBVIOUS
<1>1. /\ DOMAIN tick = DOMAIN NoTick /\ tick.fresh \in Nat /\ tick.swept \in Nat
      /\ tick.after \in 0 .. N
  BY DEF SweepInv, TickTyped
<1>2. UNCHANGED <<att, cursor, missed>> /\ tick.at = "sweep" /\ tick.fresh + tick.swept < TickAttempts
  BY DEF ReadSweep
<1>. DEFINE rest  == {a \in Pending : a > tick.after}
           left  == TickAttempts - tick.fresh - tick.swept
           limit == IF CandidatePage < left THEN CandidatePage ELSE left
           order == Ordered(rest, LAMBDA b, a : b < a)
           rows  == FirstOf(order, limit + 1)
           todo  == FirstOf(rows, limit)
<1>3. PICK probed : tick' = [tick EXCEPT !.at = "sweep drain", !.page = Len(rows), !.todo = todo,
                                         !.processed = 0, !.last = 0, !.probed = probed]
  BY DEF ReadSweep, Ordered
<1>4. left \in Nat \ {0}
  BY <1>1, <1>2, Ids
<1>5. limit \in Nat \ {0} /\ limit + 1 \in Nat
  <2>. HIDE DEF left
  <2>. QED
    BY <1>4, Ids
<1>6. order = ById(rest)
  <2>. HIDE DEF rest
  <2>. QED
    BY DEF Ordered, ById, RankIn
<1>7. \A a \in rest : a \in Pending /\ a > tick.after
  OBVIOUS
<1>8. \A a \in Pending : a > tick.after => a \in rest
  OBVIOUS
<1>9. rows = FirstOf(order, limit + 1) /\ todo = FirstOf(rows, limit)
  <2>. HIDE DEF order, limit
  <2>. QED
    OBVIOUS
<1>. HIDE DEF rest, left, limit, order, rows, todo
<1>10. rest \in SUBSET Nat /\ rest \in SUBSET Attempts /\ IsFiniteSet(rest)
  BY <1>7, Ids, FS_Subset DEF Pending
<1>11. /\ order \in Seq(rest) /\ Len(order) = Cardinality(rest)
       /\ \A i, j \in 1 .. Len(order) : i < j => order[i] < order[j]
       /\ \A a \in rest : \E i \in 1 .. Len(order) : order[i] = a
  BY <1>6, <1>10, OrderedById
<1>12. /\ rows \in Seq(rest) /\ Len(rows) = (IF limit + 1 < Len(order) THEN limit + 1 ELSE Len(order))
       /\ \A i \in 1 .. Len(rows) : rows[i] = order[i]
  BY <1>5, <1>9, <1>11, FirstOfList
<1>13. /\ todo \in Seq(rest) /\ Len(todo) = (IF limit < Len(rows) THEN limit ELSE Len(rows))
       /\ \A i \in 1 .. Len(todo) : todo[i] = rows[i]
  BY <1>5, <1>9, <1>12, FirstOfList
<1>14. /\ DOMAIN tick' = DOMAIN NoTick /\ tick'.at = "sweep drain" /\ tick'.seen = tick.seen
       /\ tick'.after = tick.after /\ tick'.start = tick.start /\ tick'.swept = tick.swept
       /\ tick'.fresh = tick.fresh /\ tick'.processed = 0 /\ tick'.last = 0
       /\ tick'.page = Len(rows) /\ tick'.todo = todo
  BY <1>1, <1>3, TickFields
<1>15. TickTyped' /\ CursorComesBack'
  <2>0. tick.fresh \in Nat /\ 0 \in Nat
    BY <1>1
  <2>x. tick'.fresh = tick.fresh /\ tick'.processed = 0
    BY <1>14
  <2>1. tick'.fresh \in Nat /\ tick'.processed \in Nat
    BY <2>0, <2>x
  <2>2. tick.at # "idle"
    BY <1>2
  <2>3. TickTyped'
    BY <1>2, <1>14, <2>1, <2>2 DEF SweepInv, TickTyped, Place, N
  <2>. QED
    BY <1>2, <2>3 DEF SweepInv, CursorComesBack, Place, Distance, N
<1>16. NobodyPassed'
  BY <1>2, <1>14 DEF SweepInv, NobodyPassed, Pending, Distance, N
<1>17. /\ Len(todo) \in Nat /\ Len(rows) \in Nat /\ Len(order) \in Nat
       /\ Len(todo) <= Len(rows) /\ Len(rows) <= Len(order)
       /\ \A i \in 1 .. Len(todo) : i \in 1 .. Len(order) /\ todo[i] = order[i] /\ todo[i] \in rest
  <2>1. Len(todo) \in Nat /\ Len(rows) \in Nat /\ Len(order) \in Nat
    BY <1>11, <1>12, <1>13, ElementOfList
  <2>2. Len(todo) <= Len(rows) /\ Len(rows) <= Len(order)
    BY <1>5, <1>12, <1>13, <2>1
  <2>3. ASSUME NEW i \in 1 .. Len(todo)
        PROVE  i \in 1 .. Len(order) /\ todo[i] = order[i] /\ todo[i] \in rest
    <3>1. i \in 1 .. Len(rows) /\ i \in 1 .. Len(order)
      BY <2>1, <2>2
    <3>. QED
      BY <1>12, <1>13, <3>1, ElementOfList
  <2>. QED
    BY <2>1, <2>2, <2>3
<1>18. todo \in Seq(Attempts)
  BY <1>10, <1>13, WiderList
<1>19. PageTyped'
  <2>1. ASSUME NEW i \in 1 .. Len(todo)
        PROVE  todo[i] > tick.after /\ todo[i] > 0
    <3>1. PICK x \in rest : x = todo[i]
      BY <1>17
    <3>2. x > tick.after /\ x \in Attempts
      BY <1>7, <1>10
    <3>. QED
      BY <3>1, <3>2, Ids
  <2>2. ASSUME NEW i \in 1 .. Len(todo), NEW j \in 1 .. Len(todo), i < j
        PROVE  todo[i] < todo[j]
    BY <1>11, <1>17, <2>2
  <2>3. 0 \in 0 .. N /\ 0 + Len(todo) <= Len(rows)
    BY <1>17, Ids
  <2>4. todo[1] = todo[1] /\ ~(0 > 0)
    OBVIOUS
  <2>. QED
    BY <1>14, <1>17, <1>18, <2>1, <2>2, <2>3, <2>4 DEF PageTyped, N
<1>20. ASSUME NEW a \in Pending' \ tick'.seen, a > tick'.after
       PROVE  Listed(a)' \/ Beyond(a)'
  <2>1. a \in Pending /\ a > tick.after
    BY <1>2, <1>14, <1>20 DEF Pending
  <2>a. a \in rest /\ a \in Attempts
    BY <1>8, <2>1 DEF Pending
  <2>b. a \in Nat \ {0}
    BY <2>a, Ids
  <2>2. PICK k \in 1 .. Len(order) : order[k] = a
    BY <1>11, <2>a
  <2>3. CASE k \in 1 .. Len(todo)
    BY <1>14, <1>17, <2>2, <2>3 DEF Listed
  <2>4. CASE k \notin 1 .. Len(todo)
    <3>1. Len(todo) < k /\ Len(todo) < Len(rows)
      BY <1>5, <1>12, <1>13, <1>17, <2>2, <2>4
    <3>2. ASSUME NEW i \in 1 .. Len(todo)
          PROVE  a > todo[i]
      <4>1. i < k /\ i \in 1 .. Len(order)
        BY <1>17, <3>1
      <4>2. order[i] < order[k] /\ todo[i] \in Nat
        BY <1>10, <1>11, <1>17, <4>1
      <4>. QED
        BY <1>17, <2>b, <2>2, <4>2
    <3>3. 0 + Len(todo) < Len(rows) /\ a > 0
      BY <1>17, <2>b, <3>1
    <3>. QED
      BY <1>14, <3>2, <3>3 DEF Beyond
  <2>. QED
    BY <2>3, <2>4
<1>21. PageKnows'
  BY <1>19, <1>20 DEF PageKnows
<1>. QED
  BY <1>15, <1>16, <1>21 DEF SweepInv

\* The end of a page: the sweep has come nearer to all attempts it has not seen.
LEMMA SweepDrainedStep == SweepInv /\ SweepDrained => SweepInv'
<1>. SUFFICES ASSUME SweepInv, SweepDrained PROVE SweepInv'
  OBVIOUS
<1>1. /\ DOMAIN tick = DOMAIN NoTick /\ tick.swept \in Nat /\ tick.processed \in Nat
      /\ tick.after \in 0 .. N /\ tick.start \in 0 .. N
  BY DEF SweepInv, TickTyped
<1>2. UNCHANGED <<att, cursor, missed>> /\ tick.at = "sweep drain"
  BY DEF SweepDrained
<1>3. PageTyped /\ \A a \in Pending \ tick.seen : a > tick.after => Listed(a) \/ Beyond(a)
  BY <1>2 DEF SweepInv, PageKnows
<1>4. PICK stage \in {"sweep", "update"} :
          tick' = [tick EXCEPT !.at = stage, !.after = NextCursor(tick),
                               !.swept = tick.swept + tick.processed,
                               !.page = 0, !.todo = <<>>, !.processed = 0, !.last = 0]
  BY DEF SweepDrained
<1>5. /\ DOMAIN tick' = DOMAIN NoTick /\ tick'.at = stage /\ tick'.seen = tick.seen
      /\ tick'.after = NextCursor(tick) /\ tick'.start = tick.start
      /\ tick'.swept = tick.swept + tick.processed
      /\ tick'.fresh = tick.fresh /\ tick'.processed = 0
  BY <1>1, <1>4, TickFields
<1>6. NextCursor(tick) \in 0 .. N
  BY <1>1, <1>3, Ids DEF NextCursor, PageTyped
<1>7. tick'.swept \in Nat /\ tick'.processed \in Nat /\ tick.at # "idle"
  <2>1. tick'.swept = tick.swept + tick.processed /\ tick'.processed = 0
    BY <1>5
  <2>2. tick.swept \in Nat /\ tick.processed \in Nat
    BY <1>1
  <2>3. tick.swept + tick.processed \in Nat
    BY <2>2
  <2>4. tick.at # "idle"
    BY <1>2
  <2>. QED
    BY <2>1, <2>3, <2>4
<1>8. TickTyped'
  <2>a. tick.fresh \in Nat /\ tick.start = Place(cursor)
    <3>1. TickTyped /\ tick.at # "idle"
      BY <1>7 DEF SweepInv
    <3>. QED
      BY <3>1 DEF TickTyped
  <2>b. tick'.fresh = tick.fresh /\ tick'.start = tick.start
    BY <1>5
  <2>1. tick'.fresh \in Nat /\ tick'.start = Place(cursor)
    BY <2>a, <2>b
  <2>2. tick'.start = Place(cursor')
    BY <1>2, <2>1
  <2>3. /\ cursor' \in {Garbled} \cup (0 .. N) /\ missed' \in [Attempts -> Nat]
        /\ DOMAIN att' = Attempts
    BY <1>2 DEF SweepInv, TickTyped
  <2>. QED
    BY <1>1, <1>5, <1>6, <1>7, <2>1, <2>2, <2>3 DEF TickTyped, Place, N
<1>9. CursorComesBack'
  BY <1>2 DEF SweepInv, CursorComesBack, Place, Distance, N
<1>10. ASSUME NEW a \in Pending \ tick.seen
       PROVE  /\ Distance(NextCursor(tick), a) <= Distance(tick.after, a)
              /\ tick.processed > 0 => Distance(NextCursor(tick), a) < Distance(tick.after, a)
  <2>1. a \in Attempts /\ a \in Int
    BY Ids DEF Pending
  <2>2. Len(tick.todo) \in Nat /\ tick.page \in Nat /\ tick.last \in 0 .. N
    BY <1>3 DEF PageTyped
  <2>3. a > tick.after => a > tick.last
    BY <1>3, <2>1 DEF PageTyped, Listed, Beyond
  <2>4. tick.processed = 0 => tick.last = 0
    BY <1>3 DEF PageTyped
  <2>5. tick.processed > 0 => tick.last > tick.after
    BY <1>3 DEF PageTyped
  <2>6. /\ Distance(tick.after, a) \in 0 .. N - 1
        /\ \A d \in 0 .. N : tick.after < d /\ (a > d \/ ~(a > tick.after))
                               => Distance(d, a) < Distance(tick.after, a)
        /\ ~(a > tick.after) => Distance(0, a) <= Distance(tick.after, a)
        /\ ~(a > tick.after) /\ tick.after < N => Distance(0, a) < Distance(tick.after, a)
    BY <1>1, <2>1, DistanceShrinks
  <2>7. Distance(tick.last, a) \in 0 .. N - 1 /\ Distance(0, a) \in 0 .. N - 1
    BY <2>1, <2>2, Ids, DistanceShrinks
  <2>8. CASE tick.processed < tick.page /\ tick.last = 0
    <3>1. NextCursor(tick) = tick.after /\ ~(tick.processed > 0)
      BY <1>1, <2>5, <2>8 DEF NextCursor
    <3>. QED
      BY <2>6, <3>1
  <2>9. CASE tick.processed < tick.page /\ tick.last # 0
    <3>1. NextCursor(tick) = tick.last /\ tick.last > tick.after
      BY <1>1, <2>4, <2>5, <2>9 DEF NextCursor
    <3>2. Distance(tick.last, a) < Distance(tick.after, a)
      BY <1>1, <2>1, <2>2, <2>3, <2>6, <3>1
    <3>. QED
      BY <2>6, <2>7, <3>1, <3>2
  <2>10. CASE ~(tick.processed < tick.page)
    <3>1. NextCursor(tick) = 0
      BY <2>10 DEF NextCursor
    <3>2. Len(tick.todo) = 0 /\ ~(tick.processed + Len(tick.todo) < tick.page)
      BY <1>1, <1>3, <2>2, <2>10 DEF PageTyped
    <3>3. ~Listed(a) /\ ~Beyond(a)
      BY <3>2 DEF Listed, Beyond
    <3>4. ~(a > tick.after)
      BY <1>3, <3>3
    <3>5. tick.processed > 0 => tick.after < N
      BY <1>1, <2>2, <2>5, Ids
    <3>. QED
      BY <2>6, <3>1, <3>4, <3>5
  <2>. QED
    BY <2>8, <2>9, <2>10
<1>11. NobodyPassed'
  <2>1. ASSUME NEW a \in Pending \ tick.seen
        PROVE  /\ Distance(NextCursor(tick), a) <= Distance(tick.start, a)
               /\ tick.swept + tick.processed > 0
                    => Distance(NextCursor(tick), a) < Distance(tick.start, a)
    <3>1. a \in Attempts
      BY DEF Pending
    <3>2. /\ Distance(NextCursor(tick), a) \in Int
          /\ Distance(tick.after, a) \in Int /\ Distance(tick.start, a) \in Int
      BY <1>1, <1>6, <3>1, Ids, DistanceShrinks
    <3>3. /\ Distance(tick.after, a) <= Distance(tick.start, a)
          /\ tick.swept > 0 => Distance(tick.after, a) < Distance(tick.start, a)
      BY DEF SweepInv, NobodyPassed
    <3>. QED
      BY <1>1, <1>10, <3>2, <3>3
  <2>2. Pending' = Pending
    BY <1>2 DEF Pending
  <2>. QED
    BY <1>5, <2>1, <2>2 DEF NobodyPassed, Distance, N
<1>12. PageKnows'
  BY <1>5 DEF PageKnows
<1>. QED
  BY <1>8, <1>9, <1>11, <1>12 DEF SweepInv

\* The end of a tick: a cursor that is kept has come nearer to every attempt that the
\* tick has passed over.
LEMMA UpdateStep == SweepInv /\ Update => SweepInv'
<1>. SUFFICES ASSUME SweepInv, Update PROVE SweepInv'
  OBVIOUS
<1>1. /\ tick.after \in 0 .. N /\ tick.start \in 0 .. N /\ cursor \in {Garbled} \cup (0 .. N)
      /\ missed \in [Attempts -> Nat] /\ tick.swept \in Nat
  BY DEF SweepInv, TickTyped
<1>2. tick.start = Place(cursor)
  BY DEF Update, SweepInv, TickTyped
<1>3. UNCHANGED att /\ tick' = NoTick
  BY DEF Update
<1>4. cursor' = IF ~tick.lost /\ (tick.ok \/ tick.after # tick.start) THEN tick.after ELSE cursor
  BY DEF Update
<1>5. missed' = [a \in Attempts |->
                   IF a \in tick.seen \/ a \notin Pending THEN 0
                   ELSE IF tick.lost \/ ~tick.ok \/ tick.swept = 0 THEN missed[a]
                   ELSE missed[a] + 1]
  BY DEF Update
<1>6. missed' \in [Attempts -> Nat]
  BY <1>1, <1>5
<1>7. cursor' \in {Garbled} \cup (0 .. N)
  BY <1>1, <1>4
<1>8. Place(tick.after) = tick.after
  BY <1>1, Ids DEF Place, Garbled
<1>9. ASSUME NEW a \in Attempts
      PROVE  missed'[a] + Distance(Place(cursor'), a) < N
  <2>1. PICK d \in 0 .. N - 1 : d = Distance(tick.start, a)
    BY <1>1, DistanceShrinks
  <2>2. PICK e \in 0 .. N - 1 : e = Distance(tick.after, a)
    BY <1>1, DistanceShrinks
  <2>3. missed[a] \in Nat /\ missed[a] + d < N
    BY <1>1, <1>2, <2>1 DEF SweepInv, CursorComesBack
  <2>4. Distance(Place(cursor'), a) = (IF ~tick.lost /\ (tick.ok \/ tick.after # tick.start)
                                       THEN e ELSE d)
    BY <1>2, <1>4, <1>8, <2>1, <2>2
  <2>5. CASE a \in tick.seen \/ a \notin Pending
    <3>1. missed'[a] = 0
      BY <1>5, <2>5
    <3>. QED
      BY <2>1, <2>2, <2>4, <3>1, Ids
  <2>6. CASE a \notin tick.seen /\ a \in Pending
    <3>1. e <= d /\ (tick.swept > 0 => e < d)
      BY <2>1, <2>2, <2>6 DEF SweepInv, NobodyPassed
    <3>2. CASE tick.lost \/ ~tick.ok \/ tick.swept = 0
      <4>1. missed'[a] = missed[a]
        BY <1>5, <2>6, <3>2
      <4>. QED
        BY <2>1, <2>2, <2>3, <2>4, <3>1, <4>1, Ids
    <3>3. CASE ~tick.lost /\ tick.ok /\ tick.swept # 0
      <4>1. missed'[a] = missed[a] + 1
        BY <1>5, <2>6, <3>3
      <4>2. Distance(Place(cursor'), a) = e /\ e < d
        BY <1>1, <2>4, <3>1, <3>3
      <4>. QED
        BY <2>1, <2>2, <2>3, <4>1, <4>2, Ids
    <3>. QED
      BY <3>2, <3>3
  <2>. QED
    BY <2>5, <2>6
<1>10. CursorComesBack'
  BY <1>9 DEF CursorComesBack, Place, Distance, N
<1>11. /\ DOMAIN tick' = DOMAIN NoTick /\ tick'.swept = 0 /\ tick'.fresh = 0 /\ tick'.processed = 0
       /\ tick'.after = 0 /\ tick'.start = 0 /\ tick'.at = "idle"
  BY <1>3 DEF NoTick
<1>12. 0 \in 0 .. N
  BY Ids
<1>. QED
  BY <1>3, <1>6, <1>7, <1>10, <1>11, <1>12, FreshTick

LEMMA SweepInit == TickInit => SweepInv
<1>. SUFFICES ASSUME TickInit PROVE SweepInv
  OBVIOUS
<1>1. /\ DOMAIN tick = DOMAIN NoTick /\ tick.swept = 0 /\ tick.fresh = 0 /\ tick.processed = 0
      /\ tick.after = 0 /\ tick.start = 0 /\ tick.at = "idle"
  BY DEF TickInit, NoTick
<1>2. TickTyped
  BY <1>1, Ids DEF TickInit, TickTyped
<1>3. NobodyPassed
  <2>1. \A a \in Attempts : Distance(0, a) \in Int
    BY Ids, DistanceShrinks
  <2>. QED
    BY <1>1, <2>1 DEF NobodyPassed, Pending
<1>4. PageKnows
  BY <1>1 DEF PageKnows
<1>5. CursorComesBack
  <2>1. \A a \in Attempts : Distance(0, a) \in 0 .. N - 1 /\ missed[a] = 0
    BY Ids, DistanceShrinks DEF TickInit
  <2>2. Place(cursor) = 0
    BY DEF TickInit, Place
  <2>. QED
    BY <2>1, <2>2, Ids DEF CursorComesBack
<1>. QED
  BY <1>2, <1>3, <1>4, <1>5 DEF SweepInv

\* Every step of an evaluation and around it keeps the invariant.
LEMMA SweepStep ==
    ASSUME SweepInv, TickStep \/ TickSurroundings \/ UNCHANGED tickVars
    PROVE  SweepInv'
<1>1. CASE TickStep
  <2>1. CASE Retire \/ ReadFresh \/ FreshDrained \/ FreshEnds \/ SweepEnds
    BY <2>1, RetireRests, ReadFreshRests, FreshDrainedRests, FreshEndsRests, SweepEndsRests, RestingSweep
  <2>2. CASE PassSeen \/ Process
    BY <2>2, DrainLooks, LookedStep
  <2>3. CASE Begin \/ ReadSweep \/ SweepDrained \/ Update
    BY <2>3, BeginStep, ReadSweepStep, SweepDrainedStep, UpdateStep
  <2>. QED
    BY <1>1, <2>1, <2>2, <2>3 DEF TickStep
<1>2. CASE TickSurroundings
  <2>1. CASE \/ \E r \in Runs : \E s \in {"success", "failed"} : RunEnds(r, s)
             \/ \E r \in Runs : \E s \in {"SUCCESS", "FAILURE"} : DagsterEnds(r, s)
             \/ \E a \in Attempts : Supersede(a)
             \/ RetireIntervalPasses
    <3>1. UNCHANGED <<tick, cursor, missed>> /\ UNCHANGED att
      BY <2>1 DEF RunEnds, DagsterEnds, Supersede, RetireIntervalPasses
    <3>. QED
      BY <3>1, QuietStep
  <2>2. CASE \E systemic \in BOOLEAN : ProcessFails(systemic)
    BY <2>2, DrainLooks, LookedStep
  <2>3. CASE Abandon \/ Die
    BY <2>3, AbandonStep, DieStep
  <2>. QED
    BY <1>2, <2>1, <2>2, <2>3 DEF TickSurroundings
<1>3. CASE UNCHANGED tickVars
  BY <1>3, QuietStep DEF tickVars
<1>. QED
  BY <1>1, <1>2, <1>3

\* No candidate is passed over for long: of the ticks that got somewhere and kept
\* their cursor, fewer in a row than there are attempts pass one over, whatever the
\* other candidates do, however few of them a tick reaches and whichever ticks are
\* lost (publish_pending_exports, _drain, the sensor's cursor).
THEOREM NobodyIsForgotten == Spec => []EveryCandidateConsidered
<1>1. Init => SweepInv
  BY SweepInit DEF Init
<1>2. SweepInv /\ [Next]_vars => SweepInv'
  <2>. SUFFICES ASSUME SweepInv, [Next]_vars PROVE SweepInv'
    OBVIOUS
  <2>1. TickStep \/ TickSurroundings \/ UNCHANGED tickVars
    BY DEF Next, vars
  <2>. QED
    BY <2>1, SweepStep
<1>3. SweepInv => EveryCandidateConsidered
  <2>. SUFFICES ASSUME SweepInv, NEW a \in Attempts PROVE missed[a] < N
    BY DEF EveryCandidateConsidered, N
  <2>1. missed[a] \in Nat /\ Place(cursor) \in 0 .. N
    BY Ids DEF SweepInv, TickTyped, Place
  <2>2. Distance(Place(cursor), a) \in 0 .. N - 1
    BY <2>1, DistanceShrinks
  <2>3. missed[a] + Distance(Place(cursor), a) < N
    BY DEF SweepInv, CursorComesBack
  <2>. QED
    BY <2>1, <2>2, <2>3, Ids
<1>. QED
  BY <1>1, <1>2, <1>3, PTL DEF Spec

=============================================================================
