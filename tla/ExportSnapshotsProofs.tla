------------------------ MODULE ExportSnapshotsProofs ------------------------
(***************************************************************************)
(* Proofs about ExportSnapshots, for any number of attempts, readers,      *)
(* aggregations, snapshots and files.                                      *)
(***************************************************************************)
EXTENDS ExportSnapshots, WellFoundedInduction, TLAPS

-----------------------------------------------------------------------------
(***************************************************************************)
(* Sequences of rows.                                                      *)
(***************************************************************************)

LEMMA AppendRow ==
    ASSUME NEW S, NEW s \in Seq(S), NEW x \in S
    PROVE  /\ Append(s, x) \in Seq(S) /\ Len(Append(s, x)) = Len(s) + 1
           /\ \A i \in 1 .. Len(s) : Append(s, x)[i] = s[i]
           /\ Append(s, x)[Len(s) + 1] = x
  OBVIOUS

LEMMA SeqElement ==
    ASSUME NEW S, NEW s \in Seq(S)
    PROVE  Len(s) \in Nat /\ \A i \in 1 .. Len(s) : s[i] \in S
  OBVIOUS

\* Rows that are updated in place.
LEMMA UpdateRows ==
    ASSUME NEW S, NEW s \in Seq(S), NEW t, t = [i \in 1 .. Len(s) |-> t[i]],
           \A i \in 1 .. Len(s) : t[i] \in S
    PROVE  t \in Seq(S) /\ Len(t) = Len(s)
<1>1. Len(s) \in Nat
  OBVIOUS
<1>2. t \in [1 .. Len(s) -> S]
  OBVIOUS
<1>3. t \in Seq(S)
  BY <1>1, <1>2
<1>. QED
  BY <1>1, <1>2, <1>3

-----------------------------------------------------------------------------
(***************************************************************************)
(* The newest row.                                                         *)
(***************************************************************************)

NatLess == {mn \in Nat \X Nat : mn[1] < mn[2]}

LEMMA LeastNat ==
    ASSUME NEW T \in SUBSET Nat, T # {}
    PROVE  \E n \in T : \A m \in T : n <= m
<1>1. IsWellFoundedOn(NatLess, Nat)
  BY NatLessThanWellFounded DEF OpToRel, NatLess
<1>2. PICK n \in T : \A m \in T : <<m, n>> \notin NatLess
  BY <1>1, WFMin
<1>3. \A m, k \in Nat : m < k => <<m, k>> \in NatLess
  BY DEF NatLess
<1>4. \A m \in T : ~(m < n)
  BY <1>2, <1>3
<1>. QED
  BY <1>4

\* The newest row is a row.
LEMMA LastHandleRow ==
    ASSUME TypeOK
    PROVE  /\ LastHandle \in 0 .. Len(handles)
           /\ LastHandle # 0 => LastHandle \in 1 .. Len(handles) /\ handles[LastHandle] \in HandleRow
<1>. DEFINE n == Len(handles)
<1>0. n \in Nat /\ \A i \in 1 .. n : handles[i] \in HandleRow
  BY SeqElement DEF TypeOK
<1>1. CASE Alive = {}
  BY <1>0, <1>1 DEF LastHandle
<1>2. CASE Alive # {}
  <2>. DEFINE T == {n - h : h \in Alive}
  <2>1. Alive \subseteq 1 .. n
    BY DEF Alive
  <2>2. T \in SUBSET Nat /\ T # {}
    <3>1. \A h \in Alive : n - h \in Nat
      <4>. HIDE DEF n
      <4>. QED  BY <1>0, <2>1
    <3>2. PICK h \in Alive : TRUE
      BY <1>2
    <3>. HIDE DEF n
    <3>. QED
      BY <3>1, <3>2
  <2>3. PICK m \in T : \A k \in T : m <= k
    BY <2>2, LeastNat
  <2>4. PICK h \in Alive : m = n - h
    BY <2>3
  <2>5. \A i \in Alive : n - h <= n - i
    BY <2>3, <2>4
  <2>6. \A i \in Alive : i <= h
    BY <1>0, <2>1, <2>5
  <2>7. LastHandle \in Alive
    BY <1>2, <2>6 DEF LastHandle
  <2>. QED
    BY <1>0, <2>1, <2>7
<1>. QED
  BY <1>1, <1>2

-----------------------------------------------------------------------------
(***************************************************************************)
(* The inductive invariant.                                                *)
(***************************************************************************)

\* A request that has looked at the files of its snapshot.
Looked == {"renew", "page", "read"}

\* The requests know rows that were issued.
HandlesKnown ==
    \A r \in Readers :
        /\ reader[r].last <= Len(handles)
        /\ reader[r].pc \in {"check"} \cup Looked => reader[r].handle \in 1 .. Len(handles)

\* An aggregation never takes the checkpoint back.
BatchesGoOn == \A w \in DailyWorkers : daily[w].after <= daily[w].upto

\* The request r relies on its snapshot in the eyes of somebody for whom it is t.
Relies(r, t) ==
    /\ reader[r].pc \in Looked
    /\ handles[reader[r].handle].alive
    /\ handles[reader[r].handle].expires + Retention > t

\* The collection began in the past, and what it is about to unlink it did not find
\* referenced.
VictimIsGarbage ==
    /\ gc.clock <= now
    /\ gc.pc # "unlink" => gc.victim = {}
    /\ gc.victim \cap gc.live = {}

\* While the collector holds the guard, its live set has the files of the heads, of
\* the generations that are still to be aggregated, and of the snapshots that
\* somebody has looked at.
GuardKnows ==
    gc.pc \in {"recheck", "unlink"} =>
        /\ FilesOfAll(Generations(ptr)) \subseteq gc.live
        /\ FilesOfAll(Unread) \subseteq gc.live
        /\ \A r \in Readers : Relies(r, gc.clock) => HandleFiles(reader[r].handle) \subseteq gc.live

FilesInv ==
    /\ TypeOK
    /\ HandlesKnown
    /\ BatchesGoOn
    /\ VictimIsGarbage
    /\ GuardKnows
    /\ HeadFilesPresent
    /\ UnreadFilesPresent
    /\ VerifiedFilesPresent

LEMMA Typing ==
    ASSUME TypeOK
    PROVE  /\ now \in Nat /\ stops \in Nat /\ checkpoint \in Nat
           /\ Len(handles) \in Nat /\ \A h \in 1 .. Len(handles) : handles[h] \in HandleRow
           /\ Len(gens) \in Nat /\ \A i \in 1 .. Len(gens) : gens[i] \in Attempts
           /\ \A r \in Readers : reader[r] \in Reader
           /\ \A w \in DailyWorkers : daily[w] \in DailyWorker
           /\ \A a \in Attempts : att[a] \in AttemptRow
           /\ gc \in Collector
  BY SeqElement DEF TypeOK

LEMMA FilesOfAllGrows ==
    ASSUME NEW G, NEW H, G \subseteq H
    PROVE  FilesOfAll(G) \subseteq FilesOfAll(H)
  BY DEF FilesOfAll

LEMMA InitInv == Init => FilesInv
<1>. SUFFICES ASSUME Init PROVE FilesInv
  OBVIOUS
<1>1. TypeOK
  <2>1. NoVector \in Vector
    BY DEF NoVector, Vector
  <2>2. IdleReader \in Reader
    BY <2>1 DEF IdleReader, Reader
  <2>3. IdleDaily \in DailyWorker /\ IdleCollector \in Collector
    BY DEF IdleDaily, DailyWorker, IdleCollector, Collector
  <2>4. att \in [Attempts -> AttemptRow]
    BY DEF Init, AttemptRow
  <2>. QED
    BY <2>1, <2>2, <2>3, <2>4 DEF Init, TypeOK
<1>2. Generations(ptr) = {} /\ Unread = {}
  BY DEF Init, Generations, NoVector, Unread
<1>3. HandlesKnown /\ VerifiedFilesPresent
  BY DEF Init, HandlesKnown, VerifiedFilesPresent, IdleReader, Looked
<1>4. BatchesGoOn
  BY DEF Init, BatchesGoOn, IdleDaily
<1>5. VictimIsGarbage /\ GuardKnows
  BY DEF Init, VictimIsGarbage, GuardKnows, IdleCollector
<1>6. HeadFilesPresent /\ UnreadFilesPresent
  BY <1>2 DEF HeadFilesPresent, UnreadFilesPresent, Present, FilesOfAll
<1>. QED
  BY <1>1, <1>3, <1>4, <1>5, <1>6 DEF FilesInv

-----------------------------------------------------------------------------
(***************************************************************************)
(* The readers and the pruning of their snapshots.                         *)
(***************************************************************************)

\* Rows are only added; what is there keeps its vector, comes back never, and is
\* renewed only while it is valid.
Extended ==
    /\ handles' \in Seq(HandleRow)
    /\ Len(handles) <= Len(handles')
    /\ \A h \in 1 .. Len(handles) :
          /\ handles'[h].vector = handles[h].vector
          /\ handles'[h].alive => handles[h].alive
          /\ handles'[h].expires = handles[h].expires \/ handles[h].expires > now

\* A request goes on as s.
Continues(r, s) ==
    /\ reader' = [reader EXCEPT ![r] = s]
    /\ s \in Reader
    /\ s.last <= Len(handles')
    /\ s.pc \in {"check"} \cup Looked => s.handle \in 1 .. Len(handles')
    /\ s.pc \in Looked =>
          /\ s.handle = reader[r].handle
          /\ \/ reader[r].pc \in Looked
             \/ reader[r].pc = "check" /\ GuardFree /\ Present(HandleFiles(reader[r].handle))

\* The same of all requests, whoever made the step.
ReadersGoOn ==
    /\ reader' \in [Readers -> Reader]
    /\ \A q \in Readers :
          /\ reader'[q].last <= Len(handles')
          /\ reader'[q].pc \in {"check"} \cup Looked => reader'[q].handle \in 1 .. Len(handles')
          /\ reader'[q].pc \in Looked =>
                /\ reader'[q].handle = reader[q].handle
                /\ \/ reader[q].pc \in Looked
                   \/ reader[q].pc = "check" /\ GuardFree /\ Present(HandleFiles(reader[q].handle))

OthersKept ==
    UNCHANGED <<now, att, file, ptr, gens, roster, checkpoint, daily, gc, stops>>

LEMMA SameExtended ==
    ASSUME TypeOK, UNCHANGED handles
    PROVE  Extended
  BY Typing DEF Extended, TypeOK

LEMMA RowTyped ==
    ASSUME TypeOK, NEW v \in Vector, NEW l \in BOOLEAN
    PROVE  Row(v, l) \in HandleRow
  BY SnapshotsAssumption, Typing DEF Row, HandleRow

LEMMA IdleReaderTyped == IdleReader \in Reader /\ IdleReader.pc = "idle" /\ IdleReader.last = 0
  BY DEF IdleReader, Reader, NoVector, Vector

\* A new row at the end.
LEMMA AppendExtended ==
    ASSUME TypeOK, NEW x \in HandleRow, handles' = Append(handles, x)
    PROVE  Extended /\ Len(handles') = Len(handles) + 1
<1>1. Len(handles) \in Nat
  BY Typing
<1>2. handles \in Seq(HandleRow)
  BY DEF TypeOK
<1>3. /\ handles' \in Seq(HandleRow) /\ Len(handles') = Len(handles) + 1
      /\ \A i \in 1 .. Len(handles) : handles'[i] = handles[i]
  BY <1>2, AppendRow
<1>. QED
  BY <1>1, <1>3 DEF Extended

\* What Issued makes of a request.
LEMMA IssuedContinues ==
    ASSUME TypeOK, NEW r \in Readers, NEW h \in 1 .. Len(handles'), NEW b \in BOOLEAN,
           Len(handles') \in Nat, Issued(r, h, b)
    PROVE  \E s : Continues(r, s)
<1>1. reader[r] \in Reader
  BY Typing
<1>2. CASE reader[r].issues = 2
  <2>1. reader' = [reader EXCEPT ![r] = IdleReader]
    BY <1>2 DEF Issued
  <2>2. Continues(r, IdleReader)
    BY <2>1, IdleReaderTyped DEF Continues, Looked
  <2>. QED
    BY <2>2
<1>3. CASE reader[r].issues # 2
  <2>. DEFINE s == [IdleReader EXCEPT !.pc = "check", !.handle = h, !.reused = b,
                                      !.issues = reader[r].issues + 1]
  <2>1. reader' = [reader EXCEPT ![r] = s]
    BY <1>3 DEF Issued
  <2>2. s \in Reader
    <3>1. h \in Nat /\ reader[r].issues + 1 \in Nat
      BY <1>1 DEF Reader
    <3>. QED
      BY <3>1, IdleReaderTyped DEF Reader
  <2>3. s.pc = "check" /\ s.handle = h /\ s.last = 0
    BY IdleReaderTyped DEF IdleReader
  <2>. HIDE DEF s
  <2>4. Continues(r, s)
    BY <2>1, <2>2, <2>3 DEF Continues, Looked
  <2>. QED
    BY <2>4
<1>. QED
  BY <1>2, <1>3

\* A request that only changes its own state.
LEMMA OwnStep ==
    ASSUME TypeOK, NEW r \in Readers, NEW s \in Reader, UNCHANGED handles, OthersKept,
           reader' = [reader EXCEPT ![r] = s],
           s.last <= Len(handles),
           s.pc \in {"check"} \cup Looked => s.handle \in 1 .. Len(handles),
           s.pc \in Looked =>
              /\ s.handle = reader[r].handle
              /\ \/ reader[r].pc \in Looked
                 \/ reader[r].pc = "check" /\ GuardFree /\ Present(HandleFiles(reader[r].handle))
    PROVE  Extended /\ OthersKept /\ \E t : Continues(r, t)
<1>1. Extended
  BY SameExtended
<1>2. Continues(r, s)
  BY DEF Continues
<1>. QED
  BY <1>1, <1>2

LEMMA RequestEffect ==
    ASSUME TypeOK, HandlesKnown, NEW r \in Readers, Request(r) \/ NoPreviousSuccess(r) \/ EndRequest(r)
    PROVE  Extended /\ OthersKept /\ \E t : Continues(r, t)
<1>0. reader[r] \in Reader /\ Len(handles) \in Nat
  BY Typing
<1>1. UNCHANGED handles /\ OthersKept
  BY DEF Request, NoPreviousSuccess, EndRequest, OthersKept
<1>2. CASE Request(r)
  <2>. DEFINE s == [reader[r] EXCEPT !.pc = "issue"]
  <2>1. s \in Reader /\ s.pc = "issue" /\ s.last = reader[r].last
    BY <1>0 DEF Reader
  <2>2. reader' = [reader EXCEPT ![r] = s]
    BY <1>2 DEF Request
  <2>3. s.last <= Len(handles)
    BY <2>1 DEF HandlesKnown
  <2>. HIDE DEF s
  <2>. QED
    BY <1>1, <2>1, <2>2, <2>3, OwnStep DEF Looked
<1>3. CASE NoPreviousSuccess(r) \/ EndRequest(r)
  <2>1. reader' = [reader EXCEPT ![r] = IdleReader]
    BY <1>3 DEF NoPreviousSuccess, EndRequest
  <2>2. PICK s \in Reader : s = IdleReader /\ s.pc = "idle" /\ s.last = 0
    BY IdleReaderTyped
  <2>3. reader' = [reader EXCEPT ![r] = s] /\ s.last <= Len(handles)
    BY <1>0, <2>1, <2>2
  <2>4. s.pc \notin {"check"} \cup Looked
    BY <2>2 DEF Looked
  <2>. QED
    BY <1>1, <2>3, <2>4, OwnStep
<1>. QED
  BY <1>2, <1>3

LEMMA FreezeReadEffect ==
    ASSUME TypeOK, HandlesKnown, NEW r \in Readers, FreezeRead(r)
    PROVE  Extended /\ OthersKept /\ \E t : Continues(r, t)
<1>0. reader[r] \in Reader /\ Len(handles) \in Nat
  BY Typing
<1>1. UNCHANGED handles /\ OthersKept
  BY DEF FreezeRead, OthersKept
<1>. DEFINE view == [p \in Pointers |-> IF p \in roster THEN ptr[p] ELSE None]
            ready == roster # {} /\ \A p \in roster : ptr[p] # None
            until == IF LastHandle = 0 THEN 0 ELSE handles[LastHandle].expires
            s == [reader[r] EXCEPT !.pc = "frozen", !.view = view, !.ready = ready,
                                   !.last = LastHandle, !.until = until]
<1>2. view \in Vector
  BY DEF TypeOK, Vector
<1>3. LastHandle \in Nat /\ LastHandle <= Len(handles) /\ until \in Nat
  BY <1>0, LastHandleRow DEF HandleRow
<1>4. ready \in BOOLEAN
  OBVIOUS
<1>5. reader' = [reader EXCEPT ![r] = s]
  BY DEF FreezeRead
<1>6. s \in Reader /\ s.pc = "frozen" /\ s.last = LastHandle
  <2>. HIDE DEF view, ready, until
  <2>. QED
    BY <1>0, <1>2, <1>3, <1>4 DEF Reader
<1>. HIDE DEF s
<1>. QED
  BY <1>1, <1>3, <1>5, <1>6, OwnStep DEF Looked

LEMMA FreezeCommitEffect ==
    ASSUME TypeOK, HandlesKnown, NEW r \in Readers, FreezeCommit(r)
    PROVE  Extended /\ OthersKept /\ \E t : Continues(r, t)
<1>0. reader[r] \in Reader /\ Len(handles) \in Nat /\ reader[r].last <= Len(handles)
  BY Typing DEF HandlesKnown
<1>1. OthersKept
  BY DEF FreezeCommit, OthersKept
<1>2. CASE Reusable(r)
  <2>1. UNCHANGED handles /\ Issued(r, reader[r].last, TRUE)
    BY <1>2 DEF FreezeCommit
  <2>2. reader[r].last \in 1 .. Len(handles)
    BY <1>0, <1>2 DEF Reusable, Reader
  <2>. QED
    BY <1>0, <1>1, <2>1, <2>2, SameExtended, IssuedContinues
<1>3. CASE ~Reusable(r)
  <2>1. handles' = Append(handles, Row(reader[r].view, FALSE)) /\ Issued(r, Len(handles) + 1, FALSE)
    BY <1>3 DEF FreezeCommit
  <2>2. Row(reader[r].view, FALSE) \in HandleRow
    BY <1>0, RowTyped DEF Reader
  <2>3. Extended /\ Len(handles') = Len(handles) + 1
    BY <2>1, <2>2, AppendExtended
  <2>4. \E t : Continues(r, t)
    <3>1. Len(handles) + 1 \in 1 .. Len(handles') /\ Len(handles') \in Nat
      BY <1>0, <2>3
    <3>. QED
      BY <2>1, <3>1, IssuedContinues
  <2>. QED
    BY <1>1, <2>3, <2>4
<1>. QED
  BY <1>2, <1>3

LEMMA PreviousSuccessEffect ==
    ASSUME TypeOK, HandlesKnown, NEW r \in Readers, PreviousSuccess(r)
    PROVE  Extended /\ OthersKept /\ \E t : Continues(r, t)
<1>0. /\ Len(handles) \in Nat
      /\ LastHandle \in 1 .. Len(handles) /\ handles[LastHandle] \in HandleRow
  BY Typing, LastHandleRow DEF PreviousSuccess
<1>1. OthersKept
  BY DEF PreviousSuccess, OthersKept
<1>2. CASE handles[LastHandle].expires > now
  <2>1. UNCHANGED handles /\ Issued(r, LastHandle, TRUE)
    <3>1. handles[LastHandle].expires \in Nat /\ now \in Nat
      BY <1>0, Typing DEF HandleRow
    <3>2. ~(handles[LastHandle].expires <= now)
      BY <1>2, <3>1
    <3>. QED
      BY <3>2 DEF PreviousSuccess
  <2>. QED
    BY <1>0, <1>1, <2>1, SameExtended, IssuedContinues
<1>3. CASE ~(handles[LastHandle].expires > now)
  <2>. DEFINE x == Row(handles[LastHandle].vector, handles[LastHandle].limited)
  <2>1. handles' = Append(handles, x) /\ Issued(r, Len(handles) + 1, FALSE)
    BY <1>3 DEF PreviousSuccess
  <2>2. x \in HandleRow
    BY <1>0, RowTyped DEF HandleRow
  <2>. HIDE DEF x
  <2>3. Extended /\ Len(handles') = Len(handles) + 1
    BY <2>1, <2>2, AppendExtended
  <2>4. \E t : Continues(r, t)
    <3>1. Len(handles) + 1 \in 1 .. Len(handles') /\ Len(handles') \in Nat
      BY <1>0, <2>3
    <3>. QED
      BY <2>1, <3>1, IssuedContinues
  <2>. QED
    BY <1>1, <2>3, <2>4
<1>. QED
  BY <1>2, <1>3

LEMMA CapacityFallbackEffect ==
    ASSUME TypeOK, HandlesKnown, NEW r \in Readers, CapacityFallback(r)
    PROVE  Extended /\ OthersKept /\ \E t : Continues(r, t)
<1>. DEFINE last == handles[LastHandle]
            copies == IF last.expires > now THEN <<>> ELSE <<Row(last.vector, last.limited)>>
            marked == IF last.limited THEN copies ELSE Append(copies, Row(last.vector, TRUE))
<1>0. /\ Len(handles) \in Nat
      /\ LastHandle \in 1 .. Len(handles) /\ last \in HandleRow
  BY Typing, LastHandleRow DEF CapacityFallback
<1>1. OthersKept
  BY DEF CapacityFallback, OthersKept
<1>2. /\ handles' = handles \o marked
      /\ IF marked = <<>> THEN Issued(r, LastHandle, TRUE)
         ELSE Issued(r, Len(handles) + Len(marked), FALSE)
  BY DEF CapacityFallback
<1>3. copies \in Seq(HandleRow) /\ marked \in Seq(HandleRow)
  <2>1. Row(last.vector, last.limited) \in HandleRow /\ Row(last.vector, TRUE) \in HandleRow
    BY <1>0, RowTyped DEF HandleRow
  <2>2. PICK x \in HandleRow : x = Row(last.vector, last.limited)
    BY <2>1
  <2>3. PICK y \in HandleRow : y = Row(last.vector, TRUE)
    BY <2>1
  <2>. HIDE DEF last
  <2>4. copies = <<>> \/ copies = <<x>>
    BY <2>2
  <2>5. copies \in Seq(HandleRow)
    BY <2>4
  <2>. HIDE DEF copies
  <2>6. marked = copies \/ marked = Append(copies, y)
    BY <2>3
  <2>7. Append(copies, y) \in Seq(HandleRow)
    BY <2>5, AppendRow
  <2>. HIDE DEF marked
  <2>. QED
    BY <2>5, <2>6, <2>7
<1>. HIDE DEF marked
<1>4. Extended /\ Len(handles') = Len(handles) + Len(marked) /\ Len(marked) \in Nat
  <2>1. handles \in Seq(HandleRow)
    BY DEF TypeOK
  <2>2. /\ handles' \in Seq(HandleRow) /\ Len(handles') = Len(handles) + Len(marked)
        /\ Len(marked) \in Nat
        /\ \A h \in 1 .. Len(handles) : handles'[h] = handles[h]
    BY <1>2, <1>3, <2>1
  <2>. QED
    BY <1>0, <2>2 DEF Extended
<1>5. \E t : Continues(r, t)
  <2>1. CASE marked = <<>>
    <3>1. LastHandle \in 1 .. Len(handles') /\ Len(handles') \in Nat
      <4>1. PICK h \in 1 .. Len(handles) : h = LastHandle
        BY <1>0
      <4>2. h \in 1 .. Len(handles')
        BY <1>0, <1>4
      <4>. QED
        BY <1>0, <1>4, <4>1, <4>2
    <3>2. Issued(r, LastHandle, TRUE)
      BY <1>2, <2>1
    <3>. QED
      BY <3>1, <3>2, IssuedContinues
  <2>2. CASE marked # <<>>
    <3>1. Len(marked) # 0
      BY <1>3, <2>2
    <3>2. Len(handles) + Len(marked) \in 1 .. Len(handles') /\ Len(handles') \in Nat
      BY <1>0, <1>4, <3>1
    <3>. QED
      BY <1>2, <2>2, <3>2, IssuedContinues
  <2>. QED
    BY <2>1, <2>2
<1>. QED
  BY <1>1, <1>4, <1>5

\* The steps that look at the files of a snapshot, and those that follow.
LEMMA LookEffect ==
    ASSUME TypeOK, HandlesKnown, NEW r \in Readers,
           CheckFiles(r) \/ ReadFiles(r) \/ NextPage(r)
    PROVE  Extended /\ OthersKept /\ \E t : Continues(r, t)
<1>0. reader[r] \in Reader /\ Len(handles) \in Nat /\ reader[r].last <= Len(handles)
  BY Typing DEF HandlesKnown
<1>1. UNCHANGED handles /\ OthersKept
  BY DEF CheckFiles, ReadFiles, NextPage, OthersKept
<1>2. reader[r].handle \in 1 .. Len(handles)
  BY DEF CheckFiles, ReadFiles, NextPage, HandlesKnown, Looked
<1>3. \A pc \in {"issue", "renew", "page", "read"} :
        LET s == [reader[r] EXCEPT !.pc = pc]
        IN  /\ s \in Reader /\ s.pc = pc /\ s.last <= Len(handles)
            /\ s.handle = reader[r].handle
  BY <1>0 DEF Reader
<1>4. CASE reader' = [reader EXCEPT ![r] = IdleReader]
  <2>1. reader' = [reader EXCEPT ![r] = IdleReader]
    BY <1>4
  <2>2. PICK s \in Reader : s = IdleReader /\ s.pc = "idle" /\ s.last = 0
    BY IdleReaderTyped
  <2>3. reader' = [reader EXCEPT ![r] = s] /\ s.last <= Len(handles)
    BY <1>0, <2>1, <2>2
  <2>4. s.pc \notin {"check"} \cup Looked
    BY <2>2 DEF Looked
  <2>. QED
    BY <1>1, <2>3, <2>4, OwnStep
<1>5. ASSUME NEW pc \in {"issue", "renew", "page", "read"},
             reader' = [reader EXCEPT ![r] = [reader[r] EXCEPT !.pc = pc]],
             pc \in Looked => \/ reader[r].pc \in Looked
                              \/ /\ reader[r].pc = "check" /\ GuardFree
                                 /\ Present(HandleFiles(reader[r].handle))
      PROVE  Extended /\ OthersKept /\ \E t : Continues(r, t)
  <2>. DEFINE s == [reader[r] EXCEPT !.pc = pc]
  <2>1. /\ s \in Reader /\ s.pc = pc /\ s.last <= Len(handles)
        /\ s.handle = reader[r].handle
    BY <1>3
  <2>2. reader' = [reader EXCEPT ![r] = s]
    BY <1>5
  <2>. HIDE DEF s
  <2>3. s.pc \in {"check"} \cup Looked => s.handle \in 1 .. Len(handles)
    BY <1>2, <2>1
  <2>. QED
    BY <1>1, <1>5, <2>1, <2>2, <2>3, OwnStep
<1>6. CASE CheckFiles(r)
  <2>1. reader[r].pc = "check" /\ GuardFree
    BY <1>6 DEF CheckFiles
  <2>2. reader' = [reader EXCEPT ![r] = [reader[r] EXCEPT !.pc = IF AllPresent(r) THEN "renew" ELSE "issue"]]
    BY <1>0, <1>6 DEF CheckFiles
  <2>3. CASE AllPresent(r)
    <3>1. Present(HandleFiles(reader[r].handle))
      BY <2>3 DEF AllPresent
    <3>. QED
      BY <1>5, <2>1, <2>2, <2>3, <3>1
  <2>4. CASE ~AllPresent(r)
    BY <1>5, <2>2, <2>4 DEF Looked
  <2>. QED
    BY <2>3, <2>4
<1>7. CASE ReadFiles(r)
  <2>1. reader[r].pc \in Looked
    BY <1>7 DEF ReadFiles, Looked
  <2>2. \/ reader' = [reader EXCEPT ![r] = IdleReader]
        \/ reader' = [reader EXCEPT ![r] = [reader[r] EXCEPT !.pc = "page"]]
    BY <1>7 DEF ReadFiles
  <2>. QED
    BY <1>4, <1>5, <2>1, <2>2
<1>8. CASE NextPage(r)
  <2>1. reader[r].pc \in Looked
    BY <1>8 DEF NextPage, Looked
  <2>2. \/ reader' = [reader EXCEPT ![r] = IdleReader]
        \/ reader' = [reader EXCEPT ![r] = [reader[r] EXCEPT !.pc = "read"]]
    BY <1>8 DEF NextPage
  <2>. QED
    BY <1>4, <1>5, <2>1, <2>2
<1>. QED
  BY <1>6, <1>7, <1>8

LEMMA RenewEffect ==
    ASSUME TypeOK, HandlesKnown, NEW r \in Readers, Renew(r)
    PROVE  Extended /\ OthersKept /\ \E t : Continues(r, t)
<1>0. /\ reader[r] \in Reader /\ Len(handles) \in Nat /\ reader[r].last <= Len(handles)
      /\ now \in Nat /\ handles \in Seq(HandleRow)
      /\ \A i \in 1 .. Len(handles) : handles[i] \in HandleRow
  BY Typing DEF HandlesKnown, TypeOK
<1>1. OthersKept
  BY DEF Renew, OthersKept
<1>2. PICK h \in 1 .. Len(handles) : h = reader[r].handle
  BY DEF Renew, HandlesKnown, Looked
<1>3. Extended /\ Len(handles') = Len(handles)
  <2>1. CASE UNCHANGED handles
    BY <1>0, <2>1, SameExtended
  <2>2. CASE /\ handles[h].alive /\ handles[h].expires > now
             /\ handles' = [handles EXCEPT ![h].expires = now + TTL]
    <3>. DEFINE x == [handles[h] EXCEPT !.expires = now + TTL]
    <3>1. x \in HandleRow /\ x.vector = handles[h].vector /\ x.alive = handles[h].alive
      <4>1. now + TTL \in Nat
        BY <1>0, SnapshotsAssumption
      <4>2. handles[h] \in HandleRow
        BY <1>0
      <4>. QED
        BY <4>1, <4>2 DEF HandleRow
    <3>2. handles' = [handles EXCEPT ![h] = x]
      BY <2>2
    <3>. HIDE DEF x
    <3>3. handles' \in Seq(HandleRow) /\ Len(handles') = Len(handles)
      <4>1. handles \in [1 .. Len(handles) -> HandleRow]
        BY <1>0
      <4>2. handles' \in [1 .. Len(handles) -> HandleRow]
        BY <3>1, <3>2, <4>1
      <4>3. handles' \in Seq(HandleRow)
        BY <1>0, <4>2
      <4>. QED
        BY <1>0, <4>2, <4>3
    <3>4. \A i \in 1 .. Len(handles) : handles'[i] = IF i = h THEN x ELSE handles[i]
      BY <1>0, <3>2
    <3>. QED
      BY <1>0, <2>2, <3>1, <3>3, <3>4 DEF Extended
  <2>. QED
    BY <1>2, <2>1, <2>2 DEF Renew
<1>4. \E t : Continues(r, t)
  <2>. DEFINE s == [reader[r] EXCEPT !.pc = "read"]
  <2>1. /\ s \in Reader /\ s.pc = "read" /\ s.last = reader[r].last
        /\ s.handle = reader[r].handle
    BY <1>0 DEF Reader
  <2>2. reader' = [reader EXCEPT ![r] = s] /\ reader[r].pc \in Looked
    BY DEF Renew, Looked
  <2>. HIDE DEF s
  <2>3. Continues(r, s)
    BY <1>0, <1>2, <1>3, <2>1, <2>2 DEF Continues
  <2>. QED
    BY <2>3
<1>. QED
  BY <1>1, <1>3, <1>4

LEMMA ReaderEffect ==
    ASSUME TypeOK, HandlesKnown, NEW r \in Readers, ReaderStep(r)
    PROVE  Extended /\ OthersKept /\ \E t : Continues(r, t)
  BY RequestEffect, FreezeReadEffect, FreezeCommitEffect, PreviousSuccessEffect,
     CapacityFallbackEffect, LookEffect, RenewEffect
  DEF ReaderStep

LEMMA PruneEffect ==
    ASSUME TypeOK, PruneSnapshots
    PROVE  Extended /\ OthersKept /\ UNCHANGED reader
<1>0. Len(handles) \in Nat /\ \A i \in 1 .. Len(handles) : handles[i] \in HandleRow
  BY Typing
<1>1. OthersKept /\ UNCHANGED reader
  BY DEF PruneSnapshots, OthersKept
<1>2. PICK V : handles' = [h \in 1 .. Len(handles) |->
                             [handles[h] EXCEPT !.alive = @ /\ h \notin V]]
  BY DEF PruneSnapshots
<1>3. \A h \in 1 .. Len(handles) :
        /\ handles'[h] \in HandleRow /\ handles'[h].vector = handles[h].vector
        /\ handles'[h].expires = handles[h].expires
        /\ handles'[h].alive => handles[h].alive
  <2>. SUFFICES ASSUME NEW h \in 1 .. Len(handles)
       PROVE  /\ handles'[h] \in HandleRow /\ handles'[h].vector = handles[h].vector
              /\ handles'[h].expires = handles[h].expires
              /\ handles'[h].alive => handles[h].alive
    OBVIOUS
  <2>1. PICK b \in BOOLEAN : b = (handles[h].alive /\ h \notin V)
    OBVIOUS
  <2>2. handles'[h] = [handles[h] EXCEPT !.alive = b]
    BY <1>2, <2>1
  <2>3. handles[h] \in HandleRow
    BY <1>0
  <2>. QED
    BY <2>1, <2>2, <2>3 DEF HandleRow
<1>4. handles' = [h \in 1 .. Len(handles) |-> handles'[h]]
  BY <1>2
<1>5. handles' \in Seq(HandleRow) /\ Len(handles') = Len(handles)
  <2>1. handles' \in [1 .. Len(handles) -> HandleRow]
    BY <1>3, <1>4
  <2>2. handles' \in Seq(HandleRow)
    BY <1>0, <2>1
  <2>. QED
    BY <1>0, <2>1, <2>2
<1>. QED
  BY <1>0, <1>1, <1>3, <1>5 DEF Extended

LEMMA AllGoOn ==
    ASSUME TypeOK, HandlesKnown, Extended,
           UNCHANGED reader \/ \E r \in Readers, s \in Reader : Continues(r, s)
    PROVE  ReadersGoOn
<1>0. reader \in [Readers -> Reader]
  BY DEF TypeOK
<1>1. Len(handles') \in Nat /\ Len(handles) \in Nat /\ Len(handles) <= Len(handles')
  BY Typing, SeqElement DEF Extended
<1>2. \A q \in Readers :
        /\ reader[q].last <= Len(handles')
        /\ reader[q].pc \in {"check"} \cup Looked => reader[q].handle \in 1 .. Len(handles')
  <2>1. \A q \in Readers : reader[q].last \in Nat
    BY <1>0 DEF Reader
  <2>. QED
    BY <1>1, <2>1 DEF HandlesKnown
<1>3. CASE UNCHANGED reader
  BY <1>0, <1>2, <1>3 DEF ReadersGoOn
<1>4. ASSUME NEW r \in Readers, NEW s \in Reader, Continues(r, s)
      PROVE  ReadersGoOn
  <2>1. reader' \in [Readers -> Reader] /\ \A q \in Readers : reader'[q] = IF q = r THEN s ELSE reader[q]
    BY <1>0, <1>4 DEF Continues
  <2>. QED
    BY <1>2, <1>4, <2>1 DEF ReadersGoOn, Continues
<1>. QED
  BY <1>3, <1>4

\* A snapshot that somebody relies on after a step of a reader or of the pruning was
\* already relied on, with the same files, or has just been looked at.
LEMMA ReliesBefore ==
    ASSUME TypeOK, HandlesKnown, NEW q \in Readers, NEW t \in Nat,
           t <= now, Extended, ReadersGoOn, Relies(q, t)'
    PROVE  /\ HandleFiles(reader[q].handle)' = HandleFiles(reader[q].handle)
           /\ \/ Relies(q, t)
              \/ GuardFree /\ Present(HandleFiles(reader[q].handle))
<1>0. /\ reader \in [Readers -> Reader] /\ now \in Nat /\ Retention \in Nat
      /\ Len(handles) \in Nat /\ \A i \in 1 .. Len(handles) : handles[i] \in HandleRow
  BY Typing, SnapshotsAssumption DEF TypeOK
<1>1. /\ reader'[q].handle = reader[q].handle
      /\ \/ reader[q].pc \in Looked
         \/ reader[q].pc = "check" /\ GuardFree /\ Present(HandleFiles(reader[q].handle))
  BY DEF Relies, ReadersGoOn
<1>2. PICK h \in 1 .. Len(handles) : h = reader[q].handle
  BY <1>1 DEF HandlesKnown
<1>3. /\ handles'[h].alive /\ handles'[h].expires + Retention > t
  BY <1>1, <1>2 DEF Relies
<1>4. handles'[h].vector = handles[h].vector
  BY DEF Extended
<1>5. HandleFiles(reader[q].handle)' = HandleFiles(reader[q].handle)
  <2>1. HandleFiles(reader[q].handle)' = FilesOfAll(Generations(handles'[reader'[q].handle].vector))
    BY DEF HandleFiles, FilesOfAll, Generations
  <2>. QED
    BY <1>1, <1>2, <1>4, <2>1 DEF HandleFiles
<1>6. handles[h].alive /\ handles[h].expires + Retention > t
  <2>1. handles[h].alive
    BY <1>3 DEF Extended
  <2>2. handles'[h].expires = handles[h].expires \/ handles[h].expires > now
    BY DEF Extended
  <2>3. handles[h].expires \in Nat
    BY <1>0 DEF HandleRow
  <2>4. handles[h].expires + Retention > t
    BY <1>0, <1>3, <2>2, <2>3
  <2>. QED
    BY <2>1, <2>4
<1>. QED
  BY <1>1, <1>2, <1>5, <1>6 DEF Relies

\* What a step of a reader or of the pruning leaves of the invariant.
LEMMA ReadersKeep ==
    ASSUME FilesInv, Extended, OthersKept, ReadersGoOn
    PROVE  FilesInv'
<1>0. /\ TypeOK /\ HandlesKnown /\ now \in Nat /\ gc \in Collector
      /\ Len(handles) \in Nat /\ reader \in [Readers -> Reader]
  BY Typing DEF FilesInv, TypeOK
<1>1. TypeOK'
  <2>1. reader' \in [Readers -> Reader]
    BY DEF ReadersGoOn
  <2>2. handles' \in Seq(HandleRow)
    BY DEF Extended
  <2>. QED
    BY <1>0, <2>1, <2>2 DEF TypeOK, OthersKept
<1>2. HandlesKnown'
  BY DEF ReadersGoOn, HandlesKnown
<1>3. BatchesGoOn' /\ VictimIsGarbage'
  BY DEF FilesInv, OthersKept, BatchesGoOn, VictimIsGarbage
<1>4. HeadFilesPresent' /\ UnreadFilesPresent'
  BY DEF FilesInv, OthersKept, HeadFilesPresent, UnreadFilesPresent, Present, FilesOfAll,
         Generations, Unread
<1>5. GuardKnows'
  <2>. SUFFICES ASSUME gc.pc \in {"recheck", "unlink"} PROVE GuardKnows'
    BY DEF OthersKept, GuardKnows
  <2>1. /\ FilesOfAll(Generations(ptr))' \subseteq gc.live
        /\ FilesOfAll(Unread)' \subseteq gc.live
    BY DEF FilesInv, GuardKnows, OthersKept, FilesOfAll, Generations, Unread
  <2>2. ASSUME NEW q \in Readers, Relies(q, gc.clock)'
        PROVE  HandleFiles(reader[q].handle)' \subseteq gc.live
    <3>1. PICK t \in Nat : t = gc.clock /\ t <= now
      BY <1>0 DEF Collector, FilesInv, VictimIsGarbage
    <3>2. Relies(q, t)'
      BY <2>2, <3>1 DEF Relies, OthersKept
    <3>3. /\ HandleFiles(reader[q].handle)' = HandleFiles(reader[q].handle)
          /\ Relies(q, t)
      BY <1>0, <3>1, <3>2, ReliesBefore DEF GuardFree
    <3>. QED
      BY <3>1, <3>3 DEF FilesInv, GuardKnows
  <2>. QED
    BY <2>1, <2>2 DEF GuardKnows, OthersKept
<1>6. VerifiedFilesPresent'
  <2>. SUFFICES ASSUME NEW q \in Readers, Relies(q, now)'
       PROVE  Present(HandleFiles(reader[q].handle))'
    BY DEF VerifiedFilesPresent, Relies, Looked
  <2>1. Relies(q, now)' => reader'[q].pc \in Looked /\ handles'[reader'[q].handle].alive
                           /\ handles'[reader'[q].handle].expires + Retention > now'
    BY DEF Relies
  <2>2. PICK t \in Nat : t = now
    BY <1>0
  <2>3. Relies(q, t)'
    BY <2>1, <2>2 DEF Relies, OthersKept
  <2>4. HandleFiles(reader[q].handle)' = HandleFiles(reader[q].handle)
    BY <1>0, <2>2, <2>3, ReliesBefore
  <2>5. Relies(q, t) \/ Present(HandleFiles(reader[q].handle))
    BY <1>0, <2>2, <2>3, ReliesBefore
  <2>6. Present(HandleFiles(reader[q].handle))
    BY <2>2, <2>5 DEF FilesInv, VerifiedFilesPresent, Relies, Looked
  <2>. QED
    BY <2>4, <2>6 DEF Present, OthersKept
<1>. QED
  BY <1>1, <1>2, <1>3, <1>4, <1>5, <1>6 DEF FilesInv

LEMMA ReaderStepKeeps ==
    ASSUME FilesInv, PruneSnapshots \/ \E r \in Readers : ReaderStep(r)
    PROVE  FilesInv'
<1>0. TypeOK /\ HandlesKnown
  BY DEF FilesInv
<1>1. CASE PruneSnapshots
  BY <1>0, <1>1, PruneEffect, AllGoOn, ReadersKeep
<1>2. ASSUME NEW r \in Readers, ReaderStep(r)
      PROVE  FilesInv'
  <2>1. Extended /\ OthersKept
    BY <1>0, <1>2, ReaderEffect
  <2>2. PICK t : Continues(r, t)
    BY <1>0, <1>2, ReaderEffect
  <2>3. t \in Reader
    BY <2>2 DEF Continues
  <2>4. ReadersGoOn
    BY <1>0, <2>1, <2>2, <2>3, AllGoOn
  <2>. QED
    BY <2>1, <2>4, ReadersKeep
<1>. QED
  BY <1>1, <1>2

-----------------------------------------------------------------------------
(***************************************************************************)
(* The attempts and their promotion.                                       *)
(***************************************************************************)

ReadersKept == UNCHANGED <<handles, reader, daily, gc, stops>>

\* What the requests, the aggregations and the collector know of themselves.
LEMMA LocalKept ==
    ASSUME FilesInv, ReadersKept, UNCHANGED now
    PROVE  /\ HandlesKnown' /\ BatchesGoOn' /\ VictimIsGarbage'
           /\ \A q \in Readers :
                 /\ Relies(q, gc.clock)' <=> Relies(q, gc.clock)
                 /\ Relies(q, now)' <=> Relies(q, now)
                 /\ HandleFiles(reader[q].handle)' = HandleFiles(reader[q].handle)
  BY DEF FilesInv, ReadersKept, HandlesKnown, BatchesGoOn, VictimIsGarbage, Relies, HandleFiles,
         FilesOfAll, Generations

\* A file that is there stays there.
NothingRemoved == \A d \in Digests : file[d] # None => file'[d] # None

LEMMA FilesInDigests ==
    ASSUME NEW G \in SUBSET Attempts
    PROVE  FilesOfAll(G) \subseteq Digests
  BY SnapshotsAssumption DEF FilesOfAll

LEMMA ReferencesTyped ==
    ASSUME TypeOK
    PROVE  /\ Generations(ptr) \subseteq Attempts /\ Unread \subseteq Attempts
           /\ \A h \in 1 .. Len(handles) : Generations(handles[h].vector) \subseteq Attempts
<1>1. Generations(ptr) \subseteq Attempts
  BY DEF TypeOK, Vector, Generations
<1>2. Unread \subseteq Attempts
  <2>. SUFFICES ASSUME NEW i \in checkpoint + 1 .. Len(gens) PROVE gens[i] \in Attempts
    BY DEF Unread
  <2>1. i \in 1 .. Len(gens)
    BY Typing
  <2>. QED
    BY <2>1, Typing
<1>3. \A h \in 1 .. Len(handles) : handles[h].vector \in Vector
  BY Typing DEF HandleRow
<1>4. \A h \in 1 .. Len(handles) : Generations(handles[h].vector) \subseteq Attempts
  BY <1>3 DEF Vector, Generations
<1>. QED
  BY <1>1, <1>2, <1>4

LEMMA ReliedTyped ==
    ASSUME TypeOK, HandlesKnown, NEW q \in Readers, reader[q].pc \in Looked
    PROVE  HandleFiles(reader[q].handle) \subseteq Digests
<1>1. PICK h \in 1 .. Len(handles) : h = reader[q].handle
  BY DEF HandlesKnown
<1>. QED
  BY <1>1, ReferencesTyped, FilesInDigests DEF HandleFiles

\* Steps of the attempts: outside the guard, or without any effect on references
\* and files.
LEMMA AttemptsKeep ==
    ASSUME FilesInv, TypeOK', ReadersKept, UNCHANGED now, NothingRemoved,
           NEW D \in SUBSET Digests, Present(D),
           FilesOfAll(Generations(ptr))' \subseteq FilesOfAll(Generations(ptr)) \cup D,
           FilesOfAll(Unread)' \subseteq FilesOfAll(Unread) \cup D,
           GuardFree \/ D = {}
    PROVE  FilesInv'
<1>0. /\ FilesOfAll(Generations(ptr)) \subseteq Digests /\ FilesOfAll(Unread) \subseteq Digests
      /\ TypeOK /\ HandlesKnown
  BY ReferencesTyped, FilesInDigests DEF FilesInv
<1>1. HandlesKnown' /\ BatchesGoOn' /\ VictimIsGarbage'
  BY LocalKept
<1>2. HeadFilesPresent' /\ UnreadFilesPresent'
  <2>1. \A d \in FilesOfAll(Generations(ptr)) \cup FilesOfAll(Unread) \cup D : file[d] # None
    BY DEF FilesInv, HeadFilesPresent, UnreadFilesPresent, Present
  <2>2. \A d \in FilesOfAll(Generations(ptr)) \cup FilesOfAll(Unread) \cup D : file'[d] # None
    BY <1>0, <2>1 DEF NothingRemoved
  <2>. QED
    BY <2>2 DEF HeadFilesPresent, UnreadFilesPresent, Present
<1>3. VerifiedFilesPresent'
  <2>. SUFFICES ASSUME NEW q \in Readers, Relies(q, now)'
       PROVE  Present(HandleFiles(reader[q].handle))'
    BY DEF VerifiedFilesPresent, Relies, Looked
  <2>1. Relies(q, now)
    BY LocalKept
  <2>2. Present(HandleFiles(reader[q].handle)) /\ reader[q].pc \in Looked
    BY <2>1 DEF FilesInv, VerifiedFilesPresent, Relies, Looked
  <2>3. \A d \in HandleFiles(reader[q].handle) : file'[d] # None
    BY <1>0, <2>2, ReliedTyped DEF Present, NothingRemoved
  <2>. QED
    BY <2>3, LocalKept DEF Present
<1>4. GuardKnows'
  <2>1. CASE GuardFree
    BY <2>1 DEF GuardFree, GuardKnows, ReadersKept
  <2>2. CASE D = {}
    <3>. SUFFICES ASSUME gc.pc \in {"recheck", "unlink"} PROVE GuardKnows'
      BY DEF GuardKnows, ReadersKept
    <3>1. /\ FilesOfAll(Generations(ptr))' \subseteq gc.live
          /\ FilesOfAll(Unread)' \subseteq gc.live
      BY <2>2 DEF FilesInv, GuardKnows
    <3>2. \A q \in Readers : Relies(q, gc.clock)' => HandleFiles(reader[q].handle)' \subseteq gc.live
      BY LocalKept DEF FilesInv, GuardKnows
    <3>. QED
      BY <3>1, <3>2 DEF GuardKnows, ReadersKept
  <2>. QED
    BY <2>1, <2>2
<1>. QED
  BY <1>1, <1>2, <1>3, <1>4 DEF FilesInv

AttemptStep ==
    \/ \E a \in Attempts :
          \/ \E d \in Digests : RecordChunk(a, d) \/ WriteArtifact(a, d)
          \/ Promote(a)
          \/ FailAttempt(a)
    \/ EditRoster

LEMMA AttemptTyped ==
    ASSUME TypeOK, AttemptStep
    PROVE  TypeOK'
<1>0. /\ att \in [Attempts -> AttemptRow] /\ \A a \in Attempts : att[a] \in AttemptRow
      /\ now \in Nat /\ file \in [Digests -> Nat \cup {None}] /\ gens \in Seq(Attempts)
      /\ FilesOf \in [Attempts -> SUBSET Digests]
  BY SnapshotsAssumption DEF TypeOK
<1>1. ASSUME NEW a \in Attempts, NEW d \in Digests, RecordChunk(a, d)
      PROVE  TypeOK'
  <2>. DEFINE x == [att[a] EXCEPT !.status = "pending", !.receipts = att[a].receipts \cup {d}]
  <2>1. x \in AttemptRow
    BY <1>0 DEF AttemptRow
  <2>2. att' = [att EXCEPT ![a] = x]
    BY <1>1 DEF RecordChunk
  <2>. HIDE DEF x
  <2>3. att' \in [Attempts -> AttemptRow]
    BY <1>0, <2>1, <2>2
  <2>. QED
    BY <1>1, <2>3 DEF RecordChunk, TypeOK
<1>2. ASSUME NEW a \in Attempts, NEW d \in Digests, WriteArtifact(a, d)
      PROVE  TypeOK'
  <2>. DEFINE x == [att[a] EXCEPT !.written = att[a].written \cup {d}]
  <2>1. x \in AttemptRow
    BY <1>0 DEF AttemptRow
  <2>2. att' = [att EXCEPT ![a] = x] /\ file' = [file EXCEPT ![d] = now]
    BY <1>0, <1>2 DEF WriteArtifact
  <2>. HIDE DEF x
  <2>3. att' \in [Attempts -> AttemptRow] /\ file' \in [Digests -> Nat \cup {None}]
    BY <1>0, <2>1, <2>2
  <2>. QED
    BY <1>2, <2>3 DEF WriteArtifact, TypeOK
<1>3. ASSUME NEW a \in Attempts, Promote(a)
      PROVE  TypeOK'
  <2>. DEFINE x == [att[a] EXCEPT !.status = "published", !.created = now]
  <2>1. x \in AttemptRow
    BY <1>0 DEF AttemptRow
  <2>2. att' = [att EXCEPT ![a] = x] /\ gens' = Append(gens, a)
    BY <1>0, <1>3 DEF Promote
  <2>. HIDE DEF x
  <2>3. att' \in [Attempts -> AttemptRow] /\ gens' \in Seq(Attempts)
    BY <1>0, <2>1, <2>2
  <2>4. ptr' \in Vector
    BY <1>3 DEF Promote, TypeOK, Vector
  <2>. QED
    BY <1>3, <2>3, <2>4 DEF Promote, TypeOK
<1>4. ASSUME NEW a \in Attempts, FailAttempt(a)
      PROVE  TypeOK'
  <2>. DEFINE x == [att[a] EXCEPT !.status = "failed"]
  <2>1. x \in AttemptRow
    BY <1>0 DEF AttemptRow
  <2>2. att' = [att EXCEPT ![a] = x]
    BY <1>0, <1>4 DEF FailAttempt
  <2>. HIDE DEF x
  <2>3. att' \in [Attempts -> AttemptRow]
    BY <1>0, <2>1, <2>2
  <2>. QED
    BY <1>4, <2>3 DEF FailAttempt, TypeOK
<1>5. CASE EditRoster
  BY <1>5 DEF EditRoster, TypeOK
<1>. QED
  BY <1>1, <1>2, <1>3, <1>4, <1>5 DEF AttemptStep

LEMMA AttemptStepKeeps ==
    ASSUME FilesInv, AttemptStep
    PROVE  FilesInv'
<1>0. /\ TypeOK /\ TypeOK' /\ now \in Nat
      /\ file \in [Digests -> Nat \cup {None}] /\ gens \in Seq(Attempts) /\ checkpoint \in Nat
      /\ ptr \in [Pointers -> Attempts \cup {None}]
      /\ FilesOf \in [Attempts -> SUBSET Digests] /\ None \notin Attempts \cup Nat
  BY AttemptTyped, SnapshotsAssumption DEF FilesInv, TypeOK, Vector
<1>1. ReadersKept /\ UNCHANGED now
  BY DEF AttemptStep, RecordChunk, WriteArtifact, Promote, FailAttempt, EditRoster, ReadersKept
<1>2. CASE UNCHANGED <<file, ptr, gens, checkpoint>>
  <2>1. NothingRemoved /\ Present({})
    BY <1>2 DEF NothingRemoved, Present
  <2>2. /\ FilesOfAll(Generations(ptr))' = FilesOfAll(Generations(ptr))
        /\ FilesOfAll(Unread)' = FilesOfAll(Unread)
    BY <1>2 DEF FilesOfAll, Generations, Unread
  <2>3. {} \in SUBSET Digests
    OBVIOUS
  <2>. QED
    BY <1>0, <1>1, <2>1, <2>2, <2>3, AttemptsKeep
<1>3. ASSUME NEW a \in Attempts, NEW d \in Digests, WriteArtifact(a, d)
      PROVE  FilesInv'
  <2>1. NothingRemoved
    BY <1>0, <1>3 DEF WriteArtifact, NothingRemoved
  <2>2. /\ Present({})
        /\ FilesOfAll(Generations(ptr))' = FilesOfAll(Generations(ptr))
        /\ FilesOfAll(Unread)' = FilesOfAll(Unread)
    BY <1>3 DEF WriteArtifact, Present, FilesOfAll, Generations, Unread
  <2>3. {} \in SUBSET Digests
    OBVIOUS
  <2>. QED
    BY <1>0, <1>1, <2>1, <2>2, <2>3, AttemptsKeep
<1>4. ASSUME NEW a \in Attempts, Promote(a)
      PROVE  FilesInv'
  <2>1. /\ GuardFree /\ Present(FilesOf[a]) /\ NothingRemoved /\ FilesOf[a] \in SUBSET Digests
        /\ gens' = Append(gens, a) /\ checkpoint' = checkpoint
        /\ ptr' = [p \in Pointers |-> IF p \in PointersOf[a] THEN a ELSE ptr[p]]
    BY <1>0, <1>4 DEF Promote, NothingRemoved
  <2>2. FilesOfAll(Generations(ptr))' \subseteq FilesOfAll(Generations(ptr)) \cup FilesOf[a]
    <3>1. Generations(ptr)' \subseteq Generations(ptr) \cup {a}
      BY <2>1 DEF Generations
    <3>. QED
      BY <3>1 DEF FilesOfAll
  <2>3. FilesOfAll(Unread)' \subseteq FilesOfAll(Unread) \cup FilesOf[a]
    <3>1. Unread' \subseteq Unread \cup {a}
      <4>. SUFFICES ASSUME NEW i \in checkpoint + 1 .. Len(gens') PROVE gens'[i] \in Unread \cup {a}
        BY <2>1 DEF Unread
      <4>1. Len(gens') = Len(gens) + 1 /\ Len(gens) \in Nat /\ gens'[Len(gens) + 1] = a
        BY <1>0, <2>1
      <4>2. CASE i = Len(gens) + 1
        BY <4>1, <4>2
      <4>3. CASE i # Len(gens) + 1
        <5>1. i \in checkpoint + 1 .. Len(gens) /\ i \in 1 .. Len(gens)
          BY <1>0, <4>1, <4>3
        <5>2. gens'[i] = gens[i]
          BY <1>0, <2>1, <5>1
        <5>. QED
          BY <5>1, <5>2 DEF Unread
      <4>. QED
        BY <4>2, <4>3
    <3>. QED
      BY <3>1 DEF FilesOfAll
  <2>. QED
    BY <1>0, <1>1, <2>1, <2>2, <2>3, AttemptsKeep
<1>. QED
  <2>1. \/ UNCHANGED <<file, ptr, gens, checkpoint>>
        \/ \E a \in Attempts : Promote(a) \/ \E d \in Digests : WriteArtifact(a, d)
    BY DEF AttemptStep, RecordChunk, FailAttempt, EditRoster
  <2>. QED
    BY <1>2, <1>3, <1>4, <2>1

-----------------------------------------------------------------------------
(***************************************************************************)
(* The daily aggregation.                                                  *)
(***************************************************************************)

LEMMA DailyEffect ==
    ASSUME TypeOK, BatchesGoOn, NEW w \in DailyWorkers, DailyStep(w)
    PROVE  /\ UNCHANGED <<now, att, file, ptr, gens, roster, handles, reader, gc, stops>>
           /\ checkpoint' \in Nat /\ checkpoint <= checkpoint'
           /\ \E x \in DailyWorker : x.after <= x.upto /\ daily' = [daily EXCEPT ![w] = x]
<1>0. /\ daily[w] \in DailyWorker /\ checkpoint \in Nat /\ Len(gens) \in Nat
      /\ DailyLimit \in Nat \ {0} /\ daily[w].after <= daily[w].upto
  BY Typing, SnapshotsAssumption DEF BatchesGoOn
<1>1. IdleDaily \in DailyWorker /\ IdleDaily.after <= IdleDaily.upto
  BY DEF IdleDaily, DailyWorker
<1>2. CASE DailyRead(w)
  <2>. DEFINE u == IF Len(gens) < checkpoint + DailyLimit THEN Len(gens) ELSE checkpoint + DailyLimit
              x == [pc |-> "files", after |-> checkpoint, upto |-> u]
  <2>1. u \in Nat /\ checkpoint <= u
    BY <1>0, <1>2 DEF DailyRead
  <2>2. daily' = [daily EXCEPT ![w] = x]
    BY <1>2 DEF DailyRead
  <2>3. x \in DailyWorker /\ x.after <= x.upto
    <3>. HIDE DEF u
    <3>. QED
      BY <1>0, <2>1 DEF DailyWorker
  <2>. HIDE DEF x
  <2>4. \E y \in DailyWorker : y.after <= y.upto /\ daily' = [daily EXCEPT ![w] = y]
    BY <2>2, <2>3
  <2>5. /\ UNCHANGED <<now, att, file, ptr, gens, roster, handles, reader, gc, stops>>
        /\ checkpoint' = checkpoint
    BY <1>2 DEF DailyRead
  <2>6. checkpoint' \in Nat /\ checkpoint <= checkpoint'
    BY <1>0, <2>5
  <2>. QED
    BY <2>4, <2>5, <2>6
<1>3. CASE DailyFiles(w)
  <2>. DEFINE x == [daily[w] EXCEPT !.pc = "commit"]
  <2>1. x \in DailyWorker /\ x.after <= x.upto
    BY <1>0 DEF DailyWorker
  <2>2. daily' = [daily EXCEPT ![w] = x] \/ daily' = [daily EXCEPT ![w] = IdleDaily]
    BY <1>3 DEF DailyFiles
  <2>. HIDE DEF x
  <2>3. \E y \in DailyWorker : y.after <= y.upto /\ daily' = [daily EXCEPT ![w] = y]
    BY <1>1, <2>1, <2>2
  <2>4. /\ UNCHANGED <<now, att, file, ptr, gens, roster, handles, reader, gc, stops>>
        /\ checkpoint' = checkpoint
    BY <1>3 DEF DailyFiles
  <2>5. checkpoint' \in Nat /\ checkpoint <= checkpoint'
    BY <1>0, <2>4
  <2>. QED
    BY <2>3, <2>4, <2>5
<1>4. CASE DailyCommit(w)
  <2>1. checkpoint' \in Nat /\ checkpoint <= checkpoint'
    BY <1>0, <1>4 DEF DailyCommit, DailyWorker
  <2>2. \E y \in DailyWorker : y.after <= y.upto /\ daily' = [daily EXCEPT ![w] = y]
    BY <1>1, <1>4 DEF DailyCommit
  <2>. QED
    BY <1>4, <2>1, <2>2 DEF DailyCommit
<1>. QED
  BY <1>2, <1>3, <1>4 DEF DailyStep

LEMMA DailyStepKeeps ==
    ASSUME FilesInv, NEW w \in DailyWorkers, DailyStep(w)
    PROVE  FilesInv'
<1>0. TypeOK /\ BatchesGoOn /\ daily \in [DailyWorkers -> DailyWorker]
  BY DEF FilesInv, TypeOK
<1>1. /\ UNCHANGED <<now, att, file, ptr, gens, roster, handles, reader, gc, stops>>
      /\ checkpoint' \in Nat /\ checkpoint <= checkpoint'
  BY <1>0, DailyEffect
<1>2. PICK x \in DailyWorker : x.after <= x.upto /\ daily' = [daily EXCEPT ![w] = x]
  BY <1>0, DailyEffect
<1>3. TypeOK'
  <2>1. daily' \in [DailyWorkers -> DailyWorker]
    BY <1>0, <1>2
  <2>. QED
    BY <1>0, <1>1, <2>1 DEF TypeOK
<1>4. BatchesGoOn'
  BY <1>0, <1>2 DEF BatchesGoOn
<1>5. Unread' \subseteq Unread
  <2>1. checkpoint \in Nat /\ Len(gens) \in Nat
    BY <1>0, Typing
  <2>2. checkpoint' + 1 .. Len(gens) \subseteq checkpoint + 1 .. Len(gens)
    BY <1>1, <2>1
  <2>. QED
    BY <1>1, <2>2 DEF Unread
<1>6. FilesOfAll(Unread)' \subseteq FilesOfAll(Unread)
  BY <1>5 DEF FilesOfAll
<1>7. HandlesKnown' /\ VictimIsGarbage'
  BY <1>1 DEF FilesInv, HandlesKnown, VictimIsGarbage
<1>8. HeadFilesPresent' /\ VerifiedFilesPresent'
  BY <1>1 DEF FilesInv, HeadFilesPresent, VerifiedFilesPresent, Present, FilesOfAll, Generations,
              HandleFiles
<1>9. UnreadFilesPresent'
  BY <1>1, <1>6 DEF FilesInv, UnreadFilesPresent, Present
<1>10. GuardKnows'
  <2>1. FilesOfAll(Generations(ptr))' = FilesOfAll(Generations(ptr))
    BY <1>1 DEF FilesOfAll, Generations
  <2>2. \A q \in Readers : /\ Relies(q, gc.clock)' <=> Relies(q, gc.clock)
                           /\ HandleFiles(reader[q].handle)' = HandleFiles(reader[q].handle)
    BY <1>1 DEF Relies, HandleFiles, FilesOfAll, Generations
  <2>. QED
    BY <1>1, <1>6, <2>1, <2>2 DEF FilesInv, GuardKnows
<1>. QED
  BY <1>3, <1>4, <1>7, <1>8, <1>9, <1>10 DEF FilesInv

-----------------------------------------------------------------------------
(***************************************************************************)
(* The collector of garbage, and time.                                     *)
(***************************************************************************)

RefsKept == UNCHANGED <<att, ptr, gens, roster, handles, reader, checkpoint, daily>>

\* What the collector finds referenced.
LEMMA ReferencedIsAll ==
    ASSUME TypeOK, HandlesKnown, NEW t \in Nat
    PROVE  /\ FilesOfAll(Generations(ptr)) \subseteq Referenced(t)
           /\ FilesOfAll(Unread) \subseteq Referenced(t)
           /\ \A q \in Readers : Relies(q, t) => HandleFiles(reader[q].handle) \subseteq Referenced(t)
<1>1. Generations(ptr) \subseteq LiveGenerations(t) /\ Unread \subseteq LiveGenerations(t)
  BY DEF LiveGenerations
<1>2. ASSUME NEW q \in Readers, Relies(q, t)
      PROVE  HandleFiles(reader[q].handle) \subseteq Referenced(t)
  <2>1. PICK h \in 1 .. Len(handles) : h = reader[q].handle
    BY <1>2 DEF Relies, HandlesKnown
  <2>2. h \in {i \in Alive : handles[i].expires + Retention > t} \cup Latest
    BY <1>2, <2>1 DEF Relies, Alive
  <2>3. Generations(handles[h].vector) \subseteq LiveGenerations(t)
    BY <2>2 DEF LiveGenerations
  <2>. QED
    BY <2>1, <2>3, FilesOfAllGrows DEF Referenced, HandleFiles
<1>. QED
  BY <1>1, <1>2, FilesOfAllGrows DEF Referenced

\* The files are left alone: the rows and the requests stay sound.
LEMMA FilesKept ==
    ASSUME FilesInv, RefsKept, UNCHANGED <<now, file>>
    PROVE  /\ HandlesKnown' /\ BatchesGoOn' /\ HeadFilesPresent' /\ UnreadFilesPresent'
           /\ VerifiedFilesPresent'
<1>1. HandlesKnown' /\ BatchesGoOn'
  BY DEF FilesInv, RefsKept, HandlesKnown, BatchesGoOn
<1>2. HeadFilesPresent' /\ UnreadFilesPresent'
  BY DEF FilesInv, RefsKept, HeadFilesPresent, UnreadFilesPresent, Present, FilesOfAll,
         Generations, Unread
<1>3. VerifiedFilesPresent'
  BY DEF FilesInv, RefsKept, VerifiedFilesPresent, Present, FilesOfAll, Generations, HandleFiles
<1>. QED
  BY <1>1, <1>2, <1>3

\* A look of the collector at the references, the end of a collection, and the
\* verdict on a file.
LEMMA CollectorTyped ==
    ASSUME TypeOK, NEW L \in SUBSET Digests, NEW E \in SUBSET Digests, NEW V \in SUBSET Digests,
           NEW pc \in {"idle", "scan", "batch", "recheck", "unlink"}, NEW t \in Nat
    PROVE  [pc |-> pc, clock |-> t, live |-> L, eligible |-> E, victim |-> V] \in Collector
  BY DEF Collector

LEMMA IdleCollectorTyped ==
    /\ IdleCollector \in Collector /\ IdleCollector.pc = "idle" /\ IdleCollector.clock = 0
    /\ IdleCollector.victim = {}
  BY DEF IdleCollector, Collector

LEMMA ReferencedTyped ==
    ASSUME TypeOK, NEW t \in Nat
    PROVE  Referenced(t) \subseteq Digests /\ Received \subseteq Digests
<1>1. LiveGenerations(t) \subseteq Attempts
  <2>1. \A h \in {i \in Alive : handles[i].expires + Retention > t} \cup Latest : h \in 1 .. Len(handles)
    BY DEF Alive, Latest
  <2>. QED
    BY <2>1, ReferencesTyped DEF LiveGenerations
<1>2. Received \subseteq Digests
  BY Typing DEF Received, AttemptRow
<1>. QED
  BY <1>1, <1>2, FilesInDigests DEF Referenced

\* The collector lets go of the guard, or does not hold it yet.
LEMMA CollectorOutside ==
    ASSUME FilesInv, RefsKept, UNCHANGED <<now, file>>, stops' \in Nat,
           gc' \in Collector, gc'.pc \notin {"recheck", "unlink"}, gc'.victim = {}, gc'.clock <= now
    PROVE  FilesInv'
<1>1. TypeOK'
  BY DEF FilesInv, TypeOK, RefsKept
<1>2. VictimIsGarbage' /\ GuardKnows'
  BY DEF VictimIsGarbage, GuardKnows
<1>. QED
  BY <1>1, <1>2, FilesKept DEF FilesInv

\* The collector holds the guard, and finds no less referenced than before.
LEMMA CollectorInside ==
    ASSUME FilesInv, RefsKept, UNCHANGED <<now, stops>>,
           file' = file \/ \E d \in gc.victim : file' = [file EXCEPT ![d] = None],
           gc' \in Collector, gc.pc \in {"recheck", "unlink"}, gc'.pc \in {"recheck", "unlink", "idle"},
           gc'.pc # "unlink" => gc'.victim = {},
           gc'.clock <= now, gc'.pc # "idle" => gc'.clock = gc.clock /\ gc.live \subseteq gc'.live,
           gc'.victim \cap gc'.live = {}
    PROVE  FilesInv'
<1>0. /\ TypeOK /\ HandlesKnown /\ file \in [Digests -> Nat \cup {None}]
      /\ gc \in Collector /\ now \in Nat /\ Retention \in Nat
  BY SnapshotsAssumption DEF FilesInv, TypeOK
<1>1. TypeOK'
  <2>1. file' \in [Digests -> Nat \cup {None}]
    BY <1>0
  <2>. QED
    BY <1>0, <2>1 DEF TypeOK, RefsKept
<1>2. HandlesKnown' /\ BatchesGoOn' /\ VictimIsGarbage'
  BY DEF FilesInv, RefsKept, HandlesKnown, BatchesGoOn, VictimIsGarbage
<1>3. GuardKnows'
  <2>. SUFFICES ASSUME gc'.pc \in {"recheck", "unlink"} PROVE GuardKnows'
    BY DEF GuardKnows
  <2>0. gc'.clock = gc.clock /\ gc.live \subseteq gc'.live
    OBVIOUS
  <2>1. /\ FilesOfAll(Generations(ptr))' = FilesOfAll(Generations(ptr))
        /\ FilesOfAll(Unread)' = FilesOfAll(Unread)
    BY DEF RefsKept, FilesOfAll, Generations, Unread
  <2>2. \A q \in Readers : /\ Relies(q, gc.clock)' <=> Relies(q, gc.clock)
                           /\ HandleFiles(reader[q].handle)' = HandleFiles(reader[q].handle)
    BY <2>0 DEF RefsKept, Relies, HandleFiles, FilesOfAll, Generations
  <2>. QED
    BY <2>0, <2>1, <2>2 DEF FilesInv, GuardKnows
<1>4. ASSUME NEW D, D \subseteq gc.live, Present(D), D \subseteq Digests
      PROVE  \A d \in D : file'[d] # None
  <2>1. CASE file' = file
    BY <1>4, <2>1 DEF Present
  <2>2. ASSUME NEW v \in gc.victim, file' = [file EXCEPT ![v] = None]
        PROVE  \A d \in D : file'[d] # None
    <3>1. v \notin D
      BY <1>4 DEF FilesInv, VictimIsGarbage
    <3>. QED
      BY <1>0, <1>4, <2>2, <3>1 DEF Present
  <2>. QED
    BY <2>1, <2>2
<1>5. HeadFilesPresent'
  <2>. DEFINE D == FilesOfAll(Generations(ptr))
  <2>1. D \subseteq gc.live /\ Present(D) /\ D \subseteq Digests
    BY <1>0, ReferencesTyped, FilesInDigests DEF FilesInv, GuardKnows, HeadFilesPresent
  <2>2. D' = D
    BY DEF RefsKept, FilesOfAll, Generations
  <2>. HIDE DEF D
  <2>3. \A d \in D : file'[d] # None
    BY <1>4, <2>1
  <2>4. \A d \in D' : file'[d] # None
    BY <2>2, <2>3
  <2>. QED
    BY <2>4 DEF HeadFilesPresent, Present, D
<1>6. UnreadFilesPresent'
  <2>. DEFINE D == FilesOfAll(Unread)
  <2>1. D \subseteq gc.live /\ Present(D) /\ D \subseteq Digests
    BY <1>0, ReferencesTyped, FilesInDigests DEF FilesInv, GuardKnows, UnreadFilesPresent
  <2>2. D' = D
    BY DEF RefsKept, FilesOfAll, Unread
  <2>. HIDE DEF D
  <2>3. \A d \in D : file'[d] # None
    BY <1>4, <2>1
  <2>4. \A d \in D' : file'[d] # None
    BY <2>2, <2>3
  <2>. QED
    BY <2>4 DEF UnreadFilesPresent, Present, D
<1>7. VerifiedFilesPresent'
  <2>. SUFFICES ASSUME NEW q \in Readers, Relies(q, now)'
       PROVE  Present(HandleFiles(reader[q].handle))'
    BY DEF VerifiedFilesPresent, Relies, Looked
  <2>. DEFINE D == HandleFiles(reader[q].handle)
  <2>1. Relies(q, now) /\ D' = D
    BY DEF RefsKept, Relies, HandleFiles, FilesOfAll, Generations
  <2>2. Relies(q, gc.clock)
    <3>1. PICK h \in 1 .. Len(handles) : h = reader[q].handle
      BY <1>0, <2>1 DEF HandlesKnown, Relies
    <3>2. handles[h].expires \in Nat
      BY <1>0, Typing DEF HandleRow
    <3>3. gc.clock <= now /\ gc.clock \in Nat
      BY <1>0 DEF FilesInv, VictimIsGarbage, Collector
    <3>4. handles[h].expires + Retention > now
      BY <2>1, <3>1 DEF Relies
    <3>5. handles[h].expires + Retention > gc.clock
      BY <1>0, <3>2, <3>3, <3>4
    <3>. QED
      BY <2>1, <3>1, <3>5 DEF Relies
  <2>3. D \subseteq gc.live
    BY <2>2 DEF FilesInv, GuardKnows
  <2>4. Present(D)
    BY <2>1 DEF FilesInv, VerifiedFilesPresent, Relies, Looked
  <2>5. D \subseteq Digests
    BY <1>0, <2>1, ReliedTyped DEF Relies
  <2>. HIDE DEF D
  <2>6. \A d \in D : file'[d] # None
    BY <1>4, <2>3, <2>4, <2>5
  <2>7. \A d \in D' : file'[d] # None
    BY <2>1, <2>6
  <2>. QED
    BY <2>7 DEF Present, D
<1>. QED
  BY <1>1, <1>2, <1>3, <1>5, <1>6, <1>7 DEF FilesInv

\* With its last file a collection is done.
LEMMA PassedTyped ==
    ASSUME TypeOK, gc.clock <= now, NEW d \in Digests
    PROVE  /\ Passed(d) \in Collector /\ Passed(d).victim = {} /\ Passed(d).clock <= now
           /\ Passed(d).pc \in {"idle", gc.pc}
           /\ Passed(d).pc # "idle" => Passed(d).clock = gc.clock /\ Passed(d).live = gc.live
<1>0. gc \in Collector /\ now \in Nat
  BY DEF TypeOK
<1>. DEFINE x == [gc EXCEPT !.eligible = gc.eligible \ {d}, !.victim = {}]
<1>1. /\ x \in Collector /\ x.victim = {} /\ x.clock = gc.clock /\ x.pc = gc.pc
      /\ x.live = gc.live
  BY <1>0 DEF Collector
<1>2. Passed(d) = IdleCollector \/ Passed(d) = x
  BY DEF Passed
<1>. HIDE DEF x
<1>. QED
  BY <1>0, <1>1, <1>2, IdleCollectorTyped

LEMMA GCStepKeeps ==
    ASSUME FilesInv, GCStep
    PROVE  FilesInv'
<1>0. /\ TypeOK /\ HandlesKnown /\ gc \in Collector /\ now \in Nat /\ stops \in Nat
      /\ gc.clock \in Nat /\ gc.clock <= now
      /\ gc.pc # "unlink" => gc.victim = {}
  BY DEF FilesInv, TypeOK, Collector, VictimIsGarbage
<1>1. RefsKept /\ UNCHANGED <<now, stops>>
  BY DEF GCStep, GCStart, GCScan, GCLock, GCRecheck, GCStat, GCUnlink, RefsKept
<1>2. CASE GCStart
  <2>. DEFINE x == [IdleCollector EXCEPT !.pc = "scan", !.clock = now, !.live = Referenced(now)]
  <2>1. x \in Collector /\ x.pc = "scan" /\ x.victim = {} /\ x.clock = now
    BY <1>0, ReferencedTyped, IdleCollectorTyped DEF Collector
  <2>2. gc' = x /\ UNCHANGED file
    BY <1>2 DEF GCStart
  <2>. HIDE DEF x
  <2>3. gc' \in Collector /\ gc'.pc \notin {"recheck", "unlink"} /\ gc'.victim = {} /\ gc'.clock <= now
    BY <1>0, <2>1, <2>2
  <2>. QED
    BY <1>0, <1>1, <2>2, <2>3, CollectorOutside
<1>3. CASE GCScan
  <2>. DEFINE E == {d \in Unreferenced(gc.live) : Aged(d, gc.clock)}
              x == [gc EXCEPT !.pc = "batch", !.live = {}, !.eligible = E]
  <2>1. E \subseteq Digests
    BY DEF Unreferenced
  <2>2. gc.pc = "scan" /\ UNCHANGED file /\ (gc' = IdleCollector \/ gc' = x)
    BY <1>3 DEF GCScan
  <2>3. x \in Collector /\ x.pc = "batch" /\ x.victim = gc.victim /\ x.clock = gc.clock
    <3>. HIDE DEF E
    <3>. QED
      BY <1>0, <2>1 DEF Collector
  <2>. HIDE DEF x
  <2>4. gc.victim = {}
    BY <1>0, <2>2
  <2>5. gc' \in Collector /\ gc'.pc \notin {"recheck", "unlink"} /\ gc'.victim = {} /\ gc'.clock <= now
    BY <1>0, <2>2, <2>3, <2>4, IdleCollectorTyped
  <2>. QED
    BY <1>0, <1>1, <2>2, <2>5, CollectorOutside
<1>4. CASE GCLock
  <2>. DEFINE x == [gc EXCEPT !.pc = "recheck", !.live = Referenced(gc.clock)]
  <2>1. gc.pc = "batch" /\ gc' = x /\ UNCHANGED file
    BY <1>4 DEF GCLock
  <2>2. /\ x \in Collector /\ x.pc = "recheck" /\ x.victim = gc.victim /\ x.clock = gc.clock
        /\ x.live = Referenced(gc.clock)
    BY <1>0, ReferencedTyped DEF Collector
  <2>. HIDE DEF x
  <2>3. TypeOK'
    BY <1>1, <1>0, <2>1, <2>2 DEF TypeOK, RefsKept
  <2>4. VictimIsGarbage'
    BY <1>0, <1>1, <2>1, <2>2 DEF VictimIsGarbage
  <2>5. GuardKnows'
    <3>1. PICK t \in Nat : t = gc.clock
      BY <1>0
    <3>2. gc'.clock = t /\ gc'.live = Referenced(t)
      BY <2>1, <2>2, <3>1
    <3>3. /\ FilesOfAll(Generations(ptr))' = FilesOfAll(Generations(ptr))
          /\ FilesOfAll(Unread)' = FilesOfAll(Unread)
      BY <1>1 DEF RefsKept, FilesOfAll, Generations, Unread
    <3>4. \A q \in Readers : /\ Relies(q, gc.clock)' <=> Relies(q, t)
                             /\ HandleFiles(reader[q].handle)' = HandleFiles(reader[q].handle)
      BY <1>1, <3>2 DEF RefsKept, Relies, HandleFiles, FilesOfAll, Generations
    <3>5. /\ FilesOfAll(Generations(ptr)) \subseteq Referenced(t)
          /\ FilesOfAll(Unread) \subseteq Referenced(t)
          /\ \A q \in Readers : Relies(q, t) => HandleFiles(reader[q].handle) \subseteq Referenced(t)
      BY <1>0, <3>1, ReferencedIsAll
    <3>. QED
      BY <3>2, <3>3, <3>4, <3>5 DEF GuardKnows
  <2>. QED
    BY <1>1, <2>1, <2>3, <2>4, <2>5, FilesKept DEF FilesInv
<1>5. CASE GCRecheck
  <2>. DEFINE x == [gc EXCEPT !.pc = "unlink", !.live = gc.live \cup Received]
  <2>1. gc.pc = "recheck" /\ gc' = x /\ UNCHANGED file
    BY <1>5 DEF GCRecheck
  <2>2. /\ x \in Collector /\ x.pc = "unlink" /\ x.victim = gc.victim /\ x.clock = gc.clock
        /\ x.live = gc.live \cup Received
    BY <1>0, ReferencedTyped DEF Collector
  <2>. HIDE DEF x
  <2>3. gc.victim = {}
    BY <1>0, <2>1
  <2>4. /\ gc' \in Collector /\ gc.pc \in {"recheck", "unlink"} /\ gc'.pc = "unlink"
        /\ gc'.victim = {} /\ gc'.clock = gc.clock /\ gc.live \subseteq gc'.live
    BY <2>1, <2>2, <2>3
  <2>. QED
    BY <1>0, <1>1, <2>1, <2>4, CollectorInside
<1>6. ASSUME NEW d \in Digests, GCStat(d)
      PROVE  FilesInv'
  <2>1. gc.pc = "unlink" /\ gc.victim = {} /\ UNCHANGED file
    BY <1>6 DEF GCStat
  <2>2. CASE d \notin gc.live /\ Aged(d, gc.clock)
    <3>. DEFINE x == [gc EXCEPT !.victim = {d}]
    <3>1. gc' = x
      BY <1>6, <2>2 DEF GCStat
    <3>2. /\ x \in Collector /\ x.pc = gc.pc /\ x.victim = {d} /\ x.clock = gc.clock
          /\ x.live = gc.live
      BY <1>0 DEF Collector
    <3>. HIDE DEF x
    <3>3. /\ gc' \in Collector /\ gc'.pc = "unlink" /\ gc'.victim \cap gc'.live = {}
          /\ gc'.clock = gc.clock /\ gc.live \subseteq gc'.live
      BY <2>1, <2>2, <3>1, <3>2
    <3>. QED
      BY <1>0, <1>1, <2>1, <3>3, CollectorInside
  <2>3. CASE ~(d \notin gc.live /\ Aged(d, gc.clock))
    <3>1. gc' = Passed(d)
      BY <1>6, <2>3 DEF GCStat
    <3>2. /\ gc' \in Collector /\ gc'.victim = {} /\ gc'.clock <= now
          /\ gc'.pc \in {"idle", "unlink"}
          /\ gc'.pc # "idle" => gc'.clock = gc.clock /\ gc'.live = gc.live
      BY <1>0, <2>1, <3>1, PassedTyped
    <3>. QED
      BY <1>0, <1>1, <2>1, <3>2, CollectorInside
  <2>. QED
    BY <2>2, <2>3
<1>7. ASSUME NEW d \in Digests, GCUnlink(d)
      PROVE  FilesInv'
  <2>1. d \in gc.victim /\ file' = [file EXCEPT ![d] = None] /\ gc' = Passed(d)
    BY <1>7 DEF GCUnlink
  <2>2. gc.pc = "unlink"
    BY <1>0, <2>1
  <2>3. /\ gc' \in Collector /\ gc'.victim = {} /\ gc'.clock <= now
        /\ gc'.pc \in {"idle", "unlink"}
        /\ gc'.pc # "idle" => gc'.clock = gc.clock /\ gc'.live = gc.live
    BY <1>0, <2>1, <2>2, PassedTyped
  <2>. QED
    BY <1>0, <1>1, <2>1, <2>2, <2>3, CollectorInside
<1>. QED
  BY <1>2, <1>3, <1>4, <1>5, <1>6, <1>7 DEF GCStep

LEMMA GCStopKeeps ==
    ASSUME FilesInv, GCStop
    PROVE  FilesInv'
<1>0. now \in Nat /\ stops \in Nat
  BY DEF FilesInv, TypeOK
<1>1. RefsKept /\ UNCHANGED <<now, file>> /\ stops' = stops + 1 /\ gc' = IdleCollector
  BY DEF GCStop, RefsKept
<1>2. /\ gc' \in Collector /\ gc'.pc \notin {"recheck", "unlink"} /\ gc'.victim = {}
      /\ gc'.clock <= now /\ stops' \in Nat
  BY <1>0, <1>1, IdleCollectorTyped
<1>. QED
  BY <1>1, <1>2, CollectorOutside

LEMMA TickKeeps ==
    ASSUME FilesInv, Tick
    PROVE  FilesInv'
<1>0. /\ TypeOK /\ HandlesKnown /\ now \in Nat /\ gc.clock \in Nat /\ gc.clock <= now
      /\ Retention \in Nat
  BY SnapshotsAssumption DEF FilesInv, TypeOK, VictimIsGarbage, Collector
<1>1. /\ now' = now + 1
      /\ UNCHANGED <<att, file, ptr, gens, roster, handles, reader, checkpoint, daily, gc, stops>>
  BY DEF Tick
<1>2. TypeOK' /\ HandlesKnown' /\ BatchesGoOn'
  BY <1>0, <1>1 DEF FilesInv, TypeOK, HandlesKnown, BatchesGoOn
<1>3. VictimIsGarbage'
  BY <1>0, <1>1 DEF FilesInv, VictimIsGarbage
<1>4. HeadFilesPresent' /\ UnreadFilesPresent'
  BY <1>1 DEF FilesInv, HeadFilesPresent, UnreadFilesPresent, Present, FilesOfAll,
              Generations, Unread
<1>5. GuardKnows'
  <2>1. /\ FilesOfAll(Generations(ptr))' = FilesOfAll(Generations(ptr))
        /\ FilesOfAll(Unread)' = FilesOfAll(Unread)
    BY <1>1 DEF FilesOfAll, Generations, Unread
  <2>2. \A q \in Readers : /\ Relies(q, gc.clock)' <=> Relies(q, gc.clock)
                           /\ HandleFiles(reader[q].handle)' = HandleFiles(reader[q].handle)
    BY <1>1 DEF Relies, HandleFiles, FilesOfAll, Generations
  <2>. QED
    BY <1>1, <2>1, <2>2 DEF FilesInv, GuardKnows
<1>6. VerifiedFilesPresent'
  <2>. SUFFICES ASSUME NEW q \in Readers, Relies(q, now)'
       PROVE  Present(HandleFiles(reader[q].handle))'
    BY DEF VerifiedFilesPresent, Relies, Looked
  <2>1. /\ reader[q].pc \in Looked /\ handles[reader[q].handle].alive
        /\ handles[reader[q].handle].expires + Retention > now + 1
    BY <1>1 DEF Relies
  <2>2. PICK h \in 1 .. Len(handles) : h = reader[q].handle
    BY <1>0, <2>1 DEF HandlesKnown
  <2>3. handles[h].expires \in Nat
    BY <1>0, Typing DEF HandleRow
  <2>4. handles[h].expires + Retention > now
    BY <1>0, <2>1, <2>2, <2>3
  <2>5. Present(HandleFiles(reader[q].handle))
    BY <2>1, <2>2, <2>4 DEF FilesInv, VerifiedFilesPresent, Looked
  <2>. QED
    BY <1>1, <2>5 DEF Present, HandleFiles, FilesOfAll, Generations
<1>. QED
  BY <1>2, <1>3, <1>4, <1>5, <1>6 DEF FilesInv

-----------------------------------------------------------------------------
(***************************************************************************)
(* The theorems.                                                           *)
(***************************************************************************)

LEMMA StutterKeeps ==
    ASSUME FilesInv, UNCHANGED vars
    PROVE  FilesInv'
<1>1. RefsKept /\ UNCHANGED <<now, file, gc, stops>>
  BY DEF vars, RefsKept
<1>2. TypeOK' /\ VictimIsGarbage'
  BY <1>1 DEF FilesInv, TypeOK, VictimIsGarbage, RefsKept
<1>3. GuardKnows'
  <2>1. /\ FilesOfAll(Generations(ptr))' = FilesOfAll(Generations(ptr))
        /\ FilesOfAll(Unread)' = FilesOfAll(Unread)
    BY <1>1 DEF RefsKept, FilesOfAll, Generations, Unread
  <2>2. \A q \in Readers : /\ Relies(q, gc.clock)' <=> Relies(q, gc.clock)
                           /\ HandleFiles(reader[q].handle)' = HandleFiles(reader[q].handle)
    BY <1>1 DEF RefsKept, Relies, HandleFiles, FilesOfAll, Generations
  <2>. QED
    BY <1>1, <2>1, <2>2 DEF FilesInv, GuardKnows
<1>. QED
  BY <1>1, <1>2, <1>3, FilesKept DEF FilesInv

LEMMA FilesInductive == FilesInv /\ [Next]_vars => FilesInv'
<1>. SUFFICES ASSUME FilesInv, [Next]_vars PROVE FilesInv'
  OBVIOUS
<1>1. CASE AttemptStep
  BY <1>1, AttemptStepKeeps
<1>2. CASE PruneSnapshots \/ \E r \in Readers : ReaderStep(r)
  BY <1>2, ReaderStepKeeps
<1>3. CASE \E w \in DailyWorkers : DailyStep(w)
  BY <1>3, DailyStepKeeps
<1>4. CASE GCStep
  BY <1>4, GCStepKeeps
<1>5. CASE GCStop
  BY <1>5, GCStopKeeps
<1>6. CASE Tick
  BY <1>6, TickKeeps
<1>7. CASE UNCHANGED vars
  BY <1>7, StutterKeeps
<1>. QED
  BY <1>1, <1>2, <1>3, <1>4, <1>5, <1>6, <1>7 DEF Next, AttemptStep

THEOREM FilesSafe == Spec => []FilesInv
<1>1. Init => FilesInv
  BY InitInv
<1>2. FilesInv /\ [Next]_vars => FilesInv'
  BY FilesInductive
<1>. QED
  BY <1>1, <1>2, PTL DEF Spec

\* Rows, files and processes keep their types in every execution.
THEOREM SnapshotsTyped == Spec => []TypeOK
<1>1. FilesInv => TypeOK
  BY DEF FilesInv
<1>. QED
  BY <1>1, FilesSafe, PTL

\* export_gc never removes a file that a head or an approved inventory row refers to,
\* whatever the attempts do between the statements by which it looks for references, and
\* refresh_daily_summaries finds the files of every generation after its checkpoint,
\* however many aggregations run and however far they are behind.
THEOREM PublicationsKeepFiles == Spec => []PublishedFilesPresent
<1>1. FilesInv => PublishedFilesPresent
  BY DEF FilesInv, PublishedFilesPresent
<1>. QED
  BY <1>1, FilesSafe, PTL

\* A snapshot that ensure_snapshot_files has looked at keeps its files as long as
\* its row and the retention window after its expiry last, for any number of readers
\* that issue, reuse, renew and copy snapshots without the artifact guard.
THEOREM SnapshotsKeepFiles == Spec => []VerifiedFilesPresent
<1>1. FilesInv => VerifiedFilesPresent
  BY DEF FilesInv
<1>. QED
  BY <1>1, FilesSafe, PTL
=============================================================================
