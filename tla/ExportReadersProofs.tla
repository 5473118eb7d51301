------------------------- MODULE ExportReadersProofs -------------------------
(***************************************************************************)
(* Proofs about the readers of ExportReaders, as a part of Serving: what a *)
(* client that follows the watermark holds, and what an answer whose pages *)
(* all said ok contains, for any number of clients, locations, scopes and  *)
(* publications.  The invariant ReadersInv follows a publication from the  *)
(* freeze that reads it (FrozenWell) over the handle that carries it, the  *)
(* reuse and the fallback (HandleKnown) and the pages (BroughtOnly,        *)
(* LeftOutOver, OkBrought) to the copy of the client (HoldsRow).           *)
(***************************************************************************)
EXTENDS Serving, FiniteSetTheorems, WellFoundedInduction, TLAPS

-----------------------------------------------------------------------------
(***************************************************************************)
(* The greatest element.                                                   *)
(***************************************************************************)

\* The order that is well-founded on the natural numbers.
NatLess == {mn \in Nat \X Nat : mn[1] < mn[2]}

\* A nonempty set of numbers that has a bound has a greatest element, and Max is it.
LEMMA MaxIsGreatest ==
    ASSUME NEW T \in SUBSET Nat, T # {}, NEW b \in Nat, \A t \in T : t <= b
    PROVE  Max(T) \in T /\ \A t \in T : t <= Max(T)
<1>1. IsWellFoundedOn(NatLess, Nat)
  BY NatLessThanWellFounded DEF OpToRel, NatLess
<1>. DEFINE U == {b - t : t \in T}
<1>2. U \in SUBSET Nat /\ U # {}
  <2>1. \A t \in T : b - t \in Nat
    OBVIOUS
  <2>. QED
    BY <2>1
<1>. HIDE DEF U
<1>3. PICK u \in U : \A m \in U : <<m, u>> \notin NatLess
  BY <1>1, <1>2, WFMin
<1>4. \A m \in U : u <= m
  <2>1. \A m, k \in Nat : m < k => <<m, k>> \in NatLess
    BY DEF NatLess
  <2>2. \A m \in U : ~(m < u)
    BY <1>2, <1>3, <2>1
  <2>. QED
    BY <1>2, <2>2
<1>5. PICK x \in T : u = b - x
  BY <1>3 DEF U
<1>6. \A t \in T : x >= t
  <2>. SUFFICES ASSUME NEW t \in T PROVE x >= t
    OBVIOUS
  <2>1. b - t \in U
    BY DEF U
  <2>2. b - x <= b - t
    BY <1>4, <1>5, <2>1
  <2>. QED
    BY <2>2
<1>. QED
  BY <1>5, <1>6 DEF Max

-----------------------------------------------------------------------------
(***************************************************************************)
(* The readers: what is frozen and what a client holds.                    *)
(***************************************************************************)

\* The types.
RowVector == [Locations -> [Parts -> Nat]]
PublicationRow == [scope : Scopes, rev : Int, collected : Nat]
ManifestRow ==
    [since : Nat, locs : SUBSET Locations, v : RowVector, next : Nat, unconf : BOOLEAN,
     period : Int, limited : BOOLEAN, expires : Int]
ViewRow ==
    [locs : SUBSET Locations, v : RowVector, next : Nat, unconf : BOOLEAN, ready : BOOLEAN]
ClientRow ==
    [pc : {"idle", "frozen", "reused", "page"}, since : Nat, copy : [Locations -> Nat],
     tracked : SUBSET Locations, view : ViewRow, snap : Nat, doubt : BOOLEAN, pos : Nat,
     got : [Locations -> Nat], ok : BOOLEAN]

ReadersTyped ==
    /\ style \in Styles
    /\ now \in Nat
    /\ gens \in Seq(PublicationRow)
    /\ cover \in [Scopes -> Nat]
    /\ snaps \in Seq(ManifestRow)
    /\ client \in [Clients -> ClientRow]

\* The publication i is the row of the part p of the location l at the watermark n.
IsRow(l, p, n, i) ==
    /\ i \in 1 .. n
    /\ gens[i].scope = ScopeOf[p][l]
    /\ \A j \in i + 1 .. n : gens[j].scope # ScopeOf[p][l]

OverRow(i) == gens[i].rev + Reach <= now

\* The vector v has the rows of its locations as they were at the watermark n.
FrozenAt(locs, v, n) ==
    /\ n <= Len(gens)
    /\ locs = Chosen(v)
    /\ \A l \in locs, p \in Parts : IsRow(l, p, n, v[l][p])

CoveredAt(v) == \A l \in Locations : v[l]["main"] # 0 => cover[ScopeOf["main"][l]] # 0

\* What a manifest keeps was read at one moment.
FrozenWell(since, locs, v, next) ==
    /\ HasSince => since <= next /\ FrozenAt(locs, v, next)
    /\ style \notin {"daily", "locations"} => locs = Chosen(v)
    /\ style = "daily" => CoveredAt(v) /\ Chosen(v) \subseteq locs

SnapKnows(h) == \A m \in {snaps[h]} : FrozenWell(m.since, m.locs, m.v, m.next)

ViewKnows(c) ==
    client[c].pc = "frozen" /\ client[c].view.ready =>
        \A k \in {client[c]} : FrozenWell(k.since, k.view.locs, k.view.v, k.view.next)

\* What a client holds of a location at its watermark is the last row, or the rows are over.
HoldsRow(copied, l, n) ==
    /\ \A p \in Parts : \E i \in 1 .. n : IsRow(l, p, n, i)
    /\ \/ /\ \E p \in Parts : IsRow(l, p, n, copied)
          /\ \A p \in Parts, j \in 1 .. n : IsRow(l, p, n, j) => j <= copied
       \/ \A p \in Parts, j \in 1 .. n : IsRow(l, p, n, j) => OverRow(j)

CopyKnows(c) ==
    HasSince =>
        /\ client[c].since <= Len(gens)
        /\ \A k \in {client[c]} : \A l \in k.tracked : HoldsRow(k.copy[l], l, k.since)

HandleKnown(c) ==
    client[c].pc \in {"reused", "page"} =>
        /\ client[c].snap \in 1 .. Len(snaps)
        /\ snaps[client[c].snap].since = client[c].since

\* What the pages so far brought, and what they left out; k is the state of a client
\* and m the manifest its pages come from.
BroughtOnly(k, m) ==
    \A l \in Locations : k.got[l] # 0 =>
        /\ l <= k.pos /\ Changed(m, l)
        /\ HasSince => k.got[l] = Published(m.v, l)
LeftOutOver(k, m) ==
    HasSince => \A l \in Locations :
        l <= k.pos /\ Changed(m, l) /\ k.got[l] = 0 => Over(m, l)
OkBrought(k, m) ==
    k.ok /\ style # "locations" => \A l \in Locations :
        /\ l <= k.pos /\ Changed(m, l)
        /\ style = "daily" => m.v[l]["main"] # 0
        => k.got[l] # 0

PagesKnow(c) ==
    client[c].pc = "page" =>
        /\ client[c].pos <= Last
        /\ \A k \in {client[c]}, m \in {snaps[client[c].snap]} :
              BroughtOnly(k, m) /\ LeftOutOver(k, m) /\ OkBrought(k, m)

\* A request that has not read a page yet.
BeforePages(c) ==
    client[c].pc \in {"frozen", "reused"} =>
        /\ client[c].pos = 0 /\ client[c].ok
        /\ client[c].got = [l \in Locations |-> 0]

ClientKnows(c) == ViewKnows(c) /\ CopyKnows(c) /\ HandleKnown(c) /\ PagesKnow(c) /\ BeforePages(c)

ReadersInv ==
    /\ ReadersTyped
    /\ \A h \in 1 .. Len(snaps) : SnapKnows(h)
    /\ \A c \in Clients : ClientKnows(c)

-----------------------------------------------------------------------------

\* The locations are numbered, and a location has one part or two.
LEMMA Places == Last \in Nat /\ Locations = 1 .. Last
  BY ReadersAssumption, FS_CardinalityType DEF Last

\* A mid-term forecast has two parts, everything else has one.
LEMMA PartsAre ==
    /\ style = "mid" => Parts = {"land", "temperature"}
    /\ style # "mid" => Parts = {"main"}
  BY DEF Parts

\* Every part of a location has its scope.
LEMMA ScopesAre ==
    \A l \in Locations, p \in Parts : ScopeOf[p][l] \in Scopes
  BY DEF Scopes

\* Row is the last publication of the scope.
LEMMA RowIs ==
    ASSUME ReadersTyped, NEW l \in Locations, NEW p \in Parts
    PROVE  /\ Row(l, p) \in Nat /\ Len(gens) \in Nat
           /\ Row(l, p) # 0 => IsRow(l, p, Len(gens), Row(l, p))
           /\ Row(l, p) = 0 => \A i \in 1 .. Len(gens) : gens[i].scope # ScopeOf[p][l]
<1>. DEFINE I == {i \in 1 .. Len(gens) : gens[i].scope = ScopeOf[p][l]}
<1>1. Len(gens) \in Nat
  BY DEF ReadersTyped
<1>2. CASE I = {}
  BY <1>1, <1>2 DEF Row
<1>3. CASE I # {}
  <2>1. I \in SUBSET Nat /\ \A t \in I : t <= Len(gens)
    BY <1>1
  <2>2. Max(I) \in I /\ \A t \in I : t <= Max(I)
    BY <1>1, <1>3, <2>1, MaxIsGreatest
  <2>3. Row(l, p) = Max(I)
    BY <1>3 DEF Row
  <2>4. \A j \in Max(I) + 1 .. Len(gens) : j \notin I
    BY <1>1, <2>1, <2>2
  <2>5. Max(I) \in 1 .. Len(gens)
    BY <2>2
  <2>6. \A j \in Max(I) + 1 .. Len(gens) : j \in 1 .. Len(gens)
    BY <1>1, <2>5
  <2>7. \A j \in Max(I) + 1 .. Len(gens) : gens[j].scope # ScopeOf[p][l]
    BY <2>4, <2>6
  <2>. HIDE DEF I
  <2>8. gens[Max(I)].scope = ScopeOf[p][l]
    BY <2>2 DEF I
  <2>. QED
    BY <1>1, <2>3, <2>5, <2>7, <2>8 DEF IsRow
<1>. QED
  BY <1>2, <1>3

\* A watermark determines the row.
LEMMA RowIsOne ==
    ASSUME NEW l, NEW p, NEW n \in Nat, NEW i, NEW j, IsRow(l, p, n, i), IsRow(l, p, n, j)
    PROVE  i = j
<1>1. i \in 1 .. n /\ j \in 1 .. n
  BY DEF IsRow
<1>2. ASSUME j < i PROVE FALSE
  BY <1>1, <1>2, i \in j + 1 .. n DEF IsRow
<1>3. ASSUME i < j PROVE FALSE
  BY <1>1, <1>3, j \in i + 1 .. n DEF IsRow
<1>. QED
  BY <1>1, <1>2, <1>3

\* A row that was there at an earlier watermark was the row then.
LEMMA RowBefore ==
    ASSUME NEW l, NEW p, NEW n \in Nat, NEW k \in Nat, k <= n, NEW j \in 1 .. k,
           IsRow(l, p, n, j)
    PROVE  IsRow(l, p, k, j)
<1>1. \A i \in j + 1 .. k : i \in j + 1 .. n
  OBVIOUS
<1>. QED
  BY <1>1 DEF IsRow

\* Published is the later of the parts' rows.
LEMMA PublishedIs ==
    ASSUME NEW v \in RowVector, NEW l \in Locations
    PROVE  /\ Published(v, l) \in Nat
           /\ \E p \in Parts : Published(v, l) = v[l][p]
           /\ \A p \in Parts : v[l][p] \in Nat /\ v[l][p] <= Published(v, l)
<1>. DEFINE T == {v[l][p] : p \in Parts}
<1>1. v[l] \in [Parts -> Nat]
  BY DEF RowVector
<1>2. \A p \in Parts : v[l][p] \in Nat
  BY <1>1
<1>3. \E x \in T : \A y \in T : x >= y
  <2>1. CASE style = "mid"
    <3>1. Parts = {"land", "temperature"} /\ v[l]["land"] \in Nat /\ v[l]["temperature"] \in Nat
      BY <1>2, <2>1, PartsAre
    <3>2. v[l]["land"] \in T /\ v[l]["temperature"] \in T
          /\ \A y \in T : y = v[l]["land"] \/ y = v[l]["temperature"]
      BY <3>1
    <3>3. v[l]["land"] >= v[l]["temperature"] \/ v[l]["temperature"] >= v[l]["land"]
      BY <3>1
    <3>. HIDE DEF T
    <3>. QED
      BY <3>1, <3>2, <3>3
  <2>2. CASE style # "mid"
    <3>1. Parts = {"main"} /\ v[l]["main"] \in Nat
      BY <1>2, <2>2, PartsAre
    <3>. QED
      BY <3>1
  <2>. QED
    BY <2>1, <2>2
<1>4. Max(T) \in T /\ \A y \in T : Max(T) >= y
  BY <1>3 DEF Max
<1>5. Published(v, l) = Max(T)
  BY DEF Published
<1>. QED
  BY <1>2, <1>4, <1>5

-----------------------------------------------------------------------------
\* What every step leaves of the past: publications and snapshots are only added, a
\* summarized scope stays so, and time goes on.
Carries ==
    /\ style' = style
    /\ now <= now'
    /\ Len(gens) <= Len(gens') /\ \A i \in 1 .. Len(gens) : gens'[i] = gens[i]
    /\ \A s \in Scopes : cover[s] # 0 => cover'[s] # 0
    /\ Len(snaps) <= Len(snaps')
    /\ \A h \in 1 .. Len(snaps) :
          /\ snaps'[h].since = snaps[h].since /\ snaps'[h].locs = snaps[h].locs
          /\ snaps'[h].v = snaps[h].v /\ snaps'[h].next = snaps[h].next

\* What only depends on the reader of the behaviour is the same forever.
LEMMA StyleKept ==
    ASSUME style' = style
    PROVE  /\ Parts' = Parts /\ HasSince' = HasSince /\ Scopes' = Scopes
           /\ RowVector' = RowVector
  BY DEF Parts, HasSince, Scopes, RowVector

\* The parts of the types that the steps need.
LEMMA Typing ==
    ASSUME ReadersTyped
    PROVE  /\ Len(gens) \in Nat /\ Len(snaps) \in Nat /\ now \in Nat /\ Reach \in Nat
           /\ \A i \in 1 .. Len(gens) : gens[i] \in PublicationRow /\ gens[i].rev \in Int
           /\ \A h \in 1 .. Len(snaps) :
                 /\ snaps[h] \in ManifestRow
                 /\ snaps[h].v \in RowVector /\ snaps[h].locs \in SUBSET Locations
                 /\ snaps[h].since \in Nat /\ snaps[h].next \in Nat
                 /\ snaps[h].expires \in Int
<1>1. Len(gens) \in Nat /\ Len(snaps) \in Nat /\ now \in Nat /\ Reach \in Nat
  BY ReadersAssumption DEF ReadersTyped
<1>2. ASSUME NEW i \in 1 .. Len(gens) PROVE gens[i] \in PublicationRow /\ gens[i].rev \in Int
  <2>1. gens[i] \in PublicationRow
    BY DEF ReadersTyped
  <2>. QED
    BY <2>1 DEF PublicationRow
<1>3. ASSUME NEW h \in 1 .. Len(snaps)
      PROVE  /\ snaps[h] \in ManifestRow
             /\ snaps[h].v \in RowVector /\ snaps[h].locs \in SUBSET Locations
             /\ snaps[h].since \in Nat /\ snaps[h].next \in Nat
             /\ snaps[h].expires \in Int
  <2>1. snaps[h] \in ManifestRow
    BY DEF ReadersTyped
  <2>. QED
    BY <2>1 DEF ManifestRow
<1>. QED
  BY <1>1, <1>2, <1>3

\* The row at a watermark that is past does not change.
LEMMA RowKept ==
    ASSUME ReadersTyped, Carries, NEW l, NEW p, NEW n \in Nat, n <= Len(gens), NEW i
    PROVE  IsRow(l, p, n, i)' <=> IsRow(l, p, n, i)
<1>1. \A j \in 1 .. n : gens'[j] = gens[j]
  BY Typing DEF Carries
<1>2. ASSUME i \in 1 .. n PROVE \A j \in i + 1 .. n : gens'[j] = gens[j]
  BY <1>1, <1>2
<1>. QED
  BY <1>1, <1>2 DEF IsRow

\* A forecast that is over stays over.
LEMMA OverKept ==
    ASSUME ReadersTyped, ReadersTyped', Carries, NEW i \in 1 .. Len(gens), OverRow(i)
    PROVE  OverRow(i)'
<1>1. gens'[i] = gens[i] /\ now <= now' /\ now' \in Nat
  BY DEF Carries, ReadersTyped
<1>2. gens[i].rev + Reach <= now /\ gens[i].rev \in Int
  BY Typing DEF OverRow
<1>3. gens[i].rev + Reach <= now'
  BY <1>1, <1>2, Typing
<1>. QED
  BY <1>1, <1>3 DEF OverRow

\* What a client holds of a location stays right at its watermark.
LEMMA HoldsKept ==
    ASSUME ReadersTyped, ReadersTyped', Carries, NEW l, NEW n \in Nat, n <= Len(gens),
           NEW copied, HoldsRow(copied, l, n)
    PROVE  HoldsRow(copied, l, n)'
<1>1. Parts' = Parts
  BY StyleKept DEF Carries
<1>2. \A p, i : IsRow(l, p, n, i)' <=> IsRow(l, p, n, i)
  BY RowKept
<1>3. \A p \in Parts' : \E i \in 1 .. n : IsRow(l, p, n, i)'
  BY <1>1, <1>2 DEF HoldsRow
<1>4. CASE /\ \E p \in Parts : IsRow(l, p, n, copied)
           /\ \A p \in Parts, j \in 1 .. n : IsRow(l, p, n, j) => j <= copied
  BY <1>1, <1>2, <1>3, <1>4 DEF HoldsRow
<1>5. CASE \A p \in Parts, j \in 1 .. n : IsRow(l, p, n, j) => OverRow(j)
  <2>1. \A j \in 1 .. n : OverRow(j) => OverRow(j)'
    BY OverKept, Typing
  <2>2. \A p \in Parts', j \in 1 .. n : IsRow(l, p, n, j)' => OverRow(j)'
    BY <1>1, <1>2, <1>5, <2>1
  <2>. QED
    BY <1>3, <2>2 DEF HoldsRow
<1>. QED
  BY <1>4, <1>5 DEF HoldsRow

\* What a manifest promises of its vector stays so.
LEMMA FrozenKept ==
    ASSUME ReadersTyped, ReadersTyped', Carries, NEW since \in Nat, NEW locs \in SUBSET Locations,
           NEW v \in RowVector, NEW n \in Nat, FrozenWell(since, locs, v, n)
    PROVE  FrozenWell(since, locs, v, n)'
<1>1. Parts' = Parts /\ HasSince' = HasSince /\ Scopes' = Scopes /\ style' = style
  BY StyleKept DEF Carries
<1>2. Chosen(v)' = Chosen(v)
  BY <1>1 DEF Chosen
<1>3. ASSUME HasSince PROVE FrozenAt(locs, v, n)'
  <2>1. n <= Len(gens) /\ locs = Chosen(v) /\ \A l \in locs, p \in Parts : IsRow(l, p, n, v[l][p])
    BY <1>3 DEF FrozenWell, FrozenAt
  <2>2. n <= Len(gens')
    BY <2>1, Typing DEF Carries, ReadersTyped
  <2>3. \A l \in locs, p \in Parts' : IsRow(l, p, n, v[l][p])'
    BY <1>1, <2>1, RowKept
  <2>. QED
    BY <1>2, <2>1, <2>2, <2>3 DEF FrozenAt
<1>4. ASSUME style = "daily" PROVE CoveredAt(v)'
  <2>1. \A l \in Locations : ScopeOf["main"][l] \in Scopes
    BY <1>4, PartsAre, ScopesAre
  <2>. QED
    BY <1>4, <2>1 DEF FrozenWell, CoveredAt, Carries
<1>. QED
  BY <1>1, <1>2, <1>3, <1>4 DEF FrozenWell

\* The types of a client's state.
LEMMA ClientTyping ==
    ASSUME ReadersTyped, NEW c \in Clients
    PROVE  /\ client[c] \in ClientRow
           /\ client[c].since \in Nat /\ client[c].tracked \in SUBSET Locations
           /\ client[c].copy \in [Locations -> Nat] /\ client[c].got \in [Locations -> Nat]
           /\ client[c].pos \in Nat /\ client[c].snap \in Nat
           /\ client[c].view.locs \in SUBSET Locations /\ client[c].view.v \in RowVector
           /\ client[c].view.next \in Nat
<1>1. client[c] \in ClientRow
  BY DEF ReadersTyped
<1>2. client[c].view \in ViewRow
  BY <1>1 DEF ClientRow
<1>. QED
  BY <1>1, <1>2 DEF ClientRow, ViewRow

\* Every step that leaves well-frozen snapshots behind keeps those it found.
LEMMA SnapsKept ==
    ASSUME ReadersInv, ReadersTyped', Carries,
           \A h \in Len(snaps) + 1 .. Len(snaps') : SnapKnows(h)'
    PROVE  \A h \in 1 .. Len(snaps') : SnapKnows(h)'
<1>. SUFFICES ASSUME NEW h \in 1 .. Len(snaps') PROVE SnapKnows(h)'
  OBVIOUS
<1>1. Len(snaps) \in Nat /\ Len(snaps') \in Nat
  BY DEF ReadersInv, ReadersTyped
<1>2. CASE h \in 1 .. Len(snaps)
  <2>1. PICK m : m = snaps[h]
    OBVIOUS
  <2>2. PICK n : n = snaps'[h]
    OBVIOUS
  <2>3. /\ n.since = m.since /\ n.locs = m.locs /\ n.v = m.v /\ n.next = m.next
        /\ m.since \in Nat /\ m.locs \in SUBSET Locations /\ m.v \in RowVector /\ m.next \in Nat
    BY <1>2, <2>1, <2>2, Typing DEF Carries, ReadersInv
  <2>4. FrozenWell(m.since, m.locs, m.v, m.next)
    BY <1>2, <2>1 DEF ReadersInv, SnapKnows
  <2>5. FrozenWell(m.since, m.locs, m.v, m.next)'
    BY <2>3, <2>4, FrozenKept DEF ReadersInv
  <2>6. FrozenWell(n.since, n.locs, n.v, n.next)'
    BY <2>3, <2>5
  <2>. QED
    BY <2>2, <2>6 DEF SnapKnows
<1>3. CASE h \in Len(snaps) + 1 .. Len(snaps')
  BY <1>3
<1>. QED
  BY <1>1, <1>2, <1>3

\* What a manifest promises of a location stays so.
LEMMA ManifestKept ==
    ASSUME ReadersTyped, ReadersTyped', Carries, NEW m, NEW n, NEW l \in Locations,
           n.since = m.since, n.locs = m.locs, n.v = m.v, n.next = m.next,
           m.next \in Nat, FrozenWell(m.since, m.locs, m.v, m.next)
    PROVE  /\ Changed(n, l)' <=> Changed(m, l)
           /\ Published(n.v, l)' = Published(m.v, l)
           /\ Changed(m, l) /\ Over(m, l) => Over(n, l)'
<1>1. Parts' = Parts /\ HasSince' = HasSince /\ style' = style
  BY StyleKept DEF Carries
<1>2. Published(n.v, l)' = Published(m.v, l)
  BY <1>1 DEF Published
<1>3. Changed(n, l)' <=> Changed(m, l)
  BY <1>1, <1>2 DEF Changed
<1>4. ASSUME Changed(m, l), Over(m, l) PROVE Over(n, l)'
  <2>1. HasSince /\ l \in m.locs
    BY <1>4 DEF Changed, Over
  <2>2. \A p \in Parts : m.v[l][p] \in 1 .. m.next /\ m.next <= Len(gens)
    BY <2>1 DEF FrozenWell, FrozenAt, IsRow
  <2>3. \A p \in Parts : m.v[l][p] \in 1 .. Len(gens)
    BY <2>2, Typing
  <2>4. \A p \in Parts : OverRow(m.v[l][p])
    BY <1>4 DEF Over, OverRow
  <2>5. \A p \in Parts : OverRow(m.v[l][p])'
    BY <2>3, <2>4, OverKept
  <2>. QED
    BY <1>1, <2>1, <2>5 DEF Over, OverRow
<1>. QED
  BY <1>2, <1>3, <1>4

\* A client that a step leaves alone, except that it may track less.
Undisturbed(c) ==
    /\ client'[c].tracked \subseteq client[c].tracked
    /\ client'[c].pc = client[c].pc /\ client'[c].since = client[c].since
    /\ client'[c].copy = client[c].copy /\ client'[c].view = client[c].view
    /\ client'[c].snap = client[c].snap /\ client'[c].pos = client[c].pos
    /\ client'[c].got = client[c].got /\ client'[c].ok = client[c].ok

\* A client whose copy and watermark are left alone still knows its copy, ...
LEMMA CopyKept ==
    ASSUME ReadersInv, ReadersTyped', Carries, NEW c \in Clients,
           client'[c].tracked \subseteq client[c].tracked,
           client'[c].since = client[c].since, client'[c].copy = client[c].copy
    PROVE  CopyKnows(c)'
<1>. SUFFICES ASSUME HasSince' PROVE /\ client'[c].since <= Len(gens')
                                     /\ \A k \in {client'[c]} : \A l \in k.tracked : HoldsRow(k.copy[l], l, k.since)'
  BY DEF CopyKnows
<1>1. HasSince /\ CopyKnows(c) /\ ReadersTyped
  BY StyleKept DEF Carries, ReadersInv, ClientKnows
<1>2. client[c].since <= Len(gens) /\ client[c].since \in Nat
  BY <1>1, ClientTyping DEF CopyKnows
<1>3. client'[c].since <= Len(gens')
  BY <1>1, <1>2, Typing DEF Carries, ReadersTyped
<1>4. ASSUME NEW k \in {client'[c]}, NEW l \in k.tracked PROVE HoldsRow(k.copy[l], l, k.since)'
  <2>1. HoldsRow(client[c].copy[l], l, client[c].since)
    BY <1>1, <1>4 DEF CopyKnows
  <2>2. k.copy[l] = client[c].copy[l] /\ k.since = client[c].since
    BY <1>4
  <2>3. PICK x, n : x = client[c].copy[l] /\ n = client[c].since
    OBVIOUS
  <2>4. HoldsRow(x, l, n)'
    BY <1>1, <1>2, <2>1, <2>3, HoldsKept
  <2>5. x = k.copy[l] /\ n = k.since
    BY <2>2, <2>3
  <2>. QED
    BY <2>4, <2>5
<1>. QED
  BY <1>3, <1>4

\* What the pages of a request brought stays true when the request does not move.
LEMMA PagesKept ==
    ASSUME ReadersInv, ReadersTyped', Carries, NEW c \in Clients, Undisturbed(c)
    PROVE  PagesKnow(c)'
<1>. SUFFICES ASSUME client'[c].pc = "page",
                     NEW k \in {client'[c]}, NEW n \in {snaps'[client'[c].snap]}
              PROVE  /\ client'[c].pos <= Last
                     /\ BroughtOnly(k, n)' /\ LeftOutOver(k, n)' /\ OkBrought(k, n)'
  BY DEF PagesKnow, Last
<1>1. client[c].pc = "page" /\ PagesKnow(c) /\ HandleKnown(c) /\ ReadersTyped
  BY DEF Undisturbed, ReadersInv, ClientKnows
<1>2. PICK j, m : j = client[c] /\ m = snaps[client[c].snap]
  OBVIOUS
<1>3. /\ k.pos = j.pos /\ k.got = j.got /\ k.ok = j.ok
      /\ j.pos <= Last
      /\ BroughtOnly(j, m) /\ LeftOutOver(j, m) /\ OkBrought(j, m)
  BY <1>1, <1>2 DEF PagesKnow, Undisturbed
<1>4. client[c].snap \in 1 .. Len(snaps)
  BY <1>1 DEF HandleKnown
<1>5. /\ n.since = m.since /\ n.locs = m.locs /\ n.v = m.v /\ n.next = m.next
      /\ m.next \in Nat /\ FrozenWell(m.since, m.locs, m.v, m.next)
  <2>1. n = snaps'[client[c].snap]
    BY DEF Undisturbed
  <2>2. SnapKnows(client[c].snap)
    BY <1>4 DEF ReadersInv
  <2>. QED
    BY <1>1, <1>2, <1>4, <2>1, <2>2, Typing DEF Carries, SnapKnows
<1>6. \A l \in Locations :
          /\ Changed(n, l)' <=> Changed(m, l)
          /\ Published(n.v, l)' = Published(m.v, l)
          /\ Changed(m, l) /\ Over(m, l) => Over(n, l)'
  BY <1>1, <1>5, ManifestKept
<1>7. HasSince' = HasSince /\ style' = style
  BY StyleKept DEF Carries
<1>8. BroughtOnly(k, n)'
  BY <1>3, <1>6, <1>7 DEF BroughtOnly
<1>9. LeftOutOver(k, n)'
  BY <1>3, <1>6, <1>7 DEF LeftOutOver
<1>10. OkBrought(k, n)'
  BY <1>3, <1>5, <1>6, <1>7 DEF OkBrought
<1>11. client'[c].pos <= Last
  BY <1>2, <1>3 DEF Undisturbed
<1>. QED
  BY <1>8, <1>9, <1>10, <1>11

\* ... its handle still exists, ...
LEMMA HandleKept ==
    ASSUME ReadersInv, Carries, NEW c \in Clients, Undisturbed(c)
    PROVE  HandleKnown(c)'
<1>1. HandleKnown(c) /\ Len(snaps) \in Nat
  BY Typing DEF ReadersInv, ClientKnows
<1>. SUFFICES ASSUME client'[c].pc \in {"reused", "page"}
              PROVE  /\ client'[c].snap \in 1 .. Len(snaps')
                     /\ snaps'[client'[c].snap].since = client'[c].since
  BY DEF HandleKnown
<1>2. client[c].snap \in 1 .. Len(snaps) /\ snaps[client[c].snap].since = client[c].since
  BY <1>1 DEF HandleKnown, Undisturbed
<1>3. client'[c].snap = client[c].snap /\ client'[c].since = client[c].since
  BY DEF Undisturbed
<1>. QED
  BY <1>1, <1>2, <1>3 DEF Carries

\* ... what it read for its freeze is still of one moment,
LEMMA ViewKept ==
    ASSUME ReadersInv, ReadersTyped', Carries, NEW c \in Clients, Undisturbed(c)
    PROVE  ViewKnows(c)'
<1>. SUFFICES ASSUME client'[c].pc = "frozen" /\ client'[c].view.ready, NEW k \in {client'[c]}
              PROVE  FrozenWell(k.since, k.view.locs, k.view.v, k.view.next)'
  BY DEF ViewKnows
<1>1. PICK j : j = client[c]
  OBVIOUS
<1>2. FrozenWell(j.since, j.view.locs, j.view.v, j.view.next)
  BY <1>1 DEF ReadersInv, ClientKnows, ViewKnows, Undisturbed
<1>3. /\ j.since \in Nat /\ j.view.locs \in SUBSET Locations
      /\ j.view.v \in RowVector /\ j.view.next \in Nat
  BY <1>1, ClientTyping DEF ReadersInv
<1>4. FrozenWell(j.since, j.view.locs, j.view.v, j.view.next)'
  BY <1>2, <1>3, FrozenKept DEF ReadersInv
<1>5. k.since = j.since /\ k.view = j.view
  BY <1>1 DEF Undisturbed
<1>. QED
  BY <1>4, <1>5

\* and so nobody disturbs a client by what it does elsewhere.
LEMMA ClientKept ==
    ASSUME ReadersInv, ReadersTyped', Carries, NEW c \in Clients, Undisturbed(c)
    PROVE  ClientKnows(c)'
<1>1. ViewKnows(c)' /\ HandleKnown(c)' /\ PagesKnow(c)'
  BY ViewKept, HandleKept, PagesKept
<1>2. CopyKnows(c)'
  BY CopyKept DEF Undisturbed
<1>3. BeforePages(c)'
  BY DEF BeforePages, Undisturbed, ReadersInv, ClientKnows
<1>. QED
  BY <1>1, <1>2, <1>3 DEF ClientKnows

\* A step that neither issues a snapshot nor moves a request.
LEMMA Surroundings ==
    ASSUME ReadersInv, ReadersTyped', Carries, snaps' = snaps,
           \A c \in Clients : Undisturbed(c)
    PROVE  ReadersInv'
<1>1. \A h \in Len(snaps) + 1 .. Len(snaps') : SnapKnows(h)'
  <2>1. Len(snaps') = Len(snaps) /\ Len(snaps) \in Nat
    BY Typing DEF ReadersInv
  <2>. QED
    BY <2>1
<1>2. \A h \in 1 .. Len(snaps') : SnapKnows(h)'
  BY <1>1, SnapsKept
<1>3. \A c \in Clients : ClientKnows(c)'
  BY ClientKept
<1>. QED
  BY <1>2, <1>3 DEF ReadersInv

-----------------------------------------------------------------------------
(***************************************************************************)
(* The surroundings: publications, failures, summaries, the catalog, time. *)
(***************************************************************************)

\* The sets that the types are made of.
LEMMA TypesKept ==
    ASSUME style' = style
    PROVE  /\ PublicationRow' = PublicationRow /\ ManifestRow' = ManifestRow
           /\ ClientRow' = ClientRow /\ Scopes' = Scopes
  BY StyleKept DEF PublicationRow, ManifestRow, ClientRow, ViewRow

\* The types of the clients are kept by a step that does not touch them.
LEMMA SameClients ==
    ASSUME client' = client PROVE \A c \in Clients : Undisturbed(c)
  BY DEF Undisturbed

\* A promotion adds a publication.
LEMMA PublishStep ==
    ASSUME ReadersInv, NEW s \in Scopes, NEW rev \in now - Lag[style] .. now, Publish(s, rev)
    PROVE  ReadersInv'
<1>. DEFINE g == [scope |-> s, rev |-> rev, collected |-> now]
<1>1. ReadersTyped /\ style' = style /\ snaps' = snaps /\ client' = client /\ now' = now
      /\ cover' = cover /\ gens' = Append(gens, g)
  BY DEF Publish, ReadersInv
<1>2. g \in PublicationRow
  <2>1. rev \in Int /\ now \in Nat
    BY <1>1, ReadersAssumption DEF ReadersTyped
  <2>. QED
    BY <2>1 DEF PublicationRow
<1>. HIDE DEF g
<1>3. gens \in Seq(PublicationRow)
  BY <1>1 DEF ReadersTyped
<1>4. /\ gens' \in Seq(PublicationRow) /\ Len(gens') = Len(gens) + 1
      /\ \A i \in 1 .. Len(gens) : gens'[i] = gens[i]
  BY <1>1, <1>2, <1>3
<1>5. ReadersTyped'
  BY <1>1, <1>4, TypesKept DEF ReadersTyped
<1>6. Carries
  BY <1>1, <1>4, Typing DEF Carries
<1>. QED
  BY <1>1, <1>5, <1>6, SameClients, Surroundings

\* A failing scope only counts for the health of a page.
LEMMA UnpublishedStep ==
    ASSUME ReadersInv, NEW s \in Scopes, Unpublished(s)
    PROVE  ReadersInv'
<1>1. ReadersTyped /\ UNCHANGED <<style, now, gens, cover, snaps, client>>
  BY DEF Unpublished, ReadersInv
<1>2. ReadersTyped'
  BY <1>1, TypesKept DEF ReadersTyped
<1>3. Carries
  BY <1>1, Typing DEF Carries
<1>. QED
  BY <1>1, <1>2, <1>3, SameClients, Surroundings

\* Summaries only cover more.
LEMMA SummarizeStep == ReadersInv /\ Summarize => ReadersInv'
<1>. SUFFICES ASSUME ReadersInv, Summarize PROVE ReadersInv'
  OBVIOUS
<1>1. ReadersTyped /\ UNCHANGED <<style, now, gens, snaps, client>>
  BY DEF Summarize, ReadersInv
<1>2. PICK i \in 1 .. Len(gens) : cover' = [cover EXCEPT ![gens[i].scope] = i]
  BY DEF Summarize
<1>3. i \in Nat /\ i # 0 /\ cover \in [Scopes -> Nat]
  BY <1>1, Typing DEF ReadersTyped
<1>4. cover' \in [Scopes -> Nat] /\ \A s \in Scopes : cover[s] # 0 => cover'[s] # 0
  BY <1>2, <1>3
<1>5. ReadersTyped'
  BY <1>1, <1>4, TypesKept DEF ReadersTyped
<1>6. Carries
  BY <1>1, <1>4, Typing DEF Carries
<1>. QED
  BY <1>1, <1>5, <1>6, SameClients, Surroundings

\* The locations an operator disables or deletes are not tracked any more.
LEMMA EditStep ==
    ASSUME ReadersInv, NEW l \in Locations, NEW state, EditCatalog(l, state)
    PROVE  ReadersInv'
<1>1. ReadersTyped /\ UNCHANGED <<style, now, gens, cover, snaps>>
  BY DEF EditCatalog, ReadersInv
<1>2. client' = [c \in Clients |-> [client[c] EXCEPT !.tracked = client[c].tracked \cap roster']]
  BY DEF EditCatalog
<1>3. PICK R : R = roster'
  OBVIOUS
<1>4. ASSUME NEW c \in Clients
      PROVE  client'[c] \in ClientRow /\ Undisturbed(c)
  <2>1. client'[c] = [client[c] EXCEPT !.tracked = client[c].tracked \cap R]
    BY <1>2, <1>3
  <2>2. client[c] \in ClientRow
    BY <1>1, ClientTyping
  <2>3. client'[c] \in ClientRow
    BY <2>1, <2>2 DEF ClientRow
  <2>4. Undisturbed(c)
    BY <2>1, <2>2 DEF ClientRow, Undisturbed
  <2>. QED
    BY <2>3, <2>4
<1>5. client' \in [Clients -> ClientRow]
  BY <1>2, <1>4
<1>6. ReadersTyped'
  BY <1>1, <1>5, TypesKept DEF ReadersTyped
<1>7. Carries
  BY <1>1, Typing DEF Carries
<1>. QED
  BY <1>1, <1>4, <1>6, <1>7, Surroundings

\* Time goes on, and forecasts get over.
LEMMA WaitStep == ReadersInv /\ Wait => ReadersInv'
<1>. SUFFICES ASSUME ReadersInv, Wait PROVE ReadersInv'
  OBVIOUS
<1>1. ReadersTyped /\ UNCHANGED <<style, gens, cover, snaps, client>> /\ now' = now + 1
  BY DEF Wait, ReadersInv
<1>2. ReadersTyped'
  BY <1>1, TypesKept DEF ReadersTyped
<1>3. Carries
  BY <1>1, Typing DEF Carries
<1>. QED
  BY <1>1, <1>2, <1>3, SameClients, Surroundings

\* Stuttering changes nothing.
LEMMA IdleStep == ReadersInv /\ UNCHANGED readerVars => ReadersInv'
<1>. SUFFICES ASSUME ReadersInv, UNCHANGED readerVars PROVE ReadersInv'
  OBVIOUS
<1>1. ReadersTyped /\ UNCHANGED <<style, now, gens, cover, snaps, client>>
  BY DEF readerVars, ReadersInv
<1>2. ReadersTyped'
  BY <1>1, TypesKept DEF ReadersTyped
<1>3. Carries
  BY <1>1, Typing DEF Carries
<1>. QED
  BY <1>1, <1>2, <1>3, SameClients, Surroundings

-----------------------------------------------------------------------------
(***************************************************************************)
(* The first page.                                                         *)
(***************************************************************************)

\* The selection has the newest rows that are not too old, or none.
LEMMA SelectionIs ==
    ASSUME ReadersTyped
    PROVE  /\ Selection \in RowVector
           /\ \A l \in Locations, p \in Parts :
                 Selection[l][p] # 0 => Selection[l][p] = Row(l, p) /\ l \in roster
           /\ \A l \in Locations, p \in Parts :
                 l \in roster /\ Live(Row(l, p)) => Selection[l][p] = Row(l, p)
<1>1. \A l \in Locations, p \in Parts : Row(l, p) \in Nat
  BY RowIs
<1>2. \A l \in Locations, p \in Parts :
          Selection[l][p] = IF l \in roster /\ Live(Row(l, p)) THEN Row(l, p) ELSE 0
  BY DEF Selection
<1>3. Selection \in RowVector
  <2>1. \A l \in Locations : [p \in Parts |->
            IF l \in roster /\ Live(Row(l, p)) THEN Row(l, p) ELSE 0] \in [Parts -> Nat]
    BY <1>1
  <2>. QED
    BY <2>1 DEF Selection, RowVector
<1>. QED
  BY <1>2, <1>3

\* What a freeze reads has its types.
LEMMA FrozenTyped ==
    ASSUME ReadersTyped
    PROVE  /\ Frozen \in RowVector /\ FrozenLocs \in SUBSET Locations
           /\ FrozenUnconfirmed \in BOOLEAN /\ Ready \in BOOLEAN
           /\ Unselected \in RowVector
<1>1. Unselected \in RowVector
  BY DEF Unselected, RowVector
<1>2. Selection \in RowVector
  BY SelectionIs
<1>3. \A l \in Locations, p \in Parts : cover[ScopeOf[p][l]] \in Nat
  BY ScopesAre DEF ReadersTyped
<1>4. [l \in Locations |-> [p \in Parts |->
          IF Selection[l][p] # 0 THEN cover[ScopeOf[p][l]] ELSE 0]] \in RowVector
  BY <1>3 DEF RowVector
<1>5. Frozen \in RowVector
  BY <1>1, <1>2, <1>4 DEF Frozen
<1>6. FrozenLocs \in SUBSET Locations
  BY DEF FrozenLocs, roster, Chosen
<1>7. Ready \in BOOLEAN
  BY DEF Ready, Selectable
<1>. QED
  BY <1>1, <1>5, <1>6, <1>7 DEF FrozenUnconfirmed

\* A freeze that is ready reads one moment.
LEMMA FreezeIsWell ==
    ASSUME ReadersTyped, Ready, NEW since \in Nat, HasSince => since <= Len(gens)
    PROVE  FrozenWell(since, FrozenLocs, Frozen, IF HasSince THEN Len(gens) ELSE 0)
<1>1. ASSUME HasSince PROVE since <= Len(gens) /\ FrozenAt(FrozenLocs, Frozen, Len(gens))
  <2>1. Frozen = Selection /\ FrozenLocs = Chosen(Selection)
    BY <1>1 DEF HasSince, Frozen, FrozenLocs
  <2>2. ASSUME NEW l \in Chosen(Selection), NEW p \in Parts
        PROVE  IsRow(l, p, Len(gens), Selection[l][p])
    <3>1. l \in Locations
      BY DEF Chosen
    <3>2. Selection[l][p] # 0
      <4>1. CASE style = "mid"
        <5>1. Paired(Selection)
          BY <4>1 DEF Ready
        <5>. QED
          BY <5>1, <2>2 DEF Paired
      <4>2. CASE style # "mid"
        BY <2>2, <4>2, PartsAre DEF Chosen
      <4>. QED
        BY <4>1, <4>2
    <3>3. Selection[l][p] = Row(l, p)
      BY <3>1, <3>2, SelectionIs
    <3>. QED
      BY <3>1, <3>2, <3>3, RowIs
  <2>3. Len(gens) <= Len(gens)
    BY Typing
  <2>. QED
    BY <1>1, <2>1, <2>2, <2>3 DEF FrozenAt
<1>2. ASSUME style \notin {"daily", "locations"} PROVE FrozenLocs = Chosen(Frozen)
  BY <1>2 DEF Frozen, FrozenLocs
<1>3. ASSUME style = "daily" PROVE CoveredAt(Frozen) /\ Chosen(Frozen) \subseteq FrozenLocs
  <2>1. /\ FrozenLocs = roster
        /\ Frozen = [l \in Locations |-> [p \in Parts |->
                       IF Selection[l][p] # 0 THEN cover[ScopeOf[p][l]] ELSE 0]]
    BY <1>3 DEF Frozen, FrozenLocs
  <2>2. \A l \in Locations, p \in Parts :
            Frozen[l][p] = IF Selection[l][p] # 0 THEN cover[ScopeOf[p][l]] ELSE 0
    BY <2>1
  <2>3. CoveredAt(Frozen)
    BY <1>3, <2>2, PartsAre DEF CoveredAt
  <2>4. Chosen(Frozen) \subseteq roster
    BY <2>2, SelectionIs DEF Chosen
  <2>. QED
    BY <2>1, <2>3, <2>4
<1>4. HasSince => FrozenAt(FrozenLocs, Frozen, IF HasSince THEN Len(gens) ELSE 0)
                  /\ since <= IF HasSince THEN Len(gens) ELSE 0
  <2>. SUFFICES ASSUME HasSince
                PROVE FrozenAt(FrozenLocs, Frozen, IF HasSince THEN Len(gens) ELSE 0)
                      /\ since <= IF HasSince THEN Len(gens) ELSE 0
    OBVIOUS
  <2>1. (IF HasSince THEN Len(gens) ELSE 0) = Len(gens)
    OBVIOUS
  <2>. QED
    BY <1>1, <2>1
<1>. QED
  BY <1>2, <1>3, <1>4 DEF FrozenWell

\* A request that begins again keeps what the client holds.
LEMMA RestartIs ==
    ASSUME ReadersTyped, NEW k \in ClientRow
    PROVE  /\ Restart(k) \in ClientRow
           /\ Restart(k).since = k.since /\ Restart(k).copy = k.copy
           /\ Restart(k).tracked = k.tracked /\ Restart(k).pc = "idle"
           /\ Restart(k).pos = 0 /\ Restart(k).ok = TRUE
           /\ Restart(k).got = [l \in Locations |-> 0]
<1>1. k.since \in Nat /\ k.copy \in [Locations -> Nat] /\ k.tracked \in SUBSET Locations
  BY DEF ClientRow
<1>2. [l \in Locations |-> 0] \in [Locations -> Nat]
  OBVIOUS
<1>3. [locs |-> {}, v |-> Unselected, next |-> 0, unconf |-> FALSE, ready |-> FALSE] \in ViewRow
  BY FrozenTyped DEF ViewRow
<1>. HIDE DEF ViewRow, Unselected
<1>4. Restart(k) \in ClientRow
  BY <1>1, <1>2, <1>3 DEF Restart, Idle, ClientRow
<1>. QED
  BY <1>4 DEF Restart, Idle

\* A request without pages: what it holds is known, and what its handle or view says.
LEMMA NoPages ==
    ASSUME ReadersInv, ReadersTyped', Carries, NEW c \in Clients,
           client'[c].tracked \subseteq client[c].tracked,
           client'[c].since = client[c].since, client'[c].copy = client[c].copy,
           client'[c].pos = 0, client'[c].ok, client'[c].got = [l \in Locations |-> 0],
           client'[c].pc \in {"reused", "page"} =>
               /\ client'[c].snap \in 1 .. Len(snaps')
               /\ snaps'[client'[c].snap].since = client'[c].since,
           ViewKnows(c)'
    PROVE  ClientKnows(c)'
<1>1. CopyKnows(c)'
  BY CopyKept
<1>2. HandleKnown(c)' /\ BeforePages(c)'
  BY DEF HandleKnown, BeforePages
<1>3. PagesKnow(c)'
  <2>. SUFFICES ASSUME NEW k \in {client'[c]}, NEW n \in {snaps'[client'[c].snap]}
                PROVE  /\ client'[c].pos <= Last
                       /\ BroughtOnly(k, n)' /\ LeftOutOver(k, n)' /\ OkBrought(k, n)'
    BY DEF PagesKnow, Last
  <2>1. client'[c].pos <= Last /\ \A l \in Locations : ~(l <= k.pos) /\ k.got[l] = 0
    BY Places
  <2>. QED
    BY <2>1 DEF BroughtOnly, LeftOutOver, OkBrought
<1>. QED
  BY <1>1, <1>2, <1>3 DEF ClientKnows

\* A step of one client.
LEMMA OneClient ==
    ASSUME ReadersInv, ReadersTyped', Carries, NEW c \in Clients,
           \A d \in Clients \ {c} : client'[d] = client[d],
           \A h \in Len(snaps) + 1 .. Len(snaps') : SnapKnows(h)',
           ClientKnows(c)'
    PROVE  ReadersInv'
<1>1. \A h \in 1 .. Len(snaps') : SnapKnows(h)'
  BY SnapsKept
<1>2. ASSUME NEW d \in Clients \ {c} PROVE ClientKnows(d)'
  <2>1. Undisturbed(d)
    BY DEF Undisturbed
  <2>. QED
    BY <2>1, ClientKept
<1>. QED
  BY <1>1, <1>2 DEF ReadersInv

\* A step of one client that issues no snapshot.
LEMMA SameSnaps ==
    ASSUME ReadersInv, UNCHANGED <<style, now, gens, cover, snaps>>,
           NEW c \in Clients, NEW k \in ClientRow, client' = [client EXCEPT ![c] = k]
    PROVE  /\ ReadersTyped' /\ Carries /\ client'[c] = k
           /\ \A d \in Clients \ {c} : client'[d] = client[d]
           /\ \A h \in Len(snaps) + 1 .. Len(snaps') : SnapKnows(h)'
<1>1. ReadersTyped
  BY DEF ReadersInv
<1>2. client \in [Clients -> ClientRow]
  BY <1>1 DEF ReadersTyped
<1>3. client' \in [Clients -> ClientRow] /\ client'[c] = k
      /\ \A d \in Clients \ {c} : client'[d] = client[d]
  BY <1>2
<1>4. ReadersTyped'
  BY <1>1, <1>3, TypesKept DEF ReadersTyped
<1>5. Carries
  BY <1>1, Typing DEF Carries
<1>6. Len(snaps') = Len(snaps) /\ Len(snaps) \in Nat
  BY <1>1, Typing
<1>. QED
  BY <1>3, <1>4, <1>5, <1>6

\* A freeze reads at one moment.
LEMMA FreezeReadStep ==
    ASSUME ReadersInv, NEW c \in Clients, FreezeRead(c)
    PROVE  ReadersInv'
<1>. DEFINE w == [locs |-> FrozenLocs, v |-> Frozen, unconf |-> FrozenUnconfirmed,
                  next |-> IF HasSince THEN Len(gens) ELSE 0, ready |-> Ready]
<1>1. PICK v : v = w
  OBVIOUS
<1>2. v \in ViewRow
  <2>1. (IF HasSince THEN Len(gens) ELSE 0) \in Nat
    BY Typing DEF ReadersInv
  <2>. QED
    BY <1>1, <2>1, FrozenTyped DEF ReadersInv, ViewRow
<1>3. PICK k : k = [Restart(client[c]) EXCEPT !.pc = "frozen", !.view = v]
  OBVIOUS
<1>4. /\ UNCHANGED <<style, now, gens, cover, snaps>>
      /\ client' = [client EXCEPT ![c] = k]
  BY <1>1, <1>3 DEF FreezeRead
<1>5. /\ k \in ClientRow /\ k.since = client[c].since /\ k.copy = client[c].copy
      /\ k.tracked = client[c].tracked /\ k.pc = "frozen" /\ k.view = v
      /\ k.pos = 0 /\ k.ok = TRUE /\ k.got = [l \in Locations |-> 0]
  <2>1. PICK r : r = Restart(client[c])
    OBVIOUS
  <2>2. /\ r \in ClientRow
        /\ r.since = client[c].since /\ r.copy = client[c].copy
        /\ r.tracked = client[c].tracked
        /\ r.pos = 0 /\ r.ok = TRUE /\ r.got = [l \in Locations |-> 0]
    BY <2>1, RestartIs, ClientTyping DEF ReadersInv
  <2>3. k = [r EXCEPT !.pc = "frozen", !.view = v]
    BY <1>3, <2>1
  <2>. HIDE DEF w, ViewRow
  <2>. QED
    BY <1>2, <2>2, <2>3 DEF ClientRow
<1>. HIDE DEF w
<1>6. /\ ReadersTyped' /\ Carries /\ client'[c] = k
      /\ \A d \in Clients \ {c} : client'[d] = client[d]
      /\ \A h \in Len(snaps) + 1 .. Len(snaps') : SnapKnows(h)'
  BY <1>4, <1>5, SameSnaps
<1>7. ViewKnows(c)'
  <2>. SUFFICES ASSUME client'[c].view.ready, NEW j \in {client'[c]}
                PROVE  FrozenWell(j.since, j.view.locs, j.view.v, j.view.next)'
    BY DEF ViewKnows
  <2>1. j.view = v /\ j.since = client[c].since /\ Ready
    BY <1>1, <1>5, <1>6 DEF w
  <2>2. /\ v.locs = FrozenLocs /\ v.v = Frozen
        /\ v.next = IF HasSince THEN Len(gens) ELSE 0
    BY <1>1 DEF w
  <2>3. j.since \in Nat /\ (HasSince => j.since <= Len(gens))
    BY <2>1, ClientTyping DEF ReadersInv, ClientKnows, CopyKnows
  <2>4. FrozenWell(j.since, v.locs, v.v, v.next)
    BY <2>1, <2>2, <2>3, FreezeIsWell DEF ReadersInv
  <2>5. v.locs \in SUBSET Locations /\ v.v \in RowVector /\ v.next \in Nat
    BY <1>2 DEF ViewRow
  <2>6. FrozenWell(j.since, v.locs, v.v, v.next)'
    BY <1>6, <2>3, <2>4, <2>5, FrozenKept DEF ReadersInv
  <2>. QED
    BY <2>1, <2>6
<1>8. ClientKnows(c)'
  BY <1>5, <1>6, <1>7, NoPages
<1>. QED
  BY <1>6, <1>8, OneClient

\* Unavailable and Gone begin again.
LEMMA RestartStep ==
    ASSUME ReadersInv, NEW c \in Clients, Unavailable(c) \/ Gone(c)
    PROVE  ReadersInv'
<1>1. PICK k : k = Restart(client[c])
  OBVIOUS
<1>2. /\ UNCHANGED <<style, now, gens, cover, snaps>>
      /\ client' = [client EXCEPT ![c] = k]
  BY <1>1 DEF Unavailable, Gone
<1>3. /\ k \in ClientRow /\ k.since = client[c].since /\ k.copy = client[c].copy
      /\ k.tracked = client[c].tracked /\ k.pc = "idle"
      /\ k.pos = 0 /\ k.ok = TRUE /\ k.got = [l \in Locations |-> 0]
  BY <1>1, RestartIs, ClientTyping DEF ReadersInv
<1>4. /\ ReadersTyped' /\ Carries /\ client'[c] = k
      /\ \A d \in Clients \ {c} : client'[d] = client[d]
      /\ \A h \in Len(snaps) + 1 .. Len(snaps') : SnapKnows(h)'
  BY <1>2, <1>3, SameSnaps
<1>5. ViewKnows(c)'
  BY <1>3, <1>4 DEF ViewKnows
<1>6. ClientKnows(c)'
  BY <1>3, <1>4, <1>5, NoPages
<1>. QED
  BY <1>4, <1>6, OneClient

\* A manifest, which is a row of the snapshots without its expiry.
KeptRow ==
    [since : Nat, locs : SUBSET Locations, v : RowVector, next : Nat, unconf : BOOLEAN,
     period : Int, limited : BOOLEAN]

\* The fields of a manifest without its expiry ...
LEMMA FieldsAre ==
    ASSUME NEW r \in ManifestRow
    PROVE  /\ Fields(r) \in KeptRow
           /\ Fields(r).since = r.since /\ Fields(r).locs = r.locs
           /\ Fields(r).v = r.v /\ Fields(r).next = r.next
<1>1. DOMAIN r \ {"expires"} = {"since", "locs", "v", "next", "unconf", "period", "limited"}
  BY DEF ManifestRow
<1>2. Fields(r) = [f \in {"since", "locs", "v", "next", "unconf", "period", "limited"} |-> r[f]]
  BY <1>1 DEF Fields
<1>3. Fields(r) = [since |-> r.since, locs |-> r.locs, v |-> r.v, next |-> r.next,
                   unconf |-> r.unconf, period |-> r.period, limited |-> r.limited]
  BY <1>2
<1>. QED
  BY <1>3 DEF ManifestRow, KeptRow

\* ... and with a new one.
LEMMA WithExpiryIs ==
    ASSUME NEW m \in KeptRow, now \in Nat
    PROVE  /\ WithExpiry(m) \in ManifestRow
           /\ WithExpiry(m).since = m.since /\ WithExpiry(m).locs = m.locs
           /\ WithExpiry(m).v = m.v /\ WithExpiry(m).next = m.next
<1>1. DOMAIN m \cup {"expires"}
      = {"since", "locs", "v", "next", "unconf", "period", "limited", "expires"}
  BY DEF KeptRow
<1>2. WithExpiry(m) = [f \in {"since", "locs", "v", "next", "unconf", "period", "limited", "expires"} |->
                         IF f = "expires" THEN now + TTL ELSE m[f]]
  BY <1>1 DEF WithExpiry
<1>3. WithExpiry(m) = [since |-> m.since, locs |-> m.locs, v |-> m.v, next |-> m.next,
                       unconf |-> m.unconf, period |-> m.period, limited |-> m.limited,
                       expires |-> now + TTL]
  BY <1>2
<1>4. now + TTL \in Int
  BY ReadersAssumption
<1>. QED
  BY <1>3, <1>4 DEF ManifestRow, KeptRow

\* The newest handle of a selection is one of it.
LEMMA PreviousIs ==
    ASSUME ReadersTyped, NEW since, Previous(since) # 0
    PROVE  Previous(since) \in 1 .. Len(snaps) /\ snaps[Previous(since)].since = since
<1>1. SameSelection(since) # {} /\ Previous(since) = Max(SameSelection(since))
  BY DEF Previous
<1>2. SameSelection(since) \in SUBSET Nat /\ \A h \in SameSelection(since) : h <= Len(snaps)
  BY Typing DEF SameSelection
<1>3. Max(SameSelection(since)) \in SameSelection(since)
  BY <1>1, <1>2, Typing, MaxIsGreatest
<1>. QED
  BY <1>1, <1>3 DEF SameSelection

\* A request that goes on with a handle of its own watermark.
LEMMA TakesHandle ==
    ASSUME ReadersInv, NEW c \in Clients, NEW h \in 1 .. Len(snaps), NEW doubt \in BOOLEAN,
           snaps[h].since = client[c].since, Goes(c, "reused", h, doubt),
           UNCHANGED <<style, now, gens, cover, snaps>>
    PROVE  ReadersInv'
<1>r. PICK r : r = Restart(client[c])
  OBVIOUS
<1>k. PICK k : k = [r EXCEPT !.pc = "reused", !.snap = h, !.doubt = doubt]
  OBVIOUS
<1>1. /\ k \in ClientRow /\ client' = [client EXCEPT ![c] = k]
      /\ k.since = client[c].since /\ k.copy = client[c].copy
      /\ k.tracked = client[c].tracked /\ k.pc = "reused" /\ k.snap = h
      /\ k.pos = 0 /\ k.ok = TRUE /\ k.got = [l \in Locations |-> 0]
  <2>1. client' = [client EXCEPT ![c] = k]
    BY <1>r, <1>k DEF Goes
  <2>2. /\ r \in ClientRow
        /\ r.since = client[c].since /\ r.copy = client[c].copy
        /\ r.tracked = client[c].tracked
        /\ r.pos = 0 /\ r.ok = TRUE /\ r.got = [l \in Locations |-> 0]
    BY <1>r, RestartIs, ClientTyping DEF ReadersInv
  <2>3. h \in Nat
    BY Typing DEF ReadersInv
  <2>4. /\ k \in ClientRow /\ k.pc = "reused" /\ k.snap = h /\ k.since = r.since
        /\ k.copy = r.copy /\ k.tracked = r.tracked /\ k.pos = r.pos /\ k.ok = r.ok
        /\ k.got = r.got
    BY <1>k, <2>2, <2>3 DEF ClientRow
  <2>. QED
    BY <2>1, <2>2, <2>4
<1>2. /\ ReadersTyped' /\ Carries /\ client'[c] = k
      /\ \A d \in Clients \ {c} : client'[d] = client[d]
      /\ \A g \in Len(snaps) + 1 .. Len(snaps') : SnapKnows(g)'
  BY <1>1, SameSnaps
<1>3. ViewKnows(c)'
  BY <1>1, <1>2 DEF ViewKnows
<1>4. ClientKnows(c)'
  BY <1>1, <1>2, <1>3, NoPages
<1>. QED
  BY <1>2, <1>4, OneClient

\* A request that issues a handle for a manifest.
LEMMA IssuesHandle ==
    ASSUME ReadersInv, NEW c \in Clients, NEW m \in KeptRow, NEW doubt \in BOOLEAN,
           m.since = client[c].since, FrozenWell(m.since, m.locs, m.v, m.next),
           snaps' = Append(snaps, WithExpiry(m)), Goes(c, "page", Len(snaps) + 1, doubt),
           UNCHANGED <<style, now, gens, cover>>
    PROVE  ReadersInv'
<1>1. ReadersTyped /\ Len(snaps) \in Nat /\ Len(snaps) + 1 \in Nat
  BY Typing DEF ReadersInv
<1>r. PICK r : r = Restart(client[c])
  OBVIOUS
<1>k. PICK k : k = [r EXCEPT !.pc = "page", !.snap = Len(snaps) + 1, !.doubt = doubt]
  OBVIOUS
<1>2. /\ k \in ClientRow /\ client' = [client EXCEPT ![c] = k]
      /\ k.since = client[c].since /\ k.copy = client[c].copy
      /\ k.tracked = client[c].tracked /\ k.pc = "page" /\ k.snap = Len(snaps) + 1
      /\ k.pos = 0 /\ k.ok = TRUE /\ k.got = [l \in Locations |-> 0]
  <2>1. client' = [client EXCEPT ![c] = k]
    BY <1>r, <1>k DEF Goes
  <2>2. /\ r \in ClientRow
        /\ r.since = client[c].since /\ r.copy = client[c].copy
        /\ r.tracked = client[c].tracked
        /\ r.pos = 0 /\ r.ok = TRUE /\ r.got = [l \in Locations |-> 0]
    BY <1>r, RestartIs, ClientTyping DEF ReadersInv
  <2>3. Len(snaps) + 1 \in Nat
    BY Typing DEF ReadersInv
  <2>4. /\ k \in ClientRow /\ k.pc = "page" /\ k.snap = Len(snaps) + 1 /\ k.since = r.since
        /\ k.copy = r.copy /\ k.tracked = r.tracked /\ k.pos = r.pos /\ k.ok = r.ok
        /\ k.got = r.got
    BY <1>k, <2>2, <2>3 DEF ClientRow
  <2>. QED
    BY <2>1, <2>2, <2>4
<1>3. client' \in [Clients -> ClientRow] /\ client'[c] = k
      /\ \A d \in Clients \ {c} : client'[d] = client[d]
  BY <1>1, <1>2 DEF ReadersTyped
<1>4. PICK n : n = WithExpiry(m)
  OBVIOUS
<1>5. /\ n \in ManifestRow
      /\ n.since = m.since /\ n.locs = m.locs /\ n.v = m.v /\ n.next = m.next
  BY <1>1, <1>4, WithExpiryIs DEF ReadersTyped
<1>6. snaps \in Seq(ManifestRow)
  BY <1>1 DEF ReadersTyped
<1>7. /\ snaps' \in Seq(ManifestRow) /\ Len(snaps') = Len(snaps) + 1
      /\ snaps'[Len(snaps) + 1] = n
      /\ \A h \in 1 .. Len(snaps) : snaps'[h] = snaps[h]
  BY <1>4, <1>5, <1>6
<1>8. ReadersTyped'
  BY <1>1, <1>3, <1>7, TypesKept DEF ReadersTyped
<1>9. Carries
  BY <1>1, <1>7, Typing DEF Carries
<1>10. \A h \in Len(snaps) + 1 .. Len(snaps') : SnapKnows(h)'
  <2>1. FrozenWell(m.since, m.locs, m.v, m.next)'
    <3>1. m.since \in Nat /\ m.locs \in SUBSET Locations /\ m.v \in RowVector /\ m.next \in Nat
      BY DEF KeptRow
    <3>. QED
      BY <1>1, <1>8, <1>9, <3>1, FrozenKept
  <2>2. FrozenWell(n.since, n.locs, n.v, n.next)'
    BY <1>5, <2>1
  <2>3. \A h \in Len(snaps) + 1 .. Len(snaps') : snaps'[h] = n
    BY <1>1, <1>7
  <2>. QED
    BY <2>2, <2>3 DEF SnapKnows
<1>11. ViewKnows(c)'
  BY <1>2, <1>3 DEF ViewKnows
<1>12. client'[c].snap \in 1 .. Len(snaps') /\ snaps'[client'[c].snap].since = client'[c].since
  BY <1>1, <1>2, <1>3, <1>5, <1>7
<1>13. ClientKnows(c)'
  BY <1>2, <1>3, <1>8, <1>9, <1>11, <1>12, NoPages
<1>. QED
  BY <1>3, <1>8, <1>9, <1>10, <1>13, OneClient

\* The period of a manifest is a number.
LEMMA PeriodIs ==
    ASSUME ReadersTyped
    PROVE  now \div Period \in Int
<1>1. now \in Nat /\ Period \in Nat \ {0}
  BY ReadersAssumption DEF ReadersTyped
<1>. QED
  BY <1>1

\* The commit of a freeze issues what was read, or takes the same.
LEMMA FreezeCommitStep ==
    ASSUME ReadersInv, NEW c \in Clients, FreezeCommit(c)
    PROVE  ReadersInv'
<1>1. PICK m : m = Manifest(c)
  OBVIOUS
<1>2. /\ client[c].pc = "frozen" /\ client[c].view.ready
      /\ UNCHANGED <<style, now, gens, cover>>
  BY DEF FreezeCommit
<1>3. CASE /\ Previous(client[c].since) # 0
           /\ Goes(c, "reused", Previous(client[c].since), FALSE) /\ UNCHANGED snaps
  <2>1. PICK h : h = Previous(client[c].since)
    OBVIOUS
  <2>2. h \in 1 .. Len(snaps) /\ snaps[h].since = client[c].since
    BY <1>3, <2>1, PreviousIs DEF ReadersInv
  <2>3. Goes(c, "reused", h, FALSE)
    BY <1>3, <2>1
  <2>. QED
    BY <1>2, <1>3, <2>2, <2>3, TakesHandle
<1>4. CASE /\ snaps' = Append(snaps, WithExpiry(Manifest(c)))
           /\ Goes(c, "page", Len(snaps) + 1, FALSE)
  <2>1. client[c].view \in ViewRow /\ client[c].since \in Nat
    BY ClientTyping DEF ReadersInv, ClientRow
  <2>2. /\ m.since = client[c].since /\ m.locs = client[c].view.locs
        /\ m.v = client[c].view.v /\ m.next = client[c].view.next
    BY <1>1 DEF Manifest, Watermark
  <2>3. m \in KeptRow
    <3>1. (IF style \in {"forecast", "mid", "daily"} THEN now \div Period ELSE 0) \in Int
      BY PeriodIs DEF ReadersInv
    <3>2. PICK p : p = IF style \in {"forecast", "mid", "daily"} THEN now \div Period ELSE 0
      OBVIOUS
    <3>3. m = [since |-> client[c].since, locs |-> client[c].view.locs, v |-> client[c].view.v,
               next |-> client[c].view.next, unconf |-> client[c].view.unconf,
               period |-> p, limited |-> FALSE]
      BY <1>1, <3>2 DEF Manifest, Watermark
    <3>. QED
      BY <2>1, <3>1, <3>2, <3>3 DEF ViewRow, KeptRow
  <2>4. FrozenWell(m.since, m.locs, m.v, m.next)
    <3>1. PICK k : k = client[c]
      OBVIOUS
    <3>2. FrozenWell(k.since, k.view.locs, k.view.v, k.view.next)
      BY <1>2, <3>1 DEF ReadersInv, ClientKnows, ViewKnows
    <3>. QED
      BY <2>2, <3>1, <3>2
  <2>5. snaps' = Append(snaps, WithExpiry(m))
    BY <1>1, <1>4
  <2>. QED
    BY <1>2, <1>4, <2>2, <2>3, <2>4, <2>5, IssuesHandle
<1>. QED
  BY <1>3, <1>4 DEF FreezeCommit

\* A fallback hands out an earlier manifest of the same watermark.
LEMMA FallbackStep ==
    ASSUME ReadersInv, NEW c \in Clients, NEW limited \in BOOLEAN, Fallback(c, limited)
    PROVE  ReadersInv'
<1>1. PICK h : h = Previous(client[c].since)
  OBVIOUS
<1>2. h # 0 /\ UNCHANGED <<style, now, gens, cover>>
  BY <1>1 DEF Fallback
<1>3. h \in 1 .. Len(snaps) /\ snaps[h].since = client[c].since
  BY <1>1, <1>2, PreviousIs DEF ReadersInv
<1>4. PICK kept : kept = Fields(snaps[h])
  OBVIOUS
<1>5. /\ kept \in KeptRow /\ kept.since = client[c].since /\ kept.locs = snaps[h].locs
      /\ kept.v = snaps[h].v /\ kept.next = snaps[h].next
  BY <1>3, <1>4, FieldsAre, Typing DEF ReadersInv
<1>6. PICK m : m = IF style = "daily"
                   THEN [kept EXCEPT !.limited = TRUE, !.period = now \div Period]
                   ELSE [kept EXCEPT !.limited = kept.limited \/ limited]
  OBVIOUS
<1>7. /\ m \in KeptRow /\ m.since = kept.since /\ m.locs = kept.locs
      /\ m.v = kept.v /\ m.next = kept.next
  <2>1. now \div Period \in Int
    BY PeriodIs DEF ReadersInv
  <2>2. CASE style = "daily"
    <3>1. m = [kept EXCEPT !.limited = TRUE, !.period = now \div Period]
      BY <1>6, <2>2
    <3>. QED
      BY <1>5, <2>1, <3>1 DEF KeptRow
  <2>3. CASE style # "daily"
    <3>1. m = [kept EXCEPT !.limited = kept.limited \/ limited]
      BY <1>6, <2>3
    <3>2. (kept.limited \/ limited) \in BOOLEAN
      OBVIOUS
    <3>. QED
      BY <1>5, <3>1, <3>2 DEF KeptRow
  <2>. QED
    BY <2>2, <2>3
<1>8. FrozenWell(m.since, m.locs, m.v, m.next)
  <2>1. PICK r : r = snaps[h]
    OBVIOUS
  <2>2. FrozenWell(r.since, r.locs, r.v, r.next)
    BY <1>3, <2>1 DEF ReadersInv, SnapKnows
  <2>. QED
    BY <1>3, <1>5, <1>7, <2>1, <2>2
<1>9. PICK doubt \in BOOLEAN :
        \/ Goes(c, "reused", h, doubt) /\ UNCHANGED snaps
        \/ snaps' = Append(snaps, WithExpiry(m)) /\ Goes(c, "page", Len(snaps) + 1, doubt)
  <2>1. (style \in {"current", "mid"} /\ ~limited) \in BOOLEAN
    OBVIOUS
  <2>. QED
    BY <1>1, <1>4, <1>6, <2>1 DEF Fallback
<1>10. CASE Goes(c, "reused", h, doubt) /\ UNCHANGED snaps
  BY <1>2, <1>3, <1>10, TakesHandle
<1>11. CASE snaps' = Append(snaps, WithExpiry(m)) /\ Goes(c, "page", Len(snaps) + 1, doubt)
  BY <1>2, <1>5, <1>7, <1>8, <1>11, IssuesHandle
<1>. QED
  BY <1>9, <1>10, <1>11

\* Renewal moves the expiry alone.
LEMMA RenewStep ==
    ASSUME ReadersInv, NEW c \in Clients, NEW renewed \in BOOLEAN, RenewReused(c, renewed)
    PROVE  ReadersInv'
<1>1. ReadersTyped /\ UNCHANGED <<style, now, gens, cover>> /\ client[c].pc = "reused"
  BY DEF RenewReused, ReadersInv
<1>2. PICK h : h = client[c].snap
  OBVIOUS
<1>3. h \in 1 .. Len(snaps) /\ snaps[h].since = client[c].since
  BY <1>1, <1>2 DEF ReadersInv, ClientKnows, HandleKnown
<1>4. PICK e : e = IF renewed /\ snaps[h].expires > now
                   THEN Max({snaps[h].expires, now + TTL}) ELSE snaps[h].expires
  OBVIOUS
<1>5. PICK r : r = [snaps[h] EXCEPT !.expires = e]
  OBVIOUS
<1>6. snaps' = [snaps EXCEPT ![h] = r]
  BY <1>2, <1>4, <1>5 DEF RenewReused
<1>7. e \in Int
  <2>1. snaps[h].expires \in Int /\ now + TTL \in Int
    BY <1>1, <1>3, Typing, ReadersAssumption
  <2>2. \E x \in {snaps[h].expires, now + TTL} : \A y \in {snaps[h].expires, now + TTL} : x >= y
    BY <2>1
  <2>3. Max({snaps[h].expires, now + TTL}) \in {snaps[h].expires, now + TTL}
    BY <2>2 DEF Max
  <2>4. Max({snaps[h].expires, now + TTL}) \in Int
    BY <2>1, <2>3
  <2>. QED
    BY <1>4, <2>1, <2>4
<1>8. /\ r \in ManifestRow /\ r.since = snaps[h].since /\ r.locs = snaps[h].locs
      /\ r.v = snaps[h].v /\ r.next = snaps[h].next
  BY <1>1, <1>3, <1>5, <1>7, Typing DEF ManifestRow
<1>9. /\ snaps' \in Seq(ManifestRow) /\ Len(snaps') = Len(snaps) /\ snaps'[h] = r
      /\ \A g \in 1 .. Len(snaps) : g # h => snaps'[g] = snaps[g]
  BY <1>1, <1>3, <1>6, <1>8 DEF ReadersTyped
<1>10. PICK k : k = [client[c] EXCEPT !.pc = "page"]
  OBVIOUS
<1>11. client' = [client EXCEPT ![c] = k]
  BY <1>10 DEF RenewReused
<1>12. /\ k \in ClientRow /\ k.pc = "page" /\ k.since = client[c].since
       /\ k.copy = client[c].copy /\ k.tracked = client[c].tracked /\ k.snap = h
       /\ k.pos = client[c].pos /\ k.ok = client[c].ok /\ k.got = client[c].got
  BY <1>1, <1>2, <1>10, ClientTyping DEF ClientRow
<1>13. client' \in [Clients -> ClientRow] /\ client'[c] = k
       /\ \A d \in Clients \ {c} : client'[d] = client[d]
  BY <1>1, <1>11, <1>12 DEF ReadersTyped
<1>14. ReadersTyped'
  BY <1>1, <1>9, <1>13, TypesKept DEF ReadersTyped
<1>15. Carries
  BY <1>1, <1>8, <1>9, Typing DEF Carries
<1>16. \A g \in Len(snaps) + 1 .. Len(snaps') : SnapKnows(g)'
  BY <1>1, <1>9, Typing
<1>17. client[c].pos = 0 /\ client[c].ok /\ client[c].got = [l \in Locations |-> 0]
  BY <1>1 DEF ReadersInv, ClientKnows, BeforePages
<1>18. ViewKnows(c)'
  BY <1>12, <1>13 DEF ViewKnows
<1>19. client'[c].snap \in 1 .. Len(snaps') /\ snaps'[client'[c].snap].since = client'[c].since
  BY <1>3, <1>8, <1>9, <1>12, <1>13
<1>20. ClientKnows(c)'
  BY <1>12, <1>13, <1>14, <1>15, <1>17, <1>18, <1>19, NoPages
<1>. QED
  BY <1>13, <1>14, <1>15, <1>16, <1>20, OneClient

-----------------------------------------------------------------------------
(***************************************************************************)
(* The pages.                                                              *)
(***************************************************************************)

\* What a client has after a page up to q of the manifest m: j stands for its state.
PageRead(c, q, m, j) ==
    /\ j.pos = q
    /\ j.got = [l \in Locations |->
                  IF l \in Out(m, client[c].pos, q) THEN Brings(m, l) ELSE client[c].got[l]]
    /\ j.ok <=> client[c].ok /\ ~Stale(m, client[c].doubt, Omitted(m, client[c].pos, q))

\* The manifest of a client that reads pages, and what it knows of it.
LEMMA PageManifest ==
    ASSUME ReadersInv, NEW c \in Clients, client[c].pc = "page",
           NEW m, m = snaps[client[c].snap]
    PROVE  /\ client[c].snap \in 1 .. Len(snaps)
           /\ m.since = client[c].since /\ m.since \in Nat /\ m.next \in Nat
           /\ m.v \in RowVector /\ m.locs \in SUBSET Locations
           /\ FrozenWell(m.since, m.locs, m.v, m.next)
           /\ \A k \in {client[c]} : BroughtOnly(k, m) /\ LeftOutOver(k, m) /\ OkBrought(k, m)
<1>1. HandleKnown(c) /\ PagesKnow(c) /\ ReadersTyped
  BY DEF ReadersInv, ClientKnows
<1>2. client[c].snap \in 1 .. Len(snaps) /\ m.since = client[c].since
  BY <1>1 DEF HandleKnown
<1>3. FrozenWell(m.since, m.locs, m.v, m.next)
  BY <1>2 DEF ReadersInv, SnapKnows
<1>. QED
  BY <1>1, <1>2, <1>3, Typing DEF PagesKnow

\* A page brings all that is between the positions, or it is over and the page not ok.
LEMMA PageBrings ==
    ASSUME ReadersInv, NEW c \in Clients, client[c].pc = "page",
           NEW m, m = snaps[client[c].snap], NEW q \in client[c].pos .. Last,
           NEW j, PageRead(c, q, m, j)
    PROVE  /\ j.got \in [Locations -> Nat]
           /\ BroughtOnly(j, m) /\ LeftOutOver(j, m) /\ OkBrought(j, m)
<1>1. PICK k : k = client[c]
  OBVIOUS
<1>2. /\ ReadersTyped /\ k.pos \in Nat /\ k.got \in [Locations -> Nat]
  BY <1>1, ClientTyping DEF ReadersInv
<1>3. /\ m.since \in Nat /\ m.next \in Nat /\ m.v \in RowVector
      /\ FrozenWell(m.since, m.locs, m.v, m.next)
      /\ BroughtOnly(k, m) /\ LeftOutOver(k, m) /\ OkBrought(k, m)
  BY <1>1, PageManifest
<1>4. q \in Nat /\ k.pos <= q /\ q <= Last
  BY <1>1, <1>2, Places
<1>5. \A l \in Locations : l \in Nat /\ Published(m.v, l) \in Nat
  BY <1>3, Places, PublishedIs
<1>6. ASSUME NEW l \in Locations, Changed(m, l), HasSince PROVE Published(m.v, l) # 0
  BY <1>3, <1>5, <1>6 DEF Changed
<1>7. ASSUME NEW l \in Locations
      PROVE  j.got[l] = IF l \in Out(m, k.pos, q) THEN Brings(m, l) ELSE k.got[l]
  BY <1>1 DEF PageRead
<1>8. ASSUME NEW l \in Locations
      PROVE  l \in Out(m, k.pos, q) <=> l \in k.pos + 1 .. q /\ Changed(m, l) /\ ~Over(m, l)
  BY DEF Out
<1>9. ASSUME HasSince, NEW l \in Locations PROVE Brings(m, l) = Published(m.v, l)
  BY <1>9 DEF Brings, HasSince
<1>10. j.got \in [Locations -> Nat]
  <2>1. \A l \in Locations : Brings(m, l) \in Nat
    <3>1. style = "daily" => \A l \in Locations : cover[ScopeOf["main"][l]] \in Nat
      BY <1>2, PartsAre, ScopesAre DEF ReadersTyped
    <3>. QED
      BY <1>5, <3>1 DEF Brings
  <2>. QED
    BY <1>1, <1>2, <2>1 DEF PageRead
<1>11. BroughtOnly(j, m)
  <2>. SUFFICES ASSUME NEW l \in Locations, j.got[l] # 0
                PROVE  /\ l <= q /\ Changed(m, l)
                       /\ HasSince => j.got[l] = Published(m.v, l)
    BY DEF BroughtOnly, PageRead
  <2>1. CASE l \in Out(m, k.pos, q)
    <3>1. l \in k.pos + 1 .. q /\ Changed(m, l)
      BY <2>1, <1>8
    <3>2. HasSince => j.got[l] = Published(m.v, l)
      BY <1>7, <1>9, <2>1
    <3>. QED
      BY <1>2, <1>4, <3>1, <3>2
  <2>2. CASE l \notin Out(m, k.pos, q)
    <3>1. j.got[l] = k.got[l]
      BY <1>7, <2>2
    <3>2. /\ l <= k.pos /\ Changed(m, l)
          /\ HasSince => k.got[l] = Published(m.v, l)
      BY <1>3, <3>1 DEF BroughtOnly
    <3>3. l <= q
      BY <1>2, <1>4, <1>5, <3>2
    <3>. QED
      BY <3>1, <3>2, <3>3
  <2>. QED
    BY <2>1, <2>2
<1>12. LeftOutOver(j, m)
  <2>. SUFFICES ASSUME HasSince, NEW l \in Locations, l <= q, Changed(m, l), j.got[l] = 0
                PROVE  Over(m, l)
    BY DEF LeftOutOver, PageRead
  <2>1. l \notin Out(m, k.pos, q)
    BY <1>6, <1>7, <1>9
  <2>2. CASE l <= k.pos
    BY <1>3, <1>7, <2>1, <2>2 DEF LeftOutOver
  <2>3. CASE l \in k.pos + 1 .. q
    BY <1>8, <2>1, <2>3
  <2>. QED
    BY <1>2, <1>4, <1>5, <2>2, <2>3
<1>13. OkBrought(j, m)
  <2>. SUFFICES ASSUME j.ok, style # "locations", NEW l \in Locations, l <= q, Changed(m, l),
                       style = "daily" => m.v[l]["main"] # 0
                PROVE  j.got[l] # 0
    BY DEF OkBrought, PageRead
  <2>1. k.ok /\ ~Stale(m, client[c].doubt, Omitted(m, k.pos, q))
    BY <1>1 DEF PageRead
  <2>2. CASE l \in Out(m, k.pos, q)
    <3>1. j.got[l] = Brings(m, l)
      BY <1>7, <2>2
    <3>2. CASE style = "daily"
      <4>1. cover[ScopeOf["main"][l]] # 0
        BY <1>3, <3>2 DEF FrozenWell, CoveredAt
      <4>. QED
        BY <3>1, <3>2, <4>1 DEF Brings
    <3>3. CASE style # "daily"
      <4>1. l \in Chosen(m.v)
        BY <1>3, <3>3 DEF FrozenWell, Changed
      <4>2. PICK p \in Parts : m.v[l][p] # 0
        BY <4>1 DEF Chosen
      <4>3. m.v[l][p] \in Nat /\ m.v[l][p] <= Published(m.v, l)
        BY <1>3, PublishedIs
      <4>4. Published(m.v, l) # 0
        BY <1>5, <4>2, <4>3
      <4>. QED
        BY <3>1, <3>3, <4>4 DEF Brings
    <3>. QED
      BY <3>2, <3>3
  <2>3. CASE l <= k.pos /\ l \notin Out(m, k.pos, q)
    BY <1>3, <1>7, <2>1, <2>3 DEF OkBrought
  <2>4. CASE l \in k.pos + 1 .. q /\ l \notin Out(m, k.pos, q)
    <3>1. Over(m, l)
      BY <1>8, <2>4
    <3>2. HasSince /\ Omitted(m, k.pos, q)
      BY <2>4, <3>1 DEF Over, Omitted
    <3>3. Stale(m, client[c].doubt, Omitted(m, k.pos, q))
      BY <3>2 DEF Stale, HasSince
    <3>. QED
      BY <2>1, <3>3
  <2>. QED
    BY <1>2, <1>4, <1>5, <2>2, <2>3, <2>4
<1>. QED
  BY <1>10, <1>11, <1>12, <1>13

\* After the last page the client holds the rows of the manifest's watermark.
LEMMA LastPageHolds ==
    ASSUME ReadersInv, NEW c \in Clients, client[c].pc = "page", HasSince,
           NEW m, m = snaps[client[c].snap], Last \in client[c].pos .. Last,
           NEW j, PageRead(c, Last, m, j),
           NEW l \in m.locs, l \in client[c].tracked \/ j.got[l] # 0,
           NEW x, x = IF j.got[l] # 0 THEN j.got[l] ELSE client[c].copy[l]
    PROVE  HoldsRow(x, l, m.next)
<1>1. /\ m.since = client[c].since /\ m.since \in Nat /\ m.next \in Nat
      /\ m.v \in RowVector /\ l \in Locations /\ m.since <= m.next
      /\ \A p \in Parts : IsRow(l, p, m.next, m.v[l][p])
  BY PageManifest DEF FrozenWell, FrozenAt
<1>2. BroughtOnly(j, m) /\ LeftOutOver(j, m) /\ j.pos = Last /\ l <= Last
  BY <1>1, PageBrings, Places DEF PageRead
<1>. PICK n, s : n = m.next /\ s = m.since
  OBVIOUS
<1>3. ASSUME NEW p \in Parts, NEW i, IsRow(l, p, m.next, i) PROVE i = m.v[l][p]
  <2>1. PICK r : r = m.v[l][p]
    OBVIOUS
  <2>2. n \in Nat /\ IsRow(l, p, n, i) /\ IsRow(l, p, n, r)
    BY <1>1, <1>3, <2>1
  <2>3. i = r
    BY <2>2, RowIsOne
  <2>. QED
    BY <2>1, <2>3
<1>4. \A p \in Parts : m.v[l][p] \in 1 .. m.next
  BY <1>1 DEF IsRow
<1>5. Published(m.v, l) \in Nat
      /\ (\E p \in Parts : Published(m.v, l) = m.v[l][p])
      /\ \A p \in Parts : m.v[l][p] <= Published(m.v, l)
  BY <1>1, PublishedIs
<1>6. CASE j.got[l] # 0
  <2>1. x = Published(m.v, l)
    BY <1>1, <1>2, <1>6 DEF BroughtOnly
  <2>2. \A p \in Parts, i \in 1 .. m.next : IsRow(l, p, m.next, i) => i <= x
    BY <1>3, <1>5, <2>1
  <2>3. \E p \in Parts : IsRow(l, p, m.next, x)
    BY <1>1, <1>5, <2>1
  <2>. QED
    BY <1>1, <1>4, <2>2, <2>3 DEF HoldsRow
<1>7. CASE Changed(m, l) /\ j.got[l] = 0
  <2>1. Over(m, l)
    BY <1>1, <1>2, <1>7 DEF LeftOutOver
  <2>2. \A p \in Parts, i \in 1 .. m.next : IsRow(l, p, m.next, i) => OverRow(i)
    BY <1>3, <2>1 DEF Over, OverRow
  <2>. QED
    BY <1>1, <1>4, <2>2 DEF HoldsRow
<1>8. CASE ~Changed(m, l)
  <2>1. j.got[l] = 0 /\ x = client[c].copy[l] /\ l \in client[c].tracked
    BY <1>1, <1>2, <1>8 DEF BroughtOnly
  <2>2. HoldsRow(x, l, m.since)
    BY <1>1, <2>1 DEF ReadersInv, ClientKnows, CopyKnows
  <2>3. Published(m.v, l) <= m.since
    BY <1>1, <1>5, <1>8 DEF Changed
  <2>4. \A p \in Parts : m.v[l][p] <= m.since
    <3>. SUFFICES ASSUME NEW p \in Parts PROVE m.v[l][p] <= m.since
      OBVIOUS
    <3>1. PICK r, w : r = m.v[l][p] /\ w = Published(m.v, l)
      OBVIOUS
    <3>2. r \in 1 .. n /\ n \in Nat /\ s \in Nat
      BY <1>1, <1>4, <3>1
    <3>4. w \in Nat /\ r <= w
      BY <1>5, <3>1
    <3>5. w <= s
      BY <2>3, <3>1
    <3>3. r <= s
      BY <3>2, <3>4, <3>5
    <3>. QED
      BY <3>1, <3>3
  <2>5. ASSUME NEW p \in Parts, NEW i, IsRow(l, p, m.since, i)
        PROVE  i = m.v[l][p] /\ IsRow(l, p, m.next, i)
    <3>1. i = m.v[l][p]
      <4>1. PICK r : r = m.v[l][p]
        OBVIOUS
      <4>2. s \in Nat /\ n \in Nat /\ s <= n /\ IsRow(l, p, n, r) /\ IsRow(l, p, s, i)
        BY <1>1, <2>5, <4>1
      <4>3. r \in 1 .. s
        BY <1>4, <2>4, <4>1, <4>2
      <4>4. IsRow(l, p, s, r)
        BY <4>2, <4>3, RowBefore
      <4>5. i = r
        BY <4>2, <4>4, RowIsOne
      <4>. QED
        BY <4>1, <4>5
    <3>. QED
      BY <1>1, <3>1
  <2>6. \A p \in Parts : IsRow(l, p, m.since, m.v[l][p])
    <3>. SUFFICES ASSUME NEW p \in Parts PROVE IsRow(l, p, m.since, m.v[l][p])
      OBVIOUS
    <3>1. PICK i \in 1 .. m.since : IsRow(l, p, m.since, i)
      BY <2>2 DEF HoldsRow
    <3>. QED
      BY <2>5, <3>1
  <2>7. \A p \in Parts : m.v[l][p] \in 1 .. m.since
    BY <2>6 DEF IsRow
  <2>8. CASE /\ \E p \in Parts : IsRow(l, p, m.since, x)
             /\ \A p \in Parts, i \in 1 .. m.since : IsRow(l, p, m.since, i) => i <= x
    <3>1. \E p \in Parts : IsRow(l, p, m.next, x)
      BY <2>5, <2>8
    <3>2. \A p \in Parts, i \in 1 .. m.next : IsRow(l, p, m.next, i) => i <= x
      BY <1>3, <2>6, <2>7, <2>8
    <3>. QED
      BY <1>1, <1>4, <3>1, <3>2 DEF HoldsRow
  <2>9. CASE \A p \in Parts, i \in 1 .. m.since : IsRow(l, p, m.since, i) => OverRow(i)
    <3>1. \A p \in Parts, i \in 1 .. m.next : IsRow(l, p, m.next, i) => OverRow(i)
      BY <1>3, <2>6, <2>7, <2>9
    <3>. QED
      BY <1>1, <1>4, <3>1 DEF HoldsRow
  <2>. QED
    BY <2>2, <2>8, <2>9 DEF HoldsRow
<1>. QED
  BY <1>6, <1>7, <1>8

\* The client c after a page up to q of the manifest m that left j.
Turns(c, q, m, j) ==
    client' = [client EXCEPT ![c] =
        IF q < Last
        THEN [client[c] EXCEPT !.pos = q, !.got = j.got, !.ok = j.ok, !.doubt = FALSE]
        ELSE [Idle(m.next,
                   [l \in Locations |-> IF j.got[l] # 0 THEN j.got[l] ELSE client[c].copy[l]],
                   (client[c].tracked \cup {l \in Locations : j.got[l] # 0})
                       \cap m.locs \cap roster)
              EXCEPT !.got = j.got, !.ok = j.ok]]

\* What a page leaves of its client.
LEMMA PageEffect ==
    ASSUME ReadersInv, NEW c \in Clients, NEW q \in 0 .. Last, Page(c, q),
           NEW m, m = snaps[client[c].snap]
    PROVE  /\ client[c].pc = "page" /\ q \in client[c].pos .. Last
           /\ UNCHANGED <<style, now, gens, cover, snaps>>
           /\ \E j : /\ PageRead(c, q, m, j) /\ j.ok \in BOOLEAN
                     /\ Turns(c, q, m, j)
<1>1. PICK got : got = [l \in Locations |->
                          IF l \in Out(m, client[c].pos, q) THEN Brings(m, l) ELSE client[c].got[l]]
  OBVIOUS
<1>2. PICK ok : ok = (client[c].ok /\ ~Stale(m, client[c].doubt, Omitted(m, client[c].pos, q)))
  OBVIOUS
<1>3. PICK j : j = [pos |-> q, got |-> got, ok |-> ok]
  OBVIOUS
<1>4. PageRead(c, q, m, j) /\ j.ok \in BOOLEAN
  BY <1>1, <1>2, <1>3 DEF PageRead
<1>5. /\ client[c].pc = "page" /\ q \in client[c].pos .. Last
      /\ UNCHANGED <<style, now, gens, cover, snaps>>
  BY DEF Page
<1>6. client' = [client EXCEPT ![c] =
                          IF q < Last
                          THEN [client[c] EXCEPT !.pos = q, !.got = got, !.ok = ok, !.doubt = FALSE]
                          ELSE [Idle(m.next,
                                     [l \in Locations |-> IF got[l] # 0 THEN got[l]
                                                          ELSE client[c].copy[l]],
                                     (client[c].tracked \cup {l \in Locations : got[l] # 0})
                                         \cap m.locs \cap roster)
                                EXCEPT !.got = got, !.ok = ok]]
  BY <1>1, <1>2 DEF Page
<1>7. got = j.got /\ ok = j.ok
  BY <1>3
<1>8. Turns(c, q, m, j)
  BY <1>6, <1>7 DEF Turns
<1>. QED
  BY <1>4, <1>5, <1>8

\* A page brings what it has to bring; the last one moves the client's watermark.
LEMMA PageStep ==
    ASSUME ReadersInv, NEW c \in Clients, NEW q \in 0 .. Last, Page(c, q)
    PROVE  ReadersInv'
<1>1. PICK m : m = snaps[client[c].snap]
  OBVIOUS
<1>2. /\ client[c].pc = "page" /\ q \in client[c].pos .. Last
      /\ UNCHANGED <<style, now, gens, cover, snaps>>
  BY <1>1, PageEffect
<1>3. PICK j : /\ PageRead(c, q, m, j) /\ j.ok \in BOOLEAN
               /\ Turns(c, q, m, j)
  BY <1>1, PageEffect
<1>4. /\ j.got \in [Locations -> Nat] /\ j.pos = q
      /\ BroughtOnly(j, m) /\ LeftOutOver(j, m) /\ OkBrought(j, m)
  BY <1>1, <1>2, <1>3, PageBrings DEF PageRead
<1>5. /\ client[c].snap \in 1 .. Len(snaps) /\ m.since = client[c].since
      /\ m.since \in Nat /\ m.next \in Nat /\ m.locs \in SUBSET Locations
      /\ FrozenWell(m.since, m.locs, m.v, m.next)
  BY <1>1, <1>2, PageManifest
<1>6. ReadersTyped /\ client[c] \in ClientRow /\ q \in Nat /\ q <= Last /\ Last \in Nat
  BY ClientTyping, Places DEF ReadersInv
<1>7. CASE q < Last
  <2>1. PICK k : k = [client[c] EXCEPT !.pos = q, !.got = j.got, !.ok = j.ok, !.doubt = FALSE]
    OBVIOUS
  <2>2. client' = [client EXCEPT ![c] = k]
    BY <1>3, <1>6, <1>7, <2>1 DEF Turns
  <2>3. /\ k \in ClientRow /\ k.pc = "page" /\ k.snap = client[c].snap
        /\ k.since = client[c].since /\ k.copy = client[c].copy
        /\ k.tracked = client[c].tracked
        /\ k.pos = j.pos /\ k.got = j.got /\ k.ok = j.ok
    BY <1>2, <1>3, <1>4, <1>6, <2>1 DEF ClientRow
  <2>4. /\ ReadersTyped' /\ Carries /\ client'[c] = k
        /\ \A d \in Clients \ {c} : client'[d] = client[d]
        /\ \A h \in Len(snaps) + 1 .. Len(snaps') : SnapKnows(h)'
    BY <1>2, <2>2, <2>3, SameSnaps
  <2>5. \A l \in Locations :
            /\ Changed(m, l)' <=> Changed(m, l)
            /\ Published(m.v, l)' = Published(m.v, l)
            /\ Changed(m, l) /\ Over(m, l) => Over(m, l)'
    BY <1>5, <1>6, <2>4, ManifestKept
  <2>6. HasSince' = HasSince /\ style' = style
    BY <2>4, StyleKept DEF Carries
  <2>7. BroughtOnly(k, m)'
    BY <1>4, <2>3, <2>5, <2>6 DEF BroughtOnly
  <2>8. LeftOutOver(k, m)'
    BY <1>4, <2>3, <2>5, <2>6 DEF LeftOutOver
  <2>9. OkBrought(k, m)'
    BY <1>4, <2>3, <2>5, <2>6 DEF OkBrought
  <2>10. PagesKnow(c)'
    <3>1. snaps'[client'[c].snap] = m /\ client'[c].pos <= Last
      BY <1>1, <1>2, <1>4, <1>6, <2>3, <2>4
    <3>. QED
      BY <2>4, <2>7, <2>8, <2>9, <3>1 DEF PagesKnow, Last
  <2>11. HandleKnown(c)'
    BY <1>1, <1>2, <1>5, <2>3, <2>4 DEF HandleKnown
  <2>12. CopyKnows(c)'
    BY <2>3, <2>4, CopyKept
  <2>13. ViewKnows(c)' /\ BeforePages(c)'
    BY <2>3, <2>4 DEF ViewKnows, BeforePages
  <2>14. ClientKnows(c)'
    BY <2>10, <2>11, <2>12, <2>13 DEF ClientKnows
  <2>. QED
    BY <2>4, <2>14, OneClient
<1>8. CASE q = Last
  <2>1. PICK copied : copied = [l \in Locations |-> IF j.got[l] # 0 THEN j.got[l]
                                                    ELSE client[c].copy[l]]
    OBVIOUS
  <2>2. PICK T : T = (client[c].tracked \cup {l \in Locations : j.got[l] # 0})
                         \cap m.locs \cap roster
    OBVIOUS
  <2>3. PICK r : r = Idle(m.next, copied, T)
    OBVIOUS
  <2>4. PICK k : k = [r EXCEPT !.got = j.got, !.ok = j.ok]
    OBVIOUS
  <2>5. client' = [client EXCEPT ![c] = k]
    <3>1. ~(q < Last)
      BY <1>6, <1>8
    <3>2. client' = [client EXCEPT ![c] = [Idle(m.next, copied, T) EXCEPT !.got = j.got, !.ok = j.ok]]
      BY <1>3, <2>1, <2>2, <3>1 DEF Turns
    <3>. QED
      BY <2>3, <2>4, <3>2
  <2>6. copied \in [Locations -> Nat] /\ T \in SUBSET Locations
    BY <1>4, <1>5, <1>6, <2>1, <2>2, ClientTyping
  <2>7. /\ r \in ClientRow /\ r.pc = "idle" /\ r.since = m.next /\ r.copy = copied
        /\ r.tracked = T
    <3>1. PICK v : v = [locs |-> {}, v |-> Unselected, next |-> 0, unconf |-> FALSE,
                        ready |-> FALSE]
      OBVIOUS
    <3>2. v \in ViewRow
      BY <1>6, <3>1, FrozenTyped DEF ViewRow
    <3>3. [l \in Locations |-> 0] \in [Locations -> Nat]
      OBVIOUS
    <3>4. r = [pc |-> "idle", since |-> m.next, copy |-> copied, tracked |-> T, view |-> v,
               snap |-> 0, doubt |-> FALSE, pos |-> 0, got |-> [l \in Locations |-> 0], ok |-> TRUE]
      BY <2>3, <3>1 DEF Idle
    <3>. QED
      BY <1>5, <2>6, <3>2, <3>3, <3>4 DEF ClientRow
  <2>8. /\ k \in ClientRow /\ k.pc = "idle" /\ k.since = m.next /\ k.copy = copied
        /\ k.tracked = T
    BY <1>3, <1>4, <2>4, <2>7 DEF ClientRow
  <2>9. /\ ReadersTyped' /\ Carries /\ client'[c] = k
        /\ \A d \in Clients \ {c} : client'[d] = client[d]
        /\ \A h \in Len(snaps) + 1 .. Len(snaps') : SnapKnows(h)'
    BY <1>2, <2>5, <2>8, SameSnaps
  <2>10. CopyKnows(c)'
    <3>. SUFFICES ASSUME HasSince' PROVE /\ client'[c].since <= Len(gens')
                                         /\ \A i \in {client'[c]} : \A l \in i.tracked :
                                                HoldsRow(i.copy[l], l, i.since)'
      BY DEF CopyKnows
    <3>1. HasSince
      BY <2>9, StyleKept DEF Carries
    <3>2. m.next <= Len(gens)
      BY <1>5, <3>1 DEF FrozenWell, FrozenAt
    <3>3. client'[c].since <= Len(gens')
      BY <1>2, <2>8, <2>9, <3>2
    <3>4. ASSUME NEW l \in T PROVE HoldsRow(copied[l], l, m.next)'
      <4>1. PICK x, n : x = copied[l] /\ n = m.next
        OBVIOUS
      <4>2. l \in m.locs /\ (l \in client[c].tracked \/ j.got[l] # 0) /\ l \in Locations
        BY <2>2, <2>6
      <4>3. x = IF j.got[l] # 0 THEN j.got[l] ELSE client[c].copy[l]
        BY <2>1, <4>1, <4>2
      <4>4. Last \in client[c].pos .. Last /\ PageRead(c, Last, m, j)
        BY <1>2, <1>3, <1>8
      <4>5. HoldsRow(x, l, m.next)
        BY <1>1, <1>2, <3>1, <4>2, <4>3, <4>4, LastPageHolds
      <4>6. HoldsRow(x, l, n)'
        BY <1>5, <1>6, <2>9, <3>2, <4>1, <4>5, HoldsKept
      <4>. QED
        BY <4>1, <4>6
    <3>5. \A i \in {client'[c]} : \A l \in i.tracked : HoldsRow(i.copy[l], l, i.since)'
      BY <2>8, <2>9, <3>4
    <3>. QED
      BY <3>3, <3>5
  <2>11. ViewKnows(c)' /\ HandleKnown(c)' /\ PagesKnow(c)' /\ BeforePages(c)'
    BY <2>8, <2>9 DEF ViewKnows, HandleKnown, PagesKnow, BeforePages
  <2>12. ClientKnows(c)'
    BY <2>10, <2>11 DEF ClientKnows
  <2>. QED
    BY <2>9, <2>12, OneClient
<1>. QED
  BY <1>6, <1>7, <1>8

\* Nothing is published and nobody has asked.
LEMMA ReadersStart == ReadersInit => ReadersInv
<1>. SUFFICES ASSUME ReadersInit PROVE ReadersInv
  OBVIOUS
<1>1. PICK k : k = Idle(0, [l \in Locations |-> 0], {})
  OBVIOUS
<1>2. /\ style \in Styles /\ now = 1 /\ gens = <<>> /\ snaps = <<>>
      /\ cover = [s \in Scopes |-> 0] /\ client = [c \in Clients |-> k]
  BY <1>1 DEF ReadersInit
<1>3. k \in ClientRow /\ k.pc = "idle" /\ k.since = 0 /\ k.tracked = {}
  <2>1. PICK v : v = [locs |-> {}, v |-> Unselected, next |-> 0, unconf |-> FALSE,
                      ready |-> FALSE]
    OBVIOUS
  <2>2. v \in ViewRow
    <3>1. Unselected \in RowVector
      BY DEF Unselected, RowVector
    <3>. QED
      BY <2>1, <3>1 DEF ViewRow
  <2>3. PICK z : z = [l \in Locations |-> 0]
    OBVIOUS
  <2>4. z \in [Locations -> Nat]
    BY <2>3
  <2>5. k = [pc |-> "idle", since |-> 0, copy |-> z, tracked |-> {}, view |-> v,
             snap |-> 0, doubt |-> FALSE, pos |-> 0, got |-> z, ok |-> TRUE]
    BY <1>1, <2>1, <2>3 DEF Idle
  <2>. QED
    BY <2>2, <2>4, <2>5 DEF ClientRow
<1>4. ReadersTyped
  <2>1. gens \in Seq(PublicationRow) /\ snaps \in Seq(ManifestRow)
    BY <1>2
  <2>2. cover \in [Scopes -> Nat] /\ client \in [Clients -> ClientRow] /\ now \in Nat
    BY <1>2, <1>3
  <2>. QED
    BY <1>2, <2>1, <2>2 DEF ReadersTyped
<1>5. \A h \in 1 .. Len(snaps) : SnapKnows(h)
  BY <1>2
<1>6. ASSUME NEW c \in Clients PROVE ClientKnows(c)
  <2>1. client[c] = k /\ Len(gens) = 0
    BY <1>2
  <2>2. CopyKnows(c)
    BY <1>3, <2>1 DEF CopyKnows
  <2>3. ViewKnows(c) /\ HandleKnown(c) /\ PagesKnow(c) /\ BeforePages(c)
    BY <1>3, <2>1 DEF ViewKnows, HandleKnown, PagesKnow, BeforePages
  <2>. QED
    BY <2>2, <2>3 DEF ClientKnows
<1>. QED
  BY <1>4, <1>5, <1>6 DEF ReadersInv

\* Every step of a request keeps the invariant, ...
LEMMA RequestStep ==
    ASSUME ReadersInv, NEW c \in Clients, Request(c)
    PROVE  ReadersInv'
<1>1. CASE FreezeRead(c)
  BY <1>1, FreezeReadStep
<1>2. CASE FreezeCommit(c)
  BY <1>2, FreezeCommitStep
<1>3. CASE \E limited \in BOOLEAN : Fallback(c, limited)
  BY <1>3, FallbackStep
<1>4. CASE Unavailable(c) \/ Gone(c)
  BY <1>4, RestartStep
<1>5. CASE \E renewed \in BOOLEAN : RenewReused(c, renewed)
  BY <1>5, RenewStep
<1>6. CASE \E q \in 0 .. Last : Page(c, q)
  BY <1>6, PageStep
<1>. QED
  BY <1>1, <1>2, <1>3, <1>4, <1>5, <1>6 DEF Request

\* ... and so does every step of the readers.
LEMMA ReadersStep == ReadersInv /\ (ReadersNext \/ UNCHANGED readerVars) => ReadersInv'
<1>. SUFFICES ASSUME ReadersInv, ReadersNext \/ UNCHANGED readerVars PROVE ReadersInv'
  OBVIOUS
<1>1. ASSUME NEW s \in Scopes, NEW rev \in now - Lag[style] .. now, Publish(s, rev)
      PROVE  ReadersInv'
  BY <1>1, PublishStep
<1>2. ASSUME NEW s \in Scopes, Unpublished(s) PROVE ReadersInv'
  BY <1>2, UnpublishedStep
<1>3. ASSUME NEW l \in Locations, NEW state, EditCatalog(l, state) PROVE ReadersInv'
  BY <1>3, EditStep
<1>4. ASSUME NEW c \in Clients, Request(c) PROVE ReadersInv'
  BY <1>4, RequestStep
<1>5. CASE Summarize \/ Wait \/ UNCHANGED readerVars
  BY <1>5, SummarizeStep, WaitStep, IdleStep
<1>. QED
  BY <1>1, <1>2, <1>3, <1>4, <1>5 DEF ReadersNext

\* The invariant holds in every behaviour.
LEMMA ReadersAlways == Spec => []ReadersInv
<1>1. Init => ReadersInv
  BY ReadersStart DEF Init
<1>2. ReadersInv /\ [Next]_vars => ReadersInv'
  <2>. SUFFICES ASSUME ReadersInv, [Next]_vars PROVE ReadersInv'
    OBVIOUS
  <2>1. ReadersNext \/ UNCHANGED readerVars
    BY DEF Next, vars
  <2>. QED
    BY <2>1, ReadersStep
<1>. QED
  BY <1>1, <1>2, PTL DEF Spec

\* A client that follows next_since holds the last publication of what it tracks.
LEMMA MissesNothing == ReadersInv => DeltaMissesNothing
<1>. SUFFICES ASSUME ReadersInv, HasSince, NEW c \in Clients, NEW l \in client[c].tracked,
                     NEW rows, rows = {Row(l, p) : p \in Parts},
                     Max(rows) <= client[c].since, client[c].copy[l] # Max(rows),
                     NEW i \in rows
              PROVE  gens[i].rev + Reach <= now
  BY DEF DeltaMissesNothing
<1>1. PICK k, n : k = client[c] /\ n = k.since
  OBVIOUS
<1>2. n \in Nat /\ n <= Len(gens) /\ Len(gens) \in Nat /\ l \in Locations
      /\ HoldsRow(k.copy[l], l, n)
  BY <1>1, ClientTyping, Typing DEF ReadersInv, ClientKnows, CopyKnows
<1>3. rows \in SUBSET Nat /\ rows # {} /\ \A r \in rows : r <= Len(gens)
  <2>1. \A p \in Parts : Row(l, p) \in Nat /\ Row(l, p) <= Len(gens)
    BY <1>2, RowIs DEF ReadersInv, IsRow
  <2>. QED
    BY <2>1, PartsAre
<1>4. Max(rows) \in rows /\ \A r \in rows : r <= Max(rows)
  BY <1>2, <1>3, MaxIsGreatest
<1>5. ASSUME NEW p \in Parts PROVE IsRow(l, p, n, Row(l, p))
  <2>1. PICK r : r = Row(l, p)
    OBVIOUS
  <2>2. r \in Nat /\ r <= n
    BY <1>1, <1>2, <1>3, <1>4, <2>1
  <2>3. r # 0
    <3>1. PICK j \in 1 .. n : IsRow(l, p, n, j)
      BY <1>2 DEF HoldsRow
    <3>2. j \in 1 .. Len(gens) /\ gens[j].scope = ScopeOf[p][l]
      BY <1>2, <3>1 DEF IsRow
    <3>. QED
      BY <1>2, <2>1, <3>2, RowIs DEF ReadersInv
  <2>4. IsRow(l, p, Len(gens), r) /\ r \in 1 .. n
    BY <1>2, <2>1, <2>2, <2>3, RowIs DEF ReadersInv
  <2>. QED
    BY <1>2, <2>1, <2>4, RowBefore
<1>6. \A p \in Parts : Row(l, p) \in 1 .. n
  BY <1>5 DEF IsRow
<1>7. CASE /\ \E p \in Parts : IsRow(l, p, n, k.copy[l])
           /\ \A p \in Parts, j \in 1 .. n : IsRow(l, p, n, j) => j <= k.copy[l]
  <2>1. PICK p \in Parts : IsRow(l, p, n, k.copy[l])
    BY <1>7
  <2>2. k.copy[l] = Row(l, p)
    BY <1>2, <1>5, <2>1, RowIsOne
  <2>3. \A r \in rows : r <= k.copy[l]
    BY <1>5, <1>6, <1>7
  <2>4. k.copy[l] <= Max(rows) /\ Max(rows) <= k.copy[l]
    BY <1>4, <2>2, <2>3
  <2>5. PICK x, y : x = Max(rows) /\ y = k.copy[l]
    OBVIOUS
  <2>6. x \in Nat /\ y \in Nat /\ x <= y /\ y <= x
    BY <1>3, <1>4, <2>2, <2>4, <2>5, RowIs, <1>2, <2>1 DEF ReadersInv
  <2>7. x = y
    BY <2>6
  <2>. QED
    BY <1>1, <2>5, <2>7
<1>8. CASE \A p \in Parts, j \in 1 .. n : IsRow(l, p, n, j) => OverRow(j)
  BY <1>5, <1>6, <1>8 DEF OverRow
<1>. QED
  BY <1>2, <1>7, <1>8 DEF HoldsRow

\* A client that follows next_since (FrozenForecastExports, FrozenMidForecastExports)
\* holds the last publication of every location it tracks, or its targets are over.
THEOREM DeltasMissNothing == Spec => []DeltaMissesNothing
  BY ReadersAlways, MissesNothing, PTL

\* The last page of an answer whose pages all said ok, and that started at watermark 0,
\* has brought every location of the list that is enabled and approved.
LEMMA OkBroughtAll ==
    ASSUME ReadersInv, NEW c \in Clients, client[c].pc = "page", client[c].since = 0,
           NEW m, m = snaps[client[c].snap], Last \in client[c].pos .. Last,
           NEW j, PageRead(c, Last, m, j), j.ok,
           NEW l \in roster, \A p \in Parts : Live(Row(l, p)),
           style = "daily" => m.v[l]["main"] # 0
    PROVE  j.got[l] # 0
<1>1. /\ m.since = 0 /\ m.v \in RowVector /\ l \in Locations /\ j.pos = Last /\ l <= Last
      /\ FrozenWell(m.since, m.locs, m.v, m.next) /\ OkBrought(j, m)
  <2>1. m.since = 0 /\ m.v \in RowVector /\ FrozenWell(m.since, m.locs, m.v, m.next)
    BY PageManifest
  <2>2. OkBrought(j, m)
    BY PageBrings
  <2>3. l \in Locations /\ j.pos = Last /\ l <= Last
    BY Places DEF PageRead, roster
  <2>. QED
    BY <2>1, <2>2, <2>3
<1>2. ~Stale(m, client[c].doubt, Omitted(m, client[c].pos, Last))
  BY DEF PageRead
<1>3. style # "locations"
  BY <1>2 DEF Stale
<1>4. PICK p \in Parts : TRUE
  BY PartsAre
<1>5. CASE style = "daily"
  <2>1. Parts = {"main"} /\ ~HasSince
    BY <1>5, PartsAre DEF HasSince
  <2>2. l \in Chosen(m.v)
    BY <1>1, <1>5, <2>1 DEF Chosen
  <2>3. Changed(m, l)
    BY <1>1, <1>5, <2>1, <2>2 DEF FrozenWell, Changed
  <2>. QED
    BY <1>1, <1>5, <2>3 DEF OkBrought
<1>6. CASE style # "daily"
  <2>1. ~SelectionChanged(m)
    BY <1>2, <1>3, <1>6 DEF Stale
  <2>2. Selection[l][p] # 0
    BY <1>1, <1>4 DEF Selection, Live
  <2>3. m.v[l][p] # 0
    BY <1>1, <1>4, <2>1, <2>2 DEF SelectionChanged, PairsChanged
  <2>4. l \in m.locs
    BY <1>1, <1>3, <1>4, <1>6, <2>3 DEF FrozenWell, Chosen
  <2>5. Published(m.v, l) > 0
    BY <1>1, <1>4, <2>3, PublishedIs
  <2>6. Changed(m, l)
    BY <1>1, <2>4, <2>5 DEF Changed
  <2>. QED
    BY <1>1, <1>3, <1>6, <2>6 DEF OkBrought
<1>. QED
  BY <1>5, <1>6

\* A page ends an answer only as its last one.
LEMMA PageEnds ==
    ASSUME ReadersInv, NEW c \in Clients, NEW q \in 0 .. Last, Page(c, q),
           client'[c].pc = "idle", NEW m, m = snaps[client[c].snap]
    PROVE  /\ q = Last /\ Last \in client[c].pos .. Last
           /\ \E j : /\ PageRead(c, Last, m, j) /\ j.ok \in BOOLEAN
                     /\ client'[c].got = j.got /\ client'[c].ok = j.ok
<1>1. PICK j : PageRead(c, q, m, j) /\ j.ok \in BOOLEAN /\ Turns(c, q, m, j)
  BY PageEffect
<1>2. client[c].pc = "page" /\ q \in client[c].pos .. Last
  BY PageEffect
<1>3. /\ client \in [Clients -> ClientRow] /\ client[c] \in ClientRow
      /\ q \in Nat /\ q <= Last /\ Last \in Nat
  BY Places, ClientTyping DEF ReadersInv, ReadersTyped
<1>4. q = Last
  <2>. SUFFICES ASSUME q < Last PROVE FALSE
    BY <1>3
  <2>1. PICK k : k = [client[c] EXCEPT !.pos = q, !.got = j.got, !.ok = j.ok, !.doubt = FALSE]
    OBVIOUS
  <2>2. client' = [client EXCEPT ![c] = k]
    BY <1>1, <2>1 DEF Turns
  <2>3. client'[c] = k
    BY <1>3, <2>2
  <2>4. k.pc = client[c].pc
    BY <1>3, <2>1 DEF ClientRow
  <2>. QED
    BY <1>2, <2>3, <2>4
<1>5. client'[c].got = j.got /\ client'[c].ok = j.ok
  <2>1. PICK r : r = Idle(m.next,
                   [l \in Locations |-> IF j.got[l] # 0 THEN j.got[l] ELSE client[c].copy[l]],
                   (client[c].tracked \cup {l \in Locations : j.got[l] # 0})
                       \cap m.locs \cap roster)
    OBVIOUS
  <2>2. PICK k : k = [r EXCEPT !.got = j.got, !.ok = j.ok]
    OBVIOUS
  <2>3. ~(q < Last)
    BY <1>3, <1>4
  <2>4. client' = [client EXCEPT ![c] = k]
    BY <1>1, <2>1, <2>2, <2>3 DEF Turns
  <2>5. client'[c] = k
    BY <1>3, <2>4
  <2>6. k.got = j.got /\ k.ok = j.ok
    BY <2>1, <2>2 DEF Idle
  <2>. QED
    BY <2>5, <2>6
<1>. QED
  BY <1>1, <1>2, <1>4, <1>5

\* Only the last page and an expired handle end the pages of a request.
LEMMA AnswerEnds ==
    ASSUME ReadersInv, ReadersNext, NEW c \in Clients,
           client[c].pc = "page", client'[c].pc = "idle"
    PROVE  Gone(c) \/ \E q \in 0 .. Last : Page(c, q)
<1>1. client \in [Clients -> ClientRow] /\ client[c] \in ClientRow
  BY ClientTyping DEF ReadersInv, ReadersTyped
<1>2. client'[c] # client[c]
  OBVIOUS
<1>3. ~\E s \in Scopes, rev \in now - Lag[style] .. now : Publish(s, rev)
  BY <1>2 DEF Publish
<1>4. ~\E s \in Scopes : Unpublished(s)
  BY <1>2 DEF Unpublished
<1>5. ~Summarize /\ ~Wait
  BY <1>2 DEF Summarize, Wait
<1>6. ASSUME NEW l, NEW state, EditCatalog(l, state) PROVE FALSE
  <2>1. client' = [d \in Clients |-> [client[d] EXCEPT !.tracked = @ \cap roster']]
    BY <1>6 DEF EditCatalog
  <2>2. client'[c] = [client[c] EXCEPT !.tracked = @ \cap roster']
    BY <2>1
  <2>3. client'[c].pc = client[c].pc
    BY <1>1, <2>2 DEF ClientRow
  <2>. QED
    BY <2>3
<1>7. PICK d \in Clients : Request(d)
  BY <1>3, <1>4, <1>5, <1>6 DEF ReadersNext
<1>8. d = c
  <2>. SUFFICES ASSUME d # c PROVE client'[c] = client[c]
    BY <1>2
  <2>1. \A k : client' = [client EXCEPT ![d] = k] => client'[c] = client[c]
    BY <1>1
  <2>2. CASE FreezeRead(d) \/ Unavailable(d) \/ Gone(d)
    BY <1>1, <2>2 DEF FreezeRead, Unavailable, Gone
  <2>3. CASE FreezeCommit(d)
    BY <1>1, <2>3 DEF FreezeCommit, Goes
  <2>4. CASE \E limited \in BOOLEAN : Fallback(d, limited)
    BY <1>1, <2>4 DEF Fallback, Goes
  <2>5. CASE \E renewed \in BOOLEAN : RenewReused(d, renewed)
    BY <1>1, <2>5 DEF RenewReused
  <2>6. CASE \E q \in 0 .. Last : Page(d, q)
    <3>1. PICK m : m = snaps[client[d].snap]
      OBVIOUS
    <3>2. PICK q \in 0 .. Last : Page(d, q)
      BY <2>6
    <3>3. PICK j : Turns(d, q, m, j)
      BY <3>1, <3>2, PageEffect
    <3>. QED
      BY <2>1, <3>3 DEF Turns
  <2>. QED
    BY <1>7, <2>2, <2>3, <2>4, <2>5, <2>6 DEF Request
<1>9. ~FreezeRead(c) /\ ~FreezeCommit(c) /\ ~Unavailable(c)
  BY DEF FreezeRead, FreezeCommit, Unavailable
<1>10. /\ ~\E limited \in BOOLEAN : Fallback(c, limited)
       /\ ~\E renewed \in BOOLEAN : RenewReused(c, renewed)
  BY DEF Fallback, RenewReused
<1>. QED
  BY <1>7, <1>8, <1>9, <1>10 DEF Request

\* An answer whose pages all said ok (_page_guarded, _health) left out no enabled and
\* approved location.
THEOREM OkAnswersAreWhole == Spec => OkIsWhole
<1>. DEFINE A(c) ==
         /\ client[c].pc = "page" /\ client'[c].pc = "idle"
         /\ client'[c].ok /\ client'[c] # Restart(client[c]) /\ client[c].since = 0
         => \A l \in roster :
              (\A p \in Parts : Live(Row(l, p)))
                  /\ (style = "daily" => snaps[client[c].snap].v[l]["main"] # 0)
              => client'[c].got[l] # 0
<1>1. ReadersInv /\ [Next]_vars => [\A c \in Clients : A(c)]_readerVars
  <2>. SUFFICES ASSUME ReadersInv, ReadersNext, NEW c \in Clients,
                       client[c].pc = "page", client'[c].pc = "idle", client'[c].ok,
                       client'[c] # Restart(client[c]), client[c].since = 0,
                       NEW l \in roster, \A p \in Parts : Live(Row(l, p)),
                       style = "daily" => snaps[client[c].snap].v[l]["main"] # 0
                PROVE  client'[c].got[l] # 0
    BY DEF Next, vars
  <2>1. ~Gone(c)
    BY ClientTyping DEF Gone, ReadersInv, ReadersTyped
  <2>2. PICK q \in 0 .. Last : Page(c, q)
    BY <2>1, AnswerEnds
  <2>3. PICK m : m = snaps[client[c].snap]
    OBVIOUS
  <2>4. Last \in client[c].pos .. Last
    BY <2>2, <2>3, PageEnds
  <2>5. PICK j : /\ PageRead(c, Last, m, j) /\ j.ok \in BOOLEAN
                 /\ client'[c].got = j.got /\ client'[c].ok = j.ok
    BY <2>2, <2>3, PageEnds
  <2>6. j.got[l] # 0
    BY <2>3, <2>4, <2>5, OkBroughtAll
  <2>. QED
    BY <2>5, <2>6
<1>. QED
  BY <1>1, ReadersAlways, PTL DEF Spec, OkIsWhole
=============================================================================
