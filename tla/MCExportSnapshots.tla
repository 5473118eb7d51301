--------------------------- MODULE MCExportSnapshots ---------------------------
(***************************************************************************)
(* Small instances of ExportSnapshots for TLC.                             *)
(***************************************************************************)
EXTENDS ExportSnapshots

CONSTANTS a1, a2, a3, p1, d1, d2, w1, w2

\* Every attempt moves the one pointer.
OnePointer == [a \in Attempts |-> {p1}]

\* The third attempt has the content of the first.
SameContent == [a \in Attempts |-> IF a = a2 THEN {d2} ELSE {d1}]

Troubles == [
    client      |-> handles # <<>> \/ \E r \in Readers : reader[r].pc # "idle",
    aggregation |-> daily[w2].pc # "idle",
    rewriting   |-> \E d \in Digests : file[d] \notin {None, 0},
    stop        |-> stops > 0]

\* At most one trouble at a time, where a snapshot and a collection that stopped are
\* never over.  These two, and a failed attempt, meet two attempts only; the second
\* aggregation takes the first batch, snapshots are issued at time 0, and the locations
\* stay enabled.  Of the first and the third attempt, which are alike, the first begins
\* first.
TroublesApart ==
    /\ \A t, u \in DOMAIN Troubles : Troubles[t] /\ Troubles[u] => t = u
    /\ Troubles.client \/ Troubles.stop \/ (\E a \in Attempts : att[a].status = "failed") =>
           Cardinality({a \in Attempts : att[a].status # "none"}) <= 2
    /\ daily[w2].after = 0
    /\ \A h \in DOMAIN handles : handles[h].expires = TTL
    /\ roster = Pointers
    /\ att[a1].status = "none" => att[a3].status = "none"
=============================================================================
