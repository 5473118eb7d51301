---------------------------- MODULE MCSyncRunLease ----------------------------
(***************************************************************************)
(* Small instances of SyncRunLease for TLC.                                *)
(***************************************************************************)
EXTENDS SyncRunLease

CONSTANTS r1, r2, r3, k1

\* All the runs collect one dataset.
OneDataset == [r \in Runs |-> k1]

\* Every run has a dataset of its own (a bundle and a single dataset report the same key).
OwnDataset == [r \in Runs |-> r]

AllKeysOf == [r \in Runs |-> Keys]

RankOf == [r \in Runs |-> IF r = r1 THEN 1 ELSE IF r = r2 THEN 2 ELSE 3]
=============================================================================
