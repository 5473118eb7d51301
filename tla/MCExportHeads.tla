---------------------------- MODULE MCExportHeads ----------------------------
(***************************************************************************)
(* Small instances of ExportHeads for TLC.                                 *)
(***************************************************************************)
EXTENDS ExportHeadsRefinement, TLC

CONSTANTS s1, n1, n2, small, big

\* One scope, so that every attempt competes for it.
OneScopeOf == [n \in Namespaces |-> s1]

\* All runs collect the same dataset.
OneDataset == [r \in Runs |-> s1]

\* All namespaces select all the locations.
AllLocationsOf == [n \in Namespaces |-> Locations]

\* big has more than twice the points of small: the shrink guard applies.
SmallAndBig == [c \in Contents |-> IF c = small THEN 1 ELSE 3]

\* The order in which the collectors call the operations (ingest of
\* KmaNowcastExportCollector): claim, declare and bind before the first chunk is
\* planned, every chunk ingested and its file written before the source closes.
CollectorOrder ==
    \A a \in Attempts :
        /\ Recorded(a) # {} => att[a].epoch # 0
        /\ expected[a] # {} => Bound(a)
        /\ closure[a] # {} => Recorded(a) = expected[a] /\ Artifacts(a) \subseteq files

\* Where only times and contents matter, rejected attempts are left to other runs.
UnrejectedOrder == CollectorOrder /\ \A a \in Attempts : att[a].status # "failed"

\* Only an attempt that is alone has a second chunk.
SecondChunkAlone ==
    LET first == CHOOSE k \in ChunkKeys : TRUE
        keys(a) == expected[a] \cup plan[a].parts
    IN  /\ CollectorOrder
        /\ \A a, b \in Attempts :
              a # b => keys(a) \subseteq {first} \/ att[b].status = "none"

\* Attempts and publishers are interchangeable; runs are when all are native.
Symmetry == Permutations(Attempts) \cup Permutations(Publishers)
NativeSymmetry == Symmetry \cup Permutations(Runs)
=============================================================================
