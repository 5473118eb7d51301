--------------------------- MODULE StationRotation ---------------------------
(***************************************************************************)
(* Which grids a KMA grid job asks for (definitions.py): the grids of the  *)
(* explicit targets, and a window of the station grids that moves on by    *)
(* its own length with every time slot.  The slot is the one in which the  *)
(* first run of a chain of retries was created, however long the run       *)
(* waited or was retried.                                                  *)
(*                                                                         *)
(* Grids stand in their spatially even order; a location sits on one grid. *)
(***************************************************************************)
EXTENDS Integers, FiniteSets

CONSTANTS
    Anchors,        \* catalog locations
    GridOf,         \* [Anchors -> Nat]: the grid a location is on
    StationAnchors, \* locations with a measurement_point
    OptedIn,        \* stations with kma_opt_in
    EnvTargets,     \* locations the environment lists as targets
    MaxGrids,       \* max_grids_per_run
    FillGrids,      \* kma_station_fill_max_grids
    MaxSlot,        \* bound on the clock, in slots
    MaxEdits        \* bound on the administrator's edits

ASSUME RotationAssumption ==
    /\ IsFiniteSet(Anchors)
    /\ GridOf \in [Anchors -> Nat]
    /\ OptedIn \subseteq StationAnchors /\ StationAnchors \cup EnvTargets \subseteq Anchors
    /\ {MaxGrids, FillGrids, MaxSlot} \subseteq Nat \ {0} /\ MaxEdits \in Nat

VARIABLES
    slot,       \* the clock
    enabled,    \* enabled locations
    edits,      \* versions of the catalog so far
    chain,      \* [slot, tag, done] of the chains of runs created so far
    asked       \* [slot, edit, grids] of the runs that collected their targets

rotationVars == <<slot, enabled, edits, chain, asked>>

\* _is_kma_target_location, over the enabled part of the catalog and the environment.
_kma_grid_targets == {a \in enabled : a \notin StationAnchors \/ a \in OptedIn}
                       \cup (EnvTargets \cap enabled)
Covered == {GridOf[a] : a \in _kma_grid_targets}
FillStations == (StationAnchors \ OptedIn) \cap (enabled \ _kma_grid_targets)
\* The grids that compete for the fill budget, and a grid's place in their order.
FillGrid == {GridOf[a] : a \in FillStations} \ Covered
Place(g) == Cardinality({h \in FillGrid : h < g})
Budget == LET left == MaxGrids - Cardinality(Covered)
          IN  IF FillGrids < left THEN FillGrids ELSE left

\* _station_grid_fill: `take' grids from the slot's place in the circle.
_station_grid_fill(s) ==
    LET n    == Cardinality(FillGrid)
        take == IF Budget < n THEN Budget ELSE n
        from == (s * take) % n
    IN  {g \in FillGrid : \E i \in 0 .. take - 1 : Place(g) = (from + i) % n}

rotation_runs ==
    IF Budget > 0 THEN (Cardinality(FillGrid) + Budget - 1) \div Budget ELSE 0

Tick ==
    /\ slot < MaxSlot
    /\ slot' = slot + 1
    /\ UNCHANGED <<enabled, edits, chain, asked>>

NoTag == -1

\* The schedule creates one run per slot; it may start later.  A run asked for by
\* hand may carry the slot to collect as a tag.
CreateRun ==
    /\ \E tag \in {NoTag} \cup (0 .. slot) :
         LET c == [slot |-> slot, tag |-> tag, done |-> FALSE]
         IN  /\ c \notin chain /\ [c EXCEPT !.done = TRUE] \notin chain
             /\ tag # NoTag => \A d \in chain : d.tag = NoTag    \* one by hand is enough
             /\ chain' = chain \cup {c}
    /\ UNCHANGED <<slot, enabled, edits, asked>>

\* Mutation: The slot in which the run happens to start.
SlotOfNow(c) == slot

\* _kma_rotation_slot: retries read the tag and the creation time of the chain's root.
_kma_rotation_slot(c) == IF c.tag # NoTag THEN c.tag ELSE c.slot

\* A run collects its targets and succeeds; one that fails leaves the chain open.
CollectTargets ==
    \E c \in chain :
        /\ ~c.done
        /\ asked' = asked \cup {[slot |-> IF c.tag # NoTag THEN c.tag ELSE c.slot, edit |-> edits,
                                 grids |-> Covered \cup _station_grid_fill(_kma_rotation_slot(c))]}
        /\ chain' = (chain \ {c}) \cup {[c EXCEPT !.done = TRUE]}
        /\ UNCHANGED <<slot, enabled, edits>>

\* An administrator enables or disables a location.
EditCatalog ==
    /\ edits < MaxEdits
    /\ edits' = edits + 1
    /\ \E a \in Anchors : enabled' = IF a \in enabled THEN enabled \ {a} ELSE enabled \cup {a}
    /\ UNCHANGED <<slot, chain, asked>>

RotationInit ==
    /\ slot = 0 /\ enabled = Anchors /\ edits = 0 /\ chain = {} /\ asked = {}

RotationNext == Tick \/ CreateRun \/ CollectTargets \/ EditCatalog

\* Once every slot of one turn has been collected, late or on time and with the same
\* catalog, every enabled location has been asked for, whatever the turn's first slot
\* (_station_grid_fill, _kma_rotation_slot).
FullSweep ==
    \A from \in 0 .. slot :
        LET turn == {r \in asked : r.edit = edits /\ r.slot \in from .. from + rotation_runs - 1}
        IN  /\ Budget > 0
            /\ {r.slot : r \in turn} = from .. from + rotation_runs - 1
            /\ turn # {}
            => {GridOf[a] : a \in enabled} \subseteq UNION {r.grids : r \in turn}
=============================================================================
