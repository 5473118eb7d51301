------------------------------- MODULE Serving -------------------------------
(***************************************************************************)
(* What publishes and serves the exports: the publisher sensor, the locks  *)
(* around the files, and the readers behind the API.  A behaviour follows  *)
(* one of them, fixed by the initial state; the variables of the others    *)
(* keep their initial values.                                              *)
(***************************************************************************)
EXTENDS ExportReaders, ArtifactGuard, PublisherTick

VARIABLE part   \* the part this behaviour is about

vars == <<part, readerVars, guardVars, tickVars>>

Init ==
    /\ part \in {"readers", "guard", "publisher"}
    /\ ReadersInit /\ GuardInit /\ TickInit
    /\ part # "readers" => /\ style = CHOOSE s \in Styles : TRUE
                           /\ catalog = [l \in Locations |-> "enabled"]
    /\ IF part = "publisher" THEN Pending = Attempts 
       ELSE Pending = {} /\ \A r \in Runs : native[r] = "running"

Next ==
    \/ part = "readers" /\ ReadersNext /\ UNCHANGED <<part, guardVars, tickVars>>
    \/ part = "guard" /\ GuardNext /\ UNCHANGED <<part, readerVars, tickVars>>
    \/ part = "publisher" /\ (TickStep \/ TickSurroundings)
       /\ UNCHANGED <<part, readerVars, guardVars>>

Spec == Init /\ [][Next]_vars
=============================================================================
