------------------------ MODULE ExportHeadsRefinement ------------------------
(***************************************************************************)
(* ExportHeads implements PublicationLog: the log is read off the          *)
(* generation and plan rows, the latest publications off the head rows,    *)
(* and the approvals are the inventory.                                    *)
(***************************************************************************)
EXTENDS ExportHeads

\* The weather_export_generations row of an attempt as an entry of the log.
LogEntry(a) ==
    IF Committed(a) THEN [ns |-> plan[a].ns, at |-> gen[a].at, parent |-> gen[a].parent]
    ELSE [ns |-> None, at |-> 0, parent |-> None]

Log == INSTANCE PublicationLog WITH
    log    <- [a \in Attempts |-> LogEntry(a)],
    latest <- [n \in Namespaces |-> [gen |-> head[n].gen, version |-> head[n].version]],
    approved <- inventory

\* The promotions of any number of publishers, in several transactions each, with
\* crashes, retirements and changes of ownership between them, are one log: a head is
\* always the last publication of its namespace, no publication is lost, repeated or
\* put beside another one, the watermark of a new one is past all others, and no
\* approval goes back to an earlier one (_promote, record_approved_locations).
ImplementsLog == Log!Spec
=============================================================================
