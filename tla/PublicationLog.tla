---------------------------- MODULE PublicationLog ----------------------------
(***************************************************************************)
(* What publication promises to its readers, without transactions,         *)
(* publishers, files and ownership: a log to which attempts are added one  *)
(* at a time, never changed and never removed.  Each publication is later  *)
(* than all the ones before it, whatever their namespace, and succeeds the *)
(* latest one of its own namespace.  A location is approved with entries   *)
(* of the log, each time a later one.                                      *)
(***************************************************************************)
EXTENDS Integers

CONSTANTS Attempts, Namespaces, Locations, None

VARIABLES
    log,        \* [Attempts -> namespace, watermark and predecessor of a publication]
    latest,     \* [Namespaces -> the latest publication and how many there are]
    approved    \* [Locations -> the publication it is approved with, and its watermark]

Unpublished == [ns |-> None, at |-> 0, parent |-> None]

Init ==
    /\ log = [a \in Attempts |-> Unpublished]
    /\ latest = [n \in Namespaces |-> [gen |-> None, version |-> 0]]
    /\ approved = [l \in Locations |-> [gen |-> None, at |-> 0]]

Publish(a, n) ==
    /\ log[a] = Unpublished
    /\ \A b \in Attempts : log[b].at < log'[a].at
    /\ log' = [log EXCEPT ![a] = [ns |-> n, at |-> log'[a].at, parent |-> latest[n].gen]]
    /\ latest' = [latest EXCEPT ![n] = [gen |-> a, version |-> @.version + 1]]

Approve(l) ==
    \/ approved'[l] = approved[l]
    \/ \E a \in Attempts : /\ approved[l].at < log'[a].at
                            /\ approved'[l] = [gen |-> a, at |-> log'[a].at]

Next ==
    /\ \/ \E a \in Attempts, n \in Namespaces : Publish(a, n)
       \/ UNCHANGED <<log, latest>>
    /\ \A l \in Locations : Approve(l)

Spec == Init /\ [][Next]_<<log, latest, approved>>
=============================================================================
