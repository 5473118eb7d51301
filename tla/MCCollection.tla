---------------------------- MODULE MCCollection -----------------------------
EXTENDS Collection

MCUnits == {"g1", "g2", "g3", "s1", "s2", "s3", "s4"}
MCLocsOf == [u \in MCUnits |-> CASE u = "g1" -> <<2, 1>> [] u = "g2" -> <<3>> [] u = "g3" -> <<4>>
                                 [] u = "s1" -> <<1>> [] u = "s2" -> <<2>> [] u = "s3" -> <<3>> [] OTHER -> <<4>>]
MCGroupOrder == <<"g1", "g2", "g3">>
MCOffices == <<"g1">>
MCStations == {"s1", "s2", "s3", "s4"}
MCSidoOf == [s \in MCStations |-> IF s = "s4" THEN "none" ELSE "seoul"]
MCNameOf == [s \in MCStations |-> IF s \in {"s1", "s2"} THEN "a" ELSE "b"]
MCResponses == {[rows |-> 0, n |-> 0, missing |-> 0, invalid |-> 0],
                [rows |-> 1, n |-> 1, missing |-> 0, invalid |-> 0],
                [rows |-> 1, n |-> 0, missing |-> 1, invalid |-> 0],
                [rows |-> 2, n |-> 2, missing |-> 0, invalid |-> 0]}
\* Only alerts carry state from run to run; one run of a job with exports is enough.
MCMaxRuns == [j \in Jobs |-> CASE j = "kma_alerts" -> 3
                              [] j = "alert_events" -> 2
                              [] OTHER -> 1]
MCGridOf == [a \in 1 .. 6 |-> IF a = 6 THEN 1 ELSE a]
MCInitialNotices == {<<1>>}
=============================================================================
