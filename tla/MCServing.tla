------------------------------ MODULE MCServing ------------------------------
EXTENDS Serving

\* A mid-term location has a land region that it shares and a temperature region of
\* its own.
MCScopeOf == [p \in {"main", "land", "temperature"} |-> [l \in {1, 2} |->
    CASE p = "main" -> "grid" [] p = "land" -> "land" [] OTHER -> IF l = 1 THEN "t1" ELSE "t2"]]
MCLag == [current |-> 1, forecast |-> 1, mid |-> 0, daily |-> 1, locations |-> 0]
MCMaxGens == [current |-> 2, forecast |-> 2, mid |-> 3, daily |-> 2, locations |-> 0]
MCMaxSnaps == [current |-> 2, forecast |-> 3, mid |-> 2, daily |-> 2, locations |-> 3]
MCRunOf == [a \in 1 .. 3 |-> IF a = 2 THEN "r2" ELSE "r1"]
=============================================================================
