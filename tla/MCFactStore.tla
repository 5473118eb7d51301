----------------------------- MODULE MCFactStore -----------------------------
(***************************************************************************)
(* Small instances of FactStore for TLC.                                   *)
(***************************************************************************)
EXTENDS FactStore, TLC

CONSTANTS p1, p2

\* Every response is a revision of one point; alert responses have no fact.
OnePointOf == [r \in Responses |-> p1]
NoShort == [p \in Points |-> 0]

\* Response 1 is about an ordinary point, response 2 a short forecast for day 5.
TwoPointsOf == [r \in Responses |-> IF r = 1 THEN p1 ELSE p2]
ShortIsFive == [p \in Points |-> IF p = p1 THEN 0 ELSE 5]

\* Response 1 is a short forecast for day 3.
ShortIsThree == [p \in Points |-> 3]

\* The forward window is kept: only retention makes days unavailable.
ForwardKept == job.forward = 0 /\ (floor.valid => \E d \in attached : d >= today)

\* Steps that lose their locks are left to another run.
NothingDeferred == job.forward = 0 /\ job.missed = {}

\* A response is published by the day after its fetch.
PublishedSoon ==
    NothingDeferred /\ \A w \in Writers : writer[w].pc # "idle" => today <= writer[w].fetched + 1

\* On the last day at most one ingest runs.
LastDayCalm ==
    PublishedSoon /\ (today = MaxDay => \E w \in Writers : writer[w].pc = "idle")

\* An alert response, an operator's command, a deferred step and an ingest that
\* is run again do not meet.
OneTrouble ==
    Cardinality({b \in {<<1, opUses > 0>>, <<2, ~NothingDeferred \/ missedLast # {}>>,
                        <<3, \E r \in Events : source[r] # 0>>,
                        <<4, \E w \in Writers : writer[w].tries > 0>>} : b[2]}) <= 1

\* On the last day nothing is ingested any more.
LastDayQuiet ==
    OneTrouble /\ (today = MaxDay => \A w \in Writers : writer[w].pc = "idle")

Symmetry == Permutations(Writers)
=============================================================================
