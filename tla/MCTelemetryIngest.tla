------------------------- MODULE MCTelemetryIngest -------------------------
(* Two requests at a time for one unit with a discrete and an analog        *)
(* metric.  The records report one or both metrics, at three times, of      *)
(* which the first and the last are a gap apart.                            *)
EXTENDS TelemetryIngest, TLC

Sample(m, v, q) == [metric |-> m, value |-> v, quality |-> q]
Record(t, samples) == [at |-> t, metrics |-> samples]

MCRecords ==
    {Record(t, <<Sample("breaker", v, "GOOD")>>) : t \in {1, 3}, v \in {0, 1}}
    \cup {Record(2, <<Sample("breaker", 1, "BAD"), Sample("power", 0, "BAD")>>),
          Record(3, <<Sample("breaker", 0, "BAD")>>),
          Record(3, <<Sample("breaker", 0, "UNCERTAIN"), Sample("power", 0, "GOOD")>>)}
MCSymmetry == Permutations(Handlers)
=============================================================================
