------------------------- MODULE MCStreamingManager -------------------------
EXTENDS StreamingManager

CONSTANTS t1, t2, w1, w2

TwoTiles == {t1, t2}
TwoWorkers == {w1, w2}

\* t2 alone fits the budgets of the runs, t1 or both do not.
MCTileBytes == [t \in Tiles |-> IF t = t1 THEN 2 ELSE 1]

MCOutcomes == [t \in Tiles |-> IF t = t1 THEN BOOLEAN ELSE {TRUE}]
=============================================================================
