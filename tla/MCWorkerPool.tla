---------------------------- MODULE MCWorkerPool ----------------------------
EXTENDS WorkerPool

CONSTANTS t1, t2

\* t1 loads or fails, t2 (a file that is fine) always loads.
MCTiles == {t1, t2}
MCOutcomes == [t \in MCTiles |-> IF t = t1 THEN BOOLEAN ELSE {TRUE}]

=============================================================================
