-------------------------- MODULE MCRequestHistory --------------------------
EXTENDS RequestHistory

CONSTANTS t1, t2

MCTiles == {t1, t2}
=============================================================================
