SPECIFICATION HistorySpec
CONSTANTS
  t1 = t1
  t2 = t2
  Tiles <- MCTiles
  Workers = {w1, w2}
  Priorities = {1, 2, 3}
  NoRequest = NoRequest
  MaxHeap = 4
PROPERTY
  CancelledIsSkipped
