CONSTANTS
  w1 = w1
  w2 = w2
  NoEntry = NoEntry
  Workers = {w1}
  MaxOrders = 3
  Size = 3
  MaxBatch = 0
  Tifs = {"gtc", "fok"}
  Ops <- Plain

SPECIFICATION Spec

INVARIANTS FillsHappened OpenIsAlive ModifyKeepsExposure
