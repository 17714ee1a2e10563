CONSTANTS
  w1 = w1
  w2 = w2
  NoEntry = NoEntry
  Workers = {w1, w2}
  MaxOrders = 2
  Size = 2
  MaxBatch = 3
  Tifs = {"gtc", "ioc"}
  Ops <- AllOps

SPECIFICATION Spec
SYMMETRY Threads
INVARIANTS RestingIsListed WalkTakesAllOff RollbackLeavesNothing
