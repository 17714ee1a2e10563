CONSTANTS
  h1 = h1
  h2 = h2
  c1 = c1
  bid = bid
  ask = ask
  Handlers = {h1, h2}
  Clients = {c1}
  Levels = {bid, ask}
  Capacity = 2
  MaxWrites = 2
  MaxSubscribes = 2
  Commands = {"batch_subscribe", "unsubscribe"}

SPECIFICATION FeedSpec
CHECK_DEADLOCK FALSE
SYMMETRY Symmetry
INVARIANTS TruthWasTold NothingMissedAfterSnapshot
