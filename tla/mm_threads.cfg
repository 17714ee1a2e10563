CONSTANTS
  w1 = w1
  w2 = w2
  s1 = s1
  s2 = s2
  i1 = i1
  i2 = i2
  i3 = i3
  NoInfo = NoInfo
  Workers = {w1, w2}
  Symbols = {s1}
  Instruments = {i1}
  SymbolOf <- OneBook
  Prices = {1}
  NoQuote = {}
  Size = 2
  MaxOrders = 2
  MaxGen = 0
  Ops <- Quoting

SPECIFICATION FairSpec

INVARIANT NoOrphanQuote
INVARIANT TrackedCoversOutstanding
PROPERTY VictimLeavesBook
