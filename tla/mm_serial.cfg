CONSTANTS
  w1 = w1
  w2 = w2
  s1 = s1
  s2 = s2
  i1 = i1
  i2 = i2
  i3 = i3
  NoInfo = NoInfo
  Workers = {w1}
  Symbols = {s1, s2}
  Instruments = {i1, i2}
  SymbolOf <- TwoSymbols
  Prices = {1}
  NoQuote = {}
  Size = 1
  MaxOrders = 3
  MaxGen = 1
  Ops <- SerialOps

SPECIFICATION Spec

INVARIANT TrackedIsIndexed
INVARIANT SymbolOffMeansQuiet
