CONSTANTS
  r1 = r1
  r2 = r2
  b1 = b1
  Requests = {r1, r2}
  Books = {b1}
  Prices = {1, 2, 3}
  Quantities = {1, 2}
  MaxCents = 2
  Intervals = {1, 2}
  MaxBars = 2
  MaxFills = 3
  MaxTime = 2

SPECIFICATION Spec
CHECK_DEADLOCK FALSE

SYMMETRY Alike
CONSTRAINT Scope

INVARIANT GainsAreAccounted
INVARIANT BarsAreComplete
