CONSTANTS
  Queue = 1
  Wire = 1
  Ahead = 3
  MaxSent = 4
  MaxFed = 3

SPECIFICATION Spec
CHECK_DEADLOCK FALSE

INVARIANT NothingIsLost
PROPERTY SentIsRead
PROPERTY EndIsHeard
