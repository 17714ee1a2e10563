CONSTANTS
  s1 = s1
  s2 = s2
  o1 = o1
  NoPrice = NoPrice
  Assets <- OneAsset
  Unlisted = {s2}
  Operators = {o1}
  Cents = {1, 2}
  PathLen = 2
  Retry = 2
  MaxInserts = 2
  MaxRestarts = 1

SPECIFICATION Spec

INVARIANT EngineFollowsSimulator
INVARIANT StormGuard
INVARIANT AnswerWasInForce
PROPERTY DormantIsRetried
PROPERTY SubscribersCatchUp
