CONSTANTS 
  t1 = t1
  t2 = t2
  k1 = k1
  k2 = k2
  NoKey = NoKey
Threads={t1,t2}
Keys={k1,k2}
LimitOf <- Tighter
Window=0
Cap=1
Attempts=2
SampleSize=1
Wrap=8
MaxTime=1
SPECIFICATION LimiterSpec
INVARIANT LimitHolds
INVARIANT CounterCovers
PROPERTY DriftHeals
PROPERTY KeepsPromise
