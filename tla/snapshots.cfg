CONSTANTS
  t1 = t1
  t2 = t2
  o1 = o1
Orders={o1}
Strikes={100}
Styles={"call"}
Terms <- OneBid
Dates={1}
DayCounts={1}
Seeded={1}
LastDay=1
Threads={t1,t2}
Cap=1
MaxSnapshots=2
MaxTime=1
SPECIFICATION Spec
SYMMETRY Alike
CONSTRAINT Scope
INVARIANT SnapshotIsComplete
INVARIANT SnapshotIsGenuine
INVARIANT RetentionHolds
INVARIANT PlacedIsFound
