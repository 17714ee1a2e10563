CONSTANTS
  u1 = u1
  u2 = u2
  s1 = s1
  w1 = w1
  r1 = r1
  k1 = k1
  Nobody = Nobody
  None = None
Requests={r1}
Subjects={u1,u2}
Permissions <- TwoRoles
Sockets={k1}
Channels={"orderbook"}
Kinds={"health","token","read","ws","trade","kill","enable","drop","parameters"}
Symbols={s1}
Wildcards={w1}
WildcardOf <- OneUnderlying
MaxSubscriptions=1
MaxBatch=2
Tasks={"sweep"}
Names <- SomeNames
Ids <- SomeIds
SPECIFICATION Spec
INVARIANT CapHolds
INVARIANT WrittenIsSubscribed
PROPERTY ControlsOnlyByAdmin
PROPERTY CommandsAreAnswered
PROPERTY SocketsAreReleased
PROPERTY ShutdownCompletes
