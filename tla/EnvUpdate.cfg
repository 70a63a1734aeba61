SPECIFICATION FairSpec
CONSTANTS
  Thread = {t1, t2}
  NoThread = NoThread
  Key = {k1, k2}
  Value = {empty, a, b}
  Empty = empty
  Retry = 3
INVARIANTS ListFollowsPartition
PROPERTIES KeepsStore  LockIsFreed
