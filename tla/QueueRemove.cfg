SPECIFICATION FairSpec
CONSTANTS
  m1 = m1
  m2 = m2
  m3 = m3
  otp = otp
  edid = edid
  Msg = {m1, m2, m3}
  NoMsg = NoMsg
  Type = {otp, edid}
  TypeOf <- MCTypeOf
  DelayOf <- MCDelayOf
  MaxTime = 3
  RemoveTypes = {otp}
  Clears = TRUE
  Exits = TRUE
INVARIANTS QueueSorted EarlyOnlyAfterRemoval RemoveSkipsOnlyBehindRemoved
PROPERTIES KeepsBag EverySentLeaves
CHECK_DEADLOCK FALSE
