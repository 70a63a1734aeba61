SPECIFICATION FairSpec
CONSTANTS
  m1 = m1
  m2 = m2
  m3 = m3
  otp = otp
  edid = edid
  Msg = {m1, m2, m3}
  NoMsg = NoMsg
  Type = {otp, edid}
  TypeOf <- MCTypeOf
  DelayOf <- MCDelayOf
  MaxTime = 4
  RemoveTypes = {}
  Clears = FALSE
  Exits = FALSE
PROPERTIES KeepsPromise KeepsFairPromise
CHECK_DEADLOCK FALSE
