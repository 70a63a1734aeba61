SPECIFICATION FairSpec
CONSTANTS
  c1 = c1
  Caller = {c1}
  Avr = 5
  Dev <- MCDev
  Port <- MCInput
  ArcPort <- MCArcPort
  Addr <- MCAddr
  RxMsg <- RequestRx
  TxMsg <- RequestTx
  Budgets <- RequestBudget
INVARIANT OwedAddressIsAsked
INVARIANT FewAddressRequests
PROPERTY OwedAddressIsSent
CHECK_DEADLOCK FALSE
