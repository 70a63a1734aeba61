SPECIFICATION Spec
CONSTANTS
  c1 = c1
  Caller = {c1}
  Avr = 5
  Dev <- MCDev
  Port <- MCPort
  ArcPort <- MCArcPort
  Addr <- MCAddr
  RxMsg <- RequestRx
  TxMsg <- AddressTx
  Budgets <- RaceBudget
PROPERTY AvrAskedAfterEdid
CHECK_DEADLOCK FALSE
