SPECIFICATION FairSpec
CONSTANTS
  c1 = c1
  Caller = {c1}
  Avr = 5
  Dev <- MCDev
  Port <- MCPort
  ArcPort <- MCArcPort
  Addr <- MCAddr
  RxMsg <- SourceRx
  TxMsg <- NoCall
  Budgets <- EventBudgets
INVARIANT EdidWaitHasTimeout
INVARIANT ViewFollowsStatus
INVARIANT OtpFilterHasTimeout
INVARIANT FilterHoldsUpToSwitch
INVARIANT UncontrolledOnlyWakes
INVARIANT OnePathRequest
PROPERTY OtpFilterEnds
PROPERTY EdidWaitEnds
CHECK_DEADLOCK FALSE
