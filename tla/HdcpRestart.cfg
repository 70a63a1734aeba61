SPECIFICATION FairSpec
CONSTANTS
  tx = tx
  rx = rx
  binder = binder
  Caller = {tx, rx, binder}
  OpsOf <- EveryOp
  Threads = 2
  Polls = 1
INVARIANTS OneAuthThread JoinSucceeds VersionFollowsThread
PROPERTIES OperationsReturn AuthenticationEnds MuteEnds
CHECK_DEADLOCK FALSE
