SPECIFICATION Spec
CONSTANTS
  tx = tx
  rx = rx
  binder = binder
  Caller = {binder}
  OpsOf <- BinderOps
  Threads = 2
  Polls = 1
PROPERTY StopLeavesHdcpOff
CHECK_DEADLOCK FALSE
