SPECIFICATION FairSpec
CONSTANTS
  Max = 5
  CHECK_SYSTEM_COUNT = 5
  MaxFaults = 3
INVARIANTS WipeOnlyAfterFailures RecoveryFindsCommand
PROPERTIES BadDataEndsInRecovery
