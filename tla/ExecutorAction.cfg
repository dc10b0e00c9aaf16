SPECIFICATION Spec
CONSTANTS
  j1 = j1
  j2 = j2
  a1 = a1
  NoJob = NoJob
  Jobs <- OneJob
  Accounts <- OneAccount
  AccountOf <- AllOnA1
  PlanAction <- AllRemove
  Ordinals <- Two
  FlushBatch = 2
  TransientLimit = 2
  Waits <- WaitOf1
  MaxTime = 1
  MaxCommands = 2
  MaxCrashes = 0
  MaxFailures = 0
  MaxDisturbances = 2
CHECK_DEADLOCK FALSE
INVARIANT ActionIsKept
