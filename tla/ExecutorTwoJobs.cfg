SPECIFICATION Spec
CONSTANTS
  j1 = j1
  j2 = j2
  a1 = a1
  NoJob = NoJob
  Jobs <- TwoJobs
  Accounts <- OneAccount
  AccountOf <- AllOnA1
  PlanAction <- AllInvite
  Ordinals <- One
  FlushBatch = 1
  TransientLimit = 1
  Waits <- WaitOf1
  MaxTime = 1
  MaxCommands = 1
  MaxCrashes = 0
  MaxFailures = 1
  MaxDisturbances = 1
CHECK_DEADLOCK FALSE
INVARIANTS
  OneMutationPerAccount
  GateIsHandedOn
  PerformanceModeIsCounted
PROPERTIES
  EveryRunEnds
