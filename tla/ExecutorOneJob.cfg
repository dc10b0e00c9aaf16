SPECIFICATION Spec
CONSTANTS
  j1 = j1
  j2 = j2
  a1 = a1
  NoJob = NoJob
  Jobs <- OneJob
  Accounts <- OneAccount
  AccountOf <- AllOnA1
  PlanAction <- AllInvite
  Ordinals <- Two
  FlushBatch = 2
  TransientLimit = 2
  Waits <- WaitOf1
  MaxTime = 1
  MaxCommands = 2
  MaxCrashes = 1
  MaxFailures = 1
  MaxDisturbances = 4
CHECK_DEADLOCK FALSE
INVARIANTS
  NoRepeatedCandidate
  CompletedIsComplete
  RowsMatchWhatRuns
PROPERTIES
  StopIsFinal
