SPECIFICATION Spec
CONSTANTS
  r1 = r1
  r2 = r2
  c1 = c1
  FlushTask = FlushTask
  Stop = Stop
  NoItem = NoItem
  Tasks <- MCTasks
  Critical <- MCCritical
  BatchLimit = 2
  QueueLimit = 1
CHECK_DEADLOCK FALSE
INVARIANTS
  OkIsCommitted
  ErrorIsRolledBack
  CommittedInOrder
  CriticalIsBarrier
  ShutdownDrains
PROPERTIES
  EveryWriteAnswered
  StopReturns
