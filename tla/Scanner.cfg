SPECIFICATION Spec
CONSTANTS
  s1 = s1
  s2 = s2
  u1 = u1
  u2 = u2
  u3 = u3
  NoScan = NoScan
  Scans <- TwoScans
  Participants <- Group
  PageLimit = 1
  BatchLimit = 2
  QueueMax = 1
  MaxReads = 1
  MaxCommands = 2
  MaxCrashes = 1
  MaxFailures = 1
  MaxRpcErrors = 1
CHECK_DEADLOCK FALSE
INVARIANTS
  CheckpointIsPersisted
  AcceptedIsExact
  CompletedIsComplete
PROPERTIES
  ProgressIsKept
  EveryScanEnds
