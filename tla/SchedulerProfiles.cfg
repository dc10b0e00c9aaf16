SPECIFICATION CadenceSpec
CONSTANTS
  MinInterval = 3
  MaxInterval = 10
  SlowStep = 10
  MiddleStep = 8
  Targets <- Profiles
  Waits <- SomeWaits
  MaxTime = 45
CHECK_DEADLOCK FALSE
INVARIANT NeverFasterThanTarget
PROPERTIES
  NeverTooEarly
  RecoveryProfile
