SPECIFICATION Spec
CONSTANTS
  a1 = a1
  Accounts <- OneAccount
  Jobs <- ThreeJobs
  Left <- JobOne
  MaxRecent = 2
  MaxListed = 2
  MaxAsked = 1
  MaxBroken = 1
  MaxRestarts = 1
CHECK_DEADLOCK FALSE
INVARIANTS
  JobsHaveAccounts
  StuckJobsAreKnown
