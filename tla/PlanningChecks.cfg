SPECIFICATION FairSpec
CONSTANTS
  a1 = a1
  a2 = a2
  g1 = g1
  g2 = g2
  u1 = u1
  u2 = u2
  u3 = u3
  u4 = u4
  u5 = u5
  c1 = c1
  c2 = c2
  NoAccount = NoAccount
  NoGroup = NoGroup
  NoCheck = NoCheck
  Accounts <- TwoAccounts
  Groups <- TwoGroups
  Users <- FiveUsers
  Checks <- TwoChecks
  Pages <- PagesOf
  PageLimit = 2
  BasicChats <- Chats
  Valid <- ValidFor
  Processed <- ProcessedBy
  MaxReads = 1
  MaxFaults = 1
CHECK_DEADLOCK FALSE
INVARIANTS
  CoverageIsHonest
  PlanIsAddressable
  ShownPlanIsWhole
  UndisturbedPlanMatches
PROPERTY EveryCheckEnds
