SPECIFICATION Spec
CONSTANTS
  a1 = a1
  Accounts <- OneAccount
  Tasks <- TwoTasks
  Clients <- TwoClients
  MaxCreds = 2
  MaxCommands = 2
  MaxFaults = 1
CHECK_DEADLOCK FALSE
INVARIANTS
  OneClientPerSession
  ConnectingIsLive
PROPERTY IdleClientsGo
