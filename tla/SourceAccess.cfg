SPECIFICATION Spec
CONSTANTS
  a1 = a1
  a2 = a2
  channel = channel
  chat = chat
  NoAccount = NoAccount
  Accounts <- TwoAccounts
  Groups <- TwoGroups
  Chats <- ChatOnly
  Private <- ChatOnly
  Migrating <- OneBusy
  Joined <- InGroups
  MaxDisabled = 1
  Left <- OneLeft
  Slots <- TwoSlots
  MaxAsked = 2
  MaxRestarts = 1
INVARIANTS
  AccessHashIsOwn
  PausedScanIsResumable
PROPERTY
  EveryUtilityEnds
