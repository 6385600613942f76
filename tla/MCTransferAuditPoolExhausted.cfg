SPECIFICATION AuditFairSpec
CONSTANTS
  Requests = {p1, p2}
  None = None
  Keys <- TwoKeys
  Accounts <- MCAccounts
  Quantum = 4
  Clearing = 2
  AccountType <- MCType
  Currency <- MCCurrency
  InitBalance <- MCBalance
  InitStatus <- MCStatus
  Payloads <- BothWays
  HasStore = FALSE
  FaultKinds = {}
  MaxFaults = 0
  MaxStatusChanges = 0
  MaxConns = 2
  MaxAllFaults = 0
CHECK_DEADLOCK FALSE
PROPERTIES
  EveryCallFinishes
