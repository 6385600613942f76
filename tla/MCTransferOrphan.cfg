SPECIFICATION Spec
CONSTANTS
  Requests = {p1, p2}
  None = None
  Keys <- OneKey
  Accounts <- MCAccounts
  Quantum = 4
  Clearing = 2
  AccountType <- MCType
  Currency <- MCCurrency
  InitBalance <- MCBalance
  InitStatus <- MCStatus
  Payloads <- OneTransfer
  HasStore = TRUE
  FaultKinds = {"cancel"}
  MaxFaults = 1
  MaxStatusChanges = 0
INVARIANTS
  NoOrphanPending
