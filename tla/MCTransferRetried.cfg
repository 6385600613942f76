SPECIFICATION Spec
CONSTANTS
  Requests = {p1, p2}
  None = None
  Keys <- OneKey
  Accounts <- MCAccounts
  Quantum = 4
  Clearing = 2
  AccountType <- MCType
  Currency <- MCCurrency
  InitBalance <- MCBalance
  InitStatus <- MCStatus
  Payloads <- OneTransfer
  HasStore = TRUE
  FaultKinds = {}
  MaxFaults = 0
  MaxStatusChanges = 1
INVARIANTS
  RetriesGetOriginal
