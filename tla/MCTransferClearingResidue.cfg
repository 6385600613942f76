SPECIFICATION Spec
CONSTANTS
  Requests = {p1, p2}
  None = None
  Keys <- TwoKeys
  Accounts <- MCAccounts
  Quantum = 4
  Clearing = 2
  AccountType <- MCType
  Currency <- MCCurrency
  InitBalance <- MCBalance
  InitStatus <- MCStatus
  Payloads <- Roundable
  HasStore = TRUE
  FaultKinds = {}
  MaxFaults = 0
  MaxStatusChanges = 0
INVARIANTS
  ClearingIsHealthy
