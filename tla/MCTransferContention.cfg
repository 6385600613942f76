SPECIFICATION Spec
CONSTANTS
  Requests = {p1, p2, p3}
  None = None
  Keys <- ThreeKeys
  Accounts <- MCAccounts
  Quantum = 4
  Clearing = 2
  AccountType <- MCType
  Currency <- MCCurrency
  InitBalance <- MCBalance
  InitStatus <- MCStatus
  Payloads <- Contended
  HasStore = TRUE
  FaultKinds = {"redis", "expire"}
  MaxFaults = 2
  MaxStatusChanges = 0
SYMMETRY Interchangeable
INVARIANTS
  NoOverdraft
  NoOrphanPending
  OnlyHalvesAlarm
  CirclesMeetAtClearing
PROPERTIES
  ImplementsAtomic
