SPECIFICATION AuditFairSpec
CONSTANTS
  Requests = {p1, p2}
  None = None
  Keys <- TwoKeys
  Accounts <- MCAccounts
  Quantum = 4
  Clearing = 2
  AccountType <- MCType
  Currency <- MCCurrency
  InitBalance <- MCBalance
  InitStatus <- MCStatus
  Payloads <- BothWays
  HasStore = FALSE
  FaultKinds = {"db", "lostAck", "cancel", "crash"}
  MaxFaults = 1
  MaxStatusChanges = 0
  MaxConns = 3
  MaxAllFaults = 1
INVARIANTS
  AuditTypeOK
  EventsAreTrue
  TrailTellsFate
  SnapshotsPrecedeChange
  AnswerMatchesRow
PROPERTIES
  EveryCallFinishes
