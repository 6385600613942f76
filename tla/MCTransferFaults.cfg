SPECIFICATION Spec
CONSTANTS
  Requests = {p1, p2, p3}
  None = None
  Keys <- OneKey
  Accounts <- MCAccounts
  Quantum = 4
  Clearing = 2
  AccountType <- MCType
  Currency <- MCCurrency
  InitBalance <- MCBalance
  InitStatus <- MCStatus
  Payloads <- OrTooSmall
  HasStore = TRUE
  FaultKinds = {"db", "lostAck", "redis", "cancel", "crash"}
  MaxFaults = 3
  MaxStatusChanges = 0
INVARIANTS
  TypeOK
  SettledIffPosted
  CacheIsCurrent
  ClaimsAreExclusive
  SettledAnswersAreTrue
  RefusedMeansUnpaid
