SPECIFICATION FairSpec
CONSTANTS
  Requests = {p1, p2}
  None = None
  Keys <- TwoKeys
  Accounts <- MixedAccounts
  Quantum = 4
  Clearing = 1
  AccountType <- MixedType
  Currency <- MixedCurrency
  InitBalance <- MixedBalance
  InitStatus <- MixedStatus
  Payloads <- MixedTransfers
  HasStore = TRUE
  FaultKinds = {"db", "redis", "cancel"}
  MaxFaults = 1
  MaxStatusChanges = 1
INVARIANTS
  BalancesMatchJournal
  AnswerMatchesRow
PROPERTIES
  ImplementsAtomic
  Answered
