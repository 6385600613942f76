SPECIFICATION FairSpec
CONSTANTS
  Ids <- MCIds
  InitAccounts <- MCAccounts
  ChartIds <- MCChartIds
  Currencies <- MCCurrencies
  Posters = {q1, q2}
  FaultKinds = {"db", "lostAck"}
  MaxFaults = 2
  None = None
  Admins = {a1}
  AdminRequests <- MCRequests
  MaxRequests = 2
  Seeders = {}
  Chart <- MCChart
  Entries <- MCEntries
  Quantum = 2
INVARIANTS
  TypeOK
  BalanceIsReplay
  TrialBalanceIsClose
  StatementNeverOverdrawn
  PostersNeverCircle
PROPERTIES
  OnlyActiveMove
  EveryoneIsServed
