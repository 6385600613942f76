SPECIFICATION Spec
CONSTANTS
  Ids <- MCIds
  InitAccounts <- Halves
  ChartIds <- MCChartIds
  Currencies <- MCCurrencies
  Posters = {q1}
  FaultKinds = {}
  MaxFaults = 0
  None = None
  Admins = {}
  AdminRequests <- NoRequests
  MaxRequests = 0
  Seeders = {}
  Chart <- MCChart
  Entries <- HalfEntries
  Quantum = 2
INVARIANTS
  NoMoneyCreated
