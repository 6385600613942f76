SPECIFICATION Spec
CONSTANTS
  Ids <- MCIds
  InitAccounts <- MCAccounts
  ChartIds <- MCChartIds
  Currencies <- MCCurrencies
  Posters = {q1}
  FaultKinds = {}
  MaxFaults = 0
  None = None
  Admins = {}
  AdminRequests <- NoRequests
  MaxRequests = 0
  Seeders = {}
  Chart <- MCChart
  Entries <- HalfDebits
  Quantum = 2
INVARIANTS
  TrialBalanced
