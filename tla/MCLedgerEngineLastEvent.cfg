SPECIFICATION Spec
CONSTANTS
  Ids <- MCIds
  InitAccounts <- MCAccounts
  ChartIds <- MCChartIds
  Currencies <- MCCurrencies
  Posters = {}
  FaultKinds = {}
  MaxFaults = 0
  None = None
  Admins = {a1, a2}
  AdminRequests <- FreezeOrClose
  MaxRequests = 2
  Seeders = {}
  Chart <- MCChart
  Entries <- MCEntries
  Quantum = 2
INVARIANTS
  LastEventIsStatus
