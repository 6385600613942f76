SPECIFICATION Spec
CONSTANTS
  Ids <- MCIds
  InitAccounts <- MCAccounts
  ChartIds <- MCChartIds
  Currencies <- MCCurrencies
  Posters = {}
  FaultKinds = {}
  MaxFaults = 0
  None = None
  Admins = {a1, a2}
  AdminRequests <- Changes
  MaxRequests = 3
  Seeders = {}
  Chart <- MCChart
  Entries <- MCEntries
  Quantum = 2
PROPERTIES
  ClosedIsFinal
