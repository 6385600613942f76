SPECIFICATION FairSpec
CONSTANTS
  Ids <- MCIds
  InitAccounts <- MCAccounts
  ChartIds <- MCChartIds
  Currencies <- MCCurrencies
  Posters = {q1}
  FaultKinds = {"db", "lostAck"}
  MaxFaults = 2
  None = None
  Admins = {a1, a2}
  AdminRequests <- ChartRequests
  MaxRequests = 2
  Seeders = {s1, s2}
  Chart <- MCChart
  Entries <- ChartEntries
  Quantum = 2
INVARIANTS
  ChartIsWhole
  EventsTellHistory
  VersionsAreTold
PROPERTIES
  EveryoneIsServed
