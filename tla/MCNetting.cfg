SPECIFICATION FairSpec
CONSTANTS
  Transfers <- MCTransfers
  Body <- MCBody
  Accounts <- MCAccounts
  Currencies <- MCCurrencies
  Runs = {r1, r2}
  Jobs <- MCJobs
  Days <- MCDays
  Midnight <- MCMidnight
  DayLength = 24
  Instants <- MCInstants
  FaultKinds = {"db", "lostAck", "crash"}
  MaxFaults = 1
  None = None
INVARIANTS
  TypeOK
  NettedOnce
  ReconciledIsAccounted
  OwnDayOnly
  PositionsMatchRows
PROPERTIES
  TransitionsAreValid
  ImplementsAtomic
  RunsFinish
