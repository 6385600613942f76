SPECIFICATION Spec
CONSTANTS
  Transfers <- MCTransfers
  Body <- MCBody
  Accounts <- MCAccounts
  Currencies <- MCCurrencies
  Runs = {r1, r2}
  Jobs <- MCJobs
  Days <- MCDays
  Midnight <- ShortMidnight
  DayLength = 24
  Instants <- MCInstants
  FaultKinds = {"db", "lostAck", "crash"}
  MaxFaults = 1
  None = None
INVARIANTS
  OwnDayOnly
