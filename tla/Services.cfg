SPECIFICATION LiveSpec
CONSTANTS
  WorkshopIds <- MCWorkshopIds
  CsaVersions <- MCCsaVersions
  StopTime = 3
  StartRetries = 1
  MaxFaults = 2
  MaxProcesses = 4
INVARIANTS TypeOK OnlyLostCallsRaise TeardownLeavesNothing JobsGetTheirSlot
PROPERTIES LifeRefined ProcessesEnd
CHECK_DEADLOCK FALSE
