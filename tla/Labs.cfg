CONSTANTS
  Workshops <- WorkshopIds
  Prereqs <- PrereqsOf
  Requires <- RequiredBy
  Before <- BeforeHooks
  After <- AfterHooks
  Labs <- LabsOf
  Teardown <- TeardownOf
  Needs <- NeedsOf
  Exclusive <- ExclusiveNames
  InstalledSets <- MCInstalledSets
  Modules <- MCModules
  Resets <- MCResets
  MaxRuns = 3
  MaxFaults = 2
SPECIFICATION Spec
INVARIANTS TypeOK LabsFindTheirInputs NoLabMeetsLeftovers TestsRunPrepared CleanSessionLeavesNothing ResetReachesLab
PROPERTY GlobalTeardownCleans
CHECK_DEADLOCK FALSE
