CONSTANTS
  Workshops <- WorkshopIds
  Prereqs <- PrereqsOf
  Requires <- RequiredBy
  Before <- BeforeHooks
  After <- AfterHooks
  Labs <- LabsOf
  Teardown <- TeardownOf
  Needs <- NeedsOf
  Exclusive <- ExclusiveNames
  InstalledSets <- MCInstalledSets
  Modules <- MCModules
  Resets <- MCResets
  MaxRuns = 3
  MaxFaults = 1
SPECIFICATION Spec
INVARIANT ResetUndoesEverything
CHECK_DEADLOCK FALSE
