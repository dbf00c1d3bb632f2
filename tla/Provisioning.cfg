SPECIFICATION LiveSpec
CONSTANTS
  MaxFaults = 2
  Releases <- MCReleases
  Attempts = 1
  Phases = 2
  PhaseTime = 1
  IdleTimeout = 2
  AppRestarts = 1
  UseKerberos = TRUE
  UseTls = TRUE
  HasCredentials = TRUE
  ImportRetries = 1
  StableFor = 2
  HealthPolls = 3
  KnoxRestarts = 1
  KnoxChecks = 1
  MaxRuns = 2
  Selections <- MCSelections
  ShellRetries = 1
INVARIANTS
  TypeOK SetupIsComplete RetryWhenStable OneModel DoneMeansReady OnlyLockOutIsFinal
PROPERTIES
  PaywallOutlastsImports NothingWorkingIsDestroyed ProvisioningEnds
CHECK_DEADLOCK FALSE
