CONSTANTS
  Monitors = {m1}
  N = 3
  Rebooting = {1}
  Restartable = {m1}
SPECIFICATION FairSpec
INVARIANTS TypeOK SuccessIsTrue FailureIsTrue
PROPERTY EventuallyVerdict
