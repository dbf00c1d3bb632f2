CONSTANTS
  Monitors = {m1, m2}
  N = 2
  Rebooting = {}
  Restartable = {}
SPECIFICATION Spec
INVARIANT SuccessIsTrue
CHECK_DEADLOCK FALSE
