\* An idle driver waits for its next caller.
CHECK_DEADLOCK FALSE
SPECIFICATION FairSpec
CONSTANTS
  Callers = {}
  Interruptible = {}
  TryCallers = {t}
  Recovery = recovery
  NoOne = none
  MaxSeq = 1
  MaxDeaths = 1
  MaxSlow = 1
  MaxSuspends = 0
PROPERTIES CallsReturn DeathIsRecovered
