\* An idle driver waits for its next caller.
CHECK_DEADLOCK FALSE
SPECIFICATION FairSpec
CONSTANTS
  Callers = {a, b}
  Interruptible = {a}
  TryCallers = {}
  Recovery = recovery
  NoOne = none
  MaxSeq = 2
  MaxDeaths = 0
  MaxSlow = 1
  MaxSuspends = 1
INVARIANTS TypeOK 
PROPERTIES Recovers
