SPECIFICATION Spec
CONSTANTS
  Callers = {a, b}
  Interruptible = {}
  TryCallers = {t}
  Recovery = recovery
  NoOne = none
  MaxSeq = 2
  MaxDeaths = 1
  MaxSlow = 1
  MaxSuspends = 1
INVARIANTS LockHeldInSetCmd
