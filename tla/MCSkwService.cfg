SPECIFICATION FairSpec
CONSTANTS
  Services = {"wifi", "bt"}
  MaxChan = 2
  MaxCalls = 2
  MaxAsserts = 1
  MaxSlow = 1
  MaxHangs = 1
INVARIANTS TypeOK NoSelfWait
PROPERTIES   CallsEnd
CHECK_DEADLOCK FALSE
