SPECIFICATION FairSpec
CONSTANTS
  Partners = {"sink", "laptop", "charger"}
  Tries = 3
  Probes = 2
  MaxSwaps = 1
  MaxSlow = 1
  MaxBindFails = 1
  MaxKills = 1
  MaxSleeps = 1
INVARIANTS TypeOK
PROPERTIES DecideOnlyOnChange ConsoleKept PolicyFollowed
