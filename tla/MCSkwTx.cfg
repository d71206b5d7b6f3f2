SPECIFICATION FairSpec
CONSTANTS
  Acs <- MCAcs
  Be = "BE"
  Ack = "ACK"
  Kinds <- MCKinds
  High = 3
  Low = 2
  PktLimit = 1
  Quota <- MCQuota
  Grant = 2
  MaxFrames = 3
  MaxTurns = 2
INVARIANTS TypeOK CreditsKept
PROPERTIES  EventuallySent 
\* A driver without frames may rest.
CHECK_DEADLOCK FALSE
