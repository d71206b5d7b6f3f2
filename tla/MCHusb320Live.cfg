SPECIFICATION FairSpec
CONSTANTS
  CapType = "drp"
  HasData = TRUE
  HasVbus = TRUE
  Kinds = {"source", "sink"}
  CCs = {"normal", "reverse"}
  Faults = {"rd_int", "wr_role", "wr_manual", "wr_mask"}
INVARIANTS NoLostEvent
PROPERTIES EventuallyTracksPlug NoInterruptStorm
