SPECIFICATION Spec
CONSTANTS
  CapType = "drp"
  HasData = TRUE
  HasVbus = TRUE
  Kinds = {"source", "audio"}
  CCs = {"normal"}
  Faults = {"vbus", "role", "mode", "partner", "rd_int", "wr_int", "rd_status", "rd_type", "wr_manual", "wr_mask", "wr_enable", "wr_role", "hw_init", "port", "irq"}
INVARIANTS TypeOK VbusOnlyAsSource PublishedStateAgrees PortRoleRegisterAgrees StoppedPortIsSafe
PROPERTY ShutdownIsFinal
