SPECIFICATION AllSpec
CONSTANTS
  Client = client
  WellKnown = wellknown
  Scenarios <- Get
  BlockMod = 3
  MaxTimeouts = 2
  SavesMask = FALSE
PROPERTY
  EveryCommandEnds
CHECK_DEADLOCK FALSE
