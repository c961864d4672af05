SPECIFICATION AllSpec
CONSTANTS
  Client = client
  WellKnown = wellknown
  Scenarios <- All
  BlockMod = 4
  MaxTimeouts = 2
  SavesMask = TRUE
INVARIANTS
  Delivered
  NoBufferOverrun
  Converted
PROPERTIES
  CommandsEnd
