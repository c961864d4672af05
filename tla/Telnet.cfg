SPECIFICATION AllSpec
CONSTANTS
  Size = 5
  MaxWrite = 3
  Bytes = {0, 1}
  Rings = {"netoring", "ttyoring", "netiring", "ttyiring"}
  Crowded = FALSE
INVARIANTS HoldsAll NoStall OptionsAgree CharactersAgree CiphersInStep StreamIntact TerminalsAgree EnvironmentArrives TerminalGivenBack
PROPERTIES IsFifo Settles
CHECK_DEADLOCK FALSE
