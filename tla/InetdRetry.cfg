SPECIFICATION Spec
CONSTANTS
  Services = {"tftp", "shell", "time"}
  Kind <- Kinds
  Configs <- Constant
  TooMany = 2
  MaxFaults = 0
  Pids = {2, 3}
  MaxHups = 0
  MaxEdits = 0
PROPERTY
  ServiceComesBack
CHECK_DEADLOCK FALSE
