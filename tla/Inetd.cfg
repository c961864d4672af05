SPECIFICATION Spec
CONSTANTS
  Services = {"tftp", "shell", "time"}
  Kind <- Kinds
  Configs <- OneFile
  TooMany = 2
  MaxFaults = 1
  Pids = {2, 3}
  MaxHups = 2
  MaxEdits = 2
INVARIANTS SocketsWatched OneServerAtATime
PROPERTY RequestTaken
CHECK_DEADLOCK FALSE
