SPECIFICATION Spec
CONSTANTS
  Confs <- Hops
  NoFile = NoFile
  Local = "local"
  Remote = "remote"
  LongTexts = {"long"}
  NoHops = TRUE
  TimerIntvl = 2
  RepeatInterval <- Intervals
  SuspendTime = 3
  InetRetryMax = 2
  MarkInterval = 0
  MaxAge = 5
INVARIANT
  RemoteNotForwarded
CHECK_DEADLOCK FALSE
