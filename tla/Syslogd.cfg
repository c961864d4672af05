SPECIFICATION Spec
CONSTANTS
  Confs <- All
  NoFile = NoFile
  Local = "local"
  Remote = "remote"
  LongTexts = {"long"}
  NoHops = TRUE
  TimerIntvl = 1
  RepeatInterval <- Intervals
  SuspendTime = 2
  InetRetryMax = 1
  MarkInterval = 1
  MaxAge = 3
INVARIANTS NothingLost FlushedWhenClosed
PROPERTY NothingStays
