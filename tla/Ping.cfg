SPECIFICATION FairSpec
CONSTANTS
  Hosts = 2
  Options <- RunOptions
  CkBits = 1
  SeqMod = 2
  Sec = 1
  FloodIntvl = 0
  MinUserInterval = 1
  MaxXmit = 2
  MaxDup = 1
  MaxNoise = 1
  MaxQueue = 1
INVARIANTS DupsExplained RecvBounded ExitStatusHonest OvershootBounded
PROPERTY RunEnds
