SPECIFICATION Spec
CONSTANTS
  Users = {"ann", "bob"}
  MAX_ID = 9
  MaxRuns <- Runs
  MaxRings <- Rings
  MaxFaults = 1
INVARIANTS InvitationsFound InvitationsCleared
PROPERTY PartiesMeet
CHECK_DEADLOCK FALSE
