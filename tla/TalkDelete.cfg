SPECIFICATION Spec
CONSTANTS
  Users = {"ann", "bob"}
  MAX_ID = 9
  MaxRuns <- Runs
  MaxRings <- Rings
  MaxFaults = 1
INVARIANT InvitationStands
CHECK_DEADLOCK FALSE
