SPECIFICATION MCSpec
CONSTANTS
  u1 = u1
  u2 = u2
  Users = {u1, u2}
  MaxLate = 1
INVARIANTS
  OneContainer
  JobHidden
  FailedLeavesNothing
  BootsOnInstalled
  DroppedStays
PROPERTIES
  RowStaysRemoved
  InstallEnds
