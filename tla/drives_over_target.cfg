SPECIFICATION DrivesSpec
CONSTANTS
  Disks = {d1, d2}
  System = os
  Points = {m1, m2}
  Root = root
  Reqs = {r1}
  NoDisk = nodisk
  MaxFormats = 1
  MaxMounts = 2
INVARIANT DataOnTarget
CHECK_DEADLOCK FALSE
