SPECIFICATION MCSpec
CONSTANTS
  Workers = {w1, w2}
  LastSecond = 2
  Versions = {v1, v2}
INVARIANTS
  BackupsTypeOK
  LockHolds
  RestoredExactly
  CreatingIsTrue
PROPERTY CreatingEnds
