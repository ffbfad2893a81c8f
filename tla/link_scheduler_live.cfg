SPECIFICATION LiveSpec
CONSTANTS
  MaxDials = 1
  Unary = {u1}
  Streams = {t1, t2}
  Scopes = {{}, {u1, t1}, {t1, t2}}
  MaxConcurrent = 1
  MaxStreams = 1
  OutCap = 1
  MinBackoff = 1
  MaxBackoff = 1
  MaxChunks = 0
  Ids = {i1}
  Versions = {v1}
  Callers = {p1, p2}
  Main = main
  NoRunner = nil
  Runners = {r1, r2, r3}
  FireSlots = {f1}
  Unreadable = TRUE
INVARIANTS
  RunnersAccounted
  NeverUncovered
  RebuiltFromStore
PROPERTIES
  KeepsPromise
  CancelReleasesSlot
  GoroutinesEnd
  ReloadsReturn
  StopEnds
