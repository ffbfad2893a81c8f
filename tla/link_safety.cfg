SPECIFICATION SafetySpec
CONSTANTS
  MaxDials = 2
  Unary = {u1, u2}
  Streams = {t1}
  Scopes = {{u1, t1}, {u1, u2}}
  MaxConcurrent = 1
  MaxStreams = 1
  OutCap = 2
  MinBackoff = 1
  MaxBackoff = 2
  MaxChunks = 1
INVARIANTS
  NoOrphanCalls
  OneTerminal
  SlotsAccounted
PROPERTIES
  ClosesOnlySuperseded
  KeepsPromiseSafely
