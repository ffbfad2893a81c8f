SPECIFICATION SchedulerSpec
CONSTANTS
  Ids = {i1}
  Versions = {v1}
  Callers = {p1, p2}
  Main = main
  NoRunner = nil
  Runners = {r1, r2, r3}
  FireSlots = {f1}
  Unreadable = FALSE
INVARIANT RunnerMatchesStore
