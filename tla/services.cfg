SPECIFICATION MCSpec
CONSTANTS
  Slots = {s1, s2}
  PortSet = {p1, api}
  Protected = {api}
  ByHand = {p1}
  GameServers = {v1}
  Askers = {q1, q2}
  Nobody = nobody
  Paths = {x1, x2}
  Versions = {c1, c2}
  BinIds = {b1}
  Workers = {w1, w2}
  Absent = absent
  Boxes = {g1, g2}
  Usernames = {u1, u2, u3}
  None = none
  Accounts = {a1}
  Eggs = {e1, e2}
  Objects = {o1, o2}
  Handlers = {h1, h2}
  NoImage = noimage
  c1 = c1
  o1 = o1
  o2 = o2
  h1 = h1
  Dbs = {n0, n1}
  Keys = {k1, k2}
  Types = {"string", "list"}
  Tabs = {t1, t2}
  Saves = {v1, v2}
  NoKey = nokey
  Disks = {d1, d2}
  System = os
  Points = {m1, m2}
  Root = root
  Reqs = {r1}
  NoDisk = nodisk
  MaxFormats = 1
  MaxMounts = 2
  Names = {1, 2}
  Odd = {3}
  Values = {seven, padded}
  NotFinite = {inf}
  Plain <- MCPlain
  Reread <- MCReread
  Nothing = nothing
  MaxLines = 3
  MaxDepth = 2
  MaxAsked = 2
  n0 = n0
  t1 = t1
  t2 = t2
  v1 = v1
  v2 = v2
  k1 = k1
  d1 = d1
  seven = seven
  padded = padded
  inf = inf
INVARIANTS
  OthersKept
  Lockstep
  FilesKept
  ShownImageExists
  SavedAsAsked
  BootsAsMounted
  ReadsAsAsked
  MergedOnce
PROPERTY OneCredential
CHECK_DEADLOCK FALSE
