SPECIFICATION MCSpec
CONSTANTS
  Orgs = {o1}
  Nodes = {n1, n2}
  Hosts = {h1, h2}
  Ips = {a, b}
  Records = {d1}
  Requests = {r1, r2}
  Nothing = nothing
  FreeNodeGrant = 1
  PolarStatus = {"active", "unpaid"}
  MaxEvents = 2
  n1 = n1
  h1 = h1
  r1 = r1
INVARIANTS
  HeldKeysWork
  RecordAgrees
  SeatsExact
  CacheConverges
PROPERTY DnsHeals
CHECK_DEADLOCK FALSE
