SPECIFICATION PortsSpec
CONSTANTS
  Slots = {s1}
  PortSet = {p1}
  Protected = {api}
  ByHand = {p1}
  GameServers = {v1}
  Askers = {q1}
  Nobody = nobody
INVARIANT OperatorsStayOpen
CHECK_DEADLOCK FALSE
