SPECIFICATION Spec
CONSTANTS
  a1 = a1
  a2 = a2
  p1 = p1
  p2 = p2
  l1 = l1
  Open = Open
  None = None
  Apps = {a1, a2}
  Ports = {p1}
  Lists = {l1}
  Requests <- Mixed
  MaxTasks = 2
  MaxRestarts = 1
  MaxPending = 2
  MaxExcused = 2
CHECK_DEADLOCK FALSE
SYMMETRY Alike
INVARIANTS
  TypeOK
  PortsDisjoint
  ContainerHoldsPort
