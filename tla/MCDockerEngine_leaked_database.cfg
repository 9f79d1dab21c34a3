SPECIFICATION Spec
CONSTANTS
  a1 = a1
  a2 = a2
  p1 = p1
  p2 = p2
  l1 = l1
  Open = Open
  None = None
  Apps = {a1}
  Ports = {p1}
  Lists = {l1}
  Requests <- Stateful
  MaxTasks = 2
  MaxRestarts = 0
  MaxPending = 2
  MaxExcused = 0
CHECK_DEADLOCK FALSE
INVARIANT RemovedLeavesNoDatabase
