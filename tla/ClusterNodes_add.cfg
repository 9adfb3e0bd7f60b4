SPECIFICATION MCSpec
CONSTANTS
  n1 = n1
  n2 = n2
  v1 = v1
  v2 = v2
  r1 = r1
  r2 = r2
  Nodes = {n1, n2}
  VMs = {v1}
  Requests = {r1}
  Mem <- MCMem
  Total <- MCTotal
  Base <- MCBase
  MinNodes = 1
  PerSource = 1
  GlobalCap = 2
  Budget = 1
  Together <- MCTogether
  MaxEvents = 1
  None = None
PROPERTIES
  JoinedStay
CHECK_DEADLOCK FALSE
