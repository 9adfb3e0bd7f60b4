SPECIFICATION MCAdviceSpec
CONSTANTS
  n1 = n1
  n2 = n2
  v1 = v1
  v2 = v2
  r1 = r1
  r2 = r2
  Nodes = {n1, n2}
  VMs = {v1, v2}
  Requests = {r1, r2}
  Mem <- MCMem
  Total <- MCTotal
  Base <- MCBase
  MinNodes = 1
  PerSource = 1
  GlobalCap = 2
  Budget = 2
  Together <- MCTogether
  MaxEvents = 1
  None = None
INVARIANTS
  TypeOK
  OneOpenAutoRow
  PlansFit
PROPERTIES
  OpenRowsClose
  RowFollowsMove
  BatchSettles
CHECK_DEADLOCK FALSE
