SPECIFICATION Spec
CONSTANTS
  v1 = v1
  VMs = {v1}
  Requests = {1}
  Projects = {"customers"}
  Purger = Purger
  Reconciler = Reconciler
  Listener = Listener
  MaxFaults = 0
  MaxEvents = 1
  None = None
INVARIANTS
  ReinstalledNotGone
CHECK_DEADLOCK FALSE
