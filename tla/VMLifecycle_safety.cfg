SPECIFICATION FairSpec
CONSTANTS
  v1 = v1
  VMs = {v1}
  Requests = {1, 2}
  Projects = {"customers"}
  Purger = Purger
  Reconciler = Reconciler
  Listener = Listener
  MaxFaults = 1
  MaxEvents = 1
  None = None
INVARIANTS
  TypeOK
  LivingNotGone
  LivingKeepAddress
  DeletedAreDestroyed
  RescueCanBeUndone

PROPERTIES
  TrashEmptied
  VanishedNoticed
CHECK_DEADLOCK FALSE
