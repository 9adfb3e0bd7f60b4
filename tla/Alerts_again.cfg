CONSTANTS
  jobs = jobs
  down = down
  uneven = uneven
  mail = mail
  chat = chat
  failed = failed
  vm1 = vm1
  vm2 = vm2
  cluster = cluster
  Rules = {jobs, down, uneven}
  Channels = {mail, chat}
  Groups = {failed, vm1, vm2, cluster}
  Slot <- MCSlot
  GroupsOf <- MCGroupsOf
  Resolving = {jobs}
  Imbalance = {uneven}
  Setups <- MCUneven
  Edits <- MCEdits
  MaxAttempts = 2
  PersistTicks = 2
  None = None
  Budget = 3
  MaxFaults = 0
SPECIFICATION MCUndisturbed
PROPERTIES
  EachAlertTold
CHECK_DEADLOCK FALSE
