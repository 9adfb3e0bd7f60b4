SPECIFICATION Spec
CONSTANTS
  t1 = t1
  Tabs = {t1}
  Streams = {1, 2}
  NumSteps = 2
  Buffer = 6
  MaxPerUser = 2
  MaxFaults = 1
  None = None
INVARIANTS
  TypeOK
  NoStepMissed
  NoneWaitsInVain
CHECK_DEADLOCK FALSE
