SPECIFICATION MCSpec
CONSTANTS
  p1 = p1
  p2 = p2
  o1 = o1
  i1 = i1
  i2 = i2
  Requests = {p1, p2}
  Orders = {o1}
  OrderOf <- SameOrder
  Price <- CheapOne
  Openings = {3, 4}
  MaxVMs = 1
  IPs = {i1, i2}
  Workers = {w1}
  Sweeper = Sweeper
  QueueSize = 1
  None = None
  MaxFaults = 2
  MaxAdmin = 1
INVARIANTS
  TypeOK
  ChargedOncePerOrder
  AddressExclusive
  OneLossCostsOneRefund
PROPERTIES
  LedgerKept
  FinishedNeverRuns
  ErrorRowSticks
  JobsFinish
CHECK_DEADLOCK FALSE
