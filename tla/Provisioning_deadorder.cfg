SPECIFICATION Spec
CONSTANTS
  p1 = p1
  p2 = p2
  o1 = o1
  i1 = i1
  i2 = i2
  Requests = {p1}
  Orders = {o1}
  OrderOf <- OneOrder
  Price <- CheapOne
  Openings = {2}
  MaxVMs = 0
  IPs = {i1}
  Workers = {w1}
  Sweeper = Sweeper
  QueueSize = 1
  None = None
  MaxFaults = 0
  MaxAdmin = 0
PROPERTIES
  DeadOrdersStayDead
CHECK_DEADLOCK FALSE
