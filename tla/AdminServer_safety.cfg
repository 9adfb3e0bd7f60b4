CONSTANTS
  admin = admin
  customer = customer
  stranger = stranger
  main = main
  second = second
  front = front
  spare = spare
  a1 = a1
  a2 = a2
  b1 = b1
  t1 = t1
  t2 = t2
  Users = {admin, customer, stranger}
  AdminEmails = {admin}
  Cap = 3
  Names = {main, second}
  Env = {main}
  EnvPools <- MCEnvPools
  Pools = {front, spare}
  InPool <- MCInPool
  Threads = {t1, t2}
  Setups <- MCSetups
  Budget = 4
  MaxDays = 2
  MaxFaults = 3
  None = None
SPECIFICATION Spec
INVARIANTS
  TypeOK
  CapKept
  OneLivePerChain
  NeverGivenTwice
  AddedSurvives
CHECK_DEADLOCK FALSE
