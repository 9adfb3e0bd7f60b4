CONSTANTS
  v1 = v1
  v2 = v2
  web = web
  ssh = ssh
  ssh2 = ssh2
  f1 = f1
  f2 = f2
  some = some
  other = other
  VMs = {v1, v2}
  Groups = {web, ssh, ssh2}
  Slug <- MCSlug
  Addresses = {f1, f2}
  Rules = {some, other, NoRules}
  NoRules = NoRules
  Seed = some
  Absent = Absent
  None = None
  Available = Available
  Calls <- MCCalls
  Requests = {r1}
  Startup = Startup
  Budget = 2
  MaxFaults = 0
  Starts <- MCStarts
SPECIFICATION Spec
INVARIANTS
  AddressesServed
CHECK_DEADLOCK FALSE
