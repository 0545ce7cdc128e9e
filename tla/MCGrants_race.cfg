\* Poller and loop interleave two grants of one client.
SPECIFICATION GrantsSpec
CONSTANTS
  MaxI64 = 3
  MaxU64 = 3
  c1 = c1
  pay = pay
  info = info
  Clients = {c1}
  Methods = {pay, info}
  ALL = ALL
  None = None
  Unparseable = Unparseable
  GrantEvents <- TwoGrants
  Pollers = {poller}
  Loops = {loop}
  MaxTime = 0
  MaxRestarts = 0
INVARIANT LatestGrantActive
