\* A rate under the method key ALL.
SPECIFICATION Spec
CONSTANTS
  MaxI64 = 7
  MaxU64 = 7
  c1 = c1
  pay = pay
  info = info
  sub = sub
  Clients = {c1}
  Methods = {pay, info, sub}
  ALL = ALL
  None = None
  Unparseable = Unparseable
  GrantEvents <- AllRated
  Pollers = {}
  Loops = {loop}
  MaxTime = 0
  MaxRestarts = 0
  Requests <- OnePayment
  Supported = {pay, info}
  Subscribe = sub
  AccessCost = 1
INVARIANT NeverMissingState
