\* Payments whose amount is in the invoice or the offer.
SPECIFICATION PaySpec
CONSTANTS
  MaxI64 = 7
  MaxU64 = 7
  c1 = c1
  pay = pay
  sub = sub
  Clients = {c1}
  Methods = {pay, sub}
  ALL = ALL
  None = None
  Unparseable = Unparseable
  GrantEvents <- QuotaOnly
  Pollers = {}
  Loops = {loop}
  MaxTime = 0
  MaxRestarts = 0
  Requests <- TwoUnstatedRequests
  Orders <- TwoUnstated
  Supported = {pay}
  Subscribe = sub
  AccessCost = 1
  MsatPerSat = 2
  Patience = 1
INVARIANT EverySpendingMetered
