\* Two loops pay concurrently; payments settle, fail or stay pending.
SPECIFICATION PayFairSpec
CONSTANTS
  MaxI64 = 7
  MaxU64 = 7
  c1 = c1
  pay = pay
  sub = sub
  Clients = {c1}
  Methods = {pay, sub}
  ALL = ALL
  None = None
  Unparseable = Unparseable
  GrantEvents <- RateAndQuota
  Pollers = {}
  Loops = {l1, l2}
  MaxTime = 1
  MaxRestarts = 1
  Requests <- TwoMeteredRequests
  Orders <- TwoMetered
  Supported = {pay}
  Subscribe = sub
  AccessCost = 1
  MsatPerSat = 2
  Patience = 2
INVARIANTS PayTypeOK NothingLost RefusedNotCharged
  NeverOverspent NeverMissingState WaitsEnd SpendingWithinQuota
  AnswersAreTrue
PROPERTY EveryRequestAnswered
