\* One loop and the poller, which apply one grant of a client after the other,
\* while the loop handles requests: profile and counters follow the newest grant,
\* and requests pay what the profile they read asks for.
SPECIFICATION FairService
CONSTANTS
  MaxI64 = 3
  MaxU64 = 7
  c1 = c1
  pay = pay
  info = info
  sub = sub
  Clients = {c1}
  Methods = {pay, info, sub}
  ALL = ALL
  None = None
  Unparseable = Unparseable
  GrantEvents <- Replacing
  Pollers = {poller}
  Loops = {loop}
  MaxTime = 0
  MaxRestarts = 1
  Requests <- TwoCalls
  Supported = {pay}
  Subscribe = sub
  AccessCost = 1
CONSTRAINT OneAtATime
INVARIANTS TypeOK LatestGrantActive CountersMatchProfile CountersOncePerGrant
  NeverOverspent AdmittedIsCharged
PROPERTY PublishedGrantActive
