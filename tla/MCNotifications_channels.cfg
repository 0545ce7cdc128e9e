\* One client subscribes by both channels.
SPECIFICATION Spec
CONSTANTS
  c1 = c1
  c2 = c2
  o1 = o1
  None = None
  Clients = {c1, c2}
  Offers = {o1}
  NodeEvents <- NoEvents
  Asks <- BothChannels
  Loops = {loop}
  MaxRestarts = 0
INVARIANT SubscriptionsKept
CHECK_DEADLOCK FALSE
