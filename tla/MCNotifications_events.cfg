\* Events arrive while clients subscribe, copies fail and the process restarts.
SPECIFICATION FairSpec
CONSTANTS
  c1 = c1
  c2 = c2
  o1 = o1
  None = None
  Clients = {c1, c2}
  Offers = {o1}
  NodeEvents <- ThreeEvents
  Asks <- Asked
  Loops = {loop}
  MaxRestarts = 1
INVARIANTS TypeOK CopiesOnce CountedOnce OnlyAsked
PROPERTY QueueDrained
CHECK_DEADLOCK FALSE
