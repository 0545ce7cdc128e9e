\* A search among four nodes while gossip changes a channel.
SPECIFICATION RoutesSpec
CONSTANTS
  None = None
  us = us
  a = a
  b = b
  dest = dest
  usA = usA
  usB = usB
  aB = aB
  aDest = aDest
  bDest = bDest
  Nodes = {us, a, b, dest}
  Us = us
  Channels = {usA, usB, aB, aDest, bDest}
  Ends <- EndsOf
  Updates <- AnyUpdate
  OldGraphs <- AnyGraph
  Calls <- AnyCall
  MaxHops = 2
  Million = 5
  MaxU64 = 18
  MaxGossip = 1
INVARIANTS RoutesTypeOK RoutesSound RoutesSorted RouteTotals CheapestUnlessCut
