\* One loop and the poller: commands while grants change, channels close, peers
\* come and go and the process restarts.
SPECIFICATION ControlFairSpec
CONSTANTS
  MaxI64 = 7
  MaxU64 = 7
  c1 = c1
  pay = pay
  info = info
  sub = sub
  peer = peer
  ch1 = ch1
  ch2 = ch2
  Clients = {c1}
  Methods = {pay, info, sub}
  ALL = ALL
  None = None
  Unparseable = Unparseable
  GrantEvents <- Revoking
  Pollers = {poller}
  Loops = {loop}
  MaxTime = 0
  MaxRestarts = 1
  Requests <- OneCall
  Supported = {pay}
  Subscribe = sub
  AccessCost = 1
  Peers = {peer}
  Channels = {ch1, ch2}
  Fees = {0, 1}
  DefaultFees <- Default
  Commands <- AnyCommand
  OldNodes <- OldNode
  MaxCommands = 1
INVARIANTS ControlTypeOK ActsUnderGrant FeesAsSet
PROPERTY EveryCommandAnswered
