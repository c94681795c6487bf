CONSTANTS
  hub = hub
  x = x
  y = y
  Chains = {x, y}
  Open <- TwoWay
  Talk <- TwoWay
  Heavy = {}
  Capacity = 2
  PageFragments = 2
  MaxChannels = 1
  MaxActive = 1
  MaxInboundSuspended = 1
  ResumeThreshold = 1
  SuspendThreshold = 2
  DropThreshold = 2
  MaxOutstanding <- TwoWayOutstanding
SPECIFICATION Spec
INVARIANT SignalsDispatched

