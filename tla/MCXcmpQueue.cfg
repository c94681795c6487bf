CONSTANTS
  hub = hub
  x = x
  y = y
  Chains = {hub, x, y}
  Open <- SpokesAndBack
  Talk <- Spokes
  Heavy <- SpokesHeavy
  Capacity = 1
  PageFragments = 2
  MaxChannels = 1
  MaxActive = 2
  MaxInboundSuspended = 1
  ResumeThreshold = 1
  SuspendThreshold = 2
  DropThreshold = 3
  MaxOutstanding <- SpokesOutstanding
SPECIFICATION Spec
INVARIANTS
  SignalsAgree
  ToldAsNeeded
PROPERTIES
  LostOnlyWhenTold
  KeepsMoving
