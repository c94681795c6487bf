CONSTANTS
  BridgeIds = {b1, b2}
  LaneIds = {l1, l2}
  Deposits = {1, 2}
  Balance = 2
  CongestedThreshold = 2
  UncongestedThreshold = 1
  MaxGenerated = 3
SPECIFICATION FairSpec
INVARIANTS
  NoTraces
  StateMatchesLanes
  SuspensionAgreed
  DepositsHeld
PROPERTIES
  SuspensionEnds
  ClosingEnds
