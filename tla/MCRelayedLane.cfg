CONSTANTS
  Relayers = {a, b}
  Honest = {}
  Payloads = {"p"}
  MaxUnrewardedRelayers = 2
  MaxUnconfirmed = 2
  HeadersToKeep = 2
  OperatingModes = {"Normal"}
  MaxGenerated = 3
  DeliveryReward = 7
  Refund = 1
SPECIFICATION RelayedSpec
SYMMETRY Symmetry
INVARIANTS
  RewardsExact
PROPERTIES
  RefundedOnlyForProgress
  SlotsReleasedTogether
