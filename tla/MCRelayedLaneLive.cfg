CONSTANTS
  Relayers = {a, b}
  Honest = {a}
  Payloads = {"p"}
  MaxUnrewardedRelayers = 2
  MaxUnconfirmed = 2
  HeadersToKeep = 1
  OperatingModes = {"Normal"}
  MaxGenerated = 3
  DeliveryReward = 0
  Refund = 0
SPECIFICATION RelayedFairSpec
PROPERTY EventuallyConfirmed
