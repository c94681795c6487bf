CONSTANTS
  Relayers = {a, b}
  Honest = {a}
  Payloads = {"p"}
  MaxUnrewardedRelayers = 2
  MaxUnconfirmed = 2
  HeadersToKeep = 2
  OperatingModes = {"Normal", "Halted"}
  MaxGenerated = 3
  DeliveryReward = 0
  Refund = 0
SPECIFICATION RelayedSpec
PROPERTY HonestBundleNeverSlashed
