CONSTANTS
  Relayers = {a, b}
  Honest = {a}
  Payloads = {"p"}
  MaxUnrewardedRelayers = 2
  MaxUnconfirmed = 2
  HeadersToKeep = 2
  OperatingModes = {"Normal"}
  MaxGenerated = 3
  DeliveryReward = 1
  Refund = 1
SPECIFICATION RelayedSpec
PROPERTY HonestNeverSlashed
