CONSTANTS
  Relayers = {a, b}
  Payloads = {p, q}
  MaxUnrewardedRelayers = 2
  MaxUnconfirmed = 3
  HeadersToKeep = 2
  OperatingModes = {"Normal", "Halted"}
  MaxGenerated = 4
SPECIFICATION Spec
SYMMETRY Symmetry
CONSTRAINT NeighboursDiffer
INVARIANTS
  ExactlyOnceInOrder
  UnrewardedRelayersExact
  StoredUntilConfirmed
  ConfirmationNeverFails
  BatchIsRepeatedReceiveMessage
PROPERTIES
  ImplementsChannel
