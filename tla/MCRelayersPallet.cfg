CONSTANTS
  Relayers = {a, b}
  RequiredRegistrationLease = 1
  RequiredStakes = {1, 2}
  Balance = 2
  Endowment = 1
  MaxReward = 1
  MaxBlock = 5
SPECIFICATION Spec
SYMMETRY Symmetry
INVARIANTS
  StakeIsReserved
  BoostedStaysSlashable
