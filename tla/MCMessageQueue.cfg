SPECIFICATION Spec
CONSTANTS
  qa = qa
  qb = qb
  Queues = {qa, qb}
  NoQueue = none
  Kinds <- KindsOf
  Pausable = {qa}
  PageSize = 2
  MaxStale = 1
  ServiceWeight = 6
  IdleWeights = {5, 6}
  Reentrant = FALSE
  MaxBatch = 2
  MaxMessages = 3
INVARIANTS
  RingIsSound
  CountsExact
  Conserved
  NeverUnderstated
  CrowdedIsReapable
PROPERTIES
  TakenInOrder
  NoStarvation
