CONSTANTS
  Changes = {2, 3, 5}
  Unsupported = {6}
  HeadersToKeep = 3
  MaxFreeHeadersPerBlock = 1
  FreeHeadersInterval = {2}
  MaxForced = 2
  MaxNumber = 7
SPECIFICATION FairSpec
INVARIANTS
  AuthoritiesTrackBest
  FreeMeansFree
  BestIsImportedUnlessRewound
PROPERTIES
  ImplementsHeaderWindow
  FollowsFinality
