SPECIFICATION FairSpec
CONSTANTS
  Limiters = {s1, s2}
  MaxMessages = 1
  WindowMs = 1
  NoPost = NoPost
  Nobody = Nobody
  Talkers = {s1}
  MaxSent = 3
  MaxBatch = 2
INVARIANTS
  TypeOK TimerShared BurstBounded PayloadDecodes HeardInOrder DeafAfterClose
PROPERTIES
  DroppedOnlyWhenSpent CountedOnce LimitedRecovers
