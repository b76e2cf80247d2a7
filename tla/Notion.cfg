SPECIFICATION ProjectionFairSpec
CONSTANTS
  story = story
  Stories = {story}
  s1 = s1
  s2 = s2
  Syncers = {s1, s2}
  MaxDay = 2
  CandidateLimit = 2
  MaxAttempts = 2
  MaxChanges = 3
  MaxRevision = 2
  MaxFaults = 1
  MaxJobAttempts = 2
ACTION_CONSTRAINT InOrder
CHECK_DEADLOCK FALSE
INVARIANTS
  DuplicatesHaveCauses
  SkippedPagesAreUpToDate
  SucceededIsOnItsPage
PROPERTIES
  PagesCatchUp
