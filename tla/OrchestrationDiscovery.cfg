SPECIFICATION Spec
CONSTANTS
  w1 = w1
  w2 = w2
  discovery = discovery
  fixture = fixture
  NoWorker = NoWorker
  NoKey = NoKey
  Jobs <- DiscoveryJobs
  PromoteJobs <- DiscoveryPromotions
  Roots <- DiscoveryRoots
  Inputs <- AllInputs
  MaxAttempts <- TwoAttempts
  Workers = {w1, w2}
  Stories = {s1}
  Cursors = {1}
  Limit = 1
  Lease = 1
  FirstRetry = 1
  LaterRetry = 2
  MaxClaims = 2
  MaxFaults = 1
  Horizon = 2
SYMMETRY MCSymmetry
INVARIANTS GroundingFollowsHandoff NoLostSuccessor OnlyExpiredLosesJob
CHECK_DEADLOCK FALSE
