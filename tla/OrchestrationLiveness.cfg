SPECIFICATION FairSpec
CONSTANTS
  discovery = discovery
  fixture = fixture
  w1 = w1
  w2 = w2
  NoWorker = NoWorker
  NoKey = NoKey
  Jobs <- FixtureJobs
  PromoteJobs = {}
  Roots <- FixtureRoots
  Inputs <- AllInputs
  MaxAttempts <- TwoAttempts
  Workers = {w1, w2}
  Stories = {}
  Cursors = {}
  Limit = 1
  Lease = 1
  FirstRetry = 1
  LaterRetry = 1
  MaxClaims = 3
  MaxFaults = 1
  Horizon = 6
PROPERTIES EveryJobEnds
CHECK_DEADLOCK FALSE
