SPECIFICATION QueueSpec
CONSTANTS
  root = root
  promotion = promotion
  w1 = w1
  w2 = w2
  NoWorker = NoWorker
  Jobs = {root, promotion}
  PromoteJobs = {promotion}
  Workers = {w1, w2}
  Stories = {s1}
  MaxAttempts <- MCMaxAttempts
  Limit = 1
  Lease = 2
  FirstRetry = 1
  LaterRetry = 2
  Inputs <- MCInputs
  MaxClaims = 3
  Horizon = 3
SYMMETRY MCSymmetry
INVARIANTS DeadJobsAlerted
PROPERTIES OwnershipRespected HandoffImmutable ImplementsLifecycle
CHECK_DEADLOCK FALSE
