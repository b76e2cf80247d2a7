SPECIFICATION Spec
CONSTANTS
  d1 = d1
  d2 = d2
  s1 = s1
  Alerts = {1, 2, 3}
  Dispatchers = {d1, d2}
  MaxAttempts = 1
  BatchLimit = 1
  MaxFaults = 1
  MaxMessages = 1
  Stories = {s1}
  Sightings <- MCSightings
  Cooldown = 1
  Freshness = 1
  Window = 1
  Horizon = 3
  SentLimit = 1
  MaxReads = 3
ACTION_CONSTRAINT Focus
SYMMETRY MCSymmetry
INVARIANTS SentWasDelivered AlertedWasTold TrendAlertsSpaced DigestsNeverRepeat
