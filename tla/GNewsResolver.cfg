SPECIFICATION FairResolverSpec
CONSTANTS
  o1 = o1
  o2 = o2
  o3 = o3
  a1 = a1
  r1 = r1
  r2 = r2
  NoArticle = NoArticle
  NoUrl = NoUrl
  NoRun = NoRun
  Observations = {o1, o2, o3}
  Claimable = {o1, o2}
  Articles = {a1}
  ArticleOf <- OneArticle
  Urls = {u1, u2}
  Runs = {r1, r2}
  MaxAttempts = 3
  BatchSize = 2
  LeaseTime = 1
  FirstRetry = 1
  SecondRetry = 2
  Cooldowns = {1}
ACTION_CONSTRAINT Focus
CHECK_DEADLOCK FALSE
INVARIANTS OneLeasePerArticle LeasedNotCached ResolvedAsCached NoStrandedRow
PROPERTIES ResolvedIsFinal EveryRowSettles
