SPECIFICATION Spec
CONSTANTS
  e1 = e1
  e2 = e2
  s1 = s1
  s2 = s2
  c1 = c1
  r1 = r1
  r2 = r2
  Explorations = {e1, e2}
  Standards = {s1, s2}
  Candidates = {c1}
  CandidateOf <- OneCandidate
  TextsOf <- MCTextsOf
  ModeOf <- AllNews
  RowsOf <- MCRowsOf
  CandidateDay <- MCCandidateDay
  Answers <- MCAnswers
  Runs = {r1, r2}
  DailyLimit = 1
  LeaseTime = 1
  DayLength = 2
  MaxArticleAge = 1
  MaxArticles = 2
  FreshSpan = 2
  MinSlides = 4
  MaxSlides = 7
  Horizon = 2
  MaxStarts = 3
SYMMETRY MCSymmetry
CHECK_DEADLOCK FALSE
INVARIANTS FinishedJobsHaveBriefs RevisionsAreConsecutive StandardLeaseExcludes NewsClaimsAreBacked
