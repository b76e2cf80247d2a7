SPECIFICATION Spec
CONSTANTS
    o = o
    q = q
    facts = facts
    community = community
    s = s
    t = t
    g = g
    h = h
    k = k
    l = l
    Observations = {o, q}
    RoleOf <- MCRoleOf
    Feeds <- MCFeeds
    FeedRole <- MCFeedRole
    DocumentsOf <- MCDocumentsOf
    Bodies <- MCBodies
    MaxItems = 1
    Grounders = {g, h}
    Worlds <- MCWorlds
    Topics <- MCTopics
    RegisteredRole <- MCRegisteredRole
    Report = o
    MaxRows = 3
    Rankers = {k, l}
    Stories = {s, t}
    StoryOf <- MCStoryOf
    PostSignals <- MCPostSignals
    Freshness <- MCFreshness
    Reliability <- MCReliability
    MatchContext = 100
    Order <- MCOrder
    MaxSourceRuns = 2
    MaxChains = 2
    MaxKills = 1
    MaxPromotions = 2
    MaxRankings = 2
    MaxTurns = 1
ACTION_CONSTRAINT QuietWorld
SYMMETRY ChainSymmetry
CHECK_DEADLOCK FALSE
INVARIANTS
    PagesCoverClaims
    StatusMatchesEvidence
    NoStaleRanking
