SPECIFICATION Spec
CONSTANTS
    o = o
    q = q
    facts = facts
    community = community
    s = s
    t = t
    g = g
    h = h
    k = k
    l = l
    Observations = {o, q}
    RoleOf <- MCRoleOf
    Feeds <- MCFeeds
    FeedRole <- MCFeedRole
    DocumentsOf <- MCDocumentsOf
    Bodies <- MCBodies
    MaxItems = 1
    Grounders = {g}
    Worlds <- MCSpentWorlds
    Topics <- MCTopics
    RegisteredRole <- MCRegisteredRole
    Report = o
    MaxRows = 3
    Rankers = {k, l}
    Stories = {s, t}
    StoryOf <- MCStoryOf
    PostSignals <- MCPostSignals
    Freshness <- MCFreshness
    Reliability <- MCReliability
    MatchContext = 100
    Order <- MCOrder
    MaxSourceRuns = 0
    MaxChains = 1
    MaxKills = 1
    MaxPromotions = 0
    MaxRankings = 0
    MaxTurns = 0
ACTION_CONSTRAINT QuietWorld
SYMMETRY ChainSymmetry
CHECK_DEADLOCK FALSE
INVARIANT PagesCoverClaims
