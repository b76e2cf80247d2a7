SPECIFICATION Spec
CONSTANTS
    a = a
    b = b
    g1 = g1
    feed = feed
    bruno = bruno
    amorim = amorim
    spurs = spurs
    d1 = d1
    d2 = d2
    p = p
    q = q
    SlugOf <- MCSlugOf
    PlaceOf <- MCPlaceOf
    Item <- MCItem
    Feeds <- MCFeeds
    FeedRole <- MCFeedRole
    GoogleNewsEnabled = TRUE
    Catalog <- MCCatalog
    Requests <- MCRequests
    DiscoveryRuns = {d1, d2}
    Outages <- MCOutages
    MaxRunKills = 1
    Promoters = {p, q}
    Asked <- MCAsked
    SeenOrders <- MCSeenOrders
    Known <- MCNothing
    MaxStories = 3
    MaxPromotionRuns = 3
    MaxPromotionKills = 1
ACTION_CONSTRAINT PrivateFirst
CHECK_DEADLOCK FALSE
INVARIANTS
    MentionsAreItems
    ClaimsFollowAssignment
    PromotionIsWhole
