---------------------------- MODULE MCDiscovery -----------------------------
(* A feed and Google News.  Three items of one player: two of the feed, of    *)
(* which the first is on another event by its title, and one of Google News,  *)
(* whose title is like both.                                                  *)
EXTENDS Promotion

CONSTANTS a, b, g1, feed, bruno, amorim, spurs, d1, d2, p, q

MCSlugOf == bruno :> "bruno" @@ amorim :> "amorim" @@ spurs :> "spurs" @@ "cup" :> "cup"
MCPlaceOf == amorim :> 1 @@ bruno :> 2 @@ spurs :> 3 @@ "cup" :> 4

About1(provider, fp, words, age, text, article, entities) ==
    [provider |-> provider, fingerprint |-> fp, words |-> words, age |-> age, feed |-> text,
     article |-> article, entities |-> entities, topic |-> NoName, named |-> "explicit" \in text,
     role |-> IF provider = Google THEN "DISCOVERY_COMMUNITY" ELSE "FACT_PRIMARY", platform |-> "RSS",
     source |-> provider, engagement |-> <<>>, resolved |-> TRUE, reviewed |-> provider = Google,
     usable |-> TRUE, extracted |-> TRUE]

Clear == {"title", "explicit", "entity"}
MCItem ==
    a :> About1(feed, 1, {"manchester", "united", "bruno", "injury", "scan"}, 1, Clear, Clear, {bruno})
    @@ b :> About1(feed, 2, {"bruno", "transfer", "talks", "week"}, 2, {"title"}, Clear, {})
    @@ g1 :> About1(Google, 3, {"bruno", "injury", "scan", "transfer", "talks"}, 20, Clear, Clear, {bruno})

MCCatalog ==
    feed :> [f \in ModeFamilies.GENERAL \cup DynamicFamilies |->
                CASE f = "LATEST" -> <<a, b>> [] f = "PLAYER" -> <<b>> [] OTHER -> <<>>]
    @@ Google :> [f \in ModeFamilies.GENERAL \cup DynamicFamilies |->
                    IF f \in {"LATEST", "INJURY"} THEN <<g1>> ELSE <<>>]

Entity(name, type, tier, hotUntil) ==
    [name |-> name, type |-> type, tier |-> tier, active |-> TRUE, nation |-> NoName, injured |-> FALSE,
     hotStarted |-> 0, hotUntil |-> hotUntil]
World(entities, matches) == [entities |-> entities, matches |-> matches, observations |-> <<>>]
Today ==
    Resolve(World(<<Entity(amorim, "MANAGER", "BACKGROUND", 0), Entity(bruno, "PLAYER", "FIRST_TEAM", 4)>>,
                  <<[opponent |-> spurs, competition |-> "cup", at |-> 30, status |-> "SCHEDULED"]>>), 1)
Empty == Resolve(World(<<>>, <<>>), 1)

Request(profile, mode, max, context) == [profile |-> profile, mode |-> mode, max |-> max, context |-> context]
MCRequests == {Request("MANUAL", "PLAYERS", 7, Today), Request("PLAYER_SWEEP", "GENERAL", 8, Empty)}
\* Nothing fails, or the feed with all seven queries.
MCOutages == {{}, {1} \X (1..7)}
MCFeeds == <<feed>>
MCFeedRole == feed :> "FACT_PRIMARY"

\* A retry of the first job asks for its own time, one of the second for the time of the first run.
MCAsked == [x \in {p, q} |-> [job |-> x, limit |-> 3, only |-> NoName, refresh |-> FALSE,
                             covers |-> IF x = p THEN {d1, d2} ELSE {d1}]]
MCSeenOrders == {<<a, b, g1>>, <<g1, b, a>>}

ASSUME OneJobIsWhole == WholeJob(p) /\ ~WholeJob(q)

\* A list has one clustering, the one that clusterObservations makes entry by entry.
EntryByEntry(order) ==
    FoldLeft(LAMBDA clusters, e :
                LET exact == {k \in DOMAIN clusters : \E f \in Range(clusters[k]) :
                                Item[f.item].fingerprint = Item[e.item].fingerprint}
                    related == {k \in DOMAIN clusters :
                                  Overlapping(Tokens(clusters[k][1].item), Tokens(e.item))}
                    fit == IF exact # {} THEN exact ELSE related
                IN  IF fit = {} THEN Append(clusters, <<e>>)
                    ELSE [clusters EXCEPT ![Min(fit)] = Append(@, e)],
             <<>>, [n \in DOMAIN order |-> [at |-> n, item |-> order[n]]])

ASSUME ClusteringIsTheLoop ==
    \A order \in UNION {[1..n -> Items] : n \in 0..4} :
        ClusterObservations(Listed(order)) = {{Range(c) : c \in Range(EntryByEntry(order))}}

MCNothing == <<>>

\* Steps that touch nothing another run or job reads are taken before any other step: a
\* run's but for the storing of observations, and a job's claims and its end.
Alone(x) ==
    \/ promoter[x].pc \in {"item", "claim"}
    \/ promoter[x].pc = "cluster" /\ promoter[x].clusters = {}
InPrivate(d) ==
    \/ run[d].pc \in {"search", "enrich", "snapshot"}
    \/ run[d].pc = "store" /\ (d = d2 \/ run[d].todo = {})
PrivateFirst ==
    /\ (\E x \in Promoters : Alone(x)) \/ (\E d \in DiscoveryRuns : InPrivate(d)) =>
         \/ \E x \in Promoters : Alone(x) /\ promoter[x] # promoter[x]'
         \/ \E d \in DiscoveryRuns : InPrivate(d) /\ run[d] # run[d]'
    \* The first job is killed, where that leaves something half done or unannounced; a
    \* second one that is killed is one that stops.  It lists in one order.
    /\ promotionKills' # promotionKills =>
         /\ promoter[q]' = promoter[q] /\ promoter[p].affected # {}
         /\ promoter[p].pc \in {"claim", "cluster"}
    /\ promoter[q].pc = "idle" => \A e \in UNION promoter'[q].clusters : e \in Listed(<<g1, b, a>>)
    \* A second run comes while promotion rests, to find what it has done; a first one that
    \* is killed has stored a part.
    /\ run[d2].pc # "idle" \/ run[d2].pc' = "idle" \/
         /\ run[d1].status \in {"COMPLETED", "PARTIAL"} /\ claims # {}
         /\ \A x \in Promoters : promoter[x].pc \in {"idle", "done"}
    /\ runKills' # runKills => run[d1].pc = "store" /\ Cardinality(DOMAIN observation) = 1
                               /\ \A x \in Promoters : promoter[x].pc = "idle"
==============================================================================
