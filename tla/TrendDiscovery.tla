--------------------------- MODULE TrendDiscovery ----------------------------
(***************************************************************************)
(* Trend discovery: a run expands its queries, asks every provider every   *)
(* query, keeps each item once, reads some of the articles, stores the     *)
(* items as observations and a snapshot for each cluster of the relevant   *)
(* ones.  An item is what a provider calls by one id; its data is given by *)
(* Item and does not change.  A list of items is a set of entries: an item *)
(* and the place where it stands; a cluster is a set of a list's entries.  *)
(***************************************************************************)
EXTENDS QueryExpansion, TrendScoring, Relevance

CONSTANTS Item,         \* [item -> its data: provider, fingerprint, words of its title, ...]
          Feeds,        \* the configured feeds, in order
          FeedRole,     \* [feed -> its editorial role]
          GoogleNewsEnabled,
          Catalog,      \* [provider -> [query family -> the items it holds, in order]]
          Requests,     \* what a run is asked: [profile, mode, max, context]
          DiscoveryRuns, \* the runs, each begun at a time of its own
          Outages,      \* the sets of tasks that may fail together: <<provider, query>>, by place
          \* bounds
          MaxRunKills

Google == "google-news"
Items == DOMAIN Item
NoStory == 0
MaxEnrichments == 12
MaxItems == 20
MaxQueries == 64

\* The feeds in their order, and then Google News.
AllProviders == Append(Feeds, Google)

\* Those that are asked, by place: the feeds whose role may be searched live, and Google
\* News if it is enabled.
Providers ==
    {k \in DOMAIN AllProviders :
        IF AllProviders[k] = Google THEN GoogleNewsEnabled
        ELSE FeedRole[AllProviders[k]] \in {"FACT_PRIMARY", "FACT_INDEPENDENT", "DISCOVERY_COMPETITOR",
                                            "DISCOVERY_COMMUNITY", "DISCOVERY_VIDEO"}}

ASSUME DiscoveryAssumption ==
    /\ Feeds \in Seq(DOMAIN FeedRole) /\ Google \notin Range(Feeds) /\ GoogleNewsEnabled \in BOOLEAN
    /\ Outages \subseteq SUBSET (Nat \X Nat) /\ MaxRunKills \in Nat

VARIABLES
    observation,   \* discovery_observations: [story, job, seen], of the items there are
    snapshot,      \* trend_snapshots: [run, key, story, items, state]
    run,           \* the discovery runs
    runKills

discoveryVars == <<observation, snapshot, run, runKills>>

NoDiscovery == [pc |-> "idle", queries |-> <<>>, failed |-> {}, items |-> {}, read |-> {},
                todo |-> {}, stories |-> [i \in {} |-> NoStory], clusters |-> {}, status |-> "none"]

DiscoveryInit ==
    /\ observation = [i \in {} |-> 0]
    /\ snapshot = {}
    /\ run = [d \in DiscoveryRuns |-> NoDiscovery]
    /\ runKills = 0

-----------------------------------------------------------------------------
StopWords == {"the", "and", "for", "with", "from", "manchester", "united"}

Tokens(i) == Item[i].words \ StopWords

Overlapping(a, b) ==
    LET both == Cardinality(a \cap b)
    IN  both >= 2 /\ 10 * both >= 6 * Min({Cardinality(a), Cardinality(b)})

ItemsOf(list) == {e.item : e \in list}

Earliest(list) == CHOOSE e \in list : \A f \in list : e.at <= f.at

\* The entry that leads the cluster of e, if lead gives those of the entries before: of
\* the clusters that hold its fingerprint the first, or else of those whose leading title
\* is like its own, or e itself.
ClusterFor(e, lead) ==
    LET earlier == {f \in DOMAIN lead : f.at < e.at}
        exact == {f \in earlier : Item[f.item].fingerprint = Item[e.item].fingerprint}
        related == {f \in earlier : Overlapping(Tokens(lead[f].item), Tokens(e.item))}
        first(S) == Earliest({lead[f] : f \in S})
    IN  IF exact # {} THEN first(exact) ELSE IF related # {} THEN first(related) ELSE e

\* The clusterings of a list, of which there is one: a cluster is what one entry leads.
ClusterObservations(list) ==
    {{{e \in list : lead[e] = l} : l \in {lead[e] : e \in list}} :
        lead \in {h \in [list -> list] : \A e \in list : h[e] = ClusterFor(e, h)}}

\* Clusters are worked through by their leaders.
FirstCluster(clusters) == {c \in clusters : Earliest(UNION clusters) \in c}

TextOf(d, i) == IF i \in run[d].read THEN Item[i].article ELSE Item[i].feed

\* calculateManutdRelevanceScore: nothing, or more if the club itself is named.
RelevanceScore(text, named) ==
    IF ~Relevant(text) THEN 0 ELSE IF named THEN 100 ELSE 75

StateOf(d, cluster) ==
    LET scored(i) == [role |-> Item[i].role, platform |-> Item[i].platform, source |-> Item[i].source,
                      age |-> Item[i].age, engagement |-> Item[i].engagement,
                      relevance |-> RelevanceScore(TextOf(d, i), Item[i].named)]
        members == SetToSortSeq(cluster, LAMBDA e, f : e.at < f.at)
    IN  DeriveTrendState(CalculateTrendScore([n \in DOMAIN members |-> scored(members[n].item)]))

-----------------------------------------------------------------------------
\* What the handler lets through.
Accepted(r) ==
    /\ r.profile \in {"FAST", "PLAYER_SWEEP", "MANUAL"}
    /\ r.mode \in DOMAIN ModeFamilies
    /\ r.max \in 1..64

Expanded ==
    [r \in {r \in Requests : Accepted(r)} |-> ExpandDiscoveryQueries(r.profile, r.mode, r.context, r.max)]

\* The requests whose queries have ids of their own.
Distinct ==
    {r \in DOMAIN Expanded : \A j, k \in DOMAIN Expanded[r] : Expanded[r][j].id = Expanded[r][k].id => j = k}

\* The run and its queries are stored one by one.  A second query of the same id is
\* refused, and then the run is left as it is.
Begin(d) ==
    /\ run[d].pc = "idle"
    /\ \E r \in {r \in Requests : Accepted(r)} :
         LET queries == Expanded[r]
         IN  run' = [run EXCEPT ![d] =
               CASE queries = <<>> \/ Providers = {} -> [NoDiscovery EXCEPT !.pc = "done", !.status = "NOOP"]
                 [] queries # <<>> /\ Providers # {} ->
                      [NoDiscovery EXCEPT !.pc = IF r \in Distinct THEN "search" ELSE "stuck",
                                    !.queries = queries, !.status = "RUNNING"]]
    /\ UNCHANGED <<observation, snapshot, runKills>>

InWindow(i, query) == Item[i].age = NoAge \/ Item[i].age <= query.hours

\* A provider answers a query with what it holds, Google News only with what is published
\* in the query's window, or has no date.  An item without an id, a title or a https
\* address is dropped.
Answer(p, query) ==
    LET held == Catalog[p][query.family]
    IN  {[nth |-> n, item |-> held[n]] :
            n \in {n \in 1..MaxItems : n \in DOMAIN held /\ Item[held[n]].usable
                                       /\ (p = Google => InWindow(held[n], query))}}

\* Every provider is asked every query.
Tasks(queries) == {t \in Providers \X (1..MaxQueries) : t[2] \in DOMAIN queries}

\* What the tasks that are not lost answer, in the order of the tasks.
Found(queries, lost) ==
    UNION {{[at |-> (t[1] * MaxQueries + t[2]) * MaxItems + a.nth, item |-> a.item] :
               a \in Answer(AllProviders[t[1]], queries[t[2]])} : t \in Tasks(queries) \ lost}

\* Mutant: an item is kept as often as it is found.
MergedTwice(found) == found

\* An item is kept where it is found first.
Merged(found) == {e \in found : \A f \in found : f.item = e.item => e.at <= f.at}

\* The answers are merged.  A feed that fails marks its provider, what fails at Google is
\* an empty answer.
Search(d) ==
    /\ run[d].pc = "search"
    /\ \E lost \in Outages :
         run' = [run EXCEPT ![d].pc = "enrich", ![d].queries = <<>>,
                   ![d].items = Merged(Found(run[d].queries, lost)),
                   ![d].failed = {AllProviders[t[1]] : t \in lost \cap Tasks(run[d].queries)} \ {Google}]
    /\ UNCHANGED <<observation, snapshot, runKills>>

\* A link to Google News is left to the resolver, and an article that is no longer than
\* the feed's excerpt changes nothing.
Readable(i) == Item[i].provider # Google /\ Item[i].article # Item[i].feed

\* The articles that are read, out of the most relevant and newest.
Enrich(d) ==
    /\ run[d].pc = "enrich"
    /\ \E read \in {r \in SUBSET {i \in ItemsOf(run[d].items) : Readable(i)} : Cardinality(r) <= MaxEnrichments} :
         run' = [run EXCEPT ![d].pc = "store", ![d].read = read, ![d].todo = ItemsOf(run[d].items)]
    /\ UNCHANGED <<observation, snapshot, runKills>>

\* The row's data is merged, with the time it was seen, and its assignment stays; the run
\* keeps the row's story as it is then.
UpsertObservation(d, i) ==
    /\ run[d].pc = "store" /\ i \in run[d].todo
    /\ LET row == IF i \in DOMAIN observation THEN [observation[i] EXCEPT !.seen = d]
                  ELSE [story |-> NoStory, job |-> NoName, seen |-> d]
       IN  /\ observation' = [j \in DOMAIN observation \cup {i} |-> IF j = i THEN row ELSE observation[j]]
           /\ run' = [run EXCEPT ![d].todo = @ \ {i},
                        ![d].stories = [j \in DOMAIN @ \cup {i} |-> IF j = i THEN row.story ELSE @[j]]]
    /\ UNCHANGED <<snapshot, runKills>>

\* All observations are stored: the relevant ones are clustered.
Cluster(d) ==
    /\ run[d].pc = "store" /\ run[d].todo = {}
    /\ \E clusters \in ClusterObservations({e \in run[d].items : Relevant(TextOf(d, e.item))}) :
         run' = [run EXCEPT ![d].pc = "snapshot", ![d].clusters = clusters]
    /\ UNCHANGED <<observation, snapshot, runKills>>

\* The story of the first member that has one.
StoryOfCluster(d, cluster) ==
    LET assigned == {e \in cluster : run[d].stories[e.item] # NoStory}
    IN  IF assigned = {} THEN NoStory ELSE run[d].stories[Earliest(assigned).item]

\* A snapshot with the key and time of one that is there is ignored.
SaveSnapshot(d) ==
    /\ run[d].pc = "snapshot"
    /\ \E cluster \in FirstCluster(run[d].clusters) :
         LET key == Item[Earliest(cluster).item].fingerprint
             new == [run |-> d, key |-> key, items |-> cluster, story |-> StoryOfCluster(d, cluster),
                     state |-> StateOf(d, cluster)]
         IN  /\ snapshot' = IF \E s \in snapshot : s.run = d /\ s.key = key THEN snapshot
                            ELSE snapshot \cup {new}
             /\ run' = [run EXCEPT ![d].clusters = @ \ {cluster}]
    /\ UNCHANGED <<observation, runKills>>

CompleteRun(d) ==
    /\ run[d].pc = "snapshot" /\ run[d].clusters = {}
    /\ run' = [run EXCEPT ![d] = [NoDiscovery EXCEPT !.pc = "done",
                               !.status = IF run[d].failed = {} THEN "COMPLETED" ELSE "PARTIAL"]]
    /\ UNCHANGED <<observation, snapshot, runKills>>

\* A run that is killed, or one of whose writes fails, stays as it is, RUNNING.
KillRun(d) ==
    /\ run[d].pc \in {"search", "enrich", "store", "snapshot"} /\ runKills < MaxRunKills
    /\ runKills' = runKills + 1
    /\ run' = [run EXCEPT ![d] = [NoDiscovery EXCEPT !.pc = "stuck", !.status = "RUNNING"]]
    /\ UNCHANGED <<observation, snapshot>>

DiscoveryNext ==
    \E d \in DiscoveryRuns :
        \/ Begin(d) \/ Search(d) \/ Enrich(d) \/ Cluster(d) \/ SaveSnapshot(d) \/ CompleteRun(d) \/ KillRun(d)
        \/ \E i \in Items : UpsertObservation(d, i)
==============================================================================
