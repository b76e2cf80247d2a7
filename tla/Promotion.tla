------------------------------ MODULE Promotion ------------------------------
(***************************************************************************)
(* Promotion of discoveries: a job lists the observations that have no     *)
(* story (or are its own), clusters them, finds or makes a story for each  *)
(* cluster, and item by item writes the claims of a reviewed publisher,    *)
(* the assignment and the discovery claim.  A job that fails or is killed  *)
(* is run again under its id.  Source observations, one row for each item, *)
(* and the times of a story are left out.                                  *)
(***************************************************************************)
EXTENDS TrendDiscovery

CONSTANTS Promoters,
          Asked,       \* [promoter -> what it is asked: its job or NoName, limit, one row only, refresh,
                       \*  and the runs its as_of covers: all, if it has none, as a retry asks for its own time]
          SeenOrders,  \* the orders in which the items may have been seen last
          Known,       \* the stories there are at first, without a promotion key: sequence of titles
          MaxStories,
          MaxPromotionRuns, MaxPromotionKills

ASSUME PromotionAssumption ==
    /\ \A o \in SeenOrders : o \in Seq(Items) /\ IsInjective(o) /\ Range(o) = Items
    /\ MaxStories \in Nat /\ Len(Known) <= MaxStories
    /\ \A p \in Promoters : Asked[p].limit \in 1..100 /\ (Asked[p].only # NoName => Asked[p].job # NoName)
                            /\ Asked[p].covers \subseteq DiscoveryRuns

VARIABLES
    story,      \* story_clusters: [key, words, fingerprints], or Unused
    claims,     \* the discovery claims: [item, story]
    reports,    \* the claims of publishers' reports: [item, story]; they come before an assignment
    promoter, promotionRuns, promotionKills,
    forsaken    \* history: the reports a job had claimed when it stopped before their assignment

promotionVars == <<story, claims, reports, promoter, promotionRuns, promotionKills, forsaken>>
vars == <<discoveryVars, promotionVars>>

NoKey == <<"none">>
Unused == [key |-> <<"unused">>, words |-> {}, fingerprints |-> {}]
NoPromotion == [pc |-> "idle", clusters |-> {}, seen |-> <<>>, listed |-> {}, target |-> NoStory,
                rest |-> {}, affected |-> {}]

Stories == DOMAIN story
Rows == {s \in Stories : story[s] # Unused}

Init ==
    /\ DiscoveryInit
    /\ story = [s \in 1..MaxStories |->
                  IF s \in DOMAIN Known THEN [key |-> NoKey, words |-> Known[s], fingerprints |-> {}] ELSE Unused]
    /\ claims = {} /\ reports = {} /\ forsaken = {}
    /\ promoter = [p \in Promoters |-> NoPromotion]
    /\ promotionRuns = 0 /\ promotionKills = 0

\* The item a list has first, and the list in an order.
Leading(list) == Earliest(list).item
Listed(order) == {[at |-> k, item |-> order[k]] : k \in DOMAIN order}

-----------------------------------------------------------------------------
\* What an item is about: what its source says, or the words of its title.
TopicOf(i) ==
    LET w == Item[i].words
    IN  CASE Item[i].topic # NoName -> Item[i].topic
          [] OTHER -> IF w \cap {"injury", "out"} # {} THEN "INJURY"
                      ELSE IF w \cap {"transfer", "signing"} # {} THEN "TRANSFER"
                      ELSE IF w \cap {"contract", "extend"} # {} THEN "CONTRACT"
                      ELSE "DISCOVERY"

\* The first entity in the order of names, or the title.
PromotionKey(i) ==
    LET first == {e \in Item[i].entities : \A f \in Item[i].entities : PlaceOf[e] <= PlaceOf[f]}
    IN  <<TopicOf(i), IF first = {} THEN Item[i].words ELSE {SlugOf[e] : e \in first}>>

\* A story is a cluster's if it has its key, one of its fingerprints, or a title of
\* whose words the cluster's first title has enough; here no word is left aside.
SafeStoryMatch(row, key, cluster) ==
    \/ row.key = key
    \/ \E i \in ItemsOf(cluster) : Item[i].fingerprint \in row.fingerprints
    \/ Overlapping(row.words, Item[Leading(cluster)].words)

\* Mutant: a retry no longer lists what its job has already assigned.
ListUnassignedOnly(asked) == {i \in DOMAIN observation : observation[i].story = NoStory}

\* Of the observations that were not seen again since: those without a story, and those of
\* the job itself, but a link of Google News only once it is resolved; or a single row of
\* the job, to be repaired.
ListFreshUnassigned(asked) ==
    LET job == asked.job
        covered == {i \in DOMAIN observation : observation[i].seen \in asked.covers}
    IN  IF asked.only # NoName
        THEN {i \in covered : i = asked.only /\ observation[i].job = job /\ Item[i].provider # Google}
        ELSE {i \in covered :
                /\ observation[i].story = NoStory \/ (job # NoName /\ observation[i].job = job)
                /\ Item[i].provider = Google => Item[i].resolved}

\* Of a page of Google News the text is its article, if that was extracted.
PromotionText(i) ==
    IF Item[i].provider # Google THEN Item[i].feed
    ELSE IF Item[i].extracted THEN Item[i].article ELSE Item[i].feed \ {"body"}

\* What of Google News is not about the club is not promoted.
Promotable(i) == Item[i].provider = Google => Relevant(PromotionText(i))

\* A publisher's article counts as reviewed if its host is that of a registered source of
\* facts, active and reliable.
Reviewed(i) == Item[i].provider = Google /\ Item[i].extracted /\ Item[i].reviewed

-----------------------------------------------------------------------------
\* At most `limit` entries of a list, from the first.
Limited(list, limit) == {e \in list : Cardinality({f \in list : f.at < e.at}) < limit}

\* The fresh observations, the last seen first, and of these what is promotable.
ListObservations(p) ==
    /\ promoter[p].pc = "idle" /\ promotionRuns < MaxPromotionRuns
    /\ promotionRuns' = promotionRuns + 1
    /\ LET fresh == ListFreshUnassigned(Asked[p])
       IN  \E order \in SeenOrders :
             LET limited == Limited({e \in Listed(order) : e.item \in fresh}, Asked[p].limit)
                 kept == {e \in limited : Promotable(e.item)}
             IN  \E clusters \in ClusterObservations(kept) :
                   promoter' = [promoter EXCEPT ![p] =
                     [NoPromotion EXCEPT
                        !.pc = IF kept = {} /\ ~Asked[p].refresh THEN "done" ELSE "stories",
                        !.clusters = clusters,
                        \* what the listing says of the items' stories
                        !.listed = {<<i, observation[i].story>> : i \in ItemsOf(kept)}]]
    /\ UNCHANGED <<discoveryVars, story, claims, reports, promotionKills, forsaken>>

\* The stories are read once.
ListStories(p) ==
    /\ promoter[p].pc = "stories"
    /\ promoter' = [promoter EXCEPT ![p].pc = "cluster", ![p].seen = story]
    /\ UNCHANGED <<discoveryVars, story, claims, reports, promotionRuns, promotionKills, forsaken>>

Read(p) == {s \in DOMAIN promoter[p].seen : promoter[p].seen[s] # Unused}

Matches(p, key, cluster) == {s \in Read(p) : SafeStoryMatch(promoter[p].seen[s], key, cluster)}

\* The stories the listing says the items already have.
AssignedStories(p, cluster) ==
    {e[2] : e \in {e \in promoter[p].listed : e[1] \in ItemsOf(cluster) /\ e[2] # NoStory}}

Retried(p, cluster) == Asked[p].job # NoName /\ AssignedStories(p, cluster) # {}

Fail(p) == promoter' = [promoter EXCEPT ![p] = NoPromotion]

To(p, s, cluster) ==
    promoter' = [promoter EXCEPT ![p].pc = "item", ![p].target = s, ![p].rest = cluster,
                                 ![p].clusters = @ \ {cluster}, ![p].affected = @ \cup {s}]

\* Items of the job itself keep their story, which must be one, and still theirs.
KeepStory(p) ==
    /\ promoter[p].pc = "cluster"
    /\ \E cluster \in FirstCluster(promoter[p].clusters) :
         LET assigned == AssignedStories(p, cluster)
         IN  /\ Retried(p, cluster)
             /\ IF \E s \in Matches(p, PromotionKey(Leading(cluster)), cluster) : assigned = {s}
                THEN \E s \in assigned : To(p, s, cluster)
                ELSE Fail(p)
    /\ UNCHANGED <<discoveryVars, story, claims, reports, promotionRuns, promotionKills, forsaken>>

\* What a story's signature keeps of its observations; the cut at 64 is left out.
SignatureFor(previous, cluster) == previous \cup {Item[i].fingerprint : i \in ItemsOf(cluster)}

\* upsertStory: a story is sought by key: the key of a story that matches, or the
\* cluster's own if that story has none.  The row of that key is overwritten, or a new
\* one is inserted, which fails as a whole if another job inserts the key meanwhile; the
\* signature is what was read, and the cluster's.
WriteStory(p, cluster, key, fingerprints) ==
    LET new == [key |-> key, words |-> Item[Leading(cluster)].words,
                fingerprints |-> SignatureFor(fingerprints, cluster)]
        present == {s \in Rows : story[s].key = key}
    IN  \E s \in IF present # {} THEN present ELSE Stories \ Rows :
          /\ present = {} => \A t \in Stories \ Rows : s <= t
          /\ story' = [story EXCEPT ![s] = new]
          /\ To(p, s, cluster)

UpsertStory(p) ==
    /\ promoter[p].pc = "cluster"
    /\ \E cluster \in FirstCluster(promoter[p].clusters) :
         LET own == PromotionKey(Leading(cluster))
             matches == Matches(p, own, cluster)
         IN  /\ ~Retried(p, cluster)
             /\ \/ matches = {} /\ WriteStory(p, cluster, own, {})
                \/ \E m \in matches :
                     WriteStory(p, cluster, IF promoter[p].seen[m].key = NoKey THEN own ELSE promoter[p].seen[m].key,
                                promoter[p].seen[m].fingerprints)
    /\ UNCHANGED <<discoveryVars, claims, reports, promotionRuns, promotionKills, forsaken>>

Current(p) == Leading(promoter[p].rest)

\* The claims of a reviewed publisher's report are written before the assignment.
EnsurePublisherReportClaims(p) ==
    /\ promoter[p].pc = "item"
    /\ reports' = IF Reviewed(Current(p)) THEN reports \cup {[item |-> Current(p), story |-> promoter[p].target]}
                  ELSE reports
    /\ promoter' = [promoter EXCEPT ![p].pc = "assign"]
    /\ UNCHANGED <<discoveryVars, story, claims, promotionRuns, promotionKills, forsaken>>

\* Mutant: the row's story and job are not looked at.
AssignableAny(row, s, job) == TRUE

\* A row is assigned only if it has no other story and no other job.
Assignable(row, s, job) ==
    /\ row.story \in {NoStory, s}
    /\ job # NoName => row.job \in {NoName, job}

\* The claim of a report whose assignment is the job's next step.
Unassigned(p) ==
    {r \in reports : promoter[p].pc = "assign" /\ r.item = Current(p) /\ r.story = promoter[p].target}

Forsake(p) == Fail(p) /\ forsaken' = forsaken \cup Unassigned(p)

\* assignObservation: no row to update is a failure of the whole job.  What it has
\* claimed of a report stays in the story that has lost the observation.
AssignObservation(p) ==
    /\ promoter[p].pc = "assign"
    /\ LET i == Current(p)
           job == Asked[p].job
       IN  IF Assignable(observation[i], promoter[p].target, job)
           THEN /\ observation' = [observation EXCEPT ![i].story = promoter[p].target,
                                                      ![i].job = IF job = NoName THEN @ ELSE job]
                /\ promoter' = [promoter EXCEPT ![p].pc = "claim"]
                /\ UNCHANGED forsaken
           ELSE Forsake(p) /\ UNCHANGED observation
    /\ UNCHANGED <<snapshot, run, runKills, story, claims, reports, promotionRuns, promotionKills>>

EnsureDiscoveryClaim(p) ==
    /\ promoter[p].pc = "claim"
    /\ claims' = claims \cup {[item |-> Current(p), story |-> promoter[p].target]}
    /\ LET rest == promoter[p].rest \ {Earliest(promoter[p].rest)}
       IN  promoter' = [promoter EXCEPT ![p].pc = IF rest = {} THEN "cluster" ELSE "item", ![p].rest = rest]
    /\ UNCHANGED <<discoveryVars, story, reports, promotionRuns, promotionKills, forsaken>>

\* The answer names the stories whose claims are to be grounded; if it is asked to, the
\* job adds stories seen of late.
EndPromotion(p) ==
    /\ promoter[p].pc = "cluster" /\ promoter[p].clusters = {}
    /\ \E recent \in {r \in SUBSET Read(p) : Cardinality(r) <= IF Asked[p].refresh THEN 25 ELSE 0} :
         promoter' = [promoter EXCEPT ![p] = [NoPromotion EXCEPT !.pc = "done",
                                                !.affected = promoter[p].affected \cup recent]]
    /\ UNCHANGED <<discoveryVars, story, claims, reports, promotionRuns, promotionKills, forsaken>>

\* A job that is killed, or one of whose requests fails, begins anew under its id.
KillPromotion(p) ==
    /\ promoter[p].pc \notin {"idle", "done"} /\ promotionKills < MaxPromotionKills
    /\ promotionKills' = promotionKills + 1
    /\ Forsake(p)
    /\ UNCHANGED <<discoveryVars, story, claims, reports, promotionRuns>>

PromotionNext ==
    \E p \in Promoters :
        \/ ListObservations(p) \/ ListStories(p) \/ KeepStory(p) \/ UpsertStory(p)
        \/ EnsurePublisherReportClaims(p) \/ AssignObservation(p) \/ EnsureDiscoveryClaim(p)
        \/ EndPromotion(p) \/ KillPromotion(p)

Next ==
    \/ DiscoveryNext /\ UNCHANGED promotionVars
    \/ PromotionNext

Spec == Init /\ [][Next]_vars

-----------------------------------------------------------------------------
\* When a run has saved its snapshots each relevant item it found is a mention of exactly
\* one of them, exactly once, however often the providers gave it: mentions are neither
\* inflated nor lost (trend-discovery/orchestrator.ts, clustering.ts).
MentionsAreItems ==
    \A d \in DiscoveryRuns : run[d].pc = "snapshot" /\ run[d].clusters = {} =>
        \A i \in ItemsOf(run[d].items) :
            LET mentions == {m \in snapshot \X run[d].items :
                               m[1].run = d /\ m[2] \in m[1].items /\ m[2].item = i}
            IN  Cardinality(mentions) = IF Relevant(TextOf(d, i)) THEN 1 ELSE 0

\* A discovery claim is of the story its observation has, and a snapshot of the story one
\* of its members has: an assignment, once made, is not taken over by another job.  The
\* claims of a publisher's report come before the assignment: those in another story than
\* their observation's are of a job that was refused the observation or was killed just
\* before, and of nothing else (promote-discovery/orchestrator.ts).
ClaimsFollowAssignment ==
    /\ \A c \in claims : observation[c.item].story = c.story
    /\ \A s \in snapshot : s.story # NoStory =>
         \E i \in ItemsOf(s.items) : observation[i].story = s.story
    /\ \A r \in reports :
         \/ observation[r.item].story = r.story
         \/ r \in forsaken
         \/ \E p \in Promoters : r \in Unassigned(p)

\* Not so: nothing is claimed for the story of a job that has lost an observation.  What
\* it reported stays there, and no retry takes it away.
LosersClaimNothing ==
    \A r \in reports : observation[r.item].story \in {NoStory, r.story}

\* A job with an id that lists all there is, whenever it is run again, and whose id only
\* repairs of single rows share.
WholeJob(p) ==
    /\ Asked[p].job # NoName /\ Asked[p].only = NoName /\ Asked[p].covers = DiscoveryRuns
    /\ \A order \in SeenOrders : Len(order) <= Asked[p].limit
    /\ \A q \in Promoters \ {p} : Asked[q].job = Asked[p].job => Asked[q].only # NoName

\* Such a job that is done has left nothing half done, also of what an earlier attempt of it
\* was killed over: each observation that bears its id has its discovery claim, and its
\* story is among those the job hands on to grounding (promote-discovery/repository.ts).
PromotionIsWhole ==
    \A p \in Promoters : promoter[p].pc = "done" /\ WholeJob(p) =>
        \A i \in DOMAIN observation : observation[i].job = Asked[p].job =>
            /\ [item |-> i, story |-> observation[i].story] \in claims
            /\ observation[i].story \in promoter[p].affected

\* Not so: an observation whose title is that of a story there was before it gets such a
\* story.  A story without a promotion key, as Intelligence makes them, is matched but
\* never written: a second one is inserted.
AttachesToExistingStory ==
    \A i \in DOMAIN observation :
        /\ observation[i].story # NoStory
        /\ \E s \in DOMAIN Known : Overlapping(Known[s], Item[i].words)
        => observation[i].story \in DOMAIN Known
==============================================================================
