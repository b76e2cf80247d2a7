--------------------------- MODULE IntelligenceRun ---------------------------
(***************************************************************************)
(* The story intelligence run: a singleton lease, a pass over the recent   *)
(* posts that puts each into a story cluster, the sources the stories      *)
(* cite, and the day's candidates.  Every call of the database is a step;  *)
(* a run holds what it read while other runs go on, fails at any call and  *)
(* may be killed between any two.                                          *)
(***************************************************************************)
EXTENDS StoryMatching, Relevance

CONSTANTS Runs,          \* the invocations that may be alive at once
          Posts,         \* post ids: naturals, in the order of their uuids
          Clusters,      \* cluster ids, in the order of creation
          CaptionsOf,    \* [post -> the captions a collection may find]
          FoundIn, SignalsOf, PublishedAt,  \* of each post
          Registered,    \* the active information sources
          Lease,         \* STORY_INTELLIGENCE_LEASE_SECONDS
          DaySpan,       \* a business day, in ticks
          \* bounds
          Horizon, MaxLag, MaxStarts, MaxFaults

ASSUME IntelligenceAssumption ==
    /\ Posts \subseteq Nat /\ IsFiniteSet(Posts)
    /\ Clusters \subseteq Nat \ {0} /\ IsFiniteSet(Clusters)
    /\ CaptionsOf \in [Posts -> SUBSET Words] /\ FoundIn \in [Posts -> Words]
    /\ Registered \subseteq Terms /\ SignalsOf \in [Posts -> Texts] /\ PublishedAt \in [Posts -> Nat]
    /\ Lease \in Nat \ {0} /\ DaySpan \in Nat \ {0}
    /\ {Horizon, MaxLag, MaxStarts, MaxFaults} \subseteq Nat

VARIABLES
    now,
    lock,        \* intelligence_run_lock: the run, its lease and heartbeat
    collected,   \* raw_posts
    caption,     \* raw_posts.caption, as the latest collection found it
    analysed,    \* posts with a content understanding
    cluster,     \* story_clusters
    member,      \* story_cluster_posts, by post
    citation,    \* story_cluster_sources
    verdict,     \* story_cluster_evaluations
    readiness,   \* intelligence_readiness, by day
    candidate,   \* content_candidates: the clusters of a day
    task,        \* the live invocations
    starts, faults,
    \* history
    exclusive,   \* no two invocations have been in the lease at once
    placed,      \* the caption of each post that has a story, as the run had read it that placed it
    overwritten  \* the stories a run has written that were not any more what it took them for

tables == <<cluster, member, citation, verdict, readiness, candidate>>
world == <<now, collected, caption, analysed, starts>>
history == <<exclusive, placed, overwritten>>
vars == <<world, lock, tables, task, faults, history>>

NoRun == "none"
NoCluster == 0
Free == [run |-> NoRun, until |-> 0, beat |-> 0]
NotMember == [cluster |-> NoCluster, method |-> "NONE"]
Methods == {"SEED", "DETERMINISTIC", "AI", "NONE"}
EmptySignature == [entities |-> {}, events |-> {}, sources |-> {}, numbers |-> {},
                   captions |-> {}, first |-> 0, last |-> 0]
Absent == [status |-> "ABSENT", first |-> 0, last |-> 0, sig |-> EmptySignature]
NoWords == [entities |-> {}, events |-> {}, sources |-> {}, numbers |-> {}, tokens |-> {}]
NotReady == [status |-> "NONE", count |-> 0]
Unread == [p \in Posts |-> NoWords]
Idle == [pc |-> "idle", at |-> 0, todo |-> {}, read |-> Unread, deep |-> {}, known |-> <<>>,
         seen |-> {}, target |-> NoCluster, method |-> "NONE", cites |-> {}, count |-> 0]

Day(t) == t \div DaySpan
Days == 0..Day(Horizon)

Init ==
    /\ now = 0 /\ lock = Free
    /\ collected = {} /\ analysed = {} /\ caption = Unread
    /\ cluster = [c \in Clusters |-> Absent]
    /\ member = [p \in Posts |-> NotMember]
    /\ citation = {} /\ verdict = {}
    /\ readiness = [d \in Days |-> NotReady]
    /\ candidate = [d \in Days |-> {}]
    /\ task = [r \in Runs |-> Idle]
    /\ starts = 0 /\ faults = 0
    /\ exclusive = TRUE /\ placed = Unread /\ overwritten = {}

Live(r) == task[r].pc # "idle"

-----------------------------------------------------------------------------
(* The world around the runs. *)

\* The heartbeat timer fires in every tick.  The lease it asks for is counted
\* from the start of the run, so a renewal never moves lease_until.
Renew(r) ==
    /\ Live(r) /\ lock.run = r
    /\ lock.until > now /\ task[r].at + Lease > now
    /\ lock' = [lock EXCEPT !.until = task[r].at + Lease, !.beat = now]
    /\ lock' # lock
    /\ UNCHANGED <<world, tables, task, faults, history>>

Beating(r) == Live(r) /\ lock.run = r /\ lock.until > now => lock.beat = now

Tick ==
    /\ now < Horizon
    /\ \A r \in Runs : Beating(r)
    /\ now' = now + 1
    /\ UNCHANGED <<collected, caption, analysed, starts, lock, tables, task, faults, history>>

\* Collection and analysis are other functions; they run at their own times.
\* Each collection overwrites the caption it finds.
Collect(p) ==
    /\ PublishedAt[p] =< now
    /\ collected' = collected \cup {p}
    /\ \E found \in CaptionsOf[p] : caption' = [caption EXCEPT ![p] = found]
    /\ UNCHANGED <<now, analysed, starts, lock, tables, task, faults, history>>

\* An analysis that finds nothing adds nothing, and is left out.
Analyse(p) ==
    /\ p \in collected \ analysed
    /\ \E k \in DOMAIN FoundIn[p] : FoundIn[p][k] # {}
    /\ analysed' = analysed \cup {p}
    /\ UNCHANGED <<now, collected, caption, starts, lock, tables, task, faults, history>>

-----------------------------------------------------------------------------
(* Entering and leaving the lease. *)

\* try_acquire_intelligence_run: an expired lease is taken over, and expired
\* means expired at the instant the caller passes, the as_of of its chain.
Acquirable(at) == lock.run = NoRun \/ lock.until =< at

\* The as_of of a request lags behind the clock: it is that of its chain.
AsOfs == {t \in 0..now : t + MaxLag >= now}

\* A request takes the lease, or is refused: that one answers
\* already_running and changes nothing.
Start(r, at) ==
    /\ ~Live(r) /\ starts < MaxStarts
    /\ starts' = starts + 1
    /\ IF Acquirable(at)
       THEN /\ lock' = [run |-> r, until |-> at + Lease, beat |-> at]
            /\ task' = [task EXCEPT ![r] = [Idle EXCEPT !.pc = "announce", !.at = at]]
            /\ exclusive' = (exclusive /\ \A s \in Runs : ~Live(s))
       ELSE UNCHANGED <<lock, task, exclusive>>
    /\ UNCHANGED <<now, collected, caption, analysed, tables, faults, placed, overwritten>>

\* The answer of a call is there, or the call failed for the run although it
\* took effect: then the run goes to its error handler.
Proceed(r, t) ==
    \/ task' = [task EXCEPT ![r] = t] /\ UNCHANGED faults
    \/ /\ faults < MaxFaults /\ faults' = faults + 1
       /\ task' = [task EXCEPT ![r].pc = "failed"]

Fails(r) ==
    /\ Live(r) /\ task[r].pc \notin {"failed", "release"}
    /\ faults < MaxFaults /\ faults' = faults + 1
    /\ task' = [task EXCEPT ![r].pc = "failed"]
    /\ UNCHANGED <<world, lock, tables, history>>

\* The function's time is over: no handler runs and the lease stays.
Kill(r) ==
    /\ Live(r) /\ faults < MaxFaults /\ faults' = faults + 1
    /\ task' = [task EXCEPT ![r] = Idle]
    /\ UNCHANGED <<world, lock, tables, history>>

\* saveReadiness, an upsert by ranking date: the last writer of a day decides.
SaveReadiness(r, status, count) ==
    readiness' = [readiness EXCEPT ![Day(task[r].at)] = [status |-> status, count |-> count]]

Announce(r) ==
    /\ task[r].pc = "announce"
    /\ SaveReadiness(r, "RUNNING", 0)
    /\ Proceed(r, [task[r] EXCEPT !.pc = "posts"])
    /\ UNCHANGED <<world, lock, cluster, member, citation, verdict, candidate, history>>

\* The error handler: its own errors are swallowed.
ReportFailure(r) ==
    /\ task[r].pc = "failed"
    /\ task' = [task EXCEPT ![r].pc = "release"]
    /\ \/ SaveReadiness(r, "FAILED", 0) /\ UNCHANGED faults
       \/ faults < MaxFaults /\ faults' = faults + 1 /\ UNCHANGED readiness
    /\ UNCHANGED <<world, lock, cluster, member, citation, verdict, candidate, history>>

\* release_intelligence_run frees the caller's own lease only.
Released(r) == IF lock.run = r THEN Free ELSE lock

\* Release is best effort.
Release(r) ==
    /\ task[r].pc = "release"
    /\ task' = [task EXCEPT ![r] = Idle]
    /\ \/ lock' = Released(r) /\ UNCHANGED faults
       \/ faults < MaxFaults /\ faults' = faults + 1 /\ UNCHANGED lock
    /\ UNCHANGED <<world, tables, history>>

-----------------------------------------------------------------------------
(* What a run reads. *)

\* Posts of the last day, with their captions, and their analyses if those could be read.
ListRecentPosts(r) ==
    /\ task[r].pc = "posts"
    /\ LET recent == {p \in collected : PublishedAt[p] + SignalSpan >= task[r].at /\ PublishedAt[p] =< task[r].at}
       IN  \E deep \in {analysed, {}} :
             Proceed(r, [task[r] EXCEPT
                !.pc = "contexts", !.deep = deep, !.todo = recent,
                !.read = [p \in Posts |-> IF p \in recent THEN caption[p] ELSE NoWords]])
    /\ UNCHANGED <<world, lock, tables, history>>

MembersOf(c) == {p \in Posts : member[p].cluster = c}

\* What a run knows of a cluster: its row, and its members.
Context(row, members) ==
    [status |-> row.status, first |-> row.first, last |-> row.last, sig |-> row.sig,
     members |-> members]

\* Mutant: posts that have a cluster are taken up again.
ListClusterContextsOnly(r) ==
    /\ task[r].pc = "contexts"
    /\ Proceed(r, [task[r] EXCEPT
          !.pc = "post",
          !.known = [c \in {c \in Clusters : cluster[c].status # "ABSENT"} |->
                        Context(cluster[c], {})]])
    /\ UNCHANGED <<world, lock, tables, history>>

\* Clusters with their members; posts that have a cluster are done with.
ListClusterContexts(r) ==
    /\ task[r].pc = "contexts"
    /\ Proceed(r, [task[r] EXCEPT
          !.pc = "post",
          !.known = [c \in {c \in Clusters : cluster[c].status # "ABSENT"} |->
                        Context(cluster[c], MembersOf(c))],
          !.todo = {p \in task[r].todo : member[p].cluster = NoCluster}])
    /\ UNCHANGED <<world, lock, tables, history>>

-----------------------------------------------------------------------------
(* The pass over the posts, oldest first. *)

NextPost(r) ==
    CHOOSE p \in task[r].todo : \A q \in task[r].todo :
        PublishedAt[p] < PublishedAt[q] \/ (PublishedAt[p] = PublishedAt[q] /\ p =< q)

\* What a run knows of a post beyond its caption: a finished analysis, if it read it.
Understanding(r, p) ==
    IF p \in task[r].deep THEN FoundIn[p] ELSE [k \in DOMAIN task[r].read[p] |-> {}]

FeaturesOf(r, p) == ExtractFeatures(task[r].read[p], Understanding(r, p), PublishedAt[p])

\* A source is cited if it is one of the registered ones.
Cited(f) == f.words.sources \cap Registered

\* A post's relevance: an entity found in it counts as a signal.
PostRelevant(r, p) ==
    Relevant(SignalsOf[p] \cup (IF FeaturesOf(r, p).words.entities # {} THEN {"entity"} ELSE {}))

Near(p, k) ==
    LET d(t) == IF PublishedAt[p] > t THEN PublishedAt[p] - t ELSE t - PublishedAt[p]
    IN  d(k.first) =< SignalSpan \/ d(k.last) =< SignalSpan

Rivals(r, p) ==
    {c \in DOMAIN task[r].known :
        LET k == task[r].known[c]
        IN  /\ k.status # "ARCHIVED" /\ p \notin k.members
            /\ Near(p, k) /\ Prefilter(FeaturesOf(r, p), k.sig)}

\* The highest score, then the smaller id.
BestRival(r, p) ==
    CHOOSE c \in Rivals(r, p) : \A o \in Rivals(r, p) :
        LET score(x) == Score(FeaturesOf(r, p), task[r].known[x].sig)
        IN  score(c) > score(o) \/ (score(c) = score(o) /\ c =< o)

DecisionFor(r, p) ==
    IF Rivals(r, p) = {} THEN "SEPARATE"
    ELSE Decision(FeaturesOf(r, p), task[r].known[BestRival(r, p)].sig)

AtPost(r) == task[r].pc = "post" /\ task[r].todo # {}

\* Irrelevant posts stay raw posts; skipping one touches no table.
SkipPost(r) ==
    /\ AtPost(r) /\ ~PostRelevant(r, NextPost(r))
    /\ task' = [task EXCEPT ![r].todo = @ \ {NextPost(r)}]
    /\ UNCHANGED <<world, lock, tables, faults, history>>

\* createCluster, its membership still to come.
CreateClusterFor(r, t) ==
    LET p == NextPost(r)
        f == FeaturesOf(r, p)
        new == [status |-> "OPEN", first |-> f.at, last |-> f.at, sig |-> SeedSignature(f)]
    IN  \E c \in Clusters :
          /\ cluster[c].status = "ABSENT" /\ \A o \in Clusters : o < c => cluster[o].status # "ABSENT"
          /\ cluster' = [cluster EXCEPT ![c] = new]
          /\ Proceed(r, [t EXCEPT !.pc = "member", !.target = c, !.method = "SEED"])

OpenStory(r) ==
    /\ AtPost(r) /\ PostRelevant(r, NextPost(r))
    /\ DecisionFor(r, NextPost(r)) = "SEPARATE"
    /\ CreateClusterFor(r, task[r])
    /\ UNCHANGED <<world, lock, member, citation, verdict, readiness, candidate, history>>

\* move_story_cluster_member: the citations that rest on the post go with it.
MoveCitations(p, old, c) ==
    LET mine == {x \in citation : x.cluster = old /\ x.post = p}
        twin(x) == {y \in citation : y.cluster = c /\ y.source = x.source}
    IN  (citation \ (mine \cup UNION {twin(x) : x \in mine}))
        \cup {IF twin(x) = {} THEN [x EXCEPT !.cluster = c]
              ELSE LET y == CHOOSE y \in twin(x) : TRUE
                   IN  [y EXCEPT !.count = @ + x.count] : x \in mine}

\* The table's key: a citation rests on a post of its own cluster.
Citable(c, p) == member[p].cluster = c

\* Mutant: the citations of a moved post stay where they were.
UpsertMembershipOnly(r, p, c, method, sig) ==
    /\ member' = [member EXCEPT ![p] =
            [cluster |-> c, method |-> IF MembersOf(c) = {} THEN "SEED" ELSE method]]
    /\ cluster' = [cluster EXCEPT ![c] = [@ EXCEPT
            !.sig = sig, !.first = Min({cluster[c].first, PublishedAt[p]}),
            !.last = Max({cluster[c].last, PublishedAt[p]})]]
    /\ UNCHANGED citation

\* Mutant: the method is the caller's, also for the first member.
UpsertMembershipUnseeded(r, p, c, method, sig) ==
    /\ member' = [member EXCEPT ![p] = [cluster |-> c, method |-> method]]
    /\ cluster' = [cluster EXCEPT ![c] = [@ EXCEPT
            !.sig = sig, !.first = Min({cluster[c].first, PublishedAt[p]}),
            !.last = Max({cluster[c].last, PublishedAt[p]})]]
    /\ citation' = (IF member[p].cluster \in {NoCluster, c} THEN citation
                    ELSE MoveCitations(p, member[p].cluster, c))

\* upsert_story_cluster_member: the first member of a cluster seeds it, and the
\* signature is the caller's, whatever it is by now.
UpsertMembership(r, p, c, method, sig) ==
    LET known == cluster[c]
        first == MembersOf(c) = {}
        old == member[p].cluster
    IN  /\ member' = [member EXCEPT ![p] =
                [cluster |-> c, method |-> IF first THEN "SEED" ELSE method]]
        /\ citation' = (IF old \in {NoCluster, c} THEN citation ELSE MoveCitations(p, old, c))
        /\ cluster' = [cluster EXCEPT ![c] = [known EXCEPT
                !.sig = sig,
                !.first = Min({known.first, PublishedAt[p]}),
                !.last = Max({known.last, PublishedAt[p]})]]

\* The run's own picture of the clusters, and the citations it will write.
Learned(r, p, c, sig) ==
    LET t == task[r]
        f == FeaturesOf(r, p)
        was == IF c \in DOMAIN t.known THEN t.known[c]
               ELSE [status |-> "OPEN", first |-> f.at, last |-> f.at,
                     sig |-> sig, members |-> {}]
        is == [status |-> was.status, first |-> Min({was.first, f.at}),
               last |-> Max({was.last, f.at}), sig |-> sig, members |-> was.members \cup {p}]
        cited(s) == {x \in t.cites : x.cluster = c /\ x.source = s}
        more == {IF cited(s) = {} THEN [cluster |-> c, source |-> s, post |-> p, count |-> 1]
                 ELSE [(CHOOSE x \in cited(s) : TRUE) EXCEPT !.count = @ + 1] :
                 s \in Cited(f)}
    IN  [t EXCEPT !.pc = "post", !.todo = @ \ {p}, !.seen = @ \cup {c},
                  !.known = [o \in DOMAIN @ \cup {c} |-> IF o = c THEN is ELSE @[o]],
                  !.cites = (@ \ UNION {cited(s) : s \in Cited(f)}) \cup more,
                  !.target = NoCluster, !.method = "NONE"]

\* A story the run opened has posts, or the signature it has read is not the row's any more.
Outdated(r, c, method) ==
    IF method = "SEED" THEN MembersOf(c) # {} ELSE cluster[c].sig # task[r].known[c].sig

MembershipOf(r, p, c, method, sig) ==
    /\ UpsertMembership(r, p, c, method, sig)
    /\ placed' = [placed EXCEPT ![p] = task[r].read[p]]
    /\ overwritten' = (IF Outdated(r, c, method) THEN overwritten \cup {c} ELSE overwritten)
    /\ Proceed(r, Learned(r, p, c, sig))
    /\ UNCHANGED <<world, lock, verdict, readiness, candidate, exclusive>>

\* A clear match joins the story at once.
JoinStory(r) ==
    /\ AtPost(r) /\ PostRelevant(r, NextPost(r))
    /\ DecisionFor(r, NextPost(r)) = "AUTO_MERGE"
    /\ LET p == NextPost(r)
           c == BestRival(r, p)
       IN  MembershipOf(r, p, c, "DETERMINISTIC",
                        MergeSignature(task[r].known[c].sig, FeaturesOf(r, p)))

\* The membership of a new story, or of one the model has agreed to.
SettleStory(r) ==
    /\ task[r].pc = "member"
    /\ LET p == NextPost(r)
           c == task[r].target
           f == FeaturesOf(r, p)
       IN  MembershipOf(r, p, c, task[r].method,
               IF task[r].method = "AI" THEN MergeSignature(task[r].known[c].sig, f)
               ELSE SeedSignature(f))

\* saveEvaluation: the first verdict on an input stays.
Recorded(p, c, input, v) ==
    IF \E x \in verdict : x.post = p /\ x.cluster = c /\ x.input = input THEN verdict
    ELSE verdict \cup {[post |-> p, cluster |-> c, input |-> input, decision |-> v]}

\* What comes of an answer: the verdict, or ERROR when its record failed.
Persisted(answer, saved) == IF saved = "yes" THEN Verdict(answer) ELSE "ERROR"

\* An ambiguous match is put to the model and its verdict recorded.  If the call
\* fails, whether or not the row is there, the verdict is ERROR, which is recorded
\* in a second attempt.
AskClassifier(r) ==
    /\ AtPost(r) /\ PostRelevant(r, NextPost(r))
    /\ DecisionFor(r, NextPost(r)) = "AMBIGUOUS"
    /\ LET p == NextPost(r)
           c == BestRival(r, p)
           input == <<FeaturesOf(r, p), task[r].known[c].sig>>
       IN  \E answer \in Answers, saved \in {"yes", "lost", "no"} :
             LET v == Persisted(answer, saved)
             IN  /\ saved = "yes" \/ faults < MaxFaults
                 /\ verdict' = Recorded(p, c, input, IF saved = "no" THEN v ELSE Verdict(answer))
                 /\ faults' = faults + (IF saved = "yes" THEN 0 ELSE 1)
                 /\ task' = [task EXCEPT ![r] =
                       CASE v = "SAME_STORY" ->
                              [@ EXCEPT !.pc = "member", !.target = c, !.method = "AI"]
                         [] v = "DIFFERENT_STORY" -> [@ EXCEPT !.pc = "split"]
                         [] OTHER -> [@ EXCEPT !.todo = task[r].todo \ {p}]]
    /\ UNCHANGED <<world, lock, cluster, member, citation, readiness, candidate, history>>

SplitStory(r) ==
    /\ task[r].pc = "split"
    /\ CreateClusterFor(r, task[r])
    /\ UNCHANGED <<world, lock, member, citation, verdict, readiness, candidate, history>>

-----------------------------------------------------------------------------
(* The end of a run. *)

\* upsertClusterSources, row by row: a row replaces the one of its key, and the
\* key of its post must be there.
CiteSource(r) ==
    /\ task[r].pc = "post" /\ task[r].todo = {}
    /\ \E x \in task[r].cites :
         LET t == [task[r] EXCEPT !.cites = @ \ {x}]
         IN  IF Citable(x.cluster, x.post)
             THEN /\ citation' = {y \in citation : y.cluster # x.cluster \/ y.source # x.source}
                                 \cup {x}
                  /\ Proceed(r, t)
             ELSE /\ task' = [task EXCEPT ![r].pc = "failed"]
                  /\ UNCHANGED <<citation, faults>>
    /\ UNCHANGED <<world, lock, cluster, member, verdict, readiness, candidate, history>>

\* calculate_priority_candidates: every status by its age, then a candidate row
\* for each cluster of the last day.  Rows of the day are added, never removed.
CalculateCandidates(r) ==
    LET at == task[r].at
        aged(c) == IF cluster[c].status = "ABSENT" THEN cluster[c]
                   ELSE [cluster[c] EXCEPT !.status =
                           Lifecycle(@, cluster[c].last, Cardinality(MembersOf(c)), at)]
        fresh == {c \in Clusters : /\ aged(c).status \notin {"ABSENT", "ARCHIVED"}
                                   /\ cluster[c].first + SignalSpan >= at
                                   /\ cluster[c].first =< at}
    IN  /\ task[r].pc = "post" /\ task[r].todo = {} /\ task[r].cites = {}
        /\ cluster' = [c \in Clusters |-> aged(c)]
        /\ candidate' = [candidate EXCEPT ![Day(at)] = @ \cup fresh]
        /\ Proceed(r, [task[r] EXCEPT !.pc = "succeed", !.count = Cardinality(fresh)])
        /\ UNCHANGED <<world, lock, member, citation, verdict, readiness, history>>

Succeed(r) ==
    /\ task[r].pc = "succeed"
    /\ SaveReadiness(r, "SUCCEEDED", task[r].count)
    /\ Proceed(r, [task[r] EXCEPT !.pc = "release"])
    /\ UNCHANGED <<world, lock, cluster, member, citation, verdict, candidate, history>>

-----------------------------------------------------------------------------
RunStep(r) ==
    \/ Announce(r) \/ ListRecentPosts(r) \/ ListClusterContexts(r)
    \/ SkipPost(r) \/ OpenStory(r) \/ JoinStory(r) \/ AskClassifier(r)
    \/ SplitStory(r) \/ SettleStory(r)
    \/ CiteSource(r) \/ CalculateCandidates(r) \/ Succeed(r)
    \/ ReportFailure(r) \/ Release(r)

Next ==
    \/ Tick
    \/ \E p \in Posts : Collect(p) \/ Analyse(p)
    \/ \E r \in Runs :
         \/ \E at \in AsOfs : Start(r, at)
         \/ Renew(r) \/ Fails(r) \/ Kill(r) \/ RunStep(r)

Spec == Init /\ [][Next]_vars

-----------------------------------------------------------------------------
(* What the runs must keep. *)

Citations == [cluster : Clusters, source : Terms, post : Posts, count : Nat \ {0}]

\* Every table and every invocation is of its type.
TypeOK ==
    /\ now \in 0..Horizon
    /\ lock.run \in Runs \cup {NoRun}
    /\ analysed \subseteq collected /\ collected \subseteq Posts
    /\ \A c \in Clusters : cluster[c].status \in {"ABSENT", "OPEN", "ACTIVE", "STALE", "ARCHIVED"}
    /\ \A c \in Clusters : cluster[c].sig \in Signature
    /\ member \in [Posts -> [cluster : Clusters \cup {NoCluster}, method : Methods]]
    /\ citation \subseteq Citations
    /\ \A x \in verdict : x.decision \in Verdicts
    /\ candidate \in [Days -> SUBSET Clusters]
    /\ \A r \in Runs : task[r].todo \subseteq Posts /\ task[r].seen \subseteq Clusters

\* A citation rests on a post of the cluster that cites, however the post came
\* there and whichever run moved it.
CitationsBelong == \A x \in citation : member[x.post].cluster = x.cluster

\* A story's signature covers the captions of all its posts, each as the run had read it
\* that placed the post, unless a run has written the story that did not know it as it was
\* by then; and while the lease excludes, no run does.
SignaturesCoverMembers ==
    /\ \A p \in Posts :
         LET c == member[p].cluster
         IN  c # NoCluster /\ c \notin overwritten =>
               \A k \in {"entities", "events", "sources", "numbers"} :
                   placed[p][k] \subseteq cluster[c].sig[k]
    /\ exclusive => overwritten = {}

\* Not so: a signature follows the captions there are.  A post that has a story is not
\* looked at again, and what its caption says since then is in no signature.
SignaturesFollowCaptions ==
    exclusive => \A p \in Posts :
        member[p].cluster # NoCluster =>
            caption[p].events \subseteq cluster[member[p].cluster].sig.events

\* While the lease excludes, a story has exactly one seed, though runs are killed
\* between the cluster and its first membership.
SeededOnce ==
    exclusive => \A c \in Clusters :
        MembersOf(c) = {} \/ Cardinality({p \in MembersOf(c) : member[p].method = "SEED"}) = 1

\* While the lease excludes, a post stays in the story a run has put it into; only an
\* operator moves posts by hand, which no run does.
MembersStay ==
    [][exclusive' => \A p \in Posts : member[p].cluster # NoCluster => member'[p] = member[p]]_vars

\* Not so: two runs are never in the lease at once.  The renewal asks for the
\* lease the run started with, and a request is judged by its own as_of.
RunsExclude == exclusive
==============================================================================
