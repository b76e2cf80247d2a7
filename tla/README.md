# Verification of the Manchester United editorial pipeline

The repository is a set of Supabase edge functions (TypeScript), Postgres
functions (SQL migrations) and a few GitHub workflow scripts (Python) that
collect football news, cluster and score it, write creative briefs with a
language model and talk to one editor through Telegram and Notion.  Everything
that is hard about it happens between processes: edge functions are started by
cron, by webhooks and by each other, overlap, are killed when their time is
over, lose responses, and share nothing but database rows.  These TLA+ modules
model those rows and the code that changes them.

Contents: 1 the system, 2 what is hard in it, 3 modules, 4 runs, 5 fairness,
6 proofs, 7 disagreements found, 8 what is not modelled, 9 plan.

## 1. The system

The pipeline, in the order a story takes through it: Instagram accounts are
collected and their posts analysed; the intelligence run puts posts into
stories; feeds and search providers are read for sources and trends; what
trend discovery found is promoted into stories; the claims of stories are
grounded in the sources; stories are ranked; briefs are generated for the ones
at the top; and the editor is told.  One queue drives all of it.

| component | state | operations | used by |
|---|---|---|---|
| Editorial job queue (`migrations/20260926143105…`, `20261002123714…`) | `app_private.editorial_jobs`: status, attempts, lock, availability, payload | enqueue, claim, complete, fail | schedules, orchestration worker |
| Payload handoff (`20260929170549…`) | the promotion job's payload | `update_editorial_job_payload` | orchestration worker |
| Dead-job alerts (`20260926155618…`) | `editorial_job_dead_alerts`, `telegram_alert_events` | trigger on DEAD, later materialisation | queue, telegram-alerts |
| Schedules (`20260929150000…`, `20261002123714…`) | none: keys are time buckets | enqueue a chain's root job | pg_cron |
| Orchestration worker (`functions/orchestration-worker`) | none beyond its running requests | poll: claim, invoke a stage, save the handoff, enqueue successors, complete or fail | pg_cron, stages by HTTP |
| Instagram collection (`functions/collect-instagram`, `20260917091315…`, `20260917120350…`) | `raw_posts`, `post_metric_snapshots`, `media_assets`, a storage bucket, `source_accounts.api_supported` | fetch and store an account, cache pictures | queue |
| Content analysis (`functions/analyze-content`) | `content_understandings` | list, read pictures, ask the model, save | queue |
| Intelligence run (`functions/intelligence`, `20260918150000…`, `20261017054421…`) | `intelligence_run_lock`, stories, memberships, citations, verdicts, candidates, readiness | lease with heartbeat, cluster, score | queue |
| Source discovery (`functions/source-discovery`) | `source_observations` | read feeds, insert, patch | queue |
| Trend discovery (`functions/trend-discovery`) | `discovery_observations`, `trend_snapshots` | expand queries, search, merge, enrich, cluster, store | queue |
| Promotion (`functions/promote-discovery`) | stories, assignments, claims of discoveries and of publishers' reports | list, match, assign, claim | queue |
| Claim grounding (`functions/ground-claims`) | `story_claims`, `claim_evidence` | one page of claims | queue |
| Editorial ranking (`functions/rank-editorial`) | `editorial_rankings`, `content_candidates` | read, clear, write | queue |
| Google News resolver (`20261011174908…`, `functions/gnews-resolver-api`, `scripts/gnews_resolver_worker.py`) | `discovery_observations` rows, `gnews_article_url_cache`, a global cooldown | claim and complete a batch | GitHub workflow, two schedules |
| Creative generation (`functions/creative-generation`, `20260918170000…`, `20260918171000…`, `20261012124210…`) | `creative_generation_jobs`, `creative_briefs` | reserve, lookup, insert, lease, classify, generate, check, repair, store | priority and selected triggers, Telegram console |
| Story and digest alerts (`telegram-alerts/editorial_alerts.ts`, `editorial_digest.ts`) | `telegram_story_alert_state`, `telegram_alert_events` | decide, insert event, save state | telegram-alerts |
| Telegram alert delivery (`_shared/m6/alerts.ts`, `functions/telegram-alerts`) | `telegram_alert_events` | list, send, mark | job chains |
| Notion synchronisation (`functions/notion-sync`, `sync-notion-intelligence`) | Daily Intelligence pages, `notion_sync_state` | list candidates and states, create or update pages, save states | queue |
| Creative brief projection (`functions/project-notion`, `20260926155618…`, `20260918170000…`) | production pages, `creative_pipeline_sync_state` | trigger of a READY brief, one job per brief | queue |
| Telegram agent and console (`functions/telegram-agent`, `_shared/m6`) | threads, messages, console state | one webhook update each | Telegram |
| Morning brief, fixture sync, match calendar | briefings, fixtures, Notion pages | daily | queue |
| M9 previews (`20261011153619…` and later, `scripts/m9_*.py`) | preview jobs, claims, albums | claim, render, send | console, GitHub workflow |

What makes each correct:

- **Queue**: one row per key; a lock exactly while RUNNING; a worker loses a job
  only after a full lease; a finished job never changes; death and its notice
  are one step.
- **Handoff**: saved once, never changed, and with the snapshot time the chain
  was started with; every grounding page is scoped by it.
- **Worker**: no chain is cut between a stage and its successor, whatever call
  is lost and whoever takes over; every job ends.
- **Collection**: a picture said to be cached is in the bucket; snapshots are
  as far apart as a post's age asks.
- **Analysis**: what a run listed and reports done is analysed; a good analysis
  stays.
- **Intelligence**: a post stays in its story; citations belong to the story of
  their post; a story's signature covers its posts, in the words they were
  placed by; ready means the candidates are there.
- **Discovery and promotion**: an item is a mention once; a claim is of the
  story its observation has; a promotion that is done has completed what earlier
  attempts of it began.
- **Grounding**: the pages of a chain visit every claim; a claim's status is
  what its evidence says, once the one chain at work on it is done.
- **Ranking**: the table is one run's list.
- **Resolver**: an article is with one run at a time; rows of one article agree
  on its URL; what is resolved stays so; no row gets stuck.
- **Creative generation**: one brief per fingerprint, never replaced;
  consecutive revisions; a finished job has its brief; leases exclude; the
  claims of stored news say no more than verified sources (of the copy around
  them nothing is known: section 7).
- **Notion**: one page per candidate and day, but for those that a lost answer, a
  lost save, a kill or a second run at the same candidate has made; a page that is
  skipped is up to date, unless two runs have met at it; Daily Intelligence catches
  up; a projected brief is on the page its row names.
- **Alerts**: an announced rise is in the outbox; SENT means delivered; a
  digest on time repeats nothing that one of the 24 before it told.  That every
  event is delivered or given up is not checked, and an event behind one that is
  always reopened is not.

## 2. What is hard

The list with source lines is `hazards` in `PROJECT.json`.  In short: overlap
of two runs over the same rows (worker requests, intelligence runs, promotion
jobs, resolver runs, generation triggers, alert deliveries); a run slower than
its lease that goes on writing; a call whose effect happened and whose response
was lost; a function killed between two calls that belong together (a cluster
and its first post, a claim and its evidence, an assignment and its claim, an
event and the state that says it was told); state that was read, then used
after other runs changed it; cursors and budgets that end a page in the middle
of something; limits at their boundary; and the things that must eventually
happen although any single run may be killed.

## 3. Modules

| module | models | composes |
|---|---|---|
| `JobLifecycle` | abstract specification: the life of a job, without clock, leases, payload and order | – |
| `EditorialQueue` | the queue's RPCs under callers that may do anything | refines `JobLifecycle` |
| `OrchestrationWorker` | the worker's requests, step by step, over the queue, and the schedules' root jobs | extends `EditorialQueue` |
| `GNewsResolver` | claim and complete RPCs, and the worker runs that call them | – |
| `InstagramPayload` | what collecting makes of Meta's answers | – |
| `InstagramCollection` | collection runs and the media cache | extends `InstagramPayload` |
| `ContentAnalysis` | analysis runs beside the collection they read from | extends `InstagramCollection` |
| `Relevance` | the deterministic gate against other clubs and sports | – |
| `StoryMatching` | features, signatures, the weighted score, the verdict of rules and model | – |
| `IntelligenceRun` | the lease and the run, call by call | extends `StoryMatching`, `Relevance` |
| `QueryExpansion`, `TrendScoring` | the queries of a discovery run; the score of a cluster | – |
| `TrendDiscovery` | discovery runs | extends both, and `Relevance` |
| `Promotion` | promotion jobs over what discovery stored | extends `TrendDiscovery` |
| `EvidenceMatching` | the matcher: sentence, grounding, status | – |
| `SourceDiscovery` | reading the feeds | extends `EvidenceMatching` |
| `GroundingPages` | pages and cursors | – |
| `Grounding` | chains of grounding jobs beside source discovery and a promotion | extends the three above |
| `EditorialRanking` | ranking runs over what grounding left | extends `Grounding` |
| `BriefRules` | evidence, classification, exploration checks | – |
| `BriefGate` | the quality gate | extends `BriefRules` |
| `CreativeGeneration` | `runCreativeGeneration` call by call, reservation and lease RPCs | extends `BriefGate` |
| `AlertDispatch` | overlapping delivery runs over the alert outbox | – |
| `StoryAlerts` | story alerts and digests, and their delivery | extends `AlertDispatch` |
| `NotionSync` | sync runs over candidates, states and Notion's pages | – |
| `NotionProjection` | projection jobs beside the sync | extends `NotionSync` |
| `OrchestrationWorker_proof`, `ContentAnalysis_proof`, `IntelligenceRun_proof`, `EditorialRanking_proof`, `CreativeGeneration_proof`, `StoryAlerts_proof`, `NotionProjection_proof` | theorems | extend the module named |
| `Discovery_proof` | theorems about the resolver, discovery and promotion | extends `GNewsResolver`, `Promotion` |
| `MC…` | the small instances TLC checks | extend the module named |

An SQL function is one action: each runs in one transaction and locks or
upserts the rows it decides on (`for update skip locked`, unique indexes, one
conditional `update`).  In TypeScript and Python an action is the code between
two awaited calls.  Texts are what the code finds in them: sets of words,
patterns or vocabularies, never characters.

**EditorialQueue.**  `jobs` is the table, by dedupe key (unique).  `Enqueue`,
`Claim`, `Complete`, `Fail`, `UpdatePayload` are the RPCs with the guards of
their `where` clauses; `Fail` includes the trigger `RecordDeadAlert`.  Callers
are unrestricted: any worker may call any RPC for any job at any time, so stale
callers are included.  A payload is what some guard or successor reads: the
snapshot time `as_of`, the story ids, the saved handoff.  The materialisation
writes an event for every recorded alert without one, whether or not an owner
thread exists now, because its caller passes the thread.

**OrchestrationWorker.**  `task[w][j]` is where request `w` stands with job
`j`: invoke, handoff, enqueue, complete, fail.  `...Lost` actions are calls
that fail for the caller, with and without their effect; `...Rejected` are
refusals by the queue; `Crash` ends a request.  `NEXT_STAGE` and the
transitions of promotion and grounding are the code's; a chain is followed
through the stages that have a key in `Jobs`.  A stage's work is its answer.
Promotion reports any nonempty set of stories, or none; grounding ends or
continues at a later cursor.

**GNewsResolver.**  Timestamps are kept as the time left, so no clock grows.
`ClaimBatch` first resolves open rows from the cache and takes back expired
leases, then leases at most one row per article.  `CompleteBatch` is all or
nothing and also resolves an article's other open rows.  A claim takes RSS rows
whose whole URL is that of an article (`Claimable`) and whose time is in the
mode's span (`age`; one that is published in the future is in neither); the
trigger that makes a row PENDING looks at the beginning of the URL alone.
`Abandon` stands for every way a run writes nothing: killed, refused
(`LEASE_EXPIRED`, `INVALID_COOLDOWN_STATE`), call lost.  The reported outcomes are
those the worker script and the API admit: a cooldown exactly when a 429 is
reported.

**InstagramCollection, ContentAnalysis.**  `remote` is what Instagram shows;
captions are edited and the access token expires under the runs.  A collection
fetches (with the client's retries), stores an account in one transaction
(post, snapshot if due, media rows) and then caches the pictures: a plan, one
upload each, one finalisation per account.  An analysis works from the list it
read at its start; a row of `understanding` is identified by post and input
fingerprint, which here is the input itself (caption, pictures).  Two history
variables remember that runs overlapped and that a save's answer was lost, the
two cases in which the code does replace a good analysis.

**IntelligenceRun.**  A `task` holds what its run read: the post it is at, the
contexts of all clusters, its pending sources.  The order of calls is the
code's: create the cluster, membership, signature, and only after the last post
the sources and candidates.  `UpsertMembership` includes the RPC that moves a
post's citations with it.  The lease is judged by the caller's `as_of`, the
renewal by the database's clock.  `exclusive` remembers that no two runs have
been in the lease at once; properties that only a working lease gives are
stated under it.  Collections replace a post's caption under the runs (`Collect`); a
post that has a story is not read again, so `placed` remembers the words it was put
there by, and `overwritten` the stories that a run wrote from a reading of them that
was no longer true.

**TrendDiscovery, Promotion.**  A list of items is a set of entries, an item
with the place where it stands (provider, query, and place in the answer), so
that merging and clustering need no recursion.  A run asks every provider every
query; an outage is a set of tasks that fail.  `Merged` keeps an item where it was
found first; enrichment replaces its text.  `ClusterFor` says which entry leads
the cluster of an entry, given those before it, as the loop of `clustering.ts`
does; `ClusterObservations` takes the solutions of that equation, and
`MCDiscovery` checks that there is one and that it is what the loop, written as a
fold, makes (`ClusteringIsTheLoop`).  An observation row remembers the run that
saw it last (`seen`).  A promotion job lists unassigned observations and those of
its own id, among those not seen again after its `as_of` (`covers`: the runs whose
rows it may list, all of them for a job that takes the time anew at each
attempt), clusters them, finds or makes a story, and writes report claims,
assignment and discovery claim as three steps for each item.  The first comes before
it is known who gets the observation: `forsaken` remembers the report claims of jobs
that were refused it, or killed before they asked.  Story keys and
titles are what matching reads.

**GroundingPages, Grounding, EditorialRanking.**  `Page` gives what one call of
`listClaims` returns, with both scan budgets and all four kinds of cursor.  A job
reads page and observations, classifies, and writes claim by claim: `UpsertClaim`,
`UpsertEvidence`, `DeleteStale`.  A killed job starts again at its cursor; the
chain's `as_of` fixes which rows are visible.  Beside it sources are discovered
and the promotion of a publisher's article, which may be done again, resets its
claim.  `torn` remembers what a claim has suffered since one chain last wrote it
alone: a chain killed at it, a promotion, another chain at it at once.  What a
source says is a text: sentences in order, each with the share of a claim's words
it has.  A ranking run reads, clears, and upserts in any order.  CONTRADICTS is
never written by the code, so CONTRADICTED is unreachable although the design
(`2026-09-27-milestone-8-phase-b-c…:60-64`) has it.

**CreativeGeneration.**  `jobs` and `briefs` by input fingerprint; a run's `pc`
is its next repository or provider call and `at` the `runAt` it passes as its
clock.  A fingerprint freezes the story's rows (`RowsOf`), which `BriefRules`
turns into evidence; the provider answers anything in `Answers`, which
`BriefGate` checks and which may be repaired once.  FAILED stands for the
failure statuses, which no guard tells apart.

**AlertDispatch, StoryAlerts.**  `alert` is the outbox, `listed` what a run read,
`messages` what reached the chat.  A send may be delivered and yet fail for the
caller.  `StoryAlerts` puts the rows there: a run reads all rows it decides from
once, then for each story inserts the event and saves the state; a failure among
story alerts is swallowed and the run delivers all the same, one of the digest
ends it.  A digest leaves out what is in the last `SentLimit` digests that were
marked SENT (24 in the code, `index.ts:176`); `sentAt` is the order in which they
were.  Time is in hours.  `scanCandidateAlertTransitions` and
`materializeIntelligenceCompleteAlert` have no caller and are left out.

**NotionSync, NotionProjection.**  `candidate` is what ranking wrote (a version
for its payload, and whether it is curated), `pages` what Notion has, `state` the
row of `notion_sync_state`.  A run reads candidates and states once and then takes
identity by identity: `Creates` or updates (`Apply`), hears (`Answered`), asks
again (`Retried`) or gives up (`Refused`), and saves (`Save`, `SaveFailure`). A
lost answer leaves the effect; a `Cut` ends the run.  Runs overlap at will:
nothing in `notion-sync/orchestrator.ts` or the queue keeps apart the jobs of two
chains (`worker.ts:271`).  `meets` counts how often a run has taken up an identity
that another one still had to do.  A hash stands for the payload it is computed
from, which includes `calculated_at`, so a candidate's contents never come back
after they changed (`Calculate` is the ranking of a candidate by the intelligence
run and the patch of it by `rank-editorial`, which stamps `calculated_at` as well:
`repository.ts:181-183`).  A projection job reads brief and existing row, writes
the production page, appends blocks, saves its row, and links the daily page.
LOCKED and APPROVED production pages are written by people only and are left out.

## 4. Runs

| run | question | bounds, and why they are enough |
|---|---|---|
| `EditorialQueue` | is the queue consistent, and does it implement `JobLifecycle`, under any callers? | two jobs (one a promotion), two workers, lease 2, at most 3 claims, 4 instants: a takeover, a retry, a late call of the former owner and a death all fit; the proofs of section 6 lift the bounds |
| `OrchestrationDiscovery` | is a discovery chain cut, or do two handoffs mix? | five jobs with one continuation page, two workers, two attempts, one fault, lease 1: a takeover needs no fault, so takeover and fault combine |
| `OrchestrationLiveness` | does every job end? | a two-stage chain, two attempts, three claims, one fault; the clock's horizon is beyond every delay that can add up |
| `GNewsResolver` | are articles, cache and rows consistent, and does every row settle? | two rows of one article and a third of it that can never be claimed, rows too early to be claimed, two URLs, two runs, the code's three attempts, batches of two, a cooldown and both delays: duplicates, conflicting URLs, late reports, exhaustion and a row settled by the cache alone all occur |
| `ContentAnalysis` | do pictures, snapshots and analyses stay right when collections and analyses overlap? | one carousel of two slides, two captions, two collections and two analyses, one fault, one change of caption or token, one asset per run (so an asset waits); an action constraint lets the world change only between analyses, which read none of it, and keeps collections apart once analyses run |
| `IntelligenceRun` | what survives kills and a lease taken over? | two posts (so that the second may join, move or split), of which the second's caption is edited once after it has a story, three clusters, two runs, one fault, lease 2, four instants, one business day |
| `Discovery` | are mentions counted once, and is a promotion done whole? | three items of two providers of which one title resembles both others, two discovery runs, two promotion jobs with three attempts in all, of which one takes its time anew and is whole (`OneJobIsWhole`) and the other keeps the time of the first run, one kill of each kind, of the first job where that leaves something half done or unannounced; steps no other run can see are taken first, and the second job lists in one order |
| `Grounding` | do the pages cover the claims, does status match evidence, is the ranking one run's? | two posts with repeated claims, a discovery and a report, pages of one and two claims with both budgets small, two chains that may overlap, one kill, two source runs, two promotions of one report, two ranking runs and one change of relevance; an action constraint leaves out what grounding cannot see, and the meetings of overlap with kills or promotions |
| `GroundingPages` | section 7, finding 1 | two posts of one claim each, a page of one, a budget of two analyses |
| `CreativeGeneration` | are briefs, revisions, leases and news right, whatever overlaps? | two explorations and two standard fingerprints of one candidate (one without a verified source), five answers, among them news whose copy confirms what its claims leave open and news whose claims do, two requests at once, three in all, three instants, a lease of one |
| `StoryAlerts` | is what was announced told, once in a cooldown, and are digests disjoint? | one story that rises, breaks or is verified; two runs, three events, one fault, four hours, cooldown and window of one, a digest compared with one before it: the third digest may tell again what the first told; the last window and read are for it alone |
| `Notion` | does Daily Intelligence follow the candidates, and are projected briefs on their pages? | one story over two days; two sync runs that may overlap, the second begun beside the first and before there are briefs; three changes in all, each a calculation of one of the two candidates or a brief of one, two briefs of one candidate among them (their jobs share its page); two attempts of a request, one fault (a kill, a lost call or a late run) or one meeting of the runs at an identity; the listing limit is never reached |

Deadlock is not checked: the clocks and the counts of claims, runs and faults
are bounded, so every model may come to a natural end.  Symmetry is used for
workers, runs and values that no property tells apart, in safety runs only.
`GroundingPages` expects a violation; all other runs pass.

Names of bounds: `Horizon` (clock), `MaxClaims` (claims of a job; the code has
none, see below), `MaxFaults`, `MaxKills`, `MaxRunKills`, `MaxPromotionKills`
(lost calls and kills), `MaxStarts`, `MaxReads`, `MaxCollections`,
`MaxAnalyses`, `MaxChains`, `MaxSourceRuns`, `MaxPromotions`,
`MaxPromotionRuns`, `MaxRankings` (runs of each kind), `MaxChanges`, `MaxTurns`
(changes of the world), `MaxLag` (how old a caller's `as_of` may be),
`MaxStories`, `MaxRows` (ids), `MaxMessages` (a saturating counter).

`MaxClaims` deserves a word.  `claim_editorial_jobs` never looks at
`max_attempts`, so a job whose worker is killed every time is claimed for ever.
The models bound claims and keep a worker from abandoning a job in its last
allowed claim (`MayAbandon`); liveness is stated for finitely many faults.

The action constraints of `MCContentAnalysis`, `MCGrounding`, `MCDiscovery`,
`MCIntelligenceRun`, `MCGNewsResolver`, `MCStoryAlerts` and `MCNotionProjection`
order steps that commute, or leave out combinations to keep the instance small;
each is explained where it is defined.  The proofs know none of them.

Every property of a passing run has a mutant of the code that breaks it
(`mutants` in `PROJECT.json`; the mutated definition stands next to the
original in its module).

## 5. Fairness

- `OrchestrationLiveness`: cron polls every minute (weak fairness of claiming),
  a request that is not killed makes its next call (weak fairness of each job's
  step), time passes.  Faults have no fairness.
- `GNewsResolver`: each of the two workflow schedules, recent and backfill,
  runs again and again (strong fairness: cooldowns and leases disable a claim
  in between); a run reports or is over (weak fairness of the two together, so
  it may be killed every time); time passes, and the time a row was published at
  comes.  A row that no claim may take is not said to settle.
- `Notion`: each run that is not killed goes on, and when none is at work the
  hourly chain ends with another (weak fairness of a run's next call, or of its
  start on time while no run is live).  Late runs, runs that start beside another,
  projection jobs and faults have none.

The safety properties use no fairness.

## 6. Proofs

The theorems hold for any values of the constants that satisfy the assumptions
named in the modules: any sets of jobs, runs, stories, pages and pictures, any
attempts, leases, limits and numbers of faults.  The runs of section 4 show the
same properties on small instances.

| module | theorems | of which state a property of a run |
|---|---|---|
| `OrchestrationWorker_proof`, on the queue | `QueueTyping`, `LocksAreExact`, `DeathsAreAlerted`, `HandoffsKeepRootSnapshot`, `OwnershipIsRespected`, `HandoffsAreImmutable`, `QueueImplementsLifecycle` | `DeadJobsAlerted`, `OwnershipRespected`, `HandoffImmutable`, `ImplementsLifecycle` |
| the same, on the worker | `WorkerUsesQueue`, `OnlyExpiryLosesJobs`, `GroundingsFollowHandoffs`, `SuccessorsAreNotLost`, `WorkerKeepsPromises` | `OnlyExpiredLosesJob`, `GroundingFollowsHandoff`, `NoLostSuccessor` and two of the queue's |
| `Discovery_proof`, on the resolver | `ResolverTyping`, `ArticlesAreLeasedOnce`, `LeasesAreUncached`, `ResolutionsAgree`, `NoRowIsStranded`, `ResolutionsAreFinal` | all but the first |
| the same, on discovery and promotion | `MentionsAreCountedOnce`, `AssignmentsStand`, `RetriesCompleteTheirJob` | all: `MentionsAreItems`, `ClaimsFollowAssignment`, `PromotionIsWhole` |
| `EditorialRanking_proof` | `GroundingTyping`, `StatusAlwaysMatches`, `RankingIsNeverStale` | all but the first: `StatusMatchesEvidence`, `NoStaleRanking` |
| `ContentAnalysis_proof` | `ContentTyping`, `CachedMediaAlwaysExists`, `SnapshotsAreSpaced`, `ListedIsAlwaysAnalysed`, `GoodAnalysesAlwaysStay` | all but the first |
| `IntelligenceRun_proof` | `CitationsAlwaysBelong`, `SignaturesAlwaysCoverMembers`, `StoriesAreSeededOnce`, `MembersAlwaysStay` | all |
| `CreativeGeneration_proof` | `RevisionsStayConsecutive`, `FinishedJobsAlwaysHaveBriefs`, `StandardLeasesExclude`, `NewsClaimsAlwaysBacked` | all |
| `StoryAlerts_proof` | `OutboxDelivers`, `AlertsDeliver`, `AlertsAreTold`, `AlertsAreSpaced`, `DigestsTellOnce` | all (`AlertDispatch` and `StoryAlerts`) |
| `NotionProjection_proof` | `SkippedPagesStayUpToDate`, `DuplicatesAlwaysHaveCauses`, `SucceededStaysOnItsPage` | all (`NotionSync` and `NotionProjection`) |

How they are laid out.  Where a process has many steps, its proof first says what
kinds of step there are (`Does` in `IntelligenceRun_proof` and
`CreativeGeneration_proof`, `Moves` and `QueueCall` in
`OrchestrationWorker_proof`, `RunSteps` and `AnalysisSteps` in
`ContentAnalysis_proof`), shows each action to be of one kind, and shows the
invariant for the kinds.  Facts about choices (the best story, the oldest event,
the last snapshot, the row a claim finds) rest on the existence of least elements,
from the library's well-founded orders of the naturals and of finite sets.  Where
a claim about a list would be proved by induction over it (every entry is led by
the leader of its cluster), the proof takes the earliest counterexample instead.

**Queue.**  `QueueTypeOK` is inductive.  `LockedIffRunning`, `DeadJobsAlerted`
and `HandoffKeepsRootSnapshot` are each inductive relative to it; all are stated
as a conjunction over jobs of a predicate on one row, so a step disturbs the row
it writes and no other.  The two action properties need the type invariant only.
For the refinement an absent row must be blank (`AbsentRowsAreBlank`: no lock,
no claims), because the abstract `Submit` leaves holder and claims alone while
`Enqueue` writes a whole row; with that and `LockedIffRunning` every queue step
is one abstract step or leaves the abstract variables alone: `Fail` is
`GiveBack` or `Bury`, a takeover is `Take` of a held job, `UpdatePayload`, the
materialisation and the clock are stutters.

**Worker.**  `WorkerUsesQueue` is the composition: a step of a request, of a
schedule or of the clock is a step of the queue or leaves it alone.  It needs
`WorkerInv`, because the queue admits enqueued payloads of one form only
(`Inputs`) and a request sends what it computed from a response of an earlier
step (`Sound`, `Leads`).  The queue's theorems then hold of the running system
(`WorkerKeepsPromises`).  `OnlyExpiredLosesJob` follows from `HeldInv` (the
lock of a held job dates from the claim of the request), `GroundingFollowsHandoff`
from `FollowsInv` (what requests carry agrees with what is recorded, and a
record is never changed), and `NoLostSuccessor` from `ContinuesInv`: a request
that is about to complete a job has put its successor into the queue.

**Resolver.**  `ResolverInv` is inductive: every row is consistent in itself
(`RowOK`: it implies `NoStrandedRow`, and adds that a claimed row has counted
an attempt and that every row but an excluded one has an article), and the
three properties that relate rows and cache hold.  None of those three is
inductive alone: a completion keeps the cache in agreement with the rows because
the rows it resolves are leased, hence of different articles
(`OneLeasePerArticle`) that are not cached (`LeasedNotCached`), which is what
`OneResolution` says; and it leaves no leased row with a cached article because
no other row of that article is leased.

**Collection and analysis.**  `CachedMediaExists` needs that what a run counts as
stored is in the bucket (`MediaInv`).  `SnapshotsSpaced` needs that a post's time
of publication is fixed before any batch or snapshot of it (`TimesInv`): the
interval is computed from it once when a snapshot is due and again by the
property.  `ListedIsAnalysed` follows from `OneRun`: of a run that has not
broken, every listed post waits, has a row that waits to be saved, or has its
caption among the inputs analysed, and what a run thinks it knows exists.
`GoodAnalysesStay` needs `AloneInv`, the opposite inclusion for a run that is
alone: it knows every input of the posts it has still to do, so what it saves is
new and goes to the end.  A lost answer breaks exactly that, which is why the
property excludes it.

**Intelligence.**  `CitationsBelong` holds with the types alone, since a
membership and the citations of its post move in one transaction and a late write
of a citation looks at the membership.  `SignaturesCoverMembers` has two halves.
That a story no run has overwritten covers the words its posts were placed by is
proved without the lease, for captions edited at any time (`StoryInv`): a
signature a run writes covers the one it read and the words of the post it places,
and if the one it read is not the table's any more, the story is `overwritten`
from then on.  That nothing is overwritten while the lease excludes,
`StoriesAreSeededOnce` and `MembersAlwaysStay` are proved together under
`exclusive` (`ExclusiveInv`): one run is live (`Alone`), and what it has read
still holds (`Current`): its posts have no story, the signatures it knows are
those of the table, and the story it has just opened is empty.

**Discovery.**  `DiscoveryInv`: the clusters a run still has and those it has
saved part what is relevant of its items (`IsPartition`), no two of them under one
key, so that the upsert of a snapshot never meets another one of its run, and a
story that was read with a row still is the row's (`Still`).  That the clusters are
a partition with keys of their own rests on two facts about `ClusterObservations`:
a leader leads itself, and entries of one fingerprint have one leader; each is
proved of the earliest entry that would contradict it.  `MentionsAreItems` counts:
the pairs of a snapshot and an entry that mention an item are one pair.

**Promotion.**  `PromotionInv`: a row that has a job has a story and is one that
any listing of the job gives (`JobRows`), a claim's story is the row's and stays
so, and of the rows with the id of a whole job those that are not both claimed and
named in its answer are among what the attempt still has to do (`Whole`).  The
last is not inductive without the first two: a retry lists a half-done row because
nothing that made the first attempt list it may have changed, and another job's
assignment does not take it because a row with a job is only ever assigned to the
story and the job it has.  `AssignmentsStand` says in its last part where the
report claims of losers come from: a report is of the row's story, or its job has
still to ask for the row (`Unassigned`), or it is put into `forsaken` by the very
step that refuses or kills the job; a job that is given the row is so with the
story it has already.  The promotion proof needs of discovery that a row's story
and job are never changed by it, and `DiscoveryInv` of promotion that an
assignment is never undone (`Keeps`); the two are proved together.

**Grounding.**  `StatusMatchesEvidence` speaks of a claim no chain is in the
middle of; the invariant (`WritingOf`) has to say what holds between the three
calls.  Chains that meet at a claim are known to have (`Crowded`).  One that is
there alone has written the status of its own result, or a promotion has set it
back since (`Wrote`), and after its second call the evidence that is left when
stale rows are deleted is its result's.  So the third call leaves the evidence
that the status was computed from, whatever has happened to what the claim's
sources say meanwhile.  A chain that was killed at a claim has it still to do
(`Pending`): it starts again at a cursor before it, and a page is the same when it
is read again (`PageInv`), so a half-written claim is excused only until that
chain is done.  Only two things outlive the chains: what a promotion set back,
until a chain comes to it, and what two chains wrote at once, until one writes it
alone.

**Ranking.**  `RankInv`: a list has one rank for each of its stories, 1 to their
number (`IsList`); a run that is alone since it began has shown what it has done
of its list and nothing else, because its deletion came after its reading; and
what is shown is the table until somebody begins to write.  That a ranking is
without ties is the order in which the list is sorted: score, facts, freshness,
id.  It is total and transitive (`AheadIsOrder`), so the number of stories ahead
of a story is different for each, and as many different numbers below the length
of the list are all of them (`RanksAreDistinct`).

**Creative generation.**  Revisions: the stored revisions of a candidate are
exactly 1 to their number (`Numbered`), and a request about to store has a number
of that range or the next (`Numbers`); the unique index refuses the former.
Finished jobs: a request at its last call has a brief stored.  Leases (`LeaseInv`,
while no request was slower than its lease): a holder's lease is the one in the
row, and it has not run out (`Timely`).  News: the answer a request is about to
store passed the gate (`Passed`), and the claims of what the gate accepts of a
standard request for news are backed, a fact about the gate's operators alone.  It
says nothing of headlines, slide copy and caption, which the gate compares with no
source unless the brief is an exploration (`quality_gate.ts:204-206`, `306-336`);
in the instance copy and claims differ, and a brief whose copy confirms a rumour
is stored.

**Alerts.**  A run that is about to mark an event SENT has delivered it
(`MarksBacked`), for the outbox alone and again with the runs that fill it.
`AlertedWasTold` needs that a run about to save has the event it announces in the
outbox, or will insert it first (`SavesWhatIsTold`).  The cooldown and the digests
are proved under their history variables: while filling runs have neither failed
nor met (`Undisturbed`), the last trend alert is the one the story's state names,
and a run that decides is ahead of it; while digests are sent on time
(`Punctual`), they are numbered as they were sent, so that those the code reads
are the last `SentLimit` made, and the items of the one being made are disjoint
from theirs.

**Notion.**  `SyncInv` holds for any number of overlapping runs.  Every page
number that a state, a run's reading or a run's answer has is of a page of its
identity (`RunInv`, `StateInv`), and no hash or reading is of a later calculation
than there is.  Where no two runs have met at an identity one run alone writes its
state and page (`AloneInv`), and what it read of them holds until it saves its
own; from that `SkippedPagesStayUpToDate`.  `DuplicatesAlwaysHaveCauses` counts
(`CountInv`): of an identity's pages, with those that runs still owe it (they have
read that it has none), one may be accounted for by the state or by a run; each
other has cost a fault or a meeting.  A run that starts with an identity another
one has at work owes a page more and is a meeting; an answer turns a page owed
into one made; a fault may leave one made and still owed.  A projection's worker
past its first call knows a page of its candidate; from the save on the body has
the brief (`Placed`); and the unique index on the page id keeps other rows off it
(`Unique`).

What the constants are assumed to be, beyond types and bounds: posts and stories
are finite sets of ids, none of which is the id that stands for "no story"
(`IntelligenceAssumption`); vocabularies are finite (`MatchingAssumption`); a
job's key is its chain, type and page, and the set of keys has the successors of
those that lead on (`KeyAssumption`); a job is enqueued with any payload but one
that has a handoff (`ClientAssumption`); a picture belongs to one post
(`CollectionAssumption`); the table has room for the alerts that the bounded runs
can insert (`RoomAssumption`); Notion's listing limit is beyond the candidates
(`NotionAssumption`); the orders in which rows may have been seen have each item
once (`PromotionAssumption`); what sources say are texts of sentences, scores are
percentages, stories are finite in number and differ in their place in the order
of ids, and neither promotion nor overlap is the name of a grounding chain
(`SourceDiscoveryAssumption`, `GroundingAssumption`, `RankingAssumption`).  TLC
evaluates each in the run of the module.

Only model-checked, and why:

- `PagesCoverClaims` (`Grounding`): that the pages of a chain visit every claim is
  an induction along the scan, over the sequences of posts, analyses and claims,
  with each of four kinds of cursor as a starting place; induction over data is out
  of the prover's reach.  Nor does it hold for all constants: in the worlds of
  `GroundingPages` it is false (section 7, finding 1);
- `EveryJobEnds`, `EveryRowSettles`, `PagesCatchUp`: liveness;
- that the clustering equation has exactly one solution, and that of the loop
  (`ClusteringIsTheLoop`): induction over a list.  The theorems on discovery hold
  for whatever solutions there are.

## 7. Disagreements between the code and its documents

1. *Grounding pages* (run `GroundingPages`).  `docs/superpowers/plans/
   2026-09-30-grounding-resource-hardening.md` line 27: claims "must not skip or
   duplicate work across a cursor".  When the budget of analysis rows ends in a
   post while earlier posts have filled the page, the page is cut at its limit,
   but the continuation cursor already stands in the later post.  The claims
   between the two are skipped by the chain.

Seen while modelling; the definition or a comment at the end of the module
named states what does not hold:

2. *Second brief* (`NotionProjection`).  `docs/superpowers/specs/
   2026-09-18-milestone-5-creative-generation-design.md` line 64:
   "An EDITABLE existing production item is updated in place".  The job updates
   the page and appends the brief's blocks, but then inserts a row of the new
   brief with the page id another row has, which is unique: the save is refused
   at every attempt, each of which appends the blocks again, and the job dies.
3. *Link to the production page* (`NotionSync`).  Line 60 of that document
   gives Daily Intelligence a `Content Pipeline URL`.  The job writes it, but
   every update by the sync sends it empty, since `listCandidates` sets
   `content_pipeline_url: null` always.
4. *Daily limit* (`CreativeGeneration`).  `docs/editorial-exploration-mode.md`
   line 12 promises an "atomic reservation limit per Asia/Seoul calendar day".
   The RPC reserves a FAILED job again before it counts the day, so with a limit
   of one: the first exploration fails, the second takes the day's place, the
   first is reserved again and there are two.
5. *Second generation* (`CreativeGeneration`).  `orchestrator_test.ts:176`,
   "concurrent triggers share one leased generation": a trigger that looked for
   a READY brief before another stored it takes the finished job's free lease
   and calls the provider again.  The unique fingerprint index keeps the brief
   (`FinishedJobsHaveBriefs`), but the call is paid, and the job is left
   GENERATING.  A stored DRAFT news brief is not found by that lookup at all, so
   every poll of a selected candidate does the same (milestone 5 design, line
   66: "both paths are idempotent").
6. *Exploration lease* (`CreativeGeneration`).  A request may hold the lease of
   a job whose status is still FAILED; a second trigger's reservation resets
   such a job and clears the lease, and both generate.  For standard jobs the
   lease excludes (`StandardLeaseExcludes`).
7. *Mode of an answer* (`CreativeGeneration`).  The gate applies the rules of
   the mode the answer names, not of the mode asked for, so an answer to a news
   request that calls itself analysis is stored READY without the rules of news.
8. *Resending* (`AlertDispatch`).  The milestone 6 plan (line 862) says "never
   resend `SENT` fingerprint".  Runs list without claiming, so two overlapping
   runs deliver one event twice.
9. *Heartbeat* (`IntelligenceRun`, `RunsExclude`).  The renewal asks for the
   start time plus the lease (`intelligence/orchestrator.ts:244`), so it never
   extends anything; the milestone 4 design (about line 630) describes a lease
   kept alive.  A run longer than its lease meets another.
10. *Expired token* (`InstagramCollection`, `CredentialSparesAccounts`).  The
   milestone 3 design (line 171) says a global credential error marks no account
   unsupported; `collect-instagram/orchestrator.ts:104-106` marks every account
   whose fetch ended in `permission`, and a marked account is not listed again.
11. *Existing story* (`Promotion`, `AttachesToExistingStory`).  The test
   "promotion attaches fresh observations to an existing safe story" holds for
   stories that promotion made.  One the intelligence run made has no promotion
   key, is matched, and yet a second story is inserted, because `upsertStory`
   looks up by key only.
12. *Scheduled discovery* (`QueryExpansion`).  Scheduled runs carry no
   `max_queries`, and the default of eight leaves the manual and general
   families alone: the entities of the day are never searched for, although the
   design wants them.
13. *Retry of a promotion* (`Promotion`, `WholeJob`).  The plan `docs/superpowers/
   plans/2026-10-17-gnews-promotion-intelligence-recovery.md` line 15 asks to
   "Preserve idempotent retries for the same promotion job".
   `promote-discovery/repository.ts` (lines 155-171) lists only rows whose
   `last_observed_at` is not after `as_of`, and the chain of an Instagram
   collection fixes `as_of` in its payload: a row that a killed attempt has assigned
   and that a later discovery run sees again is not listed by the retry, and stays
   assigned without its claim.  The same happens to rows beyond the listing's limit.
   `PromotionIsWhole` is stated for jobs that take their time anew and list all;
   without the condition on `covers` in `WholeJob`, TLC finds it violated in the
   run `Discovery`.

14. *Second page* (`NotionSync`, `DuplicatesHaveCauses`).  The milestone 4.5
    design promises of a second run no duplicate page.  Every chain ends with a
    SYNC_NOTION job of its own (`worker.ts:271`), and two of them may be at work
    at once: both read that a candidate has no page, and both create one.  Of the
    two pages the state keeps the last one saved; the other is never found again.
    Or the older run's properties are written last and the newer run's hash is
    saved last, and the page is skipped with old contents until the candidate is
    calculated anew.
15. *Copy of a news brief* (`BriefGate`).  `quality_gate.ts:204-206` compares the
    claims of a news brief with its evidence.  Headline, slide copy and caption
    are checked for a doubt turned into certainty in explorations only
    (`306-336`).
16. *Rows nobody can claim* (`GNewsResolver`).  The trigger makes a row PENDING by
    the beginning of its URL (`20261011174908…`:177-183); a claim wants the whole
    URL of an article (l. 325-328).  A row with the one and not the other stays
    PENDING for ever, unless another row of its article is resolved.

Not against a document, but shown by the properties' conditions: a job that is
refused an observation leaves the publisher's report claims in its own story
(`promote-discovery/orchestrator.ts:165-166`; `ClaimsFollowAssignment`); the words
of an edited caption never reach the signature of a story the post is in
(`SignaturesFollowCaptions` at the end of `IntelligenceRun` states what does not
hold); two intelligence runs in the lease overwrite each other's signatures; a
digest tells again what the 25th before it told (`telegram-alerts/index.ts:176`);
a promotion run again sets a grounded claim back to INSUFFICIENT and leaves its
evidence (`promote-discovery/repository.ts:309-331`), until a chain comes to it;
two chains that write a claim at once may leave the status of one with the
evidence of the other.

The resolver runbook says that the workflow has no cron trigger; the workflow
has two (`on.schedule`).

## 8. Not modelled

`components` in `PROJECT.json` lists every part with its status.  Left out for
good: rendering of decks, image analysis, wording rules and prompts (data and
layout, no state to check), HTTP parsing, authentication.  Within the modelled
parts:

- argument validation that changes nothing; clock skew between callers, who
  pass their own time to the queue; retries of the HTTP clients inside one call
  where a second attempt meets the same state;
- resolver: the per-minute rate limiter, the replay of stored responses (a replay
  changes nothing), the refresh of source rows; the publication times that choose
  among the rows of an article;
- collection: metric values, Meta's paging limits;
- intelligence: vocabularies, titles, the weights of the SQL scoring; what an
  analysis found in a post's pictures does not change.
  `reassign_story_cluster_post` (`20261017054421…`:160-203), with which an
  operator moves a post by hand, is called by nothing in the repository: it takes
  a post out of its story against `MembersStay`, and into an empty one without a
  seed against `SeededOnce`;
- discovery: an item's data does not change between runs; opportunity labels, the
  order of manual queries; promotion: source observations, the times of stories, the
  listing's lower bound of 72 hours and its older form without the Google columns;
- grounding: an incremental run's scope of stories; a job that is given up after its
  attempts, which leaves the claim it was at half written; ranking: the unordered
  limits of its queries;
- generation: a re-reservation that names another candidate (`20261012124210…`:84;
  a fingerprint has one candidate here), usage counters, the order of a priority
  batch, the style validator (part of `wellFormed`), the row of an uncertain
  classification;
- Notion: that candidates and states are listed by two calls, not one, the limit of
  5000 states, the wording of pages,
  candidates whose story is archived (milestone 4.5 wants EXPIRED; the code only
  expires by day);
- alerts: the attempts of an event in the run `StoryAlerts` (one each), rendering,
  trust labels, the order of a digest, the chat history.

Not modelled at all yet: the Telegram agent and most of its console, the morning
brief, fixture sync and match calendar, M9 previews, source-link reconciliation.
They are independent of what is modelled but for the queue jobs that start them.

## 9. Plan

Done: the queue with `JobLifecycle`; the worker; the resolver; collection and
analysis; the intelligence run; discovery and promotion; grounding and ranking;
creative generation with its gate; story alerts, digests and their delivery;
Notion synchronisation and projection; and the proofs of section 6, which state
every safety property of the runs but `PagesCoverClaims`.

What would come next:

1. `TelegramAgent`: claim of an update, console callbacks, preview dispatch;
   `PreviewJobs` (M9): claims, albums partly sent.
2. `MorningBrief`, `Schedules` (bucket arithmetic), source-link reconciliation.

Abstract specifications worth stating: an outbox that delivers at least once
(for alerts and previews), a scan that visits every row once (for grounding), of
which `PagesCoverClaims` would be the consequence.
