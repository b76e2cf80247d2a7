---------------------------- MODULE GNewsResolver ----------------------------
(***************************************************************************)
(* Resolution of Google News observations to publisher URLs.  A worker run *)
(* claims a batch through gnews_resolver_claim_batch, decodes it and hands *)
(* the outcome to gnews_resolver_complete_batch.  A run may be slow, lose  *)
(* a response, be rate limited or be killed; its rows are then leased      *)
(* until the lease runs out.                                               *)
(*                                                                         *)
(* Every call upserts the one rate limit row of the worker before it reads *)
(* anything else, so calls are serialised: each is one atomic step.        *)
(* Timestamps are modelled by the time that is left: resolver_next_attempt *)
(* _at by wait, resolver_lease_expires_at by lease, and the cooldown; "at  *)
(* or before now()" is 0.                                                  *)
(***************************************************************************)
EXTENDS Integers, FiniteSets

CONSTANTS
  Observations,  \* the google-news rows of discovery_observations
  Articles,      \* Google article ids
  NoArticle,     \* the URL is not a Google News article
  ArticleOf,     \* google_news_article_id
  Claimable,     \* RSS rows whose whole URL is an article's, not only its beginning
  Urls, NoUrl,   \* safe publisher URLs; null
  Runs, NoRun,   \* workflow runs in progress; a lease id names its run
  MaxAttempts,   \* 3
  BatchSize,     \* p_batch_size, 30
  LeaseTime,     \* 20 minutes
  FirstRetry,    \* 30 minutes, after one failed attempt
  SecondRetry,   \* 2 hours, after two
  Cooldowns      \* the cooldowns a 429 asks for

ASSUME ResolverAssumption ==
  /\ ArticleOf \in [Observations -> Articles \cup {NoArticle}]
  /\ Claimable \subseteq Observations
  /\ NoArticle \notin Articles /\ NoUrl \notin Urls /\ NoRun \notin Runs
  /\ MaxAttempts \in 1..3 /\ BatchSize \in Nat \ {0}
  /\ LeaseTime \in Nat \ {0}
  /\ FirstRetry \in Nat /\ SecondRetry \in Nat
  /\ Cooldowns \subseteq Nat \ {0}

VARIABLES
  obs,      \* the observations
  cache,    \* gnews_article_url_cache
  cooldown, \* gnews_resolver_control.global_cooldown_until
  batch     \* the rows each run was handed and has not accounted for

resolverVars == <<obs, cache, cooldown, batch>>

\* resolver_next_attempt_at is infinity.
Never == -1

ObsStatus == {"ABSENT", "PENDING", "CLAIMED", "RESOLVED", "FAILED", "RATE_LIMITED", "EXCLUDED"}
Open == {"PENDING", "FAILED", "RATE_LIMITED"}

\* When a row was published, or else first observed: at a time that is still to come,
\* within the last 72 hours, or before.
Ages == {"early", "recent", "old"}

ObsRow == [status : ObsStatus, url : Urls \cup {NoUrl}, attempts : 0..MaxAttempts,
           wait : Nat \cup {Never}, leasedBy : Runs \cup {NoRun}, lease : Nat,
           age : Ages]

ResolverTypeOK ==
  /\ obs \in [Observations -> ObsRow]
  /\ cache \in [Articles -> Urls \cup {NoUrl}]
  /\ cooldown \in Nat
  /\ batch \in [Runs -> SUBSET Observations]

Unseen == [status |-> "ABSENT", url |-> NoUrl, attempts |-> 0, wait |-> 0,
           leasedBy |-> NoRun, lease |-> 0, age |-> "early"]

ResolverInit ==
  /\ obs = [o \in Observations |-> Unseen]
  /\ cache = [a \in Articles |-> NoUrl]
  /\ cooldown = 0
  /\ batch = [r \in Runs |-> {}]

\* Discovery stores a new observation; capture_gnews_source_identity sets its status by
\* the beginning of its URL: rows that are not Claimable are PENDING as well.
Discover(o) ==
  /\ obs[o].status = "ABSENT"
  /\ \E age \in Ages :
       obs' = [obs EXCEPT ![o] = [@ EXCEPT !.age = age,
         !.status = IF ArticleOf[o] = NoArticle THEN "EXCLUDED" ELSE "PENDING"]]
  /\ UNCHANGED <<cache, cooldown, batch>>

-----------------------------------------------------------------------------
(* gnews_resolver_claim_batch *)

Cached(o) == ArticleOf[o] # NoArticle /\ cache[ArticleOf[o]] # NoUrl

\* Mutant of FromCache: the URL is not copied.
FromCacheWithoutUrl(o) ==
  [obs[o] EXCEPT !.status = "RESOLVED", !.leasedBy = NoRun, !.lease = 0]

FromCache(o) ==
  [obs[o] EXCEPT !.status = "RESOLVED", !.url = cache[ArticleOf[o]],
                 !.leasedBy = NoRun, !.lease = 0]

\* Mutant of Expired: the lease of a killed run is never taken back.
ExpiredNever(o) == FALSE

Expired(o) == obs[o].status = "CLAIMED" /\ obs[o].lease = 0

Reclaimed(o) ==
  [obs[o] EXCEPT !.status = IF obs[o].attempts >= MaxAttempts THEN "FAILED" ELSE "PENDING",
                 !.wait = IF obs[o].attempts >= MaxAttempts THEN Never ELSE 0,
                 !.leasedBy = NoRun]

\* A claim first resolves open rows from the cache and takes back expired leases.
Refreshed(o) ==
  IF obs[o].status \in Open /\ Cached(o) THEN FromCache(o)
  ELSE IF Expired(o) THEN Reclaimed(o)
  ELSE obs[o]

Leased(o) == obs[o].status = "CLAIMED" /\ obs[o].lease > 0

\* Mutant of Eligible: the leases of an article are not checked.
EligibleIgnoringLeases(age) == {o \in Claimable :
  /\ ArticleOf[o] # NoArticle /\ Refreshed(o).status \in Open
  /\ obs[o].attempts < MaxAttempts /\ Refreshed(o).wait = 0 /\ obs[o].age = age
  /\ ~Cached(o)}

Eligible(age) == {o \in Claimable :
  /\ ArticleOf[o] # NoArticle
  /\ Refreshed(o).status \in Open
  /\ obs[o].attempts < MaxAttempts
  /\ Refreshed(o).wait = 0
  /\ obs[o].age = age
  /\ \A i \in Observations : ArticleOf[i] = ArticleOf[o] => ~Leased(i)
  /\ ~Cached(o)}

\* distinct on the article, at most BatchSize; which eligible row of an article
\* and which articles come first depends on publication times left out here.
Batches(age) == {S \in SUBSET Eligible(age) :
  /\ \A i, j \in S : ArticleOf[i] = ArticleOf[j] => i = j
  /\ Cardinality(S) <= BatchSize
  /\ \/ Cardinality(S) = BatchSize
     \/ \A o \in Eligible(age) : \E i \in S : ArticleOf[i] = ArticleOf[o]}

ClaimRows(r, S) ==
  obs' = [o \in Observations |->
    IF o \in S
    THEN [Refreshed(o) EXCEPT !.status = "CLAIMED", !.leasedBy = r, !.lease = LeaseTime,
                              !.attempts = obs[o].attempts + 1]
    ELSE Refreshed(o)]

\* The ages p_mode asks for: a row of a later time is in neither.
Modes == {"recent", "old"}

\* During a cooldown the answer is an empty batch and nothing changes.
ClaimBatch(r, age) ==
  /\ batch[r] = {} /\ cooldown = 0
  /\ \E S \in Batches(age) :
       ClaimRows(r, S) /\ batch' = [batch EXCEPT ![r] = S]
  /\ UNCHANGED <<cache, cooldown>>

-----------------------------------------------------------------------------
(* gnews_resolver_complete_batch *)

\* What a run may report of a row: resolved to a URL, with or without a publisher
\* 429 on its page, failed, rate limited by Google, not an article, or untouched.
Outcomes ==
  [status : {"RESOLVED"}, url : Urls, page429 : BOOLEAN]
    \cup [status : {"FAILED", "RATE_LIMITED", "EXCLUDED", "UNPROCESSED"},
          url : {NoUrl}, page429 : {FALSE}]

\* A cooldown is asked for exactly when a 429 is reported.
CooldownsFor(out) ==
  IF \E o \in DOMAIN out : out[o].status = "RATE_LIMITED" \/ out[o].page429
  THEN Cooldowns ELSE {0}

\* Mutant of HoldsLease: any row that was claimed once is accepted.
HeldOnce(r, o) == obs[o].attempts > 0

HoldsLease(r, o) == obs[o].leasedBy = r /\ obs[o].lease > 0

NextWait(o, status, cool) ==
  IF obs[o].attempts >= MaxAttempts THEN Never
  ELSE CASE status \in {"RATE_LIMITED", "UNPROCESSED"} -> cool
         [] status = "FAILED" -> IF obs[o].attempts = 1 THEN FirstRetry
                                 ELSE IF obs[o].attempts = 2 THEN SecondRetry ELSE Never
         [] status = "EXCLUDED" -> Never
         [] OTHER -> 0

\* Mutant of NextStatus: no status for a row without attempts left.
NextStatusUncapped(o, status) == IF status = "UNPROCESSED" THEN "PENDING" ELSE status

NextStatus(o, status) ==
  IF obs[o].attempts >= MaxAttempts /\ status \in {"RATE_LIMITED", "UNPROCESSED"} THEN "FAILED"
  ELSE IF status = "UNPROCESSED" THEN "PENDING" ELSE status

Reported(o, out, cool) ==
  [obs[o] EXCEPT !.status = NextStatus(o, out[o].status), !.url = out[o].url,
                 !.wait = NextWait(o, out[o].status, cool), !.leasedBy = NoRun, !.lease = 0]

Resolutions(out, a) ==
  {o \in DOMAIN out : ArticleOf[o] = a /\ out[o].status = "RESOLVED"}

\* A result is refused when the article is cached with another URL.
AgreesWithCache(out) ==
  \A o \in DOMAIN out : (out[o].status = "RESOLVED" /\ Cached(o)) => out[o].url = cache[ArticleOf[o]]

\* The other open rows of a resolved article are resolved with it.
Complete(r, out, cool) ==
  /\ \A o \in DOMAIN out : HoldsLease(r, o)
  /\ AgreesWithCache(out)
  /\ cache' = [a \in Articles |->
       IF cache[a] = NoUrl /\ Resolutions(out, a) # {}
       THEN out[CHOOSE o \in Resolutions(out, a) : TRUE].url ELSE cache[a]]
  /\ obs' = [o \in Observations |->
       IF o \in DOMAIN out THEN Reported(o, out, cool)
       ELSE IF obs[o].status \in Open /\ Resolutions(out, ArticleOf[o]) # {}
       THEN [obs[o] EXCEPT !.status = "RESOLVED", !.url = cache'[ArticleOf[o]],
                           !.leasedBy = NoRun, !.lease = 0, !.wait = 0]
       ELSE obs[o]]
  /\ cooldown' = IF cool > cooldown THEN cool ELSE cooldown

CompleteBatch(r) ==
  /\ batch[r] # {}
  /\ \E out \in [batch[r] -> Outcomes] : \E cool \in CooldownsFor(out) : Complete(r, out, cool)
  /\ batch' = [batch EXCEPT ![r] = {}]

\* LEASE_EXPIRED, a rate limited or lost call, or a killed run: nothing is
\* written and the run ends.  A response lost after the commit is a CompleteBatch.
Abandon(r) ==
  /\ batch[r] # {}
  /\ batch' = [batch EXCEPT ![r] = {}]
  /\ UNCHANGED <<obs, cache, cooldown>>

-----------------------------------------------------------------------------

\* The row's time has come, or 72 hours are over.
GrowsOld(o) ==
  /\ obs[o].status # "ABSENT" /\ obs[o].age # "old"
  /\ obs' = [obs EXCEPT ![o].age = IF @ = "early" THEN "recent" ELSE "old"]
  /\ UNCHANGED <<cache, cooldown, batch>>

Less(n) == IF n > 0 THEN n - 1 ELSE n

Tick ==
  /\ cooldown > 0 \/ \E o \in Observations : obs[o].lease > 0 \/ obs[o].wait > 0
  /\ obs' = [o \in Observations |->
       [obs[o] EXCEPT !.wait = Less(obs[o].wait), !.lease = Less(obs[o].lease)]]
  /\ cooldown' = Less(cooldown)
  /\ UNCHANGED <<cache, batch>>

ResolverNext ==
  \/ \E o \in Observations : Discover(o)
  \/ \E r \in Runs, age \in Modes : ClaimBatch(r, age)
  \/ \E r \in Runs : CompleteBatch(r)
  \/ \E r \in Runs : Abandon(r)
  \/ \E o \in Observations : GrowsOld(o)
  \/ Tick

ResolverSpec == ResolverInit /\ [][ResolverNext]_resolverVars

\* One workflow schedule claims recent rows, another old ones, each once an
\* hour; a run is over after 15 minutes at the latest; time passes, and the time of
\* every row comes.
ResolverFairness ==
  /\ \A age \in Modes : SF_resolverVars(\E r \in Runs : ClaimBatch(r, age))
  /\ \A r \in Runs : WF_resolverVars(CompleteBatch(r) \/ Abandon(r))
  /\ WF_resolverVars(Tick)
  /\ WF_resolverVars(\E o \in Observations : obs[o].age = "early" /\ GrowsOld(o))

FairResolverSpec == ResolverSpec /\ ResolverFairness

-----------------------------------------------------------------------------
(* Properties *)

\* Two rows of one article are never leased at once: the article is decoded by
\* one run only, although the claim locks rows and not articles.
OneLeasePerArticle ==
  \A i, j \in Observations :
    (ArticleOf[i] = ArticleOf[j] /\ Leased(i) /\ Leased(j)) => i = j

\* A leased row's article has no publisher URL yet, so a completion never runs
\* into "resolver cache conflict", which would refuse its whole batch.
LeasedNotCached == \A o \in Observations : Leased(o) => ~Cached(o)

\* All resolved rows of an article carry the one URL of the cache, whichever of
\* a completion, its propagation to duplicates and a claim resolved them.
ResolvedAsCached ==
  \A o \in Observations : obs[o].status = "RESOLVED" =>
    obs[o].url = cache[ArticleOf[o]] /\ obs[o].url # NoUrl

\* A row that may be claimed again has an attempt left, and one that may not has
\* used them up or was excluded: no row waits whose attempts are over.
NoStrandedRow ==
  \A o \in Observations :
    /\ obs[o].status \in {"PENDING", "RATE_LIMITED"} =>
         obs[o].attempts < MaxAttempts /\ obs[o].wait # Never
    /\ obs[o].status = "FAILED" => (obs[o].wait = Never <=> obs[o].attempts >= MaxAttempts)
    /\ obs[o].leasedBy # NoRun <=> obs[o].status = "CLAIMED"

\* A resolved row is final: no late completion, duplicate or claim changes it.
ResolvedIsFinal ==
  [][\A o \in Observations : obs[o].status = "RESOLVED" =>
       obs'[o].status = "RESOLVED" /\ obs'[o].url = obs[o].url]_resolverVars

Settled(o) ==
  \/ obs[o].status \in {"RESOLVED", "EXCLUDED"}
  \/ obs[o].status = "FAILED" /\ obs[o].wait = Never

\* Every row a claim may take is settled in the end, resolved, excluded or failed for
\* good, and so is every row whose article is in the cache, whatever runs are killed,
\* late or refused.  Other rows are not: one that is not Claimable stays PENDING for as
\* long as no row of its article is resolved.
EveryRowSettles ==
  \A o \in Observations :
    (obs[o].status = "PENDING" /\ (o \in Claimable \/ Cached(o))) ~> Settled(o)
==============================================================================
