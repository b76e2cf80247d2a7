--------------------------- MODULE Discovery_proof ---------------------------
(***************************************************************************)
(* Theorems about the resolver, for any observations, articles, runs, batch*)
(* size, delays and cooldowns.  ResolverInv is inductive: each row is      *)
(* consistent in itself (RowOK, which implies NoStrandedRow), and the rows *)
(* of one article agree with each other and with the cache.                *)
(*                                                                         *)
(* Theorems about trend discovery and promotion, for any items, feeds,     *)
(* requests, outages, runs, jobs and orders, and any number of kills.      *)
(* DiscoveryInv: the clusters a run has and those it has saved part what   *)
(* is relevant, under different keys, and a story that was read stands.    *)
(* PromotionInv: of the rows with a whole job's id those not claimed are   *)
(* still to be done by the attempt that runs.  ReportsStand: what was       *)
(* reported is assigned, given up or some job's next step.                 *)
(***************************************************************************)
EXTENDS GNewsResolver, Promotion, FiniteSetTheorems, WellFoundedInduction, TLAPS

\* What is true of one row whatever the others are.
RowOK(o, row) ==
  /\ row \in ObsRow
  /\ row.status = "ABSENT" => row.attempts = 0 /\ row.wait = 0
  /\ row.status \notin {"ABSENT", "EXCLUDED"} => ArticleOf[o] \in Articles
  /\ row.status = "CLAIMED" => row.attempts > 0
  /\ row.status \in {"PENDING", "RATE_LIMITED"} => row.attempts < MaxAttempts /\ row.wait # Never
  /\ row.status = "FAILED" => (row.wait = Never <=> row.attempts >= MaxAttempts)
  /\ row.leasedBy # NoRun <=> row.status = "CLAIMED"

\* The rows and their batches are well formed.
RowsOK ==
  /\ obs \in [Observations -> ObsRow]
  /\ \A o \in Observations : RowOK(o, obs[o])
  /\ cache \in [Articles -> Urls \cup {NoUrl}]
  /\ cooldown \in Nat
  /\ batch \in [Runs -> SUBSET Observations]

ResolverInv == RowsOK /\ OneLeasePerArticle /\ LeasedNotCached /\ ResolvedAsCached

-----------------------------------------------------------------------------
(* One row under one operation *)

LEMMA ReclaimedRow ==
  ASSUME NEW o \in Observations, RowOK(o, obs[o]), Expired(o)
  PROVE  RowOK(o, Reclaimed(o)) /\ Reclaimed(o).status \in {"PENDING", "FAILED"}
<1> DEFINE spent == obs[o].attempts >= MaxAttempts
<1>1. obs[o] \in ObsRow /\ obs[o].status = "CLAIMED" /\ ArticleOf[o] \in Articles
  BY DEF RowOK, Expired
<1>2. obs[o].attempts \in Nat /\ MaxAttempts \in Nat
  BY <1>1, ResolverAssumption DEF ObsRow
<1>3. CASE spent
  <2>1. Reclaimed(o) = [obs[o] EXCEPT !.status = "FAILED", !.wait = Never, !.leasedBy = NoRun]
    BY <1>3 DEF Reclaimed
  <2> QED BY <2>1, <1>1, <1>2, <1>3 DEF RowOK, ObsRow, ObsStatus
<1>4. CASE ~spent
  <2>1. Reclaimed(o) = [obs[o] EXCEPT !.status = "PENDING", !.wait = 0, !.leasedBy = NoRun]
    BY <1>2, <1>4 DEF Reclaimed
  <2>2. 0 # Never /\ 0 \in Nat
    BY DEF Never
  <2>3. /\ Reclaimed(o) \in ObsRow
        /\ Reclaimed(o).status = "PENDING" /\ Reclaimed(o).wait = 0
        /\ Reclaimed(o).leasedBy = NoRun /\ Reclaimed(o).attempts = obs[o].attempts
    BY <2>1, <2>2, <1>1 DEF ObsRow, ObsStatus
  <2>4. obs[o].attempts < MaxAttempts
    BY <1>2, <1>4
  <2> QED BY <2>2, <2>3, <2>4, <1>1 DEF RowOK
<1> QED BY <1>3, <1>4

LEMMA FromCacheRow ==
  ASSUME NEW o \in Observations, RowOK(o, obs[o]), obs[o].status \in Open, Cached(o),
         cache \in [Articles -> Urls \cup {NoUrl}]
  PROVE  /\ RowOK(o, FromCache(o))
         /\ FromCache(o).status = "RESOLVED"
         /\ FromCache(o).url = cache[ArticleOf[o]] /\ FromCache(o).url # NoUrl
<1>1. ArticleOf[o] \in Articles /\ cache[ArticleOf[o]] \in Urls \cup {NoUrl}
  BY DEF RowOK, Open
<1> QED
  BY <1>1, ResolverAssumption DEF RowOK, ObsRow, ObsStatus, Open, FromCache, Cached

\* A claim's refresh keeps a row well formed, leases nothing, and resolves only
\* from the cache.
LEMMA RefreshedRow ==
  ASSUME NEW o \in Observations, RowOK(o, obs[o]), cache \in [Articles -> Urls \cup {NoUrl}]
  PROVE  /\ RowOK(o, Refreshed(o))
         /\ Refreshed(o).status = "CLAIMED" => Refreshed(o) = obs[o]
         /\ Refreshed(o).status = "RESOLVED" =>
              \/ Refreshed(o) = obs[o]
              \/ Refreshed(o).url = cache[ArticleOf[o]] /\ Refreshed(o).url # NoUrl
         /\ obs[o].status = "RESOLVED" => Refreshed(o) = obs[o]
<1>1. CASE obs[o].status \in Open /\ Cached(o)
  BY <1>1, FromCacheRow DEF Refreshed, Open
<1>2. CASE ~(obs[o].status \in Open /\ Cached(o)) /\ Expired(o)
  BY <1>2, ReclaimedRow DEF Refreshed, Expired
<1>3. CASE ~(obs[o].status \in Open /\ Cached(o)) /\ ~Expired(o)
  BY <1>3 DEF Refreshed
<1> QED BY <1>1, <1>2, <1>3

Claimed(r, o) ==
  [Refreshed(o) EXCEPT !.status = "CLAIMED", !.leasedBy = r, !.lease = LeaseTime,
                       !.attempts = obs[o].attempts + 1]

LEMMA ClaimedRow ==
  ASSUME NEW r \in Runs, NEW age \in Modes, NEW o \in Eligible(age),
         RowOK(o, obs[o]), cache \in [Articles -> Urls \cup {NoUrl}]
  PROVE  RowOK(o, Claimed(r, o)) /\ Claimed(r, o).status = "CLAIMED"
<1>1. /\ o \in Observations /\ ArticleOf[o] # NoArticle
      /\ obs[o].attempts < MaxAttempts /\ Refreshed(o).status \in Open
  BY ResolverAssumption DEF Eligible
<1>2. RowOK(o, Refreshed(o))
  BY <1>1, RefreshedRow
<1>3. ArticleOf[o] \in Articles
  BY <1>1, ResolverAssumption
<1>4. r # NoRun /\ LeaseTime \in Nat /\ MaxAttempts \in Nat
  BY ResolverAssumption
<1>5. obs[o].attempts \in Nat
  BY ResolverAssumption DEF RowOK, ObsRow
<1>6. Refreshed(o) \in ObsRow
  BY <1>2 DEF RowOK
<1>7. obs[o].attempts + 1 \in 0..MaxAttempts /\ obs[o].attempts + 1 > 0
  BY <1>1, <1>4, <1>5
<1>8. /\ Claimed(r, o) \in ObsRow
      /\ Claimed(r, o).status = "CLAIMED" /\ Claimed(r, o).leasedBy = r
      /\ Claimed(r, o).attempts = obs[o].attempts + 1
  BY <1>4, <1>6, <1>7 DEF Claimed, ObsRow, ObsStatus
<1> QED
  BY <1>3, <1>4, <1>7, <1>8 DEF RowOK

\* A completion's report of a leased row.
LEMMA ReportedRow ==
  ASSUME NEW r \in Runs, NEW o \in Observations, RowOK(o, obs[o]), HoldsLease(r, o),
         NEW out, o \in DOMAIN out, out[o] \in Outcomes, NEW cool \in Nat
  PROVE  /\ RowOK(o, Reported(o, out, cool))
         /\ Reported(o, out, cool).status # "CLAIMED"
         /\ Reported(o, out, cool).url = out[o].url
         /\ (Reported(o, out, cool).status = "RESOLVED" <=> out[o].status = "RESOLVED")
<1> DEFINE s == out[o].status
           n == obs[o].attempts
<1>1. obs[o].status = "CLAIMED" /\ n > 0 /\ ArticleOf[o] \in Articles /\ n \in 0..MaxAttempts
  BY ResolverAssumption DEF RowOK, HoldsLease, ObsRow
<1>2. /\ s \in {"RESOLVED", "FAILED", "RATE_LIMITED", "EXCLUDED", "UNPROCESSED"}
      /\ out[o].url \in Urls \cup {NoUrl}
  BY DEF Outcomes
<1>3. MaxAttempts \in 1..3 /\ FirstRetry \in Nat /\ SecondRetry \in Nat
  BY ResolverAssumption
<1>4. /\ NextWait(o, s, cool) \in Nat \cup {Never}
      /\ n >= MaxAttempts => NextWait(o, s, cool) = Never
      /\ n < MaxAttempts /\ s \in {"FAILED", "RATE_LIMITED", "UNPROCESSED"} =>
           NextWait(o, s, cool) # Never
  <2>1. n >= MaxAttempts => NextWait(o, s, cool) = Never
    BY DEF NextWait
  <2>2. n < MaxAttempts => n \in {1, 2}
    BY <1>1, <1>3
  <2>3. ASSUME n < MaxAttempts
        PROVE  /\ s = "FAILED" => NextWait(o, s, cool) \in Nat
               /\ s \in {"UNPROCESSED", "RATE_LIMITED"} => NextWait(o, s, cool) = cool
               /\ s = "EXCLUDED" => NextWait(o, s, cool) = Never
               /\ s = "RESOLVED" => NextWait(o, s, cool) = 0
    <3>1. ~(n >= MaxAttempts)
      BY <1>1, <1>3, <2>3
    <3> QED BY <3>1, <2>2, <2>3, <1>2, <1>3 DEF NextWait
  <2>4. n >= MaxAttempts \/ n < MaxAttempts
    BY <1>1, <1>3
  <2> HIDE DEF s, n
  <2> QED BY <2>1, <2>3, <2>4, <1>2 DEF Never
<1>5. /\ NextStatus(o, s) \in {"RESOLVED", "FAILED", "RATE_LIMITED", "EXCLUDED", "PENDING"}
      /\ NextStatus(o, s) = "RESOLVED" <=> s = "RESOLVED"
      /\ NextStatus(o, s) \in {"PENDING", "RATE_LIMITED"} =>
           n < MaxAttempts /\ s \in {"RATE_LIMITED", "UNPROCESSED"}
      /\ NextStatus(o, s) = "FAILED" => s = "FAILED" \/ n >= MaxAttempts
  BY <1>1, <1>2, <1>3 DEF NextStatus
<1>6. obs[o] \in ObsRow
  BY DEF RowOK
<1>7. /\ Reported(o, out, cool) \in ObsRow
      /\ Reported(o, out, cool).status = NextStatus(o, s)
      /\ Reported(o, out, cool).url = out[o].url
      /\ Reported(o, out, cool).wait = NextWait(o, s, cool)
      /\ Reported(o, out, cool).attempts = n
      /\ Reported(o, out, cool).leasedBy = NoRun
  BY <1>2, <1>4, <1>5, <1>6 DEF Reported, ObsRow, ObsStatus
<1> QED
  BY <1>1, <1>2, <1>3, <1>4, <1>5, <1>7 DEF RowOK

-----------------------------------------------------------------------------
(* A claim *)

\* A claim leases rows of different articles, which no other run has leased and
\* the cache does not know.
LEMMA ClaimKeepsInv ==
  ASSUME ResolverInv, NEW r \in Runs, NEW age \in Modes, ClaimBatch(r, age)
  PROVE  ResolverInv'
<1> USE DEF ResolverInv, RowsOK
<1>1. PICK S \in Batches(age) : ClaimRows(r, S) /\ batch' = [batch EXCEPT ![r] = S]
  BY DEF ClaimBatch
<1>2. UNCHANGED <<cache, cooldown>>
  BY DEF ClaimBatch
<1>3. S \subseteq Eligible(age) /\ S \subseteq Observations
  BY ResolverAssumption DEF Batches, Eligible
<1>4. \A o \in Observations : obs'[o] = IF o \in S THEN Claimed(r, o) ELSE Refreshed(o)
  BY <1>1 DEF ClaimRows, Claimed
<1>5. \A o \in Observations : RowOK(o, obs'[o])
  BY <1>3, <1>4, ClaimedRow, RefreshedRow
<1>6. RowsOK'
  <2>1. obs' \in [Observations -> ObsRow]
    <3>1. obs' = [o \in Observations |-> obs'[o]]
      BY <1>1 DEF ClaimRows
    <3> QED BY <3>1, <1>5 DEF RowOK
  <2>2. batch' \in [Runs -> SUBSET Observations]
    BY <1>1, <1>3
  <2> QED BY <1>2, <1>5, <2>1, <2>2 DEF RowOK
<1>7. \A o \in S : /\ obs'[o].status = "CLAIMED" /\ ~Cached(o)
                   /\ \A i \in Observations : ArticleOf[i] = ArticleOf[o] => ~Leased(i)
  BY <1>3, <1>4, ClaimedRow DEF Eligible
<1>8. \A o \in Observations \ S : obs'[o].status = "CLAIMED" => obs'[o] = obs[o]
  BY <1>4, RefreshedRow
<1>9. \A i, j \in S : ArticleOf[i] = ArticleOf[j] => i = j
  BY DEF Batches
<1>10. OneLeasePerArticle'
  BY <1>7, <1>8, <1>9 DEF OneLeasePerArticle, Leased
<1>11. LeasedNotCached'
  BY <1>2, <1>7, <1>8 DEF LeasedNotCached, Leased, Cached
<1>12. ResolvedAsCached'
  <2> SUFFICES ASSUME NEW o \in Observations, obs'[o].status = "RESOLVED"
               PROVE  obs'[o].url = cache[ArticleOf[o]] /\ obs'[o].url # NoUrl
    BY <1>2 DEF ResolvedAsCached
  <2>1. o \notin S
    BY <1>7
  <2>2. obs'[o] = Refreshed(o)
    BY <1>4, <2>1
  <2> QED BY <2>2, RefreshedRow DEF ResolvedAsCached
<1> QED BY <1>6, <1>10, <1>11, <1>12

-----------------------------------------------------------------------------
(* A completion *)

\* An article a completion resolves is resolved by one row of the batch, which
\* no other row shares and the cache does not know yet.
LEMMA OneResolution ==
  ASSUME ResolverInv, NEW r \in Runs, NEW out, DOMAIN out \subseteq Observations,
         \A o \in DOMAIN out : HoldsLease(r, o),
         NEW o \in DOMAIN out, out[o].status = "RESOLVED"
  PROVE  /\ Resolutions(out, ArticleOf[o]) = {o}
         /\ cache[ArticleOf[o]] = NoUrl /\ ArticleOf[o] \in Articles
<1> USE DEF ResolverInv, RowsOK
<1>1. \A i \in DOMAIN out : i \in Observations /\ Leased(i)
  <2> SUFFICES ASSUME NEW i \in DOMAIN out PROVE Leased(i)
    OBVIOUS
  <2> QED BY ResolverAssumption DEF HoldsLease, RowOK, Leased
<1>2. ArticleOf[o] \in Articles
  BY <1>1 DEF Leased, RowOK
<1>3. cache[ArticleOf[o]] = NoUrl
  BY <1>1, <1>2, ResolverAssumption DEF LeasedNotCached, Cached
<1>4. \A i \in Resolutions(out, ArticleOf[o]) : i = o
  BY <1>1 DEF Resolutions, OneLeasePerArticle
<1> QED BY <1>2, <1>3, <1>4 DEF Resolutions

LEMMA CompleteKeepsInv ==
  ASSUME ResolverInv, NEW r \in Runs, CompleteBatch(r)
  PROVE  ResolverInv'
<1> USE DEF ResolverInv, RowsOK
<1>0. PICK out \in [batch[r] -> Outcomes] : \E cool \in CooldownsFor(out) : Complete(r, out, cool)
  BY DEF CompleteBatch
<1>1. PICK cool \in CooldownsFor(out) : Complete(r, out, cool)
  BY <1>0
<1>2. batch' = [batch EXCEPT ![r] = {}]
  BY DEF CompleteBatch
<1>3. DOMAIN out = batch[r] /\ batch[r] \subseteq Observations /\ cool \in Nat
  BY ResolverAssumption DEF CooldownsFor
<1>4. \A o \in DOMAIN out : HoldsLease(r, o) /\ out[o] \in Outcomes
  BY <1>1, <1>3 DEF Complete
<1> DEFINE Other(o) == obs[o].status \in Open /\ Resolutions(out, ArticleOf[o]) # {}
           Duplicate(o) == [obs[o] EXCEPT !.status = "RESOLVED", !.url = cache'[ArticleOf[o]],
                              !.leasedBy = NoRun, !.lease = 0, !.wait = 0]
<1>5. \A a \in Articles :
        cache'[a] = IF cache[a] = NoUrl /\ Resolutions(out, a) # {}
                    THEN out[CHOOSE o \in Resolutions(out, a) : TRUE].url ELSE cache[a]
  BY <1>1 DEF Complete
<1>6. \A o \in Observations :
        obs'[o] = IF o \in DOMAIN out THEN Reported(o, out, cool)
                  ELSE IF Other(o) THEN Duplicate(o) ELSE obs[o]
  BY <1>1 DEF Complete
\* What the cache holds afterwards.
<1>7. \A o \in DOMAIN out : out[o].status = "RESOLVED" =>
        /\ ArticleOf[o] \in Articles
        /\ cache'[ArticleOf[o]] = out[o].url /\ out[o].url \in Urls
  <2> SUFFICES ASSUME NEW o \in DOMAIN out, out[o].status = "RESOLVED"
               PROVE  /\ ArticleOf[o] \in Articles
                      /\ cache'[ArticleOf[o]] = out[o].url /\ out[o].url \in Urls
    OBVIOUS
  <2>1. /\ Resolutions(out, ArticleOf[o]) = {o} /\ cache[ArticleOf[o]] = NoUrl
        /\ ArticleOf[o] \in Articles
    BY <1>3, <1>4, OneResolution
  <2>2. out[o].url \in Urls
    BY <1>4 DEF Outcomes
  <2>3. (CHOOSE i \in Resolutions(out, ArticleOf[o]) : TRUE) = o
    BY <2>1
  <2> QED BY <1>5, <2>1, <2>2, <2>3
<1>8. \A a \in Articles : /\ cache[a] # NoUrl => cache'[a] = cache[a]
                          /\ Resolutions(out, a) = {} => cache'[a] = cache[a]
                          /\ Resolutions(out, a) # {} => cache'[a] \in Urls
  <2> SUFFICES ASSUME NEW a \in Articles
               PROVE  /\ cache[a] # NoUrl => cache'[a] = cache[a]
                      /\ Resolutions(out, a) = {} => cache'[a] = cache[a]
                      /\ Resolutions(out, a) # {} => cache'[a] \in Urls
    OBVIOUS
  <2>1. Resolutions(out, a) # {} => cache'[a] \in Urls
    BY <1>7 DEF Resolutions
  <2> QED BY <1>5, <2>1
<1>9. cache' \in [Articles -> Urls \cup {NoUrl}]
  <2>1. cache' = [a \in Articles |->
          IF cache[a] = NoUrl /\ Resolutions(out, a) # {}
          THEN out[CHOOSE o \in Resolutions(out, a) : TRUE].url ELSE cache[a]]
    BY <1>1 DEF Complete
  <2>2. \A a \in Articles : cache'[a] \in Urls \cup {NoUrl}
    BY <1>8
  <2> HIDE DEF RowsOK
  <2> QED BY <2>1, <2>2
\* What becomes of each row.
<1>10. \A o \in Observations \ DOMAIN out : Other(o) =>
         /\ RowOK(o, Duplicate(o)) /\ Duplicate(o).status = "RESOLVED"
         /\ ArticleOf[o] \in Articles
         /\ Duplicate(o).url = cache'[ArticleOf[o]] /\ Duplicate(o).url \in Urls
  <2> SUFFICES ASSUME NEW o \in Observations \ DOMAIN out, Other(o)
               PROVE  /\ RowOK(o, Duplicate(o)) /\ Duplicate(o).status = "RESOLVED"
                      /\ ArticleOf[o] \in Articles
                      /\ Duplicate(o).url = cache'[ArticleOf[o]] /\ Duplicate(o).url \in Urls
    OBVIOUS
  <2>1. RowOK(o, obs[o]) /\ obs[o].status \in Open
    OBVIOUS
  <2>2. obs[o] \in ObsRow /\ ArticleOf[o] \in Articles
    BY <2>1 DEF RowOK, Open
  <2>3. cache'[ArticleOf[o]] \in Urls
    BY <1>8, <2>2
  <2>4. /\ Duplicate(o) \in ObsRow /\ Duplicate(o).status = "RESOLVED"
        /\ Duplicate(o).url = cache'[ArticleOf[o]] /\ Duplicate(o).leasedBy = NoRun
    BY <2>2, <2>3 DEF ObsRow, ObsStatus
  <2> HIDE DEF Duplicate
  <2> QED BY <2>2, <2>3, <2>4 DEF RowOK
<1>11. \A o \in DOMAIN out :
         /\ RowOK(o, Reported(o, out, cool)) /\ Reported(o, out, cool).status # "CLAIMED"
         /\ Reported(o, out, cool).url = out[o].url
         /\ (Reported(o, out, cool).status = "RESOLVED" <=> out[o].status = "RESOLVED")
  BY <1>3, <1>4, ReportedRow
<1> HIDE DEF Other, Duplicate
<1>12. \A o \in Observations : RowOK(o, obs'[o])
  BY <1>6, <1>10, <1>11
<1>13. RowsOK'
  <2>1. obs' \in [Observations -> ObsRow]
    <3>1. obs' = [o \in Observations |->
            IF o \in DOMAIN out THEN Reported(o, out, cool)
            ELSE IF Other(o) THEN Duplicate(o) ELSE obs[o]]
      BY <1>1 DEF Complete, Other, Duplicate
    <3>2. \A o \in Observations : obs'[o] \in ObsRow
      BY <1>12 DEF RowOK
    <3> HIDE DEF RowsOK
    <3> QED BY <3>1, <3>2
  <2>2. cooldown' \in Nat
    BY <1>1, <1>3 DEF Complete
  <2>3. batch' \in [Runs -> SUBSET Observations]
    BY <1>2
  <2> QED BY <1>9, <1>12, <2>1, <2>2, <2>3 DEF RowOK
\* No row is leased that was not, and none whose article was resolved.
<1>14. \A o \in Observations : Leased(o)' => Leased(o) /\ o \notin DOMAIN out
  BY <1>6, <1>10, <1>11 DEF Leased
<1>15. OneLeasePerArticle'
  BY <1>14 DEF OneLeasePerArticle
<1>16. LeasedNotCached'
  <2> SUFFICES ASSUME NEW o \in Observations, Leased(o)' PROVE ~Cached(o)'
    BY DEF LeasedNotCached
  <2>1. Leased(o) /\ o \notin DOMAIN out
    BY <1>14
  <2>2. ArticleOf[o] \in Articles /\ cache[ArticleOf[o]] = NoUrl
    BY <2>1, ResolverAssumption DEF LeasedNotCached, Cached, Leased, RowOK
  <2>3. \A i \in DOMAIN out : Leased(i) /\ i \in Observations
    <3> SUFFICES ASSUME NEW i \in DOMAIN out PROVE Leased(i) /\ i \in Observations
      OBVIOUS
    <3> QED BY <1>3, <1>4, ResolverAssumption DEF HoldsLease, Leased, RowOK
  <2>4. Resolutions(out, ArticleOf[o]) = {}
    BY <2>1, <2>3 DEF Resolutions, OneLeasePerArticle
  <2> QED BY <1>8, <2>2, <2>4 DEF Cached
<1>17. ResolvedAsCached'
  <2> SUFFICES ASSUME NEW o \in Observations, obs'[o].status = "RESOLVED"
               PROVE  obs'[o].url = cache'[ArticleOf[o]] /\ obs'[o].url # NoUrl
    BY DEF ResolvedAsCached
  <2>1. CASE o \in DOMAIN out
    BY <1>6, <1>7, <1>11, <2>1, ResolverAssumption
  <2>2. CASE o \notin DOMAIN out /\ Other(o)
    BY <1>6, <1>10, <2>2, ResolverAssumption
  <2>3. CASE o \notin DOMAIN out /\ ~Other(o)
    <3>1. obs'[o] = obs[o]
      BY <1>6, <2>3
    <3>2. ArticleOf[o] \in Articles
      BY <3>1 DEF RowOK
    <3> QED BY <3>1, <3>2, <1>8 DEF ResolvedAsCached
  <2> QED BY <2>1, <2>2, <2>3
<1> QED BY <1>13, <1>15, <1>16, <1>17

-----------------------------------------------------------------------------
(* The other steps write no URL and lease nothing *)

LEMMA RowStepKeepsInv ==
  ASSUME ResolverInv, RowsOK', UNCHANGED cache,
         \A o \in Observations : /\ obs'[o].url = obs[o].url
                                 /\ obs'[o].status = "RESOLVED" => obs[o].status = "RESOLVED"
                                 /\ Leased(o)' => Leased(o)
  PROVE  ResolverInv'
<1>1. OneLeasePerArticle'
  BY DEF ResolverInv, OneLeasePerArticle
<1>2. LeasedNotCached'
  BY DEF ResolverInv, LeasedNotCached, Cached
<1>3. ResolvedAsCached'
  BY DEF ResolverInv, ResolvedAsCached
<1> QED BY <1>1, <1>2, <1>3 DEF ResolverInv

LEMMA DiscoverKeepsInv ==
  ASSUME ResolverInv, NEW o \in Observations, Discover(o)
  PROVE  ResolverInv'
<1> USE DEF ResolverInv, RowsOK
<1>1. PICK age \in Ages :
        obs' = [obs EXCEPT ![o] = [@ EXCEPT !.age = age,
          !.status = IF ArticleOf[o] = NoArticle THEN "EXCLUDED" ELSE "PENDING"]]
  BY DEF Discover
<1>2. obs[o] \in ObsRow /\ RowOK(o, obs[o]) /\ obs[o].status = "ABSENT"
  BY DEF Discover
<1>3. /\ obs'[o] \in ObsRow /\ obs'[o].attempts = obs[o].attempts /\ obs'[o].wait = obs[o].wait
      /\ obs'[o].leasedBy = obs[o].leasedBy /\ obs'[o].url = obs[o].url
      /\ obs'[o].status = IF ArticleOf[o] = NoArticle THEN "EXCLUDED" ELSE "PENDING"
  BY <1>1, <1>2 DEF ObsRow, ObsStatus
<1>4. RowOK(o, obs'[o])
  <2>1. ArticleOf[o] # NoArticle => ArticleOf[o] \in Articles
    BY ResolverAssumption
  <2>2. 0 < MaxAttempts /\ 0 # Never
    BY ResolverAssumption DEF Never
  <2> QED BY <1>2, <1>3, <2>1, <2>2 DEF RowOK
<1>5. \A i \in Observations : i # o => obs'[i] = obs[i]
  BY <1>1
<1>6. RowsOK'
  <2>1. obs' \in [Observations -> ObsRow]
    BY <1>1, <1>3
  <2> QED BY <1>4, <1>5, <2>1 DEF Discover, RowOK
<1>7. \A i \in Observations : /\ obs'[i].url = obs[i].url
                              /\ obs'[i].status = "RESOLVED" => obs[i].status = "RESOLVED"
                              /\ Leased(i)' => Leased(i)
  BY <1>3, <1>5 DEF Leased
<1> QED BY <1>6, <1>7, RowStepKeepsInv DEF Discover

LEMMA AbandonKeepsInv ==
  ASSUME ResolverInv, NEW r \in Runs, Abandon(r)
  PROVE  ResolverInv'
<1>1. UNCHANGED <<obs, cache, cooldown>>
  BY DEF Abandon
<1>2. batch' \in [Runs -> SUBSET Observations]
  BY DEF Abandon, ResolverInv, RowsOK
<1>3. RowsOK'
  BY <1>1, <1>2 DEF ResolverInv, RowsOK, RowOK
<1>4. \A o \in Observations : Leased(o)' => Leased(o)
  BY <1>1 DEF Leased
<1> QED BY <1>1, <1>3, <1>4, RowStepKeepsInv

LEMMA GrowsOldKeepsInv ==
  ASSUME ResolverInv, NEW o \in Observations, GrowsOld(o)
  PROVE  ResolverInv'
<1> USE DEF ResolverInv, RowsOK
<1>1. PICK age \in Ages : obs' = [obs EXCEPT ![o] = [@ EXCEPT !.age = age]]
  BY DEF GrowsOld, Ages
<1>2. obs[o] \in ObsRow /\ RowOK(o, obs[o])
  OBVIOUS
<1>3. /\ obs'[o] \in ObsRow /\ obs'[o].status = obs[o].status /\ obs'[o].url = obs[o].url
      /\ obs'[o].attempts = obs[o].attempts /\ obs'[o].wait = obs[o].wait
      /\ obs'[o].leasedBy = obs[o].leasedBy /\ obs'[o].lease = obs[o].lease
  BY <1>1, <1>2 DEF ObsRow
<1>4. RowOK(o, obs'[o])
  BY <1>2, <1>3 DEF RowOK
<1>5. \A i \in Observations : i # o => obs'[i] = obs[i]
  BY <1>1
<1>6. RowsOK'
  <2>1. obs' \in [Observations -> ObsRow]
    BY <1>1, <1>3
  <2> QED BY <1>4, <1>5, <2>1 DEF GrowsOld, RowOK
<1>7. \A i \in Observations : /\ obs'[i].url = obs[i].url
                              /\ obs'[i].status = "RESOLVED" => obs[i].status = "RESOLVED"
                              /\ Leased(i)' => Leased(i)
  BY <1>3, <1>5 DEF Leased
<1> QED BY <1>6, <1>7, RowStepKeepsInv DEF GrowsOld

\* Counting down reaches neither infinity nor below zero.
LEMMA LessTime ==
  ASSUME NEW n \in Nat \cup {Never}
  PROVE  /\ Less(n) \in Nat \cup {Never}
         /\ Less(n) = Never <=> n = Never
         /\ n \in Nat => Less(n) \in Nat
         /\ n = 0 => Less(n) = 0
         /\ Less(n) > 0 => n > 0
  BY DEF Less, Never

LEMMA TickKeepsInv ==
  ASSUME ResolverInv, Tick
  PROVE  ResolverInv'
<1> USE DEF ResolverInv, RowsOK
<1>1. \A o \in Observations :
        obs'[o] = [obs[o] EXCEPT !.wait = Less(obs[o].wait), !.lease = Less(obs[o].lease)]
  BY DEF Tick
<1>2. ASSUME NEW o \in Observations
      PROVE  /\ RowOK(o, obs'[o])
             /\ obs'[o].url = obs[o].url
             /\ obs'[o].status = "RESOLVED" => obs[o].status = "RESOLVED"
             /\ Leased(o)' => Leased(o)
  <2>1. obs[o] \in ObsRow /\ RowOK(o, obs[o])
    OBVIOUS
  <2>2. obs[o].wait \in Nat \cup {Never} /\ obs[o].lease \in Nat
    BY <2>1 DEF ObsRow
  <2>3. /\ Less(obs[o].wait) \in Nat \cup {Never} /\ Less(obs[o].lease) \in Nat
        /\ Less(obs[o].wait) = Never <=> obs[o].wait = Never
        /\ obs[o].wait = 0 => Less(obs[o].wait) = 0
        /\ Less(obs[o].lease) > 0 => obs[o].lease > 0
    BY <2>2, LessTime
  <2>4. /\ obs'[o] \in ObsRow /\ obs'[o].status = obs[o].status /\ obs'[o].url = obs[o].url
        /\ obs'[o].attempts = obs[o].attempts /\ obs'[o].wait = Less(obs[o].wait)
        /\ obs'[o].leasedBy = obs[o].leasedBy /\ obs'[o].lease = Less(obs[o].lease)
    BY <1>1, <2>1, <2>3 DEF ObsRow
  <2>5. RowOK(o, obs'[o])
    BY <2>1, <2>3, <2>4 DEF RowOK
  <2> QED BY <2>3, <2>4, <2>5 DEF Leased
<1>3. RowsOK'
  <2>1. obs' \in [Observations -> ObsRow]
    <3>1. obs' = [o \in Observations |->
            [obs[o] EXCEPT !.wait = Less(obs[o].wait), !.lease = Less(obs[o].lease)]]
      BY DEF Tick
    <3>2. \A o \in Observations : obs'[o] \in ObsRow
      BY <1>2 DEF RowOK
    <3> HIDE DEF RowsOK
    <3> QED BY <3>1, <3>2
  <2>2. cooldown' \in Nat
    BY LessTime DEF Tick
  <2> QED BY <1>2, <2>1, <2>2 DEF Tick, RowOK
<1> QED BY <1>2, <1>3, RowStepKeepsInv DEF Tick

-----------------------------------------------------------------------------
(* The invariant, and what follows from it *)

LEMMA InitEstablishesInv == ResolverInit => ResolverInv
<1> SUFFICES ASSUME ResolverInit PROVE ResolverInv
  OBVIOUS
<1>1. Unseen \in ObsRow /\ \A o \in Observations : RowOK(o, Unseen)
  BY ResolverAssumption DEF Unseen, ObsRow, ObsStatus, Ages, RowOK, Never
<1>2. \A o \in Observations : obs[o].status = "ABSENT"
  BY DEF ResolverInit, Unseen
<1>3. RowsOK
  BY <1>1 DEF ResolverInit, RowsOK
<1>4. OneLeasePerArticle /\ LeasedNotCached /\ ResolvedAsCached
  BY <1>2 DEF OneLeasePerArticle, LeasedNotCached, ResolvedAsCached, Leased
<1> QED BY <1>3, <1>4 DEF ResolverInv

LEMMA StepKeepsInv == ResolverInv /\ [ResolverNext]_resolverVars => ResolverInv'
<1> SUFFICES ASSUME ResolverInv, [ResolverNext]_resolverVars PROVE ResolverInv'
  OBVIOUS
<1>1. ASSUME NEW o \in Observations, Discover(o) PROVE ResolverInv'
  BY <1>1, DiscoverKeepsInv
<1>2. ASSUME NEW r \in Runs, NEW age \in Modes, ClaimBatch(r, age) PROVE ResolverInv'
  BY <1>2, ClaimKeepsInv
<1>3. ASSUME NEW r \in Runs, CompleteBatch(r) PROVE ResolverInv'
  BY <1>3, CompleteKeepsInv
<1>4. ASSUME NEW r \in Runs, Abandon(r) PROVE ResolverInv'
  BY <1>4, AbandonKeepsInv
<1>5. ASSUME NEW o \in Observations, GrowsOld(o) PROVE ResolverInv'
  BY <1>5, GrowsOldKeepsInv
<1>6. CASE Tick
  BY <1>6, TickKeepsInv
<1>7. CASE UNCHANGED resolverVars
  BY <1>7 DEF ResolverInv, RowsOK, RowOK, OneLeasePerArticle, LeasedNotCached,
              ResolvedAsCached, Leased, Cached, resolverVars
<1> QED BY <1>1, <1>2, <1>3, <1>4, <1>5, <1>6, <1>7 DEF ResolverNext

LEMMA ResolverInvariance == ResolverSpec => []ResolverInv
  BY InitEstablishesInv, StepKeepsInv, PTL DEF ResolverSpec

\* The rows, the cache and the batches keep their types
\* (discovery_observations, gnews_article_url_cache).
THEOREM ResolverTyping == ResolverSpec => []ResolverTypeOK
<1>1. ResolverInv => ResolverTypeOK
  BY DEF ResolverInv, RowsOK, ResolverTypeOK
<1> QED BY <1>1, ResolverInvariance, PTL

\* No article is leased twice at once (gnews_resolver_claim_batch).
THEOREM ArticlesAreLeasedOnce == ResolverSpec => []OneLeasePerArticle
<1>1. ResolverInv => OneLeasePerArticle
  BY DEF ResolverInv
<1> QED BY <1>1, ResolverInvariance, PTL

\* No leased row's article is cached, so no completion conflicts with the cache
\* (gnews_resolver_complete_batch).
THEOREM LeasesAreUncached == ResolverSpec => []LeasedNotCached
<1>1. ResolverInv => LeasedNotCached
  BY DEF ResolverInv
<1> QED BY <1>1, ResolverInvariance, PTL

\* All resolved rows of an article carry the cached URL (completion, its
\* propagation to duplicates, and the claim's use of the cache).
THEOREM ResolutionsAgree == ResolverSpec => []ResolvedAsCached
<1>1. ResolverInv => ResolvedAsCached
  BY DEF ResolverInv
<1> QED BY <1>1, ResolverInvariance, PTL

\* No row waits whose attempts are over, none is leased but a claimed one, and a failed
\* row is given up exactly when its attempts are over (backoff and last attempt in
\* gnews_resolver_complete_batch and gnews_resolver_claim_batch).
THEOREM NoRowIsStranded == ResolverSpec => []NoStrandedRow
<1>1. ResolverInv => NoStrandedRow
  BY DEF ResolverInv, RowsOK, RowOK, NoStrandedRow
<1> QED BY <1>1, ResolverInvariance, PTL

\* A resolved row never changes its status or URL, whatever claims and late
\* completions follow.
THEOREM ResolutionsAreFinal == ResolverSpec => ResolvedIsFinal
<1> DEFINE Final == \A o \in Observations : obs[o].status = "RESOLVED" =>
                      obs'[o].status = "RESOLVED" /\ obs'[o].url = obs[o].url
<1>1. ResolverInv /\ [ResolverNext]_resolverVars => [Final]_resolverVars
  <2> SUFFICES ASSUME ResolverInv, ResolverNext,
                      NEW o \in Observations, obs[o].status = "RESOLVED"
               PROVE  obs'[o].status = "RESOLVED" /\ obs'[o].url = obs[o].url
    OBVIOUS
  <2> USE DEF ResolverInv, RowsOK
  <2>1. ASSUME NEW i \in Observations, Discover(i) \/ GrowsOld(i)
        PROVE  obs'[o].status = "RESOLVED" /\ obs'[o].url = obs[o].url
    <3>1. CASE i # o
      BY <2>1, <3>1 DEF Discover, GrowsOld
    <3>2. CASE i = o
      <4>1. \E age \in Ages : obs' = [obs EXCEPT ![o] = [@ EXCEPT !.age = age]]
        BY <2>1, <3>2 DEF Discover, GrowsOld, Ages
      <4>2. obs[o] \in ObsRow
        OBVIOUS
      <4> QED BY <4>1, <4>2 DEF ObsRow
    <3> QED BY <3>1, <3>2
  <2>2. ASSUME NEW r \in Runs, NEW age \in Modes, ClaimBatch(r, age)
        PROVE  obs'[o].status = "RESOLVED" /\ obs'[o].url = obs[o].url
    <3>1. PICK S \in Batches(age) : ClaimRows(r, S)
      BY <2>2 DEF ClaimBatch
    <3>2. Refreshed(o) = obs[o]
      BY RefreshedRow
    <3>3. o \notin S
      BY <3>2 DEF Batches, Eligible, Open
    <3> QED BY <3>1, <3>2, <3>3 DEF ClaimRows
  <2>3. ASSUME NEW r \in Runs, CompleteBatch(r)
        PROVE  obs'[o].status = "RESOLVED" /\ obs'[o].url = obs[o].url
    <3>1. PICK out \in [batch[r] -> Outcomes] : \E cool \in CooldownsFor(out) : Complete(r, out, cool)
      BY <2>3 DEF CompleteBatch
    <3>2. PICK cool \in CooldownsFor(out) : Complete(r, out, cool)
      BY <3>1
    <3>3. o \notin DOMAIN out
      BY <3>2, ResolverAssumption DEF Complete, HoldsLease, RowOK
    <3> QED BY <3>2, <3>3 DEF Complete, Open
  <2>4. ASSUME Tick
        PROVE  obs'[o].status = "RESOLVED" /\ obs'[o].url = obs[o].url
    <3>1. obs'[o] = [obs[o] EXCEPT !.wait = Less(obs[o].wait), !.lease = Less(obs[o].lease)]
      BY <2>4 DEF Tick
    <3>2. obs[o] \in ObsRow
      OBVIOUS
    <3> QED BY <3>1, <3>2 DEF ObsRow
  <2>5. ASSUME NEW r \in Runs, Abandon(r)
        PROVE  obs'[o].status = "RESOLVED" /\ obs'[o].url = obs[o].url
    BY <2>5 DEF Abandon
  <2> QED BY <2>1, <2>2, <2>3, <2>4, <2>5 DEF ResolverNext
<1> QED BY <1>1, ResolverInvariance, PTL DEF ResolverSpec, ResolvedIsFinal

-----------------------------------------------------------------------------
(* Discovery and promotion.                                                *)

\* A list has a place for each of its entries.
IsList(list) ==
    /\ \A e \in list : e.at \in Nat
    /\ \A e, f \in list : e.at = f.at => e = f

NoDoubles(list) == \A e, f \in list : e.item = f.item => e = f

RowTypes ==
    /\ DOMAIN observation \subseteq Items
    /\ \A i \in DOMAIN observation :
         DOMAIN observation[i] = {"story", "job", "seen"} /\ observation[i].seen \in DiscoveryRuns

DiscoveryTypes ==
    /\ RowTypes
    /\ DOMAIN run = DiscoveryRuns
    /\ \A d \in DiscoveryRuns :
         /\ DOMAIN run[d] = {"pc", "queries", "failed", "items", "read", "todo", "stories", "clusters", "status"}
         /\ IsList(run[d].items) /\ NoDoubles(run[d].items)

\* An assignment that was read still stands.
Still(i, s) == i \in DOMAIN observation /\ (s # NoStory => observation[i].story = s)

\* What a run has stored it has the stories of, as they were and are.
Stored(d) ==
    /\ \A i \in DOMAIN run[d].stories : Still(i, run[d].stories[i])
    /\ run[d].pc = "store" => ItemsOf(run[d].items) \ run[d].todo \subseteq DOMAIN run[d].stories
    /\ run[d].pc = "snapshot" => ItemsOf(run[d].items) \subseteq DOMAIN run[d].stories

SnapshotsStand == \A s \in snapshot : s.story # NoStory => \E i \in ItemsOf(s.items) : Still(i, s.story)

\* The clusters a run has, and those it has saved, part its relevant entries, each under a
\* key of its own.
KeyOf(cluster) == Item[Earliest(cluster).item].fingerprint
Relevants(d) == {e \in run[d].items : Relevant(TextOf(d, e.item))}
Saved(d) == {s \in snapshot : s.run = d}
Parts(d) == run[d].clusters \cup {s.items : s \in Saved(d)}

IsPartition(parts, list) ==
    /\ UNION parts = list
    /\ {} \notin parts
    /\ \A c, e \in parts : c \cap e # {} \/ KeyOf(c) = KeyOf(e) => c = e

MentionsOf(d) ==
    /\ run[d].pc \in {"idle", "search", "enrich", "store"} => Saved(d) = {}
    /\ run[d].pc = "snapshot" =>
         /\ IsPartition(Parts(d), Relevants(d))
         /\ \A s \in Saved(d) : s.key = KeyOf(s.items) /\ s.items \notin run[d].clusters
         /\ \A s, t \in Saved(d) : s.items = t.items => s = t

RunInv(d) == Stored(d) /\ MentionsOf(d)

DiscoveryInv == DiscoveryTypes /\ SnapshotsStand /\ \A d \in DiscoveryRuns : RunInv(d)

-----------------------------------------------------------------------------
\* What a job may promote, whenever it lists it.
Able(i) == /\ Item[i].provider = Google => Item[i].resolved
           /\ Promotable(i)

Busy(p) == promoter[p].pc \in {"item", "assign", "claim"}

\* What a job has listed and not yet claimed.
Pending(p) == ItemsOf(promoter[p].rest) \cup ItemsOf(UNION promoter[p].clusters)

PromotionTypes ==
    /\ DOMAIN story = 1..MaxStories
    /\ DOMAIN promoter = Promoters
    /\ \A p \in Promoters :
         /\ DOMAIN promoter[p] = {"pc", "clusters", "seen", "listed", "target", "rest", "affected"}
         /\ IsList(promoter[p].rest)
         /\ \A c \in promoter[p].clusters : c # {} /\ IsList(c)

Target(p) ==
    IF Busy(p) THEN /\ promoter[p].rest # {}
                    /\ promoter[p].target # NoStory /\ promoter[p].target \in promoter[p].affected
                    /\ promoter[p].pc = "claim" => Still(Current(p), promoter[p].target)
    ELSE promoter[p].rest = {}

\* What is listed may be promoted, and is the job's own if it repairs.
Listing(p) ==
    \A i \in Pending(p) :
        /\ i \in DOMAIN observation /\ Able(i)
        /\ Asked[p].only # NoName => observation[i].job = Asked[p].job

\* A row with a job has a story, and could be listed.
JobRows == \A i \in DOMAIN observation : observation[i].job # NoName => observation[i].story # NoStory /\ Able(i)

ClaimsStand == \A c \in claims : c.story # NoStory /\ Still(c.item, c.story)

\* A report's claim whose assignment is neither done nor given up is some job's next step.
ReportsStand ==
    \A r \in reports :
        /\ r.item \in DOMAIN observation /\ r.story # NoStory
        /\ \/ observation[r.item].story = r.story
           \/ r \in forsaken
           \/ \E p \in Promoters : r \in Unassigned(p)

Handled(p, i) ==
    /\ [item |-> i, story |-> observation[i].story] \in claims
    /\ observation[i].story \in promoter[p].affected

\* Of the rows with the id of a whole job those that are not claimed are still to be done.
Whole(p) ==
    WholeJob(p) /\ promoter[p].pc # "idle" =>
        \A i \in DOMAIN observation : observation[i].job = Asked[p].job =>
            Handled(p, i) \/ (promoter[p].pc # "done" /\ i \in Pending(p))

PromoterInv(p) == Target(p) /\ Listing(p) /\ Whole(p)

PromotionInv == PromotionTypes /\ JobRows /\ ClaimsStand /\ \A p \in Promoters : PromoterInv(p)

-----------------------------------------------------------------------------
(* Lists and clusters.                                                     *)

LEMMA LeastOfNaturals ==
  ASSUME NEW T \in SUBSET Nat, T # {}
  PROVE  \E x \in T : \A y \in T : x <= y
<1> DEFINE less == OpToRel(<, Nat)
<1>1. \A x, y \in T : y < x => <<y, x>> \in less
  BY DEF OpToRel
<1>2. IsWellFoundedOn(less, Nat)
  BY NatLessThanWellFounded
<1> HIDE DEF less
<1>3. \E x \in T : \A y \in T : ~ (<<y, x>> \in less)
  BY <1>2, WFMin, Zenon
<1>4. PICK x \in T : \A y \in T : ~ (y < x)
  BY <1>1, <1>3
<1> QED
  BY <1>4

\* The first entry of a list is one, and none is before it.
LEMMA EarliestIsFirst ==
  ASSUME NEW list, list # {}, \A e \in list : e.at \in Nat
  PROVE  Earliest(list) \in list /\ \A f \in list : Earliest(list).at <= f.at
<1> DEFINE places == {e.at : e \in list}
<1>1. places \in SUBSET Nat /\ places # {}
  OBVIOUS
<1>2. PICK x \in places : \A y \in places : x <= y
  BY <1>1, LeastOfNaturals
<1>3. PICK e \in list : e.at = x
  BY <1>2
<1>4. \A f \in list : e.at <= f.at
  BY <1>2, <1>3
<1> QED
  BY <1>4 DEF Earliest

LEMMA EarliestOfOne ==
  ASSUME NEW l, l.at \in Nat
  PROVE  Earliest({l}) = l
BY EarliestIsFirst

\* A part of a list is one.
LEMMA PartIsList ==
  ASSUME NEW list, IsList(list), NEW part, part \subseteq list
  PROVE  IsList(part)
BY DEF IsList

\* Entries with one fingerprint are led by one entry.
LEMMA OneLeader ==
  ASSUME NEW list, IsList(list), NEW lead \in [list -> list],
         \A e \in list : lead[e] = ClusterFor(e, lead)
  PROVE  \A e, f \in list : Item[e.item].fingerprint = Item[f.item].fingerprint => lead[e] = lead[f]
<1> DEFINE same(e, f) == Item[e.item].fingerprint = Item[f.item].fingerprint
           astray(e) == \E f \in list : f.at < e.at /\ same(e, f) /\ lead[f] # lead[e]
           bad == {e \in list : astray(e)}
<1>1. bad = {}
  <2>1. SUFFICES ASSUME bad # {} PROVE FALSE
    OBVIOUS
  <2>2. \A e \in bad : e.at \in Nat
    BY DEF IsList
  <2> DEFINE e == Earliest(bad)
  <2>3. e \in bad /\ \A f \in bad : e.at <= f.at
    BY <2>1, <2>2, EarliestIsFirst
  <2> HIDE DEF e
  <2>4. e \in list /\ e.at \in Nat /\ \A f \in list : f.at \in Nat
    BY <2>3 DEF IsList
  <2>5. PICK g \in list : g.at < e.at /\ same(e, g) /\ lead[g] # lead[e]
    BY <2>3
  <2> DEFINE exact == {f \in {f \in DOMAIN lead : f.at < e.at} : Item[f.item].fingerprint = Item[e.item].fingerprint}
  <2>6. g \in exact
    BY <2>5
  <2>7. ASSUME NEW f \in exact PROVE lead[f] = lead[g]
    <3>1. f \in list /\ f.at < e.at /\ same(f, g)
      BY <2>5
    <3>2. f \notin bad /\ g \notin bad
      BY <2>3, <2>4, <2>5, <3>1
    <3>3. CASE f.at < g.at
      BY <3>1, <3>2, <3>3
    <3>4. CASE g.at < f.at
      BY <3>1, <3>2, <3>4
    <3>5. CASE f.at = g.at
      BY <3>1, <3>5 DEF IsList
    <3> QED
      BY <2>4, <3>1, <3>3, <3>4, <3>5
  <2>8. {lead[f] : f \in exact} = {lead[g]}
    BY <2>6, <2>7
  <2>9. lead[e] = Earliest({lead[f] : f \in exact})
    BY <2>4, <2>6 DEF ClusterFor
  <2>10. lead[g] \in list /\ lead[g].at \in Nat
    BY <2>4, <2>5
  <2>11. lead[e] = lead[g]
    BY <2>8, <2>9, <2>10, EarliestOfOne
  <2> QED
    BY <2>5, <2>11
<1>2. ASSUME NEW e \in list, NEW f \in list, same(e, f) PROVE lead[e] = lead[f]
  <2>1. e.at \in Nat /\ f.at \in Nat
    BY DEF IsList
  <2>2. CASE e.at < f.at
    BY <1>1, <1>2, <2>2
  <2>3. CASE f.at < e.at
    BY <1>1, <1>2, <2>3
  <2>4. CASE e.at = f.at
    BY <2>4 DEF IsList
  <2> QED
    BY <2>1, <2>2, <2>3, <2>4
<1> QED
  BY <1>2

\* A clustering parts its list, and no two clusters have one key.
LEMMA ClustersPart ==
  ASSUME NEW list, IsList(list), NEW clusters \in ClusterObservations(list)
  PROVE  IsPartition(clusters, list)
<1>1. PICK lead \in [list -> list] :
         /\ \A e \in list : lead[e] = ClusterFor(e, lead)
         /\ clusters = {{e \in list : lead[e] = l} : l \in {lead[e] : e \in list}}
  BY Zenon DEF ClusterObservations
<1>2. \A e, f \in list : Item[e.item].fingerprint = Item[f.item].fingerprint => lead[e] = lead[f]
  BY <1>1, OneLeader
<1>3. ASSUME NEW c \in clusters
      PROVE  c # {} /\ c \subseteq list /\ \A e, f \in c : lead[e] = lead[f]
  BY <1>1
<1>4. UNION clusters = list
  <2>1. ASSUME NEW e \in list PROVE e \in {f \in list : lead[f] = lead[e]}
    OBVIOUS
  <2>2. \A e \in list : {f \in list : lead[f] = lead[e]} \in clusters
    BY <1>1
  <2> QED
    BY <1>3, <2>1, <2>2
<1>5. ASSUME NEW c \in clusters, NEW b \in clusters, c \cap b # {} \/ KeyOf(c) = KeyOf(b)
      PROVE  c = b
  <2>1. PICK k \in list : c = {e \in list : lead[e] = lead[k]}
    BY <1>1
  <2>2. PICK l \in list : b = {e \in list : lead[e] = lead[l]}
    BY <1>1
  <2>3. SUFFICES \E e \in c, f \in b : lead[e] = lead[f]
    BY <2>1, <2>2
  <2>4. CASE c \cap b # {}
    BY <2>4
  <2>5. CASE KeyOf(c) = KeyOf(b)
    <3>1. Earliest(c) \in c /\ Earliest(b) \in b
      BY <1>3, EarliestIsFirst DEF IsList
    <3>2. Earliest(c) \in list /\ Earliest(b) \in list
      BY <1>3, <3>1
    <3> QED
      BY <1>2, <2>5, <3>1, <3>2 DEF KeyOf
  <2> QED
    BY <1>5, <2>4, <2>5
<1> QED
  BY <1>3, <1>4, <1>5 DEF IsPartition

LEMMA FirstIsCluster ==
  ASSUME NEW clusters, NEW c \in FirstCluster(clusters)
  PROVE  c \in clusters
BY DEF FirstCluster

-----------------------------------------------------------------------------
(* Steps that leave assignments alone.                                     *)

\* No row is lost, and none that has a story gets another.
Keeps ==
    /\ DOMAIN observation \subseteq DOMAIN observation'
    /\ \A i \in DOMAIN observation : observation[i].story # NoStory => observation'[i].story = observation[i].story

\* A step of a run adds rows that are nobody's.
RowsStand ==
    /\ DOMAIN observation \subseteq DOMAIN observation'
    /\ \A i \in DOMAIN observation :
         observation'[i].story = observation[i].story /\ observation'[i].job = observation[i].job
    /\ \A i \in DOMAIN observation' \ DOMAIN observation :
         observation'[i].story = NoStory /\ observation'[i].job = NoName

StillThen(i, s) == i \in DOMAIN observation' /\ (s # NoStory => observation'[i].story = s)

LEMMA StillStands ==
  ASSUME Keeps, NEW i, NEW s, Still(i, s)
  PROVE  StillThen(i, s)
BY DEF Keeps, Still, StillThen

LEMMA StoredStays ==
  ASSUME NEW d \in DiscoveryRuns, Keeps, Stored(d)
  PROVE  \A i \in DOMAIN run[d].stories : StillThen(i, run[d].stories[i])
BY StillStands DEF Stored

LEMMA SnapshotsStillStand ==
  ASSUME Keeps, SnapshotsStand, snapshot' = snapshot
  PROVE  SnapshotsStand'
<1> SUFFICES ASSUME NEW s \in snapshot, s.story # NoStory
             PROVE  \E i \in ItemsOf(s.items) : StillThen(i, s.story)
  BY DEF SnapshotsStand, Still, StillThen
<1>1. PICK i \in ItemsOf(s.items) : Still(i, s.story)
  BY DEF SnapshotsStand
<1> QED
  BY <1>1, StillStands

\* A run that does nothing, and of which nothing is saved, is as it was.
LEMMA OtherRunStays ==
  ASSUME NEW d \in DiscoveryRuns, RunInv(d), Keeps, run'[d] = run[d], Saved(d)' = Saved(d)
  PROVE  RunInv(d)'
<1>1. Stored(d)'
  <2>1. \A i \in DOMAIN run[d].stories : StillThen(i, run[d].stories[i])
    BY StoredStays DEF RunInv
  <2> QED
    BY <2>1 DEF RunInv, Stored, Still, StillThen
<1>2. MentionsOf(d)'
  <2>1. Relevants(d)' = Relevants(d)
    BY DEF Relevants, TextOf
  <2>2. Parts(d)' = Parts(d)
    BY DEF Parts
  <2>3. IsPartition(Parts(d), Relevants(d)) => IsPartition(Parts(d), Relevants(d))'
    BY <2>1, <2>2 DEF IsPartition, KeyOf
  <2>4. \A s \in Saved(d) : s.key = KeyOf(s.items) => (s.key = KeyOf(s.items))'
    BY DEF KeyOf
  <2> QED
    BY <2>3, <2>4 DEF RunInv, MentionsOf, KeyOf
<1> QED
  BY <1>1, <1>2 DEF RunInv

\* A step of one run is of the others' runs none.
LEMMA OneRunMoves ==
  ASSUME NEW d \in DiscoveryRuns, DiscoveryInv, Keeps, \E r : run' = [run EXCEPT ![d] = r],
         \A e \in DiscoveryRuns \ {d} : Saved(e)' = Saved(e), RunInv(d)',
         DOMAIN run'[d] = DOMAIN run[d], IsList(run'[d].items), NoDoubles(run'[d].items),
         RowTypes', SnapshotsStand'
  PROVE  DiscoveryInv'
<1>1. \A e \in DiscoveryRuns \ {d} : run'[e] = run[e] /\ RunInv(e)'
  BY OtherRunStays DEF DiscoveryInv, DiscoveryTypes
<1>2. DOMAIN run' = DiscoveryRuns
  BY DEF DiscoveryInv, DiscoveryTypes
<1>3. DiscoveryTypes'
  BY <1>1, <1>2 DEF DiscoveryInv, DiscoveryTypes
<1> QED
  BY <1>1, <1>3 DEF DiscoveryInv

-----------------------------------------------------------------------------
(* The steps of a run.                                                     *)

LEMMA NoRunKnows ==
  ASSUME NEW d \in DiscoveryRuns, run'[d].stories = [i \in {} |-> NoStory], run'[d].items = {},
         run'[d].pc \notin {"store", "snapshot"},
         run'[d].pc \in {"idle", "search", "enrich"} => Saved(d)' = {}
  PROVE  RunInv(d)'
BY DEF RunInv, Stored, MentionsOf

LEMMA BeginKeeps ==
  ASSUME NEW d \in DiscoveryRuns, DiscoveryInv, Begin(d)
  PROVE  DiscoveryInv'
<1>1. /\ run[d].pc = "idle" /\ observation' = observation /\ snapshot' = snapshot
      /\ \E r : /\ run' = [run EXCEPT ![d] = r] /\ r.pc \in {"done", "search", "stuck"}
                /\ r.stories = [i \in {} |-> NoStory] /\ r.items = {}
                /\ DOMAIN r = DOMAIN NoDiscovery
  <2>1. PICK r \in {r \in Requests : Accepted(r)} :
          LET queries == Expanded[r]
          IN  run' = [run EXCEPT ![d] =
                CASE queries = <<>> \/ Providers = {} -> [NoDiscovery EXCEPT !.pc = "done", !.status = "NOOP"]
                  [] queries # <<>> /\ Providers # {} ->
                       [NoDiscovery EXCEPT !.pc = IF r \in Distinct THEN "search" ELSE "stuck",
                                     !.queries = queries, !.status = "RUNNING"]]
    BY DEF Begin
  <2> DEFINE queries == Expanded[r]
             none == [NoDiscovery EXCEPT !.pc = "done", !.status = "NOOP"]
             some == [NoDiscovery EXCEPT !.pc = IF r \in Distinct THEN "search" ELSE "stuck",
                                         !.queries = queries, !.status = "RUNNING"]
  <2>2. run' = [run EXCEPT ![d] = none] \/ run' = [run EXCEPT ![d] = some]
    BY <2>1
  <2>3. /\ none.pc = "done" /\ none.stories = [i \in {} |-> NoStory] /\ none.items = {}
        /\ DOMAIN none = DOMAIN NoDiscovery
    BY DEF NoDiscovery
  <2>4. /\ some.pc \in {"search", "stuck"} /\ some.stories = [i \in {} |-> NoStory] /\ some.items = {}
        /\ DOMAIN some = DOMAIN NoDiscovery
    BY DEF NoDiscovery
  <2> HIDE DEF none, some
  <2> QED
    BY <2>2, <2>3, <2>4 DEF Begin
<1>2. run'[d].pc \in {"done", "search", "stuck"} /\ run'[d].stories = [i \in {} |-> NoStory] /\ run'[d].items = {}
  BY <1>1 DEF DiscoveryInv, DiscoveryTypes
<1>3. DOMAIN run'[d] = DOMAIN run[d]
  BY <1>1 DEF DiscoveryInv, DiscoveryTypes, NoDiscovery
<1>4. \A e \in DiscoveryRuns : Saved(e)' = Saved(e)
  BY <1>1 DEF Saved
<1>5. Saved(d) = {}
  BY <1>1 DEF DiscoveryInv, RunInv, MentionsOf
<1>6. RunInv(d)'
  BY <1>2, <1>4, <1>5, NoRunKnows
<1>7. Keeps
  BY <1>1 DEF Keeps
<1>8. SnapshotsStand'
  BY <1>1, <1>7, SnapshotsStillStand DEF DiscoveryInv
<1>9. IsList(run'[d].items) /\ NoDoubles(run'[d].items)
  BY <1>2 DEF IsList, NoDoubles
<1> QED
  BY <1>1, <1>3, <1>4, <1>6, <1>7, <1>8, <1>9, OneRunMoves DEF DiscoveryInv, DiscoveryTypes, RowTypes

LEMMA DigitsOf20 ==
  ASSUME NEW a \in Int, NEW b \in Int, NEW n \in 1..20, NEW m \in 1..20, a * 20 + n = b * 20 + m
  PROVE  a = b /\ n = m
<1>1. a = b
  <2>1. CASE a < b
    BY <2>1
  <2>2. CASE b < a
    BY <2>2
  <2> QED
    BY <2>1, <2>2
<1> QED
  BY <1>1

\* The places of what is found are those of the tasks and their answers: no two are one.
LEMMA FoundIsList ==
  ASSUME NEW queries, NEW lost
  PROVE  IsList(Found(queries, lost))
<1> DEFINE place(t, n) == (t[1] * MaxQueries + t[2]) * MaxItems + n
<1>1. Len(Feeds) \in Nat /\ DOMAIN AllProviders \subseteq Nat
  BY DiscoveryAssumption DEF AllProviders
<1>2. \A t \in Tasks(queries) : t = <<t[1], t[2]>> /\ t[1] \in Nat /\ t[2] \in 1..MaxQueries
  BY <1>1 DEF Tasks, Providers
<1>3. ASSUME NEW p, NEW query, NEW a \in Answer(p, query)
      PROVE  a.nth \in 1..MaxItems /\ a.item = Catalog[p][query.family][a.nth]
  BY <1>3 DEF Answer
<1>4. ASSUME NEW e \in Found(queries, lost)
      PROVE  \E t \in Tasks(queries), n \in 1..MaxItems :
               e = [at |-> place(t, n), item |-> Catalog[AllProviders[t[1]]][queries[t[2]].family][n]]
  <2>1. PICK t \in Tasks(queries) \ lost :
               e \in {[at |-> place(t, a.nth), item |-> a.item] : a \in Answer(AllProviders[t[1]], queries[t[2]])}
    BY <1>4 DEF Found
  <2>2. PICK a \in Answer(AllProviders[t[1]], queries[t[2]]) : e = [at |-> place(t, a.nth), item |-> a.item]
    BY <2>1
  <2>3. a.nth \in 1..MaxItems /\ a.item = Catalog[AllProviders[t[1]]][queries[t[2]].family][a.nth]
    BY <1>3
  <2> HIDE DEF place
  <2> QED
    BY <2>2, <2>3
<1>5. ASSUME NEW t \in Tasks(queries), NEW u \in Tasks(queries), NEW n \in 1..MaxItems, NEW m \in 1..MaxItems,
             place(t, n) = place(u, m)
      PROVE  t = u /\ n = m
  <2>1. /\ t[1] \in Nat /\ u[1] \in Nat /\ t[2] \in 1..64 /\ u[2] \in 1..64 /\ n \in 1..20 /\ m \in 1..20
        /\ (t[1] * 64 + t[2]) * 20 + n = (u[1] * 64 + u[2]) * 20 + m
    BY <1>2, <1>5 DEF MaxQueries, MaxItems
  <2>2. PICK i, k \in Nat, j, l \in 1..64 : i = t[1] /\ k = u[1] /\ j = t[2] /\ l = u[2]
    BY <2>1
  <2>3. (i * 64 + j) * 20 + n = (k * 64 + l) * 20 + m
    BY <2>1, <2>2
  <2>4. i * 64 + j \in Int /\ k * 64 + l \in Int
    OBVIOUS
  <2>5. i * 64 + j = k * 64 + l /\ n = m
    BY <2>1, <2>3, <2>4, DigitsOf20
  <2>6. i = k /\ j = l
    <3>1. CASE i < k
      BY <2>5, <3>1
    <3>2. CASE k < i
      BY <2>5, <3>2
    <3> QED
      BY <2>5, <3>1, <3>2
  <2> QED
    BY <1>2, <2>2, <2>5, <2>6
<1>6. \A t \in Tasks(queries), n \in 1..MaxItems : place(t, n) \in Nat
  <2>1. ASSUME NEW i \in Nat, NEW j \in 1..64, NEW n \in 1..20 PROVE (i * 64 + j) * 20 + n \in Nat
    OBVIOUS
  <2> QED
    BY <1>2, <2>1 DEF MaxQueries, MaxItems
<1>7. \A e \in Found(queries, lost) : e.at \in Nat
  <2> SUFFICES ASSUME NEW e \in Found(queries, lost) PROVE e.at \in Nat
    OBVIOUS
  <2>1. PICK t \in Tasks(queries), n \in 1..MaxItems :
               e = [at |-> place(t, n), item |-> Catalog[AllProviders[t[1]]][queries[t[2]].family][n]]
    BY <1>4
  <2> HIDE DEF place
  <2> QED
    BY <1>6, <2>1
<1>8. ASSUME NEW e \in Found(queries, lost), NEW f \in Found(queries, lost), e.at = f.at
      PROVE  e = f
  <2>1. PICK t \in Tasks(queries), n \in 1..MaxItems :
               e = [at |-> place(t, n), item |-> Catalog[AllProviders[t[1]]][queries[t[2]].family][n]]
    BY <1>4
  <2>2. PICK u \in Tasks(queries), m \in 1..MaxItems :
               f = [at |-> place(u, m), item |-> Catalog[AllProviders[u[1]]][queries[u[2]].family][m]]
    BY <1>4
  <2> HIDE DEF place
  <2>3. t = u /\ n = m
    BY <1>5, <1>8, <2>1, <2>2
  <2> QED
    BY <2>1, <2>2, <2>3
<1> QED
  BY <1>7, <1>8 DEF IsList

\* Of what is found each item is kept once.
LEMMA MergedHasNoDoubles ==
  ASSUME NEW found, IsList(found)
  PROVE  IsList(Merged(found)) /\ NoDoubles(Merged(found))
<1>1. IsList(Merged(found))
  BY PartIsList DEF Merged
<1>2. ASSUME NEW e \in Merged(found), NEW f \in Merged(found), e.item = f.item
      PROVE  e = f
  <2>1. e \in found /\ f \in found /\ e.at <= f.at /\ f.at <= e.at /\ e.at \in Nat /\ f.at \in Nat
    BY <1>2 DEF Merged, IsList
  <2> QED
    BY <2>1 DEF IsList
<1> QED
  BY <1>1, <1>2 DEF NoDoubles

LEMMA SearchKeeps ==
  ASSUME NEW d \in DiscoveryRuns, DiscoveryInv, Search(d)
  PROVE  DiscoveryInv'
<1>1. PICK lost \in Outages :
         run' = [run EXCEPT ![d].pc = "enrich", ![d].queries = <<>>,
                   ![d].items = Merged(Found(run[d].queries, lost)),
                   ![d].failed = {AllProviders[t[1]] : t \in lost \cap Tasks(run[d].queries)} \ {Google}]
  BY DEF Search
<1> DEFINE items == Merged(Found(run[d].queries, lost))
           failed == {AllProviders[t[1]] : t \in lost \cap Tasks(run[d].queries)} \ {Google}
           r == [run[d] EXCEPT !.pc = "enrich", !.queries = <<>>, !.items = items, !.failed = failed]
<1>2. run' = [run EXCEPT ![d] = r]
  BY <1>1
<1> HIDE DEF items, failed
<1>3. /\ run'[d].pc = "enrich" /\ run'[d].items = items /\ run'[d].stories = run[d].stories
      /\ DOMAIN run'[d] = DOMAIN run[d]
  BY <1>2 DEF DiscoveryInv, DiscoveryTypes
<1>4. run[d].pc = "search" /\ observation' = observation /\ snapshot' = snapshot
  BY DEF Search
<1>5. \A e \in DiscoveryRuns : Saved(e)' = Saved(e)
  BY <1>4 DEF Saved
<1>6. Keeps
  BY <1>4 DEF Keeps
<1>7. RunInv(d)'
  <2>1. Stored(d)'
    <3>1. \A i \in DOMAIN run[d].stories : StillThen(i, run[d].stories[i])
      BY <1>6, StoredStays DEF DiscoveryInv, RunInv
    <3> QED
      BY <1>3, <3>1 DEF Stored, Still, StillThen
  <2>2. MentionsOf(d)'
    BY <1>3, <1>4, <1>5 DEF MentionsOf, DiscoveryInv, RunInv
  <2> QED
    BY <2>1, <2>2 DEF RunInv
<1>8. IsList(items) /\ NoDoubles(items)
  BY FoundIsList, MergedHasNoDoubles DEF items
<1>9. SnapshotsStand'
  BY <1>4, <1>6, SnapshotsStillStand DEF DiscoveryInv
<1> HIDE DEF r
<1> QED
  BY <1>2, <1>3, <1>4, <1>5, <1>6, <1>7, <1>8, <1>9, OneRunMoves DEF DiscoveryInv, DiscoveryTypes, RowTypes

LEMMA EnrichKeeps ==
  ASSUME NEW d \in DiscoveryRuns, DiscoveryInv, Enrich(d)
  PROVE  DiscoveryInv'
<1>1. PICK read : run' = [run EXCEPT ![d].pc = "store", ![d].read = read, ![d].todo = ItemsOf(run[d].items)]
  BY Zenon DEF Enrich
<1> DEFINE r == [run[d] EXCEPT !.pc = "store", !.read = read, !.todo = ItemsOf(run[d].items)]
<1>2. run' = [run EXCEPT ![d] = r]
  BY <1>1
<1>3. /\ run'[d].pc = "store" /\ run'[d].items = run[d].items /\ run'[d].stories = run[d].stories
      /\ run'[d].todo = ItemsOf(run[d].items)
      /\ DOMAIN run'[d] = DOMAIN run[d]
  BY <1>2 DEF DiscoveryInv, DiscoveryTypes
<1>4. run[d].pc = "enrich" /\ observation' = observation /\ snapshot' = snapshot
  BY DEF Enrich
<1>5. \A e \in DiscoveryRuns : Saved(e)' = Saved(e)
  BY <1>4 DEF Saved
<1>6. Keeps
  BY <1>4 DEF Keeps
<1>7. RunInv(d)'
  <2>1. Stored(d)'
    <3>1. \A i \in DOMAIN run[d].stories : StillThen(i, run[d].stories[i])
      BY <1>6, StoredStays DEF DiscoveryInv, RunInv
    <3> QED
      BY <1>3, <3>1 DEF Stored, Still, StillThen
  <2>2. MentionsOf(d)'
    BY <1>3, <1>4, <1>5 DEF MentionsOf, DiscoveryInv, RunInv
  <2> QED
    BY <2>1, <2>2 DEF RunInv
<1>8. SnapshotsStand'
  BY <1>4, <1>6, SnapshotsStillStand DEF DiscoveryInv
<1> HIDE DEF r
<1> QED
  BY <1>2, <1>3, <1>4, <1>5, <1>6, <1>7, <1>8, OneRunMoves DEF DiscoveryInv, DiscoveryTypes, RowTypes

LEMMA UpsertObservationKeepsRows ==
  ASSUME NEW d \in DiscoveryRuns, NEW i \in Items, DiscoveryInv, UpsertObservation(d, i)
  PROVE  RowsStand /\ RowTypes' /\ DOMAIN observation' = DOMAIN observation \cup {i}
<1> DEFINE row == IF i \in DOMAIN observation THEN [observation[i] EXCEPT !.seen = d]
                  ELSE [story |-> NoStory, job |-> NoName, seen |-> d]
<1>1. /\ DOMAIN observation' = DOMAIN observation \cup {i}
      /\ \A j \in DOMAIN observation \ {i} : observation'[j] = observation[j]
      /\ observation'[i] = row
  BY DEF UpsertObservation
<1>2. /\ DOMAIN row = {"story", "job", "seen"} /\ row.seen = d
      /\ i \in DOMAIN observation => row.story = observation[i].story /\ row.job = observation[i].job
      /\ i \notin DOMAIN observation => row.story = NoStory /\ row.job = NoName
  BY DEF DiscoveryInv, DiscoveryTypes, RowTypes
<1> HIDE DEF row
<1>3. RowsStand
  BY <1>1, <1>2 DEF RowsStand
<1>4. RowTypes'
  BY <1>1, <1>2 DEF RowTypes, DiscoveryInv, DiscoveryTypes
<1> QED
  BY <1>1, <1>3, <1>4

LEMMA UpsertObservationKeeps ==
  ASSUME NEW d \in DiscoveryRuns, NEW i \in Items, DiscoveryInv, UpsertObservation(d, i)
  PROVE  Keeps /\ DiscoveryInv'
<1>1. RowsStand /\ RowTypes' /\ DOMAIN observation' = DOMAIN observation \cup {i}
  BY UpsertObservationKeepsRows
<1> DEFINE row == IF i \in DOMAIN observation THEN [observation[i] EXCEPT !.seen = d]
                  ELSE [story |-> NoStory, job |-> NoName, seen |-> d]
           known == [j \in DOMAIN run[d].stories \cup {i} |-> IF j = i THEN row.story ELSE run[d].stories[j]]
           r == [run[d] EXCEPT !.todo = @ \ {i}, !.stories = known]
<1>2. run' = [run EXCEPT ![d] = r] /\ run[d].pc = "store" /\ snapshot' = snapshot
  BY DEF UpsertObservation, DiscoveryInv, DiscoveryTypes
<1>3. row.story = observation'[i].story /\ i \in DOMAIN observation'
  BY <1>1 DEF UpsertObservation
<1> HIDE DEF row
<1>4. /\ run'[d].pc = "store" /\ run'[d].items = run[d].items /\ run'[d].stories = known
      /\ run'[d].todo = run[d].todo \ {i}
      /\ DOMAIN run'[d] = DOMAIN run[d]
  BY <1>2 DEF DiscoveryInv, DiscoveryTypes
<1>5. Keeps
  BY <1>1 DEF Keeps, RowsStand
<1>6. \A e \in DiscoveryRuns : Saved(e)' = Saved(e)
  BY <1>2 DEF Saved
<1>7. RunInv(d)'
  <2>1. ASSUME NEW j \in DOMAIN known PROVE StillThen(j, known[j])
    <3>1. CASE j = i
      BY <1>3, <3>1 DEF StillThen
    <3>2. CASE j # i
      <4>1. j \in DOMAIN run[d].stories /\ known[j] = run[d].stories[j]
        BY <2>1, <3>2
      <4>2. Still(j, known[j])
        BY <4>1 DEF DiscoveryInv, RunInv, Stored
      <4> QED
        BY <1>5, <4>2, StillStands
    <3> QED
      BY <3>1, <3>2
  <2>2. ItemsOf(run[d].items) \ (run[d].todo \ {i}) \subseteq DOMAIN known
    BY <1>2 DEF DiscoveryInv, RunInv, Stored
  <2>3. Stored(d)'
    <3> HIDE DEF known
    <3>1. ItemsOf(run'[d].items) = ItemsOf(run[d].items)
      BY <1>4
    <3> QED
      BY <1>4, <2>1, <2>2, <3>1 DEF Stored, Still, StillThen
  <2>4. MentionsOf(d)'
    BY <1>2, <1>4, <1>6 DEF MentionsOf, DiscoveryInv, RunInv
  <2> QED
    BY <2>3, <2>4 DEF RunInv
<1>8. SnapshotsStand'
  BY <1>2, <1>5, SnapshotsStillStand DEF DiscoveryInv
<1> HIDE DEF r
<1>9. DiscoveryInv'
  BY <1>1, <1>2, <1>4, <1>5, <1>6, <1>7, <1>8, OneRunMoves DEF DiscoveryInv, DiscoveryTypes, RowTypes
<1> QED
  BY <1>5, <1>9

LEMMA ClusterKeeps ==
  ASSUME NEW d \in DiscoveryRuns, DiscoveryInv, Cluster(d)
  PROVE  DiscoveryInv'
<1>1. PICK clusters \in ClusterObservations({e \in run[d].items : Relevant(TextOf(d, e.item))}) :
         run' = [run EXCEPT ![d].pc = "snapshot", ![d].clusters = clusters]
  BY DEF Cluster
<1> DEFINE r == [run[d] EXCEPT !.pc = "snapshot", !.clusters = clusters]
<1>2. run' = [run EXCEPT ![d] = r]
  BY <1>1
<1>3. /\ run'[d].pc = "snapshot" /\ run'[d].items = run[d].items /\ run'[d].stories = run[d].stories
      /\ run'[d].clusters = clusters /\ run'[d].read = run[d].read
      /\ DOMAIN run'[d] = DOMAIN run[d]
  BY <1>2 DEF DiscoveryInv, DiscoveryTypes
<1>4. run[d].pc = "store" /\ run[d].todo = {} /\ observation' = observation /\ snapshot' = snapshot
  BY DEF Cluster
<1>5. \A e \in DiscoveryRuns : Saved(e)' = Saved(e)
  BY <1>4 DEF Saved
<1>6. Keeps
  BY <1>4 DEF Keeps
<1>7. RunInv(d)'
  <2>1. Stored(d)'
    <3>1. \A i \in DOMAIN run[d].stories : StillThen(i, run[d].stories[i])
      BY <1>6, StoredStays DEF DiscoveryInv, RunInv
    <3>2. ItemsOf(run[d].items) \subseteq DOMAIN run[d].stories
      BY <1>4 DEF DiscoveryInv, RunInv, Stored
    <3> QED
      BY <1>3, <3>1, <3>2 DEF Stored, Still, StillThen
  <2>2. IsPartition(clusters, Relevants(d))
    <3>1. IsList(Relevants(d))
      BY PartIsList DEF Relevants, DiscoveryInv, DiscoveryTypes
    <3> QED
      BY <3>1, ClustersPart DEF Relevants
  <2>3. Relevants(d)' = Relevants(d)
    BY <1>3 DEF Relevants, TextOf
  <2>4. Saved(d)' = {}
    BY <1>4, <1>5 DEF DiscoveryInv, RunInv, MentionsOf
  <2>5. Parts(d)' = clusters
    BY <1>3, <2>4 DEF Parts
  <2>6. IsPartition(Parts(d), Relevants(d))'
    BY <2>2, <2>3, <2>5 DEF IsPartition, KeyOf
  <2>7. MentionsOf(d)'
    BY <1>3, <2>4, <2>6 DEF MentionsOf
  <2> QED
    BY <2>1, <2>7 DEF RunInv
<1>8. SnapshotsStand'
  BY <1>4, <1>6, SnapshotsStillStand DEF DiscoveryInv
<1> HIDE DEF r
<1> QED
  BY <1>2, <1>3, <1>4, <1>5, <1>6, <1>7, <1>8, OneRunMoves DEF DiscoveryInv, DiscoveryTypes, RowTypes

\* The story a snapshot gets is that of one of its members.
LEMMA StoryIsAMembers ==
  ASSUME NEW d \in DiscoveryRuns, DiscoveryInv, run[d].pc = "snapshot", NEW c \in Parts(d),
         StoryOfCluster(d, c) # NoStory
  PROVE  \E i \in ItemsOf(c) : Still(i, StoryOfCluster(d, c))
<1> DEFINE assigned == {e \in c : run[d].stories[e.item] # NoStory}
<1>1. c \subseteq run[d].items
  <2>1. c \subseteq Relevants(d)
    BY DEF DiscoveryInv, RunInv, MentionsOf, IsPartition
  <2> QED
    BY <2>1 DEF Relevants
<1>2. assigned # {} /\ StoryOfCluster(d, c) = run[d].stories[Earliest(assigned).item]
  BY DEF StoryOfCluster
<1>3. \A e \in assigned : e.at \in Nat
  BY <1>1 DEF DiscoveryInv, DiscoveryTypes, IsList
<1>4. Earliest(assigned) \in c
  BY <1>2, <1>3, EarliestIsFirst
<1> DEFINE i == Earliest(assigned).item
<1>5. i \in ItemsOf(c) /\ i \in ItemsOf(run[d].items)
  BY <1>1, <1>4 DEF ItemsOf
<1>6. Still(i, run[d].stories[i])
  BY <1>5 DEF DiscoveryInv, RunInv, Stored
<1> QED
  BY <1>2, <1>5, <1>6

\* Nothing is ignored: a cluster's key is that of no snapshot of the run.
LEMMA SaveSnapshotAdds ==
  ASSUME NEW d \in DiscoveryRuns, DiscoveryInv, SaveSnapshot(d)
  PROVE  \E c \in run[d].clusters : \E new :
           /\ run[d].pc = "snapshot" /\ observation' = observation
           /\ new.run = d /\ new.key = KeyOf(c) /\ new.items = c /\ new.story = StoryOfCluster(d, c)
           /\ snapshot' = snapshot \cup {new}
           /\ run' = [run EXCEPT ![d].clusters = @ \ {c}]
<1>1. PICK c \in FirstCluster(run[d].clusters) :
         /\ snapshot' = IF \E s \in snapshot : s.run = d /\ s.key = Item[Earliest(c).item].fingerprint
                        THEN snapshot
                        ELSE snapshot \cup {[run |-> d, key |-> Item[Earliest(c).item].fingerprint, items |-> c,
                                             story |-> StoryOfCluster(d, c), state |-> StateOf(d, c)]}
         /\ run' = [run EXCEPT ![d].clusters = @ \ {c}]
  BY Zenon DEF SaveSnapshot
<1>2. c \in run[d].clusters /\ run[d].pc = "snapshot" /\ observation' = observation
  BY FirstIsCluster DEF SaveSnapshot
<1>3. ASSUME NEW s \in snapshot, s.run = d, s.key = Item[Earliest(c).item].fingerprint
      PROVE  FALSE
  <2>1. s \in Saved(d) /\ s.items \in Parts(d) /\ c \in Parts(d)
    BY <1>2, <1>3 DEF Saved, Parts
  <2>2. KeyOf(s.items) = KeyOf(c)
    BY <1>2, <1>3, <2>1 DEF DiscoveryInv, RunInv, MentionsOf, KeyOf
  <2>3. s.items = c
    BY <1>2, <2>1, <2>2 DEF DiscoveryInv, RunInv, MentionsOf, IsPartition
  <2> QED
    BY <1>2, <2>1, <2>3 DEF DiscoveryInv, RunInv, MentionsOf
<1> DEFINE new == [run |-> d, key |-> Item[Earliest(c).item].fingerprint, items |-> c,
                   story |-> StoryOfCluster(d, c), state |-> StateOf(d, c)]
<1>4. snapshot' = snapshot \cup {new}
  BY <1>1, <1>3
<1>5. new.run = d /\ new.key = KeyOf(c) /\ new.items = c /\ new.story = StoryOfCluster(d, c)
  BY DEF KeyOf
<1> HIDE DEF new
<1> QED
  BY <1>1, <1>2, <1>4, <1>5

LEMMA SaveSnapshotKeeps ==
  ASSUME NEW d \in DiscoveryRuns, DiscoveryInv, SaveSnapshot(d)
  PROVE  DiscoveryInv'
<1>0. PICK c \in run[d].clusters : \E new :
           /\ run[d].pc = "snapshot" /\ observation' = observation
           /\ new.run = d /\ new.key = KeyOf(c) /\ new.items = c /\ new.story = StoryOfCluster(d, c)
           /\ snapshot' = snapshot \cup {new}
           /\ run' = [run EXCEPT ![d].clusters = @ \ {c}]
  BY SaveSnapshotAdds
<1>1. PICK new :
           /\ run[d].pc = "snapshot" /\ observation' = observation
           /\ new.run = d /\ new.key = KeyOf(c) /\ new.items = c /\ new.story = StoryOfCluster(d, c)
           /\ snapshot' = snapshot \cup {new}
           /\ run' = [run EXCEPT ![d].clusters = @ \ {c}]
  BY <1>0
<1> DEFINE r == [run[d] EXCEPT !.clusters = @ \ {c}]
<1>2. run' = [run EXCEPT ![d] = r]
  BY <1>1 DEF DiscoveryInv, DiscoveryTypes
<1>3. /\ run'[d].pc = "snapshot" /\ run'[d].items = run[d].items /\ run'[d].stories = run[d].stories
      /\ run'[d].clusters = run[d].clusters \ {c} /\ run'[d].read = run[d].read
      /\ DOMAIN run'[d] = DOMAIN run[d]
  BY <1>1, <1>2 DEF DiscoveryInv, DiscoveryTypes
<1>4. Saved(d)' = Saved(d) \cup {new} /\ \A e \in DiscoveryRuns \ {d} : Saved(e)' = Saved(e)
  BY <1>1 DEF Saved
<1>5. Keeps
  BY <1>1 DEF Keeps
<1>6. c \in Parts(d)
  BY DEF Parts
<1>7. Stored(d)'
  <2>1. \A i \in DOMAIN run[d].stories : StillThen(i, run[d].stories[i])
    BY <1>5, StoredStays DEF DiscoveryInv, RunInv
  <2>2. ItemsOf(run[d].items) \subseteq DOMAIN run[d].stories
    BY <1>1 DEF DiscoveryInv, RunInv, Stored
  <2> QED
    BY <1>3, <2>1, <2>2 DEF Stored, Still, StillThen
<1>8. MentionsOf(d)'
  <2>1. Relevants(d)' = Relevants(d)
    BY <1>3 DEF Relevants, TextOf
  <2>2. Parts(d)' = Parts(d)
    BY <1>1, <1>3, <1>4 DEF Parts
  <2>3. /\ IsPartition(Parts(d), Relevants(d))
        /\ \A s \in Saved(d) : s.key = KeyOf(s.items) /\ s.items \notin run[d].clusters
        /\ \A s, t \in Saved(d) : s.items = t.items => s = t
    BY <1>1 DEF DiscoveryInv, RunInv, MentionsOf
  <2>4. IsPartition(Parts(d), Relevants(d))'
    BY <2>1, <2>2, <2>3 DEF IsPartition, KeyOf
  <2>5. \A s \in Saved(d)' : (s.key = KeyOf(s.items))' /\ s.items \notin run'[d].clusters
    BY <1>1, <1>3, <1>4, <2>3 DEF KeyOf
  <2>6. \A s, t \in Saved(d)' : s.items = t.items => s = t
    BY <1>1, <1>4, <2>3
  <2> QED
    BY <1>3, <2>4, <2>5, <2>6 DEF MentionsOf, KeyOf
<1>9. SnapshotsStand'
  <2> SUFFICES ASSUME NEW s \in snapshot', s.story # NoStory
               PROVE  \E i \in ItemsOf(s.items) : StillThen(i, s.story)
    BY DEF SnapshotsStand, Still, StillThen
  <2>1. \E i \in ItemsOf(s.items) : Still(i, s.story)
    <3>1. CASE s \in snapshot
      BY <3>1 DEF DiscoveryInv, SnapshotsStand
    <3>2. CASE s = new
      BY <1>1, <1>6, <3>2, StoryIsAMembers
    <3> QED
      BY <1>1, <3>1, <3>2
  <2> QED
    BY <1>5, <2>1, StillStands
<1> HIDE DEF r
<1> QED
  BY <1>1, <1>2, <1>3, <1>4, <1>5, <1>7, <1>8, <1>9, OneRunMoves DEF RunInv, DiscoveryInv, DiscoveryTypes, RowTypes

\* A run that ends, or is killed, knows nothing more.
LEMMA RunEnds ==
  ASSUME NEW d \in DiscoveryRuns, DiscoveryInv, observation' = observation, snapshot' = snapshot,
         NEW pc \in {"done", "stuck"}, NEW status,
         run' = [run EXCEPT ![d] = [NoDiscovery EXCEPT !.pc = pc, !.status = status]]
  PROVE  DiscoveryInv'
<1> DEFINE r == [NoDiscovery EXCEPT !.pc = pc, !.status = status]
<1>1. run' = [run EXCEPT ![d] = r]
  OBVIOUS
<1>2. r.pc = pc /\ r.stories = [i \in {} |-> NoStory] /\ r.items = {} /\ DOMAIN r = DOMAIN NoDiscovery
  BY DEF NoDiscovery
<1> HIDE DEF r
<1>3. run'[d] = r
  BY <1>1 DEF DiscoveryInv, DiscoveryTypes
<1>4. DOMAIN run'[d] = DOMAIN run[d]
  BY <1>2, <1>3 DEF DiscoveryInv, DiscoveryTypes, NoDiscovery
<1>5. \A e \in DiscoveryRuns : Saved(e)' = Saved(e)
  BY DEF Saved
<1>6. RunInv(d)'
  BY <1>2, <1>3, NoRunKnows
<1>7. Keeps
  BY DEF Keeps
<1>8. SnapshotsStand'
  BY <1>7, SnapshotsStillStand DEF DiscoveryInv
<1>9. IsList(run'[d].items) /\ NoDoubles(run'[d].items)
  BY <1>2, <1>3 DEF IsList, NoDoubles
<1> QED
  BY <1>1, <1>4, <1>5, <1>6, <1>7, <1>8, <1>9, OneRunMoves DEF DiscoveryInv, DiscoveryTypes, RowTypes

LEMMA DiscoveryStep ==
  ASSUME DiscoveryInv, DiscoveryNext
  PROVE  Keeps /\ DiscoveryInv'
<1>1. PICK d \in DiscoveryRuns :
        \/ Begin(d) \/ Search(d) \/ Enrich(d) \/ Cluster(d) \/ SaveSnapshot(d) \/ CompleteRun(d) \/ KillRun(d)
        \/ \E i \in Items : UpsertObservation(d, i)
  BY DEF DiscoveryNext
<1>2. observation' = observation => Keeps
  BY DEF Keeps
<1>3. CASE Begin(d)
  BY <1>2, <1>3, BeginKeeps DEF Begin
<1>4. CASE Search(d)
  BY <1>2, <1>4, SearchKeeps DEF Search
<1>5. CASE Enrich(d)
  BY <1>2, <1>5, EnrichKeeps DEF Enrich
<1>6. CASE Cluster(d)
  BY <1>2, <1>6, ClusterKeeps DEF Cluster
<1>7. CASE SaveSnapshot(d)
  BY <1>2, <1>7, SaveSnapshotKeeps DEF SaveSnapshot
<1>8. CASE CompleteRun(d)
  BY <1>2, <1>8, RunEnds DEF CompleteRun
<1>9. CASE KillRun(d)
  BY <1>2, <1>9, RunEnds DEF KillRun
<1>10. CASE \E i \in Items : UpsertObservation(d, i)
  BY <1>10, UpsertObservationKeeps
<1> QED
  BY <1>1, <1>3, <1>4, <1>5, <1>6, <1>7, <1>8, <1>9, <1>10

LEMMA DiscoveryStays ==
  ASSUME DiscoveryInv, Keeps, run' = run, snapshot' = snapshot, RowTypes'
  PROVE  DiscoveryInv'
<1>1. \A d \in DiscoveryRuns : Saved(d)' = Saved(d)
  BY DEF Saved
<1>2. \A d \in DiscoveryRuns : RunInv(d)'
  BY <1>1, OtherRunStays DEF DiscoveryInv
<1>3. SnapshotsStand'
  BY SnapshotsStillStand DEF DiscoveryInv
<1> QED
  BY <1>2, <1>3 DEF DiscoveryInv, DiscoveryTypes

-----------------------------------------------------------------------------
(* What the steps of one promoter leave the others.                        *)

\* A row's job stays, and the id of a whole job is given to no row but by it.
JobsKept ==
    \A i \in DOMAIN observation : observation[i].job # NoName => observation'[i].job = observation[i].job

NoneTakes(q) ==
    WholeJob(q) =>
        \A i \in DOMAIN observation' : observation'[i].job = Asked[q].job =>
            i \in DOMAIN observation /\ observation[i].job = Asked[q].job

LEMMA OtherPromoterStays ==
  ASSUME NEW q \in Promoters, PromoterInv(q), JobRows, Keeps, JobsKept, NoneTakes(q),
         promoter'[q] = promoter[q], claims \subseteq claims'
  PROVE  PromoterInv(q)'
<1>1. Pending(q)' = Pending(q) /\ Current(q)' = Current(q) /\ (Busy(q)' <=> Busy(q))
  BY DEF Pending, Current, Busy
<1>2. Target(q)'
  <2>1. promoter[q].pc = "claim" /\ Busy(q) => StillThen(Current(q), promoter[q].target)
    BY StillStands DEF PromoterInv, Target
  <2> QED
    BY <1>1, <2>1 DEF PromoterInv, Target, Still, StillThen
<1>3. Listing(q)'
  <2> SUFFICES ASSUME NEW i \in Pending(q)
               PROVE  /\ i \in DOMAIN observation' /\ Able(i)
                      /\ Asked[q].only # NoName => observation'[i].job = Asked[q].job
    BY <1>1 DEF Listing, Able, Promotable
  <2>1. /\ i \in DOMAIN observation /\ Able(i)
        /\ Asked[q].only # NoName => observation[i].job = Asked[q].job
    BY DEF PromoterInv, Listing
  <2>2. Asked[q].only # NoName => Asked[q].job # NoName
    BY PromotionAssumption
  <2> QED
    BY <2>1, <2>2 DEF Keeps, JobsKept
<1>4. Whole(q)'
  <2> SUFFICES ASSUME WholeJob(q), promoter[q].pc # "idle",
                      NEW i \in DOMAIN observation', observation'[i].job = Asked[q].job
               PROVE  \/ /\ [item |-> i, story |-> observation'[i].story] \in claims'
                         /\ observation'[i].story \in promoter[q].affected
                      \/ promoter[q].pc # "done" /\ i \in Pending(q)
    BY <1>1 DEF Whole, Handled, WholeJob
  <2>1. i \in DOMAIN observation /\ observation[i].job = Asked[q].job /\ Asked[q].job # NoName
    BY DEF NoneTakes, WholeJob
  <2>2. observation'[i].story = observation[i].story
    BY <2>1 DEF JobRows, Keeps
  <2>3. Handled(q, i) \/ (promoter[q].pc # "done" /\ i \in Pending(q))
    BY <2>1 DEF PromoterInv, Whole
  <2> QED
    BY <2>2, <2>3 DEF Handled
<1> QED
  BY <1>2, <1>3, <1>4 DEF PromoterInv

LEMMA ClaimsStillStand ==
  ASSUME ClaimsStand, Keeps, claims' = claims
  PROVE  ClaimsStand'
<1> SUFFICES ASSUME NEW c \in claims PROVE c.story # NoStory /\ StillThen(c.item, c.story)
  BY DEF ClaimsStand, Still, StillThen
<1>1. c.story # NoStory /\ Still(c.item, c.story)
  BY DEF ClaimsStand
<1> QED
  BY <1>1, StillStands

LEMMA RowsStay ==
  ASSUME JobRows, RowsStand
  PROVE  Keeps /\ JobsKept /\ JobRows' /\ \A q \in Promoters : NoneTakes(q)
<1>1. Keeps /\ JobsKept
  BY DEF Keeps, JobsKept, RowsStand
<1>2. JobRows'
  BY DEF JobRows, Able, Promotable, RowsStand
<1>3. ASSUME NEW q \in Promoters PROVE NoneTakes(q)
  BY DEF NoneTakes, WholeJob, RowsStand
<1> QED
  BY <1>1, <1>2, <1>3

LEMMA PromotersWait ==
  ASSUME PromotionInv, UNCHANGED <<story, claims, promoter>>, RowsStand
  PROVE  PromotionInv'
<1>1. Keeps /\ JobsKept /\ JobRows' /\ \A q \in Promoters : NoneTakes(q)
  BY RowsStay DEF PromotionInv
<1>2. \A q \in Promoters : PromoterInv(q)'
  BY <1>1, OtherPromoterStays DEF PromotionInv
<1>3. ClaimsStand'
  BY <1>1, ClaimsStillStand DEF PromotionInv
<1>4. PromotionTypes'
  BY DEF PromotionInv, PromotionTypes, IsList
<1> QED
  BY <1>1, <1>2, <1>3, <1>4 DEF PromotionInv

\* A step of one promoter.
LEMMA OnePromoterMoves ==
  ASSUME NEW p \in Promoters, PromotionInv, Keeps, JobsKept, JobRows', \A q \in Promoters \ {p} : NoneTakes(q),
         NEW r, promoter' = [promoter EXCEPT ![p] = r], DOMAIN r = DOMAIN NoPromotion,
         IsList(r.rest), \A c \in r.clusters : c # {} /\ IsList(c),
         PromoterInv(p)', claims \subseteq claims', ClaimsStand', DOMAIN story' = DOMAIN story
  PROVE  PromotionInv'
<1>1. promoter'[p] = r /\ \A q \in Promoters \ {p} : promoter'[q] = promoter[q]
  BY DEF PromotionInv, PromotionTypes
<1>2. \A q \in Promoters \ {p} : PromoterInv(q)'
  BY <1>1, OtherPromoterStays DEF PromotionInv
<1>3. DOMAIN promoter' = Promoters /\ DOMAIN story' = 1..MaxStories
  BY DEF PromotionInv, PromotionTypes
<1>4. \A q \in Promoters :
        /\ DOMAIN promoter'[q] = {"pc", "clusters", "seen", "listed", "target", "rest", "affected"}
        /\ IsList(promoter'[q].rest)
        /\ \A c \in promoter'[q].clusters : c # {} /\ IsList(c)
  <2> TAKE q \in Promoters
  <2>1. CASE q = p
    BY <1>1, <2>1 DEF NoPromotion
  <2>2. CASE q # p
    BY <1>1, <2>2 DEF PromotionInv, PromotionTypes
  <2> QED
    BY <2>1, <2>2
<1>5. PromotionTypes'
  BY <1>3, <1>4 DEF PromotionTypes, IsList
<1> QED
  BY <1>2, <1>5 DEF PromotionInv

\* And one that leaves the rows alone.
LEMMA OnePromoterPrepares ==
  ASSUME NEW p \in Promoters, PromotionInv, observation' = observation,
         NEW r, promoter' = [promoter EXCEPT ![p] = r], DOMAIN r = DOMAIN NoPromotion,
         IsList(r.rest), \A c \in r.clusters : c # {} /\ IsList(c),
         PromoterInv(p)', claims' = claims, DOMAIN story' = DOMAIN story
  PROVE  PromotionInv'
<1>1. Keeps /\ JobsKept /\ JobRows' /\ \A q \in Promoters : NoneTakes(q)
  BY RowsStay DEF PromotionInv, RowsStand
<1>2. ClaimsStand'
  BY <1>1, ClaimsStillStand DEF PromotionInv
<1> QED
  BY <1>1, <1>2, OnePromoterMoves

-----------------------------------------------------------------------------
(* The steps of a promoter.                                                *)

\* What is listed, and to be done, stays so in a step that leaves the rows alone.
LEMMA ListedStays ==
  ASSUME NEW p \in Promoters, PromoterInv(p), observation' = observation, claims' = claims,
         Pending(p)' = Pending(p), promoter[p].affected \subseteq promoter'[p].affected,
         promoter[p].pc \notin {"idle", "done"}, promoter'[p].pc # "done"
  PROVE  Listing(p)' /\ Whole(p)'
<1>1. Listing(p)'
  BY DEF PromoterInv, Listing, Able, Promotable
<1>2. Whole(p)'
  <2> SUFFICES ASSUME WholeJob(p), NEW i \in DOMAIN observation, observation[i].job = Asked[p].job
               PROVE  \/ /\ [item |-> i, story |-> observation[i].story] \in claims
                         /\ observation[i].story \in promoter'[p].affected
                      \/ i \in Pending(p)
    BY DEF Whole, Handled, WholeJob
  <2> QED
    BY DEF PromoterInv, Whole, Handled
<1> QED
  BY <1>1, <1>2

LEMMA FailKeeps ==
  ASSUME NEW p \in Promoters, PromotionInv, Fail(p), observation' = observation, claims' = claims,
         story' = story
  PROVE  PromotionInv'
<1>1. promoter' = [promoter EXCEPT ![p] = NoPromotion]
  BY DEF Fail
<1>2. promoter'[p] = NoPromotion
  BY <1>1 DEF PromotionInv, PromotionTypes
<1>3. Pending(p)' = {}
  BY <1>2 DEF Pending, ItemsOf, NoPromotion
<1>4. PromoterInv(p)'
  BY <1>2, <1>3 DEF PromoterInv, Target, Listing, Whole, Busy, NoPromotion
<1>5. IsList(NoPromotion.rest) /\ NoPromotion.clusters = {}
  BY DEF NoPromotion, IsList
<1> QED
  BY <1>1, <1>4, <1>5, OnePromoterPrepares

LEMMA ListStoriesKeeps ==
  ASSUME NEW p \in Promoters, PromotionInv, ListStories(p)
  PROVE  PromotionInv'
<1> DEFINE r == [promoter[p] EXCEPT !.pc = "cluster", !.seen = story]
<1>1. promoter' = [promoter EXCEPT ![p] = r] /\ promoter[p].pc = "stories"
  BY DEF ListStories
<1>2. /\ promoter'[p] = r /\ DOMAIN r = DOMAIN NoPromotion
      /\ r.pc = "cluster" /\ r.rest = promoter[p].rest /\ r.clusters = promoter[p].clusters
      /\ r.affected = promoter[p].affected /\ r.target = promoter[p].target
  BY <1>1 DEF PromotionInv, PromotionTypes, NoPromotion
<1> HIDE DEF r
<1>3. Pending(p)' = Pending(p)
  BY <1>2 DEF Pending
<1>4. PromoterInv(p)
  BY DEF PromotionInv
<1>5. Target(p)'
  BY <1>1, <1>2, <1>4 DEF PromoterInv, Target, Busy
<1>6. Listing(p)' /\ Whole(p)'
  BY <1>1, <1>2, <1>3, <1>4, ListedStays DEF ListStories, discoveryVars
<1>7. IsList(r.rest) /\ \A c \in r.clusters : c # {} /\ IsList(c)
  BY <1>2 DEF PromotionInv, PromotionTypes
<1> QED
  BY <1>1, <1>2, <1>5, <1>6, <1>7, OnePromoterPrepares DEF ListStories, discoveryVars, PromoterInv

\* A cluster's story is found, or made: the cluster's items are now to be worked through.
LEMMA ToKeeps ==
  ASSUME NEW p \in Promoters, PromotionInv, promoter[p].pc = "cluster", NEW cluster \in promoter[p].clusters,
         NEW s, s # NoStory, To(p, s, cluster), observation' = observation, claims' = claims,
         DOMAIN story' = DOMAIN story
  PROVE  PromotionInv'
<1> DEFINE r == [promoter[p] EXCEPT !.pc = "item", !.target = s, !.rest = cluster,
                                    !.clusters = @ \ {cluster}, !.affected = @ \cup {s}]
<1>1. promoter' = [promoter EXCEPT ![p] = r]
  BY DEF To
<1>2. /\ promoter'[p] = r /\ DOMAIN r = DOMAIN NoPromotion
      /\ r.pc = "item" /\ r.rest = cluster /\ r.clusters = promoter[p].clusters \ {cluster}
      /\ r.affected = promoter[p].affected \cup {s} /\ r.target = s
  BY <1>1 DEF PromotionInv, PromotionTypes, NoPromotion
<1> HIDE DEF r
<1>3. PromoterInv(p) /\ \A c \in promoter[p].clusters : c # {} /\ IsList(c)
  BY DEF PromotionInv, PromotionTypes
<1>4. Pending(p)' = Pending(p)
  <2>1. promoter[p].rest = {}
    BY <1>3 DEF PromoterInv, Target, Busy
  <2> QED
    BY <1>2, <2>1 DEF Pending, ItemsOf
<1>5. Target(p)'
  BY <1>2, <1>3 DEF Target, Busy
<1>6. Listing(p)' /\ Whole(p)'
  BY <1>2, <1>3, <1>4, ListedStays
<1>7. IsList(r.rest) /\ \A c \in r.clusters : c # {} /\ IsList(c)
  BY <1>2, <1>3
<1> QED
  BY <1>1, <1>2, <1>5, <1>6, <1>7, OnePromoterPrepares DEF PromoterInv

LEMMA KeepStoryKeeps ==
  ASSUME NEW p \in Promoters, PromotionInv, KeepStory(p)
  PROVE  PromotionInv'
<1>1. PICK cluster \in FirstCluster(promoter[p].clusters) :
         \/ \E s \in AssignedStories(p, cluster) : To(p, s, cluster)
         \/ Fail(p)
  BY Zenon DEF KeepStory
<1>2. promoter[p].pc = "cluster" /\ observation' = observation /\ claims' = claims /\ story' = story
  BY DEF KeepStory, discoveryVars
<1>3. cluster \in promoter[p].clusters
  BY FirstIsCluster
<1>4. \A s \in AssignedStories(p, cluster) : s # NoStory
  BY DEF AssignedStories
<1>5. CASE Fail(p)
  BY <1>2, <1>5, FailKeeps
<1>6. CASE \E s \in AssignedStories(p, cluster) : To(p, s, cluster)
  BY <1>2, <1>3, <1>4, <1>6, ToKeeps
<1> QED
  BY <1>1, <1>5, <1>6

\* A story that is written is one there is room for.
LEMMA WriteStoryIsTo ==
  ASSUME PromotionInv, NEW p, NEW cluster, NEW key, NEW fingerprints, WriteStory(p, cluster, key, fingerprints)
  PROVE  \E s : s # NoStory /\ To(p, s, cluster) /\ DOMAIN story' = DOMAIN story
<1>1. PICK s : /\ s \in Stories
               /\ \E new : story' = [story EXCEPT ![s] = new]
               /\ To(p, s, cluster)
  <2> DEFINE present == {s \in Rows : story[s].key = key}
  <2>1. PICK s \in IF present # {} THEN present ELSE Stories \ Rows :
          /\ story' = [story EXCEPT ![s] =
                         [key |-> key, words |-> Item[Leading(cluster)].words,
                          fingerprints |-> SignatureFor(fingerprints, cluster)]]
          /\ To(p, s, cluster)
    BY Zenon DEF WriteStory
  <2>2. s \in Stories
    BY DEF Rows
  <2> HIDE DEF present
  <2> QED
    BY <2>1, <2>2
<1>2. s \in 1..MaxStories
  BY <1>1 DEF Stories, PromotionInv, PromotionTypes
<1>3. s # NoStory
  BY <1>2, PromotionAssumption DEF NoStory
<1> QED
  BY <1>1, <1>3

LEMMA UpsertStoryKeeps ==
  ASSUME NEW p \in Promoters, PromotionInv, UpsertStory(p)
  PROVE  PromotionInv'
<1>1. PICK cluster \in FirstCluster(promoter[p].clusters) :
         \E key, fingerprints : WriteStory(p, cluster, key, fingerprints)
  BY Zenon DEF UpsertStory
<1>2. promoter[p].pc = "cluster" /\ observation' = observation /\ claims' = claims
  BY DEF UpsertStory, discoveryVars
<1>3. cluster \in promoter[p].clusters
  BY FirstIsCluster
<1>4. PICK s : s # NoStory /\ To(p, s, cluster) /\ DOMAIN story' = DOMAIN story
  BY <1>1, WriteStoryIsTo
<1> QED
  BY <1>2, <1>3, <1>4, ToKeeps

LEMMA EnsurePublisherReportClaimsKeeps ==
  ASSUME NEW p \in Promoters, PromotionInv, EnsurePublisherReportClaims(p)
  PROVE  PromotionInv'
<1> DEFINE r == [promoter[p] EXCEPT !.pc = "assign"]
<1>1. promoter' = [promoter EXCEPT ![p] = r] /\ promoter[p].pc = "item"
  BY DEF EnsurePublisherReportClaims
<1>2. /\ promoter'[p] = r /\ DOMAIN r = DOMAIN NoPromotion
      /\ r.pc = "assign" /\ r.rest = promoter[p].rest /\ r.clusters = promoter[p].clusters
      /\ r.affected = promoter[p].affected /\ r.target = promoter[p].target
  BY <1>1 DEF PromotionInv, PromotionTypes, NoPromotion
<1> HIDE DEF r
<1>3. Pending(p)' = Pending(p)
  BY <1>2 DEF Pending
<1>4. PromoterInv(p)
  BY DEF PromotionInv
<1>5. Target(p)'
  BY <1>1, <1>2, <1>4 DEF PromoterInv, Target, Busy
<1>6. Listing(p)' /\ Whole(p)'
  BY <1>1, <1>2, <1>3, <1>4, ListedStays DEF EnsurePublisherReportClaims, discoveryVars
<1>7. IsList(r.rest) /\ \A c \in r.clusters : c # {} /\ IsList(c)
  BY <1>2 DEF PromotionInv, PromotionTypes
<1> QED
  BY <1>1, <1>2, <1>5, <1>6, <1>7, OnePromoterPrepares DEF EnsurePublisherReportClaims, discoveryVars, PromoterInv

\* The current item is one of those listed.
LEMMA CurrentIsPending ==
  ASSUME NEW p \in Promoters, PromotionInv, Busy(p)
  PROVE  /\ Earliest(promoter[p].rest) \in promoter[p].rest
         /\ Current(p) \in Pending(p) /\ Current(p) \in DOMAIN observation /\ Able(Current(p))
         /\ Asked[p].only # NoName => observation[Current(p)].job = Asked[p].job
<1>1. promoter[p].rest # {} /\ \A e \in promoter[p].rest : e.at \in Nat
  BY DEF PromotionInv, PromotionTypes, PromoterInv, Target, IsList
<1>2. Earliest(promoter[p].rest) \in promoter[p].rest
  BY <1>1, EarliestIsFirst
<1>3. Current(p) \in Pending(p)
  BY <1>2 DEF Current, Leading, Pending, ItemsOf
<1> QED
  BY <1>2, <1>3 DEF PromotionInv, PromoterInv, Listing

\* A row that is assigned had no other story and no other job, and could be listed.
LEMMA RowIsAssigned ==
  ASSUME NEW p \in Promoters, PromotionInv, RowTypes, promoter[p].pc = "assign",
         Assignable(observation[Current(p)], promoter[p].target, Asked[p].job),
         observation' = [observation EXCEPT ![Current(p)].story = promoter[p].target,
                                            ![Current(p)].job = IF Asked[p].job = NoName THEN @ ELSE Asked[p].job]
  PROVE  /\ RowTypes' /\ Keeps /\ JobsKept /\ JobRows' /\ \A q \in Promoters \ {p} : NoneTakes(q)
         /\ DOMAIN observation' = DOMAIN observation
         /\ \A i \in DOMAIN observation \ {Current(p)} : observation'[i] = observation[i]
         /\ observation'[Current(p)].story = promoter[p].target
<1> DEFINE i == Current(p)
           job == IF Asked[p].job = NoName THEN observation[i].job ELSE Asked[p].job
<1>1. Busy(p)
  BY DEF Busy
<1>2. /\ i \in DOMAIN observation /\ Able(i)
      /\ Asked[p].only # NoName => observation[i].job = Asked[p].job
  BY <1>1, CurrentIsPending
<1>3. promoter[p].target # NoStory
  BY <1>1 DEF PromotionInv, PromoterInv, Target
<1> HIDE DEF i
<1>4. observation' = [observation EXCEPT ![i] = [observation[i] EXCEPT !.story = promoter[p].target, !.job = job]]
  BY <1>2 DEF i, RowTypes
<1>5. /\ observation[i].story \in {NoStory, promoter[p].target}
      /\ Asked[p].job # NoName => observation[i].job \in {NoName, Asked[p].job}
  BY DEF Assignable, i
<1>6. /\ DOMAIN observation' = DOMAIN observation
      /\ \A j \in DOMAIN observation \ {i} : observation'[j] = observation[j]
      /\ observation'[i].story = promoter[p].target /\ observation'[i].job = job
      /\ DOMAIN observation'[i] = DOMAIN observation[i] /\ observation'[i].seen = observation[i].seen
  <2> DEFINE row == [observation[i] EXCEPT !.story = promoter[p].target, !.job = job]
  <2>1. /\ row.story = promoter[p].target /\ row.job = job
        /\ DOMAIN row = DOMAIN observation[i] /\ row.seen = observation[i].seen
    BY <1>2 DEF RowTypes
  <2> HIDE DEF row
  <2>2. /\ DOMAIN observation' = DOMAIN observation /\ observation'[i] = row
        /\ \A j \in DOMAIN observation \ {i} : observation'[j] = observation[j]
    BY <1>2, <1>4 DEF row
  <2> QED
    BY <2>1, <2>2
<1>7. Keeps
  BY <1>5, <1>6 DEF Keeps
<1>8. JobsKept
  BY <1>5, <1>6 DEF JobsKept
<1>9. JobRows'
  <2> SUFFICES ASSUME NEW j \in DOMAIN observation', observation'[j].job # NoName
               PROVE  observation'[j].story # NoStory /\ Able(j)
    BY DEF JobRows, Able, Promotable
  <2>1. CASE j = i
    BY <1>2, <1>3, <1>6, <2>1
  <2>2. CASE j # i
    BY <1>6, <2>2 DEF PromotionInv, JobRows
  <2> QED
    BY <2>1, <2>2
<1>10. ASSUME NEW q \in Promoters \ {p}, WholeJob(q), NEW j \in DOMAIN observation', observation'[j].job = Asked[q].job
       PROVE  j \in DOMAIN observation /\ observation[j].job = Asked[q].job
  <2>1. CASE j = i /\ Asked[p].job # NoName
    <3>1. Asked[p].job = Asked[q].job
      BY <1>6, <1>10, <2>1
    <3>2. Asked[p].only # NoName
      BY <1>10, <3>1 DEF WholeJob
    <3> QED
      BY <1>2, <2>1, <3>1, <3>2
  <2>2. CASE j = i /\ Asked[p].job = NoName
    BY <1>2, <1>6, <1>10, <2>2
  <2>3. CASE j # i
    BY <1>6, <1>10, <2>3
  <2> QED
    BY <2>1, <2>2, <2>3
<1>11. \A q \in Promoters \ {p} : NoneTakes(q)
  BY <1>10 DEF NoneTakes
<1>12. RowTypes'
  BY <1>2, <1>6 DEF RowTypes
<1> QED
  BY <1>6, <1>7, <1>8, <1>9, <1>11, <1>12 DEF i

LEMMA AssignObservationKeeps ==
  ASSUME NEW p \in Promoters, PromotionInv, RowTypes, AssignObservation(p)
  PROVE  PromotionInv' /\ Keeps /\ RowTypes'
<1>1. promoter[p].pc = "assign" /\ claims' = claims /\ story' = story
  BY DEF AssignObservation
<1>2. CASE ~Assignable(observation[Current(p)], promoter[p].target, Asked[p].job)
  <2>1. Fail(p) /\ observation' = observation
    BY <1>2 DEF AssignObservation, Forsake
  <2> QED
    BY <1>1, <2>1, FailKeeps DEF Keeps, RowTypes
<1>3. CASE Assignable(observation[Current(p)], promoter[p].target, Asked[p].job)
  <2> DEFINE r == [promoter[p] EXCEPT !.pc = "claim"]
             i == Current(p)
  <2>1. promoter' = [promoter EXCEPT ![p] = r]
    BY <1>3 DEF AssignObservation
  <2>2. observation' = [observation EXCEPT ![Current(p)].story = promoter[p].target,
                                           ![Current(p)].job = IF Asked[p].job = NoName THEN @ ELSE Asked[p].job]
    BY <1>3 DEF AssignObservation
  <2>3. /\ promoter'[p] = r /\ DOMAIN r = DOMAIN NoPromotion
        /\ r.pc = "claim" /\ r.rest = promoter[p].rest /\ r.clusters = promoter[p].clusters
        /\ r.affected = promoter[p].affected /\ r.target = promoter[p].target
    BY <2>1 DEF PromotionInv, PromotionTypes, NoPromotion
  <2> HIDE DEF r, i
  <2>4. /\ RowTypes' /\ Keeps /\ JobsKept /\ JobRows' /\ \A q \in Promoters \ {p} : NoneTakes(q)
        /\ DOMAIN observation' = DOMAIN observation
        /\ \A j \in DOMAIN observation \ {i} : observation'[j] = observation[j]
        /\ observation'[i].story = promoter[p].target
    BY <1>1, <1>3, <2>2, RowIsAssigned DEF i
  <2>5. i \in Pending(p) /\ i \in DOMAIN observation
    BY <1>1, CurrentIsPending DEF i, Busy
  <2>6. Pending(p)' = Pending(p) /\ Current(p)' = i
    BY <2>3 DEF Pending, Current, i
  <2>7. PromoterInv(p)
    BY DEF PromotionInv
  <2>8. Target(p)'
    BY <1>1, <2>3, <2>4, <2>5, <2>6, <2>7 DEF PromoterInv, Target, Busy, Still
  <2>9. Listing(p)'
    <3> SUFFICES ASSUME NEW j \in Pending(p)
                 PROVE  /\ j \in DOMAIN observation' /\ Able(j)
                        /\ Asked[p].only # NoName => observation'[j].job = Asked[p].job
      BY <2>6 DEF Listing, Able, Promotable
    <3>1. /\ j \in DOMAIN observation /\ Able(j)
          /\ Asked[p].only # NoName => observation[j].job = Asked[p].job
      BY <2>7 DEF PromoterInv, Listing
    <3> QED
      BY <2>4, <3>1, PromotionAssumption DEF JobsKept
  <2>10. Whole(p)'
    <3> SUFFICES ASSUME WholeJob(p), NEW j \in DOMAIN observation', observation'[j].job = Asked[p].job
                 PROVE  \/ /\ [item |-> j, story |-> observation'[j].story] \in claims
                           /\ observation'[j].story \in promoter[p].affected
                        \/ j \in Pending(p)
      BY <1>1, <2>3, <2>6 DEF Whole, Handled, WholeJob
    <3> QED
      BY <1>1, <2>4, <2>5, <2>7 DEF PromoterInv, Whole, Handled
  <2>11. ClaimsStand'
    BY <1>1, <2>4, ClaimsStillStand DEF PromotionInv
  <2>12. IsList(r.rest) /\ \A c \in r.clusters : c # {} /\ IsList(c)
    BY <2>3 DEF PromotionInv, PromotionTypes
  <2> QED
    BY <1>1, <2>1, <2>3, <2>4, <2>8, <2>9, <2>10, <2>11, <2>12, OnePromoterMoves DEF PromoterInv
<1> QED
  BY <1>2, <1>3

LEMMA EnsureDiscoveryClaimKeeps ==
  ASSUME NEW p \in Promoters, PromotionInv, EnsureDiscoveryClaim(p)
  PROVE  PromotionInv'
<1> DEFINE rest == promoter[p].rest \ {Earliest(promoter[p].rest)}
           r == [promoter[p] EXCEPT !.pc = IF rest = {} THEN "cluster" ELSE "item", !.rest = rest]
           i == Current(p)
           new == [item |-> i, story |-> promoter[p].target]
<1>1. /\ promoter' = [promoter EXCEPT ![p] = r] /\ claims' = claims \cup {new}
      /\ promoter[p].pc = "claim" /\ observation' = observation /\ story' = story
  BY DEF EnsureDiscoveryClaim, discoveryVars
<1>2. /\ promoter'[p] = r /\ DOMAIN r = DOMAIN NoPromotion
      /\ r.pc = IF rest = {} THEN "cluster" ELSE "item"
      /\ r.rest = rest /\ r.clusters = promoter[p].clusters
      /\ r.affected = promoter[p].affected /\ r.target = promoter[p].target
  BY <1>1 DEF PromotionInv, PromotionTypes, NoPromotion
<1>3. /\ Earliest(promoter[p].rest) \in promoter[p].rest
      /\ i = Earliest(promoter[p].rest).item /\ i \in DOMAIN observation
  BY <1>1, CurrentIsPending DEF Busy, Current, Leading
<1>4. /\ promoter[p].target # NoStory /\ promoter[p].target \in promoter[p].affected
      /\ Still(i, promoter[p].target)
  BY <1>1 DEF PromotionInv, PromoterInv, Target, Busy
<1> HIDE DEF r, i
<1>5. PromoterInv(p)
  BY DEF PromotionInv
<1>6. Target(p)'
  BY <1>2, <1>4 DEF Target, Busy
<1>7. Pending(p)' \subseteq Pending(p) /\ Pending(p) \subseteq Pending(p)' \cup {i}
  BY <1>2, <1>3 DEF Pending, ItemsOf
<1>8. Listing(p)'
  BY <1>1, <1>5, <1>7 DEF PromoterInv, Listing, Able, Promotable
<1>9. Whole(p)'
  <2> SUFFICES ASSUME WholeJob(p), NEW j \in DOMAIN observation, observation[j].job = Asked[p].job
               PROVE  \/ /\ [item |-> j, story |-> observation[j].story] \in claims'
                         /\ observation[j].story \in promoter[p].affected
                      \/ j \in Pending(p)'
    BY <1>1, <1>2 DEF Whole, Handled, WholeJob
  <2>1. CASE j = i
    BY <1>1, <1>4, <2>1 DEF Still
  <2>2. CASE j # i
    BY <1>1, <1>5, <1>7, <2>2 DEF PromoterInv, Whole, Handled
  <2> QED
    BY <2>1, <2>2
<1>10. ClaimsStand'
  BY <1>1, <1>4 DEF PromotionInv, ClaimsStand, Still
<1>11. IsList(r.rest) /\ \A c \in r.clusters : c # {} /\ IsList(c)
  BY <1>2, PartIsList DEF PromotionInv, PromotionTypes
<1>12. Keeps /\ JobsKept /\ JobRows' /\ \A q \in Promoters : NoneTakes(q)
  BY <1>1, RowsStay DEF PromotionInv, RowsStand
<1> HIDE DEF new
<1> QED
  BY <1>1, <1>2, <1>6, <1>8, <1>9, <1>10, <1>11, <1>12, OnePromoterMoves DEF PromoterInv

LEMMA EndPromotionKeeps ==
  ASSUME NEW p \in Promoters, PromotionInv, EndPromotion(p)
  PROVE  PromotionInv'
<1>1. PICK recent :
         promoter' = [promoter EXCEPT ![p] = [NoPromotion EXCEPT !.pc = "done",
                                                !.affected = promoter[p].affected \cup recent]]
  BY Zenon DEF EndPromotion
<1> DEFINE r == [NoPromotion EXCEPT !.pc = "done", !.affected = promoter[p].affected \cup recent]
<1>2. /\ promoter[p].pc = "cluster" /\ promoter[p].clusters = {}
      /\ observation' = observation /\ claims' = claims /\ story' = story
  BY DEF EndPromotion, discoveryVars
<1>3. /\ r.pc = "done" /\ r.rest = {} /\ r.clusters = {} /\ DOMAIN r = DOMAIN NoPromotion
      /\ r.affected = promoter[p].affected \cup recent
  BY DEF NoPromotion
<1> HIDE DEF r
<1>4. promoter' = [promoter EXCEPT ![p] = r] /\ promoter'[p] = r
  BY <1>1 DEF r, PromotionInv, PromotionTypes
<1>5. PromoterInv(p)
  BY DEF PromotionInv
<1>6. Pending(p) = {} /\ Pending(p)' = {}
  BY <1>2, <1>3, <1>4, <1>5 DEF Pending, ItemsOf, PromoterInv, Target, Busy
<1>7. Target(p)' /\ Listing(p)'
  BY <1>3, <1>4, <1>6 DEF Target, Busy, Listing
<1>8. Whole(p)'
  <2> SUFFICES ASSUME WholeJob(p), NEW i \in DOMAIN observation, observation[i].job = Asked[p].job
               PROVE  /\ [item |-> i, story |-> observation[i].story] \in claims
                      /\ observation[i].story \in promoter'[p].affected
    BY <1>2 DEF Whole, Handled, WholeJob
  <2> QED
    BY <1>2, <1>3, <1>4, <1>5, <1>6 DEF PromoterInv, Whole, Handled
<1>9. IsList(r.rest) /\ \A c \in r.clusters : c # {} /\ IsList(c)
  BY <1>3 DEF IsList
<1> QED
  BY <1>2, <1>3, <1>4, <1>7, <1>8, <1>9, OnePromoterPrepares DEF PromoterInv

\* Of the first n places of an order fewer than n are before one of them.
LEMMA FewerBefore ==
  ASSUME NEW order \in Seq(Items), NEW list \in SUBSET Listed(order), NEW k \in DOMAIN order,
         NEW limit \in Nat, Len(order) <= limit
  PROVE  Cardinality({f \in list : f.at < k}) < limit
<1> DEFINE before == {f \in list : f.at < k}
           all == {[at |-> n, item |-> order[n]] : n \in 1..(k - 1)}
           entry == [n \in 1..(k - 1) |-> [at |-> n, item |-> order[n]]]
<1>1. k \in 1..Len(order) /\ DOMAIN order = 1..Len(order) /\ Len(order) \in Nat
  OBVIOUS
<1>2. IsFiniteSet(1..(k - 1)) /\ Cardinality(1..(k - 1)) = k - 1
  <2> DEFINE n == k - 1
  <2>1. n \in Nat /\ n \in Int /\ 1 \in Int
    BY <1>1
  <2> HIDE DEF n
  <2>2. IsFiniteSet(1..n) /\ Cardinality(1..n) = IF 1 > n THEN 0 ELSE n - 1 + 1
    BY <2>1, FS_Interval, Zenon
  <2>3. Cardinality(1..n) = n
    BY <2>1, <2>2
  <2> QED
    BY <2>2, <2>3 DEF n
<1>3. entry \in Surjection(1..(k - 1), all)
  BY DEF Surjection
<1>4. IsFiniteSet(all) /\ Cardinality(all) <= k - 1
  <2> HIDE DEF all, entry
  <2> QED
    BY <1>2, <1>3, FS_Surjection
<1>5. before \subseteq all
  <2>1. ASSUME NEW f \in list, f.at < k
        PROVE  \E n \in 1..(k - 1) : f = [at |-> n, item |-> order[n]]
    <3>1. PICK n \in DOMAIN order : f = [at |-> n, item |-> order[n]]
      BY DEF Listed
    <3>2. f.at = n
      BY <3>1
    <3> QED
      BY <1>1, <2>1, <3>1, <3>2
  <2> QED
    BY <2>1
<1>6. Cardinality(before) <= Cardinality(all) /\ Cardinality(before) \in Nat /\ Cardinality(all) \in Nat
  BY <1>4, <1>5, FS_Subset, FS_CardinalityType
<1> HIDE DEF before, all
<1> QED
  BY <1>1, <1>4, <1>6 DEF before

LEMMA ListedIsList ==
  ASSUME NEW order \in Seq(Items)
  PROVE  IsList(Listed(order)) /\ \A k \in DOMAIN order : [at |-> k, item |-> order[k]] \in Listed(order)
<1>1. DOMAIN order \subseteq Nat
  OBVIOUS
<1>2. ASSUME NEW e \in Listed(order) PROVE e.at \in Nat /\ e = [at |-> e.at, item |-> order[e.at]]
  BY <1>1 DEF Listed
<1>3. \A e, f \in Listed(order) : e.at = f.at => e = f
  BY <1>2
<1> QED
  BY <1>2, <1>3 DEF IsList, Listed

LEMMA ListObservationsKeeps ==
  ASSUME NEW p \in Promoters, PromotionInv, RowTypes, ListObservations(p)
  PROVE  PromotionInv'
<1> DEFINE fresh == ListFreshUnassigned(Asked[p])
           limited(order) == Limited({e \in Listed(order) : e.item \in fresh}, Asked[p].limit)
           keepable(order) == {e \in limited(order) : Promotable(e.item)}
<1>0. PICK order \in SeenOrders : \E clusters \in ClusterObservations(keepable(order)) :
         promoter' = [promoter EXCEPT ![p] =
           [NoPromotion EXCEPT
              !.pc = IF keepable(order) = {} /\ ~Asked[p].refresh THEN "done" ELSE "stories",
              !.clusters = clusters,
              !.listed = {<<i, observation[i].story>> : i \in ItemsOf(keepable(order))}]]
  BY Zenon DEF ListObservations
<1>1. PICK clusters \in ClusterObservations(keepable(order)) :
         promoter' = [promoter EXCEPT ![p] =
           [NoPromotion EXCEPT
              !.pc = IF keepable(order) = {} /\ ~Asked[p].refresh THEN "done" ELSE "stories",
              !.clusters = clusters,
              !.listed = {<<i, observation[i].story>> : i \in ItemsOf(keepable(order))}]]
  BY <1>0
<1> DEFINE kept == keepable(order)
           r == [NoPromotion EXCEPT
              !.pc = IF kept = {} /\ ~Asked[p].refresh THEN "done" ELSE "stories",
              !.clusters = clusters,
              !.listed = {<<i, observation[i].story>> : i \in ItemsOf(kept)}]
<1>2. /\ r.pc \in {"done", "stories"} /\ (kept # {} => r.pc = "stories")
      /\ r.rest = {} /\ r.clusters = clusters /\ DOMAIN r = DOMAIN NoPromotion
  BY DEF NoPromotion
<1>3. promoter' = [promoter EXCEPT ![p] = r] /\ observation' = observation /\ claims' = claims /\ story' = story
  BY <1>1 DEF ListObservations, discoveryVars
<1>4. promoter'[p] = r
  BY <1>3 DEF PromotionInv, PromotionTypes
<1> HIDE DEF r
<1>5. /\ order \in Seq(Items) /\ Range(order) = Items
      /\ Asked[p].limit \in Nat /\ (Asked[p].only # NoName => Asked[p].job # NoName)
  <2>1. order \in Seq(Items) /\ Range(order) = Items
    BY PromotionAssumption, Zenon
  <2>2. Asked[p].limit \in 1..100 /\ (Asked[p].only # NoName => Asked[p].job # NoName)
    BY PromotionAssumption, Zenon
  <2>3. Asked[p].limit \in Nat
    BY <2>2
  <2> QED
    BY <2>1, <2>2, <2>3, Zenon
<1>6. kept \subseteq Listed(order) /\ \A e \in kept : e.item \in fresh /\ Promotable(e.item)
  BY DEF Limited
<1>7. IsList(kept) /\ clusters \in ClusterObservations(kept)
  BY <1>5, <1>6, ListedIsList, PartIsList
<1>8. IsPartition(clusters, kept)
  BY <1>7, ClustersPart
<1>9. Pending(p)' = ItemsOf(kept)
  <2>1. UNION clusters = kept
    BY <1>8 DEF IsPartition
  <2> HIDE DEF kept
  <2>2. promoter'[p].rest = {} /\ promoter'[p].clusters = clusters
    BY <1>2, <1>4
  <2> QED
    BY <2>1, <2>2 DEF Pending, ItemsOf
<1>10. IsList(r.rest) /\ \A c \in r.clusters : c # {} /\ IsList(c)
  <2>1. \A c \in clusters : c # {} /\ c \subseteq kept
    BY <1>8 DEF IsPartition
  <2> HIDE DEF kept
  <2> QED
    BY <1>2, <1>7, <2>1, PartIsList DEF IsList
<1>11. Target(p)'
  BY <1>2, <1>4 DEF Target, Busy
<1>12. Listing(p)'
  <2> SUFFICES ASSUME NEW e \in kept
               PROVE  /\ e.item \in DOMAIN observation /\ Able(e.item)
                      /\ Asked[p].only # NoName => observation[e.item].job = Asked[p].job
    BY <1>3, <1>9 DEF Listing, Able, Promotable, ItemsOf
  <2>1. e.item \in fresh /\ Promotable(e.item)
    BY <1>6
  <2> HIDE DEF kept
  <2> QED
    BY <2>1 DEF ListFreshUnassigned, Able
<1>13. Whole(p)'
  <2> SUFFICES ASSUME WholeJob(p), NEW i \in DOMAIN observation, observation[i].job = Asked[p].job
               PROVE  i \in ItemsOf(kept)
    <3>1. ItemsOf(kept) # {} => kept # {}
      BY DEF ItemsOf
    <3> HIDE DEF kept
    <3> QED
      BY <1>2, <1>3, <1>4, <1>9, <3>1 DEF Whole, WholeJob
  <2>1. /\ Asked[p].job # NoName /\ Asked[p].only = NoName /\ Len(order) <= Asked[p].limit
        /\ observation[i].seen \in Asked[p].covers /\ i \in Items
    BY DEF WholeJob, RowTypes
  <2>2. Able(i)
    BY <2>1 DEF PromotionInv, JobRows
  <2>3. i \in fresh
    BY <2>1, <2>2 DEF ListFreshUnassigned, Able
  <2>4. PICK k \in DOMAIN order : order[k] = i
    BY <1>5, <2>1 DEF Range
  <2> DEFINE list == {e \in Listed(order) : e.item \in fresh}
             entry == [at |-> k, item |-> i]
  <2>5. entry \in list
    BY <1>5, <2>3, <2>4, ListedIsList
  <2>6. Cardinality({f \in list : f.at < k}) < Asked[p].limit
    BY <1>5, <2>1, FewerBefore
  <2>7. entry \in Limited(list, Asked[p].limit)
    BY <2>5, <2>6 DEF Limited
  <2>8. entry \in kept
    BY <2>2, <2>7 DEF Able
  <2> HIDE DEF kept, list
  <2> QED
    BY <2>8 DEF ItemsOf
<1> HIDE DEF kept
<1> QED
  BY <1>2, <1>3, <1>10, <1>11, <1>12, <1>13, OnePromoterPrepares DEF PromoterInv

LEMMA PromotionStep ==
  ASSUME PromotionInv, DiscoveryInv, PromotionNext
  PROVE  /\ PromotionInv' /\ Keeps /\ RowTypes'
         /\ run' = run /\ snapshot' = snapshot
<1>1. PICK p \in Promoters :
        \/ ListObservations(p) \/ ListStories(p) \/ KeepStory(p) \/ UpsertStory(p)
        \/ EnsurePublisherReportClaims(p) \/ AssignObservation(p) \/ EnsureDiscoveryClaim(p)
        \/ EndPromotion(p) \/ KillPromotion(p)
  BY DEF PromotionNext
<1>2. run' = run /\ snapshot' = snapshot /\ (AssignObservation(p) \/ observation' = observation)
  BY <1>1 DEF ListObservations, ListStories, KeepStory, UpsertStory, EnsurePublisherReportClaims,
              AssignObservation, EnsureDiscoveryClaim, EndPromotion, KillPromotion, discoveryVars
<1>3. RowTypes
  BY DEF DiscoveryInv, DiscoveryTypes
<1>4. observation' = observation => Keeps /\ RowTypes'
  BY <1>3 DEF Keeps, RowTypes
<1>5. CASE AssignObservation(p)
  BY <1>2, <1>3, <1>5, AssignObservationKeeps
<1>6. CASE observation' = observation /\ ~AssignObservation(p)
  <2>1. PromotionInv'
    <3>1. CASE ListObservations(p)
      BY <1>3, <3>1, ListObservationsKeeps
    <3>2. CASE ListStories(p)
      BY <3>2, ListStoriesKeeps
    <3>3. CASE KeepStory(p)
      BY <3>3, KeepStoryKeeps
    <3>4. CASE UpsertStory(p)
      BY <3>4, UpsertStoryKeeps
    <3>5. CASE EnsurePublisherReportClaims(p)
      BY <3>5, EnsurePublisherReportClaimsKeeps
    <3>6. CASE EnsureDiscoveryClaim(p)
      BY <3>6, EnsureDiscoveryClaimKeeps
    <3>7. CASE EndPromotion(p)
      BY <3>7, EndPromotionKeeps
    <3>8. CASE KillPromotion(p)
      BY <3>8, FailKeeps DEF KillPromotion, Forsake, discoveryVars
    <3> QED
      BY <1>1, <1>6, <3>1, <3>2, <3>3, <3>4, <3>5, <3>6, <3>7, <3>8
  <2> QED
    BY <1>2, <1>4, <1>6, <2>1
<1> QED
  BY <1>2, <1>5, <1>6

\* Where the rows only gain stories, a report stays accounted for unless the job whose next
\* step was its assignment moves on.
LEMMA ReportsStay ==
  ASSUME ReportsStand, Keeps, reports' = reports, forsaken \subseteq forsaken',
         \A q \in Promoters : \A r \in Unassigned(q) :
            observation'[r.item].story = r.story \/ r \in forsaken' \/ promoter'[q] = promoter[q]
  PROVE  ReportsStand'
<1> SUFFICES ASSUME NEW r \in reports
             PROVE  /\ r.item \in DOMAIN observation' /\ r.story # NoStory
                    /\ \/ observation'[r.item].story = r.story
                       \/ r \in forsaken'
                       \/ \E p \in Promoters : r \in Unassigned(p)'
  BY DEF ReportsStand
<1>1. /\ r.item \in DOMAIN observation /\ r.story # NoStory
      /\ \/ observation[r.item].story = r.story
         \/ r \in forsaken
         \/ \E p \in Promoters : r \in Unassigned(p)
  BY DEF ReportsStand
<1>2. r.item \in DOMAIN observation'
  BY <1>1 DEF Keeps
<1>3. CASE observation[r.item].story = r.story
  BY <1>1, <1>2, <1>3 DEF Keeps
<1>4. ASSUME NEW p \in Promoters, r \in Unassigned(p)
      PROVE  observation'[r.item].story = r.story \/ r \in forsaken' \/ r \in Unassigned(p)'
  BY <1>4 DEF Unassigned, Current
<1> QED
  BY <1>1, <1>2, <1>3, <1>4

\* A promoter's step: it reports before it assigns, and then assigns or gives up.
LEMMA ReportsStep ==
  ASSUME PromotionInv, RowTypes, ReportsStand, Keeps, PromotionNext
  PROVE  ReportsStand'
<1>1. PICK p \in Promoters :
        \/ ListObservations(p) \/ ListStories(p) \/ KeepStory(p) \/ UpsertStory(p)
        \/ EnsurePublisherReportClaims(p) \/ AssignObservation(p) \/ EnsureDiscoveryClaim(p)
        \/ EndPromotion(p) \/ KillPromotion(p)
  BY DEF PromotionNext
<1>2. \A q \in Promoters \ {p} : promoter'[q] = promoter[q]
  <2>1. CASE ListObservations(p) \/ ListStories(p) \/ EndPromotion(p)
    BY <2>1 DEF ListObservations, ListStories, EndPromotion, PromotionInv, PromotionTypes
  <2>2. CASE EnsurePublisherReportClaims(p) \/ EnsureDiscoveryClaim(p)
    BY <2>2 DEF EnsurePublisherReportClaims, EnsureDiscoveryClaim, PromotionInv, PromotionTypes
  <2>3. CASE AssignObservation(p) \/ KillPromotion(p)
    BY <2>3 DEF AssignObservation, KillPromotion, Forsake, Fail, PromotionInv, PromotionTypes
  <2>4. CASE KeepStory(p)
    BY <2>4 DEF KeepStory, Fail, To, PromotionInv, PromotionTypes
  <2>5. CASE UpsertStory(p)
    <3>1. PICK cluster \in FirstCluster(promoter[p].clusters) :
             \E key, fingerprints : WriteStory(p, cluster, key, fingerprints)
      BY <2>5, Zenon DEF UpsertStory
    <3>2. \E t : To(p, t, cluster)
      BY <2>5, <3>1, WriteStoryIsTo, FirstIsCluster DEF UpsertStory
    <3> QED
      BY <3>2 DEF To, PromotionInv, PromotionTypes
  <2> QED
    BY <1>1, <2>1, <2>2, <2>3, <2>4, <2>5
<1>3. CASE ListObservations(p) \/ ListStories(p) \/ KeepStory(p) \/ UpsertStory(p)
             \/ EnsureDiscoveryClaim(p) \/ EndPromotion(p)
  <2>1. promoter[p].pc # "assign" /\ reports' = reports /\ forsaken' = forsaken
    BY <1>3 DEF ListObservations, ListStories, KeepStory, UpsertStory, EnsureDiscoveryClaim, EndPromotion
  <2>2. Unassigned(p) = {}
    BY <2>1 DEF Unassigned
  <2> QED
    BY <1>2, <2>1, <2>2, ReportsStay
<1>4. CASE EnsurePublisherReportClaims(p)
  <2> DEFINE new == [item |-> Current(p), story |-> promoter[p].target]
  <2>1. /\ promoter[p].pc = "item" /\ promoter' = [promoter EXCEPT ![p].pc = "assign"]
        /\ reports' \subseteq reports \cup {new} /\ forsaken' = forsaken /\ observation' = observation
    BY <1>4 DEF EnsurePublisherReportClaims, discoveryVars
  <2>2. promoter[p].target # NoStory /\ Current(p) \in DOMAIN observation
    BY <2>1, CurrentIsPending DEF Busy, PromotionInv, PromoterInv, Target
  <2>3. /\ promoter'[p].pc = "assign" /\ promoter'[p].rest = promoter[p].rest
        /\ promoter'[p].target = promoter[p].target
    BY <2>1 DEF PromotionInv, PromotionTypes
  <2>4. new \in reports' => new \in Unassigned(p)'
    BY <2>3 DEF Unassigned, Current
  <2>5. ASSUME NEW r \in reports
        PROVE  /\ r.item \in DOMAIN observation /\ r.story # NoStory
               /\ \/ observation[r.item].story = r.story
                  \/ r \in forsaken
                  \/ \E q \in Promoters \ {p} : r \in Unassigned(q)
    BY <2>1 DEF ReportsStand, Unassigned
  <2>6. \A q \in Promoters \ {p} : Unassigned(q) \cap reports' \subseteq Unassigned(q)'
    BY <1>2 DEF Unassigned, Current
  <2> SUFFICES ASSUME NEW r \in reports'
               PROVE  /\ r.item \in DOMAIN observation' /\ r.story # NoStory
                      /\ \/ observation'[r.item].story = r.story
                         \/ r \in forsaken'
                         \/ \E q \in Promoters : r \in Unassigned(q)'
    BY DEF ReportsStand
  <2> HIDE DEF new
  <2>7. CASE r \in reports
    BY <2>1, <2>5, <2>6, <2>7
  <2>8. CASE r = new
    BY <2>1, <2>2, <2>4, <2>8 DEF new
  <2> QED
    BY <2>1, <2>7, <2>8
<1>5. CASE AssignObservation(p) \/ KillPromotion(p)
  <2>1. reports' = reports
    BY <1>5 DEF AssignObservation, KillPromotion
  <2>2. forsaken \subseteq forsaken' /\ \A r \in Unassigned(p) : observation'[r.item].story = r.story \/ r \in forsaken'
    <3>1. CASE Forsake(p)
      BY <3>1 DEF Forsake
    <3>2. CASE /\ AssignObservation(p)
               /\ Assignable(observation[Current(p)], promoter[p].target, Asked[p].job)
      <4>1. promoter[p].pc = "assign" /\ forsaken' = forsaken
        BY <3>2 DEF AssignObservation
      <4>2. observation'[Current(p)].story = promoter[p].target
        BY <3>2, <4>1, RowIsAssigned DEF AssignObservation
      <4> QED
        BY <4>1, <4>2 DEF Unassigned
    <3> QED
      BY <1>5, <3>1, <3>2 DEF AssignObservation, KillPromotion
  <2> QED
    BY <1>2, <2>1, <2>2, ReportsStay
<1> QED
  BY <1>1, <1>3, <1>4, <1>5

\* A step of a run leaves the promoters what they had.
LEMMA DiscoveryLeavesRows ==
  ASSUME DiscoveryInv, DiscoveryNext
  PROVE  RowsStand
<1>1. PICK d \in DiscoveryRuns :
        \/ Begin(d) \/ Search(d) \/ Enrich(d) \/ Cluster(d) \/ SaveSnapshot(d) \/ CompleteRun(d) \/ KillRun(d)
        \/ \E i \in Items : UpsertObservation(d, i)
  BY DEF DiscoveryNext
<1>2. CASE \E i \in Items : UpsertObservation(d, i)
  BY <1>2, UpsertObservationKeepsRows
<1>3. CASE ~ \E i \in Items : UpsertObservation(d, i)
  BY <1>1, <1>3 DEF Begin, Search, Enrich, Cluster, SaveSnapshot, CompleteRun, KillRun, RowsStand
<1> QED
  BY <1>2, <1>3

-----------------------------------------------------------------------------
(* The invariant, and what follows.                                        *)

LEMMA InitDiscovery == Init => DiscoveryInv /\ PromotionInv /\ ReportsStand
<1> SUFFICES ASSUME Init PROVE DiscoveryInv /\ PromotionInv /\ ReportsStand
  OBVIOUS
<1>1. /\ DOMAIN observation = {} /\ snapshot = {} /\ claims = {}
      /\ run = [d \in DiscoveryRuns |-> NoDiscovery] /\ promoter = [p \in Promoters |-> NoPromotion]
      /\ DOMAIN story = 1..MaxStories
  BY DEF Init, DiscoveryInit
<1>2. ASSUME NEW d \in DiscoveryRuns
      PROVE  /\ DOMAIN run[d] = {"pc", "queries", "failed", "items", "read", "todo", "stories", "clusters", "status"}
             /\ run[d].items = {} /\ DOMAIN run[d].stories = {} /\ run[d].pc = "idle"
  BY <1>1 DEF NoDiscovery
<1>3. \A d \in DiscoveryRuns : RunInv(d)
  BY <1>1, <1>2 DEF RunInv, Stored, MentionsOf, Saved
<1>4. DiscoveryInv
  BY <1>1, <1>2, <1>3 DEF DiscoveryInv, DiscoveryTypes, RowTypes, SnapshotsStand, IsList, NoDoubles
<1>5. ASSUME NEW p \in Promoters
      PROVE  /\ DOMAIN promoter[p] = {"pc", "clusters", "seen", "listed", "target", "rest", "affected"}
             /\ promoter[p].rest = {} /\ promoter[p].clusters = {} /\ promoter[p].pc = "idle"
  BY <1>1 DEF NoPromotion
<1>6. \A p \in Promoters : PromoterInv(p)
  BY <1>5 DEF PromoterInv, Target, Busy, Listing, Pending, ItemsOf, Whole
<1>7. PromotionTypes
  BY <1>1, <1>5 DEF PromotionTypes, IsList
<1>8. JobRows /\ ClaimsStand /\ ReportsStand
  BY <1>1 DEF JobRows, ClaimsStand, ReportsStand, Init
<1> QED
  BY <1>4, <1>6, <1>7, <1>8 DEF PromotionInv

LEMMA NextDiscovery ==
  ASSUME DiscoveryInv, PromotionInv, ReportsStand, [Next]_vars
  PROVE  DiscoveryInv' /\ PromotionInv' /\ ReportsStand'
<1>1. CASE DiscoveryNext /\ UNCHANGED promotionVars
  <2>1. DiscoveryInv'
    BY <1>1, DiscoveryStep
  <2>2. PromotionInv'
    BY <1>1, DiscoveryLeavesRows, PromotersWait DEF promotionVars
  <2>3. ReportsStand'
    BY <1>1, DiscoveryLeavesRows, RowsStay, ReportsStay DEF promotionVars, PromotionInv
  <2> QED
    BY <2>1, <2>2, <2>3
<1>2. CASE PromotionNext
  BY <1>2, PromotionStep, DiscoveryStays, ReportsStep DEF DiscoveryInv, DiscoveryTypes
<1>3. CASE UNCHANGED vars
  <2>1. UNCHANGED <<observation, snapshot, run, story, claims, promoter>>
    BY <1>3 DEF vars, discoveryVars, promotionVars
  <2>2. DiscoveryInv'
    BY <2>1, DiscoveryStays DEF Keeps, DiscoveryInv, DiscoveryTypes, RowTypes
  <2>3. PromotionInv'
    BY <2>1, PromotersWait DEF RowsStand
  <2>4. ReportsStand'
    BY <1>3, <2>1, ReportsStay DEF vars, promotionVars, Keeps
  <2> QED
    BY <2>2, <2>3, <2>4
<1> QED
  BY <1>1, <1>2, <1>3 DEF Next

LEMMA DiscoveryIsInvariant == Spec => [](DiscoveryInv /\ PromotionInv /\ ReportsStand)
<1>1. DiscoveryInv /\ PromotionInv /\ ReportsStand /\ [Next]_vars => (DiscoveryInv /\ PromotionInv /\ ReportsStand)'
  BY NextDiscovery
<1> QED
  BY InitDiscovery, <1>1, PTL DEF Spec

LEMMA MentionsFollow == DiscoveryInv => MentionsAreItems
<1> SUFFICES ASSUME DiscoveryInv, NEW d \in DiscoveryRuns, run[d].pc = "snapshot", run[d].clusters = {},
                    NEW e \in run[d].items
             PROVE  Cardinality({m \in snapshot \X run[d].items :
                                   m[1].run = d /\ m[2] \in m[1].items /\ m[2].item = e.item})
                      = IF Relevant(TextOf(d, e.item)) THEN 1 ELSE 0
  BY DEF MentionsAreItems, ItemsOf
<1> DEFINE mentions == {m \in snapshot \X run[d].items : m[1].run = d /\ m[2] \in m[1].items /\ m[2].item = e.item}
<1>1. /\ IsPartition(Parts(d), Relevants(d))
      /\ \A s, t \in Saved(d) : s.items = t.items => s = t
      /\ Parts(d) = {s.items : s \in Saved(d)}
  BY DEF DiscoveryInv, RunInv, MentionsOf, Parts
<1>2. ASSUME NEW m \in mentions
      PROVE  /\ m = <<m[1], e>> /\ m[1] \in Saved(d) /\ e \in m[1].items
             /\ m[1].items \in Parts(d) /\ Relevant(TextOf(d, e.item))
  <2>1. PICK s \in snapshot, f \in run[d].items : m = <<s, f>> /\ s.run = d /\ f \in s.items /\ f.item = e.item
    OBVIOUS
  <2>2. f = e
    BY <2>1 DEF DiscoveryInv, DiscoveryTypes, NoDoubles
  <2>3. s \in Saved(d) /\ s.items \in Parts(d)
    BY <1>1, <2>1 DEF Saved
  <2>4. e \in Relevants(d)
    BY <1>1, <2>1, <2>2, <2>3 DEF IsPartition
  <2> QED
    BY <2>1, <2>2, <2>3, <2>4 DEF Relevants
<1>3. CASE ~Relevant(TextOf(d, e.item))
  <2>1. mentions = {}
    BY <1>2, <1>3
  <2> HIDE DEF mentions
  <2>2. Cardinality(mentions) = 0
    BY <2>1, FS_EmptySet
  <2> QED
    BY <1>3, <2>2 DEF mentions
<1>4. CASE Relevant(TextOf(d, e.item))
  <2>1. e \in Relevants(d)
    BY <1>4 DEF Relevants
  <2>2. PICK s \in Saved(d) : e \in s.items
    BY <1>1, <2>1 DEF IsPartition
  <2>3. <<s, e>> \in mentions
    BY <2>2 DEF Saved
  <2>4. ASSUME NEW m \in mentions PROVE m = <<s, e>>
    <3>1. m[1] \in Saved(d) /\ e \in m[1].items /\ m[1].items \in Parts(d) /\ m = <<m[1], e>>
      BY <1>2
    <3>2. s.items \in Parts(d)
      BY <1>1, <2>2
    <3>3. m[1].items = s.items
      BY <1>1, <2>2, <3>1, <3>2 DEF IsPartition
    <3>4. m[1] = s
      BY <1>1, <2>2, <3>1, <3>3
    <3> QED
      BY <3>1, <3>4
  <2> HIDE DEF mentions
  <2>5. mentions = {<<s, e>>}
    BY <2>3, <2>4
  <2>6. Cardinality(mentions) = 1
    BY <2>5, FS_Singleton
  <2> QED
    BY <1>4, <2>6 DEF mentions
<1> QED
  BY <1>3, <1>4

\* When a run has saved its snapshots each relevant item it found is in exactly one of them
\* and there once, whatever the providers gave twice: the clusters a run has and those it
\* has saved part its relevant entries, and no two have one key.
THEOREM MentionsAreCountedOnce == Spec => []MentionsAreItems
<1>1. DiscoveryInv /\ PromotionInv => MentionsAreItems
  BY MentionsFollow
<1> QED
  BY DiscoveryIsInvariant, <1>1, PTL

\* A discovery claim is of the story its observation has, and a snapshot's story is that of
\* one of its members, whatever jobs and runs overlap: an assignment, once read, stands.  A
\* publisher's report is claimed for another story only by a job that was refused the
\* observation afterwards or stopped just before it, or whose assignment is to come.
THEOREM AssignmentsStand == Spec => []ClaimsFollowAssignment
<1>1. DiscoveryInv /\ PromotionInv /\ ReportsStand => ClaimsFollowAssignment
  <2> SUFFICES ASSUME DiscoveryInv, PromotionInv, ReportsStand PROVE ClaimsFollowAssignment
    OBVIOUS
  <2>1. \A c \in claims : observation[c.item].story = c.story
    BY DEF PromotionInv, ClaimsStand, Still
  <2>2. \A s \in snapshot : s.story # NoStory => \E i \in ItemsOf(s.items) : observation[i].story = s.story
    BY DEF DiscoveryInv, SnapshotsStand, Still
  <2> QED
    BY <2>1, <2>2 DEF ClaimsFollowAssignment, ReportsStand
<1> QED
  BY DiscoveryIsInvariant, <1>1, PTL

\* A job with an id that lists all there is leaves, when it is done, no observation with
\* its id unclaimed or its story unannounced, whatever an earlier attempt of it was killed
\* over and whoever repairs single rows under its id meanwhile.
THEOREM RetriesCompleteTheirJob == Spec => []PromotionIsWhole
<1>1. DiscoveryInv /\ PromotionInv => PromotionIsWhole
  BY DEF PromotionInv, PromoterInv, Whole, Handled, PromotionIsWhole
<1> QED
  BY DiscoveryIsInvariant, <1>1, PTL
==============================================================================
