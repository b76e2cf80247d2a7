-------------------------- MODULE InstagramCollection --------------------------
(***************************************************************************)
(* Collecting Instagram: a run fetches every supported account, stores its *)
(* posts and metric snapshots in one transaction per account, and then     *)
(* caches the posts' pictures.  Runs may overlap, every call may fail      *)
(* before or after its effect, and a run may be killed between any two.    *)
(***************************************************************************)
EXTENDS Integers, FiniteSets, FiniteSetsExt, InstagramPayload

CONSTANTS Accounts, Posts, Assets, Captions, Collections,
          OwnerOf,        \* the account of a post
          AssetsOf,       \* its pictures with a usable address, slides or thumbnail
          FormatsOf,      \* the formats it may have been published in
          Concurrency,    \* accounts a run works on at once (1..3)
          AssetsPerRun,   \* MEDIA_ASSETS_PER_RUN
          SnapshotInterval(_), \* by the age of a post; 0: no more snapshots
          \* bounds; MaxChanges: edits of captions and changes of the token
          Horizon, MaxCollections, MaxFaults, MaxChanges

ASSUME CollectionAssumption ==
    /\ OwnerOf \in [Posts -> Accounts] /\ AssetsOf \in [Posts -> SUBSET Assets]
    /\ \A p, q \in Posts : p # q => AssetsOf[p] \cap AssetsOf[q] = {}
    /\ FormatsOf \in [Posts -> SUBSET Formats]
    /\ Concurrency \in 1..3 /\ AssetsPerRun \in Nat \ {0}
    /\ \A n \in 0..Horizon : SnapshotInterval(n) \in Nat
    /\ {Horizon, MaxCollections, MaxFaults, MaxChanges} \subseteq Nat

VARIABLES
    now,        \* in snapshot buckets of 30 minutes
    token,      \* whether Meta accepts the access token
    remote,     \* what Instagram shows of a post
    account,    \* source_accounts: api_supported
    post,       \* raw_posts: the caption
    snapshot,   \* post_metric_snapshots
    asset,      \* media_assets
    object,     \* the objects of the storage bucket
    collect,    \* the live runs
    collections, changes, faults

environment == <<now, token, remote, changes>>
collectTables == <<account, post, snapshot, asset, object>>
collectVars == <<environment, collectTables, collect, collections, faults>>

Unpublished == [at |-> -1, caption |-> "none", format |-> "none"]
NoRun == [pc |-> "idle", at |-> -1, stage |-> [a \in Accounts |-> "off"],
          batch |-> [a \in Accounts |-> <<>>], category |-> [a \in Accounts |-> "none"],
          pending |-> {}, stored |-> {}]

Stored(p) == post[p] # "none"
PostsOf(a) == {p \in Posts : OwnerOf[p] = a}
PostOf(m) == CHOOSE p \in Posts : m \in AssetsOf[p]

CollectInit ==
    /\ now = 0 /\ token = "valid"
    /\ remote = [p \in Posts |-> Unpublished]
    /\ account = [a \in Accounts |-> "unknown"]
    /\ post = [p \in Posts |-> "none"]
    /\ snapshot = {} /\ object = {}
    /\ asset = [m \in Assets |-> "absent"]
    /\ collect = [c \in Collections |-> NoRun]
    /\ collections = 0 /\ changes = 0 /\ faults = 0

-----------------------------------------------------------------------------
(* The world. *)

Tick ==
    /\ now < Horizon /\ now' = now + 1
    /\ UNCHANGED <<token, remote, changes, collectTables, collect, collections, faults>>

\* An account publishes, and may edit a caption, also back to what it was.
Publish(p) ==
    /\ remote[p] = Unpublished
    /\ \E k \in Captions, f \in FormatsOf[p] :
         remote' = [remote EXCEPT ![p] = [at |-> now, caption |-> k, format |-> f]]
    /\ UNCHANGED <<now, token, changes, collectTables, collect, collections, faults>>

Edit(p) ==
    /\ remote[p] # Unpublished /\ changes < MaxChanges /\ changes' = changes + 1
    /\ \E k \in Captions \ {remote[p].caption} : remote' = [remote EXCEPT ![p].caption = k]
    /\ UNCHANGED <<now, token, collectTables, collect, collections, faults>>

\* The token is one for all accounts; it runs out and is replaced by hand.
SwitchToken ==
    /\ changes < MaxChanges /\ changes' = changes + 1
    /\ token' = IF token = "valid" THEN "expired" ELSE "valid"
    /\ UNCHANGED <<now, remote, collectTables, collect, collections, faults>>

-----------------------------------------------------------------------------
(* One run. *)

Busy(c) == collect[c].pc # "idle"
At(c, a, s) == collect[c].pc = "core" /\ collect[c].stage[a] = s
Move(c, a, s) == [collect EXCEPT ![c].stage[a] = s]

\* A call that took effect or did not, and whose failure the run sees.
Faulty == faults < MaxFaults /\ faults' = faults + 1
Sound == UNCHANGED faults

\* listActive leaves out what was found unsupported.
Supported(a) == account[a] # "no"

\* A run takes all accounts, or those of its request, if all of these are listed.
SelectAccounts(requested) ==
    CASE requested = {} -> {a \in Accounts : Supported(a)}
      [] \A a \in requested : Supported(a) -> requested
      [] OTHER -> {}

\* A request names no account, or some of them, each once.
RequestedAccountIds == SUBSET Accounts

BeginCollection(c) ==
    /\ ~Busy(c) /\ collections < MaxCollections
    /\ collections' = collections + 1
    /\ \E requested \in RequestedAccountIds :
         LET chosen == SelectAccounts(requested)
         IN  /\ chosen # {}
             /\ collect' = [collect EXCEPT ![c] = [NoRun EXCEPT
                   !.pc = "core", !.at = now,
                   !.stage = [a \in Accounts |-> IF a \in chosen THEN "todo" ELSE "off"]]]
    /\ UNCHANGED <<environment, collectTables, faults>>

\* What Instagram shows of an account when it is asked.
Shown(a) == {p \in PostsOf(a) : remote[p] # Unpublished}

\* One post that cannot be read refuses the whole batch.
Normalizable(c, a) == \A p \in Shown(a) : NormalizesPost(remote[p], collect[c].at)

Batch(a) == [p \in Shown(a) |-> remote[p].caption]

Started(c) == {a \in Accounts : collect[c].stage[a] \in {"fetched", "failing"}}

\* The workers take the accounts in turn, as many at once as there are workers.
HasWorker(c, a) == At(c, a, "todo") /\ Cardinality(Started(c)) < Concurrency

\* Fetch and read an account.  Meta's own troubles are faults, its answer to an
\* expired token is not: every account gets it.
FetchAccount(c, a) ==
    /\ HasWorker(c, a)
    /\ \E o \in IF token = "valid" THEN FetchOutcomes ELSE ExpiredOutcomes :
         /\ IF o = "ok" \/ (token = "expired" /\ o = "permission") THEN Sound ELSE Faulty
         /\ collect' = IF o = "ok" /\ Normalizable(c, a)
                       THEN [Move(c, a, "fetched") EXCEPT ![c].batch[a] = Batch(a)]
                       ELSE [Move(c, a, "failing") EXCEPT
                               ![c].category[a] = IF o = "ok" THEN "invalid_payload" ELSE o]
    /\ UNCHANGED <<environment, collectTables, collections>>

\* An account whose turn comes after the run's deadline is not fetched.
MissDeadline(c, a) ==
    /\ HasWorker(c, a) /\ Faulty
    /\ collect' = [Move(c, a, "failing") EXCEPT ![c].category[a] = "run_budget_exhausted"]
    /\ UNCHANGED <<environment, collectTables, collections>>

LatestSnapshot(p) == Max({s.at : s \in {s \in snapshot : s.post = p}})

\* Mutant: the last snapshot is not looked at, only the bucket's key.
SnapshotDueAlways(p, at) == TRUE

\* The first snapshot always, the next ones at intervals that grow with the age.
SnapshotDue(p, at) ==
    LET i == SnapshotInterval(at - remote[p].at)
    IN  \/ \A s \in snapshot : s.post # p
        \/ i > 0 /\ at >= LatestSnapshot(p) + i

\* ingest_instagram_account_batch: account, posts and snapshots at once.
IngestBatch(a, batch, at) ==
    /\ account' = [account EXCEPT ![a] = "yes"]
    /\ post' = [p \in Posts |-> IF p \in DOMAIN batch THEN batch[p] ELSE post[p]]
    /\ snapshot' = snapshot \cup {[post |-> p, at |-> at] : p \in {p \in DOMAIN batch : SnapshotDue(p, at)}}

\* A failure after the account's time is over counts as the upstream's.
Ingest(c, a) ==
    /\ At(c, a, "fetched")
    /\ \/ /\ IngestBatch(a, collect[c].batch[a], collect[c].at)
          /\ collect' = Move(c, a, "ingested") /\ Sound
       \/ /\ Faulty
          /\ \/ IngestBatch(a, collect[c].batch[a], collect[c].at)
             \/ UNCHANGED <<account, post, snapshot>>
          /\ \E k \in {FailureCategory("database", timedOut) : timedOut \in BOOLEAN} :
               collect' = [Move(c, a, "failing") EXCEPT ![c].category[a] = k]
    /\ UNCHANGED <<environment, asset, object, collections>>

\* record_instagram_probe_failure
ProbeFailed(a, category) ==
    account' = IF MarkUnsupported(category) THEN [account EXCEPT ![a] = "no"] ELSE account

\* Recording a failure is best effort.
RecordFailure(c, a) ==
    /\ At(c, a, "failing")
    /\ collect' = [Move(c, a, "off") EXCEPT ![c].category[a] = "none"]
    /\ \/ ProbeFailed(a, collect[c].category[a]) /\ Sound
       \/ UNCHANGED account /\ Faulty
    /\ UNCHANGED <<environment, post, snapshot, asset, object, collections>>

CoreDone(c) == \A a \in Accounts : collect[c].stage[a] \in {"off", "ingested", "prepared"}

Descriptors(c, a) == UNION {AssetsOf[p] : p \in DOMAIN collect[c].batch[a]}

\* prepare_instagram_media_assets: a row for each picture.
PreparedRows(wanted) ==
    [m \in Assets |-> IF m \in wanted /\ asset[m] = "absent" THEN "pending" ELSE asset[m]]

\* Back come those that are not cached yet.
Pending(wanted, rows) == {m \in wanted : rows[m] = "pending"}

\* After the accounts, their pictures, account by account.
PrepareMedia(c, a) ==
    LET wanted == Descriptors(c, a)
        rows == PreparedRows(wanted)
    IN  /\ At(c, a, "ingested") /\ CoreDone(c)
        /\ \/ /\ asset' = rows /\ Sound
              /\ collect' = [Move(c, a, "prepared") EXCEPT
                                ![c].pending = @ \cup Pending(wanted, rows)]
           \/ /\ Faulty /\ asset' \in {asset, rows}
              /\ collect' = Move(c, a, "off")
        /\ UNCHANGED <<environment, account, post, snapshot, object, collections>>

\* The first AssetsPerRun of what is pending; the rest waits for another run.
SelectMedia(c) ==
    /\ collect[c].pc = "core"
    /\ \A a \in Accounts : collect[c].stage[a] \in {"off", "prepared"}
    /\ \E chosen \in SUBSET collect[c].pending :
         /\ Cardinality(chosen) = Min({AssetsPerRun, Cardinality(collect[c].pending)})
         /\ collect' = [collect EXCEPT ![c].pc = "media", ![c].pending = chosen]
    /\ UNCHANGED <<environment, collectTables, collections, faults>>

\* Mutant: a failed upload is taken for stored.
StoreMediaUnchecked(c, m) ==
    /\ collect[c].pc = "media" /\ m \in collect[c].pending
    /\ \/ object' = object \cup {m} /\ Sound
       \/ Faulty /\ UNCHANGED object
    /\ collect' = [collect EXCEPT ![c].pending = @ \ {m}, ![c].stored = @ \cup {m}]
    /\ UNCHANGED <<environment, account, post, snapshot, asset, collections>>

\* Download and upload.  An object that is already there is as good; after a failed
\* download, without an answer, or past the deadline, the picture is left for
\* another run.
StoreMedia(c, m) ==
    /\ collect[c].pc = "media" /\ m \in collect[c].pending
    /\ \/ /\ object' = object \cup {m} /\ Sound
          /\ collect' = [collect EXCEPT ![c].pending = @ \ {m}, ![c].stored = @ \cup {m}]
       \/ /\ Faulty /\ object' \in {object, object \cup {m}}
          /\ collect' = [collect EXCEPT ![c].pending = @ \ {m}]
    /\ UNCHANGED <<environment, account, post, snapshot, asset, collections>>

StoredOf(c, a) == {m \in collect[c].stored : OwnerOf[PostOf(m)] = a}

\* finalize_instagram_media_assets
FinalizedRows(mine) == [m \in Assets |-> IF m \in mine THEN "cached" ELSE asset[m]]

\* What was stored is finalized account by account.
FinalizeMedia(c, a) ==
    LET mine == StoredOf(c, a)
        rows == FinalizedRows(mine)
    IN  /\ collect[c].pc = "media" /\ collect[c].pending = {} /\ mine # {}
        /\ collect' = [collect EXCEPT ![c].stored = @ \ mine]
        /\ \/ asset' = rows /\ Sound
           \/ asset' \in {asset, rows} /\ Faulty
        /\ UNCHANGED <<environment, account, post, snapshot, object, collections>>

EndCollection(c) ==
    /\ collect[c].pc = "media" /\ collect[c].pending = {} /\ collect[c].stored = {}
    /\ collect' = [collect EXCEPT ![c] = NoRun]
    /\ UNCHANGED <<environment, collectTables, collections, faults>>

KillCollection(c) ==
    /\ Busy(c) /\ Faulty
    /\ collect' = [collect EXCEPT ![c] = NoRun]
    /\ UNCHANGED <<environment, collectTables, collections>>

CollectStep(c) ==
    \/ BeginCollection(c) \/ SelectMedia(c) \/ EndCollection(c) \/ KillCollection(c)
    \/ \E a \in Accounts : FetchAccount(c, a) \/ MissDeadline(c, a) \/ Ingest(c, a) \/ RecordFailure(c, a)
                           \/ PrepareMedia(c, a) \/ FinalizeMedia(c, a)
    \/ \E m \in Assets : StoreMedia(c, m)

CollectNext ==
    \/ Tick \/ SwitchToken
    \/ \E p \in Posts : Publish(p) \/ Edit(p)
    \/ \E c \in Collections : CollectStep(c)

-----------------------------------------------------------------------------
(* What collecting must keep. *)

\* The tables and the runs are of their types.
CollectTypeOK ==
    /\ now \in 0..Horizon /\ token \in {"valid", "expired"}
    /\ account \in [Accounts -> {"unknown", "yes", "no"}]
    /\ post \in [Posts -> Captions \cup {"none"}]
    /\ snapshot \subseteq [post : Posts, at : 0..Horizon]
    /\ asset \in [Assets -> {"absent", "pending", "cached"}] /\ object \subseteq Assets
    /\ \A c \in Collections :
         /\ collect[c].pc \in {"idle", "core", "media"}
         /\ collect[c].category \in [Accounts -> Categories \cup {"none"}]

\* A picture said to be cached has its object, whatever was lost or killed between
\* the upload and the row, and whoever else was storing it.
CachedMediaExists == \A m \in Assets : asset[m] = "cached" => m \in object

\* The snapshots of a post are as far apart as its age asks, though runs that
\* began earlier deliver later.
SnapshotsSpaced ==
    \A s, t \in snapshot : s.post = t.post /\ s.at < t.at =>
        t.at >= s.at + SnapshotInterval(t.at - remote[t.post].at)

\* Not so: a failing credential marks no account unsupported.  Meta's answer to an
\* expired token counts as the account's, which is then never listed again.
CredentialSparesAccounts ==
    [][\A a \in Accounts : account'[a] = "no" /\ Supported(a) =>
         \E c \in Collections : collect[c].category[a] = "unsupported_account"]_collectVars
==============================================================================
