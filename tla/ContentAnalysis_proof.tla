------------------------ MODULE ContentAnalysis_proof ------------------------
(***************************************************************************)
(* Proofs about the Instagram collection and the content analysis beside   *)
(* it, for any number of overlapping runs of both, accounts, posts,        *)
(* pictures, captions, workers and faults.                                 *)
(***************************************************************************)
EXTENDS ContentAnalysis, WellFoundedInduction, TLAPS

-----------------------------------------------------------------------------
(* What the state is made of.                                              *)

CaptionsOrNone == Captions \cup {"none"}
FormatsOrNone == Formats \cup {"none"}
Stages == {"off", "todo", "fetched", "failing", "ingested", "prepared"}

RemotePost == [at : -1..Horizon, caption : CaptionsOrNone, format : FormatsOrNone]
SomeBatch == UNION {[P -> CaptionsOrNone] : P \in SUBSET Posts}

Collection ==
  [pc : {"idle", "core", "media"}, at : -1..Horizon, stage : [Accounts -> Stages],
   batch : [Accounts -> SomeBatch], category : [Accounts -> Categories \cup {"none"}],
   pending : SUBSET Assets, stored : SUBSET Assets]

Marks == UNION {[M -> {"bare", "typed", "read"}] : M \in SUBSET Assets}
Input == [caption : CaptionsOrNone, format : FormatsOrNone, marks : Marks]
Row == [post : Posts, input : Input, status : {"SUCCEEDED", "PARTIAL", "FAILED", "UNAVAILABLE"}]

Analysis ==
  [pc : {"idle", "run"}, listed : UNION {[P -> Input] : P \in SUBSET Posts},
   known : UNION {[P -> SUBSET Input] : P \in SUBSET Posts}, todo : SUBSET Posts,
   open : UNION {[P -> Row] : P \in SUBSET Posts}, workers : Int, broken : BOOLEAN]

-----------------------------------------------------------------------------
(* The invariants.                                                         *)

CollectTypes ==
  /\ now \in 0..Horizon /\ token \in {"valid", "expired"}
  /\ remote \in [Posts -> RemotePost]
  /\ account \in [Accounts -> {"unknown", "yes", "no"}]
  /\ post \in [Posts -> CaptionsOrNone]
  /\ snapshot \subseteq [post : Posts, at : 0..Horizon]
  /\ asset \in [Assets -> {"absent", "pending", "cached"}] /\ object \subseteq Assets
  /\ collect \in [Collections -> Collection]

\* What a run counts as stored is in the bucket, and so is what a row calls cached.
MediaInv ==
  CachedMediaExists /\ \A c \in Collections : collect[c].stored \subseteq object

\* A post is published in the past and for good; a batch and a snapshot are of posts
\* that were published when the run that took them began.
TimesInv ==
  /\ \A p \in Posts : remote[p] # Unpublished => remote[p].at \in 0..now
  /\ \A c \in Collections : collect[c].at <= now
  /\ \A c \in Collections : \A a \in Accounts : \A p \in DOMAIN collect[c].batch[a] :
       remote[p].at \in 0..collect[c].at
  /\ \A s \in snapshot : remote[s.post].at \in 0..s.at

CollectInv == CollectTypes /\ MediaInv /\ TimesInv /\ SnapshotsSpaced

SameKey(u, v) == u.post = v.post /\ u.input = v.input

AnalysisTypes ==
  /\ understanding \in Seq(Row)
  /\ analysis \in [Analyses -> Analysis]
  /\ lostSaves \in BOOLEAN /\ overlapped \in BOOLEAN
  /\ \A i, j \in DOMAIN understanding : SameKey(understanding[i], understanding[j]) => i = j

\* The inputs a post has been analysed with.
Analysed == [p \in Posts |-> Existing(p)]

\* What became of a post a run has listed, when E is what has been analysed: it waits,
\* its row waits to be saved, or a row has its caption.
Accounted(t, E, p) ==
  \/ p \in t.todo
  \/ p \in DOMAIN t.open /\ t.open[p].input.caption = t.listed[p].caption
  \/ \E input \in E[p] : input.caption = t.listed[p].caption

\* A run keeps what it saves under the post it is of, of a post knows inputs that were
\* analysed, and loses no post unless it breaks.
OneRun(t, E) ==
  /\ t.todo \subseteq DOMAIN t.listed /\ DOMAIN t.known = DOMAIN t.listed
  /\ DOMAIN t.open \subseteq DOMAIN t.listed
  /\ \A p \in DOMAIN t.open : t.open[p].post = p /\ p \notin t.todo
  /\ \A p \in DOMAIN t.known : t.known[p] \subseteq E[p]
  /\ ~t.broken => t.workers = Workers /\ \A p \in DOMAIN t.listed : Accounted(t, E, p)

ListingInv == \A b \in Analyses : Running(b) => OneRun(analysis[b], Analysed)

\* A run that is alone, and that no answer was lost to, knows all inputs of what it has
\* still to do, and what it is about to save has no row yet.
Informed(t, E) ==
  /\ \A p \in t.todo : E[p] \subseteq t.known[p]
  /\ \A p \in DOMAIN t.open : t.open[p].input \notin E[p]

AloneInv ==
  ~overlapped /\ ~lostSaves =>
    /\ \A b, d \in Analyses : Running(b) /\ Running(d) => b = d
    /\ \A b \in Analyses : Running(b) => Informed(analysis[b], Analysed)

AnalysisInv == AnalysisTypes /\ ListingInv /\ AloneInv

-----------------------------------------------------------------------------
(* Facts about the operators.                                              *)

LEMMA EmptyFunction ==
  ASSUME NEW S
  PROVE  <<>> \in [{} -> S] /\ DOMAIN <<>> = {}
OBVIOUS

LEMMA LeastOfNaturals ==
  ASSUME NEW T \in SUBSET Nat, T # {}
  PROVE  \E x \in T : \A y \in T : x <= y
<1> DEFINE less == OpToRel(<, Nat)
<1>1. \A x, y \in T : y < x => <<y, x>> \in less
  BY DEF OpToRel
<1>2. IsWellFoundedOn(less, Nat)
  BY NatLessThanWellFounded
<1> HIDE DEF less
<1>3. \E x \in T : \A y \in T : ~ (<<y, x>> \in less)
  BY <1>2, WFMin, Zenon
<1>4. PICK x \in T : \A y \in T : ~ (y < x)
  BY <1>1, <1>3
<1> QED
  BY <1>4

LEMMA GreatestOfTimes ==
  ASSUME NEW T \in SUBSET (0..Horizon), T # {}
  PROVE  Max(T) \in T /\ \A x \in T : x <= Max(T)
<1> DEFINE left == {Horizon - x : x \in T}
<1>1. Horizon \in Nat
  BY CollectionAssumption
<1>2. left \in SUBSET Nat /\ left # {}
  <2>1. \A x \in T : Horizon - x \in Nat
    BY <1>1
  <2>2. \E x \in T : TRUE
    OBVIOUS
  <2> QED
    BY <2>1, <2>2
<1>3. PICK y \in left : \A z \in left : y <= z
  BY <1>2, LeastOfNaturals
<1>4. PICK x \in T : y = Horizon - x
  BY <1>3
<1>5. \A z \in T : x >= z
  BY <1>1, <1>3, <1>4
<1> QED
  BY <1>5 DEF Max

\* No snapshot of a post is later than the last of them.
LEMMA LatestIsLast ==
  ASSUME snapshot \subseteq [post : Posts, at : 0..Horizon], NEW s \in snapshot
  PROVE  LatestSnapshot(s.post) \in 0..Horizon /\ s.at <= LatestSnapshot(s.post)
<1> DEFINE T == {t.at : t \in {u \in snapshot : u.post = s.post}}
<1>1. T \in SUBSET (0..Horizon) /\ s.at \in T
  OBVIOUS
<1>2. LatestSnapshot(s.post) = Max(T)
  BY DEF LatestSnapshot
<1> HIDE DEF T
<1> QED
  BY <1>1, <1>2, GreatestOfTimes

\* A snapshot that is due is later than those of its post by what its age asks.
LEMMA DueIsSpaced ==
  ASSUME CollectTypes, NEW p \in Posts, NEW at \in 0..Horizon, remote[p].at \in 0..at,
         SnapshotDue(p, at), NEW s \in snapshot, s.post = p
  PROVE  s.at < at /\ at >= s.at + SnapshotInterval(at - remote[p].at)
<1> DEFINE i == SnapshotInterval(at - remote[p].at)
<1>1. at - remote[p].at \in 0..Horizon
  BY CollectionAssumption
<1>2. i \in Nat
  BY <1>1, CollectionAssumption
<1>3. i > 0 /\ at >= LatestSnapshot(p) + i
  BY DEF SnapshotDue
<1>4. LatestSnapshot(p) \in 0..Horizon /\ s.at <= LatestSnapshot(p) /\ s.at \in 0..Horizon
  BY LatestIsLast DEF CollectTypes
<1> HIDE DEF i
<1>5. s.at < at /\ at >= s.at + i
  BY <1>2, <1>3, <1>4
<1> QED
  BY <1>5 DEF i

LEMMA OutcomesAreCategories ==
  FetchOutcomes \subseteq Categories \cup {"ok"} /\ ExpiredOutcomes \subseteq Categories \cup {"ok"}
<1>1. ASSUME NEW answer
      PROVE  ErrorCategory(answer) \in Categories
  BY DEF ErrorCategory, Categories
<1>2. ASSUME NEW answer
      PROVE  DecodeSuccess(answer) \in Categories \cup {"ok"}
  BY DEF DecodeSuccess, Categories
<1>3. ASSUME NEW t
      PROVE  FetchAccountOutcome(t) \in Categories \cup {"ok"}
  BY <1>1, <1>2 DEF FetchAccountOutcome
<1> QED
  BY <1>3 DEF FetchOutcomes, ExpiredOutcomes

-----------------------------------------------------------------------------
(* Collecting.                                                             *)

LEMMA NoRunIsTyped ==
  /\ NoRun \in Collection /\ NoRun.at = -1 /\ NoRun.stored = {}
  /\ \A a \in Accounts : DOMAIN NoRun.batch[a] = {}
<1>1. <<>> \in SomeBatch /\ DOMAIN <<>> = {}
  <2>1. <<>> \in [{} -> CaptionsOrNone] /\ {} \in SUBSET Posts
    BY EmptyFunction
  <2> QED
    BY <2>1, EmptyFunction DEF SomeBatch
<1>2. Horizon \in Nat
  BY CollectionAssumption
<1>3. [a \in Accounts |-> <<>>] \in [Accounts -> SomeBatch]
  BY <1>1
<1> QED
  BY <1>1, <1>2, <1>3 DEF NoRun, Collection, Stages

LEMMA CollectInitially ==
  ASSUME CollectInit
  PROVE  CollectInv
<1>1. Horizon \in Nat
  BY CollectionAssumption
<1>2. Unpublished \in RemotePost
  BY <1>1 DEF Unpublished, RemotePost, CaptionsOrNone, FormatsOrNone
<1>3. CollectTypes
  BY <1>1, <1>2, NoRunIsTyped DEF CollectInit, CollectTypes, CaptionsOrNone
<1>4. MediaInv
  BY NoRunIsTyped DEF CollectInit, MediaInv, CachedMediaExists
<1>5. TimesInv
  BY NoRunIsTyped DEF CollectInit, TimesInv
<1>6. SnapshotsSpaced
  BY DEF CollectInit, SnapshotsSpaced
<1> QED
  BY <1>3, <1>4, <1>5, <1>6 DEF CollectInv

\* A run whose batches are of published posts, and whose pictures are stored.
Sane(c, rec) ==
  /\ rec \in Collection /\ rec.at <= now
  /\ \A a \in Accounts : \A p \in DOMAIN rec.batch[a] : remote[p].at \in 0..rec.at

LEMMA RunsAreSane ==
  ASSUME CollectInv, NEW c \in Collections
  PROVE  Sane(c, collect[c]) /\ collect[c].stored \subseteq object
BY DEF CollectInv, CollectTypes, MediaInv, TimesInv, Sane

\* What a step of a run may do to the invariant: the world stands still, the bucket
\* only grows, and what is added to the tables must be in order.
LEMMA RunSteps ==
  ASSUME CollectInv, NEW c \in Collections, NEW rec, Sane(c, rec),
         collect' = [collect EXCEPT ![c] = rec], UNCHANGED <<now, token, remote>>,
         rec.stored \subseteq object', object \subseteq object', object' \subseteq Assets,
         asset' \in [Assets -> {"absent", "pending", "cached"}],
         \A m \in Assets : asset'[m] = "cached" => m \in object',
         account' \in [Accounts -> {"unknown", "yes", "no"}], post' \in [Posts -> CaptionsOrNone],
         snapshot' \subseteq [post : Posts, at : 0..Horizon],
         \A s \in snapshot' : remote[s.post].at \in 0..s.at,
         SnapshotsSpaced'
  PROVE  CollectInv'
<1>1. CollectTypes'
  BY DEF CollectInv, CollectTypes, Sane
<1>2. MediaInv'
  BY DEF CollectInv, CollectTypes, MediaInv, CachedMediaExists
<1>3. TimesInv'
  <2>1. \A d \in Collections : collect'[d] = IF d = c THEN rec ELSE collect[d]
    BY DEF CollectInv, CollectTypes
  <2> QED
    BY <2>1 DEF CollectInv, TimesInv, Sane
<1> QED
  BY <1>1, <1>2, <1>3 DEF CollectInv

\* A step that leaves the snapshots alone.
LEMMA SnapshotsKept ==
  ASSUME CollectInv, UNCHANGED <<remote, snapshot>>
  PROVE  /\ snapshot' \subseteq [post : Posts, at : 0..Horizon]
         /\ \A s \in snapshot' : remote[s.post].at \in 0..s.at
         /\ SnapshotsSpaced'
<1>1. SnapshotsSpaced'
  BY DEF CollectInv, SnapshotsSpaced
<1> QED
  BY <1>1 DEF CollectInv, CollectTypes, TimesInv

\* A step that leaves all tables alone.
LEMMA TablesKept ==
  ASSUME CollectInv, NEW c \in Collections, NEW rec, Sane(c, rec), rec.stored \subseteq object,
         collect' = [collect EXCEPT ![c] = rec], UNCHANGED <<environment, collectTables>>
  PROVE  CollectInv'
<1>1. UNCHANGED <<now, token, remote, snapshot, account, post, asset, object>>
  BY DEF environment, collectTables
<1> QED
  BY <1>1, SnapshotsKept, RunSteps DEF CollectInv, CollectTypes, MediaInv, CachedMediaExists

\* Moving an account on keeps the run sane.
LEMMA MovesAreSane ==
  ASSUME CollectInv, NEW c \in Collections, NEW a \in Accounts, NEW s \in Stages
  PROVE  LET rec == [collect[c] EXCEPT !.stage[a] = s]
         IN  /\ Sane(c, rec) /\ rec.stored = collect[c].stored
             /\ Move(c, a, s) = [collect EXCEPT ![c] = rec]
<1>1. Sane(c, collect[c])
  BY RunsAreSane
<1> QED
  BY <1>1 DEF Sane, Collection, Move

LEMMA ShownArePublished ==
  ASSUME CollectInv, NEW c \in Collections, NEW a \in Accounts, Normalizable(c, a)
  PROVE  /\ Batch(a) \in SomeBatch
         /\ \A p \in DOMAIN Batch(a) : remote[p].at \in 0..collect[c].at
<1>1. Shown(a) \in SUBSET Posts
  BY DEF Shown, PostsOf
<1>2. \A p \in Posts : remote[p].caption \in CaptionsOrNone
  BY DEF CollectInv, CollectTypes, RemotePost
<1>3. Batch(a) \in [Shown(a) -> CaptionsOrNone]
  BY <1>1, <1>2 DEF Batch
<1>4. collect[c].at \in Int
  BY DEF CollectInv, CollectTypes, Collection
<1>5. \A p \in Shown(a) : remote[p].at \in 0..now /\ remote[p].at <= collect[c].at
  BY DEF Shown, PostsOf, Normalizable, NormalizesPost, CollectInv, TimesInv
<1> QED
  BY <1>1, <1>3, <1>4, <1>5 DEF SomeBatch

LEMMA BeginCollectionKeeps ==
  ASSUME CollectInv, NEW c \in Collections, BeginCollection(c)
  PROVE  CollectInv'
<1>1. PICK requested \in RequestedAccountIds :
        collect' = [collect EXCEPT ![c] = [NoRun EXCEPT
          !.pc = "core", !.at = now,
          !.stage = [a \in Accounts |-> IF a \in SelectAccounts(requested) THEN "todo" ELSE "off"]]]
  BY DEF BeginCollection
<1> DEFINE stage == [a \in Accounts |-> IF a \in SelectAccounts(requested) THEN "todo" ELSE "off"]
           rec == [NoRun EXCEPT !.pc = "core", !.at = now, !.stage = stage]
<1>2. stage \in [Accounts -> Stages]
  BY DEF Stages
<1>3. collect' = [collect EXCEPT ![c] = rec]
  BY <1>1
<1>4. now \in 0..Horizon /\ now \in -1..Horizon
  BY CollectionAssumption DEF CollectInv, CollectTypes
<1> HIDE DEF stage
<1>5. Sane(c, rec) /\ rec.stored \subseteq object
  <2>1. rec \in Collection
    BY <1>2, <1>4, NoRunIsTyped DEF Collection
  <2>2. rec.at = now /\ rec.batch = NoRun.batch /\ rec.stored = NoRun.stored
    BY NoRunIsTyped DEF Collection
  <2> HIDE DEF rec
  <2> QED
    BY <1>4, <2>1, <2>2, NoRunIsTyped DEF Sane
<1> HIDE DEF rec
<1> QED
  BY <1>3, <1>5, TablesKept DEF BeginCollection

LEMMA FetchKeeps ==
  ASSUME CollectInv, NEW c \in Collections, NEW a \in Accounts,
         FetchAccount(c, a) \/ MissDeadline(c, a)
  PROVE  CollectInv'
<1> DEFINE fetched == [collect[c] EXCEPT !.stage[a] = "fetched", !.batch[a] = Batch(a)]
           failed(k) == [collect[c] EXCEPT !.stage[a] = "failing", !.category[a] = k]
<1>1. Sane(c, collect[c]) /\ collect[c].stored \subseteq object
  BY RunsAreSane
<1>2. ASSUME NEW k \in Categories
      PROVE  Sane(c, failed(k)) /\ failed(k).stored \subseteq object
  BY <1>1 DEF Sane, Collection, Stages
<1>3. ASSUME Normalizable(c, a)
      PROVE  Sane(c, fetched) /\ fetched.stored \subseteq object
  BY <1>1, <1>3, ShownArePublished DEF Sane, Collection, Stages
<1>4. UNCHANGED <<environment, collectTables>>
  BY DEF FetchAccount, MissDeadline
<1>5. \/ Normalizable(c, a) /\ collect' = [collect EXCEPT ![c] = fetched]
      \/ \E k \in Categories : collect' = [collect EXCEPT ![c] = failed(k)]
  <2>1. CASE MissDeadline(c, a)
    <3>1. collect' = [collect EXCEPT ![c] = failed("run_budget_exhausted")]
      BY <2>1 DEF MissDeadline, Move
    <3>2. "run_budget_exhausted" \in Categories
      BY DEF Categories
    <3> HIDE DEF fetched, failed
    <3> QED
      BY <3>1, <3>2
  <2>2. CASE FetchAccount(c, a)
    <3>1. PICK o \in Categories \cup {"ok"} :
            collect' = IF o = "ok" /\ Normalizable(c, a)
                       THEN [Move(c, a, "fetched") EXCEPT ![c].batch[a] = Batch(a)]
                       ELSE [Move(c, a, "failing") EXCEPT
                               ![c].category[a] = IF o = "ok" THEN "invalid_payload" ELSE o]
      BY <2>2, OutcomesAreCategories DEF FetchAccount
    <3>2. CASE o = "ok" /\ Normalizable(c, a)
      BY <3>1, <3>2 DEF Move
    <3>3. CASE ~(o = "ok" /\ Normalizable(c, a))
      <4> DEFINE k == IF o = "ok" THEN "invalid_payload" ELSE o
      <4>1. k \in Categories
        BY DEF Categories
      <4>2. collect' = [Move(c, a, "failing") EXCEPT ![c].category[a] = k]
        BY <3>1, <3>3
      <4> HIDE DEF k
      <4>3. collect' = [collect EXCEPT ![c] = failed(k)]
        BY <4>2 DEF Move
      <4> HIDE DEF fetched, failed
      <4> QED
        BY <4>1, <4>3
    <3> QED
      BY <3>2, <3>3
  <2> QED
    BY <2>1, <2>2
<1> HIDE DEF fetched, failed
<1> QED
  BY <1>2, <1>3, <1>4, <1>5, TablesKept

LEMMA RecordKeeps ==
  ASSUME CollectInv, NEW c \in Collections, NEW a \in Accounts, RecordFailure(c, a)
  PROVE  CollectInv'
<1> DEFINE rec == [collect[c] EXCEPT !.stage[a] = "off", !.category[a] = "none"]
<1>1. Sane(c, collect[c]) /\ collect[c].stored \subseteq object
  BY RunsAreSane
<1>2. Sane(c, rec) /\ rec.stored \subseteq object
  BY <1>1 DEF Sane, Collection, Stages
<1>3. collect' = [collect EXCEPT ![c] = rec]
  BY DEF RecordFailure, Move
<1>4. account' \in [Accounts -> {"unknown", "yes", "no"}]
  BY DEF RecordFailure, ProbeFailed, CollectInv, CollectTypes
<1>5. UNCHANGED <<now, token, remote, post, snapshot, asset, object>>
  BY DEF RecordFailure, environment
<1> HIDE DEF rec
<1> QED
  BY <1>2, <1>3, <1>4, <1>5, SnapshotsKept, RunSteps
  DEF CollectInv, CollectTypes, MediaInv, CachedMediaExists

\* The transaction of an account: what it adds to the snapshots is in order.
LEMMA BatchIsSpaced ==
  ASSUME CollectInv, NEW c \in Collections, NEW a \in Accounts,
         IngestBatch(a, collect[c].batch[a], collect[c].at), UNCHANGED remote
  PROVE  /\ account' \in [Accounts -> {"unknown", "yes", "no"}]
         /\ post' \in [Posts -> CaptionsOrNone]
         /\ snapshot' \subseteq [post : Posts, at : 0..Horizon]
         /\ \A s \in snapshot' : remote[s.post].at \in 0..s.at
         /\ SnapshotsSpaced'
<1> DEFINE batch == collect[c].batch[a]
           at == collect[c].at
           due == {p \in DOMAIN batch : SnapshotDue(p, at)}
           new == {[post |-> p, at |-> at] : p \in due}
<1>1. PICK P \in SUBSET Posts : batch \in [P -> CaptionsOrNone]
  <2>1. batch \in SomeBatch
    BY DEF CollectInv, CollectTypes, Collection
  <2> QED
    BY <2>1 DEF SomeBatch
<1>2. account' \in [Accounts -> {"unknown", "yes", "no"}]
  BY DEF IngestBatch, CollectInv, CollectTypes
<1>3. post' \in [Posts -> CaptionsOrNone]
  <2>1. \A p \in Posts : post[p] \in CaptionsOrNone
    BY DEF CollectInv, CollectTypes
  <2>2. post' = [p \in Posts |-> IF p \in DOMAIN batch THEN batch[p] ELSE post[p]]
    BY DEF IngestBatch
  <2>3. \A p \in DOMAIN batch : batch[p] \in CaptionsOrNone
    BY <1>1
  <2> HIDE DEF batch
  <2> QED
    BY <2>1, <2>2, <2>3
<1>4. snapshot' = snapshot \cup new
  BY DEF IngestBatch
<1>5. ASSUME NEW p \in due
      PROVE  p \in Posts /\ at \in 0..Horizon /\ remote[p].at \in 0..at
  <2>1. p \in Posts /\ remote[p].at \in 0..at
    BY <1>1 DEF CollectInv, TimesInv
  <2>2. at \in -1..Horizon /\ Horizon \in Nat
    BY CollectionAssumption DEF CollectInv, CollectTypes, Collection
  <2> QED
    BY <2>1, <2>2
<1>6. \A n \in new : n \in [post : Posts, at : 0..Horizon] /\ remote[n.post].at \in 0..n.at
  BY <1>5
<1>7. snapshot' \subseteq [post : Posts, at : 0..Horizon]
  BY <1>4, <1>6 DEF CollectInv, CollectTypes
<1>8. \A s \in snapshot' : remote[s.post].at \in 0..s.at
  BY <1>4, <1>6 DEF CollectInv, TimesInv
<1>9. SnapshotsSpaced'
  <2>1. SUFFICES ASSUME NEW s \in snapshot', NEW t \in snapshot', s.post = t.post, s.at < t.at
                 PROVE  t.at >= s.at + SnapshotInterval(t.at - remote[t.post].at)
    BY DEF SnapshotsSpaced
  <2>2. CASE s \in snapshot /\ t \in snapshot
    BY <2>1, <2>2 DEF CollectInv, SnapshotsSpaced
  <2>3. ASSUME NEW n \in new, NEW o \in snapshot, o.post = n.post
        PROVE  o.at < n.at /\ n.at >= o.at + SnapshotInterval(n.at - remote[n.post].at)
    <3>1. n.post \in due /\ n.at = at
      OBVIOUS
    <3>2. n.post \in Posts /\ at \in 0..Horizon /\ remote[n.post].at \in 0..at /\ SnapshotDue(n.post, at)
      BY <1>5, <3>1
    <3> HIDE DEF due, new, at
    <3> QED
      BY <2>3, <3>1, <3>2, DueIsSpaced DEF CollectInv
  <2>4. CASE s \in snapshot /\ t \in new
    BY <2>1, <2>3, <2>4
  <2>5. CASE s \in new /\ t \in snapshot
    <3>1. t.at < s.at
      BY <2>1, <2>3, <2>5
    <3>2. s.at \in 0..Horizon /\ t.at \in 0..Horizon
      BY <1>7
    <3> QED
      BY <2>1, <3>1, <3>2
  <2>6. CASE s \in new /\ t \in new
    <3>1. s.at = at /\ t.at = at /\ at \in 0..Horizon
      BY <1>5, <2>6
    <3> HIDE DEF at
    <3> QED
      BY <2>1, <3>1
  <2> HIDE DEF new
  <2> QED
    BY <1>4, <2>2, <2>4, <2>5, <2>6
<1> QED
  BY <1>2, <1>3, <1>7, <1>8, <1>9

LEMMA IngestKeeps ==
  ASSUME CollectInv, NEW c \in Collections, NEW a \in Accounts, Ingest(c, a)
  PROVE  CollectInv'
<1> DEFINE ingested == [collect[c] EXCEPT !.stage[a] = "ingested"]
           failed(k) == [collect[c] EXCEPT !.stage[a] = "failing", !.category[a] = k]
<1>1. Sane(c, collect[c]) /\ collect[c].stored \subseteq object
  BY RunsAreSane
<1>2. Sane(c, ingested) /\ ingested.stored \subseteq object
  BY <1>1 DEF Sane, Collection, Stages
<1>3. ASSUME NEW k \in Categories
      PROVE  Sane(c, failed(k)) /\ failed(k).stored \subseteq object
  BY <1>1 DEF Sane, Collection, Stages
<1>4. \E rec : /\ collect' = [collect EXCEPT ![c] = rec]
               /\ Sane(c, rec) /\ rec.stored \subseteq object
  <2>1. CASE collect' = Move(c, a, "ingested")
    <3>1. collect' = [collect EXCEPT ![c] = ingested]
      BY <2>1 DEF Move
    <3> HIDE DEF ingested
    <3> QED
      BY <1>2, <3>1
  <2>2. ASSUME NEW k \in {FailureCategory("database", timedOut) : timedOut \in BOOLEAN},
               collect' = [Move(c, a, "failing") EXCEPT ![c].category[a] = k]
        PROVE  \E rec : /\ collect' = [collect EXCEPT ![c] = rec]
                        /\ Sane(c, rec) /\ rec.stored \subseteq object
    <3>1. collect' = [collect EXCEPT ![c] = failed(k)]
      BY <2>2 DEF Move
    <3>2. k \in Categories
      BY DEF FailureCategory, Categories
    <3>3. Sane(c, failed(k)) /\ failed(k).stored \subseteq object
      BY <1>3, <3>2
    <3> HIDE DEF failed
    <3> QED
      BY <3>1, <3>3
  <2> QED
    BY <2>1, <2>2 DEF Ingest
<1>5. UNCHANGED <<now, token, remote, asset, object>>
  BY DEF Ingest, environment
<1>6. IngestBatch(a, collect[c].batch[a], collect[c].at) \/ UNCHANGED <<account, post, snapshot>>
  BY DEF Ingest
<1>7. /\ account' \in [Accounts -> {"unknown", "yes", "no"}]
      /\ post' \in [Posts -> CaptionsOrNone]
      /\ snapshot' \subseteq [post : Posts, at : 0..Horizon]
      /\ \A s \in snapshot' : remote[s.post].at \in 0..s.at
      /\ SnapshotsSpaced'
  <2>1. CASE IngestBatch(a, collect[c].batch[a], collect[c].at)
    BY <1>5, <2>1, BatchIsSpaced
  <2>2. CASE UNCHANGED <<account, post, snapshot>>
    BY <1>5, <2>2, SnapshotsKept DEF CollectInv, CollectTypes
  <2> QED
    BY <1>6, <2>1, <2>2
<1> QED
  BY <1>4, <1>5, <1>7, RunSteps DEF CollectInv, CollectTypes, MediaInv, CachedMediaExists

LEMMA PrepareKeeps ==
  ASSUME CollectInv, NEW c \in Collections, NEW a \in Accounts, PrepareMedia(c, a)
  PROVE  CollectInv'
<1> DEFINE wanted == Descriptors(c, a)
           rows == PreparedRows(wanted)
           pending == collect[c].pending \cup Pending(wanted, rows)
           prepared == [collect[c] EXCEPT !.stage[a] = "prepared", !.pending = pending]
           off == [collect[c] EXCEPT !.stage[a] = "off"]
<1>1. Sane(c, collect[c]) /\ collect[c].stored \subseteq object
  BY RunsAreSane
<1>2. wanted \in SUBSET Assets
  <2>1. \A p \in DOMAIN collect[c].batch[a] : p \in Posts
    <3>1. collect[c].batch[a] \in SomeBatch
      BY DEF CollectInv, CollectTypes, Collection
    <3> QED
      BY <3>1 DEF SomeBatch
  <2> QED
    BY <2>1, CollectionAssumption DEF Descriptors
<1>3. /\ rows \in [Assets -> {"absent", "pending", "cached"}]
      /\ \A m \in Assets : rows[m] = "cached" => asset[m] = "cached"
  BY DEF PreparedRows, CollectInv, CollectTypes
<1>4. pending \in SUBSET Assets
  BY <1>1, <1>2 DEF Pending, Sane, Collection
<1>5. \E rec : /\ collect' = [collect EXCEPT ![c] = rec]
               /\ Sane(c, rec) /\ rec.stored \subseteq object
  <2>1. CASE collect' = [Move(c, a, "prepared") EXCEPT ![c].pending = @ \cup Pending(wanted, rows)]
    <3>1. collect' = [collect EXCEPT ![c] = prepared]
      <4> HIDE DEF wanted, rows
      <4> QED
        BY <2>1 DEF Move, CollectInv, CollectTypes, Collection
    <3> HIDE DEF pending
    <3>2. Sane(c, prepared) /\ prepared.stored \subseteq object
      BY <1>1, <1>4 DEF Sane, Collection, Stages
    <3> HIDE DEF prepared
    <3> QED
      BY <3>1, <3>2
  <2>2. CASE collect' = Move(c, a, "off")
    <3>1. collect' = [collect EXCEPT ![c] = off]
      BY <2>2 DEF Move
    <3>2. Sane(c, off) /\ off.stored \subseteq object
      BY <1>1 DEF Sane, Collection, Stages
    <3> HIDE DEF off
    <3> QED
      BY <3>1, <3>2
  <2> QED
    BY <2>1, <2>2 DEF PrepareMedia
<1>6. asset' \in {asset, rows} /\ UNCHANGED <<now, token, remote, account, post, snapshot, object>>
  BY DEF PrepareMedia, environment
<1> HIDE DEF rows
<1>7. /\ asset' \in [Assets -> {"absent", "pending", "cached"}]
      /\ \A m \in Assets : asset'[m] = "cached" => m \in object'
  BY <1>3, <1>6 DEF CollectInv, CollectTypes, MediaInv, CachedMediaExists
<1> QED
  BY <1>5, <1>6, <1>7, SnapshotsKept, RunSteps DEF CollectInv, CollectTypes

LEMMA SelectKeeps ==
  ASSUME CollectInv, NEW c \in Collections, SelectMedia(c)
  PROVE  CollectInv'
<1>1. PICK chosen \in SUBSET collect[c].pending :
        collect' = [collect EXCEPT ![c].pc = "media", ![c].pending = chosen]
  BY DEF SelectMedia
<1> DEFINE rec == [collect[c] EXCEPT !.pc = "media", !.pending = chosen]
<1>2. Sane(c, collect[c]) /\ collect[c].stored \subseteq object
  BY RunsAreSane
<1>3. collect' = [collect EXCEPT ![c] = rec]
  BY <1>1
<1>4. Sane(c, rec) /\ rec.stored \subseteq object
  BY <1>2 DEF Sane, Collection
<1> HIDE DEF rec
<1> QED
  BY <1>3, <1>4, TablesKept DEF SelectMedia

LEMMA StoreKeeps ==
  ASSUME CollectInv, NEW c \in Collections, NEW m \in Assets, StoreMedia(c, m)
  PROVE  CollectInv'
<1> DEFINE stored == [collect[c] EXCEPT !.pending = @ \ {m}, !.stored = @ \cup {m}]
           left == [collect[c] EXCEPT !.pending = @ \ {m}]
<1>1. Sane(c, collect[c]) /\ collect[c].stored \subseteq object
  BY RunsAreSane
<1>2. Sane(c, stored) /\ stored.stored \subseteq object \cup {m}
  <2> DEFINE P == collect[c].pending \ {m}
             S == collect[c].stored \cup {m}
  <2>1. P \in SUBSET Assets /\ S \in SUBSET Assets /\ S \subseteq object \cup {m}
    BY <1>1 DEF Sane, Collection
  <2>2. stored = [collect[c] EXCEPT !.pending = P, !.stored = S]
    OBVIOUS
  <2> HIDE DEF stored, P, S
  <2> QED
    BY <1>1, <2>1, <2>2 DEF Sane, Collection
<1>3. Sane(c, left) /\ left.stored \subseteq object
  BY <1>1 DEF Sane, Collection
<1>4. \E rec : /\ collect' = [collect EXCEPT ![c] = rec]
               /\ Sane(c, rec) /\ rec.stored \subseteq object'
  <2>1. CASE /\ object' = object \cup {m}
             /\ collect' = [collect EXCEPT ![c].pending = @ \ {m}, ![c].stored = @ \cup {m}]
    <3>1. collect' = [collect EXCEPT ![c] = stored]
      BY <2>1
    <3> HIDE DEF stored
    <3> QED
      BY <1>2, <2>1, <3>1
  <2>2. CASE /\ object' \in {object, object \cup {m}}
             /\ collect' = [collect EXCEPT ![c].pending = @ \ {m}]
    <3>1. collect' = [collect EXCEPT ![c] = left]
      BY <2>2
    <3> HIDE DEF left
    <3> QED
      BY <1>3, <2>2, <3>1
  <2> QED
    BY <2>1, <2>2 DEF StoreMedia
<1>5. /\ object' \in {object, object \cup {m}}
      /\ UNCHANGED <<now, token, remote, account, post, snapshot, asset>>
  BY DEF StoreMedia, environment
<1> QED
  BY <1>4, <1>5, SnapshotsKept, RunSteps DEF CollectInv, CollectTypes, MediaInv, CachedMediaExists

LEMMA FinalizeKeeps ==
  ASSUME CollectInv, NEW c \in Collections, NEW a \in Accounts, FinalizeMedia(c, a)
  PROVE  CollectInv'
<1> DEFINE mine == StoredOf(c, a)
           rows == FinalizedRows(mine)
           rec == [collect[c] EXCEPT !.stored = @ \ mine]
<1>1. Sane(c, collect[c]) /\ collect[c].stored \subseteq object
  BY RunsAreSane
<1>2. mine \subseteq object
  BY <1>1 DEF StoredOf
<1>3. /\ rows \in [Assets -> {"absent", "pending", "cached"}]
      /\ \A m \in Assets : rows[m] = "cached" => m \in mine \/ asset[m] = "cached"
  BY DEF FinalizedRows, CollectInv, CollectTypes
<1>4. collect' = [collect EXCEPT ![c] = rec]
  <2> HIDE DEF mine
  <2> QED
    BY DEF FinalizeMedia, mine
<1>5. asset' \in {asset, rows} /\ UNCHANGED <<now, token, remote, account, post, snapshot, object>>
  BY DEF FinalizeMedia, environment
<1> HIDE DEF mine, rows
<1>6. Sane(c, rec) /\ rec.stored \subseteq object
  BY <1>1 DEF Sane, Collection
<1> HIDE DEF rec
<1>7. /\ asset' \in [Assets -> {"absent", "pending", "cached"}]
      /\ \A m \in Assets : asset'[m] = "cached" => m \in object'
  BY <1>2, <1>3, <1>5 DEF CollectInv, CollectTypes, MediaInv, CachedMediaExists
<1> QED
  BY <1>4, <1>5, <1>6, <1>7, SnapshotsKept, RunSteps DEF CollectInv, CollectTypes

LEMMA WorldKeeps ==
  ASSUME CollectInv,
         Tick \/ SwitchToken \/ \E p \in Posts : Publish(p) \/ Edit(p)
  PROVE  CollectInv'
<1>1. UNCHANGED <<account, post, snapshot, asset, object, collect>>
  BY DEF Tick, SwitchToken, Publish, Edit, collectTables
<1>2. now' \in {now, now + 1} /\ now' \in 0..Horizon
  <2>1. now \in 0..Horizon /\ Horizon \in Nat
    BY CollectionAssumption DEF CollectInv, CollectTypes
  <2>2. CASE Tick
    BY <2>1, <2>2 DEF Tick
  <2>3. CASE SwitchToken \/ \E p \in Posts : Publish(p) \/ Edit(p)
    BY <2>1, <2>3 DEF SwitchToken, Publish, Edit
  <2> QED
    BY <2>2, <2>3
<1>3. token' \in {"valid", "expired"}
  BY DEF Tick, SwitchToken, Publish, Edit, CollectInv, CollectTypes
<1>4. /\ remote' \in [Posts -> RemotePost]
      /\ \A p \in Posts : remote'[p] # Unpublished => remote'[p].at \in 0..now
      /\ \A p \in Posts : remote[p] # Unpublished => remote'[p].at = remote[p].at
  <2>1. \A p \in Posts : remote[p] \in RemotePost
    BY DEF CollectInv, CollectTypes
  <2>2. remote \in [Posts -> RemotePost] /\ now \in 0..Horizon /\ Horizon \in Nat
    BY CollectionAssumption DEF CollectInv, CollectTypes
  <2>3. \A p \in Posts : remote[p] # Unpublished => remote[p].at \in 0..now
    BY DEF CollectInv, TimesInv
  <2>4. CASE Tick \/ SwitchToken
    BY <2>2, <2>3, <2>4 DEF Tick, SwitchToken
  <2>5. ASSUME NEW p \in Posts, Publish(p)
        PROVE  <1>4
    <3>1. PICK k \in Captions, f \in FormatsOf[p] :
            remote' = [remote EXCEPT ![p] = [at |-> now, caption |-> k, format |-> f]]
      BY <2>5 DEF Publish
    <3> DEFINE new == [at |-> now, caption |-> k, format |-> f]
    <3>2. new \in RemotePost /\ new.at = now
      BY <2>2, CollectionAssumption DEF RemotePost, CaptionsOrNone, FormatsOrNone
    <3>3. remote' = [remote EXCEPT ![p] = new] /\ remote[p] = Unpublished
      BY <2>5, <3>1 DEF Publish
    <3> HIDE DEF new
    <3> QED
      BY <2>2, <2>3, <3>2, <3>3
  <2>6. ASSUME NEW p \in Posts, Edit(p)
        PROVE  <1>4
    <3>1. PICK k \in Captions : remote' = [remote EXCEPT ![p].caption = k]
      BY <2>6 DEF Edit
    <3> DEFINE new == [remote[p] EXCEPT !.caption = k]
    <3>2. new \in RemotePost /\ new.at = remote[p].at
      BY <2>1 DEF RemotePost, CaptionsOrNone
    <3>3. remote' = [remote EXCEPT ![p] = new] /\ remote[p] # Unpublished
      BY <2>6, <3>1 DEF Edit
    <3> HIDE DEF new
    <3> QED
      BY <2>2, <2>3, <3>2, <3>3
  <2> QED
    BY <2>4, <2>5, <2>6
<1>5. CollectTypes'
  BY <1>1, <1>2, <1>3, <1>4 DEF CollectInv, CollectTypes
<1>6. MediaInv'
  BY <1>1 DEF CollectInv, MediaInv, CachedMediaExists
<1>7. \A p \in Posts : remote[p].at >= 0 /\ remote[p].at \in Int => remote'[p].at = remote[p].at
  BY <1>4 DEF Unpublished
<1>8. now \in Int /\ \A c \in Collections : collect[c].at \in Int
  BY CollectionAssumption DEF CollectInv, CollectTypes, Collection
<1>9. \A c \in Collections : \A a \in Accounts : \A p \in DOMAIN collect[c].batch[a] : p \in Posts
  <2>1. ASSUME NEW c \in Collections, NEW a \in Accounts
        PROVE  collect[c].batch[a] \in SomeBatch
    BY DEF CollectInv, CollectTypes, Collection
  <2> QED
    BY <2>1 DEF SomeBatch
<1>10. TimesInv'
  <2>1. \A p \in Posts : remote'[p] # Unpublished => remote'[p].at \in 0..now'
    BY <1>2, <1>4, <1>8
  <2>2. \A c \in Collections : collect'[c].at <= now'
    BY <1>1, <1>2, <1>8 DEF CollectInv, TimesInv
  <2>3. ASSUME NEW c \in Collections, NEW a \in Accounts, NEW p \in DOMAIN collect[c].batch[a]
        PROVE  remote'[p].at \in 0..collect[c].at
    BY <1>7, <1>8, <1>9 DEF CollectInv, TimesInv
  <2>4. ASSUME NEW s \in snapshot
        PROVE  remote'[s.post].at \in 0..s.at
    BY <1>7 DEF CollectInv, CollectTypes, TimesInv
  <2> QED
    BY <1>1, <2>1, <2>2, <2>3, <2>4 DEF TimesInv
<1>11. SnapshotsSpaced'
  <2>1. \A s \in snapshot : remote'[s.post].at = remote[s.post].at
    BY <1>7 DEF CollectInv, CollectTypes, TimesInv
  <2> QED
    BY <1>1, <2>1 DEF CollectInv, SnapshotsSpaced
<1> QED
  BY <1>5, <1>6, <1>10, <1>11 DEF CollectInv

LEMMA CollectKeeps ==
  ASSUME CollectInv, [CollectNext]_collectVars
  PROVE  CollectInv'
<1>1. ASSUME NEW c \in Collections, EndCollection(c) \/ KillCollection(c)
      PROVE  CollectInv'
  <2>1. Sane(c, NoRun) /\ NoRun.stored \subseteq object
    <3>1. now \in Nat
      BY CollectionAssumption DEF CollectInv, CollectTypes
    <3> QED
      BY <3>1, NoRunIsTyped DEF Sane
  <2> QED
    BY <1>1, <2>1, TablesKept DEF EndCollection, KillCollection
<1>2. ASSUME NEW c \in Collections, CollectStep(c)
      PROVE  CollectInv'
  BY <1>1, <1>2, BeginCollectionKeeps, FetchKeeps, IngestKeeps, RecordKeeps, PrepareKeeps,
     SelectKeeps, StoreKeeps, FinalizeKeeps DEF CollectStep
<1>3. CASE UNCHANGED collectVars
  <2>1. UNCHANGED <<now, token, remote, account, post, snapshot, asset, object, collect>>
    BY <1>3 DEF collectVars, environment, collectTables
  <2> QED
    BY <2>1 DEF CollectInv, CollectTypes, MediaInv, CachedMediaExists, TimesInv, SnapshotsSpaced
<1> QED
  BY <1>2, <1>3, WorldKeeps DEF CollectNext

-----------------------------------------------------------------------------
(* Analysing.                                                              *)

LEMMA EmptyListing ==
  ASSUME NEW S
  PROVE  <<>> \in UNION {[P -> S] : P \in SUBSET Posts}
<1>1. <<>> \in [{} -> S] /\ {} \in SUBSET Posts
  BY EmptyFunction
<1> QED
  BY <1>1

LEMMA NoAnalysisIsTyped ==
  NoAnalysis \in Analysis /\ NoAnalysis.pc = "idle"
<1> DEFINE Listings == UNION {[P -> Input] : P \in SUBSET Posts}
           Knowns == UNION {[P -> SUBSET Input] : P \in SUBSET Posts}
           Opens == UNION {[P -> Row] : P \in SUBSET Posts}
<1>1. <<>> \in Listings /\ <<>> \in Knowns /\ <<>> \in Opens
  BY EmptyListing
<1>2. Analysis = [pc : {"idle", "run"}, listed : Listings, known : Knowns, todo : SUBSET Posts,
                  open : Opens, workers : Int, broken : BOOLEAN]
  BY DEF Analysis
<1> HIDE DEF Listings, Knowns, Opens
<1> QED
  BY <1>1, <1>2 DEF NoAnalysis

\* An input has been analysed of a post when some row says so.
LEMMA ExistingAreRows ==
  ASSUME NEW p
  PROVE  \A x : x \in Existing(p) <=>
           \E i \in DOMAIN understanding : understanding[i].post = p /\ understanding[i].input = x
BY DEF Existing, RowsOf, ToSet

\* A save adds the row's input to those of its post, keeps the rows' keys unique, and
\* a row of a new key goes to the end.
LEMMA SavedRows ==
  ASSUME AnalysisTypes, NEW row \in Row, understanding' = Upserted(row)
  PROVE  /\ understanding' \in Seq(Row)
         /\ \A i, j \in DOMAIN understanding' : SameKey(understanding'[i], understanding'[j]) => i = j
         /\ Analysed' = [p \in Posts |-> IF p = row.post THEN Analysed[p] \cup {row.input} ELSE Analysed[p]]
         /\ row.input \notin Analysed[row.post] => understanding' = Append(understanding, row)
<1> DEFINE hit == \E i \in DOMAIN understanding : SameKey(understanding[i], row)
<1>1. understanding \in Seq(Row) /\ row.post \in Posts
  BY DEF AnalysisTypes, Row
<1>2. \A x : x \in Existing(row.post) <=>
        \E i \in DOMAIN understanding : understanding[i].post = row.post /\ understanding[i].input = x
  BY ExistingAreRows
<1>3. hit <=> row.input \in Analysed[row.post]
  BY <1>1, <1>2 DEF Analysed, SameKey
<1>4. hit => understanding' = [i \in DOMAIN understanding |->
                                 IF SameKey(understanding[i], row) THEN row ELSE understanding[i]]
  BY DEF Upserted, SameKey
<1>5. ~hit => understanding' = Append(understanding, row)
  BY DEF Upserted, SameKey
<1>6. ASSUME NEW p \in Posts
      PROVE  \A x : (\E i \in DOMAIN understanding' : understanding'[i].post = p /\ understanding'[i].input = x)
                    <=> \/ \E i \in DOMAIN understanding : understanding[i].post = p /\ understanding[i].input = x
                        \/ row.post = p /\ row.input = x
  <2>1. CASE hit
    BY <1>1, <1>4, <2>1 DEF SameKey
  <2>2. CASE ~hit
    BY <1>1, <1>5, <2>2
  <2> QED
    BY <2>1, <2>2
<1>7. \A p \in Posts : Existing(p)' = IF p = row.post THEN Existing(p) \cup {row.input} ELSE Existing(p)
  <2>1. ASSUME NEW p \in Posts
        PROVE  \A x : x \in Existing(p)' <=> x \in Existing(p) \/ (row.post = p /\ row.input = x)
    <3>1. \A x : x \in Existing(p)' <=>
            \E i \in DOMAIN understanding' : understanding'[i].post = p /\ understanding'[i].input = x
      BY DEF Existing, RowsOf, ToSet
    <3>2. \A x : x \in Existing(p) <=>
            \E i \in DOMAIN understanding : understanding[i].post = p /\ understanding[i].input = x
      BY ExistingAreRows
    <3> QED
      BY <1>6, <3>1, <3>2
  <2> QED
    BY <2>1
<1>8. understanding' \in Seq(Row)
  BY <1>1, <1>4, <1>5
<1>9. \A i, j \in DOMAIN understanding' : SameKey(understanding'[i], understanding'[j]) => i = j
  <2>1. \A i, j \in DOMAIN understanding : SameKey(understanding[i], understanding[j]) => i = j
    BY DEF AnalysisTypes
  <2>2. CASE hit
    BY <1>1, <1>4, <2>1, <2>2 DEF SameKey
  <2>3. CASE ~hit
    BY <1>1, <1>5, <2>1, <2>3 DEF SameKey
  <2> QED
    BY <2>2, <2>3
<1>10. Analysed' = [p \in Posts |-> IF p = row.post THEN Analysed[p] \cup {row.input} ELSE Analysed[p]]
  BY <1>7 DEF Analysed
<1> QED
  BY <1>3, <1>5, <1>8, <1>9, <1>10

\* What holds of a run goes on holding when more is analysed.
LEMMA MoreIsAnalysed ==
  ASSUME NEW t, NEW E, NEW F, OneRun(t, E), DOMAIN t.listed \subseteq Posts,
         \A p \in Posts : E[p] \subseteq F[p]
  PROVE  OneRun(t, F)
BY DEF OneRun, Accounted

\* What a step of a run may do to the invariant.
LEMMA AnalysisSteps ==
  ASSUME AnalysisInv, NEW b \in Analyses, NEW t \in Analysis,
         analysis' = [analysis EXCEPT ![b] = t],
         understanding' \in Seq(Row), lostSaves' \in BOOLEAN, overlapped' \in BOOLEAN,
         \A i, j \in DOMAIN understanding' : SameKey(understanding'[i], understanding'[j]) => i = j,
         \A p \in Posts : Analysed[p] \subseteq Analysed'[p],
         t.pc = "run" => OneRun(t, Analysed'),
         lostSaves => lostSaves', overlapped => overlapped',
         Running(b) \/ Analysed' = Analysed,
         ~overlapped' /\ ~lostSaves' /\ t.pc = "run" =>
           /\ Running(b) \/ \A d \in Analyses : ~Running(d)
           /\ Informed(t, Analysed')
  PROVE  AnalysisInv'
<1>1. \A d \in Analyses : analysis'[d] = IF d = b THEN t ELSE analysis[d]
  BY DEF AnalysisInv, AnalysisTypes
<1>2. AnalysisTypes'
  BY DEF AnalysisInv, AnalysisTypes
<1>3. ListingInv'
  <2>1. SUFFICES ASSUME NEW d \in Analyses, analysis'[d].pc = "run"
                 PROVE  OneRun(analysis'[d], Analysed')
    BY DEF ListingInv, Running
  <2>2. CASE d = b
    BY <1>1, <2>1, <2>2
  <2>3. CASE d # b
    <3>1. analysis'[d] = analysis[d] /\ OneRun(analysis[d], Analysed)
      BY <1>1, <2>1, <2>3 DEF AnalysisInv, ListingInv, Running
    <3>2. DOMAIN analysis[d].listed \subseteq Posts
      BY DEF AnalysisInv, AnalysisTypes, Analysis
    <3> QED
      BY <3>1, <3>2, MoreIsAnalysed
  <2> QED
    BY <2>2, <2>3
<1>4. AloneInv'
  <2>1. SUFFICES ASSUME ~overlapped', ~lostSaves'
                 PROVE  /\ \A c, d \in Analyses : analysis'[c].pc = "run" /\ analysis'[d].pc = "run" => c = d
                        /\ \A d \in Analyses : analysis'[d].pc = "run" => Informed(analysis'[d], Analysed')
    BY DEF AloneInv, Running
  <2>2. /\ \A c, d \in Analyses : Running(c) /\ Running(d) => c = d
        /\ \A d \in Analyses : Running(d) => Informed(analysis[d], Analysed)
    BY <2>1 DEF AnalysisInv, AloneInv
  <2> QED
    BY <1>1, <2>1, <2>2 DEF Running
<1> QED
  BY <1>2, <1>3, <1>4 DEF AnalysisInv

LEMMA AnalysisInitially ==
  ASSUME Init
  PROVE  AnalysisInv
<1>1. \A b \in Analyses : analysis[b] = NoAnalysis
  BY DEF Init
<1>2. understanding = <<>> /\ lostSaves = FALSE /\ overlapped = FALSE
  BY DEF Init
<1>3. AnalysisTypes
  <2>1. understanding \in Seq(Row)
    BY <1>2
  <2>2. DOMAIN understanding = {}
    BY <1>2, EmptyFunction
  <2>3. analysis \in [Analyses -> Analysis]
    BY NoAnalysisIsTyped DEF Init
  <2> QED
    BY <1>2, <2>1, <2>2, <2>3 DEF AnalysisTypes
<1> QED
  BY <1>1, <1>3, NoAnalysisIsTyped DEF AnalysisInv, ListingInv, AloneInv, Running

\* What is listed of a post.
LEMMA CandidatesAreInputs ==
  ASSUME CollectInv, NEW p \in Posts
  PROVE  DecodeCandidate(p) \in Input
<1> DEFINE M == {m \in AssetsOf[p] : asset[m] # "absent"}
           marks == [m \in M |-> DecodeAsset(m)]
<1>1. M \in SUBSET Assets
  BY CollectionAssumption
<1>2. \A m : DecodeAsset(m) \in {"bare", "typed", "read"}
  BY DEF DecodeAsset
<1>3. marks \in [M -> {"bare", "typed", "read"}]
  BY <1>2
<1>4. marks \in Marks
  <2> HIDE DEF M, marks
  <2> QED
    BY <1>1, <1>3 DEF Marks
<1>5. post[p] \in CaptionsOrNone /\ remote[p].format \in FormatsOrNone
  BY DEF CollectInv, CollectTypes, RemotePost
<1>6. DecodeCandidate(p) = [caption |-> post[p], format |-> remote[p].format, marks |-> marks]
  BY DEF DecodeCandidate
<1> HIDE DEF marks
<1> QED
  BY <1>4, <1>5, <1>6 DEF Input

LEMMA FingerprintsAreInputs ==
  ASSUME NEW candidate \in Input, NEW read
  PROVE  /\ InputFingerprint(candidate, read) \in Input
         /\ InputFingerprint(candidate, read).caption = candidate.caption
<1> DEFINE marks == [m \in DOMAIN candidate.marks |-> IF m \in read THEN "read" ELSE candidate.marks[m]]
<1>1. candidate.marks \in Marks
  BY DEF Input
<1>2. PICK M \in SUBSET Assets : candidate.marks \in [M -> {"bare", "typed", "read"}]
  BY <1>1 DEF Marks
<1>3. marks \in [M -> {"bare", "typed", "read"}]
  BY <1>2
<1>4. marks \in Marks
  <2> HIDE DEF marks
  <2> QED
    BY <1>3 DEF Marks
<1>5. InputFingerprint(candidate, read) = [candidate EXCEPT !.marks = marks]
  BY DEF InputFingerprint
<1> HIDE DEF marks
<1> QED
  BY <1>4, <1>5 DEF Input

LEMMA AnalysedAreInputs ==
  ASSUME AnalysisTypes, NEW p \in Posts
  PROVE  Analysed[p] = Existing(p) /\ Existing(p) \in SUBSET Input
<1>1. \A x : x \in Existing(p) <=>
        \E i \in DOMAIN understanding : understanding[i].post = p /\ understanding[i].input = x
  BY ExistingAreRows
<1>2. \A i \in DOMAIN understanding : understanding[i].input \in Input
  <2>1. \A i \in DOMAIN understanding : understanding[i] \in Row
    BY DEF AnalysisTypes
  <2> QED
    BY <2>1 DEF Row
<1> QED
  BY <1>1, <1>2 DEF Analysed

LEMMA BeginKeeps ==
  ASSUME CollectInv, AnalysisInv, NEW b \in Analyses, BeginAnalysis(b)
  PROVE  AnalysisInv'
<1>1. PICK chosen \in SUBSET Posts :
        analysis' = [analysis EXCEPT ![b] = [NoAnalysis EXCEPT
          !.pc = "run", !.todo = chosen, !.workers = Workers,
          !.listed = [p \in chosen |-> DecodeCandidate(p)],
          !.known = [p \in chosen |-> Existing(p)]]]
  BY DEF BeginAnalysis
<1> DEFINE listed == [p \in chosen |-> DecodeCandidate(p)]
           known == [p \in chosen |-> Existing(p)]
           t == [NoAnalysis EXCEPT !.pc = "run", !.todo = chosen, !.workers = Workers,
                                   !.listed = listed, !.known = known]
           Listings == UNION {[P -> Input] : P \in SUBSET Posts}
           Knowns == UNION {[P -> SUBSET Input] : P \in SUBSET Posts}
<1>2. listed \in Listings /\ known \in Knowns
  <2>1. \A p \in chosen : DecodeCandidate(p) \in Input /\ Existing(p) \in SUBSET Input
    BY CandidatesAreInputs, AnalysedAreInputs DEF AnalysisInv
  <2> QED
    BY <2>1
<1>3. \A p \in chosen : known[p] = Analysed[p]
  BY DEF Analysed
<1>4. DOMAIN listed = chosen /\ DOMAIN known = chosen
  OBVIOUS
<1>5. analysis' = [analysis EXCEPT ![b] = t]
  BY <1>1
<1> HIDE DEF listed, known
<1>6. /\ t.pc = "run" /\ t.todo = chosen /\ t.workers = Workers /\ t.listed = listed
      /\ t.known = known /\ t.open = <<>> /\ t.broken = FALSE
  BY DEF NoAnalysis
<1>7. t \in Analysis
  <2>1. /\ Analysis = [pc : {"idle", "run"}, listed : Listings, known : Knowns, todo : SUBSET Posts,
                       open : UNION {[P -> Row] : P \in SUBSET Posts}, workers : Int, broken : BOOLEAN]
        /\ NoAnalysis \in Analysis /\ Workers \in Int
    BY NoAnalysisIsTyped, AnalysisAssumption DEF Analysis
  <2> HIDE DEF Listings, Knowns
  <2> QED
    BY <1>2, <2>1
<1> HIDE DEF t
<1>8. understanding' = understanding /\ lostSaves' = lostSaves /\ overlapped' \in BOOLEAN
      /\ overlapped' = (overlapped \/ \E d \in Analyses : Running(d))
  BY DEF BeginAnalysis, AnalysisInv, AnalysisTypes
<1>9. Analysed' = Analysed
  BY <1>8 DEF Analysed, Existing, RowsOf
<1>10. OneRun(t, Analysed) /\ Informed(t, Analysed)
  BY <1>3, <1>4, <1>6, EmptyFunction DEF OneRun, Informed, Accounted
<1> QED
  BY <1>5, <1>7, <1>8, <1>9, <1>10, AnalysisSteps DEF AnalysisInv, AnalysisTypes

LEMMA EndKeeps ==
  ASSUME AnalysisInv, NEW b \in Analyses, EndAnalysis(b) \/ KillAnalysis(b)
  PROVE  AnalysisInv'
<1>1. /\ analysis' = [analysis EXCEPT ![b] = NoAnalysis]
      /\ UNCHANGED <<understanding, lostSaves, overlapped>>
  BY DEF EndAnalysis, KillAnalysis
<1>2. Analysed' = Analysed
  BY <1>1 DEF Analysed, Existing, RowsOf
<1> QED
  BY <1>1, <1>2, NoAnalysisIsTyped, AnalysisSteps DEF AnalysisInv, AnalysisTypes

\* The analysis of a listed post: its row waits to be saved, if its input is new.
LEMMA ProcessKeeps ==
  ASSUME CollectInv, AnalysisInv, NEW b \in Analyses, NEW p \in Posts, ProcessCandidate(b, p)
  PROVE  AnalysisInv'
<1> DEFINE t == analysis[b]
           candidate == t.listed[p]
<1>1. /\ Running(b) /\ p \in t.todo
      /\ UNCHANGED <<understanding, lostSaves, overlapped>>
  BY DEF ProcessCandidate
<1>2. t \in Analysis /\ OneRun(t, Analysed)
  BY <1>1 DEF AnalysisInv, AnalysisTypes, ListingInv
<1>3. PICK P \in SUBSET Posts : t.listed \in [P -> Input]
  BY <1>2 DEF Analysis
<1>4. PICK Q \in SUBSET Posts : t.open \in [Q -> Row]
  BY <1>2 DEF Analysis
<1>5. p \in P /\ candidate \in Input /\ P = DOMAIN t.listed /\ Q = DOMAIN t.open
  BY <1>1, <1>2, <1>3, <1>4 DEF OneRun
<1>6. PICK read \in SUBSET Readable(candidate), answered \in BOOLEAN :
        LET input == InputFingerprint(candidate, read)
        IN  analysis' = [analysis EXCEPT ![b].todo = @ \ {p},
              ![b].open = IF Seen(b, p, input) THEN @
                          ELSE [q \in DOMAIN @ \cup {p} |-> IF q # p THEN @[q]
                                ELSE [post |-> p, input |-> input,
                                      status |-> Status(candidate, read, answered)]]]
  BY DEF ProcessCandidate
<1> DEFINE input == InputFingerprint(candidate, read)
           row == [post |-> p, input |-> input, status |-> Status(candidate, read, answered)]
           opened == [q \in Q \cup {p} |-> IF q # p THEN t.open[q] ELSE row]
           open == IF Seen(b, p, input) THEN t.open ELSE opened
           new == [t EXCEPT !.todo = t.todo \ {p}, !.open = open]
<1>7. input \in Input /\ input.caption = candidate.caption
  BY <1>5, FingerprintsAreInputs
<1>8. row \in Row /\ row.post = p /\ row.input = input
  <2>1. Status(candidate, read, answered) \in {"SUCCEEDED", "PARTIAL", "FAILED", "UNAVAILABLE"}
    BY DEF Status
  <2> HIDE DEF input
  <2> QED
    BY <1>7, <2>1 DEF Row
<1>9. analysis' = [analysis EXCEPT ![b] = new]
  <2>1. analysis' = [analysis EXCEPT ![b].todo = @ \ {p},
              ![b].open = IF Seen(b, p, input) THEN @
                          ELSE [q \in DOMAIN @ \cup {p} |-> IF q # p THEN @[q] ELSE row]]
    BY <1>6
  <2> HIDE DEF row, input
  <2>2. analysis \in [Analyses -> Analysis]
    BY DEF AnalysisInv, AnalysisTypes
  <2> QED
    BY <1>4, <1>5, <2>1, <2>2 DEF Analysis
<1> HIDE DEF row, input
<1>10. opened \in [Q \cup {p} -> Row]
  BY <1>4, <1>8
<1>11. open \in UNION {[R -> Row] : R \in SUBSET Posts}
  <2>1. opened \in UNION {[R -> Row] : R \in SUBSET Posts}
    <3> HIDE DEF opened
    <3> QED
      BY <1>10
  <2>2. t.open \in UNION {[R -> Row] : R \in SUBSET Posts}
    BY <1>2 DEF Analysis
  <2> HIDE DEF opened
  <2> QED
    BY <2>1, <2>2
<1>12. /\ DOMAIN open = IF Seen(b, p, input) THEN Q ELSE Q \cup {p}
       /\ ~Seen(b, p, input) => open[p] = row
       /\ \A q \in Q : q # p => open[q] = t.open[q]
  BY <1>4
<1>13. p \notin Q
  BY <1>1, <1>2, <1>5 DEF OneRun
<1> HIDE DEF opened, open
<1>14. /\ new.pc = t.pc /\ new.todo = t.todo \ {p} /\ new.open = open /\ new.listed = t.listed
       /\ new.known = t.known /\ new.workers = t.workers /\ new.broken = t.broken
       /\ new \in Analysis
  BY <1>2, <1>11 DEF Analysis
<1> HIDE DEF new
<1>15. Analysed' = Analysed
  BY <1>1 DEF Analysed, Existing, RowsOf
<1>16. OneRun(new, Analysed)
  <2>1. \A q \in DOMAIN open : open[q].post = q /\ q \notin new.todo
    BY <1>2, <1>5, <1>8, <1>12, <1>13, <1>14 DEF OneRun
  <2>2. ASSUME NEW q \in DOMAIN t.listed, Accounted(t, Analysed, q)
        PROVE  Accounted(new, Analysed, q)
    <3>1. CASE q # p
      BY <1>5, <1>12, <1>14, <2>2, <3>1 DEF Accounted
    <3>2. CASE q = p /\ ~Seen(b, p, input)
      BY <1>7, <1>8, <1>12, <1>14, <3>2 DEF Accounted
    <3>3. CASE q = p /\ Seen(b, p, input)
      <4>1. input \in Analysed[p]
        BY <1>2, <1>5, <3>3 DEF OneRun, Seen
      <4> QED
        BY <1>7, <1>14, <3>3, <4>1 DEF Accounted
    <3> QED
      BY <3>1, <3>2, <3>3
  <2>3. DOMAIN open \subseteq DOMAIN t.listed
    BY <1>2, <1>5, <1>12 DEF OneRun
  <2> QED
    BY <1>2, <1>14, <2>1, <2>2, <2>3 DEF OneRun
<1>17. ASSUME ~overlapped, ~lostSaves
       PROVE  Informed(new, Analysed)
  <2>1. Informed(t, Analysed)
    BY <1>1, <1>17 DEF AnalysisInv, AloneInv
  <2>2. ASSUME ~Seen(b, p, input)
        PROVE  input \notin Analysed[p]
    BY <1>1, <2>1, <2>2 DEF Seen, Informed
  <2> QED
    BY <1>5, <1>8, <1>12, <1>13, <1>14, <2>1, <2>2 DEF Informed
<1> QED
  BY <1>1, <1>9, <1>14, <1>15, <1>16, <1>17, AnalysisSteps DEF AnalysisInv, AnalysisTypes

LEMMA DroppedOpens ==
  ASSUME NEW Q \in SUBSET Posts, NEW f \in [Q -> Row], NEW p
  PROVE  /\ Drop(f, p) \in UNION {[R -> Row] : R \in SUBSET Posts}
         /\ DOMAIN Drop(f, p) = Q \ {p} /\ \A q \in Q \ {p} : Drop(f, p)[q] = f[q]
<1>1. Drop(f, p) \in [Q \ {p} -> Row] /\ Q \ {p} \in SUBSET Posts
  BY DEF Drop
<1>2. Drop(f, p) \in UNION {[R -> Row] : R \in SUBSET Posts}
  BY <1>1
<1> QED
  BY <1>2 DEF Drop

\* The save of a row, its failure, and the failure of the row that says so.
LEMMA SaveKeeps ==
  ASSUME CollectInv, AnalysisInv, NEW b \in Analyses, NEW p \in Posts, Save(b, p)
  PROVE  AnalysisInv'
<1> DEFINE t == analysis[b]
           row == t.open[p]
           dropped == Drop(t.open, p)
           failed == [t.open EXCEPT ![p] = [row EXCEPT !.status = "FAILED"]]
           saved == [t EXCEPT !.open = dropped]
           retried == [t EXCEPT !.open = failed]
           broken == [t EXCEPT !.open = dropped, !.workers = t.workers - 1, !.broken = TRUE]
           Opens == UNION {[R -> Row] : R \in SUBSET Posts}
<1>1. Running(b) /\ p \in DOMAIN t.open /\ overlapped' = overlapped
  BY DEF Save
<1>2. t \in Analysis /\ OneRun(t, Analysed) /\ t.pc = "run"
  BY <1>1 DEF AnalysisInv, AnalysisTypes, ListingInv, Running
<1>3. PICK P \in SUBSET Posts : t.listed \in [P -> Input]
  BY <1>2 DEF Analysis
<1>4. PICK Q \in SUBSET Posts : t.open \in [Q -> Row]
  BY <1>2 DEF Analysis
<1>5. p \in Q /\ row \in Row /\ row.post = p /\ P = DOMAIN t.listed /\ Q = DOMAIN t.open
  BY <1>1, <1>2, <1>3, <1>4 DEF OneRun
<1>6. \/ /\ analysis' = [analysis EXCEPT ![b] = saved]
         /\ understanding' = Upserted(row) /\ lostSaves' = lostSaves
      \/ /\ \/ analysis' = [analysis EXCEPT ![b] = retried]
            \/ analysis' = [analysis EXCEPT ![b] = broken]
         /\ \/ understanding' = Upserted(row) /\ lostSaves' = TRUE
            \/ understanding' = understanding /\ lostSaves' = lostSaves
  <2>1. analysis \in [Analyses -> Analysis]
    BY DEF AnalysisInv, AnalysisTypes
  <2>2. ASSUME analysis' = [analysis EXCEPT ![b].open = Drop(@, p)]
        PROVE  analysis' = [analysis EXCEPT ![b] = saved]
    BY <2>1, <2>2
  <2>3. ASSUME SaveFailed(b, p)
        PROVE  \/ analysis' = [analysis EXCEPT ![b] = retried]
               \/ analysis' = [analysis EXCEPT ![b] = broken]
    BY <2>1, <2>3 DEF SaveFailed
  <2> HIDE DEF saved, retried, broken
  <2> QED
    BY <2>2, <2>3 DEF Save
<1>7. /\ dropped \in Opens /\ DOMAIN dropped = Q \ {p}
      /\ \A q \in Q \ {p} : dropped[q] = t.open[q]
  BY <1>4, DroppedOpens
<1>8. /\ failed \in Opens /\ DOMAIN failed = Q /\ failed[p].post = p
      /\ failed[p].input = row.input /\ \A q \in Q \ {p} : failed[q] = t.open[q]
  <2> DEFINE again == [row EXCEPT !.status = "FAILED"]
  <2>1. again \in Row /\ again.post = p /\ again.input = row.input
    BY <1>5 DEF Row
  <2> HIDE DEF again
  <2>2. failed = [t.open EXCEPT ![p] = again]
    BY DEF again
  <2> HIDE DEF failed
  <2>3. failed \in [Q -> Row]
    BY <1>4, <2>1, <2>2
  <2> QED
    BY <1>4, <1>5, <2>1, <2>2, <2>3
<1> HIDE DEF dropped, failed, Opens
<1>9. /\ saved \in Analysis /\ saved.open = dropped /\ saved.pc = t.pc /\ saved.todo = t.todo
      /\ saved.listed = t.listed /\ saved.known = t.known /\ saved.workers = t.workers
      /\ saved.broken = t.broken
  BY <1>2, <1>7 DEF Analysis, Opens
<1>10. /\ retried \in Analysis /\ retried.open = failed /\ retried.pc = t.pc /\ retried.todo = t.todo
       /\ retried.listed = t.listed /\ retried.known = t.known /\ retried.workers = t.workers
       /\ retried.broken = t.broken
  BY <1>2, <1>8 DEF Analysis, Opens
<1>11. /\ broken \in Analysis /\ broken.open = dropped /\ broken.pc = t.pc /\ broken.todo = t.todo
       /\ broken.listed = t.listed /\ broken.known = t.known /\ broken.broken
  <2>1. t.workers - 1 \in Int
    BY <1>2 DEF Analysis
  <2> DEFINE w == t.workers - 1
  <2> HIDE DEF w
  <2>2. broken = [t EXCEPT !.open = dropped, !.workers = w, !.broken = TRUE] /\ w \in Int
    BY <2>1 DEF w
  <2> HIDE DEF broken
  <2> QED
    BY <1>2, <1>7, <2>2 DEF Analysis, Opens
<1> HIDE DEF saved, retried, broken
\* The tables after the step.
<1>12. /\ understanding' \in Seq(Row)
       /\ \A i, j \in DOMAIN understanding' : SameKey(understanding'[i], understanding'[j]) => i = j
       /\ \A q \in Posts : Analysed[q] \subseteq Analysed'[q]
  <2>1. CASE understanding' = Upserted(row)
    BY <1>5, <2>1, SavedRows DEF AnalysisInv
  <2>2. CASE understanding' = understanding
    BY <2>2 DEF AnalysisInv, AnalysisTypes, Analysed, Existing, RowsOf
  <2> QED
    BY <1>6, <2>1, <2>2
<1>13. OneRun(t, Analysed')
  <2>1. DOMAIN t.listed \subseteq Posts
    BY <1>3
  <2> QED
    BY <1>2, <1>12, <2>1, MoreIsAnalysed
<1>14. ASSUME understanding' = Upserted(row)
       PROVE  \A q \in Posts : Analysed'[q] = IF q = p THEN Analysed[q] \cup {row.input} ELSE Analysed[q]
  <2>1. Analysed' = [q \in Posts |-> IF q = row.post THEN Analysed[q] \cup {row.input} ELSE Analysed[q]]
    BY <1>5, <1>14, SavedRows DEF AnalysisInv
  <2> HIDE DEF row
  <2> QED
    BY <1>5, <2>1
<1>15. p \notin t.todo /\ \A q \in Q : t.open[q].post = q /\ q \notin t.todo
  BY <1>2, <1>5 DEF OneRun
\* The run after the step.
<1>16. CASE /\ analysis' = [analysis EXCEPT ![b] = saved]
            /\ understanding' = Upserted(row) /\ lostSaves' = lostSaves
  <2>1. OneRun(saved, Analysed')
    <3>1. ASSUME NEW q \in DOMAIN t.listed, Accounted(t, Analysed', q)
          PROVE  Accounted(saved, Analysed', q)
      <4>1. CASE q # p
        BY <1>5, <1>7, <1>9, <3>1, <4>1 DEF Accounted
      <4>2. CASE q = p
        <5>1. row.input \in Analysed'[p]
          BY <1>14, <1>16
        <5> QED
          BY <1>5, <1>9, <1>15, <3>1, <4>2, <5>1 DEF Accounted
      <4> QED
        BY <4>1, <4>2
    <3> QED
      BY <1>5, <1>7, <1>9, <1>13, <3>1 DEF OneRun
  <2>2. ASSUME ~overlapped', ~lostSaves'
        PROVE  Informed(saved, Analysed')
    <3>1. Informed(t, Analysed)
      BY <1>1, <1>16, <2>2 DEF AnalysisInv, AloneInv
    <3>2. \A q \in t.todo : q \in Posts /\ q # p
      BY <1>2, <1>15 DEF Analysis
    <3> QED
      BY <1>5, <1>7, <1>9, <1>14, <1>16, <3>1, <3>2 DEF Informed
  <2> QED
    BY <1>1, <1>9, <1>12, <1>16, <2>1, <2>2, AnalysisSteps DEF AnalysisInv, AnalysisTypes
<1>17. CASE /\ \/ analysis' = [analysis EXCEPT ![b] = retried]
               \/ analysis' = [analysis EXCEPT ![b] = broken]
            /\ \/ understanding' = Upserted(row) /\ lostSaves' = TRUE
               \/ understanding' = understanding /\ lostSaves' = lostSaves
  <2>1. OneRun(retried, Analysed')
    <3>1. ASSUME NEW q \in DOMAIN t.listed, Accounted(t, Analysed', q)
          PROVE  Accounted(retried, Analysed', q)
      BY <1>5, <1>8, <1>10, <3>1 DEF Accounted
    <3>2. \A q \in DOMAIN failed : failed[q].post = q /\ q \notin t.todo
      BY <1>5, <1>8, <1>15
    <3> QED
      BY <1>5, <1>8, <1>10, <1>13, <3>1, <3>2 DEF OneRun
  <2>2. OneRun(broken, Analysed')
    BY <1>5, <1>7, <1>11, <1>13 DEF OneRun
  <2>3. ASSUME ~overlapped', ~lostSaves'
        PROVE  Informed(retried, Analysed') /\ Informed(broken, Analysed')
    <3>1. understanding' = understanding /\ lostSaves' = lostSaves
      BY <1>17, <2>3
    <3>2. Informed(t, Analysed)
      BY <1>1, <2>3, <3>1 DEF AnalysisInv, AloneInv
    <3>3. Analysed' = Analysed
      BY <3>1 DEF Analysed, Existing, RowsOf
    <3> QED
      BY <1>5, <1>7, <1>8, <1>10, <1>11, <3>2, <3>3 DEF Informed
  <2>4. lostSaves' \in BOOLEAN /\ (lostSaves => lostSaves') /\ overlapped' \in BOOLEAN
    <3>1. lostSaves \in BOOLEAN /\ overlapped \in BOOLEAN
      BY DEF AnalysisInv, AnalysisTypes
    <3>2. lostSaves' = TRUE \/ lostSaves' = lostSaves
      BY <1>17
    <3> QED
      BY <1>1, <3>1, <3>2, Zenon
  <2>5. CASE analysis' = [analysis EXCEPT ![b] = retried]
    BY <1>1, <1>10, <1>12, <2>1, <2>3, <2>4, <2>5, AnalysisSteps
  <2>6. CASE analysis' = [analysis EXCEPT ![b] = broken]
    BY <1>1, <1>11, <1>12, <2>2, <2>3, <2>4, <2>6, AnalysisSteps
  <2> QED
    BY <1>17, <2>5, <2>6
<1> QED
  BY <1>6, <1>16, <1>17

-----------------------------------------------------------------------------
(* The theorems.                                                           *)

ContentInv == CollectInv /\ AnalysisInv

LEMMA ContentStep ==
  ASSUME ContentInv, [Next]_vars
  PROVE  ContentInv'
<1>1. CASE [CollectNext]_collectVars /\ UNCHANGED analysisVars
  <2>1. CollectInv'
    BY <1>1, CollectKeeps DEF ContentInv
  <2>2. UNCHANGED <<understanding, analysis, lostSaves, overlapped>>
    BY <1>1 DEF analysisVars
  <2>3. Analysed' = Analysed
    BY <2>2 DEF Analysed, Existing, RowsOf
  <2>4. AnalysisInv'
    BY <2>2, <2>3 DEF ContentInv, AnalysisInv, AnalysisTypes, ListingInv, AloneInv, Running
  <2> QED
    BY <2>1, <2>4 DEF ContentInv
<1>2. ASSUME NEW b \in Analyses, AnalysisStep(b)
      PROVE  ContentInv'
  <2>1. UNCHANGED <<now, token, remote, account, post, snapshot, asset, object, collect>>
    BY <1>2 DEF AnalysisStep, BeginAnalysis, EndAnalysis, KillAnalysis, ProcessCandidate, Save,
       collectVars, environment, collectTables
  <2>2. CollectInv'
    BY <2>1 DEF ContentInv, CollectInv, CollectTypes, MediaInv, CachedMediaExists, TimesInv,
       SnapshotsSpaced
  <2>3. AnalysisInv'
    BY <1>2, BeginKeeps, EndKeeps, ProcessKeeps, SaveKeeps DEF ContentInv, AnalysisStep
  <2> QED
    BY <2>2, <2>3 DEF ContentInv
<1> QED
  BY <1>1, <1>2 DEF Next, vars

LEMMA ContentInvariant == Spec => []ContentInv
<1>1. Init => ContentInv
  BY CollectInitially, AnalysisInitially DEF ContentInv, Init
<1>2. ContentInv /\ [Next]_vars => ContentInv'
  BY ContentStep
<1> QED
  BY <1>1, <1>2, PTL DEF Spec

\* Whatever runs of collecting and analysing overlap, fail or are killed, the tables
\* stay of their types and no post has two rows of one fingerprint.
THEOREM ContentTyping == Spec => []TypeOK
<1>1. ContentInv => TypeOK
  <2> SUFFICES ASSUME ContentInv PROVE TypeOK
    OBVIOUS
  <2>1. CollectTypeOK
    <3>1. \A c \in Collections : collect[c] \in Collection
      BY DEF ContentInv, CollectInv, CollectTypes
    <3>2. \A c \in Collections : /\ collect[c].pc \in {"idle", "core", "media"}
                                 /\ collect[c].category \in [Accounts -> Categories \cup {"none"}]
      BY <3>1 DEF Collection
    <3> QED
      BY <3>2 DEF ContentInv, CollectInv, CollectTypes, CollectTypeOK, CaptionsOrNone
  <2>2. ASSUME NEW i \in DOMAIN understanding
        PROVE  /\ understanding[i].post \in Posts
               /\ understanding[i].status \in {"SUCCEEDED", "PARTIAL", "FAILED", "UNAVAILABLE"}
               /\ \A j \in DOMAIN understanding : i # j =>
                    <<understanding[i].post, understanding[i].input>>
                      # <<understanding[j].post, understanding[j].input>>
    <3>1. understanding[i] \in Row
      BY DEF ContentInv, AnalysisInv, AnalysisTypes
    <3> QED
      BY <3>1 DEF ContentInv, AnalysisInv, AnalysisTypes, SameKey, Row
  <2> QED
    BY <2>1, <2>2 DEF TypeOK
<1> QED
  BY <1>1, ContentInvariant, PTL

\* A picture whose row says cached has its object in the bucket: a run counts as
\* stored only what is there, nothing is ever removed, and rows are finalised from
\* that count alone.
THEOREM CachedMediaAlwaysExists == Spec => []CachedMediaExists
<1>1. ContentInv => CachedMediaExists
  BY DEF ContentInv, CollectInv, MediaInv
<1> QED
  BY <1>1, ContentInvariant, PTL

\* Snapshots of a post are spaced as its age asks, in whatever order overlapping runs
\* deliver: one that is not later than the last by the interval is not taken.
THEOREM SnapshotsAreSpaced == Spec => []SnapshotsSpaced
<1>1. ContentInv => SnapshotsSpaced
  BY DEF ContentInv, CollectInv
<1> QED
  BY <1>1, ContentInvariant, PTL

\* A run that reports success has a row for the caption of every post it listed.
THEOREM ListedIsAlwaysAnalysed == Spec => ListedIsAnalysed
<1>1. ASSUME ContentInv, NEW b \in Analyses, Running(b), EndAnalysis(b), ~analysis[b].broken,
             NEW p \in DOMAIN analysis[b].listed
      PROVE  \E u \in RowsOf(p) : u.input.caption = analysis[b].listed[p].caption
  <2>1. OneRun(analysis[b], Analysed) /\ analysis[b] \in Analysis
    BY <1>1 DEF ContentInv, AnalysisInv, AnalysisTypes, ListingInv
  <2>2. analysis[b].todo = {} /\ DOMAIN analysis[b].open = {}
    <3>1. analysis[b].workers = Workers /\ Workers \in 1..2
      BY <1>1, <2>1, AnalysisAssumption DEF OneRun
    <3> QED
      BY <1>1, <3>1, EmptyFunction DEF EndAnalysis
  <2>3. p \in Posts
    BY <1>1, <2>1 DEF Analysis
  <2>4. PICK input \in Existing(p) : input.caption = analysis[b].listed[p].caption
    BY <1>1, <2>1, <2>2, <2>3 DEF OneRun, Accounted, Analysed
  <2> QED
    BY <2>4 DEF Existing
<1>2. ContentInv =>
        [\A b \in Analyses : Running(b) /\ EndAnalysis(b) /\ ~analysis[b].broken =>
           \A p \in DOMAIN analysis[b].listed :
              \E u \in RowsOf(p) : u.input.caption = analysis[b].listed[p].caption]_vars
  BY <1>1
<1> QED
  BY <1>2, ContentInvariant, PTL DEF ListedIsAnalysed

\* While runs do not overlap and no answer to a save is lost, a good analysis is never
\* replaced: what a run saves has no row yet, so each save goes to the end.
THEOREM GoodAnalysesAlwaysStay == Spec => GoodAnalysesStay
<1>1. ASSUME ContentInv, [Next]_vars, ~overlapped', ~lostSaves', NEW i \in DOMAIN understanding
      PROVE  understanding'[i] = understanding[i]
  <2>1. CASE UNCHANGED understanding
    BY <2>1
  <2>2. ASSUME NEW b \in Analyses, NEW p \in Posts, Save(b, p)
        PROVE  understanding'[i] = understanding[i]
    <3> DEFINE row == analysis[b].open[p]
    <3>1. /\ Running(b) /\ p \in DOMAIN analysis[b].open /\ overlapped' = overlapped
          /\ \/ understanding' = Upserted(row) /\ lostSaves' = lostSaves
             \/ understanding' = understanding
      BY <1>1, <2>2 DEF Save
    <3>2. CASE understanding' = Upserted(row) /\ lostSaves' = lostSaves
      <4>1. OneRun(analysis[b], Analysed) /\ Informed(analysis[b], Analysed)
        BY <1>1, <3>1, <3>2 DEF ContentInv, AnalysisInv, ListingInv, AloneInv
      <4>2. row.post = p /\ row.input \notin Analysed[p]
        BY <3>1, <4>1 DEF OneRun, Informed
      <4>3. row \in Row
        BY <1>1, <3>1 DEF ContentInv, AnalysisInv, AnalysisTypes, Analysis
      <4>4. understanding \in Seq(Row) /\ understanding' = Append(understanding, row)
        BY <1>1, <3>2, <4>2, <4>3, SavedRows DEF ContentInv, AnalysisInv, AnalysisTypes
      <4> HIDE DEF row
      <4> QED
        BY <4>3, <4>4
    <3>3. CASE understanding' = understanding
      BY <3>3
    <3> QED
      BY <3>1, <3>2, <3>3
  <2>3. UNCHANGED understanding \/ \E b \in Analyses, p \in Posts : Save(b, p)
    BY <1>1 DEF Next, vars, analysisVars, AnalysisStep, BeginAnalysis, EndAnalysis, KillAnalysis,
       ProcessCandidate
  <2> QED
    BY <2>1, <2>2, <2>3
<1>2. ContentInv /\ [Next]_vars =>
        [~overlapped' /\ ~lostSaves' =>
           \A i \in DOMAIN understanding :
              understanding[i].status \in {"SUCCEEDED", "PARTIAL"} => understanding'[i] = understanding[i]]_vars
  BY <1>1
<1> QED
  BY <1>2, ContentInvariant, PTL DEF Spec, GoodAnalysesStay

=============================================================================
