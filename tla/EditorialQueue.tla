--------------------------- MODULE EditorialQueue ---------------------------
(***************************************************************************)
(* The editorial job queue: table app_private.editorial_jobs and the RPCs  *)
(* that are its only writers (enqueue, claim, complete, fail, and the      *)
(* PROMOTE_DISCOVERY payload patch), with the AFTER UPDATE trigger that    *)
(* records a dead alert in the same transaction as the failure.            *)
(*                                                                         *)
(* The clients are the most general ones: any worker may call any RPC on   *)
(* any job at any time.  What must hold, holds because of the guards of    *)
(* the SQL, not because of how a worker behaves; OrchestrationWorker       *)
(* restricts the callers to what the edge function does.                   *)
(*                                                                         *)
(* Each RPC is one UPDATE or INSERT, one atomic step.  FOR UPDATE SKIP     *)
(* LOCKED leaves a row to the transaction that holds it, which is the      *)
(* order "the other transaction first".                                    *)
(***************************************************************************)
EXTENDS Integers, FiniteSets

CONSTANTS
  Jobs,          \* dedupe keys: the table is unique on dedupe_key
  PromoteJobs,   \* the keys whose job_type is PROMOTE_DISCOVERY
  Workers,       \* p_worker_id of the worker requests
  NoWorker,      \* locked_by is null
  Stories,       \* story cluster ids
  MaxAttempts,   \* max_attempts of each job
  Limit,         \* p_limit of a claim
  Lease,         \* p_lease_seconds
  FirstRetry,    \* the delay after attempt 1 (5 minutes)
  LaterRetry,    \* the delay after any other attempt (15 minutes)
  Inputs,        \* the payloads the callers enqueue jobs with
  MaxClaims,     \* bound: no job is claimed more often
  Horizon        \* bound: the clock stops here

NoTime == -1
Time == 0..Horizon

ASSUME QueueAssumption ==
  /\ PromoteJobs \subseteq Jobs
  /\ NoWorker \notin Workers
  /\ MaxAttempts \in [Jobs -> 1..10]
  /\ Limit \in Nat \ {0} /\ Lease \in Nat \ {0}
  /\ FirstRetry \in Nat \ {0} /\ LaterRetry \in Nat \ {0}
  /\ MaxClaims \in Nat /\ Horizon \in Nat

VARIABLES
  jobs,        \* the table, one row per dedupe key
  deadAlert,   \* app_private.editorial_job_dead_alerts: event_id null or set
  deadEvents,  \* EDITORIAL_JOB_DEAD rows of telegram_alert_events, by job
  ownerThread, \* an active OWNER has a telegram thread
  now          \* the clock the callers pass as p_now, p_failed_at

queueVars == <<jobs, deadAlert, deadEvents, ownerThread, now>>

Handoff == [ids : SUBSET Stories, asOf : Time \cup {NoTime}]
NoHandoff == [ids |-> {}, asOf |-> NoTime]

\* The payload fields some step reads: the snapshot time, the grounding scope
\* of a GROUND_CLAIMS job and the durable handoff of a PROMOTE_DISCOVERY job.
Payload == [asOf : Time \cup {NoTime}, ids : SUBSET Stories, handoff : Handoff]

\* A root or a downstream job starts with no handoff.
ASSUME InputAssumption == Inputs \subseteq {p \in Payload : p.handoff = NoHandoff}

Status == {"ABSENT", "PENDING", "RUNNING", "SUCCEEDED", "DEAD"}

Row == [status : Status, attempts : 0..MaxClaims, availableAt : Nat,
        createdAt : Time, lockedAt : Time \cup {NoTime},
        lockedBy : Workers \cup {NoWorker}, payload : Payload]

AbsentRow == [status |-> "ABSENT", attempts |-> 0, availableAt |-> 0,
              createdAt |-> 0, lockedAt |-> NoTime, lockedBy |-> NoWorker,
              payload |-> [asOf |-> NoTime, ids |-> {}, handoff |-> NoHandoff]]

QueueTypeOK ==
  /\ jobs \in [Jobs -> Row]
  /\ deadAlert \in [Jobs -> {"none", "recorded", "materialized"}]
  /\ deadEvents \subseteq Jobs
  /\ ownerThread \in BOOLEAN
  /\ now \in Time

QueueInit ==
  /\ jobs = [j \in Jobs |-> AbsentRow]
  /\ deadAlert = [j \in Jobs |-> "none"]
  /\ deadEvents = {}
  /\ ownerThread \in BOOLEAN
  /\ now = 0

Owns(w, j) == jobs[j].status = "RUNNING" /\ jobs[j].lockedBy = w

\* enqueue_editorial_job: insert ... on conflict (dedupe_key) do nothing.
Enqueue(j, p, at) ==
  /\ jobs' = IF jobs[j].status = "ABSENT"
             THEN [jobs EXCEPT ![j] =
                     [status |-> "PENDING", attempts |-> 0, availableAt |-> at,
                      createdAt |-> now, lockedAt |-> NoTime,
                      lockedBy |-> NoWorker, payload |-> p]]
             ELSE jobs
  /\ UNCHANGED <<deadAlert, deadEvents, ownerThread, now>>

\* Mutants of Expired: the lease ends a tick early; a lease never ends.
ExpiredEarly(j) == jobs[j].status = "RUNNING" /\ jobs[j].lockedAt + Lease <= now + 1
ExpiredNever(j) == FALSE

Expired(j) == jobs[j].status = "RUNNING" /\ jobs[j].lockedAt + Lease <= now

Claimable == {j \in Jobs :
  /\ jobs[j].attempts < MaxClaims
  /\ \/ jobs[j].status = "PENDING" /\ jobs[j].availableAt <= now
     \/ Expired(j)}

\* order by available_at, created_at, id: ids are random, so a tie in the
\* first two columns may be broken either way.
Before(i, j) ==
  \/ jobs[i].availableAt < jobs[j].availableAt
  \/ jobs[i].availableAt = jobs[j].availableAt /\ jobs[i].createdAt < jobs[j].createdAt

\* claim_editorial_jobs: the first Limit claimable rows.
Claim(w, S) ==
  /\ S \subseteq Claimable /\ S # {} /\ Cardinality(S) <= Limit
  /\ Cardinality(S) = Limit \/ S = Claimable
  /\ \A i \in S, j \in Claimable \ S : ~Before(j, i)
  /\ jobs' = [j \in Jobs |-> IF j \in S
                THEN [jobs[j] EXCEPT !.status = "RUNNING",
                        !.attempts = jobs[j].attempts + 1,
                        !.lockedAt = now, !.lockedBy = w]
                ELSE jobs[j]]
  /\ UNCHANGED <<deadAlert, deadEvents, ownerThread, now>>

\* complete_editorial_job: true, the row released, for the owner only.
Complete(w, j) ==
  /\ Owns(w, j)
  /\ jobs' = [jobs EXCEPT ![j] = [@ EXCEPT
                !.status = "SUCCEEDED", !.lockedAt = NoTime, !.lockedBy = NoWorker]]
  /\ UNCHANGED <<deadAlert, deadEvents, ownerThread, now>>

\* record_editorial_job_dead_alert, the trigger's part of a failure: the
\* outbox row and, when an owner thread is known, its event.
RecordDeadAlert(j) ==
  /\ deadAlert' = [deadAlert EXCEPT ![j] =
                     IF ownerThread THEN "materialized" ELSE "recorded"]
  /\ deadEvents' = IF ownerThread THEN deadEvents \cup {j} ELSE deadEvents

RetryDelay(attempt) == IF attempt = 1 THEN FirstRetry ELSE LaterRetry

\* Mutant of Exhausted: one attempt too many.
ExhaustedLate(j) == jobs[j].attempts > MaxAttempts[j]

Exhausted(j) == jobs[j].attempts >= MaxAttempts[j]

\* fail_editorial_job: DEAD once the attempts are used up, PENDING otherwise.
Fail(w, j) ==
  /\ Owns(w, j)
  /\ jobs' = [jobs EXCEPT ![j] = [@ EXCEPT
                !.status = IF Exhausted(j) THEN "DEAD" ELSE "PENDING",
                !.availableAt = IF Exhausted(j) THEN now
                                ELSE now + RetryDelay(jobs[j].attempts),
                !.lockedAt = NoTime, !.lockedBy = NoWorker]]
  /\ IF Exhausted(j) THEN RecordDeadAlert(j) ELSE UNCHANGED <<deadAlert, deadEvents>>
  /\ UNCHANGED <<ownerThread, now>>

\* Mutant of MayPatch: the recorded handoff is not compared.
MayPatchAgain(j, h) == jobs[j].payload.asOf \in {NoTime, h.asOf}

\* An explicit root snapshot and an already recorded handoff are immutable.
MayPatch(j, h) ==
  /\ jobs[j].payload.asOf \in {NoTime, h.asOf}
  /\ jobs[j].payload.handoff \in {NoHandoff, h}

\* update_editorial_job_payload: the owner of a promotion records its handoff.
UpdatePayload(w, j, h) ==
  /\ j \in PromoteJobs /\ Owns(w, j)
  /\ h.ids # {} /\ h.asOf # NoTime
  /\ MayPatch(j, h)
  /\ jobs' = [jobs EXCEPT ![j].payload = [jobs[j].payload EXCEPT !.handoff = h]]
  /\ UNCHANGED <<deadAlert, deadEvents, ownerThread, now>>

\* Mutant of MaterializeDeadAlerts: the outbox row does not get its event id.
MaterializeUnlinked ==
  LET pending == {j \in Jobs : deadAlert[j] = "recorded"}
  IN  /\ pending # {}
      /\ deadEvents' = deadEvents \cup pending
      /\ UNCHANGED <<jobs, deadAlert, ownerThread, now>>

\* materialize_editorial_job_dead_alerts: the outbox rows without an event
\* get one, in one transaction.
MaterializeDeadAlerts ==
  LET pending == {j \in Jobs : deadAlert[j] = "recorded"}
  IN  /\ pending # {}
      /\ deadEvents' = deadEvents \cup pending
      /\ deadAlert' = [j \in Jobs |-> IF j \in pending THEN "materialized" ELSE deadAlert[j]]
      /\ UNCHANGED <<jobs, ownerThread, now>>

\* External: an owner opens a chat, or is deactivated.
OwnerThreadChanges ==
  /\ ownerThread' = ~ownerThread
  /\ UNCHANGED <<jobs, deadAlert, deadEvents, now>>

\* The clock matters only while a retry delay or a lease is running.
Waiting(j) ==
  \/ jobs[j].status = "PENDING" /\ jobs[j].availableAt > now
  \/ jobs[j].status = "RUNNING" /\ jobs[j].lockedAt + Lease > now

Tick ==
  /\ now < Horizon
  /\ \E j \in Jobs : Waiting(j)
  /\ now' = now + 1
  /\ UNCHANGED <<jobs, deadAlert, deadEvents, ownerThread>>

QueueNext ==
  \/ \E j \in Jobs, p \in Inputs, at \in 0..now : Enqueue(j, p, at)
  \/ \E w \in Workers, S \in SUBSET Jobs : Claim(w, S)
  \/ \E w \in Workers, j \in Jobs : Complete(w, j)
  \/ \E w \in Workers, j \in Jobs : Fail(w, j)
  \/ \E w \in Workers, j \in PromoteJobs, h \in Handoff : UpdatePayload(w, j, h)
  \/ MaterializeDeadAlerts
  \/ OwnerThreadChanges
  \/ Tick

QueueSpec == QueueInit /\ [][QueueNext]_queueVars

-----------------------------------------------------------------------------
(* Properties *)

\* A row is locked exactly while it is RUNNING (editorial_jobs_lock_pair and
\* every transition that leaves RUNNING must agree), and a row that waits for
\* another attempt still has one left.
LockExact(j) ==
  /\ jobs[j].status = "RUNNING" <=> jobs[j].lockedBy # NoWorker
  /\ jobs[j].status = "RUNNING" <=> jobs[j].lockedAt # NoTime
  /\ jobs[j].status = "PENDING" => jobs[j].attempts < MaxAttempts[j]

LockedIffRunning == \A j \in Jobs : LockExact(j)

\* Exactly one dead alert per dead job: the outbox row exists iff the job is
\* DEAD, and its event iff the row says it was materialized, whichever of the
\* trigger and the later materialization made it.
AlertExact(j) ==
  /\ jobs[j].status = "DEAD" <=> deadAlert[j] # "none"
  /\ j \in deadEvents <=> deadAlert[j] = "materialized"

DeadJobsAlerted == \A j \in Jobs : AlertExact(j)

\* A worker loses a RUNNING job to another worker only after a full lease,
\* and a finished job is never run, failed or re-enqueued again.
KeepsOwner(j) ==
  /\ jobs[j].status \in {"SUCCEEDED", "DEAD"} => jobs'[j] = jobs[j]
  /\ (/\ jobs[j].status = "RUNNING" /\ jobs'[j].status = "RUNNING"
      /\ jobs[j].attempts # jobs'[j].attempts)
     => jobs[j].lockedAt + Lease <= now

OwnershipRespected == [][\A j \in Jobs : KeepsOwner(j)]_queueVars

\* Once recorded, the grounding handoff of a promotion never changes, and an
\* explicit snapshot of its chain root is the snapshot handed over.
KeepsHandoff(j) ==
  jobs[j].payload.handoff # NoHandoff => jobs'[j].payload.handoff = jobs[j].payload.handoff

HandoffImmutable == [][\A j \in Jobs : KeepsHandoff(j)]_queueVars

HandoffExact(j) ==
  jobs[j].payload.handoff # NoHandoff =>
    /\ jobs[j].status # "ABSENT"
    /\ jobs[j].payload.handoff.ids # {}
    /\ jobs[j].payload.asOf \in {NoTime, jobs[j].payload.handoff.asOf}

HandoffKeepsRootSnapshot == \A j \in Jobs : HandoffExact(j)

\* The queue implements the job lifecycle promised to the pipeline.
Phase == [ABSENT |-> "none", PENDING |-> "queued", RUNNING |-> "held",
          SUCCEEDED |-> "done", DEAD |-> "dead"]

Lifecycle == INSTANCE JobLifecycle WITH
  phase <- [j \in Jobs |-> Phase[jobs[j].status]],
  holder <- [j \in Jobs |-> jobs[j].lockedBy],
  claims <- [j \in Jobs |-> jobs[j].attempts],
  noticed <- {j \in Jobs : deadAlert[j] # "none"}

ImplementsLifecycle == Lifecycle!LifecycleSpec
=============================================================================
