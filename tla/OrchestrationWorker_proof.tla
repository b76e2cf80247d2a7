---------------------- MODULE OrchestrationWorker_proof ----------------------
(***************************************************************************)
(* Proofs about the editorial job queue, under any callers, for every set  *)
(* of jobs, workers and stories, every lease, delay and attempt limit; and *)
(* then about the orchestration worker: its requests use the queue as the  *)
(* queue allows, whatever they lose, repeat or leave behind, and what it   *)
(* adds to the queue's promises holds.                                     *)
(***************************************************************************)
EXTENDS OrchestrationWorker, TLAPS

-----------------------------------------------------------------------------
(* The queue. *)


\* Every RPC keeps the table, the outbox and the clock in their domains, whoever
\* calls it.
LEMMA QueueTypingStep ==
  ASSUME QueueTypeOK, [QueueNext]_queueVars
  PROVE  QueueTypeOK'
<1> USE DEF QueueTypeOK
<1>1. ASSUME NEW j \in Jobs, NEW p \in Inputs, NEW at \in 0..now, Enqueue(j, p, at)
      PROVE  QueueTypeOK'
  <2>1. p \in Payload /\ at \in Nat /\ 0 \in 0..MaxClaims
    BY QueueAssumption, InputAssumption DEF Time
  <2> QED
    BY <1>1, <2>1 DEF Enqueue, Row, Status
<1>2. ASSUME NEW w \in Workers, NEW S \in SUBSET Jobs, Claim(w, S)
      PROVE  QueueTypeOK'
  <2>1. ASSUME NEW j \in S
        PROVE  [jobs[j] EXCEPT !.status = "RUNNING", !.attempts = jobs[j].attempts + 1,
                               !.lockedAt = now, !.lockedBy = w] \in Row
    <3>1. jobs[j] \in Row /\ jobs[j].attempts \in 0..MaxClaims
      BY DEF Row
    <3>2. jobs[j].attempts < MaxClaims
      BY <1>2 DEF Claim, Claimable
    <3>3. jobs[j].attempts + 1 \in 0..MaxClaims
      BY <3>1, <3>2, QueueAssumption
    <3> QED
      BY <3>1, <3>3 DEF Row, Status
  <2>2. jobs' \in [Jobs -> Row]
    BY <1>2, <2>1 DEF Claim
  <2> QED
    BY <1>2, <2>2 DEF Claim
<1>3. ASSUME NEW w \in Workers, NEW j \in Jobs, Complete(w, j)
      PROVE  QueueTypeOK'
  BY <1>3 DEF Complete, Row, Status
<1>4. ASSUME NEW w \in Workers, NEW j \in Jobs, Fail(w, j)
      PROVE  QueueTypeOK'
  <2>0. now \in Nat
    BY QueueAssumption DEF Time
  <2>1. now + RetryDelay(jobs[j].attempts) \in Nat
    BY QueueAssumption DEF RetryDelay, Time
  <2>2. CASE Exhausted(j)
    <3>1. [jobs[j] EXCEPT !.status = "DEAD", !.availableAt = now,
                          !.lockedAt = NoTime, !.lockedBy = NoWorker] \in Row
      BY <2>0 DEF Row, Status
    <3>2. jobs' = [jobs EXCEPT ![j] =
                     [jobs[j] EXCEPT !.status = "DEAD", !.availableAt = now,
                                     !.lockedAt = NoTime, !.lockedBy = NoWorker]]
      BY <1>4, <2>2 DEF Fail
    <3>3. jobs' \in [Jobs -> Row]
      BY <3>1, <3>2
    <3> QED
      BY <1>4, <2>2, <3>3 DEF Fail, RecordDeadAlert
  <2>3. CASE ~Exhausted(j)
    <3>1. [jobs[j] EXCEPT !.status = "PENDING",
                          !.availableAt = now + RetryDelay(jobs[j].attempts),
                          !.lockedAt = NoTime, !.lockedBy = NoWorker] \in Row
      BY <2>1 DEF Row, Status
    <3> QED
      BY <1>4, <2>3, <3>1 DEF Fail
  <2> QED
    BY <2>2, <2>3
<1>5. ASSUME NEW w \in Workers, NEW j \in PromoteJobs, NEW h \in Handoff,
             UpdatePayload(w, j, h)
      PROVE  QueueTypeOK'
  <2>1. j \in Jobs
    BY QueueAssumption
  <2>2. [jobs[j].payload EXCEPT !.handoff = h] \in Payload
    BY <2>1 DEF Row, Payload
  <2> QED
    BY <1>5, <2>1, <2>2 DEF UpdatePayload, Row
<1>6. CASE MaterializeDeadAlerts
  BY <1>6 DEF MaterializeDeadAlerts
<1>7. CASE OwnerThreadChanges
  BY <1>7 DEF OwnerThreadChanges
<1>8. CASE Tick
  BY <1>8, QueueAssumption DEF Tick, Time
<1>9. CASE UNCHANGED queueVars
  BY <1>9 DEF queueVars
<1> QED
  BY <1>1, <1>2, <1>3, <1>4, <1>5, <1>6, <1>7, <1>8, <1>9 DEF QueueNext

\* The type invariant of the queue.
LEMMA QueueTyping == QueueSpec => []QueueTypeOK
<1>1. QueueInit => QueueTypeOK
  BY QueueAssumption
  DEF QueueTypeOK, QueueInit, AbsentRow, Row, Status, Payload, NoHandoff, Handoff, Time, NoTime
<1>2. QueueTypeOK /\ [QueueNext]_queueVars => QueueTypeOK'
  BY QueueTypingStep
<1> QED
  BY <1>1, <1>2, PTL DEF QueueSpec

-----------------------------------------------------------------------------

\* Every RPC releases the lock of a row it takes out of RUNNING, and only a job
\* with an attempt left goes back to PENDING.
THEOREM LocksAreExact == QueueSpec => []LockedIffRunning
<1> USE DEF LockExact
<1>1. QueueInit => LockedIffRunning
  BY DEF QueueInit, LockedIffRunning, AbsentRow
<1>2. QueueTypeOK /\ LockedIffRunning /\ [QueueNext]_queueVars => LockedIffRunning'
  <2> SUFFICES ASSUME QueueTypeOK, LockedIffRunning, [QueueNext]_queueVars,
                      NEW i \in Jobs
               PROVE  LockExact(i)'
    BY DEF LockedIffRunning
  <2>0. LockExact(i) /\ jobs \in [Jobs -> Row] /\ jobs[i] \in Row /\ now # NoTime
    BY QueueAssumption DEF LockedIffRunning, QueueTypeOK, Time, NoTime
  <2>1. ASSUME NEW j \in Jobs, NEW p \in Inputs, NEW at \in 0..now, Enqueue(j, p, at)
        PROVE  LockExact(i)'
    BY <2>0, <2>1, QueueAssumption DEF Enqueue
  <2>2. ASSUME NEW w \in Workers, NEW S \in SUBSET Jobs, Claim(w, S)
        PROVE  LockExact(i)'
    BY <2>0, <2>2, QueueAssumption DEF Claim, Row
  <2>3. ASSUME NEW w \in Workers, NEW j \in Jobs, Complete(w, j)
        PROVE  LockExact(i)'
    BY <2>0, <2>3 DEF Complete, Row
  <2>4. ASSUME NEW w \in Workers, NEW j \in Jobs, Fail(w, j)
        PROVE  LockExact(i)'
    <3>1. jobs'[i].attempts = jobs[i].attempts
      BY <2>0, <2>4 DEF Fail, Row
    <3>2. jobs[i].attempts \in Int /\ MaxAttempts[i] \in Int
      BY <2>0, QueueAssumption DEF Row
    <3>3. CASE Exhausted(j)
      BY <2>0, <2>4, <3>1, <3>3 DEF Fail, Row
    <3>4. CASE ~Exhausted(j)
      BY <2>0, <2>4, <3>1, <3>2, <3>4 DEF Fail, Exhausted, Row
    <3> QED
      BY <3>3, <3>4
  <2>5. ASSUME NEW w \in Workers, NEW j \in PromoteJobs, NEW h \in Handoff,
               UpdatePayload(w, j, h)
        PROVE  LockExact(i)'
    BY <2>0, <2>5, QueueAssumption DEF UpdatePayload, Row
  <2>6. CASE UNCHANGED jobs
    BY <2>0, <2>6
  <2> QED
    BY <2>1, <2>2, <2>3, <2>4, <2>5, <2>6
    DEF QueueNext, queueVars, MaterializeDeadAlerts, OwnerThreadChanges, Tick
<1> QED
  BY <1>1, <1>2, QueueTyping, PTL DEF QueueSpec

\* A job is DEAD exactly when its dead alert is on record, and the alert has its
\* event exactly when it is materialized: no death is silent or announced twice.
THEOREM DeathsAreAlerted == QueueSpec => []DeadJobsAlerted
<1> USE DEF AlertExact
<1>1. QueueInit => DeadJobsAlerted
  BY DEF QueueInit, DeadJobsAlerted, AbsentRow
<1>2. QueueTypeOK /\ DeadJobsAlerted /\ [QueueNext]_queueVars => DeadJobsAlerted'
  <2> SUFFICES ASSUME QueueTypeOK, DeadJobsAlerted, [QueueNext]_queueVars,
                      NEW i \in Jobs
               PROVE  AlertExact(i)'
    BY DEF DeadJobsAlerted
  <2>0. /\ AlertExact(i) /\ jobs \in [Jobs -> Row] /\ jobs[i] \in Row
        /\ deadAlert \in [Jobs -> {"none", "recorded", "materialized"}]
    BY DEF DeadJobsAlerted, QueueTypeOK
  <2>1. ASSUME NEW j \in Jobs, NEW p \in Inputs, NEW at \in 0..now, Enqueue(j, p, at)
        PROVE  AlertExact(i)'
    BY <2>0, <2>1 DEF Enqueue
  <2>2. ASSUME NEW w \in Workers, NEW S \in SUBSET Jobs, Claim(w, S)
        PROVE  AlertExact(i)'
    BY <2>0, <2>2 DEF Claim, Claimable, Expired, Row
  <2>3. ASSUME NEW w \in Workers, NEW j \in Jobs, Complete(w, j)
        PROVE  AlertExact(i)'
    BY <2>0, <2>3 DEF Complete, Owns, Row
  <2>4. ASSUME NEW w \in Workers, NEW j \in Jobs, Fail(w, j)
        PROVE  AlertExact(i)'
    BY <2>0, <2>4 DEF Fail, Owns, RecordDeadAlert, Row
  <2>5. ASSUME NEW w \in Workers, NEW j \in PromoteJobs, NEW h \in Handoff,
               UpdatePayload(w, j, h)
        PROVE  AlertExact(i)'
    BY <2>0, <2>5, QueueAssumption DEF UpdatePayload, Row
  <2>6. CASE MaterializeDeadAlerts
    BY <2>0, <2>6 DEF MaterializeDeadAlerts
  <2>7. CASE UNCHANGED <<jobs, deadAlert, deadEvents>>
    BY <2>0, <2>7
  <2> QED
    BY <2>1, <2>2, <2>3, <2>4, <2>5, <2>6, <2>7
    DEF QueueNext, queueVars, OwnerThreadChanges, Tick
<1> QED
  BY <1>1, <1>2, QueueTyping, PTL DEF QueueSpec

-----------------------------------------------------------------------------

\* A handoff names a story and carries the explicit snapshot of its root.
THEOREM HandoffsKeepRootSnapshot == QueueSpec => []HandoffKeepsRootSnapshot
<1> USE DEF HandoffExact
<1>1. QueueInit => HandoffKeepsRootSnapshot
  BY DEF QueueInit, HandoffKeepsRootSnapshot, AbsentRow
<1>2. QueueTypeOK /\ HandoffKeepsRootSnapshot /\ [QueueNext]_queueVars
      => HandoffKeepsRootSnapshot'
  <2> SUFFICES ASSUME QueueTypeOK, HandoffKeepsRootSnapshot, [QueueNext]_queueVars,
                      NEW i \in Jobs
               PROVE  HandoffExact(i)'
    BY DEF HandoffKeepsRootSnapshot
  <2>0. HandoffExact(i) /\ jobs \in [Jobs -> Row] /\ jobs[i] \in Row
    BY DEF HandoffKeepsRootSnapshot, QueueTypeOK
  <2>1. ASSUME NEW j \in Jobs, NEW p \in Inputs, NEW at \in 0..now, Enqueue(j, p, at)
        PROVE  HandoffExact(i)'
    BY <2>0, <2>1, InputAssumption DEF Enqueue
  <2>2. ASSUME NEW j \in PromoteJobs, NEW w \in Workers, NEW h \in Handoff,
               UpdatePayload(w, j, h)
        PROVE  HandoffExact(i)'
    <3>1. CASE i = j
      <4>1. jobs'[i].payload = [jobs[i].payload EXCEPT !.handoff = h]
        BY <2>0, <2>2, <3>1 DEF UpdatePayload, Row
      <4>2. jobs'[i].payload.handoff = h /\ jobs'[i].payload.asOf = jobs[i].payload.asOf
        BY <2>0, <4>1 DEF Row, Payload
      <4>3. jobs'[i].status = "RUNNING"
        BY <2>0, <2>2, <3>1 DEF UpdatePayload, Owns, Row
      <4> QED
        BY <2>2, <3>1, <4>2, <4>3 DEF UpdatePayload, MayPatch
    <3>2. CASE i # j
      BY <2>0, <2>2, <3>2 DEF UpdatePayload
    <3> QED
      BY <3>1, <3>2
  <2>3. ASSUME NEW w \in Workers, NEW S \in SUBSET Jobs, Claim(w, S)
        PROVE  HandoffExact(i)'
    <3>1. jobs'[i].payload = jobs[i].payload
      BY <2>0, <2>3 DEF Claim, Row
    <3>2. jobs'[i].status \in {jobs[i].status, "RUNNING"}
      BY <2>0, <2>3 DEF Claim, Row
    <3> QED
      BY <2>0, <3>1, <3>2
  <2>4. ASSUME NEW w \in Workers, NEW j \in Jobs, Complete(w, j)
        PROVE  HandoffExact(i)'
    <3>1. jobs'[i].payload = jobs[i].payload
      BY <2>0, <2>4 DEF Complete, Row
    <3>2. jobs'[i].status \in {jobs[i].status, "SUCCEEDED"}
      BY <2>0, <2>4 DEF Complete, Row
    <3> QED
      BY <2>0, <3>1, <3>2
  <2>5. ASSUME NEW w \in Workers, NEW j \in Jobs, Fail(w, j)
        PROVE  HandoffExact(i)'
    <3>1. jobs'[i].payload = jobs[i].payload
      BY <2>0, <2>5 DEF Fail, Row
    <3>2. jobs'[i].status \in {jobs[i].status, "DEAD", "PENDING"}
      BY <2>0, <2>5 DEF Fail, Row
    <3> QED
      BY <2>0, <3>1, <3>2
  <2>6. CASE UNCHANGED jobs
    BY <2>0, <2>6
  <2> QED
    BY <2>1, <2>2, <2>3, <2>4, <2>5, <2>6
    DEF QueueNext, queueVars, MaterializeDeadAlerts, OwnerThreadChanges, Tick
<1> QED
  BY <1>1, <1>2, QueueTyping, PTL DEF QueueSpec

-----------------------------------------------------------------------------

\* A finished row never changes again, and a RUNNING job changes hands only
\* after a full lease.
THEOREM OwnershipIsRespected == QueueSpec => OwnershipRespected
<1>1. QueueTypeOK /\ DeadJobsAlerted /\ [QueueNext]_queueVars
      => [\A j \in Jobs : KeepsOwner(j)]_queueVars
  <2> SUFFICES ASSUME QueueTypeOK, QueueNext, NEW i \in Jobs
               PROVE  KeepsOwner(i)
    OBVIOUS
  <2> USE DEF KeepsOwner
  <2>0. jobs \in [Jobs -> Row] /\ jobs[i] \in Row
    BY DEF QueueTypeOK
  <2>1. ASSUME NEW j \in Jobs, NEW p \in Inputs, NEW at \in 0..now, Enqueue(j, p, at)
        PROVE  KeepsOwner(i)
    BY <2>0, <2>1 DEF Enqueue
  <2>2. ASSUME NEW w \in Workers, NEW S \in SUBSET Jobs, Claim(w, S)
        PROVE  KeepsOwner(i)
    BY <2>0, <2>2 DEF Claim, Claimable, Expired
  <2>3. ASSUME NEW w \in Workers, NEW j \in Jobs, Complete(w, j)
        PROVE  KeepsOwner(i)
    BY <2>0, <2>3 DEF Complete, Owns, Row
  <2>4. ASSUME NEW w \in Workers, NEW j \in Jobs, Fail(w, j)
        PROVE  KeepsOwner(i)
    BY <2>0, <2>4 DEF Fail, Owns, Row
  <2>5. ASSUME NEW w \in Workers, NEW j \in PromoteJobs, NEW h \in Handoff,
               UpdatePayload(w, j, h)
        PROVE  KeepsOwner(i)
    BY <2>0, <2>5, QueueAssumption DEF UpdatePayload, Owns, Row
  <2>6. CASE UNCHANGED jobs
    BY <2>6
  <2> QED
    BY <2>1, <2>2, <2>3, <2>4, <2>5, <2>6
    DEF QueueNext, MaterializeDeadAlerts, OwnerThreadChanges, Tick
<1> QED
  BY <1>1, QueueTyping, DeathsAreAlerted, PTL DEF QueueSpec, OwnershipRespected

\* A recorded handoff survives retries, lease reclaims and late workers.
THEOREM HandoffsAreImmutable == QueueSpec => HandoffImmutable
<1>1. QueueTypeOK /\ HandoffKeepsRootSnapshot /\ [QueueNext]_queueVars
      => [\A j \in Jobs : KeepsHandoff(j)]_queueVars
  <2> SUFFICES ASSUME QueueTypeOK, HandoffKeepsRootSnapshot, QueueNext, NEW i \in Jobs
               PROVE  KeepsHandoff(i)
    OBVIOUS
  <2> USE DEF KeepsHandoff
  <2>0. jobs \in [Jobs -> Row] /\ jobs[i] \in Row /\ HandoffExact(i)
    BY DEF QueueTypeOK, HandoffKeepsRootSnapshot
  <2>1. ASSUME NEW j \in Jobs, NEW p \in Inputs, NEW at \in 0..now, Enqueue(j, p, at)
        PROVE  KeepsHandoff(i)
    BY <2>0, <2>1 DEF Enqueue, HandoffExact
  <2>2. ASSUME NEW w \in Workers, NEW S \in SUBSET Jobs, Claim(w, S)
        PROVE  KeepsHandoff(i)
    BY <2>0, <2>2 DEF Claim, Row
  <2>3. ASSUME NEW w \in Workers, NEW j \in Jobs, Complete(w, j)
        PROVE  KeepsHandoff(i)
    BY <2>0, <2>3 DEF Complete, Row
  <2>4. ASSUME NEW w \in Workers, NEW j \in Jobs, Fail(w, j)
        PROVE  KeepsHandoff(i)
    BY <2>0, <2>4 DEF Fail, Row
  <2>5. ASSUME NEW j \in PromoteJobs, NEW w \in Workers, NEW h \in Handoff,
               UpdatePayload(w, j, h)
        PROVE  KeepsHandoff(i)
    <3>1. CASE i = j
      <4>1. jobs'[i].payload = [jobs[i].payload EXCEPT !.handoff = h]
        BY <2>0, <2>5, <3>1 DEF UpdatePayload, Row
      <4>2. jobs'[i].payload.handoff = h
        BY <2>0, <4>1 DEF Row, Payload
      <4> QED
        BY <2>5, <3>1, <4>2 DEF UpdatePayload, MayPatch
    <3>2. CASE i # j
      BY <2>0, <2>5, <3>2 DEF UpdatePayload
    <3> QED
      BY <3>1, <3>2
  <2>6. CASE UNCHANGED jobs
    BY <2>6
  <2> QED
    BY <2>1, <2>2, <2>3, <2>4, <2>5, <2>6
    DEF QueueNext, MaterializeDeadAlerts, OwnerThreadChanges, Tick
<1> QED
  BY <1>1, QueueTyping, HandoffsKeepRootSnapshot, PTL DEF QueueSpec, HandoffImmutable

-----------------------------------------------------------------------------

\* A dedupe key that was never enqueued has no lock and no claims.
Blank(j) == jobs[j].status = "ABSENT" =>
              /\ jobs[j].lockedBy = NoWorker /\ jobs[j].attempts = 0
              /\ deadAlert[j] = "none"

BlankRows == \A j \in Jobs : Blank(j)

LEMMA AbsentRowsAreBlank == QueueSpec => []BlankRows
<1> USE DEF Blank
<1>1. QueueInit => BlankRows
  BY DEF QueueInit, BlankRows, AbsentRow
<1>2. QueueTypeOK /\ BlankRows /\ [QueueNext]_queueVars => BlankRows'
  <2> SUFFICES ASSUME QueueTypeOK, BlankRows, [QueueNext]_queueVars, NEW i \in Jobs
               PROVE  Blank(i)'
    BY DEF BlankRows
  <2>0. /\ jobs \in [Jobs -> Row] /\ jobs[i] \in Row /\ Blank(i)
        /\ deadAlert \in [Jobs -> {"none", "recorded", "materialized"}]
    BY DEF QueueTypeOK, BlankRows
  <2>1. ASSUME NEW j \in Jobs, NEW p \in Inputs, NEW at \in 0..now, Enqueue(j, p, at)
        PROVE  Blank(i)'
    BY <2>0, <2>1 DEF Enqueue
  <2>2. ASSUME NEW w \in Workers, NEW S \in SUBSET Jobs, Claim(w, S)
        PROVE  Blank(i)'
    BY <2>0, <2>2 DEF Claim, Row
  <2>3. ASSUME NEW w \in Workers, NEW j \in Jobs, Complete(w, j)
        PROVE  Blank(i)'
    BY <2>0, <2>3 DEF Complete, Row
  <2>4. ASSUME NEW w \in Workers, NEW j \in Jobs, Fail(w, j)
        PROVE  Blank(i)'
    BY <2>0, <2>4 DEF Fail, RecordDeadAlert, Row
  <2>5. ASSUME NEW w \in Workers, NEW j \in PromoteJobs, NEW h \in Handoff,
               UpdatePayload(w, j, h)
        PROVE  Blank(i)'
    BY <2>0, <2>5, QueueAssumption DEF UpdatePayload, Row
  <2>6. CASE MaterializeDeadAlerts
    BY <2>0, <2>6 DEF MaterializeDeadAlerts
  <2>7. CASE UNCHANGED <<jobs, deadAlert>>
    BY <2>0, <2>7
  <2> QED
    BY <2>1, <2>2, <2>3, <2>4, <2>5, <2>6, <2>7
    DEF QueueNext, queueVars, OwnerThreadChanges, Tick
<1> QED
  BY <1>1, <1>2, QueueTyping, PTL DEF QueueSpec

\* The queue implements the lifecycle promised to the pipeline: every RPC is a
\* step of JobLifecycle or leaves it alone.
THEOREM QueueImplementsLifecycle == QueueSpec => ImplementsLifecycle
<1>1. QueueInit => Lifecycle!LifecycleInit
  BY DEF QueueInit, Lifecycle!LifecycleInit, AbsentRow, Phase
<1>2. QueueTypeOK /\ BlankRows /\ [QueueNext]_queueVars
      => [Lifecycle!LifecycleNext]_(Lifecycle!lifecycleVars)
  <2> SUFFICES ASSUME QueueTypeOK, BlankRows, [QueueNext]_queueVars
               PROVE  Lifecycle!LifecycleNext \/ UNCHANGED Lifecycle!lifecycleVars
    OBVIOUS
  <2>0. jobs \in [Jobs -> Row] /\ \A i \in Jobs : jobs[i] \in Row
    BY DEF QueueTypeOK
  <2>1. ASSUME NEW j \in Jobs, NEW p \in Inputs, NEW at \in 0..now, Enqueue(j, p, at)
        PROVE  Lifecycle!Submit(j) \/ UNCHANGED Lifecycle!lifecycleVars
    <3>1. CASE jobs[j].status = "ABSENT"
      <4>1. \A i \in Jobs :
              /\ jobs'[i].status = IF i = j THEN "PENDING" ELSE jobs[i].status
              /\ jobs'[i].lockedBy = jobs[i].lockedBy
              /\ jobs'[i].attempts = jobs[i].attempts
        BY <2>0, <2>1, <3>1 DEF Enqueue, BlankRows, Blank
      <4>2. UNCHANGED deadAlert
        BY <2>1 DEF Enqueue
      <4>3. /\ Phase[jobs[j].status] = "none"
            /\ \A i \in Jobs : Phase[jobs'[i].status] =
                 IF i = j THEN "queued" ELSE Phase[jobs[i].status]
        BY <3>1, <4>1 DEF Phase
      <4> QED
        BY <4>1, <4>2, <4>3 DEF Lifecycle!Submit
    <3>2. CASE jobs[j].status # "ABSENT"
      BY <2>0, <2>1, <3>2 DEF Enqueue, Lifecycle!lifecycleVars
    <3> QED
      BY <3>1, <3>2
  <2>2. ASSUME NEW w \in Workers, NEW S \in SUBSET Jobs, Claim(w, S)
        PROVE  Lifecycle!Take(w, S)
    <3>1. \A i \in S : jobs[i].status \in {"PENDING", "RUNNING"}
      BY <2>2 DEF Claim, Claimable, Expired
    <3>2. \A i \in Jobs :
            /\ jobs'[i].status = IF i \in S THEN "RUNNING" ELSE jobs[i].status
            /\ jobs'[i].lockedBy = IF i \in S THEN w ELSE jobs[i].lockedBy
            /\ jobs'[i].attempts = IF i \in S THEN jobs[i].attempts + 1 ELSE jobs[i].attempts
      BY <2>0, <2>2 DEF Claim, Row
    <3>3. UNCHANGED deadAlert
      BY <2>2 DEF Claim
    <3> QED
      BY <2>0, <3>1, <3>2, <3>3 DEF Lifecycle!Take, Phase
  <2>3. ASSUME NEW w \in Workers, NEW j \in Jobs, Complete(w, j)
        PROVE  Lifecycle!Finish(w, j)
    <3>1. \A i \in Jobs :
            /\ jobs'[i].status = IF i = j THEN "SUCCEEDED" ELSE jobs[i].status
            /\ jobs'[i].lockedBy = IF i = j THEN NoWorker ELSE jobs[i].lockedBy
            /\ jobs'[i].attempts = jobs[i].attempts
      BY <2>0, <2>3 DEF Complete, Row
    <3>2. UNCHANGED deadAlert /\ Owns(w, j)
      BY <2>3 DEF Complete
    <3>3. Lifecycle!Release(j, "done")
      <4>1. \A i \in Jobs : Phase[jobs'[i].status] =
             IF i = j THEN "done" ELSE Phase[jobs[i].status]
        BY <3>1 DEF Phase
      <4> QED
        BY <3>1, <4>1 DEF Lifecycle!Release
    <3>4. Lifecycle!Holds(w, j)
      BY <3>2 DEF Lifecycle!Holds, Owns, Phase
    <3> QED
      BY <3>2, <3>3, <3>4 DEF Lifecycle!Finish
  <2>4. ASSUME NEW w \in Workers, NEW j \in Jobs, Fail(w, j)
        PROVE  Lifecycle!GiveBack(w, j) \/ Lifecycle!Bury(w, j)
    <3>1. \A i \in Jobs :
            /\ jobs'[i].status = IF i = j THEN IF Exhausted(j) THEN "DEAD" ELSE "PENDING"
                                 ELSE jobs[i].status
            /\ jobs'[i].lockedBy = IF i = j THEN NoWorker ELSE jobs[i].lockedBy
            /\ jobs'[i].attempts = jobs[i].attempts
      BY <2>0, <2>4 DEF Fail, Row
    <3>2. Lifecycle!Holds(w, j)
      BY <2>4 DEF Fail, Lifecycle!Holds, Owns, Phase
    <3>3. CASE Exhausted(j)
      <4>1. Lifecycle!Release(j, "dead")
        <5>1. \A i \in Jobs : Phase[jobs'[i].status] =
               IF i = j THEN "dead" ELSE Phase[jobs[i].status]
          BY <3>1, <3>3 DEF Phase
        <5> QED
          BY <3>1, <5>1 DEF Lifecycle!Release
      <4>2. deadAlert' = [deadAlert EXCEPT ![j] =
                            IF ownerThread THEN "materialized" ELSE "recorded"]
        BY <2>4, <3>3 DEF Fail, RecordDeadAlert
      <4>3. {i \in Jobs : deadAlert'[i] # "none"} = {i \in Jobs : deadAlert[i] # "none"} \cup {j}
        <5>1. \A i \in Jobs : deadAlert'[i] # "none" <=> i = j \/ deadAlert[i] # "none"
          BY <4>2 DEF QueueTypeOK
        <5> QED
          BY <5>1
      <4>4. jobs[j].attempts >= MaxAttempts[j]
        BY <3>3 DEF Exhausted
      <4> QED
        BY <3>2, <4>1, <4>3, <4>4 DEF Lifecycle!Bury
    <3>4. CASE ~Exhausted(j)
      <4>1. Lifecycle!Release(j, "queued")
        <5>1. \A i \in Jobs : Phase[jobs'[i].status] =
               IF i = j THEN "queued" ELSE Phase[jobs[i].status]
          BY <3>1, <3>4 DEF Phase
        <5> QED
          BY <3>1, <5>1 DEF Lifecycle!Release
      <4>2. UNCHANGED deadAlert
        BY <2>4, <3>4 DEF Fail
      <4>3. jobs[j].attempts < MaxAttempts[j]
        BY <2>0, <3>4, QueueAssumption DEF Exhausted, Row
      <4> QED
        BY <3>2, <4>1, <4>2, <4>3 DEF Lifecycle!GiveBack
    <3> QED
      BY <3>3, <3>4
  <2>5. ASSUME NEW w \in Workers, NEW j \in PromoteJobs, NEW h \in Handoff,
               UpdatePayload(w, j, h)
        PROVE  UNCHANGED Lifecycle!lifecycleVars
    <3>1. \A i \in Jobs : /\ jobs'[i].status = jobs[i].status
                          /\ jobs'[i].lockedBy = jobs[i].lockedBy
                          /\ jobs'[i].attempts = jobs[i].attempts
      BY <2>0, <2>5, QueueAssumption DEF UpdatePayload, Row
    <3>2. UNCHANGED deadAlert
      BY <2>5 DEF UpdatePayload
    <3> QED
      BY <3>1, <3>2 DEF Lifecycle!lifecycleVars
  <2>6. CASE MaterializeDeadAlerts
    <3>1. {i \in Jobs : deadAlert'[i] # "none"} = {i \in Jobs : deadAlert[i] # "none"}
      BY <2>6 DEF MaterializeDeadAlerts
    <3> QED
      BY <2>6, <3>1 DEF MaterializeDeadAlerts, Lifecycle!lifecycleVars
  <2>7. CASE UNCHANGED <<jobs, deadAlert>>
    BY <2>7 DEF Lifecycle!lifecycleVars
  <2> QED
    BY <2>1, <2>2, <2>3, <2>4, <2>5, <2>6, <2>7
    DEF QueueNext, queueVars, OwnerThreadChanges, Tick, Lifecycle!LifecycleNext
<1> QED
  BY <1>1, <1>2, QueueTyping, AbsentRowsAreBlank, PTL
  DEF QueueSpec, ImplementsLifecycle, Lifecycle!LifecycleSpec

-----------------------------------------------------------------------------
(* The worker. *)


TaskLists == UNION {[S -> Task] : S \in SUBSET Jobs}
TasksTyped == task \in [Workers -> TaskLists]

\* The transition of a job that is not the end of its chain: to a key of the chain
\* that succeeds the job, with a payload the queue takes; a grounding job works on
\* what its promotion, or the page before it, worked on.
Leads(j, seen, n) ==
  /\ n.key \in Jobs /\ n.key \in Successors(j) /\ n.payload \in Inputs
  /\ j \in PromoteJobs => n.key.type = "GROUND_CLAIMS"
  /\ n.key.type = "GROUND_CLAIMS" /\ j \notin PromoteJobs =>
       j.type = "GROUND_CLAIMS" /\ n.payload.ids = seen.ids /\ n.payload.asOf = seen.asOf

\* What a request holds for a job it has claimed.
Sound(t, j) ==
  /\ t.since <= now
  /\ j \in PromoteJobs \/ t.seen.handoff = NoHandoff
  /\ t.pc = "handoff" => j \in PromoteJobs
  /\ t.pc \in {"handoff", "enqueue"} => Leads(j, t.seen, t.next)

TasksSound == \A w \in Workers : \A j \in DOMAIN task[w] : Sound(task[w][j], j)

PlainPayloads == \A j \in Jobs \ PromoteJobs : jobs[j].payload.handoff = NoHandoff

WorkerInv == QueueTypeOK /\ TasksTyped /\ TasksSound /\ PlainPayloads

\* A step that leaves every task alone but that of w for j.
Moves(w, j, t) ==
  /\ task'[w][j] = t /\ DOMAIN task'[w] = DOMAIN task[w]
  /\ \A i \in DOMAIN task[w] \ {j} : task'[w][i] = task[w][i]
  /\ \A v \in Workers \ {w} : task'[v] = task[v]

\* A step that drops the task of w for j.
Drops(w, j) ==
  /\ DOMAIN task'[w] = DOMAIN task[w] \ {j}
  /\ \A i \in DOMAIN task[w] \ {j} : task'[w][i] = task[w][i]
  /\ \A v \in Workers \ {w} : task'[v] = task[v]

-----------------------------------------------------------------------------
(* Keys and transitions.                                                   *)

LEMMA TasksAreTyped ==
  ASSUME TasksTyped, NEW w \in Workers, NEW j \in DOMAIN task[w]
  PROVE  j \in Jobs /\ task[w][j] \in Task
<1>1. PICK S \in SUBSET Jobs : task[w] \in [S -> Task]
  BY DEF TasksTyped, TaskLists
<1> QED
  BY <1>1

LEMMA TaskMoves ==
  ASSUME TasksTyped, NEW w \in Workers, NEW j \in DOMAIN task[w], NEW t \in Task,
         task' = [task EXCEPT ![w][j] = t]
  PROVE  TasksTyped' /\ Moves(w, j, t)
<1>1. PICK S \in SUBSET Jobs : task[w] \in [S -> Task]
  BY DEF TasksTyped, TaskLists
<1> DEFINE f == [task[w] EXCEPT ![j] = t]
<1>2. task' = [task EXCEPT ![w] = f]
  OBVIOUS
<1>3. /\ f \in [S -> Task] /\ f[j] = t /\ DOMAIN f = DOMAIN task[w]
      /\ \A i \in DOMAIN task[w] \ {j} : f[i] = task[w][i]
  BY <1>1
<1> HIDE DEF f
<1>4. f \in TaskLists
  BY <1>3 DEF TaskLists
<1> QED
  BY <1>2, <1>3, <1>4 DEF TasksTyped, Moves

LEMMA TaskDrops ==
  ASSUME TasksTyped, NEW w \in Workers, NEW j, Done(w, j)
  PROVE  TasksTyped' /\ Drops(w, j)
<1>1. PICK S \in SUBSET Jobs : task[w] \in [S -> Task]
  BY DEF TasksTyped, TaskLists
<1> DEFINE f == [i \in DOMAIN task[w] \ {j} |-> task[w][i]]
<1>2. task' = [task EXCEPT ![w] = f]
  BY DEF Done
<1>3. f \in [S \ {j} -> Task]
  BY <1>1
<1>4. f \in TaskLists
  BY <1>3 DEF TaskLists
<1>5. DOMAIN f = DOMAIN task[w] \ {j} /\ \A i \in DOMAIN task[w] \ {j} : f[i] = task[w][i]
  OBVIOUS
<1> HIDE DEF f
<1> QED
  BY <1>2, <1>4, <1>5 DEF TasksTyped, Drops

\* The payload of a request that goes on is read again only to enqueue.
LEMMA GotoMoves ==
  ASSUME TasksTyped, NEW w \in Workers, NEW j \in DOMAIN task[w], NEW pc \in Steps,
         Goto(w, j, pc)
  PROVE  \E t \in Task :
           /\ TasksTyped' /\ Moves(w, j, t) /\ t.pc = pc /\ t.since = task[w][j].since
           /\ pc = "enqueue" => t.seen = task[w][j].seen /\ t.next = task[w][j].next
           /\ pc # "enqueue" => t.seen = EmptyPayload
<1>1. task[w][j] \in Task
  BY TasksAreTyped
<1>2. EmptyPayload \in Payload /\ NoNext \in Transition
  BY DEF EmptyPayload, AbsentRow, Payload, Handoff, NoHandoff, NoTime, NoNext, Transition
<1> DEFINE t == IF pc = "enqueue" THEN [task[w][j] EXCEPT !.pc = pc]
                ELSE [pc |-> pc, since |-> task[w][j].since, seen |-> EmptyPayload, next |-> NoNext]
<1>3. task' = [task EXCEPT ![w][j] = t]
  BY DEF Goto
<1>4. /\ t \in Task /\ t.pc = pc /\ t.since = task[w][j].since
      /\ pc = "enqueue" => t.seen = task[w][j].seen /\ t.next = task[w][j].next
      /\ pc # "enqueue" => t.seen = EmptyPayload
  BY <1>1, <1>2 DEF Task
<1> HIDE DEF t
<1>5. TasksTyped' /\ Moves(w, j, t)
  BY <1>3, <1>4, TaskMoves
<1> QED
  BY <1>4, <1>5

\* A key has the chain, the type and the page it is made of.
LEMMA KeysAreMade ==
  ASSUME NEW chain, NEW type, NEW page
  PROVE  /\ Key(chain, type, page).chain = chain
         /\ Key(chain, type, page).type = type
         /\ Key(chain, type, page).page = page
BY DEF Key

\* What succeeds a job of a stage that is not a grounding is the first page of the
\* next stage.
LEMMA SuccessorsAreNext ==
  ASSUME NEW j \in Jobs, NEW k \in Successors(j), j.type # "GROUND_CLAIMS",
         NEXT_STAGE[j.type] # "GROUND_CLAIMS"
  PROVE  k = Key(j.chain, NEXT_STAGE[j.type], 0)
<1>1. k \in Jobs /\ k.chain = j.chain /\ k.type = NEXT_STAGE[j.type]
  BY DEF Successors
<1>2. k = Key(k.chain, k.type, k.page) /\ k.page = 0
  BY <1>1, KeyAssumption
<1> QED
  BY <1>1, <1>2

Chained == {"COLLECT_INSTAGRAM", "ANALYZE_CONTENT", "RUN_INTELLIGENCE", "DISCOVER_SOURCES",
            "DISCOVER_TRENDS", "RANK_EDITORIAL", "GENERATE_PRIORITY", "SYNC_NOTION",
            "POLL_SELECTED", "FIXTURE_SYNC"}

LEMMA StagesAreChained ==
  /\ DOMAIN NEXT_STAGE = Chained \cup {"PROMOTE_DISCOVERY", "GROUND_CLAIMS"}
  /\ \A type \in Chained : NEXT_STAGE[type] # "GROUND_CLAIMS"
  /\ NEXT_STAGE["PROMOTE_DISCOVERY"] = "GROUND_CLAIMS"
  /\ NEXT_STAGE["GROUND_CLAIMS"] = "RANK_EDITORIAL"
BY DEF NEXT_STAGE, Chained

\* A payload with a typed scope and snapshot and no handoff is an input of the queue.
LEMMA GroundingPayloads ==
  ASSUME NEW ids \in SUBSET Stories, NEW asOf \in Time \cup {NoTime}
  PROVE  /\ GroundingPayload(ids, asOf) \in Inputs
         /\ GroundingPayload(ids, asOf).ids = ids /\ GroundingPayload(ids, asOf).asOf = asOf
<1>1. NoHandoff \in Handoff
  BY DEF NoHandoff, Handoff
<1> QED
  BY <1>1, ClientAssumption DEF GroundingPayload, Payload

\* The next stage of a chain gets the payload as it is.
LEMMA StageLeads ==
  ASSUME NEW j \in Jobs, NEW seen \in Payload, seen.handoff = NoHandoff,
         j.type \in Chained \cup {"GROUND_CLAIMS"}
  PROVE  LET n == StageTransition(j, seen)
         IN  /\ n # NoNext => Leads(j, seen, n)
             /\ n = NoNext => Successors(j) = {}
<1> DEFINE n == StageTransition(j, seen)
           next == Key(j.chain, NEXT_STAGE[j.type], 0)
<1>1. NEXT_STAGE[j.type] # "GROUND_CLAIMS"
  BY StagesAreChained
<1>2. next.chain = j.chain /\ next.type = NEXT_STAGE[j.type]
  BY KeysAreMade
<1>3. j.type = "GROUND_CLAIMS" => next \in Jobs
  BY StagesAreChained, KeyAssumption
<1>4. j \notin PromoteJobs
  BY WorkerAssumption DEF Chained
<1>5. CASE next \in Jobs
  <2>1. n.key = next /\ n.payload = seen /\ n # NoNext
    BY <1>5, WorkerAssumption DEF StageTransition, NoNext
  <2>2. next \in Successors(j)
    BY <1>2, <1>5 DEF Successors
  <2>3. seen \in Inputs
    BY ClientAssumption
  <2> HIDE DEF n, next
  <2> QED
    BY <1>1, <1>2, <1>4, <1>5, <2>1, <2>2, <2>3 DEF Leads, n
<1>6. CASE next \notin Jobs
  <2>1. n = NoNext
    BY <1>6 DEF StageTransition
  <2>2. \A k \in Successors(j) : k \in Jobs /\ k = next
    BY <1>1, <1>3, <1>6, SuccessorsAreNext DEF Successors
  <2> HIDE DEF n, next
  <2> QED
    BY <1>6, <2>1, <2>2 DEF n
<1> QED
  BY <1>5, <1>6

\* What a 2xx answer leads to: a successor; or nothing, where the job has none, the
\* intelligence run goes on elsewhere, or a promotion has not touched a story.
LEMMA TransitionsLead ==
  ASSUME NEW j \in Jobs, NEW seen \in Payload, j \in PromoteJobs \/ seen.handoff = NoHandoff,
         now \in Time, NEW n \in Transitions(j, seen)
  PROVE  /\ n # NoNext => Leads(j, seen, n)
         /\ n = NoNext => \/ j.type \notin DOMAIN NEXT_STAGE \/ j.type = "RUN_INTELLIGENCE"
                          \/ Successors(j) = {}
                          \/ j \in PromoteJobs /\ seen.handoff.ids = {}
<1>0. j.type = "PROMOTE_DISCOVERY" <=> j \in PromoteJobs
  BY WorkerAssumption
<1>1. CASE j \in PromoteJobs
  <2>1. n \in PromotionTransitions(j, seen)
    BY <1>0, <1>1 DEF Transitions
  <2>2. ASSUME NEW ids \in (SUBSET Stories) \ {{}}, NEW asOf \in Time \cup {NoTime},
               n = Grounding(j, 0, ids, asOf)
        PROVE  n # NoNext /\ Leads(j, seen, n)
    <3> DEFINE key == Key(j.chain, "GROUND_CLAIMS", 0)
    <3>1. key \in Jobs /\ key.chain = j.chain /\ key.type = "GROUND_CLAIMS"
      BY <1>1, KeyAssumption, KeysAreMade
    <3>2. n.key = key /\ n.payload = GroundingPayload(ids, asOf)
      BY <2>2 DEF Grounding
    <3>3. key \in Successors(j)
      BY <1>0, <1>1, <3>1, StagesAreChained DEF Successors
    <3>4. n # NoNext
      BY <3>1, <3>2, WorkerAssumption DEF NoNext
    <3> HIDE DEF key
    <3> QED
      BY <1>1, <3>1, <3>2, <3>3, <3>4, GroundingPayloads DEF Leads
  <2>3. CASE seen.handoff.ids # {}
    <3>1. /\ seen.handoff.ids \in (SUBSET Stories) \ {{}}
          /\ AsOfFor(seen, seen.handoff.asOf) \in Time \cup {NoTime}
      BY <2>3 DEF Payload, Handoff, AsOfFor
    <3>2. n = Grounding(j, 0, seen.handoff.ids, AsOfFor(seen, seen.handoff.asOf))
      BY <2>1, <2>3 DEF PromotionTransitions
    <3> QED
      BY <2>2, <3>1, <3>2
  <2>4. CASE seen.handoff.ids = {}
    <3>1. AsOfFor(seen, now) \in Time \cup {NoTime}
      BY DEF Payload, AsOfFor
    <3>2. CASE n = NoNext
      BY <1>1, <2>4, <3>2
    <3>3. CASE n # NoNext
      <4>1. PICK ids \in (SUBSET Stories) \ {{}} : n = Grounding(j, 0, ids, AsOfFor(seen, now))
        BY <2>1, <2>4, <3>3 DEF PromotionTransitions
      <4> QED
        BY <2>2, <3>1, <4>1
    <3> QED
      BY <3>2, <3>3
  <2> QED
    BY <2>3, <2>4
<1>2. CASE j.type = "GROUND_CLAIMS"
  <2>1. j \notin PromoteJobs /\ seen.handoff = NoHandoff
    BY <1>0, <1>2
  <2>2. n \in GroundingTransitions(j, seen)
    BY <1>2 DEF Transitions
  <2>3. CASE n = StageTransition(j, seen)
    BY <1>2, <2>1, <2>3, StageLeads
  <2>4. ASSUME NEW c \in Cursors, c > j.page, n = Grounding(j, c, seen.ids, seen.asOf)
        PROVE  n # NoNext /\ Leads(j, seen, n)
    <3> DEFINE key == Key(j.chain, "GROUND_CLAIMS", c)
    <3>1. /\ key \in Jobs /\ key.chain = j.chain /\ key.type = "GROUND_CLAIMS"
          /\ key.page = c
      BY <1>2, KeyAssumption, KeysAreMade
    <3>2. n.key = key /\ n.payload = GroundingPayload(seen.ids, seen.asOf)
      BY <2>4 DEF Grounding
    <3>3. key \in Successors(j)
      BY <1>2, <2>4, <3>1 DEF Successors
    <3>4. n # NoNext
      BY <3>1, <3>2, WorkerAssumption DEF NoNext
    <3>5. /\ n.payload \in Inputs /\ n.payload.ids = seen.ids /\ n.payload.asOf = seen.asOf
      BY <3>2, GroundingPayloads DEF Payload
    <3> HIDE DEF key
    <3> QED
      BY <1>2, <2>1, <3>1, <3>2, <3>3, <3>4, <3>5 DEF Leads
  <2> QED
    BY <2>2, <2>3, <2>4 DEF GroundingTransitions
<1>3. CASE j \notin PromoteJobs /\ j.type # "GROUND_CLAIMS" /\ j.type \in DOMAIN NEXT_STAGE
  <2>1. j.type \in Chained /\ seen.handoff = NoHandoff
    BY <1>0, <1>3, StagesAreChained
  <2>2. \/ n = StageTransition(j, seen)
        \/ n = NoNext /\ j.type = "RUN_INTELLIGENCE"
    BY <1>0, <1>3 DEF Transitions
  <2> QED
    BY <2>1, <2>2, StageLeads
<1>4. CASE j.type \notin DOMAIN NEXT_STAGE
  <2>1. j.type \notin {"PROMOTE_DISCOVERY", "GROUND_CLAIMS", "RUN_INTELLIGENCE"}
    BY <1>4, StagesAreChained DEF Chained
  <2>2. n = NoNext
    BY <1>4, <2>1 DEF Transitions
  <2> QED
    BY <1>4, <2>2
<1> QED
  BY <1>1, <1>2, <1>3, <1>4

-----------------------------------------------------------------------------
(* The steps of a request.                                                 *)

LEMMA InvokeMoves ==
  ASSUME WorkerInv, NEW w \in Workers, NEW j \in DOMAIN task[w], Invoke(w, j)
  PROVE  \E n \in Transitions(j, task[w][j].seen), t \in Task :
           /\ TasksTyped' /\ Moves(w, j, t) /\ t.since = task[w][j].since
           /\ n = NoNext => t.pc = "complete" /\ t.seen = EmptyPayload
           /\ n # NoNext => /\ Leads(j, task[w][j].seen, n)
                            /\ t.seen = task[w][j].seen /\ t.next = n
                            /\ t.pc = IF j \in PromoteJobs THEN "handoff" ELSE "enqueue"
<1> USE DEF WorkerInv
<1>1. PICK n \in Transitions(j, task[w][j].seen) :
         IF n = NoNext THEN Goto(w, j, "complete")
         ELSE task' = [task EXCEPT ![w][j] = [task[w][j] EXCEPT !.next = n,
                         !.pc = IF j \in PromoteJobs THEN "handoff" ELSE "enqueue"]]
  BY DEF Invoke
<1>2. CASE n = NoNext
  BY <1>1, <1>2, GotoMoves DEF Steps
<1>3. CASE n # NoNext
  <2>1. j \in Jobs /\ task[w][j] \in Task /\ Sound(task[w][j], j)
    BY TasksAreTyped DEF TasksSound
  <2>2. Leads(j, task[w][j].seen, n)
    BY <1>3, <2>1, TransitionsLead DEF Task, Sound, QueueTypeOK
  <2>3. n \in Transition
    <3>1. n.key \in Jobs /\ n.payload \in Payload
      BY <2>2, InputAssumption DEF Leads
    <3>2. n = [key |-> n.key, payload |-> n.payload]
      <4>1. \E k, p : n = [key |-> k, payload |-> p]
        BY <1>3 DEF Transitions, PromotionTransitions, GroundingTransitions, Grounding,
                    StageTransition, NoNext
      <4> QED
        BY <4>1
    <3> QED
      BY <3>1, <3>2 DEF Transition
  <2> DEFINE t == [task[w][j] EXCEPT !.next = n,
                     !.pc = IF j \in PromoteJobs THEN "handoff" ELSE "enqueue"]
  <2>3a. task' = [task EXCEPT ![w][j] = t]
    BY <1>1, <1>3
  <2>4. /\ t \in Task /\ t.since = task[w][j].since /\ t.seen = task[w][j].seen
        /\ t.next = n /\ t.pc = IF j \in PromoteJobs THEN "handoff" ELSE "enqueue"
    BY <2>1, <2>3 DEF Task, Steps
  <2> HIDE DEF t
  <2>5. TasksTyped' /\ Moves(w, j, t)
    BY <2>3a, <2>4, TaskMoves
  <2> QED
    BY <1>3, <2>2, <2>4, <2>5
<1> QED
  BY <1>2, <1>3

\* Every other call that does not end the request's work on the job.
Onward(w, j, pc) ==
  \/ pc = "enqueue" /\ SaveHandoff(w, j)
  \/ pc = "complete" /\ EnqueueNext(w, j)
  \/ pc = "fail" /\ \/ InvokeFails(w, j) \/ HandoffRejected(w, j) \/ HandoffLost(w, j)
                    \/ EnqueueLost(w, j) \/ CompleteRejected(w, j) \/ CompleteLost(w, j)

Over(w, j) == CompleteJob(w, j) \/ FailJob(w, j) \/ FailRejected(w, j) \/ FailLost(w, j)

\* What a step is, seen from the tasks.
LEMMA StepsOfTasks ==
  ASSUME [Next]_vars
  PROVE  \/ UNCHANGED vars
         \/ \E r \in Roots : ScheduleRoot(r)
         \/ QueueStep
         \/ \E w \in Workers : \E S \in SUBSET Claimable : ClaimBatch(w, S)
         \/ \E w \in Workers : \E j \in DOMAIN task[w] :
              Invoke(w, j) \/ (\E pc \in Steps : Onward(w, j, pc)) \/ Over(w, j)
         \/ \E w \in Workers : Crash(w)
BY DEF Next, JobStep, JobFault, Onward, Over, Steps

LEMMA OnwardMoves ==
  ASSUME TasksTyped, NEW w \in Workers, NEW j \in DOMAIN task[w], NEW pc \in Steps,
         Onward(w, j, pc)
  PROVE  \E t \in Task :
           /\ TasksTyped' /\ Moves(w, j, t) /\ t.pc = pc /\ t.since = task[w][j].since
           /\ pc = "enqueue" => t.seen = task[w][j].seen /\ t.next = task[w][j].next
           /\ pc # "enqueue" => t.seen = EmptyPayload
<1>1. Goto(w, j, pc)
  BY DEF Onward, SaveHandoff, EnqueueNext, InvokeFails, HandoffRejected, HandoffLost,
         EnqueueLost, CompleteRejected, CompleteLost
<1> QED
  BY <1>1, GotoMoves

LEMMA OverDrops ==
  ASSUME TasksTyped, NEW w \in Workers, NEW j \in DOMAIN task[w], Over(w, j)
  PROVE  TasksTyped' /\ Drops(w, j)
<1>1. Done(w, j)
  BY DEF Over, CompleteJob, FailJob, FailRejected, FailLost
<1> QED
  BY <1>1, TaskDrops

LEMMA ClaimStarts ==
  ASSUME WorkerInv, NEW w \in Workers, NEW S \in SUBSET Claimable, ClaimBatch(w, S)
  PROVE  /\ TasksTyped' /\ DOMAIN task[w] = {} /\ DOMAIN task'[w] = S /\ S \subseteq Jobs
         /\ \A v \in Workers \ {w} : task'[v] = task[v]
         /\ \A j \in S : /\ task'[w][j].pc = "invoke" /\ task'[w][j].since = now
                         /\ task'[w][j].seen = jobs[j].payload
<1> USE DEF WorkerInv
<1> DEFINE f == [j \in S |-> [pc |-> "invoke", since |-> now, seen |-> jobs[j].payload,
                              next |-> NoNext]]
<1>1. S \in SUBSET Jobs
  BY DEF Claimable
<1>2. ASSUME NEW j \in S
      PROVE  [pc |-> "invoke", since |-> now, seen |-> jobs[j].payload, next |-> NoNext] \in Task
  <2>1. EmptyPayload \in Payload
    BY DEF EmptyPayload, AbsentRow, Payload, Handoff, NoHandoff, NoTime
  <2>2. jobs[j].payload \in Payload /\ now \in Time
    BY <1>1 DEF QueueTypeOK, Row
  <2> QED
    BY <2>1, <2>2 DEF Task, Steps, Transition, NoNext
<1>3. f \in [S -> Task]
  BY <1>2
<1>4. task' = [task EXCEPT ![w] = f] /\ task[w] = NoTasks
  BY DEF ClaimBatch
<1>5. f \in TaskLists
  BY <1>1, <1>3 DEF TaskLists
<1>6. DOMAIN f = S /\ \A j \in S : f[j].pc = "invoke" /\ f[j].since = now /\ f[j].seen = jobs[j].payload
  OBVIOUS
<1>7. DOMAIN task[w] = {}
  BY <1>4 DEF NoTasks
<1> HIDE DEF f
<1> QED
  BY <1>1, <1>4, <1>5, <1>6, <1>7 DEF TasksTyped

LEMMA CrashDrops ==
  ASSUME TasksTyped, NEW w \in Workers, Crash(w)
  PROVE  TasksTyped' /\ DOMAIN task'[w] = {} /\ \A v \in Workers \ {w} : task'[v] = task[v]
<1>1. NoTasks \in [{} -> Task]
  BY DEF NoTasks
<1>2. NoTasks \in TaskLists /\ DOMAIN NoTasks = {}
  BY <1>1 DEF TaskLists
<1> QED
  BY <1>2 DEF Crash, TasksTyped

\* What a step of the queue does to the row of a job.
Added(i) == ~Exists(i) /\ jobs'[i].status = "PENDING" /\ jobs'[i].payload \in Inputs

Claimed(i) ==
  /\ i \in Claimable /\ jobs'[i].payload = jobs[i].payload
  /\ jobs'[i].status = "RUNNING" /\ jobs'[i].lockedAt = now

Released(i) ==
  /\ jobs[i].status = "RUNNING" /\ jobs'[i].payload = jobs[i].payload
  /\ jobs'[i].status \in {"PENDING", "SUCCEEDED", "DEAD"}

Patched(i) ==
  /\ jobs[i].status = "RUNNING" /\ i \in PromoteJobs /\ jobs'[i].status = "RUNNING"

LEMMA RowsChange ==
  ASSUME QueueTypeOK, [QueueNext]_queueVars, NEW i \in Jobs
  PROVE  jobs'[i] = jobs[i] \/ Added(i) \/ Claimed(i) \/ Released(i) \/ Patched(i)
<1>0. jobs \in [Jobs -> Row] /\ jobs[i] \in Row
  BY DEF QueueTypeOK
<1> DEFINE Goal == jobs'[i] = jobs[i] \/ Added(i) \/ Claimed(i) \/ Released(i) \/ Patched(i)
<1>1. ASSUME NEW j \in Jobs, NEW p \in Inputs, NEW at \in 0..now, Enqueue(j, p, at)
      PROVE  Goal
  BY <1>0, <1>1 DEF Enqueue, Added, Exists
<1>2. ASSUME NEW w \in Workers, NEW S \in SUBSET Jobs, Claim(w, S)
      PROVE  Goal
  BY <1>0, <1>2 DEF Claim, Row, Claimed
<1>3. ASSUME NEW w \in Workers, NEW j \in Jobs, Complete(w, j)
      PROVE  Goal
  BY <1>0, <1>3 DEF Complete, Owns, Row, Released
<1>4. ASSUME NEW w \in Workers, NEW j \in Jobs, Fail(w, j)
      PROVE  Goal
  <2>1. \A r \in Row : /\ DOMAIN r = {"status", "attempts", "availableAt", "createdAt", "lockedAt",
                                    "lockedBy", "payload"}
    BY DEF Row
  <2>2. CASE i # j
    BY <1>0, <1>4, <2>2 DEF Fail
  <2>3. CASE i = j
    BY <1>0, <1>4, <2>1, <2>3 DEF Fail, Owns, Released
  <2> QED
    BY <2>2, <2>3
<1>5. ASSUME NEW w \in Workers, NEW j \in PromoteJobs, NEW h \in Handoff, UpdatePayload(w, j, h)
      PROVE  Goal
  BY <1>0, <1>5 DEF UpdatePayload, Owns, Row, Patched
<1>6. ASSUME MaterializeDeadAlerts \/ OwnerThreadChanges \/ Tick \/ UNCHANGED queueVars
      PROVE  Goal
  BY <1>6 DEF queueVars, MaterializeDeadAlerts, OwnerThreadChanges, Tick
<1> HIDE DEF Goal
<1>7. Goal
  BY <1>1, <1>2, <1>3, <1>4, <1>5, <1>6 DEF QueueNext
<1> QED
  BY <1>7 DEF Goal

\* Only a promotion has a handoff, and the clock does not go back.
LEMMA PlainPayloadsStay ==
  ASSUME QueueTypeOK, PlainPayloads, [QueueNext]_queueVars
  PROVE  PlainPayloads' /\ now <= now'
<1>0. now \in Nat
  BY QueueAssumption DEF QueueTypeOK, Time
<1>1. PlainPayloads'
  BY RowsChange, InputAssumption DEF PlainPayloads, Added, Claimed, Released, Patched
<1>2. now' = now \/ now' = now + 1
  BY DEF QueueNext, queueVars, Enqueue, Claim, Complete, Fail, UpdatePayload,
         MaterializeDeadAlerts, OwnerThreadChanges, Tick
<1> QED
  BY <1>0, <1>1, <1>2

\* The calls a request makes for the job i leave every other job it does not own,
\* or they leave its row.
QueueCall(v, i) ==
  \/ \E k \in Jobs, p \in Inputs, at \in 0..now : Enqueue(k, p, at)
  \/ \E h \in Handoff : UpdatePayload(v, i, h)
  \/ Complete(v, i) \/ Fail(v, i)
  \/ UNCHANGED queueVars

LEMMA OthersKeepRows ==
  ASSUME QueueTypeOK, NEW v \in Workers, NEW i \in Jobs, QueueCall(v, i),
         NEW w \in Workers, NEW j \in Jobs, w # v \/ j # i
  PROVE  jobs'[j] = jobs[j] \/ (~Owns(w, j) /\ ~Owns(w, j)')
<1>0. jobs \in [Jobs -> Row] /\ jobs[j] \in Row /\ jobs[i] \in Row
  BY DEF QueueTypeOK
<1> DEFINE Goal == jobs'[j] = jobs[j] \/ (~Owns(w, j) /\ ~(jobs'[j].status = "RUNNING" /\ jobs'[j].lockedBy = w))
<1>1. ASSUME NEW k \in Jobs, NEW p \in Inputs, NEW at \in 0..now, Enqueue(k, p, at)
      PROVE  Goal
  BY <1>0, <1>1 DEF Enqueue, Owns
<1>2. ASSUME NEW h \in Handoff, UpdatePayload(v, i, h)
      PROVE  Goal
  BY <1>0, <1>2 DEF UpdatePayload, Owns, Row
<1>3. ASSUME Complete(v, i)
      PROVE  Goal
  BY <1>0, <1>3 DEF Complete, Owns, Row
<1>4. ASSUME Fail(v, i)
      PROVE  Goal
  <2>1. CASE j # i
    BY <1>0, <1>4, <2>1 DEF Fail
  <2>2. CASE j = i
    <3>1. jobs'[i].status \in {"PENDING", "DEAD"}
      BY <1>0, <1>4 DEF Fail, Row
    <3> QED
      BY <1>4, <2>2, <3>1 DEF Fail, Owns
  <2> QED
    BY <2>1, <2>2
<1>5. ASSUME UNCHANGED queueVars
      PROVE  Goal
  BY <1>5 DEF queueVars
<1> HIDE DEF Goal
<1>6. Goal
  BY <1>1, <1>2, <1>3, <1>4, <1>5 DEF QueueCall
<1> QED
  BY <1>6 DEF Goal, Owns

\* What each call of a request is to the queue.
LEMMA CallsOfRequests ==
  ASSUME WorkerInv, NEW w \in Workers, NEW j \in DOMAIN task[w],
         Invoke(w, j) \/ (\E pc \in Steps : Onward(w, j, pc)) \/ Over(w, j)
  PROVE  QueueCall(w, j)
<1> USE DEF WorkerInv, QueueCall
<1>1. ASSUME At(w, j, "enqueue"),
             Enqueue(task[w][j].next.key, task[w][j].next.payload, task[w][j].since)
      PROVE  QueueCall(w, j)
  <2>1. task[w][j] \in Task /\ Sound(task[w][j], j)
    BY TasksAreTyped DEF TasksSound
  <2>2. task[w][j].next.key \in Jobs /\ task[w][j].next.payload \in Inputs
    BY <1>1, <2>1 DEF Sound, Leads, At
  <2>3. task[w][j].since \in 0..now
    BY <2>1, QueueAssumption DEF Sound, Task, Time, QueueTypeOK
  <2> QED
    BY <1>1, <2>2, <2>3
<1>2. ASSUME At(w, j, "handoff"), UpdatePayload(w, j, HandoffOf(task[w][j].next))
      PROVE  QueueCall(w, j) /\ j \in PromoteJobs
  <2>1. Sound(task[w][j], j)
    BY DEF TasksSound
  <2>2. j \in PromoteJobs /\ task[w][j].next.payload \in Payload
    BY <1>2, <2>1, InputAssumption DEF Sound, Leads, At
  <2>3. HandoffOf(task[w][j].next) \in Handoff
    BY <2>2 DEF HandoffOf, Payload, Handoff
  <2> QED
    BY <1>2, <2>2, <2>3
<1> HIDE DEF QueueCall
<1>3. ASSUME Complete(w, j) \/ Fail(w, j) \/ UNCHANGED queueVars
      PROVE  QueueCall(w, j)
  BY <1>3 DEF QueueCall
<1>4. ASSUME NEW pc \in Steps, Onward(w, j, pc)
      PROVE  QueueCall(w, j)
  BY <1>1, <1>2, <1>3, <1>4
  DEF Onward, SaveHandoff, EnqueueNext, InvokeFails, HandoffRejected, HandoffLost,
      EnqueueLost, CompleteRejected, CompleteLost
<1>5. ASSUME Over(w, j)
      PROVE  QueueCall(w, j)
  BY <1>3, <1>5 DEF Over, CompleteJob, FailJob, FailRejected, FailLost
<1>6. ASSUME Invoke(w, j)
      PROVE  QueueCall(w, j)
  BY <1>3, <1>6 DEF Invoke
<1> QED
  BY <1>4, <1>5, <1>6

\* The queue takes every call of a request for one of its own RPCs.
LEMMA StepsOfQueue ==
  ASSUME WorkerInv, [Next]_vars
  PROVE  [QueueNext]_queueVars
<1> USE DEF WorkerInv
<1>1. ASSUME NEW r \in Roots, ScheduleRoot(r)
      PROVE  QueueNext
  <2>1. r.key \in Jobs /\ r.asOf \in Time \cup {NoTime}
    BY WorkerAssumption
  <2>2. {} \in SUBSET Stories
    OBVIOUS
  <2>3. GroundingPayload({}, r.asOf) \in Inputs
    BY <2>1, <2>2, GroundingPayloads
  <2>4. now \in 0..now
    BY QueueAssumption DEF QueueTypeOK, Time
  <2> QED
    BY <1>1, <2>1, <2>3, <2>4 DEF ScheduleRoot, QueueNext
<1>2. ASSUME NEW w \in Workers, NEW S \in SUBSET Claimable, ClaimBatch(w, S)
      PROVE  QueueNext
  BY <1>2 DEF ClaimBatch, Claimable, QueueNext
<1>3. ASSUME NEW w \in Workers, NEW j \in DOMAIN task[w],
             Invoke(w, j) \/ (\E pc \in Steps : Onward(w, j, pc)) \/ Over(w, j)
      PROVE  [QueueNext]_queueVars
  <2>1. j \in Jobs /\ QueueCall(w, j)
    BY <1>3, CallsOfRequests, TasksAreTyped
  <2>2. ASSUME NEW h \in Handoff, UpdatePayload(w, j, h)
        PROVE  QueueNext
    BY <2>2 DEF UpdatePayload, QueueNext
  <2> QED
    BY <2>1, <2>2 DEF QueueCall, QueueNext
<1>4. ASSUME QueueStep \/ UNCHANGED vars \/ \E w \in Workers : Crash(w)
      PROVE  [QueueNext]_queueVars
  BY <1>4 DEF QueueStep, QueueNext, Crash, vars
<1> QED
  BY <1>1, <1>2, <1>3, <1>4, StepsOfTasks

\* What becomes of the task of w for j, and of the row of j while it does: it starts
\* with a claim, it goes on with a call, or it waits, and then w's row stays as it is
\* or is taken over by another claim after its lease.
Started(w, j) ==
  /\ Claimed(j) /\ jobs'[j].lockedBy = w
  /\ task'[w][j].pc = "invoke" /\ task'[w][j].since = now
  /\ task'[w][j].seen = jobs[j].payload

Waits(w, j) ==
  /\ j \in DOMAIN task[w] /\ task'[w][j] = task[w][j]
  /\ jobs'[j] = jobs[j] \/ (~Owns(w, j)' /\ (Owns(w, j) => Expired(j)))

LEMMA TasksStep ==
  ASSUME WorkerInv, [Next]_vars, NEW w \in Workers, NEW j \in DOMAIN task'[w]
  PROVE  \/ Started(w, j) \/ Waits(w, j)
         \/ j \in DOMAIN task[w] /\ Invoke(w, j)
         \/ j \in DOMAIN task[w] /\ \E pc \in Steps : Onward(w, j, pc)
<1> USE DEF WorkerInv
<1>1. ASSUME NEW v \in Workers, NEW i \in DOMAIN task[v],
             Invoke(v, i) \/ (\E pc \in Steps : Onward(v, i, pc)) \/ Over(v, i),
             w # v \/ j # i
      PROVE  Waits(w, j)
  <2>1. i \in Jobs /\ QueueCall(v, i)
    BY <1>1, CallsOfRequests, TasksAreTyped
  <2>2. (\E t \in Task : Moves(v, i, t)) \/ Drops(v, i)
    BY <1>1, InvokeMoves, OnwardMoves, OverDrops
  <2>3. j \in DOMAIN task[w] /\ task'[w][j] = task[w][j]
    BY <1>1, <2>2 DEF Moves, Drops
  <2>4. j \in Jobs
    BY <2>3, TasksAreTyped
  <2>5. jobs'[j] = jobs[j] \/ (~Owns(w, j) /\ ~Owns(w, j)')
    BY <1>1, <2>1, <2>4, OthersKeepRows
  <2> QED
    BY <2>3, <2>5 DEF Waits
<1>2. ASSUME NEW i \in DOMAIN task[w], Over(w, i)
      PROVE  j # i
  BY <1>2, OverDrops DEF Drops
<1>3. ASSUME NEW v \in Workers, NEW S \in SUBSET Claimable, ClaimBatch(v, S)
      PROVE  Started(w, j) \/ Waits(w, j)
  <2>1. /\ DOMAIN task[v] = {} /\ DOMAIN task'[v] = S /\ S \subseteq Jobs
        /\ \A u \in Workers \ {v} : task'[u] = task[u]
        /\ \A k \in S : /\ task'[v][k].pc = "invoke" /\ task'[v][k].since = now
                        /\ task'[v][k].seen = jobs[k].payload
    BY <1>3, ClaimStarts
  <2>2. Claim(v, S)
    BY <1>3 DEF ClaimBatch
  <2>3. \A k \in Jobs : jobs[k] \in Row
    BY DEF QueueTypeOK
  <2>4. \A k \in S : Claimed(k) /\ jobs'[k].lockedBy = v
    BY <2>1, <2>2, <2>3 DEF Claim, Row, Claimed
  <2>5. CASE w = v
    BY <2>1, <2>4, <2>5 DEF Started
  <2>6. CASE w # v
    <3>1. j \in DOMAIN task[w] /\ task'[w][j] = task[w][j] /\ j \in Jobs
      BY <2>1, <2>6, TasksAreTyped
    <3>2. CASE j \in S
      <4>1. ~Owns(w, j)'
        BY <2>4, <2>6, <3>2 DEF Owns
      <4>2. Owns(w, j) => Expired(j)
        BY <3>2 DEF Claimable, Owns, Expired
      <4> QED
        BY <3>1, <4>1, <4>2 DEF Waits
    <3>3. CASE j \notin S
      <4>1. jobs'[j] = jobs[j]
        BY <2>2, <3>1, <3>3 DEF Claim
      <4> QED
        BY <3>1, <4>1 DEF Waits
    <3> QED
      BY <3>2, <3>3
  <2> QED
    BY <2>5, <2>6
<1>4. ASSUME NEW v \in Workers, Crash(v)
      PROVE  Waits(w, j)
  BY <1>4, CrashDrops DEF Crash, Waits, queueVars
<1>5. ASSUME NEW r \in Roots, ScheduleRoot(r)
      PROVE  Waits(w, j)
  <2>1. j \in DOMAIN task[w] /\ task'[w][j] = task[w][j] /\ j \in Jobs
    BY <1>5, TasksAreTyped DEF ScheduleRoot
  <2>2. r.key \in Jobs /\ jobs \in [Jobs -> Row]
    BY WorkerAssumption DEF QueueTypeOK
  <2>3. jobs'[j] = jobs[j] \/ (~Owns(w, j) /\ jobs'[j].status = "PENDING")
    BY <1>5, <2>1, <2>2 DEF ScheduleRoot, Enqueue, Owns
  <2> QED
    BY <2>1, <2>3 DEF Waits, Owns
<1>6. CASE QueueStep \/ UNCHANGED vars
  BY <1>6 DEF QueueStep, MaterializeDeadAlerts, Tick, vars, queueVars, Waits
<1> QED
  BY <1>1, <1>2, <1>3, <1>4, <1>5, <1>6, StepsOfTasks

-----------------------------------------------------------------------------
(* The invariant of the requests, and the queue they use.                  *)

LEMMA TasksStayTyped ==
  ASSUME WorkerInv, [Next]_vars
  PROVE  TasksTyped'
<1> USE DEF WorkerInv
<1>1. ASSUME NEW w \in Workers, NEW j \in DOMAIN task[w],
             Invoke(w, j) \/ (\E pc \in Steps : Onward(w, j, pc)) \/ Over(w, j)
      PROVE  TasksTyped'
  BY <1>1, InvokeMoves, OnwardMoves, OverDrops
<1>2. ASSUME NEW w \in Workers, NEW S \in SUBSET Claimable, ClaimBatch(w, S)
      PROVE  TasksTyped'
  BY <1>2, ClaimStarts
<1>3. ASSUME NEW w \in Workers, Crash(w)
      PROVE  TasksTyped'
  BY <1>3, CrashDrops
<1>4. ASSUME UNCHANGED task
      PROVE  TasksTyped'
  BY <1>4 DEF TasksTyped
<1> QED
  BY <1>1, <1>2, <1>3, <1>4, StepsOfTasks DEF QueueStep, ScheduleRoot, vars

LEMMA WorkerInvStep ==
  ASSUME WorkerInv, [Next]_vars
  PROVE  WorkerInv'
<1>1. [QueueNext]_queueVars
  BY StepsOfQueue
<1>2. QueueTypeOK' /\ PlainPayloads' /\ now <= now'
  BY <1>1, QueueTypingStep, PlainPayloadsStay DEF WorkerInv
<1>3. TasksTyped'
  BY TasksStayTyped
<1>4. now \in Int /\ now' \in Int /\ \A t \in Task : t.since \in Int
  BY <1>2, QueueAssumption DEF WorkerInv, QueueTypeOK, Time, Task
<1>5. ASSUME NEW w \in Workers, NEW j \in DOMAIN task'[w]
      PROVE  Sound(task[w][j], j)'
  <2>1. CASE Started(w, j)
    <3>1. j \in PromoteJobs \/ jobs[j].payload.handoff = NoHandoff
      BY <2>1 DEF Started, Claimed, Claimable, WorkerInv, PlainPayloads
    <3> QED
      BY <1>2, <2>1, <3>1 DEF Started, Sound
  <2>2. ASSUME j \in DOMAIN task[w]
        PROVE  /\ j \in Jobs /\ task[w][j] \in Task /\ Sound(task[w][j], j)
               /\ task[w][j].since <= now'
    <3>1. j \in Jobs /\ task[w][j] \in Task /\ Sound(task[w][j], j)
      BY <2>2, TasksAreTyped DEF WorkerInv, TasksSound
    <3> QED
      BY <1>2, <1>4, <3>1 DEF Sound
  <2>3. CASE Waits(w, j)
    BY <2>2, <2>3 DEF Waits, Sound
  <2>4. CASE j \in DOMAIN task[w] /\ Invoke(w, j)
    <3>1. PICK n \in Transitions(j, task[w][j].seen), t \in Task :
               /\ Moves(w, j, t) /\ t.since = task[w][j].since
               /\ n = NoNext => t.pc = "complete" /\ t.seen = EmptyPayload
               /\ n # NoNext => /\ Leads(j, task[w][j].seen, n)
                                /\ t.seen = task[w][j].seen /\ t.next = n
                                /\ t.pc = IF j \in PromoteJobs THEN "handoff" ELSE "enqueue"
      BY <2>4, InvokeMoves
    <3>2. task'[w][j] = t
      BY <3>1 DEF Moves
    <3>3. EmptyPayload.handoff = NoHandoff
      BY DEF EmptyPayload, AbsentRow
    <3> QED
      BY <2>2, <2>4, <3>1, <3>2, <3>3 DEF Sound
  <2>5. CASE j \in DOMAIN task[w] /\ \E pc \in Steps : Onward(w, j, pc)
    <3>1. PICK pc \in Steps : Onward(w, j, pc)
      BY <2>5
    <3>2. PICK t \in Task :
               /\ Moves(w, j, t) /\ t.pc = pc /\ t.since = task[w][j].since
               /\ pc = "enqueue" => t.seen = task[w][j].seen /\ t.next = task[w][j].next
               /\ pc # "enqueue" => t.seen = EmptyPayload
      BY <2>5, <3>1, OnwardMoves DEF WorkerInv
    <3>3. task'[w][j] = t
      BY <3>2 DEF Moves
    <3>4. EmptyPayload.handoff = NoHandoff
      BY DEF EmptyPayload, AbsentRow
    <3>5. pc = "enqueue" => task[w][j].pc = "handoff"
      BY <3>1 DEF Onward, SaveHandoff, At
    <3>6. pc # "handoff"
      BY <3>1 DEF Onward
    <3> QED
      BY <2>2, <2>5, <3>2, <3>3, <3>4, <3>5, <3>6 DEF Sound
  <2> QED
    BY <2>1, <2>3, <2>4, <2>5, TasksStep
<1> QED
  BY <1>2, <1>3, <1>5 DEF WorkerInv, TasksSound

LEMMA WorkerInvHolds == Spec => []WorkerInv
<1>1. Init => WorkerInv
  <2> SUFFICES ASSUME Init PROVE WorkerInv
    OBVIOUS
  <2>1. QueueTypeOK
    BY QueueAssumption
    DEF Init, QueueTypeOK, QueueInit, AbsentRow, Row, Status, Payload, NoHandoff, Handoff, Time, NoTime
  <2>2. NoTasks \in [{} -> Task]
    BY DEF NoTasks
  <2>3. NoTasks \in TaskLists
    BY <2>2 DEF TaskLists
  <2>4. TasksTyped
    BY <2>3 DEF Init, TasksTyped
  <2>5. TasksSound
    BY DEF Init, TasksSound, NoTasks
  <2>6. PlainPayloads
    BY DEF Init, QueueInit, AbsentRow, PlainPayloads
  <2> QED
    BY <2>1, <2>4, <2>5, <2>6 DEF WorkerInv
<1>2. WorkerInv /\ [Next]_vars => WorkerInv'
  BY WorkerInvStep
<1> QED
  BY <1>1, <1>2, PTL DEF Spec

\* The worker's requests are clients the queue was specified for: whatever is claimed,
\* lost, repeated, taken over or killed, every behaviour of the worker is one of the
\* queue, so that what holds for the queue's most general clients holds here.
THEOREM WorkerUsesQueue == Spec => QueueSpec
<1>1. Init => QueueInit
  BY DEF Init
<1>2. WorkerInv /\ [Next]_vars => [QueueNext]_queueVars
  BY StepsOfQueue
<1> QED
  BY <1>1, <1>2, WorkerInvHolds, PTL DEF Spec, QueueSpec

-----------------------------------------------------------------------------
(* What the worker adds.                                                   *)

\* A request that owns the job it handles owns it by its own claim; one that does not,
\* and has not come to a failure, has outlived that claim's lease.
Held(w, j) ==
  /\ Owns(w, j) => jobs[j].lockedAt = task[w][j].since
  /\ task[w][j].pc # "fail" => Owns(w, j) \/ task[w][j].since + Lease <= now

HeldInv == \A w \in Workers : \A j \in DOMAIN task[w] : Held(w, j)

\* The promotion of a grounding's chain has a handoff, the grounding's own.
Follows(g, p) ==
  g.type = "GROUND_CLAIMS" /\ g.chain = p.chain /\ Exists(g) =>
    jobs[p].payload.handoff # NoHandoff /\ HandoffOf(jobs[g]) = jobs[p].payload.handoff

\* A request still has the payload of a job that is no promotion as the queue has it,
\* and enqueues what the promotion's handoff says.
Carries(w, j) ==
  /\ Exists(j)
  /\ task[w][j].pc \in {"invoke", "enqueue"} /\ j \notin PromoteJobs =>
       task[w][j].seen = jobs[j].payload
  /\ task[w][j].pc = "enqueue" /\ j \in PromoteJobs =>
       /\ jobs[j].payload.handoff # NoHandoff
       /\ HandoffOf(task[w][j].next) = jobs[j].payload.handoff

FollowsInv ==
  /\ \A g \in Jobs, p \in PromoteJobs : Follows(g, p)
  /\ \A w \in Workers : \A j \in DOMAIN task[w] : Carries(w, j)

\* The owner of a promotion knows its handoff until it records one, and the owner of
\* a job that must continue completes it only when a successor is there.
Succeeds(j) == \E k \in Successors(j) : Exists(k)

Continues(w, j) ==
  Owns(w, j) =>
    /\ task[w][j].pc \in {"invoke", "handoff"} =>
         task[w][j].seen.handoff = jobs[j].payload.handoff
    /\ task[w][j].pc = "complete" /\ MustContinue(j) => Succeeds(j)

ContinuesInv ==
  /\ NoLostSuccessor
  /\ \A w \in Workers : \A j \in DOMAIN task[w] : Continues(w, j)

\* No call of a request gives it, or renews, a lease.
LEMMA CallsTakeNothing ==
  ASSUME QueueTypeOK, NEW w \in Workers, NEW j \in Jobs, QueueCall(w, j), Owns(w, j)'
  PROVE  Owns(w, j) /\ jobs'[j].lockedAt = jobs[j].lockedAt
<1>0. jobs \in [Jobs -> Row] /\ jobs[j] \in Row
  BY DEF QueueTypeOK
<1>1. jobs'[j].status = "RUNNING" /\ jobs'[j].lockedBy = w
  BY DEF Owns
<1> DEFINE Goal == Owns(w, j) /\ jobs'[j].lockedAt = jobs[j].lockedAt
<1>2. ASSUME NEW k \in Jobs, NEW p \in Inputs, NEW at \in 0..now, Enqueue(k, p, at)
      PROVE  Goal
  BY <1>0, <1>1, <1>2 DEF Enqueue, Owns
<1>3. ASSUME NEW h \in Handoff, UpdatePayload(w, j, h)
      PROVE  Goal
  BY <1>0, <1>3 DEF UpdatePayload, Row
<1>4. ~Complete(w, j)
  BY <1>0, <1>1 DEF Complete, Row
<1>5. ASSUME Fail(w, j)
      PROVE  Goal
  <2>1. jobs'[j].status \in {"PENDING", "DEAD"}
    BY <1>0, <1>5 DEF Fail, Row
  <2> QED
    BY <1>1, <2>1
<1>6. ASSUME UNCHANGED queueVars
      PROVE  Goal
  BY <1>1, <1>6 DEF queueVars, Owns
<1> HIDE DEF Goal
<1>7. Goal
  BY <1>2, <1>3, <1>4, <1>5, <1>6 DEF QueueCall
<1> QED
  BY <1>7 DEF Goal

\* The two calls that do not end in a failure.
LEMMA CallsThatGoOn ==
  ASSUME WorkerInv, NEW w \in Workers, NEW j \in DOMAIN task[w], NEW pc \in Steps,
         Onward(w, j, pc), pc # "fail"
  PROVE  \/ /\ pc = "enqueue" /\ task[w][j].pc = "handoff" /\ j \in PromoteJobs
            /\ Owns(w, j) /\ Owns(w, j)' /\ jobs'[j].lockedAt = jobs[j].lockedAt
            /\ jobs'[j].payload.handoff = HandoffOf(task[w][j].next)
            /\ jobs'[j].payload.handoff # NoHandoff
            /\ \A i \in Jobs \ {j} : jobs'[i] = jobs[i]
         \/ /\ pc = "complete" /\ task[w][j].pc = "enqueue"
            /\ jobs'[task[w][j].next.key].status # "ABSENT"
            /\ jobs'[j] = jobs[j] \/ (~Owns(w, j) /\ ~Owns(w, j)')
<1> USE DEF WorkerInv
<1>0. jobs \in [Jobs -> Row] /\ j \in Jobs /\ jobs[j] \in Row
  BY TasksAreTyped DEF QueueTypeOK
<1>1. CASE SaveHandoff(w, j) /\ pc = "enqueue"
  <2> DEFINE h == HandoffOf(task[w][j].next)
  <2>1. /\ UpdatePayload(w, j, h) /\ task[w][j].pc = "handoff"
    BY <1>1 DEF SaveHandoff, At
  <2>2. h # NoHandoff
    BY <2>1 DEF UpdatePayload, NoHandoff
  <2> HIDE DEF h
  <2>3. /\ j \in PromoteJobs /\ Owns(w, j) /\ jobs'[j].lockedAt = jobs[j].lockedAt
        /\ jobs'[j].status = jobs[j].status /\ jobs'[j].lockedBy = jobs[j].lockedBy
        /\ jobs'[j].payload.handoff = h
        /\ \A i \in Jobs \ {j} : jobs'[i] = jobs[i]
    BY <1>0, <2>1 DEF UpdatePayload, Row, Payload
  <2> QED
    BY <1>1, <2>1, <2>2, <2>3 DEF h, Owns
<1>2. CASE EnqueueNext(w, j) /\ pc = "complete"
  <2>1. /\ Enqueue(task[w][j].next.key, task[w][j].next.payload, task[w][j].since)
        /\ task[w][j].pc = "enqueue"
    BY <1>2 DEF EnqueueNext, At
  <2>2. task[w][j].next.key \in Jobs
    BY <2>1 DEF TasksSound, Sound, Leads
  <2>3. jobs'[task[w][j].next.key].status # "ABSENT"
    BY <1>0, <2>1, <2>2 DEF Enqueue
  <2>4. jobs'[j] = jobs[j] \/ (~Owns(w, j) /\ jobs'[j].status = "PENDING")
    BY <1>0, <2>1, <2>2 DEF Enqueue, Owns
  <2> QED
    BY <1>2, <2>1, <2>3, <2>4 DEF Owns
<1> QED
  BY <1>1, <1>2 DEF Onward

LEMMA HeldStep ==
  ASSUME WorkerInv, HeldInv, [Next]_vars
  PROVE  HeldInv'
<1>1. now <= now' /\ now \in Int /\ now' \in Int
  <2>1. WorkerInv' /\ now <= now'
    BY WorkerInvStep, StepsOfQueue, PlainPayloadsStay DEF WorkerInv
  <2> QED
    BY <2>1, QueueAssumption DEF WorkerInv, QueueTypeOK, Time
<1>2. ASSUME NEW w \in Workers, NEW j \in DOMAIN task'[w]
      PROVE  Held(w, j)'
  <2>1. CASE Started(w, j)
    BY <2>1 DEF Started, Claimed, Held, Owns
  <2>2. ASSUME j \in DOMAIN task[w]
        PROVE  /\ j \in Jobs /\ Held(w, j) /\ task[w][j].since \in Int
               /\ task[w][j].since + Lease <= now => task[w][j].since + Lease <= now'
    <3>1. j \in Jobs /\ Held(w, j) /\ task[w][j] \in Task
      BY <2>2, TasksAreTyped DEF WorkerInv, HeldInv
    <3>2. task[w][j].since \in Int /\ Lease \in Int
      BY <3>1, QueueAssumption DEF Task, Time
    <3> QED
      BY <1>1, <3>1, <3>2
  <2>3. CASE Waits(w, j)
    BY <2>2, <2>3 DEF Waits, Held, Owns, Expired
  <2>4. CASE j \in DOMAIN task[w] /\ Invoke(w, j)
    <3>1. PICK t : task'[w][j] = t /\ t.since = task[w][j].since
      BY <2>4, InvokeMoves DEF Moves
    <3>2. jobs' = jobs /\ task[w][j].pc = "invoke"
      BY <2>4 DEF Invoke, queueVars, At
    <3> QED
      BY <2>2, <2>4, <3>1, <3>2 DEF Held, Owns
  <2>5. CASE j \in DOMAIN task[w] /\ \E pc \in Steps : Onward(w, j, pc)
    <3>1. PICK pc \in Steps : Onward(w, j, pc)
      BY <2>5
    <3>2. PICK t : task'[w][j] = t /\ t.since = task[w][j].since /\ t.pc = pc
      BY <2>5, <3>1, OnwardMoves DEF Moves, WorkerInv
    <3>3. Owns(w, j)' => Owns(w, j) /\ jobs'[j].lockedAt = jobs[j].lockedAt
      BY <2>2, <2>5, CallsOfRequests, CallsTakeNothing DEF WorkerInv
    <3>4. CASE pc = "fail"
      BY <2>2, <2>5, <3>2, <3>3, <3>4 DEF Held
    <3>5. CASE pc # "fail"
      <4>1. task[w][j].pc # "fail" /\ (Owns(w, j) => Owns(w, j)')
        BY <2>5, <3>1, <3>5, CallsThatGoOn DEF Owns
      <4> QED
        BY <2>2, <2>5, <3>2, <3>3, <4>1 DEF Held
    <3> QED
      BY <3>4, <3>5
  <2> QED
    BY <2>1, <2>3, <2>4, <2>5, TasksStep
<1> QED
  BY <1>2 DEF HeldInv

\* A request works on a job it no longer owns only when its own lease has run out:
\* neither a response that was lost nor another request's call takes it away before.
THEOREM OnlyExpiryLosesJobs == Spec => []OnlyExpiredLosesJob
<1>1. Init => HeldInv
  BY DEF Init, HeldInv, NoTasks
<1>2. WorkerInv /\ HeldInv /\ [Next]_vars => HeldInv'
  BY HeldStep
<1>3. HeldInv => OnlyExpiredLosesJob
  BY DEF HeldInv, Held, OnlyExpiredLosesJob
<1> QED
  BY <1>1, <1>2, <1>3, WorkerInvHolds, PTL DEF Spec

\* Every job in the queue is there for good, and the payload of one that is no
\* promotion with it.
LEMMA RowsStay ==
  ASSUME WorkerInv, [Next]_vars, NEW i \in Jobs, Exists(i)
  PROVE  Exists(i)' /\ (i \notin PromoteJobs => jobs'[i].payload = jobs[i].payload)
<1>1. jobs'[i] = jobs[i] \/ Added(i) \/ Claimed(i) \/ Released(i) \/ Patched(i)
  BY StepsOfQueue, RowsChange DEF WorkerInv
<1> QED
  BY <1>1 DEF Exists, Added, Claimed, Released, Patched

\* A job enters the queue as the root of a schedule, or as the next stage of a request.
LEMMA RowsEnter ==
  ASSUME WorkerInv, [Next]_vars, NEW i \in Jobs, ~Exists(i), Exists(i)'
  PROVE  \/ \E r \in Roots : r.key = i
         \/ \E w \in Workers : \E j \in DOMAIN task[w] :
              /\ task[w][j].pc = "enqueue" /\ task[w][j].next.key = i
              /\ jobs'[i].payload = task[w][j].next.payload
<1> DEFINE Goal == \/ \E r \in Roots : r.key = i
                   \/ \E w \in Workers : \E j \in DOMAIN task[w] :
                        /\ task[w][j].pc = "enqueue" /\ task[w][j].next.key = i
                        /\ jobs'[i].payload = task[w][j].next.payload
<1>0. /\ jobs \in [Jobs -> Row] /\ jobs[i] \in Row
      /\ jobs[i].status = "ABSENT" /\ jobs'[i].status # "ABSENT"
  BY DEF WorkerInv, QueueTypeOK, Exists
<1>1. ASSUME NEW r \in Roots, ScheduleRoot(r)
      PROVE  Goal
  BY <1>0, <1>1 DEF ScheduleRoot, Enqueue
<1>2. ASSUME NEW w \in Workers, NEW j \in DOMAIN task[w], task[w][j].pc = "enqueue",
             Enqueue(task[w][j].next.key, task[w][j].next.payload, task[w][j].since)
      PROVE  Goal
  BY <1>0, <1>2 DEF Enqueue
<1>3. ASSUME NEW w \in Workers, NEW j \in Jobs,
             Complete(w, j) \/ Fail(w, j) \/ (\E h : UpdatePayload(w, j, h))
      PROVE  FALSE
  <2>1. i # j /\ jobs[j].status = "RUNNING"
    BY <1>0, <1>3 DEF Complete, Fail, UpdatePayload, Owns
  <2> QED
    BY <1>0, <1>3, <2>1 DEF Complete, Fail, UpdatePayload
<1>4. ASSUME NEW w \in Workers, NEW S \in SUBSET Claimable, ClaimBatch(w, S)
      PROVE  FALSE
  BY <1>0, <1>4 DEF ClaimBatch, Claim, Claimable, Expired
<1>5. jobs' # jobs
  BY <1>0
<1> HIDE DEF Goal
<1>6. ASSUME NEW w \in Workers, NEW j \in DOMAIN task[w], NEW pc \in Steps, Onward(w, j, pc)
      PROVE  Goal
  BY <1>2, <1>3, <1>5, <1>6, TasksAreTyped
  DEF Onward, SaveHandoff, EnqueueNext, InvokeFails, HandoffRejected, HandoffLost, At,
      EnqueueLost, CompleteRejected, CompleteLost, queueVars, WorkerInv
<1>7. ASSUME NEW w \in Workers, NEW j \in DOMAIN task[w], Over(w, j)
      PROVE  FALSE
  BY <1>3, <1>5, <1>7, TasksAreTyped
  DEF Over, CompleteJob, FailJob, FailRejected, FailLost, queueVars, WorkerInv
<1>8. ASSUME NEW w \in Workers, NEW j \in DOMAIN task[w], Invoke(w, j)
      PROVE  FALSE
  BY <1>5, <1>8 DEF Invoke, queueVars
<1>9. ASSUME QueueStep \/ UNCHANGED vars \/ \E w \in Workers : Crash(w)
      PROVE  FALSE
  BY <1>5, <1>9 DEF QueueStep, MaterializeDeadAlerts, Tick, Crash, vars, queueVars
<1>10. Goal
  BY <1>1, <1>4, <1>6, <1>7, <1>8, <1>9, StepsOfTasks
<1> QED
  BY <1>10 DEF Goal

\* A job succeeds when its owner, through with it, completes it.
LEMMA RowsFinish ==
  ASSUME WorkerInv, [Next]_vars, NEW i \in Jobs, jobs'[i].status = "SUCCEEDED"
  PROVE  \/ jobs'[i] = jobs[i]
         \/ /\ jobs'[i].payload = jobs[i].payload
            /\ \E w \in Workers : i \in DOMAIN task[w] /\ task[w][i].pc = "complete" /\ Owns(w, i)
<1> DEFINE Goal == \/ jobs'[i] = jobs[i]
                   \/ /\ jobs'[i].payload = jobs[i].payload
                      /\ \E w \in Workers : /\ i \in DOMAIN task[w] /\ task[w][i].pc = "complete"
                                            /\ Owns(w, i)
<1>0. jobs \in [Jobs -> Row] /\ jobs[i] \in Row
  BY DEF WorkerInv, QueueTypeOK
<1>1. ASSUME NEW k, NEW p, NEW at, Enqueue(k, p, at)
      PROVE  Goal
  BY <1>0, <1>1 DEF Enqueue
<1>2. ASSUME NEW w \in Workers, NEW j \in DOMAIN task[w], task[w][j].pc = "complete", Complete(w, j)
      PROVE  Goal
  <2>1. j \in Jobs
    BY TasksAreTyped DEF WorkerInv
  <2> QED
    BY <1>0, <1>2, <2>1 DEF Complete, Row
<1>3. ASSUME NEW w \in Workers, NEW j \in Jobs, Fail(w, j)
      PROVE  Goal
  <2>1. CASE i = j
    <3>1. jobs'[i].status \in {"PENDING", "DEAD"}
      BY <1>0, <1>3, <2>1 DEF Fail, Row
    <3> QED
      BY <3>1
  <2>2. CASE i # j
    BY <1>0, <1>3, <2>2 DEF Fail
  <2> QED
    BY <2>1, <2>2
<1>4. ASSUME NEW w \in Workers, NEW j \in Jobs, NEW h, UpdatePayload(w, j, h)
      PROVE  Goal
  <2>1. jobs'[i].status = jobs[i].status /\ jobs[j].status = "RUNNING"
    BY <1>0, <1>4 DEF UpdatePayload, Row, Owns
  <2>2. i # j
    BY <2>1
  <2> QED
    BY <1>0, <1>4, <2>2 DEF UpdatePayload
<1>5. ASSUME NEW w \in Workers, NEW S \in SUBSET Claimable, ClaimBatch(w, S)
      PROVE  Goal
  BY <1>0, <1>5 DEF ClaimBatch, Claim, Row
<1>6. ASSUME UNCHANGED jobs
      PROVE  Goal
  BY <1>6
<1> HIDE DEF Goal
<1>7. ASSUME NEW w \in Workers, NEW j \in DOMAIN task[w], NEW pc \in Steps, Onward(w, j, pc)
      PROVE  Goal
  BY <1>1, <1>2, <1>4, <1>6, <1>7, TasksAreTyped
  DEF Onward, SaveHandoff, EnqueueNext, InvokeFails, HandoffRejected, HandoffLost, At,
      EnqueueLost, CompleteRejected, CompleteLost, queueVars, WorkerInv
<1>8. ASSUME NEW w \in Workers, NEW j \in DOMAIN task[w], Over(w, j)
      PROVE  Goal
  BY <1>2, <1>3, <1>6, <1>8, TasksAreTyped
  DEF Over, CompleteJob, FailJob, FailRejected, FailLost, queueVars, WorkerInv, At
<1>9. ASSUME \/ QueueStep \/ UNCHANGED vars
             \/ \E w \in Workers : Crash(w) \/ \E j \in DOMAIN task[w] : Invoke(w, j)
      PROVE  Goal
  BY <1>6, <1>9 DEF QueueStep, MaterializeDeadAlerts, Tick, Crash, Invoke, vars, queueVars
<1>10. ASSUME NEW r \in Roots, ScheduleRoot(r)
       PROVE  Goal
  BY <1>1, <1>10 DEF ScheduleRoot
<1>11. Goal
  BY <1>5, <1>7, <1>8, <1>9, <1>10, StepsOfTasks
<1> QED
  BY <1>11 DEF Goal

\* A chain has one promotion.
LEMMA PromotionsAreUnique ==
  ASSUME NEW p \in PromoteJobs, NEW q \in PromoteJobs, p.chain = q.chain
  PROVE  p = q
<1>1. /\ p \in Jobs /\ p.type = "PROMOTE_DISCOVERY" /\ p = Key(p.chain, p.type, p.page)
      /\ q \in Jobs /\ q.type = "PROMOTE_DISCOVERY" /\ q = Key(q.chain, q.type, q.page)
  BY QueueAssumption, WorkerAssumption, KeyAssumption
<1>2. p.page = 0 /\ q.page = 0
  BY <1>1, KeyAssumption
<1> QED
  BY <1>1, <1>2

LEMMA FollowsStep ==
  ASSUME WorkerInv, FollowsInv, [Next]_vars, [\A j \in Jobs : KeepsHandoff(j)]_queueVars
  PROVE  FollowsInv'
<1>0. \A i \in Jobs : jobs[i].payload.handoff # NoHandoff =>
        jobs'[i].payload.handoff = jobs[i].payload.handoff
  BY DEF KeepsHandoff, queueVars
<1>1. ASSUME NEW g \in Jobs, NEW p \in PromoteJobs, g.type = "GROUND_CLAIMS",
             g.chain = p.chain, Exists(g)'
      PROVE  /\ jobs'[p].payload.handoff # NoHandoff
             /\ HandoffOf(jobs'[g]) = jobs'[p].payload.handoff
  <2>0. p \in Jobs /\ g \notin PromoteJobs
    BY <1>1, QueueAssumption, WorkerAssumption
  <2>1. CASE Exists(g)
    <3>1. jobs'[g].payload = jobs[g].payload
      BY <2>0, <2>1, RowsStay
    <3>2. /\ jobs[p].payload.handoff # NoHandoff
          /\ HandoffOf(jobs[g]) = jobs[p].payload.handoff
      BY <1>1, <2>1 DEF FollowsInv, Follows
    <3> QED
      BY <1>0, <2>0, <3>1, <3>2 DEF HandoffOf
  <2>2. CASE ~Exists(g)
    <3>1. \A r \in Roots : r.key # g
      BY <1>1, KeyAssumption DEF RootTypes
    <3>7. PICK w \in Workers : \E j \in DOMAIN task[w] :
                /\ task[w][j].pc = "enqueue" /\ task[w][j].next.key = g
                /\ jobs'[g].payload = task[w][j].next.payload
      BY <1>1, <2>2, <3>1, RowsEnter
    <3>2. PICK j \in DOMAIN task[w] :
               /\ task[w][j].pc = "enqueue" /\ task[w][j].next.key = g
               /\ jobs'[g].payload = task[w][j].next.payload
      BY <3>7
    <3>3. /\ j \in Jobs /\ Carries(w, j) /\ Leads(j, task[w][j].seen, task[w][j].next)
      BY <3>2, TasksAreTyped DEF WorkerInv, TasksSound, Sound, FollowsInv
    <3>4. j.chain = p.chain
      BY <1>1, <3>2, <3>3 DEF Leads, Successors
    <3>5. CASE j \in PromoteJobs
      <4>1. j = p
        BY <3>4, <3>5, PromotionsAreUnique
      <4>2. /\ jobs[p].payload.handoff # NoHandoff
            /\ HandoffOf(task[w][j].next) = jobs[p].payload.handoff
        BY <3>2, <3>3, <3>5, <4>1 DEF Carries
      <4> QED
        BY <1>0, <2>0, <3>2, <4>2 DEF HandoffOf
    <3>6. CASE j \notin PromoteJobs
      <4>1. /\ j.type = "GROUND_CLAIMS" /\ task[w][j].next.payload.ids = task[w][j].seen.ids
            /\ task[w][j].next.payload.asOf = task[w][j].seen.asOf
        BY <1>1, <3>2, <3>3, <3>6 DEF Leads
      <4>2. task[w][j].seen = jobs[j].payload /\ Exists(j)
        BY <3>2, <3>3, <3>6 DEF Carries
      <4>3. /\ jobs[p].payload.handoff # NoHandoff
            /\ HandoffOf(jobs[j]) = jobs[p].payload.handoff
        BY <3>3, <3>4, <4>1, <4>2 DEF FollowsInv, Follows
      <4> QED
        BY <1>0, <2>0, <3>2, <4>1, <4>2, <4>3 DEF HandoffOf
    <3> QED
      BY <3>5, <3>6
  <2> QED
    BY <2>1, <2>2
<1>2. ASSUME NEW w \in Workers, NEW j \in DOMAIN task'[w]
      PROVE  Carries(w, j)'
  <2>1. CASE Started(w, j)
    <3>1. j \in Jobs /\ Exists(j)
      BY <2>1 DEF Started, Claimed, Claimable, Expired, Exists
    <3> QED
      BY <2>1, <3>1, RowsStay DEF Started, Claimed, Carries
  <2>2. ASSUME j \in DOMAIN task[w]
        PROVE  /\ j \in Jobs /\ Carries(w, j) /\ Exists(j)'
               /\ j \notin PromoteJobs => jobs'[j].payload = jobs[j].payload
    <3>1. j \in Jobs /\ Carries(w, j)
      BY <2>2, TasksAreTyped DEF WorkerInv, FollowsInv
    <3> QED
      BY <3>1, RowsStay DEF Carries
  <2>3. CASE Waits(w, j)
    BY <1>0, <2>2, <2>3 DEF Waits, Carries
  <2>4. CASE j \in DOMAIN task[w] /\ Invoke(w, j)
    <3>1. PICK t : /\ task'[w][j] = t
                   /\ \/ t.pc = "complete"
                      \/ /\ t.pc = IF j \in PromoteJobs THEN "handoff" ELSE "enqueue"
                         /\ t.seen = task[w][j].seen
      BY <2>4, InvokeMoves DEF Moves
    <3>2. task[w][j].pc = "invoke"
      BY <2>4 DEF Invoke, At
    <3> QED
      BY <2>2, <2>4, <3>1, <3>2 DEF Carries
  <2>5. CASE j \in DOMAIN task[w] /\ \E pc \in Steps : Onward(w, j, pc)
    <3>1. PICK pc \in Steps : Onward(w, j, pc)
      BY <2>5
    <3>2. PICK t : /\ task'[w][j] = t /\ t.pc = pc
                   /\ pc = "enqueue" => t.seen = task[w][j].seen /\ t.next = task[w][j].next
      BY <2>5, <3>1, OnwardMoves DEF Moves, WorkerInv
    <3>3. CASE pc = "enqueue"
      <4>1. /\ j \in PromoteJobs /\ jobs'[j].payload.handoff = HandoffOf(task[w][j].next)
            /\ jobs'[j].payload.handoff # NoHandoff
        BY <2>5, <3>1, <3>3, CallsThatGoOn
      <4> QED
        BY <2>2, <2>5, <3>2, <3>3, <4>1 DEF Carries, HandoffOf
    <3>4. CASE pc # "enqueue"
      <4>1. pc # "invoke"
        BY <3>1 DEF Onward
      <4> QED
        BY <2>2, <2>5, <3>2, <3>4, <4>1 DEF Carries
    <3> QED
      BY <3>3, <3>4
  <2> QED
    BY <2>1, <2>3, <2>4, <2>5, TasksStep
<1>3. ASSUME NEW g \in Jobs, NEW p \in PromoteJobs
      PROVE  Follows(g, p)'
  BY <1>1 DEF Follows, HandoffOf
<1> QED
  BY <1>2, <1>3 DEF FollowsInv

\* Every grounding of a chain, on whatever page, works on the scope and the snapshot
\* its promotion recorded, in every order of retries, takeovers, crashes and lost
\* responses: a request enqueues only what is on record, and the record never changes.
THEOREM GroundingsFollowHandoffs == Spec => []GroundingFollowsHandoff
<1>1. Init => FollowsInv
  BY DEF Init, QueueInit, FollowsInv, Follows, Exists, AbsentRow, NoTasks
<1>2. /\ WorkerInv /\ FollowsInv /\ [Next]_vars /\ [\A j \in Jobs : KeepsHandoff(j)]_queueVars
      => FollowsInv'
  BY FollowsStep
<1>3. FollowsInv => GroundingFollowsHandoff
  BY DEF FollowsInv, Follows, GroundingFollowsHandoff
<1>4. Spec => [][\A j \in Jobs : KeepsHandoff(j)]_queueVars
  BY WorkerUsesQueue, HandoffsAreImmutable DEF HandoffImmutable
<1> QED
  BY <1>1, <1>2, <1>3, <1>4, WorkerInvHolds, PTL DEF Spec

LEMMA ContinuesStep ==
  ASSUME WorkerInv, ContinuesInv, HandoffKeepsRootSnapshot, [Next]_vars
  PROVE  ContinuesInv'
<1>1. ASSUME NEW j \in Jobs, Succeeds(j)
      PROVE  Succeeds(j)'
  <2>1. PICK k \in Successors(j) : Exists(k)
    BY <1>1 DEF Succeeds
  <2>2. k \in Jobs
    BY DEF Successors
  <2>3. Exists(k)'
    BY <2>1, <2>2, RowsStay
  <2> QED
    BY <2>3 DEF Succeeds
<1>2. ASSUME NEW j \in Jobs, jobs'[j].status = "SUCCEEDED", MustContinue(j)'
      PROVE  Succeeds(j)'
  <2>1. CASE jobs'[j] = jobs[j]
    <3>1. jobs[j].status = "SUCCEEDED" /\ MustContinue(j)
      BY <1>2, <2>1 DEF MustContinue
    <3> QED
      BY <1>1, <3>1 DEF ContinuesInv, NoLostSuccessor, Succeeds
  <2>2. ASSUME NEW w \in Workers, j \in DOMAIN task[w], task[w][j].pc = "complete", Owns(w, j),
               jobs'[j].payload = jobs[j].payload
        PROVE  Succeeds(j)'
    <3>1. MustContinue(j)
      BY <1>2, <2>2 DEF MustContinue
    <3> QED
      BY <1>1, <2>2, <3>1 DEF ContinuesInv, Continues
  <2> QED
    BY <1>2, <2>1, <2>2, RowsFinish
<1>3. ASSUME NEW w \in Workers, NEW j \in DOMAIN task'[w], Owns(w, j)'
      PROVE  Continues(w, j)'
  <2>1. CASE Started(w, j)
    BY <2>1 DEF Started, Claimed, Continues
  <2>2. ASSUME j \in DOMAIN task[w]
        PROVE  /\ j \in Jobs /\ Continues(w, j) /\ QueueTypeOK
               /\ task[w][j] \in Task /\ Sound(task[w][j], j)
    BY <2>2, TasksAreTyped DEF WorkerInv, ContinuesInv, TasksSound
  <2>3. CASE Waits(w, j)
    <3>1. jobs'[j] = jobs[j] /\ task'[w][j] = task[w][j] /\ Owns(w, j)
      BY <1>3, <2>3 DEF Waits, Owns
    <3>2. MustContinue(j)' => MustContinue(j)
      BY <3>1 DEF MustContinue
    <3> QED
      BY <1>1, <2>2, <2>3, <3>1, <3>2 DEF Continues, Waits
  <2>4. CASE j \in DOMAIN task[w] /\ Invoke(w, j)
    <3>1. PICK n \in Transitions(j, task[w][j].seen), t \in Task :
               /\ task'[w][j] = t
               /\ n = NoNext => t.pc = "complete"
               /\ n # NoNext => /\ t.seen = task[w][j].seen
                                /\ t.pc = IF j \in PromoteJobs THEN "handoff" ELSE "enqueue"
      BY <2>4, InvokeMoves DEF Moves
    <3>2. jobs' = jobs /\ task[w][j].pc = "invoke"
      BY <2>4 DEF Invoke, queueVars, At
    <3>3. task[w][j].seen.handoff = jobs[j].payload.handoff
      BY <1>3, <2>2, <2>4, <3>2 DEF Continues, Owns
    <3>4. CASE n = NoNext
      <4>1. \/ j.type \notin DOMAIN NEXT_STAGE \/ j.type = "RUN_INTELLIGENCE"
            \/ Successors(j) = {}
            \/ j \in PromoteJobs /\ task[w][j].seen.handoff.ids = {}
        BY <2>2, <2>4, <3>1, <3>4, TransitionsLead DEF Sound, Task, QueueTypeOK
      <4>2. j \in PromoteJobs => j.type = "PROMOTE_DISCOVERY"
        BY <2>2, <2>4, WorkerAssumption
      <4>3. j \in PromoteJobs /\ jobs[j].payload.handoff.ids = {} =>
              jobs[j].payload.handoff = NoHandoff
        BY <2>2, <2>4 DEF HandoffKeepsRootSnapshot, HandoffExact
      <4>4. ~MustContinue(j)'
        BY <3>2, <3>3, <4>1, <4>2, <4>3 DEF MustContinue
      <4> QED
        BY <3>1, <3>4, <4>4 DEF Continues
    <3>5. CASE n # NoNext
      BY <3>1, <3>2, <3>3, <3>5 DEF Continues
    <3> QED
      BY <3>4, <3>5
  <2>5. CASE j \in DOMAIN task[w] /\ \E pc \in Steps : Onward(w, j, pc)
    <3>1. PICK pc \in Steps : Onward(w, j, pc)
      BY <2>5
    <3>2. task'[w][j].pc = pc
      BY <2>5, <3>1, OnwardMoves DEF Moves, WorkerInv
    <3>3. CASE pc = "complete"
      <4>1. jobs'[task[w][j].next.key].status # "ABSENT" /\ task[w][j].pc = "enqueue"
        BY <2>5, <3>1, <3>3, CallsThatGoOn
      <4>2. PICK k \in Successors(j) : k = task[w][j].next.key
        BY <2>2, <2>5, <4>1 DEF Sound, Leads
      <4>3. Exists(k)'
        BY <4>1, <4>2 DEF Exists
      <4> QED
        BY <3>2, <3>3, <4>3 DEF Continues, Succeeds
    <3>4. CASE pc # "complete"
      <4>1. pc \in {"enqueue", "fail"}
        BY <3>1, <3>4 DEF Onward
      <4> QED
        BY <3>2, <4>1 DEF Continues
    <3> QED
      BY <3>3, <3>4
  <2> QED
    BY <2>1, <2>3, <2>4, <2>5, TasksStep
<1>4. NoLostSuccessor'
  BY <1>2 DEF NoLostSuccessor, Succeeds
<1>5. ASSUME NEW w \in Workers, NEW j \in DOMAIN task'[w]
      PROVE  Continues(w, j)'
  BY <1>3 DEF Continues
<1> QED
  BY <1>4, <1>5 DEF ContinuesInv

\* A stage that is recorded as done has its successor in the queue: whoever completes
\* it owned it to the end, and had enqueued what comes next.
THEOREM SuccessorsAreNotLost == Spec => []NoLostSuccessor
<1>1. Init => ContinuesInv
  BY DEF Init, QueueInit, ContinuesInv, NoLostSuccessor, AbsentRow, NoTasks
<1>2. WorkerInv /\ ContinuesInv /\ HandoffKeepsRootSnapshot /\ [Next]_vars => ContinuesInv'
  BY ContinuesStep
<1>3. Spec => []HandoffKeepsRootSnapshot
  BY WorkerUsesQueue, HandoffsKeepRootSnapshot
<1>4. ContinuesInv => NoLostSuccessor
  BY DEF ContinuesInv
<1> QED
  BY <1>1, <1>2, <1>3, <1>4, WorkerInvHolds, PTL DEF Spec

\* Under the worker the queue still implements the lifecycle it promises, and every
\* dead job is alerted exactly once.
COROLLARY WorkerKeepsPromises == Spec => ImplementsLifecycle /\ []DeadJobsAlerted
BY WorkerUsesQueue, QueueImplementsLifecycle, DeathsAreAlerted, PTL

=============================================================================
