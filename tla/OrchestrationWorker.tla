------------------------ MODULE OrchestrationWorker ------------------------
(***************************************************************************)
(* The orchestration-worker edge function on top of the editorial job      *)
(* queue.  A request claims a batch and handles its jobs concurrently:     *)
(* invoke the stage's boundary, record the promotion handoff, enqueue the  *)
(* next stage, complete the job; any error fails it.  Between two of these *)
(* calls other requests run, the lease may expire and be taken over, a     *)
(* response may be lost, and the request may be killed.                    *)
(***************************************************************************)
EXTENDS EditorialQueue

CONSTANTS
  Roots,      \* the jobs a cron schedule enqueues: [key, asOf]
  NoKey,      \* no next stage
  Cursors,    \* grounding continuation cursors, numbered in keyset order
  MaxFaults   \* bound: failed calls, lost responses and killed requests

\* A dedupe key: chain_key, job type and, for grounding, the page
\* (`${chain}:GROUND_CLAIMS:initial` is page 0, a continuation its cursor).
Key(chain, type, page) == [chain |-> chain, type |-> type, page |-> page]

NEXT_STAGE == [
  COLLECT_INSTAGRAM |-> "ANALYZE_CONTENT",   ANALYZE_CONTENT |-> "RUN_INTELLIGENCE",
  RUN_INTELLIGENCE |-> "DISCOVER_SOURCES",   DISCOVER_SOURCES |-> "DISCOVER_TRENDS",
  DISCOVER_TRENDS |-> "PROMOTE_DISCOVERY",   PROMOTE_DISCOVERY |-> "GROUND_CLAIMS",
  GROUND_CLAIMS |-> "RANK_EDITORIAL",        RANK_EDITORIAL |-> "GENERATE_PRIORITY",
  GENERATE_PRIORITY |-> "SYNC_NOTION",       SYNC_NOTION |-> "POLL_SELECTED",
  POLL_SELECTED |-> "DISPATCH_ALERTS",       FIXTURE_SYNC |-> "DISPATCH_ALERTS"]

ASSUME WorkerAssumption ==
  /\ Cursors \subseteq Nat \ {0}
  /\ MaxFaults \in Nat /\ NoKey \notin Jobs
  /\ \A j \in Jobs : j \in PromoteJobs <=> j.type = "PROMOTE_DISCOVERY"
  /\ Roots \subseteq [key : Jobs, asOf : Time \cup {NoTime}]

\* What a schedule, or a brief that is READY, starts a chain with.
RootTypes == {"COLLECT_INSTAGRAM", "FIXTURE_SYNC", "MORNING_BRIEF", "DISCOVER_TRENDS",
              "EDITORIAL_DIGEST", "PROJECT_NOTION"}

\* Jobs are dedupe keys, among them all that a promotion leads to.
ASSUME KeyAssumption ==
  /\ \A r \in Roots : r.key.type \in RootTypes
  /\ \A j \in Jobs : /\ j = Key(j.chain, j.type, j.page)
                     /\ j.page = 0 \/ (j.page \in Cursors /\ j.type = "GROUND_CLAIMS")
  /\ \A j \in PromoteJobs : Key(j.chain, "GROUND_CLAIMS", 0) \in Jobs
  /\ \A j \in Jobs : j.type = "GROUND_CLAIMS" =>
       /\ Key(j.chain, "RANK_EDITORIAL", 0) \in Jobs
       /\ \A c \in Cursors : Key(j.chain, "GROUND_CLAIMS", c) \in Jobs

\* A stage may be enqueued with any scope and snapshot.
ASSUME ClientAssumption == Inputs = {p \in Payload : p.handoff = NoHandoff}

VARIABLES
  task,   \* where processJob stands, for the jobs each request is handling
  faults  \* how many faults have happened

vars == <<queueVars, task, faults>>

Steps == {"invoke", "handoff", "enqueue", "complete", "fail"}

EmptyPayload == AbsentRow.payload
NoNext == [key |-> NoKey, payload |-> EmptyPayload]
\* since is the time passed to the claim, seen the payload it returned.
Transition == [key : Jobs \cup {NoKey}, payload : Payload]
Task == [pc : Steps, since : Time, seen : Payload, next : Transition]

NoTasks == [j \in {} |-> 0]

TypeOK ==
  /\ QueueTypeOK
  /\ DOMAIN task = Workers
  /\ \A w \in Workers : DOMAIN task[w] \subseteq Jobs
  /\ \A w \in Workers : \A j \in DOMAIN task[w] : task[w][j] \in Task
  /\ faults \in 0..MaxFaults

Init ==
  /\ QueueInit
  /\ task = [w \in Workers |-> NoTasks]
  /\ faults = 0

-----------------------------------------------------------------------------
(* What a successful invocation leads to *)

\* groundingTransition's scope and snapshot, as promotionTransition sets them.
GroundingPayload(ids, asOf) == [asOf |-> asOf, ids |-> ids, handoff |-> NoHandoff]

Grounding(j, page, ids, asOf) ==
  [key |-> Key(j.chain, "GROUND_CLAIMS", page), payload |-> GroundingPayload(ids, asOf)]

AsOfFor(payload, fallback) == IF payload.asOf # NoTime THEN payload.asOf ELSE fallback

\* promotionTransition: a saved handoff is replayed without invoking the
\* boundary again; otherwise the boundary reports the stories it touched, and
\* none of them ends the chain.
PromotionTransitions(j, seen) ==
  IF seen.handoff.ids # {}
  THEN {Grounding(j, 0, seen.handoff.ids, AsOfFor(seen, seen.handoff.asOf))}
  ELSE {NoNext} \cup
       {Grounding(j, 0, ids, AsOfFor(seen, now)) : ids \in (SUBSET Stories) \ {{}}}

\* Bound: a chain is followed through the stages that have a key in Jobs.
StageTransition(j, seen) ==
  LET next == Key(j.chain, NEXT_STAGE[j.type], 0)
  IN  IF next \in Jobs THEN [key |-> next, payload |-> seen] ELSE NoNext

\* groundingTransition: a partial page continues at a later cursor with the
\* same scope, snapshot and limit; a completed one goes on to ranking.
GroundingTransitions(j, seen) ==
  {Grounding(j, c, seen.ids, seen.asOf) : c \in {c \in Cursors : c > j.page}}
    \cup {StageTransition(j, seen)}

\* The transitions a 2xx response of the boundary of j may lead to.
Transitions(j, seen) ==
  CASE j.type = "PROMOTE_DISCOVERY" -> PromotionTransitions(j, seen)
    [] j.type = "GROUND_CLAIMS" -> GroundingTransitions(j, seen)
    [] j.type = "RUN_INTELLIGENCE" -> {NoNext, StageTransition(j, seen)}
    [] j.type \in DOMAIN NEXT_STAGE \ {"PROMOTE_DISCOVERY", "GROUND_CLAIMS", "RUN_INTELLIGENCE"}
         -> {StageTransition(j, seen)}
    [] OTHER -> {NoNext}

-----------------------------------------------------------------------------
(* Steps of a request *)

At(w, j, pc) == j \in DOMAIN task[w] /\ task[w][j].pc = pc

\* On to a later step; completing and failing a job read neither its payload
\* nor its transition.
Goto(w, j, pc) == task' = [task EXCEPT ![w][j] =
  IF pc = "enqueue" THEN [@ EXCEPT !.pc = pc]
  ELSE [pc |-> pc, since |-> task[w][j].since, seen |-> EmptyPayload, next |-> NoNext]]

\* The request is through with the job.
Done(w, j) ==
  task' = [task EXCEPT ![w] = [i \in DOMAIN task[w] \ {j} |-> task[w][i]]]

Fault == faults < MaxFaults /\ faults' = faults + 1

\* Cron fires the root of a schedule bucket.
ScheduleRoot(r) ==
  /\ Enqueue(r.key, GroundingPayload({}, r.asOf), now)
  /\ UNCHANGED <<task, faults>>

\* processBatch claims; every claimed job starts with the row it was given.
ClaimBatch(w, S) ==
  /\ task[w] = NoTasks
  /\ Claim(w, S)
  /\ task' = [task EXCEPT ![w] = [j \in S |->
       [pc |-> "invoke", since |-> now, seen |-> jobs[j].payload, next |-> NoNext]]]
  /\ UNCHANGED faults

\* Mutant of Invoke: the next stage is enqueued before its handoff is saved.
InvokeUnsaved(w, j) ==
  /\ At(w, j, "invoke")
  /\ \E n \in Transitions(j, task[w][j].seen) :
       IF n = NoNext THEN Goto(w, j, "complete")
       ELSE task' = [task EXCEPT ![w][j] = [@ EXCEPT !.next = n, !.pc = "enqueue"]]
  /\ UNCHANGED <<queueVars, faults>>

\* The boundary answers 2xx, or the saved promotion handoff is replayed.
Invoke(w, j) ==
  /\ At(w, j, "invoke")
  /\ \E n \in Transitions(j, task[w][j].seen) :
       IF n = NoNext THEN Goto(w, j, "complete")
       ELSE task' = [task EXCEPT ![w][j] = [@ EXCEPT !.next = n,
                       !.pc = IF j \in PromoteJobs THEN "handoff" ELSE "enqueue"]]
  /\ UNCHANGED <<queueVars, faults>>

\* The boundary answers another status or an unusable body, or is unreachable.
InvokeFails(w, j) ==
  /\ At(w, j, "invoke")
  /\ Goto(w, j, "fail") /\ Fault
  /\ UNCHANGED queueVars

HandoffOf(n) == [ids |-> n.payload.ids, asOf |-> n.payload.asOf]

SaveHandoff(w, j) ==
  /\ At(w, j, "handoff")
  /\ UpdatePayload(w, j, HandoffOf(task[w][j].next))
  /\ Goto(w, j, "enqueue")
  /\ UNCHANGED faults

\* The RPC returns false: no longer the owner, or another handoff is on record.
HandoffRejected(w, j) ==
  /\ At(w, j, "handoff")
  /\ ~(Owns(w, j) /\ MayPatch(j, HandoffOf(task[w][j].next)))
  /\ Goto(w, j, "fail")
  /\ UNCHANGED <<queueVars, faults>>

\* The call or only its response is lost: the RPC may or may not have run.
HandoffLost(w, j) ==
  /\ At(w, j, "handoff")
  /\ UpdatePayload(w, j, HandoffOf(task[w][j].next)) \/ UNCHANGED queueVars
  /\ Goto(w, j, "fail") /\ Fault

EnqueueNext(w, j) ==
  /\ At(w, j, "enqueue")
  /\ Enqueue(task[w][j].next.key, task[w][j].next.payload, task[w][j].since)
  /\ Goto(w, j, "complete")
  /\ UNCHANGED faults

\* Mutant of EnqueueLost: a failed enqueue does not keep the job from completing.
EnqueueLostIgnored(w, j) ==
  /\ At(w, j, "enqueue")
  /\ \/ Enqueue(task[w][j].next.key, task[w][j].next.payload, task[w][j].since)
     \/ UNCHANGED queueVars
  /\ Goto(w, j, "complete") /\ Fault

EnqueueLost(w, j) ==
  /\ At(w, j, "enqueue")
  /\ \/ Enqueue(task[w][j].next.key, task[w][j].next.payload, task[w][j].since)
     \/ UNCHANGED queueVars
  /\ Goto(w, j, "fail") /\ Fault

CompleteJob(w, j) ==
  /\ At(w, j, "complete")
  /\ Complete(w, j)
  /\ Done(w, j)
  /\ UNCHANGED faults

\* complete returned false: QUEUE_COMPLETION_REJECTED.
CompleteRejected(w, j) ==
  /\ At(w, j, "complete") /\ ~Owns(w, j)
  /\ Goto(w, j, "fail")
  /\ UNCHANGED <<queueVars, faults>>

CompleteLost(w, j) ==
  /\ At(w, j, "complete")
  /\ Complete(w, j) \/ UNCHANGED queueVars
  /\ Goto(w, j, "fail") /\ Fault

FailJob(w, j) ==
  /\ At(w, j, "fail")
  /\ Fail(w, j)
  /\ Done(w, j)
  /\ UNCHANGED faults

\* The RPC raises "not owned by worker"; the error is logged and swallowed.
FailRejected(w, j) ==
  /\ At(w, j, "fail") /\ ~Owns(w, j)
  /\ Done(w, j)
  /\ UNCHANGED <<queueVars, faults>>

\* A job is not abandoned in its last claim of the bound MaxClaims: then
\* nobody could reclaim it, which the code never refuses.
MayAbandon(w) ==
  \A j \in DOMAIN task[w] : jobs[j].attempts < MaxClaims

FailLost(w, j) ==
  /\ At(w, j, "fail") /\ MayAbandon(w)
  /\ Done(w, j) /\ Fault
  /\ UNCHANGED queueVars

\* The edge function is killed with its whole batch.
Crash(w) ==
  /\ task[w] # NoTasks
  /\ MayAbandon(w)
  /\ task' = [task EXCEPT ![w] = NoTasks]
  /\ Fault
  /\ UNCHANGED queueVars

JobStep(w, j) ==
  \/ Invoke(w, j)
  \/ SaveHandoff(w, j) \/ HandoffRejected(w, j)
  \/ EnqueueNext(w, j)
  \/ CompleteJob(w, j) \/ CompleteRejected(w, j)
  \/ FailJob(w, j) \/ FailRejected(w, j)

JobFault(w, j) ==
  \/ InvokeFails(w, j)
  \/ HandoffLost(w, j)
  \/ EnqueueLost(w, j)
  \/ CompleteLost(w, j)
  \/ FailLost(w, j)

\* The chat of the owner stays as it is here; EditorialQueue varies it.
QueueStep ==
  /\ MaterializeDeadAlerts \/ Tick
  /\ UNCHANGED <<task, faults>>

Next ==
  \/ \E r \in Roots : ScheduleRoot(r)
  \/ \E w \in Workers : \E S \in SUBSET Claimable : ClaimBatch(w, S)
  \/ \E w \in Workers : \E j \in DOMAIN task[w] : JobStep(w, j)
  \/ \E w \in Workers : \E j \in DOMAIN task[w] : JobFault(w, j)
  \/ \E w \in Workers : Crash(w)
  \/ QueueStep

Spec == Init /\ [][Next]_vars

\* Cron polls every minute, a request in flight runs on, and time passes.
Fairness ==
  /\ \A w \in Workers : WF_vars(\E S \in SUBSET Claimable : ClaimBatch(w, S))
  /\ \A w \in Workers, j \in Jobs : WF_vars(JobStep(w, j))
  /\ WF_vars(Tick /\ UNCHANGED <<task, faults>>)

FairSpec == Spec /\ Fairness

-----------------------------------------------------------------------------
(* Properties *)

Exists(j) == jobs[j].status # "ABSENT"

\* Every grounding job of a chain, initial or continuation, works on exactly
\* the scope and snapshot its promotion durably handed over, however often the
\* promotion was retried, taken over or run by two workers at once.
GroundingFollowsHandoff ==
  \A g \in Jobs, p \in PromoteJobs :
    (g.type = "GROUND_CLAIMS" /\ g.chain = p.chain /\ Exists(g)) =>
      HandoffOf(jobs[g]) = jobs[p].payload.handoff

\* A stage that succeeded has handed over: its successor is in the queue, unless
\* the intelligence run was already running or the promotion touched no story.
Successors(j) ==
  {k \in Jobs : /\ k.chain = j.chain
                /\ \/ k.type = NEXT_STAGE[j.type]
                   \/ k.type = "GROUND_CLAIMS" /\ k.type = j.type /\ k.page > j.page}

MustContinue(j) ==
  /\ j.type \in DOMAIN NEXT_STAGE \ {"RUN_INTELLIGENCE"}
  /\ j.type = "PROMOTE_DISCOVERY" => jobs[j].payload.handoff # NoHandoff
  /\ Successors(j) # {}

NoLostSuccessor ==
  \A j \in Jobs : (jobs[j].status = "SUCCEEDED" /\ MustContinue(j)) =>
    \E k \in Successors(j) : Exists(k)

\* A request that still works on a job it no longer owns has outlived its lease.
OnlyExpiredLosesJob ==
  \A w \in Workers : \A j \in DOMAIN task[w] :
    task[w][j].pc \in {"invoke", "handoff", "enqueue", "complete"} /\ ~Owns(w, j)
      => task[w][j].since + Lease <= now

\* Every job that was enqueued ends, in success or in the dead letters.
Ended(j) == jobs[j].status \in {"SUCCEEDED", "DEAD"}
EveryJobEnds == \A j \in Jobs : Exists(j) ~> Ended(j)

=============================================================================
