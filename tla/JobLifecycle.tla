---------------------------- MODULE JobLifecycle ----------------------------
(***************************************************************************)
(* What the editorial job queue promises to the pipeline, without clock,   *)
(* leases, payloads or order: a job is submitted once, held by at most one *)
(* worker, ended only by its holder, and buried only after MaxAttempts     *)
(* claims and together with the notice of its death.                       *)
(***************************************************************************)
EXTENDS Naturals

CONSTANTS Jobs, Workers, NoWorker, MaxAttempts

VARIABLES
  phase,   \* "none", "queued", "held", "done" or "dead"
  holder,  \* the worker that holds a held job
  claims,  \* how often a job was taken
  noticed  \* the jobs whose death is on record

lifecycleVars == <<phase, holder, claims, noticed>>

LifecycleInit ==
  /\ phase = [j \in Jobs |-> "none"]
  /\ holder = [j \in Jobs |-> NoWorker]
  /\ claims = [j \in Jobs |-> 0]
  /\ noticed = {}

Submit(j) ==
  /\ phase[j] = "none"
  /\ phase' = [phase EXCEPT ![j] = "queued"]
  /\ UNCHANGED <<holder, claims, noticed>>

\* A worker takes some jobs, a held one from a worker that lost its lease.
Take(w, S) ==
  /\ \A j \in S : phase[j] \in {"queued", "held"}
  /\ phase' = [j \in Jobs |-> IF j \in S THEN "held" ELSE phase[j]]
  /\ holder' = [j \in Jobs |-> IF j \in S THEN w ELSE holder[j]]
  /\ claims' = [j \in Jobs |-> IF j \in S THEN claims[j] + 1 ELSE claims[j]]
  /\ UNCHANGED noticed

Holds(w, j) == phase[j] = "held" /\ holder[j] = w

Release(j, p) ==
  /\ phase' = [phase EXCEPT ![j] = p]
  /\ holder' = [holder EXCEPT ![j] = NoWorker]
  /\ UNCHANGED claims

Finish(w, j) == Holds(w, j) /\ Release(j, "done") /\ UNCHANGED noticed

GiveBack(w, j) ==
  /\ Holds(w, j) /\ claims[j] < MaxAttempts[j]
  /\ Release(j, "queued") /\ UNCHANGED noticed

Bury(w, j) ==
  /\ Holds(w, j) /\ claims[j] >= MaxAttempts[j]
  /\ Release(j, "dead") /\ noticed' = noticed \cup {j}

LifecycleNext ==
  \/ \E j \in Jobs : Submit(j)
  \/ \E w \in Workers, S \in SUBSET Jobs : Take(w, S)
  \/ \E w \in Workers, j \in Jobs : Finish(w, j) \/ GiveBack(w, j) \/ Bury(w, j)

LifecycleSpec == LifecycleInit /\ [][LifecycleNext]_lifecycleVars
=============================================================================
