----------------------- MODULE CreativeGeneration_proof -----------------------
(***************************************************************************)
(* Proofs about creative generation, for any number of overlapping         *)
(* requests, fingerprints, candidates and answers of the provider.         *)
(***************************************************************************)
EXTENDS CreativeGeneration, FiniteSetTheorems, TLAPS

\* The revisions of a candidate are numbered without a gap, and a request that is
\* about to store one has a number that was free or next when it looked.
StoredOf(c) == {k \in Keys : CandidateOf[k] = c /\ Stored(k)}

Numbered(c) ==
  /\ IsFiniteSet(StoredOf(c)) /\ Versions(c) = 1..Cardinality(StoredOf(c))

Numbers(r) ==
  At(r, "store") => run[r].version \in 1..(Cardinality(StoredOf(CandidateOf[run[r].key])) + 1)

\* A request knows the content mode before it asks the provider; a STANDARD one from
\* the start.
Moded(q) ==
  /\ q.pc # "idle"
  /\ q.key \in Standards \/ q.pc \in {"recheck", "generate", "repair", "revision", "store", "finish"}
  => q.mode \in Modes

CreativeInv ==
  /\ TypeOK
  /\ \A r \in Runs : Moded(run[r])
  /\ \A c \in Candidates : Numbered(c)
  /\ \A r \in Runs : Numbers(r)

\* A request finishes when its brief is stored.
FinishInv ==
  FinishedJobsHaveBriefs /\ \A r \in Runs : At(r, "finish") => Stored(run[r].key)

\* What a request of a STANDARD fingerprint holds while no request has outlived its
\* lease: the lease of the job is its own, and no earlier request can close the job.
Leases(r) ==
  Holding(r) /\ run[r].key \in Standards => jobs[run[r].key].expires = run[r].at + LeaseTime

Timely(r) ==
  ~At(r, "idle") =>
    /\ run[r].at <= now /\ now < run[r].at + LeaseTime
    /\ run[r].key \notin Blocked
    /\ run[r].pc \in {"reserve", "reread"} => run[r].key \in Explorations

LeaseInv ==
  ~slow => LeaseExcludes(Standards) /\ \A r \in Runs : Leases(r) /\ Timely(r)

\* What is about to be stored, and what is stored for a STANDARD fingerprint, the
\* gate has accepted.
Passed(r) == run[r].pc \in {"revision", "store"} => Accepts(run[r], run[r].answer)

PassInv == NewsClaimsAreBacked /\ \A r \in Runs : Passed(r)

-----------------------------------------------------------------------------
(* What the steps of a request have in common.                             *)

\* A step of r for k leaves every other request and every other job alone.
Only(r, k) ==
  /\ jobs' \in [Keys -> Job] /\ \A i \in Keys \ {k} : jobs'[i] = jobs[i]
  /\ run' \in [Runs -> Running \cup {Idle}] /\ \A s \in Runs \ {r} : run'[s] = run[s]
  /\ now' = now /\ slow' = slow /\ starts' \in 0..MaxStarts

\* The job's row is as it was, but for its status.
Keeps(k) == jobs'[k].brief = jobs[k].brief

\* A request begins.
Begins(r, k) ==
  /\ At(r, "idle") /\ jobs'[k] = jobs[k] /\ briefs' = briefs
  /\ run'[r] \in Running /\ run'[r].pc \in {"lookup", "reserve"}
  /\ run'[r].key = k /\ run'[r].at = now /\ k \notin Blocked
  /\ run'[r].pc = "reserve" => k \in Explorations

\* A request without a source ends where it begins.
Blocks(r, k) ==
  /\ At(r, "idle") /\ k \in Blocked /\ run'[r] = run[r] /\ briefs' = briefs
  /\ jobs'[k].status = "FAILED" /\ Keeps(k)

\* On the way to the lease.
Prepares(r, k) ==
  /\ run[r] \in Running /\ run[r].key = k /\ run[r].pc \in {"reserve", "reread", "lookup", "insert"}
  /\ \/ run'[r] = Idle
     \/ \E pc \in {"reread", "insert", "acquire"} :
          /\ run'[r] = [run[r] EXCEPT !.pc = pc]
          /\ pc = "reread" => run[r].pc = "reserve"
  /\ \/ jobs'[k] = jobs[k]
     \/ /\ jobs'[k].status = "QUEUED" /\ Keeps(k)
        /\ run[r].pc = "reserve" \/ jobs'[k].expires = jobs[k].expires
  /\ briefs' = briefs

Acquires(r, k) ==
  /\ At(r, "acquire") /\ run[r] \in Running /\ run[r].key = k /\ LeaseOver(jobs[k], run[r].at)
  /\ jobs'[k].status \in {jobs[k].status, "GENERATING"} /\ Keeps(k)
  /\ jobs'[k].expires = run[r].at + LeaseTime
  /\ run'[r] = [run[r] EXCEPT !.pc = "mark"] /\ briefs' = briefs

\* Under the lease, up to the answer.
Works(r, k) ==
  /\ Holding(r) /\ run[r] \in Running /\ run[r].key = k /\ run'[r] \in Running
  /\ run'[r].key = k /\ run'[r].at = run[r].at /\ briefs' = briefs
  /\ run'[r].pc \in {"classify", "recheck", "generate", "repair", "revision"}
  /\ run'[r].pc = "revision" =>
       /\ run'[r].mode = run[r].mode /\ run'[r].historical = run[r].historical
       /\ Accepts(run[r], run'[r].answer)
  /\ \/ jobs'[k] = jobs[k]
     \/ /\ jobs'[k].status = "GENERATING" /\ Keeps(k)
        /\ jobs'[k].expires = run[r].at + LeaseTime

\* The revision is read.
Revises(r, k) ==
  /\ At(r, "revision") /\ run[r] \in Running /\ run[r].key = k /\ jobs' = jobs /\ briefs' = briefs
  /\ run'[r] = [run[r] EXCEPT !.pc = "store",
                  !.version = Cardinality(StoredOf(CandidateOf[k])) + 1]

\* The brief is stored.
Stores(r, k) ==
  /\ At(r, "store") /\ run[r] \in Running /\ run[r].key = k /\ jobs' = jobs
  /\ Insertable(k, run[r].version)
  /\ run'[r] = [run[r] EXCEPT !.pc = "finish"]
  /\ briefs' = [briefs EXCEPT ![k] =
       [status |-> BriefStatus(run[r]), version |-> run[r].version, answer |-> run[r].answer]]

\* A request ends: it was cut off, gave up, or found its brief stored.
Ends(r, k) ==
  /\ run[r] \in Running /\ run[r].key = k /\ run'[r] = Idle /\ briefs' = briefs
  /\ \/ jobs'[k] = jobs[k]
     \/ Holding(r) /\ jobs'[k].status = "FAILED" /\ Keeps(k)
     \/ /\ Holding(r) /\ (At(r, "finish") \/ Stored(k))
        /\ jobs'[k].status = briefs[k].status /\ jobs'[k].brief

Does(r, k) ==
  /\ Only(r, k)
  /\ \/ Begins(r, k) \/ Blocks(r, k) \/ Prepares(r, k) \/ Acquires(r, k) \/ Works(r, k)
     \/ Revises(r, k) \/ Stores(r, k) \/ Ends(r, k)

LEMMA RunsAreTyped ==
  ASSUME CreativeInv, NEW r \in Runs, ~At(r, "idle")
  PROVE  /\ run[r] \in Running /\ run[r].key \in Keys /\ run[r].at \in Time
         /\ jobs \in [Keys -> Job] /\ run \in [Runs -> Running \cup {Idle}]
BY DEF CreativeInv, TypeOK, At, Idle, Running

\* The lease a request asks for has a time.
LEMMA LeaseTimes ==
  ASSUME NEW at \in Time
  PROVE  at + LeaseTime \in 0..(Horizon + LeaseTime) /\ at + LeaseTime # NoTime
BY CreativeAssumption DEF Time, NoTime

LEMMA Patching ==
  ASSUME CreativeInv, NEW k \in Keys, NEW status \in JobStatus,
         NEW expires \in 0..(Horizon + LeaseTime) \cup {NoTime}, Patch(k, status, expires)
  PROVE  /\ jobs' \in [Keys -> Job] /\ \A i \in Keys \ {k} : jobs'[i] = jobs[i]
         /\ jobs'[k].status = status /\ jobs'[k].expires = expires /\ Keeps(k)
BY DEF CreativeInv, TypeOK, Patch, Job, Keeps

LEMMA Linking ==
  ASSUME CreativeInv, NEW k \in Keys, NEW status \in JobStatus, Link(k, status)
  PROVE  /\ jobs' \in [Keys -> Job] /\ \A i \in Keys \ {k} : jobs'[i] = jobs[i]
         /\ jobs'[k].status = status /\ jobs'[k].brief
BY DEF CreativeInv, TypeOK, Link, Job

LEMMA Going ==
  ASSUME CreativeInv, NEW r \in Runs, ~At(r, "idle"), NEW pc \in Steps \ {"idle"}, Goto(r, pc)
  PROVE  /\ run' \in [Runs -> Running \cup {Idle}] /\ \A s \in Runs \ {r} : run'[s] = run[s]
         /\ run'[r] = [run[r] EXCEPT !.pc = pc] /\ run'[r] \in Running
<1>1. run[r] \in Running /\ run \in [Runs -> Running \cup {Idle}]
  BY RunsAreTyped
<1> DEFINE q == [run[r] EXCEPT !.pc = pc]
<1>2. q \in Running
  BY <1>1 DEF Running
<1>3. run' = [run EXCEPT ![r] = q]
  BY DEF Goto
<1> HIDE DEF q
<1>4. /\ run' \in [Runs -> Running \cup {Idle}] /\ \A s \in Runs \ {r} : run'[s] = run[s]
      /\ run'[r] = q
  BY <1>1, <1>2, <1>3
<1> QED
  BY <1>2, <1>4 DEF q

LEMMA Ending ==
  ASSUME CreativeInv, NEW r \in Runs, End(r)
  PROVE  /\ run' \in [Runs -> Running \cup {Idle}] /\ \A s \in Runs \ {r} : run'[s] = run[s]
         /\ run'[r] = Idle
BY DEF CreativeInv, TypeOK, End

LEMMA Beginning ==
  ASSUME CreativeInv, NEW r \in Runs, NEW k \in Keys, NEW pc \in {"lookup", "reserve"},
         NEW mode \in Modes \cup {"NONE"}, NEW eligible \in BOOLEAN, NEW historical \in BOOLEAN,
         Begin(r, k, pc, mode, eligible, historical), UNCHANGED jobs,
         k \notin Blocked, pc = "reserve" => k \in Explorations, k \in Standards => mode \in Modes
  PROVE  Only(r, k) /\ Begins(r, k) /\ Moded(run'[r])
<1> DEFINE q == [pc |-> pc, key |-> k, at |-> now, version |-> 0, mode |-> mode, answer |-> NoAnswer,
                 eligible |-> eligible, historical |-> historical]
<1>1. q \in Running /\ q.pc = pc /\ q.key = k /\ q.at = now /\ q.mode = mode
  BY DEF CreativeInv, TypeOK, Running, Steps
<1>2. run' = [run EXCEPT ![r] = q]
  BY DEF Begin
<1> HIDE DEF q
<1>3. /\ run' \in [Runs -> Running \cup {Idle}] /\ \A s \in Runs \ {r} : run'[s] = run[s]
      /\ run'[r] = q
  BY <1>1, <1>2 DEF CreativeInv, TypeOK
<1>4. starts' \in 0..MaxStarts
  BY CreativeAssumption DEF Begin, CreativeInv, TypeOK
<1> QED
  BY <1>1, <1>3, <1>4 DEF Begin, Only, Begins, Moded, CreativeInv, TypeOK

\* Each call of a request is one of the kinds of step above.
LEMMA StartsAreKinds ==
  ASSUME CreativeInv, NEW r \in Runs, NEW k \in Keys,
         \/ k \in Standards /\ (StartStandard(r, k) \/ StartBlocked(r, k))
         \/ k \in Explorations /\ StartExploration(r, k)
  PROVE  Does(r, k) /\ Moded(run'[r])
<1>0. /\ Blocked \subseteq Standards /\ (k \in Explorations => k \notin Standards)
      /\ jobs \in [Keys -> Job] /\ run \in [Runs -> Running \cup {Idle}]
      /\ \A s \in Runs : Moded(run[s])
  BY CreativeAssumption DEF Blocked, CreativeInv, TypeOK
<1>1. CASE k \in Standards /\ StartStandard(r, k)
  <2>1. ModeOf[k] \in Modes /\ Eligible(k) \in BOOLEAN
    BY <1>1, CreativeAssumption DEF Eligible, CurrentEditorialEligibility
  <2> QED
    BY <1>0, <1>1, <2>1, Beginning DEF StartStandard, Does
<1>2. CASE k \in Standards /\ StartBlocked(r, k)
  <2>1. /\ jobs' \in [Keys -> Job] /\ \A i \in Keys \ {k} : jobs'[i] = jobs[i]
        /\ jobs'[k].status = "FAILED" /\ Keeps(k)
    BY <1>0, <1>2 DEF StartBlocked, Job, JobStatus, Keeps
  <2>2. starts' \in 0..MaxStarts
    BY <1>2, CreativeAssumption DEF StartBlocked, CreativeInv, TypeOK
  <2> QED
    BY <1>0, <1>2, <2>1, <2>2 DEF StartBlocked, Does, Only, Blocks
<1>3. CASE k \in Explorations /\ StartExploration(r, k)
  <2>1. PICK mode \in Modes \cup {"NONE"}, historical \in BOOLEAN :
             Begin(r, k, "reserve", mode, FALSE, historical) /\ UNCHANGED jobs
    BY <1>3 DEF StartExploration, Modes
  <2> QED
    BY <1>0, <1>3, <2>1, Beginning DEF Does
<1> QED
  BY <1>1, <1>2, <1>3

LEMMA PreparationsAreKinds ==
  ASSUME CreativeInv, NEW r \in Runs, NEW k \in Keys, k = run[r].key,
         Reserve(r) \/ Reread(r) \/ Lookup(r) \/ InsertJob(r)
  PROVE  Only(r, k) /\ (Prepares(r, k) \/ Ends(r, k)) /\ Moded(run'[r])
<1>0. /\ run[r] \in Running /\ Moded(run[r]) /\ ~At(r, "idle")
      /\ run[r].pc \in {"reserve", "reread", "lookup", "insert"}
      /\ jobs \in [Keys -> Job] /\ starts \in 0..MaxStarts /\ run[r].at \in Time
  BY RunsAreTyped DEF Reserve, Reread, Lookup, InsertJob, At, CreativeInv, TypeOK
<1>1. /\ now' = now /\ slow' = slow /\ starts' = starts /\ briefs' = briefs
  BY DEF Reserve, Reread, Lookup, InsertJob
<1>2. ASSUME NEW pc \in {"reread", "insert", "acquire"}, Goto(r, pc), pc = "reread" => At(r, "reserve"),
             jobs' \in [Keys -> Job], \A i \in Keys \ {k} : jobs'[i] = jobs[i],
             \/ jobs'[k] = jobs[k]
             \/ /\ jobs'[k].status = "QUEUED" /\ Keeps(k)
                /\ At(r, "reserve") \/ jobs'[k].expires = jobs[k].expires
      PROVE  Only(r, k) /\ Prepares(r, k) /\ Moded(run'[r])
  <2>1. pc \in Steps \ {"idle"}
    BY DEF Steps
  <2>2. /\ run' \in [Runs -> Running \cup {Idle}] /\ \A s \in Runs \ {r} : run'[s] = run[s]
        /\ run'[r] = [run[r] EXCEPT !.pc = pc]
    BY <1>0, <1>2, <2>1, Going
  <2>3. Moded(run'[r])
    BY <1>0, <2>2 DEF Moded, Running
  <2> QED
    BY <1>0, <1>1, <1>2, <2>2, <2>3 DEF Only, Prepares, At
<1>3. ASSUME End(r), UNCHANGED jobs
      PROVE  Only(r, k) /\ Ends(r, k) /\ Moded(run'[r])
  BY <1>0, <1>1, <1>3, Ending DEF Only, Ends, Moded, Idle
<1>4. CASE Reserve(r)
  <2>1. CASE ReserveAgain(r, k, run[r].at)
    <3>1. /\ jobs' \in [Keys -> Job] /\ \A i \in Keys \ {k} : jobs'[i] = jobs[i]
          /\ jobs'[k].status = "QUEUED" /\ Keeps(k)
      <4> DEFINE row == [jobs[k] EXCEPT !.status = "QUEUED", !.expires = NoTime, !.reservedAt = run[r].at]
      <4>1. jobs' = [jobs EXCEPT ![k] = row]
        BY <2>1 DEF ReserveAgain
      <4>2. jobs[k] \in Job /\ run[r].at \in Time
        BY <1>0 DEF Running
      <4>3. row \in Job /\ row.status = "QUEUED" /\ row.brief = jobs[k].brief
        BY <4>2 DEF Job, JobStatus
      <4> HIDE DEF row
      <4> QED
        BY <1>0, <4>1, <4>3 DEF Keeps
    <3> QED
      BY <1>2, <1>4, <2>1, <3>1 DEF ReserveAgain, Reserve
  <2>2. CASE ReserveExisting(r, k, run[r].at)
    BY <1>0, <1>2, <1>4, <2>2 DEF ReserveExisting, Reserve
  <2>3. CASE ReserveNew(r, k, run[r].at)
    <3>1. /\ jobs' \in [Keys -> Job] /\ \A i \in Keys \ {k} : jobs'[i] = jobs[i]
          /\ jobs'[k].status = "QUEUED" /\ Keeps(k)
      <4> DEFINE row == [jobs[k] EXCEPT !.status = "QUEUED", !.reservedAt = run[r].at]
      <4>1. jobs' = [jobs EXCEPT ![k] = row]
        BY <2>3 DEF ReserveNew
      <4>2. jobs[k] \in Job /\ run[r].at \in Time
        BY <1>0 DEF Running
      <4>3. row \in Job /\ row.status = "QUEUED" /\ row.brief = jobs[k].brief
        BY <4>2 DEF Job, JobStatus
      <4> HIDE DEF row
      <4> QED
        BY <1>0, <4>1, <4>3 DEF Keeps
    <3> QED
      BY <1>2, <1>4, <2>3, <3>1 DEF ReserveNew, Reserve
  <2>4. CASE ReserveRefused(r, k, run[r].at)
    BY <1>3, <2>4 DEF ReserveRefused
  <2> QED
    BY <1>4, <2>1, <2>2, <2>3, <2>4 DEF Reserve
<1>5. CASE Reread(r) \/ Lookup(r)
  BY <1>0, <1>2, <1>3, <1>5 DEF Reread, Lookup
<1>6. CASE InsertJob(r)
  <2>1. /\ jobs' \in [Keys -> Job] /\ \A i \in Keys \ {k} : jobs'[i] = jobs[i]
        /\ \/ jobs'[k] = jobs[k]
           \/ jobs'[k].status = "QUEUED" /\ Keeps(k) /\ jobs'[k].expires = jobs[k].expires
    BY <1>0, <1>6 DEF InsertJob, Job, JobStatus, Keeps
  <2> QED
    BY <1>2, <1>6, <2>1 DEF InsertJob
<1> QED
  BY <1>4, <1>5, <1>6

LEMMA LeasingIsAKind ==
  ASSUME CreativeInv, NEW r \in Runs, NEW k \in Keys, k = run[r].key, Acquire(r) \/ Mark(r)
  PROVE  Does(r, k) /\ Moded(run'[r])
<1>0. /\ run[r] \in Running /\ Moded(run[r]) /\ ~At(r, "idle")
      /\ run[r].pc \in {"acquire", "mark"}
      /\ jobs \in [Keys -> Job] /\ starts \in 0..MaxStarts /\ run[r].at \in Time
  BY RunsAreTyped DEF Acquire, Mark, At, CreativeInv, TypeOK
<1>1. /\ now' = now /\ slow' = slow /\ starts' = starts /\ briefs' = briefs
  BY DEF Acquire, Mark
<1>2. /\ jobs[k].status \in JobStatus /\ "GENERATING" \in JobStatus
      /\ run[r].at + LeaseTime \in 0..(Horizon + LeaseTime)
  BY <1>0, LeaseTimes DEF Job, JobStatus
<1>3. CASE Acquire(r) /\ LeaseOver(jobs[k], run[r].at)
  <2>1. PICK status \in {jobs[k].status, "GENERATING"} :
             Patch(k, status, run[r].at + LeaseTime) /\ Goto(r, "mark") /\ At(r, "acquire")
    BY <1>3 DEF Acquire
  <2>2. "mark" \in Steps \ {"idle"}
    BY DEF Steps
  <2>3. /\ run' \in [Runs -> Running \cup {Idle}] /\ \A s \in Runs \ {r} : run'[s] = run[s]
        /\ run'[r] = [run[r] EXCEPT !.pc = "mark"]
    BY <1>0, <2>1, <2>2, Going
  <2>4. /\ jobs' \in [Keys -> Job] /\ \A i \in Keys \ {k} : jobs'[i] = jobs[i]
        /\ jobs'[k].status = status /\ jobs'[k].expires = run[r].at + LeaseTime /\ Keeps(k)
    BY <1>2, <2>1, Patching
  <2>5. Moded(run'[r])
    BY <1>0, <2>3 DEF Moded, Running
  <2> QED
    BY <1>0, <1>1, <1>3, <2>1, <2>3, <2>4, <2>5 DEF Does, Only, Acquires
<1>4. CASE Acquire(r) /\ ~LeaseOver(jobs[k], run[r].at)
  <2>1. UNCHANGED jobs /\ End(r)
    BY <1>4 DEF Acquire
  <2> QED
    BY <1>0, <1>1, <2>1, Ending DEF Does, Only, Ends, Moded, Idle
<1>5. CASE Mark(r)
  <2>1. PICK pc \in {"classify", "generate"} :
             Goto(r, pc) /\ (pc = "generate" => k \in Standards)
    BY <1>5 DEF Mark, Keys
  <2>2. pc \in Steps \ {"idle"}
    BY DEF Steps
  <2>3. /\ run' \in [Runs -> Running \cup {Idle}] /\ \A s \in Runs \ {r} : run'[s] = run[s]
        /\ run'[r] = [run[r] EXCEPT !.pc = pc] /\ run'[r] \in Running
    BY <1>0, <2>1, <2>2, Going
  <2>4. /\ jobs' \in [Keys -> Job] /\ \A i \in Keys \ {k} : jobs'[i] = jobs[i]
        /\ jobs'[k].status = "GENERATING" /\ jobs'[k].expires = run[r].at + LeaseTime /\ Keeps(k)
    BY <1>2, <1>5, Patching DEF Mark
  <2>5. /\ run'[r].pc = pc /\ run'[r].key = k /\ run'[r].at = run[r].at
        /\ run'[r].mode = run[r].mode
    BY <1>0, <2>3 DEF Running
  <2>6. Moded(run'[r])
    BY <1>0, <2>1, <2>5 DEF Moded, At
  <2>7. Works(r, k)
    BY <1>0, <1>1, <1>5, <2>3, <2>4, <2>5 DEF Works, Holding, Mark, At
  <2> QED
    BY <1>0, <1>1, <2>3, <2>4, <2>6, <2>7 DEF Does, Only
<1> QED
  BY <1>3, <1>4, <1>5

\* A pair that is not the undecided one names a mode.
LEMMA ClassifiedModes ==
  ASSUME NEW signals, NEW c \in ClassifyWithFallback(signals), c # Undecided
  PROVE  c[1] \in Modes
BY DEF ClassifyWithFallback, ClassifyDeterministically, Undecided, Modes

LEMMA WorkingIsAKind ==
  ASSUME CreativeInv, NEW r \in Runs, NEW k \in Keys, k = run[r].key,
         Classify(r) \/ Recheck(r) \/ Generate(r) \/ Repair(r)
  PROVE  Does(r, k) /\ Moded(run'[r])
<1>0. /\ run[r] \in Running /\ Moded(run[r]) /\ ~At(r, "idle")
      /\ run[r].pc \in {"classify", "recheck", "generate", "repair"} /\ Holding(r)
      /\ jobs \in [Keys -> Job] /\ starts \in 0..MaxStarts /\ run \in [Runs -> Running \cup {Idle}]
  BY RunsAreTyped DEF Classify, Recheck, Generate, Repair, At, Holding, CreativeInv, TypeOK
<1>1. /\ now' = now /\ slow' = slow /\ starts' = starts /\ briefs' = briefs
  BY DEF Classify, Recheck, Generate, Repair
<1>2. ASSUME GiveUp(r)
      PROVE  Does(r, k) /\ Moded(run'[r])
  <2>1. "FAILED" \in JobStatus
    BY DEF JobStatus
  <2>2. /\ jobs' \in [Keys -> Job] /\ \A i \in Keys \ {k} : jobs'[i] = jobs[i]
        /\ jobs'[k].status = "FAILED" /\ Keeps(k)
    BY <1>2, <2>1, Patching DEF GiveUp
  <2>3. /\ run' \in [Runs -> Running \cup {Idle}] /\ \A s \in Runs \ {r} : run'[s] = run[s]
        /\ run'[r] = Idle
    BY <1>2, Ending DEF GiveUp
  <2> QED
    BY <1>0, <1>1, <2>2, <2>3 DEF Does, Only, Ends, Moded, Idle
<1>3. ASSUME NEW q \in Running, run' = [run EXCEPT ![r] = q], UNCHANGED jobs,
             q.key = k, q.at = run[r].at, q.mode \in Modes,
             q.pc \in {"recheck", "generate", "repair", "revision"},
             q.pc = "revision" =>
               /\ q.mode = run[r].mode /\ q.historical = run[r].historical
               /\ Accepts(run[r], q.answer)
      PROVE  Does(r, k) /\ Moded(run'[r])
  <2>1. /\ run' \in [Runs -> Running \cup {Idle}] /\ \A s \in Runs \ {r} : run'[s] = run[s]
        /\ run'[r] = q
    BY <1>0, <1>3
  <2> QED
    BY <1>0, <1>1, <1>3, <2>1 DEF Does, Only, Works, Moded
<1>4. ASSUME NEW pc \in {"generate", "repair"}, Goto(r, pc), UNCHANGED jobs, run[r].mode \in Modes
      PROVE  Does(r, k) /\ Moded(run'[r])
  <2> DEFINE q == [run[r] EXCEPT !.pc = pc]
  <2>1. q \in Running /\ q.key = k /\ q.at = run[r].at /\ q.mode = run[r].mode /\ q.pc = pc
    BY <1>0 DEF Running, Steps
  <2>2. run' = [run EXCEPT ![r] = q]
    BY <1>4 DEF Goto
  <2> HIDE DEF q
  <2> QED
    BY <1>3, <1>4, <2>1, <2>2
<1>5. ASSUME NEW answer \in Answers, Answered(r, answer), Accepts(run[r], answer), UNCHANGED jobs,
             run[r].mode \in Modes
      PROVE  Does(r, k) /\ Moded(run'[r])
  <2> DEFINE q == [run[r] EXCEPT !.pc = "revision", !.answer = answer]
  <2>1. /\ q \in Running /\ q.key = k /\ q.at = run[r].at /\ q.mode = run[r].mode
        /\ q.pc = "revision" /\ q.answer = answer /\ q.historical = run[r].historical
    BY <1>0 DEF Running, Steps
  <2>2. run' = [run EXCEPT ![r] = q]
    BY <1>5 DEF Answered
  <2> HIDE DEF q
  <2> QED
    BY <1>3, <1>5, <2>1, <2>2
<1>6. CASE Classify(r)
  <2>1. PICK c \in IF run[r].mode # "NONE" THEN {<<run[r].mode, NoPhase>>}
                   ELSE ClassifyWithFallback(RowsOf[k].signals) :
             IF c = Undecided THEN GiveUp(r)
             ELSE run' = [run EXCEPT ![r] = [run[r] EXCEPT !.pc = "recheck", !.mode = c[1]]] /\ UNCHANGED jobs
    BY <1>6 DEF Classify, GiveUp
  <2>2. CASE c = Undecided
    BY <1>2, <2>1, <2>2
  <2>3. CASE c # Undecided
    <3>1. c[1] \in Modes
      <4>1. CASE run[r].mode # "NONE"
        BY <1>0, <2>1, <4>1 DEF Running
      <4>2. CASE run[r].mode = "NONE"
        BY <2>1, <2>3, <4>2, ClassifiedModes
      <4> QED
        BY <4>1, <4>2
    <3> DEFINE q == [run[r] EXCEPT !.pc = "recheck", !.mode = c[1]]
    <3>2. q \in Running /\ q.key = k /\ q.at = run[r].at /\ q.mode = c[1] /\ q.pc = "recheck"
      BY <1>0, <3>1 DEF Running, Steps
    <3>3. run' = [run EXCEPT ![r] = q] /\ UNCHANGED jobs
      BY <2>1, <2>3
    <3> HIDE DEF q
    <3> QED
      BY <1>3, <3>1, <3>2, <3>3
  <2> QED
    BY <2>2, <2>3
<1>7. CASE Recheck(r)
  <2>1. run[r].mode \in Modes
    BY <1>0, <1>7 DEF Moded, Recheck, At
  <2>2. CASE Stored(k)
    <3>1. Link(k, briefs[k].status) /\ End(r)
      BY <1>7, <2>2 DEF Recheck
    <3>2. briefs[k].status \in JobStatus
      BY DEF CreativeInv, TypeOK, Brief, JobStatus
    <3>3. /\ jobs' \in [Keys -> Job] /\ \A i \in Keys \ {k} : jobs'[i] = jobs[i]
          /\ jobs'[k].status = briefs[k].status /\ jobs'[k].brief
      BY <3>1, <3>2, Linking
    <3> QED
      BY <1>0, <1>1, <2>2, <3>1, <3>3, Ending DEF Does, Only, Ends, Moded, Idle
  <2>3. CASE ~Stored(k)
    BY <1>4, <1>7, <2>1, <2>3 DEF Recheck
  <2> QED
    BY <2>2, <2>3
<1>8. CASE Generate(r)
  <2>1. run[r].mode \in Modes
    BY <1>0, <1>8 DEF Moded, Generate, At
  <2> QED
    BY <1>2, <1>4, <1>5, <1>8, <2>1 DEF Generate
<1>9. CASE Repair(r)
  <2>1. run[r].mode \in Modes
    BY <1>0, <1>9 DEF Moded, Repair, At
  <2> QED
    BY <1>2, <1>5, <1>9, <2>1 DEF Repair
<1> QED
  BY <1>6, <1>7, <1>8, <1>9

\* The greatest revision is the number of them.
LEMMA GreatestRevision ==
  ASSUME CreativeInv, NEW c \in Candidates
  PROVE  /\ Cardinality(StoredOf(c)) \in Nat
         /\ Max(Versions(c) \cup {0}) = Cardinality(StoredOf(c))
<1> DEFINE n == Cardinality(StoredOf(c))
           S == Versions(c) \cup {0}
<1>1. n \in Nat /\ Versions(c) = 1..n
  BY FS_CardinalityType DEF CreativeInv, Numbered
<1> HIDE DEF n
<1>2. n \in S /\ \A x \in S : x \in Int /\ x <= n
  BY <1>1
<1>3. \A x \in S : (\A y \in S : x >= y) => x = n
  <2> SUFFICES ASSUME NEW x \in S, \A y \in S : x >= y PROVE x = n
    OBVIOUS
  <2> QED
    BY <1>1, <1>2
<1>4. \A y \in S : n >= y
  BY <1>1, <1>2
<1> HIDE DEF S
<1>5. Max(S) = n
  BY <1>2, <1>3, <1>4 DEF Max
<1> QED
  BY <1>1, <1>5 DEF S, n

LEMMA StoringIsAKind ==
  ASSUME CreativeInv, NEW r \in Runs, NEW k \in Keys, k = run[r].key,
         NextRevision(r) \/ StoreBrief(r) \/ Finish(r) \/ Cut(r)
  PROVE  Does(r, k) /\ Moded(run'[r])
<1>0. /\ run[r] \in Running /\ Moded(run[r]) /\ ~At(r, "idle")
      /\ jobs \in [Keys -> Job] /\ starts \in 0..MaxStarts /\ run \in [Runs -> Running \cup {Idle}]
  BY RunsAreTyped DEF NextRevision, StoreBrief, Finish, Cut, At, CreativeInv, TypeOK
<1>1. /\ now' = now /\ slow' = slow /\ starts' = starts
  BY DEF NextRevision, StoreBrief, Finish, Cut
<1>2. ASSUME End(r), UNCHANGED jobs, UNCHANGED briefs
      PROVE  Does(r, k) /\ Moded(run'[r])
  BY <1>0, <1>1, <1>2, Ending DEF Does, Only, Ends, Moded, Idle
<1>3. CASE NextRevision(r)
  <2> DEFINE n == Cardinality(StoredOf(CandidateOf[k]))
             q == [run[r] EXCEPT !.pc = "store", !.version = n + 1]
  <2>1. n \in Nat /\ Max(Versions(CandidateOf[k]) \cup {0}) = n
    BY CreativeAssumption, GreatestRevision
  <2>2. run' = [run EXCEPT ![r] = q]
    BY <1>3, <2>1 DEF NextRevision
  <2>0. n + 1 \in Nat
    BY <2>1
  <2> HIDE DEF n
  <2>3. q \in Running /\ q.pc = "store" /\ q.key = k /\ q.mode = run[r].mode
    <3> DEFINE m == n + 1
    <3>1. m \in Nat
      BY <2>0
    <3> HIDE DEF m
    <3>2. [run[r] EXCEPT !.pc = "store", !.version = m] \in Running
      BY <1>0, <3>1 DEF Running, Steps
    <3>3. q = [run[r] EXCEPT !.pc = "store", !.version = m]
      BY DEF m
    <3> QED
      BY <1>0, <3>2, <3>3 DEF Running
  <2> HIDE DEF q
  <2>4. /\ run' \in [Runs -> Running \cup {Idle}] /\ \A s \in Runs \ {r} : run'[s] = run[s]
        /\ run'[r] = q
    BY <1>0, <2>2, <2>3
  <2>5. Moded(run'[r])
    BY <1>0, <1>3, <2>3, <2>4 DEF Moded, NextRevision, At
  <2>6. UNCHANGED jobs /\ UNCHANGED briefs /\ At(r, "revision")
    BY <1>3 DEF NextRevision
  <2> QED
    BY <1>0, <1>1, <2>4, <2>5, <2>6 DEF Does, Only, Revises, q, n
<1>4. CASE StoreBrief(r) /\ Insertable(k, run[r].version)
  <2>1. Goto(r, "finish") /\ At(r, "store") /\ UNCHANGED jobs
    BY <1>4 DEF StoreBrief
  <2>2. "finish" \in Steps \ {"idle"}
    BY DEF Steps
  <2>3. /\ run' \in [Runs -> Running \cup {Idle}] /\ \A s \in Runs \ {r} : run'[s] = run[s]
        /\ run'[r] = [run[r] EXCEPT !.pc = "finish"]
    BY <1>0, <2>1, <2>2, Going
  <2>4. Moded(run'[r])
    BY <1>0, <2>1, <2>3 DEF Moded, Running, At
  <2>5. briefs' = [briefs EXCEPT ![k] =
          [status |-> BriefStatus(run[r]), version |-> run[r].version, answer |-> run[r].answer]]
    BY <1>4 DEF StoreBrief
  <2> QED
    BY <1>0, <1>1, <1>4, <2>1, <2>3, <2>4, <2>5 DEF Does, Only, Stores
<1>5. CASE StoreBrief(r) /\ ~Insertable(k, run[r].version)
  BY <1>2, <1>5 DEF StoreBrief
<1>6. CASE Finish(r)
  <2>1. Link(k, briefs[k].status) /\ End(r) /\ UNCHANGED briefs /\ At(r, "finish")
    BY <1>6 DEF Finish
  <2>2. briefs[k].status \in JobStatus
    BY DEF CreativeInv, TypeOK, Brief, JobStatus
  <2>3. /\ jobs' \in [Keys -> Job] /\ \A i \in Keys \ {k} : jobs'[i] = jobs[i]
        /\ jobs'[k].status = briefs[k].status /\ jobs'[k].brief
    BY <2>1, <2>2, Linking
  <2> QED
    BY <1>0, <1>1, <2>1, <2>3, Ending DEF Does, Only, Ends, Moded, Idle, Holding, At
<1>7. CASE Cut(r)
  BY <1>2, <1>7 DEF Cut
<1> QED
  BY <1>3, <1>4, <1>5, <1>6, <1>7

\* What a step is.
LEMMA StepsAreKinds ==
  ASSUME CreativeInv, [Next]_vars
  PROVE  \/ UNCHANGED vars
         \/ Tick
         \/ \E r \in Runs : \E k \in Keys : Does(r, k) /\ Moded(run'[r])
<1>1. ASSUME NEW r \in Runs, NEW k \in Standards, StartStandard(r, k) \/ StartBlocked(r, k)
      PROVE  Does(r, k) /\ Moded(run'[r]) /\ k \in Keys
  BY <1>1, StartsAreKinds DEF Keys
<1>2. ASSUME NEW r \in Runs, NEW k \in Explorations, StartExploration(r, k)
      PROVE  Does(r, k) /\ Moded(run'[r]) /\ k \in Keys
  BY <1>2, StartsAreKinds DEF Keys
<1>3. ASSUME NEW r \in Runs,
             \/ Reserve(r) \/ Reread(r) \/ Lookup(r) \/ InsertJob(r) \/ Acquire(r) \/ Mark(r)
             \/ Classify(r) \/ Recheck(r) \/ Generate(r) \/ Repair(r) \/ NextRevision(r)
             \/ StoreBrief(r) \/ Finish(r) \/ Cut(r)
      PROVE  \E k \in Keys : Does(r, k) /\ Moded(run'[r])
  <2>1. ~At(r, "idle")
    BY <1>3 DEF Reserve, Reread, Lookup, InsertJob, Acquire, Mark, Classify, Recheck, Generate,
                Repair, NextRevision, StoreBrief, Finish, Cut, At
  <2>2. PICK k \in Keys : k = run[r].key
    BY <2>1, RunsAreTyped
  <2> QED
    BY <1>3, <2>2, PreparationsAreKinds, LeasingIsAKind, WorkingIsAKind, StoringIsAKind DEF Does
<1> QED
  BY <1>1, <1>2, <1>3 DEF Next

-----------------------------------------------------------------------------
(* Types and revisions.                                                    *)

\* A request that may store its brief has the next revision of its candidate.
LEMMA StoringNumbers ==
  ASSUME CreativeInv, NEW r \in Runs, NEW k \in Keys, Stores(r, k)
  PROVE  /\ briefs' \in [Keys -> Brief]
         /\ \A c \in Candidates : Numbered(c)' /\ \E m \in Nat :
              Cardinality(StoredOf(c))' = Cardinality(StoredOf(c)) + m
<1>0. /\ briefs \in [Keys -> Brief] /\ run[r] \in Running /\ Numbers(r) /\ At(r, "store")
      /\ Insertable(k, run[r].version) /\ run[r].key = k
  BY DEF CreativeInv, TypeOK, Stores
<1> DEFINE c0 == CandidateOf[k]
           n == Cardinality(StoredOf(c0))
           b == [status |-> BriefStatus(run[r]), version |-> run[r].version, answer |-> run[r].answer]
<1>1. c0 \in Candidates /\ k \notin StoredOf(c0) /\ ~Stored(k)
  BY <1>0, CreativeAssumption DEF Insertable, StoredOf
<1>2. n \in Nat /\ IsFiniteSet(StoredOf(c0)) /\ Versions(c0) = 1..n
  BY <1>1, FS_CardinalityType DEF CreativeInv, Numbered
<1>3. run[r].version = n + 1
  <2>1. run[r].version \in 1..(n + 1)
    BY <1>0 DEF Numbers
  <2>2. run[r].version \notin 1..n
    BY <1>0, <1>2 DEF Insertable
  <2> HIDE DEF n
  <2> QED
    BY <1>2, <2>1, <2>2
<1>4. briefs' = [briefs EXCEPT ![k] = b]
  BY DEF Stores
<1>5. b \in Brief /\ b.status # "ABSENT" /\ b.version = n + 1
  <2>1. BriefStatus(run[r]) \in {"DRAFT", "READY"}
    BY DEF BriefStatus
  <2>2. b.version \in Nat /\ b.answer \in Answers \cup {NoAnswer}
    BY <1>0 DEF Running
  <2> QED
    BY <1>3, <2>1, <2>2 DEF Brief
<1> HIDE DEF b
<1>6. /\ briefs' \in [Keys -> Brief] /\ briefs'[k] = b
      /\ \A i \in Keys \ {k} : briefs'[i] = briefs[i]
  BY <1>0, <1>4, <1>5
<1>7. ASSUME NEW c \in Candidates, c # c0
      PROVE  Numbered(c)' /\ Cardinality(StoredOf(c))' = Cardinality(StoredOf(c)) + 0
  <2>1. StoredOf(c)' = StoredOf(c)
    BY <1>6, <1>7 DEF StoredOf, Stored
  <2>2. Versions(c) = {briefs[i].version : i \in StoredOf(c)}
    BY DEF Versions, StoredOf
  <2>3. Versions(c)' = {briefs'[i].version : i \in StoredOf(c)'}
    BY DEF Versions, StoredOf
  <2>4. \A i \in StoredOf(c) : briefs'[i] = briefs[i]
    BY <1>6, <1>7 DEF StoredOf
  <2>5. Versions(c)' = Versions(c)
    BY <2>1, <2>2, <2>3, <2>4
  <2>6. Numbered(c) /\ Cardinality(StoredOf(c)) \in Nat
    BY FS_CardinalityType DEF CreativeInv, Numbered
  <2> QED
    BY <2>1, <2>5, <2>6 DEF Numbered
<1>8. Numbered(c0)' /\ Cardinality(StoredOf(c0))' = n + 1
  <2>1. StoredOf(c0)' = StoredOf(c0) \cup {k}
    BY <1>5, <1>6 DEF StoredOf, Stored
  <2>2. IsFiniteSet(StoredOf(c0)') /\ Cardinality(StoredOf(c0)') = n + 1
    BY <1>1, <1>2, <2>1, FS_AddElement
  <2>3. Versions(c0) = {briefs[i].version : i \in StoredOf(c0)}
    BY DEF Versions, StoredOf
  <2>4. Versions(c0)' = {briefs'[i].version : i \in StoredOf(c0)'}
    BY DEF Versions, StoredOf
  <2>5. \A i \in StoredOf(c0) : briefs'[i] = briefs[i]
    BY <1>1, <1>6 DEF StoredOf
  <2>6. Versions(c0)' = Versions(c0) \cup {n + 1}
    <3> HIDE DEF n
    <3> QED
      BY <1>5, <1>6, <2>1, <2>3, <2>4, <2>5
  <2>7. Versions(c0)' = 1..(n + 1)
    <3> HIDE DEF n
    <3> QED
      BY <1>2, <2>6
  <2> QED
    BY <2>2, <2>7 DEF Numbered
<1>9. \A c \in Candidates : Numbered(c)' /\ \E m \in Nat :
        Cardinality(StoredOf(c))' = Cardinality(StoredOf(c)) + m
  BY <1>7, <1>8
<1> QED
  BY <1>6, <1>9

LEMMA CreativeInvStep ==
  ASSUME CreativeInv, [Next]_vars
  PROVE  CreativeInv'
<1>1. CASE UNCHANGED vars
  BY <1>1 DEF CreativeInv, TypeOK, Numbered, Numbers, StoredOf, Stored, Versions, At, Moded, vars
<1>2. CASE Tick
  <2>1. now' \in Time /\ slow' \in BOOLEAN
    BY <1>2, CreativeAssumption DEF Tick, Time, CreativeInv, TypeOK
  <2> QED
    BY <1>2, <2>1
    DEF CreativeInv, TypeOK, Numbered, Numbers, StoredOf, Stored, Versions, At, Moded, Tick
<1>3. ASSUME NEW r \in Runs, NEW k \in Keys, Does(r, k), Moded(run'[r])
      PROVE  CreativeInv'
  <2>0. Only(r, k) /\ (Stores(r, k) \/ briefs' = briefs)
    BY <1>3 DEF Does, Begins, Blocks, Prepares, Acquires, Works, Revises, Ends
  <2>1. ASSUME NEW c \in Candidates
        PROVE  Numbered(c)' /\ \E m \in Nat :
                 Cardinality(StoredOf(c))' = Cardinality(StoredOf(c)) + m
    <3>1. CASE Stores(r, k)
      BY <3>1, StoringNumbers
    <3>2. CASE briefs' = briefs
      <4>1. StoredOf(c)' = StoredOf(c) /\ Versions(c)' = Versions(c)
        BY <3>2 DEF StoredOf, Stored, Versions
      <4>2. Numbered(c) /\ Cardinality(StoredOf(c)) \in Nat
        BY FS_CardinalityType DEF CreativeInv, Numbered
      <4>3. Cardinality(StoredOf(c)) = Cardinality(StoredOf(c)) + 0
        BY <4>2
      <4> QED
        BY <4>1, <4>2, <4>3 DEF Numbered
    <3> QED
      BY <2>0, <3>1, <3>2
  <2>2. TypeOK'
    <3>1. briefs' \in [Keys -> Brief]
      BY <2>0, StoringNumbers DEF CreativeInv, TypeOK
    <3> QED
      BY <2>0, <3>1 DEF Only, CreativeInv, TypeOK
  <2>3. ASSUME NEW s \in Runs
        PROVE  Moded(run[s])' /\ Numbers(s)'
    <3>1. CASE s # r
      <4>1. run'[s] = run[s] /\ Moded(run[s]) /\ Numbers(s)
        BY <2>0, <3>1 DEF Only, CreativeInv
      <4>2. Moded(run[s])'
        BY <4>1 DEF Moded
      <4>3. ASSUME At(s, "store")
            PROVE  run[s].version \in 1..(Cardinality(StoredOf(CandidateOf[run[s].key]))' + 1)
        <5>1. PICK c \in Candidates : c = CandidateOf[run[s].key]
          BY <4>3, RunsAreTyped, CreativeAssumption DEF At
        <5>2. Cardinality(StoredOf(c)) \in Nat
          BY GreatestRevision
        <5>3. PICK m \in Nat : Cardinality(StoredOf(c))' = Cardinality(StoredOf(c)) + m
          BY <2>1
        <5>4. run[s].version \in 1..(Cardinality(StoredOf(c)) + 1)
          BY <4>1, <4>3, <5>1 DEF Numbers
        <5>5. run[s].version \in 1..(Cardinality(StoredOf(c))' + 1)
          BY <5>2, <5>3, <5>4
        <5>6. c = CandidateOf[run'[s].key]
          BY <4>1, <5>1
        <5> QED
          BY <5>5, <5>6
      <4> QED
        BY <4>1, <4>2, <4>3 DEF Numbers, At
    <3>2. CASE s = r
      <4>1. CASE Revises(r, k)
        <5> DEFINE n == Cardinality(StoredOf(CandidateOf[k]))
        <5>1. run'[r] = [run[r] EXCEPT !.pc = "store", !.version = n + 1]
          BY <4>1 DEF Revises
        <5>1a. run[r] \in Running /\ run[r].key = k /\ briefs' = briefs
          BY <4>1 DEF Revises
        <5>2. n \in Nat /\ n' = n
          BY <5>1a, GreatestRevision, CreativeAssumption DEF StoredOf, Stored
        <5> HIDE DEF n
        <5>3. run'[r].version \in 1..(n' + 1) /\ run'[r].key = k
          BY <5>1, <5>1a, <5>2 DEF Running
        <5> QED
          BY <1>3, <3>2, <5>3 DEF Numbers, n
      <4>2. CASE ~Revises(r, k)
        <5>1. run'[r].pc # "store"
          BY <1>3, <4>2 DEF Does, Begins, Blocks, Prepares, Acquires, Works, Stores, Ends, Idle,
                            Running, At
        <5> QED
          BY <1>3, <3>2, <5>1 DEF Numbers, At
      <4> QED
        BY <4>1, <4>2
    <3> QED
      BY <3>1, <3>2
  <2> QED
    BY <2>1, <2>2, <2>3 DEF CreativeInv
<1> QED
  BY <1>1, <1>2, <1>3, StepsAreKinds

LEMMA CreativeInvHolds == Spec => []CreativeInv
<1>1. Init => CreativeInv
  <2> SUFFICES ASSUME Init PROVE CreativeInv
    OBVIOUS
  <2>1. TypeOK
    <3>1. [status |-> "ABSENT", expires |-> NoTime, reservedAt |-> 0, brief |-> FALSE] \in Job
      BY CreativeAssumption DEF Job, JobStatus, Time
    <3>2. [status |-> "ABSENT", version |-> 0, answer |-> NoAnswer] \in Brief
      BY DEF Brief
    <3>3. jobs \in [Keys -> Job]
      BY <3>1 DEF Init
    <3>4. briefs \in [Keys -> Brief]
      BY <3>2 DEF Init
    <3>5. now \in Time /\ starts \in 0..MaxStarts
      BY CreativeAssumption DEF Init, Time
    <3> QED
      BY <3>3, <3>4, <3>5 DEF Init, TypeOK
  <2>2. ASSUME NEW c \in Candidates
        PROVE  Numbered(c)
    <3>1. StoredOf(c) = {} /\ Versions(c) = {}
      BY DEF Init, StoredOf, Stored, Versions
    <3> QED
      BY <3>1, FS_EmptySet DEF Numbered
  <2> QED
    BY <2>1, <2>2 DEF Init, CreativeInv, Numbers, Moded, At, Idle
<1>2. CreativeInv /\ [Next]_vars => CreativeInv'
  BY CreativeInvStep
<1> QED
  BY <1>1, <1>2, PTL DEF Spec

\* The stored revisions of every candidate are 1, 2, 3 ... however many requests read
\* the last revision before one of them stores: the unique index lets one of them
\* through, and the number it has is the next.
THEOREM RevisionsStayConsecutive == Spec => []RevisionsAreConsecutive
<1>1. CreativeInv => RevisionsAreConsecutive
  BY DEF CreativeInv, Numbered, StoredOf, RevisionsAreConsecutive
<1> QED
  BY <1>1, CreativeInvHolds, PTL

-----------------------------------------------------------------------------
(* Jobs and their briefs.                                                  *)

\* Where a request is after a step says which kind of step it was.
LEMMA KindsByPlace ==
  ASSUME NEW r \in Runs, NEW k \in Keys, Does(r, k)
  PROVE  \/ run'[r].pc \in {"idle", "lookup", "reserve", "reread", "insert", "acquire"}
         \/ /\ run[r] \in Running /\ run[r].key = k /\ run'[r].key = k /\ run'[r].at = run[r].at
            /\ \/ run'[r].pc = "mark" /\ Acquires(r, k)
               \/ /\ run'[r].pc \in {"classify", "recheck", "generate", "repair", "revision"}
                  /\ Works(r, k)
               \/ run'[r].pc = "store" /\ Revises(r, k)
               \/ run'[r].pc = "finish" /\ Stores(r, k)
<1>1. CASE Begins(r, k)
  BY <1>1 DEF Begins
<1>2. CASE Blocks(r, k)
  BY <1>2 DEF Blocks, At
<1>3. CASE Prepares(r, k)
  <2>1. CASE run'[r] = Idle
    BY <2>1 DEF Idle
  <2>2. ASSUME NEW pc \in {"reread", "insert", "acquire"}, run'[r] = [run[r] EXCEPT !.pc = pc]
        PROVE  run'[r].pc \in {"reread", "insert", "acquire"}
    BY <1>3, <2>2 DEF Prepares, Running
  <2> QED
    BY <1>3, <2>1, <2>2 DEF Prepares
<1>4. CASE Acquires(r, k)
  <2>1. run'[r].pc = "mark" /\ run'[r].key = k /\ run'[r].at = run[r].at
    BY <1>4 DEF Acquires, Running
  <2> QED
    BY <1>4, <2>1 DEF Acquires
<1>5. CASE Works(r, k)
  BY <1>5 DEF Works
<1>6. CASE Revises(r, k)
  <2>1. run'[r].pc = "store" /\ run'[r].key = k /\ run'[r].at = run[r].at
    BY <1>6 DEF Revises, Running
  <2> QED
    BY <1>6, <2>1 DEF Revises
<1>7. CASE Stores(r, k)
  <2>1. run'[r].pc = "finish" /\ run'[r].key = k /\ run'[r].at = run[r].at
    BY <1>7 DEF Stores, Running
  <2> QED
    BY <1>7, <2>1 DEF Stores
<1>8. CASE Ends(r, k)
  BY <1>8 DEF Ends, Idle
<1> QED
  BY <1>1, <1>2, <1>3, <1>4, <1>5, <1>6, <1>7, <1>8 DEF Does

\* A stored brief is never touched again, and a brief is stored by one kind of step.
LEMMA BriefsStay ==
  ASSUME CreativeInv, NEW r \in Runs, NEW k \in Keys, Does(r, k)
  PROVE  /\ \A i \in Keys : Stored(i) => briefs'[i] = briefs[i] /\ Stored(i)'
         /\ Stores(r, k) => Stored(k)' /\ \A i \in Keys \ {k} : briefs'[i] = briefs[i]
<1>1. CASE Stores(r, k)
  <2>1. /\ briefs' = [briefs EXCEPT ![k] = [status |-> BriefStatus(run[r]),
                        version |-> run[r].version, answer |-> run[r].answer]]
        /\ ~Stored(k) /\ briefs \in [Keys -> Brief]
    BY <1>1 DEF Stores, Insertable, CreativeInv, TypeOK
  <2>2. BriefStatus(run[r]) # "ABSENT"
    BY DEF BriefStatus
  <2>3. briefs'[k].status # "ABSENT" /\ \A i \in Keys \ {k} : briefs'[i] = briefs[i]
    BY <2>1, <2>2
  <2> QED
    BY <2>1, <2>3 DEF Stored
<1>2. CASE ~Stores(r, k)
  <2>1. briefs' = briefs
    BY <1>2 DEF Does, Begins, Blocks, Prepares, Acquires, Works, Revises, Ends
  <2> QED
    BY <1>2, <2>1 DEF Stored
<1> QED
  BY <1>1, <1>2

Finished(k) ==
  jobs[k].status \in {"DRAFT", "READY"} \/ jobs[k].brief =>
    /\ Stored(k)
    /\ jobs[k].status \in {"DRAFT", "READY"} => jobs[k].brief /\ jobs[k].status = briefs[k].status

LEMMA FinishInvStep ==
  ASSUME CreativeInv, FinishInv, [Next]_vars
  PROVE  FinishInv'
<1> USE DEF FinishInv, FinishedJobsHaveBriefs
<1>1. CASE UNCHANGED vars \/ Tick
  BY <1>1 DEF vars, Tick, Stored, At
<1>2. ASSUME NEW r \in Runs, NEW k \in Keys, Does(r, k)
      PROVE  FinishInv'
  <2>0. Only(r, k) /\ \A i \in Keys : Stored(i) => briefs'[i] = briefs[i] /\ Stored(i)'
    BY <1>2, BriefsStay DEF Does
  <2>1. ASSUME NEW i \in Keys, jobs'[i] = jobs[i]
        PROVE  Finished(i)'
    BY <2>0, <2>1 DEF Finished
  <2>2. Finished(k)'
    <3>0. Finished(k) /\ (At(r, "finish") /\ run[r].key = k => Stored(k))
      BY DEF Finished
    <3>1. CASE Begins(r, k) \/ Revises(r, k) \/ Stores(r, k)
      BY <2>1, <3>1 DEF Begins, Revises, Stores
    <3>2. CASE Blocks(r, k)
      BY <2>0, <3>0, <3>2 DEF Blocks, Keeps, Finished
    <3>3. CASE Prepares(r, k)
      BY <2>0, <3>0, <3>3, <2>1 DEF Prepares, Keeps, Finished
    <3>4. CASE Acquires(r, k)
      BY <2>0, <3>0, <3>4 DEF Acquires, Keeps, Finished
    <3>5. CASE Works(r, k)
      BY <2>0, <3>0, <3>5, <2>1 DEF Works, Keeps, Finished
    <3>6. CASE Ends(r, k)
      BY <2>0, <3>0, <3>6, <2>1 DEF Ends, Keeps, Finished
    <3> QED
      BY <1>2, <3>1, <3>2, <3>3, <3>4, <3>5, <3>6 DEF Does
  <2>3. ASSUME NEW s \in Runs, At(s, "finish")'
        PROVE  Stored(run[s].key)'
    <3>1. CASE s # r
      <4>1. run'[s] = run[s] /\ At(s, "finish")
        BY <2>0, <2>3, <3>1 DEF Only, At
      <4>2. run[s].key \in Keys /\ Stored(run[s].key)
        BY <4>1, RunsAreTyped DEF At
      <4>3. briefs'[run'[s].key].status # "ABSENT"
        BY <2>0, <4>1, <4>2 DEF Stored
      <4> QED
        BY <4>3 DEF Stored
    <3>2. CASE s = r
      <4>0. run'[r].pc = "finish"
        BY <2>3, <3>2 DEF At
      <4>1. Stores(r, k) /\ run'[r].key = k
        BY <1>2, <4>0, KindsByPlace
      <4>2. Stored(k)' /\ run'[r].key = k
        BY <1>2, <4>1, BriefsStay
      <4> QED
        BY <3>2, <4>2 DEF Stored
    <3> QED
      BY <3>1, <3>2
  <2>4. ASSUME NEW i \in Keys
        PROVE  Finished(i)'
    BY <2>0, <2>1, <2>2 DEF Only
  <2> QED
    BY <2>3, <2>4 DEF Finished
<1> QED
  BY <1>1, <1>2, StepsAreKinds

\* No request, however late, closes the job of a fingerprint that has no brief.
THEOREM FinishedJobsAlwaysHaveBriefs == Spec => []FinishedJobsHaveBriefs
<1>1. Init => FinishInv
  BY DEF Init, FinishInv, FinishedJobsHaveBriefs, At, Idle
<1>2. CreativeInv /\ FinishInv /\ [Next]_vars => FinishInv'
  BY FinishInvStep
<1>3. FinishInv => FinishedJobsHaveBriefs
  BY DEF FinishInv
<1> QED
  BY <1>1, <1>2, <1>3, CreativeInvHolds, PTL DEF Spec

-----------------------------------------------------------------------------
(* Leases.                                                                 *)

\* A lease that is over was not taken by a request that is within its own.
LEMMA LeasesExclude ==
  ASSUME CreativeInv, LeaseInv, ~slow, NEW s \in Runs, Holding(s), NEW k \in Standards,
         run[s].key = k, NEW at \in Time, at <= now
  PROVE  ~LeaseOver(jobs[k], at)
<1>1. ~At(s, "idle")
  BY DEF Holding, At
<1>2. /\ run[s].at \in Time /\ Leases(s) /\ Timely(s)
  BY <1>1, RunsAreTyped DEF LeaseInv
<1>3. jobs[k].expires = run[s].at + LeaseTime /\ now < run[s].at + LeaseTime
  BY <1>1, <1>2 DEF Leases, Timely
<1>4. run[s].at \in Int /\ LeaseTime \in Int /\ now \in Int /\ at \in Int
  BY <1>2, CreativeAssumption DEF Time, CreativeInv, TypeOK
<1> QED
  BY <1>2, <1>3, <1>4, LeaseTimes DEF LeaseOver

\* A request comes to hold a job only by acquiring it.
LEMMA HoldersAcquire ==
  ASSUME NEW r \in Runs, NEW k \in Keys, Does(r, k), Holding(r)'
  PROVE  /\ Acquires(r, k) \/ Holding(r)
         /\ run[r] \in Running /\ run[r].key = k /\ run'[r].key = k /\ run'[r].at = run[r].at
<1>1. run'[r].pc \notin {"idle", "lookup", "reserve", "reread", "insert", "acquire"}
  BY DEF Holding
<1> QED
  BY <1>1, KindsByPlace DEF Works, Revises, Stores, Holding, At

LEMMA LeaseInvStep ==
  ASSUME CreativeInv, LeaseInv, [Next]_vars
  PROVE  LeaseInv'
<1>1. CASE UNCHANGED vars
  BY <1>1 DEF LeaseInv, LeaseExcludes, Leases, Timely, Holding, At, vars
<1>2. CASE Tick
  <2> SUFFICES ASSUME ~slow' PROVE LeaseExcludes(Standards)' /\ \A r \in Runs : Leases(r)' /\ Timely(r)'
    BY DEF LeaseInv
  <2>1. ~slow /\ \A r \in Runs : ~At(r, "idle") => ~(now' >= run[r].at + LeaseTime)
    BY <1>2 DEF Tick
  <2>2. jobs' = jobs /\ run' = run /\ now' = now + 1
    BY <1>2 DEF Tick
  <2>3. LeaseExcludes(Standards) /\ \A r \in Runs : Leases(r) /\ Timely(r)
    BY <2>1 DEF LeaseInv
  <2>4. LeaseExcludes(Standards)' /\ \A r \in Runs : Leases(r)'
    BY <2>2, <2>3 DEF LeaseExcludes, Leases, Holding
  <2>5. ASSUME NEW r \in Runs, ~At(r, "idle")
        PROVE  run[r].at <= now' /\ now' < run[r].at + LeaseTime
    <3>1. run[r].at \in Int /\ LeaseTime \in Int /\ now \in Int
      BY <2>5, RunsAreTyped, CreativeAssumption DEF Time, CreativeInv, TypeOK
    <3> QED
      BY <2>1, <2>2, <2>3, <2>5, <3>1 DEF Timely
  <2>6. \A r \in Runs : Timely(r)'
    BY <2>2, <2>3, <2>5 DEF Timely, At
  <2> QED
    BY <2>4, <2>6
<1>3. ASSUME NEW r \in Runs, NEW k \in Keys, Does(r, k), ~slow'
      PROVE  LeaseExcludes(Standards)' /\ \A s \in Runs : Leases(s)' /\ Timely(s)'
  <2>0. /\ ~slow /\ Only(r, k) /\ LeaseExcludes(Standards)
        /\ \A s \in Runs : Leases(s) /\ Timely(s)
    BY <1>3 DEF Does, Only, LeaseInv
  <2>1. ASSUME NEW s \in Runs \ {r}, Holding(s), run[s].key = k, k \in Standards
        PROVE  /\ ~Acquires(r, k) /\ ~(Holding(r) /\ run[r].key = k)
               /\ jobs'[k].expires = jobs[k].expires
    <3>1. ~(Holding(r) /\ run[r].key = k)
      BY <2>0, <2>1 DEF LeaseExcludes
    <3>2. ~Acquires(r, k)
      <4> SUFFICES ASSUME Acquires(r, k) PROVE FALSE
        OBVIOUS
      <4>1. run[r].at \in Time /\ run[r].at <= now
        BY <2>0, RunsAreTyped DEF Acquires, Timely, At
      <4> QED
        BY <2>0, <2>1, <4>1, LeasesExclude DEF Acquires
    <3>3. k \notin Blocked
      BY <2>0, <2>1 DEF Timely, Holding, At
    <3>4. Prepares(r, k) => jobs'[k].expires = jobs[k].expires
      <4>1. k \notin Explorations
        BY <2>1, CreativeAssumption
      <4> QED
        BY <2>0, <4>1 DEF Prepares, Timely, At
    <3>5. ~Works(r, k) /\ ~Blocks(r, k)
      BY <3>1, <3>3 DEF Works, Blocks
    <3>6. Ends(r, k) => jobs'[k] = jobs[k]
      BY <3>1 DEF Ends
    <3> QED
      BY <1>3, <3>1, <3>2, <3>4, <3>5, <3>6 DEF Does, Begins, Revises, Stores
  <2>2. ASSUME NEW s \in Runs \ {r}
        PROVE  Leases(s)' /\ Timely(s)'
    <3>1. run'[s] = run[s] /\ now' = now
      BY <2>0 DEF Only
    <3>2. Timely(s)'
      BY <2>0, <3>1 DEF Timely, At
    <3>3. ASSUME Holding(s), run[s].key \in Standards
          PROVE  jobs'[run[s].key].expires = run[s].at + LeaseTime
      <4>1. run[s].key \in Keys /\ jobs[run[s].key].expires = run[s].at + LeaseTime
        BY <2>0, <3>3 DEF Leases, Keys
      <4> QED
        BY <2>0, <2>1, <3>3, <4>1 DEF Only
    <3> QED
      BY <3>1, <3>2, <3>3 DEF Leases, Holding
  <2>3. Leases(r)'
    <3> SUFFICES ASSUME Holding(r)', run'[r].key \in Standards
                 PROVE  jobs'[run'[r].key].expires = run'[r].at + LeaseTime
      BY DEF Leases
    <3>1. /\ Acquires(r, k) \/ Holding(r)
          /\ run[r].key = k /\ run'[r].key = k /\ run'[r].at = run[r].at
      BY <1>3, HoldersAcquire
    <3>2. Holding(r) => jobs[k].expires = run[r].at + LeaseTime
      BY <2>0, <3>1 DEF Leases
    <3>3. jobs'[k].expires = run[r].at + LeaseTime
      BY <1>3, <3>1, <3>2 DEF Does, Begins, Blocks, Prepares, Acquires, Works, Revises, Stores, Ends,
                               Idle, Holding, At
    <3> QED
      BY <3>1, <3>3
  <2>4. Timely(r)'
    <3>1. CASE Begins(r, k)
      <4>1. now \in Int /\ now' = now /\ LeaseTime \in Nat \ {0}
        BY <2>0, CreativeAssumption DEF Only, Time, CreativeInv, TypeOK
      <4>2. run'[r].at <= now' /\ now' < run'[r].at + LeaseTime
        BY <3>1, <4>1 DEF Begins
      <4> QED
        BY <3>1, <4>2 DEF Begins, Timely, At
    <3>2. CASE Blocks(r, k) \/ run'[r] = Idle
      BY <3>2 DEF Blocks, Timely, At, Idle
    <3>3. CASE Prepares(r, k) /\ run'[r] # Idle
      <4>1. /\ run[r] \in Running /\ ~At(r, "idle") /\ now' = now
            /\ run'[r].pc = "reread" => run[r].pc = "reserve"
            /\ run'[r].pc # "reserve" /\ run'[r].key = run[r].key /\ run'[r].at = run[r].at
        BY <2>0, <3>3 DEF Prepares, Only, Running, At
      <4> QED
        BY <2>0, <4>1 DEF Timely
    <3>4. CASE Acquires(r, k) \/ Works(r, k) \/ Revises(r, k) \/ Stores(r, k)
      <4>1. /\ run[r] \in Running /\ ~At(r, "idle") /\ now' = now
            /\ run'[r].pc \notin {"reserve", "reread"}
            /\ run'[r].key = run[r].key /\ run'[r].at = run[r].at
        BY <2>0, <3>4 DEF Acquires, Works, Revises, Stores, Only, Running, At, Holding
      <4> QED
        BY <2>0, <4>1 DEF Timely
    <3> QED
      BY <1>3, <3>1, <3>2, <3>3, <3>4 DEF Does, Ends
  <2>5. ASSUME NEW s \in Runs \ {r}, Holding(s)', Holding(r)', run'[s].key = run'[r].key,
               run'[r].key \in Standards
        PROVE  FALSE
    <3>1. run'[s] = run[s] /\ Holding(s)
      BY <2>0, <2>5 DEF Only, Holding
    <3>2. /\ Acquires(r, k) \/ Holding(r)
          /\ run[r].key = k /\ run'[r].key = k
      BY <1>3, <2>5, HoldersAcquire
    <3> QED
      BY <2>1, <2>5, <3>1, <3>2
  <2>6. ASSUME NEW s \in Runs \ {r}, NEW u \in Runs \ {r}, Holding(s)', Holding(u)',
               run'[s].key = run'[u].key, run'[s].key \in Standards
        PROVE  s = u
    BY <2>0, <2>6 DEF Only, Holding, LeaseExcludes
  <2>7. LeaseExcludes(Standards)'
    BY <2>5, <2>6 DEF LeaseExcludes
  <2> QED
    BY <2>2, <2>3, <2>4, <2>7
<1> QED
  BY <1>1, <1>2, <1>3, StepsAreKinds DEF LeaseInv

\* Two requests never hold the lease of a STANDARD fingerprint at once, as long as
\* every request ends within its lease: nothing clears a lease that runs.
THEOREM StandardLeasesExclude == Spec => []StandardLeaseExcludes
<1>1. Init => LeaseInv
  BY DEF Init, LeaseInv, LeaseExcludes, Leases, Timely, Holding, At, Idle
<1>2. CreativeInv /\ LeaseInv /\ [Next]_vars => LeaseInv'
  BY LeaseInvStep
<1>3. LeaseInv => StandardLeaseExcludes
  BY DEF LeaseInv, StandardLeaseExcludes
<1> QED
  BY <1>1, <1>2, <1>3, CreativeInvHolds, PTL DEF Spec

-----------------------------------------------------------------------------
(* The gate.                                                               *)

\* The gate lets pass what is valid for the fingerprint's evidence.
LEMMA AcceptedIsValid ==
  ASSUME NEW k \in Standards, NEW mode \in Modes, NEW at \in Time, NEW historical \in BOOLEAN,
         NEW answer \in Accepted[k][mode][at][historical]
  PROVE  /\ answer \in Answers
         /\ ValidateCreativeBrief(answer, BuildEvidenceSnapshot(RowsOf[k], FALSE), FALSE, mode, at,
                                  historical)
<1>1. k \in Keys /\ k \notin Explorations
  BY CreativeAssumption DEF Keys
<1> DEFINE asked == k \in Explorations
<1>2. asked = FALSE
  BY <1>1
<1>3. Accepted[k][mode][at][historical] =
        {a \in Answers : ValidateCreativeBrief(a, BuildEvidenceSnapshot(RowsOf[k], asked), asked,
                                               mode, at, historical)}
  BY <1>1 DEF Accepted
<1>4. /\ answer \in Answers
      /\ ValidateCreativeBrief(answer, BuildEvidenceSnapshot(RowsOf[k], asked), asked, mode, at,
                               historical)
  BY <1>3
<1> QED
  BY <1>2, <1>4

\* A source a strict claim may rest on is a row that backs what it grounds.
LEMMA StrictSourcesBack ==
  ASSUME NEW rows, NEW c, NEW s \in VerifiedNewsSources(Sources(rows)),
         s.id \in c.refs, Faithful(s.modality, c.text)
  PROVE  \E e \in rows.evidence : Backs(rows, c, e) /\ s.id = <<"claim", e.claim, e.obs>>
<1>1. s \in M8GroundedSources(rows) /\ s.verified /\ s.reliable
  BY DEF VerifiedNewsSources, Sources, LegacySources
<1>2. PICK e \in rows.evidence, claim \in rows.claims, o \in rows.observations :
        /\ e.grounding /\ e.relation = "SUPPORTS"
        /\ e.claim = claim.id /\ e.obs = o.id /\ claim.status = "VERIFIED"
        /\ s.id = <<"claim", claim.id, o.id>> /\ s.reliable = rows.reliable[o.publisher]
        /\ s.modality = claim.modality
  <2>1. PICK x \in rows.evidence \X rows.claims \X rows.observations :
          /\ x[1].grounding /\ x[1].relation = "SUPPORTS"
          /\ x[1].claim = x[2].id /\ x[1].obs = x[3].id /\ x[2].status = "VERIFIED"
          /\ s = [id |-> <<"claim", x[2].id, x[3].id>>, of |-> {x[3].id}, verified |-> TRUE,
                  reliable |-> rows.reliable[x[3].publisher], url |-> x[3].url,
                  scope |-> x[2].scope, modality |-> x[2].modality]
    BY <1>1, Zenon DEF M8GroundedSources
  <2>2. x[1] \in rows.evidence /\ x[2] \in rows.claims /\ x[3] \in rows.observations
    OBVIOUS
  <2>3. /\ s.id = <<"claim", x[2].id, x[3].id>>
        /\ s.reliable = rows.reliable[x[3].publisher] /\ s.modality = x[2].modality
    BY <2>1
  <2> QED
    BY <2>1, <2>2, <2>3, Zenon
<1>3. claim.modality # "CONFIRMED" /\ "confirmation" \in c.text.says => "negated" \in c.text.says
  BY <1>2 DEF Faithful, UnsupportedConfirmation
<1> QED
  BY <1>1, <1>2, <1>3 DEF Backs

\* News the gate accepts for a STANDARD fingerprint is backed.
LEMMA AcceptedClaimsAreBacked ==
  ASSUME NEW k \in Standards, NEW mode \in Modes, NEW at \in Time, NEW historical \in BOOLEAN,
         NEW answer \in Accepted[k][mode][at][historical], answer.mode = "NEWS_UPDATE"
  PROVE  answer \in Backed[k]
<1> DEFINE sources == Sources(RowsOf[k])
<1>1. answer \in Answers /\ NewsIsGrounded(answer, sources) /\ NewsIsCited(answer, sources)
  BY AcceptedIsValid DEF ValidateCreativeBrief, BuildEvidenceSnapshot
<1>2. ASSUME NEW c \in Claims(answer)
      PROVE  \E e \in RowsOf[k].evidence : Backs(RowsOf[k], c, e)
  <2>1. PICK s \in VerifiedNewsSources(sources) : s.id \in c.refs /\ Faithful(s.modality, c.text)
    BY <1>1 DEF NewsIsGrounded
  <2> QED
    BY <2>1, StrictSourcesBack
<1>3. \E c \in Claims(answer), e \in RowsOf[k].evidence :
        /\ Backs(RowsOf[k], c, e)
        /\ <<"claim", e.claim, e.obs>> \in SlideCopy(answer).names \cap answer.caption.names
  <2>1. PICK s \in VerifiedNewsSources(sources), c \in Claims(answer) :
          s.id \in c.refs /\ s.id \in SlideCopy(answer).names /\ s.id \in answer.caption.names
    BY <1>1 DEF NewsIsCited
  <2>2. Faithful(s.modality, c.text)
    BY <1>1, <2>1 DEF NewsIsGrounded
  <2>3. PICK e \in RowsOf[k].evidence : Backs(RowsOf[k], c, e) /\ s.id = <<"claim", e.claim, e.obs>>
    <3> HIDE DEF sources
    <3>1. sources = Sources(RowsOf[k])
      BY DEF sources
    <3> QED
      BY <2>1, <2>2, <3>1, StrictSourcesBack
  <2>4. s.id \in SlideCopy(answer).names \cap answer.caption.names
    BY <2>1
  <2> QED
    BY <2>3, <2>4, Zenon
<1> QED
  BY <1>1, <1>2, <1>3 DEF Backed

\* What a request is about to store, it may store.
LEMMA PassedClaimsAreBacked ==
  ASSUME CreativeInv, NEW r \in Runs, NEW k \in Standards, Passed(r), At(r, "store"),
         run[r].key = k, run[r].answer.mode = "NEWS_UPDATE"
  PROVE  run[r].answer \in Backed[k]
<1>1. /\ run[r].mode \in Modes /\ run[r].at \in Time /\ run[r].historical \in BOOLEAN
      /\ run[r].answer \in Accepted[k][run[r].mode][run[r].at][run[r].historical]
  BY RunsAreTyped DEF CreativeInv, Moded, Passed, Accepts, At, Running
<1>2. PICK mode \in Modes, at \in Time, historical \in BOOLEAN :
        run[r].answer \in Accepted[k][mode][at][historical]
  BY <1>1
<1> QED
  BY <1>2, AcceptedClaimsAreBacked

LEMMA PassInvStep ==
  ASSUME CreativeInv, PassInv, [Next]_vars
  PROVE  PassInv'
<1>1. CASE UNCHANGED vars \/ Tick
  BY <1>1 DEF vars, Tick, PassInv, NewsClaimsAreBacked, Passed, Accepts, Stored
<1>2. ASSUME NEW r \in Runs, NEW k \in Keys, Does(r, k)
      PROVE  PassInv'
  <2>0. /\ Only(r, k) /\ NewsClaimsAreBacked /\ \A s \in Runs : Passed(s)
        /\ \A i \in Keys : Stored(i) => briefs'[i] = briefs[i] /\ Stored(i)'
    BY <1>2, BriefsStay DEF Does, PassInv
  <2>1. ASSUME NEW s \in Runs \ {r}
        PROVE  Passed(s)'
    BY <2>0 DEF Only, Passed, Accepts
  <2>2. Passed(r)'
    <3>1. CASE Works(r, k)
      BY <2>0, <3>1 DEF Works, Passed, Accepts
    <3>2. CASE Revises(r, k)
      BY <2>0, <3>2 DEF Revises, Passed, Accepts, At, Running
    <3>3. CASE ~Works(r, k) /\ ~Revises(r, k)
      BY <1>2, <2>0, <3>3 DEF Does, Begins, Blocks, Prepares, Acquires, Stores, Ends, Idle, Passed,
                              Running, At
    <3> QED
      BY <3>1, <3>2, <3>3
  <2>3. ASSUME NEW i \in Standards, Stored(i)', briefs'[i].answer.mode = "NEWS_UPDATE"
        PROVE  briefs'[i].answer \in Backed[i]
    <3>1. CASE Stored(i)
      BY <2>0, <2>3, <3>1 DEF NewsClaimsAreBacked, Keys
    <3>2. CASE ~Stored(i)
      <4>1. Stores(r, k) /\ i = k
        BY <1>2, <2>3, <3>2, BriefsStay DEF Stored, Does, Begins, Blocks, Prepares, Acquires, Works,
                                            Revises, Ends, Keys
      <4>2. briefs'[i].answer = run[r].answer /\ At(r, "store") /\ run[r].key = i
        BY <4>1 DEF Stores, CreativeInv, TypeOK
      <4> QED
        BY <2>0, <2>3, <4>2, PassedClaimsAreBacked
    <3> QED
      BY <3>1, <3>2
  <2>4. NewsClaimsAreBacked'
    BY <2>3 DEF NewsClaimsAreBacked
  <2> QED
    BY <2>1, <2>2, <2>4 DEF PassInv
<1> QED
  BY <1>1, <1>2, StepsAreKinds

\* Every claim of a STANDARD brief of news is backed by a row of its evidence, and a
\* source that backs one is named on the slides and in the caption: no request stores
\* an answer, repaired or not, that the gate did not accept.  Nothing is said of how
\* the headlines, the copy and the caption tell it.
THEOREM NewsClaimsAlwaysBacked == Spec => []NewsClaimsAreBacked
<1>1. Init => PassInv
  BY DEF Init, PassInv, NewsClaimsAreBacked, Stored, Passed, Idle, Keys
<1>2. CreativeInv /\ PassInv /\ [Next]_vars => PassInv'
  BY PassInvStep
<1>3. PassInv => NewsClaimsAreBacked
  BY DEF PassInv
<1> QED
  BY <1>1, <1>2, <1>3, CreativeInvHolds, PTL DEF Spec

===============================================================================
