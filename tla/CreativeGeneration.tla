-------------------------- MODULE CreativeGeneration --------------------------
(***************************************************************************)
(* runCreativeGeneration: one request turns a content candidate's frozen   *)
(* evidence into a creative brief, which the quality gate must accept.     *)
(* The state it shares with other requests is the generation job of the    *)
(* evidence fingerprint, with its lease, and the stored briefs; every call *)
(* is one step, and requests interleave between the calls.  A call that    *)
(* fails, a lost response and a request past its time limit all end the    *)
(* request where it stands.                                                *)
(*                                                                         *)
(* A key is an input fingerprint.  STANDARD requests insert their job and  *)
(* lease it; EXPLORATION requests first reserve it under a daily limit.    *)
(* The clock of a request is the time it started (runAt).                  *)
(* All candidates are of one story, one for each date.  Its rows are read  *)
(* once, when a request starts; they change between requests, and with     *)
(* them the fingerprint.                                                   *)
(***************************************************************************)
EXTENDS BriefGate, FiniteSetsExt

CONSTANTS
  Explorations, Standards, \* fingerprints of each intent
  Candidates,
  CandidateOf,   \* the candidate a fingerprint is generated for
  TextsOf,       \* the article texts an exploration fingerprint is the hash of
  ModeOf,        \* the content mode a standard fingerprint is generated in
  RowsOf,        \* the story's rows, as a fingerprint freezes them
  CandidateDay,  \* the date of a candidate
  Answers,       \* what the provider may answer
  Runs,          \* requests in progress at once
  DailyLimit,    \* maxDraftsPerDay
  LeaseTime,     \* leaseSeconds
  DayLength,     \* ticks in a Seoul calendar day
  Horizon,       \* bound: the last tick
  MaxStarts      \* bound: requests that get past their first checks

Keys == Explorations \cup Standards

ASSUME CreativeAssumption ==
  /\ Explorations \cap Standards = {}
  /\ CandidateOf \in [Keys -> Candidates]
  /\ ModeOf \in [Standards -> Modes]
  /\ DailyLimit \in Nat \ {0} /\ LeaseTime \in Nat \ {0} /\ DayLength \in Nat \ {0}
  /\ Horizon \in Nat /\ MaxStarts \in Nat

VARIABLES
  jobs,   \* creative_generation_jobs, by fingerprint
  briefs, \* creative_briefs, by fingerprint
  run,    \* where each request stands
  now,
  starts,
  slow    \* history: some request outlived the lease it asked for

vars == <<jobs, briefs, run, now, starts, slow>>

NoTime == -1
Time == 0..Horizon

\* FAILED is FAILED_PROVIDER, FAILED_VALIDATION or CLASSIFICATION_UNCERTAIN,
\* which every reader treats alike.
JobStatus == {"ABSENT", "QUEUED", "GENERATING", "DRAFT", "READY", "FAILED"}
Job == [status : JobStatus, expires : 0..(Horizon + LeaseTime) \cup {NoTime},
        reservedAt : Time, brief : BOOLEAN]

NoAnswer == [mode |-> "NONE"]

\* SELECTED and the later editorial statuses are not told apart from DRAFT.
Brief == [status : {"ABSENT", "DRAFT", "READY"}, version : Nat, answer : Answers \cup {NoAnswer}]

Steps == {"idle", "reserve", "reread", "lookup", "insert", "acquire", "mark",
          "classify", "recheck", "generate", "repair", "revision", "store", "finish"}
Idle == [pc |-> "idle"]
Running == [pc : Steps \ {"idle"}, key : Keys, at : Time, version : Nat,
            mode : Modes \cup {"NONE"}, answer : Answers \cup {NoAnswer},
            eligible : BOOLEAN, historical : BOOLEAN]

TypeOK ==
  /\ jobs \in [Keys -> Job]
  /\ briefs \in [Keys -> Brief]
  /\ run \in [Runs -> Running \cup {Idle}]
  /\ now \in Time
  /\ starts \in 0..MaxStarts
  /\ slow \in BOOLEAN

Init ==
  /\ jobs = [k \in Keys |->
       [status |-> "ABSENT", expires |-> NoTime, reservedAt |-> 0, brief |-> FALSE]]
  /\ briefs = [k \in Keys |-> [status |-> "ABSENT", version |-> 0, answer |-> NoAnswer]]
  /\ run = [r \in Runs |-> Idle]
  /\ now = 0
  /\ starts = 0
  /\ slow = FALSE

-----------------------------------------------------------------------------

Stored(k) == briefs[k].status # "ABSENT"

\* findExplorationBrief, findExistingBriefForStory: nothing is left to generate.
AlreadyCovered(k, articles) ==
  Stored(k) \/ \E s \in Standards : Stored(s) /\ CitedByStandard(RowsOf[s], articles)

\* Mutant of LeaseOver: the comparison is turned round.
LeaseOverTurnedRound(job, at) == job.expires = NoTime \/ job.expires >= at

LeaseOver(job, at) == job.expires = NoTime \/ job.expires <= at

\* reserved_at at time zone 'Asia/Seoul', as a date.
Day(t) == t \div DayLength

\* The reservations a day's limit counts.
Taken(day) ==
  {k \in Explorations : /\ jobs[k].status \in {"QUEUED", "GENERATING", "DRAFT", "READY"}
                        /\ Day(jobs[k].reservedAt) = day}

At(r, pc) == run[r].pc = pc
Goto(r, pc) == run' = [run EXCEPT ![r] = [@ EXCEPT !.pc = pc]]
End(r) == run' = [run EXCEPT ![r] = Idle]

\* updateJob patches the row by its id, whatever state it is in.
Patch(k, status, expires) ==
  jobs' = [jobs EXCEPT ![k] = [@ EXCEPT !.status = status, !.expires = expires]]

\* The last patch of a request that has a brief: status, brief and lease.
Link(k, status) ==
  jobs' = [jobs EXCEPT ![k] = [@ EXCEPT !.status = status, !.expires = NoTime, !.brief = TRUE]]

-----------------------------------------------------------------------------

Begin(r, k, pc, mode, eligible, historical) ==
  /\ At(r, "idle") /\ starts < MaxStarts
  /\ run' = [run EXCEPT ![r] =
       [pc |-> pc, key |-> k, at |-> now, version |-> 0, mode |-> mode, answer |-> NoAnswer,
        eligible |-> eligible, historical |-> historical]]
  /\ starts' = starts + 1
  /\ UNCHANGED <<briefs, now, slow>>

Eligible(k) == CurrentEditorialEligibility(RowsOf[k], now, Day(now), CandidateDay[CandidateOf[k]])

\* The fingerprints whose mode the classifier may find, and those of news without
\* a verified source.
Classifiable == {k \in Standards : \E c \in ClassifyWithFallback(RowsOf[k].signals) : c[1] = ModeOf[k]}
Blocked ==
  {k \in Standards : ModeOf[k] = "NEWS_UPDATE" /\ VerifiedNewsSources(Sources(RowsOf[k])) = {}}

\* A batch or a trigger asks for the brief of a candidate; a priority run's story
\* is eligible.  The classified mode is part of the fingerprint.  (The row of an
\* uncertain classification, which has a fingerprint of its own, is left out.)
StartStandard(r, k) ==
  /\ k \in Classifiable \ Blocked
  /\ Begin(r, k, "lookup", ModeOf[k], Eligible(k), FALSE)
  /\ UNCHANGED jobs

\* BLOCKED_EVIDENCE.
StartBlocked(r, k) ==
  /\ At(r, "idle") /\ starts < MaxStarts
  /\ k \in Classifiable \cap Blocked
  /\ jobs' = [jobs EXCEPT ![k] = [@ EXCEPT !.status = "FAILED", !.expires = NoTime]]
  /\ starts' = starts + 1
  /\ UNCHANGED <<briefs, run, now, slow>>

\* The articles an exploration finds eligible; MANUAL review takes old ones too.
Articles ==
  [k \in Explorations, at \in Time, manual \in BOOLEAN |->
     AssessExplorationSnapshot(RowsOf[k], at, manual)]

\* One that finds a brief is a NOOP.  The manual override skips the classifier, for
\* a job that failed.
StartExploration(r, k) ==
  \E manual, override \in BOOLEAN :
    LET articles == Articles[k, now, manual]
    IN  /\ articles # {} /\ TextsOf[k] = ExplorationFingerprint(articles)
        /\ ~AlreadyCovered(k, articles)
        /\ override => manual /\ jobs[k].status = "FAILED"
        /\ Begin(r, k, "reserve", IF override THEN "ANALYSIS_CONTEXT" ELSE "NONE", FALSE, manual)
        /\ UNCHANGED jobs

\* reserve_editorial_exploration_generation takes over a job that failed or
\* whose lease is over.
Reservable(job, at) ==
  job.status = "FAILED" \/ (job.status = "GENERATING" /\ LeaseOver(job, at))

ReserveAgain(r, k, at) ==
  /\ Reservable(jobs[k], at)
  /\ jobs' = [jobs EXCEPT ![k] =
       [@ EXCEPT !.status = "QUEUED", !.expires = NoTime, !.reservedAt = at]]
  /\ Goto(r, "acquire")

ReserveExisting(r, k, at) ==
  /\ jobs[k].status # "ABSENT" /\ ~Reservable(jobs[k], at)
  /\ Goto(r, "reread")
  /\ UNCHANGED jobs

ReserveNew(r, k, at) ==
  /\ jobs[k].status = "ABSENT" /\ Cardinality(Taken(Day(at))) < DailyLimit
  /\ jobs' = [jobs EXCEPT ![k] = [@ EXCEPT !.status = "QUEUED", !.reservedAt = at]]
  /\ Goto(r, "acquire")

ReserveRefused(r, k, at) ==
  /\ jobs[k].status = "ABSENT" /\ Cardinality(Taken(Day(at))) >= DailyLimit
  /\ End(r)
  /\ UNCHANGED jobs

Reserve(r) ==
  /\ At(r, "reserve")
  /\ LET k == run[r].key  at == run[r].at
     IN  \/ ReserveAgain(r, k, at) \/ ReserveExisting(r, k, at)
         \/ ReserveNew(r, k, at) \/ ReserveRefused(r, k, at)
  /\ UNCHANGED <<briefs, now, starts, slow>>

\* getJobById after EXISTING: only a job that is still open is worth a lease.
Reread(r) ==
  /\ At(r, "reread")
  /\ IF jobs[run[r].key].status \in {"QUEUED", "GENERATING"} THEN Goto(r, "acquire") ELSE End(r)
  /\ UNCHANGED <<jobs, briefs, now, starts, slow>>

\* STANDARD: findReadyBrief, after classification.
Lookup(r) ==
  /\ At(r, "lookup")
  /\ IF briefs[run[r].key].status = "READY" THEN End(r) ELSE Goto(r, "insert")
  /\ UNCHANGED <<jobs, briefs, now, starts, slow>>

\* insertJob: a second insert of the fingerprint returns the existing row.
InsertJob(r) ==
  /\ At(r, "insert")
  /\ LET k == run[r].key
     IN  jobs' = IF jobs[k].status = "ABSENT" THEN [jobs EXCEPT ![k].status = "QUEUED"] ELSE jobs
  /\ Goto(r, "acquire")
  /\ UNCHANGED <<briefs, now, starts, slow>>

\* try_acquire_creative_generation_job, with runAt as its clock.  A request
\* asks once, so the lease it finds is never its own.
Acquire(r) ==
  /\ At(r, "acquire")
  /\ LET k == run[r].key  at == run[r].at
     IN  IF LeaseOver(jobs[k], at)
         THEN /\ Patch(k, IF jobs[k].status = "QUEUED" THEN "GENERATING" ELSE jobs[k].status,
                       at + LeaseTime)
              /\ Goto(r, "mark")
         ELSE UNCHANGED jobs /\ End(r)
  /\ UNCHANGED <<briefs, now, starts, slow>>

\* updateJob GENERATING, which states the lease again.
Mark(r) ==
  /\ At(r, "mark")
  /\ Patch(run[r].key, "GENERATING", run[r].at + LeaseTime)
  /\ Goto(r, IF run[r].key \in Explorations THEN "classify" ELSE "generate")
  /\ UNCHANGED <<briefs, now, starts, slow>>

\* The classifier is sure of the content mode of an exploration, or the request
\* gives up.  (An unsure request that finds a brief stored meanwhile just ends, as
\* in Cut.)
Classify(r) ==
  /\ At(r, "classify")
  /\ \E c \in IF run[r].mode # "NONE" THEN {<<run[r].mode, NoPhase>>}
               ELSE ClassifyWithFallback(RowsOf[run[r].key].signals) :
       IF c = Undecided
       THEN Patch(run[r].key, "FAILED", NoTime) /\ End(r)
       ELSE /\ run' = [run EXCEPT ![r] = [@ EXCEPT !.pc = "recheck", !.mode = c[1]]]
            /\ UNCHANGED jobs
  /\ UNCHANGED <<briefs, now, starts, slow>>

\* findExplorationBrief once more, under the lease.
Recheck(r) ==
  /\ At(r, "recheck")
  /\ LET k == run[r].key
     IN  IF Stored(k) THEN Link(k, briefs[k].status) /\ End(r)
                      ELSE UNCHANGED jobs /\ Goto(r, "generate")
  /\ UNCHANGED <<briefs, now, starts, slow>>

\* What the gate lets pass, for each fingerprint, mode, start and kind of review.
Accepted ==
  [k \in Keys |-> [mode \in Modes |-> [at \in Time |-> [historical \in BOOLEAN |->
     LET exploration == k \in Explorations
         snapshot == BuildEvidenceSnapshot(RowsOf[k], exploration)
     IN  {answer \in Answers :
            ValidateCreativeBrief(answer, snapshot, exploration, mode, at, historical)}]]]]

Accepts(req, answer) == answer \in Accepted[req.key][req.mode][req.at][req.historical]

Answered(r, answer) ==
  run' = [run EXCEPT ![r] = [@ EXCEPT !.pc = "revision", !.answer = answer]]

GiveUp(r) == Patch(run[r].key, "FAILED", NoTime) /\ End(r)

\* The provider answers, after its retries, or FAILED_PROVIDER.  An answer the gate
\* refuses may be repaired once; an exploration's may not.
Generate(r) ==
  /\ At(r, "generate")
  /\ \/ \E answer \in Answers :
          IF Accepts(run[r], answer) THEN Answered(r, answer) /\ UNCHANGED jobs
          ELSE IF run[r].key \in Standards THEN Goto(r, "repair") /\ UNCHANGED jobs
          ELSE GiveUp(r)
     \/ GiveUp(r)
  /\ UNCHANGED <<briefs, now, starts, slow>>

\* Mutant of Repair: the repaired answer is not checked again.
RepairUnchecked(r) ==
  /\ At(r, "repair")
  /\ \/ \E answer \in Answers : Answered(r, answer) /\ UNCHANGED jobs
     \/ GiveUp(r)
  /\ UNCHANGED <<briefs, now, starts, slow>>

\* FAILED_VALIDATION when the repair fails, or its answer is refused too.
Repair(r) ==
  /\ At(r, "repair")
  /\ \/ \E answer \in Answers :
          Accepts(run[r], answer) /\ Answered(r, answer) /\ UNCHANGED jobs
     \/ GiveUp(r)
  /\ UNCHANGED <<briefs, now, starts, slow>>

Versions(c) == {briefs[k].version : k \in {k \in Keys : CandidateOf[k] = c /\ Stored(k)}}

NextRevision(r) ==
  /\ At(r, "revision")
  /\ run' = [run EXCEPT ![r] = [@ EXCEPT !.pc = "store",
       !.version = Max(Versions(CandidateOf[run[r].key]) \cup {0}) + 1]]
  /\ UNCHANGED <<jobs, briefs, now, starts, slow>>

\* Mutant of Insertable: the index on the version is missing.
InsertableAnyVersion(k, version) == ~Stored(k)

\* The unique indexes of creative_briefs: fingerprint; candidate and version.
Insertable(k, version) == ~Stored(k) /\ version \notin Versions(CandidateOf[k])

\* News on request of a story that is not eligible is left to the editor.  (A
\* priority run's story is eligible.)
BriefStatus(req) ==
  IF req.key \in Explorations \/ (req.mode = "NEWS_UPDATE" /\ ~req.eligible)
  THEN "DRAFT" ELSE "READY"

\* Mutant of StoreBrief: a unique violation is taken for success.
StoreBriefIgnoringConflict(r) ==
  /\ At(r, "store")
  /\ LET k == run[r].key
     IN  IF Insertable(k, run[r].version)
         THEN briefs' = [briefs EXCEPT ![k] =
                [status |-> BriefStatus(run[r]), version |-> run[r].version,
                 answer |-> run[r].answer]]
         ELSE UNCHANGED briefs
  /\ Goto(r, "finish")
  /\ UNCHANGED <<jobs, now, starts, slow>>

\* insertCreativeBrief; a unique violation is thrown past every update of the
\* job.
StoreBrief(r) ==
  /\ At(r, "store")
  /\ LET k == run[r].key
     IN  IF Insertable(k, run[r].version)
         THEN /\ briefs' = [briefs EXCEPT ![k] =
                   [status |-> BriefStatus(run[r]), version |-> run[r].version,
                    answer |-> run[r].answer]]
              /\ Goto(r, "finish")
         ELSE UNCHANGED briefs /\ End(r)
  /\ UNCHANGED <<jobs, now, starts, slow>>

Finish(r) ==
  /\ At(r, "finish")
  /\ Link(run[r].key, briefs[run[r].key].status)
  /\ End(r)
  /\ UNCHANGED <<briefs, now, starts, slow>>

\* A failed call, a lost response or the end of the function's time.
Cut(r) ==
  /\ ~At(r, "idle")
  /\ End(r)
  /\ UNCHANGED <<jobs, briefs, now, starts, slow>>

Tick ==
  /\ now < Horizon
  /\ now' = now + 1
  /\ slow' = (slow \/ \E r \in Runs : ~At(r, "idle") /\ now' >= run[r].at + LeaseTime)
  /\ UNCHANGED <<jobs, briefs, run, starts>>

Next ==
  \/ \E r \in Runs :
       \/ \E k \in Standards : StartStandard(r, k) \/ StartBlocked(r, k)
       \/ \E k \in Explorations : StartExploration(r, k)
       \/ Reserve(r) \/ Reread(r) \/ Lookup(r) \/ InsertJob(r) \/ Acquire(r) \/ Mark(r)
       \/ Classify(r) \/ Recheck(r) \/ Generate(r) \/ Repair(r) \/ NextRevision(r)
       \/ StoreBrief(r) \/ Finish(r) \/ Cut(r)
  \/ Tick

Spec == Init /\ [][Next]_vars

-----------------------------------------------------------------------------

\* A job that says DRAFT or READY has the stored brief it names: no request,
\* however late, can close the job of a fingerprint that was never generated,
\* which no later request would ever reopen.
FinishedJobsHaveBriefs ==
  \A k \in Keys : jobs[k].status \in {"DRAFT", "READY"} \/ jobs[k].brief =>
    /\ Stored(k)
    /\ jobs[k].status \in {"DRAFT", "READY"} => jobs[k].brief /\ jobs[k].status = briefs[k].status

\* The revisions of a candidate are 1, 2, 3 ... without a gap or a repetition,
\* although each request reads the last one in a step of its own.
RevisionsAreConsecutive ==
  \A c \in Candidates :
    LET stored == {k \in Keys : CandidateOf[k] = c /\ Stored(k)}
    IN  Versions(c) = 1..Cardinality(stored)

\* The claims of a STANDARD news brief are backed, one by one, by the database: by a
\* row that grounds a VERIFIED claim with a reliable publisher, and where that claim
\* is not confirmed the brief's claim does not confirm it; and one of those sources is
\* named on the slides and in the caption -- whichever of two overlapping requests,
\* with or without a repair, stored the brief.
Backs(rows, c, e) ==
  \E claim \in rows.claims, o \in rows.observations :
    /\ claim.id = e.claim /\ o.id = e.obs /\ <<"claim", claim.id, o.id>> \in c.refs
    /\ claim.status = "VERIFIED" /\ e.grounding /\ e.relation = "SUPPORTS"
    /\ rows.reliable[o.publisher]
    /\ claim.modality # "CONFIRMED" /\ "confirmation" \in c.text.says => "negated" \in c.text.says

Backed ==
  [k \in Standards |-> {answer \in Answers :
     /\ \A c \in Claims(answer) : \E e \in RowsOf[k].evidence : Backs(RowsOf[k], c, e)
     /\ \E c \in Claims(answer), e \in RowsOf[k].evidence :
          /\ Backs(RowsOf[k], c, e)
          /\ <<"claim", e.claim, e.obs>> \in SlideCopy(answer).names \cap answer.caption.names}]

NewsClaimsAreBacked ==
  \A k \in Standards :
    Stored(k) /\ briefs[k].answer.mode = "NEWS_UPDATE" => briefs[k].answer \in Backed[k]

\* Not so: the copy of its slides does not confirm what its sources doubt.  Of a
\* STANDARD news brief the gate reads the claims' texts for that, and in the copy and
\* the caption looks for names, URLs and the word of the report only
\* (quality_gate.ts:204-206, 229-234); an exploration's copy it reads too (:315-321).

\* A request past the lease, and what it holds it for: the paid calls and the
\* writes.
Holding(r) ==
  run[r].pc \in {"mark", "classify", "recheck", "generate", "repair", "revision", "store", "finish"}

LeaseExcludes(keys) ==
  \A r, s \in Runs :
    Holding(r) /\ Holding(s) /\ run[r].key = run[s].key /\ run[r].key \in keys => r = s

\* As long as every request has ended within its lease, the lease of a STANDARD
\* job admits one of them at a time.
StandardLeaseExcludes == ~slow => LeaseExcludes(Standards)

\* Not so: ~slow => LeaseExcludes(Explorations).  "A unique candidate/fingerprint
\* key plus a lease protects concurrent triggers" (milestone 5 design, section 8):
\* a request acquires a job that is still FAILED, another reserves it again, which
\* clears the lease, and acquires it too.
\*
\* Not so: a request at "generate" whose READY brief is stored, though
\* orchestrator_test.ts:176 says "concurrent triggers share one leased
\* generation": a request looks for a READY brief before it takes the lease.
\*
\* Not so: Cardinality(Taken(Day(t))) <= DailyLimit.  "Atomic reservation limit per
\* Asia/Seoul calendar day" (editorial-exploration-mode.md:12): a FAILED job is
\* reserved again before the day's reservations are counted.
\*
\* Not so: briefs[k].answer.mode = ModeOf[k].  The gate checks the mode the answer
\* names, not the one it was asked for, so an answer to a NEWS_UPDATE request that
\* calls itself ANALYSIS_CONTEXT is stored READY without the rules of news.
==============================================================================
