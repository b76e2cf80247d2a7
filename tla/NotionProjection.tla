--------------------------- MODULE NotionProjection ---------------------------
(***************************************************************************)
(* The projection of creative briefs on the Content Pipeline database in   *)
(* Notion, next to the sync of Daily Intelligence.  A brief that becomes   *)
(* READY enqueues a PROJECT_NOTION job; the job writes the production page *)
(* of the brief's candidate, records it, and puts the brief's revision and *)
(* the link to the page on the candidate's Daily Intelligence page, which  *)
(* the sync writes as well.                                                *)
(*                                                                         *)
(* Jobs of different briefs run at the same time; each call may be lost    *)
(* before or after its effect, and a worker may be killed.  Nothing in the *)
(* repository ever makes a production page other than EDITABLE.            *)
(***************************************************************************)
EXTENDS NotionSync

CONSTANT MaxJobAttempts \* of a PROJECT_NOTION job, 3

ASSUME ProjectionAssumption == MaxJobAttempts \in Nat \ {0}

VARIABLES
  production, \* the pages of the Content Pipeline database, numbered from 1
  pipeline,   \* creative_pipeline_sync_state: the page of each brief, 0 for no row
  job,        \* the PROJECT_NOTION job of each brief
  worker      \* what the invocation for a brief has read, and its next call

projectionVars == <<production, pipeline, job, worker>>
vars == <<syncVars, projectionVars>>

\* A brief: its candidate and its version, which is its revision.
Brief == Identity \X (1..MaxRevision)
Candidate(b) == b[1]
Version(b) == b[2]

NoJob == [status |-> "ABSENT", attempts |-> 0]
Off == [step |-> "off", page |-> 0]

ProjectionInit ==
  /\ SyncInit
  /\ production = << >>
  /\ pipeline = [b \in Brief |-> 0]
  /\ job = [b \in Brief |-> NoJob]
  /\ worker = [b \in Brief |-> Off]

-----------------------------------------------------------------------------

\* The next brief of a candidate, READY.  The trigger swallows an error of the
\* enqueue: the brief is written without a job.
WriteBrief(id) ==
  /\ candidate[id] # NoCandidate /\ revision[id] < MaxRevision /\ MayChange
  /\ revision' = [revision EXCEPT ![id] = @ + 1]
  /\ \/ job' = [job EXCEPT ![<<id, revision[id] + 1>>].status = "PENDING"] /\ UNCHANGED faults
     \/ Fault /\ UNCHANGED job
  /\ UNCHANGED <<day, candidate, state, pages, run, meets, production, pipeline, worker>>

\* getPipelineState: the page of the candidate's latest revision that has a row.
Existing(id) ==
  LET rows == {b \in Brief : Candidate(b) = id /\ pipeline[b] # 0}
  IN  IF rows = {} THEN 0
      ELSE pipeline[CHOOSE b \in rows : \A other \in rows : Version(other) <= Version(b)]

\* A claim, and what the invocation reads.
Claim(b) ==
  /\ job[b].status = "PENDING"
  /\ job' = [job EXCEPT ![b] = [status |-> "PROCESSING", attempts |-> @.attempts + 1]]
  /\ worker' = [worker EXCEPT
       ![b] = [step |-> IF Existing(Candidate(b)) = 0 THEN "create" ELSE "update",
               page |-> Existing(Candidate(b))]]
  /\ UNCHANGED <<syncVars, production, pipeline>>

GoOn(b, step) == worker' = [worker EXCEPT ![b].step = step]

\* The invocation answers 500 and the job is failed.
Fail(b) ==
  /\ worker' = [worker EXCEPT ![b] = Off]
  /\ job' = [job EXCEPT ![b].status =
       IF job[b].attempts >= MaxJobAttempts THEN "DEAD" ELSE "PENDING"]

\* A call of Notion or of the database that is lost: its error fails the job.
Lost(b) == Fault /\ Fail(b)

\* A new page with the brief in it.
Created(b) == production' = Append(production, [id |-> Candidate(b), shown |-> Version(b),
                                                body |-> {Version(b)}])

\* A lost answer leaves a page nobody knows of, whether the client asks again or
\* gives up.  Other calls have the same effect when they are made twice.
CreatePage(b) ==
  /\ worker[b].step = "create"
  /\ \/ /\ Created(b)
        /\ worker' = [worker EXCEPT ![b] = [step |-> "save", page |-> Len(production) + 1]]
        /\ UNCHANGED <<job, faults>>
     \/ Created(b) /\ Fault /\ UNCHANGED <<worker, job>>
     \/ Lost(b) /\ (Created(b) \/ UNCHANGED production)
  /\ UNCHANGED <<day, candidate, revision, state, pages, run, meets, pipeline>>

Updated(b) == production' = [production EXCEPT ![worker[b].page].shown = Version(b)]

UpdatePage(b) ==
  /\ worker[b].step = "update"
  /\ \/ Updated(b) /\ GoOn(b, "append") /\ UNCHANGED <<job, faults>>
     \/ Lost(b) /\ (Updated(b) \/ UNCHANGED production)
  /\ UNCHANGED <<day, candidate, revision, state, pages, run, meets, pipeline>>

\* The brief's blocks are added to the page's; nothing is taken away.
Appended(b) == production' = [production EXCEPT ![worker[b].page].body = @ \cup {Version(b)}]

AppendBlocks(b) ==
  /\ worker[b].step = "append"
  /\ \/ Appended(b) /\ GoOn(b, "save") /\ UNCHANGED <<job, faults>>
     \/ Lost(b) /\ (Appended(b) \/ UNCHANGED production)
  /\ UNCHANGED <<day, candidate, revision, state, pages, run, meets, pipeline>>

\* notion_page_id is unique: the page of another brief's row is refused.  It is
\* each time a candidate's second brief has updated and appended to the page.
Recordable(b) == \A other \in Brief \ {b} : pipeline[other] # worker[b].page

Recorded(b) == pipeline' = [pipeline EXCEPT ![b] = worker[b].page]

\* Mutant of SavePipelineState: a row that is refused is taken for saved.
SaveUnchecked(b) ==
  /\ worker[b].step = "save"
  /\ \/ /\ Recordable(b) /\ Recorded(b) /\ GoOn(b, "daily")
        /\ UNCHANGED <<job, faults>>
     \/ /\ ~Recordable(b) /\ GoOn(b, "daily")
        /\ UNCHANGED <<job, pipeline, faults>>
     \/ Lost(b) /\ ((Recordable(b) /\ Recorded(b)) \/ UNCHANGED pipeline)
  /\ UNCHANGED <<day, candidate, revision, state, pages, run, meets, production>>

SavePipelineState(b) ==
  /\ worker[b].step = "save"
  /\ \/ /\ Recordable(b) /\ Recorded(b) /\ GoOn(b, "daily")
        /\ UNCHANGED <<job, faults>>
     \/ /\ ~Recordable(b) /\ Fail(b)
        /\ UNCHANGED <<pipeline, faults>>
     \/ Lost(b) /\ ((Recordable(b) /\ Recorded(b)) \/ UNCHANGED pipeline)
  /\ UNCHANGED <<day, candidate, revision, state, pages, run, meets, production>>

Linked(b) == pages' = [pages EXCEPT ![state[Candidate(b)].page].shown.revision = Version(b),
                                    ![state[Candidate(b)].page].linked = TRUE]

\* The Daily Intelligence page, if the sync has made one; then the job is completed.
LinkDailyPage(b) ==
  /\ worker[b].step = "daily"
  /\ LET page == state[Candidate(b)].page
     IN  \/ /\ IF page = 0 THEN UNCHANGED pages ELSE Linked(b)
            /\ worker' = [worker EXCEPT ![b] = Off]
            /\ job' = [job EXCEPT ![b].status = "SUCCEEDED"]
            /\ UNCHANGED faults
         \/ Lost(b) /\ ((page # 0 /\ Linked(b)) \/ UNCHANGED pages)
  /\ UNCHANGED <<day, candidate, revision, state, run, meets, production, pipeline>>

\* A killed worker's lease runs out and its job is claimed again, whatever its
\* attempts.
Kill(b) ==
  /\ worker[b].step # "off" /\ Fault
  /\ worker' = [worker EXCEPT ![b] = Off]
  /\ job' = [job EXCEPT ![b].status = "PENDING"]
  /\ UNCHANGED <<day, candidate, revision, state, pages, run, meets, production, pipeline>>

Call(b) == \/ CreatePage(b) \/ UpdatePage(b) \/ AppendBlocks(b)
           \/ SavePipelineState(b) \/ LinkDailyPage(b)

ProjectionNext ==
  \/ SyncNext /\ UNCHANGED projectionVars
  \/ \E id \in Identity : WriteBrief(id)
  \/ \E b \in Brief : Claim(b) \/ Call(b) \/ Kill(b)

ProjectionSpec == ProjectionInit /\ [][ProjectionNext]_vars

\* A run that is not killed goes on, and when none does the next chain's sync, within
\* the hour, is one.
ProjectionFairSpec ==
  /\ ProjectionSpec
  /\ \A s \in Syncers :
       WF_vars(/\ Answered(s) \/ Save(s) \/ SaveFailure(s) \/ (Live = {} /\ StartOnTime(s))
               /\ UNCHANGED projectionVars)

-----------------------------------------------------------------------------

\* A job that has SUCCEEDED has left its brief in the body of the page its row names,
\* a page of its own candidate that no other brief's row names, whatever attempts
\* before it were cut and whatever other briefs did to that page.
SucceededIsOnItsPage ==
  \A b \in Brief : job[b].status = "SUCCEEDED" =>
    /\ pipeline[b] # 0
    /\ production[pipeline[b]].id = Candidate(b)
    /\ Version(b) \in production[pipeline[b]].body
    /\ \A other \in Brief \ {b} : pipeline[other] # pipeline[b]
==============================================================================
