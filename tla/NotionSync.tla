------------------------------ MODULE NotionSync ------------------------------
(***************************************************************************)
(* The projection of the day's candidates on the pages of the Daily        *)
(* Intelligence database in Notion.  A run reads the candidates and the    *)
(* sync states once, then works through them: it creates or updates the    *)
(* page of a curated candidate of the run's day, marks the pages of other  *)
(* candidates DROPPED or EXPIRED, and saves what it did after each page.   *)
(*                                                                         *)
(* Notion may lose a request, or lose the answer to a request it has       *)
(* served; a save may be lost likewise; a run may be killed between any    *)
(* two calls and a job may be run a day late.  The jobs of two chains, or  *)
(* of a worker and one that took over from it, run side by side: nothing   *)
(* but the page ids that both have read keeps them apart.                  *)
(*                                                                         *)
(* The content of a page is the version of the candidate (a calculation    *)
(* stamps calculated_at, which is part of the payload: contents do not     *)
(* come back) and the revision of its latest brief.  Of several scoring    *)
(* rows of one identity only the latest counts: it is the candidate of     *)
(* this module.  The blocks of a page are written once, with the page.     *)
(***************************************************************************)
EXTENDS Integers, Sequences, FiniteSets, FiniteSetsExt

CONSTANTS
  Stories,        \* story clusters
  Syncers,        \* the sync runs that may go on at once
  MaxDay,         \* bound: the days of the clock
  CandidateLimit, \* candidates a run reads, 1000
  MaxAttempts,    \* of a Notion request, 3
  MaxChanges,     \* bound: calculations and briefs of candidates
  MaxRevision,    \* bound: briefs of a candidate
  MaxFaults       \* bound: lost requests and answers, kills, late jobs, and meetings of runs

\* Two dates of candidates can be listed before those of the run's day.
ASSUME NotionAssumption ==
  /\ IsFiniteSet(Stories) /\ IsFiniteSet(Syncers) /\ MaxDay \in Nat \ {0}
  /\ MaxAttempts \in Nat \ {0}
  /\ CandidateLimit \in Nat /\ CandidateLimit >= 2 * Cardinality(Stories)
  /\ MaxChanges \in Nat /\ MaxRevision \in Nat /\ MaxFaults \in Nat

VARIABLES
  day,       \* the UTC date
  candidate, \* content_candidates, by identity
  revision,  \* the version of the latest brief of a candidate, 0 for none
  state,     \* app_private.notion_sync_state, by identity
  pages,     \* the pages of the Daily Intelligence database, numbered from 1
  run,       \* the sync runs
  faults,
  meets      \* history: how often a run took up an identity that another one had at work

syncVars == <<day, candidate, revision, state, pages, run, faults, meets>>

\* syncIdentity: a story and a ranking date.
Identity == Stories \X (1..MaxDay)
Date(id) == id[2]

NoCandidate == [version |-> 0, curated |-> FALSE]
NoContent == [version |-> 0, revision |-> 0]
NoState == [page |-> 0, hash |-> NoContent, status |-> "NONE"]

\* The bound of faults and of meetings at an identity.
Bounded == \A id \in Identity : faults' + meets'[id] <= MaxFaults

Fault == /\ faults' = faults + 1
         /\ \A id \in Identity : faults + meets[id] < MaxFaults

\* What a run has read, what is left of its work, the identity it is at, and the
\* page Notion has answered with.
Idle == [step |-> "idle", day |-> 1, rows |-> << >>, states |-> << >>, todo |-> {},
         id |-> << >>, attempt |-> 1, page |-> 0]

SyncInit ==
  /\ day = 1
  /\ candidate = [id \in Identity |-> NoCandidate]
  /\ revision = [id \in Identity |-> 0]
  /\ state = [id \in Identity |-> NoState]
  /\ pages = << >>
  /\ run = [s \in Syncers |-> Idle]
  /\ faults = 0
  /\ meets = [id \in Identity |-> 0]

-----------------------------------------------------------------------------
(* The candidates, which other components write.                           *)

NextDay == /\ day < MaxDay
           /\ day' = day + 1
           /\ UNCHANGED <<candidate, revision, state, pages, run, faults, meets>>

MayChange ==
  MapThenSumSet(LAMBDA id : candidate[id].version + revision[id], Identity) < MaxChanges

\* A calculation ranks the candidate and flags it: it is curated when it is among
\* the ten first, or flagged.  The date in Seoul is the UTC date or the one after it.
Calculate(id, curated) ==
  /\ Date(id) \in {day, day + 1}
  /\ MayChange
  /\ candidate' = [candidate EXCEPT
       ![id] = [version |-> @.version + 1, curated |-> curated]]
  /\ UNCHANGED <<day, revision, state, pages, run, faults, meets>>

-----------------------------------------------------------------------------
(* What a run does with what it has read.                                  *)

\* The latest ranking dates are listed first; a listed row is kept with its brief.
Listings ==
  LET ids == {id \in Identity : candidate[id] # NoCandidate}
  IN  {listed \in SUBSET ids :
        /\ Cardinality(listed) <= CandidateLimit
        /\ listed # ids => Cardinality(listed) = CandidateLimit
        /\ \A id \in listed, other \in ids \ listed : Date(other) <= Date(id)}

\* buildNotionPagePayload: what the hash is taken of.
Content(id) == [version |-> candidate[id].version, revision |-> revision[id]]

\* listCandidates: the rows of a listing.
Rows(listed) ==
  [id \in listed |-> [curated |-> candidate[id].curated, content |-> Content(id)]]

Lifecycle(r, id) ==
  IF id \notin DOMAIN r.rows \/ Date(id) < r.day THEN "EXPIRED"
  ELSE IF Date(id) = r.day /\ r.rows[id].curated THEN "CURRENT" ELSE "DROPPED"

Unchanged(r, id) ==
  r.states[id].page # 0 /\ r.states[id].status = "CURRENT"
    /\ r.states[id].hash = r.rows[id].content

\* Mutant of NeedsWork: the candidates of other days are left alone.
NeedsWorkToday(r, id) ==
  /\ id \in DOMAIN r.rows /\ Date(id) = r.day
  /\ IF Lifecycle(r, id) = "CURRENT" THEN ~Unchanged(r, id) ELSE r.states[id].page # 0

\* The candidates whose page must change, and the past states without a listed
\* candidate that are not EXPIRED.
NeedsWork(r, id) ==
  IF id \in DOMAIN r.rows
  THEN IF Lifecycle(r, id) = "CURRENT" THEN ~Unchanged(r, id) ELSE r.states[id].page # 0
  ELSE Date(id) < r.day /\ r.states[id].page # 0 /\ r.states[id].status # "EXPIRED"

\* Listed candidates come first, the latest date before the others; the order by
\* rank within a date is left open.
Upcoming(r) ==
  LET listed == r.todo \cap DOMAIN r.rows
  IN  IF listed = {} THEN r.todo
      ELSE {id \in listed : \A other \in listed : Date(other) <= Date(id)}

\* The run goes on with one of its next identities, or is at its end.
Continue(r) ==
  IF r.todo = {} THEN {Idle}
  ELSE {[r EXCEPT !.step = "notion", !.id = id, !.todo = @ \ {id}, !.attempt = 1, !.page = 0] :
          id \in Upcoming(r)}

-----------------------------------------------------------------------------
(* The steps of a run.                                                     *)

Live == {s \in Syncers : run[s].step # "idle"}

\* The identities a run still has to do, and the one it is at.
AtWork(s) == run[s].todo \cup {run[s].id}

\* A run whose date is that of its as_of; others may be going on.
Start(s, asOf) ==
  /\ run[s].step = "idle"
  /\ \E listed \in Listings :
       LET r == [Idle EXCEPT !.day = asOf, !.rows = Rows(listed), !.states = state]
           todo == {id \in Identity : NeedsWork(r, id)}
       IN  /\ todo # {}
           /\ \E next \in Continue([r EXCEPT !.todo = todo]) : run' = [run EXCEPT ![s] = next]
           /\ meets' = [id \in Identity |-> IF id \in todo /\ \E other \in Live : id \in AtWork(other)
                                            THEN meets[id] + 1 ELSE meets[id]]
  /\ Bounded
  /\ UNCHANGED <<day, candidate, revision, state, pages>>

StartOnTime(s) == UNCHANGED faults /\ Start(s, day)

\* The job of the day before, run again after midnight.
StartLate(s) == day > 1 /\ faults' = faults + 1 /\ Start(s, day - 1)

\* Mutant of Creates: only a page that is CURRENT is found again.
CreatesUnlessCurrent(r) == Lifecycle(r, r.id) = "CURRENT" /\ r.states[r.id].status # "CURRENT"

Creates(r) == r.states[r.id].page = 0

\* A new page with its content, or properties of the page the snapshot names: all
\* of them, the link to the production page emptied, or the lifecycle alone.  The
\* link is emptied by the first sync after a projection: no job writes it again.
Apply(r) ==
  IF Creates(r)
  THEN pages' = Append(pages, [id |-> r.id, shown |-> r.rows[r.id].content,
                               life |-> "CURRENT", linked |-> FALSE])
  ELSE LET p == r.states[r.id].page
       IN  IF Lifecycle(r, r.id) = "CURRENT"
           THEN pages' = [pages EXCEPT ![p].shown = r.rows[r.id].content,
                                       ![p].life = "CURRENT", ![p].linked = FALSE]
           ELSE pages' = [pages EXCEPT ![p].life = Lifecycle(r, r.id)]

\* The page is changed and Notion says so.
Answered(s) ==
  /\ run[s].step = "notion"
  /\ Apply(run[s])
  /\ run' = [run EXCEPT ![s].step = "save",
                        ![s].page = IF Creates(run[s]) THEN Len(pages) + 1 ELSE run[s].states[run[s].id].page]
  /\ UNCHANGED <<day, candidate, revision, state, faults, meets>>

\* Mutant of Retried: a request without an answer is taken for served.
RetriedHopefully(s) ==
  /\ run[s].step = "notion"
  /\ Apply(run[s]) \/ UNCHANGED pages
  /\ run' = [run EXCEPT ![s].step = "save", ![s].page = run[s].states[run[s].id].page]
  /\ Fault
  /\ UNCHANGED <<day, candidate, revision, state, meets>>

\* No answer, 429 or 5xx: the request is made again, whether or not Notion has
\* served it, up to MaxAttempts times.
Retried(s) ==
  /\ run[s].step = "notion"
  /\ Apply(run[s]) \/ UNCHANGED pages
  /\ run' = IF run[s].attempt < MaxAttempts THEN [run EXCEPT ![s].attempt = @ + 1]
            ELSE [run EXCEPT ![s].step = "failed"]
  /\ Fault
  /\ UNCHANGED <<day, candidate, revision, state, meets>>

\* A refusal, or an answer that cannot be read.
Refused(s) ==
  /\ run[s].step = "notion"
  /\ Apply(run[s]) \/ UNCHANGED pages
  /\ run' = [run EXCEPT ![s].step = "failed"]
  /\ Fault
  /\ UNCHANGED <<day, candidate, revision, state, meets>>

\* A lifecycle change keeps the hash.
SuccessfulState(r) ==
  [page |-> r.page, status |-> Lifecycle(r, r.id),
   hash |-> IF Lifecycle(r, r.id) = "CURRENT" THEN r.rows[r.id].content ELSE r.states[r.id].hash]

GoesOn(s) == \E next \in Continue(run[s]) : run' = [run EXCEPT ![s] = next]

\* saveState; when it throws, the identity has failed, stored or not.
Save(s) ==
  /\ run[s].step = "save"
  /\ \/ /\ state' = [state EXCEPT ![run[s].id] = SuccessfulState(run[s])]
        /\ \/ GoesOn(s) /\ UNCHANGED faults
           \/ run' = [run EXCEPT ![s].step = "failed"] /\ Fault
     \/ run' = [run EXCEPT ![s].step = "failed"] /\ Fault /\ UNCHANGED state
  /\ UNCHANGED <<day, candidate, revision, pages, meets>>

\* What the run read of the row, and FAILED.
FailedState(r) == [r.states[r.id] EXCEPT !.status = "FAILED"]

SaveFailure(s) ==
  /\ run[s].step = "failed"
  /\ state' = [state EXCEPT ![run[s].id] = FailedState(run[s])]
  /\ GoesOn(s)
  /\ UNCHANGED <<day, candidate, revision, pages, faults, meets>>

\* The run is killed, or the save of a failure throws, stored or not.
Cut(s) ==
  /\ run[s].step # "idle"
  /\ \/ UNCHANGED state
     \/ run[s].step = "failed" /\ state' = [state EXCEPT ![run[s].id] = FailedState(run[s])]
  /\ run' = [run EXCEPT ![s] = Idle]
  /\ Fault
  /\ UNCHANGED <<day, candidate, revision, pages, meets>>

RunStep(s) == Answered(s) \/ Retried(s) \/ Refused(s) \/ Save(s) \/ SaveFailure(s) \/ Cut(s)

Rank == \E id \in Identity, curated \in BOOLEAN : Calculate(id, curated)

SyncNext ==
  \/ NextDay \/ Rank
  \/ \E s \in Syncers : StartOnTime(s) \/ StartLate(s) \/ RunStep(s)

SyncSpec == SyncInit /\ [][SyncNext]_syncVars

-----------------------------------------------------------------------------
PagesOf(id) == {p \in 1..Len(pages) : pages[p].id = id}

\* A page stands for one identity, and beyond the first page of an identity each
\* one is due to a lost answer, a lost save or a kill, or to a run that took the
\* identity up while another one was at it: no run that finds its mapping creates
\* another, whichever lifecycles it has gone through ("second run duplicate page"
\* none, milestone 4.5 design).
DuplicatesHaveCauses ==
  \A id \in Identity :
    /\ state[id].page # 0 => state[id].page \in PagesOf(id)
    /\ Cardinality(PagesOf(id)) <= 1 + faults + meets[id]

\* Not so: no run prevents another.  Two that both find no page both create one.
OnePage == faults = 0 => \A id \in Identity : Cardinality(PagesOf(id)) <= 1

\* A state that is CURRENT with a hash is what makes later runs skip the candidate:
\* its page has been given that calculation or a later one, unless two runs have met
\* at this very identity: then the page of the one and the state of the other may
\* be what stays, until the candidate is calculated anew.
SkippedPagesAreUpToDate ==
  \A id \in Identity : state[id].status = "CURRENT" =>
    /\ state[id].page # 0
    /\ meets[id] = 0 => pages[state[id].page].shown.version >= state[id].hash.version

Mapped(id) == pages[state[id].page]

\* The page shows a lifecycle; or a run of the day before was cut between this page
\* and its save.  The state then makes later runs skip the page until the candidate
\* is calculated anew: it takes two faults.
Shows(id, life) ==
  \/ Mapped(id).life = life
  \/ faults >= 2 /\ state[id].status = life

\* What Daily Intelligence should say of a candidate.
InStep(id) ==
  /\ Date(id) = day /\ candidate[id].curated =>
       /\ state[id].page # 0 /\ Shows(id, "CURRENT")
       /\ Mapped(id).shown.version = candidate[id].version
  /\ Date(id) = day /\ state[id].page # 0 /\ ~candidate[id].curated => Shows(id, "DROPPED")
  /\ Date(id) < day /\ state[id].page # 0 => Shows(id, "EXPIRED")

\* Once candidates, the clock and faults rest, Daily Intelligence comes to show
\* them and goes on to: curated candidates of the day in their latest calculation,
\* others dropped, earlier days expired, after whatever runs were lost half-way or were
\* going on beside each other, but where two of them have met.
PagesCatchUp == \A id \in Identity : <>[](InStep(id) \/ meets[id] > 0)
==============================================================================
