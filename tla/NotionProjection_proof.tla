------------------------ MODULE NotionProjection_proof ------------------------
(***************************************************************************)
(* Proofs about the pages in Notion, for any number of stories, days,      *)
(* briefs, requests, faults and runs that go on at once: a state that      *)
(* makes the sync skip a candidate tells the truth about its page unless   *)
(* two runs have met there, a page too many is due to a fault or to such   *)
(* a meeting, and a projection that succeeded has left its brief on the    *)
(* page its row names.                                                     *)
(***************************************************************************)
EXTENDS NotionProjection, FiniteSetTheorems, WellFoundedInduction, TLAPS

Contents == [version : Nat, revision : Nat]
DailyPage == [id : Identity, shown : Contents, life : {"CURRENT", "DROPPED", "EXPIRED"},
              linked : BOOLEAN]
SyncState == [page : Nat, hash : Contents,
              status : {"NONE", "CURRENT", "DROPPED", "EXPIRED", "FAILED"}]
Listed == UNION {[S -> [curated : BOOLEAN, content : Contents]] : S \in SUBSET Identity}
Running == [step : {"notion", "save", "failed"}, day : Nat, rows : Listed,
            states : [Identity -> SyncState], todo : SUBSET Identity, id : Identity,
            attempt : Nat, page : Nat]
ProductionPage == [id : Identity, shown : Nat, body : SUBSET Nat]
JobRow == [status : {"ABSENT", "PENDING", "PROCESSING", "SUCCEEDED", "DEAD"}, attempts : Nat]
Worker == [step : {"off", "create", "update", "append", "save", "daily"}, page : Nat]

SyncTypes ==
  /\ day \in Nat /\ faults \in Nat
  /\ candidate \in [Identity -> [version : Nat, curated : BOOLEAN]]
  /\ revision \in [Identity -> Nat]
  /\ state \in [Identity -> SyncState]
  /\ pages \in Seq(DailyPage)
  /\ run \in [Syncers -> Running \cup {Idle}]
  /\ meets \in [Identity -> Nat]

\* Every page number that is held is of a page of its identity.
Holds(id, p) == p # 0 => p \in PagesOf(id)

\* A run only creates pages of candidates that it lists, and read each candidate after
\* its last state was saved.
Sound(r) ==
  /\ r.id \notin r.todo
  /\ \A id \in r.todo \cup {r.id} : r.states[id].page = 0 => Lifecycle(r, id) = "CURRENT"
  /\ \A id \in DOMAIN r.rows : r.states[id].hash.version <= r.rows[id].content.version

\* What a run has read, and the page it is about to save.
Reads(r) ==
  /\ \A id \in Identity : /\ Holds(id, r.states[id].page)
                          /\ r.states[id].hash.version <= candidate[id].version
  /\ \A id \in DOMAIN r.rows : r.rows[id].content.version <= candidate[id].version
  /\ r.step = "save" => r.page # 0 /\ Holds(r.id, r.page)

RunInv == \A s \in Live : Sound(run[s]) /\ Reads(run[s])

StateInv ==
  \A id \in Identity :
    /\ Holds(id, state[id].page)
    /\ state[id].hash.version <= candidate[id].version
    /\ state[id].status = "CURRENT" => state[id].page # 0

\* Where no two runs have met there is one run at work.  It alone writes the state and the
\* page: what it read of them holds until it saves its own.
Alone(id) ==
  /\ \A s, t \in Live : id \in AtWork(s) /\ id \in AtWork(t) => s = t
  /\ \A s \in Live : id \in AtWork(s) /\ (run[s].id # id \/ run[s].step = "notion") =>
       state[id] = run[s].states[id]
  /\ \A s \in Live :
       run[s].id = id /\ run[s].step = "save" /\ Lifecycle(run[s], id) = "CURRENT" =>
         pages[run[s].page].shown.version >= run[s].rows[id].content.version
  /\ state[id].status = "CURRENT" => pages[state[id].page].shown.version >= state[id].hash.version

AloneInv == \A id \in Identity : meets[id] = 0 => Alone(id)

\* A run owes an identity a page if it has read none and has still to create it, or has
\* failed to and is about to save that it has none.
Owes(r, id) ==
  /\ r.states[id].page = 0
  /\ id \in r.todo \/ (r.id = id /\ r.step \in {"notion", "failed"})

Owing(id) == {s \in Syncers : Owes(run[s], id)}

\* Some state or some run accounts for one page of the identity.
Known(id) ==
  \/ state[id].page # 0
  \/ \E s \in Syncers : Owes(run[s], id) \/ (run[s].step = "save" /\ run[s].id = id)

One(P) == IF P THEN 1 ELSE 0

\* Of the pages of an identity, made and still owed, one is accounted for; each of the
\* others has cost a fault or a meeting of runs.
CountInv ==
  \A id \in Identity :
    Cardinality(PagesOf(id)) + Cardinality(Owing(id)) <= faults + meets[id] + One(Known(id))

SyncInv == SyncTypes /\ RunInv /\ StateInv /\ AloneInv /\ CountInv

\* A worker past its first call knows a page of its candidate; from the save on the page
\* holds the brief, and after it the brief's row names the page.
On(b, p) ==
  /\ p \in 1..Len(production)
  /\ production[p].id = Candidate(b)

Placed(b) ==
  /\ pipeline[b] # 0 => On(b, pipeline[b])
  /\ worker[b].step \notin {"off", "create"} => On(b, worker[b].page)
  /\ worker[b].step \in {"save", "daily"} => Version(b) \in production[worker[b].page].body
  /\ worker[b].step = "daily" => pipeline[b] = worker[b].page
  /\ job[b].status = "SUCCEEDED" =>
       /\ worker[b].step = "off" /\ pipeline[b] # 0
       /\ Version(b) \in production[pipeline[b]].body

\* notion_page_id is unique.
Unique == \A b \in Brief : \A other \in Brief \ {b} : pipeline[b] # 0 => pipeline[other] # pipeline[b]

ProjectionInv ==
  /\ production \in Seq(ProductionPage)
  /\ pipeline \in [Brief -> Nat]
  /\ job \in [Brief -> JobRow] /\ worker \in [Brief -> Worker]
  /\ \A b \in Brief : Placed(b)
  /\ Unique
-----------------------------------------------------------------------------
(* Sequences of pages, and what a run goes on with.                        *)

LEMMA Appending ==
  ASSUME NEW S, NEW s \in Seq(S), NEW x \in S
  PROVE  /\ Append(s, x) \in Seq(S) /\ Len(Append(s, x)) = Len(s) + 1
         /\ \A i \in 1..Len(s) : Append(s, x)[i] = s[i]
         /\ Append(s, x)[Len(s) + 1] = x
  OBVIOUS

LEMMA Rewriting ==
  ASSUME NEW S, NEW s \in Seq(S), NEW p \in 1..Len(s), NEW x \in S
  PROVE  /\ [s EXCEPT ![p] = x] \in Seq(S) /\ Len([s EXCEPT ![p] = x]) = Len(s)
         /\ \A i \in 1..Len(s) : [s EXCEPT ![p] = x][i] = IF i = p THEN x ELSE s[i]
  OBVIOUS

\* A run, or what it is before it is at its first identity.
Reading == [step : {"idle", "notion", "save", "failed"}, day : Nat, rows : Listed,
            states : [Identity -> SyncState], todo : SUBSET Identity,
            id : Identity \cup {<< >>}, attempt : Nat, page : Nat]

LEMMA Continuing ==
  ASSUME NEW r \in Reading, NEW q \in Continue(r)
  PROVE  \/ q = Idle /\ r.todo = {}
         \/ /\ q \in Running /\ q.step = "notion" /\ q.id \in r.todo /\ q.todo = r.todo \ {q.id}
            /\ q.rows = r.rows /\ q.states = r.states /\ q.day = r.day
<1>1. CASE r.todo = {}
  BY <1>1 DEF Continue
<1>2. CASE r.todo # {}
  <2>1. PICK id \in Upcoming(r) : q = [r EXCEPT !.step = "notion", !.id = id, !.todo = @ \ {id},
                                               !.attempt = 1, !.page = 0]
    BY <1>2 DEF Continue
  <2>2. id \in r.todo
    BY DEF Upcoming
  <2> QED
    BY <2>1, <2>2 DEF Reading, Running
<1> QED
  BY <1>1, <1>2

LEMMA IdleIsNoRun == Idle \notin Running /\ Idle.step = "idle" /\ \A id : ~ Owes(Idle, id)
  BY DEF Idle, Running, Owes

LEMMA LiveIsRunning ==
  ASSUME SyncTypes, NEW s \in Syncers
  PROVE  /\ s \in Live <=> run[s] \in Running
         /\ s \notin Live <=> run[s] = Idle
  BY IdleIsNoRun DEF SyncTypes, Live, Running

LEMMA LifecycleStays ==
  ASSUME NEW r, NEW q, q.rows = r.rows, q.day = r.day, NEW id
  PROVE  Lifecycle(q, id) = Lifecycle(r, id)
  BY DEF Lifecycle

LEMMA ListedContents ==
  ASSUME NEW rows \in Listed, NEW id \in DOMAIN rows
  PROVE  rows[id].content \in Contents /\ id \in Identity
<1>1. PICK S \in SUBSET Identity : rows \in [S -> [curated : BOOLEAN, content : Contents]]
  BY DEF Listed
<1> QED
  BY <1>1

\* A run that goes on is as sound as it was.
LEMMA GoingOnIsSound ==
  ASSUME NEW r \in Reading, NEW q \in Continue(r), q # Idle,
         \A id \in r.todo : r.states[id].page = 0 => Lifecycle(r, id) = "CURRENT",
         \A id \in DOMAIN r.rows : r.states[id].hash.version <= r.rows[id].content.version
  PROVE  Sound(q)
<1>1. /\ q.id \in r.todo /\ q.todo = r.todo \ {q.id}
      /\ q.rows = r.rows /\ q.states = r.states /\ q.day = r.day
  BY Continuing
<1>2. \A id : Lifecycle(q, id) = Lifecycle(r, id)
  BY <1>1, LifecycleStays
<1> QED
  BY <1>1, <1>2 DEF Sound

LEMMA CountsAreNumbers ==
  ASSUME SyncTypes, NEW id
  PROVE  /\ IsFiniteSet(PagesOf(id)) /\ Cardinality(PagesOf(id)) \in Nat
         /\ IsFiniteSet(Owing(id)) /\ Cardinality(Owing(id)) \in Nat
<1>1. Len(pages) \in Nat
  BY DEF SyncTypes
<1>2. IsFiniteSet(1..Len(pages))
  BY <1>1, FS_Interval
<1>3. IsFiniteSet(PagesOf(id))
  BY <1>2, FS_Subset DEF PagesOf
<1>4. IsFiniteSet(Owing(id))
  BY NotionAssumption, FS_Subset DEF Owing
<1> QED
  BY <1>3, <1>4, FS_CardinalityType

\* The step of one run changes what is owed by that run alone.
Only(s) == \A t \in Syncers \ {s} : run'[t] = run[t]

LEMMA OwingMoves ==
  ASSUME SyncTypes, SyncTypes', NEW s \in Syncers, NEW id \in Identity, Only(s)
  PROVE  /\ Cardinality(Owing(id)') + One(Owes(run[s], id))
              = Cardinality(Owing(id)) + One(Owes(run'[s], id))
         /\ Cardinality(Owing(id)') \in Nat
<1> DEFINE A == Owing(id)
           B == Owing(id)'
<1>1. IsFiniteSet(A) /\ Cardinality(A) \in Nat
  BY CountsAreNumbers
<1>2. /\ s \in A <=> Owes(run[s], id)
      /\ s \in B <=> Owes(run'[s], id)
      /\ \A t : t # s => (t \in A <=> t \in B)
  BY DEF Owing, Only, Owes
<1> DEFINE moved == Cardinality(B) + One(Owes(run[s], id)) = Cardinality(A) + One(Owes(run'[s], id))
<1>3. ASSUME s \in A <=> s \in B PROVE moved
  <2>1. A = B
    BY <1>2, <1>3
  <2> HIDE DEF A, B
  <2> QED
    BY <1>1, <1>2, <1>3, <2>1 DEF One, A, B, A, B
<1>4. ASSUME s \in A, s \notin B PROVE moved
  <2>1. B = A \ {s}
    BY <1>2, <1>4
  <2> HIDE DEF A, B
  <2>2. Cardinality(B) = Cardinality(A) - 1
    BY <1>1, <1>4, <2>1, FS_RemoveElement
  <2> QED
    BY <1>1, <1>2, <1>4, <2>2 DEF One, A, B
<1>5. ASSUME s \notin A, s \in B PROVE moved
  <2>1. B = A \cup {s}
    BY <1>2, <1>5
  <2> HIDE DEF A, B
  <2>2. Cardinality(B) = Cardinality(A) + 1
    BY <1>1, <1>5, <2>1, FS_AddElement
  <2> QED
    BY <1>1, <1>2, <1>5, <2>2 DEF One, A, B
<1>6. Cardinality(B) \in Nat
  <2>1. B \subseteq Syncers
    BY DEF Owing
  <2> HIDE DEF B
  <2> QED
    BY <2>1, NotionAssumption, FS_Subset, FS_CardinalityType
<1> QED
  BY <1>3, <1>4, <1>5, <1>6

\* What a run has read stays true while pages are added and candidates calculated.
Grown ==
  /\ \A id \in Identity : PagesOf(id) \subseteq PagesOf(id)'
  /\ \A id \in Identity : /\ candidate[id].version \in Nat /\ candidate'[id].version \in Nat
                          /\ candidate'[id].version >= candidate[id].version

LEMMA ReadsStay ==
  ASSUME NEW r \in Running, Reads(r), Grown
  PROVE  Reads(r)'
<1>1. \A id \in Identity : \A p : Holds(id, p) => Holds(id, p)'
  BY DEF Grown, Holds
<1>2. ASSUME NEW id \in Identity
      PROVE  Holds(id, r.states[id].page)' /\ r.states[id].hash.version <= candidate'[id].version
  <2>1. r.states[id].hash.version \in Nat
    BY DEF Running, SyncState, Contents
  <2> QED
    BY <1>1, <2>1 DEF Reads, Grown
<1>3. ASSUME NEW id \in DOMAIN r.rows
      PROVE  r.rows[id].content.version <= candidate'[id].version
  <2>1. r.rows[id].content.version \in Nat /\ id \in Identity
    BY ListedContents DEF Running, Contents
  <2> QED
    BY <2>1 DEF Reads, Grown
<1>4. r.step = "save" => r.page # 0 /\ Holds(r.id, r.page)'
  BY <1>1 DEF Reads, Running
<1> QED
  BY <1>2, <1>3, <1>4 DEF Reads

-----------------------------------------------------------------------------
(* Steps of others.                                                        *)

\* A step that leaves the runs, their states and the versions of the pages alone.
Quiet ==
  /\ SyncTypes' /\ UNCHANGED <<run, state, meets>> /\ faults' >= faults
  /\ \A id \in Identity : candidate'[id].version >= candidate[id].version
  /\ \A id \in Identity : PagesOf(id)' = PagesOf(id)
  /\ \A p \in 1..Len(pages) : pages'[p].shown.version = pages[p].shown.version

LEMMA QuietKeeps ==
  ASSUME SyncInv, Quiet
  PROVE  SyncInv'
<1>0. /\ SyncTypes /\ SyncTypes' /\ faults \in Nat /\ faults' \in Nat
      /\ \A id \in Identity : candidate[id].version \in Nat /\ candidate'[id].version \in Nat
                              /\ state[id].hash.version \in Nat /\ meets[id] \in Nat
  BY DEF SyncInv, Quiet, SyncTypes, SyncState, Contents
<1>1. /\ UNCHANGED <<run, state, meets>> /\ Live' = Live /\ faults' >= faults
      /\ \A s : AtWork(s)' = AtWork(s)
      /\ Grown
  BY <1>0 DEF Quiet, AtWork, Live, Grown
<1>2. RunInv'
  <2> SUFFICES ASSUME NEW s \in Live PROVE Sound(run[s]) /\ Reads(run[s])'
    BY <1>1 DEF RunInv, Sound, Lifecycle
  <2>1. run[s] \in Running /\ Sound(run[s]) /\ Reads(run[s])
    BY <1>0, LiveIsRunning DEF SyncInv, RunInv, Live
  <2> DEFINE r == run[s]
  <2>2. Reads(r) /\ r \in Running /\ r = run'[s]
    BY <1>1, <2>1
  <2>3. Reads(run[s])'
    BY <1>1, <2>2, ReadsStay DEF Reads, Holds
  <2> QED
    BY <2>1, <2>3
<1>3. StateInv'
  <2>1. \A id \in Identity : \A p : Holds(id, p)' <=> Holds(id, p)
    BY DEF Holds, Quiet
  <2> QED
    BY <1>0, <1>1, <2>1 DEF SyncInv, StateInv, Quiet, Holds
<1>4. AloneInv'
  <2> SUFFICES ASSUME NEW id \in Identity, meets[id] = 0 PROVE Alone(id)'
    BY <1>1 DEF AloneInv
  <2>1. Alone(id)
    BY DEF SyncInv, AloneInv
  <2>2. \A s \in Live : run[s].id = id /\ run[s].step = "save" =>
          pages'[run[s].page].shown.version = pages[run[s].page].shown.version
    <3> SUFFICES ASSUME NEW s \in Live, run[s].id = id, run[s].step = "save"
                 PROVE  run[s].page \in 1..Len(pages)
      BY DEF Quiet
    <3> QED
      BY DEF SyncInv, RunInv, Reads, Holds, PagesOf
  <2>3. state[id].page # 0 =>
          pages'[state[id].page].shown.version = pages[state[id].page].shown.version
    BY DEF SyncInv, StateInv, Holds, PagesOf, Quiet
  <2>4. state[id].status = "CURRENT" => state[id].page # 0
    BY DEF SyncInv, StateInv
  <2> QED
    BY <1>1, <2>1, <2>2, <2>3, <2>4 DEF Alone, Lifecycle
<1>5. CountInv'
  <2> SUFFICES ASSUME NEW id \in Identity
               PROVE  Cardinality(PagesOf(id)') + Cardinality(Owing(id)')
                        <= faults' + meets'[id] + One(Known(id)')
    BY DEF CountInv
  <2>1. /\ Owing(id)' = Owing(id) /\ Known(id)' = Known(id) /\ PagesOf(id)' = PagesOf(id)
        /\ meets'[id] = meets[id]
    BY <1>1 DEF Owing, Known, Owes, Quiet
  <2>2. Cardinality(PagesOf(id)) + Cardinality(Owing(id)) <= faults + meets[id] + One(Known(id))
    BY DEF SyncInv, CountInv
  <2>3. /\ Cardinality(PagesOf(id)) \in Nat /\ Cardinality(Owing(id)) \in Nat /\ meets[id] \in Nat
        /\ One(Known(id)) \in Nat
    BY <1>0, CountsAreNumbers DEF One
  <2> QED
    BY <1>0, <1>1, <2>1, <2>2, <2>3
<1> QED
  BY <1>0, <1>2, <1>3, <1>4, <1>5 DEF SyncInv

-----------------------------------------------------------------------------
(* A run begins.                                                           *)

\* The candidates a run has to do, and the run before it is at the first of them.
LEMMA Beginning ==
  ASSUME SyncInv, NEW asOf \in Nat, NEW s \in Syncers, Start(s, asOf)
  PROVE  /\ Only(s) /\ s \notin Live /\ UNCHANGED <<day, candidate, revision, state, pages>>
         /\ run'[s] \in Running /\ run'[s].step = "notion" /\ Sound(run'[s]) /\ Reads(run'[s])
         /\ run'[s].states = state /\ run' \in [Syncers -> Running \cup {Idle}]
         /\ \A id \in Identity :
              meets'[id] = IF /\ id \in run'[s].todo \cup {run'[s].id}
                              /\ \E t \in Live : id \in AtWork(t)
                           THEN meets[id] + 1 ELSE meets[id]
<1>0. SyncTypes
  BY DEF SyncInv
<1>1. /\ run[s].step = "idle" /\ UNCHANGED <<day, candidate, revision, state, pages>>
  BY DEF Start
<1>2. PICK listed \in Listings :
        LET r == [Idle EXCEPT !.day = asOf, !.rows = Rows(listed), !.states = state]
            todo == {id \in Identity : NeedsWork(r, id)}
        IN  /\ todo # {}
            /\ \E next \in Continue([r EXCEPT !.todo = todo]) : run' = [run EXCEPT ![s] = next]
            /\ meets' = [id \in Identity |-> IF id \in todo /\ \E other \in Live : id \in AtWork(other)
                                             THEN meets[id] + 1 ELSE meets[id]]
  BY DEF Start
<1> DEFINE r == [Idle EXCEPT !.day = asOf, !.rows = Rows(listed), !.states = state]
           todo == {id \in Identity : NeedsWork(r, id)}
           q == [r EXCEPT !.todo = todo]
<1>3. listed \in SUBSET Identity
  BY DEF Listings
<1>4. \A id \in Identity : Content(id) \in Contents
  BY <1>0 DEF SyncTypes, Content, Contents
<1>5. Rows(listed) \in [listed -> [curated : BOOLEAN, content : Contents]]
  BY <1>0, <1>3, <1>4 DEF Rows, SyncTypes
<1>6. Rows(listed) \in Listed
  BY <1>3, <1>5 DEF Listed
<1>7. state \in [Identity -> SyncState]
  BY <1>0 DEF SyncTypes
<1>8. /\ r.rows = Rows(listed) /\ r.states = state /\ r.day = asOf
      /\ q.rows = Rows(listed) /\ q.states = state /\ q.day = asOf /\ q.todo = todo
  BY DEF Idle
<1>9. q \in Reading
  BY <1>6, <1>7 DEF Reading, Idle
<1>10. \A id \in todo : state[id].page = 0 => Lifecycle(q, id) = "CURRENT"
  BY <1>8 DEF NeedsWork, Lifecycle
<1>11. \A id \in DOMAIN q.rows : q.rows[id].content.version = candidate[id].version /\ id \in Identity
  BY <1>3, <1>5, <1>8 DEF Rows, Content
<1>12. \A id \in Identity : /\ candidate[id].version \in Nat
                            /\ state[id].hash.version <= candidate[id].version
                            /\ Holds(id, state[id].page)
  BY <1>0 DEF SyncTypes, SyncInv, StateInv
<1>13. PICK next \in Continue(q) : run' = [run EXCEPT ![s] = next]
  BY <1>2
<1>14. /\ q.todo # {}
       /\ \A id \in Identity :
            meets'[id] = IF id \in q.todo /\ \E t \in Live : id \in AtWork(t)
                         THEN meets[id] + 1 ELSE meets[id]
  BY <1>2, <1>8
<1> HIDE DEF q, r, todo
<1>15. /\ next # Idle /\ next \in Running /\ next.step = "notion" /\ next.id \in q.todo
       /\ next.todo = q.todo \ {next.id} /\ next.rows = q.rows /\ next.states = state
  <2>1. next # Idle
    BY <1>9, <1>13, <1>14, Continuing, IdleIsNoRun
  <2> QED
    BY <1>8, <1>9, <1>13, <1>14, <2>1, Continuing
<1>16. Sound(next)
  <2>1. \A id \in DOMAIN q.rows : q.states[id].hash.version <= q.rows[id].content.version
    BY <1>8, <1>11, <1>12
  <2>2. \A id \in q.todo : q.states[id].page = 0 => Lifecycle(q, id) = "CURRENT"
    BY <1>8, <1>10
  <2> QED
    BY <1>9, <1>13, <1>15, <2>1, <2>2, GoingOnIsSound
<1>17. Reads(next)
  <2>1. \A id \in DOMAIN next.rows : next.rows[id].content.version <= candidate[id].version
    BY <1>11, <1>12, <1>15
  <2> QED
    BY <1>12, <1>15, <2>1 DEF Reads
<1>18. run'[s] = next /\ Only(s) /\ s \notin Live /\ run' \in [Syncers -> Running \cup {Idle}]
  BY <1>0, <1>1, <1>13, <1>15 DEF Only, Live, SyncTypes
<1> QED
  BY <1>1, <1>14, <1>15, <1>16, <1>17, <1>18

LEMMA StartKeeps ==
  ASSUME SyncInv, NEW asOf \in Nat, NEW s \in Syncers, Start(s, asOf), SyncTypes', faults' >= faults
  PROVE  SyncInv'
<1>0. /\ SyncTypes /\ SyncTypes' /\ faults \in Nat /\ faults' \in Nat
      /\ \A id \in Identity : meets[id] \in Nat
  BY DEF SyncInv, SyncTypes
<1>1. /\ Only(s) /\ s \notin Live /\ UNCHANGED <<candidate, state, pages>>
      /\ run'[s] \in Running /\ run'[s].step = "notion" /\ Sound(run'[s]) /\ Reads(run'[s])
      /\ run'[s].states = state
      /\ \A id \in Identity :
           meets'[id] = IF /\ id \in run'[s].todo \cup {run'[s].id}
                           /\ \E t \in Live : id \in AtWork(t)
                        THEN meets[id] + 1 ELSE meets[id]
  BY Beginning
<1> DEFINE q == run'[s]
<1>2. /\ run[s] = Idle /\ Live' = Live \cup {s}
      /\ \A t \in Live : t # s /\ run'[t] = run[t] /\ AtWork(t)' = AtWork(t)
      /\ AtWork(s)' = q.todo \cup {q.id}
  BY <1>0, <1>1, LiveIsRunning DEF Live, Only, AtWork, Running
<1>3. \A id \in Identity : PagesOf(id)' = PagesOf(id) /\ \A p : Holds(id, p)' <=> Holds(id, p)
  BY <1>1 DEF PagesOf, Holds
<1>4. RunInv'
  <2>1. \A t \in Live' : Sound(run'[t]) /\ Reads(run'[t])
    BY <1>1, <1>2 DEF SyncInv, RunInv
  <2>2. \A t : Reads(run'[t]) => Reads(run[t])'
    BY <1>1 DEF Reads, Holds, PagesOf
  <2>3. \A t : Sound(run'[t]) => Sound(run[t])'
    BY DEF Sound, Lifecycle
  <2> QED
    BY <2>1, <2>2, <2>3 DEF RunInv
<1>5. StateInv'
  BY <1>1, <1>3 DEF SyncInv, StateInv, Holds, PagesOf
<1>6. AloneInv'
  <2> SUFFICES ASSUME NEW id \in Identity, meets'[id] = 0 PROVE Alone(id)'
    BY DEF AloneInv
  <2>1. /\ meets[id] = 0
        /\ id \in AtWork(s)' => \A t \in Live : id \notin AtWork(t)
    BY <1>0, <1>1, <1>2
  <2>2. Alone(id)
    BY <2>1 DEF SyncInv, AloneInv
  <2>3. (\A u, t \in Live : id \in AtWork(u) /\ id \in AtWork(t) => u = t)'
    BY <1>2, <2>1, <2>2 DEF Alone
  <2>4. (\A t \in Live : id \in AtWork(t) /\ (run[t].id # id \/ run[t].step = "notion") =>
                           state[id] = run[t].states[id])'
    BY <1>1, <1>2, <2>2 DEF Alone
  <2>5. (\A t \in Live :
           run[t].id = id /\ run[t].step = "save" /\ Lifecycle(run[t], id) = "CURRENT" =>
             pages[run[t].page].shown.version >= run[t].rows[id].content.version)'
    BY <1>1, <1>2, <2>2 DEF Alone, Lifecycle
  <2>6. (state[id].status = "CURRENT" =>
           pages[state[id].page].shown.version >= state[id].hash.version)'
    BY <1>1, <2>2 DEF Alone
  <2> QED
    BY <2>3, <2>4, <2>5, <2>6 DEF Alone
<1>7. CountInv'
  <2> SUFFICES ASSUME NEW id \in Identity
               PROVE  Cardinality(PagesOf(id)') + Cardinality(Owing(id)')
                        <= faults' + meets'[id] + One(Known(id)')
    BY DEF CountInv
  <2>1. Cardinality(PagesOf(id)) + Cardinality(Owing(id)) <= faults + meets[id] + One(Known(id))
    BY DEF SyncInv, CountInv
  <2>2. /\ Cardinality(PagesOf(id)) \in Nat /\ Cardinality(Owing(id)) \in Nat
        /\ Cardinality(Owing(id)') \in Nat /\ meets[id] \in Nat /\ meets'[id] >= meets[id]
        /\ meets'[id] \in Nat
    BY <1>0, <1>1, CountsAreNumbers, OwingMoves
  <2>3. ~ Owes(run[s], id)
    BY <1>2, IdleIsNoRun
  <2>4. Cardinality(Owing(id)') = Cardinality(Owing(id)) + One(Owes(run'[s], id))
    BY <1>0, <1>1, <2>2, <2>3, OwingMoves DEF One
  <2>5. Known(id) => Known(id)'
    <3> SUFFICES ASSUME Known(id) PROVE Known(id)'
      OBVIOUS
    <3>1. \A t \in Syncers : (Owes(run[t], id) \/ (run[t].step = "save" /\ run[t].id = id)) =>
             run'[t] = run[t]
      BY <1>1, <1>2, <2>3, IdleIsNoRun DEF Only
    <3> QED
      BY <1>1, <3>1 DEF Known, Owes
  <2>6. CASE ~ Owes(run'[s], id)
    BY <1>0, <1>3, <2>1, <2>2, <2>4, <2>5, <2>6 DEF One
  <2>7. CASE Owes(run'[s], id)
    <3>1. Known(id)'
      BY <2>7 DEF Known, Owes
    <3>2. id \in run'[s].todo \cup {run'[s].id} /\ state[id].page = 0
      BY <1>1, <2>7 DEF Owes
    <3>3. CASE \E t \in Live : id \in AtWork(t)
      <4>1. meets'[id] = meets[id] + 1
        BY <1>1, <3>2, <3>3
      <4> QED
        BY <1>0, <1>3, <2>1, <2>2, <2>4, <2>7, <3>1, <4>1 DEF One
    <3>4. CASE ~ \E t \in Live : id \in AtWork(t)
      <4>1. ~ Known(id)
        <5>1. \A t \in Syncers : Owes(run[t], id) \/ (run[t].step = "save" /\ run[t].id = id) =>
                 t \in Live /\ id \in AtWork(t)
          BY <1>0, IdleIsNoRun, LiveIsRunning DEF Owes, AtWork, Live
        <5> QED
          BY <3>2, <3>4, <5>1 DEF Known
      <4> QED
        BY <1>0, <1>3, <2>1, <2>2, <2>4, <2>7, <3>1, <4>1 DEF One
    <3> QED
      BY <3>3, <3>4
  <2> QED
    BY <2>6, <2>7
<1> QED
  BY <1>0, <1>4, <1>5, <1>6, <1>7 DEF SyncInv

-----------------------------------------------------------------------------
(* A request.                                                              *)

\* The page a request is about.
Target(r) == IF Creates(r) THEN Len(pages) + 1 ELSE r.states[r.id].page

LEMMA ServingWrites ==
  ASSUME pages \in Seq(DailyPage), NEW r \in Running, Sound(r), Reads(r), Apply(r)
  PROVE  /\ pages' \in Seq(DailyPage) /\ Len(pages') \in Nat
         /\ Target(r) # 0 /\ Target(r) \in 1..Len(pages') /\ pages'[Target(r)].id = r.id
         /\ \A id \in Identity :
              PagesOf(id)' = IF id = r.id THEN PagesOf(id) \cup {Target(r)} ELSE PagesOf(id)
         /\ ~ Creates(r) => Target(r) \in PagesOf(r.id)
         /\ Creates(r) => \A id : Target(r) \notin PagesOf(id)
         /\ Lifecycle(r, r.id) = "CURRENT" =>
              pages'[Target(r)].shown.version = r.rows[r.id].content.version
         /\ \A p \in 1..Len(pages) :
              \/ pages'[p].shown.version = pages[p].shown.version
              \/ p = Target(r) /\ Lifecycle(r, r.id) = "CURRENT"
<1>0. Len(pages) \in Nat /\ r.id \in Identity /\ r.rows \in Listed
  BY DEF Running
<1>1. /\ Creates(r) => Lifecycle(r, r.id) = "CURRENT"
      /\ ~ Creates(r) => r.states[r.id].page \in PagesOf(r.id)
  BY <1>0 DEF Sound, Reads, Creates, Holds
<1>2. Lifecycle(r, r.id) = "CURRENT" => r.rows[r.id].content \in Contents
  BY <1>0, ListedContents DEF Lifecycle
<1>3. CASE Creates(r)
  <2> DEFINE new == [id |-> r.id, shown |-> r.rows[r.id].content, life |-> "CURRENT",
                     linked |-> FALSE]
  <2>1. pages' = Append(pages, new) /\ new \in DailyPage
    BY <1>0, <1>1, <1>2, <1>3 DEF Apply, DailyPage
  <2>2. new.id = r.id /\ new.shown = r.rows[r.id].content
    OBVIOUS
  <2> HIDE DEF new
  <2>3. /\ pages' \in Seq(DailyPage) /\ Len(pages') = Len(pages) + 1
        /\ \A i \in 1..Len(pages) : pages'[i] = pages[i]
        /\ pages'[Len(pages) + 1] = new
    BY <1>0, <2>1, Appending
  <2>4. Target(r) = Len(pages) + 1 /\ Target(r) # 0
    BY <1>0, <1>3 DEF Target
  <2>5. /\ 1..Len(pages') = 1..Len(pages) \cup {Target(r)} /\ Target(r) \notin 1..Len(pages)
        /\ Target(r) \in 1..Len(pages')
    BY <1>0, <2>3, <2>4
  <2>6. /\ \A i \in 1..Len(pages) : pages'[i].id = pages[i].id
        /\ pages'[Target(r)].id = r.id
    BY <2>2, <2>3, <2>4
  <2>7. \A id \in Identity :
          PagesOf(id)' = IF id = r.id THEN PagesOf(id) \cup {Target(r)} ELSE PagesOf(id)
    BY <2>5, <2>6 DEF PagesOf
  <2>8. \A id : Target(r) \notin PagesOf(id)
    BY <2>5 DEF PagesOf
  <2> QED
    BY <1>0, <1>3, <2>2, <2>3, <2>4, <2>5, <2>6, <2>7, <2>8
<1>4. CASE ~ Creates(r)
  <2> DEFINE p == r.states[r.id].page
             new == IF Lifecycle(r, r.id) = "CURRENT"
                    THEN [pages[p] EXCEPT !.shown = r.rows[r.id].content, !.life = "CURRENT",
                                          !.linked = FALSE]
                    ELSE [pages[p] EXCEPT !.life = Lifecycle(r, r.id)]
  <2>1. p \in 1..Len(pages) /\ pages[p].id = r.id /\ pages[p] \in DailyPage /\ Target(r) = p
    BY <1>0, <1>1, <1>4 DEF PagesOf, Target
  <2>2. /\ new \in DailyPage /\ new.id = r.id
        /\ IF Lifecycle(r, r.id) = "CURRENT" THEN new.shown = r.rows[r.id].content
           ELSE new.shown = pages[p].shown
    BY <1>0, <1>2, <2>1 DEF DailyPage, Lifecycle
  <2>3. pages' = [pages EXCEPT ![p] = new]
    BY <1>0, <1>4, <2>1 DEF Apply
  <2> HIDE DEF new, p
  <2>4. /\ pages' \in Seq(DailyPage) /\ Len(pages') = Len(pages)
        /\ \A i \in 1..Len(pages) : pages'[i] = IF i = p THEN new ELSE pages[i]
    BY <1>0, <2>1, <2>2, <2>3, Rewriting
  <2>5. \A id \in Identity : PagesOf(id)' = PagesOf(id)
    BY <2>1, <2>2, <2>4 DEF PagesOf
  <2>6. p \in PagesOf(r.id) /\ p # 0
    BY <1>0, <2>1 DEF PagesOf
  <2>7. \A id \in Identity :
          PagesOf(id)' = IF id = r.id THEN PagesOf(id) \cup {Target(r)} ELSE PagesOf(id)
    BY <2>1, <2>5, <2>6
  <2> QED
    BY <1>0, <1>4, <2>1, <2>2, <2>4, <2>6, <2>7
<1> QED
  BY <1>3, <1>4

\* A request is answered, or it is not and costs a fault.
Serving(s) ==
  /\ run[s] \in Running /\ run[s].step = "notion" /\ Sound(run[s]) /\ Reads(run[s])
  /\ run'[s] \in Running /\ Only(s) /\ run' \in [Syncers -> Running \cup {Idle}]
  /\ run'[s].id = run[s].id /\ run'[s].todo = run[s].todo /\ run'[s].rows = run[s].rows
  /\ run'[s].states = run[s].states /\ run'[s].day = run[s].day
  /\ UNCHANGED <<day, candidate, revision, state, meets>>
  /\ \/ /\ Apply(run[s]) /\ run'[s].step = "save" /\ run'[s].page = Target(run[s])
        /\ faults' = faults
     \/ /\ Apply(run[s]) \/ UNCHANGED pages
        /\ run'[s].step \in {"notion", "failed"} /\ faults' = faults + 1

LEMMA RequestsServe ==
  ASSUME SyncInv, NEW s \in Syncers, Answered(s) \/ Retried(s) \/ Refused(s)
  PROVE  Serving(s)
<1>0. SyncTypes /\ run[s].step = "notion" /\ s \in Live
  BY DEF SyncInv, Answered, Retried, Refused, Live
<1>1. run[s] \in Running /\ Sound(run[s]) /\ Reads(run[s])
  BY <1>0, LiveIsRunning DEF SyncInv, RunInv
<1>2. Len(pages) \in Nat /\ Target(run[s]) \in Nat
  BY <1>0, <1>1 DEF SyncTypes, Target, Running, SyncState
<1>3. ASSUME NEW q \in Running, run' = [run EXCEPT ![s] = q]
      PROVE  run'[s] = q /\ Only(s) /\ run' \in [Syncers -> Running \cup {Idle}]
  BY <1>0, <1>3 DEF SyncTypes, Only
<1>4. CASE Answered(s)
  <2> DEFINE q == [run[s] EXCEPT !.step = "save", !.page = Target(run[s])]
  <2>1. /\ q \in Running /\ q.step = "save" /\ q.page = Target(run[s]) /\ q.id = run[s].id
        /\ q.todo = run[s].todo /\ q.rows = run[s].rows /\ q.states = run[s].states
        /\ q.day = run[s].day
    BY <1>1, <1>2 DEF Running
  <2>2. run' = [run EXCEPT ![s] = q]
    BY <1>0, <1>4 DEF Answered, Target, SyncTypes
  <2> HIDE DEF q
  <2> QED
    BY <1>0, <1>1, <1>3, <1>4, <2>1, <2>2 DEF Answered, Serving
<1>5. CASE Retried(s) \/ Refused(s)
  <2>1. \/ run' = [run EXCEPT ![s] = [run[s] EXCEPT !.attempt = @ + 1]]
        \/ run' = [run EXCEPT ![s] = [run[s] EXCEPT !.step = "failed"]]
    BY <1>0, <1>5 DEF Retried, Refused, SyncTypes
  <2>2. PICK q \in {[run[s] EXCEPT !.attempt = @ + 1], [run[s] EXCEPT !.step = "failed"]} :
          run' = [run EXCEPT ![s] = q]
    BY <2>1
  <2>3. /\ q \in Running /\ q.step \in {"notion", "failed"} /\ q.id = run[s].id
        /\ q.todo = run[s].todo /\ q.rows = run[s].rows /\ q.states = run[s].states
        /\ q.day = run[s].day
    BY <1>0, <1>1 DEF Running
  <2> QED
    BY <1>0, <1>1, <1>3, <1>5, <2>2, <2>3 DEF Retried, Refused, Serving, Fault
<1> QED
  BY <1>4, <1>5

\* The other runs are where they were, and pages only get more.
LEMMA ServeLeaves ==
  ASSUME SyncInv, NEW s \in Syncers, Serving(s)
  PROVE  /\ SyncTypes /\ SyncTypes' /\ Live' = Live /\ s \in Live /\ Grown
         /\ \A t \in Syncers : AtWork(t)' = AtWork(t)
<1>1. SyncTypes
  BY DEF SyncInv
<1>2. pages' \in Seq(DailyPage) /\ \A id \in Identity : PagesOf(id) \subseteq PagesOf(id)'
  <2>1. pages \in Seq(DailyPage)
    BY <1>1 DEF SyncTypes
  <2>2. CASE UNCHANGED pages
    BY <2>1, <2>2 DEF PagesOf
  <2>3. CASE Apply(run[s])
    BY <2>1, <2>3, ServingWrites DEF Serving
  <2> QED
    BY <2>2, <2>3 DEF Serving
<1>3. SyncTypes' /\ Grown
  BY <1>1, <1>2 DEF Serving, SyncTypes, Grown
<1>4. \A t \in Syncers : /\ run'[t].step # "idle" <=> run[t].step # "idle"
                         /\ run'[t].todo = run[t].todo /\ run'[t].id = run[t].id
  BY DEF Serving, Only, Running
<1>5. Live' = Live /\ s \in Live
  BY <1>4 DEF Live, Serving
<1>6. \A t \in Syncers : AtWork(t)' = AtWork(t)
  BY DEF AtWork, Serving, Only
<1> QED
  BY <1>1, <1>3, <1>5, <1>6

LEMMA ServeKeepsRuns ==
  ASSUME SyncInv, NEW s \in Syncers, Serving(s)
  PROVE  RunInv' /\ StateInv'
<1>1. /\ SyncTypes /\ Live' = Live /\ s \in Live /\ Grown
      /\ UNCHANGED <<state, candidate>> /\ pages \in Seq(DailyPage)
  BY ServeLeaves DEF Serving, SyncTypes
<1>2. RunInv'
  <2> SUFFICES ASSUME NEW t \in Live PROVE Sound(run'[t]) /\ Reads(run[t])'
    BY <1>1 DEF RunInv, Sound, Lifecycle
  <2>1. run[t] \in Running /\ Sound(run[t]) /\ Reads(run[t])
    BY <1>1, LiveIsRunning DEF SyncInv, RunInv, Live
  <2> DEFINE r == run[t]
  <2>2. PICK old \in Running : old = r
    BY <2>1
  <2>3. Reads(old)'
    BY <1>1, <2>1, <2>2, ReadsStay
  <2>4. CASE t # s
    <3>1. run'[t] = old
      BY <2>2, <2>4 DEF Serving, Only, Live
    <3> QED
      BY <2>1, <2>2, <2>3, <3>1 DEF Reads, Holds
  <2>5. CASE t = s
    <3>1. Sound(run'[s])
      <4>1. \A id : Lifecycle(run'[s], id) = Lifecycle(run[s], id)
        BY LifecycleStays DEF Serving
      <4> QED
        BY <4>1 DEF Serving, Sound
    <3>2. /\ run'[s].rows = old.rows /\ run'[s].states = old.states /\ run'[s].id = old.id
          /\ old.id \in Identity
      BY <2>2, <2>5 DEF Serving, Running
    <3>3. run'[s].step = "save" => run'[s].page # 0 /\ Holds(run[s].id, run[s].page)'
      <4> SUFFICES ASSUME run'[s].step = "save"
                   PROVE  run'[s].page # 0 /\ run'[s].page \in PagesOf(run[s].id)'
        BY DEF Holds
      <4>1. Apply(run[s]) /\ run'[s].page = Target(run[s])
        BY DEF Serving
      <4>2. /\ Target(run[s]) # 0 /\ Target(run[s]) \in 1..Len(pages')
            /\ pages'[Target(run[s])].id = run[s].id
        BY <1>1, <4>1, ServingWrites DEF Serving
      <4> QED
        BY <2>2, <2>5, <3>2, <4>1, <4>2 DEF PagesOf
    <3> QED
      BY <2>3, <2>5, <3>1, <3>2, <3>3 DEF Reads, Holds, PagesOf
  <2> QED
    BY <2>4, <2>5
<1>3. StateInv'
  BY <1>1 DEF SyncInv, StateInv, Grown, Holds
<1> QED
  BY <1>2, <1>3

LEMMA ServeKeepsAlone ==
  ASSUME SyncInv, NEW s \in Syncers, Serving(s), NEW id \in Identity, Alone(id)
  PROVE  Alone(id)'
<1>1. /\ SyncTypes /\ SyncTypes' /\ Live' = Live /\ s \in Live /\ Grown
      /\ UNCHANGED <<state, candidate>> /\ pages \in Seq(DailyPage)
      /\ \A t \in Syncers : AtWork(t)' = AtWork(t)
      /\ run[s] \in Running /\ Sound(run[s]) /\ Reads(run[s]) /\ Live \subseteq Syncers
  BY ServeLeaves DEF Serving, SyncTypes, Live
<1>2. \A t \in Live : /\ run'[t].id = run[t].id /\ run'[t].rows = run[t].rows
                      /\ run'[t].states = run[t].states /\ run'[t].day = run[t].day
                      /\ t # s => run'[t] = run[t]
  BY <1>1 DEF Serving, Only
<1>3. \A t \in Live : Lifecycle(run'[t], id) = Lifecycle(run[t], id)
  BY <1>2, LifecycleStays
\* A page of the identity changes its version only if the request is about the identity.
<1>4. ASSUME NEW p \in PagesOf(id), pages'[p].shown.version # pages[p].shown.version
      PROVE  /\ Apply(run[s]) /\ p = Target(run[s]) /\ run[s].id = id
             /\ Lifecycle(run[s], id) = "CURRENT"
             /\ pages'[p].shown.version = run[s].rows[id].content.version
             /\ pages'[p].shown.version \in Nat
  <2>1. Apply(run[s]) /\ p \in 1..Len(pages)
    BY <1>4 DEF Serving, PagesOf
  <2>2. p = Target(run[s]) /\ Lifecycle(run[s], run[s].id) = "CURRENT"
    BY <1>1, <1>4, <2>1, ServingWrites
  <2>3. /\ pages'[Target(run[s])].id = run[s].id /\ p \in 1..Len(pages')
        /\ pages'[p].shown.version = run[s].rows[run[s].id].content.version
        /\ p \in PagesOf(id)' /\ pages' \in Seq(DailyPage)
    BY <1>1, <2>1, <2>2, ServingWrites DEF Grown
  <2>4. run[s].id = id
    BY <2>2, <2>3 DEF PagesOf
  <2>5. pages'[p] \in DailyPage
    BY <2>3
  <2>6. pages'[p].shown.version \in Nat
    BY <2>5 DEF DailyPage, Contents
  <2> QED
    BY <2>1, <2>2, <2>3, <2>4, <2>6
<1>5. (\A t, u \in Live : id \in AtWork(t) /\ id \in AtWork(u) => t = u)'
  BY <1>1 DEF Alone
<1>6. (\A t \in Live : id \in AtWork(t) /\ (run[t].id # id \/ run[t].step = "notion") =>
                         state[id] = run[t].states[id])'
  BY <1>1, <1>2 DEF Alone, Serving
<1>7. (\A t \in Live : run[t].id = id /\ run[t].step = "save" /\ Lifecycle(run[t], id) = "CURRENT" =>
         pages[run[t].page].shown.version >= run[t].rows[id].content.version)'
  <2> SUFFICES ASSUME NEW t \in Live, run[t].id = id, run'[t].step = "save",
                      Lifecycle(run[t], id) = "CURRENT"
               PROVE  pages'[run'[t].page].shown.version >= run[t].rows[id].content.version
    BY <1>1, <1>2, <1>3
  <2>1. CASE t # s
    <3>1. run'[t] = run[t] /\ run[t].page \in PagesOf(id)
      BY <1>2, <2>1 DEF SyncInv, RunInv, Reads, Holds
    <3>2. pages[run[t].page].shown.version >= run[t].rows[id].content.version
      BY <3>1 DEF Alone
    <3>3. run[s].id # id
      BY <1>1, <2>1 DEF Alone, AtWork
    <3> QED
      BY <1>4, <3>1, <3>2, <3>3
  <2>2. CASE t = s
    <3>1. Apply(run[s]) /\ run'[s].page = Target(run[s])
      BY <2>2 DEF Serving
    <3>2. pages'[Target(run[s])].shown.version = run[s].rows[id].content.version
      BY <1>1, <2>2, <3>1, ServingWrites
    <3>3. run[s].rows[id].content.version \in Nat
      BY <1>1, <2>2, ListedContents DEF Running, Lifecycle, Contents
    <3> QED
      BY <2>2, <3>1, <3>2, <3>3
  <2> QED
    BY <2>1, <2>2
<1>8. (state[id].status = "CURRENT" =>
         pages[state[id].page].shown.version >= state[id].hash.version)'
  <2> SUFFICES ASSUME state[id].status = "CURRENT"
               PROVE  pages'[state[id].page].shown.version >= state[id].hash.version
    BY <1>1
  <2>0. PICK p : p = state[id].page
    OBVIOUS
  <2>1. p \in PagesOf(id) /\ pages[p].shown.version >= state[id].hash.version
    BY <2>0 DEF SyncInv, StateInv, Holds, Alone
  <2>2. CASE pages'[p].shown.version = pages[p].shown.version
    BY <2>0, <2>1, <2>2
  <2>3. CASE pages'[p].shown.version # pages[p].shown.version
    <3>1. /\ run[s].id = id /\ Lifecycle(run[s], id) = "CURRENT"
          /\ pages'[p].shown.version = run[s].rows[id].content.version
          /\ pages'[p].shown.version \in Nat
      BY <1>4, <2>1, <2>3
    <3>2. state[id] = run[s].states[id]
      BY <1>1, <3>1 DEF Alone, AtWork, Serving
    <3>3. run[s].states[id].hash.version <= run[s].rows[id].content.version
      BY <1>1, <3>1 DEF Sound, Lifecycle
    <3>4. state[id].hash.version \in Nat
      BY <1>1 DEF SyncTypes, SyncState, Contents
    <3> QED
      BY <2>0, <3>1, <3>2, <3>3, <3>4
  <2> QED
    BY <2>2, <2>3
<1> QED
  BY <1>5, <1>6, <1>7, <1>8 DEF Alone

LEMMA ServeCounts ==
  ASSUME SyncInv, NEW s \in Syncers, Serving(s)
  PROVE  CountInv'
<1> SUFFICES ASSUME NEW id \in Identity
             PROVE  Cardinality(PagesOf(id)') + Cardinality(Owing(id)')
                      <= faults' + meets'[id] + One(Known(id)')
  BY DEF CountInv
<1>1. /\ SyncTypes /\ SyncTypes' /\ Only(s) /\ meets' = meets /\ meets[id] \in Nat /\ faults \in Nat
      /\ run[s] \in Running /\ pages \in Seq(DailyPage) /\ Sound(run[s]) /\ Reads(run[s])
      /\ state' = state
  BY ServeLeaves DEF Serving, SyncTypes
<1>2. Cardinality(PagesOf(id)) + Cardinality(Owing(id)) <= faults + meets[id] + One(Known(id))
  BY DEF SyncInv, CountInv
<1>3. /\ IsFiniteSet(PagesOf(id)) /\ Cardinality(PagesOf(id)) \in Nat
      /\ Cardinality(Owing(id)) \in Nat /\ Cardinality(Owing(id)') \in Nat
      /\ Cardinality(Owing(id)') + One(Owes(run[s], id))
           = Cardinality(Owing(id)) + One(Owes(run'[s], id))
  BY <1>1, CountsAreNumbers, OwingMoves
<1>4. \A t \in Syncers : t # s =>
        (Owes(run[t], id) \/ (run[t].step = "save" /\ run[t].id = id)
           <=> Owes(run'[t], id) \/ (run'[t].step = "save" /\ run'[t].id = id))
  BY <1>1 DEF Only
<1>5. Known(id) => \/ Known(id)'
                   \/ Owes(run[s], id) \/ (run[s].step = "save" /\ run[s].id = id)
  BY <1>1, <1>4 DEF Known, Owes
<1>6. /\ run[s].step = "notion"
      /\ Owes(run'[s], id) => Known(id)'
  BY DEF Serving, Known, Owes
<1>7. /\ \/ /\ PagesOf(id)' = PagesOf(id)
            /\ Cardinality(PagesOf(id)') = Cardinality(PagesOf(id))
         \/ /\ Apply(run[s]) /\ run[s].id = id /\ Creates(run[s])
            /\ Cardinality(PagesOf(id)') = Cardinality(PagesOf(id)) + 1
  <2>1. CASE UNCHANGED pages
    BY <2>1 DEF PagesOf
  <2>2. CASE Apply(run[s])
    <3>1. /\ PagesOf(id)' = IF id = run[s].id THEN PagesOf(id) \cup {Target(run[s])} ELSE PagesOf(id)
          /\ ~ Creates(run[s]) => Target(run[s]) \in PagesOf(run[s].id)
          /\ Creates(run[s]) => Target(run[s]) \notin PagesOf(id)
      BY <1>1, <2>2, ServingWrites
    <3>2. CASE id = run[s].id /\ Creates(run[s])
      BY <1>3, <2>2, <3>1, <3>2, FS_AddElement
    <3>3. CASE ~ (id = run[s].id /\ Creates(run[s]))
      <4>1. PagesOf(id)' = PagesOf(id)
        BY <3>1, <3>3
      <4> QED
        BY <4>1
    <3> QED
      BY <3>2, <3>3
  <2> QED
    BY <2>1, <2>2 DEF Serving
<1>8. CASE run'[s].step \in {"notion", "failed"} /\ faults' = faults + 1
  <2>1. Owes(run'[s], id) <=> Owes(run[s], id)
    BY <1>6, <1>8 DEF Owes, Serving
  <2>2. Known(id) => Known(id)'
    BY <1>5, <1>6, <2>1
  <2>3. /\ Cardinality(Owing(id)') = Cardinality(Owing(id))
        /\ One(Known(id)) <= One(Known(id)') /\ One(Known(id)) \in Nat /\ One(Known(id)') \in Nat
    BY <1>3, <2>1, <2>2 DEF One
  <2>4. Cardinality(PagesOf(id)') <= Cardinality(PagesOf(id)) + 1 /\ Cardinality(PagesOf(id)') \in Nat
    BY <1>3, <1>7
  <2> QED
    BY <1>1, <1>2, <1>3, <1>8, <2>3, <2>4
<1>9. CASE /\ Apply(run[s]) /\ run'[s].step = "save" /\ faults' = faults
  <2>1. CASE run[s].id # id
    <3>1. Owes(run'[s], id) <=> Owes(run[s], id)
      BY <2>1 DEF Owes, Serving
    <3>2. Known(id) => Known(id)'
      BY <1>5, <1>6, <3>1
    <3> QED
      BY <1>1, <1>2, <1>3, <1>7, <1>9, <2>1, <3>1, <3>2 DEF One
  <2>2. CASE run[s].id = id
    <3>1. /\ ~ Owes(run'[s], id) /\ Known(id)'
          /\ Owes(run[s], id) <=> Creates(run[s])
      BY <1>1, <1>6, <1>9, <2>2 DEF Owes, Known, Creates, Sound, Serving
    <3>2. Creates(run[s]) => Known(id)
      BY <3>1 DEF Known
    <3> QED
      BY <1>1, <1>2, <1>3, <1>7, <1>9, <3>1, <3>2 DEF One
  <2> QED
    BY <2>1, <2>2
<1> QED
  BY <1>8, <1>9 DEF Serving

LEMMA ServeKeeps ==
  ASSUME SyncInv, NEW s \in Syncers, Answered(s) \/ Retried(s) \/ Refused(s)
  PROVE  SyncInv'
<1>1. Serving(s) /\ meets' = meets
  BY RequestsServe DEF Serving
<1>2. SyncTypes' /\ RunInv' /\ StateInv' /\ CountInv'
  BY <1>1, ServeLeaves, ServeKeepsRuns, ServeCounts
<1>3. AloneInv'
  BY <1>1, ServeKeepsAlone DEF SyncInv, AloneInv
<1> QED
  BY <1>2, <1>3 DEF SyncInv

-----------------------------------------------------------------------------
(* A save.                                                                 *)

\* What a save leaves of the states: the page the run has changed, or the one it read.
Saves(r) ==
  \/ r.step = "failed" /\ state' = [state EXCEPT ![r.id] = FailedState(r)]
  \/ r.step = "save" /\ state' = [state EXCEPT ![r.id] = SuccessfulState(r)]

\* The save is made, or it costs a fault; then the run goes on, fails or ends.
Saving(s) ==
  /\ run[s] \in Running /\ Sound(run[s]) /\ Reads(run[s])
  /\ Only(s) /\ run' \in [Syncers -> Running \cup {Idle}]
  /\ UNCHANGED <<day, candidate, revision, pages, meets>>
  /\ \/ run'[s] \in Continue(run[s]) /\ Saves(run[s]) /\ faults' = faults
     \/ /\ run'[s] = Idle \/ (run[s].step = "save" /\ run'[s] = [run[s] EXCEPT !.step = "failed"])
        /\ Saves(run[s]) \/ UNCHANGED state
        /\ faults' = faults + 1

LEMMA SavesAreTyped ==
  ASSUME SyncTypes, NEW r \in Running, Saves(r)
  PROVE  /\ state' \in [Identity -> SyncState]
         /\ \A id \in Identity \ {r.id} : state'[id] = state[id]
         /\ r.id \in Identity
         /\ r.step = "save" =>
              /\ state'[r.id] = SuccessfulState(r)
              /\ Lifecycle(r, r.id) = "CURRENT" =>
                   r.rows[r.id].content \in Contents /\ r.id \in DOMAIN r.rows
         /\ r.step = "failed" =>
              /\ state'[r.id].page = r.states[r.id].page /\ state'[r.id].hash = r.states[r.id].hash
              /\ state'[r.id].status = "FAILED"
<1>1. /\ r.states[r.id] \in SyncState /\ r.page \in Nat /\ r.rows \in Listed /\ r.id \in Identity
      /\ state \in [Identity -> SyncState]
  BY DEF Running, SyncTypes
<1>2. Lifecycle(r, r.id) = "CURRENT" => r.rows[r.id].content \in Contents /\ r.id \in DOMAIN r.rows
  BY <1>1, ListedContents DEF Lifecycle
<1>3. Lifecycle(r, r.id) \in {"CURRENT", "DROPPED", "EXPIRED"}
  BY DEF Lifecycle
<1>4. SuccessfulState(r) \in SyncState /\ FailedState(r) \in SyncState
  BY <1>1, <1>2, <1>3 DEF SuccessfulState, FailedState, SyncState
<1>5. /\ FailedState(r).page = r.states[r.id].page /\ FailedState(r).hash = r.states[r.id].hash
      /\ FailedState(r).status = "FAILED"
  BY <1>1 DEF FailedState, SyncState
<1> QED
  BY <1>1, <1>2, <1>4, <1>5 DEF Saves

LEMMA SavesSave ==
  ASSUME SyncInv, NEW s \in Syncers, Save(s) \/ SaveFailure(s) \/ Cut(s)
  PROVE  Saving(s)
<1>0. SyncTypes /\ run[s].step # "idle" /\ s \in Live
  BY DEF SyncInv, Save, SaveFailure, Cut, Live
<1>1. run[s] \in Running /\ Sound(run[s]) /\ Reads(run[s])
  BY <1>0, LiveIsRunning DEF SyncInv, RunInv
<1>2. run[s] \in Reading
  BY <1>1 DEF Running, Reading
<1>3. ASSUME NEW q \in Running \cup {Idle}, run' = [run EXCEPT ![s] = q]
      PROVE  run'[s] = q /\ Only(s) /\ run' \in [Syncers -> Running \cup {Idle}]
  BY <1>0, <1>3 DEF SyncTypes, Only
<1>4. ASSUME GoesOn(s)
      PROVE  run'[s] \in Continue(run[s]) /\ Only(s) /\ run' \in [Syncers -> Running \cup {Idle}]
  <2>1. PICK next \in Continue(run[s]) : run' = [run EXCEPT ![s] = next]
    BY <1>4 DEF GoesOn
  <2>2. next \in Running \cup {Idle}
    BY <1>2, Continuing
  <2> QED
    BY <1>3, <2>1, <2>2
<1>5. ASSUME run' = [run EXCEPT ![s].step = "failed"]
      PROVE  /\ run'[s] = [run[s] EXCEPT !.step = "failed"]
             /\ Only(s) /\ run' \in [Syncers -> Running \cup {Idle}]
  <2>1. PICK q : q = [run[s] EXCEPT !.step = "failed"]
    OBVIOUS
  <2>2. q \in Running /\ run' = [run EXCEPT ![s] = q]
    BY <1>0, <1>1, <1>5, <2>1 DEF Running, SyncTypes
  <2> QED
    BY <1>3, <2>1, <2>2
<1>6. CASE Save(s)
  BY <1>1, <1>4, <1>5, <1>6 DEF Save, Saving, Saves, Fault
<1>7. CASE SaveFailure(s)
  BY <1>1, <1>4, <1>7 DEF SaveFailure, Saving, Saves
<1>8. CASE Cut(s)
  BY <1>1, <1>3, <1>8 DEF Cut, Saving, Saves, Fault
<1> QED
  BY <1>6, <1>7, <1>8

\* What is left of the run afterwards.
LEMMA SaveLeaves ==
  ASSUME SyncInv, NEW s \in Syncers, Saving(s)
  PROVE  /\ SyncTypes /\ SyncTypes' /\ s \in Live /\ Live' \subseteq Live
         /\ \A id \in Identity \ {run[s].id} : state'[id] = state[id]
         /\ \/ run'[s] = Idle
            \/ /\ run'[s] \in Running /\ Sound(run'[s]) /\ run'[s].step \in {"notion", "failed"}
               /\ run'[s].rows = run[s].rows /\ run'[s].states = run[s].states
               /\ AtWork(s)' \subseteq AtWork(s)
               /\ run[s].id \in AtWork(s)' => run'[s].id = run[s].id /\ run'[s].step = "failed"
         /\ \A id \in Identity \ {run[s].id} :
              /\ Owes(run'[s], id) => Owes(run[s], id)
              /\ faults' = faults => (Owes(run'[s], id) <=> Owes(run[s], id))
<1>1. SyncTypes /\ s \in Live /\ run[s] \in Running /\ run[s] \in Reading
  BY DEF SyncInv, Saving, Live, Running, Reading
<1>2. SyncTypes'
  <2>1. state' \in [Identity -> SyncState]
    BY <1>1, SavesAreTyped DEF Saving, SyncTypes
  <2>2. faults' \in Nat
    BY <1>1 DEF Saving, SyncTypes
  <2> QED
    BY <1>1, <2>1, <2>2 DEF Saving, SyncTypes
<1>3. Live' \subseteq Live
  <2>1. \A t \in Syncers : t # s => run'[t] = run[t]
    BY DEF Saving, Only
  <2> QED
    BY <1>1, <2>1 DEF Live
<1>4. \A id \in Identity \ {run[s].id} : state'[id] = state[id]
  BY <1>1, SavesAreTyped DEF Saving
<1> SUFFICES /\ \/ run'[s] = Idle
                \/ /\ run'[s] \in Running /\ Sound(run'[s]) /\ run'[s].step \in {"notion", "failed"}
                   /\ run'[s].rows = run[s].rows /\ run'[s].states = run[s].states
                   /\ AtWork(s)' \subseteq AtWork(s)
                   /\ run[s].id \in AtWork(s)' =>
                        run'[s].id = run[s].id /\ run'[s].step = "failed"
             /\ \A id \in Identity \ {run[s].id} :
                  /\ Owes(run'[s], id) => Owes(run[s], id)
                  /\ faults' = faults => (Owes(run'[s], id) <=> Owes(run[s], id))
  BY <1>1, <1>2, <1>3, <1>4
<1>5. PICK r, q : r = run[s] /\ q = run'[s]
  OBVIOUS
<1>6. CASE q \in Continue(r)
  <2>1. CASE q = Idle
    <3>1. r.todo = {}
      BY <1>1, <1>5, <1>6, <2>1, Continuing, IdleIsNoRun
    <3>2. \A id \in Identity \ {r.id} : ~ Owes(r, id) /\ ~ Owes(q, id)
      BY <2>1, <3>1, IdleIsNoRun DEF Owes
    <3> QED
      BY <1>5, <2>1, <3>2
  <2>2. CASE q # Idle
    <3>1. /\ q \in Running /\ q.step = "notion" /\ q.id \in r.todo /\ q.todo = r.todo \ {q.id}
          /\ q.rows = r.rows /\ q.states = r.states
      BY <1>1, <1>5, <1>6, <2>2, Continuing
    <3>2. Sound(q) /\ r.id \notin r.todo
      BY <1>1, <1>5, <1>6, <2>2, GoingOnIsSound DEF Saving, Sound
    <3>3. AtWork(s)' = r.todo /\ AtWork(s) = r.todo \cup {r.id}
      BY <1>5, <3>1 DEF AtWork
    <3>4. \A id \in Identity \ {r.id} : Owes(q, id) <=> Owes(r, id)
      BY <3>1 DEF Owes
    <3> QED
      BY <1>5, <3>1, <3>2, <3>3, <3>4
  <2> QED
    BY <2>1, <2>2
<1>7. CASE q = Idle /\ faults' = faults + 1
  BY <1>1, <1>5, <1>7, IdleIsNoRun DEF SyncTypes
<1>8. CASE r.step = "save" /\ q = [r EXCEPT !.step = "failed"] /\ faults' = faults + 1
  <2>1. /\ q \in Running /\ q.step = "failed" /\ q.id = r.id /\ q.todo = r.todo
        /\ q.rows = r.rows /\ q.states = r.states /\ q.day = r.day
    BY <1>1, <1>5, <1>8 DEF Running
  <2>2. \A id : Lifecycle(q, id) = Lifecycle(r, id)
    BY <2>1, LifecycleStays
  <2>3. Sound(q)
    BY <1>5, <2>1, <2>2 DEF Sound, Saving
  <2>4. AtWork(s)' = AtWork(s)
    BY <1>5, <2>1 DEF AtWork
  <2>5. \A id \in Identity \ {r.id} : Owes(q, id) <=> Owes(r, id)
    BY <2>1 DEF Owes
  <2> QED
    BY <1>5, <2>1, <2>3, <2>4, <2>5
<1> QED
  BY <1>5, <1>6, <1>7, <1>8 DEF Saving

LEMMA SaveKeepsRuns ==
  ASSUME SyncInv, NEW s \in Syncers, Saving(s)
  PROVE  RunInv' /\ StateInv'
<1>1. /\ SyncTypes /\ s \in Live /\ Live' \subseteq Live /\ UNCHANGED <<candidate, pages>>
      /\ run[s] \in Running /\ Sound(run[s]) /\ Reads(run[s]) /\ run[s].id \in Identity
  BY SaveLeaves DEF Saving, Running
<1>2. RunInv'
  <2> SUFFICES ASSUME NEW t \in Live' PROVE Sound(run'[t]) /\ Reads(run[t])'
    BY DEF RunInv, Sound, Lifecycle
  <2>1. CASE t # s
    <3>1. run'[t] = run[t] /\ Sound(run[t]) /\ Reads(run[t])
      BY <1>1, <2>1 DEF Saving, Only, SyncInv, RunInv, Live
    <3> QED
      BY <1>1, <3>1 DEF Reads, Holds, PagesOf
  <2>2. CASE t = s
    <3>1. run'[s] # Idle
      BY <2>2, IdleIsNoRun DEF Live
    <3>2. /\ Sound(run'[s]) /\ run'[s].step # "save"
          /\ run'[s].rows = run[s].rows /\ run'[s].states = run[s].states
      BY <3>1, SaveLeaves
    <3> QED
      BY <1>1, <2>2, <3>2 DEF Reads, Holds, PagesOf
  <2> QED
    BY <2>1, <2>2
<1>3. ASSUME NEW id \in Identity, state'[id] = state[id]
      PROVE  /\ Holds(id, state[id].page)' /\ state'[id].hash.version <= candidate'[id].version
             /\ state'[id].status = "CURRENT" => state'[id].page # 0
  BY <1>1, <1>3 DEF SyncInv, StateInv, Holds, PagesOf
<1>4. ASSUME NEW id \in Identity, id = run[s].id, Saves(run[s])
      PROVE  /\ Holds(id, state[id].page)' /\ state'[id].hash.version <= candidate'[id].version
             /\ state'[id].status = "CURRENT" => state'[id].page # 0
  <2> DEFINE r == run[s]
  <2>1. CASE r.step = "save"
    <3>1. /\ state'[id] = SuccessfulState(r)
          /\ Lifecycle(r, id) = "CURRENT" => id \in DOMAIN r.rows
      BY <1>1, <1>4, <2>1, SavesAreTyped
    <3>2. /\ r.page # 0 /\ r.page \in PagesOf(id) /\ r.states[id].hash.version <= candidate[id].version
          /\ Lifecycle(r, id) = "CURRENT" => r.rows[id].content.version <= candidate[id].version
      BY <1>1, <1>4, <2>1, <3>1 DEF Reads, Holds
    <3>3. /\ state'[id].page = r.page
          /\ state'[id].hash = IF Lifecycle(r, id) = "CURRENT" THEN r.rows[id].content
                               ELSE r.states[id].hash
      BY <1>4, <3>1 DEF SuccessfulState
    <3> QED
      BY <1>1, <3>2, <3>3 DEF Holds, PagesOf
  <2>2. CASE r.step = "failed"
    <3>1. /\ state'[id].page = r.states[id].page /\ state'[id].hash = r.states[id].hash
          /\ state'[id].status = "FAILED"
      BY <1>1, <1>4, <2>2, SavesAreTyped
    <3> QED
      BY <1>1, <1>4, <3>1 DEF Reads, Holds, PagesOf
  <2> QED
    BY <1>4, <2>1, <2>2 DEF Saves
<1>5. StateInv'
  <2> SUFFICES ASSUME NEW id \in Identity
               PROVE  /\ Holds(id, state[id].page)'
                      /\ state'[id].hash.version <= candidate'[id].version
                      /\ state'[id].status = "CURRENT" => state'[id].page # 0
    BY DEF StateInv
  <2>1. state'[id] = state[id] \/ (id = run[s].id /\ Saves(run[s]))
    BY SaveLeaves DEF Saving
  <2> QED
    BY <1>3, <1>4, <2>1
<1> QED
  BY <1>2, <1>5

LEMMA SaveKeepsAlone ==
  ASSUME SyncInv, NEW s \in Syncers, Saving(s), NEW id \in Identity, Alone(id)
  PROVE  Alone(id)'
<1>1. /\ SyncTypes /\ SyncTypes' /\ s \in Live /\ Live' \subseteq Live /\ UNCHANGED <<candidate, pages>>
      /\ run[s] \in Running /\ Sound(run[s]) /\ Reads(run[s]) /\ Live \subseteq Syncers
      /\ id # run[s].id => state'[id] = state[id]
      /\ s \in Live' => run'[s] # Idle
  BY SaveLeaves, IdleIsNoRun DEF Saving, Live
<1>2. \A t \in Live' : t # s => run'[t] = run[t] /\ AtWork(t)' = AtWork(t)
  BY <1>1 DEF Saving, Only, AtWork
<1>3. s \in Live' => /\ AtWork(s)' \subseteq AtWork(s) /\ run'[s].states = run[s].states
                     /\ run'[s].step \in {"notion", "failed"}
                     /\ run[s].id \in AtWork(s)' =>
                          run'[s].id = run[s].id /\ run'[s].step = "failed"
                     /\ run'[s].id \in AtWork(s)'
  <2>1. run'[s].id \in AtWork(s)'
    BY DEF AtWork
  <2> QED
    BY <1>1, <2>1, SaveLeaves
<1>4. (\A t, u \in Live : id \in AtWork(t) /\ id \in AtWork(u) => t = u)'
  <2>1. \A t \in Live' : id \in AtWork(t)' => id \in AtWork(t)
    BY <1>2, <1>3
  <2> QED
    BY <1>1, <2>1 DEF Alone
<1>5. (\A t \in Live : id \in AtWork(t) /\ (run[t].id # id \/ run[t].step = "notion") =>
                         state[id] = run[t].states[id])'
  <2> SUFFICES ASSUME NEW t \in Live', id \in AtWork(t)', run'[t].id # id \/ run'[t].step = "notion"
               PROVE  state'[id] = run'[t].states[id]
    OBVIOUS
  <2>1. CASE t # s
    <3>1. run'[t] = run[t] /\ id \in AtWork(t) /\ t \in Live
      BY <1>1, <1>2, <2>1
    <3>2. run[s].id # id
      BY <1>1, <2>1, <3>1 DEF Alone, AtWork
    <3> QED
      BY <1>1, <3>1, <3>2 DEF Alone
  <2>2. CASE t = s
    <3>1. id # run[s].id /\ id \in AtWork(s)
      BY <1>3, <2>2
    <3> QED
      BY <1>1, <1>3, <2>2, <3>1 DEF Alone
  <2> QED
    BY <2>1, <2>2
<1>6. (\A t \in Live : run[t].id = id /\ run[t].step = "save" /\ Lifecycle(run[t], id) = "CURRENT" =>
         pages[run[t].page].shown.version >= run[t].rows[id].content.version)'
  BY <1>1, <1>2, <1>3 DEF Alone, Lifecycle
<1>7. (state[id].status = "CURRENT" =>
         pages[state[id].page].shown.version >= state[id].hash.version)'
  <2>1. CASE state'[id] = state[id]
    BY <1>1, <2>1 DEF Alone
  <2>2. CASE id = run[s].id /\ Saves(run[s])
    <3>1. CASE run[s].step = "failed"
      BY <1>1, <2>2, <3>1, SavesAreTyped
    <3>2. CASE run[s].step = "save"
      <4>1. state'[id] = SuccessfulState(run[s])
        BY <1>1, <2>2, <3>2, SavesAreTyped
      <4>2. state'[id].status = "CURRENT" =>
              /\ Lifecycle(run[s], id) = "CURRENT"
              /\ state'[id].page = run[s].page /\ state'[id].hash = run[s].rows[id].content
        BY <2>2, <4>1 DEF SuccessfulState
      <4> QED
        BY <1>1, <2>2, <3>2, <4>2 DEF Alone
    <3> QED
      BY <2>2, <3>1, <3>2 DEF Saves
  <2> QED
    BY <1>1, <2>1, <2>2 DEF Saving
<1> QED
  BY <1>4, <1>5, <1>6, <1>7 DEF Alone

LEMMA SaveCounts ==
  ASSUME SyncInv, NEW s \in Syncers, Saving(s)
  PROVE  CountInv'
<1> SUFFICES ASSUME NEW id \in Identity
             PROVE  Cardinality(PagesOf(id)') + Cardinality(Owing(id)')
                      <= faults' + meets'[id] + One(Known(id)')
  BY DEF CountInv
<1>1. /\ SyncTypes /\ SyncTypes' /\ Only(s) /\ meets' = meets /\ meets[id] \in Nat /\ faults \in Nat
      /\ run[s] \in Running /\ Sound(run[s]) /\ Reads(run[s]) /\ UNCHANGED pages
      /\ id # run[s].id => state'[id] = state[id]
      /\ faults' \in {faults, faults + 1}
  BY SaveLeaves DEF Saving, SyncTypes
<1>2. Cardinality(PagesOf(id)) + Cardinality(Owing(id)) <= faults + meets[id] + One(Known(id))
  BY DEF SyncInv, CountInv
<1>3. /\ Cardinality(PagesOf(id)) \in Nat /\ PagesOf(id)' = PagesOf(id)
      /\ Cardinality(Owing(id)) \in Nat /\ Cardinality(Owing(id)') \in Nat
      /\ Cardinality(Owing(id)') + One(Owes(run[s], id))
           = Cardinality(Owing(id)) + One(Owes(run'[s], id))
  BY <1>1, CountsAreNumbers, OwingMoves DEF PagesOf
<1>4. \A t \in Syncers : t # s =>
        (Owes(run[t], id) \/ (run[t].step = "save" /\ run[t].id = id)
           <=> Owes(run'[t], id) \/ (run'[t].step = "save" /\ run'[t].id = id))
  BY <1>1 DEF Only
<1>5. Known(id) => \/ Known(id)' \/ state'[id] # state[id]
                   \/ Owes(run[s], id) \/ (run[s].step = "save" /\ run[s].id = id)
  BY <1>1, <1>4 DEF Known, Owes
<1>6. /\ Owes(run'[s], id) => Known(id)'
      /\ state'[id].page # 0 => Known(id)'
  BY DEF Known, Owes
<1>7. CASE id # run[s].id
  <2>1. /\ Owes(run'[s], id) => Owes(run[s], id)
        /\ faults' = faults => (Owes(run'[s], id) <=> Owes(run[s], id))
    BY <1>7, SaveLeaves
  <2>2. faults' = faults /\ Known(id) => Known(id)'
    BY <1>1, <1>5, <1>6, <1>7, <2>1
  <2>3. /\ Cardinality(Owing(id)') <= Cardinality(Owing(id))
        /\ faults' = faults =>
             Cardinality(Owing(id)') = Cardinality(Owing(id)) /\ One(Known(id)) <= One(Known(id)')
        /\ One(Known(id)) \in 0..1 /\ One(Known(id)') \in 0..1
    BY <1>3, <2>1, <2>2 DEF One
  <2> QED
    BY <1>1, <1>2, <1>3, <2>3
<1>8. CASE id = run[s].id
  \* The run has been at the identity; it owes it a page if it has failed to save one.
  <2>1. ASSUME Saves(run[s]), run[s].step = "save"
        PROVE  Known(id)' /\ ~ Owes(run[s], id)
    <3>1. state'[id].page = run[s].page /\ run[s].page # 0
      <4>1. state'[id] = SuccessfulState(run[s])
        BY <1>1, <1>8, <2>1, SavesAreTyped
      <4> QED
        BY <1>1, <2>1, <4>1 DEF SuccessfulState, Reads
    <3>2. ~ Owes(run[s], id)
      BY <1>1, <1>8, <2>1 DEF Owes, Sound
    <3> QED
      BY <1>6, <3>1, <3>2
  <2>2. ASSUME Saves(run[s]), run[s].step = "failed"
        PROVE  Known(id)' \/ Owes(run[s], id)
    <3>1. state'[id].page = run[s].states[id].page
      BY <1>1, <1>8, <2>2, SavesAreTyped
    <3> QED
      BY <1>6, <1>8, <2>2, <3>1 DEF Owes
  <2>3. CASE run'[s] \in Continue(run[s]) /\ Saves(run[s]) /\ faults' = faults
    <3>1. ~ Owes(run'[s], id)
      <4>1. run[s] \in Reading /\ run[s].id \notin run[s].todo
        BY <1>1 DEF Running, Reading, Sound
      <4>2. run'[s] = Idle \/ /\ run'[s].id \in run[s].todo
                              /\ run'[s].todo = run[s].todo \ {run'[s].id}
        BY <2>3, <4>1, Continuing
      <4> QED
        BY <1>8, <4>1, <4>2, IdleIsNoRun DEF Owes
    <3>2. Known(id)' \/ Owes(run[s], id)
      BY <2>1, <2>2, <2>3 DEF Saves
    <3> QED
      BY <1>1, <1>2, <1>3, <2>3, <3>1, <3>2 DEF One
  <2>4. CASE run'[s] = Idle /\ faults' = faults + 1
    <3>1. ~ Owes(run'[s], id)
      BY <2>4, IdleIsNoRun
    <3> QED
      BY <1>1, <1>2, <1>3, <2>4, <3>1 DEF One
  <2>5. CASE /\ run[s].step = "save" /\ run'[s] = [run[s] EXCEPT !.step = "failed"]
             /\ faults' = faults + 1
    <3>1. ~ Owes(run[s], id)
      BY <1>1, <1>8, <2>5 DEF Owes, Sound
    <3> QED
      BY <1>1, <1>2, <1>3, <1>6, <2>5, <3>1 DEF One
  <2> QED
    BY <2>3, <2>4, <2>5 DEF Saving
<1> QED
  BY <1>7, <1>8

LEMMA SaveKeeps ==
  ASSUME SyncInv, NEW s \in Syncers, Save(s) \/ SaveFailure(s) \/ Cut(s)
  PROVE  SyncInv'
<1>1. Saving(s) /\ meets' = meets
  BY SavesSave DEF Saving
<1>2. SyncTypes' /\ RunInv' /\ StateInv' /\ CountInv'
  BY <1>1, SaveLeaves, SaveKeepsRuns, SaveCounts
<1>3. AloneInv'
  BY <1>1, SaveKeepsAlone DEF SyncInv, AloneInv
<1> QED
  BY <1>2, <1>3 DEF SyncInv

-----------------------------------------------------------------------------
(* Every step of the sync.                                                 *)

LEMMA SyncStep ==
  ASSUME SyncInv, SyncNext
  PROVE  SyncInv'
<1>0. SyncTypes /\ day \in Nat /\ faults \in Nat
  BY DEF SyncInv, SyncTypes
<1>1. CASE NextDay
  <2>1. Quiet
    BY <1>0, <1>1 DEF NextDay, Quiet, SyncTypes, PagesOf
  <2> QED
    BY <2>1, QuietKeeps
<1>2. ASSUME NEW id \in Identity, NEW curated \in BOOLEAN, Calculate(id, curated)
      PROVE  SyncInv'
  <2>1. candidate' \in [Identity -> [version : Nat, curated : BOOLEAN]]
    BY <1>0, <1>2 DEF Calculate, SyncTypes
  <2>2. Quiet
    BY <1>0, <1>2, <2>1 DEF Calculate, Quiet, SyncTypes, PagesOf
  <2> QED
    BY <2>2, QuietKeeps
<1>3. ASSUME NEW s \in Syncers, StartOnTime(s) \/ StartLate(s)
      PROVE  SyncInv'
  <2>1. PICK asOf \in Nat : Start(s, asOf)
    BY <1>0, <1>3 DEF StartOnTime, StartLate
  <2>2. faults' >= faults /\ faults' \in Nat
    BY <1>0, <1>3 DEF StartOnTime, StartLate
  <2>3. meets' \in [Identity -> Nat]
    <3>1. PICK todo : meets' = [id \in Identity |->
                          IF id \in todo /\ \E other \in Live : id \in AtWork(other)
                          THEN meets[id] + 1 ELSE meets[id]]
      BY <2>1 DEF Start
    <3> QED
      BY <1>0, <3>1 DEF SyncTypes
  <2>4. /\ run' \in [Syncers -> Running \cup {Idle}]
        /\ UNCHANGED <<day, candidate, revision, state, pages>>
    BY <2>1, Beginning
  <2>5. SyncTypes'
    BY <1>0, <2>2, <2>3, <2>4 DEF SyncTypes
  <2> QED
    BY <2>1, <2>2, <2>5, StartKeeps
<1>4. ASSUME NEW s \in Syncers, RunStep(s)
      PROVE  SyncInv'
  BY <1>4, ServeKeeps, SaveKeeps DEF RunStep
<1> QED
  BY <1>1, <1>2, <1>3, <1>4 DEF SyncNext, Rank

-----------------------------------------------------------------------------
(* The projection of briefs.                                               *)

LEMMA BriefsAreTyped ==
  ASSUME NEW b \in Brief
  PROVE  Candidate(b) \in Identity /\ Version(b) \in Nat /\ Version(b) <= MaxRevision
  BY NotionAssumption DEF Brief, Candidate, Version

LEMMA LeastNatural ==
  ASSUME NEW T \in SUBSET Nat, T # {}
  PROVE  \E x \in T : \A y \in T : x <= y
<1> DEFINE less == OpToRel(<, Nat)
<1>1. \A x, y \in T : y < x => <<y, x>> \in less
  BY DEF OpToRel
<1>2. IsWellFoundedOn(less, Nat)
  BY NatLessThanWellFounded
<1> HIDE DEF less
<1>3. \E x \in T : \A y \in T : ~ (<<y, x>> \in less)
  BY <1>2, WFMin, Zenon
<1>4. PICK x \in T : \A y \in T : ~ (y < x)
  BY <1>1, <1>3
<1> QED
  BY <1>4

\* The page a claim finds is of the claimed brief's candidate.
LEMMA ExistingIsRecorded ==
  ASSUME NEW id \in Identity, Existing(id) # 0
  PROVE  \E b \in Brief : Candidate(b) = id /\ pipeline[b] = Existing(id)
<1> DEFINE rows == {b \in Brief : Candidate(b) = id /\ pipeline[b] # 0}
           latest(b) == \A other \in rows : Version(other) <= Version(b)
           T == {MaxRevision - Version(b) : b \in rows}
<1>1. rows # {}
  BY DEF Existing
<1>2. \A b \in rows : Version(b) \in Nat /\ MaxRevision - Version(b) \in Nat
  BY BriefsAreTyped, NotionAssumption
<1>3. \E x \in T : \A y \in T : x <= y
  <2>1. T \in SUBSET Nat /\ T # {}
    BY <1>1, <1>2
  <2> HIDE DEF T
  <2> QED
    BY <2>1, LeastNatural
<1>4. \E b \in rows : latest(b)
  <2>1. PICK b \in rows : \A other \in rows : MaxRevision - Version(b) <= MaxRevision - Version(other)
    BY <1>3
  <2>2. \A other \in rows : Version(other) <= Version(b)
    BY <1>2, <2>1, NotionAssumption
  <2> QED
    BY <2>2
<1>5. Existing(id) = pipeline[CHOOSE b \in rows : latest(b)]
  BY <1>1 DEF Existing
<1>6. (CHOOSE b \in rows : latest(b)) \in rows
  <2> HIDE DEF rows, latest
  <2> QED
    BY <1>4
<1> QED
  BY <1>5, <1>6

\* What a call does with the production pages, as far as the others can tell.
Grows ==
  /\ production' \in Seq(ProductionPage) /\ Len(production') >= Len(production)
  /\ \A i \in 1..Len(production) :
       /\ production'[i].id = production[i].id
       /\ production[i].body \subseteq production'[i].body

LEMMA NothingGrows ==
  ASSUME ProjectionInv, UNCHANGED production
  PROVE  Grows
  BY DEF ProjectionInv, Grows

LEMMA CreatingGrows ==
  ASSUME ProjectionInv, NEW b \in Brief, Created(b)
  PROVE  /\ Grows /\ Len(production) + 1 \in Nat /\ Len(production') = Len(production) + 1
         /\ production'[Len(production) + 1].id = Candidate(b)
         /\ Version(b) \in production'[Len(production) + 1].body
<1> DEFINE new == [id |-> Candidate(b), shown |-> Version(b), body |-> {Version(b)}]
<1>1. new \in ProductionPage /\ new.id = Candidate(b) /\ Version(b) \in new.body
  BY BriefsAreTyped DEF ProductionPage
<1>2. production' = Append(production, new) /\ production \in Seq(ProductionPage)
  BY DEF Created, ProjectionInv
<1> HIDE DEF new
<1>3. /\ production' \in Seq(ProductionPage) /\ Len(production') = Len(production) + 1
      /\ \A i \in 1..Len(production) : production'[i] = production[i]
      /\ production'[Len(production) + 1] = new
  BY <1>1, <1>2, Appending
<1>4. Len(production) \in Nat
  BY <1>2
<1> QED
  BY <1>1, <1>3, <1>4 DEF Grows

LEMMA WritingGrows ==
  ASSUME ProjectionInv, NEW b \in Brief, On(b, worker[b].page), Updated(b) \/ Appended(b)
  PROVE  Grows /\ (Appended(b) => Version(b) \in production'[worker[b].page].body)
<1> DEFINE p == worker[b].page
           old == production[p]
<1>0. /\ production \in Seq(ProductionPage) /\ p \in 1..Len(production) /\ old \in ProductionPage
      /\ Len(production) \in Nat
  BY DEF ProjectionInv, On
<1>1. ASSUME NEW new \in ProductionPage, production' = [production EXCEPT ![p] = new],
             new.id = old.id, old.body \subseteq new.body
      PROVE  Grows /\ production'[p] = new
  <2>1. /\ production' \in Seq(ProductionPage) /\ Len(production') = Len(production)
        /\ \A i \in 1..Len(production) : production'[i] = IF i = p THEN new ELSE production[i]
    BY <1>0, <1>1, Rewriting
  <2> QED
    BY <1>0, <1>1, <2>1 DEF Grows
<1>2. CASE Updated(b)
  <2> DEFINE new == [old EXCEPT !.shown = Version(b)]
  <2>1. new \in ProductionPage /\ new.id = old.id /\ old.body \subseteq new.body
    BY <1>0, BriefsAreTyped DEF ProductionPage
  <2>2. production' = [production EXCEPT ![p] = new]
    BY <1>0, <1>2 DEF Updated
  <2>3. Appended(b) => Version(b) \in production'[p].body
    BY <1>0 DEF Appended, ProductionPage
  <2> HIDE DEF new
  <2> QED
    BY <1>1, <2>1, <2>2, <2>3
<1>3. CASE Appended(b)
  <2> DEFINE new == [old EXCEPT !.body = @ \cup {Version(b)}]
  <2>1. new \in ProductionPage /\ new.id = old.id /\ old.body \subseteq new.body
        /\ Version(b) \in new.body
    BY <1>0, BriefsAreTyped DEF ProductionPage
  <2>2. production' = [production EXCEPT ![p] = new]
    BY <1>0, <1>3 DEF Appended
  <2> HIDE DEF new
  <2> QED
    BY <1>1, <2>1, <2>2
<1> QED
  BY <1>2, <1>3

\* A brief nobody works for stays where it is, whatever is done to its page.
LEMMA PlacedStays ==
  ASSUME ProjectionInv, Grows, NEW b \in Brief, pipeline'[b] = pipeline[b],
         worker'[b] = worker[b], job'[b] = job[b] \/ job'[b].status # "SUCCEEDED"
  PROVE  Placed(b)'
<1>1. Placed(b)
  BY DEF ProjectionInv
<1>2. \A p : On(b, p) => /\ On(b, p)'
                         /\ production[p].body \subseteq production'[p].body
  BY DEF On, Grows, ProjectionInv
<1>3. Candidate(b)' = Candidate(b) /\ Version(b)' = Version(b)
  BY DEF Candidate, Version
<1> QED
  BY <1>1, <1>2, <1>3 DEF Placed, On

\* The row of a brief is left alone, or written by its own worker if no other row names
\* the page.
RowsMove(b) ==
  \/ UNCHANGED pipeline
  \/ worker[b].step = "save" /\ Recordable(b) /\ Recorded(b)

LEMMA RowsStayUnique ==
  ASSUME ProjectionInv, NEW b \in Brief, Grows, RowsMove(b)
  PROVE  /\ pipeline' \in [Brief -> Nat] /\ Unique'
         /\ \A other \in Brief \ {b} : pipeline'[other] = pipeline[other]
         /\ pipeline'[b] # 0 => /\ pipeline'[b] \in 1..Len(production')
                                /\ production'[pipeline'[b]].id = Candidate(b)
<1>0. /\ pipeline \in [Brief -> Nat] /\ Placed(b) /\ Unique /\ worker[b] \in Worker
      /\ Len(production) \in Nat /\ Len(production') \in Nat
  BY DEF ProjectionInv, Grows
<1>1. CASE UNCHANGED pipeline
  <2>1. Unique'
    BY <1>0, <1>1 DEF Unique
  <2> QED
    BY <1>0, <1>1, <2>1 DEF Placed, On, Grows
<1>2. CASE worker[b].step = "save" /\ Recordable(b) /\ Recorded(b)
  <2>1. worker[b].page \in Nat /\ On(b, worker[b].page)
    BY <1>0, <1>2 DEF Placed, Worker
  <2>2. /\ pipeline' \in [Brief -> Nat] /\ pipeline'[b] = worker[b].page
        /\ \A other \in Brief \ {b} : pipeline'[other] = pipeline[other]
    BY <1>0, <1>2, <2>1 DEF Recorded
  <2>3. Unique'
    BY <1>0, <1>2, <2>2 DEF Unique, Recordable
  <2> QED
    BY <1>0, <2>1, <2>2, <2>3 DEF On, Grows
<1> QED
  BY <1>1, <1>2 DEF RowsMove

\* A worker's step keeps the invariant if what it leaves of its own job and row is right.
LEMMA OneActs ==
  ASSUME ProjectionInv, NEW b \in Brief, Grows, RowsMove(b),
         NEW w \in Worker, worker' = [worker EXCEPT ![b] = w],
         NEW j \in JobRow, job' = [job EXCEPT ![b] = j],
         w.step \notin {"off", "create"} =>
             w.page \in 1..Len(production') /\ production'[w.page].id = Candidate(b),
         w.step \in {"save", "daily"} => Version(b) \in production'[w.page].body,
         w.step = "daily" => pipeline'[b] = w.page,
         j.status = "SUCCEEDED" =>
             /\ w.step = "off" /\ pipeline'[b] # 0
             /\ Version(b) \in production'[pipeline'[b]].body
  PROVE  ProjectionInv'
<1>1. /\ job' \in [Brief -> JobRow] /\ worker' \in [Brief -> Worker]
      /\ worker'[b] = w /\ job'[b] = j
      /\ \A other \in Brief \ {b} : worker'[other] = worker[other] /\ job'[other] = job[other]
  BY DEF ProjectionInv
<1>2. \A other \in Brief \ {b} : Placed(other)'
  BY <1>1, PlacedStays, RowsStayUnique
<1>3. Placed(b)'
  BY <1>1, RowsStayUnique DEF Placed, On, Candidate, Version
<1> QED
  BY <1>1, <1>2, <1>3, RowsStayUnique DEF ProjectionInv, Grows

\* A job that fails or is killed claims nothing.
LEMMA FailingKeeps ==
  ASSUME ProjectionInv, NEW b \in Brief, Grows, RowsMove(b), Fail(b)
  PROVE  ProjectionInv'
<1> DEFINE j == [job[b] EXCEPT !.status = IF job[b].attempts >= MaxJobAttempts THEN "DEAD"
                                          ELSE "PENDING"]
<1>1. job[b] \in JobRow /\ job \in [Brief -> JobRow]
  BY DEF ProjectionInv
<1>2. j \in JobRow /\ j.status # "SUCCEEDED"
  BY <1>1 DEF JobRow
<1>3. job' = [job EXCEPT ![b] = j] /\ worker' = [worker EXCEPT ![b] = Off]
  BY <1>1 DEF Fail
<1>4. Off \in Worker /\ Off.step = "off"
  BY DEF Off, Worker
<1> HIDE DEF j
<1> QED
  BY <1>2, <1>3, <1>4, OneActs

LEMMA ClaimKeeps ==
  ASSUME ProjectionInv, NEW b \in Brief, Claim(b)
  PROVE  ProjectionInv'
<1>0. /\ job \in [Brief -> JobRow] /\ pipeline \in [Brief -> Nat] /\ job[b] \in JobRow
      /\ Candidate(b) \in Identity
  BY BriefsAreTyped DEF ProjectionInv
<1> DEFINE page == Existing(Candidate(b))
           w == [step |-> IF page = 0 THEN "create" ELSE "update", page |-> page]
           j == [status |-> "PROCESSING", attempts |-> job[b].attempts + 1]
<1>1. page # 0 => \E other \in Brief : Candidate(other) = Candidate(b) /\ pipeline[other] = page
  BY <1>0, ExistingIsRecorded
<1>2. page \in Nat /\ (page # 0 => On(b, page))
  BY <1>0, <1>1 DEF ProjectionInv, Placed, On
<1>3. /\ worker' = [worker EXCEPT ![b] = w] /\ job' = [job EXCEPT ![b] = j]
      /\ UNCHANGED <<production, pipeline>>
  BY <1>0 DEF Claim
<1>4. /\ w \in Worker /\ w.step \in {"create", "update"} /\ (w.step = "update" => On(b, w.page))
      /\ j \in JobRow /\ j.status = "PROCESSING"
  BY <1>0, <1>2 DEF Worker, JobRow
<1>5. Grows /\ RowsMove(b)
  BY <1>3, NothingGrows DEF RowsMove
<1>6. w.step = "update" =>
        w.page \in 1..Len(production') /\ production'[w.page].id = Candidate(b)
  BY <1>3, <1>4 DEF On
<1> HIDE DEF page, w, j
<1> QED
  BY <1>3, <1>4, <1>5, <1>6, OneActs

\* A worker that goes on, with its job as it is.
LEMMA GoingOnKeeps ==
  ASSUME ProjectionInv, NEW b \in Brief, Grows, RowsMove(b), UNCHANGED job,
         NEW w \in Worker, worker' = [worker EXCEPT ![b] = w], w.step # "off",
         worker[b].step # "off",
         w.step \notin {"off", "create"} =>
             w.page \in 1..Len(production') /\ production'[w.page].id = Candidate(b),
         w.step \in {"save", "daily"} => Version(b) \in production'[w.page].body,
         w.step = "daily" => pipeline'[b] = w.page
  PROVE  ProjectionInv'
<1>1. job[b] \in JobRow /\ job' = [job EXCEPT ![b] = job[b]] /\ job[b].status # "SUCCEEDED"
  BY DEF ProjectionInv, Placed
<1> QED
  BY <1>1, OneActs

LEMMA CreateKeeps ==
  ASSUME ProjectionInv, NEW b \in Brief, CreatePage(b)
  PROVE  ProjectionInv'
<1>0. worker[b] \in Worker /\ worker \in [Brief -> Worker] /\ worker[b].step = "create" /\ RowsMove(b)
  BY DEF ProjectionInv, CreatePage, RowsMove
<1>1. Created(b) \/ UNCHANGED production
  BY DEF CreatePage
<1>2. Grows
  BY <1>1, CreatingGrows, NothingGrows
<1>3. CASE Created(b) /\ worker' = [worker EXCEPT ![b] = [step |-> "save", page |-> Len(production) + 1]]
           /\ UNCHANGED job
  <2> DEFINE w == [step |-> "save", page |-> Len(production) + 1]
  <2>1. /\ w \in Worker /\ w.step = "save" /\ w.page \in 1..Len(production')
        /\ production'[w.page].id = Candidate(b) /\ Version(b) \in production'[w.page].body
    BY <1>3, CreatingGrows DEF Worker
  <2>2. worker' = [worker EXCEPT ![b] = w]
    BY <1>3
  <2> HIDE DEF w
  <2> QED
    BY <1>0, <1>2, <1>3, <2>1, <2>2, GoingOnKeeps
<1>4. CASE UNCHANGED <<worker, job>>
  <2>1. worker' = [worker EXCEPT ![b] = worker[b]]
    BY <1>0, <1>4
  <2> QED
    BY <1>0, <1>2, <1>4, <2>1, GoingOnKeeps
<1>5. CASE Fail(b)
  BY <1>0, <1>2, <1>5, FailingKeeps
<1> QED
  BY <1>3, <1>4, <1>5 DEF CreatePage, Lost

LEMMA WriteKeeps ==
  ASSUME ProjectionInv, NEW b \in Brief, UpdatePage(b) \/ AppendBlocks(b)
  PROVE  ProjectionInv'
<1>0. /\ worker[b] \in Worker /\ worker \in [Brief -> Worker] /\ worker[b].step \in {"update", "append"}
      /\ RowsMove(b) /\ On(b, worker[b].page)
  BY DEF ProjectionInv, UpdatePage, AppendBlocks, RowsMove, Placed
<1>1. Updated(b) \/ Appended(b) \/ UNCHANGED production
  BY DEF UpdatePage, AppendBlocks
<1>2. Grows
  BY <1>0, <1>1, WritingGrows, NothingGrows
<1>3. ASSUME NEW step \in {"append", "save"}, GoOn(b, step), UNCHANGED job,
             step = "save" => Appended(b)
      PROVE  ProjectionInv'
  <2> DEFINE w == [worker[b] EXCEPT !.step = step]
  <2>1. w \in Worker /\ w.step = step /\ w.page = worker[b].page /\ worker' = [worker EXCEPT ![b] = w]
    BY <1>0, <1>3 DEF GoOn, Worker
  <2>2. w.page \in 1..Len(production') /\ production'[w.page].id = Candidate(b)
    BY <1>0, <1>2, <2>1 DEF On, Grows, ProjectionInv
  <2>3. step = "save" => Version(b) \in production'[w.page].body
    BY <1>0, <1>3, <2>1, WritingGrows
  <2> HIDE DEF w
  <2> QED
    BY <1>0, <1>2, <1>3, <2>1, <2>2, <2>3, GoingOnKeeps
<1>4. CASE Fail(b)
  BY <1>0, <1>2, <1>4, FailingKeeps
<1> QED
  BY <1>3, <1>4 DEF UpdatePage, AppendBlocks, Lost

LEMMA SaveRowKeeps ==
  ASSUME ProjectionInv, NEW b \in Brief, SavePipelineState(b)
  PROVE  ProjectionInv'
<1>0. /\ worker[b] \in Worker /\ worker \in [Brief -> Worker] /\ worker[b].step = "save"
      /\ On(b, worker[b].page) /\ Version(b) \in production[worker[b].page].body
      /\ UNCHANGED production /\ pipeline \in [Brief -> Nat]
  BY DEF ProjectionInv, SavePipelineState, Placed
<1>1. Grows /\ RowsMove(b)
  BY <1>0, NothingGrows DEF SavePipelineState, RowsMove
<1>2. CASE Recorded(b) /\ GoOn(b, "daily") /\ UNCHANGED job
  <2> DEFINE w == [worker[b] EXCEPT !.step = "daily"]
  <2>1. w \in Worker /\ w.step = "daily" /\ w.page = worker[b].page /\ worker' = [worker EXCEPT ![b] = w]
    BY <1>0, <1>2 DEF GoOn, Worker
  <2>2. /\ w.page \in 1..Len(production') /\ production'[w.page].id = Candidate(b)
        /\ Version(b) \in production'[w.page].body /\ pipeline'[b] = w.page
    BY <1>0, <1>2, <2>1 DEF On, Recorded
  <2> HIDE DEF w
  <2> QED
    BY <1>0, <1>1, <1>2, <2>1, <2>2, GoingOnKeeps
<1>3. CASE Fail(b)
  BY <1>1, <1>3, FailingKeeps
<1> QED
  BY <1>2, <1>3 DEF SavePipelineState, Lost

LEMMA LinkKeeps ==
  ASSUME ProjectionInv, NEW b \in Brief, LinkDailyPage(b)
  PROVE  ProjectionInv'
<1>0. /\ worker[b].step = "daily" /\ job \in [Brief -> JobRow] /\ job[b] \in JobRow
      /\ Placed(b) /\ UNCHANGED <<production, pipeline>>
  BY DEF ProjectionInv, LinkDailyPage
<1>1. Grows /\ RowsMove(b)
  BY <1>0, NothingGrows DEF RowsMove
<1>2. CASE worker' = [worker EXCEPT ![b] = Off] /\ job' = [job EXCEPT ![b].status = "SUCCEEDED"]
  <2> DEFINE j == [job[b] EXCEPT !.status = "SUCCEEDED"]
  <2>1. j \in JobRow /\ job' = [job EXCEPT ![b] = j]
    BY <1>0, <1>2 DEF JobRow
  <2>2. Off \in Worker /\ Off.step = "off"
    BY DEF Off, Worker
  <2>3. /\ pipeline[b] # 0 /\ Version(b) \in production[pipeline[b]].body
    BY <1>0 DEF Placed, On, ProjectionInv
  <2> HIDE DEF j
  <2> QED
    BY <1>0, <1>1, <1>2, <2>1, <2>2, <2>3, OneActs
<1>3. CASE Fail(b)
  BY <1>1, <1>3, FailingKeeps
<1> QED
  BY <1>2, <1>3 DEF LinkDailyPage, Lost

LEMMA KillKeeps ==
  ASSUME ProjectionInv, NEW b \in Brief, Kill(b)
  PROVE  ProjectionInv'
<1> DEFINE j == [job[b] EXCEPT !.status = "PENDING"]
<1>1. /\ job \in [Brief -> JobRow] /\ job[b] \in JobRow /\ UNCHANGED <<production, pipeline>>
      /\ worker' = [worker EXCEPT ![b] = Off]
  BY DEF ProjectionInv, Kill
<1>2. j \in JobRow /\ j.status = "PENDING" /\ job' = [job EXCEPT ![b] = j]
  BY <1>1 DEF JobRow, Kill
<1>3. Off \in Worker /\ Off.step = "off"
  BY DEF Off, Worker
<1>4. Grows /\ RowsMove(b)
  BY <1>1, NothingGrows DEF RowsMove
<1> HIDE DEF j
<1> QED
  BY <1>1, <1>2, <1>3, <1>4, OneActs

LEMMA BriefKeeps ==
  ASSUME ProjectionInv, NEW id \in Identity, WriteBrief(id)
  PROVE  ProjectionInv'
<1>0. UNCHANGED <<production, pipeline, worker>> /\ job \in [Brief -> JobRow]
  BY DEF ProjectionInv, WriteBrief
<1>1. Grows /\ Unique'
  BY <1>0, NothingGrows DEF ProjectionInv, Unique
<1> DEFINE new == <<id, revision[id] + 1>>
<1>2. job' = job \/ job' = [job EXCEPT ![new].status = "PENDING"]
  BY DEF WriteBrief
<1> HIDE DEF new
<1>3. /\ job' \in [Brief -> JobRow]
      /\ \A b \in Brief : job'[b] = job[b] \/ job'[b].status # "SUCCEEDED"
  BY <1>0, <1>2 DEF JobRow
<1>4. \A b \in Brief : Placed(b)'
  BY <1>0, <1>1, <1>3, PlacedStays
<1> QED
  BY <1>0, <1>1, <1>3, <1>4 DEF ProjectionInv

-----------------------------------------------------------------------------
(* Both together.                                                          *)

\* The projection leaves the runs, the states and the calculations shown alone: of the
\* sync's pages it writes the revision and the link.
LEMMA ProjectionIsQuiet ==
  ASSUME SyncInv, \/ \E id \in Identity : WriteBrief(id)
                  \/ \E b \in Brief : Claim(b) \/ Call(b) \/ Kill(b)
  PROVE  Quiet
<1>0. SyncTypes /\ faults \in Nat
  BY DEF SyncInv, SyncTypes
<1>1. ASSUME SyncTypes', UNCHANGED <<run, state, meets, candidate, pages>>, faults' \in {faults, faults + 1}
      PROVE  Quiet
  BY <1>0, <1>1 DEF Quiet, PagesOf, SyncTypes
<1>2. ASSUME NEW id \in Identity, WriteBrief(id)
      PROVE  Quiet
  <2>1. revision' \in [Identity -> Nat] /\ faults' \in {faults, faults + 1}
    BY <1>0, <1>2 DEF WriteBrief, Fault, SyncTypes
  <2>2. SyncTypes'
    BY <1>0, <1>2, <2>1 DEF WriteBrief, SyncTypes
  <2> QED
    BY <1>1, <1>2, <2>1, <2>2 DEF WriteBrief
<1>3. ASSUME NEW b \in Brief, Claim(b) \/ Kill(b) \/ CreatePage(b) \/ UpdatePage(b) \/ AppendBlocks(b)
                              \/ SavePipelineState(b)
      PROVE  Quiet
  <2>1. /\ UNCHANGED <<day, candidate, revision, state, pages, run, meets>>
        /\ faults' \in {faults, faults + 1}
    BY <1>3 DEF Claim, Kill, CreatePage, UpdatePage, AppendBlocks, SavePipelineState, Lost, Fault,
                syncVars
  <2>2. SyncTypes'
    BY <1>0, <2>1 DEF SyncTypes
  <2> QED
    BY <1>1, <2>1, <2>2
<1>4. ASSUME NEW b \in Brief, LinkDailyPage(b)
      PROVE  Quiet
  <2> DEFINE p == state[Candidate(b)].page
             old == pages[p]
             new == [old EXCEPT !.shown = [old.shown EXCEPT !.revision = Version(b)], !.linked = TRUE]
  <2>0. UNCHANGED <<day, candidate, revision, state, run, meets>> /\ faults' \in {faults, faults + 1}
    BY <1>4 DEF LinkDailyPage, Lost, Fault
  <2>1. CASE UNCHANGED pages
    <3>1. SyncTypes'
      BY <1>0, <2>0, <2>1 DEF SyncTypes
    <3> QED
      BY <1>1, <2>0, <2>1, <3>1
  <2>2. CASE p # 0 /\ Linked(b)
    <3>1. /\ p \in 1..Len(pages) /\ old \in DailyPage /\ pages \in Seq(DailyPage)
      BY <1>0, <2>2, BriefsAreTyped DEF SyncInv, SyncTypes, StateInv, Holds, PagesOf
    <3>2. new \in DailyPage /\ new.id = old.id /\ new.shown.version = old.shown.version
      BY <3>1, BriefsAreTyped DEF DailyPage, Contents
    <3>3. pages' = [pages EXCEPT ![p] = new]
      <4>1. pages' = [pages EXCEPT ![p].shown.revision = Version(b), ![p].linked = TRUE]
        BY <2>2 DEF Linked
      <4> QED
        BY <3>1, <4>1 DEF DailyPage, Contents
    <3> HIDE DEF new
    <3>4. /\ pages' \in Seq(DailyPage) /\ Len(pages') = Len(pages)
          /\ \A i \in 1..Len(pages) : pages'[i] = IF i = p THEN new ELSE pages[i]
      BY <3>1, <3>2, <3>3, Rewriting
    <3>5. /\ \A id \in Identity : PagesOf(id)' = PagesOf(id)
          /\ \A i \in 1..Len(pages) : pages'[i].shown.version = pages[i].shown.version
      BY <3>2, <3>4 DEF PagesOf
    <3>6. SyncTypes'
      BY <1>0, <2>0, <3>4 DEF SyncTypes
    <3>7. \A id \in Identity : candidate[id].version \in Nat /\ candidate'[id] = candidate[id]
      BY <1>0, <2>0 DEF SyncTypes
    <3>8. faults' >= faults
      BY <1>0, <2>0
    <3> QED
      BY <2>0, <3>5, <3>6, <3>7, <3>8 DEF Quiet
  <2> QED
    BY <1>4, <2>1, <2>2 DEF LinkDailyPage, Lost
<1> QED
  BY <1>2, <1>3, <1>4 DEF Call

LEMMA ProjectionBegins ==
  ASSUME ProjectionInit
  PROVE  SyncInv /\ ProjectionInv
<1>1. /\ SyncTypes /\ pages = << >> /\ faults = 0 /\ meets = [id \in Identity |-> 0]
      /\ run = [s \in Syncers |-> Idle]
  BY NotionAssumption DEF ProjectionInit, SyncInit, SyncTypes, NoCandidate, NoState, NoContent, SyncState, Contents
<1>2. Live = {}
  BY <1>1, IdleIsNoRun DEF Live
<1>3. \A id \in Identity : PagesOf(id) = {} /\ state[id] = NoState /\ candidate[id] = NoCandidate
  BY <1>1 DEF ProjectionInit, SyncInit, PagesOf
<1>4. RunInv /\ StateInv /\ AloneInv
  BY <1>1, <1>2, <1>3 DEF RunInv, StateInv, AloneInv, Alone, Holds, NoState, NoContent, NoCandidate
<1>5. CountInv
  <2>1. \A id \in Identity : Cardinality(PagesOf(id)) = 0 /\ Cardinality(Owing(id)) = 0
    <3>1. \A id \in Identity : Owing(id) = {}
      BY <1>1, IdleIsNoRun DEF Owing
    <3> QED
      BY <1>3, <3>1, FS_EmptySet
  <2> QED
    BY <1>1, <2>1 DEF CountInv, One
<1>6. ProjectionInv
  <2>1. NoJob \in JobRow /\ Off \in Worker /\ Off.step = "off" /\ NoJob.status = "ABSENT"
    BY DEF NoJob, JobRow, Off, Worker
  <2> QED
    BY <2>1 DEF ProjectionInit, ProjectionInv, Placed, Unique
<1> QED
  BY <1>1, <1>4, <1>5, <1>6 DEF SyncInv

LEMMA ProjectionStep ==
  ASSUME SyncInv, ProjectionInv, [ProjectionNext]_vars
  PROVE  SyncInv' /\ ProjectionInv'
<1>1. CASE UNCHANGED vars
  <2>1. SyncInv'
    BY <1>1, QuietKeeps DEF vars, syncVars, Quiet, SyncInv, SyncTypes, PagesOf
  <2>2. ProjectionInv'
    BY <1>1 DEF vars, projectionVars, ProjectionInv, Placed, Unique, On
  <2> QED
    BY <2>1, <2>2
<1>2. CASE SyncNext /\ UNCHANGED projectionVars
  <2>1. ProjectionInv'
    BY <1>2 DEF projectionVars, ProjectionInv, Placed, Unique, On
  <2> QED
    BY <1>2, <2>1, SyncStep
<1>3. CASE \/ \E id \in Identity : WriteBrief(id)
           \/ \E b \in Brief : Claim(b) \/ Call(b) \/ Kill(b)
  <2>1. SyncInv'
    BY <1>3, ProjectionIsQuiet, QuietKeeps
  <2>2. ProjectionInv'
    BY <1>3, BriefKeeps, ClaimKeeps, CreateKeeps, WriteKeeps, SaveRowKeeps, LinkKeeps, KillKeeps DEF Call
  <2> QED
    BY <2>1, <2>2
<1> QED
  BY <1>1, <1>2, <1>3 DEF ProjectionNext

LEMMA PagesHold == ProjectionSpec => [](SyncInv /\ ProjectionInv)
<1>1. ProjectionInit => SyncInv /\ ProjectionInv
  BY ProjectionBegins
<1>2. SyncInv /\ ProjectionInv /\ [ProjectionNext]_vars => (SyncInv /\ ProjectionInv)'
  BY ProjectionStep
<1> QED
  BY <1>1, <1>2, PTL DEF ProjectionSpec

\* A candidate is only ever skipped if its page shows the calculation its state was saved
\* with, or a later one: a save that is lost or repeated, a retried request, a run of the
\* day before and runs beside it that have met elsewhere leave no state that says more
\* than the page does.  Where two runs have met the page is still known.
THEOREM SkippedPagesStayUpToDate == ProjectionSpec => []SkippedPagesAreUpToDate
<1>1. SyncInv /\ ProjectionInv => SkippedPagesAreUpToDate
  BY DEF SyncInv, StateInv, AloneInv, Alone, SkippedPagesAreUpToDate
<1> QED
  BY <1>1, PagesHold, PTL

\* Beyond the first page of an identity each has cost a fault or a meeting of two runs at
\* this identity, and a state names a page of its own identity: whatever lifecycles a
\* page goes through, no run that finds its mapping creates another.
THEOREM DuplicatesAlwaysHaveCauses == ProjectionSpec => []DuplicatesHaveCauses
<1>1. SyncInv /\ ProjectionInv => DuplicatesHaveCauses
  <2> SUFFICES ASSUME SyncInv, NEW id \in Identity
               PROVE  /\ state[id].page # 0 => state[id].page \in PagesOf(id)
                      /\ Cardinality(PagesOf(id)) <= 1 + faults + meets[id]
    BY DEF DuplicatesHaveCauses
  <2>1. /\ Cardinality(PagesOf(id)) \in Nat /\ Cardinality(Owing(id)) \in Nat
        /\ faults \in Nat /\ meets[id] \in Nat
    BY CountsAreNumbers DEF SyncInv, SyncTypes
  <2>2. /\ Cardinality(PagesOf(id)) + Cardinality(Owing(id)) <= faults + meets[id] + One(Known(id))
        /\ One(Known(id)) \in 0..1
    BY DEF SyncInv, CountInv, One
  <2>3. Cardinality(PagesOf(id)) <= 1 + faults + meets[id]
    BY <2>1, <2>2
  <2> QED
    BY <2>3 DEF SyncInv, StateInv, Holds
<1> QED
  BY <1>1, PagesHold, PTL

\* A projection job that has SUCCEEDED stays on its page: the brief is in the body of the
\* page its row names, and no other brief's row comes to name that page.
THEOREM SucceededStaysOnItsPage == ProjectionSpec => []SucceededIsOnItsPage
<1>1. SyncInv /\ ProjectionInv => SucceededIsOnItsPage
  BY DEF ProjectionInv, SucceededIsOnItsPage, Placed, Unique, On
<1> QED
  BY <1>1, PagesHold, PTL
================================================================================
