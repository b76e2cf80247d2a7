----------------------------- MODULE StoryAlerts -----------------------------
(***************************************************************************)
(* What telegram-alerts writes into the outbox before it delivers it.  A   *)
(* run in the default mode compares every story with the alert state saved *)
(* for it and inserts an event when the story rose or was verified; a run  *)
(* of the hourly digest inserts one event for the stories of its window.   *)
(* Both then list and deliver the pending events of their kind             *)
(* (AlertDispatch).  Runs overlap, calls fail, and a run may be killed     *)
(* between reading a story's state, inserting its event and saving.        *)
(*                                                                         *)
(* Time is counted in hours.  Rendering, the order of a digest's stories   *)
(* and dead-job events (EditorialQueue) are left out.                      *)
(***************************************************************************)
EXTENDS AlertDispatch

CONSTANTS
  Stories,
  Sightings, \* what discovery, grounding and ranking can say of a story
  Cooldown, Freshness, Window,
  SentLimit, \* digests a new one is compared with, 24
  Horizon,   \* bound: the last hour
  MaxReads   \* bound: runs that find stories; later ones only deliver

ASSUME StoryAssumption ==
  {Cooldown, Freshness, Window} \subseteq Nat \ {0} /\ {SentLimit, Horizon, MaxReads} \subseteq Nat

\* The outbox has room for what the runs that find stories can insert.
ASSUME RoomAssumption == MaxReads * Cardinality(Stories) <= Cardinality(Alerts)

VARIABLES
  now,
  story,     \* each story: its sighting and when it was last seen
  state,     \* telegram_story_alert_state
  event,     \* what each row of the outbox says
  run,       \* the runs of telegram-alerts until they list
  reads,
  disturbed, \* history: a materialising run failed or overlapped another
  late       \* history: a digest was made before an earlier one was sent for good

vars == <<dispatchVars, now, story, state, event, run, reads, disturbed, late>>

None == "none"
Never == -1
NoEvent == [type |-> None]

DefaultState ==
  [observed |-> None, alerted |-> None, alertedAt |-> Never, verified |-> FALSE]

Idle == [step |-> "idle"]

Init ==
  /\ DispatchInit
  /\ now = 0
  /\ story = [s \in Stories |-> [seen |-> Never]]
  /\ state = [s \in Stories |-> DefaultState]
  /\ event = [a \in Alerts |-> NoEvent]
  /\ run = [d \in Dispatchers |-> Idle]
  /\ reads = 0
  /\ disturbed = FALSE /\ late = FALSE

-----------------------------------------------------------------------------
(* The rows of a run.                                                      *)

FactRoles == {"FACT_PRIMARY", "FACT_INDEPENDENT"}

EvidencePriority(e) ==
  CASE e.grounding /\ e.role \in FactRoles -> 0
    [] e.role = "FACT_PRIMARY"             -> 1
    [] e.role = "FACT_INDEPENDENT"         -> 2
    [] OTHER                               -> 3

\* The first of the best evidence that has an observation.
SelectPrimary(evidence) ==
  LET observed == {i \in DOMAIN evidence : evidence[i].observed}
      best == {i \in observed : \A j \in observed :
                 EvidencePriority(evidence[i]) <= EvidencePriority(evidence[j])}
  IN  IF best = {} THEN None ELSE evidence[Min(best)].source

HasCanonicalGrounding(evidence) ==
  \E i \in DOMAIN evidence : evidence[i].grounding /\ evidence[i].role \in FactRoles

\* A story is canonical when it is ranked today and still relevant.
Canonical(sighting) == sighting.ranked /\ sighting.relevant

HasSnapshot(sighting) == sighting.trend # None

GroundingStatus(sighting) ==
  IF sighting.status = "VERIFIED" /\ ~HasCanonicalGrounding(sighting.evidence)
    THEN "INSUFFICIENT" ELSE sighting.status

Material(sighting) ==
  <<sighting.text, sighting.status, SelectPrimary(sighting.evidence)>>

\* The stories seen from a time on, and before another, with a trend snapshot.
Rows(start, end) ==
  LET seen == {s \in Stories : story[s].seen # Never /\ story[s].seen \in start .. end - 1}
  IN  [s \in {s \in seen : Canonical(story[s].sighting) /\ HasSnapshot(story[s].sighting)} |-> story[s]]

-----------------------------------------------------------------------------
(* Deciding one story.                                                     *)

IsFresh(row, at) == row.seen <= at /\ at - row.seen <= Freshness

AlertState(row, at) ==
  LET s == row.sighting
  IN  IF ~IsFresh(row, at) \/ s.relevance < 70 \/ s.score < 65 \/ s.sources < 2 THEN None
      ELSE IF s.trend = "BREAKING" /\ s.score >= 75 THEN "BREAKING"
      ELSE IF s.trend \in {"RISING", "HOT"} THEN "RISING" ELSE None

\* Mutant of WithinCooldown: the comparison is turned round.
OutsideCooldown(prior, at) == prior.alertedAt # Never /\ at - prior.alertedAt > Cooldown

WithinCooldown(prior, at) == prior.alertedAt # Never /\ at - prior.alertedAt < Cooldown

EventFor(type, s, row, at) ==
  [type |-> type, story |-> s, at |-> at,
   key |-> IF type = "VERIFIED" THEN row.sighting.version ELSE row.seen]

Fingerprint(e) == IF e.type = "DIGEST" THEN <<e.type, e.start>> ELSE <<e.type, e.story, e.key>>

\* The event to insert, if any, and the state to save.  A verification's event
\* stands for the rise it comes with, within the cooldown too.
Evaluate(prior, s, row, at) ==
  LET observed == AlertState(row, at)
      rose     == observed # None /\ observed # prior.observed
      verified == GroundingStatus(row.sighting) = "VERIFIED" /\ ~prior.verified
      alerts   == rose /\ (verified \/ ~WithinCooldown(prior, at))
  IN  [event |-> IF verified THEN EventFor("VERIFIED", s, row, at)
                 ELSE IF alerts THEN EventFor(observed, s, row, at) ELSE NoEvent,
       next  |-> [observed  |-> observed,
                  alerted   |-> IF alerts THEN observed ELSE prior.alerted,
                  alertedAt |-> IF alerts THEN at ELSE prior.alertedAt,
                  verified  |-> prior.verified \/ verified]]

-----------------------------------------------------------------------------
(* Around the runs.                                                        *)

\* Discovery sees a story, or grounding and ranking judge it anew.
See(s, sighting) ==
  /\ reads < MaxReads
  /\ \E seen \in {now, story[s].seen} \ {Never} :
       story' = [story EXCEPT ![s] = [seen |-> seen, sighting |-> sighting]]
  /\ UNCHANGED <<dispatchVars, now, state, event, run, reads, disturbed, late>>

Tick ==
  /\ now < Horizon /\ now' = now + 1
  /\ UNCHANGED <<dispatchVars, story, state, event, run, reads, disturbed, late>>

-----------------------------------------------------------------------------
(* A run.                                                                  *)

Goes(d, step) == run' = [run EXCEPT ![d].step = step]
Fault == faults < MaxFaults /\ faults' = faults + 1 /\ UNCHANGED <<alert, messages, listed, pc, sentAt, marks>>

Materializing(d) == run[d].step \in {"story", "insert", "save", "digest"}
Another(d, kind) ==
  \E e \in Dispatchers \ {d} : Materializing(e) /\ run[e].kind = kind

\* A run stops materialising, or is done with it, and goes on to deliver.
ToList(d) == run' = [run EXCEPT ![d] = [step |-> "list", kind |-> @.kind]]

\* The stories left for a run.
Proceed(d, at, rows) ==
  run' = [run EXCEPT ![d] =
    IF DOMAIN rows = {} THEN [step |-> "list", kind |-> "other"]
    ELSE [step |-> "story", kind |-> "other", at |-> at, rows |-> rows]]

Finds(something) ==
  reads' = IF something THEN reads + 1 ELSE reads

\* The default mode reads all its stories at once.
BeginStories(d) ==
  /\ run[d] = Idle
  /\ LET rows == IF reads < MaxReads THEN Rows(now - Freshness, now + 1) ELSE NoList
     IN  Proceed(d, now, rows) /\ Finds(DOMAIN rows # {})
  /\ disturbed' = (disturbed \/ Another(d, "other"))
  /\ UNCHANGED <<dispatchVars, now, story, state, event, late>>

Decided(r, s) ==
  LET decision == Evaluate(state[s], s, r.rows[s], r.at)
  IN  [step |-> IF decision.event = NoEvent THEN "save" ELSE "insert",
       kind |-> "other", at |-> r.at, story |-> s,
       event |-> decision.event, next |-> decision.next,
       rows |-> [q \in DOMAIN r.rows \ {s} |-> r.rows[q]]]

\* Mutant of NextStory: the state is saved when the event is decided.
NextStorySavesFirst(d) ==
  /\ run[d].step = "story"
  /\ \E s \in DOMAIN run[d].rows :
       /\ run' = [run EXCEPT ![d] = Decided(@, s)]
       /\ state' = [state EXCEPT ![s] = Decided(run[d], s).next]
  /\ UNCHANGED <<dispatchVars, now, story, event, reads, disturbed, late>>

\* The next story, in the order the database gave: its state is read and judged.
NextStory(d) ==
  /\ run[d].step = "story"
  /\ \E s \in DOMAIN run[d].rows : run' = [run EXCEPT ![d] = Decided(@, s)]
  /\ UNCHANGED <<dispatchVars, now, story, state, event, reads, disturbed, late>>

Present == {a \in Alerts : alert[a].status # "ABSENT"}
Known(e) == \E a \in Present : Fingerprint(event[a]) = Fingerprint(e)

\* The insert ignores a fingerprint that is there.
Insert(e, kind) ==
  IF Known(e) THEN UNCHANGED <<dispatchVars, event>>
  ELSE \E a \in Alerts : Materialize(a, kind) /\ event' = [event EXCEPT ![a] = e]

\* insertEvent; when it throws, the remaining stories are left for the next run.
InsertEvent(d) ==
  /\ run[d].step = "insert"
  /\ \/ Insert(run[d].event, "other") /\ Goes(d, "save") /\ UNCHANGED disturbed
     \/ Fault /\ ToList(d) /\ disturbed' = TRUE /\ UNCHANGED event
  /\ UNCHANGED <<now, story, state, reads, late>>

\* saveState overwrites the row with what was decided from the state read.
SaveState(d) ==
  /\ run[d].step = "save"
  /\ \/ /\ state' = [state EXCEPT ![run[d].story] = run[d].next]
        /\ Proceed(d, run[d].at, run[d].rows)
        /\ UNCHANGED <<dispatchVars, disturbed>>
     \/ Fault /\ ToList(d) /\ disturbed' = TRUE /\ UNCHANGED state
  /\ UNCHANGED <<now, story, event, reads, late>>

Digests == {a \in Present : alert[a].kind = "digest"}

SentDigests == {a \in Digests : alert[a].status = "SENT"}

LastSent == {a \in SentDigests :
              Cardinality({b \in SentDigests : sentAt[b] > sentAt[a]}) < SentLimit}

\* What the last digests marked SENT told.
PreviouslySent == UNION {{item.material : item \in event[a].items} : a \in LastSent}

DigestItems(start) ==
  {[story |-> s, material |-> Material(story[s].sighting)] :
     s \in DOMAIN Rows(start, start + Window)}

\* Mutant of BuildDigest: what was sent is told again.
BuildDigestRepeats(start) == DigestItems(start)

BuildDigest(start) == {item \in DigestItems(start) : item.material \notin PreviouslySent}

\* A digest run for a window that is over: its hour's job or a retry of it.
BeginDigest(d, start) ==
  /\ run[d] = Idle
  /\ start % Window = 0 /\ start + Window <= now
  /\ LET items == IF reads < MaxReads THEN BuildDigest(start) ELSE {}
     IN  /\ Finds(items # {})
         /\ run' = [run EXCEPT ![d] =
              IF items = {} THEN [step |-> "list", kind |-> "digest"]
              ELSE [step |-> "digest", kind |-> "digest",
                    event |-> [type |-> "DIGEST", start |-> start, items |-> items]]]
  /\ late' = (late \/ Another(d, "digest")
                   \/ \E a \in Digests : alert[a].status # "SENT" /\ event[a].start # start)
  /\ UNCHANGED <<dispatchVars, now, story, state, event, disturbed>>

\* A digest's failure, unlike a story's, ends the run.
InsertDigest(d) ==
  /\ run[d].step = "digest"
  /\ \/ Insert(run[d].event, "digest") /\ ToList(d)
     \/ Fault /\ run' = [run EXCEPT ![d] = Idle] /\ UNCHANGED event
  /\ UNCHANGED <<now, story, state, reads, disturbed, late>>

ListPending(d) ==
  /\ run[d].step = "list"
  /\ IF Batch(run[d].kind) = {}
       THEN run' = [run EXCEPT ![d] = Idle] /\ UNCHANGED dispatchVars
       ELSE List(d, run[d].kind) /\ run' = [run EXCEPT ![d] = [step |-> "dispatch"]]
  /\ UNCHANGED <<now, story, state, event, reads, disturbed, late>>

Deliver(d) ==
  /\ run[d].step = "dispatch"
  /\ Dispatch(d)
  /\ run' = IF listed'[d] = NoList THEN [run EXCEPT ![d] = Idle] ELSE run
  /\ late' = (late \/ (sentAt' # sentAt /\ \E a \in Digests : a > Current(d)))
  /\ UNCHANGED <<now, story, state, event, reads, disturbed>>

\* The run is killed wherever it is.
Kill(d) ==
  /\ run[d] # Idle
  /\ IF run[d].step = "dispatch" THEN Cut(d) ELSE Fault
  /\ run' = [run EXCEPT ![d] = Idle]
  /\ disturbed' = (disturbed \/ run[d].step \in {"story", "insert", "save"})
  /\ UNCHANGED <<now, story, state, event, reads, late>>

RunStep(d) ==
  NextStory(d) \/ InsertEvent(d) \/ SaveState(d) \/ InsertDigest(d)
    \/ ListPending(d) \/ Deliver(d)

Next ==
  \/ Tick
  \/ \E s \in Stories, sighting \in Sightings : See(s, sighting)
  \/ \E d \in Dispatchers :
       \/ BeginStories(d) \/ (\E start \in 0 .. Horizon : BeginDigest(d, start))
       \/ RunStep(d) \/ Kill(d)

Spec == Init /\ [][Next]_vars

-----------------------------------------------------------------------------

Told(s, types) == \E a \in Present : event[a].type \in types /\ event[a].story = s

\* What the alert state says was announced is in the outbox, whatever was killed
\* or overlapped: no rise or verification is lost by saving it.
AlertedWasTold == \A s \in Stories :
  /\ state[s].verified => Told(s, {"VERIFIED"})
  /\ state[s].alerted # None => Told(s, {state[s].alerted, "VERIFIED"})

\* Unless a materialising run failed or met another, a story's trend alerts are
\* a cooldown apart.
TrendAlertsSpaced == ~disturbed =>
  \A a, b \in Present :
    (a < b /\ {event[a].type, event[b].type} \subseteq {"RISING", "BREAKING"}
           /\ event[a].story = event[b].story) => event[b].at - event[a].at >= Cooldown

\* The digests made between two of them.
Between(a, b) == {c \in Digests : a < c /\ c < b}

\* While every digest is sent, and not once more, before the next is made, a digest
\* tells nothing that one of the last SentLimit before it told.  What stays the same
\* for longer is told again.
DigestsNeverRepeat == ~late =>
  \A a, b \in Digests :
    a < b /\ Cardinality(Between(a, b)) < SentLimit =>
      event[a].items \cap event[b].items = {}
==============================================================================
