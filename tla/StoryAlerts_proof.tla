------------------------- MODULE StoryAlerts_proof -------------------------
(***************************************************************************)
(* Proofs about the alert outbox and what telegram-alerts writes into it,  *)
(* for every set of stories, alerts and overlapping runs, every limit and  *)
(* every sequence of sightings.                                            *)
(***************************************************************************)
EXTENDS StoryAlerts, FiniteSetTheorems, WellFoundedInduction, TLAPS

\* A set of naturals that is not empty has a least element: the oldest event of
\* a list is one of the list.
LEMMA MinIsLeast ==
  ASSUME NEW S \in SUBSET Nat, S # {}
  PROVE  Min(S) \in S /\ \A x \in S : Min(S) <= x
<1> DEFINE Below(x) == {y \in S : y <= x}
           Cuts == {Below(x) : x \in S}
<1>1. ASSUME NEW x \in S
      PROVE  Below(x) \in FiniteSubsetsOf(S)
  <2>1. IsFiniteSet(Below(x))
    BY FS_BoundedSetOfNaturals, x \in Nat
  <2> QED
    BY <2>1 DEF FiniteSubsetsOf
<1>2. Cuts \subseteq FiniteSubsetsOf(S) /\ Cuts # {}
  BY <1>1
<1>3. \E D \in Cuts : \A E \in Cuts : <<E, D>> \notin StrictSubsetOrdering(S)
  <2> HIDE DEF Cuts
  <2> QED
    BY <1>2, FS_StrictSubsetOrderingWellFounded, WFMin, Zenon
<1>4. PICK x \in S : \A y \in S : <<Below(y), Below(x)>> \notin StrictSubsetOrdering(S)
  BY <1>3
<1>5. ASSUME NEW y \in S, y < x
      PROVE  FALSE
  <2>0. x \in Nat /\ y \in Nat /\ \A z \in S : z \in Nat
    OBVIOUS
  <2>1. Below(y) \subseteq Below(x) /\ x \in Below(x) /\ x \notin Below(y)
    <3>1. ASSUME NEW z \in S, z <= y PROVE z <= x
      BY <1>5, <2>0, <3>1
    <3>2. x <= x /\ ~(x <= y)
      BY <1>5, <2>0
    <3> QED
      BY <3>1, <3>2
  <2>2. Below(y) \subseteq S /\ Below(x) \subseteq S
    OBVIOUS
  <2> QED
    BY <1>4, <2>1, <2>2 DEF StrictSubsetOrdering
<1>6. \A y \in S : x <= y
  BY <1>5
<1> QED
  BY <1>6 DEF Min
-----------------------------------------------------------------------------
(* The outbox.                                                             *)

AlertRow == [status : Status, attempts : Nat, kind : Kinds]
Lists == UNION {[S -> Nat] : S \in SUBSET Alerts}

DispatchTypeOK ==
  /\ alert \in [Alerts -> AlertRow]
  /\ messages \in [Alerts -> 0..MaxMessages]
  /\ listed \in [Dispatchers -> Lists]
  /\ pc \in [Dispatchers -> {"send", "sent", "failed"}]

\* A run that is about to mark has an event to mark, and one that is about to mark
\* it SENT has delivered it.
MarksBacked ==
  \A d \in Dispatchers :
    /\ pc[d] # "send" => listed[d] # NoList
    /\ pc[d] = "sent" => messages[Current(d)] > 0

\* What a run has listed is in the outbox.
ListedArePresent == \A d \in Dispatchers : DOMAIN listed[d] \subseteq Present

OutboxInv == DispatchTypeOK /\ SentWasDelivered /\ MarksBacked /\ ListedArePresent

\* The steps of the outbox, and those of the story alerts that leave it alone.
OutboxStep == DispatchNext \/ UNCHANGED <<alert, messages, listed, pc, sentAt, marks>>

\* The event a run is at is one of those it listed.
LEMMA CurrentIsListed ==
  ASSUME DispatchTypeOK, NEW d \in Dispatchers, listed[d] # NoList
  PROVE  /\ Current(d) \in Alerts /\ Current(d) \in DOMAIN listed[d]
         /\ listed[d][Current(d)] \in Nat
<1>1. PICK S \in SUBSET Alerts : listed[d] \in [S -> Nat]
  BY DEF DispatchTypeOK, Lists
<1>2. S # {}
  <2> SUFFICES ASSUME S = {} PROVE FALSE
    OBVIOUS
  <2> QED
    BY <1>1 DEF NoList
<1>3. S \in SUBSET Nat /\ DOMAIN listed[d] = S
  BY <1>1, AlertAssumption
<1>4. Min(S) \in S
  BY <1>2, <1>3, MinIsLeast
<1> QED
  BY <1>1, <1>3, <1>4 DEF Current

\* What is left of a list is a list.
LEMMA ShorterLists ==
  ASSUME NEW f \in Lists, NEW a
  PROVE  [x \in DOMAIN f \ {a} |-> f[x]] \in Lists
<1>1. PICK S \in SUBSET Alerts : f \in [S -> Nat]
  BY DEF Lists
<1>2. [x \in DOMAIN f \ {a} |-> f[x]] \in [S \ {a} -> Nat]
  BY <1>1
<1> QED
  BY <1>2 DEF Lists

LEMMA EmptyList == NoList \in Lists
<1>1. NoList \in [{} -> Nat]
  BY DEF NoList
<1> QED
  BY <1>1 DEF Lists

\* An event never leaves the outbox, nor changes its kind.
LEMMA RowsStay ==
  ASSUME DispatchTypeOK, OutboxStep
  PROVE  \A a \in Present : a \in Present' /\ alert'[a].kind = alert[a].kind
<1> USE DEF DispatchTypeOK, Present, AlertRow
<1>1. ASSUME NEW a \in Alerts, NEW kind \in Kinds, Materialize(a, kind)
      PROVE  \A b \in Present : b \in Present' /\ alert'[b].kind = alert[b].kind
  BY <1>1 DEF Materialize
<1>2. ASSUME NEW d \in Dispatchers, MarkSent(d)
      PROVE  \A b \in Present : b \in Present' /\ alert'[b].kind = alert[b].kind
  BY <1>2 DEF MarkSent
<1>3. ASSUME NEW d \in Dispatchers, MarkFailed(d)
      PROVE  \A b \in Present : b \in Present' /\ alert'[b].kind = alert[b].kind
  BY <1>3 DEF MarkFailed
<1>4. CASE UNCHANGED alert
  BY <1>4
<1> QED
  BY <1>1, <1>2, <1>3, <1>4 DEF OutboxStep, DispatchNext, Dispatch, List, Send, Cut

\* A list grows only by listing, which takes events that are there.
LEMMA ListsStayPresent ==
  ASSUME DispatchTypeOK, ListedArePresent, OutboxStep
  PROVE  ListedArePresent'
<1> USE DEF DispatchTypeOK, ListedArePresent
<1>0. Present \subseteq Present'
  BY RowsStay
<1>1. ASSUME NEW d \in Dispatchers, NEW kind \in Kinds, List(d, kind)
      PROVE  ListedArePresent'
  <2>1. Batch(kind) \subseteq Present
    BY DEF Batch, Listable, Present
  <2> QED
    BY <1>0, <1>1, <2>1 DEF List
<1>2. ASSUME NEW d \in Dispatchers, Advance(d)
      PROVE  ListedArePresent'
  BY <1>0, <1>2 DEF Advance
<1>3. ASSUME NEW d \in Dispatchers, Cut(d)
      PROVE  ListedArePresent'
  BY <1>0, <1>3 DEF Cut, NoList
<1>4. CASE UNCHANGED listed
  BY <1>0, <1>4
<1> QED
  BY <1>1, <1>2, <1>3, <1>4
  DEF OutboxStep, DispatchNext, Dispatch, Send, MarkSent, MarkFailed, Materialize

\* An event's row and a delivery are as good as they were before, whichever call
\* of whichever run is made.
LEMMA OutboxSteps ==
  ASSUME OutboxInv, OutboxStep
  PROVE  OutboxInv'
<1> USE DEF OutboxInv, DispatchTypeOK
<1> DEFINE Delivering == DispatchTypeOK /\ SentWasDelivered /\ MarksBacked
<1>0. /\ \A a \in Alerts : messages[a] \in Nat /\ alert[a] \in AlertRow
      /\ MaxMessages \in Nat \ {0} /\ MaxAttempts \in Nat
  BY AlertAssumption
<1>1. ASSUME NEW a \in Alerts, NEW kind \in Kinds, Materialize(a, kind)
      PROVE  Delivering'
  <2>1. [status |-> "PENDING", attempts |-> 0, kind |-> kind] \in AlertRow
    BY DEF AlertRow, Status
  <2>2. DispatchTypeOK'
    BY <1>1, <2>1 DEF Materialize
  <2>3. SentWasDelivered'
    BY <1>1 DEF Materialize, SentWasDelivered
  <2>4. MarksBacked'
    BY <1>1 DEF Materialize, MarksBacked, Current
  <2> QED
    BY <2>2, <2>3, <2>4
<1>2. ASSUME NEW d \in Dispatchers, NEW kind \in Kinds, List(d, kind)
      PROVE  Delivering'
  <2>1. [a \in Batch(kind) |-> alert[a].attempts] \in Lists
    <3>1. Batch(kind) \in SUBSET Alerts
      BY DEF Batch
    <3>2. \A a \in Batch(kind) : alert[a].attempts \in Nat
      BY <1>0, <3>1 DEF AlertRow
    <3>3. [a \in Batch(kind) |-> alert[a].attempts] \in [Batch(kind) -> Nat]
      BY <3>2
    <3> QED
      BY <3>1, <3>3 DEF Lists
  <2>2. DispatchTypeOK'
    BY <1>2, <2>1 DEF List
  <2>3. pc[d] = "send"
    BY <1>2 DEF List, MarksBacked
  <2>4. MarksBacked'
    BY <1>2, <2>3 DEF List, MarksBacked, Current
  <2> QED
    BY <1>2, <2>2, <2>4 DEF List, SentWasDelivered
<1>3. ASSUME NEW d \in Dispatchers, Send(d)
      PROVE  Delivering'
  <2>1. Current(d) \in Alerts
    BY <1>3, CurrentIsListed DEF Send
  <2>2. CASE Delivered(Current(d)) /\ \E step \in {"sent", "failed"} : Goto(d, step)
    <3>1. /\ messages' \in [Alerts -> 0..MaxMessages]
          /\ \A a \in Alerts : messages'[a] >= messages[a]
          /\ messages'[Current(d)] > 0
      BY <1>0, <2>1, <2>2 DEF Delivered
    <3>2. \A e \in Dispatchers : listed[e] # NoList => Current(e) \in Alerts
      BY CurrentIsListed
    <3>3. DispatchTypeOK'
      BY <1>3, <2>2, <3>1 DEF Send, Goto
    <3>4. \A a \in Alerts : messages[a] > 0 => messages'[a] > 0
      BY <1>0, <3>1
    <3>5. SentWasDelivered'
      BY <1>3, <3>4 DEF Send, SentWasDelivered
    <3>6. MarksBacked'
      BY <1>3, <2>2, <3>1, <3>2, <3>4 DEF Send, Goto, MarksBacked, Current
    <3> QED
      BY <3>3, <3>5, <3>6
  <2>3. CASE UNCHANGED messages /\ Goto(d, "failed")
    <3>1. DispatchTypeOK' /\ SentWasDelivered'
      BY <1>3, <2>3 DEF Send, Goto, SentWasDelivered
    <3>2. MarksBacked'
      BY <1>3, <2>3 DEF Send, Goto, MarksBacked, Current
    <3> QED
      BY <3>1, <3>2
  <2> QED
    BY <1>3, <2>2, <2>3 DEF Send
<1>4. ASSUME NEW d \in Dispatchers, Advance(d), messages' = messages
      PROVE  /\ listed' \in [Dispatchers -> Lists]
             /\ pc' \in [Dispatchers -> {"send", "sent", "failed"}]
             /\ MarksBacked'
  <2>1. listed[d] \in Lists
    OBVIOUS
  <2>2. listed' = [listed EXCEPT ![d] = [a \in DOMAIN listed[d] \ {Current(d)} |-> listed[d][a]]]
    BY <1>4 DEF Advance
  <2>3. listed' \in [Dispatchers -> Lists]
    BY <2>1, <2>2, ShorterLists
  <2>4. pc' = [pc EXCEPT ![d] = "send"]
    BY <1>4 DEF Advance, Goto
  <2>5. \A e \in Dispatchers \ {d} : listed'[e] = listed[e] /\ pc'[e] = pc[e]
    BY <2>2, <2>4
  <2>6. MarksBacked'
    BY <1>4, <2>4, <2>5 DEF MarksBacked, Current
  <2> QED
    BY <2>3, <2>4, <2>6
<1>5. ASSUME NEW d \in Dispatchers, MarkSent(d)
      PROVE  Delivering'
  <2>1. listed[d] # NoList /\ messages[Current(d)] > 0 /\ Current(d) \in Alerts
    BY <1>5, CurrentIsListed DEF MarkSent, MarksBacked
  <2>2. alert' \in [Alerts -> AlertRow] /\ SentWasDelivered'
    <3>1. CASE alert' = [alert EXCEPT ![Current(d)].status = "SENT"]
      BY <1>0, <1>5, <2>1, <3>1 DEF MarkSent, SentWasDelivered, AlertRow, Status
    <3>2. CASE UNCHANGED alert
      BY <1>5, <3>2 DEF MarkSent, SentWasDelivered
    <3> QED
      BY <1>5, <3>1, <3>2 DEF MarkSent
  <2>3. CASE Advance(d)
    BY <1>4, <1>5, <2>2, <2>3 DEF MarkSent
  <2>4. CASE Goto(d, "failed") /\ UNCHANGED listed
    <3>1. MarksBacked'
      BY <1>5, <2>1, <2>4 DEF MarkSent, Goto, MarksBacked, Current
    <3> QED
      BY <1>5, <2>2, <2>4, <3>1 DEF MarkSent, Goto
  <2> QED
    BY <1>5, <2>3, <2>4 DEF MarkSent
<1>6. ASSUME NEW d \in Dispatchers, MarkFailed(d)
      PROVE  Delivering'
  <2>1. Current(d) \in Alerts /\ listed[d][Current(d)] \in Nat
    BY <1>6, CurrentIsListed DEF MarkFailed, MarksBacked
  <2> DEFINE attempt == listed[d][Current(d)] + 1
             row == [alert[Current(d)] EXCEPT
                       !.status = IF attempt >= MaxAttempts THEN "FAILED" ELSE "PENDING",
                       !.attempts = attempt]
  <2>2. alert' = [alert EXCEPT ![Current(d)] = row]
    BY <1>6 DEF MarkFailed
  <2>3. row \in AlertRow /\ row.status # "SENT"
    <3>1. attempt \in Nat /\ alert[Current(d)] \in AlertRow
      BY <2>1
    <3> HIDE DEF attempt
    <3> QED
      BY <3>1 DEF AlertRow, Status
  <2> HIDE DEF row
  <2>4. alert' \in [Alerts -> AlertRow] /\ SentWasDelivered'
    BY <1>6, <2>1, <2>2, <2>3 DEF MarkFailed, SentWasDelivered
  <2> QED
    BY <1>4, <1>6, <2>4 DEF MarkFailed
<1>7. ASSUME NEW d \in Dispatchers, Cut(d)
      PROVE  Delivering'
  <2>1. DispatchTypeOK'
    BY <1>7, EmptyList DEF Cut, Goto
  <2>2. MarksBacked'
    BY <1>7 DEF Cut, Goto, MarksBacked, Current
  <2> QED
    BY <1>7, <2>1, <2>2 DEF Cut, SentWasDelivered
<1>8. ASSUME UNCHANGED <<alert, messages, listed, pc>>
      PROVE  Delivering'
  BY <1>8 DEF SentWasDelivered, MarksBacked, Current
<1>9. Delivering'
  BY <1>1, <1>2, <1>3, <1>5, <1>6, <1>7, <1>8 DEF OutboxStep, DispatchNext, Dispatch
<1> QED
  BY <1>9, ListsStayPresent

LEMMA OutboxStarts == DispatchInit => OutboxInv
<1> SUFFICES ASSUME DispatchInit PROVE OutboxInv
  OBVIOUS
<1>1. [status |-> "ABSENT", attempts |-> 0, kind |-> "other"] \in AlertRow
  BY DEF AlertRow, Status, Kinds
<1>2. DispatchTypeOK
  BY <1>1, EmptyList, AlertAssumption DEF DispatchInit, DispatchTypeOK
<1> QED
  BY <1>2 DEF DispatchInit, OutboxInv, SentWasDelivered, MarksBacked, ListedArePresent, NoList

\* Whoever fills the outbox and however its runs overlap: an event is SENT only
\* after Telegram has taken its message.
THEOREM OutboxDelivers == DispatchSpec => []SentWasDelivered
<1>1. OutboxInv /\ [DispatchNext]_dispatchVars => OutboxInv'
  BY OutboxSteps DEF OutboxStep, dispatchVars
<1>2. OutboxInv => SentWasDelivered
  BY DEF OutboxInv
<1> QED
  BY <1>1, <1>2, OutboxStarts, PTL DEF DispatchSpec

-----------------------------------------------------------------------------
(* The runs that fill the outbox.                                          *)

Trend == {"RISING", "BREAKING"}
StateRow == [observed : Trend \cup {None}, alerted : Trend \cup {None},
             alertedAt : Nat \cup {Never}, verified : BOOLEAN]

Sighted == [seen : Nat, sighting : Sightings]
RowSets == UNION {[S -> Sighted] : S \in SUBSET Stories}

EventKeys == {sighting.version : sighting \in Sightings} \cup Nat
StoryEvent == [type : Trend \cup {"VERIFIED"}, story : Stories, at : Nat, key : EventKeys]
Item == [story : Stories, material : {Material(sighting) : sighting \in Sightings}]
DigestEvent == [type : {"DIGEST"}, start : Nat, items : SUBSET Item]

\* What a run holds at each of its steps.
Listing == [step : {"list"}, kind : Kinds]
Reading == [step : {"story"}, kind : {"other"}, at : Nat, rows : RowSets]
Deciding == [step : {"insert", "save"}, kind : {"other"}, at : Nat, story : Stories,
             event : StoryEvent \cup {NoEvent}, next : StateRow, rows : RowSets]
Digesting == [step : {"digest"}, kind : {"digest"}, event : DigestEvent]
RunState == {Idle, [step |-> "dispatch"]} \cup Listing \cup Reading \cup Deciding \cup Digesting

StoryTypeOK ==
  /\ now \in Nat
  /\ story \in [Stories -> Sighted \cup [seen : {Never}]]
  /\ state \in [Stories -> StateRow]
  /\ event \in [Alerts -> StoryEvent \cup DigestEvent \cup {NoEvent}]
  /\ run \in [Dispatchers -> RunState]
  /\ disturbed \in BOOLEAN /\ late \in BOOLEAN

\* What a run holds at the step it is at.
LEMMA RunsHold ==
  ASSUME StoryTypeOK, NEW d \in Dispatchers
  PROVE  /\ run[d].step = "list" => run[d] \in Listing
         /\ run[d].step = "story" => run[d] \in Reading
         /\ run[d].step \in {"insert", "save"} => run[d] \in Deciding
         /\ run[d].step = "digest" => run[d] \in Digesting
         /\ run[d] = Idle => run[d].step = "idle"
BY DEF StoryTypeOK, RunState, Listing, Reading, Deciding, Digesting, Idle

\* The stories a run reads are sighted ones.
LEMMA RowsAreSighted ==
  ASSUME StoryTypeOK, NEW start, NEW end
  PROVE  Rows(start, end) \in RowSets
<1> DEFINE S == DOMAIN Rows(start, end)
<1>1. S \in SUBSET Stories /\ \A s \in S : story[s].seen # Never
  BY DEF Rows
<1>2. \A s \in S : story[s] \in Sighted
  BY <1>1 DEF StoryTypeOK
<1>3. Rows(start, end) \in [S -> Sighted]
  BY <1>2 DEF Rows
<1> QED
  BY <1>1, <1>3 DEF RowSets

\* Deciding a story: the event, if there is one, is of this story and this run, and
\* the state to save is a state.
LEMMA EvaluatedIsTyped ==
  ASSUME NEW prior \in StateRow, NEW s \in Stories, NEW row \in Sighted, NEW at \in Nat
  PROVE  /\ Evaluate(prior, s, row, at).event \in StoryEvent \cup {NoEvent}
         /\ Evaluate(prior, s, row, at).next \in StateRow
<1>1. AlertState(row, at) \in Trend \cup {None}
  BY DEF AlertState, Trend
<1>2. row.sighting.version \in EventKeys /\ row.seen \in EventKeys
  BY DEF EventKeys, Sighted
<1>3. ASSUME NEW type \in Trend \cup {"VERIFIED"}
      PROVE  EventFor(type, s, row, at) \in StoryEvent
  BY <1>2 DEF EventFor, StoryEvent
<1>4. AlertState(row, at) # None => AlertState(row, at) \in Trend
  BY <1>1
<1> QED
  BY <1>1, <1>3, <1>4 DEF Evaluate, StateRow

\* Every step of the runs is a step of the outbox or leaves it alone.
LEMMA StepsOfOutbox ==
  ASSUME StoryTypeOK, [Next]_vars
  PROVE  OutboxStep
<1> USE DEF OutboxStep
<1>1. ASSUME NEW d \in Dispatchers, InsertEvent(d)
      PROVE  OutboxStep
  BY <1>1 DEF InsertEvent, Insert, Fault, DispatchNext, Kinds, dispatchVars
<1>2. ASSUME NEW d \in Dispatchers, InsertDigest(d)
      PROVE  OutboxStep
  BY <1>2 DEF InsertDigest, Insert, Fault, DispatchNext, Kinds, dispatchVars
<1>3. ASSUME NEW d \in Dispatchers, ListPending(d)
      PROVE  OutboxStep
  <2>1. run[d].kind \in Kinds
    BY <1>3, RunsHold DEF ListPending, Listing
  <2> QED
    BY <1>3, <2>1 DEF ListPending, DispatchNext, dispatchVars
<1>4. ASSUME NEW d \in Dispatchers, Deliver(d)
      PROVE  OutboxStep
  BY <1>4 DEF Deliver, DispatchNext
<1>5. ASSUME NEW d \in Dispatchers, Kill(d)
      PROVE  OutboxStep
  BY <1>5 DEF Kill, Fault, DispatchNext
<1>6. ASSUME NEW d \in Dispatchers, SaveState(d)
      PROVE  OutboxStep
  BY <1>6 DEF SaveState, Fault, dispatchVars
<1>7. CASE UNCHANGED dispatchVars
  BY <1>7 DEF dispatchVars
<1> QED
  BY <1>1, <1>2, <1>3, <1>4, <1>5, <1>6, <1>7
  DEF Next, RunStep, Tick, See, BeginStories, BeginDigest, NextStory, vars

LEMMA StoryTyping ==
  ASSUME StoryTypeOK, [Next]_vars
  PROVE  StoryTypeOK'
<1> USE DEF StoryTypeOK
<1>0. /\ \A d \in Dispatchers : run[d] \in RunState
      /\ Idle \in RunState
      /\ \A kind \in Kinds : [step |-> "list", kind |-> kind] \in RunState
  BY DEF RunState, Listing
<1>1. CASE Tick
  BY <1>1 DEF Tick, dispatchVars
<1>2. ASSUME NEW s \in Stories, NEW sighting \in Sightings, See(s, sighting)
      PROVE  StoryTypeOK'
  <2>1. PICK seen \in {now, story[s].seen} \ {Never} :
          story' = [story EXCEPT ![s] = [seen |-> seen, sighting |-> sighting]]
    BY <1>2 DEF See
  <2>2. seen \in Nat
    BY DEF Sighted
  <2>3. [seen |-> seen, sighting |-> sighting] \in Sighted
    BY <2>2 DEF Sighted
  <2> QED
    BY <1>2, <2>1, <2>3 DEF See
<1>3. ASSUME NEW d \in Dispatchers, NEW at \in Nat, NEW rows \in RowSets, Proceed(d, at, rows)
      PROVE  run' \in [Dispatchers -> RunState]
  <2>1. [step |-> "story", kind |-> "other", at |-> at, rows |-> rows] \in RunState
    BY DEF RunState, Reading
  <2>2. [step |-> "list", kind |-> "other"] \in RunState
    BY <1>0 DEF Kinds
  <2> QED
    BY <1>3, <2>1, <2>2 DEF Proceed
<1>4. ASSUME NEW d \in Dispatchers, BeginStories(d)
      PROVE  StoryTypeOK'
  <2>1. NoList \in RowSets
    <3>1. NoList \in [{} -> Sighted]
      BY DEF NoList
    <3> QED
      BY <3>1 DEF RowSets
  <2>2. run' \in [Dispatchers -> RunState]
    BY <1>3, <1>4, <2>1, RowsAreSighted DEF BeginStories
  <2> QED
    BY <1>4, <2>2 DEF BeginStories
<1>5. ASSUME NEW d \in Dispatchers, NextStory(d)
      PROVE  StoryTypeOK'
  <2>1. PICK s \in DOMAIN run[d].rows : run' = [run EXCEPT ![d] = Decided(run[d], s)]
    BY <1>5 DEF NextStory
  <2>2. run[d] \in Reading
    BY <1>5, RunsHold DEF NextStory
  <2>3. PICK S \in SUBSET Stories : run[d].rows \in [S -> Sighted]
    BY <2>2 DEF Reading, RowSets
  <2>4. s \in Stories /\ run[d].rows[s] \in Sighted /\ run[d].at \in Nat /\ state[s] \in StateRow
    BY <2>1, <2>2, <2>3 DEF Reading
  <2>5. [q \in DOMAIN run[d].rows \ {s} |-> run[d].rows[q]] \in RowSets
    <3>1. [q \in DOMAIN run[d].rows \ {s} |-> run[d].rows[q]] \in [S \ {s} -> Sighted]
      BY <2>3
    <3> QED
      BY <3>1 DEF RowSets
  <2>6. Decided(run[d], s) \in Deciding
    BY <2>4, <2>5, EvaluatedIsTyped DEF Decided, Deciding
  <2>7. run' \in [Dispatchers -> RunState]
    BY <2>1, <2>6 DEF RunState
  <2> QED
    BY <1>5, <2>7 DEF NextStory
<1>6. ASSUME NEW d \in Dispatchers, run[d] \in Deciding \/ run[d] \in Digesting, ToList(d)
      PROVE  run' \in [Dispatchers -> RunState]
  <2>1. run[d].kind \in Kinds
    BY <1>6 DEF Deciding, Digesting, Kinds
  <2> QED
    BY <1>0, <1>6, <2>1 DEF ToList
<1>7. ASSUME NEW e \in StoryEvent \cup DigestEvent \cup {NoEvent}, NEW kind, Insert(e, kind)
      PROVE  event' \in [Alerts -> StoryEvent \cup DigestEvent \cup {NoEvent}]
  BY <1>7 DEF Insert
<1>8. ASSUME NEW d \in Dispatchers, InsertEvent(d)
      PROVE  StoryTypeOK'
  <2>1. run[d] \in Deciding
    BY <1>8, RunsHold DEF InsertEvent
  <2>2. CASE Insert(run[d].event, "other") /\ Goes(d, "save") /\ UNCHANGED disturbed
    <3>1. run[d].event \in StoryEvent \cup DigestEvent \cup {NoEvent}
      BY <2>1 DEF Deciding
    <3>2. [run[d] EXCEPT !.step = "save"] \in Deciding
      BY <2>1 DEF Deciding
    <3>3. run' \in [Dispatchers -> RunState]
      BY <2>2, <3>2 DEF Goes, RunState
    <3> QED
      BY <1>7, <1>8, <2>2, <3>1, <3>3 DEF InsertEvent
  <2>3. CASE Fault /\ ToList(d) /\ disturbed' = TRUE /\ UNCHANGED event
    BY <1>6, <1>8, <2>1, <2>3 DEF InsertEvent
  <2> QED
    BY <1>8, <2>2, <2>3 DEF InsertEvent
<1>9. ASSUME NEW d \in Dispatchers, SaveState(d)
      PROVE  StoryTypeOK'
  <2>1. run[d] \in Deciding
    BY <1>9, RunsHold DEF SaveState
  <2>2. CASE /\ state' = [state EXCEPT ![run[d].story] = run[d].next]
             /\ Proceed(d, run[d].at, run[d].rows)
             /\ UNCHANGED <<dispatchVars, disturbed>>
    <3>1. state' \in [Stories -> StateRow]
      BY <2>1, <2>2 DEF Deciding
    <3>2. run' \in [Dispatchers -> RunState]
      BY <1>3, <2>1, <2>2 DEF Deciding
    <3> QED
      BY <1>9, <2>2, <3>1, <3>2 DEF SaveState
  <2>3. CASE Fault /\ ToList(d) /\ disturbed' = TRUE /\ UNCHANGED state
    BY <1>6, <1>9, <2>1, <2>3 DEF SaveState
  <2> QED
    BY <1>9, <2>2, <2>3 DEF SaveState
<1>10. ASSUME NEW d \in Dispatchers, NEW start \in 0..Horizon, BeginDigest(d, start)
       PROVE  StoryTypeOK'
  <2>1. ASSUME NEW items, items \subseteq DigestItems(start)
        PROVE  [step |-> "digest", kind |-> "digest",
                event |-> [type |-> "DIGEST", start |-> start, items |-> items]] \in RunState
    <3>1. \A s \in DOMAIN Rows(start, start + Window) :
            s \in Stories /\ story[s].sighting \in Sightings
      BY DEF Rows, Sighted
    <3>2. items \subseteq Item
      BY <2>1, <3>1 DEF DigestItems, Item
    <3>3. start \in Nat
      BY StoryAssumption
    <3> QED
      BY <3>2, <3>3 DEF RunState, Digesting, DigestEvent
  <2>2. {} \subseteq DigestItems(start) /\ BuildDigest(start) \subseteq DigestItems(start)
    BY DEF BuildDigest
  <2>3. run' \in [Dispatchers -> RunState]
    BY <1>0, <1>10, <2>1, <2>2 DEF BeginDigest, Kinds
  <2> QED
    BY <1>10, <2>3 DEF BeginDigest
<1>11. ASSUME NEW d \in Dispatchers, InsertDigest(d)
       PROVE  StoryTypeOK'
  <2>1. run[d] \in Digesting
    BY <1>11, RunsHold DEF InsertDigest
  <2>2. CASE Insert(run[d].event, "digest") /\ ToList(d)
    <3>1. run[d].event \in StoryEvent \cup DigestEvent \cup {NoEvent}
      BY <2>1 DEF Digesting
    <3> QED
      BY <1>6, <1>7, <1>11, <2>1, <2>2, <3>1 DEF InsertDigest
  <2>3. CASE Fault /\ run' = [run EXCEPT ![d] = Idle] /\ UNCHANGED event
    BY <1>0, <1>11, <2>3 DEF InsertDigest
  <2> QED
    BY <1>11, <2>2, <2>3 DEF InsertDigest
<1>12. ASSUME NEW d \in Dispatchers, ListPending(d)
       PROVE  StoryTypeOK'
  <2>1. [step |-> "dispatch"] \in RunState
    BY DEF RunState
  <2> QED
    BY <1>0, <1>12, <2>1 DEF ListPending
<1>13. ASSUME NEW d \in Dispatchers, Deliver(d)
       PROVE  StoryTypeOK'
  BY <1>0, <1>13 DEF Deliver
<1>14. ASSUME NEW d \in Dispatchers, Kill(d)
       PROVE  StoryTypeOK'
  BY <1>0, <1>14 DEF Kill
<1>15. CASE UNCHANGED vars
  BY <1>15 DEF vars
<1> QED
  BY <1>1, <1>2, <1>4, <1>5, <1>8, <1>9, <1>10, <1>11, <1>12, <1>13, <1>14, <1>15
  DEF Next, RunStep

-----------------------------------------------------------------------------
(* What the outbox says.                                                   *)

\* The events of the default mode are of stories, those of the digest mode digests.
EventsOfKind ==
  \A a \in Present :
    \/ alert[a].kind = "other" /\ event[a] \in StoryEvent
    \/ alert[a].kind = "digest" /\ event[a] \in DigestEvent

\* Rows are inserted in the order of their numbers.
InsertedInOrder == \A a \in Present, b \in Alerts : b < a => b \in Present

\* The event a run is about to insert.
Announces(d, types) ==
  /\ run[d].step = "insert"
  /\ run[d].event.type \in types /\ run[d].event.story = run[d].story

\* Something to be saved as told is in the outbox, or is the event to insert first.
WillBeTold(d, types) == Told(run[d].story, types) \/ Announces(d, types)

Saves(d) == run[d].step \in {"insert", "save"} =>
  /\ run[d].step = "insert" => run[d].event \in StoryEvent
  /\ run[d].next.verified => WillBeTold(d, {"VERIFIED"})
  /\ run[d].next.alerted # None => WillBeTold(d, {run[d].next.alerted, "VERIFIED"})

SavesWhatIsTold == \A d \in Dispatchers : Saves(d)

OutboxOK == OutboxInv /\ StoryTypeOK /\ EventsOfKind /\ InsertedInOrder

\* The fingerprint of a story's event gives its type and its story, that of a digest
\* its window.
LEMMA FingerprintsTell ==
  ASSUME NEW e \in StoryEvent \cup DigestEvent, NEW x \in StoryEvent \cup DigestEvent,
         Fingerprint(x) = Fingerprint(e)
  PROVE  /\ x.type = e.type
         /\ e \in StoryEvent => x \in StoryEvent /\ x.story = e.story
         /\ e \in DigestEvent => x \in DigestEvent /\ x.start = e.start
<1>1. Fingerprint(x)[1] = x.type /\ Fingerprint(e)[1] = e.type
  BY DEF Fingerprint
<1>2. x.type = e.type
  BY <1>1
<1>3. CASE e \in StoryEvent
  <2>1. e.type # "DIGEST" /\ e.type \notin {"DIGEST"}
    BY <1>3 DEF StoryEvent, Trend
  <2>2. x \in StoryEvent /\ e \notin DigestEvent
    BY <1>2, <2>1 DEF DigestEvent
  <2>3. Fingerprint(x)[2] = x.story /\ Fingerprint(e)[2] = e.story
    BY <1>2, <2>1 DEF Fingerprint
  <2> QED
    BY <1>2, <1>3, <2>2, <2>3
<1>4. CASE e \in DigestEvent
  <2>1. e.type = "DIGEST"
    BY <1>4 DEF DigestEvent
  <2>2. x \in DigestEvent /\ e \notin StoryEvent
    BY <1>2, <2>1 DEF StoryEvent, Trend
  <2>3. Fingerprint(x)[2] = x.start /\ Fingerprint(e)[2] = e.start
    BY <1>2, <2>1 DEF Fingerprint
  <2> QED
    BY <1>2, <1>4, <2>2, <2>3
<1> QED
  BY <1>3, <1>4

\* Delivering changes what events there are as little as listing does.
LEMMA DeliveryAddsNothing ==
  ASSUME OutboxInv, NEW d \in Dispatchers,
         Dispatch(d) \/ Cut(d) \/ (\E kind \in Kinds : List(d, kind))
  PROVE  Present' = Present
<1> USE DEF OutboxInv, DispatchTypeOK, ListedArePresent, Present
<1>1. listed[d] # NoList => Current(d) \in Present
  BY CurrentIsListed
<1>2. CASE MarkSent(d)
  <2>1. Current(d) \in Present
    BY <1>1, <1>2 DEF MarkSent, MarksBacked
  <2> QED
    BY <1>2, <2>1 DEF MarkSent, AlertRow
<1>3. CASE MarkFailed(d)
  <2>1. Current(d) \in Present
    BY <1>1, <1>3 DEF MarkFailed, MarksBacked
  <2> QED
    BY <1>3, <2>1 DEF MarkFailed, AlertRow
<1>4. CASE UNCHANGED alert
  BY <1>4
<1> QED
  BY <1>2, <1>3, <1>4 DEF Dispatch, Send, Cut, List

\* An insertion adds the event of the run at the end, or finds it there.
LEMMA InsertAdds ==
  ASSUME OutboxOK, NEW d \in Dispatchers, NEW kind \in Kinds,
         Insert(run[d].event, kind)
  PROVE  \/ /\ Known(run[d].event)
            /\ Present' = Present /\ event' = event
         \/ /\ ~Known(run[d].event)
            /\ \E a \in Alerts :
                 /\ a \notin Present /\ \A b \in Present : b < a
                 /\ \A b \in Alerts : b < a => b \in Present
                 /\ Present' = Present \cup {a}
                 /\ event' = [event EXCEPT ![a] = run[d].event]
                 /\ alert'[a].kind = kind
<1>1. CASE Known(run[d].event)
  BY <1>1 DEF Insert, dispatchVars, Present
<1>2. CASE ~Known(run[d].event)
  <2>1. PICK a \in Alerts : /\ Materialize(a, kind)
                            /\ event' = [event EXCEPT ![a] = run[d].event]
    BY <1>2 DEF Insert
  <2>2. a \notin Present /\ Present' = Present \cup {a} /\ alert'[a].kind = kind
    BY <2>1 DEF Materialize, Present, OutboxOK, OutboxInv, DispatchTypeOK
  <2>3. \A b \in Alerts : b < a => b \in Present
    BY <2>1 DEF Materialize, Present
  <2>4. \A b \in Present : b < a
    BY <2>2, AlertAssumption DEF OutboxOK, InsertedInOrder, Present
  <2> QED
    BY <1>2, <2>1, <2>2, <2>3, <2>4
<1> QED
  BY <1>1, <1>2

\* What a step adds to the outbox: nothing, or the event of a run that inserts.
Inserts(d, a) ==
  /\ \/ run[d].step = "insert" /\ InsertEvent(d) /\ alert'[a].kind = "other"
     \/ run[d].step = "digest" /\ InsertDigest(d) /\ alert'[a].kind = "digest"
  /\ ~Known(run[d].event)
  /\ a \notin Present /\ \A b \in Present : b < a
  /\ \A b \in Alerts : b < a => b \in Present
  /\ Present' = Present \cup {a}
  /\ event' = [event EXCEPT ![a] = run[d].event]

LEMMA StepsAdd ==
  ASSUME OutboxOK, [Next]_vars
  PROVE  \/ Present' = Present /\ event' = event
         \/ \E d \in Dispatchers, a \in Alerts : Inserts(d, a)
<1> USE DEF OutboxOK
<1>1. ASSUME NEW d \in Dispatchers, InsertEvent(d)
      PROVE  \/ Present' = Present /\ event' = event
             \/ \E a \in Alerts : Inserts(d, a)
  <2>1. CASE Insert(run[d].event, "other")
    BY <1>1, <2>1, InsertAdds DEF Kinds, InsertEvent, Inserts
  <2>2. CASE Fault /\ UNCHANGED event
    BY <2>2 DEF Fault, Present
  <2> QED
    BY <1>1, <2>1, <2>2 DEF InsertEvent
<1>2. ASSUME NEW d \in Dispatchers, InsertDigest(d)
      PROVE  \/ Present' = Present /\ event' = event
             \/ \E a \in Alerts : Inserts(d, a)
  <2>1. CASE Insert(run[d].event, "digest")
    BY <1>2, <2>1, InsertAdds DEF Kinds, InsertDigest, Inserts
  <2>2. CASE Fault /\ UNCHANGED event
    BY <2>2 DEF Fault, Present
  <2> QED
    BY <1>2, <2>1, <2>2 DEF InsertDigest
<1>3. ASSUME NEW d \in Dispatchers, ListPending(d)
      PROVE  Present' = Present /\ event' = event
  <2>1. run[d].kind \in Kinds
    BY <1>3, RunsHold DEF ListPending, Listing
  <2> QED
    BY <1>3, <2>1, DeliveryAddsNothing DEF ListPending, dispatchVars, Present
<1>4. ASSUME NEW d \in Dispatchers, Deliver(d)
      PROVE  Present' = Present /\ event' = event
  BY <1>4, DeliveryAddsNothing DEF Deliver
<1>5. ASSUME NEW d \in Dispatchers, Kill(d)
      PROVE  Present' = Present /\ event' = event
  BY <1>5, DeliveryAddsNothing DEF Kill, Fault, Present
<1>6. CASE UNCHANGED <<alert, event>>
  BY <1>6 DEF Present
<1> QED
  BY <1>1, <1>2, <1>3, <1>4, <1>5, <1>6
  DEF Next, RunStep, Tick, See, BeginStories, BeginDigest, NextStory, SaveState, Fault,
      vars, dispatchVars

\* The outbox keeps its order and its kinds.
LEMMA OutboxOKSteps ==
  ASSUME OutboxOK, SavesWhatIsTold, [Next]_vars
  PROVE  OutboxOK'
<1> USE DEF OutboxOK
<1>1. OutboxInv' /\ StoryTypeOK'
  BY StepsOfOutbox, OutboxSteps, StoryTyping
<1>2. \A a \in Present : a \in Present' /\ alert'[a].kind = alert[a].kind
  BY RowsStay, StepsOfOutbox DEF OutboxInv
<1>3. CASE Present' = Present /\ event' = event
  BY <1>1, <1>2, <1>3 DEF EventsOfKind, InsertedInOrder
<1>4. ASSUME NEW d \in Dispatchers, NEW a \in Alerts, Inserts(d, a)
      PROVE  EventsOfKind' /\ InsertedInOrder'
  <2>1. \/ alert'[a].kind = "other" /\ run[d].event \in StoryEvent
        \/ alert'[a].kind = "digest" /\ run[d].event \in DigestEvent
    BY <1>4, RunsHold DEF Inserts, SavesWhatIsTold, Saves, Digesting
  <2>2. event'[a] = run[d].event /\ \A b \in Present : event'[b] = event[b]
    BY <1>4 DEF Inserts, StoryTypeOK, Present
  <2>3. EventsOfKind'
    BY <1>2, <1>4, <2>1, <2>2 DEF Inserts, EventsOfKind
  <2>4. InsertedInOrder'
    BY <1>4 DEF Inserts, InsertedInOrder
  <2> QED
    BY <2>3, <2>4
<1> QED
  BY <1>1, <1>3, <1>4, StepsAdd

\* What was told stays told.
LEMMA ToldStays ==
  ASSUME OutboxOK, [Next]_vars, NEW s, NEW types, Told(s, types)
  PROVE  Told(s, types)'
<1>1. PICK b \in Present : event[b].type \in types /\ event[b].story = s
  BY DEF Told
<1>2. b \in Present' /\ event'[b] = event[b]
  <2>1. CASE Present' = Present /\ event' = event
    BY <2>1
  <2>2. ASSUME NEW d \in Dispatchers, NEW a \in Alerts, Inserts(d, a)
        PROVE  b \in Present' /\ event'[b] = event[b]
    BY <2>2 DEF Inserts, OutboxOK, StoryTypeOK, Present
  <2> QED
    BY <2>1, <2>2, StepsAdd
<1> QED
  BY <1>1, <1>2 DEF Told

\* What a run tells is told when its insertion succeeds.
LEMMA InsertTells ==
  ASSUME OutboxOK, NEW d \in Dispatchers, run[d].event \in StoryEvent,
         Insert(run[d].event, "other"),
         NEW s, NEW types, run[d].story = s, Announces(d, types)
  PROVE  Told(s, types)'
<1>0. run[d].event.type \in types /\ run[d].event.story = s
  BY DEF Announces
<1>1. CASE Known(run[d].event) /\ Present' = Present /\ event' = event
  <2>1. PICK b \in Present : Fingerprint(event[b]) = Fingerprint(run[d].event)
    BY <1>1 DEF Known
  <2>2. event[b] \in StoryEvent \cup DigestEvent
    BY DEF OutboxOK, EventsOfKind
  <2>3. event[b].type = run[d].event.type /\ event[b].story = run[d].event.story
    BY <2>1, <2>2, FingerprintsTell
  <2> QED
    BY <1>0, <1>1, <2>3 DEF Told
<1>2. ASSUME NEW a \in Alerts, Present' = Present \cup {a},
             event' = [event EXCEPT ![a] = run[d].event]
      PROVE  Told(s, types)'
  <2>1. event'[a] = run[d].event /\ a \in Present'
    BY <1>2 DEF OutboxOK, StoryTypeOK
  <2> QED
    BY <1>0, <2>1 DEF Told
<1> QED
  BY <1>1, <1>2, InsertAdds DEF Kinds

\* A run that makes no step of its own saves what is told still.
LEMMA OthersSave ==
  ASSUME OutboxOK, [Next]_vars, NEW d \in Dispatchers, Saves(d), run'[d] = run[d]
  PROVE  Saves(d)'
<1>1. ASSUME NEW types, WillBeTold(d, types)
      PROVE  WillBeTold(d, types)'
  <2>1. CASE Told(run[d].story, types)
    <3>1. PICK s : s = run[d].story
      OBVIOUS
    <3>2. Told(s, types)'
      BY <2>1, <3>1, ToldStays
    <3> QED
      BY <3>1, <3>2 DEF WillBeTold
  <2>2. CASE Announces(d, types)
    BY <2>2 DEF Announces, WillBeTold
  <2> QED
    BY <1>1, <2>1, <2>2 DEF WillBeTold
<1>2. PICK types : types = {run[d].next.alerted, "VERIFIED"}
  OBVIOUS
<1>3. run[d].next.verified /\ WillBeTold(d, {"VERIFIED"}) => WillBeTold(d, {"VERIFIED"})'
  BY <1>1
<1>4. WillBeTold(d, types) => WillBeTold(d, types)'
  BY <1>1
<1> QED
  BY <1>2, <1>3, <1>4 DEF Saves

\* A verification or a rise of a story that is to be saved was told before, or is
\* what the run goes on to tell.
LEMMA DecidedSaves ==
  ASSUME StoryTypeOK, AlertedWasTold, NEW d \in Dispatchers, NextStory(d)
  PROVE  Saves(d)'
<1>1. PICK s \in DOMAIN run[d].rows : run' = [run EXCEPT ![d] = Decided(run[d], s)]
  BY DEF NextStory
<1>2. run[d] \in Reading
  BY RunsHold DEF NextStory
<1>3. PICK S \in SUBSET Stories : run[d].rows \in [S -> Sighted]
  BY <1>2 DEF Reading, RowSets
<1>4. s \in Stories /\ run[d].rows[s] \in Sighted /\ run[d].at \in Nat /\ state[s] \in StateRow
  BY <1>1, <1>2, <1>3 DEF Reading, StoryTypeOK
<1> DEFINE row == run[d].rows[s]
           at == run[d].at
           decision == Evaluate(state[s], s, row, at)
           new == decision.event
           next == decision.next
<1>5. /\ run'[d].story = s /\ run'[d].event = new /\ run'[d].next = next
      /\ run'[d].step = IF new = NoEvent THEN "save" ELSE "insert"
  BY <1>1 DEF StoryTypeOK, Decided
<1>6. new # NoEvent => new \in StoryEvent /\ new.story = s
  <2>1. new \in StoryEvent \cup {NoEvent}
    BY <1>4, EvaluatedIsTyped
  <2> QED
    BY <2>1 DEF Evaluate, EventFor
<1>7. next.verified => state[s].verified \/ (new # NoEvent /\ new.type = "VERIFIED")
  BY <1>4 DEF Evaluate, EventFor, NoEvent, None
<1>8. next.alerted # None =>
        \/ next.alerted = state[s].alerted
        \/ new # NoEvent /\ new.type \in {next.alerted, "VERIFIED"}
  BY <1>4 DEF Evaluate, EventFor, NoEvent, None
<1>9. PICK types : types = {next.alerted, "VERIFIED"}
  OBVIOUS
<1> HIDE DEF new, next
<1>10. Present' = Present /\ event' = event
  BY DEF NextStory, dispatchVars, Present
<1>11. /\ state[s].verified => Told(s, {"VERIFIED"})'
       /\ next.alerted # None /\ next.alerted = state[s].alerted => Told(s, types)'
  BY <1>4, <1>9, <1>10 DEF AlertedWasTold, Told
<1>12. ASSUME NEW kinds, new # NoEvent, new.type \in kinds
       PROVE  Announces(d, kinds)'
  BY <1>5, <1>6, <1>12 DEF Announces
<1>13. next.verified => WillBeTold(d, {"VERIFIED"})'
  BY <1>5, <1>7, <1>11, <1>12 DEF WillBeTold
<1>14. next.alerted # None => WillBeTold(d, types)'
  BY <1>5, <1>8, <1>9, <1>11, <1>12 DEF WillBeTold
<1> QED
  BY <1>5, <1>6, <1>9, <1>13, <1>14 DEF Saves

\* Whatever a run does, it saves only what is told by then.
LEMMA SavingSteps ==
  ASSUME OutboxOK, SavesWhatIsTold, AlertedWasTold, [Next]_vars
  PROVE  SavesWhatIsTold'
<1> USE DEF OutboxOK
<1>1. ASSUME NEW d \in Dispatchers, \A e \in Dispatchers \ {d} : run'[e] = run[e], Saves(d)'
      PROVE  SavesWhatIsTold'
  BY <1>1, OthersSave DEF SavesWhatIsTold
<1>2. ASSUME NEW d \in Dispatchers, \A e \in Dispatchers \ {d} : run'[e] = run[e],
             run'[d].step \notin {"insert", "save"}
      PROVE  SavesWhatIsTold'
  BY <1>1, <1>2 DEF Saves
<1>3. CASE UNCHANGED run
  BY <1>3, OthersSave DEF SavesWhatIsTold
<1>4. ASSUME NEW d \in Dispatchers, NextStory(d)
      PROVE  SavesWhatIsTold'
  BY <1>1, <1>4, DecidedSaves DEF NextStory, StoryTypeOK
<1>5. ASSUME NEW d \in Dispatchers, InsertEvent(d)
      PROVE  SavesWhatIsTold'
  <2>1. CASE Fault /\ ToList(d) /\ disturbed' = TRUE /\ UNCHANGED event
    BY <1>2, <2>1 DEF ToList, StoryTypeOK
  <2>2. CASE Insert(run[d].event, "other") /\ Goes(d, "save") /\ UNCHANGED disturbed
    <3>1. /\ run'[d] = [run[d] EXCEPT !.step = "save"]
          /\ \A e \in Dispatchers \ {d} : run'[e] = run[e]
      BY <2>2 DEF Goes, StoryTypeOK
    <3>2. run[d] \in Deciding /\ run[d].step = "insert" /\ Saves(d)
      BY <1>5, RunsHold DEF InsertEvent, SavesWhatIsTold
    <3>3. /\ run'[d].story = run[d].story /\ run'[d].next = run[d].next
          /\ run'[d].step = "save"
      BY <3>1, <3>2 DEF Deciding
    <3>4. PICK s : s = run[d].story
      OBVIOUS
    <3>5. PICK types : types = {run[d].next.alerted, "VERIFIED"}
      OBVIOUS
    <3>6. ASSUME NEW kinds, WillBeTold(d, kinds)
          PROVE  Told(s, kinds)'
      BY <2>2, <3>2, <3>4, <3>6, ToldStays, InsertTells DEF WillBeTold, Saves
    <3>7. run[d].next.verified => Told(s, {"VERIFIED"})'
      BY <3>2, <3>6 DEF Saves
    <3>8. run[d].next.alerted # None => Told(s, types)'
      BY <3>2, <3>5, <3>6 DEF Saves
    <3>9. Saves(d)'
      BY <3>3, <3>4, <3>5, <3>7, <3>8 DEF Saves, WillBeTold
    <3> QED
      BY <1>1, <3>1, <3>9
  <2> QED
    BY <1>5, <2>1, <2>2 DEF InsertEvent
<1>6. ASSUME NEW d \in Dispatchers, SaveState(d)
      PROVE  SavesWhatIsTold'
  BY <1>2, <1>6 DEF SaveState, Proceed, ToList, StoryTypeOK
<1>7. ASSUME NEW d \in Dispatchers, BeginStories(d)
      PROVE  SavesWhatIsTold'
  BY <1>2, <1>7 DEF BeginStories, Proceed, StoryTypeOK
<1>8. ASSUME NEW d \in Dispatchers, NEW start \in 0..Horizon, BeginDigest(d, start)
      PROVE  SavesWhatIsTold'
  BY <1>2, <1>8 DEF BeginDigest, StoryTypeOK
<1>9. ASSUME NEW d \in Dispatchers, InsertDigest(d) \/ ListPending(d) \/ Deliver(d) \/ Kill(d)
      PROVE  SavesWhatIsTold'
  BY <1>2, <1>3, <1>9
  DEF InsertDigest, ListPending, Deliver, Kill, ToList, StoryTypeOK, Idle
<1> QED
  BY <1>3, <1>4, <1>5, <1>6, <1>7, <1>8, <1>9 DEF Next, RunStep, Tick, See, vars

\* What the state of one story says was told.
WasTold(s) ==
  /\ state[s].verified => Told(s, {"VERIFIED"})
  /\ state[s].alerted # None => Told(s, {state[s].alerted, "VERIFIED"})

\* What the state says was told stays true: it is changed only by saving.
LEMMA TellingSteps ==
  ASSUME OutboxOK, SavesWhatIsTold, AlertedWasTold, [Next]_vars
  PROVE  AlertedWasTold'
<1> USE DEF OutboxOK
<1>0. \A s \in Stories : WasTold(s)
  BY DEF AlertedWasTold, WasTold
<1>1. ASSUME NEW s \in Stories, state'[s] = state[s]
      PROVE  WasTold(s)'
  <2>1. PICK types : types = {state[s].alerted, "VERIFIED"}
    OBVIOUS
  <2>2. state[s].alerted # None => Told(s, types)'
    BY <1>0, <2>1, ToldStays DEF WasTold
  <2>3. state[s].verified => Told(s, {"VERIFIED"})'
    BY <1>0, ToldStays DEF WasTold
  <2> QED
    BY <1>1, <2>1, <2>2, <2>3 DEF WasTold
<1>2. CASE UNCHANGED state
  <2>1. \A s \in Stories : WasTold(s)'
    BY <1>1, <1>2
  <2> QED
    BY <2>1 DEF AlertedWasTold, WasTold
<1>3. ASSUME NEW d \in Dispatchers, SaveState(d), state' # state
      PROVE  AlertedWasTold'
  <2>1. /\ state' = [state EXCEPT ![run[d].story] = run[d].next]
        /\ Present' = Present /\ event' = event
    BY <1>3 DEF SaveState, dispatchVars, Present
  <2>2. run[d] \in Deciding /\ run[d].step = "save" /\ Saves(d)
    BY <1>3, RunsHold DEF SaveState, SavesWhatIsTold
  <2>3. PICK s \in Stories : s = run[d].story
    BY <2>2 DEF Deciding
  <2>4. state'[s] = run[d].next /\ \A q \in Stories \ {s} : state'[q] = state[q]
    BY <2>1, <2>3 DEF StoryTypeOK
  <2>5. WasTold(s)'
    BY <2>1, <2>2, <2>3, <2>4 DEF Saves, WillBeTold, Announces, Told, WasTold
  <2>6. \A q \in Stories \ {s} : WasTold(q)'
    BY <1>1, <2>4
  <2>7. \A q \in Stories : WasTold(q)'
    BY <2>5, <2>6
  <2> QED
    BY <2>7 DEF AlertedWasTold, WasTold
<1> QED
  BY <1>2, <1>3
  DEF Next, RunStep, Tick, See, BeginStories, BeginDigest, NextStory, InsertEvent,
      SaveState, InsertDigest, ListPending, Deliver, Kill, vars

LEMMA StoriesStart == Init => OutboxOK /\ SavesWhatIsTold /\ AlertedWasTold
<1> SUFFICES ASSUME Init PROVE OutboxOK /\ SavesWhatIsTold /\ AlertedWasTold
  OBVIOUS
<1>1. OutboxInv /\ Present = {}
  BY OutboxStarts DEF Init, DispatchInit, Present
<1>2. StoryTypeOK
  BY DEF Init, StoryTypeOK, DefaultState, StateRow, RunState
<1>3. SavesWhatIsTold /\ AlertedWasTold
  BY DEF Init, SavesWhatIsTold, Saves, Idle, AlertedWasTold, DefaultState
<1> QED
  BY <1>1, <1>2, <1>3 DEF OutboxOK, EventsOfKind, InsertedInOrder

StoriesInv == OutboxOK /\ SavesWhatIsTold /\ AlertedWasTold

LEMMA StoriesHold == Spec => []StoriesInv
<1>1. StoriesInv /\ [Next]_vars => StoriesInv'
  BY OutboxOKSteps, SavingSteps, TellingSteps DEF StoriesInv
<1> QED
  BY <1>1, StoriesStart, PTL DEF Spec, StoriesInv

\* Of the runs that fill the outbox too: an event is SENT only after Telegram has
\* taken its message.
THEOREM AlertsDeliver == Spec => []SentWasDelivered
<1>1. StoriesInv => SentWasDelivered
  BY DEF StoriesInv, OutboxOK, OutboxInv
<1> QED
  BY <1>1, StoriesHold, PTL

\* Whatever runs overlap, fail or are killed between reading a story's state,
\* inserting its event and saving: what the state says was told is in the outbox.
THEOREM AlertsAreTold == Spec => []AlertedWasTold
<1>1. StoriesInv => AlertedWasTold
  BY DEF StoriesInv
<1> QED
  BY <1>1, StoriesHold, PTL

-----------------------------------------------------------------------------
(* Trend alerts, as long as no run that fills the outbox fails or meets    *)
(* another.                                                                *)

Filling(d) == run[d].step \in {"story", "insert", "save"}

OneFills == \A d, e \in Dispatchers : Filling(d) /\ Filling(e) => d = e

TimesPass ==
  /\ \A s \in Stories : state[s].alertedAt <= now
  /\ \A d \in Dispatchers : Filling(d) => run[d].at <= now

\* A run judges later than what it reads was saved; it saves no earlier time than it
\* read, and a trend alert it inserts is a cooldown after the one it read of.
Ahead(d) ==
  /\ Filling(d) => \A s \in Stories : state[s].alertedAt <= run[d].at
  /\ run[d].step \in {"insert", "save"} =>
       /\ state[run[d].story].alertedAt <= run[d].next.alertedAt
       /\ run[d].next.alertedAt <= run[d].at
  /\ run[d].step = "insert" /\ run[d].event.type \in Trend =>
       /\ run[d].event.story = run[d].story
       /\ run[d].event.at = run[d].next.alertedAt
       /\ ~WithinCooldown(state[run[d].story], run[d].event.at)

Trends == {a \in Present : event[a].type \in Trend}

\* The state of a story is as late as its trend alerts, or is about to be.
Covered ==
  \A a \in Trends :
    \/ event[a].at <= state[event[a].story].alertedAt
    \/ \E d \in Dispatchers : /\ run[d].step = "save" /\ run[d].story = event[a].story
                              /\ event[a].at <= run[d].next.alertedAt

Spaced ==
  \A a, b \in Trends :
    a < b /\ event[a].story = event[b].story => event[b].at - event[a].at >= Cooldown

Undisturbed == OneFills /\ TimesPass /\ (\A d \in Dispatchers : Ahead(d)) /\ Covered /\ Spaced

LEMMA TrendEventsAreTyped ==
  ASSUME StoryTypeOK, NEW a \in Trends
  PROVE  a \in Alerts /\ event[a] \in StoryEvent
BY DEF StoryTypeOK, Trends, Present, Trend, DigestEvent, NoEvent, None

\* Only the insertion of a run of the default mode adds a trend alert.
LEMMA TrendsStay ==
  ASSUME OutboxOK,
         \/ UNCHANGED <<alert, event>>
         \/ \E d \in Dispatchers : InsertDigest(d) \/ ListPending(d) \/ Deliver(d) \/ Kill(d)
  PROVE  Trends' = Trends /\ \A a \in Trends : event'[a] = event[a]
<1> USE DEF OutboxOK
<1>1. ASSUME Present' = Present, event' = event
      PROVE  Trends' = Trends /\ \A a \in Trends : event'[a] = event[a]
  BY <1>1 DEF Trends
<1>2. CASE UNCHANGED <<alert, event>>
  BY <1>1, <1>2 DEF Present
<1>3. ASSUME NEW d \in Dispatchers, InsertDigest(d)
      PROVE  Trends' = Trends /\ \A a \in Trends : event'[a] = event[a]
  <2>1. CASE Fault /\ UNCHANGED event
    BY <1>2, <2>1 DEF Fault
  <2>2. CASE Insert(run[d].event, "digest")
    <3>1. run[d].event.type = "DIGEST"
      BY <1>3, RunsHold DEF InsertDigest, Digesting, DigestEvent
    <3>2. ASSUME NEW a \in Alerts, a \notin Present, Present' = Present \cup {a},
                 event' = [event EXCEPT ![a] = run[d].event]
          PROVE  Trends' = Trends /\ \A b \in Trends : event'[b] = event[b]
      <4>1. event'[a].type \notin Trend
        BY <3>1, <3>2 DEF StoryTypeOK, Trend
      <4>2. \A b \in Present : event'[b] = event[b]
        BY <3>2 DEF StoryTypeOK, Present
      <4> QED
        BY <3>2, <4>1, <4>2 DEF Trends
    <3> QED
      BY <1>1, <2>2, <3>2, InsertAdds DEF Kinds
  <2> QED
    BY <1>3, <2>1, <2>2 DEF InsertDigest
<1>4. ASSUME NEW d \in Dispatchers, ListPending(d)
      PROVE  Present' = Present /\ event' = event
  <2>1. run[d].kind \in Kinds
    BY <1>4, RunsHold DEF ListPending, Listing
  <2> QED
    BY <1>4, <2>1, DeliveryAddsNothing DEF ListPending, dispatchVars, Present
<1>5. ASSUME NEW d \in Dispatchers, Deliver(d)
      PROVE  Present' = Present /\ event' = event
  BY <1>5, DeliveryAddsNothing DEF Deliver
<1>6. ASSUME NEW d \in Dispatchers, Kill(d)
      PROVE  Present' = Present /\ event' = event
  BY <1>6, DeliveryAddsNothing DEF Kill, Fault, Present
<1> QED
  BY <1>1, <1>2, <1>3, <1>4, <1>5, <1>6

\* A step disturbs nothing when it saves nothing, adds no trend alert, and the run
\* that makes it was not saving and does not fill.
LEMMA StaysUndisturbed ==
  ASSUME StoryTypeOK, Undisturbed, state' = state, now' \in Nat, now <= now',
         Trends' = Trends /\ \A a \in Trends : event'[a] = event[a],
         \A e \in Dispatchers :
           run'[e] = run[e] \/ (run[e].step # "save" /\ ~Filling(e)')
  PROVE  Undisturbed'
<1>1. \A e \in Dispatchers : Filling(e)' => run'[e] = run[e] /\ Filling(e)
  BY DEF Filling
<1>2. OneFills'
  BY <1>1 DEF Undisturbed, OneFills
<1>3. TimesPass'
  <2>1. \A s \in Stories : state[s].alertedAt \in Int /\ state[s].alertedAt <= now
    BY DEF StoryTypeOK, StateRow, Never, Undisturbed, TimesPass
  <2>2. ASSUME NEW d \in Dispatchers, Filling(d)'
        PROVE  run'[d].at <= now'
    <3>1. run'[d] = run[d] /\ run[d].at <= now
      BY <1>1, <2>2 DEF Undisturbed, TimesPass
    <3>2. run[d].at \in Nat
      BY <1>1, <2>2, RunsHold DEF Filling, Reading, Deciding
    <3> QED
      BY <3>1, <3>2 DEF StoryTypeOK
  <2> QED
    BY <2>1, <2>2 DEF TimesPass, StoryTypeOK
<1>4. ASSUME NEW d \in Dispatchers
      PROVE  Ahead(d)'
  <2>1. CASE run'[d] = run[d]
    BY <2>1 DEF Undisturbed, Ahead, Filling, WithinCooldown
  <2>2. CASE ~Filling(d)'
    BY <2>2 DEF Ahead, Filling
  <2> QED
    BY <1>1, <2>1, <2>2
<1>5. Covered'
  BY DEF Undisturbed, Covered
<1>6. Spaced'
  BY DEF Undisturbed, Spaced
<1> QED
  BY <1>2, <1>3, <1>4, <1>5, <1>6 DEF Undisturbed

\* The decision of a run that fills alone is a cooldown after what its story's state
\* says, when it is a trend alert.
LEMMA DecidedAhead ==
  ASSUME StoryTypeOK, Undisturbed, NEW d \in Dispatchers, NextStory(d)
  PROVE  Ahead(d)'
<1>1. PICK s \in DOMAIN run[d].rows : run' = [run EXCEPT ![d] = Decided(run[d], s)]
  BY DEF NextStory
<1>2. run[d] \in Reading /\ Filling(d)
  BY RunsHold DEF NextStory, Filling
<1>3. PICK S \in SUBSET Stories : run[d].rows \in [S -> Sighted]
  BY <1>2 DEF Reading, RowSets
<1>4. s \in Stories /\ run[d].rows[s] \in Sighted /\ run[d].at \in Nat /\ state[s] \in StateRow
  BY <1>1, <1>2, <1>3 DEF Reading, StoryTypeOK
<1> DEFINE row == run[d].rows[s]
           at == run[d].at
           decision == Evaluate(state[s], s, row, at)
           new == decision.event
           next == decision.next
<1>5. /\ run'[d].story = s /\ run'[d].event = new /\ run'[d].next = next
      /\ run'[d].at = at /\ state' = state
      /\ run'[d].step = IF new = NoEvent THEN "save" ELSE "insert"
  BY <1>1 DEF StoryTypeOK, Decided, NextStory
<1>6. \A q \in Stories : state[q].alertedAt <= at
  BY <1>2 DEF Undisturbed, Ahead
<1>7. state[s].alertedAt \in Nat \cup {-1} /\ Cooldown \in Nat
  BY <1>4, StoryAssumption DEF StateRow, Never
<1>8. next.alertedAt \in {at, state[s].alertedAt}
  BY DEF Evaluate
<1>9. ASSUME new # NoEvent, new.type \in Trend
      PROVE  /\ new.story = s /\ new.at = next.alertedAt
             /\ ~WithinCooldown(state[s], new.at)
  BY <1>9 DEF Evaluate, EventFor, Trend
<1> HIDE DEF new, next
<1>10. state[s].alertedAt <= next.alertedAt /\ next.alertedAt <= at
  BY <1>4, <1>6, <1>7, <1>8
<1> QED
  BY <1>5, <1>6, <1>9, <1>10 DEF Ahead, WithinCooldown

\* A trend alert that is inserted follows those of its story by a cooldown.
LEMMA InsertedAhead ==
  ASSUME OutboxOK, Undisturbed, NEW d \in Dispatchers, InsertEvent(d),
         Insert(run[d].event, "other"), Goes(d, "save"), run[d].event \in StoryEvent
  PROVE  Covered' /\ Spaced'
<1> USE DEF OutboxOK
<1>1. /\ run[d] \in Deciding /\ run[d].step = "insert" /\ Filling(d) /\ Ahead(d)
      /\ \A e \in Dispatchers : Filling(e) => e = d
  BY RunsHold DEF InsertEvent, Filling, Undisturbed, OneFills
<1>2. /\ state' = state /\ run'[d] = [run[d] EXCEPT !.step = "save"]
      /\ \A e \in Dispatchers \ {d} : run'[e] = run[e]
  BY DEF InsertEvent, Goes, StoryTypeOK
<1>3. /\ run'[d].story = run[d].story /\ run'[d].next = run[d].next
      /\ run'[d].step = "save"
  BY <1>1, <1>2 DEF Deciding
<1>4. \A a \in Trends : event[a].at <= state[event[a].story].alertedAt
  BY <1>1 DEF Undisturbed, Covered, Filling
<1>5. CASE Present' = Present /\ event' = event
  <2>1. Trends' = Trends
    BY <1>5 DEF Trends
  <2> QED
    BY <1>2, <1>4, <1>5, <2>1 DEF Covered, Spaced, Undisturbed
<1>6. ASSUME NEW a \in Alerts, a \notin Present, \A b \in Present : b < a,
             Present' = Present \cup {a}, event' = [event EXCEPT ![a] = run[d].event]
      PROVE  Covered' /\ Spaced'
  <2>1. event'[a] = run[d].event /\ \A b \in Present : event'[b] = event[b]
    BY <1>6 DEF StoryTypeOK, Present
  <2>2. \A b \in Trends' : b \in Trends \/ (b = a /\ run[d].event.type \in Trend)
    BY <1>6, <2>1 DEF Trends
  <2>3. \A b \in Trends : event'[b] = event[b] /\ b \in Present
    BY <2>1 DEF Trends
  <2>4. Covered'
    <3> SUFFICES ASSUME NEW b \in Trends'
                 PROVE  \/ event'[b].at <= state'[event'[b].story].alertedAt
                        \/ /\ event'[b].story = run'[d].story
                           /\ event'[b].at <= run'[d].next.alertedAt
      BY <1>3 DEF Covered
    <3>1. CASE b \in Trends
      BY <1>2, <1>4, <2>3, <3>1
    <3>2. CASE b = a /\ run[d].event.type \in Trend
      <4>1. event'[b].story = run[d].story /\ event'[b].at = run[d].next.alertedAt
        BY <1>1, <2>1, <3>2 DEF Ahead
      <4>2. event'[b].at \in Nat
        BY <2>1, <3>2 DEF StoryEvent
      <4> QED
        BY <1>3, <4>1, <4>2
    <3> QED
      BY <2>2, <3>1, <3>2
  <2>5. ASSUME NEW b \in Trends, run[d].event.type \in Trend, event[b].story = run[d].event.story
        PROVE  run[d].event.at - event[b].at >= Cooldown
    <3>1. event[b].at <= state[run[d].story].alertedAt
      BY <1>1, <1>4, <2>5 DEF Ahead
    <3>2. /\ event[b].at \in Nat /\ run[d].event.at \in Nat /\ Cooldown \in Nat
          /\ state[run[d].story].alertedAt \in Nat \cup {-1}
      BY <1>1, TrendEventsAreTyped, StoryAssumption
      DEF StoryEvent, Deciding, StoryTypeOK, StateRow, Never
    <3>3. ~WithinCooldown(state[run[d].story], run[d].event.at)
      BY <1>1, <2>5 DEF Ahead
    <3> QED
      BY <3>1, <3>2, <3>3 DEF WithinCooldown, Never
  <2>6. ASSUME NEW b \in Trends', NEW c \in Trends', b < c, event'[b].story = event'[c].story
        PROVE  event'[c].at - event'[b].at >= Cooldown
    <3>1. b # a
      BY <1>6, <2>2, <2>6, AlertAssumption DEF Trends, Present
    <3>2. b \in Trends
      BY <2>2, <3>1
    <3>3. CASE c \in Trends
      BY <2>3, <2>6, <3>2, <3>3 DEF Undisturbed, Spaced
    <3>4. CASE c = a /\ run[d].event.type \in Trend
      BY <2>1, <2>3, <2>5, <2>6, <3>2, <3>4
    <3> QED
      BY <2>2, <3>3, <3>4
  <2>7. Spaced'
    BY <2>6 DEF Spaced
  <2> QED
    BY <2>4, <2>7
<1> QED
  BY <1>5, <1>6, InsertAdds DEF Kinds

LEMMA SpacingSteps ==
  ASSUME OutboxOK, SavesWhatIsTold, Undisturbed, [Next]_vars, ~disturbed'
  PROVE  Undisturbed'
<1> USE DEF OutboxOK
<1> DEFINE NoTrend == Trends' = Trends /\ \A a \in Trends : event'[a] = event[a]
<1>0. now \in Nat /\ now' \in Nat
  BY StoryTyping DEF StoryTypeOK
<1>1. ASSUME UNCHANGED <<state, run>>, now <= now', NoTrend
      PROVE  Undisturbed'
  BY <1>0, <1>1, StaysUndisturbed
<1>2. ASSUME NEW d \in Dispatchers, UNCHANGED <<state, now>>, run[d].step # "save",
             ~Filling(d)', \A e \in Dispatchers \ {d} : run'[e] = run[e], NoTrend
      PROVE  Undisturbed'
  BY <1>0, <1>2, StaysUndisturbed
<1> HIDE DEF NoTrend
<1>3. CASE Tick
  <2>1. NoTrend /\ now <= now' /\ UNCHANGED <<state, run>>
    BY <1>0, <1>3, TrendsStay DEF NoTrend, Tick, dispatchVars
  <2> QED
    BY <1>1, <2>1
<1>4. ASSUME NEW s \in Stories, NEW sighting \in Sightings, See(s, sighting)
      PROVE  Undisturbed'
  <2>1. NoTrend /\ now <= now' /\ UNCHANGED <<state, run>>
    BY <1>0, <1>4, TrendsStay DEF NoTrend, See, dispatchVars
  <2> QED
    BY <1>1, <2>1
<1>5. ASSUME NEW d \in Dispatchers, BeginStories(d)
      PROVE  Undisturbed'
  <2>1. NoTrend /\ UNCHANGED <<state, now, event>> /\ Trends' = Trends
    BY <1>5, TrendsStay DEF NoTrend, BeginStories, dispatchVars
  <2>2. run[d].step = "idle" /\ \A e \in Dispatchers \ {d} : run'[e] = run[e]
    BY <1>5 DEF BeginStories, Proceed, Idle
  <2>3. CASE run'[d].step = "list"
    <3>1. ~Filling(d)' /\ run[d].step # "save"
      BY <2>2, <2>3 DEF Filling
    <3> QED
      BY <1>2, <2>1, <2>2, <3>1
  <2>4. CASE run'[d].step # "list"
    <3>1. run'[d].step = "story" /\ run'[d].at = now
      BY <1>5, <2>4 DEF BeginStories, Proceed, StoryTypeOK
    <3>2. ASSUME NEW e \in Dispatchers \ {d}
          PROVE  ~Filling(e) /\ ~Filling(e)'
      <4>1. ~Another(d, "other")
        BY <1>5 DEF BeginStories, StoryTypeOK
      <4>2. Filling(e) => Materializing(e) /\ run[e].kind = "other"
        BY RunsHold DEF Filling, Materializing, Reading, Deciding
      <4> QED
        BY <2>2, <4>1, <4>2 DEF Another, Filling
    <3>3. OneFills'
      BY <3>2 DEF OneFills
    <3>4. TimesPass'
      BY <1>0, <2>1, <3>1, <3>2 DEF TimesPass, Undisturbed
    <3>5. \A e \in Dispatchers : Ahead(e)'
      <4>1. Ahead(d)'
        BY <2>1, <3>1 DEF Ahead, Undisturbed, TimesPass
      <4>2. \A e \in Dispatchers \ {d} : Ahead(e)'
        BY <3>2 DEF Ahead, Filling
      <4> QED
        BY <4>1, <4>2
    <3>6. \A a \in Trends : event[a].at <= state[event[a].story].alertedAt
      BY <2>2, <3>2 DEF Undisturbed, Covered, Filling
    <3>7. Covered' /\ Spaced'
      BY <2>1, <3>6 DEF Undisturbed, Covered, Spaced
    <3> QED
      BY <3>3, <3>4, <3>5, <3>7 DEF Undisturbed
  <2> QED
    BY <2>3, <2>4
<1>6. ASSUME NEW d \in Dispatchers, Filling(d), \A e \in Dispatchers \ {d} : run'[e] = run[e],
             UNCHANGED now, Filling(d)' => run'[d].at = run[d].at, Ahead(d)',
             \A s \in Stories : state'[s].alertedAt <= state[s].alertedAt
                                  \/ state'[s].alertedAt <= run[d].at
      PROVE  OneFills' /\ TimesPass' /\ \A e \in Dispatchers : Ahead(e)'
  <2>1. \A e \in Dispatchers \ {d} : ~Filling(e) /\ ~Filling(e)'
    BY <1>6 DEF Undisturbed, OneFills, Filling
  <2>2. OneFills'
    BY <2>1 DEF OneFills
  <2>3. TimesPass'
    <3>1. run[d].at \in Nat /\ run[d].at <= now
      BY <1>6, RunsHold DEF Filling, Undisturbed, TimesPass, Reading, Deciding
    <3>2. \A s \in Stories : /\ state[s].alertedAt \in Int /\ state'[s].alertedAt \in Int
                             /\ state[s].alertedAt <= now
      BY StoryTyping DEF StoryTypeOK, StateRow, Never, Undisturbed, TimesPass
    <3>3. \A s \in Stories : state'[s].alertedAt <= now'
      BY <1>0, <1>6, <3>1, <3>2
    <3> QED
      BY <1>6, <2>1, <3>1, <3>3 DEF TimesPass
  <2>4. \A e \in Dispatchers \ {d} : Ahead(e)'
    BY <2>1 DEF Ahead, Filling
  <2> QED
    BY <1>6, <2>2, <2>3, <2>4
<1>7. ASSUME NEW d \in Dispatchers, NextStory(d)
      PROVE  Undisturbed'
  <2>1. NoTrend /\ Trends' = Trends /\ UNCHANGED <<state, now, event>>
    BY <1>7, TrendsStay DEF NoTrend, NextStory, dispatchVars
  <2>2. /\ run[d].step = "story" /\ \A e \in Dispatchers \ {d} : run'[e] = run[e]
        /\ run'[d].at = run[d].at
    BY <1>7 DEF NextStory, Decided, StoryTypeOK
  <2>3. OneFills' /\ TimesPass' /\ \A e \in Dispatchers : Ahead(e)'
    BY <1>6, <1>7, <2>1, <2>2, DecidedAhead DEF Filling, Undisturbed, TimesPass, StoryTypeOK, StateRow, Never
  <2>4. Covered' /\ Spaced'
    BY <2>1, <2>2 DEF Undisturbed, Covered, Spaced
  <2> QED
    BY <2>3, <2>4 DEF Undisturbed
<1>8. ASSUME NEW d \in Dispatchers, InsertEvent(d)
      PROVE  Undisturbed'
  <2>1. Insert(run[d].event, "other") /\ Goes(d, "save") /\ UNCHANGED <<now, state>>
    BY <1>8 DEF InsertEvent
  <2>2. run[d] \in Deciding /\ run[d].event \in StoryEvent /\ Filling(d) /\ Ahead(d)
    BY <1>8, RunsHold DEF InsertEvent, SavesWhatIsTold, Saves, Filling, Undisturbed
  <2>3. /\ run'[d] = [run[d] EXCEPT !.step = "save"]
        /\ \A e \in Dispatchers \ {d} : run'[e] = run[e]
    BY <2>1 DEF Goes, StoryTypeOK
  <2>4. /\ run'[d].step = "save" /\ run'[d].at = run[d].at /\ run'[d].next = run[d].next
        /\ run'[d].story = run[d].story
    BY <2>2, <2>3 DEF Deciding
  <2>5. Ahead(d)'
    BY <1>8, <2>1, <2>2, <2>4 DEF Ahead, InsertEvent, Filling
  <2>6. OneFills' /\ TimesPass' /\ \A e \in Dispatchers : Ahead(e)'
    BY <1>6, <2>1, <2>2, <2>3, <2>4, <2>5 DEF Ahead
  <2> QED
    BY <1>8, <2>1, <2>2, <2>6, InsertedAhead DEF Undisturbed
<1>9. ASSUME NEW d \in Dispatchers, SaveState(d)
      PROVE  Undisturbed'
  <2>1. /\ state' = [state EXCEPT ![run[d].story] = run[d].next]
        /\ Proceed(d, run[d].at, run[d].rows) /\ UNCHANGED <<now, event>>
        /\ NoTrend /\ Trends' = Trends
    BY <1>9, TrendsStay DEF SaveState, NoTrend, dispatchVars
  <2>2. run[d] \in Deciding /\ run[d].step = "save" /\ Filling(d) /\ Ahead(d)
    BY <1>9, RunsHold DEF SaveState, Filling, Undisturbed
  <2>3. PICK s \in Stories : s = run[d].story
    BY <2>2 DEF Deciding
  <2>4. state'[s] = run[d].next /\ \A q \in Stories \ {s} : state'[q] = state[q]
    BY <2>1, <2>3 DEF StoryTypeOK
  <2>5. /\ \A e \in Dispatchers \ {d} : run'[e] = run[e] /\ ~Filling(e)
        /\ Filling(d)' => run'[d].at = run[d].at
        /\ run'[d].step \in {"story", "list"}
    BY <2>1, <2>2 DEF Proceed, Filling, StoryTypeOK, Undisturbed, OneFills
  <2>6. /\ state[s].alertedAt <= state'[s].alertedAt /\ state'[s].alertedAt <= run[d].at
        /\ \A q \in Stories : state[q].alertedAt <= run[d].at
    BY <2>2, <2>3, <2>4 DEF Ahead
  <2>7. \A q \in Stories : /\ state'[q].alertedAt <= run[d].at
                           /\ state[q].alertedAt <= state'[q].alertedAt
    BY <2>4, <2>6 DEF StoryTypeOK, StateRow, Never
  <2>8. Ahead(d)'
    BY <2>5, <2>7 DEF Ahead, Filling
  <2>9. OneFills' /\ TimesPass' /\ \A e \in Dispatchers : Ahead(e)'
    BY <1>6, <2>1, <2>2, <2>5, <2>7, <2>8
  <2>10. Covered'
    <3> SUFFICES ASSUME NEW a \in Trends
                 PROVE  event[a].at <= state'[event[a].story].alertedAt
      BY <2>1 DEF Covered
    <3>1. event[a] \in StoryEvent
      BY TrendEventsAreTyped
    <3>2. CASE event[a].at <= state[event[a].story].alertedAt
      <4>1. /\ event[a].story \in Stories /\ event[a].at \in Nat
            /\ state[event[a].story] \in StateRow /\ state'[event[a].story] \in StateRow
        BY <3>1, StoryTyping DEF StoryEvent, StoryTypeOK
      <4> QED
        BY <2>7, <3>2, <4>1 DEF StateRow, Never
    <3>3. CASE run[d].story = event[a].story /\ event[a].at <= run[d].next.alertedAt
      BY <2>3, <2>4, <3>3
    <3> QED
      BY <2>5, <3>2, <3>3 DEF Undisturbed, Covered, Filling
  <2>11. Spaced'
    BY <2>1 DEF Undisturbed, Spaced
  <2> QED
    BY <2>9, <2>10, <2>11 DEF Undisturbed
<1>10. ASSUME NEW d \in Dispatchers, NEW start \in 0..Horizon, BeginDigest(d, start)
       PROVE  Undisturbed'
  <2>1. NoTrend /\ UNCHANGED <<state, now>> /\ run[d].step # "save" /\ ~Filling(d)'
        /\ \A e \in Dispatchers \ {d} : run'[e] = run[e]
    BY <1>10, TrendsStay DEF BeginDigest, NoTrend, dispatchVars, Filling, Idle, StoryTypeOK
  <2> QED
    BY <1>2, <2>1
<1>11. ASSUME NEW d \in Dispatchers, InsertDigest(d) \/ ListPending(d) \/ Deliver(d)
       PROVE  Undisturbed'
  <2>1. NoTrend /\ UNCHANGED <<state, now>>
    BY <1>11, TrendsStay DEF NoTrend, InsertDigest, ListPending, Deliver
  <2>2. /\ run[d].step \in {"digest", "list", "dispatch"}
        /\ \A e \in Dispatchers \ {d} : run'[e] = run[e]
        /\ run'[d] = run[d] \/ run'[d].step \in {"idle", "list", "dispatch"}
    BY <1>11 DEF InsertDigest, ListPending, Deliver, ToList, Idle, StoryTypeOK
  <2> QED
    BY <1>2, <2>1, <2>2 DEF Filling
<1>12. ASSUME NEW d \in Dispatchers, Kill(d)
       PROVE  Undisturbed'
  <2>1. NoTrend /\ UNCHANGED <<state, now>> /\ run[d].step # "save" /\ ~Filling(d)'
        /\ \A e \in Dispatchers \ {d} : run'[e] = run[e]
    BY <1>12, TrendsStay DEF NoTrend, Kill, Filling, Idle, StoryTypeOK
  <2> QED
    BY <1>2, <2>1
<1>13. CASE UNCHANGED vars
  <2>1. NoTrend /\ now <= now' /\ UNCHANGED <<state, run>>
    BY <1>0, <1>13, TrendsStay DEF NoTrend, vars, dispatchVars
  <2> QED
    BY <1>1, <2>1
<1> QED
  BY <1>3, <1>4, <1>5, <1>7, <1>8, <1>9, <1>10, <1>11, <1>12, <1>13 DEF Next, RunStep

SpacingInv == StoriesInv /\ (~disturbed => Undisturbed)

LEMMA SpacingStarts == Init => SpacingInv
<1> SUFFICES ASSUME Init PROVE Undisturbed
  BY StoriesStart DEF SpacingInv, StoriesInv
<1>1. Trends = {}
  BY DEF Init, DispatchInit, Present, Trends
<1>2. \A d \in Dispatchers : ~Filling(d) /\ run[d].step = "idle"
  BY DEF Init, Filling, Idle
<1>3. TimesPass
  BY <1>2 DEF TimesPass, Init, DefaultState, Never
<1> QED
  BY <1>1, <1>2, <1>3 DEF Undisturbed, OneFills, Ahead, Covered, Spaced

LEMMA SpacingIsKept ==
  ASSUME SpacingInv, [Next]_vars
  PROVE  SpacingInv'
<1>1. StoriesInv'
  BY OutboxOKSteps, SavingSteps, TellingSteps DEF SpacingInv, StoriesInv
<1>2. disturbed => disturbed'
  BY DEF Next, RunStep, Tick, See, BeginStories, BeginDigest, NextStory, InsertEvent,
     SaveState, InsertDigest, ListPending, Deliver, Kill, vars, StoryTypeOK
<1>3. ~disturbed' => Undisturbed'
  BY <1>2, SpacingSteps DEF SpacingInv, StoriesInv
<1> QED
  BY <1>1, <1>3 DEF SpacingInv

\* The cooldown of a story's trend alerts is observed over all its events, not only
\* against the last one, unless a run that fills the outbox failed or met another.
THEOREM AlertsAreSpaced == Spec => []TrendAlertsSpaced
<1>1. SpacingInv => TrendAlertsSpaced
  BY DEF SpacingInv, Undisturbed, Spaced, Trends, Trend, TrendAlertsSpaced
<1>2. SpacingInv /\ [Next]_vars => SpacingInv'
  BY SpacingIsKept
<1> QED
  BY <1>1, <1>2, SpacingStarts, PTL DEF Spec

-----------------------------------------------------------------------------
(* Digests, as long as each is sent before the next is made.               *)

OneDigests ==
  \A d, e \in Dispatchers : run[d].step = "digest" /\ run[e].step = "digest" => d = e

\* A digest about to be inserted tells nothing that the last ones of other windows told.
After(a) == {c \in Digests : a < c}

TellsAnew(d) == run[d].step = "digest" =>
  \A a \in Digests :
    event[a].start # run[d].event.start /\ Cardinality(After(a)) < SentLimit =>
      event[a].items \cap run[d].event.items = {}

Distinct == \A a, b \in Digests :
  a < b /\ Cardinality(Between(a, b)) < SentLimit => event[a].items \cap event[b].items = {}

\* Digests are sent in the order in which they are made.
Ordered == \A a, b \in Digests : a < b => sentAt[b] = 0 \/ sentAt[a] < sentAt[b]

Punctual == OneDigests /\ (\A d \in Dispatchers : TellsAnew(d)) /\ Distinct /\ Ordered

\* A digest has a time once it is SENT, and not before it is in the outbox.
Stamps ==
  /\ marks \in Nat /\ sentAt \in [Alerts -> Nat]
  /\ \A a \in Alerts : sentAt[a] <= marks
  /\ \A a \in Alerts \ Present : sentAt[a] = 0
  /\ \A a \in SentDigests : sentAt[a] > 0

LEMMA StampSteps ==
  ASSUME OutboxInv, Stamps, OutboxStep
  PROVE  Stamps'
<1> USE DEF OutboxInv, DispatchTypeOK, Digests, SentDigests, Present
<1>1. ASSUME NEW a \in Alerts, NEW kind \in Kinds, Materialize(a, kind)
      PROVE  Stamps'
  BY <1>1 DEF Materialize, Stamps
<1>2. CASE UNCHANGED <<alert, sentAt, marks>>
  BY <1>2 DEF Stamps
<1>3. ASSUME NEW d \in Dispatchers, MarkSent(d)
      PROVE  Stamps'
  <2>1. Current(d) \in Present
    BY <1>3, CurrentIsListed DEF MarkSent, MarksBacked, ListedArePresent
  <2>2. CASE UNCHANGED <<alert, sentAt, marks>>
    BY <1>2, <2>2
  <2>3. CASE alert' = [alert EXCEPT ![Current(d)].status = "SENT"] /\ Stamped(Current(d))
    <3>1. CASE alert[Current(d)].kind = "digest"
      <4>1. marks' = marks + 1 /\ sentAt' = [sentAt EXCEPT ![Current(d)] = marks + 1]
        BY <2>3, <3>1 DEF Stamped
      <4>2. marks' \in Nat /\ sentAt' \in [Alerts -> Nat] /\ \A a \in Alerts : sentAt'[a] <= marks'
        <5>1. marks \in Nat /\ marks + 1 \in Nat /\ Current(d) \in Alerts
              /\ sentAt \in [Alerts -> Nat] /\ \A a \in Alerts : sentAt[a] <= marks
          BY <2>1 DEF Stamps
        <5>2. sentAt' \in [Alerts -> Nat] /\ \A a \in Alerts : sentAt'[a] = marks + 1 \/ sentAt'[a] = sentAt[a]
          BY <4>1, <5>1
        <5> QED
          BY <4>1, <5>1, <5>2
      <4>3. Present' = Present
        BY <2>1, <2>3 DEF AlertRow
      <4>4. \A a \in Alerts \ Present : sentAt'[a] = 0
        BY <2>1, <4>1 DEF Stamps
      <4>5. ASSUME NEW a \in SentDigests', a # Current(d) PROVE sentAt'[a] > 0
        BY <2>3, <4>1, <4>5 DEF Stamps, AlertRow
      <4>6. sentAt'[Current(d)] > 0
        BY <2>1, <4>1 DEF Stamps
      <4> QED
        BY <4>2, <4>3, <4>4, <4>5, <4>6 DEF Stamps
    <3>2. CASE alert[Current(d)].kind # "digest"
      BY <2>1, <2>3, <3>2 DEF Stamped, Stamps, AlertRow
    <3> QED
      BY <3>1, <3>2
  <2> QED
    BY <1>3, <2>2, <2>3 DEF MarkSent
<1>4. ASSUME NEW d \in Dispatchers, MarkFailed(d)
      PROVE  Stamps'
  <2>1. Current(d) \in Present
    BY <1>4, CurrentIsListed DEF MarkFailed, MarksBacked, ListedArePresent
  <2>2. /\ UNCHANGED <<sentAt, marks>>
        /\ \A a \in Alerts \ {Current(d)} : alert'[a] = alert[a]
        /\ alert'[Current(d)].status \in {"FAILED", "PENDING"}
    BY <1>4, <2>1 DEF MarkFailed, AlertRow
  <2> QED
    BY <2>1, <2>2 DEF Stamps
<1> QED
  BY <1>1, <1>2, <1>3, <1>4 DEF OutboxStep, DispatchNext, Dispatch, List, Send, Cut

\* A time is given by a delivery, to a digest of the outbox; in time, to the last one.
LEMMA MarksTheLast ==
  ASSUME OutboxOK, Stamps, [Next]_vars, ~late', sentAt' # sentAt
  PROVE  \E a \in Present : /\ sentAt' = [sentAt EXCEPT ![a] = marks + 1]
                            /\ After(a) = {} /\ Present' = Present
<1>1. PICK d \in Dispatchers : Deliver(d)
  BY DEF Next, RunStep, Tick, See, BeginStories, BeginDigest, NextStory, InsertEvent, SaveState,
     InsertDigest, ListPending, List, Kill, Cut, Fault, Insert, Materialize, vars, dispatchVars
<1>2. MarkSent(d) /\ Stamped(Current(d))
  BY <1>1 DEF Deliver, Dispatch, Send, MarkSent, MarkFailed
<1>3. Current(d) \in Present
  BY <1>2, CurrentIsListed
  DEF MarkSent, OutboxOK, OutboxInv, DispatchTypeOK, MarksBacked, ListedArePresent
<1>4. Present' = Present
  BY <1>1, DeliveryAddsNothing DEF Deliver, OutboxOK
<1>5. After(Current(d)) = {}
  <2>1. \A a \in Digests : ~(a > Current(d))
    BY <1>1 DEF Deliver, OutboxOK, StoryTypeOK
  <2>2. \A a \in Digests : a \in Nat /\ Current(d) \in Nat
    BY <1>3, AlertAssumption DEF Digests, Present
  <2> QED
    BY <2>1, <2>2 DEF After
<1> QED
  BY <1>2, <1>3, <1>4, <1>5 DEF Stamped

\* Digests, their windows and their items are changed only by inserting one.
LEMMA DigestsStay ==
  ASSUME OutboxOK, [Next]_vars
  PROVE  \/ Digests' = Digests /\ \A a \in Digests : event'[a] = event[a]
         \/ \E d \in Dispatchers, a \in Alerts :
              run[d].step = "digest" /\ InsertDigest(d) /\ Inserts(d, a)
<1>1. \A a \in Present : a \in Present' /\ alert'[a].kind = alert[a].kind
  BY RowsStay, StepsOfOutbox DEF OutboxOK, OutboxInv
<1>2. CASE Present' = Present /\ event' = event
  BY <1>1, <1>2 DEF Digests
<1>3. ASSUME NEW d \in Dispatchers, NEW a \in Alerts, Inserts(d, a), alert'[a].kind = "other"
      PROVE  Digests' = Digests /\ \A b \in Digests : event'[b] = event[b]
  BY <1>1, <1>3 DEF Inserts, Digests, OutboxOK, StoryTypeOK
<1>4. ASSUME NEW d \in Dispatchers, NEW a \in Alerts, Inserts(d, a), alert'[a].kind # "other"
      PROVE  run[d].step = "digest" /\ InsertDigest(d)
  BY <1>4 DEF Inserts
<1> QED
  BY <1>2, <1>3, <1>4, StepsAdd

\* A digest that is made while the others are sent tells nothing the last of them told.
LEMMA BuiltAnew ==
  ASSUME StoryTypeOK, Stamps, Ordered, NEW start, NEW a \in Digests, alert[a].status = "SENT",
         Cardinality(After(a)) < SentLimit
  PROVE  event[a].items \cap BuildDigest(start) = {}
<1> DEFINE Later == {b \in SentDigests : sentAt[b] > sentAt[a]}
<1>1. a \in SentDigests /\ a \in Alerts
  BY DEF SentDigests, Digests, Present
<1>2. Later \subseteq After(a)
  <2> SUFFICES ASSUME NEW b \in SentDigests, sentAt[b] > sentAt[a] PROVE a < b
    BY DEF After, SentDigests
  <2>1. b \in Digests /\ a \in Nat /\ b \in Nat /\ sentAt[a] \in Nat /\ sentAt[b] \in Nat /\ sentAt[a] > 0
    BY <1>1, AlertAssumption DEF SentDigests, Digests, Present, Stamps
  <2>2. ~(b < a)
    BY <2>1 DEF Ordered
  <2> QED
    BY <2>1, <2>2
<1>3. IsFiniteSet(After(a))
  BY FS_Subset, AlertAssumption, After(a) \subseteq Alerts DEF After, Digests, Present
<1>4. Cardinality(Later) <= Cardinality(After(a)) /\ Cardinality(Later) \in Nat
  BY <1>2, <1>3, FS_Subset, FS_CardinalityType
<1>5. Cardinality(Later) < SentLimit
  BY <1>3, <1>4, FS_CardinalityType, StoryAssumption
<1>6. a \in LastSent
  BY <1>1, <1>5 DEF LastSent
<1> QED
  BY <1>6 DEF BuildDigest, PreviouslySent

LEMMA PunctualSteps ==
  ASSUME OutboxOK, Stamps, Punctual, [Next]_vars, ~late'
  PROVE  Punctual'
<1> USE DEF OutboxOK
<1>0. Ordered'
  <2>1. \A a \in Alerts : a \in Nat
    BY AlertAssumption
  <2>2. CASE sentAt' # sentAt
    <3>1. PICK a \in Present : /\ sentAt' = [sentAt EXCEPT ![a] = marks + 1]
                              /\ After(a) = {} /\ Present' = Present
      BY <2>2, MarksTheLast
    <3>2. Digests' = Digests
      BY <3>1, DigestsStay DEF Inserts
    <3> QED
      BY <2>1, <3>1, <3>2 DEF Punctual, Ordered, After, Stamps, Digests, Present
  <2>3. CASE sentAt' = sentAt
    <3>1. CASE Digests' = Digests
      BY <2>3, <3>1 DEF Punctual, Ordered
    <3>2. ASSUME NEW d \in Dispatchers, NEW a \in Alerts, Inserts(d, a)
          PROVE  Ordered'
      <4>1. Digests' \subseteq Digests \cup {a} /\ sentAt[a] = 0
        <5>1. \A b \in Present : alert'[b].kind = alert[b].kind
          BY RowsStay, StepsOfOutbox DEF OutboxInv
        <5> QED
          BY <3>2, <5>1 DEF Inserts, Digests, Stamps
      <4>2. \A b \in Digests' : sentAt[b] \in Nat
        BY DEF Digests, Present, Stamps
      <4>3. \A b \in Digests : b < a
        BY <3>2 DEF Inserts, Digests
      <4> QED
        BY <2>1, <2>3, <4>1, <4>2, <4>3 DEF Punctual, Ordered, Digests, Present
    <3> QED
      BY <3>1, <3>2, DigestsStay
  <2> QED
    BY <2>2, <2>3
<1> DEFINE SameDigests == Digests' = Digests /\ \A a \in Digests : event'[a] = event[a]
<1>1. ASSUME SameDigests, \A e \in Dispatchers : run'[e] = run[e] \/ run'[e].step # "digest"
      PROVE  Punctual'
  BY <1>0, <1>1 DEF Punctual, OneDigests, TellsAnew, Distinct, After, Between
<1>2. ASSUME NEW d \in Dispatchers, NEW start \in 0..Horizon, BeginDigest(d, start),
             run'[d].step = "digest"
      PROVE  Punctual'
  <2>1. SameDigests
    BY <1>2 DEF BeginDigest, dispatchVars, Digests, Present
  <2>2. /\ run[d].step = "idle"
        /\ \A e \in Dispatchers \ {d} : run'[e] = run[e]
    BY <1>2 DEF BeginDigest, Idle
  <2>3. run'[d].event.start = start /\ run'[d].event.items \subseteq BuildDigest(start)
    BY <1>2 DEF BeginDigest, StoryTypeOK
  <2>4. /\ ~Another(d, "digest")
        /\ \A a \in Digests : alert[a].status = "SENT" \/ event[a].start = start
    BY <1>2 DEF BeginDigest, StoryTypeOK
  <2>5. \A e \in Dispatchers \ {d} : run[e].step # "digest"
    <3>1. \A e \in Dispatchers : run[e].step = "digest" => run[e].kind = "digest"
      BY RunsHold DEF Digesting
    <3> QED
      BY <2>4, <3>1 DEF Another, Materializing
  <2>6. TellsAnew(d)'
    BY <2>1, <2>3, <2>4, BuiltAnew DEF TellsAnew, After, Punctual
  <2> QED
    BY <1>0, <2>1, <2>2, <2>5, <2>6 DEF Punctual, OneDigests, TellsAnew, Distinct, After, Between
<1>3. ASSUME NEW d \in Dispatchers, NEW a \in Alerts, run[d].step = "digest", InsertDigest(d),
             Inserts(d, a)
      PROVE  Punctual'
  <2>1. run[d] \in Digesting /\ TellsAnew(d)
    BY <1>3, RunsHold DEF Punctual
  <2>2. /\ \A e \in Dispatchers \ {d} : run'[e] = run[e] /\ run[e].step # "digest"
        /\ run'[d].step # "digest"
    BY <1>3 DEF InsertDigest, ToList, Idle, StoryTypeOK, Punctual, OneDigests
  <2>3. /\ event'[a] = run[d].event /\ \A b \in Digests : event'[b] = event[b]
        /\ Digests' = Digests \cup {a} /\ \A b \in Digests : b < a
    <3>1. \A b \in Present : alert'[b].kind = alert[b].kind
      BY RowsStay, StepsOfOutbox DEF OutboxInv
    <3> QED
      BY <1>3, <3>1 DEF Inserts, StoryTypeOK, Digests, Present
  <2>4. ASSUME NEW b \in Digests, Cardinality(After(b)) < SentLimit
        PROVE  event[b].items \cap run[d].event.items = {}
    <3>1. event[b] \in DigestEvent
      BY <2>4 DEF EventsOfKind, Digests
    <3>2. Fingerprint(event[b]) # Fingerprint(run[d].event)
      BY <1>3, <2>4 DEF Inserts, Known, Digests
    <3>3. event[b].start # run[d].event.start
      BY <2>1, <3>1, <3>2 DEF Fingerprint, Digesting, DigestEvent
    <3> QED
      BY <2>1, <2>4, <1>3, <3>3 DEF TellsAnew
  <2>5. ASSUME NEW b \in Digests', NEW c \in Digests', b < c,
               Cardinality(Between(b, c)') < SentLimit
        PROVE  event'[b].items \cap event'[c].items = {}
    <3>0. \A x \in Digests' : x \in Nat
      BY AlertAssumption DEF Digests, Present
    <3>1. CASE c \in Digests
      <4>1. b \in Digests /\ Between(b, c)' = Between(b, c)
        BY <2>3, <2>5, <3>0, <3>1 DEF Between
      <4> QED
        BY <2>3, <2>5, <3>1, <4>1 DEF Punctual, Distinct
    <3>2. CASE c = a
      <4>1. b \in Digests /\ Between(b, c)' = After(b)
        BY <2>3, <2>5, <3>0, <3>2 DEF Between, After
      <4> QED
        BY <2>3, <2>4, <2>5, <3>2, <4>1
    <3> QED
      BY <2>3, <3>1, <3>2
  <2> QED
    BY <1>0, <2>2, <2>5 DEF Punctual, OneDigests, TellsAnew, Distinct
<1>4. ASSUME SameDigests, NEW d \in Dispatchers, \A e \in Dispatchers \ {d} : run'[e] = run[e],
             run'[d] = run[d] \/ run'[d].step # "digest"
      PROVE  Punctual'
  BY <1>1, <1>4
<1>5. ASSUME SameDigests, ~UNCHANGED run,
             \A d \in Dispatchers, start \in 0..Horizon :
               ~(BeginDigest(d, start) /\ run'[d].step = "digest")
      PROVE  Punctual'
  <2>1. PICK d \in Dispatchers :
          /\ \A e \in Dispatchers \ {d} : run'[e] = run[e]
          /\ run'[d].step # "digest"
    <3>1. ASSUME NEW d \in Dispatchers, BeginStories(d) \/ SaveState(d)
          PROVE  run'[d].step # "digest" /\ \A e \in Dispatchers \ {d} : run'[e] = run[e]
      BY <3>1 DEF BeginStories, SaveState, Proceed, ToList, StoryTypeOK
    <3>2. ASSUME NEW d \in Dispatchers, NextStory(d)
          PROVE  run'[d].step # "digest" /\ \A e \in Dispatchers \ {d} : run'[e] = run[e]
      BY <3>2 DEF NextStory, Decided, StoryTypeOK
    <3>3. ASSUME NEW d \in Dispatchers, InsertEvent(d)
          PROVE  run'[d].step # "digest" /\ \A e \in Dispatchers \ {d} : run'[e] = run[e]
      <4>1. run[d] \in Deciding
        BY <3>3, RunsHold DEF InsertEvent
      <4> QED
        BY <3>3, <4>1 DEF InsertEvent, Goes, ToList, StoryTypeOK, Deciding
    <3>4. ASSUME NEW d \in Dispatchers, InsertDigest(d) \/ ListPending(d) \/ Kill(d)
          PROVE  run'[d].step # "digest" /\ \A e \in Dispatchers \ {d} : run'[e] = run[e]
      BY <3>4 DEF InsertDigest, ListPending, Kill, ToList, Idle, StoryTypeOK
    <3>5. ASSUME NEW d \in Dispatchers, Deliver(d)
          PROVE  run'[d].step # "digest" /\ \A e \in Dispatchers \ {d} : run'[e] = run[e]
      BY <3>5, <1>5 DEF Deliver, Idle, StoryTypeOK
    <3>6. ASSUME NEW d \in Dispatchers, NEW start \in 0..Horizon, BeginDigest(d, start)
          PROVE  run'[d].step # "digest" /\ \A e \in Dispatchers \ {d} : run'[e] = run[e]
      BY <1>5, <3>6 DEF BeginDigest
    <3> QED
      BY <1>5, <3>1, <3>2, <3>3, <3>4, <3>5, <3>6 DEF Next, RunStep, Tick, See, vars
  <2> QED
    BY <1>4, <1>5, <2>1
<1>6. CASE SameDigests /\ UNCHANGED run
  BY <1>1, <1>6
<1>7. CASE SameDigests
  BY <1>2, <1>5, <1>6, <1>7
<1> QED
  BY <1>3, <1>7, DigestsStay

DigestInv == StoriesInv /\ Stamps /\ (~late => Punctual)

\* While every digest is sent, and not once more, before the next is made, a digest
\* tells no story in the words in which one of the last SentLimit before it told it,
\* whichever runs make and deliver them: the limit on the digests that are read back
\* is all that lets a story come again.
THEOREM DigestsTellOnce == Spec => []DigestsNeverRepeat
<1>1. Init => DigestInv
  <2> SUFFICES ASSUME Init PROVE Stamps /\ Punctual
    BY StoriesStart DEF DigestInv, StoriesInv
  <2>1. Digests = {}
    BY DEF Init, DispatchInit, Present, Digests
  <2>2. \A d \in Dispatchers : run[d].step = "idle"
    BY DEF Init, Idle
  <2> QED
    BY <2>1, <2>2 DEF Punctual, OneDigests, TellsAnew, Distinct, Ordered, Stamps, SentDigests,
       Init, DispatchInit
<1>2. DigestInv /\ [Next]_vars => DigestInv'
  <2> SUFFICES ASSUME DigestInv, [Next]_vars PROVE DigestInv'
    OBVIOUS
  <2>1. StoriesInv'
    BY OutboxOKSteps, SavingSteps, TellingSteps DEF DigestInv, StoriesInv
  <2>2. late => late'
    BY DEF Next, RunStep, Tick, See, BeginStories, BeginDigest, NextStory, InsertEvent,
       SaveState, InsertDigest, ListPending, Deliver, Kill, vars
  <2>3. ~late' => Punctual'
    BY <2>2, PunctualSteps DEF DigestInv, StoriesInv
  <2>4. Stamps'
    BY StampSteps, StepsOfOutbox DEF DigestInv, StoriesInv, OutboxOK
  <2> QED
    BY <2>1, <2>3, <2>4 DEF DigestInv
<1>3. DigestInv => DigestsNeverRepeat
  BY DEF DigestInv, Punctual, Distinct, DigestsNeverRepeat
<1> QED
  BY <1>1, <1>2, <1>3, PTL DEF Spec

=============================================================================
