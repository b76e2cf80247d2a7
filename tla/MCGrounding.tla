----------------------------- MODULE MCGrounding ------------------------------
(* Two posts of two stories, one discovery of the first and a publisher's      *)
(* report on it; a feed of facts, whose pages the publisher's are, and a feed  *)
(* of a community.                                                             *)
EXTENDS EditorialRanking, TLC

CONSTANTS o, q, facts, community, s, t, g, h, k, l

Block(item, summary) ==
    [item |-> item, usable |-> TRUE, included |-> TRUE, late |-> FALSE, summary |-> summary]

MCBodies == {Text(<<Sentence({"reportedly"}, {"signing"}, 30), Sentence({"words"}, {"signing"}, 80)>>, 200)}
Talk == Text(<<Sentence({"reportedly"}, {"signing"}, 40)>>, 90)

MCRoleOf == o :> "FACT_PRIMARY" @@ q :> "DISCOVERY_COMMUNITY"
MCFeeds == <<facts, community>>
MCFeedRole == facts :> "FACT_PRIMARY" @@ community :> "DISCOVERY_COMMUNITY"
MCDocumentsOf == facts :> {<<Block(o, NoText)>>} @@ community :> {<<Block(q, Talk)>>}
MCRegisteredRole == o :> "FACT_PRIMARY" @@ q :> "none"

Event(topic, modality) == [topic |-> topic, modality |-> modality, scope |-> "EVENT", publisher |-> q]
MCTopics ==
    Extracted(1, 1) :> Event("signing", "CONFIRMED") @@ Extracted(1, 2) :> Event("signing", "RUMOR")
    @@ Extracted(2, 1) :> Event("other", "CONFIRMED") @@ Promoted(1) :> Event("signing", "CONFIRMED")
    @@ Promoted(2) :> [topic |-> "signing", modality |-> "CONFIRMED", scope |-> "PUBLISHER_REPORT", publisher |-> o]
MCStoryOf == [c \in DOMAIN MCTopics |-> IF c = Extracted(2, 1) THEN t ELSE s]

Budget(posts, analyses) == [posts |-> posts, analyses |-> analyses]
World(rows, discovered, budget, limit) ==
    [rows |-> rows, discovered |-> discovered, budget |-> budget, limit |-> limit]

\* A small budget of analyses only where a page has one post; see MCSpentWorlds.
MCWorlds == {
    World(<< <<{1}, {1, 2}>>, <<{1}>> >>, <<>>, Budget(2, 9), 1),
    World(<< <<{1}, {2}, {1}>> >>, 2 :> 1, Budget(1, 2), 2)}

\* Pages of two posts whose budget of analyses may end in the second.
MCSpentWorlds == {
    World(<< <<{1}>>, <<{1}>> >>, 2 :> 1, Budget(2, 2), 1)}

MCPostSignals == s :> [number |-> 1, sum |-> 70] @@ t :> [number |-> 1, sum |-> 35]
MCFreshness == s :> 50 @@ t :> 90
MCReliability == o :> 100 @@ q :> 0
MCOrder == s :> 1 @@ t :> 2

\* A grounding job reads the observations when it loads its page and at no other
\* time, so that source discovery may as well run, all at once, before a load: what
\* a run has not saved yet a feed that failed has not saved either.  For the same
\* reason the claims of a report are written before a load or while a job is at one
\* of them, and nothing comes between its article and them.  A chain ends when every
\* one has.  A ranking run reads claims and evidence once, when it begins, and
\* grounding reads nothing it writes: the ranking runs come after the last chain, if
\* nothing was promoted, and what overlapping ones see change is the relevance of the
\* stories.  To keep the instance small, kills come with one promotion at the most,
\* promotions with one source run, and overlapping chains with none of the first two.
QuietWorld ==
    /\ <<observation, sourceRun>>' # <<observation, sourceRun>> =>
         \E x \in Grounders : job[x].pc = "load"
    /\ sourceRun # NoSourceRun => UNCHANGED <<job, promotion>>
    /\ promotion = "article" =>
         /\ UNCHANGED sourceVars
         /\ promotion' = "idle" =>
              \E x \in Grounders : job[x].pc = "load" \/ x \in InFlight(Promoted(2))
    /\ promotions' > 0 => sourceRuns' < 2
    /\ promotions' = 2 => kills' = 0 /\ sourceRuns' = 0
    /\ Cardinality({x \in Grounders : job'[x] # NoJob}) > 1 =>
         kills' = 0 /\ promotions' = 0 /\ sourceRuns' < 2
    /\ (\E x \in Grounders : job[x] # NoJob /\ job'[x] = NoJob) =>
         \A y \in Grounders : job[y].pc \in {"idle", "done"}
    /\ rankings' > 0 => /\ chains = MaxChains /\ promotions = 0 /\ job = [x \in Grounders |-> NoJob]
                        /\ torn = [c \in Claims |-> {}]
                        /\ UNCHANGED <<job, promotion, sourceRun>>
    /\ relevant' # relevant => \E x \in Rankers : Running(x)

ChainSymmetry == Permutations({g, h}) \cup Permutations({k, l})
==============================================================================
