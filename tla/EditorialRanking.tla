--------------------------- MODULE EditorialRanking ----------------------------
(***************************************************************************)
(* The editorial ranking over what grounding left: a run reads the claims, *)
(* their evidence and the relevance of the stories, scores and sorts them, *)
(* deletes the rankings of its date and version, and writes the new ones   *)
(* side by side.  All runs here are of one date and version.               *)
(***************************************************************************)
EXTENDS Grounding

CONSTANTS Rankers,          \* the ranking runs that may be alive at once
          Stories,
          StoryOf,          \* [claim -> story]
          PostSignals,      \* [story -> how many signals its posts' accounts give, and their
                            \* sum, in percent]
          Freshness,        \* [story -> its freshness score]
          Reliability,      \* [observation -> its source's reliability score]
          MatchContext,     \* 100 if a match is scheduled or live, else 0
          Order,            \* [story -> its place in the order of ids]
          \* bounds
          MaxRankings, MaxTurns

ASSUME RankingAssumption ==
    /\ IsFiniteSet(Stories)
    /\ MatchContext \in 0..100
    /\ \A s \in Stories : /\ PostSignals[s].number \in Nat /\ PostSignals[s].sum \in Nat
                          /\ Freshness[s] \in 0..100
                          /\ Order[s] \in Int
    /\ \A s, t \in Stories : Order[s] = Order[t] => s = t
    /\ \A o \in Observations : Reliability[o] \in 0..100
    /\ MaxRankings \in Nat /\ MaxTurns \in Nat

VARIABLES
    relevant,   \* the stories whose texts are Manchester United's
    ranking,    \* editorial_rankings: [story -> row], of the stories that have one
    candidate,  \* the stories with a row in content_candidates
    rank,       \* the ranking runs
    shown,      \* history: what the last run that ended undisturbed has ranked
    rankings, turns

rankVars == <<relevant, ranking, candidate, rank, shown, rankings, turns>>
vars == <<sourceVars, groundingVars, rankVars>>

NoRank == [pc |-> "idle", list |-> <<>>, todo |-> {}, alone |-> FALSE]
NoList == [s \in {} |-> 0]

Init ==
    /\ SourceInit /\ GroundingInit
    /\ relevant = Stories
    /\ ranking = NoList /\ candidate = {}
    /\ rank = [r \in Rankers |-> NoRank]
    /\ shown = NoList
    /\ rankings = 0 /\ turns = 0

-----------------------------------------------------------------------------
Bounded(x) == Max({0, Min({100, x})})

ClaimsOf(s) == {c \in Claims : StoryOf[c] = s /\ claimRow[c] # NoClaimRow}
WithStatus(s, status) == {c \in ClaimsOf(s) : claimRow[c].status = status}

\* A verified claim's confidence, or 100 without one, and the reliability of the sources
\* of its facts.
FactScore(s) ==
    Bounded(Max({0} \cup UNION {
        {IF claimRow[c].confidence = 0 THEN 100 ELSE claimRow[c].confidence}
          \cup {Reliability[e.source] : e \in {e \in evidence[c] : e.role \in FactRoles}} :
        c \in WithStatus(s, "VERIFIED")}))

\* The signals of a story, their number and sum: 70 for each row of discovery evidence, the
\* one that came with the claim of a discovery included, and what its posts give.
DiscoverySignals(s) ==
    LET found == UNION {{<<c, e.source>> : e \in {e \in evidence[c] : e.role \in DiscoveryRoles}} :
                          c \in ClaimsOf(s)}
        own == {i \in Rows : row[i].version = DiscoveryVersion /\ StoryOf[row[i].claim] = s}
        number == Cardinality(found) + Cardinality(own)
    IN  [number |-> number + PostSignals[s].number, sum |-> 70 * number + PostSignals[s].sum]

GroundingStatus(s) ==
    CASE WithStatus(s, "CONTRADICTED") # {} -> "CONTRADICTED"
      [] WithStatus(s, "VERIFIED") # {} -> "VERIFIED"
      [] DiscoverySignals(s).number > 0 -> "DISCOVERY_ONLY"
      [] OTHER -> "INSUFFICIENT"

\* listInputs: one input for each relevant story.
Input(s) ==
    [status |-> GroundingStatus(s),
     fact |-> FactScore(s),
     audience |-> Bounded(DiscoverySignals(s).sum),
     gap |-> IF DiscoverySignals(s).number > 0 THEN Bounded(100 - FactScore(s)) ELSE 0]

EditorialScore(s, input) ==
    35 * input.gap + 30 * input.fact + 15 * input.audience + 10 * MatchContext + 10 * Freshness[s]

NewsEligible(input) == input.status = "VERIFIED" /\ input.fact >= 70

\* By score, facts, freshness and id.
Ahead(s, t, input) ==
    LET key == [u \in {s, t} |-> <<EditorialScore(u, input[u]), input[u].fact, Freshness[u], -Order[u]>>]
    IN  \E i \in 1..4 : key[s][i] > key[t][i] /\ \A j \in 1 .. i - 1 : key[s][j] = key[t][j]

RankEditorialInputs(input) ==
    [s \in DOMAIN input |->
        [rank |-> 1 + Cardinality({t \in DOMAIN input \ {s} : Ahead(t, s, input)}),
         status |-> input[s].status, newsEligible |-> NewsEligible(input[s])]]

-----------------------------------------------------------------------------
Running(r) == rank[r].pc # "idle"

BeginRanking(r) ==
    /\ ~Running(r) /\ rankings < MaxRankings /\ rankings' = rankings + 1
    /\ LET alone == \A t \in Rankers : ~Running(t)
       IN  rank' = [t \in Rankers |-> IF t = r THEN [NoRank EXCEPT !.pc = "list", !.alone = alone]
                                      ELSE [rank[t] EXCEPT !.alone = FALSE]]
    /\ UNCHANGED <<sourceVars, groundingVars, relevant, ranking, candidate, shown, turns>>

\* The inputs are read once, and ranked.
ListInputs(r) ==
    /\ rank[r].pc = "list"
    /\ LET list == RankEditorialInputs([s \in relevant |-> Input(s)])
       IN  rank' = [rank EXCEPT ![r].pc = "clear", ![r].list = list, ![r].todo = DOMAIN list]
    /\ UNCHANGED <<sourceVars, groundingVars, relevant, ranking, candidate, shown, rankings, turns>>

\* Mutant: nothing is deleted.
ClearedNone(table) == table

\* clearRankings deletes the rows of the date and version.
Cleared(table) == NoList

ClearRankings(r) ==
    /\ rank[r].pc = "clear"
    /\ rank' = [rank EXCEPT ![r].pc = "write"]
    /\ ranking' = Cleared(ranking)
    /\ shown' = NoList
    /\ UNCHANGED <<sourceVars, groundingVars, relevant, candidate, rankings, turns>>

\* upsertRanking: the ranking's row, and the story's candidate, patched or inserted.
UpsertRanking(r, s) ==
    /\ rank[r].pc = "write" /\ s \in rank[r].todo
    /\ ranking' = [t \in DOMAIN ranking \cup {s} |-> IF t = s THEN rank[r].list[s] ELSE ranking[t]]
    /\ candidate' = candidate \cup {s}
    /\ rank' = [rank EXCEPT ![r].todo = @ \ {s}]
    /\ UNCHANGED <<sourceVars, groundingVars, relevant, shown, rankings, turns>>

EndRanking(r) ==
    /\ rank[r].pc = "write" /\ rank[r].todo = {}
    /\ shown' = IF rank[r].alone THEN rank[r].list ELSE NoList
    /\ rank' = [rank EXCEPT ![r] = NoRank]
    /\ UNCHANGED <<sourceVars, groundingVars, relevant, ranking, candidate, rankings, turns>>

\* A run that is killed, or one of whose writes fails; it is run again from its inputs.
KillRanking(r) ==
    /\ Running(r) /\ kills < MaxKills /\ kills' = kills + 1
    /\ rank' = [rank EXCEPT ![r] = NoRank]
    /\ UNCHANGED <<sourceVars, world, row, claimRow, evidence, job, promotion, written, torn,
                   chains, promotions, relevant, ranking, candidate, shown, rankings, turns>>

\* New observations or a new signature change what a story is about.
Turn ==
    /\ turns < MaxTurns /\ turns' = turns + 1
    /\ relevant' \in SUBSET Stories
    /\ UNCHANGED <<sourceVars, groundingVars, ranking, candidate, rank, shown, rankings>>

Next ==
    \/ GroundingNext /\ UNCHANGED rankVars
    \/ \E r \in Rankers :
         \/ BeginRanking(r) \/ ListInputs(r) \/ ClearRankings(r) \/ EndRanking(r) \/ KillRanking(r)
         \/ \E s \in Stories : UpsertRanking(r, s)
    \/ Turn

Spec == Init /\ [][Next]_vars

-----------------------------------------------------------------------------
\* A chain of pages that has come to its end has written every claim there was at its
\* start: no cursor skips one (ground-claims/repository.ts, listClaims).
PagesCoverClaims ==
    \A g \in Grounders : job[g].pc = "done" =>
        ExtractedClaims \cup {row[i].claim : i \in job[g].asOf} \subseteq written[g]

\* A claim that no chain is in the middle of writing has the status its stored evidence
\* gives: it is verified if and only if a row of that evidence grounds it, whatever
\* changed between a write that was cut off and its retry.  There are three exceptions:
\* until the chain that was killed there is done, a claim may be half written; a claim
\* that a promotion wrote again is insufficient until a chain comes to it; and two
\* chains that wrote it at once may leave the status of one with the evidence of the
\* other, until one writes it alone (ground-claims/orchestrator.ts).
StatusMatchesEvidence ==
    \A c \in Claims : claimRow[c] # NoClaimRow /\ InFlight(c) = {} =>
        \/ claimRow[c].status = StatusOf(evidence[c])
        \/ \E g \in torn[c] \cap Grounders : job[g].pc \notin {"idle", "done"}
        \/ "promotion" \in torn[c] /\ claimRow[c].status = "INSUFFICIENT"
        \/ "overlap" \in torn[c]

\* After a ranking run that no other one overlapped the table holds its list and nothing
\* else, each story at a rank of its own: a story that is no longer relevant is gone
\* (rank-editorial/orchestrator.ts).
NoStaleRanking ==
    shown # NoList =>
        /\ ranking = shown
        /\ {ranking[s].rank : s \in DOMAIN ranking} = 1 .. Cardinality(DOMAIN ranking)
==============================================================================
