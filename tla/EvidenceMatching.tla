--------------------------- MODULE EvidenceMatching ---------------------------
(***************************************************************************)
(* The matcher of claim grounding: which sentence of an observation speaks *)
(* for a claim, whether it grounds the claim, and the claim's status.      *)
(*                                                                         *)
(* A sentence is what the matcher can tell of it: the phrases that set its *)
(* modality, the topics whose object and anchor it names, and how much of  *)
(* a claim's words it shares, in percent.                                  *)
(***************************************************************************)
EXTENDS Integers, Sequences, FiniteSets, FiniteSetsExt

FactRoles == {"FACT_PRIMARY", "FACT_INDEPENDENT"}
IgnoredRoles == {"MATCH_CONTEXT", "OWN_PERFORMANCE"}
DiscoveryRoles == {"DISCOVERY_COMPETITOR", "DISCOVERY_COMMUNITY", "DISCOVERY_VIDEO"}
Statuses == {"CONTRADICTED", "VERIFIED", "DISCOVERY_ONLY", "INSUFFICIENT"}

\* The first of the lists of phrases of which the text has one.
InferClaimModality(phrases) ==
    CASE "denied" \in phrases -> "DENIAL"
      [] "opinion" \in phrases -> "OPINION"
      [] "expected" \in phrases -> "PREDICTION"
      [] "reportedly" \in phrases -> "RUMOR"
      [] phrases = {} -> "UNKNOWN"
      [] OTHER -> "CONFIRMED"

\* What a sentence is to the matcher.
Sentence(phrases, topics, overlap) == [phrases |-> phrases, topics |-> topics, overlap |-> overlap]

\* A sentence is about a claim if it has a distinctive word of the claim's object and one
\* of its anchors or their aliases; what is generic makes no topic.
IsAbout(claim, sentence) == claim.topic \in sentence.topics

Matches(claim, sentence) == IsAbout(claim, sentence) /\ sentence.overlap >= 25

\* The first of the sentences that share the most with the claim; 0 if none matches.
BestSentence(claim, sentences) ==
    LET found == {i \in DOMAIN sentences : Matches(claim, sentences[i])}
        best == {i \in found : \A j \in found : sentences[i].overlap >= sentences[j].overlap}
    IN  IF found = {} THEN 0 ELSE Min(best)

\* A publisher's report is grounded by a sentence of its own modality; an event only
\* when both are confirmed.
SemanticsGroundable(claim, modality) ==
    IF claim.scope = "PUBLISHER_REPORT" THEN claim.modality = modality /\ modality # "UNKNOWN"
    ELSE claim.modality = "CONFIRMED" /\ modality = "CONFIRMED"

\* The observations a claim may be judged by: a report only by its own article.
Admissible(claim, o, observation) ==
    /\ observation.role \notin IgnoredRoles
    /\ claim.scope = "PUBLISHER_REPORT" => o = claim.publisher /\ observation.reportOnly

EvidenceOf(claim, o, observation) ==
    LET sentence == observation.sentences[BestSentence(claim, observation.sentences)]
        groundable == SemanticsGroundable(claim, InferClaimModality(sentence.phrases))
        fact == observation.role \in FactRoles
    IN  [source |-> o, role |-> observation.role, relation |-> observation.relation,
         confidence |-> IF fact /\ groundable THEN sentence.overlap
                        ELSE Min({79, sentence.overlap \div 2}),
         grounding |-> fact /\ groundable /\ observation.relation = "SUPPORTS"]

\* At most one row for each observation that has a matching sentence.
EvidenceFor(claim, observations) ==
    {EvidenceOf(claim, o, observations[o]) :
        o \in {o \in DOMAIN observations :
                 /\ Admissible(claim, o, observations[o])
                 /\ BestSentence(claim, observations[o].sentences) # 0}}

StatusOf(evidence) ==
    CASE \E e \in evidence : e.role \in FactRoles /\ e.relation = "CONTRADICTS" -> "CONTRADICTED"
      [] \E e \in evidence : e.grounding -> "VERIFIED"
      [] \E e \in evidence : e.role \in DiscoveryRoles -> "DISCOVERY_ONLY"
      [] OTHER -> "INSUFFICIENT"

\* The best grounding row's confidence, else the least of the discovery rows'; 0 for none.
ConfidenceOf(evidence) ==
    LET best == {e.confidence : e \in {e \in evidence : e.grounding}}
        least == {e.confidence : e \in {e \in evidence : e.role \in DiscoveryRoles}}
    IN  CASE best # {} -> Max(best)
          [] least # {} -> Min(least)
          [] OTHER -> 0

ClassifyPreparedClaimEvidence(claim, observations) ==
    LET evidence == EvidenceFor(claim, observations)
    IN  [status |-> StatusOf(evidence), confidence |-> ConfidenceOf(evidence), evidence |-> evidence]
==============================================================================
