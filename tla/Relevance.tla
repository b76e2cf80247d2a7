------------------------------ MODULE Relevance ------------------------------
(***************************************************************************)
(* The deterministic gate that keeps stories of other clubs and sports out *)
(* of the editor's pipeline.  A text is what the gate tells apart in it:   *)
(* which vocabularies its title, body, entities and topic hit, and in      *)
(* which order; the vocabularies themselves are left out.                  *)
(***************************************************************************)
EXTENDS Naturals

\* The findings of the text scans, each TRUE or FALSE.
Signal == {"title",       \* United or one of its people is in the title
           "explicit",    \* the club itself is named in the title
           "body", "entity",
           "focused",     \* a source account that covers United only
           "sport",       \* another sport in the title or the topic
           "city",        \* Manchester City anywhere
           "lead",        \* the page's lead names United before City
           "roundup",     \* a list of rumours about two clubs or more
           "opponent",    \* another club comes before United in the title
           "other",       \* another club is in the title
           "fixture",     \* words of a match, with a match-like topic
           "secondary"}   \* United only after another club, or far back

\* A text, as the set of its signals; naming the club in the title is a hit in it.
Texts == {s \in SUBSET Signal : "explicit" \in s => "title" \in s}

United(s) == s \cap {"title", "body", "entity"} # {}

CityComparison(s) == "city" \in s /\ s \cap {"explicit", "lead"} = {}

MatchContext(s) ==
    {"opponent", "fixture"} \subseteq s /\ s \cap {"body", "entity"} # {}

Primary(s) ==
    /\ "title" \in s
    /\ s \cap {"body", "entity", "focused"} # {}
    /\ "secondary" \notin s

Mentioned(s) == IF United(s) THEN "INCIDENTAL_MENTION" ELSE "UNRELATED"

\* The first rule that applies decides.
RelevanceClass(s) ==
    CASE "sport" \in s                                  -> "OTHER_SPORT"
      [] "sport" \notin s /\ CityComparison(s)          -> Mentioned(s)
      [] OTHER ->
         CASE "roundup" \in s /\ United(s)              -> "TRANSFER_ROUNDUP"
           [] OTHER ->
              IF MatchContext(s) THEN "OPPONENT_MATCH_CONTEXT"
              ELSE IF "other" \in s /\ {"title", "fixture"} \cap s = {}
                   THEN Mentioned(s)
              ELSE IF Primary(s) \/ ("focused" \in s /\ ~United(s))
                   THEN "UNITED_PRIMARY"
              ELSE Mentioned(s)

AutoEligible(s) == RelevanceClass(s) \in {"UNITED_PRIMARY", "OPPONENT_MATCH_CONTEXT"}

\* Callers without structured evidence: what the classifier refuses is let
\* through when United or a focused source is in it and nothing speaks against.
Relevant(s) ==
    \/ AutoEligible(s)
    \/ /\ s \cap {"sport", "city", "secondary"} = {}
       /\ United(s) \/ "focused" \in s
==============================================================================
