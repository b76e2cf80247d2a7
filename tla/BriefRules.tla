------------------------------ MODULE BriefRules ------------------------------
(***************************************************************************)
(* What creative generation computes without touching its tables: the      *)
(* evidence it builds from a story's rows, the content mode, the articles  *)
(* an exploration may use, and the quality gate over the provider's answer. *)
(*                                                                         *)
(* Text is what the rules find in it: says, of the patterns "report",      *)
(* "hedge", "denial", "opinion", "confirmation" and "negated", and names,  *)
(* the id of each piece of evidence whose publisher name and exact URL it  *)
(* carries.  An answer that fails a rule of form (hooks, visual direction, *)
(* blank text, style, hashtags, repeated copy) is not wellFormed.          *)
(***************************************************************************)
EXTENDS Integers, Sequences, FiniteSets

CONSTANTS
  MaxArticleAge,        \* maxArticleAgeHours
  MaxArticles,          \* maxArticlesPerStory
  FreshSpan,            \* 72 hours since the story was last seen
  MinSlides, MaxSlides  \* of a STANDARD brief, min_slides and max_slides

ASSUME BriefRulesAssumption ==
  /\ MaxArticleAge \in Nat /\ FreshSpan \in Nat
  /\ MaxArticles \in Nat \ {0}
  /\ MinSlides \in Nat \ {0} /\ MaxSlides \in Nat

Modes == {"NEWS_UPDATE", "ANALYSIS_CONTEXT", "MATCH_CONTENT"}
Phases == {"PRE_MATCH", "LIVE", "POST_MATCH"}
NoPhase == "NONE"
Unset == "UNSET"

-----------------------------------------------------------------------------
(* Evidence *)

\* https, a public host, and none of Google's.
ValidPublisherUrl(url) == url = "PUBLISHER"

\* Evidence rows of verified claims that ground them, joined to the observation
\* and to the observation's publisher; a row that cannot be joined is skipped.
M8GroundedSources(rows) ==
  LET Grounds(e) ==
        e.grounding /\ e.relation = "SUPPORTS" /\ e.text
          /\ e.role \in {"FACT_PRIMARY", "FACT_INDEPENDENT"}
      Joined(e, c, o) ==
        /\ e.claim = c.id /\ e.obs = o.id
        /\ c.status = "VERIFIED" /\ o.publisher \in DOMAIN rows.reliable
      Source(c, o) ==
        [id |-> <<"claim", c.id, o.id>>, of |-> {o.id}, verified |-> TRUE,
         reliable |-> rows.reliable[o.publisher], url |-> o.url,
         scope |-> c.scope, modality |-> c.modality]
  IN  {Source(x[2], x[3]) : x \in
         {x \in rows.evidence \X rows.claims \X rows.observations :
            Grounds(x[1]) /\ Joined(x[1], x[2], x[3])}}

\* The sources a story's posts cite; they have no claim, so none is verified.
LegacySources(rows) ==
  {[id |-> <<"source", s>>, of |-> {}, verified |-> FALSE, reliable |-> TRUE,
    url |-> Unset, scope |-> Unset, modality |-> Unset] : s \in rows.cited}

Sources(rows) == LegacySources(rows) \cup M8GroundedSources(rows)

VerifiedNewsSources(sources) ==
  {s \in sources :
     /\ s.verified /\ s.reliable /\ ValidPublisherUrl(s.url)
     /\ \/ s.scope = "PUBLISHER_REPORT" /\ s.modality \notin {Unset, "UNKNOWN"}
        \/ s.scope = "EVENT" /\ s.modality = "CONFIRMED"}

\* The claims' modality for an observation: one that is not CONFIRMED wins
\* (which, of several, the unordered query decides); if no claim has one, that of the
\* discovery that led to it.
ArticleModality(rows, o) ==
  LET found == {c.modality : c \in {c \in rows.claims :
                  c.modality # Unset /\ \E e \in rows.evidence : e.claim = c.id /\ e.obs = o.id}}
      doubtful == found \ {"CONFIRMED"}
  IN  IF doubtful # {} THEN CHOOSE m \in doubtful : TRUE
      ELSE IF found # {} THEN "CONFIRMED" ELSE o.modality

\* Observations a claim's evidence or a discovery names.  An article's marks come
\* from the observation, or else from the discovery that led to it.
M8ExplorationArticles(rows) ==
  LET Related(o) == (\E e \in rows.evidence : e.obs = o.id) \/ o.discovered
  IN  {[id |-> <<"article", o.id>>, of |-> o.id, name |-> o.publisher # Unset,
        url |-> o.url, text |-> o.text, published |-> o.published,
        extracted |-> "EXTRACTED" \in {o.extraction, o.enrichment},
        long |-> o.long, modality |-> ArticleModality(rows, o)] :
         o \in {o \in rows.observations : Related(o) /\ o.url # Unset}}

\* The frozen evidence: what a claim may name, and the separate review channel.
BuildEvidenceSnapshot(rows, exploration) ==
  LET articles == IF exploration THEN M8ExplorationArticles(rows) ELSE {}
      sources == Sources(rows)
  IN  [sources |-> sources, articles |-> articles,
       ids |-> {<<"post", p>> : p \in rows.posts} \cup {s.id : s \in sources} \cup {a.id : a \in articles}
               \cup {<<"score", key>> : key \in rows.scores}]

\* The ranking is today's, its story eligible and seen within 72 hours.
CurrentEditorialEligibility(rows, at, day, candidateDay) ==
  /\ rows.newsEligible
  /\ rows.rankedOn = day /\ rows.rankedOn = candidateDay
  /\ at - rows.lastSeen \in 0..FreshSpan

-----------------------------------------------------------------------------
(* Classification *)

Undecided == <<"NONE", NoPhase>>

\* The keyword groups of the evidence text decide the mode, or they do not.
ClassifyDeterministically(signals) ==
  LET phases == signals \cap Phases
  IN  IF "match" \in signals
      THEN IF Cardinality(phases) = 1 THEN <<"MATCH_CONTENT", CHOOSE p \in phases : TRUE>>
                                      ELSE Undecided
      ELSE IF {"news", "analysis"} \subseteq signals THEN Undecided
      ELSE IF "news" \in signals THEN <<"NEWS_UPDATE", NoPhase>>
      ELSE IF "analysis" \in signals THEN <<"ANALYSIS_CONTEXT", NoPhase>>
      ELSE Undecided

\* An answer of the model whose phase does not fit its mode is not used.
ValidAiClassification(mode, phase) ==
  mode \in Modes /\ (phase \in Phases <=> mode = "MATCH_CONTENT")

\* The modes a request may get; Undecided is CLASSIFICATION_UNCERTAIN.
ClassifyWithFallback(signals) ==
  LET decided == ClassifyDeterministically(signals)
  IN  IF decided # Undecided THEN {decided}
      ELSE {Undecided} \cup
           {c \in Modes \X (Phases \cup {NoPhase}) : ValidAiClassification(c[1], c[2])}

-----------------------------------------------------------------------------
(* Explorations *)

\* Why an article is refused does not matter here, only that it is.
AssessExplorationArticle(a, at, historical) ==
  /\ a.name /\ ValidPublisherUrl(a.url) /\ a.extracted /\ a.long
  /\ \E t \in a.published : t <= at /\ (at - t <= MaxArticleAge \/ historical)

\* The first eligible articles in the order of their ids, which is not the order
\* of their publication; no article of an archived or unrelated story.
AssessExplorationSnapshot(rows, at, historical) ==
  LET eligible == {a \in M8ExplorationArticles(rows) : AssessExplorationArticle(a, at, historical)}
      Before(a) == {b \in eligible : b.of < a.of}
  IN  IF rows.archived \/ ~rows.relevant THEN {}
      ELSE {a \in eligible : Cardinality(Before(a)) < MaxArticles}

\* The texts, so that another date's candidate of the story gets the same one.
ExplorationFingerprint(articles) == {a.text : a \in articles}

\* findExistingBriefForStory: an article of the exploration is a source of the
\* STANDARD briefs of its story.
CitedByStandard(rows, articles) ==
  \E s \in Sources(rows), a \in articles : a.of \in s.of

ExplorationSlideBounds(mode) ==
  CASE mode = "NEWS_UPDATE" -> 2..4
    [] mode = "ANALYSIS_CONTEXT" -> 4..6
    [] mode = "MATCH_CONTENT" -> 3..5
=============================================================================
