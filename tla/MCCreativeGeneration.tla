------------------------- MODULE MCCreativeGeneration -------------------------
(* One story of two articles: the first, a reported rumour, is verified and *)
(* grows too old at once; the second carries the prediction of an event,    *)
(* which is verified too but never a ground for news.                       *)
EXTENDS CreativeGeneration, TLC

CONSTANTS e1, e2, s1, s2, c1, r1, r2

Page(o, text, t, found) ==
  [id |-> o, publisher |-> "bbc", url |-> "PUBLISHER", text |-> text, published |-> {t},
   extraction |-> "NONE", enrichment |-> "EXTRACTED", long |-> TRUE, discovered |-> found,
   modality |-> "UNKNOWN"]

Report(status) ==
  [id |-> "c", status |-> status, scope |-> "PUBLISHER_REPORT", modality |-> "RUMOR"]

Story(status) ==
  [posts |-> {"p"}, cited |-> {"romano"}, scores |-> {"posts"},
   claims |-> {Report(status), [id |-> "d", status |-> status, scope |-> "EVENT", modality |-> "PREDICTION"]},
   evidence |-> {[claim |-> c, obs |-> o, role |-> "FACT_INDEPENDENT", relation |-> "SUPPORTS",
                  grounding |-> TRUE, text |-> TRUE] : <<c, o>> \in {<<"c", 1>>, <<"d", 2>>}},
   observations |-> {Page(1, "t1", -1, FALSE), Page(2, "t2", 0, TRUE)},
   reliable |-> [p \in {"bbc"} |-> TRUE],
   signals |-> {"news", "analysis"}, archived |-> FALSE, relevant |-> TRUE,
   newsEligible |-> TRUE, rankedOn |-> 0, lastSeen |-> 0]

MCRowsOf == [k \in Explorations \cup Standards |->
  Story(IF k = s2 THEN "INSUFFICIENT" ELSE "VERIFIED")]
OneCandidate == [k \in Explorations \cup Standards |-> c1]
MCCandidateDay == [c \in Candidates |-> 0]
MCTextsOf == (e1 :> {"t1", "t2"}) @@ (e2 :> {"t2"})
AllNews == [k \in Standards |-> "NEWS_UPDATE"]

\* Four slides, whose copy is one text and whose claims are another; the second
\* rests on other evidence than the rest.
Answer(mode, told, says, refs, second) ==
  LET copy == [says |-> told, names |-> refs]
      Slide(on) == [copy |-> copy, claims |-> {[text |-> [says |-> says, names |-> refs], refs |-> on]}]
  IN  [mode |-> mode, phase |-> NoPhase, wellFormed |-> TRUE, warned |-> TRUE,
       slides |-> <<Slide(refs), Slide(second), Slide(refs), Slide(refs)>>,
       cites |-> {[id |-> e, exact |-> TRUE] : e \in refs}, caption |-> copy]

Doubtful == {"report", "hedge"}
Certain == {"report", "confirmation"}
Claim == {<<"claim", "c", 1>>}
Post == {<<"post", "p">>}
Score == {<<"score", "posts">>}
Article2 == {<<"article", 2>>}

\* Grounded news whose copy confirms the rumour its claims report; news of which
\* one claim rests on a post; news whose claims confirm the rumour; an analysis of a
\* post and a score; an exploration of the second article.
MCAnswers ==
  {Answer("NEWS_UPDATE", Certain, Doubtful, Claim, Claim),
   Answer("NEWS_UPDATE", Doubtful, Doubtful, Claim, Post),
   Answer("NEWS_UPDATE", Doubtful, Doubtful \cup {"confirmation"}, Claim, Claim),
   Answer("ANALYSIS_CONTEXT", {}, {}, Post, Score),
   Answer("NEWS_UPDATE", Doubtful, Doubtful, Article2, Article2)}

MCSymmetry == Permutations({r1, r2})
==============================================================================
