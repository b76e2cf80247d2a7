------------------------------- MODULE BriefGate -------------------------------
(***************************************************************************)
(* The quality gate: what an answer of the provider must be before it is   *)
(* stored as a brief, and the one repair it may be given.                  *)
(***************************************************************************)
EXTENDS BriefRules

\* A doubtful report is told as one.
ModalityPreserved(modality, text) ==
  CASE modality \in {"RUMOR", "PREDICTION"} -> "hedge" \in text.says
    [] modality = "DENIAL" -> "denial" \in text.says
    [] modality = "OPINION" -> "opinion" \in text.says
    [] OTHER -> TRUE

\* One negated confirmation excuses every confirmation of the text.
UnsupportedConfirmation(modality, text) ==
  modality # "CONFIRMED" /\ "confirmation" \in text.says /\ "negated" \notin text.says

Faithful(modality, text) ==
  ModalityPreserved(modality, text) /\ ~UnsupportedConfirmation(modality, text)

Claims(d) == UNION {d.slides[i].claims : i \in DOMAIN d.slides}
SlideCopy(d) ==
  [says |-> UNION {d.slides[i].copy.says : i \in DOMAIN d.slides},
   names |-> UNION {d.slides[i].copy.names : i \in DOMAIN d.slides}]

\* Wherever the answer's list of sources has it, with its name and exact URL.
Cites(d, e) == \A c \in d.cites : c.id = e.id => c.exact

\* Rules of every answer.  Its mode is the answer's own, whatever was asked for;
\* every claim, fact or inference, names evidence, and only evidence that exists.
FormIsValid(d, snapshot, slides) ==
  /\ d.mode \in Modes /\ (d.phase \in Phases <=> d.mode = "MATCH_CONTENT")
  /\ d.wellFormed
  /\ Len(d.slides) \in slides
  /\ \A c \in Claims(d) : c.refs # {} /\ c.refs \subseteq snapshot.ids
  /\ \A c \in d.cites : c.id \in snapshot.ids

\* Every claim names a verified source, tells it as doubtfully as it is told and,
\* when the source only reports, says so.  How doubtfully the headlines, the copy of
\* the slides and the caption tell it is not looked at.
NewsIsGrounded(d, sources) ==
  LET strict == VerifiedNewsSources(sources)
      Support(c) == {s \in strict : s.id \in c.refs}
  IN  \A c \in Claims(d) :
        /\ Support(c) # {}
        /\ \A s \in Support(c) :
             /\ s.scope = "PUBLISHER_REPORT" => "report" \in c.text.says
             /\ Faithful(s.modality, c.text)

\* At least one of the claims' sources is listed, by name and exact URL, and what
\* is listed is named on the slides and in the caption.
NewsIsCited(d, sources) ==
  LET used == {s \in VerifiedNewsSources(sources) : \E c \in Claims(d) : s.id \in c.refs}
      listed == {s \in used : \E c \in d.cites : c.id = s.id}
      Names(text, s) ==
        s.id \in text.names /\ (s.scope = "PUBLISHER_REPORT" => "report" \in text.says)
  IN  /\ listed # {}
      /\ \A s \in listed : Cites(d, s) /\ Names(SlideCopy(d), s) /\ Names(d.caption, s)

\* The same over the eligible articles, where the slides and the caption must be
\* faithful too, and the editor is warned.
ExplorationIsGrounded(d, articles) ==
  LET Support(c) == {a \in articles : a.id \in c.refs}
  IN  \A i \in DOMAIN d.slides : \A c \in d.slides[i].claims :
        /\ Support(c) # {} /\ "report" \in c.text.says
        /\ \A a \in Support(c) :
             Faithful(a.modality, c.text) /\ Faithful(a.modality, d.slides[i].copy)

ExplorationIsCited(d, articles) ==
  LET used == {a \in articles : \E c \in Claims(d) : a.id \in c.refs}
      listed == {a \in used : \E c \in d.cites : c.id = a.id}
  IN  /\ listed # {}
      /\ \A a \in listed :
           /\ Cites(d, a) /\ a.id \in SlideCopy(d).names /\ a.id \in d.caption.names
           /\ Faithful(a.modality, d.caption)
      /\ d.warned

\* qualityConfig: an exploration's bounds depend on the mode that was asked for.
SlideBounds(exploration, mode) ==
  IF exploration THEN ExplorationSlideBounds(mode) ELSE MinSlides..MaxSlides

ValidateCreativeBrief(d, snapshot, exploration, mode, at, historical) ==
  LET articles == {a \in snapshot.articles : AssessExplorationArticle(a, at, historical)}
  IN  /\ FormIsValid(d, snapshot, SlideBounds(exploration, mode))
      /\ ~exploration /\ d.mode = "NEWS_UPDATE" =>
           NewsIsGrounded(d, snapshot.sources) /\ NewsIsCited(d, snapshot.sources)
      /\ exploration => ExplorationIsGrounded(d, articles) /\ ExplorationIsCited(d, articles)
=============================================================================
