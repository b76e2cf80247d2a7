---------------------------- MODULE StoryMatching ----------------------------
(***************************************************************************)
(* How a post is compared with the stories there are: the features of a    *)
(* post, the signature of a cluster, the weighted score (in thousandths),  *)
(* and the verdict of rules and model.  Words are members of small sets.   *)
(***************************************************************************)
EXTENDS Integers, FiniteSets, FiniteSetsExt

CONSTANTS Terms,      \* entities, events, sources, numbers and words
          SignalSpan, \* how far apart two times still count as near (24 h)
          ActiveSpan, \* a story seen within this span is not STALE (6 h)
          ArchiveSpan \* and within this one not ARCHIVED (7 days)

ASSUME MatchingAssumption ==
    /\ SignalSpan \in Nat \ {0}
    /\ IsFiniteSet(Terms)
    /\ ActiveSpan \in Nat /\ ArchiveSpan \in Nat /\ ActiveSpan =< ArchiveSpan

Words == [entities : SUBSET Terms, events : SUBSET Terms, sources : SUBSET Terms,
          numbers : SUBSET Terms, tokens : SUBSET Terms]

Features == [words : Words, at : Nat]

\* captions: the token sets of the merged posts' captions and context
Signature == [entities : SUBSET Terms, events : SUBSET Terms, sources : SUBSET Terms,
              numbers : SUBSET Terms, captions : SUBSET SUBSET Terms,
              first : Nat, last : Nat]

\* What the analysis found in the pictures is added to what the caption says.
ExtractFeatures(caption, found, at) ==
    [words |-> [k \in DOMAIN caption |-> caption[k] \cup found[k]], at |-> at]

-----------------------------------------------------------------------------
Overlap(a, b) == a \cap b # {}

Jaccard(a, b) ==
    IF a = {} \/ b = {} THEN 0
    ELSE (100 * Cardinality(a \cap b)) \div Cardinality(a \cup b)

CaptionSimilarity(f, sig) == Max({0} \cup {Jaccard(f.words.tokens, c) : c \in sig.captions})

TimeProximity(f, sig) ==
    LET d == IF f.at < sig.first THEN sig.first - f.at
             ELSE IF f.at > sig.last THEN f.at - sig.last ELSE 0
    IN  IF d >= SignalSpan THEN 0 ELSE (100 * (SignalSpan - d)) \div SignalSpan

Score(f, sig) ==
    LET weight(b, w) == IF b THEN w ELSE 0
    IN  weight(Overlap(f.words.entities, sig.entities), 350)
      + weight(Overlap(f.words.events, sig.events), 200)
      + weight(Overlap(f.words.sources, sig.sources), 150)
      + weight(Overlap(f.words.numbers, sig.numbers), 100)
      + TimeProximity(f, sig) + CaptionSimilarity(f, sig)

\* The same subject, with events that have nothing in common.
Contradiction(f, sig) ==
    /\ Overlap(f.words.entities, sig.entities)
    /\ f.words.events # {} /\ sig.events # {}
    /\ ~Overlap(f.words.events, sig.events)

\* An event in common counts only with an entity in common, which is enough.
Prefilter(f, sig) ==
    \/ Overlap(f.words.entities, sig.entities)
    \/ Overlap(f.words.sources, sig.sources)
    \/ Overlap(f.words.numbers, sig.numbers)
    \/ CaptionSimilarity(f, sig) >= 25

Decision(f, sig) ==
    CASE Contradiction(f, sig) \/ Score(f, sig) =< 400 -> "SEPARATE"
      [] ~Contradiction(f, sig) /\ Score(f, sig) >= 850 ->
            IF Overlap(f.words.entities, sig.entities) THEN "AUTO_MERGE" ELSE "SEPARATE"
      [] OTHER -> "AMBIGUOUS"

\* The signature of a story with one post: its caption is not in it yet.
SeedSignature(f) ==
    [entities |-> f.words.entities, events |-> f.words.events,
     sources |-> f.words.sources, numbers |-> f.words.numbers,
     captions |-> {}, first |-> f.at, last |-> f.at]

\* Mutant: the post's words take the place of the story's.
MergeSignatureLatest(sig, f) ==
    [sig EXCEPT !.entities = f.words.entities, !.events = f.words.events,
                !.sources = f.words.sources, !.numbers = f.words.numbers,
                !.captions = @ \cup {f.words.tokens}]

MergeSignature(sig, f) ==
    [entities |-> sig.entities \cup f.words.entities,
     events   |-> sig.events \cup f.words.events,
     sources  |-> sig.sources \cup f.words.sources,
     numbers  |-> sig.numbers \cup f.words.numbers,
     captions |-> sig.captions \cup {f.words.tokens},
     first    |-> Min({sig.first, f.at}),
     last     |-> Max({sig.last, f.at})]

\* Age decides first; a fresh story is ACTIVE from its second post on.
Lifecycle(status, last, members, at) ==
    CASE status = "ARCHIVED" \/ last + ArchiveSpan < at -> "ARCHIVED"
      [] status # "ARCHIVED" /\ last + ArchiveSpan >= at ->
            IF last + ActiveSpan < at THEN "STALE"
            ELSE IF last =< at /\ members >= 2 THEN "ACTIVE" ELSE "OPEN"

-----------------------------------------------------------------------------
\* What a call of the language model comes to: "none" (disabled, no key, timeout,
\* unavailable, invalid answer), "unsure" (an opinion below 0.90), or an opinion.
Answers == {"none", "unsure", "same", "different"}

\* Only a confident opinion decides; everything else goes to a person.
Verdict(answer) ==
    CASE answer = "same" -> "SAME_STORY"
      [] answer = "different" -> "DIFFERENT_STORY"
      [] OTHER -> "MANUAL_REVIEW"

Verdicts == {"SAME_STORY", "DIFFERENT_STORY", "MANUAL_REVIEW", "ERROR"}
==============================================================================
