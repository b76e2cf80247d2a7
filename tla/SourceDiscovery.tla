--------------------------- MODULE SourceDiscovery ----------------------------
(***************************************************************************)
(* Source discovery: a run reads the configured feeds one after another    *)
(* and saves what they list, with the article's own text when it could be  *)
(* fetched and says more than the feed does.  Claims are grounded in what  *)
(* it saved.                                                               *)
(*                                                                         *)
(* A text is [sentences, length]; a block of a feed is [item, usable,      *)
(* included, late, summary].                                               *)
(***************************************************************************)
EXTENDS EvidenceMatching, SequencesExt

CONSTANTS Observations,     \* the rows source_observations may have
          RoleOf,           \* the editorial role of an observation's feed
          Feeds,            \* the configured feeds, in order
          FeedRole,         \* [feed -> role]
          DocumentsOf,      \* [feed -> the block sequences it may answer]
          Bodies,           \* the texts that may be extracted from an article's page
          MaxItems,         \* SOURCE_DISCOVERY_MAX_ITEMS
          \* bounds
          MaxSourceRuns

Text(sentences, length) == [sentences |-> sentences, length |-> length]
NoText == Text(<<>>, 0)

\* A text's sentences are in order, and each shares a part of a claim's words.
IsText(text) ==
    /\ Len(text.sentences) \in Nat /\ DOMAIN text.sentences = 1 .. Len(text.sentences)
    /\ \A i \in DOMAIN text.sentences : text.sentences[i].overlap \in 0..100

ASSUME SourceDiscoveryAssumption ==
    /\ MaxItems \in Nat \ {0} /\ MaxSourceRuns \in Nat
    /\ IsFiniteSet(Observations)
    /\ Feeds \in Seq(DOMAIN FeedRole)
    /\ \A body \in Bodies : IsText(body)
    /\ \A f \in DOMAIN FeedRole : \A document \in DocumentsOf[f] :
         \A i \in DOMAIN document :
           RoleOf[document[i].item] = FeedRole[f] /\ IsText(document[i].summary)

VARIABLES
    observation,    \* source_observations: [text, reportOnly], or Unseen
    sourceRun,      \* the running source discovery: the feeds left, the items left of one
    sourceRuns

sourceVars == <<observation, sourceRun, sourceRuns>>

Unseen == [text |-> NoText, reportOnly |-> FALSE, seen |-> FALSE]
Saved(text, reportOnly) == [text |-> text, reportOnly |-> reportOnly, seen |-> TRUE]
NoSourceRun == [feeds |-> <<>>, items |-> {}]

SourceInit ==
    /\ observation = [o \in Observations |-> Unseen]
    /\ sourceRun = NoSourceRun
    /\ sourceRuns = 0

BeginSourceRun ==
    /\ sourceRun = NoSourceRun /\ sourceRuns < MaxSourceRuns
    /\ sourceRun' = [NoSourceRun EXCEPT !.feeds = Feeds]
    /\ sourceRuns' = sourceRuns + 1
    /\ UNCHANGED observation

\* The places of the first blocks of a feed, those with an id, a title and an https link,
\* and one of the feed's terms if it has any.
ParseFeedDocument(document) ==
    {i \in DOMAIN document : i =< MaxItems /\ document[i].usable /\ document[i].included}

\* An article is read for the feeds of facts only.
ArticleExcerpts(feed) == {NoText} \cup IF FeedRole[feed] \in FactRoles THEN Bodies ELSE {}

\* What is saved: the article's text if it is longer than the feed's summary.
EnrichedExcerpt(summary, fetched) == IF fetched.length > summary.length THEN fetched ELSE summary

\* The feed is read and parsed, unless it fails; items later than the run are left out.
FetchFeed ==
    /\ sourceRun.feeds # <<>> /\ sourceRun.items = {}
    /\ LET feed == Head(sourceRun.feeds)
       IN  \E document \in DocumentsOf[feed] \cup {<<>>} :
             sourceRun' = [feeds |-> Tail(sourceRun.feeds),
                           items |-> {[at |-> i, block |-> document[i], feed |-> feed] :
                                        i \in {i \in ParseFeedDocument(document) : ~document[i].late}}]
    /\ UNCHANGED <<observation, sourceRuns>>

\* saveObservation, of one item after another: an insert that ignores a duplicate, then
\* a patch of the same row.
SaveObservation ==
    /\ \E next \in sourceRun.items :
         /\ \A item \in sourceRun.items : next.at =< item.at
         /\ \E fetched \in ArticleExcerpts(next.feed) :
              observation' = [observation EXCEPT ![next.block.item] =
                                Saved(EnrichedExcerpt(next.block.summary, fetched), FALSE)]
         /\ sourceRun' = [sourceRun EXCEPT !.items = @ \ {next}]
    /\ UNCHANGED sourceRuns

\* A save that fails drops the rest of its feed; the next feed is read.
FailFeed ==
    /\ sourceRun.items # {}
    /\ sourceRun' = [sourceRun EXCEPT !.items = {}]
    /\ UNCHANGED <<observation, sourceRuns>>

SourceNext == BeginSourceRun \/ FetchFeed \/ SaveObservation \/ FailFeed
==============================================================================
