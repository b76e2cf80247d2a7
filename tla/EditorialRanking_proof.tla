----------------------- MODULE EditorialRanking_proof -----------------------
(***************************************************************************)
(* Proofs about claim grounding and the editorial ranking, for every set   *)
(* of overlapping chains and runs, every world of claims, texts and roles, *)
(* and every number of kills: the status of a claim is what its evidence   *)
(* says, and the ranking shown is the list of one run, without ties.       *)
(***************************************************************************)
EXTENDS EditorialRanking, FiniteSetTheorems, WellFoundedInduction, TLAPS

Percent == 0..100

\* What is saved of a source, and what a run has still to save, are texts.
SourceTypes ==
    /\ DOMAIN observation = Observations
    /\ \A o \in Observations : IsText(observation[o].text)
    /\ sourceRun = [feeds |-> sourceRun.feeds, items |-> sourceRun.items]
    /\ sourceRun.feeds \in Seq(DOMAIN FeedRole)
    /\ \A item \in sourceRun.items : IsText(item.block.summary)

IsJob(j) == DOMAIN j = {"pc", "cursor", "asOf", "heard", "todo", "item", "next"}

IsHeard(heard) == \A o \in DOMAIN heard : o \in Observations /\ IsText(heard[o])

JobTypes ==
    /\ DOMAIN job = Grounders
    /\ \A g \in Grounders : IsJob(job[g]) /\ IsHeard(job[g].heard)

\* The rows of claims have confidences, and evidence comes from observations.
ClaimTypes ==
    /\ DOMAIN claimRow = Claims /\ DOMAIN evidence = Claims /\ DOMAIN torn = Claims
    /\ DOMAIN row = 1..MaxRows
    /\ \A c \in Claims : /\ claimRow[c].confidence \in Percent
                         /\ \A e \in evidence[c] : e.source \in Observations

GroundingTypes == SourceTypes /\ JobTypes /\ ClaimTypes

\* A chain knows rows that there are, and a page's claims until it is done with them.
PageInv ==
    \A g \in Grounders :
        /\ job[g].asOf \subseteq Rows
        /\ job[g].pc \in {"claim", "evidence", "stale"} => job[g].todo \subseteq PageClaims(g)
        /\ job[g].pc \in {"evidence", "stale"} => job[g].item \in job[g].todo

\* A chain has a claim of its page still to write.
Pending(g, c) ==
    \/ job[g].pc = "load" /\ \E x \in PageClaims(g) : x.claim = c
    \/ /\ job[g].pc \in {"claim", "evidence", "stale"} /\ g \notin InFlight(c)
       /\ \E x \in job[g].todo : x.claim = c

\* A claim that a promotion wrote again and no chain since.
Reset(c) == "promotion" \in torn[c] /\ claimRow[c].status = "INSUFFICIENT"

\* Two that write a claim at once are known; one that is alone with it has written the
\* status that its own evidence gives, and in the end that evidence; one that was killed
\* there has it still to write.
Wrote(g, c) ==
    /\ claimRow[c].status = Result(g).status \/ Reset(c)
    /\ job[g].pc = "stale" =>
         Standing(evidence[c], {e.source : e \in Result(g).evidence}) = Result(g).evidence

Crowded(c) == \A g, h \in InFlight(c) : g # h => "overlap" \in torn[c]

Settled(c) ==
    claimRow[c] # NoClaimRow /\ InFlight(c) = {} =>
        \/ claimRow[c].status = StatusOf(evidence[c])
        \/ torn[c] \cap Grounders # {} \/ Reset(c) \/ "overlap" \in torn[c]

WritingOf(c) ==
    /\ Crowded(c)
    /\ \A g \in InFlight(c) : "overlap" \notin torn[c] => Wrote(g, c)
    /\ \A g \in torn[c] \cap Grounders : Pending(g, c)
    /\ Settled(c)

WritingInv == PageInv /\ \A c \in Claims : WritingOf(c)

-----------------------------------------------------------------------------
\* A list has a rank of its own for each of its stories, from the first to the last.
IsList(list) ==
    /\ list = [s \in DOMAIN list |-> list[s]]
    /\ DOMAIN list \subseteq Stories
    /\ {list[s].rank : s \in DOMAIN list} = 1 .. Cardinality(DOMAIN list)

IsRun(k) == DOMAIN k = {"pc", "list", "todo", "alone"}

RankTypes ==
    /\ relevant \subseteq Stories
    /\ DOMAIN rank = Rankers
    /\ \A r \in Rankers : IsRun(rank[r]) /\ rank[r].alone \in BOOLEAN
    /\ ranking = [s \in DOMAIN ranking |-> ranking[s]]

\* A run that was alone since it began still is.
Alone == \A r, t \in Rankers : Running(r) /\ rank[r].alone /\ t # r => ~Running(t)

\* A run works through its list, and one that is alone has shown what it has done of it.
Working(r) ==
    /\ rank[r].pc \in {"clear", "write"} => IsList(rank[r].list) /\ rank[r].todo \subseteq DOMAIN rank[r].list
    /\ rank[r].pc = "clear" => rank[r].todo = DOMAIN rank[r].list
    /\ rank[r].pc = "write" /\ rank[r].alone =>
         /\ DOMAIN ranking = DOMAIN rank[r].list \ rank[r].todo
         /\ \A s \in DOMAIN ranking : ranking[s] = rank[r].list[s]

\* What is shown is the table, and nobody writes to it.
ShownIsTable ==
    shown # NoList => /\ ranking = shown /\ IsList(shown)
                      /\ \A r \in Rankers : rank[r].pc # "write"

RankInv == RankTypes /\ Alone /\ (\A r \in Rankers : Working(r)) /\ ShownIsTable

-----------------------------------------------------------------------------
(* Numbers.                                                                *)

LEMMA LeastOfNaturals ==
  ASSUME NEW T \in SUBSET Nat, T # {}
  PROVE  \E x \in T : \A y \in T : x <= y
<1> DEFINE less == OpToRel(<, Nat)
<1>1. \A x, y \in T : y < x => <<y, x>> \in less
  BY DEF OpToRel
<1>2. IsWellFoundedOn(less, Nat)
  BY NatLessThanWellFounded
<1> HIDE DEF less
<1>3. \E x \in T : \A y \in T : ~ (<<y, x>> \in less)
  BY <1>2, WFMin, Zenon
<1>4. PICK x \in T : \A y \in T : ~ (y < x)
  BY <1>1, <1>3
<1> QED
  BY <1>4

LEMMA LeastIsOne ==
  ASSUME NEW T \in SUBSET Nat, T # {}
  PROVE  Min(T) \in T
BY LeastOfNaturals DEF Min

LEMMA GreatestPercent ==
  ASSUME NEW T \in SUBSET Percent, T # {}
  PROVE  Max(T) \in T /\ \A x \in T : x <= Max(T)
<1> DEFINE left == {100 - x : x \in T}
<1>1. left \in SUBSET Nat /\ left # {}
  <2>1. \A x \in T : 100 - x \in Nat
    BY DEF Percent
  <2>2. \E x \in T : TRUE
    OBVIOUS
  <2> QED
    BY <2>1, <2>2
<1>2. PICK y \in left : \A z \in left : y <= z
  BY <1>1, LeastOfNaturals
<1>3. PICK x \in T : y = 100 - x
  BY <1>2
<1>4. \A z \in T : x >= z
  BY <1>2, <1>3 DEF Percent
<1> QED
  BY <1>4 DEF Max, Percent

LEMMA BoundedIsPercent ==
  ASSUME NEW x \in Int
  PROVE  Bounded(x) \in Percent
<1>1. Min({100, x}) \in {100, x} /\ Min({100, x}) <= 100
  <2>1. \E m \in {100, x} : \A n \in {100, x} : m <= n
    BY x <= 100 \/ 100 <= x
  <2> QED
    BY <2>1 DEF Min
<1> DEFINE y == Min({100, x})
<1>2. y \in Int /\ y <= 100
  BY <1>1
<1> HIDE DEF y
<1>3. Max({0, y}) \in {0, y} /\ Max({0, y}) >= 0
  <2>1. \E m \in {0, y} : \A n \in {0, y} : m >= n
    BY <1>2, y <= 0 \/ 0 <= y
  <2> QED
    BY <2>1, <1>2 DEF Max
<1> QED
  BY <1>2, <1>3 DEF Bounded, y, Percent

-----------------------------------------------------------------------------
(* What the matcher answers.                                               *)

\* The best sentence is one of the sentences, unless there is none that matches.
LEMMA BestIsSentence ==
  ASSUME NEW claim, NEW text, IsText(text), BestSentence(claim, text.sentences) # 0
  PROVE  /\ BestSentence(claim, text.sentences) \in DOMAIN text.sentences
         /\ text.sentences[BestSentence(claim, text.sentences)].overlap \in Percent
<1> DEFINE sentences == text.sentences
           found == {i \in DOMAIN sentences : Matches(claim, sentences[i])}
           best == {i \in found : \A j \in found : sentences[i].overlap >= sentences[j].overlap}
           shares == {sentences[i].overlap : i \in found}
<1>1. found # {} /\ BestSentence(claim, sentences) = Min(best)
  BY DEF BestSentence
<1>2. DOMAIN sentences \subseteq Nat /\ \A i \in DOMAIN sentences : sentences[i].overlap \in Percent
  BY DEF IsText, Percent
<1>3. shares \subseteq Percent /\ shares # {}
  <2>1. found \subseteq DOMAIN sentences
    OBVIOUS
  <2> HIDE DEF found
  <2> QED
    BY <1>1, <1>2, <2>1
<1>4. Max(shares) \in shares /\ \A x \in shares : x <= Max(shares)
  <2> HIDE DEF shares
  <2> QED
    BY <1>3, GreatestPercent
<1>5. PICK i \in found : sentences[i].overlap = Max(shares)
  BY <1>4
<1>6. \A j \in found : sentences[i].overlap >= sentences[j].overlap
  <2>1. \A j \in found : sentences[j].overlap \in shares
    OBVIOUS
  <2> QED
    BY <1>2, <1>4, <1>5, <2>1 DEF Percent
<1>7. best \subseteq Nat /\ best # {}
  BY <1>2, <1>5, <1>6
<1>8. Min(best) \in best
  <2> HIDE DEF best
  <2> QED
    BY <1>7, LeastIsOne
<1> QED
  BY <1>1, <1>2, <1>8

LEMMA HalfIsPercent ==
  ASSUME NEW x \in Percent
  PROVE  Min({79, x \div 2}) \in Percent
<1>1. x \div 2 \in Percent
  BY DEF Percent
<1>2. PICK y \in Percent : y = x \div 2
  BY <1>1
<1>3. \E m \in {79, y} : \A n \in {79, y} : m <= n
  BY <1>2, y <= 79 \/ 79 <= y DEF Percent
<1> QED
  BY <1>2, <1>3 DEF Min, Percent

\* The evidence for a claim comes from what was heard, with a confidence in percent.
LEMMA EvidenceIsHeard ==
  ASSUME NEW claim, NEW heard, IsHeard(heard), NEW e \in EvidenceFor(claim, heard)
  PROVE  e.source \in Observations /\ e.confidence \in Percent
<1>1. PICK o \in DOMAIN heard : /\ BestSentence(claim, heard[o].sentences) # 0
                                /\ e = EvidenceOf(claim, o, heard[o])
  BY DEF EvidenceFor
<1>2. o \in Observations /\ IsText(heard[o])
  BY DEF IsHeard
<1> DEFINE x == heard[o].sentences[BestSentence(claim, heard[o].sentences)].overlap
<1>3. x \in Percent /\ Min({79, x \div 2}) \in Percent
  BY <1>1, <1>2, BestIsSentence, HalfIsPercent
<1>4. e.source = o
  BY <1>1 DEF EvidenceOf
<1>5. e.confidence = x \/ e.confidence = Min({79, x \div 2})
  BY <1>1 DEF EvidenceOf
<1> QED
  BY <1>2, <1>3, <1>4, <1>5

LEMMA ConfidenceIsPercent ==
  ASSUME NEW claim, NEW heard, IsHeard(heard)
  PROVE  ConfidenceOf(EvidenceFor(claim, heard)) \in Percent
<1> DEFINE found == EvidenceFor(claim, heard)
           best == {e.confidence : e \in {e \in found : e.grounding}}
           least == {e.confidence : e \in {e \in found : e.role \in DiscoveryRoles}}
<1>1. \A e \in found : e.confidence \in Percent
  BY EvidenceIsHeard
<1>2. best \subseteq Percent /\ least \subseteq Percent /\ least \subseteq Nat
  <2> HIDE DEF found
  <2> QED
    BY <1>1 DEF Percent
<1>3. /\ best # {} => Max(best) \in Percent
      /\ least # {} => Min(least) \in Percent
  <2> HIDE DEF best, least
  <2> QED
    BY <1>2, GreatestPercent, LeastIsOne
<1>4. \/ best # {} /\ ConfidenceOf(found) = Max(best)
      \/ least # {} /\ ConfidenceOf(found) = Min(least)
      \/ ConfidenceOf(found) = 0
  BY DEF ConfidenceOf
<1> QED
  BY <1>3, <1>4 DEF Percent

-----------------------------------------------------------------------------
(* Types.                                                                  *)

LEMMA SavedIsText ==
  ASSUME NEW text, IsText(text), NEW b
  PROVE  IsText(Saved(text, b).text)
BY DEF Saved

LEMMA NoTextIsText == IsText(NoText)
<1>1. NoText.sentences = <<>>
  BY DEF NoText, Text
<1>2. Len(<<>>) = 0 /\ DOMAIN <<>> = 1..0
  OBVIOUS
<1> QED
  BY <1>1, <1>2 DEF IsText

LEMMA SourcesStayTyped ==
  ASSUME SourceTypes, SourceNext
  PROVE  SourceTypes'
<1>1. CASE BeginSourceRun
  <2>1. sourceRun' = [feeds |-> Feeds, items |-> {}] /\ observation' = observation
    BY <1>1 DEF BeginSourceRun, NoSourceRun
  <2> QED
    BY <2>1, SourceDiscoveryAssumption DEF SourceTypes, IsText
<1>2. CASE FetchFeed
  <2> DEFINE feed == Head(sourceRun.feeds)
             blocks(document) == {i \in ParseFeedDocument(document) : ~document[i].late}
  <2>1. PICK document \in DocumentsOf[feed] \cup {<<>>} :
          sourceRun' = [feeds |-> Tail(sourceRun.feeds),
                        items |-> {[at |-> i, block |-> document[i], feed |-> feed] : i \in blocks(document)}]
    BY <1>2 DEF FetchFeed
  <2>2. feed \in DOMAIN FeedRole /\ Tail(sourceRun.feeds) \in Seq(DOMAIN FeedRole)
    BY <1>2 DEF SourceTypes, FetchFeed
  <2>3. \A i \in DOMAIN document : IsText(document[i].summary)
    BY <2>2, SourceDiscoveryAssumption
  <2>4. blocks(document) \subseteq DOMAIN document
    BY DEF ParseFeedDocument
  <2>5. \A item \in sourceRun'.items : \E i \in DOMAIN document : item.block = document[i]
    BY <2>1, <2>4
  <2>6. observation' = observation
    BY <1>2 DEF FetchFeed
  <2> QED
    BY <2>1, <2>2, <2>3, <2>5, <2>6 DEF SourceTypes
<1>3. CASE SaveObservation
  <2>0. PICK next \in sourceRun.items :
          /\ \E fetched \in ArticleExcerpts(next.feed) :
               observation' = [observation EXCEPT ![next.block.item] =
                                 Saved(EnrichedExcerpt(next.block.summary, fetched), FALSE)]
          /\ sourceRun' = [sourceRun EXCEPT !.items = @ \ {next}]
    BY <1>3 DEF SaveObservation
  <2>1. PICK fetched \in ArticleExcerpts(next.feed) :
          observation' = [observation EXCEPT ![next.block.item] =
                            Saved(EnrichedExcerpt(next.block.summary, fetched), FALSE)]
    BY <2>0
  <2>2. IsText(next.block.summary) /\ IsText(fetched)
    BY <2>0, <2>1, NoTextIsText, SourceDiscoveryAssumption DEF SourceTypes, ArticleExcerpts
  <2>3. IsText(EnrichedExcerpt(next.block.summary, fetched))
    BY <2>2 DEF EnrichedExcerpt
  <2>4. sourceRun' = [feeds |-> sourceRun.feeds, items |-> sourceRun.items \ {next}]
    BY <2>0 DEF SourceTypes
  <2>5. DOMAIN observation' = DOMAIN observation
    BY <2>1
  <2>6. \A o \in Observations : \/ observation'[o] = observation[o]
                                \/ observation'[o] = Saved(EnrichedExcerpt(next.block.summary, fetched), FALSE)
    BY <2>1 DEF SourceTypes
  <2>7. \A o \in Observations : IsText(observation'[o].text)
    BY <2>3, <2>6, SavedIsText DEF SourceTypes
  <2> QED
    BY <2>4, <2>5, <2>7 DEF SourceTypes
<1>4. CASE FailFeed
  <2>1. sourceRun' = [feeds |-> sourceRun.feeds, items |-> {}] /\ observation' = observation
    BY <1>4 DEF FailFeed, SourceTypes
  <2> QED
    BY <2>1 DEF SourceTypes
<1> QED
  BY <1>1, <1>2, <1>3, <1>4 DEF SourceNext

\* What a run hears is the text of observations.
LEMMA ObservationsAreHeard ==
  ASSUME SourceTypes
  PROVE  IsHeard(ListObservations)
<1> DEFINE heard == ListObservations
<1>1. \A o \in DOMAIN heard : o \in Observations /\ heard[o].sentences = observation[o].text.sentences
  BY DEF ListObservations
<1> QED
  BY <1>1 DEF SourceTypes, IsHeard, IsText

\* The steps of a grounding job that write no claim.
Quiet(g) == BeginChain(g) \/ LoadPage(g) \/ EndPage(g) \/ Kill(g) \/ Leave(g)
Writes(g) == UpsertClaim(g) \/ UpsertEvidence(g) \/ DeleteStale(g)

\* What a step of a job may do to it: of the jobs it changes that one, which then hears
\* nothing, what it has heard, or what there is now.
Works(g, pc) ==
    /\ DOMAIN job' = Grounders
    /\ \A h \in Grounders \ {g} : job'[h] = job[h]
    /\ IsJob(job'[g]) /\ job'[g].pc = pc
    /\ job'[g].heard \in {NoneHeard, job[g].heard, ListObservations}

LEMMA QuietSteps ==
  ASSUME JobTypes, NEW g \in Grounders, Quiet(g)
  PROVE  /\ \E pc \in {"load", "claim", "done", "idle"} : Works(g, pc)
         /\ UNCHANGED <<sourceVars, world, row, claimRow, evidence, promotion>>
         /\ DOMAIN torn = Claims => DOMAIN torn' = Claims
         /\ Kill(g) \/ torn' = torn
<1> USE DEF JobTypes, IsJob, Works
<1>1. CASE BeginChain(g)
  BY <1>1 DEF BeginChain, NoJob
<1>2. CASE LoadPage(g)
  BY <1>2 DEF LoadPage
<1>3. CASE EndPage(g)
  BY <1>3 DEF EndPage
<1>4. CASE Kill(g)
  BY <1>4 DEF Kill
<1>5. CASE Leave(g)
  BY <1>5 DEF Leave, NoJob
<1> QED
  BY <1>1, <1>2, <1>3, <1>4, <1>5 DEF Quiet

\* What the first write of a claim does.
LEMMA UpsertTakesItem ==
  ASSUME JobTypes, NEW g \in Grounders, UpsertClaim(g)
  PROVE  \E item \in job[g].todo :
            /\ job[g].pc = "claim"
            /\ DOMAIN job' = Grounders /\ \A h \in Grounders \ {g} : job'[h] = job[h]
            /\ IsJob(job'[g]) /\ job'[g].pc = "evidence" /\ job'[g].item = item
            /\ job'[g].todo = job[g].todo /\ job'[g].heard = job[g].heard
            /\ job'[g].asOf = job[g].asOf /\ job'[g].cursor = job[g].cursor
            /\ \A c \in DOMAIN claimRow \ {item.claim} : claimRow'[c] = claimRow[c]
            /\ \A c \in DOMAIN torn \ {item.claim} : torn'[c] = torn[c]
            /\ item.claim \in DOMAIN claimRow =>
                 claimRow'[item.claim].status = Classified(item.claim, job[g].heard).status
            /\ item.claim \in DOMAIN torn =>
                 torn'[item.claim] = IF InFlight(item.claim) = {} THEN {} ELSE {"overlap"}
            /\ UNCHANGED <<sourceVars, world, evidence, promotion>>
<1>1. PICK item \in job[g].todo :
        /\ job' = [job EXCEPT ![g].pc = "evidence", ![g].item = item]
        /\ claimRow' = [claimRow EXCEPT ![item.claim] =
             [status |-> Classified(item.claim, job[g].heard).status,
              confidence |-> Classified(item.claim, job[g].heard).confidence]]
        /\ torn' = [torn EXCEPT ![item.claim] = IF InFlight(item.claim) = {} THEN {} ELSE {"overlap"}]
  BY DEF UpsertClaim
<1>2. job[g].pc = "claim" /\ UNCHANGED <<sourceVars, world, evidence, promotion>>
  BY DEF UpsertClaim
<1> QED
  BY <1>1, <1>2 DEF JobTypes, IsJob

\* The write of a claim goes on with the claim it has begun.
LEMMA WritingSteps ==
  ASSUME JobTypes, NEW g \in Grounders, Writes(g)
  PROVE  /\ \E pc \in {"claim", "evidence", "stale"} :
              /\ Works(g, pc)
              /\ pc = "evidence" <=> UpsertClaim(g)
              /\ pc = "stale" <=> UpsertEvidence(g)
              /\ pc = "claim" <=> DeleteStale(g)
         /\ job'[g].heard = job[g].heard
         /\ job'[g].pc = "stale" => job'[g].item = job[g].item
         /\ UNCHANGED <<sourceVars, world, promotion>>
<1> USE DEF JobTypes, IsJob, Works
<1>1. CASE UpsertClaim(g)
  <2>1. ~UpsertEvidence(g) /\ ~DeleteStale(g)
    BY <1>1 DEF UpsertClaim, UpsertEvidence, DeleteStale
  <2> QED
    BY <1>1, <2>1, UpsertTakesItem DEF UpsertClaim
<1>2. CASE UpsertEvidence(g)
  <2>1. ~UpsertClaim(g) /\ ~DeleteStale(g)
    BY <1>2 DEF UpsertClaim, UpsertEvidence, DeleteStale
  <2> QED
    BY <1>2, <2>1 DEF UpsertEvidence
<1>3. CASE DeleteStale(g)
  <2>1. ~UpsertClaim(g) /\ ~UpsertEvidence(g)
    BY <1>3 DEF UpsertClaim, UpsertEvidence, DeleteStale
  <2> QED
    BY <1>3, <2>1 DEF DeleteStale
<1> QED
  BY <1>1, <1>2, <1>3 DEF Writes

LEMMA JobsStayTyped ==
  ASSUME GroundingTypes, NEW g \in Grounders, Quiet(g) \/ Writes(g)
  PROVE  JobTypes'
<1>1. \E pc \in {"load", "claim", "done", "idle", "evidence", "stale"} : Works(g, pc)
  BY QuietSteps, WritingSteps DEF GroundingTypes
<1>2. IsHeard(NoneHeard) /\ IsHeard(ListObservations)
  BY ObservationsAreHeard DEF IsHeard, NoneHeard, GroundingTypes
<1> QED
  BY <1>1, <1>2 DEF Works, JobTypes, GroundingTypes

LEMMA RowsKeepTheirIds ==
  ASSUME NEW c, NEW promoted, row' \in RowsWith(c, promoted)
  PROVE  DOMAIN row' = DOMAIN row
BY DEF RowsWith

LEMMA ClassifiedIsTyped ==
  ASSUME JobTypes, NEW g \in Grounders, NEW c
  PROVE  LET result == Classified(c, job[g].heard)
         IN  /\ result.confidence \in Percent
             /\ \A e \in result.evidence : e.source \in Observations
             /\ result.status = StatusOf(result.evidence)
<1>1. IsHeard(job[g].heard)
  BY DEF JobTypes
<1> QED
  BY <1>1, ConfidenceIsPercent, EvidenceIsHeard DEF Classified, ClassifyPreparedClaimEvidence

LEMMA ResultIsTyped ==
  ASSUME JobTypes, NEW g \in Grounders
  PROVE  /\ \A e \in Result(g).evidence : e.source \in Observations
         /\ Result(g).status = StatusOf(Result(g).evidence)
BY ClassifiedIsTyped DEF Result

LEMMA ClaimsStayTyped ==
  ASSUME GroundingTypes, NEW g \in Grounders, Writes(g)
  PROVE  ClaimTypes'
<1> USE DEF GroundingTypes, ClaimTypes
<1>1. CASE UpsertClaim(g)
  <2>1. PICK item \in job[g].todo :
          /\ row' \in RowsWith(item.claim, item.promoted)
          /\ claimRow' = [claimRow EXCEPT ![item.claim] =
               [status |-> Classified(item.claim, job[g].heard).status,
                confidence |-> Classified(item.claim, job[g].heard).confidence]]
          /\ DOMAIN torn' = DOMAIN torn
    BY <1>1 DEF UpsertClaim
  <2>2. evidence' = evidence /\ DOMAIN torn' = Claims /\ DOMAIN row' = 1..MaxRows
    BY <1>1, <2>1, RowsKeepTheirIds DEF UpsertClaim
  <2> DEFINE new == [status |-> Classified(item.claim, job[g].heard).status,
                     confidence |-> Classified(item.claim, job[g].heard).confidence]
  <2>3. new.confidence \in Percent
    BY ClassifiedIsTyped
  <2>4. claimRow' = [claimRow EXCEPT ![item.claim] = new]
    BY <2>1
  <2> HIDE DEF new
  <2> QED
    BY <2>2, <2>3, <2>4
<1>2. CASE UpsertEvidence(g)
  <2> DEFINE new == Result(g).evidence
  <2>1. /\ UNCHANGED <<claimRow, torn, row>> /\ DOMAIN evidence' = Claims
        /\ \A c \in Claims : evidence'[c] \subseteq evidence[c] \cup new
    BY <1>2 DEF UpsertEvidence
  <2>2. \A e \in new : e.source \in Observations
    BY ResultIsTyped
  <2> HIDE DEF new
  <2> QED
    BY <2>1, <2>2
<1>3. CASE DeleteStale(g)
  <2>1. /\ UNCHANGED <<claimRow, torn, row>> /\ DOMAIN evidence' = Claims
        /\ \A c \in Claims : evidence'[c] \subseteq evidence[c]
    BY <1>3 DEF DeleteStale, Standing
  <2> QED
    BY <2>1
<1> QED
  BY <1>1, <1>2, <1>3 DEF Writes

LEMMA PromotionStaysTyped ==
  ASSUME GroundingTypes, EnsureReviewedPublisherObservation \/ EnsurePublisherReportClaims
  PROVE  GroundingTypes'
<1> USE DEF GroundingTypes
<1>1. CASE EnsureReviewedPublisherObservation
  <2>1. PICK body \in Bodies : observation' = [observation EXCEPT ![Report] = Saved(body, TRUE)]
    BY <1>1 DEF EnsureReviewedPublisherObservation
  <2>2. IsText(Saved(body, TRUE).text)
    BY SavedIsText, SourceDiscoveryAssumption
  <2>3. UNCHANGED <<sourceRun, row, claimRow, evidence, torn, job>>
    BY <1>1 DEF EnsureReviewedPublisherObservation
  <2>4. SourceTypes'
    BY <2>1, <2>2, <2>3 DEF SourceTypes
  <2> QED
    BY <2>3, <2>4 DEF JobTypes, ClaimTypes
<1>2. CASE EnsurePublisherReportClaims
  <2>1. PICK c \in Claims :
          /\ row' \in RowsWith(c, TRUE)
          /\ claimRow' = [claimRow EXCEPT ![c] = [status |-> "INSUFFICIENT", confidence |-> 0]]
          /\ torn' = [torn EXCEPT ![c] = @ \cup {"promotion"}]
    BY <1>2 DEF EnsurePublisherReportClaims
  <2>2. UNCHANGED <<sourceVars, job, evidence>>
    BY <1>2 DEF EnsurePublisherReportClaims
  <2> DEFINE new == [status |-> "INSUFFICIENT", confidence |-> 0]
  <2>3. new.confidence \in Percent
    BY DEF Percent
  <2>4. DOMAIN row' = DOMAIN row
    BY <2>1, RowsKeepTheirIds
  <2>5. claimRow' = [claimRow EXCEPT ![c] = new]
    BY <2>1
  <2> HIDE DEF new
  <2>6. ClaimTypes'
    BY <2>1, <2>2, <2>3, <2>4, <2>5 DEF ClaimTypes
  <2> QED
    BY <2>2, <2>6 DEF SourceTypes, JobTypes, sourceVars
<1> QED
  BY <1>1, <1>2

\* Grounding, promotions and source discovery keep to their types, and so do the runs
\* of the ranking, which write none of this.
LEMMA GroundingTypesStep ==
  ASSUME GroundingTypes, [Next]_vars
  PROVE  GroundingTypes'
<1> USE DEF GroundingTypes
<1>1. ASSUME NEW g \in Grounders, Quiet(g)
      PROVE  GroundingTypes'
  BY <1>1, QuietSteps, JobsStayTyped DEF SourceTypes, ClaimTypes, sourceVars
<1>2. ASSUME NEW g \in Grounders, Writes(g)
      PROVE  GroundingTypes'
  BY <1>2, WritingSteps, JobsStayTyped, ClaimsStayTyped DEF SourceTypes, sourceVars
<1>3. CASE SourceNext /\ UNCHANGED groundingVars
  BY <1>3, SourcesStayTyped DEF groundingVars, JobTypes, ClaimTypes
<1>4. CASE UNCHANGED <<sourceVars, world, row, claimRow, evidence, job, promotion, written, torn,
                      chains, promotions>>
  BY <1>4 DEF SourceTypes, JobTypes, ClaimTypes, sourceVars
<1>5. CASE Next
  <2>1. CASE GroundingNext
    BY <2>1, <1>1, <1>2, <1>3, PromotionStaysTyped DEF GroundingNext, Quiet, Writes
  <2>2. CASE ~GroundingNext
    <3>1. UNCHANGED <<sourceVars, world, row, claimRow, evidence, job, promotion, written, torn,
                      chains, promotions>>
      BY <1>5, <2>2 DEF Next, BeginRanking, ListInputs, ClearRankings, EndRanking, KillRanking,
                        UpsertRanking, Turn, groundingVars
    <3> QED
      BY <3>1, <1>4
  <2> QED
    BY <2>1, <2>2
<1>6. CASE UNCHANGED vars
  BY <1>6, <1>4 DEF vars, groundingVars
<1> QED
  BY <1>5, <1>6

LEMMA GroundingStartsTyped ==
  ASSUME Init
  PROVE  GroundingTypes
<1>1. SourceTypes
  BY NoTextIsText DEF Init, SourceInit, SourceTypes, Unseen, NoSourceRun
<1>2. JobTypes
  BY DEF Init, GroundingInit, JobTypes, IsJob, NoJob, IsHeard, NoneHeard
<1>3. ClaimTypes
  BY DEF Init, GroundingInit, ClaimTypes, NoClaimRow, Percent
<1> QED
  BY <1>1, <1>2, <1>3 DEF GroundingTypes

\* Grounding: the texts saved, the runs, the claims' rows and their evidence stay in
\* their domains, and every confidence is a percentage.
THEOREM GroundingTyping == Spec => []GroundingTypes
<1>1. Init => GroundingTypes
  BY GroundingStartsTyped
<1>2. GroundingTypes /\ [Next]_vars => GroundingTypes'
  BY GroundingTypesStep
<1> QED
  BY <1>1, <1>2, PTL DEF Spec

-----------------------------------------------------------------------------
(* The status of a claim.                                                  *)

\* Of the jobs a step changes one, whether it is at a claim, and at which.
LEMMA OthersFly ==
  ASSUME NEW g \in Grounders, NEW pc, Works(g, pc), NEW c
  PROVE  /\ InFlight(c)' \ {g} = InFlight(c) \ {g}
         /\ g \in InFlight(c)' <=> pc \in {"evidence", "stale"} /\ job'[g].item.claim = c
         /\ \A h \in Grounders \ {g} : Result(h)' = Result(h)
BY DEF Works, InFlight, Result

\* A row that there is keeps its claim.
RowsStay == Rows \subseteq Rows' /\ \A i \in Rows : row'[i] = row[i]

LEMMA NewRowsAreFree ==
  ASSUME NEW c, NEW promoted, row' \in RowsWith(c, promoted)
  PROVE  RowsStay
BY DEF RowsWith, RowsStay, Rows

\* A page is the same whenever a job comes to its cursor.
LEMMA PagesStay ==
  ASSUME NEW g \in Grounders, job[g].asOf \subseteq Rows, RowsStay, world' = world,
         job'[g].asOf = job[g].asOf, job'[g].cursor = job[g].cursor
  PROVE  PageClaims(g)' = PageClaims(g)
<1>1. Page(g)' = Page(g)
  BY DEF Page
<1>2. [i \in job'[g].asOf |-> row'[i].claim] = [i \in job[g].asOf |-> row[i].claim]
  BY DEF RowsStay
<1> QED
  BY <1>1, <1>2 DEF PageClaims

\* The other jobs, while one does what it does.
LEMMA OthersStay ==
  ASSUME PageInv, NEW g \in Grounders, \A h \in Grounders \ {g} : job'[h] = job[h],
         RowsStay, world' = world, NEW h \in Grounders \ {g}
  PROVE  /\ PageClaims(h)' = PageClaims(h)
         /\ job'[h].asOf \subseteq Rows'
         /\ job'[h].pc \in {"claim", "evidence", "stale"} => job'[h].todo \subseteq PageClaims(h)'
         /\ job'[h].pc \in {"evidence", "stale"} => job'[h].item \in job'[h].todo
         /\ \A c : Pending(h, c) => Pending(h, c)'
<1>1. PageClaims(h)' = PageClaims(h)
  BY PagesStay DEF PageInv
<1>2. job'[h].asOf \subseteq Rows'
  BY DEF PageInv, RowsStay
<1>3. \A c : h \in InFlight(c)' <=> h \in InFlight(c)
  BY DEF InFlight
<1> QED
  BY <1>1, <1>2, <1>3 DEF PageInv, Pending

\* A step that does not write to a claim, of a job that is not at it.
LEMMA OthersKeepStatus ==
  ASSUME PageInv, NEW g \in Grounders, NEW pc, Works(g, pc), RowsStay, world' = world,
         NEW c, WritingOf(c), g \notin InFlight(c), g \notin InFlight(c)',
         claimRow'[c] = claimRow[c], evidence'[c] = evidence[c], torn'[c] = torn[c],
         Pending(g, c) => Pending(g, c)'
  PROVE  WritingOf(c)'
<1>1. InFlight(c)' = InFlight(c) /\ \A h \in Grounders \ {g} : Result(h)' = Result(h)
  BY OthersFly
<1>2. \A h \in InFlight(c) : job'[h] = job[h] /\ Result(h)' = Result(h)
  BY <1>1 DEF Works, InFlight
<1>3. \A h \in InFlight(c) : Wrote(h, c) => Wrote(h, c)'
  BY <1>2 DEF Wrote, Reset
<1>4. \A h \in Grounders : Pending(h, c) => Pending(h, c)'
  BY OthersStay DEF Works
<1> QED
  BY <1>1, <1>3, <1>4 DEF WritingOf, Crowded, Settled, Reset

LEMMA QuietKeepsPages ==
  ASSUME JobTypes, PageInv, NEW g \in Grounders, Quiet(g)
  PROVE  /\ PageInv' /\ RowsStay
         /\ \A c : Pending(g, c) => Pending(g, c)'
         /\ \A c : Kill(g) /\ g \in InFlight(c) => Pending(g, c)'
<1>1. RowsStay /\ world' = world
  BY QuietSteps DEF RowsStay, Rows
<1>2. PICK pc \in {"load", "claim", "done", "idle"} : Works(g, pc)
  BY QuietSteps
<1>3. /\ job'[g].pc \notin {"evidence", "stale"}
      /\ \A c : g \notin InFlight(c)'
  BY <1>2 DEF Works, InFlight
<1>4. job[g].asOf \subseteq Rows
  BY DEF PageInv
<1>5. CASE BeginChain(g) \/ EndPage(g) \/ Leave(g)
  <2>1. job'[g].asOf \in {job[g].asOf, Rows, {}} /\ job'[g].pc \notin {"claim", "evidence", "stale"}
    <3>1. CASE BeginChain(g)
      BY <3>1 DEF BeginChain, JobTypes, NoJob
    <3>2. CASE EndPage(g)
      BY <3>2 DEF EndPage, JobTypes, IsJob
    <3>3. CASE Leave(g)
      BY <3>3 DEF Leave, JobTypes, NoJob
    <3> QED
      BY <1>5, <3>1, <3>2, <3>3
  <2>2. job'[g].asOf \subseteq Rows'
    BY <1>1, <1>4, <2>1 DEF RowsStay
  <2>3. PageInv'
    BY <1>1, <1>2, <2>1, <2>2, OthersStay DEF PageInv, Works
  <2>4. \A c : ~Pending(g, c) /\ g \notin InFlight(c)
    BY <1>5 DEF BeginChain, EndPage, Leave, InFlight, Pending
  <2> QED
    BY <1>1, <2>3, <2>4
<1>6. CASE LoadPage(g)
  <2>1. /\ job[g].pc = "load" /\ job'[g].pc = "claim" /\ job'[g].todo = PageClaims(g)
        /\ job'[g].asOf = job[g].asOf /\ job'[g].cursor = job[g].cursor
    BY <1>6 DEF LoadPage, JobTypes, IsJob
  <2>2. PageClaims(g)' = PageClaims(g)
    BY <1>1, <1>4, <2>1, PagesStay
  <2>3. PageInv'
    BY <1>1, <1>2, <1>4, <2>1, <2>2, OthersStay DEF PageInv, Works, RowsStay
  <2>4. \A c : Pending(g, c) => Pending(g, c)'
    BY <1>3, <2>1 DEF Pending
  <2>5. ~Kill(g)
    BY <2>1 DEF Kill
  <2> QED
    BY <1>1, <2>3, <2>4, <2>5
<1>7. CASE Kill(g)
  <2>1. /\ job[g].pc \in {"claim", "evidence", "stale"} /\ job'[g].pc = "load"
        /\ job'[g].asOf = job[g].asOf /\ job'[g].cursor = job[g].cursor
    BY <1>7 DEF Kill, JobTypes, IsJob
  <2>2. PageClaims(g)' = PageClaims(g)
    BY <1>1, <1>4, <2>1, PagesStay
  <2>3. PageInv'
    BY <1>1, <1>2, <1>4, <2>1, <2>2, OthersStay DEF PageInv, Works, RowsStay
  <2>4. job[g].todo \subseteq PageClaims(g)'
    BY <2>1, <2>2 DEF PageInv
  <2>5. \A c : Pending(g, c) => Pending(g, c)'
    BY <2>1, <2>4 DEF Pending
  <2>6. \A c : g \in InFlight(c) => Pending(g, c)'
    BY <2>1, <2>4 DEF InFlight, PageInv, Pending
  <2> QED
    BY <1>1, <2>3, <2>5, <2>6
<1> QED
  BY <1>5, <1>6, <1>7 DEF Quiet

LEMMA QuietKeepsStatus ==
  ASSUME GroundingTypes, NEW g \in Grounders, Quiet(g), WritingInv
  PROVE  WritingInv'
<1>1. /\ JobTypes /\ PageInv /\ PageInv' /\ RowsStay /\ DOMAIN torn = Claims
      /\ \A c : Pending(g, c) => Pending(g, c)'
  BY QuietKeepsPages DEF GroundingTypes, ClaimTypes, WritingInv
<1> SUFFICES ASSUME NEW c \in Claims PROVE WritingOf(c)'
  BY <1>1 DEF WritingInv
<1>2. PICK pc \in {"load", "claim", "done", "idle"} : Works(g, pc)
  BY <1>1, QuietSteps
<1>3. g \notin InFlight(c)' /\ UNCHANGED <<world, claimRow, evidence>>
  BY <1>1, <1>2, OthersFly, QuietSteps
<1>4. WritingOf(c)
  BY DEF WritingInv
<1>5. CASE g \notin InFlight(c)
  <2>1. torn'[c] = torn[c]
    <3>1. CASE Kill(g)
      BY <1>5, <3>1 DEF Kill
    <3>2. CASE ~Kill(g)
      BY <1>1, <3>2, QuietSteps
    <3> QED
      BY <3>1, <3>2
  <2> QED
    BY <1>1, <1>2, <1>3, <1>4, <1>5, <2>1, OthersKeepStatus
<1>6. CASE g \in InFlight(c)
  <2>1. Kill(g)
    BY <1>6 DEF InFlight, Quiet, BeginChain, LoadPage, EndPage, Leave
  <2>2. torn'[c] = torn[c] \cup {g} /\ Pending(g, c)'
    BY <1>1, <1>6, <2>1, QuietKeepsPages DEF Kill
  <2>3. InFlight(c)' = InFlight(c) \ {g}
    BY <1>2, <1>3, OthersFly
  <2>4. "overlap" \notin torn[c] => InFlight(c) = {g}
    BY <1>4, <1>6 DEF WritingOf, Crowded
  <2>5. "overlap" \in torn'[c] <=> "overlap" \in torn[c]
    BY <2>2, GroundingAssumption
  <2>6. Crowded(c)'
    BY <1>4, <2>3, <2>5 DEF WritingOf, Crowded
  <2>7. \A h \in InFlight(c)' : "overlap" \in torn'[c]
    BY <2>3, <2>4, <2>5
  <2>8. \A h \in torn'[c] \cap Grounders : Pending(h, c)'
    BY <1>1, <1>2, <1>3, <1>4, <2>2, OthersStay DEF WritingOf, Works
  <2>9. Settled(c)'
    BY <2>2 DEF Settled
  <2> QED
    BY <2>6, <2>7, <2>8, <2>9 DEF WritingOf
<1> QED
  BY <1>5, <1>6

LEMMA WritesKeepPages ==
  ASSUME JobTypes, PageInv, NEW g \in Grounders, Writes(g)
  PROVE  /\ PageInv' /\ RowsStay
         /\ \A c : g \notin InFlight(c) /\ g \notin InFlight(c)' /\ Pending(g, c) => Pending(g, c)'
<1>1. world' = world /\ \E pc \in {"claim", "evidence", "stale"} : Works(g, pc)
  BY WritingSteps
<1>2. RowsStay
  BY NewRowsAreFree DEF Writes, UpsertClaim, UpsertEvidence, DeleteStale, RowsStay, Rows
<1>3. job'[g].asOf = job[g].asOf /\ job'[g].cursor = job[g].cursor
  <2>1. CASE UpsertClaim(g)
    BY <2>1, UpsertTakesItem
  <2>2. CASE UpsertEvidence(g)
    BY <2>2 DEF UpsertEvidence, JobTypes, IsJob
  <2>3. CASE DeleteStale(g)
    BY <2>3 DEF DeleteStale, JobTypes, IsJob
  <2> QED
    BY <2>1, <2>2, <2>3 DEF Writes
<1>4. PageClaims(g)' = PageClaims(g) /\ job'[g].asOf \subseteq Rows'
  BY <1>1, <1>2, <1>3, PagesStay DEF PageInv, RowsStay
<1>5. job[g].pc \in {"claim", "evidence", "stale"} /\ job'[g].pc \in {"claim", "evidence", "stale"}
  <2>1. CASE UpsertClaim(g)
    BY <2>1, UpsertTakesItem DEF UpsertClaim
  <2>2. CASE UpsertEvidence(g)
    BY <2>2 DEF UpsertEvidence, JobTypes, IsJob
  <2>3. CASE DeleteStale(g)
    BY <2>3 DEF DeleteStale, JobTypes, IsJob
  <2> QED
    BY <2>1, <2>2, <2>3 DEF Writes
<1>6. /\ job'[g].todo \subseteq job[g].todo
      /\ job'[g].pc \in {"evidence", "stale"} => job'[g].item \in job'[g].todo
  <2>1. CASE UpsertClaim(g)
    BY <2>1, UpsertTakesItem
  <2>2. CASE UpsertEvidence(g)
    BY <2>2 DEF UpsertEvidence, JobTypes, IsJob, PageInv
  <2>3. CASE DeleteStale(g)
    BY <2>3 DEF DeleteStale, JobTypes, IsJob
  <2> QED
    BY <2>1, <2>2, <2>3 DEF Writes
<1>7. PageInv'
  BY <1>1, <1>2, <1>4, <1>5, <1>6, OthersStay DEF PageInv, Works
<1>8. ASSUME NEW c, g \notin InFlight(c), g \notin InFlight(c)', Pending(g, c)
      PROVE  Pending(g, c)'
  <2>1. PICK x \in job[g].todo : x.claim = c
    BY <1>5, <1>8 DEF Pending
  <2>2. x \in job'[g].todo
    <3>1. CASE UpsertClaim(g)
      BY <2>1, <3>1, UpsertTakesItem
    <3>3. CASE UpsertEvidence(g)
      BY <2>1, <3>3 DEF UpsertEvidence, JobTypes, IsJob
    <3>2. CASE DeleteStale(g)
      BY <1>8, <2>1, <3>2 DEF DeleteStale, JobTypes, IsJob, InFlight
    <3> QED
      BY <3>1, <3>2, <3>3 DEF Writes
  <2> QED
    BY <1>5, <1>8, <2>1, <2>2 DEF Pending
<1> QED
  BY <1>2, <1>7, <1>8

\* A chain that begins to write a claim is alone with it or meets another there.
LEMMA UpsertKeepsStatus ==
  ASSUME GroundingTypes, WritingInv, NEW g \in Grounders, UpsertClaim(g), NEW c \in Claims,
         job'[g].item.claim = c
  PROVE  WritingOf(c)'
<1>1. JobTypes /\ PageInv /\ DOMAIN claimRow = Claims /\ DOMAIN torn = Claims
  BY DEF GroundingTypes, ClaimTypes, WritingInv
<1>2. Works(g, "evidence") /\ job'[g].heard = job[g].heard /\ RowsStay
  BY <1>1, WritingSteps, WritesKeepPages DEF Writes
<1>3. /\ job[g].pc = "claim" /\ evidence' = evidence
      /\ claimRow'[c].status = Classified(c, job[g].heard).status
      /\ torn'[c] = IF InFlight(c) = {} THEN {} ELSE {"overlap"}
  BY <1>1, UpsertTakesItem
<1>4. InFlight(c)' = InFlight(c) \cup {g}
  BY <1>2, <1>3, OthersFly DEF InFlight
<1>5. Crowded(c)'
  BY <1>3, <1>4 DEF Crowded
<1>6. claimRow'[c].status = Result(g)' .status /\ job'[g].pc = "evidence"
  BY <1>2, <1>3 DEF Result, Works
<1>7. Wrote(g, c)'
  BY <1>6 DEF Wrote
<1>8. \A h \in InFlight(c)' : "overlap" \notin torn'[c] => Wrote(h, c)'
  BY <1>3, <1>4, <1>7
<1>9. torn'[c] \cap Grounders = {}
  BY <1>3, GroundingAssumption
<1> QED
  BY <1>4, <1>5, <1>8, <1>9 DEF WritingOf, Settled

LEMMA EvidenceKeepsStatus ==
  ASSUME GroundingTypes, WritingInv, NEW g \in Grounders, UpsertEvidence(g), NEW c \in Claims,
         job[g].item.claim = c
  PROVE  WritingOf(c)'
<1> DEFINE new == Result(g).evidence
           replaced == {e.source : e \in new}
<1>1. JobTypes /\ PageInv /\ DOMAIN evidence = Claims /\ WritingOf(c)
  BY DEF GroundingTypes, ClaimTypes, WritingInv
<1>2. /\ Works(g, "stale") /\ job'[g].heard = job[g].heard /\ job'[g].item = job[g].item
      /\ RowsStay /\ world' = world
  BY <1>1, WritingSteps, WritesKeepPages DEF Writes, Works
<1>3. /\ job[g].pc = "evidence" /\ UNCHANGED <<claimRow, torn>>
      /\ evidence'[c] = {e \in evidence[c] : e.source \notin replaced} \cup new
  BY <1>1 DEF UpsertEvidence
<1>4. g \in InFlight(c) /\ InFlight(c)' = InFlight(c) /\ Result(g)' = Result(g)
  BY <1>2, <1>3, OthersFly DEF InFlight, Result
<1>5. Standing(evidence'[c], replaced) = new
  BY <1>3 DEF Standing
<1>6. "overlap" \notin torn[c] => InFlight(c) = {g} /\ Wrote(g, c)
  BY <1>1, <1>4 DEF WritingOf, Crowded
<1>7. "overlap" \notin torn[c] => Wrote(g, c)'
  BY <1>3, <1>4, <1>5, <1>6 DEF Wrote, Reset
<1>8. g \notin torn[c]
  BY <1>1, <1>3, <1>4 DEF WritingOf, Pending
<1>9. \A h \in torn'[c] \cap Grounders : Pending(h, c)'
  BY <1>1, <1>2, <1>3, <1>8, OthersStay DEF WritingOf, Works
<1> QED
  BY <1>1, <1>3, <1>4, <1>6, <1>7, <1>9 DEF WritingOf, Crowded, Settled

LEMMA DeletingKeepsStatus ==
  ASSUME GroundingTypes, WritingInv, NEW g \in Grounders, DeleteStale(g), NEW c \in Claims,
         job[g].item.claim = c
  PROVE  WritingOf(c)'
<1>1. JobTypes /\ PageInv /\ DOMAIN evidence = Claims /\ WritingOf(c)
  BY DEF GroundingTypes, ClaimTypes, WritingInv
<1>2. Works(g, "claim") /\ RowsStay /\ world' = world
  BY <1>1, WritingSteps, WritesKeepPages DEF Writes, Works
<1>3. /\ job[g].pc = "stale" /\ UNCHANGED <<claimRow, torn>>
      /\ evidence'[c] = Standing(evidence[c], {e.source : e \in Result(g).evidence})
  BY <1>1 DEF DeleteStale
<1>4. g \in InFlight(c) /\ InFlight(c)' = InFlight(c) \ {g}
  BY <1>2, <1>3, OthersFly DEF InFlight
<1>5. "overlap" \notin torn[c] => InFlight(c) = {g} /\ Wrote(g, c)
  BY <1>1, <1>4 DEF WritingOf, Crowded
<1>6. "overlap" \notin torn[c] => claimRow'[c].status = StatusOf(evidence'[c]) \/ Reset(c)'
  BY <1>1, <1>3, <1>5, ResultIsTyped DEF Wrote, Reset
<1>7. g \notin torn[c]
  BY <1>1, <1>3, <1>4 DEF WritingOf, Pending
<1>8. \A h \in torn'[c] \cap Grounders : Pending(h, c)'
  BY <1>1, <1>2, <1>3, <1>7, OthersStay DEF WritingOf, Works
<1> QED
  BY <1>1, <1>3, <1>4, <1>5, <1>6, <1>8 DEF WritingOf, Crowded, Settled

LEMMA WritesKeepStatus ==
  ASSUME GroundingTypes, NEW g \in Grounders, Writes(g), WritingInv
  PROVE  WritingInv'
<1>1. /\ JobTypes /\ PageInv /\ PageInv' /\ RowsStay
      /\ DOMAIN claimRow = Claims /\ DOMAIN evidence = Claims /\ DOMAIN torn = Claims
      /\ \A c : g \notin InFlight(c) /\ g \notin InFlight(c)' /\ Pending(g, c) => Pending(g, c)'
  BY WritesKeepPages DEF GroundingTypes, ClaimTypes, WritingInv
<1> SUFFICES ASSUME NEW c \in Claims PROVE WritingOf(c)'
  BY <1>1 DEF WritingInv
<1>2. PICK pc \in {"claim", "evidence", "stale"} :
        /\ Works(g, pc)
        /\ pc = "evidence" <=> UpsertClaim(g)
        /\ pc = "stale" <=> UpsertEvidence(g)
        /\ pc = "claim" <=> DeleteStale(g)
  BY <1>1, WritingSteps
<1>3. CASE UpsertClaim(g) /\ job'[g].item.claim = c
  BY <1>3, UpsertKeepsStatus
<1>4. CASE ~UpsertClaim(g) /\ job[g].item.claim = c
  BY <1>4, EvidenceKeepsStatus, DeletingKeepsStatus DEF Writes
<1>5. CASE /\ UpsertClaim(g) => job'[g].item.claim # c
           /\ ~UpsertClaim(g) => job[g].item.claim # c
  <2>1. claimRow'[c] = claimRow[c] /\ evidence'[c] = evidence[c] /\ torn'[c] = torn[c]
    <3>1. CASE UpsertClaim(g)
      BY <1>1, <1>5, <3>1, UpsertTakesItem
    <3>2. CASE ~UpsertClaim(g)
      BY <1>1, <1>5, <3>2 DEF Writes, UpsertEvidence, DeleteStale
    <3> QED
      BY <3>1, <3>2
  <2>2. g \notin InFlight(c)' /\ g \notin InFlight(c)
    <3>1. CASE UpsertClaim(g)
      BY <1>2, <1>5, <3>1, OthersFly DEF UpsertClaim, InFlight
    <3>2. CASE ~UpsertClaim(g)
      BY <1>1, <1>2, <1>5, <3>2, OthersFly, WritingSteps DEF InFlight, Works
    <3> QED
      BY <3>1, <3>2
  <2> QED
    BY <1>1, <1>2, <2>1, <2>2, OthersKeepStatus, WritingSteps DEF WritingInv
<1> QED
  BY <1>3, <1>4, <1>5

\* A step that leaves the jobs alone, and of a claim writes no more than a promotion.
LEMMA PromotionKeepsStatus ==
  ASSUME GroundingTypes, WritingInv,
         EnsureReviewedPublisherObservation \/ EnsurePublisherReportClaims
  PROVE  WritingInv'
<1>1. /\ DOMAIN claimRow = Claims /\ DOMAIN torn = Claims /\ PageInv
      /\ job' = job /\ evidence' = evidence /\ world' = world
  BY DEF GroundingTypes, ClaimTypes, WritingInv,
         EnsureReviewedPublisherObservation, EnsurePublisherReportClaims
<1>2. RowsStay
  BY NewRowsAreFree DEF EnsureReviewedPublisherObservation, EnsurePublisherReportClaims, RowsStay, Rows
<1>3. \A g \in Grounders : PageClaims(g)' = PageClaims(g)
  BY <1>1, <1>2, PagesStay DEF PageInv
<1>4. PageInv'
  BY <1>1, <1>2, <1>3 DEF PageInv, RowsStay
<1> SUFFICES ASSUME NEW c \in Claims PROVE WritingOf(c)'
  BY <1>4 DEF WritingInv
<1>5. InFlight(c)' = InFlight(c) /\ \A g : Result(g)' = Result(g)
  BY <1>1 DEF InFlight, Result
<1>6. \A g \in Grounders : Pending(g, c)' <=> Pending(g, c)
  BY <1>1, <1>3, <1>5 DEF Pending
<1>7. WritingOf(c)
  BY DEF WritingInv
<1>8. CASE claimRow'[c] = claimRow[c] /\ torn'[c] = torn[c]
  BY <1>1, <1>5, <1>6, <1>7, <1>8 DEF WritingOf, Crowded, Wrote, Settled, Reset
<1>9. CASE claimRow'[c].status = "INSUFFICIENT" /\ torn'[c] = torn[c] \cup {"promotion"}
  <2>1. /\ "overlap" \in torn'[c] <=> "overlap" \in torn[c]
        /\ torn'[c] \cap Grounders = torn[c] \cap Grounders
    BY <1>9, GroundingAssumption
  <2>2. Reset(c)'
    BY <1>9 DEF Reset
  <2>3. \A g \in InFlight(c) : Wrote(g, c) => Wrote(g, c)'
    BY <1>1, <1>5, <2>2 DEF Wrote
  <2> QED
    BY <1>5, <1>6, <1>7, <2>1, <2>2, <2>3 DEF WritingOf, Crowded, Settled
<1>10. CASE EnsureReviewedPublisherObservation
  BY <1>8, <1>10 DEF EnsureReviewedPublisherObservation
<1>11. CASE EnsurePublisherReportClaims
  <2>1. PICK d \in Claims :
          /\ claimRow' = [claimRow EXCEPT ![d] = [status |-> "INSUFFICIENT", confidence |-> 0]]
          /\ torn' = [torn EXCEPT ![d] = @ \cup {"promotion"}]
    BY <1>11 DEF EnsurePublisherReportClaims
  <2> QED
    BY <1>1, <1>8, <1>9, <2>1
<1> QED
  BY <1>10, <1>11

LEMMA WritingInvStep ==
  ASSUME GroundingTypes, WritingInv, [Next]_vars
  PROVE  WritingInv'
<1>1. ASSUME UNCHANGED <<world, row, claimRow, evidence, job, torn>>
      PROVE  WritingInv'
  <2>1. \A c : InFlight(c)' = InFlight(c) /\ \A g : Result(g)' = Result(g)
    BY <1>1 DEF InFlight, Result
  <2>2. Rows' = Rows /\ \A g : PageClaims(g)' = PageClaims(g)
    BY <1>1 DEF Rows, PageClaims, Page
  <2>3. PageInv'
    BY <1>1, <2>2 DEF WritingInv, PageInv
  <2>4. ASSUME NEW c \in Claims
        PROVE  WritingOf(c)'
    <3>1. WritingOf(c)
      BY DEF WritingInv
    <3>2. ASSUME NEW g \in Grounders, Wrote(g, c)
          PROVE  Wrote(g, c)'
      <4>1. /\ Result(g)' = Result(g) /\ claimRow' = claimRow /\ evidence' = evidence
            /\ torn' = torn /\ job' = job
        BY <1>1, <2>1
      <4> QED
        BY <3>2, <4>1 DEF Wrote, Reset
    <3>3. \A g \in Grounders : Pending(g, c)' <=> Pending(g, c)
      BY <1>1, <2>1, <2>2 DEF Pending
    <3>4. InFlight(c) \subseteq Grounders
      BY DEF InFlight
    <3> QED
      BY <1>1, <2>1, <3>1, <3>2, <3>3, <3>4 DEF WritingOf, Crowded, Settled, Reset
  <2> QED
    BY <2>3, <2>4 DEF WritingInv
<1>2. CASE GroundingNext
  <2>1. ASSUME NEW g \in Grounders, Quiet(g) \/ Writes(g)
        PROVE  WritingInv'
    BY <2>1, QuietKeepsStatus, WritesKeepStatus
  <2>2. CASE SourceNext /\ UNCHANGED groundingVars
    BY <2>2, <1>1 DEF groundingVars
  <2> QED
    BY <1>2, <2>1, <2>2, PromotionKeepsStatus DEF GroundingNext, Quiet, Writes
<1>3. CASE Next /\ ~GroundingNext
  <2>1. UNCHANGED <<world, row, claimRow, evidence, job, torn>>
    BY <1>3 DEF Next, BeginRanking, ListInputs, ClearRankings, EndRanking, KillRanking,
                UpsertRanking, Turn, groundingVars
  <2> QED
    BY <2>1, <1>1
<1>4. CASE UNCHANGED vars
  BY <1>4, <1>1 DEF vars, groundingVars
<1> QED
  BY <1>2, <1>3, <1>4

LEMMA WritingStarts ==
  ASSUME Init
  PROVE  WritingInv
<1>1. /\ job = [g \in Grounders |-> NoJob] /\ torn = [c \in Claims |-> {}]
      /\ claimRow = [c \in Claims |-> NoClaimRow]
  BY DEF Init, GroundingInit
<1>2. PageInv
  BY <1>1 DEF PageInv, NoJob
<1> QED
  BY <1>1, <1>2 DEF WritingInv, WritingOf, Crowded, Settled, InFlight, NoJob

\* Grounding: a claim that no chain is in the middle of writing has the status that its
\* stored evidence gives, unless the chain that was killed there has still to come back
\* to it, a promotion has made it insufficient, or two chains wrote it at once, and no
\* chain has written it alone since.
THEOREM StatusAlwaysMatches == Spec => []StatusMatchesEvidence
<1>1. Init => WritingInv
  BY WritingStarts
<1>2. GroundingTypes /\ WritingInv /\ [Next]_vars => WritingInv'
  BY WritingInvStep
<1>3. WritingInv => StatusMatchesEvidence
  <2> SUFFICES ASSUME WritingInv, NEW c \in Claims, claimRow[c] # NoClaimRow, InFlight(c) = {}
               PROVE  \/ claimRow[c].status = StatusOf(evidence[c])
                      \/ \E g \in torn[c] \cap Grounders : job[g].pc \notin {"idle", "done"}
                      \/ "promotion" \in torn[c] /\ claimRow[c].status = "INSUFFICIENT"
                      \/ "overlap" \in torn[c]
    BY DEF StatusMatchesEvidence
  <2>1. \A g \in torn[c] \cap Grounders : job[g].pc \notin {"idle", "done"}
    BY DEF WritingInv, WritingOf, Pending
  <2> QED
    BY <2>1 DEF WritingInv, WritingOf, Settled, Reset
<1> QED
  BY <1>1, <1>2, <1>3, GroundingTyping, PTL DEF Spec
-----------------------------------------------------------------------------
(* The order of the ranking.                                               *)

IsScored(input) ==
    /\ DOMAIN input \subseteq Stories
    /\ \A s \in DOMAIN input : input[s].gap \in Percent /\ input[s].fact \in Percent
                                /\ input[s].audience \in Percent

\* One story before another: the first of score, facts, freshness and id that differs.
First(s, t, input) ==
    LET score(u) == EditorialScore(u, input[u])
    IN  \/ score(s) > score(t)
        \/ score(s) = score(t) /\ input[s].fact > input[t].fact
        \/ score(s) = score(t) /\ input[s].fact = input[t].fact /\ Freshness[s] > Freshness[t]
        \/ /\ score(s) = score(t) /\ input[s].fact = input[t].fact /\ Freshness[s] = Freshness[t]
           /\ Order[s] < Order[t]

LEMMA AheadIsFirst ==
  ASSUME NEW input, IsScored(input), NEW s \in DOMAIN input, NEW t \in DOMAIN input
  PROVE  /\ Ahead(s, t, input) <=> First(s, t, input)
         /\ EditorialScore(s, input[s]) \in Int /\ input[s].fact \in Int
         /\ Freshness[s] \in Int /\ Order[s] \in Int
<1> DEFINE key == [u \in {s, t} |-> <<EditorialScore(u, input[u]), input[u].fact, Freshness[u], -Order[u]>>]
<1>1. /\ key[s] = <<EditorialScore(s, input[s]), input[s].fact, Freshness[s], -Order[s]>>
      /\ key[t] = <<EditorialScore(t, input[t]), input[t].fact, Freshness[t], -Order[t]>>
  OBVIOUS
<1>2. ASSUME NEW u \in {s, t}
      PROVE  /\ EditorialScore(u, input[u]) \in Int /\ input[u].fact \in Int
             /\ Freshness[u] \in Int /\ Order[u] \in Int
  <2>0. u \in DOMAIN input /\ u \in Stories
    BY DEF IsScored
  <2>1. input[u].gap \in Percent /\ input[u].fact \in Percent /\ input[u].audience \in Percent
    BY <2>0 DEF IsScored
  <2>2. MatchContext \in Int /\ Freshness[u] \in Int /\ Order[u] \in Int
    BY <2>0, RankingAssumption
  <2>3. \A x \in Percent : x \in Int
    BY DEF Percent
  <2>4. \A a, b, c, d, e \in Int : 35 * a + 30 * b + 15 * c + 10 * d + 10 * e \in Int
    OBVIOUS
  <2>5. EditorialScore(u, input[u]) \in Int
    BY <2>1, <2>2, <2>3, <2>4 DEF EditorialScore
  <2> QED
    BY <2>1, <2>2, <2>3, <2>5
<1>3. Ahead(s, t, input) <=> \E i \in 1..4 : key[s][i] > key[t][i] /\ \A j \in 1 .. i - 1 : key[s][j] = key[t][j]
  BY DEF Ahead
<1> HIDE DEF key
<1> DEFINE by(i) == key[s][i] > key[t][i] /\ \A j \in 1 .. i - 1 : key[s][j] = key[t][j]
<1>4. Ahead(s, t, input) <=> by(1) \/ by(2) \/ by(3) \/ by(4)
  BY <1>3
<1>5. /\ by(1) <=> key[s][1] > key[t][1]
      /\ by(2) <=> key[s][1] = key[t][1] /\ key[s][2] > key[t][2]
      /\ by(3) <=> key[s][1] = key[t][1] /\ key[s][2] = key[t][2] /\ key[s][3] > key[t][3]
      /\ by(4) <=> key[s][1] = key[t][1] /\ key[s][2] = key[t][2] /\ key[s][3] = key[t][3]
                   /\ key[s][4] > key[t][4]
  <2>1. 1..0 = {} /\ 1..1 = {1} /\ 1..2 = {1, 2} /\ 1..3 = {1, 2, 3}
    OBVIOUS
  <2> QED
    BY <2>1
<1> HIDE DEF by
<1>6. key[s][4] > key[t][4] <=> Order[s] < Order[t]
  BY <1>1, <1>2
<1> QED
  BY <1>1, <1>2, <1>4, <1>5, <1>6 DEF First

\* The order of the list is total and has no ties.
LEMMA AheadIsOrder ==
  ASSUME NEW input, IsScored(input), NEW s \in DOMAIN input, NEW t \in DOMAIN input
  PROVE  /\ ~Ahead(s, s, input)
         /\ s # t => Ahead(s, t, input) \/ Ahead(t, s, input)
         /\ \A u \in DOMAIN input : Ahead(s, t, input) /\ Ahead(t, u, input) => Ahead(s, u, input)
<1>1. s # t => Order[s] # Order[t]
  BY RankingAssumption DEF IsScored
<1>2. \A u, v \in DOMAIN input :
        /\ Ahead(u, v, input) <=> First(u, v, input)
        /\ EditorialScore(u, input[u]) \in Int /\ input[u].fact \in Int
        /\ Freshness[u] \in Int /\ Order[u] \in Int
  BY AheadIsFirst
<1> QED
  BY <1>1, <1>2 DEF First

\* The ranks of a list are the numbers from one to its length, each of one story.
LEMMA RanksAreDistinct ==
  ASSUME NEW input, IsScored(input)
  PROVE  IsList(RankEditorialInputs(input))
<1> DEFINE S == DOMAIN input
           above(s) == {t \in S \ {s} : Ahead(t, s, input)}
           n == Cardinality(S)
           place == [s \in S |-> 1 + Cardinality(above(s))]
<1>1. IsFiniteSet(S) /\ n \in Nat
  BY RankingAssumption, FS_Subset, FS_CardinalityType DEF IsScored
<1>2. ASSUME NEW s \in S
      PROVE  IsFiniteSet(above(s)) /\ Cardinality(above(s)) \in Nat /\ Cardinality(above(s)) < n
  <2>1. above(s) \in SUBSET (S \ {s}) /\ IsFiniteSet(S \ {s}) /\ Cardinality(S \ {s}) = n - 1
    BY <1>1, FS_RemoveElement
  <2> HIDE DEF above, n
  <2>2. IsFiniteSet(above(s)) /\ Cardinality(above(s)) <= n - 1
    BY <2>1, FS_Subset
  <2> QED
    BY <1>1, <2>2, FS_CardinalityType
<1>3. ASSUME NEW s \in S, NEW t \in S, Ahead(t, s, input)
      PROVE  Cardinality(above(t)) < Cardinality(above(s))
  <2>1. above(t) \subseteq above(s) /\ t \in above(s) /\ t \notin above(t)
    BY <1>3, AheadIsOrder
  <2> HIDE DEF above
  <2>2. Cardinality(above(t)) <= Cardinality(above(s)) /\ Cardinality(above(t)) # Cardinality(above(s))
    BY <1>2, <2>1, FS_Subset
  <2> QED
    BY <1>2, <2>2
<1> HIDE DEF above
<1>4. place \in [S -> 1..n]
  BY <1>1, <1>2
<1>5. ASSUME NEW s \in S, NEW t \in S, place[s] = place[t]
      PROVE  s = t
  <2>1. Cardinality(above(s)) = Cardinality(above(t))
    BY <1>2, <1>5
  <2> QED
    BY <1>2, <1>3, <2>1, AheadIsOrder
<1>6. place \in Injection(S, 1..n)
  <2> HIDE DEF place
  <2> QED
    BY <1>4, <1>5 DEF Injection, IsInjective
<1>7. IsFiniteSet(1..n) /\ Cardinality(1..n) = n
  BY <1>1, FS_Interval
<1>8. place \in Surjection(S, 1..n)
  <2> HIDE DEF place, n
  <2> QED
    BY <1>6, <1>7, FS_Injection DEF n
<1>9. {place[s] : s \in S} = 1..n
  <2> HIDE DEF place
  <2> QED
    BY <1>4, <1>8 DEF Surjection
<1> DEFINE list == RankEditorialInputs(input)
<1>10. list = [s \in S |-> [rank |-> place[s], status |-> input[s].status, newsEligible |-> NewsEligible(input[s])]]
  BY DEF RankEditorialInputs, above
<1>11. DOMAIN list = S /\ \A s \in S : list[s].rank = place[s]
  BY <1>10
<1>12. list = [s \in DOMAIN list |-> list[s]]
  BY <1>10
<1>13. {list[s].rank : s \in S} = 1..n
  <2> HIDE DEF list, place
  <2> QED
    BY <1>9, <1>11
<1> HIDE DEF list
<1> QED
  BY <1>11, <1>12, <1>13 DEF IsList, IsScored, list

LEMMA FactScoreIsPercent ==
  ASSUME GroundingTypes, NEW s
  PROVE  FactScore(s) \in Percent
<1> DEFINE of(c) == {IF claimRow[c].confidence = 0 THEN 100 ELSE claimRow[c].confidence}
                      \cup {Reliability[e.source] : e \in {e \in evidence[c] : e.role \in FactRoles}}
           all == {0} \cup UNION {of(c) : c \in WithStatus(s, "VERIFIED")}
<1>1. ASSUME NEW c \in WithStatus(s, "VERIFIED")
      PROVE  of(c) \subseteq Percent
  <2>1. c \in Claims
    BY DEF WithStatus, ClaimsOf
  <2>2. claimRow[c].confidence \in Percent /\ 100 \in Percent
    BY <2>1 DEF GroundingTypes, ClaimTypes, Percent
  <2>3. \A e \in evidence[c] : Reliability[e.source] \in Percent
    BY <2>1, RankingAssumption DEF GroundingTypes, ClaimTypes, Percent
  <2> QED
    BY <2>2, <2>3
<1>2. all \subseteq Percent /\ all # {}
  <2> HIDE DEF of
  <2> QED
    BY <1>1 DEF Percent
<1>3. Max(all) \in Percent
  <2> HIDE DEF all
  <2> QED
    BY <1>2, GreatestPercent
<1>4. FactScore(s) = Bounded(Max(all))
  BY DEF FactScore
<1>5. \A x \in Percent : x \in Int
  BY DEF Percent
<1> QED
  BY <1>3, <1>4, <1>5, BoundedIsPercent

LEMMA SignalsAreNumbers ==
  ASSUME GroundingTypes, NEW s \in Stories
  PROVE  DiscoverySignals(s).number \in Nat /\ DiscoverySignals(s).sum \in Nat
<1> DEFINE found == UNION {{<<c, e.source>> : e \in {e \in evidence[c] : e.role \in DiscoveryRoles}} :
                             c \in ClaimsOf(s)}
           own == {i \in Rows : row[i].version = DiscoveryVersion /\ StoryOf[row[i].claim] = s}
           number == Cardinality(found) + Cardinality(own)
<1>1. found \subseteq Claims \X Observations
  BY DEF GroundingTypes, ClaimTypes, ClaimsOf
<1>2. own \subseteq 1..MaxRows
  BY DEF GroundingTypes, ClaimTypes, Rows
<1>3. IsFiniteSet(Claims \X Observations) /\ IsFiniteSet(1..MaxRows)
  <2>1. 1 \in Int /\ MaxRows \in Int /\ IsFiniteSet(Claims) /\ IsFiniteSet(Observations)
    BY GroundingAssumption, SourceDiscoveryAssumption DEF Claims
  <2> QED
    BY <2>1, FS_Product, FS_Interval
<1>4. Cardinality(found) \in Nat /\ Cardinality(own) \in Nat
  <2> HIDE DEF found, own
  <2> QED
    BY <1>1, <1>2, <1>3, FS_Subset, FS_CardinalityType
<1>5. DiscoverySignals(s) = [number |-> number + PostSignals[s].number,
                             sum |-> 70 * number + PostSignals[s].sum]
  BY DEF DiscoverySignals
<1>6. number \in Nat /\ PostSignals[s].number \in Nat /\ PostSignals[s].sum \in Nat
  <2> HIDE DEF found, own
  <2> QED
    BY <1>4, RankingAssumption
<1> HIDE DEF number
<1> QED
  BY <1>5, <1>6

LEMMA InputsAreScored ==
  ASSUME GroundingTypes, NEW S \in SUBSET Stories
  PROVE  IsScored([s \in S |-> Input(s)])
<1> SUFFICES ASSUME NEW s \in S
             PROVE  Input(s).gap \in Percent /\ Input(s).fact \in Percent /\ Input(s).audience \in Percent
  BY DEF IsScored
<1>1. FactScore(s) \in Percent /\ DiscoverySignals(s).sum \in Nat /\ DiscoverySignals(s).number \in Nat
  BY FactScoreIsPercent, SignalsAreNumbers
<1>2. 100 - FactScore(s) \in Int /\ DiscoverySignals(s).sum \in Int
  BY <1>1 DEF Percent
<1>3. Bounded(100 - FactScore(s)) \in Percent /\ Bounded(DiscoverySignals(s).sum) \in Percent
  BY <1>2, BoundedIsPercent
<1>4. /\ Input(s).fact = FactScore(s) /\ Input(s).audience = Bounded(DiscoverySignals(s).sum)
      /\ Input(s).gap \in {Bounded(100 - FactScore(s)), 0}
  BY DEF Input
<1>5. 0 \in Percent
  BY DEF Percent
<1> QED
  BY <1>1, <1>3, <1>4, <1>5

LEMMA NoListIsList == IsList(NoList) /\ DOMAIN NoList = {}
<1>1. DOMAIN NoList = {} /\ NoList = [s \in {} |-> NoList[s]]
  BY DEF NoList
<1>2. Cardinality({}) = 0 /\ 1..0 = {}
  BY FS_EmptySet
<1> QED
  BY <1>1, <1>2 DEF IsList

-----------------------------------------------------------------------------
(* The ranking shown.                                                      *)

\* What a step of a run may do to it, and to the others.
Turns(r, pc) ==
    /\ DOMAIN rank' = Rankers
    /\ \A t \in Rankers \ {r} : rank'[t] = rank[t]
    /\ IsRun(rank'[r]) /\ rank'[r].pc = pc /\ rank'[r].alone \in BOOLEAN

\* A step of one run keeps the company it was in, unless it begins.
LEMMA CompanyIsKept ==
  ASSUME RankInv, NEW r \in Rankers, NEW pc, Turns(r, pc), Running(r),
         rank'[r].alone => rank[r].alone \/ pc = "idle"
  PROVE  Alone'
BY DEF RankInv, Alone, Turns, Running

LEMMA RankFrame ==
  ASSUME RankInv, UNCHANGED <<rank, ranking, shown>>, relevant' \subseteq Stories
  PROVE  RankInv'
BY DEF RankInv, RankTypes, Alone, Running, Working, ShownIsTable

LEMMA BeginKeepsRanking ==
  ASSUME RankInv, NEW r \in Rankers, BeginRanking(r)
  PROVE  RankInv'
<1> DEFINE alone == \A t \in Rankers : ~Running(t)
<1>1. /\ rank' = [t \in Rankers |-> IF t = r THEN [NoRank EXCEPT !.pc = "list", !.alone = alone]
                                    ELSE [rank[t] EXCEPT !.alone = FALSE]]
      /\ UNCHANGED <<relevant, ranking, shown>>
  BY DEF BeginRanking
<1>2. alone \in BOOLEAN
  OBVIOUS
<1> HIDE DEF alone
<1>3. /\ DOMAIN rank' = Rankers
      /\ IsRun(rank'[r]) /\ rank'[r].pc = "list" /\ rank'[r].alone = alone
  BY <1>1 DEF IsRun, NoRank
<1>4. \A t \in Rankers \ {r} :
        /\ IsRun(rank'[t]) /\ rank'[t].alone = FALSE
        /\ rank'[t].pc = rank[t].pc /\ rank'[t].list = rank[t].list /\ rank'[t].todo = rank[t].todo
  BY <1>1 DEF IsRun, RankInv, RankTypes
<1>5. RankTypes'
  BY <1>1, <1>2, <1>3, <1>4 DEF RankTypes, RankInv
<1>6. Alone'
  <2>1. ASSUME NEW a \in Rankers, NEW t \in Rankers, rank'[a].alone, t # a
        PROVE  ~Running(t)'
    <3>1. a = r /\ alone
      BY <1>3, <1>4, <2>1
    <3> QED
      BY <1>4, <2>1, <3>1 DEF Running, alone
  <2> QED
    BY <2>1 DEF Alone
<1>7. \A t \in Rankers : Working(t)'
  <2>1. Working(r)'
    BY <1>3 DEF Working
  <2>2. ASSUME NEW t \in Rankers \ {r}
        PROVE  Working(t)'
    <3>1. Working(t)
      BY DEF RankInv
    <3> QED
      BY <1>1, <1>4, <3>1 DEF Working
  <2> QED
    BY <2>1, <2>2
<1>8. ShownIsTable'
  BY <1>1, <1>3, <1>4 DEF ShownIsTable, RankInv
<1> QED
  BY <1>5, <1>6, <1>7, <1>8 DEF RankInv

LEMMA ListKeepsRanking ==
  ASSUME GroundingTypes, RankInv, NEW r \in Rankers, ListInputs(r)
  PROVE  RankInv'
<1> DEFINE list == RankEditorialInputs([s \in relevant |-> Input(s)])
<1>1. IsList(list)
  BY InputsAreScored, RanksAreDistinct DEF RankInv, RankTypes
<1>2. /\ rank[r].pc = "list" /\ UNCHANGED <<relevant, ranking, shown>>
      /\ rank' = [rank EXCEPT ![r].pc = "clear", ![r].list = list, ![r].todo = DOMAIN list]
  BY DEF ListInputs
<1> HIDE DEF list
<1>3. /\ Turns(r, "clear") /\ rank'[r].list = list /\ rank'[r].todo = DOMAIN list
      /\ rank'[r].alone = rank[r].alone
  BY <1>2 DEF Turns, IsRun, RankInv, RankTypes
<1>4. RankTypes'
  BY <1>2, <1>3 DEF Turns, RankTypes, RankInv
<1>5. Alone'
  BY <1>2, <1>3, CompanyIsKept DEF Running
<1>6. \A t \in Rankers : Working(t)'
  <2>1. Working(r)'
    BY <1>1, <1>3 DEF Turns, Working
  <2>2. ASSUME NEW t \in Rankers \ {r}
        PROVE  Working(t)'
    <3>1. Working(t) /\ rank'[t] = rank[t]
      BY <1>3 DEF RankInv, Turns
    <3> QED
      BY <1>2, <3>1 DEF Working
  <2> QED
    BY <2>1, <2>2
<1>7. ShownIsTable'
  BY <1>2, <1>3 DEF Turns, ShownIsTable, RankInv
<1> QED
  BY <1>4, <1>5, <1>6, <1>7 DEF RankInv

LEMMA ClearKeepsRanking ==
  ASSUME RankInv, NEW r \in Rankers, ClearRankings(r)
  PROVE  RankInv'
<1>1. /\ rank[r].pc = "clear" /\ relevant' = relevant /\ ranking' = NoList /\ shown' = NoList
      /\ rank' = [rank EXCEPT ![r].pc = "write"]
  BY DEF ClearRankings, Cleared
<1>2. /\ Turns(r, "write") /\ rank'[r].list = rank[r].list /\ rank'[r].todo = rank[r].todo
      /\ rank'[r].alone = rank[r].alone
  BY <1>1 DEF Turns, IsRun, RankInv, RankTypes
<1>3. RankTypes'
  BY <1>1, <1>2 DEF Turns, RankTypes, RankInv, NoList
<1>4. Alone'
  BY <1>1, <1>2, CompanyIsKept DEF Running
<1>5. Working(r)'
  BY <1>1, <1>2, NoListIsList DEF Turns, Working, RankInv
<1>6. ASSUME NEW t \in Rankers \ {r}
      PROVE  Working(t)'
  <2>1. ~(Running(t) /\ rank[t].alone)
    BY <1>1 DEF RankInv, Alone, Running
  <2> QED
    BY <1>2, <2>1 DEF Turns, Working, RankInv, Running
<1>7. ShownIsTable'
  BY <1>1 DEF ShownIsTable
<1> QED
  BY <1>3, <1>4, <1>5, <1>6, <1>7 DEF RankInv

LEMMA UpsertKeepsRanking ==
  ASSUME RankInv, NEW r \in Rankers, NEW s, UpsertRanking(r, s)
  PROVE  RankInv'
<1>1. /\ rank[r].pc = "write" /\ s \in rank[r].todo /\ UNCHANGED <<relevant, shown>>
      /\ ranking' = [t \in DOMAIN ranking \cup {s} |-> IF t = s THEN rank[r].list[s] ELSE ranking[t]]
      /\ rank' = [rank EXCEPT ![r].todo = @ \ {s}]
  BY DEF UpsertRanking
<1>2. /\ Turns(r, "write") /\ rank'[r].list = rank[r].list /\ rank'[r].todo = rank[r].todo \ {s}
      /\ rank'[r].alone = rank[r].alone
  BY <1>1 DEF Turns, IsRun, RankInv, RankTypes
<1>3. RankTypes'
  BY <1>1, <1>2 DEF Turns, RankTypes, RankInv
<1>4. Alone'
  BY <1>1, <1>2, CompanyIsKept DEF Running
<1>5. Working(r)'
  <2> DEFINE list == rank[r].list
  <2>1. IsList(list) /\ rank[r].todo \subseteq DOMAIN list
    BY <1>1 DEF RankInv, Working
  <2>2. ASSUME rank[r].alone
        PROVE  /\ DOMAIN ranking' = DOMAIN list \ (rank[r].todo \ {s})
               /\ \A t \in DOMAIN ranking' : ranking'[t] = list[t]
    <3>1. /\ DOMAIN ranking = DOMAIN list \ rank[r].todo
          /\ \A t \in DOMAIN ranking : ranking[t] = list[t]
      BY <1>1, <2>2 DEF RankInv, Working
    <3> QED
      BY <1>1, <2>1, <3>1
  <2> QED
    BY <1>2, <2>1, <2>2 DEF Turns, Working
<1>6. ASSUME NEW t \in Rankers \ {r}
      PROVE  Working(t)'
  <2>1. ~(Running(t) /\ rank[t].alone)
    BY <1>1 DEF RankInv, Alone, Running
  <2> QED
    BY <1>2, <2>1 DEF Turns, Working, RankInv, Running
<1>7. shown' = NoList
  BY <1>1 DEF ShownIsTable, RankInv
<1> QED
  BY <1>3, <1>4, <1>5, <1>6, <1>7 DEF RankInv, ShownIsTable

LEMMA EndKeepsRanking ==
  ASSUME RankInv, NEW r \in Rankers, EndRanking(r)
  PROVE  RankInv'
<1>1. /\ rank[r].pc = "write" /\ rank[r].todo = {} /\ UNCHANGED <<relevant, ranking>>
      /\ shown' = IF rank[r].alone THEN rank[r].list ELSE NoList
      /\ rank' = [rank EXCEPT ![r] = NoRank]
  BY DEF EndRanking
<1>2. Turns(r, "idle")
  BY <1>1 DEF Turns, IsRun, RankInv, RankTypes, NoRank
<1>3. RankTypes'
  BY <1>1, <1>2 DEF Turns, RankTypes, RankInv
<1>4. Alone'
  BY <1>1, <1>2, CompanyIsKept DEF Running
<1>5. \A t \in Rankers : Working(t)'
  BY <1>1, <1>2 DEF Turns, Working, RankInv
<1>6. ShownIsTable'
  <2>1. CASE rank[r].alone
    <3> DEFINE list == rank[r].list
    <3>1. IsList(list) /\ DOMAIN ranking = DOMAIN list /\ \A s \in DOMAIN ranking : ranking[s] = list[s]
      BY <1>1, <2>1 DEF RankInv, Working
    <3>2. ranking = [s \in DOMAIN ranking |-> ranking[s]] /\ list = [s \in DOMAIN list |-> list[s]]
      BY <3>1 DEF RankInv, RankTypes, IsList
    <3>3. [s \in DOMAIN ranking |-> ranking[s]] = [s \in DOMAIN list |-> list[s]]
      BY <3>1
    <3>4. ranking = list
      BY <3>2, <3>3
    <3>5. \A t \in Rankers : rank'[t].pc # "write"
      BY <1>1, <1>2, <2>1 DEF Turns, RankInv, Alone, Running
    <3> QED
      BY <1>1, <2>1, <3>1, <3>4, <3>5 DEF ShownIsTable
  <2> QED
    BY <1>1, <2>1 DEF ShownIsTable
<1> QED
  BY <1>3, <1>4, <1>5, <1>6 DEF RankInv

LEMMA KillKeepsRanking ==
  ASSUME RankInv, NEW r \in Rankers, KillRanking(r)
  PROVE  RankInv'
<1>1. Running(r) /\ UNCHANGED <<relevant, ranking, shown>> /\ rank' = [rank EXCEPT ![r] = NoRank]
  BY DEF KillRanking
<1>2. Turns(r, "idle")
  BY <1>1 DEF Turns, IsRun, RankInv, RankTypes, NoRank
<1>3. RankTypes'
  BY <1>1, <1>2 DEF Turns, RankTypes, RankInv
<1>4. Alone'
  BY <1>1, <1>2, CompanyIsKept
<1>5. \A t \in Rankers : Working(t)'
  BY <1>1, <1>2 DEF Turns, Working, RankInv
<1>6. ShownIsTable'
  BY <1>1, <1>2 DEF Turns, ShownIsTable, RankInv
<1> QED
  BY <1>3, <1>4, <1>5, <1>6 DEF RankInv

LEMMA RankInvStep ==
  ASSUME GroundingTypes, RankInv, [Next]_vars
  PROVE  RankInv'
<1>0. relevant \subseteq Stories
  BY DEF RankInv, RankTypes
<1>1. CASE GroundingNext /\ UNCHANGED rankVars
  BY <1>0, <1>1, RankFrame DEF rankVars
<1>2. CASE Turn
  BY <1>2, RankFrame DEF Turn
<1>3. ASSUME NEW r \in Rankers,
             \/ BeginRanking(r) \/ ListInputs(r) \/ ClearRankings(r) \/ EndRanking(r) \/ KillRanking(r)
             \/ \E s \in Stories : UpsertRanking(r, s)
      PROVE  RankInv'
  BY <1>3, BeginKeepsRanking, ListKeepsRanking, ClearKeepsRanking, EndKeepsRanking, KillKeepsRanking,
     UpsertKeepsRanking
<1>4. CASE UNCHANGED vars
  BY <1>0, <1>4, RankFrame DEF vars, rankVars
<1> QED
  BY <1>1, <1>2, <1>3, <1>4 DEF Next

LEMMA RankingStarts ==
  ASSUME Init
  PROVE  RankInv
<1>1. relevant = Stories /\ ranking = NoList /\ shown = NoList /\ rank = [r \in Rankers |-> NoRank]
  BY DEF Init
<1>2. \A r \in Rankers : IsRun(rank[r]) /\ rank[r].pc = "idle" /\ rank[r].alone = FALSE
  BY <1>1 DEF IsRun, NoRank
<1>3. RankTypes
  BY <1>1, <1>2 DEF RankTypes, NoList
<1> QED
  BY <1>1, <1>2, <1>3 DEF RankInv, Alone, Working, ShownIsTable

\* Ranking: after a run that no other overlapped the table is its list, each story at a
\* rank of its own and none that is no longer relevant, whatever runs were killed
\* before it and whatever grounding writes meanwhile.
THEOREM RankingIsNeverStale == Spec => []NoStaleRanking
<1>1. Init => RankInv
  BY RankingStarts
<1>2. GroundingTypes /\ RankInv /\ [Next]_vars => RankInv'
  BY RankInvStep
<1>3. RankInv => NoStaleRanking
  BY DEF RankInv, ShownIsTable, IsList, NoStaleRanking
<1> QED
  BY <1>1, <1>2, <1>3, GroundingTyping, PTL DEF Spec
=============================================================================
