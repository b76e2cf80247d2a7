------------------------------ MODULE Grounding -------------------------------
(***************************************************************************)
(* Claim grounding: a chain of jobs, one for each page.  A job reads its   *)
(* page of claims and the observations, classifies each claim, and then    *)
(* for one claim after another writes the claim's row, its evidence, and   *)
(* deletes the evidence that no longer stands.  A killed job is run again  *)
(* from its cursor.  Beside it sources are discovered, and a promotion may *)
(* write the article of a reviewed publisher and the claims of its report. *)
(***************************************************************************)
EXTENDS GroundingPages, SourceDiscovery

CONSTANTS Grounders,        \* the grounding chains that may be alive at once
          Worlds,           \* the instances: the analyses, the page budget, the limit
          Topics,           \* [claim -> what it is about, its modality]
          RegisteredRole,   \* the reviewed role of an observation's source, or "none"
          Report,           \* the observation of a publisher's article
          MaxRows,          \* the ids of the claims of discoveries
          \* bounds
          MaxChains, MaxKills, MaxPromotions

ASSUME GroundingAssumption ==
    /\ Report \in Observations
    /\ "promotion" \notin Grounders /\ "overlap" \notin Grounders
    /\ IsFiniteSet(DOMAIN Topics)
    /\ MaxRows \in Nat /\ MaxChains \in Nat /\ MaxKills \in Nat /\ MaxPromotions \in Nat
    \* A page of one analysis row may be its cursor's own row for ever.
    /\ \A w \in Worlds : w.limit > 0 /\ w.budget.posts > 0 /\ w.budget.analyses > 1

VARIABLES
    world,      \* content_understandings and the limits of a run
    row,        \* the story_claims of discoveries, by id: [claim, version], or NoRow
    claimRow,   \* the story_claims of the grounding version: [status, confidence]
    evidence,   \* claim_evidence
    job,        \* the grounding chains
    promotion,  \* how far the promotion of a publisher's report is
    written,    \* history: the claims each chain has written
    torn,       \* history: what a claim has suffered since one chain last wrote it alone
    chains, kills, promotions

groundingVars == <<world, row, claimRow, evidence, job, promotion, written, torn,
                   chains, kills, promotions>>

\* A claim is named by its post and fingerprint, or by its discovery; what is the same
\* claim in two rows has one name.
Extracted(p, f) == <<"extracted", p, f>>
Promoted(d) == <<"promoted", d, 0>>
Claims == DOMAIN Topics

NoRow == [claim |-> Promoted(0), version |-> "none"]
Version == "m8-b-v1"
DiscoveryVersion == "m8-6-discovery-v1"
NoClaimRow == [status |-> "absent", confidence |-> 0]
NoneHeard == [o \in {} |-> 0]
NoItem == [at |-> 0, claim |-> Promoted(0), promoted |-> FALSE]
NoJob == [pc |-> "idle", cursor |-> NoCursor, asOf |-> {}, heard |-> NoneHeard, todo |-> {},
          item |-> NoItem, next |-> NoCursor]

ExtractedClaims == UNION {UNION {{Extracted(p, f) : f \in world.rows[p][r]} :
                                   r \in DOMAIN world.rows[p]} : p \in DOMAIN world.rows}

GroundingInit ==
    /\ world \in Worlds
    /\ row = [i \in 1..MaxRows |-> IF i \in DOMAIN world.discovered
                THEN [claim |-> Promoted(world.discovered[i]), version |-> DiscoveryVersion] ELSE NoRow]
    /\ claimRow = [c \in Claims |-> NoClaimRow]
    /\ evidence = [c \in Claims |-> {}]
    /\ job = [g \in Grounders |-> NoJob]
    /\ promotion = "idle"
    /\ written = [g \in Grounders |-> {}]
    /\ torn = [c \in Claims |-> {}]
    /\ chains = 0 /\ kills = 0 /\ promotions = 0

Rows == {i \in DOMAIN row : row[i] # NoRow}

-----------------------------------------------------------------------------
\* listObservations: an observation in the role of a fact counts only if its source is
\* registered, active and reviewed in that role.
ListObservations ==
    [o \in {o \in Observations : /\ observation[o].seen
                                 /\ RoleOf[o] \in FactRoles => RegisteredRole[o] = RoleOf[o]} |->
        [role |-> RoleOf[o], relation |-> "SUPPORTS", reportOnly |-> observation[o].reportOnly,
         sentences |-> observation[o].text.sentences]]

\* A chain starts with the claims there are at its as_of.
BeginChain(g) ==
    /\ job[g].pc = "idle" /\ chains < MaxChains
    /\ chains' = chains + 1
    /\ job' = [job EXCEPT ![g] = [NoJob EXCEPT !.pc = "load", !.asOf = Rows]]
    /\ written' = [written EXCEPT ![g] = {}]
    /\ UNCHANGED <<sourceVars, world, row, claimRow, evidence, promotion, torn, kills, promotions>>

\* The page at the job's cursor, and its claims as they are in their rows.
Page(g) == ListClaims(world.rows, job[g].asOf, world.limit, world.budget, job[g].cursor)

ItemsOf(page, limit, listed) ==
    LET kept == SubSeq(page.claims, 1, Min({Len(page.claims), limit}))
        claim(place) == IF place.kind = "d" THEN listed[place.at] ELSE Extracted(place.at, place.fp)
    IN  {[at |-> i, claim |-> claim(kept[i]), promoted |-> kept[i].kind = "d"] : i \in DOMAIN kept}

PageClaims(g) == ItemsOf(Page(g), world.limit, [i \in job[g].asOf |-> row[i].claim])

\* The page and the observations are read.
LoadPage(g) ==
    /\ job[g].pc = "load"
    /\ job' = [job EXCEPT ![g].pc = "claim", ![g].next = Page(g).nextCursor,
                          ![g].heard = ListObservations, ![g].todo = PageClaims(g)]
    /\ UNCHANGED <<sourceVars, world, row, claimRow, evidence, promotion, written, torn,
                   chains, kills, promotions>>

\* A claim is classified by what was heard when its page was read.
Classified(c, heard) == ClassifyPreparedClaimEvidence(Topics[c], heard)
Result(g) == Classified(job[g].item.claim, job[g].heard)

\* Those that are in the middle of writing a claim.
InFlight(c) == {g \in Grounders : job[g].pc \in {"evidence", "stale"} /\ job[g].item.claim = c}

\* A promoted claim's row of this version, the one there is or a new one.
RowsWith(c, promoted) ==
    IF ~promoted \/ [claim |-> c, version |-> Version] \in {row[i] : i \in Rows} THEN {row}
    ELSE {[row EXCEPT ![i] = [claim |-> c, version |-> Version]] : i \in DOMAIN row \ Rows}

\* The claims of the page are written in their order, the row of each first.
UpsertClaim(g) ==
    /\ job[g].pc = "claim"
    /\ \E item \in job[g].todo :
         /\ \A other \in job[g].todo : item.at =< other.at
         /\ job' = [job EXCEPT ![g].pc = "evidence", ![g].item = item]
         /\ row' \in RowsWith(item.claim, item.promoted)
         /\ LET result == Classified(item.claim, job[g].heard)
            IN  claimRow' = [claimRow EXCEPT ![item.claim] =
                               [status |-> result.status, confidence |-> result.confidence]]
         /\ torn' = [torn EXCEPT ![item.claim] = IF InFlight(item.claim) = {} THEN {} ELSE {"overlap"}]
         /\ written' = [written EXCEPT ![g] = @ \cup {item.claim}]
    /\ UNCHANGED <<sourceVars, world, evidence, promotion, chains, kills, promotions>>

\* replaceEvidenceBatch, first half: the rows are upserted by observation.
UpsertEvidence(g) ==
    /\ job[g].pc = "evidence"
    /\ LET new == Result(g).evidence
           replaced == {e.source : e \in new}
       IN  evidence' = [evidence EXCEPT ![job[g].item.claim] =
                          {e \in @ : e.source \notin replaced} \cup new]
    /\ job' = [job EXCEPT ![g].pc = "stale"]
    /\ UNCHANGED <<sourceVars, world, row, claimRow, promotion, written, torn, chains, kills, promotions>>

\* Mutant: evidence is only ever added.
StandingAll(rows, kept) == rows

\* The rows whose observation still gives evidence; the others are deleted.
Standing(rows, kept) == {e \in rows : e.source \in kept}

\* replaceEvidenceBatch, second half.
DeleteStale(g) ==
    /\ job[g].pc = "stale"
    /\ evidence' = [evidence EXCEPT ![job[g].item.claim] =
                       Standing(@, {e.source : e \in Result(g).evidence})]
    /\ job' = [job EXCEPT ![g].pc = "claim", ![g].todo = @ \ {job[g].item}, ![g].item = NoItem]
    /\ UNCHANGED <<sourceVars, world, row, claimRow, promotion, written, torn, chains, kills, promotions>>

\* The page is done: the next one is the follow-up job's, unless there is none.
EndPage(g) ==
    /\ job[g].pc = "claim" /\ job[g].todo = {}
    /\ job' = [job EXCEPT ![g].pc = IF job[g].next = NoCursor THEN "done" ELSE "load",
                          ![g].cursor = job[g].next, ![g].heard = NoneHeard]
    /\ UNCHANGED <<sourceVars, world, row, claimRow, evidence, promotion, written, torn,
                   chains, kills, promotions>>

\* A job that is killed or whose request fails is delivered again with its cursor.
Kill(g) ==
    /\ job[g].pc \in {"claim", "evidence", "stale"} /\ kills < MaxKills
    /\ kills' = kills + 1
    /\ torn' = [c \in Claims |-> IF g \in InFlight(c) THEN torn[c] \cup {g} ELSE torn[c]]
    /\ job' = [job EXCEPT ![g].pc = "load", ![g].heard = NoneHeard, ![g].todo = {},
                          ![g].item = NoItem, ![g].next = NoCursor]
    /\ UNCHANGED <<sourceVars, world, row, claimRow, evidence, promotion, written,
                   chains, promotions>>

\* A chain that has ended leaves room for another.
Leave(g) ==
    /\ job[g].pc = "done"
    /\ job' = [job EXCEPT ![g] = NoJob]
    /\ written' = [written EXCEPT ![g] = {}]
    /\ UNCHANGED <<sourceVars, world, row, claimRow, evidence, promotion, torn,
                   chains, kills, promotions>>

-----------------------------------------------------------------------------
\* A promotion writes the article of a reviewed publisher, as one that only reports...
EnsureReviewedPublisherObservation ==
    /\ promotion = "idle" /\ promotions < MaxPromotions
    /\ RegisteredRole[Report] \in FactRoles
    /\ promotions' = promotions + 1
    /\ promotion' = "article"
    /\ \E body \in Bodies : observation' = [observation EXCEPT ![Report] = Saved(body, TRUE)]
    /\ UNCHANGED <<sourceRun, sourceRuns, world, row, claimRow, evidence, job, written, torn,
                   chains, kills>>

\* ... and then the claims of its sentences, as not yet grounded.
EnsurePublisherReportClaims ==
    /\ promotion = "article"
    /\ promotion' = "idle"
    /\ \E c \in {c \in Claims : Topics[c].scope = "PUBLISHER_REPORT"} :
         /\ row' \in RowsWith(c, TRUE)
         /\ claimRow' = [claimRow EXCEPT ![c] = [status |-> "INSUFFICIENT", confidence |-> 0]]
         /\ torn' = [torn EXCEPT ![c] = @ \cup {"promotion"}]
    /\ UNCHANGED <<sourceVars, world, evidence, job, written, chains, kills, promotions>>

GroundingNext ==
    \/ \E g \in Grounders :
         \/ BeginChain(g) \/ LoadPage(g) \/ UpsertClaim(g) \/ UpsertEvidence(g)
         \/ DeleteStale(g) \/ EndPage(g) \/ Kill(g) \/ Leave(g)
    \/ EnsureReviewedPublisherObservation
    \/ EnsurePublisherReportClaims
    \/ SourceNext /\ UNCHANGED groundingVars
==============================================================================
