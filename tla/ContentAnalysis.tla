---------------------------- MODULE ContentAnalysis ----------------------------
(***************************************************************************)
(* Content analysis beside the collection it reads from: a run lists the   *)
(* recent posts and what was analysed of them, reads the cached pictures,  *)
(* asks the model and saves one row for each input it has not seen.        *)
(***************************************************************************)
EXTENDS InstagramCollection, Sequences, SequencesExt

CONSTANTS Analyses,         \* the invocations that may be alive at once
          Workers,          \* CONTENT_UNDERSTANDING_CONCURRENCY (1..2)
          IndexOf,          \* the place of a picture in its carousel, from 0
          MaxSlides,        \* CONTENT_UNDERSTANDING_MAX_SLIDES
          BatchSize,
          \* bounds
          MaxAnalyses

ASSUME AnalysisAssumption ==
    /\ Workers \in 1..2 /\ BatchSize \in Nat \ {0}
    /\ IndexOf \in [Assets -> Nat] /\ MaxSlides \in 1..10
    /\ MaxAnalyses \in Nat

VARIABLES
    understanding,  \* content_understandings, in the order of creation
    analysis,       \* the live runs
    analyses,
    lostSaves,      \* history: a save took effect though its answer was lost
    overlapped      \* history: two runs have been alive at once

analysisVars == <<understanding, analysis, analyses, lostSaves, overlapped>>
vars == <<collectVars, analysisVars>>

NoAnalysis == [pc |-> "idle", listed |-> <<>>, known |-> <<>>, todo |-> {}, open |-> <<>>,
               workers |-> 0, broken |-> FALSE]

Init ==
    /\ CollectInit
    /\ understanding = <<>>
    /\ analysis = [b \in Analyses |-> NoAnalysis]
    /\ analyses = 0
    /\ lostSaves = FALSE /\ overlapped = FALSE

RowsOf(p) == {u \in ToSet(understanding) : u.post = p}
Running(b) == analysis[b].pc = "run"

-----------------------------------------------------------------------------
\* What a listed picture is: "typed" with its path and type, "bare" without them.
DecodeAsset(m) == IF asset[m] = "cached" THEN "typed" ELSE "bare"

\* What is listed of a post: its caption, its format and its picture rows as they are.
DecodeCandidate(p) ==
    [caption |-> post[p], format |-> remote[p].format,
     marks |-> [m \in {m \in AssetsOf[p] : asset[m] # "absent"} |-> DecodeAsset(m)]]

\* Mutant: the inputs of earlier rows are not fetched.
ExistingUnread(p) == {}

Existing(p) == {u.input : u \in RowsOf(p)}

\* listCandidates: a batch of stored posts, then the inputs analysed of them.
BeginAnalysis(b) ==
    /\ ~Running(b) /\ analyses < MaxAnalyses /\ analyses' = analyses + 1
    /\ \E chosen \in SUBSET {p \in Posts : Stored(p)}, limit \in 1..BatchSize :
         /\ Cardinality(chosen) = Min({limit, Cardinality({p \in Posts : Stored(p)})})
         /\ analysis' = [analysis EXCEPT ![b] = [NoAnalysis EXCEPT
               !.pc = "run", !.todo = chosen, !.workers = Workers,
               !.listed = [p \in chosen |-> DecodeCandidate(p)],
               !.known = [p \in chosen |-> Existing(p)]]]
    /\ overlapped' = (overlapped \/ \E d \in Analyses : Running(d))
    /\ UNCHANGED <<collectVars, understanding, lostSaves>>

\* The first pictures of a post, as many as are read of it.
Slides(candidate) ==
    {m \in DOMAIN candidate.marks :
        Cardinality({n \in DOMAIN candidate.marks : IndexOf[n] < IndexOf[m]}) < MaxSlides}

\* A picture is read by its path, from the bucket.
Readable(candidate) == {m \in Slides(candidate) : candidate.marks[m] = "typed" /\ m \in object}

\* The input: all that is listed, with the hash of the pictures that were read.
InputFingerprint(candidate, read) ==
    [candidate EXCEPT !.marks = [m \in DOMAIN @ |-> IF m \in read THEN "read" ELSE @[m]]]

VisualFormat(candidate, read) ==
    CASE read = {} -> "NO_MEDIA"
      [] candidate.format = "CAROUSEL_ALBUM" -> "CAROUSEL"
      [] candidate.format = "REELS" -> "THUMBNAIL_ONLY"
      [] OTHER -> "IMAGE"

SlideCount(candidate, read) ==
    CASE read = {} -> 0
      [] VisualFormat(candidate, read) = "CAROUSEL" -> Max({IndexOf[m] : m \in read}) + 1
      [] OTHER -> 1

\* An output is taken if it is about this kind of picture and cites only slides
\* below the count, read or not.
ValidateAnalysisOutput(output, visualFormat, slideCount) ==
    /\ output.visualFormat = visualFormat
    /\ \A s \in output.slides : s < slideCount

\* What the model may answer; "none" after its three attempts.
Outputs(candidate, read) ==
    [visualFormat : {VisualFormat(candidate, read), "NO_MEDIA"},
     slides : {{IndexOf[m]} : m \in DOMAIN candidate.marks} \cup {{}}]

\* The status of an analysis: none without a picture of a post that has some,
\* failed without a good answer, partial with a picture missing.
Status(candidate, read, answered) ==
    CASE DOMAIN candidate.marks # {} /\ read = {} -> "UNAVAILABLE"
      [] ~answered -> "FAILED"
      [] Slides(candidate) \subseteq read -> "SUCCEEDED"
      [] OTHER -> "PARTIAL"

\* Mutant: a post with any analysis is done with.
SeenByPost(b, p, input) == analysis[b].known[p] # {}

Seen(b, p, input) == input \in analysis[b].known[p]

\* processCandidate up to its save: reading the pictures and asking the model, which
\* both may fail.
ProcessCandidate(b, p) ==
    LET t == analysis[b]
        candidate == t.listed[p]
    IN  /\ Running(b) /\ p \in t.todo /\ Cardinality(DOMAIN t.open) < t.workers
        /\ \E read \in SUBSET Readable(candidate) :
             LET input == InputFingerprint(candidate, read)
                 good == {o \in Outputs(candidate, read) : ValidateAnalysisOutput(
                            o, VisualFormat(candidate, read), SlideCount(candidate, read))}
             IN  \E answered \in {TRUE : o \in good} \cup {FALSE} :
                   /\ IF read = Readable(candidate) /\ answered THEN Sound ELSE Faulty
                   /\ analysis' = [analysis EXCEPT ![b].todo = @ \ {p},
                        ![b].open = IF Seen(b, p, input) THEN @
                                    ELSE [q \in DOMAIN @ \cup {p} |-> IF q # p THEN @[q]
                                          ELSE [post |-> p, input |-> input,
                                                status |-> Status(candidate, read, answered)]]]
    /\ UNCHANGED <<environment, collectTables, collect, collections,
                    understanding, analyses, lostSaves, overlapped>>

\* The upsert by post, contract and fingerprint: the last writer's row, in the
\* place of the first.
Upserted(row) ==
    IF \E i \in DOMAIN understanding : understanding[i].post = row.post /\ understanding[i].input = row.input
    THEN [i \in DOMAIN understanding |->
            IF understanding[i].post = row.post /\ understanding[i].input = row.input
            THEN row ELSE understanding[i]]
    ELSE Append(understanding, row)

Drop(f, p) == [q \in DOMAIN f \ {p} |-> f[q]]

\* The failure of a save is a failure of the analysis: the row is written again,
\* as FAILED.  If that fails too, or there was nothing to lose, the worker ends.
SaveFailed(b, p) ==
    LET row == analysis[b].open[p]
    IN  IF row.status \in {"SUCCEEDED", "PARTIAL"}
        THEN analysis' = [analysis EXCEPT ![b].open[p].status = "FAILED"]
        ELSE analysis' = [analysis EXCEPT ![b].open = Drop(@, p), ![b].workers = @ - 1,
                                          ![b].broken = TRUE]

Save(b, p) ==
    LET row == analysis[b].open[p]
    IN  /\ Running(b) /\ p \in DOMAIN analysis[b].open
        /\ \/ /\ understanding' = Upserted(row)
              /\ analysis' = [analysis EXCEPT ![b].open = Drop(@, p)]
              /\ Sound /\ UNCHANGED lostSaves
           \/ /\ Faulty /\ SaveFailed(b, p)
              /\ \/ understanding' = Upserted(row) /\ lostSaves' = TRUE
                 \/ UNCHANGED <<understanding, lostSaves>>
        /\ UNCHANGED <<environment, collectTables, collect, collections, analyses, overlapped>>

\* A run is over when its workers are; one that broke has answered with an error.
EndAnalysis(b) ==
    /\ Running(b) /\ analysis[b].open = <<>>
    /\ analysis[b].todo = {} \/ analysis[b].workers = 0
    /\ analysis' = [analysis EXCEPT ![b] = NoAnalysis]
    /\ UNCHANGED <<collectVars, understanding, analyses, lostSaves, overlapped>>

KillAnalysis(b) ==
    /\ Running(b) /\ Faulty
    /\ analysis' = [analysis EXCEPT ![b] = NoAnalysis]
    /\ UNCHANGED <<environment, collectTables, collect, collections,
                    understanding, analyses, lostSaves, overlapped>>

AnalysisStep(b) ==
    \/ BeginAnalysis(b) \/ EndAnalysis(b) \/ KillAnalysis(b)
    \/ \E p \in Posts : ProcessCandidate(b, p) \/ Save(b, p)

Next ==
    \/ CollectNext /\ UNCHANGED analysisVars
    \/ \E b \in Analyses : AnalysisStep(b)

Spec == Init /\ [][Next]_vars

-----------------------------------------------------------------------------
(* What analysing must keep. *)

\* The rows are of their type and their key is unique.
TypeOK ==
    /\ CollectTypeOK
    /\ \A i \in DOMAIN understanding :
         /\ understanding[i].post \in Posts
         /\ understanding[i].status \in {"SUCCEEDED", "PARTIAL", "FAILED", "UNAVAILABLE"}
         /\ \A j \in DOMAIN understanding : i # j =>
              <<understanding[i].post, understanding[i].input>> # <<understanding[j].post, understanding[j].input>>

\* Of what a run listed that then reports success, every post has been analysed
\* with the caption it had: nothing is skipped that no run saved.
ListedIsAnalysed ==
    [][\A b \in Analyses : Running(b) /\ EndAnalysis(b) /\ ~analysis[b].broken =>
         \A p \in DOMAIN analysis[b].listed :
            \E u \in RowsOf(p) : u.input.caption = analysis[b].listed[p].caption]_vars

\* While runs do not overlap and no answer to a save is lost, a good analysis stays:
\* no later run, failure or crash replaces it with an empty one.
GoodAnalysesStay ==
    [][~overlapped' /\ ~lostSaves' =>
         \A i \in DOMAIN understanding :
            understanding[i].status \in {"SUCCEEDED", "PARTIAL"} => understanding'[i] = understanding[i]]_vars
==============================================================================
