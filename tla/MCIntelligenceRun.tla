-------------------------- MODULE MCIntelligenceRun --------------------------
EXTENDS IntelligenceRun, TLC

Word(e, v, s, n, t) ==
    [entities |-> e, events |-> v, sources |-> s, numbers |-> n, tokens |-> t]
Story == Word({"united"}, {"injury"}, {"romano"}, {"90"}, {"united", "injury"})
Hint == Word({"united"}, {}, {"romano"}, {}, {"united"})

Edited == Word({"united"}, {"injury"}, {"romano"}, {}, {"united"})

MCTerms == {"united", "injury", "romano", "90"}
Event == Word({}, {"injury"}, {}, {}, {"injury"})

\* The first post says whom it is about only in its pictures; the second hints at
\* the story in words, which are edited, and tells it in pictures.
MCCaptionsOf == (1 :> {Event}) @@ (2 :> {Hint, Edited})
MCFoundIn == (1 :> Story) @@ (2 :> Story)
MCSignalsOf == (1 :> {}) @@ (2 :> {"body"})
MCPublishedAt == (1 :> 0) @@ (2 :> 1)

\* The invocations are alike.
RunSymmetry == Permutations(Runs)

\* Collections and analyses are seen only where a run lists the posts: they are left to
\* the moments before one does.  The first post is collected and analysed first, and
\* the second post's caption is edited, once, when the post has a story.
Focus ==
    /\ UNCHANGED <<collected, caption, analysed>> \/ \E r \in Runs : task[r].pc = "posts"
    /\ caption'[2] # caption[2] => 1 \in collected
    /\ 2 \in analysed' => 1 \in analysed'
    /\ caption'[2] = Edited => placed[2] = Hint
    /\ caption[2] = Edited => caption'[2] = Edited
==============================================================================
