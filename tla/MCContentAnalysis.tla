-------------------------- MODULE MCContentAnalysis --------------------------
(* One account with one post, a carousel of two slides; two overlapping       *)
(* collections and two overlapping analyses of it.                            *)
EXTENDS ContentAnalysis, TLC

CONSTANTS a, p, m, n, c, d, e, f, k, l

MCOwnerOf == p :> a
MCAssetsOf == p :> {m, n}
MCFormatsOf == p :> {"CAROUSEL_ALBUM", "VIDEO"}
MCIndexOf == m :> 0 @@ n :> 1

\* Every bucket for a young post, every other one later, then no more.
MCSnapshotInterval(age) == IF age < 2 THEN 1 ELSE IF age < 4 THEN 2 ELSE 0

\* An analysis reads neither the clock nor Instagram nor the token, so that a change
\* of these during an analysis might as well have come before it.  A collection reads
\* no analysis: to keep the instance small, collections overlap each other only before
\* the first analysis.
QuietWorld ==
    /\ environment' # environment => \A x \in Analyses : ~Running(x)
    /\ analyses' > 0 => Cardinality({x \in Collections : Busy(x)'}) + Cardinality({x \in Analyses : Running(x)'}) =< 2
    /\ analyses' > 0 => Cardinality({x \in Collections : Busy(x)'}) =< 1

IngestSymmetry == Permutations({k, l}) \cup Permutations({c, d}) \cup Permutations({e, f})
==============================================================================
