---------------------------- MODULE TrendScoring -----------------------------
(***************************************************************************)
(* The score of a cluster of observations, in thousandths, and the state   *)
(* of the trend it tells.  An observation is a record: its role, platform  *)
(* and source, its age in hours (NoAge if the source gives no date), the   *)
(* scores of its engagement metrics against the platform's benchmarks and  *)
(* the relevance of its text.                                              *)
(***************************************************************************)
EXTENDS Integers, SequencesExt

NoAge == -1

\* From 0 to 100.
Clamped(x) == Max({0, Min({100000, x})})

\* The values of a field.
FieldOf(cluster, field) == {cluster[i][field] : i \in DOMAIN cluster}

-----------------------------------------------------------------------------
\* Mentions in a window of hours; an observation without a date is in none.
Mentions(cluster, from, to) ==
    Cardinality({i \in DOMAIN cluster : cluster[i].age # NoAge /\ from < cluster[i].age /\ cluster[i].age <= to})

MentionWindows(cluster) ==
    [last1 |-> Mentions(cluster, -1, 1), last3 |-> Mentions(cluster, -1, 3),
     previous3 |-> Mentions(cluster, 3, 6), last12 |-> Mentions(cluster, -1, 12)]

\* The rate of the last hours against the rate before, which counts a quarter at least.
Acceleration(w) == (1000 * (36 * w.last1 + 8 * w.last3)) \div Max({15, 20 * w.previous3})

Velocity(w) ==
    Clamped(50000 + 25 * (Acceleration(w) - 1000) + Clamped((100000 * w.last12) \div 30) \div 4)

CrossSource(cluster) ==
    LET share(S) == 25 * Min({4, Cardinality(S)})
    IN  600 * share(FieldOf(cluster, "role")) + 400 * share(FieldOf(cluster, "platform"))

\* By the newest date there is.
Freshness(cluster) ==
    LET ages == FieldOf(cluster, "age") \ {NoAge}
    IN  IF ages = {} THEN 30000
        ELSE LET age == Min(ages)
             IN  CASE age <= 3 -> 100000 [] age <= 12 -> 85000 [] age <= 24 -> 65000
                   [] age <= 72 -> 35000 [] OTHER -> 10000

CompetitorAccounts(cluster) ==
    Cardinality({cluster[i].source : i \in {i \in DOMAIN cluster : cluster[i].role = "DISCOVERY_COMPETITOR"}})

Novelty(cluster) == Clamped(1000 * (100 - 7 * CompetitorAccounts(cluster) - 2 * (Len(cluster) - 1)))

\* The mean over all metrics there are, or the middle if there is none.
EngagementScore(cluster) ==
    LET metrics == FoldLeft(LAMBDA all, o : all \o o.engagement, <<>>, cluster)
    IN  IF metrics = <<>> THEN 50000 ELSE Clamped(FoldLeft(+, 0, metrics) \div Len(metrics))

Relevance1000(cluster) ==
    Clamped(1000 * (FoldLeft(LAMBDA sum, o : sum + o.relevance, 0, cluster) \div Len(cluster)))

CalculateTrendScore(cluster) ==
    LET w == MentionWindows(cluster)
        c == [velocity |-> Velocity(w), crossSource |-> CrossSource(cluster),
              engagement |-> EngagementScore(cluster), freshness |-> Freshness(cluster),
              novelty |-> Novelty(cluster), relevance |-> Relevance1000(cluster)]
    IN  [components |-> c, acceleration |-> Acceleration(w),
         trend |-> Clamped((30 * c.velocity + 20 * c.crossSource + 15 * c.engagement
                            + 15 * c.freshness + 10 * c.novelty + 10 * c.relevance) \div 100)]

-----------------------------------------------------------------------------
\* The first rule that applies gives the state.
DeriveTrendState(score) ==
    LET c == score.components
    IN  CASE c.novelty <= 35000 /\ score.trend >= 70000 /\ c.crossSource >= 60000 -> "SATURATED"
          [] /\ ~(c.novelty <= 35000 /\ score.trend >= 70000 /\ c.crossSource >= 60000)
             /\ c.freshness >= 85000 /\ c.velocity >= 80000
             /\ score.acceleration >= 1800 /\ score.trend >= 75000 -> "BREAKING"
          [] OTHER ->
             IF score.acceleration >= 1150 /\ c.velocity >= 55000 /\ score.trend >= 55000 THEN "RISING"
             ELSE IF score.trend >= 75000 /\ c.crossSource >= 50000 THEN "HOT"
             ELSE IF c.velocity <= 40000 \/ score.acceleration < 750 THEN "COOLING"
             ELSE "STABLE"
==============================================================================
