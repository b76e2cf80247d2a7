-------------------------- MODULE MCNotionProjection --------------------------
(* One story over two days: three changes that are calculations of its two  *)
(* candidates or briefs of them, two briefs of one candidate among them;    *)
(* two runs that may go on at once, InOrder.                                *)
EXTENDS NotionProjection

CONSTANTS story, s1, s2

\* s2 only starts beside s1, and before any brief is written; s1 starts again at any time.
InOrder ==
  run[s2].step = "idle" /\ run'[s2].step # "idle" =>
    /\ run[s1].step # "idle"
    /\ \A b \in Brief : job[b].status = "ABSENT"
==============================================================================
