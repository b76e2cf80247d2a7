--------------------------- MODULE MCGNewsResolver ---------------------------
(* Three rows of one article, of which one can never be claimed; two runs  *)
(* at once.                                                                *)
EXTENDS GNewsResolver, TLC

CONSTANTS o1, o2, o3, a1, r1, r2

OneArticle == o1 :> a1 @@ o2 :> a1 @@ o3 :> a1

\* The age of a row that is never claimed makes no difference.
Focus == \A o \in Observations \ Claimable : obs'[o].status # "ABSENT" => obs'[o].age = "old"
==============================================================================
