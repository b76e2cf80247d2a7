---------------------------- MODULE MCStoryAlerts ----------------------------
(* One story that rises, breaks with its facts verified, or is verified by *)
(* its ranking but without grounding; hourly windows, of which the third   *)
(* makes one digest more than those a new one is compared with.            *)
EXTENDS StoryAlerts, TLC

CONSTANTS d1, d2, s1

Seen(trend, status, evidence) ==
  [trend |-> trend, score |-> 80, relevance |-> 90, sources |-> 2, status |-> status,
   ranked |-> TRUE, relevant |-> TRUE, version |-> "v", text |-> "text", evidence |-> evidence]

Evidence(role, grounding) == [role |-> role, grounding |-> grounding, observed |-> TRUE, source |-> role]

MCSightings ==
  {Seen("RISING", "INSUFFICIENT", <<>>),
   Seen("BREAKING", "VERIFIED",
        <<Evidence("DISCOVERY_ONLY", FALSE), Evidence("FACT_PRIMARY", TRUE)>>),
   Seen("BREAKING", "VERIFIED", <<Evidence("FACT_PRIMARY", FALSE)>>)}

\* The last window and the last read are for a third digest, when each has been sent
\* before the next.
OnlyDigests ==
  /\ faults = 0 /\ ~late /\ Cardinality({d \in Dispatchers : run[d] # Idle}) <= 1
  /\ \A a \in Present : alert[a].kind = "digest"
  /\ \A d \in Dispatchers : run[d] # Idle /\ run[d].step # "dispatch" => run[d].kind = "digest"

Focus ==
  reads' = MaxReads \/ now' = Horizon \/ (reads = MaxReads - 1 /\ story' # story) => OnlyDigests'

MCSymmetry == Permutations({d1, d2})
==============================================================================
