----------------------- MODULE MCOrchestrationWorker -----------------------
(* The discovery part of the chain an hourly schedule starts, with one     *)
(* continuation page of grounding, and the chain of a fixture schedule.    *)
EXTENDS OrchestrationWorker, TLC

CONSTANTS discovery, fixture, w1, w2

Stages(chain, types) == {Key(chain, t, 0) : t \in types}

DiscoveryJobs ==
  Stages(discovery, {"DISCOVER_TRENDS", "PROMOTE_DISCOVERY", "GROUND_CLAIMS", "RANK_EDITORIAL"})
  \cup {Key(discovery, "GROUND_CLAIMS", 1)}

DiscoveryPromotions == {Key(discovery, "PROMOTE_DISCOVERY", 0)}
DiscoveryRoots == {[key |-> Key(discovery, "DISCOVER_TRENDS", 0), asOf |-> NoTime]}

FixtureJobs == Stages(fixture, {"FIXTURE_SYNC", "DISPATCH_ALERTS"})
FixtureRoots == {[key |-> Key(fixture, "FIXTURE_SYNC", 0), asOf |-> 0]}

TwoAttempts == [j \in Jobs |-> 2]
MCSymmetry == Permutations({w1, w2})
AllInputs == {p \in Payload : p.handoff = NoHandoff}
=============================================================================
