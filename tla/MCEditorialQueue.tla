-------------------------- MODULE MCEditorialQueue --------------------------
(* Two jobs, one of them a promotion with two attempts, two workers that   *)
(* call the queue in any way; one story, a lease of two ticks.             *)
EXTENDS EditorialQueue, TLC

CONSTANTS root, promotion, w1, w2

MCMaxAttempts == root :> 1 @@ promotion :> 2

MCInputs == {[asOf |-> a, ids |-> {}, handoff |-> NoHandoff] : a \in {NoTime, 1}}
MCSymmetry == Permutations({w1, w2})
=============================================================================
