----------------------------- MODULE MCAgentDeploy -----------------------------
(* Instances of AgentDeploy for TLC. *)
EXTENDS AgentDeploy, TLC

(* Three invocations one after the other, or two that overlap.             *)
AllSchedules == {<<1, 3>>, <<2, 2>>}
InSequence   == {<<1, 3>>}
AtOnce       == {<<2, 2>>}

(* Invocations and ids are interchangeable; used without liveness only. *)
Symmetric == Permutations(Invocations) \cup Permutations(Ids)
===============================================================================
