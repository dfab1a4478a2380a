---------------------------- MODULE MCAgentRelay ----------------------------
(* Instances of AgentRelay for TLC.                                        *)
EXTENDS AgentRelay, TLC

(* All workers serve the one gateway of the instance. *)
OneGateway == [w \in Workers |-> CHOOSE g \in Gateways : TRUE]

MCSymmetry == Permutations(Tunnels) \cup Permutations(Workers)
=============================================================================
