-------------------------- MODULE MCAgentInterface --------------------------
(***************************************************************************)
(* AgentInterface for TLC: processes and tokens are interchangeable.       *)
(***************************************************************************)
EXTENDS AgentInterface, TLC

AgentSymmetry == Permutations(Proc) \cup Permutations(Token)
=============================================================================
