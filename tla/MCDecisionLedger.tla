-------------------------- MODULE MCDecisionLedger --------------------------
(***************************************************************************)
(* DecisionLedger for TLC: values of the structured constants.             *)
(***************************************************************************)
EXTENDS DecisionLedger

MCPrompt == [members : SUBSET Provider, votes : SUBSET Provider]
OneSynth == <<1>>
OwnLineage == [p \in Provider |-> p]
=============================================================================
