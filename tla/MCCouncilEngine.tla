--------------------------- MODULE MCCouncilEngine ---------------------------
(***************************************************************************)
(* CouncilEngine for TLC: values of the structured constants.              *)
(***************************************************************************)
EXTENDS CouncilEngine

MCPrompt == [members : SUBSET Provider, votes : SUBSET Provider]
OneSynth == <<1>>
TwoSynth == <<1, 2>>
ReversedSynth == <<2, 1>>
FirstHeadroom == {<<"proposal", 1>>, <<"synthesis", 2>>}
OwnLineage == [p \in Provider |-> p]
SharedLineage == [p \in Provider |-> 1]
=============================================================================
