-------------------------- MODULE MCCouncilService --------------------------
(***************************************************************************)
(* CouncilService for TLC: two keys of one principal, one of another.      *)
(***************************************************************************)
EXTENDS CouncilService

MCOwnerOf == [k1 |-> "p", k2 |-> "p", k3 |-> "q"]
=============================================================================
