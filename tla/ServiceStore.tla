---------------------------- MODULE ServiceStore ----------------------------
(***************************************************************************)
(* The tables of service_store.py together.  Bearer tokens and the call    *)
(* budget have only the principals and the time in common: no operation    *)
(* reads or writes both.  A behaviour therefore follows one of the two, in *)
(* every order with the operations on principals and the time.             *)
(***************************************************************************)
EXTENDS BearerTokens, CallReservations

VARIABLE tables   \* the tables this behaviour follows

storeVars == <<principalVars, tokenVars, callVars, tables>>

ServiceStoreInit ==
  /\ PrincipalInit /\ BearerInit /\ ReservationInit
  /\ tables \in {"tokens", "calls"}

ServiceStoreNext ==
  \/ /\ tables = "tokens" /\ BearerNext
     /\ UNCHANGED <<callVars, tables>>
  \/ /\ tables = "calls" /\ ReservationNext
     /\ UNCHANGED <<tokenVars, tables>>
  \/ /\ Tick \/ \E p \in Principal, b \in BOOLEAN : set_principal_enabled(p, b)
     /\ UNCHANGED <<tokenVars, callVars, tables>>

ServiceStoreSpec == ServiceStoreInit /\ [][ServiceStoreNext]_storeVars

(* The type invariant of all the tables.                                   *)
ServiceStoreTypeOK == PrincipalTypeOK /\ BearerTypeOK /\ ReservationTypeOK
=============================================================================
