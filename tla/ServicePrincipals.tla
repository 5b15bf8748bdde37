-------------------------- MODULE ServicePrincipals --------------------------
(***************************************************************************)
(* What every table of service_store.py looks at: the configured           *)
(* principals and the time.                                                *)
(***************************************************************************)
EXTENDS Naturals, FiniteSets

CONSTANTS Principal,  \* the configured principals
          MaxClock    \* bound on the clock

ASSUME PrincipalAssumption == MaxClock \in Nat

VARIABLES enabled,    \* service_principals.enabled
          clock       \* the time every operation reads

principalVars == <<enabled, clock>>

(* put_principals inserts the configured principals when the database is   *)
(* new and leaves rows that exist alone, disabled ones too.                *)
PrincipalInit ==
  /\ enabled = [p \in Principal |-> TRUE]
  /\ clock = 0

set_principal_enabled(principal, value) ==
  /\ enabled' = [enabled EXCEPT ![principal] = value]
  /\ UNCHANGED clock

Tick ==
  /\ clock < MaxClock
  /\ clock' = clock + 1
  /\ UNCHANGED enabled

PrincipalTypeOK ==
  /\ enabled \in [Principal -> BOOLEAN]
  /\ clock \in 0 .. MaxClock
=============================================================================
