-------------------------- MODULE CallReservations --------------------------
(***************************************************************************)
(* The call budget of the service: policies, run bindings and call         *)
(* reservations of service_store.py.  Every operation is one BEGIN         *)
(* IMMEDIATE transaction and keeps nothing in memory, so each is one step, *)
(* any process may take it at any time, and a restart changes nothing.     *)
(*                                                                         *)
(* The engine's calls enter through DurableCallGate (CouncilEngine); here  *)
(* all principals, runs and days share the tables.  A call that is denied, *)
(* replayed or in conflict returns a code and changes nothing.             *)
(***************************************************************************)
EXTENDS ServicePrincipals, FiniteSetsExt

CONSTANTS PolicyId,
          PolicyOf,       \* policy_id -> what the policy says
          Run, Key,       \* run_ids and idempotency keys
          ReservationId,
          Scope,          \* an action, a provider and a model
          Units,          \* units a call may reserve
          Actual,         \* units a call may turn out to cost
          Day(_),         \* the UTC day of a time
          Month(_),       \* its UTC month
          None            \* no row, no time

Time == 0 .. MaxClock

Policy == [principal : Principal, scopes : SUBSET Scope, max_inflight : Nat,
           daily : Nat, monthly : Nat, issued : Nat, expires : Nat]

ASSUME ReservationAssumption ==
  /\ PolicyOf \in [PolicyId -> Policy]
  /\ Units \subseteq Nat \ {0} /\ Actual \subseteq Nat
  /\ \A t \in Time, u \in Time : Day(t) = Day(u) => Month(t) = Month(u)

Binding == [principal : Principal, key : Key]

Call == [policy : PolicyId, principal : Principal, run : Run, scope : Scope,
         units : Units, state : {"reserved", "reconciled", "released"},
         actual : Actual \cup {None}, day : {Day(t) : t \in Time},
         month : {Month(t) : t \in Time}]

(* No row and no time are told apart from every value a column can have.   *)
ASSUME NoneAssumption ==
  None \notin Principal /\ None \notin Time /\ None \notin Binding /\ None \notin Call

VARIABLES policies,   \* service_policies: the registered ids
          revokedAt,  \* service_policies.revoked_at
          bindings,   \* service_run_bindings by run_id
          calls,      \* service_call_reservations by reservation_id
          withdrawn   \* history: the policies revoke_policy was called for

callVars == <<policies, revokedAt, bindings, calls, withdrawn>>

----------------------------------------------------------------------------

(* Fault: what was registered again is not revoked.                        *)
put_policy_Overwrites(policy) ==
  /\ policies' = policies \cup {policy}
  /\ revokedAt' = [revokedAt EXCEPT ![policy] = None]
  /\ UNCHANGED <<principalVars, bindings, calls, withdrawn>>

(* _install_mock_policies registers every policy at each start.  A policy  *)
(* that is there is left alone, with its revocation.                       *)
put_policy(policy) ==
  /\ policies' = policies \cup {policy}
  /\ UNCHANGED <<principalVars, revokedAt, bindings, calls, withdrawn>>

(* COALESCE: the first revocation stands.                                  *)
revoke_policy(policy) ==
  /\ policy \in policies
  /\ revokedAt' = [revokedAt EXCEPT ![policy] = IF @ = None THEN clock ELSE @]
  /\ withdrawn' = withdrawn \cup {policy}
  /\ UNCHANGED <<principalVars, policies, bindings, calls>>

BoundRuns == {r \in Run : bindings[r] # None}

bind_run(principal, key, run) ==
  /\ enabled[principal]
  /\ \A r \in BoundRuns : bindings[r] # [principal |-> principal, key |-> key]
  /\ run \notin BoundRuns
  /\ bindings' = [bindings EXCEPT ![run] = [principal |-> principal, key |-> key]]
  /\ UNCHANGED <<principalVars, policies, revokedAt, calls, withdrawn>>

Reservations == {i \in ReservationId : calls[i] # None}

(* Fault: the binding goes although calls were reserved for its run.       *)
abandon_run_binding_Always(run) ==
  /\ run \in BoundRuns
  /\ bindings' = [bindings EXCEPT ![run] = None]
  /\ UNCHANGED <<principalVars, policies, revokedAt, calls, withdrawn>>

abandon_run_binding(run) ==
  /\ run \in BoundRuns
  /\ \A i \in Reservations : calls[i].run # run
  /\ bindings' = [bindings EXCEPT ![run] = None]
  /\ UNCHANGED <<principalVars, policies, revokedAt, calls, withdrawn>>

run_owner(run) == IF run \in BoundRuns THEN bindings[run].principal ELSE None

----------------------------------------------------------------------------

CallsOf(principal) == {i \in Reservations : calls[i].principal = principal}

(* What a reservation counts for: its units until the cost is known.       *)
Cost ==
  [i \in Reservations |->
     CASE calls[i].state = "reserved"   -> calls[i].units
       [] calls[i].state = "reconciled" -> calls[i].actual
       [] OTHER                         -> 0]

(* Fault: only the calls reserved today are in flight.                     *)
Inflight_Today(principal) ==
  Cardinality({i \in CallsOf(principal) :
                 calls[i].state = "reserved" /\ calls[i].day = Day(clock)})

(* _usage: calls in flight whenever they were reserved, and the cost of    *)
(* the calls reserved in a day or a month.                                 *)
Inflight(principal) ==
  Cardinality({i \in CallsOf(principal) : calls[i].state = "reserved"})

Daily(principal, day) ==
  SumFunctionOnSet(Cost, {i \in CallsOf(principal) : calls[i].day = day})

Monthly(principal, month) ==
  SumFunctionOnSet(Cost, {i \in CallsOf(principal) : calls[i].month = month})

Active(policy) ==
  /\ revokedAt[policy] # None => clock < revokedAt[policy]
  /\ PolicyOf[policy].issued <= clock /\ clock < PolicyOf[policy].expires

(* What authorize_action and reserve_call ask of the policy.               *)
Authorizes(policy, principal, scope) ==
  /\ enabled[principal]
  /\ policy \in policies /\ PolicyOf[policy].principal = principal
  /\ Active(policy)
  /\ scope \in PolicyOf[policy].scopes

HasRoom(policy, principal, units) ==
  /\ Inflight(principal) < PolicyOf[policy].max_inflight
  /\ Daily(principal, Day(clock)) + units <= PolicyOf[policy].daily
  /\ Monthly(principal, Month(clock)) + units <= PolicyOf[policy].monthly

(* Only a new reservation is a step: the same request under a used id is   *)
(* answered REPLAY, another one RESERVATION_CONFLICT.                      *)
reserve_call(i, policy, principal, run, scope, units) ==
  /\ i \notin Reservations
  /\ run_owner(run) = principal
  /\ Authorizes(policy, principal, scope)
  /\ HasRoom(policy, principal, units)
  /\ calls' = [calls EXCEPT ![i] =
       [policy |-> policy, principal |-> principal, run |-> run,
        scope |-> scope, units |-> units, state |-> "reserved",
        actual |-> None, day |-> Day(clock), month |-> Month(clock)]]
  /\ UNCHANGED <<principalVars, policies, revokedAt, bindings, withdrawn>>

Reconciled(call, actual) ==
  [call EXCEPT !.state = "reconciled", !.actual = actual]

(* The actual cost is booked whatever the limits say.  A call that is      *)
(* released or reconciled already is left as it is.                        *)
reconcile_call(i, principal, actual) ==
  /\ i \in CallsOf(principal)
  /\ calls[i].state = "reserved"
  /\ calls' = [calls EXCEPT ![i] = Reconciled(@, actual)]
  /\ UNCHANGED <<principalVars, policies, revokedAt, bindings, withdrawn>>

(* Fault: a call whose cost is booked is refunded.                         *)
release_call_Refund(i, principal) ==
  /\ i \in CallsOf(principal)
  /\ calls[i].state # "released"
  /\ calls' = [calls EXCEPT ![i].state = "released"]
  /\ UNCHANGED <<principalVars, policies, revokedAt, bindings, withdrawn>>

release_call(i, principal) ==
  /\ i \in CallsOf(principal)
  /\ calls[i].state = "reserved"
  /\ calls' = [calls EXCEPT ![i].state = "released"]
  /\ UNCHANGED <<principalVars, policies, revokedAt, bindings, withdrawn>>

----------------------------------------------------------------------------

ReservationInit ==
  /\ policies = {}
  /\ revokedAt = [p \in PolicyId |-> None]
  /\ bindings = [r \in Run |-> None]
  /\ calls = [i \in ReservationId |-> None]
  /\ withdrawn = {}

ReservationNext ==
  \/ \E policy \in PolicyId : put_policy(policy) \/ revoke_policy(policy)
  \/ \E run \in Run :
       \/ \E p \in Principal, key \in Key : bind_run(p, key, run)
       \/ abandon_run_binding(run)
  \/ \E i \in ReservationId, p \in Principal :
       \/ \E policy \in PolicyId, run \in Run, scope \in Scope, u \in Units :
            reserve_call(i, policy, p, run, scope, u)
       \/ \E a \in Actual : reconcile_call(i, p, a)
       \/ release_call(i, p)

----------------------------------------------------------------------------

ReservationTypeOK ==
  /\ policies \subseteq PolicyId
  /\ revokedAt \in [PolicyId -> Time \cup {None}]
  /\ bindings \in [Run -> Binding \cup {None}]
  /\ calls \in [ReservationId -> Call \cup {None}]
  /\ withdrawn \subseteq PolicyId

(* The largest limit any of the principal's registered policies sets.      *)
Limit(principal, field) ==
  Max({0} \cup {PolicyOf[p][field] :
                p \in {q \in policies : PolicyOf[q].principal = principal}})

(* By how much calls turned out to cost more than they had reserved.       *)
Excess ==
  [i \in Reservations |->
     IF calls[i].state = "reconciled" /\ calls[i].actual > calls[i].units
     THEN calls[i].actual - calls[i].units ELSE 0]

Overrun(is) == SumFunctionOnSet(Excess, is)

(* WithinBudget: on every day and in every month, past ones included, a    *)
(* principal's cost stays within its policy's limit but for what           *)
(* reconciliation booked beyond the units reserved, and calls in flight    *)
(* stay within max_inflight: whatever is reserved before midnight and      *)
(* settled after it, released, abandoned or never settled at all.          *)
WithinBudget ==
  \A p \in Principal :
    /\ Cardinality({i \in CallsOf(p) : calls[i].state = "reserved"})
         <= Limit(p, "max_inflight")
    /\ \A day \in {Day(t) : t \in Time} :
         Daily(p, day) <= Limit(p, "daily")
                            + Overrun({i \in CallsOf(p) : calls[i].day = day})
    /\ \A month \in {Month(t) : t \in Time} :
         Monthly(p, month) <= Limit(p, "monthly")
                                + Overrun({i \in CallsOf(p) : calls[i].month = month})

(* The reservations of all runs as leases.                                 *)
CallsIn(state) == {i \in Reservations : calls[i].state = state}

Leases == INSTANCE CallLeases WITH
  open <- CallsIn("reserved"),
  charged <- CallsIn("reconciled"),
  refunded <- CallsIn("released"),
  used <- {}

(* RevokedForGood: once a policy was revoked no call is reserved under it, *)
(* although every start of the service registers the policy again.         *)
RevokedForGood ==
  [][\A i \in ReservationId :
       calls[i] = None /\ calls'[i] # None => calls'[i].policy \notin withdrawn]_callVars

(* OwnerKept: a call that was ever reserved belongs to the principal its   *)
(* run is bound to; no abandoned binding leaves a call without an owner or *)
(* lets the run be bound to somebody else.                                 *)
OwnerKept == \A i \in Reservations : run_owner(calls[i].run) = calls[i].principal

(* SettledIsFinal: a settled reservation never changes again, so no call   *)
(* is refunded after its cost was booked and none is charged twice.        *)
SettledIsFinal ==
  [][\A i \in Reservations :
       calls[i].state # "reserved" => calls'[i] = calls[i]]_callVars

(* ServesLeases: whoever calls the store, in whatever order, an id is      *)
(* reserved once and settled once, for good, at the cost it was settled    *)
(* with; several principals and runs share the table.                      *)
ServesLeases == Leases!LeaseSpec /\ SettledIsFinal

=============================================================================
