----------------------------- MODULE CallLeases -----------------------------
(***************************************************************************)
(* The contract between the engine and its call gate (CallGate and         *)
(* CallLease of engine.py): a lease is opened once and closed once, as     *)
(* charged or as refunded; it pays for one call at most, made while it is  *)
(* open, and is refunded only if the call was not made.                    *)
(*                                                                         *)
(* CouncilEngine keeps it with its attempts, across crashes and resumes;   *)
(* CallReservations keeps it with its table, whoever calls.  The store     *)
(* does not see the calls, so what it promises is the part without them.   *)
(***************************************************************************)

VARIABLES open, charged, refunded,  \* the leases by what became of them
          used                      \* those that a call was made under

leaseVars == <<open, charged, refunded, used>>

LeaseInit == open = {} /\ charged = {} /\ refunded = {} /\ used = {}

Open ==
  \E l \in open' :
    /\ l \notin open \cup charged \cup refunded
    /\ open' = open \cup {l}
    /\ UNCHANGED <<charged, refunded, used>>

Use ==
  \E l \in open \ used :
    /\ used' = used \cup {l}
    /\ UNCHANGED <<open, charged, refunded>>

Charge ==
  \E l \in open :
    /\ open' = open \ {l}
    /\ charged' = charged \cup {l}
    /\ UNCHANGED <<refunded, used>>

Refund ==
  \E l \in open \ used :
    /\ open' = open \ {l}
    /\ refunded' = refunded \cup {l}
    /\ UNCHANGED <<charged, used>>

LeaseNext == Open \/ Use \/ Charge \/ Refund

LeaseSpec == LeaseInit /\ [][LeaseNext]_leaseVars

=============================================================================
