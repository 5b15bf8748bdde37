--------------------------- MODULE MCServiceStore ---------------------------
(***************************************************************************)
(* ServiceStore for TLC.                                                   *)
(***************************************************************************)
EXTENDS ServiceStore, TLC

MCBootstrap == [p \in Principal |-> p]
MCTokenId == Principal
MCWindow == {<<0, 1>>}

(* An older version left p1 a revoked row and a good one.                  *)
MCLegacyRows ==
  {[token_id |-> "p2", principal |-> "p1", digest |-> "d1",
    window |-> <<0, 1>>, revoked |-> TRUE],
   [token_id |-> "p1", principal |-> "p1", digest |-> "d2",
    window |-> <<0, 1>>, revoked |-> FALSE]}

(* One call a day and two a month for p1; p2's policy expires.             *)
MCPolicyOf ==
  [a |-> [principal |-> "p1", scopes |-> {"s"}, max_inflight |-> 2,
          daily |-> 1, monthly |-> 2, issued |-> 0, expires |-> 9],
   b |-> [principal |-> "p2", scopes |-> {"s"}, max_inflight |-> 1,
          daily |-> 1, monthly |-> 1, issued |-> 0, expires |-> 1]]

(* Reservation ids are only compared for equality.                         *)
CallSymmetry == Permutations(ReservationId)

(* Two days in the first month.                                            *)
MCDay(t) == t
MCMonth(t) == t \div 2
=============================================================================
