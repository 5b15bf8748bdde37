------------------------------ MODULE MCParts ------------------------------
(***************************************************************************)
(* The parts that are checked without their callers: the slot ledger under *)
(* any caller (InvocationStore), the tally of all judgments (Aggregation)  *)
(* and all replies to the calls of a slot (ProviderHttp).  They share      *)
(* nothing: a behaviour follows the one that focus picks.                  *)
(***************************************************************************)
EXTENDS Aggregation, ProviderHttp, InvocationStore

VARIABLE focus

partVars == <<aggregationVars, httpVars, storeVars, focus>>

PartsInit ==
  /\ AggregationInit /\ HttpInit /\ StoreInit
  /\ focus \in {"tally", "http", "ledger"}

PartsNext ==
  /\ UNCHANGED focus
  /\ \/ focus = "tally" /\ AggregationNext /\ UNCHANGED <<httpVars, storeVars>>
     \/ focus = "http" /\ HttpNext /\ UNCHANGED <<aggregationVars, storeVars>>
     \/ focus = "ledger" /\ StoreNext /\ UNCHANGED <<aggregationVars, httpVars>>

PartsSpec == PartsInit /\ [][PartsNext]_partVars
=============================================================================
