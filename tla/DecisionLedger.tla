--------------------------- MODULE DecisionLedger ---------------------------
(***************************************************************************)
(* The human decision ledger of store.py: record_human_decision, called by *)
(* `council decide`, beside the engine that resumes and finishes the run.  *)
(* The command takes the data directory's ServiceLock, so it never runs    *)
(* while a resuming process is alive; it may run after one has crashed.    *)
(***************************************************************************)
EXTENDS CouncilEngine

CONSTANT MaxDecisions  \* bound on the decisions recorded

ASSUME DecisionAssumption == MaxDecisions \in Nat

VARIABLE decisions     \* the human_decisions table, append-only

decisionVars == <<vars, decisions>>

Decision == {"accept", "reject", "defer"}

(* Only a run without a stored result is refused.  The record keeps the    *)
(* run's status and a digest of its result as they are at that moment.     *)
record_human_decision(decision) ==
  /\ pc = "idle" /\ Len(decisions) < MaxDecisions
  /\ result # NoResult
  /\ decisions' = Append(decisions, [decision   |-> decision,
                                     run_status |-> runStatus,
                                     result     |-> result])
  /\ UNCHANGED vars

DecisionInit == EngineInit /\ decisions = <<>>

DecisionNext ==
  \/ EngineNext /\ UNCHANGED decisions
  \/ \E decision \in Decision : record_human_decision(decision)

DecisionSpec == DecisionInit /\ [][DecisionNext]_decisionVars

----------------------------------------------------------------------------

(* DecisionStands: a decision taken on a completed run stays a decision on *)
(* the result the run has: a completed result is never replaced, by any    *)
(* later resume, crash or deadline.                                        *)
DecisionStands ==
  \A i \in 1 .. Len(decisions) :
    decisions[i].run_status = "completed" => decisions[i].result = result

(* DecidedWhenFinished: record_human_decision appends a decision "for a    *)
(* finished run" (store.py:587): the run it records is in a terminal       *)
(* status.                                                                 *)
DecidedWhenFinished ==
  \A i \in 1 .. Len(decisions) :
    decisions[i].run_status \in {"completed", "partial", "failed"}

=============================================================================
