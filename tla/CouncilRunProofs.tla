--------------------------- MODULE CouncilRunProofs ---------------------------
(***************************************************************************)
(* More proofs about CouncilEngine, on top of the invariants of            *)
(* CouncilEngineProofs: the call budget, that the engine implements the    *)
(* call ledger, that decisions on a completed run stand, the bound on      *)
(* truncation retries, the two locks that freeze candidates, prompts and   *)
(* verdict, the calls reserved for the synthesis, what a clean result      *)
(* stands for, that no run is left in a state no process can resume, and   *)
(* that the engine keeps the contract of its call gate.                    *)
(***************************************************************************)
EXTENDS DecisionLedger, CouncilEngineProofs

(* The threads that wait for a pool worker to start their call.            *)
Queued == {p \in Provider : thread[p].at = "queued"}

(* Each thread that waits has a call of the budget kept for it.            *)
BudgetInv == count_calls + Cardinality(Queued) <= MaxCalls

(* There are finitely many slots, and so finitely many calls on the books. *)
LEMMA TokensFinite ==
  ASSUME EngineBase
  PROVE  /\ IsFiniteSet(CallTokens) /\ count_calls \in Nat
         /\ IsFiniteSet(Queued) /\ Cardinality(Queued) \in Nat
         /\ IsFiniteSet(Provider) /\ Cardinality(Provider) \in Nat
<1>1. IsFiniteSet(Provider) /\ IsFiniteSet(Stage) BY StoreAssumption
<1>2. IsFiniteSet(Slot) BY <1>1, FS_Product DEF Slot
<1> DEFINE Tokens(s) == {s} \X (1 .. inv[s].calls)
<1>3. IsFiniteSet({Tokens(s) : s \in Slot})
  <2> DEFINE f == [s \in Slot |-> Tokens(s)]
             All == {Tokens(s) : s \in Slot}
  <2>1. f \in Surjection(Slot, All)
    <3> HIDE DEF Tokens
    <3> QED BY DEF Surjection
  <2>2. IsFiniteSet(All)
    <3> HIDE DEF f, All
    <3> QED BY <1>2, <2>1, FS_Surjection
  <2> QED BY <2>2
<1>4. ASSUME NEW s \in Slot PROVE IsFiniteSet(Tokens(s))
  <2>1. inv[s].calls \in Nat
    BY DEF EngineBase, StoreInv, StoreTypeOK, Row
  <2>2. IsFiniteSet(1 .. inv[s].calls)
    <3>1. 1 \in Int /\ inv[s].calls \in Int BY <2>1
    <3> QED BY <3>1, FS_Interval, Zenon
  <2> QED BY <2>2, FS_Singleton, FS_Product
<1>5. IsFiniteSet(CallTokens)
  <2>1. \A t \in {Tokens(s) : s \in Slot} : IsFiniteSet(t) BY <1>4
  <2>2. IsFiniteSet(UNION {Tokens(s) : s \in Slot})
    <3> HIDE DEF Tokens
    <3> QED BY <1>3, <2>1, FS_UNION
  <2> QED BY <2>2 DEF CallTokens
<1>6. IsFiniteSet(Queued) BY <1>1, FS_Subset DEF Queued
<1> QED BY <1>1, <1>5, <1>6, FS_CardinalityType DEF count_calls

(* Which pairs are calls on the books.                                     *)
LEMMA TokenOf ==
  \A t : t \in CallTokens <=>
           \E s \in Slot : \E n \in 1 .. inv[s].calls : t = <<s, n>>
  BY DEF CallTokens

(* The books of a step that keeps, raises or lowers one slot's calls.      *)
LEMMA CallsKept ==
  ASSUME \A s \in Slot : inv'[s].calls = inv[s].calls
  PROVE  count_calls' = count_calls
<1>1. CallTokens' = CallTokens BY DEF CallTokens
<1> QED BY <1>1 DEF count_calls

(* start_invocation adds one call to the books,                            *)
LEMMA CallAdded ==
  ASSUME EngineBase, NEW s \in Slot, inv'[s].calls = inv[s].calls + 1,
         \A t \in Slot : t # s => inv'[t] = inv[t]
  PROVE  count_calls' = count_calls + 1
<1> DEFINE new == <<s, inv[s].calls + 1>>
<1>0. inv[s].calls \in Nat BY DEF EngineBase, StoreInv, StoreTypeOK, Row
<1>1. ASSUME NEW x PROVE x \in CallTokens' <=> x \in CallTokens \cup {new}
  <2>1. ASSUME NEW t \in Slot, NEW n, x = <<t, n>>
        PROVE  n \in 1 .. inv'[t].calls
                 <=> n \in 1 .. inv[t].calls \/ x = new
    BY <1>0, <2>1
  <2>2. new \in Slot \X Nat BY <1>0
  <2>3. x \in CallTokens' <=>
          \E t \in Slot : \E n \in 1 .. inv'[t].calls : x = <<t, n>>
    BY DEF CallTokens
  <2>4. x \in CallTokens <=>
          \E t \in Slot : \E n \in 1 .. inv[t].calls : x = <<t, n>>
    BY TokenOf
  <2> QED BY <2>1, <2>3, <2>4
<1>2. CallTokens' = CallTokens \cup {new} BY <1>1
<1>3. new \notin CallTokens
  <2> SUFFICES ASSUME NEW t \in Slot, NEW n \in 1 .. inv[t].calls,
                      new = <<t, n>>
               PROVE  FALSE
    BY TokenOf
  <2> QED BY <1>0
<1>4. IsFiniteSet(CallTokens) BY TokensFinite
<1> QED BY <1>2, <1>3, <1>4, FS_AddElement DEF count_calls

(* and release_undispatched_invocation takes it back.                      *)
LEMMA CallRemoved ==
  ASSUME EngineBase, NEW s \in Slot, inv'[s].calls + 1 = inv[s].calls,
         inv'[s].calls \in Nat, \A t \in Slot : t # s => inv'[t] = inv[t]
  PROVE  count_calls' = count_calls - 1
<1> DEFINE old == <<s, inv[s].calls>>
<1>1. ASSUME NEW x PROVE x \in CallTokens' <=> x \in CallTokens \ {old}
  <2>1. ASSUME NEW t \in Slot, NEW n, x = <<t, n>>
        PROVE  n \in 1 .. inv'[t].calls
                 <=> n \in 1 .. inv[t].calls /\ x # old
    BY <2>1
  <2>3. x \in CallTokens' <=>
          \E t \in Slot : \E n \in 1 .. inv'[t].calls : x = <<t, n>>
    BY DEF CallTokens
  <2>4. x \in CallTokens <=>
          \E t \in Slot : \E n \in 1 .. inv[t].calls : x = <<t, n>>
    BY TokenOf
  <2> QED BY <2>1, <2>3, <2>4
<1>2. CallTokens' = CallTokens \ {old} BY <1>1
<1>3. old \in CallTokens
  <2>1. inv[s].calls \in 1 .. inv[s].calls OBVIOUS
  <2> QED BY <2>1, TokenOf
<1>4. IsFiniteSet(CallTokens) BY TokensFinite
<1> QED BY <1>2, <1>3, <1>4, FS_RemoveElement DEF count_calls

----------------------------------------------------------------------------

(* No step but BeginStage makes a thread wait.                             *)
LEMMA QueueShrinks ==
  ASSUME EngineBase, NEW p \in Provider,
         \A q \in Provider : q # p => thread'[q] = thread[q],
         thread'[p].at # "queued"
  PROVE  Cardinality(Queued)'
           = IF thread[p].at = "queued" THEN Cardinality(Queued) - 1
                                        ELSE Cardinality(Queued)
<1>1. Queued' = Queued \ {p} BY DEF Queued
<1>2. p \in Queued <=> thread[p].at = "queued" BY DEF Queued
<1> QED BY <1>1, <1>2, TokensFinite, FS_RemoveElement

(* Without threads nothing is kept for one.                                *)
LEMMA NoneQueued ==
  ASSUME ThreadsIdle PROVE Cardinality(Queued) = 0
<1>1. Queued = {} BY DEF ThreadsIdle, Idle, Queued
<1> QED BY <1>1, FS_EmptySet

(* A stage starts no more threads than the budget has calls for, and       *)
(* leaves those of the stages after it.                                    *)
LEMMA CapacityBound ==
  ASSUME EngineBase, count_calls <= MaxCalls
  PROVE  DispatchCapacity \in Nat
         /\ count_calls + DispatchCapacity <= MaxCalls
<1>1. /\ count_calls \in Nat /\ Cardinality(Provider) \in Nat
      /\ MaxCalls \in Nat /\ Len(Synth) \in Nat
  BY TokensFinite, EngineAssumption, SynthType
<1>2. pos \in Nat /\ pos <= Len(Synth)
  BY <1>1 DEF EngineBase, ControlTypeOK
<1>3. DownstreamReserve \in Nat BY <1>1, <1>2 DEF DownstreamReserve
<1> QED BY <1>1, <1>3 DEF DispatchCapacity, AtLeastZero

(* A pass starts no more threads than dispatch_capacity leaves calls.      *)
LEMMA BeginBudget ==
  ASSUME EngineBase, ThreadInv, BudgetInv, BeginStage
  PROVE  BudgetInv'
<1>1. PICK allowed \in SUBSET Work :
        /\ allowed = {} \/ IsFirst(allowed, Work, DispatchCapacity)
        /\ thread' = [p \in Provider |->
                       IF p \in allowed
                       THEN [at |-> "queued", out |-> "none"] ELSE Idle]
  BY BeginFacts
<1>2. /\ count_calls \in Nat /\ Cardinality(Queued) \in Nat
      /\ MaxCalls \in Nat /\ IsFiniteSet(Provider)
  BY TokensFinite, EngineAssumption
<1>3. count_calls <= MaxCalls BY <1>2 DEF BudgetInv
<1>4. DispatchCapacity \in Nat /\ count_calls + DispatchCapacity <= MaxCalls
  BY <1>3, CapacityBound
<1>5. Work \subseteq Provider BY BeginFacts
<1>6. Queued' = allowed BY <1>1, <1>5 DEF Queued, Idle
<1>7. Cardinality(allowed) \in Nat /\ Cardinality(allowed) <= DispatchCapacity
  <2>1. IsFiniteSet(Work) /\ IsFiniteSet(allowed)
    BY <1>2, <1>5, FS_Subset
  <2>2. Cardinality(Work) \in Nat /\ Cardinality(allowed) \in Nat
    BY <2>1, FS_CardinalityType
  <2>3. CASE allowed = {} BY <1>4, <2>3, FS_EmptySet
  <2>4. CASE IsFirst(allowed, Work, DispatchCapacity)
    BY <1>4, <2>2, <2>4 DEF IsFirst
  <2> QED BY <1>1, <2>2, <2>3, <2>4
<1>8. count_calls' = count_calls
  <2>1. inv' = inv BY BeginFacts DEF storeVars
  <2> QED BY <2>1, CallsKept
<1> QED BY <1>2, <1>4, <1>6, <1>7, <1>8 DEF BudgetInv

(* How a worker's, a settling or a loss-recording step changes the books.  *)
LEMMA BooksMove ==
  ASSUME EngineBase, ThreadInv, NEW p \in Provider,
         MarkLost(p) \/ WorkerStep(p) \/ LeaseStep(p) \/ SettleStep(p)
  PROVE  /\ \A q \in Provider : q # p => thread'[q] = thread[q]
         /\ thread'[p].at # "queued"
         /\ \/ /\ StartCall(p) /\ thread[p].at = "queued"
               /\ count_calls' = count_calls + 1
            \/ /\ SettleUndispatched(p)
               /\ count_calls' = count_calls - 1
            \/ count_calls' = count_calls
<1>1. CASE MarkLost(p)
  <2>1. PICK s \in Slot : s = SlotOf(p) BY RowType
  <2>2. inv \in [Slot -> Row] BY DEF EngineBase, StoreInv, StoreTypeOK
  <2>3. \A t \in Slot : inv'[t].calls = inv[t].calls
    <3>1. finish_invocation_failure(s, "ambiguous")
      BY <1>1, <2>1, MarkLostFacts
    <3>2. inv'[s].calls = inv[s].calls
      BY <2>2, <3>1 DEF finish_invocation_failure, Row
    <3>3. \A t \in Slot : t # s => inv'[t] = inv[t]
      BY <2>2, <3>1 DEF finish_invocation_failure
    <3> QED BY <3>2, <3>3
  <2>4. count_calls' = count_calls BY <2>3, CallsKept
  <2>5. \A q \in Provider : thread'[q] = Idle /\ thread[q] = Idle
    BY <1>1, MarkLostFacts DEF ThreadsIdle
  <2> QED BY <2>4, <2>5 DEF Idle
<1>2. CASE WorkerStep(p) /\ ~StartCall(p)
  <2>1. /\ Touches(p) /\ inv' = inv
    BY <1>2, WorkerFacts DEF storeVars
  <2>2. count_calls' = count_calls BY <2>1, CallsKept
  <2>3. thread'[p].at # "queued"
    <3>1. thread \in [Provider -> [at : {"idle", "queued", "started",
                                "leased", "done", "accounted"}, out : Outs]]
      BY DEF EngineBase, ThreadTypeOK
    <3> QED BY <1>2, <3>1
        DEF WorkerStep, StartTooLate, ReserveCall, CallTooLate, CallProvider,
            ThreadStep
  <2> QED BY <2>1, <2>2, <2>3 DEF Touches
<1>3. CASE StartCall(p)
  <2>1. PICK s \in Slot : s = SlotOf(p) /\ s = SlotOf(p)'
    BY <1>3, StartedRow
  <2>2. /\ thread'[p] = [at |-> "started", out |-> "none"]
        /\ thread[p].at = "queued"
        /\ inv'[s].calls = inv[s].calls + 1
    <3>1. RowOf(p)' = inv'[s] /\ RowOf(p) = inv[s]
      BY <2>1 DEF RowOf, SlotOf
    <3> QED BY <1>3, <3>1, StartedRow
  <2>3. Touches(p) BY <1>3, WorkerFacts DEF WorkerStep
  <2>4. \A t \in Slot : t # s => inv'[t] = inv[t]
    BY <2>1, <2>3 DEF Touches
  <2>5. count_calls' = count_calls + 1 BY <2>2, <2>4, CallAdded
  <2> QED BY <1>3, <2>2, <2>3, <2>5 DEF Touches
<1>4. CASE LeaseStep(p)
  <2>1. Touches(p) /\ inv' = inv /\ thread'[p].at = "accounted"
    BY <1>4, LeaseFacts DEF storeVars
  <2>2. count_calls' = count_calls BY <2>1, CallsKept
  <2> QED BY <2>1, <2>2 DEF Touches
<1>5. CASE SettleStep(p)
  <2>1. Touches(p) /\ thread'[p] = Idle BY <1>5, SettleFacts
  <2>2. PICK s \in Slot : s = SlotOf(p) BY RowType
  <2>3. \A t \in Slot : t # s => inv'[t] = inv[t]
    BY <2>1, <2>2 DEF Touches
  <2>4. \/ inv' = inv
        \/ /\ SettleUndispatched(p) /\ inv'[s].calls + 1 = inv[s].calls
           /\ inv'[s].calls \in Nat
        \/ inv'[s].calls = inv[s].calls
    <3>1. prior[p].calls \in Nat BY RowType DEF Row
    <3> QED BY <1>5, <2>2, <3>1, SettledRow DEF storeVars
  <2>5. CASE SettleUndispatched(p) /\ inv'[s].calls + 1 = inv[s].calls
             /\ inv'[s].calls \in Nat
    <3>1. count_calls' = count_calls - 1 BY <2>3, <2>5, CallRemoved
    <3> QED BY <2>1, <2>5, <3>1 DEF Touches, Idle
  <2>6. CASE inv' = inv \/ inv'[s].calls = inv[s].calls
    <3>1. \A t \in Slot : inv'[t].calls = inv[t].calls BY <2>3, <2>6
    <3>2. count_calls' = count_calls BY <3>1, CallsKept
    <3> QED BY <2>1, <3>2 DEF Touches, Idle
  <2> QED BY <2>4, <2>5, <2>6
<1> QED BY <1>1, <1>2, <1>3, <1>4, <1>5

(* Every step keeps the budget.                                            *)
LEMMA NextBudget ==
  ASSUME EngineBase, ThreadInv, BudgetInv, [EngineNext]_vars
  PROVE  BudgetInv'
<1>0. /\ count_calls \in Nat /\ Cardinality(Queued) \in Nat
      /\ MaxCalls \in Nat
  BY TokensFinite, EngineAssumption
<1>1. CASE Quiet \/ Steady
  <2>1. inv' = inv /\ (ThreadsIdle' \/ thread' = thread)
    BY <1>1 DEF Quiet, Steady, storeVars
  <2>2. count_calls' = count_calls BY <2>1, CallsKept
  <2>3. Cardinality(Queued)' <= Cardinality(Queued)
    <3>1. CASE ThreadsIdle'
      <4>1. Queued' = {} BY <3>1 DEF ThreadsIdle, Idle, Queued
      <4> QED BY <1>0, <4>1, FS_EmptySet
    <3>2. CASE thread' = thread
      <4>1. Queued' = Queued BY <3>2 DEF Queued
      <4> QED BY <1>0, <4>1
    <3> QED BY <2>1, <3>1, <3>2
  <2>4. Cardinality(Queued)' \in Nat
    <3>1. IsFiniteSet(Queued') BY TokensFinite, FS_Subset DEF Queued
    <3> QED BY <3>1, FS_CardinalityType
  <2> QED BY <1>0, <2>2, <2>3, <2>4 DEF BudgetInv
<1>2. ASSUME NEW p \in Provider,
             MarkLost(p) \/ WorkerStep(p) \/ LeaseStep(p) \/ SettleStep(p)
      PROVE  BudgetInv'
  <2>1. Cardinality(Queued)'
          = IF thread[p].at = "queued" THEN Cardinality(Queued) - 1
                                       ELSE Cardinality(Queued)
    BY <1>2, BooksMove, QueueShrinks
  <2>2. \/ thread[p].at = "queued" /\ count_calls' = count_calls + 1
        \/ count_calls' = count_calls - 1
        \/ count_calls' = count_calls
    BY <1>2, BooksMove
  <2> QED BY <1>0, <2>1, <2>2 DEF BudgetInv
<1> QED BY <1>1, <1>2, BeginBudget, StepKinds

(* The empty books of a new run.                                           *)
LEMMA InitBudget == EngineInit => BudgetInv
<1> SUFFICES ASSUME EngineInit PROVE BudgetInv OBVIOUS
<1>1. CallTokens = {}
  <2>1. \A s \in Slot : inv[s].calls = 0
    BY NoRowFields DEF EngineInit, StoreInit
  <2> QED BY <2>1 DEF CallTokens
<1>2. Cardinality(Queued) = 0
  BY NoneQueued DEF EngineInit, ThreadsIdle
<1> QED BY <1>1, <1>2, FS_EmptySet, EngineAssumption
        DEF BudgetInv, count_calls

(* The calls on the books and those about to be booked fit the budget.     *)
THEOREM BudgetHolds == EngineSpec => []BudgetInv
<1>1. EngineInit => BudgetInv BY InitBudget
<1>2. EngineBase /\ ThreadInv /\ BudgetInv /\ [EngineNext]_vars => BudgetInv'
  BY NextBudget
<1> QED BY <1>1, <1>2, ThreadInvHolds, PTL DEF EngineSpec

(* BudgetNeverExceeded: over all stages, retries, repairs, fallbacks,      *)
(* crashes and resumes the calls on the books never exceed                 *)
(* policy.max_calls, and every call that reached a provider is on them.    *)
THEOREM BudgetNeverExceeded == EngineSpec => []CallBudget
<1>1. EngineBase /\ HistoryInv /\ BudgetInv => CallBudget
  <2> SUFFICES ASSUME EngineBase, HistoryInv, BudgetInv PROVE CallBudget
    OBVIOUS
  <2>1. count_calls <= MaxCalls
    BY TokensFinite, EngineAssumption DEF BudgetInv
  <2>2. \A s \in Slot : Cardinality({a \in sent : a[1] = s}) <= inv[s].calls
    BY DEF HistoryInv, SlotHistoryOK, SentOf
  <2> QED BY <2>1, <2>2 DEF CallBudget
<1> QED BY <1>1, EngineBaseHolds, HistoryHolds, BudgetHolds, PTL

----------------------------------------------------------------------------
(* The engine implements the call ledger.                                  *)

(* What the ledger says of one slot, and which issued calls were made.     *)
StateOf(s) ==
  IF inv[s].status = "running" THEN "issued"
  ELSE IF inv[s].status = "succeeded" THEN "answered"
  ELSE IF inv[s].error = "ambiguous" THEN "doubtful"
  ELSE "free"

HandedSlots == {s \in Slot : inv[s].status = "running" /\ Handed(s)}

(* Nothing else of a row counts.                                           *)
LEMMA LedgerView ==
  /\ LedgerState = [s \in Slot |-> StateOf(s)]
  /\ HandedSlots = {s \in Slot : /\ inv[s].status = "running"
                                 /\ <<s, Attempt(s)>> \in sent}
  BY DEF LedgerState, StateOf, HandedSlots, Handed

(* A step that keeps rows and calls is no step of the ledger.              *)
LEMMA LedgerStutters ==
  ASSUME UNCHANGED storeVars, UNCHANGED sent
  PROVE  UNCHANGED <<LedgerState, HandedSlots, count_calls>>
<1>1. inv' = inv /\ undispatched' = undispatched BY DEF storeVars
<1>2. count_calls' = count_calls BY <1>1, CallsKept
<1>3. LedgerState' = LedgerState BY <1>1 DEF LedgerState
<1>4. HandedSlots' = HandedSlots BY <1>1 DEF HandedSlots, Handed, Attempt
<1> QED BY <1>2, <1>3, <1>4

(* A step on one slot changes the ledger at that slot only.                *)
LEMMA LedgerMoves ==
  ASSUME NEW s \in Slot,
         \A t \in Slot : t # s =>
           inv'[t] = inv[t] /\ undispatched'[t] = undispatched[t],
         \A a : a[1] # s => (a \in sent' <=> a \in sent)
  PROVE  /\ LedgerState' = [LedgerState EXCEPT ![s] = StateOf(s)']
         /\ \A t \in Slot : t # s =>
              (t \in HandedSlots' <=> t \in HandedSlots)
<1>1. LedgerState' = [LedgerState EXCEPT ![s] = StateOf(s)']
  <2>1. \A t \in Slot : t # s => StateOf(t)' = StateOf(t) BY DEF StateOf
  <2>2. LedgerState = [t \in Slot |-> StateOf(t)]
        /\ LedgerState' = [t \in Slot |-> StateOf(t)']
    BY DEF LedgerState, StateOf
  <2> HIDE DEF StateOf
  <2> QED BY <2>1, <2>2
<1>2. ASSUME NEW t \in Slot, t # s
      PROVE  t \in HandedSlots' <=> t \in HandedSlots
  <2>1. Attempt(t)' = Attempt(t) /\ inv'[t] = inv[t] BY <1>2 DEF Attempt
  <2>2. <<t, Attempt(t)>>[1] = t OBVIOUS
  <2>3. Handed(t)' <=> Handed(t) BY <1>2, <2>1, <2>2 DEF Handed
  <2> QED BY <1>2, <2>1, <2>3 DEF HandedSlots
<1> QED BY <1>1, <1>2

(* A slot not in doubt is free or answered, one in doubt or running not.   *)
LEMMA StateCases ==
  ASSUME NEW s \in Slot
  PROVE  /\ inv[s].status = "running" => StateOf(s) = "issued"
         /\ inv[s].status = "succeeded" => StateOf(s) = "answered"
         /\ inv[s].status \in {"none", "failed"} /\ inv[s].error # "ambiguous"
              => StateOf(s) = "free"
         /\ inv[s].status = "failed" /\ inv[s].error = "ambiguous"
              => StateOf(s) = "doubtful"
         /\ NotInDoubt(s) => StateOf(s) \notin {"issued", "doubtful"}
  BY DEF StateOf, NotInDoubt

(* StartCall issues a call.                                                *)
LEMMA StartIssues ==
  ASSUME EngineBase, EngineBase', ThreadInv, BudgetInv, HistoryInv',
         NEW p \in Provider, StartCall(p)
  PROVE  Ledger!Issue(SlotOf(p))
<1>0. WorkerStep(p) BY DEF WorkerStep
<1>1. PICK s \in Slot : s = SlotOf(p) /\ s = SlotOf(p)' BY StartedRow
<1>2. /\ Touches(p) /\ UNCHANGED sent
      /\ thread'[p] = [at |-> "started", out |-> "none"]
      /\ thread[p].at = "queued" /\ thread[p] # Idle
      /\ inv'[s].status = "running" /\ count_calls' = count_calls + 1
  <2>1. RowOf(p)' = inv'[s] BY <1>1 DEF RowOf, SlotOf
  <2>2. count_calls' = count_calls + 1
    <3>2. inv'[s].calls = inv[s].calls + 1
      <4>1. RowOf(p) = inv[s] BY <1>1 DEF RowOf, SlotOf
      <4> QED BY <2>1, <4>1, StartedRow
    <3>3. \A t \in Slot : t # s => inv'[t] = inv[t]
      BY <1>0, <1>1, WorkerFacts DEF Touches
    <3> QED BY <3>2, <3>3, CallAdded
  <2> QED BY <1>0, <2>1, <2>2, WorkerFacts, StartedRow
          DEF StartCall, hisVars, Idle
<1>3. inv[s] = prior[p] /\ prior[p] \in PriorRow
      /\ prior[p].error # "ambiguous"
  BY <1>1, <1>2 DEF ThreadInv, ThreadOK, Waiting, RowOf, SlotOf
<1>4. StateOf(s) = "free" /\ NotInDoubt(s)
  <2>1. inv[s].status \in {"none", "failed"} /\ inv[s].error # "ambiguous"
    BY <1>3, NoRowFields DEF PriorRow
  <2> QED BY <2>1, StateCases DEF NotInDoubt
<1>5. ASSUME NEW t \in Slot, t[2] = s[2]
      PROVE  StateOf(t) \notin {"issued", "doubtful"}
  <2>1. t = <<t[1], p>> /\ t[1] \in Stages
    BY <1>1, <1>5, StageType DEF Slot, SlotOf
  <2>2. NotInDoubt(t)
    <3>1. CASE t[1] = stage BY <1>1, <1>4, <2>1, <3>1 DEF SlotOf
    <3>2. CASE t[1] # stage BY <1>2, <2>1, <3>2 DEF ThreadInv, ThreadOK
    <3> QED BY <3>1, <3>2
  <2> QED BY <2>2, StateCases
<1>6. count_calls < MaxCalls
  <2>1. p \in Queued BY <1>2 DEF Queued
  <2>2. Cardinality(Queued) # 0 BY <2>1, TokensFinite, FS_EmptySet
  <2>3. count_calls \in Nat /\ Cardinality(Queued) \in Nat BY TokensFinite
  <2>4. MaxCalls \in Nat BY EngineAssumption
  <2>5. count_calls + Cardinality(Queued) <= MaxCalls BY Zenon DEF BudgetInv
  <2> QED BY <2>2, <2>3, <2>4, <2>5
<1>7. /\ LedgerState' = [LedgerState EXCEPT ![s] = "issued"]
      /\ \A t \in Slot : t # s => (t \in HandedSlots' <=> t \in HandedSlots)
  <2>1. StateOf(s)' = "issued" BY <1>2 DEF StateOf
  <2>2. \A t \in Slot : t # s =>
           inv'[t] = inv[t] /\ undispatched'[t] = undispatched[t]
    BY <1>1, <1>2 DEF Touches
  <2> QED BY <1>2, <2>1, <2>2, LedgerMoves
<1>8. HandedSlots' = HandedSlots
  <2>1. ~Handed(s)'
    <3>1. Unsent(p)' BY <1>2 DEF Unsent
    <3>2. ~Handed(SlotOf(p))' BY <3>1 DEF HistoryInv, CallOK
    <3> QED BY <1>1, <3>2 DEF Handed, Attempt
  <2>2. s \notin HandedSlots
    BY <1>3, NoRowFields DEF HandedSlots, PriorRow
  <2>3. s \notin HandedSlots' BY <2>1 DEF HandedSlots
  <2>4. HandedSlots \subseteq Slot /\ HandedSlots' \subseteq Slot
    BY DEF HandedSlots
  <2> QED BY <1>7, <2>2, <2>3, <2>4
<1>9. LedgerState[s] = "free"
      /\ ~\E t \in Slot : t[2] = s[2]
                          /\ LedgerState[t] \in {"issued", "doubtful"}
  BY <1>4, <1>5, LedgerView
<1>10. Ledger!Issue(s)
  BY <1>2, <1>6, <1>7, <1>8, <1>9, LedgerView
  DEF Ledger!Issue, Ledger!InDoubt, HandedSlots, Handed
<1> QED BY <1>1, <1>10

(* CallProvider hands it over.                                             *)
LEMMA ProviderHandsOver ==
  ASSUME EngineBase, ThreadInv, HistoryInv, NEW p \in Provider,
         CallProvider(p)
  PROVE  Ledger!HandOver(SlotOf(p))
<1>1. PICK s \in Slot : s = SlotOf(p) /\ s = SlotOf(p)' BY ProviderFacts
<1>2. /\ UNCHANGED storeVars
      /\ sent' = sent \cup {<<s, Attempt(s)>>}
      /\ Unsent(p) /\ thread[p] # Idle /\ ~Waiting(p)
  <2>1. thread[p].at \in {"started", "leased"} /\ thread[p] # Idle
    BY ProviderFacts
  <2>2. thread[p].out = "none" BY <2>1 DEF ThreadInv, ThreadOK
  <2> QED BY <1>1, <2>1, <2>2, ProviderFacts DEF Waiting
<1>3. inv[s].status = "running" /\ ~Handed(s)
  BY <1>1, <1>2 DEF ThreadInv, ThreadOK, HistoryInv, CallOK, RowOf, SlotOf
<1>4. inv' = inv /\ undispatched' = undispatched BY <1>2 DEF storeVars
<1>5. LedgerState' = LedgerState /\ count_calls' = count_calls
  BY <1>4, CallsKept DEF LedgerState
<1>6. HandedSlots' = HandedSlots \cup {s}
  <2>1. \A t \in Slot : t # s =>
          inv'[t] = inv[t] /\ undispatched'[t] = undispatched[t]
    BY <1>4
  <2>2. <<s, Attempt(s)>>[1] = s OBVIOUS
  <2>3. \A a : a[1] # s => (a \in sent' <=> a \in sent) BY <1>2, <2>2
  <2>4. \A t \in Slot : t # s => (t \in HandedSlots' <=> t \in HandedSlots)
    BY <2>1, <2>3, LedgerMoves
  <2>5. Handed(s)'
    BY <1>2, <1>4 DEF Handed, Attempt
  <2>6. s \in HandedSlots' BY <1>3, <1>4, <2>5 DEF HandedSlots
  <2>7. HandedSlots \subseteq Slot /\ HandedSlots' \subseteq Slot
    BY DEF HandedSlots
  <2> QED BY <2>4, <2>6, <2>7
<1>7. LedgerState[s] = "issued" /\ s \notin HandedSlots
  BY <1>3, LedgerView DEF StateOf, HandedSlots
<1> QED BY <1>1, <1>5, <1>6, <1>7, LedgerView
        DEF Ledger!HandOver, HandedSlots, Handed

(* A call that is no longer running leaves the set of issued calls.        *)
LEMMA LeavesHanded ==
  ASSUME NEW s \in Slot, UNCHANGED sent, inv'[s].status # "running",
         \A t \in Slot : t # s =>
           inv'[t] = inv[t] /\ undispatched'[t] = undispatched[t]
  PROVE  /\ LedgerState' = [LedgerState EXCEPT ![s] = StateOf(s)']
         /\ HandedSlots' = HandedSlots \ {s}
<1>1. /\ LedgerState' = [LedgerState EXCEPT ![s] = StateOf(s)']
      /\ \A t \in Slot : t # s => (t \in HandedSlots' <=> t \in HandedSlots)
  BY LedgerMoves
<1>2. s \notin HandedSlots' BY DEF HandedSlots
<1>3. HandedSlots \subseteq Slot /\ HandedSlots' \subseteq Slot
  BY DEF HandedSlots
<1> QED BY <1>1, <1>2, <1>3

(* A failure that may hide an answer puts the slot in doubt.               *)
LEMMA FailureDoubts ==
  ASSUME EngineBase, NEW s \in Slot, UNCHANGED sent,
         finish_invocation_failure(s, "ambiguous")
  PROVE  Ledger!Doubt(s)
<1>0. inv \in [Slot -> Row] /\ inv[s] \in Row
  BY DEF EngineBase, StoreInv, StoreTypeOK
<1>1. /\ inv[s].status = "running"
      /\ inv'[s].status = "failed" /\ inv'[s].error = "ambiguous"
      /\ inv'[s].calls = inv[s].calls
  BY <1>0 DEF finish_invocation_failure, Row
<1>2. \A t \in Slot : t # s =>
        inv'[t] = inv[t] /\ undispatched'[t] = undispatched[t]
  BY <1>0 DEF finish_invocation_failure
<1>3. \A t \in Slot : inv'[t].calls = inv[t].calls BY <1>1, <1>2
<1>4. count_calls' = count_calls BY <1>3, CallsKept
<1>5. StateOf(s)' = "doubtful" BY <1>1 DEF StateOf
<1>6. /\ LedgerState' = [LedgerState EXCEPT ![s] = "doubtful"]
      /\ HandedSlots' = HandedSlots \ {s}
  BY <1>1, <1>2, <1>5, LeavesHanded
<1>7. LedgerState[s] = "issued" BY <1>1, LedgerView DEF StateOf
<1> QED BY <1>4, <1>6, <1>7, LedgerView
        DEF Ledger!Doubt, HandedSlots, Handed

(* Each way to settle a call is a step of the ledger, or none.             *)
LEMMA SettleLedger ==
  ASSUME EngineBase, EngineBase', ThreadInv, HistoryInv, NEW p \in Provider,
         SettleStep(p)
  PROVE  \/ \E s \in Slot :
              \/ Ledger!Withdraw(s) \/ Ledger!Doubt(s)
              \/ \E to \in {"answered", "free"} : Ledger!Settle(s, to)
         \/ UNCHANGED <<LedgerState, HandedSlots, count_calls>>
<1>0. Touches(p) /\ UNCHANGED sent BY SettleFacts
<1>1. PICK s \in Slot : s = SlotOf(p) BY RowType
<1>2. inv \in [Slot -> Row] /\ inv[s] \in Row /\ inv'[s] \in Row
  BY DEF EngineBase, StoreInv, StoreTypeOK
<1>3. \A t \in Slot : t # s =>
        inv'[t] = inv[t] /\ undispatched'[t] = undispatched[t]
  BY <1>0, <1>1 DEF Touches
<1>4. CASE UNCHANGED storeVars BY <1>0, <1>4, LedgerStutters
<1>5. CASE SettleUndispatched(p) /\ Unsent(p) /\ inv'[s] = prior[p]
           /\ prior[p] \in PriorRow /\ prior[p].error # "ambiguous"
           /\ prior[p].calls + 1 = inv[s].calls
           /\ release_undispatched_invocation(s, prior[p])
  <2>1. ~Handed(s) BY <1>1, <1>5 DEF HistoryInv, CallOK
  <2>2. inv[s].status = "running" BY <1>5 DEF release_undispatched_invocation
  <2>3. inv'[s].status \in {"none", "failed"} /\ inv'[s].error # "ambiguous"
    BY <1>5, NoRowFields DEF PriorRow
  <2>4. StateOf(s)' = "free" BY <2>3 DEF StateOf
  <2>5. /\ LedgerState' = [LedgerState EXCEPT ![s] = "free"]
        /\ HandedSlots' = HandedSlots \ {s}
    BY <1>0, <1>3, <2>3, <2>4, LeavesHanded
  <2>6. s \notin HandedSlots BY <2>1 DEF HandedSlots
  <2>7. HandedSlots' = HandedSlots BY <2>5, <2>6
  <2>8. LedgerState[s] = "issued" BY <2>2, LedgerView DEF StateOf
  <2>9. count_calls' = count_calls - 1
    <3>1. inv'[s].calls \in Nat BY <1>2 DEF Row
    <3>2. inv'[s].calls + 1 = inv[s].calls BY <1>5
    <3> QED BY <1>3, <3>1, <3>2, CallRemoved
  <2>10. Ledger!Withdraw(s)
    BY <2>5, <2>6, <2>7, <2>8, <2>9, LedgerView
    DEF Ledger!Withdraw, HandedSlots, Handed
  <2> QED BY <2>10
<1>6. CASE finish_invocation_failure(s, "ambiguous")
  BY <1>0, <1>6, FailureDoubts
<1>7. CASE /\ thread[p].out \in AllOutcomes
           /\ \/ \E error \in {"error", "length"} :
                   finish_invocation_failure(s, error)
              \/ finish_invocation_success(s, thread[p].out)
  <2>1. Handed(s) BY <1>1, <1>7 DEF HistoryInv, CallOK
  <2>2. inv[s].status = "running" /\ inv'[s].calls = inv[s].calls
        /\ \/ inv'[s].status = "succeeded"
           \/ inv'[s].status = "failed" /\ inv'[s].error # "ambiguous"
    <3>1. ASSUME NEW error \in {"error", "length"},
                 finish_invocation_failure(s, error)
          PROVE  /\ inv[s].status = "running" /\ inv'[s].calls = inv[s].calls
                 /\ inv'[s].status = "failed" /\ inv'[s].error # "ambiguous"
      BY <1>2, <3>1 DEF finish_invocation_failure, Row
    <3>2. ASSUME finish_invocation_success(s, thread[p].out)
          PROVE  /\ inv[s].status = "running" /\ inv'[s].calls = inv[s].calls
                 /\ inv'[s].status = "succeeded"
      BY <1>2, <3>2 DEF finish_invocation_success, Row
    <3> QED BY <1>7, <3>1, <3>2
  <2>3. PICK to \in {"answered", "free"} : StateOf(s)' = to
    BY <2>2 DEF StateOf
  <2>4. /\ LedgerState' = [LedgerState EXCEPT ![s] = to]
        /\ HandedSlots' = HandedSlots \ {s}
    BY <1>0, <1>3, <2>2, <2>3, LeavesHanded
  <2>5. LedgerState[s] = "issued" /\ s \in HandedSlots
    BY <2>1, <2>2, LedgerView DEF StateOf, HandedSlots
  <2>6. count_calls' = count_calls
    <3>1. \A t \in Slot : inv'[t].calls = inv[t].calls BY <1>3, <2>2
    <3> QED BY <3>1, CallsKept
  <2>7. Ledger!Settle(s, to)
    BY <2>4, <2>5, <2>6, LedgerView
    DEF Ledger!Settle, HandedSlots, Handed
  <2> QED BY <2>7
<1>8. "ambiguous" \in AllOutcomes BY DEF AllOutcomes
<1> QED BY <1>1, <1>4, <1>5, <1>6, <1>7, <1>8, SettledRow

(* Every step of the engine is one of the ledger, or leaves it unchanged.  *)
LEMMA LedgerStep ==
  ASSUME EngineBase, EngineBase', ThreadInv, HistoryInv, HistoryInv',
         BudgetInv, [EngineNext]_vars
  PROVE  [Ledger!LedgerNext]_(Ledger!ledgerVars)
<1>0. ASSUME UNCHANGED <<LedgerState, HandedSlots, count_calls>>
      PROVE  UNCHANGED Ledger!ledgerVars
  BY <1>0 DEF Ledger!ledgerVars, HandedSlots, Handed
<1>1. CASE Quiet \/ Steady \/ BeginStage
  <2>1. UNCHANGED storeVars /\ UNCHANGED sent
    BY <1>1, BeginFacts DEF Quiet, Steady, hisVars
  <2> QED BY <1>0, <2>1, LedgerStutters
<1>2. ASSUME NEW p \in Provider, MarkLost(p)
      PROVE  \E s \in Slot : Ledger!Doubt(s)
  BY <1>2, MarkLostFacts, RowType, FailureDoubts DEF hisVars
<1>3. ASSUME NEW p \in Provider, WorkerStep(p)
      PROVE  \/ UNCHANGED <<LedgerState, HandedSlots, count_calls>>
             \/ \E s \in Slot : Ledger!Issue(s) \/ Ledger!HandOver(s)
  <2>1. PICK s \in Slot : s = SlotOf(p) BY RowType
  <2>2. CASE StartCall(p)
    <3>1. Ledger!Issue(SlotOf(p)) BY <2>2, StartIssues
    <3>2. Ledger!Issue(s) BY <2>1, <3>1
    <3> QED BY <3>2
  <2>3. CASE CallProvider(p)
    <3>1. Ledger!HandOver(SlotOf(p)) BY <2>3, ProviderHandsOver
    <3>2. Ledger!HandOver(s) BY <2>1, <3>1
    <3> QED BY <3>2
  <2>4. CASE ~StartCall(p) /\ ~CallProvider(p)
    <3>1. UNCHANGED storeVars /\ UNCHANGED sent
      BY <1>3, <2>4, WorkerFacts
      DEF WorkerStep, StartTooLate, ReserveCall, CallTooLate, hisVars
    <3> QED BY <3>1, LedgerStutters
  <2> QED BY <2>2, <2>3, <2>4
<1>4. ASSUME NEW p \in Provider, LeaseStep(p)
      PROVE  UNCHANGED <<LedgerState, HandedSlots, count_calls>>
  BY <1>4, LeaseFacts, LedgerStutters DEF hisVars
<1>5. ASSUME NEW p \in Provider, SettleStep(p)
      PROVE  \/ UNCHANGED <<LedgerState, HandedSlots, count_calls>>
             \/ \E s \in Slot :
                  \/ Ledger!Withdraw(s) \/ Ledger!Doubt(s)
                  \/ \E to \in {"answered", "free"} : Ledger!Settle(s, to)
  BY <1>5, SettleLedger
<1> QED BY <1>0, <1>1, <1>2, <1>3, <1>4, <1>5, StepKinds
        DEF Ledger!LedgerNext

(* A new run is an empty ledger.                                           *)
LEMMA LedgerStart == EngineInit => Ledger!LedgerInit
<1> SUFFICES ASSUME EngineInit PROVE Ledger!LedgerInit OBVIOUS
<1>1. \A s \in Slot : inv[s] = NoRow BY DEF EngineInit, StoreInit
<1>2. LedgerState = [s \in Slot |-> "free"]
  BY <1>1, NoRowFields DEF LedgerState
<1>3. HandedSlots = {} BY <1>1, NoRowFields DEF HandedSlots
<1>4. CallTokens = {} BY <1>1, NoRowFields DEF CallTokens
<1>5. count_calls = 0 BY <1>4, FS_EmptySet DEF count_calls
<1> QED BY <1>2, <1>3, <1>5, LedgerView DEF Ledger!LedgerInit

(* EngineKeepsLedger: whatever its threads, crashes, deadlines and resumes *)
(* do, the engine keeps the promise of CallLedger: one call in flight for  *)
(* a slot, none after an answer or in doubt about its provider, never over *)
(* the budget, and only calls nobody made come off the books.              *)
THEOREM EngineKeepsLedger == EngineSpec => ImplementsLedger
<1>1. EngineInit => Ledger!LedgerInit BY LedgerStart
<1>2. EngineBase /\ EngineBase' /\ ThreadInv /\ HistoryInv /\ HistoryInv'
        /\ BudgetInv /\ [EngineNext]_vars
        => [Ledger!LedgerNext]_(Ledger!ledgerVars)
  BY LedgerStep
<1> QED BY <1>1, <1>2, ThreadInvHolds, HistoryHolds, BudgetHolds, PTL
        DEF EngineSpec, ImplementsLedger, Ledger!LedgerSpec

----------------------------------------------------------------------------
(* A completed run keeps its result, and so the decisions taken on it.     *)

(* finish_run ends the process that completes a run.                       *)
CompletedIsIdle == runStatus = "completed" => pc = "idle"

(* No step changes the result of a completed run: resume only returns it.  *)
LEMMA CompletedStep ==
  ASSUME CompletedIsIdle, [EngineNext]_vars
  PROVE  /\ CompletedIsIdle'
         /\ runStatus = "completed" => UNCHANGED <<runStatus, result>>
<1>1. CASE UNCHANGED vars
  BY <1>1 DEF vars, runVars, ctlVars, CompletedIsIdle
<1>2. CASE Resume
  BY <1>2 DEF Resume, StartResume, CompletedIsIdle
<1>3. CASE Crash \/ Drained
  BY <1>3 DEF Crash, Drained, ProcessEnds, runVars, CompletedIsIdle
<1>4. CASE Expire \/ Interrupt
  BY <1>4 DEF Expire, Interrupt, runVars, CompletedIsIdle
<1>5. ASSUME NEW p \in Provider, WorkerStep(p)
      PROVE  pc # "idle" /\ UNCHANGED runVars /\ UNCHANGED ctlVars
  BY <1>5 DEF WorkerStep, StartTooLate, StartCall, ReserveCall, CallTooLate,
              CallProvider, MayCall, Scheduled, Running, ThreadFrame
<1>6. ASSUME NEW p \in Provider,
             \/ SettleLease(p) \/ ReconcileFails(p) \/ SettleUnstarted(p)
             \/ SettleUndispatched(p) \/ SettleSuccess(p)
             \/ SettleTruncated(p) \/ SettleFailure(p) \/ MarkLost(p)
      PROVE  pc # "idle" /\ UNCHANGED runVars /\ UNCHANGED ctlVars
  BY <1>6 DEF SettleLease, ReconcileFails, SettleUnstarted,
              SettleUndispatched, SettleSuccess, SettleTruncated,
              SettleFailure, MarkLost, LeaseFrame, SettleFrame, Settling
<1>7. ASSUME NEW p \in Provider, WriteRecovery(p) \/ WriteRepair(p)
      PROVE  pc # "idle" /\ UNCHANGED <<runStatus, pc>>
  BY <1>7 DEF WriteRecovery, WriteRepair, ctlVars
<1>8. CASE BeginStage \/ StartRecovery \/ EndRecovery \/ RepairsDone
  BY <1>8 DEF BeginStage, StartRecovery, EndRecovery, RepairsDone,
              StageReturns, PassSettled, runVars, CompletedIsIdle
<1>9. CASE \/ ProposalsShort \/ JuriesShort \/ SynthesisTooLate
           \/ SynthesisDone \/ SynthesisFails
  BY <1>9 DEF ProposalsShort, JuriesShort, SynthesisTooLate, SynthesisDone,
              SynthesisFails, StageReturns, PassSettled, Finish, ProcessEnds,
              CompletedIsIdle
<1>10. CASE ProposalsDone \/ SelectRepairs \/ Adjudicate
  BY <1>10 DEF ProposalsDone, SelectRepairs, Adjudicate, StageReturns,
               PassSettled, EnterStage, runVars, CompletedIsIdle
<1>11. CASE NextSynthesis \/ SynthesisFallback
  BY <1>11 DEF NextSynthesis, SynthesisFallback, StageReturns, PassSettled,
               EnterStage, runVars, CompletedIsIdle
<1>12. ASSUME NEW p \in Provider, WorkerStep(p) PROVE CompletedIsIdle'
  BY <1>5, <1>12 DEF runVars, ctlVars, CompletedIsIdle
<1>13. CASE MainStep
  BY <1>6, <1>7, <1>8, <1>9, <1>10, <1>11, <1>13
  DEF MainStep, runVars, ctlVars, CompletedIsIdle
<1> QED BY <1>1, <1>2, <1>3, <1>4, <1>5, <1>12, <1>13
        DEF EngineNext, CompletedIsIdle, runVars

(* What the ledger keeps of a decision.                                    *)
DecisionRow ==
  [decision : Decision,
   run_status : {"created", "running", "completed", "partial", "failed"},
   result : [status : {"none", "completed", "partial", "failed"},
             clean : BOOLEAN, answer : Provider \cup {NoAnswer}]]

(* A decision on a completed run is on the result that run has, and the    *)
(* run is completed still.                                                 *)
DecisionInv ==
  /\ CompletedIsIdle
  /\ decisions \in Seq(DecisionRow)
  /\ \A i \in 1 .. Len(decisions) :
       decisions[i].run_status = "completed" =>
         runStatus = "completed" /\ decisions[i].result = result

(* DecisionsStand: record_human_decision on a completed run records the    *)
(* result the run keeps for ever, whatever is resumed or crashes later.    *)
THEOREM DecisionsStand == DecisionSpec => []DecisionStands
<1>1. DecisionInit => EngineBase /\ DecisionInv
  BY EngineInitBase DEF DecisionInit, EngineInit, DecisionInv, CompletedIsIdle
<1>2. ASSUME EngineBase, DecisionInv, [DecisionNext]_decisionVars
      PROVE  EngineBase' /\ DecisionInv'
  <2>1. CASE [EngineNext]_vars /\ UNCHANGED decisions
    <3>1. /\ CompletedIsIdle'
          /\ runStatus = "completed" => UNCHANGED <<runStatus, result>>
      BY <1>2, <2>1, CompletedStep DEF DecisionInv
    <3>2. EngineBase' BY <1>2, <2>1, EngineNextBase
    <3> QED BY <1>2, <2>1, <3>1, <3>2 DEF DecisionInv
  <2>2. ASSUME NEW decision \in Decision, record_human_decision(decision)
        PROVE  EngineBase' /\ DecisionInv'
    <3>1. [EngineNext]_vars /\ UNCHANGED <<runStatus, result, pc>>
      BY <2>2 DEF record_human_decision, vars, runVars, ctlVars
    <3>2. EngineBase' BY <1>2, <3>1, EngineNextBase
    <3> DEFINE entry == [decision |-> decision, run_status |-> runStatus,
                         result |-> result]
    <3>3. decisions' = Append(decisions, entry)
      BY <2>2 DEF record_human_decision
    <3>4. entry \in DecisionRow
      BY <1>2 DEF EngineBase, RunTypeOK, DecisionRow
    <3>5. \A i \in 1 .. Len(decisions') :
            decisions'[i] = IF i <= Len(decisions) THEN decisions[i]
                                                   ELSE entry
      BY <1>2, <3>3, <3>4 DEF DecisionInv
    <3>6. /\ entry.run_status = runStatus /\ entry.result = result
      OBVIOUS
    <3>7. /\ decisions' \in Seq(DecisionRow)
          /\ Len(decisions') = Len(decisions) + 1
      BY <1>2, <3>3, <3>4 DEF DecisionInv
    <3> HIDE DEF entry
    <3>8. \A i \in 1 .. Len(decisions') :
            decisions'[i].run_status = "completed" =>
              runStatus = "completed" /\ decisions'[i].result = result
      BY <1>2, <3>5, <3>6, <3>7 DEF DecisionInv
    <3> QED BY <1>2, <3>1, <3>2, <3>7, <3>8 DEF DecisionInv, CompletedIsIdle
  <2>3. CASE UNCHANGED decisionVars
    BY <1>2, <2>1, <2>3 DEF decisionVars
  <2> QED BY <1>2, <2>1, <2>2, <2>3 DEF DecisionNext
<1>3. DecisionInv => DecisionStands BY DEF DecisionInv, DecisionStands
<1> QED BY <1>1, <1>2, <1>3, PTL DEF DecisionSpec

----------------------------------------------------------------------------
(* Truncation retries.                                                     *)

TruncationsOf(s) == {e \in retryEvents : e.slot = s /\ e.kind = "truncation"}

(* A thread that is about to retry a truncated response has a retry left.  *)
RetryLeft(p) ==
  thread[p].at = "queued" /\ prior[p].error = "length"
    => TruncationRetriesOf(SlotOf(p)) < TruncationRetries

TruncationInv ==
  /\ IsFiniteSet(retryEvents)
  /\ TruncationBounded
  /\ \A p \in Provider : RetryLeft(p)

(* The number of a slot's truncation retries, with and without new events. *)
LEMMA TruncationCount ==
  ASSUME IsFiniteSet(retryEvents), NEW s
  PROVE  /\ TruncationRetriesOf(s) = Cardinality(TruncationsOf(s))
         /\ TruncationRetriesOf(s) \in Nat /\ IsFiniteSet(TruncationsOf(s))
<1>1. IsFiniteSet(TruncationsOf(s)) BY FS_Subset DEF TruncationsOf
<1> QED BY <1>1, FS_CardinalityType DEF TruncationRetriesOf, TruncationsOf

(* Where no retry event is written, no slot has more of them.              *)
LEMMA TruncationsShrink ==
  ASSUME IsFiniteSet(retryEvents), retryEvents' \subseteq retryEvents
  PROVE  /\ IsFiniteSet(retryEvents')
         /\ \A s : TruncationRetriesOf(s)' <= TruncationRetriesOf(s)
<1>1. IsFiniteSet(retryEvents') BY FS_Subset
<1>2. ASSUME NEW s
      PROVE  TruncationRetriesOf(s)' <= TruncationRetriesOf(s)
  <2>1. IsFiniteSet(TruncationsOf(s)) BY TruncationCount
  <2>2. TruncationsOf(s)' \in SUBSET TruncationsOf(s) BY DEF TruncationsOf
  <2>3. Cardinality(TruncationsOf(s)') <= Cardinality(TruncationsOf(s))
    BY <2>1, <2>2, FS_Subset
  <2> QED BY <2>3 DEF TruncationRetriesOf, TruncationsOf
<1> QED BY <1>1, <1>2

(* A step that adds no retry event and lets no thread wait.                *)
LEMMA NoNewRetry ==
  ASSUME TruncationInv, retryEvents' \subseteq retryEvents,
         \A p \in Provider :
           thread'[p].at = "queued" => /\ thread[p].at = "queued"
                                       /\ SlotOf(p)' = SlotOf(p)
                                       /\ prior'[p] = prior[p]
  PROVE  TruncationInv'
<1>0. TruncationRetries \in Nat BY EngineAssumption
<1>1. IsFiniteSet(retryEvents) BY DEF TruncationInv
<1>2. /\ IsFiniteSet(retryEvents')
      /\ \A s : TruncationRetriesOf(s)' <= TruncationRetriesOf(s)
  BY <1>1, TruncationsShrink
<1>3. \A s : TruncationRetriesOf(s) \in Nat BY <1>1, TruncationCount
<1>4. ASSUME NEW s PROVE TruncationRetriesOf(s)' \in Nat
  <2>1. IsFiniteSet(TruncationsOf(s)')
    BY <1>2, FS_Subset DEF TruncationsOf
  <2> QED BY <2>1, FS_CardinalityType DEF TruncationRetriesOf, TruncationsOf
<1>5. TruncationBounded'
  BY <1>0, <1>2, <1>3, <1>4 DEF TruncationInv, TruncationBounded
<1>6. ASSUME NEW p \in Provider, thread'[p].at = "queued",
             prior'[p].error = "length"
      PROVE  TruncationRetriesOf(SlotOf(p))' < TruncationRetries
  <2>1. TruncationRetriesOf(SlotOf(p)) < TruncationRetries
    BY <1>6 DEF TruncationInv, RetryLeft
  <2>2. PICK s : s = SlotOf(p) /\ s = SlotOf(p)' BY <1>6
  <2>3. TruncationRetriesOf(s)' < TruncationRetries
    BY <1>0, <1>2, <1>3, <1>4, <2>1, <2>2
  <2> QED BY <2>2, <2>3 DEF TruncationRetriesOf
<1> QED BY <1>2, <1>5, <1>6 DEF TruncationInv, RetryLeft

(* A truncated response is queued again only with a retry left.            *)
LEMMA BeginTruncation ==
  ASSUME EngineBase, TruncationInv, BeginStage
  PROVE  TruncationInv'
<1>1. retryEvents' = retryEvents /\ inv' = inv /\ stage' = stage
  BY BeginFacts DEF storeVars
<1>2. TruncationBounded' /\ IsFiniteSet(retryEvents')
  BY <1>1 DEF TruncationInv, TruncationBounded, TruncationRetriesOf
<1>3. ASSUME NEW p \in Provider, thread'[p].at = "queued",
             prior'[p].error = "length"
      PROVE  TruncationRetriesOf(SlotOf(p))' < TruncationRetries
  <2>1. p \in Work
    <3>1. PICK allowed \in SUBSET Work :
            thread' = [q \in Provider |->
                        IF q \in allowed
                        THEN [at |-> "queued", out |-> "none"] ELSE Idle]
      BY BeginFacts
    <3> QED BY <1>3, <3>1 DEF Idle
  <2>2. RowOf(p).error = "length" /\ ~Exhausted(p)
    BY <1>3, <2>1, BeginFacts DEF Work
  <2>3. RowOf(p).status = "failed"
    BY <2>2, RowType DEF EngineBase, StoreInv, RowShape
  <2>4. ~(TruncationRetriesOf(SlotOf(p)) >= TruncationRetries)
    BY <2>2, <2>3 DEF Exhausted
  <2>5. TruncationRetriesOf(SlotOf(p)) \in Nat
    BY TruncationCount DEF TruncationInv
  <2>6. TruncationRetriesOf(SlotOf(p)) < TruncationRetries
    BY <2>4, <2>5, EngineAssumption
  <2> QED BY <1>1, <2>6 DEF TruncationRetriesOf, SlotOf
<1> QED BY <1>2, <1>3 DEF TruncationInv, RetryLeft

(* The retry that start_invocation records was one that was left.          *)
LEMMA StartTruncation ==
  ASSUME EngineBase, ThreadInv, TruncationInv, NEW p \in Provider,
         StartCall(p)
  PROVE  TruncationInv'
<1>0. WorkerStep(p) BY DEF WorkerStep
<1>1. PICK s \in Slot : s = SlotOf(p) /\ s = SlotOf(p)' BY StartedRow
<1>2. /\ Touches(p) /\ thread'[p] = [at |-> "started", out |-> "none"]
      /\ thread[p].at = "queued" /\ thread[p] # Idle
      /\ retryEvents' = IF inv[s].status = "failed"
                        THEN retryEvents \cup {RetryOf(s)} ELSE retryEvents
  BY <1>0, <1>1, WorkerFacts, StartedRow DEF StartCall, start_invocation, Idle
<1>3. inv[s] = prior[p]
  BY <1>1, <1>2 DEF ThreadInv, ThreadOK, Waiting, RowOf, SlotOf
<1>4. RetryOf(s).slot = s
      /\ (RetryOf(s).kind = "truncation" <=> inv[s].error = "length")
  BY DEF RetryOf, RetryKind
<1>5. /\ IsFiniteSet(retryEvents) /\ TruncationRetries \in Nat
      /\ \A t \in Slot : TruncationRetriesOf(t) <= TruncationRetries
  BY EngineAssumption DEF TruncationInv, TruncationBounded
<1>6. IsFiniteSet(retryEvents')
  <2>1. IsFiniteSet(retryEvents \cup {RetryOf(s)}) BY <1>5, FS_AddElement
  <2> QED BY <1>2, <1>5, <2>1
<1>7. \A t \in Slot : t # s => TruncationRetriesOf(t)' = TruncationRetriesOf(t)
  <2> SUFFICES ASSUME NEW t \in Slot, t # s
               PROVE  TruncationRetriesOf(t)' = TruncationRetriesOf(t)
    OBVIOUS
  <2>1. TruncationsOf(t)' = TruncationsOf(t)
    BY <1>2, <1>4 DEF TruncationsOf
  <2> QED BY <2>1 DEF TruncationRetriesOf, TruncationsOf
<1>8. TruncationRetriesOf(s)' <= TruncationRetries
  <2>1. CASE inv[s].status = "failed" /\ inv[s].error = "length"
    <3>1. TruncationRetriesOf(s) < TruncationRetries
      BY <1>1, <1>2, <1>3, <2>1 DEF TruncationInv, RetryLeft
    <3>2. TruncationsOf(s)' = TruncationsOf(s) \cup {RetryOf(s)}
      BY <1>2, <1>4, <2>1 DEF TruncationsOf
    <3>3. /\ TruncationRetriesOf(s) = Cardinality(TruncationsOf(s))
          /\ TruncationRetriesOf(s) \in Nat /\ IsFiniteSet(TruncationsOf(s))
      BY <1>5, TruncationCount
    <3>4. LET grown == TruncationsOf(s) \cup {RetryOf(s)} IN
            /\ Cardinality(grown) \in Nat
            /\ Cardinality(grown) <= Cardinality(TruncationsOf(s)) + 1
      <4> HIDE DEF TruncationsOf
      <4>1. Cardinality(TruncationsOf(s) \cup {RetryOf(s)})
              = IF RetryOf(s) \in TruncationsOf(s)
                THEN Cardinality(TruncationsOf(s))
                ELSE Cardinality(TruncationsOf(s)) + 1
        BY <3>3, FS_AddElement
      <4> QED BY <3>3, <4>1
    <3>5. /\ Cardinality(TruncationsOf(s)') \in Nat
          /\ Cardinality(TruncationsOf(s)')
               <= Cardinality(TruncationsOf(s)) + 1
      BY <3>2, <3>4
    <3>6. TruncationRetriesOf(s)' = Cardinality(TruncationsOf(s)')
      BY DEF TruncationRetriesOf, TruncationsOf
    <3> QED BY <1>5, <3>1, <3>3, <3>5, <3>6
  <2>2. CASE ~(inv[s].status = "failed" /\ inv[s].error = "length")
    <3>1. TruncationsOf(s)' = TruncationsOf(s)
      BY <1>2, <1>4, <2>2 DEF TruncationsOf
    <3>2. TruncationRetriesOf(s)' = TruncationRetriesOf(s)
      BY <3>1 DEF TruncationRetriesOf, TruncationsOf
    <3> QED BY <1>5, <3>2
  <2> QED BY <2>1, <2>2
<1>9. TruncationBounded' BY <1>5, <1>7, <1>8 DEF TruncationBounded
<1>10. ASSUME NEW q \in Provider, thread'[q].at = "queued",
              prior'[q].error = "length"
       PROVE  TruncationRetriesOf(SlotOf(q))' < TruncationRetries
  <2>1. q # p BY <1>2, <1>10
  <2>2. stage \in Stages BY RowType
  <2>3. /\ thread[q].at = "queued" /\ prior[q].error = "length"
        /\ SlotOf(q)' = SlotOf(q) /\ SlotOf(q) # s
    <3>1. thread'[q] = thread[q] /\ prior'[q] = prior[q]
      BY <1>2, <1>10, <2>1 DEF Touches
    <3>2. stage' = stage BY <1>2 DEF Touches
    <3>3. SlotOf(q)' = SlotOf(q) /\ SlotOf(q) # SlotOf(p)
      BY <2>1, <3>2 DEF SlotOf
    <3>4. thread[q].at = "queued" /\ prior[q].error = "length"
      BY <1>10, <3>1
    <3> QED BY <1>1, <3>3, <3>4
  <2>4. PICK t \in Slot : t = SlotOf(q) /\ t = SlotOf(q)' BY <2>3, RowType
  <2>5. TruncationRetriesOf(t) < TruncationRetries
    BY <2>3, <2>4 DEF TruncationInv, RetryLeft
  <2>6. TruncationRetriesOf(t)' < TruncationRetries
    BY <1>7, <2>3, <2>4, <2>5
  <2> QED BY <2>4, <2>6 DEF TruncationRetriesOf
<1> QED BY <1>6, <1>9, <1>10 DEF TruncationInv, RetryLeft

(* Every other step removes retry events at most.                          *)
LEMMA NextTruncation ==
  ASSUME EngineBase, ThreadInv, TruncationInv, [EngineNext]_vars
  PROVE  TruncationInv'
<1>1. CASE Quiet
  <2>1. retryEvents' = retryEvents /\ \A p \in Provider : thread'[p] = Idle
    BY <1>1 DEF Quiet, ThreadsIdle, storeVars
  <2> QED BY <2>1, NoNewRetry DEF Idle
<1>2. CASE Steady
  <2>1. UNCHANGED <<retryEvents, thread, stage, prior>>
    BY <1>2 DEF Steady, storeVars
  <2> QED BY <2>1, NoNewRetry DEF SlotOf
<1>3. ASSUME NEW p \in Provider,
             \/ MarkLost(p) \/ LeaseStep(p) \/ SettleStep(p)
             \/ WorkerStep(p) /\ ~StartCall(p)
      PROVE  TruncationInv'
  <2>1. retryEvents' \subseteq retryEvents
    <3>1. CASE MarkLost(p)
      BY <3>1, MarkLostFacts DEF finish_invocation_failure
    <3>2. CASE LeaseStep(p) BY <3>2, LeaseFacts DEF storeVars
    <3>3. CASE WorkerStep(p) /\ ~StartCall(p)
      BY <3>3, WorkerFacts DEF storeVars
    <3>4. CASE SettleStep(p)
      <4>1. PICK s \in Slot : s = SlotOf(p) BY RowType
      <4> QED BY <3>4, <4>1, SettledRow
              DEF storeVars, release_undispatched_invocation
    <3> QED BY <1>3, <3>1, <3>2, <3>3, <3>4
  <2>2. UNCHANGED <<stage, prior>>
    BY <1>3, MarkLostFacts, WorkerFacts, LeaseFacts, SettleFacts DEF Touches
  <2>3. /\ \A q \in Provider : q # p => thread'[q] = thread[q]
        /\ thread'[p].at # "queued"
    BY <1>3, BooksMove
  <2> QED BY <2>1, <2>2, <2>3, NoNewRetry DEF SlotOf
<1> QED BY <1>1, <1>2, <1>3, BeginTruncation, StartTruncation, StepKinds

(* The truncation retries of a slot, made or about to be made, stay within *)
(* the policy.                                                             *)
THEOREM TruncationHolds == EngineSpec => []TruncationInv
<1>1. EngineInit => TruncationInv
  <2> SUFFICES ASSUME EngineInit PROVE TruncationInv OBVIOUS
  <2>1. retryEvents = {} BY DEF EngineInit, StoreInit
  <2>2. ASSUME NEW s \in Slot PROVE TruncationRetriesOf(s) <= TruncationRetries
    <3>1. {e \in retryEvents : e.slot = s /\ e.kind = "truncation"} = {}
      BY <2>1
    <3>2. TruncationRetriesOf(s) = 0
      BY <3>1, FS_EmptySet DEF TruncationRetriesOf
    <3>3. TruncationRetries \in Nat BY EngineAssumption
    <3> QED BY <3>2, <3>3
  <2>3. \A p \in Provider : RetryLeft(p)
    BY DEF EngineInit, RetryLeft, Idle
  <2> QED BY <2>1, <2>2, <2>3, FS_EmptySet DEF TruncationInv, TruncationBounded
<1>2. EngineBase /\ ThreadInv /\ TruncationInv /\ [EngineNext]_vars
        => TruncationInv'
  BY NextTruncation
<1> QED BY <1>1, <1>2, ThreadInvHolds, PTL DEF EngineSpec

(* TruncationRetriesBounded: however many processes retried a slot and     *)
(* lost the audit event of it, _run_parallel_stage retries it for          *)
(* truncation at most policy.truncation_retries times.                     *)
THEOREM TruncationRetriesBounded == EngineSpec => []TruncationBounded
<1>1. TruncationInv => TruncationBounded BY DEF TruncationInv
<1> QED BY <1>1, TruncationHolds, PTL

----------------------------------------------------------------------------
(* The locks: what the rows of a run may be asked, and when.               *)

RowStep(p) == MarkLost(p) \/ WorkerStep(p) \/ LeaseStep(p) \/ SettleStep(p)

(* How a slot of the current stage changes in such a step.                 *)
Starts(s) ==
  /\ inv[s].status \in {"none", "failed"} /\ inv'[s].status = "running"
  /\ inv'[s].prompt = PromptOf(stage)

Settles(s) ==
  /\ inv[s].status = "running" /\ inv'[s].prompt = inv[s].prompt
  /\ inv'[s].status \in {"succeeded", "failed"}

GivenBack(s) == inv[s].status = "running" /\ inv'[s] = NoRow

(* A step of a thread, of its settlement or of the recording of a loss     *)
(* changes one row of a provider of the pass, never one that is answered.  *)
LEMMA RowMoves ==
  ASSUME EngineBase, ThreadInv, NEW p \in Provider, RowStep(p),
         NEW s \in Slot, s = SlotOf(p)
  PROVE  /\ UNCHANGED runVars /\ UNCHANGED <<stage, pc, nested, prompts>>
         /\ pc \in {"begin", "run", "draining"}
         /\ \A t \in Slot : t # s => inv'[t] = inv[t]
         /\ inv'[s] = inv[s] \/ Starts(s) \/ Settles(s) \/ GivenBack(s)
         /\ inv[s].status # "succeeded"
         /\ inv'[s].status = "succeeded" => p \in succ'
         /\ \A q \in Provider : q # p => thread'[q] = thread[q]
         /\ thread[p] # Idle \/ (p \in prompts /\ MarkLost(p))
         /\ thread'[p] # Idle => thread[p] # Idle
         /\ succ' = succ \/ succ' = succ \cup {p}
         /\ recoverable' = recoverable
              \/ (stage # "jury_repair" /\ recoverable' = recoverable \cup {p})
<1>0. inv \in [Slot -> Row] BY DEF EngineBase, StoreInv, StoreTypeOK
<1>1. RowOf(p) = inv[s] BY DEF RowOf, SlotOf
<1>2. thread[p] # Idle => inv[s].status # "succeeded"
  <2>1. thread[p] # Idle =>
          RowOf(p).status = "running" \/ RowOf(p) \in PriorRow
    BY DEF ThreadInv, ThreadOK
  <2> QED BY <1>1, <2>1 DEF PriorRow, NoRow
<1>3. CASE MarkLost(p)
  <2>1. /\ ThreadsIdle /\ ThreadsIdle'
        /\ finish_invocation_failure(s, "ambiguous")
    BY <1>3, MarkLostFacts
  <2>2. /\ UNCHANGED runVars /\ UNCHANGED ctlVars /\ UNCHANGED passVars
        /\ p \in prompts /\ pc = "begin"
    BY <1>3 DEF MarkLost
  <2>3. /\ inv[s].status = "running" /\ inv'[s].status = "failed"
        /\ inv'[s].prompt = inv[s].prompt
        /\ \A t \in Slot : t # s => inv'[t] = inv[t]
    BY <1>0, <2>1 DEF finish_invocation_failure
  <2>4. Settles(s) BY <2>3 DEF Settles
  <2>5. \A q \in Provider : thread'[q] = Idle /\ thread[q] = Idle
    BY <2>1 DEF ThreadsIdle
  <2> QED BY <1>3, <2>2, <2>3, <2>4, <2>5 DEF ctlVars, passVars
<1>4. CASE WorkerStep(p)
  <2>1. /\ Touches(p) /\ pc \in {"run", "draining"} /\ thread[p] # Idle
        /\ ~StartCall(p) => UNCHANGED storeVars
    BY <1>4, WorkerFacts
  <2>2. ThreadFrame
    BY <1>4 DEF WorkerStep, StartTooLate, StartCall, ReserveCall,
                CallTooLate, CallProvider
  <2>3. inv'[s] = inv[s] \/ Starts(s)
    <3>1. CASE StartCall(p)
      <4>1. start_invocation(s, PromptOf(stage)) BY <3>1 DEF StartCall
      <4>2. /\ inv[s].status \in {"none", "failed"}
            /\ inv'[s].status = "running"
            /\ inv'[s].prompt = PromptOf(stage)
        BY <1>0, <4>1 DEF start_invocation
      <4> QED BY <4>2 DEF Starts
    <3>2. CASE ~StartCall(p) BY <2>1, <3>2 DEF storeVars
    <3> QED BY <3>1, <3>2
  <2>4. inv'[s].status # "succeeded" BY <1>2, <2>1, <2>3 DEF Starts
  <2> QED BY <1>2, <2>1, <2>2, <2>3, <2>4
          DEF ThreadFrame, Touches, ctlVars, passVars
<1>5. CASE LeaseStep(p)
  <2>1. /\ Touches(p) /\ pc = "run" /\ UNCHANGED storeVars
        /\ thread[p].at = "done"
    BY <1>5, LeaseFacts
  <2>2. LeaseFrame BY <1>5 DEF LeaseStep, SettleLease, ReconcileFails
  <2>3. inv' = inv /\ thread[p] # Idle BY <2>1 DEF storeVars, Idle
  <2> QED BY <1>2, <2>1, <2>2, <2>3
          DEF LeaseFrame, Touches, ctlVars, passVars
<1>6. CASE SettleStep(p)
  <2>1. /\ Touches(p) /\ pc = "run" /\ thread'[p] = Idle
        /\ thread[p].at \in {"done", "accounted"}
    BY <1>6, SettleFacts
  <2>2. SettleFrame
    BY <1>6 DEF SettleStep, SettleUnstarted, SettleUndispatched,
                SettleSuccess, SettleTruncated, SettleFailure
  <2>3. thread[p] # Idle BY <2>1 DEF Idle
  <2>4. /\ inv'[s] = inv[s] \/ Settles(s) \/ GivenBack(s)
        /\ inv'[s].status = "succeeded" => p \in succ'
        /\ succ' = succ \/ succ' = succ \cup {p}
        /\ recoverable' = recoverable
             \/ (stage # "jury_repair" /\ recoverable' = recoverable \cup {p})
    <3>1. CASE SettleUnstarted(p)
      BY <1>2, <2>3, <3>1 DEF SettleUnstarted, storeVars
    <3>2. CASE SettleUndispatched(p)
      <4>1. /\ release_undispatched_invocation(s, prior[p])
            /\ succ' = succ /\ recoverable' = recoverable
        BY <3>2 DEF SettleUndispatched
      <4>2. /\ inv[s].status = "running" /\ inv'[s] = prior[p]
            /\ PriorFits(s, prior[p])
        BY <1>0, <4>1 DEF release_undispatched_invocation
      <4>3. \/ prior[p] = NoRow
            \/ prior[p].status = "failed" /\ prior[p].prompt = inv[s].prompt
        BY <4>2 DEF PriorFits
      <4> QED BY <4>1, <4>2, <4>3, NoRowFields DEF Settles, GivenBack
    <3>3. CASE SettleSuccess(p)
      <4>1. finish_invocation_success(s, thread[p].out)
            /\ succ' = succ \cup {p} /\ recoverable' = recoverable
        BY <3>3 DEF SettleSuccess
      <4>2. /\ inv[s].status = "running" /\ inv'[s].status = "succeeded"
            /\ inv'[s].prompt = inv[s].prompt
        BY <1>0, <4>1 DEF finish_invocation_success
      <4> QED BY <4>1, <4>2 DEF Settles
    <3>4. CASE SettleTruncated(p) \/ SettleFailure(p)
      <4>1. /\ \E error : finish_invocation_failure(s, error)
            /\ succ' = succ
            /\ recoverable' = recoverable
                 \/ (stage # "jury_repair"
                       /\ recoverable' = recoverable \cup {p})
        BY <3>4 DEF SettleTruncated, SettleFailure, MayRecover
      <4>2. /\ inv[s].status = "running" /\ inv'[s].status = "failed"
            /\ inv'[s].prompt = inv[s].prompt
        BY <1>0, <4>1 DEF finish_invocation_failure
      <4> QED BY <4>1, <4>2 DEF Settles
    <3> QED BY <1>6, <3>1, <3>2, <3>3, <3>4 DEF SettleStep
  <2> QED BY <1>2, <2>1, <2>2, <2>3, <2>4
          DEF SettleFrame, Touches, ctlVars
<1> QED BY <1>3, <1>4, <1>5, <1>6 DEF RowStep

(* The verdict follows the candidates, and no slot of a later stage exists *)
(* before its lock.                                                        *)
LockOrder ==
  /\ AdjudicationLocked => NamespaceLocked
  /\ \A s \in Slot : inv[s].status # "none" =>
       /\ s[1] # "proposal" => NamespaceLocked
       /\ s[1] = "synthesis" => AdjudicationLocked

(* Which locks the process holds where it is.                              *)
StageLocks ==
  /\ pc = "idle" => stage = "proposal"
  /\ stage # "proposal" => NamespaceLocked
  /\ stage = "synthesis" \/ pc = "synth" => AdjudicationLocked
  /\ stage \in {"jury", "jury_repair"} /\ pc # "synth" => ~AdjudicationLocked
  /\ pc = "adjudicate" => stage = "jury_repair"

(* A resume with locked candidates has no proposal left to ask for.        *)
LockedPass ==
  stage = "proposal" /\ NamespaceLocked =>
    /\ ThreadsIdle /\ recoverable = {}
    /\ prompts \subseteq nsLock.members

(* What the repair pass holds in memory is what its rows say.              *)
RepairPass ==
  stage = "jury_repair" =>
    /\ prompts \subseteq Repairable /\ RepairRows \subseteq prompts
    /\ succ \subseteq prompts /\ ~nested /\ recoverable = {}
    /\ pc # "begin" =>
         \A p \in prompts : RowOf(p).status = "succeeded" => p \in succ

PassInv ==
  /\ LockedPass /\ RepairPass
  /\ \A p \in Provider : thread[p] # Idle => p \in prompts
  /\ RepairRows \subseteq Repairable

LockInv == LockOrder /\ StageLocks /\ PromptStable /\ FrozenMembership

(* A locked run asks for no proposal, and records none of them as lost.    *)
LEMMA NoProposalStep ==
  ASSUME EngineBase, ThreadInv, LockInv, PassInv, NEW p \in Provider,
         RowStep(p)
  PROVE  ~(stage = "proposal" /\ NamespaceLocked)
<1> SUFFICES ASSUME stage = "proposal", NamespaceLocked PROVE FALSE
  OBVIOUS
<1>1. PICK s \in Slot : s = SlotOf(p) BY RowType
<1>2. /\ inv[s].status # "succeeded"
      /\ thread[p] # Idle \/ p \in prompts
  BY <1>1, RowMoves
<1>3. p \in nsLock.members
  BY <1>2 DEF PassInv, LockedPass, ThreadsIdle
<1>4. inv[s].response = "good"
  <2>1. s = <<"proposal", p>> BY <1>1 DEF SlotOf
  <2> QED BY <1>3, <2>1 DEF LockInv, FrozenMembership
<1> QED BY <1>2, <1>4 DEF EngineBase, StoreInv, RowShape

(* A good response is the response of an answered slot.                    *)
LEMMA GoodIsAnswered ==
  ASSUME EngineBase, NEW s \in Slot, inv[s].response \in {"good", "bad"}
  PROVE  inv[s].status = "succeeded"
  BY DEF EngineBase, StoreInv, RowShape

(* The slots of a provider.                                                *)
LEMMA StageSlots ==
  ASSUME NEW p \in Provider
  PROVE  /\ <<"proposal", p>> \in Slot /\ <<"jury", p>> \in Slot
         /\ <<"jury_repair", p>> \in Slot /\ <<"synthesis", p>> \in Slot
  BY SlotOfType DEF Stages

(* While slots that are answered stay so, no answer of a juror is lost.    *)
LEMMA RepairableGrows ==
  ASSUME EngineBase,
         \A t \in Slot : inv[t].status = "succeeded" => inv'[t] = inv[t]
  PROVE  Repairable \subseteq Repairable'
  BY StageSlots DEF Repairable, InvalidJuries, JuryResponses

(* Prompts and locks stay as they are in a row step.                       *)
LEMMA SamePrompts ==
  ASSUME UNCHANGED runVars
  PROVE  /\ \A st : PromptOf(st)' = PromptOf(st)
         /\ NamespaceLocked' = NamespaceLocked
         /\ AdjudicationLocked' = AdjudicationLocked
         /\ UNCHANGED <<nsLock, adjLock>>
  BY DEF runVars, PromptOf, NamespaceLocked, AdjudicationLocked

(* A call is started under the locks its prompt quotes.                    *)
LEMMA RowStepLocks ==
  ASSUME EngineBase, ThreadInv, LockInv, PassInv, NEW p \in Provider,
         RowStep(p)
  PROVE  LockInv'
<1>1. PICK s \in Slot : s = SlotOf(p) BY RowType
<1>2. /\ UNCHANGED runVars /\ UNCHANGED <<stage, pc>>
      /\ pc \in {"begin", "run", "draining"}
      /\ \A t \in Slot : t # s => inv'[t] = inv[t]
      /\ inv'[s] = inv[s] \/ Starts(s) \/ Settles(s) \/ GivenBack(s)
      /\ inv[s].status # "succeeded"
  BY <1>1, RowMoves
<1>3. /\ \A st : PromptOf(st)' = PromptOf(st)
      /\ NamespaceLocked' = NamespaceLocked
      /\ AdjudicationLocked' = AdjudicationLocked
      /\ UNCHANGED <<nsLock, adjLock>>
  BY <1>2, SamePrompts
<1>4. s[1] = stage BY <1>1 DEF SlotOf
<1>5. LockOrder'
  <2>1. /\ stage # "proposal" => NamespaceLocked
        /\ stage = "synthesis" => AdjudicationLocked
    BY DEF LockInv, StageLocks
  <2>2. ASSUME NEW t \in Slot, inv'[t].status # "none"
        PROVE  /\ t[1] # "proposal" => NamespaceLocked
               /\ t[1] = "synthesis" => AdjudicationLocked
    <3>1. CASE t = s BY <1>4, <2>1, <3>1
    <3>2. CASE t # s BY <1>2, <2>2, <3>2 DEF LockInv, LockOrder
    <3> QED BY <3>1, <3>2
  <2> QED BY <1>3, <2>2 DEF LockInv, LockOrder
<1>6. StageLocks' BY <1>2, <1>3 DEF LockInv, StageLocks
<1>7. PromptStable'
  <2>1. ASSUME NEW t \in Slot, inv'[t].status # "none"
        PROVE  inv'[t].prompt = PromptOf(t[1])
    <3>1. CASE inv'[t] = inv[t] BY <2>1, <3>1 DEF LockInv, PromptStable
    <3>2. CASE t = s /\ Starts(s) BY <1>4, <3>2 DEF Starts
    <3>3. CASE t = s /\ Settles(s)
      BY <3>3 DEF Settles, LockInv, PromptStable
    <3>4. CASE t = s /\ GivenBack(s)
      BY <2>1, <3>4, NoRowFields DEF GivenBack
    <3> QED BY <1>2, <3>1, <3>2, <3>3, <3>4
  <2> QED BY <1>3, <2>1 DEF PromptStable
<1>8. FrozenMembership'
  <2>1. ~(stage = "proposal" /\ NamespaceLocked) BY NoProposalStep
  <2>2. ASSUME NamespaceLocked, NEW q \in nsLock.members
        PROVE  inv'[<<"proposal", q>>].response = "good"
    <3>1. q \in Provider BY DEF EngineBase, RunTypeOK
    <3>2. PICK t \in Slot : t = <<"proposal", q>> BY <3>1, StageSlots
    <3>3. inv[t].response = "good"
      BY <2>2, <3>2 DEF LockInv, FrozenMembership
    <3>4. t # s BY <1>2, <3>3, GoodIsAnswered
    <3> QED BY <1>2, <3>2, <3>3, <3>4
  <2>3. ASSUME AdjudicationLocked
        PROVE  \A q \in Provider :
                 /\ inv'[<<"jury", q>>] = inv[<<"jury", q>>]
                 /\ inv'[<<"jury_repair", q>>] = inv[<<"jury_repair", q>>]
    <3>1. stage = "synthesis"
      <4>1. NamespaceLocked BY <2>3 DEF LockInv, LockOrder
      <4>2. stage \in Stages BY RowType
      <4> QED BY <1>2, <2>1, <2>3, <4>1, <4>2
              DEF LockInv, StageLocks, Stages
    <3>2. ASSUME NEW q \in Provider
          PROVE  /\ inv'[<<"jury", q>>] = inv[<<"jury", q>>]
                 /\ inv'[<<"jury_repair", q>>] = inv[<<"jury_repair", q>>]
      <4>1. \A t \in Slot : t[1] # "synthesis" => inv'[t] = inv[t]
        BY <1>2, <1>4, <3>1
      <4>2. PICK t \in Slot : t = <<"jury", q>> BY StageSlots
      <4>3. PICK u \in Slot : u = <<"jury_repair", q>> BY StageSlots
      <4>4. inv'[t] = inv[t] /\ inv'[u] = inv[u] BY <4>1, <4>2, <4>3
      <4> QED BY <4>2, <4>3, <4>4
    <3> QED BY <3>2
  <2>4. AdjudicationLocked =>
          /\ JuryResponses' = JuryResponses
          /\ InvalidJuries' = InvalidJuries
    BY <2>3 DEF JuryResponses, InvalidJuries
  <2>5. AdjudicationLocked' =>
          adjLock'.valid = (JuryResponses' \ InvalidJuries') \cup
                           {q \in InvalidJuries' :
                              inv'[<<"jury_repair", q>>].response = "good"}
    <3> SUFFICES ASSUME AdjudicationLocked
                 PROVE  adjLock.valid =
                          (JuryResponses \ InvalidJuries) \cup
                          {q \in InvalidJuries :
                             inv'[<<"jury_repair", q>>].response = "good"}
      BY <1>3, <2>4
    <3>1. {q \in InvalidJuries :
             inv'[<<"jury_repair", q>>].response = "good"}
           = {q \in InvalidJuries :
                inv[<<"jury_repair", q>>].response = "good"}
      BY <2>3 DEF InvalidJuries, JuryResponses
    <3> QED BY <3>1 DEF LockInv, FrozenMembership
  <2> QED BY <1>3, <2>2, <2>5 DEF FrozenMembership
<1> QED BY <1>5, <1>6, <1>7, <1>8 DEF LockInv

(* A repair is of a juror that was selected, and its success is noted.     *)
LEMMA RowStepPass ==
  ASSUME EngineBase, ThreadInv, LockInv, PassInv, NEW p \in Provider,
         RowStep(p)
  PROVE  PassInv'
<1>1. PICK s \in Slot : s = SlotOf(p) BY RowType
<1>2. /\ UNCHANGED runVars /\ UNCHANGED <<stage, pc, nested, prompts>>
      /\ \A t \in Slot : t # s => inv'[t] = inv[t]
      /\ inv[s].status # "succeeded"
      /\ inv'[s] = inv[s] \/ Starts(s) \/ Settles(s) \/ GivenBack(s)
      /\ inv'[s].status = "succeeded" => p \in succ'
      /\ \A q \in Provider : q # p => thread'[q] = thread[q]
      /\ thread[p] # Idle \/ p \in prompts
      /\ thread'[p] # Idle => thread[p] # Idle
      /\ succ' = succ \/ succ' = succ \cup {p}
      /\ recoverable' = recoverable
           \/ (stage # "jury_repair" /\ recoverable' = recoverable \cup {p})
  BY <1>1, RowMoves
<1>3. p \in prompts BY <1>2 DEF PassInv
<1>4. s = <<stage, p>> BY <1>1 DEF SlotOf
<1>5. LockedPass'
  <2>1. ~(stage = "proposal" /\ NamespaceLocked) BY NoProposalStep
  <2> QED BY <1>2, <2>1, SamePrompts DEF LockedPass
<1>6. Repairable \subseteq Repairable'
  <2>1. \A t \in Slot : inv[t].status = "succeeded" => inv'[t] = inv[t]
    BY <1>2
  <2> QED BY <2>1, RepairableGrows
<1>7. RepairRows' \subseteq RepairRows \cup
        (IF stage = "jury_repair" THEN {p} ELSE {})
  <2>1. ASSUME NEW q \in Provider, q # p \/ stage # "jury_repair"
        PROVE  inv'[<<"jury_repair", q>>] = inv[<<"jury_repair", q>>]
    BY <1>2, <1>4, <2>1, StageSlots
  <2> QED BY <2>1 DEF RepairRows
<1>8. RepairRows' \subseteq Repairable'
  BY <1>3, <1>6, <1>7 DEF PassInv, RepairPass
<1>9. RepairPass'
  <2> SUFFICES ASSUME stage = "jury_repair" PROVE RepairPass'
    BY <1>2 DEF RepairPass
  <2>1. /\ prompts \subseteq Repairable /\ RepairRows \subseteq prompts
        /\ succ \subseteq prompts /\ ~nested /\ recoverable = {}
        /\ pc # "begin" =>
             \A q \in prompts : RowOf(q).status = "succeeded" => q \in succ
    BY DEF PassInv, RepairPass
  <2>2. /\ prompts' \subseteq Repairable' /\ RepairRows' \subseteq prompts'
        /\ succ' \subseteq prompts' /\ ~nested' /\ recoverable' = {}
    BY <1>2, <1>3, <1>6, <1>7, <2>1
  <2>3. ASSUME pc # "begin", NEW q \in prompts,
               RowOf(q)'.status = "succeeded"
        PROVE  q \in succ'
    <3>1. q \in Provider BY DEF EngineBase, PassTypeOK
    <3>2. PICK t \in Slot : t = <<stage, q>> /\ t = SlotOf(q)
      BY <3>1, RowType DEF SlotOf
    <3>3. RowOf(q)' = inv'[t] /\ RowOf(q) = inv[t]
      BY <1>2, <3>2 DEF RowOf
    <3>4. CASE q = p BY <1>2, <1>4, <2>3, <3>2, <3>3, <3>4
    <3>5. CASE q # p
      <4>1. t # s BY <1>4, <3>2, <3>5
      <4> QED BY <1>2, <2>1, <2>3, <3>3, <4>1
    <3> QED BY <3>4, <3>5
  <2> QED BY <1>2, <2>2, <2>3 DEF RepairPass
<1> QED BY <1>2, <1>3, <1>5, <1>8, <1>9 DEF PassInv

----------------------------------------------------------------------------
(* The steps of the main thread between two passes.                        *)

(* Steps that keep the rows, the locks and the pass: the deadline, an      *)
(* interrupt, an audit event, the end of a pass or of a synthesis attempt. *)
Keeps ==
  /\ UNCHANGED <<inv, retryEvents, nsLock, adjLock, stage, prompts, prior,
                 succ, recoverable, fail, failedSlots, thread>>
  /\ nested' \in {nested, FALSE}
  /\ pos' = pos \/ pc' = "synth"
  /\ \/ pc' = pc
     \/ pc = "run" /\ pc' = "draining"
     \/ /\ pc = "run" /\ recoverable = {}
        /\ \/ pc' = "adjudicate" /\ stage = "jury_repair"
           \/ pc' = "synth" /\ stage = "synthesis"

(* The process is gone: killed, drained, or done with the run.             *)
Ends == ProcessEnds /\ UNCHANGED <<inv, nsLock, adjLock>>

(* Every step is a row step, or one of the main thread's.                  *)
LEMMA LockKinds ==
  ASSUME [EngineNext]_vars
  PROVE  \/ Keeps \/ Ends \/ Resume \/ BeginStage \/ StartRecovery
         \/ ProposalsDone \/ SelectRepairs \/ Adjudicate \/ NextSynthesis
         \/ \E p \in Provider : RowStep(p)
<1>1. CASE UNCHANGED vars
  BY <1>1 DEF vars, storeVars, runVars, ctlVars, passVars, Keeps
<1>2. CASE Expire \/ Interrupt
  BY <1>2 DEF Expire, Interrupt, storeVars, runVars, passVars, Keeps
<1>3. CASE \E p \in Provider : WriteRecovery(p) \/ WriteRepair(p)
  BY <1>3 DEF WriteRecovery, WriteRepair, storeVars, ctlVars, Keeps
<1>4. CASE EndRecovery \/ RepairsDone \/ SynthesisFallback
  BY <1>4 DEF EndRecovery, RepairsDone, SynthesisFallback, StageReturns,
              PassSettled, storeVars, runVars, passVars, Keeps
<1>5. CASE Crash \/ Drained
  BY <1>5 DEF Crash, Drained, storeVars, runVars, Ends
<1>6. CASE \/ ProposalsShort \/ JuriesShort \/ SynthesisTooLate
           \/ SynthesisDone \/ SynthesisFails
  BY <1>6 DEF ProposalsShort, JuriesShort, SynthesisTooLate, SynthesisDone,
              SynthesisFails, Finish, storeVars, Ends
<1>7. CASE \E p \in Provider : WorkerStep(p) BY <1>7 DEF RowStep
<1>8. CASE MainStep
  BY <1>3, <1>4, <1>6, <1>8 DEF MainStep, RowStep, LeaseStep, SettleStep
<1> QED BY <1>1, <1>2, <1>5, <1>7, <1>8 DEF EngineNext

(* As long as the rows and the locks stay, only the place can go wrong.    *)
LEMMA SameLocks ==
  ASSUME LockInv, UNCHANGED <<inv, nsLock, adjLock>>, StageLocks'
  PROVE  LockInv'
<1>1. LockOrder'
  BY DEF LockInv, LockOrder, NamespaceLocked, AdjudicationLocked
<1>2. PromptStable' BY DEF LockInv, PromptStable, PromptOf
<1>3. FrozenMembership'
  BY DEF LockInv, FrozenMembership, NamespaceLocked, AdjudicationLocked,
         JuryResponses, InvalidJuries
<1> QED BY <1>1, <1>2, <1>3 DEF LockInv

(* The juries to repair are read off the rows.                             *)
LEMMA SameRepairs ==
  inv' = inv => Repairable' = Repairable /\ RepairRows' = RepairRows
  BY DEF Repairable, RepairRows, InvalidJuries, JuryResponses

(* A stage other than proposal and jury_repair starts with no thread.      *)
LEMMA FreshPass ==
  ASSUME PassInv, ThreadsIdle', inv' = inv,
         LockedPass', stage' # "jury_repair"
  PROVE  PassInv'
<1>1. Repairable' = Repairable /\ RepairRows' = RepairRows BY SameRepairs
<1>2. \A p \in Provider : thread'[p] = Idle BY DEF ThreadsIdle
<1> QED BY <1>1, <1>2 DEF PassInv, RepairPass

(* Steps that change neither rows nor locks keep the invariant,            *)
LEMMA KeepsLocks ==
  ASSUME LockInv, PassInv, Keeps
  PROVE  LockInv' /\ PassInv'
<1>1. StageLocks'
  BY DEF Keeps, LockInv, StageLocks, NamespaceLocked, AdjudicationLocked
<1>2. LockInv' BY <1>1, SameLocks DEF Keeps
<1>3. Repairable' = Repairable /\ RepairRows' = RepairRows
  BY SameRepairs DEF Keeps
<1>4. LockedPass'
  BY DEF Keeps, PassInv, LockedPass, NamespaceLocked, ThreadsIdle
<1>5. RepairPass'
  <2>1. /\ UNCHANGED <<stage, prompts, succ, recoverable>>
        /\ pc' # "begin" => pc # "begin"
    BY DEF Keeps
  <2>2. nested' = nested \/ nested' = FALSE BY DEF Keeps
  <2>3. \A p : RowOf(p)' = RowOf(p) BY DEF Keeps, RowOf
  <2> QED BY <1>3, <2>1, <2>2, <2>3 DEF PassInv, RepairPass
<1> QED BY <1>2, <1>3, <1>4, <1>5 DEF Keeps, PassInv

(* as does the end of the process,                                         *)
LEMMA EndsLocks ==
  ASSUME LockInv, PassInv, Ends
  PROVE  LockInv' /\ PassInv'
<1>1. /\ stage' = "proposal" /\ pc' = "idle" /\ prompts' = {}
      /\ recoverable' = {}
  BY DEF Ends, ProcessEnds
<1>2. ThreadsIdle' BY ProcessEndsIdle DEF Ends
<1>3. StageLocks'
  BY <1>1 DEF Ends, LockInv, LockOrder, StageLocks, AdjudicationLocked,
              NamespaceLocked
<1>4. LockedPass' BY <1>1, <1>2 DEF LockedPass
<1> QED BY <1>1, <1>2, <1>3, <1>4, SameLocks, FreshPass DEF Ends

(* the next one, which asks locked members only,                           *)
LEMMA ResumeLocks ==
  ASSUME ThreadInv, LockInv, PassInv, Resume
  PROVE  LockInv' /\ PassInv'
<1>1. /\ stage' = "proposal" /\ pc' = "begin" /\ recoverable' = {}
      /\ prompts' = Proposers /\ UNCHANGED <<inv, nsLock, adjLock, thread>>
      /\ pc = "idle"
  BY DEF Resume, StartResume, EnterStage, storeVars
<1>2. ThreadsIdle' BY <1>1, SameIdle DEF ThreadInv
<1>3. StageLocks'
  BY <1>1 DEF LockInv, LockOrder, StageLocks, AdjudicationLocked,
              NamespaceLocked
<1>4. LockedPass'
  BY <1>1, <1>2 DEF LockedPass, Proposers, NamespaceLocked
<1> QED BY <1>1, <1>2, <1>3, <1>4, SameLocks, FreshPass

(* and a synthesis attempt, made under the verdict.                        *)
LEMMA NextSynthesisLocks ==
  ASSUME ThreadInv, LockInv, PassInv, NextSynthesis
  PROVE  LockInv' /\ PassInv'
<1>1. /\ stage' = "synthesis" /\ pc' = "begin"
      /\ UNCHANGED <<inv, nsLock, adjLock, thread>> /\ pc = "synth"
  BY DEF NextSynthesis, EnterStage, storeVars, runVars
<1>2. ThreadsIdle' BY <1>1, SameIdle DEF ThreadInv
<1>3. StageLocks'
  BY <1>1 DEF LockInv, LockOrder, StageLocks, AdjudicationLocked,
              NamespaceLocked
<1>4. LockedPass' BY <1>1 DEF LockedPass
<1> QED BY <1>1, <1>2, <1>3, <1>4, SameLocks, FreshPass

(* Earlier repairs are selected again, so their rows stay in the pass.     *)
LEMMA SelectRepairsLocks ==
  ASSUME LockInv, PassInv, SelectRepairs
  PROVE  LockInv' /\ PassInv'
<1>1. /\ stage' = "jury_repair" /\ pc' = "begin" /\ nested' = FALSE
      /\ recoverable' = {} /\ succ' = {} /\ stage = "jury" /\ pc = "run"
      /\ UNCHANGED <<inv, nsLock, adjLock, thread>> /\ ThreadsIdle
      /\ \E fresh \in SUBSET (Repairable \ RepairRows) :
           prompts' = (Repairable \cap RepairRows) \cup fresh
  BY DEF SelectRepairs, EnterStage, StageReturns, PassSettled, storeVars,
         runVars
<1>2. \A p \in Provider : thread'[p] = Idle
  BY <1>1 DEF ThreadsIdle
<1>3. StageLocks'
  BY <1>1 DEF LockInv, LockOrder, StageLocks, AdjudicationLocked,
              NamespaceLocked
<1>4. Repairable' = Repairable /\ RepairRows' = RepairRows
  BY <1>1, SameRepairs
<1>5. RepairPass' BY <1>1, <1>4 DEF PassInv, RepairPass
<1>6. LockedPass' BY <1>1 DEF LockedPass
<1> QED BY <1>1, <1>2, <1>3, <1>4, <1>5, <1>6, SameLocks DEF PassInv

(* The candidates are locked by a quorum, and while no later slot exists.  *)
LEMMA ProposalsDoneLocks ==
  ASSUME EngineBase, LockInv, PassInv, ProposalsDone
  PROVE  LockInv' /\ PassInv'
<1>1. /\ stage = "proposal" /\ pc = "run" /\ ThreadsIdle /\ recoverable = {}
      /\ UNCHANGED <<inv, adjLock, thread>>
      /\ nsLock' = IF NamespaceLocked THEN nsLock
                   ELSE [members |-> Proposals,
                         failed |-> Provider \ Proposals]
      /\ ~NamespaceLocked => QuorumMet(Proposals)
  BY DEF ProposalsDone, StageReturns, PassSettled, storeVars
<1>2. NamespaceLocked'
  <2>1. CASE NamespaceLocked BY <1>1, <2>1 DEF NamespaceLocked
  <2>2. CASE ~NamespaceLocked
    <3>1. Cardinality(Proposals) >= ProposalQuorum /\ ProposalQuorum >= 1
          /\ Cardinality(Provider) \in Nat
      BY <1>1, <2>2, EngineAssumption, TokensFinite DEF QuorumMet
    <3>2. Proposals # {}
      <4>1. Cardinality({}) = 0 BY FS_EmptySet
      <4>2. ProposalQuorum \in Nat
        BY <3>1, EngineAssumption
      <4> QED BY <3>1, <4>1, <4>2
    <3> QED BY <1>1, <2>2, <3>2 DEF NamespaceLocked, NoNamespace
  <2> QED BY <2>1, <2>2
<1>3. AdjudicationLocked' = AdjudicationLocked BY <1>1 DEF AdjudicationLocked
<1>4. \/ /\ AdjudicationLocked /\ pc' = "synth"
         /\ UNCHANGED <<stage, recoverable, prompts>>
      \/ /\ ~AdjudicationLocked /\ pc' = "begin" /\ stage' = "jury"
  BY DEF ProposalsDone, JuryDecided, EnterStage, passVars
<1>5. ThreadsIdle' BY <1>1, SameIdle
<1>6. AdjudicationLocked => NamespaceLocked /\ nsLock' = nsLock
  BY <1>1 DEF LockInv, LockOrder
<1>7. LockedPass'
  BY <1>4, <1>5, <1>6, <1>1 DEF PassInv, LockedPass
<1>8. PassInv' BY <1>1, <1>4, <1>5, <1>7, FreshPass
<1>9. StageLocks' BY <1>1, <1>2, <1>3, <1>4 DEF StageLocks
<1>10. LockInv'
  <2>1. CASE NamespaceLocked
    BY <1>1, <1>9, <2>1, SameLocks
  <2>2. CASE ~NamespaceLocked
    <3>1. LockOrder' BY <1>1, <1>2, <1>3, <2>2 DEF LockInv, LockOrder
    <3>2. PromptStable'
      <4>1. ASSUME NEW s \in Slot, inv'[s].status # "none"
            PROVE  inv'[s].prompt = PromptOf(s[1])'
        <5>1. s[1] = "proposal" BY <1>1, <2>2, <4>1 DEF LockInv, LockOrder
        <5>2. PromptOf("proposal")' = PromptOf("proposal")
          BY <1>1 DEF PromptOf
        <5>3. inv[s].prompt = PromptOf("proposal")
          BY <1>1, <4>1, <5>1 DEF LockInv, PromptStable
        <5> QED BY <1>1, <5>1, <5>2, <5>3
      <4> QED BY <4>1 DEF PromptStable
    <3>3. FrozenMembership'
      <4>1. \A p \in Proposals : inv[<<"proposal", p>>].response = "good"
        BY <1>1 DEF Proposals, RowOf
      <4>2. nsLock'.members = Proposals BY <1>1, <2>2
      <4>3. ~AdjudicationLocked' BY <1>3, <1>6, <2>2
      <4> QED BY <1>1, <4>1, <4>2, <4>3 DEF FrozenMembership
    <3> QED BY <1>9, <3>1, <3>2, <3>3 DEF LockInv
  <2> QED BY <2>1, <2>2
<1> QED BY <1>8, <1>10

(* Answered slots are not called; no thread starts for a locked proposal.  *)
LEMMA BeginLocks ==
  ASSUME EngineBase, LockInv, PassInv, BeginStage
  PROVE  LockInv' /\ PassInv'
<1>1. /\ pc = "begin" /\ pc' = "run"
      /\ UNCHANGED <<inv, nsLock, adjLock, stage, nested, prompts,
                     recoverable>>
      /\ succ' = succ \cup {p \in prompts : RowOf(p).status = "succeeded"}
  BY DEF BeginStage, storeVars, runVars
<1>2. PICK allowed \in SUBSET Work :
        thread' = [p \in Provider |->
                     IF p \in allowed
                     THEN [at |-> "queued", out |-> "none"] ELSE Idle]
  BY BeginFacts
<1>3. \A p \in Work : p \in prompts /\ RowOf(p).status # "succeeded"
  BY DEF Work
<1>4. \A p \in Provider : thread'[p] # Idle => p \in prompts'
  BY <1>1, <1>2, <1>3
<1>5. StageLocks'
  BY <1>1 DEF LockInv, StageLocks, NamespaceLocked, AdjudicationLocked
<1>6. Repairable' = Repairable /\ RepairRows' = RepairRows
  BY <1>1, SameRepairs
<1>7. LockedPass'
  <2> SUFFICES ASSUME stage = "proposal", NamespaceLocked
               PROVE  LockedPass'
    BY <1>1 DEF LockedPass, NamespaceLocked
  <2>1. recoverable = {} /\ prompts \subseteq nsLock.members
    BY DEF PassInv, LockedPass
  <2>2. ASSUME NEW p \in Work PROVE FALSE
    <3>1. p \in nsLock.members /\ p \in Provider
      BY <1>3, <2>1 DEF EngineBase, PassTypeOK
    <3>2. RowOf(p).response = "good"
      BY <3>1 DEF LockInv, FrozenMembership, RowOf
    <3>3. RowOf(p) = inv[SlotOf(p)] /\ SlotOf(p) \in Slot BY <3>1, RowType
    <3>4. RowOf(p).status = "succeeded" BY <3>2, <3>3, GoodIsAnswered
    <3> QED BY <1>3, <3>4
  <2>3. ThreadsIdle' BY <1>2, <2>2 DEF ThreadsIdle
  <2> QED BY <1>1, <2>1, <2>3 DEF LockedPass
<1>8. RepairPass'
  <2>1. \A p : RowOf(p)' = RowOf(p) BY <1>1 DEF RowOf
  <2> QED BY <1>1, <1>6, <2>1 DEF PassInv, RepairPass
<1> QED BY <1>1, <1>4, <1>5, <1>6, <1>7, <1>8, SameLocks DEF PassInv

(* There is nothing to recover in a locked proposal or in a repair.        *)
LEMMA StartRecoveryLocks ==
  ASSUME EngineBase, LockInv, PassInv, StartRecovery
  PROVE  LockInv' /\ PassInv'
<1>1. /\ pc = "run" /\ pc' \in {"begin", "run"} /\ ThreadsIdle
      /\ recoverable # {} /\ recoverable' = {}
      /\ UNCHANGED <<inv, nsLock, adjLock, stage, thread>>
  BY DEF StartRecovery, PassSettled, storeVars, runVars
<1>2. StageLocks'
  BY <1>1 DEF LockInv, StageLocks, NamespaceLocked, AdjudicationLocked
<1>3. LockedPass'
  BY <1>1 DEF PassInv, LockedPass, NamespaceLocked
<1>4. stage' # "jury_repair" BY <1>1 DEF PassInv, RepairPass
<1>5. ThreadsIdle' BY <1>1, SameIdle
<1> QED BY <1>1, <1>2, <1>3, <1>4, <1>5, SameLocks, FreshPass

(* The verdict is locked by a quorum, while no synthesis slot exists, and  *)
(* it is the one the stored rows give.                                     *)
LEMMA AdjudicateLocks ==
  ASSUME EngineBase, ThreadInv, LockInv, PassInv, Adjudicate
  PROVE  LockInv' /\ PassInv'
<1>1. /\ pc = "adjudicate" /\ pc' = "synth"
      /\ UNCHANGED <<inv, nsLock, stage, nested, prompts, succ, recoverable,
                     thread>>
      /\ Cardinality(ValidJuries) >= JuryQuorum
      /\ adjLock' = [valid |-> ValidJuries,
                     invalid |-> InvalidJuries \ Repaired,
                     failed |-> Provider \ ValidJuries]
  BY DEF Adjudicate, storeVars, passVars
<1>2. stage = "jury_repair" /\ NamespaceLocked /\ ~AdjudicationLocked
  BY <1>1 DEF LockInv, StageLocks
<1>3. AdjudicationLocked'
  <2>1. Cardinality({}) = 0 /\ JuryQuorum \in Nat /\ JuryQuorum >= 1
    <3>1. JuryQuorum \in 1 .. Cardinality(Provider)
          /\ Cardinality(Provider) \in Nat
      BY EngineAssumption, TokensFinite
    <3> QED BY <3>1, FS_EmptySet
  <2>2. ValidJuries # {} BY <1>1, <2>1
  <2> QED BY <1>1, <2>2 DEF AdjudicationLocked, NoVerdict
<1>4. NamespaceLocked' BY <1>1, <1>2 DEF NamespaceLocked
<1>5. LockOrder' BY <1>1, <1>2, <1>3, <1>4 DEF LockOrder
<1>6. StageLocks' BY <1>1, <1>2, <1>3, <1>4 DEF StageLocks
<1>7. PromptStable'
  <2>1. ASSUME NEW s \in Slot, inv'[s].status # "none"
        PROVE  inv'[s].prompt = PromptOf(s[1])'
    <3>1. s[1] # "synthesis"
      BY <1>1, <1>2, <2>1 DEF LockInv, LockOrder
    <3>2. PromptOf(s[1])' = PromptOf(s[1]) BY <1>1, <3>1 DEF PromptOf
    <3>3. inv[s].prompt = PromptOf(s[1])
      BY <1>1, <2>1 DEF LockInv, PromptStable
    <3> QED BY <1>1, <3>2, <3>3
  <2> QED BY <2>1 DEF PromptStable
<1>8. Repaired = {p \in InvalidJuries :
                    inv[<<"jury_repair", p>>].response = "good"}
  <2>1. RepairPass BY DEF PassInv
  <2>2. ASSUME NEW p \in succ
        PROVE  p \in InvalidJuries
    BY <1>2, <2>1 DEF RepairPass, Repairable
  <2>3. ASSUME NEW p \in InvalidJuries,
               inv[<<"jury_repair", p>>].response = "good"
        PROVE  p \in succ
    <3>1. p \in Provider BY DEF InvalidJuries, JuryResponses
    <3>2. PICK s \in Slot : s = <<"jury_repair", p>> BY <3>1, StageSlots
    <3>3. inv[s].status = "succeeded" BY <2>3, <3>2, GoodIsAnswered
    <3>4. p \in RepairRows BY <3>1, <3>2, <3>3 DEF RepairRows
    <3>5. RowOf(p) = inv[s] BY <1>2, <3>2 DEF RowOf
    <3> QED BY <1>1, <1>2, <2>1, <3>3, <3>4, <3>5 DEF RepairPass
  <2>4. \A p : RowOf(p) = inv[<<"jury_repair", p>>] BY <1>2 DEF RowOf
  <2> QED BY <2>2, <2>3, <2>4 DEF Repaired
<1>9. FrozenMembership'
  <2>1. JuryResponses' = JuryResponses /\ InvalidJuries' = InvalidJuries
    BY <1>1 DEF JuryResponses, InvalidJuries
  <2>2. adjLock'.valid = ValidJuries BY <1>1
  <2>3. \A p \in nsLock'.members :
          inv'[<<"proposal", p>>].response = "good"
    BY <1>1, <1>2 DEF LockInv, FrozenMembership
  <2>4. adjLock'.valid
          = (JuryResponses' \ InvalidJuries') \cup
            {p \in InvalidJuries' :
               inv'[<<"jury_repair", p>>].response = "good"}
    BY <1>1, <1>8, <2>1, <2>2 DEF ValidJuries
  <2> QED BY <2>3, <2>4 DEF FrozenMembership
<1>10. PassInv'
  <2>1. Repairable' = Repairable /\ RepairRows' = RepairRows
    BY <1>1, SameRepairs
  <2>2. RepairPass' BY <1>1, <2>1 DEF PassInv, RepairPass, RowOf
  <2>3. LockedPass' BY <1>1, <1>2 DEF LockedPass
  <2> QED BY <1>1, <2>1, <2>2, <2>3 DEF PassInv
<1> QED BY <1>5, <1>6, <1>7, <1>9, <1>10 DEF LockInv

(* A new run has no lock and no row that would need one.                   *)
LEMMA InitLocks == EngineInit => LockInv /\ PassInv
<1> SUFFICES ASSUME EngineInit PROVE LockInv /\ PassInv OBVIOUS
<1>1. /\ \A s \in Slot : inv[s].status = "none"
      /\ nsLock = NoNamespace /\ adjLock = NoVerdict
      /\ pc = "idle" /\ stage = "proposal" /\ prompts = {}
      /\ recoverable = {} /\ \A p \in Provider : thread[p] = Idle
  BY NoRowFields DEF EngineInit, StoreInit
<1>2. ~NamespaceLocked /\ ~AdjudicationLocked
  BY <1>1 DEF NamespaceLocked, AdjudicationLocked
<1>3. RepairRows = {} BY <1>1, StageSlots DEF RepairRows
<1>4. FrozenMembership BY <1>2 DEF FrozenMembership
<1> QED BY <1>1, <1>2, <1>3, <1>4
        DEF LockInv, LockOrder, StageLocks, PromptStable, PassInv,
            LockedPass, RepairPass, ThreadsIdle

(* Every step keeps the locks.                                             *)
LEMMA NextLocks ==
  ASSUME EngineBase, ThreadInv, LockInv, PassInv, [EngineNext]_vars
  PROVE  LockInv' /\ PassInv'
<1>1. ASSUME NEW p \in Provider, RowStep(p) PROVE LockInv' /\ PassInv'
  BY <1>1, RowStepLocks, RowStepPass
<1> QED BY <1>1, LockKinds, KeepsLocks, EndsLocks, ResumeLocks, BeginLocks,
           StartRecoveryLocks, ProposalsDoneLocks, SelectRepairsLocks,
           AdjudicateLocks, NextSynthesisLocks

(* The invariant behind the locks, over all crashes and resumes.           *)
THEOREM LocksHold == EngineSpec => [](LockInv /\ PassInv)
<1>1. EngineInit => LockInv /\ PassInv BY InitLocks
<1>2. EngineBase /\ ThreadInv /\ LockInv /\ PassInv /\ [EngineNext]_vars
        => (LockInv /\ PassInv)'
  BY NextLocks
<1> QED BY <1>1, <1>2, ThreadInvHolds, PTL DEF EngineSpec

(* PromptsNeverChange: start_invocation never meets a failed row with      *)
(* another prompt, which it would raise on.                                *)
THEOREM PromptsNeverChange == EngineSpec => []PromptStable
<1>1. LockInv => PromptStable BY DEF LockInv
<1> QED BY <1>1, LocksHold, PTL

(* MembershipFrozen: a resume recovers exactly the locked candidates from  *)
(* the stored proposals, and the locked verdict is the stored juries'.     *)
THEOREM MembershipFrozen == EngineSpec => []FrozenMembership
<1>1. LockInv => FrozenMembership BY DEF LockInv
<1> QED BY <1>1, LocksHold, PTL

(* What a step of a run whose verdict is locked leaves alone.              *)
ClosedStep ==
  AdjudicationLocked =>
    /\ adjLock' = adjLock /\ nsLock' = nsLock
    /\ \A s \in Slot : s[1] # "synthesis" => inv'[s] = inv[s]

(* With a verdict only a synthesis row can be the subject of a step.       *)
LEMMA StagesCloseStep ==
  ASSUME EngineBase, ThreadInv, LockInv, PassInv, [EngineNext]_vars
  PROVE  ClosedStep
<1> SUFFICES ASSUME AdjudicationLocked PROVE ClosedStep
  BY DEF ClosedStep
<1>1. NamespaceLocked BY DEF LockInv, LockOrder
<1>2. CASE \E p \in Provider : RowStep(p)
  <2>1. PICK p \in Provider : RowStep(p) BY <1>2
  <2>2. PICK s \in Slot : s = SlotOf(p) BY RowType
  <2>3. /\ UNCHANGED runVars /\ pc \in {"begin", "run", "draining"}
        /\ \A t \in Slot : t # s => inv'[t] = inv[t]
    BY <2>1, <2>2, RowMoves
  <2>4. stage = "synthesis"
    BY <1>1, <2>1, <2>3, NoProposalStep, RowType
    DEF LockInv, StageLocks, Stages
  <2>5. s[1] = "synthesis" BY <2>2, <2>4 DEF SlotOf
  <2> QED BY <2>3, <2>5 DEF ClosedStep, runVars
<1>3. CASE Keeps \/ Ends BY <1>3 DEF Keeps, Ends, ClosedStep
<1>4. CASE Resume \/ BeginStage \/ StartRecovery
  BY <1>4 DEF Resume, StartResume, BeginStage, StartRecovery, storeVars,
              runVars, ClosedStep
<1>5. CASE ProposalsDone \/ SelectRepairs \/ NextSynthesis
  BY <1>1, <1>5 DEF ProposalsDone, SelectRepairs, NextSynthesis, storeVars,
                    runVars, ClosedStep
<1>6. CASE Adjudicate BY <1>6 DEF Adjudicate, LockInv, StageLocks
<1> QED BY <1>2, <1>3, <1>4, <1>5, <1>6, LockKinds

(* EarlierStagesClose: after the verdict is locked, no step of any process *)
(* starts, retries, settles or loses a call of an earlier stage.           *)
THEOREM EarlierStagesClose == EngineSpec => StagesClose
<1>1. EngineBase /\ ThreadInv /\ LockInv /\ PassInv /\ [EngineNext]_vars
        => [ClosedStep]_vars
  BY StagesCloseStep
<1>2. [ClosedStep]_vars =>
        [AdjudicationLocked =>
           /\ adjLock' = adjLock /\ nsLock' = nsLock
           /\ \A s \in Slot : s[1] # "synthesis" => inv'[s] = inv[s]]_vars
  BY DEF ClosedStep
<1> QED BY <1>1, <1>2, ThreadInvHolds, LocksHold, PTL
        DEF EngineSpec, StagesClose

----------------------------------------------------------------------------
(* The synthesis attempts: which rows they have, and what is kept back for *)
(* those still to come.                                                    *)

(* The synthesis provider after the recorded fallbacks.                    *)
Current == Synth[CurrentSynthesis]
CurrentRow == inv[<<"synthesis", Current>>]

(* Synthesis rows belong to the attempts made so far, and no attempt that  *)
(* was given up has an answer.                                             *)
SynthRows ==
  /\ \A p \in Provider : inv[<<"synthesis", p>>].status # "none" =>
       \E i \in 1 .. Len(fallbacks) + 1 : p = Synth[i]
  /\ \A i \in 1 .. Len(fallbacks) :
       inv[<<"synthesis", Synth[i]>>].status # "succeeded"

(* A synthesis pass asks the current provider, and notes its answer.       *)
SynthPass ==
  stage = "synthesis" /\ pc # "synth" =>
    /\ prompts = {Current} /\ recoverable \subseteq prompts
    /\ pc # "begin" /\ CurrentRow.status = "succeeded" => Current \in succ

SynthInv == SynthRows /\ SynthPass

(* There is a current synthesis provider; a running process is at it.      *)
LEMMA CurrentType ==
  ASSUME EngineBase
  PROVE  /\ Len(fallbacks) \in Nat /\ Len(Synth) \in Nat
         /\ CurrentSynthesis = Len(fallbacks) + 1
         /\ CurrentSynthesis \in 1 .. Len(Synth)
         /\ Current \in Provider /\ <<"synthesis", Current>> \in Slot
         /\ pc # "idle" => pos = CurrentSynthesis /\ Synthesizer = Current
<1>1. Len(fallbacks) \in Nat /\ Len(fallbacks) < Len(Synth)
  BY DEF EngineBase, RunTypeOK, PositionOK
<1>2. CurrentSynthesis \in 1 .. Len(Synth)
  BY <1>1, SynthType DEF CurrentSynthesis
<1>3. Current \in Provider BY <1>2, SynthType DEF Current
<1> QED BY <1>1, <1>2, <1>3, SynthType, StageSlots
        DEF EngineBase, PositionOK, CurrentSynthesis, Current, Synthesizer

(* The providers of two positions differ.                                  *)
LEMMA PositionsDiffer ==
  ASSUME NEW i \in 1 .. Len(Synth), NEW j \in 1 .. Len(Synth),
         Synth[i] = Synth[j]
  PROVE  i = j
  BY EngineAssumption

(* Rows and fallbacks change in row steps and in SynthesisFallback only.   *)
LEMMA SynthKinds ==
  ASSUME [EngineNext]_vars
  PROVE  \/ UNCHANGED <<inv, fallbacks>>
         \/ UNCHANGED inv /\ SynthesisFallback
         \/ \E p \in Provider : RowStep(p)
<1>1. CASE UNCHANGED vars BY <1>1 DEF vars, storeVars, runVars
<1>2. CASE Expire \/ Interrupt \/ Crash \/ Drained
  BY <1>2 DEF Expire, Interrupt, Crash, Drained, storeVars, runVars
<1>3. CASE Resume BY <1>3 DEF Resume, StartResume, storeVars
<1>4. CASE \E p \in Provider : WriteRecovery(p) \/ WriteRepair(p)
  BY <1>4 DEF WriteRecovery, WriteRepair, storeVars
<1>5. CASE BeginStage \/ StartRecovery \/ EndRecovery \/ RepairsDone
  BY <1>5 DEF BeginStage, StartRecovery, EndRecovery, RepairsDone,
              storeVars, runVars
<1>6. CASE \/ ProposalsShort \/ JuriesShort \/ SynthesisTooLate
           \/ SynthesisDone \/ SynthesisFails
  BY <1>6 DEF ProposalsShort, JuriesShort, SynthesisTooLate, SynthesisDone,
              SynthesisFails, Finish, storeVars
<1>7. CASE ProposalsDone \/ SelectRepairs \/ Adjudicate \/ NextSynthesis
  BY <1>7 DEF ProposalsDone, SelectRepairs, Adjudicate, NextSynthesis,
              storeVars, runVars
<1>8. CASE SynthesisFallback BY <1>8 DEF SynthesisFallback, storeVars
<1>9. CASE \E p \in Provider : WorkerStep(p) BY <1>9 DEF RowStep
<1>10. CASE MainStep
  BY <1>4, <1>5, <1>6, <1>7, <1>8, <1>10
  DEF MainStep, RowStep, LeaseStep, SettleStep
<1> QED BY <1>1, <1>2, <1>3, <1>9, <1>10 DEF EngineNext

(* In a synthesis pass only the current row moves.                         *)
LEMMA SynthesisRowStep ==
  ASSUME EngineBase, ThreadInv, PassInv, SynthInv, NEW p \in Provider,
         RowStep(p)
  PROVE  /\ UNCHANGED runVars /\ UNCHANGED <<stage, pc, prompts>>
         /\ Current' = Current
         /\ stage = "synthesis" => p = Current
         /\ \A q \in Provider : stage # "synthesis" \/ q # Current =>
              inv'[<<"synthesis", q>>] = inv[<<"synthesis", q>>]
<1>1. PICK s \in Slot : s = SlotOf(p) BY RowType
<1>2. /\ UNCHANGED runVars /\ UNCHANGED <<stage, pc, prompts>>
      /\ pc \in {"begin", "run", "draining"}
      /\ \A t \in Slot : t # s => inv'[t] = inv[t]
      /\ thread[p] # Idle \/ p \in prompts
  BY <1>1, RowMoves
<1>3. Current' = Current BY <1>2 DEF Current, CurrentSynthesis, runVars
<1>4. stage = "synthesis" => p = Current
  BY <1>2 DEF PassInv, SynthInv, SynthPass
<1>5. ASSUME NEW q \in Provider, stage # "synthesis" \/ q # Current
      PROVE  inv'[<<"synthesis", q>>] = inv[<<"synthesis", q>>]
  <2>1. PICK t \in Slot : t = <<"synthesis", q>> BY StageSlots
  <2>2. t # s BY <1>1, <1>4, <1>5, <2>1 DEF SlotOf
  <2> QED BY <1>2, <2>1, <2>2
<1> QED BY <1>2, <1>3, <1>4, <1>5

(* A call of the current provider keeps SynthInv,                          *)
LEMMA RowStepSynth ==
  ASSUME EngineBase, ThreadInv, PassInv, SynthInv, NEW p \in Provider,
         RowStep(p)
  PROVE  SynthInv'
<1>1. /\ UNCHANGED runVars /\ UNCHANGED <<stage, pc, prompts>>
      /\ Current' = Current
      /\ stage = "synthesis" => p = Current
      /\ \A q \in Provider : stage # "synthesis" \/ q # Current =>
           inv'[<<"synthesis", q>>] = inv[<<"synthesis", q>>]
  BY SynthesisRowStep
<1>2. fallbacks' = fallbacks BY <1>1 DEF runVars
<1>3. SynthRows'
  <2>1. ASSUME NEW q \in Provider, inv'[<<"synthesis", q>>].status # "none"
        PROVE  \E i \in 1 .. Len(fallbacks) + 1 : q = Synth[i]
    <3>1. CASE inv'[<<"synthesis", q>>] = inv[<<"synthesis", q>>]
      BY <2>1, <3>1 DEF SynthInv, SynthRows
    <3>2. CASE q = Current
      BY <3>2, CurrentType DEF Current
    <3> QED BY <1>1, <3>1, <3>2
  <2>2. ASSUME NEW i \in 1 .. Len(fallbacks)
        PROVE  inv'[<<"synthesis", Synth[i]>>].status # "succeeded"
    <3>1. /\ i \in 1 .. Len(Synth) /\ i # CurrentSynthesis
          /\ CurrentSynthesis \in 1 .. Len(Synth)
      BY CurrentType
    <3>2. Synth[i] # Current BY <3>1, PositionsDiffer DEF Current
    <3>3. Synth[i] \in Provider BY <3>1, SynthType
    <3> QED BY <1>1, <3>2, <3>3 DEF SynthInv, SynthRows
  <2> QED BY <1>2, <2>1, <2>2 DEF SynthRows
<1>4. SynthPass'
  <2> SUFFICES ASSUME stage = "synthesis", pc # "synth" PROVE SynthPass'
    BY <1>1 DEF SynthPass
  <2>1. PICK s \in Slot : s = SlotOf(p) BY RowType
  <2>2. s = <<"synthesis", Current>> /\ p = Current
    BY <1>1, <2>1 DEF SlotOf
  <2>3. /\ inv[s].status # "succeeded"
        /\ inv'[s].status = "succeeded" => p \in succ'
        /\ recoverable' = recoverable
             \/ recoverable' = recoverable \cup {p}
    BY <2>1, RowMoves
  <2>4. prompts = {Current} /\ recoverable \subseteq prompts
    BY DEF SynthInv, SynthPass
  <2> QED BY <1>1, <2>2, <2>3, <2>4 DEF SynthPass, CurrentRow
<1> QED BY <1>3, <1>4 DEF SynthInv

(* as does giving up an attempt that has no answer.                        *)
LEMMA FallbackSynth ==
  ASSUME EngineBase, StageLocks, SynthInv, SynthesisFallback
  PROVE  SynthInv'
<1>1. /\ fallbacks' = Append(fallbacks, fail[Synthesizer])
      /\ inv' = inv /\ pc' = "synth" /\ pc = "run" /\ stage = "synthesis"
      /\ Synthesizer \notin succ
  BY DEF SynthesisFallback, StageReturns, PassSettled, storeVars
<1>2. Synthesizer = Current /\ CurrentRow.status # "succeeded"
  BY <1>1, CurrentType DEF SynthInv, SynthPass
<1>3. Len(fallbacks) \in Nat /\ Len(fallbacks') = Len(fallbacks) + 1
  BY <1>1, FailureType DEF EngineBase, RunTypeOK, PassTypeOK
<1>4. SynthRows'
  <2>1. ASSUME NEW q \in Provider, inv[<<"synthesis", q>>].status # "none"
        PROVE  \E i \in 1 .. Len(fallbacks') + 1 : q = Synth[i]
    BY <1>3, <2>1 DEF SynthInv, SynthRows
  <2>2. ASSUME NEW i \in 1 .. Len(fallbacks')
        PROVE  inv[<<"synthesis", Synth[i]>>].status # "succeeded"
    <3>1. CASE i \in 1 .. Len(fallbacks)
      BY <3>1 DEF SynthInv, SynthRows
    <3>2. CASE i = Len(fallbacks) + 1
      BY <1>2, <3>2 DEF Current, CurrentSynthesis, CurrentRow
    <3> QED BY <1>3, <3>1, <3>2
  <2> QED BY <1>1, <2>1, <2>2 DEF SynthRows
<1> QED BY <1>1, <1>4 DEF SynthInv, SynthPass

(* Every step keeps SynthInv.                                              *)
LEMMA NextSynth ==
  ASSUME EngineBase, ThreadInv, LockInv, PassInv, SynthInv,
         [EngineNext]_vars
  PROVE  SynthInv'
<1>1. CASE \E p \in Provider : RowStep(p) BY <1>1, RowStepSynth
<1>2. CASE UNCHANGED inv /\ SynthesisFallback
  BY <1>2, FallbackSynth DEF LockInv
<1>3. CASE UNCHANGED <<inv, fallbacks>> /\ ~SynthesisFallback
           /\ ~(\E p \in Provider : RowStep(p))
  <2>1. SynthRows' BY <1>3 DEF SynthInv, SynthRows
  <2>2. Current' = Current /\ CurrentRow' = CurrentRow
    BY <1>3 DEF Current, CurrentSynthesis, CurrentRow
  <2>3. SynthPass'
    <3>1. CASE Keeps
      <4>1. stage' = "synthesis" /\ pc' # "synth"
              => pc # "synth" /\ (pc' # "begin" => pc # "begin")
        BY <3>1, <1>3 DEF Keeps
      <4> QED BY <2>2, <3>1, <4>1 DEF Keeps, SynthInv, SynthPass
    <3>2. CASE Ends BY <3>2 DEF Ends, ProcessEnds, SynthPass
    <3>3. CASE Resume
      BY <3>3 DEF Resume, StartResume, EnterStage, SynthPass
    <3>4. CASE BeginStage
      <4>1. /\ pc = "begin" /\ UNCHANGED <<stage, prompts, recoverable>>
            /\ succ' = succ \cup
                 {p \in prompts : RowOf(p).status = "succeeded"}
        BY <3>4 DEF BeginStage
      <4> QED BY <2>2, <4>1 DEF SynthInv, SynthPass, RowOf, CurrentRow
    <3>5. CASE StartRecovery
      <4>1. /\ pc = "run" /\ stage' = stage /\ succ' = succ
            /\ recoverable # {} /\ recoverable' = {}
            /\ prompts' = IF recoverable \cap WithHeadroom # {}
                          THEN recoverable \cap WithHeadroom ELSE prompts
        BY <3>5 DEF StartRecovery, PassSettled
      <4> QED BY <2>2, <4>1 DEF SynthInv, SynthPass
    <3>6. CASE ProposalsDone
      <4>1. \/ stage' = "jury"
            \/ stage' = stage /\ stage = "proposal"
        BY <3>6 DEF ProposalsDone, EnterStage
      <4> QED BY <4>1 DEF SynthPass
    <3>7. CASE SelectRepairs
      BY <3>7 DEF SelectRepairs, EnterStage, SynthPass
    <3>8. CASE Adjudicate BY <3>8 DEF Adjudicate, SynthPass
    <3>9. CASE NextSynthesis
      <4>1. /\ prompts' = {Synthesizer} /\ recoverable' = {}
            /\ pc' = "begin" /\ pc = "synth"
        BY <3>9 DEF NextSynthesis, EnterStage
      <4>2. Synthesizer = Current BY <4>1, CurrentType
      <4> QED BY <2>2, <4>1, <4>2 DEF SynthPass
    <3> QED BY <1>3, <3>1, <3>2, <3>3, <3>4, <3>5, <3>6, <3>7, <3>8, <3>9,
               LockKinds
  <2> QED BY <2>1, <2>3 DEF SynthInv
<1> QED BY <1>1, <1>2, <1>3, SynthKinds

(* No attempt was given up, and no row is there, before the first pass.    *)
LEMMA InitSynth == EngineInit => SynthInv
<1> SUFFICES ASSUME EngineInit PROVE SynthInv OBVIOUS
<1>1. /\ \A s \in Slot : inv[s].status = "none"
      /\ fallbacks = <<>> /\ stage = "proposal"
  BY NoRowFields DEF EngineInit, StoreInit
<1>2. Len(fallbacks) = 0 BY <1>1
<1>3. \A p \in Provider : inv[<<"synthesis", p>>].status = "none"
  BY <1>1, StageSlots
<1>4. SynthRows BY <1>2, <1>3 DEF SynthRows
<1> QED BY <1>1, <1>4 DEF SynthInv, SynthPass

(* What the invariants about passes say together.                          *)
RunInv == EngineBase /\ ThreadInv /\ LockInv /\ PassInv /\ SynthInv

(* The threads, the locks, the pass under way and the rows of the synthesis*)
(* positions fit together in every reachable state: a pass asks only whom  *)
(* its stage may ask (engine.py, _call_stage and _synthesize).             *)
THEOREM RunInvHolds == EngineSpec => []RunInv
<1>1. EngineInit => SynthInv BY InitSynth
<1>2. EngineBase /\ ThreadInv /\ LockInv /\ PassInv /\ SynthInv
        /\ [EngineNext]_vars => SynthInv'
  BY NextSynth
<1>3. EngineSpec => []SynthInv
  BY <1>1, <1>2, ThreadInvHolds, LocksHold, PTL DEF EngineSpec
<1> QED BY <1>3, ThreadInvHolds, LocksHold, PTL DEF RunInv

----------------------------------------------------------------------------
(* The calls kept back for the synthesis.                                  *)

(* The current synthesis provider was never called, nor is it about to be. *)
Uncalled ==
  /\ CurrentRow.status = "none"
  /\ ~(stage = "synthesis" /\ thread[Current].at = "queued")

(* One call for each attempt still to come.                                *)
KeptBack == Len(Synth) - Len(fallbacks) - (IF Uncalled THEN 0 ELSE 1)

(* Beside the calls on the books and those about to be booked there is one *)
(* left for each synthesis attempt to come, unless there is an answer.     *)
ReserveInv ==
  SynthesisResultExists
    \/ count_calls + Cardinality(Queued) + KeptBack <= MaxCalls

(* An answer is never lost again.                                          *)
LEMMA AnswerStays ==
  ASSUME EngineBase, ThreadInv, [EngineNext]_vars, SynthesisResultExists
  PROVE  SynthesisResultExists'
<1>1. PICK i \in 1 .. Len(Synth) :
        inv[<<"synthesis", Synth[i]>>].status = "succeeded"
  BY DEF SynthesisResultExists
<1>2. PICK t \in Slot : t = <<"synthesis", Synth[i]>>
  BY <1>1, SynthType, StageSlots
<1>3. CASE inv' = inv BY <1>1, <1>3 DEF SynthesisResultExists
<1>4. ASSUME NEW p \in Provider, RowStep(p) PROVE SynthesisResultExists'
  <2>1. PICK s \in Slot : s = SlotOf(p) BY RowType
  <2>2. inv'[t] = inv[t] BY <1>1, <1>2, <1>4, <2>1, RowMoves
  <2> QED BY <1>1, <1>2, <2>2 DEF SynthesisResultExists
<1> QED BY <1>3, <1>4, SynthKinds

(* A call that is given back altogether comes off the books.               *)
LEMMA GivenBackBooks ==
  ASSUME EngineBase, ThreadInv, NEW p \in Provider, RowStep(p),
         NEW s \in Slot, s = SlotOf(p), GivenBack(s)
  PROVE  count_calls' = count_calls - 1
<1>1. /\ inv[s].status = "running" /\ inv'[s] = NoRow
      /\ inv[s].calls >= 1 /\ inv[s].calls \in Nat
  BY DEF GivenBack, EngineBase, StoreInv, StoreTypeOK, RowShape, Row
<1>2. inv'[s].calls = 0 /\ inv'[s].status = "none"
  BY <1>1, NoRowFields
<1>3. inv'[s].calls # inv[s].calls /\ inv'[s].status # inv[s].status
  BY <1>1, <1>2
<1>4. CASE SettleStep(p)
  <2>1. SettleUndispatched(p) /\ prior[p].calls + 1 = inv[s].calls
        /\ inv'[s] = prior[p]
    BY <1>3, <1>4, SettledRow DEF storeVars
  <2>2. \A t \in Slot : t # s => inv'[t] = inv[t] BY RowMoves
  <2> QED BY <1>2, <2>1, <2>2, CallRemoved
<1>5. CASE MarkLost(p)
  <2>1. inv \in [Slot -> Row] BY DEF EngineBase, StoreInv, StoreTypeOK
  <2>2. finish_invocation_failure(s, "ambiguous") BY <1>5, MarkLostFacts
  <2>3. inv'[s].status = "failed"
    BY <2>1, <2>2 DEF finish_invocation_failure
  <2> QED BY <1>2, <2>3
<1>6. CASE WorkerStep(p)
  <2>1. CASE StartCall(p)
    <3>1. RowOf(p)' = inv'[s] BY <2>1, StartedRow DEF RowOf, SlotOf
    <3> QED BY <1>2, <2>1, <3>1, StartedRow
  <2>2. CASE ~StartCall(p)
    BY <1>3, <1>6, <2>2, WorkerFacts DEF storeVars
  <2> QED BY <2>1, <2>2
<1>7. CASE LeaseStep(p) BY <1>3, <1>7, LeaseFacts DEF storeVars
<1> QED BY <1>4, <1>5, <1>6, <1>7 DEF RowStep

(* A row step takes from the reserve at most what it makes available.      *)
LEMMA RowStepReserve ==
  ASSUME RunInv, EngineBase', ReserveInv, NEW p \in Provider, RowStep(p)
  PROVE  SynthesisResultExists \/ ReserveInv'
<1> SUFFICES ASSUME ~SynthesisResultExists PROVE ReserveInv'
  OBVIOUS
<1> USE DEF RunInv
<1>0. /\ count_calls \in Nat /\ Cardinality(Queued) \in Nat
      /\ MaxCalls \in Nat
      /\ Len(fallbacks) \in Nat /\ Len(Synth) \in Nat
      /\ Current \in Provider /\ <<"synthesis", Current>> \in Slot
  BY TokensFinite, EngineAssumption, CurrentType
<1>1. /\ UNCHANGED runVars /\ stage' = stage /\ Current' = Current
      /\ stage = "synthesis" => p = Current
      /\ stage # "synthesis" => CurrentRow' = CurrentRow
  BY <1>0, SynthesisRowStep DEF CurrentRow
<1>2. Cardinality(Queued)'
        = IF thread[p].at = "queued" THEN Cardinality(Queued) - 1
                                     ELSE Cardinality(Queued)
  BY BooksMove, QueueShrinks DEF RowStep
<1>3. /\ thread'[p].at # "queued"
      /\ \/ /\ StartCall(p) /\ thread[p].at = "queued"
            /\ count_calls' = count_calls + 1
         \/ SettleUndispatched(p) /\ count_calls' = count_calls - 1
         \/ count_calls' = count_calls
  BY BooksMove DEF RowStep
<1>4. fallbacks' = fallbacks BY <1>1 DEF runVars
<1>5. CASE stage # "synthesis"
  <2>1. KeptBack' = KeptBack BY <1>1, <1>4, <1>5 DEF KeptBack, Uncalled
  <2>2. KeptBack \in Int BY <1>0 DEF KeptBack
  <2>3. count_calls + Cardinality(Queued) + KeptBack <= MaxCalls
    BY DEF ReserveInv
  <2>4. count_calls' + Cardinality(Queued)' + KeptBack' <= MaxCalls
    <3> HIDE DEF RunInv
    <3> DEFINE c == count_calls
               d == count_calls'
               q == Cardinality(Queued)
               r == Cardinality(Queued)'
               k == KeptBack
               l == KeptBack'
    <3>1. /\ c \in Nat /\ q \in Nat /\ k \in Int /\ MaxCalls \in Nat /\ l = k
          /\ c + q + k <= MaxCalls
          /\ r = IF thread[p].at = "queued" THEN q - 1 ELSE q
          /\ \/ thread[p].at = "queued" /\ d = c + 1
             \/ d = c - 1
             \/ d = c
      BY <1>0, <1>2, <1>3, <2>1, <2>2, <2>3, Zenon
    <3> HIDE DEF c, d, q, r, k, l
    <3>2. d + r + l <= MaxCalls BY <3>1
    <3> QED BY <3>2, Zenon DEF d, r, l
  <2> QED BY <2>4 DEF ReserveInv
<1>6. CASE stage = "synthesis"
  <2>1. PICK s \in Slot : s = SlotOf(p) BY RowType
  <2>2. p = Current /\ CurrentRow = inv[s] /\ CurrentRow' = inv'[s]
    BY <1>1, <1>6, <2>1 DEF CurrentRow, SlotOf
  <2>3. inv'[s] = inv[s] \/ Starts(s) \/ Settles(s) \/ GivenBack(s)
    BY <2>1, RowMoves
  <2>4. \/ inv'[s].status # "none"
        \/ inv[s].status = "none" /\ inv'[s].status = "none"
        \/ count_calls' = count_calls - 1
    BY <2>1, <2>3, GivenBackBooks DEF Starts, Settles
  <2>5. Uncalled' <=> inv'[s].status = "none"
    BY <1>1, <1>3, <2>2 DEF Uncalled
  <2>6. Uncalled <=> inv[s].status = "none" /\ thread[p].at # "queued"
    BY <1>6, <2>2 DEF Uncalled
  <2>7. StartCall(p) => inv'[s].status = "running"
    <3>1. RowOf(p)' = inv'[s] \/ ~StartCall(p)
      BY <1>1, <2>1 DEF RowOf, SlotOf
    <3> QED BY <3>1, StartedRow
  <2>8. count_calls' + Cardinality(Queued)' + KeptBack' <= MaxCalls
    <3> HIDE DEF RunInv
    <3> DEFINE c == count_calls
               d == count_calls'
               q == Cardinality(Queued)
               r == Cardinality(Queued)'
               k == KeptBack
               l == KeptBack'
               left == Len(Synth) - Len(fallbacks)
    <3>1. /\ c \in Nat /\ q \in Nat /\ MaxCalls \in Nat
          /\ c + q + k <= MaxCalls
      BY <1>0, Zenon DEF ReserveInv
    <3>2. left \in Int BY <1>0
    <3>3. r = IF thread[p].at = "queued" THEN q - 1 ELSE q BY <1>2, Zenon
    <3>4. k = left - IF inv[s].status = "none" /\ thread[p].at # "queued"
                     THEN 0 ELSE 1
      BY <2>6, Zenon DEF KeptBack
    <3>5. l = left - IF inv'[s].status = "none" THEN 0 ELSE 1
      BY <1>4, <2>5, Zenon DEF KeptBack
    <3>6. \/ thread[p].at = "queued" /\ d = c + 1 /\ inv'[s].status # "none"
          \/ d = c - 1
          \/ d = c
      BY <1>3, <2>7
    <3>7. \/ inv'[s].status # "none"
          \/ inv[s].status = "none" /\ inv'[s].status = "none"
          \/ d = c - 1
      BY <2>4, Zenon
    <3> HIDE DEF c, d, q, r, k, l, left
    <3>8. k \in Int /\ l \in Int /\ r \in Int
      BY <3>1, <3>2, <3>3, <3>4, <3>5
    <3>9. ASSUME inv'[s].status # "none" PROVE d + r + l <= MaxCalls
      <4>1. l <= k BY <3>2, <3>4, <3>5, <3>9
      <4>2. d \in Int /\ d + r <= c + q BY <3>1, <3>3, <3>6
      <4> QED BY <3>1, <3>8, <4>1, <4>2
    <3>10. ASSUME inv[s].status = "none", inv'[s].status = "none"
           PROVE  d + r + l <= MaxCalls
      <4>1. r + l <= q + k BY <3>1, <3>2, <3>3, <3>4, <3>5, <3>10
      <4>2. d \in Int /\ d <= c BY <3>1, <3>6, <3>10
      <4> QED BY <3>1, <3>8, <4>1, <4>2
    <3>11. ASSUME d = c - 1 PROVE d + r + l <= MaxCalls
      <4>1. r <= q /\ l <= k + 1 BY <3>1, <3>2, <3>3, <3>4, <3>5
      <4> QED BY <3>1, <3>8, <3>11, <4>1
    <3>12. d + r + l <= MaxCalls BY <3>7, <3>9, <3>10, <3>11, Zenon
    <3> QED BY <3>12, Zenon DEF d, r, l
  <2> QED BY <2>8 DEF ReserveInv
<1> QED BY <1>5, <1>6

(* Outside row steps the books stay, and so does the reserve: where no     *)
(* thread is left, a call kept for one is kept for the synthesis again.    *)
LEMMA QuietReserve ==
  ASSUME RunInv, EngineBase', ReserveInv, UNCHANGED <<inv, fallbacks>>,
         Quiet \/ Steady
  PROVE  ReserveInv'
<1> USE DEF RunInv
<1>0. /\ count_calls \in Nat /\ Cardinality(Queued) \in Nat
      /\ IsFiniteSet(Queued)
      /\ MaxCalls \in Nat
      /\ Len(fallbacks) \in Nat /\ Len(Synth) \in Nat
      /\ Current \in Provider
  BY TokensFinite, EngineAssumption, CurrentType
<1>1. count_calls' = count_calls BY CallsKept
<1>2. /\ Current' = Current /\ CurrentRow' = CurrentRow
      /\ SynthesisResultExists' = SynthesisResultExists
  BY DEF Current, CurrentSynthesis, CurrentRow, SynthesisResultExists
<1>3. CASE Steady
  <2>1. Queued' = Queued /\ KeptBack' = KeptBack
    BY <1>2, <1>3 DEF Steady, Queued, KeptBack, Uncalled
  <2>2. KeptBack \in Int BY <1>0 DEF KeptBack
  <2> QED BY <1>1, <1>2, <2>1, <2>2 DEF ReserveInv
<1>4. CASE Quiet
  <2>1. Cardinality(Queued)' = 0
    <3>1. Queued' = {} BY <1>4 DEF Quiet, ThreadsIdle, Idle, Queued
    <3> QED BY <3>1, FS_EmptySet
  <2>2. Uncalled' => Uncalled \/ Current \in Queued
    BY <1>0, <1>2 DEF Uncalled, Queued
  <2>3. Current \in Queued => Cardinality(Queued) >= 1
    <3>1. Current \in Queued => Queued # {} OBVIOUS
    <3> QED BY <1>0, <3>1, FS_EmptySet
  <2> SUFFICES ASSUME ~SynthesisResultExists
               PROVE  count_calls' + Cardinality(Queued)' + KeptBack' <= MaxCalls
    BY <1>2, Zenon DEF ReserveInv
  <2> HIDE DEF RunInv
  <2> DEFINE c == count_calls
             q == Cardinality(Queued)
             k == KeptBack
             l == KeptBack'
             left == Len(Synth) - Len(fallbacks)
  <2>4. /\ c \in Nat /\ q \in Nat /\ MaxCalls \in Nat
        /\ c + q + k <= MaxCalls
    BY <1>0, Zenon DEF ReserveInv
  <2>5. left \in Int BY <1>0
  <2>6. /\ k = left - IF Uncalled THEN 0 ELSE 1
        /\ l = left - IF Uncalled' THEN 0 ELSE 1
    BY Zenon DEF KeptBack
  <2>7. Uncalled' => Uncalled \/ q >= 1 BY <2>2, <2>3, Zenon
  <2> HIDE DEF c, q, k, l, left
  <2>8. c + 0 + l <= MaxCalls
    <3>1. k \in {left - 0, left - 1} /\ l \in {left - 0, left - 1}
      BY <2>6, Zenon
    <3>2. k = left - 0 \/ q >= 1 \/ l = left - 1 BY <2>6, <2>7, Zenon
    <3> QED BY <2>4, <2>5, <3>1, <3>2
  <2> QED BY <1>1, <2>1, <2>8, Zenon DEF c, l
<1> QED BY <1>3, <1>4

(* The next attempt takes the place of the one given up.                   *)
LEMMA FallbackReserve ==
  ASSUME RunInv, EngineBase', ReserveInv, SynthesisFallback
  PROVE  ReserveInv'
<1> USE DEF RunInv
<1>0. /\ count_calls \in Nat /\ Cardinality(Queued) \in Nat
      /\ MaxCalls \in Nat
      /\ Len(fallbacks) \in Nat /\ Len(Synth) \in Nat
  BY TokensFinite, EngineAssumption, CurrentType
<1>1. /\ UNCHANGED inv /\ UNCHANGED thread
      /\ fallbacks' = Append(fallbacks, fail[Synthesizer])
  BY DEF SynthesisFallback, storeVars
<1>2. Len(fallbacks') = Len(fallbacks) + 1
  BY <1>1, FailureType DEF EngineBase, RunTypeOK, PassTypeOK
<1>3. count_calls' = count_calls BY <1>1, CallsKept
<1>4. Queued' = Queued /\ SynthesisResultExists' = SynthesisResultExists
  BY <1>1 DEF Queued, SynthesisResultExists
<1> SUFFICES ASSUME ~SynthesisResultExists
             PROVE  count_calls' + Cardinality(Queued)' + KeptBack' <= MaxCalls
  BY <1>4, Zenon DEF ReserveInv
<1> HIDE DEF RunInv
<1> DEFINE c == count_calls
           q == Cardinality(Queued)
           k == KeptBack
           l == KeptBack'
           full == Len(Synth)
           b == Len(fallbacks)
<1>5. /\ c \in Nat /\ q \in Nat /\ full \in Nat /\ b \in Nat
      /\ MaxCalls \in Nat /\ c + q + k <= MaxCalls
  BY <1>0, Zenon DEF ReserveInv
<1>6. /\ k = full - b - IF Uncalled THEN 0 ELSE 1
      /\ l = full - (b + 1) - IF Uncalled' THEN 0 ELSE 1
  BY <1>2, Zenon DEF KeptBack
<1> HIDE DEF c, q, k, l, full, b
<1>7. c + q + l <= MaxCalls
  <2>1. k \in {full - b - 0, full - b - 1} BY <1>6, Zenon
  <2>2. l \in {full - (b + 1) - 0, full - (b + 1) - 1} BY <1>6, Zenon
  <2> QED BY <1>5, <2>1, <2>2
<1>8. Cardinality(Queued)' = Cardinality(Queued) BY <1>4
<1> QED BY <1>3, <1>7, <1>8, Zenon DEF c, q, l

(* dispatch_capacity leaves the calls of the attempts to come.             *)
LEMMA BeginReserve ==
  ASSUME RunInv, EngineBase', BudgetInv, ReserveInv, BeginStage
  PROVE  ReserveInv'
<1> USE DEF RunInv
<1> SUFFICES ASSUME ~SynthesisResultExists PROVE ReserveInv'
  BY BeginFacts DEF ReserveInv, SynthesisResultExists, storeVars
<1>1. PICK allowed \in SUBSET Work :
        /\ allowed = {} \/ IsFirst(allowed, Work, DispatchCapacity)
        /\ thread' = [p \in Provider |->
                       IF p \in allowed
                       THEN [at |-> "queued", out |-> "none"] ELSE Idle]
  BY BeginFacts
<1>2. /\ count_calls \in Nat /\ Cardinality(Queued) \in Nat
      /\ MaxCalls \in Nat /\ IsFiniteSet(Provider)
      /\ Cardinality(Provider) \in Nat
      /\ Len(fallbacks) \in Nat /\ Len(Synth) \in Nat
      /\ Len(fallbacks) + 1 <= Len(Synth)
      /\ Current \in Provider
  BY TokensFinite, EngineAssumption, CurrentType
<1>3. /\ inv' = inv /\ stage' = stage /\ pc = "begin" /\ fallbacks' = fallbacks
      /\ ThreadsIdle
  BY BeginFacts DEF storeVars, BeginStage, runVars, ThreadInv
<1>4. count_calls' = count_calls BY <1>3, CallsKept
<1>5. Current' = Current /\ CurrentRow' = CurrentRow
  BY <1>3 DEF Current, CurrentSynthesis, CurrentRow
<1>6. Work \subseteq Provider /\ Work \subseteq prompts BY BeginFacts
<1>7. Queued' = allowed BY <1>1, <1>6 DEF Queued, Idle
<1>8. /\ KeptBack = Len(Synth) - Len(fallbacks) - (IF Uncalled THEN 0 ELSE 1)
      /\ KeptBack' = Len(Synth) - Len(fallbacks)
                       - (IF Uncalled' THEN 0 ELSE 1)
  BY <1>3 DEF KeptBack
<1>9. CASE allowed = {}
  <2>1. Cardinality(Queued') = 0 BY <1>7, <1>9, FS_EmptySet
  <2>2. Uncalled' => Uncalled
    BY <1>2, <1>3, <1>5 DEF Uncalled, ThreadsIdle, Idle
  <2>3. count_calls' + 0 + KeptBack' <= MaxCalls
    <3> HIDE DEF RunInv
    <3> DEFINE c == count_calls
               q == Cardinality(Queued)
               k == KeptBack
               l == KeptBack'
               left == Len(Synth) - Len(fallbacks)
    <3>1. /\ c \in Nat /\ q \in Nat /\ MaxCalls \in Nat
          /\ c + q + k <= MaxCalls
      BY <1>2, Zenon DEF ReserveInv
    <3>2. left \in Int BY <1>2
    <3>3. /\ k = left - IF Uncalled THEN 0 ELSE 1
          /\ l = left - IF Uncalled' THEN 0 ELSE 1
      BY <1>8, Zenon
    <3> HIDE DEF c, q, k, l, left
    <3>4. c + 0 + l <= MaxCalls
      <4>1. k \in {left - 0, left - 1} /\ l \in {left - 0, left - 1}
        BY <3>3, Zenon
      <4>2. k = left - 0 \/ l = left - 1 BY <2>2, <3>3, Zenon
      <4> QED BY <3>1, <3>2, <4>1, <4>2
    <3> QED BY <1>4, <3>4, Zenon DEF c, l
  <2> QED BY <2>1, <2>3, Zenon DEF ReserveInv
<1>10. CASE allowed # {}
  <2>1. IsFirst(allowed, Work, DispatchCapacity) BY <1>1, <1>10
  <2>2. /\ Cardinality(allowed) \in Nat
        /\ Cardinality(allowed) <= DispatchCapacity
        /\ Cardinality(allowed) >= 1
    <3>1. IsFiniteSet(Work) /\ IsFiniteSet(allowed)
      BY <1>2, <1>6, FS_Subset
    <3>2. Cardinality(Work) \in Nat /\ Cardinality(allowed) \in Nat
      BY <3>1, FS_CardinalityType
    <3>3. DispatchCapacity \in Nat
      BY <1>2, CapacityBound DEF BudgetInv
    <3> QED BY <1>10, <2>1, <3>1, <3>2, <3>3, FS_EmptySet DEF IsFirst
  <2>3. /\ DownstreamReserve \in Nat
        /\ stage # "synthesis" => DownstreamReserve >= Len(Synth)
        /\ stage = "synthesis" =>
             DownstreamReserve = Len(Synth) - Len(fallbacks) - 1
    <3>1. pos = Len(fallbacks) + 1
      BY <1>3, CurrentType
    <3> QED BY <1>2, <3>1 DEF DownstreamReserve
  <2>4. count_calls + DispatchCapacity + DownstreamReserve <= MaxCalls
    <3>1. DispatchCapacity >= 1 /\ DispatchCapacity \in Nat
      BY <2>2, <1>2, CapacityBound DEF BudgetInv
    <3> QED BY <1>2, <2>3, <3>1 DEF DispatchCapacity, AtLeastZero
  <2>5. stage = "synthesis" => ~Uncalled'
    <3> SUFFICES ASSUME stage = "synthesis" PROVE ~Uncalled'
      OBVIOUS
    <3>1. prompts = {Current}
      BY <1>3 DEF SynthInv, SynthPass
    <3>2. Current \in allowed BY <1>6, <1>10, <3>1
    <3>3. thread'[Current].at = "queued" BY <1>1, <1>2, <3>2
    <3> QED BY <1>3, <1>5, <3>3 DEF Uncalled
  <2>6. DispatchCapacity \in Nat
    BY <1>2, CapacityBound DEF BudgetInv
  <2>7. Cardinality(Queued)' = Cardinality(allowed) BY <1>7
  <2>8. /\ KeptBack' \in Int /\ KeptBack' <= Len(Synth) - Len(fallbacks)
        /\ stage = "synthesis" => KeptBack' = Len(Synth) - Len(fallbacks) - 1
    BY <1>2, <1>8, <2>5
  <2>9. KeptBack' <= DownstreamReserve BY <1>2, <2>3, <2>8
  <2>10. count_calls' + Cardinality(Queued)' + KeptBack' <= MaxCalls
    <3> HIDE DEF RunInv
    <3> DEFINE c == count_calls
               a == Cardinality(allowed)
               l == KeptBack'
               free == DispatchCapacity
               down == DownstreamReserve
    <3>1. /\ c \in Nat /\ a \in Nat /\ l \in Int /\ free \in Nat /\ down \in Nat
          /\ MaxCalls \in Nat /\ a <= free /\ l <= down
          /\ c + free + down <= MaxCalls
      BY <1>2, <2>2, <2>3, <2>4, <2>6, <2>8, <2>9, Zenon
    <3> HIDE DEF c, a, l, free, down
    <3>2. c + a + l <= MaxCalls BY <3>1
    <3> QED BY <1>4, <2>7, <3>2, Zenon DEF c, a, l
  <2> QED BY <2>10 DEF ReserveInv
<1> QED BY <1>9, <1>10

(* Every step keeps the reserve.                                           *)
LEMMA NextReserve ==
  ASSUME RunInv, RunInv', BudgetInv, ReserveInv, [EngineNext]_vars
  PROVE  ReserveInv'
<1>0. EngineBase /\ ThreadInv /\ EngineBase' BY DEF RunInv
<1>1. ASSUME SynthesisResultExists PROVE ReserveInv'
  BY <1>0, <1>1, AnswerStays DEF ReserveInv
<1>2. CASE \E p \in Provider : RowStep(p)
  BY <1>0, <1>1, <1>2, RowStepReserve
<1>3. CASE SynthesisFallback BY <1>0, <1>3, FallbackReserve
<1>4. CASE UNCHANGED <<inv, fallbacks>>
  BY <1>0, <1>2, <1>4, StepKinds, QuietReserve, BeginReserve DEF RowStep
<1> QED BY <1>2, <1>3, <1>4, SynthKinds

(* SynthesisIsReserved: whatever proposals, juries, repairs, retries and   *)
(* earlier attempts consumed, dispatch_capacity has a call left for each   *)
(* synthesis provider that is reached for the first time.                  *)
THEOREM SynthesisIsReserved == EngineSpec => []SynthesisReserve
<1>1. EngineInit => ReserveInv
  <2> SUFFICES ASSUME EngineInit PROVE ReserveInv OBVIOUS
  <2>1. count_calls = 0 /\ Cardinality(Queued) = 0
    <3>1. \A s \in Slot : inv[s].calls = 0
      BY NoRowFields DEF EngineInit, StoreInit
    <3>2. CallTokens = {} BY <3>1 DEF CallTokens
    <3>3. Cardinality(Queued) = 0
      BY NoneQueued DEF EngineInit, ThreadsIdle
    <3> QED BY <3>2, <3>3, FS_EmptySet DEF count_calls
  <2>2. fallbacks = <<>> /\ Len(fallbacks) = 0 BY DEF EngineInit
  <2>3. Cardinality(Provider) \in Nat
    BY TokensFinite, EngineInitBase
  <2> QED BY <2>1, <2>2, <2>3, SynthType, EngineAssumption
          DEF ReserveInv, KeptBack
<1>2. RunInv /\ RunInv' /\ BudgetInv /\ ReserveInv /\ [EngineNext]_vars
        => ReserveInv'
  BY NextReserve
<1>3. RunInv /\ BudgetInv /\ ReserveInv => SynthesisReserve
  <2> SUFFICES ASSUME RunInv, BudgetInv, ReserveInv, pc = "begin",
                      stage = "synthesis", RowOf(Synthesizer).status = "none"
               PROVE  DispatchCapacity >= 1
    BY DEF SynthesisReserve
  <2> USE DEF RunInv
  <2>1. /\ count_calls \in Nat /\ MaxCalls \in Nat
        /\ Len(fallbacks) \in Nat /\ Len(Synth) \in Nat
        /\ CurrentSynthesis = Len(fallbacks) + 1
        /\ CurrentSynthesis \in 1 .. Len(Synth)
        /\ pos = CurrentSynthesis /\ Synthesizer = Current
        /\ Current \in Provider
    BY TokensFinite, EngineAssumption, CurrentType
  <2>2. CurrentRow.status = "none" BY <2>1 DEF RowOf, CurrentRow
  <2>3. ~SynthesisResultExists
    <3> SUFFICES ASSUME NEW i \in 1 .. Len(Synth),
                        inv[<<"synthesis", Synth[i]>>].status = "succeeded"
                 PROVE  FALSE
      BY DEF SynthesisResultExists
    <3>1. Synth[i] \in Provider BY SynthType
    <3>2. PICK j \in 1 .. Len(fallbacks) + 1 : Synth[i] = Synth[j]
      BY <3>1 DEF SynthInv, SynthRows
    <3>3. CASE j \in 1 .. Len(fallbacks)
      BY <3>2, <3>3 DEF SynthInv, SynthRows
    <3>4. CASE j = Len(fallbacks) + 1
      BY <2>1, <2>2, <3>2, <3>4 DEF CurrentRow, Current
    <3> QED BY <2>1, <3>3, <3>4
  <2>4. ThreadsIdle BY DEF ThreadInv
  <2>5. Cardinality(Queued) = 0 BY <2>4, NoneQueued
  <2>6. Uncalled BY <2>1, <2>2, <2>4 DEF Uncalled, ThreadsIdle, Idle
  <2>7. count_calls + Len(Synth) - Len(fallbacks) <= MaxCalls
    BY <2>1, <2>3, <2>5, <2>6 DEF ReserveInv, KeptBack
  <2>8. DownstreamReserve = Len(Synth) - Len(fallbacks) - 1
    BY <2>1, <2>3 DEF DownstreamReserve
  <2> QED BY <2>1, <2>7, <2>8 DEF DispatchCapacity, AtLeastZero
<1> QED BY <1>1, <1>2, <1>3, RunInvHolds, BudgetHolds, PTL DEF EngineSpec

----------------------------------------------------------------------------
(* Nobody who was asked for a proposal is forgotten.                       *)

(* A response to be recovered was cut off, and its call is over.           *)
RecoverInv ==
  /\ recoverable # {} => pc \in {"run", "draining"}
  /\ \A p \in recoverable : thread[p] = Idle /\ RowOf(p).status = "failed"

(* The provider answered, failed, is being called or is about to be.       *)
Accounted(p) ==
  \/ p \in succ \/ fail[p] # NoFailure \/ thread[p] # Idle
  \/ p \in recoverable \/ (pc = "begin" /\ p \in prompts)

(* Until the candidates are locked every provider is accounted for.        *)
ProposalsAccounted ==
  stage = "proposal" /\ ~NamespaceLocked /\ pc # "idle" =>
    \A p \in Provider : Accounted(p)

AccountInv == RecoverInv /\ ProposalsAccounted

(* Once settled, a call succeeded, failed with what its row now says, or   *)
(* is to be recovered.                                                     *)
LEMMA SettledOutcome ==
  ASSUME EngineBase, ThreadInv, NEW p \in Provider, SettleStep(p)
  PROVE  /\ \A q \in Provider : q # p => fail'[q] = fail[q]
         /\ \/ /\ p \in succ' /\ recoverable' = recoverable
               /\ RowOf(p)'.status = "succeeded"
            \/ /\ fail'[p] # NoFailure /\ recoverable' = recoverable
               /\ succ' = succ
               /\ \/ RowOf(p)'.status = "none"
                  \/ /\ RowOf(p)'.status = "failed"
                     /\ fail'[p] = Stored(RowOf(p)')
            \/ /\ recoverable' = recoverable \cup {p} /\ succ' = succ
               /\ fail' = fail /\ SettleTruncated(p)
               /\ RowOf(p)'.status = "failed"
<1>1. PICK s \in Slot : s = SlotOf(p) BY RowType
<1>2. /\ inv[s] \in Row /\ inv \in [Slot -> Row]
      /\ fail \in [Provider -> Failure] /\ RowOf(p) = inv[s]
  BY <1>1, RowType DEF EngineBase, PassTypeOK, StoreInv, StoreTypeOK
<1>3. stage' = stage BY SettleFacts DEF Touches
<1>4. RowOf(p)' = inv'[s] BY <1>1, <1>3 DEF RowOf, SlotOf
<1>5. ASSUME NEW kind \in {"deadline", "denied"},
             Fails(p, PriorOr(p, kind)), prior[p] \in PriorRow,
             inv'[s] = prior[p]
      PROVE  /\ fail'[p] # NoFailure
             /\ \/ inv'[s].status = "none"
                \/ /\ inv'[s].status = "failed"
                   /\ fail'[p] = Stored(inv'[s])
  <2>1. fail'[p] = PriorOr(p, kind) BY <1>2, <1>5 DEF Fails
  <2>2. CASE prior[p] = NoRow
    <3>1. prior[p].status = "none" BY <2>2, NoRowFields
    <3>2. fail'[p] = Unstored(kind) BY <2>1, <3>1 DEF PriorOr
    <3>3. fail'[p].kind = kind BY <3>2 DEF Unstored
    <3> QED BY <1>5, <3>1, <3>3 DEF NoFailure
  <2>3. CASE prior[p].status = "failed" /\ prior[p].error \in Error
    <3>1. fail'[p] = Stored(prior[p]) BY <2>1, <2>3 DEF PriorOr
    <3>2. fail'[p].kind \in Error BY <2>3, <3>1 DEF Stored
    <3> QED BY <1>5, <2>3, <3>1, <3>2 DEF NoFailure, Error
  <2> QED BY <1>5, <2>2, <2>3 DEF PriorRow
<1>6. CASE SettleUnstarted(p)
  <2>1. /\ Fails(p, PriorOr(p, "deadline")) /\ inv' = inv
        /\ succ' = succ /\ recoverable' = recoverable
        /\ thread[p].out = "not_started"
    BY <1>6 DEF SettleUnstarted, storeVars
  <2>2. thread[p] # Idle BY <2>1 DEF Idle
  <2>3. prior[p] \in PriorRow /\ inv'[s] = prior[p]
    BY <1>2, <2>1, <2>2 DEF ThreadInv, ThreadOK, Waiting
  <2>4. \A q \in Provider : q # p => fail'[q] = fail[q]
    BY <1>2, <2>1 DEF Fails
  <2> QED BY <1>4, <1>5, <2>1, <2>3, <2>4
<1>7. CASE SettleUndispatched(p)
  <2>1. /\ \E kind \in {"deadline", "denied"} : Fails(p, PriorOr(p, kind))
        /\ succ' = succ /\ recoverable' = recoverable
        /\ thread[p].out \in {"denied", "late"}
    BY <1>7 DEF SettleUndispatched
  <2>2. thread[p] # Idle BY <2>1 DEF Idle
  <2>3. prior[p] \in PriorRow BY <2>2 DEF ThreadInv, ThreadOK
  <2>4. inv'[s] = prior[p]
    BY <1>1, <1>2, <1>7
    DEF SettleUndispatched, release_undispatched_invocation
  <2>5. \A q \in Provider : q # p => fail'[q] = fail[q]
    BY <1>2, <2>1 DEF Fails
  <2> QED BY <1>4, <1>5, <2>1, <2>3, <2>4, <2>5
<1>8. CASE SettleSuccess(p)
  <2>1. /\ finish_invocation_success(s, thread[p].out)
        /\ succ' = succ \cup {p} /\ recoverable' = recoverable
        /\ fail' = fail
    BY <1>1, <1>8 DEF SettleSuccess
  <2>2. inv'[s].status = "succeeded"
    BY <1>2, <2>1 DEF finish_invocation_success
  <2> QED BY <1>4, <2>1, <2>2
<1>9. CASE SettleTruncated(p)
  <2>1. /\ finish_invocation_failure(s, "length")
        /\ recoverable' = recoverable \cup {p} /\ succ' = succ
        /\ fail' = fail
    BY <1>1, <1>9 DEF SettleTruncated
  <2>2. inv'[s].status = "failed"
    BY <1>2, <2>1 DEF finish_invocation_failure
  <2> QED BY <1>4, <1>9, <2>1, <2>2
<1>10. CASE SettleFailure(p)
  <2> DEFINE error == ErrorOf(thread[p].out)
  <2>1. /\ finish_invocation_failure(s, error) /\ error \in Error
        /\ Fails(p, [kind |-> error, call |-> inv[s].calls])
        /\ succ' = succ /\ recoverable' = recoverable
    BY <1>1, <1>2, <1>10 DEF SettleFailure, ErrorOf, Error
  <2> HIDE DEF error
  <2>2. /\ inv'[s].status = "failed" /\ inv'[s].error = error
        /\ inv'[s].calls = inv[s].calls
    BY <1>2, <2>1 DEF finish_invocation_failure, Row
  <2>3. /\ fail'[p] = [kind |-> error, call |-> inv[s].calls]
        /\ \A q \in Provider : q # p => fail'[q] = fail[q]
    BY <1>2, <2>1 DEF Fails
  <2>4. fail'[p] = Stored(inv'[s]) BY <2>2, <2>3 DEF Stored
  <2>5. fail'[p] # NoFailure
    <3>1. fail'[p].kind \in Error BY <2>1, <2>3
    <3> QED BY <3>1 DEF NoFailure, Error
  <2> QED BY <1>4, <2>1, <2>2, <2>3, <2>4, <2>5
<1> QED BY <1>6, <1>7, <1>8, <1>9, <1>10 DEF SettleStep

(* Until it is settled a call keeps its thread.                            *)
LEMMA UnsettledStep ==
  ASSUME EngineBase, ThreadInv, NEW p \in Provider, RowStep(p),
         ~SettleStep(p)
  PROVE  /\ UNCHANGED passVars /\ UNCHANGED ctlVars
         /\ thread[p] # Idle => thread'[p] # Idle
<1>1. thread \in [Provider -> [at : {"idle", "queued", "started", "leased",
                                     "done", "accounted"}, out : Outs]]
  BY DEF EngineBase, ThreadTypeOK
<1>2. CASE MarkLost(p) BY <1>2 DEF MarkLost
<1>3. CASE WorkerStep(p)
  <2>1. ThreadFrame
    BY <1>3 DEF WorkerStep, StartTooLate, StartCall, ReserveCall,
                CallTooLate, CallProvider
  <2>2. \E at \in {"started", "leased", "done"} : \E out :
          ThreadStep(p, at, out)
    BY <1>3 DEF WorkerStep, StartTooLate, StartCall, ReserveCall,
                CallTooLate, CallProvider
  <2>3. thread'[p].at # "idle" BY <1>1, <2>2 DEF ThreadStep
  <2> QED BY <2>1, <2>3 DEF ThreadFrame, Idle
<1>4. CASE LeaseStep(p)
  <2>1. /\ LeaseFrame
        /\ \E out : ThreadStep(p, "accounted", out)
    BY <1>4 DEF LeaseStep, SettleLease, ReconcileFails
  <2>2. thread'[p].at # "idle" BY <1>1, <2>1 DEF ThreadStep
  <2> QED BY <2>1, <2>2 DEF LeaseFrame, Idle
<1> QED BY <1>2, <1>3, <1>4 DEF RowStep

(* A call in flight, and its settlement, keep the account.                 *)
LEMMA RowStepAccount ==
  ASSUME EngineBase, ThreadInv, AccountInv, NEW p \in Provider, RowStep(p)
  PROVE  AccountInv'
<1>1. PICK s \in Slot : s = SlotOf(p) BY RowType
<1>2. /\ UNCHANGED runVars /\ UNCHANGED <<stage, pc, nested, prompts>>
      /\ \A t \in Slot : t # s => inv'[t] = inv[t]
      /\ \A q \in Provider : q # p => thread'[q] = thread[q]
      /\ thread[p] # Idle \/ (p \in prompts /\ MarkLost(p))
      /\ succ' = succ \/ succ' = succ \cup {p}
      /\ recoverable \subseteq recoverable'
  BY <1>1, RowMoves
<1>3. recoverable \subseteq Provider BY DEF EngineBase, PassTypeOK
<1>4. p \notin recoverable
  BY <1>2 DEF MarkLost, AccountInv, RecoverInv
<1>5. ASSUME NEW q \in recoverable
      PROVE  thread'[q] = Idle /\ RowOf(q)'.status = "failed"
  <2>1. q \in Provider /\ q # p BY <1>3, <1>4
  <2>2. SlotOf(q) \in Slot /\ SlotOf(q) # s /\ RowOf(q) = inv[SlotOf(q)]
    BY <1>1, <2>1, RowType DEF SlotOf
  <2>3. RowOf(q)' = RowOf(q) BY <1>2, <2>2 DEF RowOf, SlotOf
  <2> QED BY <1>2, <2>1, <2>3 DEF AccountInv, RecoverInv
<1>6. RecoverInv'
  <2>1. CASE recoverable' = recoverable
    BY <1>2, <1>5, <2>1 DEF AccountInv, RecoverInv
  <2>2. CASE recoverable' # recoverable
    <3>1. SettleStep(p) BY <2>2, UnsettledStep DEF passVars
    <3>2. /\ recoverable' = recoverable \cup {p}
          /\ RowOf(p)'.status = "failed" /\ thread'[p] = Idle /\ pc = "run"
      BY <2>2, <3>1, SettledOutcome, SettleFacts
    <3> QED BY <1>2, <1>5, <3>2 DEF RecoverInv
  <2> QED BY <2>1, <2>2
<1>7. ASSUME NEW q \in Provider, Accounted(q) PROVE Accounted(q)'
  <2>1. CASE SettleStep(p)
    <3>1. CASE q = p
      BY <2>1, <3>1, SettledOutcome DEF Accounted
    <3>2. CASE q # p
      BY <1>2, <1>7, <2>1, <3>2, SettledOutcome DEF Accounted
    <3> QED BY <3>1, <3>2
  <2>2. CASE ~SettleStep(p)
    BY <1>2, <1>7, <2>2, UnsettledStep DEF Accounted, passVars
  <2> QED BY <2>1, <2>2
<1> QED BY <1>2, <1>6, <1>7, SamePrompts
        DEF AccountInv, ProposalsAccounted

(* What the start of a pass reports for a provider that it does not call   *)
(* is a failure.                                                           *)
LEMMA BeginFails ==
  ASSUME EngineBase, NEW p \in Provider, RowOf(p).status # "succeeded"
  PROVE  FailureAtBegin(p) # NoFailure
<1>1. RowOf(p).status = "failed" => Stored(RowOf(p)).kind # "none"
  BY RowType DEF EngineBase, StoreInv, RowShape, Stored, Error
<1>2. \/ FailureAtBegin(p) \in
           {Unstored("exhausted"), Unstored("suppressed"),
            Unstored("budget"), Unstored("deadline")}
      \/ /\ RowOf(p).status = "failed"
         /\ FailureAtBegin(p) = Stored(RowOf(p))
  BY DEF FailureAtBegin, Refused
<1>3. \A kind \in {"exhausted", "suppressed", "budget", "deadline"} :
        Unstored(kind) # NoFailure
  BY DEF Unstored, NoFailure
<1> QED BY <1>1, <1>2, <1>3 DEF NoFailure

(* Every provider of a pass is then answered, failed or queued.            *)
LEMMA BeginAccount ==
  ASSUME EngineBase, ThreadInv, AccountInv, BeginStage
  PROVE  AccountInv'
<1>1. PICK allowed \in SUBSET Work :
        /\ fail' = [p \in Provider |->
                      IF p \in prompts \ allowed THEN FailureAtBegin(p)
                                                 ELSE fail[p]]
        /\ thread' = [p \in Provider |->
                        IF p \in allowed
                        THEN [at |-> "queued", out |-> "none"] ELSE Idle]
  BY DEF BeginStage
<1>2. /\ pc = "begin" /\ pc' = "run" /\ UNCHANGED <<stage, nsLock>>
      /\ recoverable' = recoverable
      /\ succ' = succ \cup {p \in prompts : RowOf(p).status = "succeeded"}
  BY DEF BeginStage, runVars
<1>3. RecoverInv' BY <1>2 DEF AccountInv, RecoverInv
<1>4. ASSUME NEW p \in Provider, Accounted(p) PROVE Accounted(p)'
  <2>1. CASE p \in allowed
    <3>1. thread'[p].at = "queued" BY <1>1, <2>1
    <3> QED BY <3>1 DEF Accounted, Idle
  <2>2. CASE p \in prompts /\ p \notin allowed
    <3>1. CASE RowOf(p).status = "succeeded"
      BY <1>2, <2>2, <3>1 DEF Accounted
    <3>2. CASE RowOf(p).status # "succeeded"
      BY <1>1, <2>2, <3>2, BeginFails DEF Accounted
    <3> QED BY <3>1, <3>2
  <2>3. CASE p \notin prompts /\ p \notin allowed
    <3>1. fail'[p] = fail[p] BY <1>1, <2>3
    <3>2. thread[p] = Idle BY <1>2 DEF ThreadInv, ThreadsIdle
    <3> QED BY <1>2, <1>4, <2>3, <3>1, <3>2 DEF Accounted
  <2> QED BY <2>1, <2>2, <2>3
<1> QED BY <1>2, <1>3, <1>4
        DEF AccountInv, ProposalsAccounted, NamespaceLocked

(* A recovery takes over what is to be recovered, or reports its failure.  *)
LEMMA StartRecoveryAccount ==
  ASSUME EngineBase, AccountInv, StartRecovery
  PROVE  AccountInv'
<1>1. /\ pc = "run" /\ UNCHANGED <<stage, nsLock, succ, thread>>
      /\ recoverable' = {} /\ pc' \in {"begin", "run"}
      /\ recoverable \cap WithHeadroom # {} =>
           pc' = "begin" /\ prompts' = recoverable \cap WithHeadroom
      /\ fail' = [p \in Provider |->
                    IF p \in recoverable \ WithHeadroom THEN Stored(RowOf(p))
                                                    ELSE fail[p]]
  BY DEF StartRecovery, PassSettled, runVars
<1>2. RecoverInv' BY <1>1 DEF RecoverInv
<1>3. ASSUME NEW p \in Provider, Accounted(p) PROVE Accounted(p)'
  <2>1. CASE p \in recoverable \ WithHeadroom
    <3>1. RowOf(p).status = "failed"
      BY <2>1 DEF AccountInv, RecoverInv
    <3>2. RowOf(p).error \in Error
      BY <3>1, RowType DEF EngineBase, StoreInv, RowShape
    <3>3. fail'[p].kind \in Error BY <1>1, <2>1, <3>2 DEF Stored
    <3>4. fail'[p] # NoFailure BY <3>3 DEF NoFailure, Error
    <3> QED BY <3>4 DEF Accounted
  <2>2. CASE p \in recoverable \cap WithHeadroom
    BY <1>1, <2>2 DEF Accounted
  <2>3. CASE p \notin recoverable
    <3>1. fail'[p] = fail[p] BY <1>1, <2>3
    <3> QED BY <1>1, <1>3, <2>3, <3>1 DEF Accounted
  <2> QED BY <2>1, <2>2, <2>3
<1> QED BY <1>1, <1>2, <1>3
        DEF AccountInv, ProposalsAccounted, NamespaceLocked

(* Every step keeps the account.                                           *)
LEMMA NextAccount ==
  ASSUME EngineBase, ThreadInv, LockInv, AccountInv, [EngineNext]_vars
  PROVE  AccountInv'
<1>1. CASE Keeps
  <2>1. RecoverInv'
    <3>1. recoverable # {} => pc' \in {"run", "draining"}
      BY <1>1 DEF Keeps, AccountInv, RecoverInv
    <3> QED BY <1>1, <3>1 DEF Keeps, AccountInv, RecoverInv, RowOf
  <2>2. ProposalsAccounted'
    BY <1>1 DEF Keeps, AccountInv, ProposalsAccounted, Accounted,
                NamespaceLocked
  <2> QED BY <2>1, <2>2 DEF AccountInv
<1>2. CASE Ends
  BY <1>2 DEF Ends, ProcessEnds, AccountInv, RecoverInv, ProposalsAccounted
<1>3. CASE Resume
  <2>1. /\ recoverable' = {} /\ pc' = "begin" /\ prompts' = Proposers
        /\ nsLock' = nsLock
    BY <1>3 DEF Resume, StartResume, EnterStage
  <2>2. ~NamespaceLocked' => prompts' = Provider
    BY <2>1 DEF NamespaceLocked, Proposers
  <2> QED BY <2>1, <2>2
          DEF AccountInv, RecoverInv, ProposalsAccounted, Accounted
<1>4. CASE ProposalsDone
  <2>1. recoverable = {}
    BY <1>4 DEF ProposalsDone, StageReturns
  <2>2. \/ recoverable' = {} /\ stage' = "jury"
        \/ /\ AdjudicationLocked /\ recoverable' = recoverable
           /\ stage' = "proposal" /\ stage = "proposal"
    BY <1>4 DEF ProposalsDone, EnterStage, JuryDecided, passVars
  <2>3. AdjudicationLocked => NamespaceLocked'
    <3>1. AdjudicationLocked => NamespaceLocked
      BY DEF LockInv, LockOrder
    <3>2. NamespaceLocked => nsLock' = nsLock BY <1>4 DEF ProposalsDone
    <3> QED BY <3>1, <3>2 DEF NamespaceLocked
  <2> QED BY <2>1, <2>2, <2>3
          DEF AccountInv, RecoverInv, ProposalsAccounted
<1>5. CASE SelectRepairs \/ NextSynthesis
  BY <1>5 DEF SelectRepairs, NextSynthesis, EnterStage, AccountInv,
              RecoverInv, ProposalsAccounted
<1>6. CASE Adjudicate
  BY <1>6 DEF Adjudicate, passVars, LockInv, StageLocks, AccountInv,
              RecoverInv, ProposalsAccounted
<1> QED BY <1>1, <1>2, <1>3, <1>4, <1>5, <1>6, RowStepAccount, BeginAccount,
           StartRecoveryAccount, LockKinds

(* No proposal is forgotten, in any process.                               *)
THEOREM AccountHolds == EngineSpec => []AccountInv
<1>1. EngineInit => AccountInv
  BY DEF EngineInit, AccountInv, RecoverInv, ProposalsAccounted
<1>2. RunInv /\ AccountInv /\ [EngineNext]_vars => AccountInv'
  BY NextAccount DEF RunInv
<1> QED BY <1>1, <1>2, RunInvHolds, PTL DEF EngineSpec

----------------------------------------------------------------------------
(* What a clean result stands for.                                         *)

(* Whoever is not among the candidates, whose jury does not count, or who  *)
(* was given up as synthesizer is among the failures of this process.      *)
FailedInv ==
  /\ NamespaceLocked /\ pc # "idle" =>
       {"proposal"} \X (Provider \ nsLock.members) \subseteq failedSlots
  /\ pc = "synth" \/ stage = "synthesis" =>
       {"jury"} \X (Provider \ adjLock.valid) \subseteq failedSlots
  /\ stage = "synthesis" /\ pc # "synth" =>
       AdvancedFailures \subseteq failedSlots
  /\ AdjudicationLocked => adjLock.failed = Provider \ adjLock.valid

(* A jury that was repaired has its audit event before it counts.          *)
AuditInv ==
  /\ pc = "adjudicate" =>
       \A p \in InvalidJuries \cap succ :
         pending[p] # NoAudit \/ repairEvents[p] # NoAudit
  /\ AdjudicationLocked =>
       \A p \in InvalidJuries \cap adjLock.valid : repairEvents[p] # NoAudit

(* A row step is not one of the control.                                   *)
LEMMA RowStepControl ==
  ASSUME EngineBase, ThreadInv, NEW p \in Provider, RowStep(p)
  PROVE  /\ UNCHANGED runVars /\ UNCHANGED ctlVars
         /\ pc \in {"begin", "run", "draining"}
<1>1. PICK s \in Slot : s = SlotOf(p) BY RowType
<1>2. CASE ~SettleStep(p) BY <1>1, <1>2, RowMoves, UnsettledStep
<1>3. CASE SettleStep(p)
  <2>1. SettleFrame
    BY <1>3 DEF SettleStep, SettleUnstarted, SettleUndispatched,
                SettleSuccess, SettleTruncated, SettleFailure
  <2> QED BY <1>1, <2>1, RowMoves DEF SettleFrame
<1> QED BY <1>2, <1>3

(* A proposal that did not become a candidate is among the failures.       *)
LEMMA ProposalsDoneFailed ==
  ASSUME EngineBase, LockInv, AccountInv, FailedInv, ProposalsDone
  PROVE  FailedInv'
<1>1. /\ stage = "proposal" /\ pc = "run" /\ ThreadsIdle
      /\ recoverable = {} /\ pc' \in {"synth", "begin"}
      /\ UNCHANGED adjLock
      /\ nsLock' = IF NamespaceLocked THEN nsLock
                   ELSE [members |-> Proposals,
                         failed |-> Provider \ Proposals]
      /\ ProposalFailures \subseteq failedSlots'
  BY DEF ProposalsDone, StageReturns, PassSettled, EnterStage
<1>2. {"proposal"} \X (Provider \ nsLock'.members) \subseteq failedSlots'
  <2>1. CASE NamespaceLocked
    <3>1. failedSlots \subseteq failedSlots' BY <1>1 DEF ProposalFailures
    <3>2. {"proposal"} \X (Provider \ nsLock.members) \subseteq failedSlots
      BY <1>1, <2>1 DEF FailedInv
    <3> QED BY <1>1, <2>1, <3>1, <3>2
  <2>2. CASE ~NamespaceLocked
    <3>1. ASSUME NEW p \in Provider, p \notin Proposals
          PROVE  <<"proposal", p>> \in ProposalFailures
      <4>1. thread[p] = Idle BY <1>1 DEF ThreadsIdle
      <4>2. p \in succ \/ fail[p] # NoFailure
        BY <1>1, <2>2, <4>1
        DEF AccountInv, ProposalsAccounted, Accounted
      <4>3. CASE p \in succ
        BY <3>1, <4>3 DEF ProposalFailures
      <4>4. CASE fail[p] # NoFailure
        <5>1. SlotOf(p) \in FailedNow BY <4>4 DEF FailedNow
        <5> QED BY <1>1, <5>1 DEF ProposalFailures, SlotOf
      <4> QED BY <4>2, <4>3, <4>4
    <3>2. nsLock'.members = Proposals BY <1>1, <2>2
    <3> QED BY <1>1, <3>1, <3>2
  <2> QED BY <2>1, <2>2
<1>3. \/ /\ stage' = "jury" /\ pc' = "begin"
      \/ /\ AdjudicationLocked /\ stage' = "proposal"
         /\ {"jury"} \X adjLock.failed \subseteq failedSlots'
  BY <1>1 DEF ProposalsDone, EnterStage, JuryDecided
<1>4. AdjudicationLocked' = AdjudicationLocked BY <1>1 DEF AdjudicationLocked
<1>5. AdjudicationLocked => adjLock.failed = Provider \ adjLock.valid
  BY DEF FailedInv
<1> QED BY <1>1, <1>2, <1>3, <1>4, <1>5 DEF FailedInv

(* Failures are only ever added, and forgotten when the process ends.      *)
LEMMA NextFailed ==
  ASSUME EngineBase, ThreadInv, LockInv, AccountInv, FailedInv,
         [EngineNext]_vars
  PROVE  FailedInv'
<1>1. CASE \E p \in Provider : RowStep(p)
  BY <1>1, RowStepControl
  DEF FailedInv, runVars, ctlVars, NamespaceLocked, AdjudicationLocked,
      AdvancedFailures
<1>2. CASE SynthesisFallback
  <2>1. /\ UNCHANGED <<nsLock, adjLock, failedSlots, stage>>
        /\ stage = "synthesis" /\ pc' = "synth" /\ pc = "run"
    BY <1>2 DEF SynthesisFallback, StageReturns, PassSettled
  <2> QED BY <2>1 DEF FailedInv, NamespaceLocked, AdjudicationLocked
<1>3. CASE UNCHANGED fallbacks /\ ~(\E p \in Provider : RowStep(p))
           /\ ~SynthesisFallback
  <2>1. AdvancedFailures' = AdvancedFailures BY <1>3 DEF AdvancedFailures
  <2>2. CASE Keeps
    <3>1. /\ UNCHANGED <<nsLock, adjLock, failedSlots, stage>>
          /\ pc' # "idle" => pc # "idle"
          /\ pc' = "synth" => pc = "synth" \/ stage = "synthesis"
          /\ pc' # "synth" => pc # "synth"
      BY <2>2 DEF Keeps
    <3> QED BY <2>1, <3>1 DEF FailedInv, NamespaceLocked, AdjudicationLocked
  <2>3. CASE Ends
    BY <2>3 DEF Ends, ProcessEnds, FailedInv, AdjudicationLocked
  <2>4. CASE Resume
    <3>1. /\ failedSlots' = {"proposal"} \X nsLock.failed
          /\ UNCHANGED <<nsLock, adjLock>> /\ NamespaceOK
          /\ stage' = "proposal" /\ pc' = "begin"
      BY <2>4 DEF Resume, StartResume, EnterStage
    <3>2. NamespaceLocked => nsLock.failed = Provider \ nsLock.members
      BY <3>1 DEF NamespaceOK
    <3> QED BY <3>1, <3>2
            DEF FailedInv, NamespaceLocked, AdjudicationLocked
  <2>5. CASE BeginStage \/ StartRecovery
    <3>1. /\ UNCHANGED <<nsLock, adjLock, failedSlots, stage>>
          /\ pc \in {"begin", "run"} /\ pc' \in {"begin", "run"}
      BY <2>5 DEF BeginStage, StartRecovery, PassSettled, runVars
    <3> QED BY <2>1, <3>1 DEF FailedInv, NamespaceLocked, AdjudicationLocked
  <2>6. CASE ProposalsDone BY <2>6, ProposalsDoneFailed
  <2>7. CASE SelectRepairs
    <3>1. /\ UNCHANGED <<nsLock, adjLock>>
          /\ failedSlots \subseteq failedSlots' /\ pc = "run"
          /\ stage' = "jury_repair" /\ pc' = "begin"
      BY <2>7 DEF SelectRepairs, EnterStage, StageReturns, PassSettled,
                  runVars
    <3> QED BY <3>1 DEF FailedInv, NamespaceLocked, AdjudicationLocked
  <2>8. CASE Adjudicate
    <3>1. /\ UNCHANGED <<nsLock, stage>> /\ pc = "adjudicate"
          /\ failedSlots' = JuryFailures /\ pc' = "synth"
          /\ adjLock'.valid = ValidJuries
          /\ adjLock'.failed = Provider \ ValidJuries
      BY <2>8 DEF Adjudicate
    <3>2. stage = "jury_repair" BY <3>1 DEF LockInv, StageLocks
    <3> QED BY <3>1, <3>2 DEF FailedInv, NamespaceLocked, JuryFailures
  <2>9. CASE NextSynthesis
    <3>1. /\ UNCHANGED <<nsLock, adjLock>> /\ pc = "synth"
          /\ failedSlots' = failedSlots \cup AdvancedFailures
          /\ stage' = "synthesis" /\ pc' = "begin"
      BY <2>9 DEF NextSynthesis, EnterStage, runVars
    <3> QED BY <2>1, <3>1 DEF FailedInv, NamespaceLocked, AdjudicationLocked
  <2> QED BY <1>3, <2>2, <2>3, <2>4, <2>5, <2>6, <2>7, <2>8, <2>9, LockKinds
<1> QED BY <1>1, <1>2, <1>3, SynthKinds

(* How the repair audit and the waiting audit events can change.           *)
LEMMA AuditKinds ==
  ASSUME EngineBase, ThreadInv, [EngineNext]_vars
  PROVE  /\ \/ UNCHANGED repairEvents
            \/ \E p \in Provider : WriteRepair(p)
         /\ \/ pc' # "adjudicate"
            \/ UNCHANGED <<inv, succ, pending, pc, adjLock>>
            \/ \E p \in Provider : WriteRepair(p)
            \/ RepairsDone
<1>1. CASE UNCHANGED vars BY <1>1 DEF vars, runVars, ctlVars, passVars,
                                      storeVars
<1>2. CASE \E p \in Provider : RowStep(p)
  BY <1>2, RowStepControl DEF runVars, ctlVars
<1>3. CASE Expire \/ Interrupt \/ Crash \/ Drained
  BY <1>3 DEF Expire, Interrupt, Crash, Drained, ProcessEnds, runVars,
              passVars, storeVars
<1>4. CASE Resume BY <1>4 DEF Resume, StartResume, EnterStage
<1>5. CASE \E p \in Provider : WriteRecovery(p)
  BY <1>5 DEF WriteRecovery, ctlVars
<1>6. CASE BeginStage \/ StartRecovery \/ EndRecovery \/ RepairsDone
  BY <1>6 DEF BeginStage, StartRecovery, EndRecovery, PassSettled,
              RepairsDone, runVars
<1>7. CASE \/ ProposalsShort \/ JuriesShort \/ SynthesisTooLate
           \/ SynthesisDone \/ SynthesisFails
  BY <1>7 DEF ProposalsShort, JuriesShort, SynthesisTooLate, SynthesisDone,
              SynthesisFails, Finish, ProcessEnds
<1>8. CASE ProposalsDone \/ SelectRepairs \/ Adjudicate \/ NextSynthesis
           \/ SynthesisFallback
  BY <1>8 DEF ProposalsDone, SelectRepairs, Adjudicate, NextSynthesis,
              SynthesisFallback, EnterStage, runVars
<1>9. CASE \E p \in Provider : WorkerStep(p) BY <1>2, <1>9 DEF RowStep
<1>10. CASE MainStep
  BY <1>2, <1>5, <1>6, <1>7, <1>8, <1>10
  DEF MainStep, RowStep, LeaseStep, SettleStep
<1> QED BY <1>1, <1>3, <1>4, <1>9, <1>10 DEF EngineNext

(* WriteRepair: a waiting event is stored.                                 *)
LEMMA WriteRepairAudit ==
  ASSUME EngineBase, LockInv, AuditInv, NEW p \in Provider, WriteRepair(p)
  PROVE  AuditInv'
<1>1. /\ pc = "adjudicate" /\ pending[p] # NoAudit
      /\ repairEvents' = [repairEvents EXCEPT ![p] = pending[p]]
      /\ pending' = [pending EXCEPT ![p] = NoAudit]
      /\ UNCHANGED <<inv, succ, pc, adjLock>>
  BY DEF WriteRepair, FirstPending, storeVars, ctlVars
<1>2. /\ repairEvents \in [Provider -> [status : AuditStatus,
                                        cause : Failure]]
      /\ pending \in [Provider -> [status : AuditStatus, cause : Failure]]
  BY DEF EngineBase, RunTypeOK, PassTypeOK
<1>3. /\ repairEvents'[p] # NoAudit
      /\ \A q \in Provider : q # p => /\ repairEvents'[q] = repairEvents[q]
                                      /\ pending'[q] = pending[q]
  BY <1>1, <1>2
<1>4. /\ InvalidJuries' = InvalidJuries
      /\ AdjudicationLocked' = AdjudicationLocked
      /\ InvalidJuries \subseteq Provider
  BY <1>1 DEF InvalidJuries, JuryResponses, AdjudicationLocked
<1> QED BY <1>1, <1>3, <1>4 DEF AuditInv

(* Only Adjudicate changes the verdict.                                    *)
LEMMA VerdictKinds ==
  ASSUME EngineBase, ThreadInv, [EngineNext]_vars, ~Adjudicate
  PROVE  adjLock' = adjLock
<1>1. CASE \E p \in Provider : RowStep(p)
  BY <1>1, RowStepControl DEF runVars
<1>2. CASE Keeps \/ Ends BY <1>2 DEF Keeps, Ends
<1>3. CASE \/ Resume \/ BeginStage \/ StartRecovery \/ ProposalsDone
           \/ SelectRepairs \/ NextSynthesis
  BY <1>3 DEF Resume, StartResume, BeginStage, StartRecovery, ProposalsDone,
              SelectRepairs, NextSynthesis, runVars
<1> QED BY <1>1, <1>2, <1>3, LockKinds

(* Every step keeps the audit.                                             *)
LEMMA NextAudit ==
  ASSUME RunInv, RunInv', AuditInv, [EngineNext]_vars
  PROVE  AuditInv'
<1> USE DEF RunInv
<1>1. CASE \E p \in Provider : WriteRepair(p)
  BY <1>1, WriteRepairAudit
<1>2. CASE ~\E p \in Provider : WriteRepair(p)
  <2>1. repairEvents' = repairEvents BY <1>2, AuditKinds
  <2>2. ASSUME pc' = "adjudicate", NEW p \in InvalidJuries' \cap succ'
        PROVE  pending'[p] # NoAudit \/ repairEvents'[p] # NoAudit
    <3>1. CASE UNCHANGED <<inv, succ, pending, pc, adjLock>>
      BY <2>1, <2>2, <3>1 DEF AuditInv, InvalidJuries, JuryResponses
    <3>2. CASE RepairsDone
      <4>1. /\ inv' = inv /\ succ' = succ /\ stage = "jury_repair"
            /\ pending' = [q \in Provider |-> RepairAudit(q)]
        BY <3>2 DEF RepairsDone, storeVars
      <4>2. p \in Provider /\ p \in prompts /\ p \in Repairable
            /\ p \in InvalidJuries /\ p \in succ
        BY <2>2, <4>1 DEF PassInv, RepairPass, InvalidJuries, JuryResponses
      <4>3. JuryRepair BY <4>2 DEF Repairable
      <4>4. RepairAudit(p) =
              Audit(IF p \in Repaired THEN "recovered" ELSE "failed",
                    NoFailure)
        BY <4>2, <4>3 DEF RepairAudit
      <4>5. RepairAudit(p).status # "none" BY <4>4 DEF Audit
      <4> QED BY <4>1, <4>2, <4>5 DEF NoAudit
    <3> QED BY <1>2, <2>2, <3>1, <3>2, AuditKinds
  <2>3. ASSUME AdjudicationLocked', NEW p \in InvalidJuries' \cap adjLock'.valid
        PROVE  repairEvents[p] # NoAudit
    <3>1. CASE Adjudicate
      <4>1. /\ pc = "adjudicate" /\ NonePending /\ inv' = inv
            /\ adjLock'.valid = ValidJuries
        BY <3>1 DEF Adjudicate, storeVars
      <4>2. p \in InvalidJuries /\ p \in Provider /\ p \in ValidJuries
        BY <2>3, <4>1 DEF InvalidJuries, JuryResponses
      <4>3. p \in succ BY <4>2 DEF ValidJuries, Repaired
      <4> QED BY <4>1, <4>2, <4>3 DEF AuditInv, NonePending
    <3>2. CASE ~Adjudicate
      <4>1. adjLock' = adjLock /\ AdjudicationLocked
        BY <2>3, <3>2, VerdictKinds DEF AdjudicationLocked
      <4>2. \A s \in Slot : s[1] # "synthesis" => inv'[s] = inv[s]
        BY <4>1, StagesCloseStep DEF ClosedStep
      <4>3. \A q \in Provider : inv'[<<"jury", q>>] = inv[<<"jury", q>>]
        BY <4>2, StageSlots
      <4>4. InvalidJuries' = InvalidJuries
        BY <4>3 DEF InvalidJuries, JuryResponses
      <4> QED BY <2>3, <4>1, <4>4 DEF AuditInv
    <3> QED BY <3>1, <3>2
  <2> QED BY <2>1, <2>2, <2>3 DEF AuditInv
<1> QED BY <1>1, <1>2

(* Only SynthesisDone makes a result clean.                                *)
LEMMA ResultKinds ==
  ASSUME EngineBase, ThreadInv, [EngineNext]_vars
  PROVE  \/ UNCHANGED result
         \/ result'.clean = FALSE
         \/ SynthesisDone
<1>1. CASE \E p \in Provider : RowStep(p)
  BY <1>1, RowStepControl DEF runVars
<1>2. CASE UNCHANGED vars \/ Expire \/ Interrupt \/ Crash \/ Drained
           \/ Resume
  BY <1>2 DEF vars, Expire, Interrupt, Crash, Drained, Resume, StartResume,
              runVars
<1>3. CASE \E p \in Provider : WriteRecovery(p) \/ WriteRepair(p)
  BY <1>3 DEF WriteRecovery, WriteRepair
<1>4. CASE BeginStage \/ StartRecovery \/ EndRecovery \/ RepairsDone
  BY <1>4 DEF BeginStage, StartRecovery, EndRecovery, RepairsDone, runVars
<1>5. CASE \/ ProposalsShort \/ JuriesShort \/ SynthesisTooLate
           \/ SynthesisFails
  <2>1. PICK status, failures :
          /\ status \in {"partial", "failed"}
          /\ Finish(status, failures, NoAnswer)
    BY <1>5 DEF ProposalsShort, JuriesShort, SynthesisTooLate,
                SynthesisFails
  <2>2. result'.clean = (status = "completed"
                           /\ Unblemished(failures, NoAnswer))
    BY <2>1 DEF Finish
  <2>3. status # "completed" BY <2>1
  <2> QED BY <2>2, <2>3
<1>6. CASE ProposalsDone \/ SelectRepairs \/ Adjudicate \/ NextSynthesis
           \/ SynthesisFallback
  BY <1>6 DEF ProposalsDone, SelectRepairs, Adjudicate, NextSynthesis,
              SynthesisFallback, runVars
<1>7. CASE \E p \in Provider : WorkerStep(p) BY <1>1, <1>7 DEF RowStep
<1>8. CASE MainStep
  BY <1>1, <1>3, <1>4, <1>5, <1>6, <1>8
  DEF MainStep, RowStep, LeaseStep, SettleStep
<1> QED BY <1>2, <1>7, <1>8 DEF EngineNext

(* What CleanMeansClean says of the rows.                                  *)
CleanRows ==
  \A s \in Slot :
    IF s[1] \in {"proposal", "jury"} \/ s = <<"synthesis", Synth[1]>>
    THEN inv[s].response = "good" /\ inv[s].calls = 1
    ELSE inv[s] = NoRow

(* A good response of a slot without a retry event came at the first call. *)
LEMMA FirstCall ==
  ASSUME EngineBase, retryEvents = {}, NEW s \in Slot,
         inv[s].response = "good"
  PROVE  inv[s].calls = 1
<1>1. inv[s].calls \in Nat /\ inv[s].calls >= 1
  BY GoodIsAnswered DEF EngineBase, StoreInv, StoreTypeOK, Row, RowShape
<1>2. ASSUME inv[s].calls >= 2 PROVE FALSE
  <2>1. \E e \in retryEvents : e.slot = s /\ e.count = 2
    BY <1>1, <1>2 DEF EngineBase, StoreInv, EventsComplete
  <2> QED BY <2>1
<1> QED BY <1>1, <1>2

(* _build_result calls a result clean on failures, retries, recoveries and *)
(* repairs being empty: then every row is as it should be.                 *)
LEMMA UnblemishedRows ==
  ASSUME RunInv, FailedInv, AuditInv, stage = "synthesis", pc = "run",
         Unblemished(failedSlots, Synthesizer)
  PROVE  Synthesizer = Synth[1] /\ CleanRows
<1> USE DEF RunInv
<1>1. /\ failedSlots = {} /\ retryEvents = {}
      /\ \A p \in Provider : repairEvents[p] = NoAudit
      /\ inv[<<"synthesis", Synthesizer>>].response = "good"
  BY DEF Unblemished
<1>2. NamespaceLocked /\ AdjudicationLocked BY DEF LockInv, StageLocks
<1>3. Synthesizer = Synth[1] /\ Len(fallbacks) = 0
  <2>1. AdvancedFailures = {} BY <1>1 DEF FailedInv
  <2>2. Len(fallbacks) \in Nat BY CurrentType
  <2>3. ~(1 \in 1 .. Len(fallbacks)) BY <2>1 DEF AdvancedFailures
  <2>4. Len(fallbacks) = 0 BY <2>2, <2>3
  <2> QED BY <2>4, CurrentType DEF Current
<1>4. \A p \in Provider : inv[<<"proposal", p>>].response = "good"
  <2>1. ASSUME NEW p \in Provider PROVE p \in nsLock.members
    <3>1. <<"proposal", p>> \notin failedSlots BY <1>1
    <3> QED BY <1>2, <3>1 DEF FailedInv
  <2> QED BY <1>2, <2>1 DEF LockInv, FrozenMembership
<1>5. \A p \in Provider : p \in JuryResponses \ InvalidJuries
  <2> SUFFICES ASSUME NEW p \in Provider
               PROVE  p \in JuryResponses \ InvalidJuries
    OBVIOUS
  <2>1. p \in adjLock.valid
    <3>1. <<"jury", p>> \notin failedSlots BY <1>1
    <3> QED BY <3>1 DEF FailedInv
  <2>2. p \notin InvalidJuries BY <1>1, <1>2, <2>1 DEF AuditInv
  <2> QED BY <1>2, <2>1, <2>2 DEF LockInv, FrozenMembership
<1>6. \A p \in Provider : inv[<<"jury", p>>].response = "good"
  BY <1>5 DEF InvalidJuries
<1>7. \A p \in Provider : inv[<<"jury_repair", p>>].status = "none"
  BY <1>5 DEF PassInv, RepairRows, Repairable
<1>8. ASSUME NEW p \in Provider, p # Synth[1]
      PROVE  inv[<<"synthesis", p>>].status = "none"
  BY <1>3, <1>8 DEF SynthInv, SynthRows
<1>9. ASSUME NEW s \in Slot
      PROVE  IF s[1] \in {"proposal", "jury"} \/ s = <<"synthesis", Synth[1]>>
             THEN inv[s].response = "good" /\ inv[s].calls = 1
             ELSE inv[s] = NoRow
  <2>1. PICK st \in Stages, p \in Provider : s = <<st, p>>
    BY StageType DEF Slot
  <2>2. CASE st \in {"proposal", "jury"}
    BY <1>1, <1>4, <1>6, <2>1, <2>2, FirstCall
  <2>3. CASE st = "synthesis" /\ p = Synth[1]
    BY <1>1, <1>3, <2>1, <2>3, FirstCall
  <2>4. CASE st = "jury_repair" \/ (st = "synthesis" /\ p # Synth[1])
    <3>1. inv[s].status = "none" BY <1>7, <1>8, <2>1, <2>4
    <3>2. inv[s] = NoRow
      BY <3>1 DEF EngineBase, StoreInv, RowShape
    <3> QED BY <2>1, <2>4, <3>2
  <2> QED BY <2>2, <2>3, <2>4 DEF Stages
<1> QED BY <1>3, <1>9 DEF CleanRows

(* Where every row is answered or missing no call is unresolved.           *)
LEMMA NothingUnresolved ==
  ASSUME EngineBase, HistoryInv, CleanRows PROVE unresolved = {}
<1>1. ASSUME NEW s \in Slot PROVE NotInDoubt(s)
  <2>1. CASE inv[s].response = "good"
    <3>1. inv[s].status = "succeeded" BY <2>1, GoodIsAnswered
    <3> QED BY <3>1 DEF EngineBase, StoreInv, RowShape, NotInDoubt
  <2>2. CASE inv[s] = NoRow BY <2>2, NoRowFields DEF NotInDoubt
  <2> QED BY <2>1, <2>2 DEF CleanRows
<1>2. unresolved \subseteq Slot BY DEF EngineBase, HistoryTypeOK
<1> QED BY <1>1, <1>2 DEF HistoryInv, SlotHistoryOK

(* A result becomes clean with the rows it stands for, and those stay.     *)
LEMMA NextClean ==
  ASSUME RunInv, RunInv', HistoryInv, HistoryInv', FailedInv, AuditInv,
         CompletedIsIdle, CleanMeansClean, [EngineNext]_vars
  PROVE  CleanMeansClean'
<1> USE DEF RunInv
<1> SUFFICES ASSUME result'.clean PROVE CleanMeansClean'
  BY DEF CleanMeansClean
<1>0. result'.clean # FALSE OBVIOUS
<1>1. CASE SynthesisDone
  <2>1. /\ stage = "synthesis" /\ pc = "run" /\ inv' = inv
        /\ runStatus' = "completed" /\ result'.answer = Synthesizer
        /\ result'.clean = Unblemished(failedSlots, Synthesizer)
    BY <1>1 DEF SynthesisDone, StageReturns, PassSettled, Finish, storeVars
  <2>2. Unblemished(failedSlots, Synthesizer) BY <2>1
  <2>3. Synthesizer = Synth[1] /\ CleanRows
    BY <2>1, <2>2, UnblemishedRows
  <2>4. CleanRows' BY <2>1, <2>3 DEF CleanRows
  <2>5. unresolved = {} BY <2>3, NothingUnresolved
  <2>6. unresolved' = unresolved
    BY <1>1 DEF SynthesisDone, Finish, hisVars
  <2> QED BY <2>1, <2>3, <2>4, <2>5, <2>6 DEF CleanMeansClean, CleanRows
<1>2. CASE result' = result
  <2>1. /\ runStatus = "completed" /\ result.answer = Synth[1]
        /\ unresolved = {} /\ CleanRows
    BY <1>2 DEF CleanMeansClean, CleanRows
  <2>2. runStatus' = runStatus BY <2>1, CompletedStep
  <2>3. pc = "idle" BY <2>1 DEF CompletedIsIdle
  <2>4. ~\E p \in Provider : RowStep(p) BY <2>3, RowStepControl
  <2>5. UNCHANGED <<inv, unresolved>>
    <3>1. CASE Quiet \/ Steady
      BY <3>1 DEF Quiet, Steady, storeVars, hisVars
    <3>2. CASE BeginStage
      BY <3>2, BeginFacts DEF storeVars, hisVars
    <3> QED BY <2>4, <3>1, <3>2, StepKinds DEF RowStep
  <2>6. CleanRows' BY <2>1, <2>5 DEF CleanRows
  <2> QED BY <1>2, <2>1, <2>2, <2>5, <2>6 DEF CleanMeansClean, CleanRows
<1> QED BY <1>0, <1>1, <1>2, ResultKinds

(* CleanIsClean: a result called clean hides no failure, retry, recovery,  *)
(* repair or lost call of any process that worked on the run.              *)
THEOREM CleanIsClean == EngineSpec => []CleanMeansClean
<1> DEFINE Known == RunInv /\ HistoryInv /\ AccountInv
<1> DEFINE Clean == FailedInv /\ AuditInv /\ CompletedIsIdle
                      /\ CleanMeansClean
<1>1. EngineInit => Clean
  <2> SUFFICES ASSUME EngineInit PROVE Clean OBVIOUS
  <2>1. /\ pc = "idle" /\ stage = "proposal" /\ runStatus = "created"
        /\ adjLock = NoVerdict /\ result = NoResult
    BY DEF EngineInit
  <2> QED BY <2>1 DEF FailedInv, AuditInv, CompletedIsIdle,
                      CleanMeansClean, AdjudicationLocked, NoResult
<1>2. Known /\ Known' /\ Clean /\ [EngineNext]_vars => Clean'
  <2> SUFFICES ASSUME Known, Known', Clean, [EngineNext]_vars PROVE Clean'
    OBVIOUS
  <2>1. FailedInv' BY NextFailed DEF RunInv
  <2>2. AuditInv' BY NextAudit
  <2>3. CompletedIsIdle' BY CompletedStep
  <2>4. CleanMeansClean' BY NextClean
  <2> QED BY <2>1, <2>2, <2>3, <2>4
<1>3. EngineSpec => []Known
  BY RunInvHolds, HistoryHolds, AccountHolds, PTL
<1>4. Clean => CleanMeansClean OBVIOUS
<1> QED BY <1>1, <1>2, <1>3, <1>4, PTL DEF EngineSpec

----------------------------------------------------------------------------
(* A run that was left can be resumed: what a stage reports of a call that *)
(* it does not repeat is what the call's row says.                         *)

(* A response was cut off, and nothing stands in the way of its retry: it  *)
(* has one left, and no call of its provider is in doubt.                  *)
Ready(p) ==
  /\ thread[p] = Idle /\ stage \notin oversized
  /\ RowOf(p).status = "failed" /\ RowOf(p).error = "length"
  /\ TruncationRetriesOf(SlotOf(p)) < TruncationRetries
  /\ \A st \in Stages : NotInDoubt(<<st, p>>)

ReadyInv ==
  /\ \A p \in recoverable : Ready(p)
  /\ pc = "begin" /\ nested => \A p \in prompts : Ready(p)
  /\ \A p \in Provider : thread[p] # Idle => stage \notin oversized

(* A step on one slot writes no retry event of another one.                *)
LEMMA RetriesStay ==
  ASSUME EngineBase, ThreadInv, TruncationInv, NEW p \in Provider,
         RowStep(p), NEW t \in Slot, t # SlotOf(p) \/ ~StartCall(p)
  PROVE  /\ TruncationRetriesOf(t)' \in Nat
         /\ TruncationRetriesOf(t)' <= TruncationRetriesOf(t)
<1>1. PICK s \in Slot : s = SlotOf(p) BY RowType
<1>2. CASE StartCall(p)
  <2>1. start_invocation(s, PromptOf(stage)) BY <1>1, <1>2 DEF StartCall
  <2>2. \/ retryEvents' = retryEvents
        \/ retryEvents' = retryEvents \cup {RetryOf(s)}
    BY <2>1 DEF start_invocation
  <2>3. RetryOf(s).slot = s BY DEF RetryOf
  <2>4. TruncationsOf(t)' = TruncationsOf(t)
    BY <1>1, <1>2, <2>2, <2>3 DEF TruncationsOf
  <2>5. TruncationRetriesOf(t) \in Nat
    BY TruncationCount DEF TruncationInv
  <2>6. TruncationRetriesOf(t)' = TruncationRetriesOf(t)
    BY <2>4, Zenon DEF TruncationRetriesOf, TruncationsOf
  <2> QED BY <2>5, <2>6
<1>3. CASE ~StartCall(p)
  <2>1. retryEvents' \subseteq retryEvents
    <3>1. CASE MarkLost(p)
      BY <3>1, MarkLostFacts DEF finish_invocation_failure
    <3>2. CASE LeaseStep(p) BY <3>2, LeaseFacts DEF storeVars
    <3>3. CASE WorkerStep(p) BY <1>3, <3>3, WorkerFacts DEF storeVars
    <3>4. CASE SettleStep(p)
      BY <1>1, <3>4, SettledRow
      DEF storeVars, release_undispatched_invocation
    <3> QED BY <3>1, <3>2, <3>3, <3>4 DEF RowStep
  <2>2. /\ IsFiniteSet(retryEvents')
        /\ TruncationRetriesOf(t)' <= TruncationRetriesOf(t)
    BY <2>1, TruncationsShrink DEF TruncationInv
  <2>3. TruncationsOf(t)' \subseteq retryEvents' BY DEF TruncationsOf
  <2>4. Cardinality(TruncationsOf(t)') \in Nat
    BY <2>2, <2>3, FS_Subset, FS_CardinalityType
  <2> QED BY <2>2, <2>4 DEF TruncationRetriesOf, TruncationsOf
<1> QED BY <1>2, <1>3

(* What was ready stays ready while other slots move.                      *)
LEMMA OthersReady ==
  ASSUME EngineBase, ThreadInv, TruncationInv, NEW p \in Provider,
         RowStep(p), UNCHANGED oversized, NEW q \in Provider, q # p, Ready(q)
  PROVE  Ready(q)'
<1>1. PICK s \in Slot : s = SlotOf(p) BY RowType
<1>2. /\ stage' = stage
      /\ \A t \in Slot : t # s => inv'[t] = inv[t]
      /\ thread'[q] = thread[q]
  BY <1>1, RowMoves
<1>3. \A st \in Stages : <<st, q>> \in Slot /\ <<st, q>> # s
  BY <1>1, SlotOfType DEF SlotOf
<1>4. \A st \in Stages : inv'[<<st, q>>] = inv[<<st, q>>] BY <1>2, <1>3
<1>5. stage \in Stages /\ SlotOf(q)' = SlotOf(q) /\ SlotOf(q) \in Slot
  BY <1>2, RowType DEF SlotOf
<1>6. RowOf(q)' = RowOf(q) BY <1>2, <1>4, <1>5 DEF RowOf
<1>7. TruncationRetriesOf(SlotOf(q))' < TruncationRetries
  <2>1. PICK t \in Slot : t = SlotOf(q) BY <1>5
  <2>2. t # s BY <1>3, <1>5, <2>1 DEF SlotOf
  <2>3. /\ TruncationRetriesOf(t)' \in Nat
        /\ TruncationRetriesOf(t)' <= TruncationRetriesOf(t)
    BY <1>1, <2>2, RetriesStay
  <2>4. TruncationRetriesOf(t)' = TruncationRetriesOf(SlotOf(q))'
    BY <1>5, <2>1
  <2>5. TruncationRetriesOf(t) < TruncationRetries
    BY <2>1 DEF Ready
  <2>6. TruncationRetries \in Nat BY EngineAssumption
  <2>7. IsFiniteSet(retryEvents) BY DEF TruncationInv
  <2>8. TruncationRetriesOf(t) \in Nat BY <2>7, TruncationCount
  <2> QED BY <2>3, <2>4, <2>5, <2>6, <2>8
<1>8. \A st \in Stages : NotInDoubt(<<st, q>>)'
  BY <1>4 DEF Ready, NotInDoubt
<1> QED BY <1>2, <1>6, <1>7, <1>8 DEF Ready

(* A first response that was cut off is ready for its retry.               *)
LEMMA TruncatedReady ==
  ASSUME EngineBase, ThreadInv, ReadyInv, NEW p \in Provider,
         SettleTruncated(p), UNCHANGED oversized
  PROVE  Ready(p)'
<1>1. PICK s \in Slot : s = SlotOf(p) BY RowType
<1>2. SettleStep(p) BY DEF SettleStep
<1>3. stage' = stage /\ thread'[p] = Idle
  BY <1>2, SettleFacts DEF Touches
<1>4. thread[p] # Idle BY DEF SettleTruncated, Idle
<1>5. SlotOf(p)' = s /\ RowOf(p)' = inv'[s] BY <1>1, <1>3 DEF SlotOf, RowOf
<1>6. finish_invocation_failure(s, "length") /\ MayRecover(p)
  BY <1>1 DEF SettleTruncated
<1>7. /\ inv'[s].status = "failed" /\ inv'[s].error = "length"
      /\ retryEvents' = retryEvents
      /\ \A t \in Slot : t # s => inv'[t] = inv[t]
  <2>1. inv \in [Slot -> Row] BY DEF EngineBase, StoreInv, StoreTypeOK
  <2> QED BY <1>6, <2>1 DEF finish_invocation_failure, Row
<1>8. TruncationRetriesOf(s)' < TruncationRetries
  <2>1. TruncationRetriesOf(s) < TruncationRetries
    BY <1>1, <1>6 DEF MayRecover
  <2> QED BY <1>7, <2>1 DEF TruncationRetriesOf
<1>9. ASSUME NEW st \in Stages PROVE NotInDoubt(<<st, p>>)'
  <2>1. PICK t \in Slot : t = <<st, p>> BY SlotOfType
  <2>2. CASE t = s BY <1>7, <2>1, <2>2 DEF NotInDoubt
  <2>3. CASE t # s
    <3>1. st # stage BY <1>1, <2>1, <2>3 DEF SlotOf
    <3>2. NotInDoubt(<<st, p>>) BY <1>4, <3>1 DEF ThreadInv, ThreadOK
    <3> QED BY <1>7, <2>1, <2>3, <3>2 DEF NotInDoubt
  <2> QED BY <2>2, <2>3
<1>10. TruncationRetriesOf(SlotOf(p))' < TruncationRetries
  <2>1. TruncationRetriesOf(SlotOf(p))' = TruncationRetriesOf(s)'
    BY <1>5
  <2> QED BY <1>8, <2>1
<1> QED BY <1>3, <1>4, <1>5, <1>7, <1>9, <1>10 DEF Ready, ReadyInv

(* A call in flight leaves what is ready alone, or makes itself ready.     *)
LEMMA RowStepReady ==
  ASSUME EngineBase, ThreadInv, PassInv, TruncationInv, AccountInv,
         ReadyInv, NEW p \in Provider, RowStep(p), UNCHANGED oversized
  PROVE  ReadyInv'
<1>1. PICK s \in Slot : s = SlotOf(p) BY RowType
<1>2. /\ UNCHANGED <<stage, pc, nested, prompts>>
      /\ \A q \in Provider : q # p => thread'[q] = thread[q]
      /\ thread[p] # Idle \/ (p \in prompts /\ MarkLost(p))
      /\ thread'[p] # Idle => thread[p] # Idle
  BY <1>1, RowMoves
<1>3. recoverable \subseteq Provider /\ prompts \subseteq Provider
  BY DEF EngineBase, PassTypeOK
<1>4. p \notin recoverable
  BY <1>2 DEF MarkLost, AccountInv, RecoverInv
<1>5. \A q \in recoverable : Ready(q)'
  <2>1. ASSUME NEW q \in recoverable PROVE Ready(q)'
    BY <1>3, <1>4, OthersReady DEF ReadyInv
  <2> QED BY <2>1
<1>6. \A q \in recoverable' : Ready(q)'
  <2>1. CASE recoverable' = recoverable BY <1>5, <2>1
  <2>2. CASE recoverable' # recoverable
    <3>1. SettleStep(p) BY <2>2, UnsettledStep DEF passVars
    <3>2. recoverable' = recoverable \cup {p} /\ SettleTruncated(p)
      BY <2>2, <3>1, SettledOutcome
    <3> QED BY <1>5, <3>2, TruncatedReady
  <2> QED BY <2>1, <2>2
<1>7. pc = "begin" /\ nested => \A q \in prompts : Ready(q)'
  <2> SUFFICES ASSUME pc = "begin", nested, NEW q \in prompts
               PROVE  Ready(q)'
    OBVIOUS
  <2>1. q \in Provider /\ Ready(q) BY <1>3 DEF ReadyInv
  <2>2. thread[p] = Idle BY DEF ThreadInv, ThreadsIdle
  <2>3. p \in prompts /\ MarkLost(p) BY <1>2, <2>2
  <2>4. RowOf(p).status = "running"
    <3>1. finish_invocation_failure(s, "ambiguous") /\ RowOf(p) = inv[s]
      BY <1>1, <2>3, MarkLostFacts, RowType
    <3> QED BY <3>1 DEF finish_invocation_failure
  <2>5. ~Ready(p) BY <2>4 DEF Ready
  <2> QED BY <2>3, <2>5 DEF ReadyInv
<1>8. \A q \in Provider : thread'[q] # Idle => thread[q] # Idle
  BY <1>2
<1> QED BY <1>2, <1>6, <1>7, <1>8 DEF ReadyInv

(* A pass calls nobody with a prompt that is too long.                     *)
LEMMA BeginFits ==
  ASSUME BeginStage, UNCHANGED oversized, NEW p \in Provider,
         thread'[p] # Idle
  PROVE  stage' \notin oversized'
<1>1. PICK allowed \in SUBSET Work :
        /\ IF expired \/ stage \in oversized
           THEN allowed = {}
           ELSE IsFirst(allowed, Work, DispatchCapacity)
        /\ thread' = [q \in Provider |->
                        IF q \in allowed
                        THEN [at |-> "queued", out |-> "none"] ELSE Idle]
  BY DEF BeginStage
<1>2. p \in allowed BY <1>1
<1> QED BY <1>1, <1>2 DEF BeginStage

(* Every step keeps what is ready.                                         *)
LEMMA NextReady ==
  ASSUME RunInv, TruncationInv, AccountInv, ReadyInv, [EngineNext]_vars
  PROVE  ReadyInv'
<1>0. UNCHANGED oversized /\ ThreadInv /\ EngineBase
  BY DEF EngineNext, vars, RunInv
<1>1. ASSUME UNCHANGED <<inv, retryEvents, stage, thread>>,
             NEW p, Ready(p)
      PROVE  Ready(p)'
  BY <1>0, <1>1 DEF Ready, RowOf, SlotOf, TruncationRetriesOf, NotInDoubt
<1>2. CASE Keeps
  <2>1. /\ UNCHANGED <<inv, retryEvents, stage, thread>>
        /\ UNCHANGED <<recoverable, prompts>>
        /\ pc' = "begin" /\ nested' => pc = "begin" /\ nested
    <3>1. nested' = nested \/ nested' = FALSE BY <1>2 DEF Keeps
    <3>2. pc' = "begin" => pc = "begin" BY <1>2 DEF Keeps
    <3> QED BY <1>2, <3>1, <3>2 DEF Keeps
  <2> QED BY <1>0, <1>1, <2>1 DEF ReadyInv
<1>3. CASE Ends
  <2>1. recoverable' = {} /\ pc' = "idle" /\ ThreadsIdle'
    BY <1>3, ProcessEndsIdle DEF Ends, ProcessEnds
  <2> QED BY <2>1 DEF ReadyInv, ThreadsIdle
<1>4. CASE Resume \/ SelectRepairs \/ NextSynthesis
  <2>1. recoverable' = {} /\ nested' = FALSE /\ UNCHANGED thread
    BY <1>4 DEF Resume, StartResume, SelectRepairs, NextSynthesis, EnterStage
  <2>2. ThreadsIdle
    BY <1>0, <1>4 DEF Resume, SelectRepairs, NextSynthesis, StageReturns,
                      PassSettled, ThreadInv
  <2> QED BY <2>1, <2>2 DEF ReadyInv, ThreadsIdle
<1>5. CASE ProposalsDone
  <2>1. recoverable' = {} /\ UNCHANGED thread /\ ThreadsIdle
        /\ (pc' = "synth" \/ nested' = FALSE)
    BY <1>5 DEF ProposalsDone, StageReturns, PassSettled, EnterStage, passVars
  <2> QED BY <2>1 DEF ReadyInv, ThreadsIdle
<1>6. CASE BeginStage
  <2>1. recoverable' = recoverable /\ pc = "begin" /\ pc' = "run"
    BY <1>6 DEF BeginStage
  <2>2. recoverable' = {} BY <2>1 DEF AccountInv, RecoverInv
  <2> QED BY <1>0, <1>6, <2>1, <2>2, BeginFits DEF ReadyInv
<1>7. CASE StartRecovery
  <2>1. /\ UNCHANGED <<inv, retryEvents, stage, thread>> /\ recoverable' = {}
        /\ pc' = "begin" => prompts' \subseteq recoverable
    BY <1>7 DEF StartRecovery, storeVars
  <2> QED BY <1>0, <1>1, <2>1 DEF ReadyInv
<1>8. CASE Adjudicate
  <2>1. /\ UNCHANGED <<inv, retryEvents, stage, thread>>
        /\ recoverable' = recoverable /\ pc' = "synth"
    BY <1>8 DEF Adjudicate, storeVars, passVars
  <2> QED BY <1>0, <1>1, <2>1 DEF ReadyInv
<1>9. CASE \E p \in Provider : RowStep(p)
  BY <1>0, <1>9, RowStepReady DEF RunInv
<1> QED BY <1>2, <1>3, <1>4, <1>5, <1>6, <1>7, <1>8, <1>9, LockKinds

(* The answers that a pass returns are on the books.                       *)
SuccInv == \A p \in succ : RowOf(p).status = "succeeded"

(* The stages that do not repeat a failed call: the repairs, and every     *)
(* synthesis attempt that has a fallback.                                  *)
OneCall ==
  \/ stage = "jury_repair"
  \/ stage = "synthesis" /\ pc # "synth" /\ pos < Len(Synth)

(* The provider was not called, or failed with what its row says.          *)
Firm(p) ==
  \/ RowOf(p).status = "none"
  \/ RowOf(p).status = "failed" /\ fail[p] = Stored(RowOf(p))

Concluded(p) ==
  \/ p \in succ \/ thread[p] # Idle \/ p \in recoverable \/ pc = "begin"
  \/ Firm(p)

FirmInv == OneCall => \A p \in prompts : Concluded(p)

(* A failed call that is not repeated is reported as it is stored.         *)
LEMMA FailedReport ==
  ASSUME EngineBase, TruncationInv, ReadyInv, OneCall, pc = "begin",
         NEW p \in prompts, RowOf(p).status = "failed"
  PROVE  FailureAtBegin(p) = Stored(RowOf(p))
<1>0. RowOf(p).status # "succeeded" OBVIOUS
<1>1. CASE nested
  <2>1. Ready(p) BY <1>1 DEF ReadyInv
  <2>2. ~Exhausted(p)
    <3>1. IsFiniteSet(retryEvents) BY DEF TruncationInv
    <3>2. TruncationRetriesOf(SlotOf(p)) \in Nat BY <3>1, TruncationCount
    <3>3. TruncationRetries \in Nat BY EngineAssumption
    <3>4. TruncationRetriesOf(SlotOf(p)) < TruncationRetries
      BY <2>1 DEF Ready
    <3> QED BY <3>2, <3>3, <3>4 DEF Exhausted
  <2>3. p \notin AmbiguousProviders
    BY <2>1, StageType DEF Ready, AmbiguousProviders, NotInDoubt
  <2>4. stage \notin oversized BY <2>1 DEF Ready
  <2> QED BY <1>0, <2>2, <2>3, <2>4 DEF FailureAtBegin
<1>2. CASE ~nested
  <2>1. pos # Len(Synth) \/ stage # "synthesis"
    <3>1. pos \in Nat /\ Len(Synth) \in Nat
      BY SynthType DEF EngineBase, ControlTypeOK
    <3> QED BY <3>1 DEF OneCall
  <2>2. ~RetryFailed BY <1>2, <2>1 DEF RetryFailed, OneCall
  <2>3. Refused(p) BY <2>2 DEF Refused
  <2> QED BY <1>0, <2>3 DEF FailureAtBegin
<1> QED BY <1>1, <1>2

(* So every provider of a pass is called or concluded when it begins.      *)
LEMMA BeginFirm ==
  ASSUME EngineBase, TruncationInv, SuccInv, ReadyInv, BeginStage
  PROVE  SuccInv' /\ FirmInv'
<1>1. PICK allowed \in SUBSET Work :
        /\ fail' = [p \in Provider |->
                      IF p \in prompts \ allowed THEN FailureAtBegin(p)
                                                 ELSE fail[p]]
        /\ thread' = [p \in Provider |->
                        IF p \in allowed
                        THEN [at |-> "queued", out |-> "none"] ELSE Idle]
  BY DEF BeginStage
<1>2. /\ pc = "begin" /\ UNCHANGED <<inv, stage, prompts, pos>>
      /\ succ' = succ \cup {p \in prompts : RowOf(p).status = "succeeded"}
      /\ \A p \in prompts : RowOf(p).status # "running"
  BY DEF BeginStage, storeVars
<1>3. \A p : RowOf(p)' = RowOf(p) BY <1>2 DEF RowOf
<1>4. SuccInv' BY <1>2, <1>3 DEF SuccInv
<1>5. ASSUME OneCall, NEW p \in prompts PROVE Concluded(p)'
  <2>0. p \in Provider BY DEF EngineBase, PassTypeOK
  <2>1. CASE p \in allowed
    <3>1. thread'[p].at = "queued" BY <1>1, <2>0, <2>1
    <3> QED BY <3>1 DEF Concluded, Idle
  <2>2. CASE p \notin allowed
    <3>1. fail'[p] = FailureAtBegin(p) BY <1>1, <2>0, <2>2
    <3>2. CASE RowOf(p).status = "succeeded"
      BY <1>2, <3>2 DEF Concluded
    <3>3. CASE RowOf(p).status = "none"
      BY <1>3, <3>3 DEF Concluded, Firm
    <3>4. CASE RowOf(p).status = "failed"
      <4>1. fail'[p] = Stored(RowOf(p)) BY <1>2, <1>5, <3>1, <3>4, FailedReport
      <4>2. fail'[p] = Stored(RowOf(p)') BY <1>3, <4>1
      <4> QED BY <1>3, <3>4, <4>2 DEF Concluded, Firm
    <3> QED BY <1>2, <2>0, <3>2, <3>3, <3>4, RowType DEF Row
  <2> QED BY <2>1, <2>2
<1>6. OneCall' => OneCall BY <1>2 DEF OneCall
<1> QED BY <1>2, <1>4, <1>5, <1>6 DEF FirmInv

(* A call in flight concludes with what its row then says.                 *)
LEMMA RowStepFirm ==
  ASSUME EngineBase, ThreadInv, SuccInv, FirmInv, NEW p \in Provider,
         RowStep(p)
  PROVE  SuccInv' /\ FirmInv'
<1>1. PICK s \in Slot : s = SlotOf(p) BY RowType
<1>2. /\ UNCHANGED <<stage, pc, nested, prompts>>
      /\ \A t \in Slot : t # s => inv'[t] = inv[t]
      /\ \A q \in Provider : q # p => thread'[q] = thread[q]
      /\ thread[p] # Idle \/ (p \in prompts /\ MarkLost(p))
      /\ succ' = succ \/ succ' = succ \cup {p}
      /\ recoverable \subseteq recoverable'
      /\ inv[s].status # "succeeded"
  BY <1>1, RowMoves
<1>3. pos' = pos BY RowStepControl DEF ctlVars
<1>4. ASSUME NEW q \in Provider, q # p
      PROVE  RowOf(q)' = RowOf(q)
  <2>1. SlotOf(q) \in Slot /\ SlotOf(q) # s /\ RowOf(q) = inv[SlotOf(q)]
    BY <1>1, <1>4, RowType DEF SlotOf
  <2> QED BY <1>2, <2>1 DEF RowOf, SlotOf
<1>5. succ \subseteq Provider /\ prompts \subseteq Provider
  BY DEF EngineBase, PassTypeOK
<1>6. p \notin succ
  <2>1. RowOf(p) = inv[s] BY <1>1, RowType
  <2> QED BY <1>2, <2>1 DEF SuccInv
<1>7. SuccInv'
  <2>1. \A q \in succ : RowOf(q)'.status = "succeeded"
    BY <1>4, <1>5, <1>6 DEF SuccInv
  <2>2. CASE succ' = succ BY <2>1, <2>2 DEF SuccInv
  <2>3. CASE succ' = succ \cup {p} /\ succ' # succ
    <3>1. SettleStep(p) BY <2>3, UnsettledStep DEF passVars
    <3>2. RowOf(p)'.status = "succeeded" BY <2>3, <3>1, SettledOutcome
    <3> QED BY <2>1, <2>3, <3>2 DEF SuccInv
  <2> QED BY <1>2, <2>2, <2>3
<1>8. ASSUME NEW q \in prompts, q # p, Concluded(q) PROVE Concluded(q)'
  <2>1. q \in Provider BY <1>5
  <2>2. fail'[q] = fail[q]
    BY <1>8, <2>1, SettledOutcome, UnsettledStep DEF passVars
  <2>3. RowOf(q)' = RowOf(q) BY <1>4, <1>8, <2>1
  <2>4. thread'[q] = thread[q] BY <1>2, <1>8, <2>1
  <2>5. Firm(q) => Firm(q)' BY <2>2, <2>3 DEF Firm
  <2> QED BY <1>2, <1>8, <2>4, <2>5 DEF Concluded
<1>9. Concluded(p)'
  <2>1. CASE SettleStep(p) BY <2>1, SettledOutcome DEF Concluded, Firm
  <2>2. CASE ~SettleStep(p)
    <3>1. thread'[p] # Idle \/ pc = "begin"
      BY <1>2, <2>2, UnsettledStep DEF MarkLost
    <3> QED BY <1>2, <3>1 DEF Concluded
  <2> QED BY <2>1, <2>2
<1>10. OneCall' = OneCall BY <1>2, <1>3 DEF OneCall
<1> QED BY <1>2, <1>7, <1>8, <1>9, <1>10 DEF FirmInv

(* A recovery that cannot be made is reported as the failure stored.       *)
LEMMA StartRecoveryFirm ==
  ASSUME EngineBase, AccountInv, SuccInv, FirmInv, StartRecovery
  PROVE  SuccInv' /\ FirmInv'
<1>1. /\ UNCHANGED <<inv, stage, pos, succ, thread>> /\ pc = "run"
      /\ recoverable' = {}
      /\ \/ pc' = "begin"
         \/ /\ recoverable \subseteq recoverable \ WithHeadroom
            /\ pc' = "run" /\ prompts' = prompts
      /\ fail' = [p \in Provider |->
                    IF p \in recoverable \ WithHeadroom THEN Stored(RowOf(p))
                                                    ELSE fail[p]]
  BY DEF StartRecovery, PassSettled, storeVars
<1>2. \A p : RowOf(p)' = RowOf(p) BY <1>1 DEF RowOf
<1>3. CASE pc' = "begin"
  BY <1>1, <1>2, <1>3 DEF SuccInv, FirmInv, Concluded
<1>4. CASE pc' = "run" /\ prompts' = prompts
           /\ recoverable \subseteq recoverable \ WithHeadroom
  <2>1. ASSUME NEW p \in prompts, Concluded(p) PROVE Concluded(p)'
    <3>0. p \in Provider BY DEF EngineBase, PassTypeOK
    <3>1. CASE p \in recoverable
      <4>1. fail'[p] = Stored(RowOf(p)) BY <1>1, <1>4, <3>0, <3>1
      <4>2. RowOf(p).status = "failed" BY <3>1 DEF AccountInv, RecoverInv
      <4>3. fail'[p] = Stored(RowOf(p)') BY <1>2, <4>1
      <4> QED BY <1>2, <4>2, <4>3 DEF Concluded, Firm
    <3>2. CASE p \notin recoverable
      <4>1. fail'[p] = fail[p] BY <1>1, <3>0, <3>2
      <4>2. Firm(p) => Firm(p)' BY <1>2, <4>1 DEF Firm
      <4> QED BY <1>1, <2>1, <3>2, <4>2 DEF Concluded
    <3> QED BY <3>1, <3>2
  <2>2. OneCall' => OneCall BY <1>1 DEF OneCall
  <2> QED BY <1>1, <1>2, <1>4, <2>1, <2>2 DEF SuccInv, FirmInv
<1> QED BY <1>1, <1>3, <1>4

(* Every step keeps what was concluded.                                    *)
LEMMA NextFirm ==
  ASSUME RunInv, TruncationInv, AccountInv, ReadyInv, SuccInv, FirmInv,
         [EngineNext]_vars
  PROVE  SuccInv' /\ FirmInv'
<1>1. CASE Keeps
  <2>1. /\ UNCHANGED <<inv, stage, prompts, succ, recoverable, fail, thread>>
        /\ pc' # pc => pc = "run"
    BY <1>1 DEF Keeps
  <2>2. \A p : RowOf(p)' = RowOf(p) BY <2>1 DEF RowOf
  <2>3. \A p : Firm(p)' = Firm(p) BY <2>1, <2>2 DEF Firm
  <2>4. \A p : Concluded(p) => Concluded(p)'
    <3>1. pc = "begin" => pc' = "begin" BY <1>1 DEF Keeps
    <3> QED BY <2>1, <2>3, <3>1 DEF Concluded
  <2>5. OneCall' => OneCall
    <3>1. /\ stage = "synthesis" /\ pc' # "synth" => pc # "synth"
          /\ pc' # "synth" => pos' = pos
      BY <1>1 DEF Keeps
    <3> QED BY <2>1, <3>1 DEF OneCall
  <2> QED BY <2>1, <2>2, <2>4, <2>5 DEF SuccInv, FirmInv
<1>2. CASE Ends
  BY <1>2 DEF Ends, ProcessEnds, SuccInv, FirmInv, OneCall
<1>3. CASE Resume \/ SelectRepairs \/ NextSynthesis
  BY <1>3 DEF Resume, StartResume, SelectRepairs, NextSynthesis, EnterStage,
              SuccInv, FirmInv, Concluded
<1>4. CASE ProposalsDone
  <2>1. /\ stage = "proposal" /\ inv' = inv
        /\ \/ succ' = {} /\ stage' = "jury"
           \/ succ' = succ /\ stage' = stage
    BY <1>4 DEF ProposalsDone, EnterStage, passVars, storeVars
  <2> QED BY <2>1 DEF SuccInv, FirmInv, OneCall, RowOf
<1>5. CASE Adjudicate
  <2>1. /\ UNCHANGED <<inv, stage, prompts, succ, recoverable, fail, thread>>
        /\ pc = "adjudicate" /\ pc' = "synth"
    BY <1>5 DEF Adjudicate, storeVars, passVars
  <2>2. \A p : RowOf(p)' = RowOf(p) BY <2>1 DEF RowOf
  <2>3. \A p : Firm(p)' = Firm(p) BY <2>1, <2>2 DEF Firm
  <2>4. \A p : Concluded(p) => Concluded(p)'
    BY <2>1, <2>3 DEF Concluded
  <2>5. OneCall' => OneCall BY <2>1 DEF OneCall
  <2> QED BY <2>1, <2>2, <2>4, <2>5 DEF SuccInv, FirmInv
<1> QED BY <1>1, <1>2, <1>3, <1>4, <1>5, LockKinds, BeginFirm, RowStepFirm,
           StartRecoveryFirm DEF RunInv

(* The failure recorded with a fallback is that of its synthesis row.      *)
FallbackRows ==
  \A i \in 1 .. Len(fallbacks) :
    LET row == inv[<<"synthesis", Synth[i]>>] IN
      row.status # "none" => row.status = "failed" /\ fallbacks[i] = Stored(row)

(* A fallback is recorded with the failure that its row keeps.             *)
LEMMA FallbackRecorded ==
  ASSUME RunInv, FirmInv, FallbackRows, SynthesisFallback
  PROVE  FallbackRows'
<1>0. EngineBase /\ SynthInv BY DEF RunInv
<1>1. /\ fallbacks' = Append(fallbacks, fail[Synthesizer])
      /\ inv' = inv /\ pc = "run" /\ stage = "synthesis" /\ pos < Len(Synth)
      /\ Synthesizer \notin succ /\ recoverable = {} /\ ThreadsIdle
  BY DEF SynthesisFallback, StageReturns, PassSettled, storeVars
<1>2. /\ Synthesizer = Current /\ prompts = {Current} /\ Current \in Provider
      /\ Current = Synth[Len(fallbacks) + 1]
  BY <1>0, <1>1, CurrentType DEF SynthInv, SynthPass, Current
<1>3. Firm(Current)
  <2>1. Concluded(Current) BY <1>1, <1>2 DEF FirmInv, OneCall
  <2> QED BY <1>1, <1>2, <2>1 DEF Concluded, ThreadsIdle
<1>4. /\ Len(fallbacks) \in Nat /\ Len(fallbacks') = Len(fallbacks) + 1
      /\ \A i \in 1 .. Len(fallbacks) : fallbacks'[i] = fallbacks[i]
      /\ fallbacks'[Len(fallbacks) + 1] = fail[Current]
  BY <1>0, <1>1, <1>2, FailureType DEF EngineBase, RunTypeOK, PassTypeOK
<1>5. ASSUME NEW i \in 1 .. Len(fallbacks) + 1,
             inv[<<"synthesis", Synth[i]>>].status # "none"
      PROVE  /\ inv[<<"synthesis", Synth[i]>>].status = "failed"
             /\ fallbacks'[i] = Stored(inv[<<"synthesis", Synth[i]>>])
  <2>1. CASE i \in 1 .. Len(fallbacks)
    BY <1>4, <1>5, <2>1 DEF FallbackRows
  <2>2. CASE i = Len(fallbacks) + 1
    <3>1. RowOf(Current) = inv[<<"synthesis", Synth[i]>>]
      BY <1>1, <1>2, <2>2 DEF RowOf
    <3> QED BY <1>3, <1>4, <1>5, <2>2, <3>1 DEF Firm
  <2> QED BY <1>4, <2>1, <2>2
<1> QED BY <1>1, <1>4, <1>5 DEF FallbackRows

(* Every step keeps what was recorded.                                     *)
LEMMA NextFallbackRows ==
  ASSUME RunInv, FirmInv, FallbackRows, [EngineNext]_vars
  PROVE  FallbackRows'
<1>0. EngineBase /\ ThreadInv /\ PassInv /\ SynthInv BY DEF RunInv
<1>1. CASE UNCHANGED <<inv, fallbacks>> BY <1>1 DEF FallbackRows
<1>2. ASSUME NEW p \in Provider, RowStep(p) PROVE FallbackRows'
  <2>1. /\ fallbacks' = fallbacks
        /\ \A q \in Provider : q # Current =>
             inv'[<<"synthesis", q>>] = inv[<<"synthesis", q>>]
    BY <1>0, <1>2, SynthesisRowStep DEF runVars
  <2>2. ASSUME NEW i \in 1 .. Len(fallbacks)
        PROVE  inv'[<<"synthesis", Synth[i]>>]
                 = inv[<<"synthesis", Synth[i]>>]
    <3>1. /\ i \in 1 .. Len(Synth) /\ i # CurrentSynthesis
          /\ CurrentSynthesis \in 1 .. Len(Synth)
      BY <1>0, CurrentType
    <3>2. Synth[i] # Current BY <3>1, PositionsDiffer DEF Current
    <3>3. Synth[i] \in Provider BY <3>1, SynthType
    <3> QED BY <2>1, <3>2, <3>3
  <2> QED BY <2>1, <2>2 DEF FallbackRows
<1> QED BY <1>1, <1>2, FallbackRecorded, SynthKinds

(* It is what the validator of the fallback events asks for.               *)
LEMMA FallbacksValid ==
  ASSUME EngineBase, SynthInv, FallbackRows PROVE FallbackStateOK
<1>1. /\ Len(fallbacks) \in Nat /\ Len(Synth) \in Nat
      /\ CurrentSynthesis = Len(fallbacks) + 1
      /\ CurrentSynthesis \in 1 .. Len(Synth)
  BY CurrentType
<1>2. ASSUME NEW i \in 1 .. Len(Synth),
             inv[<<"synthesis", Synth[i]>>].status = "succeeded"
      PROVE  i = Len(fallbacks) + 1
  <2>1. Synth[i] \in Provider BY SynthType
  <2>2. PICK j \in 1 .. Len(fallbacks) + 1 : Synth[i] = Synth[j]
    BY <1>2, <2>1 DEF SynthInv, SynthRows
  <2>3. j \in 1 .. Len(Synth) BY <1>1
  <2>4. i = j BY <2>2, <2>3, PositionsDiffer
  <2>5. i \notin 1 .. Len(fallbacks) BY <1>2 DEF SynthInv, SynthRows
  <2> QED BY <1>1, <2>4, <2>5
<1> QED BY <1>1, <1>2 DEF FallbackStateOK, FallbackRows

(* The locks pass their validators from the moment they are written.       *)
LEMMA NextLocksValid ==
  ASSUME RunInv, LockInv', NamespaceOK, AdjudicationOK, [EngineNext]_vars
  PROVE  NamespaceOK' /\ AdjudicationOK'
<1>0. EngineBase /\ ThreadInv BY DEF RunInv
<1>1. NamespaceOK'
  <2>1. CASE nsLock' = nsLock
    BY <2>1 DEF NamespaceOK, NamespaceLocked, QuorumMet, LineagesOf
  <2>2. CASE ProposalsDone /\ ~NamespaceLocked
    <3>1. /\ QuorumMet(Proposals)
          /\ nsLock' = [members |-> Proposals, failed |-> Provider \ Proposals]
      BY <2>2 DEF ProposalsDone
    <3>2. nsLock'.members = Proposals /\ nsLock'.failed = Provider \ Proposals
      BY <3>1
    <3> QED BY <3>1, <3>2 DEF NamespaceOK, QuorumMet, LineagesOf
  <2>3. CASE ProposalsDone /\ NamespaceLocked
    BY <2>1, <2>3 DEF ProposalsDone
  <2>4. CASE \E p \in Provider : RowStep(p)
    BY <1>0, <2>1, <2>4, RowStepControl DEF runVars
  <2>5. nsLock' = nsLock
          \/ ProposalsDone \/ \E p \in Provider : RowStep(p)
    <3>1. Keeps => nsLock' = nsLock BY DEF Keeps
    <3>2. Ends => nsLock' = nsLock BY DEF Ends
    <3>3. Resume => nsLock' = nsLock BY DEF Resume, StartResume
    <3>4. BeginStage => nsLock' = nsLock BY DEF BeginStage, runVars
    <3>5. StartRecovery => nsLock' = nsLock BY DEF StartRecovery, runVars
    <3>6. SelectRepairs => nsLock' = nsLock BY DEF SelectRepairs, runVars
    <3>7. NextSynthesis => nsLock' = nsLock BY DEF NextSynthesis, runVars
    <3>8. Adjudicate => nsLock' = nsLock BY DEF Adjudicate
    <3> QED BY <3>1, <3>2, <3>3, <3>4, <3>5, <3>6, <3>7, <3>8, LockKinds
  <2> QED BY <2>1, <2>2, <2>3, <2>4, <2>5
<1>2. AdjudicationOK'
  <2>1. AdjudicationLocked' => NamespaceLocked' BY DEF LockInv, LockOrder
  <2>2. CASE ~Adjudicate
    <3>1. adjLock' = adjLock BY <1>0, <2>2, VerdictKinds
    <3> QED BY <2>1, <3>1 DEF AdjudicationOK, AdjudicationLocked
  <2>3. CASE Adjudicate
    <3>1. /\ Cardinality(ValidJuries) >= JuryQuorum
          /\ adjLock' = [valid   |-> ValidJuries,
                         invalid |-> InvalidJuries \ Repaired,
                         failed  |-> Provider \ ValidJuries]
      BY <2>3 DEF Adjudicate
    <3>2. /\ ValidJuries \subseteq Provider
          /\ InvalidJuries \ Repaired \subseteq Provider \ ValidJuries
      BY DEF ValidJuries, InvalidJuries, JuryResponses, Repaired, EngineBase,
             RunInv, PassTypeOK
    <3>3. /\ adjLock'.valid = ValidJuries
          /\ adjLock'.invalid = InvalidJuries \ Repaired
          /\ adjLock'.failed = Provider \ ValidJuries
      BY <3>1
    <3> QED BY <2>1, <3>1, <3>2, <3>3 DEF AdjudicationOK
  <2> QED BY <2>2, <2>3
<1> QED BY <1>1, <1>2

----------------------------------------------------------------------------
(* A repair event, once written, is what every later resume would write.   *)

RepairRow(p) == inv[<<"jury_repair", p>>]

(* The juries whose repair attempt is unused.                              *)
Unattempted == Repairable \ RepairRows

(* The event of a juror as the rows tell it.                               *)
EventOf(p) ==
  IF p \notin InvalidJuries \/ ~JuryRepair THEN NoAudit
  ELSE IF p \notin Repairable THEN Audit("not_attempted", NoFailure)
  ELSE IF RepairRow(p).status = "none"
  THEN Audit("not_attempted", Unstored("budget"))
  ELSE IF RepairRow(p).status = "succeeded"
  THEN Audit(IF RepairRow(p).response = "good" THEN "recovered"
                                               ELSE "failed", NoFailure)
  ELSE Audit("failed", Stored(RepairRow(p)))

(* An event is of a repair that is over.                                   *)
Settled(p, event) ==
  event # NoAudit => event = EventOf(p) /\ RepairRow(p).status # "running"

EventsFinal == \A p \in Provider : Settled(p, repairEvents[p])

(* What is about to be written is settled too, and not of a repair that    *)
(* this pass was given but did not make.                                   *)
PendingFinal ==
  pc = "adjudicate" =>
    \A p \in Provider :
      /\ Settled(p, pending[p])
      /\ pending[p] # NoAudit =>
           ~(p \in prompts /\ RepairRow(p).status = "none")

(* A repair under way has no event, and comes before every repair that the *)
(* pass has no call left for; there is no failed row it could go back to.  *)
RepairFresh ==
  stage = "jury_repair" =>
    \A p \in prompts :
      /\ RepairRow(p).status = "none" \/ thread[p] # Idle =>
           /\ repairEvents[p] = NoAudit
           /\ \A q \in Unattempted \ prompts : p < q
      /\ thread[p] # Idle => prior[p] = NoRow

(* The threads whose call is on the books.                                 *)
InFlight == {p \in Provider : thread[p] # Idle /\ ~Waiting(p)}

Before(p) == {q \in Unattempted : q < p}

(* The calls no longer to be given back; a repair that is given back is    *)
(* one more before those that have no call left.                           *)
Booked == IF stage = "jury_repair" THEN count_calls
                                  ELSE count_calls - Cardinality(InFlight)

(* A repair passed over for want of calls will never be made: the calls on *)
(* the books, the repairs before it and the synthesis use up the budget.   *)
PassedOver ==
  \A p \in Unattempted :
    repairEvents[p] # NoAudit \/ (stage = "jury_repair" /\ p \notin prompts)
      => Cardinality(Before(p)) + Booked + Len(Synth) >= MaxCalls

RepairInv == EventsFinal /\ PendingFinal /\ RepairFresh /\ PassedOver

(* An event only depends on the juror's own rows.                          *)
LEMMA EventStays ==
  ASSUME NEW q \in Provider, inv'[<<"jury", q>>] = inv[<<"jury", q>>],
         inv'[<<"jury_repair", q>>] = inv[<<"jury_repair", q>>]
  PROVE  /\ EventOf(q)' = EventOf(q) /\ RepairRow(q)' = RepairRow(q)
         /\ q \in Unattempted' <=> q \in Unattempted
         /\ \A event : Settled(q, event) => Settled(q, event)'
<1>1. /\ q \in InvalidJuries' <=> q \in InvalidJuries
      /\ q \in Repairable' <=> q \in Repairable
      /\ q \in RepairRows' <=> q \in RepairRows
  BY DEF InvalidJuries, JuryResponses, Repairable, RepairRows
<1>2. RepairRow(q)' = RepairRow(q) BY DEF RepairRow
<1>3. EventOf(q)' = EventOf(q) BY <1>1, <1>2 DEF EventOf
<1> QED BY <1>1, <1>2, <1>3 DEF Unattempted, Settled

(* A jury that is to be repaired has an event only if it is invalid, and   *)
(* its row is final.                                                       *)
LEMMA EventRow ==
  ASSUME NEW q \in Provider, EventOf(q) # NoAudit \/ q \in Repairable
  PROVE  /\ q \in InvalidJuries /\ JuryRepair
         /\ inv[<<"jury", q>>].status = "succeeded"
  BY DEF EventOf, Repairable, InvalidJuries, JuryResponses

(* There are finitely many juries to repair.                               *)
LEMMA BeforeFinite ==
  ASSUME NEW p
  PROVE  /\ IsFiniteSet(Before(p)) /\ Cardinality(Before(p)) \in Nat
         /\ IsFiniteSet(Before(p)') /\ Cardinality(Before(p)') \in Nat
         /\ IsFiniteSet(InFlight) /\ Cardinality(InFlight) \in Nat
         /\ IsFiniteSet(InFlight') /\ Cardinality(InFlight') \in Nat
<1>1. /\ Before(p) \subseteq Provider /\ Before(p)' \subseteq Provider
      /\ InFlight \subseteq Provider /\ InFlight' \subseteq Provider
  BY DEF Before, Unattempted, Repairable, InvalidJuries, JuryResponses,
         InFlight
<1>2. IsFiniteSet(Provider) BY StoreAssumption
<1> QED BY <1>1, <1>2, FS_Subset, FS_CardinalityType

(* The rows a step does not touch.                                         *)
LEMMA OtherRows ==
  ASSUME EngineBase, ThreadInv, NEW p \in Provider, RowStep(p),
         NEW q \in Provider, NEW st \in Stages, q # p \/ st # stage
  PROVE  inv'[<<st, q>>] = inv[<<st, q>>]
<1>1. PICK s \in Slot : s = SlotOf(p) BY RowType
<1>2. PICK t \in Slot : t = <<st, q>> BY SlotOfType
<1>3. t # s BY <1>1, <1>2 DEF SlotOf
<1> QED BY <1>1, <1>2, <1>3, RowMoves

(* A jury's answer is final.                                               *)
LEMMA JuryRowStays ==
  ASSUME EngineBase, ThreadInv, NEW p \in Provider, RowStep(p),
         NEW q \in Provider, inv[<<"jury", q>>].status = "succeeded"
  PROVE  inv'[<<"jury", q>>] = inv[<<"jury", q>>]
<1>1. PICK s \in Slot : s = SlotOf(p) BY RowType
<1>2. PICK t \in Slot : t = <<"jury", q>> BY StageSlots
<1>3. inv[s].status # "succeeded" /\ \A u \in Slot : u # s => inv'[u] = inv[u]
  BY <1>1, RowMoves
<1> QED BY <1>2, <1>3

(* A call found lost was running, and is failed.                           *)
LEMMA LostRow ==
  ASSUME EngineBase, ThreadInv, NEW p \in Provider, MarkLost(p)
  PROVE  /\ RowOf(p).status = "running" /\ RowOf(p)'.status = "failed"
         /\ thread'[p] = Idle
<1>1. PICK s \in Slot : s = SlotOf(p) BY RowType
<1>2. inv \in [Slot -> Row] BY DEF EngineBase, StoreInv, StoreTypeOK
<1>3. finish_invocation_failure(s, "ambiguous") /\ stage' = stage
      /\ thread'[p] = Idle
  BY <1>1, MarkLostFacts DEF ThreadsIdle
<1>4. inv[s].status = "running" /\ inv'[s].status = "failed"
  BY <1>2, <1>3 DEF finish_invocation_failure
<1> QED BY <1>1, <1>3, <1>4 DEF RowOf, SlotOf

(* A step on a row leaves the events as they are,                          *)
LEMMA RowStepEvents ==
  ASSUME EngineBase, ThreadInv, PassInv, EventsFinal, RepairFresh,
         NEW p \in Provider, RowStep(p)
  PROVE  EventsFinal'
<1>1. /\ repairEvents' = repairEvents
      /\ thread[p] # Idle \/ (p \in prompts /\ MarkLost(p))
      /\ thread[p] # Idle => p \in prompts
  <2>1. PICK s \in Slot : s = SlotOf(p) BY RowType
  <2> QED BY <2>1, RowMoves DEF runVars, PassInv
<1>2. ASSUME NEW q \in Provider, repairEvents[q] # NoAudit
      PROVE  Settled(q, repairEvents[q])'
  <2>1. /\ repairEvents[q] = EventOf(q) /\ RepairRow(q).status # "running"
    BY <1>2 DEF EventsFinal, Settled
  <2>2. inv[<<"jury", q>>].status = "succeeded" BY <1>2, <2>1, EventRow
  <2>3. inv'[<<"jury", q>>] = inv[<<"jury", q>>] BY <2>2, JuryRowStays
  <2>4. q # p \/ stage # "jury_repair"
    <3> SUFFICES ASSUME q = p, stage = "jury_repair" PROVE FALSE OBVIOUS
    <3>1. thread[p] = Idle BY <1>1, <1>2 DEF RepairFresh
    <3>2. RepairRow(p).status = "running"
      BY <1>1, <3>1, LostRow DEF RepairRow, RowOf
    <3> QED BY <2>1, <3>2
  <2>5. inv'[<<"jury_repair", q>>] = inv[<<"jury_repair", q>>]
    BY <2>4, OtherRows DEF Stages
  <2>6. Settled(q, repairEvents[q]) BY DEF EventsFinal
  <2>7. \A event : Settled(q, event) => Settled(q, event)'
    BY <2>3, <2>5, EventStays
  <2> QED BY <1>1, <2>1, <2>3, <2>5, EventStays DEF Settled
<1> QED BY <1>1, <1>2 DEF EventsFinal, Settled

(* and the repairs under way where they are.                               *)
LEMMA RowStepFresh ==
  ASSUME EngineBase, ThreadInv, PassInv, RepairFresh, NEW p \in Provider,
         RowStep(p)
  PROVE  RepairFresh'
<1>1. /\ repairEvents' = repairEvents /\ UNCHANGED <<stage, prompts>>
      /\ thread[p] # Idle \/ (p \in prompts /\ MarkLost(p))
      /\ thread[p] # Idle => p \in prompts
      /\ \A q \in Provider : q # p => thread'[q] = thread[q]
      /\ thread'[p] # Idle => thread[p] # Idle
  <2>1. PICK s \in Slot : s = SlotOf(p) BY RowType
  <2> QED BY <2>1, RowMoves DEF runVars, PassInv
<1>2. prior' = prior
  BY WorkerFacts, LeaseFacts, SettleFacts, MarkLostFacts DEF RowStep, Touches
<1> SUFFICES ASSUME stage = "jury_repair" PROVE RepairFresh'
  BY <1>1 DEF RepairFresh
<1>3. prompts \subseteq Provider BY DEF EngineBase, PassTypeOK
<1>4. ASSUME NEW q \in Unattempted' \ prompts PROVE q \in Unattempted \ prompts
  <2>1. q \in Provider /\ q # p
    BY <1>1, <1>4 DEF Unattempted, Repairable, InvalidJuries, JuryResponses
  <2>2. inv'[<<"jury", q>>] = inv[<<"jury", q>>]
        /\ inv'[<<"jury_repair", q>>] = inv[<<"jury_repair", q>>]
    BY <2>1, OtherRows DEF Stages
  <2> QED BY <1>4, <2>1, <2>2, EventStays
<1>5. ASSUME NEW q \in prompts,
             RepairRow(q)'.status = "none" \/ thread'[q] # Idle
      PROVE  RepairRow(q).status = "none" \/ thread[q] # Idle
  <2>1. q \in Provider BY <1>3
  <2>2. CASE q # p
    BY <1>1, <1>5, <2>1, <2>2, OtherRows DEF Stages, RepairRow
  <2>3. CASE q = p
    <3>1. SUFFICES ASSUME MarkLost(p) PROVE thread[p] # Idle
      BY <1>1, <2>3
    <3>2. RowOf(p)'.status = "failed" /\ thread'[p] = Idle BY <3>1, LostRow
    <3>3. RowOf(p)' = RepairRow(p)' BY <1>1 DEF RowOf, RepairRow
    <3> QED BY <1>5, <2>3, <3>2, <3>3
  <2> QED BY <2>2, <2>3
<1>6. \A q \in prompts : thread'[q] # Idle => thread[q] # Idle
  BY <1>1, <1>3
<1>7. \A q \in prompts : RepairRow(q)'.status = "none" \/ thread'[q] # Idle
        => /\ repairEvents[q] = NoAudit
           /\ \A r \in Unattempted \ prompts : q < r
  BY <1>5 DEF RepairFresh
<1>8. \A q \in prompts : thread'[q] # Idle => prior[q] = NoRow
  BY <1>6 DEF RepairFresh
<1> QED BY <1>1, <1>2, <1>4, <1>7, <1>8 DEF RepairFresh

(* What a step on a row does to the books: a call is added, given back, or *)
(* stays; a call that leaves the thread is no longer in flight.            *)
LEMMA RowBooks ==
  ASSUME EngineBase, ThreadInv, NEW p \in Provider, RowStep(p),
         NEW s \in Slot, s = SlotOf(p)
  PROVE  /\ \A q \in Provider : q # p => (q \in InFlight' <=> q \in InFlight)
         /\ \/ StartCall(p) /\ count_calls' = count_calls + 1
            \/ /\ SettleUndispatched(p) /\ count_calls' = count_calls - 1
               /\ thread[p] # Idle /\ inv[s].status = "running"
               /\ inv'[s] = prior[p]
               /\ p \in InFlight /\ p \notin InFlight'
            \/ /\ count_calls' = count_calls
               /\ inv[s].status = "none" => inv'[s] = inv[s]
               /\ p \in InFlight' => p \in InFlight
<1>0. thread \in [Provider -> [at : {"idle", "queued", "started", "leased",
                                     "done", "accounted"}, out : Outs]]
  BY DEF EngineBase, ThreadTypeOK
<1>1. \A q \in Provider : q # p => thread'[q] = thread[q]
  BY RowMoves
<1>2. \A q \in Provider : q # p => (q \in InFlight' <=> q \in InFlight)
  BY <1>1 DEF InFlight, Waiting
<1>3. CASE StartCall(p)
  <2>1. \A t \in Slot : t # s => inv'[t] = inv[t] BY RowMoves
  <2>2. inv'[s].calls = inv[s].calls + 1
    <3>1. RowOf(p)' = inv'[s] /\ RowOf(p) = inv[s]
      BY <1>3, StartedRow DEF RowOf, SlotOf
    <3> QED BY <1>3, <3>1, StartedRow
  <2>3. count_calls' = count_calls + 1 BY <2>1, <2>2, CallAdded
  <2> QED BY <1>2, <1>3, <2>3
<1>4. CASE MarkLost(p)
  <2>1. count_calls' = count_calls
    <3>1. ~StartCall(p) /\ ~SettleUndispatched(p)
      BY <1>4 DEF MarkLost, StartCall, Scheduled, Running,
                  SettleUndispatched, Settling
    <3> QED BY <1>4, <3>1, BooksMove
  <2>2. RowOf(p) = inv[s] BY RowType
  <2>3. inv[s].status = "running" /\ thread'[p] = Idle
    BY <1>4, <2>2, LostRow
  <2> QED BY <1>2, <2>1, <2>3 DEF InFlight
<1>5. CASE WorkerStep(p) /\ ~StartCall(p)
  <2>1. inv' = inv BY <1>5, WorkerFacts DEF storeVars
  <2>2. count_calls' = count_calls BY <2>1, CallsKept
  <2>3. p \in InFlight' => p \in InFlight
    <3>1. CASE StartTooLate(p)
      <4>1. thread'[p].out = "not_started"
        BY <1>0, <3>1 DEF StartTooLate, ThreadStep
      <4> QED BY <4>1 DEF InFlight, Waiting
    <3>2. CASE ReserveCall(p) \/ CallTooLate(p) \/ CallProvider(p)
      <4>1. thread[p].at \in {"started", "leased"}
        BY <3>2 DEF ReserveCall, CallTooLate, CallProvider, MayCall
      <4>2. thread[p].out = "none" BY <4>1 DEF ThreadInv, ThreadOK
      <4> QED BY <4>1, <4>2 DEF InFlight, Waiting, Idle
    <3> QED BY <1>5, <3>1, <3>2 DEF WorkerStep
  <2> QED BY <1>2, <2>1, <2>2, <2>3
<1>6. CASE LeaseStep(p)
  <2>1. /\ inv' = inv /\ thread[p].at = "done" /\ LeaseDue(thread[p].out)
    BY <1>6, LeaseFacts DEF storeVars
  <2>2. count_calls' = count_calls BY <2>1, CallsKept
  <2>3. p \in InFlight BY <2>1 DEF LeaseDue, InFlight, Waiting, Idle
  <2> QED BY <1>2, <2>1, <2>2, <2>3
<1>7. CASE SettleStep(p)
  <2>1. thread'[p] = Idle /\ p \notin InFlight'
        /\ thread[p].at \in {"done", "accounted"}
    BY <1>7, SettleFacts DEF InFlight
  <2>2. \A t \in Slot : t # s => inv'[t] = inv[t] BY RowMoves
  <2>3. inv[s].calls \in Nat BY DEF EngineBase, StoreInv, StoreTypeOK, Row
  <2>4. CASE SettleUndispatched(p)
    <3>1. inv'[s] = prior[p] /\ prior[p].calls + 1 = inv[s].calls
      <4>1. release_undispatched_invocation(s, prior[p])
        BY <2>4 DEF SettleUndispatched
      <4>2. inv \in [Slot -> Row]
        BY DEF EngineBase, StoreInv, StoreTypeOK
      <4> QED BY <4>1, <4>2, NoRowFields
              DEF release_undispatched_invocation, PriorFits
    <3>2. prior[p].calls \in Nat BY RowType DEF Row
    <3>3. count_calls' = count_calls - 1
      BY <2>2, <3>1, <3>2, CallRemoved
    <3>4. thread[p].out \in {"denied", "late"} /\ thread[p] # Idle
      BY <2>1, <2>4 DEF SettleUndispatched, Idle
    <3>5. inv[s].status = "running"
      BY <2>4 DEF SettleUndispatched, release_undispatched_invocation
    <3>6. p \in InFlight BY <2>1, <3>4 DEF InFlight, Waiting
    <3> QED BY <1>2, <2>1, <2>4, <3>1, <3>3, <3>4, <3>5, <3>6
  <2>5. CASE ~SettleUndispatched(p)
    <3>1. count_calls' = count_calls
      <4>1. ~StartCall(p) BY <2>1 DEF StartCall, Scheduled
      <4> QED BY <1>7, <2>5, <4>1, BooksMove
    <3>2. inv[s].status = "none" => inv'[s] = inv[s]
      <4>1. CASE SettleUnstarted(p) BY <4>1 DEF SettleUnstarted, storeVars
      <4>2. CASE ~SettleUnstarted(p)
        BY <1>7, <2>5, <4>2
        DEF SettleStep, SettleSuccess, SettleTruncated, SettleFailure,
            finish_invocation_success, finish_invocation_failure
      <4> QED BY <4>1, <4>2
    <3> QED BY <1>2, <2>1, <3>1, <3>2
  <2> QED BY <2>4, <2>5
<1> QED BY <1>3, <1>4, <1>5, <1>6, <1>7 DEF RowStep

(* One element more is at most one more.                                   *)
LEMMA AddsAtMostOne ==
  ASSUME NEW S, NEW x, IsFiniteSet(S)
  PROVE  /\ IsFiniteSet(S \cup {x})
         /\ Cardinality(S \cup {x}) <= Cardinality(S) + 1
<1>1. Cardinality(S) \in Nat BY FS_CardinalityType
<1>2. /\ IsFiniteSet(S \cup {x})
      /\ \/ Cardinality(S \cup {x}) = Cardinality(S)
         \/ Cardinality(S \cup {x}) = Cardinality(S) + 1
  BY FS_AddElement
<1> QED BY <1>1, <1>2

(* The books are counted.                                                  *)
LEMMA BooksType ==
  ASSUME EngineBase, ThreadInv, NEW p \in Provider, RowStep(p)
  PROVE  count_calls \in Int /\ count_calls' \in Int
<1>1. PICK s \in Slot : s = SlotOf(p) BY RowType
<1>2. count_calls \in Nat BY TokensFinite
<1> QED BY <1>1, <1>2, RowBooks

(* The calls that cannot be given back never become fewer.                 *)
LEMMA FinalCallsGrow ==
  ASSUME EngineBase, ThreadInv, NEW p \in Provider, RowStep(p)
  PROVE  count_calls' - Cardinality(InFlight')
           >= count_calls - Cardinality(InFlight)
<1>1. PICK s \in Slot : s = SlotOf(p) BY RowType
<1>2. /\ IsFiniteSet(InFlight) /\ Cardinality(InFlight) \in Nat
      /\ IsFiniteSet(InFlight') /\ Cardinality(InFlight') \in Nat
      /\ count_calls \in Int /\ count_calls' \in Int
  BY BeforeFinite, BooksType
<1>3. \A q \in Provider : q # p => (q \in InFlight' <=> q \in InFlight)
  BY <1>1, RowBooks
<1>4. InFlight \subseteq Provider /\ InFlight' \subseteq Provider
  BY DEF InFlight
<1>5. InFlight' \subseteq InFlight \cup {p} BY <1>3, <1>4
<1>6. Cardinality(InFlight') <= Cardinality(InFlight) + 1
  <2>1. /\ IsFiniteSet(InFlight \cup {p})
        /\ Cardinality(InFlight \cup {p}) <= Cardinality(InFlight) + 1
    BY <1>2, AddsAtMostOne
  <2>2. Cardinality(InFlight') <= Cardinality(InFlight \cup {p})
    BY <1>5, <2>1, FS_Subset
  <2>3. Cardinality(InFlight \cup {p}) \in Nat
    BY <2>1, FS_CardinalityType
  <2> QED BY <1>2, <2>1, <2>2, <2>3
<1>7. CASE StartCall(p) /\ count_calls' = count_calls + 1
  BY <1>2, <1>6, <1>7
<1>8. CASE /\ count_calls' = count_calls - 1
           /\ p \in InFlight /\ p \notin InFlight'
  <2>1. InFlight' = InFlight \ {p} BY <1>3, <1>4, <1>8
  <2>2. Cardinality(InFlight') = Cardinality(InFlight) - 1
    BY <1>2, <1>8, <2>1, FS_RemoveElement
  <2> QED BY <1>2, <1>8, <2>2
<1>9. CASE count_calls' = count_calls /\ (p \in InFlight' => p \in InFlight)
  <2>1. InFlight' \subseteq InFlight BY <1>3, <1>4, <1>9
  <2>2. Cardinality(InFlight') <= Cardinality(InFlight)
    BY <1>2, <2>1, FS_Subset
  <2> QED BY <1>2, <1>9, <2>2
<1> QED BY <1>1, <1>7, <1>8, <1>9, RowBooks

(* Outside the repair stage a juror only joins those passed over.          *)
LEMMA RowStepPassedEarly ==
  ASSUME EngineBase, ThreadInv, EventsFinal, PassedOver,
         NEW p \in Provider, RowStep(p), stage # "jury_repair"
  PROVE  PassedOver'
<1>1. stage' = stage /\ repairEvents' = repairEvents
  <2>1. PICK s \in Slot : s = SlotOf(p) BY RowType
  <2> QED BY <2>1, RowMoves DEF runVars
<1>2. count_calls \in Int /\ count_calls' \in Int BY BooksType
<1>3. \A q \in Provider :
        inv'[<<"jury_repair", q>>] = inv[<<"jury_repair", q>>]
  BY OtherRows DEF Stages
<1>4. \A q \in Provider : inv[<<"jury", q>>].status = "succeeded" =>
        inv'[<<"jury", q>>] = inv[<<"jury", q>>]
  BY JuryRowStays
<1>5. Unattempted \subseteq Provider /\ Unattempted' \subseteq Provider
  BY DEF Unattempted, Repairable, InvalidJuries, JuryResponses
<1>6. Unattempted \subseteq Unattempted'
  <2>1. ASSUME NEW q \in Unattempted PROVE q \in Unattempted'
    <3>1. q \in Provider /\ q \in Repairable BY <1>5 DEF Unattempted
    <3>2. inv'[<<"jury", q>>] = inv[<<"jury", q>>]
      BY <1>4, <3>1, EventRow
    <3> QED BY <1>3, <2>1, <3>1, <3>2, EventStays
  <2> QED BY <2>1
<1>7. ASSUME NEW q \in Unattempted', repairEvents[q] # NoAudit
      PROVE  Cardinality(Before(q)') + Booked' + Len(Synth) >= MaxCalls
  <2>1. q \in Provider BY <1>5
  <2>2. EventOf(q) # NoAudit BY <1>7, <2>1 DEF EventsFinal, Settled
  <2>3. inv'[<<"jury", q>>] = inv[<<"jury", q>>]
    BY <1>4, <2>1, <2>2, EventRow
  <2>4. q \in Unattempted BY <1>3, <1>7, <2>1, <2>3, EventStays
  <2>5. Cardinality(Before(q)) + Booked + Len(Synth) >= MaxCalls
    BY <1>7, <2>4 DEF PassedOver
  <2>6. Before(q) \subseteq Before(q)' BY <1>6 DEF Before
  <2>7. /\ IsFiniteSet(Before(q)') /\ Cardinality(Before(q)') \in Nat
        /\ Cardinality(Before(q)) \in Nat
        /\ Cardinality(InFlight) \in Nat /\ Cardinality(InFlight') \in Nat
    BY BeforeFinite
  <2>8. Cardinality(Before(q)) <= Cardinality(Before(q)')
    BY <2>6, <2>7, FS_Subset
  <2>9. /\ Booked = count_calls - Cardinality(InFlight)
        /\ Booked' = count_calls' - Cardinality(InFlight')
    BY <1>1 DEF Booked
  <2>10. Booked' >= Booked /\ Booked \in Int /\ Booked' \in Int
    BY <1>2, <2>7, <2>9, FinalCallsGrow
  <2>11. Len(Synth) \in Nat /\ MaxCalls \in Nat
    BY SynthType, EngineAssumption
  <2> DEFINE a == Cardinality(Before(q))
             b == Cardinality(Before(q)')
  <2>12. a \in Nat /\ b \in Nat /\ a <= b BY <2>7, <2>8
  <2> QED BY <2>5, <2>10, <2>11, <2>12
<1> QED BY <1>1, <1>7 DEF PassedOver

(* In it a repair that is made or given back counts for one that was not.  *)
LEMMA RowStepPassedRepair ==
  ASSUME EngineBase, ThreadInv, PassInv, RepairFresh,
         PassedOver, NEW p \in Provider, RowStep(p), stage = "jury_repair"
  PROVE  PassedOver'
<1>1. PICK s \in Slot : s = SlotOf(p) BY RowType
<1>2. /\ UNCHANGED <<stage, prompts>> /\ repairEvents' = repairEvents
      /\ thread[p] # Idle \/ (p \in prompts /\ MarkLost(p))
      /\ thread[p] # Idle => p \in prompts
      /\ RepairRow(p) = inv[s] /\ RepairRow(p)' = inv'[s]
  <2>1. /\ UNCHANGED <<stage, prompts>> /\ repairEvents' = repairEvents
        /\ thread[p] # Idle \/ (p \in prompts /\ MarkLost(p))
        /\ thread[p] # Idle => p \in prompts
    BY <1>1, RowMoves DEF runVars, PassInv
  <2> QED BY <1>1, <2>1 DEF SlotOf, RepairRow
<1>3. count_calls \in Int /\ count_calls' \in Int BY BooksType
<1>4. /\ inv'[<<"jury", p>>] = inv[<<"jury", p>>]
      /\ \A q \in Provider : q # p =>
           /\ inv'[<<"jury", q>>] = inv[<<"jury", q>>]
           /\ inv'[<<"jury_repair", q>>] = inv[<<"jury_repair", q>>]
  BY OtherRows DEF Stages
<1>5. Unattempted \subseteq Provider /\ Unattempted' \subseteq Provider
  BY DEF Unattempted, Repairable, InvalidJuries, JuryResponses
<1>6. \A q \in Provider : q # p => (q \in Unattempted' <=> q \in Unattempted)
  BY <1>4, EventStays
<1>7. /\ p \in Unattempted <=> p \in Repairable /\ inv[s].status = "none"
      /\ p \in Unattempted' <=> p \in Repairable /\ inv'[s].status = "none"
  <2>1. p \in Repairable' <=> p \in Repairable
    BY <1>4 DEF Repairable, InvalidJuries, JuryResponses
  <2>2. p \in RepairRows <=> RepairRow(p).status # "none"
    BY DEF RepairRows, RepairRow
  <2>3. p \in RepairRows' <=> RepairRow(p)'.status # "none"
    BY DEF RepairRows, RepairRow
  <2> QED BY <1>2, <2>1, <2>2, <2>3 DEF Unattempted
<1>8. ASSUME NEW q \in Unattempted',
             repairEvents[q] # NoAudit \/ q \notin prompts
      PROVE  Cardinality(Before(q)') + Booked' + Len(Synth) >= MaxCalls
  <2>0. q \in Provider BY <1>5
  <2>1. q # p
    <3> SUFFICES ASSUME q = p PROVE FALSE OBVIOUS
    <3>1. p \in prompts /\ repairEvents[p] # NoAudit BY <1>2, <1>8
    <3>2. thread[p] = Idle BY <3>1 DEF RepairFresh
    <3>3. RepairRow(p)'.status = "failed"
      BY <1>2, <3>2, LostRow DEF RepairRow, RowOf
    <3> QED BY <1>2, <1>7, <1>8, <3>3
  <2>2. q \in Unattempted BY <1>6, <1>8, <2>0, <2>1
  <2>3. q \notin prompts
    <3>1. RepairRow(q).status = "none"
      BY <2>2 DEF Unattempted, RepairRows, RepairRow,
                  Repairable, InvalidJuries, JuryResponses
    <3> QED BY <1>8, <3>1 DEF RepairFresh
  <2>4. Cardinality(Before(q)) + count_calls + Len(Synth) >= MaxCalls
    <3>1. Booked = count_calls BY <1>3 DEF Booked
    <3> QED BY <2>2, <2>3, <3>1 DEF PassedOver
  <2>5. Booked' = count_calls' BY <1>2 DEF Booked
  <2>6. /\ IsFiniteSet(Before(q)) /\ Cardinality(Before(q)) \in Nat
        /\ IsFiniteSet(Before(q)') /\ Cardinality(Before(q)') \in Nat
    BY BeforeFinite
  <2>7. Len(Synth) \in Nat /\ MaxCalls \in Nat
    BY SynthType, EngineAssumption
  <2>8. \A r : r # p => (r \in Before(q)' <=> r \in Before(q))
    BY <1>5, <1>6 DEF Before
  <2>9. CASE StartCall(p) /\ count_calls' = count_calls + 1
    <3>1. Before(q) \subseteq Before(q)' \cup {p} BY <2>8
    <3>2. /\ IsFiniteSet(Before(q)' \cup {p})
          /\ Cardinality(Before(q)' \cup {p}) <= Cardinality(Before(q)') + 1
      BY <2>6, AddsAtMostOne
    <3>3. Cardinality(Before(q)' \cup {p}) \in Nat
      BY <3>2, FS_CardinalityType
    <3>4. Cardinality(Before(q)) <= Cardinality(Before(q)' \cup {p})
      BY <3>1, <3>2, FS_Subset
    <3> QED BY <1>3, <2>4, <2>5, <2>6, <2>7, <2>9, <3>2, <3>3, <3>4
  <2>10. CASE /\ count_calls' = count_calls - 1 /\ thread[p] # Idle
              /\ inv[s].status = "running" /\ inv'[s] = prior[p]
    <3>1. p \in prompts /\ prior[p] = NoRow BY <1>2, <2>10 DEF RepairFresh
    <3>2. p < q BY <2>2, <2>3, <2>10, <3>1 DEF RepairFresh
    <3>3. p \in Repairable /\ inv'[s].status = "none"
      BY <2>10, <3>1, NoRowFields DEF PassInv, RepairPass
    <3>4. p \in Before(q)' BY <1>7, <3>2, <3>3 DEF Before
    <3>5. p \notin Before(q) BY <1>7, <2>10 DEF Before
    <3>6. Before(q)' = Before(q) \cup {p} BY <2>8, <3>4
    <3>7. Cardinality(Before(q)') = Cardinality(Before(q)) + 1
      BY <2>6, <3>5, <3>6, FS_AddElement
    <3> QED BY <1>3, <2>4, <2>5, <2>6, <2>7, <2>10, <3>7
  <2>11. CASE /\ count_calls' = count_calls
              /\ inv[s].status = "none" => inv'[s] = inv[s]
    <3>1. p \in Before(q) => p \in Before(q)'
      BY <1>7, <2>11 DEF Before
    <3>2. Before(q) \subseteq Before(q)' BY <2>8, <3>1
    <3>3. Cardinality(Before(q)) <= Cardinality(Before(q)')
      BY <2>6, <3>2, FS_Subset
    <3> QED BY <1>3, <2>4, <2>5, <2>6, <2>7, <2>11, <3>3
  <2> QED BY <1>1, <2>9, <2>10, <2>11, RowBooks
<1> QED BY <1>2, <1>8 DEF PassedOver

(* While the rows stay, nobody new is passed over when the books of the    *)
(* pass are closed or stay as they are.                                    *)
LEMMA SamePassedOver ==
  ASSUME EngineBase, PassedOver, inv' = inv, InFlight' \subseteq InFlight,
         stage' # stage => InFlight' = {},
         stage' = "jury_repair" => stage = stage' /\ prompts' = prompts,
         \A p \in Unattempted :
           repairEvents'[p] # NoAudit
           => \/ repairEvents[p] # NoAudit
              \/ stage = "jury_repair" /\ p \notin prompts
  PROVE  PassedOver'
<1>1. /\ count_calls \in Nat /\ count_calls' = count_calls
      /\ Len(Synth) \in Nat /\ MaxCalls \in Nat
  BY TokensFinite, CallsKept, SynthType, EngineAssumption
<1>2. Unattempted' = Unattempted
  BY SameRepairs DEF Unattempted
<1>3. \A p : Before(p)' = Before(p) BY <1>2 DEF Before
<1>4. /\ Cardinality(InFlight) \in Nat /\ Cardinality(InFlight') \in Nat
      /\ Cardinality(InFlight') <= Cardinality(InFlight)
  <2>1. IsFiniteSet(InFlight) BY BeforeFinite
  <2> QED BY <2>1, BeforeFinite, FS_Subset
<1>5. Booked' >= Booked /\ Booked' \in Int /\ Booked \in Int
  <2>1. CASE stage' = "jury_repair"
    <3>1. Booked' = count_calls /\ Booked = count_calls
      BY <1>1, <2>1 DEF Booked
    <3> QED BY <1>1, <3>1
  <2>2. CASE stage' # "jury_repair" /\ stage' = stage
    <3>1. /\ Booked' = count_calls - Cardinality(InFlight')
          /\ Booked = count_calls - Cardinality(InFlight)
      BY <1>1, <2>2 DEF Booked
    <3> QED BY <1>1, <1>4, <3>1
  <2>3. CASE stage' # "jury_repair" /\ stage' # stage
    <3>1. Cardinality(InFlight') = 0
      <4>1. InFlight' = {} BY <2>3
      <4> QED BY <4>1, FS_EmptySet
    <3>2. Booked' = count_calls - Cardinality(InFlight')
      BY <1>1, <2>3 DEF Booked
    <3>3. \/ Booked = count_calls
          \/ Booked = count_calls - Cardinality(InFlight)
      BY DEF Booked
    <3> QED BY <1>1, <1>4, <3>1, <3>2, <3>3
  <2> QED BY <2>1, <2>2, <2>3
<1>6. ASSUME NEW p \in Unattempted',
             \/ repairEvents'[p] # NoAudit
             \/ stage' = "jury_repair" /\ p \notin prompts'
      PROVE  Cardinality(Before(p)') + Booked' + Len(Synth) >= MaxCalls
  <2>1. p \in Unattempted BY <1>2
  <2>2. \/ repairEvents[p] # NoAudit
        \/ stage = "jury_repair" /\ p \notin prompts
    BY <1>6, <2>1
  <2>3. Cardinality(Before(p)) + Booked + Len(Synth) >= MaxCalls
    BY <2>1, <2>2 DEF PassedOver
  <2>4. Cardinality(Before(p)) \in Nat BY BeforeFinite
  <2>5. Cardinality(Before(p)') = Cardinality(Before(p)) BY <1>3
  <2> QED BY <1>1, <1>5, <2>3, <2>4, <2>5
<1> QED BY <1>6 DEF PassedOver

(* No call is in flight where no thread is.                                *)
LEMMA NoneInFlight ==
  /\ ThreadsIdle => InFlight = {}
  /\ ThreadsIdle' => InFlight' = {}
BY DEF ThreadsIdle, InFlight

(* The juries chosen for repair are the first ones the budget has a call   *)
(* for after the synthesis has been given its own.                         *)
LEMMA SelectFresh ==
  ASSUME RunInv, EventsFinal, PassedOver, SelectRepairs
  PROVE  RepairFresh' /\ PassedOver'
<1>0. EngineBase /\ ThreadInv /\ PassInv BY DEF RunInv
<1>1. PICK fresh \in SUBSET Unattempted :
        /\ IsFirst(fresh, Unattempted, NewRepairCapacity)
        /\ prompts' = (Repairable \cap RepairRows) \cup fresh
  BY DEF SelectRepairs, EnterStage, Unattempted
<1>2. /\ stage = "jury" /\ stage' = "jury_repair" /\ ThreadsIdle
      /\ UNCHANGED <<inv, thread>> /\ repairEvents' = repairEvents
      /\ prior' = [p \in Provider |-> NoRow]
  BY DEF SelectRepairs, EnterStage, StageReturns, PassSettled, storeVars,
         runVars
<1>3. /\ count_calls \in Nat /\ count_calls' = count_calls
      /\ Len(Synth) \in Nat /\ MaxCalls \in Nat
  BY <1>0, <1>2, TokensFinite, CallsKept, SynthType, EngineAssumption
<1>4. Unattempted' = Unattempted /\ Repairable' = Repairable
      /\ RepairRows' = RepairRows /\ \A p : Before(p)' = Before(p)
  BY <1>2, SameRepairs DEF Unattempted, Before
<1>5. /\ Unattempted \subseteq Provider /\ Provider \subseteq Nat
      /\ IsFiniteSet(Unattempted)
  <2>1. Unattempted \subseteq Provider
    BY DEF Unattempted, Repairable, InvalidJuries, JuryResponses
  <2> QED BY <2>1, StoreAssumption, FS_Subset
<1>6. /\ IsFiniteSet(fresh) /\ Cardinality(fresh) \in Nat
      /\ Cardinality(Unattempted) \in Nat
  BY <1>1, <1>5, FS_Subset, FS_CardinalityType
<1> DEFINE left == MaxCalls - count_calls - Len(Synth)
<1>7. /\ NewRepairCapacity \in Nat /\ NewRepairCapacity >= left
      /\ left >= 0 => NewRepairCapacity = left
      /\ left < 0 => NewRepairCapacity = 0
  BY <1>3 DEF NewRepairCapacity, AtLeastZero
<1>8. Booked = count_calls /\ Booked' = count_calls
  <2>1. Cardinality(InFlight) = 0
    <3>1. InFlight = {} BY <1>2, NoneInFlight
    <3> QED BY <3>1, FS_EmptySet
  <2>2. Booked = count_calls - Cardinality(InFlight) BY <1>2 DEF Booked
  <2>3. Booked' = count_calls BY <1>2, <1>3 DEF Booked
  <2> QED BY <1>3, <2>1, <2>2, <2>3
<1>9. /\ \A p \in fresh, q \in Unattempted \ fresh : p < q
      /\ Cardinality(fresh)
           = IF NewRepairCapacity < Cardinality(Unattempted)
             THEN NewRepairCapacity ELSE Cardinality(Unattempted)
  BY <1>1 DEF IsFirst
<1>10. PassedOver'
  <2>1. ASSUME NEW p \in Unattempted,
               repairEvents[p] # NoAudit \/ p \notin prompts'
        PROVE  Cardinality(Before(p)) + count_calls + Len(Synth) >= MaxCalls
    <3>1. CASE repairEvents[p] # NoAudit
      BY <1>8, <3>1 DEF PassedOver
    <3>2. CASE p \notin prompts'
      <4>1. p \notin fresh BY <1>1, <3>2
      <4>2. Cardinality(fresh) # Cardinality(Unattempted)
        BY <1>1, <1>5, <4>1, FS_Subset
      <4>3. Cardinality(fresh) = NewRepairCapacity BY <1>9, <4>2
      <4>4. fresh \subseteq Before(p)
        BY <1>1, <1>9, <4>1 DEF Before
      <4>5. /\ IsFiniteSet(Before(p)) /\ Cardinality(Before(p)) \in Nat
        BY BeforeFinite
      <4>6. Cardinality(fresh) <= Cardinality(Before(p))
        BY <4>4, <4>5, FS_Subset
      <4> QED BY <1>3, <1>6, <1>7, <4>3, <4>5, <4>6
    <3> QED BY <2>1, <3>1, <3>2
  <2>2. ASSUME NEW p \in Unattempted',
               \/ repairEvents'[p] # NoAudit
               \/ stage' = "jury_repair" /\ p \notin prompts'
        PROVE  Cardinality(Before(p)') + Booked' + Len(Synth) >= MaxCalls
    <3>1. p \in Unattempted BY <1>4
    <3>2. Cardinality(Before(p)) + count_calls + Len(Synth) >= MaxCalls
      BY <1>2, <2>1, <2>2, <3>1
    <3> QED BY <1>4, <1>8, <3>2
  <2> QED BY <2>2 DEF PassedOver
<1>11. ASSUME NEW p \in fresh PROVE repairEvents[p] = NoAudit
  <2> SUFFICES ASSUME repairEvents[p] # NoAudit PROVE FALSE OBVIOUS
  <2>1. p \in Unattempted BY <1>1
  <2>2. Cardinality(Before(p)) + count_calls + Len(Synth) >= MaxCalls
    BY <1>8, <2>1 DEF PassedOver
  <2>3. Before(p) \subseteq fresh
    <3> SUFFICES ASSUME NEW q \in Before(p), q \notin fresh PROVE FALSE
      OBVIOUS
    <3>1. q \in Unattempted /\ q < p BY DEF Before
    <3>2. p < q BY <1>9, <3>1
    <3>3. p \in Nat /\ q \in Nat BY <1>5, <2>1, <3>1
    <3> QED BY <3>1, <3>2, <3>3
  <2>4. p \notin Before(p)
    <3>1. p \in Nat BY <1>5, <2>1
    <3> QED BY <3>1 DEF Before
  <2>5. Cardinality(fresh \ {p}) = Cardinality(fresh) - 1
        /\ IsFiniteSet(fresh \ {p})
    BY <1>6, FS_RemoveElement
  <2>6. Before(p) \subseteq fresh \ {p} BY <2>3, <2>4
  <2>7. Cardinality(Before(p)) <= Cardinality(fresh) - 1
    BY <2>5, <2>6, FS_Subset
  <2>8. Cardinality(Before(p)) \in Nat BY BeforeFinite
  <2>9. Cardinality(fresh) <= NewRepairCapacity
    BY <1>6, <1>7, <1>9
  <2> QED BY <1>3, <1>6, <1>7, <2>2, <2>7, <2>8, <2>9
<1>12. RepairFresh'
  <2>1. \A p \in prompts' : thread'[p] = Idle
    <3>1. prompts' \subseteq Provider
      BY <1>1, <1>5 DEF RepairRows
    <3> QED BY <1>2, <3>1 DEF ThreadsIdle
  <2>2. ASSUME NEW p \in prompts', RepairRow(p)'.status = "none"
        PROVE  /\ repairEvents'[p] = NoAudit
               /\ \A q \in Unattempted' \ prompts' : p < q
    <3>1. RepairRow(p).status = "none" BY <1>2, <2>2 DEF RepairRow
    <3>2. p \notin RepairRows BY <3>1 DEF RepairRows, RepairRow
    <3>3. p \in fresh BY <1>1, <3>2
    <3> QED BY <1>1, <1>2, <1>4, <1>9, <1>11, <3>3
  <2> QED BY <2>1, <2>2 DEF RepairFresh
<1> QED BY <1>10, <1>12

(* A repair event is stored as it waits.                                   *)
LEMMA WriteRepairInv ==
  ASSUME RunInv, RepairInv, NEW p \in Provider, WriteRepair(p)
  PROVE  RepairInv'
<1>0. EngineBase /\ ThreadInv /\ PassInv /\ LockInv BY DEF RunInv
<1>1. /\ pc = "adjudicate" /\ pending[p] # NoAudit
      /\ repairEvents' = [repairEvents EXCEPT ![p] = pending[p]]
      /\ pending' = [pending EXCEPT ![p] = NoAudit]
      /\ UNCHANGED <<inv, pc, stage, prompts, prior, thread>>
  BY DEF WriteRepair, FirstPending, storeVars, ctlVars
<1>2. /\ repairEvents \in [Provider -> [status : AuditStatus,
                                        cause : Failure]]
      /\ pending \in [Provider -> [status : AuditStatus, cause : Failure]]
  BY <1>0 DEF EngineBase, RunTypeOK, PassTypeOK
<1>3. /\ repairEvents'[p] = pending[p] /\ pending'[p] = NoAudit
      /\ \A q \in Provider : q # p => /\ repairEvents'[q] = repairEvents[q]
                                      /\ pending'[q] = pending[q]
  BY <1>1, <1>2
<1>4. stage = "jury_repair" /\ ThreadsIdle
  BY <1>0, <1>1 DEF LockInv, StageLocks, ThreadInv
<1>5. /\ \A q : RepairRow(q)' = RepairRow(q)
      /\ Unattempted' = Unattempted
      /\ \A q \in Provider : \A event :
           Settled(q, event) => Settled(q, event)'
  <2>1. Unattempted' = Unattempted BY <1>1, SameRepairs DEF Unattempted
  <2>2. \A q : RepairRow(q)' = RepairRow(q) BY <1>1 DEF RepairRow
  <2> QED BY <1>1, <2>1, <2>2, EventStays
<1>6. /\ Settled(p, pending[p])
      /\ ~(p \in prompts /\ RepairRow(p).status = "none")
  BY <1>1 DEF RepairInv, PendingFinal
<1>7. EventsFinal'
  <2>1. \A q \in Provider : Settled(q, repairEvents'[q])
    BY <1>3, <1>6 DEF RepairInv, EventsFinal
  <2> QED BY <1>5, <2>1 DEF EventsFinal
<1>8. PendingFinal'
  <2>1. ASSUME NEW q \in Provider
        PROVE  /\ Settled(q, pending'[q])
               /\ pending'[q] # NoAudit =>
                    ~(q \in prompts /\ RepairRow(q).status = "none")
    <3>1. CASE q = p BY <1>3, <3>1 DEF Settled
    <3>2. CASE q # p BY <1>1, <1>3, <3>2 DEF RepairInv, PendingFinal
    <3> QED BY <3>1, <3>2
  <2> QED BY <1>1, <1>5, <2>1 DEF PendingFinal
<1>9. RepairFresh'
  <2>1. prompts \subseteq Provider BY <1>0 DEF EngineBase, PassTypeOK
  <2>2. \A q \in prompts : thread'[q] = Idle
    BY <1>1, <1>4, <2>1 DEF ThreadsIdle
  <2>3. ASSUME NEW q \in prompts, RepairRow(q).status = "none"
        PROVE  /\ repairEvents'[q] = NoAudit
               /\ \A r \in Unattempted \ prompts : q < r
    <3>1. q # p BY <1>6, <2>3
    <3> QED BY <1>3, <1>4, <2>1, <2>3, <3>1 DEF RepairInv, RepairFresh
  <2> QED BY <1>1, <1>5, <2>2, <2>3 DEF RepairFresh
<1>10. PassedOver'
  <2>1. ASSUME NEW q \in Unattempted, repairEvents'[q] # NoAudit
        PROVE  \/ repairEvents[q] # NoAudit
               \/ stage = "jury_repair" /\ q \notin prompts
    <3>1. q \in Provider /\ RepairRow(q).status = "none"
      BY DEF Unattempted, RepairRows, RepairRow, Repairable, InvalidJuries,
             JuryResponses
    <3>2. CASE q = p BY <1>4, <1>6, <3>1, <3>2
    <3>3. CASE q # p BY <1>3, <2>1, <3>1, <3>3
    <3> QED BY <3>2, <3>3
  <2>2. InFlight' = InFlight BY <1>1 DEF InFlight, Waiting
  <2> QED BY <1>0, <1>1, <2>1, <2>2, SamePassedOver DEF RepairInv
<1> QED BY <1>7, <1>8, <1>9, <1>10 DEF RepairInv

(* A repair that failed is not made again, so the threads that start have  *)
(* no row to go back to.                                                   *)
LEMMA BeginRepairs ==
  ASSUME EngineBase, ThreadInv, PassInv, RepairFresh, PassedOver, BeginStage
  PROVE  RepairFresh' /\ PassedOver'
<1>1. /\ UNCHANGED <<inv, stage, prompts, repairEvents>> /\ ThreadsIdle
      /\ prior' = [p \in Provider |->
                     IF p \in prompts THEN RowOf(p) ELSE NoRow]
      /\ \A p \in prompts : RowOf(p).status # "running"
  BY DEF BeginStage, storeVars, runVars, ThreadInv
<1>2. PICK allowed \in SUBSET Work :
        thread' = [p \in Provider |->
                     IF p \in allowed
                     THEN [at |-> "queued", out |-> "none"] ELSE Idle]
  BY DEF BeginStage
<1>3. PassedOver'
  <2>1. InFlight' = {}
    <3>1. \A p \in Provider : thread'[p] # Idle => Waiting(p)'
      BY <1>2 DEF Waiting
    <3> QED BY <3>1 DEF InFlight
  <2> QED BY <1>1, <2>1, SamePassedOver
<1>4. RepairFresh'
  <2> SUFFICES ASSUME stage = "jury_repair" PROVE RepairFresh'
    BY <1>1 DEF RepairFresh
  <2>0. prompts \subseteq Provider BY DEF EngineBase, PassTypeOK
  <2>1. ~RetryFailed BY DEF PassInv, RepairPass, RetryFailed
  <2>2. ASSUME NEW p \in allowed
        PROVE  p \in prompts /\ RowOf(p).status = "none"
               /\ prior'[p] = NoRow
    <3>1. p \in prompts /\ RowOf(p).status # "succeeded" /\ ~Refused(p)
      BY DEF Work
    <3>2. RowOf(p).status # "failed" BY <2>1, <3>1 DEF Refused
    <3>3. p \in Provider BY <2>0, <3>1
    <3>4. RowOf(p).status = "none"
      BY <1>1, <3>1, <3>2, <3>3, RowType DEF Row
    <3>5. RowOf(p) = NoRow
      BY <3>3, <3>4, RowType DEF EngineBase, StoreInv, RowShape
    <3> QED BY <1>1, <3>1, <3>3, <3>4, <3>5
  <2>3. \A p \in prompts : thread'[p] # Idle => p \in allowed
    BY <1>2, <2>0
  <2>4. \A p : RowOf(p) = RepairRow(p) /\ RepairRow(p)' = RepairRow(p)
    BY <1>1 DEF RowOf, RepairRow
  <2>5. Unattempted' = Unattempted BY <1>1, SameRepairs DEF Unattempted
  <2>6. ASSUME NEW p \in prompts,
               RepairRow(p)'.status = "none" \/ thread'[p] # Idle
        PROVE  /\ repairEvents'[p] = NoAudit
               /\ \A q \in Unattempted' \ prompts' : p < q
    <3>1. RepairRow(p).status = "none" BY <2>2, <2>3, <2>4, <2>6
    <3> QED BY <1>1, <2>5, <3>1 DEF RepairFresh
  <2>7. \A p \in prompts : thread'[p] # Idle => prior'[p] = NoRow
    BY <2>2, <2>3
  <2> QED BY <1>1, <2>6, <2>7 DEF RepairFresh
<1> QED BY <1>3, <1>4

(* A step of the main thread that writes no event keeps the events there   *)
(* are, and the juries passed over.                                        *)
LEMMA MainRepairs ==
  ASSUME RunInv, EventsFinal, RepairFresh, PassedOver, [EngineNext]_vars,
         repairEvents' = repairEvents, ~\E p \in Provider : RowStep(p)
  PROVE  EventsFinal' /\ RepairFresh' /\ PassedOver'
<1>0. EngineBase /\ ThreadInv /\ PassInv /\ LockInv BY DEF RunInv
<1>1. inv' = inv
  <2>1. CASE Keeps \/ Ends BY <2>1 DEF Keeps, Ends
  <2>2. CASE \/ Resume \/ BeginStage \/ StartRecovery \/ ProposalsDone
             \/ SelectRepairs \/ Adjudicate \/ NextSynthesis
    BY <2>2 DEF Resume, StartResume, BeginStage, StartRecovery,
                ProposalsDone, SelectRepairs, Adjudicate, NextSynthesis,
                storeVars
  <2> QED BY <2>1, <2>2, LockKinds
<1>2. EventsFinal'
  <2>1. \A q \in Provider : \A event :
           Settled(q, event) => Settled(q, event)'
    BY <1>1, EventStays
  <2> QED BY <2>1 DEF EventsFinal
<1> SUFFICES RepairFresh' /\ PassedOver' BY <1>2
<1>3. ASSUME UNCHANGED <<stage, prompts, prior, thread>>
      PROVE  RepairFresh' /\ PassedOver'
  <2>1. InFlight' = InFlight BY <1>3 DEF InFlight, Waiting
  <2>2. PassedOver' BY <1>0, <1>1, <1>3, <2>1, SamePassedOver
  <2>3. Unattempted' = Unattempted BY <1>1, SameRepairs DEF Unattempted
  <2>4. \A p : RepairRow(p)' = RepairRow(p) BY <1>1 DEF RepairRow
  <2>5. RepairFresh' BY <1>3, <2>3, <2>4 DEF RepairFresh
  <2> QED BY <2>2, <2>5
<1>4. ASSUME ThreadsIdle', stage' # "jury_repair"
      PROVE  RepairFresh' /\ PassedOver'
  <2>1. InFlight' = {} BY <1>4, NoneInFlight
  <2>2. PassedOver' BY <1>0, <1>1, <1>4, <2>1, SamePassedOver
  <2> QED BY <1>4, <2>2 DEF RepairFresh
<1>5. CASE Keeps BY <1>3, <1>5 DEF Keeps
<1>6. CASE Ends
  <2>1. ThreadsIdle' BY <1>6, ProcessEndsIdle DEF Ends
  <2>2. stage' = "proposal" BY <1>6 DEF Ends, ProcessEnds
  <2> QED BY <1>4, <2>1, <2>2
<1>7. CASE Resume \/ ProposalsDone \/ NextSynthesis
  <2>1. /\ stage' \in {"proposal", "jury", "synthesis"} /\ thread' = thread
        /\ pc \in {"idle", "synth"} \/ ThreadsIdle
    BY <1>7 DEF Resume, StartResume, ProposalsDone, NextSynthesis,
                EnterStage, StageReturns, PassSettled
  <2>2. ThreadsIdle BY <1>0, <2>1 DEF ThreadInv
  <2>3. ThreadsIdle' BY <2>1, <2>2, SameIdle
  <2> QED BY <1>4, <2>1, <2>3
<1>8. CASE StartRecovery
  <2>1. /\ recoverable # {} /\ UNCHANGED <<stage, thread>> /\ ThreadsIdle
    BY <1>8 DEF StartRecovery, PassSettled
  <2>2. stage # "jury_repair" BY <1>0, <2>1 DEF PassInv, RepairPass
  <2>3. ThreadsIdle' BY <2>1, SameIdle
  <2> QED BY <1>4, <2>1, <2>2, <2>3
<1>9. CASE Adjudicate
  <2>1. UNCHANGED <<stage, prompts, prior, thread>>
    BY <1>9 DEF Adjudicate, passVars
  <2> QED BY <1>3, <2>1
<1>10. CASE BeginStage BY <1>0, <1>10, BeginRepairs
<1>11. CASE SelectRepairs BY <1>11, SelectFresh
<1> QED BY <1>5, <1>6, <1>7, <1>8, <1>9, <1>10, <1>11, LockKinds

(* What is read in memory at the end of the repairs is what the rows say.  *)
LEMMA RepairsRecorded ==
  ASSUME RunInv, SuccInv, FirmInv, RepairsDone
  PROVE  PendingFinal'
<1>0. EngineBase /\ PassInv BY DEF RunInv
<1>1. /\ pending' = [p \in Provider |-> RepairAudit(p)]
      /\ UNCHANGED <<inv, prompts>> /\ stage = "jury_repair" /\ pc = "run"
      /\ ThreadsIdle /\ recoverable = {}
  BY DEF RepairsDone, StageReturns, PassSettled, storeVars
<1>2. /\ prompts \subseteq Repairable /\ RepairRows \subseteq prompts
      /\ succ \subseteq prompts
  BY <1>0, <1>1 DEF PassInv, RepairPass
<1>3. \A p : RowOf(p) = RepairRow(p) /\ RepairRow(p)' = RepairRow(p)
  BY <1>1 DEF RowOf, RepairRow
<1>4. \A p \in Provider : \A event :
           Settled(p, event) => Settled(p, event)'
  BY <1>1, EventStays
<1>5. ASSUME NEW p \in Provider
      PROVE  /\ Settled(p, RepairAudit(p))
             /\ RepairAudit(p) # NoAudit =>
                  ~(p \in prompts /\ RepairRow(p).status = "none")
  <2>0. p \in RepairRows <=> RepairRow(p).status # "none"
    BY DEF RepairRows, RepairRow
  <2>1. CASE p \notin InvalidJuries \/ ~JuryRepair
    BY <2>1 DEF RepairAudit, Settled
  <2>2. CASE p \in InvalidJuries /\ JuryRepair /\ p \notin prompts
    <3>1. RepairRow(p).status = "none" BY <1>2, <2>0, <2>2
    <3>2. RepairAudit(p) =
            Audit("not_attempted",
                  IF p \in Repairable THEN Unstored("budget") ELSE NoFailure)
      BY <2>2 DEF RepairAudit
    <3>3. EventOf(p) =
            Audit("not_attempted",
                  IF p \in Repairable THEN Unstored("budget") ELSE NoFailure)
      BY <2>2, <3>1 DEF EventOf
    <3> QED BY <2>2, <3>1, <3>2, <3>3 DEF Settled
  <2>3. CASE p \in InvalidJuries /\ JuryRepair /\ p \in succ
    <3>1. RepairRow(p).status = "succeeded" BY <1>3, <2>3 DEF SuccInv
    <3>2. p \in prompts /\ p \in Repairable BY <1>2, <2>3
    <3>3. p \in Repaired <=> RepairRow(p).response = "good"
      BY <1>3, <2>3 DEF Repaired
    <3>4. RepairAudit(p) =
            Audit(IF p \in Repaired THEN "recovered" ELSE "failed",
                  NoFailure)
      BY <2>3, <3>2 DEF RepairAudit
    <3>5. EventOf(p) =
            Audit(IF RepairRow(p).response = "good" THEN "recovered"
                                                    ELSE "failed", NoFailure)
      BY <2>3, <3>1, <3>2 DEF EventOf
    <3>6. RepairAudit(p) = EventOf(p) BY <3>3, <3>4, <3>5
    <3> QED BY <3>1, <3>6 DEF Settled
  <2>4. CASE p \in InvalidJuries /\ JuryRepair /\ p \in prompts
             /\ p \notin succ
    <3>1. Firm(p)
      BY <1>1, <2>4 DEF FirmInv, OneCall, Concluded, ThreadsIdle
    <3>2. CASE RowOf(p).status = "none"
      <4>1. p \notin RepairRows BY <1>3, <2>0, <3>2
      <4>2. RepairAudit(p) = NoAudit BY <2>4, <4>1 DEF RepairAudit
      <4> QED BY <4>2 DEF Settled
    <3>3. CASE RowOf(p).status = "failed" /\ fail[p] = Stored(RowOf(p))
      <4>1. p \in RepairRows /\ RepairRow(p).status = "failed"
        BY <1>3, <2>0, <3>3
      <4>2. RepairAudit(p) = Audit("failed", Stored(RepairRow(p)))
        BY <1>3, <2>4, <3>3, <4>1 DEF RepairAudit
      <4>3. EventOf(p) = Audit("failed", Stored(RepairRow(p)))
        BY <1>2, <2>4, <4>1 DEF EventOf
      <4> QED BY <4>1, <4>2, <4>3 DEF Settled
    <3> QED BY <3>1, <3>2, <3>3 DEF Firm
  <2> QED BY <2>1, <2>2, <2>3, <2>4
<1>6. ASSUME NEW p \in Provider
      PROVE  /\ Settled(p, pending[p])'
             /\ pending'[p] # NoAudit =>
                  ~(p \in prompts' /\ RepairRow(p)'.status = "none")
  <2>1. pending'[p] = RepairAudit(p) BY <1>1
  <2>2. Settled(p, pending'[p]) BY <1>5, <2>1
  <2>3. EventOf(p)' = EventOf(p) BY <1>1, EventStays
  <2>4. Settled(p, pending[p])' BY <1>3, <2>2, <2>3 DEF Settled
  <2> QED BY <1>1, <1>3, <1>5, <2>1, <2>4
<1> QED BY <1>6 DEF PendingFinal

(* Every step keeps the repairs and their events.                          *)
LEMMA NextRepair ==
  ASSUME RunInv, SuccInv, FirmInv, RepairInv, [EngineNext]_vars
  PROVE  RepairInv'
<1>0. EngineBase /\ ThreadInv /\ PassInv /\ LockInv BY DEF RunInv
<1>1. CASE \E p \in Provider : WriteRepair(p) BY <1>1, WriteRepairInv
<1>2. CASE \E p \in Provider : RowStep(p)
  <2>1. PICK p \in Provider : RowStep(p) BY <1>2
  <2>2. pc' = pc /\ pc # "adjudicate"
    BY <1>0, <2>1, RowStepControl DEF ctlVars
  <2>3. PendingFinal' BY <2>2 DEF PendingFinal
  <2> QED BY <1>0, <2>1, <2>3, RowStepEvents, RowStepFresh,
             RowStepPassedEarly, RowStepPassedRepair DEF RepairInv
<1>3. CASE /\ ~\E p \in Provider : WriteRepair(p)
           /\ ~\E p \in Provider : RowStep(p)
  <2>1. repairEvents' = repairEvents BY <1>0, <1>3, AuditKinds
  <2>2. EventsFinal' /\ RepairFresh' /\ PassedOver'
    BY <1>3, <2>1, MainRepairs DEF RepairInv
  <2>3. CASE pc' # "adjudicate" BY <2>2, <2>3 DEF RepairInv, PendingFinal
  <2>4. CASE RepairsDone BY <2>2, <2>4, RepairsRecorded DEF RepairInv
  <2>5. CASE UNCHANGED <<inv, succ, pending, pc, adjLock>>
             /\ pc' = "adjudicate"
    <3>1. Keeps
      <4>1. ~(\/ Ends \/ Resume \/ BeginStage \/ StartRecovery
              \/ ProposalsDone \/ SelectRepairs \/ Adjudicate
              \/ NextSynthesis)
        BY <2>5 DEF Ends, ProcessEnds, Resume, BeginStage, StartRecovery,
                    PassSettled, ProposalsDone, SelectRepairs, StageReturns,
                    Adjudicate, NextSynthesis
      <4> QED BY <1>3, <4>1, LockKinds
    <3>2. prompts' = prompts BY <3>1 DEF Keeps
    <3>3. \A p \in Provider : \A event :
           Settled(p, event) => Settled(p, event)'
      BY <2>5, EventStays
    <3>4. \A p : RepairRow(p)' = RepairRow(p) BY <2>5 DEF RepairRow
    <3>5. PendingFinal'
      BY <2>5, <3>2, <3>3, <3>4 DEF RepairInv, PendingFinal
    <3> QED BY <2>2, <3>5 DEF RepairInv
  <2> QED BY <1>0, <1>3, <2>3, <2>4, <2>5, AuditKinds
<1> QED BY <1>1, <1>2, <1>3

(* What the durable record and the process say of calls that are over.     *)
RecordInv ==
  /\ ReadyInv /\ SuccInv /\ FirmInv /\ FallbackRows
  /\ NamespaceOK /\ AdjudicationOK /\ RepairInv

(* A run that was not started has nothing to disagree about.               *)
LEMMA InitRecord == EngineInit => RecordInv
<1> SUFFICES ASSUME EngineInit PROVE RecordInv OBVIOUS
<1> USE DEF EngineInit
<1>1. ThreadsIdle BY DEF ThreadsIdle
<1>2. ReadyInv BY <1>1 DEF ReadyInv, ThreadsIdle
<1>3. SuccInv /\ FirmInv BY DEF SuccInv, FirmInv
<1>4. FallbackRows BY DEF FallbackRows
<1>5. NamespaceOK /\ AdjudicationOK
  BY DEF NamespaceOK, AdjudicationOK, NamespaceLocked, AdjudicationLocked
<1>6. EventsFinal BY DEF EventsFinal, Settled
<1>7. PendingFinal /\ RepairFresh BY DEF PendingFinal, RepairFresh
<1>8. PassedOver
  <2>1. \A p \in Provider : repairEvents[p] = NoAudit OBVIOUS
  <2> QED BY <2>1 DEF PassedOver, Unattempted, Repairable, InvalidJuries,
                      JuryResponses
<1> QED BY <1>2, <1>3, <1>4, <1>5, <1>6, <1>7, <1>8 DEF RecordInv, RepairInv

(* What is written about a call that is over stays true of its row, in     *)
(* every process that reads it again.                                      *)
THEOREM RecordHolds == EngineSpec => []RecordInv
<1>1. EngineInit => RecordInv BY InitRecord
<1>2. /\ RunInv /\ RunInv' /\ TruncationInv /\ AccountInv /\ RecordInv
      /\ [EngineNext]_vars
      => RecordInv'
  BY NextReady, NextFirm, NextFallbackRows, NextLocksValid, NextRepair
  DEF RecordInv, RunInv
<1> QED BY <1>1, <1>2, RunInvHolds, TruncationHolds, AccountHolds, PTL
        DEF EngineSpec

(* ResumeNeverWedged: no crash, interrupt or sequence of failures leaves a *)
(* run whose record fails a validator of engine.py on every later resume.  *)
THEOREM NoRunIsWedged == EngineSpec => []ResumeNeverWedged
<1>1. RunInv /\ RecordInv /\ RetriesAccounted => ResumeNeverWedged
  <2> SUFFICES ASSUME RunInv, RecordInv, RetriesAccounted
               PROVE  ResumeNeverWedged
    OBVIOUS
  <2>1. FallbackStateOK BY FallbacksValid DEF RunInv, RecordInv
  <2>2. ASSUME pc = "adjudicate", NEW p \in Provider, pending[p] # NoAudit
        PROVE  repairEvents[p] \in {NoAudit, pending[p]}
    BY <2>2 DEF RecordInv, RepairInv, EventsFinal, PendingFinal, Settled
  <2> QED BY <2>1, <2>2 DEF RecordInv, ResumeNeverWedged
<1> QED BY <1>1, RunInvHolds, RecordHolds, AuditNeverRaises, PTL

----------------------------------------------------------------------------
(* The engine keeps the contract of its call gate (CallLeases).            *)

(* The table of reservations, as a set of rows, read as the contract of    *)
(* CallLeases reads it: a lease is a slot and an attempt.                  *)
Reservation == [slot : Slot, attempt : Nat,
                state : {"reserved", "reconciled", "released"}]

LeasesOf(R, state) == {<<r.slot, r.attempt>> : r \in {q \in R : q.state = state}}

LeaseRow(l, state) == [slot |-> l[1], attempt |-> l[2], state |-> state]

(* A lease is in a state when its row with that state is in the table.     *)
LEMMA LeaseView ==
  ASSUME NEW R \in SUBSET Reservation, NEW state
  PROVE  /\ LeasesOf(R, state) \in SUBSET (Slot \X Nat)
         /\ \A l \in Slot \X Nat : l \in LeasesOf(R, state) <=> LeaseRow(l, state) \in R
<1>1. ASSUME NEW r \in R
      PROVE  /\ <<r.slot, r.attempt>> \in Slot \X Nat
             /\ \A l \in Slot \X Nat :
                  l = <<r.slot, r.attempt>> => r = LeaseRow(l, r.state)
  <2>1. /\ r.slot \in Slot /\ r.attempt \in Nat
        /\ r = [slot |-> r.slot, attempt |-> r.attempt, state |-> r.state]
    BY DEF Reservation
  <2>2. <<r.slot, r.attempt>>[1] = r.slot /\ <<r.slot, r.attempt>>[2] = r.attempt
    OBVIOUS
  <2> QED BY <2>1, <2>2 DEF LeaseRow
<1>2. ASSUME NEW l \in LeasesOf(R, state)
      PROVE  l \in Slot \X Nat /\ LeaseRow(l, state) \in R
  <2>1. PICK r \in R : r.state = state /\ l = <<r.slot, r.attempt>>
    BY DEF LeasesOf
  <2>2. l \in Slot \X Nat
    BY <1>1, <2>1
  <2> QED BY <1>1, <2>1, <2>2
<1>3. ASSUME NEW l \in Slot \X Nat, LeaseRow(l, state) \in R
      PROVE  l \in LeasesOf(R, state)
  <2>1. PICK r \in R : r = LeaseRow(l, state)
    BY <1>3
  <2>2. r.state = state /\ r.slot = l[1] /\ r.attempt = l[2]
    BY <2>1 DEF LeaseRow
  <2>3. l = <<l[1], l[2]>>
    OBVIOUS
  <2> QED BY <2>2, <2>3 DEF LeasesOf
<1> QED BY <1>2, <1>3

(* The row tells its lease and its state.                                  *)
LEMMA LeaseRowType ==
  ASSUME NEW l \in Slot \X Nat, NEW state \in {"reserved", "reconciled", "released"}
  PROVE  /\ LeaseRow(l, state) \in Reservation
         /\ \A k \in Slot \X Nat : \A t : LeaseRow(k, t) = LeaseRow(l, state)
                                            => k = l /\ t = state
<1>1. LeaseRow(l, state) \in Reservation
  BY DEF LeaseRow, Reservation
<1>2. ASSUME NEW k \in Slot \X Nat, NEW t, LeaseRow(k, t) = LeaseRow(l, state)
      PROVE  k = l /\ t = state
  <2>1. /\ LeaseRow(k, t).slot = k[1] /\ LeaseRow(k, t).attempt = k[2]
        /\ LeaseRow(k, t).state = t
        /\ LeaseRow(l, state).slot = l[1] /\ LeaseRow(l, state).attempt = l[2]
        /\ LeaseRow(l, state).state = state
    BY DEF LeaseRow
  <2>2. k = <<k[1], k[2]>> /\ l = <<l[1], l[2]>>
    OBVIOUS
  <2> QED BY <1>2, <2>1, <2>2
<1> QED BY <1>1, <1>2

(* A reserved row that is added opens its lease and moves no other.        *)
LEMMA LeaseOpened ==
  ASSUME NEW R \in SUBSET Reservation, NEW l \in Slot \X Nat, NEW state
  PROVE  LeasesOf(R \cup {LeaseRow(l, "reserved")}, state)
           = IF state = "reserved" THEN LeasesOf(R, state) \cup {l}
             ELSE LeasesOf(R, state)
<1> DEFINE S == R \cup {LeaseRow(l, "reserved")}
<1>1. S \in SUBSET Reservation
  BY LeaseRowType
<1>2. \A k \in Slot \X Nat :
        LeaseRow(k, state) \in S
          <=> LeaseRow(k, state) \in R \/ (k = l /\ state = "reserved")
  BY LeaseRowType
<1> HIDE DEF S
<1>3. \A k \in Slot \X Nat :
        k \in LeasesOf(S, state)
          <=> k \in LeasesOf(R, state) \/ (k = l /\ state = "reserved")
  BY <1>1, <1>2, LeaseView
<1>4. LeasesOf(S, state) \in SUBSET (Slot \X Nat)
      /\ LeasesOf(R, state) \in SUBSET (Slot \X Nat)
  BY <1>1, LeaseView
<1>5. LeasesOf(S, state) = IF state = "reserved" THEN LeasesOf(R, state) \cup {l}
                           ELSE LeasesOf(R, state)
  <2>1. CASE state = "reserved"
    BY <1>3, <1>4, <2>1
  <2>2. CASE state # "reserved"
    BY <1>3, <1>4, <2>2
  <2> QED BY <2>1, <2>2
<1> QED BY <1>5 DEF S

(* The table after reconcile or release of one lease.                      *)
SettledIn(R, l, fate) ==
  {IF r.slot = l[1] /\ r.attempt = l[2] THEN [r EXCEPT !.state = fate] ELSE r : r \in R}

(* It moves that lease from open to its fate and no other, if all rows of  *)
(* the lease are open.                                                     *)
LEMMA LeaseClosed ==
  ASSUME NEW R \in SUBSET Reservation, NEW l \in Slot \X Nat,
         NEW fate \in {"reconciled", "released"}, LeaseRow(l, "reserved") \in R,
         \A r \in R : r.slot = l[1] /\ r.attempt = l[2] => r.state = "reserved",
         NEW state
  PROVE  LeasesOf(SettledIn(R, l, fate), state)
           = IF state = "reserved" THEN LeasesOf(R, state) \ {l}
             ELSE IF state = fate THEN LeasesOf(R, state) \cup {l}
             ELSE LeasesOf(R, state)
<1> DEFINE S == SettledIn(R, l, fate)
<1>1. ASSUME NEW r \in R
      PROVE  /\ r.slot = l[1] /\ r.attempt = l[2]
                  => r = LeaseRow(l, "reserved")
                     /\ [r EXCEPT !.state = fate] = LeaseRow(l, fate)
             /\ r = LeaseRow(l, "reserved") => r.slot = l[1] /\ r.attempt = l[2]
             /\ r \in Reservation
  <2>1. r = [slot |-> r.slot, attempt |-> r.attempt, state |-> r.state]
        /\ [r EXCEPT !.state = fate]
             = [slot |-> r.slot, attempt |-> r.attempt, state |-> fate]
    BY DEF Reservation
  <2> QED BY <2>1 DEF LeaseRow
<1>2. \A x : x \in S <=> \/ x = LeaseRow(l, fate)
                         \/ x \in R /\ x # LeaseRow(l, "reserved")
  <2>1. ASSUME NEW x \in S
        PROVE  x = LeaseRow(l, fate) \/ (x \in R /\ x # LeaseRow(l, "reserved"))
    BY <1>1 DEF SettledIn
  <2>2. LeaseRow(l, fate) \in S
    <3>1. PICK r \in R : r = LeaseRow(l, "reserved")
      OBVIOUS
    <3>2. r.slot = l[1] /\ r.attempt = l[2]
      BY <1>1, <3>1
    <3>3. [r EXCEPT !.state = fate] = LeaseRow(l, fate)
      BY <1>1, <3>2
    <3> QED BY <3>2, <3>3 DEF SettledIn
  <2>3. ASSUME NEW x \in R, x # LeaseRow(l, "reserved")
        PROVE  x \in S
    <3>1. ~(x.slot = l[1] /\ x.attempt = l[2])
      BY <1>1, <2>3
    <3> QED BY <3>1 DEF SettledIn
  <2> QED BY <2>1, <2>2, <2>3
<1>3. S \in SUBSET Reservation
  BY <1>1, <1>2, LeaseRowType
<1> HIDE DEF S
<1>4. LeasesOf(S, state) \in SUBSET (Slot \X Nat)
      /\ LeasesOf(R, state) \in SUBSET (Slot \X Nat)
  BY <1>3, LeaseView
<1>5. \A k \in Slot \X Nat :
        k \in LeasesOf(S, state)
          <=> \/ k = l /\ state = fate
              \/ k \in LeasesOf(R, state) /\ ~(k = l /\ state = "reserved")
  <2> SUFFICES ASSUME NEW k \in Slot \X Nat
               PROVE  LeaseRow(k, state) \in S
                        <=> \/ k = l /\ state = fate
                            \/ LeaseRow(k, state) \in R /\ ~(k = l /\ state = "reserved")
    BY <1>3, LeaseView
  <2>1. LeaseRow(k, state) = LeaseRow(l, fate) <=> k = l /\ state = fate
    BY LeaseRowType
  <2>2. LeaseRow(k, state) = LeaseRow(l, "reserved") <=> k = l /\ state = "reserved"
    BY LeaseRowType
  <2> QED BY <1>2, <2>1, <2>2
<1>6. LeasesOf(S, state) = IF state = "reserved" THEN LeasesOf(R, state) \ {l}
                           ELSE IF state = fate THEN LeasesOf(R, state) \cup {l}
                           ELSE LeasesOf(R, state)
  <2>1. CASE state = "reserved"
    BY <1>4, <1>5, <2>1
  <2>2. CASE state = fate
    BY <1>4, <1>5, <2>2
  <2>3. CASE state # "reserved" /\ state # fate
    BY <1>4, <1>5, <2>3
  <2> QED BY <2>1, <2>2, <2>3
<1> QED BY <1>6 DEF S

(* The lease a thread works under: the present attempt at its slot.        *)
LeaseOf(p) == <<SlotOf(p), Attempt(SlotOf(p))>>

(* The thread was granted a lease and the main thread did not settle it.   *)
HoldsLease(p) ==
  \/ thread[p].at = "leased"
  \/ thread[p].at = "done" /\ LeaseDue(thread[p].out)

(* Each attempt is reserved at most once, and the lease of a thread that   *)
(* holds one is open. The second part speaks of the call that is over as   *)
(* well as of the one under way: its thread is gone from the pool, the row *)
(* of its lease is not.                                                    *)
LeaseInv ==
  /\ \A r \in reservations : \A q \in reservations :
       r.slot = q.slot /\ r.attempt = q.attempt => r = q
  /\ \A p \in Provider :
       HoldsLease(p) => LeaseRow(LeaseOf(p), "reserved") \in reservations

(* No lease is opened, used or closed.                                     *)
LeasesKept == UNCHANGED <<reservations, sent>>

(* What the contract sees of a state.                                      *)
LEMMA LeaseFrom ==
  /\ \A state : LeasesIn(state) = LeasesOf(reservations, state)
  /\ \A state : LeasesIn(state)' = LeasesOf(reservations', state)
  /\ LeasesKept => UNCHANGED Leases!leaseVars
<1>1. \A state : LeasesIn(state) = LeasesOf(reservations, state)
  BY DEF LeasesIn, LeasesOf
<1>2. \A state : LeasesIn(state)' = LeasesOf(reservations', state)
  BY DEF LeasesIn, LeasesOf
<1>3. LeasesKept => UNCHANGED Leases!leaseVars
  BY DEF LeasesKept, Leases!leaseVars, LeasesIn
<1> QED BY <1>1, <1>2, <1>3

(* The lease of a thread is a slot of this run and an attempt number.      *)
LEMMA LeaseTypes ==
  ASSUME EngineBase, NEW p \in Provider
  PROVE  /\ LeaseOf(p) \in Slot \X Nat
         /\ LeaseOf(p)[1] = SlotOf(p) /\ LeaseOf(p)[2] = Attempt(SlotOf(p))
         /\ SlotOf(p) \in Slot
         /\ reservations \in SUBSET Reservation
<1>1. SlotOf(p) \in Slot
  BY RowType
<1>2. Attempt(SlotOf(p)) \in Nat
  BY <1>1 DEF Attempt, EngineBase, StoreInv, StoreTypeOK, Row
<1> QED BY <1>1, <1>2 DEF LeaseOf, EngineBase, ReservationsTypeOK, Reservation

(* A lease stays open while its table, its row and its slot stay.          *)
LEMMA SameLease ==
  ASSUME EngineBase, LeaseInv, NEW p \in Provider, HoldsLease(p), UNCHANGED reservations,
         SlotOf(p)' = SlotOf(p),
         inv'[SlotOf(p)] = inv[SlotOf(p)],
         undispatched'[SlotOf(p)] = undispatched[SlotOf(p)]
  PROVE  LeaseRow(LeaseOf(p), "reserved")' \in reservations'
<1>1. LeaseOf(p)' = LeaseOf(p)
  BY DEF LeaseOf, Attempt, SlotOf
<1>2. LeaseRow(LeaseOf(p), "reserved") \in reservations
  BY DEF LeaseInv
<1> QED BY <1>1, <1>2 DEF LeaseRow

(* It is enough to look at the lease of the thread that moves.             *)
LEMMA OtherLeases ==
  ASSUME EngineBase, LeaseInv, NEW p \in Provider, Touches(p),
         OtherReservationsKept(SlotOf(p)),
         \A r \in reservations' : \A q \in reservations' :
            r.slot = q.slot /\ r.attempt = q.attempt => r = q,
         HoldsLease(p)' => LeaseRow(LeaseOf(p), "reserved")' \in reservations'
  PROVE  LeaseInv'
<1>1. ASSUME NEW q \in Provider, q # p, HoldsLease(q)'
      PROVE  LeaseRow(LeaseOf(q), "reserved")' \in reservations'
  <2>1. /\ stage' = stage /\ thread'[q] = thread[q]
        /\ \A s \in Slot : s # SlotOf(p) =>
             inv'[s] = inv[s] /\ undispatched'[s] = undispatched[s]
    BY <1>1 DEF Touches
  <2>2. SlotOf(q) \in Slot /\ SlotOf(q) # SlotOf(p) /\ SlotOf(q)' = SlotOf(q)
    BY <1>1, <2>1, RowType DEF SlotOf
  <2>3. Attempt(SlotOf(q))' = Attempt(SlotOf(q))
    BY <2>1, <2>2 DEF Attempt, SlotOf
  <2>4. HoldsLease(q)
    BY <1>1, <2>1 DEF HoldsLease
  <2>5. LeaseRow(LeaseOf(q), "reserved") \in reservations
    BY <2>4 DEF LeaseInv
  <2>6. LeaseRow(LeaseOf(q), "reserved").slot = SlotOf(q)
    BY LeaseTypes DEF LeaseRow
  <2>7. LeaseOf(q)' = LeaseOf(q)
    BY <2>2, <2>3 DEF LeaseOf
  <2>8. LeaseRow(LeaseOf(q), "reserved") \in reservations'
    BY <2>2, <2>5, <2>6 DEF OtherReservationsKept
  <2> QED BY <2>7, <2>8 DEF LeaseRow
<1> QED BY <1>1 DEF LeaseInv

(* A worker's other steps leave the table alone, and the call that is made *)
(* is made under an open lease, for the first time.                        *)
LEMMA QuietWorkerLease ==
  ASSUME EngineBase, EngineBase', ThreadInv, HistoryInv, LeaseInv, NEW p \in Provider,
         \/ StartTooLate(p) \/ StartCall(p) \/ CallTooLate(p) \/ CallProvider(p)
  PROVE  LeaseInv' /\ (Leases!LeaseNext \/ UNCHANGED Leases!leaseVars)
<1>1. WorkerStep(p)
  BY DEF WorkerStep
<1>2. /\ Touches(p) /\ UNCHANGED reservations
      /\ ~StartCall(p) => UNCHANGED storeVars
  BY <1>1, WorkerFacts DEF StartTooLate, StartCall, CallTooLate, CallProvider
<1>3. thread \in [Provider -> [at : {"idle", "queued", "started", "leased",
                                     "done", "accounted"}, out : Outs]]
  BY DEF EngineBase, ThreadTypeOK
<1>4. SlotOf(p)' = SlotOf(p)
  BY <1>2 DEF Touches, SlotOf
<1>5. HoldsLease(p)' => HoldsLease(p) /\ ~StartCall(p)
  <2>1. CASE StartTooLate(p)
    BY <1>3, <2>1 DEF StartTooLate, ThreadStep, HoldsLease, LeaseDue
  <2>2. CASE StartCall(p)
    BY <1>3, <2>2 DEF StartCall, ThreadStep, HoldsLease
  <2>3. CASE CallTooLate(p) \/ CallProvider(p)
    <3>1. GateOn => thread[p].at = "leased"
      BY <2>3 DEF CallTooLate, CallProvider, MayCall
    <3>2. thread'[p].at = "done"
      BY <1>3, <2>3, ProviderFacts DEF CallTooLate, ThreadStep
    <3>3. ~StartCall(p)
      <4>1. thread[p].at \in {"leased", "started"}
        BY <2>3 DEF CallTooLate, CallProvider, MayCall
      <4>2. StartCall(p) => thread[p].at = "queued"
        BY DEF StartCall, Scheduled
      <4> QED BY <4>1, <4>2
    <3> QED BY <3>1, <3>2, <3>3 DEF HoldsLease, LeaseDue
  <2> QED BY <2>1, <2>2, <2>3
<1>6. LeaseInv'
  <2>1. HoldsLease(p)' => LeaseRow(LeaseOf(p), "reserved")' \in reservations'
    BY <1>2, <1>4, <1>5, SameLease DEF storeVars
  <2>2. OtherReservationsKept(SlotOf(p))
    BY <1>2 DEF OtherReservationsKept
  <2> QED BY <1>2, <2>1, <2>2, OtherLeases DEF LeaseInv
<1>7. CASE CallProvider(p) /\ GateOn
  <2>1. /\ sent' = sent \cup {LeaseOf(p)} /\ Unsent(p)
        /\ thread[p].at = "leased"
    BY <1>7, ProviderFacts DEF LeaseOf
  <2>2. LeaseOf(p) \in LeasesIn("reserved")
    <3>1. LeaseRow(LeaseOf(p), "reserved") \in reservations
      BY <2>1 DEF LeaseInv, HoldsLease
    <3> QED BY <3>1, LeaseTypes, LeaseView, LeaseFrom
  <2>3. LeaseOf(p) \notin sent
    BY <2>1 DEF HistoryInv, CallOK, Handed, LeaseOf
  <2>4. \A state : LeasesIn(state)' = LeasesIn(state)
    BY <1>2 DEF LeasesIn
  <2>5. Leases!Use
    BY <1>7, <2>1, <2>2, <2>3, <2>4 DEF Leases!Use
  <2> QED BY <1>6, <2>5 DEF Leases!LeaseNext
<1>8. CASE ~(CallProvider(p) /\ GateOn)
  <2>1. GateOn => UNCHANGED sent
    BY <1>8 DEF StartTooLate, StartCall, CallTooLate, hisVars
  <2>2. \A state : LeasesIn(state)' = LeasesIn(state)
    BY <1>2 DEF LeasesIn
  <2> QED BY <1>6, <2>1, <2>2 DEF Leases!leaseVars
<1> QED BY <1>7, <1>8

(* What is granted is a lease the gate never heard of.                     *)
LEMMA ReserveLease ==
  ASSUME EngineBase, EngineBase', ThreadInv, ReservationInv, LeaseInv,
         NEW p \in Provider, ReserveCall(p)
  PROVE  LeaseInv' /\ (Leases!LeaseNext \/ UNCHANGED Leases!leaseVars)
<1>1. WorkerStep(p)
  BY DEF WorkerStep
<1>2. /\ Touches(p) /\ UNCHANGED storeVars /\ UNCHANGED sent
      /\ thread[p].at = "started" /\ GateOn
  BY <1>1, WorkerFacts DEF ReserveCall, StartCall, hisVars
<1>3. thread \in [Provider -> [at : {"idle", "queued", "started", "leased",
                                     "done", "accounted"}, out : Outs]]
  BY DEF EngineBase, ThreadTypeOK
<1>4. LeaseOf(p)' = LeaseOf(p)
  BY <1>2 DEF Touches, LeaseOf, SlotOf, Attempt, storeVars
<1>5. ASSUME NEW r \in reservations, r.slot = SlotOf(p)
      PROVE  r.attempt # Attempt(SlotOf(p))
  <2>1. r.attempt < Attempt(SlotOf(p))
    BY <1>2, <1>5 DEF ReservationInv, LeaseOK
  <2>2. r.attempt \in Nat /\ Attempt(SlotOf(p)) \in Nat
    BY LeaseTypes DEF EngineBase, ReservationsTypeOK, LeaseOf
  <2> QED BY <2>1, <2>2
<1>6. PICK answer \in GateAnswers(SlotOf(p)) :
        IF answer = "granted"
        THEN /\ reservations' = reservations \cup {LeaseRow(LeaseOf(p), "reserved")}
             /\ ThreadStep(p, "leased", "none")
        ELSE /\ ThreadStep(p, "done", answer)
             /\ UNCHANGED reservations
  BY LeaseTypes DEF ReserveCall, LeaseRow
<1>7. CASE answer = "granted"
  <2>1. reservations' = reservations \cup {LeaseRow(LeaseOf(p), "reserved")}
    BY <1>6, <1>7
  <2>2. /\ LeaseRow(LeaseOf(p), "reserved").slot = SlotOf(p)
        /\ LeaseRow(LeaseOf(p), "reserved").attempt = Attempt(SlotOf(p))
    BY LeaseTypes DEF LeaseRow
  <2>3. \A r \in reservations' : \A q \in reservations' :
          r.slot = q.slot /\ r.attempt = q.attempt => r = q
    BY <1>5, <2>1, <2>2 DEF LeaseInv
  <2>4. OtherReservationsKept(SlotOf(p))
    BY <2>1, <2>2 DEF OtherReservationsKept
  <2>5. LeaseRow(LeaseOf(p), "reserved")' \in reservations'
    BY <1>4, <2>1 DEF LeaseRow
  <2>6. LeaseInv'
    BY <1>2, <2>3, <2>4, <2>5, OtherLeases
  <2>7. \A state : LeasesIn(state)' = IF state = "reserved"
                                      THEN LeasesIn(state) \cup {LeaseOf(p)}
                                      ELSE LeasesIn(state)
    <3> SUFFICES ASSUME NEW state
                 PROVE  LeasesIn(state)' = IF state = "reserved"
                                           THEN LeasesIn(state) \cup {LeaseOf(p)}
                                           ELSE LeasesIn(state)
      OBVIOUS
    <3>1. LeaseOf(p) \in Slot \X Nat /\ reservations \in SUBSET Reservation
      BY LeaseTypes
    <3>2. LeasesOf(reservations \cup {LeaseRow(LeaseOf(p), "reserved")}, state)
            = IF state = "reserved"
              THEN LeasesOf(reservations, state) \cup {LeaseOf(p)}
              ELSE LeasesOf(reservations, state)
      BY <3>1, LeaseOpened
    <3>3. LeasesIn(state)' = LeasesOf(reservations', state) BY LeaseFrom
    <3>4. LeasesIn(state) = LeasesOf(reservations, state) BY LeaseFrom
    <3> QED BY <2>1, <3>2, <3>3, <3>4, Zenon
  <2>8. \A state \in {"reserved", "reconciled", "released"} :
          LeaseOf(p) \notin LeasesIn(state)
    <3> SUFFICES ASSUME NEW state \in {"reserved", "reconciled", "released"},
                        LeaseOf(p) \in LeasesIn(state)
                 PROVE  FALSE
      OBVIOUS
    <3>1. LeaseRow(LeaseOf(p), state) \in reservations
      BY LeaseTypes, LeaseView, LeaseFrom
    <3>2. /\ LeaseRow(LeaseOf(p), state).slot = SlotOf(p)
          /\ LeaseRow(LeaseOf(p), state).attempt = Attempt(SlotOf(p))
      BY LeaseTypes DEF LeaseRow
    <3> QED BY <1>5, <3>1, <3>2
  <2>9. Leases!Open
    BY <1>2, <2>7, <2>8 DEF Leases!Open
  <2> QED BY <2>6, <2>9 DEF Leases!LeaseNext
<1>8. CASE answer # "granted"
  <2>1. UNCHANGED reservations /\ thread'[p] = [at |-> "done", out |-> answer]
    BY <1>3, <1>6, <1>8 DEF ThreadStep
  <2>2. answer \in {"replayed", "denied"}
    BY <1>6, <1>8 DEF GateAnswers
  <2>3. ~HoldsLease(p)'
    BY <2>1, <2>2 DEF HoldsLease, LeaseDue
  <2>4. OtherReservationsKept(SlotOf(p))
    BY <2>1 DEF OtherReservationsKept
  <2>5. LeaseInv'
    BY <1>2, <2>1, <2>3, <2>4, OtherLeases DEF LeaseInv
  <2> QED BY <1>2, <2>1, <2>5, LeaseFrom DEF LeasesKept
<1> QED BY <1>7, <1>8

(* The lease that is settled is open; it is refunded only for a call that  *)
(* came too late to be made.                                               *)
LEMMA SettleLeaseLease ==
  ASSUME EngineBase, EngineBase', ThreadInv, HistoryInv, LeaseInv,
         NEW p \in Provider, LeaseStep(p),
         SettleReservation(p, LeaseFate(thread[p].out))
  PROVE  LeaseInv' /\ Leases!LeaseNext
<1>1. /\ Touches(p) /\ UNCHANGED storeVars /\ UNCHANGED sent
      /\ thread[p].at = "done" /\ LeaseDue(thread[p].out)
      /\ thread'[p].at = "accounted"
  BY LeaseFacts DEF hisVars
<1> DEFINE l == LeaseOf(p)
           fate == LeaseFate(thread[p].out)
<1>2. /\ l \in Slot \X Nat /\ l[1] = SlotOf(p) /\ l[2] = Attempt(SlotOf(p))
      /\ reservations \in SUBSET Reservation
      /\ fate \in {"reconciled", "released"}
  BY LeaseTypes DEF LeaseFate
<1>3. LeaseRow(l, "reserved") \in reservations
  BY <1>1 DEF LeaseInv, HoldsLease
<1>4. LeaseRow(l, "reserved").slot = l[1] /\ LeaseRow(l, "reserved").attempt = l[2]
      /\ LeaseRow(l, "reserved").state = "reserved"
  BY DEF LeaseRow
<1>5. \A r \in reservations : r.slot = l[1] /\ r.attempt = l[2] => r.state = "reserved"
  BY <1>3, <1>4 DEF LeaseInv
<1>6. reservations' = SettledIn(reservations, l, fate)
  BY <1>2 DEF SettleReservation, SettledIn
<1>7. \A state : LeasesIn(state)' =
                   IF state = "reserved" THEN LeasesIn(state) \ {l}
                   ELSE IF state = fate THEN LeasesIn(state) \cup {l}
                   ELSE LeasesIn(state)
  <2> SUFFICES ASSUME NEW state
               PROVE  LeasesOf(reservations', state) =
                        IF state = "reserved" THEN LeasesOf(reservations, state) \ {l}
                        ELSE IF state = fate THEN LeasesOf(reservations, state) \cup {l}
                        ELSE LeasesOf(reservations, state)
    BY LeaseFrom
  <2> HIDE DEF l, fate
  <2> QED BY <1>2, <1>3, <1>5, <1>6, LeaseClosed
<1>8. l \in LeasesIn("reserved")
  BY <1>2, <1>3, LeaseView, LeaseFrom
<1>9. Leases!Charge \/ Leases!Refund
  <2>1. CASE thread[p].out = "late"
    <3>1. fate = "released"
      BY <2>1 DEF LeaseFate
    <3>2. l \notin sent
      BY <2>1 DEF HistoryInv, CallOK, Unsent, Handed, LeaseOf
    <3> HIDE DEF l, fate
    <3> QED BY <1>1, <1>7, <1>8, <3>1, <3>2 DEF Leases!Refund
  <2>2. CASE thread[p].out # "late"
    <3>1. fate = "reconciled"
      BY <2>2 DEF LeaseFate
    <3> HIDE DEF l, fate
    <3> QED BY <1>1, <1>7, <1>8, <3>1 DEF Leases!Charge
  <2> QED BY <2>1, <2>2
<1>10. ASSUME NEW r \in reservations
       PROVE  /\ [r EXCEPT !.state = fate].slot = r.slot
              /\ [r EXCEPT !.state = fate].attempt = r.attempt
  BY <1>2 DEF Reservation
<1>11. \A r \in reservations' : \A q \in reservations' :
         r.slot = q.slot /\ r.attempt = q.attempt => r = q
  <2> HIDE DEF l, fate
  <2>1. ASSUME NEW x \in reservations'
        PROVE  \E r \in reservations :
                 /\ x = IF r.slot = l[1] /\ r.attempt = l[2]
                        THEN [r EXCEPT !.state = fate] ELSE r
                 /\ x.slot = r.slot /\ x.attempt = r.attempt
    BY <1>6, <1>10 DEF SettledIn
  <2> SUFFICES ASSUME NEW x \in reservations', NEW y \in reservations',
                      x.slot = y.slot, x.attempt = y.attempt
               PROVE  x = y
    OBVIOUS
  <2>2. PICK r \in reservations :
          /\ x = IF r.slot = l[1] /\ r.attempt = l[2]
                 THEN [r EXCEPT !.state = fate] ELSE r
          /\ x.slot = r.slot /\ x.attempt = r.attempt
    BY <2>1
  <2>3. PICK q \in reservations :
          /\ y = IF q.slot = l[1] /\ q.attempt = l[2]
                 THEN [q EXCEPT !.state = fate] ELSE q
          /\ y.slot = q.slot /\ y.attempt = q.attempt
    BY <2>1
  <2>4. r = q
    BY <2>2, <2>3 DEF LeaseInv
  <2> QED BY <2>2, <2>3, <2>4
<1>12. OtherReservationsKept(SlotOf(p))
  <2> SUFFICES ASSUME NEW x, x.slot # SlotOf(p)
               PROVE  x \in reservations' <=> x \in reservations
    BY DEF OtherReservationsKept
  <2> HIDE DEF l, fate
  <2>1. ASSUME x \in reservations' PROVE x \in reservations
    <3>1. PICK r \in reservations :
            x = IF r.slot = l[1] /\ r.attempt = l[2]
                THEN [r EXCEPT !.state = fate] ELSE r
      BY <1>6, <2>1 DEF SettledIn
    <3> QED BY <1>2, <1>10, <3>1
  <2>2. ASSUME x \in reservations PROVE x \in reservations'
    BY <1>2, <1>6, <2>2 DEF SettledIn
  <2> QED BY <2>1, <2>2
<1>13. LeaseInv'
  BY <1>1, <1>11, <1>12, OtherLeases DEF HoldsLease
<1> QED BY <1>9, <1>13 DEF Leases!LeaseNext

(* A reconcile that raises may leave its lease open, and the row is        *)
(* settled only when no lease is due any more.                             *)
LEMMA KeptLease ==
  ASSUME EngineBase, EngineBase', ThreadInv, LeaseInv, NEW p \in Provider,
         (ReconcileFails(p) /\ UNCHANGED reservations) \/ SettleStep(p)
  PROVE  LeaseInv' /\ UNCHANGED Leases!leaseVars
<1>1. Touches(p) /\ LeasesKept /\ thread'[p].at \in {"accounted", "idle"}
  <2>1. CASE ReconcileFails(p) /\ UNCHANGED reservations
    BY <2>1, LeaseFacts DEF LeaseStep, ReconcileFails, LeasesKept, hisVars
  <2>2. CASE SettleStep(p)
    BY <2>2, SettleFacts DEF LeasesKept, Idle
  <2> QED BY <2>1, <2>2
<1>2. ~HoldsLease(p)'
  BY <1>1 DEF HoldsLease
<1>3. LeaseInv'
  BY <1>1, <1>2, OtherLeases DEF LeasesKept, OtherReservationsKept, LeaseInv
<1> QED BY <1>1, <1>3, LeaseFrom

(* Where no thread is left holding a lease, none has to be open.           *)
LEMMA IdleLeases ==
  ASSUME LeaseInv, LeasesKept, \A p \in Provider : ~HoldsLease(p)'
  PROVE  LeaseInv' /\ UNCHANGED Leases!leaseVars
BY LeaseFrom DEF LeaseInv, LeasesKept

(* Every step keeps the leases in order and takes one step of the          *)
(* contract, or none.                                                      *)
LEMMA LeaseStepKept ==
  ASSUME EngineBase, EngineBase', ThreadInv, HistoryInv, ReservationInv, LeaseInv,
         [EngineNext]_vars
  PROVE  LeaseInv' /\ (Leases!LeaseNext \/ UNCHANGED Leases!leaseVars)
<1>1. CASE Quiet
  <2>1. \A p \in Provider : ~HoldsLease(p)'
    BY <1>1 DEF Quiet, ThreadsIdle, Idle, HoldsLease
  <2> QED BY <1>1, <2>1, IdleLeases DEF Quiet, LeasesKept, hisVars
<1>2. CASE Steady
  <2>1. ASSUME NEW p \in Provider, HoldsLease(p)'
        PROVE  LeaseRow(LeaseOf(p), "reserved")' \in reservations'
    <3>1. HoldsLease(p) /\ SlotOf(p)' = SlotOf(p)
      BY <1>2, <2>1 DEF Steady, HoldsLease, SlotOf
    <3> QED BY <1>2, <3>1, SameLease DEF Steady, storeVars
  <2>2. LeaseInv'
    BY <1>2, <2>1 DEF Steady, LeaseInv
  <2> QED BY <1>2, <2>2, LeaseFrom DEF Steady, LeasesKept, hisVars
<1>3. CASE BeginStage
  <2>1. \A p \in Provider : ~HoldsLease(p)'
    BY <1>3, BeginFacts DEF Idle, HoldsLease
  <2> QED BY <1>3, <2>1, BeginFacts, IdleLeases DEF LeasesKept, hisVars
<1>4. CASE \E p \in Provider : MarkLost(p)
  <2>1. PICK p \in Provider : MarkLost(p)
    BY <1>4
  <2>2. \A q \in Provider : ~HoldsLease(q)'
    BY <2>1, MarkLostFacts DEF ThreadsIdle, Idle, HoldsLease
  <2> QED BY <2>1, <2>2, MarkLostFacts, IdleLeases DEF LeasesKept, hisVars
<1>5. CASE \E p \in Provider : WorkerStep(p) \/ LeaseStep(p) \/ SettleStep(p)
  BY <1>5, QuietWorkerLease, ReserveLease, SettleLeaseLease, KeptLease, LeaseFates
  DEF WorkerStep
<1> QED BY <1>1, <1>2, <1>3, <1>4, <1>5, StepKinds

(* A new run holds no lease.                                               *)
LEMMA LeaseStart == EngineInit => LeaseInv /\ Leases!LeaseInit
<1> SUFFICES ASSUME EngineInit PROVE LeaseInv /\ Leases!LeaseInit
  OBVIOUS
<1>1. reservations = {} /\ sent = {} /\ \A p \in Provider : thread[p].at = "idle"
  BY DEF EngineInit, Idle
<1>2. LeaseInv
  BY <1>1 DEF LeaseInv, HoldsLease
<1> QED BY <1>1, <1>2 DEF Leases!LeaseInit, LeasesIn

(* LeaseInv holds in every process that works on the run, which is what    *)
(* the contract below rests on.                                            *)
THEOREM LeaseInvHolds == EngineSpec => []LeaseInv
<1>1. EngineInit => LeaseInv
  BY LeaseStart
<1>2. /\ EngineBase /\ EngineBase' /\ ThreadInv /\ HistoryInv /\ ReservationInv
      /\ LeaseInv /\ [EngineNext]_vars
      => LeaseInv'
  BY LeaseStepKept
<1> QED BY <1>1, <1>2, ThreadInvHolds, HistoryHolds, ReservationInvHolds, PTL
        DEF EngineSpec

(* ImplementsLeases: the attempts of the engine, whatever its threads,     *)
(* crashes and resumes do, keep the contract of the call gate. Each is     *)
(* reserved once and settled once; a call is made under an open lease and  *)
(* under no lease twice; and call_gate.release is called for no lease      *)
(* under which a provider was called.                                      *)
THEOREM EngineKeepsLeases == EngineSpec => ImplementsLeases
<1>1. EngineInit => Leases!LeaseInit
  BY LeaseStart
<1>2. /\ EngineBase /\ EngineBase' /\ ThreadInv /\ HistoryInv /\ ReservationInv
      /\ LeaseInv /\ [EngineNext]_vars
      => [Leases!LeaseNext]_Leases!leaseVars
  BY LeaseStepKept
<1> QED BY <1>1, <1>2, ThreadInvHolds, HistoryHolds, ReservationInvHolds,
           LeaseInvHolds, PTL
        DEF EngineSpec, ImplementsLeases, Leases!LeaseSpec

=============================================================================
