------------------------ MODULE InvocationStoreProofs ------------------------
(***************************************************************************)
(* Proofs about the invocation ledger, for every set of stages, providers, *)
(* prompts and responses and every bound.  One lemma per operation says    *)
(* that it preserves the inductive invariant StoreInv, whoever calls it;   *)
(* the theorems combine them for StoreSpec.                                *)
(***************************************************************************)
EXTENDS InvocationStore, TLAPS, FiniteSetTheorems

(* What the status of a row says about its other fields.                   *)
RowShape ==
  \A s \in Slot :
    /\ inv[s].status = "none" => inv[s] = NoRow
    /\ inv[s].status # "none" => inv[s].calls >= 1
    /\ inv[s].status = "failed" => inv[s].error \in Error
    /\ inv[s].status # "failed" => inv[s].error = "none"
    /\ inv[s].status = "succeeded" => inv[s].response \in Response
    /\ inv[s].status # "succeeded" => inv[s].response = "none"

(* RetryAudit element by element, the form in which it is inductive.       *)
EventsUnique ==
  \A e, f \in retryEvents : e.slot = f.slot /\ e.count = f.count => e = f

EventsComplete ==
  \A s \in Slot : \A n \in Nat :
    (\E e \in retryEvents : e.slot = s /\ e.count = n)
      <=> (2 <= n /\ n <= inv[s].calls)

StoreInv == StoreTypeOK /\ RowShape /\ EventsUnique /\ EventsComplete

(* The caller's copies of a row that release_undispatched_invocation can   *)
(* be given.                                                               *)
PriorRow ==
  {NoRow} \cup
  {row \in Row : row.status = "failed" /\ row.error \in Error
                   /\ row.response = "none"}

----------------------------------------------------------------------------

(* NoRow is a row, and so is every element of PriorRow.                    *)
LEMMA NoRowType == NoRow \in Row
  BY DEF NoRow, Row

(* A running row is never NoRow, and NoRow counts no call.                 *)
LEMMA NoRowFields == /\ NoRow.status = "none" /\ NoRow.calls = 0
                     /\ NoRow.error = "none" /\ NoRow.prompt = NoPrompt
                     /\ NoRow.response = "none"
  BY DEF NoRow

(* The event written for a failed row is a retry event of the next call.   *)
LEMMA RetryOfType ==
  ASSUME StoreTypeOK, NEW s \in Slot, inv[s].error \in Error
  PROVE  /\ RetryOf(s) \in RetryEvent
         /\ RetryOf(s).slot = s
         /\ RetryOf(s).count = inv[s].calls + 1
<1>1. inv[s] \in Row BY DEF StoreTypeOK
<1>2. inv[s].calls + 1 \in Nat BY <1>1 DEF Row
<1>3. RetryKind(inv[s].error) \in {"truncation", "application"}
  BY DEF RetryKind
<1> QED BY <1>2, <1>3 DEF RetryOf, RetryEvent

(* An empty run satisfies the invariant.                                   *)
LEMMA StoreInitInv == StoreInit => StoreInv
<1> SUFFICES ASSUME StoreInit PROVE StoreInv OBVIOUS
<1>1. StoreTypeOK BY NoRowType DEF StoreInit, StoreTypeOK
<1>2. RowShape BY NoRowFields DEF StoreInit, RowShape
<1>3. EventsUnique BY DEF StoreInit, EventsUnique
<1>4. EventsComplete BY NoRowFields DEF StoreInit, EventsComplete
<1> QED BY <1>1, <1>2, <1>3, <1>4 DEF StoreInv

(* start_invocation preserves the invariant.                               *)
LEMMA StartInv ==
  ASSUME StoreInv, NEW s \in Slot, NEW prompt \in Prompt,
         start_invocation(s, prompt)
  PROVE  StoreInv'
<1> DEFINE new == [status |-> "running", error |-> "none",
                   response |-> "none", calls |-> inv[s].calls + 1,
                   prompt |-> prompt]
<1>0. inv \in [Slot -> Row] /\ inv[s] \in Row /\ inv[s].calls \in Nat
  BY DEF StoreInv, StoreTypeOK, Row
<1>1. new \in Row BY <1>0 DEF Row
<1>2. inv' = [inv EXCEPT ![s] = new] BY DEF start_invocation
<1>3. /\ inv' \in [Slot -> Row] /\ inv'[s] = new
      /\ \A t \in Slot : t # s => inv'[t] = inv[t]
  BY <1>0, <1>1, <1>2
<1> HIDE DEF new
<1>4. /\ new.status = "running" /\ new.calls = inv[s].calls + 1
      /\ new.error = "none" /\ new.response = "none"
  BY DEF new
<1>5. inv[s].status = "failed" => inv[s].error \in Error
  BY DEF StoreInv, RowShape
<1>6. StoreTypeOK'
  <2>1. retryEvents' \subseteq RetryEvent
    BY <1>5, RetryOfType DEF start_invocation, StoreInv, StoreTypeOK
  <2> QED BY <1>3, <2>1 DEF start_invocation, StoreInv, StoreTypeOK
<1>7. RowShape'
  BY <1>0, <1>3, <1>4 DEF StoreInv, RowShape
<1>8. EventsUnique' /\ EventsComplete'
  <2>1. CASE inv[s].status = "none"
    <3>1. inv[s].calls = 0 BY <2>1, NoRowFields DEF StoreInv, RowShape
    <3>2. retryEvents' = retryEvents BY <2>1 DEF start_invocation
    <3>3. EventsUnique' BY <3>2 DEF StoreInv, EventsUnique
    <3>4. EventsComplete'
      BY <3>1, <3>2, <1>3, <1>4 DEF StoreInv, EventsComplete
    <3> QED BY <3>3, <3>4
  <2>2. CASE inv[s].status = "failed"
    <3> DEFINE e0 == RetryOf(s)
    <3>1. retryEvents' = retryEvents \cup {e0}
      BY <2>2 DEF start_invocation
    <3>2. e0.slot = s /\ e0.count = inv[s].calls + 1
      BY <1>5, <2>2, RetryOfType DEF StoreInv
    <3>3. inv[s].calls >= 1 BY <2>2 DEF StoreInv, RowShape
    <3> HIDE DEF e0
    <3>4. \A e \in retryEvents : ~ (e.slot = s /\ e.count = inv[s].calls + 1)
      BY <1>0 DEF StoreInv, EventsComplete
    <3>5. EventsUnique'
      BY <3>1, <3>2, <3>4 DEF StoreInv, EventsUnique
    <3>6. EventsComplete'
      <4> SUFFICES ASSUME NEW t \in Slot, NEW n \in Nat
                   PROVE (\E e \in retryEvents' : e.slot = t /\ e.count = n)
                           <=> (2 <= n /\ n <= inv'[t].calls)
        BY DEF EventsComplete
      <4>1. (\E e \in retryEvents : e.slot = t /\ e.count = n)
              <=> (2 <= n /\ n <= inv[t].calls)
        BY DEF StoreInv, EventsComplete
      <4>2. CASE t # s BY <4>1, <4>2, <3>1, <3>2, <1>3
      <4>3. CASE t = s
        BY <4>1, <4>3, <3>1, <3>2, <3>3, <1>0, <1>3, <1>4
      <4> QED BY <4>2, <4>3
    <3> QED BY <3>5, <3>6
  <2> QED BY <2>1, <2>2 DEF start_invocation
<1> QED BY <1>6, <1>7, <1>8 DEF StoreInv

(* Settling a running row, with a response or an error, preserves it.      *)
LEMMA FinishInv ==
  ASSUME StoreInv, NEW s \in Slot,
         \/ \E response \in Response : finish_invocation_success(s, response)
         \/ \E error \in Error : finish_invocation_failure(s, error)
  PROVE  StoreInv'
<1>0. inv \in [Slot -> Row] /\ inv[s] \in Row
  <2>1. inv \in [Slot -> Row] BY Zenon DEF StoreInv, StoreTypeOK
  <2> QED BY <2>1
<1>1. inv[s].calls >= 1
  BY DEF StoreInv, RowShape, finish_invocation_success, finish_invocation_failure
<1>2. PICK new \in Row :
        /\ inv' = [inv EXCEPT ![s] = new]
        /\ new.calls = inv[s].calls
        /\ new.status \in {"succeeded", "failed"}
        /\ new.status = "failed" => new.error \in Error
        /\ new.status # "failed" => new.error = "none"
        /\ new.status = "succeeded" => new.response \in Response
        /\ new.status # "succeeded" => new.response = "none"
  <2>1. CASE \E response \in Response : finish_invocation_success(s, response)
    <3>1. PICK response \in Response : finish_invocation_success(s, response)
      BY <2>1
    <3> DEFINE r == [inv[s] EXCEPT !.status = "succeeded",
                                   !.response = response]
    <3>2. inv' = [inv EXCEPT ![s] = r]
      BY <3>1, <1>0 DEF finish_invocation_success
    <3>3. /\ r \in Row /\ r.calls = inv[s].calls /\ r.status = "succeeded"
          /\ r.error = inv[s].error /\ r.response = response
      BY <1>0 DEF Row
    <3>4. inv[s].error = "none"
      BY <3>1 DEF StoreInv, RowShape, finish_invocation_success
    <3> QED BY <3>2, <3>3, <3>4
  <2>2. CASE \E error \in Error : finish_invocation_failure(s, error)
    <3>1. PICK error \in Error : finish_invocation_failure(s, error)
      BY <2>2
    <3> DEFINE r == [inv[s] EXCEPT !.status = "failed", !.error = error]
    <3>2. inv' = [inv EXCEPT ![s] = r]
      BY <3>1, <1>0 DEF finish_invocation_failure
    <3>3. /\ r \in Row /\ r.calls = inv[s].calls /\ r.status = "failed"
          /\ r.error \in Error /\ r.response = inv[s].response
      BY <1>0 DEF Row
    <3>4. inv[s].response = "none"
      BY <3>1 DEF StoreInv, RowShape, finish_invocation_failure
    <3> QED BY <3>2, <3>3, <3>4
  <2> QED BY <2>1, <2>2
<1>3. retryEvents' = retryEvents /\ undispatched' = undispatched
  BY DEF finish_invocation_success, finish_invocation_failure
<1>4. /\ inv' \in [Slot -> Row] /\ inv'[s] = new
      /\ \A t \in Slot : t # s => inv'[t] = inv[t]
  BY <1>0, <1>2
<1>5. StoreTypeOK' BY <1>3, <1>4 DEF StoreInv, StoreTypeOK
<1>6. RowShape' BY <1>1, <1>2, <1>4 DEF StoreInv, RowShape
<1>7. EventsUnique' BY <1>3 DEF StoreInv, EventsUnique
<1>8. EventsComplete'
  <2>1. \A t \in Slot : inv'[t].calls = inv[t].calls BY <1>2, <1>4
  <2> QED BY <2>1, <1>3 DEF StoreInv, EventsComplete
<1> QED BY <1>5, <1>6, <1>7, <1>8 DEF StoreInv

(* Taking back a call that was not dispatched preserves the invariant:     *)
(* the row returns to its prior state and exactly the retry event of the   *)
(* withdrawn call disappears.                                              *)
LEMMA ReleaseInv ==
  ASSUME StoreInv, NEW s \in Slot, NEW prior \in PriorRow,
         release_undispatched_invocation(s, prior)
  PROVE  StoreInv'
<1>0. /\ inv \in [Slot -> Row] /\ inv[s] \in Row /\ inv[s].calls \in Nat
      /\ undispatched \in [Slot -> Nat]
  BY DEF StoreInv, StoreTypeOK, Row
<1>1. prior \in Row BY NoRowType DEF PriorRow
<1>2. /\ inv' \in [Slot -> Row] /\ inv'[s] = prior
      /\ \A t \in Slot : t # s => inv'[t] = inv[t]
  BY <1>0, <1>1 DEF release_undispatched_invocation
<1>3. /\ prior.calls \in Nat
      /\ prior.calls + 1 = inv[s].calls
      /\ prior = NoRow \/ (prior.status = "failed" /\ prior.calls >= 1
                             /\ prior.error \in Error
                             /\ prior.response = "none")
  BY <1>0, <1>1, NoRowFields
  DEF release_undispatched_invocation, PriorFits, PriorRow, Row
<1>4. retryEvents' = {e \in retryEvents :
                        ~ (e.slot = s /\ e.count = inv[s].calls)}
  <2>1. CASE prior = NoRow
    <3>1. inv[s].calls = 1 BY <1>3, <2>1, NoRowFields
    <3>2. \A e \in retryEvents : ~ (e.slot = s /\ e.count = inv[s].calls)
      BY <3>1, <1>0 DEF StoreInv, EventsComplete
    <3>3. retryEvents' = retryEvents
      BY <2>1 DEF release_undispatched_invocation
    <3> QED BY <3>2, <3>3
  <2>2. CASE prior # NoRow
    BY <2>2 DEF release_undispatched_invocation, EventsAt
  <2> QED BY <2>1, <2>2
<1>5. StoreTypeOK'
  <2>1. undispatched' \in [Slot -> Nat]
    BY <1>0 DEF release_undispatched_invocation
  <2> QED BY <1>2, <1>4, <2>1 DEF StoreInv, StoreTypeOK
<1>6. RowShape'
  BY <1>2, <1>3, NoRowFields DEF StoreInv, RowShape
<1>7. EventsUnique' BY <1>4 DEF StoreInv, EventsUnique
<1>8. EventsComplete'
  <2> SUFFICES ASSUME NEW t \in Slot, NEW n \in Nat
               PROVE (\E e \in retryEvents' : e.slot = t /\ e.count = n)
                       <=> (2 <= n /\ n <= inv'[t].calls)
    BY DEF EventsComplete
  <2>1. (\E e \in retryEvents : e.slot = t /\ e.count = n)
          <=> (2 <= n /\ n <= inv[t].calls)
    BY DEF StoreInv, EventsComplete
  <2>2. CASE t # s BY <2>1, <2>2, <1>2, <1>4
  <2>3. CASE t = s
    <3>1. (\E e \in retryEvents' : e.slot = s /\ e.count = n)
            <=> /\ \E e \in retryEvents : e.slot = s /\ e.count = n
                /\ n # inv[s].calls
      BY <1>4
    <3> QED BY <2>1, <2>3, <3>1, <1>0, <1>2, <1>3
  <2> QED BY <2>2, <2>3
<1> QED BY <1>5, <1>6, <1>7, <1>8 DEF StoreInv

(* The rows a step of StoreNext releases to are such copies.               *)
LEMMA FailedRowIsPrior == FailedRow \cup {NoRow} \subseteq PriorRow
<1>1. 1 .. MaxAttempts \subseteq Nat BY StoreAssumption
<1>2. FailedRow \subseteq PriorRow
  BY <1>1 DEF FailedRow, PriorRow, Row
<1> QED BY <1>2 DEF PriorRow

(* Every step of the store preserves the invariant.                        *)
LEMMA StoreNextInv ==
  ASSUME StoreInv, [StoreNext]_storeVars
  PROVE  StoreInv'
<1>1. CASE UNCHANGED storeVars
  BY <1>1 DEF storeVars, StoreInv, StoreTypeOK, RowShape, EventsUnique,
              EventsComplete
<1>2. CASE StoreNext
  <2>1. PICK s \in Slot :
          \/ \E prompt \in Prompt : start_invocation(s, prompt)
          \/ \E response \in Response : finish_invocation_success(s, response)
          \/ \E error \in Error : finish_invocation_failure(s, error)
          \/ \E prior \in FailedRow \cup {NoRow} :
               release_undispatched_invocation(s, prior)
    BY <1>2 DEF StoreNext
  <2>2. CASE \E prompt \in Prompt : start_invocation(s, prompt)
    BY <2>2, StartInv
  <2>3. CASE \E response \in Response : finish_invocation_success(s, response)
    BY <2>3, FinishInv
  <2>4. CASE \E error \in Error : finish_invocation_failure(s, error)
    BY <2>4, FinishInv
  <2>5. CASE \E prior \in FailedRow \cup {NoRow} :
               release_undispatched_invocation(s, prior)
    BY <2>5, ReleaseInv, FailedRowIsPrior
  <2> QED BY <2>1, <2>2, <2>3, <2>4, <2>5
<1> QED BY <1>1, <1>2

(* The invariant implies the audit rule in the form the runs check.        *)
LEMMA InvGivesAudit == StoreInv => RetryAudit
<1> SUFFICES ASSUME StoreInv PROVE RetryAudit OBVIOUS
<1>1. \A s \in Slot :
        {e.count : e \in {f \in retryEvents : f.slot = s}} = 2 .. inv[s].calls
  <2> TAKE s \in Slot
  <2>0. inv[s].calls \in Nat BY DEF StoreInv, StoreTypeOK, Row
  <2>1. \A e \in retryEvents : e.count \in Nat
    BY DEF StoreInv, StoreTypeOK, RetryEvent
  <2>2. \A n \in Nat : (\E e \in retryEvents : e.slot = s /\ e.count = n)
                         <=> n \in 2 .. inv[s].calls
    BY <2>0 DEF StoreInv, EventsComplete
  <2>3. 2 .. inv[s].calls \subseteq Nat BY <2>0
  <2> HIDE DEF StoreInv
  <2> QED BY <2>1, <2>2, <2>3
<1> QED BY <1>1 DEF StoreInv, EventsUnique, RetryAudit

----------------------------------------------------------------------------

(* The invariant holds in every reachable state of the ledger.             *)
THEOREM StoreInvariant == StoreSpec => []StoreInv
<1>1. StoreInit => StoreInv BY StoreInitInv
<1>2. StoreInv /\ [StoreNext]_storeVars => StoreInv' BY StoreNextInv
<1> QED BY <1>1, <1>2, PTL DEF StoreSpec

(* StoreTypeCorrect: the tables written by start_invocation, the finish    *)
(* operations and release_undispatched_invocation always hold well-formed  *)
(* rows, events and counters.                                              *)
THEOREM StoreTypeCorrect == StoreSpec => []StoreTypeOK
<1>1. StoreInv => StoreTypeOK BY DEF StoreInv
<1> QED BY <1>1, StoreInvariant, PTL

(* RetryAuditHolds: the retry events of every slot are numbered            *)
(* 2 .. call_count, one for each number, so the audit that                 *)
(* _provider_retry_recoveries makes before a run is finished never fails,  *)
(* for any number of stages, providers and attempts.                       *)
THEOREM RetryAuditHolds == StoreSpec => []RetryAudit
BY InvGivesAudit, StoreInvariant, PTL

----------------------------------------------------------------------------
(* The action properties.                                                  *)

AttemptStep ==
  \A s \in Slot :
    /\ Attempt(s)' >= Attempt(s)
    /\ inv[s].status # "running" /\ inv'[s].status = "running"
         => Attempt(s)' > Attempt(s)

HistoryStep ==
  \A s \in Slot :
    /\ inv[s].status = "succeeded" => inv'[s] = inv[s]
    /\ inv[s].status = "failed" =>
         \/ inv'[s] = inv[s]
         \/ /\ inv'[s].status = "running"
            /\ inv'[s].calls = inv[s].calls + 1
            /\ inv'[s].prompt = inv[s].prompt

(* What each operation does to the slot it is given and to the others.     *)
LEMMA StartStep ==
  ASSUME StoreInv, NEW s \in Slot, NEW prompt \in Prompt,
         start_invocation(s, prompt)
  PROVE  AttemptStep /\ HistoryStep
<1>0. /\ inv \in [Slot -> Row] /\ inv[s].calls \in Nat
      /\ undispatched \in [Slot -> Nat]
  BY DEF StoreInv, StoreTypeOK, Row
<1>1. \A t \in Slot : inv[t].calls \in Nat BY <1>0 DEF Row
<1>2. /\ inv'[s].calls = inv[s].calls + 1
      /\ inv'[s].status = "running" /\ inv'[s].prompt = prompt
      /\ \A t \in Slot : t # s => inv'[t] = inv[t]
      /\ undispatched' = undispatched
  BY <1>0 DEF start_invocation
<1>3. AttemptStep BY <1>0, <1>1, <1>2 DEF AttemptStep, Attempt
<1>4. HistoryStep BY <1>2 DEF HistoryStep, start_invocation
<1> QED BY <1>3, <1>4

(* Finishing an invocation keeps its attempt number and earlier answers.   *)
LEMMA FinishStep ==
  ASSUME StoreInv, NEW s \in Slot,
         \/ \E response \in Response : finish_invocation_success(s, response)
         \/ \E error \in Error : finish_invocation_failure(s, error)
  PROVE  AttemptStep /\ HistoryStep
<1>0. /\ inv \in [Slot -> Row] /\ undispatched \in [Slot -> Nat]
  BY DEF StoreInv, StoreTypeOK
<1>1. \A t \in Slot : inv[t].calls \in Nat BY <1>0 DEF Row
<1>2. /\ inv[s].status = "running" /\ inv'[s].status # "running"
      /\ inv'[s].calls = inv[s].calls
      /\ \A t \in Slot : t # s => inv'[t] = inv[t]
      /\ undispatched' = undispatched
  <2>1. inv[s] \in Row BY <1>0
  <2>2. ASSUME NEW response \in Response,
               finish_invocation_success(s, response)
        PROVE  /\ inv[s].status = "running" /\ inv'[s].status # "running"
               /\ inv'[s].calls = inv[s].calls
               /\ \A t \in Slot : t # s => inv'[t] = inv[t]
               /\ undispatched' = undispatched
    BY <1>0, <2>1, <2>2 DEF finish_invocation_success, Row
  <2>3. ASSUME NEW error \in Error, finish_invocation_failure(s, error)
        PROVE  /\ inv[s].status = "running" /\ inv'[s].status # "running"
               /\ inv'[s].calls = inv[s].calls
               /\ \A t \in Slot : t # s => inv'[t] = inv[t]
               /\ undispatched' = undispatched
    BY <1>0, <2>1, <2>3 DEF finish_invocation_failure, Row
  <2> QED BY <2>2, <2>3
<1>3. AttemptStep BY <1>0, <1>1, <1>2 DEF AttemptStep, Attempt
<1>4. HistoryStep BY <1>2 DEF HistoryStep
<1> QED BY <1>3, <1>4

(* A release gives the call back but not its attempt number.               *)
LEMMA ReleaseStep ==
  ASSUME StoreInv, NEW s \in Slot, NEW prior \in PriorRow,
         release_undispatched_invocation(s, prior)
  PROVE  AttemptStep /\ HistoryStep
<1>0. /\ inv \in [Slot -> Row] /\ undispatched \in [Slot -> Nat]
  BY DEF StoreInv, StoreTypeOK
<1>1. \A t \in Slot : inv[t].calls \in Nat BY <1>0 DEF Row
<1>2. prior \in Row BY NoRowType DEF PriorRow
<1>3. prior.calls + 1 = inv[s].calls /\ prior.status # "running"
  BY <1>2, NoRowFields DEF release_undispatched_invocation, PriorFits, Row
<1>4. /\ inv[s].status = "running" /\ inv'[s] = prior
      /\ \A t \in Slot : t # s => inv'[t] = inv[t]
      /\ undispatched'[s] = undispatched[s] + 1
      /\ \A t \in Slot : t # s => undispatched'[t] = undispatched[t]
  BY <1>0 DEF release_undispatched_invocation
<1>5. prior.calls \in Nat BY <1>2 DEF Row
<1>6. AttemptStep BY <1>0, <1>1, <1>3, <1>4, <1>5 DEF AttemptStep, Attempt
<1>7. HistoryStep BY <1>4 DEF HistoryStep
<1> QED BY <1>6, <1>7

(* Every step of the store keeps attempts fresh and history.               *)
LEMMA StoreNextStep ==
  ASSUME StoreInv, StoreNext
  PROVE  AttemptStep /\ HistoryStep
<1>1. PICK s \in Slot :
        \/ \E prompt \in Prompt : start_invocation(s, prompt)
        \/ \E response \in Response : finish_invocation_success(s, response)
        \/ \E error \in Error : finish_invocation_failure(s, error)
        \/ \E prior \in FailedRow \cup {NoRow} :
             release_undispatched_invocation(s, prior)
  BY DEF StoreNext
<1>2. CASE \E prompt \in Prompt : start_invocation(s, prompt)
  BY <1>2, StartStep
<1>3. CASE \E response \in Response : finish_invocation_success(s, response)
  BY <1>3, FinishStep
<1>4. CASE \E error \in Error : finish_invocation_failure(s, error)
  BY <1>4, FinishStep
<1>5. CASE \E prior \in FailedRow \cup {NoRow} :
             release_undispatched_invocation(s, prior)
  BY <1>5, ReleaseStep, FailedRowIsPrior
<1> QED BY <1>1, <1>2, <1>3, <1>4, <1>5

(* AttemptsStayFresh: no slot ever presents an attempt number to the call  *)
(* gate twice, whatever is released and restarted, because a release of    *)
(* release_undispatched_invocation takes one call off and adds one audit   *)
(* event.                                                                  *)
THEOREM AttemptsStayFresh == StoreSpec => AttemptFresh
<1>1. StoreInv /\ [StoreNext]_storeVars => [AttemptStep]_storeVars
  BY StoreNextStep
<1> QED BY <1>1, StoreInvariant, PTL DEF StoreSpec, AttemptFresh, AttemptStep

(* HistoryIsKept: no operation of the ledger rewrites an answer or loses a *)
(* definite failure other than by a counted retry of the same prompt, nor  *)
(* does any take back an attempt number.                                   *)
THEOREM HistoryIsKept == StoreSpec => HistoryKept
<1>1. StoreInv /\ [StoreNext]_storeVars => [HistoryStep]_storeVars
  BY StoreNextStep
<1>2. StoreSpec => OutcomeKept
  BY <1>1, StoreInvariant, PTL DEF StoreSpec, OutcomeKept, HistoryStep
<1> QED BY <1>2, AttemptsStayFresh DEF HistoryKept

=============================================================================
