--------------------------- MODULE InvocationStore ---------------------------
(***************************************************************************)
(* The invocation ledger of store.py (class CouncilStore): one row per     *)
(* slot, that is per (stage, provider) of a run, the audit events that     *)
(* start_invocation and release_undispatched_invocation write in the same  *)
(* transaction, and the four operations that change them.  A transaction   *)
(* is BEGIN IMMEDIATE, so every operation is one atomic step.              *)
(*                                                                         *)
(* The caller is unconstrained here: any operation may be called with any  *)
(* argument the store accepts.  CouncilEngine is one such caller.          *)
(***************************************************************************)
EXTENDS Naturals, FiniteSets

CONSTANTS
  Stage,       \* the protocol's stage names
  Provider,    \* the providers, numbered in configuration order
  Prompt,      \* what a prompt text can depend on
  NoPrompt,    \* the prompt of a row that does not exist
  Response,    \* classes of complete responses, as their parser sees them
  MaxAttempts  \* bound on the attempts of one slot (store-level runs only)

ASSUME StoreAssumption ==
  /\ IsFiniteSet(Stage)
  /\ IsFiniteSet(Provider)
  /\ Provider \subseteq Nat
  /\ NoPrompt \notin Prompt
  /\ "none" \notin Response
  /\ MaxAttempts \in Nat

VARIABLES
  inv,           \* the invocations table: [Slot -> Row]
  retryEvents,   \* the provider_retry_started events
  undispatched   \* the number of provider_call_not_dispatched events by slot

storeVars == <<inv, retryEvents, undispatched>>

----------------------------------------------------------------------------
(* Rows, errors and events.                                                *)

Slot == Stage \X Provider

(* What the code tells apart in a ProviderError: its ambiguous flag, and   *)
(* whether its message ends with "(finish_reason=length)".                 *)
Error == {"error", "length", "ambiguous"}

Row == [status   : {"none", "running", "succeeded", "failed"},
        error    : Error \cup {"none"},
        response : Response \cup {"none"},
        calls    : Nat,
        prompt   : Prompt \cup {NoPrompt}]

NoRow == [status |-> "none", error |-> "none", response |-> "none",
          calls |-> 0, prompt |-> NoPrompt]

RetryKind(error) == IF error = "length" THEN "truncation" ELSE "application"

RetryEvent == [slot : Slot, count : Nat,
               kind : {"truncation", "application"}, prior : Error]

(* Fault: the event is numbered with the call that failed.                 *)
RetryOf_OldCount(s) == [slot  |-> s,
                        count |-> inv[s].calls,
                        kind  |-> RetryKind(inv[s].error),
                        prior |-> inv[s].error]

(* Fault: the event records the row's status as its prior failure.         *)
RetryOf_WrongField(s) == [slot  |-> s,
                          count |-> inv[s].calls + 1,
                          kind  |-> RetryKind(inv[s].error),
                          prior |-> inv[s].status]

(* The retry event that start_invocation writes for a failed row.          *)
RetryOf(s) == [slot  |-> s,
               count |-> inv[s].calls + 1,
               kind  |-> RetryKind(inv[s].error),
               prior |-> inv[s].error]

EventsAt(s, n) == {e \in retryEvents : e.slot = s /\ e.count = n}

(* Fault: undispatched attempts are not added.                             *)
Attempt_CallsOnly(s) == inv[s].calls

(* The attempt number under which a call is reserved with the call gate.   *)
Attempt(s) == inv[s].calls + undispatched[s]

(* count_calls sums call_count over the rows of the run.                   *)
CallTokens == UNION {{s} \X (1 .. inv[s].calls) : s \in Slot}

count_calls == Cardinality(CallTokens)

----------------------------------------------------------------------------
(* The operations.                                                         *)

StoreInit ==
  /\ inv = [s \in Slot |-> NoRow]
  /\ retryEvents = {}
  /\ undispatched = [s \in Slot |-> 0]

(* Fault: a failed slot may be restarted with another prompt.              *)
start_invocation_AnyPrompt(s, prompt) ==
  /\ inv[s].status \in {"none", "failed"}
  /\ inv' = [inv EXCEPT ![s] = [status |-> "running", error |-> "none",
                                response |-> "none",
                                calls |-> inv[s].calls + 1,
                                prompt |-> prompt]]
  /\ retryEvents' = IF inv[s].status = "failed"
                    THEN retryEvents \cup {RetryOf(s)}
                    ELSE retryEvents
  /\ UNCHANGED undispatched

(* Only a missing or a failed slot changes; a failed one must be restarted *)
(* with the prompt it was created with, and leaves a retry event behind.   *)
start_invocation(s, prompt) ==
  /\ inv[s].status \in {"none", "failed"}
  /\ inv[s].status = "failed" => inv[s].prompt = prompt
  /\ inv' = [inv EXCEPT ![s] = [status |-> "running", error |-> "none",
                                response |-> "none",
                                calls |-> inv[s].calls + 1,
                                prompt |-> prompt]]
  /\ retryEvents' = IF inv[s].status = "failed"
                    THEN retryEvents \cup {RetryOf(s)}
                    ELSE retryEvents
  /\ UNCHANGED undispatched

finish_invocation_success(s, response) ==
  /\ inv[s].status = "running"
  /\ inv' = [inv EXCEPT ![s] = [@ EXCEPT !.status = "succeeded",
                                         !.response = response]]
  /\ UNCHANGED <<retryEvents, undispatched>>

finish_invocation_failure(s, error) ==
  /\ inv[s].status = "running"
  /\ inv' = [inv EXCEPT ![s] = [@ EXCEPT !.status = "failed",
                                         !.error = error]]
  /\ UNCHANGED <<retryEvents, undispatched>>

(* prior is the caller's copy of the row before it was started: NoRow, or  *)
(* the failed row whose retry this was.  The store accepts it only if it   *)
(* fits the running row and the one retry event of that attempt.           *)
PriorFits(s, prior) ==
  \/ /\ prior = NoRow
     /\ inv[s].calls = 1
  \/ /\ prior.status = "failed"
     /\ prior.error # "ambiguous"
     /\ prior.calls >= 1
     /\ prior.calls + 1 = inv[s].calls
     /\ prior.prompt = inv[s].prompt
     /\ Cardinality(EventsAt(s, inv[s].calls)) = 1
     /\ \A e \in EventsAt(s, inv[s].calls) : e.prior = prior.error

release_undispatched_invocation(s, prior) ==
  /\ inv[s].status = "running"
  /\ PriorFits(s, prior)
  /\ inv' = [inv EXCEPT ![s] = prior]
  /\ retryEvents' = IF prior = NoRow
                    THEN retryEvents
                    ELSE retryEvents \ EventsAt(s, inv[s].calls)
  /\ undispatched' = [undispatched EXCEPT ![s] = @ + 1]

FailedRow == [status : {"failed"}, error : Error, response : {"none"},
              calls : 1 .. MaxAttempts, prompt : Prompt]

StoreNext ==
  \E s \in Slot :
    \/ /\ Attempt(s) < MaxAttempts
       /\ \E prompt \in Prompt : start_invocation(s, prompt)
    \/ \E response \in Response : finish_invocation_success(s, response)
    \/ \E error \in Error : finish_invocation_failure(s, error)
    \/ \E prior \in FailedRow \cup {NoRow} :
         release_undispatched_invocation(s, prior)

StoreSpec == StoreInit /\ [][StoreNext]_storeVars

----------------------------------------------------------------------------
(* Properties.                                                             *)

StoreTypeOK ==
  /\ inv \in [Slot -> Row]
  /\ retryEvents \subseteq RetryEvent
  /\ undispatched \in [Slot -> Nat]

(* RetryAudit: the retry events of a slot are numbered 2 .. call_count     *)
(* with exactly one event for each number, whatever was retried, failed or *)
(* released before.  It is what _provider_retry_recoveries demands of a    *)
(* run before it can be finished (engine.py raises "Provider retry audit   *)
(* is missing / incomplete / duplicated / has no invocation record").      *)
RetryAudit ==
  /\ \A e, f \in retryEvents :
       e.slot = f.slot /\ e.count = f.count => e = f
  /\ \A s \in Slot :
       {e.count : e \in {f \in retryEvents : f.slot = s}}
         = 2 .. inv[s].calls

(* AttemptFresh: a slot never presents the same attempt number to the call *)
(* gate twice.  A release gives the call number back but adds an audit     *)
(* event, so their sum never falls, and it rises with every start.         *)
AttemptFresh ==
  [][\A s \in Slot :
       /\ Attempt(s)' >= Attempt(s)
       /\ inv[s].status # "running" /\ inv'[s].status = "running"
            => Attempt(s)' > Attempt(s)]_storeVars

(* OutcomeKept: a stored success is final, and a definite failure is only  *)
(* ever replaced by a retry of the same prompt that counts one more call.  *)
OutcomeKept ==
  [][\A s \in Slot :
       /\ inv[s].status = "succeeded" => inv'[s] = inv[s]
       /\ inv[s].status = "failed" =>
            \/ inv'[s] = inv[s]
            \/ /\ inv'[s].status = "running"
               /\ inv'[s].calls = inv[s].calls + 1
               /\ inv'[s].prompt = inv[s].prompt]_storeVars

(* HistoryKept: no operation loses or rewrites what a provider was already *)
(* asked: neither an outcome nor the number of attempts is ever taken      *)
(* back, whatever is started, settled, released and started again.         *)
HistoryKept == OutcomeKept /\ AttemptFresh

=============================================================================
