# CouncilLogic: a TLA+ model of the council, its service and its stores

CouncilLogic asks several language models the same question, has each of them
judge all the proposals, aggregates the ballots deterministically and lets one
model write a synthesis. Calls cost money and take minutes; the process may be
killed at any time and a run is resumed from SQLite. It is used from a command
line, by an agent through a request interface, and as an HTTP service with
tokens, policies and call budgets. What makes it correct is that no resume,
retry, deadline, race or restart makes it pay twice, lose a paid answer, exceed
a budget, honour what was revoked, contradict its own audit trail or get stuck.
That is what this project models, checks with TLC and, where it is a statement
about all instances, proves with TLAPS.

## 1. The system

All sources are under `src/src/model_council/`.

| component | state | operations | interacts with |
|---|---|---|---|
| engine (`engine.py`) | a run's progress, in memory for one process | `create_run`, `resume`; stages proposal, jury, jury repair, synthesis; worker threads | store, call gate, providers |
| run store (`store.py`) | tables `runs`, `invocations`, `events`, `human_decisions`, `run_approvals`, `agent_requests` | one transaction per method | engine, CLI, service, agent |
| locks (`run_lock.py`) | `flock` files | one per run, one per data directory | engine, CLI, service, agent |
| call gate (`service.py: DurableCallGate`) | `service_call_reservations` | reserve, reconcile, release | engine, service store |
| service (`service.py`) | worker slots, scheduled and pending run ids, closed flag | create/get run, recover, drain, close | engine, both stores |
| service store (`service_store.py`) | principals, tokens and tombstones, policies, run bindings, reservations | authenticate, rotate, revoke, bind, reserve | service |
| agent interface (`agent.py`, `approval.py`, `mcp_server.py`) | request bindings, single-use approvals | plan, run, start, status | store, locks, detached worker |
| protocol (`protocol.py`) | none | prompts, parsers, Borda aggregation, outcome check | engine |
| providers (`providers/`) | none | `generate`, HTTP retry loop | engine |
| access policy (`access_policy.py`) | mandates, reservations in memory | authorize, reconcile, release | none: nothing constructs its `PolicyCore` |
| workload, config, models, keys, secrets, remote, cli | none of their own | estimates, validation, I/O | all |

The run store and the service store are two sets of tables, written in separate
transactions.

Hard behaviours: a process killed between two durable writes; worker threads
that start rows and reserve units while the main thread settles others; an
exception in the main thread while calls are in flight; a deadline that passes
between reservation and call; answers cut off at the output limit; ambiguous
errors, after which nobody knows whether a call was executed; requests whose
handler itself fails; two processes that pass the same test before one of them
takes the lock; and all of them followed by another resume or restart.
`PROJECT.json` lists each hazard at its line with the properties that watch it.

## 2. Modules

**`InvocationStore`** - the slot ledger of `store.py`. A slot is a
`(stage, provider)` pair of a run. `inv` is the `invocations` table,
`retryEvents` the `provider_retry_started` events, `undispatched` the number of
`provider_call_not_dispatched` events. The actions are the four methods
(`start_invocation`, `finish_invocation_success`, `finish_invocation_failure`,
`release_undispatched_invocation`); each is one `BEGIN IMMEDIATE` transaction
and so one atomic step. A row keeps what the code tells apart: status, whether
the error is ambiguous or a length cut-off, how the parser sees the response,
call count, and the prompt. Prompt text is replaced by what it depends on.

**`CouncilEngine`** - `resume` of `engine.py`, extending `InvocationStore`.
Every durable write that a later resume, the gate or the result depends on is a
step of its own; a crash may fall between any two. Not among them are the events
`run_started` and `workload_preflight`, which nothing reads back, and the run's random
prompt marker, which the first resume stores before it creates any row.

- durable state: run status and result, the namespace and adjudication locks,
  fallback, truncation-recovery and jury-repair events, and the service's call
  reservations (the second store);
- volatile state: `pc` (idle, begin, run, draining, adjudicate, synth), the
  stage and its result lists, `prior` (the copies of the rows made at the start
  of the pass), `pending` (audit events still to be written, in configuration
  order) and one `thread` record for each provider;
- worker actions `StartTooLate`, `StartCall`, `ReserveCall`, `CallTooLate`,
  `CallProvider` follow `_execute_provider_call`; main-thread actions follow
  `_run_parallel_stage` (`MarkLost`, `BeginStage`, the `Settle...` actions,
  `StartRecovery`, `EndRecovery`) and `_resume_locked`;
- `Crash` loses everything volatile, `Interrupt` and `Drained` model an
  exception that leaves the executor's `with` block, which waits for the
  workers but settles nothing, and `Expire` is the run deadline;
- history variables `sent` and `unresolved` record which calls reached a
  provider; no guard reads them.

What the caller of `resume` does with an exception (the service marks the run
failed, the CLI reports it) belongs to the caller and not to this module.
The `truncated_response_preserved` event is left out: it is read only to choose
an output limit. The prompt of a stage in `Oversized` may be too large: the
variable `oversized` fixes which ones are for a whole behaviour. The constant
`Headroom` is the set of slots whose output limit can still be raised: the code
compares the limit of the stage and provider with the cap (`engine.py:1820`). A
process does not retry a slot without headroom; a later resume calls it again, as it
calls any slot that failed definitely.

**`CallLedger`** - the abstract promise: at most one call in flight for a slot, none
after an answer or after doubt, none for a provider while one of its calls is
in doubt, never more than the budget on the books, and only calls that were
not handed over come off them. `CouncilEngine!ImplementsLedger` is the
refinement: a running row is an issued call, an ambiguous failure a doubtful
one.

**`CallLeases`** - the contract of the call gate (`CallGate`, `CallLease`): a lease
is opened once and closed once, as charged or as refunded; it pays for one call at
most, made while it is open, and is refunded only if that call was not made. Both
sides keep it: `CouncilEngine!ImplementsLeases` with its slots and attempts,
`CallReservations!ServesLeases` with its table, whoever calls; there it adds
`SettledIsFinal`, that the cost booked stays too. The store does not see
the calls, so `used` is empty there; that a refunded lease carried no call is
the engine's part.

**`DecisionLedger`** - `record_human_decision` (`council decide`) beside the
engine. The command holds the data-directory lock, hence its guard
`pc = "idle"`.

**`ServicePrincipals`**, **`BearerTokens`**, **`CallReservations`**,
**`ServiceStore`** - the tables of `service_store.py`. Every method is one
`BEGIN IMMEDIATE` transaction and one action; a call that is denied, replayed or
in conflict changes nothing and is no step.

- `ServicePrincipals` has what all the others look at: which principals are
  enabled and the time.
- `BearerTokens` has token rows and tombstones, with the migration of rows an
  older version left (`_migrate`) and the application that rotates its configured
  tokens in, one transaction each, when it starts (`installing`); it may be
  interrupted and started again. `admitted`, `dropped` and `owners` are history.
- `CallReservations` has policies, run bindings and reservations: what a call
  may cost per day and month, how many may be open, what is charged when the
  actual units turn out different.
- `ServiceStore` composes them. No operation reads both tokens and
  reservations, so the variable `tables` fixes which of the two a behaviour
  follows, in every order with the operations on principals and the clock.

**`CouncilService`** - `CouncilApplication` of `service.py`. A request (`req`)
holds the state lock from its first look to its answer, while its writes are
separate transactions of both stores, so workers, failures and crashes come in
between: `BindRun`, `CreateRow`, `SetQueued`, `Submit`; `RepairRun` and
`ReplayRun` are exact repeats. `slots`, `scheduled`, `pending` and `fifo` are the
semaphore, the set of submitted runs, the recovery queue and the executor's queue.
`RequestFails` is a failing write with its handler. `HandlerFails` is a handler
that fails itself, in either of its looks or in giving the binding up: `leaked`
counts the permits that then never come back before the process ends
(`service.py:454`), and `lost` the runs whose failure nobody could record. The
engine is three steps of a worker here; its inside is `CouncilEngine`.

**`AgentInterface`** - `agent.py`, `approval.py` and the commands that take the
data directory's lock. A process is a `job` at one of the points between two
transactions; the lock (`holder`) is taken without waiting and goes with its
process. `start` releases it, spawns a worker and replies; the worker is another
`resume`, and where it cannot be spawned the request ends with an error
(`SpawnFails`). `council run` of the command line has no request id but may have an
idempotency key, also one that a request uses (`CommandKey`). `Crash` ends a process
at any point.

**`ProviderHttp`** - `post_json` of `providers/http.py`, the adapters' verdict on
the body and the new call a resumed run makes for a failed slot. An attempt is
refused with a status code or by the transport itself, answered, or of unknown fate.
A reply is read in one of two orders, fixed for a behaviour by `adapter`: cohere,
mistral, openrouter, qwen and upstage refuse one that did not finish before they look
at its text; anthropic, gemini, openai and xai look at the text first.

**`Aggregation`** - `aggregate_juries`, `aggregate_excluding_self_votes` and
`self_vote_report` of `protocol.py`, checked against definitions that do not use
points at all: pairwise preferences.

The theorems are in modules of their own, each extending what it is about:
**`InvocationStoreProofs`**, **`CouncilEngineProofs`** and, on top of it,
**`CouncilRunProofs`** (which extends `DecisionLedger` too),
**`CouncilServiceProofs`**, **`ServiceStoreProofs`** (about `ServiceStoreSpec`),
**`AgentInterfaceProofs`**, **`AlgorithmsProofs`** (about `Aggregation` and
`ProviderHttp`). **`FiniteSums`** has the lemmas on sums over finite sets that the
last two need. Section 4 says what each establishes.

**`MC...`** modules hold the values of structured constants. Operators with a suffix and the comment "Fault" are
plausible mistakes, defined beside the operator they vary; nothing uses them
in the specification, they show that the properties can fail. `MCParts` puts
`InvocationStore` (its actions without the engine), `Aggregation` and `ProviderHttp` into
one run: `focus` fixes which of them a behaviour follows.

## 3. Runs

| run | configuration | question |
|---|---|---|
| `parts` | a ledger of 2 slots, 2 prompts, 4 attempts; a tally of 4 jurors, 3 candidates; 10 status codes, 3 attempts, 2 calls | is the ledger sound for any caller? is the verdict defensible? is anything sent after an attempt of unknown fate? |
| `engine_crash` | 2 providers, errors and ambiguous errors, 2 resumes, 1 crash | is a call ever repeated blindly, or over budget, or with another prompt? does the engine implement the ledger? |
| `engine_gate` | call gate that may refuse, 1 crash, fair | are reservations reused, refunded or left open? does the engine keep the contract of the gate? does the run end? |
| `engine_repair` | invalid ballots, budget for one repair only | do repair audits agree across resumes? is the verdict reproducible? are closed stages left alone? |
| `engine_fallback` | two synthesis positions, one proposal and one synthesis with headroom, the other slots without, synthesis prompt possibly too large, 1 crash, fair | is a slot ever retried twice for truncation? does "clean" hide a retry? does each position keep a call? can a later resume always accept the recorded fallbacks? does the run end? |
| `decision_stands` | 1 provider, 3 resumes, 2 decisions | does a decision on a completed run keep its result? |
| `decision_finished` | the same | violated: see the first finding |
| `service_store` | 2 principals, 3 digests, 2 policies, 2 runs, 3 reservations, 3 times | does anything retired or revoked come back? is a budget ever exceeded? does the store keep the contract of the gate? |
| `service` | 3 keys of 2 principals, 2 workers, no queue, 2 faults, 2 stops, fair | are permits conserved, runs executed once, outcomes final and accepted runs concluded? can it always start again? |
| `agent` | 2 processes, a free and a paid payload, 1 request id, 2 tokens, 3 commands, 1 crash | is a paid run only executed with its approval? is there one run for a request id or key? |
| `agent_started` | the same without crash or failing engine, 2 commands | violated: see the second finding |
| `agent_retry` | 2 requests, 1 crash, no failing engine, no keys of the command line | violated: see the third finding |

**Bounds of the engine runs.** `MaxCrashes` is how often a process is killed or
interrupted, `MaxResumes` how often one may run to its end; the crash may fall at
any step, so one crash already covers every pair of adjacent writes, and a second
resume covers everything the first left behind. `MaxCalls` is chosen close to the
least the configuration validator accepts (`2 |Provider| + |Synth|`), so that
retries, repairs and recoveries really compete for the rest. Two providers are
enough for one to be settled while the other starts, for one to be in doubt
while the other works, and for partial quorums. `MaxParallel` is 2 where
interleaving matters and 1 in `engine_repair`, whose questions are about
resumes. `MaxAttempts` bounds the ledger of `parts` only.

**Bounds of the other runs.** The clock of `service_store` has three times: two
days of one month and the first of the next, enough for a reservation kept across
midnight and across the month's end, and for a policy or token to expire. Three
reservations exceed every limit of its policies by one; reservation ids are
symmetric. In `service`, two principals, one with two runs, make both a busy
principal and a free worker possible; with no queue beside the two workers the third run has to be
recovered or refused; two faults are what `HandlerFails` needs, and two stops
allow a crash during the recovery from another. In `agent`, two processes race
for the lock and for the request id, with a third command for a worker or a retry;
processes and tokens are symmetric. Four jurors on three candidates give ties of
points, of first places and of both, and let one juror have no candidate.

**Deadlock.** Checking is off where a bound or a finished job stops the system, as
the program stops: the engine, decision, service and agent runs, the ledger (each
slot answered, nothing may be started) and the two algorithms.

**Fairness.** `FairEngineSpec` assumes weak fairness of the main thread, of
each worker, of draining and of `Resume`. The first three are the operating
system's scheduler and the time-outs each provider call carries; the last is an
operator, or the service's start-up recovery, resuming a run that was cut short.
`FairServiceSpec` assumes that a request under way goes on, that threads are
scheduled, that a service that is closing closes (`close` waits for its threads)
and that one that is down is started again. Nothing is assumed of crashes,
interrupts, faults, the deadline or a provider's answer, nor that a client
repeats a request.

**Findings.**

1. `record_human_decision` is documented to record a decision "for a finished
   run" (`store.py:587`) but tests only for a stored result. A partial run that is
   resumed keeps its old result while its status is `running`; if that process
   dies, a permanent decision is accepted for an unfinished run.
   `decision_finished` shows the behaviour.
2. The reply to `start` says "Run started in the background; poll"
   (`agent.py:452`), and the guide to poll `status` until it is finished
   (`docs/AGENT-INTERFACE.md:72`). The lock is released before the worker is
   spawned, and the worker takes it without waiting (`run_lock.py:80`): if another command
   has it by then, the worker ends, nothing executes the run, and it is
   reported as in progress until somebody resumes it by hand. `agent_started`
   shows the behaviour.
3. "A retry with the same id and the same payload returns the existing run [...]
   and it doesn't need a fresh approval token" (`docs/AGENT-INTERFACE.md:64`). The
   approval is consumed, the run created and the request bound in three transactions
   (`agent.py:163-167`), and only a bound request is replayed. When the process dies
   after `create_run` and before `bind_agent_request`, the retry is refused for its
   spent token although its run exists. `agent_retry` shows the behaviour. The code
   errs on the side of a lost approval: `PaidOnlyApproved` and `OneRunPerRequest` hold.
   The property says this of every request that comes after the run, whether or
   not anything crashed. Without a crash (`MaxCrashes = 0`) it is violated too: of two
   equal requests that both looked up the id before either took the lock, the second
   gets the run of the first by its idempotency key and then binds the id a second
   time (`store.py:501`). The `sqlite3.IntegrityError` is in none of the except clauses
   of `handle_request` (`agent.py:459-467`), which "never raises for bad input; returns
   ok=false" (`agent.py:354`).

One further behaviour is in the models and we know of no document that it
contradicts: a request whose failure handler fails too costs the service one permit
until it is restarted (`HandlerFails`).

## 4. Proofs

A theorem holds for every value of the constants its assumptions allow: any
number of providers, runs, keys, principals, processes and crashes, any budget
and quorum. It is about the same specification the run checks. Every proof has
the same form: an inductive invariant, a lemma for each group of actions that it
is preserved, and a temporal step that combines them.

| module | theorem | states |
|---|---|---|
| `InvocationStoreProofs` | `StoreTypeCorrect`, `RetryAuditHolds`, `AttemptsStayFresh`, `HistoryIsKept` | `StoreTypeOK`, `RetryAudit`, `AttemptFresh`, `HistoryKept` (which contains the third) of `StoreSpec` |
| `CouncilEngineProofs` | `EngineTypeCorrect`, `AuditNeverRaises` | `EngineTypeOK`, and the retry audit of every engine run |
| | `NothingAskedBlindly` | `NoBlindRedispatch` |
| | `AttemptsUnknownToGate`, `EveryCallCharged` | `ReservationFresh`, `ChargedIfSent` |
| `CouncilRunProofs` | `BudgetNeverExceeded` | `CallBudget` |
| | `EngineKeepsLedger`, `EngineKeepsLeases` | the refinements `ImplementsLedger`, `ImplementsLeases` |
| | `DecisionsStand` | `DecisionStands` of `DecisionSpec` |
| | `TruncationRetriesBounded` | `TruncationBounded` |
| | `PromptsNeverChange`, `MembershipFrozen`, `EarlierStagesClose` | `PromptStable`, `FrozenMembership`, `StagesClose` |
| | `SynthesisIsReserved` | `SynthesisReserve` |
| | `CleanIsClean` | `CleanMeansClean` |
| | `NoRunIsWedged` | `ResumeNeverWedged` |
| `CouncilServiceProofs` | `ServiceTypeCorrect`, `PermitsConserved`, `RunsDispatchedOnce`, `ServiceMayRestart`, `OutcomesFinal` | `ServiceTypeOK`, `SlotsConserved`, `DispatchedOnce`, `NeverLockedOut`, `OutcomeFinal` |
| `ServiceStoreProofs` | `BearerTypeCorrect`, `RetiredForEver`, `OnePrincipalPerToken`, `RotationLeavesNoOther` | `BearerTypeOK`, `RetiredStaysRetired`, `OneOwnerEver`, `OnlyAdmittedVerify` |
| | `ServiceStoreTypeCorrect`, `CallsKeepTheirOwner`, `InflightStaysBounded`, `RevocationStands`, `SettledStays` | `ServiceStoreTypeOK`, `OwnerKept`, `InflightBounded`, `RevokedForGood`, `SettledIsFinal` |
| | `BudgetKept` | `WithinBudget` |
| | `StoreServesLeases` | the refinement `ServesLeases`, by `SettledStays` |
| `AgentInterfaceProofs` | `AgentTypeCorrect`, `PaidRunsAreApproved`, `RequestsHaveOneRun` | `AgentTypeOK`, `PaidOnlyApproved`, `OneRunPerRequest` |
| `AlgorithmsProofs` | `TallyHoldsUp` | `TallyDefensible` |
| | `NothingSentBlindly` | `NoBlindRepeat` |

**Assumptions.** Each proof rests on the named `ASSUME` of the modules it extends
and on nothing else; TLC evaluates every one of them in the run of its module.
`EngineAssumption` is what the configuration validator guarantees (distinct
synthesis providers, `MaxCalls` no less than two calls for each provider and one
for each synthesis position, at most one truncation retry). `LegacyAssumption`,
on the token rows an older version left, is the primary key and the `UNIQUE` of the
schema (`service_store.py:284-292`). `NoneAssumption` of `CallReservations` and of
`AgentInterface` says that "no row" is not a row, `AggregationAssumption` that
`None`, the code's "no winner", is nobody's label. The others give the constants their
types.

**The ledger of slots.** Neither the type invariant nor the audit rule is
inductive alone. A retry event takes its `prior` from the row's error, so
typing needs that a failed row has an error; the audit of a restarted slot needs
that a failed row counts at least one call, and a release that returns to "no
row" needs that such a slot has no event. `StoreInv` adds exactly that
(`RowShape`) and states the audit element by element (`EventsUnique`,
`EventsComplete`), the form the solver can use; `InvGivesAudit` turns it back into
the set equation. There is one preservation lemma for each operation (`StartInv`,
`FinishInv`, `ReleaseInv`), stated for any caller, and the engine's proofs cite
them.

**The engine**, in layers, each used in both states of a step by the next:

1. `EngineBase` types every variable and takes `StoreInv` over; the position of
   the synthesis is tied to the recorded fallbacks (`PositionOK`), without which
   `Synth[pos]` would not be typed.
2. `ThreadInv` ties a thread to its row: until it starts its call the row is
   the copy made at the start of the pass, from then on it is running, and none
   of its provider's other slots is in doubt. This is what the suppression of
   doubtful providers at the start of a stage amounts to while threads interleave.
3. `HistoryInv` ties rows to what really happened: an unsettled call's row says
   running or ambiguous, a thread that has not called yet has a spare call on the
   books. `NoBlindRedispatch` and half of `CallBudget` follow.
4. `ReservationInv` ties the second store to the first: an open reservation is
   for the present attempt of a slot that is running or in doubt, and a thread with
   its lease has one. The attempt number (calls plus undispatched starts) never
   falls, hence `ReservationFresh`.
5. `BudgetInv`: calls on the books plus threads still queued are within
   `MaxCalls`. `count_calls` itself is not inductive, since a stage decides how many
   threads may start from one count and they start later.
6. The refinement of `CallLedger` (`EngineKeepsLedger`): every step on one slot
   changes the ledger at that slot only (`LedgerMoves`), and each worker or settling
   step is a ledger action or a stutter.
7. `TruncationInv`: a queued thread whose last response was cut off has a retry
   left (`RetryLeft`). The bound alone is not inductive, for the retry event is
   written by the worker, after the decision.
8. `LockInv` and `PassInv`: a verdict needs a candidate lock (`LockOrder`), rows of
   a stage need the lock their prompt quotes (`StageLocks`), and while a stage runs
   under a lock its pass asks nobody who could change what the lock froze
   (`LockedPass`, `RepairPass`). `RowMoves` lists once what a step of a worker or of
   the main thread may do to a row; `LockKinds` sorts the other steps.
9. `CompletedIsIdle` and `DecisionInv`: a completed run is never resumed, so the
   result a decision was recorded on is the result the run keeps.
10. `SynthInv` and `ReserveInv`: until the synthesis is answered, the calls on the
   books, one for each queued thread and one for each synthesis attempt to come
   stay within `MaxCalls`. `SynthesisReserve` looks only at the moment a position is
   entered; what is inductive has to hold while repairs and retries compete for
   the same calls and while a crashed process left rows behind.
11. `AccountInv` (nobody asked for a proposal is forgotten), `FailedInv` (whoever is
   not a candidate, does not count as a juror or was given up as synthesizer is
   among this process's failures, rebuilt from the locks when it starts) and
   `AuditInv` (a repaired jury has its event before it counts) together say that an
   empty list of failures and of events can only come from a run without any:
   `CleanMeansClean`.
12. `RecordInv`, for `ResumeNeverWedged`: what is written about a call that is over
   is what its row says, then and in every later process. `ReadyInv` and `FirmInv`
   say that a call which is not repeated is reported with the failure of its
   row (a truncated response that is retried is still retriable when the retry is
   decided), `FallbackRows` that recorded fallbacks agree with the rows.
   `RepairInv` is about the jury repairs: `EventOf` is the one event the rows allow
   for a juror, and every event stored or about to be stored is that one. The hard
   case is a repair passed over for want of calls, which is recorded as not
   attempted: a later process must not find a call for it. `PassedOver` bounds
   the repairs still unmade before it plus the calls that can no longer be given
   back, so the repair stays out of reach even when an earlier one is released
   undispatched.
13. `LeaseInv`, for the refinement of `CallLeases` (`EngineKeepsLeases`): an attempt
   is reserved at most once, and the lease of a thread stays open until the main
   thread settles it, also after the call is over. `ReservationInv` has it only
   while the thread still works, which is enough for its two properties but does
   not say that `reconcile` and `release` find an open lease. That the call made
   under it is the first one is `HistoryInv`; that nobody else has it is
   uniqueness, without which settling one row could close another (`LeaseClosed`).

**The service.** `SlotsConserved` needs to know where every run of the executor is:
`Dispatch` says so without cardinalities (queue, semaphore and workers have
distinct runs), `Accepted` and `RequestShape` what the rows say of them and of the
request under way, `DownIsEmpty` that a stopped service holds nothing.

**The service store.** Every operation on tokens retires some rows, deletes them
and adds at most one; `RowsMove` proves once what such a move preserves, and each
operation is shown to be one. `TokenInv` needs `DroppedKnown` (a digest that stopped
verifying has its tombstone or is still a revoked row of the older version) and
`OwnerKnown` (the row or tombstone names the digest's only owner). `CallInv` contains
`InflightBounded`, what `WithinBudget` says of the calls in flight. `BudgetInv` adds
that a call booked as reconciled has a known cost and, for each principal, that what
is booked on a day or in a month stays `WithinLimit`: within the limit plus the
overrun of the calls counted there. A new call fits because `HasRoom` read the same
sum in the same transaction (`AddingKeepsLimit`); a settled one adds to the cost no
more than to the overrun (`SettlingKeepsLimit`), whichever day it is settled on,
because it keeps the day it was reserved on; and `put_policy` takes no limit down
(`LimitGrows`). Beside `SettledIsFinal`, `StoreServesLeases` needs of `CallInv` only the
three states of a reservation: a method that changes one looks at its state in the same transaction.

**Sums.** `SumFunctionOnSet` is a fold: it takes the elements away one by one, in an
order that `CHOOSE` picks. `FiniteSums` proves that the order does not matter. The
argument is an induction over the finite subsets of a set, carried out
as a descent: if a statement failed for some subset it would fail for a smallest one
(`MinimalSet`, from the well-foundedness of strict inclusion), and there one element
can be taken away. No operator is passed as a parameter, so the provers
follow it. From `SumTake` (a sum is one summand plus the sum of the others) come the
comparisons of sums and `SumExchange`: a table added up by rows and by columns gives
the same total.

**The tally.** `PointsAreVictories` is `SumExchange` on the table of jurors and
opponents: a candidate's Borda points, summed ranking by ranking, are its pairwise
victories, summed opponent by opponent. That the winner is the best
(`WinnerIsBest`) is then a matter of who leads (`OneLeader`). `LoserNeverChosen` is a
second count: all candidates together gain as many comparisons as they lose, and each
gains and loses the same number in all (`EveryPairIsJudged`). If a candidate that
loses to every other one led, it would lose more than it gains, so would all the
others, and the totals could not agree (`BeatenDoesNotLead`). For `OwnVoteInert` an
author's ballot without its own candidate gives that candidate nothing, so its points
are a sum over the other jurors (`PointsOfOthers`).

**The agent interface.** `AgentInv` says for each point of a process between two
transactions what it has already done: which approval it has spent, that no run was
made with it yet, which run its request id is bound to, and that it holds the lock
(`LockOK`). The invariant on approvals is not inductive without the lock.

**Model-checked only.** `RunConcludes` and `AcceptedConcludes`: liveness rests on
fairness and `ENABLED`, which the proof system does not handle. Every other
property of a run that passes has its theorem.

## 5. Not modelled

- Prompt and result texts, JSON extraction and schema validation, credential
  screening, the adapters' translation of bodies, delays and header limits of
  the HTTP transport, workload estimates, the formatting commands of the CLI:
  string processing, arithmetic or I/O without state of their own.
- `check_synthesis_outcome`: the check that the opening line of a synthesis agrees
  with the tally is a comparison of texts (`protocol.py:1191`), and any reading
  of it in the model would repeat its conditions. Its verdict on an answer is an
  input of `CouncilEngine` (the response is `good`), where it is one of the things a
  clean result needs.
- In the service: an `executor.submit` that raises while a freed slot drains
  the recovery queue (`service.py:667`), and a configuration whose principals change
  between restarts, whose bindings the recovery skips (`service.py:627`). The
  already-scheduled branch of `_submit_acquired` (`service.py:583`) cannot be
  reached, by `DispatchedOnce`.
- The service's HTTP handler (parsing, size limits, status codes, timeouts of a
  connection) and `get_run`, which only reads.
- The remote client and the MCP framing: they pass requests on and keep nothing.
- `PolicyCore` of `access_policy.py`: nothing in the program constructs it.
- Keys and secrets: keychain and environment lookup.
- The digest chain of decisions and the append-only triggers, which are
  SQLite's, and the `flock` protocol, which is the operating system's.
- The engine's gate is not composed with `CallReservations`. What ties the two is that
  both keep `CallLeases`; a refusal is nondeterministic in `CouncilEngine`,
  whatever its reason.

## 6. Plan

1. A composition of the engine's gate with `CallReservations`, to check and then
   prove that a refusal has one of the reasons the store gives.
2. Refinement mappings from the service and the agent interface to `CouncilEngine`:
   both run the engine as a few steps of their own, and a mapping would tie their
   outcomes to its results.
