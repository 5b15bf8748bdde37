---------------------------- MODULE CouncilEngine ----------------------------
(***************************************************************************)
(* CouncilEngine.resume of engine.py: one council run driven to a terminal *)
(* result by a process that may crash, be interrupted or run out of its    *)
(* deadline at any point and be resumed later.                             *)
(*                                                                         *)
(* Every durable write that changes what a resume, the gate or a result    *)
(* computes (a transaction of store.py or of the service's call gate) is a *)
(* step of its own, so a crash can fall between any two of them.  Three    *)
(* events are left out: run_started and workload_preflight, which a resume *)
(* only records, and the random marker of the prompts, which the first     *)
(* resume stores before any row (engine.py:225, 589-607).                  *)
(*                                                                         *)
(* Worker threads of the stage's ThreadPoolExecutor interleave with each   *)
(* other and with the main thread, which alone settles their results.      *)
(* The run lock (run_lock.py) admits one resuming process at a time; it is *)
(* held from Resume until the process ends, which is pc # "idle".          *)
(***************************************************************************)
EXTENDS InvocationStore, Integers, Sequences

CONSTANTS
  Synth,              \* synthesis provider and its fallbacks, in order
  MaxCalls,           \* policy.max_calls
  ProposalQuorum,     \* policy.proposal_quorum
  JuryQuorum,         \* policy.jury_quorum
  Lineage,            \* the lineage of each provider
  MinLineages,        \* policy.min_lineages
  AllowPartial,       \* policy.allow_partial
  TruncationRetries,  \* policy.truncation_retries, 0 or 1
  JuryRepair,         \* policy.jury_repair_attempts = 1
  Headroom,           \* slots whose output limit may be raised in a retry
  Oversized,          \* stages whose prompt may exceed max_stage_prompt_chars
  MaxParallel,        \* policy.max_parallel_calls
  GateOn,             \* the service installs a call gate; the CLI does not
  GateMayDeny,        \* the principal's policy may refuse a reservation
  Outcomes,           \* what provider.generate may come back with
  MaxResumes,         \* bound: how often a resume may run to its end
  MaxCrashes          \* bound: how often it may be cut short instead

Stages == {"proposal", "jury", "jury_repair", "synthesis"}

(* The answers of generate: a complete response whose artifact is valid    *)
(* (good), invalid but with a recoverable decision (bad) or not even that  *)
(* (broken); a response cut off at the output limit; an error or an        *)
(* abnormal finish that is definite; and one whose outcome is unknown.     *)
AllOutcomes == {"good", "bad", "broken", "length", "error", "ambiguous"}

ASSUME EngineAssumption ==
  /\ Stage = Stages
  /\ Response = {"good", "bad", "broken"}
  /\ Synth \in Seq(Provider) /\ Len(Synth) >= 1
  /\ \A i, j \in 1 .. Len(Synth) : Synth[i] = Synth[j] => i = j
  /\ MaxCalls \in Nat
  /\ MaxCalls >= 2 * Cardinality(Provider) + Len(Synth)
  /\ ProposalQuorum \in 1 .. Cardinality(Provider)
  /\ JuryQuorum \in 1 .. Cardinality(Provider)
  /\ MinLineages \in Nat \ {0}
  /\ TruncationRetries \in 0 .. 1
  /\ MaxParallel \in Nat \ {0}
  /\ Headroom \subseteq Stages \X Provider
  /\ Oversized \subseteq Stages
  /\ Outcomes \subseteq AllOutcomes
  /\ {AllowPartial, JuryRepair, GateOn, GateMayDeny} \subseteq BOOLEAN
  /\ MaxResumes \in Nat /\ MaxCrashes \in Nat
  /\ Prompt = [members : SUBSET Provider, votes : SUBSET Provider]

----------------------------------------------------------------------------
VARIABLES
  \* Durable: the runs and events tables of the council database.
  runStatus,     \* runs.status
  result,        \* runs.result_json
  nsLock,        \* the candidate_namespace_locked event
  adjLock,       \* the adjudication_locked event
  fallbacks,     \* failures of the synthesis_fallback_advanced events
  truncRec,      \* statuses of the truncation_recovery events by slot
  repairEvents,  \* the jury_artifact_repair event of each juror
  \* Durable: service_call_reservations, in the service's own database.
  reservations,
  \* The stages whose prompt is too long, fixed by the run's question.
  oversized,
  \* Volatile: the resuming process.
  pc, expired, stage, pos, startPos, nested, failedSlots,
  prompts, prior, succ, fail, recoverable, noted, pending, thread,
  \* History: calls handed to a provider, and those never settled for good.
  sent, unresolved,
  \* Counters for the two bounds.
  resumes, crashes

runVars  == <<runStatus, result, nsLock, adjLock, fallbacks, truncRec,
              repairEvents>>
ctlVars  == <<pc, expired, stage, pos, startPos, nested, failedSlots>>
passVars == <<prompts, prior, succ, fail, recoverable, noted, pending>>
hisVars  == <<sent, unresolved>>
bounds   == <<resumes, crashes>>
vars == <<storeVars, runVars, reservations, ctlVars, passVars, thread,
          hisVars, bounds, oversized>>

(* A failure as it is compared by the validators: what happened, and the   *)
(* call of the slot that it is stored under (0: no row was written).       *)
Failure == [kind : Error \cup {"none", "deadline", "budget", "denied",
                               "exhausted", "suppressed"},
            call : Nat]
NoFailure == [kind |-> "none", call |-> 0]
Unstored(kind) == [kind |-> kind, call |-> 0]
Stored(row) == [kind |-> row.error, call |-> row.calls]

NoAudit == [status |-> "none", cause |-> NoFailure]
Audit(status, cause) == [status |-> status, cause |-> cause]

NoNamespace == [members |-> {}, failed |-> {}]
NoVerdict == [valid |-> {}, invalid |-> {}, failed |-> {}]
NoResult == [status |-> "none", clean |-> FALSE, answer |-> 0]

AdjudicationLocked == adjLock # NoVerdict

(* Fault: the candidate lock is honoured only with a verdict.              *)
NamespaceLocked_LateLock == nsLock # NoNamespace /\ adjLock # NoVerdict

NamespaceLocked == nsLock # NoNamespace

Idle == [at |-> "idle", out |-> "none"]

SlotOf(p) == <<stage, p>>
RowOf(p) == inv[<<stage, p>>]

(* Which durable facts the prompt of a stage is built from.  A repair      *)
(* prompt also quotes the juror's own response, whose row is final.        *)
PromptOf(st) ==
  [members |-> IF st = "proposal" THEN {} ELSE nsLock.members,
   votes   |-> IF st = "synthesis" THEN adjLock.valid ELSE {}]

NonePending == \A p \in Provider : pending[p] = NoAudit
ThreadsIdle == \A p \in Provider : thread[p] = Idle

(* The audit events of a pass are appended in configuration order.         *)
FirstPending(p) ==
  /\ pending[p] # NoAudit
  /\ \A q \in Provider : q < p => pending[q] = NoAudit

(* names[:n] of a list in configuration order.                             *)
IsFirst(chosen, names, n) ==
  /\ chosen \subseteq names
  /\ Cardinality(chosen)
       = IF n < Cardinality(names) THEN n ELSE Cardinality(names)
  /\ \A p \in chosen, q \in names \ chosen : p < q

AtLeastZero(n) == IF n < 0 THEN 0 ELSE n

LineagesOf(ps) == {Lineage[p] : p \in ps}
QuorumMet(ps) ==
  /\ Cardinality(ps) >= ProposalQuorum
  /\ Cardinality(LineagesOf(ps)) >= MinLineages

----------------------------------------------------------------------------
(* The validators a resume applies to the durable record.                  *)

FallbackStateOK ==
  /\ Len(fallbacks) < Len(Synth)
  /\ \A i \in 1 .. Len(fallbacks) :
       LET row == inv[<<"synthesis", Synth[i]>>] IN
         row.status # "none" =>
           row.status = "failed" /\ fallbacks[i] = Stored(row)
  /\ \A i \in 1 .. Len(Synth) :
       inv[<<"synthesis", Synth[i]>>].status = "succeeded"
         => i = Len(fallbacks) + 1

NamespaceOK ==
  NamespaceLocked =>
    /\ QuorumMet(nsLock.members)
    /\ nsLock.failed = Provider \ nsLock.members

AdjudicationOK ==
  AdjudicationLocked =>
    /\ NamespaceLocked
    /\ adjLock.valid \cap adjLock.failed = {}
    /\ adjLock.invalid \subseteq adjLock.failed
    /\ adjLock.valid \cup adjLock.invalid \cup adjLock.failed = Provider
    /\ Cardinality(adjLock.valid) >= JuryQuorum

----------------------------------------------------------------------------
(* The process: start, end, crash, deadline.                               *)

EngineInit ==
  /\ StoreInit
  /\ runStatus = "created" /\ result = NoResult
  /\ nsLock = NoNamespace /\ adjLock = NoVerdict
  /\ fallbacks = <<>>
  /\ truncRec = [s \in Slot |-> {}]
  /\ repairEvents = [p \in Provider |-> NoAudit]
  /\ reservations = {}
  /\ pc = "idle" /\ expired = FALSE /\ stage = "proposal" /\ pos = 1
  /\ startPos = 1 /\ nested = FALSE /\ failedSlots = {}
  /\ prompts = {} /\ prior = [p \in Provider |-> NoRow]
  /\ succ = {} /\ fail = [p \in Provider |-> NoFailure]
  /\ recoverable = {} /\ noted = {}
  /\ pending = [p \in Provider |-> NoAudit]
  /\ thread = [p \in Provider |-> Idle]
  /\ sent = {} /\ unresolved = {} /\ resumes = 0 /\ crashes = 0
  /\ oversized \in SUBSET Oversized

(* _run_parallel_stage starts with empty result lists.                     *)
EnterStage(st, ps) ==
  /\ pc' = "begin" /\ stage' = st /\ nested' = FALSE
  /\ prompts' = ps
  /\ prior' = [p \in Provider |-> NoRow]
  /\ succ' = {} /\ fail' = [p \in Provider |-> NoFailure]
  /\ recoverable' = {} /\ noted' = {}
  /\ pending' = [p \in Provider |-> NoAudit]

(* Everything the process holds in memory is gone.                         *)
ProcessEnds ==
  /\ pc' = "idle" /\ expired' = FALSE /\ stage' = "proposal" /\ pos' = 1
  /\ startPos' = 1 /\ nested' = FALSE /\ failedSlots' = {}
  /\ prompts' = {} /\ prior' = [p \in Provider |-> NoRow]
  /\ succ' = {} /\ fail' = [p \in Provider |-> NoFailure]
  /\ recoverable' = {} /\ noted' = {}
  /\ pending' = [p \in Provider |-> NoAudit]
  /\ thread' = [p \in Provider |-> Idle]

(* Fault: off by one.                                                      *)
CurrentSynthesis_OffByOne == Len(fallbacks) + 2

(* Fault: a resume begins the order of synthesizers again.                 *)
CurrentSynthesis_Restart == 1

(* The position after the last recorded fallback.                          *)
CurrentSynthesis == Len(fallbacks) + 1

(* Fault: a locked run asks every provider again.                          *)
Proposers_Everyone == Provider

(* Frozen members only, once the candidates are locked.                    *)
Proposers == IF NamespaceLocked THEN nsLock.members ELSE Provider

(* The run is marked running again; its old result stays where it is.      *)
StartResume ==
  /\ runStatus' = "running"
  /\ resumes' = resumes + 1
  /\ expired' = FALSE
  /\ pos' = CurrentSynthesis /\ startPos' = CurrentSynthesis
  /\ failedSlots' = {"proposal"} \X nsLock.failed
  /\ EnterStage("proposal", Proposers)
  /\ UNCHANGED <<storeVars, result, nsLock, adjLock, fallbacks, truncRec,
                 repairEvents, reservations, thread, hisVars, crashes>>

(* Fault: a completed run is run again.                                    *)
Resume_Again ==
  /\ pc = "idle" /\ resumes - crashes < MaxResumes
  /\ FallbackStateOK /\ NamespaceOK /\ AdjudicationOK
  /\ StartResume

(* A completed run only returns its stored result.                         *)
Resume ==
  /\ pc = "idle" /\ resumes - crashes < MaxResumes
  /\ runStatus # "completed"
  /\ FallbackStateOK /\ NamespaceOK /\ AdjudicationOK
  /\ StartResume

Crash ==
  /\ pc # "idle" /\ crashes < MaxCrashes
  /\ ProcessEnds
  /\ crashes' = crashes + 1
  /\ UNCHANGED <<storeVars, runVars, reservations, hisVars, resumes>>

(* An exception in the main thread while futures are outstanding (Ctrl-C,  *)
(* or lease.release() failing) leaves the executor's with-block, which     *)
(* first waits for every submitted call: workers go on, nobody settles.    *)
Interrupt ==
  /\ pc = "run" /\ NonePending /\ ~ThreadsIdle /\ crashes < MaxCrashes
  /\ pc' = "draining"
  /\ crashes' = crashes + 1
  /\ UNCHANGED <<storeVars, runVars, reservations, expired, stage, pos,
                 startPos, nested, failedSlots, passVars, thread, hisVars,
                 resumes>>

Drained ==
  /\ pc = "draining"
  /\ \A p \in Provider : thread[p].at \in {"idle", "done", "accounted"}
  /\ ProcessEnds
  /\ UNCHANGED <<storeVars, runVars, reservations, hisVars, bounds>>

Expire ==
  /\ pc # "idle" /\ ~expired
  /\ expired' = TRUE
  /\ UNCHANGED <<storeVars, runVars, reservations, pc, stage, pos, startPos,
                 nested, failedSlots, passVars, thread, hisVars, bounds>>

----------------------------------------------------------------------------
(* _run_parallel_stage, first half: what is left to call, and what for     *)
(* each provider that is not called is reported instead.                   *)

RetryFailed ==
  \/ nested
  \/ stage \in {"proposal", "jury"}
  \/ stage = "synthesis" /\ pos = startPos /\ pos = Len(Synth)

(* Providers with a call in this run whose outcome is not known.           *)
AmbiguousProviders ==
  {p \in Provider :
     \E st \in Stage : \/ inv[<<st, p>>].status = "running"
                       \/ inv[<<st, p>>].error = "ambiguous"}

TruncationRetriesOf(s) ==
  Cardinality({e \in retryEvents : e.slot = s /\ e.kind = "truncation"})

RecoveryRecorded(s) == truncRec[s] \ {"not_dispatched"} # {}

(* A failed row that is reported again as it is stored.                    *)
Refused(p) ==
  /\ RowOf(p).status = "failed"
  /\ \/ RowOf(p).error = "ambiguous"
     \/ ~RetryFailed
     \/ RowOf(p).error = "length" /\ RecoveryRecorded(SlotOf(p))

(* Fault: only recovery events limit truncation retries.                   *)
Exhausted_Never(p) == FALSE

Exhausted(p) ==
  /\ RowOf(p).status = "failed" /\ RowOf(p).error = "length"
  /\ TruncationRetriesOf(SlotOf(p)) >= TruncationRetries

(* Fault: doubt about a provider is confined to its own slot.              *)
Work_Unsuppressed ==
  {p \in prompts : /\ RowOf(p).status # "succeeded"
                   /\ ~Refused(p)
                   /\ ~Exhausted(p)}

(* The providers that still have to be called.                             *)
Work ==
  {p \in prompts : /\ RowOf(p).status # "succeeded"
                   /\ ~Refused(p)
                   /\ ~Exhausted(p)
                   /\ p \notin AmbiguousProviders}

SynthesisResultExists ==
  \E i \in 1 .. Len(Synth) :
    inv[<<"synthesis", Synth[i]>>].status = "succeeded"

(* Fault: only one synthesis attempt is kept back.                         *)
DownstreamReserve_OneSynthesis ==
  IF stage = "proposal" THEN Cardinality(Provider) + 1
  ELSE IF stage = "synthesis" THEN 0 ELSE 1

(* Calls a stage must leave for the stages after it.                       *)
DownstreamReserve ==
  IF SynthesisResultExists THEN 0
  ELSE IF stage = "synthesis" THEN Len(Synth) - pos
  ELSE IF stage = "proposal" THEN Cardinality(Provider) + Len(Synth)
  ELSE Len(Synth)

(* Fault: failed calls are not counted against the budget.                 *)
DispatchCapacity_SuccessesOnly ==
  AtLeastZero(MaxCalls
    - Cardinality({s \in Slot : inv[s].status = "succeeded"})
    - DownstreamReserve)

DispatchCapacity ==
  AtLeastZero(AtLeastZero(MaxCalls - count_calls) - DownstreamReserve)

(* Checked in this order by the code; the last three are providers of Work *)
(* that are not allowed to start.                                          *)
FailureAtBegin(p) ==
  IF RowOf(p).status = "succeeded" THEN NoFailure
  ELSE IF Refused(p) THEN Stored(RowOf(p))
  ELSE IF Exhausted(p) THEN Unstored("exhausted")
  ELSE IF p \in AmbiguousProviders THEN Unstored("suppressed")
  ELSE IF stage \in oversized /\ ~expired THEN Unstored("budget")
  ELSE IF RowOf(p).status = "failed" THEN Stored(RowOf(p))
  ELSE Unstored(IF expired THEN "deadline" ELSE "budget")

(* Fault: a lost call is recorded as a definite failure.                   *)
MarkLost_AsDefinite(p) ==
  /\ pc = "begin" /\ NonePending /\ p \in prompts
  /\ finish_invocation_failure(SlotOf(p), "error")
  /\ UNCHANGED <<runVars, reservations, ctlVars, passVars, thread, hisVars,
                 bounds>>

(* A slot left running by a process that died is failed as ambiguous.      *)
MarkLost(p) ==
  /\ pc = "begin" /\ NonePending /\ p \in prompts
  /\ finish_invocation_failure(SlotOf(p), "ambiguous")
  /\ UNCHANGED <<runVars, reservations, ctlVars, passVars, thread, hisVars,
                 bounds>>

(* Denied providers whose last response was truncated get an audit event.  *)
BeginStage ==
  /\ pc = "begin" /\ NonePending
  /\ \A p \in prompts : RowOf(p).status # "running"
  /\ \E allowed \in SUBSET Work :
       /\ IF expired \/ stage \in oversized
          THEN allowed = {}
          ELSE IsFirst(allowed, Work, DispatchCapacity)
       /\ LET cut == IF expired \/ stage \in oversized THEN {}
                     ELSE {p \in Work \ allowed : RowOf(p).error = "length"}
          IN /\ pending' = [p \in Provider |->
                              IF p \in cut
                              THEN Audit("not_attempted", NoFailure)
                              ELSE NoAudit]
             /\ noted' = cut
       /\ fail' = [p \in Provider |->
                     IF p \in prompts \ allowed THEN FailureAtBegin(p)
                                                ELSE fail[p]]
       /\ thread' = [p \in Provider |->
                       IF p \in allowed
                       THEN [at |-> "queued", out |-> "none"] ELSE Idle]
  /\ succ' = succ \cup {p \in prompts : RowOf(p).status = "succeeded"}
  /\ prior' = [p \in Provider |-> IF p \in prompts THEN RowOf(p) ELSE NoRow]
  /\ pc' = "run"
  /\ UNCHANGED <<storeVars, runVars, reservations, expired, stage, pos,
                 startPos, nested, failedSlots, prompts, recoverable,
                 hisVars, bounds>>

WriteRecovery(p) ==
  /\ pc \in {"begin", "run"} /\ FirstPending(p)
  /\ truncRec' = [truncRec EXCEPT ![SlotOf(p)] = @ \cup {pending[p].status}]
  /\ pending' = [pending EXCEPT ![p] = NoAudit]
  /\ UNCHANGED <<storeVars, runStatus, result, nsLock, adjLock, fallbacks,
                 repairEvents, reservations, ctlVars, prompts, prior, succ,
                 fail, recoverable, noted, thread, hisVars, bounds>>

----------------------------------------------------------------------------
(* _execute_provider_call, on a worker thread.                             *)

Running == pc \in {"run", "draining"} /\ NonePending

ThreadStep(p, at, out) ==
  thread' = [thread EXCEPT ![p] = [at |-> at, out |-> out]]

ThreadFrame == UNCHANGED <<runVars, ctlVars, passVars, bounds>>

(* The pool has max_workers threads and takes futures in submission order. *)
Scheduled(p) ==
  /\ Running /\ thread[p].at = "queued"
  /\ \A q \in Provider : q < p => thread[q].at # "queued"
  /\ Cardinality({q \in Provider : thread[q].at \in {"started", "leased"}})
       < MaxParallel

StartTooLate(p) ==
  /\ Scheduled(p) /\ expired
  /\ ThreadStep(p, "done", "not_started")
  /\ ThreadFrame /\ UNCHANGED <<storeVars, reservations, hisVars>>

StartCall(p) ==
  /\ Scheduled(p) /\ ~expired
  /\ start_invocation(SlotOf(p), PromptOf(stage))
  /\ ThreadStep(p, "started", "none")
  /\ ThreadFrame /\ UNCHANGED <<reservations, hisVars>>

(* call_gate.reserve: a reservation that exists is answered with REPLAY,   *)
(* which the engine treats as ambiguous; the policy may refuse a new one.  *)
GateAnswers(s) ==
  IF \E r \in reservations : r.slot = s /\ r.attempt = Attempt(s)
  THEN {"replayed"}
  ELSE {"granted"} \cup (IF GateMayDeny THEN {"denied"} ELSE {})

ReserveCall(p) ==
  /\ GateOn /\ Running /\ thread[p].at = "started"
  /\ \E answer \in GateAnswers(SlotOf(p)) :
       IF answer = "granted"
       THEN /\ reservations' = reservations \cup
                 {[slot |-> SlotOf(p), attempt |-> Attempt(SlotOf(p)),
                   state |-> "reserved"]}
            /\ ThreadStep(p, "leased", "none")
       ELSE /\ ThreadStep(p, "done", answer)
            /\ UNCHANGED reservations
  /\ ThreadFrame /\ UNCHANGED <<storeVars, hisVars>>

MayCall(p) ==
  Running /\ thread[p].at = IF GateOn THEN "leased" ELSE "started"

CallTooLate(p) ==
  /\ MayCall(p) /\ expired
  /\ ThreadStep(p, "done", "late")
  /\ ThreadFrame /\ UNCHANGED <<storeVars, reservations, hisVars>>

(* provider.generate: from here on the provider may have done the work.    *)
CallProvider(p) ==
  /\ MayCall(p) /\ ~expired
  /\ sent' = sent \cup {<<SlotOf(p), Attempt(SlotOf(p))>>}
  /\ unresolved' = unresolved \cup {SlotOf(p)}
  /\ \E out \in Outcomes : ThreadStep(p, "done", out)
  /\ ThreadFrame /\ UNCHANGED <<storeVars, reservations>>

----------------------------------------------------------------------------
(* _run_parallel_stage, second half: the main thread takes one completed   *)
(* future at a time, first settles its lease and then its row.             *)

Undispatched == {"not_started", "denied", "late", "replayed"}

(* An ambiguous call keeps its reservation; a refused one never had one.   *)
LeaseDue(out) ==
  GateOn /\ out \notin {"not_started", "denied", "replayed", "ambiguous"}

NoneAccounted == \A q \in Provider : thread[q].at # "accounted"

(* Fault: the lease is found by its slot alone.                            *)
SettleReservation_AllAttempts(p, state) ==
  reservations' =
    {IF r.slot = SlotOf(p) THEN [r EXCEPT !.state = state] ELSE r :
       r \in reservations}

SettleReservation(p, state) ==
  reservations' =
    {IF r.slot = SlotOf(p) /\ r.attempt = Attempt(SlotOf(p))
     THEN [r EXCEPT !.state = state] ELSE r : r \in reservations}

LeaseFrame == UNCHANGED <<storeVars, runVars, ctlVars, passVars, hisVars,
                          bounds>>

(* Fault: a failed call is refunded.                                       *)
LeaseFate_Refund(out) ==
  IF out \in {"late", "error"} THEN "released" ELSE "reconciled"

LeaseFate(out) == IF out = "late" THEN "released" ELSE "reconciled"

SettleLease(p) ==
  /\ pc = "run" /\ NoneAccounted
  /\ thread[p].at = "done" /\ LeaseDue(thread[p].out)
  /\ SettleReservation(p, LeaseFate(thread[p].out))
  /\ ThreadStep(p, "accounted", thread[p].out)
  /\ LeaseFrame

(* lease.reconcile raises, before its transaction is committed or after:   *)
(* the call did complete but is kept as ambiguous.                         *)
ReconcileFails(p) ==
  /\ pc = "run" /\ NoneAccounted
  /\ thread[p].at = "done" /\ LeaseDue(thread[p].out)
  /\ thread[p].out # "late"
  /\ UNCHANGED reservations \/ SettleReservation(p, "reconciled")
  /\ ThreadStep(p, "accounted", "ambiguous")
  /\ LeaseFrame

Settling(p) ==
  /\ pc = "run"
  /\ \/ thread[p].at = "accounted"
     \/ thread[p].at = "done" /\ ~LeaseDue(thread[p].out) /\ NoneAccounted
  /\ thread' = [thread EXCEPT ![p] = Idle]

SettleFrame == UNCHANGED <<runVars, reservations, ctlVars, prompts, prior,
                           noted, pending, sent, bounds>>

Fails(p, failure) == fail' = [fail EXCEPT ![p] = failure]

PriorOr(p, kind) == IF prior[p].status = "failed" THEN Stored(prior[p])
                                                  ELSE Unstored(kind)

SettleUnstarted(p) ==
  /\ Settling(p) /\ thread[p].out = "not_started"
  /\ Fails(p, PriorOr(p, "deadline"))
  /\ SettleFrame /\ UNCHANGED <<storeVars, succ, recoverable, unresolved>>

SettleUndispatched(p) ==
  /\ Settling(p) /\ thread[p].out \in {"denied", "late"}
  /\ release_undispatched_invocation(SlotOf(p), prior[p])
  /\ Fails(p, PriorOr(p, IF thread[p].out = "late" THEN "deadline"
                                                   ELSE "denied"))
  /\ SettleFrame /\ UNCHANGED <<succ, recoverable, unresolved>>

SettleSuccess(p) ==
  /\ Settling(p) /\ thread[p].out \in Response
  /\ finish_invocation_success(SlotOf(p), thread[p].out)
  /\ succ' = succ \cup {p}
  /\ unresolved' = unresolved \ {SlotOf(p)}
  /\ SettleFrame /\ UNCHANGED <<fail, recoverable>>

(* A first truncated response of a slot earns one larger retry.            *)
MayRecover(p) ==
  /\ ~nested /\ stage # "jury_repair"
  /\ TruncationRetries > 0
  /\ prior[p].error # "length"
  /\ TruncationRetriesOf(SlotOf(p)) < TruncationRetries

SettleTruncated(p) ==
  /\ Settling(p) /\ thread[p].out = "length" /\ MayRecover(p)
  /\ finish_invocation_failure(SlotOf(p), "length")
  /\ recoverable' = recoverable \cup {p}
  /\ unresolved' = unresolved \ {SlotOf(p)}
  /\ SettleFrame /\ UNCHANGED <<succ, fail>>

ErrorOf(out) == IF out = "replayed" THEN "ambiguous" ELSE out

SettleFailure(p) ==
  /\ Settling(p)
  /\ thread[p].out \in Error \cup {"replayed"}
  /\ thread[p].out = "length" => ~MayRecover(p)
  /\ finish_invocation_failure(SlotOf(p), ErrorOf(thread[p].out))
  /\ Fails(p, [kind |-> ErrorOf(thread[p].out), call |-> RowOf(p).calls])
  /\ unresolved' = IF ErrorOf(thread[p].out) = "ambiguous" THEN unresolved
                   ELSE unresolved \ {SlotOf(p)}
  /\ SettleFrame /\ UNCHANGED <<succ, recoverable>>

----------------------------------------------------------------------------
(* The nested pass that retries truncated responses with a larger limit.   *)

PassSettled == pc = "run" /\ ThreadsIdle /\ NonePending

(* min(max(n + 1024, 2 n), max_recovery_output_tokens) exceeds the limit n *)
(* that the stage has for the provider.                                    *)
WithHeadroom == {p \in Provider : SlotOf(p) \in Headroom}

StartRecovery ==
  /\ PassSettled /\ ~nested /\ recoverable # {}
  /\ LET stuck == recoverable \ WithHeadroom
         able  == recoverable \cap WithHeadroom
     IN /\ pending' = [p \in Provider |->
                         IF p \in stuck
                         THEN Audit("not_attempted", NoFailure) ELSE NoAudit]
        /\ fail' = [p \in Provider |->
                      IF p \in stuck THEN Stored(RowOf(p)) ELSE fail[p]]
        /\ nested' = (able # {})
        /\ pc' = IF able # {} THEN "begin" ELSE "run"
        /\ prompts' = IF able # {} THEN able ELSE prompts
  /\ recoverable' = {}
  /\ UNCHANGED <<storeVars, runVars, reservations, expired, stage, pos,
                 startPos, failedSlots, prior, succ, noted, thread, hisVars,
                 bounds>>

RecoveryStatus(p) ==
  CASE p \in succ -> "recovered"
    [] p \notin succ /\ RowOf(p).calls > prior[p].calls -> "failed"
    [] OTHER -> "not_dispatched"

EndRecovery ==
  /\ PassSettled /\ nested
  /\ pending' = [p \in Provider |->
                   IF p \in prompts \ noted
                   THEN Audit(RecoveryStatus(p), NoFailure) ELSE NoAudit]
  /\ nested' = FALSE
  /\ UNCHANGED <<storeVars, runVars, reservations, pc, expired, stage, pos,
                 startPos, failedSlots, prompts, prior, succ, fail,
                 recoverable, noted, thread, hisVars, bounds>>

StageReturns == PassSettled /\ ~nested /\ recoverable = {}

----------------------------------------------------------------------------
(* _resume_locked: from one stage to the next.                             *)

FailedNow == {SlotOf(p) : p \in {q \in Provider : fail[q] # NoFailure}}

(* Fault: retries of an earlier process are forgotten.                     *)
Unblemished_NoRetries(failures, answer) ==
  /\ failures = {}
  /\ \A s \in Slot : truncRec[s] = {}
  /\ \A p \in Provider : repairEvents[p] = NoAudit
  /\ inv[<<"synthesis", answer>>].response = "good"

(* The run is clean only if nothing failed and nothing had to be recovered *)
(* retried or repaired, in this process or before, and the synthesis       *)
(* agrees with the aggregate.                                              *)
Unblemished(failures, answer) ==
  /\ failures = {}
  /\ retryEvents = {}
  /\ \A s \in Slot : truncRec[s] = {}
  /\ \A p \in Provider : repairEvents[p] = NoAudit
  /\ inv[<<"synthesis", answer>>].response = "good"

(* _provider_retry_recoveries raises unless every slot's retry events are  *)
(* numbered 2 .. call_count without a gap or a duplicate.                  *)
RetriesAccounted == RetryAudit

(* _build_result and finish_run: the result, the status and the closing    *)
(* event are one transaction.                                              *)
Finish(status, failures, answer) ==
  /\ RetriesAccounted
  /\ runStatus' = status
  /\ result' = [status |-> status,
                clean  |-> status = "completed"
                             /\ Unblemished(failures, answer),
                answer |-> answer]
  /\ ProcessEnds
  /\ UNCHANGED <<storeVars, nsLock, adjLock, fallbacks, truncRec,
                 repairEvents, reservations, hisVars, bounds>>

NoAnswer == 0

(* Proposals whose artifact parses.                                        *)
Proposals == {p \in succ : RowOf(p).response = "good"}

ProposalFailures ==
  failedSlots \cup FailedNow \cup ({"proposal"} \X (succ \ Proposals))

ProposalsShort ==
  /\ StageReturns /\ stage = "proposal"
  /\ ~NamespaceLocked /\ ~QuorumMet(Proposals)
  /\ Finish(IF Proposals # {} /\ AllowPartial THEN "partial" ELSE "failed",
            ProposalFailures, NoAnswer)

(* Fault: a resume hears the juries again.                                 *)
JuryDecided_Never == FALSE

(* The juries are heard once: a locked verdict is loaded, not repeated.    *)
JuryDecided == AdjudicationLocked

(* A frozen membership must be recovered exactly, or the resume raises.    *)
ProposalsDone ==
  /\ StageReturns /\ stage = "proposal"
  /\ IF NamespaceLocked THEN Proposals = nsLock.members
                        ELSE QuorumMet(Proposals)
  /\ nsLock' = IF NamespaceLocked THEN nsLock
               ELSE [members |-> Proposals, failed |-> Provider \ Proposals]
  /\ IF JuryDecided
     THEN /\ pc' = "synth"
          /\ failedSlots' = ProposalFailures
                              \cup ({"jury"} \X adjLock.failed)
          /\ UNCHANGED <<stage, nested, passVars>>
     ELSE /\ EnterStage("jury", Provider)
          /\ failedSlots' = ProposalFailures
  /\ UNCHANGED <<storeVars, runStatus, result, adjLock, fallbacks, truncRec,
                 repairEvents, reservations, expired, pos, startPos, thread,
                 hisVars, bounds>>

(* _parse_and_repair_juries.                                               *)
JuryResponses == {p \in Provider : inv[<<"jury", p>>].status = "succeeded"}
InvalidJuries == {p \in JuryResponses : inv[<<"jury", p>>].response # "good"}
Repairable ==
  {p \in InvalidJuries : JuryRepair /\ inv[<<"jury", p>>].response = "bad"}
RepairRows == {p \in Provider : inv[<<"jury_repair", p>>].status # "none"}

(* Earlier repairs are always selected; new ones leave synthesis its calls *)
NewRepairCapacity == AtLeastZero(MaxCalls - count_calls - Len(Synth))

SelectRepairs ==
  /\ StageReturns /\ stage = "jury"
  /\ \E fresh \in SUBSET (Repairable \ RepairRows) :
       /\ IsFirst(fresh, Repairable \ RepairRows, NewRepairCapacity)
       /\ EnterStage("jury_repair", (Repairable \cap RepairRows) \cup fresh)
  /\ failedSlots' = failedSlots \cup FailedNow
  /\ UNCHANGED <<storeVars, runVars, reservations, expired, pos, startPos,
                 thread, hisVars, bounds>>

(* Fault: a repair counts without checking that it kept the decision.      *)
Repaired_Unchecked == succ

Repaired == {p \in succ : RowOf(p).response = "good"}

(* Fault: an unused repair attempt is recorded as final.                   *)
RepairAudit_Eager(p) ==
  IF p \notin InvalidJuries \/ ~JuryRepair THEN NoAudit
  ELSE IF p \in succ
  THEN Audit(IF p \in Repaired THEN "recovered" ELSE "failed", NoFailure)
  ELSE IF p \in RepairRows THEN Audit("failed", fail[p])
  ELSE Audit("not_attempted", fail[p])

(* The audit event of an invalid jury; none while its repair attempt is    *)
(* still unused, so that a later resume may make it.                       *)
RepairAudit(p) ==
  IF p \notin InvalidJuries \/ ~JuryRepair THEN NoAudit
  ELSE IF p \notin prompts
  THEN Audit("not_attempted",
             IF p \in Repairable THEN Unstored("budget") ELSE NoFailure)
  ELSE IF p \in succ
  THEN Audit(IF p \in Repaired THEN "recovered" ELSE "failed", NoFailure)
  ELSE IF p \in RepairRows THEN Audit("failed", fail[p]) ELSE NoAudit

RepairsDone ==
  /\ StageReturns /\ stage = "jury_repair"
  /\ pending' = [p \in Provider |-> RepairAudit(p)]
  /\ pc' = "adjudicate"
  /\ UNCHANGED <<storeVars, runVars, reservations, expired, stage, pos,
                 startPos, nested, failedSlots, prompts, prior, succ, fail,
                 recoverable, noted, thread, hisVars, bounds>>

(* _persist_jury_repair_event raises on a different earlier event.         *)
WriteRepair(p) ==
  /\ pc = "adjudicate" /\ FirstPending(p)
  /\ repairEvents[p] \in {NoAudit, pending[p]}
  /\ repairEvents' = [repairEvents EXCEPT ![p] = pending[p]]
  /\ pending' = [pending EXCEPT ![p] = NoAudit]
  /\ UNCHANGED <<storeVars, runStatus, result, nsLock, adjLock, fallbacks,
                 truncRec, reservations, ctlVars, prompts, prior, succ, fail,
                 recoverable, noted, thread, hisVars, bounds>>

ValidJuries == (JuryResponses \ InvalidJuries) \cup Repaired

JuryFailures == failedSlots \cup ({"jury"} \X (Provider \ ValidJuries))

JuriesShort ==
  /\ pc = "adjudicate" /\ NonePending
  /\ Cardinality(ValidJuries) < JuryQuorum
  /\ Finish("partial", JuryFailures, NoAnswer)

Adjudicate ==
  /\ pc = "adjudicate" /\ NonePending
  /\ Cardinality(ValidJuries) >= JuryQuorum
  /\ adjLock' = [valid   |-> ValidJuries,
                 invalid |-> InvalidJuries \ Repaired,
                 failed  |-> Provider \ ValidJuries]
  /\ failedSlots' = JuryFailures
  /\ pc' = "synth"
  /\ UNCHANGED <<storeVars, runStatus, result, nsLock, fallbacks, truncRec,
                 repairEvents, reservations, expired, stage, pos, startPos,
                 nested, passVars, thread, hisVars, bounds>>

(* The ordered synthesis attempts.                                         *)
AdvancedFailures == {<<"synthesis", Synth[i]>> : i \in 1 .. Len(fallbacks)}

Synthesizer == Synth[pos]

NextSynthesis ==
  /\ pc = "synth" /\ ~expired
  /\ EnterStage("synthesis", {Synthesizer})
  /\ failedSlots' = failedSlots \cup AdvancedFailures
  /\ UNCHANGED <<storeVars, runVars, reservations, expired, pos, startPos,
                 thread, hisVars, bounds>>

SynthesisTooLate ==
  /\ pc = "synth" /\ expired
  /\ Finish("partial", failedSlots \cup AdvancedFailures, NoAnswer)

SynthesisDone ==
  /\ StageReturns /\ stage = "synthesis" /\ Synthesizer \in succ
  /\ Finish("completed", failedSlots, Synthesizer)

SynthesisFallback ==
  /\ StageReturns /\ stage = "synthesis" /\ Synthesizer \notin succ
  /\ pos < Len(Synth) /\ ~expired
  /\ fallbacks' = Append(fallbacks, fail[Synthesizer])
  /\ pos' = pos + 1
  /\ pc' = "synth"
  /\ UNCHANGED <<storeVars, runStatus, result, nsLock, adjLock, truncRec,
                 repairEvents, reservations, expired, stage, startPos, nested,
                 failedSlots, passVars, thread, hisVars, bounds>>

SynthesisFails ==
  /\ StageReturns /\ stage = "synthesis" /\ Synthesizer \notin succ
  /\ pos = Len(Synth) \/ expired
  /\ Finish("partial", failedSlots \cup FailedNow, NoAnswer)

----------------------------------------------------------------------------
(* The specification.                                                      *)

WorkerStep(p) ==
  \/ StartTooLate(p) \/ StartCall(p) \/ ReserveCall(p)
  \/ CallTooLate(p) \/ CallProvider(p)

MainStep ==
  \/ BeginStage
  \/ \E p \in Provider :
       \/ MarkLost(p) \/ WriteRecovery(p) \/ WriteRepair(p)
       \/ SettleLease(p) \/ ReconcileFails(p)
       \/ SettleUnstarted(p) \/ SettleUndispatched(p) \/ SettleSuccess(p)
       \/ SettleTruncated(p) \/ SettleFailure(p)
  \/ StartRecovery \/ EndRecovery
  \/ ProposalsShort \/ ProposalsDone \/ SelectRepairs \/ RepairsDone
  \/ JuriesShort \/ Adjudicate
  \/ NextSynthesis \/ SynthesisTooLate \/ SynthesisDone
  \/ SynthesisFallback \/ SynthesisFails

EngineNext ==
  /\ UNCHANGED oversized
  /\ \/ Resume
     \/ MainStep
     \/ \E p \in Provider : WorkerStep(p)
     \/ Expire \/ Interrupt \/ Drained \/ Crash

EngineSpec == EngineInit /\ [][EngineNext]_vars

(* The operating system schedules the process and its threads, and a run   *)
(* that was cut short is resumed (by its operator, or by the service when  *)
(* it restarts).  Crashes, interrupts and the deadline owe nothing.        *)
EngineFairness ==
  /\ WF_vars(Resume /\ UNCHANGED oversized)
  /\ WF_vars(MainStep /\ UNCHANGED oversized)
  /\ WF_vars(Drained /\ UNCHANGED oversized)
  /\ \A p \in Provider : WF_vars(WorkerStep(p) /\ UNCHANGED oversized)

FairEngineSpec == EngineSpec /\ EngineFairness

----------------------------------------------------------------------------
(* Properties.                                                             *)

Outs == AllOutcomes \cup Undispatched \cup {"none"}
AuditStatus == {"none", "not_attempted", "not_dispatched", "recovered",
                "failed"}

EngineTypeOK ==
  /\ StoreTypeOK
  /\ runStatus \in {"created", "running", "completed", "partial", "failed"}
  /\ result \in [status : {"none", "completed", "partial", "failed"},
                 clean : BOOLEAN, answer : Provider \cup {NoAnswer}]
  /\ nsLock \in [members : SUBSET Provider, failed : SUBSET Provider]
  /\ adjLock \in [valid : SUBSET Provider, invalid : SUBSET Provider,
                  failed : SUBSET Provider]
  /\ fallbacks \in Seq(Failure)
  /\ truncRec \in [Slot -> SUBSET AuditStatus]
  /\ repairEvents \in [Provider -> [status : AuditStatus, cause : Failure]]
  /\ reservations \subseteq
       [slot : Slot, attempt : Nat,
        state : {"reserved", "reconciled", "released"}]
  /\ pc \in {"idle", "begin", "run", "draining", "adjudicate", "synth"}
  /\ stage \in Stages
  /\ pos \in 1 .. Len(Synth) /\ startPos \in 1 .. Len(Synth)
  /\ {expired, nested} \subseteq BOOLEAN
  /\ failedSlots \subseteq Slot
  /\ prompts \subseteq Provider /\ succ \subseteq Provider
  /\ recoverable \subseteq Provider /\ noted \subseteq Provider
  /\ prior \in [Provider -> Row]
  /\ fail \in [Provider -> Failure]
  /\ pending \in [Provider -> [status : AuditStatus, cause : Failure]]
  /\ thread \in [Provider ->
                   [at : {"idle", "queued", "started", "leased", "done",
                          "accounted"}, out : Outs]]
  /\ sent \subseteq Slot \X Nat
  /\ unresolved \subseteq Slot
  /\ resumes \in 0 .. MaxResumes + MaxCrashes
  /\ crashes \in 0 .. MaxCrashes

(* CallBudget: the calls on the books never exceed policy.max_calls, over  *)
(* all stages, retries, repairs, fallbacks and resumes, although each      *)
(* stage decides from one count how many threads it starts; and every call *)
(* that reached a provider is on the books of its slot.                    *)
CallBudget ==
  /\ count_calls <= MaxCalls
  /\ \A s \in Slot :
       Cardinality({a \in sent : a[1] = s}) <= inv[s].calls

(* SynthesisReserve: whatever proposals, juries, repairs, retries and      *)
(* earlier synthesis attempts consumed, in this process or a crashed one,  *)
(* a synthesis position reached for the first time still has a call left.  *)
SynthesisReserve ==
  pc = "begin" /\ stage = "synthesis" /\ ~nested
    /\ RowOf(Synthesizer).status = "none"
    => DispatchCapacity >= 1

(* NoBlindRedispatch: a provider is never called while an earlier call to  *)
(* it in this run was handed over without its outcome being stored: a call *)
(* lost in a crash, an interrupt, an ambiguous error or a failed           *)
(* reconciliation is never repeated, nor is its provider used again.       *)
NoBlindRedispatch ==
  [][\A s \in Slot :
       {a \in sent' : a[1] = s} # {a \in sent : a[1] = s}
         => \A t \in unresolved : t[2] # s[2]]_vars

(* ReservationFresh: a thread about to reserve presents an attempt number  *)
(* the gate has never seen for its slot, so REPLAY, which would fail the   *)
(* slot for good, never answers an honest retry.                           *)
ReservationFresh ==
  \A p \in Provider :
    thread[p].at = "started" =>
      \A r \in reservations :
        r.slot = SlotOf(p) => r.attempt < Attempt(SlotOf(p))

(* ChargedIfSent: the reservation under which a call was handed to its     *)
(* provider exists and is never given back, and one that still counts as   *)
(* in flight belongs to a slot that is running or in doubt: a definite     *)
(* outcome never leaves a reservation open.                                *)
ChargedIfSent ==
  /\ GateOn =>
       \A a \in sent :
         \E r \in reservations : /\ r.slot = a[1] /\ r.attempt = a[2]
                                 /\ r.state # "released"
  /\ \A r \in reservations :
       r.state = "reserved" => \/ inv[r.slot].status = "running"
                               \/ inv[r.slot].error = "ambiguous"

(* ResumeNeverWedged: whenever no process holds the run, the durable       *)
(* record passes every validator a resume applies, and the retry audit     *)
(* that every result is built from: no crash, interrupt or sequence of     *)
(* failures leaves a run that raises on each later resume.  The events a   *)
(* process is about to write agree with those already there.               *)
ResumeNeverWedged ==
  /\ FallbackStateOK /\ NamespaceOK /\ AdjudicationOK
  /\ RetriesAccounted
  /\ pc = "adjudicate" =>
       \A p \in Provider :
         pending[p] # NoAudit => repairEvents[p] \in {NoAudit, pending[p]}

(* PromptStable: a slot that is called again is called with the prompt it  *)
(* was created with (start_invocation raises otherwise), because the       *)
(* candidates and the verdict its prompt quotes are frozen before the      *)
(* first call that quotes them.                                            *)
PromptStable ==
  \A s \in Slot :
    inv[s].status # "none" => inv[s].prompt = PromptOf(s[1])

(* FrozenMembership: once the candidates are locked, exactly the locked    *)
(* ones can be recovered from the stored proposals by a later resume, and  *)
(* once the verdict is locked it is the one the stored juries and repairs  *)
(* give.                                                                   *)
FrozenMembership ==
  /\ NamespaceLocked =>
       \A p \in nsLock.members : inv[<<"proposal", p>>].response = "good"
  /\ AdjudicationLocked =>
       adjLock.valid = (JuryResponses \ InvalidJuries) \cup
                       {p \in InvalidJuries :
                          inv[<<"jury_repair", p>>].response = "good"}

(* StagesClose: after the verdict is locked no call of an earlier stage is *)
(* started, retried, settled or lost: only synthesis rows may change.      *)
StagesClose ==
  [][AdjudicationLocked =>
       /\ adjLock' = adjLock /\ nsLock' = nsLock
       /\ \A s \in Slot : s[1] # "synthesis" => inv'[s] = inv[s]]_vars

(* CleanMeansClean: a result called clean hides nothing.  Every provider   *)
(* proposed and judged at the first call, the first synthesis provider     *)
(* answered at the first call, nothing else was ever called or lost.       *)
CleanMeansClean ==
  result.clean =>
    /\ runStatus = "completed" /\ result.answer = Synth[1]
    /\ unresolved = {}
    /\ \A s \in Slot :
         IF s[1] \in {"proposal", "jury"} \/ s = <<"synthesis", Synth[1]>>
         THEN inv[s].response = "good" /\ inv[s].calls = 1
         ELSE inv[s] = NoRow

(* TruncationBounded: a slot is retried for truncation at most             *)
(* policy.truncation_retries times over all resumes, although the recovery *)
(* event is written only after the retry was made and a crash may lose it. *)
TruncationBounded ==
  \A s \in Slot : TruncationRetriesOf(s) <= TruncationRetries

(* RunConcludes: however often the process of a run is killed, interrupted *)
(* or overtaken by its deadline, resuming it ends in a terminal result: no *)
(* thread, audit event, recovery pass or validator leaves it stuck.        *)
RunConcludes ==
  <>[](pc = "idle" /\ runStatus \in {"completed", "partial", "failed"})

(* The engine implements the call ledger: a running row is an issued call, *)
(* an ambiguous failure a doubtful one.                                    *)
LedgerState ==
  [s \in Slot |-> IF inv[s].status = "running" THEN "issued"
                  ELSE IF inv[s].status = "succeeded" THEN "answered"
                  ELSE IF inv[s].error = "ambiguous" THEN "doubtful"
                  ELSE "free"]

Ledger == INSTANCE CallLedger WITH
  LedgerSlot <- Slot,
  Budget <- MaxCalls,
  state <- LedgerState,
  handed <- {s \in Slot : /\ inv[s].status = "running"
                          /\ <<s, Attempt(s)>> \in sent},
  booked <- count_calls

(* ImplementsLedger: every step of the engine, its threads, its crashes    *)
(* and its resumes is a step of the call ledger or leaves it unchanged.    *)
ImplementsLedger == Ledger!LedgerSpec

(* The engine's reservations as leases of its gate.                        *)
LeasesIn(state) ==
  {<<r.slot, r.attempt>> : r \in {q \in reservations : q.state = state}}

Leases == INSTANCE CallLeases WITH
  open <- LeasesIn("reserved"),
  charged <- LeasesIn("reconciled"),
  refunded <- LeasesIn("released"),
  used <- IF GateOn THEN sent ELSE {}

(* ImplementsLeases: whatever its threads, crashes and resumes do, the     *)
(* engine asks for each lease once and closes it once, makes one call at   *)
(* most under it, while it is open, and gives back only a lease under      *)
(* which no call was made.                                                 *)
ImplementsLeases == Leases!LeaseSpec

=============================================================================
