--------------------------- MODULE CouncilService ---------------------------
(***************************************************************************)
(* CouncilApplication of service.py: requests that create a run or repeat  *)
(* one, the bounded executor that resumes runs, the queue of recovered     *)
(* runs, close, crash and restart.                                         *)
(*                                                                         *)
(* A request holds the state lock from its first look at the binding until *)
(* it answers, so at most one is under way (req); its writes go to two     *)
(* sets of tables in separate transactions, and a crash, a failure or a    *)
(* worker may come between any two.  What happens under the lock without a *)
(* write in between is one step.  A refused request (queue full, another   *)
(* payload under the same key, disabled principal) changes nothing.        *)
(***************************************************************************)
EXTENDS Naturals, FiniteSets, Sequences

CONSTANTS Key,         \* idempotency keys, each of one principal
          OwnerOf,     \* key -> its principal
          MaxRun,      \* run ids are 1 .. MaxRun
          MaxWorkers, MaxQueue,
          MaxFaults,   \* bound on failing database calls and engine runs
          MaxStops,    \* bound on crashes and orderly stops
          NoKey        \* a run without a binding

Run == 1 .. MaxRun
Capacity == MaxWorkers + MaxQueue

ASSUME ServiceAssumption ==
  /\ MaxRun \in Nat /\ MaxFaults \in Nat /\ MaxStops \in Nat
  /\ MaxWorkers \in Nat \ {0} /\ MaxQueue \in Nat
  /\ NoKey \notin Key

VARIABLES
  \* Durable: the two stores and the marker file.
  boundTo,    \* service_run_bindings: run -> idempotency key
  status,     \* runs.status, "none" without a row
  marker,     \* the data directory is marked as the service's
  \* Volatile.
  up,         \* down, up or closing
  slots,      \* _slots: permits left of the semaphore
  scheduled,  \* _scheduled_run_ids
  pending,    \* _pending_recovery (and _pending_run_ids)
  fifo,       \* submitted to the executor, not started
  work,       \* what the worker that has the run is doing
  req,        \* the request that holds the state lock
  leaked,     \* permits lost by an exception in an exception handler
  lost,       \* runs whose failure this process could not record
  \* Counters for the bounds.
  faults, stops

durable  == <<boundTo, status, marker>>
volatile == <<up, slots, scheduled, pending, fifo, work, req, leaked, lost>>
serviceVars == <<durable, volatile, faults, stops>>

Status == {"none", "created", "queued", "running", "completed", "partial", "failed"}
Terminal == {"completed", "partial", "failed"}
NoReq == [run |-> 0, at |-> "none", repair |-> FALSE]
Bound == {r \in Run : boundTo[r] # NoKey}
Rows == {r \in Run : status[r] # "none"}

(* Fault: a run that failed is taken up again.                             *)
Nonterminal_Failed == {r \in Rows : status[r] \notin {"completed", "partial"}}

Nonterminal == {r \in Rows : status[r] \notin Terminal}

InQueue(queue) == {queue[i] : i \in 1 .. Len(queue)}
Working == {r \in Run : work[r] # "idle"}
LockFree == req = NoReq

----------------------------------------------------------------------------

(* _drain_pending_locked: submit recovered runs while there are permits.   *)
(* executor.submit raises only when the interpreter ends or has no threads *)
(* left to start; that failure is not modelled.                            *)
(* free: permits now; queue: what is pending now; taken: scheduled now.    *)
Drain(free, queue, taken) ==
  LET n == IF free < Len(queue) THEN free ELSE Len(queue)
      go == SubSeq(queue, 1, n)
  IN /\ slots' = free - n
     /\ pending' = SubSeq(queue, n + 1, Len(queue))
     /\ scheduled' = taken \cup InQueue(go)
     /\ fifo' = fifo \o go

(* create_run with a new key: a permit, then the binding.                  *)
BindRun(k, r) ==
  /\ up = "up" /\ LockFree
  /\ \A s \in Bound : boundTo[s] # k
  /\ slots > 0
  /\ r \notin Bound \cup Rows /\ \A s \in 1 .. r - 1 : s \in Bound \cup Rows
  /\ slots' = slots - 1
  /\ boundTo' = [boundTo EXCEPT ![r] = k]
  /\ req' = [run |-> r, at |-> "bound", repair |-> FALSE]
  /\ UNCHANGED <<status, marker, up, scheduled, pending, fifo, work, leaked,
                 lost, faults, stops>>

(* An exact repeat of a request whose run row was never written: the run   *)
(* is created under the id it was given.                                   *)
RepairRun(r) ==
  /\ up = "up" /\ LockFree
  /\ r \in Bound \ Rows
  /\ slots > 0
  /\ slots' = slots - 1
  /\ req' = [run |-> r, at |-> "bound", repair |-> TRUE]
  /\ UNCHANGED <<durable, up, scheduled, pending, fifo, work, leaked, lost,
                 faults, stops>>

(* Fault: a run that waits to be recovered is queued a second time.        *)
NeedsScheduling_Pending(r) == r \in Bound \cap Nonterminal /\ r \notin scheduled

NeedsScheduling(r) ==
  r \in Bound \cap Nonterminal /\ r \notin scheduled \cup InQueue(pending)

(* An exact repeat of a request whose run is there: _ensure_scheduled.     *)
ReplayRun(r) ==
  /\ up = "up" /\ LockFree
  /\ NeedsScheduling(r)
  /\ Drain(slots, Append(pending, r), scheduled)
  /\ lost' = lost \ {r}
  /\ UNCHANGED <<durable, up, work, req, leaked, faults, stops>>

CreateRow ==
  /\ req.at = "bound"
  /\ status' = [status EXCEPT ![req.run] = "created"]
  /\ req' = [req EXCEPT !.at = "row"]
  /\ UNCHANGED <<boundTo, marker, up, slots, scheduled, pending, fifo, work,
                 leaked, lost, faults, stops>>

SetQueued ==
  /\ req.at = "row"
  /\ status' = [status EXCEPT ![req.run] = "queued"]
  /\ req' = [req EXCEPT !.at = "queued"]
  /\ UNCHANGED <<boundTo, marker, up, slots, scheduled, pending, fifo, work,
                 leaked, lost, faults, stops>>

(* _submit_acquired; the event before it changes nothing that is kept.     *)
(* The branch for a run that is scheduled already is left out: Dispatched- *)
(* Once shows that it is never taken.                                      *)
Submit ==
  /\ req.at = "queued"
  /\ scheduled' = scheduled \cup {req.run}
  /\ fifo' = Append(fifo, req.run)
  /\ req' = NoReq
  /\ UNCHANGED <<durable, up, slots, pending, work, leaked, lost, faults, stops>>

(* Fault: the binding is dropped whether or not the run exists.            *)
AfterFailure_Abandon(r) ==
  /\ boundTo' = [boundTo EXCEPT ![r] = NoKey]
  /\ UNCHANGED <<status, lost>>

(* The handler of a new request that failed: without a row the binding is  *)
(* abandoned; a row is marked failed, and a failure to do that is ignored. *)
AfterFailure(r) ==
  \/ /\ r \notin Rows
     /\ boundTo' = [boundTo EXCEPT ![r] = NoKey]
     /\ UNCHANGED <<status, lost>>
  \/ /\ r \in Rows
     /\ status' = [status EXCEPT ![r] = "failed"]
     /\ UNCHANGED <<boundTo, lost>>
  \/ /\ r \in Rows
     /\ lost' = lost \cup {r}
     /\ UNCHANGED <<boundTo, status>>

(* Fault: the handler of a repair does not give the permit back.           *)
FreedByFailure_NotRepair == IF req.repair THEN slots ELSE slots + 1

(* Fault: the permit is given back by _submit_acquired and again by its    *)
(* caller.                                                                 *)
FreedByFailure_Twice == slots + 2

FreedByFailure == slots + 1

(* A database call of the request fails: its handler gives the permit back.*)
(* A repair leaves binding and row as they are.                            *)
RequestFails ==
  /\ ~LockFree /\ faults < MaxFaults
  /\ IF req.repair
     THEN /\ lost' = lost \cup ({req.run} \cap Rows)
          /\ UNCHANGED <<boundTo, status>>
     ELSE AfterFailure(req.run)
  /\ slots' = FreedByFailure
  /\ req' = NoReq
  /\ faults' = faults + 1
  /\ UNCHANGED <<marker, up, scheduled, pending, fifo, work, leaked, stops>>

(* A look of the handler's own at the stores fails too, the first or, with *)
(* the binding of a run without a row abandoned, the second: it leaves     *)
(* before the permit is given back.                                        *)
HandlerFails ==
  /\ ~LockFree /\ ~req.repair /\ faults + 1 < MaxFaults
  /\ \/ UNCHANGED boundTo
     \/ /\ req.run \notin Rows
        /\ boundTo' = [boundTo EXCEPT ![req.run] = NoKey]
  /\ leaked' = leaked + 1
  /\ lost' = lost \cup ({req.run} \cap Rows)
  /\ req' = NoReq
  /\ faults' = faults + 2
  /\ UNCHANGED <<status, marker, up, slots, scheduled, pending, fifo, work,
                 stops>>

----------------------------------------------------------------------------

(* A worker thread takes the next run and waits for its principal's lock.  *)
Take ==
  /\ fifo # <<>>
  /\ Cardinality(Working) < MaxWorkers
  /\ work' = [work EXCEPT ![Head(fifo)] = "waiting"]
  /\ fifo' = Tail(fifo)
  /\ UNCHANGED <<durable, up, slots, scheduled, pending, req, leaked, lost,
                 faults, stops>>

(* Fault: the lock is not per principal but per run.                       *)
MayExecute_Anyone(r) == TRUE

MayExecute(r) ==
  \A s \in Run : work[s] = "executing" => OwnerOf[boundTo[s]] # OwnerOf[boundTo[r]]

(* engine.resume: a completed run only returns its result.                 *)
Execute(r) ==
  /\ work[r] = "waiting" /\ MayExecute(r)
  /\ work' = [work EXCEPT ![r] = "executing"]
  /\ status' = IF status[r] = "completed" THEN status
               ELSE [status EXCEPT ![r] = "running"]
  /\ UNCHANGED <<boundTo, marker, up, slots, scheduled, pending, fifo, req,
                 leaked, lost, faults, stops>>

(* finish_run writes result and status in one transaction, as the engine's *)
(* last step.                                                              *)
Finish(r, outcome) ==
  /\ work[r] = "executing"
  /\ work' = [work EXCEPT ![r] = "done"]
  /\ status' = IF status[r] = "completed" THEN status
               ELSE [status EXCEPT ![r] = outcome]
  /\ UNCHANGED <<boundTo, marker, up, slots, scheduled, pending, fifo, req,
                 leaked, lost, faults, stops>>

(* engine.resume raises: the run is marked failed, if that can be written. *)
ExecutionFails(r) ==
  /\ work[r] = "executing" /\ faults < MaxFaults
  /\ work' = [work EXCEPT ![r] = "done"]
  /\ \/ status' = [status EXCEPT ![r] = "failed"] /\ UNCHANGED lost
     \/ lost' = lost \cup {r} /\ UNCHANGED status
  /\ faults' = faults + 1
  /\ UNCHANGED <<boundTo, marker, up, slots, scheduled, pending, fifo, req,
                 leaked, stops>>

(* Fault: the permit goes back, and nobody looks at the recovery queue.    *)
release_slot_NoDrain(r) ==
  /\ work[r] = "done" /\ LockFree
  /\ work' = [work EXCEPT ![r] = "idle"]
  /\ slots' = slots + 1 /\ scheduled' = scheduled \ {r}
  /\ UNCHANGED <<durable, up, pending, fifo, req, leaked, lost, faults, stops>>

(* The done callback, in the worker's thread, under the state lock.        *)
release_slot(r) ==
  /\ work[r] = "done" /\ LockFree
  /\ work' = [work EXCEPT ![r] = "idle"]
  /\ IF up = "up" THEN Drain(slots + 1, pending, scheduled \ {r})
     ELSE /\ slots' = slots + 1 /\ scheduled' = scheduled \ {r}
          /\ UNCHANGED <<pending, fifo>>
  /\ UNCHANGED <<durable, up, req, leaked, lost, faults, stops>>

----------------------------------------------------------------------------

Gone ==
  /\ up' = "down" /\ slots' = Capacity /\ scheduled' = {} /\ pending' = <<>>
  /\ fifo' = <<>> /\ work' = [r \in Run |-> "idle"] /\ req' = NoReq
  /\ leaked' = 0 /\ lost' = {}

(* close refuses new requests, then waits for every submitted run; what is *)
(* only pending is left to the next start.                                 *)
close ==
  /\ up = "up" /\ LockFree /\ stops < MaxStops
  /\ up' = "closing" /\ stops' = stops + 1
  /\ UNCHANGED <<durable, slots, scheduled, pending, fifo, work, req, leaked,
                 lost, faults>>

Closed ==
  /\ up = "closing" /\ fifo = <<>> /\ Working = {}
  /\ Gone
  /\ UNCHANGED <<durable, faults, stops>>

Crash ==
  /\ up # "down" /\ stops < MaxStops
  /\ Gone /\ stops' = stops + 1
  /\ UNCHANGED <<durable, faults>>

(* What the constructor insists on: a data directory with runs is marked   *)
(* as the service's, and every run in it has an owner.                     *)
MayStart == Rows \subseteq Bound /\ (Rows # {} => marker)

(* list_run_bindings returns the bindings in the order of their creation.  *)
InOrder(runs) ==
  {q \in [1 .. Cardinality(runs) -> runs] :
     \A i, j \in 1 .. Cardinality(runs) : i < j => q[i] < q[j]}

(* The constructor, and _recover_nonterminal_runs over the bindings: every *)
(* start is given the same principals, so that no binding is skipped.      *)
Start ==
  /\ up = "down" /\ MayStart
  /\ up' = "up" /\ marker' = TRUE
  /\ \E queue \in InOrder(Bound \cap Nonterminal) : Drain(slots, queue, {})
  /\ UNCHANGED <<boundTo, status, work, req, leaked, lost, faults, stops>>

----------------------------------------------------------------------------

ServiceInit ==
  /\ boundTo = [r \in Run |-> NoKey] /\ status = [r \in Run |-> "none"]
  /\ marker = FALSE
  /\ up = "down" /\ slots = Capacity /\ scheduled = {} /\ pending = <<>>
  /\ fifo = <<>> /\ work = [r \in Run |-> "idle"] /\ req = NoReq
  /\ leaked = 0 /\ lost = {} /\ faults = 0 /\ stops = 0

RequestStep == CreateRow \/ SetQueued \/ Submit

WorkerStep(r) ==
  \/ Execute(r) \/ release_slot(r)
  \/ \E outcome \in {"completed", "partial"} : Finish(r, outcome)

ServiceNext ==
  \/ \E r \in Run :
       \/ \E k \in Key : BindRun(k, r)
       \/ RepairRun(r) \/ ReplayRun(r)
       \/ WorkerStep(r) \/ ExecutionFails(r)
  \/ RequestStep \/ RequestFails \/ HandlerFails
  \/ Take \/ close \/ Closed \/ Crash \/ Start

ServiceSpec == ServiceInit /\ [][ServiceNext]_serviceVars

(* A request under way goes on, threads are scheduled, a service that is   *)
(* closing closes, and one that is down is started again.  No client is    *)
(* assumed to repeat a request.                                            *)
FairServiceSpec ==
  /\ ServiceSpec
  /\ WF_serviceVars(RequestStep) /\ WF_serviceVars(Take)
  /\ WF_serviceVars(Closed) /\ WF_serviceVars(Start)
  /\ \A r \in Run : WF_serviceVars(WorkerStep(r))

----------------------------------------------------------------------------

(* The type invariant.                                                     *)
ServiceTypeOK ==
  /\ boundTo \in [Run -> Key \cup {NoKey}]
  /\ status \in [Run -> Status] /\ marker \in BOOLEAN
  /\ up \in {"down", "up", "closing"}
  /\ slots \in 0 .. Capacity /\ leaked \in Nat
  /\ scheduled \subseteq Run /\ lost \subseteq Run
  /\ pending \in Seq(Run) /\ fifo \in Seq(Run)
  /\ work \in [Run -> {"idle", "waiting", "executing", "done"}]
  /\ req \in [run : Run, at : {"bound", "row", "queued"}, repair : BOOLEAN]
             \cup {NoReq}

(* SlotsConserved: every permit is with the semaphore, a scheduled run or  *)
(* the request under way, except those lost when a handler failed itself:  *)
(* no path returns a permit twice or keeps one, so the service neither     *)
(* exceeds its bound nor grinds to a halt.                                 *)
SlotsConserved ==
  slots + Cardinality(scheduled) + (IF LockFree THEN 0 ELSE 1) + leaked = Capacity

(* DispatchedOnce: a scheduled run is in exactly one place of the executor *)
(* and not pending; two runs of one principal never execute together.      *)
DispatchedOnce ==
  /\ Cardinality(InQueue(fifo)) = Len(fifo)
  /\ Cardinality(InQueue(pending)) = Len(pending)
  /\ scheduled = InQueue(fifo) \cup Working
  /\ InQueue(fifo) \cap Working = {}
  /\ InQueue(pending) \cap scheduled = {}
  /\ \A r, s \in Run : work[r] = "executing" /\ work[s] = "executing"
       /\ OwnerOf[boundTo[r]] = OwnerOf[boundTo[s]] => r = s

(* NeverLockedOut: whenever the service is down it may start again: no     *)
(* crash or failed request leaves a run without an owner, for which the    *)
(* constructor would refuse the data directory for good.                   *)
NeverLockedOut == up = "down" => MayStart

(* OutcomeFinal: the outcome a client may have been told stays: no         *)
(* recovery, replay or late failure handler takes up a finished run.       *)
OutcomeFinal ==
  [][\A r \in Run : status[r] \in Terminal => status'[r] = status[r]]_serviceVars

(* AcceptedConcludes: "Accepted nonterminal jobs are recovered after       *)
(* restart" (SECURITY.md:98): a run that was created reaches an outcome,   *)
(* unless this process failed to record its failure; the next one owes it  *)
(* the outcome again.                                                      *)
AcceptedConcludes ==
  \A r \in Run : r \in Nonterminal \ lost ~> status[r] \in Terminal \/ r \in lost

=============================================================================
