--------------------------- MODULE AgentInterface ---------------------------
(***************************************************************************)
(* The agent interface (agent.py) with the approvals of approval.py, the   *)
(* tables agent_requests, run_approvals and runs of store.py, the commands *)
(* of cli.py and the data directory's ServiceLock: separate processes that *)
(* look up a request, take the lock without waiting, spend an approval,    *)
(* create, bind and attach a run in one transaction each, execute it or    *)
(* leave it to a worker process, and may die between any two steps.        *)
(*                                                                         *)
(* A run stands for its question, providers and policy, which are what     *)
(* the payload of a request, the plan hash of an approval and the          *)
(* idempotency digest of a run are all computed from.                      *)
(***************************************************************************)
EXTENDS Naturals, FiniteSets

CONSTANTS Proc,        \* process slots
          RequestId,   \* request ids agents choose
          Key,         \* idempotency keys, a request id's own among them
          CommandKey,  \* those that users of the command line choose
          Payload,     \* question, selection and policy of a request
          Paid,        \* the payloads with a provider that is paid
          Token,       \* approval tokens
          MaxRun,      \* run ids are 1 .. MaxRun
          MaxCommands, \* bound on requests and commands received
          MaxCrashes,
          EngineMayRaise, \* whether engine.resume may end without a result
          None         \* no request id, token, run or process

Run == 1 .. MaxRun

ASSUME AgentAssumption ==
  /\ MaxRun \in Nat /\ MaxCommands \in Nat /\ MaxCrashes \in Nat
  /\ Paid \subseteq Payload /\ EngineMayRaise \in BOOLEAN
  /\ RequestId \subseteq Key /\ CommandKey \subseteq Key
  /\ None \notin Key \cup Token \cup Payload \cup Run \cup Proc

Action == {"run", "start"}

Job == [kind : Action \cup {"resume", "other"}, rid : RequestId \cup {None},
        key : Key \cup {None},
        payload : Payload \cup {None}, token : Token \cup {None},
        run : Run \cup {None},
        at : {"lookup", "lock", "consume", "engine", "create", "bind",
              "attach", "execute", "executing", "hold", "spawn"}]

(* No row and no job are told apart from every row and job.                *)
ASSUME NoneAssumption ==
  /\ None \notin Job
  /\ None \notin [payload : Payload, run : Run]
  /\ None \notin [payload : Paid, consumed : BOOLEAN, run : Run \cup {None}]

VARIABLES
  \* Durable: tables of the council database.
  runs,       \* run -> its payload and idempotency key, None without a row
  runStatus,  \* created, running or finished
  requests,   \* agent_requests: request id -> payload and run
  approvals,  \* run_approvals: token -> payload, consumed, run
  \* The lock, and what each process is doing.
  holder, job,
  workers,    \* runs whose `council resume` process has not begun yet
  \* History: replies with ok and a request id, runs the engine was started
  \* on, runs reported as running in the background, runs made with a token.
  replies, executed, reported, madeWith,
  commands, crashes

tables  == <<runs, runStatus, requests, approvals>>
history == <<replies, executed, reported, madeWith>>
agentVars == <<tables, holder, job, workers, history, commands, crashes>>

NoRun == [payload |-> None, key |-> None]
Row == {r \in Run : runs[r] # NoRun}

Goto(p, at) == job' = [job EXCEPT ![p].at = at]

(* The process ends, and with it its lock.                                 *)
End(p) ==
  /\ job' = [job EXCEPT ![p] = None]
  /\ holder' = IF holder = p THEN None ELSE holder

At(p, at) == job[p] # None /\ job[p].at = at

----------------------------------------------------------------------------

(* Fault: a plan that needs no approval is approved.                       *)
Approve_AnyPlan(t, payload) ==
  /\ holder = None
  /\ approvals[t] = None
  /\ approvals' = [approvals EXCEPT ![t] =
                     [payload |-> payload, consumed |-> FALSE, run |-> None]]
  /\ UNCHANGED <<runs, runStatus, requests, holder, job, workers, history,
                 commands, crashes>>

(* issue_token and record_run_approval, under the lock, by a human at a    *)
(* terminal; the nonce makes every token new.                              *)
Approve(t, payload) ==
  /\ holder = None
  /\ payload \in Paid /\ approvals[t] = None
  /\ approvals' = [approvals EXCEPT ![t] =
                     [payload |-> payload, consumed |-> FALSE, run |-> None]]
  /\ UNCHANGED <<runs, runStatus, requests, holder, job, workers, history,
                 commands, crashes>>

(* An agent's request run or start, whose idempotency key is "agent:<id>", *)
(* or `council run` of the command line, which takes the lock at once and  *)
(* may bring a key of its own, that of a request among them.               *)
Receive(p, kind, rid, key, payload, token) ==
  /\ job[p] = None /\ commands < MaxCommands
  /\ IF rid = None THEN key # None => kind = "run" /\ key \in CommandKey
                   ELSE key = rid
  /\ token # None => payload \in Paid /\ approvals[token] # None
  /\ job' = [job EXCEPT ![p] =
       [kind |-> kind, rid |-> rid, key |-> key, payload |-> payload,
        token |-> token,
        run |-> None, at |-> IF rid = None THEN "lock" ELSE "lookup"]]
  /\ commands' = commands + 1
  /\ UNCHANGED <<tables, holder, workers, history, crashes>>

(* `council resume` by hand, and any other command that takes the lock.    *)
Command(p, kind, r) ==
  /\ job[p] = None /\ commands < MaxCommands
  /\ kind = "resume" => r \in Row
  /\ job' = [job EXCEPT ![p] =
       [kind |-> kind, rid |-> None, key |-> None, payload |-> None,
        token |-> None, run |-> r, at |-> "lock"]]
  /\ commands' = commands + 1
  /\ UNCHANGED <<tables, holder, workers, history, crashes>>

WorkerBegins(p, r) ==
  /\ job[p] = None /\ r \in workers
  /\ job' = [job EXCEPT ![p] =
       [kind |-> "resume", rid |-> None, key |-> None, payload |-> None,
        token |-> None, run |-> r, at |-> "lock"]]
  /\ workers' = workers \ {r}
  /\ UNCHANGED <<tables, holder, history, commands, crashes>>

----------------------------------------------------------------------------

Reply(p, r) ==
  replies' = IF job[p].rid = None THEN replies
             ELSE replies \cup {[rid |-> job[p].rid, payload |-> job[p].payload,
                                 run |-> r]}

(* Fault: the payload is not compared.                                     *)
Replays_AnyPayload(p) == requests[job[p].rid] # None

Replays(p) ==
  /\ requests[job[p].rid] # None
  /\ requests[job[p].rid].payload = job[p].payload

(* get_agent_request, without the lock: replay, request_id_conflict, or    *)
(* go on to take the lock.                                                 *)
Lookup(p) ==
  /\ At(p, "lookup")
  /\ \/ /\ requests[job[p].rid] = None
        /\ Goto(p, "lock")
        /\ UNCHANGED <<holder, history>>
     \/ /\ requests[job[p].rid] # None
        /\ IF Replays(p) THEN Reply(p, requests[job[p].rid].run)
                         ELSE UNCHANGED replies
        /\ End(p)
        /\ UNCHANGED <<executed, reported, madeWith>>
  /\ UNCHANGED <<tables, workers, commands, crashes>>

AfterLock(j) ==
  CASE j.kind = "other"  -> "hold"
    [] j.kind = "resume" -> "execute"
    [] j.payload \in Paid -> "consume"
    [] OTHER             -> "engine"

(* ServiceLock.acquire: another owner is an error at once.                 *)
TakeLock(p) ==
  /\ At(p, "lock")
  /\ \/ /\ holder = None
        /\ holder' = p
        /\ Goto(p, AfterLock(job[p]))
     \/ /\ holder # None
        /\ End(p)
  /\ UNCHANGED <<tables, workers, history, commands, crashes>>

(* Any other command does its work and ends.                               *)
OtherEnds(p) ==
  /\ At(p, "hold")
  /\ End(p)
  /\ UNCHANGED <<tables, workers, history, commands, crashes>>

(* Fault: a token that was used is taken again.                            *)
Consumable_Used(t, payload) == t # None /\ approvals[t].payload = payload

Consumable(t, payload) ==
  t # None /\ approvals[t].payload = payload /\ ~approvals[t].consumed

(* verify_token and consume_run_approval; PermissionError otherwise.       *)
Consume(p) ==
  /\ At(p, "consume")
  /\ IF Consumable(job[p].token, job[p].payload)
     THEN /\ approvals' = [approvals EXCEPT ![job[p].token].consumed = TRUE]
          /\ Goto(p, "engine")
          /\ UNCHANGED holder
     ELSE /\ End(p)
          /\ UNCHANGED approvals
  /\ UNCHANGED <<runs, runStatus, requests, workers, history, commands, crashes>>

(* _engine resolves the providers' credentials, or raises.                 *)
MakeEngine(p) ==
  /\ At(p, "engine")
  /\ \/ Goto(p, "create") /\ UNCHANGED holder
     \/ job[p].payload \in Paid /\ End(p)
  /\ UNCHANGED <<tables, workers, history, commands, crashes>>

WithKey(key) == {r \in Row : key # None /\ runs[r].key = key}

AfterCreate(j) ==
  IF j.rid # None THEN "bind" ELSE IF j.payload \in Paid THEN "attach"
  ELSE IF j.kind = "run" THEN "execute" ELSE "spawn"

Created(p, r) ==
  /\ job' = [job EXCEPT ![p].run = r, ![p].at = AfterCreate(job[p])]
  /\ madeWith' = IF job[p].token = None THEN madeWith
                 ELSE madeWith \cup {<<job[p].token, r>>}
  /\ UNCHANGED holder

(* create_run with an idempotency key: an equal request gets the run that  *)
(* has the key, another one an error.                                      *)
CreateRun(p) ==
  /\ At(p, "create")
  /\ \/ \E r \in WithKey(job[p].key) :
          /\ IF runs[r].payload = job[p].payload THEN Created(p, r)
             ELSE End(p) /\ UNCHANGED madeWith
          /\ UNCHANGED <<runs, runStatus>>
     \/ /\ WithKey(job[p].key) = {}
        /\ \E r \in Run \ Row :
             /\ \A s \in 1 .. r - 1 : s \in Row
             /\ runs' = [runs EXCEPT ![r] = [payload |-> job[p].payload,
                                             key |-> job[p].key]]
             /\ runStatus' = [runStatus EXCEPT ![r] = "created"]
             /\ Created(p, r)
  /\ UNCHANGED <<requests, approvals, workers, replies, executed, reported,
                 commands, crashes>>

(* bind_agent_request is a plain INSERT: for an id that was bound since    *)
(* this process looked it up, it raises and the process ends.              *)
BindRequest(p) ==
  /\ At(p, "bind")
  /\ IF requests[job[p].rid] = None
     THEN /\ requests' = [requests EXCEPT ![job[p].rid] =
                            [payload |-> job[p].payload, run |-> job[p].run]]
          /\ Goto(p, AfterCreate([job[p] EXCEPT !.rid = None]))
          /\ UNCHANGED holder
     ELSE /\ End(p)
          /\ UNCHANGED requests
  /\ UNCHANGED <<runs, runStatus, approvals, workers, history, commands, crashes>>

AfterAttach(j) == IF j.kind = "run" THEN "execute" ELSE "spawn"

AttachApproval(p) ==
  /\ At(p, "attach")
  /\ approvals' = [approvals EXCEPT ![job[p].token].run =
                     IF @ = None THEN job[p].run ELSE @]
  /\ Goto(p, AfterAttach(job[p]))
  /\ UNCHANGED <<runs, runStatus, requests, holder, workers, history, commands,
                 crashes>>

run_approval_for(r) == {t \in Token : approvals[t] # None /\ approvals[t].run = r
                                      /\ approvals[t].consumed}

(* `council resume` refuses a paid run without an approval; the process    *)
(* that has just created the run does not ask again.                       *)
MayExecute(p) ==
  job[p].kind = "resume" /\ runs[job[p].run].payload \in Paid
    => run_approval_for(job[p].run) # {}

Execute(p) ==
  /\ At(p, "execute")
  /\ IF MayExecute(p)
     THEN /\ executed' = executed \cup {job[p].run}
          /\ runStatus' = [runStatus EXCEPT ![job[p].run] =
                             IF @ = "finished" THEN @ ELSE "running"]
          /\ Goto(p, "executing")
          /\ UNCHANGED holder
     ELSE /\ End(p)
          /\ UNCHANGED <<executed, runStatus>>
  /\ UNCHANGED <<runs, requests, approvals, workers, replies, reported,
                 madeWith, commands, crashes>>

(* engine.resume returns with a result, or raises.                         *)
Executed(p, ok) ==
  /\ At(p, "executing")
  /\ ok \/ EngineMayRaise
  /\ runStatus' = [runStatus EXCEPT ![job[p].run] = IF ok THEN "finished" ELSE @]
  /\ IF ok /\ job[p].kind = "run" THEN Reply(p, job[p].run) ELSE UNCHANGED replies
  /\ End(p)
  /\ UNCHANGED <<runs, requests, approvals, workers, executed, reported,
                 madeWith, commands, crashes>>

(* `start` releases the lock, then spawns the worker and replies.          *)
ReleaseForWorker(p) ==
  /\ At(p, "spawn") /\ holder = p
  /\ holder' = None
  /\ UNCHANGED <<tables, job, workers, history, commands, crashes>>

SpawnWorker(p) ==
  /\ At(p, "spawn") /\ holder # p
  /\ workers' = workers \cup {job[p].run}
  /\ reported' = reported \cup {job[p].run}
  /\ Reply(p, job[p].run)
  /\ job' = [job EXCEPT ![p] = None]
  /\ UNCHANGED <<tables, holder, executed, madeWith, commands, crashes>>

(* The log file or the process cannot be made: the lock is free, the run   *)
(* is there, and the request ends with an error.                           *)
SpawnFails(p) ==
  /\ At(p, "spawn") /\ holder # p
  /\ End(p)
  /\ UNCHANGED <<tables, workers, history, commands, crashes>>

Crash(p) ==
  /\ job[p] # None /\ crashes < MaxCrashes
  /\ End(p)
  /\ crashes' = crashes + 1
  /\ UNCHANGED <<tables, workers, history, commands>>

----------------------------------------------------------------------------

AgentInit ==
  /\ runs = [r \in Run |-> NoRun] /\ runStatus = [r \in Run |-> "created"]
  /\ requests = [i \in RequestId |-> None]
  /\ approvals = [t \in Token |-> None]
  /\ holder = None /\ job = [p \in Proc |-> None] /\ workers = {}
  /\ replies = {} /\ executed = {} /\ reported = {} /\ madeWith = {}
  /\ commands = 0 /\ crashes = 0

AgentNext ==
  \/ \E t \in Token, payload \in Payload : Approve(t, payload)
  \/ \E p \in Proc :
       \/ \E kind \in Action, rid \in RequestId \cup {None},
             key \in Key \cup {None}, payload \in Payload,
             t \in Token \cup {None} :
            Receive(p, kind, rid, key, payload, t)
       \/ \E r \in Run : Command(p, "resume", r) \/ WorkerBegins(p, r)
       \/ Command(p, "other", None)
       \/ Lookup(p) \/ TakeLock(p) \/ OtherEnds(p) \/ Consume(p)
       \/ MakeEngine(p) \/ CreateRun(p) \/ BindRequest(p) \/ AttachApproval(p)
       \/ Execute(p) \/ \E ok \in BOOLEAN : Executed(p, ok)
       \/ ReleaseForWorker(p) \/ SpawnWorker(p) \/ SpawnFails(p)
       \/ Crash(p)

AgentSpec == AgentInit /\ [][AgentNext]_agentVars

----------------------------------------------------------------------------

(* The type invariant.                                                     *)
AgentTypeOK ==
  /\ runs \in [Run -> [payload : Payload, key : Key \cup {None}] \cup {NoRun}]
  /\ runStatus \in [Run -> {"created", "running", "finished"}]
  /\ requests \in [RequestId -> [payload : Payload, run : Run] \cup {None}]
  /\ approvals \in [Token -> [payload : Paid, consumed : BOOLEAN,
                              run : Run \cup {None}] \cup {None}]
  /\ holder \in Proc \cup {None}
  /\ job \in [Proc -> Job \cup {None}]
  /\ workers \subseteq Run
  /\ executed \subseteq Row /\ reported \subseteq Row

(* PaidOnlyApproved: a paid run was only ever executed with an approval of *)
(* its own payload attached to it, and no token was used to make two runs, *)
(* in every order of run, start, resume, crash and retry.                  *)
PaidOnlyApproved ==
  /\ \A r \in executed : runs[r].payload \in Paid =>
       \E t \in run_approval_for(r) : approvals[t].payload = runs[r].payload
  /\ \A x, y \in madeWith : x[1] = y[1] => x[2] = y[2]

(* OneRunPerRequest: whatever races or crashes, all that a request id is   *)
(* ever answered is one run of one payload, the run it is bound to, and no *)
(* second run is created for its key, by whatever command.                 *)
OneRunPerRequest ==
  /\ \A k \in Key : Cardinality(WithKey(k)) <= 1
  /\ \A x \in replies : requests[x.rid] = [payload |-> x.payload, run |-> x.run]
                        /\ runs[x.run] = [payload |-> x.payload, key |-> x.rid]

(* ReportedIsInProgress: of a run that was started "in the background"     *)
(* (agent.py:452) and has no result, status says "Run in progress; poll    *)
(* the status action" (agent.py:257): a process of it is there or coming.  *)
ReportedIsInProgress ==
  \A r \in reported :
    \/ runStatus[r] = "finished"
    \/ r \in workers
    \/ \E p \in Proc : job[p] # None /\ job[p].run = r

(* RetriesReturnTheRun: "A retry with the same id and the same payload     *)
(* returns the existing run [...] and it doesn't need a fresh approval     *)
(* token" (docs/AGENT-INTERFACE.md:64): once there is such a run, neither  *)
(* the approval (agent.py:162-163) nor the binding (agent.py:167) ends the *)
(* request with an error.                                                  *)
RetriesReturnTheRun ==
  [][\A p \in Proc :
       /\ At(p, "consume") \/ At(p, "bind")
       /\ \E r \in WithKey(job[p].rid) : runs[r].payload = job[p].payload
       /\ crashes' = crashes
       => job'[p] # None]_agentVars

=============================================================================
