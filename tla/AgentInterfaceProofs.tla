------------------------ MODULE AgentInterfaceProofs ------------------------
(***************************************************************************)
(* Proofs about the agent interface, for any number of processes, request  *)
(* ids, payloads, tokens, runs, commands and crashes.  AgentInv says what  *)
(* each process under way has done to the tables: which approval it has    *)
(* spent, which run it made, and that it holds the lock while it does so.  *)
(***************************************************************************)
EXTENDS AgentInterface, TLAPS, FiniteSetTheorems

(* Where a process holds the lock.                                         *)
Locked == {"consume", "engine", "create", "bind", "attach", "execute",
           "executing", "hold"}

(* The points of a request before its run is there, and from then on.      *)
BeforeRun == {"lookup", "lock", "consume", "engine", "create"}
AfterRun  == {"bind", "attach", "execute", "executing", "spawn"}

(* Where a paid request has spent its approval and not attached it yet.    *)
Spending == {"engine", "create", "bind", "attach"}

LockOK ==
  \A p \in Proc : job[p] # None /\ job[p].at \in Locked => holder = p

(* What a request under way has found and made.                            *)
RequestJob(j) ==
  /\ j.payload \in Payload /\ j.at \in BeforeRun \cup AfterRun
  /\ j.at \in {"lookup", "bind"} => j.rid # None
  /\ j.at \in {"consume", "attach"} => j.payload \in Paid
  /\ j.at \in {"execute", "executing"} => j.kind = "run"
  /\ j.token # None => j.payload \in Paid /\ approvals[j.token] # None
  /\ j.at \in AfterRun =>
       /\ j.run \in Row
       /\ runs[j.run] = [payload |-> j.payload, key |-> j.key]
  /\ j.rid # None => j.key = j.rid
  /\ j.at \in AfterRun \ {"bind"} /\ j.rid # None =>
       requests[j.rid] = [payload |-> j.payload, run |-> j.run]

Spent(t, payload) ==
  /\ t \in Token /\ approvals[t] # None
  /\ approvals[t].payload = payload /\ approvals[t].consumed

(* A paid request has an approval of its own, which it attaches to its run *)
(* before it executes it.                                                  *)
ApprovedJob(j) ==
  j.payload \in Paid =>
    /\ j.at \in Spending => Spent(j.token, j.payload) /\ approvals[j.token].run = None
    /\ j.at \in {"engine", "create"} => \A x \in madeWith : x[1] # j.token
    /\ j.at \in {"execute", "executing"} =>
         Spent(j.token, j.payload) /\ approvals[j.token].run = j.run

JobOK(j) ==
  /\ j.kind \in Action => RequestJob(j) /\ ApprovedJob(j)
  /\ j.kind = "resume" => j.at \in {"lock", "execute", "executing"} /\ j.run \in Row
  /\ j.kind = "other" => j.at \in {"lock", "hold"}
  /\ j.kind \in {"resume", "other"} => j.payload = None

Jobs == {job[p] : p \in Proc} \ {None}

JobsOK == \A j \in Jobs : JobOK(j)

RequestsBound ==
  \A i \in RequestId : requests[i] # None =>
    runs[requests[i].run] = [payload |-> requests[i].payload, key |-> i]

KeysUnique ==
  \A r, s \in Row : runs[r].key # None /\ runs[r].key = runs[s].key => r = s

ApprovalsFit ==
  \A t \in Token : approvals[t] # None /\ approvals[t].run # None =>
    /\ approvals[t].run \in Row /\ approvals[t].consumed
    /\ runs[approvals[t].run].payload = approvals[t].payload

TokensSpent ==
  /\ \A x \in madeWith :
       x[1] \in Token /\ approvals[x[1]] # None /\ approvals[x[1]].consumed
  /\ \A x, y \in madeWith : x[1] = y[1] => x[2] = y[2]

ExecutedApproved ==
  \A r \in executed : runs[r].payload \in Paid =>
    \E t \in Token : Spent(t, runs[r].payload) /\ approvals[t].run = r

RepliesBound ==
  \A x \in replies :
    /\ x.rid \in RequestId /\ x.run \in Row
    /\ requests[x.rid] = [payload |-> x.payload, run |-> x.run]
    /\ runs[x.run] = [payload |-> x.payload, key |-> x.rid]

TablesOK ==
  /\ RequestsBound /\ KeysUnique /\ ApprovalsFit
  /\ TokensSpent /\ ExecutedApproved /\ RepliesBound
  /\ workers \subseteq Row

AgentInv == AgentTypeOK /\ LockOK /\ JobsOK /\ TablesOK

----------------------------------------------------------------------------

(* No row, request or approval is undone; a stored approval only becomes   *)
(* consumed and attached.                                                  *)
Grows ==
  /\ \A r \in Row : r \in Row' /\ runs'[r] = runs[r]
  /\ \A i \in RequestId : requests[i] # None => requests'[i] = requests[i]
  /\ \A t \in Token : approvals[t] # None =>
       /\ approvals'[t] # None /\ approvals'[t].payload = approvals[t].payload
       /\ approvals[t].consumed => approvals'[t].consumed
       /\ approvals[t].run # None => approvals'[t].run = approvals[t].run

(* The types of a request's fields, where it uses them.                    *)
LEMMA JobFields ==
  ASSUME AgentTypeOK, NEW j \in Job
  PROVE  /\ j.kind \in Action \cup {"resume", "other"}
         /\ j.rid # None => j.rid \in RequestId
         /\ j.key # None => j.key \in Key
         /\ j.token # None => j.token \in Token
         /\ j.run # None => j.run \in Run
  BY DEF Job

(* What a job that does not move keeps, when the tables grow and nobody    *)
(* touches the approval it has spent.                                      *)
LEMMA JobKept ==
  ASSUME AgentTypeOK, NEW j \in Job, JobOK(j), Grows,
         \/ UNCHANGED <<approvals, madeWith>>
         \/ j.at \notin Locked
         \/ /\ UNCHANGED madeWith
            /\ \A t \in Token : approvals[t] # None => approvals'[t] = approvals[t]
  PROVE  JobOK(j)'
  <1>1. CASE j.kind \in Action
    <2>1. RequestJob(j) /\ ApprovedJob(j)
      BY <1>1 DEF JobOK
    <2>2. RequestJob(j)'
      <3>1. j.token # None => approvals'[j.token] # None
        BY <2>1, JobFields DEF RequestJob, Grows
      <3>2. j.at \in AfterRun => j.run \in Row' /\ runs'[j.run] = runs[j.run]
        BY <2>1 DEF RequestJob, Grows
      <3>3. j.at \in AfterRun \ {"bind"} /\ j.rid # None =>
              requests'[j.rid] = [payload |-> j.payload, run |-> j.run]
        <4> SUFFICES ASSUME j.at \in AfterRun \ {"bind"}, j.rid # None
                     PROVE  requests'[j.rid] = [payload |-> j.payload, run |-> j.run]
          OBVIOUS
        <4>1. /\ requests[j.rid] = [payload |-> j.payload, run |-> j.run]
              /\ j.payload \in Payload /\ j.run \in Run /\ j.rid \in RequestId
          BY <2>1, JobFields DEF RequestJob, Row
        <4>2. requests[j.rid] # None
          BY <4>1, NoneAssumption
        <4> QED BY <4>1, <4>2 DEF Grows
      <3> QED BY <2>1, <3>1, <3>2, <3>3 DEF RequestJob
    <2>3. ApprovedJob(j)'
      <3>1. CASE UNCHANGED <<approvals, madeWith>>
        BY <3>1, <2>1 DEF ApprovedJob, Spent
      <3>2. CASE j.at \notin Locked
        BY <3>2 DEF ApprovedJob, Locked, Spending
      <3>3. CASE /\ UNCHANGED madeWith
                 /\ \A t \in Token : approvals[t] # None => approvals'[t] = approvals[t]
        BY <3>3, <2>1 DEF ApprovedJob, Spent
      <3> QED BY <3>1, <3>2, <3>3
    <2> QED BY <1>1, <2>2, <2>3 DEF JobOK, Action
  <1>2. CASE j.kind \in {"resume", "other"}
    BY <1>2 DEF JobOK, Action, Grows
  <1> QED BY <1>1, <1>2, JobFields

(* A process that moves to the job "new", or to none.                      *)
Moves(p, new) ==
  /\ job' = [job EXCEPT ![p] = new]
  /\ new # None => /\ new \in Job /\ JobOK(new)'
                   /\ new.at \in Locked => holder' = p
  /\ holder' \in Proc \cup {None}
  /\ holder' = holder \/ holder \in {p, None}
  /\ Grows
  /\ UNCHANGED <<approvals, madeWith>> \/ holder = p

(* What the move of one process preserves: the others keep what they had,  *)
(* and only the holder of the lock touches approvals.                      *)
LEMMA ProcessMoves ==
  ASSUME AgentInv, NEW p \in Proc, NEW new, Moves(p, new)
  PROVE  job' \in [Proc -> Job \cup {None}] /\ LockOK' /\ JobsOK'
  <1>1. job \in [Proc -> Job \cup {None}] /\ None \notin Job
    BY NoneAssumption DEF AgentInv, AgentTypeOK
  <1>2. job' \in [Proc -> Job \cup {None}]
    BY <1>1 DEF Moves
  <1>3. \A q \in Proc : job'[q] = IF q = p THEN new ELSE job[q]
    BY <1>1 DEF Moves
  <1>4. p \notin {None}
    BY AgentAssumption
  <1>5. LockOK'
    <2> SUFFICES ASSUME NEW q \in Proc, job'[q] # None, job'[q].at \in Locked
                 PROVE  holder' = q
      BY DEF LockOK
    <2>1. CASE q = p
      BY <2>1, <1>3 DEF Moves
    <2>2. CASE q # p
      <3>1. holder = q
        BY <2>2, <1>3 DEF AgentInv, LockOK
      <3>2. q # None
        BY AgentAssumption
      <3> QED BY <2>2, <3>1, <3>2 DEF Moves
    <2> QED BY <2>1, <2>2
  <1>6. JobsOK'
    <2> SUFFICES ASSUME NEW j \in Jobs'
                 PROVE  JobOK(j)'
      BY DEF JobsOK
    <2>1. PICK q \in Proc : j = job'[q]
      BY DEF Jobs
    <2>2. j # None
      BY DEF Jobs
    <2>3. CASE q = p
      BY <2>1, <2>2, <2>3, <1>3 DEF Moves
    <2>4. CASE q # p
      <3>1. j = job[q]
        BY <2>1, <2>4, <1>3
      <3>2. j \in Jobs /\ j \in Job
        BY <2>2, <3>1, <1>1 DEF Jobs
      <3>3. JobOK(j)
        BY <3>2 DEF AgentInv, JobsOK
      <3>4. holder = p => j.at \notin Locked
        BY <2>2, <2>4, <3>1 DEF AgentInv, LockOK
      <3>5. AgentTypeOK /\ Grows
        BY DEF AgentInv, Moves
      <3>6. UNCHANGED <<approvals, madeWith>> \/ j.at \notin Locked
        BY <3>4 DEF Moves
      <3> QED BY <3>2, <3>3, <3>5, <3>6, JobKept
    <2> QED BY <2>3, <2>4
  <1> QED BY <1>2, <1>5, <1>6

(* What is known of a process that has a job.                              *)
LEMMA TheJob ==
  ASSUME AgentInv, NEW p \in Proc, job[p] # None
  PROVE  /\ job[p] \in Job /\ JobOK(job[p])
         /\ job[p].at \in Locked => holder = p
  BY DEF AgentInv, AgentTypeOK, JobsOK, Jobs, LockOK

(* What a reply to a request must agree with.                              *)
ReplyOK(x) ==
  /\ x.rid \in RequestId /\ x.run \in Row
  /\ requests[x.rid] = [payload |-> x.payload, run |-> x.run]
  /\ runs[x.run] = [payload |-> x.payload, key |-> x.rid]

(* The approval that executing a run needs.                                *)
Approved(r) ==
  runs[r].payload \in Paid =>
    \E t \in Token : Spent(t, runs[r].payload) /\ approvals[t].run = r

(* A move that leaves rows, requests and approvals alone.                  *)
LEMMA MoveAlone ==
  ASSUME AgentInv, NEW p \in Proc, NEW new, Moves(p, new),
         UNCHANGED <<runs, requests, approvals, madeWith>>,
         runStatus' \in [Run -> {"created", "running", "finished"}],
         workers' \subseteq Row, reported' \subseteq Row, executed' \subseteq Row,
         \A x \in replies' \ replies : ReplyOK(x),
         \A r \in executed' \ executed : Approved(r)
  PROVE  AgentInv'
  <1>1. job' \in [Proc -> Job \cup {None}] /\ LockOK' /\ JobsOK'
    BY ProcessMoves
  <1>2. AgentTypeOK'
    BY <1>1 DEF Moves, AgentInv, AgentTypeOK, Row
  <1>3. RequestsBound' /\ KeysUnique'
    BY DEF AgentInv, TablesOK, RequestsBound, KeysUnique, Row
  <1>4. ApprovalsFit' /\ TokensSpent'
    BY DEF AgentInv, TablesOK, ApprovalsFit, TokensSpent, Row
  <1>5. ExecutedApproved'
    BY DEF AgentInv, TablesOK, ExecutedApproved, Approved, Spent
  <1>6. RepliesBound'
    BY DEF AgentInv, TablesOK, RepliesBound, ReplyOK, Row
  <1>7. workers' \subseteq Row'
    BY DEF Row
  <1> QED BY <1>1, <1>2, <1>3, <1>4, <1>5, <1>6, <1>7 DEF AgentInv, TablesOK

(* A move that leaves the tables and the history alone.                    *)
LEMMA QuietMove ==
  ASSUME AgentInv, NEW p \in Proc, NEW new, Moves(p, new),
         UNCHANGED <<tables, history>>, workers' \subseteq workers
  PROVE  AgentInv'
  <1>1. /\ runStatus \in [Run -> {"created", "running", "finished"}]
        /\ executed \subseteq Row /\ reported \subseteq Row /\ workers \subseteq Row
    BY DEF AgentInv, AgentTypeOK, TablesOK
  <1> QED BY <1>1, MoveAlone DEF tables, history

(* Nothing grows when nothing changes.                                     *)
LEMMA SameTables ==
  ASSUME UNCHANGED tables
  PROVE  Grows
  BY DEF tables, Grows, Row

(* A process that ends, however it ends, gives its lock back.              *)
LEMMA EndMoves ==
  ASSUME AgentInv, NEW p \in Proc, End(p), Grows,
         UNCHANGED <<approvals, madeWith>> \/ holder = p
  PROVE  Moves(p, None)
  BY DEF End, Moves, AgentInv, AgentTypeOK

(* A process goes on, or takes the lock, without a change to the tables.   *)
LEMMA QuietGoto ==
  ASSUME AgentInv, NEW p \in Proc, NEW new \in Job, JobOK(new),
         job' = [job EXCEPT ![p] = new],
         new.at \in Locked => holder' = p,
         holder' = holder \/ (holder = None /\ holder' = p),
         UNCHANGED <<tables, history>>, workers' \subseteq workers
  PROVE  AgentInv'
  <1>1. JobOK(new)'
    BY DEF JobOK, RequestJob, ApprovedJob, Spent, Row, tables, history
  <1>2. Grows /\ UNCHANGED <<approvals, madeWith>>
    BY SameTables DEF tables, history
  <1>3. Moves(p, new)
    BY <1>1, <1>2 DEF Moves, AgentInv, AgentTypeOK
  <1> QED BY <1>3, QuietMove

(* Commands arrive, the lock is taken or refused, and processes end,       *)
(* without a change to the tables.                                         *)
LEMMA QuietPreserves ==
  ASSUME AgentInv, NEW p \in Proc,
         \/ \E kind \in Action, rid \in RequestId \cup {None},
               key \in Key \cup {None}, payload \in Payload,
               t \in Token \cup {None} :
              Receive(p, kind, rid, key, payload, t)
         \/ \E r \in Run : Command(p, "resume", r) \/ WorkerBegins(p, r)
         \/ Command(p, "other", None)
         \/ TakeLock(p) \/ OtherEnds(p) \/ MakeEngine(p) \/ ReleaseForWorker(p)
         \/ SpawnFails(p) \/ Crash(p)
  PROVE  AgentInv'
  <1> USE DEF AgentInv, history
  <1>1. ASSUME NEW new \in Job, JobOK(new), job' = [job EXCEPT ![p] = new],
               new.at \in Locked => holder' = p,
               holder' = holder \/ (holder = None /\ holder' = p),
               UNCHANGED <<tables, history>>, workers' \subseteq workers
        PROVE  AgentInv'
    BY <1>1, QuietGoto
  <1>2. ASSUME End(p), UNCHANGED <<tables, history>>, workers' \subseteq workers
        PROVE  AgentInv'
    <2>1. Moves(p, None)
      BY <1>2, SameTables, EndMoves DEF tables
    <2> QED BY <1>2, <2>1, QuietMove
  <1>3. ASSUME NEW kind \in Action, NEW rid \in RequestId \cup {None},
               NEW key \in Key \cup {None}, NEW payload \in Payload,
               NEW t \in Token \cup {None}, Receive(p, kind, rid, key, payload, t)
        PROVE  AgentInv'
    <2> DEFINE new == [kind |-> kind, rid |-> rid, key |-> key,
                       payload |-> payload, token |-> t,
                       run |-> None, at |-> IF rid = None THEN "lock" ELSE "lookup"]
    <2>1. new \in Job
      BY DEF Job
    <2>2. JobOK(new) /\ new.at \notin Locked
      BY <1>3 DEF Receive, JobOK, RequestJob, ApprovedJob, BeforeRun, AfterRun,
                  Spending, Locked, Action
    <2>3. job' = [job EXCEPT ![p] = new]
      BY <1>3 DEF Receive
    <2> HIDE DEF new
    <2> QED BY <1>1, <1>3, <2>1, <2>2, <2>3 DEF Receive
  <1>4. ASSUME NEW kind \in {"resume", "other"}, NEW r \in Run \cup {None},
               kind = "resume" => r \in Row,
               job' = [job EXCEPT ![p] = [kind |-> kind, rid |-> None, key |-> None,
                                          payload |-> None, token |-> None,
                                          run |-> r, at |-> "lock"]],
               UNCHANGED <<tables, holder, history>>, workers' \subseteq workers
        PROVE  AgentInv'
    <2> DEFINE new == [kind |-> kind, rid |-> None, key |-> None,
                       payload |-> None, token |-> None, run |-> r, at |-> "lock"]
    <2>1. new \in Job
      BY DEF Job
    <2>2. JobOK(new) /\ new.at \notin Locked
      BY <1>4 DEF JobOK, Locked, Action
    <2>3. job' = [job EXCEPT ![p] = new]
      BY <1>4
    <2> HIDE DEF new
    <2> QED BY <1>1, <1>4, <2>1, <2>2, <2>3
  <1>5. ASSUME NEW r \in Run, Command(p, "resume", r) \/ WorkerBegins(p, r)
        PROVE  AgentInv'
    BY <1>4, <1>5 DEF Command, WorkerBegins, TablesOK
  <1>6. CASE Command(p, "other", None)
    BY <1>4, <1>6 DEF Command
  <1>7. CASE TakeLock(p)
    <2>1. CASE End(p)
      BY <1>2, <1>7, <2>1 DEF TakeLock
    <2>2. CASE holder = None /\ holder' = p /\ Goto(p, AfterLock(job[p]))
      <3>1. PICK j \in Job : j = job[p] /\ JobOK(j) /\ j.at = "lock"
        BY <1>7, TheJob DEF TakeLock, At
      <3> DEFINE new == [j EXCEPT !.at = AfterLock(j)]
      <3>2. /\ AfterLock(j) \in {"hold", "execute", "consume", "engine"}
            /\ j.kind = "other" => AfterLock(j) = "hold"
            /\ j.kind = "resume" => AfterLock(j) = "execute"
            /\ j.kind \in Action =>
                 AfterLock(j) = IF j.payload \in Paid THEN "consume" ELSE "engine"
        <4>0. j.kind \in {"resume", "other"} => j.payload \notin Paid
          BY <3>1, AgentAssumption DEF JobOK
        <4>1. CASE j.kind = "other"
          BY <4>0, <4>1 DEF AfterLock, Action
        <4>2. CASE j.kind = "resume"
          BY <4>0, <4>2 DEF AfterLock, Action
        <4>3. CASE j.kind \in Action /\ j.payload \in Paid
          BY <4>3 DEF AfterLock, Action
        <4>4. CASE j.kind \in Action /\ j.payload \notin Paid
          BY <4>4 DEF AfterLock, Action
        <4> QED BY <4>1, <4>2, <4>3, <4>4, JobFields
      <3>3. new \in Job
        BY <3>2 DEF Job
      <3>4. JobOK(new)
        <4>1. /\ new.kind = j.kind /\ new.rid = j.rid /\ new.key = j.key
              /\ new.payload = j.payload /\ new.token = j.token
              /\ new.run = j.run /\ new.at = AfterLock(j)
          BY DEF Job
        <4> HIDE DEF new
        <4>2. CASE j.kind \in Action
          <5>1. RequestJob(j) /\ j.at = "lock"
            BY <3>1, <4>2 DEF JobOK
          <5>2. RequestJob(new)
            BY <5>1, <3>2, <4>1, <4>2 DEF RequestJob, BeforeRun, AfterRun
          <5>3. ApprovedJob(new)
            BY <3>2, <4>1, <4>2 DEF ApprovedJob, Spending
          <5> QED BY <4>1, <4>2, <5>2, <5>3 DEF JobOK, Action
        <4>3. CASE j.kind \in {"resume", "other"}
          BY <3>1, <3>2, <4>1, <4>3 DEF JobOK, Action
        <4> QED BY <4>2, <4>3, JobFields
      <3>5. job' = [job EXCEPT ![p] = new]
        BY <3>1, <2>2 DEF Goto, AgentTypeOK
      <3> HIDE DEF new
      <3> QED BY <1>1, <1>7, <2>2, <3>3, <3>4, <3>5 DEF TakeLock
    <2> QED BY <1>7, <2>1, <2>2 DEF TakeLock
  <1>8. CASE OtherEnds(p)
    BY <1>2, <1>8 DEF OtherEnds
  <1>9. CASE MakeEngine(p)
    <2>1. CASE End(p)
      BY <1>2, <1>9, <2>1 DEF MakeEngine
    <2>2. CASE Goto(p, "create") /\ UNCHANGED holder
      <3>1. PICK j \in Job : /\ j = job[p] /\ JobOK(j) /\ j.at = "engine"
                             /\ holder = p
        BY <1>9, TheJob DEF MakeEngine, At, Locked
      <3> DEFINE new == [j EXCEPT !.at = "create"]
      <3>2. new \in Job
        BY DEF Job
      <3>3. JobOK(new)
        BY <3>1 DEF JobOK, RequestJob, ApprovedJob, BeforeRun, AfterRun, Spending, Job
      <3>4. job' = [job EXCEPT ![p] = new]
        BY <3>1, <2>2 DEF Goto, AgentTypeOK
      <3> HIDE DEF new
      <3> QED BY <1>1, <1>9, <2>2, <3>1, <3>2, <3>3, <3>4 DEF MakeEngine
    <2> QED BY <1>9, <2>1, <2>2 DEF MakeEngine
  <1>10. CASE ReleaseForWorker(p)
    <2>1. PICK j \in Job : j = job[p] /\ JobOK(j) /\ j.at = "spawn"
      BY <1>10, TheJob DEF ReleaseForWorker, At
    <2>2. JobOK(j)'
      BY <1>10, <2>1 DEF ReleaseForWorker, JobOK, RequestJob, ApprovedJob, Spent, Row, tables
    <2>3. Grows
      BY <1>10, SameTables DEF ReleaseForWorker
    <2>4. Moves(p, j)
      BY <1>10, <2>1, <2>2, <2>3 DEF ReleaseForWorker, Moves, Locked, tables, AgentTypeOK
    <2> QED BY <1>10, <2>4, QuietMove DEF ReleaseForWorker
  <1>11. CASE Crash(p)
    BY <1>2, <1>11 DEF Crash
  <1>12. CASE SpawnFails(p)
    BY <1>2, <1>12 DEF SpawnFails
  <1> QED BY <1>3, <1>5, <1>6, <1>7, <1>8, <1>9, <1>10, <1>11, <1>12

(* The request of a process that has one.                                  *)
LEMMA TheRequest ==
  ASSUME AgentInv, NEW p \in Proc, job[p] # None,
         job[p].at \in BeforeRun \cup AfterRun, job[p].at # "lock",
         job[p].at \notin {"execute", "executing"}
  PROVE  /\ job[p] \in Job /\ job[p].kind \in Action
         /\ RequestJob(job[p]) /\ ApprovedJob(job[p])
         /\ job[p].at \in Locked => holder = p
  <1>1. job[p].kind \in Action
    BY TheJob, JobFields DEF JobOK, BeforeRun, AfterRun, AgentInv
  <1> QED BY <1>1, TheJob DEF JobOK

(* get_agent_request: a replay is answered with the run of the request.    *)
LEMMA LookupPreserves ==
  ASSUME AgentInv, NEW p \in Proc, Lookup(p)
  PROVE  AgentInv'
  <1>1. PICK j \in Job : /\ j = job[p] /\ j.kind \in Action /\ j.at = "lookup"
                         /\ RequestJob(j) /\ j.rid \in RequestId
    BY TheRequest, JobFields DEF Lookup, At, RequestJob, BeforeRun, AgentInv
  <1>2. UNCHANGED <<tables, workers, commands, crashes>>
    BY DEF Lookup
  <1>3. CASE Goto(p, "lock") /\ UNCHANGED <<holder, history>>
    <2> DEFINE new == [j EXCEPT !.at = "lock"]
    <2>1. new \in Job
      BY DEF Job
    <2>2. JobOK(new) /\ new.at \notin Locked
      BY <1>1 DEF JobOK, RequestJob, ApprovedJob, BeforeRun, AfterRun, Spending,
                  Job, Action, Locked
    <2>3. job' = [job EXCEPT ![p] = new]
      BY <1>1, <1>3 DEF Goto, AgentInv, AgentTypeOK
    <2> HIDE DEF new
    <2> QED BY <1>2, <1>3, <2>1, <2>2, <2>3, QuietGoto
  <1>4. CASE /\ requests[j.rid] # None /\ End(p)
             /\ IF Replays(p) THEN Reply(p, requests[j.rid].run) ELSE UNCHANGED replies
             /\ UNCHANGED <<executed, reported, madeWith>>
    <2>1. Grows /\ UNCHANGED <<runs, requests, approvals, madeWith>>
      BY <1>2, <1>4, SameTables DEF tables
    <2>2. Moves(p, None)
      BY <1>4, <2>1, EndMoves
    <2>3. \A x \in replies' \ replies : ReplyOK(x)
      <3> SUFFICES ASSUME NEW x \in replies' \ replies
                   PROVE  ReplyOK(x)
        OBVIOUS
      <3>1. /\ requests[j.rid].payload = j.payload
            /\ x = [rid |-> j.rid, payload |-> j.payload, run |-> requests[j.rid].run]
        BY <1>1, <1>4 DEF Replays, Reply
      <3>2. /\ requests[j.rid] \in [payload : Payload, run : Run]
            /\ runs[requests[j.rid].run] = [payload |-> requests[j.rid].payload,
                                            key |-> j.rid]
        BY <1>1, <1>4 DEF AgentInv, AgentTypeOK, TablesOK, RequestsBound
      <3>3. requests[j.rid].run \in Row
        <4>1. runs[requests[j.rid].run] # NoRun
          BY <1>1, <3>2, AgentAssumption DEF NoRun
        <4> QED BY <3>2, <4>1 DEF Row
      <3> QED BY <1>1, <3>1, <3>2, <3>3 DEF ReplyOK
    <2>4. /\ runStatus' \in [Run -> {"created", "running", "finished"}]
          /\ workers' \subseteq Row /\ reported' \subseteq Row /\ executed' \subseteq Row
          /\ executed' = executed
      BY <1>2, <1>4 DEF tables, AgentInv, AgentTypeOK, TablesOK
    <2> QED BY <2>1, <2>2, <2>3, <2>4, MoveAlone
  <1> QED BY <1>1, <1>3, <1>4 DEF Lookup

(* What a change to the approvals that undoes none of them preserves.      *)
LEMMA ApprovalsMove ==
  ASSUME AgentInv, Grows, ApprovalsFit',
         UNCHANGED <<runs, requests, workers, history>>
  PROVE  TablesOK'
  <1>1. RequestsBound' /\ KeysUnique'
    BY DEF AgentInv, TablesOK, RequestsBound, KeysUnique, Row
  <1>2. TokensSpent'
    BY DEF AgentInv, TablesOK, TokensSpent, Grows, history
  <1>3. ExecutedApproved'
    <2> SUFFICES ASSUME NEW r \in executed, runs[r].payload \in Paid
                 PROVE  \E t \in Token : /\ Spent(t, runs[r].payload)'
                                         /\ approvals'[t].run = r
      BY DEF ExecutedApproved, history
    <2>1. PICK t \in Token : Spent(t, runs[r].payload) /\ approvals[t].run = r
      BY DEF AgentInv, TablesOK, ExecutedApproved
    <2>2. r # None
      BY AgentAssumption DEF AgentInv, AgentTypeOK, Row
    <2> QED BY <2>1, <2>2 DEF Spent, Grows
  <1>4. RepliesBound' /\ workers' \subseteq Row'
    BY DEF AgentInv, TablesOK, RepliesBound, Row, history
  <1> QED BY <1>1, <1>2, <1>3, <1>4 DEF TablesOK

(* record_run_approval stores an approval that nobody has yet.             *)
LEMMA ApprovePreserves ==
  ASSUME AgentInv, NEW t \in Token, NEW payload \in Payload, Approve(t, payload)
  PROVE  AgentInv'
  <1> DEFINE new == [payload |-> payload, consumed |-> FALSE, run |-> None]
  <1>1. /\ approvals \in [Token -> [payload : Paid, consumed : BOOLEAN,
                                    run : Run \cup {None}] \cup {None}]
        /\ new \in [payload : Paid, consumed : BOOLEAN, run : Run \cup {None}]
        /\ approvals' = [approvals EXCEPT ![t] = new] /\ approvals[t] = None
        /\ UNCHANGED <<runs, runStatus, requests, holder, job, workers, history>>
    BY DEF Approve, AgentInv, AgentTypeOK
  <1>2. /\ \A u \in Token : u # t => approvals'[u] = approvals[u]
        /\ new.run = None /\ approvals'[t] = new
    BY <1>1
  <1> HIDE DEF new
  <1>3. Grows
    BY <1>1, <1>2 DEF Grows, Row
  <1>4. AgentTypeOK'
    BY <1>1 DEF AgentInv, AgentTypeOK, Row, history
  <1>5. ApprovalsFit'
    BY <1>1, <1>2 DEF AgentInv, TablesOK, ApprovalsFit, Row
  <1>6. TablesOK'
    BY <1>1, <1>3, <1>5, ApprovalsMove
  <1>7. LockOK'
    BY <1>1 DEF AgentInv, LockOK
  <1>8. JobsOK'
    <2> SUFFICES ASSUME NEW j \in Jobs
                 PROVE  JobOK(j)'
      BY <1>1 DEF JobsOK, Jobs
    <2>1. j \in Job /\ JobOK(j)
      BY DEF Jobs, AgentInv, AgentTypeOK, JobsOK
    <2>2. /\ UNCHANGED madeWith
          /\ \A u \in Token : approvals[u] # None => approvals'[u] = approvals[u]
      BY <1>1, <1>2 DEF history
    <2> QED BY <1>3, <2>1, <2>2, JobKept DEF AgentInv
  <1> QED BY <1>4, <1>6, <1>7, <1>8 DEF AgentInv

(* consume_run_approval: an approval is spent by the holder of the lock,   *)
(* once, and no run was made with it before.                               *)
LEMMA ConsumePreserves ==
  ASSUME AgentInv, NEW p \in Proc, Consume(p)
  PROVE  AgentInv'
  <1>1. PICK j \in Job : /\ j = job[p] /\ j.kind \in Action /\ j.at = "consume"
                         /\ RequestJob(j) /\ holder = p /\ j.payload \in Paid
    BY TheRequest DEF Consume, At, RequestJob, BeforeRun, Locked
  <1>2. UNCHANGED <<runs, runStatus, requests, workers, history, commands, crashes>>
    BY DEF Consume
  <1>3. CASE ~Consumable(j.token, j.payload)
    <2>1. End(p) /\ UNCHANGED <<tables, history, workers>>
      BY <1>1, <1>2, <1>3 DEF Consume, tables
    <2>2. Moves(p, None)
      BY <2>1, <1>1, SameTables, EndMoves
    <2> QED BY <2>1, <2>2, QuietMove
  <1>4. CASE Consumable(j.token, j.payload)
    <2> DEFINE t   == j.token
               new == [j EXCEPT !.at = "engine"]
    <2>1. /\ approvals' = [approvals EXCEPT ![t].consumed = TRUE]
          /\ Goto(p, "engine") /\ UNCHANGED holder
      BY <1>1, <1>4 DEF Consume
    <2>2. /\ t \in Token /\ approvals[t] # None
          /\ approvals[t].payload = j.payload /\ ~approvals[t].consumed
      BY <1>1, <1>4, JobFields DEF Consumable, RequestJob, AgentInv
    <2>3. /\ approvals \in [Token -> [payload : Paid, consumed : BOOLEAN,
                                      run : Run \cup {None}] \cup {None}]
          /\ approvals[t] \in [payload : Paid, consumed : BOOLEAN,
                               run : Run \cup {None}]
      BY <2>2 DEF AgentInv, AgentTypeOK
    <2>4. /\ \A u \in Token : u # t => approvals'[u] = approvals[u]
          /\ approvals'[t] = [approvals[t] EXCEPT !.consumed = TRUE]
      BY <2>1, <2>2, <2>3
    <2>5. /\ approvals'[t] \in [payload : Paid, consumed : BOOLEAN,
                                run : Run \cup {None}]
          /\ approvals'[t] # None /\ approvals'[t].consumed
          /\ approvals'[t].payload = j.payload
          /\ approvals'[t].run = approvals[t].run
      BY <2>2, <2>3, <2>4, NoneAssumption
    <2>6. approvals[t].run = None
      BY <2>2 DEF AgentInv, TablesOK, ApprovalsFit
    <2>7. Grows
      BY <1>2, <2>2, <2>4, <2>5 DEF Grows, Row
    <2>8. ApprovalsFit'
      BY <1>2, <2>4, <2>5, <2>6 DEF AgentInv, TablesOK, ApprovalsFit, Row
    <2>9. new \in Job
      BY DEF Job
    <2>10. JobOK(new)'
      <3>1. /\ new.kind = j.kind /\ new.rid = j.rid /\ new.key = j.key
            /\ new.payload = j.payload /\ new.token = j.token
            /\ new.run = j.run /\ new.at = "engine"
        BY DEF Job
      <3>2. RequestJob(new)'
        BY <1>1, <3>1, <2>5 DEF RequestJob, BeforeRun, AfterRun
      <3>3. \A x \in madeWith' : x[1] # t
        BY <1>2, <2>2 DEF AgentInv, TablesOK, TokensSpent, history
      <3>4. ApprovedJob(new)'
        BY <3>1, <3>3, <2>2, <2>5, <2>6 DEF ApprovedJob, Spent
      <3> QED BY <1>1, <3>1, <3>2, <3>4 DEF JobOK, Action
    <2>11. job' = [job EXCEPT ![p] = new]
      BY <1>1, <2>1 DEF Goto, AgentInv, AgentTypeOK
    <2> HIDE DEF new
    <2>12. Moves(p, new)
      BY <1>1, <2>1, <2>7, <2>9, <2>10, <2>11 DEF Moves, AgentInv, AgentTypeOK
    <2>13. job' \in [Proc -> Job \cup {None}] /\ LockOK' /\ JobsOK'
      BY <2>12, ProcessMoves
    <2>14. approvals' \in [Token -> [payload : Paid, consumed : BOOLEAN,
                                     run : Run \cup {None}] \cup {None}]
      BY <2>1, <2>3, <2>4, <2>5
    <2>15. AgentTypeOK'
      BY <1>2, <2>1, <2>13, <2>14 DEF AgentInv, AgentTypeOK, Row, history
    <2>16. TablesOK'
      BY <1>2, <2>7, <2>8, ApprovalsMove
    <2> QED BY <2>13, <2>15, <2>16 DEF AgentInv
  <1> QED BY <1>3, <1>4

(* attach_run_approval: the run gets the approval its process has spent.   *)
LEMMA AttachPreserves ==
  ASSUME AgentInv, NEW p \in Proc, AttachApproval(p)
  PROVE  AgentInv'
  <1>1. PICK j \in Job : /\ j = job[p] /\ j.kind \in Action /\ j.at = "attach"
                         /\ RequestJob(j) /\ ApprovedJob(j) /\ holder = p
    BY TheRequest DEF AttachApproval, At, AfterRun, Locked
  <1> DEFINE t   == j.token
             new == [j EXCEPT !.at = AfterAttach(j)]
  <1>2. UNCHANGED <<runs, runStatus, requests, holder, workers, history>>
    BY DEF AttachApproval
  <1>3. /\ j.payload \in Paid /\ Spent(t, j.payload) /\ approvals[t].run = None
        /\ t \in Token /\ j.run \in Row /\ j.run \in Run
        /\ runs[j.run] = [payload |-> j.payload, key |-> j.key]
    BY <1>1 DEF RequestJob, ApprovedJob, AfterRun, Spending, Spent, Row
  <1>4. /\ approvals \in [Token -> [payload : Paid, consumed : BOOLEAN,
                                    run : Run \cup {None}] \cup {None}]
        /\ approvals[t] \in [payload : Paid, consumed : BOOLEAN,
                             run : Run \cup {None}]
    BY <1>3 DEF AgentInv, AgentTypeOK, Spent
  <1>5. approvals' = [approvals EXCEPT ![t].run = j.run]
    BY <1>1, <1>3, <1>4 DEF AttachApproval
  <1>6. /\ \A u \in Token : u # t => approvals'[u] = approvals[u]
        /\ approvals'[t] = [approvals[t] EXCEPT !.run = j.run]
    BY <1>3, <1>4, <1>5
  <1>7. /\ approvals'[t] \in [payload : Paid, consumed : BOOLEAN,
                              run : Run \cup {None}]
        /\ approvals'[t] # None /\ approvals'[t].consumed
        /\ approvals'[t].payload = j.payload /\ approvals'[t].run = j.run
    BY <1>3, <1>4, <1>6, NoneAssumption DEF Spent
  <1>8. Grows
    BY <1>2, <1>3, <1>6, <1>7 DEF Grows, Row, Spent
  <1>9. ApprovalsFit'
    <2> SUFFICES ASSUME NEW u \in Token, approvals'[u] # None, approvals'[u].run # None
                 PROVE  /\ approvals'[u].run \in Row /\ approvals'[u].consumed
                        /\ runs[approvals'[u].run].payload = approvals'[u].payload
      BY <1>2 DEF ApprovalsFit, Row
    <2>1. CASE u = t
      BY <2>1, <1>3, <1>7
    <2>2. CASE u # t
      BY <2>2, <1>6 DEF AgentInv, TablesOK, ApprovalsFit
    <2> QED BY <2>1, <2>2
  <1>10. new \in Job
    BY <1>1 DEF Job, AfterAttach
  <1>11. JobOK(new)'
    <2>1. /\ new.kind = j.kind /\ new.rid = j.rid /\ new.key = j.key
          /\ new.payload = j.payload /\ new.token = j.token /\ new.run = j.run
          /\ new.at = IF j.kind = "run" THEN "execute" ELSE "spawn"
      BY DEF Job, AfterAttach
    <2>2. RequestJob(new)'
      BY <1>1, <1>2, <1>3, <1>7, <2>1 DEF RequestJob, BeforeRun, AfterRun, Row
    <2>3. ApprovedJob(new)'
      BY <1>3, <1>7, <2>1 DEF ApprovedJob, Spent, Spending
    <2> QED BY <1>1, <2>1, <2>2, <2>3 DEF JobOK, Action
  <1>12. job' = [job EXCEPT ![p] = new]
    BY <1>1 DEF AttachApproval, Goto, AgentInv, AgentTypeOK
  <1> HIDE DEF new
  <1>13. Moves(p, new)
    BY <1>1, <1>2, <1>8, <1>10, <1>11, <1>12 DEF Moves, AgentInv, AgentTypeOK
  <1>14. job' \in [Proc -> Job \cup {None}] /\ LockOK' /\ JobsOK'
    BY <1>13, ProcessMoves
  <1>15. approvals' \in [Token -> [payload : Paid, consumed : BOOLEAN,
                                   run : Run \cup {None}] \cup {None}]
    BY <1>4, <1>5, <1>6, <1>7
  <1>16. AgentTypeOK'
    BY <1>2, <1>14, <1>15 DEF AgentInv, AgentTypeOK, Row, history
  <1>17. TablesOK'
    BY <1>2, <1>8, <1>9, ApprovalsMove
  <1> QED BY <1>14, <1>16, <1>17 DEF AgentInv

(* A row is told from no row by its payload.                               *)
LEMMA RowIsRun ==
  ASSUME AgentInv, NEW r \in Run, NEW payload \in Payload, NEW key,
         runs[r] = [payload |-> payload, key |-> key]
  PROVE  r \in Row
  BY AgentAssumption DEF Row, NoRun

(* What new rows preserve.                                                 *)
LEMMA RunsMove ==
  ASSUME AgentInv, Grows, KeysUnique', TokensSpent',
         UNCHANGED <<requests, approvals, workers, replies, executed>>
  PROVE  TablesOK'
  <1>1. RequestsBound'
    <2> SUFFICES ASSUME NEW i \in RequestId, requests[i] # None
                 PROVE  runs'[requests[i].run] = [payload |-> requests[i].payload,
                                                  key |-> i]
      BY DEF RequestsBound
    <2>1. /\ requests[i] \in [payload : Payload, run : Run]
          /\ runs[requests[i].run] = [payload |-> requests[i].payload, key |-> i]
      BY DEF AgentInv, AgentTypeOK, TablesOK, RequestsBound
    <2>2. requests[i].run \in Row
      BY <2>1, RowIsRun
    <2> QED BY <2>1, <2>2 DEF Grows
  <1>2. ApprovalsFit'
    BY DEF AgentInv, TablesOK, ApprovalsFit, Grows
  <1>3. ExecutedApproved'
    BY DEF AgentInv, AgentTypeOK, TablesOK, ExecutedApproved, Grows, Spent
  <1>4. RepliesBound' /\ workers' \subseteq Row'
    BY DEF AgentInv, TablesOK, RepliesBound, Grows
  <1> QED BY <1>1, <1>2, <1>3, <1>4 DEF TablesOK

(* bind_agent_request: an id that is free is bound to the run made for it. *)
LEMMA BindPreserves ==
  ASSUME AgentInv, NEW p \in Proc, BindRequest(p)
  PROVE  AgentInv'
  <1>1. PICK j \in Job : /\ j = job[p] /\ j.kind \in Action /\ j.at = "bind"
                         /\ RequestJob(j) /\ ApprovedJob(j) /\ holder = p
                         /\ j.rid \in RequestId
    BY TheRequest, JobFields DEF BindRequest, At, AfterRun, Locked, RequestJob, AgentInv
  <1>2. UNCHANGED <<runs, runStatus, approvals, workers, history>>
    BY DEF BindRequest
  <1>3. CASE requests[j.rid] # None
    <2>1. End(p) /\ UNCHANGED <<tables, history, workers>>
      BY <1>1, <1>2, <1>3 DEF BindRequest, tables
    <2>2. Moves(p, None)
      BY <2>1, <1>1, SameTables, EndMoves
    <2> QED BY <2>1, <2>2, QuietMove
  <1>4. CASE requests[j.rid] = None
    <2> DEFINE row == [payload |-> j.payload, run |-> j.run]
               at  == AfterCreate([j EXCEPT !.rid = None])
               new == [j EXCEPT !.at = at]
    <2>1. /\ requests' = [requests EXCEPT ![j.rid] = row]
          /\ Goto(p, at) /\ UNCHANGED holder
      BY <1>1, <1>4 DEF BindRequest
    <2>2. /\ j.payload \in Payload /\ j.run \in Row /\ j.run \in Run
          /\ runs[j.run] = [payload |-> j.payload, key |-> j.rid]
      BY <1>1 DEF RequestJob, AfterRun, Row
    <2>3. /\ requests \in [RequestId -> [payload : Payload, run : Run] \cup {None}]
          /\ row \in [payload : Payload, run : Run]
          /\ row.payload = j.payload /\ row.run = j.run
      BY <2>2 DEF AgentInv, AgentTypeOK
    <2>4. /\ requests'[j.rid] = row
          /\ \A i \in RequestId : i # j.rid => requests'[i] = requests[i]
      BY <1>1, <2>1, <2>3
    <2>5. at = IF j.payload \in Paid THEN "attach"
               ELSE IF j.kind = "run" THEN "execute" ELSE "spawn"
      BY DEF AfterCreate, Job
    <2>6. new \in Job
      BY <2>5 DEF Job
    <2>7. JobOK(new)'
      <3>1. /\ new.kind = j.kind /\ new.rid = j.rid /\ new.key = j.key
            /\ new.payload = j.payload /\ new.token = j.token
            /\ new.run = j.run /\ new.at = at
        BY DEF Job
      <3>2. RequestJob(new)'
        BY <1>1, <1>2, <2>2, <2>4, <2>5, <3>1
           DEF RequestJob, BeforeRun, AfterRun, Row
      <3>3. ApprovedJob(new)'
        BY <1>1, <1>2, <2>5, <3>1 DEF ApprovedJob, Spent, Spending
      <3> QED BY <1>1, <3>1, <3>2, <3>3 DEF JobOK, Action
    <2>8. job' = [job EXCEPT ![p] = new]
      BY <1>1, <2>1 DEF Goto, AgentInv, AgentTypeOK
    <2> HIDE DEF new, at, row
    <2>9. Grows
      BY <1>2, <1>4, <2>4 DEF Grows, Row
    <2>10. Moves(p, new)
      BY <1>1, <2>1, <2>6, <2>7, <2>8, <2>9 DEF Moves, AgentInv, AgentTypeOK
    <2>11. job' \in [Proc -> Job \cup {None}] /\ LockOK' /\ JobsOK'
      BY <2>10, ProcessMoves
    <2>12. requests' \in [RequestId -> [payload : Payload, run : Run] \cup {None}]
      BY <2>1, <2>3
    <2>13. AgentTypeOK'
      BY <1>2, <2>1, <2>11, <2>12 DEF AgentInv, AgentTypeOK, Row, history
    <2>14. RequestsBound'
      BY <1>2, <2>2, <2>3, <2>4 DEF AgentInv, TablesOK, RequestsBound
    <2>15. RepliesBound'
      <3> SUFFICES ASSUME NEW x \in replies
                   PROVE  requests'[x.rid] = requests[x.rid] /\ x.rid \in RequestId
        BY <1>2 DEF AgentInv, TablesOK, RepliesBound, Row, history
      <3>1. /\ x.rid \in RequestId /\ x.run \in Run
            /\ requests[x.rid] = [payload |-> x.payload, run |-> x.run]
            /\ runs[x.run] = [payload |-> x.payload, key |-> x.rid]
            /\ x.run \in Row
        BY DEF AgentInv, TablesOK, RepliesBound, Row
      <3>2. requests[x.rid] # None
        <4>1. runs[x.run].payload \in Payload
          BY <3>1 DEF AgentInv, AgentTypeOK, Row
        <4> QED BY <3>1, <4>1, NoneAssumption
      <3> QED BY <3>1, <3>2, <1>4, <2>4
    <2>16. KeysUnique' /\ ApprovalsFit' /\ TokensSpent'
      BY <1>2 DEF AgentInv, TablesOK, KeysUnique, ApprovalsFit, TokensSpent, Row, history
    <2>17. ExecutedApproved' /\ workers' \subseteq Row'
      BY <1>2 DEF AgentInv, TablesOK, ExecutedApproved, Spent, Row, history
    <2> QED BY <2>11, <2>13, <2>14, <2>15, <2>16, <2>17 DEF AgentInv, TablesOK
  <1> QED BY <1>3, <1>4

(* create_run: a request id gets the run that has its key, or a new one.   *)
LEMMA CreatePreserves ==
  ASSUME AgentInv, NEW p \in Proc, CreateRun(p)
  PROVE  AgentInv'
  <1>1. PICK j \in Job : /\ j = job[p] /\ j.kind \in Action /\ j.at = "create"
                         /\ RequestJob(j) /\ ApprovedJob(j) /\ holder = p
                         /\ j.payload \in Payload
                         /\ j.token # None => j.token \in Token
    BY TheRequest, JobFields DEF CreateRun, At, BeforeRun, Locked, RequestJob, AgentInv
  <1>2. UNCHANGED <<requests, approvals, workers, replies, executed, reported>>
    BY DEF CreateRun
  <1>3. ASSUME End(p), UNCHANGED <<runs, runStatus, madeWith>>
        PROVE  AgentInv'
    <2>1. UNCHANGED <<tables, history, workers>>
      BY <1>2, <1>3 DEF tables, history
    <2>2. Moves(p, None)
      BY <1>1, <1>3, <2>1, SameTables, EndMoves
    <2> QED BY <2>1, <2>2, QuietMove
  <1>4. ASSUME NEW r \in Run, Created(p, r), Grows,
               runs' \in [Run -> [payload : Payload, key : Key \cup {None}] \cup {NoRun}],
               runStatus' \in [Run -> {"created", "running", "finished"}],
               r \in Row', runs'[r] = [payload |-> j.payload, key |-> j.key],
               KeysUnique'
        PROVE  AgentInv'
    <2> DEFINE new == [j EXCEPT !.run = r, !.at = AfterCreate(j)]
    <2>1. AfterCreate(j) = IF j.rid # None THEN "bind"
                           ELSE IF j.payload \in Paid THEN "attach"
                           ELSE IF j.kind = "run" THEN "execute" ELSE "spawn"
      BY DEF AfterCreate
    <2>2. new \in Job
      BY <2>1 DEF Job
    <2>3. /\ new.kind = j.kind /\ new.rid = j.rid /\ new.key = j.key
          /\ new.payload = j.payload /\ new.token = j.token
          /\ new.run = r /\ new.at = AfterCreate(j)
      BY DEF Job
    <2>4. JobOK(new)'
      <3>1. RequestJob(new)'
        BY <1>1, <1>2, <1>4, <2>1, <2>3 DEF RequestJob, BeforeRun, AfterRun
      <3>2. ApprovedJob(new)'
        BY <1>1, <1>2, <2>1, <2>3 DEF ApprovedJob, Spent, Spending
      <3> QED BY <1>1, <2>3, <3>1, <3>2 DEF JobOK, Action
    <2>5. job' = [job EXCEPT ![p] = new]
      BY <1>1, <1>4 DEF Created, AgentInv, AgentTypeOK
    <2> HIDE DEF new
    <2>6. Moves(p, new)
      BY <1>1, <1>4, <2>2, <2>4, <2>5 DEF Moves, Created, AgentInv, AgentTypeOK
    <2>7. job' \in [Proc -> Job \cup {None}] /\ LockOK' /\ JobsOK'
      BY <2>6, ProcessMoves
    <2>8. AgentTypeOK'
      <3>1. executed \subseteq Row' /\ reported \subseteq Row'
        BY <1>4 DEF Grows, AgentInv, AgentTypeOK
      <3> QED BY <1>2, <1>4, <2>7, <3>1 DEF Created, AgentInv, AgentTypeOK
    <2>9. TokensSpent'
      <3>1. CASE j.token = None
        BY <1>1, <1>2, <1>4, <3>1 DEF Created, AgentInv, TablesOK, TokensSpent
      <3>2. CASE j.token # None
        <4>1. madeWith' = madeWith \cup {<<j.token, r>>}
          BY <1>1, <1>4, <3>2 DEF Created
        <4>2. /\ j.token \in Token /\ approvals[j.token] # None
              /\ approvals[j.token].consumed /\ \A x \in madeWith : x[1] # j.token
          BY <1>1, <3>2 DEF RequestJob, ApprovedJob, Spending, Spent
        <4> QED BY <1>2, <4>1, <4>2 DEF AgentInv, TablesOK, TokensSpent
      <3> QED BY <3>1, <3>2
    <2>10. TablesOK'
      BY <1>2, <1>4, <2>9, RunsMove
    <2> QED BY <2>7, <2>8, <2>10 DEF AgentInv
  <1>5. ASSUME NEW r \in WithKey(j.key), Created(p, r),
               runs[r].payload = j.payload, UNCHANGED <<runs, runStatus>>
        PROVE  AgentInv'
    <2>1. /\ r \in Run /\ r \in Row /\ r \in Row'
          /\ runs[r] \in [payload : Payload, key : Key \cup {None}]
          /\ runs[r].key = j.key
      BY <1>5 DEF WithKey, Row, AgentInv, AgentTypeOK
    <2>2. runs'[r] = [payload |-> j.payload, key |-> j.key]
      BY <1>5, <2>1
    <2>3. Grows
      BY <1>2, <1>5, SameTables DEF tables
    <2>4. KeysUnique'
      BY <1>5 DEF AgentInv, TablesOK, KeysUnique, Row
    <2> QED BY <1>4, <1>5, <2>1, <2>2, <2>3, <2>4 DEF AgentInv, AgentTypeOK
  <1>6. ASSUME NEW r \in Run \ Row, Created(p, r), WithKey(j.key) = {},
               runs' = [runs EXCEPT ![r] = [payload |-> j.payload, key |-> j.key]],
               runStatus' = [runStatus EXCEPT ![r] = "created"]
        PROVE  AgentInv'
    <2> DEFINE row == [payload |-> j.payload, key |-> j.key]
    <2>1. /\ row \in [payload : Payload, key : Key \cup {None}]
          /\ row # NoRun /\ row.key = j.key
      BY <1>1, JobFields, AgentAssumption DEF NoRun, AgentInv
    <2>2. /\ runs \in [Run -> [payload : Payload, key : Key \cup {None}] \cup {NoRun}]
          /\ runStatus \in [Run -> {"created", "running", "finished"}]
      BY DEF AgentInv, AgentTypeOK
    <2> HIDE DEF row
    <2>3. /\ runs'[r] = row
          /\ \A s \in Run : s # r => runs'[s] = runs[s]
      BY <1>6, <2>2 DEF row
    <2>4. /\ runs' \in [Run -> [payload : Payload, key : Key \cup {None}] \cup {NoRun}]
          /\ runStatus' \in [Run -> {"created", "running", "finished"}]
      BY <1>6, <2>1, <2>2 DEF row
    <2>5. Row' = Row \cup {r}
      BY <2>1, <2>3 DEF Row
    <2>6. Grows
      BY <1>2, <1>6, <2>3, <2>5 DEF Grows, Row
    <2>7. KeysUnique'
      <3>1. \A s \in Row : runs'[s] = runs[s] /\ (j.key # None => runs[s].key # j.key)
        BY <1>6, <2>3 DEF Row, WithKey
      <3> QED BY <2>1, <2>3, <2>5, <3>1 DEF AgentInv, TablesOK, KeysUnique
    <2> QED BY <1>4, <1>6, <2>3, <2>4, <2>5, <2>6, <2>7 DEF row
  <1>7. CASE \E r \in WithKey(j.key) :
               /\ IF runs[r].payload = j.payload THEN Created(p, r)
                  ELSE End(p) /\ UNCHANGED madeWith
               /\ UNCHANGED <<runs, runStatus>>
    BY <1>3, <1>5, <1>7
  <1>8. CASE /\ WithKey(j.key) = {}
             /\ \E r \in Run \ Row :
                  /\ runs' = [runs EXCEPT ![r] = [payload |-> j.payload, key |-> j.key]]
                  /\ runStatus' = [runStatus EXCEPT ![r] = "created"]
                  /\ Created(p, r)
    BY <1>6, <1>8
  <1> QED BY <1>1, <1>7, <1>8 DEF CreateRun

(* A run begins to execute: the worker of a paid one has found its         *)
(* approval, the process that made it has attached it.                     *)
LEMMA ExecutePreserves ==
  ASSUME AgentInv, NEW p \in Proc, Execute(p)
  PROVE  AgentInv'
  <1>1. PICK j \in Job : j = job[p] /\ j.at = "execute" /\ JobOK(j) /\ holder = p
    BY TheJob DEF Execute, At, Locked
  <1>2. UNCHANGED <<runs, requests, approvals, workers, replies, reported, madeWith>>
    BY DEF Execute
  <1>3. /\ j.kind \in {"run", "resume"} /\ j.run \in Row /\ j.run \in Run
        /\ j.kind = "run" =>
             /\ RequestJob(j) /\ ApprovedJob(j)
             /\ runs[j.run] = [payload |-> j.payload, key |-> j.key]
    BY <1>1, JobFields DEF JobOK, Action, RequestJob, AfterRun, Row, AgentInv
  <1>4. CASE ~MayExecute(p)
    <2>1. End(p) /\ UNCHANGED <<tables, history, workers>>
      BY <1>2, <1>4 DEF Execute, tables, history
    <2>2. Moves(p, None)
      BY <1>1, <2>1, SameTables, EndMoves
    <2> QED BY <2>1, <2>2, QuietMove
  <1>5. CASE MayExecute(p)
    <2> DEFINE new == [j EXCEPT !.at = "executing"]
    <2>1. /\ executed' = executed \cup {j.run}
          /\ runStatus' = [runStatus EXCEPT ![j.run] = IF @ = "finished" THEN @ ELSE "running"]
          /\ Goto(p, "executing") /\ UNCHANGED holder
      BY <1>1, <1>5 DEF Execute
    <2>2. Approved(j.run)
      <3>1. CASE j.kind = "run"
        <4>1. runs[j.run].payload = j.payload
          BY <1>3, <3>1
        <4>2. j.payload \in Paid => /\ Spent(j.token, j.payload) /\ j.token \in Token
                                   /\ approvals[j.token].run = j.run
          BY <1>1, <1>3, <3>1 DEF ApprovedJob, Spent
        <4> QED BY <4>1, <4>2 DEF Approved
      <3>2. CASE j.kind = "resume"
        <4> SUFFICES ASSUME runs[j.run].payload \in Paid
                     PROVE  \E t \in Token : /\ Spent(t, runs[j.run].payload)
                                             /\ approvals[t].run = j.run
          BY DEF Approved
        <4>1. PICK t \in Token : /\ approvals[t] # None /\ approvals[t].run = j.run
                                 /\ approvals[t].consumed
          BY <1>1, <1>5, <3>2 DEF MayExecute, run_approval_for
        <4>2. j.run # None
          BY <1>3, AgentAssumption
        <4>3. runs[j.run].payload = approvals[t].payload
          BY <4>1, <4>2 DEF AgentInv, TablesOK, ApprovalsFit
        <4> QED BY <4>1, <4>3 DEF Spent
      <3> QED BY <1>3, <3>1, <3>2
    <2>3. new \in Job
      BY DEF Job
    <2>4. JobOK(new)'
      <3>1. /\ new.kind = j.kind /\ new.rid = j.rid /\ new.key = j.key
            /\ new.payload = j.payload /\ new.token = j.token
            /\ new.run = j.run /\ new.at = "executing"
        BY DEF Job
      <3>2. CASE j.kind = "run"
        <4>1. RequestJob(new)'
          BY <1>1, <1>2, <1>3, <3>1, <3>2 DEF RequestJob, BeforeRun, AfterRun, Row
        <4>2. ApprovedJob(new)'
          BY <1>1, <1>2, <1>3, <3>1, <3>2 DEF ApprovedJob, Spent, Spending
        <4> QED BY <3>1, <3>2, <4>1, <4>2 DEF JobOK, Action
      <3>3. CASE j.kind = "resume"
        BY <1>1, <1>2, <3>1, <3>3 DEF JobOK, Action, Row
      <3> QED BY <1>3, <3>2, <3>3
    <2>5. job' = [job EXCEPT ![p] = new]
      BY <1>1, <2>1 DEF Goto, AgentInv, AgentTypeOK
    <2> HIDE DEF new
    <2>6. Grows
      BY <1>2 DEF Grows, Row
    <2>7. Moves(p, new)
      BY <1>1, <1>2, <2>1, <2>3, <2>4, <2>5, <2>6 DEF Moves, AgentInv, AgentTypeOK
    <2>8. runStatus' \in [Run -> {"created", "running", "finished"}]
      BY <2>1 DEF AgentInv, AgentTypeOK
    <2>9. /\ workers' \subseteq Row /\ reported' \subseteq Row /\ executed' \subseteq Row
          /\ replies' \ replies = {}
          /\ \A r \in executed' \ executed : Approved(r)
      BY <1>2, <1>3, <2>1, <2>2 DEF AgentInv, AgentTypeOK, TablesOK
    <2> QED BY <1>2, <2>7, <2>8, <2>9, MoveAlone
  <1> QED BY <1>4, <1>5

(* The reply of a request that has made its run, and bound it.             *)
LEMMA ReplyFits ==
  ASSUME AgentInv, NEW p \in Proc, NEW j \in Job, j = job[p], RequestJob(j),
         j.at \in {"executing", "spawn"}, Reply(p, j.run)
  PROVE  \A x \in replies' \ replies : ReplyOK(x)
  <1> SUFFICES ASSUME NEW x \in replies' \ replies
               PROVE  ReplyOK(x)
    OBVIOUS
  <1>1. /\ j.rid # None
        /\ x = [rid |-> j.rid, payload |-> j.payload, run |-> j.run]
    BY DEF Reply
  <1>2. j.rid \in RequestId
    BY <1>1, JobFields DEF AgentInv
  <1> QED BY <1>1, <1>2 DEF RequestJob, AfterRun, ReplyOK

(* engine.resume ends, and a worker is spawned.                            *)
LEMMA ReplyPreserves ==
  ASSUME AgentInv, NEW p \in Proc,
         (\E ok \in BOOLEAN : Executed(p, ok)) \/ SpawnWorker(p)
  PROVE  AgentInv'
  <1>0. /\ runStatus \in [Run -> {"created", "running", "finished"}]
        /\ workers \subseteq Row /\ reported \subseteq Row /\ executed \subseteq Row
    BY DEF AgentInv, AgentTypeOK, TablesOK
  <1>1. ASSUME NEW ok \in BOOLEAN, Executed(p, ok)
        PROVE  AgentInv'
    <2>1. PICK j \in Job : j = job[p] /\ j.at = "executing" /\ JobOK(j)
      BY <1>1, TheJob DEF Executed, At
    <2>2. UNCHANGED <<runs, requests, approvals, workers, executed, reported, madeWith>>
      BY <1>1 DEF Executed
    <2>3. Grows
      BY <2>2 DEF Grows, Row
    <2>4. Moves(p, None)
      BY <1>1, <2>2, <2>3, EndMoves DEF Executed
    <2>5. \A x \in replies' \ replies : ReplyOK(x)
      <3>1. CASE j.kind = "run"
        <4>1. RequestJob(j)
          BY <2>1, <3>1 DEF JobOK, Action
        <4> QED BY <1>1, <2>1, <4>1, ReplyFits DEF Executed
      <3>2. CASE j.kind # "run"
        BY <1>1, <2>1, <3>2 DEF Executed
      <3> QED BY <3>1, <3>2
    <2>6. runStatus' \in [Run -> {"created", "running", "finished"}]
      BY <1>0, <1>1 DEF Executed
    <2> QED BY <1>0, <2>2, <2>4, <2>5, <2>6, MoveAlone
  <1>2. CASE SpawnWorker(p)
    <2>1. PICK j \in Job : j = job[p] /\ RequestJob(j) /\ j.at = "spawn"
      BY <1>2, TheRequest DEF SpawnWorker, At, AfterRun
    <2>2. UNCHANGED <<runs, runStatus, requests, approvals, holder, executed, madeWith>>
      BY <1>2 DEF SpawnWorker, tables
    <2>3. Grows
      BY <2>2 DEF Grows, Row
    <2>4. Moves(p, None)
      BY <1>2, <2>2, <2>3 DEF SpawnWorker, Moves, AgentInv, AgentTypeOK
    <2>5. \A x \in replies' \ replies : ReplyOK(x)
      BY <1>2, <2>1, ReplyFits DEF SpawnWorker
    <2>6. /\ workers' \subseteq Row /\ reported' \subseteq Row
      BY <1>0, <1>2, <2>1 DEF SpawnWorker, RequestJob, AfterRun
    <2> QED BY <1>0, <2>2, <2>4, <2>5, <2>6, MoveAlone
  <1> QED BY <1>1, <1>2

----------------------------------------------------------------------------

(* AgentInv holds in every reachable state.                                *)
THEOREM AgentInvHolds == AgentSpec => []AgentInv
  <1>1. AgentInit => AgentInv
    <2> SUFFICES ASSUME AgentInit
                 PROVE  AgentInv
      OBVIOUS
    <2>1. Row = {} /\ Jobs = {}
      BY DEF AgentInit, Row, Jobs
    <2>2. AgentTypeOK
      BY <2>1 DEF AgentInit, AgentTypeOK
    <2>3. LockOK /\ JobsOK
      BY <2>1 DEF AgentInit, LockOK, JobsOK
    <2>4. TablesOK
      BY <2>1 DEF AgentInit, TablesOK, RequestsBound, KeysUnique, ApprovalsFit,
                  TokensSpent, ExecutedApproved, RepliesBound
    <2> QED BY <2>2, <2>3, <2>4 DEF AgentInv
  <1>2. AgentInv /\ [AgentNext]_agentVars => AgentInv'
    <2> SUFFICES ASSUME AgentInv, [AgentNext]_agentVars
                 PROVE  AgentInv'
      OBVIOUS
    <2>1. ASSUME NEW t \in Token, NEW payload \in Payload, Approve(t, payload)
          PROVE  AgentInv'
      BY <2>1, ApprovePreserves
    <2>2. ASSUME NEW p \in Proc,
                 \/ \E kind \in Action, rid \in RequestId \cup {None},
                       key \in Key \cup {None}, payload \in Payload,
                       t \in Token \cup {None} :
                      Receive(p, kind, rid, key, payload, t)
                 \/ \E r \in Run : Command(p, "resume", r) \/ WorkerBegins(p, r)
                 \/ Command(p, "other", None)
                 \/ TakeLock(p) \/ OtherEnds(p) \/ MakeEngine(p)
                 \/ ReleaseForWorker(p) \/ SpawnFails(p) \/ Crash(p)
          PROVE  AgentInv'
      BY <2>2, QuietPreserves
    <2>3. ASSUME NEW p \in Proc,
                 Lookup(p) \/ Consume(p) \/ CreateRun(p) \/ BindRequest(p)
          PROVE  AgentInv'
      BY <2>3, LookupPreserves, ConsumePreserves, CreatePreserves, BindPreserves
    <2>4. ASSUME NEW p \in Proc,
                 \/ AttachApproval(p) \/ Execute(p)
                 \/ (\E ok \in BOOLEAN : Executed(p, ok)) \/ SpawnWorker(p)
          PROVE  AgentInv'
      BY <2>4, AttachPreserves, ExecutePreserves, ReplyPreserves
    <2>5. CASE UNCHANGED agentVars
      <3>1. UNCHANGED <<tables, holder, job, workers, history>>
        BY <2>5 DEF agentVars
      <3>2. AgentTypeOK' /\ LockOK' /\ Jobs' = Jobs
        BY <3>1 DEF AgentInv, AgentTypeOK, LockOK, Jobs, Row, tables, history
      <3>3. JobsOK'
        <4> SUFFICES ASSUME NEW j \in Jobs
                     PROVE  JobOK(j)'
          BY <3>2 DEF JobsOK
        <4>1. j \in Job /\ JobOK(j)
          BY DEF Jobs, AgentInv, AgentTypeOK, JobsOK
        <4>2. Grows
          BY <3>1, SameTables
        <4> QED BY <3>1, <4>1, <4>2, JobKept DEF AgentInv, tables, history
      <3>4. TablesOK'
        <4>1. Grows /\ KeysUnique' /\ TokensSpent'
          BY <3>1, SameTables DEF AgentInv, TablesOK, KeysUnique, TokensSpent, Row,
                                  tables, history
        <4> QED BY <3>1, <4>1, RunsMove DEF tables, history
      <3> QED BY <3>2, <3>3, <3>4 DEF AgentInv
    <2> QED BY <2>1, <2>2, <2>3, <2>4, <2>5 DEF AgentNext
  <1> QED BY <1>1, <1>2, PTL DEF AgentSpec

(* The tables, the lock and the processes are well formed.                 *)
THEOREM AgentTypeCorrect == AgentSpec => []AgentTypeOK
  <1>1. AgentInv => AgentTypeOK
    BY DEF AgentInv
  <1> QED BY <1>1, AgentInvHolds, PTL

(* A paid run is executed only with an approval of its own payload, and a  *)
(* token makes one run, however commands, workers and crashes interleave.  *)
THEOREM PaidRunsAreApproved == AgentSpec => []PaidOnlyApproved
  <1>1. AgentInv => PaidOnlyApproved
    BY DEF AgentInv, TablesOK, ExecutedApproved, TokensSpent, PaidOnlyApproved,
           Spent, run_approval_for
  <1> QED BY <1>1, AgentInvHolds, PTL

(* A request id has one run: create_run finds the run of its key, the      *)
(* binding is a plain INSERT, and every reply is read from the two.        *)
THEOREM RequestsHaveOneRun == AgentSpec => []OneRunPerRequest
  <1>1. AgentInv => OneRunPerRequest
    <2> SUFFICES ASSUME AgentInv
                 PROVE  OneRunPerRequest
      OBVIOUS
    <2>1. ASSUME NEW i \in Key
          PROVE  Cardinality(WithKey(i)) <= 1
      <3>1. \A r, s \in WithKey(i) : r = s
        BY AgentAssumption DEF AgentInv, TablesOK, KeysUnique, WithKey
      <3>2. WithKey(i) = {} \/ \E r : WithKey(i) = {r}
        BY <3>1
      <3>3. Cardinality({}) = 0 /\ \A r : Cardinality({r}) = 1
        BY FS_EmptySet, FS_Singleton
      <3>4. Cardinality(WithKey(i)) \in {0, 1}
        BY <3>2, <3>3
      <3> QED BY <3>4
    <2>2. ASSUME NEW x \in replies
          PROVE  /\ requests[x.rid] = [payload |-> x.payload, run |-> x.run]
                 /\ runs[x.run] = [payload |-> x.payload, key |-> x.rid]
      BY DEF AgentInv, TablesOK, RepliesBound
    <2> QED BY <2>1, <2>2 DEF OneRunPerRequest
  <1> QED BY <1>1, AgentInvHolds, PTL
=============================================================================
