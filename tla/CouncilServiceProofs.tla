------------------------ MODULE CouncilServiceProofs ------------------------
(***************************************************************************)
(* Proofs about the service application, for any set of keys, any owners,  *)
(* any number of runs, workers and queue places, and any number of faults  *)
(* and stops.  ServiceInv says where the runs of the executor are; there   *)
(* is one preservation lemma for each group of actions, and the theorems   *)
(* combine them for ServiceSpec.                                           *)
(***************************************************************************)
EXTENDS CouncilService, TLAPS, FiniteSetTheorems, SequenceTheorems

(* No element twice.                                                       *)
Distinct(queue) ==
  \A i, j \in 1 .. Len(queue) : queue[i] = queue[j] => i = j

(* DispatchedOnce without cardinalities: where the runs of the executor    *)
(* are.                                                                    *)
Dispatch ==
  /\ Distinct(fifo) /\ Distinct(pending)
  /\ scheduled = InQueue(fifo) \cup Working
  /\ InQueue(fifo) \cap Working = {}
  /\ InQueue(pending) \cap scheduled = {}

OneOfOwner ==
  \A r, s \in Run :
    work[r] = "executing" /\ work[s] = "executing"
      /\ OwnerOf[boundTo[r]] = OwnerOf[boundTo[s]] => r = s

(* A run in the executor or the recovery queue is bound and has a row, it  *)
(* has not ended until its worker is done, and is running while executing. *)
Accepted ==
  /\ scheduled \cup InQueue(pending) \subseteq Bound \cap Rows
  /\ InQueue(fifo) \cup InQueue(pending) \subseteq Nonterminal
  /\ \A r \in Run : /\ work[r] = "waiting" => r \in Nonterminal
                    /\ work[r] = "executing" => status[r] = "running"

(* The run of a request under way is bound, as far as its row says, and    *)
(* nobody else has it.                                                     *)
RequestShape ==
  ~LockFree =>
    /\ up = "up"
    /\ req.run \in Bound
    /\ req.run \notin scheduled \cup InQueue(pending)
    /\ status[req.run] = CASE req.at = "bound" -> "none"
                           [] req.at = "row" -> "created"
                           [] OTHER -> "queued"

(* Every row has an owner, and the directory of a service that ever ran is *)
(* marked.                                                                 *)
Owned ==
  /\ Rows \subseteq Bound
  /\ Rows # {} \/ up # "down" => marker

(* A service that is down keeps nothing in memory.                         *)
DownIsEmpty ==
  up = "down" =>
    /\ slots = Capacity /\ scheduled = {} /\ pending = <<>> /\ fifo = <<>>
    /\ work = [r \in Run |-> "idle"] /\ req = NoReq /\ leaked = 0

ServiceInv ==
  /\ ServiceTypeOK /\ SlotsConserved /\ Dispatch /\ OneOfOwner
  /\ Accepted /\ RequestShape /\ Owned /\ DownIsEmpty

----------------------------------------------------------------------------

(* The runs of a queue are its elements.                                   *)
LEMMA InQueueDef ==
  ASSUME NEW q \in Seq(Run)
  PROVE  /\ InQueue(q) \subseteq Run
         /\ \A r : r \in InQueue(q) <=> \E i \in 1 .. Len(q) : q[i] = r
  BY ElementOfSeq DEF InQueue

(* A queue of distinct runs has as many runs as places.                    *)
LEMMA DistinctCardinality ==
  ASSUME NEW q \in Seq(Run), Distinct(q)
  PROVE  IsFiniteSet(InQueue(q)) /\ Cardinality(InQueue(q)) = Len(q)
<1>1. Len(q) \in Nat /\ q \in [1 .. Len(q) -> Run] BY LenProperties
<1>2. q \in Bijection(1 .. Len(q), InQueue(q))
  <2>1. q \in [1 .. Len(q) -> InQueue(q)] BY <1>1 DEF InQueue
  <2>2. \A r \in InQueue(q) : \E i \in 1 .. Len(q) : q[i] = r BY DEF InQueue
  <2>3. q \in Injection(1 .. Len(q), InQueue(q))
    BY <2>1 DEF Distinct, Injection, IsInjective
  <2>4. q \in Surjection(1 .. Len(q), InQueue(q))
    BY <2>1, <2>2 DEF Surjection
  <2> QED BY <2>3, <2>4 DEF Bijection
<1>3. ExistsBijection(1 .. Len(q), InQueue(q))
  BY <1>2 DEF ExistsBijection
<1> QED BY <1>1, <1>3, FS_CountingElements, FS_NatBijection

(* A part of a queue of distinct runs.                                     *)
LEMMA SubQueue ==
  ASSUME NEW q \in Seq(Run), Distinct(q),
         NEW m \in Nat \ {0}, NEW n \in Nat, n <= Len(q)
  PROVE  /\ SubSeq(q, m, n) \in Seq(Run) /\ Distinct(SubSeq(q, m, n))
         /\ m <= n + 1 => Len(SubSeq(q, m, n)) = n - m + 1
         /\ InQueue(SubSeq(q, m, n)) = {q[i] : i \in m .. n}
<1> DEFINE part == SubSeq(q, m, n)
<1>1. Len(q) \in Nat /\ \A i \in 1 .. Len(q) : q[i] \in Run
  BY LenProperties, ElementOfSeq
<1>2. \A i \in m .. n : q[i] \in Run BY <1>1
<1>3. /\ part \in Seq(Run)
      /\ Len(part) = IF m <= n THEN n - m + 1 ELSE 0
      /\ \A i \in 1 .. n - m + 1 : part[i] = q[m + i - 1]
  BY <1>2, SubSeqProperties
<1> HIDE DEF part
<1>4. Distinct(part)
  <2> SUFFICES ASSUME NEW i \in 1 .. Len(part), NEW j \in 1 .. Len(part),
                      part[i] = part[j]
               PROVE i = j
    BY DEF Distinct
  <2>1. i \in 1 .. n - m + 1 /\ j \in 1 .. n - m + 1
    BY <1>3
  <2>2. m + i - 1 \in 1 .. Len(q) /\ m + j - 1 \in 1 .. Len(q)
    BY <1>1, <2>1
  <2>3. q[m + i - 1] = q[m + j - 1]
    BY <1>3, <2>1
  <2>4. m + i - 1 = m + j - 1
    BY <2>2, <2>3 DEF Distinct
  <2> QED BY <2>1, <2>4
<1>5. InQueue(part) = {q[i] : i \in m .. n}
  <2>1. ASSUME NEW r \in InQueue(part) PROVE r \in {q[i] : i \in m .. n}
    <3>1. PICK i \in 1 .. Len(part) : part[i] = r BY DEF InQueue
    <3>2. m + i - 1 \in m .. n /\ q[m + i - 1] = r BY <1>3, <3>1
    <3> QED BY <3>2
  <2>2. ASSUME NEW i \in m .. n PROVE q[i] \in InQueue(part)
    <3>1. i - m + 1 \in 1 .. Len(part) /\ part[i - m + 1] = q[i]
      BY <1>3
    <3> QED BY <3>1 DEF InQueue
  <2> QED BY <2>1, <2>2
<1> QED BY <1>3, <1>4, <1>5 DEF part

(* Two queues of distinct runs, one after the other.                       *)
LEMMA ConcatQueue ==
  ASSUME NEW q \in Seq(Run), NEW s \in Seq(Run), Distinct(q), Distinct(s),
         InQueue(q) \cap InQueue(s) = {}
  PROVE  /\ q \o s \in Seq(Run) /\ Distinct(q \o s)
         /\ InQueue(q \o s) = InQueue(q) \cup InQueue(s)
<1> DEFINE both == q \o s
<1>1. Len(q) \in Nat /\ Len(s) \in Nat BY LenProperties
<1>2. /\ both \in Seq(Run) /\ Len(both) = Len(q) + Len(s)
      /\ \A i \in 1 .. Len(q) + Len(s) :
           both[i] = IF i <= Len(q) THEN q[i] ELSE s[i - Len(q)]
  BY ConcatProperties
<1> HIDE DEF both
<1>3. Distinct(both)
  <2> SUFFICES ASSUME NEW i \in 1 .. Len(both), NEW j \in 1 .. Len(both),
                      both[i] = both[j]
               PROVE i = j
    BY DEF Distinct
  <2>1. \A k \in 1 .. Len(q) : q[k] \in InQueue(q) BY DEF InQueue
  <2>2. \A k \in 1 .. Len(s) : s[k] \in InQueue(s) BY DEF InQueue
  <2>3. CASE i <= Len(q) /\ j <= Len(q) BY <2>3, <1>1, <1>2 DEF Distinct
  <2>4. CASE i > Len(q) /\ j > Len(q)
    <3>1. /\ i - Len(q) \in 1 .. Len(s) /\ j - Len(q) \in 1 .. Len(s)
          /\ s[i - Len(q)] = s[j - Len(q)]
      BY <2>4, <1>1, <1>2
    <3>2. i - Len(q) = j - Len(q) BY <3>1 DEF Distinct
    <3> QED BY <3>2, <1>1
  <2>5. \A k \in 1 .. Len(both) :
          /\ k <= Len(q) => k \in 1 .. Len(q) /\ both[k] \in InQueue(q)
          /\ k > Len(q) => k - Len(q) \in 1 .. Len(s) /\ both[k] \in InQueue(s)
    <3> SUFFICES ASSUME NEW k \in 1 .. Len(both)
                 PROVE  /\ k <= Len(q) => k \in 1 .. Len(q) /\ both[k] \in InQueue(q)
                        /\ k > Len(q) => /\ k - Len(q) \in 1 .. Len(s)
                                         /\ both[k] \in InQueue(s)
      OBVIOUS
    <3>1. CASE k <= Len(q)
      <4>1. k \in 1 .. Len(q) /\ both[k] = q[k] BY <1>1, <1>2, <3>1
      <4> QED BY <1>1, <3>1, <4>1, <2>1
    <3>2. CASE k > Len(q)
      <4>1. k - Len(q) \in 1 .. Len(s) /\ both[k] = s[k - Len(q)]
        BY <1>1, <1>2, <3>2
      <4>2. both[k] \in InQueue(s) BY <4>1, <2>2
      <4> QED BY <1>1, <3>2, <4>1, <4>2
    <3> QED BY <1>1, <1>2, <3>1, <3>2
  <2>6. ~(i <= Len(q) /\ j > Len(q)) /\ ~(i > Len(q) /\ j <= Len(q))
    BY <2>5
  <2>7. /\ i <= Len(q) \/ i > Len(q)
        /\ j <= Len(q) \/ j > Len(q)
    BY <1>1, <1>2
  <2> QED BY <2>3, <2>4, <2>6, <2>7
<1>4. InQueue(both) = InQueue(q) \cup InQueue(s)
  <2>1. ASSUME NEW i \in 1 .. Len(both)
        PROVE both[i] \in InQueue(q) \cup InQueue(s)
    <3>1. CASE i <= Len(q) BY <3>1, <1>1, <1>2 DEF InQueue
    <3>2. CASE i > Len(q)
      <4>1. i - Len(q) \in 1 .. Len(s) /\ both[i] = s[i - Len(q)]
        BY <3>2, <1>1, <1>2
      <4> QED BY <4>1 DEF InQueue
    <3> QED BY <3>1, <3>2, <1>1, <1>2
  <2>2. ASSUME NEW i \in 1 .. Len(q) PROVE q[i] \in InQueue(both)
    <3>1. i \in 1 .. Len(both) /\ both[i] = q[i] BY <1>1, <1>2
    <3> QED BY <3>1 DEF InQueue
  <2>3. ASSUME NEW i \in 1 .. Len(s) PROVE s[i] \in InQueue(both)
    <3>1. i + Len(q) \in 1 .. Len(both) /\ ~(i + Len(q) <= Len(q))
      BY <1>1, <1>2
    <3>2. (i + Len(q)) - Len(q) = i BY <1>1
    <3>3. both[i + Len(q)] = s[i] BY <3>1, <3>2, <1>2
    <3> QED BY <3>1, <3>3 DEF InQueue
  <2>4. InQueue(both) \subseteq InQueue(q) \cup InQueue(s)
    BY <2>1 DEF InQueue
  <2>5. InQueue(q) \cup InQueue(s) \subseteq InQueue(both)
    BY <2>2, <2>3 DEF InQueue
  <2> QED BY <2>4, <2>5
<1> QED BY <1>2, <1>3, <1>4 DEF both

(* A new run at the end of a queue.                                        *)
LEMMA AppendQueue ==
  ASSUME NEW q \in Seq(Run), Distinct(q), NEW r \in Run, r \notin InQueue(q)
  PROVE  /\ Append(q, r) \in Seq(Run) /\ Distinct(Append(q, r))
         /\ InQueue(Append(q, r)) = InQueue(q) \cup {r}
<1>1. <<r>> \in Seq(Run) /\ Len(<<r>>) = 1 /\ <<r>>[1] = r OBVIOUS
<1>2. InQueue(<<r>>) = {r} BY <1>1 DEF InQueue
<1>3. Distinct(<<r>>) BY <1>1 DEF Distinct
<1>4. Append(q, r) = q \o <<r>> OBVIOUS
<1>5. InQueue(q) \cap InQueue(<<r>>) = {} BY <1>2
<1>6. /\ q \o <<r>> \in Seq(Run) /\ Distinct(q \o <<r>>)
      /\ InQueue(q \o <<r>>) = InQueue(q) \cup InQueue(<<r>>)
  BY <1>1, <1>3, <1>5, ConcatQueue
<1> QED BY <1>2, <1>4, <1>6

(* The first run of a queue is taken out.                                  *)
LEMMA TailQueue ==
  ASSUME NEW q \in Seq(Run), Distinct(q), q # <<>>
  PROVE  /\ Head(q) \in Run /\ Head(q) \in InQueue(q)
         /\ Tail(q) \in Seq(Run) /\ Distinct(Tail(q))
         /\ InQueue(Tail(q)) = InQueue(q) \ {Head(q)}
<1>1. Len(q) \in Nat \ {0} /\ 1 \in 1 .. Len(q) BY EmptySeq, LenProperties
<1>2. Head(q) = q[1] /\ Head(q) \in Run BY HeadTailProperties
<1>3. Tail(q) = SubSeq(q, 2, Len(q)) BY TailIsSubSeq
<1>4. /\ Tail(q) \in Seq(Run) /\ Distinct(Tail(q))
      /\ InQueue(Tail(q)) = {q[i] : i \in 2 .. Len(q)}
  <2>1. 2 \in Nat \ {0} /\ Len(q) \in Nat /\ Len(q) <= Len(q) BY <1>1
  <2>2. /\ SubSeq(q, 2, Len(q)) \in Seq(Run) /\ Distinct(SubSeq(q, 2, Len(q)))
        /\ InQueue(SubSeq(q, 2, Len(q))) = {q[i] : i \in 2 .. Len(q)}
    BY <2>1, SubQueue
  <2> QED BY <2>2, <1>3
<1>5. {q[i] : i \in 2 .. Len(q)} = InQueue(q) \ {q[1]}
  BY <1>1 DEF InQueue, Distinct
<1> QED BY <1>1, <1>2, <1>4, <1>5 DEF InQueue

----------------------------------------------------------------------------

(* There are finitely many runs.                                           *)
LEMMA RunsFinite ==
  ASSUME NEW runs \in SUBSET Run
  PROVE  IsFiniteSet(runs) /\ Cardinality(runs) \in Nat
<1>1. IsFiniteSet(Run) BY FS_Interval, ServiceAssumption DEF Run
<1>2. IsFiniteSet(runs) BY <1>1, FS_Subset
<1> QED BY <1>2, FS_CardinalityType

(* What draining does when it moves the runs new to the executor.          *)
Drained(free, queue, taken, new) ==
  /\ slots' \in Nat
  /\ slots' + Cardinality(scheduled') = free + Cardinality(taken)
  /\ scheduled' = taken \cup new
  /\ pending' \in Seq(Run) /\ Distinct(pending')
  /\ InQueue(pending') = InQueue(queue) \ new
  /\ fifo' \in Seq(Run) /\ Distinct(fifo')
  /\ InQueue(fifo') = InQueue(fifo) \cup new

(* _drain_pending_locked moves a first part of the queue to the executor,  *)
(* and one permit for each of its runs.                                    *)
LEMMA DrainEffect ==
  ASSUME NEW free \in Nat, NEW queue \in Seq(Run), NEW taken \in SUBSET Run,
         Distinct(queue), InQueue(queue) \cap taken = {},
         fifo \in Seq(Run), Distinct(fifo), InQueue(fifo) \subseteq taken,
         Drain(free, queue, taken)
  PROVE  \E new \in SUBSET InQueue(queue) : Drained(free, queue, taken, new)
<1> DEFINE n == IF free < Len(queue) THEN free ELSE Len(queue)
           go == SubSeq(queue, 1, n)
           rest == SubSeq(queue, n + 1, Len(queue))
<1>1. n \in Nat /\ n <= free /\ n <= Len(queue) /\ Len(queue) \in Nat
  BY LenProperties
<1>2. /\ slots' = free - n /\ pending' = rest
      /\ scheduled' = taken \cup InQueue(go) /\ fifo' = fifo \o go
  BY DEF Drain
<1> HIDE DEF n
<1>3. /\ go \in Seq(Run) /\ Distinct(go) /\ Len(go) = n
      /\ InQueue(go) = {queue[i] : i \in 1 .. n}
  <2>1. 1 \in Nat \ {0} /\ 1 <= n + 1 /\ n - 1 + 1 = n BY <1>1
  <2> QED BY <1>1, <2>1, SubQueue
<1>4. /\ rest \in Seq(Run) /\ Distinct(rest)
      /\ InQueue(rest) = {queue[i] : i \in n + 1 .. Len(queue)}
  <2>1. n + 1 \in Nat \ {0} /\ Len(queue) <= Len(queue) BY <1>1
  <2> QED BY <1>1, <2>1, SubQueue
<1> HIDE DEF go, rest
<1>5. InQueue(go) \subseteq InQueue(queue)
  <2>1. \A i \in 1 .. n : i \in 1 .. Len(queue) BY <1>1
  <2>2. \A r : r \in InQueue(queue) <=> \E i \in 1 .. Len(queue) : queue[i] = r
    BY InQueueDef
  <2> QED BY <1>3, <2>1, <2>2, Zenon
<1>6. InQueue(rest) = InQueue(queue) \ InQueue(go)
  <2>1. \A i \in 1 .. n, j \in n + 1 .. Len(queue) : queue[i] # queue[j]
    BY <1>1 DEF Distinct
  <2>2. \A i \in 1 .. Len(queue) : i \in 1 .. n \/ i \in n + 1 .. Len(queue)
    BY <1>1
  <2>3. \A j \in n + 1 .. Len(queue) : j \in 1 .. Len(queue) BY <1>1
  <2>4. InQueue(queue) = {queue[i] : i \in 1 .. Len(queue)} BY DEF InQueue
  <2> QED BY <1>3, <1>4, <2>1, <2>2, <2>3, <2>4
<1>7. /\ fifo' \in Seq(Run) /\ Distinct(fifo')
      /\ InQueue(fifo') = InQueue(fifo) \cup InQueue(go)
  <2>1. InQueue(fifo) \cap InQueue(go) = {} BY <1>5
  <2> QED BY <1>2, <1>3, <2>1, ConcatQueue
<1>8. Cardinality(scheduled') = Cardinality(taken) + n
  <2>1. IsFiniteSet(taken) BY RunsFinite
  <2>2. IsFiniteSet(InQueue(go)) /\ Cardinality(InQueue(go)) = n
    BY <1>3, DistinctCardinality
  <2>3. taken \cap InQueue(go) = {} BY <1>5
  <2>4. Cardinality(taken \cap InQueue(go)) = 0 BY <2>3, FS_EmptySet
  <2>5. Cardinality(taken) \in Nat BY <2>1, FS_CardinalityType
  <2>6. Cardinality(taken \cup InQueue(go)) =
          Cardinality(taken) + Cardinality(InQueue(go))
            - Cardinality(taken \cap InQueue(go))
    BY <2>1, <2>2, FS_Union
  <2> QED BY <1>1, <1>2, <2>2, <2>4, <2>5, <2>6
<1>9. Cardinality(taken) \in Nat BY RunsFinite
<1>10. slots' \in Nat /\ slots' + Cardinality(scheduled') = free + Cardinality(taken)
  BY <1>1, <1>2, <1>8, <1>9
<1> QED BY <1>2, <1>4, <1>5, <1>6, <1>7, <1>10 DEF Drained

(* A service that has never run satisfies the invariant.                   *)
LEMMA ServiceInitInv == ServiceInit => ServiceInv
<1> SUFFICES ASSUME ServiceInit PROVE ServiceInv OBVIOUS
<1> USE ServiceAssumption DEF ServiceInit
<1>1. Capacity \in Nat BY DEF Capacity
<1>2. /\ scheduled = {} /\ Rows = {} /\ Working = {} /\ Bound = {}
      /\ LockFree /\ fifo = <<>> /\ pending = <<>> /\ InQueue(<<>>) = {}
  BY DEF Rows, Working, Bound, LockFree, InQueue
<1>3. ServiceTypeOK
  <2>1. slots \in 0 .. Capacity /\ leaked \in Nat BY <1>1
  <2>2. pending \in Seq(Run) /\ fifo \in Seq(Run) BY EmptySeq
  <2>3. status \in [Run -> Status] BY DEF Status
  <2>4. /\ boundTo \in [Run -> Key \cup {NoKey}]
        /\ work \in [Run -> {"idle", "waiting", "executing", "done"}]
    OBVIOUS
  <2> QED BY <2>1, <2>2, <2>3, <2>4 DEF ServiceTypeOK
<1>4. SlotsConserved BY <1>1, <1>2, FS_EmptySet DEF SlotsConserved
<1>5. Dispatch BY <1>2 DEF Dispatch, Distinct
<1>6. OneOfOwner BY DEF OneOfOwner
<1>7. Accepted BY <1>2 DEF Accepted
<1>8. RequestShape /\ Owned /\ DownIsEmpty
  BY <1>2 DEF RequestShape, Owned, DownIsEmpty
<1> QED BY <1>3, <1>4, <1>5, <1>6, <1>7, <1>8 DEF ServiceInv

(* Nothing of the executor moves.                                          *)
LEMMA Unmoved ==
  ASSUME Dispatch, UNCHANGED <<scheduled, pending, fifo>>, Working' = Working
  PROVE  Dispatch'
<1>1. Distinct(fifo)' /\ Distinct(pending)' BY DEF Dispatch, Distinct
<1>2. InQueue(fifo)' = InQueue(fifo) /\ InQueue(pending)' = InQueue(pending)
  BY DEF InQueue
<1> QED BY <1>1, <1>2 DEF Dispatch

(* A new request or a repair takes a permit.                               *)
LEMMA BindInv ==
  ASSUME ServiceInv, NEW r \in Run,
         (\E k \in Key : BindRun(k, r)) \/ RepairRun(r)
  PROVE  ServiceInv'
<1> USE ServiceAssumption DEF ServiceInv
<1>1. /\ up = "up" /\ LockFree /\ slots > 0 /\ slots' = slots - 1
      /\ r \notin Rows
      /\ \E b \in BOOLEAN : req' = [run |-> r, at |-> "bound", repair |-> b]
      /\ UNCHANGED <<status, marker, up, scheduled, pending, fifo, work, leaked>>
      /\ lost' = lost
  <2>1. CASE \E k \in Key : BindRun(k, r) BY <2>1 DEF BindRun
  <2>2. CASE RepairRun(r) BY <2>2 DEF RepairRun, durable
  <2> QED BY <2>1, <2>2
<1>2. /\ boundTo' \in [Run -> Key \cup {NoKey}] /\ r \in Bound'
      /\ \A s \in Run : s # r => boundTo'[s] = boundTo[s]
  <2>1. boundTo \in [Run -> Key \cup {NoKey}] BY DEF ServiceTypeOK
  <2>2. CASE \E k \in Key : BindRun(k, r)
    <3>1. PICK k \in Key : boundTo' = [boundTo EXCEPT ![r] = k]
      BY <2>2 DEF BindRun
    <3>2. boundTo'[r] = k /\ k # NoKey BY <2>1, <3>1
    <3>3. r \in Bound' BY <3>2 DEF Bound
    <3>4. /\ boundTo' \in [Run -> Key \cup {NoKey}]
          /\ \A s \in Run : s # r => boundTo'[s] = boundTo[s]
      BY <2>1, <3>1
    <3> QED BY <3>3, <3>4
  <2>3. CASE RepairRun(r)
    <3>1. boundTo' = boundTo /\ r \in Bound
      BY <2>3 DEF RepairRun, durable
    <3> QED BY <2>1, <3>1 DEF Bound
  <2> QED BY <2>2, <2>3
<1>3. /\ Nonterminal' = Nonterminal /\ Rows' = Rows /\ Bound \subseteq Bound'
      /\ Working' = Working
  BY <1>1, <1>2 DEF Nonterminal, Rows, Bound, Working
<1>4. r \notin scheduled \cup InQueue(pending)
  BY <1>1 DEF Accepted
<1>5. ~LockFree' BY <1>1 DEF LockFree, NoReq, Run
<1>6. ServiceTypeOK' BY <1>1, <1>2 DEF ServiceTypeOK, Capacity
<1>7. SlotsConserved'
  <2>1. Cardinality(scheduled) \in Nat BY RunsFinite DEF ServiceTypeOK
  <2>2. slots \in Nat /\ leaked \in Nat BY DEF ServiceTypeOK, Capacity
  <2> QED BY <1>1, <1>5, <2>1, <2>2 DEF SlotsConserved
<1>8. Dispatch' BY <1>1, <1>3, Unmoved
<1>9. OneOfOwner' BY <1>1, <1>2, <1>4 DEF OneOfOwner, Dispatch, Working
<1>10. Accepted' BY <1>1, <1>3 DEF Accepted, InQueue
<1>11. RequestShape' BY <1>1, <1>2, <1>4, <1>5 DEF RequestShape, Rows, InQueue
<1>12. Owned' /\ DownIsEmpty' BY <1>1, <1>3 DEF Owned, DownIsEmpty
<1> QED BY <1>6, <1>7, <1>8, <1>9, <1>10, <1>11, <1>12

(* What the type and the permits of the invariant give every step.         *)
LEMMA Typed ==
  ASSUME ServiceInv
  PROVE  /\ boundTo \in [Run -> Key \cup {NoKey}] /\ status \in [Run -> Status]
         /\ slots \in Nat /\ leaked \in Nat /\ Capacity \in Nat
         /\ scheduled \in SUBSET Run /\ lost \subseteq Run
         /\ pending \in Seq(Run) /\ fifo \in Seq(Run)
         /\ work \in [Run -> {"idle", "waiting", "executing", "done"}]
         /\ InQueue(fifo) \subseteq scheduled
         /\ Cardinality(scheduled) \in Nat
<1>1. scheduled \in SUBSET Run BY DEF ServiceInv, ServiceTypeOK
<1>2. Cardinality(scheduled) \in Nat BY <1>1, RunsFinite
<1> QED BY <1>1, <1>2, ServiceAssumption
        DEF ServiceInv, ServiceTypeOK, Capacity, Dispatch

(* A request under way is for a run, which no worker has.                  *)
LEMMA RequestTyped ==
  ASSUME ServiceInv, ~LockFree
  PROVE  /\ req \in [run : Run, at : {"bound", "row", "queued"}, repair : BOOLEAN]
         /\ req.run \in Run /\ req.run \in Bound /\ up = "up"
         /\ req.run \notin scheduled /\ req.run \notin InQueue(pending)
         /\ status[req.run] \in {"none", "created", "queued"}
  BY DEF ServiceInv, ServiceTypeOK, RequestShape, LockFree

(* The request writes the run's row, and then its status.                  *)
LEMMA RowInv ==
  ASSUME ServiceInv, CreateRow \/ SetQueued
  PROVE  ServiceInv'
<1> USE DEF ServiceInv
<1> DEFINE r == req.run
<1>1. ~LockFree BY DEF CreateRow, SetQueued, LockFree, NoReq
<1>2. PICK new \in {"created", "queued"}, at \in {"row", "queued"} :
        /\ status' = [status EXCEPT ![req.run] = new]
        /\ req' = [req EXCEPT !.at = at]
        /\ new = IF at = "row" THEN "created" ELSE "queued"
  BY DEF CreateRow, SetQueued
<1>3. UNCHANGED <<boundTo, marker, up, slots, scheduled, pending, fifo, work,
                  leaked, lost>>
  BY DEF CreateRow, SetQueued
<1>4. /\ req' \in [run : Run, at : {"bound", "row", "queued"}, repair : BOOLEAN]
      /\ req'.run = r /\ req'.at = at
  BY <1>1, <1>2, RequestTyped
<1>5. ~LockFree' BY <1>4 DEF LockFree, NoReq, Run
<1>6. /\ status' \in [Run -> Status] /\ status'[r] = new
      /\ \A s \in Run : s # r => status'[s] = status[s]
  BY <1>1, <1>2, Typed, RequestTyped DEF Status
<1>7. /\ Rows' = Rows \cup {r} /\ Nonterminal \subseteq Nonterminal'
      /\ Bound' = Bound /\ Working' = Working
  BY <1>1, <1>3, <1>6, RequestTyped
  DEF Nonterminal, Rows, Bound, Working, Terminal
<1>8. ServiceTypeOK' BY <1>3, <1>4, <1>6 DEF ServiceTypeOK
<1>9. SlotsConserved' BY <1>1, <1>3, <1>5 DEF SlotsConserved
<1>10. Dispatch' BY <1>3, <1>7, Unmoved
<1>11. OneOfOwner' BY <1>3 DEF OneOfOwner
<1>12. Accepted'
  <2>1. ASSUME NEW s \in Run, work[s] = "executing" PROVE status'[s] = "running"
    <3>1. s # r BY <2>1, <1>1, RequestTyped DEF Dispatch, Working
    <3> QED BY <3>1, <2>1, <1>6 DEF Accepted
  <2> QED BY <2>1, <1>3, <1>7 DEF Accepted, InQueue
<1>13. RequestShape'
  BY <1>1, <1>2, <1>3, <1>4, <1>5, <1>6, <1>7, RequestTyped
  DEF RequestShape, InQueue
<1>14. Owned' /\ DownIsEmpty'
  BY <1>1, <1>3, <1>7, RequestTyped DEF Owned, DownIsEmpty
<1> QED BY <1>8, <1>9, <1>10, <1>11, <1>12, <1>13, <1>14

(* The request hands its run to the executor.                              *)
LEMMA SubmitInv ==
  ASSUME ServiceInv, Submit
  PROVE  ServiceInv'
<1> USE DEF ServiceInv
<1> DEFINE r == req.run
<1>1. ~LockFree /\ req.at = "queued" BY DEF Submit, LockFree, NoReq
<1>2. /\ scheduled' = scheduled \cup {r} /\ fifo' = Append(fifo, r)
      /\ req' = NoReq
      /\ UNCHANGED <<boundTo, status, marker, up, slots, pending, work, leaked,
                     lost>>
  BY DEF Submit, durable
<1>3. LockFree' BY <1>2 DEF LockFree
<1>4. r \notin InQueue(fifo) BY <1>1, RequestTyped, Typed
<1>5. /\ fifo' \in Seq(Run) /\ Distinct(fifo')
      /\ InQueue(fifo') = InQueue(fifo) \cup {r}
  BY <1>1, <1>2, <1>4, Typed, RequestTyped, AppendQueue DEF Dispatch
<1>6. Cardinality(scheduled') = Cardinality(scheduled) + 1
  <2>1. IsFiniteSet(scheduled) BY Typed, RunsFinite
  <2> QED BY <1>1, <1>2, <2>1, RequestTyped, FS_AddElement
<1>7. /\ Rows' = Rows /\ Nonterminal' = Nonterminal
      /\ Bound' = Bound /\ Working' = Working
  BY <1>2 DEF Nonterminal, Rows, Bound, Working
<1>8. ServiceTypeOK'
  BY <1>1, <1>2, <1>5, Typed, RequestTyped DEF ServiceTypeOK
<1>9. SlotsConserved' BY <1>1, <1>2, <1>3, <1>6, Typed DEF SlotsConserved
<1>10. Dispatch'
  <2>1. Distinct(pending)' /\ InQueue(pending)' = InQueue(pending)
    BY <1>2 DEF Dispatch, Distinct, InQueue
  <2>2. r \notin Working BY <1>1, RequestTyped DEF Dispatch
  <2>3. Distinct(fifo)' /\ InQueue(fifo)' = InQueue(fifo) \cup {r}
    BY <1>5 DEF Distinct, InQueue
  <2> QED BY <2>1, <2>2, <2>3, <1>1, <1>2, <1>7, RequestTyped DEF Dispatch
<1>11. OneOfOwner' BY <1>2 DEF OneOfOwner
<1>12. Accepted'
  <2>1. status[r] = "queued" BY <1>1 DEF RequestShape
  <2>2. r \in Nonterminal /\ r \in Rows
    BY <1>1, <2>1, RequestTyped DEF Nonterminal, Rows, Terminal
  <2>3. InQueue(pending)' = InQueue(pending) BY <1>2 DEF InQueue
  <2>4. InQueue(fifo)' = InQueue(fifo) \cup {r} BY <1>5 DEF InQueue
  <2> QED BY <2>2, <2>3, <2>4, <1>1, <1>2, <1>7, RequestTyped DEF Accepted
<1>13. RequestShape' BY <1>3 DEF RequestShape
<1>14. Owned' /\ DownIsEmpty'
  BY <1>1, <1>2, <1>7, RequestTyped DEF Owned, DownIsEmpty
<1> QED BY <1>8, <1>9, <1>10, <1>11, <1>12, <1>13, <1>14

(* The request fails, and perhaps its handler too.                         *)
LEMMA FailureInv ==
  ASSUME ServiceInv, RequestFails \/ HandlerFails
  PROVE  ServiceInv'
<1> USE DEF ServiceInv
<1> DEFINE r == req.run
<1>1. ~LockFree BY DEF RequestFails, HandlerFails
<1>2. /\ req' = NoReq
      /\ \/ slots' = slots + 1 /\ leaked' = leaked
         \/ slots' = slots /\ leaked' = leaked + 1
      /\ lost' = lost \/ lost' = lost \cup {r} \/ lost' = lost \cup ({r} \cap Rows)
      /\ UNCHANGED <<marker, up, scheduled, pending, fifo, work>>
  BY DEF RequestFails, HandlerFails, FreedByFailure, AfterFailure, durable
<1>3. \/ /\ r \notin Rows
         /\ boundTo' = [boundTo EXCEPT ![r] = NoKey] /\ UNCHANGED status
      \/ /\ r \in Rows
         /\ status' = [status EXCEPT ![r] = "failed"] /\ UNCHANGED boundTo
      \/ UNCHANGED <<boundTo, status>>
  BY DEF RequestFails, HandlerFails, AfterFailure, durable
<1>4. LockFree' BY <1>2 DEF LockFree
<1>5. /\ boundTo' \in [Run -> Key \cup {NoKey}] /\ status' \in [Run -> Status]
      /\ \A s \in Run : s # r => boundTo'[s] = boundTo[s] /\ status'[s] = status[s]
  BY <1>1, <1>3, Typed, RequestTyped DEF Status
<1>6. Rows' = Rows /\ Working' = Working
  BY <1>2, <1>3, <1>5 DEF Rows, Working
<1>7. /\ \A s \in Run : s # r /\ s \in Bound => s \in Bound'
      /\ \A s \in Run : s # r /\ s \in Nonterminal => s \in Nonterminal'
      /\ r \in Rows => r \in Bound'
  BY <1>1, <1>3, <1>5, RequestTyped DEF Rows, Bound, Nonterminal
<1>8. ServiceTypeOK'
  <2>1. slots + Cardinality(scheduled) + 1 + leaked = Capacity
    BY <1>1 DEF SlotsConserved
  <2>2. slots + 1 \in 0 .. Capacity /\ slots \in 0 .. Capacity
    BY <2>1, Typed
  <2>3. slots' \in 0 .. Capacity /\ leaked' \in Nat
    BY <1>2, <2>2, Typed
  <2> QED BY <2>3, <1>1, <1>2, <1>5, RequestTyped DEF ServiceTypeOK
<1>9. SlotsConserved'
  <2>1. slots + Cardinality(scheduled) + 1 + leaked = Capacity
    BY <1>1 DEF SlotsConserved
  <2>2. Cardinality(scheduled') = Cardinality(scheduled) BY <1>2
  <2>3. slots' + Cardinality(scheduled') + 0 + leaked' = Capacity
    BY <1>2, <2>1, <2>2, Typed
  <2> QED BY <1>4, <2>3 DEF SlotsConserved
<1>10. Dispatch' BY <1>2, <1>6, Unmoved
<1>11. OneOfOwner'
  <2>1. \A s \in Run : work[s] = "executing" => s # r
    BY <1>1, RequestTyped DEF Dispatch, Working
  <2> QED BY <2>1, <1>2, <1>5 DEF OneOfOwner
<1>12. Accepted'
  <2>1. /\ InQueue(fifo)' = InQueue(fifo)
        /\ InQueue(pending)' = InQueue(pending)
    BY <1>2 DEF InQueue
  <2>2. r \notin InQueue(fifo) /\ r \notin InQueue(pending) /\ r \notin scheduled
    BY <1>1, RequestTyped, Typed
  <2>3. /\ InQueue(pending) \subseteq Run /\ scheduled \subseteq Run
        /\ InQueue(fifo) \subseteq Run
    BY Typed, InQueueDef
  <2>4. \A s \in Run : work[s] # "idle" => s # r
    BY <2>2 DEF Dispatch, Working
  <2> QED BY <2>1, <2>2, <2>3, <2>4, <1>2, <1>5, <1>6, <1>7 DEF Accepted
<1>13. RequestShape' BY <1>4 DEF RequestShape
<1>14. Owned' /\ DownIsEmpty'
  <2>1. Rows \subseteq Run BY DEF Rows
  <2> QED BY <2>1, <1>1, <1>2, <1>6, <1>7, RequestTyped DEF Owned, DownIsEmpty
<1> QED BY <1>8, <1>9, <1>10, <1>11, <1>12, <1>13, <1>14

(* A worker thread takes the next run.                                     *)
LEMMA TakeInv ==
  ASSUME ServiceInv, Take
  PROVE  ServiceInv'
<1> USE DEF ServiceInv
<1> DEFINE r == Head(fifo)
<1>1. /\ fifo # <<>> /\ work' = [work EXCEPT ![r] = "waiting"]
      /\ fifo' = Tail(fifo)
      /\ UNCHANGED <<boundTo, status, marker, up, slots, scheduled, pending, req,
                     leaked, lost>>
  BY DEF Take, durable
<1>2. /\ r \in Run /\ r \in InQueue(fifo)
      /\ fifo' \in Seq(Run) /\ Distinct(fifo')
      /\ InQueue(fifo') = InQueue(fifo) \ {r}
  BY <1>1, Typed, TailQueue DEF Dispatch
<1> HIDE DEF r
<1>3. /\ work' \in [Run -> {"idle", "waiting", "executing", "done"}]
      /\ work'[r] = "waiting"
      /\ \A s \in Run : s # r => work'[s] = work[s]
  BY <1>1, <1>2, Typed
<1>4. /\ Rows' = Rows /\ Nonterminal' = Nonterminal /\ Bound' = Bound
      /\ Working' = Working \cup {r} /\ LockFree' = LockFree
      /\ InQueue(pending)' = InQueue(pending)
      /\ InQueue(fifo)' = InQueue(fifo) \ {r}
  <2>1. Rows' = Rows /\ Nonterminal' = Nonterminal /\ Bound' = Bound
    BY <1>1 DEF Nonterminal, Rows, Bound
  <2>2. Working' = Working \cup {r} BY <1>2, <1>3 DEF Working
  <2>3. LockFree' = LockFree /\ InQueue(pending)' = InQueue(pending)
    BY <1>1 DEF LockFree, InQueue
  <2>4. InQueue(fifo)' = InQueue(fifo) \ {r} BY <1>2 DEF InQueue
  <2> QED BY <2>1, <2>2, <2>3, <2>4
<1>5. ServiceTypeOK' BY <1>1, <1>2, <1>3 DEF ServiceTypeOK
<1>6. SlotsConserved' BY <1>1, <1>4 DEF SlotsConserved
<1>7. Dispatch'
  <2>1. Distinct(fifo)' /\ Distinct(pending)'
    BY <1>1, <1>2 DEF Dispatch, Distinct
  <2>2. r \in scheduled BY <1>2, Typed
  <2> QED BY <2>1, <2>2, <1>1, <1>2, <1>4 DEF Dispatch
<1>8. OneOfOwner' BY <1>1, <1>3 DEF OneOfOwner
<1>9. Accepted'
  <2>1. r \in Nonterminal BY <1>2 DEF Accepted
  <2> QED BY <2>1, <1>1, <1>3, <1>4 DEF Accepted
<1>10. RequestShape' BY <1>1, <1>4 DEF RequestShape
<1>11. Owned' /\ DownIsEmpty'
  BY <1>1, <1>4 DEF Owned, DownIsEmpty
<1> QED BY <1>5, <1>6, <1>7, <1>8, <1>9, <1>10, <1>11

(* A worker executes its run, which ends or fails.                         *)
LEMMA WorkInv ==
  ASSUME ServiceInv, NEW r \in Run,
         \/ Execute(r) \/ ExecutionFails(r)
         \/ \E outcome \in {"completed", "partial"} : Finish(r, outcome)
  PROVE  ServiceInv'
<1> USE DEF ServiceInv
<1>1. UNCHANGED <<boundTo, marker, up, slots, scheduled, pending, fifo, req,
                  leaked>>
  BY DEF Execute, ExecutionFails, Finish
<1>2. lost' = lost \/ lost' = lost \cup {r}
  BY DEF Execute, ExecutionFails, Finish
<1>3. \/ /\ work[r] = "waiting" /\ MayExecute(r)
         /\ work' = [work EXCEPT ![r] = "executing"]
         /\ status' = [status EXCEPT ![r] = "running"]
      \/ /\ work[r] = "executing"
         /\ work' = [work EXCEPT ![r] = "done"]
         /\ \/ UNCHANGED status
            \/ \E outcome \in Terminal : status' = [status EXCEPT ![r] = outcome]
  <2>1. CASE Execute(r)
    <3>1. status[r] # "completed"
      BY <2>1 DEF Execute, Accepted, Nonterminal, Terminal
    <3> QED BY <2>1, <3>1 DEF Execute
  <2>2. CASE ExecutionFails(r) BY <2>2 DEF ExecutionFails, Terminal
  <2>3. CASE \E outcome \in {"completed", "partial"} : Finish(r, outcome)
    BY <2>3 DEF Finish, Terminal
  <2> QED BY <2>1, <2>2, <2>3
<1>4. /\ work' \in [Run -> {"idle", "waiting", "executing", "done"}]
      /\ status' \in [Run -> Status]
      /\ work[r] # "idle" /\ work'[r] # "idle" /\ work'[r] # "waiting"
      /\ work'[r] = "executing" => status'[r] = "running" /\ MayExecute(r)
      /\ status[r] # "none" /\ status'[r] # "none"
      /\ \A s \in Run : s # r => work'[s] = work[s] /\ status'[s] = status[s]
  <2>1. status[r] # "none"
    BY <1>3 DEF Accepted, Dispatch, Working, Rows
  <2>2. CASE work' = [work EXCEPT ![r] = "executing"]
    <3>1. /\ MayExecute(r) /\ work[r] = "waiting"
          /\ status' = [status EXCEPT ![r] = "running"]
      BY <1>3, <2>2, Typed
    <3> QED BY <2>1, <2>2, <3>1, Typed DEF Status
  <2>3. CASE work' = [work EXCEPT ![r] = "done"]
    <3>1. work[r] = "executing" /\ work'[r] = "done"
      BY <1>3, <2>3, Typed
    <3>2. \/ status' = status
          \/ \E outcome \in Terminal : status' = [status EXCEPT ![r] = outcome]
      BY <1>3, <3>1, Typed
    <3>3. /\ status' \in [Run -> Status] /\ status'[r] # "none"
          /\ \A s \in Run : s # r => status'[s] = status[s]
      BY <2>1, <3>2, Typed DEF Status, Terminal
    <3> QED BY <2>1, <2>3, <3>1, <3>3, Typed
  <2> QED BY <1>3, <2>2, <2>3
<1>5. /\ Rows' = Rows /\ Bound' = Bound /\ Working' = Working
      /\ LockFree' = LockFree
      /\ InQueue(pending)' = InQueue(pending) /\ InQueue(fifo)' = InQueue(fifo)
      /\ \A s \in Run : s # r => (s \in Nonterminal' <=> s \in Nonterminal)
  BY <1>1, <1>4 DEF Rows, Bound, Working, LockFree, InQueue, Nonterminal
<1>6. r \in scheduled /\ r \notin InQueue(fifo) /\ r \notin InQueue(pending)
  BY <1>4 DEF Dispatch, Working
<1>7. ServiceTypeOK' BY <1>1, <1>2, <1>4 DEF ServiceTypeOK
<1>8. SlotsConserved' BY <1>1, <1>5 DEF SlotsConserved
<1>9. Dispatch' BY <1>1, <1>5, Unmoved
<1>10. OneOfOwner' BY <1>1, <1>4 DEF OneOfOwner, MayExecute
<1>11. Accepted'
  <2>1. InQueue(fifo) \subseteq Run /\ InQueue(pending) \subseteq Run
    BY Typed, InQueueDef
  <2> QED BY <2>1, <1>1, <1>4, <1>5, <1>6 DEF Accepted
<1>12. RequestShape'
  <2>1. ~LockFree => req.run # r BY <1>6, RequestTyped
  <2> QED BY <2>1, <1>1, <1>4, <1>5, RequestTyped DEF RequestShape
<1>13. Owned' /\ DownIsEmpty'
  BY <1>1, <1>4, <1>5 DEF Owned, DownIsEmpty
<1> QED BY <1>7, <1>8, <1>9, <1>10, <1>11, <1>12, <1>13

(* Whatever drains the recovery queue - a repeat of a request, a worker    *)
(* that is done, a start - preserves the invariant: queue and taken are    *)
(* what is pending and scheduled now, free the permits.                    *)
LEMMA DrainInv ==
  ASSUME ServiceInv, LockFree,
         NEW free \in Nat, NEW queue \in Seq(Run), NEW taken \in SUBSET Run,
         Drain(free, queue, taken),
         free + Cardinality(taken) + leaked = Capacity,
         Distinct(queue), InQueue(queue) \cap taken = {},
         InQueue(queue) \subseteq Bound \cap Nonterminal,
         work' \in [Run -> {"idle", "waiting", "executing", "done"}],
         \A s \in Run : work'[s] = "idle" \/ work'[s] = work[s],
         taken = InQueue(fifo) \cup Working',
         up' = "up", marker' = TRUE, lost' \subseteq Run,
         UNCHANGED <<boundTo, status, req, leaked>>
  PROVE  ServiceInv'
<1> USE DEF ServiceInv
<1>1. PICK new \in SUBSET InQueue(queue) : Drained(free, queue, taken, new)
  <2>1. /\ fifo \in Seq(Run) /\ Distinct(fifo) /\ InQueue(fifo) \subseteq taken
    BY Typed DEF Dispatch
  <2> QED BY <2>1, DrainEffect
<1> USE <1>1 DEF Drained
<1>2. /\ Rows' = Rows /\ Nonterminal' = Nonterminal /\ Bound' = Bound
      /\ LockFree'
  BY DEF Nonterminal, Rows, Bound, LockFree
<1>3. InQueue(pending)' = InQueue(queue) \ new BY <1>1 DEF InQueue
<1>4. InQueue(fifo)' = InQueue(fifo) \cup new BY <1>1 DEF InQueue
<1>5. Working' \subseteq Working BY DEF Working
<1>6. scheduled' \in SUBSET Run BY <1>1, InQueueDef
<1>7. Cardinality(scheduled') \in Nat BY <1>6, RunsFinite
<1>8. slots' + Cardinality(scheduled') + leaked = Capacity
  BY <1>1, <1>7, RunsFinite, Typed
<1>9. SlotsConserved' BY <1>1, <1>2, <1>7, <1>8, Typed DEF SlotsConserved
<1>10. ServiceTypeOK'
  <2>1. slots' \in Nat BY <1>1
  <2>2. slots' \in 0 .. Capacity
    <3>1. \A a, b, c, d \in Nat : a + b + c = d => a \in 0 .. d BY Z3
    <3>2. leaked \in Nat /\ Capacity \in Nat BY Typed
    <3> HIDE <1>1 DEF Drained, ServiceInv
    <3> QED BY <2>1, <1>7, <1>8, <3>1, <3>2, Zenon
  <2> QED BY <2>2, <1>1, <1>6 DEF ServiceTypeOK
<1>11. Dispatch'
  <2>1. Distinct(fifo)' /\ Distinct(pending)' BY <1>1 DEF Distinct
  <2>2. InQueue(fifo) \cap Working' = {} BY <1>5 DEF Dispatch
  <2> QED BY <2>1, <2>2, <1>1, <1>3, <1>4 DEF Dispatch
<1>12. OneOfOwner' BY DEF OneOfOwner
<1>13. Accepted'
  <2>1. scheduled' \subseteq Bound \cap Rows
    <3>1. Nonterminal \subseteq Rows BY DEF Nonterminal
    <3> QED BY <3>1, <1>1, <1>5 DEF Accepted, Dispatch
  <2>2. InQueue(queue) \subseteq Rows BY DEF Nonterminal
  <2> QED BY <2>1, <2>2, <1>1, <1>2, <1>3, <1>4 DEF Accepted
<1>14. RequestShape' BY <1>2 DEF RequestShape
<1>15. Owned' /\ DownIsEmpty' BY <1>2 DEF Owned, DownIsEmpty
<1> QED BY <1>9, <1>10, <1>11, <1>12, <1>13, <1>14, <1>15

(* A repeat of a request whose run is not in the executor.                 *)
LEMMA ReplayInv ==
  ASSUME ServiceInv, NEW r \in Run, ReplayRun(r)
  PROVE  ServiceInv'
<1> DEFINE queue == Append(pending, r)
<1>1. /\ up = "up" /\ LockFree /\ NeedsScheduling(r)
      /\ Drain(slots, queue, scheduled) /\ lost' = lost \ {r}
      /\ UNCHANGED <<boundTo, status, marker, up, work, req, leaked>>
  BY DEF ReplayRun, durable
<1>2. /\ queue \in Seq(Run) /\ Distinct(queue)
      /\ InQueue(queue) = InQueue(pending) \cup {r}
  BY <1>1, Typed, AppendQueue DEF NeedsScheduling, ServiceInv, Dispatch
<1> HIDE DEF queue
<1>3. /\ InQueue(queue) \cap scheduled = {}
      /\ InQueue(queue) \subseteq Bound \cap Nonterminal
  BY <1>1, <1>2 DEF NeedsScheduling, ServiceInv, Dispatch, Accepted
<1>4. Working' = Working BY <1>1 DEF Working
<1>5. scheduled = InQueue(fifo) \cup Working' BY <1>4 DEF ServiceInv, Dispatch
<1>6. slots + Cardinality(scheduled) + leaked = Capacity
  BY <1>1, Typed DEF ServiceInv, SlotsConserved
<1>7. marker' = TRUE BY <1>1 DEF ServiceInv, Owned, ServiceTypeOK
<1>8. work' \in [Run -> {"idle", "waiting", "executing", "done"}]
      /\ lost' \subseteq Run /\ work' = work
  BY <1>1, Typed
<1> QED BY <1>1, <1>2, <1>3, <1>5, <1>6, <1>7, <1>8, Typed, DrainInv

(* The done callback of a worker.                                          *)
LEMMA ReleaseInv ==
  ASSUME ServiceInv, NEW r \in Run, release_slot(r)
  PROVE  ServiceInv'
<1>1. /\ work[r] = "done" /\ LockFree /\ work' = [work EXCEPT ![r] = "idle"]
      /\ UNCHANGED <<boundTo, status, marker, up, req, leaked, lost>>
  BY DEF release_slot, durable
<1>2. /\ work' \in [Run -> {"idle", "waiting", "executing", "done"}]
      /\ \A s \in Run : work'[s] = "idle" \/ work'[s] = work[s]
      /\ Working' = Working \ {r} /\ r \in Working
  BY <1>1, Typed DEF Working
<1> DEFINE taken == scheduled \ {r}
<1>3. /\ taken \in SUBSET Run /\ taken = InQueue(fifo) \cup Working'
      /\ r \in scheduled
  BY <1>2, Typed DEF ServiceInv, Dispatch
<1>4. Cardinality(taken) = Cardinality(scheduled) - 1
  BY <1>3, Typed, RunsFinite, FS_RemoveElement
<1>5. slots + 1 + Cardinality(taken) + leaked = Capacity /\ slots + 1 \in Nat
  <2>1. slots \in Nat /\ leaked \in Nat BY Typed
  <2>2. Cardinality(scheduled) \in Nat BY Typed, RunsFinite
  <2>3. slots + Cardinality(scheduled) + 0 + leaked = Capacity
    <3>1. (IF LockFree THEN 0 ELSE 1) = 0 BY <1>1
    <3>2. slots + Cardinality(scheduled) + (IF LockFree THEN 0 ELSE 1) + leaked
            = Capacity
      BY Zenon DEF ServiceInv, SlotsConserved
    <3> QED BY <3>1, <3>2, Zenon
  <2> HIDE DEF taken
  <2> QED BY <1>4, <2>1, <2>2, <2>3
<1> HIDE DEF taken
<1>6. CASE up = "up"
  <2>1. Drain(slots + 1, pending, taken) BY <1>6 DEF release_slot, taken
  <2>2. /\ Distinct(pending) /\ InQueue(pending) \cap taken = {}
        /\ InQueue(pending) \subseteq Bound \cap Nonterminal
    BY DEF ServiceInv, Dispatch, Accepted, taken
  <2>3. marker' = TRUE BY <1>1, <1>6 DEF ServiceInv, Owned, ServiceTypeOK
  <2>4. lost' \subseteq Run /\ up' = "up" BY <1>1, <1>6, Typed
  <2> QED BY <1>1, <1>2, <1>3, <1>5, <2>1, <2>2, <2>3, <2>4, Typed, DrainInv
<1>7. CASE up # "up"
  <2> USE DEF ServiceInv
  <2>1. slots' = slots + 1 /\ scheduled' = taken /\ UNCHANGED <<pending, fifo>>
    BY <1>7 DEF release_slot, taken
  <2>2. /\ Rows' = Rows /\ Nonterminal' = Nonterminal /\ Bound' = Bound
        /\ LockFree'
    BY <1>1 DEF Nonterminal, Rows, Bound, LockFree
  <2>3. /\ InQueue(pending)' = InQueue(pending) /\ InQueue(fifo)' = InQueue(fifo)
        /\ Distinct(fifo)' /\ Distinct(pending)'
    BY <2>1 DEF InQueue, Distinct, Dispatch
  <2>4. Cardinality(taken) \in Nat BY <1>3, RunsFinite
  <2>5. ServiceTypeOK'
    BY <1>1, <1>2, <1>3, <1>5, <2>1, <2>4, Typed DEF ServiceTypeOK
  <2>6. SlotsConserved' BY <1>1, <1>5, <2>1, <2>2, <2>4, Typed DEF SlotsConserved
  <2>7. Dispatch' BY <1>2, <1>3, <2>1, <2>3 DEF Dispatch, taken
  <2>8. OneOfOwner' BY <1>1, <1>2 DEF OneOfOwner
  <2>9. Accepted' BY <1>1, <1>2, <2>1, <2>2, <2>3 DEF Accepted, taken
  <2>10. RequestShape' BY <2>2 DEF RequestShape
  <2>11. up # "down" BY <1>2 DEF DownIsEmpty, Working
  <2>12. Owned' /\ DownIsEmpty' BY <1>1, <2>2, <2>11 DEF Owned, DownIsEmpty
  <2> QED BY <2>5, <2>6, <2>7, <2>8, <2>9, <2>10, <2>12
<1> QED BY <1>6, <1>7

(* The constructor recovers what has not ended.                            *)
LEMMA StartInv ==
  ASSUME ServiceInv, Start
  PROVE  ServiceInv'
<1> DEFINE todo == Bound \cap Nonterminal
<1>1. PICK queue \in InOrder(todo) : Drain(slots, queue, {}) BY DEF Start
<1>2. /\ up = "down" /\ up' = "up" /\ marker' = TRUE
      /\ UNCHANGED <<boundTo, status, work, req, leaked, lost>>
  BY DEF Start
<1>3. Cardinality(todo) \in Nat BY RunsFinite DEF Bound
<1>4. /\ queue \in Seq(Run) /\ Len(queue) = Cardinality(todo)
      /\ \A i \in 1 .. Len(queue) : queue[i] \in todo
      /\ \A i, j \in 1 .. Len(queue) : i < j => queue[i] < queue[j]
  <2>1. queue \in [1 .. Cardinality(todo) -> todo] BY <1>1 DEF InOrder
  <2>2. queue \in [1 .. Cardinality(todo) -> Run] BY <2>1 DEF Bound
  <2>3. queue \in Seq(Run)
    <3>1. queue \in UNION {[1 .. n -> Run] : n \in Nat} BY <1>3, <2>2
    <3> QED BY <3>1, SeqDef, Zenon
  <2>4. 1 .. Len(queue) = 1 .. Cardinality(todo) /\ Len(queue) \in Nat
    BY <2>1, <2>3, LenProperties
  <2>5. Len(queue) = Cardinality(todo) BY <1>3, <2>4
  <2> QED BY <1>1, <2>1, <2>3, <2>5 DEF InOrder
<1> HIDE DEF todo
<1>5. Distinct(queue)
  <2> SUFFICES ASSUME NEW i \in 1 .. Len(queue), NEW j \in 1 .. Len(queue),
                      queue[i] = queue[j]
               PROVE i = j
    BY DEF Distinct
  <2>1. Len(queue) \in Nat BY <1>4, LenProperties
  <2>2. queue[i] \in Int /\ queue[j] \in Int
    BY <1>4 DEF todo, Bound, Run
  <2>3. ~(i < j) /\ ~(j < i) BY <1>4, <2>2
  <2> QED BY <2>1, <2>3
<1>6. InQueue(queue) \subseteq Bound \cap Nonterminal
  BY <1>4 DEF InQueue, todo
<1>7. /\ slots = Capacity /\ leaked = 0 /\ LockFree /\ fifo = <<>>
      /\ work = [r \in Run |-> "idle"]
  BY <1>2 DEF ServiceInv, DownIsEmpty, LockFree
<1>8. {} = InQueue(fifo) \cup Working'
  BY <1>2, <1>7, EmptySeq DEF InQueue, Working
<1>9. slots + Cardinality({}) + leaked = Capacity
  BY <1>7, Typed, FS_EmptySet
<1>10. /\ work' \in [Run -> {"idle", "waiting", "executing", "done"}]
       /\ work' = work /\ lost' \subseteq Run
  BY <1>2, Typed
<1>11. {} \in SUBSET Run /\ InQueue(queue) \cap {} = {} OBVIOUS
<1> QED
  BY <1>1, <1>2, <1>4, <1>5, <1>6, <1>7, <1>8, <1>9, <1>10, <1>11, Typed, DrainInv

(* close: no request is under way.                                         *)
LEMMA CloseInv ==
  ASSUME ServiceInv, close
  PROVE  ServiceInv'
<1> USE DEF ServiceInv
<1>1. /\ up = "up" /\ up' = "closing" /\ LockFree
      /\ UNCHANGED <<boundTo, status, marker, slots, scheduled, pending, fifo,
                     work, req, leaked, lost>>
  BY DEF close, durable
<1>2. /\ Rows' = Rows /\ Nonterminal' = Nonterminal /\ Bound' = Bound
      /\ Working' = Working /\ LockFree' /\ LockFree
      /\ InQueue(pending)' = InQueue(pending) /\ InQueue(fifo)' = InQueue(fifo)
  BY <1>1 DEF Nonterminal, Rows, Bound, Working, LockFree, InQueue
<1>3. ServiceTypeOK' BY <1>1 DEF ServiceTypeOK
<1>4. SlotsConserved' BY <1>1, <1>2 DEF SlotsConserved
<1>5. Dispatch' BY <1>1, <1>2, Unmoved
<1>6. OneOfOwner' BY <1>1 DEF OneOfOwner
<1>7. Accepted' BY <1>1, <1>2 DEF Accepted
<1>8. RequestShape' /\ Owned' /\ DownIsEmpty'
  BY <1>1, <1>2 DEF RequestShape, Owned, DownIsEmpty
<1> QED BY <1>3, <1>4, <1>5, <1>6, <1>7, <1>8

(* The process ends, and with it everything in memory.                     *)
LEMMA GoneInv ==
  ASSUME ServiceInv, Gone, UNCHANGED durable
  PROVE  ServiceInv'
<1> USE DEF ServiceInv
<1>1. /\ up' = "down" /\ slots' = Capacity /\ scheduled' = {} /\ pending' = <<>>
      /\ fifo' = <<>> /\ work' = [r \in Run |-> "idle"] /\ req' = NoReq
      /\ leaked' = 0 /\ lost' = {}
      /\ UNCHANGED <<boundTo, status, marker>>
  BY DEF Gone, durable
<1>2. /\ Rows' = Rows /\ Bound' = Bound /\ Working' = {} /\ LockFree'
      /\ InQueue(pending)' = {} /\ InQueue(fifo)' = {}
      /\ Distinct(fifo)' /\ Distinct(pending)'
  BY <1>1 DEF Rows, Bound, Working, LockFree, InQueue, Distinct
<1>3. ServiceTypeOK'
  <2>1. pending' \in Seq(Run) /\ fifo' \in Seq(Run) BY <1>1, EmptySeq
  <2>2. work' \in [Run -> {"idle", "waiting", "executing", "done"}] BY <1>1
  <2>3. slots' \in 0 .. Capacity BY <1>1, Typed
  <2> QED BY <2>1, <2>2, <2>3, <1>1 DEF ServiceTypeOK
<1>4. SlotsConserved' BY <1>1, <1>2, Typed, FS_EmptySet DEF SlotsConserved
<1>5. Dispatch' BY <1>1, <1>2 DEF Dispatch
<1>6. OneOfOwner' BY <1>1 DEF OneOfOwner
<1>7. Accepted' BY <1>1, <1>2 DEF Accepted
<1>8. RequestShape' /\ Owned' /\ DownIsEmpty'
  BY <1>1, <1>2 DEF RequestShape, Owned, DownIsEmpty
<1> QED BY <1>3, <1>4, <1>5, <1>6, <1>7, <1>8

(* Every step preserves the invariant.                                     *)
LEMMA ServiceStepInv == ServiceInv /\ [ServiceNext]_serviceVars => ServiceInv'
<1> SUFFICES ASSUME ServiceInv, [ServiceNext]_serviceVars PROVE ServiceInv'
  OBVIOUS
<1>1. ASSUME NEW r \in Run, NEW k \in Key, BindRun(k, r) PROVE ServiceInv'
  BY <1>1, BindInv
<1>2. ASSUME NEW r \in Run, RepairRun(r) PROVE ServiceInv' BY <1>2, BindInv
<1>3. ASSUME NEW r \in Run, ReplayRun(r) PROVE ServiceInv' BY <1>3, ReplayInv
<1>4. ASSUME NEW r \in Run, WorkerStep(r) \/ ExecutionFails(r) PROVE ServiceInv'
  BY <1>4, WorkInv, ReleaseInv DEF WorkerStep
<1>5. CASE RequestStep BY <1>5, RowInv, SubmitInv DEF RequestStep
<1>6. CASE RequestFails \/ HandlerFails BY <1>6, FailureInv
<1>7. CASE Take BY <1>7, TakeInv
<1>8. CASE close BY <1>8, CloseInv
<1>9. CASE Closed \/ Crash BY <1>9, GoneInv DEF Closed, Crash
<1>10. CASE Start BY <1>10, StartInv
<1>11. CASE UNCHANGED serviceVars
  <2> USE DEF ServiceInv
  <2>1. /\ UNCHANGED <<boundTo, status, marker, up, slots, scheduled, pending,
                       fifo, work, req, leaked, lost>>
        /\ Working' = Working
    BY <1>11 DEF serviceVars, durable, volatile, Working
  <2>2. ServiceTypeOK' /\ SlotsConserved'
    BY <2>1 DEF ServiceTypeOK, SlotsConserved, LockFree
  <2>3. Dispatch' BY <2>1, Unmoved
  <2>4. OneOfOwner' /\ Accepted'
    BY <2>1 DEF OneOfOwner, Accepted, InQueue, Bound, Rows, Nonterminal
  <2>5. RequestShape' /\ Owned' /\ DownIsEmpty'
    BY <2>1 DEF RequestShape, Owned, DownIsEmpty, LockFree, InQueue, Bound, Rows
  <2> QED BY <2>2, <2>3, <2>4, <2>5
<1> QED
  BY <1>1, <1>2, <1>3, <1>4, <1>5, <1>6, <1>7, <1>8, <1>9, <1>10, <1>11
  DEF ServiceNext

(* The invariant says what the runs check, with cardinalities.             *)
LEMMA InvGivesDispatchedOnce == ServiceInv => DispatchedOnce
<1> SUFFICES ASSUME ServiceInv PROVE DispatchedOnce OBVIOUS
<1>1. Cardinality(InQueue(fifo)) = Len(fifo)
  BY Typed, DistinctCardinality DEF ServiceInv, Dispatch
<1>2. Cardinality(InQueue(pending)) = Len(pending)
  BY Typed, DistinctCardinality DEF ServiceInv, Dispatch
<1> QED BY <1>1, <1>2 DEF ServiceInv, Dispatch, OneOfOwner, DispatchedOnce

(* A service that is down may start: every run row has a binding, and the  *)
(* marker was written before the first of them.                            *)
LEMMA InvGivesNeverLockedOut == ServiceInv => NeverLockedOut
  BY DEF ServiceInv, Owned, NeverLockedOut, MayStart

(* One step of OutcomeFinal.                                               *)
OutcomeStep ==
  \A r \in Run : status[r] \in Terminal => status'[r] = status[r]

(* No request, worker, failure handler or recovery replaces a final outcome. *)
LEMMA OutcomeFinalStep ==
  ASSUME ServiceInv, [ServiceNext]_serviceVars
  PROVE  OutcomeStep
<1>1. CASE UNCHANGED status BY <1>1 DEF OutcomeStep
<1>2. ASSUME NEW r \in Run, status[r] \notin Terminal, NEW s,
             status' = [status EXCEPT ![r] = s]
      PROVE  OutcomeStep
  BY <1>2, Typed DEF OutcomeStep
<1>3. CASE CreateRow \/ SetQueued \/ RequestFails
  <2>1. ~LockFree
    BY <1>3 DEF CreateRow, SetQueued, RequestFails, LockFree, NoReq
  <2>2. req.run \in Run /\ status[req.run] \notin Terminal
    BY <2>1, RequestTyped DEF Terminal
  <2>3. UNCHANGED status \/ \E s : status' = [status EXCEPT ![req.run] = s]
    BY <1>3 DEF CreateRow, SetQueued, RequestFails, AfterFailure
  <2> QED BY <2>2, <2>3, <1>1, <1>2
<1>4. ASSUME NEW r \in Run, WorkerStep(r) \/ ExecutionFails(r)
      PROVE  OutcomeStep
  <2>1. CASE release_slot(r) BY <2>1, <1>1 DEF release_slot, durable
  <2>2. CASE Execute(r) \/ ExecutionFails(r)
             \/ \E outcome \in {"completed", "partial"} : Finish(r, outcome)
    <3>1. status[r] \notin Terminal
      BY <2>2 DEF Execute, ExecutionFails, Finish, ServiceInv, Accepted,
                  Nonterminal, Terminal
    <3>2. UNCHANGED status \/ \E s : status' = [status EXCEPT ![r] = s]
      BY <2>2 DEF Execute, ExecutionFails, Finish
    <3> QED BY <3>1, <3>2, <1>1, <1>2
  <2> QED BY <1>4, <2>1, <2>2 DEF WorkerStep
<1>5. CASE UNCHANGED serviceVars BY <1>5, <1>1 DEF serviceVars, durable
<1>6. ASSUME NEW r \in Run, NEW k \in Key, BindRun(k, r) PROVE OutcomeStep
  BY <1>6, <1>1 DEF BindRun
<1>7. ASSUME NEW r \in Run, RepairRun(r) \/ ReplayRun(r) PROVE OutcomeStep
  BY <1>7, <1>1 DEF RepairRun, ReplayRun, durable
<1>8. CASE Submit \/ HandlerFails \/ Take \/ close \/ Closed \/ Crash \/ Start
  BY <1>8, <1>1 DEF Submit, HandlerFails, Take, close, Closed, Crash, Start, durable
<1> QED BY <1>3, <1>4, <1>5, <1>6, <1>7, <1>8 DEF ServiceNext, RequestStep

----------------------------------------------------------------------------

(* The inductive invariant holds in every behaviour.                       *)
THEOREM ServiceInvHolds == ServiceSpec => []ServiceInv
  BY ServiceInitInv, ServiceStepInv, PTL DEF ServiceSpec

(* Type correctness of the service application.                            *)
THEOREM ServiceTypeCorrect == ServiceSpec => []ServiceTypeOK
<1>1. ServiceInv => ServiceTypeOK BY DEF ServiceInv
<1> QED BY <1>1, ServiceInvHolds, PTL

(* Whatever fails, closes, crashes or is repeated, every permit is with    *)
(* the semaphore, a scheduled run, the request under way, or lost by a     *)
(* handler that failed itself (_slots of service.py).                      *)
THEOREM PermitsConserved == ServiceSpec => []SlotsConserved
<1>1. ServiceInv => SlotsConserved BY DEF ServiceInv
<1> QED BY <1>1, ServiceInvHolds, PTL

(* No run is dispatched twice, neither by a request, a repeat, a recovery  *)
(* nor a done callback, and one principal's runs execute one by one.       *)
THEOREM RunsDispatchedOnce == ServiceSpec => []DispatchedOnce
  BY InvGivesDispatchedOnce, ServiceInvHolds, PTL

(* No crash or failed request locks the service out of its directory.      *)
THEOREM ServiceMayRestart == ServiceSpec => []NeverLockedOut
  BY InvGivesNeverLockedOut, ServiceInvHolds, PTL

(* A finished run keeps its outcome (the terminal statuses of service.py). *)
THEOREM OutcomesFinal == ServiceSpec => OutcomeFinal
<1>1. ServiceInv /\ [ServiceNext]_serviceVars => [OutcomeStep]_serviceVars
  BY OutcomeFinalStep
<1>2. OutcomeFinal <=> [][OutcomeStep]_serviceVars
  BY DEF OutcomeFinal, OutcomeStep
<1> QED BY <1>1, <1>2, ServiceInvHolds, PTL DEF ServiceSpec

=============================================================================
