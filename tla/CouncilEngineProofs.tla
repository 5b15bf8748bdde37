------------------------- MODULE CouncilEngineProofs -------------------------
(***************************************************************************)
(* Proofs about CouncilEngine, for every number of providers, every budget *)
(* and quorum, and however often the process is killed or interrupted.     *)
(* The invariants are layered: EngineBase types every variable and takes   *)
(* the store's invariant over; the later ones use it in both states of a   *)
(* step.                                                                   *)
(***************************************************************************)
EXTENDS CouncilEngine, InvocationStoreProofs

(* EngineTypeOK in parts.                                                  *)
Errors == Error \cup {"none"}

RunTypeOK ==
  /\ runStatus \in {"created", "running", "completed", "partial", "failed"}
  /\ result \in [status : {"none", "completed", "partial", "failed"},
                 clean : BOOLEAN, answer : Provider \cup {NoAnswer}]
  /\ nsLock \in [members : SUBSET Provider, failed : SUBSET Provider]
  /\ adjLock \in [valid : SUBSET Provider, invalid : SUBSET Provider,
                  failed : SUBSET Provider]
  /\ fallbacks \in Seq(Failure)
  /\ truncRec \in [Slot -> SUBSET AuditStatus]
  /\ repairEvents \in [Provider -> [status : AuditStatus, cause : Failure]]

ReservationsTypeOK ==
  reservations \subseteq [slot : Slot, attempt : Nat,
                          state : {"reserved", "reconciled", "released"}]

ControlTypeOK ==
  /\ pc \in {"idle", "begin", "run", "draining", "adjudicate", "synth"}
  /\ stage \in Stages
  /\ pos \in 1 .. Len(Synth) /\ startPos \in 1 .. Len(Synth)
  /\ {expired, nested} \subseteq BOOLEAN
  /\ failedSlots \subseteq Slot

PassTypeOK ==
  /\ prompts \subseteq Provider /\ succ \subseteq Provider
  /\ recoverable \subseteq Provider /\ noted \subseteq Provider
  /\ prior \in [Provider -> Row]
  /\ fail \in [Provider -> Failure]
  /\ pending \in [Provider -> [status : AuditStatus, cause : Failure]]

ThreadTypeOK ==
  thread \in [Provider -> [at : {"idle", "queued", "started", "leased",
                                 "done", "accounted"}, out : Outs]]

HistoryTypeOK == sent \subseteq Slot \X Nat /\ unresolved \subseteq Slot

BoundsTypeOK ==
  resumes \in 0 .. MaxResumes + MaxCrashes /\ crashes \in 0 .. MaxCrashes

(* The position of a resume is the one after the recorded fallbacks, which *)
(* leave at least the last synthesis provider.                             *)
PositionOK ==
  /\ Len(fallbacks) < Len(Synth)
  /\ pc # "idle" => pos = Len(fallbacks) + 1

(* A failed copy of a row has its error and no response.                   *)
PriorShape == \A p \in Provider :
                prior[p].status = "failed" =>
                  prior[p].error \in Error /\ prior[p].response = "none"

EngineBase ==
  /\ StoreInv
  /\ RunTypeOK /\ ReservationsTypeOK /\ ControlTypeOK /\ PassTypeOK
  /\ ThreadTypeOK /\ HistoryTypeOK /\ BoundsTypeOK
  /\ PositionOK /\ PriorShape

----------------------------------------------------------------------------
(* The constants and the small records.                                    *)

(* The engine runs the store on its four stages.                           *)
LEMMA StageType == Stage = Stages BY EngineAssumption

(* Every provider has a slot, its invocation key, in each stage.           *)
LEMMA SlotOfType == \A st \in Stages, p \in Provider : <<st, p>> \in Slot
  BY StageType DEF Slot

(* config requires a synthesis provider; its fallbacks follow it in order. *)
LEMMA SynthType ==
  /\ Len(Synth) \in Nat /\ Len(Synth) >= 1
  /\ \A i \in 1 .. Len(Synth) : Synth[i] \in Provider
  BY EngineAssumption

(* What the engine keeps of a ProviderError is a failure, stored or not.   *)
LEMMA FailureType ==
  /\ NoFailure \in Failure
  /\ \A row \in Row : Stored(row) \in Failure
  /\ \A kind \in Errors \cup {"deadline", "budget", "denied", "exhausted",
                              "suppressed"} : Unstored(kind) \in Failure
<1>1. NoFailure \in Failure BY DEF NoFailure, Failure
<1>2. ASSUME NEW row \in Row PROVE Stored(row) \in Failure
  BY <1>2 DEF Stored, Failure, Row, Error
<1>3. ASSUME NEW kind \in Errors \cup {"deadline", "budget", "denied",
                                       "exhausted", "suppressed"}
      PROVE  Unstored(kind) \in Failure
  BY <1>3 DEF Unstored, Failure, Errors, Error
<1> QED BY <1>1, <1>2, <1>3

(* The body of an audit event, and the absence of one.                     *)
LEMMA AuditType ==
  /\ NoAudit \in [status : AuditStatus, cause : Failure]
  /\ \A status \in AuditStatus, cause \in Failure :
       Audit(status, cause) \in [status : AuditStatus, cause : Failure]
  BY FailureType DEF NoAudit, Audit, AuditStatus

(* A worker that has no call.                                              *)
LEMMA IdleType ==
  Idle \in [at : {"idle", "queued", "started", "leased", "done",
                  "accounted"}, out : Outs]
  BY DEF Idle, Outs

(* EngineBase is more than the type of the engine's state.                 *)
LEMMA EngineTypeFromParts == EngineBase => EngineTypeOK
  BY DEF EngineBase, StoreInv, RunTypeOK, ReservationsTypeOK, ControlTypeOK,
         PassTypeOK, ThreadTypeOK, HistoryTypeOK, BoundsTypeOK, EngineTypeOK

(* The prompt of a stage is one of the prompts the store knows.            *)
LEMMA PromptType ==
  ASSUME EngineBase, NEW st \in Stages
  PROVE  PromptOf(st) \in Prompt
<1>1. nsLock.members \in SUBSET Provider /\ adjLock.valid \in SUBSET Provider
  BY DEF EngineBase, RunTypeOK
<1>2. Prompt = [members : SUBSET Provider, votes : SUBSET Provider]
  BY EngineAssumption
<1> QED BY <1>1, <1>2 DEF PromptOf

(* What a row and the caller's copy of it are.                             *)
LEMMA RowType ==
  ASSUME EngineBase, NEW p \in Provider
  PROVE  /\ SlotOf(p) \in Slot /\ stage \in Stages
         /\ RowOf(p) = inv[SlotOf(p)] /\ RowOf(p) \in Row
         /\ prior[p] \in Row
         /\ prior[p].status = "failed" => prior[p] \in PriorRow
  BY SlotOfType
  DEF EngineBase, ControlTypeOK, PassTypeOK, PriorShape, PriorRow, StoreInv,
      StoreTypeOK, SlotOf, RowOf

----------------------------------------------------------------------------
(* What a step that leaves some variables alone keeps.                     *)

(* A step that leaves the store alone keeps its invariant.                 *)
LEMMA StoreSame == StoreInv /\ UNCHANGED storeVars => StoreInv'
  BY StoreNextInv

(* The same of the runs and events tables,                                 *)
LEMMA RunSame == RunTypeOK /\ UNCHANGED runVars => RunTypeOK'
  BY DEF RunTypeOK, runVars

(* of the reservations of the call gate,                                   *)
LEMMA ReservationsSame ==
  ReservationsTypeOK /\ UNCHANGED reservations => ReservationsTypeOK'
  BY DEF ReservationsTypeOK

(* of where the process is,                                                *)
LEMMA ControlSame ==
  RunTypeOK /\ ControlTypeOK /\ PositionOK
    /\ UNCHANGED <<fallbacks, ctlVars>> => ControlTypeOK' /\ PositionOK'
  BY DEF ControlTypeOK, PositionOK, ctlVars

(* of the lists of _run_parallel_stage,                                    *)
LEMMA PassSame ==
  PassTypeOK /\ PriorShape /\ UNCHANGED passVars => PassTypeOK' /\ PriorShape'
  BY DEF PassTypeOK, PriorShape, passVars

(* of the worker threads,                                                  *)
LEMMA ThreadSame == ThreadTypeOK /\ UNCHANGED thread => ThreadTypeOK'
  BY DEF ThreadTypeOK

(* of the calls handed over,                                               *)
LEMMA HistorySame == HistoryTypeOK /\ UNCHANGED hisVars => HistoryTypeOK'
  BY DEF HistoryTypeOK, hisVars

(* and of the two counters of the bounds.                                  *)
LEMMA BoundsSame == BoundsTypeOK /\ UNCHANGED bounds => BoundsTypeOK'
  BY DEF BoundsTypeOK, bounds

(* _run_parallel_stage starts with well-formed empty lists.                *)
LEMMA EnterStageType ==
  ASSUME NEW st \in Stages, NEW ps \in SUBSET Provider, EnterStage(st, ps)
  PROVE  /\ PassTypeOK' /\ PriorShape'
         /\ pc' = "begin" /\ stage' \in Stages /\ nested' \in BOOLEAN
<1>1. PassTypeOK'
  BY NoRowType, FailureType, AuditType DEF EnterStage, PassTypeOK
<1>2. PriorShape' BY NoRowFields DEF EnterStage, PriorShape
<1> QED BY <1>1, <1>2 DEF EnterStage

(* What is left when the process is gone.                                  *)
LEMMA ProcessEndsType ==
  ASSUME ProcessEnds, Len(fallbacks) < Len(Synth), UNCHANGED fallbacks
  PROVE  /\ PassTypeOK' /\ PriorShape' /\ ControlTypeOK' /\ ThreadTypeOK'
         /\ PositionOK'
<1>1. PassTypeOK'
  BY NoRowType, FailureType, AuditType DEF ProcessEnds, PassTypeOK
<1>2. PriorShape' BY NoRowFields DEF ProcessEnds, PriorShape
<1>3. ThreadTypeOK' BY IdleType DEF ProcessEnds, ThreadTypeOK
<1>4. ControlTypeOK'
  <2>1. 1 \in 1 .. Len(Synth) BY SynthType
  <2> QED BY <2>1 DEF ProcessEnds, ControlTypeOK, Stages
<1>5. PositionOK' BY DEF ProcessEnds, PositionOK
<1> QED BY <1>1, <1>2, <1>3, <1>4, <1>5

(* A worker changes its thread and what its step says, nothing else.       *)
LEMMA WorkerFrame ==
  ASSUME EngineBase, ThreadFrame,
         StoreInv', ReservationsTypeOK', ThreadTypeOK', HistoryTypeOK'
  PROVE  EngineBase'
<1>1. UNCHANGED runVars /\ UNCHANGED ctlVars /\ UNCHANGED passVars
      /\ UNCHANGED bounds /\ UNCHANGED fallbacks
  BY DEF ThreadFrame, runVars
<1> QED BY <1>1, RunSame, ControlSame, PassSame, BoundsSame DEF EngineBase

(* A worker that moves on is a worker still.                               *)
LEMMA ThreadStepType ==
  ASSUME EngineBase, NEW p \in Provider, NEW out \in Outs,
         NEW at \in {"started", "leased", "done", "accounted"},
         ThreadStep(p, at, out)
  PROVE  ThreadTypeOK'
  BY DEF EngineBase, ThreadTypeOK, ThreadStep

----------------------------------------------------------------------------
(* Every action keeps EngineBase.                                          *)

(* create_run leaves a run without rows, events or process.                *)
LEMMA EngineInitBase == EngineInit => EngineBase
<1> SUFFICES ASSUME EngineInit PROVE EngineBase OBVIOUS
<1>1. StoreInv BY StoreInitInv DEF EngineInit
<1>2. RunTypeOK
  BY AuditType
  DEF EngineInit, RunTypeOK, NoResult, NoNamespace, NoVerdict, NoAnswer
<1>3. ReservationsTypeOK BY DEF EngineInit, ReservationsTypeOK
<1>4. ControlTypeOK
  <2>1. 1 \in 1 .. Len(Synth) BY SynthType
  <2> QED BY <2>1 DEF EngineInit, ControlTypeOK, Stages
<1>5. PassTypeOK
  BY NoRowType, FailureType, AuditType DEF EngineInit, PassTypeOK
<1>6. ThreadTypeOK BY IdleType DEF EngineInit, ThreadTypeOK
<1>7. HistoryTypeOK /\ BoundsTypeOK
  BY EngineAssumption DEF EngineInit, HistoryTypeOK, BoundsTypeOK
<1>8. PositionOK BY SynthType DEF EngineInit, PositionOK
<1>9. PriorShape BY NoRowFields DEF EngineInit, PriorShape
<1> QED BY <1>1, <1>2, <1>3, <1>4, <1>5, <1>6, <1>7, <1>8, <1>9 DEF EngineBase

(* A resume starts from a fallback record its validator accepted, so its   *)
(* position is one of Synth.                                               *)
LEMMA ResumeBase == ASSUME EngineBase, Resume PROVE EngineBase'
<1>1. /\ UNCHANGED storeVars /\ UNCHANGED reservations
      /\ UNCHANGED thread /\ UNCHANGED hisVars
      /\ UNCHANGED <<result, nsLock, adjLock, fallbacks, truncRec,
                     repairEvents, crashes>>
      /\ runStatus' = "running" /\ resumes' = resumes + 1
      /\ expired' = FALSE /\ resumes - crashes < MaxResumes
      /\ pos' = CurrentSynthesis /\ startPos' = CurrentSynthesis
      /\ failedSlots' = {"proposal"} \X nsLock.failed
      /\ EnterStage("proposal", Proposers)
      /\ Len(fallbacks) < Len(Synth)
  BY DEF Resume, StartResume, FallbackStateOK
<1>2. RunTypeOK' BY <1>1 DEF EngineBase, RunTypeOK
<1>3. Proposers \in SUBSET Provider
  BY DEF EngineBase, RunTypeOK, Proposers
<1>4. "proposal" \in Stages BY DEF Stages
<1>5. /\ PassTypeOK' /\ PriorShape' /\ pc' = "begin"
      /\ stage' \in Stages /\ nested' \in BOOLEAN
  BY <1>1, <1>3, <1>4, EnterStageType
<1>6. Len(fallbacks) \in Nat BY DEF EngineBase, RunTypeOK
<1>7. CurrentSynthesis = Len(fallbacks) + 1
      /\ CurrentSynthesis \in 1 .. Len(Synth)
  BY <1>1, <1>6, SynthType DEF CurrentSynthesis
<1>8. {"proposal"} \X nsLock.failed \subseteq Slot
  BY StageType DEF EngineBase, RunTypeOK, Slot, Stages
<1>9. ControlTypeOK' BY <1>1, <1>5, <1>7, <1>8 DEF ControlTypeOK
<1>10. PositionOK' BY <1>1, <1>7 DEF PositionOK
<1>11. BoundsTypeOK'
  <2>1. /\ resumes \in Nat /\ crashes \in Nat /\ crashes <= MaxCrashes
        /\ MaxResumes \in Nat /\ MaxCrashes \in Nat
    BY EngineAssumption DEF EngineBase, BoundsTypeOK
  <2> QED BY <1>1, <2>1 DEF BoundsTypeOK
<1> QED BY <1>1, <1>2, <1>5, <1>9, <1>10, <1>11, StoreSame, ReservationsSame,
           ThreadSame, HistorySame DEF EngineBase

(* A crash, or the end of a drain, leaves the durable record as it is.     *)
LEMMA EndsBase ==
  ASSUME EngineBase, Crash \/ Drained
  PROVE  EngineBase'
<1>1. /\ ProcessEnds /\ UNCHANGED storeVars /\ UNCHANGED reservations
      /\ UNCHANGED hisVars /\ UNCHANGED runVars /\ UNCHANGED resumes
      /\ crashes' = crashes \/ (crashes' = crashes + 1 /\ crashes < MaxCrashes)
  BY DEF Crash, Drained, bounds
<1>2. UNCHANGED fallbacks BY <1>1 DEF runVars
<1>3. /\ PassTypeOK' /\ PriorShape' /\ ControlTypeOK' /\ ThreadTypeOK'
      /\ PositionOK'
  BY <1>1, <1>2, ProcessEndsType DEF EngineBase, PositionOK
<1>4. BoundsTypeOK'
  BY <1>1, EngineAssumption DEF EngineBase, BoundsTypeOK
<1> QED BY <1>1, <1>3, <1>4, StoreSame, RunSame, ReservationsSame,
           HistorySame DEF EngineBase

(* An interrupt and the deadline change where the process is.              *)
LEMMA InterruptBase ==
  ASSUME EngineBase, Interrupt \/ Expire
  PROVE  EngineBase'
<1>1. /\ UNCHANGED storeVars /\ UNCHANGED reservations /\ UNCHANGED hisVars
      /\ UNCHANGED runVars /\ UNCHANGED passVars /\ UNCHANGED thread
      /\ UNCHANGED <<stage, pos, startPos, nested, failedSlots, resumes>>
      /\ crashes' = crashes \/ (crashes' = crashes + 1 /\ crashes < MaxCrashes)
      /\ expired' \in {expired, TRUE} /\ pc' \in {pc, "draining"}
      /\ pc # "idle"
  BY DEF Interrupt, Expire, bounds
<1>2. ControlTypeOK' BY <1>1 DEF EngineBase, ControlTypeOK
<1>3. PositionOK' BY <1>1 DEF EngineBase, PositionOK, runVars
<1>4. BoundsTypeOK'
  BY <1>1, EngineAssumption DEF EngineBase, BoundsTypeOK
<1> QED BY <1>1, <1>2, <1>3, <1>4, StoreSame, RunSame, ReservationsSame,
           PassSame, ThreadSame, HistorySame DEF EngineBase

(* A lost call's row is failed, nothing else changes.                      *)
LEMMA MarkLostBase ==
  ASSUME EngineBase, NEW p \in Provider, MarkLost(p)
  PROVE  EngineBase'
<1>1. /\ finish_invocation_failure(SlotOf(p), "ambiguous")
      /\ UNCHANGED runVars /\ UNCHANGED reservations /\ UNCHANGED ctlVars
      /\ UNCHANGED passVars /\ UNCHANGED thread /\ UNCHANGED hisVars
      /\ UNCHANGED bounds
  BY DEF MarkLost
<1>2. "ambiguous" \in Error BY DEF Error
<1>3. StoreInv' BY <1>1, <1>2, RowType, FinishInv DEF EngineBase
<1>4. UNCHANGED fallbacks BY <1>1 DEF runVars
<1> QED BY <1>1, <1>3, <1>4, RunSame, ControlSame, PassSame, ReservationsSame,
           ThreadSame, HistorySame, BoundsSame DEF EngineBase

(* What is reported for a provider that is not called is a failure.        *)
LEMMA FailureAtBeginType ==
  ASSUME EngineBase, NEW p \in Provider
  PROVE  FailureAtBegin(p) \in Failure
  BY RowType, FailureType DEF FailureAtBegin

(* The lists that _run_parallel_stage fills before it submits calls.       *)
LEMMA BeginStageBase == ASSUME EngineBase, BeginStage PROVE EngineBase'
<1>1. /\ UNCHANGED storeVars /\ UNCHANGED reservations /\ UNCHANGED runVars
      /\ UNCHANGED hisVars /\ UNCHANGED bounds
      /\ UNCHANGED <<expired, stage, pos, startPos, nested, failedSlots,
                     prompts, recoverable>>
      /\ pc = "begin" /\ pc' = "run"
      /\ succ' = succ \cup {p \in prompts : RowOf(p).status = "succeeded"}
      /\ prior' = [p \in Provider |->
                     IF p \in prompts THEN RowOf(p) ELSE NoRow]
      /\ \A p \in prompts : RowOf(p).status # "running"
  BY DEF BeginStage
<1>2. PICK allowed \in SUBSET Work, cut \in SUBSET Work :
        /\ pending' = [p \in Provider |->
                         IF p \in cut THEN Audit("not_attempted", NoFailure)
                                      ELSE NoAudit]
        /\ noted' = cut
        /\ fail' = [p \in Provider |->
                      IF p \in prompts \ allowed THEN FailureAtBegin(p)
                                                 ELSE fail[p]]
        /\ thread' = [p \in Provider |->
                        IF p \in allowed
                        THEN [at |-> "queued", out |-> "none"] ELSE Idle]
  <2> DEFINE Cut(al) == IF expired \/ stage \in oversized THEN {}
                        ELSE {p \in Work \ al : RowOf(p).error = "length"}
  <2>1. PICK allowed \in SUBSET Work :
          /\ pending' = [p \in Provider |->
                           IF p \in Cut(allowed)
                           THEN Audit("not_attempted", NoFailure)
                           ELSE NoAudit]
          /\ noted' = Cut(allowed)
          /\ fail' = [p \in Provider |->
                        IF p \in prompts \ allowed THEN FailureAtBegin(p)
                                                   ELSE fail[p]]
          /\ thread' = [p \in Provider |->
                          IF p \in allowed
                          THEN [at |-> "queued", out |-> "none"] ELSE Idle]
    BY DEF BeginStage
  <2>2. Cut(allowed) \in SUBSET Work OBVIOUS
  <2> HIDE DEF Cut
  <2> QED BY <2>1, <2>2
<1>3. Work \subseteq Provider BY DEF Work, EngineBase, PassTypeOK
<1>4. PriorShape'
  BY <1>1, NoRowFields, RowType DEF EngineBase, StoreInv, RowShape, PriorShape
<1>5. prior' \in [Provider -> Row] BY <1>1, NoRowType, RowType
<1>6. pending' \in [Provider -> [status : AuditStatus, cause : Failure]]
  <2>1. "not_attempted" \in AuditStatus BY DEF AuditStatus
  <2> QED BY <1>2, <2>1, AuditType, FailureType
<1>7. fail' \in [Provider -> Failure]
  BY <1>2, FailureAtBeginType DEF EngineBase, PassTypeOK
<1>8. PassTypeOK'
  BY <1>1, <1>2, <1>3, <1>5, <1>6, <1>7 DEF EngineBase, PassTypeOK
<1>9. ThreadTypeOK' BY <1>2, IdleType DEF ThreadTypeOK, Outs
<1>10. ControlTypeOK' BY <1>1 DEF EngineBase, ControlTypeOK
<1>11. PositionOK' BY <1>1 DEF EngineBase, PositionOK, runVars
<1> QED BY <1>1, <1>4, <1>8, <1>9, <1>10, <1>11, StoreSame, RunSame,
           ReservationsSame, HistorySame, BoundsSame DEF EngineBase

(* The truncation_recovery event of a slot has one of its statuses.        *)
LEMMA WriteRecoveryBase ==
  ASSUME EngineBase, NEW p \in Provider, WriteRecovery(p)
  PROVE  EngineBase'
<1>1. /\ UNCHANGED storeVars /\ UNCHANGED reservations /\ UNCHANGED ctlVars
      /\ UNCHANGED thread /\ UNCHANGED hisVars /\ UNCHANGED bounds
      /\ UNCHANGED <<runStatus, result, nsLock, adjLock, fallbacks,
                     repairEvents, prompts, prior, succ, fail, recoverable,
                     noted>>
      /\ truncRec' = [truncRec EXCEPT ![SlotOf(p)]
                                        = @ \cup {pending[p].status}]
      /\ pending' = [pending EXCEPT ![p] = NoAudit]
  BY DEF WriteRecovery
<1>2. pending[p].status \in AuditStatus BY DEF EngineBase, PassTypeOK
<1>3. RunTypeOK' BY <1>1, <1>2, RowType DEF EngineBase, RunTypeOK
<1>4. PassTypeOK' BY <1>1, AuditType DEF EngineBase, PassTypeOK
<1>5. PriorShape' BY <1>1 DEF EngineBase, PriorShape
<1> QED BY <1>1, <1>3, <1>4, <1>5, StoreSame, ControlSame, ReservationsSame,
           ThreadSame, HistorySame, BoundsSame DEF EngineBase

(* The jury_artifact_repair event is the pending one.                      *)
LEMMA WriteRepairBase ==
  ASSUME EngineBase, NEW p \in Provider, WriteRepair(p)
  PROVE  EngineBase'
<1>1. /\ UNCHANGED storeVars /\ UNCHANGED reservations /\ UNCHANGED ctlVars
      /\ UNCHANGED thread /\ UNCHANGED hisVars /\ UNCHANGED bounds
      /\ UNCHANGED <<runStatus, result, nsLock, adjLock, fallbacks,
                     truncRec, prompts, prior, succ, fail, recoverable,
                     noted>>
      /\ repairEvents' = [repairEvents EXCEPT ![p] = pending[p]]
      /\ pending' = [pending EXCEPT ![p] = NoAudit]
  BY DEF WriteRepair
<1>2. pending[p] \in [status : AuditStatus, cause : Failure]
  BY DEF EngineBase, PassTypeOK
<1>3. RunTypeOK' BY <1>1, <1>2 DEF EngineBase, RunTypeOK
<1>4. PassTypeOK' BY <1>1, AuditType DEF EngineBase, PassTypeOK
<1>5. PriorShape' BY <1>1 DEF EngineBase, PriorShape
<1> QED BY <1>1, <1>3, <1>4, <1>5, StoreSame, ControlSame, ReservationsSame,
           ThreadSame, HistorySame, BoundsSame DEF EngineBase

(* The worker's steps.                                                     *)
LEMMA WorkerBase ==
  ASSUME EngineBase, NEW p \in Provider, WorkerStep(p)
  PROVE  EngineBase'
<1>0. /\ {"none", "not_started", "denied", "replayed", "late"} \subseteq Outs
      /\ Outcomes \subseteq Outs
  BY EngineAssumption DEF Outs, Undispatched
<1>1. CASE StartTooLate(p) \/ CallTooLate(p)
  <2>1. /\ ThreadFrame /\ UNCHANGED storeVars /\ UNCHANGED reservations
        /\ UNCHANGED hisVars
        /\ ThreadStep(p, "done", "not_started") \/ ThreadStep(p, "done", "late")
    BY <1>1 DEF StartTooLate, CallTooLate
  <2> QED BY <2>1, <1>0, ThreadStepType, WorkerFrame, StoreSame,
             ReservationsSame, HistorySame DEF EngineBase
<1>2. CASE StartCall(p)
  <2>1. /\ ThreadFrame /\ UNCHANGED reservations /\ UNCHANGED hisVars
        /\ start_invocation(SlotOf(p), PromptOf(stage))
        /\ ThreadStep(p, "started", "none")
    BY <1>2 DEF StartCall
  <2>2. StoreInv' BY <2>1, RowType, PromptType, StartInv DEF EngineBase
  <2> QED BY <2>1, <2>2, <1>0, ThreadStepType, WorkerFrame,
             ReservationsSame, HistorySame DEF EngineBase
<1>3. CASE ReserveCall(p)
  <2>1. /\ ThreadFrame /\ UNCHANGED storeVars /\ UNCHANGED hisVars
        /\ \/ /\ reservations' = reservations \cup
                    {[slot |-> SlotOf(p), attempt |-> Attempt(SlotOf(p)),
                      state |-> "reserved"]}
              /\ ThreadStep(p, "leased", "none")
           \/ /\ UNCHANGED reservations
              /\ \E answer \in {"denied", "replayed"} :
                   ThreadStep(p, "done", answer)
    <3>1. /\ ThreadFrame /\ UNCHANGED storeVars /\ UNCHANGED hisVars
      BY <1>3 DEF ReserveCall
    <3>2. PICK answer \in GateAnswers(SlotOf(p)) :
           IF answer = "granted"
           THEN /\ reservations' = reservations \cup
                     {[slot |-> SlotOf(p), attempt |-> Attempt(SlotOf(p)),
                       state |-> "reserved"]}
                /\ ThreadStep(p, "leased", "none")
           ELSE /\ ThreadStep(p, "done", answer)
                /\ UNCHANGED reservations
      BY <1>3 DEF ReserveCall
    <3>3. answer \in {"granted", "denied", "replayed"} BY DEF GateAnswers
    <3> QED BY <3>1, <3>2, <3>3
  <2>2. Attempt(SlotOf(p)) \in Nat
    BY RowType DEF Attempt, EngineBase, StoreInv, StoreTypeOK, Row
  <2>3. ReservationsTypeOK'
    BY <2>1, <2>2, RowType DEF EngineBase, ReservationsTypeOK
  <2>4. ThreadTypeOK' BY <2>1, <1>0, ThreadStepType
  <2> QED BY <2>1, <2>3, <2>4, WorkerFrame, StoreSame, HistorySame
          DEF EngineBase
<1>4. CASE CallProvider(p)
  <2>1. /\ ThreadFrame /\ UNCHANGED storeVars /\ UNCHANGED reservations
        /\ sent' = sent \cup {<<SlotOf(p), Attempt(SlotOf(p))>>}
        /\ unresolved' = unresolved \cup {SlotOf(p)}
        /\ \E out \in Outcomes : ThreadStep(p, "done", out)
    BY <1>4 DEF CallProvider
  <2>2. Attempt(SlotOf(p)) \in Nat
    BY RowType DEF Attempt, EngineBase, StoreInv, StoreTypeOK, Row
  <2>3. HistoryTypeOK' BY <2>1, <2>2, RowType DEF EngineBase, HistoryTypeOK
  <2>4. ThreadTypeOK' BY <2>1, <1>0, ThreadStepType
  <2> QED BY <2>1, <2>3, <2>4, WorkerFrame, StoreSame, ReservationsSame
          DEF EngineBase
<1> QED BY <1>1, <1>2, <1>3, <1>4 DEF WorkerStep

(* The main thread's settling of one future.                               *)
LEMMA LeaseBase ==
  ASSUME EngineBase, NEW p \in Provider, SettleLease(p) \/ ReconcileFails(p)
  PROVE  EngineBase'
<1>1. /\ UNCHANGED storeVars /\ UNCHANGED runVars /\ UNCHANGED ctlVars
      /\ UNCHANGED passVars /\ UNCHANGED hisVars /\ UNCHANGED bounds
      /\ \E out \in Outs : ThreadStep(p, "accounted", out)
  <2>1. thread[p].out \in Outs BY DEF EngineBase, ThreadTypeOK
  <2>2. "ambiguous" \in Outs BY DEF Outs, AllOutcomes
  <2> QED BY <2>1, <2>2 DEF SettleLease, ReconcileFails, LeaseFrame
<1>2. ReservationsTypeOK'
  <2>1. CASE UNCHANGED reservations
    BY <2>1, ReservationsSame DEF EngineBase
  <2>2. CASE ~UNCHANGED reservations
    <3>1. PICK state \in {"released", "reconciled"} :
            SettleReservation(p, state)
      BY <2>2 DEF SettleLease, ReconcileFails, LeaseFate
    <3>2. ASSUME NEW r \in reservations
          PROVE  [r EXCEPT !.state = state]
                   \in [slot : Slot, attempt : Nat,
                        state : {"reserved", "reconciled", "released"}]
      BY <3>2 DEF EngineBase, ReservationsTypeOK
    <3> QED BY <3>1, <3>2
            DEF SettleReservation, EngineBase, ReservationsTypeOK
  <2> QED BY <2>1, <2>2
<1>3. ThreadTypeOK' BY <1>1, ThreadStepType
<1>4. UNCHANGED fallbacks BY <1>1 DEF runVars
<1> QED BY <1>1, <1>2, <1>3, <1>4, StoreSame, RunSame, ControlSame, PassSame,
           HistorySame, BoundsSame DEF EngineBase

(* Every settling of a row frees its thread and may report a failure.      *)
LEMMA SettleFrameBase ==
  ASSUME EngineBase, NEW p \in Provider, Settling(p), SettleFrame,
         StoreInv', HistoryTypeOK',
         succ' \in {succ, succ \cup {p}},
         recoverable' \in {recoverable, recoverable \cup {p}},
         fail' = fail \/ \E failure \in Failure : Fails(p, failure)
  PROVE  EngineBase'
<1>1. /\ UNCHANGED runVars /\ UNCHANGED ctlVars /\ UNCHANGED reservations
      /\ UNCHANGED bounds /\ UNCHANGED fallbacks
      /\ UNCHANGED <<prompts, prior, noted, pending>>
  BY DEF SettleFrame, runVars
<1>2. ThreadTypeOK'
  BY IdleType DEF Settling, EngineBase, ThreadTypeOK
<1>3. fail' \in [Provider -> Failure]
  BY DEF EngineBase, PassTypeOK, Fails
<1>4. PassTypeOK' /\ PriorShape'
  BY <1>1, <1>3 DEF EngineBase, PassTypeOK, PriorShape
<1> QED BY <1>1, <1>2, <1>4, RunSame, ControlSame, ReservationsSame,
           BoundsSame DEF EngineBase

(* What is reported for a call that did not start is a failure.            *)
LEMMA PriorOrType ==
  ASSUME EngineBase, NEW p \in Provider,
         NEW kind \in {"deadline", "denied"}
  PROVE  PriorOr(p, kind) \in Failure
  BY RowType, FailureType DEF PriorOr

(* The main thread settles a result: row, lists and failure stay of their  *)
(* type.                                                                   *)
LEMMA SettleBase ==
  ASSUME EngineBase, NEW p \in Provider,
         \/ SettleUnstarted(p) \/ SettleUndispatched(p) \/ SettleSuccess(p)
         \/ SettleTruncated(p) \/ SettleFailure(p)
  PROVE  EngineBase'
<1>0. HistoryTypeOK' \/ ~ (UNCHANGED sent /\ unresolved' \subseteq unresolved)
  BY DEF EngineBase, HistoryTypeOK
<1>1. CASE SettleUnstarted(p)
  <2>1. /\ Settling(p) /\ SettleFrame /\ UNCHANGED storeVars
        /\ UNCHANGED <<succ, recoverable, unresolved, sent>>
        /\ Fails(p, PriorOr(p, "deadline"))
    BY <1>1 DEF SettleUnstarted, SettleFrame
  <2> QED BY <1>0, <2>1, StoreSame, PriorOrType, SettleFrameBase
          DEF EngineBase
<1>2. CASE SettleUndispatched(p)
  <2>1. /\ Settling(p) /\ SettleFrame
        /\ release_undispatched_invocation(SlotOf(p), prior[p])
        /\ UNCHANGED <<succ, recoverable, unresolved, sent>>
        /\ \E kind \in {"deadline", "denied"} : Fails(p, PriorOr(p, kind))
    BY <1>2 DEF SettleUndispatched, SettleFrame
  <2>2. prior[p] \in PriorRow
    BY <2>1, RowType
    DEF release_undispatched_invocation, PriorFits, PriorRow
  <2>3. StoreInv' BY <2>1, <2>2, RowType, ReleaseInv DEF EngineBase
  <2> QED BY <1>0, <2>1, <2>3, PriorOrType, SettleFrameBase
<1>3. CASE SettleSuccess(p)
  <2>1. /\ Settling(p) /\ SettleFrame /\ thread[p].out \in Response
        /\ finish_invocation_success(SlotOf(p), thread[p].out)
        /\ succ' = succ \cup {p} /\ UNCHANGED <<fail, recoverable, sent>>
        /\ unresolved' = unresolved \ {SlotOf(p)}
    BY <1>3 DEF SettleSuccess, SettleFrame
  <2>2. StoreInv' BY <2>1, RowType, FinishInv DEF EngineBase
  <2> QED BY <1>0, <2>1, <2>2, SettleFrameBase
<1>4. CASE SettleTruncated(p)
  <2>1. /\ Settling(p) /\ SettleFrame
        /\ finish_invocation_failure(SlotOf(p), "length")
        /\ recoverable' = recoverable \cup {p}
        /\ UNCHANGED <<fail, succ, sent>>
        /\ unresolved' = unresolved \ {SlotOf(p)}
    BY <1>4 DEF SettleTruncated, SettleFrame
  <2>2. "length" \in Error BY DEF Error
  <2>3. StoreInv' BY <2>1, <2>2, RowType, FinishInv DEF EngineBase
  <2> QED BY <1>0, <2>1, <2>3, SettleFrameBase
<1>5. CASE SettleFailure(p)
  <2> DEFINE error == ErrorOf(thread[p].out)
             failure == [kind |-> error, call |-> RowOf(p).calls]
  <2>1. /\ Settling(p) /\ SettleFrame
        /\ finish_invocation_failure(SlotOf(p), error)
        /\ Fails(p, failure)
        /\ UNCHANGED <<recoverable, succ, sent>>
        /\ unresolved' \subseteq unresolved
    BY <1>5 DEF SettleFailure, SettleFrame
  <2>2. error \in Error BY <1>5 DEF SettleFailure, ErrorOf, Error
  <2>3. failure \in Failure BY <2>2, RowType DEF Failure, Row
  <2> HIDE DEF error, failure
  <2>4. StoreInv' BY <2>1, <2>2, RowType, FinishInv DEF EngineBase
  <2> QED BY <1>0, <2>1, <2>3, <2>4, SettleFrameBase
<1> QED BY <1>1, <1>2, <1>3, <1>4, <1>5

(* The nested pass.                                                        *)
LEMMA StartRecoveryBase == ASSUME EngineBase, StartRecovery PROVE EngineBase'
<1>1. /\ UNCHANGED storeVars /\ UNCHANGED runVars /\ UNCHANGED reservations
      /\ UNCHANGED thread /\ UNCHANGED hisVars /\ UNCHANGED bounds
      /\ UNCHANGED <<expired, stage, pos, startPos, failedSlots, prior, succ,
                     noted>>
      /\ recoverable' = {} /\ nested' = (recoverable \cap WithHeadroom # {})
      /\ pc' \in {"begin", "run"} /\ pc = "run"
      /\ prompts' \in {prompts, recoverable \cap WithHeadroom}
      /\ pending' = [p \in Provider |->
                      IF p \in recoverable \ WithHeadroom
                      THEN Audit("not_attempted", NoFailure) ELSE NoAudit]
      /\ fail' = [p \in Provider |->
                   IF p \in recoverable \ WithHeadroom THEN Stored(RowOf(p))
                                                  ELSE fail[p]]
  BY DEF StartRecovery, PassSettled
<1>2. pending' \in [Provider -> [status : AuditStatus, cause : Failure]]
  <2>1. "not_attempted" \in AuditStatus BY DEF AuditStatus
  <2> QED BY <1>1, <2>1, AuditType, FailureType
<1>3. fail' \in [Provider -> Failure]
  BY <1>1, RowType, FailureType DEF EngineBase, PassTypeOK
<1>4. PassTypeOK' BY <1>1, <1>2, <1>3 DEF EngineBase, PassTypeOK
<1>5. PriorShape' BY <1>1 DEF EngineBase, PriorShape
<1>6. nested' \in BOOLEAN BY <1>1
<1>7. ControlTypeOK' BY <1>1, <1>6 DEF EngineBase, ControlTypeOK
<1>8. PositionOK' BY <1>1 DEF EngineBase, PositionOK, runVars
<1> QED BY <1>1, <1>4, <1>5, <1>7, <1>8, StoreSame, RunSame,
           ReservationsSame, ThreadSame, HistorySame, BoundsSame DEF EngineBase

(* The end of a nested pass, and of the repairs, plans audit events.       *)
LEMMA EndRecoveryBase ==
  ASSUME EngineBase, EndRecovery \/ RepairsDone
  PROVE  EngineBase'
<1>1. /\ UNCHANGED storeVars /\ UNCHANGED runVars /\ UNCHANGED reservations
      /\ UNCHANGED thread /\ UNCHANGED hisVars /\ UNCHANGED bounds
      /\ UNCHANGED <<expired, stage, pos, startPos, failedSlots, prompts,
                     prior, succ, fail, recoverable, noted>>
      /\ nested' \in {nested, FALSE}
      /\ pc' \in {pc, "adjudicate"} /\ pc = "run"
  BY DEF EndRecovery, RepairsDone, StageReturns, PassSettled
<1>2. pending' \in [Provider -> [status : AuditStatus, cause : Failure]]
  <2>1. CASE EndRecovery
    <3>1. \A p \in Provider : RecoveryStatus(p) \in AuditStatus
      BY DEF RecoveryStatus, AuditStatus
    <3>2. pending' = [p \in Provider |->
                       IF p \in prompts \ noted
                       THEN Audit(RecoveryStatus(p), NoFailure) ELSE NoAudit]
      BY <2>1 DEF EndRecovery
    <3> QED BY <3>1, <3>2, AuditType, FailureType
  <2>2. CASE RepairsDone
    <3>1. ASSUME NEW p \in Provider
          PROVE  RepairAudit(p) \in [status : AuditStatus, cause : Failure]
      <4>1. {"recovered", "failed", "not_attempted"} \subseteq AuditStatus
        BY DEF AuditStatus
      <4>2. fail[p] \in Failure BY DEF EngineBase, PassTypeOK
      <4>3. Unstored("budget") \in Failure BY FailureType
      <4>4. CASE ~ (p \in InvalidJuries /\ JuryRepair)
        BY <4>4, AuditType DEF RepairAudit
      <4>5. CASE p \in InvalidJuries /\ JuryRepair /\ p \notin prompts
        <5>1. RepairAudit(p) \in
                {Audit("not_attempted", Unstored("budget")),
                 Audit("not_attempted", NoFailure)}
              \/ p \in succ
          BY <4>5 DEF RepairAudit
        <5>2. RepairAudit(p) \in
                {Audit("not_attempted", Unstored("budget")),
                 Audit("not_attempted", NoFailure),
                 Audit("recovered", NoFailure), Audit("failed", NoFailure)}
          BY <4>5, <5>1 DEF RepairAudit
        <5> QED BY <4>1, <4>3, <5>2, AuditType, FailureType
      <4>6. CASE p \in InvalidJuries /\ JuryRepair /\ p \in prompts
        <5>1. RepairAudit(p) \in
                {Audit("recovered", NoFailure), Audit("failed", NoFailure),
                 Audit("failed", fail[p]), NoAudit}
          BY <4>6 DEF RepairAudit
        <5> QED BY <4>1, <4>2, <5>1, AuditType, FailureType
      <4> QED BY <4>4, <4>5, <4>6
    <3>2. pending' = [p \in Provider |-> RepairAudit(p)]
      BY <2>2 DEF RepairsDone
    <3> QED BY <3>1, <3>2
  <2> QED BY <2>1, <2>2
<1>4. PassTypeOK' BY <1>1, <1>2 DEF EngineBase, PassTypeOK
<1>5. PriorShape' BY <1>1 DEF EngineBase, PriorShape
<1>6. nested \in BOOLEAN /\ nested' \in BOOLEAN
  BY <1>1 DEF EngineBase, ControlTypeOK
<1>7. ControlTypeOK' BY <1>1, <1>6 DEF EngineBase, ControlTypeOK
<1>8. PositionOK' BY <1>1 DEF EngineBase, PositionOK, runVars
<1> QED BY <1>1, <1>4, <1>5, <1>7, <1>8, StoreSame, RunSame,
           ReservationsSame, ThreadSame, HistorySame, BoundsSame DEF EngineBase

(* finish_run ends the process with a well-formed result.                  *)
LEMMA FinishBase ==
  ASSUME EngineBase, NEW status \in {"completed", "partial", "failed"},
         NEW failures, NEW answer \in Provider \cup {NoAnswer},
         Finish(status, failures, answer)
  PROVE  EngineBase'
<1> DEFINE clean == status = "completed" /\ Unblemished(failures, answer)
<1>1. /\ runStatus' = status /\ ProcessEnds
      /\ result' = [status |-> status, clean |-> clean, answer |-> answer]
      /\ UNCHANGED storeVars /\ UNCHANGED reservations /\ UNCHANGED hisVars
      /\ UNCHANGED bounds
      /\ UNCHANGED <<nsLock, adjLock, fallbacks, truncRec, repairEvents>>
  BY DEF Finish
<1>2. clean \in BOOLEAN BY DEF clean
<1> HIDE DEF clean
<1>3. RunTypeOK' BY <1>1, <1>2 DEF EngineBase, RunTypeOK
<1>4. /\ PassTypeOK' /\ PriorShape' /\ ControlTypeOK' /\ ThreadTypeOK'
      /\ PositionOK'
  BY <1>1, ProcessEndsType DEF EngineBase, PositionOK
<1> QED BY <1>1, <1>3, <1>4, StoreSame, ReservationsSame, HistorySame,
           BoundsSame DEF EngineBase

(* The synthesis position is that of a provider.                           *)
LEMMA SynthesizerType == EngineBase => Synthesizer \in Provider
  BY SynthType DEF EngineBase, ControlTypeOK, Synthesizer

(* finish_run writes a status and a result, and the process ends.          *)
LEMMA FinishingBase ==
  ASSUME EngineBase,
         \/ ProposalsShort \/ JuriesShort \/ SynthesisTooLate
         \/ SynthesisDone \/ SynthesisFails
  PROVE  EngineBase'
<1>1. NoAnswer \in Provider \cup {NoAnswer} OBVIOUS
<1>2. CASE ProposalsShort
  <2>1. PICK status \in {"partial", "failed"} :
          Finish(status, ProposalFailures, NoAnswer)
    BY <1>2 DEF ProposalsShort
  <2> QED BY <1>1, <2>1, FinishBase
<1>3. CASE JuriesShort
  BY <1>1, <1>3, FinishBase DEF JuriesShort
<1>4. CASE SynthesisTooLate
  BY <1>1, <1>4, FinishBase DEF SynthesisTooLate
<1>5. CASE SynthesisDone
  BY <1>5, SynthesizerType, FinishBase DEF SynthesisDone
<1>6. CASE SynthesisFails
  BY <1>1, <1>6, FinishBase DEF SynthesisFails
<1> QED BY <1>2, <1>3, <1>4, <1>5, <1>6

(* The failures carried from stage to stage are slots.                     *)
LEMMA FailedSlotsType ==
  ASSUME EngineBase
  PROVE  /\ FailedNow \subseteq Slot /\ ProposalFailures \subseteq Slot
         /\ JuryFailures \subseteq Slot /\ AdvancedFailures \subseteq Slot
         /\ {"jury"} \X adjLock.failed \subseteq Slot
<1>1. FailedNow \subseteq Slot BY RowType DEF FailedNow
<1>2. failedSlots \subseteq Slot /\ succ \subseteq Provider
  BY DEF EngineBase, ControlTypeOK, PassTypeOK
<1>3. \A st \in Stages, ps \in SUBSET Provider : {st} \X ps \subseteq Slot
  BY StageType DEF Slot
<1>4. {"proposal", "jury", "synthesis"} \subseteq Stages BY DEF Stages
<1>5. ProposalFailures \subseteq Slot
  <2>1. succ \ Proposals \in SUBSET Provider BY <1>2
  <2>2. {"proposal"} \X (succ \ Proposals) \subseteq Slot
    BY <1>3, <1>4, <2>1
  <2> QED BY <1>1, <1>2, <2>2 DEF ProposalFailures
<1>6. JuryFailures \subseteq Slot
  <2>1. Provider \ ValidJuries \in SUBSET Provider OBVIOUS
  <2>2. {"jury"} \X (Provider \ ValidJuries) \subseteq Slot
    BY <1>3, <1>4, <2>1
  <2> QED BY <1>2, <2>2 DEF JuryFailures
<1>7. AdvancedFailures \subseteq Slot
  <2>1. Len(fallbacks) \in Nat /\ Len(fallbacks) < Len(Synth)
    BY DEF EngineBase, RunTypeOK, PositionOK
  <2>2. \A i \in 1 .. Len(fallbacks) : Synth[i] \in Provider
    BY <2>1, SynthType
  <2> QED BY <1>4, <2>2, SlotOfType DEF AdvancedFailures
<1>8. {"jury"} \X adjLock.failed \subseteq Slot
  <2>1. adjLock.failed \in SUBSET Provider BY DEF EngineBase, RunTypeOK
  <2> QED BY <1>3, <1>4, <2>1
<1> QED BY <1>1, <1>5, <1>6, <1>7, <1>8

(* From one stage to the next.                                             *)
LEMMA ProposalsDoneBase == ASSUME EngineBase, ProposalsDone PROVE EngineBase'
<1>1. /\ UNCHANGED storeVars /\ UNCHANGED reservations
      /\ UNCHANGED thread /\ UNCHANGED hisVars /\ UNCHANGED bounds
      /\ UNCHANGED <<runStatus, result, adjLock, fallbacks, truncRec,
                     repairEvents, expired, pos, startPos>>
      /\ nsLock' = IF NamespaceLocked THEN nsLock
                   ELSE [members |-> Proposals, failed |-> Provider \ Proposals]
      /\ pc = "run"
  BY DEF ProposalsDone, StageReturns, PassSettled
<1>2. \/ /\ pc' = "synth"
         /\ failedSlots' = ProposalFailures \cup ({"jury"} \X adjLock.failed)
         /\ UNCHANGED <<stage, nested, passVars>>
      \/ /\ EnterStage("jury", Provider)
         /\ failedSlots' = ProposalFailures
  BY DEF ProposalsDone
<1>3. Proposals \in SUBSET Provider /\ Provider \ Proposals \in SUBSET Provider
  BY DEF Proposals, EngineBase, PassTypeOK
<1>4. RunTypeOK' BY <1>1, <1>3 DEF EngineBase, RunTypeOK
<1>5. failedSlots' \subseteq Slot BY <1>2, FailedSlotsType
<1>6. /\ PassTypeOK' /\ PriorShape' /\ pc' \in {"synth", "begin"}
      /\ stage' \in Stages /\ nested' \in BOOLEAN
  <2>1. "jury" \in Stages /\ Provider \in SUBSET Provider BY DEF Stages
  <2>2. CASE EnterStage("jury", Provider)
    BY <2>1, <2>2, EnterStageType
  <2>3. CASE pc' = "synth" /\ UNCHANGED <<stage, nested, passVars>>
    BY <2>3, PassSame DEF EngineBase, ControlTypeOK
  <2> QED BY <1>2, <2>2, <2>3
<1>7. ControlTypeOK' BY <1>1, <1>5, <1>6 DEF EngineBase, ControlTypeOK
<1>8. PositionOK' BY <1>1, <1>6 DEF EngineBase, PositionOK
<1> QED BY <1>1, <1>4, <1>6, <1>7, <1>8, StoreSame, ReservationsSame,
           ThreadSame, HistorySame, BoundsSame DEF EngineBase

(* The repair and the synthesis stage start with well-formed lists.        *)
LEMMA EnteringBase ==
  ASSUME EngineBase, SelectRepairs \/ NextSynthesis
  PROVE  EngineBase'
<1>1. /\ UNCHANGED storeVars /\ UNCHANGED runVars /\ UNCHANGED reservations
      /\ UNCHANGED thread /\ UNCHANGED hisVars /\ UNCHANGED bounds
      /\ UNCHANGED <<expired, pos, startPos>>
      /\ pc # "idle"
      /\ \/ failedSlots' = failedSlots \cup FailedNow
         \/ failedSlots' = failedSlots \cup AdvancedFailures
  BY DEF SelectRepairs, NextSynthesis, StageReturns, PassSettled
<1>2. PICK st \in Stages, ps \in SUBSET Provider : EnterStage(st, ps)
  <2>1. CASE SelectRepairs
    <3>1. PICK fresh \in SUBSET (Repairable \ RepairRows) :
            EnterStage("jury_repair", (Repairable \cap RepairRows) \cup fresh)
      BY <2>1 DEF SelectRepairs
    <3>2. Repairable \subseteq Provider
      BY DEF Repairable, InvalidJuries, JuryResponses
    <3>3. "jury_repair" \in Stages
          /\ (Repairable \cap RepairRows) \cup fresh \in SUBSET Provider
      BY <3>2 DEF Stages
    <3> QED BY <3>1, <3>3
  <2>2. CASE NextSynthesis
    <3>1. "synthesis" \in Stages /\ {Synthesizer} \in SUBSET Provider
      BY SynthesizerType DEF Stages
    <3> QED BY <2>2, <3>1 DEF NextSynthesis
  <2> QED BY <2>1, <2>2
<1>3. /\ PassTypeOK' /\ PriorShape' /\ pc' = "begin"
      /\ stage' \in Stages /\ nested' \in BOOLEAN
  BY <1>2, EnterStageType
<1>4. failedSlots' \subseteq Slot
  BY <1>1, FailedSlotsType DEF EngineBase, ControlTypeOK
<1>5. ControlTypeOK' BY <1>1, <1>3, <1>4 DEF EngineBase, ControlTypeOK
<1>6. PositionOK' BY <1>1, <1>3 DEF EngineBase, PositionOK, runVars
<1> QED BY <1>1, <1>3, <1>5, <1>6, StoreSame, RunSame, ReservationsSame,
           ThreadSame, HistorySame, BoundsSame DEF EngineBase

(* The verdict is a partition of providers, and synthesis comes next.      *)
LEMMA AdjudicateBase == ASSUME EngineBase, Adjudicate PROVE EngineBase'
<1>1. /\ UNCHANGED storeVars /\ UNCHANGED reservations /\ UNCHANGED passVars
      /\ UNCHANGED thread /\ UNCHANGED hisVars /\ UNCHANGED bounds
      /\ UNCHANGED <<runStatus, result, nsLock, fallbacks, truncRec,
                     repairEvents, expired, stage, pos, startPos, nested>>
      /\ adjLock' = [valid |-> ValidJuries,
                     invalid |-> InvalidJuries \ Repaired,
                     failed |-> Provider \ ValidJuries]
      /\ failedSlots' = JuryFailures /\ pc' = "synth" /\ pc = "adjudicate"
  BY DEF Adjudicate
<1>2. /\ ValidJuries \subseteq Provider /\ InvalidJuries \subseteq Provider
  BY DEF ValidJuries, InvalidJuries, JuryResponses, Repaired, EngineBase,
         PassTypeOK
<1>3. RunTypeOK' BY <1>1, <1>2 DEF EngineBase, RunTypeOK
<1>4. ControlTypeOK'
  BY <1>1, FailedSlotsType DEF EngineBase, ControlTypeOK
<1>5. PositionOK' BY <1>1 DEF EngineBase, PositionOK
<1> QED BY <1>1, <1>3, <1>4, <1>5, StoreSame, ReservationsSame, PassSame,
           ThreadSame, HistorySame, BoundsSame DEF EngineBase

(* A fallback is recorded and the position moves by one with it.           *)
LEMMA SynthesisFallbackBase ==
  ASSUME EngineBase, SynthesisFallback
  PROVE  EngineBase'
<1>1. /\ UNCHANGED storeVars /\ UNCHANGED reservations /\ UNCHANGED passVars
      /\ UNCHANGED thread /\ UNCHANGED hisVars /\ UNCHANGED bounds
      /\ UNCHANGED <<runStatus, result, nsLock, adjLock, truncRec,
                     repairEvents, expired, stage, startPos, nested,
                     failedSlots>>
      /\ fallbacks' = Append(fallbacks, fail[Synthesizer])
      /\ pos' = pos + 1 /\ pos < Len(Synth) /\ pc' = "synth" /\ pc = "run"
  BY DEF SynthesisFallback, StageReturns, PassSettled
<1>2. fail[Synthesizer] \in Failure
  BY SynthesizerType DEF EngineBase, PassTypeOK
<1>3. fallbacks' \in Seq(Failure) /\ Len(fallbacks') = Len(fallbacks) + 1
  BY <1>1, <1>2 DEF EngineBase, RunTypeOK
<1>4. RunTypeOK' BY <1>1, <1>3 DEF EngineBase, RunTypeOK
<1>5. pos = Len(fallbacks) + 1 /\ Len(fallbacks) \in Nat
  BY <1>1 DEF EngineBase, PositionOK, RunTypeOK
<1>6. pos' \in 1 .. Len(Synth) BY <1>1, <1>5, SynthType
<1>7. ControlTypeOK' BY <1>1, <1>6 DEF EngineBase, ControlTypeOK
<1>8. PositionOK' BY <1>1, <1>3, <1>5 DEF PositionOK
<1> QED BY <1>1, <1>4, <1>7, <1>8, StoreSame, ReservationsSame, PassSame,
           ThreadSame, HistorySame, BoundsSame DEF EngineBase

(* Every step keeps EngineBase.                                            *)
LEMMA EngineNextBase ==
  ASSUME EngineBase, [EngineNext]_vars
  PROVE  EngineBase'
<1>1. CASE UNCHANGED vars
  <2>1. /\ UNCHANGED storeVars /\ UNCHANGED runVars /\ UNCHANGED reservations
        /\ UNCHANGED ctlVars /\ UNCHANGED passVars /\ UNCHANGED thread
        /\ UNCHANGED hisVars /\ UNCHANGED bounds
    BY <1>1 DEF vars
  <2>2. UNCHANGED fallbacks BY <2>1 DEF runVars
  <2> QED BY <2>1, <2>2, StoreSame, RunSame, ReservationsSame, ControlSame,
             PassSame, ThreadSame, HistorySame, BoundsSame DEF EngineBase
<1>2. CASE MainStep
  <2>1. CASE \E p \in Provider :
               \/ MarkLost(p) \/ WriteRecovery(p) \/ WriteRepair(p)
               \/ SettleLease(p) \/ ReconcileFails(p)
               \/ SettleUnstarted(p) \/ SettleUndispatched(p)
               \/ SettleSuccess(p) \/ SettleTruncated(p) \/ SettleFailure(p)
    BY <2>1, MarkLostBase, WriteRecoveryBase, WriteRepairBase, LeaseBase,
       SettleBase
  <2>2. CASE \/ BeginStage \/ StartRecovery \/ EndRecovery \/ ProposalsShort
             \/ ProposalsDone \/ SelectRepairs \/ RepairsDone \/ JuriesShort
             \/ Adjudicate \/ NextSynthesis \/ SynthesisTooLate
             \/ SynthesisDone \/ SynthesisFallback \/ SynthesisFails
    BY <2>2, BeginStageBase, StartRecoveryBase, EndRecoveryBase,
       FinishingBase, ProposalsDoneBase, EnteringBase, AdjudicateBase,
       SynthesisFallbackBase
  <2> QED BY <1>2, <2>1, <2>2 DEF MainStep
<1>3. CASE Resume BY <1>3, ResumeBase
<1>4. ASSUME NEW p \in Provider, WorkerStep(p) PROVE EngineBase'
  BY <1>4, WorkerBase
<1>5. CASE Expire \/ Interrupt BY <1>5, InterruptBase
<1>6. CASE Drained \/ Crash BY <1>6, EndsBase
<1> QED BY <1>1, <1>2, <1>3, <1>4, <1>5, <1>6 DEF EngineNext

(* EngineBase holds in every reachable state of a run.                     *)
THEOREM EngineBaseHolds == EngineSpec => []EngineBase
<1>1. EngineInit => EngineBase BY EngineInitBase
<1>2. EngineBase /\ [EngineNext]_vars => EngineBase' BY EngineNextBase
<1> QED BY <1>1, <1>2, PTL DEF EngineSpec

(* EngineTypeCorrect: the run's tables, locks and audit events and all the *)
(* lists of the resuming process are well formed, through every crash and  *)
(* resume; in particular a recorded fallback leaves a synthesis provider   *)
(* for the next resume of resume() to begin with.                          *)
THEOREM EngineTypeCorrect == EngineSpec => []EngineTypeOK
  BY EngineTypeFromParts, EngineBaseHolds, PTL

(* AuditNeverRaises: in an engine run, too, the retry events of each slot  *)
(* are numbered 2 .. call_count, so _provider_retry_recoveries never stops *)
(* finish_run, whatever was interrupted, released or retried before.       *)
THEOREM AuditNeverRaises == EngineSpec => []RetriesAccounted
<1>1. EngineBase => RetriesAccounted
  BY InvGivesAudit DEF EngineBase, RetriesAccounted
<1> QED BY <1>1, EngineBaseHolds, PTL

----------------------------------------------------------------------------
(* Threads and rows.                                                       *)

NotInDoubt(s) == inv[s].status # "running" /\ inv[s].error # "ambiguous"

(* The thread has not started its call: its row is as it was found.        *)
Waiting(p) == thread[p].at = "queued" \/ thread[p].out = "not_started"

(* A thread works for a provider none of whose calls is in doubt.  Before  *)
(* it starts its call the row is the caller's copy, then it is running.    *)
ThreadOK(p) ==
  /\ thread[p].at \in {"idle", "queued", "started", "leased"}
       <=> thread[p].out = "none"
  /\ thread[p] # Idle =>
       /\ prior[p] \in PriorRow /\ prior[p].error # "ambiguous"
       /\ \A st \in Stages : st # stage => NotInDoubt(<<st, p>>)
       /\ Waiting(p) => RowOf(p) = prior[p]
       /\ ~Waiting(p) => RowOf(p).status = "running"

ThreadInv ==
  /\ pc \notin {"run", "draining"} => ThreadsIdle
  /\ \A p \in Provider : ThreadOK(p)

(* Steps that touch neither rows nor reservations nor the call history:    *)
(* those after which no thread is left, and those that keep the threads.   *)
Quiet ==
  /\ UNCHANGED storeVars /\ UNCHANGED reservations /\ UNCHANGED hisVars
  /\ ThreadsIdle'

Steady ==
  /\ UNCHANGED storeVars /\ UNCHANGED reservations /\ UNCHANGED hisVars
  /\ UNCHANGED <<thread, stage, prior>>
  /\ pc' = pc \/ pc' = "draining"

SettleStep(p) ==
  \/ SettleUnstarted(p) \/ SettleUndispatched(p) \/ SettleSuccess(p)
  \/ SettleTruncated(p) \/ SettleFailure(p)

LeaseStep(p) == SettleLease(p) \/ ReconcileFails(p)

(* A process that is gone has no thread.                                   *)
LEMMA ProcessEndsIdle == ProcessEnds => ThreadsIdle'
  BY DEF ProcessEnds, ThreadsIdle

(* No thread appears where none moves.                                     *)
LEMMA SameIdle == ThreadsIdle /\ UNCHANGED thread => ThreadsIdle'
  BY DEF ThreadsIdle

(* Every step is one of these kinds.                                       *)
LEMMA StepKinds ==
  ASSUME ThreadInv, [EngineNext]_vars
  PROVE  \/ Quiet \/ Steady \/ BeginStage
         \/ \E p \in Provider : \/ MarkLost(p) \/ WorkerStep(p)
                                \/ LeaseStep(p) \/ SettleStep(p)
<1>1. CASE UNCHANGED vars
  BY <1>1 DEF vars, Steady, ctlVars, passVars
<1>2. CASE Resume
  <2>1. ThreadsIdle BY <1>2 DEF ThreadInv, Resume
  <2> QED BY <1>2, <2>1, SameIdle DEF Resume, StartResume, Quiet
<1>3. CASE Crash \/ Drained
  BY <1>3, ProcessEndsIdle DEF Crash, Drained, Quiet
<1>4. CASE Expire \/ Interrupt
  BY <1>4 DEF Expire, Interrupt, Steady, passVars
<1>5. CASE \E p \in Provider : WriteRecovery(p) \/ WriteRepair(p)
  BY <1>5 DEF WriteRecovery, WriteRepair, Steady, ctlVars
<1>6. CASE StartRecovery \/ EndRecovery \/ RepairsDone
  BY <1>6, SameIdle
  DEF StartRecovery, EndRecovery, RepairsDone, StageReturns, PassSettled,
      Quiet
<1>7. CASE \/ ProposalsShort \/ JuriesShort \/ SynthesisTooLate
           \/ SynthesisDone \/ SynthesisFails
  BY <1>7, ProcessEndsIdle
  DEF ProposalsShort, JuriesShort, SynthesisTooLate, SynthesisDone,
      SynthesisFails, Finish, Quiet
<1>8. CASE ProposalsDone \/ SelectRepairs \/ SynthesisFallback
  <2>1. ThreadsIdle
    BY <1>8 DEF ProposalsDone, SelectRepairs, SynthesisFallback,
                StageReturns, PassSettled
  <2> QED BY <1>8, <2>1, SameIdle
          DEF ProposalsDone, SelectRepairs, SynthesisFallback, Quiet
<1>9. CASE Adjudicate \/ NextSynthesis
  <2>1. ThreadsIdle BY <1>9 DEF ThreadInv, Adjudicate, NextSynthesis
  <2> QED BY <1>9, <2>1, SameIdle DEF Adjudicate, NextSynthesis, Quiet
<1>10. CASE MainStep
  BY <1>5, <1>6, <1>7, <1>8, <1>9, <1>10 DEF MainStep, LeaseStep, SettleStep
<1>11. CASE \E p \in Provider : WorkerStep(p) BY <1>11
<1> QED BY <1>1, <1>2, <1>3, <1>4, <1>10, <1>11 DEF EngineNext

(* What a worker's or a settling step leaves alone.                        *)
Touches(p) ==
  /\ UNCHANGED <<stage, prior, pc>>
  /\ \A q \in Provider : q # p => thread'[q] = thread[q]
  /\ \A s \in Slot : s # SlotOf(p) =>
       inv'[s] = inv[s] /\ undispatched'[s] = undispatched[s]

StoreTouches(s) ==
  \/ UNCHANGED storeVars
  \/ \E prompt \in Prompt : start_invocation(s, prompt)
  \/ \E response \in Response : finish_invocation_success(s, response)
  \/ \E error \in Error : finish_invocation_failure(s, error)
  \/ \E row \in PriorRow : release_undispatched_invocation(s, row)

(* The store's operations change one slot.                                 *)
LEMMA OneSlot ==
  ASSUME StoreInv, NEW s \in Slot, StoreTouches(s)
  PROVE  \A t \in Slot : t # s =>
           inv'[t] = inv[t] /\ undispatched'[t] = undispatched[t]
<1> SUFFICES ASSUME NEW t \in Slot, t # s
             PROVE  inv'[t] = inv[t] /\ undispatched'[t] = undispatched[t]
  OBVIOUS
<1>0. inv \in [Slot -> Row] /\ undispatched \in [Slot -> Nat]
  BY DEF StoreInv, StoreTypeOK
<1>1. CASE UNCHANGED storeVars BY <1>1 DEF storeVars
<1>2. CASE \E prompt \in Prompt : start_invocation(s, prompt)
  BY <1>0, <1>2 DEF start_invocation
<1>3. CASE \/ \E response \in Response : finish_invocation_success(s, response)
           \/ \E error \in Error : finish_invocation_failure(s, error)
  BY <1>0, <1>3 DEF finish_invocation_success, finish_invocation_failure
<1>4. CASE \E row \in PriorRow : release_undispatched_invocation(s, row)
  BY <1>0, <1>4 DEF release_undispatched_invocation
<1> QED BY <1>1, <1>2, <1>3, <1>4 DEF StoreTouches

(* The rows and threads of the other providers stay as they are.           *)
LEMMA OthersKept ==
  ASSUME NEW p \in Provider, Touches(p), NEW q \in Provider, q # p,
         stage \in Stages
  PROVE  /\ thread'[q] = thread[q] /\ prior'[q] = prior[q]
         /\ SlotOf(q)' = SlotOf(q) /\ RowOf(q)' = RowOf(q)
         /\ \A st \in Stages : inv'[<<st, q>>] = inv[<<st, q>>]
         /\ SlotOf(q) # SlotOf(p)
<1>1. \A st \in Stages : <<st, q>> \in Slot /\ <<st, q>> # SlotOf(p)
  BY SlotOfType DEF SlotOf
<1>2. \A st \in Stages : inv'[<<st, q>>] = inv[<<st, q>>]
  BY <1>1 DEF Touches
<1>3. stage' = stage /\ prior'[q] = prior[q] /\ thread'[q] = thread[q]
  BY DEF Touches
<1>4. SlotOf(q)' = SlotOf(q) /\ SlotOf(q) # SlotOf(p)
  BY <1>3 DEF SlotOf
<1>5. RowOf(q)' = RowOf(q)
  BY <1>2, <1>3 DEF RowOf
<1> QED BY <1>2, <1>3, <1>4, <1>5

(* It is enough to look at the thread that moves.                          *)
LEMMA ThreadMoves ==
  ASSUME EngineBase, ThreadInv, NEW p \in Provider, Touches(p),
         pc \in {"run", "draining"}, ThreadOK(p)'
  PROVE  ThreadInv'
<1>1. stage \in Stages /\ stage' = stage /\ pc' = pc
  BY DEF EngineBase, ControlTypeOK, Touches
<1>2. ASSUME NEW q \in Provider, q # p PROVE ThreadOK(q)'
  BY <1>1, <1>2, OthersKept
  DEF ThreadInv, ThreadOK, Waiting, NotInDoubt
<1> QED BY <1>1, <1>2 DEF ThreadInv

(* The other rows of the provider stay as they are.                        *)
LEMMA OtherStagesKept ==
  ASSUME EngineBase, NEW p \in Provider, Touches(p),
         \A st \in Stages : st # stage => NotInDoubt(<<st, p>>)
  PROVE  \A st \in Stages : st # stage' => NotInDoubt(<<st, p>>)'
  BY SlotOfType DEF Touches, NotInDoubt, SlotOf

(* An idle thread makes no claim.                                          *)
LEMMA IdleOK ==
  ASSUME NEW p \in Provider, thread[p] = Idle PROVE ThreadOK(p)
  BY DEF ThreadOK, Idle

(* A thread whose call is on the books.                                    *)
LEMMA LiveOK ==
  ASSUME EngineBase, NEW p \in Provider, ThreadOK(p), Touches(p),
         thread[p] # Idle,
         RowOf(p)'.status = "running",
         thread'[p].at \in {"started", "leased"} => thread'[p].out = "none",
         thread'[p].at \in {"started", "leased", "done", "accounted"},
         thread'[p].at \in {"done", "accounted"} =>
            thread'[p].out # "none",
         thread'[p].out # "not_started"
  PROVE  ThreadOK(p)'
<1>1. prior'[p] = prior[p] BY DEF Touches
<1>2. \A st \in Stages : st # stage' => NotInDoubt(<<st, p>>)'
  BY OtherStagesKept DEF ThreadOK
<1>3. prior[p] \in PriorRow /\ prior[p].error # "ambiguous" BY DEF ThreadOK
<1>4. ~Waiting(p)' BY DEF Waiting
<1> QED BY <1>1, <1>2, <1>3, <1>4 DEF ThreadOK

(* What each of these steps does to its thread and its row.                *)
LEMMA WorkerFacts ==
  ASSUME EngineBase, ThreadInv, NEW p \in Provider, WorkerStep(p)
  PROVE  /\ Touches(p) /\ pc \in {"run", "draining"} /\ thread[p] # Idle
         /\ ~StartCall(p) => UNCHANGED storeVars
<1>0. thread \in [Provider -> [at : {"idle", "queued", "started", "leased",
                                     "done", "accounted"}, out : Outs]]
  BY DEF EngineBase, ThreadTypeOK
<1>1. /\ UNCHANGED <<stage, prior, pc>> /\ pc \in {"run", "draining"}
      /\ thread[p].at \in {"queued", "started", "leased"}
      /\ \E at, out : ThreadStep(p, at, out)
  <2>1. CASE StartTooLate(p)
    BY <2>1 DEF StartTooLate, Scheduled, Running, ThreadFrame, ctlVars,
                passVars
  <2>2. CASE StartCall(p)
    BY <2>2 DEF StartCall, Scheduled, Running, ThreadFrame, ctlVars, passVars
  <2>3. CASE ReserveCall(p)
    <3>1. \E at, out : ThreadStep(p, at, out) BY <2>3 DEF ReserveCall
    <3> QED BY <2>3, <3>1 DEF ReserveCall, Running, ThreadFrame, ctlVars,
                              passVars
  <2>4. CASE CallTooLate(p)
    BY <2>4 DEF CallTooLate, MayCall, Running, ThreadFrame, ctlVars, passVars
  <2>5. CASE CallProvider(p)
    BY <2>5 DEF CallProvider, MayCall, Running, ThreadFrame, ctlVars,
                passVars
  <2> QED BY <2>1, <2>2, <2>3, <2>4, <2>5 DEF WorkerStep
<1>2. thread[p] # Idle BY <1>1 DEF Idle
<1>3. \A q \in Provider : q # p => thread'[q] = thread[q]
  BY <1>0, <1>1 DEF ThreadStep
<1>4. ~StartCall(p) => UNCHANGED storeVars
  BY DEF WorkerStep, StartTooLate, ReserveCall, CallTooLate, CallProvider
<1>5. StoreTouches(SlotOf(p))
  BY <1>4, PromptType, RowType DEF StartCall, StoreTouches
<1>6. \A s \in Slot : s # SlotOf(p) =>
        inv'[s] = inv[s] /\ undispatched'[s] = undispatched[s]
  BY <1>5, OneSlot, RowType DEF EngineBase
<1> QED BY <1>1, <1>2, <1>3, <1>4, <1>6 DEF Touches

(* Settling a lease moves one finished thread on, and touches no row.      *)
LEMMA LeaseFacts ==
  ASSUME EngineBase, ThreadInv, NEW p \in Provider, LeaseStep(p)
  PROVE  /\ Touches(p) /\ pc = "run" /\ UNCHANGED storeVars
         /\ UNCHANGED hisVars
         /\ thread[p].at = "done" /\ LeaseDue(thread[p].out)
         /\ thread'[p].at = "accounted"
         /\ thread'[p].out \in {thread[p].out, "ambiguous"}
         /\ thread'[p].out # thread[p].out => thread[p].out # "late"
<1>0. thread \in [Provider -> [at : {"idle", "queued", "started", "leased",
                                     "done", "accounted"}, out : Outs]]
  BY DEF EngineBase, ThreadTypeOK
<1>1. /\ UNCHANGED <<stage, prior, pc>> /\ pc = "run" /\ UNCHANGED storeVars
      /\ UNCHANGED hisVars
      /\ thread[p].at = "done" /\ LeaseDue(thread[p].out)
      /\ \E out \in {thread[p].out, "ambiguous"} :
           /\ ThreadStep(p, "accounted", out)
           /\ out # thread[p].out => thread[p].out # "late"
  BY DEF LeaseStep, SettleLease, ReconcileFails, LeaseFrame, ctlVars, passVars
<1>2. \A s \in Slot : s # SlotOf(p) =>
        inv'[s] = inv[s] /\ undispatched'[s] = undispatched[s]
  BY <1>1 DEF storeVars
<1> QED BY <1>0, <1>1, <1>2 DEF Touches, ThreadStep

(* Settling a row frees its thread, after its lease if one was due.        *)
LEMMA SettleFacts ==
  ASSUME EngineBase, ThreadInv, NEW p \in Provider, SettleStep(p)
  PROVE  /\ Touches(p) /\ pc = "run" /\ thread'[p] = Idle
         /\ thread[p].at \in {"done", "accounted"}
         /\ thread[p].at = "done" => ~LeaseDue(thread[p].out)
         /\ UNCHANGED <<reservations, sent>>
<1>0. thread \in [Provider -> [at : {"idle", "queued", "started", "leased",
                                     "done", "accounted"}, out : Outs]]
  BY DEF EngineBase, ThreadTypeOK
<1>1. Settling(p) /\ SettleFrame
  BY DEF SettleStep, SettleUnstarted, SettleUndispatched, SettleSuccess,
         SettleTruncated, SettleFailure
<1>2. StoreTouches(SlotOf(p))
  <2>1. CASE SettleUnstarted(p) BY <2>1 DEF SettleUnstarted, StoreTouches
  <2>2. CASE SettleUndispatched(p)
    <3>1. release_undispatched_invocation(SlotOf(p), prior[p])
      BY <2>2 DEF SettleUndispatched
    <3>2. prior[p] \in PriorRow
      BY <3>1, RowType
      DEF release_undispatched_invocation, PriorFits, PriorRow
    <3> QED BY <3>1, <3>2 DEF StoreTouches
  <2>3. CASE SettleSuccess(p) BY <2>3 DEF SettleSuccess, StoreTouches
  <2>4. CASE SettleTruncated(p)
    BY <2>4 DEF SettleTruncated, StoreTouches, Error
  <2>5. CASE SettleFailure(p)
    <3>1. finish_invocation_failure(SlotOf(p), ErrorOf(thread[p].out))
      BY <2>5 DEF SettleFailure
    <3>2. ErrorOf(thread[p].out) \in Error
      BY <2>5 DEF SettleFailure, ErrorOf, Error
    <3> QED BY <3>1, <3>2 DEF StoreTouches
  <2> QED BY <2>1, <2>2, <2>3, <2>4, <2>5 DEF SettleStep
<1>3. \A s \in Slot : s # SlotOf(p) =>
        inv'[s] = inv[s] /\ undispatched'[s] = undispatched[s]
  BY <1>2, OneSlot, RowType DEF EngineBase
<1>4. UNCHANGED <<stage, prior, pc, reservations, sent>>
  BY <1>1 DEF SettleFrame, ctlVars
<1> QED BY <1>0, <1>1, <1>3, <1>4 DEF Touches, Settling

(* The threads of a stage start for providers none of whose calls is in    *)
(* doubt, with a fresh copy of their rows.                                 *)
LEMMA BeginFacts ==
  ASSUME EngineBase, BeginStage
  PROVE  /\ UNCHANGED storeVars /\ UNCHANGED reservations
         /\ UNCHANGED hisVars /\ UNCHANGED stage /\ pc' = "run"
         /\ pc = "begin"
         /\ \E allowed \in SUBSET Work :
              /\ allowed = {} \/ IsFirst(allowed, Work, DispatchCapacity)
              /\ thread' = [p \in Provider |->
                             IF p \in allowed
                             THEN [at |-> "queued", out |-> "none"] ELSE Idle]
         /\ \A p \in Work : /\ p \in Provider /\ p \in prompts
                            /\ prior'[p] = RowOf(p)
                            /\ RowOf(p) \in PriorRow
                            /\ \A st \in Stages : NotInDoubt(<<st, p>>)
<1>1. /\ UNCHANGED storeVars /\ UNCHANGED reservations
      /\ UNCHANGED hisVars /\ UNCHANGED stage /\ pc' = "run" /\ pc = "begin"
      /\ prior' = [p \in Provider |->
                     IF p \in prompts THEN RowOf(p) ELSE NoRow]
      /\ \A p \in prompts : RowOf(p).status # "running"
  BY DEF BeginStage
<1>2. \E allowed \in SUBSET Work :
        /\ allowed = {} \/ IsFirst(allowed, Work, DispatchCapacity)
        /\ thread' = [p \in Provider |->
                       IF p \in allowed
                       THEN [at |-> "queued", out |-> "none"] ELSE Idle]
  <2>1. PICK allowed \in SUBSET Work :
          /\ IF expired \/ stage \in oversized
             THEN allowed = {}
             ELSE IsFirst(allowed, Work, DispatchCapacity)
          /\ thread' = [p \in Provider |->
                         IF p \in allowed
                         THEN [at |-> "queued", out |-> "none"] ELSE Idle]
    BY DEF BeginStage
  <2> QED BY <2>1
<1>3. ASSUME NEW p \in Work
      PROVE  /\ p \in Provider /\ p \in prompts /\ prior'[p] = RowOf(p)
             /\ RowOf(p) \in PriorRow
             /\ \A st \in Stages : NotInDoubt(<<st, p>>)
  <2>1. p \in prompts /\ p \in Provider
        /\ RowOf(p).status # "succeeded" /\ p \notin AmbiguousProviders
    BY <1>3 DEF Work, EngineBase, PassTypeOK
  <2>2. prior'[p] = RowOf(p) BY <1>1, <2>1
  <2>3. \A st \in Stages : NotInDoubt(<<st, p>>)
    BY <2>1, StageType DEF AmbiguousProviders, NotInDoubt
  <2>4. RowOf(p).status \in {"none", "failed"}
    BY <1>1, <2>1, RowType DEF Row
  <2>5. RowOf(p) \in PriorRow
    BY <2>1, <2>4, RowType DEF EngineBase, StoreInv, RowShape, PriorRow
  <2> QED BY <2>1, <2>2, <2>3, <2>5
<1> QED BY <1>1, <1>2, <1>3

(* No thread runs before the first resume.                                 *)
LEMMA InitThread == EngineInit => ThreadInv
  BY IdleOK DEF EngineInit, ThreadInv, ThreadsIdle

(* start_invocation leaves a running row with one call more.               *)
LEMMA StartedRow ==
  ASSUME EngineBase, NEW p \in Provider, StartCall(p)
  PROVE  /\ RowOf(p)' = [status |-> "running", error |-> "none",
                         response |-> "none", calls |-> RowOf(p).calls + 1,
                         prompt |-> PromptOf(stage)]
         /\ SlotOf(p)' = SlotOf(p) /\ SlotOf(p) \in Slot
         /\ UNCHANGED undispatched
         /\ thread'[p] = [at |-> "started", out |-> "none"]
         /\ thread[p].at = "queued"
<1>1. stage' = stage /\ start_invocation(SlotOf(p), PromptOf(stage))
      /\ thread[p].at = "queued" /\ ThreadStep(p, "started", "none")
  BY DEF StartCall, ThreadFrame, ctlVars, Scheduled
<1>2. thread \in [Provider -> [at : {"idle", "queued", "started", "leased",
                                     "done", "accounted"}, out : Outs]]
  BY DEF EngineBase, ThreadTypeOK
<1>3. inv \in [Slot -> Row] BY DEF EngineBase, StoreInv, StoreTypeOK
<1> QED BY <1>1, <1>2, <1>3, RowType DEF start_invocation, ThreadStep, RowOf,
                                        SlotOf

(* _execute_provider_call keeps the threads in step with their rows.       *)
LEMMA WorkerThread ==
  ASSUME EngineBase, ThreadInv, NEW p \in Provider, WorkerStep(p)
  PROVE  ThreadInv'
<1>0. /\ Touches(p) /\ pc \in {"run", "draining"} /\ thread[p] # Idle
      /\ ~StartCall(p) => UNCHANGED storeVars
      /\ ThreadOK(p)
  BY WorkerFacts DEF ThreadInv
<1>1. thread \in [Provider -> [at : {"idle", "queued", "started", "leased",
                                     "done", "accounted"}, out : Outs]]
  BY DEF EngineBase, ThreadTypeOK
<1>2. UNCHANGED storeVars => RowOf(p)' = RowOf(p)
  BY <1>0 DEF Touches, RowOf, storeVars
<1>3. CASE StartTooLate(p)
  <2>1. thread[p].at = "queued" /\ thread'[p] = [at |-> "done", out |-> "not_started"]
    BY <1>1, <1>3 DEF StartTooLate, Scheduled, ThreadStep
  <2>2. UNCHANGED storeVars BY <1>3 DEF StartTooLate
  <2>3. RowOf(p)' = prior'[p]
    BY <1>0, <1>2, <2>1, <2>2 DEF ThreadOK, Waiting, Touches
  <2>4. \A st \in Stages : st # stage' => NotInDoubt(<<st, p>>)'
    BY <1>0, OtherStagesKept DEF ThreadOK
  <2>5. prior'[p] \in PriorRow /\ prior'[p].error # "ambiguous"
    BY <1>0 DEF ThreadOK, Touches
  <2>6. ThreadOK(p)' BY <2>1, <2>3, <2>4, <2>5 DEF ThreadOK, Waiting
  <2> QED BY <1>0, <2>6, ThreadMoves
<1>4. CASE StartCall(p)
  <2>1. /\ RowOf(p)'.status = "running"
        /\ thread'[p].at = "started" /\ thread'[p].out = "none"
    BY <1>4, StartedRow
  <2>2. ThreadOK(p)' BY <1>0, <2>1, LiveOK
  <2> QED BY <1>0, <2>2, ThreadMoves
<1>5. CASE ReserveCall(p) \/ CallTooLate(p) \/ CallProvider(p)
  <2>1. thread[p].at \in {"started", "leased"}
    BY <1>5 DEF ReserveCall, CallTooLate, CallProvider, MayCall
  <2>2. RowOf(p)'.status = "running"
    <3>1. UNCHANGED storeVars
      BY <1>5 DEF ReserveCall, CallTooLate, CallProvider
    <3> QED BY <1>0, <1>2, <2>1, <3>1 DEF ThreadOK, Waiting
  <2>3. \/ thread'[p] = [at |-> "leased", out |-> "none"]
        \/ \E out \in {"denied", "replayed", "late"} \cup AllOutcomes :
             thread'[p] = [at |-> "done", out |-> out]
    <3>1. CASE ReserveCall(p)
      <4>1. PICK answer \in GateAnswers(SlotOf(p)) :
              IF answer = "granted" THEN ThreadStep(p, "leased", "none")
                                    ELSE ThreadStep(p, "done", answer)
        BY <3>1 DEF ReserveCall
      <4>2. answer \in {"granted", "denied", "replayed"}
        BY DEF GateAnswers
      <4>3. CASE answer = "granted" BY <1>1, <4>1, <4>3 DEF ThreadStep
      <4>4. CASE answer # "granted"
        <5>1. answer \in {"denied", "replayed", "late"} BY <4>2, <4>4
        <5>2. thread'[p] = [at |-> "done", out |-> answer]
          BY <1>1, <4>1, <4>4 DEF ThreadStep
        <5> QED BY <5>1, <5>2
      <4> QED BY <4>3, <4>4
    <3>2. CASE CallTooLate(p) BY <1>1, <3>2 DEF CallTooLate, ThreadStep
    <3>3. CASE CallProvider(p)
      BY <1>1, <3>3, EngineAssumption DEF CallProvider, ThreadStep
    <3> QED BY <1>5, <3>1, <3>2, <3>3
  <2>4. "none" \notin AllOutcomes /\ "not_started" \notin AllOutcomes
    BY DEF AllOutcomes
  <2>5. /\ thread'[p].at \in {"started", "leased"} => thread'[p].out = "none"
        /\ thread'[p].at \in {"started", "leased", "done", "accounted"}
        /\ thread'[p].at \in {"done", "accounted"} => thread'[p].out # "none"
        /\ thread'[p].out # "not_started"
    <3>1. CASE thread'[p] = [at |-> "leased", out |-> "none"] BY <3>1
    <3>2. ASSUME NEW out \in {"denied", "replayed", "late"} \cup AllOutcomes,
                 thread'[p] = [at |-> "done", out |-> out]
          PROVE  /\ thread'[p].at = "done" /\ thread'[p].out # "none"
                 /\ thread'[p].out # "not_started"
      BY <3>2, <2>4
    <3> QED BY <2>3, <3>1, <3>2
  <2>6. ThreadOK(p)' BY <1>0, <2>2, <2>5, LiveOK
  <2> QED BY <1>0, <2>6, ThreadMoves
<1> QED BY <1>3, <1>4, <1>5 DEF WorkerStep

(* So does the settlement of a lease,                                      *)
LEMMA LeaseThread ==
  ASSUME EngineBase, ThreadInv, NEW p \in Provider, LeaseStep(p)
  PROVE  ThreadInv'
<1>1. /\ Touches(p) /\ pc = "run" /\ UNCHANGED storeVars
      /\ thread[p].at = "done" /\ LeaseDue(thread[p].out)
      /\ thread'[p].at = "accounted"
      /\ thread'[p].out \in {thread[p].out, "ambiguous"}
      /\ ThreadOK(p)
  BY LeaseFacts DEF ThreadInv
<1>2. thread[p] # Idle /\ thread[p].out # "none" /\ ~Waiting(p)
  BY <1>1 DEF Idle, ThreadOK, Waiting, LeaseDue
<1>3. RowOf(p)'.status = "running"
  BY <1>1, <1>2 DEF ThreadOK, Touches, RowOf, storeVars
<1>4. thread'[p].out \notin {"none", "not_started"}
  BY <1>1, <1>2 DEF LeaseDue
<1>5. ThreadOK(p)' BY <1>1, <1>2, <1>3, <1>4, LiveOK
<1> QED BY <1>1, <1>5, ThreadMoves

(* the settlement of a row,                                                *)
LEMMA SettleThread ==
  ASSUME EngineBase, ThreadInv, NEW p \in Provider, SettleStep(p)
  PROVE  ThreadInv'
<1>1. Touches(p) /\ pc = "run" /\ thread'[p] = Idle BY SettleFacts
<1>2. ThreadOK(p)' BY <1>1 DEF ThreadOK, Idle
<1> QED BY <1>1, <1>2, ThreadMoves

(* and the start of a pass: only providers without a call in doubt get     *)
(* one.                                                                    *)
LEMMA BeginThread ==
  ASSUME EngineBase, ThreadInv, BeginStage
  PROVE  ThreadInv'
<1>1. PICK allowed \in SUBSET Work :
        thread' = [p \in Provider |->
                    IF p \in allowed
                    THEN [at |-> "queued", out |-> "none"] ELSE Idle]
  BY BeginFacts
<1>2. ASSUME NEW p \in Provider PROVE ThreadOK(p)'
  <2>1. CASE p \notin allowed
    <3>1. thread'[p] = Idle BY <1>1, <2>1
    <3> QED BY <3>1 DEF ThreadOK, Idle
  <2>2. CASE p \in allowed
    <3>1. thread'[p] = [at |-> "queued", out |-> "none"] BY <1>1, <2>2
    <3>2. /\ UNCHANGED inv /\ UNCHANGED stage /\ prior'[p] = RowOf(p)
          /\ RowOf(p) \in PriorRow
          /\ \A st \in Stages : NotInDoubt(<<st, p>>)
      BY <2>2, BeginFacts DEF storeVars
    <3>3. RowOf(p).error # "ambiguous"
      BY <3>2 DEF NotInDoubt, RowOf, EngineBase, ControlTypeOK
    <3>4. RowOf(p)' = RowOf(p) BY <3>2 DEF RowOf
    <3>5. \A st \in Stages : NotInDoubt(<<st, p>>)'
      BY <3>2 DEF NotInDoubt
    <3> QED BY <3>1, <3>2, <3>3, <3>4, <3>5 DEF ThreadOK, Waiting
  <2> QED BY <2>1, <2>2
<1>3. pc' = "run" BY BeginFacts
<1> QED BY <1>2, <1>3 DEF ThreadInv

(* Losses are recorded before any thread is started.                       *)
LEMMA MarkLostFacts ==
  ASSUME EngineBase, ThreadInv, NEW p \in Provider, MarkLost(p)
  PROVE  /\ ThreadsIdle /\ ThreadsIdle' /\ UNCHANGED <<stage, prior, pc>>
         /\ UNCHANGED reservations /\ UNCHANGED hisVars
         /\ finish_invocation_failure(SlotOf(p), "ambiguous")
<1>1. ThreadsIdle BY DEF MarkLost, ThreadInv
<1> QED BY <1>1, SameIdle DEF MarkLost, ctlVars, passVars

(* Every step keeps ThreadInv.                                             *)
LEMMA NextThread ==
  ASSUME EngineBase, ThreadInv, [EngineNext]_vars
  PROVE  ThreadInv'
<1>1. ASSUME ThreadsIdle' PROVE ThreadInv'
  <2>1. ASSUME NEW p \in Provider PROVE ThreadOK(p)'
    <3>1. thread'[p] = Idle BY <1>1 DEF ThreadsIdle
    <3> QED BY <3>1 DEF ThreadOK, Idle
  <2> QED BY <1>1, <2>1 DEF ThreadInv
<1>2. CASE Quiet BY <1>1, <1>2 DEF Quiet
<1>3. CASE Steady
  <2>1. ASSUME NEW p \in Provider PROVE ThreadOK(p)'
    BY <1>3 DEF Steady, storeVars, ThreadInv, ThreadOK, Waiting, NotInDoubt,
                RowOf
  <2>2. pc' \notin {"run", "draining"} => ThreadsIdle'
    BY <1>3 DEF Steady, ThreadInv, ThreadsIdle
  <2> QED BY <2>1, <2>2 DEF ThreadInv
<1>4. ASSUME NEW p \in Provider,
             MarkLost(p) \/ WorkerStep(p) \/ LeaseStep(p) \/ SettleStep(p)
      PROVE  ThreadInv'
  BY <1>1, <1>4, MarkLostFacts, WorkerThread, LeaseThread, SettleThread
<1> QED BY <1>2, <1>3, <1>4, BeginThread, StepKinds

(* While a thread works for a provider, no other call of it is in doubt.   *)
THEOREM ThreadInvHolds == EngineSpec => [](EngineBase /\ ThreadInv)
<1>1. EngineInit => EngineBase /\ ThreadInv BY EngineInitBase, InitThread
<1>2. EngineBase /\ ThreadInv /\ [EngineNext]_vars
        => (EngineBase /\ ThreadInv)'
  BY EngineNextBase, NextThread
<1> QED BY <1>1, <1>2, PTL DEF EngineSpec

----------------------------------------------------------------------------
(* The calls that were handed to a provider.                               *)

SentOf(s) == {a \in sent : a[1] = s}
Handed(s) == <<s, Attempt(s)>> \in sent

(* The thread's call is on the books but was not handed over.              *)
Unsent(p) == \/ thread[p].at \in {"started", "leased"}
             \/ thread[p].out \in {"denied", "replayed", "late"}

(* Fewer calls were handed over than are on the books of the slot.         *)
SpareCall(s) == Cardinality(SentOf(s)) < inv[s].calls

CallOK(p) ==
  /\ Unsent(p) => /\ ~Handed(SlotOf(p)) /\ SlotOf(p) \notin unresolved
                  /\ SpareCall(SlotOf(p))
  /\ thread[p].out \in AllOutcomes => Handed(SlotOf(p))

SlotHistoryOK(s) ==
  /\ \A a \in SentOf(s) : a[2] <= Attempt(s)
  /\ Cardinality(SentOf(s)) <= inv[s].calls
  /\ s \in unresolved => ~NotInDoubt(s)

(* A call that was handed over and not settled for good belongs to a row   *)
(* that says so, and the books cover every call that was handed over.      *)
HistoryInv ==
  /\ IsFiniteSet(sent)
  /\ \A s \in Slot : SlotHistoryOK(s)
  /\ \A p \in Provider : CallOK(p)

SlotHistoryFrame(s) ==
  /\ \A a : a[1] # s => (a \in sent' <=> a \in sent)
  /\ \A t \in Slot : t # s => (t \in unresolved' <=> t \in unresolved)

(* What is known of a slot depends on its own row and calls only.          *)
LEMMA OtherHistoryKept ==
  ASSUME NEW p \in Provider, Touches(p), SlotHistoryFrame(SlotOf(p)),
         NEW s \in Slot, s # SlotOf(p)
  PROVE  /\ SentOf(s)' = SentOf(s) /\ Attempt(s)' = Attempt(s)
         /\ Handed(s)' <=> Handed(s)
         /\ inv'[s] = inv[s] /\ (s \in unresolved' <=> s \in unresolved)
<1>1. inv'[s] = inv[s] /\ undispatched'[s] = undispatched[s] BY DEF Touches
<1>2. Attempt(s)' = Attempt(s) BY <1>1 DEF Attempt
<1>3. \A a : a[1] = s => (a \in sent' <=> a \in sent)
  BY DEF SlotHistoryFrame
<1>4. SentOf(s)' = SentOf(s) BY <1>3 DEF SentOf
<1>5. Handed(s)' <=> Handed(s)
  <2>1. <<s, Attempt(s)>>[1] = s OBVIOUS
  <2> QED BY <1>2, <1>3, <2>1 DEF Handed
<1>6. s \in unresolved' <=> s \in unresolved BY DEF SlotHistoryFrame
<1> QED BY <1>1, <1>2, <1>4, <1>5, <1>6

(* It is enough to look at the slot and the thread that move.              *)
LEMMA HistoryMoves ==
  ASSUME EngineBase, HistoryInv, NEW p \in Provider, Touches(p),
         SlotHistoryFrame(SlotOf(p)), IsFiniteSet(sent'),
         SlotHistoryOK(SlotOf(p))', CallOK(p)'
  PROVE  HistoryInv'
<1>1. stage \in Stages /\ SlotOf(p) \in Slot /\ SlotOf(p)' = SlotOf(p)
  BY RowType DEF Touches, SlotOf
<1>2. ASSUME NEW s \in Slot PROVE SlotHistoryOK(s)'
  <2>1. CASE s = SlotOf(p)
    <3>1. SlotHistoryOK(s)' <=> SlotHistoryOK(SlotOf(p))'
      BY <1>1, <2>1 DEF SlotHistoryOK, SentOf, Attempt, NotInDoubt
    <3> QED BY <3>1
  <2>2. CASE s # SlotOf(p)
    BY <2>2, OtherHistoryKept DEF HistoryInv, SlotHistoryOK, NotInDoubt
  <2> QED BY <2>1, <2>2
<1>3. ASSUME NEW q \in Provider, q # p PROVE CallOK(q)'
  <2>1. /\ thread'[q] = thread[q] /\ SlotOf(q)' = SlotOf(q)
        /\ SlotOf(q) # SlotOf(p) /\ SlotOf(q) \in Slot
    BY <1>1, <1>3, OthersKept, RowType
  <2>2. /\ Handed(SlotOf(q))' <=> Handed(SlotOf(q))
        /\ SlotOf(q)' \in unresolved' <=> SlotOf(q) \in unresolved
        /\ SpareCall(SlotOf(q))' <=> SpareCall(SlotOf(q))
    BY <2>1, OtherHistoryKept DEF SpareCall, Handed, SentOf, Attempt
  <2> QED BY <1>3, <2>1, <2>2 DEF HistoryInv, CallOK, Unsent
<1> QED BY <1>2, <1>3 DEF HistoryInv

(* A thread that has not started its call has handed nothing over.         *)
LEMMA IdleCallOK ==
  ASSUME NEW p \in Provider, thread[p].at \in {"idle", "queued"},
         thread[p].out = "none"
  PROVE  CallOK(p)
  BY DEF CallOK, Unsent, AllOutcomes

(* A step that leaves the history and the slot's books alone.              *)
LEMMA SameHistory ==
  ASSUME UNCHANGED storeVars, UNCHANGED hisVars, HistoryInv
  PROVE  /\ IsFiniteSet(sent')
         /\ \A s \in Slot : /\ SlotHistoryOK(s)' /\ SlotHistoryFrame(s)
                            /\ Handed(s)' <=> Handed(s)
                            /\ SpareCall(s)' <=> SpareCall(s)
                            /\ s \in unresolved' <=> s \in unresolved
  BY DEF storeVars, hisVars, HistoryInv, SlotHistoryOK, SlotHistoryFrame,
         SentOf, Attempt, NotInDoubt, Handed, SpareCall

(* A new run has asked nobody.                                             *)
LEMMA InitHistory == EngineInit => HistoryInv
<1> SUFFICES ASSUME EngineInit PROVE HistoryInv OBVIOUS
<1>1. sent = {} /\ unresolved = {} BY DEF EngineInit
<1>2. ASSUME NEW s \in Slot PROVE SlotHistoryOK(s)
  <2>1. inv[s] = NoRow BY DEF EngineInit, StoreInit
  <2>2. SentOf(s) = {} BY <1>1 DEF SentOf
  <2> QED BY <1>1, <2>1, <2>2, NoRowFields, FS_EmptySet DEF SlotHistoryOK
<1>3. \A p \in Provider : CallOK(p)
  BY IdleCallOK DEF EngineInit, Idle
<1> QED BY <1>1, <1>2, <1>3, FS_EmptySet DEF HistoryInv

(* The worker's steps.                                                     *)
LEMMA WorkerQuietHistory ==
  ASSUME EngineBase, ThreadInv, HistoryInv, NEW p \in Provider,
         StartTooLate(p) \/ ReserveCall(p) \/ CallTooLate(p)
  PROVE  HistoryInv'
<1>0. WorkerStep(p) BY DEF WorkerStep
<1>1. /\ Touches(p) /\ UNCHANGED storeVars /\ UNCHANGED hisVars
      /\ SlotOf(p) \in Slot /\ SlotOf(p)' = SlotOf(p)
  BY <1>0, WorkerFacts, RowType
  DEF StartTooLate, ReserveCall, CallTooLate, StartCall, Touches, SlotOf
<1>2. thread \in [Provider -> [at : {"idle", "queued", "started", "leased",
                                     "done", "accounted"}, out : Outs]]
  BY DEF EngineBase, ThreadTypeOK
<1>3. thread'[p].out \notin AllOutcomes /\ (Unsent(p)' => Unsent(p))
  <2>1. CASE StartTooLate(p)
    BY <1>2, <2>1 DEF StartTooLate, ThreadStep, Unsent, AllOutcomes
  <2>2. CASE ReserveCall(p)
    BY <1>2, <2>2
    DEF ReserveCall, ThreadStep, Unsent, AllOutcomes, GateAnswers
  <2>3. CASE CallTooLate(p)
    BY <1>2, <2>3
    DEF CallTooLate, MayCall, ThreadStep, Unsent, AllOutcomes
  <2> QED BY <2>1, <2>2, <2>3
<1>4. /\ IsFiniteSet(sent') /\ SlotHistoryFrame(SlotOf(p))
      /\ SlotHistoryOK(SlotOf(p))'
  <2>1. SlotHistoryOK(SlotOf(p))'
    <3>1. PICK s \in Slot : s = SlotOf(p) BY <1>1
    <3>2. SlotHistoryOK(s)' BY <1>1, SameHistory
    <3> QED BY <1>1, <3>1, <3>2
        DEF SlotHistoryOK, SentOf, Attempt, NotInDoubt
  <2> QED BY <1>1, <2>1, SameHistory
<1>5. CallOK(p)'
  <2>1. PICK s \in Slot : s = SlotOf(p) /\ s = SlotOf(p)' BY <1>1
  <2>2. /\ Handed(s)' <=> Handed(s)
        /\ SpareCall(s)' <=> SpareCall(s)
        /\ s \in unresolved' <=> s \in unresolved
    BY <1>1, SameHistory
  <2>3. Unsent(p) => ~Handed(s) /\ SpareCall(s) /\ s \notin unresolved
    BY <2>1 DEF HistoryInv, CallOK
  <2>4. Unsent(p)' => ~Handed(s)' /\ SpareCall(s)' /\ s \notin unresolved'
    BY <1>3, <2>2, <2>3
  <2> QED BY <1>3, <2>1, <2>4
      DEF CallOK, Handed, SpareCall, SentOf, Attempt
<1> QED BY <1>1, <1>4, <1>5, HistoryMoves

(* A call that starts is put on the books before it is handed over.        *)
LEMMA StartHistory ==
  ASSUME EngineBase, ThreadInv, HistoryInv, NEW p \in Provider, StartCall(p)
  PROVE  HistoryInv'
<1>0. WorkerStep(p) BY DEF WorkerStep
<1>1. PICK s \in Slot : s = SlotOf(p) /\ s = SlotOf(p)'
  BY StartedRow
<1>2. /\ Touches(p) /\ UNCHANGED sent /\ UNCHANGED unresolved
      /\ thread'[p] = [at |-> "started", out |-> "none"]
      /\ inv'[s].calls = inv[s].calls + 1
      /\ undispatched'[s] = undispatched[s]
      /\ inv[s].calls \in Nat /\ undispatched[s] \in Nat
      /\ thread[p].at = "queued" /\ thread[p] # Idle
  <2>1. RowOf(p)' = inv'[s] /\ RowOf(p) = inv[s] BY <1>1 DEF RowOf, SlotOf
  <2> QED BY <1>0, <2>1, WorkerFacts, StartedRow
          DEF StartCall, hisVars, EngineBase, StoreInv, StoreTypeOK, Row
<1>3. s \notin unresolved
  <2>1. inv[s] = prior[p] /\ prior[p] \in PriorRow
        /\ prior[p].error # "ambiguous"
    BY <1>1, <1>2 DEF ThreadInv, ThreadOK, Waiting, RowOf, SlotOf
  <2>2. NotInDoubt(s) BY <2>1, NoRowFields DEF PriorRow, NotInDoubt
  <2> QED BY <2>2 DEF HistoryInv, SlotHistoryOK
<1>4. /\ Attempt(s)' = Attempt(s) + 1 /\ Attempt(s) \in Nat
      /\ SentOf(s)' = SentOf(s) /\ s \notin unresolved'
  BY <1>2, <1>3 DEF Attempt, SentOf
<1>5. /\ \A a \in SentOf(s) : a[2] <= Attempt(s) /\ a[2] \in Nat
      /\ Cardinality(SentOf(s)) <= inv[s].calls
      /\ Cardinality(SentOf(s)) \in Nat
  <2>1. IsFiniteSet(SentOf(s)) BY FS_Subset DEF HistoryInv, SentOf
  <2>2. \A a \in SentOf(s) : a[2] \in Nat
    BY DEF SentOf, EngineBase, HistoryTypeOK
  <2> QED BY <2>1, <2>2, FS_CardinalityType DEF HistoryInv, SlotHistoryOK
<1>6. SlotHistoryOK(s)' /\ SpareCall(s)'
  BY <1>2, <1>4, <1>5 DEF SlotHistoryOK, SpareCall
<1>7. ~Handed(s)'
  <2>1. <<s, Attempt(s)'>>[1] = s /\ <<s, Attempt(s)'>>[2] = Attempt(s)'
    OBVIOUS
  <2>2. <<s, Attempt(s)'>> \notin SentOf(s) BY <1>4, <1>5, <2>1
  <2> QED BY <1>2, <2>1, <2>2 DEF Handed, SentOf
<1>8. SlotHistoryOK(SlotOf(p))'
  BY <1>1, <1>6 DEF SlotHistoryOK, SentOf, Attempt, NotInDoubt
<1>9. CallOK(p)'
  BY <1>1, <1>2, <1>4, <1>6, <1>7
  DEF CallOK, AllOutcomes, Handed, SpareCall, SentOf, Attempt
<1>10. SlotHistoryFrame(SlotOf(p)) /\ IsFiniteSet(sent')
  BY <1>2 DEF SlotHistoryFrame, HistoryInv
<1> QED BY <1>2, <1>8, <1>9, <1>10, HistoryMoves

(* generate is called: the call is recorded under its attempt number.      *)
LEMMA ProviderFacts ==
  ASSUME EngineBase, ThreadInv, NEW p \in Provider, CallProvider(p)
  PROVE  /\ Touches(p) /\ UNCHANGED storeVars /\ UNCHANGED reservations
         /\ SlotOf(p) \in Slot /\ SlotOf(p)' = SlotOf(p)
         /\ thread[p].at = IF GateOn THEN "leased" ELSE "started"
         /\ Unsent(p) /\ thread[p] # Idle
         /\ sent' = sent \cup {<<SlotOf(p), Attempt(SlotOf(p))>>}
         /\ unresolved' = unresolved \cup {SlotOf(p)}
         /\ thread'[p].at = "done" /\ thread'[p].out \in AllOutcomes
<1>0. WorkerStep(p) BY DEF WorkerStep
<1>1. thread \in [Provider -> [at : {"idle", "queued", "started", "leased",
                                     "done", "accounted"}, out : Outs]]
  BY DEF EngineBase, ThreadTypeOK
<1>2. PICK out \in AllOutcomes : ThreadStep(p, "done", out)
  BY EngineAssumption DEF CallProvider
<1>3. thread'[p] = [at |-> "done", out |-> out] BY <1>1, <1>2 DEF ThreadStep
<1>4. SlotOf(p) \in Slot /\ SlotOf(p)' = SlotOf(p)
  BY <1>0, WorkerFacts, RowType DEF Touches, SlotOf
<1> QED BY <1>0, <1>3, <1>4, WorkerFacts
        DEF CallProvider, MayCall, Unsent, StartCall

(* provider.generate is handed the attempt its row was started for.        *)
LEMMA ProviderHistory ==
  ASSUME EngineBase, ThreadInv, HistoryInv, NEW p \in Provider,
         CallProvider(p)
  PROVE  HistoryInv'
<1>1. PICK s \in Slot : s = SlotOf(p) /\ s = SlotOf(p)' BY ProviderFacts
<1> DEFINE a0 == <<s, Attempt(s)>>
<1>2. /\ Touches(p) /\ UNCHANGED storeVars
      /\ sent' = sent \cup {a0} /\ unresolved' = unresolved \cup {s}
      /\ thread'[p].at = "done" /\ thread'[p].out \in AllOutcomes
      /\ Unsent(p) /\ thread[p] # Idle
  BY <1>1, ProviderFacts
<1>3. inv' = inv /\ Attempt(s)' = Attempt(s) BY <1>2 DEF storeVars, Attempt
<1>4. a0[1] = s /\ a0[2] = Attempt(s) OBVIOUS
<1>5. Attempt(s) \in Nat /\ inv[s].calls \in Nat
  BY DEF Attempt, EngineBase, StoreInv, StoreTypeOK, Row
<1>6. SentOf(s)' = SentOf(s) \cup {a0} BY <1>2, <1>4 DEF SentOf
<1>7. IsFiniteSet(sent') BY <1>2, FS_AddElement DEF HistoryInv
<1>8. IsFiniteSet(SentOf(s)) BY FS_Subset DEF HistoryInv, SentOf
<1>9. Cardinality(SentOf(s)) < inv[s].calls
  BY <1>1, <1>2 DEF HistoryInv, CallOK, SpareCall
<1>10. Cardinality(SentOf(s)') <= inv[s].calls
  <2>1. Cardinality(SentOf(s)) \in Nat BY <1>8, FS_CardinalityType
  <2>2. Cardinality(SentOf(s) \cup {a0}) \in
          {Cardinality(SentOf(s)), Cardinality(SentOf(s)) + 1}
    BY <1>8, FS_AddElement
  <2> QED BY <1>5, <1>6, <1>9, <2>1, <2>2
<1>11. ~NotInDoubt(s)'
  <2>1. ~Waiting(p)
    BY <1>2 DEF Unsent, Waiting, ThreadInv, ThreadOK
  <2>2. inv[s].status = "running"
    BY <1>1, <1>2, <2>1 DEF ThreadInv, ThreadOK, RowOf, SlotOf
  <2> QED BY <1>3, <2>2 DEF NotInDoubt
<1>12. \A a \in SentOf(s)' : a[2] <= Attempt(s)'
  BY <1>3, <1>4, <1>5, <1>6 DEF HistoryInv, SlotHistoryOK
<1>13. SlotHistoryOK(s)'
  BY <1>3, <1>10, <1>11, <1>12 DEF SlotHistoryOK
<1>14. Handed(s)' BY <1>2, <1>3 DEF Handed
<1>15. ~Unsent(p)'
  BY <1>2 DEF Unsent, AllOutcomes
<1>16. SlotHistoryOK(SlotOf(p))' /\ CallOK(p)'
  BY <1>1, <1>13, <1>14, <1>15
  DEF SlotHistoryOK, SentOf, Attempt, NotInDoubt, CallOK, Handed
<1>17. SlotHistoryFrame(SlotOf(p))
  BY <1>1, <1>2, <1>4 DEF SlotHistoryFrame
<1> QED BY <1>2, <1>7, <1>16, <1>17, HistoryMoves

(* A failed reconciliation keeps the call in doubt.                        *)
LEMMA LeaseHistory ==
  ASSUME EngineBase, ThreadInv, HistoryInv, NEW p \in Provider, LeaseStep(p)
  PROVE  HistoryInv'
<1>1. /\ Touches(p) /\ UNCHANGED storeVars /\ UNCHANGED hisVars
      /\ thread[p].at = "done" /\ LeaseDue(thread[p].out)
      /\ thread'[p].at = "accounted"
      /\ thread'[p].out \in {thread[p].out, "ambiguous"}
      /\ thread'[p].out # thread[p].out => thread[p].out # "late"
  BY LeaseFacts
<1>2. PICK s \in Slot : s = SlotOf(p) /\ s = SlotOf(p)'
  BY <1>1, RowType DEF Touches, SlotOf
<1>3. /\ Handed(s)' <=> Handed(s)
      /\ SpareCall(s)' <=> SpareCall(s)
      /\ s \in unresolved' <=> s \in unresolved
      /\ IsFiniteSet(sent') /\ SlotHistoryFrame(s) /\ SlotHistoryOK(s)'
  BY <1>1, SameHistory
<1>4. thread[p].out \in AllOutcomes \cup {"late"}
  <2>1. thread[p].out \in Outs /\ thread[p].out # "none"
    BY <1>1 DEF EngineBase, ThreadTypeOK, ThreadInv, ThreadOK
  <2> QED BY <1>1, <2>1 DEF LeaseDue, Outs, Undispatched
<1>5. CallOK(p)'
  <2>1. CASE thread[p].out = "late"
    <3>1. thread'[p].out = "late" BY <1>1, <2>1
    <3>2. Unsent(p) BY <2>1 DEF Unsent
    <3> QED BY <1>2, <1>3, <3>1, <3>2
        DEF HistoryInv, CallOK, AllOutcomes, Handed, SpareCall, SentOf,
            Attempt
  <2>2. CASE thread[p].out \in AllOutcomes
    <3>1. thread'[p].out \in AllOutcomes BY <1>1, <2>2 DEF AllOutcomes
    <3>2. ~Unsent(p)' BY <1>1, <3>1 DEF Unsent, AllOutcomes
    <3>3. Handed(s) BY <1>2, <2>2 DEF HistoryInv, CallOK
    <3>4. Handed(SlotOf(p))' BY <1>2, <1>3, <3>3 DEF Handed, Attempt
    <3> QED BY <3>2, <3>4 DEF CallOK
  <2> QED BY <1>4, <2>1, <2>2
<1>6. SlotHistoryOK(SlotOf(p))'
  BY <1>2, <1>3 DEF SlotHistoryOK, SentOf, Attempt, NotInDoubt
<1> QED BY <1>1, <1>2, <1>3, <1>5, <1>6, HistoryMoves

(* A settled call leaves its row in the state its outcome calls for.       *)
LEMMA SettledRow ==
  ASSUME EngineBase, ThreadInv, NEW p \in Provider, SettleStep(p),
         NEW s \in Slot, s = SlotOf(p)
  PROVE  \/ /\ SettleUnstarted(p) /\ UNCHANGED <<storeVars, unresolved>>
            /\ thread[p].out = "not_started"
         \/ /\ SettleUndispatched(p) /\ Unsent(p)
            /\ release_undispatched_invocation(s, prior[p])
            /\ prior[p] \in PriorRow /\ prior[p].error # "ambiguous"
            /\ inv'[s] = prior[p] /\ prior[p].calls + 1 = inv[s].calls
            /\ undispatched'[s] = undispatched[s] + 1
            /\ UNCHANGED unresolved
         \/ /\ inv'[s].calls = inv[s].calls
            /\ undispatched' = undispatched /\ retryEvents' = retryEvents
            /\ thread[p].out \in AllOutcomes \cup {"replayed"}
            /\ \/ /\ inv'[s].error = "ambiguous"
                  /\ finish_invocation_failure(s, "ambiguous")
                  /\ unresolved' = unresolved
               \/ /\ unresolved' = unresolved \ {s}
                  /\ thread[p].out \in AllOutcomes \ {"ambiguous"}
                  /\ \/ \E error \in {"error", "length"} :
                          /\ thread[p].out = error
                          /\ finish_invocation_failure(s, error)
                     \/ finish_invocation_success(s, thread[p].out)
<1>0. inv \in [Slot -> Row] /\ inv[s] \in Row
      /\ undispatched \in [Slot -> Nat]
  BY DEF EngineBase, StoreInv, StoreTypeOK
<1>1. CASE SettleUnstarted(p) BY <1>1 DEF SettleUnstarted
<1>2. CASE SettleUndispatched(p)
  <2>1. /\ release_undispatched_invocation(s, prior[p])
        /\ thread[p].out \in {"denied", "late"} /\ UNCHANGED unresolved
    BY <1>2 DEF SettleUndispatched
  <2>2. thread[p] # Idle BY <2>1 DEF Idle
  <2>3. prior[p] \in PriorRow /\ prior[p].error # "ambiguous"
    BY <2>2 DEF ThreadInv, ThreadOK
  <2>4. prior[p].calls \in Nat /\ inv[s].calls \in Nat
    BY <1>0, RowType DEF Row
  <2>5. prior[p].calls + 1 = inv[s].calls
    BY <2>1, <2>4, NoRowFields
    DEF release_undispatched_invocation, PriorFits
  <2>6. inv'[s] = prior[p] /\ undispatched'[s] = undispatched[s] + 1
    BY <1>0, <2>1 DEF release_undispatched_invocation
  <2> QED BY <1>2, <2>1, <2>3, <2>5, <2>6 DEF Unsent
<1>3. CASE SettleSuccess(p)
  <2>1. /\ finish_invocation_success(s, thread[p].out)
        /\ thread[p].out \in Response /\ unresolved' = unresolved \ {s}
    BY <1>3 DEF SettleSuccess
  <2>2. thread[p].out \in AllOutcomes \ {"ambiguous"}
    BY <2>1, EngineAssumption DEF AllOutcomes
  <2>3. inv'[s].calls = inv[s].calls
    BY <1>0, <2>1 DEF finish_invocation_success, Row
  <2> QED BY <2>1, <2>2, <2>3 DEF finish_invocation_success
<1>4. CASE SettleTruncated(p) \/ SettleFailure(p)
  <2>1. PICK error \in {"error", "length", "ambiguous"} :
          /\ finish_invocation_failure(s, error)
          /\ \/ error = "ambiguous" /\ unresolved' = unresolved
                /\ thread[p].out \in {"ambiguous", "replayed"}
             \/ /\ error # "ambiguous" /\ unresolved' = unresolved \ {s}
                /\ thread[p].out = error
    <3>1. CASE SettleTruncated(p) BY <3>1 DEF SettleTruncated
    <3>2. CASE SettleFailure(p)
      BY <3>2 DEF SettleFailure, ErrorOf, Error
    <3> QED BY <1>4, <3>1, <3>2
  <2>2. inv'[s].calls = inv[s].calls /\ inv'[s].error = error
    BY <1>0, <2>1 DEF finish_invocation_failure, Row
  <2>3. undispatched' = undispatched /\ retryEvents' = retryEvents
    BY <2>1 DEF finish_invocation_failure
  <2>4. {"error", "length"} \subseteq AllOutcomes \ {"ambiguous"}
        /\ "ambiguous" \in AllOutcomes
    BY DEF AllOutcomes
  <2> QED BY <2>1, <2>2, <2>3, <2>4
<1> QED BY <1>1, <1>2, <1>3, <1>4 DEF SettleStep

(* A definite outcome is stored in the step that takes the call out of     *)
(* doubt; only a call that was never sent is released.                     *)
LEMMA SettleHistory ==
  ASSUME EngineBase, ThreadInv, HistoryInv, NEW p \in Provider,
         SettleStep(p)
  PROVE  HistoryInv'
<1>1. /\ Touches(p) /\ thread'[p] = Idle /\ UNCHANGED sent
      /\ SlotOf(p) \in Slot
  BY SettleFacts, RowType
<1>2. PICK s \in Slot : s = SlotOf(p) /\ s = SlotOf(p)'
  BY <1>1 DEF Touches, SlotOf
<1>3. SentOf(s)' = SentOf(s) /\ IsFiniteSet(sent')
  BY <1>1 DEF SentOf, HistoryInv
<1>4. /\ \A a \in SentOf(s) : a[2] <= Attempt(s)
      /\ Cardinality(SentOf(s)) <= inv[s].calls
      /\ s \in unresolved => ~NotInDoubt(s)
  BY DEF HistoryInv, SlotHistoryOK
<1>5. Cardinality(SentOf(s)) \in Nat
  <2>1. IsFiniteSet(SentOf(s)) BY FS_Subset DEF HistoryInv, SentOf
  <2> QED BY <2>1, FS_CardinalityType
<1>6. inv[s].calls \in Nat /\ undispatched[s] \in Nat
  BY DEF EngineBase, StoreInv, StoreTypeOK, Row
<1>7. SlotHistoryOK(s)' /\ SlotHistoryFrame(s)
  <2>1. CASE UNCHANGED <<storeVars, unresolved>>
    <3>1. /\ Attempt(s)' = Attempt(s) /\ inv' = inv
          /\ unresolved' = unresolved
          /\ NotInDoubt(s)' <=> NotInDoubt(s)
      BY <2>1 DEF storeVars, Attempt, NotInDoubt
    <3> QED BY <1>1, <1>3, <1>4, <3>1 DEF SlotHistoryOK, SlotHistoryFrame
  <2>2. CASE /\ Unsent(p) /\ inv'[s] = prior[p]
             /\ prior[p].calls + 1 = inv[s].calls
             /\ undispatched'[s] = undispatched[s] + 1
             /\ UNCHANGED unresolved
    <3>1. prior[p].calls \in Nat BY RowType DEF Row
    <3>2. Attempt(s)' = Attempt(s) BY <1>6, <2>2, <3>1 DEF Attempt
    <3>3. s \notin unresolved /\ Cardinality(SentOf(s)) < inv[s].calls
      BY <1>2, <2>2 DEF HistoryInv, CallOK, SpareCall
    <3>4. Cardinality(SentOf(s)) <= inv'[s].calls
      BY <1>5, <2>2, <3>1, <3>3
    <3> QED BY <1>1, <1>3, <1>4, <2>2, <3>2, <3>3, <3>4
            DEF SlotHistoryOK, SlotHistoryFrame
  <2>3. CASE /\ inv'[s].calls = inv[s].calls
             /\ undispatched' = undispatched
             /\ \/ inv'[s].error = "ambiguous" /\ unresolved' = unresolved
                \/ unresolved' = unresolved \ {s}
    <3>1. Attempt(s)' = Attempt(s) BY <2>3 DEF Attempt
    <3>2. s \in unresolved' => ~NotInDoubt(s)' BY <2>3 DEF NotInDoubt
    <3> QED BY <1>1, <1>3, <1>4, <2>3, <3>1, <3>2
            DEF SlotHistoryOK, SlotHistoryFrame
  <2> QED BY <1>2, <2>1, <2>2, <2>3, SettledRow
<1>8. SlotHistoryOK(SlotOf(p))'
  BY <1>2, <1>7 DEF SlotHistoryOK, SentOf, Attempt, NotInDoubt
<1>9. CallOK(p)' BY <1>1 DEF CallOK, Unsent, Idle, AllOutcomes
<1> QED BY <1>1, <1>2, <1>3, <1>7, <1>8, <1>9, HistoryMoves

(* A call whose process died is in doubt, sent or not.                     *)
LEMMA MarkLostHistory ==
  ASSUME EngineBase, ThreadInv, HistoryInv, NEW p \in Provider, MarkLost(p)
  PROVE  HistoryInv'
<1>1. /\ ThreadsIdle /\ ThreadsIdle' /\ UNCHANGED <<stage, prior, pc>>
      /\ UNCHANGED hisVars
      /\ finish_invocation_failure(SlotOf(p), "ambiguous")
  BY MarkLostFacts
<1>2. PICK s \in Slot : s = SlotOf(p) /\ s = SlotOf(p)'
  BY <1>1, RowType DEF SlotOf
<1>3. inv \in [Slot -> Row] BY DEF EngineBase, StoreInv, StoreTypeOK
<1>4. Touches(p)
  BY <1>1, <1>3 DEF Touches, ThreadsIdle, finish_invocation_failure
<1>5. /\ inv'[s].calls = inv[s].calls /\ inv'[s].error = "ambiguous"
      /\ undispatched' = undispatched
  BY <1>1, <1>2, <1>3 DEF finish_invocation_failure, Row
<1>6. SlotHistoryOK(s)'
  <2>1. Attempt(s)' = Attempt(s) BY <1>5 DEF Attempt
  <2>2. SentOf(s)' = SentOf(s) BY <1>1 DEF SentOf, hisVars
  <2>3. ~NotInDoubt(s)' BY <1>5 DEF NotInDoubt
  <2> QED BY <1>5, <2>1, <2>2, <2>3 DEF HistoryInv, SlotHistoryOK
<1>7. SlotHistoryOK(SlotOf(p))'
  BY <1>2, <1>6 DEF SlotHistoryOK, SentOf, Attempt, NotInDoubt
<1>8. CallOK(p)'
  <2>1. thread'[p] = Idle BY <1>1 DEF ThreadsIdle
  <2> QED BY <2>1 DEF CallOK, Unsent, Idle, AllOutcomes
<1>9. SlotHistoryFrame(SlotOf(p)) /\ IsFiniteSet(sent')
  BY <1>1 DEF SlotHistoryFrame, hisVars, HistoryInv
<1> QED BY <1>4, <1>7, <1>8, <1>9, HistoryMoves

(* Every step keeps HistoryInv.                                            *)
LEMMA NextHistory ==
  ASSUME EngineBase, ThreadInv, HistoryInv, [EngineNext]_vars
  PROVE  HistoryInv'
<1>1. CASE Quiet
  <2>1. ASSUME NEW p \in Provider PROVE CallOK(p)'
    <3>1. thread'[p] = Idle BY <1>1 DEF Quiet, ThreadsIdle
    <3> QED BY <3>1 DEF CallOK, Unsent, Idle, AllOutcomes
  <2>2. IsFiniteSet(sent') /\ \A s \in Slot : SlotHistoryOK(s)'
    BY <1>1, SameHistory DEF Quiet
  <2> QED BY <2>1, <2>2 DEF HistoryInv
<1>2. CASE Steady
  <2>1. ASSUME NEW p \in Provider PROVE CallOK(p)'
    BY <1>2 DEF Steady, storeVars, hisVars, HistoryInv, CallOK, Unsent,
                Handed, SpareCall, SentOf, Attempt, SlotOf
  <2>2. IsFiniteSet(sent') /\ \A s \in Slot : SlotHistoryOK(s)'
    BY <1>2, SameHistory DEF Steady
  <2> QED BY <2>1, <2>2 DEF HistoryInv
<1>3. CASE BeginStage
  <2>1. PICK allowed \in SUBSET Work :
          thread' = [p \in Provider |->
                      IF p \in allowed
                      THEN [at |-> "queued", out |-> "none"] ELSE Idle]
    BY <1>3, BeginFacts
  <2>2. ASSUME NEW p \in Provider PROVE CallOK(p)'
    BY <2>1 DEF CallOK, Unsent, Idle, AllOutcomes
  <2>3. IsFiniteSet(sent') /\ \A s \in Slot : SlotHistoryOK(s)'
    BY <1>3, BeginFacts, SameHistory
  <2> QED BY <2>2, <2>3 DEF HistoryInv
<1>4. ASSUME NEW p \in Provider,
             MarkLost(p) \/ WorkerStep(p) \/ LeaseStep(p) \/ SettleStep(p)
      PROVE  HistoryInv'
  BY <1>4, MarkLostHistory, WorkerQuietHistory, StartHistory,
     ProviderHistory, LeaseHistory, SettleHistory DEF WorkerStep
<1> QED BY <1>1, <1>2, <1>3, <1>4, StepKinds

(* The books of a run agree with what was handed to its providers.         *)
THEOREM HistoryHolds == EngineSpec => []HistoryInv
<1>1. EngineInit => HistoryInv BY InitHistory
<1>2. EngineBase /\ ThreadInv /\ HistoryInv /\ [EngineNext]_vars
        => HistoryInv'
  BY NextHistory
<1> QED BY <1>1, <1>2, ThreadInvHolds, PTL DEF EngineSpec

----------------------------------------------------------------------------
(* No provider is asked while one of its calls may have been executed.     *)

RedispatchStep ==
  \A s \in Slot :
    {a \in sent' : a[1] = s} # {a \in sent : a[1] = s}
      => \A t \in unresolved : t[2] # s[2]

(* A call is handed over only for a provider without a call in doubt.      *)
LEMMA NoBlindStep ==
  ASSUME EngineBase, ThreadInv, HistoryInv, [EngineNext]_vars
  PROVE  RedispatchStep
<1>1. CASE UNCHANGED sent BY <1>1 DEF RedispatchStep
<1>2. ASSUME NEW p \in Provider, CallProvider(p) PROVE RedispatchStep
  <2>1. /\ sent' = sent \cup {<<SlotOf(p), Attempt(SlotOf(p))>>}
        /\ Unsent(p) /\ thread[p] # Idle
    BY <1>2, ProviderFacts
  <2>2. \A st \in Stages : <<st, p>> \notin unresolved
    <3> TAKE st \in Stages
    <3>1. CASE st = stage
      BY <2>1, <3>1 DEF HistoryInv, CallOK, SlotOf
    <3>2. CASE st # stage
      <4>1. NotInDoubt(<<st, p>>) BY <2>1, <3>2 DEF ThreadInv, ThreadOK
      <4> QED BY <4>1, SlotOfType DEF HistoryInv, SlotHistoryOK
    <3> QED BY <3>1, <3>2
  <2>3. \A t \in unresolved : t[2] # p
    <3> SUFFICES ASSUME NEW t \in unresolved, t[2] = p PROVE FALSE OBVIOUS
    <3>1. t \in Slot BY DEF EngineBase, HistoryTypeOK
    <3>2. t = <<t[1], p>> /\ t[1] \in Stages BY <3>1, StageType DEF Slot
    <3> QED BY <2>2, <3>2
  <2>4. ASSUME NEW s \in Slot, s # SlotOf(p)
        PROVE  {a \in sent' : a[1] = s} = {a \in sent : a[1] = s}
    <3>1. <<SlotOf(p), Attempt(SlotOf(p))>>[1] = SlotOf(p) OBVIOUS
    <3> QED BY <2>1, <2>4, <3>1
  <2>5. SlotOf(p)[2] = p BY DEF SlotOf
  <2> QED BY <2>3, <2>4, <2>5 DEF RedispatchStep
<1>3. ASSUME NEW p \in Provider,
             MarkLost(p) \/ LeaseStep(p) \/ SettleStep(p)
      PROVE  UNCHANGED sent
  BY <1>3, MarkLostFacts, LeaseFacts, SettleFacts DEF hisVars
<1>4. ASSUME NEW p \in Provider, WorkerStep(p), ~CallProvider(p)
      PROVE  UNCHANGED sent
  BY <1>4 DEF WorkerStep, StartTooLate, StartCall, ReserveCall, CallTooLate,
              hisVars
<1>5. Quiet \/ Steady \/ BeginStage => UNCHANGED sent
  BY BeginFacts DEF Quiet, Steady, hisVars
<1> QED BY <1>1, <1>2, <1>3, <1>4, <1>5, StepKinds

(* NothingAskedBlindly: for any number of providers, threads, crashes and  *)
(* resumes, _execute_provider_call never hands a call to a provider while  *)
(* another call to it in this run may have been executed unseen.           *)
THEOREM NothingAskedBlindly == EngineSpec => NoBlindRedispatch
<1>1. EngineBase /\ ThreadInv /\ HistoryInv /\ [EngineNext]_vars
        => [RedispatchStep]_vars
  BY NoBlindStep
<1> QED BY <1>1, ThreadInvHolds, HistoryHolds, PTL
        DEF EngineSpec, NoBlindRedispatch, RedispatchStep

----------------------------------------------------------------------------
(* The call gate's reservations.                                           *)

(* A reservation is for an attempt that was made; while it is open it is   *)
(* for the slot's present attempt, which is running or in doubt.           *)
ReservationOK(r) ==
  /\ r.attempt <= Attempt(r.slot)
  /\ r.state = "reserved" => /\ r.attempt = Attempt(r.slot)
                             /\ ~NotInDoubt(r.slot)

(* Before it reserves, a thread's attempt is unknown to the gate; with its *)
(* lease it has an open reservation; once that is settled for good it has  *)
(* none.                                                                   *)
LeaseOK(p) ==
  /\ thread[p].at = "started" =>
       \A r \in reservations :
         r.slot = SlotOf(p) => r.attempt < Attempt(SlotOf(p))
  /\ thread[p].at = "leased" =>
       \E r \in reservations : /\ r.slot = SlotOf(p)
                               /\ r.attempt = Attempt(SlotOf(p))
                               /\ r.state = "reserved"
  /\ \/ thread[p].out = "denied"
     \/ thread[p].at = "accounted" /\ thread[p].out # "ambiguous"
     => \A r \in reservations : r.slot = SlotOf(p) => r.state # "reserved"

Charged(a) == \E r \in reservations : /\ r.slot = a[1] /\ r.attempt = a[2]
                                      /\ r.state # "released"

ReservationInv ==
  /\ ~GateOn => reservations = {}
  /\ \A r \in reservations : ReservationOK(r)
  /\ \A p \in Provider : LeaseOK(p)
  /\ GateOn => \A a \in sent : Charged(a)

(* A step on one slot touches the reservations of that slot only.          *)
OtherReservationsKept(s) ==
  \A r : r.slot # s => (r \in reservations' <=> r \in reservations)

(* It is enough to look at the reservations of the slot that moves.        *)
LEMMA ReservationMoves ==
  ASSUME EngineBase, EngineBase', ReservationInv, NEW p \in Provider,
         Touches(p), OtherReservationsKept(SlotOf(p)), LeaseOK(p)',
         \A r \in reservations' : r.slot = SlotOf(p) => ReservationOK(r)',
         ~GateOn => reservations' = {},
         GateOn => \A a \in sent' : Charged(a)'
  PROVE  ReservationInv'
<1>1. ASSUME NEW r \in reservations', r.slot # SlotOf(p)
      PROVE  ReservationOK(r)'
  <2>1. r \in reservations BY <1>1 DEF OtherReservationsKept
  <2>2. r.slot \in Slot BY <2>1 DEF EngineBase, ReservationsTypeOK
  <2>3. inv'[r.slot] = inv[r.slot] /\ undispatched'[r.slot] = undispatched[r.slot]
    BY <1>1, <2>2 DEF Touches
  <2> QED BY <2>1, <2>3
          DEF ReservationInv, ReservationOK, Attempt, NotInDoubt
<1>2. ASSUME NEW q \in Provider, q # p PROVE LeaseOK(q)'
  <2>1. stage \in Stages BY DEF EngineBase, ControlTypeOK
  <2>2. /\ thread'[q] = thread[q] /\ SlotOf(q)' = SlotOf(q)
        /\ SlotOf(q) # SlotOf(p) /\ SlotOf(q) \in Slot
    BY <1>2, <2>1, OthersKept, RowType
  <2>3. Attempt(SlotOf(q))' = Attempt(SlotOf(q))
    BY <2>2 DEF Touches, Attempt
  <2>4. \A r : r.slot = SlotOf(q) => (r \in reservations' <=> r \in reservations)
    BY <2>2 DEF OtherReservationsKept
  <2>5. LeaseOK(q) BY DEF ReservationInv
  <2> QED BY <2>2, <2>3, <2>4, <2>5 DEF LeaseOK
<1> QED BY <1>1, <1>2 DEF ReservationInv

(* A thread that is not leased makes no claim about reservations.          *)
LEMMA IdleLease ==
  ASSUME NEW p \in Provider, thread[p].at \in {"idle", "queued", "done"},
         thread[p].out # "denied"
  PROVE  LeaseOK(p)
  BY DEF LeaseOK

(* Where books, reservations and history stay, so does the invariant.      *)
LEMMA SameReservations ==
  ASSUME ReservationInv, UNCHANGED storeVars, UNCHANGED reservations
  PROVE  /\ ~GateOn => reservations' = {}
         /\ \A r \in reservations' : ReservationOK(r)'
         /\ \A s : OtherReservationsKept(s)
         /\ \A a : Charged(a)' <=> Charged(a)
  BY DEF storeVars, ReservationInv, ReservationOK, Attempt, NotInDoubt,
         OtherReservationsKept, Charged

(* A started call has an attempt number above all reserved ones.           *)
LEMMA StartReservation ==
  ASSUME EngineBase, EngineBase', ThreadInv, ReservationInv,
         NEW p \in Provider, StartCall(p)
  PROVE  ReservationInv'
<1>0. WorkerStep(p) BY DEF WorkerStep
<1>1. PICK s \in Slot : s = SlotOf(p) /\ s = SlotOf(p)'
  BY StartedRow
<1>2. /\ Touches(p) /\ UNCHANGED sent /\ UNCHANGED reservations
      /\ thread'[p] = [at |-> "started", out |-> "none"]
      /\ inv'[s].calls = inv[s].calls + 1
      /\ undispatched'[s] = undispatched[s]
      /\ inv[s].calls \in Nat /\ undispatched[s] \in Nat
      /\ thread[p].at = "queued" /\ thread[p] # Idle
  <2>1. RowOf(p)' = inv'[s] /\ RowOf(p) = inv[s] BY <1>1 DEF RowOf, SlotOf
  <2> QED BY <1>0, <2>1, WorkerFacts, StartedRow
          DEF StartCall, hisVars, EngineBase, StoreInv, StoreTypeOK, Row
<1>3. Attempt(s)' = Attempt(s) + 1 /\ Attempt(s) \in Nat
  BY <1>2 DEF Attempt
<1>4. NotInDoubt(s)
  <2>1. inv[s] = prior[p] /\ prior[p] \in PriorRow
        /\ prior[p].error # "ambiguous"
    BY <1>1, <1>2 DEF ThreadInv, ThreadOK, Waiting, RowOf, SlotOf
  <2> QED BY <2>1, NoRowFields DEF PriorRow, NotInDoubt
<1>5. ASSUME NEW r \in reservations, r.slot = s
      PROVE  r.attempt < Attempt(s)' /\ r.state # "reserved"
  <2>1. ReservationOK(r) /\ r.attempt \in Nat
    BY DEF ReservationInv, EngineBase, ReservationsTypeOK
  <2> QED BY <1>3, <1>4, <1>5, <2>1 DEF ReservationOK
<1>6. LeaseOK(p)'
  BY <1>1, <1>2, <1>5 DEF LeaseOK, Attempt
<1>7. \A r \in reservations' : r.slot = SlotOf(p) => ReservationOK(r)'
  <2> SUFFICES ASSUME NEW r \in reservations, r.slot = s
               PROVE  ReservationOK(r)'
    BY <1>1, <1>2
  <2>1. r.attempt < Attempt(s)' /\ r.state # "reserved" BY <1>5
  <2>2. Attempt(r.slot)' = Attempt(s)' BY DEF Attempt
  <2>3. r.attempt \in Nat /\ Attempt(s)' \in Nat
    BY <1>3 DEF EngineBase, ReservationsTypeOK
  <2> QED BY <2>1, <2>2, <2>3 DEF ReservationOK
<1>8. OtherReservationsKept(SlotOf(p)) /\ (~GateOn => reservations' = {})
  BY <1>2 DEF OtherReservationsKept, ReservationInv
<1>9. GateOn => \A a \in sent' : Charged(a)'
  BY <1>2 DEF ReservationInv, Charged
<1> QED BY <1>2, <1>6, <1>7, <1>8, <1>9, ReservationMoves

(* A worker's step that changes no reservation and no row.                 *)
LEMMA WorkerQuietReservation ==
  ASSUME EngineBase, EngineBase', ThreadInv, ReservationInv,
         NEW p \in Provider,
         StartTooLate(p) \/ CallTooLate(p) \/ CallProvider(p)
  PROVE  ReservationInv'
<1>0. WorkerStep(p) BY DEF WorkerStep
<1>1. /\ Touches(p) /\ UNCHANGED storeVars /\ UNCHANGED reservations
  BY <1>0, WorkerFacts
  DEF StartTooLate, CallTooLate, CallProvider, StartCall
<1>2. thread \in [Provider -> [at : {"idle", "queued", "started", "leased",
                                     "done", "accounted"}, out : Outs]]
  BY DEF EngineBase, ThreadTypeOK
<1>3. thread'[p].at = "done" /\ thread'[p].out # "denied"
  <2>1. CASE StartTooLate(p) BY <1>2, <2>1 DEF StartTooLate, ThreadStep
  <2>2. CASE CallTooLate(p) BY <1>2, <2>2 DEF CallTooLate, ThreadStep
  <2>3. CASE CallProvider(p) BY <2>3, ProviderFacts DEF AllOutcomes
  <2> QED BY <2>1, <2>2, <2>3
<1>4. LeaseOK(p)' BY <1>3 DEF LeaseOK
<1>5. ASSUME GateOn, NEW a \in sent' PROVE Charged(a)'
  <2>1. CASE a \in sent
    BY <1>1, <1>5, <2>1, SameReservations DEF ReservationInv
  <2>2. CASE a \notin sent
    <3>1. CallProvider(p)
      BY <1>5, <2>2 DEF StartTooLate, CallTooLate, hisVars
    <3>2. a = <<SlotOf(p), Attempt(SlotOf(p))>> /\ thread[p].at = "leased"
      BY <1>5, <2>2, <3>1, ProviderFacts
    <3>3. PICK r \in reservations : /\ r.slot = SlotOf(p)
                                    /\ r.attempt = Attempt(SlotOf(p))
                                    /\ r.state = "reserved"
      BY <3>2 DEF ReservationInv, LeaseOK
    <3>4. a[1] = SlotOf(p) /\ a[2] = Attempt(SlotOf(p)) BY <3>2
    <3> QED BY <1>1, <3>3, <3>4 DEF Charged
  <2> QED BY <2>1, <2>2
<1> QED BY <1>1, <1>4, <1>5, ReservationMoves, SameReservations

(* The gate adds one open reservation for a running row.                   *)
LEMMA ReserveReservation ==
  ASSUME EngineBase, EngineBase', ThreadInv, ReservationInv,
         NEW p \in Provider, ReserveCall(p)
  PROVE  ReservationInv'
<1>0. WorkerStep(p) BY DEF WorkerStep
<1>1. /\ Touches(p) /\ UNCHANGED storeVars /\ UNCHANGED sent
      /\ thread[p].at = "started" /\ GateOn /\ thread[p] # Idle
  BY <1>0, WorkerFacts DEF ReserveCall, StartCall, hisVars
<1>2. thread \in [Provider -> [at : {"idle", "queued", "started", "leased",
                                     "done", "accounted"}, out : Outs]]
  BY DEF EngineBase, ThreadTypeOK
<1>3. PICK s \in Slot : s = SlotOf(p) /\ s = SlotOf(p)'
  BY <1>1, RowType DEF Touches, SlotOf
<1>4. inv' = inv /\ Attempt(s)' = Attempt(s) /\ Attempt(s) \in Nat
  BY <1>1
  DEF storeVars, Attempt, EngineBase, StoreInv, StoreTypeOK, Row
<1>5. inv[s].status = "running"
  <2>1. ThreadOK(p) BY DEF ThreadInv
  <2>2. ~Waiting(p) BY <1>1, <2>1 DEF ThreadOK, Waiting
  <2> QED BY <1>1, <1>3, <2>1, <2>2 DEF ThreadOK, RowOf, SlotOf
<1>6. ASSUME NEW r \in reservations, r.slot = s
      PROVE  r.attempt < Attempt(s) /\ r.state # "reserved"
  <2>1. r.attempt < Attempt(s)
    BY <1>1, <1>3, <1>6 DEF ReservationInv, LeaseOK
  <2>2. r.state = "reserved" => r.attempt = Attempt(s)
    BY <1>6 DEF ReservationInv, ReservationOK
  <2>3. r.attempt \in Nat BY DEF EngineBase, ReservationsTypeOK
  <2> QED BY <1>4, <2>1, <2>2, <2>3
<1>7. CASE UNCHANGED reservations
  <2>1. thread'[p].at = "done"
    <3>1. PICK answer \in GateAnswers(SlotOf(p)) :
           IF answer = "granted"
           THEN /\ reservations' = reservations \cup
                     {[slot |-> SlotOf(p), attempt |-> Attempt(SlotOf(p)),
                       state |-> "reserved"]}
                /\ ThreadStep(p, "leased", "none")
           ELSE /\ ThreadStep(p, "done", answer)
                /\ UNCHANGED reservations
      BY DEF ReserveCall
    <3>2. answer # "granted"
      <4> SUFFICES ASSUME answer = "granted" PROVE FALSE OBVIOUS
      <4> DEFINE r0 == [slot |-> SlotOf(p), attempt |-> Attempt(SlotOf(p)),
                        state |-> "reserved"]
      <4>1. r0 \in reservations BY <1>7, <3>1
      <4>2. r0.slot = s /\ r0.state = "reserved" BY <1>3
      <4> QED BY <1>6, <4>1, <4>2
    <3> QED BY <1>2, <3>1, <3>2 DEF ThreadStep
  <2>2. LeaseOK(p)'
    BY <1>3, <1>6, <1>7, <2>1 DEF LeaseOK
  <2>3. GateOn => \A a \in sent' : Charged(a)'
    BY <1>1, <1>7 DEF ReservationInv, Charged
  <2> QED BY <1>1, <1>7, <2>2, <2>3, ReservationMoves, SameReservations
<1>8. CASE ~UNCHANGED reservations
  <2>0. PICK r0 : r0 = [slot |-> s, attempt |-> Attempt(s),
                        state |-> "reserved"]
    OBVIOUS
  <2>1. reservations' = reservations \cup {r0}
        /\ thread'[p] = [at |-> "leased", out |-> "none"]
    BY <1>2, <1>3, <1>8, <2>0 DEF ReserveCall, ThreadStep
  <2>2. r0.slot = s /\ r0.attempt = Attempt(s) /\ r0.state = "reserved"
    BY <2>0
  <2>3. ReservationOK(r0)'
    <3>1. Attempt(r0.slot)' = Attempt(s) /\ inv'[r0.slot] = inv[s]
      BY <1>4, <2>2 DEF Attempt
    <3> QED BY <1>4, <1>5, <2>2, <3>1 DEF ReservationOK, NotInDoubt
  <2>4. \A r \in reservations : ReservationOK(r)'
    BY <1>1 DEF ReservationInv, ReservationOK, Attempt, NotInDoubt,
                storeVars
  <2>5. LeaseOK(p)'
    <3>1. r0 \in reservations' BY <2>1
    <3>2. r0.attempt = Attempt(SlotOf(p))' /\ r0.slot = SlotOf(p)'
      BY <1>3, <1>4, <2>2 DEF Attempt
    <3> QED BY <2>1, <2>2, <3>1, <3>2 DEF LeaseOK
  <2>6. OtherReservationsKept(SlotOf(p))
    BY <1>3, <2>1, <2>2 DEF OtherReservationsKept
  <2>7. GateOn => \A a \in sent' : Charged(a)'
    BY <1>1, <2>1 DEF ReservationInv, Charged
  <2>8. \A r \in reservations' : ReservationOK(r)'
    BY <2>1, <2>3, <2>4
  <2> QED BY <1>1, <2>5, <2>6, <2>7, <2>8, ReservationMoves
<1> QED BY <1>7, <1>8

(* A reconcile that raises leaves its lease open, or has closed it as it   *)
(* should.                                                                 *)
LEMMA LeaseFates ==
  ASSUME NEW p \in Provider, LeaseStep(p)
  PROVE  \/ ReconcileFails(p) /\ UNCHANGED reservations
         \/ SettleReservation(p, LeaseFate(thread[p].out))
BY DEF LeaseStep, SettleLease, ReconcileFails, LeaseFate

(* Settling a lease closes the one open reservation of the slot; only that *)
(* of a call that was not handed over is given back.                       *)
LEMMA SettleLeaseReservation ==
  ASSUME EngineBase, EngineBase', ThreadInv, HistoryInv, ReservationInv,
         NEW p \in Provider, LeaseStep(p),
         SettleReservation(p, LeaseFate(thread[p].out))
  PROVE  ReservationInv'
<1>0. LeaseStep(p) OBVIOUS
<1>1. /\ Touches(p) /\ UNCHANGED storeVars /\ UNCHANGED sent
      /\ thread[p].at = "done" /\ LeaseDue(thread[p].out)
      /\ thread'[p].at = "accounted"
  BY <1>0, LeaseFacts DEF hisVars
<1>2. PICK s \in Slot : s = SlotOf(p) /\ s = SlotOf(p)'
  BY <1>1, RowType DEF Touches, SlotOf
<1>3. PICK fate \in {"released", "reconciled"} :
        /\ reservations' =
             {IF r.slot = s /\ r.attempt = Attempt(s)
              THEN [r EXCEPT !.state = fate] ELSE r : r \in reservations}
        /\ fate = "released" => thread[p].out = "late"
  BY <1>2 DEF SettleReservation, LeaseFate
<1>4. ASSUME NEW r \in reservations
      PROVE  [r EXCEPT !.state = fate] =
               [slot |-> r.slot, attempt |-> r.attempt, state |-> fate]
  BY DEF EngineBase, ReservationsTypeOK
<1>5. ASSUME NEW r \in reservations'
      PROVE  \/ r \in reservations /\ ~ (r.slot = s /\ r.attempt = Attempt(s))
             \/ r.slot = s /\ r.attempt = Attempt(s) /\ r.state = fate
  <2>1. PICK o \in reservations :
          r = IF o.slot = s /\ o.attempt = Attempt(s)
              THEN [o EXCEPT !.state = fate] ELSE o
    BY <1>3
  <2> QED BY <1>4, <2>1
<1>6. ASSUME NEW o \in reservations
      PROVE  \E r \in reservations' :
               /\ r.slot = o.slot /\ r.attempt = o.attempt
               /\ IF o.slot = s /\ o.attempt = Attempt(s)
                  THEN r.state = fate ELSE r = o
  <2> DEFINE r == IF o.slot = s /\ o.attempt = Attempt(s)
                  THEN [o EXCEPT !.state = fate] ELSE o
  <2>1. r \in reservations' BY <1>3
  <2>2. /\ r.slot = o.slot /\ r.attempt = o.attempt
        /\ IF o.slot = s /\ o.attempt = Attempt(s)
           THEN r.state = fate ELSE r = o
    BY <1>4
  <2> QED BY <2>1, <2>2
<1>7. inv' = inv /\ Attempt(s)' = Attempt(s) BY <1>1 DEF storeVars, Attempt
<1>8. Attempt(s) \in Nat
  BY DEF Attempt, EngineBase, StoreInv, StoreTypeOK, Row
<1>9. fate # "reserved" OBVIOUS
<1>10. \A r \in reservations' : r.slot = s => r.state # "reserved"
  <2> SUFFICES ASSUME NEW r \in reservations', r.slot = s
               PROVE  r.state # "reserved"
    OBVIOUS
  <2>1. CASE r \in reservations /\ ~ (r.slot = s /\ r.attempt = Attempt(s))
    BY <2>1 DEF ReservationInv, ReservationOK
  <2> QED BY <1>5, <1>9, <2>1
<1>11. LeaseOK(p)'
  BY <1>1, <1>2, <1>10 DEF LeaseOK
<1>12. ASSUME NEW r \in reservations', r.slot = s PROVE ReservationOK(r)'
  <2>1. Attempt(r.slot)' = Attempt(s) BY <1>7, <1>12 DEF Attempt
  <2>2. r.attempt <= Attempt(s)
    <3>1. CASE r \in reservations
      BY <1>12, <3>1 DEF ReservationInv, ReservationOK
    <3> QED BY <1>5, <1>8, <3>1
  <2> QED BY <1>10, <1>12, <2>1, <2>2 DEF ReservationOK
<1>13. OtherReservationsKept(s)
  <2> SUFFICES ASSUME NEW r, r.slot # s
               PROVE  r \in reservations' <=> r \in reservations
    BY DEF OtherReservationsKept
  <2>1. r \in reservations' => r \in reservations BY <1>5
  <2>2. r \in reservations => r \in reservations' BY <1>6
  <2> QED BY <2>1, <2>2
<1>14. ~GateOn => reservations' = {} BY <1>1 DEF LeaseDue
<1>15. ASSUME GateOn, NEW a \in sent' PROVE Charged(a)'
  <2>1. a \in sent BY <1>1, <1>15
  <2>2. PICK o \in reservations : /\ o.slot = a[1] /\ o.attempt = a[2]
                                  /\ o.state # "released"
    BY <1>15, <2>1 DEF ReservationInv, Charged
  <2>3. PICK r \in reservations' :
          /\ r.slot = o.slot /\ r.attempt = o.attempt
          /\ IF o.slot = s /\ o.attempt = Attempt(s)
             THEN r.state = fate ELSE r = o
    BY <1>6
  <2>4. CASE ~ (o.slot = s /\ o.attempt = Attempt(s))
    BY <2>2, <2>3, <2>4 DEF Charged
  <2>5. CASE o.slot = s /\ o.attempt = Attempt(s)
    <3>0. a \in Slot \X Nat BY <2>1 DEF EngineBase, HistoryTypeOK
    <3>1. a = <<s, Attempt(s)>>
      <4>1. a[1] = s /\ a[2] = Attempt(s) BY <2>2, <2>5
      <4>2. \A x \in Slot \X Nat : x = <<x[1], x[2]>> OBVIOUS
      <4> QED BY <3>0, <4>1, <4>2
    <3>2. Handed(s) BY <2>1, <3>1 DEF Handed
    <3>3. ~Unsent(p) BY <1>2, <3>2 DEF HistoryInv, CallOK
    <3>4. fate = "reconciled" BY <1>3, <3>3 DEF Unsent
    <3> QED BY <2>2, <2>3, <2>5, <3>4 DEF Charged
  <2> QED BY <2>4, <2>5
<1> QED BY <1>1, <1>2, <1>11, <1>12, <1>13, <1>14, <1>15, ReservationMoves

(* A failed reconciliation may leave a reservation open, and leaves its    *)
(* row in doubt.                                                           *)
LEMMA ReconcileReservation ==
  ASSUME EngineBase, EngineBase', ThreadInv, ReservationInv,
         NEW p \in Provider, ReconcileFails(p), UNCHANGED reservations
  PROVE  ReservationInv'
<1>0. LeaseStep(p) BY DEF LeaseStep
<1>1. /\ Touches(p) /\ UNCHANGED storeVars /\ UNCHANGED sent
      /\ UNCHANGED reservations
      /\ thread'[p].at = "accounted"
  BY <1>0, LeaseFacts DEF hisVars, ReconcileFails
<1>2. thread'[p].out = "ambiguous"
  BY DEF ReconcileFails, ThreadStep, EngineBase, ThreadTypeOK
<1>3. LeaseOK(p)' BY <1>1, <1>2 DEF LeaseOK
<1>4. GateOn => \A a \in sent' : Charged(a)'
  BY <1>1, SameReservations DEF ReservationInv
<1> QED BY <1>1, <1>3, <1>4, ReservationMoves, SameReservations

(* A row that becomes definite has no open reservation left.               *)
LEMMA SettleReservationInv ==
  ASSUME EngineBase, EngineBase', ThreadInv, ReservationInv,
         NEW p \in Provider, SettleStep(p)
  PROVE  ReservationInv'
<1>1. /\ Touches(p) /\ thread'[p] = Idle
      /\ thread[p].at \in {"done", "accounted"}
      /\ thread[p].at = "done" => ~LeaseDue(thread[p].out)
      /\ UNCHANGED <<reservations, sent>>
  BY SettleFacts
<1>2. PICK s \in Slot : s = SlotOf(p) /\ s = SlotOf(p)'
  BY <1>1, RowType DEF Touches, SlotOf
<1>3. LeaseOK(p)' BY <1>1 DEF LeaseOK, Idle
<1>4. OtherReservationsKept(SlotOf(p)) /\ (~GateOn => reservations' = {})
      /\ (GateOn => \A a \in sent' : Charged(a)')
  BY <1>1 DEF OtherReservationsKept, ReservationInv, Charged
<1>5. thread[p].out \notin {"none", "not_started", "replayed", "ambiguous"}
        => \A r \in reservations : r.slot = s => r.state # "reserved"
  <2>1. CASE ~GateOn BY <2>1 DEF ReservationInv
  <2>2. CASE GateOn /\ thread[p].out = "denied"
    BY <1>2, <2>2 DEF ReservationInv, LeaseOK
  <2>3. CASE GateOn /\ thread[p].out \notin {"not_started", "denied",
                                             "replayed", "ambiguous"}
    <3>1. thread[p].at = "accounted" BY <1>1, <2>3 DEF LeaseDue
    <3> QED BY <1>2, <2>3, <3>1 DEF ReservationInv, LeaseOK
  <2> QED BY <2>1, <2>2, <2>3
<1>6. inv[s].calls \in Nat /\ undispatched[s] \in Nat
  BY DEF EngineBase, StoreInv, StoreTypeOK, Row
<1>7. ASSUME NEW r \in reservations, r.slot = s PROVE ReservationOK(r)'
  <2>0. ReservationOK(r) BY DEF ReservationInv
  <2>1. CASE UNCHANGED storeVars
    BY <2>0, <2>1 DEF ReservationOK, Attempt, NotInDoubt, storeVars
  <2>2. CASE /\ SettleUndispatched(p)
             /\ inv'[s] = prior[p] /\ prior[p].calls + 1 = inv[s].calls
             /\ undispatched'[s] = undispatched[s] + 1
    <3>1. prior[p].calls \in Nat BY RowType DEF Row
    <3>2. Attempt(r.slot)' = Attempt(r.slot)
      BY <1>6, <1>7, <2>2, <3>1 DEF Attempt
    <3>3. thread[p].out \in {"denied", "late"}
      BY <2>2 DEF SettleUndispatched
    <3>4. r.state # "reserved" BY <1>5, <1>7, <3>3
    <3> QED BY <2>0, <3>2, <3>4 DEF ReservationOK
  <2>3. CASE /\ inv'[s].calls = inv[s].calls
             /\ undispatched' = undispatched
             /\ \/ inv'[s].error = "ambiguous"
                \/ thread[p].out \in AllOutcomes \ {"ambiguous"}
    <3>1. Attempt(r.slot)' = Attempt(r.slot) BY <1>7, <2>3 DEF Attempt
    <3>2. CASE inv'[s].error = "ambiguous"
      BY <1>7, <2>0, <3>1, <3>2 DEF ReservationOK, NotInDoubt
    <3>3. CASE thread[p].out \in AllOutcomes \ {"ambiguous"}
      <4>1. r.state # "reserved" BY <1>5, <1>7, <3>3 DEF AllOutcomes
      <4> QED BY <2>0, <3>1, <4>1 DEF ReservationOK
    <3> QED BY <2>3, <3>2, <3>3
  <2> QED BY <1>2, <2>1, <2>2, <2>3, SettledRow
<1>8. \A r \in reservations' : r.slot = SlotOf(p) => ReservationOK(r)'
  BY <1>1, <1>2, <1>7
<1> QED BY <1>1, <1>3, <1>4, <1>8, ReservationMoves

(* A lost call may keep its reservation open: its row is in doubt.         *)
LEMMA MarkLostReservation ==
  ASSUME EngineBase, EngineBase', ThreadInv, ReservationInv,
         NEW p \in Provider, MarkLost(p)
  PROVE  ReservationInv'
<1>1. /\ ThreadsIdle /\ ThreadsIdle' /\ UNCHANGED <<stage, prior, pc>>
      /\ UNCHANGED sent /\ UNCHANGED reservations
      /\ finish_invocation_failure(SlotOf(p), "ambiguous")
  BY MarkLostFacts DEF hisVars
<1>2. PICK s \in Slot : s = SlotOf(p) BY RowType
<1>3. inv \in [Slot -> Row] BY DEF EngineBase, StoreInv, StoreTypeOK
<1>4. Touches(p)
  BY <1>1, <1>3 DEF Touches, ThreadsIdle, finish_invocation_failure
<1>5. /\ inv'[s].calls = inv[s].calls /\ inv'[s].error = "ambiguous"
      /\ undispatched' = undispatched
  BY <1>1, <1>2, <1>3 DEF finish_invocation_failure, Row
<1>6. ASSUME NEW r \in reservations', r.slot = s PROVE ReservationOK(r)'
  <2>1. Attempt(r.slot)' = Attempt(r.slot) BY <1>5, <1>6 DEF Attempt
  <2> QED BY <1>1, <1>5, <1>6, <2>1
          DEF ReservationInv, ReservationOK, NotInDoubt
<1>7. LeaseOK(p)'
  <2>1. thread'[p] = Idle BY <1>1 DEF ThreadsIdle
  <2> QED BY <2>1 DEF LeaseOK, Idle
<1>8. OtherReservationsKept(SlotOf(p)) /\ (~GateOn => reservations' = {})
      /\ (GateOn => \A a \in sent' : Charged(a)')
  BY <1>1 DEF OtherReservationsKept, ReservationInv, Charged
<1> QED BY <1>2, <1>4, <1>6, <1>7, <1>8, ReservationMoves

(* The gate knows no attempt of a new run.                                 *)
LEMMA InitReservation == EngineInit => ReservationInv
  BY DEF EngineInit, ReservationInv, LeaseOK, Idle

(* Every step keeps ReservationInv.                                        *)
LEMMA NextReservation ==
  ASSUME EngineBase, EngineBase', ThreadInv, HistoryInv, ReservationInv,
         [EngineNext]_vars
  PROVE  ReservationInv'
<1>1. CASE Quiet \/ BeginStage
  <2>1. UNCHANGED storeVars /\ UNCHANGED reservations /\ UNCHANGED sent
    BY <1>1, BeginFacts DEF Quiet, hisVars
  <2>2. ASSUME NEW p \in Provider PROVE LeaseOK(p)'
    <3>1. thread'[p].at \in {"idle", "queued"} /\ thread'[p].out = "none"
      <4>1. CASE Quiet BY <4>1 DEF Quiet, ThreadsIdle, Idle
      <4>2. CASE BeginStage
        <5>1. PICK allowed \in SUBSET Work :
                thread' = [q \in Provider |->
                            IF q \in allowed
                            THEN [at |-> "queued", out |-> "none"] ELSE Idle]
          BY <4>2, BeginFacts
        <5> QED BY <5>1 DEF Idle
      <4> QED BY <1>1, <4>1, <4>2
    <3> QED BY <3>1 DEF LeaseOK
  <2> QED BY <2>1, <2>2, SameReservations DEF ReservationInv
<1>2. CASE Steady
  <2>1. UNCHANGED storeVars /\ UNCHANGED reservations /\ UNCHANGED sent
        /\ UNCHANGED <<thread, stage>>
    BY <1>2 DEF Steady, hisVars
  <2>2. ASSUME NEW p \in Provider PROVE LeaseOK(p)'
    BY <2>1 DEF storeVars, ReservationInv, LeaseOK, Attempt, SlotOf
  <2> QED BY <2>1, <2>2, SameReservations DEF ReservationInv
<1>3. ASSUME NEW p \in Provider,
             MarkLost(p) \/ WorkerStep(p) \/ LeaseStep(p) \/ SettleStep(p)
      PROVE  ReservationInv'
  BY <1>3, MarkLostReservation, StartReservation, WorkerQuietReservation,
     ReserveReservation, LeaseFates, SettleLeaseReservation, ReconcileReservation,
     SettleReservationInv DEF WorkerStep
<1> QED BY <1>1, <1>2, <1>3, StepKinds

(* The invariant behind the two properties of the call gate: what each     *)
(* reservation's state says of its row, over all crashes and resumes.      *)
THEOREM ReservationInvHolds == EngineSpec => []ReservationInv
<1>1. EngineInit => ReservationInv BY InitReservation
<1>2. /\ EngineBase /\ EngineBase' /\ ThreadInv /\ HistoryInv
      /\ ReservationInv /\ [EngineNext]_vars
      => ReservationInv'
  BY NextReservation
<1> QED BY <1>1, <1>2, ThreadInvHolds, HistoryHolds, PTL DEF EngineSpec

(* AttemptsUnknownToGate: whatever was released, refused, lost or retried, *)
(* the attempt number a worker presents to call_gate.reserve is one the    *)
(* gate has never seen for that slot, so an honest retry is never answered *)
(* with REPLAY.                                                            *)
THEOREM AttemptsUnknownToGate == EngineSpec => []ReservationFresh
<1>1. ReservationInv => ReservationFresh
  BY DEF ReservationInv, LeaseOK, ReservationFresh
<1> QED BY <1>1, ReservationInvHolds, PTL

(* EveryCallCharged: no call that was handed to a provider is ever given   *)
(* back to the budget, and no call that was settled for good leaves its    *)
(* reservation open, in any order of settling, crashing and resuming.      *)
THEOREM EveryCallCharged == EngineSpec => []ChargedIfSent
<1>1. ASSUME EngineBase, ReservationInv PROVE ChargedIfSent
  <2>1. ASSUME NEW r \in reservations, r.state = "reserved"
        PROVE  inv[r.slot].status = "running" \/ inv[r.slot].error = "ambiguous"
    BY <1>1, <2>1 DEF ReservationInv, ReservationOK, NotInDoubt
  <2>2. GateOn => \A a \in sent : Charged(a)
    BY <1>1 DEF ReservationInv
  <2> QED BY <2>1, <2>2 DEF ChargedIfSent, Charged
<1> QED BY <1>1, EngineBaseHolds, ReservationInvHolds, PTL

=============================================================================
