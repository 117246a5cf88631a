------------------------ MODULE IngestDeliveryProofs -------------------------
(* Delivery: the bounds on deliveries and retries, no file without somebody to *)
(* work on it, and the promise of IngestService step by step.                  *)
EXTENDS IngestSafetyProofs

(* The workers that may still claim m: their snapshot shows it, with few enough *)
(* deliveries.                                                                 *)
Claimants(m) == {w \in Workers : \E t \in todo[w] : t[1] = m /\ t[2] <= MaxDeliver}

(* A delivery is made at the cost of a claimant, and a worker becomes one only *)
(* on a snapshot with few enough deliveries.  A snapshot shows a message once, *)
(* and never one that is yet unread.                                           *)
ClaimBudget ==
  /\ unread \cap Pending = {}
  /\ \A w \in Workers : \A t \in todo[w] : t[1] \in Ids \ unread
  /\ \A w \in Workers : \A t, u \in todo[w] : t[1] = u[1] => t = u
  /\ \A m \in Pending :
        pel[m] + Cardinality(Claimants(m)) <= MaxDeliver + Cardinality(Workers)

(* The constants of the bound, and the number of any set of workers.           *)
LEMMA WorkersFinite ==
  /\ MaxDeliver \in Nat \ {0} /\ Cardinality(Workers) \in Nat
  /\ \A S : S \subseteq Workers =>
        IsFiniteSet(S) /\ Cardinality(S) \in Nat /\ Cardinality(S) <= Cardinality(Workers)
<1>1. IsFiniteSet(Workers) /\ MaxDeliver \in Nat \ {0}
  BY WorkerAssumption
<1>2. ASSUME NEW S, S \subseteq Workers
      PROVE  IsFiniteSet(S) /\ Cardinality(S) \in Nat /\ Cardinality(S) <= Cardinality(Workers)
  BY <1>1, <1>2, FS_Subset, FS_CardinalityType
<1> QED
  BY <1>1, <1>2, FS_CardinalityType

(* Fewer claimants are no more.                                                *)
LEMMA FewerClaimants ==
  ASSUME NEW S, NEW T, T \subseteq Workers, S \subseteq T
  PROVE  Cardinality(S) \in Nat /\ Cardinality(T) \in Nat /\ Cardinality(S) <= Cardinality(T)
BY WorkersFinite, FS_Subset

------------------------------------------------------------------------------
(* Nothing is delivered: at most a message is added, or acknowledged.          *)
NothingDelivered ==
  /\ unread' \subseteq unread \cup {Len(log) + 1}
  /\ Pending' \subseteq Pending
  /\ \A m \in Pending' : pel'[m] = pel[m]
  /\ Ids \subseteq Ids'

(* The commands that deliver nothing.                                          *)
LEMMA CommandsDeliverNothing ==
  ASSUME StreamTypeOK
  PROVE  /\ UNCHANGED streamVars => NothingDelivered
         /\ \A job \in Jobs : XADD(job) => NothingDelivered
         /\ \A m : XACK(m) => NothingDelivered
         /\ \A m : XACKandXTRIM(m) => NothingDelivered
<1>1. UNCHANGED streamVars => NothingDelivered
  BY DEF streamVars, NothingDelivered, Pending, Ids
<1>2. ASSUME NEW job \in Jobs, XADD(job) PROVE NothingDelivered
  <2>1. Len(log') = Len(log) + 1 /\ Len(log) \in Nat
    BY <1>2, XADDType DEF StreamTypeOK
  <2> QED
    BY <1>2, <2>1 DEF XADD, NothingDelivered, Pending, Ids
<1>3. ASSUME NEW m, XACK(m) PROVE NothingDelivered
  BY <1>3 DEF XACK, Acked, NothingDelivered, Pending, Ids
<1>4. ASSUME NEW m, XACKandXTRIM(m) PROVE NothingDelivered
  BY <1>4 DEF XACKandXTRIM, Acked, NothingDelivered, Pending, Ids
<1> QED
  BY <1>1, <1>2, <1>3, <1>4

(* A step that delivers nothing and takes no snapshot keeps the budget.        *)
LEMMA BudgetKept ==
  ASSUME TypeOK, ClaimBudget, NothingDelivered, \A w \in Workers : todo'[w] \subseteq todo[w]
  PROVE  ClaimBudget'
<1>1. Len(log) + 1 \notin Ids /\ Pending \subseteq Ids
  BY DEF TypeOK, StreamTypeOK, Ids
<1>2. (unread \cap Pending = {})'
  BY <1>1 DEF ClaimBudget, NothingDelivered
<1>3. \A w \in Workers : \A t \in todo'[w] : t[1] \in Ids' \ unread'
  BY <1>1 DEF ClaimBudget, NothingDelivered
<1>4. \A w \in Workers : \A t, u \in todo'[w] : t[1] = u[1] => t = u
  BY DEF ClaimBudget
<1>5. ASSUME NEW m \in Pending'
      PROVE  pel'[m] + Cardinality(Claimants(m)') <= MaxDeliver + Cardinality(Workers)
  <2>1. Claimants(m)' \subseteq Claimants(m) /\ Claimants(m) \subseteq Workers
    BY DEF Claimants
  <2>2. m \in Pending /\ pel'[m] = pel[m] /\ pel[m] \in Nat
    BY <1>5 DEF NothingDelivered, TypeOK, StreamTypeOK
  <2>3. pel[m] + Cardinality(Claimants(m)) <= MaxDeliver + Cardinality(Workers)
    BY <2>2 DEF ClaimBudget
  <2> QED
    BY <2>1, <2>2, <2>3, FewerClaimants, WorkersFinite
<1> QED
  BY <1>2, <1>3, <1>4, <1>5 DEF ClaimBudget

------------------------------------------------------------------------------
(* A snapshot: the worker becomes a claimant of what was delivered seldom.     *)
LEMMA BudgetSnapshot ==
  ASSUME TypeOK, ClaimBudget, NEW w \in Workers, NEW s, todo' = [todo EXCEPT ![w] = Snapshot(s)],
         UNCHANGED streamVars
  PROVE  ClaimBudget'
<1>1. UNCHANGED <<unread, pel, Pending, Ids>>
  BY DEF streamVars, Pending, Ids
<1>2. \A t \in Snapshot(s) : t[1] \in Pending /\ t = <<t[1], pel[t[1]]>>
  BY DEF Snapshot
<1>3. \A v \in Workers : todo'[v] = IF v = w THEN Snapshot(s) ELSE todo[v]
  BY DEF TypeOK, WorkerTypeOK
<1>4. \A v \in Workers : \A t \in todo'[v] : t[1] \in Ids \ unread
  BY <1>2, <1>3 DEF ClaimBudget, TypeOK, StreamTypeOK
<1>5. \A v \in Workers : \A t, u \in todo'[v] : t[1] = u[1] => t = u
  BY <1>2, <1>3 DEF ClaimBudget
<1>6. ASSUME NEW m \in Pending
      PROVE  pel[m] + Cardinality(Claimants(m)') <= MaxDeliver + Cardinality(Workers)
  <2>1. pel[m] \in Nat /\ Claimants(m)' \subseteq Workers /\ Claimants(m) \subseteq Workers
    BY DEF Claimants, TypeOK, StreamTypeOK
  <2>2. CASE pel[m] <= MaxDeliver
    BY <2>1, <2>2, WorkersFinite
  <2>3. CASE ~ (pel[m] <= MaxDeliver)
    <3>1. Claimants(m)' \subseteq Claimants(m)
      BY <2>3, <1>2, <1>3 DEF Claimants
    <3>2. pel[m] + Cardinality(Claimants(m)) <= MaxDeliver + Cardinality(Workers)
      BY DEF ClaimBudget
    <3> QED
      BY <2>1, <3>1, <3>2, FewerClaimants, WorkersFinite
  <2> QED
    BY <2>2, <2>3
<1> QED
  BY <1>1, <1>4, <1>5, <1>6 DEF ClaimBudget

(* A first delivery: no snapshot shows the message.                            *)
LEMMA BudgetRead ==
  ASSUME TypeOK, ClaimBudget, NEW s, NEW m, XREADGROUP(s, m), UNCHANGED todo
  PROVE  ClaimBudget'
<1>1. m \in unread /\ unread' = unread \ {m} /\ UNCHANGED Ids
  BY DEF XREADGROUP, Oldest, Unread, Ids
<1>2. /\ Pending' = Pending \cup {m} /\ pel'[m] = 1
      /\ \A n \in Pending \ {m} : pel'[n] = pel[n]
  BY DEF XREADGROUP, Pending
<1>3. \A n : Claimants(n)' = Claimants(n)
  BY DEF Claimants
<1>4. Claimants(m) = {}
  BY <1>1 DEF Claimants, ClaimBudget
<1>5. 1 + Cardinality(Claimants(m)) <= MaxDeliver + Cardinality(Workers)
  BY <1>4, FS_EmptySet, WorkersFinite
<1>6. \A n \in Pending' :
        pel'[n] + Cardinality(Claimants(n)') <= MaxDeliver + Cardinality(Workers)
  BY <1>2, <1>3, <1>5 DEF ClaimBudget
<1> QED
  BY <1>1, <1>2, <1>6 DEF ClaimBudget

(* A claim: the worker that makes it is a claimant no more.                    *)
LEMMA BudgetClaim ==
  ASSUME TypeOK, ClaimBudget, NEW w \in Workers, NEW t \in todo[w], t[2] <= MaxDeliver,
         todo' = [todo EXCEPT ![w] = @ \ {t}], XCLAIM(t[1])
  PROVE  ClaimBudget'
<1> DEFINE m == t[1]
<1>1. unread' = unread /\ UNCHANGED Ids
  BY DEF XCLAIM, Ids
<1>2. /\ m \in Pending /\ Pending' \subseteq Pending
      /\ \A n \in Pending' : pel'[n] = IF n = m THEN pel[n] + 1 ELSE pel[n]
  BY DEF XCLAIM, Pending, TypeOK, StreamTypeOK
<1>3. \A v \in Workers : todo'[v] = IF v = w THEN todo[w] \ {t} ELSE todo[v]
  BY DEF TypeOK, WorkerTypeOK
<1>4. \A v \in Workers : todo'[v] \subseteq todo[v]
  BY <1>3
<1>5. w \in Claimants(m) /\ w \notin Claimants(m)'
  BY <1>3 DEF Claimants, ClaimBudget
<1>6. ASSUME NEW n \in Pending'
      PROVE  pel'[n] + Cardinality(Claimants(n)') <= MaxDeliver + Cardinality(Workers)
  <2>1. Claimants(n)' \subseteq Claimants(n) /\ Claimants(n) \subseteq Workers
    BY <1>4 DEF Claimants
  <2>2. n \in Pending /\ pel[n] \in Nat
    BY <1>2, <1>6 DEF TypeOK, StreamTypeOK
  <2>3. pel[n] + Cardinality(Claimants(n)) <= MaxDeliver + Cardinality(Workers)
    BY <2>2 DEF ClaimBudget
  <2>4. CASE n = m
    <3>1. Claimants(m)' \subseteq Claimants(m) \ {w}
      BY <2>1, <2>4, <1>5
    <3>2. Cardinality(Claimants(m) \ {w}) = Cardinality(Claimants(m)) - 1
      BY <1>5, <2>1, <2>4, WorkersFinite, FS_RemoveElement
    <3>3. Claimants(m) \ {w} \subseteq Workers
      BY <2>1, <2>4
    <3>4. Cardinality(Claimants(m)') \in Nat /\ Cardinality(Claimants(m) \ {w}) \in Nat
          /\ Cardinality(Claimants(m)') <= Cardinality(Claimants(m) \ {w})
      BY <3>1, <3>3, FewerClaimants
    <3>5. Cardinality(Claimants(m)) \in Nat
      BY <2>1, <2>4, WorkersFinite
    <3>6. pel'[n] = pel[n] + 1
      BY <1>2, <1>6, <2>4
    <3> QED
      BY <2>2, <2>3, <2>4, <3>2, <3>4, <3>5, <3>6, WorkersFinite
  <2>5. CASE n # m
    BY <1>2, <1>6, <2>1, <2>2, <2>3, <2>5, FewerClaimants, WorkersFinite
  <2> QED
    BY <2>4, <2>5
<1> QED
  BY <1>1, <1>2, <1>4, <1>6 DEF ClaimBudget

------------------------------------------------------------------------------
(* The requests deliver nothing.                                               *)
LEMMA BudgetAPI ==
  ASSUME TypeOK, ClaimBudget, NEW f \in Files, APIStep(f), UNCHANGED workerVars
  PROVE  ClaimBudget'
<1>1. CASE UploadEnqueue(f) \/ UploadTrigger(f) \/ ReprocessEnqueue(f)
  BY <1>1, APIJobs, UntrimmedIsXADD, CommandsDeliverNothing, BudgetKept
    DEF UploadEnqueue, UploadTrigger, ReprocessEnqueue, TypeOK, workerVars
<1>2. CASE UNCHANGED streamVars
  BY <1>2, CommandsDeliverNothing, BudgetKept DEF TypeOK, workerVars
<1> QED
  BY <1>1, <1>2 DEF APIStep, UploadStep, ReprocessStep, CancelStep, DeleteStep,
    UploadCheckDuplicate, UploadForced, UploadCreate, UploadMedia, UploadReuse, Reprocess,
    ReprocessVectors, ReprocessStatus, CancelRead, CancelFlag, CancelWrite, CancelExpire,
    Delete, DeleteVectorsStep, DeleteRow

(* The inspection of a message in a snapshot.                                  *)
LEMMA BudgetInspection ==
  ASSUME TypeOK, ClaimBudget, NEW w \in Workers, NEW t \in todo[w],
         DeadLetter(w, t) \/ ClaimNothing(w, t) \/ Claim(w, t) \/ AckOrphan(w, t)
  PROVE  ClaimBudget'
<1>1. todo' = [todo EXCEPT ![w] = @ \ {t}]
  BY DEF DeadLetter, ClaimNothing, Claim, AckOrphan, Inspects
<1>2. CASE t[2] <= MaxDeliver /\ XCLAIM(t[1])
  BY <1>1, <1>2, BudgetClaim
<1>3. CASE XACK(t[1]) \/ UNCHANGED streamVars
  <2>1. \A v \in Workers : todo'[v] \subseteq todo[v]
    BY <1>1 DEF TypeOK, WorkerTypeOK
  <2> QED
    BY <1>3, <2>1, CommandsDeliverNothing, BudgetKept DEF TypeOK
<1> QED
  BY <1>2, <1>3 DEF DeadLetter, ClaimNothing, Claim, AckOrphan

(* Every step of a worker.                                                     *)
LEMMA BudgetWorker ==
  ASSUME TypeOK, ClaimBudget, NEW w \in Workers, WorkerStep(w)
  PROVE  ClaimBudget'
<1>1. CASE PipelineStep(w) \/ Fail(w) \/ ErrorStep(w)
  <2>1. NothingDelivered /\ UNCHANGED todo
    BY <1>1, ProcessStepIs, ProcessStepStream, CommandsDeliverNothing DEF ProcessStep, TypeOK
  <2> QED
    BY <2>1, BudgetKept
<1>2. CASE Return(w) \/ Raise(w)
  BY <1>2, CommandsDeliverNothing, BudgetKept DEF Return, Raise, LeaveJob, TypeOK
<1>3. CASE Crash(w) \/ ScanAborted(w)
  <2>1. UNCHANGED streamVars /\ \A v \in Workers : todo'[v] \subseteq todo[v]
    BY <1>3 DEF Crash, ScanAborted, TypeOK, WorkerTypeOK
  <2> QED
    BY <2>1, CommandsDeliverNothing, BudgetKept DEF TypeOK
<1>4. CASE Start(w) \/ PeriodicScan(w) \/ ScanDone(w)
  <2>1. CASE \E s : todo' = [todo EXCEPT ![w] = Snapshot(s)] /\ UNCHANGED streamVars
    BY <2>1, BudgetSnapshot
  <2>2. CASE UNCHANGED todo /\ UNCHANGED streamVars
    BY <2>2, CommandsDeliverNothing, BudgetKept DEF TypeOK
  <2> QED
    BY <1>4, <2>1, <2>2 DEF Start, PeriodicScan, Scan, ScanDone
<1>5. CASE ReadStep(w)
  <2>1. CASE \E s, m : XREADGROUP(s, m) /\ UNCHANGED todo
    BY <2>1, BudgetRead
  <2>2. CASE UNCHANGED todo /\ UNCHANGED streamVars
    BY <2>2, CommandsDeliverNothing, BudgetKept DEF TypeOK
  <2> QED
    BY <1>5, <2>1, <2>2 DEF ReadStep, ReadHigh, ReadLow
<1> QED
  BY <1>1, <1>2, <1>3, <1>4, <1>5, BudgetInspection DEF WorkerStep, JobStep, ScanStep

(* Every step.                                                                 *)
LEMMA BudgetStep == TypeOK /\ ClaimBudget /\ [Next]_vars => ClaimBudget'
<1> SUFFICES ASSUME TypeOK, ClaimBudget, [Next]_vars PROVE ClaimBudget'
  OBVIOUS
<1>1. CASE UNCHANGED vars
  BY <1>1, CommandsDeliverNothing, BudgetKept DEF vars, workerVars, TypeOK
<1>2. CASE \E m \in Pending : BecomeIdle(m)
  <2>1. UNCHANGED <<log, unread, pel, todo>>
    BY <1>2 DEF BecomeIdle, workerVars
  <2>2. NothingDelivered
    BY <2>1 DEF NothingDelivered, Pending, Ids
  <2> QED
    BY <2>1, <2>2, BudgetKept
<1> QED
  BY <1>1, <1>2, BudgetAPI, BudgetWorker DEF Next

(* A message that is never acknowledged, because its workers die or its job    *)
(* fails on the claim path, is delivered a bounded number of times, whatever   *)
(* fails and however long jobs last: times_delivered is read from a snapshot,  *)
(* and each worker exceeds the limit at most once (_claim_pending_on_stream).  *)
THEOREM DeliveriesBounded == Spec => []DeliveryBound
<1>1. Init => ClaimBudget
  BY DEF Init, StreamInit, WorkerInit, ClaimBudget, Pending
<1>2. TypeOK /\ ClaimBudget => DeliveryBound
  <2> SUFFICES ASSUME TypeOK, ClaimBudget, NEW m \in Pending
               PROVE  pel[m] <= MaxDeliver + Cardinality(Workers)
    BY DEF DeliveryBound
  <2>1. pel[m] \in Nat /\ Claimants(m) \subseteq Workers
    BY DEF TypeOK, StreamTypeOK, Claimants
  <2>2. pel[m] + Cardinality(Claimants(m)) <= MaxDeliver + Cardinality(Workers)
    BY DEF ClaimBudget
  <2> QED
    BY <2>1, <2>2, WorkersFinite
<1> QED
  BY <1>1, <1>2, TypeCorrect, BudgetStep, PTL DEF Spec

------------------------------------------------------------------------------
(* A file has neither row nor job before its upload created it.                *)
UploadsComeFirst ==
  \A f \in Files : upload[f] \in Early =>
    f \notin row /\ reproc[f].step = "none" /\ \A m \in Ids : log[m].file # f

(* RetryBound: who still writes a retry count, and how much.                   *)
On(w, f) == Working(w) /\ File(w) = f
Holds(w) == pc[w] \in {"requeue", "markFailed"}

(* w has written, or is going to write, more than max_retries.                 *)
Exceeds(w) ==
  \/ Holds(w) /\ count[w] > MaxRetries
  \/ pc[w] = "requeueCount" /\ retries[File(w)] >= MaxRetries

(* w requeues nothing from here, and writes no small count over a large one.   *)
Harmless(w) ==
  /\ pc[w] \notin {"requeueCount", "requeue"}
  /\ pc[w] = "markFailed" => count[w] >= MaxRetries

(* Only one worker at a time gets beyond max_retries, by one, while the other  *)
(* is harmless; after that both are.                                           *)
RetriesOf(f) ==
  /\ retries[f] <= MaxRetries + 1
  /\ retries[f] > 0 => Workers # {}
  /\ retries[f] > MaxRetries => \A w \in Workers : On(w, f) => Harmless(w)
  /\ \A v \in Workers : On(v, f) /\ Exceeds(v) =>
       /\ retries[f] >= MaxRetries
       /\ \A w \in Workers : On(w, f) /\ w # v => Harmless(w)
  /\ (\A v, w \in Workers : v = w) =>
       retries[f] <= MaxRetries /\ \A w \in Workers : On(w, f) => ~ Exceeds(w)

RetryInv ==
  /\ \A w \in Workers : Holds(w) => count[w] <= MaxRetries + 1
  /\ \A f \in row : RetriesOf(f)

(* The requests create the row of a file once, before its first job.           *)
LEMMA UploadsFirstAPI ==
  ASSUME TypeOK, UploadsComeFirst, NEW f \in Files, APIStep(f)
  PROVE  UploadsComeFirst'
<1>1. /\ \A g \in Files \ {f} : upload'[g] = upload[g] /\ reproc'[g] = reproc[g]
      /\ row' \subseteq row \cup {f}
  BY DEF APIStep, UploadStep, ReprocessStep, CancelStep, DeleteStep, UploadCheckDuplicate,
    UploadForced, UploadCreate, UploadMedia, UploadEnqueue, UploadReuse, UploadTrigger, Reprocess,
    ReprocessVectors, ReprocessStatus, ReprocessEnqueue, CancelRead, CancelFlag, CancelWrite,
    CancelExpire, Delete, DeleteVectorsStep, DeleteRow, SetUpload, CreateRow, DeleteRows,
    storeVars, dbVars, apiVars, TypeOK, APITypeOK
<1>2. \A m \in Ids' : \/ m \in Ids /\ log'[m] = log[m]
                      \/ log'[m].file = f /\ upload[f] \notin Early /\ upload'[f] \notin Early
  <2>1. CASE log' = log
    BY <2>1 DEF Ids
  <2>2. CASE UploadEnqueue(f) \/ UploadTrigger(f) \/ ReprocessEnqueue(f)
    <3>1. upload[f] \notin Early /\ upload'[f] \notin Early
      BY <2>2 DEF UploadEnqueue, UploadTrigger, ReprocessEnqueue, SetUpload, Early,
        UploadsComeFirst, TypeOK, APITypeOK
    <3>2. \A job \in Jobs : log' = Append(log, job) /\ job.file = f =>
            \A m \in Ids' : (m \in Ids /\ log'[m] = log[m]) \/ log'[m].file = f
      BY DEF TypeOK, StreamTypeOK, Ids
    <3>3. /\ \A force, pass : UploadJob(f, force, pass).file = f
          /\ ReprocessJob(f).file = f
      BY DEF UploadJob, ReprocessJob
    <3>4. CASE \E job \in Jobs : log' = Append(log, job) /\ job.file = f
      BY <3>1, <3>2, <3>4
    <3> QED
      BY <2>1, <3>3, <3>4, APIAdds, APIJobs DEF Adds
  <2>3. CASE ~ UploadEnqueue(f) /\ ~ UploadTrigger(f) /\ ~ ReprocessEnqueue(f)
    <3>1. log' = log
      BY <2>3 DEF APIStep, UploadStep, ReprocessStep, CancelStep, DeleteStep, UploadCheckDuplicate,
        UploadForced, UploadCreate, UploadMedia, UploadReuse, Reprocess, ReprocessVectors,
        ReprocessStatus, CancelRead, CancelFlag, CancelWrite, CancelExpire, Delete,
        DeleteVectorsStep, DeleteRow, streamVars
    <3> QED
      BY <2>1, <3>1
  <2> QED
    BY <2>2, <2>3
<1>3. ASSUME upload'[f] \in Early
      PROVE  upload[f] \in Early /\ f \notin row' /\ reproc'[f].step = "none"
  <2>1. CASE UploadCheckDuplicate(f) \/ UploadForced(f)
    BY <2>1 DEF UploadCheckDuplicate, UploadForced, DeleteRows, storeVars, Early, UploadsComeFirst
  <2>2. CASE UploadCreate(f) \/ UploadMedia(f) \/ UploadEnqueue(f) \/ UploadReuse(f)
             \/ UploadTrigger(f)
    BY <1>3, <2>2 DEF UploadCreate, UploadMedia, UploadEnqueue, UploadReuse, UploadTrigger,
      SetUpload, Early, TypeOK, APITypeOK
  <2>3. CASE Reprocess(f) \/ ReprocessStep(f) \/ CancelRead(f) \/ CancelStep(f) \/ CancelExpire(f)
             \/ Delete(f) \/ DeleteStep(f)
    <3>1. upload[f] \in Early /\ row' \subseteq row
      BY <1>3, <2>3 DEF Reprocess, ReprocessStep, ReprocessVectors, ReprocessStatus,
        ReprocessEnqueue, CancelRead, CancelStep, CancelFlag, CancelWrite, CancelExpire, Delete,
        DeleteStep, DeleteVectorsStep, DeleteRow, DeleteRows, storeVars, dbVars, apiVars
    <3>2. f \notin row /\ reproc[f].step = "none"
      BY <3>1 DEF UploadsComeFirst
    <3> QED
      BY <2>3, <3>1, <3>2 DEF Reprocess, ReprocessStep, ReprocessVectors, ReprocessStatus,
        ReprocessEnqueue, CancelRead, CancelStep, CancelFlag, CancelWrite, CancelExpire, Delete,
        DeleteStep, DeleteVectorsStep, DeleteRow, NoReprocess, apiVars
  <2> QED
    BY <2>1, <2>2, <2>3 DEF APIStep, UploadStep
<1> QED
  BY <1>1, <1>2, <1>3 DEF UploadsComeFirst

(* The workers only add jobs of files they have a job of.                      *)
LEMMA UploadsFirstWorker ==
  ASSUME TypeOK, UploadsComeFirst, NEW w \in Workers, WorkerStep(w)
  PROVE  UploadsComeFirst'
<1>1. CASE LoopStep(w)
  BY <1>1, LoopStepIs DEF UploadsComeFirst, apiVars, storeVars, Ids
<1>2. CASE ProcessStep(w)
  <2>1. /\ msg[w] \in Ids /\ Job(w) \in Jobs /\ count[w] \in Nat /\ UNCHANGED apiVars
    BY <1>2, ProcessStepIs, JobType DEF TypeOK, WorkerTypeOK
  <2>2. row' = row
    BY <1>2, ProcessStepRow
  <2>3. upload[File(w)] \notin Early
    BY <2>1 DEF UploadsComeFirst, File, Job, Jobs
  <2>4. \A m \in Ids' : (m \in Ids /\ log'[m] = log[m]) \/ log'[m].file = File(w)
    <3>1. Pass2Job(Job(w)).file = File(w) /\ RetryJob(Job(w), count[w]).file = File(w)
      BY <2>1 DEF Pass2Job, RetryJob, File, Jobs
    <3> QED
      BY <1>2, <3>1, ProcessAdds DEF TypeOK, StreamTypeOK, Ids
  <2> QED
    BY <2>1, <2>2, <2>3, <2>4 DEF UploadsComeFirst, apiVars
<1> QED
  BY <1>1, <1>2, WorkerStepIs

(* Every step.                                                                 *)
LEMMA UploadsFirstStep == TypeOK /\ UploadsComeFirst /\ [Next]_vars => UploadsComeFirst'
<1> SUFFICES ASSUME TypeOK, UploadsComeFirst, [Next]_vars PROVE UploadsComeFirst'
  OBVIOUS
<1>1. CASE UNCHANGED <<log, storeVars, apiVars>>
  BY <1>1 DEF UploadsComeFirst, storeVars, apiVars, Ids
<1> QED
  BY <1>1, UploadsFirstAPI, UploadsFirstWorker DEF Next, BecomeIdle, vars, streamVars

(* What RetryBound assumes, and what a number of workers means.                *)
FewWorkers ==
  /\ "db" \notin Faults
  /\ \A u, v, w \in Workers : u = v \/ v = w \/ u = w

LEMMA WorkersCounted ==
  /\ Cardinality(Workers) \in Nat
  /\ Cardinality(Workers) <= 2 => \A u, v, w \in Workers : u = v \/ v = w \/ u = w
  /\ Workers # {} => Cardinality(Workers) >= 1
  /\ (\E v, w \in Workers : v # w) => Cardinality(Workers) >= 2
<1>1. /\ Cardinality(Workers) \in Nat
      /\ \A S : S \subseteq Workers => IsFiniteSet(S) /\ Cardinality(S) <= Cardinality(Workers)
  BY WorkersFinite
<1>2. ASSUME NEW w \in Workers PROVE Cardinality(Workers) >= 1
  <2>1. Cardinality({w}) = 1
    BY FS_Singleton
  <2> QED
    BY <1>1, <2>1
<1>3. ASSUME NEW v \in Workers, NEW w \in Workers, v # w
      PROVE  Cardinality({v, w}) = 2 /\ Cardinality(Workers) >= 2
  <2>1. Cardinality({v}) = 1 /\ IsFiniteSet({v})
    BY FS_Singleton
  <2>2. {v, w} = {v} \cup {w} /\ w \notin {v}
    BY <1>3
  <2>3. Cardinality({v, w}) = 2
    BY <2>1, <2>2, FS_AddElement
  <2> QED
    BY <1>1, <2>3
<1>4. ASSUME NEW u \in Workers, NEW v \in Workers, NEW w \in Workers, u # v, v # w, u # w
      PROVE  Cardinality(Workers) >= 3
  <2>1. Cardinality({v, w}) = 2 /\ IsFiniteSet({v, w})
    BY <1>1, <1>3, <1>4
  <2>2. {u, v, w} = {v, w} \cup {u} /\ u \notin {v, w}
    BY <1>4
  <2>3. Cardinality({u, v, w}) = 3
    BY <2>1, <2>2, FS_AddElement
  <2> QED
    BY <1>1, <2>3
<1> QED
  BY <1>1, <1>2, <1>3, <1>4

(* The steps of the error handler that lead to a retry count being written.    *)
Counting == {"requeueCount", "requeue", "markFailed"}

(* A step that changes no retry count, but with the row, and no such worker.   *)
LEMMA CountsKept ==
  ASSUME TypeOK, NoResurrection, UploadsComeFirst, RetryInv, Adds(Jobs),
         \A f \in row' : \/ f \in row /\ retries'[f] = retries[f]
                         \/ f \in Files \ row /\ retries'[f] = 0 /\ upload[f] \in Early,
         \A w \in Workers : pc'[w] \in Counting =>
           pc'[w] = pc[w] /\ msg'[w] = msg[w] /\ count'[w] = count[w]
  PROVE  RetryInv'
<1>1. ASSUME NEW w \in Workers, pc'[w] \in Counting
      PROVE  /\ Working(w) /\ msg[w] \in Ids /\ File(w)' = File(w)
             /\ \A f : On(w, f)' => On(w, f)
             /\ Harmless(w) => Harmless(w)'
  <2>1. Working(w)
    BY <1>1 DEF Counting, Working, JobSteps, ErrorSteps
  <2>2. File(w)' = File(w) /\ msg[w] \in Ids
    BY <1>1, <2>1, JobStays, JobType
  <2> QED
    BY <1>1, <2>1, <2>2 DEF On, Harmless
<1>2. \A w \in Workers : pc'[w] \notin Counting => Harmless(w)' /\ ~ Exceeds(w)' /\ ~ Holds(w)'
  BY DEF Counting, Harmless, Exceeds, Holds
<1>3. \A w \in Workers : Holds(w)' => count'[w] <= MaxRetries + 1
  BY <1>2 DEF RetryInv, Holds
<1>4. ASSUME NEW f \in row', f \in row, retries'[f] = retries[f]
      PROVE  RetriesOf(f)'
  <2>1. ASSUME NEW w \in Workers, On(w, f)' /\ Exceeds(w)'
        PROVE  On(w, f) /\ Exceeds(w)
    <3>1. pc'[w] \in Counting
      BY <1>2, <2>1
    <3>2. On(w, f) /\ File(w) = f /\ File(w)' = f
      BY <1>1, <2>1, <3>1 DEF On
    <3> QED
      BY <1>4, <2>1, <3>1, <3>2 DEF Exceeds, Holds
  <2>2. \A w \in Workers : On(w, f)' /\ (On(w, f) => Harmless(w)) => Harmless(w)'
    BY <1>1, <1>2
  <2>3. RetriesOf(f)
    BY <1>4 DEF RetryInv
  <2> QED
    BY <1>4, <2>1, <2>2, <2>3 DEF RetriesOf
<1>5. ASSUME NEW f \in row', f \in Files \ row, retries'[f] = 0, upload[f] \in Early
      PROVE  RetriesOf(f)'
  <2>1. \A w \in Workers : On(w, f)' => Harmless(w)' /\ ~ Exceeds(w)'
    <3>1. ASSUME NEW w \in Workers, On(w, f)', pc'[w] \in Counting PROVE FALSE
      BY <1>1, <1>5, <3>1 DEF UploadsComeFirst, On, File, Job
    <3> QED
      BY <1>2, <3>1
  <2> QED
    BY <1>5, <2>1, WorkerAssumption DEF RetriesOf
<1> QED
  BY <1>3, <1>4, <1>5 DEF RetryInv

(* The requests.                                                               *)
LEMMA CountsAPI ==
  ASSUME TypeOK, NoResurrection, UploadsComeFirst, RetryInv, NEW f \in Files, APIStep(f),
         UNCHANGED workerVars
  PROVE  RetryInv'
<1>1. Adds(Jobs)
  BY APIAdds, APIJobs DEF Adds
<1>2. \A g \in row' : \/ g \in row /\ retries'[g] = retries[g]
                      \/ g \in Files \ row /\ retries'[g] = 0 /\ upload[g] \in Early
  <2>1. CASE UploadCheckDuplicate(f) \/ DeleteRow(f)
    BY <2>1 DEF UploadCheckDuplicate, DeleteRow, DeleteRows, TypeOK, StoreTypeOK
  <2>2. CASE UploadCreate(f) \/ UploadReuse(f)
    BY <2>2 DEF UploadCreate, UploadReuse, CreateRow, NoResurrection, Early
  <2>3. CASE UNCHANGED <<row, retries>>
    BY <2>3
  <2> QED
    BY <2>1, <2>2, <2>3 DEF APIStep, UploadStep, ReprocessStep, CancelStep, DeleteStep,
      UploadForced, UploadMedia, UploadEnqueue, UploadTrigger, Reprocess, ReprocessVectors,
      ReprocessStatus, ReprocessEnqueue, CancelRead, CancelFlag, CancelWrite, CancelExpire, Delete,
      DeleteVectorsStep, storeVars, dbVars
<1> QED
  BY <1>1, <1>2, CountsKept DEF workerVars

(* process_job up to an exception, and the addition of the retry.              *)
LEMMA CountsPipeline ==
  ASSUME TypeOK, NoResurrection, UploadsComeFirst, RetryInv, NEW w \in Workers,
         PipelineStep(w) \/ Fail(w) \/ RequeueAdd(w)
  PROVE  RetryInv'
<1>1. ProcessStep(w)
  BY DEF ProcessStep, ErrorStep
<1>2. Working(w) /\ UNCHANGED <<row, msg>> /\ \A v \in Workers \ {w} : pc'[v] = pc[v]
  BY <1>1, ProcessStepIs, ProcessStepRow, ProcessStepMoves DEF TypeOK, WorkerTypeOK
<1>3. Adds(Jobs)
  BY <1>1, <1>2, ProcessAdds, JobType, WorkerJobs DEF Adds, TypeOK, WorkerTypeOK
<1>4. UNCHANGED <<retries, count>> /\ pc'[w] \notin Counting
  <2>1. CASE StatusStep(w)
    <3>1. PICK s, next : UpdateStatus(w, s, next) /\ next \in TrySteps \cup {"return"}
      BY <2>1, JobType, <1>2 DEF StatusStep, Entity, EntityDone, Fast, FastDone, Parsing, Chunking, Indexing,
        Complete, View, Pass1Done, Enhanced, TrySteps, Jobs
    <3>2. UNCHANGED <<retries, count>>
      BY <2>1, StatusStepIs DEF StatusOnly, At
    <3> QED
      BY <3>1, <3>2 DEF UpdateStatus, FileGone, Raises, Goto, Counting, TrySteps, TypeOK,
        WorkerTypeOK
  <2>2. CASE PipelineStep(w) /\ ~ StatusStep(w)
    BY <2>2 DEF PipelineStep, StatusStep, Begin, Duplicate, Load, Store, AfterStore, Markdown,
      AppendVectors, Pass1, Pass2, CancelOr, HandleCancellation, Replace, MarkdownAgain,
      RecordMarkdown, EnqueuePass2, Dispatch, FileGone, Raises, Goto, At, Counting, storeVars,
      dbVars, TypeOK, WorkerTypeOK
  <2>3. CASE Fail(w) \/ RequeueAdd(w)
    BY <2>3 DEF Fail, RequeueAdd, Raises, Goto, At, Counting, storeVars, TypeOK, WorkerTypeOK
  <2> QED
    BY <2>1, <2>2, <2>3
<1>5. row \subseteq Files
  BY DEF TypeOK, StoreTypeOK
<1> QED
  BY <1>2, <1>3, <1>4, <1>5, CountsKept

(* A step of the error handler of w that changes its own place and count, and  *)
(* the retry count of its file.                                                *)
LEMMA CountsOfOne ==
  ASSUME TypeOK, RetryInv, NEW w \in Workers, Working(w), UNCHANGED <<row, log, msg>>,
         \A v \in Workers \ {w} : pc'[v] = pc[v] /\ count'[v] = count[v],
         \A g \in Files \ {File(w)} : retries'[g] = retries[g]
  PROVE  /\ \A v \in Workers \ {w} : \A g :
              On(v, g)' = On(v, g) /\ Harmless(v)' = Harmless(v) /\ Holds(v)' = Holds(v)
         /\ \A g : On(w, g)' => g = File(w)
         /\ On(w, File(w))
         /\ \A g \in row \ {File(w)} : RetriesOf(g)'
<1>1. \A v \in Workers \ {w} : \A g :
        On(v, g)' = On(v, g) /\ Harmless(v)' = Harmless(v) /\ Holds(v)' = Holds(v)
  BY DEF On, Working, File, Job, Harmless, Holds
<1>2. (\A g : On(w, g)' => g = File(w)) /\ On(w, File(w))
  BY DEF On, File, Job
<1>3. ASSUME NEW g \in row \ {File(w)} PROVE RetriesOf(g)'
  <2>1. \A v \in Workers : On(v, g)' => v # w /\ On(v, g)
    BY <1>1, <1>2
  <2>2. \A v \in Workers : On(v, g)' /\ Exceeds(v)' => Exceeds(v)
    <3>1. g \in Files /\ retries'[g] = retries[g]
      BY DEF TypeOK, StoreTypeOK
    <3> QED
      BY <2>1, <3>1 DEF Exceeds, Holds, On, File, Job
  <2>3. RetriesOf(g) /\ retries'[g] = retries[g]
    BY DEF RetryInv, TypeOK, StoreTypeOK
  <2> QED
    BY <1>1, <2>1, <2>2, <2>3 DEF RetriesOf
<1> QED
  BY <1>1, <1>2, <1>3

(* should_retry: from its answer yes the count is below max_retries.           *)
LEMMA CountsShouldRetry ==
  ASSUME FewWorkers, TypeOK, NoResurrection, RetryInv, NEW w \in Workers, ShouldRetry(w)
  PROVE  RetryInv'
<1>0. PICK f \in Files : f = File(w)
  BY JobType DEF ShouldRetry, During, Working, JobSteps, ErrorSteps
<1>1. Working(w) /\ Job(w) \in Jobs /\ f \in Files /\ retries[f] \in Nat
      /\ MaxRetries \in Nat \ {0}
  BY <1>0, JobType, WorkerAssumption
    DEF ShouldRetry, During, Working, JobSteps, ErrorSteps, TypeOK, StoreTypeOK
<1>2. UNCHANGED <<row, log, msg, retries>>
  BY DEF ShouldRetry, During, storeVars, streamVars
<1>3. \/ pc'[w] = "requeueCount" /\ retries[f] < MaxRetries
      \/ pc'[w] = "markFailed" /\ count'[w] = retries[f]
  <2>1. RetryCounts(f) = {retries[f]}
    BY <1>0 DEF FewWorkers, RetryCounts
  <2>2. Job(w).retry \in Nat
    BY <1>0, <1>1 DEF Jobs
  <2> QED
    BY <1>0, <1>1, <2>1, <2>2 DEF ShouldRetry, RetryOrFail, Larger, Goto, TypeOK, WorkerTypeOK
<1>4. \A v \in Workers \ {w} : pc'[v] = pc[v] /\ count'[v] = count[v]
  BY DEF ShouldRetry, RetryOrFail, Goto, TypeOK, WorkerTypeOK
<1>5. /\ \A v \in Workers \ {w} : \A g :
              On(v, g)' = On(v, g) /\ Harmless(v)' = Harmless(v) /\ Holds(v)' = Holds(v)
      /\ \A g \in row \ {f} : RetriesOf(g)'
  BY <1>0, <1>1, <1>2, <1>4, CountsOfOne
<1>6. \A v \in Workers \ {w} : Exceeds(v)' = Exceeds(v)
  BY <1>0, <1>2, <1>4 DEF Exceeds, Holds, File, Job
<1>7. \A v \in Workers : Holds(v)' => count'[v] <= MaxRetries + 1
  <2>1. retries[f] <= MaxRetries + 1
    BY <1>0, <1>1 DEF RetryInv, RetriesOf, NoResurrection
  <2> QED
    BY <1>0, <1>3, <1>4, <1>5, <2>1 DEF RetryInv, Holds
<1>8. ASSUME f \in row PROVE RetriesOf(f)'
  <2>1. RetriesOf(f)
    BY <1>0, <1>8 DEF RetryInv
  <2>2. retries[f] >= MaxRetries => Harmless(w)'
    BY <1>0, <1>1, <1>3 DEF Harmless
  <2>3. Exceeds(w)' => retries[f] > MaxRetries
    BY <1>0, <1>1, <1>2, <1>3 DEF Exceeds, Holds, File, Job
  <2> QED
    BY <1>0, <1>1, <1>2, <1>5, <1>6, <2>1, <2>2, <2>3 DEF RetriesOf
<1> QED
  BY <1>0, <1>2, <1>5, <1>7, <1>8 DEF RetryInv

(* requeue_job reads the count once more.                                      *)
LEMMA CountsRequeueCount ==
  ASSUME FewWorkers, TypeOK, NoResurrection, RetryInv, NEW w \in Workers, RequeueCount(w)
  PROVE  RetryInv'
<1>0. PICK f \in Files : f = File(w)
  BY JobType DEF RequeueCount, During, Working, JobSteps, ErrorSteps
<1>1. Working(w) /\ f \in Files /\ retries[f] \in Nat /\ MaxRetries \in Nat \ {0}
  BY <1>0, JobType, WorkerAssumption
    DEF RequeueCount, During, Working, JobSteps, ErrorSteps, TypeOK, StoreTypeOK
<1>2. UNCHANGED <<row, log, msg, retries>>
  BY DEF RequeueCount, During, storeVars, streamVars
<1>3. pc[w] = "requeueCount" /\ pc'[w] = "requeue" /\ count'[w] = retries[f] + 1
  BY <1>0, <1>1 DEF FewWorkers, RequeueCount, During, RetryCounts, Goto, TypeOK, WorkerTypeOK
<1>4. \A v \in Workers \ {w} : pc'[v] = pc[v] /\ count'[v] = count[v]
  BY DEF RequeueCount, Goto, TypeOK, WorkerTypeOK
<1>5. /\ \A v \in Workers \ {w} : \A g :
              On(v, g)' = On(v, g) /\ Harmless(v)' = Harmless(v) /\ Holds(v)' = Holds(v)
      /\ \A g \in row \ {f} : RetriesOf(g)'
      /\ On(w, f)
  BY <1>0, <1>1, <1>2, <1>4, CountsOfOne
<1>6. \A v \in Workers \ {w} : Exceeds(v)' = Exceeds(v)
  BY <1>0, <1>2, <1>4 DEF Exceeds, Holds, File, Job
<1>7. ~ Harmless(w)
  BY <1>0, <1>3 DEF Harmless
<1>8. retries[f] <= MaxRetries
  BY <1>0, <1>1, <1>5, <1>7 DEF RetryInv, RetriesOf, NoResurrection
<1>9. \A v \in Workers : Holds(v)' => count'[v] <= MaxRetries + 1
  BY <1>0, <1>1, <1>3, <1>4, <1>5, <1>8 DEF RetryInv, Holds
<1>10. ASSUME f \in row PROVE RetriesOf(f)'
  <2>1. RetriesOf(f)
    BY <1>0, <1>10 DEF RetryInv
  <2>2. Exceeds(w)' => Exceeds(w)
    BY <1>0, <1>1, <1>3 DEF Exceeds, Holds
  <2> QED
    BY <1>0, <1>1, <1>2, <1>5, <1>6, <1>7, <1>8, <2>1, <2>2 DEF RetriesOf
<1> QED
  BY <1>0, <1>2, <1>5, <1>9, <1>10 DEF RetryInv

(* What requeue_job and mark_failed write is what they hold.                   *)
LEMMA CountsWritten ==
  ASSUME FewWorkers, TypeOK, RetryInv, NEW w \in Workers, Holds(w), File(w) \in row,
         UNCHANGED <<row, log, msg, count>>, retries' = [retries EXCEPT ![File(w)] = count[w]],
         pc'[w] \notin Counting, \A v \in Workers \ {w} : pc'[v] = pc[v]
  PROVE  RetryInv'
<1>0. PICK f \in Files : f = File(w)
  BY JobType DEF Holds, Working, JobSteps, ErrorSteps
<1>1. /\ Working(w) /\ f \in Files /\ retries[f] \in Nat /\ count[w] \in Nat
      /\ MaxRetries \in Nat \ {0}
  BY <1>0, JobType, WorkerAssumption
    DEF Holds, Working, JobSteps, ErrorSteps, TypeOK, StoreTypeOK, WorkerTypeOK
<1>2. /\ retries'[f] = count[w] /\ count[w] <= MaxRetries + 1
      /\ \A g \in Files \ {f} : retries'[g] = retries[g]
  BY <1>0, <1>1 DEF RetryInv, TypeOK, StoreTypeOK
<1>3. /\ \A v \in Workers \ {w} : \A g :
              On(v, g)' = On(v, g) /\ Harmless(v)' = Harmless(v) /\ Holds(v)' = Holds(v)
      /\ \A g \in row \ {f} : RetriesOf(g)'
      /\ On(w, f)
  BY <1>0, <1>1, <1>2, CountsOfOne
<1>4. Harmless(w)' /\ ~ Holds(w)' /\ ~ Exceeds(w)'
  BY DEF Counting, Harmless, Holds, Exceeds
<1>5. RetriesOf(f)
  BY <1>0 DEF RetryInv
<1>6. count[w] > MaxRetries => \A v \in Workers \ {w} : On(v, f) => Harmless(v)
  BY <1>0, <1>3, <1>5 DEF Exceeds, RetriesOf
<1>7. ASSUME NEW v \in Workers \ {w}, On(v, f), Exceeds(v)'
      PROVE  count[w] >= MaxRetries
  <2>1. CASE Holds(v) /\ count[v] > MaxRetries
    <3>1. Harmless(w)
      BY <1>0, <1>3, <1>5, <1>7, <2>1 DEF Exceeds, RetriesOf
    <3> QED
      BY <3>1 DEF Harmless, Holds
  <2>2. CASE pc[v] = "requeueCount" /\ retries'[f] >= MaxRetries
    BY <1>0, <1>2, <2>2
  <2> QED
    BY <1>0, <1>3, <1>7, <2>1, <2>2 DEF Exceeds, On, File, Job
<1>8. \A u, v \in Workers \ {w} : u = v
  BY DEF FewWorkers
<1>9. (\A u, v \in Workers : u = v) => count[w] <= MaxRetries
  BY <1>0, <1>1, <1>3, <1>5 DEF RetriesOf, Exceeds
<1>10. RetriesOf(f)'
  BY <1>0, <1>1, <1>2, <1>3, <1>4, <1>6, <1>7, <1>8, <1>9 DEF RetriesOf
<1> QED
  BY <1>0, <1>3, <1>4, <1>10 DEF RetryInv

(* requeue_job and mark_failed write, or find no row.                          *)
LEMMA CountsRequeueOrFail ==
  ASSUME FewWorkers, TypeOK, NoResurrection, UploadsComeFirst, RetryInv, NEW w \in Workers,
         Requeue(w) \/ MarkFailed(w)
  PROVE  RetryInv'
<1>1. /\ Holds(w) /\ UNCHANGED <<row, log, msg, count>>
      /\ pc'[w] \notin Counting /\ \A v \in Workers \ {w} : pc'[v] = pc[v]
  BY DEF Requeue, MarkFailed, At, During, Goto, Holds, Counting, streamVars, TypeOK, WorkerTypeOK
<1>2. CASE File(w) \in row
  BY <1>1, <1>2, CountsWritten DEF FewWorkers, Requeue, MarkFailed
<1>3. CASE File(w) \notin row
  <2>1. retries' = retries /\ Adds(Jobs) /\ row \subseteq Files
    BY <1>1, <1>3 DEF Requeue, MarkFailed, Adds, TypeOK, StoreTypeOK
  <2> QED
    BY <1>1, <2>1, CountsKept
<1> QED
  BY <1>2, <1>3

(* Every step.                                                                 *)
LEMMA CountsStep ==
  ASSUME FewWorkers
  PROVE  TypeOK /\ NoResurrection /\ UploadsComeFirst /\ RetryInv /\ [Next]_vars => RetryInv'
<1> SUFFICES ASSUME TypeOK, NoResurrection, UploadsComeFirst, RetryInv, [Next]_vars
             PROVE  RetryInv'
  OBVIOUS
<1>1. CASE UNCHANGED <<log, storeVars, apiVars, workerVars>>
  BY <1>1, CountsKept DEF Adds, storeVars, workerVars
<1>2. CASE \E f \in Files : APIStep(f) /\ UNCHANGED workerVars
  BY <1>2, CountsAPI
<1>3. ASSUME NEW w \in Workers, LoopStep(w) PROVE RetryInv'
  <2>1. UNCHANGED <<log, row, retries>> /\ Adds(Jobs)
    BY <1>3, LoopStepIs DEF storeVars, Adds
  <2>2. \A v \in Workers : pc'[v] \in Counting =>
          pc'[v] = pc[v] /\ msg'[v] = msg[v] /\ count'[v] = count[v]
    BY <1>3, LoopStepIs DEF Counting, Working, JobSteps, ErrorSteps
  <2> QED
    BY <2>1, <2>2, CountsKept
<1>4. ASSUME NEW w \in Workers, ProcessStep(w) PROVE RetryInv'
  BY <1>4, CountsPipeline, CountsShouldRetry, CountsRequeueCount, CountsRequeueOrFail
    DEF ProcessStep, ErrorStep
<1> QED
  BY <1>1, <1>2, <1>3, <1>4, WorkerStepIs DEF Next, BecomeIdle, vars, streamVars

(* While the database answers, two workers push the retry count of a file one  *)
(* beyond max_retries at most, and a single worker never: whatever jobs of the *)
(* file they handle at a time, old claims and reprocess requests included      *)
(* (should_retry, requeue_job and mark_failed, each reading the count again).  *)
THEOREM RetriesBounded == Spec => []RetryBound
<1>1. CASE FewWorkers
  <2>1. Init => UploadsComeFirst /\ RetryInv
    BY WorkerAssumption DEF Init, StoreInit, APIInit, WorkerInit, StreamInit, NoReprocess,
      UploadsComeFirst, Ids, RetryInv, Holds
  <2>2. NoResurrection /\ TypeOK /\ RetryInv => RetryBound
    <3> SUFFICES ASSUME NoResurrection, TypeOK, RetryInv, NEW f \in Files
                 PROVE  retries[f] < MaxRetries + Cardinality(Workers)
      BY DEF RetryBound
    <3>1. retries[f] \in Nat /\ MaxRetries \in Nat \ {0} /\ Cardinality(Workers) \in Nat
      BY WorkerAssumption, WorkersCounted DEF TypeOK, StoreTypeOK
    <3>2. CASE f \in row
      BY <3>1, <3>2, WorkersCounted DEF RetryInv, RetriesOf
    <3>3. CASE f \notin row
      BY <3>1, <3>3 DEF NoResurrection
    <3> QED
      BY <3>2, <3>3
  <2> QED
    BY <1>1, <2>1, <2>2, TypeCorrect, NothingResurrected, UploadsFirstStep, CountsStep, PTL
      DEF Spec
<1>2. CASE ~ FewWorkers
  <2>1. RetryBound
    BY <1>2, WorkersCounted DEF FewWorkers, RetryBound
  <2> QED
    BY <2>1, PTL
<1> QED
  BY <1>1, <1>2

------------------------------------------------------------------------------
(* NoFileForgotten: who still has to work on a file.                           *)

(* A message of f that was never delivered.                                    *)
Awaited(f) == \E m \in unread : log[m].file = f

(* A worker that has not decided the outcome of its job of f.                  *)
Active(f) == \E w \in Workers : On(w, f) /\ pc[w] \notin {"return", "raise"}

(* A message that a worker took with it when it died, at its first delivery.   *)
Abandoned(m) == m \in Pending /\ pel[m] = 1 /\ \A w \in Workers : Working(w) => msg[w] # m

Unfinished(f) ==
  f \in row /\ stage[f] \notin Settled /\ upload[f] \notin {"created", "createdForced"}

Kept(f) ==
  \/ reproc[f].step # "none" \/ Awaited(f) \/ Active(f)
  \/ "crash" \in Faults /\ \E m \in Pending : log[m].file = f /\ Abandoned(m)

(* The steps of a progressive run.                                             *)
PdfSteps == {"pass1", "view", "enqueue", "pass1Done", "pass2", "replace", "markdownAgain", "enhanced"}

KeptInv ==
  /\ Len(log) <= MaxLog /\ trimmed = {}
  /\ \A m \in Ids : log[m].retry <= MaxRetries + 1
  /\ \A w \in Workers :
       /\ pc[w] \in PdfSteps => Kind[File(w)] = "pdf"
       /\ pc[w] = "pass1Done" => Awaited(File(w))
       /\ pc[w] = "requeueAdd" => count[w] <= MaxRetries + 1
  /\ \A f \in Files : Unfinished(f) => Kept(f)

(* No snapshot shows more deliveries than there were.                          *)
SnapshotsLag == \A w \in Workers : \A t \in todo[w] : t[1] \in Pending => t[2] <= pel[t[1]]

(* Until a worker dies every delivered message is in the hands of the worker   *)
(* that read it.                                                               *)
FirstHands ==
  /\ crashes = 0 => \A m \in Pending : \E w \in Workers : Working(w) /\ msg[w] = m
  /\ \A w \in Workers : Working(w) => IF claimed[w] THEN crashes > 0
                                      ELSE msg[w] \in Pending /\ pel[msg[w]] = 1

(* No snapshot goes out of date but by more deliveries.                        *)
LEMMA LagKept ==
  ASSUME TypeOK, StreamTypeOK', ClaimBudget, SnapshotsLag,
         \A w \in Workers : todo'[w] \subseteq todo[w],
         \A m \in Pending' : m \in unread \/ (m \in Pending /\ pel'[m] >= pel[m])
  PROVE  SnapshotsLag'
<1> SUFFICES ASSUME NEW w \in Workers, NEW t \in todo'[w], t[1] \in Pending'
             PROVE  t[2] <= pel'[t[1]]
  BY DEF SnapshotsLag
<1>1. t \in todo[w] /\ t[1] \notin unread /\ t[2] \in Nat
  BY DEF ClaimBudget, TypeOK, WorkerTypeOK
<1>2. t[1] \in Pending /\ t[2] <= pel[t[1]] /\ pel'[t[1]] >= pel[t[1]]
  BY <1>1 DEF SnapshotsLag
<1>3. pel[t[1]] \in Nat /\ pel'[t[1]] \in Nat
  BY <1>2 DEF TypeOK, StreamTypeOK
<1> QED
  BY <1>1, <1>2, <1>3

(* Every step of a worker.                                                     *)
LEMMA LagWorker ==
  ASSUME TypeOK, TypeOK', ClaimBudget, SnapshotsLag, NEW w \in Workers, WorkerStep(w)
  PROVE  SnapshotsLag'
<1>0. ASSUME NothingDelivered, \A v \in Workers : todo'[v] \subseteq todo[v]
      PROVE  SnapshotsLag'
  <2>1. \A m \in Pending' : m \in Pending /\ pel'[m] = pel[m] /\ pel[m] \in Nat
    BY <1>0 DEF NothingDelivered, TypeOK, StreamTypeOK
  <2> QED
    BY <1>0, <2>1, LagKept DEF TypeOK
<1>1. CASE ProcessStep(w)
  BY <1>0, <1>1, ProcessStepIs, ProcessStepStream, CommandsDeliverNothing DEF TypeOK
<1>2. CASE Return(w) \/ Raise(w)
  BY <1>0, <1>2, CommandsDeliverNothing DEF Return, Raise, LeaveJob, TypeOK
<1>3. CASE Crash(w) \/ ScanAborted(w)
  <2>1. UNCHANGED streamVars /\ \A v \in Workers : todo'[v] \subseteq todo[v]
    BY <1>3 DEF Crash, ScanAborted, TypeOK, WorkerTypeOK
  <2> QED
    BY <1>0, <2>1, CommandsDeliverNothing DEF TypeOK
<1>4. CASE Start(w) \/ PeriodicScan(w) \/ ScanDone(w)
  <2>1. ASSUME NEW s, todo' = [todo EXCEPT ![w] = Snapshot(s)], UNCHANGED streamVars
        PROVE  SnapshotsLag'
    <3>1. \A t \in Snapshot(s) : t[1] \in Pending /\ t[2] = pel[t[1]] /\ pel[t[1]] \in Nat
      BY DEF Snapshot, TypeOK, StreamTypeOK
    <3>2. \A v \in Workers : todo'[v] = IF v = w THEN Snapshot(s) ELSE todo[v]
      BY <2>1 DEF TypeOK, WorkerTypeOK
    <3> QED
      BY <2>1, <3>1, <3>2 DEF SnapshotsLag, streamVars, Pending
  <2>2. CASE UNCHANGED todo /\ UNCHANGED streamVars
    BY <1>0, <2>2, CommandsDeliverNothing DEF TypeOK
  <2> QED
    BY <1>4, <2>1, <2>2 DEF Start, PeriodicScan, Scan, ScanDone
<1>5. CASE ReadStep(w)
  <2>1. ASSUME NEW s, NEW m, XREADGROUP(s, m), UNCHANGED todo PROVE SnapshotsLag'
    <3>1. \A n \in Pending' : n \in unread \/ (n \in Pending /\ pel'[n] = pel[n] /\ pel[n] \in Nat)
      BY <2>1 DEF XREADGROUP, Oldest, Unread, Pending, TypeOK, StreamTypeOK
    <3> QED
      BY <2>1, <3>1, LagKept DEF TypeOK
  <2>2. CASE UNCHANGED todo /\ UNCHANGED streamVars
    BY <1>0, <2>2, CommandsDeliverNothing DEF TypeOK
  <2> QED
    BY <1>5, <2>1, <2>2 DEF ReadStep, ReadHigh, ReadLow
<1>6. ASSUME NEW t \in todo[w],
             DeadLetter(w, t) \/ ClaimNothing(w, t) \/ Claim(w, t) \/ AckOrphan(w, t)
      PROVE  SnapshotsLag'
  <2>1. \A v \in Workers : todo'[v] \subseteq todo[v]
    BY <1>6 DEF DeadLetter, ClaimNothing, Claim, AckOrphan, Inspects, TypeOK, WorkerTypeOK
  <2>2. CASE XCLAIM(t[1])
    <3>1. \A n \in Pending' : n \in Pending /\ pel'[n] \in {pel[n], pel[n] + 1} /\ pel[n] \in Nat
      BY <2>2 DEF XCLAIM, Pending, TypeOK, StreamTypeOK
    <3> QED
      BY <2>1, <3>1, LagKept DEF TypeOK
  <2>3. CASE XACK(t[1]) \/ UNCHANGED streamVars
    BY <1>0, <2>1, <2>3, CommandsDeliverNothing DEF TypeOK
  <2> QED
    BY <1>6, <2>2, <2>3 DEF DeadLetter, ClaimNothing, Claim, AckOrphan
<1> QED
  BY <1>1, <1>2, <1>3, <1>4, <1>5, <1>6, WorkerStepIs DEF LoopStep, ScanStep

(* Every step.                                                                 *)
LEMMA LagStep ==
  TypeOK /\ TypeOK' /\ ClaimBudget /\ SnapshotsLag /\ [Next]_vars => SnapshotsLag'
<1> SUFFICES ASSUME TypeOK, TypeOK', ClaimBudget, SnapshotsLag, [Next]_vars PROVE SnapshotsLag'
  OBVIOUS
<1>1. CASE UNCHANGED <<pel, todo>>
  BY <1>1 DEF SnapshotsLag, Pending
<1>2. CASE \E f \in Files : APIStep(f) /\ UNCHANGED workerVars
  <2>1. UNCHANGED <<pel, todo>>
    BY <1>2 DEF workerVars, APIStep, UploadStep, ReprocessStep, CancelStep, DeleteStep,
      UploadCheckDuplicate, UploadForced, UploadCreate, UploadMedia, UploadEnqueue, UploadReuse,
      UploadTrigger, Reprocess, ReprocessVectors, ReprocessStatus, ReprocessEnqueue, CancelRead,
      CancelFlag, CancelWrite, CancelExpire, Delete, DeleteVectorsStep, DeleteRow, XADD,
      XADDUntrimmed, streamVars
  <2> QED
    BY <1>1, <2>1
<1> QED
  BY <1>1, <1>2, LagWorker DEF Next, BecomeIdle, vars, streamVars, workerVars

------------------------------------------------------------------------------
(* A message that its worker read is its own: nobody acknowledges it before.   *)
LEMMA FirstHandsWorker ==
  ASSUME "redis" \notin Faults, TypeOK, TypeOK', Exclusive, SnapshotsLag, FirstHands,
         NEW w \in Workers, WorkerStep(w)
  PROVE  FirstHands'
<1>1. CASE ProcessStep(w)
  <2>1. UNCHANGED <<pel, msg, claimed, crashes>>
    BY <1>1, ProcessStepIs, ProcessStepStream DEF XADD, streamVars
  <2>2. \A v \in Workers : Working(v)' <=> Working(v)
    BY <1>1, ProcessStepIs, ProcessStepMoves DEF Working, TypeOK, WorkerTypeOK
  <2>3. UNCHANGED Pending
    BY <2>1 DEF Pending
  <2>4. crashes' = 0 => \A m \in Pending' : \E v \in Workers : Working(v)' /\ msg'[v] = m
    BY <2>1, <2>2, <2>3 DEF FirstHands
  <2>5. \A v \in Workers : Working(v)' => IF claimed'[v] THEN crashes' > 0
                                          ELSE msg'[v] \in Pending' /\ pel'[msg'[v]] = 1
    BY <2>1, <2>2, <2>3 DEF FirstHands
  <2> QED
    BY <2>4, <2>5 DEF FirstHands
<1>2. ASSUME LoopStep(w), UNCHANGED <<pel, crashes>>, ~ Working(w), ~ Working(w)' PROVE FirstHands'
  BY <1>2, LoopStepIs DEF FirstHands, Pending, Working
<1>3. CASE Start(w) \/ PeriodicScan(w) \/ ScanAborted(w) \/ ScanDone(w)
  <2>1. UNCHANGED <<pel, crashes>> /\ ~ Working(w) /\ ~ Working(w)'
    BY <1>3 DEF Start, PeriodicScan, Scan, ScanAborted, ScanDone, Goto, Working, JobSteps, TrySteps,
      ErrorSteps, ScanSteps, streamVars, TypeOK, WorkerTypeOK
  <2> QED
    BY <1>2, <1>3, <2>1 DEF LoopStep, ScanStep
<1>4. CASE ReadStep(w)
  <2>0. LoopStep(w) /\ ~ Working(w) /\ UNCHANGED crashes
    BY <1>4 DEF LoopStep, ReadStep, ReadHigh, ReadLow, Working, JobSteps, TrySteps, ErrorSteps
  <2>1. ASSUME NEW s, NEW m, XREADGROUP(s, m), StartJob(w, m, FALSE) PROVE FirstHands'
    <3>1. /\ m \in unread /\ m \notin Pending /\ Pending' = Pending \cup {m} /\ pel'[m] = 1
          /\ \A n \in Pending : pel'[n] = pel[n]
      BY <2>1 DEF XREADGROUP, Oldest, Unread, Pending, Exclusive
    <3>2. Working(w)' /\ msg'[w] = m /\ ~ claimed'[w]
      BY <2>1 DEF StartJob, Goto, Working, JobSteps, TrySteps, TypeOK, WorkerTypeOK
    <3>3. \A v \in Workers \ {w} : Working(v)' = Working(v) /\ msg'[v] = msg[v]
                                   /\ claimed'[v] = claimed[v]
      BY <2>0, LoopStepIs DEF Working
    <3> QED
      BY <2>0, <3>1, <3>2, <3>3 DEF FirstHands
  <2>2. CASE UNCHANGED streamVars /\ (Goto(w, "low") \/ Goto(w, "loop"))
    BY <1>2, <2>0, <2>2 DEF Goto, Working, JobSteps, TrySteps, ErrorSteps, streamVars, TypeOK,
      WorkerTypeOK
  <2> QED
    BY <1>4, <2>1, <2>2 DEF ReadStep, ReadHigh, ReadLow
<1>5. ASSUME NEW t \in todo[w],
             DeadLetter(w, t) \/ ClaimNothing(w, t) \/ Claim(w, t) \/ AckOrphan(w, t)
      PROVE  FirstHands'
  <2>0. LoopStep(w) /\ ~ Working(w) /\ UNCHANGED crashes
    BY <1>5 DEF LoopStep, ScanStep, DeadLetter, ClaimNothing, Claim, AckOrphan, Inspects, Working,
      JobSteps, TrySteps, ErrorSteps, ScanSteps
  <2>1. \A v \in Workers \ {w} : Working(v)' = Working(v) /\ msg'[v] = msg[v]
                                 /\ claimed'[v] = claimed[v]
    BY <2>0, LoopStepIs DEF Working
  <2>2. CASE t[1] \in idle /\ (XCLAIM(t[1]) \/ XACK(t[1]))
    <3>1. \A v \in Workers : Working(v) => msg[v] # t[1]
      BY <2>2 DEF Exclusive
    <3>2. crashes # 0
      BY <2>2, <3>1 DEF FirstHands, TypeOK, StreamTypeOK
    <3>3. \A m \in Pending \ {t[1]} : m \in Pending' /\ pel'[m] = pel[m]
      BY <2>2 DEF XCLAIM, XACK, Acked, Pending, TypeOK, StreamTypeOK
    <3>4. Working(w)' => claimed'[w]
      BY <1>5, <2>0 DEF DeadLetter, ClaimNothing, Claim, AckOrphan, StartJob, Working, TypeOK,
        WorkerTypeOK
    <3>5. crashes > 0
      BY <3>2 DEF TypeOK, WorkerTypeOK
    <3> QED
      BY <2>0, <2>1, <3>1, <3>2, <3>3, <3>4, <3>5 DEF FirstHands
  <2>3. CASE UNCHANGED streamVars /\ UNCHANGED pc
    BY <1>2, <2>0, <2>3 DEF Working, streamVars
  <2>4. CASE DeadLetter(w, t)
    <3>1. \A v \in Workers : Working(v) /\ ~ claimed[v] => msg[v] # t[1]
      <4>1. t[1] \in Pending => pel[t[1]] # 1
        <5>1. t[1] \in Pending => t[2] <= pel[t[1]] /\ t[2] \in Nat
          BY DEF SnapshotsLag, TypeOK, WorkerTypeOK
        <5> QED
          BY <2>4, <5>1, WorkerAssumption DEF DeadLetter
      <4> QED
        BY <4>1 DEF FirstHands
    <3>2. /\ Pending' \subseteq Pending
          /\ \A m \in Pending \ {t[1]} : m \in Pending' /\ pel'[m] = pel[m]
      BY <2>4 DEF DeadLetter, XACK, Acked, Pending
    <3>3. ~ Working(w)'
      BY <2>0, <2>4 DEF DeadLetter, Working
    <3> QED
      BY <2>0, <2>1, <3>1, <3>2, <3>3 DEF FirstHands
  <2> QED
    BY <1>5, <2>2, <2>3, <2>4 DEF ClaimNothing, Claim, AckOrphan, XCLAIM
<1>6. CASE Return(w) \/ Raise(w)
  <2>0. LoopStep(w) /\ Working(w) /\ UNCHANGED crashes
    BY <1>6 DEF LoopStep, Return, Raise, LeaveJob, Working, JobSteps
  <2>1. \A v \in Workers \ {w} : Working(v)' = Working(v) /\ msg'[v] = msg[v]
                                 /\ claimed'[v] = claimed[v]
    BY <2>0, LoopStepIs DEF Working
  <2>2. ~ Working(w)'
    BY <1>6 DEF Return, Raise, LeaveJob, Goto, Working, JobSteps, TrySteps, ErrorSteps, TypeOK,
      WorkerTypeOK
  <2>3. /\ Pending' \subseteq Pending
        /\ \A m \in Pending \ {msg[w]} : m \in Pending' /\ pel'[m] = pel[m]
        /\ ~ claimed[w] => msg[w] \notin Pending'
    BY <1>6 DEF Return, Raise, XACK, XACKandXTRIM, Acked, Pending, streamVars
  <2>4. \A v \in Workers \ {w} : Working(v) => msg[v] # msg[w]
    BY <2>0 DEF Exclusive, OneWorkerPerMessage
  <2>5. crashes' = 0 => ~ claimed[w]
    BY <2>0 DEF FirstHands, TypeOK, WorkerTypeOK
  <2>6. crashes' = 0 => \A m \in Pending' : \E v \in Workers : Working(v)' /\ msg'[v] = m
    BY <2>0, <2>1, <2>3, <2>5 DEF FirstHands
  <2>7. \A v \in Workers : Working(v)' => IF claimed'[v] THEN crashes' > 0
                                          ELSE msg'[v] \in Pending' /\ pel'[msg'[v]] = 1
    BY <2>0, <2>1, <2>2, <2>3, <2>4 DEF FirstHands
  <2> QED
    BY <2>6, <2>7 DEF FirstHands
<1>7. CASE Crash(w)
  <2>1. UNCHANGED pel /\ crashes' > 0 /\ ~ Working(w)'
    BY <1>7 DEF Crash, Goto, Working, JobSteps, TrySteps, ErrorSteps, streamVars, TypeOK,
      WorkerTypeOK
  <2>2. \A v \in Workers \ {w} : Working(v)' = Working(v) /\ msg'[v] = msg[v]
                                 /\ claimed'[v] = claimed[v]
    BY <1>7, LoopStepIs DEF LoopStep, Working
  <2>3. UNCHANGED Pending /\ crashes' # 0
    BY <2>1 DEF Pending
  <2>4. \A v \in Workers : Working(v)' => IF claimed'[v] THEN crashes' > 0
                                          ELSE msg'[v] \in Pending' /\ pel'[msg'[v]] = 1
    BY <2>1, <2>2, <2>3 DEF FirstHands
  <2> QED
    BY <2>3, <2>4 DEF FirstHands
<1> QED
  BY <1>1, <1>3, <1>4, <1>5, <1>6, <1>7, WorkerStepIs DEF LoopStep, ScanStep

(* Every step.                                                                 *)
LEMMA FirstHandsStep ==
  ASSUME "redis" \notin Faults
  PROVE  TypeOK /\ TypeOK' /\ Exclusive /\ SnapshotsLag /\ FirstHands /\ [Next]_vars => FirstHands'
<1> SUFFICES ASSUME TypeOK, TypeOK', Exclusive, SnapshotsLag, FirstHands, [Next]_vars
             PROVE  FirstHands'
  OBVIOUS
<1>1. CASE UNCHANGED <<pel, workerVars>>
  BY <1>1 DEF FirstHands, Pending, Working, workerVars
<1>2. CASE \E f \in Files : APIStep(f) /\ UNCHANGED workerVars
  <2>1. UNCHANGED <<pel, workerVars>>
    BY <1>2 DEF APIStep, UploadStep, ReprocessStep, CancelStep, DeleteStep,
      UploadCheckDuplicate, UploadForced, UploadCreate, UploadMedia, UploadEnqueue, UploadReuse,
      UploadTrigger, Reprocess, ReprocessVectors, ReprocessStatus, ReprocessEnqueue, CancelRead,
      CancelFlag, CancelWrite, CancelExpire, Delete, DeleteVectorsStep, DeleteRow, XADD,
      XADDUntrimmed, streamVars
  <2> QED
    BY <1>1, <2>1
<1> QED
  BY <1>1, <1>2, FirstHandsWorker DEF Next, BecomeIdle, vars, streamVars

------------------------------------------------------------------------------
(* What the theorem assumes: Redis and the database answer; workers die once   *)
(* at most, and then no job is slow and the role sees every row; the streams   *)
(* are long enough, and so are the limits on retries; the role of the services *)
(* sees what the job is about; and PDFs are processed by one worker.           *)
Keeping ==
  /\ "redis" \notin Faults /\ FewWorkers
  /\ "crash" \in Faults => MaxCrashes <= 1 /\ "slow" \notin Faults /\ BypassRLS
  /\ MaxLen >= MaxLog /\ HardCap > MaxRetries + 1
  /\ BypassRLS \/ (Shared = {} /\ \A f \in Files : Kind[f] # "media")
  /\ (\A v, w \in Workers : v = w) \/ \A f \in Files : Kind[f] # "pdf"

(* A stream that is never longer than MAXLEN is not trimmed.                   *)
LEMMA NoTrims ==
  ASSUME MaxLen >= MaxLog, NEW l, Len(l) \in Nat, Len(l) <= MaxLog, NEW s, NEW T \in Trims(l, s)
  PROVE  T = {}
<1> SUFFICES ASSUME T # {} PROVE FALSE
  OBVIOUS
<1>1. /\ T \subseteq Present(l, s) /\ Present(l, s) \subseteq 1 .. Len(l)
      /\ Cardinality(Present(l, s) \ T) >= MaxLen
  BY DEF Trims, Present
<1>2. PICK m \in T : m \in 1 .. Len(l)
  BY <1>1
<1>3. IsFiniteSet(1 .. Len(l)) /\ Cardinality(1 .. Len(l)) = Len(l)
  BY FS_Interval, SMTT(30)
<1>4. /\ IsFiniteSet((1 .. Len(l)) \ {m})
      /\ Cardinality((1 .. Len(l)) \ {m}) = Len(l) - 1
  BY <1>1, <1>2, <1>3, FS_RemoveElement, ZenonT(40)
<1>5. Cardinality(Present(l, s) \ T) <= Len(l) - 1
  BY <1>1, <1>2, <1>4, FS_Subset
<1>6. Cardinality(Present(l, s) \ T) \in Nat
  BY <1>1, <1>2, <1>4, FS_Subset, FS_CardinalityType
<1> QED
  BY <1>1, <1>5, <1>6, StreamAssumption

(* What the addition of a job then does.                                       *)
LEMMA XADDKeeps ==
  ASSUME MaxLen >= MaxLog, TypeOK, NEW job \in Jobs, XADD(job)
  PROVE  /\ Len(log') <= MaxLog /\ trimmed' = trimmed /\ UNCHANGED pel
         /\ log' = Append(log, job) /\ unread' = unread \cup {Len(log')}
         /\ \A f : Awaited(f) => Awaited(f)'
         /\ Awaited(job.file)'
<1>1. log' = Append(log, job) /\ Len(log') = Len(log) + 1 /\ Len(log) \in Nat /\ UNCHANGED pel
  BY DEF XADD, TypeOK, StreamTypeOK
<1>2. Len(log') <= MaxLog
  BY <1>1, StreamAssumption DEF XADD
<1>3. PICK T \in Trims(log', job.stream) :
        trimmed' = trimmed \cup T /\ unread' = (unread \cup {Len(log')}) \ T
  BY DEF XADD
<1>4. T = {}
  <2>1. Len(log') \in Nat
    BY <1>1
  <2> QED
    BY <1>2, <1>3, <2>1, NoTrims
<1>5. \A m \in unread : log'[m] = log[m]
  BY <1>1 DEF TypeOK, StreamTypeOK, Ids
<1>6. log'[Len(log')] = job
  BY <1>1 DEF TypeOK, StreamTypeOK
<1> QED
  BY <1>1, <1>2, <1>3, <1>4, <1>5, <1>6 DEF Awaited

(* Whoever keeps a file keeps it while messages are only added and its workers *)
(* go on.                                                                      *)
LEMMA KeptStays ==
  ASSUME TypeOK, Adds(Jobs), UNCHANGED pel, NEW f \in Files, Kept(f),
         Awaited(f) => Awaited(f)',
         reproc[f].step # "none" => reproc'[f].step # "none" \/ Awaited(f)',
         \A w \in Workers : Working(w)' = Working(w) /\ msg'[w] = msg[w],
         \A w \in Workers : On(w, f) /\ pc[w] \notin {"return", "raise"} =>
           pc'[w] \notin {"return", "raise"}
  PROVE  Kept(f)'
<1>1. CASE reproc[f].step # "none" \/ Awaited(f)
  BY <1>1 DEF Kept
<1>2. CASE Active(f)
  BY <1>2, JobStays DEF Kept, Active, On
<1>3. ASSUME "crash" \in Faults, NEW m \in Pending, log[m].file = f, Abandoned(m)
      PROVE  Kept(f)'
  <2>1. log'[m] = log[m] /\ m \in Pending'
    BY JobsStay DEF TypeOK, StreamTypeOK, Pending
  <2>2. Abandoned(m)'
    BY <1>3, <2>1 DEF Abandoned, Pending
  <2> QED
    BY <1>3, <2>1, <2>2 DEF Kept
<1> QED
  BY <1>1, <1>2, <1>3 DEF Kept

(* The other parts of the invariant, while no worker goes on.                  *)
LEMMA KeptRest ==
  ASSUME TypeOK, KeptInv, Adds({job \in Jobs : job.retry <= MaxRetries + 1}),
         Len(log') <= MaxLog, UNCHANGED trimmed,
         \A f \in Files : Awaited(f) => Awaited(f)',
         \A w \in Workers : pc'[w] \in PdfSteps \cup {"requeueAdd"} =>
           pc'[w] = pc[w] /\ msg'[w] = msg[w] /\ count'[w] = count[w],
         \A f \in Files : Unfinished(f)' => Kept(f)'
  PROVE  KeptInv'
<1>1. \A m \in Ids' : log'[m].retry <= MaxRetries + 1
  BY DEF KeptInv, Adds, TypeOK, StreamTypeOK, Ids
<1>2. ASSUME NEW w \in Workers, pc'[w] \in PdfSteps
      PROVE  File(w)' = File(w) /\ File(w) \in Files
  <2>1. Working(w) /\ Adds(Jobs)
    BY <1>2 DEF PdfSteps, Working, JobSteps, TrySteps, Adds
  <2> QED
    BY <1>2, <2>1, JobStays, JobType
<1>3. \A w \in Workers : /\ pc'[w] \in PdfSteps => Kind[File(w)'] = "pdf"
                         /\ pc'[w] = "requeueAdd" => count'[w] <= MaxRetries + 1
  BY <1>2 DEF KeptInv
<1>4. \A w \in Workers : pc'[w] = "pass1Done" => Awaited(File(w))'
  <2> SUFFICES ASSUME NEW w \in Workers, pc'[w] = "pass1Done" PROVE Awaited(File(w))'
    OBVIOUS
  <2>1. PICK f \in Files : f = File(w) /\ f = File(w)'
    BY <1>2 DEF PdfSteps
  <2>2. Awaited(f)
    BY <2>1 DEF KeptInv, PdfSteps
  <2>3. Awaited(f)'
    BY <2>2
  <2> QED
    BY <2>1, <2>3 DEF Awaited
<1> QED
  BY <1>1, <1>3, <1>4 DEF KeptInv

------------------------------------------------------------------------------
(* The requests.                                                               *)

(* The requests that add a job.                                                *)
LEMMA KeptEnqueue ==
  ASSUME Keeping, TypeOK, KeptInv, NEW f \in Files, UNCHANGED workerVars,
         UploadEnqueue(f) \/ UploadTrigger(f) \/ ReprocessEnqueue(f)
  PROVE  KeptInv'
<1>1. PICK job \in Jobs : XADD(job) /\ job.file = f /\ job.retry = 0
  BY APIJobs, UntrimmedIsXADD
    DEF Keeping, UploadEnqueue, UploadTrigger, ReprocessEnqueue, UploadJob, ReprocessJob
<1>2. /\ Len(log') <= MaxLog /\ UNCHANGED <<trimmed, pel>> /\ log' = Append(log, job)
      /\ \A g : Awaited(g) => Awaited(g)'
      /\ Awaited(f)'
  BY <1>1, XADDKeeps DEF Keeping
<1>3. Adds(Jobs) /\ Adds({j \in Jobs : j.retry <= MaxRetries + 1})
  BY <1>1, <1>2, WorkerAssumption DEF Adds
<1>4. \A w \in Workers : Working(w)' = Working(w) /\ msg'[w] = msg[w] /\ pc'[w] = pc[w]
                         /\ count'[w] = count[w]
  BY DEF workerVars, Working
<1>5. ASSUME NEW g \in Files, Unfinished(g)' PROVE Kept(g)'
  <2>1. CASE g = f
    BY <1>2, <2>1 DEF Kept
  <2>2. CASE g # f
    <3>1. upload'[g] = upload[g] /\ reproc'[g] = reproc[g] /\ UNCHANGED storeVars
      BY <2>2 DEF UploadEnqueue, UploadTrigger, ReprocessEnqueue, SetUpload, TypeOK, APITypeOK
    <3>2. Kept(g)
      BY <1>5, <3>1 DEF KeptInv, Unfinished, storeVars
    <3> QED
      BY <1>2, <1>3, <1>4, <3>1, <3>2, KeptStays
  <2> QED
    BY <2>1, <2>2
<1> QED
  BY <1>2, <1>3, <1>4, <1>5, KeptRest

(* The requests that add none: they leave no file unfinished, except while a   *)
(* reprocess request is under way.                                             *)
LEMMA UnfinishedAPI ==
  ASSUME Keeping, TypeOK, NEW f \in Files, APIStep(f),
         ~ UploadEnqueue(f), ~ UploadTrigger(f), ~ ReprocessEnqueue(f)
  PROVE  /\ UNCHANGED streamVars
         /\ \A g \in Files : reproc[g].step # "none" => reproc'[g].step # "none"
         /\ \A g \in Files : Unfinished(g)' => Unfinished(g) \/ reproc'[g].step # "none"
<1>1. UNCHANGED streamVars
  BY DEF APIStep, UploadStep, ReprocessStep, CancelStep, DeleteStep, UploadCheckDuplicate,
    UploadForced, UploadCreate, UploadMedia, UploadReuse, Reprocess, ReprocessVectors,
    ReprocessStatus, CancelRead, CancelFlag, CancelWrite, CancelExpire, Delete, DeleteVectorsStep,
    DeleteRow
<1>2. \A g \in Files : reproc[g].step # "none" => reproc'[g].step # "none"
  BY DEF APIStep, UploadStep, ReprocessStep, CancelStep, DeleteStep, UploadCheckDuplicate,
    UploadForced, UploadCreate, UploadMedia, UploadReuse, Reprocess, ReprocessVectors,
    ReprocessStatus, CancelRead, CancelFlag, CancelWrite, CancelExpire, Delete, DeleteVectorsStep,
    DeleteRow, apiVars, TypeOK, APITypeOK
<1>3. CASE UploadCheckDuplicate(f) \/ DeleteRow(f)
  <2>1. PICK D : DeleteRows(D)
    BY <1>3 DEF UploadCheckDuplicate, DeleteRow
  <2>2. \A g \in Files \ {f} : upload'[g] = upload[g]
    BY <1>3 DEF UploadCheckDuplicate, DeleteRow, SetUpload, TypeOK, APITypeOK
  <2>3. upload'[f] = upload[f] \/ upload[f] = "none"
    BY <1>3 DEF UploadCheckDuplicate, DeleteRow
  <2>4. \A g \in Files : Unfinished(g)' => Unfinished(g)
    BY <2>1, <2>2, <2>3 DEF DeleteRows, Unfinished
  <2> QED
    BY <1>1, <1>2, <2>4
<1>4. CASE UploadForced(f) \/ UploadCreate(f) \/ UploadReuse(f)
  <2>1. \A g \in Files \ {f} : (g \in row' => g \in row) /\ upload'[g] = upload[g]
                               /\ stage'[g] = stage[g]
    BY <1>4 DEF UploadForced, UploadCreate, UploadReuse, SetUpload, CreateRow, SetStage, storeVars,
      TypeOK, StoreTypeOK, APITypeOK
  <2>2. \/ upload'[f] \in {"created", "createdForced"}
        \/ stage'[f] = "completed"
        \/ upload[f] \notin {"created", "createdForced"} /\ UNCHANGED <<row, stage>>
    BY <1>4 DEF UploadForced, UploadCreate, UploadReuse, SetUpload, CreateRow, SetStage, storeVars,
      TypeOK, StoreTypeOK, APITypeOK
  <2>3. \A g \in Files : Unfinished(g)' => Unfinished(g)
    BY <2>1, <2>2 DEF Unfinished, Settled
  <2> QED
    BY <1>1, <1>2, <2>3
<1>5. CASE UploadMedia(f)
  <2>1. BypassRLS
    BY <1>5 DEF UploadMedia, Keeping
  <2>2. \A g \in Files : Unfinished(g)' => Unfinished(g)
    BY <1>5, <2>1 DEF UploadMedia, SetUpload, SetStageIfRow, SetStage, Unfinished,
      Settled, TypeOK, StoreTypeOK, APITypeOK
  <2> QED
    BY <1>1, <1>2, <2>2
<1>6. CASE ReprocessStatus(f)
  <2>1. \A g \in Files : Unfinished(g)' => Unfinished(g) \/ reproc'[g].step # "none"
    BY <1>6 DEF ReprocessStatus, SetStageIfRow, SetStage, Unfinished, TypeOK, StoreTypeOK, APITypeOK
  <2> QED
    BY <1>1, <1>2, <2>1
<1>7. CASE CancelWrite(f)
  <2>1. \A g \in Files : Unfinished(g)' => Unfinished(g)
    BY <1>7 DEF CancelWrite, SetStageIfRow, SetStage, Unfinished, Settled, TypeOK, StoreTypeOK
  <2> QED
    BY <1>1, <1>2, <2>1
<1>8. CASE UNCHANGED <<row, stage, upload>>
  BY <1>1, <1>2, <1>8 DEF Unfinished
<1> QED
  BY <1>3, <1>4, <1>5, <1>6, <1>7, <1>8 DEF APIStep, UploadStep, ReprocessStep, CancelStep,
    DeleteStep, Reprocess, ReprocessVectors, CancelRead, CancelFlag, CancelExpire, Delete,
    DeleteVectorsStep, storeVars, dbVars, apiVars

LEMMA KeptAPI ==
  ASSUME Keeping, TypeOK, KeptInv, NEW f \in Files, APIStep(f), UNCHANGED workerVars
  PROVE  KeptInv'
<1>1. CASE UploadEnqueue(f) \/ UploadTrigger(f) \/ ReprocessEnqueue(f)
  BY <1>1, KeptEnqueue
<1>2. CASE ~ UploadEnqueue(f) /\ ~ UploadTrigger(f) /\ ~ ReprocessEnqueue(f)
  <2>1. /\ UNCHANGED streamVars
        /\ \A g \in Files : reproc[g].step # "none" => reproc'[g].step # "none"
        /\ \A g \in Files : Unfinished(g)' => Unfinished(g) \/ reproc'[g].step # "none"
    BY <1>2, UnfinishedAPI
  <2>2. /\ Adds(Jobs) /\ Adds({j \in Jobs : j.retry <= MaxRetries + 1})
        /\ Len(log') <= MaxLog /\ \A g : Awaited(g) => Awaited(g)'
        /\ UNCHANGED <<trimmed, pel>>
    BY <2>1 DEF streamVars, Adds, Awaited, KeptInv
  <2>3. \A w \in Workers : Working(w)' = Working(w) /\ msg'[w] = msg[w] /\ pc'[w] = pc[w]
                           /\ count'[w] = count[w]
    BY DEF workerVars, Working
  <2>4. ASSUME NEW g \in Files, Unfinished(g)' PROVE Kept(g)'
    <3>1. CASE reproc'[g].step # "none"
      BY <3>1 DEF Kept
    <3>2. CASE Unfinished(g)
      <4>1. Kept(g)
        BY <3>2 DEF KeptInv
      <4> QED
        BY <2>1, <2>2, <2>3, <4>1, KeptStays
    <3> QED
      BY <2>1, <2>4, <3>1, <3>2
  <2> QED
    BY <2>2, <2>3, <2>4, KeptRest
<1> QED
  BY <1>1, <1>2

------------------------------------------------------------------------------
(* process_job.                                                                *)

(* The job it adds is one of its file, whose retry count is bounded.           *)
LEMMA KeptAdds ==
  ASSUME Keeping, TypeOK, KeptInv, NEW w \in Workers, ProcessStep(w)
  PROVE  /\ Adds(Jobs) /\ Adds({job \in Jobs : job.retry <= MaxRetries + 1})
         /\ Len(log') <= MaxLog /\ UNCHANGED <<trimmed, pel>>
         /\ \A g : Awaited(g) => Awaited(g)'
         /\ EnqueuePass2(w) /\ pc'[w] = "pass1Done" => Awaited(File(w))'
         /\ RequeueAdd(w) => Awaited(File(w))'
<1>1. Working(w) /\ Job(w) \in Jobs /\ count[w] \in Nat /\ msg'[w] = msg[w]
  BY ProcessStepIs, JobType DEF TypeOK, WorkerTypeOK
<1>2. PICK f \in Files : f = File(w)
  BY <1>1, JobType
<1>3. ASSUME NEW job \in Jobs, XADD(job), job.file = f, job.retry <= MaxRetries + 1
      PROVE  /\ Adds(Jobs) /\ Adds({j \in Jobs : j.retry <= MaxRetries + 1})
             /\ Len(log') <= MaxLog /\ UNCHANGED <<trimmed, pel>>
             /\ \A g : Awaited(g) => Awaited(g)'
             /\ Awaited(f)' /\ File(w)' = f
  <2>1. Len(log') <= MaxLog /\ UNCHANGED <<trimmed, pel>> /\ log' = Append(log, job)
        /\ (\A g : Awaited(g) => Awaited(g)') /\ Awaited(f)'
    BY <1>3, XADDKeeps DEF Keeping
  <2>2. Adds(Jobs) /\ Adds({j \in Jobs : j.retry <= MaxRetries + 1})
    BY <1>3, <2>1 DEF Adds
  <2> QED
    BY <1>1, <1>2, <2>1, <2>2, JobStays
<1>4. CASE EnqueuePass2(w)
  <2>1. XADD(Pass2Job(Job(w)))
    BY <1>4 DEF EnqueuePass2, Keeping
  <2>2. Pass2Job(Job(w)).file = f /\ Pass2Job(Job(w)).retry = 0
    BY <1>2 DEF Pass2Job, File
  <2>3. Pass2Job(Job(w)) \in Jobs /\ 0 <= MaxRetries + 1
    BY <1>1, WorkerJobs, WorkerAssumption
  <2>4. ~ RequeueAdd(w)
    BY <1>4 DEF EnqueuePass2, RequeueAdd, At, During
  <2>5. \A g : g = f /\ Awaited(f)' /\ File(w)' = f => Awaited(File(w))'
    BY DEF Awaited
  <2> QED
    BY <1>2, <1>3, <2>1, <2>2, <2>3, <2>4, <2>5
<1>5. CASE RequeueAdd(w)
  <2>1. XADD(RetryJob(Job(w), count[w])) /\ count[w] <= MaxRetries + 1
    BY <1>5 DEF RequeueAdd, At, During, Keeping, KeptInv
  <2>2. RetryJob(Job(w), count[w]).file = f /\ RetryJob(Job(w), count[w]).retry = count[w]
    BY <1>1, <1>2 DEF RetryJob, File, Jobs
  <2>3. RetryJob(Job(w), count[w]) \in Jobs
    BY <1>1, WorkerJobs
  <2>4. ~ EnqueuePass2(w)
    BY <1>5 DEF EnqueuePass2, RequeueAdd, At, During
  <2>5. Awaited(f)' /\ File(w)' = f => Awaited(File(w))'
    BY DEF Awaited
  <2> QED
    BY <1>2, <1>3, <2>1, <2>2, <2>3, <2>4, <2>5
<1>6. CASE ~ EnqueuePass2(w) /\ ~ RequeueAdd(w)
  <2>1. UNCHANGED streamVars
    <3>1. CASE StatusStep(w)
      BY <3>1, StatusStepIs DEF StatusOnly, streamVars
    <3>2. CASE ~ StatusStep(w)
      BY <1>6, <3>2 DEF ProcessStep, PipelineStep, StatusStep, ErrorStep, Begin, Duplicate, Load,
        Store, Markdown, AppendVectors, Pass1, Pass2, Replace, MarkdownAgain, RecordMarkdown, Fail,
        ShouldRetry, RequeueCount, Requeue, MarkFailed
    <3> QED
      BY <3>1, <3>2
  <2> QED
    BY <1>6, <2>1 DEF streamVars, Adds, Awaited, KeptInv
<1> QED
  BY <1>4, <1>5, <1>6

(* When process_job is about to return or raise, the outcome is on record: the *)
(* file is settled, or another job of it was added, or it has no row.          *)
LEMMA OutcomeDecided ==
  ASSUME Keeping, TypeOK, RetryInv, KeptInv, NEW w \in Workers, ProcessStep(w),
         pc'[w] \in {"return", "raise"}
  PROVE  File(w) \notin row \/ stage'[File(w)] \in Settled \/ Awaited(File(w))'
<1>1. Working(w) /\ Job(w) \in Jobs /\ File(w) \in Files /\ msg[w] \in Ids /\ msg'[w] = msg[w]
  BY ProcessStepIs, JobType
<1>2. SUFFICES ASSUME File(w) \in row
               PROVE  stage'[File(w)] \in Settled \/ Awaited(File(w))'
  OBVIOUS
<1>3. ~ (\E kind \in Errors : Raises(w, kind)) /\ ~ FileGone(w)
  BY DEF Raises, FileGone, Goto, TypeOK, WorkerTypeOK
<1>4. CASE Begin(w)
  <2>1. Visible(Job(w))
    BY <1>1, <1>2 DEF Visible, Keeping, File
  <2>2. Job(w).retry < HardCap
    BY <1>1, WorkerAssumption DEF KeptInv, Keeping, Job, Jobs
  <2>3. HardCap \in Nat /\ Job(w).retry \in Nat
    BY <1>1, WorkerAssumption DEF Jobs
  <2> QED
    BY <1>4, <2>1, <2>2, <2>3 DEF Begin, Dispatch, Goto, TypeOK, WorkerTypeOK
<1>5. CASE Duplicate(w) \/ EntityDone(w) \/ FastDone(w) \/ Complete(w) \/ MarkFailed(w)
  BY <1>1, <1>2, <1>3, <1>5 DEF Duplicate, Dispatch, EntityDone, FastDone, Complete, MarkFailed,
    UpdateStatus, SetStageIfRow, SetStage, Goto, Keeping, FewWorkers, Settled, TypeOK, StoreTypeOK,
    WorkerTypeOK
<1>6. CASE Pass1Done(w)
  <2>1. Awaited(File(w))
    BY <1>6 DEF Pass1Done, At, During, KeptInv
  <2>2. PICK f \in Files : f = File(w) /\ f = File(w)'
    BY <1>1, JobStays, KeptAdds
  <2>3. Awaited(f)'
    BY <2>1, <2>2, KeptAdds
  <2> QED
    BY <2>2, <2>3 DEF Awaited
<1>7. CASE Pass1(w) \/ Pass2(w)
  <2>1. PICK next \in TrySteps : CancelOr(w, next)
    BY <1>7 DEF Pass1, Pass2, TrySteps
  <2> QED
    BY <1>1, <1>2, <2>1 DEF CancelOr, HandleCancellation, SetStage, Goto, Settled, TrySteps, TypeOK,
      StoreTypeOK, WorkerTypeOK
<1>8. CASE RequeueAdd(w)
  BY <1>8, KeptAdds
<1>9. CASE \/ Load(w) \/ Store(w) \/ Markdown(w) \/ AppendVectors(w) \/ EnqueuePass2(w)
           \/ Replace(w) \/ MarkdownAgain(w) \/ Fail(w) \/ ShouldRetry(w) \/ RequeueCount(w)
           \/ Requeue(w)
  BY <1>2, <1>3, <1>9 DEF Load, Store, AfterStore, Markdown, AppendVectors, EnqueuePass2, Replace,
    MarkdownAgain, Fail, ShouldRetry, RetryOrFail, RequeueCount, Requeue, Raises, Goto, Keeping,
    FewWorkers, TypeOK, WorkerTypeOK
<1>10. CASE \/ Entity(w) \/ Fast(w) \/ Parsing(w) \/ Chunking(w) \/ Indexing(w) \/ View(w)
            \/ Enhanced(w)
  BY <1>1, <1>3, <1>10 DEF Entity, Fast, Parsing, Chunking, Indexing, View, Enhanced, UpdateStatus,
    Goto, Jobs, TypeOK, WorkerTypeOK
<1> QED
  BY <1>4, <1>5, <1>6, <1>7, <1>8, <1>9, <1>10 DEF ProcessStep, PipelineStep, ErrorStep

(* The steps that lead to those of a progressive run, and to a retry.          *)
LEMMA PdfStepsReached ==
  ASSUME TypeOK, RetryInv, KeptInv, NEW w \in Workers, ProcessStep(w)
  PROVE  /\ pc'[w] \in PdfSteps => Kind[File(w)] = "pdf"
         /\ pc'[w] = "pass1Done" => EnqueuePass2(w)
         /\ pc'[w] = "requeueAdd" => count'[w] <= MaxRetries + 1
<1>1. Working(w) /\ Job(w) \in Jobs
  BY ProcessStepIs, JobType
<1>2. pc[w] \in PdfSteps \/ Progressive(Job(w)) => Kind[File(w)] = "pdf"
  BY DEF KeptInv, Progressive, File
<1>3. CASE pc[w] \in PdfSteps
  <2>1. pc'[w] = "pass1Done" => EnqueuePass2(w)
    BY <1>1, <1>3 DEF ProcessStep, PipelineStep, ErrorStep, Begin, Duplicate, Load, Entity,
      EntityDone, Fast, FastDone, Parsing, Chunking, Store, Markdown, Indexing, AppendVectors,
      Complete, Pass1, View, Pass1Done, Pass2, Replace, MarkdownAgain, Enhanced, CancelOr,
      HandleCancellation, UpdateStatus, FileGone, Raises, Fail, ShouldRetry, RequeueCount, Requeue,
      RequeueAdd, MarkFailed, At, During, Goto, PdfSteps, Jobs, TypeOK, WorkerTypeOK
  <2>2. pc'[w] # "requeueAdd"
    BY <1>1, <1>3 DEF ProcessStep, PipelineStep, ErrorStep, Begin, Duplicate, Load, Entity,
      EntityDone, Fast, FastDone, Parsing, Chunking, Store, Markdown, Indexing, AppendVectors,
      Complete, Pass1, View, EnqueuePass2, Pass1Done, Pass2, Replace, MarkdownAgain, Enhanced,
      CancelOr, HandleCancellation, UpdateStatus, FileGone, Raises, Fail, ShouldRetry, RequeueCount,
      Requeue, RequeueAdd, MarkFailed, At, During, Goto, PdfSteps, Jobs, TypeOK, WorkerTypeOK
  <2> QED
    BY <1>2, <1>3, <2>1, <2>2
<1>4. CASE Parsing(w) \/ Store(w) \/ Markdown(w) \/ AppendVectors(w)
  BY <1>2, <1>4 DEF Parsing, Store, AfterStore, Markdown, AppendVectors, UpdateStatus, FileGone,
    Raises, Goto, PdfSteps, TypeOK, WorkerTypeOK
<1>5. CASE Requeue(w)
  BY <1>5 DEF Requeue, At, During, Goto, RetryInv, Holds, PdfSteps, TypeOK, WorkerTypeOK
<1>6. CASE \/ Begin(w) \/ Duplicate(w) \/ Load(w) \/ Entity(w) \/ EntityDone(w) \/ Fast(w)
           \/ FastDone(w) \/ Chunking(w) \/ Indexing(w) \/ Complete(w)
  BY <1>6 DEF Begin, Duplicate, Load, Entity, EntityDone, Fast, FastDone, Chunking, Indexing,
    Complete, Dispatch, UpdateStatus, FileGone, Raises, Goto, PdfSteps, TypeOK, WorkerTypeOK
<1>7. CASE Fail(w) \/ ShouldRetry(w) \/ RequeueCount(w) \/ RequeueAdd(w) \/ MarkFailed(w)
  BY <1>7 DEF Fail, ShouldRetry, RetryOrFail, RequeueCount, RequeueAdd, MarkFailed, Raises, Goto,
    PdfSteps, TypeOK, WorkerTypeOK
<1>8. CASE \/ Pass1(w) \/ View(w) \/ EnqueuePass2(w) \/ Pass1Done(w) \/ Pass2(w) \/ Replace(w)
           \/ MarkdownAgain(w) \/ Enhanced(w)
  BY <1>3, <1>8 DEF Pass1, View, EnqueuePass2, Pass1Done, Pass2, Replace, MarkdownAgain, Enhanced,
    At, During, PdfSteps
<1> QED
  BY <1>4, <1>5, <1>6, <1>7, <1>8 DEF ProcessStep, PipelineStep, ErrorStep

(* Whoever processes a file keeps it until its outcome is on record.           *)
LEMMA KeptProcess ==
  ASSUME Keeping, TypeOK, RetryInv, KeptInv, NEW w \in Workers, ProcessStep(w)
  PROVE  KeptInv'
<1>1. Working(w) /\ Working(w)' /\ UNCHANGED <<msg, apiVars, row>>
  BY ProcessStepIs, ProcessStepMoves, ProcessStepRow DEF Working, TypeOK, WorkerTypeOK
<1>2. PICK f \in Files : f = File(w) /\ f = File(w)'
  BY <1>1, JobType, JobStays, KeptAdds
<1>3. \A v \in Workers \ {w} : pc'[v] = pc[v] /\ count'[v] = count[v]
  <2>1. CASE UNCHANGED count
    BY <2>1, ProcessStepMoves DEF TypeOK, WorkerTypeOK
  <2>2. CASE ShouldRetry(w) \/ RequeueCount(w)
    BY <2>2 DEF ShouldRetry, RetryOrFail, RequeueCount, Goto, TypeOK, WorkerTypeOK
  <2>3. CASE StatusStep(w)
    BY <2>1, <2>3, StatusStepIs DEF At
  <2> QED
    BY <2>1, <2>2, <2>3 DEF ProcessStep, PipelineStep, StatusStep, ErrorStep, Begin, Duplicate, Load,
      Store, Markdown, AppendVectors, Pass1, EnqueuePass2, Pass2, Replace, MarkdownAgain, Fail,
      Requeue, RequeueAdd, MarkFailed, At
<1>4. \A v \in Workers : Working(v)' = Working(v) /\ msg'[v] = msg[v]
  BY <1>1, <1>3 DEF Working
<1>5. ASSUME NEW g \in Files, Unfinished(g)' PROVE Kept(g)'
  <2>1. CASE g # f
    <3>1. Kept(g)
      BY <1>1, <1>2, <1>5, <2>1, StageOfOne DEF Unfinished, KeptInv, apiVars
    <3>2. \A v \in Workers : On(v, g) => v # w
      BY <1>2, <2>1 DEF On
    <3> QED
      BY <1>1, <1>3, <1>4, <3>1, <3>2, KeptAdds, KeptStays DEF apiVars
  <2>2. CASE g = f /\ pc'[w] \notin {"return", "raise"}
    BY <1>1, <1>2, <2>2 DEF Kept, Active, On
  <2>3. CASE g = f /\ pc'[w] \in {"return", "raise"}
    <3>1. File(w) \in row /\ stage'[File(w)] \notin Settled
      BY <1>1, <1>2, <1>5, <2>3 DEF Unfinished
    <3>2. Awaited(File(w))'
      BY <2>3, <3>1, OutcomeDecided
    <3> QED
      BY <1>2, <2>3, <3>2 DEF Kept, Awaited
  <2> QED
    BY <2>1, <2>2, <2>3
<1>6. \A m \in Ids' : log'[m].retry <= MaxRetries + 1
  BY KeptAdds, SMTT(30) DEF KeptInv, Adds, TypeOK, StreamTypeOK, Ids
<1>7. ASSUME NEW v \in Workers
      PROVE  /\ pc'[v] \in PdfSteps => Kind[File(v)'] = "pdf"
             /\ pc'[v] = "pass1Done" => Awaited(File(v))'
             /\ pc'[v] = "requeueAdd" => count'[v] <= MaxRetries + 1
  <2>1. CASE v = w
    <3>1. pc'[w] = "pass1Done" => Awaited(File(w))'
      BY PdfStepsReached, KeptAdds
    <3> QED
      BY <1>2, <2>1, <3>1, PdfStepsReached
  <2>2. CASE v # w
    <3>1. pc'[v] \in PdfSteps => Working(v)
      BY <1>3, <2>2 DEF PdfSteps, Working, JobSteps, TrySteps
    <3>2. ASSUME pc'[v] \in PdfSteps
          PROVE  Kind[File(v)'] = "pdf" /\ (pc'[v] = "pass1Done" => Awaited(File(v))')
      <4>1. PICK g \in Files : g = File(v) /\ g = File(v)'
        BY <1>4, <3>1, <3>2, JobType, JobStays, KeptAdds
      <4>2. Kind[g] = "pdf" /\ (pc'[v] = "pass1Done" => Awaited(g))
        BY <1>3, <2>2, <3>2, <4>1 DEF KeptInv
      <4>3. pc'[v] = "pass1Done" => Awaited(g)'
        BY <4>2, KeptAdds
      <4> QED
        BY <4>1, <4>2, <4>3 DEF Awaited
    <3> QED
      BY <1>3, <2>2, <3>2 DEF KeptInv, PdfSteps
  <2> QED
    BY <2>1, <2>2
<1> QED
  BY <1>5, <1>6, <1>7, KeptAdds DEF KeptInv

------------------------------------------------------------------------------
(* The steps of a worker outside process_job.                                  *)

(* A step that changes nothing of the streams that matters to f, while w is    *)
(* between jobs or leaves the one it has done.                                 *)
LEMMA KeptLeft ==
  ASSUME TypeOK, NEW w \in Workers, LoopStep(w), NEW f \in Files, Kept(f),
         Working(w) => pc[w] \in {"return", "raise"}, ~ Working(w)',
         unread' = unread,
         \A m \in Pending : Abandoned(m) /\ log[m].file = f => m \in Pending' /\ pel'[m] = pel[m]
  PROVE  Kept(f)'
<1>1. /\ UNCHANGED <<reproc, log>>
      /\ \A v \in Workers \ {w} : pc'[v] = pc[v] /\ msg'[v] = msg[v]
  BY LoopStepIs DEF apiVars
<1>2. CASE reproc[f].step # "none" \/ Awaited(f)
  BY <1>1, <1>2 DEF Kept, Awaited
<1>3. CASE Active(f)
  <2>1. PICK v \in Workers \ {w} : On(v, f) /\ pc[v] \notin {"return", "raise"}
    BY <1>3 DEF Active, On
  <2> QED
    BY <1>1, <2>1 DEF Kept, Active, On, Working, File, Job
<1>4. ASSUME "crash" \in Faults, NEW m \in Pending, log[m].file = f, Abandoned(m)
      PROVE  Kept(f)'
  <2>1. Abandoned(m)'
    BY <1>1, <1>4 DEF Abandoned, Working
  <2> QED
    BY <1>1, <1>4, <2>1 DEF Kept
<1> QED
  BY <1>2, <1>3, <1>4 DEF Kept

(* A delivery of m to w.                                                       *)
LEMMA KeptDelivered ==
  ASSUME TypeOK, NEW w \in Workers, LoopStep(w), NEW f \in Files, Kept(f), ~ Working(w),
         NEW m, Working(w)', msg'[w] = m, unread \ {m} \subseteq unread',
         \A n \in Pending \ {m} : n \in Pending' /\ pel'[n] = pel[n]
  PROVE  Kept(f)'
<1>1. /\ UNCHANGED <<reproc, log>> /\ pc'[w] = "begin"
      /\ \A v \in Workers \ {w} : pc'[v] = pc[v] /\ msg'[v] = msg[v]
  BY LoopStepIs DEF apiVars
<1>2. CASE log[m].file = f
  BY <1>1, <1>2 DEF Kept, Active, On, Working, File, Job
<1>3. CASE log[m].file # f
  <2>1. CASE reproc[f].step # "none" \/ Awaited(f)
    BY <1>1, <1>3, <2>1 DEF Kept, Awaited
  <2>2. CASE Active(f)
    <3>1. PICK v \in Workers \ {w} : On(v, f) /\ pc[v] \notin {"return", "raise"}
      BY <2>2 DEF Active, On
    <3> QED
      BY <1>1, <3>1 DEF Kept, Active, On, Working, File, Job
  <2>3. ASSUME "crash" \in Faults, NEW n \in Pending, log[n].file = f, Abandoned(n)
        PROVE  Kept(f)'
    <3>1. n # m
      BY <1>3, <2>3
    <3>2. Abandoned(n)'
      BY <1>1, <2>3, <3>1 DEF Abandoned, Working
    <3> QED
      BY <1>1, <2>3, <3>1, <3>2 DEF Kept
  <2> QED
    BY <2>1, <2>2, <2>3 DEF Kept
<1> QED
  BY <1>2, <1>3

(* The inspection of a pending message.                                        *)
LEMMA KeptInspection ==
  ASSUME Keeping, TypeOK, SnapshotsLag, KeptInv, NEW w \in Workers, NEW t \in todo[w],
         DeadLetter(w, t) \/ ClaimNothing(w, t) \/ Claim(w, t) \/ AckOrphan(w, t),
         NEW f \in Files, Unfinished(f)
  PROVE  Kept(f)' /\ trimmed' = trimmed
<1>1. LoopStep(w) /\ ~ Working(w)
  BY DEF LoopStep, ScanStep, DeadLetter, ClaimNothing, Claim, AckOrphan, Inspects, Working, JobSteps,
    TrySteps, ErrorSteps, ScanSteps
<1>2. Kept(f) /\ trimmed = {}
  BY DEF KeptInv
<1>3. CASE DeadLetter(w, t)
  <2>1. ASSUME NEW m \in Pending, Abandoned(m) PROVE m # t[1]
    <3>1. m = t[1] => t[2] <= 1 /\ t[2] \in Nat
      BY <2>1 DEF SnapshotsLag, Abandoned, TypeOK, WorkerTypeOK
    <3> QED
      BY <1>3, <3>1, WorkerAssumption DEF DeadLetter
  <2>2. /\ unread' = unread /\ trimmed' = trimmed /\ ~ Working(w)'
        /\ \A m \in Pending \ {t[1]} : m \in Pending' /\ pel'[m] = pel[m]
    BY <1>1, <1>3 DEF DeadLetter, XACK, Acked, Pending, Working
  <2> QED
    BY <1>1, <1>2, <2>1, <2>2, KeptLeft
<1>4. CASE ClaimNothing(w, t)
  BY <1>1, <1>2, <1>4, KeptLeft DEF ClaimNothing, Working, streamVars, Pending
<1>5. CASE Claim(w, t)
  <2>1. /\ Working(w)' /\ msg'[w] = t[1] /\ unread' = unread /\ trimmed' = trimmed
        /\ \A m \in Pending \ {t[1]} : m \in Pending' /\ pel'[m] = pel[m]
    BY <1>2, <1>5 DEF Claim, XCLAIM, StartJob, Goto, Working, JobSteps, TrySteps, Pending, TypeOK,
      WorkerTypeOK
  <2> QED
    BY <1>1, <1>2, <2>1, KeptDelivered
<1>6. CASE AckOrphan(w, t)
  <2>1. /\ unread' = unread /\ trimmed' = trimmed /\ ~ Working(w)'
        /\ \A m \in Pending \ {t[1]} : m \in Pending' /\ pel'[m] = pel[m]
    BY <1>1, <1>6 DEF Keeping, AckOrphan, XACK, Acked, Pending, Working
  <2>2. "crash" \in Faults => log[t[1]].file # f
    BY <1>6 DEF AckOrphan, SeenWithoutContext, Keeping, Unfinished
  <2>3. CASE "crash" \in Faults
    BY <1>1, <1>2, <2>1, <2>2, <2>3, KeptLeft
  <2>4. CASE "crash" \notin Faults
    <3>1. /\ UNCHANGED <<reproc, log>>
          /\ \A v \in Workers \ {w} : pc'[v] = pc[v] /\ msg'[v] = msg[v]
      BY <1>1, LoopStepIs DEF apiVars
    <3>2. reproc[f].step # "none" \/ Awaited(f) \/ Active(f)
      BY <1>2, <2>4 DEF Kept
    <3>3. Active(f) => Active(f)'
      BY <1>1, <3>1 DEF Active, On, Working, File, Job
    <3> QED
      BY <2>1, <3>1, <3>2, <3>3 DEF Kept, Awaited
  <2> QED
    BY <2>1, <2>3, <2>4
<1> QED
  BY <1>3, <1>4, <1>5, <1>6

(* The death of a worker: its message, which it has read, stays pending.       *)
LEMMA KeptCrash ==
  ASSUME Keeping, TypeOK, KeptInv, Exclusive, FirstHands, NEW w \in Workers, Crash(w),
         NEW f \in Files, Kept(f)
  PROVE  Kept(f)'
<1>1. /\ UNCHANGED <<reproc, log, unread, pel>> /\ ~ Working(w)'
      /\ "crash" \in Faults /\ crashes = 0
      /\ \A v \in Workers \ {w} : pc'[v] = pc[v] /\ msg'[v] = msg[v]
  BY WorkerAssumption DEF Crash, Keeping, Goto, Working, JobSteps, TrySteps, ErrorSteps, apiVars,
    streamVars, TypeOK, WorkerTypeOK
<1>2. CASE reproc[f].step # "none" \/ Awaited(f)
  BY <1>1, <1>2 DEF Kept, Awaited
<1>3. CASE Active(f)
  <2>1. PICK v \in Workers : On(v, f) /\ pc[v] \notin {"return", "raise"}
    BY <1>3 DEF Active
  <2>2. CASE v # w
    BY <1>1, <2>1, <2>2 DEF Kept, Active, On, Working, File, Job
  <2>3. CASE v = w
    <3>1. Working(w) /\ log[msg[w]].file = f
      BY <2>1, <2>3 DEF On, File, Job
    <3>2. msg[w] \in Pending /\ pel[msg[w]] = 1
      BY <1>1, <3>1 DEF FirstHands
    <3>3. \A u \in Workers \ {w} : Working(u) => msg[u] # msg[w]
      BY <3>1 DEF Exclusive, OneWorkerPerMessage
    <3>4. PICK m \in Pending : m = msg[w]
      BY <3>2
    <3>5. Abandoned(m)' /\ m \in Pending' /\ log'[m].file = f
      BY <1>1, <3>1, <3>2, <3>3, <3>4 DEF Abandoned, Working, Pending
    <3> QED
      BY <1>1, <3>5 DEF Kept
  <2> QED
    BY <2>2, <2>3
<1>4. ASSUME NEW m \in Pending, log[m].file = f, Abandoned(m)
      PROVE  Kept(f)'
  <2>1. Abandoned(m)' /\ m \in Pending'
    BY <1>1, <1>4 DEF Abandoned, Working, Pending
  <2> QED
    BY <1>1, <1>4, <2>1 DEF Kept
<1> QED
  BY <1>2, <1>3, <1>4 DEF Kept

(* What a step of the loop does to a file that is unfinished.                  *)
LEMMA KeptLoopFile ==
  ASSUME Keeping, TypeOK, SnapshotsLag, ClaimBudget, KeptInv,
         "crash" \in Faults => Exclusive /\ FirstHands,
         NEW w \in Workers, LoopStep(w), NEW f \in Files, Unfinished(f)
  PROVE  Kept(f)' /\ trimmed' = trimmed
<1>1. Kept(f) /\ trimmed = {} /\ Len(log) \in Nat /\ Len(log) <= MaxLog
  BY DEF KeptInv, TypeOK, StreamTypeOK
<1>2. CASE Start(w) \/ PeriodicScan(w) \/ ScanAborted(w) \/ ScanDone(w)
  <2>1. UNCHANGED streamVars /\ ~ Working(w) /\ ~ Working(w)'
    BY <1>2 DEF Start, PeriodicScan, Scan, ScanAborted, ScanDone, Goto, Working, JobSteps, TrySteps,
      ErrorSteps, ScanSteps, TypeOK, WorkerTypeOK
  <2> QED
    BY <1>1, <2>1, KeptLeft DEF streamVars, Pending
<1>3. CASE ReadStep(w)
  <2>1. ~ Working(w)
    BY <1>3 DEF ReadStep, ReadHigh, ReadLow, Working, JobSteps, TrySteps, ErrorSteps
  <2>2. ASSUME NEW s, NEW m, XREADGROUP(s, m), StartJob(w, m, FALSE)
        PROVE  Kept(f)' /\ trimmed' = trimmed
    <3>1. /\ unread' = unread \ {m} /\ trimmed' = trimmed
          /\ \A n \in Pending \ {m} : n \in Pending' /\ pel'[n] = pel[n]
      BY <2>2 DEF XREADGROUP, Pending
    <3>2. Working(w)' /\ msg'[w] = m
      BY <2>2 DEF StartJob, Goto, Working, JobSteps, TrySteps, TypeOK, WorkerTypeOK
    <3> QED
      BY <1>1, <2>1, <3>1, <3>2, KeptDelivered
  <2>3. CASE UNCHANGED streamVars /\ (Goto(w, "low") \/ Goto(w, "loop"))
    <3>1. ~ Working(w)'
      BY <2>3 DEF Goto, Working, JobSteps, TrySteps, ErrorSteps, TypeOK, WorkerTypeOK
    <3> QED
      BY <1>1, <2>1, <2>3, <3>1, KeptLeft DEF streamVars, Pending
  <2> QED
    BY <1>3, <2>2, <2>3 DEF ReadStep, ReadHigh, ReadLow
<1>4. CASE Return(w) \/ Raise(w)
  <2>1. /\ Working(w) /\ pc[w] \in {"return", "raise"} /\ ~ Working(w)'
    BY <1>4 DEF Return, Raise, LeaveJob, Goto, Working, JobSteps, TrySteps, ErrorSteps, TypeOK,
      WorkerTypeOK
  <2>2. \A m \in Pending : Abandoned(m) => m # msg[w]
    BY <2>1 DEF Abandoned
  <2>3. /\ unread' = unread /\ trimmed' = trimmed
        /\ \A m \in Pending \ {msg[w]} : m \in Pending' /\ pel'[m] = pel[m]
    <3>1. CASE XACKandXTRIM(msg[w])
      BY <1>1, <3>1, NoTrims DEF Keeping, XACKandXTRIM, Acked, Pending
    <3>2. CASE XACK(msg[w]) \/ UNCHANGED streamVars
      BY <3>2 DEF XACK, Acked, streamVars, Pending
    <3> QED
      BY <1>4, <3>1, <3>2 DEF Return, Raise
  <2> QED
    BY <1>1, <2>1, <2>2, <2>3, KeptLeft
<1>5. CASE Crash(w)
  <2>1. "crash" \in Faults /\ trimmed' = trimmed
    BY <1>5 DEF Crash, streamVars
  <2> QED
    BY <1>1, <1>5, <2>1, KeptCrash
<1> QED
  BY <1>2, <1>3, <1>4, <1>5, KeptInspection DEF LoopStep, ScanStep

(* No step of the loop trims a stream.                                         *)
LEMMA LoopTrimsNothing ==
  ASSUME Keeping, TypeOK, KeptInv, NEW w \in Workers, LoopStep(w)
  PROVE  trimmed' = trimmed
<1>1. Len(log) \in Nat /\ Len(log) <= MaxLog
  BY DEF KeptInv, TypeOK, StreamTypeOK
<1>2. CASE Return(w) \/ Raise(w)
  <2>1. CASE XACKandXTRIM(msg[w])
    BY <1>1, <2>1, NoTrims DEF Keeping, XACKandXTRIM
  <2> QED
    BY <1>2, <2>1 DEF Return, Raise, XACK, streamVars
<1> QED
  BY <1>2 DEF LoopStep, ScanStep, ReadStep, ReadHigh, ReadLow, XREADGROUP, Start, PeriodicScan, Scan,
    ScanAborted, ScanDone, DeadLetter, ClaimNothing, Claim, AckOrphan, XACK, XCLAIM, Crash,
    streamVars

(* The loop.                                                                   *)
LEMMA KeptLoop ==
  ASSUME Keeping, TypeOK, SnapshotsLag, ClaimBudget, KeptInv,
         "crash" \in Faults => Exclusive /\ FirstHands,
         NEW w \in Workers, LoopStep(w)
  PROVE  KeptInv'
<1>1. /\ UNCHANGED <<apiVars, storeVars, log>>
      /\ \A v \in Workers \ {w} : pc'[v] = pc[v] /\ msg'[v] = msg[v] /\ count'[v] = count[v]
      /\ Working(w)' => pc'[w] = "begin"
  BY LoopStepIs
<1>2. pc'[w] \notin PdfSteps \cup {"requeueAdd", "pass1Done"}
  BY <1>1 DEF PdfSteps, Working, JobSteps, TrySteps, ErrorSteps
<1>3. \A v \in Workers : pc'[v] \notin PdfSteps
  <2> SUFFICES ASSUME NEW v \in Workers, pc'[v] \in PdfSteps PROVE FALSE
    OBVIOUS
  <2>1. v # w /\ pc[v] \in PdfSteps
    BY <1>1, <1>2
  <2>2. Working(v)
    BY <2>1 DEF PdfSteps, Working, JobSteps, TrySteps
  <2>3. Kind[File(v)] = "pdf" /\ File(v) \in Files
    BY <2>1, <2>2, JobType DEF KeptInv
  <2> QED
    BY <2>1, <2>3 DEF Keeping
<1>4. \A v \in Workers : pc'[v] = "requeueAdd" => count'[v] <= MaxRetries + 1
  BY <1>1, <1>2 DEF KeptInv
<1>5. \A v \in Workers : pc'[v] # "pass1Done"
  BY <1>3 DEF PdfSteps
<1>6. \A f \in Files : Unfinished(f)' => Kept(f)'
  BY <1>1, KeptLoopFile DEF Unfinished, storeVars, apiVars
<1> QED
  BY <1>1, <1>3, <1>4, <1>5, <1>6, LoopTrimsNothing DEF KeptInv, Ids

(* Every step.                                                                 *)
LEMMA KeptStep ==
  ASSUME Keeping
  PROVE  /\ TypeOK /\ SnapshotsLag /\ ClaimBudget /\ RetryInv /\ KeptInv
         /\ ("crash" \in Faults => Exclusive /\ FirstHands)
         /\ [Next]_vars
         => KeptInv'
<1> SUFFICES ASSUME TypeOK, SnapshotsLag, ClaimBudget, RetryInv, KeptInv,
                    "crash" \in Faults => Exclusive /\ FirstHands, [Next]_vars
             PROVE  KeptInv'
  OBVIOUS
<1>1. CASE UNCHANGED <<log, unread, pel, trimmed, storeVars, apiVars, workerVars>>
  BY <1>1 DEF KeptInv, Unfinished, Kept, Awaited, Active, Abandoned, On, Working, File, Job, Ids,
    Pending, storeVars, apiVars, workerVars
<1>2. CASE \E f \in Files : APIStep(f) /\ UNCHANGED workerVars
  BY <1>2, KeptAPI
<1>3. CASE \E w \in Workers : WorkerStep(w)
  BY <1>3, WorkerStepIs, KeptLoop, KeptProcess
<1> QED
  BY <1>1, <1>2, <1>3 DEF Next, BecomeIdle, vars, streamVars

(* The invariant holds throughout.                                             *)
LEMMA KeptAlways ==
  ASSUME Keeping
  PROVE  Spec => []KeptInv
<1>1. Init => UploadsComeFirst /\ RetryInv /\ ClaimBudget /\ SnapshotsLag /\ KeptInv
              /\ Exclusive /\ FirstHands
  <2> SUFFICES ASSUME Init PROVE UploadsComeFirst /\ RetryInv /\ ClaimBudget /\ SnapshotsLag
                                 /\ KeptInv /\ Exclusive /\ FirstHands
    OBVIOUS
  <2>1. \A w \in Workers : pc[w] = "down" /\ todo[w] = {} /\ ~ Working(w)
    BY DEF Init, WorkerInit, Working, JobSteps, TrySteps, ErrorSteps
  <2>2. Ids = {} /\ unread = {} /\ Pending = {} /\ row = {} /\ trimmed = {} /\ Len(log) = 0
    BY DEF Init, StreamInit, StoreInit, Ids, Pending
  <2>3. \A f \in Files : reproc[f].step = "none"
    BY DEF Init, APIInit, NoReprocess
  <2> QED
    BY <2>1, <2>2, <2>3, StreamAssumption DEF UploadsComeFirst, RetryInv, Holds, ClaimBudget,
      SnapshotsLag, KeptInv, PdfSteps, Unfinished, Exclusive, OneWorkerPerMessage, FirstHands
<1>2. FewWorkers /\ "redis" \notin Faults
  BY DEF Keeping
<1>3. CASE "slow" \notin Faults
  BY <1>1, <1>2, <1>3, TypeCorrect, NothingResurrected, UploadsFirstStep, CountsStep,
    BudgetStep, LagStep, ExclusiveStep, FirstHandsStep, KeptStep, PTL DEF Spec
<1>4. CASE "slow" \in Faults
  <2>1. "crash" \notin Faults
    BY <1>4 DEF Keeping
  <2>2. TypeOK /\ SnapshotsLag /\ ClaimBudget /\ RetryInv /\ KeptInv /\ [Next]_vars => KeptInv'
    BY <2>1, KeptStep
  <2> QED
    BY <1>1, <1>2, <2>2, TypeCorrect, NothingResurrected, UploadsFirstStep, CountsStep,
      BudgetStep, LagStep, PTL DEF Spec
<1> QED
  BY <1>3, <1>4

(* No accepted file is forgotten: as long as its status is not settled, a job  *)
(* of it is in the streams or in the hands of a worker, or the request that    *)
(* adds one is under way.  This holds for any number of files and requests     *)
(* under the hypotheses of Keeping, and rests on the order of the calls in     *)
(* process_job, requeue_job and _process_pdf_progressive: the next job is      *)
(* added, or the outcome written, before the message is acknowledged.          *)
THEOREM NothingForgotten ==
  ASSUME Keeping
  PROVE  Spec => []NoFileForgotten
<1>1. KeptInv => NoFileForgotten
  <2> SUFFICES ASSUME KeptInv, NEW f \in Files, Unsettled(f)
               PROVE  Owed(f) \/ reproc[f].step # "none"
    BY DEF NoFileForgotten
  <2>1. Kept(f) /\ upload[f] = "done"
    BY DEF KeptInv, Unsettled, Unfinished
  <2> QED
    BY <2>1 DEF Kept, Awaited, Active, On, Owed, Outstanding, Busy
<1> QED
  BY <1>1, KeptAlways, PTL

------------------------------------------------------------------------------
(* The promise of IngestService: every step of the service is one of its steps *)
(* or none, as long as nobody cancels, deletes or reprocesses a file and no    *)
(* two files have the same content.                                            *)
Serving ==
  /\ Keeping
  /\ MaxReprocess = 0 /\ MaxCancels = 0 /\ Deletable = {}
  /\ \A f, g \in Files : Hash[f] = Hash[g] => f = g

(* Then every request but the upload is out of the question, and a file has    *)
(* jobs from the end of its upload on.                                         *)
ServeInv ==
  /\ \A f \in Files :
       /\ reproc[f].step = "none" /\ deletion[f] = "none" /\ canceling[f] = "none"
       /\ upload[f] \notin {"dup", "dupCreated"}
       /\ upload[f] \in {"created", "createdForced"} => f \in row /\ stage[f] = "queued"
       /\ upload[f] = "done" => f \in row
  /\ \A m \in Ids : upload[log[m].file] = "done"

(* A step of the service in which the status and the work owed of one file     *)
(* change together.                                                            *)
LEMMA ServiceStep ==
  ASSUME NEW f \in Files,
         \A g \in Files \ {f} : Status(g)' = Status(g) /\ (Owed(g)' <=> Owed(g)),
         \/ Status(f)' = Status(f) /\ (Owed(f)' <=> Owed(f))
         \/ Status(f) = "unknown" /\ Status(f)' = "accepted" /\ Owed(f)'
         \/ Status(f) = "unknown" /\ Status(f)' = "settled" /\ (Owed(f)' <=> Owed(f))
         \/ Status(f) = "accepted" /\ Status(f)' = "settled" /\ Owed(f) /\ Owed(f)'
         \/ Status(f) = "settled" /\ Status(f)' = "accepted" /\ Owed(f) /\ Owed(f)'
         \/ Status(f) = "settled" /\ Status(f)' = "settled" /\ Owed(f) /\ ~ Owed(f)'
  PROVE  [Service!ServiceNext]_(Service!serviceVars)
<1> DEFINE state == [g \in Files |-> Status(g)]
           owed  == {g \in Files : Owed(g)}
<1>1. state' = [state EXCEPT ![f] = Status(f)'] /\ state[f] = Status(f)
  <2>1. state' = [g \in Files |-> Status(g)']
    OBVIOUS
  <2>2. \A g \in Files : Status(g)' = IF g = f THEN Status(f)' ELSE Status(g)
    OBVIOUS
  <2> QED
    BY <2>1, <2>2
<1>2. /\ Owed(f)' => owed' = owed \cup {f}
      /\ ~ Owed(f)' => owed' = owed \ {f}
      /\ f \in owed <=> Owed(f)
  <2>1. owed' = {g \in Files : Owed(g)'}
    OBVIOUS
  <2> QED
    BY <2>1
<1>3. (Owed(f)' <=> Owed(f)) => owed' = owed
  BY <1>2
<1>4. CASE Status(f)' = Status(f) /\ (Owed(f)' <=> Owed(f))
  <2>1. state' = state
    BY <1>1, <1>4
  <2> HIDE DEF state, owed
  <2> QED
    BY <1>3, <1>4, <2>1 DEF Service!serviceVars, state, owed
<1>5. CASE Status(f) = "unknown" /\ Status(f)' = "accepted" /\ Owed(f)'
  <2>1. Service!Accept(f)
    BY <1>1, <1>2, <1>5 DEF Service!Accept, Service!Become
  <2> QED
    BY <2>1 DEF Service!ServiceNext
<1>6. CASE Status(f) = "unknown" /\ Status(f)' = "settled" /\ (Owed(f)' <=> Owed(f))
  <2>1. Service!AcceptDone(f)
    BY <1>1, <1>3, <1>6 DEF Service!AcceptDone, Service!Become
  <2> QED
    BY <2>1 DEF Service!ServiceNext
<1>7. CASE Status(f) = "accepted" /\ Status(f)' = "settled" /\ Owed(f) /\ Owed(f)'
  <2>1. Service!Settle(f)
    BY <1>1, <1>2, <1>3, <1>7 DEF Service!Settle, Service!Become
  <2> QED
    BY <2>1 DEF Service!ServiceNext
<1>8. CASE Status(f) = "settled" /\ Status(f)' = "accepted" /\ Owed(f) /\ Owed(f)'
  <2>1. Service!Reopen(f)
    BY <1>1, <1>2, <1>3, <1>8 DEF Service!Reopen, Service!Become
  <2> QED
    BY <2>1 DEF Service!ServiceNext
<1>9. CASE Status(f) = "settled" /\ Status(f)' = "settled" /\ Owed(f) /\ ~ Owed(f)'
  <2>1. state' = state
    BY <1>1, <1>9
  <2>2. Service!Close(f)
    BY <1>1, <1>2, <1>9, <2>1 DEF Service!Close
  <2> QED
    BY <2>2 DEF Service!ServiceNext
<1> QED
  BY <1>4, <1>5, <1>6, <1>7, <1>8, <1>9

(* A step of the pipeline that the service does not see.                       *)
LEMMA ServiceSame ==
  ASSUME \A g \in Files : Status(g)' = Status(g) /\ (Owed(g)' <=> Owed(g))
  PROVE  UNCHANGED Service!serviceVars
<1>1. [g \in Files |-> Status(g)]' = [g \in Files |-> Status(g)]
  OBVIOUS
<1>2. {g \in Files : Owed(g)}' = {g \in Files : Owed(g)}
  OBVIOUS
<1> QED
  BY <1>1, <1>2 DEF Service!serviceVars

(* What is owed while the workers keep their messages.                         *)
LEMMA OwedSame ==
  ASSUME TypeOK, Adds(Jobs), NEW g \in Files, upload'[g] = upload[g],
         Outstanding(g)' = Outstanding(g),
         \A w \in Workers : Working(w)' = Working(w) /\ msg'[w] = msg[w]
  PROVE  Owed(g)' <=> Owed(g)
<1>1. Busy(g)' <=> Busy(g)
  BY JobStays DEF Busy
<1> QED
  BY <1>1 DEF Owed

(* A job that is added is outstanding for its own file only.                   *)
LEMMA XADDOutstanding ==
  ASSUME MaxLen >= MaxLog, TypeOK, NEW job \in Jobs, XADD(job), NEW g \in Files, g # job.file
  PROVE  Outstanding(g)' = Outstanding(g)
<1>1. /\ log' = Append(log, job) /\ unread' = unread \cup {Len(log')} /\ Pending' = Pending
      /\ Len(log') = Len(log) + 1 /\ Len(log) \in Nat
  BY XADDKeeps, XADDType DEF TypeOK, StreamTypeOK, Pending
<1>2. log'[Len(log')] = job /\ \A m \in Ids : log'[m] = log[m]
  BY <1>1 DEF TypeOK, StreamTypeOK, Ids
<1>3. unread \cup Pending \subseteq Ids
  BY DEF TypeOK, StreamTypeOK
<1> QED
  BY <1>1, <1>2, <1>3 DEF Outstanding

(* Files whose upload is not done have no jobs.                                *)
LEMMA NothingOwedBefore ==
  ASSUME TypeOK, ServeInv, NEW f \in Files, upload[f] # "done"
  PROVE  ~ Owed(f) /\ Outstanding(f) = {} /\ ~ Busy(f)
<1>1. unread \cup Pending \subseteq Ids
  BY DEF TypeOK, StreamTypeOK
<1>2. ~ Busy(f)
  BY JobType DEF Busy, ServeInv, File, Job
<1> QED
  BY <1>1, <1>2 DEF Owed, Outstanding, ServeInv

(* The requests.                                                               *)
LEMMA ServeAPI ==
  ASSUME Serving, TypeOK, UploadsComeFirst, ServeInv, NEW f \in Files, APIStep(f),
         UNCHANGED workerVars
  PROVE  ServeInv' /\ [Service!ServiceNext]_(Service!serviceVars)
<1>0. \A w \in Workers : Working(w)' = Working(w) /\ msg'[w] = msg[w]
  BY DEF workerVars, Working
<1>1. \/ UploadCheckDuplicate(f) \/ UploadForced(f) \/ UploadCreate(f) \/ UploadMedia(f)
      \/ UploadEnqueue(f) \/ CancelExpire(f)
  <2>1. ~ UploadReuse(f) /\ ~ UploadTrigger(f)
    BY DEF UploadReuse, UploadTrigger, ServeInv
  <2>2. ~ Reprocess(f) /\ ~ CancelRead(f) /\ ~ Delete(f)
    <3>1. reprocs \in Nat /\ cancels \in Nat
      BY DEF TypeOK, APITypeOK
    <3>2. MaxReprocess = 0 /\ MaxCancels = 0 /\ Deletable = {}
      BY DEF Serving
    <3> QED
      BY <3>1, <3>2 DEF Reprocess, CancelRead, Delete
  <2>3. ~ ReprocessStep(f)
    BY DEF ReprocessStep, ReprocessVectors, ReprocessStatus, ReprocessEnqueue, ServeInv
  <2>4. ~ CancelStep(f) /\ ~ DeleteStep(f)
    BY DEF CancelStep, CancelFlag, CancelWrite, DeleteStep, DeleteVectorsStep, DeleteRow, ServeInv
  <2> QED
    BY <2>1, <2>2, <2>3, <2>4 DEF APIStep, UploadStep
<1>2. CASE UploadCheckDuplicate(f) \/ UploadForced(f)
  <2>1. upload[f] = "none" /\ f \notin row
    BY <1>2 DEF UploadCheckDuplicate, UploadForced, UploadsComeFirst, Early
  <2>2. Twins(f) = {}
    BY <2>1 DEF Twins, Serving, TypeOK, StoreTypeOK
  <2>3. UNCHANGED <<row, stage>>
    <3>1. CASE UploadCheckDuplicate(f)
      <4>1. DeleteRows({})
        BY <3>1, <2>2 DEF UploadCheckDuplicate, FullyCompleted
      <4> QED
        BY <4>1 DEF DeleteRows, TypeOK, StoreTypeOK
    <3>2. CASE UploadForced(f)
      BY <3>2 DEF UploadForced, storeVars
    <3> QED
      BY <1>2, <3>1, <3>2
  <2>4. /\ upload' = [upload EXCEPT ![f] = "new"] \/ upload' = [upload EXCEPT ![f] = "newForced"]
        /\ UNCHANGED <<streamVars, reproc, deletion, canceling>>
    BY <1>2, <2>2 DEF UploadCheckDuplicate, FullyCompleted, UploadForced, SetUpload
  <2>5. /\ upload'[f] \in {"new", "newForced"}
        /\ \A g \in Files \ {f} : upload'[g] = upload[g]
    BY <2>4 DEF TypeOK, APITypeOK
  <2>6. ServeInv'
    <3>1. \A m \in Ids : log[m].file # f /\ log[m].file \in Files
      BY <2>1, JobsTyped DEF ServeInv
    <3> QED
      BY <2>3, <2>4, <2>5, <3>1 DEF ServeInv, streamVars, Ids
  <2>7. \A g \in Files : Status(g)' = Status(g) /\ (Owed(g)' <=> Owed(g))
    <3>1. \A g \in Files \ {f} : Owed(g)' <=> Owed(g)
      BY <1>0, <2>4, <2>5, OwedSame DEF Adds, streamVars, Outstanding, Pending
    <3>2. ~ Owed(f) /\ ~ Owed(f)'
      BY <2>1, <2>5 DEF Owed
    <3>3. \A g \in Files : Status(g)' = Status(g)
      BY <2>1, <2>3, <2>5 DEF Status
    <3> QED
      BY <3>1, <3>2, <3>3
  <2> QED
    BY <2>6, <2>7, ServiceStep
<1>3. CASE UploadCreate(f)
  <2>1. upload[f] \in Early /\ UNCHANGED <<streamVars, reproc, deletion, canceling>>
    BY <1>3 DEF UploadCreate, Early
  <2>2. /\ row' = row \cup {f} /\ stage'[f] = "queued"
        /\ upload'[f] \in {"created", "createdForced"}
        /\ \A g \in Files \ {f} : stage'[g] = stage[g] /\ upload'[g] = upload[g]
    BY <1>3 DEF UploadCreate, CreateRow, SetStage, SetUpload, TypeOK, StoreTypeOK, APITypeOK
  <2>3. ServeInv'
    <3>1. \A m \in Ids : log[m].file # f /\ log[m].file \in Files
      BY <2>1, JobsTyped DEF ServeInv, Early
    <3> QED
      BY <2>1, <2>2, <3>1 DEF ServeInv, streamVars, Ids
  <2>4. \A g \in Files : Status(g)' = Status(g) /\ (Owed(g)' <=> Owed(g))
    <3>1. \A g \in Files \ {f} : Owed(g)' <=> Owed(g)
      BY <1>0, <2>1, <2>2, OwedSame DEF Adds, streamVars, Outstanding, Pending
    <3>2. ~ Owed(f) /\ ~ Owed(f)' /\ Status(f) = "unknown" /\ Status(f)' = "unknown"
      BY <2>1, <2>2 DEF Owed, Status, Early
    <3>3. \A g \in Files \ {f} : Status(g)' = Status(g)
      BY <2>2 DEF Status
    <3> QED
      BY <3>1, <3>2, <3>3
  <2> QED
    BY <2>3, <2>4, ServiceStep
<1>4. CASE UploadMedia(f) \/ UploadEnqueue(f)
  <2>1. upload[f] \in {"created", "createdForced"} /\ f \in row /\ stage[f] = "queued"
    BY <1>4 DEF UploadMedia, UploadEnqueue, ServeInv
  <2>2. /\ upload'[f] = "done" /\ UNCHANGED <<row, reproc, deletion, canceling>>
        /\ \A g \in Files \ {f} : stage'[g] = stage[g] /\ upload'[g] = upload[g]
    BY <1>4 DEF UploadMedia, UploadEnqueue, SetUpload, SetStageIfRow, SetStage, storeVars, TypeOK,
      StoreTypeOK, APITypeOK
  <2>3. CASE UploadMedia(f)
    <3>1. UNCHANGED streamVars /\ stage'[f] = "completed"
      BY <2>1, <2>3 DEF UploadMedia, SetStageIfRow, SetStage, Serving, Keeping, TypeOK, StoreTypeOK
    <3>2. ServeInv'
      <4>1. \A m \in Ids : log[m].file \in Files
        BY JobsTyped
      <4> QED
        BY <2>2, <3>1, <2>1, <4>1 DEF ServeInv, streamVars, Ids
    <3>3. \A g \in Files \ {f} : Status(g)' = Status(g) /\ (Owed(g)' <=> Owed(g))
      BY <1>0, <2>2, <3>1, OwedSame DEF Adds, streamVars, Outstanding, Pending, Status
    <3>4. Status(f) = "unknown" /\ Status(f)' = "settled"
      BY <2>1, <2>2, <3>1 DEF Status, Settled
    <3>5. ~ Owed(f) /\ ~ Owed(f)'
      <4>1. Outstanding(f) = {} /\ ~ Busy(f) /\ ~ Owed(f)
        BY <2>1, NothingOwedBefore
      <4>2. Outstanding(f)' = {} /\ ~ Busy(f)'
        BY <1>0, <3>1, <4>1 DEF Outstanding, Busy, streamVars, Pending, Working, File, Job
      <4> QED
        BY <4>1, <4>2 DEF Owed
    <3> QED
      BY <3>2, <3>3, <3>4, <3>5, ServiceStep
  <2>4. CASE UploadEnqueue(f)
    <3>1. PICK job \in Jobs : XADD(job) /\ job.file = f
      BY <2>4, APIJobs DEF UploadEnqueue, UploadJob, Serving, Keeping
    <3>2. /\ log' = Append(log, job) /\ Awaited(f)' /\ UNCHANGED stage
      BY <2>4, <3>1, XADDKeeps DEF UploadEnqueue, storeVars, Serving, Keeping
    <3>3. Adds(Jobs)
      BY <3>1, <3>2 DEF Adds
    <3>4. ServeInv'
      <4>1. \A m \in Ids' : log'[m].file = f \/ (m \in Ids /\ log'[m] = log[m])
        <5>1. log' = Append(log, job) /\ log \in Seq(Jobs) /\ job.file = f
          BY <3>1, <3>2 DEF TypeOK, StreamTypeOK
        <5> QED
          BY <5>1 DEF Ids
      <4>2. \A m \in Ids : log[m].file \in Files
        BY JobsTyped
      <4>3. \A m \in Ids' : upload'[log'[m].file] = "done"
        <5>1. \A m \in Ids : upload[log[m].file] = "done"
          BY DEF ServeInv
        <5>2. \A g \in Files : upload[g] = "done" => upload'[g] = "done"
          BY <2>2
        <5> QED
          BY <2>2, <4>1, <4>2, <5>1, <5>2
      <4>4. \A g \in Files :
              /\ reproc'[g].step = "none" /\ deletion'[g] = "none" /\ canceling'[g] = "none"
              /\ upload'[g] \notin {"dup", "dupCreated"}
              /\ upload'[g] \in {"created", "createdForced"} => g \in row' /\ stage'[g] = "queued"
              /\ upload'[g] = "done" => g \in row'
        BY <2>1, <2>2, <3>2 DEF ServeInv
      <4> QED
        BY <4>3, <4>4 DEF ServeInv
    <3>5. \A g \in Files \ {f} : Status(g)' = Status(g) /\ (Owed(g)' <=> Owed(g))
      <4>1. \A g \in Files \ {f} : Outstanding(g)' = Outstanding(g)
        BY <3>1, XADDOutstanding DEF Serving, Keeping
      <4> QED
        BY <1>0, <2>2, <3>3, <4>1, OwedSame DEF Status
    <3>6. Status(f) = "unknown" /\ Status(f)' = "accepted"
      BY <2>1, <2>2, <3>2 DEF Status, Settled
    <3>7. Owed(f)'
      BY <2>2, <3>2 DEF Awaited, Owed, Outstanding
    <3> QED
      BY <3>4, <3>5, <3>6, <3>7, ServiceStep
  <2> QED
    BY <1>4, <2>3, <2>4
<1>5. CASE CancelExpire(f)
  <2>1. UNCHANGED <<streamVars, row, stage, apiVars>>
    BY <1>5 DEF CancelExpire, dbVars
  <2>2. ServeInv'
    BY <2>1 DEF ServeInv, streamVars, apiVars, Ids
  <2>3. \A g \in Files : Status(g)' = Status(g) /\ (Owed(g)' <=> Owed(g))
    BY <1>0, <2>1, OwedSame DEF Adds, streamVars, apiVars, Outstanding, Pending, Status
  <2> QED
    BY <2>2, <2>3, ServiceStep
<1> QED
  BY <1>1, <1>2, <1>3, <1>4, <1>5

(* process_job settles or reopens the file of the job, which is owed.          *)
LEMMA ServeProcess ==
  ASSUME Serving, TypeOK, KeptInv, ServeInv, NEW w \in Workers, ProcessStep(w)
  PROVE  ServeInv' /\ [Service!ServiceNext]_(Service!serviceVars)
<1>1. /\ Working(w) /\ Working(w)' /\ UNCHANGED <<msg, apiVars, row>>
      /\ \A v \in Workers \ {w} : pc'[v] = pc[v]
  BY ProcessStepIs, ProcessStepMoves, ProcessStepRow DEF Working, TypeOK, WorkerTypeOK
<1>2. Adds(Jobs) /\ Keeping
  BY KeptAdds DEF Serving
<1>3. PICK f \in Files : f = File(w) /\ f = File(w)'
  BY <1>1, <1>2, JobType, JobStays
<1>4. upload[f] = "done" /\ f \in row /\ Job(w) \in Jobs /\ count[w] \in Nat
  <2>1. msg[w] \in Ids /\ Job(w) \in Jobs /\ log[msg[w]].file = f
    BY <1>1, <1>3, JobType DEF File, Job
  <2>2. upload[f] = "done" /\ f \in row
    BY <2>1 DEF ServeInv
  <2>3. count[w] \in Nat
    BY DEF TypeOK, WorkerTypeOK
  <2> QED
    BY <2>1, <2>2, <2>3
<1>5. \A v \in Workers : Working(v)' = Working(v) /\ msg'[v] = msg[v]
  BY <1>1 DEF Working
<1>6. UNCHANGED streamVars \/ \E job \in Jobs : XADD(job) /\ job.file = f
  <2>1. CASE EnqueuePass2(w)
    <3>1. XADD(Pass2Job(Job(w)))
      BY <1>2, <2>1 DEF EnqueuePass2, Keeping
    <3>2. Pass2Job(Job(w)) \in Jobs /\ Pass2Job(Job(w)).file = f
      BY <1>3, <1>4, WorkerJobs DEF Pass2Job, File
    <3> QED
      BY <3>1, <3>2
  <2>2. CASE RequeueAdd(w)
    <3>1. XADD(RetryJob(Job(w), count[w]))
      BY <1>2, <2>2 DEF RequeueAdd, Keeping
    <3>2. RetryJob(Job(w), count[w]) \in Jobs /\ RetryJob(Job(w), count[w]).file = f
      BY <1>3, <1>4, WorkerJobs DEF RetryJob, File, Jobs
    <3> QED
      BY <3>1, <3>2
  <2>3. CASE ~ EnqueuePass2(w) /\ ~ RequeueAdd(w)
    <3>1. CASE StatusStep(w)
      BY <3>1, StatusStepIs DEF StatusOnly, streamVars
    <3>2. CASE ~ StatusStep(w)
      BY <2>3, <3>2 DEF ProcessStep, PipelineStep, StatusStep, ErrorStep, Begin, Duplicate, Load,
        Store, Markdown, AppendVectors, Pass1, Pass2, Replace, MarkdownAgain, RecordMarkdown, Fail,
        ShouldRetry, RequeueCount, Requeue, MarkFailed
    <3> QED
      BY <3>1, <3>2
  <2> QED
    BY <2>1, <2>2, <2>3
<1>7. \A g \in Files \ {f} : Outstanding(g)' = Outstanding(g)
  <2>1. CASE UNCHANGED streamVars
    BY <2>1 DEF streamVars, Outstanding, Pending
  <2>2. CASE \E job \in Jobs : XADD(job) /\ job.file = f
    BY <1>2, <2>2, XADDOutstanding DEF Keeping
  <2> QED
    BY <1>6, <2>1, <2>2
<1>8. \A g \in Files \ {f} : Status(g)' = Status(g) /\ (Owed(g)' <=> Owed(g))
  <2>1. \A g \in Files \ {f} : stage'[g] = stage[g] /\ upload'[g] = upload[g]
    BY <1>1, <1>3, StageOfOne DEF apiVars
  <2> QED
    BY <1>1, <1>2, <1>5, <1>7, <2>1, OwedSame DEF Status
<1>9. Owed(f) /\ Owed(f)'
  BY <1>1, <1>3, <1>4 DEF Owed, Busy, apiVars
<1>10. Status(f) \in {"accepted", "settled"} /\ Status(f)' \in {"accepted", "settled"}
  BY <1>1, <1>4 DEF Status, apiVars
<1>11. ServeInv'
  <2>1. \A m \in Ids' : log'[m].file = f \/ (m \in Ids /\ log'[m] = log[m])
    <3>1. CASE UNCHANGED streamVars
      BY <3>1 DEF streamVars, Ids
    <3>2. CASE \E job \in Jobs : XADD(job) /\ job.file = f
      BY <3>2 DEF XADD, TypeOK, StreamTypeOK, Ids
    <3> QED
      BY <1>6, <3>1, <3>2
  <2>2. \A g \in Files : upload[g] # "done" => g # f /\ stage'[g] = stage[g]
    BY <1>3, <1>4, StageOfOne
  <2> QED
    BY <1>1, <1>4, <2>1, <2>2 DEF ServeInv, apiVars
<1> QED
  BY <1>8, <1>9, <1>10, <1>11, ServiceStep

(* The loop takes a message and its file from the streams to a worker, or      *)
(* drops them: then the file is settled, or it would be forgotten.             *)
LEMMA LoopMoves ==
  ASSUME Serving, TypeOK, KeptInv, NEW w \in Workers, LoopStep(w)
  PROVE  \E m : /\ (unread \cup Pending)' \subseteq unread \cup Pending
                /\ (unread \cup Pending) \ {m} \subseteq (unread \cup Pending)'
                /\ Working(w) => msg[w] = m /\ ~ Working(w)'
                /\ Working(w)' => msg'[w] = m /\ m \in unread \cup Pending
<1>1. trimmed = {} /\ Len(log) \in Nat /\ Len(log) <= MaxLog /\ Keeping
  BY DEF KeptInv, Serving, TypeOK, StreamTypeOK
<1>2. CASE Start(w) \/ PeriodicScan(w) \/ ScanAborted(w) \/ ScanDone(w)
  BY <1>2, ZenonT(40) DEF Start, PeriodicScan, Scan, ScanAborted, ScanDone, Goto, Working, JobSteps, TrySteps,
    ErrorSteps, ScanSteps, streamVars, Pending, TypeOK, WorkerTypeOK
<1>3. CASE ReadStep(w)
  <2>1. ~ Working(w)
    BY <1>3 DEF ReadStep, ReadHigh, ReadLow, Working, JobSteps, TrySteps, ErrorSteps
  <2>2. ASSUME NEW s, NEW m, XREADGROUP(s, m), StartJob(w, m, FALSE)
        PROVE  /\ (unread \cup Pending)' \subseteq unread \cup Pending
               /\ (unread \cup Pending) \ {m} \subseteq (unread \cup Pending)'
               /\ msg'[w] = m /\ m \in unread \cup Pending
    BY <2>2 DEF XREADGROUP, Oldest, Unread, Pending, StartJob, TypeOK, WorkerTypeOK
  <2>3. CASE UNCHANGED streamVars /\ (Goto(w, "low") \/ Goto(w, "loop"))
    BY <2>1, <2>3, ZenonT(40) DEF streamVars, Pending, Goto, Working, JobSteps, TrySteps, ErrorSteps, TypeOK,
      WorkerTypeOK
  <2> QED
    BY <1>3, <2>1, <2>2, <2>3 DEF ReadStep, ReadHigh, ReadLow
<1>4. ASSUME NEW t \in todo[w],
             DeadLetter(w, t) \/ ClaimNothing(w, t) \/ Claim(w, t) \/ AckOrphan(w, t)
      PROVE  /\ (unread \cup Pending)' \subseteq unread \cup Pending
             /\ (unread \cup Pending) \ {t[1]} \subseteq (unread \cup Pending)'
             /\ ~ Working(w)
             /\ Working(w)' => msg'[w] = t[1] /\ t[1] \in unread \cup Pending
  <2>1. ~ Working(w)
    BY <1>4 DEF DeadLetter, ClaimNothing, Claim, AckOrphan, Inspects, Working, JobSteps, TrySteps,
      ErrorSteps, ScanSteps
  <2>2. CASE Claim(w, t)
    BY <1>1, <2>1, <2>2 DEF Claim, XCLAIM, Pending, StartJob, Working, TypeOK, StreamTypeOK,
      WorkerTypeOK
  <2>3. CASE DeadLetter(w, t) \/ ClaimNothing(w, t) \/ AckOrphan(w, t)
    BY <1>1, <2>1, <2>3 DEF DeadLetter, ClaimNothing, AckOrphan, Keeping, XACK, Acked, streamVars,
      Pending, Working
  <2> QED
    BY <1>4, <2>2, <2>3
<1>5. CASE Return(w) \/ Raise(w)
  <2>1. Working(w) /\ ~ Working(w)'
    BY <1>5 DEF Return, Raise, LeaveJob, Goto, Working, JobSteps, TrySteps, ErrorSteps, TypeOK,
      WorkerTypeOK
  <2>2. unread' = unread /\ Pending' \subseteq Pending /\ Pending \ {msg[w]} \subseteq Pending'
    <3>1. CASE XACKandXTRIM(msg[w])
      BY <1>1, <3>1, NoTrims DEF Keeping, XACKandXTRIM, Acked, Pending
    <3>2. CASE XACK(msg[w]) \/ UNCHANGED streamVars
      BY <3>2 DEF XACK, Acked, streamVars, Pending
    <3> QED
      BY <1>5, <3>1, <3>2 DEF Return, Raise
  <2> QED
    BY <2>1, <2>2
<1>6. CASE Crash(w)
  <2>1. UNCHANGED streamVars /\ ~ Working(w)'
    BY <1>6 DEF Crash, Goto, Working, JobSteps, TrySteps, ErrorSteps, TypeOK, WorkerTypeOK
  <2> QED
    BY <2>1 DEF streamVars, Pending
<1> QED
  BY <1>2, <1>3, <1>4, <1>5, <1>6 DEF LoopStep, ScanStep

LEMMA ServeLoop ==
  ASSUME Serving, TypeOK, KeptInv, ServeInv, NoFileForgotten', NEW w \in Workers, LoopStep(w)
  PROVE  ServeInv' /\ [Service!ServiceNext]_(Service!serviceVars)
<1>1. /\ UNCHANGED <<apiVars, storeVars, log>>
      /\ \A v \in Workers \ {w} : pc'[v] = pc[v] /\ msg'[v] = msg[v]
  BY LoopStepIs
<1>2. ServeInv'
  BY <1>1 DEF ServeInv, apiVars, storeVars, Ids
<1>3. \A g \in Files : Status(g)' = Status(g)
  BY <1>1 DEF Status, apiVars, storeVars
<1>4. PICK m : /\ (unread \cup Pending)' \subseteq unread \cup Pending
               /\ (unread \cup Pending) \ {m} \subseteq (unread \cup Pending)'
               /\ Working(w) => msg[w] = m /\ ~ Working(w)'
               /\ Working(w)' => msg'[w] = m /\ m \in unread \cup Pending
  BY LoopMoves
<1>5. ASSUME NEW g \in Files, m \notin Ids \/ log[m].file # g
      PROVE  Owed(g)' <=> Owed(g)
  <2>1. Outstanding(g)' = Outstanding(g)
    BY <1>1, <1>4, <1>5 DEF Outstanding, TypeOK, StreamTypeOK
  <2>2. ~ (Working(w) /\ File(w) = g)
    BY <1>4, <1>5, JobType DEF File, Job
  <2>3. ~ (Working(w)' /\ File(w)' = g)
    BY <1>1, <1>4, <1>5 DEF File, Job, TypeOK, StreamTypeOK
  <2>4. \A v \in Workers \ {w} : Working(v)' = Working(v) /\ File(v)' = File(v)
    BY <1>1 DEF Working, File, Job
  <2>5. Busy(g)' <=> Busy(g)
    BY <2>2, <2>3, <2>4 DEF Busy
  <2> QED
    BY <1>1, <2>1, <2>5 DEF Owed, apiVars
<1>6. CASE m \in Ids
  <2>1. PICK f \in Files : f = log[m].file
    BY <1>6, JobsTyped
  <2>2. upload[f] = "done" /\ f \in row /\ upload'[f] = "done" /\ reproc'[f].step = "none"
    BY <1>1, <1>2, <1>6, <2>1 DEF ServeInv, apiVars
  <2>3. Owed(f)' => Owed(f)
    <3>1. Outstanding(f)' \subseteq Outstanding(f)
      BY <1>1, <1>4 DEF Outstanding
    <3>2. Working(w)' /\ File(w)' = f => Outstanding(f) # {}
      BY <1>1, <1>4, <2>1 DEF Outstanding
    <3>3. \A v \in Workers \ {w} : Working(v)' = Working(v) /\ File(v)' = File(v)
      BY <1>1 DEF Working, File, Job
    <3> QED
      BY <2>2, <3>1, <3>2, <3>3 DEF Owed, Busy
  <2>4. ~ Owed(f)' => Status(f)' = "settled"
    BY <1>1, <2>2 DEF NoFileForgotten, Unsettled, Status, storeVars
  <2>5. \A g \in Files \ {f} : Owed(g)' <=> Owed(g)
    BY <1>5, <2>1
  <2> QED
    BY <1>2, <1>3, <2>3, <2>4, <2>5, ServiceStep
<1>7. CASE m \notin Ids
  <2>1. \A g \in Files : Status(g)' = Status(g) /\ (Owed(g)' <=> Owed(g))
    BY <1>3, <1>5, <1>7
  <2>2. UNCHANGED Service!serviceVars
    BY <2>1, ServiceSame
  <2> QED
    BY <1>2, <2>2
<1> QED
  BY <1>6, <1>7

(* Every step.                                                                 *)
LEMMA ServeStep ==
  ASSUME Serving
  PROVE  /\ TypeOK /\ UploadsComeFirst /\ KeptInv /\ NoFileForgotten' /\ ServeInv /\ [Next]_vars
         => ServeInv' /\ [Service!ServiceNext]_(Service!serviceVars)
<1> SUFFICES ASSUME TypeOK, UploadsComeFirst, KeptInv, NoFileForgotten', ServeInv, [Next]_vars
             PROVE  ServeInv' /\ [Service!ServiceNext]_(Service!serviceVars)
  OBVIOUS
<1>1. CASE UNCHANGED <<log, unread, pel, storeVars, apiVars, workerVars>>
  <2>1. ServeInv'
    BY <1>1 DEF ServeInv, storeVars, apiVars, Ids
  <2>2. \A g \in Files : Status(g)' = Status(g) /\ (Owed(g)' <=> Owed(g))
    BY <1>1 DEF Status, Owed, Outstanding, Busy, Working, File, Job, Pending, storeVars, apiVars,
      workerVars
  <2> QED
    BY <2>1, <2>2, ServiceSame
<1>2. CASE \E f \in Files : APIStep(f) /\ UNCHANGED workerVars
  BY <1>2, ServeAPI
<1>3. CASE \E w \in Workers : WorkerStep(w)
  BY <1>3, WorkerStepIs, ServeLoop, ServeProcess
<1> QED
  BY <1>1, <1>2, <1>3 DEF Next, BecomeIdle, vars, streamVars

(* The ingestion service implements the safety part of IngestService: what is  *)
(* accepted is owed work until it is settled, only work that is owed changes a *)
(* status, and work stops being owed only on a settled file.  Every call of    *)
(* upload, run and process_job is a step of IngestService or none.  The        *)
(* fairness of IngestService, that it does get settled, is left to TLC.        *)
THEOREM ServicePromiseKept ==
  ASSUME Serving
  PROVE  Spec => Service!ServiceInit /\ [][Service!ServiceNext]_(Service!serviceVars)
<1>1. Init => UploadsComeFirst /\ ServeInv
  BY DEF Init, StoreInit, APIInit, StreamInit, NoReprocess, UploadsComeFirst, ServeInv, Ids
<1>2. Init => Service!ServiceInit
  <2> SUFFICES ASSUME Init PROVE Service!ServiceInit
    OBVIOUS
  <2>1. \A f \in Files : Status(f) = "unknown" /\ ~ Owed(f)
    BY DEF Init, StoreInit, APIInit, Status, Owed
  <2> QED
    BY <2>1 DEF Service!ServiceInit
<1>3. Keeping
  BY DEF Serving
<1> QED
  BY <1>1, <1>2, <1>3, TypeCorrect, UploadsFirstStep, KeptAlways, NothingForgotten, ServeStep, PTL
    DEF Spec
==============================================================================
