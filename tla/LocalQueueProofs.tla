-------------------------- MODULE LocalQueueProofs --------------------------
(***************************************************************************)
(* Safety of LocalQueue for every number of jobs and of stops.  The        *)
(* inductive invariant says what a running batch knows that the file does  *)
(* not: its snapshot holds no removed job, and a job of the file or of the *)
(* snapshot that the batch has not handled was handled at most once for    *)
(* every stop.  Two more invariants rest on it, for the order of delivery  *)
(* and for the counters.                                                   *)
(***************************************************************************)
EXTENDS LocalQueue, FiniteSetTheorems, TLAPS

-----------------------------------------------------------------------------
(* Type correctness. *)

LEMMA NoBatchType == NoBatch \in Batch
<1>1. [last |-> None, completed |-> 0, failed |-> 0] \in State
  BY DEF State
<1> QED BY <1>1 DEF NoBatch, Batch

LEMMA InitTypeOK == Init => TypeOK
<1> SUFFICES ASSUME Init PROVE TypeOK
  OBVIOUS
<1>1. stateFile \in State
  BY DEF Init, State
<1>2. nextId \in 1..(MaxJobs + 1)
  BY BoundsAssumption DEF Init
<1>3. handled \in [Job -> Nat]
  BY DEF Init
<1> QED BY <1>1, <1>2, <1>3, NoBatchType DEF Init, TypeOK

\* PendingJobs and a limited choice of them are jobs of the file.
LEMMA PendingJobsInFile ==
  /\ PendingJobs \subseteq queueFile
  /\ \A limit : FirstOf(PendingJobs, limit) \subseteq queueFile
BY DEF PendingJobs, FirstOf

LEMMA BeginBatchType ==
  ASSUME TypeOK, NEW jobs \in SUBSET queueFile, BeginBatch(jobs),
         proc' \in {"down", "once", "up", "closing"}, isProcessing' \in BOOLEAN
  PROVE  TypeOK'
<1>1. batch' \in Batch
  <2>1. NoBatch \in Batch /\ jobs \in SUBSET Job
    BY NoBatchType DEF TypeOK
  <2> QED BY <2>1 DEF TypeOK, BeginBatch, Batch
<1> QED BY <1>1 DEF TypeOK, BeginBatch

LEMMA DownType ==
  ASSUME TypeOK, Down
  PROVE  TypeOK'
<1>1. batch' \in Batch
  BY NoBatchType DEF Down
<1>2. stops' \in Nat
  BY DEF TypeOK, Down
<1> QED BY <1>1, <1>2 DEF TypeOK, Down

LEMMA NextTypeOK == TypeOK /\ [Next]_vars => TypeOK'
<1> USE BoundsAssumption
<1> SUFFICES ASSUME TypeOK, [Next]_vars PROVE TypeOK'
  OBVIOUS
<1>1. CASE enqueue
  BY <1>1 DEF TypeOK, enqueue, Job
<1>2. CASE clear
  BY <1>2 DEF TypeOK, clear, State
<1>3. CASE processInitial
  BY <1>3, BeginBatchType, PendingJobsInFile DEF processInitial, TypeOK
<1>4. ASSUME NEW limit \in 1..2, processLimited(limit) PROVE TypeOK'
  <2>1. FirstOf(PendingJobs, limit) \in SUBSET queueFile
    BY PendingJobsInFile
  <2> QED BY <1>4, <2>1, BeginBatchType DEF processLimited, TypeOK
<1>5. CASE pollAndProcess
  BY <1>5, BeginBatchType, PendingJobsInFile DEF pollAndProcess, TypeOK
<1>6. ASSUME NEW j \in Job, NEW ok \in BOOLEAN, HandleJob(j, ok) PROVE TypeOK'
  <2>1. batch' \in Batch
    <3> DEFINE processed == IF ok THEN batch.processed + 1 ELSE batch.processed
               failures == IF ok THEN batch.failed ELSE batch.failed + 1
    <3>1. processed \in Nat /\ failures \in Nat
      BY DEF TypeOK, Batch
    <3>2. batch' = [batch EXCEPT !.todo = @ \ {j}, !.toRemove = @ \cup {j},
                                 !.lastJobId = j, !.processed = processed,
                                 !.failed = failures]
      BY <1>6 DEF HandleJob
    <3> HIDE DEF processed, failures
    <3> QED BY <3>1, <3>2 DEF TypeOK, Batch
  <2>2. handled' \in [Job -> Nat]
    BY <1>6 DEF TypeOK, HandleJob
  <2> QED BY <1>6, <2>1, <2>2 DEF TypeOK, HandleJob
<1>7. CASE RemoveProcessed
  BY <1>7 DEF TypeOK, RemoveProcessed, Batch
<1>8. CASE RecordCounts
  <2>1. stateFile' \in State
    BY <1>8 DEF TypeOK, RecordCounts, Batch, State
  <2>2. proc' \in {"down", "once", "up", "closing"}
    BY <1>8 DEF TypeOK, RecordCounts
  <2> QED BY <1>8, <2>1, <2>2, NoBatchType DEF TypeOK, RecordCounts
<1>9. CASE close
  BY <1>9 DEF TypeOK, close
<1>10. CASE ExitAfterClose
  BY <1>10, DownType DEF ExitAfterClose
<1>11. CASE Crash
  BY <1>11, DownType DEF Crash
<1>12. CASE UNCHANGED vars
  BY <1>12 DEF TypeOK, vars
<1> QED
  BY <1>1, <1>2, <1>3, <1>4, <1>5, <1>6, <1>7, <1>8, <1>9, <1>10, <1>11, <1>12
     DEF Next, Worker

\* Every variable keeps its type, for all bounds.
THEOREM TypeCorrect == Spec => []TypeOK
<1>1. Init => TypeOK
  BY InitTypeOK
<1>2. TypeOK /\ [Next]_vars => TypeOK'
  BY NextTypeOK
<1> QED BY <1>1, <1>2, PTL DEF Spec

-----------------------------------------------------------------------------
(* The inductive invariant. *)

\* Ids are given out in order: nobody knows an id from nextId on.
KnownAreCreated ==
  /\ \A j \in queueFile \cup removed \cup batch.jobs : j < nextId
  /\ \A j \in Job : j >= nextId => handled[j] = 0

\* A process that is down runs no batch.
DownRunsNoBatch == proc = "down" => phase = "none"

\* The snapshot of a running batch holds its jobs, and none that was removed.
SnapshotIsClean ==
  phase = "handling" =>
    /\ batch.todo \subseteq batch.jobs
    /\ batch.toRemove \subseteq batch.jobs
    /\ batch.todo \cap batch.toRemove = {}
    /\ batch.jobs \cap removed = {}

\* Jobs that are stored or may be written back, less those of the batch that
\* it has handled.
Pending ==
  IF phase = "handling" THEN (queueFile \cup batch.jobs) \ batch.toRemove ELSE queueFile

PendingPaidByStops == \A j \in Pending : handled[j] <= stops

IInv ==
  /\ TypeOK
  /\ KnownAreCreated
  /\ DownRunsNoBatch
  /\ SnapshotIsClean
  /\ PendingPaidByStops
  /\ RemovedStaysRemoved
  /\ RedeliveryOnlyAfterStop

LEMMA InitIInv == Init => IInv
<1> SUFFICES ASSUME Init PROVE IInv
  OBVIOUS
<1>1. TypeOK
  BY InitTypeOK
<1> QED
  BY <1>1 DEF Init, IInv, KnownAreCreated, DownRunsNoBatch, SnapshotIsClean, Pending,
              PendingPaidByStops, RemovedStaysRemoved, RedeliveryOnlyAfterStop, NoBatch, Job

LEMMA BeginBatchIInv ==
  ASSUME IInv, TypeOK', NEW jobs \in SUBSET queueFile, BeginBatch(jobs),
         phase = "none", proc' # "down"
  PROVE  IInv'
<1>1. KnownAreCreated' /\ DownRunsNoBatch' /\ SnapshotIsClean'
  BY DEF IInv, TypeOK, BeginBatch, NoBatch, KnownAreCreated, DownRunsNoBatch,
         SnapshotIsClean, RemovedStaysRemoved
<1>2. Pending' = Pending
  BY DEF BeginBatch, NoBatch, Pending
<1>3. PendingPaidByStops' /\ RemovedStaysRemoved' /\ RedeliveryOnlyAfterStop'
  BY <1>2 DEF IInv, BeginBatch, PendingPaidByStops, RemovedStaysRemoved,
              RedeliveryOnlyAfterStop
<1> QED BY <1>1, <1>3 DEF IInv

\* A stop inside a batch pays for one more delivery of every job.
LEMMA DownIInv ==
  ASSUME IInv, TypeOK', Down
  PROVE  IInv'
<1>1. KnownAreCreated' /\ DownRunsNoBatch' /\ SnapshotIsClean' /\ RemovedStaysRemoved'
  BY DEF IInv, Down, NoBatch, KnownAreCreated, DownRunsNoBatch, SnapshotIsClean,
         RemovedStaysRemoved
<1>2. RedeliveryOnlyAfterStop'
  BY DEF IInv, TypeOK, Down, RedeliveryOnlyAfterStop
<1>3. PendingPaidByStops'
  BY DEF IInv, TypeOK, Down, Pending, PendingPaidByStops, RedeliveryOnlyAfterStop
<1> QED BY <1>1, <1>2, <1>3 DEF IInv

LEMMA NextIInv == IInv /\ [Next]_vars => IInv'
<1> USE BoundsAssumption
<1> SUFFICES ASSUME IInv, [Next]_vars PROVE IInv'
  OBVIOUS
<1>0. TypeOK'
  BY NextTypeOK DEF IInv
<1> USE DEF IInv
<1>1. CASE enqueue
  <2>1. nextId \notin removed /\ handled[nextId] <= stops
    BY <1>1 DEF enqueue, KnownAreCreated, TypeOK
  <2>2. KnownAreCreated' /\ DownRunsNoBatch' /\ SnapshotIsClean'
    BY <1>1 DEF enqueue, KnownAreCreated, DownRunsNoBatch, SnapshotIsClean, TypeOK, Job
  <2>3. PendingPaidByStops'
    BY <1>1, <2>1 DEF enqueue, Pending, PendingPaidByStops
  <2>4. RemovedStaysRemoved' /\ RedeliveryOnlyAfterStop'
    BY <1>1, <2>1 DEF enqueue, RemovedStaysRemoved, RedeliveryOnlyAfterStop
  <2> QED BY <1>0, <2>2, <2>3, <2>4
<1>2. CASE clear
  BY <1>0, <1>2 DEF clear, KnownAreCreated, DownRunsNoBatch, SnapshotIsClean, Pending,
                    PendingPaidByStops, RemovedStaysRemoved, RedeliveryOnlyAfterStop
<1>3. CASE processInitial
  BY <1>0, <1>3, BeginBatchIInv, PendingJobsInFile DEF processInitial, DownRunsNoBatch
<1>4. ASSUME NEW limit \in 1..2, processLimited(limit) PROVE IInv'
  <2>1. FirstOf(PendingJobs, limit) \in SUBSET queueFile
    BY PendingJobsInFile
  <2> QED BY <1>0, <1>4, <2>1, BeginBatchIInv DEF processLimited, DownRunsNoBatch
<1>5. CASE pollAndProcess
  BY <1>0, <1>5, BeginBatchIInv, PendingJobsInFile DEF pollAndProcess
<1>6. ASSUME NEW j \in Job, NEW ok \in BOOLEAN, HandleJob(j, ok) PROVE IInv'
  <2>1. j \in Pending /\ j < nextId
    BY <1>6 DEF HandleJob, SnapshotIsClean, Pending, KnownAreCreated
  <2>2. KnownAreCreated' /\ DownRunsNoBatch' /\ SnapshotIsClean'
    BY <1>6, <2>1 DEF HandleJob, KnownAreCreated, DownRunsNoBatch, SnapshotIsClean,
                      TypeOK, Job
  <2>3. PendingPaidByStops'
    BY <1>6 DEF HandleJob, Pending, PendingPaidByStops, TypeOK
  <2>4. RemovedStaysRemoved' /\ RedeliveryOnlyAfterStop'
    BY <1>6, <2>1 DEF HandleJob, PendingPaidByStops, RemovedStaysRemoved,
                      RedeliveryOnlyAfterStop, TypeOK
  <2> QED BY <1>0, <2>2, <2>3, <2>4
<1>7. CASE RemoveProcessed
  BY <1>0, <1>7 DEF RemoveProcessed, KnownAreCreated, DownRunsNoBatch, SnapshotIsClean,
                    Pending, PendingPaidByStops, RemovedStaysRemoved,
                       RedeliveryOnlyAfterStop
<1>8. CASE RecordCounts
  BY <1>0, <1>8 DEF RecordCounts, NoBatch, KnownAreCreated, DownRunsNoBatch,
                    SnapshotIsClean,
                    Pending, PendingPaidByStops, RemovedStaysRemoved,
                       RedeliveryOnlyAfterStop
<1>9. CASE close
  BY <1>0, <1>9 DEF close, KnownAreCreated, DownRunsNoBatch, SnapshotIsClean, Pending,
                    PendingPaidByStops, RemovedStaysRemoved, RedeliveryOnlyAfterStop
<1>10. CASE ExitAfterClose
  BY <1>0, <1>10, DownIInv DEF ExitAfterClose
<1>11. CASE Crash
  BY <1>0, <1>11, DownIInv DEF Crash
<1>12. CASE UNCHANGED vars
  BY <1>0, <1>12 DEF vars, KnownAreCreated, DownRunsNoBatch, SnapshotIsClean, Pending,
                     PendingPaidByStops, RemovedStaysRemoved, RedeliveryOnlyAfterStop
<1> QED
  BY <1>1, <1>2, <1>3, <1>4, <1>5, <1>6, <1>7, <1>8, <1>9, <1>10, <1>11, <1>12
     DEF Next, Worker

\* IInv holds in every reachable state.
THEOREM Invariance == Spec => []IInv
<1>1. Init => IInv
  BY InitIInv
<1>2. IInv /\ [Next]_vars => IInv'
  BY NextIInv
<1> QED BY <1>1, <1>2, PTL DEF Spec

\* What a batch removed from queue.json never stands there again, in spite of
\* the write-back of a stale snapshot, of clear() and of every restart.
THEOREM NoResurrection == Spec => []RemovedStaysRemoved
<1>1. IInv => RemovedStaysRemoved
  BY DEF IInv
<1> QED BY <1>1, Invariance, PTL

\* No job is delivered more often than once plus once for every stop inside a
\* batch.
THEOREM AtLeastOnceBound == Spec => []RedeliveryOnlyAfterStop
<1>1. IInv => RedeliveryOnlyAfterStop
  BY DEF IInv
<1> QED BY <1>1, Invariance, PTL

-----------------------------------------------------------------------------
(* The order of delivery. *)

\* lastProcessedId names a job that has left the file, so that every reader of
\* it takes the whole file for pending.
LastIsRemoved ==
  /\ stateFile.last \in removed \cup {None}
  /\ phase = "counting" => batch.lastJobId \in removed \cup {None}

LastIsMarked == phase = "handling" => batch.lastJobId \in batch.toRemove \cup {None}

RemovedAreOlder == \A k \in removed : \A j \in queueFile : k < j

\* What a batch will write back is younger than all it has handled, and what
\* it has not chosen is younger than all it has still to do.
BatchInOrder ==
  phase = "handling" =>
    /\ \A k \in removed \cup batch.toRemove : \A j \in batch.jobs \ batch.toRemove : k < j
    /\ \A i \in batch.jobs \ (batch.toRemove \cup batch.todo) : \A j \in batch.todo : j < i

OrderInv ==
  /\ IInv
  /\ LastIsRemoved
  /\ LastIsMarked
  /\ RemovedAreOlder
  /\ BatchInOrder

\* A limited batch takes the oldest jobs.
LEMMA FirstAreOlder ==
  ASSUME NEW jobs \in SUBSET Job, NEW limit \in Nat,
         NEW i \in jobs \ FirstOf(jobs, limit), NEW j \in FirstOf(jobs, limit)
  PROVE  j < i
<1> DEFINE Before(n) == {k \in jobs : k < n}
<1>1. i \in Nat /\ j \in Nat /\ jobs \subseteq Nat
  BY BoundsAssumption DEF FirstOf, Job
<1>2. IsFiniteSet(Job)
  BY FS_Interval, BoundsAssumption DEF Job
<1>3. IsFiniteSet(Before(j)) /\ IsFiniteSet(Before(i))
  BY <1>2, FS_Subset
<1>4. Cardinality(Before(j)) \in Nat /\ Cardinality(Before(i)) \in Nat
  BY <1>3, FS_CardinalityType
<1>5. Cardinality(Before(j)) < limit /\ ~(Cardinality(Before(i)) < limit)
  BY DEF FirstOf
<1>6. ASSUME i <= j PROVE FALSE
  <2>1. \A k \in jobs : k < i => k < j
    BY <1>1, <1>6
  <2>2. Before(i) \in SUBSET Before(j)
    BY <2>1
  <2>3. Cardinality(Before(i)) <= Cardinality(Before(j))
    BY <1>3, <2>2, FS_Subset
  <2> QED BY <1>4, <1>5, <2>3
<1> QED BY <1>1, <1>6

LEMMA InitOrderInv == Init => OrderInv
<1>1. Init => IInv
  BY InitIInv
<1> QED BY <1>1 DEF Init, OrderInv, LastIsRemoved, LastIsMarked, RemovedAreOlder,
                    BatchInOrder

\* Nothing is in front of the last processed job any more.
LEMMA PendingIsFile ==
  ASSUME OrderInv
  PROVE  PendingJobs = queueFile
<1>1. None \notin queueFile
  BY BoundsAssumption DEF OrderInv, IInv, TypeOK, Job, None
<1>2. \A k \in removed : k \notin queueFile
  BY DEF OrderInv, IInv, RemovedStaysRemoved
<1>3. stateFile.last \notin queueFile
  BY <1>1, <1>2 DEF OrderInv, LastIsRemoved
<1> QED BY <1>3 DEF PendingJobs

LEMMA BeginBatchOrder ==
  ASSUME OrderInv, IInv', NEW jobs \in SUBSET queueFile, BeginBatch(jobs), phase = "none",
         \A i \in queueFile \ jobs : \A j \in jobs : j < i
  PROVE  OrderInv'
<1>1. /\ stateFile' = stateFile /\ removed' = removed /\ queueFile' = queueFile
      /\ phase' \in {"none", "handling"}
      /\ batch'.jobs = queueFile /\ batch'.todo = jobs /\ batch'.toRemove = {}
      /\ batch'.lastJobId = None
  BY DEF BeginBatch, NoBatch
<1>2. LastIsRemoved' /\ LastIsMarked' /\ RemovedAreOlder'
  BY <1>1 DEF OrderInv, LastIsRemoved, LastIsMarked, RemovedAreOlder
<1>3. BatchInOrder'
  BY <1>1 DEF OrderInv, RemovedAreOlder, BatchInOrder
<1> QED BY <1>2, <1>3 DEF OrderInv

LEMMA DownOrder ==
  ASSUME OrderInv, IInv', Down
  PROVE  OrderInv'
BY DEF OrderInv, Down, LastIsRemoved, LastIsMarked, RemovedAreOlder, BatchInOrder

LEMMA NextOrderInv == OrderInv /\ [Next]_vars => OrderInv'
<1> USE BoundsAssumption
<1> SUFFICES ASSUME OrderInv, [Next]_vars PROVE OrderInv'
  OBVIOUS
<1>0. IInv' /\ IInv /\ TypeOK
  BY NextIInv DEF OrderInv, IInv
<1>1. CASE enqueue
  <2>1. \A k \in removed : k < nextId
    BY <1>0 DEF IInv, KnownAreCreated
  <2> QED
    BY <1>0, <1>1, <2>1 DEF enqueue, OrderInv, LastIsRemoved, LastIsMarked,
                            RemovedAreOlder, BatchInOrder
<1>2. CASE clear
  <2>1. stateFile'.last = None
    BY <1>0, <1>2 DEF clear, TypeOK, State
  <2> QED
    BY <1>0, <1>2, <2>1 DEF clear, OrderInv, LastIsRemoved, LastIsMarked,
                            RemovedAreOlder, BatchInOrder
<1>3. CASE processInitial
  <2>1. BeginBatch(queueFile) /\ phase = "none"
    BY <1>0, <1>3, PendingIsFile DEF processInitial, IInv, DownRunsNoBatch
  <2> QED BY <1>0, <2>1, BeginBatchOrder
<1>4. ASSUME NEW limit \in 1..2, processLimited(limit) PROVE OrderInv'
  <2>1. BeginBatch(FirstOf(queueFile, limit)) /\ phase = "none"
    BY <1>0, <1>4, PendingIsFile DEF processLimited, IInv, DownRunsNoBatch
  <2>2. FirstOf(queueFile, limit) \in SUBSET queueFile
    BY DEF FirstOf
  <2>3. queueFile \in SUBSET Job /\ limit \in Nat
    BY <1>0 DEF TypeOK
  <2>4. \A i \in queueFile \ FirstOf(queueFile, limit) :
          \A j \in FirstOf(queueFile, limit) : j < i
    BY <2>3, FirstAreOlder
  <2> QED BY <1>0, <2>1, <2>2, <2>4, BeginBatchOrder
<1>5. CASE pollAndProcess
  <2>1. BeginBatch(queueFile) /\ phase = "none"
    BY <1>5, PendingIsFile DEF pollAndProcess
  <2> QED BY <1>0, <2>1, BeginBatchOrder
<1>6. ASSUME NEW j \in Job, NEW ok \in BOOLEAN, HandleJob(j, ok) PROVE OrderInv'
  <2>1. /\ stateFile' = stateFile /\ removed' = removed /\ queueFile' = queueFile
        /\ phase = "handling" /\ phase' = "handling" /\ j \in batch.todo
        /\ batch'.jobs = batch.jobs /\ batch'.todo = batch.todo \ {j}
        /\ batch'.toRemove = batch.toRemove \cup {j} /\ batch'.lastJobId = j
    BY <1>0, <1>6 DEF HandleJob, TypeOK, Batch
  <2>2. LastIsRemoved' /\ LastIsMarked' /\ RemovedAreOlder'
    BY <2>1 DEF OrderInv, LastIsRemoved, LastIsMarked, RemovedAreOlder
  <2>3. \A i \in batch.jobs \ (batch.toRemove \cup {j}) : j < i
    <3> SUFFICES ASSUME NEW i \in batch.jobs \ (batch.toRemove \cup {j}) PROVE j < i
      OBVIOUS
    <3>1. i \in Nat /\ j \in Nat /\ i # j
      BY <1>0 DEF TypeOK, Batch, Job
    <3>2. CASE i \in batch.todo
      BY <1>6, <3>1, <3>2 DEF HandleJob
    <3>3. CASE i \notin batch.todo
      BY <2>1, <3>3 DEF OrderInv, BatchInOrder
    <3> QED BY <3>2, <3>3
  <2>4. BatchInOrder'
    BY <2>1, <2>3 DEF OrderInv, BatchInOrder
  <2> QED BY <1>0, <2>2, <2>4 DEF OrderInv
<1>7. CASE RemoveProcessed
  <2>1. LastIsRemoved' /\ LastIsMarked'
    BY <1>7 DEF RemoveProcessed, OrderInv, LastIsRemoved, LastIsMarked
  <2>2. RemovedAreOlder' /\ BatchInOrder'
    BY <1>7 DEF RemoveProcessed, OrderInv, RemovedAreOlder, BatchInOrder
  <2> QED BY <1>0, <2>1, <2>2 DEF OrderInv
<1>8. CASE RecordCounts
  BY <1>0, <1>8 DEF RecordCounts, OrderInv, LastIsRemoved, LastIsMarked, RemovedAreOlder,
                    BatchInOrder
<1>9. CASE close
  BY <1>0, <1>9 DEF close, OrderInv, LastIsRemoved, LastIsMarked, RemovedAreOlder,
                    BatchInOrder
<1>10. CASE ExitAfterClose
  BY <1>0, <1>10, DownOrder DEF ExitAfterClose
<1>11. CASE Crash
  BY <1>0, <1>11, DownOrder DEF Crash
<1>12. CASE UNCHANGED vars
  BY <1>0, <1>12 DEF vars, OrderInv, LastIsRemoved, LastIsMarked, RemovedAreOlder,
                     BatchInOrder
<1> QED
  BY <1>1, <1>2, <1>3, <1>4, <1>5, <1>6, <1>7, <1>8, <1>9, <1>10, <1>11, <1>12
     DEF Next, Worker

\* A step that handles a job, handles one younger than all that were removed.
LEMMA StepInOrder ==
  ASSUME OrderInv, [Next]_vars
  PROVE  \A j \in Job : handled'[j] # handled[j] => \A k \in removed : k < j
<1>1. CASE \E i \in Job, ok \in BOOLEAN : HandleJob(i, ok)
  <2>1. PICK i \in Job, ok \in BOOLEAN : HandleJob(i, ok)
    BY <1>1
  <2>2. \A j \in Job : handled'[j] # handled[j] => j = i
    BY <2>1 DEF HandleJob, OrderInv, IInv, TypeOK
  <2>3. i \in batch.jobs \ batch.toRemove /\ phase = "handling"
    BY <2>1 DEF HandleJob, OrderInv, IInv, SnapshotIsClean
  <2> QED BY <2>2, <2>3 DEF OrderInv, BatchInOrder
<1>2. CASE ~ \E i \in Job, ok \in BOOLEAN : HandleJob(i, ok)
  <2>1. UNCHANGED handled
    BY <1>2 DEF Next, Worker, vars, enqueue, clear, processInitial, processLimited,
                pollAndProcess, BeginBatch, RemoveProcessed, RecordCounts, close,
                ExitAfterClose, Crash, Down
  <2> QED BY <2>1
<1> QED BY <1>1, <1>2

\* Jobs reach the handler in the order of their creation, in full and limited
\* batches, after clear() and after restarts.
THEOREM OrderedDelivery == Spec => HandledInOrder
<1>1. Init => OrderInv
  BY InitOrderInv
<1>2. OrderInv /\ [Next]_vars => OrderInv'
  BY NextOrderInv
<1>3. OrderInv /\ [Next]_vars =>
        [\A j \in Job : handled'[j] # handled[j] => \A k \in removed : k < j]_vars
  BY StepInOrder
<1> QED BY <1>1, <1>2, <1>3, PTL DEF Spec, HandledInOrder

-----------------------------------------------------------------------------
(* The counters. *)

FileCounts  == stateFile.completed + stateFile.failed = Cardinality(removed)
BatchCounts == batch.processed + batch.failed = Cardinality(batch.toRemove)

SameCounters ==
  /\ batch.state.completed = stateFile.completed
  /\ batch.state.failed = stateFile.failed

\* The counters of the snapshot and of the batch, before and between the two
\* writes that add them up.
CountsAgree ==
  stops = 0 =>
    /\ phase # "counting" => FileCounts
    /\ phase = "handling" => SameCounters /\ BatchCounts
    /\ phase = "counting" =>
         batch.state.completed + batch.state.failed + batch.processed + batch.failed
           = Cardinality(removed)

CountInv == IInv /\ CountsAgree

LEMMA CountedAreFinite ==
  ASSUME TypeOK
  PROVE  /\ IsFiniteSet(removed) /\ Cardinality(removed) \in Nat
         /\ IsFiniteSet(batch.toRemove) /\ Cardinality(batch.toRemove) \in Nat
<1>1. IsFiniteSet(Job)
  BY FS_Interval, BoundsAssumption DEF Job
<1>2. removed \in SUBSET Job /\ batch.toRemove \in SUBSET Job
  BY DEF TypeOK, Batch
<1>3. IsFiniteSet(removed) /\ IsFiniteSet(batch.toRemove)
  BY <1>1, <1>2, FS_Subset
<1> QED BY <1>3, FS_CardinalityType

LEMMA CounterTypes ==
  ASSUME TypeOK
  PROVE  /\ stateFile.completed \in Nat /\ stateFile.failed \in Nat
         /\ batch.state.completed \in Nat /\ batch.state.failed \in Nat
         /\ batch.processed \in Nat /\ batch.failed \in Nat
         /\ stops \in Nat
BY DEF TypeOK, Batch, State

LEMMA InitCountInv == Init => CountInv
<1> SUFFICES ASSUME Init PROVE CountInv
  OBVIOUS
<1>1. IInv
  BY InitIInv
<1>2. FileCounts /\ phase = "none"
  BY FS_EmptySet DEF Init, FileCounts
<1> QED BY <1>1, <1>2 DEF CountInv, CountsAgree

LEMMA BeginBatchCounts ==
  ASSUME CountInv, NEW jobs, BeginBatch(jobs), phase = "none"
  PROVE  CountsAgree'
<1>1. /\ stateFile' = stateFile /\ removed' = removed /\ stops' = stops
      /\ phase' \in {"none", "handling"}
      /\ batch'.state = stateFile /\ batch'.toRemove = {}
      /\ batch'.processed = 0 /\ batch'.failed = 0
  BY DEF BeginBatch, NoBatch
<1>2. BatchCounts' /\ SameCounters'
  BY <1>1, FS_EmptySet DEF BatchCounts, SameCounters
<1>3. stops = 0 => FileCounts'
  BY <1>1 DEF CountInv, CountsAgree, FileCounts
<1> QED BY <1>1, <1>2, <1>3 DEF CountsAgree

LEMMA DownCounts ==
  ASSUME CountInv, Down
  PROVE  CountsAgree'
<1>1. stops \in Nat
  BY DEF CountInv, IInv, TypeOK
<1> QED BY <1>1 DEF CountInv, Down, CountsAgree, FileCounts

\* What leaves the counters, the batch and the removed jobs alone.
LEMMA SameCounts ==
  ASSUME CountInv, UNCHANGED <<removed, stops, phase, batch>>,
         stateFile'.completed = stateFile.completed, stateFile'.failed = stateFile.failed
  PROVE  CountsAgree'
BY DEF CountInv, CountsAgree, FileCounts, BatchCounts, SameCounters

LEMMA NextCountInv == CountInv /\ [Next]_vars => CountInv'
<1> SUFFICES ASSUME CountInv, [Next]_vars PROVE CountsAgree'
  BY NextIInv DEF CountInv
<1>0. IInv /\ TypeOK
  BY DEF CountInv, IInv
<1>1. CASE enqueue
  BY <1>1, SameCounts DEF enqueue
<1>2. CASE clear
  <2>1. stateFile'.completed = stateFile.completed /\ stateFile'.failed = stateFile.failed
    BY <1>0, <1>2 DEF clear, TypeOK, State
  <2> QED BY <1>2, <2>1, SameCounts DEF clear
<1>3. CASE processInitial
  <2>1. phase = "none"
    BY <1>0, <1>3 DEF processInitial, IInv, DownRunsNoBatch
  <2> QED BY <1>3, <2>1, BeginBatchCounts DEF processInitial
<1>4. ASSUME NEW limit \in 1..2, processLimited(limit) PROVE CountsAgree'
  <2>1. phase = "none"
    BY <1>0, <1>4 DEF processLimited, IInv, DownRunsNoBatch
  <2> QED BY <1>4, <2>1, BeginBatchCounts DEF processLimited
<1>5. CASE pollAndProcess
  BY <1>5, BeginBatchCounts DEF pollAndProcess
<1>6. ASSUME NEW j \in Job, NEW ok \in BOOLEAN, HandleJob(j, ok) PROVE CountsAgree'
  <2>1. /\ stateFile' = stateFile /\ removed' = removed /\ stops' = stops
        /\ phase = "handling" /\ phase' = "handling"
        /\ batch'.state = batch.state
        /\ batch'.toRemove = batch.toRemove \cup {j}
        /\ batch'.processed = IF ok THEN batch.processed + 1 ELSE batch.processed
        /\ batch'.failed = IF ok THEN batch.failed ELSE batch.failed + 1
    BY <1>0, <1>6 DEF HandleJob, TypeOK, Batch
  <2>2. j \notin batch.toRemove
    BY <1>0, <1>6 DEF HandleJob, IInv, SnapshotIsClean
  <2>3. Cardinality(batch'.toRemove) = Cardinality(batch.toRemove) + 1
    BY <1>0, <2>1, <2>2, CountedAreFinite, FS_AddElement
  <2>4. batch'.processed + batch'.failed = batch.processed + batch.failed + 1
    BY <1>0, <2>1, CounterTypes
  <2>5. BatchCounts => BatchCounts'
    BY <2>3, <2>4 DEF BatchCounts
  <2> QED BY <2>1, <2>5 DEF CountInv, CountsAgree, FileCounts, SameCounters
<1>7. CASE RemoveProcessed
  <2>1. /\ stateFile' = stateFile /\ batch' = batch /\ stops' = stops
        /\ phase = "handling" /\ phase' = "counting"
        /\ removed' = removed \cup batch.toRemove
    BY <1>7 DEF RemoveProcessed
  <2>2. removed \cap batch.toRemove = {}
    BY <1>0, <2>1 DEF IInv, SnapshotIsClean
  <2>3. Cardinality(removed') = Cardinality(removed) + Cardinality(batch.toRemove)
    BY <1>0, <2>1, <2>2, CountedAreFinite, FS_Union, FS_EmptySet
  <2>4. ASSUME stops = 0
        PROVE  batch.state.completed + batch.state.failed + batch.processed + batch.failed
                 = Cardinality(removed')
    <3>1. FileCounts /\ SameCounters /\ BatchCounts
      BY <2>1, <2>4 DEF CountInv, CountsAgree
    <3> QED
      BY <1>0, <2>3, <3>1, CounterTypes, CountedAreFinite DEF FileCounts, SameCounters,
                                                              BatchCounts
  <2> QED BY <2>1, <2>4 DEF CountsAgree
<1>8. CASE RecordCounts
  <2>1. /\ stateFile'.completed = batch.state.completed + batch.processed
        /\ stateFile'.failed = batch.state.failed + batch.failed
        /\ removed' = removed /\ stops' = stops /\ phase = "counting" /\ phase' = "none"
    BY <1>8 DEF RecordCounts
  <2>2. stops = 0 => FileCounts'
    BY <1>0, <2>1, CounterTypes DEF CountInv, CountsAgree, FileCounts
  <2> QED BY <2>1, <2>2 DEF CountsAgree
<1>9. CASE close
  BY <1>9, SameCounts DEF close
<1>10. CASE ExitAfterClose
  BY <1>10, DownCounts DEF ExitAfterClose
<1>11. CASE Crash
  BY <1>11, DownCounts DEF Crash
<1>12. CASE UNCHANGED vars
  BY <1>12, SameCounts DEF vars
<1> QED
  BY <1>1, <1>2, <1>3, <1>4, <1>5, <1>6, <1>7, <1>8, <1>9, <1>10, <1>11, <1>12
     DEF Next, Worker

\* Until a stop falls between the two writes of a batch, state.json accounts
\* for every job that left queue.json through a batch.
THEOREM CountersAccountForJobs == Spec => []CountsAccountForRemoved
<1>1. Init => CountInv
  BY InitCountInv
<1>2. CountInv /\ [Next]_vars => CountInv'
  BY NextCountInv
<1>3. CountInv => CountsAccountForRemoved
  BY DEF CountInv, CountsAgree, FileCounts, CountsAccountForRemoved
<1> QED BY <1>1, <1>2, <1>3, PTL DEF Spec
=============================================================================
