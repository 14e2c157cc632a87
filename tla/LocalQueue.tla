----------------------------- MODULE LocalQueue -----------------------------
(***************************************************************************)
(* The file-backed job queue of packages/queue (strategies/local.ts) and   *)
(* the worker process of worker/runner.ts that polls it.                   *)
(*                                                                         *)
(* queue.json is an array, but every writer appends a fresh job behind the *)
(* jobs it has read and the batch only filters it, so the array is always  *)
(* in order of creation: it is modelled by the set of its job ids, a job's *)
(* id being its rank of creation.  enqueue reads and writes the file in    *)
(* one synchronous segment, hence is one action for the process that also  *)
(* runs the worker; a handler is awaited, so anything may run between two  *)
(* handlers of a batch.                                                    *)
(***************************************************************************)
EXTENDS Integers, FiniteSets

CONSTANTS
  MaxJobs,      \* bound: how many jobs are ever enqueued
  MaxStops      \* bound: how many times the process stops while a batch runs

ASSUME BoundsAssumption == MaxJobs \in Nat /\ MaxStops \in Nat

Job  == 1..MaxJobs
None == 0

VARIABLES
  queueFile,     \* queue.json: the ids of the stored jobs
  stateFile,     \* state.json: lastProcessedId, completedCount, failedCount
  proc,          \* "down", "once" (process with a limit), "up", "closing"
  isProcessing,  \* the flag of that name
  phase,         \* of processBatch: "none", "handling", "counting"
  batch,         \* the local variables of processBatch
  nextId,        \* rank of the next job to be created
  handled,       \* history: how often each job was given to the handler
  removed,       \* history: jobs a batch has removed from the file
  cleared,       \* history: jobs clear() has removed from the file
  stops          \* history: how often the process stopped inside a batch

vars == <<queueFile, stateFile, proc, isProcessing, phase, batch, nextId,
          handled, removed, cleared, stops>>

State == [last : Job \cup {None}, completed : Nat, failed : Nat]

Batch == [jobs : SUBSET Job, state : State, todo : SUBSET Job,
          toRemove : SUBSET Job, processed : Nat, failed : Nat,
          lastJobId : Job \cup {None}]

NoBatch == [jobs |-> {}, state |-> [last |-> None, completed |-> 0, failed |-> 0],
            todo |-> {}, toRemove |-> {}, processed |-> 0, failed |-> 0,
            lastJobId |-> None]

Init ==
  /\ queueFile = {}
  /\ stateFile = [last |-> None, completed |-> 0, failed |-> 0]
  /\ proc = "down"
  /\ isProcessing = FALSE
  /\ phase = "none"
  /\ batch = NoBatch
  /\ nextId = 1
  /\ handled = [j \in Job |-> 0]
  /\ removed = {}
  /\ cleared = {}
  /\ stops = 0

-----------------------------------------------------------------------------
(* The producers. *)

\* The two writes that end a batch are one synchronous segment: nothing of
\* the same process runs between them.
enqueue ==
  /\ nextId \in Job
  /\ phase # "counting"
  /\ queueFile' = queueFile \cup {nextId}
  /\ nextId' = nextId + 1
  /\ UNCHANGED <<stateFile, proc, isProcessing, phase, batch, handled, removed,
                 cleared, stops>>

\* Mutant of clear: resets the counters too.
clear_ResetsCounts ==
  /\ phase # "counting"
  /\ queueFile' = {}
  /\ stateFile' = [last |-> None, completed |-> 0, failed |-> 0]
  /\ cleared' = cleared \cup queueFile
  /\ UNCHANGED <<proc, isProcessing, phase, batch, nextId, handled, removed, stops>>

\* Empties the file and forgets the last processed id, keeping the counters.
clear ==
  /\ phase # "counting"
  /\ queueFile' = {}
  /\ stateFile' = [stateFile EXCEPT !.last = None]
  /\ cleared' = cleared \cup queueFile
  /\ UNCHANGED <<proc, isProcessing, phase, batch, nextId, handled, removed, stops>>

-----------------------------------------------------------------------------
(* The worker. *)

\* The jobs behind the last processed one; all of them when it is not there.
PendingJobs ==
  IF stateFile.last \in queueFile
    THEN {j \in queueFile : j > stateFile.last}
    ELSE queueFile

\* Mutant of FirstOf: the last jobs, slice(-limit).
FirstOf_TakesLast(jobs, limit) ==
  {j \in jobs : Cardinality({k \in jobs : k > j}) < limit}

FirstOf(jobs, limit) ==
  {j \in jobs : Cardinality({k \in jobs : k < j}) < limit}

\* processBatch up to its first await: both files are read here and only here.
BeginBatch(jobs) ==
  /\ batch' = [NoBatch EXCEPT !.jobs = queueFile, !.state = stateFile, !.todo = jobs]
  /\ phase' = IF jobs = {} THEN "none" ELSE "handling"
  /\ UNCHANGED <<queueFile, stateFile, nextId, handled, removed, cleared, stops>>

\* process(handler): the batch that runs before the timer exists, without the
\* isProcessing flag.
processInitial ==
  /\ proc = "down"
  /\ proc' = "up"
  /\ UNCHANGED isProcessing
  /\ BeginBatch(PendingJobs)

\* process(handler, {limit}): one batch and no polling.
processLimited(limit) ==
  /\ proc = "down"
  /\ PendingJobs # {}
  /\ proc' = "once"
  /\ UNCHANGED isProcessing
  /\ BeginBatch(FirstOf(PendingJobs, limit))

\* A tick of the polling timer that finds something to do.
pollAndProcess ==
  /\ proc = "up"
  /\ phase = "none"
  /\ ~isProcessing
  /\ PendingJobs # {}
  /\ isProcessing' = TRUE
  /\ UNCHANGED proc
  /\ BeginBatch(PendingJobs)

\* Mutant of HandleJob: a job that failed is not marked for removal.
HandleJob_KeepsFailed(j, ok) ==
  /\ phase = "handling"
  /\ j \in batch.todo
  /\ \A k \in batch.todo : j <= k
  /\ handled' = [handled EXCEPT ![j] = @ + 1]
  /\ batch' = [batch EXCEPT !.todo = @ \ {j},
                            !.toRemove = IF ok THEN @ \cup {j} ELSE @,
                            !.lastJobId = j,
                            !.processed = IF ok THEN @ + 1 ELSE @,
                            !.failed = IF ok THEN @ ELSE @ + 1]
  /\ UNCHANGED <<queueFile, stateFile, proc, isProcessing, phase, nextId, removed,
                 cleared, stops>>

\* One turn of the batch's loop: the handler is awaited and resolves or
\* throws; either way the job is marked for removal.
HandleJob(j, ok) ==
  /\ phase = "handling"
  /\ j \in batch.todo
  /\ \A k \in batch.todo : j <= k
  /\ handled' = [handled EXCEPT ![j] = @ + 1]
  /\ batch' = [batch EXCEPT !.todo = @ \ {j},
                            !.toRemove = @ \cup {j},
                            !.lastJobId = j,
                            !.processed = IF ok THEN @ + 1 ELSE @,
                            !.failed = IF ok THEN @ ELSE @ + 1]
  /\ UNCHANGED <<queueFile, stateFile, proc, isProcessing, phase, nextId, removed,
                 cleared, stops>>

\* Mutant of RemoveProcessed: the snapshot is written back unfiltered.
RemoveProcessed_Unfiltered ==
  /\ phase = "handling"
  /\ batch.todo = {}
  /\ queueFile' = batch.jobs
  /\ removed' = removed \cup batch.toRemove
  /\ phase' = "counting"
  /\ UNCHANGED <<stateFile, proc, isProcessing, batch, nextId, handled, cleared, stops>>

\* writeQueue: the snapshot of the beginning of the batch, less its jobs.
RemoveProcessed ==
  /\ phase = "handling"
  /\ batch.todo = {}
  /\ queueFile' = batch.jobs \ batch.toRemove
  /\ removed' = removed \cup batch.toRemove
  /\ phase' = "counting"
  /\ UNCHANGED <<stateFile, proc, isProcessing, batch, nextId, handled, cleared, stops>>

\* Mutant of RecordCounts: failures are taken off the completed jobs.
RecordCounts_Subtracts ==
  /\ phase = "counting"
  /\ stateFile' = [last |-> batch.lastJobId,
                   completed |-> batch.state.completed + batch.processed - batch.failed,
                   failed |-> batch.state.failed + batch.failed]
  /\ phase' = "none"
  /\ batch' = NoBatch
  /\ isProcessing' = FALSE
  /\ proc' = IF proc = "once" THEN "down" ELSE proc
  /\ UNCHANGED <<queueFile, nextId, handled, removed, cleared, stops>>

\* Mutant of RecordCounts: the flag is not reset in the finally block.
RecordCounts_KeepsFlag ==
  /\ phase = "counting"
  /\ stateFile' = [last |-> batch.lastJobId,
                   completed |-> batch.state.completed + batch.processed,
                   failed |-> batch.state.failed + batch.failed]
  /\ phase' = "none"
  /\ batch' = NoBatch
  /\ UNCHANGED isProcessing
  /\ proc' = IF proc = "once" THEN "down" ELSE proc
  /\ UNCHANGED <<queueFile, nextId, handled, removed, cleared, stops>>

\* writeState: the counters of the snapshot plus those of the batch.
RecordCounts ==
  /\ phase = "counting"
  /\ stateFile' = [last |-> batch.lastJobId,
                   completed |-> batch.state.completed + batch.processed,
                   failed |-> batch.state.failed + batch.failed]
  /\ phase' = "none"
  /\ batch' = NoBatch
  /\ isProcessing' = FALSE
  /\ proc' = IF proc = "once" THEN "down" ELSE proc
  /\ UNCHANGED <<queueFile, nextId, handled, removed, cleared, stops>>

-----------------------------------------------------------------------------
(* The end of the process. *)

Down ==
  /\ proc' = "down"
  /\ isProcessing' = FALSE
  /\ phase' = "none"
  /\ batch' = NoBatch
  /\ stops' = IF phase = "none" THEN stops ELSE stops + 1
  /\ UNCHANGED <<queueFile, stateFile, nextId, handled, removed, cleared>>

\* SIGTERM or SIGINT: runWorker's shutdown calls close(), which stops the
\* timer and drops the handler.
close ==
  /\ proc = "up"
  /\ proc' = "closing"
  /\ UNCHANGED <<queueFile, stateFile, isProcessing, phase, batch, nextId, handled,
                 removed, cleared, stops>>

\* close() waits only while isProcessing is set; then the process exits.
ExitAfterClose ==
  /\ proc = "closing"
  /\ ~isProcessing
  /\ phase # "counting"
  /\ phase # "none" => stops < MaxStops
  /\ Down

\* A kill, a crash, or close() giving up after SHUTDOWN_TIMEOUT.
Crash ==
  /\ proc # "down"
  /\ phase # "none" => stops < MaxStops
  /\ Down

-----------------------------------------------------------------------------
Worker ==
  \/ pollAndProcess
  \/ RemoveProcessed
  \/ RecordCounts
  \/ \E j \in Job, ok \in BOOLEAN : HandleJob(j, ok)

Next ==
  \/ enqueue
  \/ clear
  \/ processInitial
  \/ \E limit \in 1..2 : processLimited(limit)
  \/ Worker
  \/ close
  \/ ExitAfterClose
  \/ Crash

\* A running worker is scheduled by Node's event loop, and the supervisor
\* starts it again after it went down; nothing obliges anyone to enqueue,
\* clear or stop.
Fairness ==
  /\ WF_vars(Worker)
  /\ WF_vars(processInitial)
  /\ WF_vars(ExitAfterClose)

Spec == Init /\ [][Next]_vars /\ Fairness

-----------------------------------------------------------------------------
(* Properties *)

\* Every variable keeps its type.
TypeOK ==
  /\ queueFile \subseteq Job
  /\ stateFile \in State
  /\ proc \in {"down", "once", "up", "closing"}
  /\ isProcessing \in BOOLEAN
  /\ phase \in {"none", "handling", "counting"}
  /\ batch \in Batch
  /\ nextId \in 1..(MaxJobs + 1)
  /\ handled \in [Job -> Nat]
  /\ removed \subseteq Job
  /\ cleared \subseteq Job
  /\ stops \in Nat

\* A job a batch has removed never stands in queue.json again, whatever was
\* enqueued or cleared and however often the process stopped since: the write
\* of processBatch and the readers of lastProcessedId never bring it back.
RemovedStaysRemoved == removed \cap queueFile = {}

\* The queue delivers at least once, and more than once only as often as the
\* process stopped between handling a job and writing queue.json.
RedeliveryOnlyAfterStop == \A j \in Job : handled[j] <= 1 + stops

\* A job is never given to the handler after a younger one has been removed:
\* batches run in the order of the file, and a failed job is not left behind.
HandledInOrder ==
  [][\A j \in Job : handled'[j] # handled[j] => \A k \in removed : k < j]_vars

\* As long as no stop falls between the two writes of a batch, state.json
\* accounts for every job removed from queue.json, across clear() too
\* (getJobCounts reports these numbers).
CountsAccountForRemoved ==
  stops = 0 /\ phase # "counting"
    => stateFile.completed + stateFile.failed = Cardinality(removed)

\* A job that is in the file while no batch runs is eventually handled, or was
\* cleared, even if the process stops and starts again meanwhile.
StoredJobsAreHandled ==
  \A j \in Job :
    (j \in queueFile /\ phase = "none") ~> (handled[j] > 0 \/ j \in cleared)

\* docs/docs/framework/events/queue-workers.mdx:64 "Jobs persist across
\* restarts": a created job is in the file, in the hands of the running batch,
\* handled, or cleared.
CreatedJobsPersist ==
  \A j \in 1..(nextId - 1) :
    j \in queueFile \/ j \in batch.todo \/ handled[j] > 0 \/ j \in cleared
=============================================================================
