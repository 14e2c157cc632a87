------------------------- MODULE WorkflowActivities -------------------------
(***************************************************************************)
(* Asynchronous activities of the workflow engine: a transition whose      *)
(* activities run in the background parks the instance in                  *)
(* WAITING_FOR_ACTIVITIES, the workers of the workflow-activities queue    *)
(* run the jobs, and the worker that finds all of them done resumes the    *)
(* pending transition (lib/workflow-executor.ts,                           *)
(* lib/transition-handler.ts, lib/activity-executor.ts,                    *)
(* workers/workflow-activities.worker.ts, all of modules/workflows).       *)
(*                                                                         *)
(* The definition is a chain of steps 0, 1, ..., Len(Acts), the last one   *)
(* the END step; transition k leads from step k-1 to step k and has        *)
(* Acts[k] asynchronous activities.  Branches, conditions and the other    *)
(* kinds of steps are the matter of WorkflowEngine.                        *)
(*                                                                         *)
(* A request of the web process has an entity manager of its own; the jobs *)
(* a worker process runs concurrently share one (createRequestContainer is *)
(* called once, packages/cli/src/mercato.ts), hence one copy of the row.   *)
(***************************************************************************)
EXTENDS Integers, Sequences, FiniteSets, EntityManager

CONSTANTS
  Web,          \* the web process: starts the instance, serves manual retries
  Workers,      \* slots for concurrent jobs, in one or several worker processes
  Acts,         \* Acts[k]: number of async activities of transition k
  MaxAttempts,  \* retryPolicy.maxAttempts of every activity
  MaxJobs,      \* bound: how many jobs are ever enqueued
  MaxRetries,   \* bound: how many manual retries
  MaxCrashes    \* bound: how many times a process is killed in mid-work

ASSUME ConstantsAssumption ==
  /\ Web \notin Workers
  /\ IsFiniteSet(Workers)
  /\ Acts \in Seq(Nat)
  /\ MaxAttempts \in Nat \ {0}
  /\ MaxJobs \in Nat /\ MaxRetries \in Nat /\ MaxCrashes \in Nat

Proc == Workers \cup {Web}
Step == 0..Len(Acts)
End  == Len(Acts)
Job  == 1..MaxJobs
None == -1

VARIABLES
  inst,       \* the row of workflow_instances
  jobs,       \* the queue: state, transition and deliveries of each job
  nextJob,
  completed,  \* ACTIVITY_COMPLETED events, one <<job, delivery>> each
  failed,     \* ACTIVITY_FAILED events of the workers
  pc,         \* what each process does next
  host,       \* the process of each slot
  view,       \* the copy of the row in the entity manager of each process
  local,      \* the local variables of the calls
  entered,    \* history: how often each step was executed
  retries,    \* history: manual retries so far
  crashes,
  overtaken,  \* history: workers whose check began on a row changed since
  raced       \* history: such a worker has acted on its check

race == <<overtaken, raced>>

vars == <<inst, jobs, nextJob, completed, failed, pc, host, view, local, entered,
          retries, crashes, race>>

\* tracked is context._pendingAsyncActivities, results the activities' outputs.
Context == [tracked : SUBSET Job, results : SUBSET Job]

Instance == [status : {"RUNNING", "WAITING", "FAILED", "COMPLETED"}, step : Step,
             pendingTo : Step \cup {None}, context : Context]

NewInstance == [status |-> "RUNNING", step |-> 0, pendingTo |-> None,
                context |-> [tracked |-> {}, results |-> {}]]

JobRecord == [state : {"none", "queued", "active", "done"}, transition : Step,
              delivery : Nat]

Locals == [job : Job \cup {None}, from : Step, queued : SUBSET Job,
           tracked : SUBSET Job, completedCount : Nat, failedCount : Nat]

Idle == [job |-> None, from |-> 0, queued |-> {},
         tracked |-> {}, completedCount |-> 0, failedCount |-> 0]

\* startWorkflow has created the instance; its background run is about to begin.
Init ==
  /\ inst = NewInstance
  /\ jobs = [j \in Job |-> [state |-> "none", transition |-> 0, delivery |-> 0]]
  /\ nextJob = 1
  /\ completed = {}
  /\ failed = {}
  /\ pc = [p \in Proc |-> IF p = Web THEN "loop" ELSE "idle"]
  /\ host \in {h \in [Proc -> Proc] :
               h[Web] = Web /\ \A w \in Workers : h[w] \in Workers}
  /\ view = [p \in Proc |-> NewInstance]
  /\ local = [p \in Proc |-> Idle]
  /\ entered = [s \in Step |-> 0]
  /\ retries = 0
  /\ crashes = 0
  /\ overtaken = {}
  /\ raced = FALSE

-----------------------------------------------------------------------------
View(p) == view[host[p]]

Goto(p, label) == pc' = [pc EXCEPT ![p] = label]

\* Load the row into the entity manager of p.
Read(p) == view' = [view EXCEPT ![host[p]] = inst]

\* Workers between the read of a waiting instance and what they do about it.
Checking == {w \in Workers : pc[w] \in {"countCompleted", "countFailed", "decide"}}

\* p changes the row: the checks of all others have begun too early.
Overtakes(p) == overtaken' = (overtaken \cup Checking) \ {p}

\* Write new through the entity manager of p.
Write(p, new) ==
  /\ inst' = Flush(inst, View(p), new)
  /\ view' = [view EXCEPT ![host[p]] = new]
  /\ Overtakes(p)

\* w acts on its check, overtaken or not.
Acted(w) == raced' = (raced \/ w \in overtaken)

\* The handler or the request returns; a worker's job leaves the queue,
\* whether the handler resolved or threw (no job is added with attempts).
Return(p) ==
  /\ Goto(p, "idle")
  /\ local' = [local EXCEPT ![p] = Idle]
  /\ jobs' = IF local[p].job = None THEN jobs
             ELSE [jobs EXCEPT ![local[p].job].state = "done"]

\* The attempt number both queue strategies report for every delivery.
attemptNumber == 1

-----------------------------------------------------------------------------
(* executeWorkflow, in the web process or in the worker that resumed. *)

\* The status check at the top, on the copy in the entity manager.
executeWorkflow(p) ==
  /\ pc[p] = "execute"
  /\ IF View(p).status = "COMPLETED"
       THEN Return(p)
       ELSE Goto(p, "loop") /\ UNCHANGED <<jobs, local>>
  /\ UNCHANGED <<inst, nextJob, completed, failed, host, view, entered, retries,
                 crashes, race>>

Load(p, at, label) ==
  /\ pc[p] = "loop"
  /\ at
  /\ Read(p)
  /\ local' = [local EXCEPT ![p].from = inst.step, ![p].queued = {}]
  /\ Goto(p, label)
  /\ UNCHANGED <<inst, jobs, nextJob, completed, failed, host, entered, retries, crashes, race>>

\* Top of the loop: reload the row and look at the current step.
Loop(p) ==
  \/ Load(p, inst.step = End, "complete")
  \/ Load(p, inst.step < End /\ Acts[inst.step + 1] = 0, "move")
  \/ Load(p, inst.step < End /\ Acts[inst.step + 1] > 0, "enqueue")

\* completeWorkflow(COMPLETED) at the END step.
completeWorkflow(p) ==
  /\ pc[p] = "complete"
  /\ Write(p, [View(p) EXCEPT !.status = "COMPLETED"])
  /\ Return(p)
  /\ UNCHANGED <<nextJob, completed, failed, host, entered, retries, crashes, raced>>

\* executeTransition without async activities, and the execution of its step.
executeTransition(p) ==
  /\ pc[p] = "move"
  /\ Write(p, [View(p) EXCEPT !.step = local[p].from + 1])
  /\ Goto(p, "loop")
  /\ entered' = [entered EXCEPT ![local[p].from + 1] = @ + 1]
  /\ UNCHANGED <<jobs, nextJob, completed, failed, host, local, retries, crashes, raced>>

\* One turn of executeActivities: the job can be taken from now on.
enqueueActivity(p) ==
  /\ pc[p] = "enqueue"
  /\ Cardinality(local[p].queued) < Acts[local[p].from + 1]
  /\ nextJob \in Job
  /\ jobs' = [jobs EXCEPT ![nextJob] =
                [state |-> "queued", transition |-> local[p].from + 1, delivery |-> 0]]
  /\ local' = [local EXCEPT ![p].queued = @ \cup {nextJob}]
  /\ nextJob' = nextJob + 1
  /\ UNCHANGED <<inst, completed, failed, pc, host, view, entered, retries, crashes, race>>

\* Mutant of pauseForActivities: the pending transition is not stored.
pauseForActivities_NoPending(p) ==
  /\ pc[p] = "enqueue"
  /\ Cardinality(local[p].queued) = Acts[local[p].from + 1]
  /\ Write(p, [View(p) EXCEPT !.status = "WAITING",
                              !.context.tracked = local[p].queued])
  /\ Return(p)
  /\ UNCHANGED <<nextJob, completed, failed, host, entered, retries, crashes, raced>>

\* executeTransition with async activities: the instance starts to wait, in
\* one flush after all jobs were enqueued.
pauseForActivities(p) ==
  /\ pc[p] = "enqueue"
  /\ Cardinality(local[p].queued) = Acts[local[p].from + 1]
  /\ Write(p, [View(p) EXCEPT !.status = "WAITING",
                              !.pendingTo = local[p].from + 1,
                              !.context.tracked = local[p].queued])
  /\ Return(p)
  /\ UNCHANGED <<nextJob, completed, failed, host, entered, retries, crashes, raced>>

-----------------------------------------------------------------------------
(* The activity worker. *)

\* The handler begins and loads the instance.
TakeJob(w, j) ==
  /\ w \in Workers
  /\ pc[w] = "idle"
  /\ jobs[j].state = "queued"
  /\ jobs' = [jobs EXCEPT ![j].state = "active", ![j].delivery = @ + 1]
  /\ local' = [local EXCEPT ![w].job = j]
  /\ Read(w)
  /\ Goto(w, "run")
  /\ UNCHANGED <<inst, nextJob, completed, failed, host, entered, retries, crashes, race>>

\* The activity succeeds; the event is logged, then the worker tries to resume.
ActivityCompleted(w) ==
  /\ pc[w] = "run"
  /\ completed' = completed \cup {<<local[w].job, jobs[local[w].job].delivery>>}
  /\ Goto(w, "resume")
  /\ UNCHANGED <<inst, jobs, nextJob, failed, host, view, local, entered, retries,
                 crashes, race>>

\* The activity fails or times out; only the final attempt tries to resume.
ActivityFailed(w) ==
  /\ pc[w] = "run"
  /\ failed' = failed \cup {<<local[w].job, jobs[local[w].job].delivery>>}
  /\ IF attemptNumber >= MaxAttempts
       THEN Goto(w, "resume") /\ UNCHANGED <<jobs, local>>
       ELSE Return(w)
  /\ UNCHANGED <<inst, nextJob, completed, host, view, entered, retries, crashes, race>>

-----------------------------------------------------------------------------
(* resumeWorkflowAfterActivities, called by checkAndResumeWorkflow, which  *)
(* swallows what it throws.                                                *)

FindWaitingInstance(w) ==
  /\ pc[w] = "resume"
  /\ inst.status = "WAITING"
  /\ Read(w)
  /\ local' = [local EXCEPT ![w].tracked = inst.context.tracked]
  /\ overtaken' = overtaken \ {w}
  /\ Goto(w, "countCompleted")
  /\ UNCHANGED <<inst, jobs, nextJob, completed, failed, host, entered, retries, crashes, raced>>

\* "Workflow instance not waiting for activities".
NotWaiting(w) ==
  /\ pc[w] = "resume"
  /\ inst.status # "WAITING"
  /\ Return(w)
  /\ UNCHANGED <<inst, nextJob, completed, failed, host, view, entered, retries,
                 crashes, race>>

\* The counts run over all events of the instance, not those of this pause.
CountCompleted(w) ==
  /\ pc[w] = "countCompleted"
  /\ local' = [local EXCEPT ![w].completedCount = Cardinality(completed)]
  /\ Goto(w, "countFailed")
  /\ UNCHANGED <<inst, jobs, nextJob, completed, failed, host, view, entered, retries,
                 crashes, race>>

CountFailed(w) ==
  /\ pc[w] = "countFailed"
  /\ local' = [local EXCEPT ![w].failedCount = Cardinality(failed)]
  /\ Goto(w, "decide")
  /\ UNCHANGED <<inst, jobs, nextJob, completed, failed, host, view, entered, retries,
                 crashes, race>>

\* Mutant of AllProcessed: off by one.
AllProcessed_OffByOne(w) ==
  local[w].completedCount + local[w].failedCount >= Cardinality(local[w].tracked) - 1

\* Mutant of AllProcessed: only successes count.
AllProcessed_IgnoresFailed(w) ==
  local[w].completedCount >= Cardinality(local[w].tracked)

AllProcessed(w) ==
  local[w].completedCount + local[w].failedCount >= Cardinality(local[w].tracked)

\* "Activities still pending".
StillPending(w) ==
  /\ pc[w] = "decide"
  /\ ~AllProcessed(w)
  /\ Return(w)
  /\ UNCHANGED <<inst, nextJob, completed, failed, host, view, entered, retries,
                 crashes, race>>

FailWorkflow(w) ==
  /\ pc[w] = "decide"
  /\ AllProcessed(w)
  /\ local[w].failedCount > 0
  /\ Write(w, [View(w) EXCEPT !.status = "FAILED"])
  /\ Return(w)
  /\ Acted(w)
  /\ UNCHANGED <<nextJob, completed, failed, host, entered, retries, crashes>>

AllSucceeded(w) ==
  /\ pc[w] = "decide"
  /\ AllProcessed(w)
  /\ local[w].failedCount = 0

Merged(context) ==
  [tracked |-> {}, results |-> context.results \cup {e[1] : e \in completed}]

\* No pending transition, that is, another job of the process was faster:
\* RUNNING again, from wherever the instance is.
ResumeWithoutTransition(w) ==
  /\ AllSucceeded(w)
  /\ View(w).pendingTo = None
  /\ Write(w, [View(w) EXCEPT !.status = "RUNNING", !.context = Merged(@)])
  /\ Goto(w, "execute")
  /\ Acted(w)
  /\ UNCHANGED <<jobs, nextJob, completed, failed, host, local, entered, retries,
                 crashes>>

\* Mutant of ResumePendingTransition: the outputs are not merged.
ResumePendingTransition_NoMerge(w) ==
  /\ AllSucceeded(w)
  /\ View(w).pendingTo # None
  /\ Write(w, [View(w) EXCEPT !.status = "RUNNING", !.step = View(w).pendingTo,
                              !.pendingTo = None, !.context.tracked = {}])
  /\ local' = [local EXCEPT ![w].from = View(w).pendingTo]
  /\ Goto(w, "enter")
  /\ Acted(w)
  /\ UNCHANGED <<jobs, nextJob, completed, failed, host, entered, retries, crashes>>

\* Mutant of ResumePendingTransition: pendingTransition is cleared first.
ResumePendingTransition_ClearsFirst(w) ==
  /\ AllSucceeded(w)
  /\ View(w).pendingTo # None
  /\ Write(w, [View(w) EXCEPT !.status = "RUNNING", !.step = None,
                              !.pendingTo = None, !.context = Merged(@)])
  /\ local' = [local EXCEPT ![w].from = View(w).pendingTo]
  /\ Goto(w, "enter")
  /\ Acted(w)
  /\ UNCHANGED <<jobs, nextJob, completed, failed, host, entered, retries, crashes>>

\* Mutant of ResumePendingTransition: currentStepId is not set.
ResumePendingTransition_KeepsStep(w) ==
  /\ AllSucceeded(w)
  /\ View(w).pendingTo # None
  /\ Write(w, [View(w) EXCEPT !.status = "RUNNING", !.pendingTo = None,
                              !.context = Merged(@)])
  /\ local' = [local EXCEPT ![w].from = View(w).pendingTo]
  /\ Goto(w, "enter")
  /\ Acted(w)
  /\ UNCHANGED <<jobs, nextJob, completed, failed, host, entered, retries, crashes>>

\* Merge the outputs, take the pending transition, run again: one flush.
ResumePendingTransition(w) ==
  /\ AllSucceeded(w)
  /\ View(w).pendingTo # None
  /\ Write(w, [View(w) EXCEPT !.status = "RUNNING", !.step = View(w).pendingTo,
                              !.pendingTo = None, !.context = Merged(@)])
  /\ local' = [local EXCEPT ![w].from = View(w).pendingTo]
  /\ Goto(w, "enter")
  /\ Acted(w)
  /\ UNCHANGED <<jobs, nextJob, completed, failed, host, entered, retries, crashes>>

\* executeStep of the step that was deferred, then executeWorkflow.
executeDeferredStep(w) ==
  /\ pc[w] = "enter"
  /\ entered' = [entered EXCEPT ![local[w].from] = @ + 1]
  /\ Goto(w, "execute")
  /\ UNCHANGED <<inst, jobs, nextJob, completed, failed, host, view, local, retries,
                 crashes, race>>

-----------------------------------------------------------------------------
\* The retry route: a FAILED instance runs again from its current step.
retry ==
  /\ pc[Web] = "idle"
  /\ inst.status = "FAILED"
  /\ retries < MaxRetries
  /\ inst' = [inst EXCEPT !.status = "RUNNING"]
  /\ view' = [view EXCEPT ![Web] = inst']
  /\ Overtakes(Web)
  /\ retries' = retries + 1
  /\ Goto(Web, "execute")
  /\ UNCHANGED <<jobs, nextJob, completed, failed, host, local, entered, crashes, raced>>

\* A process is killed with the jobs it runs; the queue delivers them again.
Crash(p) ==
  /\ pc[p] # "idle"
  /\ crashes < MaxCrashes
  /\ crashes' = crashes + 1
  /\ LET killed == {q \in Proc : host[q] = host[p]}
     IN /\ pc' = [q \in Proc |-> IF q \in killed THEN "idle" ELSE pc[q]]
        /\ local' = [q \in Proc |-> IF q \in killed THEN Idle ELSE local[q]]
        /\ jobs' = [j \in Job |->
                      IF \E q \in killed : local[q].job = j
                        THEN [jobs[j] EXCEPT !.state = "queued"]
                        ELSE jobs[j]]
  /\ UNCHANGED <<inst, nextJob, completed, failed, host, view, entered, retries, race>>

Execute(p) ==
  \/ executeWorkflow(p)
  \/ Loop(p)
  \/ completeWorkflow(p)
  \/ executeTransition(p)
  \/ enqueueActivity(p)
  \/ pauseForActivities(p)

Work(w) ==
  \/ \E j \in Job : TakeJob(w, j)
  \/ ActivityCompleted(w)
  \/ ActivityFailed(w)
  \/ FindWaitingInstance(w)
  \/ NotWaiting(w)
  \/ CountCompleted(w)
  \/ CountFailed(w)
  \/ StillPending(w)
  \/ FailWorkflow(w)
  \/ ResumeWithoutTransition(w)
  \/ ResumePendingTransition(w)
  \/ executeDeferredStep(w)

Next ==
  \/ \E p \in Proc : Execute(p)
  \/ \E w \in Workers : Work(w)
  \/ \E p \in Proc : Crash(p)
  \/ retry

\* Every process that is not killed goes on; nobody has to retry or to crash.
Fairness ==
  /\ \A p \in Proc : WF_vars(Execute(p))
  /\ \A w \in Workers : WF_vars(Work(w))

Spec == Init /\ [][Next]_vars /\ Fairness

-----------------------------------------------------------------------------
(* Properties *)

SystemTypeOK ==
  /\ inst \in Instance
  /\ jobs \in [Job -> JobRecord]
  /\ nextJob \in 1..(MaxJobs + 1)
  /\ completed \subseteq Job \X Nat
  /\ failed \subseteq Job \X Nat
  /\ pc \in [Proc -> {"idle", "execute", "loop", "complete", "move", "enqueue", "run",
                      "resume", "countCompleted", "countFailed", "decide", "enter"}]
  /\ host \in [Proc -> Proc]
  /\ view \in [Proc -> Instance]
  /\ local \in [Proc -> Locals]
  /\ entered \in [Step -> Nat]
  /\ retries \in Nat
  /\ crashes \in Nat

RaceTypeOK == overtaken \subseteq Workers /\ raced \in BOOLEAN

\* Every variable keeps its type.
TypeOK == SystemTypeOK /\ RaceTypeOK

Created == 1..(nextJob - 1)
Done(j) == \E e \in completed : e[1] = j

\* The comment of resumeWorkflowAfterActivities (workflow-executor.ts:619)
\* "Checks if all activities are done": the instance stands behind a
\* transition only if every job that transition enqueued has completed.
NoAdvancePastUnfinished ==
  \A j \in Created : inst.step >= jobs[j].transition => Done(j)

\* Outputs of activities are not lost: an instance that runs behind a
\* transition carries the results of all the transition's jobs.
OutputsMerged ==
  \A j \in Created : inst.step >= jobs[j].transition => j \in inst.context.results

\* The check of resumeWorkflowAfterActivities is not atomic with what follows,
\* and two workers that check at once both take the pending transition.  Short
\* of a worker acting on a check that another one has overtaken, no step is
\* executed twice, whatever is killed, delivered again or retried by hand.
StepsExecutedOnce == raced \/ \A s \in Step : entered[s] <= 1

\* WAITING_FOR_ACTIVITIES always belongs to a pending transition out of the
\* current step, with the jobs it waits for.
WaitingIsPending ==
  inst.status = "WAITING" =>
    /\ inst.pendingTo = inst.step + 1
    /\ Cardinality(inst.context.tracked) = Acts[inst.pendingTo]
    /\ \A j \in inst.context.tracked : jobs[j].transition = inst.pendingTo

\* In a chain with several pauses, with kills and retries, a late worker may
\* write its resumption over the next pause, but only on an overtaken check.
PausesPending == raced \/ WaitingIsPending

\* A worker that logged the last missing event of a pause while the instance
\* was already waiting gets it going again or fails it.
LastEventWakes ==
  \A w \in Workers :
    (pc[w] = "resume" /\ inst.status = "WAITING"
       /\ \A j \in inst.context.tracked : \E e \in completed \cup failed : e[1] = j)
      ~> inst.status # "WAITING"

\* docs/docs/framework/workflows/architecture.mdx:286 "Workflow resumes from
\* WAITING_FOR_ACTIVITIES to RUNNING".
WaitingEnds == inst.status = "WAITING" ~> inst.status # "WAITING"
=============================================================================
