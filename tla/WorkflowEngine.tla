--------------------------- MODULE WorkflowEngine ---------------------------
(***************************************************************************)
(* The workflow engine of modules/workflows: one instance of a definition, *)
(* driven by requests that run concurrently in the web processes.          *)
(*   lib/workflow-executor.ts    the execution loop, completion, failure   *)
(*   lib/transition-handler.ts   taking a transition                       *)
(*   lib/step-handler.ts         entering and leaving a step               *)
(*   lib/task-handler.ts, lib/signal-handler.ts, api/instances/[id]/...    *)
(*                               the requests                              *)
(* A request is a process: every action below lies between two awaits of   *)
(* its handler and holds at most one flush.  The workflow context is the   *)
(* set of the keys it holds; a condition or pre-condition asks for a key.  *)
(* Transitions with asynchronous activities are in WorkflowActivities.     *)
(***************************************************************************)
EXTENDS Integers, Sequences, FiniteSets, EntityManager

CONSTANTS
  Proc,           \* requests that can be in progress at the same time
  Background,     \* the one that executes the new instance first
  Step, StepType, \* the steps of the definition and their types
  Start,          \* the START step
  Transitions,    \* the sequence definition.transitions
  Key, NoKey,     \* keys of the context; NoKey: no condition, no data
  Concurrent,     \* FALSE: requests do not overlap
  MaxIterations,  \* the 100 of executeWorkflow
  MaxRequests,    \* bound: how many requests are made
  MaxFaults       \* bound: how many database errors and killed processes

Types == {"START", "END", "AUTOMATED", "USER_TASK", "WAIT_FOR_SIGNAL", "PARALLEL_FORK"}

Transition == [from : Step, to : Step, trigger : {"auto", "manual"},
               condition : Key \cup {NoKey}, preCondition : Key \cup {NoKey},
               activityMayFail : BOOLEAN]

\* activityMayFail: the transition has activities that may fail and does not
\* continue on failure, or leads to an AUTOMATED step with such activities.

ASSUME DefinitionAssumption ==
  /\ StepType \in [Step -> Types]
  /\ Start \in Step /\ StepType[Start] = "START"
  /\ Transitions \in Seq(Transition)
  /\ \A t \in DOMAIN Transitions : StepType[Transitions[t].from] # "END"

ASSUME ConstantsAssumption ==
  /\ Background \in Proc
  /\ NoKey \notin Key
  /\ Concurrent \in BOOLEAN
  /\ MaxIterations \in Nat \ {0} /\ MaxRequests \in Nat /\ MaxFaults \in Nat

VARIABLES
  inst,       \* the row of workflow_instances
  steps,      \* the rows of step_instances, each with the user task it has
  pc,         \* what each request does next
  local,      \* its loaded instance and the local variables of its calls
  visited,    \* history: the steps the instance has been moved to
  gaveUp,     \* history: the loop has reached its bound on iterations
  requests,   \* how many requests were made
  faults      \* how many faults occurred

vars == <<inst, steps, pc, local, visited, gaveUp, requests, faults>>
bounds == <<visited, gaveUp, requests, faults>>

Status == {"RUNNING", "PAUSED", "COMPLETED", "FAILED", "CANCELLED"}
Instance == [status : Status, step : Step, context : SUBSET Key]

Open == {"PENDING", "IN_PROGRESS"}

StepInstance == [step : Step, status : {"ACTIVE", "COMPLETED", "FAILED"},
                 task : Open \cup {"none", "COMPLETED"},
                 claimedBy : Proc \cup {NoKey}, formData : Key \cup {NoKey}]

Label == {"idle", "cancel", "retry", "claim", "complete", "read", "merge", "exit",
          "select", "execute", "loop", "finish", "transition", "enter", "body",
          "pause", "exitStep"}

Locals == [op : {"none", "run", "task", "signal", "advance"}, view : Instance,
           row : Nat, transition : Nat, data : Key \cup {NoKey}, iterations : Nat]

NewInstance == [status |-> "RUNNING", step |-> Start, context |-> {}]

Idle == [op |-> "none", view |-> NewInstance, row |-> 0, transition |-> 0,
         data |-> NoKey, iterations |-> 0]

\* startWorkflow has created the instance and its request has scheduled the
\* background execution.
Init ==
  /\ inst = NewInstance
  /\ steps = <<>>
  /\ pc = [p \in Proc |-> IF p = Background THEN "execute" ELSE "idle"]
  /\ local = [p \in Proc |-> IF p = Background THEN [Idle EXCEPT !.op = "run"] ELSE Idle]
  /\ visited = {Start}
  /\ gaveUp = FALSE
  /\ requests = 0
  /\ faults = 0

-----------------------------------------------------------------------------
View(p) == local[p].view
Type(view) == StepType[view.step]

Goto(p, label) == pc' = [pc EXCEPT ![p] = label]

\* Go on at label with the local variables l.
Continue(p, label, l) ==
  /\ Goto(p, label)
  /\ local' = [local EXCEPT ![p] = l]

\* The handler returns, answers with an error, or its exception is logged.
Return(p) == Continue(p, "idle", Idle)

\* Flush the view changed into new and go on at label.
Save(p, new, label) ==
  /\ inst' = Flush(inst, View(p), new)
  /\ Continue(p, label, [local[p] EXCEPT !.view = new])

\* Mutant of With: absent data is merged as well.
With_Absent(context, data) == context \cup {data}

\* Mutant of With: the data replaces the context.
With_Replaces(context, data) == {data} \ {NoKey}

With(context, data) == context \cup ({data} \ {NoKey})

Holds(key, context) == key = NoKey \/ key \in context

\* Mutant of Outgoing: the filter on fromStepId is missing.
Outgoing_Unfiltered(step) == DOMAIN Transitions

\* definition.transitions.filter(t => t.fromStepId === step)
Outgoing(step) == {t \in DOMAIN Transitions : Transitions[t].from = step}

AutoTransitions(T) == {t \in T : Transitions[t].trigger = "auto"}

\* evaluateTransition looks a transition up by its two steps: of several that
\* connect the same steps the first one is found for all.
Found(t) ==
  \A u \in 1..(t - 1) : \/ Transitions[u].from # Transitions[t].from
                        \/ Transitions[u].to # Transitions[t].to

\* findValidTransitions: conditions only, in the order of the definition.
Valid(view) ==
  {t \in Outgoing(view.step) :
     Found(t) /\ Holds(Transitions[t].condition, view.context)}

IsFirst(t, T) == t \in T /\ \A u \in T : t <= u

-----------------------------------------------------------------------------
(* executeWorkflow. *)

\* The status check at the top.  A request that has loaded the instance
\* before gets that copy from its entity manager again, not the row; only
\* the background execution and the advance route see the row here.
executeWorkflow(p) ==
  /\ pc[p] = "execute"
  /\ LET view == IF local[p].op \in {"run", "advance"} THEN inst ELSE View(p)
     IN IF view.status \in {"COMPLETED", "CANCELLED"}
          THEN Return(p)
          ELSE Continue(p, "loop", [Idle EXCEPT !.op = "run", !.view = view])
  /\ UNCHANGED <<inst, steps, bounds>>

\* The steps at which the loop looks for an automatic transition.
Automatic(view) == Type(view) \notin {"END", "USER_TASK", "WAIT_FOR_SIGNAL"}

\* One iteration: reload the row, then stop, complete, or take a transition.
Reload(p, label, l) ==
  /\ pc[p] = "loop"
  /\ Continue(p, label, [l EXCEPT !.view = inst, !.iterations = @ + 1])
  /\ UNCHANGED <<inst, steps, bounds>>

\* Mutant of ReachEnd: a step without automatic transitions ends it too.
ReachEnd_NoAutomatic(p) ==
  /\ local[p].iterations < MaxIterations
  /\ AutoTransitions(Valid(inst)) = {}
  /\ Reload(p, "finish", local[p])

ReachEnd(p) ==
  /\ local[p].iterations < MaxIterations
  /\ Type(inst) = "END"
  /\ Reload(p, "finish", local[p])

TakeFirst(p) ==
  /\ local[p].iterations < MaxIterations
  /\ Automatic(inst)
  /\ \E t \in DOMAIN Transitions :
       /\ IsFirst(t, AutoTransitions(Valid(inst)))
       /\ Reload(p, "transition", [local[p] EXCEPT !.transition = t])

\* Mutant of StopLooping: the iterations are not bounded.
StopLooping_Unbounded(p) ==
  /\ pc[p] = "loop"
  /\ \/ Type(inst) \in {"USER_TASK", "WAIT_FOR_SIGNAL"}
     \/ Automatic(inst) /\ AutoTransitions(Valid(inst)) = {}
  /\ Return(p)
  /\ UNCHANGED <<inst, steps, bounds>>

\* Wait for somebody, no valid transition, or 'Maximum execution iterations
\* reached': the call returns and the status stays what it is.
StopLooping(p) ==
  /\ pc[p] = "loop"
  /\ \/ local[p].iterations = MaxIterations
     \/ Type(inst) \in {"USER_TASK", "WAIT_FOR_SIGNAL"}
     \/ Automatic(inst) /\ AutoTransitions(Valid(inst)) = {}
  /\ Return(p)
  /\ gaveUp' = (gaveUp \/ local[p].iterations = MaxIterations)
  /\ UNCHANGED <<inst, steps, visited, requests, faults>>

\* completeWorkflow(COMPLETED).
completeWorkflow(p) ==
  /\ pc[p] = "finish"
  /\ inst' = Flush(inst, View(p), [View(p) EXCEPT !.status = "COMPLETED"])
  /\ Return(p)
  /\ UNCHANGED <<steps, bounds>>

\* A query of the loop throws: the outer catch fails a RUNNING instance.
ExecutionError(p) ==
  /\ pc[p] = "loop"
  /\ faults < MaxFaults
  /\ faults' = faults + 1
  /\ inst' = Flush(inst, View(p),
                   [View(p) EXCEPT !.status = IF @ = "RUNNING" THEN "FAILED" ELSE @])
  /\ Return(p)
  /\ UNCHANGED <<steps, visited, gaveUp, requests>>

-----------------------------------------------------------------------------
(* executeTransition and executeStep. *)

Taken(p) == Transitions[local[p].transition]

\* Mutant of RejectTransition: the step is set before the pre-conditions are
\* evaluated.
RejectTransition_MovesFirst(p) ==
  /\ pc[p] = "transition"
  /\ ~Holds(Taken(p).preCondition, View(p).context) \/ Taken(p).activityMayFail
  /\ inst' = Flush(inst, View(p), [View(p) EXCEPT !.step = Taken(p).to])
  /\ Return(p)
  /\ UNCHANGED <<steps, bounds>>

\* The pre-conditions reject the transition, or an activity fails and
\* continueOnActivityFailure is false: success: false, nothing is written.
RejectTransition(p) ==
  /\ pc[p] = "transition"
  /\ ~Holds(Taken(p).preCondition, View(p).context) \/ Taken(p).activityMayFail
  /\ Return(p)
  /\ UNCHANGED <<inst, steps, bounds>>

executeTransition(p) ==
  /\ pc[p] = "transition"
  /\ Holds(Taken(p).preCondition, View(p).context)
  /\ Save(p, [View(p) EXCEPT !.step = Taken(p).to], "enter")
  /\ visited' = visited \cup {Taken(p).to}
  /\ UNCHANGED <<steps, gaveUp, requests, faults>>

enterStep(p) ==
  /\ pc[p] = "enter"
  /\ steps' = Append(steps, [step |-> View(p).step, status |-> "ACTIVE", task |-> "none",
                             claimedBy |-> NoKey, formData |-> NoKey])
  /\ Continue(p, "body", [local[p] EXCEPT !.row = Len(steps) + 1])
  /\ UNCHANGED <<inst, bounds>>

\* START, END, AUTOMATED: the handlers that complete at once.
handleAutomatedStep(p) ==
  /\ pc[p] = "body"
  /\ Type(View(p)) \in {"START", "END", "AUTOMATED"}
  /\ Goto(p, "exitStep")
  /\ UNCHANGED <<inst, steps, local, bounds>>

\* A synchronous activity of the step fails: the transition has no success,
\* the step instance is not touched.
ActivityFails(p) ==
  /\ pc[p] = "body"
  /\ Type(View(p)) = "AUTOMATED"
  /\ Taken(p).activityMayFail
  /\ Return(p)
  /\ UNCHANGED <<inst, steps, bounds>>

\* A step type that throws: the catch fails an ACTIVE row of that step.
StepTypeNotImplemented(p) ==
  /\ pc[p] = "body"
  /\ Type(View(p)) = "PARALLEL_FORK"
  /\ \E r \in DOMAIN steps :
       /\ steps[r].step = View(p).step
       /\ steps[r].status = "ACTIVE"
       /\ steps' = [steps EXCEPT ![r].status = "FAILED"]
  /\ Return(p)
  /\ UNCHANGED <<inst, bounds>>

\* The task is created first, the instance paused by a second flush.
handleUserTaskStep(p) ==
  /\ pc[p] = "body"
  /\ Type(View(p)) = "USER_TASK"
  /\ steps' = [steps EXCEPT ![local[p].row].task = "PENDING"]
  /\ Goto(p, "pause")
  /\ UNCHANGED <<inst, local, bounds>>

handleWaitForSignalStep(p) ==
  /\ pc[p] = "body"
  /\ Type(View(p)) = "WAIT_FOR_SIGNAL"
  /\ Goto(p, "pause")
  /\ UNCHANGED <<inst, steps, local, bounds>>

\* After a successful transition the executor loops; the other callers of
\* executeTransition call executeWorkflow.
AfterStep(p) == IF local[p].op = "run" THEN "loop" ELSE "execute"

Pause(p) ==
  /\ pc[p] = "pause"
  /\ Save(p, [View(p) EXCEPT !.status = "PAUSED"], AfterStep(p))
  /\ UNCHANGED <<steps, bounds>>

exitStep(p) ==
  /\ pc[p] = "exitStep"
  /\ steps' = [steps EXCEPT ![local[p].row].status = "COMPLETED"]
  /\ Goto(p, AfterStep(p))
  /\ UNCHANGED <<inst, local, bounds>>

-----------------------------------------------------------------------------
(* The requests. *)

Request(p, label, l) ==
  /\ pc[p] = "idle"
  /\ requests < MaxRequests
  /\ Concurrent \/ \A q \in Proc : pc[q] = "idle"
  /\ requests' = requests + 1
  /\ Continue(p, label, l)
  /\ UNCHANGED <<inst, steps, visited, gaveUp, faults>>

\* A request that has passed the checks of its route on a fresh instance.
WithInstance(p, label, op, data) ==
  Request(p, label, [Idle EXCEPT !.op = op, !.view = inst, !.data = data])

cancel(p) ==
  /\ inst.status \in {"RUNNING", "PAUSED"}
  /\ WithInstance(p, "cancel", "none", NoKey)

\* completeWorkflow(CANCELLED); open tasks are left alone.
CancelWorkflow(p) ==
  /\ pc[p] = "cancel"
  /\ inst' = Flush(inst, View(p), [View(p) EXCEPT !.status = "CANCELLED"])
  /\ Return(p)
  /\ UNCHANGED <<steps, bounds>>

retry(p) ==
  /\ inst.status = "FAILED"
  /\ WithInstance(p, "retry", "run", NoKey)

ResetToRunning(p) ==
  /\ pc[p] = "retry"
  /\ Save(p, [View(p) EXCEPT !.status = "RUNNING"], "loop")
  /\ UNCHANGED <<steps, bounds>>

\* advance: status check; the context updates; a valid transition, manual or
\* not, that the request names or the first.
advance(p, data) ==
  /\ inst.status \notin {"COMPLETED", "CANCELLED", "FAILED"}
  /\ WithInstance(p, "merge", "advance", data)

SelectTransition(p) ==
  /\ pc[p] = "select"
  /\ local[p].op = "advance"
  /\ \/ \E t \in Valid(View(p)) :
          Continue(p, "transition", [local[p] EXCEPT !.transition = t])
     \/ Return(p)
  /\ UNCHANGED <<inst, steps, bounds>>

\* claimUserTask: find a PENDING task of a role, then write.
claimUserTask(p, r) ==
  /\ steps[r].task = "PENDING"
  /\ Request(p, "claim", [Idle EXCEPT !.row = r])

WriteClaim(p) ==
  /\ pc[p] = "claim"
  /\ steps' = [steps EXCEPT ![local[p].row].task = "IN_PROGRESS",
                            ![local[p].row].claimedBy = p]
  /\ Return(p)
  /\ UNCHANGED <<inst, bounds>>

\* completeUserTask: find an open task and validate the form, then write.
completeUserTask(p, r, data) ==
  /\ steps[r].task \in Open
  /\ Request(p, "complete", [Idle EXCEPT !.op = "task", !.row = r, !.data = data])

WriteCompletion(p) ==
  /\ pc[p] = "complete"
  /\ steps' = [steps EXCEPT ![local[p].row].task = "COMPLETED",
                            ![local[p].row].formData = local[p].data]
  /\ Goto(p, "read")
  /\ UNCHANGED <<inst, local, bounds>>

ReadInstance(p) ==
  /\ pc[p] = "read"
  /\ Continue(p, "merge", [local[p] EXCEPT !.view = inst])
  /\ UNCHANGED <<inst, steps, bounds>>

\* sendSignal: the instance is PAUSED at a step that waits for this signal.
sendSignal(p, data) ==
  /\ inst.status = "PAUSED"
  /\ Type(inst) = "WAIT_FOR_SIGNAL"
  /\ WithInstance(p, "merge", "signal", data)

\* Form data, payload or context updates go into the context of the view;
\* the next flush writes the whole column.
MergeData(p) ==
  /\ pc[p] = "merge"
  /\ Save(p, [View(p) EXCEPT !.context = With(@, local[p].data)],
          IF local[p].op = "advance" THEN "select" ELSE "exit")
  /\ UNCHANGED <<steps, bounds>>

\* Mutant of Answered: looks for the current step instead of the task's.
Answered_CurrentStep(p) ==
  {r \in DOMAIN steps : steps[r].status = "ACTIVE" /\ steps[r].step = View(p).step}

\* The step instance the task or the signal belongs to, if it is ACTIVE.
Answered(p) ==
  {r \in DOMAIN steps :
     /\ steps[r].status = "ACTIVE"
     /\ IF local[p].op = "task" THEN r = local[p].row ELSE steps[r].step = View(p).step}

ExitAnswered(p) ==
  /\ pc[p] = "exit"
  /\ IF Answered(p) = {}
       THEN UNCHANGED steps
       ELSE \E r \in Answered(p) : steps' = [steps EXCEPT ![r].status = "COMPLETED"]
  /\ Goto(p, "select")
  /\ UNCHANGED <<inst, local, bounds>>

\* The first valid transition, whatever its trigger, provided the step has an
\* automatic one at all.
TakeFirstAnswered(p) ==
  /\ pc[p] = "select"
  /\ local[p].op \in {"task", "signal"}
  /\ AutoTransitions(Outgoing(View(p).step)) # {}
  /\ \E t \in DOMAIN Transitions :
       /\ IsFirst(t, Valid(View(p)))
       /\ Continue(p, "transition", [local[p] EXCEPT !.transition = t])
  /\ UNCHANGED <<inst, steps, bounds>>

\* Mutant of StayAnswered: RUNNING in every case.
StayAnswered_Resumes(p) ==
  /\ pc[p] = "select"
  /\ local[p].op \in {"task", "signal"}
  /\ AutoTransitions(Outgoing(View(p).step)) = {} \/ Valid(View(p)) = {}
  /\ inst' = Flush(inst, View(p), [View(p) EXCEPT !.status = "RUNNING"])
  /\ Return(p)
  /\ UNCHANGED <<steps, bounds>>

\* No transition to take.  A task without automatic transitions leaves the
\* status alone; every other case sets it to RUNNING.
StayAnswered(p) ==
  /\ pc[p] = "select"
  /\ local[p].op \in {"task", "signal"}
  /\ AutoTransitions(Outgoing(View(p).step)) = {} \/ Valid(View(p)) = {}
  /\ inst' = IF local[p].op = "task" /\ AutoTransitions(Outgoing(View(p).step)) = {}
               THEN inst
               ELSE Flush(inst, View(p), [View(p) EXCEPT !.status = "RUNNING"])
  /\ Return(p)
  /\ UNCHANGED <<steps, bounds>>

\* The process of the request is killed.
Crash(p) ==
  /\ pc[p] # "idle"
  /\ faults < MaxFaults
  /\ faults' = faults + 1
  /\ Return(p)
  /\ UNCHANGED <<inst, steps, visited, gaveUp, requests>>

-----------------------------------------------------------------------------
Arrive(p) ==
  \/ cancel(p)
  \/ retry(p)
  \/ \E d \in Key \cup {NoKey} : advance(p, d)
  \/ \E d \in Key \cup {NoKey} : sendSignal(p, d)
  \/ \E r \in DOMAIN steps : claimUserTask(p, r)
  \/ \E r \in DOMAIN steps, d \in Key \cup {NoKey} : completeUserTask(p, r, d)

Proceed(p) ==
  \/ executeWorkflow(p) \/ ReachEnd(p) \/ TakeFirst(p) \/ StopLooping(p)
  \/ completeWorkflow(p)
  \/ RejectTransition(p) \/ executeTransition(p)
  \/ enterStep(p) \/ handleAutomatedStep(p) \/ ActivityFails(p)
  \/ StepTypeNotImplemented(p) \/ handleUserTaskStep(p)
  \/ handleWaitForSignalStep(p) \/ Pause(p) \/ exitStep(p)
  \/ CancelWorkflow(p) \/ ResetToRunning(p) \/ SelectTransition(p)
  \/ WriteClaim(p) \/ WriteCompletion(p) \/ ReadInstance(p) \/ MergeData(p)
  \/ ExitAnswered(p) \/ TakeFirstAnswered(p) \/ StayAnswered(p)

Next ==
  \E p \in Proc : Arrive(p) \/ Proceed(p) \/ ExecutionError(p) \/ Crash(p)

\* A request in progress goes on; none has to arrive and nothing has to fail.
Fairness == \A p \in Proc : WF_vars(Proceed(p))

Spec == Init /\ [][Next]_vars /\ Fairness

-----------------------------------------------------------------------------
(* Properties *)

\* Every variable keeps its type.
TypeOK ==
  /\ inst \in Instance
  /\ steps \in Seq(StepInstance)
  /\ pc \in [Proc -> Label]
  /\ local \in [Proc -> Locals]
  /\ visited \subseteq Step
  /\ gaveUp \in BOOLEAN
  /\ requests \in Nat
  /\ faults \in Nat

AllIdle == \A p \in Proc : pc[p] = "idle"
Quiet == AllIdle /\ faults = 0

\* However requests overlap and fail, the instance only gets to steps that
\* transitions of the definition connect to the START step through steps it
\* has been at: no request applies a transition to a step never reached.
VisitedConnected ==
  \A s \in visited \ {Start} :
    \E t \in DOMAIN Transitions :
      Transitions[t].to = s /\ Transitions[t].from \in visited

\* Every request ends, also when automatic transitions form a cycle.
RequestsEnd == \A p \in Proc : pc[p] # "idle" ~> pc[p] = "idle"

\* Between requests, the step instances tell where the instance is: the last
\* one is of its current step.
HistoryAgrees ==
  Quiet /\ inst.step # Start => steps # <<>> /\ steps[Len(steps)].step = inst.step

\* Requests that do not overlap implement WorkflowLifecycle, faults included:
\* the instance moves along transitions from where it is, fails only when it
\* was RUNNING, and nothing changes it once it is COMPLETED.
Lifecycle ==
  INSTANCE WorkflowLifecycle
    WITH status <- inst.status, step <- inst.step,
         Edges <- {Transitions[t] : t \in DOMAIN Transitions}

ImplementsLifecycle == Lifecycle!LifecycleSpec

\* An instance is COMPLETED only at an END step, and an instance that reached
\* one is not left waiting: it is COMPLETED, or was cancelled before, unless
\* the loop had used up its iterations when it got there.
CompletedAtEnd ==
  /\ inst.status = "COMPLETED" => Type(inst) = "END"
  /\ Quiet /\ ~gaveUp /\ Type(inst) = "END" => inst.status \in {"COMPLETED", "CANCELLED"}

\* The data of a completed task is in the context whatever else the instance
\* went through.
FormDataKept ==
  Quiet => \A r \in DOMAIN steps :
             steps[r].task = "COMPLETED" =>
               {steps[r].formData} \ {NoKey} \subseteq inst.context

\* The step instance of a user task is left only with the task COMPLETED, and
\* with no request in progress a completed task has left its step instance.
TasksAnswerSteps ==
  \A r \in DOMAIN steps :
    StepType[steps[r].step] = "USER_TASK" =>
      /\ steps[r].status = "COMPLETED" => steps[r].task = "COMPLETED"
      /\ Quiet /\ steps[r].task = "COMPLETED" => steps[r].status = "COMPLETED"
=============================================================================
