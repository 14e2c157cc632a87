------------------------ MODULE WorkflowEngineProofs ------------------------
(***************************************************************************)
(* Type correctness of WorkflowEngine, and that overlapping and failing    *)
(* requests cannot take an instance to a step no path of the definition    *)
(* leads to, for every definition and every number of requests.  The       *)
(* argument: every copy of the instance a request works on, however stale, *)
(* is at a step the instance has been at, and a transition is only taken   *)
(* from the step of the copy it was selected for.                          *)
(***************************************************************************)
EXTENDS WorkflowEngine, SequenceTheorems, TLAPS

USE DefinitionAssumption, ConstantsAssumption

-----------------------------------------------------------------------------
(* The building blocks of the actions. *)

\* A flush leaves every column as it was or sets it to the new value.
LEMMA FlushType ==
  ASSUME NEW row \in Instance, NEW view \in Instance, NEW new \in Instance
  PROVE  /\ Flush(row, view, new) \in Instance
         /\ Flush(row, view, new).step \in {row.step, new.step}
<1> DEFINE f == Flush(row, view, new)
<1>1. DOMAIN row = {"status", "step", "context"}
  BY DEF Instance
<1>2. /\ f.status \in {row.status, new.status}
      /\ f.step \in {row.step, new.step}
      /\ f.context \in {row.context, new.context}
  BY <1>1 DEF Flush
<1>3. f = [status |-> f.status, step |-> f.step, context |-> f.context]
  BY <1>1 DEF Flush
<1> HIDE DEF f
<1>4. f \in Instance
  BY <1>2, <1>3 DEF Instance
<1> QED BY <1>2, <1>4 DEF f

LEMMA NewTypes == NewInstance \in Instance /\ Idle \in Locals
<1>1. NewInstance \in Instance
  BY DEF NewInstance, Instance, Status
<1> QED BY <1>1 DEF Idle, Locals

LEMMA ContinueType ==
  ASSUME TypeOK, NEW p \in Proc, NEW label \in Label, NEW l \in Locals,
         Continue(p, label, l)
  PROVE  pc' \in [Proc -> Label] /\ local' \in [Proc -> Locals]
BY DEF TypeOK, Continue, Goto

LEMMA ReturnType ==
  ASSUME TypeOK, NEW p \in Proc, Return(p)
  PROVE  pc' \in [Proc -> Label] /\ local' \in [Proc -> Locals]
BY ContinueType, NewTypes DEF Return, Label

LEMMA GotoType ==
  ASSUME TypeOK, NEW p \in Proc, NEW label \in Label, Goto(p, label)
  PROVE  pc' \in [Proc -> Label]
BY DEF TypeOK, Goto

LEMMA ViewType ==
  ASSUME TypeOK, NEW p \in Proc
  PROVE  local[p] \in Locals /\ View(p) \in Instance
BY DEF TypeOK, Locals, View

LEMMA SaveType ==
  ASSUME TypeOK, NEW p \in Proc, NEW new \in Instance, NEW label \in Label,
         Save(p, new, label)
  PROVE  /\ inst' \in Instance
         /\ pc' \in [Proc -> Label]
         /\ local' \in [Proc -> Locals]
<1>1. [local[p] EXCEPT !.view = new] \in Locals
  BY ViewType DEF Locals
<1>2. inst' \in Instance
  BY FlushType, ViewType DEF Save, TypeOK
<1> QED BY <1>1, <1>2, ContinueType DEF Save

LEMMA WriteType ==
  ASSUME TypeOK, NEW p \in Proc, NEW status \in Status,
         inst' = Flush(inst, View(p), [View(p) EXCEPT !.status = status])
  PROVE  inst' \in Instance
<1>1. [View(p) EXCEPT !.status = status] \in Instance
  BY ViewType DEF Instance
<1> QED BY <1>1, FlushType, ViewType DEF TypeOK

\* A write to a column of one step instance.
LEMMA RowType ==
  ASSUME TypeOK, NEW r, NEW row, steps' = [steps EXCEPT ![r] = row],
         r \in DOMAIN steps => row \in StepInstance
  PROVE  steps' \in Seq(StepInstance)
<1>1. CASE r \in 1..Len(steps)
  BY <1>1, ExceptSeq DEF TypeOK
<1>2. CASE r \notin 1..Len(steps)
  <2>1. DOMAIN steps = 1..Len(steps)
    BY DEF TypeOK
  <2>2. steps' = steps
    BY <1>2, <2>1 DEF TypeOK
  <2> QED BY <2>2 DEF TypeOK
<1> QED BY <1>1, <1>2

LEMMA DefinitionType == \A t \in DOMAIN Transitions : Transitions[t] \in Transition
BY ElementOfSeq

-----------------------------------------------------------------------------
(* Type correctness, by the parts of Next. *)

LEMMA InitTypeOK == Init => TypeOK
<1> SUFFICES ASSUME Init PROVE TypeOK
  OBVIOUS
<1>1. [Idle EXCEPT !.op = "run"] \in Locals
  BY NewTypes DEF Locals
<1>2. pc \in [Proc -> Label] /\ local \in [Proc -> Locals]
  BY <1>1, NewTypes DEF Init, Label
<1>3. gaveUp \in BOOLEAN
  BY Zenon DEF Init
<1>4. /\ inst \in Instance /\ steps \in Seq(StepInstance)
      /\ visited \subseteq Step /\ requests \in Nat /\ faults \in Nat
  BY NewTypes DEF Init
<1> QED BY <1>2, <1>3, <1>4 DEF TypeOK

LEMMA ExecutorType ==
  ASSUME TypeOK, NEW p \in Proc,
         \/ executeWorkflow(p) \/ ReachEnd(p) \/ TakeFirst(p) \/ StopLooping(p)
         \/ completeWorkflow(p) \/ ExecutionError(p)
  PROVE  TypeOK'
<1>0. local[p] \in Locals /\ View(p) \in Instance /\ inst \in Instance
  BY ViewType DEF TypeOK
<1>1. CASE executeWorkflow(p)
  <2> DEFINE view == IF local[p].op \in {"run", "advance"} THEN inst ELSE View(p)
  <2>1. view \in Instance
    BY <1>0
  <2>2. [Idle EXCEPT !.op = "run", !.view = view] \in Locals
    BY <2>1, NewTypes DEF Locals
  <2>3. \/ Return(p)
        \/ Continue(p, "loop", [Idle EXCEPT !.op = "run", !.view = view])
    BY <1>1 DEF executeWorkflow
  <2>4. "loop" \in Label
    BY DEF Label
  <2> HIDE DEF view
  <2>5. pc' \in [Proc -> Label] /\ local' \in [Proc -> Locals]
    BY <2>2, <2>3, <2>4, ReturnType, ContinueType
  <2> QED BY <1>1, <2>5 DEF executeWorkflow, TypeOK, bounds
<1>2. ASSUME NEW label \in Label, NEW l \in Locals, Reload(p, label, l)
      PROVE  TypeOK'
  <2>1. l.iterations + 1 \in Nat
    BY DEF Locals
  <2>2. [l EXCEPT !.view = inst, !.iterations = @ + 1] \in Locals
    BY <1>0, <2>1 DEF Locals
  <2> QED BY <1>2, <2>2, ContinueType DEF Reload, TypeOK, bounds
<1>3. CASE ReachEnd(p)
  BY <1>0, <1>2, <1>3 DEF ReachEnd, Label
<1>4. CASE TakeFirst(p)
  <2>1. PICK t \in DOMAIN Transitions :
          Reload(p, "transition", [local[p] EXCEPT !.transition = t])
    BY <1>4 DEF TakeFirst
  <2>2. [local[p] EXCEPT !.transition = t] \in Locals
    BY <1>0 DEF Locals
  <2> QED BY <1>2, <2>1, <2>2 DEF Label
<1>5. CASE StopLooping(p)
  BY <1>5, ReturnType DEF StopLooping, TypeOK, bounds
<1>6. CASE completeWorkflow(p)
  <2>1. inst' \in Instance
    BY <1>6, WriteType DEF completeWorkflow, Status
  <2> QED BY <1>6, <2>1, ReturnType DEF completeWorkflow, TypeOK, bounds
<1>7. CASE ExecutionError(p)
  <2> DEFINE status == IF View(p).status = "RUNNING" THEN "FAILED" ELSE View(p).status
  <2>1. status \in Status
    BY <1>0 DEF Instance, Status
  <2>2. inst' = Flush(inst, View(p), [View(p) EXCEPT !.status = status])
    BY <1>7 DEF ExecutionError
  <2> HIDE DEF status
  <2>3. inst' \in Instance
    BY <2>1, <2>2, WriteType
  <2> QED BY <1>7, <2>3, ReturnType DEF ExecutionError, TypeOK
<1> QED BY <1>1, <1>3, <1>4, <1>5, <1>6, <1>7

LEMMA TransitionType ==
  ASSUME TypeOK, NEW p \in Proc, local[p].transition \in DOMAIN Transitions,
         RejectTransition(p) \/ executeTransition(p)
  PROVE  TypeOK'
<1>1. CASE RejectTransition(p)
  BY <1>1, ReturnType DEF RejectTransition, TypeOK, bounds
<1>2. CASE executeTransition(p)
  <2>1. Taken(p).to \in Step
    BY DefinitionType DEF Taken, Transition
  <2>2. [View(p) EXCEPT !.step = Taken(p).to] \in Instance
    BY <2>1, ViewType DEF Instance
  <2>3. inst' \in Instance /\ pc' \in [Proc -> Label] /\ local' \in [Proc -> Locals]
    BY <1>2, <2>2, SaveType DEF executeTransition, Label
  <2> QED BY <1>2, <2>1, <2>3 DEF executeTransition, TypeOK
<1> QED BY <1>1, <1>2

LEMMA AfterStepType == \A p : AfterStep(p) \in Label
BY DEF AfterStep, Label

\* The columns of a step instance that are ever written.
LEMMA ColumnTypes ==
  ASSUME TypeOK, NEW r \in DOMAIN steps
  PROVE  /\ \A status \in {"COMPLETED", "FAILED"} :
              [steps[r] EXCEPT !.status = status] \in StepInstance
         /\ [steps[r] EXCEPT !.task = "PENDING"] \in StepInstance
         /\ \A p \in Proc :
              [steps[r] EXCEPT !.task = "IN_PROGRESS", !.claimedBy = p] \in StepInstance
         /\ \A data \in Key \cup {NoKey} :
              [steps[r] EXCEPT !.task = "COMPLETED", !.formData = data] \in StepInstance
<1>1. steps[r] \in StepInstance
  BY ElementOfSeq DEF TypeOK
<1> QED BY <1>1 DEF StepInstance, Open

LEMMA StepHandlerType ==
  ASSUME TypeOK, NEW p \in Proc,
         \/ enterStep(p) \/ handleAutomatedStep(p) \/ ActivityFails(p)
         \/ StepTypeNotImplemented(p) \/ handleUserTaskStep(p)
         \/ handleWaitForSignalStep(p) \/ Pause(p) \/ exitStep(p)
  PROVE  TypeOK'
<1>1. CASE enterStep(p)
  <2> DEFINE row == [step |-> View(p).step, status |-> "ACTIVE", task |-> "none",
                     claimedBy |-> NoKey, formData |-> NoKey]
  <2>1. row \in StepInstance
    BY ViewType DEF StepInstance, Instance
  <2>2. steps' = Append(steps, row)
    BY <1>1 DEF enterStep
  <2> HIDE DEF row
  <2>3. steps' \in Seq(StepInstance)
    BY <2>1, <2>2, AppendProperties DEF TypeOK
  <2>4. Len(steps) + 1 \in Nat
    BY DEF TypeOK
  <2>5. [local[p] EXCEPT !.row = Len(steps) + 1] \in Locals
    BY <2>4, ViewType DEF Locals
  <2>6. pc' \in [Proc -> Label] /\ local' \in [Proc -> Locals]
    BY <1>1, <2>5, ContinueType DEF enterStep, Label
  <2> QED BY <1>1, <2>3, <2>6 DEF enterStep, TypeOK, bounds
<1>2. CASE handleAutomatedStep(p)
  BY <1>2, GotoType DEF handleAutomatedStep, TypeOK, bounds, Label
<1>3. CASE ActivityFails(p)
  BY <1>3, ReturnType DEF ActivityFails, TypeOK, bounds
<1>4. CASE StepTypeNotImplemented(p)
  <2>1. PICK r \in DOMAIN steps : steps' = [steps EXCEPT ![r].status = "FAILED"]
    BY <1>4 DEF StepTypeNotImplemented
  <2>2. steps' = [steps EXCEPT ![r] = [steps[r] EXCEPT !.status = "FAILED"]]
    BY <2>1
  <2>3. steps' \in Seq(StepInstance)
    BY <2>2, ColumnTypes, RowType
  <2> QED BY <1>4, <2>3, ReturnType DEF StepTypeNotImplemented, TypeOK, bounds
<1>5. CASE handleUserTaskStep(p)
  <2>1. steps' = [steps EXCEPT ![local[p].row] =
                    [steps[local[p].row] EXCEPT !.task = "PENDING"]]
    BY <1>5 DEF handleUserTaskStep
  <2>2. steps' \in Seq(StepInstance)
    BY <2>1, ColumnTypes, RowType
  <2> QED BY <1>5, <2>2, GotoType DEF handleUserTaskStep, TypeOK, bounds, Label
<1>6. CASE handleWaitForSignalStep(p)
  BY <1>6, GotoType DEF handleWaitForSignalStep, TypeOK, bounds, Label
<1>7. CASE Pause(p)
  <2>1. [View(p) EXCEPT !.status = "PAUSED"] \in Instance
    BY ViewType DEF Instance, Status
  <2>2. inst' \in Instance /\ pc' \in [Proc -> Label] /\ local' \in [Proc -> Locals]
    BY <1>7, <2>1, AfterStepType, SaveType DEF Pause
  <2> QED BY <1>7, <2>2 DEF Pause, TypeOK, bounds
<1>8. CASE exitStep(p)
  <2>1. steps' = [steps EXCEPT ![local[p].row] =
                    [steps[local[p].row] EXCEPT !.status = "COMPLETED"]]
    BY <1>8 DEF exitStep
  <2>2. steps' \in Seq(StepInstance)
    BY <2>1, ColumnTypes, RowType
  <2> QED BY <1>8, <2>2, AfterStepType, GotoType DEF exitStep, TypeOK, bounds
<1> QED BY <1>1, <1>2, <1>3, <1>4, <1>5, <1>6, <1>7, <1>8

LEMMA ArriveType ==
  ASSUME TypeOK, NEW p \in Proc, Arrive(p)
  PROVE  TypeOK'
<1>1. ASSUME NEW label \in Label, NEW l \in Locals, Request(p, label, l)
      PROVE  TypeOK'
  BY <1>1, ContinueType DEF Request, TypeOK
<1>2. ASSUME NEW label \in Label, NEW op \in {"none", "run", "signal", "advance"},
             NEW data \in Key \cup {NoKey}, WithInstance(p, label, op, data)
      PROVE  TypeOK'
  <2>1. [Idle EXCEPT !.op = op, !.view = inst, !.data = data] \in Locals
    BY NewTypes DEF TypeOK, Locals
  <2> QED BY <1>1, <1>2, <2>1 DEF WithInstance
<1>3. CASE cancel(p) \/ retry(p)
  BY <1>2, <1>3 DEF cancel, retry, Label
<1>4. ASSUME NEW d \in Key \cup {NoKey}, advance(p, d) \/ sendSignal(p, d)
      PROVE  TypeOK'
  BY <1>2, <1>4 DEF advance, sendSignal, Label
<1>5. ASSUME NEW r \in DOMAIN steps, claimUserTask(p, r)
      PROVE  TypeOK'
  <2>1. r \in Nat
    BY DEF TypeOK
  <2>2. [Idle EXCEPT !.row = r] \in Locals
    BY <2>1, NewTypes DEF Locals
  <2> QED BY <1>1, <1>5, <2>2 DEF claimUserTask, Label
<1>6. ASSUME NEW r \in DOMAIN steps, NEW d \in Key \cup {NoKey},
             completeUserTask(p, r, d)
      PROVE  TypeOK'
  <2>1. r \in Nat
    BY DEF TypeOK
  <2>2. [Idle EXCEPT !.op = "task", !.row = r, !.data = d] \in Locals
    BY <2>1, NewTypes DEF Locals
  <2> QED BY <1>1, <1>6, <2>2 DEF completeUserTask, Label
<1> QED BY <1>3, <1>4, <1>5, <1>6 DEF Arrive

LEMMA RequestStepType ==
  ASSUME TypeOK, NEW p \in Proc,
         \/ CancelWorkflow(p) \/ ResetToRunning(p) \/ SelectTransition(p)
         \/ WriteClaim(p) \/ WriteCompletion(p) \/ ReadInstance(p) \/ MergeData(p)
         \/ ExitAnswered(p) \/ TakeFirstAnswered(p) \/ StayAnswered(p) \/ Crash(p)
  PROVE  TypeOK'
<1>0. local[p] \in Locals /\ View(p) \in Instance /\ inst \in Instance
  BY ViewType DEF TypeOK
<1>1. CASE CancelWorkflow(p)
  <2>1. inst' \in Instance
    BY <1>1, WriteType DEF CancelWorkflow, Status
  <2> QED BY <1>1, <2>1, ReturnType DEF CancelWorkflow, TypeOK, bounds
<1>2. CASE ResetToRunning(p)
  <2>1. [View(p) EXCEPT !.status = "RUNNING"] \in Instance
    BY <1>0 DEF Instance, Status
  <2>2. inst' \in Instance /\ pc' \in [Proc -> Label] /\ local' \in [Proc -> Locals]
    BY <1>2, <2>1, SaveType DEF ResetToRunning, Label
  <2> QED BY <1>2, <2>2 DEF ResetToRunning, TypeOK, bounds
<1>3. ASSUME NEW t \in DOMAIN Transitions,
             Continue(p, "transition", [local[p] EXCEPT !.transition = t])
      PROVE  pc' \in [Proc -> Label] /\ local' \in [Proc -> Locals]
  <2>1. t \in Nat
    OBVIOUS
  <2>2. [local[p] EXCEPT !.transition = t] \in Locals
    BY <1>0, <2>1 DEF Locals
  <2> QED BY <1>3, <2>2, ContinueType DEF Label
<1>4. CASE SelectTransition(p)
  <2>1. \A t \in Valid(View(p)) : t \in DOMAIN Transitions
    BY DEF Valid, Outgoing
  <2>2. pc' \in [Proc -> Label] /\ local' \in [Proc -> Locals]
    BY <1>3, <1>4, <2>1, ReturnType DEF SelectTransition
  <2> QED BY <1>4, <2>2 DEF SelectTransition, TypeOK, bounds
<1>5. CASE WriteClaim(p)
  <2>1. steps' = [steps EXCEPT ![local[p].row] =
                    [steps[local[p].row] EXCEPT !.task = "IN_PROGRESS", !.claimedBy = p]]
    BY <1>5 DEF WriteClaim
  <2>2. steps' \in Seq(StepInstance)
    BY <2>1, ColumnTypes, RowType
  <2> QED BY <1>5, <2>2, ReturnType DEF WriteClaim, TypeOK, bounds
<1>6. CASE WriteCompletion(p)
  <2>1. steps' = [steps EXCEPT ![local[p].row] =
                    [steps[local[p].row] EXCEPT !.task = "COMPLETED",
                                                !.formData = local[p].data]]
    BY <1>6 DEF WriteCompletion
  <2>2. local[p].data \in Key \cup {NoKey}
    BY <1>0 DEF Locals
  <2>3. steps' \in Seq(StepInstance)
    BY <2>1, <2>2, ColumnTypes, RowType
  <2> QED BY <1>6, <2>3, GotoType DEF WriteCompletion, TypeOK, bounds, Label
<1>7. CASE ReadInstance(p)
  <2>1. [local[p] EXCEPT !.view = inst] \in Locals
    BY <1>0 DEF Locals
  <2>2. pc' \in [Proc -> Label] /\ local' \in [Proc -> Locals]
    BY <1>7, <2>1, ContinueType DEF ReadInstance, Label
  <2> QED BY <1>7, <2>2 DEF ReadInstance, TypeOK, bounds
<1>8. CASE MergeData(p)
  <2>1. local[p].data \in Key \cup {NoKey}
    BY <1>0 DEF Locals
  <2>2. With(View(p).context, local[p].data) \in SUBSET Key
    BY <1>0, <2>1 DEF With, Instance
  <2>3. [View(p) EXCEPT !.context = With(@, local[p].data)] \in Instance
    BY <1>0, <2>2 DEF Instance
  <2>4. inst' \in Instance /\ pc' \in [Proc -> Label] /\ local' \in [Proc -> Locals]
    BY <1>8, <2>3, SaveType DEF MergeData, Label
  <2> QED BY <1>8, <2>4 DEF MergeData, TypeOK, bounds
<1>9. CASE ExitAnswered(p)
  <2>1. ASSUME NEW r \in Answered(p), steps' = [steps EXCEPT ![r].status = "COMPLETED"]
        PROVE  steps' \in Seq(StepInstance)
    <3>1. r \in DOMAIN steps
      BY DEF Answered
    <3>2. steps' = [steps EXCEPT ![r] = [steps[r] EXCEPT !.status = "COMPLETED"]]
      BY <2>1
    <3> QED BY <3>1, <3>2, ColumnTypes, RowType
  <2>2. steps' \in Seq(StepInstance)
    BY <1>9, <2>1 DEF ExitAnswered, TypeOK
  <2> QED BY <1>9, <2>2, GotoType DEF ExitAnswered, TypeOK, bounds, Label
<1>10. CASE TakeFirstAnswered(p)
  <2>1. pc' \in [Proc -> Label] /\ local' \in [Proc -> Locals]
    BY <1>3, <1>10 DEF TakeFirstAnswered
  <2> QED BY <1>10, <2>1 DEF TakeFirstAnswered, TypeOK, bounds
<1>11. CASE StayAnswered(p)
  <2>1. inst' \in Instance
    BY <1>0, <1>11, WriteType DEF StayAnswered, Status
  <2> QED BY <1>11, <2>1, ReturnType DEF StayAnswered, TypeOK, bounds
<1>12. CASE Crash(p)
  BY <1>12, ReturnType DEF Crash, TypeOK
<1> QED BY <1>1, <1>2, <1>4, <1>5, <1>6, <1>7, <1>8, <1>9, <1>10, <1>11, <1>12

-----------------------------------------------------------------------------
(* The inductive invariant. *)

\* What a request works on: a copy of the instance, however stale, at a step
\* the instance has been at, and a transition from the step of that copy.
Reached(p) == View(p).step \in visited

Selected(p) ==
  pc[p] = "transition" => local[p].transition \in Outgoing(View(p).step)

IInv ==
  /\ TypeOK
  /\ Start \in visited
  /\ inst.step \in visited
  /\ \A p \in Proc : Reached(p) /\ Selected(p)
  /\ VisitedConnected

\* A request goes on without moving the instance.
LEMMA StayReached ==
  ASSUME IInv, TypeOK', visited' = visited, inst'.step \in visited,
         NEW p \in Proc, NEW label, NEW l, Continue(p, label, l),
         l.view.step \in visited,
         label = "transition" => l.transition \in Outgoing(l.view.step)
  PROVE  IInv'
<1>1. ASSUME NEW q \in Proc
      PROVE  Reached(q)' /\ Selected(q)'
  <2>1. CASE q = p
    <3>1. local'[q] = l /\ pc'[q] = label
      BY <2>1 DEF IInv, TypeOK, Continue, Goto
    <3> QED BY <3>1 DEF Reached, Selected, View, Outgoing
  <2>2. CASE q # p
    <3>1. local'[q] = local[q] /\ pc'[q] = pc[q]
      BY <2>2 DEF IInv, TypeOK, Continue, Goto
    <3> QED BY <3>1 DEF IInv, Reached, Selected, View, Outgoing
  <2> QED BY <2>1, <2>2
<1> QED BY <1>1 DEF IInv, VisitedConnected

LEMMA ReturnReached ==
  ASSUME IInv, TypeOK', visited' = visited, inst'.step \in visited,
         NEW p \in Proc, Return(p)
  PROVE  IInv'
<1>1. Idle.view.step \in visited
  BY DEF Idle, NewInstance, IInv
<1> QED BY <1>1, StayReached DEF Return

LEMMA GotoReached ==
  ASSUME IInv, TypeOK', visited' = visited, inst' = inst, local' = local,
         NEW p \in Proc, NEW label, label # "transition", Goto(p, label)
  PROVE  IInv'
<1>1. Continue(p, label, local[p])
  BY DEF IInv, TypeOK, Continue
<1> QED BY <1>1, StayReached DEF IInv, Reached, View

\* A flush of a view whose step was not changed leaves the step of the row.
LEMMA FlushStep ==
  ASSUME IInv, NEW p \in Proc, NEW new \in Instance, new.step = View(p).step,
         inst' = Flush(inst, View(p), new)
  PROVE  inst'.step \in visited
BY FlushType, ViewType DEF IInv, TypeOK, Reached

LEMMA SaveReached ==
  ASSUME IInv, TypeOK', visited' = visited, NEW p \in Proc,
         NEW new \in Instance, new.step = View(p).step,
         NEW label, label # "transition", Save(p, new, label)
  PROVE  IInv'
<1>1. inst'.step \in visited
  BY FlushStep DEF Save
<1>2. [local[p] EXCEPT !.view = new].view.step \in visited
  BY ViewType DEF IInv, Reached, Locals
<1> QED BY <1>1, <1>2, StayReached DEF Save

LEMMA WriteReached ==
  ASSUME IInv, TypeOK', visited' = visited, NEW p \in Proc, NEW status \in Status,
         inst' = Flush(inst, View(p), [View(p) EXCEPT !.status = status]),
         Return(p)
  PROVE  IInv'
<1>1. /\ [View(p) EXCEPT !.status = status] \in Instance
      /\ [View(p) EXCEPT !.status = status].step = View(p).step
  BY ViewType DEF IInv, Instance
<1> QED BY <1>1, FlushStep, ReturnReached

\* A request has selected a transition from the step of its view.
LEMMA SelectReached ==
  ASSUME IInv, TypeOK', visited' = visited, inst' = inst, NEW p \in Proc,
         NEW l \in Locals, l.view.step \in visited,
         NEW t \in Outgoing(l.view.step),
         Continue(p, "transition", [l EXCEPT !.transition = t])
  PROVE  IInv'
<1>1. /\ [l EXCEPT !.transition = t].view = l.view
      /\ [l EXCEPT !.transition = t].transition = t
  BY DEF Locals
<1> QED BY <1>1, StayReached DEF IInv

LEMMA InitReached == Init => IInv
<1> SUFFICES ASSUME Init PROVE IInv
  OBVIOUS
<1>1. ASSUME NEW p \in Proc
      PROVE  Reached(p) /\ Selected(p)
  <2>1. pc[p] # "transition" /\ View(p) = NewInstance
    BY DEF Init, Idle, View
  <2> QED BY <2>1 DEF Init, NewInstance, Reached, Selected
<1>2. VisitedConnected
  BY DEF Init, VisitedConnected
<1> QED BY <1>1, <1>2, InitTypeOK DEF Init, NewInstance, IInv

LEMMA ExecutorReached ==
  ASSUME IInv, NEW p \in Proc,
         \/ executeWorkflow(p) \/ ReachEnd(p) \/ TakeFirst(p) \/ StopLooping(p)
         \/ completeWorkflow(p) \/ ExecutionError(p)
  PROVE  IInv'
<1>0. /\ TypeOK' /\ local[p] \in Locals /\ View(p) \in Instance
      /\ inst \in Instance /\ inst.step \in visited /\ View(p).step \in visited
  BY ExecutorType, ViewType DEF IInv, TypeOK, Reached
<1>1. CASE executeWorkflow(p)
  <2> DEFINE view == IF local[p].op \in {"run", "advance"} THEN inst ELSE View(p)
  <2>1. view.step \in visited
    BY <1>0
  <2>2. [Idle EXCEPT !.op = "run", !.view = view].view = view
    BY NewTypes DEF Locals
  <2>3. \/ Return(p)
        \/ Continue(p, "loop", [Idle EXCEPT !.op = "run", !.view = view])
    BY <1>1 DEF executeWorkflow
  <2>4. visited' = visited /\ inst' = inst
    BY <1>1 DEF executeWorkflow, bounds
  <2> HIDE DEF view
  <2> QED BY <1>0, <2>1, <2>2, <2>3, <2>4, ReturnReached, StayReached
<1>2. CASE ReachEnd(p)
  <2> DEFINE l == [local[p] EXCEPT !.view = inst, !.iterations = @ + 1]
  <2>1. l.view = inst
    BY <1>0 DEF Locals
  <2>2. Continue(p, "finish", l) /\ visited' = visited /\ inst' = inst
    BY <1>2 DEF ReachEnd, Reload, bounds
  <2> HIDE DEF l
  <2> QED BY <1>0, <2>1, <2>2, StayReached
<1>3. CASE TakeFirst(p)
  <2>1. PICK t \in DOMAIN Transitions :
          /\ IsFirst(t, AutoTransitions(Valid(inst)))
          /\ Reload(p, "transition", [local[p] EXCEPT !.transition = t])
    BY <1>3 DEF TakeFirst
  <2> DEFINE l == [[local[p] EXCEPT !.transition = t] EXCEPT
                     !.view = inst, !.iterations = @ + 1]
  <2>2. l.view = inst /\ l.transition = t
    BY <1>0 DEF Locals
  <2>3. Continue(p, "transition", l) /\ visited' = visited /\ inst' = inst
    BY <2>1 DEF Reload, bounds
  <2>4. t \in Outgoing(inst.step)
    BY <2>1 DEF IsFirst, AutoTransitions, Valid
  <2> HIDE DEF l
  <2> QED BY <1>0, <2>2, <2>3, <2>4, StayReached
<1>4. CASE StopLooping(p)
  BY <1>0, <1>4, ReturnReached DEF StopLooping, bounds
<1>5. CASE completeWorkflow(p)
  BY <1>0, <1>5, WriteReached DEF completeWorkflow, bounds, Status
<1>6. CASE ExecutionError(p)
  <2> DEFINE status == IF View(p).status = "RUNNING" THEN "FAILED" ELSE View(p).status
  <2>1. status \in Status
    BY <1>0 DEF Instance, Status
  <2>2. /\ inst' = Flush(inst, View(p), [View(p) EXCEPT !.status = status])
        /\ Return(p) /\ visited' = visited
    BY <1>6 DEF ExecutionError
  <2> HIDE DEF status
  <2> QED BY <1>0, <2>1, <2>2, WriteReached
<1> QED BY <1>1, <1>2, <1>3, <1>4, <1>5, <1>6

\* The one action that moves the instance: from the step of the view, which
\* has been visited, along a transition of the definition.
LEMMA TransitionReached ==
  ASSUME IInv, NEW p \in Proc, RejectTransition(p) \/ executeTransition(p)
  PROVE  IInv'
<1>0. /\ local[p].transition \in DOMAIN Transitions
      /\ Taken(p).from = View(p).step
  BY DEF RejectTransition, executeTransition, IInv, Selected, Outgoing, Taken
<1>1. TypeOK'
  BY <1>0, TransitionType DEF IInv
<1>2. CASE RejectTransition(p)
  BY <1>1, <1>2, ReturnReached DEF RejectTransition, bounds, IInv
<1>3. CASE executeTransition(p)
  <2> DEFINE new == [View(p) EXCEPT !.step = Taken(p).to]
  <2>1. new \in Instance /\ new.step = Taken(p).to
    BY <1>0, DefinitionType, ViewType DEF IInv, Taken, Transition, Instance
  <2>2. /\ inst' = Flush(inst, View(p), new)
        /\ Continue(p, "enter", [local[p] EXCEPT !.view = new])
        /\ visited' = visited \cup {Taken(p).to}
    BY <1>3 DEF executeTransition, Save
  <2> HIDE DEF new
  <2>3. inst'.step \in visited'
    BY <2>1, <2>2, FlushType, ViewType DEF IInv, TypeOK
  <2>4. ASSUME NEW q \in Proc
        PROVE  Reached(q)' /\ Selected(q)'
    <3>1. CASE q = p
      <4>1. View(p)' = new /\ pc'[p] = "enter"
        BY <2>2, ViewType DEF IInv, TypeOK, Continue, Goto, View, Locals
      <4> QED BY <2>1, <2>2, <3>1, <4>1 DEF Reached, Selected
    <3>2. CASE q # p
      <4>1. View(q)' = View(q) /\ local'[q] = local[q] /\ pc'[q] = pc[q]
        BY <2>2, <3>2 DEF IInv, TypeOK, Continue, Goto, View
      <4> QED BY <2>2, <4>1 DEF IInv, Reached, Selected, Outgoing
    <3> QED BY <3>1, <3>2
  <2>5. VisitedConnected'
    BY <1>0, <2>2 DEF IInv, VisitedConnected, Reached, Taken
  <2> QED BY <1>1, <2>2, <2>3, <2>4, <2>5 DEF IInv
<1> QED BY <1>2, <1>3

LEMMA StepHandlerReached ==
  ASSUME IInv, NEW p \in Proc,
         \/ enterStep(p) \/ handleAutomatedStep(p) \/ ActivityFails(p)
         \/ StepTypeNotImplemented(p) \/ handleUserTaskStep(p)
         \/ handleWaitForSignalStep(p) \/ Pause(p) \/ exitStep(p)
  PROVE  IInv'
<1>0. /\ TypeOK' /\ local[p] \in Locals /\ View(p) \in Instance
      /\ inst.step \in visited /\ View(p).step \in visited
  BY StepHandlerType, ViewType DEF IInv, Reached
<1>1. AfterStep(p) # "transition"
  BY DEF AfterStep
<1>2. CASE enterStep(p)
  <2>1. [local[p] EXCEPT !.row = Len(steps) + 1].view = View(p)
    BY <1>0 DEF Locals, View
  <2> QED BY <1>0, <1>2, <2>1, StayReached DEF enterStep, bounds
<1>3. CASE ActivityFails(p) \/ StepTypeNotImplemented(p)
  BY <1>0, <1>3, ReturnReached DEF ActivityFails, StepTypeNotImplemented, bounds
<1>4. CASE handleAutomatedStep(p) \/ handleUserTaskStep(p) \/ handleWaitForSignalStep(p)
  BY <1>0, <1>4, GotoReached
     DEF handleAutomatedStep, handleUserTaskStep, handleWaitForSignalStep, bounds
<1>5. CASE Pause(p)
  <2>1. /\ [View(p) EXCEPT !.status = "PAUSED"] \in Instance
        /\ [View(p) EXCEPT !.status = "PAUSED"].step = View(p).step
    BY <1>0 DEF Instance, Status
  <2> QED BY <1>0, <1>1, <1>5, <2>1, SaveReached DEF Pause, bounds
<1>6. CASE exitStep(p)
  BY <1>0, <1>1, <1>6, GotoReached DEF exitStep, bounds
<1> QED BY <1>2, <1>3, <1>4, <1>5, <1>6

LEMMA ArriveReached ==
  ASSUME IInv, NEW p \in Proc, Arrive(p)
  PROVE  IInv'
<1>0. TypeOK' /\ inst.step \in visited /\ Start \in visited
  BY ArriveType DEF IInv
<1>1. ASSUME NEW label \in Label \ {"transition"}, NEW l,
             l.view.step \in visited, Request(p, label, l)
      PROVE  IInv'
  BY <1>0, <1>1, StayReached DEF Request
<1>2. ASSUME NEW label \in Label \ {"transition"}, NEW op, NEW data,
             WithInstance(p, label, op, data)
      PROVE  IInv'
  <2>1. [Idle EXCEPT !.op = op, !.view = inst, !.data = data].view = inst
    BY DEF Idle
  <2> QED BY <1>0, <1>1, <1>2, <2>1 DEF WithInstance
<1>3. CASE cancel(p) \/ retry(p)
  BY <1>2, <1>3 DEF cancel, retry, Label
<1>4. ASSUME NEW d, advance(p, d) \/ sendSignal(p, d)
      PROVE  IInv'
  BY <1>2, <1>4 DEF advance, sendSignal, Label
<1>5. ASSUME NEW r, claimUserTask(p, r)
      PROVE  IInv'
  <2>1. [Idle EXCEPT !.row = r].view.step = Start
    BY DEF Idle, NewInstance
  <2> QED BY <1>0, <1>1, <1>5, <2>1 DEF claimUserTask, Label
<1>6. ASSUME NEW r, NEW d, completeUserTask(p, r, d)
      PROVE  IInv'
  <2>1. [Idle EXCEPT !.op = "task", !.row = r, !.data = d].view.step = Start
    BY DEF Idle, NewInstance
  <2> QED BY <1>0, <1>1, <1>6, <2>1 DEF completeUserTask, Label
<1> QED BY <1>3, <1>4, <1>5, <1>6 DEF Arrive

LEMMA RequestStepReached ==
  ASSUME IInv, NEW p \in Proc,
         \/ CancelWorkflow(p) \/ ResetToRunning(p) \/ SelectTransition(p)
         \/ WriteClaim(p) \/ WriteCompletion(p) \/ ReadInstance(p) \/ MergeData(p)
         \/ ExitAnswered(p) \/ TakeFirstAnswered(p) \/ StayAnswered(p) \/ Crash(p)
  PROVE  IInv'
<1>0. /\ TypeOK' /\ local[p] \in Locals /\ View(p) \in Instance
      /\ inst.step \in visited /\ View(p).step \in visited
      /\ local[p].view = View(p)
  BY RequestStepType, ViewType DEF IInv, Reached, View
<1>1. CASE CancelWorkflow(p)
  BY <1>0, <1>1, WriteReached DEF CancelWorkflow, bounds, Status
<1>2. CASE ResetToRunning(p)
  <2>1. /\ [View(p) EXCEPT !.status = "RUNNING"] \in Instance
        /\ [View(p) EXCEPT !.status = "RUNNING"].step = View(p).step
    BY <1>0 DEF Instance, Status
  <2> QED BY <1>0, <1>2, <2>1, SaveReached DEF ResetToRunning, bounds
<1>3. CASE SelectTransition(p)
  <2>1. \A t \in Valid(View(p)) : t \in Outgoing(View(p).step)
    BY DEF Valid
  <2> QED BY <1>0, <1>3, <2>1, ReturnReached, SelectReached DEF SelectTransition, bounds
<1>4. CASE WriteClaim(p)
  BY <1>0, <1>4, ReturnReached DEF WriteClaim, bounds
<1>5. CASE WriteCompletion(p) \/ ExitAnswered(p)
  BY <1>0, <1>5, GotoReached DEF WriteCompletion, ExitAnswered, bounds
<1>6. CASE ReadInstance(p)
  <2>1. [local[p] EXCEPT !.view = inst].view = inst
    BY <1>0 DEF Locals
  <2> QED BY <1>0, <1>6, <2>1, StayReached DEF ReadInstance, bounds
<1>7. CASE MergeData(p)
  <2> DEFINE new == [View(p) EXCEPT !.context = With(@, local[p].data)]
             label == IF local[p].op = "advance" THEN "select" ELSE "exit"
  <2>1. With(View(p).context, local[p].data) \in SUBSET Key
    BY <1>0 DEF With, Instance, Locals
  <2>2. new \in Instance /\ new.step = View(p).step
    BY <1>0, <2>1 DEF Instance
  <2>3. label # "transition"
    OBVIOUS
  <2>4. Save(p, new, label) /\ visited' = visited
    BY <1>7 DEF MergeData, bounds
  <2> HIDE DEF new, label
  <2> QED BY <1>0, <2>2, <2>3, <2>4, SaveReached
<1>8. CASE TakeFirstAnswered(p)
  <2>1. PICK t \in Outgoing(View(p).step) :
          Continue(p, "transition", [local[p] EXCEPT !.transition = t])
    BY <1>8 DEF TakeFirstAnswered, IsFirst, Valid
  <2> QED BY <1>0, <1>8, <2>1, SelectReached DEF TakeFirstAnswered, bounds
<1>9. CASE StayAnswered(p)
  <2>1. inst'.step \in visited
    <3>1. /\ [View(p) EXCEPT !.status = "RUNNING"] \in Instance
          /\ [View(p) EXCEPT !.status = "RUNNING"].step = View(p).step
      BY <1>0 DEF Instance, Status
    <3>2. CASE inst' = inst
      BY <1>0, <3>2
    <3>3. CASE inst' = Flush(inst, View(p), [View(p) EXCEPT !.status = "RUNNING"])
      BY <3>1, <3>3, FlushStep
    <3> QED BY <1>9, <3>2, <3>3 DEF StayAnswered
  <2> QED BY <1>0, <1>9, <2>1, ReturnReached DEF StayAnswered, bounds
<1>10. CASE Crash(p)
  BY <1>0, <1>10, ReturnReached DEF Crash
<1> QED BY <1>1, <1>2, <1>3, <1>4, <1>5, <1>6, <1>7, <1>8, <1>9, <1>10

LEMMA NextReached == IInv /\ [Next]_vars => IInv'
<1> SUFFICES ASSUME IInv, [Next]_vars PROVE IInv'
  OBVIOUS
<1>1. CASE Next
  <2>1. PICK p \in Proc : Arrive(p) \/ Proceed(p) \/ ExecutionError(p) \/ Crash(p)
    BY <1>1 DEF Next
  <2>2. CASE Arrive(p)
    BY <2>2, ArriveReached
  <2>3. CASE Proceed(p) \/ ExecutionError(p) \/ Crash(p)
    BY <2>3, ExecutorReached, TransitionReached, StepHandlerReached,
       RequestStepReached DEF Proceed
  <2> QED BY <2>1, <2>2, <2>3
<1>2. CASE UNCHANGED vars
  BY <1>2 DEF vars, IInv, TypeOK, Reached, Selected, View, Outgoing, VisitedConnected
<1> QED BY <1>1, <1>2

-----------------------------------------------------------------------------
(* The theorems. *)

\* Whatever the definition and however requests overlap, fail and are killed,
\* every column and every local variable keeps its type: no status and no
\* context the code does not know, no row of a step instance left half made.
THEOREM TypeCorrect == Spec => []TypeOK
<1>1. IInv => TypeOK
  BY DEF IInv
<1> QED BY <1>1, InitReached, NextReached, PTL DEF Spec

\* No request takes the instance to a step that no path of transitions through
\* visited steps connects to the START step, although the row it works on may
\* have been overwritten since it was read.
THEOREM OnlyConnectedSteps == Spec => []VisitedConnected
<1>1. IInv => VisitedConnected
  BY DEF IInv
<1> QED BY <1>1, InitReached, NextReached, PTL DEF Spec

-----------------------------------------------------------------------------
(***************************************************************************)
(* Requests that do not overlap (Concurrent is FALSE), for every           *)
(* definition and any number of requests, of faults and of killed          *)
(* processes: the engine implements WorkflowLifecycle, its step instances  *)
(* tell where the instance is, tasks and step instances agree, form data   *)
(* is kept, and an instance at an END step is COMPLETED.  The argument: of *)
(* a request that is alone the copy of the instance is the row, so that    *)
(* its flush writes what it means to write, and what it has found out      *)
(* about the instance and its step is still so when it acts on it.         *)
(***************************************************************************)

(* The invariant. *)

Alone == \A p, q \in Proc : pc[p] # "idle" /\ pc[q] # "idle" => p = q

\* Where a request has not loaded the instance.
Unloaded == {"idle", "claim", "complete", "read"}

\* What a request knows of the instance.
Knows(p) ==
  /\ pc[p] \notin Unloaded => View(p) = inst
  /\ pc[p] = "cancel" => inst.status \in {"RUNNING", "PAUSED"}
  /\ pc[p] = "retry" => inst.status = "FAILED"
  /\ pc[p] = "finish" => Type(inst) = "END"
  /\ pc[p] = "pause" => Type(inst) \in {"USER_TASK", "WAIT_FOR_SIGNAL"}
  /\ pc[p] = "exitStep" => Type(inst) \in {"START", "END", "AUTOMATED"}
  /\ pc[p] \in {"merge", "exit", "select"} /\ local[p].op = "signal"
       => Type(inst) = "WAIT_FOR_SIGNAL"

\* What it knows of the step instance it has entered or answers.
Handles(p) ==
  /\ pc[p] \in {"complete", "read"} => local[p].op = "task"
  /\ pc[p] = "merge" => local[p].op \in {"task", "signal", "advance"}
  /\ pc[p] = "exit" => local[p].op \in {"task", "signal"}
  /\ pc[p] \in {"claim", "complete", "body", "pause", "exitStep"}
       => local[p].row \in DOMAIN steps
  /\ pc[p] = "claim" => steps[local[p].row].task = "PENDING"
  /\ pc[p] \in {"read", "merge", "exit"} /\ local[p].op = "task"
       => local[p].row \in DOMAIN steps /\ steps[local[p].row].task = "COMPLETED"
  /\ pc[p] \in {"body", "pause", "exitStep"} => steps[local[p].row].step = inst.step
  /\ pc[p] = "body" => steps[local[p].row].status = "ACTIVE"

\* Request p answers the task of row r.
Answers(p, r, labels) ==
  pc[p] \in labels /\ local[p].op = "task" /\ local[p].row = r

\* An instance at an END step is COMPLETED, or cancelled, or on its way.
Arriving == {"enter", "body", "exitStep", "execute", "loop", "finish"}

EndsAtEnd ==
  /\ inst.status = "COMPLETED" => Type(inst) = "END"
  /\ faults = 0 /\ ~gaveUp /\ Type(inst) = "END"
       => \/ inst.status \in {"COMPLETED", "CANCELLED"}
          \/ \E p \in Proc : pc[p] \in Arriving

\* The last step instance is of the step of the instance, once it is entered.
LastEntered ==
  faults = 0 /\ inst.step # Start
    => \/ steps # <<>> /\ steps[Len(steps)].step = inst.step
       \/ \E p \in Proc : pc[p] = "enter"

\* The data of a completed task is in the context, or its request is about to
\* put it there.
DataArrives ==
  faults = 0 =>
    \A r \in DOMAIN steps : steps[r].task = "COMPLETED" =>
      \/ {steps[r].formData} \ {NoKey} \subseteq inst.context
      \/ \E p \in Proc : Answers(p, r, {"read", "merge"}) /\ local[p].data = steps[r].formData

\* The step instance of a user task is left with its task, or is about to be.
LeftWithTask(r) ==
  StepType[steps[r].step] = "USER_TASK" =>
    /\ steps[r].status \in {"ACTIVE", "COMPLETED"}
    /\ steps[r].status = "COMPLETED" => steps[r].task = "COMPLETED"
    /\ faults = 0 /\ steps[r].task = "COMPLETED"
         => \/ steps[r].status = "COMPLETED"
            \/ \E p \in Proc : Answers(p, r, {"read", "merge", "exit"})

SerialInv ==
  /\ Alone
  /\ \A p \in Proc : Knows(p) /\ Handles(p)
  /\ EndsAtEnd
  /\ LastEntered
  /\ DataArrives
  /\ \A r \in DOMAIN steps : LeftWithTask(r)


-----------------------------------------------------------------------------
(* What the actions do, when the copy of the instance is the row. *)

\* Nobody else is busy, before and after.
Sole(p) == \A q \in Proc \ {p} : pc[q] = "idle" /\ pc'[q] = "idle"

LEMMA GotoAlone ==
  ASSUME TypeOK, Alone, NEW p \in Proc, pc[p] # "idle", NEW label, Goto(p, label)
  PROVE  Sole(p) /\ pc'[p] = label
BY DEF TypeOK, Alone, Sole, Goto

LEMMA ContinueAlone ==
  ASSUME TypeOK, Alone, NEW p \in Proc, pc[p] # "idle", NEW label, NEW l, Continue(p, label, l)
  PROVE  Sole(p) /\ pc'[p] = label /\ local'[p] = l
BY GotoAlone DEF Continue, TypeOK

LEMMA FlushCurrent ==
  ASSUME NEW row \in Instance, NEW new \in Instance
  PROVE  Flush(row, row, new) = new
<1>1. DOMAIN row = {"status", "step", "context"} /\ DOMAIN new = {"status", "step", "context"}
  BY DEF Instance
<1>2. new = [c \in {"status", "step", "context"} |-> new[c]]
  BY DEF Instance
<1>3. QED
  BY <1>1, <1>2 DEF Flush

LEMMA StatusWritten ==
  ASSUME TypeOK, NEW p \in Proc, View(p) = inst, NEW status \in Status,
         inst' = Flush(inst, View(p), [View(p) EXCEPT !.status = status])
  PROVE  inst'.status = status /\ inst'.step = inst.step /\ inst'.context = inst.context
<1>1. inst \in Instance
  BY DEF TypeOK
<1>2. [inst EXCEPT !.status = status] \in Instance
  BY <1>1 DEF Instance
<1>3. inst' = [inst EXCEPT !.status = status]
  BY <1>1, <1>2, FlushCurrent
<1>4. QED
  BY <1>1, <1>3 DEF Instance

\* The local variables a saved view leaves alone.
Keeps(p) ==
  /\ local'[p].op = local[p].op
  /\ local'[p].row = local[p].row
  /\ local'[p].data = local[p].data

LEMMA SaveAlone ==
  ASSUME TypeOK, Alone, NEW p \in Proc, pc[p] # "idle", View(p) = inst,
         NEW new \in Instance, NEW label, Save(p, new, label)
  PROVE  Sole(p) /\ pc'[p] = label /\ inst' = new /\ View(p)' = inst' /\ Keeps(p)
<1>1. inst' = new
  BY FlushCurrent DEF Save, TypeOK
<1>2. Sole(p) /\ pc'[p] = label /\ local'[p] = [local[p] EXCEPT !.view = new]
  BY ContinueAlone DEF Save
<1>3. local[p] \in Locals
  BY ViewType
<1>4. QED
  BY <1>1, <1>2, <1>3 DEF Locals, View, Keeps

\* Only the request itself has changed.
Silent == UNCHANGED <<inst, steps, faults, gaveUp>>

LEMMA ExecuteActs ==
  ASSUME TypeOK, Alone, NEW p \in Proc, Knows(p), executeWorkflow(p)
  PROVE  /\ Sole(p) /\ Silent /\ pc[p] = "execute"
         /\ \/ pc'[p] = "idle" /\ inst.status \in {"COMPLETED", "CANCELLED"}
            \/ pc'[p] = "loop" /\ View(p)' = inst
<1>1. pc[p] = "execute" /\ View(p) = inst /\ Silent
  BY DEF executeWorkflow, Knows, Unloaded, Silent, bounds
<1>2. \/ inst.status \in {"COMPLETED", "CANCELLED"} /\ Return(p)
      \/ Continue(p, "loop", [Idle EXCEPT !.op = "run", !.view = inst])
  BY <1>1 DEF executeWorkflow
<1>3. PICK l : l = [Idle EXCEPT !.op = "run", !.view = inst]
  OBVIOUS
<1>4. l.view = inst
  BY <1>3 DEF Idle
<1>5. CASE inst.status \in {"COMPLETED", "CANCELLED"} /\ Return(p)
  BY <1>1, <1>5, ContinueAlone DEF Return
<1>6. CASE Continue(p, "loop", l)
  BY <1>1, <1>4, <1>6, ContinueAlone DEF View
<1>7. QED
  BY <1>2, <1>3, <1>5, <1>6

LEMMA ReloadActs ==
  ASSUME TypeOK, Alone, NEW p \in Proc, NEW label, NEW l \in Locals, Reload(p, label, l)
  PROVE  Sole(p) /\ Silent /\ pc[p] = "loop" /\ pc'[p] = label /\ View(p)' = inst
<1>1. PICK m : m = [l EXCEPT !.view = inst, !.iterations = @ + 1]
  OBVIOUS
<1>2. /\ pc[p] = "loop" /\ Continue(p, label, m) /\ Silent
      /\ m.view = inst
  BY <1>1 DEF Reload, Silent, bounds, Locals
<1>3. Sole(p) /\ pc'[p] = label /\ local'[p] = m
  BY <1>2, ContinueAlone
<1>4. QED
  BY <1>1, <1>2, <1>3 DEF View

LEMMA ReachEndActs ==
  ASSUME TypeOK, Alone, NEW p \in Proc, ReachEnd(p)
  PROVE  /\ Sole(p) /\ Silent /\ pc[p] = "loop" /\ pc'[p] = "finish"
         /\ View(p)' = inst /\ Type(inst) = "END"
BY ReloadActs, ViewType DEF ReachEnd

LEMMA TakeFirstActs ==
  ASSUME TypeOK, Alone, NEW p \in Proc, TakeFirst(p)
  PROVE  /\ Sole(p) /\ Silent /\ pc[p] = "loop" /\ pc'[p] = "transition"
         /\ View(p)' = inst /\ Type(inst) # "END"
<1>1. PICK t \in DOMAIN Transitions :
        Reload(p, "transition", [local[p] EXCEPT !.transition = t])
  BY DEF TakeFirst
<1>2. [local[p] EXCEPT !.transition = t] \in Locals
  <2>1. local[p] \in Locals
    BY ViewType
  <2>2. t \in Nat
    OBVIOUS
  <2>3. QED
    BY <2>1, <2>2 DEF Locals
<1>3. QED
  BY <1>1, <1>2, ReloadActs DEF TakeFirst, Automatic

LEMMA StopLoopingActs ==
  ASSUME TypeOK, Alone, NEW p \in Proc, StopLooping(p)
  PROVE  /\ Sole(p) /\ pc[p] = "loop" /\ pc'[p] = "idle"
         /\ UNCHANGED <<inst, steps, faults>>
         /\ gaveUp => gaveUp'
         /\ Type(inst) = "END" => gaveUp'
<1>1. Sole(p) /\ pc'[p] = "idle"
  BY ContinueAlone DEF StopLooping, Return
<1>2. QED
  BY <1>1 DEF StopLooping, Automatic

LEMMA CompleteActs ==
  ASSUME TypeOK, Alone, NEW p \in Proc, Knows(p), completeWorkflow(p)
  PROVE  /\ Sole(p) /\ pc[p] = "finish" /\ pc'[p] = "idle"
         /\ inst'.status = "COMPLETED" /\ inst'.step = inst.step /\ inst'.context = inst.context
         /\ UNCHANGED <<steps, faults, gaveUp>>
<1>1. Sole(p) /\ pc'[p] = "idle"
  BY ContinueAlone DEF completeWorkflow, Return
<1>2. pc[p] = "finish" /\ View(p) = inst
  BY DEF completeWorkflow, Knows, Unloaded
<1>3. QED
  BY <1>1, <1>2, StatusWritten DEF completeWorkflow, Status, bounds

LEMMA ErrorActs ==
  ASSUME TypeOK, Alone, NEW p \in Proc, Knows(p), ExecutionError(p)
  PROVE  /\ Sole(p) /\ pc[p] = "loop" /\ pc'[p] = "idle"
         /\ inst'.status = IF inst.status = "RUNNING" THEN "FAILED" ELSE inst.status
         /\ inst'.step = inst.step /\ inst'.context = inst.context
         /\ steps' = steps /\ faults' # 0
<1>1. Sole(p) /\ pc'[p] = "idle"
  BY ContinueAlone DEF ExecutionError, Return
<1>2. pc[p] = "loop" /\ View(p) = inst
  BY DEF ExecutionError, Knows, Unloaded
<1>3. faults' # 0
  BY DEF ExecutionError, TypeOK
<1>4. PICK status \in Status : status = IF inst.status = "RUNNING" THEN "FAILED" ELSE inst.status
  BY DEF TypeOK, Instance, Status
<1>5. inst' = Flush(inst, View(p), [View(p) EXCEPT !.status = status])
  BY <1>2, <1>4 DEF ExecutionError
<1>6. QED
  BY <1>1, <1>2, <1>3, <1>4, <1>5, StatusWritten DEF ExecutionError

\* The request returns and nothing else has changed.
LEMMA RejectActs ==
  ASSUME TypeOK, Alone, NEW p \in Proc, RejectTransition(p) \/ ActivityFails(p)
  PROVE  /\ Sole(p) /\ Silent /\ pc'[p] = "idle"
         /\ \/ pc[p] = "transition"
            \/ pc[p] = "body" /\ Type(View(p)) = "AUTOMATED"
BY ContinueAlone DEF RejectTransition, ActivityFails, Return, Silent, bounds

LEMMA TransitionActs ==
  ASSUME IInv, Alone, NEW p \in Proc, Knows(p), executeTransition(p)
  PROVE  /\ Sole(p) /\ pc[p] = "transition" /\ pc'[p] = "enter" /\ View(p)' = inst'
         /\ inst'.status = inst.status /\ inst'.context = inst.context
         /\ \E t \in DOMAIN Transitions : /\ Transitions[t].from = inst.step
                                          /\ Transitions[t].to = inst'.step
         /\ UNCHANGED <<steps, faults, gaveUp>>
<1>1. pc[p] = "transition" /\ View(p) = inst /\ TypeOK /\ inst \in Instance
  BY DEF executeTransition, Knows, Unloaded, IInv, TypeOK
<1>2. PICK t \in DOMAIN Transitions : t = local[p].transition /\ Transitions[t].from = inst.step
  BY <1>1 DEF IInv, Selected, Outgoing
<1>3. PICK new : new = [inst EXCEPT !.step = Transitions[t].to]
  OBVIOUS
<1>4. new \in Instance /\ new.step = Transitions[t].to /\ new.status = inst.status
      /\ new.context = inst.context
  BY <1>1, <1>3, DefinitionType DEF Instance, Transition
<1>5. Save(p, new, "enter")
  BY <1>1, <1>2, <1>3 DEF executeTransition, Taken
<1>6. Sole(p) /\ pc'[p] = "enter" /\ inst' = new /\ View(p)' = inst'
  BY <1>1, <1>4, <1>5, SaveAlone
<1>7. QED
  BY <1>1, <1>2, <1>4, <1>6 DEF executeTransition

\* A write to columns of a step instance: the others, their number and their
\* steps stay.
Changed(r, status, task, data) ==
  /\ r \in DOMAIN steps
  /\ DOMAIN steps' = DOMAIN steps /\ Len(steps') = Len(steps)
  /\ \A s \in DOMAIN steps : steps'[s].step = steps[s].step
  /\ \A s \in DOMAIN steps \ {r} : steps'[s] = steps[s]
  /\ steps'[r].status = status /\ steps'[r].task = task /\ steps'[r].formData = data

LEMMA RowChanged ==
  ASSUME TypeOK, NEW r \in DOMAIN steps, NEW row \in StepInstance,
         row.step = steps[r].step, steps' = [steps EXCEPT ![r] = row]
  PROVE  Changed(r, row.status, row.task, row.formData)
<1>1. /\ steps \in Seq(StepInstance) /\ r \in 1..Len(steps)
      /\ DOMAIN steps = 1..Len(steps) /\ DOMAIN steps' = DOMAIN steps
  BY DEF TypeOK
<1>2. /\ Len(steps') = Len(steps)
      /\ \A s \in 1..Len(steps) : steps'[s] = IF s = r THEN row ELSE steps[s]
  BY <1>1, ExceptSeq
<1>3. QED
  BY <1>1, <1>2 DEF Changed

LEMMA RowsAreRows == ASSUME TypeOK PROVE \A r \in DOMAIN steps : steps[r] \in StepInstance
BY ElementOfSeq DEF TypeOK

LEMMA StatusChanged ==
  ASSUME TypeOK, NEW r \in DOMAIN steps, NEW status \in {"COMPLETED", "FAILED"},
         steps' = [steps EXCEPT ![r].status = status]
  PROVE  Changed(r, status, steps[r].task, steps[r].formData)
<1>1. PICK row : row = [steps[r] EXCEPT !.status = status]
  OBVIOUS
<1>2. row \in StepInstance /\ steps[r] \in StepInstance /\ steps' = [steps EXCEPT ![r] = row]
  <2>1. row \in StepInstance
    BY <1>1, ColumnTypes
  <2>2. steps' = [steps EXCEPT ![r] = row]
    BY <1>1
  <2>3. QED
    BY <2>1, <2>2, RowsAreRows
<1>3. /\ row.step = steps[r].step /\ row.status = status /\ row.task = steps[r].task
      /\ row.formData = steps[r].formData
  BY <1>1, <1>2 DEF StepInstance
<1>4. QED
  BY <1>2, <1>3, RowChanged

LEMMA EnterActs ==
  ASSUME TypeOK, Alone, NEW p \in Proc, Knows(p), enterStep(p)
  PROVE  /\ Sole(p) /\ pc[p] = "enter" /\ pc'[p] = "body" /\ View(p)' = inst
         /\ UNCHANGED <<inst, faults, gaveUp>>
         /\ Len(steps') = Len(steps) + 1 /\ DOMAIN steps' = DOMAIN steps \cup {Len(steps')}
         /\ local'[p].row = Len(steps') /\ local'[p].row \notin DOMAIN steps
         /\ \A r \in DOMAIN steps : steps'[r] = steps[r]
         /\ steps'[Len(steps')].step = inst.step /\ steps'[Len(steps')].status = "ACTIVE"
         /\ steps'[Len(steps')].task = "none"
<1>1. pc[p] = "enter" /\ View(p) = inst /\ UNCHANGED <<inst, faults, gaveUp>>
  BY DEF enterStep, Knows, Unloaded, bounds
<1>2. PICK row : row = [step |-> inst.step, status |-> "ACTIVE", task |-> "none",
                        claimedBy |-> NoKey, formData |-> NoKey]
  OBVIOUS
<1>3. PICK n : n = Len(steps) + 1
  OBVIOUS
<1>4. PICK l : l = [local[p] EXCEPT !.row = n]
  OBVIOUS
<1>5. l.row = n /\ l.view = View(p)
  BY <1>4, ViewType DEF Locals, View
<1>6. steps' = Append(steps, row) /\ Continue(p, "body", l)
  BY <1>1, <1>2, <1>3, <1>4 DEF enterStep
<1>7. /\ Sole(p) /\ pc'[p] = "body" /\ View(p)' = inst /\ local'[p].row = n
  BY <1>1, <1>5, <1>6, ContinueAlone DEF View
<1>8. row \in StepInstance
  BY <1>2 DEF StepInstance, TypeOK, Instance
<1>9. /\ DOMAIN steps = 1..Len(steps) /\ Len(steps) \in Nat
      /\ Len(steps') = n /\ DOMAIN steps' = 1..n /\ steps'[n] = row
      /\ \A r \in 1..Len(steps) : steps'[r] = steps[r]
  BY <1>3, <1>6, <1>8, AppendProperties DEF TypeOK
<1>10. /\ DOMAIN steps' = DOMAIN steps \cup {n} /\ n \notin DOMAIN steps
  BY <1>3, <1>9
<1>11. row.step = inst.step /\ row.status = "ACTIVE" /\ row.task = "none"
  BY <1>2
<1>12. \A r \in DOMAIN steps : steps'[r] = steps[r]
  BY <1>9
<1>13. /\ Len(steps') = Len(steps) + 1 /\ DOMAIN steps' = DOMAIN steps \cup {Len(steps')}
       /\ local'[p].row = Len(steps') /\ local'[p].row \notin DOMAIN steps
  BY <1>3, <1>7, <1>9, <1>10
<1>14. steps'[Len(steps')] = row
  BY <1>9
<1>15. /\ steps'[Len(steps')].step = inst.step /\ steps'[Len(steps')].status = "ACTIVE"
       /\ steps'[Len(steps')].task = "none"
  BY <1>11, <1>14
<1>16. QED
  BY <1>1, <1>7, <1>12, <1>13, <1>15

\* A request goes on with its local variables.
Goes(p, label) == Sole(p) /\ pc'[p] = label /\ local' = local

LEMMA BodyActs ==
  ASSUME TypeOK, Alone, NEW p \in Proc, Knows(p),
         handleAutomatedStep(p) \/ handleWaitForSignalStep(p)
  PROVE  /\ Silent /\ pc[p] = "body"
         /\ \/ Goes(p, "exitStep") /\ Type(inst) \in {"START", "END", "AUTOMATED"}
            \/ Goes(p, "pause") /\ Type(inst) = "WAIT_FOR_SIGNAL"
BY GotoAlone DEF handleAutomatedStep, handleWaitForSignalStep, Goes, Silent, bounds, Knows, Unloaded

LEMMA UserTaskActs ==
  ASSUME TypeOK, Alone, NEW p \in Proc, Knows(p), Handles(p), handleUserTaskStep(p)
  PROVE  /\ Goes(p, "pause") /\ pc[p] = "body" /\ Type(inst) = "USER_TASK"
         /\ UNCHANGED <<inst, faults, gaveUp>>
         /\ \E r \in DOMAIN steps :
              r = local[p].row /\ Changed(r, steps[r].status, "PENDING", steps[r].formData)
<1>1. /\ pc[p] = "body" /\ Type(inst) = "USER_TASK" /\ Goes(p, "pause")
      /\ UNCHANGED <<inst, faults, gaveUp>>
  BY GotoAlone DEF handleUserTaskStep, Knows, Unloaded, bounds, Goes
<1>2. PICK r \in DOMAIN steps : r = local[p].row
  BY <1>1 DEF Handles
<1>3. PICK row : row = [steps[r] EXCEPT !.task = "PENDING"]
  OBVIOUS
<1>4. row \in StepInstance /\ steps[r] \in StepInstance /\ steps' = [steps EXCEPT ![r] = row]
  <2>1. row \in StepInstance
    BY <1>3, ColumnTypes
  <2>2. steps' = [steps EXCEPT ![r] = row]
    BY <1>2, <1>3 DEF handleUserTaskStep
  <2>3. QED
    BY <2>1, <2>2, RowsAreRows
<1>5. /\ row.step = steps[r].step /\ row.status = steps[r].status /\ row.task = "PENDING"
      /\ row.formData = steps[r].formData
  BY <1>3, <1>4 DEF StepInstance
<1>6. Changed(r, steps[r].status, "PENDING", steps[r].formData)
  BY <1>4, <1>5, RowChanged
<1>7. QED
  BY <1>1, <1>2, <1>6

LEMMA NotImplementedActs ==
  ASSUME TypeOK, Alone, NEW p \in Proc, Knows(p), StepTypeNotImplemented(p)
  PROVE  /\ Sole(p) /\ pc[p] = "body" /\ pc'[p] = "idle" /\ UNCHANGED <<inst, faults, gaveUp>>
         /\ Type(inst) = "PARALLEL_FORK"
         /\ \E r \in DOMAIN steps : /\ steps[r].step = inst.step
                                    /\ Changed(r, "FAILED", steps[r].task, steps[r].formData)
<1>1. /\ Sole(p) /\ pc[p] = "body" /\ pc'[p] = "idle" /\ UNCHANGED <<inst, faults, gaveUp>>
      /\ View(p) = inst /\ Type(inst) = "PARALLEL_FORK"
  BY ContinueAlone DEF StepTypeNotImplemented, Return, Knows, Unloaded, bounds
<1>2. PICK r \in DOMAIN steps :
        steps[r].step = inst.step /\ steps' = [steps EXCEPT ![r].status = "FAILED"]
  BY <1>1 DEF StepTypeNotImplemented
<1>3. Changed(r, "FAILED", steps[r].task, steps[r].formData)
  BY <1>2, StatusChanged
<1>4. QED
  BY <1>1, <1>2, <1>3

LEMMA PauseActs ==
  ASSUME TypeOK, Alone, NEW p \in Proc, Knows(p), Pause(p)
  PROVE  /\ Sole(p) /\ pc[p] = "pause" /\ pc'[p] \in {"loop", "execute"} /\ View(p)' = inst'
         /\ inst'.status = "PAUSED" /\ inst'.step = inst.step /\ inst'.context = inst.context
         /\ UNCHANGED <<steps, faults, gaveUp>>
<1>1. pc[p] = "pause" /\ View(p) = inst /\ inst \in Instance /\ UNCHANGED <<steps, faults, gaveUp>>
  BY DEF Pause, Knows, Unloaded, TypeOK, bounds
<1>2. PICK new : new = [inst EXCEPT !.status = "PAUSED"]
  OBVIOUS
<1>3. /\ new \in Instance /\ new.status = "PAUSED" /\ new.step = inst.step
      /\ new.context = inst.context
  BY <1>1, <1>2 DEF Instance, Status
<1>4. PICK label \in {"loop", "execute"} : Save(p, new, label)
  BY <1>1, <1>2 DEF Pause, AfterStep
<1>5. QED
  BY <1>1, <1>3, <1>4, SaveAlone

LEMMA ExitStepActs ==
  ASSUME TypeOK, Alone, NEW p \in Proc, Handles(p), exitStep(p)
  PROVE  /\ \E label \in {"loop", "execute"} : Goes(p, label)
         /\ pc[p] = "exitStep" /\ UNCHANGED <<inst, faults, gaveUp>>
         /\ \E r \in DOMAIN steps :
              r = local[p].row /\ Changed(r, "COMPLETED", steps[r].task, steps[r].formData)
<1>1. pc[p] = "exitStep" /\ UNCHANGED <<inst, local, faults, gaveUp>>
  BY DEF exitStep, bounds
<1>2. \E label \in {"loop", "execute"} : Goes(p, label)
  BY <1>1, GotoAlone DEF exitStep, AfterStep, Goes
<1>3. PICK r \in DOMAIN steps : r = local[p].row
  BY <1>1 DEF Handles
<1>4. Changed(r, "COMPLETED", steps[r].task, steps[r].formData)
  BY <1>3, StatusChanged DEF exitStep
<1>5. QED
  BY <1>1, <1>2, <1>3, <1>4

\* A request begins when no other is in progress.
LEMMA RequestActs ==
  ASSUME TypeOK, ~Concurrent, NEW p \in Proc, NEW label, NEW l, Request(p, label, l)
  PROVE  /\ Sole(p) /\ pc[p] = "idle" /\ pc'[p] = label /\ local'[p] = l /\ Silent
BY DEF Request, Continue, Goto, TypeOK, Sole, Silent

LEMMA WithInstanceActs ==
  ASSUME TypeOK, ~Concurrent, NEW p \in Proc, NEW label, NEW op, NEW data,
         WithInstance(p, label, op, data)
  PROVE  /\ Sole(p) /\ pc[p] = "idle" /\ pc'[p] = label /\ Silent
         /\ View(p)' = inst /\ local'[p].op = op
<1>1. PICK l : l = [Idle EXCEPT !.op = op, !.view = inst, !.data = data]
  OBVIOUS
<1>2. l.op = op /\ l.view = inst
  BY <1>1 DEF Idle
<1>3. Request(p, label, l)
  BY <1>1 DEF WithInstance
<1>4. QED
  BY <1>2, <1>3, RequestActs DEF View

LEMMA ArriveActs ==
  ASSUME TypeOK, ~Concurrent, NEW p \in Proc, Arrive(p)
  PROVE  /\ Sole(p) /\ pc[p] = "idle" /\ Silent
         /\ \/ pc'[p] = "cancel" /\ View(p)' = inst /\ inst.status \in {"RUNNING", "PAUSED"}
            \/ pc'[p] = "retry" /\ View(p)' = inst /\ inst.status = "FAILED"
            \/ pc'[p] = "merge" /\ View(p)' = inst /\ local'[p].op = "advance"
            \/ /\ pc'[p] = "merge" /\ View(p)' = inst /\ local'[p].op = "signal"
               /\ Type(inst) = "WAIT_FOR_SIGNAL"
            \/ /\ pc'[p] = "claim" /\ local'[p].row \in DOMAIN steps
               /\ steps[local'[p].row].task = "PENDING"
            \/ /\ pc'[p] = "complete" /\ local'[p].row \in DOMAIN steps
               /\ local'[p].op = "task"
<1>1. CASE cancel(p)
  BY <1>1, WithInstanceActs DEF cancel
<1>2. CASE retry(p)
  BY <1>2, WithInstanceActs DEF retry
<1>3. CASE \E d \in Key \cup {NoKey} : advance(p, d)
  BY <1>3, WithInstanceActs DEF advance
<1>4. CASE \E d \in Key \cup {NoKey} : sendSignal(p, d)
  BY <1>4, WithInstanceActs DEF sendSignal
<1>5. CASE \E r \in DOMAIN steps : claimUserTask(p, r)
  <2>1. PICK r \in DOMAIN steps : claimUserTask(p, r)
    BY <1>5
  <2>2. PICK l : l = [Idle EXCEPT !.row = r]
    OBVIOUS
  <2>3. l.row = r /\ steps[r].task = "PENDING" /\ Request(p, "claim", l)
    BY <2>1, <2>2 DEF claimUserTask, Idle
  <2>4. QED
    BY <2>3, RequestActs
<1>6. CASE \E r \in DOMAIN steps, d \in Key \cup {NoKey} : completeUserTask(p, r, d)
  <2>1. PICK r \in DOMAIN steps, d \in Key \cup {NoKey} : completeUserTask(p, r, d)
    BY <1>6
  <2>2. PICK l : l = [Idle EXCEPT !.op = "task", !.row = r, !.data = d]
    OBVIOUS
  <2>3. l.row = r /\ l.op = "task" /\ Request(p, "complete", l)
    BY <2>1, <2>2 DEF completeUserTask, Idle
  <2>4. QED
    BY <2>3, RequestActs
<1>7. QED
  BY <1>1, <1>2, <1>3, <1>4, <1>5, <1>6 DEF Arrive

LEMMA CancelActs ==
  ASSUME TypeOK, Alone, NEW p \in Proc, Knows(p), CancelWorkflow(p)
  PROVE  /\ Sole(p) /\ pc[p] = "cancel" /\ pc'[p] = "idle"
         /\ inst'.status = "CANCELLED" /\ inst'.step = inst.step /\ inst'.context = inst.context
         /\ UNCHANGED <<steps, faults, gaveUp>>
<1>1. Sole(p) /\ pc'[p] = "idle"
  BY ContinueAlone DEF CancelWorkflow, Return
<1>2. pc[p] = "cancel" /\ View(p) = inst
  BY DEF CancelWorkflow, Knows, Unloaded
<1>3. QED
  BY <1>1, <1>2, StatusWritten DEF CancelWorkflow, Status, bounds

LEMMA ResetActs ==
  ASSUME TypeOK, Alone, NEW p \in Proc, Knows(p), ResetToRunning(p)
  PROVE  /\ Sole(p) /\ pc[p] = "retry" /\ pc'[p] = "loop" /\ View(p)' = inst'
         /\ inst'.status = "RUNNING" /\ inst'.step = inst.step /\ inst'.context = inst.context
         /\ UNCHANGED <<steps, faults, gaveUp>>
<1>1. /\ pc[p] = "retry" /\ View(p) = inst /\ inst \in Instance
      /\ UNCHANGED <<steps, faults, gaveUp>>
  BY DEF ResetToRunning, Knows, Unloaded, TypeOK, bounds
<1>2. PICK new : new = [inst EXCEPT !.status = "RUNNING"]
  OBVIOUS
<1>3. /\ new \in Instance /\ new.status = "RUNNING" /\ new.step = inst.step
      /\ new.context = inst.context
  BY <1>1, <1>2 DEF Instance, Status
<1>4. Save(p, new, "loop")
  BY <1>1, <1>2 DEF ResetToRunning
<1>5. QED
  BY <1>1, <1>3, <1>4, SaveAlone

LEMMA SelectActs ==
  ASSUME TypeOK, Alone, NEW p \in Proc, Knows(p), SelectTransition(p) \/ TakeFirstAnswered(p)
  PROVE  /\ Sole(p) /\ Silent /\ pc[p] = "select"
         /\ \/ pc'[p] = "idle"
            \/ pc'[p] = "transition" /\ View(p)' = inst
<1>1. pc[p] = "select" /\ View(p) = inst /\ Silent
  BY DEF SelectTransition, TakeFirstAnswered, Knows, Unloaded, Silent, bounds
<1>2. \/ Return(p)
      \/ \E t : Continue(p, "transition", [local[p] EXCEPT !.transition = t])
  BY DEF SelectTransition, TakeFirstAnswered
<1>3. CASE Return(p)
  BY <1>1, <1>3, ContinueAlone DEF Return
<1>4. ASSUME NEW t, Continue(p, "transition", [local[p] EXCEPT !.transition = t])
      PROVE  Sole(p) /\ pc'[p] = "transition" /\ View(p)' = inst
  <2>1. PICK l : l = [local[p] EXCEPT !.transition = t]
    OBVIOUS
  <2>2. l.view = View(p)
    BY <2>1, ViewType DEF Locals, View
  <2>3. Continue(p, "transition", l)
    BY <1>4, <2>1
  <2>4. QED
    BY <1>1, <2>2, <2>3, ContinueAlone DEF View
<1>5. QED
  BY <1>1, <1>2, <1>3, <1>4

LEMMA ClaimActs ==
  ASSUME TypeOK, Alone, NEW p \in Proc, Handles(p), WriteClaim(p)
  PROVE  /\ Sole(p) /\ pc[p] = "claim" /\ pc'[p] = "idle" /\ UNCHANGED <<inst, faults, gaveUp>>
         /\ \E r \in DOMAIN steps :
              r = local[p].row /\ Changed(r, steps[r].status, "IN_PROGRESS", steps[r].formData)
<1>1. Sole(p) /\ pc[p] = "claim" /\ pc'[p] = "idle" /\ UNCHANGED <<inst, faults, gaveUp>>
  BY ContinueAlone DEF WriteClaim, Return, bounds
<1>2. PICK r \in DOMAIN steps : r = local[p].row
  BY <1>1 DEF Handles
<1>3. PICK row : row = [steps[r] EXCEPT !.task = "IN_PROGRESS", !.claimedBy = p]
  OBVIOUS
<1>4. row \in StepInstance /\ steps[r] \in StepInstance /\ steps' = [steps EXCEPT ![r] = row]
  <2>1. row \in StepInstance
    BY <1>3, ColumnTypes
  <2>2. steps' = [steps EXCEPT ![r] = row]
    BY <1>2, <1>3 DEF WriteClaim
  <2>3. QED
    BY <2>1, <2>2, RowsAreRows
<1>5. /\ row.step = steps[r].step /\ row.status = steps[r].status /\ row.task = "IN_PROGRESS"
      /\ row.formData = steps[r].formData
  BY <1>3, <1>4 DEF StepInstance
<1>6. Changed(r, steps[r].status, "IN_PROGRESS", steps[r].formData)
  BY <1>4, <1>5, RowChanged
<1>7. QED
  BY <1>1, <1>2, <1>6

LEMMA CompletionActs ==
  ASSUME TypeOK, Alone, NEW p \in Proc, Handles(p), WriteCompletion(p)
  PROVE  /\ Goes(p, "read") /\ pc[p] = "complete" /\ UNCHANGED <<inst, faults, gaveUp>>
         /\ local[p].op = "task"
         /\ \E r \in DOMAIN steps :
              r = local[p].row /\ Changed(r, steps[r].status, "COMPLETED", local[p].data)
<1>1. /\ Goes(p, "read") /\ pc[p] = "complete" /\ UNCHANGED <<inst, faults, gaveUp>>
      /\ local[p].op = "task"
  BY GotoAlone DEF WriteCompletion, Goes, bounds, Handles
<1>2. PICK r \in DOMAIN steps : r = local[p].row
  BY <1>1 DEF Handles
<1>3. local[p].data \in Key \cup {NoKey}
  BY ViewType DEF Locals
<1>4. PICK row : row = [steps[r] EXCEPT !.task = "COMPLETED", !.formData = local[p].data]
  OBVIOUS
<1>5. row \in StepInstance /\ steps[r] \in StepInstance /\ steps' = [steps EXCEPT ![r] = row]
  <2>1. row \in StepInstance
    BY <1>3, <1>4, ColumnTypes
  <2>2. steps' = [steps EXCEPT ![r] = row]
    BY <1>2, <1>4 DEF WriteCompletion
  <2>3. QED
    BY <2>1, <2>2, RowsAreRows
<1>6. /\ row.step = steps[r].step /\ row.status = steps[r].status /\ row.task = "COMPLETED"
      /\ row.formData = local[p].data
  BY <1>4, <1>5 DEF StepInstance
<1>7. Changed(r, steps[r].status, "COMPLETED", local[p].data)
  BY <1>5, <1>6, RowChanged
<1>8. QED
  BY <1>1, <1>2, <1>7

LEMMA ReadActs ==
  ASSUME TypeOK, Alone, NEW p \in Proc, ReadInstance(p)
  PROVE  /\ Sole(p) /\ Silent /\ pc[p] = "read" /\ pc'[p] = "merge" /\ View(p)' = inst /\ Keeps(p)
<1>1. PICK l : l = [local[p] EXCEPT !.view = inst]
  OBVIOUS
<1>2. /\ l.view = inst /\ l.op = local[p].op /\ l.row = local[p].row
      /\ l.data = local[p].data
  BY <1>1, ViewType DEF Locals
<1>3. pc[p] = "read" /\ Continue(p, "merge", l) /\ Silent
  BY <1>1 DEF ReadInstance, Silent, bounds
<1>4. QED
  BY <1>2, <1>3, ContinueAlone DEF View, Keeps

LEMMA MergeActs ==
  ASSUME TypeOK, Alone, NEW p \in Proc, Knows(p), MergeData(p)
  PROVE  /\ Sole(p) /\ pc[p] = "merge" /\ View(p)' = inst' /\ Keeps(p)
         /\ pc'[p] = IF local[p].op = "advance" THEN "select" ELSE "exit"
         /\ inst'.status = inst.status /\ inst'.step = inst.step
         /\ inst.context \subseteq inst'.context
         /\ {local[p].data} \ {NoKey} \subseteq inst'.context
         /\ UNCHANGED <<steps, faults, gaveUp>>
<1>1. /\ pc[p] = "merge" /\ View(p) = inst /\ inst \in Instance
      /\ UNCHANGED <<steps, faults, gaveUp>>
  BY DEF MergeData, Knows, Unloaded, TypeOK, bounds
<1>2. PICK context : context = With(inst.context, local[p].data)
  OBVIOUS
<1>3. local[p].data \in Key \cup {NoKey}
  BY ViewType DEF Locals
<1>4. /\ context \in SUBSET Key /\ inst.context \subseteq context
      /\ {local[p].data} \ {NoKey} \subseteq context
  BY <1>1, <1>2, <1>3 DEF With, Instance
<1>5. PICK new : new = [inst EXCEPT !.context = context]
  OBVIOUS
<1>6. /\ new \in Instance /\ new.status = inst.status /\ new.step = inst.step
      /\ new.context = context
  BY <1>1, <1>4, <1>5 DEF Instance
<1>7. PICK label : label = IF local[p].op = "advance" THEN "select" ELSE "exit"
  OBVIOUS
<1>8. Save(p, new, label)
  BY <1>1, <1>2, <1>5, <1>7 DEF MergeData
<1>9. Sole(p) /\ pc'[p] = label /\ inst' = new /\ View(p)' = inst' /\ Keeps(p)
  BY <1>1, <1>6, <1>8, SaveAlone
<1>10. QED
  BY <1>1, <1>4, <1>6, <1>7, <1>9

LEMMA ExitAnsweredActs ==
  ASSUME TypeOK, Alone, NEW p \in Proc, Knows(p), ExitAnswered(p)
  PROVE  /\ Goes(p, "select") /\ pc[p] = "exit" /\ UNCHANGED <<inst, faults, gaveUp>>
         /\ \/ /\ steps' = steps
               /\ local[p].op = "task" /\ local[p].row \in DOMAIN steps
                    => steps[local[p].row].status # "ACTIVE"
            \/ \E r \in DOMAIN steps :
                 /\ Changed(r, "COMPLETED", steps[r].task, steps[r].formData)
                 /\ local[p].op = "task" => r = local[p].row
                 /\ local[p].op # "task" => steps[r].step = inst.step
<1>1. /\ pc[p] = "exit" /\ Goes(p, "select") /\ UNCHANGED <<inst, faults, gaveUp>>
      /\ View(p) = inst
  BY GotoAlone DEF ExitAnswered, Goes, bounds, Knows, Unloaded
<1>2. CASE Answered(p) = {}
  <2>1. local[p].op = "task" /\ local[p].row \in DOMAIN steps
          => steps[local[p].row].status # "ACTIVE"
    BY <1>2 DEF Answered
  <2>2. QED
    BY <1>1, <1>2, <2>1 DEF ExitAnswered
<1>3. ASSUME NEW r \in Answered(p), steps' = [steps EXCEPT ![r].status = "COMPLETED"]
      PROVE  /\ r \in DOMAIN steps /\ Changed(r, "COMPLETED", steps[r].task, steps[r].formData)
             /\ local[p].op = "task" => r = local[p].row
             /\ local[p].op # "task" => steps[r].step = inst.step
  <2>1. /\ r \in DOMAIN steps
        /\ local[p].op = "task" => r = local[p].row
        /\ local[p].op # "task" => steps[r].step = inst.step
    BY <1>1 DEF Answered
  <2>2. QED
    BY <1>3, <2>1, StatusChanged
<1>4. QED
  BY <1>1, <1>2, <1>3 DEF ExitAnswered

LEMMA StayActs ==
  ASSUME TypeOK, Alone, NEW p \in Proc, Knows(p), StayAnswered(p)
  PROVE  /\ Sole(p) /\ pc[p] = "select" /\ pc'[p] = "idle"
         /\ UNCHANGED <<steps, faults, gaveUp>>
         /\ \/ inst' = inst
            \/ /\ inst'.status = "RUNNING" /\ inst'.step = inst.step
               /\ inst'.context = inst.context /\ Type(inst) # "END"
<1>1. Sole(p) /\ pc'[p] = "idle" /\ UNCHANGED <<steps, faults, gaveUp>>
  BY ContinueAlone DEF StayAnswered, Return, bounds
<1>2. pc[p] = "select" /\ View(p) = inst
  BY DEF StayAnswered, Knows, Unloaded
<1>3. CASE local[p].op = "task" /\ AutoTransitions(Outgoing(inst.step)) = {}
  BY <1>1, <1>2, <1>3 DEF StayAnswered
<1>4. CASE ~(local[p].op = "task" /\ AutoTransitions(Outgoing(inst.step)) = {})
  <2>1. inst' = Flush(inst, View(p), [View(p) EXCEPT !.status = "RUNNING"])
    BY <1>2, <1>4 DEF StayAnswered
  <2>2. inst'.status = "RUNNING" /\ inst'.step = inst.step /\ inst'.context = inst.context
    BY <1>2, <2>1, StatusWritten DEF Status
  <2>3. CASE local[p].op = "signal"
    BY <1>1, <1>2, <2>2, <2>3 DEF Knows
  <2>4. CASE AutoTransitions(Outgoing(inst.step)) # {}
    <3>1. PICK t \in DOMAIN Transitions : Transitions[t].from = inst.step
      BY <2>4 DEF AutoTransitions, Outgoing
    <3>2. Type(inst) # "END"
      BY <3>1, DefinitionAssumption DEF Type
    <3>3. QED
      BY <1>1, <1>2, <2>2, <3>2
  <2>5. QED
    BY <1>4, <2>3, <2>4 DEF StayAnswered
<1>5. QED
  BY <1>3, <1>4

LEMMA CrashActs ==
  ASSUME TypeOK, Alone, NEW p \in Proc, Crash(p)
  PROVE  Sole(p) /\ pc'[p] = "idle" /\ UNCHANGED <<inst, steps>> /\ faults' # 0
<1>1. pc[p] # "idle" /\ Return(p) /\ UNCHANGED <<inst, steps>> /\ faults' # 0
  BY DEF Crash, TypeOK
<1>2. QED
  BY <1>1, ContinueAlone DEF Return

-----------------------------------------------------------------------------
(* A request that is alone keeps what it knows. *)

Busy(p) == Arrive(p) \/ Proceed(p) \/ ExecutionError(p) \/ Crash(p)

LEMMA BusyKnows ==
  ASSUME IInv, SerialInv, ~Concurrent, NEW p \in Proc, Busy(p)
  PROVE  Sole(p) /\ Knows(p)'
<1>1. TypeOK /\ Alone /\ Knows(p) /\ Handles(p)
  BY DEF IInv, SerialInv
<1>2. ASSUME Sole(p), pc'[p] \in Unloaded
      PROVE  Sole(p) /\ Knows(p)'
  BY <1>2 DEF Knows, Unloaded
<1>3. ASSUME Sole(p), View(p)' = inst',
             pc'[p] \in {"execute", "loop", "transition", "enter", "body", "select"},
             pc'[p] = "select" => local'[p].op = local[p].op /\ pc[p] \in {"merge", "exit"},
             inst'.step = inst.step \/ pc'[p] # "select"
      PROVE  Sole(p) /\ Knows(p)'
  BY <1>1, <1>3 DEF Knows, Type
<1>4. CASE Arrive(p)
  BY <1>1, <1>4, ArriveActs DEF Knows, Type, Silent, Unloaded
<1>5. CASE executeWorkflow(p)
  BY <1>1, <1>2, <1>3, <1>5, ExecuteActs DEF Silent, Unloaded
<1>6. CASE ReachEnd(p)
  BY <1>1, <1>6, ReachEndActs DEF Silent, Unloaded, Knows, Type
<1>7. CASE TakeFirst(p)
  BY <1>1, <1>3, <1>7, TakeFirstActs DEF Silent
<1>8. CASE StopLooping(p) \/ completeWorkflow(p) \/ ExecutionError(p)
  BY <1>1, <1>2, <1>8, StopLoopingActs, CompleteActs, ErrorActs DEF Unloaded
<1>9. CASE RejectTransition(p) \/ ActivityFails(p) \/ Crash(p)
  BY <1>1, <1>2, <1>9, RejectActs, CrashActs DEF Unloaded
<1>10. CASE executeTransition(p)
  BY <1>1, <1>3, <1>10, TransitionActs
<1>11. CASE enterStep(p)
  BY <1>1, <1>3, <1>11, EnterActs
<1>12. CASE handleAutomatedStep(p) \/ handleWaitForSignalStep(p)
  BY <1>1, <1>12, BodyActs DEF Goes, Silent, Knows, Unloaded, Type, View
<1>13. CASE handleUserTaskStep(p)
  BY <1>1, <1>13, UserTaskActs DEF Goes, Knows, Unloaded, Type, View
<1>14. CASE StepTypeNotImplemented(p)
  BY <1>1, <1>2, <1>14, NotImplementedActs DEF Unloaded
<1>15. CASE Pause(p)
  BY <1>1, <1>3, <1>15, PauseActs
<1>16. CASE exitStep(p)
  BY <1>1, <1>3, <1>16, ExitStepActs DEF Goes, Knows, Unloaded, View
<1>17. CASE CancelWorkflow(p) \/ StayAnswered(p) \/ WriteClaim(p)
  BY <1>1, <1>2, <1>17, CancelActs, StayActs, ClaimActs DEF Unloaded
<1>18. CASE ResetToRunning(p)
  BY <1>1, <1>3, <1>18, ResetActs
<1>19. CASE SelectTransition(p) \/ TakeFirstAnswered(p)
  BY <1>1, <1>2, <1>3, <1>19, SelectActs DEF Unloaded, Silent
<1>20. CASE WriteCompletion(p)
  BY <1>1, <1>2, <1>20, CompletionActs DEF Unloaded, Goes
<1>21. CASE ReadInstance(p)
  BY <1>1, <1>21, ReadActs DEF Knows, Handles, Keeps, Silent
<1>22. CASE MergeData(p)
  <2>1. /\ Sole(p) /\ View(p)' = inst' /\ local'[p].op = local[p].op
        /\ inst'.step = inst.step /\ pc[p] = "merge" /\ pc'[p] \in {"select", "exit"}
    BY <1>1, <1>22, MergeActs DEF Keeps
  <2>2. QED
    BY <1>1, <2>1 DEF Knows, Type
<1>23. CASE ExitAnswered(p)
  BY <1>1, <1>3, <1>23, ExitAnsweredActs DEF Goes, Knows, Unloaded, View
<1>24. QED
  BY <1>4, <1>5, <1>6, <1>7, <1>8, <1>9, <1>10, <1>11, <1>12, <1>13, <1>14, <1>15, <1>16,
     <1>17, <1>18, <1>19, <1>20, <1>21, <1>22, <1>23 DEF Busy, Proceed

LEMMA BusyHandles ==
  ASSUME IInv, SerialInv, ~Concurrent, NEW p \in Proc, Busy(p)
  PROVE  Handles(p)'
<1>1. TypeOK /\ Alone /\ Knows(p) /\ Handles(p)
  BY DEF IInv, SerialInv
<1>2. ASSUME pc'[p] \in {"idle", "cancel", "retry", "execute", "loop", "transition", "enter",
                         "finish", "select"}
      PROVE  Handles(p)'
  BY <1>2 DEF Handles
<1>3. CASE Arrive(p)
  BY <1>1, <1>3, ArriveActs DEF Handles, Silent
<1>4. CASE executeWorkflow(p) \/ ReachEnd(p) \/ TakeFirst(p) \/ StopLooping(p)
  BY <1>1, <1>2, <1>4, ExecuteActs, ReachEndActs, TakeFirstActs, StopLoopingActs
<1>5. CASE completeWorkflow(p) \/ ExecutionError(p) \/ RejectTransition(p) \/ ActivityFails(p)
  BY <1>1, <1>2, <1>5, CompleteActs, ErrorActs, RejectActs
<1>6. CASE Crash(p) \/ executeTransition(p) \/ StepTypeNotImplemented(p) \/ Pause(p)
  BY <1>1, <1>2, <1>6, CrashActs, TransitionActs, NotImplementedActs, PauseActs
<1>7. CASE exitStep(p) \/ CancelWorkflow(p) \/ StayAnswered(p) \/ WriteClaim(p)
  BY <1>1, <1>2, <1>7, ExitStepActs, CancelActs, StayActs, ClaimActs DEF Goes
<1>8. CASE ResetToRunning(p) \/ SelectTransition(p) \/ TakeFirstAnswered(p) \/ ExitAnswered(p)
  BY <1>1, <1>2, <1>8, ResetActs, SelectActs, ExitAnsweredActs DEF Goes
<1>9. CASE enterStep(p)
  BY <1>1, <1>9, EnterActs DEF Handles
<1>10. CASE handleAutomatedStep(p) \/ handleWaitForSignalStep(p)
  BY <1>1, <1>10, BodyActs DEF Goes, Silent, Handles
<1>11. CASE handleUserTaskStep(p)
  BY <1>1, <1>11, UserTaskActs DEF Goes, Handles, Changed
<1>12. CASE WriteCompletion(p)
  BY <1>1, <1>12, CompletionActs DEF Goes, Handles, Changed
<1>13. CASE ReadInstance(p)
  BY <1>1, <1>13, ReadActs DEF Keeps, Silent, Handles
<1>14. CASE MergeData(p)
  BY <1>1, <1>14, MergeActs DEF Keeps, Handles
<1>15. QED
  BY <1>3, <1>4, <1>5, <1>6, <1>7, <1>8, <1>9, <1>10, <1>11, <1>12, <1>13, <1>14
     DEF Busy, Proceed

-----------------------------------------------------------------------------
(* The other parts of the invariant. *)

LEMMA BusyEnds ==
  ASSUME IInv, SerialInv, ~Concurrent, NEW p \in Proc, Busy(p)
  PROVE  EndsAtEnd'
<1>1. TypeOK /\ Alone /\ Knows(p) /\ Handles(p) /\ Sole(p) /\ EndsAtEnd
  BY BusyKnows DEF IInv, SerialInv
<1>2. (\E q \in Proc : pc[q] \in Arriving) => pc[p] \in Arriving
  BY <1>1 DEF Sole, Arriving
<1>3. inst.status = "COMPLETED" => Type(inst) = "END"
  BY <1>1 DEF EndsAtEnd
<1>4. ASSUME inst'.status = inst.status, inst'.step = inst.step,
             faults' = faults, gaveUp => gaveUp',
             \/ pc[p] \notin Arriving \/ pc'[p] \in Arriving \/ gaveUp'
             \/ Type(inst) # "END" \/ inst.status \in {"COMPLETED", "CANCELLED"}
      PROVE  EndsAtEnd'
  BY <1>1, <1>2, <1>4 DEF EndsAtEnd, Type
<1>5. ASSUME Silent,
             \/ pc[p] \notin Arriving \/ pc'[p] \in Arriving
             \/ Type(inst) # "END" \/ inst.status \in {"COMPLETED", "CANCELLED"}
      PROVE  EndsAtEnd'
  BY <1>4, <1>5 DEF Silent
<1>6. ASSUME inst'.status = "COMPLETED" => Type(inst)' = "END",
             \/ faults' # 0 \/ pc'[p] \in Arriving \/ Type(inst)' # "END"
             \/ inst'.status \in {"COMPLETED", "CANCELLED"}
      PROVE  EndsAtEnd'
  BY <1>6 DEF EndsAtEnd
<1>7. CASE Arrive(p)
  BY <1>1, <1>5, <1>7, ArriveActs DEF Arriving
<1>8. CASE executeWorkflow(p) \/ ReachEnd(p) \/ TakeFirst(p)
  BY <1>1, <1>5, <1>8, ExecuteActs, ReachEndActs, TakeFirstActs DEF Arriving
<1>9. CASE StopLooping(p)
  BY <1>1, <1>4, <1>9, StopLoopingActs
<1>10. CASE completeWorkflow(p)
  BY <1>1, <1>6, <1>10, CompleteActs DEF Knows, Type
<1>11. CASE ExecutionError(p) \/ Crash(p)
  BY <1>1, <1>3, <1>6, <1>11, ErrorActs, CrashActs DEF Type
<1>12. CASE RejectTransition(p) \/ ActivityFails(p)
  BY <1>1, <1>5, <1>12, RejectActs DEF Arriving, Knows, Unloaded
<1>13. CASE executeTransition(p)
  <2>1. /\ pc'[p] = "enter" /\ inst'.status = inst.status
        /\ \E t \in DOMAIN Transitions : Transitions[t].from = inst.step
    BY <1>1, <1>13, TransitionActs
  <2>2. Type(inst) # "END"
    BY <2>1, DefinitionAssumption DEF Type
  <2>3. QED
    BY <1>3, <1>6, <2>1, <2>2 DEF Arriving
<1>14. CASE enterStep(p)
  BY <1>1, <1>4, <1>14, EnterActs DEF Arriving
<1>15. CASE handleAutomatedStep(p) \/ handleWaitForSignalStep(p)
  BY <1>1, <1>5, <1>15, BodyActs DEF Arriving, Goes
<1>16. CASE handleUserTaskStep(p) \/ StepTypeNotImplemented(p) \/ exitStep(p)
  BY <1>1, <1>4, <1>16, UserTaskActs, NotImplementedActs, ExitStepActs DEF Arriving, Goes
<1>17. CASE Pause(p) \/ CancelWorkflow(p) \/ ResetToRunning(p)
  BY <1>1, <1>6, <1>17, PauseActs, CancelActs, ResetActs DEF Arriving
<1>18. CASE StayAnswered(p)
  BY <1>1, <1>4, <1>6, <1>18, StayActs DEF Arriving, Type
<1>19. CASE SelectTransition(p) \/ TakeFirstAnswered(p) \/ ReadInstance(p)
  BY <1>1, <1>5, <1>19, SelectActs, ReadActs DEF Arriving
<1>20. CASE WriteClaim(p) \/ WriteCompletion(p) \/ MergeData(p) \/ ExitAnswered(p)
  BY <1>1, <1>4, <1>20, ClaimActs, CompletionActs, MergeActs, ExitAnsweredActs DEF Arriving
<1>21. QED
  BY <1>7, <1>8, <1>9, <1>10, <1>11, <1>12, <1>13, <1>14, <1>15, <1>16, <1>17, <1>18, <1>19,
     <1>20 DEF Busy, Proceed

\* No action but enterStep adds a step instance, and none changes its step.
LEMMA RowsKept ==
  ASSUME IInv, SerialInv, ~Concurrent, NEW p \in Proc, Busy(p), ~enterStep(p)
  PROVE  /\ DOMAIN steps' = DOMAIN steps /\ Len(steps') = Len(steps)
         /\ \A r \in DOMAIN steps : steps'[r].step = steps[r].step
<1>1. TypeOK /\ Alone /\ Knows(p) /\ Handles(p)
  BY DEF IInv, SerialInv
<1>2. ASSUME NEW r, NEW status, NEW task, NEW data, Changed(r, status, task, data)
      PROVE  /\ DOMAIN steps' = DOMAIN steps /\ Len(steps') = Len(steps)
             /\ \A s \in DOMAIN steps : steps'[s].step = steps[s].step
  BY <1>2 DEF Changed
<1>3. CASE handleUserTaskStep(p) \/ StepTypeNotImplemented(p)
  BY <1>1, <1>2, <1>3, UserTaskActs, NotImplementedActs
<1>4. CASE exitStep(p) \/ ExitAnswered(p)
  BY <1>1, <1>2, <1>4, ExitStepActs, ExitAnsweredActs
<1>5. CASE WriteClaim(p) \/ WriteCompletion(p)
  BY <1>1, <1>2, <1>5, ClaimActs, CompletionActs
<1>6. CASE ~(\/ handleUserTaskStep(p) \/ StepTypeNotImplemented(p) \/ exitStep(p)
              \/ ExitAnswered(p) \/ WriteClaim(p) \/ WriteCompletion(p))
  <2>1. steps' = steps
    <3>1. CASE Arrive(p)
      BY <1>1, <3>1, ArriveActs DEF Silent
    <3>2. CASE ~Arrive(p)
      BY <1>6, <3>2 DEF Busy, Proceed, executeWorkflow, ReachEnd, TakeFirst, Reload, StopLooping,
         completeWorkflow, RejectTransition, executeTransition, handleAutomatedStep, ActivityFails,
         handleWaitForSignalStep, Pause, CancelWorkflow, ResetToRunning, SelectTransition,
         ReadInstance, MergeData, TakeFirstAnswered, StayAnswered, ExecutionError, Crash
    <3>3. QED
      BY <3>1, <3>2
  <2>2. QED
    BY <2>1
<1>7. QED
  BY <1>3, <1>4, <1>5, <1>6

\* What an action does to the instance, and to the count of faults.
LEMMA BusyMoves ==
  ASSUME IInv, SerialInv, ~Concurrent, NEW p \in Proc, Busy(p)
  PROVE  /\ ~executeTransition(p) => inst'.step = inst.step
         /\ inst.context \subseteq inst'.context
         /\ faults' = 0 => faults = 0
         /\ pc[p] = "enter" => enterStep(p) \/ faults' # 0
<1>1. TypeOK /\ Alone /\ Knows(p) /\ Handles(p)
  BY DEF IInv, SerialInv
<1>2. CASE Arrive(p) \/ executeWorkflow(p) \/ ReachEnd(p) \/ TakeFirst(p) \/ StopLooping(p)
  BY <1>1, <1>2, ArriveActs, ExecuteActs, ReachEndActs, TakeFirstActs, StopLoopingActs DEF Silent
<1>3. CASE completeWorkflow(p) \/ ExecutionError(p) \/ RejectTransition(p) \/ ActivityFails(p)
  BY <1>1, <1>3, CompleteActs, ErrorActs, RejectActs DEF Silent, IInv, ExecutionError, TypeOK
<1>4. CASE Crash(p)
  BY <1>1, <1>4, CrashActs
<1>5. CASE executeTransition(p) \/ enterStep(p) \/ Pause(p) \/ exitStep(p)
  BY <1>1, <1>5, TransitionActs, EnterActs, PauseActs, ExitStepActs
<1>6. CASE \/ handleAutomatedStep(p) \/ handleWaitForSignalStep(p) \/ handleUserTaskStep(p)
           \/ StepTypeNotImplemented(p)
  BY <1>1, <1>6, BodyActs, UserTaskActs, NotImplementedActs DEF Silent
<1>7. CASE \/ CancelWorkflow(p) \/ ResetToRunning(p) \/ SelectTransition(p)
           \/ TakeFirstAnswered(p) \/ StayAnswered(p)
  BY <1>1, <1>7, CancelActs, ResetActs, SelectActs, StayActs DEF Silent
<1>8. CASE WriteClaim(p) \/ WriteCompletion(p) \/ ReadInstance(p) \/ MergeData(p) \/ ExitAnswered(p)
  BY <1>1, <1>8, ClaimActs, CompletionActs, ReadActs, MergeActs, ExitAnsweredActs DEF Silent
<1>9. QED
  BY <1>2, <1>3, <1>4, <1>5, <1>6, <1>7, <1>8 DEF Busy, Proceed

LEMMA BusyEnters ==
  ASSUME IInv, SerialInv, ~Concurrent, NEW p \in Proc, Busy(p)
  PROVE  LastEntered'
<1>1. TypeOK /\ Alone /\ Knows(p) /\ Sole(p) /\ LastEntered
  BY BusyKnows DEF IInv, SerialInv
<1>2. CASE executeTransition(p)
  BY <1>1, <1>2, TransitionActs DEF LastEntered
<1>3. CASE enterStep(p)
  <2>1. /\ Len(steps') = Len(steps) + 1 /\ inst' = inst
        /\ steps'[Len(steps')].step = inst.step
    BY <1>1, <1>3, EnterActs
  <2>2. Len(steps') # 0
    BY <1>1, <2>1 DEF TypeOK
  <2>3. steps' # <<>>
    BY <2>2
  <2>4. QED
    BY <2>1, <2>3 DEF LastEntered
<1>4. CASE ~executeTransition(p) /\ ~enterStep(p)
  <2>1. /\ inst'.step = inst.step /\ Len(steps') = Len(steps) /\ DOMAIN steps' = DOMAIN steps
        /\ \A r \in DOMAIN steps : steps'[r].step = steps[r].step
        /\ faults' = 0 => faults = 0 /\ pc[p] # "enter"
    BY <1>4, RowsKept, BusyMoves
  <2>2. SUFFICES ASSUME faults' = 0, inst.step # Start
                 PROVE  steps' # <<>> /\ steps'[Len(steps')].step = inst'.step
    BY <2>1 DEF LastEntered
  <2>3. steps # <<>> /\ steps[Len(steps)].step = inst.step
    BY <1>1, <2>1, <2>2 DEF LastEntered, Sole
  <2>4. Len(steps) \in DOMAIN steps /\ Len(steps) # 0
    BY <1>1, <2>3, EmptySeq DEF TypeOK
  <2>5. steps'[Len(steps')].step = inst'.step
    BY <2>1, <2>3, <2>4
  <2>6. steps' # <<>>
    BY <2>1, <2>4
  <2>7. QED
    BY <2>5, <2>6
<1>5. QED
  BY <1>2, <1>3, <1>4

LEMMA BusyKeepsData ==
  ASSUME IInv, SerialInv, ~Concurrent, NEW p \in Proc, Busy(p)
  PROVE  DataArrives'
<1>1. TypeOK /\ Alone /\ Knows(p) /\ Handles(p) /\ Sole(p) /\ DataArrives
  BY BusyKnows DEF IInv, SerialInv
<1>2. inst.context \subseteq inst'.context /\ (faults' = 0 => faults = 0)
  BY BusyMoves
<1>3. SUFFICES ASSUME faults' = 0, NEW r \in DOMAIN steps', steps'[r].task = "COMPLETED"
               PROVE  \/ {steps'[r].formData} \ {NoKey} \subseteq inst'.context
                      \/ /\ pc'[p] \in {"read", "merge"} /\ local'[p].op = "task"
                         /\ local'[p].row = r /\ local'[p].data = steps'[r].formData
  BY DEF DataArrives, Answers
<1>4. ASSUME r \in DOMAIN steps, steps[r].task = "COMPLETED"
      PROVE  \/ {steps[r].formData} \ {NoKey} \subseteq inst'.context
             \/ /\ pc[p] \in {"read", "merge"} /\ local[p].op = "task"
                /\ local[p].row = r /\ local[p].data = steps[r].formData
  BY <1>1, <1>2, <1>3, <1>4 DEF DataArrives, Answers, Sole
<1>5. ASSUME pc[p] \notin {"read", "merge"}, r \in DOMAIN steps, steps[r].task = "COMPLETED",
             steps'[r].formData = steps[r].formData
      PROVE  {steps'[r].formData} \ {NoKey} \subseteq inst'.context
  BY <1>4, <1>5
<1>6. CASE Arrive(p) \/ executeWorkflow(p) \/ ReachEnd(p) \/ TakeFirst(p) \/ StopLooping(p)
  BY <1>1, <1>3, <1>5, <1>6, ArriveActs, ExecuteActs, ReachEndActs, TakeFirstActs, StopLoopingActs
     DEF Silent
<1>7. CASE \/ completeWorkflow(p) \/ ExecutionError(p) \/ RejectTransition(p) \/ ActivityFails(p)
           \/ Crash(p)
  BY <1>1, <1>3, <1>5, <1>7, CompleteActs, ErrorActs, RejectActs, CrashActs DEF Silent
<1>8. CASE executeTransition(p) \/ Pause(p)
  BY <1>1, <1>3, <1>5, <1>8, TransitionActs, PauseActs
<1>9. CASE enterStep(p)
  BY <1>1, <1>3, <1>5, <1>9, EnterActs
<1>10. CASE handleAutomatedStep(p) \/ handleWaitForSignalStep(p)
  BY <1>1, <1>3, <1>5, <1>10, BodyActs DEF Silent
<1>11. ASSUME NEW s \in DOMAIN steps, NEW status, NEW task,
              Changed(s, status, task, steps[s].formData),
              task # "COMPLETED" \/ task = steps[s].task, pc[p] \notin {"read", "merge"}
       PROVE  {steps'[r].formData} \ {NoKey} \subseteq inst'.context
  <2>1. r \in DOMAIN steps /\ steps'[r].formData = steps[r].formData
    BY <1>3, <1>11 DEF Changed
  <2>2. steps[r].task = "COMPLETED"
    BY <1>3, <1>11, <2>1 DEF Changed
  <2>3. QED
    BY <1>5, <1>11, <2>1, <2>2
<1>12. CASE handleUserTaskStep(p) \/ WriteClaim(p)
  <2>1. pc[p] \notin {"read", "merge"}
    BY <1>1, <1>12, UserTaskActs, ClaimActs
  <2>2. PICK s \in DOMAIN steps, task \in Open :
          Changed(s, steps[s].status, task, steps[s].formData)
    <3>1. CASE handleUserTaskStep(p)
      BY <1>1, <3>1, UserTaskActs DEF Open
    <3>2. CASE WriteClaim(p)
      BY <1>1, <3>2, ClaimActs DEF Open
    <3>3. QED
      BY <1>12, <3>1, <3>2
  <2>3. task # "COMPLETED"
    BY DEF Open
  <2>4. QED
    BY <1>11, <2>1, <2>2, <2>3
<1>13. CASE StepTypeNotImplemented(p) \/ exitStep(p)
  <2>1. pc[p] \notin {"read", "merge"}
    BY <1>1, <1>13, NotImplementedActs, ExitStepActs
  <2>2. PICK s \in DOMAIN steps, status \in {"COMPLETED", "FAILED"} :
          Changed(s, status, steps[s].task, steps[s].formData)
    BY <1>1, <1>13, NotImplementedActs, ExitStepActs
  <2>3. QED
    BY <1>11, <2>1, <2>2
<1>14. CASE ExitAnswered(p)
  BY <1>1, <1>3, <1>5, <1>11, <1>14, ExitAnsweredActs
<1>15. CASE CancelWorkflow(p) \/ ResetToRunning(p) \/ StayAnswered(p)
  BY <1>1, <1>3, <1>5, <1>15, CancelActs, ResetActs, StayActs
<1>16. CASE SelectTransition(p) \/ TakeFirstAnswered(p)
  BY <1>1, <1>3, <1>5, <1>16, SelectActs DEF Silent
<1>17. CASE WriteCompletion(p)
  <2>1. PICK s \in DOMAIN steps :
          s = local[p].row /\ Changed(s, steps[s].status, "COMPLETED", local[p].data)
    BY <1>1, <1>17, CompletionActs
  <2>2. CASE r = s
    BY <1>1, <1>17, <2>1, <2>2, CompletionActs DEF Changed, Goes
  <2>3. CASE r # s
    BY <1>1, <1>3, <1>5, <1>17, <2>1, <2>3, CompletionActs DEF Changed
  <2>4. QED
    BY <2>2, <2>3
<1>18. CASE ReadInstance(p)
  BY <1>1, <1>3, <1>4, <1>18, ReadActs DEF Silent, Keeps
<1>19. CASE MergeData(p)
  BY <1>1, <1>3, <1>4, <1>19, MergeActs
<1>20. QED
  BY <1>6, <1>7, <1>8, <1>9, <1>10, <1>12, <1>13, <1>14, <1>15, <1>16, <1>17, <1>18, <1>19
     DEF Busy, Proceed

LEMMA BusyLeaves ==
  ASSUME IInv, SerialInv, ~Concurrent, NEW p \in Proc, Busy(p), NEW r \in DOMAIN steps'
  PROVE  LeftWithTask(r)'
<1>1. TypeOK /\ Alone /\ Knows(p) /\ Handles(p) /\ Sole(p)
  BY BusyKnows DEF IInv, SerialInv
<1>2. faults' = 0 => faults = 0
  BY BusyMoves
<1>3. ASSUME r \in DOMAIN steps, StepType[steps[r].step] = "USER_TASK"
      PROVE  /\ steps[r].status \in {"ACTIVE", "COMPLETED"}
             /\ steps[r].status = "COMPLETED" => steps[r].task = "COMPLETED"
             /\ faults = 0 /\ steps[r].task = "COMPLETED"
                  => \/ steps[r].status = "COMPLETED"
                     \/ /\ pc[p] \in {"read", "merge", "exit"} /\ local[p].op = "task"
                        /\ local[p].row = r
  BY <1>1, <1>3 DEF SerialInv, LeftWithTask, Answers, Sole
<1>4. ASSUME /\ steps'[r].status \in {"ACTIVE", "COMPLETED"}
             /\ steps'[r].status = "COMPLETED" => steps'[r].task = "COMPLETED"
             /\ faults' = 0 /\ steps'[r].task = "COMPLETED"
                  => \/ steps'[r].status = "COMPLETED"
                     \/ /\ pc'[p] \in {"read", "merge", "exit"} /\ local'[p].op = "task"
                        /\ local'[p].row = r
      PROVE  LeftWithTask(r)'
  BY <1>4 DEF LeftWithTask, Answers
<1>5. ASSUME r \in DOMAIN steps, steps'[r] = steps[r], 
             faults' # 0 \/ pc[p] \notin {"read", "merge", "exit"}
      PROVE  LeftWithTask(r)'
  BY <1>2, <1>3, <1>4, <1>5 DEF LeftWithTask
<1>6. CASE Arrive(p) \/ executeWorkflow(p) \/ ReachEnd(p) \/ TakeFirst(p) \/ StopLooping(p)
  BY <1>1, <1>5, <1>6, ArriveActs, ExecuteActs, ReachEndActs, TakeFirstActs, StopLoopingActs
     DEF Silent
<1>7. CASE \/ completeWorkflow(p) \/ ExecutionError(p) \/ RejectTransition(p) \/ ActivityFails(p)
           \/ Crash(p)
  BY <1>1, <1>5, <1>7, CompleteActs, ErrorActs, RejectActs, CrashActs DEF Silent
<1>8. CASE executeTransition(p) \/ Pause(p)
  BY <1>1, <1>5, <1>8, TransitionActs, PauseActs
<1>9. CASE enterStep(p)
  BY <1>1, <1>4, <1>5, <1>9, EnterActs
<1>10. CASE handleAutomatedStep(p) \/ handleWaitForSignalStep(p)
  BY <1>1, <1>5, <1>10, BodyActs DEF Silent
<1>11. CASE handleUserTaskStep(p)
  BY <1>1, <1>4, <1>5, <1>11, UserTaskActs DEF Changed, Handles
<1>12. ASSUME NEW s \in DOMAIN steps, NEW status, NEW task, NEW data,
              Changed(s, status, task, data),
              StepType[steps[s].step] # "USER_TASK", pc[p] \notin {"read", "merge", "exit"}
       PROVE  LeftWithTask(r)'
  <2>1. CASE r = s
    BY <1>12, <2>1 DEF Changed, LeftWithTask
  <2>2. CASE r # s
    BY <1>5, <1>12, <2>2 DEF Changed
  <2>3. QED
    BY <2>1, <2>2
<1>13. CASE StepTypeNotImplemented(p)
  BY <1>1, <1>12, <1>13, NotImplementedActs DEF Type
<1>14. CASE exitStep(p)
  BY <1>1, <1>12, <1>14, ExitStepActs DEF Knows, Handles, Type
<1>15. CASE WriteClaim(p)
  <2>1. PICK s \in DOMAIN steps :
          s = local[p].row /\ Changed(s, steps[s].status, "IN_PROGRESS", steps[s].formData)
    BY <1>1, <1>15, ClaimActs
  <2>2. CASE r = s
    <3>1. steps[s].task = "PENDING"
      BY <1>1, <1>15, <2>1, ClaimActs DEF Handles
    <3>2. CASE StepType[steps[r].step] = "USER_TASK"
      BY <1>3, <1>4, <2>1, <2>2, <3>1, <3>2 DEF Changed
    <3>3. CASE StepType[steps[r].step] # "USER_TASK"
      BY <2>1, <2>2, <3>3 DEF Changed, LeftWithTask
    <3>4. QED
      BY <3>2, <3>3
  <2>3. CASE r # s
    BY <1>1, <1>5, <1>15, <2>1, <2>3, ClaimActs DEF Changed
  <2>4. QED
    BY <2>2, <2>3
<1>16. CASE WriteCompletion(p)
  <2>1. PICK s \in DOMAIN steps :
          s = local[p].row /\ Changed(s, steps[s].status, "COMPLETED", local[p].data)
    BY <1>1, <1>16, CompletionActs
  <2>2. CASE r = s
    <3>1. CASE StepType[steps[r].step] = "USER_TASK"
      BY <1>1, <1>3, <1>4, <1>16, <2>1, <2>2, <3>1, CompletionActs DEF Changed, Goes
    <3>2. CASE StepType[steps[r].step] # "USER_TASK"
      BY <2>1, <2>2, <3>2 DEF Changed, LeftWithTask
    <3>3. QED
      BY <3>1, <3>2
  <2>3. CASE r # s
    BY <1>1, <1>5, <1>16, <2>1, <2>3, CompletionActs DEF Changed
  <2>4. QED
    BY <2>2, <2>3
<1>17. CASE ReadInstance(p) \/ MergeData(p)
  <2>1. /\ steps' = steps /\ Keeps(p)
        /\ pc'[p] \in {"merge", "exit"} \/ local[p].op # "task"
    BY <1>1, <1>17, ReadActs, MergeActs DEF Silent
  <2>2. CASE StepType[steps[r].step] = "USER_TASK"
    BY <1>2, <1>3, <1>4, <2>1, <2>2 DEF Keeps
  <2>3. CASE StepType[steps[r].step] # "USER_TASK"
    BY <2>1, <2>3 DEF LeftWithTask
  <2>4. QED
    BY <2>2, <2>3
<1>18. CASE ExitAnswered(p)
  <2>1. pc[p] = "exit" /\ local[p].op \in {"task", "signal"}
    BY <1>1, <1>18, ExitAnsweredActs DEF Handles
  <2>2. CASE steps' = steps
    <3>1. local[p].op = "task" /\ local[p].row \in DOMAIN steps
            => steps[local[p].row].status # "ACTIVE"
      BY <1>1, <1>18, <2>2, ExitAnsweredActs DEF Changed, StepInstance
    <3>2. CASE StepType[steps[r].step] = "USER_TASK"
      BY <1>2, <1>3, <1>4, <2>2, <3>1, <3>2
    <3>3. CASE StepType[steps[r].step] # "USER_TASK"
      BY <2>2, <3>3 DEF LeftWithTask
    <3>4. QED
      BY <3>2, <3>3
  <2>3. ASSUME NEW s \in DOMAIN steps,
               Changed(s, "COMPLETED", steps[s].task, steps[s].formData),
               local[p].op = "task" => s = local[p].row,
               local[p].op # "task" => steps[s].step = inst.step
        PROVE  LeftWithTask(r)'
    <3>1. CASE StepType[steps[r].step] # "USER_TASK"
      BY <2>3, <3>1 DEF Changed, LeftWithTask
    <3>2. CASE StepType[steps[r].step] = "USER_TASK" /\ r = s
      <4>1. local[p].op = "task"
        BY <1>1, <2>1, <2>3, <3>2 DEF Knows, Type
      <4>2. steps[s].task = "COMPLETED"
        BY <1>1, <2>1, <2>3, <4>1 DEF Handles
      <4>3. QED
        BY <1>4, <2>3, <3>2, <4>2 DEF Changed
    <3>3. CASE StepType[steps[r].step] = "USER_TASK" /\ r # s
      BY <1>2, <1>3, <1>4, <2>3, <3>3 DEF Changed
    <3>4. QED
      BY <3>1, <3>2, <3>3
  <2>4. QED
    BY <1>1, <1>18, <2>2, <2>3, ExitAnsweredActs
<1>19. CASE CancelWorkflow(p) \/ ResetToRunning(p) \/ StayAnswered(p)
  BY <1>1, <1>5, <1>19, CancelActs, ResetActs, StayActs
<1>20. CASE SelectTransition(p) \/ TakeFirstAnswered(p)
  BY <1>1, <1>5, <1>20, SelectActs DEF Silent
<1>21. QED
  BY <1>6, <1>7, <1>8, <1>9, <1>10, <1>11, <1>13, <1>14, <1>15, <1>16, <1>17, <1>18, <1>19,
     <1>20 DEF Busy, Proceed

LEMMA BusySerial ==
  ASSUME IInv, SerialInv, ~Concurrent, NEW p \in Proc, Busy(p)
  PROVE  SerialInv'
<1>1. Sole(p) /\ Knows(p)' /\ Handles(p)'
  BY BusyKnows, BusyHandles
<1>2. ASSUME NEW q \in Proc, q # p
      PROVE  Knows(q)' /\ Handles(q)'
  BY <1>1, <1>2 DEF Sole, Knows, Handles, Unloaded
<1>3. \A q \in Proc : Knows(q)' /\ Handles(q)'
  BY <1>1, <1>2
<1>4. Alone'
  BY <1>1 DEF Alone, Sole
<1>5. EndsAtEnd' /\ LastEntered' /\ DataArrives'
  BY BusyEnds, BusyEnters, BusyKeepsData
<1>6. \A r \in DOMAIN steps' : LeftWithTask(r)'
  BY BusyLeaves
<1>7. QED
  BY <1>3, <1>4, <1>5, <1>6 DEF SerialInv

LEMMA InitSerial == Init => SerialInv
<1>1. SUFFICES ASSUME Init PROVE SerialInv
  OBVIOUS
<1>2. \A p \in Proc : pc[p] = (IF p = Background THEN "execute" ELSE "idle")
  BY <1>1 DEF Init
<1>3. \A p \in Proc : View(p) = inst
  BY <1>1 DEF Init, View, Idle
<1>4. DOMAIN steps = {} /\ faults = 0 /\ inst.status = "RUNNING" /\ inst.step = Start
  <2>1. steps = <<>> /\ faults = 0 /\ inst = NewInstance
    BY <1>1 DEF Init
  <2>2. DOMAIN steps = {}
    BY <2>1
  <2>3. QED
    BY <2>1, <2>2 DEF NewInstance
<1>5. Alone
  BY <1>2 DEF Alone
<1>6. \A p \in Proc : Knows(p) /\ Handles(p)
  BY <1>2, <1>3 DEF Knows, Handles
<1>7. EndsAtEnd
  BY <1>4, DefinitionAssumption DEF EndsAtEnd, Type
<1>8. LastEntered /\ DataArrives /\ \A r \in DOMAIN steps : LeftWithTask(r)
  BY <1>4 DEF LastEntered, DataArrives
<1>9. QED
  BY <1>5, <1>6, <1>7, <1>8 DEF SerialInv

LEMMA NextSerial ==
  ASSUME ~Concurrent
  PROVE  IInv /\ SerialInv /\ [Next]_vars => SerialInv'
<1>1. SUFFICES ASSUME IInv, SerialInv, [Next]_vars PROVE SerialInv'
  OBVIOUS
<1>2. CASE Next
  BY <1>1, <1>2, BusySerial DEF Next, Busy
<1>3. CASE UNCHANGED vars
  <2>1. UNCHANGED <<inst, steps, pc, local, gaveUp, faults>>
    BY <1>3 DEF vars
  <2>2. UNCHANGED <<Alone, EndsAtEnd, LastEntered, DataArrives>>
    BY <2>1 DEF Alone, EndsAtEnd, LastEntered, DataArrives, Answers, Type
  <2>3. \A p \in Proc : Knows(p)' /\ Handles(p)'
    BY <1>1, <2>1 DEF SerialInv, Knows, Handles, View, Type
  <2>4. \A r \in DOMAIN steps' : LeftWithTask(r)'
    BY <1>1, <2>1 DEF SerialInv, LeftWithTask, Answers
  <2>5. QED
    BY <1>1, <2>2, <2>3, <2>4 DEF SerialInv
<1>4. QED
  BY <1>1, <1>2, <1>3

LEMMA SerialAlways ==
  ASSUME ~Concurrent
  PROVE  Spec => [](IInv /\ SerialInv)
<1>1. Init => IInv /\ SerialInv
  BY InitReached, InitSerial
<1>2. (IInv /\ SerialInv) /\ [Next]_vars => (IInv /\ SerialInv)'
  BY NextReached, NextSerial
<1>3. QED
  BY <1>1, <1>2, PTL DEF Spec

\* What Quiet says of the parts of the invariant.
LEMMA QuietIdle == Quiet => faults = 0 /\ \A p \in Proc : pc[p] = "idle"
BY DEF Quiet, AllIdle

-----------------------------------------------------------------------------
(* The theorems. *)

\* Without a fault, the last step instance is of the step the instance is at
\* whenever no request is in progress: between the flush that moves the
\* instance and the one that enters the step there is no other request.
THEOREM StepHistoryAgrees ==
  ASSUME ~Concurrent
  PROVE  Spec => []HistoryAgrees
<1>1. IInv /\ SerialInv => HistoryAgrees
  BY QuietIdle DEF SerialInv, LastEntered, HistoryAgrees
<1>2. QED
  BY <1>1, SerialAlways, PTL

\* The status is COMPLETED only at an END step, whatever fails, and without a
\* fault an instance that reached an END step is COMPLETED or cancelled when
\* its request returns, unless the loop used up its iterations.
THEOREM CompletesAtEnd ==
  ASSUME ~Concurrent
  PROVE  Spec => []CompletedAtEnd
<1>1. IInv /\ SerialInv => CompletedAtEnd
  BY QuietIdle DEF SerialInv, EndsAtEnd, CompletedAtEnd, Arriving
<1>2. QED
  BY <1>1, SerialAlways, PTL

\* The data of a completed task is never lost to a later flush of the context.
THEOREM FormDataSurvives ==
  ASSUME ~Concurrent
  PROVE  Spec => []FormDataKept
<1>1. IInv /\ SerialInv => FormDataKept
  BY QuietIdle DEF SerialInv, DataArrives, FormDataKept, Answers
<1>2. QED
  BY <1>1, SerialAlways, PTL

\* The step instance of a user task is left only with its task COMPLETED, by
\* whatever request, and no completed task stays behind with an open one.
THEOREM TasksAndStepsAgree ==
  ASSUME ~Concurrent
  PROVE  Spec => []TasksAnswerSteps
<1>1. IInv /\ SerialInv => TasksAnswerSteps
  BY QuietIdle DEF SerialInv, LeftWithTask, TasksAnswerSteps, Answers
<1>2. QED
  BY <1>1, SerialAlways, PTL

-----------------------------------------------------------------------------
(* The refinement. *)

\* Every step of a request that is alone is one of the steps WorkflowLifecycle
\* allows, or leaves the status and the step of the instance alone.
Refines == Lifecycle!LifecycleNext \/ UNCHANGED <<inst.status, inst.step>>

LEMMA BusyRefines ==
  ASSUME IInv, SerialInv, ~Concurrent, NEW p \in Proc, Busy(p)
  PROVE  Refines
<1>1. TypeOK /\ Alone /\ Knows(p) /\ Handles(p) /\ inst \in Instance
  BY DEF IInv, SerialInv, TypeOK
<1>2. inst.status = "COMPLETED" => Type(inst) = "END"
  BY DEF SerialInv, EndsAtEnd
<1>3. ASSUME inst'.status = inst.status, inst'.step = inst.step
      PROVE  Refines
  BY <1>3 DEF Refines
<1>4. ASSUME inst' = inst
      PROVE  Refines
  BY <1>3, <1>4
<1>5. CASE Arrive(p) \/ executeWorkflow(p) \/ ReachEnd(p) \/ TakeFirst(p) \/ StopLooping(p)
  BY <1>1, <1>4, <1>5, ArriveActs, ExecuteActs, ReachEndActs, TakeFirstActs, StopLoopingActs
     DEF Silent
<1>6. CASE completeWorkflow(p)
  BY <1>1, <1>6, CompleteActs
     DEF Refines, Lifecycle!LifecycleNext, Lifecycle!Complete, Knows, Type
<1>7. CASE ExecutionError(p)
  BY <1>1, <1>3, <1>7, ErrorActs DEF Refines, Lifecycle!LifecycleNext, Lifecycle!Fail
<1>8. CASE RejectTransition(p) \/ ActivityFails(p) \/ Crash(p)
  BY <1>1, <1>4, <1>8, RejectActs, CrashActs DEF Silent
<1>9. CASE executeTransition(p)
  <2>1. PICK t \in DOMAIN Transitions :
          Transitions[t].from = inst.step /\ Transitions[t].to = inst'.step
    BY <1>1, <1>9, TransitionActs
  <2>2. inst'.status = inst.status
    BY <1>1, <1>9, TransitionActs
  <2>3. Transitions[t] \in {Transitions[u] : u \in DOMAIN Transitions}
    OBVIOUS
  <2>4. Lifecycle!Move
    BY <2>1, <2>2, <2>3 DEF Lifecycle!Move
  <2>5. QED
    BY <2>4 DEF Refines, Lifecycle!LifecycleNext
<1>10. CASE \/ enterStep(p) \/ handleAutomatedStep(p) \/ handleWaitForSignalStep(p)
            \/ handleUserTaskStep(p) \/ StepTypeNotImplemented(p) \/ exitStep(p)
  BY <1>1, <1>4, <1>10, EnterActs, BodyActs, UserTaskActs, NotImplementedActs, ExitStepActs
     DEF Silent
<1>11. CASE Pause(p)
  BY <1>1, <1>2, <1>11, PauseActs
     DEF Refines, Lifecycle!LifecycleNext, Lifecycle!Wait, Knows, Type
<1>12. CASE CancelWorkflow(p)
  BY <1>1, <1>12, CancelActs DEF Refines, Lifecycle!LifecycleNext, Lifecycle!Cancel, Knows
<1>13. CASE ResetToRunning(p)
  BY <1>1, <1>13, ResetActs DEF Refines, Lifecycle!LifecycleNext, Lifecycle!Resume, Knows
<1>14. CASE StayAnswered(p)
  BY <1>1, <1>2, <1>4, <1>14, StayActs
     DEF Refines, Lifecycle!LifecycleNext, Lifecycle!Resume
<1>15. CASE SelectTransition(p) \/ TakeFirstAnswered(p) \/ ReadInstance(p)
  BY <1>1, <1>4, <1>15, SelectActs, ReadActs DEF Silent
<1>16. CASE WriteClaim(p) \/ WriteCompletion(p) \/ ExitAnswered(p)
  BY <1>1, <1>4, <1>16, ClaimActs, CompletionActs, ExitAnsweredActs
<1>17. CASE MergeData(p)
  BY <1>1, <1>3, <1>17, MergeActs
<1>18. QED
  BY <1>5, <1>6, <1>7, <1>8, <1>9, <1>10, <1>11, <1>12, <1>13, <1>14, <1>15, <1>16, <1>17
     DEF Busy, Proceed

LEMMA NextRefines ==
  ASSUME ~Concurrent
  PROVE  IInv /\ SerialInv /\ [Next]_vars => Refines
<1>1. SUFFICES ASSUME IInv, SerialInv, [Next]_vars PROVE Refines
  OBVIOUS
<1>2. CASE Next
  BY <1>1, <1>2, BusyRefines DEF Next, Busy
<1>3. CASE UNCHANGED vars
  BY <1>3 DEF vars, Refines
<1>4. QED
  BY <1>1, <1>2, <1>3

\* Requests that do not overlap implement WorkflowLifecycle for every
\* definition, whatever fails and whichever process is killed.
THEOREM SerialRequestsRefine ==
  ASSUME ~Concurrent
  PROVE  Spec => ImplementsLifecycle
<1>1. Init => Lifecycle!LifecycleInit
  BY DEF Init, NewInstance, Lifecycle!LifecycleInit
<1>2. (IInv /\ SerialInv) /\ [Next]_vars => [Lifecycle!LifecycleNext]_(Lifecycle!lifecycle)
  BY NextRefines DEF Refines, Lifecycle!lifecycle
<1>3. QED
  BY <1>1, <1>2, SerialAlways, PTL DEF Spec, ImplementsLifecycle, Lifecycle!LifecycleSpec
=============================================================================
