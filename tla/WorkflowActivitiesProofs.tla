---------------------- MODULE WorkflowActivitiesProofs ----------------------
(***************************************************************************)
(* Proofs about WorkflowActivities: types, and, for definitions in which   *)
(* at most one transition has asynchronous activities, what the pause, the *)
(* count of the events and the resumption keep true for any number of      *)
(* steps, jobs, workers and worker processes.                              *)
(*                                                                         *)
(* The row goes through three phases, Early, Paused and Late, and so do    *)
(* its copies.  The web process drives it while it is Early, workers while *)
(* it is Late, and a worker that counts events holds a copy that is Paused *)
(* or, if another job of its process was faster, Late: whatever it writes  *)
(* leaves the row in the phase it is in or moves it on.                    *)
(*                                                                         *)
(* The last section is about every chain of steps and any number of slots, *)
(* with kills and manual retries, up to the race of two checks: at most    *)
(* one process moves the instance, and whoever moves it, or counts its     *)
(* events and was not overtaken, holds the row as it is.                   *)
(***************************************************************************)
EXTENDS WorkflowActivities, FiniteSetTheorems, TLAPS

-----------------------------------------------------------------------------
(* Types. *)

\* The hosts: requests have the web process, slots a worker process.
Hosted == host[Web] = Web /\ \A w \in Workers : host[w] \in Workers

Typed ==
  /\ SystemTypeOK
  /\ Hosted
  /\ IsFiniteSet(completed) /\ IsFiniteSet(failed)
  /\ \A p \in Proc : pc[p] \in {"move", "enqueue"} => local[p].from < End
  /\ \A p \in Proc : pc[p] = "run" => local[p].job \in Job

LEMMA ChainType == /\ End \in Nat /\ Step \subseteq Nat /\ Job \subseteq Nat \ {0}
                   /\ None \notin Job /\ None \notin Step
                   /\ \A k \in 1..End : Acts[k] \in Nat
BY ConstantsAssumption DEF End, Step, Job, None

LEMMA FlushColumns ==
  ASSUME NEW row \in Instance, NEW copy \in Instance, NEW new \in Instance, NEW f,
         f = Flush(row, copy, new)
  PROVE  /\ f \in Instance
         /\ f.status = IF new.status # copy.status THEN new.status ELSE row.status
         /\ f.step = IF new.step # copy.step THEN new.step ELSE row.step
         /\ f.pendingTo = IF new.pendingTo # copy.pendingTo THEN new.pendingTo ELSE row.pendingTo
         /\ f.context = IF new.context # copy.context THEN new.context ELSE row.context
<1>1. DOMAIN row = {"status", "step", "pendingTo", "context"}
  BY DEF Instance
<1>2. f = [c \in {"status", "step", "pendingTo", "context"} |->
             IF new[c] # copy[c] THEN new[c] ELSE row[c]]
  BY <1>1 DEF Flush
<1>3. f = [status |-> IF new.status # copy.status THEN new.status ELSE row.status,
           step |-> IF new.step # copy.step THEN new.step ELSE row.step,
           pendingTo |-> IF new.pendingTo # copy.pendingTo THEN new.pendingTo ELSE row.pendingTo,
           context |-> IF new.context # copy.context THEN new.context ELSE row.context]
  BY <1>2
<1>4. QED
  BY <1>3 DEF Instance

LEMMA NewTypes == NewInstance \in Instance /\ Idle \in Locals
BY ChainType DEF NewInstance, Idle, Instance, Locals, Context, Step

LEMMA ViewType == ASSUME SystemTypeOK, NEW p \in Proc
                  PROVE  View(p) \in Instance /\ local[p] \in Locals /\ inst \in Instance
BY DEF SystemTypeOK, View

\* The columns that Write changes, and the copy it leaves.
LEMMA WriteActs ==
  ASSUME SystemTypeOK, NEW p \in Proc, NEW new \in Instance, Write(p, new)
  PROVE  /\ inst' \in Instance /\ view' \in [Proc -> Instance]
         /\ inst'.status = IF new.status # View(p).status THEN new.status ELSE inst.status
         /\ inst'.step = IF new.step # View(p).step THEN new.step ELSE inst.step
         /\ inst'.pendingTo = IF new.pendingTo # View(p).pendingTo THEN new.pendingTo
                              ELSE inst.pendingTo
         /\ inst'.context = IF new.context # View(p).context THEN new.context ELSE inst.context
         /\ \A h \in Proc : view'[h] = IF h = host[p] THEN new ELSE view[h]
<1>1. View(p) \in Instance /\ inst \in Instance
  BY ViewType
<1>2. inst' = Flush(inst, View(p), new)
  BY DEF Write
<1>3. /\ inst' \in Instance
      /\ inst'.status = IF new.status # View(p).status THEN new.status ELSE inst.status
      /\ inst'.step = IF new.step # View(p).step THEN new.step ELSE inst.step
      /\ inst'.pendingTo = IF new.pendingTo # View(p).pendingTo THEN new.pendingTo
                           ELSE inst.pendingTo
      /\ inst'.context = IF new.context # View(p).context THEN new.context ELSE inst.context
  BY <1>1, <1>2, FlushColumns
<1>4. view' = [view EXCEPT ![host[p]] = new] /\ host[p] \in Proc
  BY DEF Write, SystemTypeOK
<1>5. /\ view' \in [Proc -> Instance]
      /\ \A h \in Proc : view'[h] = IF h = host[p] THEN new ELSE view[h]
  BY <1>4 DEF SystemTypeOK
<1>6. QED
  BY <1>3, <1>5

LEMMA ReadActs ==
  ASSUME SystemTypeOK, NEW p \in Proc, Read(p)
  PROVE  /\ view' \in [Proc -> Instance]
         /\ \A h \in Proc : view'[h] = IF h = host[p] THEN inst ELSE view[h]
BY DEF Read, SystemTypeOK

\* The other processes, their calls and their jobs go on as they were.
Stays(p) == \A q \in Proc \ {p} : pc'[q] = pc[q] /\ local'[q] = local[q]

LEMMA GotoActs ==
  ASSUME SystemTypeOK, NEW p \in Proc, NEW label, Goto(p, label)
  PROVE  pc'[p] = label /\ \A q \in Proc \ {p} : pc'[q] = pc[q]
BY DEF Goto, SystemTypeOK

Labels == {"idle", "execute", "loop", "complete", "move", "enqueue", "run",
           "resume", "countCompleted", "countFailed", "decide", "enter"}

LEMMA GotoType ==
  ASSUME SystemTypeOK, NEW p \in Proc, NEW label \in Labels, Goto(p, label)
  PROVE  pc' \in [Proc -> Labels]
BY DEF Goto, SystemTypeOK, Labels

\* A job whose call returns is done; no other job is touched.
LEMMA ReturnActs ==
  ASSUME SystemTypeOK, NEW p \in Proc, Return(p)
  PROVE  /\ pc' \in [Proc -> Labels] /\ local' \in [Proc -> Locals]
         /\ jobs' \in [Job -> JobRecord]
         /\ Stays(p) /\ pc'[p] = "idle" /\ local'[p] = Idle
         /\ \A j \in Job : /\ jobs'[j].transition = jobs[j].transition
                           /\ jobs'[j].delivery = jobs[j].delivery
                           /\ jobs'[j].state = IF j = local[p].job THEN "done" ELSE jobs[j].state
<1>1. Goto(p, "idle") /\ local' = [local EXCEPT ![p] = Idle]
  BY DEF Return
<1>2. pc' \in [Proc -> Labels] /\ local' \in [Proc -> Locals] /\ Stays(p) /\ pc'[p] = "idle"
      /\ local'[p] = Idle
  BY <1>1, GotoActs, GotoType, NewTypes DEF Stays, SystemTypeOK, Labels
<1>3. PICK job \in Job \cup {None} : job = local[p].job
  BY ViewType DEF Locals
<1>4. CASE job = None
  <2>1. jobs' = jobs /\ jobs \in [Job -> JobRecord] /\ None \notin Job
    BY <1>3, <1>4, ChainType DEF Return, SystemTypeOK
  <2>2. QED
    BY <1>2, <1>3, <1>4, <2>1
<1>5. CASE job # None
  <2>1. jobs' = [jobs EXCEPT ![job].state = "done"] /\ jobs \in [Job -> JobRecord] /\ job \in Job
    BY <1>3, <1>5 DEF Return, SystemTypeOK
  <2>2. PICK record : record = [jobs[job] EXCEPT !.state = "done"]
    OBVIOUS
  <2>3. /\ record \in JobRecord /\ record.state = "done"
        /\ record.transition = jobs[job].transition /\ record.delivery = jobs[job].delivery
    BY <2>1, <2>2 DEF JobRecord
  <2>4. jobs' = [jobs EXCEPT ![job] = record]
    BY <2>1, <2>2
  <2>5. jobs' \in [Job -> JobRecord]
        /\ \A j \in Job : jobs'[j] = IF j = job THEN record ELSE jobs[j]
    BY <2>1, <2>3, <2>4
  <2>6. QED
    BY <1>2, <1>3, <2>3, <2>5
<1>6. QED
  BY <1>4, <1>5

-----------------------------------------------------------------------------
(* What the actions do. *)

LEMMA TypedAfter ==
  ASSUME Typed, NEW p \in Proc, Stays(p), host' = host, inst' \in Instance,
         view' \in [Proc -> Instance], jobs' \in [Job -> JobRecord], pc' \in [Proc -> Labels],
         local' \in [Proc -> Locals], entered' \in [Step -> Nat],
         nextJob' \in 1..(MaxJobs + 1), completed' \subseteq Job \X Nat,
         failed' \subseteq Job \X Nat, IsFiniteSet(completed'), IsFiniteSet(failed'),
         retries' \in Nat, crashes' \in Nat,
         pc'[p] \in {"move", "enqueue"} => local'[p].from < End,
         pc'[p] = "run" => local'[p].job \in Job
  PROVE  Typed'
<1>1. SystemTypeOK'
  BY DEF Typed, SystemTypeOK, Labels
<1>2. Hosted'
  BY DEF Typed, Hosted
<1>3. \A q \in Proc : pc'[q] \in {"move", "enqueue"} => local'[q].from < End
  BY DEF Typed, Stays
<1>4. \A q \in Proc : pc'[q] = "run" => local'[q].job \in Job
  BY DEF Typed, Stays
<1>5. QED
  BY <1>1, <1>2, <1>3, <1>4 DEF Typed

\* What no step of a handler changes.
Kept == UNCHANGED <<host, retries, crashes>>

\* Neither jobs nor their events are added.
Calm == Kept /\ UNCHANGED <<nextJob, completed, failed>>

Returns(p) ==
  /\ Stays(p) /\ pc'[p] = "idle" /\ local'[p] = Idle
  /\ \A j \in Job : /\ jobs'[j].transition = jobs[j].transition
                    /\ jobs'[j].delivery = jobs[j].delivery
                    /\ jobs'[j].state = IF j = local[p].job THEN "done" ELSE jobs[j].state

\* A handler returns and changes nothing but the row and its copy.
LEMMA ReturnTyped ==
  ASSUME Typed, NEW p \in Proc, Return(p), Calm, entered' = entered, inst' \in Instance,
         view' \in [Proc -> Instance]
  PROVE  Typed' /\ Returns(p)
<1>1. /\ pc' \in [Proc -> Labels] /\ local' \in [Proc -> Locals]
      /\ jobs' \in [Job -> JobRecord] /\ Returns(p)
  BY ReturnActs DEF Typed, Returns
<1>2. UNCHANGED <<nextJob, completed, failed, host, retries, crashes>>
  BY DEF Calm, Kept
<1>3. pc'[p] = "idle" /\ Stays(p)
  BY <1>1 DEF Returns
<1>4. QED
  BY <1>1, <1>2, <1>3, TypedAfter DEF Typed, SystemTypeOK

LEMMA ExecuteActs ==
  ASSUME Typed, NEW p \in Proc, executeWorkflow(p)
  PROVE  /\ Typed' /\ pc[p] = "execute" /\ Calm /\ UNCHANGED <<inst, view>>
         /\ \/ Returns(p)
            \/ Stays(p) /\ pc'[p] = "loop" /\ UNCHANGED <<local, jobs>>
<1>1. pc[p] = "execute" /\ Calm /\ UNCHANGED <<inst, view, entered>>
  BY DEF executeWorkflow, Calm, Kept
<1>2. CASE Return(p)
  BY <1>1, <1>2, ReturnTyped DEF Typed, SystemTypeOK
<1>3. CASE Goto(p, "loop") /\ UNCHANGED <<jobs, local>>
  <2>1. pc' \in [Proc -> Labels] /\ Stays(p) /\ pc'[p] = "loop"
    BY <1>3, GotoActs, GotoType DEF Labels, Typed, Stays
  <2>2. Typed'
    BY <1>1, <1>3, <2>1, TypedAfter DEF Typed, SystemTypeOK, Calm, Kept
  <2>3. QED
    BY <1>1, <1>3, <2>1, <2>2
<1>4. QED
  BY <1>2, <1>3 DEF executeWorkflow

\* The copy of the host is the row.
Reads(p) == \A h \in Proc : view'[h] = IF h = host[p] THEN inst ELSE view[h]

LEMMA LoopActs ==
  ASSUME Typed, NEW p \in Proc, Loop(p)
  PROVE  /\ Typed' /\ pc[p] = "loop" /\ Calm /\ UNCHANGED <<inst, jobs>> /\ Stays(p) /\ Reads(p)
         /\ local'[p].from = inst.step /\ local'[p].queued = {} /\ local'[p].job = local[p].job
         /\ \/ pc'[p] = "complete" /\ inst.step = End
            \/ pc'[p] = "move" /\ inst.step < End /\ Acts[inst.step + 1] = 0
            \/ pc'[p] = "enqueue" /\ inst.step < End /\ Acts[inst.step + 1] > 0
<1>1. PICK at \in BOOLEAN, label \in {"complete", "move", "enqueue"} :
        /\ Load(p, at, label)
        /\ \/ label = "complete" /\ inst.step = End
           \/ label = "move" /\ inst.step < End /\ Acts[inst.step + 1] = 0
           \/ label = "enqueue" /\ inst.step < End /\ Acts[inst.step + 1] > 0
  <2>1. CASE Load(p, inst.step = End, "complete")
    <3>1. inst.step = End
      BY <2>1 DEF Load
    <3>2. QED
      BY <2>1, <3>1
  <2>2. CASE Load(p, inst.step < End /\ Acts[inst.step + 1] = 0, "move")
    <3>1. inst.step < End /\ Acts[inst.step + 1] = 0
      BY <2>2 DEF Load
    <3>2. QED
      BY <2>2, <3>1
  <2>3. CASE Load(p, inst.step < End /\ Acts[inst.step + 1] > 0, "enqueue")
    <3>1. inst.step < End /\ Acts[inst.step + 1] > 0
      BY <2>3 DEF Load
    <3>2. QED
      BY <2>3, <3>1
  <2>4. QED
    BY <2>1, <2>2, <2>3 DEF Loop
<1>2. PICK l : l = [local[p] EXCEPT !.from = inst.step, !.queued = {}]
  OBVIOUS
<1>3. /\ l \in Locals /\ l.from = inst.step /\ l.queued = {} /\ l.job = local[p].job
  BY <1>2, ViewType DEF Locals, Instance, Typed
<1>4. local' = [local EXCEPT ![p] = l] /\ Goto(p, label) /\ Read(p) /\ pc[p] = "loop"
      /\ Calm /\ UNCHANGED <<inst, jobs, entered>>
  BY <1>1, <1>2 DEF Load, Calm, Kept
<1>5. /\ local' \in [Proc -> Locals] /\ local'[p] = l
      /\ \A q \in Proc \ {p} : local'[q] = local[q]
  BY <1>3, <1>4 DEF Typed, SystemTypeOK
<1>6. pc' \in [Proc -> Labels] /\ Stays(p) /\ pc'[p] = label
  BY <1>4, <1>5, GotoActs, GotoType DEF Labels, Typed, Stays
<1>7. view' \in [Proc -> Instance] /\ Reads(p)
  BY <1>4, ReadActs DEF Typed, Reads
<1>8. Typed'
  BY <1>1, <1>3, <1>4, <1>5, <1>6, <1>7, TypedAfter DEF Typed, SystemTypeOK, Calm, Kept
<1>9. QED
  BY <1>1, <1>3, <1>4, <1>5, <1>6, <1>7, <1>8

\* A write of the status.
Marks(p, status) ==
  /\ inst'.step = inst.step /\ inst'.pendingTo = inst.pendingTo /\ inst'.context = inst.context
  /\ inst'.status = IF View(p).status # status THEN status ELSE inst.status
  /\ \A h \in Proc \ {host[p]} : view'[h] = view[h]
  /\ view'[host[p]].status = status /\ view'[host[p]].step = View(p).step
  /\ view'[host[p]].pendingTo = View(p).pendingTo /\ view'[host[p]].context = View(p).context

LEMMA MarkActs ==
  ASSUME Typed, NEW p \in Proc, NEW status \in {"COMPLETED", "FAILED"},
         Write(p, [View(p) EXCEPT !.status = status])
  PROVE  inst' \in Instance /\ view' \in [Proc -> Instance] /\ Marks(p, status)
<1>1. View(p) \in Instance /\ host[p] \in Proc /\ SystemTypeOK
  BY ViewType DEF Typed, SystemTypeOK
<1>2. PICK new : new = [View(p) EXCEPT !.status = status]
  OBVIOUS
<1>3. /\ new \in Instance /\ new.status = status /\ new.step = View(p).step
      /\ new.pendingTo = View(p).pendingTo /\ new.context = View(p).context
  BY <1>1, <1>2 DEF Instance
<1>4. Write(p, new)
  BY <1>2
<1>5. QED
  BY <1>1, <1>3, <1>4, WriteActs DEF Marks

LEMMA CompleteActs ==
  ASSUME Typed, NEW p \in Proc, completeWorkflow(p)
  PROVE  Typed' /\ pc[p] = "complete" /\ Calm /\ Returns(p) /\ Marks(p, "COMPLETED")
<1>1. /\ pc[p] = "complete" /\ Calm /\ Return(p) /\ entered' = entered
      /\ Write(p, [View(p) EXCEPT !.status = "COMPLETED"])
  BY DEF completeWorkflow, Calm, Kept
<1>2. QED
  BY <1>1, MarkActs, ReturnTyped

LEMMA NextStep ==
  ASSUME Typed, NEW p \in Proc, pc[p] \in {"move", "enqueue"}
  PROVE  local[p].from + 1 \in Step
<1>1. local[p].from \in Step /\ local[p].from < End
  BY ViewType DEF Typed, Locals
<1>2. QED
  BY <1>1, ChainType DEF Step, End

\* A write of the step alone.
LEMMA MoveActs ==
  ASSUME Typed, NEW p \in Proc, executeTransition(p)
  PROVE  /\ Typed' /\ pc[p] = "move" /\ Calm /\ UNCHANGED <<local, jobs>>
         /\ Stays(p) /\ pc'[p] = "loop"
         /\ inst'.status = inst.status /\ inst'.pendingTo = inst.pendingTo
         /\ inst'.context = inst.context
         /\ inst'.step = IF local[p].from + 1 # View(p).step THEN local[p].from + 1 ELSE inst.step
         /\ \A h \in Proc \ {host[p]} : view'[h] = view[h]
         /\ view'[host[p]].status = View(p).status
         /\ view'[host[p]].step = local[p].from + 1
         /\ view'[host[p]].pendingTo = View(p).pendingTo
         /\ view'[host[p]].context = View(p).context
<1>1. View(p) \in Instance /\ inst \in Instance /\ local[p] \in Locals /\ SystemTypeOK /\ host[p] \in Proc
  BY ViewType DEF Typed, SystemTypeOK
<1>2. /\ pc[p] = "move" /\ Calm /\ UNCHANGED <<local, jobs>> /\ Goto(p, "loop")
      /\ Write(p, [View(p) EXCEPT !.step = local[p].from + 1])
      /\ entered' = [entered EXCEPT ![local[p].from + 1] = @ + 1]
  BY DEF executeTransition, Calm, Kept
<1>3. PICK to \in Step : to = local[p].from + 1
  BY <1>2, NextStep
<1>4. PICK new : new = [View(p) EXCEPT !.step = to]
  OBVIOUS
<1>5. /\ new \in Instance /\ new.step = to /\ new.status = View(p).status
      /\ new.pendingTo = View(p).pendingTo /\ new.context = View(p).context
  BY <1>1, <1>4 DEF Instance
<1>6. Write(p, new)
  BY <1>2, <1>3, <1>4
<1>7. /\ inst' \in Instance /\ view' \in [Proc -> Instance]
      /\ inst'.status = inst.status /\ inst'.pendingTo = inst.pendingTo
      /\ inst'.context = inst.context
      /\ inst'.step = IF to # View(p).step THEN to ELSE inst.step
      /\ \A h \in Proc : view'[h] = IF h = host[p] THEN new ELSE view[h]
  BY <1>1, <1>5, <1>6, WriteActs
<1>8. /\ pc' \in [Proc -> Labels] /\ Stays(p) /\ pc'[p] = "loop"
  BY <1>1, <1>2, GotoActs, GotoType DEF Labels, Stays
<1>9. entered' \in [Step -> Nat]
  BY <1>1, <1>2, <1>3 DEF SystemTypeOK
<1>10. Typed'
  BY <1>2, <1>7, <1>8, <1>9, TypedAfter DEF Typed, SystemTypeOK, Calm, Kept
<1>11. QED
  BY <1>1, <1>2, <1>3, <1>5, <1>7, <1>8, <1>10

LEMMA EnqueueActs ==
  ASSUME Typed, NEW p \in Proc, enqueueActivity(p)
  PROVE  /\ Typed' /\ pc[p] = "enqueue" /\ pc' = pc /\ Kept
         /\ UNCHANGED <<inst, view, completed, failed>>
         /\ Stays(p) /\ nextJob \in Job /\ nextJob' = nextJob + 1
         /\ Cardinality(local[p].queued) < Acts[local[p].from + 1]
         /\ local'[p].job = local[p].job /\ local'[p].from = local[p].from
         /\ local'[p].queued = local[p].queued \cup {nextJob}
         /\ jobs'[nextJob].state = "queued" /\ jobs'[nextJob].delivery = 0
         /\ jobs'[nextJob].transition = local[p].from + 1
         /\ \A j \in Job \ {nextJob} : jobs'[j] = jobs[j]
<1>1. local[p] \in Locals /\ SystemTypeOK /\ nextJob \in Job
  BY ViewType DEF Typed, enqueueActivity
<1>2. /\ pc[p] = "enqueue" /\ Kept /\ UNCHANGED <<inst, view, completed, failed, pc, entered>>
      /\ Cardinality(local[p].queued) < Acts[local[p].from + 1]
      /\ nextJob' = nextJob + 1
      /\ local' = [local EXCEPT ![p].queued = @ \cup {nextJob}]
      /\ jobs' = [jobs EXCEPT ![nextJob] =
                    [state |-> "queued", transition |-> local[p].from + 1, delivery |-> 0]]
  BY DEF enqueueActivity, Kept
<1>3. local[p].from + 1 \in Step
  BY <1>2, NextStep
<1>4. PICK record : record = [state |-> "queued", transition |-> local[p].from + 1, delivery |-> 0]
  OBVIOUS
<1>5. /\ record \in JobRecord /\ record.state = "queued" /\ record.delivery = 0
      /\ record.transition = local[p].from + 1
  BY <1>3, <1>4 DEF JobRecord
<1>6. /\ jobs' \in [Job -> JobRecord] /\ jobs'[nextJob] = record
      /\ \A j \in Job \ {nextJob} : jobs'[j] = jobs[j]
  BY <1>1, <1>2, <1>4, <1>5 DEF SystemTypeOK
<1>7. PICK l : l = [local[p] EXCEPT !.queued = @ \cup {nextJob}]
  OBVIOUS
<1>8. /\ l \in Locals /\ l.job = local[p].job /\ l.from = local[p].from
      /\ l.queued = local[p].queued \cup {nextJob}
  BY <1>1, <1>7 DEF Locals
<1>9. local' = [local EXCEPT ![p] = l]
  BY <1>2, <1>7
<1>10. /\ local' \in [Proc -> Locals] /\ local'[p] = l
       /\ \A q \in Proc \ {p} : local'[q] = local[q]
  BY <1>1, <1>8, <1>9 DEF SystemTypeOK
<1>11. Stays(p) /\ nextJob' \in 1..(MaxJobs + 1)
  BY <1>1, <1>2, <1>10, ConstantsAssumption DEF Stays, Job
<1>12. Typed'
  BY <1>1, <1>2, <1>6, <1>8, <1>10, <1>11, TypedAfter DEF Typed, SystemTypeOK, Kept, Labels
<1>13. QED
  BY <1>1, <1>2, <1>5, <1>6, <1>8, <1>10, <1>11, <1>12

LEMMA PauseActs ==
  ASSUME Typed, NEW p \in Proc, pauseForActivities(p)
  PROVE  /\ Typed' /\ pc[p] = "enqueue" /\ Calm /\ Returns(p)
         /\ Cardinality(local[p].queued) = Acts[local[p].from + 1]
         /\ \E new \in Instance :
              /\ new.status = "WAITING" /\ new.step = View(p).step
              /\ new.pendingTo = local[p].from + 1
              /\ new.context.tracked = local[p].queued
              /\ new.context.results = View(p).context.results
              /\ inst' = Flush(inst, View(p), new)
         /\ \A h \in Proc \ {host[p]} : view'[h] = view[h]
<1>1. View(p) \in Instance /\ local[p] \in Locals /\ SystemTypeOK
  BY ViewType DEF Typed
<1>2. PICK new : new = [View(p) EXCEPT !.status = "WAITING", !.pendingTo = local[p].from + 1,
                                       !.context.tracked = local[p].queued]
  OBVIOUS
<1>3. /\ pc[p] = "enqueue" /\ Calm /\ Return(p) /\ entered' = entered /\ Write(p, new)
      /\ Cardinality(local[p].queued) = Acts[local[p].from + 1]
  BY <1>2 DEF pauseForActivities, Calm, Kept
<1>4. local[p].from + 1 \in Step
  BY <1>3, NextStep
<1>5. PICK context : context = [View(p).context EXCEPT !.tracked = local[p].queued]
  OBVIOUS
<1>6. View(p).context \in Context
  BY <1>1 DEF Instance
<1>7. /\ context \in Context /\ context.tracked = local[p].queued
      /\ context.results = View(p).context.results
  BY <1>1, <1>5, <1>6 DEF Context, Locals
<1>8. new = [View(p) EXCEPT !.status = "WAITING", !.pendingTo = local[p].from + 1,
                            !.context = context]
  BY <1>2, <1>5
<1>9. /\ new \in Instance /\ new.status = "WAITING" /\ new.step = View(p).step
      /\ new.pendingTo = local[p].from + 1 /\ new.context = context
  BY <1>1, <1>4, <1>7, <1>8 DEF Instance
<1>10. /\ inst' \in Instance /\ view' \in [Proc -> Instance]
       /\ \A h \in Proc \ {host[p]} : view'[h] = view[h]
  BY <1>1, <1>3, <1>9, WriteActs
<1>11. inst' = Flush(inst, View(p), new)
  BY <1>3 DEF Write
<1>12. Typed' /\ Returns(p)
  BY <1>3, <1>10, ReturnTyped
<1>13. QED
  BY <1>3, <1>7, <1>9, <1>10, <1>11, <1>12

LEMMA WorkersRun == Workers \subseteq Proc /\ Web \in Proc
BY DEF Proc

\* One column of the local variables, or two.
LEMMA LocalActs ==
  ASSUME Typed, NEW p \in Proc, NEW l \in Locals, local' = [local EXCEPT ![p] = l],
         NEW label \in Labels, Goto(p, label)
  PROVE  /\ local' \in [Proc -> Locals] /\ local'[p] = l
         /\ pc' \in [Proc -> Labels] /\ pc'[p] = label /\ Stays(p)
<1>1. /\ local' \in [Proc -> Locals] /\ local'[p] = l
      /\ \A q \in Proc \ {p} : local'[q] = local[q]
  BY DEF Typed, SystemTypeOK
<1>2. QED
  BY <1>1, GotoActs, GotoType DEF Typed, Stays

LEMMA TakeActs ==
  ASSUME Typed, NEW w \in Proc, NEW j \in Job, TakeJob(w, j)
  PROVE  /\ Typed' /\ w \in Workers /\ pc[w] = "idle" /\ pc'[w] = "run" /\ Calm /\ inst' = inst
         /\ Stays(w) /\ Reads(w)
         /\ local'[w].job = j
         /\ jobs[j].state = "queued"
         /\ jobs'[j].state = "active" /\ jobs'[j].delivery = jobs[j].delivery + 1
         /\ jobs'[j].transition = jobs[j].transition
         /\ \A i \in Job \ {j} : jobs'[i] = jobs[i]
<1>1. SystemTypeOK /\ local[w] \in Locals
  BY ViewType DEF Typed
<1>2. /\ w \in Workers /\ pc[w] = "idle" /\ Calm /\ UNCHANGED <<inst, entered>>
      /\ jobs[j].state = "queued" /\ Read(w) /\ Goto(w, "run")
      /\ jobs' = [jobs EXCEPT ![j].state = "active", ![j].delivery = @ + 1]
  BY DEF TakeJob, Calm, Kept
<1>3. PICK l : l = [local[w] EXCEPT !.job = j]
  OBVIOUS
<1>4. l \in Locals /\ l.job = j
  BY <1>1, <1>3 DEF Locals
<1>5. local' = [local EXCEPT ![w] = l]
  BY <1>3 DEF TakeJob
<1>6. /\ local' \in [Proc -> Locals] /\ local'[w] = l
      /\ pc' \in [Proc -> Labels] /\ pc'[w] = "run" /\ Stays(w)
  BY <1>2, <1>4, <1>5, LocalActs DEF Labels
<1>7. jobs[j] \in JobRecord
  BY <1>1 DEF SystemTypeOK
<1>8. PICK n \in Nat : n = jobs[j].delivery + 1
  BY <1>7 DEF JobRecord
<1>9. PICK record : record = [jobs[j] EXCEPT !.state = "active", !.delivery = n]
  OBVIOUS
<1>10. /\ record \in JobRecord /\ record.state = "active"
      /\ record.delivery = n /\ record.transition = jobs[j].transition
  BY <1>7, <1>9 DEF JobRecord
<1>11. jobs' = [jobs EXCEPT ![j] = record]
  BY <1>2, <1>8, <1>9
<1>12. /\ jobs' \in [Job -> JobRecord] /\ jobs'[j] = record
       /\ \A i \in Job \ {j} : jobs'[i] = jobs[i]
  BY <1>10, <1>1, <1>11 DEF SystemTypeOK
<1>13. view' \in [Proc -> Instance] /\ Reads(w)
  BY <1>1, <1>2, ReadActs DEF Reads
<1>14. Typed'
  BY <1>2, <1>4, <1>6, <1>12, <1>13, TypedAfter DEF Typed, SystemTypeOK, Calm, Kept
<1>15. QED
  BY <1>10, <1>2, <1>4, <1>6, <1>8, <1>12, <1>13, <1>14

\* The event a worker logs.
Event(w) == <<local[w].job, jobs[local[w].job].delivery>>

LEMMA EventType ==
  ASSUME Typed, NEW w \in Proc, pc[w] = "run"
  PROVE  Event(w) \in Job \X Nat
<1>1. local[w].job \in Job
  BY DEF Typed
<1>2. jobs[local[w].job].delivery \in Nat
  BY <1>1 DEF Typed, SystemTypeOK, JobRecord
<1>3. QED
  BY <1>1, <1>2 DEF Event

LEMMA CompletedActs ==
  ASSUME Typed, NEW w \in Proc, ActivityCompleted(w)
  PROVE  /\ Typed' /\ pc[w] = "run" /\ pc'[w] = "resume" /\ Kept
         /\ UNCHANGED <<inst, jobs, nextJob, failed, view, local>>
         /\ Stays(w) /\ completed' = completed \cup {Event(w)}
<1>1. /\ pc[w] = "run" /\ Kept /\ UNCHANGED <<inst, jobs, nextJob, failed, view, local, entered>>
      /\ completed' = completed \cup {Event(w)} /\ Goto(w, "resume")
  BY DEF ActivityCompleted, Kept, Event
<1>2. Event(w) \in Job \X Nat
  BY <1>1, EventType
<1>3. completed' \subseteq Job \X Nat /\ IsFiniteSet(completed')
  BY <1>1, <1>2, FS_AddElement DEF Typed, SystemTypeOK
<1>4. pc' \in [Proc -> Labels] /\ pc'[w] = "resume" /\ Stays(w)
  BY <1>1, GotoActs, GotoType DEF Labels, Typed, Stays
<1>5. Typed'
  BY <1>1, <1>3, <1>4, TypedAfter DEF Typed, SystemTypeOK, Kept
<1>6. QED
  BY <1>1, <1>4, <1>5

LEMMA FailedActs ==
  ASSUME Typed, NEW w \in Proc, ActivityFailed(w)
  PROVE  /\ Typed' /\ pc[w] = "run" /\ Kept /\ UNCHANGED <<inst, nextJob, completed, view>>
         /\ failed' = failed \cup {Event(w)}
         /\ \/ Stays(w) /\ pc'[w] = "resume" /\ UNCHANGED <<jobs, local>>
            \/ Returns(w)
<1>1. /\ pc[w] = "run" /\ Kept /\ UNCHANGED <<inst, nextJob, completed, view, entered>>
      /\ failed' = failed \cup {Event(w)}
  BY DEF ActivityFailed, Kept, Event
<1>2. Event(w) \in Job \X Nat
  BY <1>1, EventType
<1>3. failed' \subseteq Job \X Nat /\ IsFiniteSet(failed')
  BY <1>1, <1>2, FS_AddElement DEF Typed, SystemTypeOK
<1>4. CASE Goto(w, "resume") /\ UNCHANGED <<jobs, local>>
  <2>1. pc' \in [Proc -> Labels] /\ pc'[w] = "resume" /\ Stays(w)
    BY <1>4, GotoActs, GotoType DEF Labels, Typed, Stays
  <2>2. Typed'
    BY <1>1, <1>3, <1>4, <2>1, TypedAfter DEF Typed, SystemTypeOK, Kept
  <2>3. QED
    BY <1>1, <1>4, <2>1, <2>2
<1>5. CASE Return(w)
  <2>1. /\ pc' \in [Proc -> Labels] /\ local' \in [Proc -> Locals]
        /\ jobs' \in [Job -> JobRecord] /\ Returns(w)
    BY <1>5, ReturnActs DEF Typed, Returns
  <2>2. pc'[w] = "idle" /\ Stays(w)
    BY <2>1 DEF Returns
  <2>3. Typed'
    BY <1>1, <1>3, <2>1, <2>2, TypedAfter DEF Typed, SystemTypeOK, Kept
  <2>4. QED
    BY <1>1, <2>1, <2>3
<1>6. QED
  BY <1>4, <1>5 DEF ActivityFailed

LEMMA FindActs ==
  ASSUME Typed, NEW w \in Proc, FindWaitingInstance(w)
  PROVE  /\ Typed' /\ pc[w] = "resume" /\ pc'[w] = "countCompleted" /\ Calm
         /\ UNCHANGED <<inst, jobs>> /\ Stays(w) /\ Reads(w) /\ inst.status = "WAITING"
         /\ local'[w].job = local[w].job /\ local'[w].tracked = inst.context.tracked
<1>1. SystemTypeOK /\ local[w] \in Locals /\ inst.context \in Context
  BY ViewType DEF Typed, Instance
<1>2. /\ pc[w] = "resume" /\ Calm /\ UNCHANGED <<inst, jobs, entered>>
      /\ inst.status = "WAITING" /\ Read(w) /\ Goto(w, "countCompleted")
  BY DEF FindWaitingInstance, Calm, Kept
<1>3. PICK l : l = [local[w] EXCEPT !.tracked = inst.context.tracked]
  OBVIOUS
<1>4. l \in Locals /\ l.job = local[w].job /\ l.tracked = inst.context.tracked
  BY <1>1, <1>3 DEF Locals, Context
<1>5. local' = [local EXCEPT ![w] = l]
  BY <1>3 DEF FindWaitingInstance
<1>6. /\ local' \in [Proc -> Locals] /\ local'[w] = l
      /\ pc' \in [Proc -> Labels] /\ pc'[w] = "countCompleted" /\ Stays(w)
  BY <1>2, <1>4, <1>5, LocalActs DEF Labels
<1>7. view' \in [Proc -> Instance] /\ Reads(w)
  BY <1>1, <1>2, ReadActs DEF Reads
<1>8. Typed'
  BY <1>2, <1>4, <1>6, <1>7, TypedAfter DEF Typed, SystemTypeOK, Calm, Kept
<1>9. QED
  BY <1>2, <1>4, <1>6, <1>7, <1>8

LEMMA GiveUpActs ==
  ASSUME Typed, NEW w \in Proc, NotWaiting(w) \/ StillPending(w)
  PROVE  Typed' /\ Calm /\ UNCHANGED <<inst, view>> /\ Returns(w) /\ pc[w] \in {"resume", "decide"}
<1>1. /\ pc[w] \in {"resume", "decide"} /\ Calm /\ UNCHANGED <<inst, view, entered>> /\ Return(w)
  BY DEF NotWaiting, StillPending, Calm, Kept
<1>2. QED
  BY <1>1, ReturnTyped DEF Typed, SystemTypeOK

LEMMA CountActs ==
  ASSUME Typed, NEW w \in Proc, CountCompleted(w) \/ CountFailed(w)
  PROVE  /\ Typed' /\ Calm /\ UNCHANGED <<inst, jobs, view>> /\ Stays(w)
         /\ local'[w].job = local[w].job /\ local'[w].tracked = local[w].tracked
         /\ \/ /\ pc[w] = "countCompleted" /\ pc'[w] = "countFailed"
               /\ local'[w].completedCount = Cardinality(completed)
            \/ /\ pc[w] = "countFailed" /\ pc'[w] = "decide"
               /\ local'[w].completedCount = local[w].completedCount
               /\ local'[w].failedCount = Cardinality(failed)
<1>1. SystemTypeOK /\ local[w] \in Locals /\ Cardinality(completed) \in Nat /\ Cardinality(failed) \in Nat
  BY ViewType, FS_CardinalityType DEF Typed
<1>2. Calm /\ UNCHANGED <<inst, jobs, view, entered>>
  BY DEF CountCompleted, CountFailed, Calm, Kept
<1>3. ASSUME NEW l \in Locals, NEW label \in Labels \ {"move", "enqueue", "run"},
             local' = [local EXCEPT ![w] = l], Goto(w, label)
      PROVE  Typed' /\ local'[w] = l /\ pc'[w] = label /\ Stays(w)
  <2>1. /\ local' \in [Proc -> Locals] /\ local'[w] = l
        /\ pc' \in [Proc -> Labels] /\ pc'[w] = label /\ Stays(w)
    BY <1>3, LocalActs
  <2>2. Typed'
    BY <1>2, <1>3, <2>1, TypedAfter DEF Typed, SystemTypeOK, Calm, Kept
  <2>3. QED
    BY <2>1, <2>2
<1>4. CASE CountCompleted(w)
  <2>1. PICK l : l = [local[w] EXCEPT !.completedCount = Cardinality(completed)]
    OBVIOUS
  <2>2. /\ l \in Locals /\ l.job = local[w].job /\ l.tracked = local[w].tracked
        /\ l.completedCount = Cardinality(completed)
    BY <1>1, <2>1 DEF Locals
  <2>3. pc[w] = "countCompleted" /\ local' = [local EXCEPT ![w] = l] /\ Goto(w, "countFailed")
    BY <1>4, <2>1 DEF CountCompleted
  <2>4. "countFailed" \in Labels \ {"move", "enqueue", "run"}
    BY DEF Labels
  <2>5. QED
    BY <1>2, <1>3, <2>2, <2>3, <2>4
<1>5. CASE CountFailed(w)
  <2>1. PICK l : l = [local[w] EXCEPT !.failedCount = Cardinality(failed)]
    OBVIOUS
  <2>2. /\ l \in Locals /\ l.job = local[w].job /\ l.tracked = local[w].tracked
        /\ l.completedCount = local[w].completedCount
        /\ l.failedCount = Cardinality(failed)
    BY <1>1, <2>1 DEF Locals
  <2>3. pc[w] = "countFailed" /\ local' = [local EXCEPT ![w] = l] /\ Goto(w, "decide")
    BY <1>5, <2>1 DEF CountFailed
  <2>4. "decide" \in Labels \ {"move", "enqueue", "run"}
    BY DEF Labels
  <2>5. QED
    BY <1>2, <1>3, <2>2, <2>3, <2>4
<1>6. QED
  BY <1>4, <1>5

LEMMA FailActs ==
  ASSUME Typed, NEW w \in Proc, FailWorkflow(w)
  PROVE  /\ Typed' /\ pc[w] = "decide" /\ Calm /\ Returns(w) /\ Marks(w, "FAILED")
<1>1. /\ pc[w] = "decide" /\ Calm /\ Return(w) /\ entered' = entered
      /\ Write(w, [View(w) EXCEPT !.status = "FAILED"])
  BY DEF FailWorkflow, Calm, Kept
<1>2. QED
  BY <1>1, MarkActs, ReturnTyped

\* The jobs whose outputs are merged.
Finished == {e[1] : e \in completed}

LEMMA MergedType ==
  ASSUME Typed, NEW context \in Context, NEW merged, merged = Merged(context)
  PROVE  /\ merged \in Context /\ merged.tracked = {}
         /\ merged.results = context.results \cup Finished
<1>1. Finished \subseteq Job
  <2>1. ASSUME NEW e \in completed PROVE e[1] \in Job
    BY DEF Typed, SystemTypeOK
  <2>2. QED
    BY <2>1 DEF Finished
<1>2. merged = [tracked |-> {}, results |-> context.results \cup Finished]
  BY DEF Merged, Finished
<1>3. QED
  BY <1>1, <1>2 DEF Context

LEMMA SucceededMeans ==
  ASSUME NEW w \in Proc, AllSucceeded(w)
  PROVE  /\ pc[w] = "decide" /\ local[w].failedCount = 0
         /\ local[w].completedCount + 0 >= Cardinality(local[w].tracked)
BY DEF AllSucceeded, AllProcessed

\* What both ways to resume write.
Resumes(w, to) ==
  \E new \in Instance :
    /\ new.status = "RUNNING" /\ new.step = to /\ new.pendingTo = None
    /\ new.context.tracked = {} /\ new.context.results = View(w).context.results \cup Finished
    /\ inst'.status = IF new.status # View(w).status THEN new.status ELSE inst.status
    /\ inst'.step = IF new.step # View(w).step THEN new.step ELSE inst.step
    /\ inst'.pendingTo = IF new.pendingTo # View(w).pendingTo THEN new.pendingTo
                         ELSE inst.pendingTo
    /\ inst'.context = IF new.context # View(w).context THEN new.context ELSE inst.context
    /\ \A h \in Proc : view'[h] = IF h = host[w] THEN new ELSE view[h]

LEMMA PlainResumeActs ==
  ASSUME Typed, NEW w \in Proc, ResumeWithoutTransition(w)
  PROVE  /\ Typed' /\ AllSucceeded(w) /\ pc[w] = "decide" /\ pc'[w] = "execute" /\ Calm /\ Stays(w)
         /\ UNCHANGED <<jobs, local>>
         /\ View(w).pendingTo = None /\ Resumes(w, View(w).step)
<1>1. View(w) \in Instance /\ View(w).context \in Context /\ SystemTypeOK
  BY ViewType DEF Typed, Instance
<1>2. PICK merged : merged = Merged(View(w).context)
  OBVIOUS
<1>3. PICK new : new = [View(w) EXCEPT !.status = "RUNNING", !.context = merged]
  OBVIOUS
<1>4. /\ AllSucceeded(w) /\ pc[w] = "decide" /\ Calm /\ UNCHANGED <<jobs, local, entered>>
      /\ View(w).pendingTo = None /\ Goto(w, "execute") /\ Write(w, new)
  BY <1>2, <1>3 DEF ResumeWithoutTransition, AllSucceeded, Calm, Kept
<1>5. /\ merged \in Context /\ merged.tracked = {}
      /\ merged.results = View(w).context.results \cup Finished
  BY <1>1, <1>2, MergedType
<1>6. /\ new \in Instance /\ new.status = "RUNNING" /\ new.step = View(w).step
      /\ new.pendingTo = None /\ new.context = merged
  BY <1>1, <1>3, <1>4, <1>5 DEF Instance
<1>7. /\ inst' \in Instance /\ view' \in [Proc -> Instance]
      /\ inst'.status = IF new.status # View(w).status THEN new.status ELSE inst.status
      /\ inst'.step = IF new.step # View(w).step THEN new.step ELSE inst.step
      /\ inst'.pendingTo = IF new.pendingTo # View(w).pendingTo THEN new.pendingTo
                           ELSE inst.pendingTo
      /\ inst'.context = IF new.context # View(w).context THEN new.context ELSE inst.context
      /\ \A h \in Proc : view'[h] = IF h = host[w] THEN new ELSE view[h]
  BY <1>1, <1>4, <1>6, WriteActs
<1>8. Resumes(w, View(w).step)
  BY <1>5, <1>6, <1>7 DEF Resumes
<1>9. /\ pc' \in [Proc -> Labels] /\ Stays(w) /\ pc'[w] = "execute"
  BY <1>1, <1>4, GotoActs, GotoType DEF Labels, Stays
<1>10. Typed'
  BY <1>4, <1>7, <1>9, TypedAfter DEF Typed, SystemTypeOK, Calm, Kept
<1>11. QED
  BY <1>4, <1>8, <1>9, <1>10

LEMMA ResumeActs ==
  ASSUME Typed, NEW w \in Proc, ResumePendingTransition(w)
  PROVE  /\ Typed' /\ AllSucceeded(w) /\ pc[w] = "decide" /\ pc'[w] = "enter" /\ Calm /\ Stays(w)
         /\ jobs' = jobs /\ local'[w].job = local[w].job
         /\ View(w).pendingTo # None /\ Resumes(w, View(w).pendingTo)
<1>1. View(w) \in Instance /\ View(w).context \in Context /\ local[w] \in Locals /\ SystemTypeOK
  BY ViewType DEF Typed, Instance
<1>2. PICK merged : merged = Merged(View(w).context)
  OBVIOUS
<1>3. PICK new : new = [View(w) EXCEPT !.status = "RUNNING", !.step = View(w).pendingTo,
                                       !.pendingTo = None, !.context = merged]
  OBVIOUS
<1>4. /\ AllSucceeded(w) /\ pc[w] = "decide" /\ Calm /\ UNCHANGED <<jobs, entered>>
      /\ View(w).pendingTo # None /\ Goto(w, "enter")
  BY DEF ResumePendingTransition, AllSucceeded, Calm, Kept
<1>5. Write(w, new)
  BY <1>2, <1>3 DEF ResumePendingTransition
<1>6. /\ merged \in Context /\ merged.tracked = {}
      /\ merged.results = View(w).context.results \cup Finished
  BY <1>1, <1>2, MergedType
<1>7. PICK to \in Step : to = View(w).pendingTo
  BY <1>1, <1>4 DEF Instance
<1>8. /\ new \in Instance /\ new.status = "RUNNING" /\ new.step = to
      /\ new.pendingTo = None /\ new.context = merged
  BY <1>1, <1>3, <1>6, <1>7 DEF Instance
<1>9. /\ inst' \in Instance /\ view' \in [Proc -> Instance]
      /\ inst'.status = IF new.status # View(w).status THEN new.status ELSE inst.status
      /\ inst'.step = IF new.step # View(w).step THEN new.step ELSE inst.step
      /\ inst'.pendingTo = IF new.pendingTo # View(w).pendingTo THEN new.pendingTo
                           ELSE inst.pendingTo
      /\ inst'.context = IF new.context # View(w).context THEN new.context ELSE inst.context
      /\ \A h \in Proc : view'[h] = IF h = host[w] THEN new ELSE view[h]
  BY <1>1, <1>5, <1>8, WriteActs
<1>10. Resumes(w, View(w).pendingTo)
  BY <1>6, <1>7, <1>8, <1>9 DEF Resumes
<1>11. PICK l : l = [local[w] EXCEPT !.from = to]
  OBVIOUS
<1>12. l \in Locals /\ l.job = local[w].job
  BY <1>1, <1>11 DEF Locals
<1>13. local' = [local EXCEPT ![w] = l]
  BY <1>7, <1>11 DEF ResumePendingTransition
<1>14. /\ local' \in [Proc -> Locals] /\ local'[w] = l
       /\ pc' \in [Proc -> Labels] /\ pc'[w] = "enter" /\ Stays(w)
  BY <1>4, <1>12, <1>13, LocalActs DEF Labels
<1>15. Typed'
  BY <1>4, <1>9, <1>14, TypedAfter DEF Typed, SystemTypeOK, Calm, Kept
<1>16. QED
  BY <1>4, <1>10, <1>12, <1>14, <1>15

LEMMA DeferredActs ==
  ASSUME Typed, NEW w \in Proc, executeDeferredStep(w)
  PROVE  /\ Typed' /\ pc[w] = "enter" /\ pc'[w] = "execute" /\ Calm /\ Stays(w)
         /\ UNCHANGED <<inst, view, local, jobs>>
<1>1. /\ pc[w] = "enter" /\ Calm /\ UNCHANGED <<inst, view, local, jobs>> /\ Goto(w, "execute")
      /\ entered' = [entered EXCEPT ![local[w].from] = @ + 1]
  BY DEF executeDeferredStep, Calm, Kept
<1>2. pc' \in [Proc -> Labels] /\ Stays(w) /\ pc'[w] = "execute"
  BY <1>1, GotoActs, GotoType DEF Labels, Stays, Typed
<1>3. PICK s \in Step : s = local[w].from
  BY ViewType DEF Typed, Locals
<1>4. entered' \in [Step -> Nat]
  BY <1>1, <1>3 DEF Typed, SystemTypeOK
<1>5. Typed'
  BY <1>1, <1>2, <1>4, TypedAfter DEF Typed, SystemTypeOK, Calm, Kept
<1>6. QED
  BY <1>1, <1>2, <1>5

LEMMA RetryActs ==
  ASSUME Typed, retry
  PROVE  Typed' /\ retries' # 0
<1>1. PICK new : new = [inst EXCEPT !.status = "RUNNING"]
  OBVIOUS
<1>2. new \in Instance
  BY <1>1 DEF Typed, SystemTypeOK, Instance
<1>3. /\ inst' = new /\ view' = [view EXCEPT ![Web] = new] /\ Goto(Web, "execute")
      /\ retries' = retries + 1
      /\ UNCHANGED <<jobs, nextJob, completed, failed, host, local, entered, crashes>>
  BY <1>1 DEF retry
<1>4. view' \in [Proc -> Instance]
  BY <1>2, <1>3 DEF Typed, SystemTypeOK
<1>5. pc' \in [Proc -> Labels] /\ Stays(Web) /\ pc'[Web] = "execute"
  BY <1>3, WorkersRun, GotoActs, GotoType DEF Labels, Stays, Typed
<1>6. Typed'
  BY <1>2, <1>3, <1>4, <1>5, WorkersRun, TypedAfter DEF Typed, SystemTypeOK
<1>7. QED
  BY <1>3, <1>6 DEF Typed, SystemTypeOK

\* The processes that die together with p.
Killed(p) == {q \in Proc : host[q] = host[p]}

LEMMA CrashActs ==
  ASSUME Typed, NEW p \in Proc, Crash(p)
  PROVE  /\ Typed' /\ crashes' # 0 /\ pc[p] # "idle"
         /\ UNCHANGED <<inst, view, nextJob, completed, failed, host, retries>>
         /\ \A q \in Proc : \/ pc'[q] = "idle" /\ local'[q] = Idle
                            \/ pc'[q] = pc[q] /\ local'[q] = local[q]
         /\ \A j \in Job : /\ jobs'[j].transition = jobs[j].transition
                           /\ \/ jobs'[j] = jobs[j]
                              \/ \E q \in Proc : local[q].job = j
<1>1. /\ pc[p] # "idle" /\ crashes' = crashes + 1
      /\ pc' = [q \in Proc |-> IF q \in Killed(p) THEN "idle" ELSE pc[q]]
      /\ local' = [q \in Proc |-> IF q \in Killed(p) THEN Idle ELSE local[q]]
      /\ jobs' = [j \in Job |-> IF \E q \in Killed(p) : local[q].job = j
                                  THEN [jobs[j] EXCEPT !.state = "queued"] ELSE jobs[j]]
      /\ UNCHANGED <<inst, view, nextJob, completed, failed, host, entered, retries>>
  BY DEF Crash, Killed
<1>2. /\ pc' \in [Proc -> Labels] /\ local' \in [Proc -> Locals]
      /\ \A q \in Proc : \/ pc'[q] = "idle" /\ local'[q] = Idle
                         \/ pc'[q] = pc[q] /\ local'[q] = local[q]
  BY <1>1, NewTypes DEF Typed, SystemTypeOK, Labels
<1>3. ASSUME NEW j \in Job
      PROVE  /\ jobs'[j] \in JobRecord /\ jobs'[j].transition = jobs[j].transition
             /\ jobs'[j] = jobs[j] \/ \E q \in Proc : local[q].job = j
  <2>1. jobs[j] \in JobRecord
    BY DEF Typed, SystemTypeOK
  <2>2. PICK record : record = [jobs[j] EXCEPT !.state = "queued"]
    OBVIOUS
  <2>3. record \in JobRecord /\ record.transition = jobs[j].transition
    BY <2>1, <2>2 DEF JobRecord
  <2>4. jobs'[j] = jobs[j] \/ (jobs'[j] = record /\ \E q \in Killed(p) : local[q].job = j)
    BY <1>1, <2>2
  <2>5. QED
    BY <2>1, <2>3, <2>4 DEF Killed
<1>4. jobs' \in [Job -> JobRecord]
  BY <1>1, <1>3
<1>5. SystemTypeOK' /\ crashes' # 0
  BY <1>1, <1>2, <1>4 DEF Typed, SystemTypeOK, Labels
<1>6. Hosted' /\ IsFiniteSet(completed') /\ IsFiniteSet(failed')
  BY <1>1 DEF Typed, Hosted
<1>7. /\ \A q \in Proc : pc'[q] \in {"move", "enqueue"} => local'[q].from < End
      /\ \A q \in Proc : pc'[q] = "run" => local'[q].job \in Job
  BY <1>2 DEF Typed
<1>8. Typed'
  BY <1>5, <1>6, <1>7 DEF Typed
<1>9. QED
  BY <1>1, <1>2, <1>3, <1>5, <1>8

LEMMA NextTyped == Typed /\ [Next]_vars => Typed'
<1>1. SUFFICES ASSUME Typed, [Next]_vars PROVE Typed'
  OBVIOUS
<1>2. ASSUME NEW p \in Proc, Execute(p) PROVE Typed'
  BY <1>1, <1>2, ExecuteActs, LoopActs, CompleteActs, MoveActs, EnqueueActs, PauseActs DEF Execute
<1>3. ASSUME NEW w \in Proc, Work(w) PROVE Typed'
  <2>1. CASE \/ \E j \in Job : TakeJob(w, j)
             \/ ActivityCompleted(w) \/ ActivityFailed(w) \/ FindWaitingInstance(w)
             \/ NotWaiting(w) \/ CountCompleted(w) \/ CountFailed(w)
    BY <1>1, <2>1, TakeActs, CompletedActs, FailedActs, FindActs, GiveUpActs, CountActs
  <2>2. CASE \/ StillPending(w) \/ FailWorkflow(w) \/ ResumeWithoutTransition(w)
             \/ ResumePendingTransition(w) \/ executeDeferredStep(w)
    BY <1>1, <2>2, GiveUpActs, FailActs, PlainResumeActs, ResumeActs, DeferredActs
  <2>3. QED
    BY <1>3, <2>1, <2>2 DEF Work
<1>4. ASSUME NEW p \in Proc, Crash(p) PROVE Typed'
  BY <1>1, <1>4, CrashActs
<1>5. CASE retry
  BY <1>1, <1>5, RetryActs
<1>6. CASE UNCHANGED vars
  BY <1>1, <1>6 DEF vars, Typed, SystemTypeOK, Hosted
<1>7. QED
  BY <1>1, <1>2, <1>3, <1>4, <1>5, <1>6, WorkersRun DEF Next

LEMMA InitTyped == Init => Typed
<1>1. SUFFICES ASSUME Init PROVE Typed
  OBVIOUS
<1>2. \A p \in Proc : pc[p] \in {"loop", "idle"}
  BY <1>1 DEF Init
<1>3. jobs \in [Job -> JobRecord]
  <2>1. 0 \in Step
    BY ChainType DEF Step, End
  <2>2. [state |-> "none", transition |-> 0, delivery |-> 0] \in JobRecord
    BY <2>1 DEF JobRecord
  <2>3. QED
    BY <1>1, <2>2 DEF Init
<1>4. nextJob \in 1..(MaxJobs + 1)
  BY <1>1, ConstantsAssumption DEF Init
<1>5. SystemTypeOK
  BY <1>1, <1>3, <1>4, NewTypes DEF Init, SystemTypeOK
<1>6. Hosted
  BY <1>1 DEF Init, Hosted
<1>7. IsFiniteSet(completed) /\ IsFiniteSet(failed)
  BY <1>1, FS_EmptySet DEF Init
<1>8. QED
  BY <1>2, <1>5, <1>6, <1>7 DEF Typed

-----------------------------------------------------------------------------
(* Definitions in which at most one transition has asynchronous activities. *)

OneAsync == \E k \in Nat \ {0} : \A l \in DOMAIN Acts : l # k => Acts[l] = 0

\* That transition.
Async == CHOOSE k \in Nat \ {0} : \A l \in DOMAIN Acts : l # k => Acts[l] = 0

LEMMA AsyncType ==
  ASSUME OneAsync
  PROVE  Async \in Nat \ {0} /\ \A k \in Step : k < End /\ Acts[k + 1] > 0 => k + 1 = Async
<1>1. Async \in Nat \ {0} /\ \A l \in DOMAIN Acts : l # Async => Acts[l] = 0
  BY DEF OneAsync, Async
<1>2. ASSUME NEW k \in Step, k < End PROVE k + 1 \in DOMAIN Acts
  BY <1>2, ConstantsAssumption DEF Step, End
<1>3. QED
  BY <1>1, <1>2

\* The row, or a copy of it, before the instance waits, while it does, and
\* after the transition has been taken.
Early(row) ==
  /\ row.status \in {"RUNNING", "COMPLETED"} /\ row.pendingTo = None
  /\ row.step < Async \/ nextJob = 1

Paused(row) ==
  /\ row.status \in {"WAITING", "FAILED"}
  /\ row.step = Async - 1 /\ row.pendingTo = Async
  /\ row.context.tracked = Created
  /\ Cardinality(Created) = Acts[Async] /\ nextJob > 1

Late(row) ==
  /\ row.status # "WAITING" /\ row.step >= Async /\ row.pendingTo = None /\ nextJob > 1
  /\ crashes = 0 => Created \subseteq row.context.results

Begun(row) == Paused(row) \/ Late(row)

\* The web process runs the instance until it waits.
WebOK ==
  /\ local[Web].job = None
  /\ pc[Web] \in {"idle", "loop", "complete", "move", "enqueue"}
  /\ pc[Web] # "idle" => Early(inst) /\ inst.status = "RUNNING"
  /\ pc[Web] \in {"complete", "move", "enqueue"}
       => view[Web] = inst /\ local[Web].from = inst.step
  /\ pc[Web] \in {"loop", "complete", "move"} => nextJob = 1
  /\ pc[Web] = "enqueue"
       => local[Web].queued = Created /\ inst.step + 1 = Async /\ Acts[Async] > 0

Driving == {"execute", "loop", "complete", "move", "enter"}
Counting == {"countCompleted", "countFailed", "decide"}

\* A worker that drives the instance does so behind the transition, one that
\* counts events has a copy of the row from the time the instance waited or
\* from behind the transition.
WorkerOK(w) ==
  /\ pc[w] # "enqueue"
  /\ pc[w] \in Driving => pc[Web] = "idle" /\ Late(inst) /\ Late(View(w))
  /\ pc[w] = "move" => local[w].from >= Async
  /\ pc[w] \in Counting
       => /\ pc[Web] = "idle" /\ local[w].tracked = Created /\ Begun(inst)
          /\ Paused(View(w)) \/ (Late(View(w)) /\ Late(inst))

RowOK == Early(inst) \/ (pc[Web] = "idle" /\ Begun(inst))

JobsOK ==
  /\ \A j \in Created : jobs[j].transition = Async
  /\ \A j \in Job \ Created : jobs[j].state = "none"
  /\ \A w \in Workers : local[w].job # None => local[w].job \in Created

\* Without a crash a job is delivered once, so that events stand for jobs.
Once ==
  crashes = 0 =>
    /\ completed \subseteq Created \X {1}
    /\ \A j \in Created : jobs[j].state = "queued" => jobs[j].delivery = 0
    /\ \A w \in Workers : local[w].job # None
         => jobs[local[w].job].state # "queued" /\ jobs[local[w].job].delivery = 1
    /\ \A w \in Workers : pc[w] \in {"countFailed", "decide"}
         => local[w].completedCount <= Cardinality(completed)
    /\ Late(inst) => Created \subseteq Finished

OneInv == WebOK /\ (\A w \in Workers : WorkerOK(w)) /\ RowOK /\ JobsOK /\ Once

IInv == Typed /\ (retries = 0 => OneInv)

\* A row is in one phase only.
LEMMA Phases ==
  ASSUME Typed, OneAsync, NEW row \in Instance
  PROVE  ~(Early(row) /\ Begun(row)) /\ ~(Paused(row) /\ Late(row))
<1>1. row.step \in Step /\ Step \subseteq Nat /\ Async \in Nat \ {0}
  BY AsyncType, ChainType DEF Instance
<1>3. None \notin Nat
  BY DEF None
<1>2. nextJob \in Nat
  BY ConstantsAssumption DEF Typed, SystemTypeOK
<1>4. row.step \in Nat /\ Async \in Nat
  BY <1>1
<1>5. ~(Early(row) /\ Late(row))
  BY <1>2, <1>4 DEF Early, Late
<1>6. ~(Early(row) /\ Paused(row))
  BY DEF Early, Paused
<1>7. ~(Paused(row) /\ Late(row))
  BY <1>3, <1>4 DEF Paused, Late
<1>8. QED
  BY <1>5, <1>6, <1>7 DEF Begun

\* A step of a worker leaves the others' part of the invariant alone if it keeps
\* the phase of the row, or moves it on when the web process is done.
LEMMA WorkerStep ==
  ASSUME Typed, OneAsync, OneInv, NEW w \in Workers, Stays(w), Kept, nextJob' = nextJob,
         \/ inst' = inst
         \/ /\ pc[Web] = "idle" /\ Begun(inst) /\ Begun(inst')
            /\ Late(inst) => Late(inst'),
         \A h \in Proc \ {host[w]} : view'[h] = view[h],
         NEW copy, copy = view'[host[w]],
         \/ copy = View(w)
         \/ copy = inst /\ inst' = inst
         \/ /\ Begun(inst) /\ (Paused(copy) \/ (Late(copy) /\ Late(inst')))
            /\ Late(View(w)) /\ Late(inst) => Late(copy),
         WorkerOK(w)'
  PROVE  WebOK' /\ (\A v \in Workers : WorkerOK(v)') /\ RowOK'
<1>1. /\ w # Web /\ w \in Proc /\ Web \in Proc /\ host[Web] = Web /\ host[w] \in Workers
      /\ host' = host /\ nextJob' = nextJob /\ crashes' = crashes
  BY WorkersRun, ConstantsAssumption DEF Typed, Hosted, Kept
<1>2. pc'[Web] = pc[Web] /\ local'[Web] = local[Web] /\ view'[Web] = view[Web]
  BY <1>1, ConstantsAssumption DEF Stays
<1>3. /\ Created' = Created
      /\ \A row : /\ Early(row)' = Early(row) /\ Paused(row)' = Paused(row)
                  /\ Late(row)' = Late(row)
  BY <1>1 DEF Created, Early, Paused, Late
<1>4. pc[Web] # "idle" => inst' = inst
  OBVIOUS
<1>5. WebOK'
  <2>1. WebOK
    BY DEF OneInv
  <2>2. CASE pc[Web] = "idle"
    BY <1>2, <2>1, <2>2 DEF WebOK
  <2>3. CASE pc[Web] # "idle"
    BY <1>1, <1>2, <1>3, <1>4, <2>1, <2>3 DEF WebOK, Early, Created
  <2>4. QED
    BY <2>2, <2>3
<1>6. RowOK'
  <2>1. RowOK
    BY DEF OneInv
  <2>2. CASE inst' = inst
    BY <1>1, <1>2, <2>1, <2>2 DEF RowOK, Early, Begun, Paused, Late, Created
  <2>3. CASE pc[Web] = "idle" /\ Begun(inst')
    BY <1>1, <1>2, <2>3 DEF RowOK, Begun, Paused, Late, Created
  <2>4. QED
    BY <2>2, <2>3
<1>7. Begun(inst)' = Begun(inst') /\ Late(inst)' = Late(inst')
  BY <1>1 DEF Begun, Paused, Late, Created
<1>8. (Begun(inst) => Begun(inst')) /\ (Late(inst) => Late(inst'))
  OBVIOUS
<1>9. ASSUME NEW v \in Workers, v # w PROVE WorkerOK(v)'
  <2>1. /\ WorkerOK(v) /\ v \in Proc /\ pc'[v] = pc[v] /\ local'[v] = local[v]
        /\ View(v) = view[host[v]] /\ host[v] \in Proc
    BY <1>1, <1>9, WorkersRun DEF OneInv, Stays, View, Typed, Hosted
  <2>2. PICK other : other = view'[host[v]]
    OBVIOUS
  <2>3. View(v)' = other
    BY <1>1, <2>2 DEF View
  <2>4. /\ Paused(View(v))' = Paused(other) /\ Late(View(v))' = Late(other)
    BY <1>1, <2>3 DEF Paused, Late, Created
  <2>5. CASE host[v] # host[w]
    <3>1. other = View(v)
      BY <2>1, <2>2, <2>5
    <3>2. QED
      BY <1>1, <1>2, <1>3, <1>7, <1>8, <2>1, <2>4, <3>1 DEF WorkerOK
  <2>6. CASE host[v] = host[w]
    <3>1. other = copy /\ View(v) = View(w)
      BY <2>1, <2>2, <2>6 DEF View
    <3>2. CASE copy = View(w)
      BY <1>1, <1>2, <1>3, <1>7, <1>8, <2>1, <2>4, <3>1, <3>2 DEF WorkerOK
    <3>3. CASE copy = inst /\ inst' = inst
      BY <1>1, <1>2, <1>3, <1>7, <1>8, <2>1, <2>4, <3>1, <3>3 DEF WorkerOK, Begun
    <3>4. CASE /\ Begun(inst) /\ (Paused(copy) \/ (Late(copy) /\ Late(inst')))
               /\ Late(View(w)) /\ Late(inst) => Late(copy)
      BY <1>1, <1>2, <1>3, <1>7, <1>8, <2>1, <2>4, <3>1, <3>4 DEF WorkerOK, Begun
    <3>5. QED
      BY <3>2, <3>3, <3>4
  <2>7. QED
    BY <2>5, <2>6
<1>10. QED
  BY <1>5, <1>6, <1>9

LEMMA JobsStep ==
  ASSUME Typed, OneInv, NEW w \in Workers, Stays(w), nextJob' = nextJob,
         local'[w].job \in Created \cup {None, local[w].job},
         \A j \in Job : jobs'[j].transition = jobs[j].transition,
         \A j \in Job \ Created : jobs'[j].state = jobs[j].state
  PROVE  JobsOK'
<1>1. JobsOK /\ Created' = Created /\ Created \subseteq Job
  BY ConstantsAssumption DEF OneInv, Created, Typed, SystemTypeOK, Job
<1>2. \A v \in Workers : local'[v].job # None => local'[v].job \in Created
  BY <1>1, WorkersRun DEF JobsOK, Stays
<1>3. QED
  BY <1>1, <1>2 DEF JobsOK

LEMMA OnceStep ==
  ASSUME Typed, OneInv, NEW w \in Workers, Stays(w), nextJob' = nextJob, crashes' = crashes,
         completed' = completed,
         local'[w].job \in {None, local[w].job},
         \A j \in Job : /\ jobs'[j].delivery = jobs[j].delivery
                        /\ jobs'[j].state \in {"done", jobs[j].state},
         crashes = 0 /\ pc'[w] \in {"countFailed", "decide"}
           => local'[w].completedCount <= Cardinality(completed),
         crashes = 0 /\ Late(inst)' => Created \subseteq Finished
  PROVE  Once'
<1>1. SUFFICES ASSUME crashes = 0 PROVE Once'
  BY DEF Once
<1>2. /\ Once /\ JobsOK /\ Created' = Created /\ Created \subseteq Job /\ Finished' = Finished
  BY ConstantsAssumption DEF OneInv, Created, Typed, SystemTypeOK, Job, Finished
<1>3. \A j \in Created : jobs'[j].state = "queued" => jobs'[j].delivery = 0
  BY <1>1, <1>2 DEF Once
<1>4. ASSUME NEW v \in Workers, local'[v].job # None
      PROVE  jobs'[local'[v].job].state # "queued" /\ jobs'[local'[v].job].delivery = 1
  <2>1. local'[v].job = local[v].job
    BY <1>4, WorkersRun DEF Stays
  <2>2. local[v].job \in Job
    BY <1>2, <1>4, <2>1 DEF JobsOK
  <2>3. jobs[local[v].job].state # "queued" /\ jobs[local[v].job].delivery = 1
    BY <1>1, <1>2, <1>4, <2>1 DEF Once
  <2>4. QED
    BY <2>1, <2>2, <2>3
<1>5. \A v \in Workers : pc'[v] \in {"countFailed", "decide"}
        => local'[v].completedCount <= Cardinality(completed)
  BY <1>1, <1>2, WorkersRun DEF Once, Stays
<1>6. QED
  BY <1>1, <1>2, <1>3, <1>4, <1>5 DEF Once

\* The same, told in the values a step leaves: the row, and the copy of the
\* process it belongs to.
LEMMA WorkerGoes ==
  ASSUME Typed, OneAsync, OneInv, NEW w \in Workers, Stays(w), Kept, nextJob' = nextJob,
         NEW row, row = inst', NEW copy, copy = view'[host[w]],
         \/ row = inst
         \/ pc[Web] = "idle" /\ Begun(inst) /\ Begun(row) /\ (Late(inst) => Late(row)),
         \A h \in Proc \ {host[w]} : view'[h] = view[h],
         \/ copy = View(w)
         \/ copy = inst /\ row = inst
         \/ /\ Begun(inst) /\ (Paused(copy) \/ (Late(copy) /\ Late(row)))
            /\ Late(View(w)) /\ Late(inst) => Late(copy),
         pc'[w] # "enqueue",
         pc'[w] \in Driving => pc[Web] = "idle" /\ Late(row) /\ Late(copy),
         pc'[w] = "move" => local'[w].from >= Async,
         pc'[w] \in Counting
           => /\ pc[Web] = "idle" /\ local'[w].tracked = Created /\ Begun(row)
              /\ Paused(copy) \/ (Late(copy) /\ Late(row))
  PROVE  WebOK' /\ (\A v \in Workers : WorkerOK(v)') /\ RowOK'
<1>1. host' = host /\ nextJob' = nextJob /\ crashes' = crashes
  BY DEF Kept
<1>2. pc'[Web] = pc[Web]
  BY WorkersRun, ConstantsAssumption DEF Stays
<1>3. View(w)' = copy
  BY <1>1 DEF View
<1>4. /\ Paused(View(w))' = Paused(copy) /\ Late(View(w))' = Late(copy) /\ Created' = Created
      /\ Late(inst)' = Late(row) /\ Begun(inst)' = Begun(row)
  BY <1>1, <1>3 DEF Paused, Late, Created, Begun
<1>5. WorkerOK(w)'
  BY <1>2, <1>4 DEF WorkerOK, Driving, Counting
<1>6. QED
  BY <1>5, WorkerStep

\* The jobs of a step that takes none and logs no success.
LEMMA JobsGo ==
  ASSUME Typed, OneInv, NEW w \in Workers, Stays(w), Kept, nextJob' = nextJob,
         completed' = completed,
         Returns(w) \/ (jobs' = jobs /\ local'[w].job = local[w].job),
         crashes = 0 /\ pc'[w] \in {"countFailed", "decide"}
           => local'[w].completedCount <= Cardinality(completed),
         inst' = inst \/ (crashes = 0 /\ Late(inst)' => Created \subseteq Finished)
  PROVE  JobsOK' /\ Once'
<1>1. JobsOK /\ Once
  BY DEF OneInv
<1>2. /\ local'[w].job \in {None, local[w].job}
      /\ \A j \in Job : /\ jobs'[j].transition = jobs[j].transition
                        /\ jobs'[j].delivery = jobs[j].delivery
                        /\ jobs'[j].state \in {"done", jobs[j].state}
      /\ \A j \in Job \ Created : jobs'[j].state = jobs[j].state
  <2>1. CASE jobs' = jobs /\ local'[w].job = local[w].job
    BY <2>1
  <2>2. CASE Returns(w)
    <3>1. \A j \in Job \ Created : j # local[w].job
      BY <1>1, ChainType DEF JobsOK
    <3>2. local'[w].job = None
      BY <2>2 DEF Returns, Idle
    <3>3. QED
      BY <2>2, <3>1, <3>2 DEF Returns
  <2>3. QED
    BY <2>1, <2>2
<1>3. JobsOK'
  BY <1>2, JobsStep
<1>4. crashes' = crashes
  BY DEF Kept
<1>5. ASSUME crashes = 0, Late(inst)' PROVE Created \subseteq Finished
  <2>1. CASE inst' = inst
    <3>1. Late(inst)
      BY <1>4, <1>5, <2>1 DEF Late, Created
    <3>2. QED
      BY <1>1, <1>5, <3>1 DEF Once
  <2>2. QED
    BY <1>5, <2>1
<1>6. Once'
  BY <1>2, <1>4, <1>5, OnceStep
<1>7. QED
  BY <1>3, <1>6

-----------------------------------------------------------------------------
(* The steps of a worker. *)

LEMMA Parts ==
  ASSUME Typed, OneAsync, OneInv, NEW w \in Workers
  PROVE  /\ w \in Proc /\ WorkerOK(w) /\ RowOK /\ JobsOK /\ Once /\ WebOK
         /\ host[w] \in Proc /\ View(w) = view[host[w]] /\ View(w) \in Instance
         /\ inst \in Instance /\ Async \in Nat \ {0} /\ None \notin Nat
BY WorkersRun, ViewType, AsyncType DEF OneInv, View, Typed, SystemTypeOK, None

LEMMA WorkerExecutes ==
  ASSUME Typed, OneAsync, OneInv, NEW w \in Workers, executeWorkflow(w)
  PROVE  OneInv'
<1>1. WorkerOK(w) /\ w \in Proc
  BY Parts
<1>2. /\ pc[w] = "execute" /\ Kept /\ UNCHANGED <<inst, view, nextJob, completed>>
      /\ \/ Returns(w)
         \/ Stays(w) /\ pc'[w] = "loop" /\ UNCHANGED <<local, jobs>>
  BY <1>1, ExecuteActs DEF Calm
<1>3. /\ Stays(w) /\ pc'[w] \in {"idle", "loop"}
      /\ Returns(w) \/ (jobs' = jobs /\ local'[w].job = local[w].job)
  BY <1>2 DEF Returns
<1>4. pc[Web] = "idle" /\ Late(inst) /\ Late(View(w))
  BY <1>1, <1>2 DEF WorkerOK, Driving
<1>5. PICK row : row = inst'
  OBVIOUS
<1>6. PICK copy : copy = view'[host[w]]
  OBVIOUS
<1>7. row = inst /\ copy = View(w)
  BY <1>2, <1>5, <1>6 DEF View
<1>8. WebOK' /\ (\A v \in Workers : WorkerOK(v)') /\ RowOK'
  BY <1>2, <1>3, <1>4, <1>5, <1>6, <1>7, WorkerGoes DEF Driving, Counting
<1>9. JobsOK' /\ Once'
  BY <1>2, <1>3, JobsGo
<1>10. QED
  BY <1>8, <1>9 DEF OneInv

LEMMA WorkerLoops ==
  ASSUME Typed, OneAsync, OneInv, NEW w \in Workers, Loop(w)
  PROVE  OneInv'
<1>1. WorkerOK(w) /\ w \in Proc /\ inst \in Instance /\ Async \in Nat \ {0} /\ host[w] \in Proc
  BY Parts
<1>2. /\ pc[w] = "loop" /\ Kept /\ UNCHANGED <<inst, jobs, nextJob, completed>> /\ Stays(w)
      /\ Reads(w) /\ local'[w].from = inst.step /\ local'[w].job = local[w].job
      /\ \/ pc'[w] \in {"complete", "move"}
         \/ pc'[w] = "enqueue" /\ inst.step < End /\ Acts[inst.step + 1] > 0
  BY <1>1, LoopActs DEF Calm
<1>3. pc[Web] = "idle" /\ Late(inst)
  BY <1>1, <1>2 DEF WorkerOK, Driving
<1>4. inst.step \in Step /\ inst.step \in Nat /\ inst.step >= Async
  BY <1>1, <1>3, ChainType DEF Late, Instance
<1>5. pc'[w] \in {"complete", "move"}
  <2>1. ~(inst.step < End /\ Acts[inst.step + 1] > 0)
    <3>1. inst.step + 1 # Async
      BY <1>1, <1>4
    <3>2. QED
      BY <1>4, <3>1, AsyncType
  <2>2. QED
    BY <1>2, <2>1
<1>6. PICK row : row = inst'
  OBVIOUS
<1>7. PICK copy : copy = view'[host[w]]
  OBVIOUS
<1>8. row = inst /\ copy = inst /\ \A h \in Proc \ {host[w]} : view'[h] = view[h]
  BY <1>1, <1>2, <1>6, <1>7 DEF Reads
<1>9. WebOK' /\ (\A v \in Workers : WorkerOK(v)') /\ RowOK'
  BY <1>2, <1>3, <1>4, <1>5, <1>6, <1>7, <1>8, WorkerGoes DEF Driving, Counting
<1>10. JobsOK' /\ Once'
  BY <1>2, <1>5, JobsGo
<1>11. QED
  BY <1>9, <1>10 DEF OneInv

LEMMA WorkerCompletes ==
  ASSUME Typed, OneAsync, OneInv, NEW w \in Workers, completeWorkflow(w)
  PROVE  OneInv'
<1>1. WorkerOK(w) /\ w \in Proc /\ Once
  BY Parts
<1>2. /\ pc[w] = "complete" /\ Kept /\ UNCHANGED <<nextJob, completed>> /\ Returns(w)
      /\ Marks(w, "COMPLETED")
  BY <1>1, CompleteActs DEF Calm
<1>3. pc[Web] = "idle" /\ Late(inst) /\ Late(View(w))
  BY <1>1, <1>2 DEF WorkerOK, Driving
<1>4. Stays(w) /\ pc'[w] = "idle"
  BY <1>2 DEF Returns
<1>5. PICK row : row = inst'
  OBVIOUS
<1>6. PICK copy : copy = view'[host[w]]
  OBVIOUS
<1>7. Late(row) /\ Late(copy) /\ \A h \in Proc \ {host[w]} : view'[h] = view[h]
  BY <1>2, <1>3, <1>5, <1>6 DEF Marks, Late
<1>8. WebOK' /\ (\A v \in Workers : WorkerOK(v)') /\ RowOK'
  BY <1>2, <1>3, <1>4, <1>5, <1>6, <1>7, WorkerGoes DEF Driving, Counting, Begun
<1>9. JobsOK' /\ Once'
  BY <1>1, <1>2, <1>3, <1>4, JobsGo DEF Once
<1>10. QED
  BY <1>8, <1>9 DEF OneInv

LEMMA WorkerMoves ==
  ASSUME Typed, OneAsync, OneInv, NEW w \in Workers, executeTransition(w)
  PROVE  OneInv'
<1>1. WorkerOK(w) /\ w \in Proc /\ Once /\ Async \in Nat \ {0} /\ local[w] \in Locals
  BY Parts, ViewType DEF Typed
<1>2. /\ pc[w] = "move" /\ Kept /\ UNCHANGED <<nextJob, completed, local, jobs>>
      /\ Stays(w) /\ pc'[w] = "loop"
      /\ inst'.status = inst.status /\ inst'.pendingTo = inst.pendingTo
      /\ inst'.context = inst.context
      /\ inst'.step = IF local[w].from + 1 # View(w).step THEN local[w].from + 1 ELSE inst.step
      /\ \A h \in Proc \ {host[w]} : view'[h] = view[h]
      /\ view'[host[w]].status = View(w).status
      /\ view'[host[w]].step = local[w].from + 1
      /\ view'[host[w]].pendingTo = View(w).pendingTo
      /\ view'[host[w]].context = View(w).context
  BY <1>1, MoveActs DEF Calm
<1>3. pc[Web] = "idle" /\ Late(inst) /\ Late(View(w)) /\ local[w].from >= Async
  BY <1>1, <1>2 DEF WorkerOK, Driving
<1>4. local[w].from + 1 >= Async
  <2>1. local[w].from \in Step
    BY <1>1 DEF Locals
  <2>2. local[w].from \in Nat
    BY <2>1, ChainType
  <2>3. QED
    BY <1>1, <1>3, <2>2
<1>5. PICK row : row = inst'
  OBVIOUS
<1>6. PICK copy : copy = view'[host[w]]
  OBVIOUS
<1>7. row.step >= Async
  BY <1>2, <1>3, <1>4, <1>5 DEF Late
<1>8. Late(row) /\ Late(copy)
  BY <1>2, <1>3, <1>4, <1>5, <1>6, <1>7 DEF Late
<1>9. WebOK' /\ (\A v \in Workers : WorkerOK(v)') /\ RowOK'
  BY <1>2, <1>3, <1>5, <1>6, <1>8, WorkerGoes DEF Driving, Counting, Begun
<1>10. JobsOK' /\ Once'
  BY <1>1, <1>2, <1>3, JobsGo DEF Once
<1>11. QED
  BY <1>9, <1>10 DEF OneInv

LEMMA WorkerTakes ==
  ASSUME Typed, OneAsync, OneInv, NEW w \in Workers, NEW j \in Job, TakeJob(w, j)
  PROVE  OneInv'
<1>1. w \in Proc /\ JobsOK /\ Once /\ host[w] \in Proc
  BY Parts
<1>2. /\ pc'[w] = "run" /\ Kept /\ UNCHANGED <<inst, nextJob, completed>>
      /\ Stays(w) /\ Reads(w)
      /\ local'[w].job = j
      /\ jobs[j].state = "queued"
      /\ jobs'[j].state = "active" /\ jobs'[j].delivery = jobs[j].delivery + 1
      /\ jobs'[j].transition = jobs[j].transition
      /\ \A i \in Job \ {j} : jobs'[i] = jobs[i]
  BY <1>1, TakeActs DEF Calm
<1>3. j \in Created
  BY <1>1, <1>2 DEF JobsOK
<1>4. PICK row : row = inst'
  OBVIOUS
<1>5. PICK copy : copy = view'[host[w]]
  OBVIOUS
<1>6. row = inst /\ copy = inst /\ \A h \in Proc \ {host[w]} : view'[h] = view[h]
  BY <1>1, <1>2, <1>4, <1>5 DEF Reads
<1>7. WebOK' /\ (\A v \in Workers : WorkerOK(v)') /\ RowOK'
  BY <1>2, <1>4, <1>5, <1>6, WorkerGoes DEF Driving, Counting
<1>8. JobsOK'
  BY <1>2, <1>3, JobsStep
<1>9. Once'
  <2>1. SUFFICES ASSUME crashes = 0 PROVE Once'
    BY <1>2 DEF Once, Kept
  <2>2. /\ Created' = Created /\ Created \subseteq Job /\ Finished' = Finished
        /\ Late(inst)' = Late(inst)
    BY <1>2, ConstantsAssumption DEF Created, Typed, SystemTypeOK, Job, Finished, Late, Kept
  <2>3. jobs'[j].state = "active" /\ jobs'[j].delivery = 1
    BY <1>1, <1>2, <1>3, <2>1 DEF Once
  <2>4. \A i \in Created : jobs'[i].state = "queued" => jobs'[i].delivery = 0
    BY <1>1, <1>2, <2>1, <2>2, <2>3 DEF Once
  <2>5. ASSUME NEW v \in Workers, local'[v].job # None
        PROVE  jobs'[local'[v].job].state # "queued" /\ jobs'[local'[v].job].delivery = 1
    <3>1. CASE local'[v].job = j
      BY <2>3, <3>1
    <3>2. CASE local'[v].job # j
      <4>1. local'[v].job = local[v].job /\ v # w
        BY <1>2, <3>2, WorkersRun DEF Stays
      <4>2. local[v].job \in Job /\ jobs[local[v].job].state # "queued"
            /\ jobs[local[v].job].delivery = 1
        BY <1>1, <2>1, <2>2, <2>5, <4>1 DEF JobsOK, Once
      <4>3. QED
        BY <1>2, <3>2, <4>1, <4>2
    <3>3. QED
      BY <3>1, <3>2
  <2>6. \A v \in Workers : pc'[v] \in {"countFailed", "decide"}
          => local'[v].completedCount <= Cardinality(completed)
    BY <1>1, <1>2, <2>1, WorkersRun DEF Once, Stays
  <2>7. QED
    BY <1>1, <1>2, <2>1, <2>2, <2>4, <2>5, <2>6 DEF Once
<1>10. QED
  BY <1>7, <1>8, <1>9 DEF OneInv

LEMMA WorkerLogsSuccess ==
  ASSUME Typed, OneAsync, OneInv, NEW w \in Workers, ActivityCompleted(w)
  PROVE  OneInv'
<1>1. w \in Proc /\ JobsOK /\ Once
  BY Parts
<1>2. /\ pc[w] = "run" /\ pc'[w] = "resume" /\ Kept
      /\ UNCHANGED <<inst, jobs, nextJob, failed, view, local>>
      /\ Stays(w) /\ completed' = completed \cup {Event(w)}
  BY <1>1, CompletedActs
<1>3. PICK row : row = inst'
  OBVIOUS
<1>4. PICK copy : copy = view'[host[w]]
  OBVIOUS
<1>5. row = inst /\ copy = View(w)
  BY <1>2, <1>3, <1>4 DEF View
<1>6. WebOK' /\ (\A v \in Workers : WorkerOK(v)') /\ RowOK'
  BY <1>2, <1>3, <1>4, <1>5, WorkerGoes DEF Driving, Counting
<1>7. JobsOK'
  BY <1>2, JobsStep
<1>8. Once'
  <2>1. SUFFICES ASSUME crashes = 0 PROVE Once'
    BY <1>2 DEF Once, Kept
  <2>2. Created' = Created /\ (Late(inst)' => Late(inst))
    BY <1>2 DEF Created, Late, Kept
  <2>3. completed' \subseteq Created \X {1}
    <3>1. local[w].job # None
      BY <1>1, <1>2, ChainType DEF Typed
    <3>2. local[w].job \in Created /\ jobs[local[w].job].delivery = 1
      BY <1>1, <2>1, <3>1 DEF JobsOK, Once
    <3>3. Event(w) \in Created \X {1}
      BY <3>2 DEF Event
    <3>4. QED
      BY <1>1, <1>2, <2>1, <3>3 DEF Once
  <2>4. Cardinality(completed) <= Cardinality(completed')
    <3>1. IsFiniteSet(completed) /\ Cardinality(completed) \in Nat
      BY FS_CardinalityType DEF Typed
    <3>2. PICK after : after = completed \cup {Event(w)}
      OBVIOUS
    <3>3. Cardinality(after) \in {Cardinality(completed), Cardinality(completed) + 1}
      BY <3>1, <3>2, FS_AddElement
    <3>4. QED
      BY <1>2, <3>1, <3>2, <3>3
  <2>5. ASSUME NEW v \in Workers, pc'[v] \in {"countFailed", "decide"}
        PROVE  local'[v].completedCount <= Cardinality(completed')
    <3>1. local'[v] = local[v] /\ pc[v] \in {"countFailed", "decide"} /\ local[v] \in Locals
      BY <1>2, <2>5, WorkersRun, ViewType DEF Stays, Typed
    <3>2. local[v].completedCount <= Cardinality(completed) /\ local[v].completedCount \in Nat
      BY <1>1, <2>1, <3>1 DEF Once, Locals
    <3>3. Cardinality(completed) \in Nat /\ Cardinality(completed') \in Nat
      BY <1>2, FS_AddElement, FS_CardinalityType DEF Typed
    <3>4. QED
      BY <2>4, <3>1, <3>2, <3>3
  <2>6. Late(inst)' => Created \subseteq Finished'
    BY <1>1, <1>2, <2>1, <2>2 DEF Once, Finished
  <2>7. /\ \A j \in Created : jobs'[j].state = "queued" => jobs'[j].delivery = 0
        /\ \A v \in Workers : local'[v].job # None
             => jobs'[local'[v].job].state # "queued" /\ jobs'[local'[v].job].delivery = 1
    BY <1>1, <1>2, <2>1 DEF Once
  <2>8. QED
    BY <2>2, <2>3, <2>5, <2>6, <2>7 DEF Once
<1>9. QED
  BY <1>6, <1>7, <1>8 DEF OneInv

LEMMA WorkerLogsFailure ==
  ASSUME Typed, OneAsync, OneInv, NEW w \in Workers, ActivityFailed(w)
  PROVE  OneInv'
<1>1. w \in Proc
  BY Parts
<1>2. /\ Kept /\ UNCHANGED <<inst, nextJob, completed, view>>
      /\ \/ Stays(w) /\ pc'[w] = "resume" /\ UNCHANGED <<jobs, local>>
         \/ Returns(w)
  BY <1>1, FailedActs
<1>3. /\ Stays(w) /\ pc'[w] \in {"idle", "resume"}
      /\ Returns(w) \/ (jobs' = jobs /\ local'[w].job = local[w].job)
  BY <1>2 DEF Returns
<1>4. PICK row : row = inst'
  OBVIOUS
<1>5. PICK copy : copy = view'[host[w]]
  OBVIOUS
<1>6. row = inst /\ copy = View(w)
  BY <1>2, <1>4, <1>5 DEF View
<1>7. WebOK' /\ (\A v \in Workers : WorkerOK(v)') /\ RowOK'
  BY <1>2, <1>3, <1>4, <1>5, <1>6, WorkerGoes DEF Driving, Counting
<1>8. JobsOK' /\ Once'
  BY <1>2, <1>3, JobsGo
<1>9. QED
  BY <1>7, <1>8 DEF OneInv

\* A row that waits has been paused.
LEMMA WaitingIsPaused ==
  ASSUME Typed, OneAsync, OneInv, inst.status = "WAITING"
  PROVE  pc[Web] = "idle" /\ Paused(inst)
BY DEF OneInv, RowOK, Begun, Early, Late

LEMMA WorkerFinds ==
  ASSUME Typed, OneAsync, OneInv, NEW w \in Workers, FindWaitingInstance(w)
  PROVE  OneInv'
<1>1. w \in Proc /\ host[w] \in Proc
  BY Parts
<1>2. /\ pc'[w] = "countCompleted" /\ Kept /\ UNCHANGED <<inst, jobs, nextJob, completed>>
      /\ Stays(w) /\ Reads(w) /\ inst.status = "WAITING"
      /\ local'[w].job = local[w].job /\ local'[w].tracked = inst.context.tracked
  BY <1>1, FindActs DEF Calm
<1>3. pc[Web] = "idle" /\ Paused(inst)
  BY <1>2, WaitingIsPaused
<1>4. PICK row : row = inst'
  OBVIOUS
<1>5. PICK copy : copy = view'[host[w]]
  OBVIOUS
<1>6. row = inst /\ copy = inst /\ \A h \in Proc \ {host[w]} : view'[h] = view[h]
  BY <1>1, <1>2, <1>4, <1>5 DEF Reads
<1>7. local'[w].tracked = Created
  BY <1>2, <1>3 DEF Paused
<1>8. WebOK' /\ (\A v \in Workers : WorkerOK(v)') /\ RowOK'
  BY <1>2, <1>3, <1>4, <1>5, <1>6, <1>7, WorkerGoes DEF Driving, Counting, Begun
<1>9. JobsOK' /\ Once'
  BY <1>2, JobsGo
<1>10. QED
  BY <1>8, <1>9 DEF OneInv

LEMMA WorkerGivesUp ==
  ASSUME Typed, OneAsync, OneInv, NEW w \in Workers, NotWaiting(w) \/ StillPending(w)
  PROVE  OneInv'
<1>1. w \in Proc
  BY Parts
<1>2. Kept /\ UNCHANGED <<inst, view, nextJob, completed>> /\ Returns(w)
  BY <1>1, GiveUpActs DEF Calm
<1>3. Stays(w) /\ pc'[w] = "idle"
  BY <1>2 DEF Returns
<1>4. PICK row : row = inst'
  OBVIOUS
<1>5. PICK copy : copy = view'[host[w]]
  OBVIOUS
<1>6. row = inst /\ copy = View(w)
  BY <1>2, <1>4, <1>5 DEF View
<1>7. WebOK' /\ (\A v \in Workers : WorkerOK(v)') /\ RowOK'
  BY <1>2, <1>3, <1>4, <1>5, <1>6, WorkerGoes DEF Driving, Counting
<1>8. JobsOK' /\ Once'
  BY <1>2, <1>3, JobsGo
<1>9. QED
  BY <1>7, <1>8 DEF OneInv

LEMMA WorkerCounts ==
  ASSUME Typed, OneAsync, OneInv, NEW w \in Workers, CountCompleted(w) \/ CountFailed(w)
  PROVE  OneInv'
<1>1. w \in Proc /\ WorkerOK(w) /\ Once /\ Cardinality(completed) \in Nat
  BY Parts, FS_CardinalityType DEF Typed
<1>2. /\ Kept /\ UNCHANGED <<inst, jobs, view, nextJob, completed>> /\ Stays(w)
      /\ local'[w].job = local[w].job /\ local'[w].tracked = local[w].tracked
      /\ \/ /\ pc[w] = "countCompleted" /\ pc'[w] = "countFailed"
            /\ local'[w].completedCount = Cardinality(completed)
         \/ /\ pc[w] = "countFailed" /\ pc'[w] = "decide"
            /\ local'[w].completedCount = local[w].completedCount
  BY <1>1, CountActs DEF Calm
<1>3. /\ pc[Web] = "idle" /\ local[w].tracked = Created /\ Begun(inst)
      /\ Paused(View(w)) \/ (Late(View(w)) /\ Late(inst))
  BY <1>1, <1>2 DEF WorkerOK, Counting
<1>4. pc'[w] \in {"countFailed", "decide"}
  BY <1>2
<1>5. crashes = 0 => local'[w].completedCount <= Cardinality(completed)
  BY <1>1, <1>2 DEF Once
<1>6. PICK row : row = inst'
  OBVIOUS
<1>7. PICK copy : copy = view'[host[w]]
  OBVIOUS
<1>8. row = inst /\ copy = View(w)
  BY <1>2, <1>6, <1>7 DEF View
<1>9. WebOK' /\ (\A v \in Workers : WorkerOK(v)') /\ RowOK'
  BY <1>2, <1>3, <1>4, <1>6, <1>7, <1>8, WorkerGoes DEF Driving, Counting
<1>10. JobsOK' /\ Once'
  BY <1>2, <1>5, JobsGo
<1>11. QED
  BY <1>9, <1>10 DEF OneInv

LEMMA WorkerFails ==
  ASSUME Typed, OneAsync, OneInv, NEW w \in Workers, FailWorkflow(w)
  PROVE  OneInv'
<1>1. w \in Proc /\ WorkerOK(w) /\ Once
  BY Parts
<1>2. /\ pc[w] = "decide" /\ Kept /\ UNCHANGED <<nextJob, completed>> /\ Returns(w)
      /\ Marks(w, "FAILED")
  BY <1>1, FailActs DEF Calm
<1>3. /\ pc[Web] = "idle" /\ Begun(inst)
      /\ Paused(View(w)) \/ (Late(View(w)) /\ Late(inst))
  BY <1>1, <1>2 DEF WorkerOK, Counting
<1>4. Stays(w) /\ pc'[w] = "idle"
  BY <1>2 DEF Returns
<1>5. PICK row : row = inst'
  OBVIOUS
<1>6. PICK copy : copy = view'[host[w]]
  OBVIOUS
<1>7. (Paused(inst) => Paused(row)) /\ (Late(inst) => Late(row))
  BY <1>2, <1>5 DEF Marks, Paused, Late
<1>8. (Paused(View(w)) => Paused(copy)) /\ (Late(View(w)) => Late(copy))
  BY <1>2, <1>6 DEF Marks, Paused, Late
<1>9. Begun(row) /\ (Paused(copy) \/ (Late(copy) /\ Late(row)))
  BY <1>3, <1>7, <1>8 DEF Begun
<1>10. \A h \in Proc \ {host[w]} : view'[h] = view[h]
  BY <1>2 DEF Marks
<1>11. WebOK' /\ (\A v \in Workers : WorkerOK(v)') /\ RowOK'
  BY <1>2, <1>3, <1>4, <1>5, <1>6, <1>7, <1>8, <1>9, <1>10, WorkerGoes DEF Driving, Counting
<1>12. JobsOK' /\ Once'
  <2>1. crashes = 0 /\ Late(inst)' => Created \subseteq Finished
    <3>1. SUFFICES ASSUME crashes = 0, Late(inst)' PROVE Created \subseteq Finished
      OBVIOUS
    <3>2. Late(inst)
      <4>1. Late(row)
        BY <1>2, <1>5, <3>1 DEF Late, Created, Kept
      <4>2. inst'.pendingTo = None /\ inst.pendingTo = None
        BY <1>2, <1>5, <4>1 DEF Late, Marks
      <4>3. ~Paused(inst)
        BY <4>2, Parts DEF Paused
      <4>4. QED
        BY <1>3, <4>3 DEF Begun
    <3>3. QED
      BY <1>1, <3>1, <3>2 DEF Once
  <2>2. QED
    BY <1>2, <1>4, <2>1, JobsGo
<1>13. QED
  BY <1>11, <1>12 DEF OneInv

\* The guard of a resumption: without a crash, as many successes as jobs mean
\* that every job has succeeded.
LEMMA AllDone ==
  ASSUME Typed, OneInv, NEW w \in Workers, AllSucceeded(w), local[w].tracked = Created, crashes = 0
  PROVE  Created \subseteq Finished
<1>1. /\ w \in Proc /\ Once /\ pc[w] = "decide"
      /\ local[w].completedCount + 0 >= Cardinality(Created)
  BY WorkersRun, SucceededMeans DEF OneInv
<1>2. /\ completed \subseteq Created \X {1}
      /\ local[w].completedCount <= Cardinality(completed)
  BY <1>1 DEF Once
<1>3. IsFiniteSet(Created) /\ Cardinality(Created) \in Nat /\ Cardinality(completed) \in Nat
      /\ local[w].completedCount \in Nat
  <2>1. IsFiniteSet(Created)
    BY FS_Interval, ConstantsAssumption DEF Created, Typed, SystemTypeOK
  <2>2. QED
    BY <1>1, <2>1, FS_CardinalityType, ViewType DEF Typed, Locals
<1>4. Cardinality(Created) <= Cardinality(completed)
  BY <1>1, <1>2, <1>3
<1>5. Finished \subseteq Created /\ completed \subseteq Finished \X {1}
  <2>1. ASSUME NEW e \in completed
        PROVE  e[1] \in Created /\ e \in Finished \X {1}
    <3>1. e \in Created \X {1}
      BY <1>2
    <3>2. e[1] \in Created /\ e = <<e[1], 1>>
      BY <3>1
    <3>3. e[1] \in Finished
      BY DEF Finished
    <3>4. QED
      BY <3>2, <3>3
  <2>2. QED
    BY <2>1 DEF Finished
<1>6. IsFiniteSet(Finished) /\ Cardinality(Finished) \in Nat
  BY <1>3, <1>5, FS_Subset, FS_CardinalityType
<1>7. Cardinality(completed) <= Cardinality(Finished)
  <2>1. IsFiniteSet({1}) /\ Cardinality({1}) = 1
    BY FS_Singleton
  <2>2. /\ IsFiniteSet(Finished \X {1})
        /\ Cardinality(Finished \X {1}) = Cardinality(Finished) * 1
    BY <1>6, <2>1, FS_Product
  <2>3. Cardinality(completed) <= Cardinality(Finished \X {1})
    BY <1>5, <2>2, FS_Subset
  <2>4. QED
    BY <1>6, <2>2, <2>3
<1>8. Cardinality(Finished) <= Cardinality(Created)
  BY <1>3, <1>5, FS_Subset
<1>9. Cardinality(Finished) = Cardinality(Created)
  BY <1>3, <1>4, <1>6, <1>7, <1>8
<1>10. Finished = Created
  BY <1>3, <1>5, <1>9, FS_Subset
<1>11. QED
  BY <1>10

LEMMA WorkerResumesPlain ==
  ASSUME Typed, OneAsync, OneInv, NEW w \in Workers, ResumeWithoutTransition(w)
  PROVE  OneInv'
<1>1. /\ w \in Proc /\ WorkerOK(w) /\ Once /\ host[w] \in Proc
      /\ Async \in Nat \ {0} /\ None \notin Nat
  BY Parts
<1>2. /\ pc[w] = "decide" /\ pc'[w] = "execute" /\ Kept /\ UNCHANGED <<nextJob, completed>>
      /\ Stays(w) /\ UNCHANGED <<jobs, local>> /\ AllSucceeded(w)
      /\ View(w).pendingTo = None /\ Resumes(w, View(w).step)
  BY <1>1, PlainResumeActs DEF Calm
<1>3. pc[Web] = "idle" /\ local[w].tracked = Created /\ Late(View(w)) /\ Late(inst)
  BY <1>1, <1>2 DEF WorkerOK, Counting, Paused
<1>4. PICK new \in Instance :
        /\ new.status = "RUNNING" /\ new.step = View(w).step /\ new.pendingTo = None
        /\ new.context.results = View(w).context.results \cup Finished
        /\ inst'.status = IF new.status # View(w).status THEN new.status ELSE inst.status
        /\ inst'.step = IF new.step # View(w).step THEN new.step ELSE inst.step
        /\ inst'.pendingTo = IF new.pendingTo # View(w).pendingTo THEN new.pendingTo
                             ELSE inst.pendingTo
        /\ inst'.context = IF new.context # View(w).context THEN new.context ELSE inst.context
        /\ \A h \in Proc : view'[h] = IF h = host[w] THEN new ELSE view[h]
  BY <1>2 DEF Resumes
<1>5. PICK row : row = inst'
  OBVIOUS
<1>6. PICK copy : copy = view'[host[w]]
  OBVIOUS
<1>7. copy = new /\ \A h \in Proc \ {host[w]} : view'[h] = view[h]
  BY <1>1, <1>4, <1>6
<1>8. Late(copy)
  BY <1>3, <1>4, <1>7 DEF Late
<1>9. Late(row)
  <2>1. row.status # "WAITING" /\ row.step >= Async /\ row.pendingTo = None
    BY <1>2, <1>3, <1>4, <1>5 DEF Late
  <2>2. crashes = 0 => Created \subseteq row.context.results
    BY <1>3, <1>4, <1>5 DEF Late
  <2>3. QED
    BY <1>3, <2>1, <2>2 DEF Late
<1>10. WebOK' /\ (\A v \in Workers : WorkerOK(v)') /\ RowOK'
  BY <1>2, <1>3, <1>5, <1>6, <1>7, <1>8, <1>9, WorkerGoes DEF Driving, Counting, Begun
<1>11. JobsOK' /\ Once'
  BY <1>1, <1>2, <1>3, JobsGo DEF Once
<1>12. QED
  BY <1>10, <1>11 DEF OneInv

LEMMA WorkerResumes ==
  ASSUME Typed, OneAsync, OneInv, NEW w \in Workers, ResumePendingTransition(w)
  PROVE  OneInv'
<1>1. w \in Proc /\ WorkerOK(w) /\ host[w] \in Proc /\ Async \in Nat \ {0} /\ None \notin Nat
  BY Parts
<1>2. /\ pc[w] = "decide" /\ pc'[w] = "enter" /\ Kept /\ UNCHANGED <<nextJob, completed>>
      /\ Stays(w) /\ jobs' = jobs /\ local'[w].job = local[w].job /\ AllSucceeded(w)
      /\ View(w).pendingTo # None /\ Resumes(w, View(w).pendingTo)
  BY <1>1, ResumeActs DEF Calm
<1>3. pc[Web] = "idle" /\ local[w].tracked = Created /\ Paused(View(w)) /\ Begun(inst)
  BY <1>1, <1>2 DEF WorkerOK, Counting, Late
<1>4. PICK new \in Instance :
        /\ new.status = "RUNNING" /\ new.step = View(w).pendingTo /\ new.pendingTo = None
        /\ new.context.tracked = {}
        /\ new.context.results = View(w).context.results \cup Finished
        /\ inst'.status = IF new.status # View(w).status THEN new.status ELSE inst.status
        /\ inst'.step = IF new.step # View(w).step THEN new.step ELSE inst.step
        /\ inst'.pendingTo = IF new.pendingTo # View(w).pendingTo THEN new.pendingTo
                             ELSE inst.pendingTo
        /\ inst'.context = IF new.context # View(w).context THEN new.context ELSE inst.context
        /\ \A h \in Proc : view'[h] = IF h = host[w] THEN new ELSE view[h]
  BY <1>2 DEF Resumes
<1>5. PICK row : row = inst'
  OBVIOUS
<1>6. PICK copy : copy = view'[host[w]]
  OBVIOUS
<1>7. copy = new /\ \A h \in Proc \ {host[w]} : view'[h] = view[h]
  BY <1>1, <1>4, <1>6
<1>8. crashes = 0 => Created \subseteq Finished
  BY <1>2, <1>3, AllDone
<1>9. nextJob > 1 /\ 1 \in Created
  BY <1>3, ConstantsAssumption DEF Paused, Created, Typed, SystemTypeOK
<1>10. Late(new)
  <2>1. new.step = Async
    BY <1>3, <1>4 DEF Paused
  <2>2. QED
    BY <1>1, <1>4, <1>8, <1>9, <2>1 DEF Late
<1>11. /\ new.status # View(w).status /\ new.step # View(w).step
       /\ new.pendingTo # View(w).pendingTo /\ new.context # View(w).context
  <2>1. new.status # View(w).status
    BY <1>3, <1>4 DEF Paused
  <2>2. new.step # View(w).step
    BY <1>1, <1>3, <1>4 DEF Paused
  <2>3. new.pendingTo # View(w).pendingTo
    BY <1>2, <1>4
  <2>4. new.context.tracked # View(w).context.tracked
    BY <1>3, <1>4, <1>9 DEF Paused
  <2>5. QED
    BY <2>1, <2>2, <2>3, <2>4
<1>12. /\ row.status = new.status /\ row.step = new.step
       /\ row.pendingTo = new.pendingTo /\ row.context = new.context
  BY <1>4, <1>5, <1>11
<1>13. Late(row) /\ Late(copy)
  BY <1>7, <1>10, <1>12 DEF Late
<1>14. WebOK' /\ (\A v \in Workers : WorkerOK(v)') /\ RowOK'
  BY <1>2, <1>3, <1>5, <1>6, <1>7, <1>13, WorkerGoes DEF Driving, Counting, Begun
<1>15. JobsOK' /\ Once'
  BY <1>2, <1>8, JobsGo
<1>16. QED
  BY <1>14, <1>15 DEF OneInv

LEMMA WorkerEnters ==
  ASSUME Typed, OneAsync, OneInv, NEW w \in Workers, executeDeferredStep(w)
  PROVE  OneInv'
<1>1. w \in Proc /\ WorkerOK(w)
  BY Parts
<1>2. /\ pc[w] = "enter" /\ pc'[w] = "execute" /\ Kept /\ Stays(w)
      /\ UNCHANGED <<inst, view, local, jobs, nextJob, completed>>
  BY <1>1, DeferredActs DEF Calm
<1>3. pc[Web] = "idle" /\ Late(inst) /\ Late(View(w))
  BY <1>1, <1>2 DEF WorkerOK, Driving
<1>4. PICK row : row = inst'
  OBVIOUS
<1>5. PICK copy : copy = view'[host[w]]
  OBVIOUS
<1>6. row = inst /\ copy = View(w)
  BY <1>2, <1>4, <1>5 DEF View
<1>7. WebOK' /\ (\A v \in Workers : WorkerOK(v)') /\ RowOK'
  BY <1>2, <1>3, <1>4, <1>5, <1>6, WorkerGoes DEF Driving, Counting
<1>8. JobsOK' /\ Once'
  BY <1>2, JobsGo
<1>9. QED
  BY <1>7, <1>8 DEF OneInv

-----------------------------------------------------------------------------
(* The steps of the web process. *)

\* While the web process runs the instance, no worker drives it or counts.
LEMMA WebGoes ==
  ASSUME Typed, OneAsync, OneInv, Stays(Web), pc[Web] # "idle"
  PROVE  \A v \in Workers : WorkerOK(v)'
<1>1. ASSUME NEW v \in Workers PROVE WorkerOK(v)'
  <2>1. /\ WorkerOK(v) /\ pc'[v] = pc[v] /\ local'[v] = local[v]
    BY WorkersRun, ConstantsAssumption DEF OneInv, Stays
  <2>2. pc[v] \notin Driving /\ pc[v] \notin Counting /\ pc[v] # "enqueue"
    BY <2>1 DEF WorkerOK
  <2>3. QED
    BY <2>1, <2>2 DEF WorkerOK, Driving
<1>2. QED
  BY <1>1

\* A step of the web process that adds no job.
LEMMA WebKeepsJobs ==
  ASSUME Typed, OneInv, Stays(Web), Kept, nextJob' = nextJob, completed' = completed,
         Returns(Web) \/ jobs' = jobs, ~Late(inst)'
  PROVE  JobsOK' /\ Once'
<1>1. JobsOK /\ Once /\ local[Web].job = None /\ Created' = Created
  BY DEF OneInv, WebOK, Created
<1>2. /\ \A j \in Job : /\ jobs'[j].transition = jobs[j].transition
                        /\ jobs'[j].delivery = jobs[j].delivery
                        /\ jobs'[j].state = jobs[j].state
      /\ \A w \in Workers : local'[w] = local[w] /\ pc'[w] = pc[w]
  BY <1>1, WorkersRun, ChainType, ConstantsAssumption DEF Returns, Stays
<1>3. Created \subseteq Job
  BY ConstantsAssumption DEF Created, Typed, SystemTypeOK, Job
<1>4. JobsOK'
  BY <1>1, <1>2, <1>3 DEF JobsOK
<1>5. Once'
  <2>1. SUFFICES ASSUME crashes = 0 PROVE Once'
    BY DEF Once, Kept
  <2>2. \A w \in Workers : local[w].job # None => local[w].job \in Job
    BY <1>1, <1>3 DEF JobsOK
  <2>3. \A j \in Created : jobs'[j].state = "queued" => jobs'[j].delivery = 0
    BY <1>1, <1>2, <1>3, <2>1 DEF Once
  <2>4. \A w \in Workers : local'[w].job # None
          => jobs'[local'[w].job].state # "queued" /\ jobs'[local'[w].job].delivery = 1
    BY <1>1, <1>2, <2>1, <2>2 DEF Once
  <2>5. \A w \in Workers : pc'[w] \in {"countFailed", "decide"}
          => local'[w].completedCount <= Cardinality(completed)
    BY <1>1, <1>2, <2>1 DEF Once
  <2>6. QED
    BY <1>1, <2>1, <2>3, <2>4, <2>5 DEF Once
<1>6. QED
  BY <1>4, <1>5

LEMMA WebParts ==
  ASSUME Typed, OneAsync, OneInv
  PROVE  /\ Web \in Proc /\ host[Web] = Web /\ View(Web) = view[Web] /\ inst \in Instance
         /\ WebOK /\ Async \in Nat \ {0} /\ nextJob \in Nat /\ Created \subseteq Job
         /\ (nextJob = 1 => Created = {})
<1>1. nextJob \in Nat /\ nextJob <= MaxJobs + 1
  BY ConstantsAssumption DEF Typed, SystemTypeOK
<1>2. Created \subseteq Job /\ (nextJob = 1 => Created = {})
  BY <1>1, ConstantsAssumption DEF Created, Job
<1>3. QED
  BY <1>1, <1>2, WorkersRun, AsyncType DEF OneInv, Typed, SystemTypeOK, Hosted, View

LEMMA WebLoops ==
  ASSUME Typed, OneAsync, OneInv, Loop(Web)
  PROVE  OneInv'
<1>1. /\ Web \in Proc /\ host[Web] = Web /\ WebOK /\ inst \in Instance
      /\ (nextJob = 1 => Created = {})
  BY WebParts
<1>2. /\ pc[Web] = "loop" /\ Kept /\ UNCHANGED <<inst, jobs, nextJob, completed>> /\ Stays(Web)
      /\ Reads(Web) /\ local'[Web].from = inst.step /\ local'[Web].queued = {}
      /\ local'[Web].job = local[Web].job
      /\ \/ pc'[Web] \in {"complete", "move"}
         \/ pc'[Web] = "enqueue" /\ inst.step < End /\ Acts[inst.step + 1] > 0
  BY <1>1, LoopActs DEF Calm
<1>3. Early(inst) /\ inst.status = "RUNNING" /\ nextJob = 1 /\ local[Web].job = None
  BY <1>1, <1>2 DEF WebOK
<1>4. Early(inst)' /\ ~Late(inst)' /\ Created' = Created
  BY <1>2, <1>3 DEF Early, Late, Created
<1>5. pc'[Web] = "enqueue" => inst.step + 1 = Async /\ Acts[Async] > 0
  BY <1>1, <1>2, AsyncType DEF Instance
<1>6. view'[Web] = inst
  BY <1>1, <1>2 DEF Reads
<1>7. WebOK'
  BY <1>1, <1>2, <1>3, <1>4, <1>5, <1>6 DEF WebOK
<1>8. RowOK'
  BY <1>4 DEF RowOK
<1>9. \A v \in Workers : WorkerOK(v)'
  BY <1>2, WebGoes
<1>10. JobsOK' /\ Once'
  BY <1>2, <1>4, WebKeepsJobs
<1>11. QED
  BY <1>7, <1>8, <1>9, <1>10 DEF OneInv

LEMMA WebCompletes ==
  ASSUME Typed, OneAsync, OneInv, completeWorkflow(Web)
  PROVE  OneInv'
<1>1. Web \in Proc /\ host[Web] = Web /\ WebOK
  BY WebParts
<1>2. /\ pc[Web] = "complete" /\ Kept /\ UNCHANGED <<nextJob, completed>> /\ Returns(Web)
      /\ Marks(Web, "COMPLETED")
  BY <1>1, CompleteActs DEF Calm
<1>3. Early(inst) /\ nextJob = 1
  BY <1>1, <1>2 DEF WebOK
<1>4. Early(inst)' /\ ~Late(inst)'
  BY <1>2, <1>3 DEF Early, Late, Marks
<1>5. Stays(Web) /\ pc'[Web] = "idle" /\ local'[Web].job = None
  BY <1>2 DEF Returns, Idle
<1>6. WebOK' /\ RowOK'
  BY <1>4, <1>5 DEF WebOK, RowOK
<1>7. \A v \in Workers : WorkerOK(v)'
  BY <1>2, <1>5, WebGoes
<1>8. JobsOK' /\ Once'
  BY <1>2, <1>4, <1>5, WebKeepsJobs
<1>9. QED
  BY <1>6, <1>7, <1>8 DEF OneInv

LEMMA WebMoves ==
  ASSUME Typed, OneAsync, OneInv, executeTransition(Web)
  PROVE  OneInv'
<1>1. Web \in Proc /\ host[Web] = Web /\ WebOK /\ View(Web) = view[Web]
  BY WebParts
<1>2. /\ pc[Web] = "move" /\ Kept /\ UNCHANGED <<nextJob, completed, local, jobs>>
      /\ Stays(Web) /\ pc'[Web] = "loop"
      /\ inst'.status = inst.status /\ inst'.pendingTo = inst.pendingTo
  BY <1>1, MoveActs DEF Calm
<1>3. Early(inst) /\ inst.status = "RUNNING" /\ nextJob = 1 /\ local[Web].job = None
  BY <1>1, <1>2 DEF WebOK
<1>4. Early(inst)' /\ ~Late(inst)'
  BY <1>2, <1>3 DEF Early, Late
<1>5. WebOK' /\ RowOK'
  BY <1>2, <1>3, <1>4 DEF WebOK, RowOK
<1>6. \A v \in Workers : WorkerOK(v)'
  BY <1>2, WebGoes
<1>7. JobsOK' /\ Once'
  BY <1>2, <1>4, WebKeepsJobs
<1>8. QED
  BY <1>5, <1>6, <1>7 DEF OneInv

LEMMA WebEnqueues ==
  ASSUME Typed, OneAsync, OneInv, enqueueActivity(Web)
  PROVE  OneInv'
<1>1. /\ Web \in Proc /\ host[Web] = Web /\ WebOK /\ inst \in Instance /\ nextJob \in Nat
      /\ Created \subseteq Job /\ Async \in Nat \ {0}
  BY WebParts
<1>2. /\ pc[Web] = "enqueue" /\ pc' = pc /\ Kept /\ UNCHANGED <<inst, view, completed, failed>>
      /\ Stays(Web) /\ nextJob \in Job /\ nextJob' = nextJob + 1
      /\ local'[Web].job = local[Web].job /\ local'[Web].from = local[Web].from
      /\ local'[Web].queued = local[Web].queued \cup {nextJob}
      /\ jobs'[nextJob].state = "queued" /\ jobs'[nextJob].delivery = 0
      /\ jobs'[nextJob].transition = local[Web].from + 1
      /\ \A j \in Job \ {nextJob} : jobs'[j] = jobs[j]
  BY <1>1, EnqueueActs
<1>3. /\ Early(inst) /\ inst.status = "RUNNING" /\ view[Web] = inst
      /\ local[Web].from = inst.step /\ local[Web].queued = Created
      /\ inst.step + 1 = Async /\ Acts[Async] > 0 /\ local[Web].job = None
  BY <1>1, <1>2 DEF WebOK
<1>4. Created' = Created \cup {nextJob} /\ nextJob \notin Created
  BY <1>1, <1>2, ChainType DEF Created
<1>5. inst.step \in Nat
  BY <1>1, ChainType DEF Instance
<1>6. inst.step < Async
  BY <1>1, <1>3, <1>5
<1>7. Early(inst)' /\ ~Late(inst)'
  <2>1. inst' = inst
    BY <1>2
  <2>2. ~(inst.step >= Async)
    BY <1>1, <1>5, <1>6
  <2>3. QED
    BY <1>3, <1>6, <2>1, <2>2, AsyncType DEF Early, Late
<1>8. WebOK'
  BY <1>2, <1>3, <1>4, <1>7 DEF WebOK
<1>9. RowOK'
  BY <1>7 DEF RowOK
<1>10. \A v \in Workers : WorkerOK(v)'
  BY <1>2, WebGoes
<1>11. /\ JobsOK /\ Once
       /\ \A w \in Workers : local'[w] = local[w] /\ pc'[w] = pc[w]
  BY <1>2, WorkersRun, ConstantsAssumption DEF OneInv, Stays
<1>12. JobsOK'
  BY <1>1, <1>2, <1>3, <1>4, <1>11 DEF JobsOK
<1>13. Once'
  <2>1. SUFFICES ASSUME crashes = 0 PROVE Once'
    BY <1>2 DEF Once, Kept
  <2>2. \A j \in Created' : jobs'[j].state = "queued" => jobs'[j].delivery = 0
    BY <1>1, <1>2, <1>4, <1>11, <2>1 DEF Once
  <2>3. \A w \in Workers : local[w].job # None => local[w].job \in Job \ {nextJob}
    BY <1>1, <1>4, <1>11 DEF JobsOK
  <2>4. \A w \in Workers : local'[w].job # None
          => jobs'[local'[w].job].state # "queued" /\ jobs'[local'[w].job].delivery = 1
    BY <1>2, <1>11, <2>1, <2>3 DEF Once
  <2>5. completed' \subseteq Created' \X {1}
    BY <1>2, <1>4, <1>11, <2>1 DEF Once
  <2>6. \A w \in Workers : pc'[w] \in {"countFailed", "decide"}
          => local'[w].completedCount <= Cardinality(completed')
    BY <1>2, <1>11, <2>1 DEF Once
  <2>7. QED
    BY <1>7, <2>2, <2>4, <2>5, <2>6 DEF Once
<1>14. QED
  BY <1>8, <1>9, <1>10, <1>12, <1>13 DEF OneInv

LEMMA WebPauses ==
  ASSUME Typed, OneAsync, OneInv, pauseForActivities(Web)
  PROVE  OneInv'
<1>1. /\ Web \in Proc /\ host[Web] = Web /\ WebOK /\ inst \in Instance /\ nextJob \in Nat
      /\ View(Web) = view[Web] /\ Async \in Nat \ {0} /\ (nextJob = 1 => Created = {})
  BY WebParts
<1>2. /\ pc[Web] = "enqueue" /\ Kept /\ UNCHANGED <<nextJob, completed>> /\ Returns(Web)
      /\ Cardinality(local[Web].queued) = Acts[local[Web].from + 1]
      /\ \E new \in Instance :
           /\ new.status = "WAITING" /\ new.step = View(Web).step
           /\ new.pendingTo = local[Web].from + 1
           /\ new.context.tracked = local[Web].queued
           /\ new.context.results = View(Web).context.results
           /\ inst' = Flush(inst, View(Web), new)
  BY <1>1, PauseActs DEF Calm
<1>3. /\ view[Web] = inst /\ local[Web].from = inst.step /\ local[Web].queued = Created
      /\ inst.step + 1 = Async /\ Acts[Async] > 0
  BY <1>1, <1>2 DEF WebOK
<1>4. PICK new \in Instance :
           /\ new.status = "WAITING" /\ new.step = inst.step /\ new.pendingTo = Async
           /\ new.context.tracked = Created /\ inst' = Flush(inst, inst, new)
  BY <1>1, <1>2, <1>3
<1>5. PICK row : row = Flush(inst, inst, new)
  OBVIOUS
<1>6. /\ row.status = new.status /\ row.step = new.step /\ row.pendingTo = new.pendingTo
      /\ row.context = new.context
  BY <1>1, <1>5, FlushColumns
<1>7. nextJob > 1 /\ Cardinality(Created) = Acts[Async]
  <2>1. Cardinality(Created) = Acts[Async]
    BY <1>2, <1>3
  <2>2. Cardinality({}) = 0
    BY FS_EmptySet
  <2>3. nextJob # 1
    BY <1>1, <1>3, <2>1, <2>2
  <2>4. nextJob >= 1
    BY ConstantsAssumption DEF Typed, SystemTypeOK
  <2>5. QED
    BY <1>1, <2>1, <2>3, <2>4
<1>8. Paused(row)
  <2>1. row.step = Async - 1
    <3>1. inst.step \in Step /\ row.step = inst.step
      BY <1>1, <1>4, <1>6 DEF Instance
    <3>2. inst.step \in Nat
      BY <3>1, ChainType
    <3>3. QED
      BY <1>1, <1>3, <3>1, <3>2
  <2>2. QED
    BY <1>4, <1>6, <1>7, <2>1 DEF Paused
<1>9. inst' = row /\ nextJob' = nextJob /\ crashes' = crashes /\ Created' = Created
  BY <1>2, <1>4, <1>5 DEF Kept, Created
<1>10. Begun(inst)' /\ ~Late(inst)'
  <2>1. Paused(inst)' = Paused(row)
    BY <1>9 DEF Paused
  <2>2. inst'.pendingTo = Async /\ Async # None
    BY <1>1, <1>4, <1>6, <1>9 DEF None
  <2>3. QED
    BY <1>8, <2>1, <2>2 DEF Begun, Late
<1>11. Stays(Web) /\ pc'[Web] = "idle" /\ local'[Web].job = None
  BY <1>2 DEF Returns, Idle
<1>12. WebOK' /\ RowOK'
  BY <1>10, <1>11 DEF WebOK, RowOK
<1>13. \A v \in Workers : WorkerOK(v)'
  BY <1>2, <1>11, WebGoes
<1>14. JobsOK' /\ Once'
  BY <1>2, <1>10, <1>11, WebKeepsJobs
<1>15. QED
  BY <1>12, <1>13, <1>14 DEF OneInv

-----------------------------------------------------------------------------
(* Crashes, the start, and all steps together. *)

LEMMA CrashGoes ==
  ASSUME Typed, OneAsync, OneInv, NEW p \in Proc, Crash(p)
  PROVE  OneInv'
<1>1. /\ crashes' # 0 /\ UNCHANGED <<inst, view, nextJob, completed, host>>
      /\ \A q \in Proc : \/ pc'[q] = "idle" /\ local'[q] = Idle
                         \/ pc'[q] = pc[q] /\ local'[q] = local[q]
      /\ \A j \in Job : /\ jobs'[j].transition = jobs[j].transition
                        /\ \/ jobs'[j] = jobs[j]
                           \/ \E q \in Proc : local[q].job = j
  BY CrashActs
<1>2. WebOK /\ RowOK /\ JobsOK /\ Web \in Proc /\ Workers \subseteq Proc /\ Created' = Created
      /\ Created \subseteq Job
  BY <1>1, WorkersRun, WebParts DEF OneInv, Created
<1>3. /\ Early(inst)' = Early(inst) /\ Paused(inst)' = Paused(inst)
      /\ (Late(inst) => Late(inst)') /\ (Begun(inst) => Begun(inst)')
  BY <1>1, <1>2 DEF Early, Paused, Late, Begun
<1>4. WebOK'
  BY <1>1, <1>2, <1>3 DEF WebOK, Idle
<1>5. ASSUME NEW v \in Workers PROVE WorkerOK(v)'
  <2>1. WorkerOK(v) /\ v \in Proc
    BY <1>2 DEF OneInv
  <2>2. pc[Web] = "idle" => pc'[Web] = "idle"
    BY <1>1, <1>2
  <2>3. Paused(View(v))' = Paused(View(v)) /\ (Late(View(v)) => Late(View(v))')
    BY <1>1, <1>2 DEF Paused, Late, View
  <2>4. CASE pc'[v] = "idle"
    BY <2>4 DEF WorkerOK, Driving, Counting
  <2>5. CASE pc'[v] = pc[v] /\ local'[v] = local[v]
    BY <1>2, <1>3, <2>1, <2>2, <2>3, <2>5 DEF WorkerOK, Driving, Counting
  <2>6. QED
    BY <1>1, <2>1, <2>4, <2>5
<1>6. RowOK'
  <2>1. pc[Web] = "idle" => pc'[Web] = "idle"
    BY <1>1, <1>2
  <2>2. QED
    BY <1>2, <1>3, <2>1 DEF RowOK
<1>7. JobsOK'
  <2>1. \A j \in Created : jobs'[j].transition = Async
    BY <1>1, <1>2 DEF JobsOK
  <2>2. ASSUME NEW j \in Job \ Created PROVE jobs'[j].state = "none"
    <3>1. ASSUME NEW q \in Proc PROVE local[q].job # j
      BY <1>2, ChainType DEF JobsOK, WebOK, Proc
    <3>2. QED
      BY <1>1, <1>2, <3>1 DEF JobsOK
  <2>3. \A w \in Workers : local'[w].job # None => local'[w].job \in Created
    BY <1>1, <1>2 DEF JobsOK, Idle
  <2>4. QED
    BY <1>2, <2>1, <2>2, <2>3 DEF JobsOK
<1>8. Once'
  BY <1>1 DEF Once
<1>9. QED
  BY <1>4, <1>5, <1>6, <1>7, <1>8 DEF OneInv

LEMMA OneHolds == Init => (OneAsync => OneInv)
<1>1. SUFFICES ASSUME Init, OneAsync PROVE OneInv
  OBVIOUS
<1>2. /\ inst = NewInstance /\ nextJob = 1 /\ completed = {}
      /\ jobs = [j \in Job |-> [state |-> "none", transition |-> 0, delivery |-> 0]]
      /\ pc = [p \in Proc |-> IF p = Web THEN "loop" ELSE "idle"]
      /\ local = [p \in Proc |-> Idle]
  BY <1>1 DEF Init
<1>3. Created = {}
  BY <1>2 DEF Created
<1>4. Early(inst) /\ inst.status = "RUNNING" /\ ~Late(inst)
  BY <1>2 DEF Early, Late, NewInstance
<1>5. /\ pc[Web] = "loop" /\ local[Web].job = None
      /\ \A w \in Workers : pc[w] = "idle" /\ local[w].job = None
  BY <1>2, WorkersRun, ConstantsAssumption DEF Idle
<1>6. WebOK /\ RowOK
  BY <1>2, <1>4, <1>5 DEF WebOK, RowOK
<1>7. \A w \in Workers : WorkerOK(w)
  BY <1>5 DEF WorkerOK, Driving, Counting
<1>8. JobsOK
  BY <1>2, <1>3, <1>5 DEF JobsOK
<1>9. Once
  BY <1>2, <1>3, <1>4, <1>5 DEF Once
<1>10. QED
  BY <1>6, <1>7, <1>8, <1>9 DEF OneInv

LEMMA OneSteps ==
  ASSUME Typed, OneAsync, OneInv, Next
  PROVE  OneInv' \/ retries' # 0
<1>1. ASSUME NEW w \in Workers, Execute(w) PROVE OneInv'
  <2>1. pc[w] # "enqueue"
    BY DEF OneInv, WorkerOK
  <2>2. ~enqueueActivity(w) /\ ~pauseForActivities(w)
    BY <2>1 DEF enqueueActivity, pauseForActivities
  <2>3. QED
    BY <1>1, <2>2, WorkerExecutes, WorkerLoops, WorkerCompletes, WorkerMoves DEF Execute
<1>2. ASSUME Execute(Web) PROVE OneInv'
  <2>1. pc[Web] # "execute"
    BY DEF OneInv, WebOK
  <2>2. ~executeWorkflow(Web)
    BY <2>1 DEF executeWorkflow
  <2>3. QED
    BY <1>2, <2>2, WebLoops, WebCompletes, WebMoves, WebEnqueues, WebPauses DEF Execute
<1>3. ASSUME NEW w \in Workers, Work(w) PROVE OneInv'
  <2>1. CASE \/ \E j \in Job : TakeJob(w, j)
             \/ ActivityCompleted(w) \/ ActivityFailed(w) \/ FindWaitingInstance(w)
             \/ NotWaiting(w) \/ CountCompleted(w) \/ CountFailed(w)
    BY <2>1, WorkerTakes, WorkerLogsSuccess, WorkerLogsFailure, WorkerFinds, WorkerGivesUp,
       WorkerCounts
  <2>2. CASE \/ StillPending(w) \/ FailWorkflow(w) \/ ResumeWithoutTransition(w)
             \/ ResumePendingTransition(w) \/ executeDeferredStep(w)
    BY <2>2, WorkerGivesUp, WorkerFails, WorkerResumesPlain, WorkerResumes, WorkerEnters
  <2>3. QED
    BY <1>3, <2>1, <2>2 DEF Work
<1>4. ASSUME NEW p \in Proc, Crash(p) PROVE OneInv'
  BY <1>4, CrashGoes
<1>5. CASE retry
  BY <1>5, RetryActs
<1>6. QED
  BY <1>1, <1>2, <1>3, <1>4, <1>5 DEF Next, Proc

\* A manual retry is never taken back.
LEMMA RetriesGrow == Typed /\ [Next]_vars => (retries' = 0 => retries = 0)
<1>1. SUFFICES ASSUME Typed, [Next]_vars, retries' = 0 PROVE retries = 0
  OBVIOUS
<1>2. ASSUME NEW p \in Proc, Execute(p) PROVE retries' = retries
  BY <1>2 DEF Execute, executeWorkflow, Loop, Load, completeWorkflow, executeTransition,
              enqueueActivity, pauseForActivities
<1>3. ASSUME NEW w \in Workers, Work(w) PROVE retries' = retries
  BY <1>3 DEF Work, TakeJob, ActivityCompleted, ActivityFailed, FindWaitingInstance, NotWaiting,
              CountCompleted, CountFailed, StillPending, FailWorkflow, ResumeWithoutTransition,
              ResumePendingTransition, executeDeferredStep
<1>4. ASSUME NEW p \in Proc, Crash(p) PROVE retries' = retries
  BY <1>4 DEF Crash
<1>5. CASE retry
  BY <1>1, <1>5, RetryActs
<1>6. CASE UNCHANGED vars
  BY <1>1, <1>6 DEF vars
<1>7. QED
  BY <1>1, <1>2, <1>3, <1>4, <1>5, <1>6 DEF Next

LEMMA Inductive ==
  ASSUME OneAsync
  PROVE  (Init => IInv) /\ (IInv /\ [Next]_vars => IInv')
<1>1. Init => IInv
  BY InitTyped, OneHolds DEF IInv
<1>2. ASSUME IInv, [Next]_vars PROVE IInv'
  <2>1. Typed /\ Typed'
    BY <1>2, NextTyped DEF IInv
  <2>2. ASSUME retries' = 0 PROVE OneInv'
    <3>1. retries = 0 /\ OneInv
      BY <1>2, <2>1, <2>2, RetriesGrow DEF IInv
    <3>2. CASE Next
      BY <2>1, <2>2, <3>1, <3>2, OneSteps
    <3>3. CASE UNCHANGED vars
      BY <3>1, <3>3 DEF vars, OneInv, WebOK, WorkerOK, RowOK, JobsOK, Once, Begun, Early, Paused,
                        Late, Created, View, Finished
    <3>4. QED
      BY <1>2, <3>2, <3>3
  <2>3. QED
    BY <2>1, <2>2 DEF IInv
<1>3. QED
  BY <1>1, <1>2

-----------------------------------------------------------------------------
(* Until a worker acts on a check that another one has overtaken.  Any      *)
(* chain, any number of slots, worker processes, retries and kills.        *)

Moving == {"execute", "loop", "complete", "move", "enqueue", "enter"}

\* A process that moves the instance, or is about to decide whether it may
\* move and was not overtaken, has the row as its copy and knows where it is.
ProcOK(p) ==
  /\ pc[p] \in Moving => inst.status = "RUNNING" /\ View(p) = inst
  /\ pc[p] \in {"complete", "move", "enqueue"} => local[p].from = inst.step
  /\ pc[p] = "enqueue" =>
       /\ local[p].queued \subseteq Created
       /\ \A j \in local[p].queued : jobs[j].transition = inst.step + 1
  /\ pc[p] \in Counting =>
       /\ p \in Workers
       /\ p \notin overtaken => inst.status = "WAITING" /\ View(p) = inst
  /\ pc[p] = "enter" => local[p].from = inst.step /\ entered[inst.step] = 0

AloneMoving == \A p, q \in Proc : pc[p] \in Moving /\ pc[q] \in Moving => p = q

PauseOK ==
  inst.status = "WAITING" =>
    /\ inst.pendingTo = inst.step + 1
    /\ Cardinality(inst.context.tracked) = Acts[inst.pendingTo]
    /\ inst.context.tracked \subseteq Created
    /\ \A j \in inst.context.tracked : jobs[j].transition = inst.pendingTo

\* The steps ahead have not been executed.
EnteredOK == \A s \in Step : entered[s] <= 1 /\ (s > inst.step => entered[s] = 0)

CheckInv == (\A p \in Proc : ProcOK(p)) /\ AloneMoving /\ PauseOK /\ EnteredOK

\* p makes nobody else's check good again.
Overtaken(p) == overtaken \ {p} \subseteq overtaken'

\* A step of the process that moves the instance: nobody else does, and who is
\* counting was overtaken before, so that the others have nothing to lose.
LEMMA BusyGoes ==
  ASSUME Typed, CheckInv, NEW p \in Proc, pc[p] \in Moving, Stays(p), Overtaken(p),
         ProcOK(p)', PauseOK', EnteredOK'
  PROVE  CheckInv'
<1>1. inst.status = "RUNNING" /\ AloneMoving
  BY DEF CheckInv, ProcOK
<1>2. ASSUME NEW q \in Proc, q # p
      PROVE  /\ pc'[q] \notin Moving
             /\ pc'[q] \in Counting => q \in Workers /\ q \in overtaken'
  <2>1. pc'[q] = pc[q] /\ ProcOK(q) /\ pc[q] \notin Moving
    BY <1>1, <1>2 DEF Stays, CheckInv, AloneMoving
  <2>2. QED
    BY <1>1, <1>2, <2>1 DEF ProcOK, Overtaken
<1>3. \A q \in Proc : ProcOK(q)'
  <2>1. ASSUME NEW q \in Proc, q # p PROVE ProcOK(q)'
    <3>1. /\ pc'[q] \notin Moving /\ pc'[q] # "enqueue" /\ pc'[q] # "enter"
          /\ pc'[q] \notin {"complete", "move", "enqueue"}
      BY <1>2, <2>1 DEF Moving
    <3>2. QED
      BY <1>2, <2>1, <3>1 DEF ProcOK
  <2>2. QED
    BY <2>1
<1>4. AloneMoving'
  BY <1>2 DEF AloneMoving
<1>5. QED
  BY <1>3, <1>4 DEF CheckInv

\* A worker acts on its check: nobody moves the waiting instance, and whoever
\* else is checking is overtaken.
LEMMA DecisionGoes ==
  ASSUME Typed, CheckInv, NEW w \in Proc, pc[w] \in Counting, w \notin overtaken,
         Stays(w), Overtakes(w), ProcOK(w)', PauseOK', EnteredOK'
  PROVE  CheckInv'
<1>1. inst.status = "WAITING"
  BY DEF CheckInv, ProcOK
<1>2. ASSUME NEW q \in Proc, q # w
      PROVE  /\ pc'[q] \notin Moving
             /\ pc'[q] \in Counting => q \in Workers /\ q \in overtaken'
  <2>1. pc'[q] = pc[q] /\ ProcOK(q)
    BY <1>2 DEF Stays, CheckInv
  <2>2. pc[q] \in Counting => q \in Checking
    BY <2>1 DEF ProcOK, Checking, Counting
  <2>3. QED
    BY <1>1, <1>2, <2>1, <2>2 DEF ProcOK, Overtakes
<1>3. \A q \in Proc : ProcOK(q)'
  <2>1. ASSUME NEW q \in Proc, q # w PROVE ProcOK(q)'
    <3>1. /\ pc'[q] \notin Moving /\ pc'[q] # "enqueue" /\ pc'[q] # "enter"
          /\ pc'[q] \notin {"complete", "move", "enqueue"}
      BY <1>2, <2>1 DEF Moving
    <3>2. QED
      BY <1>2, <2>1, <3>1 DEF ProcOK
  <2>2. QED
    BY <2>1
<1>4. AloneMoving'
  BY <1>2 DEF AloneMoving
<1>5. QED
  BY <1>3, <1>4 DEF CheckInv

\* The row, what was executed and what the jobs are for stay as they are.
Rests ==
  /\ UNCHANGED <<host, inst, entered, nextJob>>
  /\ \A j \in Job : jobs'[j].transition = jobs[j].transition

LEMMA CreatedType == ASSUME Typed PROVE Created \subseteq Job /\ inst \in Instance
BY ConstantsAssumption DEF Created, Typed, SystemTypeOK, Job

LEMMA GlobalRests ==
  ASSUME Typed, CheckInv, Rests
  PROVE  PauseOK' /\ EnteredOK'
<1>1. Created \subseteq Job
  BY CreatedType
<1>2. PauseOK /\ EnteredOK /\ Created' = Created
  BY DEF CheckInv, Rests, Created
<1>3. PauseOK'
  BY <1>1, <1>2 DEF PauseOK, Rests
<1>4. EnteredOK'
  BY <1>2 DEF EnteredOK, Rests
<1>5. QED
  BY <1>3, <1>4

LEMMA ProcRests ==
  ASSUME Typed, CheckInv, Rests, NEW q \in Proc, pc'[q] = pc[q], local'[q] = local[q],
         view'[host[q]] = view[host[q]] \/ view'[host[q]] = inst,
         q \in overtaken => q \in overtaken'
  PROVE  ProcOK(q)'
<1>1. ProcOK(q) /\ Created' = Created /\ Created \subseteq Job
  BY CreatedType DEF CheckInv, Rests, Created
<1>2. inst' = inst /\ entered' = entered /\ (View(q) = inst => View(q)' = inst)
  BY DEF View, Rests
<1>3. pc'[q] = "enqueue" => \A j \in local[q].queued : jobs'[j].transition = inst.step + 1
  BY <1>1 DEF ProcOK, Rests
<1>4. QED
  BY <1>1, <1>2, <1>3 DEF ProcOK

\* A step of a process that moves nothing; it may load the row.
LEMMA RestGoes ==
  ASSUME Typed, CheckInv, NEW p \in Proc, Stays(p), Rests, pc'[p] \notin Moving,
         \A h \in Proc : view'[h] = view[h] \/ view'[h] = inst,
         Overtaken(p), ProcOK(p)'
  PROVE  CheckInv'
<1>1. \A q \in Proc : host[q] \in Proc
  BY DEF Typed, SystemTypeOK
<1>2. \A q \in Proc : ProcOK(q)'
  BY <1>1, ProcRests DEF Stays, Overtaken
<1>3. AloneMoving'
  BY DEF AloneMoving, Stays, CheckInv
<1>4. QED
  BY <1>2, <1>3, GlobalRests DEF CheckInv

\* Jobs keep what they are for when a call returns.
LEMMA ReturnRests ==
  ASSUME NEW p \in Proc, Returns(p), UNCHANGED <<host, inst, entered, nextJob>>
  PROVE  Rests
BY DEF Returns, Rests

LEMMA IdleOK == ASSUME NEW p \in Proc, pc'[p] = "idle" PROVE ProcOK(p)'
BY DEF ProcOK, Moving, Counting

LEMMA CheckExecutes ==
  ASSUME Typed, CheckInv, NEW p \in Proc, executeWorkflow(p)
  PROVE  CheckInv'
<1>1. /\ pc[p] = "execute" /\ Calm /\ UNCHANGED <<inst, view>> /\ entered' = entered
      /\ \/ Returns(p)
         \/ Stays(p) /\ pc'[p] = "loop" /\ UNCHANGED <<local, jobs>>
  BY ExecuteActs DEF executeWorkflow
<1>2. Rests /\ Stays(p)
  BY <1>1 DEF Returns, Rests, Calm, Kept
<1>3. PauseOK' /\ EnteredOK'
  BY <1>2, GlobalRests
<1>4. ProcOK(p)'
  <2>1. CASE Returns(p)
    BY <2>1, IdleOK DEF Returns
  <2>2. CASE pc'[p] = "loop"
    <3>1. inst.status = "RUNNING" /\ View(p) = inst
      BY <1>1 DEF CheckInv, ProcOK, Moving
    <3>2. inst'.status = "RUNNING" /\ View(p)' = inst'
      BY <1>1, <3>1 DEF View, Calm, Kept
    <3>3. QED
      BY <2>2, <3>2 DEF ProcOK, Counting
  <2>3. QED
    BY <1>1, <2>1, <2>2
<1>5. pc[p] \in Moving /\ Overtaken(p)
  BY <1>1 DEF Moving, Overtaken, executeWorkflow, race
<1>6. QED
  BY <1>2, <1>3, <1>4, <1>5, BusyGoes

LEMMA CheckLoops ==
  ASSUME Typed, CheckInv, NEW p \in Proc, Loop(p)
  PROVE  CheckInv'
<1>1. /\ pc[p] = "loop" /\ Calm /\ UNCHANGED <<inst, jobs>> /\ Stays(p) /\ Reads(p)
      /\ local'[p].from = inst.step /\ local'[p].queued = {}
      /\ pc'[p] \in {"complete", "move", "enqueue"} /\ entered' = entered
  BY LoopActs DEF Loop, Load
<1>2. Rests
  BY <1>1 DEF Rests, Calm, Kept
<1>3. inst.status = "RUNNING"
  BY <1>1 DEF CheckInv, ProcOK, Moving
<1>4. View(p)' = inst'
  BY <1>1 DEF Reads, View, Calm, Kept, Typed, SystemTypeOK
<1>5. ProcOK(p)'
  BY <1>1, <1>3, <1>4 DEF ProcOK, Counting
<1>6. pc[p] \in Moving /\ Overtaken(p)
  BY <1>1 DEF Moving, Overtaken, Loop, Load, race
<1>7. QED
  BY <1>1, <1>2, <1>5, <1>6, GlobalRests, BusyGoes

LEMMA CheckCompletes ==
  ASSUME Typed, CheckInv, NEW p \in Proc, completeWorkflow(p)
  PROVE  CheckInv'
<1>1. /\ pc[p] = "complete" /\ Calm /\ Returns(p) /\ Marks(p, "COMPLETED") /\ entered' = entered
  BY CompleteActs DEF completeWorkflow
<1>2. inst.status = "RUNNING" /\ View(p) = inst
  BY <1>1 DEF CheckInv, ProcOK, Moving
<1>3. inst'.status = "COMPLETED" /\ inst'.step = inst.step
  BY <1>1, <1>2 DEF Marks
<1>4. PauseOK' /\ EnteredOK'
  BY <1>1, <1>3 DEF PauseOK, EnteredOK, CheckInv
<1>5. ProcOK(p)' /\ Stays(p) /\ pc[p] \in Moving
  BY <1>1, IdleOK DEF Returns, Moving
<1>6. Overtaken(p)
  BY DEF completeWorkflow, Write, Overtakes, Overtaken
<1>7. QED
  BY <1>4, <1>5, <1>6, BusyGoes

LEMMA CheckMoves ==
  ASSUME Typed, CheckInv, NEW p \in Proc, executeTransition(p)
  PROVE  CheckInv'
<1>1. /\ pc[p] = "move" /\ Calm /\ Stays(p) /\ pc'[p] = "loop"
      /\ entered' = [entered EXCEPT ![local[p].from + 1] = @ + 1]
      /\ Write(p, [View(p) EXCEPT !.step = local[p].from + 1])
      /\ inst'.status = inst.status
      /\ inst'.step = IF local[p].from + 1 # View(p).step THEN local[p].from + 1 ELSE inst.step
  BY MoveActs DEF executeTransition
<1>2. inst.status = "RUNNING" /\ View(p) = inst /\ local[p].from = inst.step
  BY <1>1 DEF CheckInv, ProcOK, Moving
<1>3. inst \in Instance /\ inst.step \in Step /\ inst.step + 1 \in Step /\ Step \subseteq Nat
  BY <1>1, <1>2, NextStep, CreatedType, ChainType DEF Instance
<1>4. inst'.step = inst.step + 1 /\ inst'.status = "RUNNING"
  BY <1>1, <1>2, <1>3
<1>5. View(p)' = inst'
  <2>1. PICK new : new = [inst EXCEPT !.step = inst.step + 1]
    OBVIOUS
  <2>2. new \in Instance
    BY <1>3, <2>1 DEF Instance
  <2>3. Write(p, new)
    BY <1>1, <1>2, <2>1
  <2>4. inst' = Flush(inst, inst, new) /\ view' = [view EXCEPT ![host[p]] = new]
    BY <1>2, <2>3 DEF Write
  <2>5. inst'.status = new.status /\ inst'.step = new.step /\ inst'.pendingTo = new.pendingTo
        /\ inst'.context = new.context /\ inst' \in Instance
    BY <1>3, <2>2, <2>4, FlushColumns
  <2>6. inst' = new
    BY <2>2, <2>5 DEF Instance
  <2>7. view'[host[p]] = new
    BY <2>4 DEF Typed, SystemTypeOK
  <2>8. QED
    BY <1>1, <2>6, <2>7 DEF View, Calm, Kept
<1>6. PauseOK'
  BY <1>4 DEF PauseOK
<1>7. EnteredOK'
  <2>1. ASSUME NEW s \in Step
        PROVE  entered'[s] <= 1 /\ (s > inst'.step => entered'[s] = 0)
    <3>1. entered[s] \in Nat /\ entered[s] <= 1 /\ (s > inst.step => entered[s] = 0)
      BY DEF CheckInv, EnteredOK, Typed, SystemTypeOK
    <3>2. entered'[s] = IF s = inst.step + 1 THEN entered[s] + 1 ELSE entered[s]
      BY <1>1, <1>2 DEF Typed, SystemTypeOK
    <3>3. s \in Nat /\ inst.step \in Nat
      BY <1>3
    <3>4. QED
      BY <1>4, <3>1, <3>2, <3>3
  <2>2. QED
    BY <2>1 DEF EnteredOK
<1>8. ProcOK(p)'
  BY <1>1, <1>4, <1>5 DEF ProcOK, Counting
<1>9. pc[p] \in Moving /\ Overtaken(p)
  BY <1>1 DEF Moving, Write, Overtakes, Overtaken
<1>10. QED
  BY <1>1, <1>6, <1>7, <1>8, <1>9, BusyGoes

LEMMA CheckEnqueues ==
  ASSUME Typed, CheckInv, NEW p \in Proc, enqueueActivity(p)
  PROVE  CheckInv'
<1>1. /\ pc[p] = "enqueue" /\ pc' = pc /\ Kept /\ UNCHANGED <<inst, view>> /\ entered' = entered
      /\ Stays(p) /\ nextJob \in Job /\ nextJob' = nextJob + 1
      /\ local'[p].from = local[p].from
      /\ local'[p].queued = local[p].queued \cup {nextJob}
      /\ jobs'[nextJob].transition = local[p].from + 1
      /\ \A j \in Job \ {nextJob} : jobs'[j] = jobs[j]
  BY EnqueueActs DEF enqueueActivity
<1>2. /\ inst.status = "RUNNING" /\ View(p) = inst /\ local[p].from = inst.step
      /\ local[p].queued \subseteq Created
      /\ \A j \in local[p].queued : jobs[j].transition = inst.step + 1
  BY <1>1 DEF CheckInv, ProcOK, Moving
<1>3. /\ Created' = Created \cup {nextJob} /\ nextJob \notin Created /\ Created \subseteq Job
  BY <1>1, ChainType, CreatedType DEF Created
<1>4. \A j \in local'[p].queued : jobs'[j].transition = inst.step + 1
  BY <1>1, <1>2, <1>3
<1>5. View(p)' = inst'
  BY <1>1, <1>2 DEF View, Kept
<1>6. ProcOK(p)'
  BY <1>1, <1>2, <1>3, <1>4, <1>5 DEF ProcOK, Counting
<1>7. PauseOK' /\ EnteredOK'
  BY <1>1, <1>2 DEF PauseOK, EnteredOK, CheckInv
<1>8. pc[p] \in Moving /\ Overtaken(p)
  BY <1>1 DEF Moving, Overtaken, enqueueActivity, race
<1>9. QED
  BY <1>1, <1>6, <1>7, <1>8, BusyGoes

LEMMA CheckPauses ==
  ASSUME Typed, CheckInv, NEW p \in Proc, pauseForActivities(p)
  PROVE  CheckInv'
<1>1. /\ pc[p] = "enqueue" /\ Calm /\ Returns(p) /\ entered' = entered
      /\ Cardinality(local[p].queued) = Acts[local[p].from + 1]
  BY PauseActs DEF pauseForActivities
<1>2. PICK new \in Instance :
        /\ new.status = "WAITING" /\ new.step = View(p).step /\ new.pendingTo = local[p].from + 1
        /\ new.context.tracked = local[p].queued
        /\ inst' = Flush(inst, View(p), new)
  BY PauseActs
<1>3. /\ inst.status = "RUNNING" /\ View(p) = inst /\ local[p].from = inst.step
      /\ local[p].queued \subseteq Created
      /\ \A j \in local[p].queued : jobs[j].transition = inst.step + 1
  BY <1>1 DEF CheckInv, ProcOK, Moving
<1>4. /\ inst'.status = "WAITING" /\ inst'.step = inst.step /\ inst'.pendingTo = inst.step + 1
      /\ inst'.context.tracked = local[p].queued
  BY <1>2, <1>3, CreatedType, FlushColumns
<1>5. Created' = Created /\ Created \subseteq Job
  BY <1>1, CreatedType DEF Created, Calm
<1>6. \A j \in local[p].queued : jobs'[j].transition = inst.step + 1
  BY <1>1, <1>3, <1>5 DEF Returns
<1>7. PauseOK'
  BY <1>1, <1>3, <1>4, <1>5, <1>6 DEF PauseOK
<1>8. EnteredOK'
  BY <1>1, <1>4 DEF EnteredOK, CheckInv
<1>9. ProcOK(p)' /\ Stays(p) /\ pc[p] \in Moving
  BY <1>1, IdleOK DEF Returns, Moving
<1>10. Overtaken(p)
  BY DEF pauseForActivities, Write, Overtakes, Overtaken
<1>11. QED
  BY <1>7, <1>8, <1>9, <1>10, BusyGoes

\* The worker's steps before it reads the row.
LEMMA CheckWorks ==
  ASSUME Typed, CheckInv, NEW w \in Workers,
         \/ \E j \in Job : TakeJob(w, j)
         \/ ActivityCompleted(w) \/ ActivityFailed(w) \/ NotWaiting(w)
  PROVE  CheckInv'
<1>1. w \in Proc
  BY WorkersRun
<1>2. /\ pc'[w] \in {"run", "resume", "idle"} /\ Stays(w) /\ Rests
      /\ \A h \in Proc : view'[h] = view[h] \/ view'[h] = inst
  <2>1. CASE \E j \in Job : TakeJob(w, j)
    <3>1. PICK j \in Job : TakeJob(w, j)
      BY <2>1
    <3>2. /\ pc'[w] = "run" /\ Calm /\ inst' = inst /\ Stays(w) /\ Reads(w)
          /\ jobs'[j].transition = jobs[j].transition
          /\ \A i \in Job \ {j} : jobs'[i] = jobs[i]
      BY <1>1, <3>1, TakeActs
    <3>3. entered' = entered
      BY <3>1 DEF TakeJob
    <3>4. QED
      BY <3>2, <3>3 DEF Rests, Reads, Calm, Kept
  <2>2. CASE ActivityCompleted(w)
    <3>1. /\ pc'[w] = "resume" /\ Kept /\ UNCHANGED <<inst, jobs, nextJob, view>> /\ Stays(w)
          /\ entered' = entered
      BY <1>1, <2>2, CompletedActs DEF ActivityCompleted
    <3>2. QED
      BY <3>1 DEF Rests, Kept
  <2>3. CASE ActivityFailed(w)
    <3>1. /\ Kept /\ UNCHANGED <<inst, nextJob, view>> /\ entered' = entered
          /\ \/ Stays(w) /\ pc'[w] = "resume" /\ UNCHANGED <<jobs, local>>
             \/ Returns(w)
      BY <1>1, <2>3, FailedActs DEF ActivityFailed
    <3>2. QED
      BY <3>1 DEF Rests, Kept, Returns
  <2>4. CASE NotWaiting(w)
    <3>1. Calm /\ UNCHANGED <<inst, view>> /\ Returns(w) /\ entered' = entered
      BY <1>1, <2>4, GiveUpActs DEF NotWaiting
    <3>2. QED
      BY <3>1 DEF Rests, Kept, Returns, Calm
  <2>5. QED
    BY <2>1, <2>2, <2>3, <2>4
<1>3. ProcOK(w)' /\ pc'[w] \notin Moving
  BY <1>2 DEF ProcOK, Moving, Counting
<1>4. Overtaken(w)
  BY DEF TakeJob, ActivityCompleted, ActivityFailed, NotWaiting, Overtaken, race
<1>5. QED
  BY <1>1, <1>2, <1>3, <1>4, RestGoes

LEMMA CheckFinds ==
  ASSUME Typed, CheckInv, NEW w \in Workers, FindWaitingInstance(w)
  PROVE  CheckInv'
<1>1. w \in Proc
  BY WorkersRun
<1>2. /\ pc'[w] = "countCompleted" /\ Calm /\ UNCHANGED <<inst, jobs>> /\ Stays(w) /\ Reads(w)
      /\ inst.status = "WAITING" /\ entered' = entered
  BY <1>1, FindActs DEF FindWaitingInstance
<1>3. View(w)' = inst'
  BY <1>1, <1>2 DEF Reads, View, Calm, Kept, Typed, SystemTypeOK
<1>4. ProcOK(w)' /\ pc'[w] \notin Moving
  BY <1>2, <1>3 DEF ProcOK, Moving
<1>5. Rests /\ Overtaken(w) /\ \A h \in Proc : view'[h] = view[h] \/ view'[h] = inst
  BY <1>2 DEF Rests, Calm, Kept, Reads, Overtaken, FindWaitingInstance
<1>6. QED
  BY <1>1, <1>2, <1>4, <1>5, RestGoes

LEMMA CheckCounts ==
  ASSUME Typed, CheckInv, NEW w \in Workers,
         CountCompleted(w) \/ CountFailed(w) \/ StillPending(w)
  PROVE  CheckInv'
<1>1. w \in Proc
  BY WorkersRun
<1>2. CASE CountCompleted(w) \/ CountFailed(w)
  <2>1. /\ Calm /\ UNCHANGED <<inst, jobs, view>> /\ Stays(w) /\ entered' = entered
        /\ pc[w] \in Counting /\ pc'[w] \in Counting
    BY <1>1, <1>2, CountActs DEF CountCompleted, CountFailed, Counting
  <2>2. Rests
    BY <2>1 DEF Rests, Calm, Kept
  <2>3. overtaken' = overtaken /\ ProcOK(w)
    BY <1>1, <1>2 DEF CountCompleted, CountFailed, race, CheckInv
  <2>4. View(w)' = View(w) /\ inst' = inst
    BY <2>1 DEF View, Calm, Kept
  <2>5. ProcOK(w)' /\ pc'[w] \notin Moving
    BY <1>1, <2>1, <2>3, <2>4 DEF ProcOK, Moving, Counting
  <2>6. QED
    BY <1>1, <2>1, <2>2, <2>3, <2>5, RestGoes DEF Overtaken
<1>3. CASE StillPending(w)
  <2>1. Calm /\ UNCHANGED <<inst, view>> /\ Returns(w) /\ entered' = entered
    BY <1>1, <1>3, GiveUpActs DEF StillPending
  <2>2. Rests /\ ProcOK(w)' /\ Stays(w) /\ pc'[w] \notin Moving
    BY <1>1, <2>1, IdleOK DEF Rests, Calm, Kept, Returns, Moving
  <2>3. QED
    BY <1>1, <1>3, <2>1, <2>2, RestGoes DEF Overtaken, StillPending, race
<1>4. QED
  BY <1>2, <1>3

LEMMA CheckFails ==
  ASSUME Typed, CheckInv, ~raced', NEW w \in Workers, FailWorkflow(w)
  PROVE  CheckInv'
<1>1. w \in Proc
  BY WorkersRun
<1>2. /\ pc[w] = "decide" /\ Calm /\ Returns(w) /\ Marks(w, "FAILED") /\ entered' = entered
  BY <1>1, FailActs DEF FailWorkflow
<1>3. w \notin overtaken /\ Overtakes(w)
  BY DEF FailWorkflow, Acted, Write
<1>4. inst.status = "WAITING" /\ View(w) = inst
  BY <1>1, <1>2, <1>3 DEF CheckInv, ProcOK, Counting
<1>5. inst'.status = "FAILED" /\ inst'.step = inst.step
  BY <1>2, <1>4 DEF Marks
<1>6. PauseOK' /\ EnteredOK'
  BY <1>2, <1>5 DEF PauseOK, EnteredOK, CheckInv
<1>7. ProcOK(w)' /\ Stays(w) /\ pc[w] \in Counting
  BY <1>1, <1>2, IdleOK DEF Returns, Counting
<1>8. QED
  BY <1>1, <1>3, <1>6, <1>7, DecisionGoes

\* Nobody has taken the pending transition in between.
LEMMA CheckResumes ==
  ASSUME Typed, CheckInv, ~raced', NEW w \in Workers,
         ResumeWithoutTransition(w) \/ ResumePendingTransition(w)
  PROVE  CheckInv'
<1>1. w \in Proc
  BY WorkersRun
<1>2. pc[w] = "decide" /\ w \notin overtaken /\ Overtakes(w)
  BY <1>1, PlainResumeActs, ResumeActs
     DEF ResumeWithoutTransition, ResumePendingTransition, Acted, Write
<1>3. inst.status = "WAITING" /\ View(w) = inst /\ inst.pendingTo = inst.step + 1
  BY <1>1, <1>2 DEF CheckInv, ProcOK, Counting, PauseOK
<1>4. inst.step \in Nat /\ inst.step + 1 # None
  <2>1. inst.step \in Nat
    BY CreatedType, ChainType DEF Instance
  <2>2. QED
    BY <2>1 DEF None
<1>5. ResumePendingTransition(w)
  BY <1>3, <1>4 DEF ResumeWithoutTransition
<1>6. /\ pc'[w] = "enter" /\ Calm /\ Stays(w) /\ Resumes(w, inst.step + 1)
  BY <1>1, <1>3, <1>5, ResumeActs
<1>7. local'[w].from = inst.step + 1 /\ entered' = entered
  BY <1>1, <1>3, <1>5 DEF ResumePendingTransition, Typed, SystemTypeOK, Locals
<1>8. PICK new \in Instance :
        /\ new.status = "RUNNING" /\ new.step = inst.step + 1
        /\ inst'.status = IF new.status # inst.status THEN new.status ELSE inst.status
        /\ inst'.step = IF new.step # inst.step THEN new.step ELSE inst.step
        /\ inst'.pendingTo = IF new.pendingTo # inst.pendingTo THEN new.pendingTo
                             ELSE inst.pendingTo
        /\ inst'.context = IF new.context # inst.context THEN new.context ELSE inst.context
        /\ \A h \in Proc : view'[h] = IF h = host[w] THEN new ELSE view[h]
  BY <1>3, <1>6 DEF Resumes
<1>9. inst' = new
  <2>1. inst' \in Instance
    BY <1>1, <1>5, ResumeActs DEF Typed, SystemTypeOK
  <2>2. /\ inst'.status = new.status /\ inst'.step = new.step
        /\ inst'.pendingTo = new.pendingTo /\ inst'.context = new.context
    BY <1>8
  <2>3. QED
    BY <2>1, <2>2 DEF Instance
<1>10. View(w)' = inst'
  BY <1>1, <1>6, <1>8, <1>9 DEF View, Calm, Kept, Typed, SystemTypeOK
<1>11. inst'.step = inst.step + 1 /\ inst'.status = "RUNNING" /\ inst'.step \in Step
  BY <1>8, <1>9 DEF Instance
<1>12. entered'[inst'.step] = 0
  BY <1>4, <1>7, <1>11 DEF CheckInv, EnteredOK
<1>13. ProcOK(w)'
  BY <1>6, <1>7, <1>10, <1>11, <1>12 DEF ProcOK, Counting
<1>14. PauseOK'
  BY <1>11 DEF PauseOK
<1>15. EnteredOK'
  <2>1. ASSUME NEW s \in Step, s > inst.step + 1 PROVE s > inst.step
    BY <1>4, <2>1, ChainType
  <2>2. QED
    BY <1>7, <1>11, <2>1 DEF CheckInv, EnteredOK
<1>16. QED
  BY <1>1, <1>2, <1>6, <1>13, <1>14, <1>15, DecisionGoes DEF Counting

LEMMA CheckEnters ==
  ASSUME Typed, CheckInv, NEW w \in Workers, executeDeferredStep(w)
  PROVE  CheckInv'
<1>1. w \in Proc
  BY WorkersRun
<1>2. /\ pc[w] = "enter" /\ pc'[w] = "execute" /\ Calm /\ Stays(w)
      /\ UNCHANGED <<inst, view, local, jobs>>
      /\ entered' = [entered EXCEPT ![local[w].from] = @ + 1]
  BY <1>1, DeferredActs DEF executeDeferredStep
<1>3. /\ inst.status = "RUNNING" /\ View(w) = inst /\ local[w].from = inst.step
      /\ entered[inst.step] = 0
  BY <1>1, <1>2 DEF CheckInv, ProcOK, Moving
<1>4. inst.step \in Step /\ Step \subseteq Nat
  BY CreatedType, ChainType DEF Instance
<1>5. EnteredOK'
  <2>1. ASSUME NEW s \in Step
        PROVE  entered'[s] <= 1 /\ (s > inst.step => entered'[s] = 0)
    <3>1. entered[s] \in Nat /\ entered[s] <= 1 /\ (s > inst.step => entered[s] = 0)
      BY DEF CheckInv, EnteredOK, Typed, SystemTypeOK
    <3>2. entered'[s] = IF s = inst.step THEN entered[s] + 1 ELSE entered[s]
      BY <1>2, <1>3 DEF Typed, SystemTypeOK
    <3>3. s \in Nat /\ inst.step \in Nat
      BY <1>4
    <3>4. QED
      BY <1>3, <3>1, <3>2, <3>3
  <2>2. QED
    BY <1>2, <2>1 DEF EnteredOK
<1>6. PauseOK'
  BY <1>2, <1>3 DEF PauseOK
<1>7. View(w)' = inst'
  BY <1>2, <1>3 DEF View, Calm, Kept
<1>8. ProcOK(w)'
  BY <1>2, <1>3, <1>7 DEF ProcOK, Counting
<1>9. QED
  BY <1>1, <1>2, <1>5, <1>6, <1>8, BusyGoes DEF Moving, Overtaken, executeDeferredStep, race

\* The route finds FAILED, so nobody moves the instance.
LEMMA CheckRetries ==
  ASSUME Typed, CheckInv, retry
  PROVE  CheckInv'
<1>1. /\ inst.status = "FAILED" /\ inst' = [inst EXCEPT !.status = "RUNNING"]
      /\ view' = [view EXCEPT ![Web] = inst'] /\ Goto(Web, "execute")
      /\ UNCHANGED <<jobs, host, local, entered>>
  BY DEF retry
<1>2. inst \in Instance /\ Web \in Proc /\ host[Web] = Web
  BY CreatedType, WorkersRun DEF Typed, Hosted
<1>3. inst'.status = "RUNNING" /\ inst'.step = inst.step
  BY <1>1, <1>2 DEF Instance
<1>4. ASSUME NEW q \in Proc \ {Web}
      PROVE  /\ pc[q] \notin Moving
             /\ pc[q] \in Counting => q \in Workers /\ q \in overtaken'
  <2>1. ProcOK(q) /\ overtaken \ {Web} \subseteq overtaken'
    BY DEF CheckInv, retry, Overtakes
  <2>2. QED
    BY <1>1, <2>1 DEF ProcOK
<1>5. pc'[Web] = "execute" /\ \A q \in Proc \ {Web} : pc'[q] = pc[q]
  BY <1>1, <1>2, GotoActs DEF Typed
<1>6. View(Web)' = inst'
  BY <1>1, <1>2 DEF View, Typed, SystemTypeOK
<1>7. ProcOK(Web)'
  BY <1>3, <1>5, <1>6 DEF ProcOK, Counting
<1>8. ASSUME NEW q \in Proc \ {Web} PROVE ProcOK(q)' /\ pc'[q] \notin Moving
  BY <1>4, <1>5 DEF ProcOK, Moving
<1>9. AloneMoving'
  BY <1>8 DEF AloneMoving
<1>10. PauseOK' /\ EnteredOK'
  BY <1>1, <1>3 DEF PauseOK, EnteredOK, CheckInv
<1>11. QED
  BY <1>7, <1>8, <1>9, <1>10 DEF CheckInv

LEMMA CheckCrashes ==
  ASSUME Typed, CheckInv, NEW p \in Proc, Crash(p)
  PROVE  CheckInv'
<1>1. /\ UNCHANGED <<inst, view, nextJob, host>>
      /\ \A q \in Proc : \/ pc'[q] = "idle" /\ local'[q] = Idle
                         \/ pc'[q] = pc[q] /\ local'[q] = local[q]
      /\ \A j \in Job : jobs'[j].transition = jobs[j].transition
      /\ entered' = entered
  BY CrashActs DEF Crash
<1>2. Rests /\ overtaken' = overtaken
  BY <1>1 DEF Rests, Crash, race
<1>3. \A q \in Proc : ProcOK(q)'
  BY <1>1, <1>2, IdleOK, ProcRests
<1>4. AloneMoving'
  BY <1>1 DEF AloneMoving, CheckInv, Moving
<1>5. QED
  BY <1>2, <1>3, <1>4, GlobalRests DEF CheckInv

LEMMA CheckHolds == Init => CheckInv
<1>1. SUFFICES ASSUME Init PROVE CheckInv
  OBVIOUS
<1>2. /\ inst = NewInstance /\ pc = [p \in Proc |-> IF p = Web THEN "loop" ELSE "idle"]
      /\ view = [p \in Proc |-> NewInstance] /\ entered = [s \in Step |-> 0]
      /\ \A p \in Proc : host[p] \in Proc
  BY <1>1 DEF Init
<1>3. inst.status = "RUNNING" /\ \A p \in Proc : View(p) = inst /\ pc[p] \in {"loop", "idle"}
  BY <1>2 DEF View, NewInstance
<1>4. \A p \in Proc : ProcOK(p)
  BY <1>3 DEF ProcOK, Counting, Moving
<1>5. AloneMoving /\ PauseOK /\ EnteredOK
  BY <1>2, <1>3 DEF AloneMoving, PauseOK, EnteredOK, Moving
<1>6. QED
  BY <1>4, <1>5 DEF CheckInv

\* What is recorded of races: whoever acts is a worker, and a race stays known.
LEMMA WriteRecords ==
  ASSUME RaceTypeOK, NEW p \in Proc, Overtakes(p)
  PROVE  overtaken' \subseteq Workers
BY DEF Overtakes, Checking, RaceTypeOK

LEMMA RaceSteps == RaceTypeOK /\ [Next]_vars => RaceTypeOK' /\ (raced => raced')
<1>1. SUFFICES ASSUME RaceTypeOK, [Next]_vars PROVE RaceTypeOK' /\ (raced => raced')
  OBVIOUS
<1>2. ASSUME NEW p \in Proc, Execute(p) PROVE RaceTypeOK' /\ (raced => raced')
  <2>1. CASE completeWorkflow(p) \/ executeTransition(p) \/ pauseForActivities(p)
    <3>1. Overtakes(p) /\ raced' = raced
      BY <2>1 DEF completeWorkflow, executeTransition, pauseForActivities, Write
    <3>2. QED
      BY <1>1, <3>1, WriteRecords DEF RaceTypeOK
  <2>2. CASE executeWorkflow(p) \/ Loop(p) \/ enqueueActivity(p)
    BY <1>1, <2>2 DEF executeWorkflow, Loop, Load, enqueueActivity, race, RaceTypeOK
  <2>3. QED
    BY <1>2, <2>1, <2>2 DEF Execute
<1>3. ASSUME NEW w \in Workers, Work(w) PROVE RaceTypeOK' /\ (raced => raced')
  <2>1. CASE \/ \E j \in Job : TakeJob(w, j)
             \/ ActivityCompleted(w) \/ ActivityFailed(w) \/ NotWaiting(w)
             \/ CountCompleted(w) \/ CountFailed(w) \/ StillPending(w) \/ executeDeferredStep(w)
    <3>1. race' = race
      BY <2>1 DEF TakeJob, ActivityCompleted, ActivityFailed, NotWaiting, CountCompleted,
                  CountFailed, StillPending, executeDeferredStep
    <3>2. QED
      BY <1>1, <3>1 DEF race, RaceTypeOK
  <2>2. CASE FindWaitingInstance(w)
    BY <1>1, <2>2 DEF FindWaitingInstance, RaceTypeOK
  <2>3. CASE FailWorkflow(w) \/ ResumeWithoutTransition(w) \/ ResumePendingTransition(w)
    <3>1. Overtakes(w) /\ raced' = (raced \/ w \in overtaken) /\ w \in Proc
      BY <2>3, WorkersRun
         DEF FailWorkflow, ResumeWithoutTransition, ResumePendingTransition, Write, Acted
    <3>2. QED
      BY <1>1, <3>1, WriteRecords DEF RaceTypeOK
  <2>4. QED
    BY <1>3, <2>1, <2>2, <2>3 DEF Work
<1>4. ASSUME NEW p \in Proc, Crash(p) PROVE RaceTypeOK' /\ (raced => raced')
  BY <1>1, <1>4 DEF Crash, race, RaceTypeOK
<1>5. CASE retry
  <2>1. Overtakes(Web) /\ raced' = raced /\ Web \in Proc
    BY <1>5, WorkersRun DEF retry
  <2>2. QED
    BY <1>1, <2>1, WriteRecords DEF RaceTypeOK
<1>6. CASE UNCHANGED vars
  BY <1>1, <1>6 DEF vars, race, RaceTypeOK
<1>7. QED
  BY <1>1, <1>2, <1>3, <1>4, <1>5, <1>6 DEF Next

LEMMA CheckInductive ==
  Typed /\ RaceTypeOK /\ (raced \/ CheckInv) /\ [Next]_vars => (raced \/ CheckInv)'
<1>1. SUFFICES ASSUME Typed, CheckInv, ~raced', [Next]_vars PROVE CheckInv'
  BY RaceSteps
<1>2. ASSUME NEW p \in Proc, Execute(p) PROVE CheckInv'
  BY <1>1, <1>2, CheckExecutes, CheckLoops, CheckCompletes, CheckMoves, CheckEnqueues, CheckPauses
     DEF Execute
<1>3. ASSUME NEW w \in Workers, Work(w) PROVE CheckInv'
  BY <1>1, <1>3, CheckWorks, CheckFinds, CheckCounts, CheckFails, CheckResumes, CheckEnters DEF Work
<1>4. ASSUME NEW p \in Proc, Crash(p) PROVE CheckInv'
  BY <1>1, <1>4, CheckCrashes
<1>5. CASE retry
  BY <1>1, <1>5, CheckRetries
<1>6. CASE UNCHANGED vars
  <2>1. Rests /\ UNCHANGED <<pc, local, view, overtaken>>
    BY <1>6 DEF vars, race, Rests
  <2>2. \A q \in Proc : ProcOK(q)'
    BY <1>1, <2>1, ProcRests
  <2>3. AloneMoving'
    BY <1>1, <2>1 DEF AloneMoving, CheckInv
  <2>4. QED
    BY <1>1, <2>1, <2>2, <2>3, GlobalRests DEF CheckInv
<1>7. QED
  BY <1>1, <1>2, <1>3, <1>4, <1>5, <1>6 DEF Next

-----------------------------------------------------------------------------
(* Theorems *)

\* Every variable keeps its type, whatever the definition, the number of
\* workers and the crashes and retries.
THEOREM TypeCorrect == Spec => []TypeOK
<1>1. Typed /\ RaceTypeOK => TypeOK
  BY DEF Typed, TypeOK
<1>2. Init => RaceTypeOK
  BY DEF Init, RaceTypeOK
<1>3. RaceTypeOK /\ [Next]_vars => RaceTypeOK'
  BY RaceSteps
<1>4. QED
  BY <1>1, <1>2, <1>3, InitTyped, NextTyped, PTL DEF Spec

\* pauseForActivities and the two ways to resume: if one transition has
\* asynchronous activities, then until somebody retries by hand an instance
\* in WAITING_FOR_ACTIVITIES has the transition it waits for stored, and waits
\* for all the jobs of that transition, also when processes are killed.
THEOREM WaitsForItsTransition ==
  ASSUME OneAsync
  PROVE  Spec => [](retries = 0 => WaitingIsPending)
<1>1. ASSUME IInv, retries = 0, inst.status = "WAITING"
      PROVE  /\ inst.pendingTo = inst.step + 1
             /\ Cardinality(inst.context.tracked) = Acts[inst.pendingTo]
             /\ \A j \in inst.context.tracked : jobs[j].transition = inst.pendingTo
  <2>1. Typed /\ OneInv /\ JobsOK
    BY <1>1 DEF IInv, OneInv
  <2>2. Paused(inst)
    BY <1>1, <2>1, WaitingIsPaused
  <2>3. Async \in Nat \ {0}
    BY AsyncType
  <2>4. inst.pendingTo = inst.step + 1
    BY <2>2, <2>3 DEF Paused
  <2>5. QED
    BY <2>1, <2>2, <2>4 DEF Paused, JobsOK
<1>2. IInv => (retries = 0 => WaitingIsPending)
  BY <1>1 DEF WaitingIsPending
<1>3. QED
  BY <1>2, Inductive, PTL DEF Spec

\* What the row says of the jobs once it stands behind their transition.
LEMMA BehindMeansLate ==
  ASSUME OneAsync, IInv, retries = 0, crashes = 0, NEW j \in Created,
         inst.step >= jobs[j].transition
  PROVE  Late(inst) /\ Created \subseteq Finished
<1>1. Typed /\ OneInv /\ JobsOK /\ RowOK /\ Once
  BY DEF IInv, OneInv
<1>2. jobs[j].transition = Async
  BY <1>1 DEF JobsOK
<1>3. inst.step \in Step /\ Async \in Nat \ {0} /\ (nextJob = 1 => Created = {})
  BY <1>1, WebParts DEF Instance
<1>4. inst.step \in Nat
  BY <1>3, ChainType
<1>5. ~Early(inst)
  BY <1>2, <1>3, <1>4 DEF Early
<1>6. ~Paused(inst)
  BY <1>2, <1>3, <1>4 DEF Paused
<1>7. Late(inst)
  BY <1>1, <1>5, <1>6 DEF RowOK, Begun
<1>8. QED
  BY <1>1, <1>7 DEF Once

\* The guard of resumeWorkflowAfterActivities counts events, not jobs: if one
\* transition has asynchronous activities, then until a process is killed or
\* somebody retries by hand the count is right, and the instance moves behind
\* the transition only when each of its jobs has succeeded.
THEOREM AdvancesWhenDone ==
  ASSUME OneAsync
  PROVE  Spec => [](retries = 0 /\ crashes = 0 => NoAdvancePastUnfinished)
<1>1. ASSUME IInv, retries = 0, crashes = 0, NEW j \in Created, inst.step >= jobs[j].transition
      PROVE  Done(j)
  <2>1. j \in Finished
    BY <1>1, BehindMeansLate
  <2>2. QED
    BY <2>1 DEF Finished, Done
<1>2. IInv => (retries = 0 /\ crashes = 0 => NoAdvancePastUnfinished)
  BY <1>1 DEF NoAdvancePastUnfinished
<1>3. QED
  BY <1>2, Inductive, PTL DEF Spec

\* Several workers may resume, from copies of different age: under the same
\* conditions none of them loses the outputs another one has merged.
THEOREM OutputsKept ==
  ASSUME OneAsync
  PROVE  Spec => [](retries = 0 /\ crashes = 0 => OutputsMerged)
<1>1. ASSUME IInv, retries = 0, crashes = 0, NEW j \in Created, inst.step >= jobs[j].transition
      PROVE  j \in inst.context.results
  BY <1>1, BehindMeansLate DEF Late
<1>2. IInv => (retries = 0 /\ crashes = 0 => OutputsMerged)
  BY <1>1 DEF OutputsMerged
<1>3. QED
  BY <1>2, Inductive, PTL DEF Spec

\* While no worker has acted on a check that another process has overtaken.
LEMMA CheckStays == Spec => [](raced \/ CheckInv)
<1>1. Init => RaceTypeOK
  BY DEF Init, RaceTypeOK
<1>2. RaceTypeOK /\ [Next]_vars => RaceTypeOK'
  BY RaceSteps
<1>3. QED
  BY <1>1, <1>2, InitTyped, NextTyped, CheckHolds, CheckInductive, PTL DEF Spec

\* resumeWorkflowAfterActivities reads the row, counts and writes in separate
\* steps, in as many workers at once as there are slots.  The race of two such
\* checks is the only way to execute a step twice: until a worker writes on a
\* check that began before the row's last change, no step of any chain is
\* executed twice, whatever is killed, redelivered or retried by hand, however
\* the slots share processes and their entity managers.
THEOREM NoStepTwice == Spec => []StepsExecutedOnce
<1>1. (raced \/ CheckInv) => StepsExecutedOnce
  BY DEF CheckInv, EnteredOK, StepsExecutedOnce
<1>2. QED
  BY <1>1, CheckStays, PTL

\* The same for what a pause stores: up to that race it names the transition it
\* waits for and its jobs for any chain of steps, also after manual retries.
THEOREM PauseIsPending == Spec => []PausesPending
<1>1. (raced \/ CheckInv) => PausesPending
  BY DEF CheckInv, PauseOK, WaitingIsPending, PausesPending
<1>2. QED
  BY <1>1, CheckStays, PTL

=============================================================================
