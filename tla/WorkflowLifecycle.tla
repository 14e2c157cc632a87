------------------------- MODULE WorkflowLifecycle -------------------------
(***************************************************************************)
(* What the engine promises of an instance, seen from outside: its status  *)
(* and its step, as long as its requests do not overlap.  The statuses are *)
(* those of the state diagram of docs/docs/framework/workflows/            *)
(* architecture.mdx that the engine really sets; WAITING_FOR_ACTIVITIES is *)
(* in WorkflowActivities.                                                  *)
(***************************************************************************)
EXTENDS Integers

CONSTANTS Step, StepType, Start, Edges

VARIABLES status, step

lifecycle == <<status, step>>

LifecycleInit == status = "RUNNING" /\ step = Start

\* The instance goes along a transition; its status is not looked at.
Move ==
  /\ \E e \in Edges : e.from = step /\ e.to = step'
  /\ UNCHANGED status

Complete ==
  /\ StepType[step] = "END"
  /\ status' = "COMPLETED"
  /\ UNCHANGED step

\* Wait for a user or a signal.
Wait ==
  /\ status # "COMPLETED"
  /\ StepType[step] \in {"USER_TASK", "WAIT_FOR_SIGNAL"}
  /\ status' = "PAUSED"
  /\ UNCHANGED step

\* An answer or a retry sets the instance going.
Resume ==
  /\ status # "COMPLETED"
  /\ status' = "RUNNING"
  /\ UNCHANGED step

Fail ==
  /\ status = "RUNNING"
  /\ status' = "FAILED"
  /\ UNCHANGED step

Cancel ==
  /\ status \in {"RUNNING", "PAUSED"}
  /\ status' = "CANCELLED"
  /\ UNCHANGED step

LifecycleNext == Move \/ Complete \/ Wait \/ Resume \/ Fail \/ Cancel

LifecycleSpec == LifecycleInit /\ [][LifecycleNext]_lifecycle
=============================================================================
