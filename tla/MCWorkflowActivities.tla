------------------------ MODULE MCWorkflowActivities ------------------------
(***************************************************************************)
(* Instances of WorkflowActivities for TLC: chains of steps, given by the  *)
(* number of asynchronous activities of each transition, and the workers.  *)
(***************************************************************************)
EXTENDS WorkflowActivities

CONSTANTS w1, w2

OneWorker  == {w1}
TwoWorkers == {w1, w2}

Two       == <<2>>
TwoThenNo == <<2, 0>>
TwoThenOne == <<2, 1>>
=============================================================================
