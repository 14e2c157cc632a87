-------------------------- MODULE MCWorkflowEngine --------------------------
(***************************************************************************)
(* Definitions and requests for model-checking WorkflowEngine.             *)
(***************************************************************************)
EXTENDS WorkflowEngine

CONSTANTS r1, r2, ok, note

OneRequest  == {r1}
TwoRequests == {r1, r2}

Names == {"start", "auto", "task", "signal", "fork", "end", "other"}

Kind == [s \in Names |->
  CASE s = "start"  -> "START"
    [] s = "task"   -> "USER_TASK"
    [] s = "signal" -> "WAIT_FOR_SIGNAL"
    [] s = "fork"   -> "PARALLEL_FORK"
    [] s = "end"    -> "END"
    [] OTHER        -> "AUTOMATED"]

Edge(from, to) ==
  [from |-> from, to |-> to, trigger |-> "auto", condition |-> NoKey,
   preCondition |-> NoKey, activityMayFail |-> FALSE]

If(edge)       == [edge EXCEPT !.condition = ok]
Guarded(edge)  == [edge EXCEPT !.preCondition = ok]
Manual(edge)   == [edge EXCEPT !.trigger = "manual"]
MayFail(edge)  == [edge EXCEPT !.activityMayFail = TRUE]

\* A task that may be ended by hand, given the key ok, then a signal.
Review ==
  <<Edge("start", "task"), If(Edge("task", "signal")), Guarded(Manual(Edge("task", "end"))),
    Manual(Edge("signal", "task")), Edge("signal", "auto"), Edge("auto", "end")>>

\* The same, and by hand from the task into an automatic transition that
\* comes back to its own step.
Circle ==
  Review \o
  <<Manual(Edge("task", "other")), MayFail(Edge("other", "other")),
    Manual(Edge("other", "fork"))>>
=============================================================================
