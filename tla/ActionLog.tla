----------------------------- MODULE ActionLog ------------------------------
(***************************************************************************)
(* The action log (modules/audit_logs): the commands that were executed,   *)
(* in the order of createdAt, and which of them a user may undo or redo    *)
(* next.  All commands of this model can be undone, so an entry has its    *)
(* undo token exactly as long as it is "done".                             *)
(***************************************************************************)
EXTENDS Naturals, Sequences, FiniteSetsExt

NoResource == <<>>

\* at: the order of updatedAt, which says which entry was undone last.
Entry(user, command, input, resource, payload) ==
  [actor |-> user, command |-> command, input |-> input, resource |-> resource,
   payload |-> payload, state |-> "done", at |-> 0]

Own(log, user, state) ==
  {i \in DOMAIN log : log[i].actor = user /\ log[i].state = state}

latestUndoableForActor(log, user) == Max(Own(log, user, "done"))

latestUndoableForResource(log, user, resource) ==
  Max({i \in Own(log, user, "done") : log[i].resource = resource})

latestUndoneForActor(log, user) ==
  CHOOSE i \in Own(log, user, "undone") :
    \A j \in Own(log, user, "undone") : log[j].at <= log[i].at

\* The route asks for the resource when the entry names one.
mayUndo(log, user, i) ==
  /\ i \in Own(log, user, "done")
  /\ i = IF log[i].resource # NoResource
         THEN latestUndoableForResource(log, user, log[i].resource)
         ELSE latestUndoableForActor(log, user)

mayRedo(log, user, i) ==
  i \in Own(log, user, "undone") /\ i = latestUndoneForActor(log, user)

markUndone(log, i) ==
  [log EXCEPT ![i].state = "undone",
              ![i].at = 1 + Max({log[j].at : j \in DOMAIN log})]

markRedone(log, i) == [log EXCEPT ![i].state = "redone"]
=============================================================================
