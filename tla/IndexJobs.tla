------------------------------ MODULE IndexJobs ------------------------------
(***************************************************************************)
(* Rows of entity_index_jobs, one per scope (query_index/lib/jobs.ts).     *)
(* Several rows of one scope are read and written together, so they are    *)
(* one row here.  Heartbeats and counts are left out.                      *)
(***************************************************************************)

JobRows == {"none", "open", "finished"}

Unfinished(row) == row = "open"

\* prepareJob: the scope's row is opened again, or inserted.
PrepareJob(rows, scope) == [rows EXCEPT ![scope] = "open"]

\* finalizeJob forgets finished_at and only moves the heartbeat.
FinalizeJob_HeartbeatOnly(rows, scope) == rows

FinalizeJob(rows, scope) ==
  [rows EXCEPT ![scope] = IF @ = "none" THEN "none" ELSE "finished"]

=============================================================================
