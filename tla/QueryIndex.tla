------------------------------ MODULE QueryIndex ------------------------------
(***************************************************************************)
(* The JSONB query index of one entity type in one organization            *)
(* (core query_index): requests write the base table and then index the    *)
(* record they wrote (subscribers upsert_one, delete_one over              *)
(* lib/indexer.ts), reindex jobs of the organization or of its whole       *)
(* tenant walk the table in batches (lib/reindexer.ts, batch.ts,           *)
(* stale.ts), and both keep the coverage row.                              *)
(* Every statement sent to the database is a step.                         *)
(***************************************************************************)
EXTENDS Integers, FiniteSets

CONSTANTS
  Records,         \* record ids, in the order of "order by id"
  PartitionCount,  \* partitions of a reindex
  Existing,        \* records there and indexed at first
  Requests,        \* processes that serve requests changing records
  MaxRuns,         \* bound on the reindex runs
  Timer,           \* the coverage refresh of the delete subscriber
  Uses,            \* the runs in use: of what, and whether forced
  BatchSize,       \* rows of a batch
  Crashes,         \* whether a process may be killed
  MaxChanges       \* bound on the changes of the base table

\* A run is given its organization (the API always does), or goes over those of
\* the tenant; its job row is that of the scope.
Kinds == {"organization", "tenant"}

ASSUME RecordsAssumption == Records \in SUBSET (Nat \ {0}) /\ IsFiniteSet(Records)
ASSUME ExistingAssumption == Existing \subseteq Records
ASSUME RunsAssumption == MaxRuns \in Nat
ASSUME PartitionsAssumption == PartitionCount \in Nat \ {0}
ASSUME UsesAssumption == Uses \subseteq Kinds \X BOOLEAN
ASSUME BatchAssumption == BatchSize \in Nat \ {0}
ASSUME ChangesAssumption == MaxChanges \in Nat
ASSUME ProcessesAssumption ==
  Timer \notin Requests /\ (Requests \cup {Timer}) \cap 1..MaxRuns = {}

VARIABLES
  base,      \* per record: its state and the number of its last change
  index,     \* per record: the change its document was built from, or 0
  changes,   \* number of changes of the base table, its first state the first
  req,       \* what each request is doing
  run,       \* what each reindex run is doing
  rows,      \* entity_index_jobs, one row per scope of a run
  unwritten, \* per partition, the index rows not written since started_at of
             \* its tenant-wide job row
  coverage, task,   \* Coverage
  due,       \* a coverage refresh is scheduled
  outdated   \* history: records whose document a race or a kill left wrong

\* Reindex runs, in the order they start.
Jobs == 1..MaxRuns

Partitions == 0..(PartitionCount - 1)

JobScopes == Kinds \X Partitions
TenantWide(p) == <<"tenant", p>>

\* mod(abs(hashtext(id)), partitionCount)
PartitionOf(r) == r % PartitionCount

InPartition(p) == {r \in Records : PartitionOf(r) = p}

Active(r) == base[r].state = "active"

ActiveIn(S) == {r \in S : Active(r)}

Indexed(S) == {r \in S : index[r] # 0}

Cov == INSTANCE Coverage WITH
         Processes <- Requests \cup Jobs \cup {Timer},
         baseCount <- Cardinality(ActiveIn(Records)),
         indexCount <- Cardinality(Indexed(Records))

INSTANCE IndexJobs

jobVars == <<rows, unwritten>>
vars == <<base, index, changes, req, run, jobVars, coverage, task, due, outdated>>

---------------------------------------------------------------------------
Waiting == [pc |-> "idle"]

NotStarted == [pc |-> "idle"]

\* A run that is over, or that was left without closing its job row.
Done(k, p) == [pc |-> "done", kind |-> k, partition |-> p]
Left(k, p) == [pc |-> "left", kind |-> k, partition |-> p]

\* Steps of a run once its job row is open.
OpenSteps == {"startedAt", "reset", "resetCoverage", "read", "write", "progress",
              "purge", "finalize"}

RunSteps == {"prepare"} \cup OpenSteps

Versions == 0..(MaxChanges + 1)

BaseRows == [state: {"absent", "active", "deleted"}, version: Versions]

\* A request that saves a record; one that deletes it.
Saves == [pc: {"find", "build", "put"}, record: Records, change: Versions,
          created: BOOLEAN, existed: BOOLEAN, doc: BaseRows]
Deletions == [pc: {"findDeleted", "remove", "notify"}, record: Records,
              wasActive: BOOLEAN]

\* A run that is over; one that goes on, with the rows of its batch.
\* scoped: whether the coverage row is one of those it keeps.  emptied: whether
\* it has emptied the index.
Ended == [pc: {"done", "left"}, kind: Kinds, partition: Partitions]
Runs == [pc: RunSteps, kind: Kinds, partition: Partitions, force: BOOLEAN,
         total: 0..Cardinality(Records), scoped: BOOLEAN, emptied: BOOLEAN,
         last: Records \cup {0}, batch: UNION {[S -> Versions] : S \in SUBSET Records},
         old: SUBSET Records, quiet: BOOLEAN, alone: BOOLEAN, shared: BOOLEAN]

TypeOK ==
  /\ base \in [Records -> BaseRows]
  /\ index \in [Records -> Versions]
  /\ changes \in 1..(MaxChanges + 1)
  /\ req \in [Requests -> {Waiting} \cup Saves \cup Deletions]
  /\ run \in [Jobs -> {NotStarted} \cup Ended \cup Runs]
  /\ rows \in [JobScopes -> JobRows]
  /\ unwritten \in [Partitions -> SUBSET Records]
  /\ Cov!CoverageTypeOK
  /\ due \in BOOLEAN
  /\ outdated \in SUBSET Records

NoBatch == [r \in {} |-> 0]

AbsentRow == [state |-> "absent", version |-> 0]

Init ==
  /\ base = [r \in Records |-> IF r \in Existing
                              THEN [state |-> "active", version |-> 1] ELSE AbsentRow]
  /\ index = [r \in Records |-> IF r \in Existing THEN 1 ELSE 0]
  /\ changes = 1
  /\ req = [q \in Requests |-> Waiting]
  /\ run = [j \in Jobs |-> NotStarted]
  /\ rows = [s \in JobScopes |-> "none"]
  /\ unwritten = [p \in Partitions |-> {}]
  /\ Cov!CoverageInit
  /\ due = FALSE
  /\ outdated = {}

---------------------------------------------------------------------------
(* What a run knows of the steps others take beside it (history), and the  *)
(* index rows it would purge: those not updated since its started_at.      *)

Running(j) == run[j].pc \in RunSteps

ScopeOf(r) == <<r.kind, r.partition>>

\* Another process takes a step: a request, the timer, or a run.
Disturbed(r, quiet, shared) ==
  [r EXCEPT !.alone = FALSE, !.quiet = @ /\ quiet, !.shared = @ \/ shared]

Beside(i, quiet, shared) == IF Running(i) THEN Disturbed(run[i], quiet, shared) ELSE run[i]

\* Rewriting a row leaves its updated_at as it was.
Older_KeepsUpdatedAt(old, touched) == old

\* updated_at moves when an index row is written.
Older(old, touched) == old \ touched

Touch(r, touched) ==
  IF r.pc \in RunSteps THEN [r EXCEPT !.old = Older(@, touched)] ELSE r

RequestStep(touched) == run' = [i \in Jobs |-> Touch(Beside(i, FALSE, FALSE), touched)]

SamePartition(i, r) == Running(i) /\ run[i].partition = r.partition
SameScope(i, r) == Running(i) /\ ScopeOf(run[i]) = ScopeOf(r)

RunStep(j, next, touched) ==
  run' = [i \in Jobs |->
            IF i = j THEN Touch(next, touched)
            ELSE Touch(Beside(i, ~SamePartition(i, next), SameScope(i, next)), touched)]

\* The same for the job rows.
RowsTouched(touched) == unwritten' = [p \in Partitions |-> Older(unwritten[p], touched)]

Goto(j, pc) == [run[j] EXCEPT !.pc = pc]

\* What the walk has no more use for.
Walking(j) == [Goto(j, "read") EXCEPT !.force = FALSE, !.total = 0]

\* The walk is over: its variables are dead.
Closing(j) == [Goto(j, "finalize") EXCEPT !.emptied = FALSE, !.last = 0,
                                          !.batch = NoBatch, !.old = {}]

\* It is over because of an error.
Failing(j) == [Closing(j) EXCEPT !.quiet = FALSE, !.alone = FALSE]

---------------------------------------------------------------------------
(* Whether a document is right.                                            *)

Right(r, version) == version = IF Active(r) THEN base[r].version ELSE 0

InSync(r) == Right(r, index[r])

\* The records of S are indexed from what was read of them; those that had
\* changed meanwhile are left wrong.
Settle(S, stale) == outdated' = (outdated \ S) \cup stale

---------------------------------------------------------------------------
(* Requests: a change of the base table, then the event that indexes it.   *)

Change(q, r, state) ==
  /\ req[q] = Waiting /\ Cov!Ready(q)
  /\ changes <= MaxChanges
  /\ changes' = changes + 1
  /\ base' = [base EXCEPT ![r] = [state |-> state, version |-> changes + 1]]
  /\ RequestStep({})
  /\ UNCHANGED <<index, jobVars, coverage, task, due, outdated>>

SaveRecord(q, r) ==
  /\ base[r].state # "deleted"
  /\ Change(q, r, "active")
  /\ req' = [req EXCEPT ![q] =
               [pc |-> "find", record |-> r, change |-> changes + 1,
                created |-> base[r].state = "absent", existed |-> FALSE, doc |-> AbsentRow]]

DeleteRecord(q, r) ==
  /\ Active(r)
  /\ Change(q, r, "deleted")
  /\ req' = [req EXCEPT ![q] = [pc |-> "findDeleted", record |-> r, wasActive |-> FALSE]]

\* upsertIndexRow: the index row, the base row, the upsert.
FindRow(q) ==
  /\ req[q].pc = "find"
  /\ req' = [req EXCEPT ![q].pc = "build", ![q].existed = index[req[q].record] # 0]
  /\ RequestStep({})
  /\ UNCHANGED <<base, index, changes, jobVars, coverage, task, due, outdated>>

BuildDoc(q) ==
  /\ req[q].pc = "build"
  /\ req' = [req EXCEPT ![q].pc = "put", ![q].doc = base[req[q].record]]
  /\ RequestStep({})
  /\ UNCHANGED <<base, index, changes, jobVars, coverage, task, due, outdated>>

\* The row is written even when the record it was built from is deleted; only
\* the coverage deltas know (isActive).
PutRow(q) ==
  /\ req[q].pc = "put"
  /\ LET r == req[q].record
         active == req[q].doc.state = "active"
         delta(b) == IF b /\ active THEN 1 ELSE 0 IN
       /\ index' = [index EXCEPT ![r] = req[q].doc.version]
       /\ Settle({r}, {s \in {r} : base[s].version # req[q].change
                             /\ ~Right(s, req[q].doc.version)})
       /\ Cov!Begin(q, Cov!AdjustTask(delta(req[q].created), delta(~req[q].existed)))
       /\ RequestStep({r}) /\ RowsTouched({r})
  /\ req' = [req EXCEPT ![q] = Waiting]
  /\ UNCHANGED <<base, changes, rows, coverage, due>>

\* markDeleted: the index row is looked for, then deleted if it was found.
FindDeletedRow(q) ==
  /\ req[q].pc = "findDeleted"
  /\ req' = [req EXCEPT ![q].pc = "remove", ![q].wasActive = index[req[q].record] # 0]
  /\ RequestStep({})
  /\ UNCHANGED <<base, index, changes, jobVars, coverage, task, due, outdated>>

\* The row is marked as found and left in the index.
RemoveRow_KeepsRow(q) ==
  /\ req[q].pc = "remove"
  /\ Cov!Begin(q, Cov!AdjustTask(-1, IF req[q].wasActive THEN -1 ELSE 0))
  /\ RequestStep({})
  /\ req' = [req EXCEPT ![q].pc = "notify"]
  /\ UNCHANGED <<base, index, changes, jobVars, coverage, due, outdated>>

RemoveRow(q) ==
  /\ req[q].pc = "remove"
  /\ LET r == req[q].record IN
       /\ index' = IF req[q].wasActive THEN [index EXCEPT ![r] = 0] ELSE index
       /\ Settle(IF req[q].wasActive THEN {r} ELSE {}, {})
       /\ Cov!Begin(q, Cov!AdjustTask(-1, IF req[q].wasActive THEN -1 ELSE 0))
       /\ RequestStep({})
  /\ req' = [req EXCEPT ![q].pc = "notify"]
  /\ UNCHANGED <<base, changes, jobVars, coverage, due>>

\* query_index.coverage.refresh: a timer replaces the one that is waiting.
NotifyCoverage(q) ==
  /\ req[q].pc = "notify" /\ Cov!Ready(q)
  /\ due' = TRUE
  /\ req' = [req EXCEPT ![q] = Waiting]
  /\ RequestStep({})
  /\ UNCHANGED <<base, index, changes, jobVars, coverage, task, outdated>>

RefreshCoverage ==
  /\ due /\ Cov!Ready(Timer)
  /\ due' = FALSE
  /\ Cov!Begin(Timer, Cov!RefreshTask)
  /\ run' = [i \in Jobs |-> Beside(i, TRUE, FALSE)]
  /\ UNCHANGED <<base, index, changes, req, jobVars, coverage, outdated>>

\* One statement on the coverage row.
CoverageStatement(p) ==
  /\ Cov!CoverageStep(p)
  /\ run' = [i \in Jobs |-> IF i = p THEN run[i] ELSE Beside(i, TRUE, FALSE)]
  /\ UNCHANGED <<base, index, changes, req, jobVars, due, outdated>>

---------------------------------------------------------------------------
(* reindexEntity, for one partition.                                       *)

\* Without force, a run is refused while the tenant-wide job row is open,
\* whatever its own scope is.
Refused(p, f) == ~f /\ Unfinished(rows[TenantWide(p)])

NextRun(j) == run[j] = NotStarted /\ \A i \in 1..(j - 1): run[i] # NotStarted

RefuseRun(j, k, p, f) ==
  /\ NextRun(j) /\ Refused(p, f)
  /\ run' = [run EXCEPT ![j] = Done(k, p)]
  /\ UNCHANGED <<base, index, changes, req, jobVars, coverage, task, due, outdated>>

StartRun(j, k, p, f) ==
  /\ NextRun(j) /\ ~Refused(p, f)
  /\ RunStep(j, [pc |-> "prepare", kind |-> k, partition |-> p, force |-> f, total |-> 0,
                 scoped |-> FALSE, emptied |-> FALSE, last |-> 0, batch |-> NoBatch,
                 old |-> {}, quiet |-> TRUE, alone |-> TRUE, shared |-> FALSE], {})
  /\ UNCHANGED <<base, index, changes, req, jobVars, coverage, task, due, outdated>>

\* The count of the partition's rows, and the job row opened or reopened.  A run
\* of the tenant knows the scopes the count found rows in.
OpenJob(j) ==
  /\ run[j].pc = "prepare"
  /\ LET p == run[j].partition
         total == Cardinality(ActiveIn(InPartition(p)))
     IN
       /\ rows' = PrepareJob(rows, ScopeOf(run[j]))
       /\ unwritten' = IF run[j].kind = "tenant"
                       THEN [unwritten EXCEPT ![p] = Indexed(Records)] ELSE unwritten
       /\ RunStep(j, [Goto(j, "startedAt") EXCEPT
                        !.total = total,
                        !.scoped = run[j].kind = "organization" \/ total > 0], {})
  /\ UNCHANGED <<base, index, changes, req, coverage, task, due, outdated>>

\* started_at of the tenant-wide job row, or the clock if there is none.
OldRows(p) == IF rows[TenantWide(p)] = "none" THEN Indexed(Records) ELSE unwritten[p]

\* resetCoverage is the first partition's, and that of the one the API names.
Resets(k, p) == IF p = 0 THEN {TRUE} ELSE IF k = "organization" THEN BOOLEAN ELSE {FALSE}

ReadStartedAt(j) ==
  /\ run[j].pc = "startedAt"
  /\ \E reset \in Resets(run[j].kind, run[j].partition):
       RunStep(j, [(IF ~reset THEN Walking(j)
                    ELSE Goto(j, IF run[j].force THEN "reset" ELSE "resetCoverage")) EXCEPT
                     !.old = OldRows(run[j].partition)], {})
  /\ UNCHANGED <<base, index, changes, req, jobVars, coverage, task, due, outdated>>

\* force empties the index, the rows of every partition.
PurgeBeforeForce(j) ==
  /\ run[j].pc = "reset"
  /\ index' = [r \in Records |-> 0]
  /\ Settle(Records, ActiveIn(Records \ InPartition(run[j].partition)))
  /\ run' = [i \in Jobs |-> IF i = j THEN [Goto(j, "resetCoverage") EXCEPT !.emptied = TRUE]
                            ELSE Beside(i, FALSE, SameScope(i, run[j]))]
  /\ UNCHANGED <<base, changes, req, jobVars, coverage, task, due>>

\* An error of the delete is logged, and the run goes on.
PurgeFails(j) ==
  /\ run[j].pc = "reset" /\ Crashes
  /\ RunStep(j, Goto(j, "resetCoverage"), {})
  /\ UNCHANGED <<base, index, changes, req, jobVars, coverage, task, due, outdated>>

\* Without force at most every COVERAGE_REFRESH_THROTTLE_MS.
ResetCoverage(j) ==
  /\ run[j].pc = "resetCoverage"
  /\ \/ run[j].scoped /\ coverage' = [base |-> run[j].total, index |-> 0]
     \/ ~(run[j].scoped /\ run[j].force) /\ UNCHANGED coverage
  /\ RunStep(j, Walking(j), {})
  /\ UNCHANGED <<base, index, changes, req, jobVars, task, due, outdated>>

\* The next rows by id.
Rest(j) == {r \in ActiveIn(InPartition(run[j].partition)) : r > run[j].last}

NextBatch(j) ==
  {r \in Rest(j) : Cardinality({s \in Rest(j) : s < r}) < BatchSize}

ReadBatch(j) ==
  /\ run[j].pc = "read" /\ Cov!Ready(j)
  /\ RunStep(j, IF Rest(j) = {} THEN Goto(j, "purge")
                ELSE [Goto(j, "write") EXCEPT
                        !.batch = [r \in NextBatch(j) |-> base[r].version]], {})
  /\ UNCHANGED <<base, index, changes, req, jobVars, coverage, task, due, outdated>>

\* upsertIndexBatch, then the coverage adjustment.
WriteBatch(j) ==
  /\ run[j].pc = "write"
  /\ LET batch == run[j].batch
         S == DOMAIN batch IN
       /\ index' = [r \in Records |-> IF r \in S THEN batch[r] ELSE index[r]]
       /\ Settle(S, {r \in S : batch[r] # base[r].version})
       /\ Cov!Begin(j, Cov!AdjustTask(0, Cardinality(S)))
       /\ RunStep(j, Goto(j, "progress"), S) /\ RowsTouched(S)
  /\ UNCHANGED <<base, changes, req, rows, coverage, due>>

\* updateJobProgress: the heartbeat, which nothing here reads.
Progress(j) ==
  /\ run[j].pc = "progress" /\ Cov!Ready(j)
  /\ \E r \in DOMAIN run[j].batch:
       /\ \A s \in DOMAIN run[j].batch: s <= r
       /\ RunStep(j, [Goto(j, "read") EXCEPT !.last = r, !.batch = NoBatch], {})
  /\ UNCHANGED <<base, index, changes, req, jobVars, coverage, task, due, outdated>>

\* purgeOrphans: rows of the partition not updated since started_at; then the
\* coverage of the run's scopes.
Orphans(j) == run[j].old \cap InPartition(run[j].partition)

Purge(j) ==
  /\ run[j].pc = "purge"
  /\ index' = [r \in Records |-> IF r \in Orphans(j) THEN 0 ELSE index[r]]
  /\ Settle({r \in Orphans(j) : ~Active(r)}, {})
  /\ Cov!Begin(j, IF run[j].scoped THEN Cov!RefreshTask ELSE Cov!Free)
  /\ RunStep(j, Closing(j), {})
  /\ UNCHANGED <<base, changes, req, jobVars, coverage, due>>

CloseJob(j) ==
  /\ run[j].pc = "finalize" /\ Cov!Ready(j)
  /\ rows' = FinalizeJob(rows, ScopeOf(run[j]))
  /\ RunStep(j, Done(run[j].kind, run[j].partition), {})
  /\ UNCHANGED <<base, index, changes, req, unwritten, coverage, task, due, outdated>>

\* Records a run has emptied and not reached yet.
ToCome(j) ==
  IF run[j].pc \in {"resetCoverage", "read", "write", "progress"} /\ run[j].emptied
  THEN {r \in InPartition(run[j].partition) :
          r > run[j].last /\ ~(run[j].pc = "progress" /\ r \in DOMAIN run[j].batch)}
  ELSE {}

\* An error in the walk, the purge or the refresh of the coverage: finally
\* closes the job row.
FailRun(j) ==
  /\ Crashes
  /\ \/ run[j].pc \in {"read", "write", "progress", "purge"}
     \/ run[j].pc = "finalize" /\ ~Cov!Ready(j)
  /\ Cov!CoverageKill(j)
  /\ outdated' = outdated \cup {r \in ToCome(j) : ~InSync(r)}
  /\ RunStep(j, Failing(j), {})
  /\ UNCHANGED <<base, index, changes, req, jobVars, due>>

---------------------------------------------------------------------------
(* Runs that are given up; a process is killed.                            *)

Pending(q, r) ==
  req[q].pc \in {"find", "build", "put", "findDeleted", "remove"} /\ req[q].record = r

KillRequest(q) ==
  /\ Crashes
  /\ req[q] # Waiting \/ ~Cov!Ready(q)
  /\ outdated' = outdated \cup {r \in Records : Pending(q, r) /\ ~InSync(r)}
  /\ Cov!CoverageKill(q)
  /\ req' = [req EXCEPT ![q] = Waiting]
  /\ UNCHANGED <<base, index, changes, run, jobVars, due>>

\* The run is given up and its job row stays as it is: its process is killed, or
\* an error is thrown where no finally closes the row, between prepareJob and
\* the loop or by finalizeJob.  Before prepareJob there is nothing to close.
StopRun(j) ==
  /\ Crashes /\ Running(j)
  /\ outdated' = outdated \cup {r \in ToCome(j) : ~InSync(r)}
  /\ Cov!CoverageKill(j)
  /\ run' = [run EXCEPT ![j] = IF @.pc = "prepare" THEN Done(@.kind, @.partition)
                               ELSE Left(@.kind, @.partition)]
  /\ UNCHANGED <<base, index, changes, req, jobVars, due>>

RequestNext(q) ==
  \/ \E r \in Records: SaveRecord(q, r) \/ DeleteRecord(q, r)
  \/ FindRow(q) \/ BuildDoc(q) \/ PutRow(q)
  \/ FindDeletedRow(q) \/ RemoveRow(q) \/ NotifyCoverage(q)
  \/ KillRequest(q)

RunNext(j) ==
  \/ OpenJob(j) \/ ReadStartedAt(j) \/ PurgeBeforeForce(j) \/ PurgeFails(j)
  \/ ResetCoverage(j) \/ ReadBatch(j) \/ WriteBatch(j) \/ Progress(j) \/ Purge(j) \/ CloseJob(j)
  \/ CoverageStatement(j)

Next ==
  \/ \E q \in Requests: RequestNext(q)
  \/ \E p \in Requests \cup {Timer}: CoverageStatement(p)
  \/ RefreshCoverage
  \/ \E j \in Jobs:
       \/ \E use \in Uses, p \in Partitions:
            RefuseRun(j, use[1], p, use[2]) \/ StartRun(j, use[1], p, use[2])
       \/ RunNext(j) \/ FailRun(j) \/ StopRun(j)

Spec == Init /\ [][Next]_vars

---------------------------------------------------------------------------
(* Properties                                                              *)

(* A record's document is what the base table holds, unless its event is   *)
(* under way, a forced run has emptied the index and will come to it, or   *)
(* it was last written from a row that had changed since it was read       *)
(* (indexer.ts, reindexer.ts, stale.ts).                                   *)
RecordsIndexed ==
  \A r \in Records:
    \/ InSync(r) \/ r \in outdated
    \/ \E q \in Requests: Pending(q, r)
    \/ \E j \in Jobs: r \in ToCome(j)

(* Whatever races and kills have left in the index, a run with no change   *)
(* of the table and no other indexing of its partition beside it leaves    *)
(* the partition as the table is.  The exception is what the code leaves:  *)
(* a run of an organization purges by started_at of the tenant-wide job    *)
(* row, when there is one, and keeps what was written after it             *)
(* (reindexEntity, purgeOrphans).                                          *)
KeptOrphan(j, r) ==
  /\ run[j].kind = "organization"
  /\ rows[TenantWide(run[j].partition)] # "none"
  /\ ~Active(r) /\ r \notin unwritten[run[j].partition]

ReindexRepairs ==
  \A j \in Jobs:
    (run[j].pc = "finalize" /\ run[j].quiet)
      => \A r \in InPartition(run[j].partition): InSync(r) \/ KeptOrphan(j, r)

(* A run with nothing at all beside it, that keeps the coverage row, leaves *)
(* its counts exact, whatever they were (refreshCoverageSnapshot).          *)
CoverageRepaired ==
  \A j \in Jobs:
    (run[j].pc = "finalize" /\ run[j].alone /\ run[j].scoped /\ Cov!Ready(j))
      => coverage = [base |-> Cardinality(ActiveIn(Records)),
                     index |-> Cardinality(Indexed(Records))]

(* The job row of a scope is open while a run of it goes on, when no other *)
(* run of the scope meddled; and an open row belongs to a run that goes on *)
(* or was given up, killed or failed where no finally closes the row: none *)
(* stays open after a run that ended (prepareJob, finalizeJob).            *)
JobsTracked ==
  /\ \A j \in Jobs:
       run[j].pc \in OpenSteps /\ ~run[j].shared => Unfinished(rows[ScopeOf(run[j])])
  /\ \A s \in JobScopes: Unfinished(rows[s]) =>
       \E j \in Jobs: run[j].pc \in OpenSteps \cup {"left"} /\ ScopeOf(run[j]) = s

(* "ensuring a clean rebuild" (query-index.mdx:68): when forced runs have  *)
(* gone over all partitions, every record is indexed, if nothing failed    *)
(* and nobody changed the table meanwhile (reindexEntity).                 *)
CleanRebuild ==
  (/\ \A j \in Jobs: run[j].pc = "done"
   /\ {run[j].partition : j \in Jobs} = Partitions
   /\ \A q \in Requests: req[q] = Waiting)
    => \A r \in Records: InSync(r)

=============================================================================
