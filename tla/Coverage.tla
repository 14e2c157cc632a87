------------------------------ MODULE Coverage ------------------------------
(***************************************************************************)
(* The coverage row of one entity type and scope                           *)
(* (query_index/lib/coverage.ts): how many records the base table has and  *)
(* how many the index has.  Adjustments read the row and write it back;    *)
(* a refresh counts the two tables one after the other and writes the      *)
(* counts.  Several processes do so at once.                               *)
(***************************************************************************)
EXTENDS Integers

CONSTANT Processes   \* whoever adjusts or refreshes the row

VARIABLES
  coverage,    \* the row's base_count and indexed_count
  task,        \* what each process is in the middle of
  baseCount,   \* active rows of the base table
  indexCount   \* rows of the index

coverageVars == <<coverage, task>>

Free == [step |-> "free"]

Counts == [base: Nat, index: Nat]

CoverageTypeOK ==
  /\ coverage \in Counts
  /\ task \in [Processes ->
       {Free} \cup [step: {"read"}, base: Int, index: Int]
              \cup [step: {"write"}, row: Counts]
              \cup [step: {"countBase"}]
              \cup [step: {"countIndex"}, base: Nat]]

CoverageInit ==
  /\ coverage = [base |-> baseCount, index |-> indexCount]
  /\ task = [p \in Processes |-> Free]

\* Deltas are added without a floor.
AtLeastZero_NoFloor(n) == n

AtLeastZero(n) == IF n < 0 THEN 0 ELSE n

Ready(p) == task[p] = Free

\* createCoverageAdjustments: nothing to do when no delta is left.
AdjustTask(base, index) ==
  IF base = 0 /\ index = 0 THEN Free ELSE [step |-> "read", base |-> base, index |-> index]

\* The counts of the adjustments are trusted.
RefreshTask_Skipped == Free

RefreshTask == [step |-> "countBase"]

Begin(p, t) == task' = [task EXCEPT ![p] = t]

\* applyCoverageAdjustments: fetchCoverageRow, then upsertCoverageRow.
ReadCoverage(p) ==
  /\ task[p].step = "read"
  /\ Begin(p, [step |-> "write",
               row |-> [base |-> AtLeastZero(coverage.base + task[p].base),
                        index |-> AtLeastZero(coverage.index + task[p].index)]])
  /\ UNCHANGED coverage

WriteCoverage(p) ==
  /\ task[p].step = "write"
  /\ coverage' = task[p].row
  /\ Begin(p, Free)

\* refreshCoverageSnapshot: two counts, then writeCoverageCounts.
CountBase(p) ==
  /\ task[p].step = "countBase"
  /\ Begin(p, [step |-> "countIndex", base |-> baseCount])
  /\ UNCHANGED coverage

CountIndex(p) ==
  /\ task[p].step = "countIndex"
  /\ Begin(p, [step |-> "write", row |-> [base |-> task[p].base, index |-> indexCount]])
  /\ UNCHANGED coverage

CoverageStep(p) == ReadCoverage(p) \/ WriteCoverage(p) \/ CountBase(p) \/ CountIndex(p)

CoverageKill(p) == Begin(p, Free) /\ UNCHANGED coverage

=============================================================================
