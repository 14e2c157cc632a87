-------------------------- MODULE QueryIndexProofs --------------------------
(***************************************************************************)
(* The query index, for any number of records, partitions, requests, runs  *)
(* and changes: no document is left wrong but by the races and kills       *)
(* QueryIndex names, a run with nothing beside it repairs what they left,  *)
(* and job rows say which runs go on.                                      *)
(***************************************************************************)
EXTENDS QueryIndex, FiniteSetTheorems, TLAPS

---------------------------------------------------------------------------
(* The inductive invariant.                                                *)

\* Versions are numbers of changes that were made; an active row has one.
VersionsMade ==
  \A r \in Records:
    /\ base[r].version <= changes /\ index[r] <= changes
    /\ Active(r) => base[r].version # 0

\* What a request knows of its record.  A record deleted stays deleted.
Saving(q) == req[q].pc \in {"find", "build", "put"}

RequestsKnow ==
  \A q \in Requests:
    LET r == req[q].record IN
      /\ Saving(q) => req[q].change <= changes
      /\ Saving(q) /\ base[r].version = req[q].change => Active(r)
      /\ req[q].pc = "put" => req[q].doc.version <= changes
      /\ req[q].pc = "put" /\ base[r].version = req[q].change => req[q].doc = base[r]
      /\ req[q].pc \in {"findDeleted", "remove"} => base[r].state = "deleted"
      /\ req[q].pc = "remove" /\ ~req[q].wasActive => index[r] = 0 \/ r \in outdated

\* What a run knows of its walk.
RunsKnow ==
  \A j \in Jobs:
    /\ run[j].pc \in {"prepare", "startedAt", "reset", "resetCoverage"} => run[j].last = 0
    /\ run[j].pc \in {"write", "progress"} =>
         DOMAIN run[j].batch \subseteq InPartition(run[j].partition)
    /\ run[j].pc = "write" =>
         \A r \in DOMAIN run[j].batch:
           /\ run[j].batch[r] <= changes
           /\ run[j].batch[r] = base[r].version => Active(r)

\* Rows the walk of a run has gone past without, or after, writing them.
Passed(j, r) ==
  /\ run[j].pc \in {"read", "write", "progress", "purge"}
  /\ r \in InPartition(run[j].partition)
  /\ \/ run[j].pc = "purge"
     \/ r <= run[j].last
     \/ /\ run[j].pc \in {"write", "progress"}
        /\ \E s \in DOMAIN run[j].batch: r <= s
        /\ run[j].pc = "write" => r \notin DOMAIN run[j].batch

\* An active row that a run would purge has changed since the walk passed it.
OldAreWrong ==
  \A j \in Jobs, r \in Records:
    Passed(j, r) /\ Active(r) /\ r \in run[j].old => ~InSync(r)

\* A record that a forced run has emptied is still before its walk.
Covered(j, r) == r \in ToCome(j) /\ ~Passed(j, r) /\ Active(r) /\ index[r] = 0

WrongAreKnown ==
  \A r \in Records:
    \/ InSync(r) \/ r \in outdated
    \/ \E q \in Requests: Pending(q, r)
    \/ \E j \in Jobs: Covered(j, r)

\* Steps of a run that has read started_at.
WalkSteps == {"reset", "resetCoverage", "read", "write", "progress", "purge"}

\* What a run that nobody disturbs has done so far.
QuietWalks ==
  \A j \in Jobs:
    Running(j) /\ run[j].quiet =>
      \A r \in InPartition(run[j].partition):
        /\ run[j].pc = "startedAt" /\ run[j].kind = "tenant" /\ index[r] # 0
             => r \in unwritten[run[j].partition]
        /\ run[j].pc \in WalkSteps /\ ~Active(r) /\ index[r] # 0
             => r \in run[j].old \/ KeptOrphan(j, r)
        /\ Passed(j, r) /\ Active(r) => InSync(r)
        /\ run[j].pc = "write" /\ r \in DOMAIN run[j].batch => run[j].batch[r] = base[r].version
        /\ run[j].pc = "finalize" => InSync(r) \/ KeptOrphan(j, r)

\* The refresh at the end of a run that is alone.
Exact == [base |-> Cardinality(ActiveIn(Records)), index |-> Cardinality(Indexed(Records))]

AloneRefresh ==
  \A j \in Jobs:
    run[j].pc = "finalize" /\ run[j].alone /\ run[j].scoped =>
      \/ task[j] = Cov!RefreshTask
      \/ task[j] = [step |-> "countIndex", base |-> Exact.base]
      \/ task[j] = [step |-> "write", row |-> Exact]
      \/ task[j] = Cov!Free /\ coverage = Exact

IInv ==
  /\ TypeOK
  /\ VersionsMade
  /\ RequestsKnow
  /\ RunsKnow
  /\ OldAreWrong
  /\ WrongAreKnown
  /\ QuietWalks
  /\ AloneRefresh
  /\ JobsTracked

---------------------------------------------------------------------------
(* The record of a run after a step, its own or of another process.        *)

\* One field at a time, a run stays a run.
LEMMA SetField ==
  ASSUME NEW r \in Runs
  PROVE  /\ \A pc \in RunSteps: [r EXCEPT !.pc = pc] \in Runs
         /\ \A n \in 0..Cardinality(Records): [r EXCEPT !.total = n] \in Runs
         /\ \A n \in Records \cup {0}: [r EXCEPT !.last = n] \in Runs
         /\ \A S \in SUBSET Records: [r EXCEPT !.old = S] \in Runs
         /\ \A f \in UNION {[S -> Versions] : S \in SUBSET Records}:
              [r EXCEPT !.batch = f] \in Runs
<1>1. \A pc \in RunSteps: [r EXCEPT !.pc = pc] \in Runs
  BY SMT DEF Runs
<1>2. \A n \in 0..Cardinality(Records): [r EXCEPT !.total = n] \in Runs
  BY SMT DEF Runs
<1>3. \A n \in Records \cup {0}: [r EXCEPT !.last = n] \in Runs
  BY SMT DEF Runs
<1>4. \A S \in SUBSET Records: [r EXCEPT !.old = S] \in Runs
  BY SMT DEF Runs
<1>5. \A f \in UNION {[S -> Versions] : S \in SUBSET Records}: [r EXCEPT !.batch = f] \in Runs
  BY SMT DEF Runs
<1>6. QED
  BY <1>1, <1>2, <1>3, <1>4, <1>5

LEMMA SetFlag ==
  ASSUME NEW r \in Runs, NEW b \in BOOLEAN
  PROVE  /\ [r EXCEPT !.force = b] \in Runs /\ [r EXCEPT !.scoped = b] \in Runs
         /\ [r EXCEPT !.emptied = b] \in Runs /\ [r EXCEPT !.quiet = b] \in Runs
         /\ [r EXCEPT !.alone = b] \in Runs /\ [r EXCEPT !.shared = b] \in Runs
BY SMT DEF Runs

\* Somebody takes a step beside the run.
LEMMA SetHistory ==
  ASSUME NEW r \in Runs, NEW quiet \in BOOLEAN, NEW shared \in BOOLEAN,
         NEW s, s = Disturbed(r, quiet, shared)
  PROVE  /\ s \in Runs /\ s.pc = r.pc /\ s.partition = r.partition /\ s.kind = r.kind
         /\ s.emptied = r.emptied /\ s.scoped = r.scoped
         /\ s.last = r.last /\ s.batch = r.batch /\ s.old = r.old
         /\ ~s.alone
         /\ s.quiet => r.quiet /\ quiet
         /\ ~s.shared => ~r.shared /\ ~shared
<1>1. PICK a \in BOOLEAN: a = FALSE
  OBVIOUS
<1>2. PICK q \in BOOLEAN: q = (r.quiet /\ quiet)
  OBVIOUS
<1>3. PICK h \in BOOLEAN: h = (r.shared \/ shared)
  OBVIOUS
<1>4. [r EXCEPT !.alone = a, !.quiet = q, !.shared = h] \in Runs
  <2>1. PICK x \in Runs: x = [r EXCEPT !.alone = a]
    BY SetFlag
  <2>2. PICK y \in Runs: y = [x EXCEPT !.quiet = q]
    BY SetFlag
  <2>3. PICK z \in Runs: z = [y EXCEPT !.shared = h]
    BY SetFlag
  <2>4. QED
    BY <2>1, <2>2, <2>3
<1>5. s \in Runs
  BY <1>1, <1>2, <1>3, <1>4 DEF Disturbed
<1>6. /\ s.pc = r.pc /\ s.partition = r.partition /\ s.kind = r.kind
      /\ s.emptied = r.emptied /\ s.scoped = r.scoped
      /\ s.last = r.last /\ s.batch = r.batch /\ s.old = r.old
  BY SMT DEF Runs, Disturbed
<1>7. ~s.alone /\ (s.quiet => r.quiet /\ quiet) /\ (~s.shared => ~r.shared /\ ~shared)
  BY SMT DEF Runs, Disturbed
<1>8. QED
  BY <1>5, <1>6, <1>7

\* What a step beside run i leaves of it.
Others(i, quiet, shared, old) ==
  /\ ~Running(i) => run'[i] = run[i]
  /\ Running(i) =>
       /\ run'[i] \in Runs /\ run'[i].pc = run[i].pc
       /\ run'[i].partition = run[i].partition /\ run'[i].kind = run[i].kind
       /\ run'[i].emptied = run[i].emptied /\ run'[i].scoped = run[i].scoped
       /\ run'[i].last = run[i].last /\ run'[i].batch = run[i].batch
       /\ run'[i].old = old
       /\ ~run'[i].alone
       /\ run'[i].quiet => run[i].quiet /\ quiet
       /\ ~run'[i].shared => ~run[i].shared /\ ~shared

\* The record of a run, by its step.
LEMMA RunShape ==
  ASSUME TypeOK, NEW i \in Jobs
  PROVE  /\ run[i] \in {NotStarted} \cup Ended \cup Runs
         /\ Running(i) <=> run[i] \in Runs
         /\ run[i] = NotStarted => run[i].pc = "idle"
         /\ run[i].pc \in {"done", "left"} => run[i] \in Ended
<1>1. run[i] \in {NotStarted} \cup Ended \cup Runs
  BY DEF TypeOK
<1>2. \A r \in Runs: r.pc \in RunSteps
  BY DEF Runs
<1>3. \A r \in Ended: r.pc \in {"done", "left"}
  BY DEF Ended
<1>4. NotStarted.pc = "idle"
  BY DEF NotStarted
<1>5. QED
  BY <1>1, <1>2, <1>3, <1>4 DEF Running, RunSteps, OpenSteps

\* Touch and Beside, applied to the run beside.
LEMMA TouchRun ==
  ASSUME NEW r \in Runs, NEW touched, NEW s, s = Touch(r, touched)
  PROVE  /\ s \in Runs /\ s.pc = r.pc /\ s.partition = r.partition /\ s.kind = r.kind
         /\ s.emptied = r.emptied /\ s.scoped = r.scoped
         /\ s.last = r.last /\ s.batch = r.batch /\ s.old = r.old \ touched
         /\ s.quiet <=> r.quiet
         /\ s.alone <=> r.alone
         /\ s.shared <=> r.shared
<1>1. r.pc \in RunSteps /\ r.old \in SUBSET Records
  BY DEF Runs
<1>2. s = [r EXCEPT !.old = r.old \ touched]
  BY <1>1 DEF Touch, Older
<1>3. s \in Runs
  BY <1>1, <1>2, SetField
<1>4. /\ s.pc = r.pc /\ s.partition = r.partition /\ s.kind = r.kind
      /\ s.emptied = r.emptied /\ s.scoped = r.scoped
      /\ s.last = r.last /\ s.batch = r.batch /\ s.old = r.old \ touched
  BY <1>2, SMT DEF Runs
<1>5. (s.quiet <=> r.quiet) /\ (s.alone <=> r.alone) /\ (s.shared <=> r.shared)
  BY <1>2, SMT DEF Runs
<1>6. QED
  BY <1>3, <1>4, <1>5

LEMMA BesideRun ==
  ASSUME TypeOK, NEW i \in Jobs, Running(i), NEW quiet \in BOOLEAN, NEW shared \in BOOLEAN,
         NEW s, s = Beside(i, quiet, shared)
  PROVE  /\ s \in Runs /\ s.pc = run[i].pc /\ s.partition = run[i].partition
         /\ s.kind = run[i].kind /\ s.emptied = run[i].emptied /\ s.scoped = run[i].scoped
         /\ s.last = run[i].last /\ s.batch = run[i].batch
         /\ s.old = run[i].old
         /\ ~s.alone
         /\ s.quiet => run[i].quiet /\ quiet
         /\ ~s.shared => ~run[i].shared /\ ~shared
BY RunShape, SetHistory DEF Beside

LEMMA BesideTouched ==
  ASSUME TypeOK, NEW i \in Jobs, NEW quiet \in BOOLEAN, NEW shared \in BOOLEAN, NEW touched,
         NEW s, s = Beside(i, quiet, shared), run'[i] = Touch(s, touched)
  PROVE  Others(i, quiet, shared, run[i].old \ touched)
<1>1. CASE ~Running(i)
  BY <1>1 DEF Others, Beside, Touch, Running
<1>2. CASE Running(i)
  BY <1>2, BesideRun, TouchRun DEF Others
<1>3. QED
  BY <1>1, <1>2

LEMMA BesideOnly ==
  ASSUME TypeOK, NEW i \in Jobs, NEW quiet \in BOOLEAN, NEW shared \in BOOLEAN,
         NEW s, s = Beside(i, quiet, shared), run'[i] = s
  PROVE  Others(i, quiet, shared, run[i].old)
<1>1. CASE ~Running(i)
  BY <1>1 DEF Others, Beside
<1>2. CASE Running(i)
  BY <1>2, BesideRun DEF Others
<1>3. QED
  BY <1>1, <1>2

\* What stays of a run on its own steps.
SameRun(r, s) ==
  /\ s.partition = r.partition /\ s.kind = r.kind /\ s.emptied = r.emptied
  /\ s.quiet <=> r.quiet
  /\ s.alone <=> r.alone
  /\ s.shared <=> r.shared

LEMMA GotoRun ==
  ASSUME TypeOK, NEW j \in Jobs, Running(j), NEW pc \in RunSteps, NEW s, s = Goto(j, pc)
  PROVE  /\ s \in Runs /\ s.pc = pc /\ SameRun(run[j], s)
         /\ s.last = run[j].last /\ s.batch = run[j].batch /\ s.old = run[j].old
<1>1. run[j] \in Runs
  BY RunShape
<1>2. s \in Runs
  BY <1>1, SetField DEF Goto
<1>3. s.pc = pc /\ s.last = run[j].last /\ s.batch = run[j].batch /\ s.old = run[j].old
  BY <1>1, SMT DEF Goto, Runs
<1>4. SameRun(run[j], s)
  BY <1>1, SMT DEF Goto, Runs, SameRun
<1>5. QED
  BY <1>2, <1>3, <1>4

\* The job row is opened.
Opened(j, n, b) == [Goto(j, "startedAt") EXCEPT !.total = n, !.scoped = b]

LEMMA OpenRun ==
  ASSUME TypeOK, NEW j \in Jobs, Running(j),
         NEW n \in 0..Cardinality(Records), NEW b \in BOOLEAN,
         NEW s, s = Opened(j, n, b)
  PROVE  /\ s \in Runs /\ s.pc = "startedAt" /\ SameRun(run[j], s)
         /\ s.last = run[j].last
<1>1. PICK g \in Runs: /\ g = Goto(j, "startedAt") /\ g.pc = "startedAt"
                       /\ SameRun(run[j], g) /\ g.last = run[j].last
  BY GotoRun DEF RunSteps, OpenSteps
<1>2. PICK x \in Runs: x = [g EXCEPT !.total = n]
  BY SetField
<1>3. PICK y \in Runs: y = [x EXCEPT !.scoped = b]
  BY SetFlag
<1>4. s = y
  BY <1>1, <1>2, <1>3 DEF Opened
<1>5. y.pc = g.pc /\ y.last = g.last
  BY <1>2, <1>3, SMT DEF Runs
<1>6. SameRun(g, y)
  BY <1>2, <1>3, SMT DEF Runs, SameRun
<1>7. QED
  BY <1>1, <1>4, <1>5, <1>6 DEF SameRun

\* The walk begins.
LEMMA ReadRun ==
  ASSUME TypeOK, NEW j \in Jobs, Running(j), NEW s, s = Walking(j)
  PROVE  /\ s \in Runs /\ s.pc = "read" /\ SameRun(run[j], s)
         /\ s.last = run[j].last /\ s.old = run[j].old
<1>1. PICK g \in Runs: /\ g = Goto(j, "read") /\ g.pc = "read" /\ SameRun(run[j], g)
                       /\ g.last = run[j].last /\ g.old = run[j].old
  BY GotoRun DEF RunSteps, OpenSteps
<1>2. 0 \in 0..Cardinality(Records)
  BY RecordsAssumption, FS_CardinalityType
<1>3. PICK f \in BOOLEAN: f = FALSE
  OBVIOUS
<1>4. PICK x \in Runs: x = [g EXCEPT !.force = f]
  BY SetFlag
<1>5. PICK y \in Runs: y = [x EXCEPT !.total = 0]
  BY <1>2, SetField
<1>6. s = y
  BY <1>1, <1>3, <1>4, <1>5 DEF Walking
<1>7. y.pc = g.pc /\ y.last = g.last /\ y.old = g.old
  BY <1>4, <1>5, SMT DEF Runs
<1>8. SameRun(g, y)
  BY <1>4, <1>5, SMT DEF Runs, SameRun
<1>9. QED
  BY <1>1, <1>6, <1>7, <1>8 DEF SameRun

\* It knows the rows it would purge.
LEMMA OldRun ==
  ASSUME NEW g \in Runs, NEW S \in SUBSET Records, NEW s, s = [g EXCEPT !.old = S]
  PROVE  s \in Runs /\ s.pc = g.pc /\ SameRun(g, s) /\ s.last = g.last /\ s.old = S
<1>1. s \in Runs
  BY SetField
<1>2. s.pc = g.pc /\ s.last = g.last /\ s.old = S
  BY SMT DEF Runs
<1>3. SameRun(g, s)
  BY SMT DEF Runs, SameRun
<1>4. QED
  BY <1>1, <1>2, <1>3

\* It has emptied the index.
LEMMA EmptiedRun ==
  ASSUME TypeOK, NEW j \in Jobs, Running(j),
         NEW s, s = [Goto(j, "resetCoverage") EXCEPT !.emptied = TRUE]
  PROVE  /\ s \in Runs /\ s.pc = "resetCoverage" /\ s.emptied
         /\ s.partition = run[j].partition /\ s.kind = run[j].kind
         /\ s.last = run[j].last /\ s.old = run[j].old
         /\ s.quiet <=> run[j].quiet
         /\ s.alone <=> run[j].alone
         /\ s.shared <=> run[j].shared
<1>1. PICK g \in Runs: /\ g = Goto(j, "resetCoverage") /\ g.pc = "resetCoverage"
                       /\ SameRun(run[j], g) /\ g.last = run[j].last /\ g.old = run[j].old
  BY GotoRun DEF RunSteps, OpenSteps
<1>2. PICK b \in BOOLEAN: b = TRUE
  OBVIOUS
<1>3. PICK x \in Runs: x = [g EXCEPT !.emptied = b]
  BY SetFlag
<1>4. s = x
  BY <1>1, <1>2, <1>3
<1>5. /\ x.pc = g.pc /\ x.partition = g.partition /\ x.kind = g.kind
      /\ x.last = g.last /\ x.old = g.old
  BY <1>3, SMT DEF Runs
<1>6. x.emptied /\ (x.quiet <=> g.quiet) /\ (x.alone <=> g.alone) /\ (x.shared <=> g.shared)
  BY <1>2, <1>3, SMT DEF Runs
<1>7. QED
  BY <1>1, <1>4, <1>5, <1>6 DEF SameRun

\* A batch is read.
Fetched(j, f) == [Goto(j, "write") EXCEPT !.batch = f]

LEMMA BatchRun ==
  ASSUME TypeOK, NEW j \in Jobs, Running(j), NEW S \in SUBSET Records, NEW f \in [S -> Versions],
         NEW s, s = Fetched(j, f)
  PROVE  /\ s \in Runs /\ s.pc = "write" /\ SameRun(run[j], s)
         /\ s.last = run[j].last /\ s.old = run[j].old /\ s.batch = f
<1>1. PICK g \in Runs: /\ g = Goto(j, "write") /\ g.pc = "write" /\ SameRun(run[j], g)
                       /\ g.last = run[j].last /\ g.old = run[j].old
  BY GotoRun DEF RunSteps, OpenSteps
<1>2. PICK x \in Runs: x = [g EXCEPT !.batch = f]
  BY SetField
<1>3. x.pc = g.pc /\ x.last = g.last /\ x.old = g.old /\ x.batch = f
  BY <1>2, SMT DEF Runs
<1>4. SameRun(g, x)
  BY <1>2, SMT DEF Runs, SameRun
<1>5. QED
  BY <1>1, <1>2, <1>3, <1>4 DEF SameRun, Fetched

\* A batch is done.
Past(j, n) == [Goto(j, "read") EXCEPT !.last = n, !.batch = NoBatch]

LEMMA PastRun ==
  ASSUME TypeOK, NEW j \in Jobs, Running(j), NEW n \in Records,
         NEW s, s = Past(j, n)
  PROVE  /\ s \in Runs /\ s.pc = "read" /\ SameRun(run[j], s)
         /\ s.last = n /\ s.old = run[j].old
<1>1. PICK g \in Runs: /\ g = Goto(j, "read") /\ g.pc = "read" /\ SameRun(run[j], g)
                       /\ g.old = run[j].old
  BY GotoRun DEF RunSteps, OpenSteps
<1>2. NoBatch \in UNION {[S -> Versions] : S \in SUBSET Records}
  BY DEF NoBatch
<1>3. PICK x \in Runs: x = [g EXCEPT !.last = n]
  BY SetField
<1>4. PICK y \in Runs: y = [x EXCEPT !.batch = NoBatch]
  BY <1>2, SetField
<1>5. s = y
  BY <1>1, <1>3, <1>4 DEF Past
<1>6. y.pc = g.pc /\ y.last = n /\ y.old = g.old
  BY <1>3, <1>4, SMT DEF Runs
<1>7. SameRun(g, y)
  BY <1>3, <1>4, SMT DEF Runs, SameRun
<1>8. QED
  BY <1>1, <1>5, <1>6, <1>7 DEF SameRun

\* The walk is over, as it should be or with an error.
SameScopeOf(r, s) == s.partition = r.partition /\ s.kind = r.kind /\ s.scoped = r.scoped

LEMMA ClosingRun ==
  ASSUME TypeOK, NEW j \in Jobs, Running(j), NEW s, s = Closing(j)
  PROVE  /\ s \in Runs /\ s.pc = "finalize" /\ SameScopeOf(run[j], s) /\ s.old = {}
         /\ s.quiet <=> run[j].quiet
         /\ s.alone <=> run[j].alone
         /\ s.shared <=> run[j].shared
<1>1. PICK g \in Runs: /\ g = Goto(j, "finalize") /\ g.pc = "finalize" /\ SameRun(run[j], g)
                       /\ g.scoped = run[j].scoped
  <2>1. run[j] \in Runs
    BY RunShape
  <2>2. \A g: g = Goto(j, "finalize") => g.scoped = run[j].scoped
    BY <2>1, SMT DEF Goto, Runs
  <2>3. QED
    BY <2>2, GotoRun DEF RunSteps, OpenSteps
<1>2. NoBatch \in UNION {[S -> Versions] : S \in SUBSET Records}
  BY DEF NoBatch
<1>3. PICK f \in BOOLEAN: f = FALSE
  OBVIOUS
<1>4. PICK w \in Runs: w = [g EXCEPT !.emptied = f]
  BY SetFlag
<1>5. PICK x \in Runs: x = [w EXCEPT !.last = 0]
  BY SetField
<1>6. PICK y \in Runs: y = [x EXCEPT !.batch = NoBatch]
  BY <1>2, SetField
<1>7. PICK z \in Runs: z = [y EXCEPT !.old = {}]
  BY SetField
<1>8. s = z
  BY <1>1, <1>3, <1>4, <1>5, <1>6, <1>7 DEF Closing
<1>9. z.pc = g.pc /\ SameScopeOf(g, z) /\ z.old = {}
  BY <1>4, <1>5, <1>6, <1>7, SMT DEF Runs, SameScopeOf
<1>10. (z.quiet <=> g.quiet) /\ (z.alone <=> g.alone) /\ (z.shared <=> g.shared)
  BY <1>4, <1>5, <1>6, <1>7, SMT DEF Runs
<1>11. QED
  BY <1>1, <1>8, <1>9, <1>10 DEF SameRun, SameScopeOf

LEMMA FailingRun ==
  ASSUME TypeOK, NEW j \in Jobs, Running(j), NEW s, s = Failing(j)
  PROVE  /\ s \in Runs /\ s.pc = "finalize" /\ SameScopeOf(run[j], s) /\ s.old = {}
         /\ ~s.quiet /\ ~s.alone
         /\ s.shared <=> run[j].shared
<1>1. PICK g \in Runs: /\ g = Closing(j) /\ g.pc = "finalize"
                       /\ SameScopeOf(run[j], g) /\ g.old = {}
                       /\ g.shared <=> run[j].shared
  BY ClosingRun
<1>2. PICK f \in BOOLEAN: f = FALSE
  OBVIOUS
<1>3. PICK x \in Runs: x = [g EXCEPT !.quiet = f]
  BY SetFlag
<1>4. PICK y \in Runs: y = [x EXCEPT !.alone = f]
  BY SetFlag
<1>5. s = y
  BY <1>1, <1>2, <1>3, <1>4 DEF Failing
<1>6. y.pc = g.pc /\ SameScopeOf(g, y) /\ y.old = g.old
  BY <1>3, <1>4, SMT DEF Runs, SameScopeOf
<1>7. ~y.quiet /\ ~y.alone /\ (y.shared <=> g.shared)
  BY <1>2, <1>3, <1>4, SMT DEF Runs
<1>8. QED
  BY <1>1, <1>5, <1>6, <1>7 DEF SameScopeOf

---------------------------------------------------------------------------
(* What an action leaves of the runs that do not take it.                  *)

RunRecords == {NotStarted} \cup Ended \cup Runs

KeptRun(i) ==
  /\ run'[i].pc = run[i].pc
  /\ ~Running(i) => run'[i] = run[i]
  /\ Running(i) =>
       /\ run'[i] \in Runs
       /\ run'[i].partition = run[i].partition /\ run'[i].kind = run[i].kind
       /\ run'[i].emptied = run[i].emptied /\ run'[i].scoped = run[i].scoped
       /\ run'[i].last = run[i].last /\ run'[i].batch = run[i].batch
       /\ run'[i].old \subseteq run[i].old
       /\ run'[i].quiet => run[i].quiet
       /\ run'[i].alone => run[i].alone
       /\ ~run'[i].shared => ~run[i].shared

LEMMA OthersAreKept ==
  ASSUME NEW i, NEW quiet, NEW shared, NEW touched,
         Others(i, quiet, shared, run[i].old \ touched)
  PROVE  KeptRun(i)
BY DEF Others, KeptRun

LEMMA SameIsKept ==
  ASSUME TypeOK, NEW i \in Jobs, run'[i] = run[i]
  PROVE  KeptRun(i) /\ run'[i] \in RunRecords
BY RunShape DEF KeptRun, RunRecords

LEMMA KeptType ==
  ASSUME TypeOK, NEW i \in Jobs, KeptRun(i)
  PROVE  run'[i] \in RunRecords
BY RunShape DEF KeptRun, RunRecords

LEMMA RequestStepKeeps ==
  ASSUME TypeOK, NEW touched, RequestStep(touched)
  PROVE  /\ run' \in [Jobs -> RunRecords]
         /\ \A i \in Jobs: KeptRun(i) /\ Others(i, FALSE, FALSE, run[i].old \ touched)
<1>1. ASSUME NEW i \in Jobs PROVE Others(i, FALSE, FALSE, run[i].old \ touched)
  <2>1. PICK s: s = Beside(i, FALSE, FALSE)
    OBVIOUS
  <2>2. run'[i] = Touch(s, touched)
    BY <2>1 DEF RequestStep
  <2>3. FALSE \in BOOLEAN
    OBVIOUS
  <2>4. QED
    BY <2>1, <2>2, <2>3, BesideTouched
<1>2. \A i \in Jobs: KeptRun(i) /\ run'[i] \in RunRecords
  BY <1>1, OthersAreKept, KeptType
<1>3. QED
  BY <1>1, <1>2 DEF RequestStep

\* Only the flags of the other runs see a refresh or a statement on the coverage.
LEMMA BesideKeeps ==
  ASSUME TypeOK, NEW quiet \in BOOLEAN, NEW shared \in BOOLEAN, NEW i \in Jobs,
         NEW s, s = Beside(i, quiet, shared), run'[i] = s
  PROVE  KeptRun(i) /\ Others(i, quiet, shared, run[i].old)
<1>1. Others(i, quiet, shared, run[i].old \ {})
  BY BesideOnly
<1>2. QED
  BY <1>1, OthersAreKept

LEMMA RunStepKeeps ==
  ASSUME TypeOK, NEW j \in Jobs, NEW next \in RunRecords, NEW touched,
         RunStep(j, next, touched)
  PROVE  /\ run' \in [Jobs -> RunRecords]
         /\ run'[j] = Touch(next, touched)
         /\ \A i \in Jobs \ {j}:
              KeptRun(i) /\ Others(i, ~SamePartition(i, next), SameScope(i, next),
                                   run[i].old \ touched)
<1>1. ASSUME NEW i \in Jobs \ {j}
      PROVE  Others(i, ~SamePartition(i, next), SameScope(i, next), run[i].old \ touched)
  <2>1. PICK x \in BOOLEAN: x = SameScope(i, next)
    BY DEF SameScope
  <2>2. PICK y \in BOOLEAN: y = ~SamePartition(i, next)
    BY DEF SamePartition
  <2>3. PICK s: s = Beside(i, y, x)
    OBVIOUS
  <2>4. run'[i] = Touch(s, touched)
    BY <2>1, <2>2, <2>3 DEF RunStep
  <2>5. Others(i, y, x, run[i].old \ touched)
    BY <2>3, <2>4, BesideTouched
  <2>6. QED
    BY <2>1, <2>2, <2>5
<1>2. \A i \in Jobs \ {j}: KeptRun(i) /\ run'[i] \in RunRecords
  BY <1>1, OthersAreKept, KeptType
<1>3. run'[j] = Touch(next, touched)
  BY DEF RunStep
<1>4. Touch(next, touched) \in RunRecords
  <2>1. CASE next \in Runs
    BY <2>1, TouchRun DEF RunRecords
  <2>2. CASE next \in {NotStarted} \cup Ended
    BY <2>2 DEF Touch, RunRecords, NotStarted, Ended, RunSteps, OpenSteps
  <2>3. QED
    BY <2>1, <2>2 DEF RunRecords
<1>5. QED
  BY <1>1, <1>2, <1>3, <1>4 DEF RunStep

\* A run that touches nothing is what it sets out to be.
LEMMA PlainStep ==
  ASSUME NEW next \in RunRecords, NEW s, s = Touch(next, {})
  PROVE  /\ s.pc = next.pc
         /\ next \notin Runs => s = next
         /\ next \in Runs => /\ s \in Runs /\ SameRun(next, s) /\ s.scoped = next.scoped
                             /\ s.last = next.last /\ s.batch = next.batch /\ s.old = next.old
<1>1. CASE next \in Runs
  <2>1. PICK touched: touched = {}
    OBVIOUS
  <2>2. s = Touch(next, touched)
    BY <2>1
  <2>3. s \in Runs /\ SameRun(next, s) /\ s.pc = next.pc /\ s.scoped = next.scoped
        /\ s.last = next.last /\ s.batch = next.batch /\ s.old = next.old \ touched
    BY <1>1, <2>2, TouchRun DEF SameRun
  <2>4. s.old = next.old
    BY <2>1, <2>3
  <2>5. QED
    BY <1>1, <2>3, <2>4
<1>2. CASE next \notin Runs
  BY <1>2 DEF Touch, RunRecords, NotStarted, Ended, RunSteps, OpenSteps
<1>3. QED
  BY <1>1, <1>2

---------------------------------------------------------------------------
(* Types.                                                                  *)

LEMMA CountType ==
  ASSUME NEW S \in SUBSET Records
  PROVE  Cardinality(S) \in 0..Cardinality(Records)
<1>1. IsFiniteSet(Records) /\ IsFiniteSet(S) /\ Cardinality(S) <= Cardinality(Records)
  BY RecordsAssumption, FS_Subset
<1>2. Cardinality(S) \in Nat /\ Cardinality(Records) \in Nat
  BY <1>1, FS_CardinalityType
<1>3. QED
  BY <1>1, <1>2

LEMMA CountsType ==
  /\ Cardinality(ActiveIn(Records)) \in Nat
  /\ Cardinality(Indexed(Records)) \in Nat
<1>1. ActiveIn(Records) \subseteq Records /\ Indexed(Records) \subseteq Records
  BY DEF ActiveIn, Indexed
<1>2. Cardinality(Records) \in Nat
  BY RecordsAssumption, FS_CardinalityType
<1>3. QED
  BY <1>1, <1>2, CountType

\* The processes that keep the coverage row, and what each may be in the middle of.
Processes == Requests \cup Jobs \cup {Timer}

Tasks ==
  {Cov!Free} \cup [step: {"read"}, base: Int, index: Int]
             \cup [step: {"write"}, row: Cov!Counts]
             \cup [step: {"countBase"}]
             \cup [step: {"countIndex"}, base: Nat]

LEMMA CoverageShape ==
  Cov!CoverageTypeOK <=> coverage \in Cov!Counts /\ task \in [Processes -> Tasks]
BY DEF Cov!CoverageTypeOK, Processes, Tasks

LEMMA Tasked ==
  /\ Cov!Free \in Tasks /\ Cov!RefreshTask \in Tasks
  /\ \A b \in Int, i \in Int: Cov!AdjustTask(b, i) \in Tasks
BY DEF Tasks, Cov!RefreshTask, Cov!AdjustTask

\* A process that begins or drops something leaves the others at theirs.
LEMMA Begins ==
  ASSUME Cov!CoverageTypeOK, NEW p \in Processes, NEW t \in Tasks, Cov!Begin(p, t),
         coverage' \in Cov!Counts
  PROVE  /\ Cov!CoverageTypeOK'
         /\ task'[p] = t
         /\ \A i \in Processes \ {p}: task'[i] = task[i]
<1>1. task \in [Processes -> Tasks]
  BY CoverageShape
<1>2. task' \in [Processes -> Tasks] /\ task'[p] = t
      /\ \A i \in Processes \ {p}: task'[i] = task[i]
  BY <1>1 DEF Cov!Begin
<1>3. Cov!CoverageTypeOK' <=> coverage' \in Cov!Counts /\ task' \in [Processes -> Tasks]
  BY DEF Cov!CoverageTypeOK, Processes, Tasks
<1>4. QED
  BY <1>2, <1>3

LEMMA CoverageStatementType ==
  ASSUME Cov!CoverageTypeOK, NEW p \in Processes, Cov!CoverageStep(p)
  PROVE  Cov!CoverageTypeOK' /\ \A i \in Processes \ {p}: task'[i] = task[i]
<1>1. coverage \in Cov!Counts /\ task[p] \in Tasks
  BY CoverageShape
<1>2. CASE Cov!ReadCoverage(p)
  <2>1. task[p].base \in Int /\ task[p].index \in Int
    BY <1>1, <1>2 DEF Tasks, Cov!ReadCoverage, Cov!Free
  <2>2. PICK row \in Cov!Counts:
           row = [base |-> Cov!AtLeastZero(coverage.base + task[p].base),
                  index |-> Cov!AtLeastZero(coverage.index + task[p].index)]
    <3>1. /\ coverage.base + task[p].base \in Int
          /\ coverage.index + task[p].index \in Int
      BY <1>1, <2>1 DEF Cov!Counts
    <3>2. \A n \in Int: Cov!AtLeastZero(n) \in Nat
      BY DEF Cov!AtLeastZero
    <3>3. QED
      BY <3>1, <3>2 DEF Cov!Counts
  <2>3. [step |-> "write", row |-> row] \in Tasks
    BY <2>2 DEF Tasks
  <2>4. QED
    BY <1>1, <1>2, <2>2, <2>3, Begins DEF Cov!ReadCoverage
<1>3. CASE Cov!WriteCoverage(p)
  <2>1. task[p].row \in Cov!Counts
    BY <1>1, <1>3 DEF Tasks, Cov!WriteCoverage, Cov!Free
  <2>2. QED
    BY <1>3, <2>1, Tasked, Begins DEF Cov!WriteCoverage
<1>4. CASE Cov!CountBase(p)
  <2>1. [step |-> "countIndex", base |-> Cardinality(ActiveIn(Records))] \in Tasks
    BY CountsType DEF Tasks
  <2>2. QED
    BY <1>1, <1>4, <2>1, Begins DEF Cov!CountBase
<1>5. CASE Cov!CountIndex(p)
  <2>1. task[p].base \in Nat
    BY <1>1, <1>5 DEF Tasks, Cov!CountIndex, Cov!Free
  <2>2. PICK row \in Cov!Counts:
           row = [base |-> task[p].base, index |-> Cardinality(Indexed(Records))]
    BY <2>1, CountsType DEF Cov!Counts
  <2>3. [step |-> "write", row |-> row] \in Tasks
    BY <2>2 DEF Tasks
  <2>4. QED
    BY <1>1, <1>5, <2>2, <2>3, Begins DEF Cov!CountIndex
<1>6. QED
  BY <1>2, <1>3, <1>4, <1>5 DEF Cov!CoverageStep

\* Whatever a process does to the coverage row on its way is of these kinds.
LEMMA CoverageOfAdjusting ==
  ASSUME Cov!CoverageTypeOK, NEW p \in Processes, NEW b \in Int, NEW i \in Int,
         Cov!Begin(p, Cov!AdjustTask(b, i)), UNCHANGED coverage
  PROVE  Cov!CoverageTypeOK' /\ \A s \in Processes \ {p}: task'[s] = task[s]
<1>1. PICK t \in Tasks: t = Cov!AdjustTask(b, i)
  BY Tasked
<1>2. coverage' \in Cov!Counts
  BY CoverageShape
<1>3. QED
  BY <1>1, <1>2, Begins

LEMMA CoverageOfRefreshing ==
  ASSUME Cov!CoverageTypeOK, NEW p \in Processes,
         Cov!Begin(p, Cov!RefreshTask), UNCHANGED coverage
  PROVE  /\ Cov!CoverageTypeOK' /\ task'[p] = Cov!RefreshTask
         /\ \A s \in Processes \ {p}: task'[s] = task[s]
<1>1. PICK t \in Tasks: t = Cov!RefreshTask
  BY Tasked
<1>2. coverage' \in Cov!Counts
  BY CoverageShape
<1>3. QED
  BY <1>1, <1>2, Begins

LEMMA CoverageOfKill ==
  ASSUME Cov!CoverageTypeOK, NEW p \in Processes, Cov!CoverageKill(p)
  PROVE  /\ Cov!CoverageTypeOK' /\ task'[p] = Cov!Free /\ UNCHANGED coverage
         /\ \A s \in Processes \ {p}: task'[s] = task[s]
<1>1. PICK t \in Tasks: t = Cov!Free
  BY Tasked
<1>2. coverage' \in Cov!Counts
  BY CoverageShape DEF Cov!CoverageKill
<1>3. QED
  BY <1>1, <1>2, Begins DEF Cov!CoverageKill

LEMMA CoverageStays ==
  ASSUME Cov!CoverageTypeOK, UNCHANGED <<coverage, task>>
  PROVE  Cov!CoverageTypeOK'
BY DEF Cov!CoverageTypeOK, Cov!Counts, Cov!Free

LEMMA InitTypeOK ==
  ASSUME Init
  PROVE  TypeOK
<1>1. base \in [Records -> BaseRows] /\ index \in [Records -> Versions]
  BY ChangesAssumption DEF Init, BaseRows, Versions, AbsentRow
<1>2. changes \in 1..(MaxChanges + 1)
  BY ChangesAssumption DEF Init
<1>3. req \in [Requests -> {Waiting} \cup Saves \cup Deletions]
  BY DEF Init
<1>4. run \in [Jobs -> {NotStarted} \cup Ended \cup Runs]
  BY DEF Init
<1>5. rows \in [JobScopes -> JobRows] /\ unwritten \in [Partitions -> SUBSET Records]
  BY DEF Init, JobRows
<1>6. Cov!CoverageTypeOK
  <2>1. coverage \in Cov!Counts
    BY CountsType DEF Init, Cov!CoverageInit, Cov!Counts
  <2>2. task \in [Processes -> Tasks]
    BY Tasked DEF Init, Cov!CoverageInit, Processes
  <2>3. QED
    BY <2>1, <2>2, CoverageShape
<1>7. due \in BOOLEAN /\ outdated \in SUBSET Records
  BY DEF Init
<1>8. QED
  BY <1>1, <1>2, <1>3, <1>4, <1>5, <1>6, <1>7 DEF TypeOK

---------------------------------------------------------------------------
(* What each action leaves of the runs.                                    *)

\* A step of run j, with the scope of n, that touches index rows.
RunActs(j, n, touched) ==
  /\ run' \in [Jobs -> RunRecords]
  /\ \A i \in Jobs \ {j}:
       /\ KeptRun(i)
       /\ Running(i) =>
            /\ ~run'[i].alone
            /\ run'[i].quiet => ~SamePartition(i, n)
            /\ SameScope(i, n) => run'[i].shared
            /\ run'[i].old = run[i].old \ touched

LEMMA RunStepActs ==
  ASSUME TypeOK, NEW j \in Jobs, NEW next \in RunRecords, NEW touched,
         RunStep(j, next, touched)
  PROVE  RunActs(j, next, touched) /\ run'[j] = Touch(next, touched)
<1>1. /\ run' \in [Jobs -> RunRecords] /\ run'[j] = Touch(next, touched)
      /\ \A i \in Jobs \ {j}:
           KeptRun(i) /\ Others(i, ~SamePartition(i, next), SameScope(i, next),
                                run[i].old \ touched)
  BY RunStepKeeps
<1>2. ASSUME NEW i \in Jobs \ {j}, Running(i)
      PROVE  /\ ~run'[i].alone
             /\ run'[i].quiet => ~SamePartition(i, next)
             /\ SameScope(i, next) => run'[i].shared
             /\ run'[i].old = run[i].old \ touched
  BY <1>1, <1>2, Zenon DEF Others
<1>3. QED
  BY <1>1, <1>2, Zenon DEF RunActs

\* Only the scope counts.
LEMMA ScopeActs ==
  ASSUME NEW j, NEW n, NEW m, NEW touched, RunActs(j, n, touched),
         m.partition = n.partition, m.kind = n.kind
  PROVE  RunActs(j, m, touched)
<1>1. \A i: /\ SamePartition(i, m) <=> SamePartition(i, n)
            /\ SameScope(i, m) <=> SameScope(i, n)
  BY Zenon DEF SamePartition, SameScope, ScopeOf
<1>2. QED
  BY <1>1, Zenon DEF RunActs

LEMMA PlainScopeActs ==
  ASSUME NEW j, NEW n, NEW m, RunActs(j, n, {}), m.partition = n.partition, m.kind = n.kind
  PROVE  RunActs(j, m, {})
<1>1. PICK touched: touched = {}
  OBVIOUS
<1>2. RunActs(j, m, touched)
  BY <1>1, ScopeActs
<1>3. QED
  BY <1>1, <1>2

\* The same when nothing is touched: the run becomes what it sets out to be.
LEMMA PlainRunActs ==
  ASSUME TypeOK, NEW j \in Jobs, NEW next \in RunRecords, RunStep(j, next, {})
  PROVE  /\ RunActs(j, next, {})
         /\ run'[j] \in RunRecords
         /\ run'[j].pc = next.pc
         /\ next \notin Runs => run'[j] = next
         /\ next \in Runs =>
              /\ run'[j] \in Runs /\ SameRun(next, run'[j])
              /\ run'[j].scoped = next.scoped
              /\ run'[j].last = next.last /\ run'[j].batch = next.batch
              /\ run'[j].old = next.old
<1>1. PICK touched: touched = {}
  OBVIOUS
<1>2. RunActs(j, next, touched) /\ run'[j] = Touch(next, touched)
  BY <1>1, RunStepActs
<1>3. run'[j] \in RunRecords
  BY <1>2 DEF RunActs
<1>4. PICK s: s = run'[j]
  OBVIOUS
<1>5. s = Touch(next, {})
  BY <1>1, <1>2, <1>4
<1>6. QED
  BY <1>1, <1>2, <1>3, <1>4, <1>5, PlainStep

LEMMA NoLast ==
  0 \in 0..Cardinality(Records) /\ NoBatch \in UNION {[S -> Versions] : S \in SUBSET Records}
<1>1. 0 \in 0..Cardinality(Records)
  BY RecordsAssumption, FS_CardinalityType
<1>2. NoBatch \in UNION {[S -> Versions] : S \in SUBSET Records}
  BY DEF NoBatch
<1>3. QED
  BY <1>1, <1>2

\* A run is refused, or starts.
Refuses(j) == \E use \in Uses, p \in Partitions: RefuseRun(j, use[1], p, use[2])
Starts(j) == \E use \in Uses, p \in Partitions: StartRun(j, use[1], p, use[2])

LEMMA UsesKinds ==
  ASSUME NEW use \in Uses
  PROVE  use[1] \in Kinds /\ use[2] \in BOOLEAN
BY UsesAssumption

LEMMA StartRunActs ==
  ASSUME TypeOK, NEW j \in Jobs, Starts(j)
  PROVE  /\ \E next: RunActs(j, next, {})
         /\ run'[j] \in Runs /\ run'[j].pc = "prepare"
         /\ run'[j].last = 0 /\ run[j] = NotStarted
<1>1. PICK use \in Uses, p \in Partitions: StartRun(j, use[1], p, use[2])
  BY DEF Starts
<1>2. PICK k \in Kinds, f \in BOOLEAN: StartRun(j, k, p, f)
  BY <1>1, UsesKinds
<1>3. PICK next: next = [pc |-> "prepare", kind |-> k, partition |-> p, force |-> f, total |-> 0,
                         scoped |-> FALSE, emptied |-> FALSE, last |-> 0, batch |-> NoBatch,
                         old |-> {}, quiet |-> TRUE, alone |-> TRUE, shared |-> FALSE]
  OBVIOUS
<1>4. next \in Runs
  BY <1>3, NoLast DEF Runs, RunSteps
<1>5. RunStep(j, next, {}) /\ run[j] = NotStarted
  BY <1>2, <1>3 DEF StartRun, NextRun
<1>6. next.pc = "prepare" /\ next.last = 0
  BY <1>3
<1>7. next \in RunRecords
  BY <1>4 DEF RunRecords
<1>8. QED
  BY <1>4, <1>5, <1>6, <1>7, PlainRunActs

LEMMA RefuseRunActs ==
  ASSUME TypeOK, NEW j \in Jobs, Refuses(j)
  PROVE  /\ run' \in [Jobs -> RunRecords]
         /\ run'[j].pc = "done" /\ run[j] = NotStarted
         /\ \A i \in Jobs \ {j}: run'[i] = run[i] /\ KeptRun(i)
<1>1. PICK use \in Uses, p \in Partitions: RefuseRun(j, use[1], p, use[2])
  BY DEF Refuses
<1>2. PICK k \in Kinds, f \in BOOLEAN: RefuseRun(j, k, p, f)
  BY <1>1, UsesKinds
<1>3. Done(k, p) \in RunRecords /\ Done(k, p).pc = "done"
  BY DEF Done, RunRecords, Ended
<1>4. run \in [Jobs -> RunRecords]
  BY DEF TypeOK, RunRecords
<1>5. run' = [run EXCEPT ![j] = Done(k, p)] /\ run[j] = NotStarted
  BY <1>2 DEF RefuseRun, NextRun
<1>6. run' \in [Jobs -> RunRecords] /\ run'[j] = Done(k, p)
      /\ \A i \in Jobs \ {j}: run'[i] = run[i]
  BY <1>3, <1>4, <1>5
<1>7. QED
  BY <1>3, <1>5, <1>6, SameIsKept

LEMMA StopRunActs ==
  ASSUME TypeOK, NEW j \in Jobs, StopRun(j)
  PROVE  /\ run' \in [Jobs -> RunRecords]
         /\ Running(j)
         /\ run'[j] \in Ended /\ ScopeOf(run'[j]) = ScopeOf(run[j])
         /\ run[j].pc = "prepare" => run'[j].pc = "done"
         /\ run[j].pc # "prepare" => run'[j].pc = "left"
         /\ \A i \in Jobs \ {j}: run'[i] = run[i] /\ KeptRun(i)
<1>1. run[j] \in Runs /\ Running(j)
  BY RunShape DEF StopRun
<1>2. run[j].partition \in Partitions /\ run[j].kind \in Kinds
  BY <1>1, SMT DEF Runs
<1>3. PICK p \in Partitions, k \in Kinds: p = run[j].partition /\ k = run[j].kind
  BY <1>2
<1>4. run \in [Jobs -> RunRecords]
  BY DEF TypeOK, RunRecords
<1>5. run' = [run EXCEPT ![j] = IF run[j].pc = "prepare" THEN Done(k, p) ELSE Left(k, p)]
  BY <1>3 DEF StopRun
<1>6. Done(k, p) \in Ended /\ Left(k, p) \in Ended
  BY DEF Done, Left, Ended
<1>7. /\ Done(k, p).pc = "done" /\ Left(k, p).pc = "left"
      /\ ScopeOf(Done(k, p)) = <<k, p>> /\ ScopeOf(Left(k, p)) = <<k, p>>
  BY DEF Done, Left, ScopeOf
<1>8. run' \in [Jobs -> RunRecords] /\ \A i \in Jobs \ {j}: run'[i] = run[i]
  BY <1>4, <1>5, <1>6 DEF RunRecords
<1>9. run'[j] = IF run[j].pc = "prepare" THEN Done(k, p) ELSE Left(k, p)
  BY <1>4, <1>5
<1>10. ScopeOf(run[j]) = <<k, p>>
  BY <1>3 DEF ScopeOf
<1>11. QED
  BY <1>1, <1>6, <1>7, <1>8, <1>9, <1>10, SameIsKept

\* A step of run j in its own partition, after which it goes on at pc.
Moves(j, pc, touched) ==
  /\ RunActs(j, run[j], touched)
  /\ run'[j] \in Runs /\ run'[j].pc = pc /\ SameRun(run[j], run'[j])

LEMMA RunFields ==
  ASSUME TypeOK, NEW j \in Jobs, Running(j)
  PROVE  /\ run[j] \in Runs
         /\ run[j].partition \in Partitions /\ run[j].kind \in Kinds
         /\ run[j].last \in Records \cup {0} /\ run[j].old \in SUBSET Records
         /\ DOMAIN run[j].batch \in SUBSET Records
         /\ \A r \in DOMAIN run[j].batch: run[j].batch[r] \in Versions
         /\ run[j].quiet \in BOOLEAN /\ run[j].alone \in BOOLEAN /\ run[j].shared \in BOOLEAN
         /\ run[j].scoped \in BOOLEAN
<1>1. run[j] \in Runs
  BY RunShape
<1>2. /\ run[j].partition \in Partitions /\ run[j].kind \in Kinds
      /\ run[j].last \in Records \cup {0} /\ run[j].old \in SUBSET Records
      /\ run[j].batch \in UNION {[S -> Versions] : S \in SUBSET Records}
      /\ run[j].quiet \in BOOLEAN /\ run[j].alone \in BOOLEAN /\ run[j].shared \in BOOLEAN
      /\ run[j].scoped \in BOOLEAN
  BY <1>1 DEF Runs
<1>3. PICK S \in SUBSET Records: run[j].batch \in [S -> Versions]
  BY <1>2
<1>4. QED
  BY <1>1, <1>2, <1>3

LEMMA RunsAreRecords == \A r \in Runs: r \in RunRecords
BY DEF RunRecords

\* A run that goes on as it sets out to.
LEMMA PlainMove ==
  ASSUME TypeOK, NEW j \in Jobs, NEW next \in Runs, RunStep(j, next, {}), SameRun(run[j], next)
  PROVE  /\ Moves(j, next.pc, {})
         /\ run'[j].last = next.last /\ run'[j].batch = next.batch /\ run'[j].old = next.old
<1>1. next \in RunRecords
  BY DEF RunRecords
<1>2. /\ RunActs(j, next, {}) /\ run'[j] \in Runs /\ run'[j].pc = next.pc
      /\ SameRun(next, run'[j])
      /\ run'[j].last = next.last /\ run'[j].batch = next.batch /\ run'[j].old = next.old
  BY <1>1, PlainRunActs
<1>3. RunActs(j, run[j], {})
  BY <1>2, PlainScopeActs DEF SameRun
<1>4. SameRun(run[j], run'[j])
  BY <1>2 DEF SameRun
<1>5. QED
  BY <1>2, <1>3, <1>4 DEF Moves

\* The job row is opened.
LEMMA OpenJobActs ==
  ASSUME TypeOK, NEW j \in Jobs, OpenJob(j)
  PROVE  /\ Moves(j, "startedAt", {}) /\ run[j].pc = "prepare" /\ Running(j)
         /\ run'[j].last = run[j].last
<1>1. Running(j) /\ run[j].pc = "prepare"
  BY DEF OpenJob, Running, RunSteps, OpenSteps
<1>2. PICK n: n = Cardinality(ActiveIn(InPartition(run[j].partition)))
  OBVIOUS
<1>3. PICK b \in BOOLEAN: b = (run[j].kind = "organization" \/ n > 0)
  OBVIOUS
<1>4. n \in 0..Cardinality(Records)
  <2>1. ActiveIn(InPartition(run[j].partition)) \in SUBSET Records
    BY DEF ActiveIn, InPartition
  <2>2. QED
    BY <1>2, <2>1, CountType
<1>5. PICK next: next = Opened(j, n, b)
  OBVIOUS
<1>6. next \in Runs /\ next.pc = "startedAt" /\ SameRun(run[j], next) /\ next.last = run[j].last
  BY <1>1, <1>4, <1>5, OpenRun
<1>7. RunStep(j, next, {})
  BY <1>2, <1>3, <1>5 DEF OpenJob, Opened
<1>8. QED
  BY <1>1, <1>6, <1>7, PlainMove

LEMMA OldRowsType ==
  ASSUME TypeOK, NEW p \in Partitions
  PROVE  OldRows(p) \in SUBSET Records
BY DEF TypeOK, OldRows, Indexed

LEMMA ReadStartedAtActs ==
  ASSUME TypeOK, NEW j \in Jobs, ReadStartedAt(j)
  PROVE  /\ Moves(j, run'[j].pc, {}) /\ run'[j].pc \in {"read", "reset", "resetCoverage"}
         /\ run[j].pc = "startedAt" /\ Running(j)
         /\ run'[j].last = run[j].last /\ run'[j].old = OldRows(run[j].partition)
<1>1. Running(j) /\ run[j].pc = "startedAt"
  BY DEF ReadStartedAt, Running, RunSteps, OpenSteps
<1>2. PICK S \in SUBSET Records: S = OldRows(run[j].partition)
  BY <1>1, RunFields, OldRowsType
<1>3. PICK g: /\ \/ g = Walking(j)
                 \/ \E pc \in {"reset", "resetCoverage"}: g = Goto(j, pc)
              /\ RunStep(j, [g EXCEPT !.old = S], {})
  BY <1>2 DEF ReadStartedAt
<1>4. \E pc \in {"read", "reset", "resetCoverage"}:
        g \in Runs /\ g.pc = pc /\ SameRun(run[j], g) /\ g.last = run[j].last
  BY <1>1, <1>3, ReadRun, GotoRun DEF RunSteps, OpenSteps
<1>5. PICK next: next = [g EXCEPT !.old = S]
  OBVIOUS
<1>6. next \in Runs /\ next.pc = g.pc /\ SameRun(g, next) /\ next.last = g.last /\ next.old = S
  BY <1>4, <1>5, OldRun
<1>7. SameRun(run[j], next)
  BY <1>4, <1>6 DEF SameRun
<1>8. RunStep(j, next, {})
  BY <1>3, <1>5
<1>9. /\ Moves(j, next.pc, {})
      /\ run'[j].last = next.last /\ run'[j].old = next.old
  BY <1>6, <1>7, <1>8, PlainMove
<1>10. run'[j].pc = next.pc
  BY <1>9 DEF Moves
<1>11. QED
  BY <1>1, <1>2, <1>4, <1>6, <1>9, <1>10

LEMMA ResetCoverageActs ==
  ASSUME TypeOK, NEW j \in Jobs, ResetCoverage(j)
  PROVE  /\ Moves(j, "read", {}) /\ run[j].pc = "resetCoverage" /\ Running(j)
         /\ run'[j].last = run[j].last /\ run'[j].old = run[j].old
<1>1. Running(j) /\ run[j].pc = "resetCoverage"
  BY DEF ResetCoverage, Running, RunSteps, OpenSteps
<1>2. PICK next: next = Walking(j)
  OBVIOUS
<1>3. /\ next \in Runs /\ next.pc = "read" /\ SameRun(run[j], next)
      /\ next.last = run[j].last /\ next.old = run[j].old
  BY <1>1, <1>2, ReadRun
<1>4. RunStep(j, next, {})
  BY <1>2 DEF ResetCoverage
<1>5. QED
  BY <1>1, <1>3, <1>4, PlainMove

LEMMA PurgeFailsActs ==
  ASSUME TypeOK, NEW j \in Jobs, PurgeFails(j)
  PROVE  /\ Moves(j, "resetCoverage", {}) /\ run[j].pc = "reset" /\ Running(j)
         /\ run'[j].last = run[j].last /\ run'[j].old = run[j].old
<1>1. Running(j) /\ run[j].pc = "reset"
  BY DEF PurgeFails, Running, RunSteps, OpenSteps
<1>2. PICK next: next = Goto(j, "resetCoverage")
  OBVIOUS
<1>3. /\ next \in Runs /\ next.pc = "resetCoverage" /\ SameRun(run[j], next)
      /\ next.last = run[j].last /\ next.old = run[j].old
  BY <1>1, <1>2, GotoRun DEF RunSteps, OpenSteps
<1>4. RunStep(j, next, {})
  BY <1>2 DEF PurgeFails
<1>5. QED
  BY <1>1, <1>3, <1>4, PlainMove

\* The next batch is read, or there is none.
LEMMA ReadBatchActs ==
  ASSUME TypeOK, NEW j \in Jobs, ReadBatch(j)
  PROVE  /\ run[j].pc = "read" /\ Running(j)
         /\ run'[j].last = run[j].last /\ run'[j].old = run[j].old
         /\ \/ Rest(j) = {} /\ Moves(j, "purge", {})
            \/ /\ Rest(j) # {} /\ Moves(j, "write", {})
               /\ run'[j].batch = [r \in NextBatch(j) |-> base[r].version]
<1>1. Running(j) /\ run[j].pc = "read"
  BY DEF ReadBatch, Running, RunSteps, OpenSteps
<1>2. CASE Rest(j) = {}
  <2>1. PICK next: next = Goto(j, "purge")
    OBVIOUS
  <2>2. /\ next \in Runs /\ next.pc = "purge" /\ SameRun(run[j], next)
        /\ next.last = run[j].last /\ next.old = run[j].old
    BY <1>1, <2>1, GotoRun DEF RunSteps, OpenSteps
  <2>3. RunStep(j, next, {})
    BY <1>2, <2>1 DEF ReadBatch
  <2>4. QED
    BY <1>1, <1>2, <2>2, <2>3, PlainMove
<1>3. CASE Rest(j) # {}
  <2>1. PICK f: f = [r \in NextBatch(j) |-> base[r].version]
    OBVIOUS
  <2>2. NextBatch(j) \in SUBSET Records
    BY DEF NextBatch, Rest, ActiveIn, InPartition
  <2>3. f \in [NextBatch(j) -> Versions]
    BY <2>1, <2>2 DEF TypeOK, BaseRows
  <2>4. PICK next: next = Fetched(j, f)
    OBVIOUS
  <2>5. /\ next \in Runs /\ next.pc = "write" /\ SameRun(run[j], next)
        /\ next.last = run[j].last /\ next.old = run[j].old /\ next.batch = f
    BY <1>1, <2>2, <2>3, <2>4, BatchRun
  <2>6. RunStep(j, next, {})
    BY <1>3, <2>1, <2>4 DEF ReadBatch, Fetched
  <2>7. QED
    BY <1>1, <1>3, <2>1, <2>5, <2>6, PlainMove
<1>4. QED
  BY <1>2, <1>3


LEMMA WriteBatchActs ==
  ASSUME TypeOK, NEW j \in Jobs, WriteBatch(j)
  PROVE  /\ run[j].pc = "write" /\ Running(j)
         /\ Moves(j, "progress", DOMAIN run[j].batch)
         /\ run'[j].last = run[j].last /\ run'[j].batch = run[j].batch
         /\ run'[j].old = run[j].old \ DOMAIN run[j].batch
<1>1. Running(j) /\ run[j].pc = "write"
  BY DEF WriteBatch, Running, RunSteps, OpenSteps
<1>2. PICK S: S = DOMAIN run[j].batch
  OBVIOUS
<1>3. PICK next: next = Goto(j, "progress")
  OBVIOUS
<1>4. /\ next \in Runs /\ next.pc = "progress" /\ SameRun(run[j], next)
      /\ next.last = run[j].last /\ next.batch = run[j].batch /\ next.old = run[j].old
  BY <1>1, <1>3, GotoRun DEF RunSteps, OpenSteps
<1>5. RunStep(j, next, S)
  BY <1>2, <1>3 DEF WriteBatch
<1>6. RunActs(j, run[j], S) /\ run'[j] = Touch(next, S)
  <2>1. RunActs(j, next, S) /\ run'[j] = Touch(next, S)
    BY <1>4, <1>5, RunStepActs, RunsAreRecords
  <2>2. run[j].partition = next.partition /\ run[j].kind = next.kind
    BY <1>4 DEF SameRun
  <2>3. QED
    BY <2>1, <2>2, ScopeActs
<1>7. /\ run'[j] \in Runs /\ run'[j].pc = "progress" /\ SameRun(next, run'[j])
      /\ run'[j].last = next.last /\ run'[j].batch = next.batch /\ run'[j].old = next.old \ S
  BY <1>4, <1>6, TouchRun DEF SameRun
<1>8. SameRun(run[j], run'[j])
  BY <1>4, <1>7 DEF SameRun
<1>9. QED
  BY <1>1, <1>2, <1>4, <1>6, <1>7, <1>8 DEF Moves

\* The walk goes on after the last row of the batch.
LEMMA ProgressActs ==
  ASSUME TypeOK, NEW j \in Jobs, Progress(j)
  PROVE  /\ run[j].pc = "progress" /\ Running(j)
         /\ Moves(j, "read", {}) /\ run'[j].old = run[j].old
         /\ run'[j].last \in DOMAIN run[j].batch
         /\ \A s \in DOMAIN run[j].batch: s <= run'[j].last
<1>1. Running(j) /\ run[j].pc = "progress"
  BY DEF Progress, Running, RunSteps, OpenSteps
<1>2. PICK n \in DOMAIN run[j].batch:
        /\ \A s \in DOMAIN run[j].batch: s <= n
        /\ RunStep(j, Past(j, n), {})
  BY DEF Progress, Past
<1>3. n \in Records
  BY <1>1, RunFields
<1>4. PICK next: next = Past(j, n)
  OBVIOUS
<1>5. /\ next \in Runs /\ next.pc = "read" /\ SameRun(run[j], next)
      /\ next.last = n /\ next.old = run[j].old
  BY <1>1, <1>3, <1>4, PastRun
<1>6. RunStep(j, next, {})
  BY <1>2, <1>4
<1>7. QED
  BY <1>1, <1>2, <1>5, <1>6, PlainMove

\* The walk is over.
LEMMA PurgeActs ==
  ASSUME TypeOK, NEW j \in Jobs, Purge(j)
  PROVE  /\ run[j].pc = "purge" /\ Running(j)
         /\ RunActs(j, run[j], {})
         /\ run'[j] \in Runs /\ run'[j].pc = "finalize"
         /\ SameScopeOf(run[j], run'[j])
         /\ run'[j].quiet <=> run[j].quiet
         /\ run'[j].alone <=> run[j].alone
         /\ run'[j].shared <=> run[j].shared
<1>1. Running(j) /\ run[j].pc = "purge"
  BY DEF Purge, Running, RunSteps, OpenSteps
<1>2. PICK next: next = Closing(j)
  OBVIOUS
<1>3. /\ next \in Runs /\ next.pc = "finalize" /\ SameScopeOf(run[j], next)
      /\ next.quiet <=> run[j].quiet
      /\ next.alone <=> run[j].alone
      /\ next.shared <=> run[j].shared
  BY <1>1, <1>2, ClosingRun
<1>4. RunStep(j, next, {})
  BY <1>2 DEF Purge
<1>5. /\ RunActs(j, next, {}) /\ run'[j] \in Runs /\ run'[j].pc = "finalize"
      /\ SameRun(next, run'[j]) /\ run'[j].scoped = next.scoped
  BY <1>3, <1>4, PlainRunActs, RunsAreRecords
<1>6. RunActs(j, run[j], {})
  BY <1>3, <1>5, PlainScopeActs DEF SameScopeOf
<1>7. QED
  BY <1>1, <1>3, <1>5, <1>6 DEF SameRun, SameScopeOf

LEMMA FailRunActs ==
  ASSUME TypeOK, NEW j \in Jobs, FailRun(j)
  PROVE  /\ run[j].pc \in OpenSteps /\ Running(j)
         /\ RunActs(j, run[j], {})
         /\ run'[j] \in Runs /\ run'[j].pc = "finalize"
         /\ SameScopeOf(run[j], run'[j])
         /\ ~run'[j].quiet /\ ~run'[j].alone
         /\ run'[j].shared <=> run[j].shared
<1>1. Running(j) /\ run[j].pc \in OpenSteps
  BY DEF FailRun, Running, RunSteps, OpenSteps
<1>2. PICK next: next = Failing(j)
  OBVIOUS
<1>3. /\ next \in Runs /\ next.pc = "finalize" /\ SameScopeOf(run[j], next)
      /\ ~next.quiet /\ ~next.alone
      /\ next.shared <=> run[j].shared
  BY <1>1, <1>2, FailingRun
<1>4. RunStep(j, next, {})
  BY <1>2 DEF FailRun
<1>5. /\ RunActs(j, next, {}) /\ run'[j] \in Runs /\ run'[j].pc = "finalize"
      /\ SameRun(next, run'[j]) /\ run'[j].scoped = next.scoped
  BY <1>3, <1>4, PlainRunActs, RunsAreRecords
<1>6. RunActs(j, run[j], {})
  BY <1>3, <1>5, PlainScopeActs DEF SameScopeOf
<1>7. QED
  BY <1>1, <1>3, <1>5, <1>6 DEF SameRun, SameScopeOf

LEMMA CloseJobActs ==
  ASSUME TypeOK, NEW j \in Jobs, CloseJob(j)
  PROVE  /\ run[j].pc = "finalize" /\ Running(j)
         /\ RunActs(j, run[j], {})
         /\ run'[j].pc = "done"
<1>1. Running(j) /\ run[j].pc = "finalize"
  BY DEF CloseJob, Running, RunSteps, OpenSteps
<1>2. PICK next: next = Done(run[j].kind, run[j].partition)
  OBVIOUS
<1>3. next \in RunRecords /\ next \notin Runs
  BY <1>1, <1>2, RunFields DEF Done, Ended, RunRecords, Runs, RunSteps, OpenSteps
<1>4. RunStep(j, next, {})
  BY <1>2 DEF CloseJob
<1>5. RunActs(j, next, {}) /\ run'[j] = next
  BY <1>3, <1>4, PlainRunActs
<1>6. next.pc = "done" /\ next.partition = run[j].partition /\ next.kind = run[j].kind
  BY <1>2 DEF Done
<1>7. QED
  BY <1>1, <1>5, <1>6, PlainScopeActs

\* The index is emptied: every other run is disturbed.
LEMMA PurgeBeforeForceActs ==
  ASSUME TypeOK, NEW j \in Jobs, PurgeBeforeForce(j)
  PROVE  /\ run[j].pc = "reset" /\ Running(j)
         /\ run' \in [Jobs -> RunRecords]
         /\ run'[j] \in Runs /\ run'[j].pc = "resetCoverage" /\ run'[j].emptied
         /\ run'[j].partition = run[j].partition /\ run'[j].kind = run[j].kind
         /\ run'[j].last = run[j].last /\ run'[j].old = run[j].old
         /\ run'[j].shared <=> run[j].shared
         /\ \A i \in Jobs \ {j}:
              /\ KeptRun(i)
              /\ Running(i) =>
                   ~run'[i].alone /\ ~run'[i].quiet /\ run'[i].old = run[i].old
<1>1. Running(j) /\ run[j].pc = "reset"
  BY DEF PurgeBeforeForce, Running, RunSteps, OpenSteps
<1>2. PICK next: next = [Goto(j, "resetCoverage") EXCEPT !.emptied = TRUE]
  OBVIOUS
<1>3. run' = [i \in Jobs |-> IF i = j THEN next ELSE Beside(i, FALSE, SameScope(i, run[j]))]
  BY <1>2 DEF PurgeBeforeForce
<1>4. /\ next \in Runs /\ next.pc = "resetCoverage" /\ next.emptied
      /\ next.partition = run[j].partition /\ next.kind = run[j].kind
      /\ next.last = run[j].last /\ next.old = run[j].old
      /\ next.shared <=> run[j].shared
  BY <1>1, <1>2, EmptiedRun
<1>5. run'[j] = next
  BY <1>3
<1>6. ASSUME NEW i \in Jobs \ {j}
      PROVE  /\ KeptRun(i)
             /\ Running(i) =>
                  ~run'[i].alone /\ ~run'[i].quiet /\ run'[i].old = run[i].old
  <2>1. PICK quiet \in BOOLEAN: quiet = FALSE
    OBVIOUS
  <2>2. PICK shared \in BOOLEAN: shared = SameScope(i, run[j])
    BY DEF SameScope
  <2>3. PICK s: s = Beside(i, quiet, shared)
    OBVIOUS
  <2>4. run'[i] = s
    BY <1>3, <2>1, <2>2, <2>3
  <2>5. KeptRun(i) /\ Others(i, quiet, shared, run[i].old)
    BY <2>3, <2>4, BesideKeeps
  <2>6. QED
    BY <2>1, <2>5, Zenon DEF Others
<1>7. \A i \in Jobs: run'[i] \in RunRecords
  BY <1>4, <1>5, <1>6, KeptType, RunsAreRecords
<1>8. run' \in [Jobs -> RunRecords]
  BY <1>3, <1>7
<1>9. QED
  BY <1>1, <1>4, <1>5, <1>6, <1>8

\* The timer and the statements on the coverage row disturb only who is alone.
LEMMA AsideActs ==
  ASSUME TypeOK, NEW S \in SUBSET Jobs,
         run' = [i \in Jobs |-> IF i \in S THEN run[i] ELSE Beside(i, TRUE, FALSE)]
  PROVE  /\ run' \in [Jobs -> RunRecords]
         /\ \A i \in S: run'[i] = run[i]
         /\ \A i \in Jobs:
              /\ KeptRun(i)
              /\ Running(i) => run'[i].old = run[i].old
              /\ Running(i) /\ i \notin S => ~run'[i].alone
<1>1. ASSUME NEW i \in Jobs \ S
      PROVE  KeptRun(i) /\ (Running(i) => ~run'[i].alone /\ run'[i].old = run[i].old)
  <2>1. PICK quiet \in BOOLEAN: quiet = TRUE
    OBVIOUS
  <2>2. PICK shared \in BOOLEAN: shared = FALSE
    OBVIOUS
  <2>3. PICK s: s = Beside(i, quiet, shared)
    OBVIOUS
  <2>4. run'[i] = s
    BY <2>1, <2>2, <2>3
  <2>5. KeptRun(i) /\ Others(i, quiet, shared, run[i].old)
    BY <2>3, <2>4, BesideKeeps
  <2>6. QED
    BY <2>5, Zenon DEF Others
<1>2. ASSUME NEW i \in S PROVE run'[i] = run[i] /\ KeptRun(i)
  BY <1>2, SameIsKept
<1>3. \A i \in Jobs: run'[i] \in RunRecords
  BY <1>1, <1>2, KeptType
<1>4. QED
  BY <1>1, <1>2, <1>3


LEMMA StatementActs ==
  ASSUME TypeOK, NEW p \in Processes, CoverageStatement(p)
  PROVE  /\ run' \in [Jobs -> RunRecords]
         /\ p \in Jobs => run'[p] = run[p]
         /\ \A i \in Jobs:
              /\ KeptRun(i)
              /\ Running(i) => run'[i].old = run[i].old
              /\ Running(i) /\ i # p => ~run'[i].alone
<1>1. PICK S \in SUBSET Jobs: S = {p} \cap Jobs
  OBVIOUS
<1>2. run' = [i \in Jobs |-> IF i = p THEN run[i] ELSE Beside(i, TRUE, FALSE)]
  BY DEF CoverageStatement
<1>3. run' = [i \in Jobs |-> IF i \in S THEN run[i] ELSE Beside(i, TRUE, FALSE)]
  BY <1>1, <1>2
<1>4. QED
  BY <1>1, <1>3, AsideActs

LEMMA RefreshActs ==
  ASSUME TypeOK, RefreshCoverage
  PROVE  /\ run' \in [Jobs -> RunRecords]
         /\ \A i \in Jobs:
              /\ KeptRun(i)
              /\ Running(i) => ~run'[i].alone /\ run'[i].old = run[i].old
<1>1. PICK S \in SUBSET Jobs: S = {}
  OBVIOUS
<1>2. run' = [i \in Jobs |-> Beside(i, TRUE, FALSE)]
  BY DEF RefreshCoverage
<1>3. run' = [i \in Jobs |-> IF i \in S THEN run[i] ELSE Beside(i, TRUE, FALSE)]
  BY <1>1, <1>2
<1>4. QED
  BY <1>1, <1>3, AsideActs

---------------------------------------------------------------------------
(* The record of a request after its step.                                 *)

LEMMA RequestShape ==
  ASSUME TypeOK, NEW q \in Requests
  PROVE  /\ req[q].pc \in {"idle", "find", "build", "put", "findDeleted", "remove", "notify"}
         /\ Saving(q) => req[q] \in Saves /\ req[q].record \in Records
         /\ req[q].pc \in {"findDeleted", "remove", "notify"} =>
              req[q] \in Deletions /\ req[q].record \in Records
         /\ req[q].pc = "idle" => req[q] = Waiting
BY DEF TypeOK, Waiting, Saves, Deletions, Saving

\* A change of the table by a request that waits.
LEMMA SaveRecordRequest ==
  ASSUME TypeOK, NEW q \in Requests, NEW r \in Records, SaveRecord(q, r)
  PROVE  /\ req' \in [Requests -> {Waiting} \cup Saves \cup Deletions]
         /\ \A s \in Requests \ {q}: req'[s] = req[s]
         /\ req'[q].pc = "find" /\ req'[q].record = r /\ req'[q].change = changes + 1
<1>1. PICK n: n = [pc |-> "find", record |-> r, change |-> changes + 1,
                   created |-> base[r].state = "absent", existed |-> FALSE, doc |-> AbsentRow]
  OBVIOUS
<1>2. changes + 1 \in Versions /\ AbsentRow \in BaseRows
  BY ChangesAssumption DEF SaveRecord, Change, TypeOK, Versions, BaseRows, AbsentRow
<1>3. PICK c \in BOOLEAN: c = (base[r].state = "absent")
  OBVIOUS
<1>4. PICK f \in BOOLEAN: f = FALSE
  OBVIOUS
<1>5. n = [pc |-> "find", record |-> r, change |-> changes + 1,
           created |-> c, existed |-> f, doc |-> AbsentRow]
  BY <1>1, <1>3, <1>4
<1>6. n \in Saves
  BY <1>2, <1>5 DEF Saves
<1>7. n.pc = "find" /\ n.record = r /\ n.change = changes + 1
  BY <1>5
<1>8. req' = [req EXCEPT ![q] = n]
  BY <1>1 DEF SaveRecord
<1>9. QED
  BY <1>6, <1>7, <1>8 DEF TypeOK

LEMMA DeleteRecordRequest ==
  ASSUME TypeOK, NEW q \in Requests, NEW r \in Records, DeleteRecord(q, r)
  PROVE  /\ req' \in [Requests -> {Waiting} \cup Saves \cup Deletions]
         /\ \A s \in Requests \ {q}: req'[s] = req[s]
         /\ req'[q].pc = "findDeleted" /\ req'[q].record = r
<1>1. PICK f \in BOOLEAN: f = FALSE
  OBVIOUS
<1>2. PICK n: n = [pc |-> "findDeleted", record |-> r, wasActive |-> f]
  OBVIOUS
<1>3. n \in Deletions /\ n.pc = "findDeleted" /\ n.record = r
  BY <1>2 DEF Deletions
<1>4. req' = [req EXCEPT ![q] = n]
  BY <1>1, <1>2 DEF DeleteRecord
<1>5. QED
  BY <1>3, <1>4 DEF TypeOK

LEMMA FindRowRequest ==
  ASSUME TypeOK, NEW q \in Requests, FindRow(q)
  PROVE  /\ req' \in [Requests -> {Waiting} \cup Saves \cup Deletions]
         /\ \A s \in Requests \ {q}: req'[s] = req[s]
         /\ req[q].pc = "find" /\ req'[q].pc = "build"
         /\ req'[q].record = req[q].record /\ req'[q].change = req[q].change
<1>1. req[q].pc = "find" /\ req[q] \in Saves
  BY RequestShape DEF FindRow, Saving
<1>2. PICK e \in BOOLEAN: e = (index[req[q].record] # 0)
  OBVIOUS
<1>3. PICK n: n = [req[q] EXCEPT !.pc = "build", !.existed = e]
  OBVIOUS
<1>4. n \in Saves
  BY <1>1, <1>3 DEF Saves
<1>5. n.pc = "build" /\ n.record = req[q].record /\ n.change = req[q].change
  BY <1>1, <1>3 DEF Saves
<1>6. req' = [req EXCEPT ![q] = n]
  BY <1>2, <1>3 DEF FindRow
<1>7. QED
  BY <1>1, <1>4, <1>5, <1>6 DEF TypeOK

LEMMA BuildDocRequest ==
  ASSUME TypeOK, NEW q \in Requests, BuildDoc(q)
  PROVE  /\ req' \in [Requests -> {Waiting} \cup Saves \cup Deletions]
         /\ \A s \in Requests \ {q}: req'[s] = req[s]
         /\ req[q].pc = "build" /\ req'[q].pc = "put"
         /\ req'[q].record = req[q].record /\ req'[q].change = req[q].change
         /\ req'[q].doc = base[req[q].record]
<1>1. req[q].pc = "build" /\ req[q] \in Saves /\ req[q].record \in Records
  BY RequestShape DEF BuildDoc, Saving
<1>2. PICK d \in BaseRows: d = base[req[q].record]
  BY <1>1 DEF TypeOK
<1>3. PICK n: n = [req[q] EXCEPT !.pc = "put", !.doc = d]
  OBVIOUS
<1>4. n \in Saves
  BY <1>1, <1>3 DEF Saves
<1>5. n.pc = "put" /\ n.record = req[q].record /\ n.change = req[q].change /\ n.doc = d
  BY <1>1, <1>3 DEF Saves
<1>6. req' = [req EXCEPT ![q] = n]
  BY <1>2, <1>3 DEF BuildDoc
<1>7. QED
  BY <1>1, <1>2, <1>4, <1>5, <1>6 DEF TypeOK

LEMMA FindDeletedRowRequest ==
  ASSUME TypeOK, NEW q \in Requests, FindDeletedRow(q)
  PROVE  /\ req' \in [Requests -> {Waiting} \cup Saves \cup Deletions]
         /\ \A s \in Requests \ {q}: req'[s] = req[s]
         /\ req[q].pc = "findDeleted" /\ req'[q].pc = "remove"
         /\ req'[q].record = req[q].record
         /\ req'[q].wasActive <=> index[req[q].record] # 0
<1>1. req[q].pc = "findDeleted" /\ req[q] \in Deletions
  BY RequestShape DEF FindDeletedRow
<1>2. PICK e \in BOOLEAN: e = (index[req[q].record] # 0)
  OBVIOUS
<1>3. PICK n: n = [req[q] EXCEPT !.pc = "remove", !.wasActive = e]
  OBVIOUS
<1>4. n \in Deletions
  BY <1>1, <1>3 DEF Deletions
<1>5. n.pc = "remove" /\ n.record = req[q].record
  BY <1>1, <1>3 DEF Deletions
<1>6. n.wasActive <=> e
  BY <1>1, <1>3 DEF Deletions
<1>7. req' = [req EXCEPT ![q] = n]
  BY <1>2, <1>3 DEF FindDeletedRow
<1>8. QED
  BY <1>1, <1>2, <1>4, <1>5, <1>6, <1>7 DEF TypeOK

LEMMA RemoveRowRequest ==
  ASSUME TypeOK, NEW q \in Requests, RemoveRow(q)
  PROVE  /\ req' \in [Requests -> {Waiting} \cup Saves \cup Deletions]
         /\ \A s \in Requests \ {q}: req'[s] = req[s]
         /\ req[q].pc = "remove" /\ req'[q].pc = "notify"
         /\ req[q] \in Deletions /\ req[q].record \in Records
<1>1. req[q].pc = "remove" /\ req[q] \in Deletions /\ req[q].record \in Records
  BY RequestShape DEF RemoveRow
<1>2. PICK n: n = [req[q] EXCEPT !.pc = "notify"]
  OBVIOUS
<1>3. n \in Deletions /\ n.pc = "notify"
  BY <1>1, <1>2 DEF Deletions
<1>4. req' = [req EXCEPT ![q] = n]
  BY <1>2 DEF RemoveRow
<1>5. QED
  BY <1>1, <1>3, <1>4 DEF TypeOK

\* The request is over or killed.
LEMMA RequestOver ==
  ASSUME TypeOK, NEW q \in Requests, req' = [req EXCEPT ![q] = Waiting]
  PROVE  /\ req' \in [Requests -> {Waiting} \cup Saves \cup Deletions]
         /\ \A s \in Requests \ {q}: req'[s] = req[s]
         /\ req'[q] = Waiting /\ req'[q].pc = "idle"
BY DEF TypeOK, Waiting


---------------------------------------------------------------------------
(* Every action keeps the types.                                           *)

LEMMA TypeWith ==
  ASSUME /\ base' \in [Records -> BaseRows] /\ index' \in [Records -> Versions]
         /\ changes' \in 1..(MaxChanges + 1)
         /\ req' \in [Requests -> {Waiting} \cup Saves \cup Deletions]
         /\ run' \in [Jobs -> RunRecords] /\ rows' \in [JobScopes -> JobRows]
         /\ unwritten' \in [Partitions -> SUBSET Records]
         /\ Cov!CoverageTypeOK' /\ due' \in BOOLEAN /\ outdated' \in SUBSET Records
  PROVE  TypeOK'
BY DEF TypeOK, RunRecords

LEMMA RowsTouchedType ==
  ASSUME TypeOK, NEW touched, RowsTouched(touched)
  PROVE  /\ unwritten' \in [Partitions -> SUBSET Records]
         /\ \A p \in Partitions: unwritten'[p] = unwritten[p] \ touched
BY DEF TypeOK, RowsTouched, Older

LEMMA RequestTypeOK ==
  ASSUME TypeOK, NEW q \in Requests, RequestNext(q)
  PROVE  TypeOK'
<1> USE DEF TypeOK, jobVars
<1>0. q \in Processes
  BY DEF Processes
<1>1. ASSUME NEW r \in Records, SaveRecord(q, r) PROVE TypeOK'
  <2>1. changes \in 1..MaxChanges /\ changes' = changes + 1
    BY <1>1, ChangesAssumption DEF SaveRecord, Change
  <2>2. changes' \in 1..(MaxChanges + 1) /\ changes' \in Versions
    BY <2>1, ChangesAssumption DEF Versions
  <2>3. base' = [base EXCEPT ![r] = [state |-> "active", version |-> changes']]
    BY <1>1 DEF SaveRecord, Change
  <2>4. base' \in [Records -> BaseRows]
    BY <2>2, <2>3 DEF BaseRows
  <2>5. RequestStep({}) /\ UNCHANGED <<index, jobVars, coverage, task, due, outdated>>
    BY <1>1 DEF SaveRecord, Change
  <2>6. QED
    BY <1>1, <2>2, <2>4, <2>5, RequestStepKeeps, SaveRecordRequest, CoverageStays, TypeWith
<1>2. ASSUME NEW r \in Records, DeleteRecord(q, r) PROVE TypeOK'
  <2>1. changes \in 1..MaxChanges /\ changes' = changes + 1
    BY <1>2, ChangesAssumption DEF DeleteRecord, Change
  <2>2. changes' \in 1..(MaxChanges + 1) /\ changes' \in Versions
    BY <2>1, ChangesAssumption DEF Versions
  <2>3. base' = [base EXCEPT ![r] = [state |-> "deleted", version |-> changes']]
    BY <1>2 DEF DeleteRecord, Change
  <2>4. base' \in [Records -> BaseRows]
    BY <2>2, <2>3 DEF BaseRows
  <2>5. RequestStep({}) /\ UNCHANGED <<index, jobVars, coverage, task, due, outdated>>
    BY <1>2 DEF DeleteRecord, Change
  <2>6. QED
    BY <1>2, <2>2, <2>4, <2>5, RequestStepKeeps, DeleteRecordRequest, CoverageStays, TypeWith
<1>3. ASSUME FindRow(q) \/ BuildDoc(q) \/ FindDeletedRow(q) PROVE TypeOK'
  <2>1. /\ RequestStep({})
        /\ UNCHANGED <<base, index, changes, jobVars, coverage, task, due, outdated>>
    BY <1>3 DEF FindRow, BuildDoc, FindDeletedRow
  <2>2. req' \in [Requests -> {Waiting} \cup Saves \cup Deletions]
    BY <1>3, FindRowRequest, BuildDocRequest, FindDeletedRowRequest
  <2>3. QED
    BY <2>1, <2>2, RequestStepKeeps, CoverageStays, TypeWith
<1>4. ASSUME PutRow(q) PROVE TypeOK'
  <2>1. PICK r \in Records: r = req[q].record
    BY <1>4, RequestShape DEF PutRow, Saving
  <2>2. req[q].doc.version \in Versions
    BY <1>4, RequestShape DEF PutRow, Saving, Saves, BaseRows
  <2>3. index' = [index EXCEPT ![r] = req[q].doc.version]
        /\ Settle({r}, {s \in {r} : base[s].version # req[q].change
                           /\ ~Right(s, req[q].doc.version)})
    BY <1>4, <2>1 DEF PutRow
  <2>4. index' \in [Records -> Versions] /\ outdated' \in SUBSET Records
    BY <2>2, <2>3 DEF Settle
  <2>5. \E b \in Int, i \in Int: Cov!Begin(q, Cov!AdjustTask(b, i))
    <3>1. PICK b \in Int: b = IF req[q].created /\ req[q].doc.state = "active" THEN 1 ELSE 0
      OBVIOUS
    <3>2. PICK i \in Int: i = IF ~req[q].existed /\ req[q].doc.state = "active" THEN 1 ELSE 0
      OBVIOUS
    <3>3. Cov!Begin(q, Cov!AdjustTask(b, i))
      BY <1>4, <3>1, <3>2 DEF PutRow
    <3>4. QED
      BY <3>1, <3>2, <3>3
  <2>6. RequestStep({r}) /\ RowsTouched({r}) /\ req' = [req EXCEPT ![q] = Waiting]
        /\ UNCHANGED <<base, changes, rows, coverage, due>>
    BY <1>4, <2>1 DEF PutRow
  <2>7. Cov!CoverageTypeOK'
    BY <1>0, <2>5, <2>6, CoverageOfAdjusting
  <2>8. QED
    BY <2>4, <2>6, <2>7, RequestStepKeeps, RowsTouchedType, RequestOver, TypeWith
<1>5. ASSUME RemoveRow(q) PROVE TypeOK'
  <2>1. PICK r \in Records: r = req[q].record
    BY <1>5, RemoveRowRequest
  <2>2. /\ index' = IF req[q].wasActive THEN [index EXCEPT ![r] = 0] ELSE index
        /\ Settle(IF req[q].wasActive THEN {r} ELSE {}, {})
    BY <1>5, <2>1 DEF RemoveRow
  <2>3. index' \in [Records -> Versions] /\ outdated' \in SUBSET Records
    BY <2>2, ChangesAssumption DEF Settle, Versions
  <2>4. PICK i \in Int: i = IF req[q].wasActive THEN -1 ELSE 0
    OBVIOUS
  <2>5. \E b \in Int: Cov!Begin(q, Cov!AdjustTask(b, i))
    <3>1. PICK b \in Int: b = -1
      OBVIOUS
    <3>2. QED
      BY <1>5, <2>4, <3>1 DEF RemoveRow
  <2>6. RequestStep({}) /\ UNCHANGED <<base, changes, jobVars, coverage, due>>
    BY <1>5 DEF RemoveRow
  <2>7. Cov!CoverageTypeOK'
    BY <1>0, <2>5, <2>6, CoverageOfAdjusting
  <2>8. QED
    BY <1>5, <2>3, <2>6, <2>7, RequestStepKeeps, RemoveRowRequest, TypeWith
<1>6. ASSUME NotifyCoverage(q) PROVE TypeOK'
  <2>1. /\ RequestStep({}) /\ req' = [req EXCEPT ![q] = Waiting] /\ due' = TRUE
        /\ UNCHANGED <<base, index, changes, jobVars, coverage, task, outdated>>
    BY <1>6 DEF NotifyCoverage
  <2>2. QED
    BY <2>1, RequestStepKeeps, RequestOver, CoverageStays, TypeWith
<1>7. ASSUME KillRequest(q) PROVE TypeOK'
  <2>1. /\ Cov!CoverageKill(q) /\ req' = [req EXCEPT ![q] = Waiting]
        /\ outdated' \in SUBSET Records
        /\ UNCHANGED <<base, index, changes, run, jobVars, due>>
    BY <1>7 DEF KillRequest
  <2>2. Cov!CoverageTypeOK'
    BY <1>0, <2>1, CoverageOfKill
  <2>3. run' \in [Jobs -> RunRecords]
    BY <2>1 DEF RunRecords
  <2>4. QED
    BY <2>1, <2>2, <2>3, RequestOver, TypeWith
<1>8. QED
  BY <1>1, <1>2, <1>3, <1>4, <1>5, <1>6, <1>7 DEF RequestNext


\* The operations on the job rows, row by row.
LEMMA JobOperations ==
  ASSUME rows \in [JobScopes -> JobRows], NEW s \in JobScopes
  PROVE  /\ PrepareJob(rows, s) \in [JobScopes -> JobRows]
         /\ FinalizeJob(rows, s) \in [JobScopes -> JobRows]
         /\ Unfinished(PrepareJob(rows, s)[s])
         /\ ~Unfinished(FinalizeJob(rows, s)[s])
         /\ \A o \in JobScopes \ {s}:
              /\ PrepareJob(rows, s)[o] = rows[o]
              /\ FinalizeJob(rows, s)[o] = rows[o]
         /\ \A o \in JobScopes: rows[o] # "none" =>
              PrepareJob(rows, s)[o] # "none" /\ FinalizeJob(rows, s)[o] # "none"
BY DEF PrepareJob, FinalizeJob, JobRows, Unfinished

\* The row of a run is that of its scope.
LEMMA ScopeType ==
  ASSUME TypeOK, NEW j \in Jobs, Running(j)
  PROVE  ScopeOf(run[j]) \in JobScopes
BY RunFields DEF ScopeOf, JobScopes

LEMMA RunTypeOK ==
  ASSUME TypeOK, NEW j \in Jobs,
         Refuses(j) \/ Starts(j) \/ RunNext(j) \/ FailRun(j) \/ StopRun(j)
  PROVE  TypeOK'
<1> USE DEF TypeOK, jobVars
<1>0. j \in Processes /\ coverage \in Cov!Counts
  BY CoverageShape DEF Processes
<1>1. ASSUME Refuses(j) PROVE TypeOK'
  <2>1. UNCHANGED <<base, index, changes, req, jobVars, coverage, task, due, outdated>>
    BY <1>1 DEF Refuses, RefuseRun
  <2>2. QED
    BY <1>1, <2>1, RefuseRunActs, CoverageStays, TypeWith
<1>2. ASSUME Starts(j) PROVE TypeOK'
  <2>1. UNCHANGED <<base, index, changes, req, jobVars, coverage, task, due, outdated>>
    BY <1>2 DEF Starts, StartRun
  <2>2. QED
    BY <1>2, <2>1, StartRunActs, CoverageStays, TypeWith DEF RunActs
<1>3. ASSUME OpenJob(j) PROVE TypeOK'
  <2>1. /\ rows' = PrepareJob(rows, ScopeOf(run[j]))
        /\ \E p \in Partitions:
             unwritten' = IF run[j].kind = "tenant"
                          THEN [unwritten EXCEPT ![p] = Indexed(Records)] ELSE unwritten
        /\ UNCHANGED <<base, index, changes, req, coverage, task, due, outdated>>
    BY <1>3, OpenJobActs, RunFields DEF OpenJob
  <2>2. rows' \in [JobScopes -> JobRows]
    BY <1>3, <2>1, OpenJobActs, ScopeType, JobOperations
  <2>3. unwritten' \in [Partitions -> SUBSET Records]
    BY <2>1 DEF Indexed
  <2>4. QED
    BY <1>3, <2>1, <2>2, <2>3, OpenJobActs, CoverageStays, TypeWith DEF Moves, RunActs
<1>4. ASSUME ReadStartedAt(j) \/ PurgeFails(j) \/ ReadBatch(j) \/ Progress(j) PROVE TypeOK'
  <2>1. UNCHANGED <<base, index, changes, req, jobVars, coverage, task, due, outdated>>
    BY <1>4 DEF ReadStartedAt, PurgeFails, ReadBatch, Progress
  <2>2. run' \in [Jobs -> RunRecords]
    BY <1>4, ReadStartedAtActs, PurgeFailsActs, ReadBatchActs, ProgressActs DEF Moves, RunActs
  <2>3. QED
    BY <2>1, <2>2, CoverageStays, TypeWith
<1>5. ASSUME PurgeBeforeForce(j) PROVE TypeOK'
  <2>1. /\ index' = [r \in Records |-> 0]
        /\ Settle(Records, ActiveIn(Records \ InPartition(run[j].partition)))
        /\ UNCHANGED <<base, changes, req, jobVars, coverage, task, due>>
    BY <1>5 DEF PurgeBeforeForce
  <2>2. index' \in [Records -> Versions] /\ outdated' \in SUBSET Records
    BY <2>1, ChangesAssumption DEF Settle, ActiveIn, Versions
  <2>3. QED
    BY <1>5, <2>1, <2>2, PurgeBeforeForceActs, CoverageStays, TypeWith
<1>6. ASSUME ResetCoverage(j) PROVE TypeOK'
  <2>1. UNCHANGED <<base, index, changes, req, jobVars, task, due, outdated>>
    BY <1>6 DEF ResetCoverage
  <2>2. coverage' \in Cov!Counts
    <3>1. run[j] \in Runs
      BY <1>6, ResetCoverageActs, RunFields
    <3>2. run[j].total \in 0..Cardinality(Records)
      BY <3>1 DEF Runs
    <3>3. run[j].total \in Nat
      BY <3>2, RecordsAssumption, FS_CardinalityType
    <3>4. [base |-> run[j].total, index |-> 0] \in Cov!Counts
      BY <3>3 DEF Cov!Counts
    <3>5. QED
      BY <1>0, <1>6, <3>4 DEF ResetCoverage
  <2>3. Cov!CoverageTypeOK'
    BY <2>1, <2>2 DEF Cov!CoverageTypeOK, Cov!Counts, Cov!Free
  <2>4. QED
    BY <1>6, <2>1, <2>3, ResetCoverageActs, TypeWith DEF Moves, RunActs
<1>7. ASSUME WriteBatch(j) PROVE TypeOK'
  <2>1. PICK f: f = run[j].batch
    OBVIOUS
  <2>2. DOMAIN f \in SUBSET Records /\ \A r \in DOMAIN f: f[r] \in Versions
    BY <1>7, <2>1, WriteBatchActs, RunFields
  <2>3. /\ index' = [r \in Records |-> IF r \in DOMAIN f THEN f[r] ELSE index[r]]
        /\ Settle(DOMAIN f, {r \in DOMAIN f : f[r] # base[r].version})
        /\ Cov!Begin(j, Cov!AdjustTask(0, Cardinality(DOMAIN f))) /\ RowsTouched(DOMAIN f)
        /\ UNCHANGED <<base, changes, req, rows, coverage, due>>
    BY <1>7, <2>1 DEF WriteBatch
  <2>4. index' \in [Records -> Versions] /\ outdated' \in SUBSET Records
    BY <2>2, <2>3 DEF Settle
  <2>5. Cardinality(DOMAIN f) \in Int
    BY <2>2, CountType
  <2>6. Cov!CoverageTypeOK'
    BY <1>0, <2>3, <2>5, CoverageOfAdjusting
  <2>7. QED
    BY <1>7, <2>3, <2>4, <2>6, RowsTouchedType, WriteBatchActs, TypeWith DEF Moves, RunActs
<1>8. ASSUME Purge(j) PROVE TypeOK'
  <2>1. PICK t \in Tasks: t = IF run[j].scoped THEN Cov!RefreshTask ELSE Cov!Free
    BY Tasked
  <2>2. /\ index' = [r \in Records |-> IF r \in Orphans(j) THEN 0 ELSE index[r]]
        /\ Settle({r \in Orphans(j) : ~Active(r)}, {})
        /\ Cov!Begin(j, t)
        /\ UNCHANGED <<base, changes, req, jobVars, coverage, due>>
    BY <1>8, <2>1 DEF Purge
  <2>3. index' \in [Records -> Versions] /\ outdated' \in SUBSET Records
    BY <2>2, ChangesAssumption DEF Settle, Versions
  <2>4. Cov!CoverageTypeOK'
    BY <1>0, <2>2, Begins
  <2>5. QED
    BY <1>8, <2>2, <2>3, <2>4, PurgeActs, TypeWith DEF RunActs
<1>9. ASSUME CloseJob(j) PROVE TypeOK'
  <2>1. /\ rows' = FinalizeJob(rows, ScopeOf(run[j]))
        /\ UNCHANGED <<base, index, changes, req, unwritten, coverage, task, due, outdated>>
    BY <1>9 DEF CloseJob
  <2>2. rows' \in [JobScopes -> JobRows]
    BY <1>9, <2>1, CloseJobActs, ScopeType, JobOperations
  <2>3. QED
    BY <1>9, <2>1, <2>2, CloseJobActs, CoverageStays, TypeWith DEF RunActs
<1>10. ASSUME CoverageStatement(j) PROVE TypeOK'
  <2>1. Cov!CoverageStep(j) /\ UNCHANGED <<base, index, changes, req, jobVars, due, outdated>>
    BY <1>10 DEF CoverageStatement
  <2>2. QED
    BY <1>0, <1>10, <2>1, StatementActs, CoverageStatementType, TypeWith
<1>11. ASSUME FailRun(j) \/ StopRun(j) PROVE TypeOK'
  <2>1. /\ Cov!CoverageKill(j) /\ outdated' = outdated \cup {r \in ToCome(j) : ~InSync(r)}
        /\ UNCHANGED <<base, index, changes, req, jobVars, due>>
    BY <1>11 DEF FailRun, StopRun
  <2>2. outdated' \in SUBSET Records
    BY <2>1 DEF ToCome, InPartition
  <2>3. run' \in [Jobs -> RunRecords]
    BY <1>11, FailRunActs, StopRunActs DEF RunActs
  <2>4. QED
    BY <1>0, <2>1, <2>2, <2>3, CoverageOfKill, TypeWith
<1>12. QED
  BY <1>1, <1>2, <1>3, <1>4, <1>5, <1>6, <1>7, <1>8, <1>9, <1>10, <1>11 DEF RunNext

LEMMA NextTypeOK ==
  ASSUME TypeOK, Next
  PROVE  TypeOK'
<1>1. ASSUME NEW p \in Requests \cup {Timer}, CoverageStatement(p) PROVE TypeOK'
  <2>1. p \in Processes
    BY DEF Processes
  <2>2. Cov!CoverageStep(p) /\ UNCHANGED <<base, index, changes, req, jobVars, due, outdated>>
    BY <1>1 DEF CoverageStatement
  <2>3. QED
    BY <1>1, <2>1, <2>2, StatementActs, CoverageStatementType, TypeWith DEF TypeOK, jobVars
<1>2. ASSUME RefreshCoverage PROVE TypeOK'
  <2>1. Timer \in Processes
    BY DEF Processes
  <2>2. /\ Cov!Begin(Timer, Cov!RefreshTask) /\ due' = FALSE
        /\ UNCHANGED <<base, index, changes, req, jobVars, coverage, outdated>>
    BY <1>2 DEF RefreshCoverage
  <2>3. Cov!CoverageTypeOK'
    BY <2>1, <2>2, CoverageOfRefreshing DEF TypeOK
  <2>4. QED
    BY <1>2, <2>2, <2>3, RefreshActs, TypeWith DEF TypeOK, jobVars
<1>3. QED
  BY <1>1, <1>2, RequestTypeOK, RunTypeOK DEF Next, Refuses, Starts

\* Every statement of the index, the reindex and the coverage keeps its
\* variables of their types (lib/indexer.ts, reindexer.ts, coverage.ts, jobs.ts).
THEOREM TypeCorrect == Spec => []TypeOK
<1>1. TypeOK /\ [Next]_vars => TypeOK'
  <2>1. TypeOK /\ UNCHANGED vars => TypeOK'
    BY CoverageStays DEF TypeOK, vars, jobVars, RunRecords
  <2>2. QED
    BY <2>1, NextTypeOK
<1>2. QED
  BY <1>1, InitTypeOK, PTL DEF Spec


---------------------------------------------------------------------------
(* Job rows.                                                               *)

\* A step that leaves run i open, or not, as it was.
SameJob(i) ==
  /\ run'[i].pc \in OpenSteps =>
       /\ run[i].pc \in OpenSteps /\ ScopeOf(run'[i]) = ScopeOf(run[i])
       /\ ~run'[i].shared => ~run[i].shared
  /\ run[i].pc \in OpenSteps \cup {"left"} =>
       run'[i].pc \in OpenSteps \cup {"left"} /\ ScopeOf(run'[i]) = ScopeOf(run[i])

LEMMA KeptJob ==
  ASSUME TypeOK, NEW i \in Jobs, KeptRun(i)
  PROVE  SameJob(i)
<1>1. CASE Running(i)
  BY <1>1, Zenon DEF KeptRun, SameJob, ScopeOf
<1>2. CASE ~Running(i)
  <2>1. run'[i] = run[i] /\ run[i].pc \notin OpenSteps
    BY <1>2 DEF KeptRun, Running, RunSteps
  <2>2. QED
    BY <2>1 DEF SameJob
<1>3. QED
  BY <1>1, <1>2

LEMMA MovedJob ==
  ASSUME NEW j \in Jobs, run[j].pc \in OpenSteps, run'[j].pc \in OpenSteps,
         ScopeOf(run'[j]) = ScopeOf(run[j]), run'[j].shared <=> run[j].shared
  PROVE  SameJob(j)
BY Zenon DEF SameJob

\* Rows that stay open or closed.
LEMMA JobsStay ==
  ASSUME JobsTracked, \A s \in JobScopes: Unfinished(rows'[s]) <=> Unfinished(rows[s]),
         \A i \in Jobs: SameJob(i),
         \A i \in Jobs: run[i].pc \in OpenSteps => ScopeOf(run[i]) \in JobScopes
  PROVE  JobsTracked'
<1>1. ASSUME NEW i \in Jobs, run'[i].pc \in OpenSteps, ~run'[i].shared
      PROVE  Unfinished(rows'[ScopeOf(run'[i])])
  <2>1. /\ run[i].pc \in OpenSteps /\ ScopeOf(run'[i]) = ScopeOf(run[i])
        /\ ~run[i].shared
    BY <1>1 DEF SameJob
  <2>2. QED
    BY <2>1 DEF JobsTracked
<1>2. ASSUME NEW s \in JobScopes, Unfinished(rows'[s])
      PROVE  \E i \in Jobs: /\ run'[i].pc \in OpenSteps \cup {"left"}
                            /\ ScopeOf(run'[i]) = s
  <2>1. PICK i \in Jobs: run[i].pc \in OpenSteps \cup {"left"} /\ ScopeOf(run[i]) = s
    BY <1>2 DEF JobsTracked
  <2>2. QED
    BY <2>1 DEF SameJob
<1>3. QED
  BY <1>1, <1>2 DEF JobsTracked, Unfinished, ScopeOf

LEMMA OpenScopes ==
  ASSUME TypeOK
  PROVE  \A i \in Jobs: run[i].pc \in OpenSteps => ScopeOf(run[i]) \in JobScopes
BY ScopeType DEF Running, RunSteps

LEMMA NextJobsTracked ==
  ASSUME TypeOK, JobsTracked, Next
  PROVE  JobsTracked'
<1>1. ASSUME NEW q \in Requests, RequestNext(q) PROVE JobsTracked'
  <2>1. rows' = rows
    BY <1>1 DEF RequestNext, SaveRecord, DeleteRecord, Change, FindRow, BuildDoc, PutRow,
                FindDeletedRow, RemoveRow, NotifyCoverage, KillRequest, jobVars
  <2>2. \A i \in Jobs: KeptRun(i)
    <3>1. CASE KillRequest(q)
      BY <3>1, SameIsKept DEF KillRequest
    <3>2. CASE ~KillRequest(q)
      <4>1. \E touched: RequestStep(touched)
        BY <1>1, <3>2 DEF RequestNext, SaveRecord, DeleteRecord, Change, FindRow, BuildDoc,
                          PutRow, FindDeletedRow, RemoveRow, NotifyCoverage
      <4>2. QED
        BY <4>1, RequestStepKeeps
    <3>3. QED
      BY <3>1, <3>2
  <2>3. QED
    BY <2>1, <2>2, KeptJob, JobsStay, OpenScopes
<1>2. ASSUME NEW p \in Processes, CoverageStatement(p) PROVE JobsTracked'
  <2>1. rows' = rows
    BY <1>2 DEF CoverageStatement, jobVars
  <2>2. QED
    BY <1>2, <2>1, StatementActs, KeptJob, JobsStay, OpenScopes
<1>3. ASSUME RefreshCoverage PROVE JobsTracked'
  <2>1. rows' = rows
    BY <1>3 DEF RefreshCoverage, jobVars
  <2>2. QED
    BY <1>3, <2>1, RefreshActs, KeptJob, JobsStay, OpenScopes
<1>4. ASSUME NEW j \in Jobs, Refuses(j) \/ Starts(j) \/ StopRun(j)
      PROVE  JobsTracked'
  <2>1. rows' = rows
    BY <1>4 DEF Refuses, RefuseRun, Starts, StartRun, StopRun, jobVars
  <2>2. \A i \in Jobs \ {j}: KeptRun(i)
    BY <1>4, RefuseRunActs, StartRunActs, StopRunActs DEF RunActs
  <2>3. SameJob(j)
    <3>1. CASE run[j] = NotStarted
      <4>1. run'[j].pc \in {"prepare", "done"}
        <5>1. ~StopRun(j)
          BY <3>1, StopRunActs DEF NotStarted, Running, RunSteps, OpenSteps
        <5>2. QED
          BY <1>4, <5>1, RefuseRunActs, StartRunActs
      <4>2. QED
        BY <3>1, <4>1 DEF SameJob, NotStarted, OpenSteps
    <3>2. CASE StopRun(j)
      <4>1. /\ ScopeOf(run'[j]) = ScopeOf(run[j]) /\ run'[j].pc \in {"done", "left"}
            /\ run[j].pc # "prepare" => run'[j].pc = "left"
            /\ Running(j)
        BY <3>2, StopRunActs
      <4>2. QED
        BY <4>1 DEF SameJob, OpenSteps, RunSteps, Running
    <3>3. QED
      BY <1>4, <3>1, <3>2, RefuseRunActs, StartRunActs
  <2>4. QED
    BY <2>1, <2>2, <2>3, KeptJob, JobsStay, OpenScopes
<1>5. ASSUME NEW j \in Jobs,
             \/ ReadStartedAt(j) \/ PurgeBeforeForce(j) \/ PurgeFails(j) \/ ResetCoverage(j)
             \/ ReadBatch(j) \/ WriteBatch(j) \/ Progress(j) \/ Purge(j) \/ FailRun(j)
      PROVE  JobsTracked'
  <2>1. rows' = rows
    BY <1>5 DEF ReadStartedAt, PurgeBeforeForce, PurgeFails, ResetCoverage, ReadBatch,
                WriteBatch, Progress, Purge, FailRun, jobVars
  <2>2. \A i \in Jobs \ {j}: KeptRun(i)
    BY <1>5, ReadStartedAtActs, PurgeBeforeForceActs, PurgeFailsActs, ResetCoverageActs,
       ReadBatchActs, WriteBatchActs, ProgressActs, PurgeActs, FailRunActs DEF RunActs, Moves
  <2>3. /\ run[j].pc \in OpenSteps /\ run'[j].pc \in OpenSteps
        /\ ScopeOf(run'[j]) = ScopeOf(run[j])
        /\ run'[j].shared <=> run[j].shared
    <3>1. CASE ReadStartedAt(j) \/ ReadBatch(j)
      BY <3>1, ReadStartedAtActs, ReadBatchActs
         DEF Moves, SameRun, OpenSteps, ScopeOf
    <3>2. CASE PurgeBeforeForce(j)
      BY <3>2, PurgeBeforeForceActs DEF OpenSteps, ScopeOf
    <3>3. CASE PurgeFails(j) \/ ResetCoverage(j) \/ WriteBatch(j) \/ Progress(j)
      BY <3>3, PurgeFailsActs, ResetCoverageActs, WriteBatchActs, ProgressActs
         DEF Moves, SameRun, OpenSteps, ScopeOf
    <3>4. CASE Purge(j)
      BY <3>4, PurgeActs DEF OpenSteps, SameScopeOf, ScopeOf
    <3>5. CASE FailRun(j)
      BY <3>5, FailRunActs DEF OpenSteps, SameScopeOf, ScopeOf
    <3>6. QED
      BY <1>5, <3>1, <3>2, <3>3, <3>4, <3>5
  <2>4. QED
    BY <2>1, <2>2, <2>3, KeptJob, MovedJob, JobsStay, OpenScopes
<1>6. ASSUME NEW j \in Jobs, OpenJob(j) PROVE JobsTracked'
  <2>1. PICK s \in JobScopes: s = ScopeOf(run[j])
    BY <1>6, OpenJobActs, ScopeType
  <2>2. rows' = PrepareJob(rows, s)
    BY <1>6, <2>1 DEF OpenJob
  <2>3. Unfinished(rows'[s]) /\ \A o \in JobScopes \ {s}: rows'[o] = rows[o]
    BY <2>2, JobOperations DEF TypeOK
  <2>4. run'[j].pc = "startedAt" /\ ScopeOf(run'[j]) = s
    BY <1>6, <2>1, OpenJobActs DEF Moves, SameRun, ScopeOf
  <2>5. \A i \in Jobs \ {j}: /\ KeptRun(i) /\ SameJob(i)
                             /\ Running(i) /\ SameScope(i, run[j]) => run'[i].shared
    BY <1>6, OpenJobActs, KeptJob DEF Moves, RunActs
  <2>6. ASSUME NEW i \in Jobs, run'[i].pc \in OpenSteps, ~run'[i].shared
        PROVE  Unfinished(rows'[ScopeOf(run'[i])])
    <3>1. CASE i = j
      BY <2>3, <2>4, <3>1
    <3>2. CASE i # j
      <4>1. /\ run[i].pc \in OpenSteps /\ ScopeOf(run'[i]) = ScopeOf(run[i])
            /\ ~run[i].shared /\ ScopeOf(run[i]) \in JobScopes
        BY <2>5, <2>6, <3>2, OpenScopes DEF SameJob
      <4>2. ScopeOf(run[i]) # s
        BY <2>1, <2>5, <2>6, <3>2, <4>1 DEF SameScope, Running, RunSteps
      <4>3. QED
        BY <2>3, <4>1, <4>2 DEF JobsTracked
    <3>3. QED
      BY <3>1, <3>2
  <2>7. ASSUME NEW o \in JobScopes, Unfinished(rows'[o])
        PROVE  \E i \in Jobs: /\ run'[i].pc \in OpenSteps \cup {"left"}
                              /\ ScopeOf(run'[i]) = o
    <3>1. CASE o = s
      BY <2>4, <3>1 DEF OpenSteps
    <3>2. CASE o # s
      <4>1. PICK i \in Jobs: run[i].pc \in OpenSteps \cup {"left"} /\ ScopeOf(run[i]) = o
        BY <2>3, <2>7, <3>2 DEF JobsTracked
      <4>2. i # j
        BY <2>1, <3>2, <4>1
      <4>3. QED
        BY <2>5, <4>1, <4>2 DEF SameJob
    <3>3. QED
      BY <3>1, <3>2
  <2>8. QED
    BY <2>6, <2>7 DEF JobsTracked, Unfinished, ScopeOf
<1>7. ASSUME NEW j \in Jobs, CloseJob(j) PROVE JobsTracked'
  <2>1. PICK s \in JobScopes: s = ScopeOf(run[j])
    BY <1>7, CloseJobActs, ScopeType
  <2>2. rows' = FinalizeJob(rows, s)
    BY <1>7, <2>1 DEF CloseJob
  <2>3. ~Unfinished(rows'[s]) /\ \A o \in JobScopes \ {s}: rows'[o] = rows[o]
    BY <2>2, JobOperations DEF TypeOK
  <2>4. run'[j].pc = "done"
    BY <1>7, CloseJobActs
  <2>5. \A i \in Jobs \ {j}: /\ KeptRun(i) /\ SameJob(i)
                             /\ Running(i) /\ SameScope(i, run[j]) => run'[i].shared
    BY <1>7, CloseJobActs, KeptJob DEF RunActs
  <2>6. ASSUME NEW i \in Jobs, run'[i].pc \in OpenSteps, ~run'[i].shared
        PROVE  Unfinished(rows'[ScopeOf(run'[i])])
    <3>1. i # j
      BY <2>4, <2>6 DEF OpenSteps
    <3>2. /\ run[i].pc \in OpenSteps /\ ScopeOf(run'[i]) = ScopeOf(run[i])
          /\ ~run[i].shared /\ ScopeOf(run[i]) \in JobScopes
      BY <2>5, <2>6, <3>1, OpenScopes DEF SameJob
    <3>3. ScopeOf(run[i]) # s
      BY <2>1, <2>5, <2>6, <3>1, <3>2 DEF SameScope, Running, RunSteps
    <3>4. QED
      BY <2>3, <3>2, <3>3 DEF JobsTracked
  <2>7. ASSUME NEW o \in JobScopes, Unfinished(rows'[o])
        PROVE  \E i \in Jobs: /\ run'[i].pc \in OpenSteps \cup {"left"}
                              /\ ScopeOf(run'[i]) = o
    <3>1. o # s
      BY <2>3, <2>7
    <3>2. PICK i \in Jobs: run[i].pc \in OpenSteps \cup {"left"} /\ ScopeOf(run[i]) = o
      BY <2>3, <2>7, <3>1 DEF JobsTracked
    <3>3. i # j
      BY <2>1, <3>1, <3>2
    <3>4. QED
      BY <2>5, <3>2, <3>3 DEF SameJob
  <2>8. QED
    BY <2>6, <2>7 DEF JobsTracked, Unfinished, ScopeOf
<1>8. QED
  BY <1>1, <1>2, <1>3, <1>4, <1>5, <1>6, <1>7 DEF Next, RunNext, Processes, Refuses, Starts


---------------------------------------------------------------------------
(* The refresh at the end of a run that is alone.                          *)

Refreshing(j) ==
  \/ task[j] = Cov!RefreshTask
  \/ task[j] = [step |-> "countIndex", base |-> Exact.base]
  \/ task[j] = [step |-> "write", row |-> Exact]
  \/ task[j] = Cov!Free /\ coverage = Exact

LEMMA RefreshingStays ==
  ASSUME NEW j \in Jobs, Refreshing(j), UNCHANGED <<base, index, coverage>>, task'[j] = task[j]
  PROVE  Refreshing(j)'
BY DEF Refreshing, Exact, ActiveIn, Active, Indexed, Cov!RefreshTask, Cov!Free

\* Each of its statements takes the refresh one step further.
LEMMA RefreshingGoesOn ==
  ASSUME TypeOK, NEW j \in Jobs, Refreshing(j), CoverageStatement(j)
  PROVE  Refreshing(j)'
<1>1. Cov!CoverageStep(j) /\ UNCHANGED <<base, index>>
  BY DEF CoverageStatement
<1>2. Exact' = Exact /\ Exact = [base |-> Cardinality(ActiveIn(Records)),
                                 index |-> Cardinality(Indexed(Records))]
  BY <1>1 DEF Exact, ActiveIn, Active, Indexed
<1>3. Exact.base = Cardinality(ActiveIn(Records))
  BY <1>2
<1>4. \A t: Cov!Begin(j, t) => task'[j] = t
  <2>1. task \in [Processes -> Tasks] /\ j \in Processes
    BY CoverageShape DEF TypeOK, Processes
  <2>2. QED
    BY <2>1 DEF Cov!Begin
<1>5. CASE task[j] = Cov!RefreshTask
  <2>1. task[j].step = "countBase"
    BY <1>5 DEF Cov!RefreshTask
  <2>2. Cov!CountBase(j)
    BY <1>1, <2>1 DEF Cov!CoverageStep, Cov!ReadCoverage, Cov!WriteCoverage, Cov!CountIndex
  <2>3. task'[j] = [step |-> "countIndex", base |-> Exact'.base]
    BY <1>2, <1>3, <1>4, <2>2 DEF Cov!CountBase
  <2>4. QED
    BY <2>3 DEF Refreshing
<1>6. CASE task[j] = [step |-> "countIndex", base |-> Exact.base]
  <2>1. task[j].step = "countIndex" /\ task[j].base = Exact.base
    BY <1>6
  <2>2. Cov!CountIndex(j)
    BY <1>1, <2>1 DEF Cov!CoverageStep, Cov!ReadCoverage, Cov!WriteCoverage, Cov!CountBase
  <2>3. task'[j] = [step |-> "write", row |-> Exact']
    BY <1>2, <1>3, <1>4, <2>1, <2>2 DEF Cov!CountIndex
  <2>4. QED
    BY <2>3 DEF Refreshing
<1>7. CASE task[j] = [step |-> "write", row |-> Exact]
  <2>1. task[j].step = "write" /\ task[j].row = Exact
    BY <1>7
  <2>2. Cov!WriteCoverage(j)
    BY <1>1, <2>1 DEF Cov!CoverageStep, Cov!ReadCoverage, Cov!CountIndex, Cov!CountBase
  <2>3. task'[j] = Cov!Free /\ coverage' = Exact'
    BY <1>2, <1>4, <2>1, <2>2 DEF Cov!WriteCoverage
  <2>4. QED
    BY <2>3 DEF Refreshing, Cov!Free
<1>8. CASE task[j] = Cov!Free
  BY <1>1, <1>8 DEF Cov!Free, Cov!CoverageStep, Cov!ReadCoverage, Cov!WriteCoverage,
                    Cov!CountIndex, Cov!CountBase
<1>9. QED
  BY <1>5, <1>6, <1>7, <1>8 DEF Refreshing

\* A run of which nothing is seen by others goes on alone.
Deserted(i) == Running(i) /\ run'[i].pc = "finalize" => ~run'[i].alone

LEMMA DesertedByRequest ==
  ASSUME TypeOK, NEW touched, RequestStep(touched), NEW i \in Jobs
  PROVE  Deserted(i)
BY RequestStepKeeps DEF Others, Deserted

\* Nobody was, and nobody comes, to the end.
LEMMA OnlyRunsFinalize ==
  ASSUME TypeOK, NEW i \in Jobs, KeptRun(i), run'[i].pc = "finalize"
  PROVE  Running(i) /\ run[i].pc = "finalize"
BY DEF KeptRun, Running, RunSteps, OpenSteps

LEMMA NextAloneRefresh ==
  ASSUME TypeOK, AloneRefresh, Next
  PROVE  AloneRefresh'
<1> SUFFICES ASSUME NEW i \in Jobs, run'[i].pc = "finalize", run'[i].alone, run'[i].scoped
             PROVE  Refreshing(i)'
  BY DEF AloneRefresh, Refreshing
<1>0. run[i].pc = "finalize" /\ run[i].alone /\ run[i].scoped => Refreshing(i)
  BY DEF AloneRefresh, Refreshing
<1>1. CASE \E q \in Requests: RequestNext(q)
  <2>1. PICK q \in Requests: RequestNext(q)
    BY <1>1
  <2>2. KillRequest(q)
    <3>1. ASSUME NEW touched, RequestStep(touched) PROVE FALSE
      <4>1. KeptRun(i)
        BY <3>1, RequestStepKeeps
      <4>2. QED
        BY <3>1, <4>1, OnlyRunsFinalize, DesertedByRequest DEF Deserted
    <3>2. QED
      BY <2>1, <3>1 DEF RequestNext, SaveRecord, DeleteRecord, Change, FindRow, BuildDoc,
                        PutRow, FindDeletedRow, RemoveRow, NotifyCoverage
  <2>3. run' = run /\ UNCHANGED <<base, index>> /\ Cov!CoverageKill(q)
    BY <2>2 DEF KillRequest
  <2>4. q \in Processes /\ i \in Processes /\ i # q
    BY ProcessesAssumption DEF Processes, Jobs
  <2>5. task'[i] = task[i] /\ UNCHANGED coverage
    BY <2>3, <2>4, CoverageOfKill DEF TypeOK
  <2>6. QED
    BY <1>0, <2>3, <2>5, RefreshingStays
<1>2. CASE \E p \in Processes: CoverageStatement(p)
  <2>1. PICK p \in Processes: CoverageStatement(p)
    BY <1>2
  <2>2. KeptRun(i) /\ (Running(i) /\ i # p => ~run'[i].alone) /\ (p \in Jobs => run'[p] = run[p])
    BY <2>1, StatementActs
  <2>3. i = p /\ run'[i] = run[i]
    BY <2>2, OnlyRunsFinalize
  <2>4. QED
    BY <1>0, <2>1, <2>3, RefreshingGoesOn
<1>3. CASE RefreshCoverage
  BY <1>3, RefreshActs, OnlyRunsFinalize
<1>4. ASSUME NEW j \in Jobs, Refuses(j) \/ StopRun(j)
      PROVE  Refreshing(i)'
  <2>1. i # j
    BY <1>4, RefuseRunActs, StopRunActs
  <2>2. run'[i] = run[i]
    BY <1>4, <2>1, RefuseRunActs, StopRunActs
  <2>3. UNCHANGED <<base, index>> /\ (UNCHANGED <<coverage, task>> \/ Cov!CoverageKill(j))
    BY <1>4 DEF Refuses, RefuseRun, StopRun
  <2>4. j \in Processes /\ i \in Processes
    BY DEF Processes
  <2>5. task'[i] = task[i] /\ UNCHANGED coverage
    BY <2>1, <2>3, <2>4, CoverageOfKill DEF TypeOK
  <2>6. QED
    BY <1>0, <2>2, <2>3, <2>5, RefreshingStays
<1>5. ASSUME NEW j \in Jobs, j # i,
             \/ Starts(j)
             \/ RunNext(j) /\ ~CoverageStatement(j)
             \/ FailRun(j)
      PROVE  FALSE
  <2>1. KeptRun(i) /\ (Running(i) => ~run'[i].alone)
    BY <1>5, StartRunActs, OpenJobActs, ReadStartedAtActs, PurgeBeforeForceActs,
       PurgeFailsActs, ResetCoverageActs, ReadBatchActs, WriteBatchActs, ProgressActs, PurgeActs,
       CloseJobActs, FailRunActs DEF RunActs, Moves, RunNext
  <2>2. QED
    BY <2>1, OnlyRunsFinalize
<1>6. ASSUME \/ Starts(i)
             \/ RunNext(i) /\ ~CoverageStatement(i)
             \/ FailRun(i)
      PROVE  Refreshing(i)'
  <2>1. Purge(i)
    BY <1>6, StartRunActs, OpenJobActs, ReadStartedAtActs, PurgeBeforeForceActs,
       PurgeFailsActs, ResetCoverageActs, ReadBatchActs, WriteBatchActs, ProgressActs,
       CloseJobActs, FailRunActs DEF Moves, RunNext
  <2>2. i \in Processes /\ Cov!Begin(i, Cov!RefreshTask) /\ UNCHANGED coverage
    BY <2>1, PurgeActs DEF Processes, Purge, SameScopeOf
  <2>3. task'[i] = Cov!RefreshTask
    BY <2>2, CoverageOfRefreshing DEF TypeOK
  <2>4. QED
    BY <2>3 DEF Refreshing, Cov!RefreshTask
<1>7. QED
  BY <1>1, <1>2, <1>3, <1>4, <1>5, <1>6 DEF Next, RunNext, Processes, Refuses, Starts


---------------------------------------------------------------------------
(* The walk.                                                               *)

LEMMA RecordsAreNumbers == \A r \in Records: r \in Nat /\ r > 0
BY RecordsAssumption

\* Where another run stands is not changed by a step beside it.
LEMMA KeptWalk ==
  ASSUME TypeOK, NEW i \in Jobs, KeptRun(i)
  PROVE  /\ ToCome(i)' = ToCome(i)
         /\ \A r \in Records: Passed(i, r)' <=> Passed(i, r)
<1>1. CASE Running(i)
  BY <1>1 DEF KeptRun, ToCome, Passed, InPartition, PartitionOf
<1>2. CASE ~Running(i)
  <2>1. run'[i] = run[i]
    BY <1>2 DEF KeptRun
  <2>2. QED
    BY <2>1 DEF ToCome, Passed, InPartition, PartitionOf
<1>3. QED
  BY <1>1, <1>2

\* A batch has every row to come up to its last one.
LEMMA NextBatchPrefix ==
  ASSUME NEW j \in Jobs, NEW r \in Rest(j), NEW s \in NextBatch(j), r <= s
  PROVE  r \in NextBatch(j)
<1>1. Rest(j) \in SUBSET Records
  BY DEF Rest, ActiveIn, InPartition
<1>2. s \in Rest(j) /\ Cardinality({t \in Rest(j) : t < s}) < BatchSize
  BY DEF NextBatch
<1>3. {t \in Rest(j) : t < r} \subseteq {t \in Rest(j) : t < s}
  BY <1>1, <1>2, RecordsAreNumbers
<1>4. {t \in Rest(j) : t < s} \subseteq Records
  BY <1>1
<1>5. IsFiniteSet({t \in Rest(j) : t < s})
  BY <1>4, RecordsAssumption, FS_Subset
<1>6. Cardinality({t \in Rest(j) : t < r}) <= Cardinality({t \in Rest(j) : t < s})
      /\ IsFiniteSet({t \in Rest(j) : t < r})
  BY <1>3, <1>5, FS_Subset
<1>7. Cardinality({t \in Rest(j) : t < r}) < BatchSize
  BY <1>2, <1>5, <1>6, FS_CardinalityType, BatchAssumption
<1>8. QED
  BY <1>7 DEF NextBatch

\* Reading goes past no row that is there.
LEMMA ReadPassesNone ==
  ASSUME TypeOK, NEW j \in Jobs, ReadBatch(j), NEW r \in InPartition(run[j].partition), Active(r)
  PROVE  /\ Passed(j, r)' <=> Passed(j, r)
         /\ Passed(j, r) <=> r <= run[j].last
         /\ r > run[j].last => run'[j].pc = "write"
<1>1. r \in Records /\ r \in Nat /\ run[j].last \in Nat
  <2>1. run[j].last \in Records \cup {0}
    BY ReadBatchActs, RunFields
  <2>2. r \in Records
    BY DEF InPartition
  <2>3. QED
    BY <2>1, <2>2, RecordsAreNumbers
<1>2. run[j].pc = "read" /\ run'[j].last = run[j].last
  BY ReadBatchActs
<1>3. Passed(j, r) <=> r <= run[j].last
  BY <1>2 DEF Passed
<1>4. r > run[j].last => r \in Rest(j)
  BY <1>1 DEF Rest, ActiveIn, InPartition
<1>5. CASE Rest(j) = {}
  <2>1. run'[j].pc = "purge" /\ run'[j].partition = run[j].partition
    BY <1>5, ReadBatchActs DEF Moves, SameRun
  <2>2. Passed(j, r)'
    BY <2>1 DEF Passed, InPartition, PartitionOf
  <2>3. QED
    BY <1>1, <1>3, <1>4, <1>5, <2>2
<1>6. CASE Rest(j) # {}
  <2>1. /\ run'[j].pc = "write" /\ run'[j].partition = run[j].partition
        /\ run'[j].batch = [n \in NextBatch(j) |-> base[n].version]
    BY <1>6, ReadBatchActs DEF Moves, SameRun
  <2>2. DOMAIN run'[j].batch = NextBatch(j)
    BY <2>1
  <2>3. Passed(j, r)' <=> \/ r <= run[j].last
                          \/ (\E s \in NextBatch(j): r <= s) /\ r \notin NextBatch(j)
    BY <1>2, <2>1, <2>2 DEF Passed, InPartition, PartitionOf
  <2>4. Passed(j, r)' <=> r <= run[j].last
    BY <1>1, <1>4, <2>3, NextBatchPrefix
  <2>5. QED
    BY <1>3, <2>1, <2>4
<1>7. QED
  BY <1>5, <1>6

\* Writing a batch goes past its rows.
LEMMA WritePassesBatch ==
  ASSUME TypeOK, NEW j \in Jobs, WriteBatch(j), NEW r \in Records \ DOMAIN run[j].batch
  PROVE  Passed(j, r)' <=> Passed(j, r)
BY WriteBatchActs DEF Passed, Moves, SameRun, InPartition, PartitionOf

LEMMA ProgressPassesNone ==
  ASSUME TypeOK, NEW j \in Jobs, Progress(j), NEW r \in Records
  PROVE  Passed(j, r)' => Passed(j, r)
<1>1. /\ run[j].pc = "progress" /\ run'[j].pc = "read" /\ run'[j].last \in DOMAIN run[j].batch
      /\ run'[j].partition = run[j].partition
      /\ \A s \in DOMAIN run[j].batch: s <= run'[j].last
  BY ProgressActs DEF Moves, SameRun
<1>2. DOMAIN run[j].batch \subseteq Records /\ run[j].last \in Records \cup {0}
  BY ProgressActs, RunFields
<1>3. Passed(j, r)' <=> r \in InPartition(run[j].partition) /\ r <= run'[j].last
  BY <1>1 DEF Passed, InPartition, PartitionOf
<1>4. Passed(j, r) <=> /\ r \in InPartition(run[j].partition)
                       /\ r <= run[j].last \/ \E s \in DOMAIN run[j].batch: r <= s
  BY <1>1 DEF Passed
<1>5. (\E s \in DOMAIN run[j].batch: r <= s) <=> r <= run'[j].last
  BY <1>1, <1>2, RecordsAreNumbers
<1>6. QED
  BY <1>3, <1>4, <1>5


---------------------------------------------------------------------------
(* What each action leaves of the two tables.                              *)

\* Nothing is written; records may be given up.
Still == UNCHANGED <<base, index, changes>> /\ outdated \subseteq outdated'

\* Only documents of S are written, and settled.
Writes(S) ==
  /\ UNCHANGED <<base, changes>>
  /\ index' \in [Records -> Versions]
  /\ \A r \in Records \ S: index'[r] = index[r] /\ (r \in outdated => r \in outdated')

LEMMA SameSync ==
  ASSUME NEW r, base'[r] = base[r]
  PROVE  /\ Active(r)' <=> Active(r)
         /\ index'[r] = index[r] => (InSync(r)' <=> InSync(r))
BY DEF Active, InSync, Right

LEMMA StillSync ==
  ASSUME Still, NEW r
  PROVE  (Active(r)' <=> Active(r)) /\ (InSync(r)' <=> InSync(r))
BY SameSync DEF Still

LEMMA WritesSync ==
  ASSUME NEW S, Writes(S), NEW r \in Records
  PROVE  /\ Active(r)' <=> Active(r)
         /\ r \notin S => (InSync(r)' <=> InSync(r))
BY SameSync DEF Writes

\* The number of a change is new.
LEMMA ChangeData ==
  ASSUME TypeOK, NEW q \in Requests, NEW r \in Records, NEW state, Change(q, r, state)
  PROVE  /\ changes \in Nat /\ changes' = changes + 1
         /\ base'[r] = [state |-> state, version |-> changes']
         /\ base'[r].state = state /\ base'[r].version = changes'
         /\ \A s \in Records \ {r}: base'[s] = base[s]
         /\ UNCHANGED <<index, outdated>>
         /\ RequestStep({}) /\ req[q] = Waiting
<1>1. changes' = changes + 1 /\ changes \in Nat
  BY ChangesAssumption DEF Change, TypeOK
<1>2. base' = [base EXCEPT ![r] = [state |-> state, version |-> changes']]
  BY DEF Change
<1>3. base \in [Records -> BaseRows]
  BY DEF TypeOK
<1>4. /\ base'[r] = [state |-> state, version |-> changes']
      /\ \A s \in Records \ {r}: base'[s] = base[s]
  BY <1>2, <1>3
<1>5. UNCHANGED <<index, outdated>> /\ RequestStep({}) /\ req[q] = Waiting
  BY DEF Change
<1>6. QED
  BY <1>1, <1>4, <1>5

LEMMA PutRowData ==
  ASSUME TypeOK, NEW q \in Requests, PutRow(q), NEW r, r = req[q].record
  PROVE  /\ r \in Records /\ req[q].pc = "put" /\ req[q] \in Saves
         /\ Writes({r}) /\ index'[r] = req[q].doc.version
         /\ r \in outdated' <=> base[r].version # req[q].change /\ ~Right(r, req[q].doc.version)
         /\ RequestStep({r}) /\ req' = [req EXCEPT ![q] = Waiting]
<1>1. r \in Records /\ req[q].pc = "put" /\ req[q] \in Saves
  BY RequestShape DEF PutRow, Saving
<1>2. req[q].doc.version \in Versions
  BY <1>1 DEF Saves, BaseRows
<1>3. /\ index' = [index EXCEPT ![r] = req[q].doc.version]
      /\ Settle({r}, {s \in {r} : base[s].version # req[q].change /\ ~Right(s, req[q].doc.version)})
      /\ RequestStep({r}) /\ req' = [req EXCEPT ![q] = Waiting]
      /\ UNCHANGED <<base, changes>>
  BY DEF PutRow
<1>4. index \in [Records -> Versions]
  BY DEF TypeOK
<1>5. Writes({r}) /\ index'[r] = req[q].doc.version
  BY <1>1, <1>2, <1>3, <1>4 DEF Writes, Settle
<1>6. r \in outdated' <=> base[r].version # req[q].change /\ ~Right(r, req[q].doc.version)
  BY <1>3 DEF Settle
<1>7. QED
  BY <1>1, <1>3, <1>5, <1>6

LEMMA RemoveRowData ==
  ASSUME TypeOK, NEW q \in Requests, RemoveRow(q), NEW r, r = req[q].record
  PROVE  /\ r \in Records /\ req[q].pc = "remove" /\ req'[q].pc = "notify"
         /\ Writes({r}) /\ RequestStep({})
         /\ req[q].wasActive => index'[r] = 0
         /\ ~req[q].wasActive => index' = index /\ outdated' = outdated
<1>1. r \in Records /\ req[q].pc = "remove" /\ req'[q].pc = "notify"
  BY RemoveRowRequest
<1>2. /\ index' = IF req[q].wasActive THEN [index EXCEPT ![r] = 0] ELSE index
      /\ Settle(IF req[q].wasActive THEN {r} ELSE {}, {})
      /\ RequestStep({}) /\ UNCHANGED <<base, changes>>
  BY DEF RemoveRow
<1>3. index \in [Records -> Versions] /\ 0 \in Versions
  BY ChangesAssumption DEF TypeOK, Versions
<1>4. CASE req[q].wasActive
  BY <1>1, <1>2, <1>3, <1>4 DEF Writes, Settle
<1>5. CASE ~req[q].wasActive
  BY <1>1, <1>2, <1>3, <1>5 DEF Writes, Settle
<1>6. QED
  BY <1>4, <1>5

LEMMA PurgeBeforeForceData ==
  ASSUME TypeOK, NEW j \in Jobs, PurgeBeforeForce(j)
  PROVE  /\ Writes(Records) /\ UNCHANGED req
         /\ \A r \in Records: index'[r] = 0
         /\ \A r \in Records: Active(r) /\ r \notin InPartition(run[j].partition) => r \in outdated'
<1>1. /\ index' = [r \in Records |-> 0]
      /\ Settle(Records, ActiveIn(Records \ InPartition(run[j].partition)))
      /\ UNCHANGED <<base, changes, req>>
  BY DEF PurgeBeforeForce
<1>2. QED
  BY <1>1, ChangesAssumption DEF Writes, Settle, ActiveIn, Versions

LEMMA WriteBatchData ==
  ASSUME TypeOK, NEW j \in Jobs, WriteBatch(j)
  PROVE  /\ Writes(DOMAIN run[j].batch) /\ UNCHANGED req
         /\ DOMAIN run[j].batch \subseteq Records
         /\ \A r \in DOMAIN run[j].batch:
              /\ index'[r] = run[j].batch[r]
              /\ r \in outdated' <=> run[j].batch[r] # base[r].version
<1>1. PICK f: f = run[j].batch
  OBVIOUS
<1>2. DOMAIN f \subseteq Records /\ \A r \in DOMAIN f: f[r] \in Versions
  BY <1>1, WriteBatchActs, RunFields
<1>3. /\ index' = [r \in Records |-> IF r \in DOMAIN f THEN f[r] ELSE index[r]]
      /\ Settle(DOMAIN f, {r \in DOMAIN f : f[r] # base[r].version})
      /\ UNCHANGED <<base, changes, req>>
  BY <1>1 DEF WriteBatch
<1>4. index \in [Records -> Versions]
  BY DEF TypeOK
<1>5. Writes(DOMAIN f)
  BY <1>2, <1>3, <1>4 DEF Writes, Settle
<1>6. \A r \in DOMAIN f: index'[r] = f[r] /\ (r \in outdated' <=> f[r] # base[r].version)
  BY <1>2, <1>3 DEF Settle
<1>7. QED
  BY <1>1, <1>2, <1>3, <1>5, <1>6

LEMMA PurgeData ==
  ASSUME TypeOK, NEW j \in Jobs, Purge(j)
  PROVE  /\ Writes(Orphans(j)) /\ UNCHANGED req
         /\ Orphans(j) \subseteq InPartition(run[j].partition)
         /\ \A r \in Orphans(j): index'[r] = 0
         /\ \A r \in Records: Active(r) /\ r \in outdated => r \in outdated'
<1>1. /\ index' = [r \in Records |-> IF r \in Orphans(j) THEN 0 ELSE index[r]]
      /\ Settle({r \in Orphans(j) : ~Active(r)}, {})
      /\ UNCHANGED <<base, changes, req>>
  BY DEF Purge
<1>2. index \in [Records -> Versions] /\ 0 \in Versions
  BY ChangesAssumption DEF TypeOK, Versions
<1>3. Orphans(j) \subseteq InPartition(run[j].partition)
  BY DEF Orphans
<1>4. QED
  BY <1>1, <1>2, <1>3 DEF Writes, Settle, InPartition

\* The other actions.
Idle(q) == FindRow(q) \/ BuildDoc(q) \/ FindDeletedRow(q) \/ NotifyCoverage(q)

Aside(j) ==
  \/ Refuses(j) \/ Starts(j) \/ OpenJob(j) \/ ReadStartedAt(j) \/ PurgeFails(j)
  \/ ResetCoverage(j) \/ ReadBatch(j) \/ Progress(j)
  \/ CloseJob(j) \/ FailRun(j) \/ StopRun(j)

LEMMA IdleData == ASSUME NEW q, Idle(q) PROVE Still /\ RequestStep({})
BY DEF Idle, Still, FindRow, BuildDoc, FindDeletedRow, NotifyCoverage

LEMMA AsideData == ASSUME NEW j, Aside(j) PROVE Still /\ UNCHANGED req
BY DEF Aside, Still, Refuses, RefuseRun, Starts, StartRun, OpenJob, ReadStartedAt, PurgeFails,
       ResetCoverage, ReadBatch, Progress, CloseJob, FailRun, StopRun

LEMMA StatementData ==
  ASSUME RefreshCoverage \/ \E p: CoverageStatement(p)
  PROVE  Still /\ UNCHANGED <<req, outdated>>
BY DEF RefreshCoverage, CoverageStatement, Still

LEMMA KillRequestData ==
  ASSUME NEW q, KillRequest(q)
  PROVE  /\ Still /\ UNCHANGED run /\ req' = [req EXCEPT ![q] = Waiting]
         /\ \A r \in Records: Pending(q, r) /\ ~InSync(r) => r \in outdated'
BY DEF KillRequest, Still

\* A case for each action.
LEMMA NextCases ==
  ASSUME Next
  PROVE  \/ \E q \in Requests, r \in Records: SaveRecord(q, r) \/ DeleteRecord(q, r)
         \/ \E q \in Requests: Idle(q) \/ PutRow(q) \/ RemoveRow(q) \/ KillRequest(q)
         \/ RefreshCoverage \/ \E p \in Processes: CoverageStatement(p)
         \/ \E j \in Jobs: Aside(j) \/ PurgeBeforeForce(j) \/ WriteBatch(j) \/ Purge(j)
BY DEF Next, RequestNext, RunNext, Idle, Aside, Processes, Refuses, Starts


---------------------------------------------------------------------------
(* Versions.                                                               *)

LEMMA Numbers ==
  ASSUME TypeOK
  PROVE  /\ changes \in Nat
         /\ \A r \in Records: /\ base[r] \in BaseRows /\ base[r].version \in Nat
                              /\ index[r] \in Nat
BY ChangesAssumption DEF TypeOK, Versions, BaseRows

\* Whoever writes a document writes 0 or the number of a change.
LEMMA WritesVersions ==
  ASSUME TypeOK, VersionsMade, NEW S, Writes(S), \A r \in S \cap Records: index'[r] <= changes
  PROVE  VersionsMade'
<1>1. ASSUME NEW r \in Records
      PROVE  /\ base'[r].version <= changes' /\ index'[r] <= changes'
             /\ Active(r)' => base'[r].version # 0
  BY WritesSync DEF Writes, VersionsMade
<1>2. QED
  BY <1>1 DEF VersionsMade

LEMMA NextVersionsMade ==
  ASSUME TypeOK, VersionsMade, RequestsKnow, RunsKnow, Next
  PROVE  VersionsMade'
<1>1. ASSUME Still PROVE VersionsMade'
  BY <1>1 DEF Still, VersionsMade, Active
<1>2. ASSUME NEW q \in Requests, NEW r \in Records, NEW state, Change(q, r, state)
      PROVE  VersionsMade'
  <2>1. /\ changes \in Nat /\ changes' = changes + 1 /\ base'[r].version = changes'
        /\ \A s \in Records \ {r}: base'[s] = base[s]
        /\ index' = index
    BY <1>2, ChangeData
  <2>2. ASSUME NEW s \in Records
        PROVE  /\ base'[s].version <= changes' /\ index'[s] <= changes'
               /\ Active(s)' => base'[s].version # 0
    <3>1. base[s].version <= changes /\ index[s] <= changes /\ index'[s] = index[s]
          /\ base[s].version \in Nat /\ index[s] \in Nat
      BY <2>1, Numbers DEF VersionsMade
    <3>2. CASE s = r
      BY <2>1, <3>1, <3>2
    <3>3. CASE s # r
      <4>1. base'[s] = base[s]
        BY <2>1, <3>3
      <4>2. Active(s)' => base'[s].version # 0
        BY <4>1 DEF VersionsMade, Active
      <4>3. QED
        BY <2>1, <3>1, <4>1, <4>2
    <3>4. QED
      BY <3>2, <3>3
  <2>3. QED
    BY <2>2 DEF VersionsMade
<1>3. ASSUME NEW q \in Requests, PutRow(q) PROVE VersionsMade'
  <2>1. PICK r: r = req[q].record
    OBVIOUS
  <2>2. r \in Records /\ Writes({r}) /\ index'[r] = req[q].doc.version /\ req[q].pc = "put"
    BY <1>3, <2>1, PutRowData
  <2>3. req[q].doc.version <= changes
    BY <2>2 DEF RequestsKnow
  <2>4. QED
    BY <2>2, <2>3, WritesVersions
<1>4. ASSUME NEW q \in Requests, RemoveRow(q) PROVE VersionsMade'
  <2>1. PICK r: r = req[q].record
    OBVIOUS
  <2>2. r \in Records /\ Writes({r}) /\ (index'[r] = 0 \/ index'[r] = index[r])
    BY <1>4, <2>1, RemoveRowData
  <2>3. index'[r] <= changes
    BY <2>2, Numbers DEF VersionsMade
  <2>4. QED
    BY <2>2, <2>3, WritesVersions
<1>5. ASSUME NEW j \in Jobs, PurgeBeforeForce(j) PROVE VersionsMade'
  BY <1>5, PurgeBeforeForceData, Numbers, WritesVersions
<1>6. ASSUME NEW j \in Jobs, WriteBatch(j) PROVE VersionsMade'
  <2>1. \A r \in DOMAIN run[j].batch: run[j].batch[r] <= changes
    BY <1>6, WriteBatchActs DEF RunsKnow
  <2>2. QED
    BY <1>6, <2>1, WriteBatchData, WritesVersions
<1>7. ASSUME NEW j \in Jobs, Purge(j) PROVE VersionsMade'
  <2>1. Writes(Orphans(j)) /\ \A r \in Orphans(j): index'[r] = 0
    BY <1>7, PurgeData
  <2>2. QED
    BY <2>1, Numbers, WritesVersions
<1>8. QED
  BY <1>1, <1>2, <1>3, <1>4, <1>5, <1>6, <1>7, NextCases, IdleData, AsideData, StatementData,
     KillRequestData DEF SaveRecord, DeleteRecord

---------------------------------------------------------------------------
(* What requests know.                                                     *)

RequestKnows(q) ==
  LET r == req[q].record IN
    /\ Saving(q) => req[q].change <= changes
    /\ Saving(q) /\ base[r].version = req[q].change => Active(r)
    /\ req[q].pc = "put" => req[q].doc.version <= changes
    /\ req[q].pc = "put" /\ base[r].version = req[q].change => req[q].doc = base[r]
    /\ req[q].pc \in {"findDeleted", "remove"} => base[r].state = "deleted"
    /\ req[q].pc = "remove" /\ ~req[q].wasActive => index[r] = 0 \/ r \in outdated

LEMMA RequestsKnowEach == RequestsKnow <=> \A q \in Requests: RequestKnows(q)
BY Zenon DEF RequestsKnow, RequestKnows

LEMMA IdleKnows ==
  ASSUME NEW q, req'[q].pc \in {"idle", "notify"}
  PROVE  RequestKnows(q)'
BY DEF RequestKnows, Saving

\* A request whose record's rows stay, or are written as the others may write them.
LEMMA KnowsStays ==
  ASSUME TypeOK, NEW q \in Requests, RequestKnows(q), req'[q] = req[q], changes' = changes,
         base' = base, NEW r, r = req[q].record,
         r \in Records /\ base[r].state = "deleted" =>
           index'[r] = 0 \/ r \in outdated' \/ (index'[r] = index[r] /\ r \notin outdated)
  PROVE  RequestKnows(q)'
<1>1. CASE Saving(q)
  <2>1. req[q].pc \in {"find", "build", "put"}
    BY <1>1 DEF Saving
  <2>2. QED
    BY <1>1, <2>1 DEF RequestKnows, Saving, Active
<1>2. CASE req[q].pc \in {"findDeleted", "remove"}
  <2>1. r \in Records /\ base[r].state = "deleted"
    BY <1>2, RequestShape DEF RequestKnows
  <2>2. req[q].pc = "remove" /\ ~req[q].wasActive => index'[r] = 0 \/ r \in outdated'
    BY <2>1 DEF RequestKnows
  <2>3. QED
    BY <1>2, <2>1, <2>2 DEF RequestKnows, Saving
<1>3. CASE req[q].pc \in {"idle", "notify"}
  BY <1>3, IdleKnows
<1>4. QED
  BY <1>1, <1>2, <1>3, RequestShape DEF Saving

\* The table changes: a number that a request has read is not the new one,
\* and what is deleted stays so.
LEMMA KnowsChange ==
  ASSUME TypeOK, NEW q \in Requests, RequestKnows(q), req'[q] = req[q],
         NEW p \in Requests, NEW r \in Records, NEW state, Change(p, r, state),
         base[r].state # "deleted"
  PROVE  RequestKnows(q)'
<1>1. PICK s: s = req[q].record
  OBVIOUS
<1>2. /\ changes \in Nat /\ changes' = changes + 1 /\ base'[r].version = changes'
      /\ \A t \in Records \ {r}: base'[t] = base[t]
      /\ UNCHANGED <<index, outdated>>
  BY ChangeData
<1>3. CASE Saving(q)
  <2>1. s \in Records /\ req[q] \in Saves /\ req[q].pc \in {"find", "build", "put"}
    BY <1>1, <1>3, RequestShape DEF Saving
  <2>2. req[q].change \in Nat /\ req[q].doc.version \in Nat
    BY <2>1, ChangesAssumption DEF Saves, BaseRows, Versions
  <2>3. req[q].change <= changes /\ (req[q].pc = "put" => req[q].doc.version <= changes)
    BY <1>3 DEF RequestKnows
  <2>4. CASE s = r
    <3>1. base'[s].version # req[q].change
      BY <1>2, <2>2, <2>3, <2>4
    <3>2. QED
      BY <1>1, <1>2, <2>1, <2>2, <2>3, <3>1 DEF RequestKnows, Saving
  <2>5. CASE s # r
    <3>1. base'[s] = base[s]
      BY <1>2, <2>1, <2>5
    <3>2. Active(s)' <=> Active(s)
      BY <3>1 DEF Active
    <3>3. /\ base[s].version = req[q].change => Active(s)
          /\ req[q].pc = "put" /\ base[s].version = req[q].change => req[q].doc = base[s]
      BY <1>1, <1>3 DEF RequestKnows
    <3>4. QED
      BY <1>1, <1>2, <2>1, <2>2, <2>3, <3>1, <3>2, <3>3 DEF RequestKnows, Saving
  <2>6. QED
    BY <2>4, <2>5
<1>4. CASE req[q].pc \in {"findDeleted", "remove"}
  <2>1. s \in Records /\ base[s].state = "deleted"
    BY <1>1, <1>4, RequestShape DEF RequestKnows
  <2>2. base'[s] = base[s]
    BY <1>2, <2>1
  <2>3. QED
    BY <1>1, <1>2, <1>4, <2>1, <2>2 DEF RequestKnows, Saving
<1>5. CASE req[q].pc \in {"idle", "notify"}
  BY <1>5, IdleKnows
<1>6. QED
  BY <1>3, <1>4, <1>5, RequestShape DEF Saving


\* Each step of a request finds what it comes to know.
LEMMA ActorKnows ==
  ASSUME TypeOK, VersionsMade, NEW q \in Requests, RequestKnows(q), Idle(q)
  PROVE  RequestKnows(q)'
<1>1. Still
  BY IdleData
<1>2. CASE FindRow(q)
  <2>1. /\ req[q].pc = "find" /\ req'[q].pc = "build"
        /\ req'[q].record = req[q].record /\ req'[q].change = req[q].change
    BY <1>2, FindRowRequest
  <2>2. QED
    BY <1>1, <2>1 DEF RequestKnows, Saving, Still, Active
<1>3. CASE BuildDoc(q)
  <2>1. /\ req[q].pc = "build" /\ req'[q].pc = "put"
        /\ req'[q].record = req[q].record /\ req'[q].change = req[q].change
        /\ req'[q].doc = base[req[q].record]
    BY <1>3, BuildDocRequest
  <2>2. req[q].record \in Records
    BY <2>1, RequestShape DEF Saving
  <2>3. base[req[q].record].version <= changes
    BY <2>2 DEF VersionsMade
  <2>4. QED
    BY <1>1, <2>1, <2>3 DEF RequestKnows, Saving, Still, Active
<1>4. CASE FindDeletedRow(q)
  <2>1. /\ req[q].pc = "findDeleted" /\ req'[q].pc = "remove"
        /\ req'[q].record = req[q].record
        /\ req'[q].wasActive <=> index[req[q].record] # 0
    BY <1>4, FindDeletedRowRequest
  <2>2. QED
    BY <1>1, <2>1 DEF RequestKnows, Saving, Still
<1>5. CASE NotifyCoverage(q)
  <2>1. req' = [req EXCEPT ![q] = Waiting]
    BY <1>5 DEF NotifyCoverage
  <2>2. req'[q].pc \in {"idle", "notify"}
    BY <2>1, RequestOver
  <2>3. QED
    BY <2>2, IdleKnows
<1>6. QED
  BY <1>2, <1>3, <1>4, <1>5 DEF Idle

\* What a request knows survives what is written into the index.
LEMMA WrittenOverDeleted ==
  ASSUME TypeOK, RequestsKnow, RunsKnow, NEW r \in Records, base[r].state = "deleted",
         \/ \E q \in Requests: PutRow(q) \/ RemoveRow(q)
         \/ \E j \in Jobs: PurgeBeforeForce(j) \/ WriteBatch(j) \/ Purge(j)
  PROVE  index'[r] = 0 \/ r \in outdated' \/ (index'[r] = index[r] /\ r \notin outdated)
<1>1. ~Active(r)
  BY DEF Active
<1>2. ASSUME NEW S, Writes(S), r \notin S
      PROVE  r \in outdated' \/ (index'[r] = index[r] /\ r \notin outdated)
  BY <1>2 DEF Writes
<1>3. ASSUME NEW q \in Requests, PutRow(q), r = req[q].record
      PROVE  index'[r] = 0 \/ r \in outdated'
  <2>1. /\ req[q].pc = "put" /\ index'[r] = req[q].doc.version
        /\ r \in outdated' <=> base[r].version # req[q].change /\ ~Right(r, req[q].doc.version)
    BY <1>3, PutRowData
  <2>2. base[r].version # req[q].change
    BY <1>1, <1>3, <2>1 DEF RequestsKnow, Saving
  <2>3. QED
    BY <1>1, <2>1, <2>2 DEF Right
<1>4. ASSUME NEW q \in Requests, PutRow(q), r # req[q].record
      PROVE  r \in outdated' \/ (index'[r] = index[r] /\ r \notin outdated)
  <2>1. PICK s: s = req[q].record
    OBVIOUS
  <2>2. Writes({s}) /\ r \notin {s}
    BY <1>4, <2>1, PutRowData
  <2>3. QED
    BY <1>2, <2>2
<1>5. ASSUME NEW q \in Requests, RemoveRow(q)
      PROVE  index'[r] = 0 \/ r \in outdated' \/ (index'[r] = index[r] /\ r \notin outdated)
  <2>1. PICK s: s = req[q].record
    OBVIOUS
  <2>2. /\ Writes({s})
        /\ req[q].wasActive => index'[s] = 0
        /\ ~req[q].wasActive => index' = index /\ outdated' = outdated
    BY <1>5, <2>1, RemoveRowData
  <2>3. QED
    BY <1>2, <2>2
<1>6. ASSUME NEW j \in Jobs, WriteBatch(j)
      PROVE  index'[r] = 0 \/ r \in outdated' \/ (index'[r] = index[r] /\ r \notin outdated)
  <2>1. CASE r \in DOMAIN run[j].batch
    <3>1. run[j].batch[r] # base[r].version
      BY <1>1, <1>6, <2>1, WriteBatchActs DEF RunsKnow
    <3>2. QED
      BY <1>6, <2>1, <3>1, WriteBatchData
  <2>2. CASE r \notin DOMAIN run[j].batch
    BY <1>2, <1>6, <2>2, WriteBatchData
  <2>3. QED
    BY <2>1, <2>2
<1>7. ASSUME NEW j \in Jobs, Purge(j)
      PROVE  index'[r] = 0 \/ r \in outdated' \/ (index'[r] = index[r] /\ r \notin outdated)
  <2>1. Writes(Orphans(j)) /\ (r \in Orphans(j) => index'[r] = 0)
    BY <1>7, PurgeData
  <2>2. QED
    BY <1>2, <2>1
<1>8. QED
  BY <1>3, <1>4, <1>5, <1>6, <1>7, PurgeBeforeForceData

LEMMA NextRequestsKnow ==
  ASSUME TypeOK, VersionsMade, RequestsKnow, RunsKnow, Next
  PROVE  RequestsKnow'
<1> SUFFICES ASSUME NEW i \in Requests PROVE RequestKnows(i)'
  BY Zenon DEF RequestsKnow, RequestKnows
<1>0. RequestKnows(i)
  BY RequestsKnowEach
<1>1. PICK s: s = req[i].record
  OBVIOUS
<1>2. ASSUME Still, req'[i] = req[i] PROVE RequestKnows(i)'
  BY <1>0, <1>1, <1>2, KnowsStays DEF Still
<1>3. ASSUME NEW q \in Requests, NEW r \in Records, SaveRecord(q, r) PROVE RequestKnows(i)'
  <2>1. Change(q, r, "active") /\ base[r].state # "deleted"
    BY <1>3 DEF SaveRecord
  <2>2. CASE i = q
    <3>1. req'[q].pc = "find" /\ req'[q].record = r /\ req'[q].change = changes + 1
      BY <1>3, SaveRecordRequest
    <3>2. changes' = changes + 1 /\ changes \in Nat /\ base'[r].state = "active"
      BY <2>1, ChangeData
    <3>3. QED
      BY <2>2, <3>1, <3>2 DEF RequestKnows, Saving, Active
  <2>3. CASE i # q
    <3>1. req'[i] = req[i]
      BY <1>3, <2>3, SaveRecordRequest
    <3>2. QED
      BY <1>0, <2>1, <3>1, KnowsChange
  <2>4. QED
    BY <2>2, <2>3
<1>4. ASSUME NEW q \in Requests, NEW r \in Records, DeleteRecord(q, r) PROVE RequestKnows(i)'
  <2>1. Change(q, r, "deleted") /\ base[r].state # "deleted"
    BY <1>4 DEF DeleteRecord, Active
  <2>2. CASE i = q
    <3>1. req'[q].pc = "findDeleted" /\ req'[q].record = r
      BY <1>4, DeleteRecordRequest
    <3>2. base'[r].state = "deleted"
      BY <2>1, ChangeData
    <3>3. QED
      BY <2>2, <3>1, <3>2 DEF RequestKnows, Saving
  <2>3. CASE i # q
    <3>1. req'[i] = req[i]
      BY <1>4, <2>3, DeleteRecordRequest
    <3>2. QED
      BY <1>0, <2>1, <3>1, KnowsChange
  <2>4. QED
    BY <2>2, <2>3
<1>5. ASSUME NEW q \in Requests, Idle(q) PROVE RequestKnows(i)'
  <2>1. CASE i = q
    BY <1>0, <1>5, <2>1, ActorKnows
  <2>2. CASE i # q
    <3>1. req'[i] = req[i]
      BY <1>5, <2>2, FindRowRequest, BuildDocRequest, FindDeletedRowRequest, RequestOver
         DEF Idle, NotifyCoverage
    <3>2. QED
      BY <1>2, <1>5, <3>1, IdleData
  <2>3. QED
    BY <2>1, <2>2
<1>6. ASSUME NEW q \in Requests, PutRow(q) \/ RemoveRow(q) PROVE RequestKnows(i)'
  <2>1. UNCHANGED <<base, changes>>
    BY <1>6 DEF PutRow, RemoveRow
  <2>2. CASE i = q
    <3>1. req'[q].pc \in {"idle", "notify"}
      <4>1. CASE PutRow(q)
        BY <4>1, RequestOver DEF PutRow
      <4>2. CASE RemoveRow(q)
        BY <4>2, RemoveRowRequest
      <4>3. QED
        BY <1>6, <4>1, <4>2
    <3>2. QED
      BY <2>2, <3>1, IdleKnows
  <2>3. CASE i # q
    <3>1. req'[i] = req[i]
      <4>1. CASE PutRow(q)
        BY <2>3, <4>1, RequestOver DEF PutRow
      <4>2. CASE RemoveRow(q)
        BY <2>3, <4>2, RemoveRowRequest
      <4>3. QED
        BY <1>6, <4>1, <4>2
    <3>2. s \in Records /\ base[s].state = "deleted" =>
            index'[s] = 0 \/ s \in outdated' \/ (index'[s] = index[s] /\ s \notin outdated)
      BY <1>6, WrittenOverDeleted
    <3>3. QED
      BY <1>0, <1>1, <2>1, <3>1, <3>2, KnowsStays
  <2>4. QED
    BY <2>2, <2>3
<1>7. ASSUME NEW j \in Jobs, PurgeBeforeForce(j) \/ WriteBatch(j) \/ Purge(j)
      PROVE  RequestKnows(i)'
  <2>1. UNCHANGED <<base, changes, req>>
    BY <1>7 DEF PurgeBeforeForce, WriteBatch, Purge
  <2>2. s \in Records /\ base[s].state = "deleted" =>
          index'[s] = 0 \/ s \in outdated' \/ (index'[s] = index[s] /\ s \notin outdated)
    BY <1>7, WrittenOverDeleted
  <2>3. QED
    BY <1>0, <1>1, <2>1, <2>2, KnowsStays
<1>8. ASSUME NEW q \in Requests, KillRequest(q) PROVE RequestKnows(i)'
  <2>1. CASE i = q
    BY <1>8, <2>1, KillRequestData, RequestOver, IdleKnows
  <2>2. CASE i # q
    BY <1>2, <1>8, <2>2, KillRequestData, RequestOver
  <2>3. QED
    BY <2>1, <2>2
<1>9. ASSUME \/ RefreshCoverage \/ \E p \in Processes: CoverageStatement(p)
             \/ \E j \in Jobs: Aside(j)
      PROVE  RequestKnows(i)'
  BY <1>2, <1>9, StatementData, AsideData
<1>10. QED
  BY <1>3, <1>4, <1>5, <1>6, <1>7, <1>8, <1>9, NextCases


---------------------------------------------------------------------------
(* What runs know.                                                         *)

RunKnows(j) ==
  /\ run[j].pc \in {"prepare", "startedAt", "reset", "resetCoverage"} => run[j].last = 0
  /\ run[j].pc \in {"write", "progress"} =>
       DOMAIN run[j].batch \subseteq InPartition(run[j].partition)
  /\ run[j].pc = "write" =>
       \A r \in DOMAIN run[j].batch:
         /\ run[j].batch[r] <= changes
         /\ run[j].batch[r] = base[r].version => Active(r)

LEMMA RunsKnowEach == RunsKnow <=> \A j \in Jobs: RunKnows(j)
BY Zenon DEF RunsKnow, RunKnows

\* The runs that do not take the action.
LEMMA ActorKeepsOthers ==
  ASSUME TypeOK, NEW j \in Jobs, Aside(j) \/ PurgeBeforeForce(j) \/ WriteBatch(j) \/ Purge(j)
  PROVE  \A i \in Jobs \ {j}: KeptRun(i)
<1>1. CASE Refuses(j) \/ Starts(j) \/ StopRun(j) \/ PurgeBeforeForce(j)
  BY <1>1, RefuseRunActs, StartRunActs, StopRunActs, PurgeBeforeForceActs DEF RunActs
<1>2. CASE OpenJob(j) \/ ReadStartedAt(j) \/ PurgeFails(j) \/ ResetCoverage(j)
  BY <1>2, OpenJobActs, ReadStartedAtActs, PurgeFailsActs, ResetCoverageActs DEF RunActs, Moves
<1>3. CASE ReadBatch(j) \/ WriteBatch(j) \/ Progress(j)
  BY <1>3, ReadBatchActs, WriteBatchActs, ProgressActs DEF RunActs, Moves
<1>4. CASE Purge(j) \/ CloseJob(j) \/ FailRun(j)
  BY <1>4, PurgeActs, CloseJobActs, FailRunActs DEF RunActs
<1>5. QED
  BY <1>1, <1>2, <1>3, <1>4 DEF Aside

\* Steps of no run, and statements on the coverage row, leave every walk as it is.
LEMMA NoRunActs ==
  ASSUME TypeOK,
         \/ \E q \in Requests, r \in Records: SaveRecord(q, r) \/ DeleteRecord(q, r)
         \/ \E q \in Requests: Idle(q) \/ PutRow(q) \/ RemoveRow(q) \/ KillRequest(q)
         \/ RefreshCoverage \/ \E p \in Processes: CoverageStatement(p)
  PROVE  \A i \in Jobs: KeptRun(i)
<1>1. ASSUME NEW touched, RequestStep(touched) PROVE \A i \in Jobs: KeptRun(i)
  BY <1>1, RequestStepKeeps
<1>2. ASSUME NEW q \in Requests, NEW r \in Records, SaveRecord(q, r) \/ DeleteRecord(q, r)
      PROVE  \A i \in Jobs: KeptRun(i)
  BY <1>1, <1>2, ChangeData DEF SaveRecord, DeleteRecord
<1>3. ASSUME NEW q \in Requests, Idle(q) \/ PutRow(q) \/ RemoveRow(q) \/ KillRequest(q)
      PROVE  \A i \in Jobs: KeptRun(i)
  BY <1>1, <1>3, IdleData, PutRowData, RemoveRowData, KillRequestData, SameIsKept
<1>4. ASSUME RefreshCoverage \/ \E p \in Processes: CoverageStatement(p)
      PROVE  \A i \in Jobs: KeptRun(i)
  BY <1>4, RefreshActs, StatementActs
<1>5. QED
  BY <1>2, <1>3, <1>4

LEMMA OthersKept ==
  ASSUME TypeOK, Next
  PROVE  \/ \A i \in Jobs: KeptRun(i)
         \/ \E j \in Jobs: /\ Aside(j) \/ PurgeBeforeForce(j) \/ WriteBatch(j) \/ Purge(j)
                           /\ \A i \in Jobs \ {j}: KeptRun(i)
BY NextCases, NoRunActs, ActorKeepsOthers

\* The run that takes the action.
LEMMA ActorRunKnows ==
  ASSUME TypeOK, VersionsMade, NEW j \in Jobs, RunKnows(j),
         Aside(j) \/ PurgeBeforeForce(j) \/ WriteBatch(j) \/ Purge(j)
  PROVE  RunKnows(j)'
<1>1. CASE OpenJob(j) \/ PurgeFails(j)
  BY <1>1, OpenJobActs, PurgeFailsActs DEF RunKnows, Moves
<1>2. CASE ReadStartedAt(j)
  BY <1>2, ReadStartedAtActs DEF RunKnows, Moves, SameRun
<1>3. CASE PurgeBeforeForce(j)
  BY <1>3, PurgeBeforeForceActs DEF RunKnows
<1>4. CASE ResetCoverage(j) \/ Progress(j)
  BY <1>4, ResetCoverageActs, ProgressActs DEF RunKnows, Moves
<1>5. CASE ReadBatch(j)
  <2>1. CASE Rest(j) = {}
    BY <1>5, <2>1, ReadBatchActs DEF RunKnows, Moves
  <2>2. CASE Rest(j) # {}
    <3>1. PICK f: f = [r \in NextBatch(j) |-> base[r].version]
      OBVIOUS
    <3>2. run'[j].pc = "write" /\ run'[j].partition = run[j].partition /\ run'[j].batch = f
      BY <1>5, <2>2, <3>1, ReadBatchActs DEF Moves, SameRun
    <3>3. UNCHANGED <<base, changes>>
      BY <1>5 DEF ReadBatch
    <3>4. /\ DOMAIN f \subseteq InPartition(run[j].partition)
          /\ \A r \in DOMAIN f: r \in Records /\ Active(r) /\ f[r] = base[r].version
      BY <3>1 DEF NextBatch, Rest, ActiveIn, InPartition
    <3>5. \A r \in DOMAIN f: f[r] <= changes /\ Active(r)
      BY <3>4 DEF VersionsMade
    <3>6. QED
      BY <3>2, <3>3, <3>4, <3>5 DEF RunKnows, Active, InPartition, PartitionOf
  <2>3. QED
    BY <2>1, <2>2
<1>6. CASE WriteBatch(j)
  BY <1>6, WriteBatchActs DEF RunKnows, Moves, SameRun, InPartition, PartitionOf
<1>7. CASE Purge(j) \/ FailRun(j) \/ CloseJob(j)
  BY <1>7, PurgeActs, FailRunActs, CloseJobActs DEF RunKnows
<1>8. CASE Starts(j)
  BY <1>8, StartRunActs DEF RunKnows
<1>9. CASE StopRun(j) \/ Refuses(j)
  BY <1>9, StopRunActs, RefuseRunActs DEF RunKnows
<1>10. QED
  BY <1>1, <1>2, <1>3, <1>4, <1>5, <1>6, <1>7, <1>8, <1>9 DEF Aside

LEMMA KeptRunKnows ==
  ASSUME TypeOK, NEW i \in Jobs, RunKnows(i), KeptRun(i),
         \/ UNCHANGED <<base, changes>>
         \/ \E q \in Requests, r \in Records: \E state: Change(q, r, state)
  PROVE  RunKnows(i)'
<1>1. CASE ~Running(i)
  <2>1. run'[i] = run[i] /\ run[i].pc \notin RunSteps
    BY <1>1 DEF KeptRun, Running
  <2>2. QED
    BY <2>1 DEF RunKnows, RunSteps, OpenSteps
<1>2. CASE Running(i)
  <2>1. /\ run'[i].pc = run[i].pc /\ run'[i].last = run[i].last /\ run'[i].batch = run[i].batch
        /\ run'[i].partition = run[i].partition
    BY <1>2 DEF KeptRun
  <2>2. ASSUME run[i].pc = "write", NEW r \in DOMAIN run[i].batch
        PROVE  /\ run[i].batch[r] <= changes'
               /\ run[i].batch[r] = base'[r].version => Active(r)'
    <3>1. /\ r \in Records /\ run[i].batch[r] <= changes /\ run[i].batch[r] \in Nat
          /\ run[i].batch[r] = base[r].version => Active(r)
      BY <1>2, <2>2, RunFields, ChangesAssumption DEF RunKnows, Versions
    <3>2. CASE UNCHANGED <<base, changes>>
      BY <3>1, <3>2 DEF Active
    <3>3. CASE \E q \in Requests, s \in Records: \E state: Change(q, s, state)
      <4>1. PICK q \in Requests, s \in Records: \E state: Change(q, s, state)
        BY <3>3
      <4>2. /\ changes' = changes + 1 /\ changes \in Nat /\ base'[s].version = changes'
            /\ \A t \in Records \ {s}: base'[t] = base[t]
        BY <4>1, ChangeData
      <4>3. CASE r = s
        BY <3>1, <4>2, <4>3
      <4>4. CASE r # s
        <5>1. base'[r] = base[r]
          BY <3>1, <4>2, <4>4
        <5>2. QED
          BY <3>1, <4>2, <5>1 DEF Active
      <4>5. QED
        BY <4>3, <4>4
    <3>4. QED
      BY <3>2, <3>3
  <2>3. QED
    BY <2>1, <2>2 DEF RunKnows, InPartition, PartitionOf
<1>3. QED
  BY <1>1, <1>2

LEMMA NextRunsKnow ==
  ASSUME TypeOK, VersionsMade, RunsKnow, Next
  PROVE  RunsKnow'
<1> SUFFICES ASSUME NEW i \in Jobs PROVE RunKnows(i)'
  BY Zenon DEF RunsKnow, RunKnows
<1>1. RunKnows(i)
  BY RunsKnowEach
<1>2. \/ UNCHANGED <<base, changes>>
      \/ \E q \in Requests, r \in Records: \E state: Change(q, r, state)
  BY NextCases, IdleData, AsideData, StatementData, KillRequestData
     DEF SaveRecord, DeleteRecord, Still, PutRow, RemoveRow, PurgeBeforeForce, WriteBatch, Purge
<1>3. CASE KeptRun(i)
  BY <1>1, <1>2, <1>3, KeptRunKnows
<1>4. CASE ~KeptRun(i)
  BY <1>1, <1>4, OthersKept, ActorRunKnows
<1>5. QED
  BY <1>3, <1>4


---------------------------------------------------------------------------
(* Rows the walk has passed.                                               *)

LEMMA PassedRuns ==
  ASSUME TypeOK, NEW i \in Jobs, NEW r, Passed(i, r)
  PROVE  Running(i) /\ run[i].pc \in {"read", "write", "progress", "purge"}
BY DEF Passed, Running, RunSteps, OpenSteps

\* An active row that is emptied is wrong.
LEMMA EmptiedIsWrong ==
  ASSUME TypeOK, VersionsMade, NEW r \in Records, Active(r), base'[r] = base[r], index'[r] = 0
  PROVE  ~InSync(r)'
<1>1. base[r].version # 0
  BY DEF VersionsMade
<1>2. QED
  BY <1>1 DEF InSync, Right, Active

\* So is one that has just been changed.
LEMMA ChangedIsWrong ==
  ASSUME TypeOK, VersionsMade, NEW q \in Requests, NEW r \in Records, NEW state,
         Change(q, r, state), Active(r)'
  PROVE  ~InSync(r)'
<1>1. changes' = changes + 1 /\ base'[r].version = changes' /\ index'[r] = index[r]
  BY ChangeData
<1>2. index[r] <= changes /\ index[r] \in Nat /\ changes \in Nat
  BY Numbers DEF VersionsMade
<1>3. QED
  BY <1>1, <1>2 DEF InSync, Right

\* The walk of the acting run passes no active row but those it writes.
LEMMA ActorPasses ==
  ASSUME TypeOK, VersionsMade, NEW j \in Jobs, RunKnows(j), NEW r \in Records, Passed(j, r)',
         Active(r)', Aside(j) \/ PurgeBeforeForce(j) \/ WriteBatch(j) \/ Purge(j)
  PROVE  /\ run'[j].partition = run[j].partition /\ Running(j)
         /\ run'[j].quiet <=> run[j].quiet
         /\ \/ WriteBatch(j) /\ r \in DOMAIN run[j].batch
            \/ WriteBatch(j) /\ r \notin DOMAIN run[j].batch /\ Passed(j, r)
            \/ (ReadBatch(j) \/ Progress(j)) /\ Passed(j, r) /\ run'[j].old = run[j].old
<1>1. run'[j].pc \in {"read", "write", "progress", "purge"}
  BY DEF Passed
<1>2. CASE WriteBatch(j)
  <2>1. run'[j].partition = run[j].partition /\ (run'[j].quiet <=> run[j].quiet) /\ Running(j)
    BY <1>2, WriteBatchActs DEF Moves, SameRun
  <2>2. QED
    BY <1>2, <2>1, WritePassesBatch
<1>3. CASE ReadBatch(j)
  <2>1. /\ run'[j].partition = run[j].partition /\ (run'[j].quiet <=> run[j].quiet)
        /\ Running(j) /\ run'[j].old = run[j].old
    BY <1>3, ReadBatchActs DEF Moves, SameRun
  <2>2. r \in InPartition(run[j].partition)
    BY <2>1 DEF Passed, InPartition, PartitionOf
  <2>3. Active(r)
    BY <1>3 DEF ReadBatch, Active
  <2>4. QED
    BY <1>3, <2>1, <2>2, <2>3, ReadPassesNone
<1>4. CASE Progress(j)
  <2>1. /\ run'[j].partition = run[j].partition /\ (run'[j].quiet <=> run[j].quiet)
        /\ Running(j) /\ run'[j].old = run[j].old
    BY <1>4, ProgressActs DEF Moves, SameRun
  <2>2. QED
    BY <1>4, <2>1, ProgressPassesNone
<1>5. CASE ReadStartedAt(j) \/ ResetCoverage(j)
  <2>1. run'[j].pc \in {"read", "reset", "resetCoverage"} /\ run'[j].last = 0
    BY <1>5, ReadStartedAtActs, ResetCoverageActs DEF RunKnows, Moves
  <2>2. FALSE
    BY <2>1, RecordsAreNumbers DEF Passed
  <2>3. QED
    BY <2>2
<1>6. CASE ~(WriteBatch(j) \/ ReadBatch(j) \/ Progress(j) \/ ReadStartedAt(j) \/ ResetCoverage(j))
  <2>1. run'[j].pc \notin {"read", "write", "progress", "purge"}
    BY <1>6, RefuseRunActs, StartRunActs, StopRunActs, OpenJobActs, PurgeBeforeForceActs,
       PurgeFailsActs, PurgeActs, CloseJobActs, FailRunActs DEF Aside, Moves
  <2>2. QED
    BY <1>1, <2>1
<1>7. QED
  BY <1>2, <1>3, <1>4, <1>5, <1>6

\* What a step beside a run does to a row that the walk has passed.
LEMMA BesidePassed ==
  ASSUME TypeOK, VersionsMade, RequestsKnow, Next,
         NEW i \in Jobs, KeptRun(i), NEW r \in Records, Passed(i, r)', Active(r)',
         r \in run'[i].old
  PROVE  /\ Passed(i, r) /\ r \in run[i].old
         /\ ~InSync(r)' \/ (Active(r) /\ (InSync(r)' => InSync(r)))
<1>1. Passed(i, r) /\ Running(i) /\ run[i].pc \in {"read", "write", "progress", "purge"}
  BY KeptWalk, PassedRuns
<1>2. r \in run[i].old
  BY <1>1 DEF KeptRun
<1>3. ASSUME Still PROVE Active(r) /\ (InSync(r)' => InSync(r))
  BY <1>3, StillSync
<1>4. ASSUME NEW q \in Requests, NEW s \in Records, NEW state, Change(q, s, state)
      PROVE  ~InSync(r)' \/ (Active(r) /\ (InSync(r)' => InSync(r)))
  <2>1. CASE r = s
    BY <1>4, <2>1, ChangedIsWrong
  <2>2. CASE r # s
    <3>1. (\A t \in Records \ {s}: base'[t] = base[t]) /\ index' = index
      BY <1>4, ChangeData
    <3>2. base'[r] = base[r] /\ index'[r] = index[r]
      BY <2>2, <3>1
    <3>3. QED
      BY <3>2, SameSync
  <2>3. QED
    BY <2>1, <2>2
<1>5. ASSUME NEW q \in Requests, PutRow(q)
      PROVE  Active(r) /\ (InSync(r)' => InSync(r))
  <2>1. PICK s: s = req[q].record
    OBVIOUS
  <2>2. Writes({s}) /\ RequestStep({s})
    BY <1>5, <2>1, PutRowData
  <2>3. run'[i].old = run[i].old \ {s}
    BY <1>1, <2>2, RequestStepKeeps DEF Others
  <2>4. r \notin {s}
    BY <2>3
  <2>5. QED
    BY <2>2, <2>4, WritesSync
<1>6. ASSUME NEW q \in Requests, RemoveRow(q)
      PROVE  Active(r) /\ (InSync(r)' => InSync(r))
  <2>1. PICK s: s = req[q].record
    OBVIOUS
  <2>2. Writes({s}) /\ req[q].pc = "remove"
    BY <1>6, <2>1, RemoveRowData
  <2>3. base[s].state = "deleted"
    BY <2>1, <2>2 DEF RequestsKnow
  <2>4. Active(r)
    BY <2>2, WritesSync
  <2>5. r \notin {s}
    BY <2>3, <2>4 DEF Active
  <2>6. QED
    BY <2>2, <2>4, <2>5, WritesSync
<1>7. ASSUME NEW j \in Jobs, PurgeBeforeForce(j) PROVE ~InSync(r)'
  <2>1. Writes(Records) /\ index'[r] = 0
    BY <1>7, PurgeBeforeForceData
  <2>2. QED
    BY <2>1, WritesSync, EmptiedIsWrong DEF Writes
<1>8. ASSUME NEW j \in Jobs, WriteBatch(j)
      PROVE  Active(r) /\ (InSync(r)' => InSync(r))
  <2>1. i # j
    BY <1>8, WriteBatchActs DEF KeptRun, Moves
  <2>2. PICK S: S = DOMAIN run[j].batch
    OBVIOUS
  <2>3. Writes(S) /\ RunActs(j, run[j], S)
    BY <1>8, <2>2, WriteBatchActs, WriteBatchData DEF Moves
  <2>4. run'[i].old = run[i].old \ S
    BY <1>1, <2>1, <2>3 DEF RunActs
  <2>5. r \notin S
    BY <2>4
  <2>6. QED
    BY <2>3, <2>5, WritesSync
<1>9. ASSUME NEW j \in Jobs, Purge(j)
      PROVE  ~InSync(r)' \/ (Active(r) /\ (InSync(r)' => InSync(r)))
  <2>1. Writes(Orphans(j)) /\ (r \in Orphans(j) => index'[r] = 0)
    BY <1>9, PurgeData
  <2>2. QED
    BY <2>1, WritesSync, EmptiedIsWrong DEF Writes
<1>10. QED
  BY <1>1, <1>2, <1>3, <1>4, <1>5, <1>6, <1>7, <1>8, <1>9, NextCases, IdleData, AsideData,
     StatementData, KillRequestData DEF SaveRecord, DeleteRecord

LEMMA NextOldAreWrong ==
  ASSUME TypeOK, VersionsMade, RequestsKnow, RunsKnow, OldAreWrong, Next
  PROVE  OldAreWrong'
<1> SUFFICES ASSUME NEW i \in Jobs, NEW r \in Records, Passed(i, r)', Active(r)',
                    r \in run'[i].old
             PROVE  ~InSync(r)'
  BY DEF OldAreWrong
<1>1. Passed(i, r) /\ Active(r) /\ r \in run[i].old => ~InSync(r)
  BY DEF OldAreWrong
<1>2. CASE KeptRun(i)
  BY <1>1, <1>2, BesidePassed
<1>3. CASE ~KeptRun(i)
  <2>1. Aside(i) \/ PurgeBeforeForce(i) \/ WriteBatch(i) \/ Purge(i)
    BY <1>3, OthersKept
  <2>2. RunKnows(i)
    BY RunsKnowEach
  <2>3. CASE WriteBatch(i)
    <3>1. run'[i].old = run[i].old \ DOMAIN run[i].batch /\ Writes(DOMAIN run[i].batch)
      BY <2>3, WriteBatchActs, WriteBatchData
    <3>2. Passed(i, r)
      BY <2>3, <3>1, WritePassesBatch
    <3>3. QED
      BY <1>1, <3>1, <3>2, WritesSync
  <2>4. CASE ~WriteBatch(i)
    <3>1. (ReadBatch(i) \/ Progress(i)) /\ Passed(i, r) /\ run'[i].old = run[i].old
      BY <2>1, <2>2, <2>4, ActorPasses
    <3>2. Still
      BY <3>1, AsideData DEF Aside
    <3>3. QED
      BY <1>1, <3>1, <3>2, StillSync
  <2>5. QED
    BY <2>3, <2>4
<1>4. QED
  BY <1>2, <1>3


---------------------------------------------------------------------------
(* A walk that nobody disturbs.                                            *)

\* A row of the partition of a quiet run.
QuietRow(j, r) ==
  /\ run[j].pc = "startedAt" /\ run[j].kind = "tenant" /\ index[r] # 0
       => r \in unwritten[run[j].partition]
  /\ run[j].pc \in WalkSteps /\ ~Active(r) /\ index[r] # 0
       => r \in run[j].old \/ KeptOrphan(j, r)
  /\ Passed(j, r) /\ Active(r) => InSync(r)
  /\ run[j].pc = "write" /\ r \in DOMAIN run[j].batch => run[j].batch[r] = base[r].version
  /\ run[j].pc = "finalize" => InSync(r) \/ KeptOrphan(j, r)

LEMMA QuietWalksEach ==
  QuietWalks <=> \A j \in Jobs: Running(j) /\ run[j].quiet =>
                    \A r \in InPartition(run[j].partition): QuietRow(j, r)
BY Zenon DEF QuietWalks, QuietRow

\* A job row that is there stays.
LEMMA RowsRemain ==
  ASSUME TypeOK, Next, NEW s \in JobScopes, rows[s] # "none"
  PROVE  rows'[s] # "none"
<1>1. ASSUME NEW j \in Jobs, OpenJob(j) \/ CloseJob(j)
      PROVE  rows'[s] # "none"
  <2>1. ScopeOf(run[j]) \in JobScopes
    BY <1>1, OpenJobActs, CloseJobActs, ScopeType
  <2>2. rows' = PrepareJob(rows, ScopeOf(run[j])) \/ rows' = FinalizeJob(rows, ScopeOf(run[j]))
    BY <1>1 DEF OpenJob, CloseJob
  <2>3. QED
    BY <2>1, <2>2, JobOperations DEF TypeOK
<1>2. ASSUME NEW q \in Requests, RequestNext(q) PROVE rows' = rows
  BY <1>2 DEF RequestNext, SaveRecord, DeleteRecord, Change, FindRow, BuildDoc, PutRow,
              FindDeletedRow, RemoveRow, NotifyCoverage, KillRequest, jobVars
<1>3. ASSUME NEW p, CoverageStatement(p) PROVE rows' = rows
  BY <1>3 DEF CoverageStatement, jobVars
<1>4. ASSUME NEW j \in Jobs,
             \/ Refuses(j) \/ Starts(j) \/ FailRun(j) \/ StopRun(j)
             \/ RunNext(j) /\ ~OpenJob(j) /\ ~CloseJob(j)
      PROVE  rows' = rows
  BY <1>3, <1>4 DEF RunNext, Refuses, RefuseRun, Starts, StartRun, FailRun, StopRun,
     ReadStartedAt, PurgeBeforeForce, PurgeFails, ResetCoverage, ReadBatch, WriteBatch,
     Progress, Purge, jobVars
<1>5. RefreshCoverage => rows' = rows
  BY DEF RefreshCoverage, jobVars
<1>6. QED
  BY <1>1, <1>2, <1>3, <1>4, <1>5 DEF Next, RunNext, Refuses, Starts

\* A row stays one that the run keeps while its job rows are not written.
LEMMA KeptOrphanStays ==
  ASSUME TypeOK, Next, NEW i \in Jobs, Running(i), NEW r, KeptOrphan(i, r),
         run'[i].kind = run[i].kind, run'[i].partition = run[i].partition,
         base'[r] = base[r],
         r \in unwritten'[run[i].partition] => r \in unwritten[run[i].partition]
  PROVE  KeptOrphan(i, r)'
<1>1. TenantWide(run[i].partition) \in JobScopes
  BY RunFields DEF TenantWide, JobScopes, Kinds
<1>2. rows'[TenantWide(run[i].partition)] # "none"
  BY <1>1, RowsRemain DEF KeptOrphan
<1>3. QED
  BY <1>2 DEF KeptOrphan, TenantWide, Active

\* The rows of a partition that were not written since its tenant-wide job started.
SameUnwritten(r, p) == r \in unwritten'[p] <=> r \in unwritten[p]

\* Requests disturb every run; a run disturbs those of its partition, and its
\* batches and orphans are of its partition.
LEMMA QuietApart ==
  ASSUME TypeOK, RunsKnow, NEW i \in Jobs, Running(i), run'[i].quiet,
         NEW r \in InPartition(run[i].partition),
         \/ \E q \in Requests, s \in Records: SaveRecord(q, s) \/ DeleteRecord(q, s)
         \/ \E q \in Requests: Idle(q) \/ PutRow(q) \/ RemoveRow(q) \/ KillRequest(q)
         \/ RefreshCoverage \/ \E p \in Processes: CoverageStatement(p)
         \/ \E j \in Jobs \ {i}: Aside(j) \/ PurgeBeforeForce(j) \/ WriteBatch(j) \/ Purge(j)
  PROVE  /\ base'[r] = base[r] /\ index'[r] = index[r]
         /\ r \in run'[i].old <=> r \in run[i].old
         /\ SameUnwritten(r, run[i].partition)
         /\ KeptRun(i)
         /\ run[i].quiet
<1>0. r \in Records /\ run[i].partition \in Partitions
  BY RunFields DEF InPartition
<1>1. ASSUME NEW touched, RequestStep(touched) PROVE FALSE
  <2>1. Others(i, FALSE, FALSE, run[i].old \ touched)
    BY <1>1, RequestStepKeeps
  <2>2. QED
    BY <2>1, Zenon DEF Others
<1>2. ASSUME NEW q \in Requests, NEW s \in Records, SaveRecord(q, s) \/ DeleteRecord(q, s)
      PROVE  FALSE
  BY <1>1, <1>2, ChangeData DEF SaveRecord, DeleteRecord
<1>3. ASSUME NEW q \in Requests, Idle(q) \/ PutRow(q) \/ RemoveRow(q) PROVE FALSE
  BY <1>1, <1>3, IdleData, PutRowData, RemoveRowData
<1>4. KeptRun(i) /\ run[i].quiet
  <2>1. KeptRun(i)
    <3>1. CASE \E q \in Requests: KillRequest(q)
      BY <3>1, KillRequestData, SameIsKept
    <3>2. CASE RefreshCoverage \/ \E p \in Processes: CoverageStatement(p)
      BY <3>2, RefreshActs, StatementActs
    <3>3. CASE \E j \in Jobs \ {i}: Aside(j) \/ PurgeBeforeForce(j) \/ WriteBatch(j) \/ Purge(j)
      <4>1. PICK j \in Jobs \ {i}: Aside(j) \/ PurgeBeforeForce(j) \/ WriteBatch(j) \/ Purge(j)
        BY <3>3
      <4>2. QED
        BY <4>1, ActorKeepsOthers
    <3>4. QED
      BY <1>2, <1>3, <3>1, <3>2, <3>3
  <2>2. QED
    BY <2>1 DEF KeptRun
<1>5. ASSUME Still PROVE base'[r] = base[r] /\ index'[r] = index[r]
  BY <1>5 DEF Still
<1>6. ASSUME NEW j \in Jobs \ {i}, Aside(j)
      PROVE  run'[i].old = run[i].old /\ SameUnwritten(r, run[i].partition)
  <2>1. CASE StopRun(j) \/ Refuses(j)
    BY <2>1, RefuseRunActs, StopRunActs
       DEF SameUnwritten, Refuses, RefuseRun, StopRun, jobVars
  <2>2. ASSUME NEW n, RunActs(j, n, {})
        PROVE  run'[i].old = run[i].old /\ ~SamePartition(i, n)
    BY <2>2 DEF RunActs
  <2>3. CASE OpenJob(j)
    <3>1. run'[i].old = run[i].old /\ ~SamePartition(i, run[j]) /\ Running(j)
      BY <2>2, <2>3, OpenJobActs DEF Moves
    <3>2. run[i].partition # run[j].partition
      BY <3>1 DEF SamePartition
    <3>3. \/ unwritten' = unwritten
          \/ unwritten' = [unwritten EXCEPT ![run[j].partition] = Indexed(Records)]
      BY <2>3 DEF OpenJob
    <3>4. unwritten'[run[i].partition] = unwritten[run[i].partition]
      BY <1>0, <3>2, <3>3 DEF TypeOK
    <3>5. QED
      BY <3>1, <3>4 DEF SameUnwritten
  <2>4. CASE \/ Starts(j) \/ ReadStartedAt(j) \/ PurgeFails(j) \/ ResetCoverage(j)
            \/ ReadBatch(j) \/ Progress(j) \/ CloseJob(j) \/ FailRun(j)
    <3>1. \E n: RunActs(j, n, {})
      BY <2>4, StartRunActs, ReadStartedAtActs, PurgeFailsActs, ResetCoverageActs, ReadBatchActs,
         ProgressActs, CloseJobActs, FailRunActs DEF Moves
    <3>2. unwritten' = unwritten
      BY <2>4 DEF Starts, StartRun, ReadStartedAt, PurgeFails, ResetCoverage, ReadBatch, Progress,
                  CloseJob, FailRun, jobVars
    <3>3. QED
      BY <2>2, <3>1, <3>2 DEF SameUnwritten
  <2>5. QED
    BY <1>6, <2>1, <2>3, <2>4 DEF Aside
<1>7. ASSUME NEW j \in Jobs \ {i}, PurgeBeforeForce(j) PROVE FALSE
  BY <1>7, PurgeBeforeForceActs
<1>8. ASSUME NEW j \in Jobs \ {i}, NEW S, NEW touched, Writes(S), Running(j),
             RunActs(j, run[j], touched),
             S \subseteq InPartition(run[j].partition), touched \subseteq S
      PROVE  /\ base'[r] = base[r] /\ index'[r] = index[r]
             /\ run'[i].old = run[i].old \ touched /\ r \notin touched
  <2>1. ~SamePartition(i, run[j]) /\ run'[i].old = run[i].old \ touched
    BY <1>8 DEF RunActs
  <2>2. run[i].partition # run[j].partition
    BY <2>1 DEF SamePartition
  <2>3. r \notin S
    BY <1>8, <2>2 DEF InPartition
  <2>4. QED
    BY <1>0, <1>8, <2>1, <2>3 DEF Writes
<1>9. ASSUME NEW j \in Jobs \ {i}, WriteBatch(j)
      PROVE  /\ base'[r] = base[r] /\ index'[r] = index[r]
             /\ r \in run'[i].old <=> r \in run[i].old
             /\ SameUnwritten(r, run[i].partition)
  <2>1. PICK S: S = DOMAIN run[j].batch
    OBVIOUS
  <2>2. /\ Writes(S) /\ RunActs(j, run[j], S) /\ Running(j)
        /\ S \subseteq InPartition(run[j].partition)
    BY <1>9, <2>1, WriteBatchActs, WriteBatchData DEF Moves, RunsKnow
  <2>3. /\ base'[r] = base[r] /\ index'[r] = index[r]
        /\ run'[i].old = run[i].old \ S /\ r \notin S
    BY <1>8, <2>2
  <2>4. unwritten'[run[i].partition] = unwritten[run[i].partition] \ S
    BY <1>0, <1>9, <2>1, RowsTouchedType DEF WriteBatch
  <2>5. QED
    BY <2>3, <2>4 DEF SameUnwritten
<1>10. ASSUME NEW j \in Jobs \ {i}, Purge(j)
       PROVE  /\ base'[r] = base[r] /\ index'[r] = index[r]
              /\ r \in run'[i].old <=> r \in run[i].old
              /\ SameUnwritten(r, run[i].partition)
  <2>1. PICK touched: touched = {}
    OBVIOUS
  <2>2. /\ Writes(Orphans(j)) /\ RunActs(j, run[j], touched) /\ Running(j)
        /\ Orphans(j) \subseteq InPartition(run[j].partition) /\ touched \subseteq Orphans(j)
    BY <1>10, <2>1, PurgeActs, PurgeData
  <2>3. unwritten' = unwritten
    BY <1>10 DEF Purge, jobVars
  <2>4. QED
    BY <1>8, <2>2, <2>3 DEF SameUnwritten
<1>11. CASE RefreshCoverage \/ \E p \in Processes: CoverageStatement(p)
  <2>1. run'[i].old = run[i].old
    BY <1>11, RefreshActs, StatementActs
  <2>2. Still /\ SameUnwritten(r, run[i].partition)
    BY <1>11, StatementData DEF SameUnwritten, RefreshCoverage, CoverageStatement, jobVars
  <2>3. QED
    BY <1>4, <1>5, <2>1, <2>2
<1>12. CASE \E q \in Requests: KillRequest(q)
  <2>1. run' = run /\ Still /\ SameUnwritten(r, run[i].partition)
    BY <1>12, KillRequestData DEF SameUnwritten, KillRequest, jobVars
  <2>2. QED
    BY <1>4, <1>5, <2>1
<1>13. QED
  BY <1>2, <1>3, <1>4, <1>5, <1>6, <1>7, <1>9, <1>10, <1>11, <1>12, AsideData

LEMMA QuietRowStays ==
  ASSUME TypeOK, Next, NEW i \in Jobs, Running(i), KeptRun(i), NEW r \in Records,
         QuietRow(i, r), base'[r] = base[r], index'[r] = index[r],
         r \in run'[i].old <=> r \in run[i].old, SameUnwritten(r, run[i].partition)
  PROVE  QuietRow(i, r)'
<1>1. (Active(r)' <=> Active(r)) /\ (InSync(r)' <=> InSync(r)) /\ (Passed(i, r)' <=> Passed(i, r))
  BY SameSync, KeptWalk
<1>2. /\ run'[i].pc = run[i].pc /\ run'[i].batch = run[i].batch
      /\ run'[i].kind = run[i].kind /\ run'[i].partition = run[i].partition
  BY DEF KeptRun
<1>3. KeptOrphan(i, r) => KeptOrphan(i, r)'
  BY <1>2, KeptOrphanStays DEF SameUnwritten
<1>4. QED
  BY <1>1, <1>2, <1>3 DEF QuietRow, SameUnwritten


LEMMA ActorQuietRow ==
  ASSUME TypeOK, VersionsMade, RunsKnow, OldAreWrong, Next, NEW j \in Jobs,
         Running(j)', run'[j].quiet, NEW r \in InPartition(run'[j].partition),
         Running(j) /\ run[j].quiet /\ r \in InPartition(run[j].partition) => QuietRow(j, r),
         Aside(j) \/ PurgeBeforeForce(j) \/ WriteBatch(j) \/ Purge(j)
  PROVE  QuietRow(j, r)'
<1>0. r \in Records /\ RunKnows(j)
  BY RunsKnowEach DEF InPartition
<1>1. CASE Starts(j)
  BY <1>1, StartRunActs DEF QuietRow, Passed, WalkSteps
<1>2. CASE OpenJob(j)
  <2>1. run'[j].pc = "startedAt" /\ run'[j].partition = run[j].partition
        /\ run'[j].kind = run[j].kind /\ run[j].partition \in Partitions
    BY <1>2, OpenJobActs, RunFields DEF Moves, SameRun
  <2>2. /\ index' = index
        /\ unwritten' = IF run[j].kind = "tenant"
                        THEN [unwritten EXCEPT ![run[j].partition] = Indexed(Records)]
                        ELSE unwritten
    BY <1>2 DEF OpenJob
  <2>3. run[j].kind = "tenant" => unwritten'[run[j].partition] = Indexed(Records)
    BY <2>1, <2>2 DEF TypeOK
  <2>4. QED
    BY <1>0, <2>1, <2>2, <2>3 DEF QuietRow, Passed, Indexed, WalkSteps
<1>3. CASE PurgeBeforeForce(j)
  <2>1. run'[j].pc = "resetCoverage" /\ index'[r] = 0
    BY <1>0, <1>3, PurgeBeforeForceActs, PurgeBeforeForceData
  <2>2. QED
    BY <2>1 DEF QuietRow, Passed
<1>4. CASE PurgeFails(j) \/ ResetCoverage(j) \/ ReadBatch(j) \/ Progress(j)
  <2>1. /\ run'[j].old = run[j].old /\ run[j].pc \in WalkSteps /\ Running(j)
        /\ run'[j].partition = run[j].partition /\ run'[j].kind = run[j].kind
        /\ run'[j].quiet <=> run[j].quiet
        /\ run'[j].pc \in WalkSteps
    BY <1>4, PurgeFailsActs, ResetCoverageActs, ReadBatchActs, ProgressActs
       DEF Moves, SameRun, WalkSteps
  <2>2. QuietRow(j, r)
    BY <2>1
  <2>3. Still /\ UNCHANGED jobVars
    BY <1>4, AsideData DEF Aside, PurgeFails, ResetCoverage, ReadBatch, Progress
  <2>4. (Active(r)' <=> Active(r)) /\ (InSync(r)' <=> InSync(r)) /\ index' = index
    BY <2>3, StillSync DEF Still
  <2>5. Passed(j, r)' /\ Active(r)' => Passed(j, r)
    <3>1. ~WriteBatch(j)
      BY <1>4, PurgeFailsActs, ResetCoverageActs, ReadBatchActs, ProgressActs, WriteBatchActs
    <3>2. QED
      BY <1>0, <1>4, <3>1, ActorPasses DEF Aside
  <2>6. run'[j].pc = "write" /\ r \in DOMAIN run'[j].batch => run'[j].batch[r] = base'[r].version
    <3>1. SUFFICES ASSUME run'[j].pc = "write", r \in DOMAIN run'[j].batch
                   PROVE  run'[j].batch[r] = base[r].version
      BY <2>3 DEF Still
    <3>2. ReadBatch(j)
      BY <1>4, <3>1, PurgeFailsActs, ResetCoverageActs, ProgressActs DEF Moves
    <3>3. run'[j].batch = [n \in NextBatch(j) |-> base[n].version]
      BY <3>1, <3>2, ReadBatchActs DEF Moves
    <3>4. QED
      BY <3>1, <3>3
  <2>7. KeptOrphan(j, r) => KeptOrphan(j, r)'
    BY <1>0, <2>1, <2>3, KeptOrphanStays DEF Still, jobVars
  <2>8. run'[j].pc \notin {"startedAt", "finalize"}
    BY <2>1 DEF WalkSteps
  <2>9. QED
    BY <2>1, <2>2, <2>4, <2>5, <2>6, <2>7, <2>8 DEF QuietRow
<1>5. CASE WriteBatch(j)
  <2>1. /\ run[j].pc = "write" /\ run'[j].pc = "progress" /\ Running(j)
        /\ run'[j].old = run[j].old \ DOMAIN run[j].batch
        /\ run'[j].partition = run[j].partition /\ run'[j].kind = run[j].kind
        /\ run'[j].quiet <=> run[j].quiet
    BY <1>5, WriteBatchActs DEF Moves, SameRun
  <2>2. QuietRow(j, r)
    BY <2>1
  <2>3. Writes(DOMAIN run[j].batch)
    BY <1>5, WriteBatchData
  <2>4. CASE r \in DOMAIN run[j].batch
    <3>1. index'[r] = run[j].batch[r] /\ run[j].batch[r] = base[r].version
      BY <1>5, <2>1, <2>2, <2>4, WriteBatchData DEF QuietRow
    <3>2. Active(r)
      BY <2>1, <2>4, <3>1 DEF RunsKnow
    <3>3. base' = base
      BY <2>3 DEF Writes
    <3>4. Active(r)' /\ InSync(r)'
      BY <3>1, <3>2, <3>3 DEF Active, InSync, Right
    <3>5. QED
      BY <2>1, <3>4 DEF QuietRow
  <2>5. CASE r \notin DOMAIN run[j].batch
    <3>1. /\ Active(r)' <=> Active(r)
          /\ InSync(r)' <=> InSync(r)
          /\ Passed(j, r)' <=> Passed(j, r)
      BY <1>0, <1>5, <2>3, <2>5, WritesSync, WritePassesBatch
    <3>2. index'[r] = index[r] /\ base'[r] = base[r]
      BY <1>0, <2>3, <2>5 DEF Writes
    <3>3. KeptOrphan(j, r) => KeptOrphan(j, r)'
      <4>1. run[j].partition \in Partitions /\ RowsTouched(DOMAIN run[j].batch)
        BY <1>5, <2>1, RunFields DEF WriteBatch
      <4>2. r \in unwritten'[run[j].partition] => r \in unwritten[run[j].partition]
        BY <4>1, RowsTouchedType
      <4>3. QED
        BY <2>1, <3>2, <4>2, KeptOrphanStays
    <3>4. QED
      BY <2>1, <2>2, <2>5, <3>1, <3>2, <3>3 DEF QuietRow, WalkSteps
  <2>6. QED
    BY <2>4, <2>5
<1>6. CASE Purge(j)
  <2>1. /\ run[j].pc = "purge" /\ run'[j].pc = "finalize" /\ Running(j)
        /\ run'[j].partition = run[j].partition /\ run'[j].kind = run[j].kind
        /\ run'[j].quiet <=> run[j].quiet
    BY <1>6, PurgeActs DEF SameScopeOf
  <2>2. QuietRow(j, r) /\ r \in InPartition(run[j].partition)
    BY <2>1
  <2>3. Writes(Orphans(j)) /\ (r \in Orphans(j) => index'[r] = 0)
    BY <1>6, PurgeData
  <2>4. Passed(j, r)
    BY <2>1, <2>2 DEF Passed
  <2>5. base' = base /\ UNCHANGED jobVars
    BY <1>6 DEF Purge
  <2>6. KeptOrphan(j, r) => KeptOrphan(j, r)'
    BY <2>1, <2>5, KeptOrphanStays DEF jobVars
  <2>7. CASE Active(r)
    <3>1. InSync(r)
      BY <2>2, <2>4, <2>7 DEF QuietRow
    <3>2. r \notin run[j].old
      BY <1>0, <2>4, <2>7, <3>1 DEF OldAreWrong
    <3>3. r \notin Orphans(j)
      BY <3>2 DEF Orphans
    <3>4. InSync(r)'
      BY <1>0, <2>3, <3>1, <3>3, WritesSync
    <3>5. QED
      BY <2>1, <3>4 DEF QuietRow, Passed, WalkSteps
  <2>8. CASE ~Active(r) /\ KeptOrphan(j, r)
    BY <2>1, <2>6, <2>8 DEF QuietRow, Passed, WalkSteps
  <2>9. CASE ~Active(r) /\ ~KeptOrphan(j, r)
    <3>1. index'[r] = 0
      <4>1. CASE r \in Orphans(j)
        BY <2>3, <4>1
      <4>2. CASE r \notin Orphans(j)
        <5>1. r \notin run[j].old
          BY <2>2, <4>2 DEF Orphans
        <5>2. index[r] = 0
          BY <2>1, <2>2, <2>9, <5>1 DEF QuietRow, WalkSteps
        <5>3. QED
          BY <1>0, <2>3, <4>2, <5>2 DEF Writes
      <4>3. QED
        BY <4>1, <4>2
    <3>2. InSync(r)'
      BY <2>5, <2>9, <3>1 DEF InSync, Right, Active
    <3>3. QED
      BY <2>1, <3>2 DEF QuietRow, Passed, WalkSteps
  <2>10. QED
    BY <2>7, <2>8, <2>9
<1>7. CASE FailRun(j)
  BY <1>7, FailRunActs
<1>8. CASE CloseJob(j) \/ StopRun(j) \/ Refuses(j)
  <2>1. run'[j].pc \in {"done", "left"}
    BY <1>8, CloseJobActs, StopRunActs, RefuseRunActs
  <2>2. QED
    BY <2>1 DEF Running, RunSteps, OpenSteps
<1>9. CASE ReadStartedAt(j)
  <2>1. PICK p \in Partitions: p = run[j].partition
    BY <1>9, ReadStartedAtActs, RunFields
  <2>2. /\ run[j].pc = "startedAt" /\ run'[j].pc \in {"read", "reset", "resetCoverage"}
        /\ run'[j].old = OldRows(p) /\ Running(j)
        /\ run'[j].partition = p /\ run'[j].kind = run[j].kind
        /\ run'[j].quiet <=> run[j].quiet
    BY <1>9, <2>1, ReadStartedAtActs DEF Moves, SameRun
  <2>3. QuietRow(j, r)
    BY <2>1, <2>2
  <2>4. UNCHANGED <<base, index, rows, unwritten>>
    BY <1>9 DEF ReadStartedAt, jobVars
  <2>5. ~Active(r)' /\ index'[r] # 0 => r \in run'[j].old \/ KeptOrphan(j, r)'
    <3>1. SUFFICES ASSUME ~Active(r), index[r] # 0, r \notin OldRows(p)
                   PROVE  KeptOrphan(j, r)'
      BY <2>2, <2>4 DEF Active
    <3>2. rows[TenantWide(p)] # "none" /\ r \notin unwritten[p]
      BY <1>0, <3>1 DEF OldRows, Indexed
    <3>3. run[j].kind = "organization"
      <4>1. run[j].kind \in Kinds
        BY <2>2, RunFields
      <4>2. run[j].kind # "tenant"
        BY <2>1, <2>2, <2>3, <3>1, <3>2 DEF QuietRow
      <4>3. QED
        BY <4>1, <4>2 DEF Kinds
    <3>4. QED
      BY <2>2, <2>4, <3>1, <3>2, <3>3 DEF KeptOrphan, TenantWide, Active
  <2>6. ~(Passed(j, r)' /\ Active(r)')
    <3>1. ~WriteBatch(j) /\ ~ReadBatch(j) /\ ~Progress(j)
      BY <2>2, WriteBatchActs, ReadBatchActs, ProgressActs
    <3>2. QED
      BY <1>0, <1>9, <3>1, ActorPasses DEF Aside
  <2>7. QED
    BY <2>2, <2>5, <2>6 DEF QuietRow
<1>10. QED
  BY <1>1, <1>2, <1>3, <1>4, <1>5, <1>6, <1>7, <1>8, <1>9 DEF Aside

LEMMA NextQuietWalks ==
  ASSUME TypeOK, VersionsMade, RunsKnow, OldAreWrong, QuietWalks, Next
  PROVE  QuietWalks'
<1> SUFFICES ASSUME NEW i \in Jobs, Running(i)', run'[i].quiet,
                    NEW r \in InPartition(run'[i].partition)
             PROVE  QuietRow(i, r)'
  BY Zenon DEF QuietWalks, QuietRow, InPartition, PartitionOf
<1>1. Running(i) /\ run[i].quiet /\ r \in InPartition(run[i].partition) => QuietRow(i, r)
  BY QuietWalksEach
<1>2. CASE Aside(i) \/ PurgeBeforeForce(i) \/ WriteBatch(i) \/ Purge(i)
  BY <1>1, <1>2, ActorQuietRow
<1>3. CASE \/ \E q \in Requests, s \in Records: SaveRecord(q, s) \/ DeleteRecord(q, s)
           \/ \E q \in Requests: Idle(q) \/ PutRow(q) \/ RemoveRow(q) \/ KillRequest(q)
           \/ RefreshCoverage \/ \E p \in Processes: CoverageStatement(p)
           \/ \E j \in Jobs \ {i}: Aside(j) \/ PurgeBeforeForce(j) \/ WriteBatch(j) \/ Purge(j)
  <2>1. KeptRun(i)
    <3>1. \A j \in Jobs \ {i}: Aside(j) \/ PurgeBeforeForce(j) \/ WriteBatch(j) \/ Purge(j)
             => KeptRun(i)
      BY ActorKeepsOthers
    <3>2. QED
      BY <1>3, <3>1, NoRunActs
  <2>2. Running(i) /\ run'[i].partition = run[i].partition
    BY <2>1 DEF KeptRun, Running
  <2>3. r \in InPartition(run[i].partition) /\ r \in Records
    BY <2>2 DEF InPartition
  <2>4. /\ base'[r] = base[r] /\ index'[r] = index[r]
        /\ r \in run'[i].old <=> r \in run[i].old
        /\ SameUnwritten(r, run[i].partition)
        /\ run[i].quiet
    BY <1>3, <2>2, <2>3, QuietApart
  <2>5. QED
    BY <1>1, <2>1, <2>2, <2>3, <2>4, QuietRowStays
<1>4. QED
  BY <1>2, <1>3, NextCases


---------------------------------------------------------------------------
(* Whatever is wrong is known.                                             *)

Known(r) ==
  \/ InSync(r) \/ r \in outdated
  \/ \E q \in Requests: Pending(q, r)
  \/ \E j \in Jobs: Covered(j, r)

LEMMA WrongAreKnownEach == WrongAreKnown <=> \A r \in Records: Known(r)
BY DEF WrongAreKnown, Known

LEMMA CoveredStays ==
  ASSUME TypeOK, NEW j \in Jobs, KeptRun(j), NEW r \in Records, Covered(j, r),
         base'[r] = base[r], index'[r] = index[r] \/ index'[r] = 0
  PROVE  Covered(j, r)'
<1>1. ToCome(j)' = ToCome(j) /\ (Passed(j, r)' <=> Passed(j, r))
  BY KeptWalk
<1>2. Active(r)' <=> Active(r)
  BY SameSync
<1>3. index'[r] = 0
  BY DEF Covered
<1>4. QED
  BY <1>1, <1>2, <1>3 DEF Covered

\* A row that is left alone stays known if its request and its run do their part.
LEMMA KnownStays ==
  ASSUME NEW r \in Records, Known(r), base'[r] = base[r], index'[r] = index[r],
         r \in outdated => r \in outdated',
         \A q \in Requests: Pending(q, r) => Known(r)',
         \A j \in Jobs: Covered(j, r) => Known(r)'
  PROVE  Known(r)'
<1>1. InSync(r)' <=> InSync(r)
  BY SameSync
<1>2. QED
  BY <1>1 DEF Known

LEMMA PendingStays ==
  ASSUME NEW r \in Records, NEW q \in Requests, req'[q] = req[q], Pending(q, r)
  PROVE  Known(r)'
BY DEF Known, Pending

LEMMA KnownWithRuns ==
  ASSUME TypeOK, NEW r \in Records, base'[r] = base[r], index'[r] = index[r],
         NEW j \in Jobs, KeptRun(j), Covered(j, r)
  PROVE  Known(r)'
BY CoveredStays DEF Known

LEMMA RequestKeepsKnown ==
  ASSUME TypeOK, RequestsKnow, WrongAreKnown, NEW q \in Requests, NEW r \in Records,
         \/ \E s \in Records: SaveRecord(q, s) \/ DeleteRecord(q, s)
         \/ Idle(q) \/ PutRow(q) \/ RemoveRow(q) \/ KillRequest(q)
  PROVE  Known(r)'
<1>1. Known(r) /\ \A i \in Jobs: KeptRun(i)
  BY NoRunActs, WrongAreKnownEach
<1>2. \A s \in Requests \ {q}: req'[s] = req[s]
  <2>1. CASE \E s \in Records: SaveRecord(q, s) \/ DeleteRecord(q, s)
    BY <2>1, SaveRecordRequest, DeleteRecordRequest
  <2>2. CASE FindRow(q) \/ BuildDoc(q) \/ FindDeletedRow(q) \/ RemoveRow(q)
    BY <2>2, FindRowRequest, BuildDocRequest, FindDeletedRowRequest, RemoveRowRequest
  <2>3. CASE NotifyCoverage(q) \/ PutRow(q) \/ KillRequest(q)
    BY <2>3, RequestOver DEF NotifyCoverage, PutRow, KillRequest
  <2>4. QED
    BY <2>1, <2>2, <2>3 DEF Idle
<1>3. ASSUME base'[r] = base[r], index'[r] = index[r], r \in outdated => r \in outdated',
             Pending(q, r) => Known(r)'
      PROVE  Known(r)'
  <2>1. \A s \in Requests: Pending(s, r) => Known(r)'
    BY <1>2, <1>3, PendingStays
  <2>2. \A j \in Jobs: Covered(j, r) => Known(r)'
    BY <1>1, <1>3, KnownWithRuns
  <2>3. QED
    BY <1>1, <1>3, <2>1, <2>2, KnownStays
<1>4. ASSUME NEW s \in Records, SaveRecord(q, s) \/ DeleteRecord(q, s) PROVE Known(r)'
  <2>1. \E state: Change(q, s, state)
    BY <1>4 DEF SaveRecord, DeleteRecord
  <2>2. /\ \A t \in Records \ {s}: base'[t] = base[t]
        /\ UNCHANGED <<index, outdated>> /\ req[q] = Waiting
    BY <2>1, ChangeData
  <2>3. CASE r = s
    <3>1. req'[q].pc \in {"find", "findDeleted"} /\ req'[q].record = s
      BY <1>4, SaveRecordRequest, DeleteRecordRequest
    <3>2. Pending(q, r)'
      BY <2>3, <3>1 DEF Pending
    <3>3. QED
      BY <3>2 DEF Known
  <2>4. CASE r # s
    <3>1. ~Pending(q, r)
      BY <2>2 DEF Pending, Waiting
    <3>2. QED
      BY <1>3, <2>2, <2>4, <3>1
  <2>5. QED
    BY <2>3, <2>4
<1>5. ASSUME Idle(q) PROVE Known(r)'
  <2>1. /\ base' = base /\ index' = index
        /\ r \in outdated => r \in outdated'
    BY <1>5, IdleData DEF Still
  <2>2. Pending(q, r) => Known(r)'
    <3>1. CASE NotifyCoverage(q)
      BY <3>1 DEF NotifyCoverage, Pending
    <3>2. CASE FindRow(q) \/ BuildDoc(q) \/ FindDeletedRow(q)
      <4>1. req'[q].pc \in {"build", "put", "remove"} /\ req'[q].record = req[q].record
        BY <3>2, FindRowRequest, BuildDocRequest, FindDeletedRowRequest
      <4>2. QED
        BY <4>1 DEF Pending, Known
    <3>3. QED
      BY <1>5, <3>1, <3>2 DEF Idle
  <2>3. QED
    BY <1>3, <2>1, <2>2
<1>6. ASSUME PutRow(q) PROVE Known(r)'
  <2>1. PICK s: s = req[q].record
    OBVIOUS
  <2>2. /\ Writes({s}) /\ index'[s] = req[q].doc.version /\ req[q].pc = "put" /\ s \in Records
        /\ s \in outdated' <=> base[s].version # req[q].change /\ ~Right(s, req[q].doc.version)
    BY <1>6, <2>1, PutRowData
  <2>3. base' = base
    BY <2>2 DEF Writes
  <2>4. CASE r = s
    <3>1. CASE base[s].version = req[q].change
      <4>1. Active(s) /\ req[q].doc = base[s]
        BY <2>1, <2>2, <3>1 DEF RequestsKnow, Saving
      <4>2. InSync(s)'
        BY <2>2, <2>3, <4>1 DEF InSync, Right, Active
      <4>3. QED
        BY <2>4, <4>2 DEF Known
    <3>2. CASE base[s].version # req[q].change
      <4>1. Right(s, req[q].doc.version) => InSync(s)'
        BY <2>2, <2>3 DEF InSync, Right, Active
      <4>2. QED
        BY <2>2, <2>4, <3>2, <4>1 DEF Known
    <3>3. QED
      BY <3>1, <3>2
  <2>5. CASE r # s
    <3>1. ~Pending(q, r)
      BY <2>1, <2>5 DEF Pending
    <3>2. index'[r] = index[r] /\ (r \in outdated => r \in outdated')
      BY <2>2, <2>5 DEF Writes
    <3>3. QED
      BY <1>3, <2>3, <3>1, <3>2
  <2>6. QED
    BY <2>4, <2>5
<1>7. ASSUME RemoveRow(q) PROVE Known(r)'
  <2>1. PICK s: s = req[q].record
    OBVIOUS
  <2>2. /\ Writes({s}) /\ req[q].pc = "remove" /\ s \in Records
        /\ req[q].wasActive => index'[s] = 0
        /\ ~req[q].wasActive => index' = index /\ outdated' = outdated
    BY <1>7, <2>1, RemoveRowData
  <2>3. base' = base
    BY <2>2 DEF Writes
  <2>4. CASE r = s
    <3>1. ~Active(s) /\ (~req[q].wasActive => index[s] = 0 \/ s \in outdated)
      BY <2>1, <2>2 DEF RequestsKnow, Active
    <3>2. index'[s] = 0 \/ s \in outdated'
      BY <2>2, <3>1
    <3>3. index'[s] = 0 => InSync(s)'
      BY <2>3, <3>1 DEF InSync, Right, Active
    <3>4. QED
      BY <2>4, <3>2, <3>3 DEF Known
  <2>5. CASE r # s
    <3>1. ~Pending(q, r)
      BY <2>1, <2>5 DEF Pending
    <3>2. index'[r] = index[r] /\ (r \in outdated => r \in outdated')
      BY <2>2, <2>5 DEF Writes
    <3>3. QED
      BY <1>3, <2>3, <3>1, <3>2
  <2>6. QED
    BY <2>4, <2>5
<1>8. ASSUME KillRequest(q) PROVE Known(r)'
  <2>1. /\ base' = base /\ index' = index
        /\ r \in outdated => r \in outdated'
        /\ Pending(q, r) /\ ~InSync(r) => r \in outdated'
    BY <1>8, KillRequestData DEF Still
  <2>2. InSync(r)' <=> InSync(r)
    BY <2>1, SameSync
  <2>3. Pending(q, r) => Known(r)'
    BY <2>1, <2>2 DEF Known
  <2>4. QED
    BY <1>3, <2>1, <2>3
<1>9. QED
  BY <1>4, <1>5, <1>6, <1>7, <1>8


\* The records a forced run has still to come to, over a step of its own.
LEMMA ActorCovers ==
  ASSUME TypeOK, RunsKnow, NEW j \in Jobs, Aside(j), NEW r \in Records, Covered(j, r)
  PROVE  Covered(j, r)' \/ r \in outdated' \/ InSync(r)'
<1>1. /\ run[j].pc \in {"resetCoverage", "read", "write", "progress"} /\ run[j].emptied
      /\ r \in InPartition(run[j].partition) /\ r > run[j].last
      /\ ~(run[j].pc = "progress" /\ r \in DOMAIN run[j].batch)
      /\ ~Passed(j, r) /\ Active(r) /\ index[r] = 0
  BY DEF Covered, ToCome
<1>2. Still
  BY AsideData
<1>3. Active(r)' /\ index'[r] = 0 /\ (InSync(r)' <=> InSync(r))
  BY <1>1, <1>2, StillSync DEF Still
<1>4. CASE ResetCoverage(j)
  <2>1. /\ run'[j].pc = "read" /\ run'[j].emptied /\ run'[j].partition = run[j].partition
        /\ run'[j].last = run[j].last
    BY <1>1, <1>4, ResetCoverageActs DEF Moves, SameRun
  <2>2. r \in ToCome(j)'
    BY <1>1, <2>1 DEF ToCome, InPartition, PartitionOf
  <2>3. ~Passed(j, r)'
    <3>1. run[j].last \in Nat
      BY <1>4, ResetCoverageActs, RunFields, RecordsAreNumbers
    <3>2. QED
      BY <1>1, <2>1, <3>1, RecordsAreNumbers DEF Passed
  <2>4. QED
    BY <1>3, <2>2, <2>3 DEF Covered
<1>5. CASE ReadBatch(j)
  <2>1. run'[j].pc = "write" /\ ~Passed(j, r)' /\ run'[j].last = run[j].last
    <3>1. Running(j) /\ run'[j].last = run[j].last
      BY <1>5, ReadBatchActs
    <3>2. run[j].last \in Nat /\ r \in Nat
      BY <3>1, RunFields, RecordsAreNumbers
    <3>3. r \in InPartition(run[j].partition) /\ Active(r) /\ r > run[j].last /\ ~Passed(j, r)
      BY <1>1
    <3>4. /\ Passed(j, r)' <=> Passed(j, r)
          /\ r > run[j].last => run'[j].pc = "write"
      BY <1>5, <3>3, ReadPassesNone
    <3>5. QED
      BY <3>1, <3>3, <3>4
  <2>2. run'[j].emptied /\ run'[j].partition = run[j].partition
    BY <1>1, <1>5, ReadBatchActs DEF Moves, SameRun
  <2>3. r \in ToCome(j)'
    BY <1>1, <2>1, <2>2 DEF ToCome, InPartition, PartitionOf
  <2>4. QED
    BY <1>3, <2>1, <2>3 DEF Covered
<1>6. CASE Progress(j)
  <2>1. /\ run[j].pc = "progress"
        /\ run'[j].pc = "read" /\ run'[j].emptied /\ run'[j].partition = run[j].partition
        /\ run'[j].last \in DOMAIN run[j].batch
        /\ \A s \in DOMAIN run[j].batch: s <= run'[j].last
    BY <1>1, <1>6, ProgressActs DEF Moves, SameRun
  <2>2. ~Passed(j, r)'
    BY <1>1, <1>6, ProgressPassesNone
  <2>3. r > run'[j].last
    <3>1. run'[j].last \in Nat /\ r \in Nat
      BY <1>6, <2>1, ProgressActs, RunFields, RecordsAreNumbers
    <3>2. ~(r <= run'[j].last)
      BY <1>1, <2>1 DEF Passed
    <3>3. QED
      BY <3>1, <3>2
  <2>4. r \in ToCome(j)'
    BY <1>1, <2>1, <2>3 DEF ToCome, InPartition, PartitionOf
  <2>5. QED
    BY <1>3, <2>2, <2>4 DEF Covered
<1>7. CASE FailRun(j) \/ StopRun(j)
  <2>1. outdated' = outdated \cup {s \in ToCome(j) : ~InSync(s)} /\ r \in ToCome(j)
    BY <1>7 DEF FailRun, StopRun, Covered
  <2>2. QED
    BY <1>3, <2>1
<1>8. CASE ~(ResetCoverage(j) \/ ReadBatch(j) \/ Progress(j) \/ FailRun(j) \/ StopRun(j))
  <2>1. Refuses(j) \/ Starts(j) => run[j].pc = "idle"
    <3>1. NextRun(j) => run[j].pc = "idle"
      BY DEF NextRun, NotStarted
    <3>2. ASSUME NEW k, NEW p, NEW f, RefuseRun(j, k, p, f) \/ StartRun(j, k, p, f)
          PROVE  NextRun(j)
      BY <3>2 DEF RefuseRun, StartRun
    <3>3. QED
      BY <3>1, <3>2 DEF Refuses, Starts
  <2>2. OpenJob(j) => run[j].pc = "prepare"
    BY DEF OpenJob
  <2>3. ReadStartedAt(j) => run[j].pc = "startedAt"
    BY DEF ReadStartedAt
  <2>4. CloseJob(j) => run[j].pc = "finalize"
    BY DEF CloseJob
  <2>5. PurgeFails(j) => run[j].pc = "reset"
    BY DEF PurgeFails
  <2>6. QED
    BY <1>1, <1>8, <2>1, <2>2, <2>3, <2>4, <2>5 DEF Aside
<1>9. QED
  BY <1>4, <1>5, <1>6, <1>7, <1>8

LEMMA RunKeepsKnown ==
  ASSUME TypeOK, VersionsMade, RunsKnow, OldAreWrong, WrongAreKnown,
         NEW j \in Jobs, NEW r \in Records,
         Aside(j) \/ PurgeBeforeForce(j) \/ WriteBatch(j) \/ Purge(j)
  PROVE  Known(r)'
<1>1. Known(r) /\ \A i \in Jobs \ {j}: KeptRun(i)
  BY ActorKeepsOthers, WrongAreKnownEach
<1>2. UNCHANGED <<base, req>>
  BY AsideData, PurgeBeforeForceData, WriteBatchData, PurgeData DEF Still, Writes
<1>3. \A q \in Requests: Pending(q, r) => Known(r)'
  BY <1>2, PendingStays
<1>4. ASSUME index'[r] = index[r], r \in outdated => r \in outdated',
             Covered(j, r) => Known(r)'
      PROVE  Known(r)'
  <2>1. \A i \in Jobs: Covered(i, r) => Known(r)'
    BY <1>1, <1>2, <1>4, KnownWithRuns
  <2>2. QED
    BY <1>1, <1>2, <1>3, <1>4, <2>1, KnownStays
<1>5. CASE Aside(j)
  <2>1. index'[r] = index[r] /\ (r \in outdated => r \in outdated')
    BY <1>5, AsideData DEF Still
  <2>2. Covered(j, r) => Known(r)'
    BY <1>5, ActorCovers DEF Known
  <2>3. QED
    BY <1>4, <2>1, <2>2
<1>6. CASE PurgeBeforeForce(j)
  <2>1. index'[r] = 0 /\ (Active(r) /\ r \notin InPartition(run[j].partition) => r \in outdated')
    BY <1>6, PurgeBeforeForceData
  <2>2. CASE ~Active(r)
    <3>1. InSync(r)'
      BY <1>2, <2>1, <2>2 DEF InSync, Right, Active
    <3>2. QED
      BY <3>1 DEF Known
  <2>3. CASE Active(r) /\ r \in InPartition(run[j].partition)
    <3>1. /\ run[j].pc = "reset" /\ run'[j].pc = "resetCoverage"
          /\ run'[j].last = run[j].last /\ run'[j].emptied
          /\ run'[j].partition = run[j].partition
      BY <1>6, PurgeBeforeForceActs
    <3>2. run'[j].last = 0
      BY <3>1 DEF RunsKnow
    <3>3. r \in ToCome(j)' /\ ~Passed(j, r)'
      BY <2>3, <3>1, <3>2, RecordsAreNumbers DEF ToCome, Passed, InPartition, PartitionOf
    <3>4. Active(r)'
      BY <1>2, <2>3 DEF Active
    <3>5. Covered(j, r)'
      BY <2>1, <3>3, <3>4 DEF Covered
    <3>6. QED
      BY <3>5 DEF Known
  <2>4. QED
    BY <2>1, <2>2, <2>3 DEF Known
<1>7. CASE WriteBatch(j)
  <2>1. PICK S: S = DOMAIN run[j].batch
    OBVIOUS
  <2>2. /\ Writes(S)
        /\ r \in S => index'[r] = run[j].batch[r]
        /\ r \in S => (r \in outdated' <=> run[j].batch[r] # base[r].version)
    BY <1>7, <2>1, WriteBatchData
  <2>3. /\ run[j].pc = "write" /\ run'[j].pc = "progress" /\ SameRun(run[j], run'[j])
        /\ run'[j].last = run[j].last /\ run'[j].batch = run[j].batch
    BY <1>7, WriteBatchActs DEF Moves
  <2>4. CASE r \in S
    <3>1. CASE run[j].batch[r] = base[r].version
      <4>1. Active(r)
        BY <2>1, <2>3, <2>4, <3>1 DEF RunsKnow
      <4>2. InSync(r)'
        BY <1>2, <2>2, <2>4, <3>1, <4>1 DEF InSync, Right, Active
      <4>3. QED
        BY <4>2 DEF Known
    <3>2. CASE run[j].batch[r] # base[r].version
      BY <2>2, <2>4, <3>2 DEF Known
    <3>3. QED
      BY <3>1, <3>2
  <2>5. CASE r \notin S
    <3>1. index'[r] = index[r] /\ (r \in outdated => r \in outdated')
      BY <2>2, <2>5 DEF Writes
    <3>2. ASSUME Covered(j, r) PROVE Known(r)'
      <4>1. r \in ToCome(j) /\ ~Passed(j, r) /\ Active(r) /\ index[r] = 0
        BY <3>2 DEF Covered
      <4>2. ~Passed(j, r)'
        BY <1>7, <2>1, <2>5, <4>1, WritePassesBatch
      <4>3. r \in ToCome(j)'
        BY <2>1, <2>3, <2>5, <4>1 DEF ToCome, SameRun, InPartition, PartitionOf
      <4>4. Active(r)' /\ index'[r] = 0
        BY <1>2, <3>1, <4>1 DEF Active
      <4>5. QED
        BY <4>2, <4>3, <4>4 DEF Known, Covered
    <3>3. QED
      BY <1>4, <3>1, <3>2
  <2>6. QED
    BY <2>4, <2>5
<1>8. CASE Purge(j)
  <2>1. /\ Writes(Orphans(j)) /\ run[j].pc = "purge"
        /\ r \in Orphans(j) => index'[r] = 0
        /\ Active(r) /\ r \in outdated => r \in outdated'
    BY <1>8, PurgeData, PurgeActs
  <2>2. ~Covered(j, r)
    BY <2>1 DEF Covered, ToCome
  <2>3. CASE r \notin Orphans(j)
    <3>1. index'[r] = index[r] /\ (r \in outdated => r \in outdated')
      BY <2>1, <2>3 DEF Writes
    <3>2. QED
      BY <1>4, <2>2, <3>1
  <2>4. CASE r \in Orphans(j) /\ ~Active(r)
    <3>1. InSync(r)'
      BY <1>2, <2>1, <2>4 DEF InSync, Right, Active
    <3>2. QED
      BY <3>1 DEF Known
  <2>5. CASE r \in Orphans(j) /\ Active(r)
    <3>1. Passed(j, r) /\ r \in run[j].old
      BY <2>1, <2>5 DEF Orphans, Passed
    <3>2. ~InSync(r)
      BY <2>5, <3>1 DEF OldAreWrong
    <3>3. \A i \in Jobs: Covered(i, r) => Known(r)'
      <4>1. base'[r] = base[r] /\ index'[r] = 0
        BY <1>2, <2>1, <2>5
      <4>2. ASSUME NEW i \in Jobs, Covered(i, r) PROVE Covered(i, r)'
        <5>1. i # j
          BY <2>2, <4>2
        <5>2. KeptRun(i)
          BY <1>1, <5>1
        <5>3. QED
          BY <4>1, <4>2, <5>2, CoveredStays
      <4>3. QED
        BY <4>2 DEF Known
    <3>4. r \in outdated => Known(r)'
      BY <2>1, <2>5 DEF Known
    <3>5. QED
      BY <1>1, <1>3, <3>2, <3>3, <3>4 DEF Known
  <2>6. QED
    BY <2>3, <2>4, <2>5
<1>9. QED
  BY <1>5, <1>6, <1>7, <1>8

LEMMA NextWrongAreKnown ==
  ASSUME TypeOK, VersionsMade, RequestsKnow, RunsKnow, OldAreWrong, WrongAreKnown, Next
  PROVE  WrongAreKnown'
<1> SUFFICES ASSUME NEW r \in Records PROVE Known(r)'
  BY DEF WrongAreKnown, Known
<1>1. CASE RefreshCoverage \/ \E p \in Processes: CoverageStatement(p)
  <2>1. Still /\ UNCHANGED <<req, outdated>> /\ \A i \in Jobs: KeptRun(i)
    BY <1>1, StatementData, NoRunActs
  <2>2. base'[r] = base[r] /\ index'[r] = index[r]
    BY <2>1 DEF Still
  <2>3. \A q \in Requests: Pending(q, r) => Known(r)'
    BY <2>1, PendingStays
  <2>4. \A j \in Jobs: Covered(j, r) => Known(r)'
    BY <2>1, <2>2, KnownWithRuns
  <2>5. Known(r)
    BY WrongAreKnownEach
  <2>6. QED
    BY <2>1, <2>2, <2>3, <2>4, <2>5, KnownStays
<1>2. CASE \E q \in Requests, s \in Records: SaveRecord(q, s) \/ DeleteRecord(q, s)
  BY <1>2, RequestKeepsKnown
<1>3. CASE \E q \in Requests: Idle(q) \/ PutRow(q) \/ RemoveRow(q) \/ KillRequest(q)
  BY <1>3, RequestKeepsKnown
<1>4. CASE \E j \in Jobs: Aside(j) \/ PurgeBeforeForce(j) \/ WriteBatch(j) \/ Purge(j)
  BY <1>4, RunKeepsKnown
<1>5. QED
  BY <1>1, <1>2, <1>3, <1>4, NextCases

---------------------------------------------------------------------------
(* The theorems.                                                           *)

LEMMA InitIInv ==
  ASSUME Init
  PROVE  IInv
<1>1. TypeOK
  BY InitTypeOK
<1>2. /\ changes = 1 /\ \A q \in Requests: req[q].pc = "idle"
      /\ \A j \in Jobs: run[j].pc = "idle"
  BY DEF Init, Waiting, NotStarted
<1>3. ASSUME NEW r \in Records
      PROVE  /\ base[r].version <= 1 /\ index[r] <= 1 /\ InSync(r)
             /\ Active(r) => base[r].version # 0
  BY DEF Init, AbsentRow, InSync, Right, Active
<1>4. VersionsMade /\ WrongAreKnown
  BY <1>2, <1>3 DEF VersionsMade, WrongAreKnown
<1>5. RequestsKnow
  BY <1>2 DEF RequestsKnow, Saving
<1>6. RunsKnow /\ OldAreWrong /\ QuietWalks /\ AloneRefresh
  BY <1>2 DEF RunsKnow, OldAreWrong, Passed, QuietWalks, Running, RunSteps, OpenSteps, AloneRefresh
<1>7. JobsTracked
  <2>1. \A s \in JobScopes: ~Unfinished(rows[s])
    BY DEF Init, Unfinished
  <2>2. QED
    BY <1>2, <2>1 DEF JobsTracked, OpenSteps
<1>8. QED
  BY <1>1, <1>4, <1>5, <1>6, <1>7 DEF IInv

LEMMA NextIInv ==
  ASSUME IInv, Next
  PROVE  IInv'
BY NextTypeOK, NextVersionsMade, NextRequestsKnow, NextRunsKnow, NextOldAreWrong,
   NextWrongAreKnown, NextQuietWalks, NextAloneRefresh, NextJobsTracked DEF IInv

LEMMA StutterIInv ==
  ASSUME IInv, UNCHANGED vars
  PROVE  IInv'
<1>1. TypeOK'
  BY CoverageStays DEF IInv, TypeOK, vars, jobVars, RunRecords
<1>2. VersionsMade' /\ RequestsKnow' /\ RunsKnow'
  BY DEF IInv, VersionsMade, RequestsKnow, RunsKnow, Saving, Active, InPartition, PartitionOf, vars
<1>3. OldAreWrong' /\ WrongAreKnown' /\ QuietWalks'
  BY DEF IInv, OldAreWrong, WrongAreKnown, QuietWalks, Covered, ToCome, Passed, Pending, Running,
         InSync, Right, Active, InPartition, PartitionOf, KeptOrphan, TenantWide, vars, jobVars
<1>4. AloneRefresh' /\ JobsTracked'
  BY DEF IInv, AloneRefresh, JobsTracked, Exact, ActiveIn, Active, Indexed, Unfinished,
         ScopeOf, Cov!RefreshTask, Cov!Free, vars, jobVars
<1>5. QED
  BY <1>1, <1>2, <1>3, <1>4 DEF IInv

LEMMA Invariant == Spec => []IInv
BY InitIInv, NextIInv, StutterIInv, PTL DEF Spec

\* A document that is not what the table holds has its event under way, or a
\* forced run still to come to it, or was left so by a race or a kill
\* (lib/indexer.ts, reindexer.ts, stale.ts).
THEOREM WrongDocumentsExplained == Spec => []RecordsIndexed
<1>1. IInv => RecordsIndexed
  BY DEF IInv, WrongAreKnown, RecordsIndexed, Covered
<1>2. QED
  BY <1>1, Invariant, PTL

\* A reindex run that no change of the table and no indexing of its partition
\* disturbed leaves the partition as the table is, but for the orphans that a
\* run of an organization keeps because they were written after started_at of
\* the tenant-wide job row (reindexEntity, purgeOrphans).
THEOREM QuietRunsRepair == Spec => []ReindexRepairs
<1>1. IInv => ReindexRepairs
  BY DEF IInv, QuietWalks, ReindexRepairs, Running, RunSteps, OpenSteps
<1>2. QED
  BY <1>1, Invariant, PTL

\* A run with nothing beside it, that keeps the coverage row, leaves the counts
\* exact (refreshCoverageSnapshot).
THEOREM AloneRunsCount == Spec => []CoverageRepaired
<1>1. IInv => CoverageRepaired
  BY DEF IInv, AloneRefresh, CoverageRepaired, Exact, Cov!Ready, Cov!Free, Cov!RefreshTask
<1>2. QED
  BY <1>1, Invariant, PTL

\* Job rows are open while their runs go on, and one stays open only after a run
\* that was killed, or that failed where no finally closes it (prepareJob,
\* finalizeJob).
THEOREM RowsTellRuns == Spec => []JobsTracked
BY Invariant, PTL DEF IInv

=============================================================================
