---------------------------- MODULE ReindexLock ----------------------------
(***************************************************************************)
(* The lock of the search reindex of one tenant and one type (full text or *)
(* vector): the rows of entity_index_jobs with its entity type, one scope  *)
(* per organization.  Nothing in the database makes a scope's row unique   *)
(* or ties taking the lock to having checked it: each function is a few    *)
(* statements of their own, and other requests, polls and workers run      *)
(* between them.                                                           *)
(*                                                                         *)
(* A request to reindex checks the lock twice (the route, and then         *)
(* acquireReindexLock), takes it, and works, directly or by enqueueing     *)
(* batches; only a direct one releases it.  Workers renew the lock after   *)
(* each batch.  A check that reads a row whose heartbeat is too old closes *)
(* it and answers that there is no lock.  The settings page polls.         *)
(*                                                                         *)
(* Times are ages in ticks.  A failed statement is caught everywhere and   *)
(* goes on as QueryFails says.                                             *)
(***************************************************************************)
EXTENDS Integers, FiniteSets

CONSTANTS
  Org,        \* the organizations of the tenant
  Row,        \* the ids of rows that may be inserted (a bound)
  Request,    \* requests to reindex or to cancel, each made once
  Worker,     \* slots of the queue's workers
  Poll,       \* the settings page, which asks again and again
  Stale,      \* HEARTBEAT_STALE_MS in ticks
  Batches,    \* bound on the batches a request enqueues
  MaxFaults,  \* bound on killed processes and failed statements
  None        \* no organization, no row

ASSUME LockAssumption ==
  /\ Stale \in Nat /\ Batches \in Nat /\ MaxFaults \in Nat
  /\ None \notin Org \cup Row
  /\ Poll \notin Request \cup Worker
  /\ Request \cap Worker = {}

Web == Request \cup {Poll}
Proc == Web \cup Worker

VARIABLES
  row,      \* entity_index_jobs: organization, open (finished_at is null), age of the heartbeat
  pc,       \* what each process does next
  mine,     \* its request: what it was asked for and its organization
  found,    \* the row its last select returned
  sent,     \* the batches a request has enqueued
  waiting,  \* the batches in the queue, by organization
  faults,   \* faults so far
  \* history: the rows that have held the lock ever since a request began, and
  \* how many of its checks were passed by a stale row or by a failure
  kept, met

base == <<row, pc, mine, found, sent, waiting, faults, met>>
vars == <<base, kept>>

Op == {"direct", "queue", "cancel"}

Live(r) == row[r].open /\ row[r].age <= Stale
Open == {r \in Row : row[r].open}
Scope(o) == {r \in Row : row[r].org = o}

\* Where each kind of process may be.
Place(p) ==
  IF p \in Worker THEN {"new", "beat", "select", "write"}
  ELSE IF p = Poll THEN {"new", "check", "clean"}
  ELSE {"new", "check", "clean", "recheck", "reclean", "select", "write", "work",
        "clear", "release", "done"}

TypeOK ==
  /\ row \in [Row -> [org : Org \cup {None}, open : BOOLEAN, age : 0..Stale + 1]]
  /\ pc \in [Proc -> UNION {Place(p) : p \in Proc}]
  /\ \A p \in Proc : pc[p] \in Place(p)
  /\ mine \in [Proc -> [op : Op \cup {"poll", "batch"}, org : Org \cup {None}]]
  /\ found \in [Proc -> Row \cup {None}]
  /\ sent \in [Request -> 0..Batches]
  /\ waiting \in [Org -> Nat]
  /\ faults \in 0..MaxFaults
  /\ kept \in [Request -> SUBSET Row]
  /\ met \in [Request -> 0..2]

Init ==
  /\ row = [r \in Row |-> [org |-> None, open |-> FALSE, age |-> 0]]
  /\ pc = [p \in Proc |-> "new"]
  /\ mine = [p \in Proc |-> [op |-> IF p \in Worker THEN "batch" ELSE "poll",
                             org |-> None]]
  /\ found = [p \in Proc |-> None]
  /\ sent = [p \in Request |-> 0]
  /\ waiting = [o \in Org |-> 0]
  /\ faults = 0
  /\ kept = [p \in Request |-> {}]
  /\ met = [p \in Request |-> 0]

Goto(p, to) == pc' = [pc EXCEPT ![p] = to]

-----------------------------------------------------------------------------
(* Requests and polls. *)

Begin(p, op, o) ==
  /\ pc[p] = "new"
  /\ mine' = [mine EXCEPT ![p] = [op |-> op, org |-> o]]
  /\ Goto(p, IF op = "cancel" THEN "clear" ELSE "check")
  /\ UNCHANGED <<row, found, sent, waiting, faults, met>>

Ask ==
  /\ pc[Poll] = "new"
  /\ Goto(Poll, "check")
  /\ UNCHANGED <<row, mine, found, sent, waiting, faults, met>>

\* Where a check that finds no lock leads: a poll has its answer, the route
\* goes on to acquireReindexLock, and that to prepareJob.
Unlocked(p) ==
  IF p = Poll THEN "new"
  ELSE IF pc[p] \in {"check", "clean"} THEN "recheck" ELSE "select"

\* Where a check that finds the lock leads: the route answers 409.
Locked(p) == IF p = Poll THEN "new" ELSE "done"

Passed(p) == met' = IF p = Poll THEN met ELSE [met EXCEPT ![p] = @ + 1]

Check_OwnOrganization(p) ==
  /\ pc[p] \in {"check", "recheck"}
  /\ LET open == Open \cap Scope(mine[p].org) IN
     \/ open = {} /\ Goto(p, Unlocked(p)) /\ UNCHANGED <<found, met>>
     \/ \E r \in open :
          \/ /\ row[r].age > Stale
             /\ found' = [found EXCEPT ![p] = r]
             /\ Passed(p)
             /\ Goto(p, IF pc[p] = "check" THEN "clean" ELSE "reclean")
          \/ row[r].age <= Stale /\ Goto(p, Locked(p)) /\ UNCHANGED <<found, met>>
  /\ UNCHANGED <<row, mine, sent, waiting, faults>>

\* getReindexLockStatus reads the first open row of the tenant, of whatever
\* organization and in no order.
Check(p) ==
  /\ pc[p] \in {"check", "recheck"}
  /\ \/ Open = {} /\ Goto(p, Unlocked(p)) /\ UNCHANGED <<found, met>>
     \/ \E r \in Open :
          \/ /\ row[r].age > Stale
             /\ found' = [found EXCEPT ![p] = r]
             /\ Passed(p)
             /\ Goto(p, IF pc[p] = "check" THEN "clean" ELSE "reclean")
          \/ row[r].age <= Stale /\ Goto(p, Locked(p)) /\ UNCHANGED <<found, met>>
  /\ UNCHANGED <<row, mine, sent, waiting, faults>>

Clean_Forgets(p) ==
  /\ pc[p] \in {"clean", "reclean"}
  /\ found' = [found EXCEPT ![p] = None]
  /\ Goto(p, Unlocked(p))
  /\ UNCHANGED <<row, mine, sent, waiting, faults, met>>

\* It closes the row it has read, by its id and whatever it has become.
Clean(p) ==
  /\ pc[p] \in {"clean", "reclean"}
  /\ row' = [row EXCEPT ![found[p]].open = FALSE]
  /\ found' = [found EXCEPT ![p] = None]
  /\ Goto(p, Unlocked(p))
  /\ UNCHANGED <<mine, sent, waiting, faults, met>>

\* prepareJob looks for a row of the organization, open or not, ...
Select(p) ==
  /\ pc[p] = "select"
  /\ LET own == Scope(mine[p].org) IN
     IF own = {} THEN found' = [found EXCEPT ![p] = None]
     ELSE \E r \in own : found' = [found EXCEPT ![p] = r]
  /\ Goto(p, "write")
  /\ UNCHANGED <<row, mine, sent, waiting, faults, met>>

\* ... and opens all of them, or inserts one.
Opened(o) == [org |-> o, open |-> TRUE, age |-> 0]

Write_AlwaysWorks(p) ==
  /\ pc[p] = "write"
  /\ row' = [r \in Row |-> IF row[r].org = mine[p].org
                           THEN Opened(mine[p].org) ELSE row[r]]
  /\ found' = [found EXCEPT ![p] = None]
  /\ Goto(p, "work")
  /\ UNCHANGED <<mine, sent, waiting, faults, met>>

Write(p) ==
  /\ pc[p] = "write"
  /\ \/ /\ found[p] # None
        /\ row' = [r \in Row |-> IF row[r].org = mine[p].org
                                 THEN Opened(mine[p].org) ELSE row[r]]
     \/ /\ found[p] = None
        /\ \E r \in Scope(None) : row' = [row EXCEPT ![r] = Opened(mine[p].org)]
  /\ found' = [found EXCEPT ![p] = None]
  /\ Goto(p, IF p \in Worker THEN "new" ELSE "work")
  /\ UNCHANGED <<mine, sent, waiting, faults, met>>

Enqueue(p) ==
  /\ pc[p] = "work" /\ mine[p].op = "queue"
  /\ sent[p] < Batches
  /\ sent' = [sent EXCEPT ![p] = @ + 1]
  /\ waiting' = [waiting EXCEPT ![mine[p].org] = @ + 1]
  /\ UNCHANGED <<row, pc, mine, found, faults, met>>

\* The work ends, well or not; with the queue the lock is left to the workers.
Finish(p) ==
  /\ pc[p] = "work"
  /\ Goto(p, IF mine[p].op = "direct" THEN "release" ELSE "done")
  /\ UNCHANGED <<row, mine, found, sent, waiting, faults, met>>

\* A cancellation empties the queue, which may fail, ...
Clear(p) ==
  /\ pc[p] = "clear"
  /\ waiting' \in {waiting, [o \in Org |-> 0]}
  /\ Goto(p, "release")
  /\ UNCHANGED <<row, mine, found, sent, faults, met>>

\* ... and then, as the end of direct work does, closes the rows of its
\* organization.
Release(p) ==
  /\ pc[p] = "release"
  /\ row' = [r \in Row |-> IF row[r].org = mine[p].org
                           THEN [row[r] EXCEPT !.open = FALSE, !.age = 0] ELSE row[r]]
  /\ Goto(p, "done")
  /\ UNCHANGED <<mine, found, sent, waiting, faults, met>>

-----------------------------------------------------------------------------
(* Workers. *)

Take(w, o) ==
  /\ pc[w] = "new" /\ waiting[o] > 0
  /\ waiting' = [waiting EXCEPT ![o] = @ - 1]
  /\ mine' = [mine EXCEPT ![w].org = o]
  /\ Goto(w, "beat")
  /\ UNCHANGED <<row, found, sent, faults, met>>

\* updateReindexProgress, after the batch is indexed: renew the open rows of
\* the organization, or take the lock again.  A batch whose records are gone
\* does not get here.
Beat(w) ==
  /\ pc[w] = "beat"
  /\ LET own == Scope(mine[w].org) \cap Open IN
     \/ /\ own # {}
        /\ row' = [r \in Row |-> IF r \in own THEN [row[r] EXCEPT !.age = 0] ELSE row[r]]
        /\ Goto(w, "new")
     \/ own = {} /\ Goto(w, "select") /\ UNCHANGED row
     \/ Goto(w, "new") /\ UNCHANGED row
  /\ UNCHANGED <<mine, found, sent, waiting, faults, met>>

-----------------------------------------------------------------------------
(* Faults and time. *)

Fault == faults < MaxFaults /\ faults' = faults + 1

\* A failed statement is caught: a check takes it for no lock, prepareJob for
\* not acquired, and a release or a renewal is given up.
QueryFails(p) ==
  /\ Fault
  /\ \/ /\ pc[p] \in {"check", "recheck"}
        /\ Goto(p, Unlocked(p))
        /\ Passed(p)
     \/ /\ pc[p] \in {"clean", "reclean"}
        /\ Goto(p, Unlocked(p))
        /\ UNCHANGED met
     \/ /\ pc[p] \in {"select", "write", "release", "beat"}
        /\ Goto(p, IF p \in Worker THEN "new" ELSE "done")
        /\ UNCHANGED met
  /\ found' = [found EXCEPT ![p] = None]
  /\ UNCHANGED <<row, mine, sent, waiting>>

\* The web process of a request or a worker is killed, or a batch fails: the
\* queue delivers the batch again, unless it has failed too often or has been
\* cleared.
Dies(p) ==
  /\ Fault
  /\ pc[p] \notin {"new", "done"}
  /\ Goto(p, IF p \in Request THEN "done" ELSE "new")
  /\ found' = [found EXCEPT ![p] = None]
  /\ \/ p \in Worker /\ waiting' = [waiting EXCEPT ![mine[p].org] = @ + 1]
     \/ UNCHANGED waiting
  /\ UNCHANGED <<row, mine, sent, met>>

\* The heartbeat of a finished row is not read.
Tick ==
  /\ \E r \in Row : Live(r)
  /\ row' = [r \in Row |-> IF Live(r) THEN [row[r] EXCEPT !.age = @ + 1] ELSE row[r]]
  /\ UNCHANGED <<pc, mine, found, sent, waiting, faults, met>>

-----------------------------------------------------------------------------
(* History: the rows that hold the lock and have done so since p began. *)

Watch ==
  kept' = [p \in Request |->
             {r \in IF pc[p] = "new" THEN Row ELSE kept[p] : Live(r)' /\ pc'[p] # "done"}]

WebStep(p) ==
  Check(p) \/ Clean(p) \/ Select(p) \/ Write(p) \/ Finish(p) \/ Clear(p) \/ Release(p)

WorkerStep(w) ==
  Beat(w) \/ Select(w) \/ Write(w) \/ \E o \in Org : Take(w, o)

Step ==
  \/ \E p \in Web : WebStep(p)
  \/ \E p \in Request : Enqueue(p) \/ \E op \in Op, o \in Org : Begin(p, op, o)
  \/ Ask
  \/ \E w \in Worker : WorkerStep(w)
  \/ \E p \in Proc : QueryFails(p) \/ Dies(p)
  \/ Tick

Next == Step /\ Watch

\* Statements return, workers take what waits, a settings page that has shown a
\* lock polls while it is open, and time passes.  No one has to make a request.
Fairness ==
  /\ \A p \in Web : WF_vars(WebStep(p) /\ Watch)
  /\ WF_vars(Ask /\ Watch)
  /\ \A w \in Worker : WF_vars(WorkerStep(w) /\ Watch)
  /\ WF_vars(Tick /\ Watch)

Spec == Init /\ [][Next]_vars
FairSpec == Spec /\ Fairness

-----------------------------------------------------------------------------
(* Properties. *)

\* A request that takes the lock although some row has held it since the
\* request began has been misled twice: each of its checks met another row,
\* one that was stale, or failed.  One stale row of another organization is
\* not enough, since the check that meets it closes it and the second check
\* meets the lock.
LiveLockRefuses ==
  \A p \in Request :
    pc[p] \in {"select", "write", "work"} /\ kept[p] # {} => met[p] = 2

\* Whoever is killed or gives up, the lock does not outlive the work: when
\* no one asks for more, the button is free again.
EveryLockEnds == <>[](Open = {})
=============================================================================
