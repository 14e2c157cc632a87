------------------------- MODULE ReindexLockProofs -------------------------
(***************************************************************************)
(* Proofs about ReindexLock, for any number of organizations, rows,        *)
(* requests and workers: its types, and that a request passes a lock that  *)
(* is kept only if each of its two checks was misled.  The argument: a row *)
(* in kept[p] is live, so a check of p finds some row open; it goes on     *)
(* only with a stale one or when the statement fails, and both count.      *)
(***************************************************************************)
EXTENDS ReindexLock, TLAPS

-----------------------------------------------------------------------------
(* Types. *)

\* Whoever goes on to write has an organization.
HasOrg ==
  \A p \in Proc : pc[p] \in {"beat", "select", "write", "work", "release"} =>
    mine[p].org \in Org

\* Requests that have begun have one.
BegunOrg == \A p \in Request : pc[p] # "new" => mine[p].org \in Org

\* A row that is read to be closed is there.
FoundRow == \A p \in Proc : pc[p] \in {"clean", "reclean"} => found[p] \in Row

\* The checks passed so far.
Count ==
  \A p \in Request :
    /\ pc[p] \in {"new", "check"} => met[p] = 0
    /\ pc[p] \in {"clean", "recheck"} => met[p] \in 0..1

Typed == TypeOK /\ HasOrg /\ BegunOrg /\ FoundRow /\ Count

\* What the program counters may be is a set of strings.
Places == {"new", "check", "clean", "recheck", "reclean", "select", "write", "work",
           "clear", "release", "done", "beat"}

LEMMA PlaceType == ASSUME NEW p \in Proc PROVE Place(p) \subseteq Places
  BY DEF Place, Places

LEMMA ProcType == /\ Request \subseteq Proc /\ Worker \subseteq Proc /\ Poll \in Proc
                  /\ Web \subseteq Proc
                  /\ \A w \in Worker : w \notin Request /\ w # Poll /\ w \notin Web
                  /\ \A p \in Request : p \notin Worker /\ p # Poll
                  /\ Poll \notin Worker
                  /\ \A p \in Web : p \in Request \/ p = Poll
  BY LockAssumption DEF Proc, Web

LEMMA InitTyped == Init => Typed
<1>1. Init => TypeOK
  BY LockAssumption, ProcType DEF Init, TypeOK, Place
<1>2. Init => HasOrg /\ BegunOrg /\ FoundRow /\ Count
  BY ProcType DEF Init, HasOrg, BegunOrg, FoundRow, Count
<1>3. QED
  BY <1>1, <1>2 DEF Typed

\* The program counter after Goto.
LEMMA GotoPc ==
  ASSUME TypeOK, NEW p \in Proc, NEW to \in Place(p), Goto(p, to)
  PROVE  /\ pc' \in [Proc -> UNION {Place(q) : q \in Proc}]
         /\ \A q \in Proc : pc'[q] \in Place(q)
         /\ pc'[p] = to
         /\ \A q \in Proc \ {p} : pc'[q] = pc[q]
<1>1. pc \in [Proc -> UNION {Place(q) : q \in Proc}]
  BY DEF TypeOK
<1>2. \A q \in Proc : pc[q] \in Place(q)
  BY DEF TypeOK
<1>3. to \in UNION {Place(q) : q \in Proc}
  OBVIOUS
<1>4. pc' = [pc EXCEPT ![p] = to]
  BY DEF Goto
<1>5. pc'[p] = to /\ \A q \in Proc \ {p} : pc'[q] = pc[q]
  BY <1>1, <1>4
<1>6. pc' \in [Proc -> UNION {Place(q) : q \in Proc}]
  BY <1>1, <1>3, <1>4
<1>7. QED
  BY <1>2, <1>5, <1>6

LEMMA WatchType ==
  ASSUME TypeOK, Watch
  PROVE  kept' \in [Request -> SUBSET Row]
  BY DEF TypeOK, Watch

\* What a step leaves of the types, from what it does to the program counter.
LEMMA TypedFrom ==
  ASSUME Typed, Watch, NEW p \in Proc, NEW to \in Place(p), Goto(p, to),
         row' \in [Row -> [org : Org \cup {None}, open : BOOLEAN, age : 0..Stale + 1]],
         found' \in [Proc -> Row \cup {None}],
         waiting' \in [Org -> Nat],
         faults' \in 0..MaxFaults,
         sent' = sent,
         mine' \in [Proc -> [op : Op \cup {"poll", "batch"}, org : Org \cup {None}]],
         met' \in [Request -> 0..2],
         \A q \in Proc \ {p} : mine'[q] = mine[q] /\ found'[q] = found[q],
         \A q \in Request \ {p} : met'[q] = met[q],
         to \in {"beat", "select", "write", "work", "release"} => mine'[p].org \in Org,
         p \in Request /\ to # "new" => mine'[p].org \in Org,
         to \in {"clean", "reclean"} => found'[p] \in Row,
         p \in Request /\ to \in {"new", "check"} => met'[p] = 0,
         p \in Request /\ to \in {"clean", "recheck"} => met'[p] \in 0..1
  PROVE  Typed'
<1>1. TypeOK /\ HasOrg /\ BegunOrg /\ FoundRow /\ Count
  BY DEF Typed
<1>2. /\ pc' \in [Proc -> UNION {Place(q) : q \in Proc}]
      /\ \A q \in Proc : pc'[q] \in Place(q)
      /\ pc'[p] = to
      /\ \A q \in Proc \ {p} : pc'[q] = pc[q]
  BY <1>1, GotoPc
<1>3. kept' \in [Request -> SUBSET Row]
  BY <1>1, WatchType
<1>4. TypeOK'
  BY <1>1, <1>2, <1>3 DEF TypeOK, Place
<1>5. HasOrg'
  BY <1>1, <1>2 DEF HasOrg
<1>6. BegunOrg'
  BY <1>1, <1>2, ProcType DEF BegunOrg
<1>7. FoundRow'
  BY <1>1, <1>2 DEF FoundRow
<1>8. Count'
  BY <1>1, <1>2, ProcType DEF Count
<1>9. QED
  BY <1>4, <1>5, <1>6, <1>7, <1>8 DEF Typed

\* The variables that steps leave alone, as TypedFrom needs them.
LEMMA Kept ==
  ASSUME Typed
  PROVE  /\ row' = row =>
              row' \in [Row -> [org : Org \cup {None}, open : BOOLEAN, age : 0..Stale + 1]]
         /\ found' = found => found' \in [Proc -> Row \cup {None}]
         /\ waiting' = waiting => waiting' \in [Org -> Nat]
         /\ faults' = faults => faults' \in 0..MaxFaults
         /\ mine' = mine =>
              mine' \in [Proc -> [op : Op \cup {"poll", "batch"}, org : Org \cup {None}]]
         /\ met' = met => met' \in [Request -> 0..2]
  BY DEF Typed, TypeOK

\* Closing, renewing and ageing a row.
LEMMA RowType ==
  ASSUME Typed, NEW r \in Row
  PROVE  LET t == [org : Org \cup {None}, open : BOOLEAN, age : 0..Stale + 1] IN
         /\ row[r] \in t
         /\ [row[r] EXCEPT !.open = FALSE, !.age = 0] \in t
         /\ [row[r] EXCEPT !.age = 0] \in t
         /\ Live(r) => [row[r] EXCEPT !.age = @ + 1] \in t
<1>1. row[r] \in [org : Org \cup {None}, open : BOOLEAN, age : 0..Stale + 1]
  BY DEF Typed, TypeOK
<1>2. 0 \in 0..Stale + 1
  BY LockAssumption
<1>3. Live(r) => row[r].age + 1 \in 0..Stale + 1
  BY <1>1, LockAssumption DEF Live
<1>4. QED
  BY <1>1, <1>2, <1>3

LEMMA BeginTyped ==
  ASSUME Typed, Watch, NEW p \in Request, NEW op \in Op, NEW o \in Org, Begin(p, op, o)
  PROVE  Typed'
<1> DEFINE to == IF op = "cancel" THEN "clear" ELSE "check"
<1>1. to \in Place(p)
  BY ProcType DEF Place
<1>2. Goto(p, to) /\ mine' = [mine EXCEPT ![p] = [op |-> op, org |-> o]]
  BY DEF Begin
<1>3. mine' \in [Proc -> [op : Op \cup {"poll", "batch"}, org : Org \cup {None}]]
  BY <1>2 DEF Typed, TypeOK
<1>4. mine'[p] = [op |-> op, org |-> o] /\ \A q \in Proc \ {p} : mine'[q] = mine[q]
  BY <1>2, ProcType DEF Typed, TypeOK
<1>5. met[p] = 0
  BY DEF Begin, Typed, Count
<1> HIDE DEF to
<1>6. to \in {"clear", "check"}
  BY DEF to
<1>7. /\ p \in Proc /\ to \notin {"beat", "select", "write", "work", "release"}
      /\ to \notin {"clean", "recheck", "reclean"}
  BY <1>6, ProcType
<1>8. UNCHANGED <<row, found, sent, waiting, faults, met>>
  BY DEF Begin
<1>9. mine'[p].org \in Org
  BY <1>4
<1>10. QED
  BY <1>1, <1>2, <1>3, <1>4, <1>5, <1>7, <1>8, <1>9, Kept, TypedFrom

LEMMA AskTyped == ASSUME Typed, Watch, Ask PROVE Typed'
<1>1. "check" \in Place(Poll)
  BY ProcType DEF Place
<1>2. QED
  BY <1>1, ProcType, TypedFrom DEF Ask, Typed, TypeOK

\* Where the checks lead is a place of the process, and where none of them
\* has passed.
LEMMA Leads ==
  ASSUME NEW p \in Web, pc[p] \in {"check", "clean", "recheck", "reclean"}
  PROVE  /\ Unlocked(p) \in Place(p) /\ Locked(p) \in Place(p)
         /\ Unlocked(p) \in {"new", "recheck", "select"}
         /\ Locked(p) \in {"new", "done"}
         /\ p \in Request => /\ Unlocked(p) # "new" /\ Locked(p) = "done"
                             /\ Unlocked(p) = "recheck" => pc[p] \in {"check", "clean"}
                             /\ Unlocked(p) = "select" => pc[p] \in {"recheck", "reclean"}
         /\ p = Poll => Unlocked(p) = "new" /\ Locked(p) = "new"
<1>1. p \notin Worker /\ (p \in Request \/ p = Poll) /\ (p \in Request => p # Poll)
  BY LockAssumption, ProcType
<1>2. QED
  BY <1>1 DEF Unlocked, Locked, Place

\* Passing a check counts once.
LEMMA PassedType ==
  ASSUME Typed, NEW p \in Web, pc[p] \in {"check", "recheck"}, Passed(p)
  PROVE  /\ met' \in [Request -> 0..2]
         /\ \A q \in Request \ {p} : met'[q] = met[q]
         /\ p \in Request => met'[p] = met[p] + 1
         /\ p \in Request /\ pc[p] = "check" => met'[p] = 1
<1>1. met \in [Request -> 0..2]
  BY DEF Typed, TypeOK
<1>2. CASE p = Poll
  BY <1>1, <1>2, ProcType DEF Passed
<1>3. CASE p # Poll
  <2>1. p \in Request
    BY <1>3, ProcType
  <2>2. met[p] \in 0..1 /\ (pc[p] = "check" => met[p] = 0)
    BY <2>1 DEF Typed, Count
  <2>3. met' = [met EXCEPT ![p] = @ + 1]
    BY <1>3 DEF Passed
  <2>4. met'[p] = met[p] + 1
    BY <1>1, <2>1, <2>3
  <2>5. QED
    BY <1>1, <2>1, <2>2, <2>3, <2>4
<1>4. QED
  BY <1>2, <1>3

LEMMA CheckTyped == ASSUME Typed, Watch, NEW p \in Web, Check(p) PROVE Typed'
<1>1. pc[p] \in {"check", "recheck"} /\ p \in Proc
  BY ProcType DEF Check
<1>2. CASE Goto(p, Unlocked(p)) /\ UNCHANGED <<found, met>>
  <2> DEFINE to == Unlocked(p)
  <2>1. p \in Request /\ to = "recheck" => met[p] \in 0..1
    BY <1>1, Leads DEF Typed, Count
  <2>2. p \in Request => mine[p].org \in Org /\ to # "new"
    BY <1>1, Leads DEF Typed, BegunOrg
  <2>3. p = Poll => to = "new"
    BY <1>1, Leads
  <2>4. to = "select" => mine[p].org \in Org
    BY <2>2, <2>3, ProcType
  <2>5. to \in Place(p) /\ to \in {"new", "recheck", "select"}
    BY <1>1, Leads
  <2>6. Goto(p, to)
    BY <1>2
  <2> HIDE DEF to
  <2>7. QED
    BY <1>1, <1>2, <2>1, <2>2, <2>3, <2>4, <2>5, <2>6, TypedFrom
       DEF Check, Typed, TypeOK
<1>3. CASE Goto(p, Locked(p)) /\ UNCHANGED <<found, met>>
  <2> DEFINE to == Locked(p)
  <2>1. p \in Request => mine[p].org \in Org /\ to = "done"
    BY <1>1, Leads DEF Typed, BegunOrg
  <2>2. to \in Place(p) /\ to \in {"new", "done"}
    BY <1>1, Leads
  <2>3. Goto(p, to)
    BY <1>3
  <2> HIDE DEF to
  <2>4. QED
    BY <1>1, <1>3, <2>1, <2>2, <2>3, TypedFrom DEF Check, Typed, TypeOK
<1>4. ASSUME NEW r \in Open, found' = [found EXCEPT ![p] = r], Passed(p),
             Goto(p, IF pc[p] = "check" THEN "clean" ELSE "reclean")
      PROVE  Typed'
  <2> DEFINE to == IF pc[p] = "check" THEN "clean" ELSE "reclean"
  <2>1. r \in Row
    BY DEF Open
  <2>2. found' \in [Proc -> Row \cup {None}] /\ found'[p] = r
        /\ \A q \in Proc \ {p} : found'[q] = found[q]
    BY <1>1, <1>4, <2>1 DEF Typed, TypeOK
  <2>3. p = Poll => pc[p] = "check"
    BY <1>1, ProcType DEF Typed, TypeOK, Place
  <2>4. to \in Place(p)
    BY <2>3, ProcType DEF Place
  <2>5. p \in Request => mine[p].org \in Org
    BY <1>1 DEF Typed, BegunOrg
  <2>6. Goto(p, to)
    BY <1>4
  <2>7. p \in Request /\ to = "clean" => met'[p] = 1
    BY <1>1, <1>4, PassedType
  <2> HIDE DEF to
  <2>8. to \in {"clean", "reclean"}
    BY DEF to
  <2>9. met' \in [Request -> 0..2] /\ \A q \in Request \ {p} : met'[q] = met[q]
    BY <1>1, <1>4, PassedType
  <2>10. UNCHANGED <<row, mine, sent, waiting, faults>>
    BY DEF Check
  <2>11. to \notin {"beat", "select", "write", "work", "release", "new", "check", "recheck"}
    BY <2>8
  <2>12. p \in Request /\ to = "clean" => met'[p] \in 0..1
    BY <2>7
  <2>13. QED
    BY <1>1, <2>1, <2>2, <2>4, <2>5, <2>6, <2>8, <2>9, <2>10, <2>11, <2>12, Kept, TypedFrom
<1>5. QED
  BY <1>2, <1>3, <1>4 DEF Check

LEMMA CleanTyped == ASSUME Typed, Watch, NEW p \in Web, Clean(p) PROVE Typed'
<1>1. pc[p] \in {"clean", "reclean"} /\ p \in Proc /\ found[p] \in Row
  BY ProcType DEF Clean, Typed, FoundRow
<1>2. row' \in [Row -> [org : Org \cup {None}, open : BOOLEAN, age : 0..Stale + 1]]
  BY <1>1 DEF Clean, Typed, TypeOK
<1>3. found' \in [Proc -> Row \cup {None}] /\ \A q \in Proc \ {p} : found'[q] = found[q]
  BY <1>1 DEF Clean, Typed, TypeOK
<1>4. p \in Request => mine[p].org \in Org
  BY <1>1 DEF Typed, BegunOrg
<1>5. p \in Request /\ Unlocked(p) = "recheck" => met[p] \in 0..1
  BY <1>1, Leads DEF Typed, Count
<1>6. p = Poll => Unlocked(p) = "new"
  BY <1>1, Leads
<1>7. Unlocked(p) = "select" => mine[p].org \in Org
  BY <1>4, <1>6, ProcType
<1>8. QED
  BY <1>1, <1>2, <1>3, <1>4, <1>5, <1>6, <1>7, Leads, ProcType, TypedFrom
     DEF Clean, Typed, TypeOK

\* Whoever prepares the job is a request or a worker.
LEMMA Preparing ==
  ASSUME Typed, NEW p \in Proc, pc[p] \in {"select", "write"}
  PROVE  /\ "write" \in Place(p) /\ mine[p].org \in Org
         /\ p \in Worker => "new" \in Place(p)
         /\ p \notin Worker => p \in Request /\ "work" \in Place(p) /\ "done" \in Place(p)
<1>1. pc[p] \in Place(p) /\ mine[p].org \in Org
  BY DEF Typed, TypeOK, HasOrg
<1>2. QED
  BY <1>1, ProcType DEF Place, Proc, Web

LEMMA SelectTyped == ASSUME Typed, Watch, NEW p \in Proc, Select(p) PROVE Typed'
<1>1. pc[p] = "select"
  BY DEF Select
<1>2. Goto(p, "write") /\ "write" \in Place(p) /\ mine[p].org \in Org
  BY <1>1, Preparing DEF Select
<1>3. \E f \in Row \cup {None} : found' = [found EXCEPT ![p] = f]
  BY DEF Select, Scope
<1>4. found' \in [Proc -> Row \cup {None}] /\ \A q \in Proc \ {p} : found'[q] = found[q]
  BY <1>3 DEF Typed, TypeOK
<1>5. QED
  BY <1>1, <1>2, <1>4, TypedFrom DEF Select, Typed, TypeOK

LEMMA OpenedType ==
  ASSUME NEW o \in Org
  PROVE  Opened(o) \in [org : Org \cup {None}, open : BOOLEAN, age : 0..Stale + 1]
  BY LockAssumption DEF Opened

LEMMA WriteTyped == ASSUME Typed, Watch, NEW p \in Proc, Write(p) PROVE Typed'
<1> DEFINE to == IF p \in Worker THEN "new" ELSE "work"
<1>1. pc[p] = "write" /\ Goto(p, to)
  BY DEF Write
<1>2. to \in Place(p) /\ mine[p].org \in Org /\ (p \in Request => to = "work")
  BY <1>1, Preparing, ProcType
<1>3. row' \in [Row -> [org : Org \cup {None}, open : BOOLEAN, age : 0..Stale + 1]]
  BY <1>2, OpenedType DEF Write, Typed, TypeOK, Scope
<1>4. found' \in [Proc -> Row \cup {None}] /\ \A q \in Proc \ {p} : found'[q] = found[q]
  BY DEF Write, Typed, TypeOK
<1> HIDE DEF to
<1>5. to \in {"new", "work"}
  BY DEF to
<1>6. QED
  BY <1>1, <1>2, <1>3, <1>4, <1>5, TypedFrom DEF Write, Typed, TypeOK

LEMMA EnqueueTyped == ASSUME Typed, Watch, NEW p \in Request, Enqueue(p) PROVE Typed'
<1>1. pc[p] = "work" /\ pc' = pc /\ mine[p].org \in Org
  BY ProcType DEF Enqueue, Typed, HasOrg
<1>2. sent' \in [Request -> 0..Batches]
  BY LockAssumption DEF Enqueue, Typed, TypeOK
<1>3. waiting' \in [Org -> Nat]
  BY <1>1 DEF Enqueue, Typed, TypeOK
<1>4. kept' \in [Request -> SUBSET Row]
  BY WatchType DEF Typed
<1>5. TypeOK'
  BY <1>1, <1>2, <1>3, <1>4 DEF Enqueue, Typed, TypeOK, Place
<1>6. HasOrg' /\ BegunOrg' /\ FoundRow' /\ Count'
  BY <1>1 DEF Enqueue, Typed, HasOrg, BegunOrg, FoundRow, Count
<1>7. QED
  BY <1>5, <1>6 DEF Typed

\* A request that works, cancels or releases has the places that follow.
LEMMA Working ==
  ASSUME Typed, NEW p \in Web, pc[p] \in {"work", "clear", "release"}
  PROVE  /\ p \in Request /\ p \in Proc /\ mine[p].org \in Org
         /\ "release" \in Place(p) /\ "done" \in Place(p)
<1>1. pc[p] \in Place(p) /\ p \notin Worker /\ p \in Proc
  BY ProcType DEF Typed, TypeOK
<1>2. p # Poll
  BY <1>1 DEF Place
<1>3. p \in Request
  BY <1>2, ProcType
<1>4. QED
  BY <1>1, <1>2, <1>3 DEF Place, Typed, BegunOrg

LEMMA FinishTyped == ASSUME Typed, Watch, NEW p \in Web, Finish(p) PROVE Typed'
<1> DEFINE to == IF mine[p].op = "direct" THEN "release" ELSE "done"
<1>1. pc[p] = "work" /\ Goto(p, to) /\ UNCHANGED <<row, mine, found, sent, waiting, faults, met>>
  BY DEF Finish
<1>2. to \in Place(p) /\ p \in Proc /\ mine[p].org \in Org
  BY <1>1, Working
<1> HIDE DEF to
<1>3. to \in {"release", "done"}
  BY DEF to
<1>4. QED
  BY <1>1, <1>2, <1>3, Kept, TypedFrom

LEMMA ClearTyped == ASSUME Typed, Watch, NEW p \in Web, Clear(p) PROVE Typed'
<1>1. pc[p] = "clear" /\ Goto(p, "release") /\ UNCHANGED <<row, mine, found, sent, faults, met>>
  BY DEF Clear
<1>2. "release" \in Place(p) /\ p \in Proc /\ mine[p].org \in Org
  BY <1>1, Working
<1>3. waiting' \in [Org -> Nat]
  BY DEF Clear, Typed, TypeOK
<1>4. QED
  BY <1>1, <1>2, <1>3, Kept, TypedFrom

LEMMA ReleaseTyped == ASSUME Typed, Watch, NEW p \in Web, Release(p) PROVE Typed'
<1>1. pc[p] = "release" /\ Goto(p, "done") /\ UNCHANGED <<mine, found, sent, waiting, faults, met>>
  BY DEF Release
<1>2. "done" \in Place(p) /\ p \in Proc /\ mine[p].org \in Org
  BY <1>1, Working
<1>3. row' \in [Row -> [org : Org \cup {None}, open : BOOLEAN, age : 0..Stale + 1]]
  BY RowType DEF Release
<1>4. QED
  BY <1>1, <1>2, <1>3, Kept, TypedFrom

LEMMA TakeTyped ==
  ASSUME Typed, Watch, NEW w \in Worker, NEW o \in Org, Take(w, o)
  PROVE  Typed'
<1>1. Goto(w, "beat") /\ waiting[o] > 0 /\ UNCHANGED <<row, found, sent, faults, met>>
  BY DEF Take
<1>2. "beat" \in Place(w) /\ w \in Proc /\ w \notin Request
  BY ProcType DEF Place
<1>3. waiting' \in [Org -> Nat]
  BY DEF Take, Typed, TypeOK
<1>4. mine' \in [Proc -> [op : Op \cup {"poll", "batch"}, org : Org \cup {None}]]
  BY DEF Take, Typed, TypeOK
<1>5. mine'[w].org = o /\ \A q \in Proc \ {w} : mine'[q] = mine[q]
  BY <1>2 DEF Take, Typed, TypeOK
<1>6. QED
  BY <1>1, <1>2, <1>3, <1>4, <1>5, Kept, TypedFrom

LEMMA BeatTyped == ASSUME Typed, Watch, NEW w \in Worker, Beat(w) PROVE Typed'
<1>1. PICK to \in {"new", "select"} : Goto(w, to)
  BY DEF Beat
<1>2. to \in Place(w) /\ w \in Proc /\ w \notin Request /\ mine[w].org \in Org
  BY <1>1, ProcType DEF Place, Beat, Typed, HasOrg
<1>3. row' \in [Row -> [org : Org \cup {None}, open : BOOLEAN, age : 0..Stale + 1]]
  <2>1. row \in [Row -> [org : Org \cup {None}, open : BOOLEAN, age : 0..Stale + 1]]
    BY DEF Typed, TypeOK
  <2>2. QED
    BY <2>1, RowType DEF Beat
<1>4. UNCHANGED <<mine, found, sent, waiting, faults, met>>
  BY DEF Beat
<1>5. to \notin {"clean", "reclean"}
  OBVIOUS
<1>6. QED
  BY <1>1, <1>2, <1>3, <1>4, <1>5, Kept, TypedFrom

LEMMA FaultType == ASSUME Typed, Fault PROVE faults' \in 0..MaxFaults
  BY LockAssumption DEF Fault, Typed, TypeOK

LEMMA QueryFailsCases ==
  ASSUME NEW p \in Proc, QueryFails(p)
  PROVE  \/ pc[p] \in {"check", "recheck"} /\ Goto(p, Unlocked(p)) /\ Passed(p)
         \/ pc[p] \in {"clean", "reclean"} /\ Goto(p, Unlocked(p)) /\ met' = met
         \/ /\ pc[p] \in {"select", "write", "release", "beat"}
            /\ Goto(p, IF p \in Worker THEN "new" ELSE "done")
            /\ met' = met
  BY DEF QueryFails

LEMMA QueryFailsTyped ==
  ASSUME Typed, Watch, NEW p \in Proc, QueryFails(p)
  PROVE  Typed'
<1>1. /\ faults' \in 0..MaxFaults
      /\ UNCHANGED <<row, mine, sent, waiting>>
      /\ found' \in [Proc -> Row \cup {None}]
      /\ \A q \in Proc \ {p} : found'[q] = found[q]
  BY FaultType DEF QueryFails, Typed, TypeOK
<1>2. CASE /\ pc[p] \in {"check", "recheck", "clean", "reclean"}
           /\ Goto(p, Unlocked(p))
           /\ \/ Passed(p) /\ pc[p] \in {"check", "recheck"}
              \/ met' = met /\ pc[p] \in {"clean", "reclean"}
  <2> DEFINE to == Unlocked(p)
  <2>1. p \in Web /\ p \in Proc
    <3>1. pc[p] \in Place(p)
      BY DEF Typed, TypeOK
    <3>2. p \notin Worker
      BY <1>2, <3>1 DEF Place
    <3>3. QED
      BY <3>2 DEF Proc
  <2>2. /\ to \in Place(p) /\ to \in {"new", "recheck", "select"}
        /\ p \in Request => to # "new"
        /\ p = Poll => to = "new"
        /\ p \in Request /\ to = "recheck" => pc[p] \in {"check", "clean"}
    BY <1>2, <2>1, Leads
  <2>3. p \in Request => mine[p].org \in Org
    BY <1>2 DEF Typed, BegunOrg
  <2>4. to = "select" => mine[p].org \in Org
    BY <2>1, <2>2, <2>3, ProcType
  <2>5. met' \in [Request -> 0..2] /\ \A q \in Request \ {p} : met'[q] = met[q]
    BY <1>2, <2>1, PassedType, Kept
  <2>6. p \in Request /\ to = "recheck" => met'[p] \in 0..1
    <3>1. CASE Passed(p) /\ pc[p] \in {"check", "recheck"}
      BY <2>1, <2>2, <3>1, PassedType
    <3>2. CASE met' = met /\ pc[p] \in {"clean", "reclean"}
      BY <2>2, <3>2 DEF Typed, Count
    <3>3. QED
      BY <1>2, <3>1, <3>2
  <2>7. Goto(p, to)
    BY <1>2
  <2> HIDE DEF to
  <2>8. to \notin {"clean", "reclean", "beat", "write", "work", "release", "check"}
    BY <2>2
  <2>9. QED
    BY <1>1, <2>1, <2>2, <2>3, <2>4, <2>5, <2>6, <2>7, <2>8, Kept, TypedFrom
<1>3. CASE /\ pc[p] \in {"select", "write", "release", "beat"}
           /\ Goto(p, IF p \in Worker THEN "new" ELSE "done")
           /\ met' = met
  <2> DEFINE to == IF p \in Worker THEN "new" ELSE "done"
  <2>1. pc[p] \in Place(p)
    BY DEF Typed, TypeOK
  <2>2. to \in Place(p) /\ (p \in Request => to = "done" /\ mine[p].org \in Org)
    BY <1>3, <2>1, ProcType DEF Place, Typed, BegunOrg
  <2>3. Goto(p, to)
    BY <1>3
  <2> HIDE DEF to
  <2>4. to \in {"new", "done"}
    BY DEF to
  <2>5. QED
    BY <1>1, <1>3, <2>2, <2>3, <2>4, Kept, TypedFrom
<1>4. \/ pc[p] \in {"check", "recheck"} /\ Goto(p, Unlocked(p)) /\ Passed(p)
      \/ pc[p] \in {"clean", "reclean"} /\ Goto(p, Unlocked(p)) /\ met' = met
      \/ /\ pc[p] \in {"select", "write", "release", "beat"}
         /\ Goto(p, IF p \in Worker THEN "new" ELSE "done")
         /\ met' = met
  BY QueryFailsCases
<1>5. ASSUME pc[p] \in {"check", "recheck"}, Goto(p, Unlocked(p)), Passed(p) PROVE Typed'
  BY <1>2, <1>5
<1>6. ASSUME pc[p] \in {"clean", "reclean"}, Goto(p, Unlocked(p)), met' = met PROVE Typed'
  BY <1>2, <1>6
<1>7. QED
  BY <1>3, <1>4, <1>5, <1>6

LEMMA DiesTyped == ASSUME Typed, Watch, NEW p \in Proc, Dies(p) PROVE Typed'
<1> DEFINE to == IF p \in Request THEN "done" ELSE "new"
<1>1. /\ faults' \in 0..MaxFaults
      /\ UNCHANGED <<row, mine, sent, met>>
      /\ found' \in [Proc -> Row \cup {None}]
      /\ \A q \in Proc \ {p} : found'[q] = found[q]
      /\ Goto(p, to) /\ pc[p] # "new"
  BY FaultType DEF Dies, Typed, TypeOK
<1>2. to \in Place(p) /\ (p \in Request => to = "done" /\ mine[p].org \in Org)
  BY <1>1, ProcType DEF Place, Typed, BegunOrg, Proc, Web
<1>3. waiting' \in [Org -> Nat]
  <2>1. CASE p \in Worker /\ waiting' = [waiting EXCEPT ![mine[p].org] = @ + 1]
    <3>1. mine[p].org \in Org
      BY <1>1, <2>1, ProcType DEF Place, Typed, TypeOK, HasOrg
    <3>2. QED
      BY <2>1, <3>1 DEF Typed, TypeOK
  <2>2. CASE waiting' = waiting
    BY <2>2, Kept
  <2>3. QED
    BY <2>1, <2>2 DEF Dies
<1> HIDE DEF to
<1>4. to \in {"new", "done"}
  BY DEF to
<1>5. QED
  BY <1>1, <1>2, <1>3, <1>4, Kept, TypedFrom

LEMMA TickTyped == ASSUME Typed, Watch, Tick PROVE Typed'
<1>1. row' \in [Row -> [org : Org \cup {None}, open : BOOLEAN, age : 0..Stale + 1]]
  BY RowType DEF Tick
<1>2. kept' \in [Request -> SUBSET Row]
  BY WatchType DEF Typed
<1>3. TypeOK'
  BY <1>1, <1>2 DEF Tick, Typed, TypeOK, Place
<1>4. HasOrg' /\ BegunOrg' /\ FoundRow' /\ Count'
  BY DEF Tick, Typed, HasOrg, BegunOrg, FoundRow, Count
<1>5. QED
  BY <1>3, <1>4 DEF Typed

LEMMA NextTyped == Typed /\ [Next]_vars => Typed'
<1> SUFFICES ASSUME Typed, [Next]_vars PROVE Typed'
  OBVIOUS
<1>1. CASE Next
  <2>1. Watch /\ Step
    BY <1>1 DEF Next
  <2>2. ASSUME NEW p \in Web, WebStep(p) PROVE Typed'
    BY <2>1, <2>2, ProcType, CheckTyped, CleanTyped, SelectTyped, WriteTyped, FinishTyped,
       ClearTyped, ReleaseTyped DEF WebStep
  <2>3. ASSUME NEW w \in Worker, WorkerStep(w) PROVE Typed'
    BY <2>1, <2>3, ProcType, BeatTyped, SelectTyped, WriteTyped, TakeTyped DEF WorkerStep
  <2>4. QED
    BY <2>1, <2>2, <2>3, EnqueueTyped, BeginTyped, AskTyped, QueryFailsTyped, DiesTyped,
       TickTyped DEF Step
<1>2. CASE UNCHANGED vars
  BY <1>2 DEF vars, base, Typed, TypeOK, Place, HasOrg, BegunOrg, FoundRow, Count
<1>3. QED
  BY <1>1, <1>2

\* Types are as declared, for any number of organizations, requests and
\* workers; no process is ever where its kind does not go.
THEOREM TypeCorrect == Spec => []TypeOK
<1>1. Typed => TypeOK
  BY DEF Typed
<1>2. QED
  BY <1>1, InitTyped, NextTyped, PTL DEF Spec

-----------------------------------------------------------------------------
(* A lock that is kept. *)

\* The rows in the history hold the lock.
KeptLive == \A p \in Request : \A r \in kept[p] : r \in Row /\ Live(r)

\* With such a row, every check passed so far was misled.
Misled ==
  \A p \in Request :
    kept[p] # {} =>
      /\ pc[p] \in {"clean", "recheck"} => met[p] = 1
      /\ pc[p] \in {"reclean", "select", "write", "work"} => met[p] = 2

LockInv == Typed /\ KeptLive /\ Misled

LEMMA KeptHolds ==
  ASSUME Typed, Watch
  PROVE  /\ KeptLive'
         /\ \A p \in Request : pc[p] # "new" => kept'[p] \subseteq kept[p]
  BY DEF Watch, KeptLive, Live, Typed, TypeOK

\* With a row in the history there is an open one to read.
LEMMA KeptOpen ==
  ASSUME KeptLive, NEW p \in Request, kept[p] # {}
  PROVE  Open # {}
  BY DEF KeptLive, Live, Open

\* What a step may do to a request without harm: leave it, lead it to where no
\* lock is taken, or let it pass a check that counts.
Counted(p) ==
  \/ pc'[p] = pc[p] /\ met'[p] = met[p]
  \/ pc'[p] \in {"new", "check", "clear", "release", "done"}
  \/ pc[p] = "check" /\ pc'[p] \in {"clean", "recheck"} /\ met'[p] = met[p] + 1
  \/ pc[p] = "clean" /\ pc'[p] = "recheck" /\ met'[p] = met[p]
  \/ pc[p] = "recheck" /\ pc'[p] \in {"reclean", "select"} /\ met'[p] = met[p] + 1
  \/ /\ pc[p] \in {"reclean", "select", "write", "work"}
     /\ pc'[p] \in {"select", "write", "work"} /\ met'[p] = met[p]
  \/ pc[p] # "new" /\ kept[p] = {}

LEMMA CountedHolds ==
  ASSUME LockInv, Watch, NEW p \in Request, Counted(p), kept'[p] # {}
  PROVE  /\ pc'[p] \in {"clean", "recheck"} => met'[p] = 1
         /\ pc'[p] \in {"reclean", "select", "write", "work"} => met'[p] = 2
<1>1. pc[p] # "new" => kept[p] # {}
  BY KeptHolds DEF LockInv
<1>2. /\ kept[p] # {} /\ pc[p] \in {"clean", "recheck"} => met[p] = 1
      /\ kept[p] # {} /\ pc[p] \in {"reclean", "select", "write", "work"} => met[p] = 2
      /\ pc[p] = "check" => met[p] = 0
      /\ met[p] \in 0..2
  BY DEF LockInv, Misled, Typed, Count, TypeOK
<1>3. QED
  BY <1>1, <1>2 DEF Counted

\* A step of one process leaves every other request as it is.
LEMMA OthersCounted ==
  ASSUME Typed, NEW q \in Proc, NEW to, Goto(q, to),
         met' = met \/ met' = [met EXCEPT ![q] = @ + 1],
         NEW p \in Request, p # q
  PROVE  Counted(p)
<1>1. pc'[p] = pc[p]
  BY ProcType DEF Goto, Typed, TypeOK
<1>2. met'[p] = met[p]
  BY DEF Typed, TypeOK
<1>3. QED
  BY <1>1, <1>2 DEF Counted

LEMMA CheckCounted ==
  ASSUME LockInv, NEW q \in Web, Check(q), NEW p \in Request
  PROVE  Counted(p)
<1>1. q \in Proc /\ pc[q] \in {"check", "recheck"} /\ Typed
  BY ProcType DEF Check, LockInv
<1>2. CASE Open = {} /\ Goto(q, Unlocked(q)) /\ met' = met
  <2>1. kept[p] = {}
    BY <1>2, KeptOpen DEF LockInv
  <2>2. CASE p = q
    BY <1>1, <2>1, <2>2 DEF Counted
  <2>3. CASE p # q
    BY <1>1, <1>2, <2>3, OthersCounted
  <2>4. QED
    BY <2>2, <2>3
<1>3. CASE Goto(q, IF pc[q] = "check" THEN "clean" ELSE "reclean") /\ Passed(q)
  <2>1. CASE p = q
    <3>1. met'[p] = met[p] + 1
      BY <1>1, <1>3, <2>1, PassedType
    <3>2. pc'[p] = IF pc[p] = "check" THEN "clean" ELSE "reclean"
      BY <1>1, <1>3, <2>1 DEF Goto, Typed, TypeOK
    <3>3. QED
      BY <1>1, <2>1, <3>1, <3>2 DEF Counted
  <2>2. CASE p # q
    BY <1>1, <1>3, <2>2, OthersCounted DEF Passed
  <2>3. QED
    BY <2>1, <2>2
<1>4. CASE Goto(q, Locked(q)) /\ met' = met
  <2>1. CASE p = q
    <3>1. pc'[p] = "done"
      BY <1>1, <1>4, <2>1, Leads DEF Goto, Typed, TypeOK
    <3>2. QED
      BY <3>1 DEF Counted
  <2>2. CASE p # q
    BY <1>1, <1>4, <2>2, OthersCounted
  <2>3. QED
    BY <2>1, <2>2
<1>5. QED
  BY <1>2, <1>3, <1>4 DEF Check

LEMMA QueryFailsCounted ==
  ASSUME LockInv, NEW q \in Proc, QueryFails(q), NEW p \in Request
  PROVE  Counted(p)
<1>1. Typed
  BY DEF LockInv
<1>2. \/ pc[q] \in {"check", "recheck"} /\ Goto(q, Unlocked(q)) /\ Passed(q)
      \/ pc[q] \in {"clean", "reclean"} /\ Goto(q, Unlocked(q)) /\ met' = met
      \/ /\ pc[q] \in {"select", "write", "release", "beat"}
         /\ Goto(q, IF q \in Worker THEN "new" ELSE "done")
         /\ met' = met
  BY QueryFailsCases
<1>3. CASE p # q
  BY <1>1, <1>2, <1>3, OthersCounted DEF Passed
<1>4. CASE p = q
  <2>1. q \in Web /\ q \notin Worker
    BY <1>4, ProcType DEF Web
  <2>2. CASE pc[q] \in {"check", "recheck"} /\ Goto(q, Unlocked(q)) /\ Passed(q)
    <3>1. met'[p] = met[p] + 1
      BY <1>1, <1>4, <2>1, <2>2, PassedType
    <3>2. pc'[p] = Unlocked(p) /\ Unlocked(p) = IF pc[p] = "check" THEN "recheck" ELSE "select"
      BY <1>1, <1>4, <2>2, ProcType DEF Goto, Unlocked, Typed, TypeOK
    <3>3. QED
      BY <1>4, <2>2, <3>1, <3>2 DEF Counted
  <2>3. CASE pc[q] \in {"clean", "reclean"} /\ Goto(q, Unlocked(q)) /\ met' = met
    <3>1. pc'[p] = Unlocked(p) /\ Unlocked(p) = IF pc[p] = "clean" THEN "recheck" ELSE "select"
      BY <1>1, <1>4, <2>3, ProcType DEF Goto, Unlocked, Typed, TypeOK
    <3>2. QED
      BY <1>4, <2>3, <3>1 DEF Counted
  <2>4. CASE Goto(q, IF q \in Worker THEN "new" ELSE "done")
    <3>1. pc'[p] = "done"
      BY <1>1, <1>4, <2>1, <2>4, ProcType DEF Goto, Typed, TypeOK
    <3>2. QED
      BY <3>1 DEF Counted
  <2>5. QED
    BY <1>2, <2>2, <2>3, <2>4
<1>5. QED
  BY <1>3, <1>4

\* The other steps of a process neither pass a check nor count one.
LEMMA PlainCounted ==
  ASSUME LockInv, NEW q \in Proc, NEW to, Goto(q, to), met' = met, NEW p \in Request,
         p = q => \/ to \in {"new", "check", "clear", "release", "done"}
                  \/ pc[q] = "clean" /\ to = "recheck"
                  \/ pc[q] \in {"reclean", "select", "write", "work"}
                     /\ to \in {"select", "write", "work"}
  PROVE  Counted(p)
<1>1. Typed
  BY DEF LockInv
<1>2. CASE p = q
  <2>1. pc'[p] = to
    BY <1>1, <1>2 DEF Goto, Typed, TypeOK
  <2>2. QED
    BY <1>2, <2>1 DEF Counted
<1>3. CASE p # q
  BY <1>1, <1>3, OthersCounted
<1>4. QED
  BY <1>2, <1>3

LEMMA StepCounted ==
  ASSUME LockInv, Step, NEW p \in Request
  PROVE  Counted(p)
<1>1. p \in Proc /\ p \notin Worker /\ p # Poll
  BY ProcType
<1>2. ASSUME NEW q \in Proc, Select(q) PROVE Counted(p)
  BY <1>2, PlainCounted DEF Select
<1>3. ASSUME NEW q \in Proc, Write(q) PROVE Counted(p)
  <2>1. pc[q] = "write" /\ met' = met /\ Goto(q, IF q \in Worker THEN "new" ELSE "work")
    BY <1>3 DEF Write
  <2>2. QED
    BY <1>3, <2>1, PlainCounted
<1>4. ASSUME NEW q \in Web, Clean(q) PROVE Counted(p)
  <2>1. q \in Proc /\ pc[q] \in {"clean", "reclean"} /\ Goto(q, Unlocked(q)) /\ met' = met
    BY <1>4, ProcType DEF Clean
  <2>2. p = q => Unlocked(q) = IF pc[q] = "clean" THEN "recheck" ELSE "select"
    BY <1>1, <2>1 DEF Unlocked
  <2>3. QED
    BY <2>1, <2>2, PlainCounted
<1>5. ASSUME NEW q \in Web, Finish(q) \/ Clear(q) \/ Release(q) PROVE Counted(p)
  <2>1. q \in Proc /\ met' = met
    BY <1>5, ProcType DEF Finish, Clear, Release
  <2>2. \E to \in {"release", "done"} : Goto(q, to)
    BY <1>5 DEF Finish, Clear, Release
  <2>3. QED
    BY <2>1, <2>2, PlainCounted
<1>6. ASSUME NEW q \in Worker, Beat(q) \/ \E o \in Org : Take(q, o) PROVE Counted(p)
  <2>1. q \in Proc /\ met' = met /\ p # q
    BY <1>6, ProcType DEF Beat, Take
  <2>2. \E to \in {"new", "select", "beat"} : Goto(q, to)
    BY <1>6 DEF Beat, Take
  <2>3. QED
    BY <2>1, <2>2, PlainCounted
<1>7. ASSUME NEW q \in Request, NEW op \in Op, NEW o \in Org, Begin(q, op, o) PROVE Counted(p)
  <2>1. q \in Proc /\ met' = met /\ Goto(q, IF op = "cancel" THEN "clear" ELSE "check")
    BY <1>7, ProcType DEF Begin
  <2>2. QED
    BY <2>1, PlainCounted
<1>8. ASSUME NEW q \in Request, Enqueue(q) PROVE Counted(p)
  BY <1>8 DEF Enqueue, Counted
<1>9. CASE Ask
  <2>1. Goto(Poll, "check") /\ met' = met /\ Poll \in Proc
    BY <1>9, ProcType DEF Ask
  <2>2. QED
    BY <2>1, PlainCounted
<1>10. ASSUME NEW q \in Proc, Dies(q) PROVE Counted(p)
  <2>1. met' = met /\ Goto(q, IF q \in Request THEN "done" ELSE "new")
    BY <1>10 DEF Dies
  <2>2. QED
    BY <2>1, PlainCounted
<1>11. CASE Tick
  BY <1>11 DEF Tick, Counted
<1>12. ASSUME NEW q \in Web, WebStep(q) PROVE Counted(p)
  BY <1>2, <1>3, <1>4, <1>5, <1>12, CheckCounted, ProcType DEF WebStep
<1>13. ASSUME NEW q \in Worker, WorkerStep(q) PROVE Counted(p)
  BY <1>2, <1>3, <1>6, <1>13, ProcType DEF WorkerStep
<1>14. QED
  BY <1>7, <1>8, <1>9, <1>10, <1>11, <1>12, <1>13, QueryFailsCounted DEF Step

LEMMA InitLock == Init => LockInv
  BY InitTyped DEF Init, LockInv, KeptLive, Misled

LEMMA NextLock == LockInv /\ [Next]_vars => LockInv'
<1> SUFFICES ASSUME LockInv, [Next]_vars PROVE LockInv'
  OBVIOUS
<1>1. Typed'
  BY NextTyped DEF LockInv
<1>2. CASE Next
  <2>1. Watch /\ Step /\ Typed
    BY <1>2 DEF Next, LockInv
  <2>2. KeptLive'
    BY <2>1, KeptHolds
  <2>3. Misled'
    BY <2>1, StepCounted, CountedHolds DEF Misled
  <2>4. QED
    BY <1>1, <2>2, <2>3 DEF LockInv
<1>3. CASE UNCHANGED vars
  BY <1>1, <1>3 DEF vars, base, LockInv, KeptLive, Live, Misled
<1>4. QED
  BY <1>2, <1>3

\* Whatever requests, polls and workers overlap, and whoever is killed: a
\* request takes the lock beside a row that has held it all along only if both
\* its checks were misled, each by another row that was stale or by a failed
\* statement.  In particular, where the tenant has one row and no statement
\* fails, a lock that is kept up refuses every request.
THEOREM KeptLockRefuses == Spec => []LiveLockRefuses
<1>1. LockInv => LiveLockRefuses
  BY DEF LockInv, Misled, LiveLockRefuses
<1>2. QED
  BY <1>1, InitLock, NextLock, PTL DEF Spec
=============================================================================
