SPECIFICATION FairSpec
CONSTANTS
  Org = {a, b}
  Row = {r1, r2}
  Request = {p1, p2}
  Worker = {w}
  Poll = poll
  Stale = 1
  Batches = 1
  MaxFaults = 2
  None = None
INVARIANTS TypeOK LiveLockRefuses
PROPERTY EveryLockEnds
