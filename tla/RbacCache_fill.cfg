SPECIFICATION SeededSpec
CONSTANTS
  Clients = {c1, c2}
  Users = {u1}
  Tenants = {t1}
  Roles = {r1}
  Features = {f}
  Acls <- SmallAcls
  Seeded <- SeededAcls
  NoTenant = NoTenant
  All = All
  NoEntry = NoEntry
  NoAcl = NoAcl
  Crashes = TRUE
  MaxWrites = 2
INVARIANTS TypeOK IndexCovers CachedIsCurrent
PROPERTY StaleEnds
CHECK_DEADLOCK FALSE
