---------------------------- MODULE RbacCacheProofs ----------------------------
(***************************************************************************)
(* Cached access control lists, for any number of requests, users,         *)
(* tenants, roles and changes: every entry can be found by its tags, and   *)
(* an entry that is served is current except for the races RbacCache names.*)
(***************************************************************************)
EXTENDS RbacCache, TLAPS

---------------------------------------------------------------------------
(* The inductive invariant.                                                *)

\* A request is in setCache exactly when the cache operation is a set, of its
\* key and its answer.
Storing(c) == op[c].step \in {"setRead", "setUnlink", "setStore"}

SetsMatch ==
  \A c \in Clients:
    /\ req[c].pc = "stored" <=> Storing(c)
    /\ Storing(c) => /\ op[c].key = req[c].key
                     /\ op[c].entry.value = req[c].acl
                     /\ op[c].entry.tags = TagsOf(op[c].key)

\* Entries carry the tags of their key.
EntriesTagged ==
  \A k \in Scopes: Cache!Present(k) => store[k].tags = TagsOf(k)

\* What a request that no change has overtaken has read so far.
ReadSoFar(c) ==
  LET u == req[c].key[1]
      t == req[c].key[2]
      at(steps) == req[c].pc \in steps
  IN /\ at({"superLinks", "superRoles", "user", "userAcl", "links", "roleAcls"})
          => ~SuperByUser(u)
     /\ at({"superRoles"}) => req[c].roles = links[u]
     /\ at({"user", "userAcl", "links", "roleAcls"}) => ~SuperByRole(links[u])
     /\ at({"userAcl", "links", "roleAcls"}) => u \in users
     /\ at({"links", "roleAcls"}) => userAcl[u][t] = NoAcl
     /\ at({"roleAcls"}) => req[c].roles = RolesIn(u, t)
     /\ at({"store", "stored"}) => req[c].acl = Answer(req[c].key)

LoadsAgree == \A c \in Clients: Loading(c) /\ ~req[c].raced => ReadSoFar(c)

\* An invalidation that will still delete the entry of a key.
Deletes(c, k) ==
  /\ req[c].pc = "invalidate" /\ req[c].tag \in TagsOf(k)
  /\ \/ req[c].passes = 2
     \/ op[c].step = "collect" /\ (req[c].tag \in op[c].tags \/ k \in op[c].found)
     \/ op[c].step = "delete" /\ k \in op[c].found
     \/ op[c].step = "drop" /\ (k = op[c].key \/ k \in op[c].found)

WillDelete(c, k) ==
  \/ Deletes(c, k)
  \/ req[c].pc \in {"deleteLinks", "deleteUser"} /\ req[c].user = k[1]

Wrong(k) ==
  Cache!Live(k) /\ Cache!Indexed(k) /\ k \notin behind /\ store[k].value # Answer(k)

WrongAreDeleted == \A k \in Scopes: Wrong(k) => \E c \in Clients: WillDelete(c, k)

IInv ==
  /\ TypeOK
  /\ SetsMatch
  /\ EntriesTagged
  /\ IndexCovers
  /\ LoadsAgree
  /\ WrongAreDeleted

---------------------------------------------------------------------------
(* Types                                                                   *)

\* What a request is doing, by its step.
LEMMA RequestShape ==
  ASSUME TypeOK, NEW c \in Clients
  PROVE  /\ req[c] \in Requests
         /\ Loading(c) => req[c] \in Loads
         /\ req[c].pc \in {"deleteLinks", "deleteUser"} => req[c] \in Deletions
         /\ req[c].pc = "invalidate" => req[c] \in Invalidations
         /\ req[c].pc \in {"updateRole", "deleteAcls", "createAcls"} => req[c] \in RoleUpdates
<1>1. req[c] \in Requests
  BY DEF TypeOK
<1>2. Waiting.pc = "idle"
  BY DEF Waiting
<1>3. \A r \in Loads: r.pc \in LoadSteps
  BY DEF Loads
<1>4. \A r \in Deletions: r.pc \in {"deleteLinks", "deleteUser"}
  BY DEF Deletions
<1>5. \A r \in Invalidations: r.pc = "invalidate"
  BY DEF Invalidations
<1>6. \A r \in RoleUpdates: r.pc \in {"updateRole", "deleteAcls", "createAcls"}
  BY DEF RoleUpdates
<1>7. QED
  BY <1>1, <1>2, <1>3, <1>4, <1>5, <1>6 DEF Requests, Loading, LoadSteps

\* What a cache operation knows, by its step.
LEMMA OperationShape ==
  ASSUME TypeOK, NEW c \in Clients
  PROVE  /\ op[c] \in Cache!Operations
         /\ Storing(c) => op[c].key \in Scopes /\ op[c].entry \in Cache!Entries
         /\ op[c].step = "setUnlink" => op[c].old \in SUBSET (Users \cup Tenants \cup {All})
         /\ op[c].step = "setStore" => op[c].unlinked \in BOOLEAN
         /\ op[c].step = "collect" => /\ op[c].tags \in SUBSET (Users \cup Tenants \cup {All})
                                     /\ op[c].found \in SUBSET Scopes
         /\ op[c].step = "delete" => op[c].found \in SUBSET Scopes
         /\ op[c].step = "drop" => /\ op[c].key \in Scopes
                                  /\ op[c].tags \in SUBSET (Users \cup Tenants \cup {All})
                                  /\ op[c].found \in SUBSET Scopes
<1>1. op[c] \in Cache!Operations
  BY DEF TypeOK, Cache!CacheTypeOK
<1>2. QED
  BY <1>1 DEF Cache!Operations, Cache!Idle, Storing

LEMMA AclTypes ==
  ASSUME TypeOK
  PROVE  /\ EmptyAcl \in Acls /\ SuperAcl \in Acls
         /\ \A rs \in SUBSET Roles, t \in Tenants: Granted(rs, t) \in Acls
<1>1. Together({}) = EmptyAcl
  BY DEF Together, EmptyAcl
<1>2. Together({}) \in Acls
  BY AclsAssumption
<1>3. SuperAcl \in Acls
  BY AclsAssumption DEF SuperAcl
<1>4. ASSUME NEW rs \in SUBSET Roles, NEW t \in Tenants PROVE Granted(rs, t) \in Acls
  <2>1. UNION {roleAcl[r][t] : r \in rs} \in SUBSET Acls
    BY DEF TypeOK
  <2>2. QED
    BY <2>1, AclsAssumption DEF Granted
<1>5. QED
  BY <1>1, <1>2, <1>3, <1>4

\* What loadAcl would answer is an ACL.
LEMMA AnswerType ==
  ASSUME TypeOK, NEW k \in Scopes
  PROVE  Answer(k) \in Acls
<1>1. k[1] \in Users /\ k[2] \in Tenants
  BY DEF Scopes
<1>2. RolesIn(k[1], k[2]) \in SUBSET Roles
  BY <1>1 DEF RolesIn, TypeOK
<1>3. userAcl[k[1]][k[2]] # NoAcl => userAcl[k[1]][k[2]] \in Acls
  BY <1>1 DEF TypeOK
<1>4. QED
  BY <1>1, <1>2, <1>3, AclTypes DEF Answer

\* The steps of a cache operation keep the types of the cache.
LEMMA CacheStepType ==
  ASSUME TypeOK, NEW c \in Clients, Cache!CacheStep(c)
  PROVE  Cache!CacheTypeOK'
<1> USE DEF TypeOK, Cache!CacheTypeOK
<1>1. CASE Cache!SetRead(c)
  <2>1. Cache!Present(op[c].key) => store[op[c].key] \in Cache!Entries
    BY <1>1, OperationShape DEF Cache!Present, Cache!SetRead, Storing
  <2>2. op'[c] \in Cache!Operations
    BY <1>1, <2>1, OperationShape DEF Cache!SetRead, Storing, Cache!Operations, Cache!Entries
  <2>3. QED
    BY <1>1, <2>2 DEF Cache!SetRead
<1>2. CASE Cache!SetUnlink(c)
  <2>1. op'[c] \in Cache!Operations
    BY <1>2, OperationShape DEF Cache!SetUnlink, Storing, Cache!Operations
  <2>2. QED
    BY <1>2, <2>1 DEF Cache!SetUnlink, Cache!Unlinked
<1>3. CASE Cache!SetStore(c)
  BY <1>3, OperationShape DEF Cache!SetStore, Cache!Linked, Storing, Cache!Operations
<1>4. CASE Cache!Collect(c)
  <2>1. op'[c] \in Cache!Operations
    BY <1>4, OperationShape DEF Cache!Collect, Cache!Operations
  <2>2. QED
    BY <1>4, <2>1 DEF Cache!Collect
<1>5. CASE Cache!DeleteRead(c)
  <2>1. \A k \in Scopes: Cache!Present(k) => store[k] \in Cache!Entries
    BY DEF Cache!Present
  <2>2. op'[c] \in Cache!Operations
    BY <1>5, <2>1, OperationShape
       DEF Cache!DeleteRead, Cache!AfterKey, Cache!Operations, Cache!Entries
  <2>3. QED
    BY <1>5, <2>2 DEF Cache!DeleteRead
<1>6. CASE Cache!DeleteDrop(c)
  <2>1. op'[c] \in Cache!Operations
    BY <1>6, OperationShape DEF Cache!DeleteDrop, Cache!AfterKey, Cache!Operations
  <2>2. QED
    BY <1>6, <2>1, OperationShape DEF Cache!DeleteDrop, Cache!Unlinked
<1>7. QED
  BY <1>1, <1>2, <1>3, <1>4, <1>5, <1>6 DEF Cache!CacheStep

LEMMA UpdatedRequest ==
  ASSUME TypeOK, NEW c \in Clients, NEW r \in Requests, req' = [req EXCEPT ![c] = r]
  PROVE  req' \in [Clients -> Requests]
BY DEF TypeOK

\* A load that goes on stays a load.
LEMMA GoOnType ==
  ASSUME TypeOK, NEW c \in Clients, Loading(c),
         NEW pc \in LoadSteps, NEW rs \in SUBSET Roles, NEW acl \in Acls,
         GoOn(c, pc, rs, acl)
  PROVE  req' \in [Clients -> Requests]
<1>1. req[c] \in Loads
  BY RequestShape
<1>2. [pc |-> pc, key |-> req[c].key, roles |-> rs, raced |-> req[c].raced, acl |-> acl]
        \in Requests
  BY <1>1 DEF Loads, Requests
<1>3. QED
  BY <1>2, UpdatedRequest DEF GoOn

\* Every step of a load is a GoOn, of a load, with the pieces it has read.
LEMMA LoadStepType ==
  ASSUME TypeOK, NEW c \in Clients, ReadDatabase(c)
  PROVE  req' \in [Clients -> Requests]
<1>1. Loading(c) /\ req[c] \in Loads
  <2>1. Loading(c)
    BY DEF ReadDatabase, ReadSuperUser, ReadSuperLinks, ReadSuperRoles, ReadUser,
           ReadUserAcl, ReadLinks, ReadRoleAcls, Loading, LoadSteps
  <2>2. QED
    BY <2>1, RequestShape
<1>2. /\ req[c].key \in Scopes /\ req[c].roles \in SUBSET Roles /\ req[c].acl \in Acls
      /\ req[c].key[1] \in Users /\ req[c].key[2] \in Tenants
  BY <1>1 DEF Loads, Scopes
<1>3. ASSUME NEW pc \in LoadSteps, NEW rs \in SUBSET Roles, GoWith(c, pc, rs)
      PROVE  req' \in [Clients -> Requests]
  BY <1>1, <1>2, <1>3, GoOnType DEF GoWith
<1>4. ASSUME NEW pc \in LoadSteps, Go(c, pc) PROVE req' \in [Clients -> Requests]
  BY <1>1, <1>2, <1>4, GoOnType DEF Go
<1>5. ASSUME NEW acl \in Acls, Resolve(c, acl) PROVE req' \in [Clients -> Requests]
  BY <1>1, <1>5, GoOnType DEF Resolve, LoadSteps
<1>6. CASE ReadSuperUser(c)
  BY <1>4, <1>5, <1>6, AclTypes DEF ReadSuperUser, LoadSteps
<1>7. CASE ReadSuperLinks(c)
  <2>1. links[req[c].key[1]] \in SUBSET Roles
    BY <1>2 DEF TypeOK
  <2>2. QED
    BY <1>3, <1>7, <2>1 DEF ReadSuperLinks, LoadSteps
<1>8. CASE ReadSuperRoles(c)
  BY <1>3, <1>5, <1>8, AclTypes DEF ReadSuperRoles, LoadSteps
<1>9. CASE ReadUser(c)
  BY <1>4, <1>5, <1>9, AclTypes DEF ReadUser, LoadSteps
<1>10. CASE ReadUserAcl(c)
  <2>1. userAcl[req[c].key[1]][req[c].key[2]] \in Acls \cup {NoAcl}
    BY <1>2 DEF TypeOK
  <2>2. QED
    BY <1>4, <1>5, <1>10, <2>1 DEF ReadUserAcl, LoadSteps
<1>11. CASE ReadLinks(c)
  <2>1. RolesIn(req[c].key[1], req[c].key[2]) \in SUBSET Roles
    BY <1>2 DEF RolesIn, TypeOK
  <2>2. QED
    BY <1>3, <1>5, <1>11, <2>1, AclTypes DEF ReadLinks, LoadSteps
<1>12. CASE ReadRoleAcls(c)
  BY <1>2, <1>5, <1>12, AclTypes DEF ReadRoleAcls
<1>13. QED
  BY <1>6, <1>7, <1>8, <1>9, <1>10, <1>11, <1>12 DEF ReadDatabase

\* A change of permissions leaves every other request what it is.
LEMMA RaceFillsType ==
  ASSUME TypeOK, NEW c \in Clients, NEW next \in Requests, RaceFills(c, next)
  PROVE  req' \in [Clients -> Requests]
<1>1. ASSUME NEW b \in Clients, Racing(b) PROVE Overtaken(req[b]) \in Requests
  <2>1. req[b] \in Loads
    BY <1>1, RequestShape DEF Racing
  <2>2. QED
    BY <2>1 DEF Overtaken, Loads, Requests
<1>2. \A b \in Clients: req[b] \in Requests
  BY DEF TypeOK
<1>3. QED
  BY <1>1, <1>2 DEF RaceFills

\* The steps of requests that load keep the types.
LEMMA LoadType ==
  ASSUME TypeOK, NEW c \in Clients,
         StartLoad(c) \/ Lookup(c) \/ ReadDatabase(c) \/ SetCache(c)
  PROVE  TypeOK'
<1> SUFFICES Cache!CacheTypeOK' /\ req' \in [Clients -> Requests]
             /\ UNCHANGED <<dbVars, writes, behind>>
  BY DEF TypeOK, dbVars, tables
<1>1. CASE StartLoad(c)
  <2>1. PICK k \in Scopes:
          req' = [req EXCEPT ![c] = [pc |-> "lookup", key |-> k, roles |-> {},
                                     raced |-> FALSE, acl |-> EmptyAcl]]
    BY <1>1 DEF StartLoad
  <2>2. [pc |-> "lookup", key |-> k, roles |-> {}, raced |-> FALSE, acl |-> EmptyAcl]
          \in Requests
    BY AclTypes DEF Loads, LoadSteps, Requests
  <2>3. QED
    BY <1>1, <2>1, <2>2, UpdatedRequest DEF StartLoad, TypeOK, cacheVars, Cache!CacheTypeOK
<1>2. CASE Lookup(c)
  <2>1. Loading(c) /\ req[c] \in Loads
    BY <1>2, RequestShape DEF Lookup, Loading, LoadSteps
  <2>2. req[c].key \in Scopes /\ req[c].roles \in SUBSET Roles /\ req[c].acl \in Acls
    BY <2>1 DEF Loads
  <2>3. req' \in [Clients -> Requests]
    BY <1>2, <2>1, <2>2, GoOnType, UpdatedRequest DEF Lookup, Go, LoadSteps, Requests
  <2>4. Cache!CacheTypeOK'
    <3>1. [step |-> "delete", found |-> {req[c].key}] \in Cache!Operations
      BY <2>2 DEF Cache!Operations
    <3>2. QED
      BY <1>2, <3>1 DEF Lookup, Cache!Get, TypeOK, Cache!CacheTypeOK
  <2>5. QED
    BY <1>2, <2>3, <2>4 DEF Lookup
<1>3. CASE ReadDatabase(c)
  BY <1>3, LoadStepType DEF ReadDatabase, TypeOK, cacheVars, Cache!CacheTypeOK
<1>4. CASE SetCache(c)
  <2>1. Loading(c) /\ req[c] \in Loads
    BY <1>4, RequestShape DEF SetCache, Loading, LoadSteps
  <2>2. req[c].key \in Scopes /\ req[c].roles \in SUBSET Roles /\ req[c].acl \in Acls
    BY <2>1 DEF Loads
  <2>3. req' \in [Clients -> Requests]
    BY <1>4, <2>1, <2>2, GoOnType DEF SetCache, Go, LoadSteps
  <2>4. TagsOf(req[c].key) \in SUBSET (Users \cup Tenants \cup {All})
    BY <2>2 DEF TagsOf, Scopes
  <2>5. [value |-> req[c].acl, tags |-> TagsOf(req[c].key),
         age |-> IF AclTtl THEN "live" ELSE "lasting"] \in Cache!Entries
    BY <2>2, <2>4 DEF Cache!Entries
  <2>6. Cache!CacheTypeOK'
    <3>1. [step |-> "setRead", key |-> req[c].key,
           entry |-> [value |-> req[c].acl, tags |-> TagsOf(req[c].key),
                      age |-> IF AclTtl THEN "live" ELSE "lasting"]] \in Cache!Operations
      BY <2>2, <2>5 DEF Cache!Operations
    <3>2. QED
      BY <1>4, <3>1 DEF SetCache, Cache!StartSet, TypeOK, Cache!CacheTypeOK
  <2>7. QED
    BY <1>4, <2>3, <2>6 DEF SetCache
<1>5. QED
  BY <1>1, <1>2, <1>3, <1>4

\* So do those of the cache operations, of kills and of time.
LEMMA ProgressType ==
  ASSUME TypeOK
  PROVE  /\ \A c \in Clients: CacheProgress(c) \/ Invalidate(c) \/ Kill(c) => TypeOK'
         /\ \A k \in Scopes: Passing(k) => TypeOK'
<1>1. ASSUME NEW c \in Clients, CacheProgress(c) PROVE TypeOK'
  <2>1. Cache!CacheTypeOK'
    BY <1>1, CacheStepType DEF CacheProgress
  <2>2. op[c].step = "setStore" => op[c].key \in Scopes
    BY OperationShape DEF Storing
  <2>3. op[c].step = "drop" => op[c].key \in Scopes
    BY OperationShape
  <2>4. behind' \in SUBSET Scopes
    BY <1>1, <2>2, <2>3 DEF CacheProgress, TypeOK
  <2>5. req' \in [Clients -> Requests]
    BY <1>1, UpdatedRequest DEF CacheProgress, Requests, TypeOK
  <2>6. QED
    BY <1>1, <2>1, <2>4, <2>5 DEF CacheProgress, TypeOK, dbVars, tables
<1>2. ASSUME NEW c \in Clients, Invalidate(c) PROVE TypeOK'
  <2>1. req[c] \in Invalidations
    BY <1>2, RequestShape DEF Invalidate
  <2>2. req[c].tag \in Users \cup Tenants /\ req[c].passes \in 0..2
    BY <2>1 DEF Invalidations
  <2>3. req[c].passes > 0 => Invalidation(req[c].tag, req[c].passes - 1) \in Requests
    BY <2>2 DEF Invalidation, Invalidations, Requests
  <2>4. req' \in [Clients -> Requests]
    BY <1>2, <2>3, UpdatedRequest DEF Invalidate, Requests
  <2>5. Cache!CacheTypeOK'
    <3>1. [step |-> "collect", tags |-> {req[c].tag}, found |-> {}] \in Cache!Operations
      BY <2>2 DEF Cache!Operations
    <3>2. QED
      BY <1>2, <3>1 DEF Invalidate, Cache!DeleteByTags, TypeOK, cacheVars, Cache!CacheTypeOK
  <2>6. QED
    BY <1>2, <2>4, <2>5 DEF Invalidate, TypeOK, dbVars, tables
<1>3. ASSUME NEW c \in Clients, Kill(c) PROVE TypeOK'
  <2>1. op[c].step = "setStore" => op[c].key \in Scopes
    BY OperationShape DEF Storing
  <2>2. Cache!CacheTypeOK'
    BY <1>3, <2>1 DEF Kill, Cache!CacheKill, TypeOK, Cache!CacheTypeOK, Cache!Operations
  <2>3. req' \in [Clients -> Requests]
    BY <1>3, UpdatedRequest DEF Kill, Requests
  <2>4. QED
    BY <1>3, <2>2, <2>3 DEF Kill, TypeOK, dbVars, tables
<1>4. ASSUME NEW k \in Scopes, Passing(k) PROVE TypeOK'
  <2>1. Cache!Present(k) => store[k] \in Cache!Entries
    BY DEF Cache!Present, TypeOK, Cache!CacheTypeOK
  <2>2. Cache!CacheTypeOK'
    <3>1. CASE Cache!Expire(k)
      <4>1. store[k] \in [value: Acls, tags: SUBSET (Users \cup Tenants \cup {All}),
                          age: {"live", "expired", "lasting"}]
        BY <2>1, <3>1 DEF Cache!Expire, Cache!Entries
      <4>2. PICK e \in Cache!Entries: store' = [store EXCEPT ![k] = e]
        BY <4>1, <3>1 DEF Cache!Expire, Cache!Entries
      <4>3. QED
        BY <3>1, <4>2 DEF Cache!Expire, TypeOK, Cache!CacheTypeOK
    <3>2. CASE Cache!Evict(k)
      BY <3>2 DEF Cache!Evict, TypeOK, Cache!CacheTypeOK
    <3>3. QED
      BY <1>4, <3>1, <3>2 DEF Passing
  <2>3. QED
    BY <1>4, <2>2 DEF Passing, TypeOK, dbVars, tables
<1>5. QED
  BY <1>1, <1>2, <1>3, <1>4

\* And so do the changes of permissions.
LEMMA ChangeType ==
  ASSUME TypeOK, NEW c \in Clients
  PROVE  /\ DeleteUserLinks(c) \/ DeleteUserRow(c) => TypeOK'
         /\ DeleteRoleAcls(c) \/ CreateRoleAcls(c) => TypeOK'
         /\ \A t \in Tenants \cup {NoTenant}: UpdateRole(c, t) => TypeOK'
         /\ \A u \in Users:
              /\ DeleteUser(c, u) => TypeOK'
              /\ \A rs \in SUBSET Roles: UpdateUser(c, u, rs) => TypeOK'
              /\ \A t \in Tenants, acl \in Acls: PutUserAcl(c, u, t, acl) => TypeOK'
         /\ \A r \in Roles:
              /\ PrepareRole(c, r) \/ UndoUpdateRole(c, r) => TypeOK'
              /\ \A t \in Tenants, acl \in Acls: PutRoleAcl(c, r, t, acl) => TypeOK'
<1>1. \A tag \in Users \cup Tenants: Invalidating(tag) \in Requests
  BY DEF Invalidating, Invalidation, Invalidations, Requests
<1>2. Waiting \in Requests
  BY DEF Requests
<1>3. \A pc \in {"deleteLinks", "deleteUser"}, u \in Users: [pc |-> pc, user |-> u] \in Requests
  BY DEF Deletions, Requests
<1>4. UNCHANGED cacheVars => Cache!CacheTypeOK'
  BY DEF TypeOK, cacheVars, Cache!CacheTypeOK
<1>5. writes < MaxWrites /\ writes' = writes + 1 => writes' \in 0..MaxWrites
  BY WritesAssumption DEF TypeOK
<1>6. ASSUME DeleteUserLinks(c) PROVE TypeOK'
  <2>1. req[c].user \in Users
    BY <1>6, RequestShape DEF DeleteUserLinks, Deletions
  <2>2. req' \in [Clients -> Requests]
    BY <1>3, <1>6, <2>1, RaceFillsType DEF DeleteUserLinks
  <2>3. QED
    BY <1>4, <1>6, <2>2 DEF DeleteUserLinks, TypeOK
<1>7. ASSUME DeleteUserRow(c) PROVE TypeOK'
  <2>1. req[c].user \in Users
    BY <1>7, RequestShape DEF DeleteUserRow, Deletions
  <2>2. req' \in [Clients -> Requests]
    BY <1>1, <1>2, <1>7, <2>1, RaceFillsType DEF DeleteUserRow
  <2>3. QED
    BY <1>4, <1>7, <2>2 DEF DeleteUserRow, TypeOK
<1>8. ASSUME NEW u \in Users, DeleteUser(c, u) PROVE TypeOK'
  <2>1. req' \in [Clients -> Requests]
    BY <1>3, <1>8, RaceFillsType DEF DeleteUser
  <2>2. QED
    BY <1>4, <1>5, <1>8, <2>1 DEF DeleteUser, Writing, TypeOK
<1>9. ASSUME NEW u \in Users, NEW rs \in SUBSET Roles, UpdateUser(c, u, rs) PROVE TypeOK'
  <2>1. req' \in [Clients -> Requests]
    BY <1>1, <1>9, RaceFillsType DEF UpdateUser
  <2>2. QED
    BY <1>4, <1>5, <1>9, <2>1 DEF UpdateUser, SyncUserRoles, Writing, TypeOK
<1>10. ASSUME NEW u \in Users, NEW t \in Tenants, NEW acl \in Acls, PutUserAcl(c, u, t, acl)
       PROVE  TypeOK'
  <2>1. req' \in [Clients -> Requests]
    BY <1>1, <1>10, RaceFillsType DEF PutUserAcl
  <2>2. userAcl' \in [Users -> [Tenants -> Acls \cup {NoAcl}]]
    BY <1>10 DEF PutUserAcl, TypeOK
  <2>3. QED
    BY <1>4, <1>5, <1>10, <2>1, <2>2 DEF PutUserAcl, Writing, TypeOK
<1>11. ASSUME NEW r \in Roles, NEW t \in Tenants, NEW acl \in Acls, PutRoleAcl(c, r, t, acl)
       PROVE  TypeOK'
  <2>1. req' \in [Clients -> Requests]
    BY <1>1, <1>11, RaceFillsType DEF PutRoleAcl
  <2>2. behind' \in SUBSET Scopes
    BY <1>11 DEF PutRoleAcl, Altered, TypeOK
  <2>3. PICK found \in SUBSET roleAcl[r][t]:
          roleAcl' = [roleAcl EXCEPT ![r][t] = (@ \ found) \cup {acl}]
    BY <1>11 DEF PutRoleAcl
  <2>4. roleAcl' \in [Roles -> [Tenants -> SUBSET Acls]]
    BY <2>3 DEF TypeOK
  <2>5. QED
    BY <1>4, <1>5, <1>11, <2>1, <2>2, <2>4 DEF PutRoleAcl, Writing, TypeOK
<1>12. \A pc \in {"updateRole", "deleteAcls", "createAcls"}, r \in Roles, before \in Snapshots:
         RoleUpdate(pc, r, before) \in Requests
  BY DEF RoleUpdate, RoleUpdates, Requests
<1>13. ASSUME NEW r \in Roles, PrepareRole(c, r) PROVE TypeOK'
  <2>1. [tenant |-> roleTenant[r], rows |-> roleAcl[r]] \in Snapshots
    BY DEF TypeOK, Snapshots
  <2>2. req' \in [Clients -> Requests]
    BY <1>12, <1>13, <2>1, UpdatedRequest DEF PrepareRole
  <2>3. QED
    BY <1>4, <1>5, <1>13, <2>2 DEF PrepareRole, Writing, dbVars, tables, TypeOK
<1>14. ASSUME NEW r \in Roles, UndoUpdateRole(c, r) PROVE TypeOK'
  <2>1. PICK before \in logged[r]:
          /\ roleTenant' = [roleTenant EXCEPT ![r] = before.tenant]
          /\ UNCHANGED <<users, userAcl, roleAcl, links>>
          /\ RaceFills(c, RoleUpdate("deleteAcls", r, before))
    BY <1>14 DEF UndoUpdateRole
  <2>2. before \in Snapshots /\ before.tenant \in Tenants \cup {NoTenant}
    BY DEF TypeOK, Snapshots
  <2>3. req' \in [Clients -> Requests]
    BY <1>12, <2>1, <2>2, RaceFillsType
  <2>4. behind' \in SUBSET Scopes
    BY <1>14 DEF UndoUpdateRole, Altered, TypeOK
  <2>5. QED
    BY <1>4, <1>5, <1>14, <2>1, <2>2, <2>3, <2>4 DEF UndoUpdateRole, Writing, TypeOK
<1>15. ASSUME NEW t \in Tenants \cup {NoTenant}, UpdateRole(c, t) PROVE TypeOK'
  <2>1. req[c].role \in Roles /\ req[c].before \in Snapshots
    BY <1>15, RequestShape DEF UpdateRole, RoleUpdates
  <2>2. req' \in [Clients -> Requests] /\ behind' \in SUBSET Scopes
    BY <1>2, <1>15, RaceFillsType DEF UpdateRole, Altered, TypeOK
  <2>3. QED
    BY <1>4, <1>15, <2>1, <2>2 DEF UpdateRole, TypeOK
<1>16. ASSUME DeleteRoleAcls(c) PROVE TypeOK'
  <2>1. req[c].role \in Roles /\ req[c].before \in Snapshots
    BY <1>16, RequestShape DEF DeleteRoleAcls, RoleUpdates
  <2>2. req' \in [Clients -> Requests] /\ behind' \in SUBSET Scopes
    BY <1>12, <1>16, <2>1, RaceFillsType DEF DeleteRoleAcls, Altered, TypeOK
  <2>3. QED
    BY <1>4, <1>16, <2>1, <2>2 DEF DeleteRoleAcls, TypeOK
<1>17. ASSUME CreateRoleAcls(c) PROVE TypeOK'
  <2>1. req[c].role \in Roles /\ req[c].before.rows \in [Tenants -> SUBSET Acls]
    BY <1>17, RequestShape DEF CreateRoleAcls, RoleUpdates, Snapshots
  <2>2. req' \in [Clients -> Requests] /\ behind' \in SUBSET Scopes
    BY <1>2, <1>17, RaceFillsType DEF CreateRoleAcls, Altered, TypeOK
  <2>3. roleAcl' \in [Roles -> [Tenants -> SUBSET Acls]]
    BY <1>17, <2>1 DEF CreateRoleAcls, TypeOK
  <2>4. QED
    BY <1>4, <1>17, <2>2, <2>3 DEF CreateRoleAcls, TypeOK
<1>18. QED
  BY <1>6, <1>7, <1>8, <1>9, <1>10, <1>11, <1>13, <1>14, <1>15, <1>16, <1>17

LEMMA NextType == TypeOK /\ [Next]_vars => TypeOK'
<1>1. ASSUME TypeOK, Next PROVE TypeOK'
  BY <1>1, LoadType, ProgressType, ChangeType DEF Next
<1>2. TypeOK /\ UNCHANGED vars => TypeOK'
  BY DEF TypeOK, vars, dbVars, tables, cacheVars, Cache!CacheTypeOK
<1>3. QED
  BY <1>1, <1>2

LEMMA InitType == Init => TypeOK
<1>1. Together({}) = EmptyAcl
  BY DEF Together, EmptyAcl
<1>2. EmptyAcl \in Acls
  BY <1>1, AclsAssumption
<1>3. Seeded \subseteq Acls
  BY AclsAssumption
<1>4. QED
  BY <1>2, <1>3, WritesAssumption
     DEF Init, TypeOK, Cache!CacheInit, Cache!CacheTypeOK, Cache!Operations, Requests

\* Every variable keeps its type.
THEOREM TypeCorrect == Spec => []TypeOK
BY InitType, NextType, PTL DEF Spec

---------------------------------------------------------------------------
(* The cache.  A step of one request, and what the others see of it.       *)

\* Only the request that acts changes, in the steps that change no permissions.
LEMMA OthersKept ==
  ASSUME TypeOK, NEW c \in Clients, NEW b \in Clients, b # c,
         \/ StartLoad(c) \/ Lookup(c) \/ ReadDatabase(c) \/ SetCache(c)
         \/ CacheProgress(c) \/ Invalidate(c) \/ Kill(c)
  PROVE  req'[b] = req[b] /\ op'[b] = op[b]
<1> USE DEF TypeOK, Cache!CacheTypeOK, cacheVars
<1>1. CASE StartLoad(c)
  BY <1>1 DEF StartLoad
<1>2. CASE Lookup(c)
  BY <1>2 DEF Lookup, Cache!Get, Go, GoOn
<1>3. CASE ReadDatabase(c)
  BY <1>3 DEF ReadDatabase, ReadSuperUser, ReadSuperLinks, ReadSuperRoles, ReadUser,
              ReadUserAcl, ReadLinks, ReadRoleAcls, Resolve, Go, GoWith, GoOn
<1>4. CASE SetCache(c)
  BY <1>4 DEF SetCache, Cache!StartSet, Go, GoOn
<1>5. CASE CacheProgress(c)
  <2>1. req'[b] = req[b]
    BY <1>5 DEF CacheProgress
  <2>2. op'[b] = op[b]
    BY <1>5 DEF CacheProgress, Cache!CacheStep, Cache!SetRead, Cache!SetUnlink, Cache!SetStore,
                Cache!Collect, Cache!DeleteRead, Cache!DeleteDrop
  <2>3. QED
    BY <2>1, <2>2
<1>6. CASE Invalidate(c)
  BY <1>6 DEF Invalidate, Cache!DeleteByTags
<1>7. CASE Kill(c)
  BY <1>7 DEF Kill, Cache!CacheKill
<1>8. QED
  BY <1>1, <1>2, <1>3, <1>4, <1>5, <1>6, <1>7

\* A change of permissions touches neither the cache nor the steps of others.
Changing(c) ==
  \/ DeleteUserLinks(c) \/ DeleteUserRow(c) \/ DeleteRoleAcls(c) \/ CreateRoleAcls(c)
  \/ \E t \in Tenants \cup {NoTenant}: UpdateRole(c, t)
  \/ \E u \in Users:
       \/ DeleteUser(c, u)
       \/ \E rs \in SUBSET Roles: UpdateUser(c, u, rs)
       \/ \E t \in Tenants, acl \in Acls: PutUserAcl(c, u, t, acl)
  \/ \E r \in Roles:
       \/ UndoUpdateRole(c, r)
       \/ \E t \in Tenants, acl \in Acls: PutRoleAcl(c, r, t, acl)

\* What the request of a change is at, before and after it.
ChangeSteps == {"idle", "deleteLinks", "deleteUser", "invalidate", "updateRole", "deleteAcls",
                "createAcls"}

LEMMA ChangeShape ==
  ASSUME TypeOK, NEW c \in Clients, Changing(c)
  PROVE  /\ UNCHANGED cacheVars
         /\ req[c].pc \in ChangeSteps
         /\ \E next: next.pc \in ChangeSteps /\ RaceFills(c, next)
<1> USE DEF ChangeSteps
<1>1. Waiting.pc = "idle" /\ \A tag: Invalidating(tag).pc = "invalidate"
  BY DEF Waiting, Invalidating, Invalidation
<1>2. /\ \A pc, u: [pc |-> pc, user |-> u].pc = pc
      /\ \A pc, r, before: RoleUpdate(pc, r, before).pc = pc
  BY DEF RoleUpdate
<1>3. CASE DeleteUserLinks(c)
  BY <1>2, <1>3 DEF DeleteUserLinks
<1>4. CASE DeleteUserRow(c)
  BY <1>1, <1>4 DEF DeleteUserRow
<1>5. ASSUME NEW u \in Users, DeleteUser(c, u)
      PROVE  /\ UNCHANGED cacheVars
             /\ req[c].pc \in ChangeSteps
             /\ \E next: next.pc \in ChangeSteps /\ RaceFills(c, next)
  BY <1>1, <1>2, <1>5 DEF DeleteUser, Writing
<1>6. ASSUME NEW u \in Users, NEW rs \in SUBSET Roles, UpdateUser(c, u, rs)
      PROVE  /\ UNCHANGED cacheVars
             /\ req[c].pc \in ChangeSteps
             /\ \E next: next.pc \in ChangeSteps /\ RaceFills(c, next)
  BY <1>1, <1>2, <1>6 DEF UpdateUser, SyncUserRoles, Writing
<1>7. ASSUME NEW u \in Users, NEW t \in Tenants, NEW acl \in Acls, PutUserAcl(c, u, t, acl)
      PROVE  /\ UNCHANGED cacheVars
             /\ req[c].pc \in ChangeSteps
             /\ \E next: next.pc \in ChangeSteps /\ RaceFills(c, next)
  BY <1>1, <1>2, <1>7 DEF PutUserAcl, Writing
<1>8. ASSUME NEW r \in Roles, UndoUpdateRole(c, r)
      PROVE  /\ UNCHANGED cacheVars
             /\ req[c].pc \in ChangeSteps
             /\ \E next: next.pc \in ChangeSteps /\ RaceFills(c, next)
  BY <1>1, <1>2, <1>8 DEF UndoUpdateRole, Writing
<1>9. ASSUME NEW r \in Roles, NEW t \in Tenants, NEW acl \in Acls,
             PutRoleAcl(c, r, t, acl)
      PROVE  /\ UNCHANGED cacheVars
             /\ req[c].pc \in ChangeSteps
             /\ \E next: next.pc \in ChangeSteps /\ RaceFills(c, next)
  BY <1>1, <1>2, <1>9 DEF PutRoleAcl, Writing
<1>10. ASSUME NEW t \in Tenants \cup {NoTenant}, UpdateRole(c, t)
      PROVE  /\ UNCHANGED cacheVars
             /\ req[c].pc \in ChangeSteps
             /\ \E next: next.pc \in ChangeSteps /\ RaceFills(c, next)
  BY <1>1, <1>2, <1>10 DEF UpdateRole
<1>11. CASE DeleteRoleAcls(c)
  BY <1>2, <1>11 DEF DeleteRoleAcls
<1>12. CASE CreateRoleAcls(c)
  BY <1>1, <1>12 DEF CreateRoleAcls
<1>13. QED
  BY <1>3, <1>4, <1>5, <1>6, <1>7, <1>8, <1>9, <1>10, <1>11, <1>12 DEF Changing

LEMMA NextCases ==
  ASSUME Next
  PROVE  \/ \E c \in Clients:
              \/ StartLoad(c) \/ Lookup(c) \/ ReadDatabase(c) \/ SetCache(c)
              \/ CacheProgress(c) \/ Invalidate(c) \/ Kill(c) \/ Changing(c)
              \/ \E r \in Roles: PrepareRole(c, r)
         \/ \E k \in Scopes: Passing(k)
BY DEF Next, Changing

\* What the other requests are after a change: overtaken, or what they were.
LEMMA RacedShape ==
  ASSUME TypeOK, NEW c \in Clients, NEW next, RaceFills(c, next)
  PROVE  /\ req'[c] = next
         /\ \A b \in Clients \ {c}:
              /\ req'[b].pc = req[b].pc
              /\ Loading(b) => /\ req'[b].key = req[b].key /\ req'[b].acl = req[b].acl
                               /\ \/ req'[b].raced \/ req[b].pc \in {"lookup", "superUser"}
                                  \/ UNCHANGED tables /\ req'[b] = req[b]
              /\ ~Loading(b) => req'[b] = req[b]
<1>1. ASSUME NEW b \in Clients \ {c}
      PROVE  req'[b] = IF Racing(b) /\ tables' # tables THEN Overtaken(req[b]) ELSE req[b]
  BY DEF RaceFills
<1>2. \A r: /\ Overtaken(r).pc = r.pc /\ Overtaken(r).key = r.key
            /\ Overtaken(r).acl = r.acl /\ Overtaken(r).raced
  BY DEF Overtaken
<1>3. QED
  BY <1>1, <1>2 DEF RaceFills, Racing, Loading

---------------------------------------------------------------------------
(* SetsMatch and EntriesTagged.                                            *)

LEMMA SetsMatchKept ==
  ASSUME TypeOK, SetsMatch, [Next]_vars
  PROVE  SetsMatch'
<1> DEFINE M(b) == /\ req[b].pc = "stored" <=> Storing(b)
                   /\ Storing(b) => /\ op[b].key = req[b].key
                                    /\ op[b].entry.value = req[b].acl
                                    /\ op[b].entry.tags = TagsOf(op[b].key)
<1>1. \A b \in Clients: M(b)
  BY DEF SetsMatch
<1>2. \A b \in Clients: req'[b] = req[b] /\ op'[b] = op[b] => M(b)'
  BY <1>1 DEF Storing, TagsOf
<1>3. \A c \in Clients: req'[c].pc # "stored" /\ ~Storing(c)' => M(c)'
  OBVIOUS
<1>4. ASSUME NEW c \in Clients,
             \/ StartLoad(c) \/ Lookup(c) \/ ReadDatabase(c) \/ SetCache(c)
             \/ CacheProgress(c) \/ Invalidate(c) \/ Kill(c)
      PROVE  M(c)'
  <2> USE DEF TypeOK, Cache!CacheTypeOK, cacheVars
  <2>0. Waiting.pc = "idle" /\ Cache!Idle.step = "idle"
    BY DEF Waiting, Cache!Idle
  <2>1. CASE StartLoad(c)
    BY <1>1, <1>3, <2>0, <2>1 DEF StartLoad, Storing
  <2>2. CASE Lookup(c)
    BY <1>3, <2>0, <2>2 DEF Lookup, Cache!Get, Go, GoOn, Storing
  <2>3. CASE ReadDatabase(c)
    <3>1. req[c].pc # "stored" /\ req'[c].pc # "stored"
      BY <2>3 DEF ReadDatabase, ReadSuperUser, ReadSuperLinks, ReadSuperRoles, ReadUser,
                  ReadUserAcl, ReadLinks, ReadRoleAcls, Resolve, Go, GoWith, GoOn
    <3>2. QED
      BY <1>1, <1>3, <2>3, <3>1 DEF ReadDatabase, Storing
  <2>4. CASE SetCache(c)
    BY <2>4 DEF SetCache, Cache!StartSet, Go, GoOn, Storing, TagsOf
  <2>5. CASE CacheProgress(c)
    <3>1. CASE Cache!SetRead(c)
      <4>1. /\ Storing(c) /\ Storing(c)' /\ req'[c] = req[c]
            /\ op'[c].key = op[c].key /\ op'[c].entry = op[c].entry
        BY <2>5, <3>1 DEF CacheProgress, Cache!SetRead, Storing
      <4>2. QED
        BY <1>1, <4>1 DEF TagsOf
    <3>2. CASE Cache!SetUnlink(c)
      <4>1. /\ Storing(c) /\ Storing(c)' /\ req'[c] = req[c]
            /\ op'[c].key = op[c].key /\ op'[c].entry = op[c].entry
        BY <2>5, <3>2 DEF CacheProgress, Cache!SetUnlink, Storing
      <4>2. QED
        BY <1>1, <4>1 DEF TagsOf
    <3>3. CASE Cache!SetStore(c)
      BY <1>3, <2>0, <2>5, <3>3 DEF CacheProgress, Cache!SetStore, Storing
    <3>4. CASE Cache!Collect(c) \/ Cache!DeleteRead(c) \/ Cache!DeleteDrop(c)
      <4>1. ~Storing(c) /\ ~Storing(c)'
        BY <2>0, <3>4 DEF Cache!Collect, Cache!DeleteRead, Cache!DeleteDrop, Cache!AfterKey, Storing
      <4>2. req' = req
        BY <2>5, <3>4 DEF CacheProgress, Cache!Collect, Cache!DeleteRead, Cache!DeleteDrop
      <4>3. QED
        BY <1>1, <1>3, <4>1, <4>2
    <3>5. QED
      BY <2>5, <3>1, <3>2, <3>3, <3>4 DEF CacheProgress, Cache!CacheStep
  <2>6. CASE Invalidate(c)
    BY <1>3, <2>0, <2>6 DEF Invalidate, Invalidation, Cache!DeleteByTags, Storing
  <2>7. CASE Kill(c)
    BY <1>3, <2>0, <2>7 DEF Kill, Cache!CacheKill, Storing
  <2>8. QED
    BY <1>4, <2>1, <2>2, <2>3, <2>4, <2>5, <2>6, <2>7
<1>5. ASSUME NEW c \in Clients, Changing(c), NEW b \in Clients PROVE M(b)'
  <2>1. PICK next: next.pc \in ChangeSteps /\ RaceFills(c, next)
    BY <1>5, ChangeShape
  <2>2. op' = op /\ req[c].pc \in ChangeSteps
    BY <1>5, ChangeShape DEF cacheVars
  <2>3. ~Storing(c)
    BY <1>1, <2>2 DEF ChangeSteps
  <2>4. CASE b = c
    BY <1>3, <2>1, <2>2, <2>3, <2>4, RacedShape DEF ChangeSteps, Storing
  <2>5. CASE b # c
    <3>1. /\ req'[b].pc = req[b].pc
          /\ Loading(b) => req'[b].key = req[b].key /\ req'[b].acl = req[b].acl
      BY <2>1, <2>5, RacedShape
    <3>2. Storing(b) => Loading(b)
      BY <1>1 DEF Loading, LoadSteps
    <3>3. QED
      BY <1>1, <2>2, <3>1, <3>2 DEF Storing, TagsOf
  <2>6. QED
    BY <2>4, <2>5
<1>6. CASE UNCHANGED vars
  BY <1>2, <1>6 DEF vars, cacheVars, SetsMatch
<1>7. ASSUME NEW c \in Clients, NEW r \in Roles, PrepareRole(c, r) PROVE SetsMatch'
  <2>1. op' = op /\ \A b \in Clients \ {c}: req'[b] = req[b]
    BY <1>7 DEF PrepareRole, Writing, cacheVars, TypeOK
  <2>2. req[c].pc # "stored" /\ req'[c].pc # "stored"
    BY <1>7 DEF PrepareRole, Writing, Waiting, RoleUpdate, TypeOK
  <2>3. M(c)'
    BY <1>1, <1>3, <2>1, <2>2 DEF Storing
  <2>4. QED
    BY <1>2, <2>1, <2>3 DEF SetsMatch
<1>8. ASSUME NEW k \in Scopes, Passing(k) PROVE SetsMatch'
  BY <1>2, <1>8 DEF Passing, Cache!Expire, Cache!Evict, SetsMatch
<1>9. ASSUME NEW c \in Clients,
             \/ StartLoad(c) \/ Lookup(c) \/ ReadDatabase(c) \/ SetCache(c)
             \/ CacheProgress(c) \/ Invalidate(c) \/ Kill(c)
      PROVE  SetsMatch'
  BY <1>2, <1>4, <1>9, OthersKept DEF SetsMatch
<1>10. ASSUME NEW c \in Clients, Changing(c) PROVE SetsMatch'
  BY <1>5, <1>10 DEF SetsMatch
<1>11. QED
  BY <1>6, <1>7, <1>8, <1>9, <1>10, NextCases

\* The steps that are neither progress of a cache operation nor a kill nor time
\* leave the entries and the index as they are.
LEMMA QuietSteps ==
  ASSUME Next
  PROVE  \/ UNCHANGED <<store, index, orphans>>
         \/ \E c \in Clients: CacheProgress(c) \/ Kill(c)
         \/ \E k \in Scopes: Passing(k)
<1>1. ASSUME NEW c \in Clients, StartLoad(c) \/ Lookup(c) \/ ReadDatabase(c) \/ SetCache(c)
      PROVE  UNCHANGED <<store, index, orphans>>
  BY <1>1 DEF StartLoad, Lookup, Cache!Get, ReadDatabase, SetCache, Cache!StartSet, cacheVars
<1>2. ASSUME NEW c \in Clients, Invalidate(c) PROVE UNCHANGED <<store, index, orphans>>
  BY <1>2 DEF Invalidate, Cache!DeleteByTags, cacheVars
<1>3. ASSUME NEW c \in Clients,
             \/ DeleteUserLinks(c) \/ DeleteUserRow(c) \/ DeleteRoleAcls(c) \/ CreateRoleAcls(c)
             \/ \E t \in Tenants \cup {NoTenant}: UpdateRole(c, t)
      PROVE  UNCHANGED <<store, index, orphans>>
  BY <1>3 DEF DeleteUserLinks, DeleteUserRow, DeleteRoleAcls, CreateRoleAcls, UpdateRole, cacheVars
<1>4. ASSUME NEW c \in Clients, NEW u \in Users,
             \/ DeleteUser(c, u)
             \/ \E rs \in SUBSET Roles: UpdateUser(c, u, rs)
             \/ \E t \in Tenants, acl \in Acls: PutUserAcl(c, u, t, acl)
      PROVE  UNCHANGED <<store, index, orphans>>
  BY <1>4 DEF DeleteUser, UpdateUser, SyncUserRoles, PutUserAcl, Writing, cacheVars
<1>5. ASSUME NEW c \in Clients, NEW r \in Roles,
             \/ PrepareRole(c, r) \/ UndoUpdateRole(c, r)
             \/ \E t \in Tenants, acl \in Acls: PutRoleAcl(c, r, t, acl)
      PROVE  UNCHANGED <<store, index, orphans>>
  BY <1>5 DEF PrepareRole, UndoUpdateRole, PutRoleAcl, Writing, cacheVars
<1>6. QED
  BY <1>1, <1>2, <1>3, <1>4, <1>5 DEF Next

\* An entry that expires keeps its value and its tags.
LEMMA Expiring ==
  ASSUME TypeOK, NEW k \in Scopes, Cache!Expire(k)
  PROVE  /\ store'[k].tags = store[k].tags /\ store'[k].age = "expired"
         /\ \A j \in Scopes \ {k}: store'[j] = store[j]
         /\ UNCHANGED <<index, op, orphans>>
<1>1. store[k] \in Cache!Entries
  BY DEF TypeOK, Cache!CacheTypeOK, Cache!Expire, Cache!Present
<1>2. store' = [store EXCEPT ![k] = [store[k] EXCEPT !.age = "expired"]]
  BY DEF Cache!Expire
<1>3. store'[k] = [store[k] EXCEPT !.age = "expired"]
  BY <1>2 DEF TypeOK, Cache!CacheTypeOK
<1>4. "tags" # "age" /\ "age" \in DOMAIN store[k] /\ "tags" \in DOMAIN store[k]
  BY <1>1 DEF Cache!Entries
<1>5. store'[k].tags = store[k].tags /\ store'[k].age = "expired"
  BY <1>3, <1>4, Zenon
<1>6. \A j \in Scopes \ {k}: store'[j] = store[j]
  BY <1>2 DEF TypeOK, Cache!CacheTypeOK
<1>7. QED
  BY <1>5, <1>6 DEF Cache!Expire

LEMMA EntriesTaggedKept ==
  ASSUME TypeOK, SetsMatch, EntriesTagged, [Next]_vars
  PROVE  EntriesTagged'
<1> USE DEF TypeOK, Cache!CacheTypeOK
<1>1. CASE store' = store
  BY <1>1 DEF EntriesTagged, Cache!Present, TagsOf
<1>2. ASSUME NEW c \in Clients, Cache!SetStore(c) PROVE EntriesTagged'
  <2>1. op[c].entry.tags = TagsOf(op[c].key) /\ op[c].key \in Scopes
    BY <1>2, OperationShape DEF SetsMatch, Storing, Cache!SetStore
  <2>2. QED
    BY <1>2, <2>1 DEF Cache!SetStore, EntriesTagged, Cache!Present, TagsOf
<1>3. ASSUME NEW c \in Clients, Cache!DeleteDrop(c) PROVE EntriesTagged'
  <2>1. op[c].key \in Scopes
    BY <1>3, OperationShape DEF Cache!DeleteDrop
  <2>2. QED
    BY <1>3, <2>1 DEF Cache!DeleteDrop, EntriesTagged, Cache!Present, TagsOf
<1>4. ASSUME NEW c \in Clients, CacheProgress(c) PROVE EntriesTagged'
  BY <1>1, <1>2, <1>3, <1>4
     DEF CacheProgress, Cache!CacheStep, Cache!SetRead, Cache!SetUnlink, Cache!Collect,
         Cache!DeleteRead
<1>5. ASSUME NEW c \in Clients, Kill(c) PROVE EntriesTagged'
  BY <1>1, <1>5 DEF Kill, Cache!CacheKill
<1>6. ASSUME NEW k \in Scopes, Passing(k) PROVE EntriesTagged'
  <2>1. CASE Cache!Expire(k)
    <3>1. Cache!Present(k)
      BY <2>1 DEF Cache!Expire
    <3>2. QED
      BY <2>1, <3>1, Expiring DEF EntriesTagged, Cache!Present, TagsOf
  <2>2. CASE Cache!Evict(k)
    BY <2>2 DEF Cache!Evict, EntriesTagged, Cache!Present, TagsOf
  <2>3. QED
    BY <1>6, <2>1, <2>2 DEF Passing
<1>7. CASE UNCHANGED vars
  BY <1>1, <1>7 DEF vars, cacheVars
<1>8. QED
  BY <1>1, <1>4, <1>5, <1>6, <1>7, QuietSteps

---------------------------------------------------------------------------
(* IndexCovers.                                                            *)

\* The set of a key that is between its two pipelines.
Between(c, k) == op[c].step = "setStore" /\ op[c].key = k /\ op[c].unlinked

\* A step that changes only operations, and leaves none between its pipelines.
LEMMA CoversByOperation ==
  ASSUME TypeOK, IndexCovers, NEW c \in Clients,
         UNCHANGED <<store, index, orphans>>,
         \A b \in Clients \ {c}: op'[b] = op[b],
         \A k \in Scopes: Between(c, k) => Between(c, k)'
  PROVE  IndexCovers'
<1>1. ASSUME NEW k \in Scopes PROVE Cache!Indexed(k)' = Cache!Indexed(k)
  BY DEF Cache!Indexed, Cache!Present
<1>2. ASSUME NEW k \in Scopes, Cache!Hidden(k) PROVE Cache!Hidden(k)'
  BY <1>2 DEF Cache!Hidden, Between
<1>3. QED
  BY <1>1, <1>2 DEF IndexCovers, Cache!IndexCovers

\* A step on one key leaves the entries and the index of the others.
LEMMA CoversByKey ==
  ASSUME TypeOK, IndexCovers, NEW c \in Clients, NEW k \in Scopes,
         \A j \in Scopes \ {k}: store'[j] = store[j],
         \A g \in Users \cup Tenants \cup {All}, j \in Scopes \ {k}:
           j \in index'[g] <=> j \in index[g],
         orphans \ {k} \subseteq orphans',
         \A b \in Clients \ {c}: op'[b] = op[b],
         \A j \in Scopes \ {k}: ~Between(c, j),
         Cache!Indexed(k)' \/ Cache!Hidden(k)'
  PROVE  IndexCovers'
<1>1. ASSUME NEW j \in Scopes \ {k}, Cache!Indexed(j) PROVE Cache!Indexed(j)'
  <2>1. Cache!Present(j) => store[j].tags \in SUBSET (Users \cup Tenants \cup {All})
    BY DEF TypeOK, Cache!CacheTypeOK, Cache!Present, Cache!Entries
  <2>2. QED
    BY <1>1, <2>1 DEF Cache!Indexed, Cache!Present
<1>2. ASSUME NEW j \in Scopes \ {k}, Cache!Hidden(j) PROVE Cache!Hidden(j)'
  BY <1>2 DEF Cache!Hidden, Between
<1>3. QED
  BY <1>1, <1>2 DEF IndexCovers, Cache!IndexCovers

LEMMA CoversByCacheStep ==
  ASSUME TypeOK, IndexCovers, NEW c \in Clients, Cache!CacheStep(c)
  PROVE  IndexCovers'
<1> USE DEF TypeOK, Cache!CacheTypeOK
<1>1. CASE Cache!SetRead(c) \/ Cache!Collect(c) \/ Cache!DeleteRead(c)
  <2>1. UNCHANGED <<store, index, orphans>> /\ \A b \in Clients \ {c}: op'[b] = op[b]
    BY <1>1 DEF Cache!SetRead, Cache!Collect, Cache!DeleteRead
  <2>2. \A k \in Scopes: ~Between(c, k)
    BY <1>1 DEF Cache!SetRead, Cache!Collect, Cache!DeleteRead, Between
  <2>3. QED
    BY <2>1, <2>2, CoversByOperation
<1>2. CASE Cache!SetUnlink(c)
  <2>1. PICK k \in Scopes: k = op[c].key
    BY <1>2, OperationShape DEF Cache!SetUnlink, Storing
  <2>2. Cache!Hidden(k)'
    BY <1>2, <2>1 DEF Cache!SetUnlink, Cache!Hidden
  <2>3. \A g \in Users \cup Tenants \cup {All}, j \in Scopes \ {k}:
          j \in index'[g] <=> j \in index[g]
    BY <1>2, <2>1 DEF Cache!SetUnlink, Cache!Unlinked
  <2>4. \A j \in Scopes: ~Between(c, j)
    BY <1>2, <2>1 DEF Cache!SetUnlink, Between
  <2>5. UNCHANGED <<store, orphans>> /\ \A b \in Clients \ {c}: op'[b] = op[b]
    BY <1>2, <2>1 DEF Cache!SetUnlink
  <2>6. QED
    BY <2>1, <2>2, <2>3, <2>4, <2>5, CoversByKey
<1>3. CASE Cache!SetStore(c)
  <2>0. PICK k \in Scopes: k = op[c].key
    BY <1>3, OperationShape DEF Cache!SetStore, Storing
  <2>1. op[c].entry \in Cache!Entries
    BY <1>3, OperationShape DEF Cache!SetStore, Storing
  <2>2. Cache!Indexed(k)'
    <3>1. store'[k] = op[c].entry
      BY <1>3, <2>0, <2>1 DEF Cache!SetStore
    <3>2. \A g \in op[c].entry.tags: k \in index'[g]
      BY <1>3, <2>0, <2>1 DEF Cache!SetStore, Cache!Linked, Cache!Entries
    <3>3. QED
      BY <3>1, <3>2 DEF Cache!Indexed
  <2>3. \A g \in Users \cup Tenants \cup {All}, j \in Scopes \ {k}:
          j \in index'[g] <=> j \in index[g]
    BY <1>3, <2>0 DEF Cache!SetStore, Cache!Linked
  <2>4. \A j \in Scopes \ {k}: ~Between(c, j)
    BY <2>0 DEF Between
  <2>5. /\ orphans' = orphans \ {k} /\ \A b \in Clients \ {c}: op'[b] = op[b]
        /\ \A j \in Scopes \ {k}: store'[j] = store[j]
    BY <1>3, <2>0 DEF Cache!SetStore
  <2>6. QED
    BY <2>2, <2>3, <2>4, <2>5, <2>0, CoversByKey
<1>4. CASE Cache!DeleteDrop(c)
  <2>1. PICK k \in Scopes: k = op[c].key
    BY <1>4, OperationShape DEF Cache!DeleteDrop
  <2>2. Cache!Indexed(k)'
    BY <1>4, <2>1 DEF Cache!DeleteDrop, Cache!Indexed, Cache!Present
  <2>3. \A g \in Users \cup Tenants \cup {All}, j \in Scopes \ {k}:
          j \in index'[g] <=> j \in index[g]
    BY <1>4, <2>1 DEF Cache!DeleteDrop, Cache!Unlinked
  <2>4. \A j \in Scopes \ {k}: ~Between(c, j)
    BY <2>1 DEF Between
  <2>5. /\ orphans' = orphans \ {k} /\ \A b \in Clients \ {c}: op'[b] = op[b]
        /\ \A j \in Scopes \ {k}: store'[j] = store[j]
    BY <1>4, <2>1 DEF Cache!DeleteDrop
  <2>6. QED
    BY <2>1, <2>2, <2>3, <2>4, <2>5, CoversByKey
<1>5. QED
  BY <1>1, <1>2, <1>3, <1>4 DEF Cache!CacheStep

LEMMA IndexCoversKept ==
  ASSUME TypeOK, IndexCovers, [Next]_vars
  PROVE  IndexCovers'
<1> USE DEF TypeOK, Cache!CacheTypeOK
<1>1. CASE UNCHANGED cacheVars
  BY <1>1 DEF cacheVars, IndexCovers, Cache!IndexCovers, Cache!Indexed, Cache!Hidden, Cache!Present
<1>2. ASSUME NEW c \in Clients, CacheProgress(c) PROVE IndexCovers'
  BY <1>2, CoversByCacheStep DEF CacheProgress
<1>3. ASSUME NEW c \in Clients, Lookup(c) \/ SetCache(c) \/ Invalidate(c) PROVE IndexCovers'
  <2>1. op[c] = Cache!Idle /\ UNCHANGED <<store, index, orphans>>
        /\ \A b \in Clients \ {c}: op'[b] = op[b]
    BY <1>3 DEF Lookup, Cache!Get, SetCache, Cache!StartSet, Invalidate, Cache!DeleteByTags,
       cacheVars
  <2>2. \A k \in Scopes: ~Between(c, k)
    BY <2>1 DEF Between, Cache!Idle
  <2>3. QED
    BY <2>1, <2>2, CoversByOperation
<1>4. ASSUME NEW c \in Clients, Kill(c) PROVE IndexCovers'
  <2>1. Cache!CacheKill(c)
    BY <1>4 DEF Kill
  <2>2. CASE op[c].step # "setStore"
    <3>1. UNCHANGED <<store, index, orphans>> /\ \A b \in Clients \ {c}: op'[b] = op[b]
      BY <2>1, <2>2 DEF Cache!CacheKill
    <3>2. QED
      BY <2>2, <3>1, CoversByOperation DEF Between
  <2>3. CASE op[c].step = "setStore"
    <3>1. PICK k \in Scopes: k = op[c].key
      BY <2>3, OperationShape DEF Storing
    <3>2. UNCHANGED <<store, index>> /\ \A b \in Clients \ {c}: op'[b] = op[b]
      BY <2>1 DEF Cache!CacheKill
    <3>3. orphans \subseteq orphans' /\ (~Cache!Indexed(k) => k \in orphans')
      BY <2>1, <2>3, <3>1 DEF Cache!CacheKill
    <3>4. Cache!Indexed(k) => Cache!Indexed(k)'
      BY <3>2 DEF Cache!Indexed, Cache!Present
    <3>5. Cache!Indexed(k)' \/ Cache!Hidden(k)'
      BY <3>3, <3>4 DEF Cache!Hidden
    <3>6. \A j \in Scopes \ {k}: ~Between(c, j)
      BY <3>1 DEF Between
    <3>7. QED
      BY <3>1, <3>2, <3>3, <3>5, <3>6, CoversByKey
  <2>4. QED
    BY <2>2, <2>3
<1>5. ASSUME NEW k \in Scopes, Passing(k) PROVE IndexCovers'
  <2>1. CASE Cache!Expire(k)
    <3>1. /\ UNCHANGED <<index, op, orphans>>
          /\ \A j \in Scopes: Cache!Present(j)' => Cache!Present(j)
          /\ \A j \in Scopes: store'[j].tags = store[j].tags
      BY <2>1, Expiring DEF Cache!Expire, Cache!Present
    <3>2. QED
      BY <3>1 DEF IndexCovers, Cache!IndexCovers, Cache!Indexed, Cache!Hidden
  <2>2. CASE Cache!Evict(k)
    <3>1. /\ UNCHANGED <<index, op>> /\ orphans' = orphans \ {k}
          /\ ~Cache!Present(k)'
          /\ \A j \in Scopes \ {k}: store'[j] = store[j]
      BY <2>2 DEF Cache!Evict, Cache!Present
    <3>2. QED
      BY <3>1 DEF IndexCovers, Cache!IndexCovers, Cache!Indexed, Cache!Hidden, Cache!Present
  <2>3. QED
    BY <1>5, <2>1, <2>2 DEF Passing
<1>6. ASSUME NEW c \in Clients, StartLoad(c) \/ ReadDatabase(c) PROVE UNCHANGED cacheVars
  BY <1>6 DEF StartLoad, ReadDatabase
<1>7. ASSUME NEW c \in Clients, NEW r \in Roles, PrepareRole(c, r) PROVE UNCHANGED cacheVars
  BY <1>7 DEF PrepareRole, Writing
<1>8. QED
  BY <1>1, <1>2, <1>3, <1>4, <1>5, <1>6, <1>7, NextCases, ChangeShape DEF vars

LEMMA InitCovers == Init => IndexCovers
BY DEF Init, Cache!CacheInit, IndexCovers, Cache!IndexCovers, Cache!Indexed, Cache!Present

\* deleteByTags can find every entry by each of its tags (RedisCache,
\* IndexCovers), whatever is killed wherever.
THEOREM TagsReachEntries == Spec => []IndexCovers
<1>1. Init => TypeOK /\ IndexCovers
  BY InitType, InitCovers
<1>2. TypeOK /\ IndexCovers /\ [Next]_vars => (TypeOK /\ IndexCovers)'
  BY NextType, IndexCoversKept
<1>3. QED
  BY <1>1, <1>2, PTL DEF Spec

---------------------------------------------------------------------------
(* LoadsAgree.                                                             *)

\* The answer is read from these tables only.
LEMMA AnswerStable ==
  ASSUME UNCHANGED tables
  PROVE  \A k: Answer(k)' = Answer(k)
BY DEF tables, Answer, SuperByUser, SuperByRole, Granted, RolesIn

LEMMA ReadSoFarStable ==
  ASSUME UNCHANGED tables, NEW c \in Clients,
         req'[c] = req[c], ReadSoFar(c)
  PROVE  ReadSoFar(c)'
BY AnswerStable DEF tables, ReadSoFar, SuperByUser, SuperByRole, RolesIn

\* A change of permissions overtakes every load that has read something.
LEMMA LoadsOvertaken ==
  ASSUME TypeOK, LoadsAgree, NEW c \in Clients, NEW next, RaceFills(c, next),
         next.pc \in ChangeSteps
  PROVE  LoadsAgree'
<1>1. ASSUME NEW b \in Clients, (Loading(b) /\ ~req[b].raced)' PROVE ReadSoFar(b)'
  <2>1. b # c
    BY <1>1, RacedShape DEF Loading, LoadSteps, ChangeSteps
  <2>2. CASE req'[b].pc \in {"lookup", "superUser"}
    BY <2>2 DEF ReadSoFar
  <2>3. CASE UNCHANGED tables /\ req'[b] = req[b]
    BY <1>1, <2>3, ReadSoFarStable DEF LoadsAgree, Loading
  <2>4. QED
    BY <1>1, <2>1, <2>2, <2>3, RacedShape DEF Loading
<1>2. QED
  BY <1>1 DEF LoadsAgree

\* Each read of a load that nothing has overtaken.
LEMMA ReadsAgree ==
  ASSUME TypeOK, NEW c \in Clients, ReadDatabase(c), ~req[c].raced, ReadSoFar(c)
  PROVE  ReadSoFar(c)'
<1> DEFINE u == req[c].key[1]
           t == req[c].key[2]
<1>1. UNCHANGED tables
  BY DEF ReadDatabase, dbVars
<1>2. Loading(c) /\ req[c] \in Loads
  <2>1. Loading(c)
    BY DEF ReadDatabase, ReadSuperUser, ReadSuperLinks, ReadSuperRoles, ReadUser,
           ReadUserAcl, ReadLinks, ReadRoleAcls, Loading, LoadSteps
  <2>2. QED
    BY <2>1, RequestShape
<1>3. /\ SuperByUser(u)' = SuperByUser(u) /\ SuperByRole(links[u])' = SuperByRole(links[u])
      /\ RolesIn(u, t)' = RolesIn(u, t) /\ req'[c].key = req[c].key
      /\ Answer(req[c].key)' = Answer(req[c].key)
  <2>1. req'[c].key = req[c].key
    BY DEF ReadDatabase, ReadSuperUser, ReadSuperLinks, ReadSuperRoles, ReadUser,
           ReadUserAcl, ReadLinks, ReadRoleAcls, Resolve, Go, GoWith, GoOn, TypeOK
  <2>2. QED
    BY <1>1, <2>1, AnswerStable DEF tables, SuperByUser, SuperByRole, RolesIn, Answer
<1>4. ASSUME NEW pc, NEW rs, NEW acl, GoOn(c, pc, rs, acl)
      PROVE  req'[c].pc = pc /\ req'[c].roles = rs /\ req'[c].acl = acl
  BY <1>4 DEF GoOn, TypeOK
<1>5. ASSUME NEW acl, Resolve(c, acl), acl = Answer(req[c].key) PROVE ReadSoFar(c)'
  <2>1. req'[c].pc = "store" /\ req'[c].acl = acl
    BY <1>5, <1>4 DEF Resolve
  <2>2. QED
    BY <1>3, <1>5, <2>1 DEF ReadSoFar
<1>6. SuperByRole({}) = FALSE
  BY DEF SuperByRole
<1>7. CASE ReadSuperUser(c)
  <2>1. SuperByUser(u) => Answer(req[c].key) = SuperAcl
    BY DEF Answer
  <2>2. ~SuperByUser(u) => req'[c].pc = "superLinks"
    BY <1>4, <1>7 DEF ReadSuperUser, Go
  <2>3. QED
    BY <1>3, <1>5, <1>7, <2>1, <2>2 DEF ReadSuperUser, ReadSoFar
<1>8. CASE ReadSuperLinks(c)
  <2>1. /\ req'[c].pc = IF links[u] = {} THEN "user" ELSE "superRoles"
        /\ req'[c].roles = links[u]
    BY <1>4, <1>8 DEF ReadSuperLinks, GoWith
  <2>2. ~SuperByUser(u) /\ links' = links
    BY <1>1, <1>8 DEF tables, ReadSuperLinks, ReadSoFar
  <2>3. QED
    BY <1>3, <1>6, <2>1, <2>2 DEF ReadSoFar
<1>9. CASE ReadSuperRoles(c)
  <2>1. ~SuperByUser(u) /\ req[c].roles = links[u]
    BY <1>9 DEF ReadSuperRoles, ReadSoFar
  <2>2. SuperByRole(links[u]) => Answer(req[c].key) = SuperAcl
    BY DEF Answer
  <2>3. ~SuperByRole(links[u]) => req'[c].pc = "user"
    BY <1>4, <1>9, <2>1 DEF ReadSuperRoles, GoWith
  <2>4. QED
    BY <1>3, <1>5, <1>9, <2>1, <2>2, <2>3 DEF ReadSuperRoles, ReadSoFar
<1>10. CASE ReadUser(c)
  <2>1. ~SuperByUser(u) /\ ~SuperByRole(links[u])
    BY <1>10 DEF ReadUser, ReadSoFar
  <2>2. u \notin users => Answer(req[c].key) = EmptyAcl
    BY <2>1 DEF Answer
  <2>3. u \in users => req'[c].pc = "userAcl"
    BY <1>4, <1>10 DEF ReadUser, Go
  <2>4. QED
    BY <1>1, <1>3, <1>5, <1>10, <2>1, <2>2, <2>3 DEF tables, ReadUser, ReadSoFar
<1>11. CASE ReadUserAcl(c)
  <2>1. ~SuperByUser(u) /\ ~SuperByRole(links[u]) /\ u \in users
    BY <1>11 DEF ReadUserAcl, ReadSoFar
  <2>2. userAcl[u][t] # NoAcl => Answer(req[c].key) = userAcl[u][t]
    BY <2>1 DEF Answer
  <2>3. userAcl[u][t] = NoAcl => req'[c].pc = "links"
    BY <1>4, <1>11 DEF ReadUserAcl, Go
  <2>4. QED
    BY <1>1, <1>3, <1>5, <1>11, <2>1, <2>2, <2>3 DEF tables, ReadUserAcl, ReadSoFar
<1>12. CASE ReadLinks(c)
  <2>1. ~SuperByUser(u) /\ ~SuperByRole(links[u]) /\ u \in users /\ userAcl[u][t] = NoAcl
    BY <1>12 DEF ReadLinks, ReadSoFar
  <2>2. Granted({}, t) = EmptyAcl
    BY DEF Granted, Together, EmptyAcl
  <2>3. RolesIn(u, t) = {} => Answer(req[c].key) = EmptyAcl
    BY <2>1, <2>2 DEF Answer
  <2>4. RolesIn(u, t) # {} => req'[c].pc = "roleAcls" /\ req'[c].roles = RolesIn(u, t)
    BY <1>4, <1>12 DEF ReadLinks, GoWith
  <2>5. QED
    BY <1>1, <1>3, <1>5, <1>12, <2>1, <2>3, <2>4 DEF tables, ReadLinks, ReadSoFar
<1>13. CASE ReadRoleAcls(c)
  <2>1. /\ ~SuperByUser(u) /\ ~SuperByRole(links[u]) /\ u \in users /\ userAcl[u][t] = NoAcl
        /\ req[c].roles = RolesIn(u, t)
    BY <1>13 DEF ReadRoleAcls, ReadSoFar
  <2>2. Answer(req[c].key) = Granted(req[c].roles, t)
    BY <2>1 DEF Answer
  <2>3. QED
    BY <1>5, <1>13, <2>2 DEF ReadRoleAcls
<1>14. QED
  BY <1>7, <1>8, <1>9, <1>10, <1>11, <1>12, <1>13 DEF ReadDatabase

LEMMA LoadsAgreeKept ==
  ASSUME TypeOK, LoadsAgree, [Next]_vars
  PROVE  LoadsAgree'
<1>1. ASSUME UNCHANGED tables, NEW b \in Clients, req'[b] = req[b],
             (Loading(b) /\ ~req[b].raced)'
      PROVE  ReadSoFar(b)'
  BY <1>1, ReadSoFarStable DEF LoadsAgree, Loading
<1>2. ASSUME NEW c \in Clients,
             \/ StartLoad(c) \/ Lookup(c) \/ ReadDatabase(c) \/ SetCache(c)
             \/ CacheProgress(c) \/ Invalidate(c) \/ Kill(c)
      PROVE  LoadsAgree'
  <2>1. UNCHANGED tables
    BY <1>2 DEF StartLoad, Lookup, ReadDatabase, SetCache, CacheProgress, Invalidate, Kill, dbVars
  <2>2. SUFFICES ASSUME (Loading(c) /\ ~req[c].raced)' PROVE ReadSoFar(c)'
    BY <1>1, <1>2, <2>1, OthersKept DEF LoadsAgree
  <2>3. CASE req'[c].pc \in {"lookup", "superUser"}
    BY <2>3 DEF ReadSoFar
  <2>4. CASE StartLoad(c)
    BY <2>3, <2>4 DEF StartLoad, TypeOK
  <2>5. CASE Lookup(c)
    BY <2>2, <2>3, <2>5 DEF Lookup, Go, GoOn, Waiting, Loading, LoadSteps, TypeOK
  <2>6. CASE ReadDatabase(c)
    <3>1. req'[c].raced = req[c].raced
      BY <2>6 DEF ReadDatabase, ReadSuperUser, ReadSuperLinks, ReadSuperRoles, ReadUser,
             ReadUserAcl, ReadLinks, ReadRoleAcls, Resolve, Go, GoWith, GoOn, TypeOK
    <3>2. Loading(c)
      BY <2>6 DEF ReadDatabase, ReadSuperUser, ReadSuperLinks, ReadSuperRoles, ReadUser,
             ReadUserAcl, ReadLinks, ReadRoleAcls, Loading, LoadSteps
    <3>3. QED
      BY <2>2, <2>6, <3>1, <3>2, ReadsAgree DEF LoadsAgree
  <2>7. CASE SetCache(c)
    <3>1. /\ req'[c].pc = "stored" /\ req'[c].raced = req[c].raced
          /\ req'[c].key = req[c].key /\ req'[c].acl = req[c].acl
          /\ req[c].pc = "store"
      BY <2>7 DEF SetCache, Go, GoOn, TypeOK
    <3>2. req[c].acl = Answer(req[c].key)
      BY <2>2, <3>1 DEF LoadsAgree, Loading, LoadSteps, ReadSoFar
    <3>3. Answer(req[c].key)' = Answer(req[c].key)
      <4>1. req'[c].key = req[c].key
        BY <3>1
      <4>2. QED
        BY <2>1, <4>1 DEF tables, Answer, SuperByUser, SuperByRole, Granted, RolesIn
    <3>4. QED
      BY <3>1, <3>2, <3>3 DEF ReadSoFar
  <2>8. CASE CacheProgress(c) \/ Invalidate(c) \/ Kill(c)
    <3>1. CASE req'[c] = req[c]
      BY <1>1, <2>1, <2>2, <3>1
    <3>2. CASE req'[c] # req[c]
      <4>1. req'[c] = Waiting \/ req'[c].pc = "invalidate"
        BY <2>8, <3>2 DEF CacheProgress, Invalidate, Kill, Invalidation, TypeOK
      <4>2. QED
        BY <2>2, <4>1 DEF Waiting, Loading, LoadSteps
    <3>3. QED
      BY <3>1, <3>2
  <2>9. QED
    BY <1>2, <2>4, <2>5, <2>6, <2>7, <2>8
<1>3. ASSUME NEW c \in Clients, Changing(c) PROVE LoadsAgree'
  BY <1>3, ChangeShape, LoadsOvertaken
<1>4. ASSUME NEW c \in Clients, NEW r \in Roles, PrepareRole(c, r) PROVE LoadsAgree'
  <2>1. UNCHANGED tables /\ \A b \in Clients \ {c}: req'[b] = req[b]
    BY <1>4 DEF PrepareRole, dbVars, TypeOK
  <2>2. req'[c].pc = "updateRole"
    BY <1>4 DEF PrepareRole, RoleUpdate, TypeOK
  <2>3. ~Loading(c)'
    BY <2>2 DEF Loading, LoadSteps
  <2>4. QED
    BY <1>1, <2>1, <2>3 DEF LoadsAgree
<1>5. ASSUME NEW k \in Scopes, Passing(k) PROVE LoadsAgree'
  BY <1>1, <1>5 DEF Passing, dbVars, LoadsAgree
<1>6. CASE UNCHANGED vars
  BY <1>1, <1>6 DEF vars, dbVars, LoadsAgree
<1>7. QED
  BY <1>2, <1>3, <1>4, <1>5, <1>6, NextCases

---------------------------------------------------------------------------
(* WrongAreDeleted.                                                        *)

\* A step that makes no entry wrong, and keeps the deletions of others.
LEMMA WrongKept ==
  ASSUME WrongAreDeleted, NEW c \in Clients,
         \A b \in Clients \ {c}: req'[b] = req[b] /\ op'[b] = op[b],
         \A k \in Scopes: Wrong(k)' => Wrong(k) /\ (WillDelete(c, k) => WillDelete(c, k)')
  PROVE  WrongAreDeleted'
<1>1. ASSUME NEW k \in Scopes, NEW b \in Clients \ {c}, WillDelete(b, k)
      PROVE  WillDelete(b, k)'
  BY <1>1 DEF WillDelete, Deletes, TagsOf
<1>2. QED
  BY <1>1 DEF WrongAreDeleted

\* The same when the entries and the index stay.
LEMMA WrongStable ==
  ASSUME UNCHANGED <<store, index, tables>>, behind \subseteq behind'
  PROVE  \A k \in Scopes: Wrong(k)' => Wrong(k)
BY AnswerStable DEF Wrong, Cache!Live, Cache!Indexed, Cache!Present

\* A change: every key it alters, or whose deletion it gives up, is in behind
\* or will be deleted.
LEMMA ChangeCovered ==
  ASSUME TypeOK, WrongAreDeleted, NEW c \in Clients, Changing(c), behind \subseteq behind',
         \A k \in Scopes: Answer(k)' # Answer(k) \/ WillDelete(c, k)
                            => k \in behind' \/ WillDelete(c, k)'
  PROVE  WrongAreDeleted'
<1>1. UNCHANGED cacheVars
  BY ChangeShape
<1>2. PICK next: next.pc \in ChangeSteps /\ RaceFills(c, next)
  BY ChangeShape
<1>3. ASSUME NEW k \in Scopes, NEW b \in Clients \ {c}, WillDelete(b, k)
      PROVE  WillDelete(b, k)'
  <2>1. ~Loading(b)
    BY <1>3 DEF WillDelete, Deletes, Loading, LoadSteps
  <2>2. req'[b] = req[b]
    BY <1>2, <2>1, RacedShape
  <2>3. QED
    BY <1>1, <1>3, <2>2 DEF WillDelete, Deletes, TagsOf, cacheVars
<1>4. ASSUME NEW k \in Scopes, Wrong(k)' PROVE \E b \in Clients: WillDelete(b, k)'
  <2>1. CASE Answer(k)' # Answer(k)
    BY <1>4, <2>1 DEF Wrong
  <2>2. CASE Answer(k)' = Answer(k)
    <3>1. Wrong(k)
      BY <1>1, <1>4, <2>2 DEF Wrong, Cache!Live, Cache!Indexed, Cache!Present, cacheVars
    <3>2. PICK b \in Clients: WillDelete(b, k)
      BY <3>1 DEF WrongAreDeleted
    <3>3. CASE b = c
      BY <1>4, <3>2, <3>3 DEF Wrong
    <3>4. CASE b # c
      BY <1>3, <3>2, <3>4
    <3>5. QED
      BY <3>3, <3>4
  <2>3. QED
    BY <2>1, <2>2
<1>5. QED
  BY <1>4 DEF WrongAreDeleted

\* A change of one user alters the answers of that user only.
LEMMA OtherUsers ==
  ASSUME TypeOK, NEW u \in Users, NEW k \in Scopes, k[1] # u, UNCHANGED <<roleTenant, roleAcl>>,
         users' \in {users, users \ {u}},
         \A v \in Users \ {u}: userAcl'[v] = userAcl[v] /\ links'[v] = links[v]
  PROVE  Answer(k)' = Answer(k)
<1>1. k[1] \in Users \ {u}
  BY DEF Scopes
<1>2. /\ userAcl'[k[1]] = userAcl[k[1]] /\ links'[k[1]] = links[k[1]]
      /\ k[1] \in users' <=> k[1] \in users
  BY <1>1
<1>3. QED
  BY <1>2 DEF Answer, SuperByUser, SuperByRole, Granted, RolesIn

\* An invalidation that has not begun deletes every entry of its tag.
LEMMA InvalidatingDeletes ==
  ASSUME TypeOK, NEW c \in Clients, NEW tag, NEW k \in Scopes,
         req'[c] = Invalidating(tag), tag \in TagsOf(k)
  PROVE  WillDelete(c, k)'
BY DEF Invalidating, Invalidation, WillDelete, Deletes, TagsOf

LEMMA ChangesCovered ==
  ASSUME TypeOK, WrongAreDeleted, NEW c \in Clients, Changing(c)
  PROVE  WrongAreDeleted'
<1> USE DEF TypeOK
<1>1. req[c] = Waiting => \A k: ~WillDelete(c, k)
  BY DEF Waiting, WillDelete, Deletes
<1>2. \A k \in Scopes: k[1] \in TagsOf(k) /\ k[2] \in TagsOf(k)
  BY DEF TagsOf
<1>3. \A next: RaceFills(c, next) => req'[c] = next
  BY DEF RaceFills
<1>4. CASE DeleteUserLinks(c)
  <2>1. req[c].user \in Users
    BY <1>4, RequestShape DEF DeleteUserLinks, Deletions
  <2>2. req'[c] = [pc |-> "deleteUser", user |-> req[c].user]
    BY <1>3, <1>4 DEF DeleteUserLinks
  <2>3. \A k \in Scopes: k[1] = req[c].user => WillDelete(c, k)'
    BY <2>2 DEF WillDelete
  <2>4. \A k \in Scopes: WillDelete(c, k) => k[1] = req[c].user
    BY <1>4 DEF DeleteUserLinks, WillDelete, Deletes
  <2>5. \A k \in Scopes: Answer(k)' # Answer(k) => k[1] = req[c].user
    BY <1>4, <2>1, OtherUsers DEF DeleteUserLinks
  <2>6. QED
    BY <1>4, <2>3, <2>4, <2>5, ChangeCovered DEF DeleteUserLinks
<1>5. CASE DeleteUserRow(c)
  <2>1. PICK u \in Users: u = req[c].user
    BY <1>5, RequestShape DEF DeleteUserRow, Deletions
  <2>2. \A k \in Scopes: WillDelete(c, k) => k[1] = u
    BY <1>5, <2>1 DEF DeleteUserRow, WillDelete, Deletes
  <2>3. \A k \in Scopes: Answer(k)' # Answer(k) => k[1] = u
    BY <1>5, <2>1, OtherUsers DEF DeleteUserRow
  <2>4. CASE u \in users
    <3>1. req'[c] = Invalidating(u) /\ behind' = behind
      BY <1>3, <1>5, <2>1, <2>4 DEF DeleteUserRow
    <3>2. \A k \in Scopes: k[1] = u => WillDelete(c, k)'
      BY <1>2, <3>1, InvalidatingDeletes
    <3>3. QED
      BY <2>2, <2>3, <3>1, <3>2, ChangeCovered
  <2>5. CASE u \notin users
    <3>1. behind' = behind \cup {k \in Scopes : k[1] = u}
      BY <1>5, <2>1, <2>5 DEF DeleteUserRow
    <3>2. QED
      BY <2>2, <2>3, <3>1, ChangeCovered
  <2>6. QED
    BY <2>4, <2>5
<1>6. ASSUME NEW u \in Users, DeleteUser(c, u) PROVE WrongAreDeleted'
  <2>1. req'[c] = [pc |-> "deleteLinks", user |-> u] /\ req[c] = Waiting
    BY <1>3, <1>6 DEF DeleteUser, Writing
  <2>2. \A k \in Scopes: k[1] = u => WillDelete(c, k)'
    BY <2>1 DEF WillDelete
  <2>3. \A k \in Scopes: Answer(k)' # Answer(k) => k[1] = u
    BY <1>6, OtherUsers DEF DeleteUser
  <2>4. QED
    BY <1>1, <1>6, <2>1, <2>2, <2>3, ChangeCovered DEF DeleteUser
<1>7. ASSUME NEW u \in Users, NEW rs \in SUBSET Roles, UpdateUser(c, u, rs)
      PROVE  WrongAreDeleted'
  <2>1. req'[c] = Invalidating(u) /\ req[c] = Waiting
    BY <1>3, <1>7 DEF UpdateUser, SyncUserRoles, Writing
  <2>2. \A k \in Scopes: k[1] = u => WillDelete(c, k)'
    BY <1>2, <2>1, InvalidatingDeletes
  <2>3. \A k \in Scopes: Answer(k)' # Answer(k) => k[1] = u
    BY <1>7, OtherUsers DEF UpdateUser, SyncUserRoles
  <2>4. QED
    BY <1>1, <1>7, <2>1, <2>2, <2>3, ChangeCovered DEF UpdateUser, SyncUserRoles
<1>8. ASSUME NEW u \in Users, NEW t \in Tenants, NEW acl \in Acls, PutUserAcl(c, u, t, acl)
      PROVE  WrongAreDeleted'
  <2>1. req'[c] = Invalidating(u) /\ req[c] = Waiting
    BY <1>3, <1>8 DEF PutUserAcl, Writing
  <2>2. \A k \in Scopes: k[1] = u => WillDelete(c, k)'
    BY <1>2, <2>1, InvalidatingDeletes
  <2>3. \A k \in Scopes: Answer(k)' # Answer(k) => k[1] = u
    <3>1. \A v \in Users \ {u}: userAcl'[v] = userAcl[v]
      BY <1>8 DEF PutUserAcl
    <3>2. QED
      BY <1>8, <3>1, OtherUsers DEF PutUserAcl
  <2>4. QED
    BY <1>1, <1>8, <2>1, <2>2, <2>3, ChangeCovered DEF PutUserAcl
<1>9. ASSUME NEW r \in Roles, UndoUpdateRole(c, r) PROVE WrongAreDeleted'
  BY <1>1, <1>9, ChangeCovered DEF UndoUpdateRole, Writing, Altered
<1>10. ASSUME NEW r \in Roles, NEW t \in Tenants, NEW acl \in Acls, PutRoleAcl(c, r, t, acl)
       PROVE  WrongAreDeleted'
  <2>1. req'[c] = Invalidating(t) /\ req[c] = Waiting
    BY <1>3, <1>10 DEF PutRoleAcl, Writing
  <2>2. \A k \in Scopes: k[2] = t => WillDelete(c, k)'
    BY <1>2, <2>1, InvalidatingDeletes
  <2>3. \A k \in Scopes: Answer(k)' # Answer(k) /\ k[2] # t => k \in behind'
    BY <1>10 DEF PutRoleAcl, Altered
  <2>4. behind \subseteq behind'
    BY <1>10 DEF PutRoleAcl
  <2>5. QED
    BY <1>1, <2>1, <2>2, <2>3, <2>4, ChangeCovered
<1>11. ASSUME \/ DeleteRoleAcls(c) \/ CreateRoleAcls(c)
              \/ \E t \in Tenants \cup {NoTenant}: UpdateRole(c, t)
       PROVE  WrongAreDeleted'
  <2>1. behind' = behind \cup Altered
        /\ req[c].pc \in {"updateRole", "deleteAcls", "createAcls"}
    BY <1>11 DEF UpdateRole, DeleteRoleAcls, CreateRoleAcls
  <2>2. \A k: ~WillDelete(c, k)
    BY <2>1 DEF WillDelete, Deletes
  <2>3. QED
    BY <2>1, <2>2, ChangeCovered DEF Altered
<1>12. QED
  BY <1>4, <1>5, <1>6, <1>7, <1>8, <1>9, <1>10, <1>11 DEF Changing

\* Each round trip of an invalidation leaves to the next what it does not
\* delete; a set stores what the database says, or an entry in behind.
LEMMA WrongByProgress ==
  ASSUME IInv, NEW c \in Clients, CacheProgress(c)
  PROVE  WrongAreDeleted'
<1> USE DEF IInv, TypeOK, Cache!CacheTypeOK
<1>1. \A b \in Clients \ {c}: req'[b] = req[b] /\ op'[b] = op[b]
  BY OthersKept
<1>2. UNCHANGED tables
  BY DEF CacheProgress, dbVars
<1>3. CASE Cache!SetRead(c) \/ Cache!SetUnlink(c)
  <2>1. ASSUME NEW k \in Scopes, Wrong(k)' PROVE Wrong(k)
    <3>1. /\ store' = store /\ behind' = behind
          /\ \A g \in Users \cup Tenants \cup {All}: k \in index'[g] => k \in index[g]
      BY <1>3 DEF CacheProgress, Cache!SetRead, Cache!SetUnlink, Cache!Unlinked
    <3>2. Cache!Present(k) => store[k].tags \in SUBSET (Users \cup Tenants \cup {All})
      BY DEF Cache!Present, Cache!Entries
    <3>3. QED
      BY <1>2, <2>1, <3>1, <3>2, AnswerStable
         DEF Wrong, Cache!Live, Cache!Indexed, Cache!Present
  <2>2. \A k \in Scopes: ~WillDelete(c, k)
    <3>1. req[c].pc = "stored"
      BY <1>3 DEF SetsMatch, Storing, Cache!SetRead, Cache!SetUnlink
    <3>2. QED
      BY <3>1 DEF WillDelete, Deletes
  <2>3. QED
    BY <1>1, <2>1, <2>2, WrongKept
<1>4. CASE Cache!SetStore(c)
  <2>1. /\ req[c].pc = "stored" /\ op[c].key = req[c].key /\ op[c].entry.value = req[c].acl
        /\ req[c].key \in Scopes
    BY <1>4, RequestShape DEF SetsMatch, Storing, Cache!SetStore, Loading, LoadSteps, Loads
  <2>2. \A k \in Scopes: ~WillDelete(c, k)
    BY <2>1 DEF WillDelete, Deletes
  <2>3. ASSUME NEW k \in Scopes, Wrong(k)', k = req[c].key PROVE FALSE
    <3>1. store'[k].value = req[c].acl
      BY <1>4, <2>1, <2>3 DEF Cache!SetStore
    <3>2. ~req[c].raced
      BY <1>4, <2>1, <2>3 DEF CacheProgress, Cache!SetStore, Wrong
    <3>3. req[c].acl = Answer(k)
      BY <2>1, <2>3, <3>2 DEF LoadsAgree, Loading, LoadSteps, ReadSoFar
    <3>4. Answer(k)' = Answer(k)
      BY <1>2, AnswerStable
    <3>5. QED
      BY <2>3, <3>1, <3>3, <3>4 DEF Wrong
  <2>4. ASSUME NEW k \in Scopes, Wrong(k)', k # req[c].key PROVE Wrong(k)
    <3>1. store'[k] = store[k] /\ (k \in behind => k \in behind')
      BY <1>4, <2>1, <2>4 DEF CacheProgress, Cache!SetStore
    <3>2. \A g \in Users \cup Tenants \cup {All}: k \in index'[g] => k \in index[g]
      BY <1>4, <2>1, <2>4 DEF Cache!SetStore, Cache!Linked
    <3>3. Cache!Present(k) => store[k].tags \in SUBSET (Users \cup Tenants \cup {All})
      BY DEF Cache!Present, Cache!Entries
    <3>4. QED
      BY <1>2, <2>4, <3>1, <3>2, <3>3, AnswerStable
         DEF Wrong, Cache!Live, Cache!Indexed, Cache!Present
  <2>5. QED
    BY <1>1, <2>2, <2>3, <2>4, WrongKept
<1>5. CASE Cache!Collect(c)
  <2>1. UNCHANGED <<store, index, behind, req>>
    BY <1>5 DEF CacheProgress, Cache!Collect
  <2>2. ASSUME NEW k \in Scopes, Wrong(k), WillDelete(c, k) PROVE WillDelete(c, k)'
    <3>1. CASE ~Deletes(c, k) \/ req[c].passes = 2
      BY <2>1, <2>2, <3>1 DEF WillDelete, Deletes, TagsOf
    <3>2. CASE Deletes(c, k)
      <4>1. /\ req[c].pc = "invalidate" /\ req[c].tag \in TagsOf(k)
            /\ req[c].passes = 2 \/ req[c].tag \in op[c].tags \/ k \in op[c].found
        BY <1>5, <3>2 DEF Deletes, Cache!Collect
      <4>2. k \in index[req[c].tag]
        BY <2>2, <4>1 DEF EntriesTagged, Wrong, Cache!Live, Cache!Indexed
      <4>3. PICK g \in op[c].tags:
              LET found == op[c].found \cup index[g] IN
                op' = [op EXCEPT ![c] =
                         IF op[c].tags # {g}
                         THEN [step |-> "collect", tags |-> op[c].tags \ {g}, found |-> found]
                         ELSE IF found # {} THEN [step |-> "delete", found |-> found]
                         ELSE Cache!Idle]
        BY <1>5 DEF Cache!Collect
      <4>4. CASE k \in op[c].found \cup index[g]
        <5>1. /\ op'[c].step \in {"collect", "delete"}
              /\ op'[c].found = op[c].found \cup index[g]
          BY <4>3, <4>4
        <5>2. QED
          BY <2>1, <4>1, <4>4, <5>1 DEF WillDelete, Deletes, TagsOf
      <4>5. CASE k \notin op[c].found \cup index[g]
        <5>1. CASE req[c].passes = 2
          BY <3>1, <5>1
        <5>2. CASE req[c].passes # 2
          <6>1. req[c].tag \in op[c].tags /\ req[c].tag # g
            BY <4>1, <4>2, <4>5, <5>2
          <6>2. op'[c].step = "collect" /\ op'[c].tags = op[c].tags \ {g}
            BY <4>3, <6>1
          <6>3. QED
            BY <2>1, <4>1, <6>1, <6>2 DEF WillDelete, Deletes, TagsOf
        <5>3. QED
          BY <5>1, <5>2
      <4>6. QED
        BY <4>4, <4>5
    <3>3. QED
      BY <3>1, <3>2
  <2>3. QED
    BY <1>1, <1>2, <2>1, <2>2, WrongStable, WrongKept
<1>6. CASE Cache!DeleteRead(c)
  <2>1. UNCHANGED <<store, index, behind, req>>
    BY <1>6 DEF CacheProgress, Cache!DeleteRead
  <2>2. ASSUME NEW k \in Scopes, Wrong(k), WillDelete(c, k) PROVE WillDelete(c, k)'
    <3>1. CASE ~Deletes(c, k) \/ req[c].passes = 2
      BY <2>1, <2>2, <3>1 DEF WillDelete, Deletes, TagsOf
    <3>2. CASE Deletes(c, k) /\ req[c].passes # 2
      <4>1. req[c].pc = "invalidate" /\ req[c].tag \in TagsOf(k) /\ k \in op[c].found
        BY <1>6, <3>2 DEF Deletes, Cache!DeleteRead
      <4>2. PICK j \in op[c].found:
              op' = [op EXCEPT ![c] =
                       IF Cache!Present(j)
                       THEN [step |-> "drop", key |-> j, tags |-> store[j].tags,
                             found |-> op[c].found \ {j}]
                       ELSE Cache!AfterKey(op[c].found \ {j})]
        BY <1>6 DEF Cache!DeleteRead
      <4>3. CASE Cache!Present(j)
        <5>1. /\ op'[c].step = "drop" /\ op'[c].key = j
              /\ op'[c].found = op[c].found \ {j}
          BY <4>2, <4>3
        <5>2. QED
          BY <2>1, <4>1, <5>1 DEF WillDelete, Deletes, TagsOf
      <4>4. CASE ~Cache!Present(j)
        <5>1. k # j
          BY <2>2, <4>4 DEF Wrong, Cache!Live
        <5>2. op'[c].step = "delete" /\ op'[c].found = op[c].found \ {j}
          BY <4>1, <4>2, <4>4, <5>1 DEF Cache!AfterKey
        <5>3. QED
          BY <2>1, <4>1, <5>1, <5>2 DEF WillDelete, Deletes, TagsOf
      <4>5. QED
        BY <4>3, <4>4
    <3>3. QED
      BY <3>1, <3>2
  <2>3. QED
    BY <1>1, <1>2, <2>1, <2>2, WrongStable, WrongKept
<1>7. CASE Cache!DeleteDrop(c)
  <2>1. PICK j \in Scopes: j = op[c].key
    BY <1>7, OperationShape DEF Cache!DeleteDrop
  <2>2. ASSUME NEW k \in Scopes, Wrong(k)'
        PROVE  k # j /\ Wrong(k) /\ (WillDelete(c, k) => WillDelete(c, k)')
    <3>1. k # j
      BY <1>7, <2>1, <2>2 DEF Cache!DeleteDrop, Wrong, Cache!Live, Cache!Present
    <3>2. store'[k] = store[k] /\ (k \in behind => k \in behind') /\ req' = req
      BY <1>7, <2>1, <3>1 DEF CacheProgress, Cache!DeleteDrop
    <3>3. \A g \in Users \cup Tenants \cup {All}: k \in index'[g] => k \in index[g]
      BY <1>7 DEF Cache!DeleteDrop, Cache!Unlinked
    <3>4. Cache!Present(k) => store[k].tags \in SUBSET (Users \cup Tenants \cup {All})
      BY DEF Cache!Present, Cache!Entries
    <3>5. Wrong(k)
      BY <1>2, <2>2, <3>2, <3>3, <3>4, AnswerStable
         DEF Wrong, Cache!Live, Cache!Indexed, Cache!Present
    <3>6. ASSUME WillDelete(c, k) PROVE WillDelete(c, k)'
      <4>1. CASE ~Deletes(c, k) \/ req[c].passes = 2
        BY <3>2, <3>6, <4>1 DEF WillDelete, Deletes, TagsOf
      <4>2. CASE Deletes(c, k) /\ req[c].passes # 2
        <5>1. req[c].pc = "invalidate" /\ req[c].tag \in TagsOf(k) /\ k \in op[c].found
          BY <1>7, <2>1, <3>1, <4>2 DEF Deletes, Cache!DeleteDrop
        <5>2. op'[c].step = "delete" /\ op'[c].found = op[c].found
          BY <1>7, <5>1 DEF Cache!DeleteDrop, Cache!AfterKey
        <5>3. QED
          BY <3>2, <5>1, <5>2 DEF WillDelete, Deletes, TagsOf
      <4>3. QED
        BY <4>1, <4>2
    <3>7. QED
      BY <3>1, <3>5, <3>6
  <2>3. QED
    BY <1>1, <2>2, WrongKept
<1>8. QED
  BY <1>3, <1>4, <1>5, <1>6, <1>7 DEF CacheProgress, Cache!CacheStep

LEMMA WrongAreDeletedKept ==
  ASSUME IInv, [Next]_vars
  PROVE  WrongAreDeleted'
<1> USE DEF IInv, TypeOK
<1>1. ASSUME NEW c \in Clients, CacheProgress(c) \/ Changing(c) PROVE WrongAreDeleted'
  BY <1>1, WrongByProgress, ChangesCovered
<1>2. ASSUME NEW c \in Clients, StartLoad(c) \/ Lookup(c) \/ ReadDatabase(c) \/ SetCache(c)
      PROVE  WrongAreDeleted'
  <2>1. UNCHANGED <<store, index, tables, behind>>
    BY <1>2 DEF StartLoad, Lookup, Cache!Get, ReadDatabase, SetCache, Cache!StartSet, cacheVars,
       dbVars
  <2>2. req[c].pc \notin {"invalidate", "deleteLinks", "deleteUser"}
    BY <1>2 DEF StartLoad, Lookup, SetCache, ReadDatabase, ReadSuperUser, ReadSuperLinks,
                ReadSuperRoles, ReadUser, ReadUserAcl, ReadLinks, ReadRoleAcls, Waiting
  <2>3. \A k \in Scopes: ~WillDelete(c, k)
    BY <2>2 DEF WillDelete, Deletes
  <2>4. QED
    BY <1>2, <2>1, <2>3, OthersKept, WrongStable, WrongKept
<1>3. ASSUME NEW c \in Clients, Invalidate(c) PROVE WrongAreDeleted'
  <2>1. UNCHANGED <<store, index, tables, behind>>
    BY <1>3 DEF Invalidate, Cache!DeleteByTags, cacheVars, dbVars
  <2>2. ASSUME NEW k \in Scopes, WillDelete(c, k) PROVE WillDelete(c, k)'
    <3>1. req[c].pc = "invalidate" /\ req[c].tag \in TagsOf(k) /\ req[c].passes = 2
      BY <1>3, <2>2 DEF Invalidate, WillDelete, Deletes, Cache!Idle
    <3>2. /\ req'[c] = Invalidation(req[c].tag, req[c].passes - 1)
          /\ op'[c] = [step |-> "collect", tags |-> {req[c].tag}, found |-> {}]
      BY <1>3, <3>1 DEF Invalidate, Cache!DeleteByTags, Cache!CacheTypeOK
    <3>3. /\ req'[c].pc = "invalidate" /\ req'[c].tag = req[c].tag
          /\ op'[c].step = "collect" /\ op'[c].tags = {req[c].tag}
      BY <3>2 DEF Invalidation
    <3>4. QED
      BY <3>1, <3>3 DEF WillDelete, Deletes, TagsOf
  <2>3. QED
    BY <1>3, <2>1, <2>2, OthersKept, WrongStable, WrongKept
<1>4. ASSUME NEW c \in Clients, Kill(c) PROVE WrongAreDeleted'
  <2>1. UNCHANGED <<store, index, tables>> /\ behind \subseteq behind'
    BY <1>4 DEF Kill, Cache!CacheKill, dbVars
  <2>2. \A k \in Scopes: WillDelete(c, k) => k \in behind'
    BY <1>4 DEF Kill, Pending, WillDelete, Deletes
  <2>3. \A k \in Scopes: Wrong(k)' => ~WillDelete(c, k)
    BY <2>2 DEF Wrong
  <2>4. QED
    BY <1>4, <2>1, <2>3, OthersKept, WrongStable, WrongKept
<1>5. ASSUME NEW c \in Clients, NEW r \in Roles, PrepareRole(c, r) PROVE WrongAreDeleted'
  <2>1. UNCHANGED <<store, index, op, tables, behind>> /\ \A b \in Clients \ {c}: req'[b] = req[b]
    BY <1>5 DEF PrepareRole, Writing, cacheVars, dbVars
  <2>2. \A k \in Scopes: ~WillDelete(c, k)
    BY <1>5 DEF PrepareRole, Writing, Waiting, WillDelete, Deletes
  <2>3. QED
    BY <2>1, <2>2, WrongStable, WrongKept
<1>6. ASSUME NEW j \in Scopes, Passing(j) PROVE WrongAreDeleted'
  <2>1. UNCHANGED <<op, req, index, tables>> /\ behind' = behind \ {j}
    BY <1>6 DEF Passing, Cache!Expire, Cache!Evict, dbVars
  <2>2. \A k \in Scopes \ {j}: store'[k] = store[k]
    BY <1>6 DEF Passing, Cache!Expire, Cache!Evict, Cache!CacheTypeOK
  <2>3. ~Cache!Live(j)'
    BY <1>6, Expiring DEF Passing, Cache!Evict, Cache!Live, Cache!Present, Cache!CacheTypeOK
  <2>4. \A k \in Scopes: Wrong(k)' => Wrong(k)
    BY <2>1, <2>2, <2>3, AnswerStable DEF Wrong, Cache!Live, Cache!Indexed, Cache!Present
  <2>5. QED
    BY <2>1, <2>4 DEF WrongAreDeleted, WillDelete, Deletes, TagsOf
<1>7. CASE UNCHANGED vars
  <2>1. UNCHANGED <<store, index, op, req, tables, behind>>
    BY <1>7 DEF vars, cacheVars, dbVars
  <2>2. QED
    BY <2>1, WrongStable DEF WrongAreDeleted, WillDelete, Deletes, TagsOf
<1>8. QED
  BY <1>1, <1>2, <1>3, <1>4, <1>5, <1>6, <1>7, NextCases

---------------------------------------------------------------------------
(* The invariant and what follows.                                         *)

LEMMA InitInv == Init => IInv
<1> SUFFICES ASSUME Init PROVE IInv
  OBVIOUS
<1>1. /\ \A k \in Scopes: ~Cache!Present(k)
      /\ \A c \in Clients: req[c].pc = "idle" /\ op[c].step = "idle"
  BY DEF Init, Cache!CacheInit, Cache!Present, Waiting, Cache!Idle
<1>2. SetsMatch
  BY <1>1 DEF SetsMatch, Storing
<1>3. EntriesTagged /\ WrongAreDeleted
  BY <1>1 DEF EntriesTagged, WrongAreDeleted, Wrong, Cache!Live
<1>4. LoadsAgree
  BY <1>1 DEF LoadsAgree, Loading, LoadSteps
<1>5. QED
  BY <1>2, <1>3, <1>4, InitType, InitCovers DEF IInv

LEMMA NextInv == IInv /\ [Next]_vars => IInv'
BY NextType, SetsMatchKept, EntriesTaggedKept, IndexCoversKept, LoadsAgreeKept,
   WrongAreDeletedKept DEF IInv

\* An entry that is served, is not hidden from the index, and is not named in
\* behind, is either current or the next to be deleted.
LEMMA InvCurrent == IInv => CachedIsCurrent
<1> SUFFICES ASSUME IInv, NEW k \in Scopes, Cache!Live(k), ~Cache!Hidden(k), k \notin behind,
                    \A c \in Clients: ~Pending(c, k)
             PROVE  store[k].value = Answer(k)
  BY DEF CachedIsCurrent
<1>1. Cache!Indexed(k)
  BY DEF IInv, IndexCovers, Cache!IndexCovers
<1>2. \A c \in Clients: ~WillDelete(c, k)
  BY DEF Pending, WillDelete, Deletes
<1>3. QED
  BY <1>1, <1>2 DEF IInv, WrongAreDeleted, Wrong

\* loadAcl answers from the cache what it would answer from the database,
\* whatever requests, kills and expirations are interleaved, except for the
\* keys CachedIsCurrent names (rbacService.ts and its callers).
THEOREM CachedAnswersCurrent == Spec => []CachedIsCurrent
BY InitInv, NextInv, InvCurrent, PTL DEF Spec

=============================================================================
