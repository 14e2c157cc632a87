------------------------------ MODULE RbacCache ------------------------------
(***************************************************************************)
(* Cached access control lists: RbacService.loadAcl                        *)
(* (core auth/services/rbacService.ts) over the Redis cache, with the      *)
(* requests that change what it reads: the ACL routes (auth/api/users/acl, *)
(* auth/api/roles/acl) and the commands of users and roles                 *)
(* (auth/commands/users.ts, roles.ts).  Every await is a step; requests of *)
(* several processes interleave, and a process may be killed.              *)
(***************************************************************************)
EXTENDS Naturals, FiniteSets

CONSTANTS
  Clients,     \* requests served at the same time
  Users, Tenants, Roles, Features,
  Acls,        \* the ACLs a request may write and an answer may be
  Seeded,      \* those a role may have when the behaviour starts
  NoTenant,    \* the tenant of a role that belongs to none
  All,         \* the tag 'rbac:all'
  NoEntry,     \* absent cache entry
  NoAcl,       \* the user has no ACL of their own in the tenant
  Crashes,     \* whether a process may be killed
  MaxWrites    \* bound on the changes of permissions

\* What several roles grant together is an ACL again.
Together(acls) == [isSuperAdmin |-> \E a \in acls: a.isSuperAdmin,
                   features |-> UNION {a.features : a \in acls}]

ASSUME AclsAssumption ==
  /\ Acls \subseteq [isSuperAdmin: BOOLEAN, features: SUBSET Features]
  /\ [isSuperAdmin |-> TRUE, features |-> Features] \in Acls
  /\ \A acls \in SUBSET Acls: Together(acls) \in Acls
  /\ Seeded \subseteq Acls

ASSUME WritesAssumption == MaxWrites \in Nat

VARIABLES
  store, index, op, orphans,   \* the cache (RedisCache)
  users,       \* users that exist
  userAcl,     \* the UserAcl row of each user and tenant, or NoAcl
  roleTenant,  \* the tenant of each role (Role.tenantId)
  roleAcl,     \* the RoleAcl rows of each role and tenant
  links,       \* the roles of each user (UserRole)
  logged,      \* per role, the snapshot in the log entry of its last update
  req,         \* what each request is doing
  writes,      \* number of changes so far (bounded by MaxWrites)
  behind       \* history: keys whose entry the code leaves out of date

\* What loadAcl reads.
tables == <<users, userAcl, roleTenant, roleAcl, links>>
dbVars == <<tables, logged>>

EmptyAcl == [isSuperAdmin |-> FALSE, features |-> {}]
SuperAcl == [isSuperAdmin |-> TRUE, features |-> Features]

\* getCacheKey: one entry per user and scope.
Scopes == Users \X Tenants

\* setCache: the tags of an entry.
TagsOf(k) == {k[1], k[2], All}

Cache == INSTANCE RedisCache WITH
           Keys <- Scopes, Tags <- Users \cup Tenants \cup {All}, Values <- Acls

cacheVars == <<store, index, op, orphans>>
vars == <<cacheVars, dbVars, req, writes, behind>>

---------------------------------------------------------------------------
(* The answer loadAcl gives when nothing else happens: a super admin in    *)
(* any tenant is one everywhere; the user's own ACL replaces the roles'.   *)

SuperByUser(u) == \E t \in Tenants: userAcl[u][t] # NoAcl /\ userAcl[u][t].isSuperAdmin

SuperByRole(rs) == \E r \in rs, t \in Tenants: \E acl \in roleAcl[r][t]: acl.isSuperAdmin

Granted(rs, t) == Together(UNION {roleAcl[r][t] : r \in rs})

RolesIn(u, t) == {r \in links[u] : roleTenant[r] = t}

Answer(k) ==
  LET u == k[1]  t == k[2] IN
    IF SuperByUser(u) \/ SuperByRole(links[u]) THEN SuperAcl
    ELSE IF u \notin users THEN EmptyAcl
    ELSE IF userAcl[u][t] # NoAcl THEN userAcl[u][t]
    ELSE Granted(RolesIn(u, t), t)

---------------------------------------------------------------------------
Waiting == [pc |-> "idle"]

LoadSteps == {"lookup", "superUser", "superLinks", "superRoles", "user", "userAcl",
              "links", "roleAcls", "store", "stored"}

\* A request in loadAcl: what it looks up, the roles it has found, the answer,
\* and whether a change has overtaken its reads.
Loads == [pc: LoadSteps, key: Scopes, roles: SUBSET Roles, raced: BOOLEAN, acl: Acls]

\* A request that deletes a user; one that has a tag to invalidate.
Deletions == [pc: {"deleteLinks", "deleteUser"}, user: Users]
Invalidations == [pc: {"invalidate"}, tag: Users \cup Tenants, passes: 0..2]

\* A role before an update: its tenant and its ACL rows.
Snapshots == [tenant: Tenants \cup {NoTenant}, rows: [Tenants -> SUBSET Acls]]

\* A request that updates a role, or that undoes an update.
RoleUpdates == [pc: {"updateRole", "deleteAcls", "createAcls"}, role: Roles, before: Snapshots]

Requests == {Waiting} \cup Loads \cup Deletions \cup Invalidations \cup RoleUpdates

TypeOK ==
  /\ Cache!CacheTypeOK
  /\ users \in SUBSET Users
  /\ userAcl \in [Users -> [Tenants -> Acls \cup {NoAcl}]]
  /\ roleTenant \in [Roles -> Tenants \cup {NoTenant}]
  /\ roleAcl \in [Roles -> [Tenants -> SUBSET Acls]]
  /\ links \in [Users -> SUBSET Roles]
  /\ logged \in [Roles -> SUBSET Snapshots]
  /\ req \in [Clients -> Requests]
  /\ writes \in 0..MaxWrites
  /\ behind \in SUBSET Scopes

Init ==
  /\ Cache!CacheInit
  /\ users = Users
  /\ userAcl = [u \in Users |-> [t \in Tenants |-> NoAcl]]
  /\ roleTenant \in [Roles -> Tenants \cup {NoTenant}]
  /\ roleAcl \in [Roles -> [Tenants -> {{}} \cup {{acl} : acl \in Seeded}]]
  /\ links \in [Users -> SUBSET Roles]
  /\ logged = [r \in Roles |-> {}]
  /\ req = [c \in Clients |-> Waiting]
  /\ writes = 0
  /\ behind = {}

---------------------------------------------------------------------------
(* loadAcl                                                                 *)

Loading(c) == req[c].pc \in LoadSteps

GoOn(c, pc, rs, acl) ==
  req' = [req EXCEPT ![c] = [pc |-> pc, key |-> req[c].key, roles |-> rs,
                             raced |-> req[c].raced, acl |-> acl]]

Go(c, pc) == GoOn(c, pc, req[c].roles, req[c].acl)

\* The next read goes on with the roles found.
GoWith(c, pc, rs) == GoOn(c, pc, rs, req[c].acl)

\* The result is known: setCache is next.
Resolve(c, acl) == GoOn(c, "store", {}, acl)

StartLoad(c) ==
  /\ req[c] = Waiting
  /\ \E k \in Scopes:
       req' = [req EXCEPT ![c] = [pc |-> "lookup", key |-> k, roles |-> {},
                                  raced |-> FALSE, acl |-> EmptyAcl]]
  /\ UNCHANGED <<cacheVars, dbVars, writes, behind>>

\* getFromCache: a hit answers the request.
Lookup(c) ==
  /\ req[c].pc = "lookup"
  /\ Cache!Get(c, req[c].key)
  /\ IF Cache!Live(req[c].key)
     THEN req' = [req EXCEPT ![c] = Waiting]
     ELSE Go(c, "superUser")
  /\ UNCHANGED <<dbVars, writes, behind>>

\* isGlobalSuperAdmin: the user's own ACLs, then the roles of every tenant.
ReadSuperUser(c) ==
  /\ req[c].pc = "superUser" /\ op[c] = Cache!Idle
  /\ IF SuperByUser(req[c].key[1])
     THEN Resolve(c, SuperAcl)
     ELSE Go(c, "superLinks")

ReadSuperLinks(c) ==
  /\ req[c].pc = "superLinks"
  /\ LET rs == links[req[c].key[1]] IN
       GoWith(c, IF rs = {} THEN "user" ELSE "superRoles", rs)

ReadSuperRoles(c) ==
  /\ req[c].pc = "superRoles"
  /\ IF SuperByRole(req[c].roles)
     THEN Resolve(c, SuperAcl)
     ELSE GoWith(c, "user", {})

ReadUser(c) ==
  /\ req[c].pc = "user"
  /\ IF req[c].key[1] \in users
     THEN Go(c, "userAcl")
     ELSE Resolve(c, EmptyAcl)

\* The absent row of a user without an ACL of their own is the answer.
ReadUserAcl_NoFallback(c) ==
  /\ req[c].pc = "userAcl"
  /\ Resolve(c, userAcl[req[c].key[1]][req[c].key[2]])

ReadUserAcl(c) ==
  /\ req[c].pc = "userAcl"
  /\ LET own == userAcl[req[c].key[1]][req[c].key[2]] IN
       IF own # NoAcl THEN Resolve(c, own) ELSE Go(c, "links")

ReadLinks(c) ==
  /\ req[c].pc = "links"
  /\ LET rs == RolesIn(req[c].key[1], req[c].key[2]) IN
       IF rs = {} THEN Resolve(c, EmptyAcl) ELSE GoWith(c, "roleAcls", rs)

ReadRoleAcls(c) ==
  /\ req[c].pc = "roleAcls"
  /\ Resolve(c, Granted(req[c].roles, req[c].key[2]))

ReadDatabase(c) ==
  /\ \/ ReadSuperUser(c) \/ ReadSuperLinks(c) \/ ReadSuperRoles(c)
     \/ ReadUser(c) \/ ReadUserAcl(c) \/ ReadLinks(c) \/ ReadRoleAcls(c)
  /\ UNCHANGED <<cacheVars, dbVars, writes, behind>>

\* The entries of loadAcl live for cacheTtlMs.
AclTtl_Missing == FALSE
AclTtl == TRUE

SetCache(c) ==
  /\ req[c].pc = "store"
  /\ Cache!StartSet(c, req[c].key, req[c].acl, TagsOf(req[c].key), AclTtl)
  /\ Go(c, "stored")
  /\ UNCHANGED <<dbVars, writes, behind>>

\* One round trip of a cache operation under way; the last one of set and of
\* an invalidation lets the request go on.
CacheProgress(c) ==
  /\ Cache!CacheStep(c)
  /\ IF op[c].step = "setStore"
     THEN /\ behind' = IF req[c].raced THEN behind \cup {op[c].key}
                       ELSE behind \ {op[c].key}
          /\ req' = [req EXCEPT ![c] = Waiting]
     ELSE /\ behind' = IF op[c].step = "drop" THEN behind \ {op[c].key} ELSE behind
          /\ UNCHANGED req
  /\ UNCHANGED <<dbVars, writes>>

---------------------------------------------------------------------------
(* Changes.  Each commits first and deletes the entries of a tag after.    *)

\* A fill that has read something before this change may store an answer of
\* before it, after the invalidation.
Racing(c) == Loading(c) /\ req[c].pc \notin {"lookup", "superUser"}

Overtaken(r) ==
  [pc |-> r.pc, key |-> r.key, roles |-> r.roles, raced |-> TRUE, acl |-> r.acl]

RaceFills(c, next) ==
  req' = [b \in Clients |-> IF b = c THEN next
                           ELSE IF Racing(b) /\ tables' # tables THEN Overtaken(req[b])
                           ELSE req[b]]

\* Keys whose answer this change alters.
Altered == {k \in Scopes : Answer(k)' # Answer(k)}

\* invalidateUserCache, invalidateTenantCache: every caller follows the
\* service's deleteByTags with a deleteByTags of its own.
Invalidation(tag, passes) == [pc |-> "invalidate", tag |-> tag, passes |-> passes]
Invalidating(tag) == Invalidation(tag, 2)

Writing(c) ==
  /\ req[c] = Waiting
  /\ writes < MaxWrites
  /\ writes' = writes + 1
  /\ UNCHANGED cacheVars

\* PUT /api/auth/users/acl: an ACL that grants nothing is removed.
PutUserAcl(c, u, t, acl) ==
  /\ Writing(c)
  /\ u \in users
  /\ userAcl' = [userAcl EXCEPT ![u][t] = IF acl = EmptyAcl THEN NoAcl ELSE acl]
  /\ UNCHANGED <<users, roleTenant, roleAcl, links, logged, behind>>
  /\ RaceFills(c, Invalidating(u))

\* PUT /api/auth/roles/acl for a tenant: the row found, if any, is the one
\* written, and the entries of that tenant are deleted.  A role that makes its
\* users super admins does so in every tenant; their other entries stay.
PutRoleAcl(c, r, t, acl) ==
  /\ Writing(c)
  /\ \E found \in SUBSET roleAcl[r][t]:
       /\ IF roleAcl[r][t] = {} THEN found = {} ELSE \E a \in found: found = {a}
       /\ roleAcl' = [roleAcl EXCEPT ![r][t] = (@ \ found) \cup {acl}]
  /\ UNCHANGED <<users, userAcl, roleTenant, links, logged>>
  /\ RaceFills(c, Invalidating(t))
  /\ behind' = behind \cup {k \in Altered : k[2] # t}

\* auth.users.update with roles: syncUserRoles, then the cache.
SyncUserRoles(c, u, rs) ==
  /\ Writing(c)
  /\ u \in users
  /\ links' = [links EXCEPT ![u] = rs]
  /\ UNCHANGED <<users, userAcl, roleTenant, roleAcl, logged, behind>>

UpdateUser_NotInvalidated(c, u, rs) == SyncUserRoles(c, u, rs) /\ RaceFills(c, Waiting)

UpdateUser(c, u, rs) == SyncUserRoles(c, u, rs) /\ RaceFills(c, Invalidating(u))

\* auth.users.delete: the ACLs, the roles and the user go one statement after
\* the other, and the cache after all of them.
DeleteUser(c, u) ==
  /\ Writing(c)
  /\ u \in users
  /\ userAcl' = [userAcl EXCEPT ![u] = [t \in Tenants |-> NoAcl]]
  /\ UNCHANGED <<users, roleTenant, roleAcl, links, logged, behind>>
  /\ RaceFills(c, [pc |-> "deleteLinks", user |-> u])

DeleteUserLinks(c) ==
  /\ req[c].pc = "deleteLinks"
  /\ links' = [links EXCEPT ![req[c].user] = {}]
  /\ UNCHANGED <<cacheVars, users, userAcl, roleTenant, roleAcl, logged, writes, behind>>
  /\ RaceFills(c, [pc |-> "deleteUser", user |-> req[c].user])

\* A user whom another request has deleted meanwhile is answered with 404, and
\* the cache is left as it is.
DeleteUserRow(c) ==
  /\ req[c].pc = "deleteUser"
  /\ users' = users \ {req[c].user}
  /\ UNCHANGED <<cacheVars, userAcl, roleTenant, roleAcl, links, logged, writes>>
  /\ LET u == req[c].user IN
       /\ RaceFills(c, IF u \in users THEN Invalidating(u) ELSE Waiting)
       /\ behind' = IF u \in users THEN behind ELSE behind \cup {k \in Scopes : k[1] = u}

RoleUpdate(pc, r, before) == [pc |-> pc, role |-> r, before |-> before]

\* auth.roles.update reads the role and its ACLs for the log first.
PrepareRole(c, r) ==
  /\ Writing(c)
  /\ req' = [req EXCEPT ![c] =
                RoleUpdate("updateRole", r, [tenant |-> roleTenant[r], rows |-> roleAcl[r]])]
  /\ UNCHANGED <<dbVars, behind>>

\* It may give the role another tenant, or none, and leaves the cache as it is.
UpdateRole(c, t) ==
  /\ req[c].pc = "updateRole"
  /\ roleTenant' = [roleTenant EXCEPT ![req[c].role] = t]
  /\ logged' = [logged EXCEPT ![req[c].role] = {req[c].before}]
  /\ UNCHANGED <<cacheVars, users, userAcl, roleAcl, links, writes>>
  /\ RaceFills(c, Waiting)
  /\ behind' = behind \cup Altered

\* Its undo writes the logged tenant back; restoreRoleAcls deletes the ACL rows
\* of the role in one statement and creates the logged ones in the next flush.
\* The cache is left as it is.
UndoUpdateRole(c, r) ==
  /\ Writing(c)
  /\ \E before \in logged[r]:
       /\ roleTenant' = [roleTenant EXCEPT ![r] = before.tenant]
       /\ UNCHANGED <<users, userAcl, roleAcl, links>>
       /\ RaceFills(c, RoleUpdate("deleteAcls", r, before))
  /\ logged' = [logged EXCEPT ![r] = {}]
  /\ behind' = behind \cup Altered

DeleteRoleAcls(c) ==
  /\ req[c].pc = "deleteAcls"
  /\ roleAcl' = [roleAcl EXCEPT ![req[c].role] = [t \in Tenants |-> {}]]
  /\ UNCHANGED <<cacheVars, users, userAcl, roleTenant, links, logged, writes>>
  /\ RaceFills(c, RoleUpdate("createAcls", req[c].role, req[c].before))
  /\ behind' = behind \cup Altered

CreateRoleAcls(c) ==
  /\ req[c].pc = "createAcls"
  /\ LET r == req[c].role IN
       roleAcl' = [roleAcl EXCEPT ![r] = [t \in Tenants |-> @[t] \cup req[c].before.rows[t]]]
  /\ UNCHANGED <<cacheVars, users, userAcl, roleTenant, links, logged, writes>>
  /\ RaceFills(c, Waiting)
  /\ behind' = behind \cup Altered

Invalidate(c) ==
  /\ req[c].pc = "invalidate" /\ op[c] = Cache!Idle
  /\ IF req[c].passes > 0
     THEN /\ Cache!DeleteByTags(c, {req[c].tag})
          /\ req' = [req EXCEPT ![c] = Invalidation(req[c].tag, req[c].passes - 1)]
     ELSE /\ req' = [req EXCEPT ![c] = Waiting]
          /\ UNCHANGED cacheVars
  /\ UNCHANGED <<dbVars, writes, behind>>

---------------------------------------------------------------------------
(* A process is killed: its request is never finished.                     *)

Pending(c, k) ==
  \/ req[c].pc = "invalidate" /\ req[c].tag \in TagsOf(k)
  \/ req[c].pc \in {"deleteLinks", "deleteUser"} /\ req[c].user = k[1]

Kill(c) ==
  /\ Crashes /\ req[c] # Waiting
  /\ Cache!CacheKill(c)
  /\ req' = [req EXCEPT ![c] = Waiting]
  /\ behind' = behind \cup {k \in Scopes : Pending(c, k)}
  /\ UNCHANGED <<dbVars, writes>>

Passing(k) ==
  /\ Cache!Expire(k) \/ Cache!Evict(k)
  /\ behind' = behind \ {k}
  /\ UNCHANGED <<dbVars, req, writes>>

Next ==
  \/ \E c \in Clients:
       \/ StartLoad(c) \/ Lookup(c) \/ ReadDatabase(c) \/ SetCache(c)
       \/ CacheProgress(c) \/ Invalidate(c) \/ Kill(c)
       \/ DeleteUserLinks(c) \/ DeleteUserRow(c)
       \/ DeleteRoleAcls(c) \/ CreateRoleAcls(c)
       \/ \E t \in Tenants \cup {NoTenant}: UpdateRole(c, t)
       \/ \E u \in Users:
            \/ DeleteUser(c, u)
            \/ \E rs \in SUBSET Roles: UpdateUser(c, u, rs)
            \/ \E t \in Tenants, acl \in Acls: PutUserAcl(c, u, t, acl)
       \/ \E r \in Roles:
            \/ PrepareRole(c, r) \/ UndoUpdateRole(c, r)
            \/ \E t \in Tenants, acl \in Acls: PutRoleAcl(c, r, t, acl)
  \/ \E k \in Scopes: Passing(k)

\* Time goes on: an entry that stays expires and is removed.
Spec == Init /\ [][Next]_vars /\ \A k \in Scopes: WF_vars(Passing(k))

---------------------------------------------------------------------------
(* Properties                                                              *)

(* Every entry can be found through each of its tags, unless a set of the  *)
(* same key has just taken it out (redis.ts set, deleteKey, deleteByTags). *)
IndexCovers == Cache!IndexCovers

(* An entry that is served is what the database says, unless a change is   *)
(* still to be followed by its invalidation, or the entry was filled from  *)
(* reads that a change overtook, or is hidden from the index by another    *)
(* fill, or comes after a change the code does not announce to it          *)
(* (rbacService.ts loadAcl and its callers).                               *)
CachedIsCurrent ==
  \A k \in Scopes:
    (/\ Cache!Live(k) /\ ~Cache!Hidden(k) /\ k \notin behind
     /\ \A c \in Clients: ~Pending(c, k))
      => store[k].value = Answer(k)

(* A wrong answer is not served for ever: the entry expires or becomes     *)
(* right (cacheTtlMs in rbacService.ts, setex in redis.ts).                *)
Outdated(k) == Cache!Live(k) /\ store[k].value # Answer(k)
StaleEnds == \A k \in Scopes: Outdated(k) ~> ~Outdated(k)

=============================================================================
