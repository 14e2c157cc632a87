----------------------------- MODULE RedisCache -----------------------------
(***************************************************************************)
(* The Redis strategy of @open-mercato/cache                               *)
(* (packages/cache/src/strategies/redis.ts) behind the tenant wrapper of   *)
(* service.ts, for one cache tenant.  An entry is a Redis string; every    *)
(* tag is a Redis set of keys.  The two are kept together by the clients,  *)
(* with several round trips for one operation; each action below is one    *)
(* round trip (a command, or a pipeline, which is one batch).              *)
(***************************************************************************)
EXTENDS FiniteSets, Naturals

CONSTANTS
  Clients,   \* processes that share the Redis server
  Keys,      \* cache keys
  Tags,      \* tags an entry may carry
  Values,    \* cached values
  NoEntry    \* the key is absent

VARIABLES
  store,     \* the entry of each key, or NoEntry
  index,     \* the set of keys of each tag
  op,        \* the cache operation each client is in the middle of
  orphans    \* history: keys left out of the index by a process killed in set

cacheVars == <<store, index, op, orphans>>

Entries == [value: Values, tags: SUBSET Tags, age: {"live", "expired", "lasting"}]

Idle == [step |-> "idle"]

Operations ==
  {Idle}
  \cup [step: {"setRead"}, key: Keys, entry: Entries]
  \cup [step: {"setUnlink"}, key: Keys, entry: Entries, old: SUBSET Tags]
  \cup [step: {"setStore"}, key: Keys, entry: Entries, unlinked: BOOLEAN]
  \cup [step: {"collect"}, tags: SUBSET Tags, found: SUBSET Keys]
  \cup [step: {"delete"}, found: SUBSET Keys]
  \cup [step: {"drop"}, key: Keys, tags: SUBSET Tags, found: SUBSET Keys]

CacheTypeOK ==
  /\ store \in [Keys -> Entries \cup {NoEntry}]
  /\ index \in [Tags -> SUBSET Keys]
  /\ op \in [Clients -> Operations]
  /\ orphans \in SUBSET Keys

CacheInit ==
  /\ store = [k \in Keys |-> NoEntry]
  /\ index = [g \in Tags |-> {}]
  /\ op = [c \in Clients |-> Idle]
  /\ orphans = {}

---------------------------------------------------------------------------
(* What a reader of a key sees.                                            *)

Present(k) == store[k] # NoEntry

\* get returns the value only of an entry that has not expired.
Live(k) == Present(k) /\ store[k].age # "expired"

Unlinked(k, tags) == [g \in Tags |-> IF g \in tags THEN index[g] \ {k} ELSE index[g]]

Linked(k, tags) == [g \in Tags |-> IF g \in tags THEN index[g] \cup {k} ELSE index[g]]

---------------------------------------------------------------------------
(* get: one round trip; an expired entry is first deleted with deleteKey.  *)

Get(c, k) ==
  /\ op[c] = Idle
  /\ op' = IF Present(k) /\ ~Live(k)
           THEN [op EXCEPT ![c] = [step |-> "delete", found |-> {k}]]
           ELSE op
  /\ UNCHANGED <<store, index, orphans>>

---------------------------------------------------------------------------
(* set: read the old entry, take the key out of the old entry's tags,      *)
(* store the entry and put the key into its own tags.                      *)

StartSet(c, k, v, tags, ttl) ==
  /\ op[c] = Idle
  /\ op' = [op EXCEPT ![c] =
              [step |-> "setRead", key |-> k,
               entry |-> [value |-> v, tags |-> tags,
                          age |-> IF ttl THEN "live" ELSE "lasting"]]]
  /\ UNCHANGED <<store, index, orphans>>

SetRead(c) ==
  /\ op[c].step = "setRead"
  /\ LET k == op[c].key IN
       op' = [op EXCEPT ![c] =
                IF Present(k)
                THEN [step |-> "setUnlink", key |-> k, entry |-> op[c].entry,
                      old |-> store[k].tags]
                ELSE [step |-> "setStore", key |-> k, entry |-> op[c].entry,
                      unlinked |-> FALSE]]
  /\ UNCHANGED <<store, index, orphans>>

SetUnlink(c) ==
  /\ op[c].step = "setUnlink"
  /\ index' = Unlinked(op[c].key, op[c].old)
  /\ op' = [op EXCEPT ![c] = [step |-> "setStore", key |-> op[c].key,
                              entry |-> op[c].entry, unlinked |-> TRUE]]
  /\ UNCHANGED <<store, orphans>>

\* The pipeline stores the entry and forgets to put the key into the tags.
SetStore_NoIndex(c) ==
  /\ op[c].step = "setStore"
  /\ store' = [store EXCEPT ![op[c].key] = op[c].entry]
  /\ op' = [op EXCEPT ![c] = Idle]
  /\ orphans' = orphans \ {op[c].key}
  /\ UNCHANGED index

SetStore(c) ==
  /\ op[c].step = "setStore"
  /\ store' = [store EXCEPT ![op[c].key] = op[c].entry]
  /\ index' = Linked(op[c].key, op[c].entry.tags)
  /\ op' = [op EXCEPT ![c] = Idle]
  /\ orphans' = orphans \ {op[c].key}

---------------------------------------------------------------------------
(* deleteByTags: the members of each tag, then deleteKey for every key     *)
(* found: read the entry, then take it out of its tags and delete it.      *)
(* deleteKey returns early when the entry is gone, and leaves the key in   *)
(* the tags.                                                               *)

DeleteByTags(c, tags) ==
  /\ op[c] = Idle
  /\ op' = [op EXCEPT ![c] = [step |-> "collect", tags |-> tags, found |-> {}]]
  /\ UNCHANGED <<store, index, orphans>>

Collect(c) ==
  /\ op[c].step = "collect"
  /\ \E g \in op[c].tags:
       LET found == op[c].found \cup index[g] IN
         op' = [op EXCEPT ![c] =
                  IF op[c].tags # {g}
                  THEN [step |-> "collect", tags |-> op[c].tags \ {g}, found |-> found]
                  ELSE IF found # {} THEN [step |-> "delete", found |-> found]
                  ELSE Idle]
  /\ UNCHANGED <<store, index, orphans>>

AfterKey(rest) == IF rest = {} THEN Idle ELSE [step |-> "delete", found |-> rest]

DeleteRead(c) ==
  /\ op[c].step = "delete"
  /\ \E k \in op[c].found:
       op' = [op EXCEPT ![c] =
                IF Present(k)
                THEN [step |-> "drop", key |-> k, tags |-> store[k].tags,
                      found |-> op[c].found \ {k}]
                ELSE AfterKey(op[c].found \ {k})]
  /\ UNCHANGED <<store, index, orphans>>

DeleteDrop(c) ==
  /\ op[c].step = "drop"
  /\ index' = Unlinked(op[c].key, op[c].tags)
  /\ store' = [store EXCEPT ![op[c].key] = NoEntry]
  /\ op' = [op EXCEPT ![c] = AfterKey(op[c].found)]
  /\ orphans' = orphans \ {op[c].key}

CacheStep(c) ==
  SetRead(c) \/ SetUnlink(c) \/ SetStore(c) \/ Collect(c) \/ DeleteRead(c) \/ DeleteDrop(c)

---------------------------------------------------------------------------
(* Time: an entry passes expiresAt, and Redis removes it at the end of the *)
(* last second of its TTL.  Redis knows nothing of the tags.               *)

Expire(k) ==
  /\ Present(k) /\ store[k].age = "live"
  /\ store' = [store EXCEPT ![k].age = "expired"]
  /\ UNCHANGED <<index, op, orphans>>

Evict(k) ==
  /\ Present(k) /\ store[k].age = "expired"
  /\ store' = [store EXCEPT ![k] = NoEntry]
  /\ orphans' = orphans \ {k}
  /\ UNCHANGED <<index, op>>

---------------------------------------------------------------------------
(* A process is killed in the middle of an operation.                      *)

Indexed(k) == Present(k) => \A g \in store[k].tags: k \in index[g]

CacheKill(c) ==
  /\ op' = [op EXCEPT ![c] = Idle]
  /\ orphans' = IF op[c].step = "setStore" /\ ~Indexed(op[c].key)
                THEN orphans \cup {op[c].key} ELSE orphans
  /\ UNCHANGED <<store, index>>

\* A key that deleteByTags may miss although its entry is there: a set has
\* taken it out of the tags and has not stored its own entry yet.
Hidden(k) ==
  \/ k \in orphans
  \/ \E c \in Clients: op[c].step = "setStore" /\ op[c].key = k /\ op[c].unlinked

(* Every entry is in the index of each of its tags, so that deleteByTags   *)
(* reaches it, except while a set of the same key is between its two       *)
(* pipelines or was killed there (redis.ts, set, deleteKey).               *)
IndexCovers == \A k \in Keys: Indexed(k) \/ Hidden(k)

=============================================================================
