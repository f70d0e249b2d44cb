--------------------------- MODULE SemanticCache ---------------------------
(***************************************************************************)
(* cache.py: SemanticCache and @cached over the in-memory LRU, SQLite and  *)
(* Redis back-ends.  A call of a local back-end is atomic (its lock), and  *)
(* so is each Redis command; nothing is held from one to the next.         *)
(* Prompts with equal hashes are one key; one namespace, and values are    *)
(* told apart by the call that wrote them.                                 *)
(***************************************************************************)
EXTENDS Callers, FiniteSetsExt, SequencesExt

CONSTANTS
  Keys, Score,          \* prompts and their similarity, 0 to 100
  SimilarityThreshold, TtlSeconds, MaxSize,
  Tag,                  \* the tag of every write (cached(tags=...))
  MaxNow, MaxCacheCalls \* bounds: time and calls

ASSUME CacheAssumption ==
  /\ Keys # {} /\ Score \in [Keys \X Keys -> 0..100]
  /\ {SimilarityThreshold, TtlSeconds, MaxSize, MaxNow, MaxCacheCalls} \subseteq Nat

VARIABLES
  backend,      \* "memory" | "sqlite" | "redis", fixed by Init
  entries,      \* key -> entry
  order,        \* OrderedDict order of InMemoryBackend, oldest first
  tagIndex,     \* the Redis set of the tag, never shrunk
  cacheNow, cacheCalls,
  cachePc, op, began, found, toFetch, served, doomed   \* per thread

storeVars == <<entries, order, tagIndex>>
cacheVars == <<backend, storeVars, cacheNow, cacheCalls, cachePc, op, began, found,
               toFetch, served, doomed>>

NoEntry == [ver |-> 0]
Entry   == [ver : 1..MaxCacheCalls, key : Keys, created : 0..MaxNow, tags : SUBSET {Tag}]
CachePoints == {"idle", "lookup", "evict", "scan", "fetch", "sweep", "compute", "tag",
                "list", "remove", "removed", "clear"}
Ops     == [kind : {"get", "cached", "set", "invalidate"}, key : Keys, id : 0..MaxCacheCalls]

CacheTypeOK ==
  /\ backend \in {"memory", "sqlite", "redis"}
  /\ entries \in [Keys -> Entry \cup {NoEntry}]
  /\ order \in Seq(Keys) /\ tagIndex \subseteq Keys
  /\ cacheNow \in 0..MaxNow /\ cacheCalls \in 0..MaxCacheCalls
  /\ cachePc \in [Threads -> CachePoints]
  /\ op \in [Threads -> Ops] /\ began \in [Threads -> 0..MaxNow]
  /\ found \in [Threads -> SUBSET Entry] /\ toFetch \in [Threads -> SUBSET Keys]
  /\ served \in [Threads -> Entry \cup {NoEntry}]
  /\ doomed \in [Threads -> SUBSET (1..MaxCacheCalls)]

CacheInit ==
  /\ backend \in {"memory", "sqlite", "redis"}
  /\ entries = [k \in Keys |-> NoEntry] /\ order = <<>> /\ tagIndex = {}
  /\ cacheNow = 0 /\ cacheCalls = 0
  /\ cachePc = [t \in Threads |-> "idle"]
  /\ op = [t \in Threads |-> [kind |-> "get", key |-> CHOOSE k \in Keys : TRUE, id |-> 0]]
  /\ began = [t \in Threads |-> 0]
  /\ found = [t \in Threads |-> {}] /\ toFetch = [t \in Threads |-> {}]
  /\ served = [t \in Threads |-> NoEntry] /\ doomed = [t \in Threads |-> {}]

-----------------------------------------------------------------------------
(* The back-ends *)

Present == {k \in Keys : entries[k] # NoEntry}

(* CacheEntry.is_expired at time now; a TTL of 0 never expires.            *)
IsExpired(e, now) == TtlSeconds > 0 /\ now - e.created >= TtlSeconds

Touched(k) == IF backend = "memory" THEN Append(RemoveFirst(order, k), k) ELSE order

(* InMemoryBackend.set: replace, move to the end, evict from the front.    *)
Kept(seq) == IF MaxSize = 0 THEN seq ELSE SubSeq(seq, Max({1, Len(seq) - MaxSize + 1}), Len(seq))

Put(e) ==
  /\ order' = Kept(Touched(e.key))
  /\ entries' = [k \in Keys |->
                   IF k = e.key THEN e
                   ELSE IF backend = "memory" /\ ~Contains(order', k) THEN NoEntry
                   ELSE entries[k]]

Delete(k) ==
  /\ entries' = [entries EXCEPT ![k] = NoEntry]
  /\ order' = RemoveFirst(order, k)
  /\ UNCHANGED tagIndex

(* all_entries, and all_entries_with_tag: by the tags an entry carries, or *)
(* for Redis by an index that also lists overwritten and deleted keys.     *)
Listed(tagged) ==
  IF backend = "redis" /\ tagged THEN tagIndex
  ELSE {k \in Present : tagged => Tag \in entries[k].tags}

EntriesOf(keys) == {entries[k] : k \in keys \cap Present}

-----------------------------------------------------------------------------
(* SemanticCache.get and the wrapper of @cached                            *)

Call(t, kind, k) ==
  /\ cacheCalls < MaxCacheCalls /\ cacheCalls' = cacheCalls + 1
  /\ Moves(cachePc, t, "idle", CASE kind = "set" -> "compute" [] kind = "invalidate" -> "list"
                        [] OTHER -> "lookup")
  /\ op' = [op EXCEPT ![t] = [kind |-> kind, key |-> k, id |-> cacheCalls']]
  /\ began' = [began EXCEPT ![t] = cacheNow]
  /\ served' = [served EXCEPT ![t] = NoEntry]
  /\ doomed' = [doomed EXCEPT ![t] = {}]
  /\ UNCHANGED <<backend, storeVars, cacheNow, found, toFetch>>

(* A miss: get returns None, @cached calls the function.                   *)
AfterMiss(t) == IF op[t].kind = "cached" THEN "compute" ELSE "idle"

(* The exact match.  Mutant: its age is not looked at.                     *)
StaleHitNever(t, e) == FALSE
StaleHit(t, e)      == IsExpired(e, began[t])

Lookup(t) ==
  LET k == op[t].key
      e == entries[k] IN
  /\ cachePc[t] = "lookup"
  /\ order' = IF e = NoEntry THEN order ELSE Touched(k)
  /\ IF e = NoEntry
       THEN cachePc' = [cachePc EXCEPT ![t] = "scan"] /\ UNCHANGED <<found, served>>
     ELSE IF StaleHit(t, e)
       THEN /\ cachePc' = [cachePc EXCEPT ![t] = "evict"]
            /\ found' = [found EXCEPT ![t] = {e}] /\ UNCHANGED served
     ELSE /\ cachePc' = [cachePc EXCEPT ![t] = "idle"]
          /\ served' = [served EXCEPT ![t] = e] /\ UNCHANGED found
  /\ UNCHANGED <<backend, entries, tagIndex, cacheNow, cacheCalls, op, began,
                 toFetch, doomed>>

EvictExact(t) ==
  /\ Moves(cachePc, t, "evict", AfterMiss(t))
  /\ Delete(op[t].key)
  /\ found' = [found EXCEPT ![t] = {}]
  /\ UNCHANGED <<backend, cacheNow, cacheCalls, op, began, toFetch, served, doomed>>

(* all_entries: one call, or for Redis KEYS and a GET for each.            *)
Enumerate(t, from, done, tagged) ==
  LET keys == Listed(tagged) IN
  /\ cachePc[t] = from
  /\ IF backend = "redis"
       THEN /\ cachePc' = [cachePc EXCEPT ![t] = "fetch"]
            /\ toFetch' = [toFetch EXCEPT ![t] = keys]
            /\ found' = [found EXCEPT ![t] = {}]
       ELSE /\ cachePc' = [cachePc EXCEPT ![t] = done]
            /\ found' = [found EXCEPT ![t] = EntriesOf(keys)]
            /\ UNCHANGED toFetch
  /\ UNCHANGED <<backend, storeVars, cacheNow, cacheCalls, op, began, served>>

Scan(t) == Enumerate(t, "scan", "sweep", FALSE) /\ UNCHANGED doomed

FetchOne(t) ==
  /\ cachePc[t] = "fetch"
  /\ \E k \in toFetch[t] :
       /\ toFetch' = [toFetch EXCEPT ![t] = @ \ {k}]
       /\ found' = [found EXCEPT ![t] = @ \cup EntriesOf({k})]
  /\ UNCHANGED <<backend, storeVars, cacheNow, cacheCalls, cachePc, op, began,
                 served, doomed>>

FetchedAll(t) ==
  /\ cachePc[t] = "fetch" /\ toFetch[t] = {}
  /\ cachePc' = [cachePc EXCEPT ![t] = IF op[t].kind = "invalidate" THEN "remove" ELSE "sweep"]
  /\ UNCHANGED <<backend, storeVars, cacheNow, cacheCalls, op, began, found,
                 toFetch, served, doomed>>

(* The scan evicts the expired and remembers the best of the rest.         *)
Candidates(t) ==
  {e \in found[t] : e.key # op[t].key /\ ~IsExpired(e, began[t])}

Stale(t) == {e \in found[t] : e.key # op[t].key /\ IsExpired(e, began[t])}

SweepOne(t) ==
  /\ cachePc[t] = "sweep"
  /\ \E e \in Stale(t) :
       /\ Delete(e.key)
       /\ found' = [found EXCEPT ![t] = @ \ {e}]
  /\ UNCHANGED <<backend, cacheNow, cacheCalls, cachePc, op, began, toFetch,
                 served, doomed>>

Similar(t) ==
  {e \in Candidates(t) :
     /\ Score[<<op[t].key, e.key>>] >= Max({1, SimilarityThreshold})
     /\ \A f \in Candidates(t) : Score[<<op[t].key, f.key>>] <= Score[<<op[t].key, e.key>>]}

FinishGet(t) ==
  /\ cachePc[t] = "sweep" /\ Stale(t) = {}
  /\ IF Similar(t) = {}
       THEN cachePc' = [cachePc EXCEPT ![t] = AfterMiss(t)] /\ UNCHANGED served
       ELSE /\ cachePc' = [cachePc EXCEPT ![t] = "idle"]
            /\ \E e \in Similar(t) : served' = [served EXCEPT ![t] = e]
  /\ found' = [found EXCEPT ![t] = {}]
  /\ UNCHANGED <<backend, storeVars, cacheNow, cacheCalls, op, began, toFetch,
                 doomed>>

(* set(), after the wrapped function of @cached has returned.  Redis adds  *)
(* the key to the tag's set in a second command.                           *)
Store(t) ==
  /\ \E tags \in SUBSET {Tag} :
       /\ Moves(cachePc, t, "compute", IF backend = "redis" /\ tags # {} THEN "tag" ELSE "idle")
       /\ Put([ver |-> op[t].id, key |-> op[t].key, created |-> cacheNow, tags |-> tags])
  /\ UNCHANGED <<backend, tagIndex, cacheNow, cacheCalls, op, began, found, toFetch,
                 served, doomed>>

AddToTag(t) ==
  /\ Moves(cachePc, t, "tag", "idle")
  /\ tagIndex' = tagIndex \cup {op[t].key}
  /\ UNCHANGED <<backend, entries, order, cacheNow, cacheCalls, op, began, found,
                 toFetch, served, doomed>>

-----------------------------------------------------------------------------
(* invalidate_by_tag, invalidate_all, and the passing of time              *)

(* The entries some set() had returned for: what the caller asks to forget. *)
Settled == {e \in {entries[k] : k \in Present} :
              Tag \in e.tags /\ \A u \in Threads : ~(cachePc[u] = "tag" /\ op[u].key = e.key)}

ListTagged(t) ==
  /\ Enumerate(t, "list", "remove", TRUE)
  /\ doomed' = [doomed EXCEPT ![t] = {e.ver : e \in Settled}]

(* In the order the back-end listed them, which is its own.                *)
RemoveOne(t) ==
  /\ cachePc[t] = "remove"
  /\ \E e \in found[t] :
       /\ Delete(e.key)
       /\ found' = [found EXCEPT ![t] = @ \ {e}]
  /\ UNCHANGED <<backend, cacheNow, cacheCalls, cachePc, op, began, toFetch,
                 served, doomed>>

FinishInvalidate(t) ==
  /\ found[t] = {}
  /\ Moves(cachePc, t, "remove", "removed")
  /\ UNCHANGED <<backend, storeVars, cacheNow, cacheCalls, op, began, found,
                 toFetch, served, doomed>>

ReturnInvalidate(t) ==
  /\ Moves(cachePc, t, "removed", "idle")
  /\ doomed' = [doomed EXCEPT ![t] = {}]
  /\ UNCHANGED <<backend, storeVars, cacheNow, cacheCalls, op, began, found,
                 toFetch, served>>

(* clear: one call, or for Redis KEYS and then a DEL of what it listed.    *)
InvalidateAll(t) ==
  /\ cachePc[t] = "idle" /\ backend # "redis"
  /\ cacheCalls < MaxCacheCalls /\ cacheCalls' = cacheCalls + 1
  /\ entries' = [k \in Keys |-> NoEntry] /\ order' = <<>>
  /\ UNCHANGED <<backend, tagIndex, cacheNow, cachePc, op, began, found, toFetch,
                 served, doomed>>

ListAll(t) ==
  /\ backend = "redis" /\ Present # {}
  /\ cacheCalls < MaxCacheCalls /\ cacheCalls' = cacheCalls + 1
  /\ Moves(cachePc, t, "idle", "clear")
  /\ toFetch' = [toFetch EXCEPT ![t] = Present]
  /\ UNCHANGED <<backend, storeVars, cacheNow, op, began, found, served, doomed>>

DeleteAll(t) ==
  /\ Moves(cachePc, t, "clear", "idle")
  /\ entries' = [k \in Keys |-> IF k \in toFetch[t] THEN NoEntry ELSE entries[k]]
  /\ toFetch' = [toFetch EXCEPT ![t] = {}]
  /\ UNCHANGED <<backend, order, tagIndex, cacheNow, cacheCalls, op, began, found,
                 served, doomed>>

(* Redis drops a key on its own when the TTL given to SETEX is over.       *)
ServerExpires(k) ==
  /\ backend = "redis" /\ k \in Present /\ IsExpired(entries[k], cacheNow)
  /\ Delete(k)
  /\ UNCHANGED <<backend, cacheNow, cacheCalls, cachePc, op, began, found, toFetch,
                 served, doomed>>

CacheTick ==
  /\ cacheNow < MaxNow /\ cacheNow' = cacheNow + 1
  /\ UNCHANGED <<backend, storeVars, cacheCalls, cachePc, op, began, found, toFetch,
                 served, doomed>>

CacheStep(t) ==
  \/ \E kind \in {"get", "cached", "set", "invalidate"}, k \in Keys : Call(t, kind, k)
  \/ Lookup(t) \/ EvictExact(t) \/ Scan(t) \/ FetchOne(t) \/ FetchedAll(t)
  \/ SweepOne(t) \/ FinishGet(t) \/ Store(t) \/ AddToTag(t)
  \/ ListTagged(t) \/ RemoveOne(t) \/ FinishInvalidate(t) \/ ReturnInvalidate(t)
  \/ InvalidateAll(t) \/ ListAll(t) \/ DeleteAll(t)

CacheNext ==
  \/ \E t \in Threads : CacheStep(t)
  \/ \E k \in Keys : ServerExpires(k)
  \/ CacheTick

CacheSpec == CacheInit /\ [][CacheNext]_cacheVars

-----------------------------------------------------------------------------
(* Properties *)

(* Whatever other threads evict or overwrite meanwhile, a hit is an entry  *)
(* that had not expired when the get began, of the same prompt or of one   *)
(* that is similar enough.                                                 *)
ServedWasLive ==
  \A t \in Threads : served[t] # NoEntry =>
    /\ ~IsExpired(served[t], began[t])
    /\ \/ served[t].key = op[t].key
       \/ Score[<<op[t].key, served[t].key>>] >= SimilarityThreshold

(* When invalidate_by_tag returns, no entry remains that was stored under  *)
(* the tag, with its set() over, when the call began.                      *)
InvalidatedIsGone ==
  \A t \in Threads : cachePc[t] = "removed" =>
    \A k \in Present : entries[k].ver \notin doomed[t]

(* The in-memory back-end holds what its LRU order lists, max_size at most. *)
LruBounded ==
  backend = "memory" =>
    /\ ToSet(order) = Present /\ IsInjective(order)
    /\ MaxSize > 0 => Len(order) <= MaxSize

(* Neither expired, nor invalidated, nor evicted entries are left to serve. *)
CacheIsCurrent == ServedWasLive /\ InvalidatedIsGone /\ LruBounded
=============================================================================
