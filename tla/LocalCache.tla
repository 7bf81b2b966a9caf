----------------------------- MODULE LocalCache -----------------------------
(***************************************************************************)
(* The local cache of cache.c, which the threads of one process share: a   *)
(* fixed number of entries in a queue from the oldest to the newest, and a *)
(* hash table whose chains start with the newest entry.  Search and update *)
(* hold the mutex of the cache, so that each is one step; but update reads *)
(* the clock before it locks, and another thread may come in between.      *)
(***************************************************************************)
EXTENDS Naturals, Sequences, SequencesExt

CONSTANTS
  CacheThreads, CacheKeys, CacheValues,
  CacheHash,      \* the chain of each key, as ci_hash_compute gives it
  Items,          \* entries (mem_size / (max_object_size + entry))
  CacheTTL,
  CacheMaxTime,   \* bound on the clock
  NoKey, NoVal

Chains == {CacheHash[k] : k \in CacheKeys} \union {0}

ASSUME LocalCacheAssumption ==
  /\ Items \in Nat \ {0} /\ CacheTTL \in Nat \ {0} /\ CacheMaxTime \in Nat
  /\ CacheHash \in [CacheKeys -> Nat]
  /\ NoKey \notin CacheKeys /\ NoVal \notin CacheValues

VARIABLES
  lcNow,          \* the clock, in seconds
  entry,          \* the entries, [key, val, time, hash]
  queue,          \* first_queue_entry .. last_queue_entry
  chain,          \* hash_table, each chain as a sequence of entries
  lcOp,           \* what each thread is doing
  lcLatest        \* ghost: the last value stored for each key, and when

lcVars == <<lcNow, entry, queue, chain, lcOp, lcLatest>>

Entries == 1..Items
EmptyEntry == [key |-> NoKey, val |-> NoVal, time |-> 0, hash |-> 0]
LcIdle == [pc |-> "idle"]

(* ci_local_cache_init: all entries are in the queue, none in a chain.     *)
(* The clock is past the age at which an entry of time 0 can be reused.    *)
LocalCacheInit ==
  /\ lcNow = CacheTTL + 1
  /\ entry = [e \in Entries |-> EmptyEntry]
  /\ queue = [i \in Entries |-> i]
  /\ chain = [h \in Chains |-> <<>>]
  /\ lcOp = [t \in CacheThreads |-> LcIdle]
  /\ lcLatest = [k \in CacheKeys |-> [val |-> NoVal, time |-> 0]]

Expired(e) == lcNow - entry[e].time > CacheTTL

(* The first entry of the chain with this key, if it has not expired; with *)
(* the value's copy.                                                       *)
ci_local_cache_search(k) ==
  LET entries == chain[CacheHash[k]]
      at == SelectInSeq(entries, LAMBDA e : entry[e].key = k)
  IN  IF at = 0 \/ Expired(entries[at]) THEN NoVal ELSE entry[entries[at]].val

(* ci_local_cache_update up to the lock.                                   *)
LocalUpdateStart(t) ==
  \E k \in CacheKeys, v \in CacheValues :
    /\ lcOp[t].pc = "idle"
    /\ lcOp' = [lcOp EXCEPT ![t] = [pc |-> "update", key |-> k, val |-> v, time |-> lcNow]]
    /\ UNCHANGED <<lcNow, entry, queue, chain, lcLatest>>

(* Mutant: entries are given up at half their time, as the shared cache    *)
(* does for the home of a key.                                             *)
CanReuse_Half(e, time) == time - entry[e].time >= CacheTTL \div 2

(* The oldest entry can be reused when its age has reached the ttl.        *)
CanReuse(e, time) == time - entry[e].time >= CacheTTL

(* Not available slot: the value is not stored.                            *)
LocalUpdateNoSlot(t) ==
  /\ lcOp[t].pc = "update"
  /\ ~CanReuse(Head(queue), lcOp[t].time)
  /\ lcOp' = [lcOp EXCEPT ![t] = LcIdle]
  /\ UNCHANGED <<lcNow, entry, queue, chain, lcLatest>>

Unlinked(e) == [chain EXCEPT ![entry[e].hash] = RemoveFirst(@, e)]

(* The memory for the key or for the value, or copy_to_cache, fails: the   *)
(* entry has lost its data and its chain, and stays the first one.         *)
LocalUpdateFails(t) ==
  /\ lcOp[t].pc = "update"
  /\ CanReuse(Head(queue), lcOp[t].time)
  /\ chain' = Unlinked(Head(queue))
  /\ entry' = [entry EXCEPT ![Head(queue)] = EmptyEntry]
  /\ lcOp' = [lcOp EXCEPT ![t] = LcIdle]
  /\ UNCHANGED <<lcNow, queue, lcLatest>>

(* first = first->qnext, and the entry becomes the last one.  With a       *)
(* single entry first would be NULL from then on.                          *)
Requeue(q) == IF Len(q) = 1 THEN <<>> ELSE Append(Tail(q), Head(q))

ci_local_cache_update(t) ==
  /\ lcOp[t].pc = "update"
  /\ LET e == Head(queue)
         o == lcOp[t]
         h == CacheHash[o.key]
     IN  /\ CanReuse(e, o.time)
         /\ entry' = [entry EXCEPT ![e] = [key |-> o.key, val |-> o.val, time |-> o.time, hash |-> h]]
         /\ chain' = [Unlinked(e) EXCEPT ![h] = <<e>> \o @]
         /\ queue' = Requeue(queue)
         /\ lcLatest' = [lcLatest EXCEPT ![o.key] = [val |-> o.val, time |-> o.time]]
  /\ lcOp' = [lcOp EXCEPT ![t] = LcIdle]
  /\ UNCHANGED lcNow

LocalCacheTick ==
  /\ lcNow < CacheMaxTime
  /\ lcNow' = lcNow + 1
  /\ UNCHANGED <<entry, queue, chain, lcOp, lcLatest>>

LocalCacheNext ==
  \/ \E t \in CacheThreads : LocalUpdateStart(t) \/ LocalUpdateNoSlot(t) \/ LocalUpdateFails(t)
                             \/ ci_local_cache_update(t)
  \/ LocalCacheTick

LocalCacheSpec == LocalCacheInit /\ [][LocalCacheNext]_lcVars

(***************************************************************************)
(* Properties                                                              *)
(***************************************************************************)
(* A search finds the value stored last as long as its age is below the    *)
(* ttl, nothing once its age is above it, and never the older value of an  *)
(* entry that an update has left behind, although updates add an entry     *)
(* without removing the key's previous one, store the time they read       *)
(* before they got the lock, and may fail half way                         *)
(* (ci_local_cache_search, ci_local_cache_update).                         *)
LocalSearchIsLatest ==
  \A k \in CacheKeys :
    LET got == ci_local_cache_search(k)
        age == lcNow - lcLatest[k].time
    IN  /\ age < CacheTTL => got = lcLatest[k].val
        /\ age = CacheTTL => got \in {NoVal, lcLatest[k].val}
        /\ age > CacheTTL => got = NoVal
=============================================================================
