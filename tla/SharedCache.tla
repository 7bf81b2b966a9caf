---------------------------- MODULE SharedCache -----------------------------
(***************************************************************************)
(* The shared cache of modules/shared_cache.c, which the father and its    *)
(* children share: slots in shared memory, in pages with a mutex each.  A  *)
(* key belongs at the position of its hash; an update may store it in a    *)
(* later slot of the page, and a search walks as long as the slots carry   *)
(* its hash.  Search is one step under the page's mutex; update reads the  *)
(* clock before it locks, and its process can die while it writes a slot.  *)
(***************************************************************************)
EXTENDS Naturals, FiniteSets, TLC

CONSTANTS
  ShProcs, ShKeys, ShValues,
  ShHash,         \* the home of each key (hash, cut to the entries)
  PageSize, Pages,
  ShTTL,
  ShMaxTime,      \* bound on the clock
  NoShKey,        \* the key of a cleared slot; a free mutex's owner
  Torn            \* bytes that no update stored

ShSlots == 0..(PageSize * Pages - 1)

ASSUME SharedCacheAssumption ==
  /\ PageSize \in Nat \ {0} /\ Pages \in Nat \ {0} /\ ShTTL \in Nat /\ ShMaxTime \in Nat
  /\ ShHash \in [ShKeys -> ShSlots]
  /\ NoShKey \notin ShKeys \union ShProcs /\ Torn \notin ShValues

VARIABLES
  shNow,          \* the clock, in seconds
  slot,           \* the slots, [hash, expires, key, val]
  pageLock,       \* owner of each page's mutex
  cache_users,
  fatherIn,       \* the father has not destroyed its cache yet
  destroyed,      \* memory and mutexes are destroyed
  shOp,           \* what each child is doing
  shLatest,       \* ghost: the last value stored for each key, and when
  diedWriting     \* ghost: pages on which a child died while it wrote

shVars == <<shNow, slot, pageLock, cache_users, fatherIn, destroyed, shOp, shLatest, diedWriting>>

Page(pos) == pos \div PageSize
ShPages == {Page(pos) : pos \in ShSlots}
EmptySlot == [hash |-> 0, expires |-> 0, key |-> NoShKey, val |-> Torn]
Attached == [pc |-> "attached"]

(* ci_shared_cache_init, by the father, which counts as the first user.    *)
SharedCacheInit ==
  /\ shNow = 1
  /\ slot = [s \in ShSlots |-> EmptySlot]
  /\ pageLock = [g \in ShPages |-> NoShKey]
  /\ cache_users = 1 /\ fatherIn = TRUE /\ destroyed = FALSE
  /\ shOp = [p \in ShProcs |-> [pc |-> "forked"]]
  /\ shLatest = [k \in ShKeys |-> [val |-> Torn, time |-> 0]]
  /\ diedWriting = {}

(* The slots that a search for k looks at.                                 *)
Walked(k) ==
  LET h == ShHash[k]
  IN  {pos \in ShSlots : /\ pos >= h /\ Page(pos) = Page(h)
                         /\ \A i \in h..pos : slot[i].hash = h}

(* The first of them with the key that has not expired.                    *)
ci_shared_cache_search(k) ==
  LET hits == {pos \in Walked(k) : slot[pos].key = k /\ slot[pos].expires >= shNow}
  IN  IF hits = {} THEN NoShKey
      ELSE slot[CHOOSE pos \in hits : \A i \in hits : pos <= i].val

(* ci_shared_cache_update up to the lock of the page, for a key and value  *)
(* that fit into a slot.                                                   *)
SharedUpdateStart(p) ==
  \E k \in ShKeys, v \in ShValues :
    /\ shOp[p].pc = "attached"
    /\ shOp' = [shOp EXCEPT ![p] = [pc |-> "update", key |-> k, val |-> v, time |-> shNow]]
    /\ UNCHANGED <<shNow, slot, pageLock, cache_users, fatherIn, destroyed, shLatest, diedWriting>>

(* Mutant: a slot that holds the key already is not preferred.             *)
CanUpdate_AnyKey(o, pos) ==
  LET h == ShHash[o.key]
      s == slot[pos]
  IN  \/ s.hash < h
      \/ s.expires < o.time + ShTTL
      \/ pos = h /\ s.expires < o.time + (ShTTL \div 2)

(* can_updated                                                             *)
CanUpdate(o, pos) ==
  LET h == ShHash[o.key]
      s == slot[pos]
  IN  \/ s.hash < h
      \/ s.key = o.key
      \/ s.expires < o.time + ShTTL
      \/ pos = h /\ s.expires < o.time + (ShTTL \div 2)

(* The walk ends at a live entry that is at home.                          *)
EndsAt(o, pos) == pos # ShHash[o.key] /\ slot[pos].hash = pos

(* The slot that the loop updates, in a set that is empty if there is      *)
(* none.                                                                   *)
Target(o) ==
  LET h == ShHash[o.key]
  IN  {pos \in ShSlots : /\ pos >= h /\ Page(pos) = Page(h) /\ CanUpdate(o, pos)
                         /\ \A i \in h..(pos - 1) : ~CanUpdate(o, i) /\ ~EndsAt(o, i)}

(* With the page locked, the slot gets its hash (which is the position),   *)
(* its expiry, its sizes, its key and then its value: while this goes on   *)
(* it has the old or the new key, and bytes for a value that are no value. *)
SharedUpdateWrites(p) ==
  /\ shOp[p].pc = "update"
  /\ LET o == shOp[p]
         g == Page(ShHash[o.key])
     IN  /\ pageLock[g] = NoShKey
         /\ pageLock' = [pageLock EXCEPT ![g] = p]
         /\ \E pos \in Target(o) : \E k \in {o.key, slot[pos].key} :
              /\ slot' = [slot EXCEPT ![pos] = [hash |-> pos, expires |-> o.time + ShTTL,
                                                key |-> k, val |-> Torn]]
              /\ shOp' = [shOp EXCEPT ![p] = [pc |-> "writing", key |-> o.key, val |-> o.val,
                                              time |-> o.time, pos |-> pos]]
  /\ UNCHANGED <<shNow, cache_users, fatherIn, destroyed, shLatest, diedWriting>>

SharedUpdateDone(p) ==
  /\ shOp[p].pc = "writing"
  /\ LET o == shOp[p] IN
       /\ slot' = [slot EXCEPT ![o.pos].key = o.key, ![o.pos].val = o.val]
       /\ pageLock' = [pageLock EXCEPT ![Page(ShHash[o.key])] = NoShKey]
       /\ shLatest' = [shLatest EXCEPT ![o.key] = [val |-> o.val, time |-> o.time]]
  /\ shOp' = [shOp EXCEPT ![p] = Attached]
  /\ UNCHANGED <<shNow, cache_users, fatherIn, destroyed, diedWriting>>

(* No slot can be used: update returns 0.                                  *)
SharedUpdateFull(p) ==
  /\ shOp[p].pc = "update"
  /\ pageLock[Page(ShHash[shOp[p].key])] = NoShKey
  /\ Target(shOp[p]) = {}
  /\ shOp' = [shOp EXCEPT ![p] = Attached]
  /\ UNCHANGED <<shNow, slot, pageLock, cache_users, fatherIn, destroyed, shLatest, diedWriting>>

(* A child attaches when it runs its start commands, some time after the   *)
(* fork; by then the father may have destroyed the cache.                  *)
command_attach_shared_mem(p) ==
  /\ shOp[p].pc = "forked"
  /\ cache_users' = cache_users + 1
  /\ shOp' = [shOp EXCEPT ![p] = IF destroyed THEN [pc |-> "late"] ELSE Attached]
  /\ UNCHANGED <<shNow, slot, pageLock, fatherIn, destroyed, shLatest, diedWriting>>

(* The last user destroys memory and mutexes.                              *)
LastUser(users) == users = 1

ci_shared_cache_destroy ==
  /\ cache_users' = cache_users - 1
  /\ destroyed' = (destroyed \/ LastUser(cache_users))
  /\ UNCHANGED <<shNow, slot, pageLock, shLatest, diedWriting>>

FatherDestroysCache ==
  /\ fatherIn /\ fatherIn' = FALSE
  /\ ci_shared_cache_destroy
  /\ UNCHANGED shOp

ChildDestroysCache(p) ==
  /\ shOp[p].pc = "attached"
  /\ shOp' = [shOp EXCEPT ![p] = [pc |-> "gone"]]
  /\ ci_shared_cache_destroy
  /\ UNCHANGED fatherIn

(* A child dies: the mutex it holds comes free (ProcMutex says how), and   *)
(* it stays in cache_users.                                                *)
CacheChildDies(p) ==
  /\ shOp[p].pc \in {"attached", "update", "writing"}
  /\ shOp' = [shOp EXCEPT ![p] = [pc |-> "dead"]]
  /\ pageLock' = [g \in ShPages |-> IF pageLock[g] = p THEN NoShKey ELSE pageLock[g]]
  /\ diedWriting' = diedWriting \union {g \in ShPages : pageLock[g] = p}
  /\ UNCHANGED <<shNow, slot, cache_users, fatherIn, destroyed, shLatest>>

SharedCacheTick ==
  /\ shNow < ShMaxTime
  /\ shNow' = shNow + 1
  /\ UNCHANGED <<slot, pageLock, cache_users, fatherIn, destroyed, shOp, shLatest, diedWriting>>

SharedCacheNext ==
  \/ \E p \in ShProcs :
       \/ SharedUpdateStart(p) \/ SharedUpdateWrites(p) \/ SharedUpdateDone(p) \/ SharedUpdateFull(p)
       \/ command_attach_shared_mem(p) \/ ChildDestroysCache(p) \/ CacheChildDies(p)
  \/ FatherDestroysCache \/ SharedCacheTick

SharedCacheSpec == SharedCacheInit /\ [][SharedCacheNext]_shVars

(***************************************************************************)
(* Properties                                                              *)
(***************************************************************************)
(* What a search finds under the mutex of the page is the value stored     *)
(* last for its key, no older than the ttl, whatever other keys have been  *)
(* stored at its home or pushed out of theirs; only a page on which a      *)
(* child died while it wrote can give bytes that nobody stored             *)
(* (ci_shared_cache_search, ci_shared_cache_update).                       *)
SharedHitIsLatest ==
  \A k \in ShKeys :
    LET got == ci_shared_cache_search(k)
        g   == Page(ShHash[k])
    IN  pageLock[g] = NoShKey /\ got # NoShKey =>
          \/ got = shLatest[k].val /\ shNow - shLatest[k].time <= ShTTL /\ got # Torn
          \/ got = Torn /\ g \in diedWriting

=============================================================================
