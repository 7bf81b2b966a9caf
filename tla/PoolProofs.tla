----------------------------- MODULE PoolProofs ------------------------------
(***************************************************************************)
(* Proofs about what is shared in limited numbers: the entries of the      *)
(* local cache (LocalCache), the connections of the LDAP pools (LdapPool)  *)
(* and the memory of buffers and allocators (MemPools), for any number of  *)
(* threads, keys, entries, pools, connections, blocks, pieces and sizes.   *)
(***************************************************************************)
EXTENDS LocalCache, LdapPool, MemPools, ProofLemmas

(***************************************************************************)
(* Searching in and removing from a sequence                               *)
(***************************************************************************)
In(x, s) == \E i \in 1 .. Len(s) : s[i] = x
Distinct(s) == \A i, j \in 1 .. Len(s) : i < j => s[i] # s[j]

(* r is s without e: the others are there, in the same order.              *)
Without(S, s, e, r) ==
  /\ r \in Seq(S)
  /\ \A x : In(x, r) <=> In(x, s) /\ x # e
  /\ \A i, j \in 1 .. Len(r) :
       i < j => \E k, m \in 1 .. Len(s) : k < m /\ s[k] = r[i] /\ s[m] = r[j]

(* The least of some numbers.                                              *)
LEMMA MinIsLeast ==
  ASSUME NEW T, T \subseteq Nat, T # {}
  PROVE  Min(T) \in T /\ \A y \in T : Min(T) <= y
  <1>1. PICK x \in T : \A y \in T : x =< y
    BY LeastOfNats
  <1>. QED
    BY <1>1 DEF Min

(* RemoveFirst takes one element out of a sequence whose elements differ,  *)
(* and leaves the order of the others.                                     *)
LEMMA RemovedOne ==
  ASSUME NEW S, NEW s \in Seq(S), Distinct(s), NEW e
  PROVE  Without(S, s, e, RemoveFirst(s, e))
  <1>0. Len(s) \in Nat /\ DOMAIN s = 1 .. Len(s)
    BY LenProperties
  <1>1. CASE ~In(e, s)
    <2>1. RemoveFirst(s, e) = s
      BY <1>1 DEF RemoveFirst, In
    <2>. QED
      BY <1>1, <2>1 DEF In, Without
  <1>2. CASE In(e, s)
    <2>. DEFINE T == {i \in 1 .. Len(s) : s[i] = e}
    <2>1. T \subseteq Nat /\ T # {}
      BY <1>0, <1>2 DEF In
    <2>2. PICK at : at = Min(T)
      OBVIOUS
    <2>3. at \in 1 .. Len(s) /\ s[at] = e
      BY <2>1, <2>2, MinIsLeast
    <2>4. SelectInSeq(s, LAMBDA v : v = e) = at
      BY <2>1, <2>2 DEF SelectInSeq
    <2>5. PICK r : r = RemoveFirst(s, e)
      OBVIOUS
    <2>6. r = SubSeq(s, 1, at - 1) \o SubSeq(s, at + 1, Len(s))
      BY <1>2, <2>4, <2>5 DEF RemoveFirst, RemoveAt, In
    <2>7. at \in Nat /\ at - 1 \in 0 .. Len(s) /\ at \in 0 .. Len(s)
      BY <1>0, <2>3
    <2>8. PICK a : a = SubSeq(s, 1, at - 1)
      OBVIOUS
    <2>9. PICK b : b = SubSeq(s, at + 1, Len(s))
      OBVIOUS
    <2>10. a \in Seq(S) /\ Len(a) = at - 1 /\ \A i \in 1 .. at - 1 : a[i] = s[i]
      BY <2>7, <2>8, SplitSeq
    <2>11. b \in Seq(S) /\ Len(b) = Len(s) - at /\ \A i \in 1 .. Len(s) - at : b[i] = s[at + i]
      BY <2>7, <2>9, SplitSeq
    <2>12. r \in Seq(S) /\ Len(r) = Len(s) - 1
      <3>1. r = a \o b
        BY <2>6, <2>8, <2>9
      <3>2. r \in Seq(S) /\ Len(r) = Len(a) + Len(b)
        BY <2>10, <2>11, <3>1, ConcatProperties
      <3>. QED
        BY <1>0, <2>7, <2>10, <2>11, <3>2
    <2>13. ASSUME NEW i \in 1 .. Len(s) - 1
           PROVE  r[i] = IF i < at THEN s[i] ELSE s[i + 1]
      <3>1. CASE i < at
        <4>1. i \in 1 .. Len(a)
          BY <1>0, <2>7, <2>10, <3>1
        <4>2. r[i] = a[i]
          BY <2>6, <2>8, <2>9, <2>10, <2>11, <4>1, ConcatProperties
        <4>. QED
          BY <2>10, <3>1, <4>1, <4>2
      <3>2. CASE ~(i < at)
        <4>1. i \in (Len(a) + 1) .. (Len(a) + Len(b)) /\ i - Len(a) \in 1 .. Len(s) - at
              /\ at + (i - Len(a)) = i + 1
          BY <1>0, <2>7, <2>10, <2>11, <3>2
        <4>2. r[i] = b[i - Len(a)]
          BY <2>6, <2>8, <2>9, <2>10, <2>11, <4>1, ConcatProperties
        <4>. QED
          BY <2>11, <3>2, <4>1, <4>2
      <3>. QED
        BY <3>1, <3>2
    <2>14. ASSUME NEW i \in 1 .. Len(s), i # at
           PROVE  s[i] = r[IF i < at THEN i ELSE i - 1] /\ (IF i < at THEN i ELSE i - 1) \in 1 .. Len(s) - 1
      <3>1. CASE i < at
        BY <1>0, <2>7, <2>13, <3>1
      <3>2. CASE i > at
        <4>1. i - 1 \in 1 .. Len(s) - 1 /\ ~(i - 1 < at) /\ (i - 1) + 1 = i
          BY <1>0, <2>7, <3>2
        <4>2. r[i - 1] = s[(i - 1) + 1]
          BY <2>13, <4>1
        <4>. QED
          BY <2>7, <3>2, <4>1, <4>2
      <3>3. i < at \/ i > at
        BY <1>0, <2>7, <2>14
      <3>. QED
        BY <3>1, <3>2, <3>3
    <2>15. \A i \in 1 .. Len(s) : i # at => s[i] # e
      BY <1>0, <2>3 DEF Distinct
    <2>16. ASSUME NEW x PROVE In(x, r) <=> In(x, s) /\ x # e
      <3>1. ASSUME In(x, r) PROVE In(x, s) /\ x # e
        <4>1. PICK i \in 1 .. Len(s) - 1 : r[i] = x
          BY <2>12, <3>1 DEF In
        <4>2. PICK k : k = IF i < at THEN i ELSE i + 1
          OBVIOUS
        <4>3. k \in 1 .. Len(s) /\ k # at /\ s[k] = x
          BY <1>0, <2>7, <2>13, <4>1, <4>2
        <4>. QED
          BY <2>15, <4>3 DEF In
      <3>2. ASSUME In(x, s), x # e PROVE In(x, r)
        <4>1. PICK i \in 1 .. Len(s) : s[i] = x
          BY <3>2 DEF In
        <4>2. i # at
          BY <2>3, <3>2, <4>1
        <4>3. PICK k : k = IF i < at THEN i ELSE i - 1
          OBVIOUS
        <4>4. k \in 1 .. Len(r) /\ r[k] = x
          BY <2>12, <2>14, <4>1, <4>2, <4>3
        <4>. QED
          BY <4>4 DEF In
      <3>. QED
        BY <3>1, <3>2
    <2>17. ASSUME NEW i \in 1 .. Len(r), NEW j \in 1 .. Len(r), i < j
           PROVE  \E k, m \in 1 .. Len(s) : k < m /\ s[k] = r[i] /\ s[m] = r[j]
      <3>1. PICK k : k = IF i < at THEN i ELSE i + 1
        OBVIOUS
      <3>2. PICK m : m = IF j < at THEN j ELSE j + 1
        OBVIOUS
      <3>3. i \in 1 .. Len(s) - 1 /\ j \in 1 .. Len(s) - 1
        BY <2>12
      <3>4. k \in 1 .. Len(s) /\ m \in 1 .. Len(s) /\ k < m
        BY <1>0, <2>7, <2>17, <3>1, <3>2, <3>3
      <3>5. s[k] = r[i] /\ s[m] = r[j]
        BY <2>13, <3>1, <3>2, <3>3
      <3>. QED
        BY <3>4, <3>5
    <2>. QED
      BY <2>5, <2>12, <2>16, <2>17 DEF Without
  <1>. QED
    BY <1>1, <1>2

(***************************************************************************)
(* The local cache                                                         *)
(***************************************************************************)
CacheRec == [key : CacheKeys \cup {NoKey}, val : CacheValues \cup {NoVal}, time : Nat, hash : Chains]
UpdateRec == [pc : {"update"}, key : CacheKeys, val : CacheValues, time : Nat]

LcTypeOK ==
  /\ lcNow \in Nat
  /\ entry \in [Entries -> CacheRec]
  /\ queue \in [1 .. Items -> Entries]
  /\ chain \in [Chains -> Seq(Entries)]
  /\ lcOp \in [CacheThreads -> {LcIdle} \cup UpdateRec]
  /\ lcLatest \in [CacheKeys -> [val : CacheValues \cup {NoVal}, time : Nat]]

(* The times that were read are not in the future.                         *)
TimesPast ==
  /\ \A t \in CacheThreads : lcOp[t].pc = "update" => lcOp[t].time <= lcNow
  /\ \A k \in CacheKeys : lcLatest[k].time <= lcNow

(* Every entry is in the queue once; a is before b in it.                  *)
QueueAll ==
  /\ \A i, j \in 1 .. Items : i < j => queue[i] # queue[j]
  /\ \A e \in Entries : \E i \in 1 .. Items : queue[i] = e
Before(a, b) == \E i, j \in 1 .. Items : i < j /\ queue[i] = a /\ queue[j] = b

(* A chain has the entries of its hash value, from the newest to the       *)
(* oldest.                                                                 *)
ChainsHold ==
  /\ \A e \in Entries : entry[e].hash = IF entry[e].key = NoKey THEN 0 ELSE CacheHash[entry[e].key]
  /\ \A h \in Chains, e \in Entries : In(e, chain[h]) <=> entry[e].key # NoKey /\ entry[e].hash = h
ChainsSorted == \A h \in Chains : \A i, j \in 1 .. Len(chain[h]) : i < j => Before(chain[h][j], chain[h][i])

(* The newest entry of a key has what was stored last; a key without an    *)
(* entry has nothing, or what is as old as the ttl.                        *)
IsNewest(e, k) == entry[e].key = k /\ \A f \in Entries : entry[f].key = k => f = e \/ Before(f, e)
NewestIsLatest ==
  \A k \in CacheKeys :
    /\ \A e \in Entries : IsNewest(e, k) => entry[e].val = lcLatest[k].val /\ entry[e].time = lcLatest[k].time
    /\ (\A e \in Entries : entry[e].key # k) => lcLatest[k].val = NoVal \/ lcLatest[k].time + CacheTTL <= lcNow

LcInv == LcTypeOK /\ TimesPast /\ QueueAll /\ ChainsHold /\ ChainsSorted /\ NewestIsLatest

(* What the constants are.                                                 *)
LEMMA CacheConstants ==
  /\ Items \in Nat \ {0} /\ CacheTTL \in Nat \ {0} /\ Entries = 1 .. Items /\ 1 \in Entries
  /\ 0 \in Chains /\ (\A k \in CacheKeys : CacheHash[k] \in Chains) /\ NoKey \notin CacheKeys
  BY LocalCacheAssumption DEF Entries, Chains

(* At the start.                                                           *)
LEMMA LcInit == LocalCacheInit => LcInv
  <1>. SUFFICES ASSUME LocalCacheInit PROVE LcInv
    OBVIOUS
  <1>1. EmptyEntry \in CacheRec /\ EmptyEntry.key = NoKey /\ EmptyEntry.hash = 0
    BY CacheConstants DEF EmptyEntry, CacheRec
  <1>2. \A e \in Entries : entry[e] = EmptyEntry
    BY DEF LocalCacheInit
  <1>3. \A h \in Chains : chain[h] = <<>> /\ Len(chain[h]) = 0
    BY DEF LocalCacheInit
  <1>4. LcTypeOK
    <2>1. lcNow \in Nat
      BY CacheConstants DEF LocalCacheInit
    <2>2. entry \in [Entries -> CacheRec]
      BY <1>1 DEF LocalCacheInit
    <2>3. queue \in [1 .. Items -> Entries] /\ chain \in [Chains -> Seq(Entries)]
      BY CacheConstants DEF LocalCacheInit
    <2>4. lcOp \in [CacheThreads -> {LcIdle} \cup UpdateRec]
      BY DEF LocalCacheInit
    <2>5. lcLatest \in [CacheKeys -> [val : CacheValues \cup {NoVal}, time : Nat]]
      BY DEF LocalCacheInit
    <2>. QED
      BY <2>1, <2>2, <2>3, <2>4, <2>5 DEF LcTypeOK
  <1>5. TimesPast
    BY CacheConstants DEF LocalCacheInit, TimesPast, LcIdle
  <1>6. QueueAll
    BY CacheConstants DEF LocalCacheInit, QueueAll
  <1>7. ChainsHold /\ ChainsSorted
    BY <1>1, <1>2, <1>3 DEF ChainsHold, ChainsSorted, In
  <1>8. NewestIsLatest
    BY <1>1, <1>2, CacheConstants DEF LocalCacheInit, NewestIsLatest, IsNewest
  <1>. QED
    BY <1>4, <1>5, <1>6, <1>7, <1>8 DEF LcInv

(* The order of the queue.                                                 *)
LEMMA QueueOrder ==
  ASSUME LcInv
  PROVE  /\ \A a, b \in Entries : a = b \/ Before(a, b) \/ Before(b, a)
         /\ \A a, b \in Entries : ~(Before(a, b) /\ Before(b, a))
         /\ \A a \in Entries : ~Before(a, a)
         /\ Head(queue) = queue[1] /\ queue[1] \in Entries
         /\ \A b \in Entries : b = Head(queue) \/ Before(Head(queue), b)
  <1>1. /\ Items \in Nat \ {0} /\ queue \in [1 .. Items -> Entries]
        /\ (\A i, j \in 1 .. Items : i < j => queue[i] # queue[j])
        /\ (\A e \in Entries : \E i \in 1 .. Items : queue[i] = e)
    BY CacheConstants DEF LcInv, LcTypeOK, QueueAll
  <1>2. \A i, j \in 1 .. Items : queue[i] = queue[j] => i = j
    BY <1>1
  <1>3. ASSUME NEW a \in Entries, NEW b \in Entries PROVE a = b \/ Before(a, b) \/ Before(b, a)
    <2>1. PICK i \in 1 .. Items : queue[i] = a
      BY <1>1
    <2>2. PICK j \in 1 .. Items : queue[j] = b
      BY <1>1
    <2>3. i = j \/ i < j \/ j < i
      BY <1>1
    <2>. QED
      BY <2>1, <2>2, <2>3 DEF Before
  <1>4. ASSUME NEW a \in Entries, NEW b \in Entries, Before(a, b), Before(b, a) PROVE FALSE
    <2>1. PICK i, j \in 1 .. Items : i < j /\ queue[i] = a /\ queue[j] = b
      BY <1>4 DEF Before
    <2>2. PICK m, n \in 1 .. Items : m < n /\ queue[m] = b /\ queue[n] = a
      BY <1>4 DEF Before
    <2>3. i = n /\ j = m
      BY <1>2, <2>1, <2>2
    <2>. QED
      BY <1>1, <2>1, <2>2, <2>3
  <1>5. \A a \in Entries : ~Before(a, a)
    BY <1>4
  <1>6. Head(queue) = queue[1] /\ queue[1] \in Entries
    <2>1. queue \in Seq(Entries) /\ Len(queue) = Items /\ 1 \in 1 .. Items
      BY <1>1
    <2>2. queue # <<>>
      BY <1>1, <2>1
    <2>. QED
      BY <1>1, <2>1, <2>2
  <1>7. ASSUME NEW b \in Entries PROVE b = Head(queue) \/ Before(Head(queue), b)
    <2>1. PICK i \in 1 .. Items : queue[i] = b
      BY <1>1
    <2>2. 1 \in 1 .. Items /\ (i = 1 \/ 1 < i)
      BY <1>1
    <2>. QED
      BY <1>6, <2>1, <2>2 DEF Before
  <1>. QED
    BY <1>3, <1>4, <1>5, <1>6, <1>7

(* The invariant contains the property.                                    *)
LEMMA LcInvLatest == LcInv => LocalSearchIsLatest
  <1>. SUFFICES ASSUME LcInv, NEW k \in CacheKeys
                PROVE  LET got == ci_local_cache_search(k)
                           age == lcNow - lcLatest[k].time
                       IN  /\ age < CacheTTL => got = lcLatest[k].val
                           /\ age = CacheTTL => got \in {NoVal, lcLatest[k].val}
                           /\ age > CacheTTL => got = NoVal
    BY DEF LocalSearchIsLatest
  <1>1. PICK c : c = chain[CacheHash[k]]
    OBVIOUS
  <1>2. /\ CacheHash[k] \in Chains /\ c \in Seq(Entries) /\ Len(c) \in Nat
        /\ lcNow \in Nat /\ lcLatest[k].time \in Nat /\ CacheTTL \in Nat /\ k # NoKey
    BY <1>1, CacheConstants DEF LcInv, LcTypeOK
  <1>3. \A i \in 1 .. Len(c) : c[i] \in Entries
    BY <1>2
  <1>. DEFINE T == {i \in 1 .. Len(c) : entry[c[i]].key = k}
  <1>4. T \subseteq Nat
    BY <1>2
  <1>5. PICK at : at = IF T # {} THEN Min(T) ELSE 0
    OBVIOUS
  <1>6. PICK g : g = ci_local_cache_search(k)
    OBVIOUS
  <1>7. g = IF at = 0 \/ Expired(c[at]) THEN NoVal ELSE entry[c[at]].val
    <2>1. SelectInSeq(c, LAMBDA e : entry[e].key = k) = at
      BY <1>5 DEF SelectInSeq
    <2>2. g = LET n == SelectInSeq(c, LAMBDA e : entry[e].key = k)
              IN  IF n = 0 \/ Expired(c[n]) THEN NoVal ELSE entry[c[n]].val
      BY <1>1, <1>6 DEF ci_local_cache_search
    <2>. QED
      BY <2>1, <2>2
  <1>8. CASE T = {}
    <2>1. ASSUME NEW e \in Entries, entry[e].key = k PROVE FALSE
      <3>1. In(e, c)
        BY <1>1, <1>2, <2>1 DEF LcInv, ChainsHold
      <3>. QED
        BY <1>8, <2>1, <3>1 DEF In
    <2>2. lcLatest[k].val = NoVal \/ lcLatest[k].time + CacheTTL <= lcNow
      BY <2>1, SMTT(40) DEF LcInv, NewestIsLatest
    <2>3. g = NoVal
      BY <1>5, <1>7, <1>8
    <2>. QED
      BY <1>2, <1>6, <2>2, <2>3
  <1>9. CASE T # {}
    <2>1. at \in T /\ \A j \in T : at <= j
      BY <1>4, <1>5, <1>9, MinIsLeast
    <2>2. PICK e : e = c[at]
      OBVIOUS
    <2>3. e \in Entries /\ entry[e].key = k /\ at # 0 /\ at \in 1 .. Len(c)
      BY <1>2, <1>3, <2>1, <2>2
    <2>4. ASSUME NEW f \in Entries, entry[f].key = k PROVE f = e \/ Before(f, e)
      <3>1. In(f, c)
        BY <1>1, <1>2, <2>4 DEF LcInv, ChainsHold
      <3>2. PICK j \in 1 .. Len(c) : c[j] = f
        BY <3>1 DEF In
      <3>3. j = at \/ at < j
        BY <1>2, <2>1, <2>3, <2>4, <3>2
      <3>4. at < j => Before(c[j], c[at])
        BY <1>1, <1>2, <2>3 DEF LcInv, ChainsSorted
      <3>. QED
        BY <2>2, <3>2, <3>3, <3>4
    <2>5. entry[e].val = lcLatest[k].val /\ entry[e].time = lcLatest[k].time
      BY <2>3, <2>4 DEF LcInv, NewestIsLatest, IsNewest
    <2>6. g = IF lcNow - lcLatest[k].time > CacheTTL THEN NoVal ELSE lcLatest[k].val
      BY <1>7, <2>2, <2>3, <2>5 DEF Expired
    <2>. QED
      BY <1>2, <1>6, <2>6
  <1>. QED
    BY <1>8, <1>9

(* The oldest entry, taken out of its chain.                               *)
LEMMA UnlinksOldest ==
  ASSUME LcInv, NEW e \in Entries
  PROVE  /\ Unlinked(e) \in [Chains -> Seq(Entries)]
         /\ \A h \in Chains, x \in Entries : In(x, Unlinked(e)[h]) <=> In(x, chain[h]) /\ x # e
         /\ \A h \in Chains : \A i, j \in 1 .. Len(Unlinked(e)[h]) :
              i < j => Before(Unlinked(e)[h][j], Unlinked(e)[h][i])
  <1>1. PICK c : c = Unlinked(e)
    OBVIOUS
  <1>2. PICK g : g = entry[e].hash
    OBVIOUS
  <1>3. g \in Chains /\ chain \in [Chains -> Seq(Entries)]
    BY <1>2 DEF LcInv, LcTypeOK, CacheRec
  <1>4. c = [chain EXCEPT ![g] = RemoveFirst(chain[g], e)]
    BY <1>1, <1>2 DEF Unlinked
  <1>5. ASSUME NEW h \in Chains
        PROVE  chain[h] \in Seq(Entries) /\ Distinct(chain[h])
    <2>1. chain[h] \in Seq(Entries)
      BY <1>3
    <2>2. \A i \in 1 .. Len(chain[h]) : chain[h][i] \in Entries
      BY <2>1
    <2>3. \A i, j \in 1 .. Len(chain[h]) : i < j => Before(chain[h][j], chain[h][i])
      BY DEF LcInv, ChainsSorted
    <2>4. \A a \in Entries : ~Before(a, a)
      BY QueueOrder
    <2>. QED
      BY <2>1, <2>2, <2>3, <2>4 DEF Distinct
  <1>6. PICK r : r = RemoveFirst(chain[g], e)
    OBVIOUS
  <1>7. /\ r \in Seq(Entries)
        /\ \A x : In(x, r) <=> In(x, chain[g]) /\ x # e
        /\ \A i, j \in 1 .. Len(r) :
             i < j => \E k, m \in 1 .. Len(chain[g]) : k < m /\ chain[g][k] = r[i] /\ chain[g][m] = r[j]
    <2>1. chain[g] \in Seq(Entries) /\ Distinct(chain[g])
      BY <1>3, <1>5
    <2>2. Without(Entries, chain[g], e, r)
      BY <1>6, <2>1, RemovedOne
    <2>. QED
      BY <2>2 DEF Without
  <1>8. c \in [Chains -> Seq(Entries)] /\ c[g] = r /\ \A h \in Chains : h # g => c[h] = chain[h]
    BY <1>3, <1>4, <1>6, <1>7
  <1>9. ASSUME NEW h \in Chains, NEW x \in Entries PROVE In(x, c[h]) <=> In(x, chain[h]) /\ x # e
    <2>1. CASE h = g
      BY <1>7, <1>8, <2>1
    <2>2. CASE h # g
      <3>1. ~In(e, chain[h])
        BY <1>2, <2>2 DEF LcInv, ChainsHold
      <3>. QED
        BY <1>8, <2>2, <3>1
    <2>. QED
      BY <2>1, <2>2
  <1>10. ASSUME NEW h \in Chains, NEW i \in 1 .. Len(c[h]), NEW j \in 1 .. Len(c[h]), i < j
         PROVE  Before(c[h][j], c[h][i])
    <2>1. CASE h = g
      <3>1. PICK k, m \in 1 .. Len(chain[g]) : k < m /\ chain[g][k] = r[i] /\ chain[g][m] = r[j]
        BY <1>7, <1>8, <1>10, <2>1
      <3>2. Before(chain[g][m], chain[g][k])
        BY <1>3, <3>1 DEF LcInv, ChainsSorted
      <3>. QED
        BY <1>8, <2>1, <3>1, <3>2
    <2>2. CASE h # g
      BY <1>8, <1>10, <2>2 DEF LcInv, ChainsSorted
    <2>. QED
      BY <2>1, <2>2
  <1>. QED
    BY <1>1, <1>8, <1>9, <1>10

(* A key whose newest entry is the oldest of all has no other; once that   *)
(* can be reused, what it holds is as old as the ttl.                      *)
LEMMA OldestReused ==
  ASSUME LcInv, NEW e, e = Head(queue), NEW t \in CacheThreads, lcOp[t].pc = "update",
         CanReuse(e, lcOp[t].time), NEW k \in CacheKeys
  PROVE  /\ (\A f \in Entries : f # e => entry[f].key # k) =>
              lcLatest[k].val = NoVal \/ lcLatest[k].time + CacheTTL <= lcNow
         /\ \A f \in Entries : f # e => Before(e, f)
  <1>1. e \in Entries /\ \A f \in Entries : f # e => Before(e, f)
    BY QueueOrder
  <1>2. /\ lcNow \in Nat /\ CacheTTL \in Nat /\ entry[e].time \in Nat /\ lcOp[t].time \in Nat
        /\ lcOp[t].time <= lcNow
    <2>1. lcOp[t] \in {LcIdle} \cup UpdateRec /\ entry[e] \in CacheRec
      BY <1>1 DEF LcInv, LcTypeOK
    <2>2. lcOp[t] \in UpdateRec
      BY <2>1 DEF LcIdle
    <2>3. lcOp[t].time \in Nat /\ entry[e].time \in Nat
      BY <2>1, <2>2 DEF UpdateRec, CacheRec
    <2>. QED
      BY <2>3, CacheConstants DEF LcInv, LcTypeOK, TimesPast
  <1>3. entry[e].time + CacheTTL <= lcNow
    BY <1>2 DEF CanReuse
  <1>4. ASSUME \A f \in Entries : f # e => entry[f].key # k
        PROVE  lcLatest[k].val = NoVal \/ lcLatest[k].time + CacheTTL <= lcNow
    <2>1. CASE entry[e].key = k
      <3>1. IsNewest(e, k)
        BY <1>4, <2>1 DEF IsNewest
      <3>2. entry[e].time = lcLatest[k].time
        BY <1>1, <3>1 DEF LcInv, NewestIsLatest
      <3>. QED
        BY <1>3, <3>2
    <2>2. CASE entry[e].key # k
      BY <1>4, <2>2 DEF LcInv, NewestIsLatest
    <2>. QED
      BY <2>1, <2>2
  <1>. QED
    BY <1>1, <1>4

(* Steps that change neither entries nor queue nor chains.                 *)
LEMMA LcQuiet ==
  ASSUME LcInv, UNCHANGED <<entry, queue, chain, lcLatest>>, lcNow' \in Nat, lcNow <= lcNow',
         lcOp' \in [CacheThreads -> {LcIdle} \cup UpdateRec],
         \A t \in CacheThreads : lcOp'[t].pc = "update" => lcOp'[t].time <= lcNow'
  PROVE  LcInv'
  <1>1. LcTypeOK'
    BY DEF LcInv, LcTypeOK
  <1>2. TimesPast'
    BY DEF LcInv, LcTypeOK, TimesPast
  <1>3. QueueAll' /\ ChainsHold' /\ ChainsSorted'
    BY DEF LcInv, QueueAll, ChainsHold, ChainsSorted, Before, In
  <1>4. NewestIsLatest'
    <2>1. ASSUME NEW k \in CacheKeys, NEW e \in Entries, IsNewest(e, k)'
          PROVE  entry'[e].val = lcLatest'[k].val /\ entry'[e].time = lcLatest'[k].time
      <3>1. IsNewest(e, k)
        BY <2>1 DEF IsNewest, Before
      <3>. QED
        BY <3>1 DEF LcInv, NewestIsLatest
    <2>2. ASSUME NEW k \in CacheKeys, \A e \in Entries : entry'[e].key # k
          PROVE  lcLatest'[k].val = NoVal \/ lcLatest'[k].time + CacheTTL <= lcNow'
      <3>1. lcLatest[k].val = NoVal \/ lcLatest[k].time + CacheTTL <= lcNow
        BY <2>2 DEF LcInv, NewestIsLatest
      <3>2. lcLatest[k].time \in Nat /\ CacheTTL \in Nat /\ lcNow \in Nat
        BY CacheConstants DEF LcInv, LcTypeOK
      <3>. QED
        BY <3>1, <3>2
    <2>. QED
      BY <2>1, <2>2 DEF NewestIsLatest
  <1>. QED
    BY <1>1, <1>2, <1>3, <1>4 DEF LcInv

(* An update that fails has emptied the oldest entry.                      *)
LEMMA LcFails ==
  ASSUME LcInv, NEW t \in CacheThreads, LocalUpdateFails(t)
  PROVE  LcInv'
  <1>1. PICK e : e = Head(queue)
    OBVIOUS
  <1>2. e \in Entries
    BY <1>1, QueueOrder
  <1>3. /\ lcOp[t].pc = "update" /\ CanReuse(e, lcOp[t].time)
        /\ chain' = Unlinked(e) /\ entry' = [entry EXCEPT ![e] = EmptyEntry]
        /\ lcOp' = [lcOp EXCEPT ![t] = LcIdle] /\ UNCHANGED <<lcNow, queue, lcLatest>>
    BY <1>1 DEF LocalUpdateFails
  <1>4. EmptyEntry \in CacheRec /\ EmptyEntry.key = NoKey /\ EmptyEntry.hash = 0
    BY CacheConstants DEF EmptyEntry, CacheRec
  <1>5. entry' \in [Entries -> CacheRec] /\ entry'[e] = EmptyEntry /\ \A f \in Entries : f # e => entry'[f] = entry[f]
    BY <1>2, <1>3, <1>4 DEF LcInv, LcTypeOK
  <1>6. lcOp' \in [CacheThreads -> {LcIdle} \cup UpdateRec]
    BY <1>3 DEF LcInv, LcTypeOK
  <1>7. /\ chain' \in [Chains -> Seq(Entries)]
        /\ \A h \in Chains, x \in Entries : In(x, chain'[h]) <=> In(x, chain[h]) /\ x # e
        /\ \A h \in Chains : \A i, j \in 1 .. Len(chain'[h]) : i < j => Before(chain'[h][j], chain'[h][i])
    BY <1>2, <1>3, UnlinksOldest
  <1>8. LcTypeOK'
    BY <1>3, <1>5, <1>6, <1>7 DEF LcInv, LcTypeOK
  <1>9. TimesPast'
    BY <1>3 DEF LcInv, LcTypeOK, TimesPast, LcIdle
  <1>10. QueueAll' /\ \A a, b \in Entries : Before(a, b)' <=> Before(a, b)
    BY <1>3 DEF LcInv, QueueAll, Before
  <1>11. ChainsHold'
    <2>1. \A f \in Entries : entry'[f].hash = IF entry'[f].key = NoKey THEN 0 ELSE CacheHash[entry'[f].key]
      BY <1>4, <1>5 DEF LcInv, ChainsHold
    <2>2. \A h \in Chains, f \in Entries : In(f, chain'[h]) <=> entry'[f].key # NoKey /\ entry'[f].hash = h
      BY <1>4, <1>5, <1>7 DEF LcInv, ChainsHold
    <2>. QED
      BY <2>1, <2>2 DEF ChainsHold, In
  <1>12. ChainsSorted'
    <2>1. ASSUME NEW h \in Chains, NEW i \in 1 .. Len(chain'[h]), NEW j \in 1 .. Len(chain'[h]), i < j
          PROVE  Before(chain[h][j], chain[h][i])'
      <3>1. Before(chain'[h][j], chain'[h][i])
        BY <1>7, <2>1
      <3>. QED
        BY <1>3, <3>1 DEF Before
    <2>. QED
      BY <2>1 DEF ChainsSorted
  <1>13. NewestIsLatest'
    <2>1. ASSUME NEW k \in CacheKeys, NEW f \in Entries, IsNewest(f, k)'
          PROVE  entry'[f].val = lcLatest'[k].val /\ entry'[f].time = lcLatest'[k].time
      <3>1. entry'[f].key = k /\ \A g \in Entries : entry'[g].key = k => g = f \/ Before(g, f)
        BY <1>10, <2>1 DEF IsNewest
      <3>2. f # e /\ k # NoKey
        BY <1>4, <1>5, <3>1, CacheConstants
      <3>3. Before(e, f)
        BY <1>1, <1>3, <3>2, OldestReused
      <3>4. IsNewest(f, k)
        BY <1>5, <3>1, <3>2, <3>3 DEF IsNewest
      <3>. QED
        BY <1>3, <1>5, <3>2, <3>4 DEF LcInv, NewestIsLatest
    <2>2. ASSUME NEW k \in CacheKeys, \A f \in Entries : entry'[f].key # k
          PROVE  lcLatest'[k].val = NoVal \/ lcLatest'[k].time + CacheTTL <= lcNow'
      <3>1. \A f \in Entries : f # e => entry[f].key # k
        BY <1>5, <2>2
      <3>. QED
        BY <1>1, <1>3, <3>1, OldestReused
    <2>. QED
      BY <2>1, <2>2 DEF NewestIsLatest
  <1>. QED
    BY <1>8, <1>9, <1>10, <1>11, <1>12, <1>13 DEF LcInv

(* The oldest entry becomes the newest, the others keep their order.       *)
LEMMA RequeuesHead ==
  ASSUME Items > 1, LcInv, NEW e, e = Head(queue), queue' = Requeue(queue)
  PROVE  /\ queue' \in [1 .. Items -> Entries] /\ QueueAll'
         /\ \A a, b \in Entries : a # e /\ b # e /\ Before(a, b) => Before(a, b)'
         /\ \A a, b \in Entries : a # e /\ b # e /\ Before(a, b)' => Before(a, b)
         /\ \A a \in Entries : a # e => Before(a, e)' /\ ~Before(e, a)'
  <1>1. /\ Items \in Nat /\ queue \in [1 .. Items -> Entries]
        /\ (\A i, j \in 1 .. Items : i < j => queue[i] # queue[j])
        /\ (\A x \in Entries : \E i \in 1 .. Items : queue[i] = x)
    BY CacheConstants DEF LcInv, LcTypeOK, QueueAll
  <1>2. queue \in Seq(Entries) /\ Len(queue) = Items /\ queue # <<>>
    <2>1. queue \in Seq(Entries) /\ Len(queue) = Items
      BY <1>1
    <2>. QED
      BY <2>1
  <1>3. e = queue[1] /\ e \in Entries
    BY <1>1, <1>2
  <1>4. queue' = Append(Tail(queue), e)
    BY <1>1, <1>2 DEF Requeue
  <1>5. Tail(queue) \in Seq(Entries) /\ Len(Tail(queue)) = Items - 1 /\ \A i \in 1 .. Items - 1 : Tail(queue)[i] = queue[i + 1]
    BY <1>1, <1>2
  <1>6. queue' \in [1 .. Items -> Entries]
    <2>1. queue' \in Seq(Entries) /\ Len(queue') = Items
      BY <1>1, <1>3, <1>4, <1>5
    <2>. QED
      BY <2>1
  <1>7. queue'[Items] = e /\ \A i \in 1 .. Items - 1 : queue'[i] = queue[i + 1]
    BY <1>1, <1>3, <1>4, <1>5
  <1>8. \A i \in 1 .. Items - 1 : i + 1 \in 1 .. Items /\ i \in 1 .. Items /\ i < Items /\ queue[i + 1] # e
    BY <1>1, <1>3
  <1>9. \A i \in 1 .. Items : i = Items \/ i \in 1 .. Items - 1
    BY <1>1
  <1>10. \A i \in 1 .. Items : i = 1 \/ (i - 1 \in 1 .. Items - 1 /\ (i - 1) + 1 = i /\ queue'[i - 1] = queue[i])
    BY <1>1, <1>7
  <1>11. QueueAll'
    <2>1. ASSUME NEW i \in 1 .. Items, NEW j \in 1 .. Items, i < j PROVE queue'[i] # queue'[j]
      <3>1. i \in 1 .. Items - 1
        BY <1>1, <2>1
      <3>2. CASE j = Items
        BY <1>7, <1>8, <3>1, <3>2
      <3>3. CASE j \in 1 .. Items - 1
        <4>1. i + 1 \in 1 .. Items /\ j + 1 \in 1 .. Items /\ i + 1 < j + 1
          BY <1>1, <2>1, <3>1, <3>3
        <4>. QED
          BY <1>1, <1>7, <3>1, <3>3, <4>1
      <3>. QED
        BY <1>9, <3>2, <3>3
    <2>2. ASSUME NEW x \in Entries PROVE \E i \in 1 .. Items : queue'[i] = x
      <3>1. PICK i \in 1 .. Items : queue[i] = x
        BY <1>1
      <3>2. CASE i = 1
        BY <1>1, <1>3, <1>7, <3>1, <3>2
      <3>3. CASE i # 1
        BY <1>8, <1>10, <3>1, <3>3
      <3>. QED
        BY <3>2, <3>3
    <2>. QED
      BY <2>1, <2>2 DEF QueueAll
  <1>12. ASSUME NEW a \in Entries, NEW b \in Entries, a # e, b # e, Before(a, b) PROVE Before(a, b)'
    <2>1. PICK i, j \in 1 .. Items : i < j /\ queue[i] = a /\ queue[j] = b
      BY <1>12 DEF Before
    <2>2. i # 1 /\ j # 1
      BY <1>3, <1>12, <2>1
    <2>3. PICK m : m = i - 1
      OBVIOUS
    <2>4. PICK n : n = j - 1
      OBVIOUS
    <2>5. m \in 1 .. Items /\ n \in 1 .. Items /\ m < n /\ queue'[m] = a /\ queue'[n] = b
      BY <1>8, <1>10, <2>1, <2>2, <2>3, <2>4
    <2>. QED
      BY <2>5 DEF Before
  <1>13. ASSUME NEW a \in Entries, NEW b \in Entries, a # e, b # e, Before(a, b)' PROVE Before(a, b)
    <2>1. PICK i, j \in 1 .. Items : i < j /\ queue'[i] = a /\ queue'[j] = b
      BY <1>13 DEF Before
    <2>2. i \in 1 .. Items - 1 /\ j \in 1 .. Items - 1
      BY <1>7, <1>9, <1>13, <2>1
    <2>3. PICK m : m = i + 1
      OBVIOUS
    <2>4. PICK n : n = j + 1
      OBVIOUS
    <2>5. m \in 1 .. Items /\ n \in 1 .. Items /\ m < n /\ queue[m] = a /\ queue[n] = b
      BY <1>7, <1>8, <2>1, <2>2, <2>3, <2>4
    <2>. QED
      BY <2>5 DEF Before
  <1>14. ASSUME NEW a \in Entries, a # e PROVE Before(a, e)' /\ ~Before(e, a)'
    <2>1. PICK i \in 1 .. Items : queue[i] = a
      BY <1>1
    <2>2. PICK m : m = i - 1
      OBVIOUS
    <2>3. m \in 1 .. Items - 1 /\ queue'[m] = a
      BY <1>3, <1>10, <1>14, <2>1, <2>2
    <2>4. Before(a, e)'
      <3>1. m \in 1 .. Items /\ Items \in 1 .. Items /\ m < Items
        BY <1>1, <2>3
      <3>. QED
        BY <1>7, <2>3, <3>1 DEF Before
    <2>5. ASSUME Before(e, a)' PROVE FALSE
      <3>1. PICK j, n \in 1 .. Items : j < n /\ queue'[j] = e /\ queue'[n] = a
        BY <2>5 DEF Before
      <3>2. j \in 1 .. Items - 1
        BY <1>1, <3>1
      <3>. QED
        BY <1>7, <1>8, <3>1, <3>2
    <2>. QED
      BY <2>4, <2>5
  <1>. QED
    BY <1>6, <1>11, <1>12, <1>13, <1>14

(* A value is stored in the oldest entry.                                  *)
LEMMA LcStores ==
  ASSUME Items > 1, LcInv, NEW t \in CacheThreads, ci_local_cache_update(t)
  PROVE  LcInv'
  <1>1. PICK e : e = Head(queue)
    OBVIOUS
  <1>2. PICK o : o = lcOp[t]
    OBVIOUS
  <1>3. PICK h : h = CacheHash[o.key]
    OBVIOUS
  <1>4. PICK n : n = [key |-> o.key, val |-> o.val, time |-> o.time, hash |-> h]
    OBVIOUS
  <1>5. /\ o.pc = "update" /\ CanReuse(e, o.time)
        /\ entry' = [entry EXCEPT ![e] = n]
        /\ chain' = [Unlinked(e) EXCEPT ![h] = <<e>> \o Unlinked(e)[h]]
        /\ queue' = Requeue(queue)
        /\ lcLatest' = [lcLatest EXCEPT ![o.key] = [val |-> o.val, time |-> o.time]]
        /\ lcOp' = [lcOp EXCEPT ![t] = LcIdle] /\ lcNow' = lcNow
    BY <1>1, <1>2, <1>3, <1>4 DEF ci_local_cache_update
  <1>6. e \in Entries
    BY <1>1, QueueOrder
  <1>7. /\ o.key \in CacheKeys /\ o.val \in CacheValues /\ o.time \in Nat /\ o.time <= lcNow
        /\ o.key # NoKey /\ h \in Chains
    <2>1. o \in {LcIdle} \cup UpdateRec /\ o.time <= lcNow
      BY <1>2, <1>5 DEF LcInv, LcTypeOK, TimesPast
    <2>2. o \in UpdateRec
      BY <1>5, <2>1 DEF LcIdle
    <2>3. o.key \in CacheKeys /\ o.val \in CacheValues /\ o.time \in Nat
      BY <2>2 DEF UpdateRec
    <2>. QED
      BY <1>3, <2>1, <2>3, CacheConstants
  <1>8. n \in CacheRec /\ n.key = o.key /\ n.val = o.val /\ n.time = o.time /\ n.hash = h
    BY <1>4, <1>7 DEF CacheRec
  <1>9. entry' \in [Entries -> CacheRec] /\ entry'[e] = n /\ \A f \in Entries : f # e => entry'[f] = entry[f]
    BY <1>5, <1>6, <1>8 DEF LcInv, LcTypeOK
  <1>10. /\ lcLatest' \in [CacheKeys -> [val : CacheValues \cup {NoVal}, time : Nat]]
         /\ lcLatest'[o.key].val = o.val /\ lcLatest'[o.key].time = o.time
         /\ \A k \in CacheKeys : k # o.key => lcLatest'[k] = lcLatest[k]
    BY <1>5, <1>7 DEF LcInv, LcTypeOK
  <1>11. lcOp' \in [CacheThreads -> {LcIdle} \cup UpdateRec]
    BY <1>5 DEF LcInv, LcTypeOK
  <1>12. /\ queue' \in [1 .. Items -> Entries] /\ QueueAll'
         /\ \A a, b \in Entries : a # e /\ b # e /\ Before(a, b) => Before(a, b)'
         /\ \A a, b \in Entries : a # e /\ b # e /\ Before(a, b)' => Before(a, b)
         /\ \A a \in Entries : a # e => Before(a, e)' /\ ~Before(e, a)'
    BY <1>1, <1>5, RequeuesHead
  <1>13. PICK c : c = Unlinked(e)
    OBVIOUS
  <1>14. /\ c \in [Chains -> Seq(Entries)]
         /\ \A g \in Chains, x \in Entries : In(x, c[g]) <=> In(x, chain[g]) /\ x # e
         /\ \A g \in Chains : \A i, j \in 1 .. Len(c[g]) : i < j => Before(c[g][j], c[g][i])
    BY <1>6, <1>13, UnlinksOldest
  <1>15. PICK r : r = <<e>> \o c[h]
    OBVIOUS
  <1>16. c[h] \in Seq(Entries) /\ Len(c[h]) \in Nat
    BY <1>7, <1>14
  <1>17. /\ r \in Seq(Entries) /\ Len(r) = Len(c[h]) + 1 /\ r[1] = e
         /\ \A i \in 2 .. Len(r) : r[i] = c[h][i - 1]
    BY <1>6, <1>15, <1>16
  <1>18. chain' = [c EXCEPT ![h] = r]
    BY <1>5, <1>13, <1>15
  <1>19. chain' \in [Chains -> Seq(Entries)] /\ chain'[h] = r /\ \A g \in Chains : g # h => chain'[g] = c[g]
    BY <1>7, <1>14, <1>17, <1>18
  <1>20. LcTypeOK'
    BY <1>5, <1>9, <1>10, <1>11, <1>12, <1>19 DEF LcInv, LcTypeOK
  <1>21. TimesPast'
    <2>1. \A s \in CacheThreads : lcOp'[s].pc = "update" => lcOp'[s].time <= lcNow'
      BY <1>5 DEF LcInv, LcTypeOK, TimesPast, LcIdle
    <2>2. \A k \in CacheKeys : lcLatest'[k].time <= lcNow'
      BY <1>5, <1>7, <1>10 DEF LcInv, TimesPast
    <2>. QED
      BY <2>1, <2>2 DEF TimesPast
  <1>22. ASSUME NEW x \in Entries PROVE In(x, r) <=> x = e \/ In(x, c[h])
    <2>1. ASSUME In(x, r), x # e PROVE In(x, c[h])
      <3>1. PICK i \in 1 .. Len(r) : r[i] = x
        BY <2>1 DEF In
      <3>2. i # 1
        BY <1>17, <2>1, <3>1
      <3>3. i \in 2 .. Len(r) /\ i - 1 \in 1 .. Len(c[h])
        BY <1>16, <1>17, <3>1, <3>2
      <3>. QED
        BY <1>17, <3>1, <3>3 DEF In
    <2>2. ASSUME x = e PROVE In(x, r)
      <3>1. 1 \in 1 .. Len(r)
        BY <1>16, <1>17
      <3>. QED
        BY <1>17, <2>2, <3>1 DEF In
    <2>3. ASSUME In(x, c[h]) PROVE In(x, r)
      <3>1. PICK i \in 1 .. Len(c[h]) : c[h][i] = x
        BY <2>3 DEF In
      <3>2. PICK m : m = i + 1
        OBVIOUS
      <3>3. m \in 2 .. Len(r) /\ m \in 1 .. Len(r) /\ m - 1 = i
        BY <1>16, <1>17, <3>1, <3>2
      <3>4. r[m] = x
        BY <1>17, <3>1, <3>3
      <3>. QED
        BY <3>3, <3>4 DEF In
    <2>. QED
      BY <2>1, <2>2, <2>3
  <1>23. ChainsHold'
    <2>1. \A f \in Entries : entry'[f].hash = IF entry'[f].key = NoKey THEN 0 ELSE CacheHash[entry'[f].key]
      BY <1>3, <1>7, <1>8, <1>9 DEF LcInv, ChainsHold
    <2>2. ASSUME NEW g \in Chains, NEW f \in Entries
          PROVE  In(f, chain'[g]) <=> entry'[f].key # NoKey /\ entry'[f].hash = g
      <3>1. CASE f = e
        <4>1. ~In(e, c[g])
          BY <1>6, <1>14
        <4>2. CASE g = h
          BY <1>6, <1>7, <1>8, <1>9, <1>19, <1>22, <3>1, <4>2
        <4>3. CASE g # h
          BY <1>7, <1>8, <1>9, <1>19, <3>1, <4>1, <4>3
        <4>. QED
          BY <4>2, <4>3
      <3>2. CASE f # e
        <4>1. In(f, c[g]) <=> entry[f].key # NoKey /\ entry[f].hash = g
          BY <1>14, <3>2 DEF LcInv, ChainsHold
        <4>2. In(f, chain'[g]) <=> In(f, c[g])
          BY <1>19, <1>22, <3>2
        <4>. QED
          BY <1>9, <3>2, <4>1, <4>2
      <3>. QED
        BY <3>1, <3>2
    <2>. QED
      BY <2>1, <2>2 DEF ChainsHold, In
  <1>24. ChainsSorted'
    <2>0. ASSUME NEW g \in Chains, NEW i \in 1 .. Len(c[g]), NEW j \in 1 .. Len(c[g]), i < j,
                 NEW a, NEW b, a = c[g][j], b = c[g][i]
          PROVE  a \in Entries /\ b \in Entries /\ a # e /\ b # e /\ Before(a, b)'
      <3>1. c[g] \in Seq(Entries)
        BY <1>14
      <3>2. a \in Entries /\ b \in Entries
        BY <2>0, <3>1
      <3>3. In(a, c[g]) /\ In(b, c[g])
        BY <2>0 DEF In
      <3>4. a # e /\ b # e
        BY <1>14, <3>2, <3>3
      <3>5. Before(a, b)
        BY <1>14, <2>0
      <3>. QED
        BY <1>12, <3>2, <3>4, <3>5
    <2>1. ASSUME NEW g \in Chains, NEW i \in 1 .. Len(chain'[g]), NEW j \in 1 .. Len(chain'[g]), i < j,
                 NEW a, NEW b, a = chain'[g][j], b = chain'[g][i]
          PROVE  Before(a, b)'
      <3>1. CASE g # h
        BY <1>19, <2>0, <2>1, <3>1
      <3>2. CASE g = h
        <4>0. i \in 1 .. Len(r) /\ j \in 1 .. Len(r) /\ a = r[j] /\ b = r[i]
          BY <1>19, <2>1, <3>2
        <4>1. j \in 2 .. Len(r) /\ j - 1 \in 1 .. Len(c[h]) /\ a = c[h][j - 1]
          BY <1>16, <1>17, <2>1, <4>0
        <4>2. CASE i = 1
          <5>1. b = e
            BY <1>17, <4>0, <4>2
          <5>2. a \in Entries /\ In(a, c[h])
            BY <1>16, <4>1 DEF In
          <5>3. a # e
            BY <1>7, <1>14, <5>2
          <5>. QED
            BY <1>12, <5>1, <5>2, <5>3
        <4>3. CASE i # 1
          <5>1. i \in 2 .. Len(r) /\ i - 1 \in 1 .. Len(c[h]) /\ b = c[h][i - 1] /\ i - 1 < j - 1
            BY <1>16, <1>17, <2>1, <4>0, <4>3
          <5>. QED
            BY <1>7, <2>0, <4>1, <5>1
        <4>. QED
          BY <4>2, <4>3
      <3>. QED
        BY <3>1, <3>2
    <2>. QED
      BY <2>1 DEF ChainsSorted, Before
  <1>25. NewestIsLatest'
    <2>1. ASSUME NEW k \in CacheKeys, NEW f \in Entries, IsNewest(f, k)'
          PROVE  entry'[f].val = lcLatest'[k].val /\ entry'[f].time = lcLatest'[k].time
      <3>1. entry'[f].key = k /\ \A g \in Entries : entry'[g].key = k => g = f \/ Before(g, f)'
        BY <2>1 DEF IsNewest
      <3>2. CASE k = o.key
        <4>1. f = e
          BY <1>6, <1>8, <1>9, <1>12, <3>1, <3>2
        <4>. QED
          BY <1>8, <1>9, <1>10, <3>2, <4>1
      <3>3. CASE k # o.key
        <4>1. f # e
          BY <1>8, <1>9, <3>1, <3>3
        <4>2. Before(e, f)
          BY <1>1, <1>2, <1>5, <4>1, OldestReused
        <4>3. ASSUME NEW g \in Entries, entry[g].key = k PROVE g = f \/ Before(g, f)
          BY <1>9, <1>12, <3>1, <4>1, <4>2, <4>3
        <4>4. IsNewest(f, k)
          BY <1>9, <3>1, <4>1, <4>3 DEF IsNewest
        <4>. QED
          BY <1>9, <1>10, <3>3, <4>1, <4>4 DEF LcInv, NewestIsLatest
      <3>. QED
        BY <3>2, <3>3
    <2>2. ASSUME NEW k \in CacheKeys, \A f \in Entries : entry'[f].key # k
          PROVE  lcLatest'[k].val = NoVal \/ lcLatest'[k].time + CacheTTL <= lcNow'
      <3>1. k # o.key
        BY <1>6, <1>8, <1>9, <2>2
      <3>2. \A f \in Entries : f # e => entry[f].key # k
        BY <1>9, <2>2
      <3>3. lcLatest[k].val = NoVal \/ lcLatest[k].time + CacheTTL <= lcNow
        BY <1>1, <1>2, <1>5, <3>2, OldestReused
      <3>. QED
        BY <1>5, <1>10, <3>1, <3>3
    <2>. QED
      BY <2>1, <2>2 DEF NewestIsLatest
  <1>. QED
    BY <1>12, <1>20, <1>21, <1>23, <1>24, <1>25 DEF LcInv

(* Every step.                                                             *)
LEMMA LcStep == Items > 1 /\ LcInv /\ [LocalCacheNext]_lcVars => LcInv'
  <1>. SUFFICES ASSUME Items > 1, LcInv, [LocalCacheNext]_lcVars PROVE LcInv'
    OBVIOUS
  <1>0. lcNow \in Nat /\ lcOp \in [CacheThreads -> {LcIdle} \cup UpdateRec]
        /\ \A t \in CacheThreads : lcOp[t].pc = "update" => lcOp[t].time <= lcNow
    BY DEF LcInv, LcTypeOK, TimesPast
  <1>1. ASSUME NEW t \in CacheThreads, LocalUpdateStart(t) PROVE LcInv'
    <2>1. PICK k \in CacheKeys, v \in CacheValues :
            lcOp' = [lcOp EXCEPT ![t] = [pc |-> "update", key |-> k, val |-> v, time |-> lcNow]]
      BY <1>1 DEF LocalUpdateStart
    <2>2. [pc |-> "update", key |-> k, val |-> v, time |-> lcNow] \in UpdateRec
      BY <1>0 DEF UpdateRec
    <2>3. lcOp' \in [CacheThreads -> {LcIdle} \cup UpdateRec]
      BY <1>0, <2>1, <2>2
    <2>4. UNCHANGED <<lcNow, entry, queue, chain, lcLatest>>
      BY <1>1 DEF LocalUpdateStart
    <2>5. \A s \in CacheThreads : lcOp'[s].pc = "update" => lcOp'[s].time <= lcNow'
      BY <1>0, <2>1, <2>4
    <2>. QED
      BY <1>0, <2>3, <2>4, <2>5, LcQuiet
  <1>2. ASSUME NEW t \in CacheThreads, LocalUpdateNoSlot(t) PROVE LcInv'
    <2>1. UNCHANGED <<lcNow, entry, queue, chain, lcLatest>> /\ lcOp' = [lcOp EXCEPT ![t] = LcIdle]
      BY <1>2 DEF LocalUpdateNoSlot
    <2>2. lcOp' \in [CacheThreads -> {LcIdle} \cup UpdateRec]
      BY <1>0, <2>1
    <2>3. \A s \in CacheThreads : lcOp'[s].pc = "update" => lcOp'[s].time <= lcNow'
      BY <1>0, <2>1 DEF LcIdle
    <2>. QED
      BY <1>0, <2>1, <2>2, <2>3, LcQuiet
  <1>3. CASE LocalCacheTick
    <2>1. UNCHANGED <<entry, queue, chain, lcOp, lcLatest>> /\ lcNow' = lcNow + 1
      BY <1>3 DEF LocalCacheTick
    <2>2. lcNow' \in Nat /\ lcNow <= lcNow'
      BY <1>0, <2>1
    <2>3. \A s \in CacheThreads : lcOp[s].pc = "update" => lcOp[s].time \in Nat
      BY <1>0 DEF LcIdle, UpdateRec
    <2>4. \A s \in CacheThreads : lcOp'[s].pc = "update" => lcOp'[s].time <= lcNow'
      BY <1>0, <2>1, <2>2, <2>3
    <2>. QED
      BY <1>0, <2>1, <2>2, <2>4, LcQuiet
  <1>4. CASE UNCHANGED lcVars
    <2>1. UNCHANGED <<lcNow, entry, queue, chain, lcOp, lcLatest>>
      BY <1>4 DEF lcVars
    <2>. QED
      BY <1>0, <2>1, LcQuiet
  <1>. QED
    BY <1>1, <1>2, <1>3, <1>4, LcFails, LcStores DEF LocalCacheNext

(* A search of the local cache finds the value stored last until it is as  *)
(* old as the ttl and nothing after that, for any number of threads, keys  *)
(* and entries, any hash function and updates that come late or fail.  A   *)
(* cache of a single entry is left out: its queue is empty after the first *)
(* update, and the second one reads the entry of a null pointer.           *)
THEOREM CacheSearchesLatest == Items > 1 => (LocalCacheSpec => []LocalSearchIsLatest)
  <1>. SUFFICES ASSUME Items > 1 PROVE LocalCacheSpec => []LocalSearchIsLatest
    OBVIOUS
  <1>1. LocalCacheInit => LcInv
    BY LcInit
  <1>2. LcInv /\ [LocalCacheNext]_lcVars => LcInv'
    BY LcStep
  <1>3. LcInv => LocalSearchIsLatest
    BY LcInvLatest
  <1>. QED
    BY <1>1, <1>2, <1>3, PTL DEF LocalCacheSpec

(***************************************************************************)
(* The connections of the LDAP pools                                       *)
(***************************************************************************)
LdAnswers == {NoRow, "failed"} \cup {Directory[k] : k \in LdapKeys}
Serving == {"query", "release", "close", "closefatal"}
Coming == {"bind", "bound", "unbound", "unboundfatal"}
Signalling == {"signalrelease", "signalclose", "signalclosefatal"}
Holding == Serving \cup {"bound", "signalclose", "signalclosefatal"}
Busy == [pc : {"get", "wait", "woken"} \cup Serving \cup Coming \cup Signalling, table : Nat,
         key : LdapKeys, failures : Nat, conn : Nat, answer : LdAnswers]
Done == [pc : {"done"}, key : LdapKeys, answer : LdAnswers]
IdleConn == [conn : Nat, last_use : Nat]
PoolRec == [uri : LdapUris, max_connections : Nat, connections : Int, ontheway : Int,
            inactive : Seq(IdleConn), used : SUBSET Nat]

LdType ==
  /\ ldapPhase \in {"reading", "running", "crashed"}
  /\ ldap_pools \in Seq(PoolRec) /\ ldapTables \in Seq(Nat)
  /\ \A t \in DOMAIN ldapTables : ldapTables[t] \in DOMAIN ldap_pools
  /\ ldapCache \in Seq([LdapKeys -> LdAnswers \cup {"nothing"}]) /\ Len(ldapCache) = Len(ldapTables)
  /\ nextConn \in Nat \ {0} /\ ldapTime \in Nat
  /\ ld \in [LdapThreads -> {LdapIdle} \cup Done \cup Busy]
  /\ \A w \in LdapThreads : ld[w] \in Busy => ld[w].table \in DOMAIN ldapTables

(* Nobody searches before the configuration has been read.                 *)
Reading ==
  ldapPhase # "running" =>
    /\ \A w \in LdapThreads : ld[w] = LdapIdle
    /\ \A i \in DOMAIN ldap_pools :
         /\ ldap_pools[i].connections = 0 /\ ldap_pools[i].ontheway = 0
         /\ ldap_pools[i].inactive = <<>> /\ ldap_pools[i].used = {}

(* A connection that a thread has is bound, neither idle nor about to be   *)
(* closed by the command, and no other thread's; the used connections of a *)
(* pool are those that some thread uses.                                   *)
HeldOnce ==
  /\ \A w \in LdapThreads : ld[w].pc \in Holding =>
       /\ ld[w].conn \in bound /\ ld[w].conn \notin conn_to_free
       /\ \A i \in DOMAIN ldap_pools : ld[w].conn \notin Idles(ldap_pools[i])
       /\ \A v \in LdapThreads : ld[v].pc \in Holding /\ ld[v].conn = ld[w].conn => v = w
  /\ \A w \in LdapThreads : ld[w].pc \in Serving => ld[w].conn \in ldap_pools[PoolOfSearch(w)].used
  /\ \A i \in DOMAIN ldap_pools : \A c \in ldap_pools[i].used : \E w \in LdapThreads : w \in Using(i, c)

(* An idle connection is bound, and idle once and in one pool.             *)
IdleOnce ==
  /\ bound \subseteq 1 .. nextConn - 1 /\ conn_to_free \subseteq bound
  /\ \A i \in DOMAIN ldap_pools : Idles(ldap_pools[i]) \subseteq bound \ conn_to_free
  /\ \A i, j \in DOMAIN ldap_pools :
       \A m \in DOMAIN ldap_pools[i].inactive, n \in DOMAIN ldap_pools[j].inactive :
         ldap_pools[i].inactive[m].conn = ldap_pools[j].inactive[n].conn => i = j /\ m = n

(* A pool counts what it has.                                              *)
PoolCounts ==
  \A i \in DOMAIN ldap_pools :
    /\ IsFiniteSet(ldap_pools[i].used)
    /\ ldap_pools[i].connections = Len(ldap_pools[i].inactive) + Cardinality(ldap_pools[i].used)
    /\ ldap_pools[i].ontheway = Cardinality(OnTheWay(i))
    /\ ldap_pools[i].max_connections > 0 =>
         ldap_pools[i].connections + ldap_pools[i].ontheway <= ldap_pools[i].max_connections

(* Unless something was missed, a pool with a thread that waits has room   *)
(* for no more connections than threads have been woken or are about to    *)
(* signal; if the thread would take an idle connection, these count too.   *)
Pending(i) == {w \in LdapThreads : ld[w].pc \in Signalling \cup {"woken"} /\ PoolOfSearch(w) = i}
RoomOf(p) == p.max_connections - p.connections - p.ontheway
Awaited ==
  \A w \in LdapThreads : ld[w].pc = "wait" =>
    /\ ldap_pools[PoolOfSearch(w)].max_connections > 0
    /\ PoolOfSearch(w) \notin missed =>
         LET p == ldap_pools[PoolOfSearch(w)]
             n == Cardinality(Pending(PoolOfSearch(w)))
         IN  RoomOf(p) <= n /\ (~force_new(w) => RoomOf(p) + Len(p.inactive) <= n)

(* Answers are what the directory has, in caches too.                      *)
AnswersTrue ==
  /\ \A t \in DOMAIN ldapCache, k \in LdapKeys : ldapCache[t][k] \in {"nothing", Directory[k]}
  /\ \A w \in LdapThreads :
       /\ ld[w].pc \in {"release", "signalrelease"} => ld[w].answer = Directory[ld[w].key]
       /\ ld[w].pc = "done" => ld[w].answer \in {"failed", Directory[ld[w].key]}

LdInv == LdType /\ Reading /\ HeldOnce /\ IdleOnce /\ PoolCounts /\ Awaited /\ AnswersTrue

(* What a thread does tells which fields it has.                           *)
LEMMA ThreadKinds ==
  ASSUME LdType, NEW w \in LdapThreads
  PROVE  /\ ld[w].pc = "idle" <=> ld[w] = LdapIdle
         /\ ld[w].pc = "done" <=> ld[w] \in Done
         /\ ld[w].pc \in {"get", "wait", "woken"} \cup Serving \cup Coming \cup Signalling <=> ld[w] \in Busy
  <1>1. ld[w] \in {LdapIdle} \cup Done \cup Busy
    BY DEF LdType
  <1>2. \A s \in Busy : s.pc \in {"get", "wait", "woken"} \cup Serving \cup Coming \cup Signalling
    BY DEF Busy
  <1>3. \A s \in Done : s.pc = "done"
    BY DEF Done
  <1>4. LdapIdle.pc = "idle"
    BY DEF LdapIdle
  <1>. QED
    BY <1>1, <1>2, <1>3, <1>4 DEF Serving, Coming, Signalling

(* A thread that moves keeps its other fields.                             *)
LEMMA ThreadMoves ==
  ASSUME NEW s \in Busy, NEW to \in {"get", "wait", "woken"} \cup Serving \cup Coming \cup Signalling
  PROVE  LET t == [s EXCEPT !.pc = to]
         IN  /\ t \in Busy /\ t.pc = to /\ t.table = s.table /\ t.key = s.key
             /\ t.failures = s.failures /\ t.conn = s.conn /\ t.answer = s.answer
  BY DEF Busy

(* The pools start without connections.                                    *)
LEMMA LdInit == LdapInit => LdInv
  <1>. SUFFICES ASSUME LdapInit PROVE LdInv
    OBVIOUS
  <1>1. LdType
    <2>1. ld \in [LdapThreads -> {LdapIdle} \cup Done \cup Busy]
      BY DEF LdapInit
    <2>2. \A w \in LdapThreads : ld[w] = LdapIdle
      BY DEF LdapInit
    <2>3. LdapIdle \notin Busy
      BY DEF LdapIdle, Busy, Serving, Coming, Signalling
    <2>4. ldap_pools = <<>> /\ ldapTables = <<>> /\ ldapCache = <<>>
      BY DEF LdapInit
    <2>5. /\ ldap_pools \in Seq(PoolRec) /\ ldapTables \in Seq(Nat)
          /\ ldapCache \in Seq([LdapKeys -> LdAnswers \cup {"nothing"}]) /\ Len(ldapCache) = Len(ldapTables)
          /\ \A t \in DOMAIN ldapTables : ldapTables[t] \in DOMAIN ldap_pools
      BY <2>4
    <2>. QED
      BY <2>1, <2>2, <2>3, <2>5 DEF LdapInit, LdType
  <1>0. Reading
    BY DEF LdapInit, Reading
  <1>2. \A w \in LdapThreads : ld[w].pc = "idle"
    BY DEF LdapInit, LdapIdle
  <1>3. HeldOnce
    BY <1>2 DEF LdapInit, HeldOnce, Holding, Serving
  <1>4. IdleOnce /\ PoolCounts
    BY DEF LdapInit, IdleOnce, PoolCounts
  <1>5. Awaited /\ AnswersTrue
    BY <1>2 DEF LdapInit, Awaited, AnswersTrue
  <1>. QED
    BY <1>0, <1>1, <1>3, <1>4, <1>5 DEF LdInv

(* The invariant says what the pools promise.                              *)
LEMMA LdInvExact == LdInv => PoolsExact
  <1>. SUFFICES ASSUME LdInv PROVE PoolsExact
    OBVIOUS
  <1>0. /\ \A i \in DOMAIN ldap_pools : ldap_pools[i] \in PoolRec
        /\ \A w \in LdapThreads : ld[w].pc = "wait" => PoolOfSearch(w) \in DOMAIN ldap_pools /\ ld[w].failures \in Nat
    <2>1. \A i \in DOMAIN ldap_pools : ldap_pools[i] \in PoolRec
      BY DEF LdInv, LdType
    <2>2. ASSUME NEW w \in LdapThreads, ld[w].pc = "wait"
          PROVE  PoolOfSearch(w) \in DOMAIN ldap_pools /\ ld[w].failures \in Nat
      <3>1. ld[w] \in Busy
        BY <2>2, ThreadKinds DEF LdInv
      <3>. QED
        BY <3>1 DEF LdInv, LdType, PoolOfSearch, Busy
    <2>. QED
      BY <2>1, <2>2
  <1>1. ASSUME NEW i \in DOMAIN ldap_pools
        PROVE  LET p == ldap_pools[i]
               IN  /\ \A c \in p.used : Cardinality(Using(i, c)) = 1
                   /\ p.used \cup Idles(p) \subseteq bound /\ p.used \cap Idles(p) = {}
                   /\ \A j \in DOMAIN ldap_pools \ {i} :
                        (p.used \cup Idles(p)) \cap (ldap_pools[j].used \cup Idles(ldap_pools[j])) = {}
    <2>1. \A j \in DOMAIN ldap_pools : \A c \in ldap_pools[j].used : \E w \in LdapThreads :
            /\ ld[w].pc \in Serving /\ PoolOfSearch(w) = j /\ ld[w].conn = c /\ ld[w].pc \in Holding
            /\ c \in bound /\ \A k \in DOMAIN ldap_pools : c \notin Idles(ldap_pools[k])
            /\ \A v \in LdapThreads : ld[v].pc \in Holding /\ ld[v].conn = c => v = w
      <3>1. ASSUME NEW j \in DOMAIN ldap_pools, NEW c \in ldap_pools[j].used
            PROVE  \E w \in LdapThreads : ld[w].pc \in Serving /\ PoolOfSearch(w) = j /\ ld[w].conn = c
        BY <3>1 DEF LdInv, HeldOnce, Using, Serving
      <3>. QED
        BY <3>1 DEF LdInv, HeldOnce, Holding
    <2>2. ASSUME NEW c \in ldap_pools[i].used PROVE Cardinality(Using(i, c)) = 1
      <3>1. PICK w \in LdapThreads :
              /\ ld[w].pc \in Serving /\ PoolOfSearch(w) = i /\ ld[w].conn = c
              /\ \A v \in LdapThreads : ld[v].pc \in Holding /\ ld[v].conn = c => v = w
        BY <2>1
      <3>2. Using(i, c) = {w}
        BY <3>1 DEF Using, Holding, Serving
      <3>. QED
        BY <3>2, FS_Singleton
    <2>3. \A j, k \in DOMAIN ldap_pools : j # k => Idles(ldap_pools[j]) \cap Idles(ldap_pools[k]) = {}
      BY DEF LdInv, IdleOnce, Idles
    <2>4. \A j, k \in DOMAIN ldap_pools : ldap_pools[j].used \cap Idles(ldap_pools[k]) = {}
      BY <2>1
    <2>5. \A j, k \in DOMAIN ldap_pools : j # k => ldap_pools[j].used \cap ldap_pools[k].used = {}
      BY <2>1
    <2>6. Idles(ldap_pools[i]) \subseteq bound /\ ldap_pools[i].used \subseteq bound
      BY <2>1 DEF LdInv, IdleOnce
    <2>. QED
      BY <2>2, <2>3, <2>4, <2>5, <2>6, Zenon
  <1>2. ASSUME NEW w \in LdapThreads, ld[w].pc = "wait", PoolOfSearch(w) \notin missed,
               \A v \in LdapThreads : ld[v].pc \notin {"signalrelease", "signalclose", "signalclosefatal", "woken"}
        PROVE  /\ Full(ldap_pools[PoolOfSearch(w)])
               /\ force_new(w) \/ ldap_pools[PoolOfSearch(w)].inactive = <<>>
    <2>1. PICK i \in DOMAIN ldap_pools : i = PoolOfSearch(w)
      BY <1>0, <1>2
    <2>2. Pending(i) = {}
      BY <1>2 DEF Pending, Signalling
    <2>3. Cardinality(Pending(i)) = 0
      BY <2>2, FS_EmptySet
    <2>4. /\ ldap_pools[i].max_connections > 0 /\ RoomOf(ldap_pools[i]) <= 0
          /\ ~force_new(w) => RoomOf(ldap_pools[i]) + Len(ldap_pools[i].inactive) <= 0
      BY <1>2, <2>1, <2>3 DEF LdInv, Awaited
    <2>5. /\ ldap_pools[i].max_connections \in Nat /\ ldap_pools[i].connections \in Int
          /\ ldap_pools[i].ontheway \in Int /\ ldap_pools[i].inactive \in Seq(IdleConn)
      BY <1>0 DEF PoolRec
    <2>6. RoomOf(ldap_pools[i]) >= 0
      BY <2>4, <2>5 DEF LdInv, PoolCounts, RoomOf
    <2>7. Full(ldap_pools[i])
      BY <2>4, <2>5 DEF Full, RoomOf
    <2>8. ~force_new(w) => Len(ldap_pools[i].inactive) <= 0
      BY <2>4, <2>5, <2>6, LenProperties DEF RoomOf
    <2>. QED
      BY <2>1, <2>5, <2>7, <2>8, EmptySeq, LenProperties
  <1>. QED
    BY <1>1, <1>2 DEF PoolsExact, LdInv, PoolCounts, AnswersTrue

(* A pool that is replaced in the sequence.                                *)
LEMMA PoolReplaced ==
  ASSUME LdType, NEW i \in DOMAIN ldap_pools, NEW q \in PoolRec, LdapPoolSet(i, q)
  PROVE  /\ ldap_pools' \in Seq(PoolRec) /\ DOMAIN ldap_pools' = DOMAIN ldap_pools
         /\ \A j \in DOMAIN ldap_pools : ldap_pools'[j] = IF j = i THEN q ELSE ldap_pools[j]
  BY DEF LdType, LdapPoolSet

(* A pool that is made or gets another limit has no connection yet.        *)
LEMMA PoolsConfigured ==
  ASSUME LdInv, ldapPhase = "reading", NEW uri \in LdapUris, NEW max \in Nat,
         \/ ldap_pools' = ldap_pool_create(uri, max)
         \/ ldap_pools' = [i \in DOMAIN ldap_pools |->
                             IF i \in search_ldap_pools(uri) THEN [ldap_pools[i] EXCEPT !.max_connections = max]
                             ELSE ldap_pools[i]]
         \/ ldap_pools' = ldap_pools
  PROVE  /\ ldap_pools' \in Seq(PoolRec) /\ DOMAIN ldap_pools \subseteq DOMAIN ldap_pools'
         /\ \A i \in DOMAIN ldap_pools' :
              /\ ldap_pools'[i].connections = 0 /\ ldap_pools'[i].ontheway = 0
              /\ ldap_pools'[i].inactive = <<>> /\ ldap_pools'[i].used = {}
  <1>1. /\ ldap_pools \in Seq(PoolRec)
        /\ \A i \in DOMAIN ldap_pools :
             /\ ldap_pools[i].connections = 0 /\ ldap_pools[i].ontheway = 0
             /\ ldap_pools[i].inactive = <<>> /\ ldap_pools[i].used = {}
    BY DEF LdInv, LdType, Reading
  <1>2. Len(ldap_pools) \in Nat /\ DOMAIN ldap_pools = 1 .. Len(ldap_pools)
        /\ \A i \in DOMAIN ldap_pools : ldap_pools[i] \in PoolRec
    BY <1>1
  <1>3. CASE ldap_pools' = ldap_pool_create(uri, max)
    <2>. DEFINE q == [uri |-> uri, max_connections |-> max, connections |-> 0, ontheway |-> 0,
                      inactive |-> <<>>, used |-> {}]
    <2>1. q \in PoolRec /\ q.connections = 0 /\ q.ontheway = 0 /\ q.inactive = <<>> /\ q.used = {}
      BY DEF PoolRec
    <2>2. ldap_pools' = Append(ldap_pools, q)
      BY <1>3 DEF ldap_pool_create
    <2>. HIDE DEF q
    <2>3. /\ ldap_pools' \in Seq(PoolRec) /\ DOMAIN ldap_pools' = 1 .. Len(ldap_pools) + 1
          /\ \A i \in 1 .. Len(ldap_pools) : ldap_pools'[i] = ldap_pools[i]
          /\ ldap_pools'[Len(ldap_pools) + 1] = q
      BY <1>1, <2>1, <2>2, AppendProperties
    <2>4. \A i \in 1 .. Len(ldap_pools) + 1 : i \in 1 .. Len(ldap_pools) \/ i = Len(ldap_pools) + 1
      BY <1>2
    <2>5. ASSUME NEW i \in DOMAIN ldap_pools'
          PROVE  /\ ldap_pools'[i].connections = 0 /\ ldap_pools'[i].ontheway = 0
                 /\ ldap_pools'[i].inactive = <<>> /\ ldap_pools'[i].used = {}
      BY <1>1, <1>2, <2>1, <2>3, <2>4, Zenon
    <2>6. DOMAIN ldap_pools \subseteq DOMAIN ldap_pools'
      <3>1. \A n \in Nat : 1 .. n \subseteq 1 .. n + 1
        OBVIOUS
      <3>. QED
        BY <1>2, <2>3, <3>1, Zenon
    <2>. QED
      BY <2>3, <2>5, <2>6
  <1>4. CASE ldap_pools' = [i \in DOMAIN ldap_pools |->
                             IF i \in search_ldap_pools(uri) THEN [ldap_pools[i] EXCEPT !.max_connections = max]
                             ELSE ldap_pools[i]]
    <2>1. \A p \in PoolRec : LET q == [p EXCEPT !.max_connections = max]
                             IN  /\ q \in PoolRec /\ q.connections = p.connections /\ q.ontheway = p.ontheway
                                 /\ q.inactive = p.inactive /\ q.used = p.used
      BY DEF PoolRec
    <2>2. \A i \in DOMAIN ldap_pools :
            /\ ldap_pools'[i] \in PoolRec
            /\ ldap_pools'[i].connections = 0 /\ ldap_pools'[i].ontheway = 0
            /\ ldap_pools'[i].inactive = <<>> /\ ldap_pools'[i].used = {}
      BY <1>1, <1>2, <1>4, <2>1
    <2>3. DOMAIN ldap_pools' = 1 .. Len(ldap_pools) /\ ldap_pools' = [i \in 1 .. Len(ldap_pools) |-> ldap_pools'[i]]
      BY <1>2, <1>4
    <2>4. ldap_pools' \in Seq(PoolRec)
      BY <1>2, <2>2, <2>3
    <2>. QED
      BY <1>2, <2>2, <2>3, <2>4
  <1>. QED
    BY <1>1, <1>3, <1>4

(* While the configuration is read only the pools change.                  *)
LEMMA LdConfigured ==
  ASSUME LdInv, LdType', ldapPhase = "reading",
         UNCHANGED <<bound, nextConn, ldapTime, conn_to_free, ld, missed>>,
         \A i \in DOMAIN ldap_pools' :
           /\ ldap_pools'[i].connections = 0 /\ ldap_pools'[i].ontheway = 0
           /\ ldap_pools'[i].inactive = <<>> /\ ldap_pools'[i].used = {},
         \A t \in DOMAIN ldapCache', k \in LdapKeys : ldapCache'[t][k] \in {"nothing", Directory[k]}
  PROVE  LdInv'
  <1>1. \A w \in LdapThreads : ld[w] = LdapIdle /\ ld'[w] = LdapIdle /\ ld'[w].pc = "idle"
    BY DEF LdInv, Reading, LdapIdle
  <1>2. Reading'
    BY <1>1 DEF Reading
  <1>3. HeldOnce'
    BY <1>1 DEF HeldOnce, Holding, Serving
  <1>4. IdleOnce'
    <2>1. \A i \in DOMAIN ldap_pools' : Idles(ldap_pools'[i]) = {}
      BY DEF Idles
    <2>2. \A i \in DOMAIN ldap_pools' : DOMAIN ldap_pools'[i].inactive = {}
      OBVIOUS
    <2>3. bound' \subseteq 1 .. nextConn' - 1 /\ conn_to_free' \subseteq bound'
      BY DEF LdInv, IdleOnce
    <2>. QED
      BY <2>1, <2>2, <2>3 DEF IdleOnce
  <1>5. PoolCounts'
    <2>1. \A i : OnTheWay(i)' = {}
      BY <1>1 DEF OnTheWay
    <2>2. IsFiniteSet({}) /\ Cardinality({}) = 0
      BY FS_EmptySet
    <2>3. \A i \in DOMAIN ldap_pools' : Len(ldap_pools'[i].inactive) = 0
      OBVIOUS
    <2>4. \A i \in DOMAIN ldap_pools' : ldap_pools'[i].max_connections \in Nat
      <3>1. \A i \in DOMAIN ldap_pools' : ldap_pools'[i] \in PoolRec
        BY DEF LdType
      <3>. QED
        BY <3>1 DEF PoolRec
    <2>. SUFFICES ASSUME NEW i \in DOMAIN ldap_pools'
                  PROVE  /\ IsFiniteSet(ldap_pools'[i].used)
                         /\ ldap_pools'[i].connections = Len(ldap_pools'[i].inactive) + Cardinality(ldap_pools'[i].used)
                         /\ ldap_pools'[i].ontheway = Cardinality(OnTheWay(i)')
                         /\ ldap_pools'[i].max_connections > 0 =>
                              ldap_pools'[i].connections + ldap_pools'[i].ontheway <= ldap_pools'[i].max_connections
      BY DEF PoolCounts
    <2>5. /\ ldap_pools'[i].connections = 0 /\ ldap_pools'[i].ontheway = 0
          /\ ldap_pools'[i].used = {} /\ Len(ldap_pools'[i].inactive) = 0
      BY <2>3, Zenon
    <2>6. Cardinality(ldap_pools'[i].used) = 0 /\ Cardinality(OnTheWay(i)') = 0 /\ IsFiniteSet(ldap_pools'[i].used)
      BY <2>1, <2>2, <2>5, Zenon
    <2>. QED
      BY <2>4, <2>5, <2>6
  <1>6. Awaited'
    BY <1>1 DEF Awaited
  <1>7. AnswersTrue'
    BY <1>1 DEF AnswersTrue
  <1>. QED
    BY <1>2, <1>3, <1>4, <1>5, <1>6, <1>7 DEF LdInv

(* The lines of a configuration keep the invariant.                        *)
LEMMA LdReads ==
  ASSUME LdInv, NEW uri \in LdapUris,
         ldap_table_open(uri) \/ \E max \in Limits : ldap_connections_pool_configure(uri, max)
  PROVE  LdInv'
  <1>0. /\ ldapPhase = "reading" /\ UNCHANGED <<bound, nextConn, ldapTime, conn_to_free, ld, missed>>
        /\ LdType /\ ldap_pools \in Seq(PoolRec) /\ ldapTables \in Seq(Nat)
        /\ \A w \in LdapThreads : ld[w] = LdapIdle
    BY DEF ldap_table_open, ldap_connections_pool_configure, LdapLine, LdInv, LdType, Reading
  <1>1. LdapIdle \notin Busy
    BY DEF LdapIdle, Busy, Serving, Coming, Signalling
  <1>2. \A t \in DOMAIN ldapCache, k \in LdapKeys : ldapCache[t][k] \in {"nothing", Directory[k]}
    BY DEF LdInv, AnswersTrue
  <1>3. CASE NullCrash(uri)
    <2>1. LdType'
      BY <1>0, <1>3 DEF NullCrash, LdType
    <2>2. \A i \in DOMAIN ldap_pools' :
            /\ ldap_pools'[i].connections = 0 /\ ldap_pools'[i].ontheway = 0
            /\ ldap_pools'[i].inactive = <<>> /\ ldap_pools'[i].used = {}
      BY <1>0, <1>3 DEF NullCrash, LdInv, Reading
    <2>. QED
      BY <1>0, <1>2, <1>3, <2>1, <2>2, LdConfigured DEF NullCrash
  <1>4. ASSUME ~NullCrash(uri), NEW max \in Limits, ldap_connections_pool_configure(uri, max)
        PROVE  LdInv'
    <2>1. max \in Nat /\ UNCHANGED <<ldapConfVars, ldapCache>>
      BY <1>4, LdapAssumption DEF ldap_connections_pool_configure
    <2>2. /\ ldap_pools' \in Seq(PoolRec) /\ DOMAIN ldap_pools \subseteq DOMAIN ldap_pools'
          /\ \A i \in DOMAIN ldap_pools' :
               /\ ldap_pools'[i].connections = 0 /\ ldap_pools'[i].ontheway = 0
               /\ ldap_pools'[i].inactive = <<>> /\ ldap_pools'[i].used = {}
      BY <1>0, <1>4, <2>1, PoolsConfigured DEF ldap_connections_pool_configure
    <2>3. LdType'
      BY <1>0, <2>1, <2>2 DEF LdType, ldapConfVars
    <2>. QED
      BY <1>0, <1>2, <2>1, <2>2, <2>3, LdConfigured
  <1>5. ASSUME ~NullCrash(uri), ldap_table_open(uri)
        PROVE  LdInv'
    <2>1. /\ UNCHANGED ldapPhase
          /\ ldap_pools' = IF search_ldap_pools(uri) = {} THEN ldap_pool_create(uri, 0) ELSE ldap_pools
          /\ ldapTables' = Append(ldapTables, CHOOSE i \in DOMAIN ldap_pools' : ldap_pools'[i].uri = uri)
          /\ ldapCache' = Append(ldapCache, [k \in LdapKeys |-> "nothing"])
      BY <1>5 DEF ldap_table_open
    <2>2. /\ ldap_pools' \in Seq(PoolRec) /\ DOMAIN ldap_pools \subseteq DOMAIN ldap_pools'
          /\ \A i \in DOMAIN ldap_pools' :
               /\ ldap_pools'[i].connections = 0 /\ ldap_pools'[i].ontheway = 0
               /\ ldap_pools'[i].inactive = <<>> /\ ldap_pools'[i].used = {}
      BY <1>0, <2>1, PoolsConfigured
    <2>3. \E i \in DOMAIN ldap_pools' : ldap_pools'[i].uri = uri
      <3>1. CASE search_ldap_pools(uri) = {}
        <4>. DEFINE q == [uri |-> uri, max_connections |-> 0, connections |-> 0, ontheway |-> 0,
                          inactive |-> <<>>, used |-> {}]
        <4>1. q \in PoolRec /\ q.uri = uri
          BY DEF PoolRec
        <4>2. ldap_pools' = Append(ldap_pools, q)
          BY <2>1, <3>1 DEF ldap_pool_create
        <4>. HIDE DEF q
        <4>3. Len(ldap_pools) + 1 \in DOMAIN ldap_pools' /\ ldap_pools'[Len(ldap_pools) + 1] = q
          BY <1>0, <4>1, <4>2, AppendProperties, LenProperties
        <4>. QED
          BY <4>1, <4>3
      <3>2. CASE search_ldap_pools(uri) # {}
        BY <2>1, <3>2 DEF search_ldap_pools
      <3>. QED
        BY <3>1, <3>2
    <2>4. PICK pool \in DOMAIN ldap_pools' : ldapTables' = Append(ldapTables, pool)
      BY <2>1, <2>3
    <2>5. pool \in Nat
      BY <2>2
    <2>6. /\ ldapTables' \in Seq(Nat) /\ Len(ldapTables') = Len(ldapTables) + 1
          /\ DOMAIN ldapTables' = 1 .. Len(ldapTables) + 1
          /\ \A t \in 1 .. Len(ldapTables) : ldapTables'[t] = ldapTables[t]
          /\ ldapTables'[Len(ldapTables) + 1] = pool
      BY <1>0, <2>4, <2>5, AppendProperties
    <2>7. \A t \in DOMAIN ldapTables' : ldapTables'[t] \in DOMAIN ldap_pools'
      <3>1. Len(ldapTables) \in Nat /\ \A t \in 1 .. Len(ldapTables) : ldapTables[t] \in DOMAIN ldap_pools
        BY <1>0, LenProperties DEF LdType
      <3>2. \A t \in DOMAIN ldapTables' : t \in 1 .. Len(ldapTables) \/ t = Len(ldapTables) + 1
        BY <2>6, <3>1
      <3>. QED
        BY <2>2, <2>6, <3>1, <3>2
    <2>8. /\ ldapCache' \in Seq([LdapKeys -> LdAnswers \cup {"nothing"}]) /\ Len(ldapCache') = Len(ldapCache) + 1
          /\ \A t \in DOMAIN ldapCache', k \in LdapKeys : ldapCache'[t][k] \in {"nothing", Directory[k]}
      <3>. DEFINE e == [k \in LdapKeys |-> "nothing"]
      <3>1. e \in [LdapKeys -> LdAnswers \cup {"nothing"}] /\ \A k \in LdapKeys : e[k] = "nothing"
        OBVIOUS
      <3>2. ldapCache' = Append(ldapCache, e) /\ ldapCache \in Seq([LdapKeys -> LdAnswers \cup {"nothing"}])
        BY <1>0, <2>1 DEF LdType
      <3>. HIDE DEF e
      <3>3. /\ ldapCache' \in Seq([LdapKeys -> LdAnswers \cup {"nothing"}]) /\ Len(ldapCache') = Len(ldapCache) + 1
            /\ DOMAIN ldapCache' = 1 .. Len(ldapCache) + 1
            /\ \A t \in 1 .. Len(ldapCache) : ldapCache'[t] = ldapCache[t]
            /\ ldapCache'[Len(ldapCache) + 1] = e
        BY <3>1, <3>2, AppendProperties
      <3>4. Len(ldapCache) \in Nat /\ DOMAIN ldapCache = 1 .. Len(ldapCache)
        BY <3>2, LenProperties
      <3>5. \A t \in DOMAIN ldapCache' : t \in 1 .. Len(ldapCache) \/ t = Len(ldapCache) + 1
        BY <3>3, <3>4
      <3>. QED
        BY <1>2, <3>1, <3>3, <3>4, <3>5
    <2>9. LdType'
      BY <1>0, <1>1, <2>1, <2>2, <2>6, <2>7, <2>8 DEF LdType
    <2>. QED
      BY <1>0, <2>2, <2>8, <2>9, LdConfigured
  <1>. QED
    BY <1>3, <1>4, <1>5

(* A set that one element may leave and may join.                          *)
LEMMA CountMoves ==
  ASSUME NEW S, IsFiniteSet(S), NEW x, NEW joins \in BOOLEAN
  PROVE  LET T == (S \ {x}) \cup (IF joins THEN {x} ELSE {})
         IN  /\ IsFiniteSet(T) /\ Cardinality(S) \in Nat
             /\ Cardinality(T) = Cardinality(S) + (IF joins THEN 1 ELSE 0) - (IF x \in S THEN 1 ELSE 0)
  <1>. DEFINE R == S \ {x}
  <1>1. /\ IsFiniteSet(R) /\ Cardinality(R) = IF x \in S THEN Cardinality(S) - 1 ELSE Cardinality(S)
        /\ Cardinality(S) \in Nat /\ Cardinality(R) \in Nat
    BY FS_RemoveElement, FS_CardinalityType
  <1>2. /\ IsFiniteSet(R \cup {x}) /\ Cardinality(R \cup {x}) = Cardinality(R) + 1
    <2>1. x \notin R
      OBVIOUS
    <2>. HIDE DEF R
    <2>. QED
      BY <1>1, <2>1, FS_AddElement
  <1>3. R \cup {} = R
    OBVIOUS
  <1>4. CASE joins
    BY <1>1, <1>2, <1>4
  <1>5. CASE ~joins
    BY <1>1, <1>3, <1>5
  <1>. QED
    BY <1>4, <1>5

(* How a thread that goes on changes the numbers of connections on the way *)
(* and of wake-ups that are due.                                           *)
LEMMA ThreadCounted ==
  ASSUME LdType, NEW w \in LdapThreads, NEW to, LdapSet(w, to), UNCHANGED ldapTables, NEW i
  PROVE  /\ Cardinality(OnTheWay(i)) \in Nat
         /\ Cardinality(OnTheWay(i)') =
              Cardinality(OnTheWay(i)) + (IF to.pc \in Coming /\ ldapTables[to.table] = i THEN 1 ELSE 0)
                - (IF ld[w].pc \in Coming /\ PoolOfSearch(w) = i THEN 1 ELSE 0)
         /\ Cardinality(Pending(i)) \in Nat
         /\ Cardinality(Pending(i)') =
              Cardinality(Pending(i))
                + (IF to.pc \in Signalling \cup {"woken"} /\ ldapTables[to.table] = i THEN 1 ELSE 0)
                - (IF ld[w].pc \in Signalling \cup {"woken"} /\ PoolOfSearch(w) = i THEN 1 ELSE 0)
  <1>1. ld'[w] = to /\ \A v \in LdapThreads : v # w => ld'[v] = ld[v]
    BY DEF LdapSet, LdType
  <1>2. \A v : PoolOfSearch(v) = ldapTables[ld[v].table] /\ PoolOfSearch(v)' = ldapTables[ld'[v].table]
    BY DEF PoolOfSearch
  <1>3. IsFiniteSet(OnTheWay(i)) /\ IsFiniteSet(Pending(i))
    <2>1. OnTheWay(i) \subseteq LdapThreads /\ Pending(i) \subseteq LdapThreads
      BY DEF OnTheWay, Pending
    <2>. QED
      BY <2>1, LdapAssumption, FS_Subset
  <1>4. PICK a \in BOOLEAN : a = (to.pc \in Coming /\ ldapTables[to.table] = i)
    OBVIOUS
  <1>5. PICK b \in BOOLEAN : b = (to.pc \in Signalling \cup {"woken"} /\ ldapTables[to.table] = i)
    OBVIOUS
  <1>6. OnTheWay(i)' = (OnTheWay(i) \ {w}) \cup (IF a THEN {w} ELSE {})
    BY <1>1, <1>2, <1>4 DEF OnTheWay, Coming
  <1>7. Pending(i)' = (Pending(i) \ {w}) \cup (IF b THEN {w} ELSE {})
    BY <1>1, <1>2, <1>5 DEF Pending
  <1>8. w \in OnTheWay(i) <=> ld[w].pc \in Coming /\ PoolOfSearch(w) = i
    BY DEF OnTheWay, Coming
  <1>9. w \in Pending(i) <=> ld[w].pc \in Signalling \cup {"woken"} /\ PoolOfSearch(w) = i
    BY DEF Pending
  <1>10. /\ Cardinality(OnTheWay(i)) \in Nat
         /\ Cardinality(OnTheWay(i)') =
              Cardinality(OnTheWay(i)) + (IF a THEN 1 ELSE 0) - (IF w \in OnTheWay(i) THEN 1 ELSE 0)
    BY <1>3, <1>6, CountMoves, SMTT(40)
  <1>11. /\ Cardinality(Pending(i)) \in Nat
         /\ Cardinality(Pending(i)') =
              Cardinality(Pending(i)) + (IF b THEN 1 ELSE 0) - (IF w \in Pending(i) THEN 1 ELSE 0)
    BY <1>3, <1>7, CountMoves
  <1>. QED
    BY <1>4, <1>5, <1>8, <1>9, <1>10, <1>11

(* One thread goes on, in a search at pool i, which becomes q: all of the  *)
(* invariant but the places of connections.                                *)
OneThread(w, to, i, q) ==
  /\ LdInv /\ ldapPhase = "running" /\ UNCHANGED <<ldapConfVars, ldapCache, ldapTime>>
  /\ w \in LdapThreads /\ to \in Done \cup Busy /\ LdapSet(w, to)
  /\ i \in DOMAIN ldap_pools /\ q \in PoolRec /\ LdapPoolSet(i, q) /\ nextConn' \in Nat \ {0}
  /\ ld[w] \in Busy => PoolOfSearch(w) = i
  /\ to \in Busy => to.table \in DOMAIN ldapTables /\ ldapTables[to.table] = i
  /\ to.pc \in {"release", "signalrelease"} => to.answer = Directory[to.key]
  /\ to.pc = "done" => to.answer \in {"failed", Directory[to.key]}
  /\ missed \subseteq missed'

(* The numbers of the pool follow what the thread does.                    *)
OneCounted(w, to, p, q) ==
  /\ q.max_connections = p.max_connections
  /\ IsFiniteSet(q.used) /\ q.connections = Len(q.inactive) + Cardinality(q.used)
  /\ q.ontheway = p.ontheway + (IF to.pc \in Coming THEN 1 ELSE 0) - (IF ld[w].pc \in Coming THEN 1 ELSE 0)
  /\ q.max_connections > 0 => q.connections + q.ontheway <= q.max_connections

(* What becomes available to threads that wait is announced or missed.     *)
Awakens(t) == IF t.pc \in Signalling \cup {"woken"} THEN 1 ELSE 0
OneAnnounced(w, to, i, p, q) ==
  i \notin missed' =>
    /\ RoomOf(q) - Awakens(to) <= RoomOf(p) - Awakens(ld[w]) \/ RoomOf(q) <= 0
    /\ \/ RoomOf(q) + Len(q.inactive) - Awakens(to) <= RoomOf(p) + Len(p.inactive) - Awakens(ld[w])
       \/ RoomOf(q) + Len(q.inactive) <= 0
    /\ to.pc = "wait" => RoomOf(q) <= 0 /\ (to.failures <= 1 => RoomOf(q) + Len(q.inactive) <= 0)

(* What such a step leaves, for each thread and each pool.                 *)
LEMMA OneThreadFrame ==
  ASSUME NEW w, NEW to, NEW i, NEW q, OneThread(w, to, i, q)
  PROVE  /\ LdType' /\ Reading' /\ AnswersTrue'
         /\ ld'[w] = to /\ \A v \in LdapThreads : v # w => ld'[v] = ld[v]
         /\ \A v \in LdapThreads : PoolOfSearch(v)' = IF v = w THEN ldapTables[to.table] ELSE PoolOfSearch(v)
         /\ DOMAIN ldap_pools' = DOMAIN ldap_pools /\ ldap_pools'[i] = q
         /\ \A j \in DOMAIN ldap_pools : j # i => ldap_pools'[j] = ldap_pools[j]
  <1>1. /\ LdType /\ ldapPhase' = "running" /\ ldapTables' = ldapTables /\ ldapCache' = ldapCache
        /\ ldapTime' = ldapTime /\ w \in LdapThreads
    BY DEF OneThread, LdInv, ldapConfVars
  <1>2. /\ ld'[w] = to /\ \A v \in LdapThreads : v # w => ld'[v] = ld[v]
        /\ ld' \in [LdapThreads -> {LdapIdle} \cup Done \cup Busy]
    BY <1>1 DEF OneThread, LdapSet, LdType
  <1>3. /\ ldap_pools' \in Seq(PoolRec) /\ DOMAIN ldap_pools' = DOMAIN ldap_pools /\ ldap_pools'[i] = q
        /\ \A j \in DOMAIN ldap_pools : j # i => ldap_pools'[j] = ldap_pools[j]
    BY <1>1, PoolReplaced DEF OneThread
  <1>4. \A v \in LdapThreads : PoolOfSearch(v)' = IF v = w THEN ldapTables[to.table] ELSE PoolOfSearch(v)
    BY <1>1, <1>2 DEF PoolOfSearch
  <1>5. \A v \in LdapThreads : ld'[v] \in Busy => ld'[v].table \in DOMAIN ldapTables
    BY <1>1, <1>2 DEF OneThread, LdType
  <1>6. LdType'
    BY <1>1, <1>2, <1>3, <1>5 DEF OneThread, LdType
  <1>7. Reading'
    BY <1>1 DEF Reading
  <1>8. AnswersTrue'
    <2>1. \A t \in DOMAIN ldapCache', k \in LdapKeys : ldapCache'[t][k] \in {"nothing", Directory[k]}
      BY <1>1 DEF OneThread, LdInv, AnswersTrue
    <2>2. \A v \in LdapThreads :
            /\ ld'[v].pc \in {"release", "signalrelease"} => ld'[v].answer = Directory[ld'[v].key]
            /\ ld'[v].pc = "done" => ld'[v].answer \in {"failed", Directory[ld'[v].key]}
      BY <1>1, <1>2 DEF OneThread, LdInv, AnswersTrue
    <2>. QED
      BY <2>1, <2>2 DEF AnswersTrue
  <1>. QED
    BY <1>2, <1>3, <1>4, <1>6, <1>7, <1>8

(* The counts of such a step.                                              *)
LEMMA OneThreadCounts ==
  ASSUME NEW w, NEW to, NEW i, NEW q, OneThread(w, to, i, q),
         OneCounted(w, to, ldap_pools[i], q)
  PROVE  PoolCounts'
  <1>1. /\ LdType /\ UNCHANGED ldapTables /\ LdapSet(w, to) /\ w \in LdapThreads /\ i \in DOMAIN ldap_pools
        /\ to \in Done \cup Busy /\ (to \in Busy => ldapTables[to.table] = i)
        /\ (ld[w] \in Busy => PoolOfSearch(w) = i) /\ PoolCounts
    BY DEF OneThread, LdInv, ldapConfVars
  <1>2. /\ DOMAIN ldap_pools' = DOMAIN ldap_pools /\ ldap_pools'[i] = q
        /\ \A j \in DOMAIN ldap_pools : j # i => ldap_pools'[j] = ldap_pools[j]
    BY OneThreadFrame
  <1>3. to.pc \in Coming => to \in Busy
    BY <1>1 DEF Done, Coming
  <1>4. ld[w].pc \in Coming => ld[w] \in Busy
    BY <1>1, ThreadKinds
  <1>5. \A j \in DOMAIN ldap_pools :
          /\ Cardinality(OnTheWay(j)) \in Nat
          /\ Cardinality(OnTheWay(j)') =
               Cardinality(OnTheWay(j)) + (IF to.pc \in Coming /\ ldapTables[to.table] = j THEN 1 ELSE 0)
                 - (IF ld[w].pc \in Coming /\ PoolOfSearch(w) = j THEN 1 ELSE 0)
    BY <1>1, ThreadCounted
  <1>6. \A j \in DOMAIN ldap_pools : j # i => Cardinality(OnTheWay(j)') = Cardinality(OnTheWay(j))
    BY <1>1, <1>3, <1>4, <1>5
  <1>7. Cardinality(OnTheWay(i)') = q.ontheway
    <2>1. ldap_pools[i].ontheway = Cardinality(OnTheWay(i))
      BY <1>1 DEF PoolCounts
    <2>. QED
      BY <1>1, <1>3, <1>4, <1>5, <2>1 DEF OneCounted
  <1>8. ASSUME NEW j \in DOMAIN ldap_pools'
        PROVE  /\ IsFiniteSet(ldap_pools'[j].used)
               /\ ldap_pools'[j].connections = Len(ldap_pools'[j].inactive) + Cardinality(ldap_pools'[j].used)
               /\ ldap_pools'[j].ontheway = Cardinality(OnTheWay(j)')
               /\ ldap_pools'[j].max_connections > 0 =>
                    ldap_pools'[j].connections + ldap_pools'[j].ontheway <= ldap_pools'[j].max_connections
    <2>1. CASE j = i
      BY <1>2, <1>7, <2>1 DEF OneCounted
    <2>2. CASE j # i
      <3>1. j \in DOMAIN ldap_pools /\ ldap_pools'[j] = ldap_pools[j] /\ Cardinality(OnTheWay(j)') = Cardinality(OnTheWay(j))
        BY <1>2, <1>6, <2>2
      <3>. QED
        BY <1>1, <3>1 DEF PoolCounts
    <2>. QED
      BY <2>1, <2>2
  <1>. QED
    BY <1>8 DEF PoolCounts

(* Who waits after such a step.                                            *)
LEMMA OneThreadAwaited ==
  ASSUME NEW w, NEW to, NEW i, NEW q, OneThread(w, to, i, q),
         OneCounted(w, to, ldap_pools[i], q), OneAnnounced(w, to, i, ldap_pools[i], q),
         to.pc = "wait" => q.max_connections > 0
  PROVE  Awaited'
  <1>1. /\ LdType /\ UNCHANGED ldapTables /\ LdapSet(w, to) /\ w \in LdapThreads /\ i \in DOMAIN ldap_pools
        /\ to \in Done \cup Busy /\ (to \in Busy => ldapTables[to.table] = i) /\ q \in PoolRec
        /\ (ld[w] \in Busy => PoolOfSearch(w) = i) /\ Awaited /\ missed \subseteq missed'
    BY DEF OneThread, LdInv, ldapConfVars
  <1>2. /\ ld'[w] = to /\ \A v \in LdapThreads : v # w => ld'[v] = ld[v]
        /\ \A v \in LdapThreads : PoolOfSearch(v)' = IF v = w THEN ldapTables[to.table] ELSE PoolOfSearch(v)
        /\ DOMAIN ldap_pools' = DOMAIN ldap_pools /\ ldap_pools'[i] = q
        /\ \A j \in DOMAIN ldap_pools : j # i => ldap_pools'[j] = ldap_pools[j]
    BY OneThreadFrame
  <1>3. to.pc \in Signalling \cup {"woken", "wait"} => to \in Busy
    BY <1>1 DEF Done, Signalling
  <1>4. ld[w].pc \in Signalling \cup {"woken"} => ld[w] \in Busy
    BY <1>1, ThreadKinds
  <1>5. \A j \in DOMAIN ldap_pools :
          /\ Cardinality(Pending(j)) \in Nat
          /\ Cardinality(Pending(j)') =
               Cardinality(Pending(j))
                 + (IF to.pc \in Signalling \cup {"woken"} /\ ldapTables[to.table] = j THEN 1 ELSE 0)
                 - (IF ld[w].pc \in Signalling \cup {"woken"} /\ PoolOfSearch(w) = j THEN 1 ELSE 0)
    BY <1>1, ThreadCounted
  <1>6. \A j \in DOMAIN ldap_pools : j # i => Cardinality(Pending(j)') = Cardinality(Pending(j))
    BY <1>1, <1>3, <1>4, <1>5
  <1>7. Cardinality(Pending(i)') = Cardinality(Pending(i)) + Awakens(to) - Awakens(ld[w])
    BY <1>1, <1>3, <1>4, <1>5 DEF Awakens
  <1>8. /\ RoomOf(q) \in Int /\ RoomOf(ldap_pools[i]) \in Int
        /\ Len(q.inactive) \in Nat /\ Len(ldap_pools[i].inactive) \in Nat
        /\ Awakens(to) \in Int /\ Awakens(ld[w]) \in Int
        /\ Cardinality(Pending(i)') \in Nat
    <2>1. q \in PoolRec /\ ldap_pools[i] \in PoolRec
      BY <1>1 DEF LdType
    <2>2. Pending(i)' \subseteq LdapThreads
      BY DEF Pending
    <2>3. Cardinality(Pending(i)') \in Nat
      BY <2>2, LdapAssumption, FS_Subset, FS_CardinalityType
    <2>. QED
      BY <2>1, <2>3, LenProperties, SMTT(40) DEF PoolRec, RoomOf, Awakens
  <1>. SUFFICES ASSUME NEW v \in LdapThreads, ld'[v].pc = "wait"
                PROVE  /\ ldap_pools'[PoolOfSearch(v)'].max_connections > 0
                       /\ PoolOfSearch(v)' \notin missed' =>
                            /\ RoomOf(ldap_pools'[PoolOfSearch(v)']) <= Cardinality(Pending(PoolOfSearch(v))')
                            /\ ~(ld'[v].failures > 1) =>
                                 RoomOf(ldap_pools'[PoolOfSearch(v)']) + Len(ldap_pools'[PoolOfSearch(v)'].inactive)
                                   <= Cardinality(Pending(PoolOfSearch(v))')
    BY DEF Awaited, force_new
  <1>9. CASE v = w
    <2>1. to \in Busy /\ PoolOfSearch(v)' = i /\ to.failures \in Nat /\ to.pc = "wait"
      BY <1>1, <1>2, <1>3, <1>9 DEF Busy
    <2>2. i \notin missed' => RoomOf(q) <= 0 /\ (to.failures <= 1 => RoomOf(q) + Len(q.inactive) <= 0)
      BY <2>1 DEF OneAnnounced
    <2>3. Pending(PoolOfSearch(v))' = Pending(i)'
      BY <2>1 DEF Pending
    <2>. QED
      BY <1>2, <1>8, <1>9, <2>1, <2>2, <2>3
  <1>10. CASE v # w
    <2>1. ld'[v] = ld[v] /\ PoolOfSearch(v)' = PoolOfSearch(v) /\ ld[v].pc = "wait"
      BY <1>2, <1>10
    <2>2. ld[v] \in Busy /\ PoolOfSearch(v) \in DOMAIN ldap_pools
      <3>1. ld[v] \in Busy
        BY <1>1, <2>1, ThreadKinds
      <3>. QED
        BY <1>1, <3>1 DEF LdType, PoolOfSearch
    <2>3. PICK j \in DOMAIN ldap_pools : j = PoolOfSearch(v)
      BY <2>2
    <2>4. /\ ldap_pools[j].max_connections > 0
          /\ j \notin missed =>
               /\ RoomOf(ldap_pools[j]) <= Cardinality(Pending(j))
               /\ ~(ld[v].failures > 1) =>
                    RoomOf(ldap_pools[j]) + Len(ldap_pools[j].inactive) <= Cardinality(Pending(j))
      BY <1>1, <2>1, <2>3 DEF Awaited, force_new
    <2>5. Pending(PoolOfSearch(v))' = Pending(j)'
      BY <2>1, <2>3 DEF Pending
    <2>6. CASE j # i
      BY <1>1, <1>2, <1>6, <2>1, <2>3, <2>4, <2>5, <2>6
    <2>7. CASE j = i
      <3>1. i \notin missed' =>
              /\ RoomOf(q) - Awakens(to) <= RoomOf(ldap_pools[i]) - Awakens(ld[w]) \/ RoomOf(q) <= 0
              /\ \/ RoomOf(q) + Len(q.inactive) - Awakens(to)
                      <= RoomOf(ldap_pools[i]) + Len(ldap_pools[i].inactive) - Awakens(ld[w])
                 \/ RoomOf(q) + Len(q.inactive) <= 0
        BY DEF OneAnnounced
      <3>2. i \notin missed' =>
              /\ RoomOf(q) <= Cardinality(Pending(i)')
              /\ ~(ld[v].failures > 1) => RoomOf(q) + Len(q.inactive) <= Cardinality(Pending(i)')
        <4>1. i \notin missed' =>
                /\ RoomOf(ldap_pools[i]) <= Cardinality(Pending(i))
                /\ ~(ld[v].failures > 1) =>
                     RoomOf(ldap_pools[i]) + Len(ldap_pools[i].inactive) <= Cardinality(Pending(i))
          BY <1>1, <2>4, <2>7
        <4>2. \A room, was, idle, wasIdle, a, b, n, m \in Int :
                /\ m = n + a - b
                /\ m >= 0
                => /\ (room - a <= was - b \/ room <= 0) /\ was <= n => room <= m
                   /\ (room + idle - a <= was + wasIdle - b \/ room + idle <= 0) /\ was + wasIdle <= n
                      => room + idle <= m
          OBVIOUS
        <4>3. Cardinality(Pending(i)) \in Int /\ Cardinality(Pending(i)') \in Int /\ Cardinality(Pending(i)') >= 0
          BY <1>1, <1>5, <1>8
        <4>4. Len(q.inactive) \in Int /\ Len(ldap_pools[i].inactive) \in Int
          BY <1>8
        <4>5. /\ (RoomOf(q) - Awakens(to) <= RoomOf(ldap_pools[i]) - Awakens(ld[w]) \/ RoomOf(q) <= 0)
                 /\ RoomOf(ldap_pools[i]) <= Cardinality(Pending(i)) => RoomOf(q) <= Cardinality(Pending(i)')
              /\ (\/ RoomOf(q) + Len(q.inactive) - Awakens(to)
                       <= RoomOf(ldap_pools[i]) + Len(ldap_pools[i].inactive) - Awakens(ld[w])
                  \/ RoomOf(q) + Len(q.inactive) <= 0)
                 /\ RoomOf(ldap_pools[i]) + Len(ldap_pools[i].inactive) <= Cardinality(Pending(i))
                 => RoomOf(q) + Len(q.inactive) <= Cardinality(Pending(i)')
          <5>1. PICK room, was, idle, wasIdle, a, b, n, m \in Int :
                  /\ room = RoomOf(q) /\ was = RoomOf(ldap_pools[i]) /\ idle = Len(q.inactive)
                  /\ wasIdle = Len(ldap_pools[i].inactive) /\ a = Awakens(to) /\ b = Awakens(ld[w])
                  /\ n = Cardinality(Pending(i)) /\ m = Cardinality(Pending(i)')
            BY <1>7, <1>8, <4>3, <4>4, Zenon
          <5>2. m = n + a - b /\ m >= 0
            BY <1>7, <4>3, <5>1, Zenon
          <5>3. /\ (room - a <= was - b \/ room <= 0) /\ was <= n => room <= m
                /\ (room + idle - a <= was + wasIdle - b \/ room + idle <= 0) /\ was + wasIdle <= n
                   => room + idle <= m
            BY <5>2
          <5>. QED
            BY <5>1, <5>3, Zenon
        <4>. QED
          BY <3>1, <4>1, <4>5, Zenon
      <3>3. q.max_connections > 0
        BY <2>4, <2>7 DEF OneCounted
      <3>. QED
        BY <1>2, <2>1, <2>3, <2>5, <2>7, <3>2, <3>3
    <2>. QED
      BY <2>6, <2>7
  <1>. QED
    BY <1>9, <1>10

(* A step that hands no connection over.                                   *)
LEMMA OneThreadKeeps ==
  ASSUME NEW w, NEW to, NEW i, NEW q, OneThread(w, to, i, q), UNCHANGED <<bound, nextConn, conn_to_free>>,
         q.used = ldap_pools[i].used, q.inactive = ldap_pools[i].inactive,
         to.pc \in Holding <=> ld[w].pc \in Holding, to.pc \in Serving <=> ld[w].pc \in Serving,
         to.pc \in Holding => to.conn = ld[w].conn
  PROVE  HeldOnce' /\ IdleOnce'
  <1>1. LdType /\ HeldOnce /\ IdleOnce /\ w \in LdapThreads /\ i \in DOMAIN ldap_pools
    BY DEF OneThread, LdInv
  <1>2. /\ ld'[w] = to /\ \A v \in LdapThreads : v # w => ld'[v] = ld[v]
        /\ \A v \in LdapThreads : PoolOfSearch(v)' = IF v = w THEN ldapTables[to.table] ELSE PoolOfSearch(v)
        /\ DOMAIN ldap_pools' = DOMAIN ldap_pools /\ ldap_pools'[i] = q
        /\ \A j \in DOMAIN ldap_pools : j # i => ldap_pools'[j] = ldap_pools[j]
    BY OneThreadFrame
  <1>3. \A j \in DOMAIN ldap_pools : ldap_pools'[j].used = ldap_pools[j].used /\ ldap_pools'[j].inactive = ldap_pools[j].inactive
    BY <1>2
  <1>4. \A j \in DOMAIN ldap_pools : Idles(ldap_pools'[j]) = Idles(ldap_pools[j])
    BY <1>3 DEF Idles
  <1>5. \A v \in LdapThreads :
          /\ ld'[v].pc \in Holding <=> ld[v].pc \in Holding
          /\ ld'[v].pc \in Serving <=> ld[v].pc \in Serving
          /\ ld'[v].pc \in Holding => ld'[v].conn = ld[v].conn
    BY <1>2
  <1>6. \A v \in LdapThreads : ld[v].pc \in Serving => ld[v].pc \in Holding /\ PoolOfSearch(v)' = PoolOfSearch(v)
    <2>1. ASSUME ld[w].pc \in Serving PROVE ldapTables[to.table] = PoolOfSearch(w)
      <3>1. ld[w] \in Busy
        BY <1>1, <2>1, ThreadKinds
      <3>2. to \in Busy
        BY <2>1 DEF OneThread, Done, Serving
      <3>. QED
        BY <3>1, <3>2 DEF OneThread
    <2>. QED
      BY <1>2, <2>1 DEF Holding
  <1>7. \A v \in LdapThreads : ld[v].pc \in Serving => PoolOfSearch(v) \in DOMAIN ldap_pools
    <2>1. ASSUME NEW v \in LdapThreads, ld[v].pc \in Serving PROVE PoolOfSearch(v) \in DOMAIN ldap_pools
      <3>1. ld[v] \in Busy
        BY <1>1, <2>1, ThreadKinds
      <3>. QED
        BY <1>1, <3>1 DEF LdType, PoolOfSearch
    <2>. QED
      BY <2>1
  <1>8. IdleOnce'
    BY <1>1, <1>2, <1>3, <1>4 DEF IdleOnce
  <1>9. HeldOnce'
    <2>1. \A v \in LdapThreads : ld'[v].pc \in Holding =>
            /\ ld'[v].conn \in bound' /\ ld'[v].conn \notin conn_to_free'
            /\ \A j \in DOMAIN ldap_pools' : ld'[v].conn \notin Idles(ldap_pools'[j])
            /\ \A u \in LdapThreads : ld'[u].pc \in Holding /\ ld'[u].conn = ld'[v].conn => u = v
      BY <1>1, <1>2, <1>4, <1>5 DEF HeldOnce
    <2>2. \A v \in LdapThreads : ld'[v].pc \in Serving => ld'[v].conn \in ldap_pools'[PoolOfSearch(v)'].used
      BY <1>1, <1>3, <1>5, <1>6, <1>7 DEF HeldOnce
    <2>3. ASSUME NEW j \in DOMAIN ldap_pools', NEW c \in ldap_pools'[j].used
          PROVE  \E v \in LdapThreads : ld'[v].pc \in Serving /\ PoolOfSearch(v)' = j /\ ld'[v].conn = c
      <3>1. c \in ldap_pools[j].used
        BY <1>2, <1>3
      <3>2. PICK v \in LdapThreads : ld[v].pc \in Serving /\ PoolOfSearch(v) = j /\ ld[v].conn = c
        BY <1>1, <1>2, <3>1 DEF HeldOnce, Using, Serving
      <3>. QED
        BY <1>5, <1>6, <3>2
    <2>. QED
      BY <2>1, <2>2, <2>3 DEF HeldOnce, Using, Serving
  <1>. QED
    BY <1>8, <1>9

(* All parts of the invariant.                                             *)
LEMMA OneThreadInv ==
  ASSUME NEW w, NEW to, NEW i, NEW q, OneThread(w, to, i, q),
         OneCounted(w, to, ldap_pools[i], q), OneAnnounced(w, to, i, ldap_pools[i], q),
         to.pc = "wait" => q.max_connections > 0, HeldOnce', IdleOnce'
  PROVE  LdInv'
  BY OneThreadFrame, OneThreadCounts, OneThreadAwaited DEF LdInv

(* A step that leaves the pools and connections alone.                     *)
LEMMA OneThreadOnly ==
  ASSUME NEW w, NEW to, NEW i, LdInv, w \in LdapThreads, to \in Done \cup Busy, LdapSet(w, to), ldapPhase = "running",
         UNCHANGED <<ldapConfVars, ldap_pools, ldapCache, bound, nextConn, ldapTime, conn_to_free, missed>>,
         i \in DOMAIN ldap_pools,
         ld[w] \in Busy => PoolOfSearch(w) = i,
         to \in Busy => to.table \in DOMAIN ldapTables /\ ldapTables[to.table] = i,
         to.pc \in {"release", "signalrelease"} => to.answer = Directory[to.key],
         to.pc = "done" => to.answer \in {"failed", Directory[to.key]},
         to.pc \in Holding <=> ld[w].pc \in Holding, to.pc \in Serving <=> ld[w].pc \in Serving,
         to.pc \in Holding => to.conn = ld[w].conn,
         to.pc \in Coming <=> ld[w].pc \in Coming,
         ld[w].pc \notin Signalling \cup {"woken"}, to.pc # "wait"
  PROVE  LdInv'
  <1>1. PICK q : q = ldap_pools[i]
    OBVIOUS
  <1>2. q \in PoolRec /\ LdapPoolSet(i, q)
    BY <1>1 DEF LdInv, LdType, LdapPoolSet
  <1>3. OneThread(w, to, i, q)
    BY <1>2 DEF OneThread, LdInv, LdType
  <1>4. /\ q.max_connections \in Nat /\ q.connections \in Int /\ q.ontheway \in Int /\ q.inactive \in Seq(IdleConn)
        /\ q.used = ldap_pools[i].used /\ q.inactive = ldap_pools[i].inactive
    BY <1>1, <1>2 DEF PoolRec
  <1>5. OneCounted(w, to, ldap_pools[i], q)
    <2>1. /\ IsFiniteSet(q.used) /\ q.connections = Len(q.inactive) + Cardinality(q.used)
          /\ q.max_connections > 0 => q.connections + q.ontheway <= q.max_connections
      BY <1>1 DEF LdInv, PoolCounts
    <2>2. q.ontheway = q.ontheway + (IF to.pc \in Coming THEN 1 ELSE 0) - (IF ld[w].pc \in Coming THEN 1 ELSE 0)
      BY <1>4
    <2>. QED
      BY <1>1, <2>1, <2>2 DEF OneCounted
  <1>6. OneAnnounced(w, to, i, ldap_pools[i], q)
    <2>1. Awakens(ld[w]) = 0 /\ Awakens(to) \in {0, 1}
      BY DEF Awakens
    <2>2. RoomOf(q) \in Int /\ Len(q.inactive) \in Int
      BY <1>4, LenProperties DEF RoomOf
    <2>. QED
      BY <1>1, <2>1, <2>2 DEF OneAnnounced
  <1>7. HeldOnce' /\ IdleOnce'
    BY <1>3, <1>4, OneThreadKeeps
  <1>. QED
    BY <1>3, <1>5, <1>6, <1>7, OneThreadInv

(* Whoever searches has a table, whose pool there is.                      *)
LEMMA Searching ==
  ASSUME LdInv, NEW w \in LdapThreads,
         ld[w].pc \in {"get", "wait", "woken"} \cup Serving \cup Coming \cup Signalling
  PROVE  /\ ldapPhase = "running" /\ ld[w] \in Busy /\ ld[w].table \in DOMAIN ldapTables
         /\ ldapTables[ld[w].table] = PoolOfSearch(w) /\ PoolOfSearch(w) \in DOMAIN ldap_pools
         /\ ldap_pools[PoolOfSearch(w)] \in PoolRec
  <1>1. ld[w] \in Busy
    BY ThreadKinds DEF LdInv
  <1>2. ld[w].table \in DOMAIN ldapTables /\ ldapTables[ld[w].table] = PoolOfSearch(w)
    BY <1>1 DEF LdInv, LdType, PoolOfSearch
  <1>3. PoolOfSearch(w) \in DOMAIN ldap_pools
    BY <1>2 DEF LdInv, LdType
  <1>4. ldap_pools[PoolOfSearch(w)] \in PoolRec
    BY <1>3 DEF LdInv, LdType
  <1>5. ldapPhase = "running"
    <2>1. LdapIdle \notin Busy
      BY DEF LdapIdle, Busy, Serving, Coming, Signalling
    <2>. QED
      BY <1>1, <2>1 DEF LdInv, Reading
  <1>. QED
    BY <1>1, <1>2, <1>3, <1>4, <1>5

(* What a search becomes after a failure.                                  *)
LEMMA RetriedSearch ==
  ASSUME NEW s \in Busy, NEW fatal
  PROVE  LET t == Retried(s, fatal)
         IN  \/ t \in Done /\ t.pc = "done" /\ t.answer = "failed"
             \/ t \in Busy /\ t.pc = "get" /\ t.table = s.table
  <1>1. CASE fatal \/ s.failures + 1 >= MaxTries
    <2>1. Retried(s, fatal) = [pc |-> "done", key |-> s.key, answer |-> "failed"]
      BY <1>1 DEF Retried
    <2>2. s.key \in LdapKeys /\ "failed" \in LdAnswers
      BY DEF Busy, LdAnswers
    <2>. QED
      BY <2>1, <2>2 DEF Done
  <1>2. CASE ~(fatal \/ s.failures + 1 >= MaxTries)
    <2>1. Retried(s, fatal) = [s EXCEPT !.pc = "get", !.failures = @ + 1, !.conn = 0]
      BY <1>2 DEF Retried
    <2>2. s.failures \in Nat /\ s.failures + 1 \in Nat
      BY DEF Busy
    <2>3. PICK n \in Nat : n = s.failures + 1
      BY <2>2
    <2>4. Retried(s, fatal) = [s EXCEPT !.pc = "get", !.failures = n, !.conn = 0]
      BY <2>1, <2>3
    <2>5. [s EXCEPT !.pc = "get", !.failures = n, !.conn = 0] \in Busy
      BY DEF Busy
    <2>6. /\ [s EXCEPT !.pc = "get", !.failures = n, !.conn = 0].pc = "get"
          /\ [s EXCEPT !.pc = "get", !.failures = n, !.conn = 0].table = s.table
      BY DEF Busy
    <2>. QED
      BY <2>4, <2>5, <2>6
  <1>. QED
    BY <1>1, <1>2

(* A search starts, or is answered from the cache.                         *)
LEMMA LdSearches ==
  ASSUME LdInv, NEW w \in LdapThreads, NEW t \in DOMAIN ldapTables, NEW k \in LdapKeys, ldap_table_search(w, t, k)
  PROVE  LdInv'
  <1>. DEFINE to == IF ldapCache[t][k] # "nothing" THEN [pc |-> "done", key |-> k, answer |-> ldapCache[t][k]]
                    ELSE [pc |-> "get", table |-> t, key |-> k, failures |-> 0, conn |-> 0, answer |-> NoRow]
  <1>1. /\ ldapPhase = "running" /\ ld[w].pc \in {"idle", "done"} /\ LdapSet(w, to)
        /\ UNCHANGED <<ldapConfVars, ldap_pools, ldapCache, bound, nextConn, ldapTime, conn_to_free, missed>>
    BY DEF ldap_table_search
  <1>2. t \in Nat /\ t \in DOMAIN ldapCache
    BY DEF LdInv, LdType
  <1>3. ldapCache[t][k] \in {"nothing", Directory[k]}
    BY <1>2 DEF LdInv, AnswersTrue
  <1>4. \/ to \in Done /\ to.pc = "done" /\ to.key = k /\ to.answer = Directory[k]
        \/ to \in Busy /\ to.pc = "get" /\ to.table = t
    <2>1. CASE ldapCache[t][k] # "nothing"
      BY <1>3, <2>1 DEF Done, LdAnswers
    <2>2. CASE ldapCache[t][k] = "nothing"
      BY <1>2, <2>2 DEF Busy, LdAnswers
    <2>. QED
      BY <2>1, <2>2
  <1>5. ldapTables[t] \in DOMAIN ldap_pools
    BY DEF LdInv, LdType
  <1>6. ld[w] \notin Busy
    BY <1>1, ThreadKinds DEF LdInv, Serving, Coming, Signalling
  <1>. HIDE DEF to
  <1>7. to.pc \in {"done", "get"} /\ (to.pc = "done" => to.answer = Directory[to.key])
        /\ (to \in Busy => to.table = t)
    BY <1>4 DEF Busy, Serving, Coming, Signalling
  <1>. QED
    BY <1>1, <1>4, <1>5, <1>6, <1>7, OneThreadOnly DEF Holding, Serving, Coming, Signalling

(* A connection cannot be made.                                            *)
LEMMA LdNotBound ==
  ASSUME LdInv, NEW w \in LdapThreads, ld[w].pc = "bind", NEW to \in {"unbound", "unboundfatal"}, LdapMove(w, to),
         UNCHANGED <<ldapConfVars, ldap_pools, ldapCache, bound, nextConn, ldapTime, conn_to_free, missed>>
  PROVE  LdInv'
  <1>1. /\ ldapPhase = "running" /\ ld[w] \in Busy /\ ld[w].table \in DOMAIN ldapTables
        /\ ldapTables[ld[w].table] = PoolOfSearch(w) /\ PoolOfSearch(w) \in DOMAIN ldap_pools
    BY Searching DEF Coming
  <1>2. PICK t : t = [ld[w] EXCEPT !.pc = to]
    OBVIOUS
  <1>3. t \in Busy /\ t.pc = to /\ t.table = ld[w].table
    BY <1>1, <1>2, ThreadMoves DEF Coming
  <1>. QED
    BY <1>1, <1>2, <1>3, OneThreadOnly DEF LdapMove, Holding, Serving, Coming, Signalling

(* A query is answered, or fails.                                          *)
LEMMA LdQueries ==
  ASSUME LdInv, NEW w \in LdapThreads, Query(w)
  PROVE  LdInv'
  <1>0. ld[w].pc = "query"
    BY DEF Query
  <1>1. /\ ldapPhase = "running" /\ ld[w] \in Busy /\ ld[w].table \in DOMAIN ldapTables
        /\ ldapTables[ld[w].table] = PoolOfSearch(w) /\ PoolOfSearch(w) \in DOMAIN ldap_pools
    BY <1>0, Searching DEF Serving
  <1>2. PICK t : LdapSet(w, t) /\ (\/ t = [ld[w] EXCEPT !.pc = "release", !.answer = Directory[ld[w].key]]
                                   \/ \E to \in {"close", "closefatal"} : t = [ld[w] EXCEPT !.pc = to])
    BY DEF Query, LdapMove
  <1>3. /\ t \in Busy /\ t.pc \in {"release", "close", "closefatal"} /\ t.table = ld[w].table /\ t.conn = ld[w].conn
        /\ t.pc = "release" => t.answer = Directory[t.key]
    <2>1. CASE t = [ld[w] EXCEPT !.pc = "release", !.answer = Directory[ld[w].key]]
      BY <1>1, <2>1 DEF Busy, LdAnswers, Serving
    <2>2. ASSUME NEW to \in {"close", "closefatal"}, t = [ld[w] EXCEPT !.pc = to]
          PROVE  t \in Busy /\ t.pc = to /\ t.table = ld[w].table /\ t.conn = ld[w].conn
      BY <1>1, <2>2, ThreadMoves DEF Serving
    <2>. QED
      BY <1>2, <2>1, <2>2
  <1>4. UNCHANGED <<ldapConfVars, ldap_pools, ldapCache, bound, nextConn, ldapTime, conn_to_free, missed>>
    BY DEF Query
  <1>. QED
    BY <1>0, <1>1, <1>2, <1>3, <1>4, OneThreadOnly DEF Holding, Serving, Coming, Signalling

(* What the connections of a pool have to do with threads.                 *)
LEMMA IdleNotUsed ==
  ASSUME LdInv, NEW i \in DOMAIN ldap_pools
  PROVE  /\ ldap_pools[i].used \subseteq bound /\ Idles(ldap_pools[i]) \subseteq bound
         /\ \A j \in DOMAIN ldap_pools : ldap_pools[i].used \cap Idles(ldap_pools[j]) = {}
  <1>1. ASSUME NEW c \in ldap_pools[i].used
        PROVE  c \in bound /\ \A j \in DOMAIN ldap_pools : c \notin Idles(ldap_pools[j])
    <2>1. PICK w \in LdapThreads : ld[w].pc \in Holding /\ ld[w].conn = c
      BY DEF LdInv, HeldOnce, Using, Holding, Serving
    <2>. QED
      BY <2>1 DEF LdInv, HeldOnce
  <1>. QED
    BY <1>1 DEF LdInv, IdleOnce

(* A thread waits.                                                         *)
LEMMA LdWaits ==
  ASSUME LdInv, NEW w \in LdapThreads, ld[w].pc \in {"get", "woken"},
         NEW i, i = PoolOfSearch(w),
         force_new(w) \/ ldap_pools[i].inactive = <<>>, Full(ldap_pools[i]), LdapMove(w, "wait"),
         missed' = IF ld[w].pc = "woken" /\ ldap_pools[i].inactive # <<>> THEN missed \cup {i} ELSE missed,
         UNCHANGED <<ldapConfVars, ldap_pools, ldapCache, bound, nextConn, ldapTime, conn_to_free>>
  PROVE  LdInv'
  <1>1. /\ ldapPhase = "running" /\ ld[w] \in Busy /\ ld[w].table \in DOMAIN ldapTables
        /\ ldapTables[ld[w].table] = i /\ i \in DOMAIN ldap_pools /\ ldap_pools[i] \in PoolRec
    BY Searching
  <1>2. PICK q : q = ldap_pools[i]
    OBVIOUS
  <1>3. PICK to : to = [ld[w] EXCEPT !.pc = "wait"]
    OBVIOUS
  <1>4. to \in Busy /\ to.pc = "wait" /\ to.table = ld[w].table /\ to.failures = ld[w].failures /\ to.failures \in Nat
    BY <1>1, <1>3, ThreadMoves DEF Busy
  <1>5. LdapPoolSet(i, q)
    BY <1>1, <1>2 DEF LdapPoolSet, LdInv, LdType
  <1>6. OneThread(w, to, i, q)
    BY <1>1, <1>2, <1>3, <1>4, <1>5 DEF OneThread, LdapMove, LdInv, LdType
  <1>7. /\ q.max_connections \in Nat /\ q.connections \in Int /\ q.ontheway \in Int /\ q.inactive \in Seq(IdleConn)
    BY <1>1, <1>2 DEF PoolRec
  <1>8. OneCounted(w, to, ldap_pools[i], q)
    <2>1. /\ IsFiniteSet(q.used) /\ q.connections = Len(q.inactive) + Cardinality(q.used)
          /\ q.max_connections > 0 => q.connections + q.ontheway <= q.max_connections
      BY <1>1, <1>2 DEF LdInv, PoolCounts
    <2>2. to.pc \notin Coming /\ ld[w].pc \notin Coming
      BY <1>4 DEF Coming
    <2>. QED
      BY <1>2, <1>7, <2>1, <2>2 DEF OneCounted
  <1>9. q.max_connections > 0 /\ RoomOf(q) <= 0 /\ RoomOf(q) \in Int /\ Len(q.inactive) \in Nat
    BY <1>2, <1>7, LenProperties DEF Full, RoomOf
  <1>10. OneAnnounced(w, to, i, ldap_pools[i], q)
    <2>. SUFFICES ASSUME i \notin missed' PROVE OneAnnounced(w, to, i, ldap_pools[i], q)
      BY DEF OneAnnounced
    <2>1. Awakens(to) = 0 /\ Awakens(ld[w]) = IF ld[w].pc = "woken" THEN 1 ELSE 0
      BY <1>4 DEF Awakens, Signalling
    <2>2. ld[w].pc = "woken" => q.inactive = <<>>
      BY <1>2
    <2>3. to.failures <= 1 => q.inactive = <<>>
      BY <1>2, <1>4 DEF force_new
    <2>4. q.inactive = <<>> => Len(q.inactive) = 0
      OBVIOUS
    <2>5. /\ RoomOf(q) - Awakens(to) <= RoomOf(q) - Awakens(ld[w]) \/ RoomOf(q) <= 0
          /\ to.failures <= 1 => RoomOf(q) + Len(q.inactive) <= 0
      BY <1>9, <2>3, <2>4
    <2>6. CASE ld[w].pc # "woken"
      BY <1>2, <1>9, <2>1, <2>5, <2>6 DEF OneAnnounced
    <2>7. CASE ld[w].pc = "woken"
      BY <1>2, <1>9, <2>2, <2>4, <2>5, <2>7 DEF OneAnnounced
    <2>. QED
      BY <2>6, <2>7
  <1>11. HeldOnce' /\ IdleOnce'
    BY <1>2, <1>4, <1>6, OneThreadKeeps DEF Holding, Serving
  <1>. QED
    BY <1>6, <1>8, <1>9, <1>10, <1>11, OneThreadInv

(* A thread goes to make a connection.                                     *)
LEMMA LdMakes ==
  ASSUME LdInv, NEW w \in LdapThreads, ld[w].pc \in {"get", "woken"},
         NEW i, i = PoolOfSearch(w), ~Full(ldap_pools[i]),
         LdapPoolSet(i, [ldap_pools[i] EXCEPT !.ontheway = @ + 1]), LdapMove(w, "bind"),
         UNCHANGED <<ldapConfVars, ldapCache, bound, nextConn, ldapTime, conn_to_free, missed>>
  PROVE  LdInv'
  <1>1. /\ ldapPhase = "running" /\ ld[w] \in Busy /\ ld[w].table \in DOMAIN ldapTables
        /\ ldapTables[ld[w].table] = i /\ i \in DOMAIN ldap_pools /\ ldap_pools[i] \in PoolRec
    BY Searching
  <1>2. PICK p \in PoolRec : p = ldap_pools[i]
    BY <1>1
  <1>3. PICK q : q = [p EXCEPT !.ontheway = @ + 1]
    OBVIOUS
  <1>4. PICK to : to = [ld[w] EXCEPT !.pc = "bind"]
    OBVIOUS
  <1>5. to \in Busy /\ to.pc = "bind" /\ to.table = ld[w].table
    BY <1>1, <1>4, ThreadMoves DEF Coming
  <1>6. /\ q \in PoolRec /\ q.max_connections = p.max_connections /\ q.connections = p.connections
        /\ q.ontheway = p.ontheway + 1 /\ q.inactive = p.inactive /\ q.used = p.used
    BY <1>3 DEF PoolRec
  <1>7. OneThread(w, to, i, q)
    BY <1>1, <1>2, <1>3, <1>4, <1>5, <1>6 DEF OneThread, LdapMove, LdInv, LdType
  <1>8. /\ p.max_connections \in Nat /\ p.connections \in Int /\ p.ontheway \in Int /\ p.inactive \in Seq(IdleConn)
    BY DEF PoolRec
  <1>9. OneCounted(w, to, p, q)
    <2>1. IsFiniteSet(p.used) /\ p.connections = Len(p.inactive) + Cardinality(p.used)
      BY <1>1, <1>2 DEF LdInv, PoolCounts
    <2>2. to.pc \in Coming /\ ld[w].pc \notin Coming
      BY <1>5 DEF Coming
    <2>3. q.max_connections > 0 => q.connections + q.ontheway <= q.max_connections
      BY <1>2, <1>6, <1>8 DEF Full
    <2>. QED
      BY <1>6, <1>8, <2>1, <2>2, <2>3 DEF OneCounted
  <1>10. OneAnnounced(w, to, i, p, q)
    <2>1. Awakens(to) = 0 /\ Awakens(ld[w]) \in {0, 1} /\ to.pc # "wait"
      BY <1>5 DEF Awakens, Signalling
    <2>2. RoomOf(q) = RoomOf(p) - 1 /\ RoomOf(p) \in Int /\ Len(p.inactive) \in Nat
      BY <1>6, <1>8, LenProperties DEF RoomOf
    <2>. QED
      BY <1>6, <2>1, <2>2 DEF OneAnnounced
  <1>11. HeldOnce' /\ IdleOnce'
    BY <1>2, <1>5, <1>6, <1>7, OneThreadKeeps DEF Holding, Serving
  <1>. QED
    BY <1>2, <1>5, <1>7, <1>9, <1>10, <1>11, OneThreadInv

(* A connection could not be made; nobody is told.                         *)
LEMMA LdGivesUp ==
  ASSUME LdInv, NEW w \in LdapThreads, ld[w].pc \in {"unbound", "unboundfatal"},
         NEW i, i = PoolOfSearch(w), NEW fatal,
         LdapPoolSet(i, [ldap_pools[i] EXCEPT !.ontheway = @ - 1]), LdapSet(w, Retried(ld[w], fatal)),
         missed' = missed \cup {i},
         UNCHANGED <<ldapConfVars, ldapCache, bound, nextConn, ldapTime, conn_to_free>>
  PROVE  LdInv'
  <1>1. /\ ldapPhase = "running" /\ ld[w] \in Busy /\ ld[w].table \in DOMAIN ldapTables
        /\ ldapTables[ld[w].table] = i /\ i \in DOMAIN ldap_pools /\ ldap_pools[i] \in PoolRec
    BY Searching DEF Coming
  <1>2. PICK p \in PoolRec : p = ldap_pools[i]
    BY <1>1
  <1>3. PICK q : q = [p EXCEPT !.ontheway = @ - 1]
    OBVIOUS
  <1>4. PICK to : to = Retried(ld[w], fatal)
    OBVIOUS
  <1>5. /\ \/ to \in Done /\ to.pc = "done" /\ to.answer = "failed"
           \/ to \in Busy /\ to.pc = "get" /\ to.table = ld[w].table
        /\ to \in Busy => to.table = ld[w].table
    <2>1. \/ to \in Done /\ to.pc = "done" /\ to.answer = "failed"
          \/ to \in Busy /\ to.pc = "get" /\ to.table = ld[w].table
      BY <1>1, <1>4, RetriedSearch
    <2>. QED
      BY <2>1 DEF Busy, Serving, Coming, Signalling
  <1>6. /\ q \in PoolRec /\ q.max_connections = p.max_connections /\ q.connections = p.connections
        /\ q.ontheway = p.ontheway - 1 /\ q.inactive = p.inactive /\ q.used = p.used
    BY <1>3 DEF PoolRec
  <1>7. OneThread(w, to, i, q)
    BY <1>1, <1>2, <1>3, <1>4, <1>5, <1>6 DEF OneThread, LdInv, LdType
  <1>8. /\ p.max_connections \in Nat /\ p.connections \in Int /\ p.ontheway \in Int /\ p.inactive \in Seq(IdleConn)
    BY DEF PoolRec
  <1>9. OneCounted(w, to, p, q)
    <2>1. /\ IsFiniteSet(p.used) /\ p.connections = Len(p.inactive) + Cardinality(p.used)
          /\ p.max_connections > 0 => p.connections + p.ontheway <= p.max_connections
      BY <1>1, <1>2 DEF LdInv, PoolCounts
    <2>2. to.pc \notin Coming /\ ld[w].pc \in Coming
      BY <1>5 DEF Coming
    <2>. QED
      BY <1>6, <1>8, <2>1, <2>2 DEF OneCounted
  <1>10. OneAnnounced(w, to, i, p, q)
    BY DEF OneAnnounced
  <1>11. to.pc \in {"done", "get"}
    BY <1>5
  <1>12. HeldOnce' /\ IdleOnce'
    BY <1>2, <1>6, <1>7, <1>11, OneThreadKeeps DEF Holding, Serving
  <1>. QED
    BY <1>2, <1>7, <1>9, <1>10, <1>11, <1>12, OneThreadInv

(* A connection is made: it has a new number.                              *)
LEMMA LdBinds ==
  ASSUME LdInv, NEW w \in LdapThreads, ld[w].pc = "bind",
         bound' = bound \cup {nextConn}, nextConn' = nextConn + 1,
         LdapSet(w, [ld[w] EXCEPT !.pc = "bound", !.conn = nextConn]),
         UNCHANGED <<ldapConfVars, ldap_pools, ldapCache, ldapTime, conn_to_free, missed>>
  PROVE  LdInv'
  <1>1. /\ ldapPhase = "running" /\ ld[w] \in Busy /\ ld[w].table \in DOMAIN ldapTables
        /\ ldapTables[ld[w].table] = PoolOfSearch(w) /\ PoolOfSearch(w) \in DOMAIN ldap_pools
        /\ ldap_pools[PoolOfSearch(w)] \in PoolRec /\ nextConn \in Nat \ {0} /\ LdType /\ HeldOnce /\ IdleOnce
    BY Searching DEF Coming, LdInv, LdType
  <1>2. PICK i \in DOMAIN ldap_pools : i = PoolOfSearch(w)
    BY <1>1
  <1>3. PICK q : q = ldap_pools[i]
    OBVIOUS
  <1>4. PICK to : to = [ld[w] EXCEPT !.pc = "bound", !.conn = nextConn]
    OBVIOUS
  <1>5. to \in Busy /\ to.pc = "bound" /\ to.table = ld[w].table /\ to.conn = nextConn
    BY <1>1, <1>4 DEF Busy, Coming
  <1>6. LdapPoolSet(i, q)
    BY <1>1, <1>3 DEF LdapPoolSet, LdType
  <1>7. OneThread(w, to, i, q)
    BY <1>1, <1>2, <1>3, <1>4, <1>5, <1>6 DEF OneThread
  <1>8. /\ q \in PoolRec /\ q.max_connections \in Nat /\ q.connections \in Int /\ q.ontheway \in Int
        /\ q.inactive \in Seq(IdleConn)
    BY <1>1, <1>2, <1>3 DEF PoolRec
  <1>9. OneCounted(w, to, ldap_pools[i], q)
    <2>1. /\ IsFiniteSet(q.used) /\ q.connections = Len(q.inactive) + Cardinality(q.used)
          /\ q.max_connections > 0 => q.connections + q.ontheway <= q.max_connections
      BY <1>2, <1>3 DEF LdInv, PoolCounts
    <2>2. to.pc \in Coming /\ ld[w].pc \in Coming
      BY <1>5 DEF Coming
    <2>. QED
      BY <1>3, <1>8, <2>1, <2>2 DEF OneCounted
  <1>10. OneAnnounced(w, to, i, ldap_pools[i], q)
    <2>1. Awakens(to) = 0 /\ Awakens(ld[w]) = 0 /\ to.pc # "wait"
      BY <1>5 DEF Awakens, Signalling
    <2>2. RoomOf(q) \in Int /\ Len(q.inactive) \in Nat
      BY <1>8, LenProperties DEF RoomOf
    <2>. QED
      BY <1>3, <2>1, <2>2 DEF OneAnnounced
  <1>11. /\ ld'[w] = to /\ \A v \in LdapThreads : v # w => ld'[v] = ld[v]
         /\ \A v \in LdapThreads : PoolOfSearch(v)' = PoolOfSearch(v)
    BY <1>1, <1>5, <1>7, OneThreadFrame
  <1>12. nextConn \notin bound /\ bound \subseteq 1 .. nextConn /\ nextConn \in 1 .. nextConn
    <2>1. bound \subseteq 1 .. nextConn - 1 /\ 1 .. nextConn - 1 \subseteq 1 .. nextConn /\ nextConn \notin 1 .. nextConn - 1
      BY <1>1 DEF IdleOnce
    <2>. QED
      BY <1>1, <2>1
  <1>13. IdleOnce'
    BY <1>1, <1>12 DEF IdleOnce
  <1>14. HeldOnce'
    <2>1. \A j \in DOMAIN ldap_pools : nextConn \notin Idles(ldap_pools[j])
      BY <1>1, <1>12 DEF IdleOnce
    <2>2. nextConn \notin conn_to_free
      BY <1>1, <1>12 DEF IdleOnce
    <2>3. \A v \in LdapThreads : ld[v].pc \in Holding => ld[v].conn # nextConn
      BY <1>1, <1>12 DEF HeldOnce
    <2>4. \A v \in LdapThreads : ld'[v].pc \in Serving <=> ld[v].pc \in Serving /\ v # w
      BY <1>5, <1>11 DEF Serving
    <2>5. \A v \in LdapThreads : ld'[v].pc \in Holding =>
            /\ ld'[v].conn \in bound' /\ ld'[v].conn \notin conn_to_free'
            /\ \A j \in DOMAIN ldap_pools' : ld'[v].conn \notin Idles(ldap_pools'[j])
            /\ \A u \in LdapThreads : ld'[u].pc \in Holding /\ ld'[u].conn = ld'[v].conn => u = v
      BY <1>1, <1>5, <1>11, <2>1, <2>2, <2>3 DEF HeldOnce
    <2>6. \A v \in LdapThreads : ld'[v].pc \in Serving => ld'[v].conn \in ldap_pools'[PoolOfSearch(v)'].used
      BY <1>1, <1>11, <2>4 DEF HeldOnce
    <2>7. ASSUME NEW j \in DOMAIN ldap_pools', NEW c \in ldap_pools'[j].used
          PROVE  \E v \in LdapThreads : ld'[v].pc \in Serving /\ PoolOfSearch(v)' = j /\ ld'[v].conn = c
      <3>1. PICK v \in LdapThreads : ld[v].pc \in Serving /\ PoolOfSearch(v) = j /\ ld[v].conn = c
        BY <1>1 DEF HeldOnce, Using, Serving
      <3>2. v # w
        BY <3>1 DEF Serving
      <3>. QED
        BY <1>11, <3>1, <3>2
    <2>. QED
      BY <2>5, <2>6, <2>7 DEF HeldOnce, Using, Serving
  <1>. QED
    BY <1>5, <1>7, <1>9, <1>10, <1>13, <1>14, OneThreadInv

(* Where connections are after a step of one thread: those of the others   *)
(* stay where they are.                                                    *)
LEMMA OthersHold ==
  ASSUME NEW w, NEW to, NEW i, NEW q, OneThread(w, to, i, q), UNCHANGED <<bound, nextConn, conn_to_free>>,
         \* the connection of the thread, if it has one now
         to.pc \in Holding =>
           /\ to.conn \in bound /\ to.conn \notin conn_to_free
           /\ to.conn \notin Idles(q)
           /\ \A j \in DOMAIN ldap_pools : j # i => to.conn \notin Idles(ldap_pools[j])
           /\ \A v \in LdapThreads : v # w /\ ld[v].pc \in Holding => ld[v].conn # to.conn,
         \* the pool
         \A v \in LdapThreads : v # w /\ ld[v].pc \in Holding => ld[v].conn \notin Idles(q),
         \A v \in LdapThreads : v # w /\ ld[v].pc \in Serving /\ PoolOfSearch(v) = i => ld[v].conn \in q.used,
         to.pc \in Serving => to.conn \in q.used,
         \A c \in q.used : \/ to.pc \in Serving /\ to.conn = c
                           \/ \E v \in LdapThreads : v # w /\ ld[v].pc \in Serving /\ PoolOfSearch(v) = i /\ ld[v].conn = c,
         \A m \in DOMAIN q.inactive : q.inactive[m].conn \in bound /\ q.inactive[m].conn \notin conn_to_free,
         \A m, n \in DOMAIN q.inactive : q.inactive[m].conn = q.inactive[n].conn => m = n,
         \A m \in DOMAIN q.inactive : \A j \in DOMAIN ldap_pools : j # i => q.inactive[m].conn \notin Idles(ldap_pools[j])
  PROVE  HeldOnce' /\ IdleOnce'
  <1>1. LdType /\ HeldOnce /\ IdleOnce /\ w \in LdapThreads /\ i \in DOMAIN ldap_pools
    BY DEF OneThread, LdInv
  <1>2. /\ ld'[w] = to /\ \A v \in LdapThreads : v # w => ld'[v] = ld[v]
        /\ \A v \in LdapThreads : PoolOfSearch(v)' = IF v = w THEN ldapTables[to.table] ELSE PoolOfSearch(v)
        /\ DOMAIN ldap_pools' = DOMAIN ldap_pools /\ ldap_pools'[i] = q
        /\ \A j \in DOMAIN ldap_pools : j # i => ldap_pools'[j] = ldap_pools[j]
    BY OneThreadFrame
  <1>3. to.pc \in Serving => ldapTables[to.table] = i /\ to.pc \in Holding
    <2>1. to.pc \in Serving => to \in Busy
      BY DEF OneThread, Done, Serving
    <2>. QED
      BY <2>1 DEF OneThread, Holding
  <1>4. ASSUME NEW v \in LdapThreads, ld[v].pc \in Serving
        PROVE  PoolOfSearch(v) \in DOMAIN ldap_pools /\ ld[v].conn \in ldap_pools[PoolOfSearch(v)].used
    <2>1. ld[v] \in Busy
      BY <1>1, <1>4, ThreadKinds
    <2>. QED
      BY <1>1, <1>4, <2>1 DEF LdType, PoolOfSearch, HeldOnce
  <1>5. ASSUME NEW j \in DOMAIN ldap_pools, j # i, NEW c \in ldap_pools[j].used
        PROVE  \E v \in LdapThreads : v # w /\ ld[v].pc \in Serving /\ PoolOfSearch(v) = j /\ ld[v].conn = c
    <2>1. PICK v \in LdapThreads : ld[v].pc \in Serving /\ PoolOfSearch(v) = j /\ ld[v].conn = c
      BY <1>1, <1>5 DEF HeldOnce, Using, Serving
    <2>2. v # w
      <3>1. ld[v].pc \in Serving => ld[v] \in Busy
        BY <1>1, ThreadKinds
      <3>. QED
        BY <1>5, <2>1, <3>1 DEF OneThread
    <2>. QED
      BY <2>1, <2>2
  <1>6. IdleOnce'
    <2>1. \A j \in DOMAIN ldap_pools : Idles(ldap_pools'[j]) \subseteq bound \ conn_to_free
      <3>1. Idles(q) \subseteq bound \ conn_to_free
        BY DEF Idles
      <3>. QED
        BY <1>1, <1>2, <3>1 DEF IdleOnce
    <2>2. ASSUME NEW j \in DOMAIN ldap_pools, NEW k \in DOMAIN ldap_pools,
                 NEW m \in DOMAIN ldap_pools'[j].inactive, NEW n \in DOMAIN ldap_pools'[k].inactive,
                 ldap_pools'[j].inactive[m].conn = ldap_pools'[k].inactive[n].conn
          PROVE  j = k /\ m = n
      <3>1. CASE j = i /\ k = i
        BY <1>2, <2>2, <3>1
      <3>2. CASE j = i /\ k # i
        BY <1>2, <2>2, <3>2 DEF Idles
      <3>3. CASE j # i /\ k = i
        BY <1>2, <2>2, <3>3 DEF Idles
      <3>4. CASE j # i /\ k # i
        <4>1. ldap_pools'[j] = ldap_pools[j] /\ ldap_pools'[k] = ldap_pools[k]
          BY <1>2, <3>4
        <4>. QED
          BY <1>1, <2>2, <4>1 DEF IdleOnce
      <3>. QED
        BY <3>1, <3>2, <3>3, <3>4
    <2>3. bound' \subseteq 1 .. nextConn' - 1 /\ conn_to_free' \subseteq bound'
      BY <1>1 DEF IdleOnce
    <2>. QED
      BY <1>2, <2>1, <2>2, <2>3 DEF IdleOnce
  <1>7. HeldOnce'
    <2>1. ASSUME NEW v \in LdapThreads, ld'[v].pc \in Holding
          PROVE  /\ ld'[v].conn \in bound' /\ ld'[v].conn \notin conn_to_free'
                 /\ \A j \in DOMAIN ldap_pools' : ld'[v].conn \notin Idles(ldap_pools'[j])
                 /\ \A u \in LdapThreads : ld'[u].pc \in Holding /\ ld'[u].conn = ld'[v].conn => u = v
      <3>1. CASE v = w
        BY <1>2, <2>1, <3>1
      <3>2. CASE v # w
        <4>1. ld'[v] = ld[v] /\ ld[v].pc \in Holding
          BY <1>2, <2>1, <3>2
        <4>2. /\ ld[v].conn \in bound /\ ld[v].conn \notin conn_to_free
              /\ \A j \in DOMAIN ldap_pools : ld[v].conn \notin Idles(ldap_pools[j])
              /\ \A u \in LdapThreads : ld[u].pc \in Holding /\ ld[u].conn = ld[v].conn => u = v
          BY <1>1, <4>1 DEF HeldOnce
        <4>. QED
          BY <1>2, <3>2, <4>1, <4>2
      <3>. QED
        BY <3>1, <3>2
    <2>2. ASSUME NEW v \in LdapThreads, ld'[v].pc \in Serving
          PROVE  ld'[v].conn \in ldap_pools'[PoolOfSearch(v)'].used
      <3>1. CASE v = w
        BY <1>2, <1>3, <2>2, <3>1
      <3>2. CASE v # w
        BY <1>2, <1>4, <2>2, <3>2
      <3>. QED
        BY <3>1, <3>2
    <2>3. ASSUME NEW j \in DOMAIN ldap_pools', NEW c \in ldap_pools'[j].used
          PROVE  \E v \in LdapThreads : ld'[v].pc \in Serving /\ PoolOfSearch(v)' = j /\ ld'[v].conn = c
      <3>1. CASE j = i
        <4>1. c \in q.used
          BY <1>2, <3>1
        <4>2. CASE to.pc \in Serving /\ to.conn = c
          BY <1>1, <1>2, <1>3, <3>1, <4>2
        <4>3. CASE \E v \in LdapThreads : v # w /\ ld[v].pc \in Serving /\ PoolOfSearch(v) = i /\ ld[v].conn = c
          BY <1>2, <3>1, <4>3
        <4>. QED
          BY <4>1, <4>2, <4>3
      <3>2. CASE j # i
        BY <1>2, <1>5, <3>2
      <3>. QED
        BY <3>1, <3>2
    <2>. QED
      BY <2>1, <2>2, <2>3 DEF HeldOnce, Using, Serving
  <1>. QED
    BY <1>6, <1>7

(* A set with one element more.                                            *)
LEMMA OneMore ==
  ASSUME NEW S, IsFiniteSet(S), NEW x, x \notin S
  PROVE  /\ IsFiniteSet(S \cup {x}) /\ Cardinality(S) \in Nat
         /\ Cardinality(S \cup {x}) = Cardinality(S) + 1
  BY FS_AddElement, FS_CardinalityType

(* A set with one element less.                                            *)
LEMMA OneLess ==
  ASSUME NEW S, IsFiniteSet(S), NEW x \in S
  PROVE  /\ IsFiniteSet(S \ {x}) /\ Cardinality(S) \in Nat
         /\ Cardinality(S \ {x}) = Cardinality(S) - 1
  BY FS_RemoveElement, FS_CardinalityType

(* Each used connection has a thread that uses it.                         *)
LEMMA UsedHasUser ==
  ASSUME HeldOnce, NEW i \in DOMAIN ldap_pools, NEW c \in ldap_pools[i].used
  PROVE  \E v \in LdapThreads : ld[v].pc \in Serving /\ ld[v].pc \in Holding /\ PoolOfSearch(v) = i /\ ld[v].conn = c
  BY DEF HeldOnce, Using, Serving, Holding

(* A thread takes the first of the idle connections.                       *)
LEMMA LdTakes ==
  ASSUME LdInv, NEW w \in LdapThreads, ld[w].pc \in {"get", "woken"},
         NEW i, i = PoolOfSearch(w), NEW p, p = ldap_pools[i], p.inactive # <<>>,
         ld[w].pc = "get" \/ Full(p),
         LdapPoolSet(i, [p EXCEPT !.inactive = Tail(@), !.used = @ \cup {Head(p.inactive).conn}]),
         LdapSet(w, [ld[w] EXCEPT !.pc = "query", !.conn = Head(p.inactive).conn]),
         UNCHANGED <<ldapConfVars, ldapCache, bound, nextConn, ldapTime, conn_to_free, missed>>
  PROVE  LdInv'
  <1>1. /\ ldapPhase = "running" /\ ld[w] \in Busy /\ ld[w].table \in DOMAIN ldapTables
        /\ ldapTables[ld[w].table] = i /\ i \in DOMAIN ldap_pools /\ p \in PoolRec
        /\ LdType /\ HeldOnce /\ IdleOnce
    BY Searching DEF LdInv
  <1>2. /\ p.max_connections \in Nat /\ p.connections \in Int /\ p.ontheway \in Int /\ p.inactive \in Seq(IdleConn)
        /\ p.used \subseteq Nat
    BY <1>1 DEF PoolRec
  <1>3. /\ Head(p.inactive) \in IdleConn /\ Tail(p.inactive) \in Seq(IdleConn)
        /\ Len(Tail(p.inactive)) = Len(p.inactive) - 1 /\ Len(p.inactive) \in Nat /\ Len(p.inactive) > 0
        /\ Head(p.inactive) = p.inactive[1] /\ DOMAIN p.inactive = 1 .. Len(p.inactive)
        /\ \A m \in 1 .. Len(p.inactive) - 1 : Tail(p.inactive)[m] = p.inactive[m + 1]
    BY <1>2, HeadTailProperties, LenProperties
  <1>4. PICK c : c = Head(p.inactive).conn
    OBVIOUS
  <1>5. c \in Nat /\ c = p.inactive[1].conn /\ 1 \in DOMAIN p.inactive /\ c \in Idles(p)
    <2>1. c \in Nat /\ c = p.inactive[1].conn
      BY <1>3, <1>4 DEF IdleConn
    <2>2. 1 \in DOMAIN p.inactive
      BY <1>3
    <2>. QED
      BY <2>1, <2>2 DEF Idles
  <1>6. PICK s \in Seq(IdleConn) : s = Tail(p.inactive)
    BY <1>3
  <1>7. PICK q : q = [p EXCEPT !.inactive = s, !.used = @ \cup {c}]
    OBVIOUS
  <1>8. /\ q \in PoolRec /\ q.max_connections = p.max_connections /\ q.connections = p.connections
        /\ q.ontheway = p.ontheway /\ q.inactive = s /\ q.used = p.used \cup {c}
    BY <1>1, <1>5, <1>7 DEF PoolRec
  <1>9. PICK to : to = [ld[w] EXCEPT !.pc = "query", !.conn = c]
    OBVIOUS
  <1>10. to \in Busy /\ to.pc = "query" /\ to.table = ld[w].table /\ to.conn = c
    BY <1>1, <1>5, <1>9 DEF Busy, Serving
  <1>11. LdapPoolSet(i, q) /\ LdapSet(w, to)
    BY <1>4, <1>6, <1>7, <1>9
  <1>12. OneThread(w, to, i, q)
    BY <1>1, <1>8, <1>10, <1>11 DEF OneThread, LdType
  <1>13. c \in bound /\ c \notin p.used /\ c \notin conn_to_free
    <2>1. c \in bound /\ c \notin conn_to_free
      BY <1>1, <1>5 DEF IdleOnce
    <2>2. c \notin p.used
      BY <1>1, <1>5, IdleNotUsed
    <2>. QED
      BY <2>1, <2>2
  <1>14. OneCounted(w, to, ldap_pools[i], q)
    <2>1. /\ IsFiniteSet(p.used) /\ p.connections = Len(p.inactive) + Cardinality(p.used)
          /\ p.max_connections > 0 => p.connections + p.ontheway <= p.max_connections
      BY <1>1 DEF LdInv, PoolCounts
    <2>2. IsFiniteSet(q.used) /\ Cardinality(q.used) = Cardinality(p.used) + 1 /\ Cardinality(p.used) \in Nat
      <3>1. /\ IsFiniteSet(p.used \cup {c}) /\ Cardinality(p.used) \in Nat
            /\ Cardinality(p.used \cup {c}) = Cardinality(p.used) + 1
        BY <1>13, <2>1, OneMore, Zenon
      <3>. QED
        BY <1>8, <3>1, Zenon
    <2>3. to.pc \notin Coming /\ ld[w].pc \notin Coming
      BY <1>10 DEF Coming
    <2>4. q.connections = Len(q.inactive) + Cardinality(q.used)
      <3>1. \A n, m \in Nat : n + m = (n - 1) + (m + 1)
        OBVIOUS
      <3>2. Len(q.inactive) = Len(p.inactive) - 1
        BY <1>3, <1>6, <1>8, Zenon
      <3>. QED
        BY <1>3, <1>8, <2>1, <2>2, <3>1, <3>2, ZenonT(40)
    <2>5. q.ontheway = p.ontheway + (IF to.pc \in Coming THEN 1 ELSE 0) - (IF ld[w].pc \in Coming THEN 1 ELSE 0)
      BY <1>2, <1>8, <2>3
    <2>. QED
      BY <1>8, <2>1, <2>2, <2>4, <2>5 DEF OneCounted
  <1>15. OneAnnounced(w, to, i, ldap_pools[i], q)
    <2>1. Awakens(to) = 0 /\ Awakens(ld[w]) = (IF ld[w].pc = "woken" THEN 1 ELSE 0) /\ to.pc # "wait"
      BY <1>10 DEF Awakens, Signalling
    <2>2. RoomOf(q) = RoomOf(p) /\ RoomOf(p) \in Int /\ Len(q.inactive) = Len(p.inactive) - 1 /\ Len(p.inactive) \in Nat
      BY <1>2, <1>3, <1>6, <1>8 DEF RoomOf
    <2>3. ld[w].pc = "woken" => RoomOf(p) <= 0
      BY <1>2 DEF Full, RoomOf
    <2>4. \A room, n \in Int :
            /\ room - 0 <= room - 0 /\ room + (n - 1) - 0 <= room + n - 0
            /\ room + (n - 1) - 0 <= room + n - 1
      OBVIOUS
    <2>5. CASE ld[w].pc = "woken"
      BY <2>1, <2>2, <2>3, <2>4, <2>5 DEF OneAnnounced
    <2>6. CASE ld[w].pc # "woken"
      BY <2>1, <2>2, <2>4, <2>6 DEF OneAnnounced
    <2>. QED
      BY <2>5, <2>6
  <1>16. HeldOnce' /\ IdleOnce'
    <2>1. \A m \in DOMAIN s : m + 1 \in DOMAIN p.inactive /\ s[m] = p.inactive[m + 1] /\ m \in Nat
      BY <1>3, <1>6
    <2>2. \A m, n \in DOMAIN p.inactive : p.inactive[m].conn = p.inactive[n].conn => m = n
      BY <1>1 DEF IdleOnce
    <2>3. \A m \in DOMAIN s : s[m].conn # c
      BY <1>5, <2>1, <2>2
    <2>4. \A m \in DOMAIN s : s[m].conn \in Idles(p)
      BY <2>1 DEF Idles
    <2>5. \A j \in DOMAIN ldap_pools : j # i => Idles(p) \cap Idles(ldap_pools[j]) = {}
      BY <1>1 DEF IdleOnce, Idles
    <2>6. \A v \in LdapThreads : ld[v].pc \in Holding => ld[v].conn \notin Idles(p)
      BY <1>1 DEF HeldOnce
    <2>7. c \notin Idles(q) /\ Idles(q) \subseteq Idles(p)
      BY <1>8, <2>3, <2>4 DEF Idles
    <2>8. \A m, n \in DOMAIN s : s[m].conn = s[n].conn => m = n
      <3>1. ASSUME NEW m \in DOMAIN s, NEW n \in DOMAIN s, s[m].conn = s[n].conn PROVE m = n
        <4>1. m + 1 = n + 1
          BY <2>1, <2>2, <3>1
        <4>. QED
          BY <2>1, <4>1
      <3>. QED
        BY <3>1
    <2>9. ld[w].pc \notin Serving
      BY DEF Serving
    <2>10. \A e \in p.used : \E v \in LdapThreads : v # w /\ ld[v].pc \in Serving /\ PoolOfSearch(v) = i /\ ld[v].conn = e
      BY <1>1, <2>9, UsedHasUser
    <2>11. \A v \in LdapThreads : ld[v].pc \in Serving /\ PoolOfSearch(v) = i => ld[v].conn \in p.used
      BY <1>1 DEF HeldOnce
    <2>12. Idles(p) \subseteq bound \ conn_to_free
      BY <1>1 DEF IdleOnce
    <2>13. \A j \in DOMAIN ldap_pools : j # i => c \notin Idles(ldap_pools[j])
      BY <1>5, <2>5
    <2>14. \A v \in LdapThreads : ld[v].pc \in Holding => ld[v].conn # c /\ ld[v].conn \notin Idles(q)
      BY <1>5, <2>6, <2>7
    <2>15. \A m \in DOMAIN q.inactive :
             /\ q.inactive[m].conn \in bound /\ q.inactive[m].conn \notin conn_to_free
             /\ \A j \in DOMAIN ldap_pools : j # i => q.inactive[m].conn \notin Idles(ldap_pools[j])
      BY <1>8, <2>4, <2>5, <2>12
    <2>16. \A m, n \in DOMAIN q.inactive : q.inactive[m].conn = q.inactive[n].conn => m = n
      BY <1>8, <2>8
    <2>17. \A e \in q.used : \/ to.pc \in Serving /\ to.conn = e
                             \/ \E v \in LdapThreads : v # w /\ ld[v].pc \in Serving /\ PoolOfSearch(v) = i /\ ld[v].conn = e
      BY <1>8, <1>10, <2>10 DEF Serving
    <2>18. \A v \in LdapThreads : v # w /\ ld[v].pc \in Serving /\ PoolOfSearch(v) = i => ld[v].conn \in q.used
      BY <1>8, <2>11
    <2>19. to.conn \in q.used
      BY <1>8, <1>10
    <2>. QED
      BY <1>10, <1>12, <1>13, <2>7, <2>13, <2>14, <2>15, <2>16, <2>17, <2>18, <2>19, OthersHold
  <1>. QED
    BY <1>10, <1>12, <1>14, <1>15, <1>16, OneThreadInv

(* ldap_connection_get keeps the invariant.                                *)
LEMMA LdGets ==
  ASSUME LdInv, NEW w \in LdapThreads, ldap_connection_get(w)
  PROVE  LdInv'
  <1>. DEFINE i == PoolOfSearch(w)
              p == ldap_pools[i]
              again == ld[w].pc = "get" \/ Full(p)
  <1>1. ld[w].pc \in {"get", "woken"} /\ UNCHANGED <<ldapConfVars, ldapCache, bound, nextConn, ldapTime, conn_to_free>>
    BY SMTT(40) DEF ldap_connection_get
  <1>2. CASE /\ again /\ ~force_new(w) /\ p.inactive # <<>>
             /\ LdapPoolSet(i, [p EXCEPT !.inactive = Tail(@), !.used = @ \cup {Head(p.inactive).conn}])
             /\ LdapSet(w, [ld[w] EXCEPT !.pc = "query", !.conn = Head(p.inactive).conn])
             /\ UNCHANGED missed
    BY <1>1, <1>2, LdTakes
  <1>3. CASE /\ again /\ (force_new(w) \/ p.inactive = <<>>) /\ Full(p)
             /\ LdapMove(w, "wait")
             /\ missed' = IF ld[w].pc = "woken" /\ p.inactive # <<>> THEN missed \cup {i} ELSE missed
             /\ UNCHANGED ldap_pools
    BY <1>1, <1>3, LdWaits
  <1>4. CASE /\ ~Full(p)
             /\ LdapPoolSet(i, [p EXCEPT !.ontheway = @ + 1])
             /\ LdapMove(w, "bind")
             /\ UNCHANGED missed
    BY <1>1, <1>4, LdMakes
  <1>. QED
    BY <1>2, <1>3, <1>4 DEF ldap_connection_get

(* The pool gets a connection that was made.                               *)
LEMMA PoolAdds ==
  ASSUME NEW p \in PoolRec, NEW c \in Nat
  PROVE  LET q == [p EXCEPT !.ontheway = @ - 1, !.connections = @ + 1, !.used = @ \cup {c}]
         IN  /\ q \in PoolRec /\ q.max_connections = p.max_connections /\ q.connections = p.connections + 1
             /\ q.ontheway = p.ontheway - 1 /\ q.inactive = p.inactive /\ q.used = p.used \cup {c}
  <1>1. p.ontheway - 1 \in Int /\ p.connections + 1 \in Int /\ p.used \cup {c} \in SUBSET Nat
    BY DEF PoolRec
  <1>2. PICK n, m \in Int, u \in SUBSET Nat : n = p.ontheway - 1 /\ m = p.connections + 1 /\ u = p.used \cup {c}
    BY <1>1
  <1>3. LET q == [p EXCEPT !.ontheway = n, !.connections = m, !.used = u]
        IN  /\ q \in PoolRec /\ q.max_connections = p.max_connections /\ q.connections = m
            /\ q.ontheway = n /\ q.inactive = p.inactive /\ q.used = u
    BY DEF PoolRec
  <1>. QED
    BY <1>2, <1>3

(* A used connection of the pool is closed.                                *)
LEMMA PoolLoses ==
  ASSUME NEW p \in PoolRec, NEW c \in Nat
  PROVE  LET q == [[p EXCEPT !.used = @ \ {c}] EXCEPT !.connections = @ - 1]
         IN  /\ q \in PoolRec /\ q.max_connections = p.max_connections /\ q.connections = p.connections - 1
             /\ q.ontheway = p.ontheway /\ q.inactive = p.inactive /\ q.used = p.used \ {c}
  <1>1. p.connections - 1 \in Int /\ p.used \ {c} \in SUBSET Nat
    BY DEF PoolRec
  <1>2. PICK m \in Int, u \in SUBSET Nat : m = p.connections - 1 /\ u = p.used \ {c}
    BY <1>1
  <1>3. LET q == [p EXCEPT !.used = u]
        IN  /\ q \in PoolRec /\ q.max_connections = p.max_connections /\ q.connections = p.connections
            /\ q.ontheway = p.ontheway /\ q.inactive = p.inactive /\ q.used = u
    BY DEF PoolRec
  <1>4. \A r \in PoolRec : LET q == [r EXCEPT !.connections = m]
        IN  /\ q \in PoolRec /\ q.max_connections = r.max_connections /\ q.connections = m
            /\ q.ontheway = r.ontheway /\ q.inactive = r.inactive /\ q.used = r.used
    BY DEF PoolRec
  <1>5. PICK r \in PoolRec : r = [p EXCEPT !.used = u] /\ r.connections = p.connections
          /\ r.max_connections = p.max_connections /\ r.ontheway = p.ontheway /\ r.inactive = p.inactive /\ r.used = u
    BY <1>3
  <1>6. [[p EXCEPT !.used = @ \ {c}] EXCEPT !.connections = @ - 1] = [r EXCEPT !.connections = m]
    BY <1>2, <1>5
  <1>. QED
    BY <1>2, <1>4, <1>5, <1>6

(* The room that a change leaves.                                          *)
LEMMA RoomChanges ==
  ASSUME NEW p \in PoolRec, NEW q \in PoolRec, NEW a \in Int, NEW b \in Int,
         q.max_connections = p.max_connections, q.connections = p.connections + a, q.ontheway = p.ontheway + b
  PROVE  /\ RoomOf(q) = RoomOf(p) - a - b /\ RoomOf(p) \in Int
         /\ Len(p.inactive) \in Nat /\ Len(q.inactive) \in Nat
  <1>1. p.max_connections \in Nat /\ p.connections \in Int /\ p.ontheway \in Int
    BY DEF PoolRec
  <1>2. p.inactive \in Seq(IdleConn) /\ q.inactive \in Seq(IdleConn)
    BY DEF PoolRec
  <1>3. Len(p.inactive) \in Nat /\ Len(q.inactive) \in Nat
    BY <1>2, LenProperties
  <1>. QED
    BY <1>1, <1>3, SMTT(40) DEF RoomOf

(* A connection that was made is added to the used ones.                   *)
LEMMA LdAdds ==
  ASSUME LdInv, NEW w \in LdapThreads, ld[w].pc = "bound",
         NEW i, i = PoolOfSearch(w), NEW p, p = ldap_pools[i],
         LdapPoolSet(i, [p EXCEPT !.ontheway = @ - 1, !.connections = @ + 1, !.used = @ \cup {ld[w].conn}]),
         LdapMove(w, "query"),
         UNCHANGED <<ldapConfVars, ldapCache, bound, nextConn, ldapTime, conn_to_free, missed>>
  PROVE  LdInv'
  <1>1. /\ ldapPhase = "running" /\ ld[w] \in Busy /\ ld[w].table \in DOMAIN ldapTables
        /\ ldapTables[ld[w].table] = i /\ i \in DOMAIN ldap_pools /\ p \in PoolRec
        /\ LdType /\ HeldOnce /\ IdleOnce
    BY Searching DEF LdInv, Coming
  <1>2. /\ p.max_connections \in Nat /\ p.connections \in Int /\ p.ontheway \in Int /\ p.inactive \in Seq(IdleConn)
        /\ p.used \subseteq Nat
    BY <1>1 DEF PoolRec
  <1>3. PICK c \in Nat : c = ld[w].conn
    BY <1>1 DEF Busy
  <1>4. PICK q : q = [p EXCEPT !.ontheway = @ - 1, !.connections = @ + 1, !.used = @ \cup {c}]
    OBVIOUS
  <1>5. /\ q \in PoolRec /\ q.max_connections = p.max_connections /\ q.connections = p.connections + 1
        /\ q.ontheway = p.ontheway - 1 /\ q.inactive = p.inactive /\ q.used = p.used \cup {c}
    BY <1>1, <1>4, PoolAdds, Zenon
  <1>6. PICK to : to = [ld[w] EXCEPT !.pc = "query"]
    OBVIOUS
  <1>7. to \in Busy /\ to.pc = "query" /\ to.table = ld[w].table /\ to.conn = c
    BY <1>1, <1>3, <1>6, ThreadMoves DEF Serving
  <1>8. LdapPoolSet(i, q) /\ LdapSet(w, to)
    BY <1>3, <1>4, <1>6 DEF LdapMove
  <1>9. OneThread(w, to, i, q)
    BY <1>1, <1>5, <1>7, <1>8 DEF OneThread, LdType
  <1>10. /\ c \in bound /\ c \notin conn_to_free
         /\ \A j \in DOMAIN ldap_pools : c \notin Idles(ldap_pools[j])
         /\ \A v \in LdapThreads : ld[v].pc \in Holding /\ ld[v].conn = c => v = w
    BY <1>1, <1>3 DEF HeldOnce, Holding
  <1>11. c \notin p.used
    <2>1. ASSUME c \in p.used PROVE FALSE
      <3>1. PICK v \in LdapThreads : ld[v].pc \in Serving /\ ld[v].pc \in Holding /\ ld[v].conn = c
        BY <1>1, <2>1, UsedHasUser
      <3>. QED
        BY <1>10, <3>1 DEF Serving
    <2>. QED
      BY <2>1
  <1>12. OneCounted(w, to, ldap_pools[i], q)
    <2>1. /\ IsFiniteSet(p.used) /\ p.connections = Len(p.inactive) + Cardinality(p.used)
          /\ p.max_connections > 0 => p.connections + p.ontheway <= p.max_connections
      BY <1>1 DEF LdInv, PoolCounts
    <2>2. IsFiniteSet(q.used) /\ Cardinality(q.used) = Cardinality(p.used) + 1 /\ Cardinality(p.used) \in Nat
      BY <1>5, <1>11, <2>1, OneMore
    <2>3. to.pc \notin Coming /\ ld[w].pc \in Coming
      BY <1>7 DEF Coming
    <2>4. Len(p.inactive) \in Nat
      BY <1>2, LenProperties
    <2>5. q.connections = Len(q.inactive) + Cardinality(q.used)
      BY <1>5, <2>1, <2>2, <2>4
    <2>6. q.ontheway = p.ontheway + (IF to.pc \in Coming THEN 1 ELSE 0) - (IF ld[w].pc \in Coming THEN 1 ELSE 0)
      BY <1>2, <1>5, <2>3
    <2>7. q.max_connections > 0 => q.connections + q.ontheway <= q.max_connections
      BY <1>2, <1>5, <2>1
    <2>. QED
      BY <1>5, <2>2, <2>5, <2>6, <2>7 DEF OneCounted
  <1>13. OneAnnounced(w, to, i, ldap_pools[i], q)
    <2>1. Awakens(to) = 0 /\ Awakens(ld[w]) = 0 /\ to.pc # "wait"
      BY <1>7 DEF Awakens, Signalling
    <2>2. RoomOf(q) = RoomOf(p) /\ RoomOf(p) \in Int /\ Len(q.inactive) = Len(p.inactive) /\ Len(p.inactive) \in Nat
      <3>1. q.connections = p.connections + 1 /\ q.ontheway = p.ontheway + (-1) /\ 1 \in Int /\ -1 \in Int
        BY <1>2, <1>5
      <3>2. RoomOf(q) = RoomOf(p) - 1 - (-1) /\ RoomOf(p) \in Int /\ Len(p.inactive) \in Nat
        BY <1>1, <1>5, <3>1, RoomChanges
      <3>. QED
        BY <1>5, <3>2
    <2>. QED
      BY <2>1, <2>2 DEF OneAnnounced
  <1>14. HeldOnce' /\ IdleOnce'
    <2>1. Idles(q) = Idles(p)
      BY <1>5 DEF Idles
    <2>2. \A e \in p.used : \E v \in LdapThreads : v # w /\ ld[v].pc \in Serving /\ PoolOfSearch(v) = i /\ ld[v].conn = e
      <3>1. ld[w].pc \notin Serving
        BY DEF Serving
      <3>. QED
        BY <1>1, <3>1, UsedHasUser
    <2>3. \A e \in q.used : \/ to.pc \in Serving /\ to.conn = e
                            \/ \E v \in LdapThreads : v # w /\ ld[v].pc \in Serving /\ PoolOfSearch(v) = i /\ ld[v].conn = e
      BY <1>5, <1>7, <2>2 DEF Serving
    <2>4. \A v \in LdapThreads : ld[v].pc \in Serving /\ PoolOfSearch(v) = i => ld[v].conn \in q.used
      BY <1>1, <1>5 DEF HeldOnce
    <2>5. \A v \in LdapThreads : v # w /\ ld[v].pc \in Holding => ld[v].conn \notin Idles(q) /\ ld[v].conn # c
      BY <1>1, <1>10, <2>1 DEF HeldOnce
    <2>6. \A m \in DOMAIN p.inactive :
            /\ p.inactive[m].conn \in bound /\ p.inactive[m].conn \notin conn_to_free
            /\ \A j \in DOMAIN ldap_pools : j # i => p.inactive[m].conn \notin Idles(ldap_pools[j])
      <3>1. \A m \in DOMAIN p.inactive : p.inactive[m].conn \in Idles(p)
        BY DEF Idles
      <3>2. \A j \in DOMAIN ldap_pools : j # i => Idles(p) \cap Idles(ldap_pools[j]) = {}
        BY <1>1 DEF IdleOnce, Idles
      <3>. QED
        BY <1>1, <3>1, <3>2 DEF IdleOnce
    <2>7. \A m, n \in DOMAIN p.inactive : p.inactive[m].conn = p.inactive[n].conn => m = n
      BY <1>1 DEF IdleOnce
    <2>8. to.conn \in q.used
      BY <1>5, <1>7
    <2>9. to.conn = c /\ c \notin Idles(q)
      BY <1>1, <1>7, <1>10, <2>1
    <2>. QED
      BY <1>5, <1>9, <1>10, <2>3, <2>4, <2>5, <2>6, <2>7, <2>8, <2>9, OthersHold
  <1>. QED
    BY <1>7, <1>9, <1>12, <1>13, <1>14, OneThreadInv

(* The end of ldap_connection_get keeps the invariant.                     *)
LEMMA LdGot ==
  ASSUME LdInv, NEW w \in LdapThreads, ldap_connection_got(w)
  PROVE  LdInv'
  <1>1. /\ ld[w].pc \in {"bound", "unbound", "unboundfatal"}
        /\ UNCHANGED <<ldapConfVars, ldapCache, bound, nextConn, ldapTime, conn_to_free>>
    BY DEF ldap_connection_got
  <1>2. CASE ld[w].pc = "bound"
    BY <1>1, <1>2, LdAdds DEF ldap_connection_got
  <1>3. CASE ld[w].pc # "bound"
    BY <1>1, <1>3, LdGivesUp DEF ldap_connection_got
  <1>. QED
    BY <1>2, <1>3

(* A thread closes a connection: it is no longer used, and has left room.  *)
LEMMA LdCloses ==
  ASSUME LdInv, NEW w \in LdapThreads, ld[w].pc \in {"close", "closefatal"},
         NEW i, i = PoolOfSearch(w), NEW p, p = ldap_pools[i],
         LdapPoolSet(i, [[p EXCEPT !.used = @ \ {ld[w].conn}] EXCEPT !.connections = @ - 1]),
         NEW pc \in {"signalclose", "signalclosefatal"}, LdapMove(w, pc),
         UNCHANGED <<ldapConfVars, ldapCache, bound, nextConn, ldapTime, conn_to_free, missed>>
  PROVE  LdInv'
  <1>1. /\ ldapPhase = "running" /\ ld[w] \in Busy /\ ld[w].table \in DOMAIN ldapTables
        /\ ldapTables[ld[w].table] = i /\ i \in DOMAIN ldap_pools /\ p \in PoolRec
        /\ LdType /\ HeldOnce /\ IdleOnce
    BY Searching DEF LdInv, Serving
  <1>2. /\ p.max_connections \in Nat /\ p.connections \in Int /\ p.ontheway \in Int /\ p.inactive \in Seq(IdleConn)
        /\ p.used \subseteq Nat
    BY <1>1 DEF PoolRec
  <1>3. PICK c \in Nat : c = ld[w].conn
    BY <1>1 DEF Busy
  <1>4. PICK q : q = [[p EXCEPT !.used = @ \ {c}] EXCEPT !.connections = @ - 1]
    OBVIOUS
  <1>5. /\ q \in PoolRec /\ q.max_connections = p.max_connections /\ q.connections = p.connections - 1
        /\ q.ontheway = p.ontheway /\ q.inactive = p.inactive /\ q.used = p.used \ {c}
    BY <1>1, <1>4, PoolLoses, Zenon
  <1>6. PICK to : to = [ld[w] EXCEPT !.pc = pc]
    OBVIOUS
  <1>7. to \in Busy /\ to.pc = pc /\ to.table = ld[w].table /\ to.conn = c
    BY <1>1, <1>3, <1>6, ThreadMoves DEF Signalling
  <1>8. LdapPoolSet(i, q) /\ LdapSet(w, to)
    BY <1>3, <1>4, <1>6 DEF LdapMove
  <1>9. OneThread(w, to, i, q)
    BY <1>1, <1>5, <1>7, <1>8 DEF OneThread, LdType
  <1>10. /\ c \in bound /\ c \notin conn_to_free
         /\ \A j \in DOMAIN ldap_pools : c \notin Idles(ldap_pools[j])
         /\ \A v \in LdapThreads : ld[v].pc \in Holding /\ ld[v].conn = c => v = w
    BY <1>1, <1>3 DEF HeldOnce, Holding, Serving
  <1>11. c \in p.used
    BY <1>1, <1>3 DEF HeldOnce, Serving
  <1>12. OneCounted(w, to, ldap_pools[i], q)
    <2>1. /\ IsFiniteSet(p.used) /\ p.connections = Len(p.inactive) + Cardinality(p.used)
          /\ p.max_connections > 0 => p.connections + p.ontheway <= p.max_connections
      BY <1>1 DEF LdInv, PoolCounts
    <2>2. IsFiniteSet(q.used) /\ Cardinality(q.used) = Cardinality(p.used) - 1 /\ Cardinality(p.used) \in Nat
      <3>1. /\ IsFiniteSet(p.used \ {c}) /\ Cardinality(p.used) \in Nat
            /\ Cardinality(p.used \ {c}) = Cardinality(p.used) - 1
        BY <1>11, <2>1, OneLess
      <3>. QED
        BY <1>5, <3>1, Zenon
    <2>3. to.pc \notin Coming /\ ld[w].pc \notin Coming
      BY <1>7 DEF Coming
    <2>4. Len(p.inactive) \in Nat
      BY <1>2, LenProperties
    <2>5. q.connections = Len(q.inactive) + Cardinality(q.used)
      BY <1>5, <2>1, <2>2, <2>4
    <2>6. q.ontheway = p.ontheway + (IF to.pc \in Coming THEN 1 ELSE 0) - (IF ld[w].pc \in Coming THEN 1 ELSE 0)
      BY <1>2, <1>5, <2>3
    <2>7. q.max_connections > 0 => q.connections + q.ontheway <= q.max_connections
      BY <1>2, <1>5, <2>1
    <2>. QED
      BY <1>5, <2>2, <2>5, <2>6, <2>7 DEF OneCounted
  <1>13. OneAnnounced(w, to, i, ldap_pools[i], q)
    <2>1. Awakens(to) = 1 /\ Awakens(ld[w]) = 0 /\ to.pc # "wait"
      BY <1>7 DEF Awakens, Signalling
    <2>2. RoomOf(q) = RoomOf(p) + 1 /\ RoomOf(p) \in Int /\ Len(q.inactive) = Len(p.inactive) /\ Len(p.inactive) \in Nat
      <3>1. q.connections = p.connections + (-1) /\ q.ontheway = p.ontheway + 0 /\ 0 \in Int /\ -1 \in Int
        BY <1>2, <1>5
      <3>2. RoomOf(q) = RoomOf(p) - (-1) - 0 /\ RoomOf(p) \in Int /\ Len(p.inactive) \in Nat
        BY <1>1, <1>5, <3>1, RoomChanges
      <3>. QED
        BY <1>5, <3>2
    <2>3. \A room, n \in Int : room + 1 - 1 <= room - 0 /\ (room + 1) + n - 1 <= room + n - 0
      OBVIOUS
    <2>. QED
      BY <2>1, <2>2, <2>3 DEF OneAnnounced
  <1>14. HeldOnce' /\ IdleOnce'
    <2>1. Idles(q) = Idles(p)
      BY <1>5 DEF Idles
    <2>2. \A e \in q.used : \E v \in LdapThreads : v # w /\ ld[v].pc \in Serving /\ PoolOfSearch(v) = i /\ ld[v].conn = e
      <3>1. ASSUME NEW e \in q.used
            PROVE  \E v \in LdapThreads : v # w /\ ld[v].pc \in Serving /\ PoolOfSearch(v) = i /\ ld[v].conn = e
        <4>1. e \in p.used /\ e # c
          BY <1>5
        <4>2. PICK v \in LdapThreads : ld[v].pc \in Serving /\ PoolOfSearch(v) = i /\ ld[v].conn = e
          BY <1>1, <4>1, UsedHasUser
        <4>. QED
          BY <1>3, <4>1, <4>2
      <3>. QED
        BY <3>1
    <2>3. \A v \in LdapThreads : v # w /\ ld[v].pc \in Serving /\ PoolOfSearch(v) = i => ld[v].conn \in q.used
      BY <1>1, <1>5, <1>10 DEF HeldOnce, Holding
    <2>4. \A v \in LdapThreads : v # w /\ ld[v].pc \in Holding => ld[v].conn \notin Idles(q) /\ ld[v].conn # c
      BY <1>1, <1>10, <2>1 DEF HeldOnce
    <2>5. \A m \in DOMAIN p.inactive :
            /\ p.inactive[m].conn \in bound /\ p.inactive[m].conn \notin conn_to_free
            /\ \A j \in DOMAIN ldap_pools : j # i => p.inactive[m].conn \notin Idles(ldap_pools[j])
      <3>1. \A m \in DOMAIN p.inactive : p.inactive[m].conn \in Idles(p)
        BY DEF Idles
      <3>2. \A j \in DOMAIN ldap_pools : j # i => Idles(p) \cap Idles(ldap_pools[j]) = {}
        BY <1>1 DEF IdleOnce, Idles
      <3>. QED
        BY <1>1, <3>1, <3>2 DEF IdleOnce
    <2>6. \A m, n \in DOMAIN p.inactive : p.inactive[m].conn = p.inactive[n].conn => m = n
      BY <1>1 DEF IdleOnce
    <2>7. to.pc \notin Serving /\ to.conn = c /\ c \notin Idles(q)
      BY <1>1, <1>7, <1>10, <2>1 DEF Serving
    <2>. QED
      BY <1>5, <1>9, <1>10, <2>2, <2>3, <2>4, <2>5, <2>6, <2>7, OthersHold
  <1>. QED
    BY <1>7, <1>9, <1>12, <1>13, <1>14, OneThreadInv

(* The pool after ldap_connection_release has put a connection back.       *)
Rested(p, c, t) == [[p EXCEPT !.used = @ \ {c}] EXCEPT !.inactive = Append(@, [conn |-> c, last_use |-> t])]

(* A used connection of the pool becomes the last of the idle ones.        *)
LEMMA PoolRests ==
  ASSUME NEW p \in PoolRec, NEW c \in Nat, NEW t \in Nat, NEW q, q = Rested(p, c, t)
  PROVE  /\ q \in PoolRec /\ q.max_connections = p.max_connections /\ q.connections = p.connections
         /\ q.ontheway = p.ontheway /\ q.used = p.used \ {c}
         /\ q.inactive = Append(p.inactive, [conn |-> c, last_use |-> t])
  <1>1. p.inactive \in Seq(IdleConn) /\ p.used \ {c} \in SUBSET Nat /\ [conn |-> c, last_use |-> t] \in IdleConn
    BY DEF PoolRec, IdleConn
  <1>2. Append(p.inactive, [conn |-> c, last_use |-> t]) \in Seq(IdleConn)
    BY <1>1, AppendProperties
  <1>3. PICK s \in Seq(IdleConn), u \in SUBSET Nat :
          s = Append(p.inactive, [conn |-> c, last_use |-> t]) /\ u = p.used \ {c}
    BY <1>1, <1>2
  <1>4. LET r == [p EXCEPT !.used = u]
        IN  /\ r \in PoolRec /\ r.max_connections = p.max_connections /\ r.connections = p.connections
            /\ r.ontheway = p.ontheway /\ r.inactive = p.inactive /\ r.used = u
    BY DEF PoolRec
  <1>5. PICK r \in PoolRec : r = [p EXCEPT !.used = u] /\ r.connections = p.connections
          /\ r.max_connections = p.max_connections /\ r.ontheway = p.ontheway /\ r.inactive = p.inactive /\ r.used = u
    BY <1>4
  <1>6. q = [r EXCEPT !.inactive = s]
    BY <1>3, <1>5 DEF Rested
  <1>7. /\ q \in PoolRec /\ q.max_connections = r.max_connections /\ q.connections = r.connections
        /\ q.ontheway = r.ontheway /\ q.inactive = s /\ q.used = r.used
    BY <1>6 DEF PoolRec
  <1>. QED
    BY <1>3, <1>5, <1>7

(* A thread gives a connection back: it is the last of the idle ones.      *)
LEMMA LdRests ==
  ASSUME LdInv, NEW w \in LdapThreads, ld[w].pc = "release",
         NEW i, i = PoolOfSearch(w), NEW p, p = ldap_pools[i],
         LdapPoolSet(i, [[p EXCEPT !.used = @ \ {ld[w].conn}] EXCEPT
                           !.inactive = Append(@, [conn |-> ld[w].conn, last_use |-> ldapTime])]),
         LdapMove(w, "signalrelease"),
         UNCHANGED <<ldapConfVars, ldapCache, bound, nextConn, ldapTime, conn_to_free, missed>>
  PROVE  LdInv'
  <1>1. /\ ldapPhase = "running" /\ ld[w] \in Busy /\ ld[w].table \in DOMAIN ldapTables
        /\ ldapTables[ld[w].table] = i /\ i \in DOMAIN ldap_pools /\ p \in PoolRec
        /\ LdType /\ HeldOnce /\ IdleOnce /\ ldapTime \in Nat
    BY Searching DEF LdInv, LdType, Serving
  <1>2. /\ p.max_connections \in Nat /\ p.connections \in Int /\ p.ontheway \in Int /\ p.inactive \in Seq(IdleConn)
        /\ p.used \subseteq Nat
    BY <1>1 DEF PoolRec
  <1>3. PICK c \in Nat : c = ld[w].conn
    BY <1>1 DEF Busy
  <1>4. PICK q : q = [[p EXCEPT !.used = @ \ {c}] EXCEPT !.inactive = Append(@, [conn |-> c, last_use |-> ldapTime])]
    OBVIOUS
  <1>5. /\ q \in PoolRec /\ q.max_connections = p.max_connections /\ q.connections = p.connections
        /\ q.ontheway = p.ontheway /\ q.used = p.used \ {c}
        /\ q.inactive = Append(p.inactive, [conn |-> c, last_use |-> ldapTime])
    <2>1. PICK t \in Nat : t = ldapTime
      BY <1>1
    <2>2. q = Rested(p, c, t)
      BY <1>4, <2>1 DEF Rested
    <2>3. /\ q \in PoolRec /\ q.max_connections = p.max_connections /\ q.connections = p.connections
          /\ q.ontheway = p.ontheway /\ q.used = p.used \ {c}
          /\ q.inactive = Append(p.inactive, [conn |-> c, last_use |-> t])
      BY <1>1, <2>2, PoolRests
    <2>. QED
      BY <2>1, <2>3
  <1>6. PICK to : to = [ld[w] EXCEPT !.pc = "signalrelease"]
    OBVIOUS
  <1>7. /\ to \in Busy /\ to.pc = "signalrelease" /\ to.table = ld[w].table /\ to.answer = ld[w].answer /\ to.key = ld[w].key
    BY <1>1, <1>3, <1>6, ThreadMoves DEF Signalling
  <1>8. LdapPoolSet(i, q) /\ LdapSet(w, to)
    BY <1>3, <1>4, <1>6 DEF LdapMove
  <1>9. ld[w].answer = Directory[ld[w].key]
    BY DEF LdInv, AnswersTrue
  <1>10. OneThread(w, to, i, q)
    BY <1>1, <1>5, <1>7, <1>8, <1>9 DEF OneThread, LdType
  <1>11. /\ c \in bound /\ c \notin conn_to_free
         /\ \A j \in DOMAIN ldap_pools : c \notin Idles(ldap_pools[j])
         /\ \A v \in LdapThreads : ld[v].pc \in Holding /\ ld[v].conn = c => v = w
    BY <1>1, <1>3 DEF HeldOnce, Holding, Serving
  <1>12. c \in p.used
    BY <1>1, <1>3 DEF HeldOnce, Serving
  <1>13. /\ Len(p.inactive) \in Nat /\ DOMAIN p.inactive = 1 .. Len(p.inactive)
         /\ Len(q.inactive) = Len(p.inactive) + 1 /\ DOMAIN q.inactive = 1 .. Len(p.inactive) + 1
         /\ \A m \in 1 .. Len(p.inactive) : q.inactive[m] = p.inactive[m]
         /\ q.inactive[Len(p.inactive) + 1].conn = c
    <2>1. PICK e \in IdleConn : e = [conn |-> c, last_use |-> ldapTime] /\ e.conn = c
      <3>1. \A a, b \in Nat : [conn |-> a, last_use |-> b] \in IdleConn /\ [conn |-> a, last_use |-> b].conn = a
        BY DEF IdleConn
      <3>. QED
        BY <1>1, <3>1, Zenon
    <2>2. q.inactive = Append(p.inactive, e)
      BY <1>5, <2>1
    <2>3. /\ Len(Append(p.inactive, e)) = Len(p.inactive) + 1
          /\ DOMAIN Append(p.inactive, e) = 1 .. Len(p.inactive) + 1
          /\ \A m \in 1 .. Len(p.inactive) : Append(p.inactive, e)[m] = p.inactive[m]
          /\ Append(p.inactive, e)[Len(p.inactive) + 1] = e
      BY <1>2, AppendProperties
    <2>4. Len(p.inactive) \in Nat /\ DOMAIN p.inactive = 1 .. Len(p.inactive)
      BY <1>2, LenProperties
    <2>. QED
      BY <2>1, <2>2, <2>3, <2>4, Zenon
  <1>14. OneCounted(w, to, ldap_pools[i], q)
    <2>1. /\ IsFiniteSet(p.used) /\ p.connections = Len(p.inactive) + Cardinality(p.used)
          /\ p.max_connections > 0 => p.connections + p.ontheway <= p.max_connections
      BY <1>1 DEF LdInv, PoolCounts
    <2>2. IsFiniteSet(q.used) /\ Cardinality(q.used) = Cardinality(p.used) - 1 /\ Cardinality(p.used) \in Nat
      BY <1>5, <1>12, <2>1, OneLess
    <2>3. to.pc \notin Coming /\ ld[w].pc \notin Coming
      BY <1>7 DEF Coming
    <2>4. q.connections = Len(q.inactive) + Cardinality(q.used)
      <3>1. \A n, m \in Nat : n + m = (n + 1) + (m - 1)
        OBVIOUS
      <3>. QED
        BY <1>5, <1>13, <2>1, <2>2, <3>1
    <2>5. q.ontheway = p.ontheway + (IF to.pc \in Coming THEN 1 ELSE 0) - (IF ld[w].pc \in Coming THEN 1 ELSE 0)
      BY <1>2, <1>5, <2>3
    <2>. QED
      BY <1>5, <2>1, <2>2, <2>4, <2>5 DEF OneCounted
  <1>15. OneAnnounced(w, to, i, ldap_pools[i], q)
    <2>1. Awakens(to) = 1 /\ Awakens(ld[w]) = 0 /\ to.pc # "wait"
      BY <1>7 DEF Awakens, Signalling
    <2>2. RoomOf(q) = RoomOf(p) /\ RoomOf(p) \in Int /\ Len(q.inactive) = Len(p.inactive) + 1 /\ Len(p.inactive) \in Nat
      BY <1>2, <1>5, <1>13 DEF RoomOf
    <2>3. \A room, n \in Int : room - 1 <= room - 0 /\ room + (n + 1) - 1 <= room + n - 0
      OBVIOUS
    <2>. QED
      BY <2>1, <2>2, <2>3, SMTT(40) DEF OneAnnounced
  <1>16. HeldOnce' /\ IdleOnce'
    <2>1. \A m \in DOMAIN q.inactive :
            m \in Int /\ (m \in DOMAIN p.inactive \/ m = Len(p.inactive) + 1)
      <3>1. \A n \in Nat : \A m \in 1 .. n + 1 : m \in Int /\ (m \in 1 .. n \/ m = n + 1)
        OBVIOUS
      <3>. QED
        BY <1>13, <3>1, Zenon
    <2>2. \A m \in DOMAIN q.inactive :
            \/ m \in DOMAIN p.inactive /\ q.inactive[m] = p.inactive[m] /\ q.inactive[m].conn \in Idles(p)
            \/ m = Len(p.inactive) + 1 /\ q.inactive[m].conn = c
      BY <1>13, <2>1, Zenon DEF Idles
    <2>3. \A e \in Idles(q) : e \in Idles(p) \/ e = c
      BY <2>2 DEF Idles
    <2>4. \A e \in q.used : \E v \in LdapThreads : v # w /\ ld[v].pc \in Serving /\ PoolOfSearch(v) = i /\ ld[v].conn = e
      <3>1. ASSUME NEW e \in q.used
            PROVE  \E v \in LdapThreads : v # w /\ ld[v].pc \in Serving /\ PoolOfSearch(v) = i /\ ld[v].conn = e
        <4>1. e \in p.used /\ e # c
          BY <1>5
        <4>2. PICK v \in LdapThreads : ld[v].pc \in Serving /\ PoolOfSearch(v) = i /\ ld[v].conn = e
          BY <1>1, <4>1, UsedHasUser
        <4>. QED
          BY <1>3, <4>1, <4>2
      <3>. QED
        BY <3>1
    <2>5. \A v \in LdapThreads : v # w /\ ld[v].pc \in Serving /\ PoolOfSearch(v) = i => ld[v].conn \in q.used
      BY <1>1, <1>5, <1>11 DEF HeldOnce, Holding
    <2>6. \A v \in LdapThreads : v # w /\ ld[v].pc \in Holding => ld[v].conn \notin Idles(q)
      BY <1>1, <1>11, <2>3 DEF HeldOnce
    <2>7. Idles(p) \subseteq bound \ conn_to_free /\ \A j \in DOMAIN ldap_pools : j # i => Idles(p) \cap Idles(ldap_pools[j]) = {}
      BY <1>1 DEF IdleOnce, Idles
    <2>8. \A m \in DOMAIN q.inactive :
            /\ q.inactive[m].conn \in bound /\ q.inactive[m].conn \notin conn_to_free
            /\ \A j \in DOMAIN ldap_pools : j # i => q.inactive[m].conn \notin Idles(ldap_pools[j])
      BY <1>11, <2>2, <2>7
    <2>9. \A m, n \in DOMAIN q.inactive : q.inactive[m].conn = q.inactive[n].conn => m = n
      <3>1. \A m, n \in DOMAIN p.inactive : p.inactive[m].conn = p.inactive[n].conn => m = n
        BY <1>1 DEF IdleOnce
      <3>2. c \notin Idles(p)
        BY <1>1, <1>11
      <3>. QED
        BY <2>2, <3>1, <3>2
    <2>10. to.pc \notin Serving /\ to.pc \notin Holding
      BY <1>7 DEF Serving, Holding
    <2>. QED
      BY <1>10, <2>4, <2>5, <2>6, <2>8, <2>9, <2>10, OthersHold
  <1>. QED
    BY <1>7, <1>10, <1>14, <1>15, <1>16, OneThreadInv

(* ldap_connection_release keeps the invariant.                            *)
LEMMA LdReleases ==
  ASSUME LdInv, NEW w \in LdapThreads, ldap_connection_release(w)
  PROVE  LdInv'
  <1>1. /\ ld[w].pc \in {"release", "close", "closefatal"} /\ LdapMove(w, AfterRelease[ld[w].pc])
        /\ UNCHANGED <<ldapConfVars, ldapCache, bound, nextConn, ldapTime, conn_to_free, missed>>
    BY DEF ldap_connection_release
  <1>2. /\ AfterRelease["release"] = "signalrelease" /\ AfterRelease["close"] = "signalclose"
        /\ AfterRelease["closefatal"] = "signalclosefatal"
    BY DEF AfterRelease
  <1>3. CASE ld[w].pc = "release"
    BY <1>1, <1>2, <1>3, LdRests DEF ldap_connection_release
  <1>4. CASE ld[w].pc # "release"
    <2>1. PICK pc \in {"signalclose", "signalclosefatal"} : LdapMove(w, pc)
      BY <1>1, <1>2, <1>4
    <2>. QED
      BY <1>1, <1>4, <2>1, LdCloses DEF ldap_connection_release
  <1>. QED
    BY <1>3, <1>4

(* What a thread does after its signal.                                    *)
AfterSignal(w) ==
  CASE ld[w].pc = "signalrelease" -> [pc |-> "done", key |-> ld[w].key, answer |-> ld[w].answer]
    [] ld[w].pc = "signalclose" -> Retried(ld[w], FALSE)
    [] ld[w].pc = "signalclosefatal" -> Retried(ld[w], TRUE)

(* Its search is over, or is tried again.                                  *)
LEMMA SignalledSearch ==
  ASSUME LdInv, NEW w \in LdapThreads, ld[w].pc \in Signalling
  PROVE  /\ AfterSignal(w) \in Done \cup Busy /\ AfterSignal(w).pc \in {"done", "get"}
         /\ AfterSignal(w) \in Busy => AfterSignal(w).table = ld[w].table
         /\ AfterSignal(w).pc = "done" => AfterSignal(w).answer \in {"failed", Directory[AfterSignal(w).key]}
  <1>1. ld[w] \in Busy
    BY Searching
  <1>2. CASE ld[w].pc = "signalrelease"
    <2>1. AfterSignal(w) = [pc |-> "done", key |-> ld[w].key, answer |-> ld[w].answer]
      BY <1>2 DEF AfterSignal
    <2>2. ld[w].key \in LdapKeys /\ ld[w].answer \in LdAnswers
      BY <1>1 DEF Busy
    <2>3. ld[w].answer = Directory[ld[w].key]
      BY <1>2 DEF LdInv, AnswersTrue
    <2>4. AfterSignal(w) \in Done /\ AfterSignal(w).pc = "done" /\ AfterSignal(w).answer = Directory[AfterSignal(w).key]
      BY <2>1, <2>2, <2>3 DEF Done
    <2>5. AfterSignal(w) \notin Busy
      BY <2>4 DEF Busy, Serving, Coming, Signalling
    <2>. QED
      BY <2>4, <2>5
  <1>3. CASE ld[w].pc # "signalrelease"
    <2>1. PICK fatal \in BOOLEAN : AfterSignal(w) = Retried(ld[w], fatal)
      BY <1>3 DEF AfterSignal, Signalling
    <2>2. PICK t : t = Retried(ld[w], fatal)
      OBVIOUS
    <2>3. \/ t \in Done /\ t.pc = "done" /\ t.answer = "failed"
          \/ t \in Busy /\ t.pc = "get" /\ t.table = ld[w].table
      BY <1>1, <2>2, RetriedSearch
    <2>4. t \in Busy => t.pc # "done"
      BY DEF Busy, Serving, Coming, Signalling
    <2>. QED
      BY <2>1, <2>2, <2>3, <2>4
  <1>. QED
    BY <1>2, <1>3

(* The threads after a signal: the one that gave it goes on, and one that  *)
(* waited, if there is one, is woken.                                      *)
LEMMA SignalWakes ==
  ASSUME LdInv, NEW w \in LdapThreads, ReleaseSignal(w)
  PROVE  \E W \in SUBSET LdapThreads :
           /\ \A v \in W : ld[v].pc = "wait" /\ PoolOfSearch(v) = PoolOfSearch(w) /\ ld[v] \in Busy
           /\ W = {} => \A v \in LdapThreads : ~(ld[v].pc = "wait" /\ PoolOfSearch(v) = PoolOfSearch(w))
           /\ W # {} => \E v \in LdapThreads : W = {v}
           /\ w \notin W /\ ld' = [v \in LdapThreads |-> IF v = w THEN AfterSignal(w)
                                                         ELSE IF v \in W THEN [ld[v] EXCEPT !.pc = "woken"] ELSE ld[v]]
  <1>. DEFINE i == PoolOfSearch(w)
              sleepers == {v \in LdapThreads : ld[v].pc = "wait" /\ PoolOfSearch(v) = i}
  <1>1. ld[w].pc \in Signalling
    BY DEF ReleaseSignal, Signalling
  <1>2. IF ldap_pools[i].max_connections > 0 /\ sleepers # {}
        THEN \E v \in sleepers : ld' = [ld EXCEPT ![w] = AfterSignal(w), ![v].pc = "woken"]
        ELSE LdapSet(w, AfterSignal(w))
    BY DEF ReleaseSignal, AfterSignal
  <1>3. ld \in [LdapThreads -> {LdapIdle} \cup Done \cup Busy]
    BY DEF LdInv, LdType
  <1>4. CASE ldap_pools[i].max_connections > 0 /\ sleepers # {}
    <2>1. PICK v \in sleepers : ld' = [ld EXCEPT ![w] = AfterSignal(w), ![v].pc = "woken"]
      BY <1>2, <1>4
    <2>2. v \in LdapThreads /\ ld[v].pc = "wait" /\ PoolOfSearch(v) = i /\ v # w
      BY <1>1, <2>1 DEF Signalling
    <2>3. ld[v] \in Busy
      BY <2>2, Searching
    <2>4. ld' = [u \in LdapThreads |-> IF u = w THEN AfterSignal(w)
                                       ELSE IF u \in {v} THEN [ld[u] EXCEPT !.pc = "woken"] ELSE ld[u]]
      <3>1. ld'[w] = AfterSignal(w) /\ \A u \in LdapThreads : u # w /\ u # v => ld'[u] = ld[u]
        BY <1>3, <2>1, <2>2
      <3>2. ld'[v] = [ld[v] EXCEPT !.pc = "woken"]
        BY <1>3, <2>1, <2>2
      <3>3. DOMAIN ld' = LdapThreads /\ ld' = [u \in DOMAIN ld' |-> ld'[u]]
        BY <1>3, <2>1
      <3>4. \A u \in LdapThreads : ld'[u] = IF u = w THEN AfterSignal(w)
                                           ELSE IF u \in {v} THEN [ld[u] EXCEPT !.pc = "woken"] ELSE ld[u]
        BY <2>2, <3>1, <3>2
      <3>. QED
        BY <3>3, <3>4
    <2>. QED
      BY <2>2, <2>3, <2>4
  <1>5. CASE ~(ldap_pools[i].max_connections > 0 /\ sleepers # {})
    <2>1. \A v \in LdapThreads : ~(ld[v].pc = "wait" /\ PoolOfSearch(v) = i)
      BY <1>5 DEF LdInv, Awaited
    <2>2. ld' = [v \in LdapThreads |-> IF v = w THEN AfterSignal(w)
                                       ELSE IF v \in {} THEN [ld[v] EXCEPT !.pc = "woken"] ELSE ld[v]]
      BY <1>2, <1>3, <1>5 DEF LdapSet
    <2>. WITNESS {} \in SUBSET LdapThreads
    <2>. QED
      BY <2>1, <2>2
  <1>. QED
    BY <1>4, <1>5

(* The signal, the unbind and the caching keep the invariant.              *)
LEMMA LdSignals ==
  ASSUME LdInv, NEW w \in LdapThreads, ReleaseSignal(w)
  PROVE  LdInv'
  <1>1. /\ ld[w].pc \in Signalling /\ UNCHANGED <<ldapConfVars, ldap_pools, nextConn, ldapTime, conn_to_free, missed>>
        /\ bound' = IF ld[w].pc = "signalrelease" THEN bound ELSE bound \ {ld[w].conn}
        /\ ldapCache' = IF ld[w].pc = "signalrelease" THEN [ldapCache EXCEPT ![ld[w].table][ld[w].key] = ld[w].answer]
                        ELSE ldapCache
    BY DEF ReleaseSignal, Signalling
  <1>2. /\ ldapPhase = "running" /\ ld[w] \in Busy /\ ld[w].table \in DOMAIN ldapTables
        /\ PoolOfSearch(w) \in DOMAIN ldap_pools
    BY <1>1, Searching
  <1>3. PICK i \in DOMAIN ldap_pools : i = PoolOfSearch(w)
    BY <1>2
  <1>4. PICK W \in SUBSET LdapThreads :
          /\ \A v \in W : ld[v].pc = "wait" /\ PoolOfSearch(v) = i /\ ld[v] \in Busy
          /\ W = {} => \A v \in LdapThreads : ~(ld[v].pc = "wait" /\ PoolOfSearch(v) = i)
          /\ W # {} => \E v \in LdapThreads : W = {v}
          /\ w \notin W /\ ld' = [v \in LdapThreads |-> IF v = w THEN AfterSignal(w)
                                                        ELSE IF v \in W THEN [ld[v] EXCEPT !.pc = "woken"] ELSE ld[v]]
    BY <1>3, SignalWakes, SMTT(40)
  <1>5. PICK to : to = AfterSignal(w)
    OBVIOUS
  <1>6. /\ to \in Done \cup Busy /\ to.pc \in {"done", "get"} /\ (to \in Busy => to.table = ld[w].table)
        /\ to.pc = "done" => to.answer \in {"failed", Directory[to.key]}
    BY <1>1, <1>5, SignalledSearch
  <1>7. ld'[w] = to /\ \A v \in LdapThreads : v # w /\ v \notin W => ld'[v] = ld[v]
    BY <1>4, <1>5
  <1>8. \A v \in W : /\ ld'[v] \in Busy /\ ld'[v].pc = "woken" /\ ld'[v].table = ld[v].table /\ ld'[v].failures = ld[v].failures
    <2>1. ASSUME NEW v \in W
          PROVE  ld'[v] \in Busy /\ ld'[v].pc = "woken" /\ ld'[v].table = ld[v].table /\ ld'[v].failures = ld[v].failures
      <3>1. ld'[v] = [ld[v] EXCEPT !.pc = "woken"] /\ ld[v] \in Busy
        BY <1>4
      <3>. QED
        BY <3>1, ThreadMoves
    <2>. QED
      BY <2>1
  <1>9. \A v \in LdapThreads : v # w => PoolOfSearch(v)' = PoolOfSearch(v)
    BY <1>1, <1>7, <1>8 DEF PoolOfSearch, ldapConfVars
  <1>10. \A t \in DOMAIN ldapCache', k \in LdapKeys : ldapCache'[t][k] \in {"nothing", Directory[k]}
    <2>1. ld[w].pc = "signalrelease" => ld[w].answer = Directory[ld[w].key]
      BY DEF LdInv, AnswersTrue
    <2>2. /\ ldapCache \in Seq([LdapKeys -> LdAnswers \cup {"nothing"}])
          /\ \A t \in DOMAIN ldapCache, k \in LdapKeys : ldapCache[t][k] \in {"nothing", Directory[k]}
      BY DEF LdInv, LdType, AnswersTrue
    <2>. QED
      BY <1>1, <2>1, <2>2
  <1>11. LdType'
    <2>1. ldapCache' \in Seq([LdapKeys -> LdAnswers \cup {"nothing"}]) /\ Len(ldapCache') = Len(ldapCache)
      <3>1. ldapCache \in Seq([LdapKeys -> LdAnswers \cup {"nothing"}]) /\ Len(ldapCache) = Len(ldapTables) /\ ldapTables \in Seq(Nat)
        BY DEF LdInv, LdType
      <3>2. ld[w].table \in DOMAIN ldapCache /\ ld[w].key \in LdapKeys /\ ld[w].answer \in LdAnswers \cup {"nothing"}
        BY <1>2, <3>1 DEF Busy
      <3>3. PICK row : row = [ldapCache[ld[w].table] EXCEPT ![ld[w].key] = ld[w].answer]
        OBVIOUS
      <3>4. row \in [LdapKeys -> LdAnswers \cup {"nothing"}]
        BY <3>1, <3>2, <3>3
      <3>5. ld[w].pc = "signalrelease" => ldapCache' = [ldapCache EXCEPT ![ld[w].table] = row]
        BY <1>1, <3>3
      <3>6. /\ [ldapCache EXCEPT ![ld[w].table] = row] \in Seq([LdapKeys -> LdAnswers \cup {"nothing"}])
            /\ Len([ldapCache EXCEPT ![ld[w].table] = row]) = Len(ldapCache)
        BY <3>1, <3>2, <3>4
      <3>. QED
        BY <1>1, <3>1, <3>5, <3>6
    <2>2. ld' \in [LdapThreads -> {LdapIdle} \cup Done \cup Busy]
      <3>1. \A v \in LdapThreads : ld'[v] \in {LdapIdle} \cup Done \cup Busy
        BY <1>6, <1>7, <1>8 DEF LdInv, LdType
      <3>. QED
        BY <1>4, <3>1
    <2>3. \A v \in LdapThreads : ld'[v] \in Busy => ld'[v].table \in DOMAIN ldapTables
      <3>1. \A v \in LdapThreads : ld[v] \in Busy => ld[v].table \in DOMAIN ldapTables
        BY DEF LdInv, LdType
      <3>. QED
        BY <1>2, <1>4, <1>6, <1>7, <1>8, <3>1
    <2>. QED
      BY <1>1, <2>1, <2>2, <2>3 DEF LdInv, LdType, ldapConfVars
  <1>12. Reading'
    BY <1>1, <1>2 DEF Reading, ldapConfVars
  <1>13. AnswersTrue'
    <2>1. \A v \in LdapThreads :
            /\ ld'[v].pc \in {"release", "signalrelease"} => ld'[v].answer = Directory[ld'[v].key]
            /\ ld'[v].pc = "done" => ld'[v].answer \in {"failed", Directory[ld'[v].key]}
      BY <1>6, <1>7, <1>8 DEF LdInv, AnswersTrue
    <2>. QED
      BY <1>10, <2>1 DEF AnswersTrue
  <1>14. PoolCounts'
    <2>1. \A j : OnTheWay(j)' = OnTheWay(j)
      BY <1>1, <1>4, <1>6, <1>7, <1>8, <1>9 DEF OnTheWay, Signalling
    <2>. QED
      BY <1>1, <2>1 DEF LdInv, PoolCounts
  <1>15. HeldOnce' /\ IdleOnce'
    <2>1. \A v \in LdapThreads :
            /\ ld'[v].pc \in Holding => v # w /\ v \notin W /\ ld'[v] = ld[v]
            /\ ld[v].pc \in Serving => v # w /\ v \notin W /\ ld'[v] = ld[v]
      BY <1>1, <1>4, <1>6, <1>7, <1>8 DEF Holding, Serving, Signalling
    <2>2. HeldOnce /\ IdleOnce
      BY DEF LdInv
    <2>3. ld[w].pc # "signalrelease" =>
            /\ ld[w].conn \in bound /\ ld[w].conn \notin conn_to_free
            /\ \A j \in DOMAIN ldap_pools : ld[w].conn \notin Idles(ldap_pools[j])
            /\ \A v \in LdapThreads : ld[v].pc \in Holding /\ ld[v].conn = ld[w].conn => v = w
      <3>1. ld[w].pc # "signalrelease" => ld[w].pc \in Holding
        BY <1>1 DEF Holding, Signalling
      <3>. QED
        BY <2>2, <3>1 DEF HeldOnce
    <2>4. IdleOnce'
      <3>1. bound' \subseteq bound /\ conn_to_free' = conn_to_free /\ nextConn' = nextConn /\ ldap_pools' = ldap_pools
        BY <1>1
      <3>2. conn_to_free \subseteq bound' /\ \A j \in DOMAIN ldap_pools : Idles(ldap_pools[j]) \subseteq bound' \ conn_to_free
        BY <1>1, <2>2, <2>3 DEF IdleOnce
      <3>3. bound' \subseteq 1 .. nextConn - 1
        BY <2>2, <3>1 DEF IdleOnce
      <3>. QED
        BY <2>2, <3>1, <3>2, <3>3 DEF IdleOnce
    <2>5. ASSUME NEW v \in LdapThreads, ld'[v].pc \in Holding
          PROVE  /\ ld'[v].conn \in bound' /\ ld'[v].conn \notin conn_to_free'
                 /\ \A j \in DOMAIN ldap_pools' : ld'[v].conn \notin Idles(ldap_pools'[j])
                 /\ \A u \in LdapThreads : ld'[u].pc \in Holding /\ ld'[u].conn = ld'[v].conn => u = v
      <3>1. v # w /\ ld'[v] = ld[v] /\ ld[v].pc \in Holding
        BY <2>1, <2>5
      <3>2. /\ ld[v].conn \in bound /\ ld[v].conn \notin conn_to_free
            /\ \A j \in DOMAIN ldap_pools : ld[v].conn \notin Idles(ldap_pools[j])
            /\ \A u \in LdapThreads : ld[u].pc \in Holding /\ ld[u].conn = ld[v].conn => u = v
        BY <2>2, <3>1 DEF HeldOnce
      <3>3. ld[v].conn \in bound'
        BY <1>1, <2>3, <3>1, <3>2
      <3>. QED
        BY <1>1, <2>1, <3>1, <3>2, <3>3
    <2>6. \A v \in LdapThreads : ld'[v].pc \in Serving => ld'[v].conn \in ldap_pools'[PoolOfSearch(v)'].used
      <3>1. \A v \in LdapThreads : ld'[v].pc \in Serving => ld'[v].pc \in Holding
        BY DEF Holding
      <3>. QED
        BY <1>1, <1>9, <2>1, <2>2, <3>1 DEF HeldOnce
    <2>7. ASSUME NEW j \in DOMAIN ldap_pools', NEW c \in ldap_pools'[j].used
          PROVE  \E v \in LdapThreads : ld'[v].pc \in Serving /\ PoolOfSearch(v)' = j /\ ld'[v].conn = c
      <3>1. PICK v \in LdapThreads : ld[v].pc \in Serving /\ PoolOfSearch(v) = j /\ ld[v].conn = c
        BY <1>1, <2>2, UsedHasUser
      <3>. QED
        BY <1>9, <2>1, <3>1
    <2>8. HeldOnce'
      BY <2>5, <2>6, <2>7 DEF HeldOnce, Using, Serving
    <2>. QED
      BY <2>4, <2>8
  <1>16. Awaited'
    <2>1. \A j : j # i => Pending(j)' = Pending(j)
      BY <1>1, <1>3, <1>4, <1>6, <1>7, <1>8, <1>9 DEF Pending, Signalling
    <2>2. W # {} => Cardinality(Pending(i)') = Cardinality(Pending(i))
      <3>. SUFFICES ASSUME W # {} PROVE Cardinality(Pending(i)') = Cardinality(Pending(i))
        OBVIOUS
      <3>1. PICK v \in LdapThreads : W = {v}
        BY <1>4
      <3>2. v # w /\ v \notin Pending(i) /\ w \in Pending(i)
        BY <1>1, <1>3, <1>4, <3>1 DEF Pending, Signalling
      <3>3. Pending(i)' = (Pending(i) \ {w}) \cup {v}
        BY <1>1, <1>3, <1>4, <1>6, <1>7, <1>8, <1>9, <3>1 DEF Pending, Signalling
      <3>4. IsFiniteSet(Pending(i))
        <4>1. Pending(i) \subseteq LdapThreads
          BY DEF Pending
        <4>. QED
          BY <4>1, LdapAssumption, FS_Subset
      <3>5. /\ IsFiniteSet(Pending(i) \ {w}) /\ Cardinality(Pending(i)) \in Nat
            /\ Cardinality(Pending(i) \ {w}) = Cardinality(Pending(i)) - 1
        BY <3>2, <3>4, OneLess
      <3>6. Cardinality((Pending(i) \ {w}) \cup {v}) = Cardinality(Pending(i) \ {w}) + 1
        <4>1. v \notin Pending(i) \ {w}
          BY <3>2
        <4>. QED
          BY <3>5, <4>1, OneMore
      <3>. QED
        BY <3>3, <3>5, <3>6
    <2>3. ASSUME NEW u \in LdapThreads, ld'[u].pc = "wait"
          PROVE  /\ ldap_pools'[PoolOfSearch(u)'].max_connections > 0
                 /\ PoolOfSearch(u)' \notin missed' =>
                      /\ RoomOf(ldap_pools'[PoolOfSearch(u)']) <= Cardinality(Pending(PoolOfSearch(u))')
                      /\ ~(ld'[u].failures > 1) =>
                           RoomOf(ldap_pools'[PoolOfSearch(u)']) + Len(ldap_pools'[PoolOfSearch(u)'].inactive)
                             <= Cardinality(Pending(PoolOfSearch(u))')
      <3>1. u # w /\ u \notin W /\ ld'[u] = ld[u] /\ ld[u].pc = "wait" /\ PoolOfSearch(u)' = PoolOfSearch(u)
        BY <1>6, <1>7, <1>8, <1>9, <2>3
      <3>2. PICK j : j = PoolOfSearch(u)
        OBVIOUS
      <3>3. j = i => W # {}
        BY <1>4, <3>1, <3>2
      <3>4. Cardinality(Pending(j)') = Cardinality(Pending(j))
        BY <2>1, <2>2, <3>3
      <3>5. Pending(PoolOfSearch(u))' = Pending(j)'
        BY <3>1, <3>2 DEF Pending
      <3>6. /\ ldap_pools[j].max_connections > 0
            /\ j \notin missed =>
                 /\ RoomOf(ldap_pools[j]) <= Cardinality(Pending(j))
                 /\ ~(ld[u].failures > 1) =>
                      RoomOf(ldap_pools[j]) + Len(ldap_pools[j].inactive) <= Cardinality(Pending(j))
        BY <3>1, <3>2 DEF LdInv, Awaited, force_new
      <3>. QED
        BY <1>1, <3>1, <3>2, <3>4, <3>5, <3>6
    <2>. QED
      BY <2>3 DEF Awaited, force_new
  <1>. QED
    BY <1>11, <1>12, <1>13, <1>14, <1>15, <1>16 DEF LdInv

(* ldap_connection_new keeps the invariant.                                *)
LEMMA LdNews ==
  ASSUME LdInv, NEW w \in LdapThreads, ldap_connection_new(w)
  PROVE  LdInv'
  <1>1. /\ ld[w].pc = "bind" /\ UNCHANGED <<ldapConfVars, ldap_pools, ldapCache, ldapTime, conn_to_free, missed>>
    BY DEF ldap_connection_new
  <1>2. CASE /\ bound' = bound \cup {nextConn} /\ nextConn' = nextConn + 1
             /\ LdapSet(w, [ld[w] EXCEPT !.pc = "bound", !.conn = nextConn])
    BY <1>1, <1>2, LdBinds
  <1>3. ASSUME NEW fatal \in BOOLEAN, LdapSet(w, [ld[w] EXCEPT !.pc = IF fatal THEN "unboundfatal" ELSE "unbound"]),
               UNCHANGED <<bound, nextConn>>
        PROVE  LdInv'
    <2>1. PICK to \in {"unbound", "unboundfatal"} : to = IF fatal THEN "unboundfatal" ELSE "unbound"
      OBVIOUS
    <2>2. LdapMove(w, to)
      BY <1>3, <2>1 DEF LdapMove
    <2>. QED
      BY <1>1, <1>3, <2>2, LdNotBound
  <1>. QED
    BY <1>2, <1>3 DEF ldap_connection_new

(* The command takes some of the idle connections of a pool.               *)
LEMMA ExpiredSome ==
  ASSUME NEW p \in PoolRec, ldapTime \in Nat, ExpiredIdle(p) > 0
  PROVE  ExpiredIdle(p) \in 1 .. Len(p.inactive)
  <1>. DEFINE last == [conn |-> 0, last_use |-> ldapTime]
              s == p.inactive \o <<last>>
              I == {m \in 1 .. Len(s) : s[m].last_use + 1 >= ldapTime}
  <1>1. p.inactive \in Seq(IdleConn) /\ last \in IdleConn
    BY DEF PoolRec, IdleConn
  <1>2. <<last>> \in Seq(IdleConn) /\ Len(<<last>>) = 1
    BY <1>1, OneElement
  <1>3. Len(p.inactive) \in Nat
    BY <1>1, LenProperties
  <1>4. s \in Seq(IdleConn) /\ Len(s) = Len(p.inactive) + 1
    BY <1>1, <1>2, ConcatProperties
  <1>. HIDE DEF s
  <1>5. ExpiredIdle(p) = (IF I # {} THEN Min(I) ELSE 0) - 1
    BY DEF ExpiredIdle, SelectInSeq, s
  <1>6. I \subseteq 1 .. Len(p.inactive) + 1
    BY <1>3, <1>4
  <1>7. I # {} => Min(I) \in I
    <2>1. I \subseteq Nat
      BY <1>3, <1>6
    <2>. HIDE DEF I
    <2>. QED
      BY <2>1, MinIsLeast
  <1>. HIDE DEF I
  <1>8. I # {}
    BY <1>5
  <1>9. ExpiredIdle(p) = Min(I) - 1 /\ Min(I) \in 1 .. Len(p.inactive) + 1
    BY <1>5, <1>6, <1>7, <1>8, Zenon
  <1>10. \A l \in Nat : \A m \in 1 .. l + 1 : m - 1 > 0 => m - 1 \in 1 .. l
    OBVIOUS
  <1>. QED
    BY <1>3, <1>9, <1>10, Zenon

(* A pool without the first n of its idle connections.                     *)
LEMMA PoolExpires ==
  ASSUME NEW p \in PoolRec, NEW n \in 1 .. Len(p.inactive)
  PROVE  LET q == [p EXCEPT !.inactive = SubSeq(@, n + 1, Len(@)), !.connections = @ - n]
         IN  /\ q \in PoolRec /\ q.max_connections = p.max_connections /\ q.connections = p.connections - n
             /\ q.ontheway = p.ontheway /\ q.used = p.used
             /\ Len(q.inactive) = Len(p.inactive) - n /\ Len(p.inactive) \in Nat
             /\ DOMAIN p.inactive = 1 .. Len(p.inactive) /\ DOMAIN q.inactive = 1 .. Len(p.inactive) - n
             /\ \A m \in 1 .. Len(p.inactive) - n : q.inactive[m] = p.inactive[n + m]
  <1>1. p.inactive \in Seq(IdleConn) /\ p.connections \in Int
    BY DEF PoolRec
  <1>2. Len(p.inactive) \in Nat /\ DOMAIN p.inactive = 1 .. Len(p.inactive)
    BY <1>1, LenProperties
  <1>3. n \in 0 .. Len(p.inactive) /\ p.connections - n \in Int
    BY <1>1, <1>2
  <1>4. PICK s \in Seq(IdleConn), c \in Int : s = SubSeq(p.inactive, n + 1, Len(p.inactive)) /\ c = p.connections - n
    BY <1>1, <1>3, SplitSeq
  <1>5. Len(s) = Len(p.inactive) - n /\ \A m \in 1 .. Len(p.inactive) - n : s[m] = p.inactive[n + m]
    BY <1>1, <1>3, <1>4, SplitSeq
  <1>6. DOMAIN s = 1 .. Len(s)
    BY LenProperties
  <1>7. LET q == [p EXCEPT !.inactive = s, !.connections = c]
        IN  /\ q \in PoolRec /\ q.max_connections = p.max_connections /\ q.connections = c
            /\ q.ontheway = p.ontheway /\ q.used = p.used /\ q.inactive = s
    BY DEF PoolRec
  <1>8. [p EXCEPT !.inactive = SubSeq(@, n + 1, Len(@)), !.connections = @ - n] = [p EXCEPT !.inactive = s, !.connections = c]
    BY <1>4
  <1>. QED
    BY <1>2, <1>4, <1>5, <1>6, <1>7, <1>8

(* The command keeps the invariant: what it takes out was idle, and no     *)
(* thread's.                                                               *)
LEMMA LdChecks ==
  ASSUME LdInv, NEW i, check_ldap_pools_cmd(i)
  PROVE  LdInv'
  <1>1. /\ ldapPhase = "running" /\ i \in DOMAIN ldap_pools /\ ldap_pools[i] \in PoolRec /\ conn_to_free = {}
        /\ UNCHANGED <<ldapPhase, ldapTables, ldapCache, bound, nextConn, ldapTime, ld>> /\ missed' = missed \cup {i}
        /\ ldapTime \in Nat /\ LdType /\ HeldOnce /\ IdleOnce
    BY DEF check_ldap_pools_cmd, LdInv, LdType, ldapConfVars
  <1>2. PICK p \in PoolRec : p = ldap_pools[i]
    BY <1>1
  <1>3. PICK n : n = ExpiredIdle(p)
    OBVIOUS
  <1>4. /\ n > 0 /\ LdapPoolSet(i, [p EXCEPT !.inactive = SubSeq(@, n + 1, Len(@)), !.connections = @ - n])
        /\ conn_to_free' = {p.inactive[j].conn : j \in 1 .. n}
    BY <1>2, <1>3 DEF check_ldap_pools_cmd
  <1>5. n \in 1 .. Len(p.inactive)
    BY <1>1, <1>3, <1>4, ExpiredSome
  <1>6. PICK q : q = [p EXCEPT !.inactive = SubSeq(@, n + 1, Len(@)), !.connections = @ - n]
    OBVIOUS
  <1>7. /\ q \in PoolRec /\ q.max_connections = p.max_connections /\ q.connections = p.connections - n
        /\ q.ontheway = p.ontheway /\ q.used = p.used
        /\ Len(q.inactive) = Len(p.inactive) - n /\ Len(p.inactive) \in Nat
        /\ DOMAIN p.inactive = 1 .. Len(p.inactive) /\ DOMAIN q.inactive = 1 .. Len(p.inactive) - n
        /\ \A m \in 1 .. Len(p.inactive) - n : q.inactive[m] = p.inactive[n + m]
    BY <1>5, <1>6, PoolExpires, ZenonT(40)
  <1>8. /\ ldap_pools' \in Seq(PoolRec) /\ DOMAIN ldap_pools' = DOMAIN ldap_pools
        /\ \A j \in DOMAIN ldap_pools : ldap_pools'[j] = IF j = i THEN q ELSE ldap_pools[j]
    BY <1>1, <1>4, <1>6, <1>7, PoolReplaced
  <1>9. \A m \in DOMAIN q.inactive :
          /\ n + m \in DOMAIN p.inactive /\ q.inactive[m].conn = p.inactive[n + m].conn
          /\ \A k \in 1 .. n : k \in DOMAIN p.inactive /\ k # n + m
    <2>1. \A l \in Nat : \A k \in 1 .. l : \A m \in 1 .. l - k :
            k + m \in 1 .. l /\ \A j \in 1 .. k : j \in 1 .. l /\ j # k + m
      OBVIOUS
    <2>. QED
      BY <1>5, <1>7, <2>1, SMTT(40)
  <1>10. \A m, k \in DOMAIN q.inactive : n + m = n + k => m = k
    BY <1>5, <1>7
  <1>11. \A j, k \in DOMAIN p.inactive : p.inactive[j].conn = p.inactive[k].conn => j = k
    BY <1>1, <1>2 DEF IdleOnce
  <1>12. Idles(q) \subseteq Idles(p) /\ conn_to_free' \subseteq Idles(p) /\ Idles(q) \cap conn_to_free' = {}
    <2>1. ASSUME NEW c \in Idles(q)
          PROVE  c \in Idles(p) /\ c \notin conn_to_free'
      <3>1. PICK m \in DOMAIN q.inactive : c = q.inactive[m].conn
        BY DEF Idles
      <3>. QED
        BY <1>4, <1>9, <1>11, <3>1, ZenonT(40) DEF Idles
    <2>2. ASSUME NEW c \in conn_to_free'
          PROVE  c \in Idles(p)
      <3>1. PICK k \in 1 .. n : c = p.inactive[k].conn
        BY <1>4
      <3>2. k \in DOMAIN p.inactive
        <4>1. \A l \in Nat : \A m \in 1 .. l : \A j \in 1 .. m : j \in 1 .. l
          OBVIOUS
        <4>. QED
          BY <1>5, <1>7, <4>1, Zenon
      <3>. QED
        BY <3>1, <3>2 DEF Idles
    <2>. QED
      BY <2>1, <2>2
  <1>13. LdType'
    BY <1>1, <1>8 DEF LdType
  <1>14. Reading' /\ AnswersTrue'
    BY <1>1 DEF Reading, AnswersTrue, LdInv
  <1>15. \A v : PoolOfSearch(v)' = PoolOfSearch(v)
    BY <1>1 DEF PoolOfSearch
  <1>16. \A j : OnTheWay(j)' = OnTheWay(j) /\ Pending(j)' = Pending(j) /\ \A c : Using(j, c)' = Using(j, c)
    BY <1>1, <1>15 DEF OnTheWay, Pending, Using
  <1>17. PoolCounts'
    <2>1. /\ IsFiniteSet(p.used) /\ p.connections = Len(p.inactive) + Cardinality(p.used)
          /\ p.ontheway = Cardinality(OnTheWay(i))
          /\ p.max_connections > 0 => p.connections + p.ontheway <= p.max_connections
      BY <1>1, <1>2 DEF LdInv, PoolCounts
    <2>2. Cardinality(p.used) \in Nat
      BY <2>1, FS_CardinalityType
    <2>3. p.max_connections \in Nat /\ p.connections \in Int /\ p.ontheway \in Int
      BY DEF PoolRec
    <2>4. q.connections = Len(q.inactive) + Cardinality(q.used)
      BY <1>5, <1>7, <2>1, <2>2
    <2>5. q.max_connections > 0 => q.connections + q.ontheway <= q.max_connections
      <3>1. \A max, n1, n2 \in Int : \A l \in Nat : \A k \in 1 .. l : n1 + n2 <= max => (n1 - k) + n2 <= max
        OBVIOUS
      <3>. QED
        BY <1>5, <1>7, <2>1, <2>3, <3>1
    <2>6. \A j \in DOMAIN ldap_pools :
            /\ IsFiniteSet(ldap_pools[j].used)
            /\ ldap_pools[j].connections = Len(ldap_pools[j].inactive) + Cardinality(ldap_pools[j].used)
            /\ ldap_pools[j].ontheway = Cardinality(OnTheWay(j))
            /\ ldap_pools[j].max_connections > 0 =>
                 ldap_pools[j].connections + ldap_pools[j].ontheway <= ldap_pools[j].max_connections
      BY DEF LdInv, PoolCounts
    <2>7. ASSUME NEW j \in DOMAIN ldap_pools'
          PROVE  /\ IsFiniteSet(ldap_pools'[j].used)
                 /\ ldap_pools'[j].connections = Len(ldap_pools'[j].inactive) + Cardinality(ldap_pools'[j].used)
                 /\ ldap_pools'[j].ontheway = Cardinality(OnTheWay(j)')
                 /\ ldap_pools'[j].max_connections > 0 =>
                      ldap_pools'[j].connections + ldap_pools'[j].ontheway <= ldap_pools'[j].max_connections
      <3>1. CASE j = i
        <4>1. ldap_pools'[j] = q
          BY <1>8, <3>1
        <4>. QED
          BY <1>7, <1>16, <2>1, <2>4, <2>5, <3>1, <4>1
      <3>2. CASE j # i
        <4>1. ldap_pools'[j] = ldap_pools[j] /\ j \in DOMAIN ldap_pools
          BY <1>8, <3>2
        <4>. QED
          BY <1>16, <2>6, <4>1
      <3>. QED
        BY <3>1, <3>2
    <2>. QED
      BY <2>7 DEF PoolCounts
  <1>18. \A j \in DOMAIN ldap_pools : /\ Idles(ldap_pools'[j]) \subseteq Idles(ldap_pools[j])
                                      /\ ldap_pools'[j].used = ldap_pools[j].used
    BY <1>2, <1>7, <1>8, <1>12
  <1>19. HeldOnce'
    <2>1. ASSUME NEW v \in LdapThreads, ld'[v].pc \in Holding
          PROVE  /\ ld'[v].conn \in bound' /\ ld'[v].conn \notin conn_to_free'
                 /\ \A j \in DOMAIN ldap_pools' : ld'[v].conn \notin Idles(ldap_pools'[j])
                 /\ \A u \in LdapThreads : ld'[u].pc \in Holding /\ ld'[u].conn = ld'[v].conn => u = v
      <3>1. /\ ld[v].conn \in bound /\ \A j \in DOMAIN ldap_pools : ld[v].conn \notin Idles(ldap_pools[j])
            /\ \A u \in LdapThreads : ld[u].pc \in Holding /\ ld[u].conn = ld[v].conn => u = v
        BY <1>1, <2>1 DEF HeldOnce
      <3>2. ld[v].conn \notin conn_to_free'
        BY <1>1, <1>2, <1>12, <3>1
      <3>. QED
        BY <1>1, <1>8, <1>18, <3>1, <3>2
    <2>2. \A v \in LdapThreads : ld'[v].pc \in Serving => ld'[v].conn \in ldap_pools'[PoolOfSearch(v)'].used
      <3>1. ASSUME NEW v \in LdapThreads, ld[v].pc \in Serving
            PROVE  PoolOfSearch(v) \in DOMAIN ldap_pools /\ ld[v].conn \in ldap_pools[PoolOfSearch(v)].used
        BY <1>1, <3>1, Searching DEF HeldOnce
      <3>. QED
        BY <1>1, <1>15, <1>18, <3>1
    <2>3. ASSUME NEW j \in DOMAIN ldap_pools', NEW c \in ldap_pools'[j].used
          PROVE  \E v \in LdapThreads : v \in Using(j, c)'
      BY <1>1, <1>8, <1>16, <1>18 DEF HeldOnce
    <2>. QED
      BY <2>1, <2>2, <2>3 DEF HeldOnce
  <1>20. IdleOnce'
    <2>1. conn_to_free' \subseteq bound' /\ bound' \subseteq 1 .. nextConn' - 1
      BY <1>1, <1>2, <1>12 DEF IdleOnce
    <2>2. \A j \in DOMAIN ldap_pools : j # i => Idles(p) \cap Idles(ldap_pools[j]) = {}
      BY <1>1, <1>2 DEF IdleOnce, Idles
    <2>3. \A j \in DOMAIN ldap_pools' : Idles(ldap_pools'[j]) \subseteq bound' \ conn_to_free'
      <3>1. \A j \in DOMAIN ldap_pools : Idles(ldap_pools[j]) \subseteq bound
        BY <1>1 DEF IdleOnce
      <3>2. \A j \in DOMAIN ldap_pools : j # i => Idles(ldap_pools'[j]) \cap conn_to_free' = {}
        BY <1>12, <1>18, <2>2
      <3>3. Idles(ldap_pools'[i]) \cap conn_to_free' = {}
        BY <1>1, <1>8, <1>12
      <3>. QED
        BY <1>1, <1>8, <1>18, <3>1, <3>2, <3>3
    <2>4. \A j, k \in DOMAIN ldap_pools' :
            \A m \in DOMAIN ldap_pools'[j].inactive, l \in DOMAIN ldap_pools'[k].inactive :
              ldap_pools'[j].inactive[m].conn = ldap_pools'[k].inactive[l].conn => j = k /\ m = l
      <3>1. \A m \in DOMAIN q.inactive : q.inactive[m].conn \in Idles(p)
        BY <1>12 DEF Idles
      <3>2. \A m, l \in DOMAIN q.inactive : q.inactive[m].conn = q.inactive[l].conn => m = l
        BY <1>9, <1>10, <1>11, Zenon
      <3>3. \A j \in DOMAIN ldap_pools : \A m \in DOMAIN ldap_pools[j].inactive : ldap_pools[j].inactive[m].conn \in Idles(ldap_pools[j])
        BY DEF Idles
      <3>4. \A j, k \in DOMAIN ldap_pools :
              \A m \in DOMAIN ldap_pools[j].inactive, l \in DOMAIN ldap_pools[k].inactive :
                ldap_pools[j].inactive[m].conn = ldap_pools[k].inactive[l].conn => j = k /\ m = l
        BY <1>1 DEF IdleOnce
      <3>5. ldap_pools'[i] = q /\ \A j \in DOMAIN ldap_pools : j # i => ldap_pools'[j] = ldap_pools[j]
        BY <1>1, <1>8
      <3>. QED
        BY <1>8, <2>2, <3>1, <3>2, <3>3, <3>4, <3>5
    <2>. QED
      BY <2>1, <2>3, <2>4 DEF IdleOnce
  <1>21. Awaited'
    <2>1. ASSUME NEW u \in LdapThreads, ld'[u].pc = "wait"
          PROVE  /\ ldap_pools'[PoolOfSearch(u)'].max_connections > 0
                 /\ PoolOfSearch(u)' \notin missed' =>
                      /\ RoomOf(ldap_pools'[PoolOfSearch(u)']) <= Cardinality(Pending(PoolOfSearch(u))')
                      /\ ~(ld'[u].failures > 1) =>
                           RoomOf(ldap_pools'[PoolOfSearch(u)']) + Len(ldap_pools'[PoolOfSearch(u)'].inactive)
                             <= Cardinality(Pending(PoolOfSearch(u))')
      <3>1. PICK j \in DOMAIN ldap_pools : j = PoolOfSearch(u)
        BY <1>1, <2>1, Searching
      <3>2. PoolOfSearch(u)' = j /\ Pending(PoolOfSearch(u))' = Pending(j)
        BY <1>15, <1>16, <3>1 DEF Pending
      <3>3. /\ ldap_pools[j].max_connections > 0
            /\ j \notin missed =>
                 /\ RoomOf(ldap_pools[j]) <= Cardinality(Pending(j))
                 /\ ~(ld[u].failures > 1) =>
                      RoomOf(ldap_pools[j]) + Len(ldap_pools[j].inactive) <= Cardinality(Pending(j))
        BY <1>1, <2>1, <3>1 DEF LdInv, Awaited, force_new
      <3>4. CASE j = i
        <4>1. ldap_pools'[j] = q /\ j \in missed' /\ q.max_connections > 0
          BY <1>1, <1>2, <1>7, <1>8, <3>3, <3>4
        <4>. QED
          BY <3>2, <4>1
      <3>5. CASE j # i
        <4>1. ldap_pools'[j] = ldap_pools[j] /\ (j \notin missed' => j \notin missed)
          BY <1>1, <1>8, <3>5
        <4>. QED
          BY <1>1, <3>2, <3>3, <4>1
      <3>. QED
        BY <3>4, <3>5
    <2>. QED
      BY <2>1 DEF Awaited, force_new
  <1>. QED
    BY <1>13, <1>14, <1>17, <1>19, <1>20, <1>21 DEF LdInv

(* A step that leaves threads, pools and tables alone, and closes at most  *)
(* what the command has taken out.                                         *)
LEMMA LdQuiet ==
  ASSUME LdInv, UNCHANGED <<ld, ldap_pools, ldapTables, nextConn, missed>>,
         ldapPhase' = ldapPhase \/ ldapPhase' = "running", ldapTime' \in Nat,
         ldapCache' \in Seq([LdapKeys -> LdAnswers \cup {"nothing"}]), Len(ldapCache') = Len(ldapCache),
         \A t \in DOMAIN ldapCache', k \in LdapKeys : ldapCache'[t][k] \in {"nothing", Directory[k]},
         \/ UNCHANGED <<bound, conn_to_free>>
         \/ bound' = bound \ conn_to_free /\ conn_to_free' = {}
  PROVE  LdInv'
  <1>1. LdType /\ Reading /\ HeldOnce /\ IdleOnce /\ PoolCounts /\ Awaited /\ AnswersTrue
    BY DEF LdInv
  <1>2. \A v : PoolOfSearch(v)' = PoolOfSearch(v)
    BY DEF PoolOfSearch
  <1>3. \A j : OnTheWay(j)' = OnTheWay(j) /\ Pending(j)' = Pending(j) /\ \A c : Using(j, c)' = Using(j, c)
    BY <1>2 DEF OnTheWay, Pending, Using
  <1>4. LdType'
    BY <1>1 DEF LdType
  <1>5. Reading'
    BY <1>1 DEF Reading
  <1>6. AnswersTrue'
    BY <1>1 DEF AnswersTrue
  <1>7. PoolCounts'
    BY <1>1, <1>3 DEF PoolCounts
  <1>8. bound' \subseteq bound /\ conn_to_free' \subseteq bound' /\ bound \ conn_to_free \subseteq bound' \ conn_to_free'
    BY <1>1 DEF IdleOnce
  <1>9. IdleOnce'
    <2>1. bound' \subseteq 1 .. nextConn - 1
      BY <1>1, <1>8 DEF IdleOnce
    <2>2. \A j \in DOMAIN ldap_pools : Idles(ldap_pools[j]) \subseteq bound' \ conn_to_free'
      BY <1>1, <1>8 DEF IdleOnce
    <2>. QED
      BY <1>1, <1>8, <2>1, <2>2 DEF IdleOnce
  <1>10. HeldOnce'
    <2>1. \A v \in LdapThreads : ld[v].pc \in Holding =>
            /\ ld[v].conn \in bound' /\ ld[v].conn \notin conn_to_free'
            /\ \A j \in DOMAIN ldap_pools : ld[v].conn \notin Idles(ldap_pools[j])
            /\ \A u \in LdapThreads : ld[u].pc \in Holding /\ ld[u].conn = ld[v].conn => u = v
      BY <1>1, <1>8 DEF HeldOnce
    <2>2. /\ \A v \in LdapThreads : ld[v].pc \in Serving => ld[v].conn \in ldap_pools[PoolOfSearch(v)'].used
          /\ \A j \in DOMAIN ldap_pools : \A c \in ldap_pools[j].used : \E v \in LdapThreads : v \in Using(j, c)'
      BY <1>1, <1>2, <1>3 DEF HeldOnce
    <2>. QED
      BY <2>1, <2>2 DEF HeldOnce
  <1>11. Awaited'
    <2>1. \A v : Pending(PoolOfSearch(v))' = Pending(PoolOfSearch(v))
      BY <1>2 DEF Pending
    <2>. QED
      BY <1>1, <1>2, <2>1 DEF Awaited, force_new
  <1>. QED
    BY <1>4, <1>5, <1>6, <1>7, <1>9, <1>10, <1>11 DEF LdInv

(* Every step keeps the invariant.                                         *)
LEMMA LdStep == LdInv /\ [LdapNext]_ldapVars => LdInv'
  <1>. SUFFICES ASSUME LdInv, [LdapNext]_ldapVars PROVE LdInv'
    OBVIOUS
  <1>0. /\ ldapCache \in Seq([LdapKeys -> LdAnswers \cup {"nothing"}]) /\ ldapTime \in Nat
        /\ Len(ldapCache) = Len(ldapTables) /\ ldapTables \in Seq(Nat)
        /\ \A t \in DOMAIN ldapCache, k \in LdapKeys : ldapCache[t][k] \in {"nothing", Directory[k]}
    BY DEF LdInv, LdType, AnswersTrue
  <1>1. ASSUME NEW u \in LdapUris, ldap_table_open(u) \/ \E max \in Limits : ldap_connections_pool_configure(u, max)
        PROVE  LdInv'
    BY <1>1, LdReads
  <1>2. CASE LdapStart
    BY <1>0, <1>2, LdQuiet DEF LdapStart
  <1>3. CASE LdapTick
    <2>1. ldapTime' \in Nat
      BY <1>0, <1>3 DEF LdapTick
    <2>. QED
      BY <1>0, <1>3, <2>1, LdQuiet DEF LdapTick, ldapConfVars
  <1>4. CASE ldap_connection_list_close_all
    BY <1>0, <1>4, LdQuiet DEF ldap_connection_list_close_all, ldapConfVars
  <1>5. ASSUME NEW i \in 1 .. MaxPools, check_ldap_pools_cmd(i)
        PROVE  LdInv'
    BY <1>5, LdChecks
  <1>6. ASSUME NEW t \in DOMAIN ldapTables, NEW k \in LdapKeys, LdapCacheExpires(t, k)
        PROVE  LdInv'
    <2>1. t \in DOMAIN ldapCache
      BY <1>0
    <2>2. PICK row : row = [ldapCache[t] EXCEPT ![k] = "nothing"]
      OBVIOUS
    <2>3. row \in [LdapKeys -> LdAnswers \cup {"nothing"}] /\ \A l \in LdapKeys : row[l] \in {"nothing", Directory[l]}
      BY <1>0, <2>1, <2>2
    <2>4. ldapCache' = [ldapCache EXCEPT ![t] = row]
      BY <1>6, <2>2 DEF LdapCacheExpires
    <2>5. /\ ldapCache' \in Seq([LdapKeys -> LdAnswers \cup {"nothing"}]) /\ Len(ldapCache') = Len(ldapCache)
          /\ \A s \in DOMAIN ldapCache' : ldapCache'[s] = IF s = t THEN row ELSE ldapCache[s]
          /\ DOMAIN ldapCache' = DOMAIN ldapCache
      BY <1>0, <2>1, <2>3, <2>4
    <2>6. \A s \in DOMAIN ldapCache', l \in LdapKeys : ldapCache'[s][l] \in {"nothing", Directory[l]}
      BY <1>0, <2>3, <2>5
    <2>. QED
      BY <1>0, <1>6, <2>5, <2>6, LdQuiet DEF LdapCacheExpires, ldapConfVars
  <1>7. ASSUME NEW w \in LdapThreads
        PROVE  /\ \A t \in DOMAIN ldapTables, k \in LdapKeys : ldap_table_search(w, t, k) => LdInv'
               /\ ldap_connection_get(w) \/ ldap_connection_new(w) \/ ldap_connection_got(w) => LdInv'
               /\ Query(w) \/ ldap_connection_release(w) \/ ReleaseSignal(w) => LdInv'
    BY LdSearches, LdGets, LdNews, LdGot, LdQueries, LdReleases, LdSignals
  <1>8. CASE UNCHANGED ldapVars
    BY <1>0, <1>8, LdQuiet DEF ldapVars, ldapConfVars
  <1>. QED
    BY <1>1, <1>2, <1>3, <1>4, <1>5, <1>6, <1>7, <1>8 DEF LdapNext

(* The pools of the LDAP tables count their connections exactly, for any   *)
(* number of threads, tables, pools and connections and any limits, over   *)
(* failed binds and queries, retries and the closing of idle connections;  *)
(* a connection has one user or is idle once, answers are the directory's, *)
(* and a thread that nobody will wake waits for something that is not      *)
(* there, except after the three events that tell nobody                   *)
(* (ldap_connection_get, ldap_connection_release, check_ldap_pools_cmd).   *)
THEOREM LdapPoolsExact == LdapSpec => []PoolsExact
  <1>1. LdInv /\ [LdapNext]_ldapVars => LdInv'
    BY LdStep
  <1>. QED
    BY LdInit, LdInvExact, <1>1, PTL DEF LdapSpec

(***************************************************************************)
(* Memory pools and allocators                                             *)
(***************************************************************************)
(* The pool of a size, written out.                                        *)
ClassOf(n) ==
  IF n <= 64 THEN 64 ELSE IF n <= 128 THEN 128 ELSE IF n <= 256 THEN 256
  ELSE IF n <= 512 THEN 512 ELSE IF n <= 1024 THEN 1024 ELSE IF n <= 2048 THEN 2048
  ELSE IF n <= 4096 THEN 4096 ELSE IF n <= 8192 THEN 8192 ELSE IF n <= 16384 THEN 16384
  ELSE IF n <= 32768 THEN 32768 ELSE 0

(* The table of short sizes.                                               *)
LEMMA ShortSizes ==
  /\ short_buffer_sizes[0] = 64 /\ short_buffer_sizes[1] = 128
  /\ \A i \in 2..3 : short_buffer_sizes[i] = 256
  /\ \A i \in 4..7 : short_buffer_sizes[i] = 512
  /\ \A i \in 8..15 : short_buffer_sizes[i] = 1024
  /\ \A i \in 0..15 : long_buffer_sizes[i] = 32 * short_buffer_sizes[i]
  BY DEF short_buffer_sizes, long_buffer_sizes

(* Dividing by 64 or 32.                                                   *)
LEMMA Shifts ==
  ASSUME NEW n \in Nat
  PROVE  /\ n \div 64 \in Nat /\ 64 * (n \div 64) <= n /\ n < 64 * (n \div 64) + 64
         /\ n \div 32 \in Nat /\ 32 * (n \div 32) <= n /\ n < 32 * (n \div 32) + 32
  OBVIOUS

(* The tables and shifts of mem.c find the smallest pool that is large enough. *)
LEMMA PoolIsClass ==
  ASSUME NEW n \in Nat \ {0}
  PROVE  PoolOf(n) = ClassOf(n)
  <1>. DEFINE t == BufType(n)
              u == t \div 32
  <1>1. t \in Nat /\ 64 * t <= n - 1 /\ n - 1 < 64 * t + 64
    <2>1. n - 1 \in Nat
      OBVIOUS
    <2>. QED
      BY <2>1, Shifts DEF BufType
  <1>. HIDE DEF t
  <1>2. u \in Nat /\ 32 * u <= t /\ t < 32 * u + 32
    BY <1>1, Shifts
  <1>3. CASE t < 16
    <2>1. PoolOf(n) = short_buffer_sizes[t]
      BY <1>3 DEF PoolOf, t
    <2>2. \/ t = 0 \/ t = 1 \/ t \in 2..3 \/ t \in 4..7 \/ t \in 8..15
      BY <1>1, <1>3
    <2>3. short_buffer_sizes[t] = IF t = 0 THEN 64 ELSE IF t = 1 THEN 128 ELSE IF t <= 3 THEN 256
                                  ELSE IF t <= 7 THEN 512 ELSE 1024
      BY <2>2, ShortSizes
    <2>. QED
      BY <1>1, <1>3, <2>1, <2>3 DEF ClassOf
  <1>4. CASE t >= 16 /\ t < 512
    <2>1. PoolOf(n) = long_buffer_sizes[u]
      BY <1>1, <1>4 DEF PoolOf, t, u
    <2>. HIDE DEF u
    <2>2. \/ u = 0 \/ u = 1 \/ u \in 2..3 \/ u \in 4..7 \/ u \in 8..15
      BY <1>1, <1>2, <1>4
    <2>3. long_buffer_sizes[u] = IF u = 0 THEN 2048 ELSE IF u = 1 THEN 4096 ELSE IF u <= 3 THEN 8192
                                  ELSE IF u <= 7 THEN 16384 ELSE 32768
      <3>1. u \in 0..15 /\ long_buffer_sizes[u] = 32 * short_buffer_sizes[u]
        BY <2>2, ShortSizes
      <3>2. short_buffer_sizes[u] = IF u = 0 THEN 64 ELSE IF u = 1 THEN 128 ELSE IF u <= 3 THEN 256
                                  ELSE IF u <= 7 THEN 512 ELSE 1024
        BY <2>2, ShortSizes
      <3>. QED
        BY <3>1, <3>2
    <2>. QED
      BY <1>1, <1>2, <1>4, <2>1, <2>3 DEF ClassOf
  <1>5. CASE t >= 512
    <2>1. PoolOf(n) = 0
      BY <1>1, <1>5 DEF PoolOf, t
    <2>. QED
      BY <1>1, <1>5, <2>1 DEF ClassOf
  <1>. QED
    BY <1>1, <1>3, <1>4, <1>5

(* Which sizes belong to which pool.                                       *)
InClass(n, z) ==
  \/ n <= 64 /\ z = 64
  \/ 64 < n /\ n <= 128 /\ z = 128
  \/ 128 < n /\ n <= 256 /\ z = 256
  \/ 256 < n /\ n <= 512 /\ z = 512
  \/ 512 < n /\ n <= 1024 /\ z = 1024
  \/ 1024 < n /\ n <= 2048 /\ z = 2048
  \/ 2048 < n /\ n <= 4096 /\ z = 4096
  \/ 4096 < n /\ n <= 8192 /\ z = 8192
  \/ 8192 < n /\ n <= 16384 /\ z = 16384
  \/ 16384 < n /\ n <= 32768 /\ z = 32768
  \/ 32768 < n /\ z = 0

(* PoolOf and ClassOf agree with the table.                                *)
LEMMA ClassTable ==
  ASSUME NEW n \in Nat \ {0}
  PROVE  InClass(n, ClassOf(n))
  <1>1. n <= 64 => ClassOf(n) = 64
    BY DEF ClassOf
  <1>2. 64 < n /\ n <= 128 => ClassOf(n) = 128
    BY DEF ClassOf
  <1>3. 128 < n /\ n <= 256 => ClassOf(n) = 256
    BY DEF ClassOf
  <1>4. 256 < n /\ n <= 512 => ClassOf(n) = 512
    BY DEF ClassOf
  <1>5. 512 < n /\ n <= 1024 => ClassOf(n) = 1024
    BY DEF ClassOf
  <1>6. 1024 < n /\ n <= 2048 => ClassOf(n) = 2048
    BY DEF ClassOf
  <1>7. 2048 < n /\ n <= 4096 => ClassOf(n) = 4096
    BY DEF ClassOf
  <1>8. 4096 < n /\ n <= 8192 => ClassOf(n) = 8192
    BY DEF ClassOf
  <1>9. 8192 < n /\ n <= 16384 => ClassOf(n) = 16384
    BY DEF ClassOf
  <1>10. 16384 < n /\ n <= 32768 => ClassOf(n) = 32768
    BY DEF ClassOf
  <1>11. 32768 < n => ClassOf(n) = 0
    BY DEF ClassOf
  <1>. QED
    BY <1>1, <1>2, <1>3, <1>4, <1>5, <1>6, <1>7, <1>8, <1>9, <1>10, <1>11 DEF InClass

(* Sizes: the real size is at least what was asked for, is its own real    *)
(* size, and grows with what is asked for.                                 *)
LEMMA RealSizes ==
  /\ \A n \in Nat \ {0} :
       /\ PoolOf(n) \in Classes \cup {0} /\ PoolOf(n) \in Nat
       /\ ci_buffer_real_size(n) \in Nat \ {0} /\ ci_buffer_real_size(n) >= n
       /\ ci_buffer_real_size(ci_buffer_real_size(n)) = ci_buffer_real_size(n)
       /\ PoolOf(n) # 0 => ci_buffer_real_size(n) = PoolOf(n)
  /\ \A m, n \in Nat \ {0} : m <= n => ci_buffer_real_size(m) <= ci_buffer_real_size(n)
  <1>. DEFINE real(n) == IF ClassOf(n) = 0 THEN n ELSE ClassOf(n)
  <1>1. \A n \in Nat \ {0} : PoolOf(n) = ClassOf(n) /\ ci_buffer_real_size(n) = real(n)
    BY PoolIsClass DEF ci_buffer_real_size
  <1>2. ASSUME NEW n \in Nat \ {0}
        PROVE  /\ real(n) \in Nat \ {0} /\ real(n) >= n /\ ClassOf(n) \in Nat
               /\ ClassOf(n) \in {0, 64, 128, 256, 512, 1024, 2048, 4096, 8192, 16384, 32768}
    <2>. DEFINE z == ClassOf(n)
    <2>1. InClass(n, z)
      BY ClassTable
    <2>. HIDE DEF z
    <2>2. z \in {0, 64, 128, 256, 512, 1024, 2048, 4096, 8192, 16384, 32768}
      BY <2>1 DEF InClass
    <2>3. z \in Nat /\ (z = 0 \/ z >= n)
      BY <2>1 DEF InClass
    <2>4. /\ (IF z = 0 THEN n ELSE z) \in Nat \ {0} /\ (IF z = 0 THEN n ELSE z) >= n
      BY <2>3
    <2>. QED
      BY <2>2, <2>3, <2>4 DEF z
  <1>3. \A n \in Nat \ {0} : real(real(n)) = real(n)
    <2>1. \A c \in {64, 128, 256, 512, 1024, 2048, 4096, 8192, 16384, 32768} : ClassOf(c) = c
      BY DEF ClassOf
    <2>2. \A c \in {64, 128, 256, 512, 1024, 2048, 4096, 8192, 16384, 32768} : real(c) = c
      BY <2>1
    <2>3. \A n \in Nat \ {0} : ClassOf(n) # 0 => real(n) \in {64, 128, 256, 512, 1024, 2048, 4096, 8192, 16384, 32768}
      BY <1>2
    <2>4. \A n \in Nat \ {0} : ClassOf(n) = 0 => real(n) = n
      OBVIOUS
    <2>. HIDE DEF real
    <2>. QED
      BY <2>2, <2>3, <2>4
  <1>4. \A m, n \in Nat \ {0} : m <= n => real(m) <= real(n)
    BY DEF ClassOf
  <1>5. {64, 128, 256, 512, 1024, 2048, 4096, 8192, 16384, 32768} \subseteq Classes
    <2>1. /\ \A i \in 0..15 : short_buffer_sizes[i] \in Classes /\ long_buffer_sizes[i] \in Classes
      BY DEF Classes
    <2>2. /\ 64 \in Classes /\ 128 \in Classes /\ 256 \in Classes /\ 512 \in Classes /\ 1024 \in Classes
      <3>1. /\ short_buffer_sizes[0] = 64 /\ short_buffer_sizes[1] = 128 /\ short_buffer_sizes[2] = 256
            /\ short_buffer_sizes[4] = 512 /\ short_buffer_sizes[8] = 1024
        BY ShortSizes
      <3>. QED
        BY <2>1, <3>1
    <2>3. /\ 2048 \in Classes /\ 4096 \in Classes /\ 8192 \in Classes /\ 16384 \in Classes
          /\ 32768 \in Classes
      <3>1. /\ long_buffer_sizes[0] = 2048 /\ long_buffer_sizes[1] = 4096 /\ long_buffer_sizes[2] = 8192
            /\ long_buffer_sizes[4] = 16384 /\ long_buffer_sizes[8] = 32768
        BY ShortSizes
      <3>. QED
        BY <2>1, <3>1
    <2>. QED
      BY <2>2, <2>3
  <1>. HIDE DEF real
  <1>6. \A n \in Nat \ {0} : PoolOf(n) \in Classes \cup {0} /\ PoolOf(n) \in Nat
    BY <1>1, <1>2, <1>5
  <1>7. \A n \in Nat \ {0} :
          /\ ci_buffer_real_size(n) \in Nat \ {0} /\ ci_buffer_real_size(n) >= n
          /\ ci_buffer_real_size(ci_buffer_real_size(n)) = ci_buffer_real_size(n)
    BY <1>1, <1>2, <1>3
  <1>8. \A n \in Nat \ {0} : PoolOf(n) # 0 => ci_buffer_real_size(n) = PoolOf(n)
    BY DEF ci_buffer_real_size
  <1>9. \A m, n \in Nat \ {0} : m <= n => ci_buffer_real_size(m) <= ci_buffer_real_size(n)
    BY <1>1, <1>4
  <1>. QED
    BY <1>6, <1>7, <1>8, <1>9

(* A block that exists.                                                    *)
BlockRecords == [at : {"user", "pool"}, phys : Nat, heap : BOOLEAN, ID : Nat \ {0}]

(* No block is twice in the free lists.                                    *)
OnceListed(fl) ==
  \A c, d \in Classes : \A i \in 1..Len(fl[c]), j \in 1..Len(fl[d]) :
    fl[c][i] = fl[d][j] => c = d /\ i = j

(* What the blocks and the free lists satisfy: BlocksFit, with types.      *)
BuffersOK(bl, fl) ==
  /\ bl \in [Blocks -> {NoBlock} \cup BlockRecords]
  /\ fl \in [Classes -> Seq(Blocks)]
  /\ \A b \in Blocks : bl[b].at = "user" => /\ bl[b].phys >= ci_buffer_real_size(bl[b].ID)
                                            /\ bl[b].phys >= bl[b].ID
  /\ \A c \in Classes : \A i \in 1..Len(fl[c]) :
       bl[fl[c][i]].at = "pool" /\ bl[fl[c][i]].phys >= c
  /\ OnceListed(fl)

(* One block is changed, and it is in no free list.                        *)
LEMMA OneBlock ==
  ASSUME NEW bl, NEW fl, BuffersOK(bl, fl), NEW b \in Blocks, bl[b].at # "pool",
         NEW r \in {NoBlock} \cup BlockRecords,
         r.at = "user" => r.phys >= ci_buffer_real_size(r.ID) /\ r.phys >= r.ID
  PROVE  BuffersOK([bl EXCEPT ![b] = r], fl)
  <1>. DEFINE n == [bl EXCEPT ![b] = r]
  <1>1. /\ bl \in [Blocks -> {NoBlock} \cup BlockRecords] /\ fl \in [Classes -> Seq(Blocks)]
    BY DEF BuffersOK
  <1>2. /\ n \in [Blocks -> {NoBlock} \cup BlockRecords] /\ n[b] = r
        /\ \A x \in Blocks : x # b => n[x] = bl[x]
    BY <1>1
  <1>. HIDE DEF n
  <1>3. \A x \in Blocks : n[x].at = "user" => /\ n[x].phys >= ci_buffer_real_size(n[x].ID)
                                              /\ n[x].phys >= n[x].ID
    BY <1>2 DEF BuffersOK
  <1>4. \A c \in Classes : \A i \in 1..Len(fl[c]) : fl[c][i] \in Blocks /\ fl[c][i] # b
    BY <1>1 DEF BuffersOK
  <1>5. \A c \in Classes : \A i \in 1..Len(fl[c]) :
          n[fl[c][i]].at = "pool" /\ n[fl[c][i]].phys >= c
    BY <1>2, <1>4 DEF BuffersOK
  <1>. QED
    BY <1>1, <1>2, <1>3, <1>5 DEF BuffersOK, n

(* A block goes to the front of a free list.                               *)
LEMMA ToFront ==
  ASSUME NEW bl, NEW fl, BuffersOK(bl, fl), NEW b \in Blocks, bl[b].at = "user",
         NEW c \in Classes, bl[b].phys >= c
  PROVE  BuffersOK([bl EXCEPT ![b].at = "pool"], [fl EXCEPT ![c] = <<b>> \o @])
  <1>. DEFINE n == [bl EXCEPT ![b].at = "pool"]
              m == [fl EXCEPT ![c] = <<b>> \o @]
  <1>1. /\ bl \in [Blocks -> {NoBlock} \cup BlockRecords] /\ fl \in [Classes -> Seq(Blocks)]
    BY DEF BuffersOK
  <1>2. bl[b] \in BlockRecords
    BY <1>1 DEF NoBlock
  <1>3. /\ n \in [Blocks -> {NoBlock} \cup BlockRecords]
        /\ n[b].at = "pool" /\ n[b].phys = bl[b].phys
        /\ \A x \in Blocks : x # b => n[x] = bl[x]
    BY <1>1, <1>2 DEF BlockRecords
  <1>4. /\ m \in [Classes -> Seq(Blocks)] /\ m[c] = <<b>> \o fl[c]
        /\ \A d \in Classes : d # c => m[d] = fl[d]
    <2>1. <<b>> \o fl[c] \in Seq(Blocks)
      BY <1>1
    <2>. QED
      BY <1>1, <2>1
  <1>5. /\ Len(m[c]) = Len(fl[c]) + 1 /\ m[c][1] = b /\ Len(fl[c]) \in Nat
        /\ \A i \in 2 .. Len(fl[c]) + 1 : m[c][i] = fl[c][i - 1]
    BY <1>1, <1>4
  <1>. HIDE DEF n, m
  <1>6. \A d \in Classes : \A i \in 1..Len(fl[d]) : fl[d][i] \in Blocks /\ fl[d][i] # b
    BY <1>1 DEF BuffersOK
  <1>7. \A x \in Blocks : n[x].at = "user" => /\ n[x].phys >= ci_buffer_real_size(n[x].ID)
                                              /\ n[x].phys >= n[x].ID
    BY <1>3 DEF BuffersOK
  <1>8. ASSUME NEW d \in Classes, NEW i \in 1..Len(m[d])
        PROVE  \/ d = c /\ i = 1 /\ m[d][i] = b
               \/ \E k \in 1..Len(fl[d]) : m[d][i] = fl[d][k] /\ (d = c => i = k + 1) /\ (d # c => i = k)
    <2>1. CASE d # c
      BY <1>4, <2>1
    <2>2. CASE d = c /\ i # 1
      <3>1. i - 1 \in 1..Len(fl[d]) /\ m[d][i] = fl[d][i - 1] /\ i = (i - 1) + 1
        BY <1>5, <2>2
      <3>. QED
        BY <2>2, <3>1
    <2>. QED
      BY <1>5, <2>1, <2>2
  <1>9. \A d \in Classes : \A i \in 1..Len(m[d]) : n[m[d][i]].at = "pool" /\ n[m[d][i]].phys >= d
    <2>1. \A d \in Classes : \A i \in 1..Len(fl[d]) : n[fl[d][i]].at = "pool" /\ n[fl[d][i]].phys >= d
      BY <1>3, <1>6 DEF BuffersOK
    <2>. QED
      BY <1>3, <1>8, <2>1
  <1>10. ASSUME NEW d \in Classes, NEW e \in Classes, NEW i \in 1..Len(m[d]), NEW j \in 1..Len(m[e]),
                m[d][i] = m[e][j]
         PROVE  d = e /\ i = j
    <2>1. CASE m[d][i] = b
      <3>1. d = c /\ i = 1
        BY <1>6, <1>8, <2>1
      <3>2. m[e][j] = b
        BY <1>10, <2>1
      <3>3. e = c /\ j = 1
        BY <1>6, <1>8, <3>2
      <3>. QED
        BY <3>1, <3>3
    <2>2. CASE m[d][i] # b
      <3>1. PICK k \in 1..Len(fl[d]) : m[d][i] = fl[d][k] /\ (d = c => i = k + 1) /\ (d # c => i = k)
        BY <1>8, <2>2
      <3>2. PICK l \in 1..Len(fl[e]) : m[e][j] = fl[e][l] /\ (e = c => j = l + 1) /\ (e # c => j = l)
        BY <1>8, <1>10, <2>2
      <3>3. OnceListed(fl) /\ fl[d][k] = fl[e][l]
        BY <1>10, <3>1, <3>2 DEF BuffersOK
      <3>4. d = e /\ k = l
        BY <3>3, SMTT(40) DEF OnceListed
      <3>. QED
        BY <3>1, <3>2, <3>4
    <2>. QED
      BY <2>1, <2>2
  <1>. QED
    BY <1>3, <1>4, <1>7, <1>9, <1>10 DEF BuffersOK, OnceListed, n, m

(* The first block of a free list goes to a user.                          *)
LEMMA FromFront ==
  ASSUME NEW bl, NEW fl, BuffersOK(bl, fl), NEW c \in Classes, fl[c] # <<>>, c \in Nat,
         NEW id \in Nat \ {0}, ci_buffer_real_size(id) <= c, id <= c, NEW b, b = Head(fl[c])
  PROVE  BuffersOK([bl EXCEPT ![b].at = "user", ![b].ID = id], [fl EXCEPT ![c] = Tail(@)])
  <1>. DEFINE n == [bl EXCEPT ![b].at = "user", ![b].ID = id]
              m == [fl EXCEPT ![c] = Tail(@)]
  <1>1. /\ bl \in [Blocks -> {NoBlock} \cup BlockRecords] /\ fl \in [Classes -> Seq(Blocks)]
    BY DEF BuffersOK
  <1>2. /\ Len(fl[c]) \in Nat /\ Len(fl[c]) > 0 /\ b = fl[c][1] /\ b \in Blocks
        /\ Tail(fl[c]) \in Seq(Blocks) /\ Len(Tail(fl[c])) = Len(fl[c]) - 1
        /\ \A i \in 1 .. Len(fl[c]) - 1 : Tail(fl[c])[i] = fl[c][i + 1]
    BY <1>1
  <1>3. bl[b].at = "pool" /\ bl[b].phys >= c
    BY <1>2 DEF BuffersOK
  <1>4. bl[b] \in BlockRecords
    BY <1>1, <1>2, <1>3 DEF NoBlock
  <1>5. /\ n \in [Blocks -> {NoBlock} \cup BlockRecords]
        /\ n[b].at = "user" /\ n[b].phys = bl[b].phys /\ n[b].ID = id
        /\ \A x \in Blocks : x # b => n[x] = bl[x]
    BY <1>1, <1>2, <1>4 DEF BlockRecords
  <1>6. /\ m \in [Classes -> Seq(Blocks)] /\ m[c] = Tail(fl[c])
        /\ \A d \in Classes : d # c => m[d] = fl[d]
    BY <1>1, <1>2
  <1>. HIDE DEF n, m
  <1>7. ASSUME NEW d \in Classes, NEW i \in 1..Len(m[d])
        PROVE  \E k \in 1..Len(fl[d]) : /\ m[d][i] = fl[d][k] /\ (d = c => k = i + 1) /\ (d # c => k = i)
                                        /\ fl[d][k] # b /\ fl[d][k] \in Blocks
    <2>1. CASE d # c
      BY <1>1, <1>2, <1>6, <2>1 DEF BuffersOK, OnceListed
    <2>2. CASE d = c
      <3>0. Len(m[d]) = Len(fl[d]) - 1 /\ i \in 1..(Len(fl[d]) - 1)
        BY <1>2, <1>6, <2>2
      <3>1. i + 1 \in 1..Len(fl[d]) /\ m[d][i] = fl[d][i + 1] /\ i + 1 # 1
        <4>1. Len(fl[d]) \in Nat /\ i \in Nat /\ i >= 1 /\ i <= Len(fl[d]) - 1
          BY <1>2, <2>2, <3>0
        <4>2. m[d][i] = fl[d][i + 1]
          BY <1>2, <1>6, <2>2, <3>0
        <4>. QED
          BY <4>1, <4>2
      <3>2. 1 \in 1..Len(fl[d])
        BY <1>2, <2>2
      <3>3. fl[d][i + 1] # b /\ fl[d][i + 1] \in Blocks
        BY <1>1, <1>2, <2>2, <3>1, <3>2 DEF BuffersOK, OnceListed
      <3>. QED
        BY <2>2, <3>1, <3>3
    <2>. QED
      BY <2>1, <2>2
  <1>8. \A x \in Blocks : n[x].at = "user" => /\ n[x].phys >= ci_buffer_real_size(n[x].ID)
                                              /\ n[x].phys >= n[x].ID
    <2>1. n[b].phys >= ci_buffer_real_size(n[b].ID) /\ n[b].phys >= n[b].ID
      <3>1. bl[b].phys \in Nat /\ ci_buffer_real_size(id) \in Nat
        BY <1>4, RealSizes DEF BlockRecords
      <3>. QED
        BY <1>3, <1>5, <3>1
    <2>. QED
      BY <1>5, <2>1 DEF BuffersOK
  <1>9. \A d \in Classes : \A i \in 1..Len(m[d]) : n[m[d][i]].at = "pool" /\ n[m[d][i]].phys >= d
    BY <1>5, <1>7, SMTT(40) DEF BuffersOK
  <1>10. ASSUME NEW d \in Classes, NEW e \in Classes, NEW i \in 1..Len(m[d]), NEW j \in 1..Len(m[e]),
                m[d][i] = m[e][j]
         PROVE  d = e /\ i = j
    <2>1. PICK k \in 1..Len(fl[d]) : m[d][i] = fl[d][k] /\ (d = c => k = i + 1) /\ (d # c => k = i)
      BY <1>7
    <2>2. PICK l \in 1..Len(fl[e]) : m[e][j] = fl[e][l] /\ (e = c => l = j + 1) /\ (e # c => l = j)
      BY <1>7
    <2>3. OnceListed(fl) /\ fl[d][k] = fl[e][l]
      BY <1>10, <2>1, <2>2 DEF BuffersOK
    <2>4. d = e /\ k = l
      BY <2>3 DEF OnceListed
    <2>. QED
      BY <2>1, <2>2, <2>4
  <1>. QED
    BY <1>5, <1>6, <1>8, <1>9, <1>10 DEF BuffersOK, OnceListed, n, m

(* What the sizes of one request are.                                      *)
LEMMA SizesOf ==
  ASSUME NEW n \in Nat \ {0}, NEW want \in BOOLEAN
  PROVE  LET r == ci_buffer_real_size(n)
             id == IF want THEN r ELSE n
         IN  /\ r \in Nat \ {0} /\ id \in Nat \ {0} /\ id <= r /\ ci_buffer_real_size(id) = r
             /\ PoolOf(n) # 0 => PoolOf(n) = r /\ PoolOf(n) \in Classes
  <1>. DEFINE r == ci_buffer_real_size(n)
  <1>1. /\ r \in Nat \ {0} /\ r >= n /\ ci_buffer_real_size(r) = r
        /\ PoolOf(n) # 0 => PoolOf(n) = r /\ PoolOf(n) \in Classes
    BY RealSizes
  <1>. HIDE DEF r
  <1>2. CASE want
    BY <1>1, <1>2 DEF r
  <1>3. CASE ~want
    BY <1>1, <1>3 DEF r
  <1>. QED
    BY <1>2, <1>3

(* ci_buffer_alloc2 keeps the blocks in order.                             *)
LEMMA GivesKeeps ==
  ASSUME NEW bl, NEW fl, BuffersOK(bl, fl), NEW b \in Blocks, NEW n \in Nat \ {0},
         NEW want \in BOOLEAN, Gives(b, n, want, bl, fl), b \in NewBlock => bl[b].at # "pool"
  PROVE  BuffersOK(block', freeList')
  <1>. DEFINE c == PoolOf(n)
              r == ci_buffer_real_size(n)
              id == IF want THEN r ELSE n
  <1>1. /\ r \in Nat \ {0} /\ id \in Nat \ {0} /\ id <= r /\ ci_buffer_real_size(id) = r
        /\ c # 0 => c = r /\ c \in Classes
    BY SizesOf, Zenon
  <1>2. CASE c # 0 /\ fl[c] # <<>>
    <2>1. /\ b = Head(fl[c])
          /\ block' = [bl EXCEPT ![b].at = "user", ![b].ID = id]
          /\ freeList' = [fl EXCEPT ![c] = Tail(@)]
      BY <1>2 DEF Gives
    <2>. HIDE DEF c, r, id
    <2>2. c \in Classes /\ c \in Nat /\ ci_buffer_real_size(id) <= c /\ id <= c
      BY <1>1, <1>2
    <2>3. BuffersOK([bl EXCEPT ![b].at = "user", ![b].ID = id], [fl EXCEPT ![c] = Tail(@)])
      BY <1>1, <1>2, <2>1, <2>2, FromFront, Zenon
    <2>. QED
      BY <2>1, <2>3, Zenon
  <1>3. CASE ~(c # 0 /\ fl[c] # <<>>)
    <2>. DEFINE k == (c = 0)
                rec == [at |-> "user", phys |-> r, heap |-> k, ID |-> id]
    <2>1. /\ b \in NewBlock /\ freeList' = fl
          /\ block' = [bl EXCEPT ![b] = rec]
      BY <1>3 DEF Gives
    <2>2. k \in BOOLEAN
      OBVIOUS
    <2>. HIDE DEF c, r, id, k
    <2>3. rec \in BlockRecords /\ rec.at = "user" /\ rec.phys = r /\ rec.ID = id
      BY <1>1, <2>2 DEF BlockRecords
    <2>. HIDE DEF rec
    <2>4. rec.phys >= ci_buffer_real_size(rec.ID) /\ rec.phys >= rec.ID
      BY <1>1, <2>3
    <2>5. bl[b].at # "pool"
      BY <2>1
    <2>6. BuffersOK([bl EXCEPT ![b] = rec], fl)
      BY <2>3, <2>4, <2>5, OneBlock
    <2>. QED
      BY <2>1, <2>6
  <1>. QED
    BY <1>2, <1>3

(* ci_buffer_free keeps the blocks in order.                               *)
LEMMA FreedKeeps ==
  ASSUME BuffersOK(block, freeList), NEW b \in Blocks, block[b].at = "user"
  PROVE  BuffersOK(Freed(b), FreedTo(b))
  <1>. DEFINE c == PoolOf(block[b].ID)
  <1>1. block[b] \in BlockRecords
    BY DEF BuffersOK, NoBlock
  <1>2. block[b].ID \in Nat \ {0}
    BY <1>1 DEF BlockRecords
  <1>3. CASE c = 0
    <2>1. Freed(b) = [block EXCEPT ![b] = NoBlock] /\ FreedTo(b) = freeList
      BY <1>3 DEF Freed, FreedTo
    <2>2. NoBlock \in {NoBlock} \cup BlockRecords /\ NoBlock.at # "user"
      BY DEF NoBlock
    <2>3. BuffersOK([block EXCEPT ![b] = NoBlock], freeList)
      BY <2>2, OneBlock
    <2>. QED
      BY <2>1, <2>3
  <1>4. CASE c # 0
    <2>1. Freed(b) = [block EXCEPT ![b].at = "pool"] /\ FreedTo(b) = [freeList EXCEPT ![c] = <<b>> \o @]
      BY <1>4 DEF Freed, FreedTo
    <2>2. c \in Classes /\ block[b].phys >= c
      <3>1. c \in Classes \cup {0} /\ ci_buffer_real_size(block[b].ID) = c
        BY <1>2, <1>4, RealSizes
      <3>2. block[b].phys >= ci_buffer_real_size(block[b].ID)
        BY DEF BuffersOK
      <3>. QED
        BY <1>4, <3>1, <3>2
    <2>. HIDE DEF c
    <2>3. BuffersOK([block EXCEPT ![b].at = "pool"], [freeList EXCEPT ![c] = <<b>> \o @])
      BY <2>2, ToFront
    <2>. QED
      BY <2>1, <2>3
  <1>. QED
    BY <1>3, <1>4

(* Every step of the buffers keeps the blocks in order.                    *)
LEMMA BuffersStep ==
  ASSUME BuffersOK(block, freeList), BuffersNext
  PROVE  BuffersOK(block', freeList')
  <1>1. BufSizes \subseteq Nat \ {0}
    BY MemPoolsAssumption
  <1>2. ASSUME NEW b \in Blocks, NEW n \in BufSizes, NEW want \in BOOLEAN, ci_buffer_alloc2(b, n, want)
        PROVE  BuffersOK(block', freeList')
    <2>1. Gives(b, n, want, block, freeList) /\ n \in Nat \ {0}
      BY <1>1, <1>2 DEF ci_buffer_alloc2
    <2>2. b \in NewBlock => block[b].at # "pool"
      BY DEF NewBlock
    <2>. QED
      BY <2>1, <2>2, GivesKeeps
  <1>3. ASSUME NEW b \in Blocks, NEW n \in BufSizes, NEW want \in BOOLEAN, ReallocInPlace(b, n, want)
        PROVE  BuffersOK(block', freeList')
    <2>. DEFINE r == ci_buffer_real_size(block[b].ID)
                id == IF want THEN r ELSE n
                rec == [block[b] EXCEPT !.ID = id]
    <2>1. /\ block[b].at = "user" /\ n <= r /\ freeList' = freeList
          /\ block' = [block EXCEPT ![b].ID = id]
      BY <1>3 DEF ReallocInPlace, Resized
    <2>2. block[b] \in BlockRecords /\ block \in [Blocks -> {NoBlock} \cup BlockRecords]
      BY <2>1 DEF BuffersOK, NoBlock
    <2>3. block[b].ID \in Nat \ {0} /\ block[b].phys \in Nat
      BY <2>2 DEF BlockRecords
    <2>4. r \in Nat \ {0} /\ ci_buffer_real_size(r) = r
      BY <2>3, RealSizes
    <2>5. n \in Nat \ {0} /\ ci_buffer_real_size(n) \in Nat /\ ci_buffer_real_size(n) <= r
      BY <1>1, <2>1, <2>4, RealSizes
    <2>6. block[b].phys >= r
      BY <2>1 DEF BuffersOK
    <2>. HIDE DEF r
    <2>7. id \in Nat \ {0} /\ block[b].phys >= id /\ block[b].phys >= ci_buffer_real_size(id)
      BY <2>1, <2>3, <2>4, <2>5, <2>6
    <2>. HIDE DEF id
    <2>8. /\ rec \in BlockRecords /\ rec.phys = block[b].phys /\ rec.ID = id
          /\ [block EXCEPT ![b].ID = id] = [block EXCEPT ![b] = rec]
      BY <2>2, <2>7 DEF BlockRecords
    <2>. HIDE DEF rec
    <2>9. BuffersOK([block EXCEPT ![b] = rec], freeList)
      BY <2>1, <2>7, <2>8, OneBlock
    <2>. QED
      BY <2>1, <2>8, <2>9, Zenon
  <1>4. ASSUME NEW b \in Blocks, NEW d \in Blocks, NEW n \in BufSizes, NEW want \in BOOLEAN,
               ReallocMoves(b, d, n, want)
        PROVE  BuffersOK(block', freeList')
    <2>1. block[b].at = "user" /\ b # d /\ n \in Nat \ {0} /\ Gives(d, n, want, Freed(b), FreedTo(b))
      BY <1>1, <1>4 DEF ReallocMoves
    <2>2. BuffersOK(Freed(b), FreedTo(b))
      BY <2>1, FreedKeeps
    <2>3. d \in NewBlock => Freed(b)[d].at # "pool"
      BY <2>1 DEF NewBlock, Freed, BuffersOK
    <2>. QED
      BY <2>1, <2>2, <2>3, GivesKeeps
  <1>5. ASSUME NEW b \in Blocks, ci_buffer_free(b)
        PROVE  BuffersOK(block', freeList')
    BY <1>5, FreedKeeps DEF ci_buffer_free
  <1>6. CASE ci_buffers_destroy
    <2>1. /\ block \in [Blocks -> {NoBlock} \cup BlockRecords]
          /\ \A b \in Blocks : block[b].at = "user" => /\ block[b].phys >= ci_buffer_real_size(block[b].ID)
                                                       /\ block[b].phys >= block[b].ID
      BY DEF BuffersOK
    <2>2. /\ block' \in [Blocks -> {NoBlock} \cup BlockRecords]
          /\ \A b \in Blocks : block'[b] = NoBlock \/ block'[b] = block[b]
      BY <1>6, <2>1 DEF ci_buffers_destroy
    <2>3. NoBlock.at # "user"
      BY DEF NoBlock
    <2>4. \A b \in Blocks : block'[b].at = "user" => /\ block'[b].phys >= ci_buffer_real_size(block'[b].ID)
                                                     /\ block'[b].phys >= block'[b].ID
      BY <2>1, <2>2, <2>3
    <2>5. /\ freeList' \in [Classes -> Seq(Blocks)] /\ \A c \in Classes : Len(freeList'[c]) = 0
      BY <1>6 DEF ci_buffers_destroy
    <2>6. OnceListed(freeList')
      BY <2>5 DEF OnceListed
    <2>. QED
      BY <2>2, <2>4, <2>5, <2>6 DEF BuffersOK
  <1>. QED
    BY <1>2, <1>3, <1>4, <1>5, <1>6 DEF BuffersNext

(* Which blocks have a pool's header in front of them.  A block in use     *)
(* that a pool has allocated will go back to a pool, one of malloc to      *)
(* malloc unless it was shrunk, and the free ones are pools' unless one    *)
(* was trampled on.                                                        *)
Headed(r, sh, tr) ==
  /\ r.at = "user" => /\ r.heap = FALSE => PoolOf(r.ID) # 0
                      /\ r.heap = TRUE /\ sh = FALSE => PoolOf(r.ID) = 0
  /\ r.at = "pool" /\ r.heap = TRUE => tr = TRUE

HeadersOK(bl, sh, tr) ==
  /\ sh \in BOOLEAN /\ tr \in BOOLEAN /\ (tr = TRUE => sh = TRUE)
  /\ \A b \in Blocks : Headed(bl[b], sh, tr)

(* Blocks of more than 32768 bytes are malloc's.                           *)
LEMMA HeapSizes ==
  ASSUME NEW n \in Nat \ {0}
  PROVE  (PoolOf(n) = 0 <=> n > 32768) /\ PoolOf(n) \in Nat /\ PoolOf(n) <= 32768
  <1>. DEFINE z == ClassOf(n)
  <1>1. PoolOf(n) = z /\ InClass(n, z)
    BY PoolIsClass, ClassTable
  <1>. HIDE DEF z
  <1>2. (z = 0 <=> n > 32768) /\ z \in Nat /\ z <= 32768
    BY <1>1 DEF InClass
  <1>. QED
    BY <1>1, <1>2

(* One block is changed.                                                   *)
LEMMA HeadersSet ==
  ASSUME NEW bl \in [Blocks -> {NoBlock} \cup BlockRecords], NEW sh, NEW tr, HeadersOK(bl, sh, tr),
         NEW sh2 \in BOOLEAN, NEW tr2 \in BOOLEAN, sh = TRUE => sh2 = TRUE, tr = TRUE => tr2 = TRUE,
         tr2 = TRUE => sh2 = TRUE, NEW b \in Blocks, NEW r, Headed(r, sh2, tr2)
  PROVE  HeadersOK([bl EXCEPT ![b] = r], sh2, tr2)
  <1>. DEFINE n == [bl EXCEPT ![b] = r]
  <1>1. n[b] = r /\ \A x \in Blocks : x # b => n[x] = bl[x]
    OBVIOUS
  <1>. HIDE DEF n
  <1>2. ASSUME NEW x \in Blocks PROVE Headed(n[x], sh2, tr2)
    <2>1. CASE x = b
      BY <1>1, <2>1
    <2>2. CASE x # b
      <3>1. n[x] = bl[x] /\ Headed(bl[x], sh, tr) /\ sh \in BOOLEAN
        BY <1>1, <2>2 DEF HeadersOK
      <3>. QED
        BY <3>1 DEF Headed
    <2>. QED
      BY <2>1, <2>2
  <1>. QED
    BY <1>2 DEF HeadersOK, n

(* ci_buffer_alloc2 keeps the headers.                                     *)
LEMMA GivesHeads ==
  ASSUME NEW bl, NEW fl, BuffersOK(bl, fl), NEW sh, NEW tr, HeadersOK(bl, sh, tr), NEW b \in Blocks,
         NEW n \in Nat \ {0}, NEW want \in BOOLEAN, Gives(b, n, want, bl, fl)
  PROVE  HeadersOK(block', sh, tr)
  <1>. DEFINE c == PoolOf(n)
              r == ci_buffer_real_size(n)
              id == IF want THEN r ELSE n
  <1>1. /\ r \in Nat \ {0} /\ id \in Nat \ {0} /\ id <= r /\ ci_buffer_real_size(id) = r
        /\ c # 0 => c = r /\ c \in Classes
    BY SizesOf, Zenon
  <1>2. bl \in [Blocks -> {NoBlock} \cup BlockRecords] /\ fl \in [Classes -> Seq(Blocks)]
    BY DEF BuffersOK
  <1>3. sh \in BOOLEAN /\ tr \in BOOLEAN /\ (tr = TRUE => sh = TRUE)
    BY DEF HeadersOK
  <1>4. c = 0 <=> PoolOf(id) = 0
    <2>1. c = 0 => id = n
      BY DEF ci_buffer_real_size
    <2>2. c # 0 => r <= 32768
      <3>1. c # 0 => c = r
        BY <1>1
      <3>2. c \in Nat /\ c <= 32768
        BY HeapSizes
      <3>. QED
        BY <3>1, <3>2
    <2>. HIDE DEF r, id
    <2>3. PoolOf(id) = 0 <=> id > 32768
      BY <1>1, HeapSizes
    <2>. QED
      BY <1>1, <2>1, <2>2, <2>3
  <1>5. CASE c # 0 /\ fl[c] # <<>>
    <2>. DEFINE rec == [[bl[b] EXCEPT !.at = "user"] EXCEPT !.ID = id]
    <2>1. /\ b = Head(fl[c])
          /\ block' = [bl EXCEPT ![b].at = "user", ![b].ID = id]
      BY <1>5 DEF Gives
    <2>. HIDE DEF c, r, id
    <2>2. c \in Classes /\ fl[c] \in Seq(Blocks) /\ Len(fl[c]) \in Nat /\ Len(fl[c]) > 0 /\ b = fl[c][1]
      BY <1>1, <1>2, <1>5, <2>1
    <2>3. bl[b].at = "pool"
      BY <2>2 DEF BuffersOK
    <2>4. bl[b] \in BlockRecords
      BY <1>2, <2>3 DEF NoBlock
    <2>5. rec.at = "user" /\ rec.heap = bl[b].heap /\ rec.ID = id
      BY <2>4 DEF BlockRecords
    <2>6. block' = [bl EXCEPT ![b] = rec]
      BY <1>2, <2>1
    <2>. HIDE DEF rec
    <2>7. Headed(bl[b], sh, tr)
      BY DEF HeadersOK
    <2>8. Headed(rec, sh, tr)
      <3>1. bl[b].heap = TRUE => sh = TRUE
        BY <1>3, <2>3, <2>7 DEF Headed
      <3>. QED
        BY <1>3, <1>4, <1>5, <2>5, <3>1 DEF Headed
    <2>9. HeadersOK([bl EXCEPT ![b] = rec], sh, tr)
      BY <1>2, <1>3, <2>8, HeadersSet
    <2>. QED
      BY <2>6, <2>9
  <1>6. CASE ~(c # 0 /\ fl[c] # <<>>)
    <2>. DEFINE k == (c = 0)
                rec == [at |-> "user", phys |-> r, heap |-> k, ID |-> id]
    <2>1. block' = [bl EXCEPT ![b] = rec]
      BY <1>6 DEF Gives
    <2>2. (k = TRUE => c = 0) /\ (k = FALSE => c # 0)
      OBVIOUS
    <2>. HIDE DEF c, r, id, k
    <2>3. rec.at = "user" /\ rec.heap = k /\ rec.ID = id
      OBVIOUS
    <2>. HIDE DEF rec
    <2>4. Headed(rec, sh, tr)
      BY <1>4, <2>2, <2>3 DEF Headed
    <2>5. HeadersOK([bl EXCEPT ![b] = rec], sh, tr)
      BY <1>2, <1>3, <2>4, HeadersSet
    <2>. QED
      BY <2>1, <2>5
  <1>. QED
    BY <1>5, <1>6

(* ci_buffer_free: a block of malloc that goes to a pool was shrunk.       *)
LEMMA FreedHeads ==
  ASSUME BuffersOK(block, freeList), HeadersOK(block, shrunk, trampled), NEW b \in Blocks, block[b].at = "user"
  PROVE  HeadersOK(Freed(b), shrunk, trampled \/ Tramples(b))
  <1>. DEFINE t == (trampled \/ Tramples(b))
  <1>1. block \in [Blocks -> {NoBlock} \cup BlockRecords]
    BY DEF BuffersOK
  <1>2. block[b] \in BlockRecords /\ block[b].heap \in BOOLEAN
    BY <1>1 DEF NoBlock, BlockRecords
  <1>3. Headed(block[b], shrunk, trampled) /\ shrunk \in BOOLEAN /\ trampled \in BOOLEAN
        /\ (trampled = TRUE => shrunk = TRUE)
    BY DEF HeadersOK
  <1>4. t \in BOOLEAN /\ (trampled = TRUE => t = TRUE)
    BY <1>3
  <1>5. t = TRUE => shrunk = TRUE
    BY <1>2, <1>3 DEF Headed, Tramples
  <1>6. CASE PoolOf(block[b].ID) = 0
    <2>1. Freed(b) = [block EXCEPT ![b] = NoBlock]
      BY <1>6 DEF Freed
    <2>. HIDE DEF t
    <2>2. Headed(NoBlock, shrunk, t)
      BY DEF Headed, NoBlock
    <2>3. HeadersOK([block EXCEPT ![b] = NoBlock], shrunk, t)
      BY <1>1, <1>3, <1>4, <1>5, <2>2, HeadersSet
    <2>. QED
      BY <2>1, <2>3 DEF t
  <1>7. CASE PoolOf(block[b].ID) # 0
    <2>. DEFINE rec == [block[b] EXCEPT !.at = "pool"]
    <2>1. Freed(b) = [block EXCEPT ![b] = rec]
      BY <1>1, <1>7 DEF Freed
    <2>2. rec.at = "pool" /\ rec.heap = block[b].heap
      BY <1>2 DEF BlockRecords
    <2>3. block[b].heap = TRUE => t = TRUE
      BY <1>2, <1>7 DEF Tramples
    <2>. HIDE DEF t, rec
    <2>4. Headed(rec, shrunk, t)
      BY <2>2, <2>3 DEF Headed
    <2>5. HeadersOK([block EXCEPT ![b] = rec], shrunk, t)
      BY <1>1, <1>3, <1>4, <1>5, <2>4, HeadersSet
    <2>. QED
      BY <2>1, <2>5 DEF t
  <1>. QED
    BY <1>6, <1>7

(* Every step of the buffers keeps the headers.                            *)
LEMMA HeadersStep ==
  ASSUME BuffersOK(block, freeList), HeadersOK(block, shrunk, trampled), BuffersNext
  PROVE  HeadersOK(block', shrunk', trampled')
  <1>0. BufSizes \subseteq Nat \ {0} /\ block \in [Blocks -> {NoBlock} \cup BlockRecords]
        /\ shrunk \in BOOLEAN /\ trampled \in BOOLEAN /\ (trampled = TRUE => shrunk = TRUE)
    BY MemPoolsAssumption DEF BuffersOK, HeadersOK
  <1>1. ASSUME NEW b \in Blocks, NEW n \in BufSizes, NEW want \in BOOLEAN, ci_buffer_alloc2(b, n, want)
        PROVE  HeadersOK(block', shrunk', trampled')
    <2>1. Gives(b, n, want, block, freeList) /\ n \in Nat \ {0} /\ shrunk' = shrunk /\ trampled' = trampled
      BY <1>0, <1>1 DEF ci_buffer_alloc2
    <2>2. HeadersOK(block', shrunk, trampled)
      BY <2>1, GivesHeads
    <2>. QED
      BY <2>1, <2>2
  <1>2. ASSUME NEW b \in Blocks, NEW n \in BufSizes, NEW want \in BOOLEAN, ReallocInPlace(b, n, want)
        PROVE  HeadersOK(block', shrunk', trampled')
    <2>. DEFINE r == ci_buffer_real_size(block[b].ID)
                id == IF want THEN r ELSE n
                rec == [block[b] EXCEPT !.ID = id]
                s == (shrunk \/ (block[b].heap /\ PoolOf(Resized(b, n, want)[b].ID) # 0))
    <2>1. /\ block[b].at = "user" /\ n <= r /\ trampled' = trampled
          /\ block' = [block EXCEPT ![b].ID = id] /\ shrunk' = s
      BY <1>2 DEF ReallocInPlace, Resized
    <2>2. block[b] \in BlockRecords
      BY <1>0, <2>1 DEF NoBlock
    <2>3. block[b].ID \in Nat \ {0} /\ block[b].heap \in BOOLEAN
      BY <2>2 DEF BlockRecords
    <2>4. r \in Nat \ {0} /\ ci_buffer_real_size(r) = r
      BY <2>3, RealSizes
    <2>5. Resized(b, n, want)[b].ID = id
      BY <1>0, <2>2 DEF Resized, BlockRecords
    <2>6. rec.at = "user" /\ rec.heap = block[b].heap /\ rec.ID = id
          /\ [block EXCEPT ![b].ID = id] = [block EXCEPT ![b] = rec]
      BY <1>0, <2>1, <2>2 DEF BlockRecords
    <2>7. s \in BOOLEAN /\ (shrunk = TRUE => s = TRUE)
          /\ (block[b].heap = TRUE /\ PoolOf(id) # 0 => s = TRUE)
      BY <1>0, <2>3, <2>5
    <2>8. block[b].heap = FALSE => PoolOf(id) # 0
      <3>1. block[b].heap = FALSE => PoolOf(block[b].ID) # 0
        BY <2>1 DEF HeadersOK, Headed
      <3>2. PoolOf(block[b].ID) # 0 => r <= 32768
        <4>1. PoolOf(block[b].ID) # 0 => r = PoolOf(block[b].ID)
          BY <2>3, RealSizes
        <4>2. PoolOf(block[b].ID) \in Nat /\ PoolOf(block[b].ID) <= 32768
          BY <2>3, HeapSizes
        <4>. QED
          BY <4>1, <4>2
      <3>. HIDE DEF r
      <3>3. id \in Nat \ {0} /\ id <= r
        BY <1>0, <2>1, <2>4
      <3>. HIDE DEF id
      <3>4. PoolOf(id) = 0 <=> id > 32768
        BY <3>3, HeapSizes
      <3>. QED
        BY <2>4, <3>1, <3>2, <3>3, <3>4
    <2>. HIDE DEF r, id, rec, s
    <2>9. Headed(rec, s, trampled)
      BY <1>0, <2>6, <2>7, <2>8 DEF Headed
    <2>10. trampled = TRUE => s = TRUE
      BY <1>0, <2>7
    <2>11. HeadersOK([block EXCEPT ![b] = rec], s, trampled)
      BY <1>0, <2>7, <2>9, <2>10, HeadersSet
    <2>. QED
      BY <2>1, <2>6, <2>11
  <1>3. ASSUME NEW b \in Blocks, NEW d \in Blocks, NEW n \in BufSizes, NEW want \in BOOLEAN,
               ReallocMoves(b, d, n, want)
        PROVE  HeadersOK(block', shrunk', trampled')
    <2>1. /\ block[b].at = "user" /\ n \in Nat \ {0} /\ Gives(d, n, want, Freed(b), FreedTo(b))
          /\ shrunk' = shrunk /\ trampled' = (trampled \/ Tramples(b))
      BY <1>0, <1>3 DEF ReallocMoves
    <2>2. BuffersOK(Freed(b), FreedTo(b)) /\ HeadersOK(Freed(b), shrunk, trampled')
      BY <2>1, FreedKeeps, FreedHeads
    <2>3. HeadersOK(block', shrunk, trampled')
      BY <2>1, <2>2, GivesHeads
    <2>. QED
      BY <2>1, <2>3
  <1>4. ASSUME NEW b \in Blocks, ci_buffer_free(b)
        PROVE  HeadersOK(block', shrunk', trampled')
    <2>1. /\ block[b].at = "user" /\ block' = Freed(b) /\ shrunk' = shrunk
          /\ trampled' = (trampled \/ Tramples(b))
      BY <1>4 DEF ci_buffer_free
    <2>2. HeadersOK(Freed(b), shrunk, trampled')
      BY <2>1, FreedHeads
    <2>. QED
      BY <2>1, <2>2
  <1>5. CASE ci_buffers_destroy
    <2>1. /\ \A b \in Blocks : block'[b] = NoBlock \/ block'[b] = block[b]
          /\ shrunk' = shrunk /\ trampled' = trampled
      BY <1>5 DEF ci_buffers_destroy
    <2>2. Headed(NoBlock, shrunk, trampled)
      BY DEF Headed, NoBlock
    <2>3. \A b \in Blocks : Headed(block'[b], shrunk, trampled)
      BY <2>1, <2>2 DEF HeadersOK
    <2>. QED
      BY <1>0, <2>1, <2>3 DEF HeadersOK
  <1>. QED
    BY <1>1, <1>2, <1>3, <1>4, <1>5 DEF BuffersNext

(* What the pack allocator and its pieces satisfy: the pieces lie before   *)
(* the front position or behind the rear one.                              *)
PackOK(p, ps) ==
  /\ p \in [curpos : Nat, endpos : Nat, end : Nat]
  /\ p.curpos <= p.endpos /\ p.endpos <= p.end
  /\ ps \subseteq [from : Nat, to : Nat]
  /\ \A x \in ps : x.from < x.to /\ x.to <= p.end /\ (x.to <= p.curpos \/ x.from >= p.endpos)
  /\ \A x, y \in ps : x = y \/ x.to <= y.from \/ y.to <= x.from

(* Rounding up to a multiple of eight.                                     *)
LEMMA AlignedSizes ==
  ASSUME NEW n \in Nat
  PROVE  Aligned(n) \in Nat /\ Aligned(n) >= n /\ Aligned(n) < n + 8
  <1>1. n + 7 \in Nat
    OBVIOUS
  <1>2. (n + 7) \div 8 \in Nat /\ 8 * ((n + 7) \div 8) <= n + 7 /\ n + 7 < 8 * ((n + 7) \div 8) + 8
    BY <1>1
  <1>. QED
    BY <1>2 DEF Aligned

(* A fresh pack allocator.                                                 *)
LEMMA FreshPack == PackOK(NewPack, {})
  <1>1. PackSize \div 8 \in Nat
    BY MemPoolsAssumption
  <1>2. (PackSize \div 8) * 8 \in Nat
    BY <1>1
  <1>. QED
    BY <1>2 DEF PackOK, NewPack

(* One more piece of free room at the front or at the rear.                *)
LEMMA PackGives ==
  ASSUME PackOK(pack, packed), NEW len \in Nat \ {0}, len <= PackRoom
  PROVE  /\ PackOK([pack EXCEPT !.curpos = @ + len],
                   packed \cup {[from |-> pack.curpos, to |-> pack.curpos + len]})
         /\ PackOK([pack EXCEPT !.endpos = @ - len],
                   packed \cup {[from |-> pack.endpos - len, to |-> pack.endpos]})
  <1>1. /\ pack \in [curpos : Nat, endpos : Nat, end : Nat]
        /\ pack.curpos \in Nat /\ pack.endpos \in Nat /\ pack.end \in Nat
        /\ pack.curpos <= pack.endpos /\ pack.endpos <= pack.end /\ len <= pack.endpos - pack.curpos
    BY DEF PackOK, PackRoom
  <1>2. /\ packed \subseteq [from : Nat, to : Nat]
        /\ \A x \in packed : /\ x.from \in Nat /\ x.to \in Nat
                             /\ x.from < x.to /\ x.to <= pack.end
                             /\ (x.to <= pack.curpos \/ x.from >= pack.endpos)
        /\ \A x, y \in packed : x = y \/ x.to <= y.from \/ y.to <= x.from
    BY DEF PackOK
  <1>3. PackOK([pack EXCEPT !.curpos = @ + len], packed \cup {[from |-> pack.curpos, to |-> pack.curpos + len]})
    <2>. DEFINE c == pack.curpos + len
                p == [pack EXCEPT !.curpos = c]
                z == [from |-> pack.curpos, to |-> c]
    <2>1. c \in Nat /\ c <= pack.endpos /\ pack.curpos < c
      BY <1>1
    <2>. HIDE DEF c
    <2>2. /\ p \in [curpos : Nat, endpos : Nat, end : Nat]
          /\ p.curpos = c /\ p.endpos = pack.endpos /\ p.end = pack.end
          /\ z \in [from : Nat, to : Nat] /\ z.from = pack.curpos /\ z.to = c
      BY <1>1, <2>1
    <2>. HIDE DEF p, z
    <2>3. PackOK(p, packed \cup {z})
      BY <1>1, <1>2, <2>1, <2>2 DEF PackOK
    <2>. QED
      BY <2>3 DEF p, z, c
  <1>4. PackOK([pack EXCEPT !.endpos = @ - len], packed \cup {[from |-> pack.endpos - len, to |-> pack.endpos]})
    <2>. DEFINE c == pack.endpos - len
                p == [pack EXCEPT !.endpos = c]
                z == [from |-> c, to |-> pack.endpos]
    <2>1. c \in Nat /\ c >= pack.curpos /\ pack.endpos > c
      BY <1>1
    <2>. HIDE DEF c
    <2>2. /\ p \in [curpos : Nat, endpos : Nat, end : Nat]
          /\ p.curpos = pack.curpos /\ p.endpos = c /\ p.end = pack.end
          /\ z \in [from : Nat, to : Nat] /\ z.from = c /\ z.to = pack.endpos
      BY <1>1, <2>1
    <2>. HIDE DEF p, z
    <2>3. PackOK(p, packed \cup {z})
      BY <1>1, <1>2, <2>1, <2>2 DEF PackOK
    <2>. QED
      BY <2>3 DEF p, z, c
  <1>. QED
    BY <1>3, <1>4

(* Every step of a pack allocator keeps its pieces apart.                  *)
LEMMA PackStep ==
  ASSUME PackOK(pack, packed), PackNext
  PROVE  PackOK(pack', packed')
  <1>1. ASSUME NEW n \in PieceSizes, NEW align \in BOOLEAN
        PROVE  PackLen(n, align) \in Nat \ {0}
    <2>1. n \in Nat \ {0}
      BY MemPoolsAssumption
    <2>2. Aligned(n) \in Nat /\ Aligned(n) >= n
      BY <2>1, AlignedSizes
    <2>. QED
      BY <2>1, <2>2 DEF PackLen
  <1>2. ASSUME NEW n \in PieceSizes, NEW align \in BOOLEAN, ci_pack_allocator_alloc(n, align)
        PROVE  PackOK(pack', packed')
    <2>. DEFINE len == PackLen(n, align)
    <2>1. /\ len \in Nat \ {0} /\ len <= PackRoom
          /\ pack' = [pack EXCEPT !.curpos = @ + len]
          /\ packed' = packed \cup {[from |-> pack.curpos, to |-> pack.curpos + len]}
      BY <1>1, <1>2 DEF ci_pack_allocator_alloc
    <2>. HIDE DEF len
    <2>2. PackOK([pack EXCEPT !.curpos = @ + len],
                 packed \cup {[from |-> pack.curpos, to |-> pack.curpos + len]})
      BY <2>1, PackGives
    <2>. QED
      BY <2>1, <2>2, Zenon
  <1>3. ASSUME NEW n \in PieceSizes, NEW align \in BOOLEAN, ci_pack_allocator_alloc_from_rear(n, align)
        PROVE  PackOK(pack', packed')
    <2>. DEFINE len == PackLen(n, align)
    <2>1. /\ len \in Nat \ {0} /\ len <= PackRoom
          /\ pack' = [pack EXCEPT !.endpos = @ - len]
          /\ packed' = packed \cup {[from |-> pack.endpos - len, to |-> pack.endpos]}
      BY <1>1, <1>3 DEF ci_pack_allocator_alloc_from_rear
    <2>. HIDE DEF len
    <2>2. PackOK([pack EXCEPT !.endpos = @ - len],
                 packed \cup {[from |-> pack.endpos - len, to |-> pack.endpos]})
      BY <2>1, PackGives
    <2>. QED
      BY <2>1, <2>2, Zenon
  <1>4. ASSUME NEW x \in packed, ci_pack_allocator_set_pos(x)
        PROVE  PackOK(pack', packed')
    <2>1. /\ pack \in [curpos : Nat, endpos : Nat, end : Nat]
          /\ pack.curpos \in Nat /\ pack.endpos \in Nat /\ pack.end \in Nat
          /\ pack.curpos <= pack.endpos /\ pack.endpos <= pack.end
          /\ packed \subseteq [from : Nat, to : Nat]
          /\ \A y \in packed : /\ y.from \in Nat /\ y.to \in Nat
                               /\ y.from < y.to /\ y.to <= pack.end
                               /\ (y.to <= pack.curpos \/ y.from >= pack.endpos)
          /\ \A y, z \in packed : y = z \/ y.to <= z.from \/ z.to <= y.from
      BY DEF PackOK
    <2>2. x.from \in Nat /\ x.to \in Nat /\ x.from < x.to /\ x.to <= pack.end
      BY <2>1
    <2>3. packed' = packed \ {x}
      BY <1>4 DEF ci_pack_allocator_set_pos
    <2>4. CASE x.to = pack.curpos
      <3>1. pack' = [pack EXCEPT !.curpos = x.from]
        BY <1>4, <2>2, <2>4 DEF ci_pack_allocator_set_pos
      <3>2. /\ pack' \in [curpos : Nat, endpos : Nat, end : Nat] /\ pack'.curpos = x.from
            /\ pack'.endpos = pack.endpos /\ pack'.end = pack.end
        BY <2>1, <2>2, <3>1
      <3>3. \A y \in packed \ {x} : y.to <= x.from \/ y.from >= pack.endpos
        BY <2>1, <2>2, <2>4
      <3>. QED
        BY <2>1, <2>2, <2>3, <2>4, <3>2, <3>3 DEF PackOK
    <2>5. CASE x.to # pack.curpos
      <3>1. pack' = [pack EXCEPT !.endpos = x.to] /\ x.from = pack.endpos
        BY <1>4, <2>5 DEF ci_pack_allocator_set_pos
      <3>2. /\ pack' \in [curpos : Nat, endpos : Nat, end : Nat] /\ pack'.curpos = pack.curpos
            /\ pack'.endpos = x.to /\ pack'.end = pack.end
        BY <2>1, <2>2, <3>1
      <3>3. \A y \in packed \ {x} : y.to <= pack.curpos \/ y.from >= x.to
        BY <2>1, <2>2, <3>1
      <3>. QED
        BY <2>1, <2>2, <2>3, <3>1, <3>2, <3>3 DEF PackOK
    <2>. QED
      BY <2>4, <2>5
  <1>5. CASE ci_pack_allocator_reset
    BY <1>5, FreshPack DEF ci_pack_allocator_reset
  <1>. QED
    BY <1>2, <1>3, <1>4, <1>5 DEF PackNext

(* Chunks and pieces of a serial allocator.                                *)
ChunkRecords == [cap : Nat, pos : Nat]
PieceRecords == [chunk : Nat, from : Nat, to : Nat]

(* What the chunks of a serial allocator satisfy.  The further ones all    *)
(* have the size of one that is built with the size of the first, and that *)
(* is the first one's size, unless the first one is a block of malloc.     *)
NextCap(c) ==
  /\ Chunk(c).cap \in Nat
  /\ Chunk(c).cap = c \/ c + SerialHeader > 32768
ChunksOK(s) ==
  /\ s \in Seq(ChunkRecords)
  /\ \A i \in 1..Len(s) : s[i].pos <= s[i].cap /\ (i # 1 => s[i].cap = Chunk(s[1].cap).cap)
  /\ Len(s) > 0 => s[1].pos >= Aligned(AllocatorSize) /\ NextCap(s[1].cap)

(* Where the pieces lie in the chunks.                                     *)
CutFrom(s, ps) ==
  /\ IsFiniteSet(ps) /\ ps \subseteq PieceRecords
  /\ \A x \in ps : /\ x.chunk \in 1..Len(s) /\ x.from < x.to /\ x.to <= s[x.chunk].pos
                   /\ x.chunk = 1 => x.from >= Aligned(AllocatorSize)
  /\ \A x, y \in ps : x = y \/ x.chunk # y.chunk \/ x.to <= y.from \/ y.to <= x.from

(* A request that no further chunk holds, with a first chunk of malloc.    *)
NeverHeld(s, a) ==
  /\ a > s[1].cap - s[1].pos /\ a > Chunk(s[1].cap).cap
  /\ s[1].cap + SerialHeader > 32768 /\ Builds(s[1].cap)

(* How many chunks there are: one more than pieces, and a second one more  *)
(* only for a request that fits into it; or else the request never ends.   *)
ChunksFew(s, ps, a) ==
  /\ a \in Nat
  /\ a # 0 => Len(s) > 0 /\ a <= s[1].cap
  /\ \/ Len(s) <= 1 + Cardinality(ps)
     \/ a # 0 /\ Len(s) <= 2 + Cardinality(ps) /\ a <= s[Len(s)].cap - s[Len(s)].pos
     \/ a # 0 /\ NeverHeld(s, a)

SerialOK(s, ps, a) == ChunksOK(s) /\ CutFrom(s, ps) /\ ChunksFew(s, ps, a)

(* A chunk of the size of a chunk in a pool's buffer has its size.         *)
LEMMA PoolChunk ==
  ASSUME NEW n \in SerialSizes, Builds(n), Aligned(n) <= 32768
  PROVE  Chunk(n).cap \in Nat /\ Chunk(n).pos = 0 /\ Chunk(Chunk(n).cap).cap = Chunk(n).cap
  <1>. DEFINE h == SerialHeader
              a == Aligned(n)
              c == ClassOf(a)
              cap == c - h
              b == Aligned(cap)
  <1>1. n \in Nat /\ h \in 1..63 /\ AllocatorSize \in Nat
    BY MemPoolsAssumption
  <1>2. a \in Nat \ {0} /\ a <= 32768 /\ a >= h
    BY <1>1, AlignedSizes DEF Builds
  <1>3. PoolOf(a) = c /\ InClass(a, c)
    BY <1>2, PoolIsClass, ClassTable
  <1>4. ci_buffer_real_size(a) = IF c = 0 THEN a ELSE c
    BY <1>3 DEF ci_buffer_real_size
  <1>. HIDE DEF a, c
  <1>5. c \in {64, 128, 256, 512, 1024, 2048, 4096, 8192, 16384, 32768}
    BY <1>2, <1>3 DEF InClass
  <1>6. Chunk(n).cap = cap /\ Chunk(n).pos = 0 /\ cap \in Nat \ {0}
    <2>1. ci_buffer_real_size(a) = c
      BY <1>4, <1>5
    <2>2. Chunk(n).cap = ci_buffer_real_size(a) - h /\ Chunk(n).pos = 0
      BY DEF Chunk, a, h
    <2>. QED
      BY <1>1, <1>5, <2>1, <2>2
  <1>7. b \in Nat \ {0} /\ b >= cap /\ b <= c
    <2>. DEFINE q == (cap + 7) \div 8
    <2>1. cap + 7 \in Nat
      BY <1>6
    <2>2. q \in Nat /\ 8 * q <= cap + 7 /\ cap + 7 < 8 * q + 8
      BY <2>1
    <2>3. b = q * 8
      BY DEF Aligned
    <2>. HIDE DEF q, b
    <2>. QED
      BY <1>1, <1>5, <1>6, <2>2, <2>3
  <1>. HIDE DEF b, cap
  <1>8. ClassOf(b) = c
    <2>. DEFINE z == ClassOf(b)
    <2>1. InClass(b, z)
      BY <1>7, ClassTable
    <2>. HIDE DEF z
    <2>2. b > c - 64
      BY <1>1, <1>5, <1>7 DEF cap
    <2>3. z = c
      BY <1>5, <1>7, <2>1, <2>2 DEF InClass
    <2>. QED
      BY <2>3 DEF z
  <1>9. ci_buffer_real_size(b) = c
    <2>1. PoolOf(b) = c
      BY <1>7, <1>8, PoolIsClass
    <2>. QED
      BY <1>5, <2>1 DEF ci_buffer_real_size
  <1>10. Chunk(cap).cap = cap
    BY <1>9 DEF Chunk, b, cap, h
  <1>. QED
    BY <1>6, <1>10

(* What a chunk of the size of any chunk has.                              *)
LEMMA ChunkStable ==
  ASSUME NEW n \in SerialSizes, Builds(n)
  PROVE  Chunk(n).cap \in Nat /\ NextCap(Chunk(n).cap)
  <1>1. CASE Aligned(n) <= 32768
    BY <1>1, PoolChunk DEF NextCap
  <1>2. CASE ~(Aligned(n) <= 32768)
    <2>. DEFINE h == SerialHeader
                a == Aligned(n)
                cap == a - h
                b == Aligned(cap)
    <2>1. n \in Nat /\ h \in 1..63
      BY MemPoolsAssumption
    <2>2. a \in Nat /\ a > 32768
      BY <1>2, <2>1, AlignedSizes
    <2>3. ci_buffer_real_size(a) = a
      BY <2>2, HeapSizes DEF ci_buffer_real_size
    <2>4. Chunk(n).cap = cap
      BY <2>3 DEF Chunk
    <2>. HIDE DEF a
    <2>5. cap \in Nat /\ cap + h > 32768
      BY <2>1, <2>2
    <2>6. b \in Nat /\ b >= cap
      BY <2>5, AlignedSizes
    <2>7. Chunk(cap).cap = ci_buffer_real_size(b) - h
      BY DEF Chunk
    <2>. HIDE DEF b, cap
    <2>8. b \in Nat \ {0} /\ b > h
      BY <2>1, <2>5, <2>6
    <2>9. ci_buffer_real_size(b) \in Nat /\ ci_buffer_real_size(b) >= b
      BY <2>8, RealSizes
    <2>10. Chunk(cap).cap \in Nat
      BY <2>1, <2>7, <2>8, <2>9
    <2>. QED
      BY <2>4, <2>5, <2>10 DEF NextCap
  <1>. QED
    BY <1>1, <1>2

(* One chunk moves its position on, and the piece it passes is new.        *)
LEMMA PieceCut ==
  ASSUME NEW s, NEW ps, NEW a, SerialOK(s, ps, a), a # 0, NEW i \in 1..Len(s),
         a <= s[i].cap - s[i].pos
  PROVE  SerialOK([s EXCEPT ![i].pos = @ + a],
                  ps \cup {[chunk |-> i, from |-> s[i].pos, to |-> s[i].pos + a]}, 0)
  <1>. DEFINE t == [s EXCEPT ![i].pos = @ + a]
              z == [chunk |-> i, from |-> s[i].pos, to |-> s[i].pos + a]
  <1>1. /\ s \in Seq(ChunkRecords) /\ a \in Nat \ {0} /\ Len(s) \in Nat /\ i \in Nat
        /\ \A j \in 1..Len(s) : s[j] \in ChunkRecords
    BY DEF SerialOK, ChunksOK, ChunksFew
  <1>2. /\ s[i] \in ChunkRecords /\ s[i].pos \in Nat /\ s[i].cap \in Nat
    BY <1>1 DEF ChunkRecords
  <1>3. s[i].pos + a \in Nat /\ s[i].pos + a <= s[i].cap /\ s[i].pos < s[i].pos + a
    BY <1>1, <1>2
  <1>4. /\ t \in Seq(ChunkRecords) /\ Len(t) = Len(s)
        /\ \A j \in 1..Len(s) : j # i => t[j] = s[j]
        /\ t[i].cap = s[i].cap /\ t[i].pos = s[i].pos + a
    <2>. DEFINE r == [s[i] EXCEPT !.pos = s[i].pos + a]
    <2>1. r \in ChunkRecords /\ r.cap = s[i].cap /\ r.pos = s[i].pos + a
      BY <1>2, <1>3 DEF ChunkRecords
    <2>2. t = [s EXCEPT ![i] = r]
      OBVIOUS
    <2>. HIDE DEF r, t
    <2>3. /\ t \in Seq(ChunkRecords) /\ Len(t) = Len(s) /\ t[i] = r
          /\ \A j \in 1..Len(s) : j # i => t[j] = s[j]
      BY <1>1, <2>1, <2>2
    <2>. QED
      BY <2>1, <2>3
  <1>5. z \in PieceRecords /\ z.chunk = i /\ z.from = s[i].pos /\ z.to = s[i].pos + a
    BY <1>1, <1>2, <1>3 DEF PieceRecords
  <1>. HIDE DEF t, z
  <1>6. /\ \A j \in 1..Len(s) : /\ s[j].cap \in Nat /\ s[j].pos \in Nat
                                /\ s[j].pos <= s[j].cap /\ (j # 1 => s[j].cap = Chunk(s[1].cap).cap)
        /\ s[1].pos >= Aligned(AllocatorSize) /\ NextCap(s[1].cap)
        /\ Aligned(AllocatorSize) \in Nat /\ 1 \in 1..Len(s)
    <2>1. ChunksOK(s) /\ Len(s) > 0 /\ AllocatorSize \in Nat
      BY <1>1, MemPoolsAssumption DEF SerialOK
    <2>2. Aligned(AllocatorSize) \in Nat
      BY <2>1, AlignedSizes
    <2>3. \A j \in 1..Len(s) : s[j].cap \in Nat /\ s[j].pos \in Nat
      BY <1>1 DEF ChunkRecords
    <2>4. s[1].pos >= Aligned(AllocatorSize) /\ NextCap(s[1].cap)
      BY <2>1 DEF ChunksOK
    <2>5. \A j \in 1..Len(s) : s[j].pos <= s[j].cap /\ (j # 1 => s[j].cap = Chunk(s[1].cap).cap)
      BY <2>1 DEF ChunksOK
    <2>6. 1 \in 1..Len(s)
      BY <1>1
    <2>. QED
      BY <2>2, <2>3, <2>4, <2>5, <2>6
  <1>7. \A j \in 1..Len(s) : t[j].cap = s[j].cap /\ t[j].pos >= s[j].pos /\ t[j].pos <= t[j].cap
    <2>. SUFFICES ASSUME NEW j \in 1..Len(s)
                  PROVE  t[j].cap = s[j].cap /\ t[j].pos >= s[j].pos /\ t[j].pos <= t[j].cap
      OBVIOUS
    <2>1. s[j].cap \in Nat /\ s[j].pos \in Nat /\ s[j].pos <= s[j].cap
      BY <1>6
    <2>2. CASE j = i
      BY <1>1, <1>2, <1>3, <1>4, <2>2
    <2>3. CASE j # i
      BY <1>4, <2>1, <2>3
    <2>. QED
      BY <2>2, <2>3
  <1>8. ChunksOK(t)
    <2>1. t[1].cap = s[1].cap /\ t[1].pos >= Aligned(AllocatorSize) /\ NextCap(t[1].cap)
      <3>1. t[1].cap = s[1].cap /\ t[1].pos >= s[1].pos /\ t[1].pos \in Nat /\ s[1].pos \in Nat
        <4>1. 1 \in 1..Len(s) /\ t[1] \in ChunkRecords
          BY <1>4, <1>6
        <4>. QED
          BY <1>6, <1>7, <4>1 DEF ChunkRecords
      <3>. QED
        BY <1>6, <3>1
    <2>2. \A j \in 1..Len(t) : t[j].pos <= t[j].cap /\ (j # 1 => t[j].cap = Chunk(t[1].cap).cap)
      BY <1>4, <1>6, <1>7, <2>1
    <2>. QED
      BY <1>4, <2>1, <2>2 DEF ChunksOK
  <1>9. /\ IsFiniteSet(ps) /\ ps \subseteq PieceRecords
        /\ \A x \in ps : /\ x.chunk \in 1..Len(s) /\ x.from \in Nat /\ x.to \in Nat
                         /\ x.from < x.to /\ x.to <= s[x.chunk].pos
                         /\ x.chunk = 1 => x.from >= Aligned(AllocatorSize)
        /\ \A x, y \in ps : x = y \/ x.chunk # y.chunk \/ x.to <= y.from \/ y.to <= x.from
    BY DEF SerialOK, CutFrom, PieceRecords
  <1>10. \A x \in ps : x.chunk # z.chunk \/ x.to <= z.from
    BY <1>5, <1>9
  <1>11. CutFrom(t, ps \cup {z})
    <2>1. IsFiniteSet(ps \cup {z})
      BY <1>9, FS_AddElement
    <2>2. \A x \in ps : x.to <= t[x.chunk].pos
      <3>. SUFFICES ASSUME NEW x \in ps PROVE x.to <= t[x.chunk].pos
        OBVIOUS
      <3>. DEFINE j == x.chunk
      <3>1. j \in 1..Len(s) /\ x.to \in Nat /\ x.to <= s[j].pos
        BY <1>9
      <3>. HIDE DEF j
      <3>2. t[j].pos >= s[j].pos /\ s[j].pos \in Nat /\ t[j].pos \in Nat
        <4>1. t[j] \in ChunkRecords
          BY <1>4, <3>1
        <4>. QED
          BY <1>6, <1>7, <3>1, <4>1 DEF ChunkRecords
      <3>. QED
        BY <3>1, <3>2 DEF j
    <2>3. z.from < z.to /\ z.to <= t[z.chunk].pos /\ (z.chunk = 1 => z.from >= Aligned(AllocatorSize))
      BY <1>3, <1>4, <1>5, <1>6
    <2>4. \A x \in ps \cup {z} :
            /\ x.chunk \in 1..Len(t) /\ x.from < x.to /\ x.to <= t[x.chunk].pos
            /\ x.chunk = 1 => x.from >= Aligned(AllocatorSize)
      BY <1>4, <1>5, <1>9, <2>2, <2>3
    <2>5. \A x, y \in ps \cup {z} : x = y \/ x.chunk # y.chunk \/ x.to <= y.from \/ y.to <= x.from
      BY <1>9, <1>10
    <2>. QED
      BY <1>5, <1>9, <2>1, <2>4, <2>5 DEF CutFrom
  <1>12. ChunksFew(t, ps \cup {z}, 0)
    <2>1. z \notin ps
      BY <1>3, <1>5, <1>9, <1>10
    <2>2. Cardinality(ps \cup {z}) = Cardinality(ps) + 1 /\ Cardinality(ps) \in Nat
      BY <1>9, <2>1, FS_AddElement, FS_CardinalityType
    <2>3. Len(s) <= 2 + Cardinality(ps)
      <3>1. ~NeverHeld(s, a)
        <4>1. CASE i = 1
          BY <1>1, <1>2, <4>1 DEF NeverHeld
        <4>2. CASE i # 1
          BY <1>1, <1>2, <1>6, <4>2 DEF NeverHeld
        <4>. QED
          BY <4>1, <4>2
      <3>. QED
        BY <1>1, <2>2, <3>1 DEF SerialOK, ChunksFew
    <2>. QED
      BY <1>1, <1>4, <2>2, <2>3 DEF ChunksFew
  <1>. QED
    BY <1>8, <1>11, <1>12 DEF SerialOK, t, z

(* A new chunk for a request that fits into none.                          *)
LEMMA ChunkAdded ==
  ASSUME NEW s, NEW ps, NEW a, SerialOK(s, ps, a), a # 0,
         \A i \in 1..Len(s) : ~(a <= s[i].cap - s[i].pos)
  PROVE  /\ Builds(s[1].cap) => SerialOK(Append(s, Chunk(s[1].cap)), ps, a)
         /\ ~Builds(s[1].cap) => SerialOK(s, ps, 0)
  <1>. DEFINE r == Chunk(s[1].cap)
              t == Append(s, r)
  <1>1. /\ s \in Seq(ChunkRecords) /\ a \in Nat /\ Len(s) \in Nat /\ Len(s) > 0 /\ a <= s[1].cap
        /\ Cardinality(ps) \in Nat
    <2>1. IsFiniteSet(ps)
      BY DEF SerialOK, CutFrom
    <2>2. s \in Seq(ChunkRecords)
      BY DEF SerialOK, ChunksOK
    <2>3. a \in Nat /\ Len(s) > 0 /\ a <= s[1].cap
      BY DEF SerialOK, ChunksFew
    <2>4. Cardinality(ps) \in Nat /\ Len(s) \in Nat
      BY <2>1, <2>2, FS_CardinalityType
    <2>. QED
      BY <2>2, <2>3, <2>4
  <1>2. s[1] \in ChunkRecords /\ s[1].cap \in Nat /\ s[1].pos \in Nat /\ a > s[1].cap - s[1].pos
    <2>1. 1 \in 1..Len(s)
      BY <1>1
    <2>2. s[1] \in ChunkRecords
      BY <1>1, <2>1
    <2>3. s[1].cap \in Nat /\ s[1].pos \in Nat
      BY <2>2 DEF ChunkRecords
    <2>. QED
      BY <1>1, <2>1, <2>2, <2>3
  <1>3. /\ r.cap = Chunk(s[1].cap).cap /\ r.cap \in Nat /\ r.pos = 0 /\ r \in ChunkRecords
        /\ r.cap = s[1].cap \/ s[1].cap + SerialHeader > 32768
    <2>1. r.cap \in Nat /\ (r.cap = s[1].cap \/ s[1].cap + SerialHeader > 32768)
      BY <1>1 DEF SerialOK, ChunksOK, NextCap
    <2>2. r = [cap |-> r.cap, pos |-> 0]
      BY DEF Chunk
    <2>3. r.cap = Chunk(s[1].cap).cap
      OBVIOUS
    <2>. HIDE DEF r
    <2>4. r.pos = 0 /\ r \in ChunkRecords
      BY <2>1, <2>2 DEF ChunkRecords
    <2>. QED
      BY <2>1, <2>3, <2>4
  <1>. HIDE DEF r
  <1>4. /\ t \in Seq(ChunkRecords) /\ Len(t) = Len(s) + 1 /\ t[Len(s) + 1] = r
        /\ \A i \in 1..Len(s) : t[i] = s[i]
    BY <1>1, <1>3
  <1>. HIDE DEF t
  <1>5. Len(s) <= 1 + Cardinality(ps) \/ NeverHeld(s, a)
    <2>1. Len(s) \in 1..Len(s)
      BY <1>1
    <2>. QED
      BY <2>1 DEF SerialOK, ChunksFew
  <1>6. ChunksOK(t)
    <2>1. t[1] = s[1]
      BY <1>1, <1>4
    <2>2. \A i \in 1..Len(s) : t[i].pos <= t[i].cap /\ (i # 1 => t[i].cap = Chunk(t[1].cap).cap)
      BY <1>4, <2>1 DEF SerialOK, ChunksOK
    <2>3. r.pos <= r.cap /\ r.cap = Chunk(t[1].cap).cap
      BY <1>2, <1>3, <2>1
    <2>4. \A i \in 1..Len(t) : t[i].pos <= t[i].cap /\ (i # 1 => t[i].cap = Chunk(t[1].cap).cap)
      BY <1>1, <1>4, <2>2, <2>3
    <2>5. t[1].pos >= Aligned(AllocatorSize) /\ NextCap(t[1].cap)
      BY <1>1, <2>1 DEF SerialOK, ChunksOK
    <2>. QED
      BY <1>4, <2>4, <2>5 DEF ChunksOK
  <1>7. CutFrom(t, ps)
    <2>1. CutFrom(s, ps)
      BY DEF SerialOK
    <2>2. \A x \in ps : x.chunk \in 1..Len(t) /\ x.to <= t[x.chunk].pos
      BY <1>1, <1>4, <2>1 DEF CutFrom
    <2>. QED
      BY <2>1, <2>2 DEF CutFrom
  <1>8. ASSUME Builds(s[1].cap) PROVE ChunksFew(t, ps, a)
    <2>0. t[1] = s[1] /\ Len(t) > 0 /\ Len(t) \in Nat
      BY <1>1, <1>4
    <2>1. CASE NeverHeld(s, a)
      BY <1>1, <2>0, <2>1 DEF ChunksFew, NeverHeld
    <2>2. CASE ~NeverHeld(s, a)
      <3>1. Len(t) <= 2 + Cardinality(ps)
        BY <1>1, <1>4, <1>5, <2>2
      <3>2. a <= r.cap
        BY <1>1, <1>2, <1>3, <1>8, <2>2 DEF NeverHeld
      <3>3. a <= t[Len(t)].cap - t[Len(t)].pos
        BY <1>1, <1>3, <1>4, <3>2
      <3>. QED
        BY <1>1, <2>0, <3>1, <3>3 DEF ChunksFew
    <2>. QED
      BY <2>1, <2>2
  <1>9. ASSUME ~Builds(s[1].cap) PROVE ChunksFew(s, ps, 0)
    BY <1>5, <1>9 DEF ChunksFew, NeverHeld
  <1>. QED
    BY <1>6, <1>7, <1>8, <1>9 DEF SerialOK, t, r

(* An allocator with its first chunk only, and no piece but its structure. *)
LEMMA OneChunk ==
  ASSUME NEW c \in ChunkRecords, c.pos <= c.cap, c.pos >= Aligned(AllocatorSize),
         NextCap(c.cap)
  PROVE  SerialOK(<<c>>, {}, 0)
  <1>. DEFINE s == <<c>>
  <1>1. s \in Seq(ChunkRecords) /\ Len(s) = 1 /\ s[1] = c
    OBVIOUS
  <1>. HIDE DEF s
  <1>2. ChunksOK(s)
    BY <1>1 DEF ChunksOK
  <1>3. CutFrom(s, {})
    BY FS_EmptySet DEF CutFrom
  <1>4. ChunksFew(s, {}, 0)
    BY <1>1, FS_EmptySet DEF ChunksFew
  <1>. QED
    BY <1>2, <1>3, <1>4 DEF SerialOK, s

(* No allocator.                                                           *)
LEMMA NoSerial == SerialOK(<<>>, {}, 0)
  <1>1. ChunksOK(<<>>)
    BY DEF ChunksOK
  <1>2. CutFrom(<<>>, {})
    BY FS_EmptySet DEF CutFrom
  <1>3. ChunksFew(<<>>, {}, 0)
    BY FS_EmptySet DEF ChunksFew
  <1>. QED
    BY <1>1, <1>2, <1>3 DEF SerialOK

(* Every step of a serial allocator keeps its pieces apart.                *)
LEMMA SerialStep ==
  ASSUME SerialOK(serial, pieces, asked), SerialNext
  PROVE  SerialOK(serial', pieces', asked')
  <1>1. ASSUME NEW n \in SerialSizes, CreateSerial(n)
        PROVE  SerialOK(serial', pieces', asked')
    <2>. DEFINE c == FirstChunk(n)
    <2>1. /\ serial = <<>> /\ Builds(n) /\ Aligned(AllocatorSize) <= Chunk(n).cap
          /\ serial' = <<c>> /\ pieces' = pieces /\ asked' = asked
      BY <1>1 DEF CreateSerial
    <2>2. pieces = {} /\ asked = 0
      BY <2>1 DEF SerialOK, CutFrom, ChunksFew
    <2>3. Aligned(AllocatorSize) \in Nat
      BY AlignedSizes, MemPoolsAssumption
    <2>4. Chunk(n).cap \in Nat /\ NextCap(Chunk(n).cap)
      BY <2>1, ChunkStable
    <2>5. c = [cap |-> Chunk(n).cap, pos |-> Aligned(AllocatorSize)]
      BY DEF FirstChunk, Chunk
    <2>6. c \in ChunkRecords /\ c.cap = Chunk(n).cap /\ c.pos = Aligned(AllocatorSize)
      BY <2>3, <2>4, <2>5 DEF ChunkRecords
    <2>. HIDE DEF c
    <2>7. SerialOK(<<c>>, {}, 0)
      <3>1. c.pos <= c.cap /\ c.pos >= Aligned(AllocatorSize) /\ NextCap(c.cap)
        BY <2>1, <2>3, <2>4, <2>6
      <3>. QED
        BY <2>6, <3>1, OneChunk
    <2>. QED
      BY <2>1, <2>2, <2>7
  <1>2. ASSUME NEW n \in PieceSizes, AskSerial(n)
        PROVE  SerialOK(serial', pieces', asked')
    <2>1. /\ serial # <<>> /\ asked = 0 /\ Aligned(n) <= serial[1].cap
          /\ asked' = Aligned(n) /\ serial' = serial /\ pieces' = pieces
      BY <1>2 DEF AskSerial
    <2>2. Aligned(n) \in Nat
      BY AlignedSizes, MemPoolsAssumption
    <2>3. serial \in Seq(ChunkRecords)
      BY DEF SerialOK, ChunksOK
    <2>4. Len(serial) > 0
      BY <2>1, <2>3
    <2>5. ChunksFew(serial, pieces, Aligned(n))
      BY <2>1, <2>2, <2>4 DEF SerialOK, ChunksFew
    <2>. QED
      BY <2>1, <2>5 DEF SerialOK
  <1>3. CASE SerialGives
    <2>0. DOMAIN serial = 1..Len(serial)
      BY DEF SerialOK, ChunksOK
    <2>1. asked # 0 /\ asked' = 0
      BY <1>3 DEF SerialGives
    <2>2. PICK i \in 1..Len(serial) :
            /\ Fits(i)
            /\ pieces' = pieces \cup {[chunk |-> i, from |-> serial[i].pos, to |-> serial[i].pos + asked]}
            /\ serial' = [serial EXCEPT ![i].pos = @ + asked]
      BY <1>3, <2>0 DEF SerialGives
    <2>3. asked <= serial[i].cap - serial[i].pos
      BY <2>2 DEF Fits
    <2>4. SerialOK([serial EXCEPT ![i].pos = @ + asked],
                   pieces \cup {[chunk |-> i, from |-> serial[i].pos, to |-> serial[i].pos + asked]}, 0)
      BY <2>1, <2>3, PieceCut, Zenon
    <2>. QED
      BY <2>1, <2>2, <2>4, Zenon
  <1>4. CASE SerialGrows
    <2>0. DOMAIN serial = 1..Len(serial)
      BY DEF SerialOK, ChunksOK
    <2>1. asked # 0 /\ pieces' = pieces /\ \A i \in 1..Len(serial) : ~(asked <= serial[i].cap - serial[i].pos)
      BY <1>4, <2>0 DEF SerialGrows, Fits
    <2>2. /\ Builds(serial[1].cap) => SerialOK(Append(serial, Chunk(serial[1].cap)), pieces, asked)
          /\ ~Builds(serial[1].cap) => SerialOK(serial, pieces, 0)
      BY <2>1, ChunkAdded, Zenon
    <2>3. \/ Builds(serial[1].cap) /\ serial' = Append(serial, Chunk(serial[1].cap)) /\ asked' = asked
          \/ ~Builds(serial[1].cap) /\ serial' = serial /\ asked' = 0
      BY <1>4 DEF SerialGrows
    <2>. QED
      BY <2>1, <2>2, <2>3
  <1>5. CASE serial_allocator_reset
    <2>. DEFINE c == [serial[1] EXCEPT !.pos = Aligned(AllocatorSize)]
    <2>1. serial # <<>> /\ serial' = <<c>> /\ pieces' = {} /\ asked' = 0
      BY <1>5 DEF serial_allocator_reset
    <2>2. serial \in Seq(ChunkRecords) /\ Aligned(AllocatorSize) \in Nat
      BY AlignedSizes, MemPoolsAssumption DEF SerialOK, ChunksOK
    <2>3. Len(serial) \in Nat /\ Len(serial) > 0 /\ serial[1] \in ChunkRecords
      BY <2>1, <2>2
    <2>4. /\ c \in ChunkRecords /\ c.cap = serial[1].cap /\ c.pos = Aligned(AllocatorSize)
          /\ serial[1].cap \in Nat /\ serial[1].pos \in Nat
      BY <2>2, <2>3 DEF ChunkRecords
    <2>5. /\ serial[1].pos <= serial[1].cap /\ serial[1].pos >= Aligned(AllocatorSize)
          /\ NextCap(serial[1].cap)
      <3>1. 1 \in 1..Len(serial)
        BY <2>3
      <3>. QED
        BY <2>3, <3>1 DEF SerialOK, ChunksOK
    <2>. HIDE DEF c
    <2>6. c.pos <= c.cap /\ c.pos >= Aligned(AllocatorSize) /\ NextCap(c.cap)
      BY <2>2, <2>4, <2>5
    <2>7. SerialOK(<<c>>, {}, 0)
      BY <2>4, <2>6, OneChunk
    <2>. QED
      BY <2>1, <2>7
  <1>6. CASE serial_allocator_destroy
    BY <1>6, NoSerial DEF serial_allocator_destroy
  <1>. QED
    BY <1>1, <1>2, <1>3, <1>4, <1>5, <1>6 DEF SerialNext

(* The inductive invariant of the memory.                                  *)
MemInv ==
  /\ BuffersOK(block, freeList)
  /\ HeadersOK(block, shrunk, trampled)
  /\ SerialOK(serial, pieces, asked)
  /\ PackOK(pack, packed)

(* It holds when nothing has been allocated.                               *)
LEMMA MemInvInit == MemPoolsInit => MemInv
  <1>. SUFFICES ASSUME MemPoolsInit PROVE MemInv
    OBVIOUS
  <1>1. BuffersOK(block, freeList)
    <2>1. /\ block = [b \in Blocks |-> NoBlock] /\ freeList = [c \in Classes |-> <<>>]
      BY DEF MemPoolsInit
    <2>2. NoBlock.at # "user"
      BY DEF NoBlock
    <2>3. freeList \in [Classes -> Seq(Blocks)] /\ \A c \in Classes : Len(freeList[c]) = 0
      BY <2>1
    <2>4. block \in [Blocks -> {NoBlock} \cup BlockRecords] /\ \A b \in Blocks : block[b].at # "user"
      BY <2>1, <2>2
    <2>5. OnceListed(freeList)
      BY <2>3 DEF OnceListed
    <2>. QED
      BY <2>3, <2>4, <2>5 DEF BuffersOK
  <1>2. SerialOK(serial, pieces, asked)
    BY NoSerial DEF MemPoolsInit
  <1>4. HeadersOK(block, shrunk, trampled)
    BY DEF MemPoolsInit, HeadersOK, Headed, NoBlock
  <1>3. PackOK(pack, packed)
    BY FreshPack DEF MemPoolsInit
  <1>. QED
    BY <1>1, <1>2, <1>3, <1>4 DEF MemInv

(* Every step of the buffers and the allocators keeps it.                  *)
LEMMA MemInvNext ==
  ASSUME MemInv, [BuffersNext \/ SerialNext \/ PackNext]_mpVars
  PROVE  MemInv'
  <1>0. /\ BuffersOK(block, freeList) /\ HeadersOK(block, shrunk, trampled)
        /\ SerialOK(serial, pieces, asked) /\ PackOK(pack, packed)
    BY DEF MemInv
  <1>1. CASE BuffersNext
    <2>1. /\ serial' = serial /\ pieces' = pieces /\ asked' = asked /\ pack' = pack /\ packed' = packed
      BY <1>1 DEF BuffersNext, ci_buffer_alloc2, ReallocInPlace, ReallocMoves, ci_buffer_free, ci_buffers_destroy
    <2>2. BuffersOK(block', freeList') /\ HeadersOK(block', shrunk', trampled')
      BY <1>0, <1>1, BuffersStep, HeadersStep
    <2>. QED
      BY <1>0, <2>1, <2>2 DEF MemInv
  <1>2. CASE SerialNext
    <2>1. UNCHANGED bufVars /\ pack' = pack /\ packed' = packed
      BY <1>2 DEF SerialNext, CreateSerial, AskSerial, SerialGives, SerialGrows, serial_allocator_reset,
                  serial_allocator_destroy
    <2>2. SerialOK(serial', pieces', asked')
      BY <1>0, <1>2, SerialStep
    <2>. QED
      BY <1>0, <2>1, <2>2 DEF MemInv, bufVars
  <1>3. CASE PackNext
    <2>1. UNCHANGED bufVars /\ serial' = serial /\ pieces' = pieces /\ asked' = asked
      BY <1>3 DEF PackNext, ci_pack_allocator_alloc, ci_pack_allocator_alloc_from_rear,
                  ci_pack_allocator_set_pos, ci_pack_allocator_reset
    <2>2. PackOK(pack', packed')
      BY <1>0, <1>3, PackStep
    <2>. QED
      BY <1>0, <2>1, <2>2 DEF MemInv, bufVars
  <1>4. CASE UNCHANGED mpVars
    BY <1>0, <1>4 DEF mpVars, bufVars, MemInv
  <1>. QED
    BY <1>1, <1>2, <1>3, <1>4

(* It says that memory has one owner.                                      *)
LEMMA MemInvOwn == MemInv => MemoryIsOwn
  <1>. SUFFICES ASSUME MemInv PROVE MemoryIsOwn
    OBVIOUS
  <1>0. BuffersOK(block, freeList) /\ SerialOK(serial, pieces, asked) /\ PackOK(pack, packed)
    BY DEF MemInv
  <1>1. BlocksFit
    <2>1. \A c \in Classes : DOMAIN freeList[c] = 1..Len(freeList[c])
      BY <1>0 DEF BuffersOK
    <2>2. \A b \in Existing : block[b].at = "user" => /\ block[b].phys >= ci_buffer_real_size(block[b].ID)
                                                      /\ block[b].phys >= block[b].ID
      BY <1>0 DEF Existing, BuffersOK
    <2>3. \A c \in Classes : \A i \in DOMAIN freeList[c] :
            block[freeList[c][i]].at = "pool" /\ block[freeList[c][i]].phys >= c
      BY <1>0, <2>1 DEF BuffersOK
    <2>4. OnceListed(freeList)
      BY <1>0 DEF BuffersOK
    <2>5. \A c \in Classes : \A i \in DOMAIN freeList[c] : \A d \in Classes : \A j \in DOMAIN freeList[d] :
            freeList[c][i] = freeList[d][j] => c = d /\ i = j
      BY <2>1, <2>4 DEF OnceListed
    <2>6. HeadersOK(block, shrunk, trampled)
      BY DEF MemInv
    <2>7. shrunk \in BOOLEAN /\ trampled \in BOOLEAN /\ (trampled => shrunk)
      BY <2>6 DEF HeadersOK
    <2>8. \A b \in Existing : block[b].at = "user" => (~block[b].heap => PoolOf(block[b].ID) # 0)
      <3>. SUFFICES ASSUME NEW b \in Existing, block[b].at = "user", ~block[b].heap
                    PROVE  PoolOf(block[b].ID) # 0
        OBVIOUS
      <3>1. b \in Blocks /\ Headed(block[b], shrunk, trampled)
        BY <2>6 DEF HeadersOK, Existing
      <3>2. block[b] \in BlockRecords
        BY <1>0, <3>1 DEF BuffersOK, NoBlock
      <3>3. block[b].heap = FALSE
        BY <3>2 DEF BlockRecords
      <3>. QED
        BY <3>1, <3>3 DEF Headed
    <2>9. ASSUME NEW c \in Classes, NEW i \in DOMAIN freeList[c], ~trampled
          PROVE  ~block[freeList[c][i]].heap
      <3>. DEFINE b == freeList[c][i]
      <3>1. b \in Blocks /\ block[b].at = "pool"
        BY <1>0, <2>1, <2>3 DEF BuffersOK
      <3>. HIDE DEF b
      <3>2. Headed(block[b], shrunk, trampled)
        BY <2>6, <3>1 DEF HeadersOK
      <3>. QED
        BY <2>7, <2>9, <3>1, <3>2 DEF Headed, b
    <2>. QED
      BY <2>2, <2>3, <2>5, <2>7, <2>8, <2>9 DEF BlocksFit
  <1>2. PiecesDisjoint
    <2>0. ChunksOK(serial) /\ CutFrom(serial, pieces) /\ ChunksFew(serial, pieces, asked)
      BY <1>0 DEF SerialOK
    <2>1. ASSUME NEW x \in pieces
          PROVE  /\ x.to <= serial[x.chunk].cap
                 /\ x.chunk = 1 => x.from >= Aligned(AllocatorSize)
      <3>. DEFINE c == serial[x.chunk]
      <3>1. x.chunk \in 1..Len(serial) /\ x.to <= c.pos /\ x.to \in Nat
        BY <2>0 DEF CutFrom, PieceRecords
      <3>2. c \in ChunkRecords /\ c.pos <= c.cap
        BY <2>0, <3>1 DEF ChunksOK
      <3>. HIDE DEF c
      <3>3. c.pos \in Nat /\ c.cap \in Nat
        BY <3>2 DEF ChunkRecords
      <3>4. x.to <= c.cap
        BY <3>1, <3>2, <3>3
      <3>5. x.chunk = 1 => x.from >= Aligned(AllocatorSize)
        BY <2>0 DEF CutFrom
      <3>. QED
        BY <3>4, <3>5 DEF c
    <2>2. \A x, y \in pieces : x = y \/ x.chunk # y.chunk \/ x.to <= y.from \/ y.to <= x.from
      BY <2>0 DEF CutFrom
    <2>3. \/ Len(serial) <= 1 + Cardinality(pieces) + (IF asked # 0 THEN 1 ELSE 0)
          \/ AsksForEver /\ serial[1].cap + SerialHeader > 32768
      <3>1. Cardinality(pieces) \in Nat /\ Len(serial) \in Nat
        BY <2>0, FS_CardinalityType DEF CutFrom, ChunksOK
      <3>. QED
        BY <2>0, <3>1 DEF ChunksFew, NeverHeld, AsksForEver
    <2>4. \A x \in packed : 0 <= x.from /\ x.to <= pack.end
      BY <1>0 DEF PackOK
    <2>5. \A x, y \in packed : x = y \/ x.to <= y.from \/ y.to <= x.from
      BY <1>0 DEF PackOK
    <2>. QED
      BY <2>1, <2>2, <2>3, <2>4, <2>5 DEF PiecesDisjoint
  <1>. QED
    BY <1>1, <1>2 DEF MemoryIsOwn

(* Whatever sizes are asked for, given back and asked for again, and in    *)
(* any order: as long as no block of malloc that realloc has shrunk is     *)
(* freed, a buffer is as large as it was asked to be and no block is in    *)
(* the free lists of mem.c twice, in use and free, or without a header; no *)
(* two pieces of a serial or a pack allocator overlap; and                 *)
(* serial_allocation adds at most one chunk for a request unless the first *)
(* one is a block of malloc (ci_buffer_alloc2, ci_buffer_realloc2,         *)
(* ci_buffer_free, serial_allocation, ci_pack_allocator_alloc).            *)
THEOREM MemoryOwned == MemPoolsSpec => []MemoryIsOwn
  <1>1. MemPoolsInit => MemInv
    BY MemInvInit
  <1>2. MemInv /\ [BuffersNext \/ SerialNext \/ PackNext]_mpVars => MemInv'
    BY MemInvNext
  <1>3. MemInv => MemoryIsOwn
    BY MemInvOwn
  <1>. QED
    BY <1>1, <1>2, <1>3, PTL DEF MemPoolsSpec
=============================================================================
