------------------------------ MODULE LdapPool -------------------------------
(***************************************************************************)
(* The lookup tables of the LDAP module (modules/ldap_module.c): pools of  *)
(* connections that a configuration names or a table makes, the search     *)
(* with its cache and its retries, and the command that closes idle        *)
(* connections.  What a pool's mutex encloses is one step; the wait on its *)
(* condition, the signal, the bind, the query and the unbind are others.   *)
(* A connection is numbered when it is made.  A time is in units of ttl.   *)
(***************************************************************************)
EXTENDS Naturals, Integers, Sequences, FiniteSets, SequencesExt

CONSTANTS
  LdapThreads,    \* threads that search
  LdapUris,       \* records server, user
  NoUser,         \* the user of a uri that has none, a NULL
  LdapKeys,       \* keys that are searched for
  Directory,      \* key -> the row it has in the directory, or NoRow
  NoRow,
  MaxTries,       \* ldap_table_search tries so often
  Limits,         \* values of max-connections
  MaxPools,       \* bound: lines that name a pool or a table
  MaxConns,       \* bound: connections made
  LdapMaxTime     \* bound: time

ASSUME LdapAssumption ==
  /\ IsFiniteSet(LdapThreads) /\ Limits \subseteq Nat
  /\ MaxTries \in Nat /\ MaxPools \in Nat /\ MaxConns \in Nat /\ LdapMaxTime \in Nat

VARIABLES
  ldapPhase,      \* "reading", "running", "crashed"
  ldap_pools,     \* sequence of records
  ldapTables,     \* sequence of the pools of the tables
  ldapCache,      \* table -> key -> what is cached, or "nothing"
  bound,          \* connections that are bound
  nextConn,       \* number of the next connection
  ldapTime,
  conn_to_free,   \* ldap_conn_to_free, while the command runs
  ld,             \* thread -> what it does
  missed          \* pools that have made room, or got an idle connection, that nobody was told of

ldapConfVars == <<ldapPhase, ldapTables>>
ldapVars == <<ldapConfVars, ldap_pools, ldapCache, bound, nextConn, ldapTime, conn_to_free, ld, missed>>

LdapIdle == [pc |-> "idle"]

LdapInit ==
  /\ ldapPhase = "reading" /\ ldap_pools = <<>> /\ ldapTables = <<>> /\ ldapCache = <<>>
  /\ bound = {} /\ nextConn = 1 /\ ldapTime = 0 /\ conn_to_free = {}
  /\ ld = [w \in LdapThreads |-> LdapIdle] /\ missed = {}

(***************************************************************************)
(* The configuration                                                       *)
(***************************************************************************)
(* search_ldap_pools compares the strings of a uri with those of a pool;   *)
(* a user that is NULL is compared once the server is the same.            *)
search_ldap_pools(uri) == {i \in DOMAIN ldap_pools : ldap_pools[i].uri = uri}
ComparesNull(uri) == uri.user = NoUser /\ \E i \in DOMAIN ldap_pools : ldap_pools[i].uri.server = uri.server

(* ldap_pool_create                                                        *)
ldap_pool_create(uri, max) ==
  Append(ldap_pools, [uri |-> uri, max_connections |-> max, connections |-> 0, ontheway |-> 0,
                      inactive |-> <<>>, used |-> {}])

LdapLine ==
  /\ ldapPhase = "reading" /\ Len(ldap_pools) + Len(ldapTables) < MaxPools
  /\ UNCHANGED <<bound, nextConn, ldapTime, conn_to_free, ld, missed>>

NullCrash(uri) == ComparesNull(uri) /\ ldapPhase' = "crashed" /\ UNCHANGED <<ldap_pools, ldapTables, ldapCache>>

(* A line ConnectionsPool: a pool that exists gets the limit.              *)
ldap_connections_pool_configure(uri, max) ==
  /\ LdapLine
  /\ \/ NullCrash(uri)
     \/ /\ ~ComparesNull(uri)
        /\ ldap_pools' = IF search_ldap_pools(uri) = {} THEN ldap_pool_create(uri, max)
                         ELSE [i \in DOMAIN ldap_pools |->
                                 IF i \in search_ldap_pools(uri) THEN [ldap_pools[i] EXCEPT !.max_connections = max]
                                 ELSE ldap_pools[i]]
        /\ UNCHANGED <<ldapConfVars, ldapCache>>

(* ldap_open: a table has the pool of its uri, without a limit if there is *)
(* none yet.                                                               *)
ldap_table_open(uri) ==
  /\ LdapLine
  /\ \/ NullCrash(uri)
     \/ /\ ~ComparesNull(uri)
        /\ ldap_pools' = IF search_ldap_pools(uri) = {} THEN ldap_pool_create(uri, 0) ELSE ldap_pools
        /\ ldapTables' = Append(ldapTables, CHOOSE i \in DOMAIN ldap_pools' : ldap_pools'[i].uri = uri)
        /\ ldapCache' = Append(ldapCache, [k \in LdapKeys |-> "nothing"])
        /\ UNCHANGED ldapPhase

LdapStart ==
  /\ ldapPhase = "reading" /\ ldapTables # <<>>
  /\ ldapPhase' = "running"
  /\ UNCHANGED <<ldapTables, ldap_pools, ldapCache, bound, nextConn, ldapTime, conn_to_free, ld, missed>>

(***************************************************************************)
(* A search                                                                *)
(***************************************************************************)
LdapSet(w, to) == ld' = [ld EXCEPT ![w] = to]
LdapMove(w, to) == LdapSet(w, [ld[w] EXCEPT !.pc = to])
PoolOfSearch(w) == ldapTables[ld[w].table]
LdapPoolSet(i, r) == ldap_pools' = [ldap_pools EXCEPT ![i] = r]

(* ldap_table_search answers from the cache, a negative answer too.        *)
ldap_table_search(w, t, k) ==
  /\ ldapPhase = "running" /\ ld[w].pc \in {"idle", "done"}
  /\ LdapSet(w, IF ldapCache[t][k] # "nothing" THEN [pc |-> "done", key |-> k, answer |-> ldapCache[t][k]]
                ELSE [pc |-> "get", table |-> t, key |-> k, failures |-> 0, conn |-> 0, answer |-> NoRow])
  /\ UNCHANGED <<ldapConfVars, ldap_pools, ldapCache, bound, nextConn, ldapTime, conn_to_free, missed>>

(* An entry of a cache expires.                                            *)
LdapCacheExpires(t, k) ==
  /\ ldapPhase = "running" /\ ldapCache[t][k] # "nothing"
  /\ ldapCache' = [ldapCache EXCEPT ![t][k] = "nothing"]
  /\ UNCHANGED <<ldapConfVars, ldap_pools, bound, nextConn, ldapTime, conn_to_free, ld, missed>>

Full(p) == p.max_connections > 0 /\ p.connections + p.ontheway >= p.max_connections
force_new(w) == ld[w].failures > 1

(* ldap_connection_get, up to the wait or to the new connection: the loop  *)
(* takes an idle connection, except for a new one, or waits while there is *)
(* no room.  A thread that wakes looks for room before it looks for an     *)
(* idle connection.                                                        *)
ldap_connection_get(w) ==
  /\ ld[w].pc \in {"get", "woken"}
  /\ LET i == PoolOfSearch(w)
         p == ldap_pools[i]
         again == ld[w].pc = "get" \/ Full(p)
     IN  \/ /\ again /\ ~force_new(w) /\ p.inactive # <<>>
            /\ LdapPoolSet(i, [p EXCEPT !.inactive = Tail(@), !.used = @ \cup {Head(p.inactive).conn}])
            /\ LdapSet(w, [ld[w] EXCEPT !.pc = "query", !.conn = Head(p.inactive).conn])
            /\ UNCHANGED missed
         \/ /\ again /\ (force_new(w) \/ p.inactive = <<>>) /\ Full(p)
            /\ LdapMove(w, "wait")
            /\ missed' = IF ld[w].pc = "woken" /\ p.inactive # <<>> THEN missed \cup {i} ELSE missed
            /\ UNCHANGED ldap_pools
         \/ /\ again => force_new(w) \/ p.inactive = <<>>
            /\ ~Full(p)
            /\ LdapPoolSet(i, [p EXCEPT !.ontheway = @ + 1])
            /\ LdapMove(w, "bind")
            /\ UNCHANGED missed
  /\ UNCHANGED <<ldapConfVars, ldapCache, bound, nextConn, ldapTime, conn_to_free>>

(* ldap_connection_new binds, or fails: the server is down, or another     *)
(* error, which is fatal.                                                  *)
ldap_connection_new(w) ==
  /\ ld[w].pc = "bind"
  /\ \/ /\ nextConn <= MaxConns
        /\ bound' = bound \cup {nextConn} /\ nextConn' = nextConn + 1
        /\ LdapSet(w, [ld[w] EXCEPT !.pc = "bound", !.conn = nextConn])
     \/ \E fatal \in BOOLEAN : LdapSet(w, [ld[w] EXCEPT !.pc = IF fatal THEN "unboundfatal" ELSE "unbound"])
                               /\ UNCHANGED <<bound, nextConn>>
  /\ UNCHANGED <<ldapConfVars, ldap_pools, ldapCache, ldapTime, conn_to_free, missed>>

(* One more try, or the end: MaxTries tries, or a fatal error.  Nothing is *)
(* cached then, and nobody is told that a connection on the way has failed.*)
Retried(s, fatal) ==
  IF fatal \/ s.failures + 1 >= MaxTries THEN [pc |-> "done", key |-> s.key, answer |-> "failed"]
  ELSE [s EXCEPT !.pc = "get", !.failures = @ + 1, !.conn = 0]

(* Mutant: the place of a connection that could not be made stays taken.   *)
ldap_connection_got_Keeps(w) ==
  /\ ld[w].pc \in {"bound", "unbound", "unboundfatal"}
  /\ LET i == PoolOfSearch(w)
         p == ldap_pools[i]
     IN  IF ld[w].pc = "bound"
         THEN /\ LdapPoolSet(i, [p EXCEPT !.ontheway = @ - 1, !.connections = @ + 1, !.used = @ \cup {ld[w].conn}])
              /\ LdapMove(w, "query")
              /\ UNCHANGED missed
         ELSE /\ LdapSet(w, Retried(ld[w], ld[w].pc = "unboundfatal"))
              /\ UNCHANGED <<ldap_pools, missed>>
  /\ UNCHANGED <<ldapConfVars, ldapCache, bound, nextConn, ldapTime, conn_to_free>>

(* The end of ldap_connection_get, after the bind.                         *)
ldap_connection_got(w) ==
  /\ ld[w].pc \in {"bound", "unbound", "unboundfatal"}
  /\ LET i == PoolOfSearch(w)
         p == ldap_pools[i]
     IN  IF ld[w].pc = "bound"
         THEN /\ LdapPoolSet(i, [p EXCEPT !.ontheway = @ - 1, !.connections = @ + 1, !.used = @ \cup {ld[w].conn}])
              /\ LdapMove(w, "query")
              /\ UNCHANGED missed
         ELSE /\ LdapPoolSet(i, [p EXCEPT !.ontheway = @ - 1])
              /\ LdapSet(w, Retried(ld[w], ld[w].pc = "unboundfatal"))
              /\ missed' = missed \cup {i}
  /\ UNCHANGED <<ldapConfVars, ldapCache, bound, nextConn, ldapTime, conn_to_free>>

(* ldap_search_ext_s answers, or fails like the bind.                      *)
Query(w) ==
  /\ ld[w].pc = "query"
  /\ \/ LdapSet(w, [ld[w] EXCEPT !.pc = "release", !.answer = Directory[ld[w].key]])
     \/ \E to \in {"close", "closefatal"} : LdapMove(w, to)
  /\ UNCHANGED <<ldapConfVars, ldap_pools, ldapCache, bound, nextConn, ldapTime, conn_to_free, missed>>

AfterRelease == [release |-> "signalrelease", close |-> "signalclose", closefatal |-> "signalclosefatal"]

(* ldap_connection_release, under the mutex: the connection leaves the     *)
(* used ones, for the end of the idle ones or for ever.                    *)
ldap_connection_release(w) ==
  /\ ld[w].pc \in {"release", "close", "closefatal"}
  /\ LET i == PoolOfSearch(w)
         p == ldap_pools[i]
         out == [p EXCEPT !.used = @ \ {ld[w].conn}]
     IN  LdapPoolSet(i, IF ld[w].pc # "release" THEN [out EXCEPT !.connections = @ - 1]
                        ELSE [out EXCEPT !.inactive = Append(@, [conn |-> ld[w].conn, last_use |-> ldapTime])])
  /\ LdapMove(w, AfterRelease[ld[w].pc])
  /\ UNCHANGED <<ldapConfVars, ldapCache, bound, nextConn, ldapTime, conn_to_free, missed>>

(* ... and after it: the signal, for one that waits, then the unbind; the  *)
(* search caches what it got, or tries again.                              *)
ReleaseSignal(w) ==
  /\ ld[w].pc \in {"signalrelease", "signalclose", "signalclosefatal"}
  /\ LET i == PoolOfSearch(w)
         sleepers == {v \in LdapThreads : ld[v].pc = "wait" /\ PoolOfSearch(v) = i}
         mine == CASE ld[w].pc = "signalrelease" -> [pc |-> "done", key |-> ld[w].key, answer |-> ld[w].answer]
                   [] ld[w].pc = "signalclose" -> Retried(ld[w], FALSE)
                   [] ld[w].pc = "signalclosefatal" -> Retried(ld[w], TRUE)
     IN  IF ldap_pools[i].max_connections > 0 /\ sleepers # {}
         THEN \E v \in sleepers : ld' = [ld EXCEPT ![w] = mine, ![v].pc = "woken"]
         ELSE LdapSet(w, mine)
  /\ bound' = IF ld[w].pc = "signalrelease" THEN bound ELSE bound \ {ld[w].conn}
  /\ ldapCache' = IF ld[w].pc = "signalrelease" THEN [ldapCache EXCEPT ![ld[w].table][ld[w].key] = ld[w].answer] ELSE ldapCache
  /\ UNCHANGED <<ldapConfVars, ldap_pools, nextConn, ldapTime, conn_to_free, missed>>

(***************************************************************************)
(* The command that closes idle connections, once a second                 *)
(***************************************************************************)
ExpiredIdle(p) == SelectInSeq(p.inactive \o <<[conn |-> 0, last_use |-> ldapTime]>>, LAMBDA c : c.last_use + 1 >= ldapTime) - 1

(* Under the mutex of a pool: from the head of the idle ones, those that   *)
(* have been idle for more than ttl.  Nobody is told.                      *)
check_ldap_pools_cmd(i) ==
  /\ ldapPhase = "running" /\ i \in DOMAIN ldap_pools /\ conn_to_free = {}
  /\ LET p == ldap_pools[i]
         n == ExpiredIdle(p)
     IN  /\ n > 0
         /\ LdapPoolSet(i, [p EXCEPT !.inactive = SubSeq(@, n + 1, Len(@)), !.connections = @ - n])
         /\ conn_to_free' = {p.inactive[j].conn : j \in 1..n}
         /\ missed' = missed \cup {i}
  /\ UNCHANGED <<ldapConfVars, ldapCache, bound, nextConn, ldapTime, ld>>

ldap_connection_list_close_all ==
  /\ conn_to_free # {}
  /\ bound' = bound \ conn_to_free /\ conn_to_free' = {}
  /\ UNCHANGED <<ldapConfVars, ldap_pools, ldapCache, nextConn, ldapTime, ld, missed>>

LdapTick ==
  /\ ldapPhase = "running" /\ ldapTime < LdapMaxTime
  /\ ldapTime' = ldapTime + 1
  /\ UNCHANGED <<ldapConfVars, ldap_pools, ldapCache, bound, nextConn, conn_to_free, ld, missed>>

LdapNext ==
  \/ \E u \in LdapUris : ldap_table_open(u) \/ \E max \in Limits : ldap_connections_pool_configure(u, max)
  \/ LdapStart \/ LdapTick \/ ldap_connection_list_close_all
  \/ \E i \in 1..MaxPools : check_ldap_pools_cmd(i)
  \/ \E t \in DOMAIN ldapTables, k \in LdapKeys : LdapCacheExpires(t, k)
  \/ \E w \in LdapThreads :
       \/ \E t \in DOMAIN ldapTables, k \in LdapKeys : ldap_table_search(w, t, k)
       \/ ldap_connection_get(w) \/ ldap_connection_new(w) \/ ldap_connection_got(w)
       \/ Query(w) \/ ldap_connection_release(w) \/ ReleaseSignal(w)

LdapSpec == LdapInit /\ [][LdapNext]_ldapVars

(***************************************************************************)
(* Properties                                                              *)
(***************************************************************************)
Using(i, c) ==
  {w \in LdapThreads : ld[w].pc \in {"query", "release", "close", "closefatal"} /\ PoolOfSearch(w) = i /\ ld[w].conn = c}
OnTheWay(i) == {w \in LdapThreads : ld[w].pc \in {"bind", "bound", "unbound", "unboundfatal"} /\ PoolOfSearch(w) = i}
Idles(p) == {p.inactive[j].conn : j \in DOMAIN p.inactive}

(* A pool counts its connections and those on the way exactly, over        *)
(* failures, retries and the closing of idle ones, and never exceeds its   *)
(* limit; each used connection has one user, no connection is both idle    *)
(* and used or of two pools, and what a thread queries, or will get, is    *)
(* bound.  A search answers what the directory has, or fails, and a        *)
(* failure is never cached as an answer.  A thread that nobody is about to *)
(* wake waits only while there is neither room nor an idle connection for  *)
(* it, except after one of the three events that tell nobody: a connection *)
(* that could not be made, idle ones closed by the command, and a signal   *)
(* that went to a thread that wants a new connection                       *)
(* (ldap_connection_get, ldap_connection_release, ldap_table_search,       *)
(* check_ldap_pools_cmd).                                                  *)
PoolsExact ==
  /\ \A i \in DOMAIN ldap_pools :
       LET p == ldap_pools[i]
       IN  /\ p.connections = Len(p.inactive) + Cardinality(p.used)
           /\ p.ontheway = Cardinality(OnTheWay(i))
           /\ p.max_connections > 0 => p.connections + p.ontheway <= p.max_connections
           /\ \A c \in p.used : Cardinality(Using(i, c)) = 1
           /\ p.used \cup Idles(p) \subseteq bound /\ p.used \cap Idles(p) = {}
           /\ \A j \in DOMAIN ldap_pools \ {i} : (p.used \cup Idles(p)) \cap (ldap_pools[j].used \cup Idles(ldap_pools[j])) = {}
  /\ \A t \in DOMAIN ldapCache, k \in LdapKeys : ldapCache[t][k] \in {"nothing", Directory[k]}
  /\ \A w \in LdapThreads :
       /\ ld[w].pc = "done" => ld[w].answer \in {"failed", Directory[ld[w].key]}
       /\ (ld[w].pc = "wait" /\ PoolOfSearch(w) \notin missed
             /\ \A v \in LdapThreads : ld[v].pc \notin {"signalrelease", "signalclose", "signalclosefatal", "woken"})
            => /\ Full(ldap_pools[PoolOfSearch(w)])
               /\ force_new(w) \/ ldap_pools[PoolOfSearch(w)].inactive = <<>>
==============================================================================
