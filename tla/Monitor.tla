------------------------------ MODULE Monitor ------------------------------
(***************************************************************************)
(* The monitor process and the life of its children (mpmt_server.c,        *)
(* proc_threads_queues.c): the loop of start_server, which forks children, *)
(* retires them and reaps them; the children queue in shared memory, where *)
(* a child registers itself and both sides leave their kill orders; the    *)
(* replacement of the queue by server_reconfigure; and kill_all_childs.    *)
(*                                                                         *)
(* A child is abstracted to what it shares with the monitor; its threads   *)
(* are in module ChildServer.  A queue is identified by its generation: a  *)
(* reconfigure creates the next one.  A child changes its usedservers and  *)
(* idle at any time and only the monitor's look at them matters here, so   *)
(* that look is a choice.  The counters of started and closed processes    *)
(* and the merge of statistics are left out.                               *)
(***************************************************************************)
EXTENDS Integers, FiniteSets

CONSTANTS
  Pids,                   \* process ids that fork may return (they are reused)
  NoPid,                  \* pid = 0, an empty slot
  MAX_SERVERS, START_SERVERS, THREADS_PER_CHILD,
  MIN_SPARE_THREADS, MAX_SPARE_THREADS,
  MAX_REQUESTS_PER_CHILD, \* configuration; 0 or less is "no limit"
  MaxReconfigures,        \* bound: successful reconfigurations
  MaxCrashes,             \* bound: children that crash
  Failures                \* may reconfiguration and listeners fail

ASSUME MonitorAssumption ==
  /\ IsFiniteSet(Pids) /\ NoPid \notin Pids
  /\ MAX_SERVERS \in Nat \ {0} /\ START_SERVERS \in 0..MAX_SERVERS
  /\ THREADS_PER_CHILD \in Nat \ {0}
  /\ MIN_SPARE_THREADS \in Nat /\ MAX_SPARE_THREADS \in Nat
  /\ MAX_REQUESTS_PER_CHILD \in Int
  /\ MaxReconfigures \in Nat /\ MaxCrashes \in Nat /\ Failures \in BOOLEAN

(* enum KILL_MODE                                                          *)
NO_KILL == 0
GRACEFULLY == 1
IMMEDIATELY == 2

(* create_childs_queue(2 * MAX_SERVERS)                                    *)
Slots == 1 .. 2 * MAX_SERVERS
Generations == 1 .. MaxReconfigures + 1

(* bound: requests a child counts, enough to pass the limit                *)
MaxRequests == IF MAX_REQUESTS_PER_CHILD > 0 THEN MAX_REQUESTS_PER_CHILD + 1 ELSE 0

VARIABLES
  childs,         \* for each generation the slots of q->childs
  cur,            \* generation of childs_queue
  old,            \* generation of old_childs_queue, or 0
  proc,           \* state of each process
  gen,            \* the queue a process has inherited in fork (1 if none)
  sigterm,        \* processes with a SIGTERM pending
  mpc,            \* the monitor's control point
  todo,           \* start_child calls left in a "for START_SERVERS" loop
  stats,          \* childs and freeservers, locals of start_server
  child_indx,     \* local of start_server; 0 is none
  exit_status,    \* local of check_for_exited_childs
  c_icap_going_to_term, c_icap_reconfigure,
  crashes,        \* children that have crashed
  crashed_childs  \* q->srv_stats->crashed_childs, of all generations

childVars == <<childs, proc, gen, sigterm>>
monVars == <<cur, old, mpc, todo, stats, child_indx, exit_status, crashed_childs>>
envVars == <<c_icap_going_to_term, c_icap_reconfigure, crashes>>
vars == <<childVars, monVars, envVars>>

(* register_child's initial values; pid = 0 marks a free slot              *)
Registered(p) ==
  [pid |-> p, requests |-> 0, to_be_killed |-> NO_KILL, father_said |-> NO_KILL]
Empty == [i \in Slots |-> Registered(NoPid)]

Used(g) == {i \in Slots : childs[g][i].pid # NoPid}
Living == {"starting", "running"}
Zombies == {p \in Pids : proc[p] \in {"exited", "crashed"}}

Init ==
  /\ childs = [g \in Generations |-> Empty]
  /\ cur = 1 /\ old = 0
  /\ proc = [p \in Pids |-> "none"]
  /\ gen = [p \in Pids |-> 1]
  /\ sigterm = {}
  /\ mpc = "start" /\ todo = START_SERVERS
  /\ stats = [childs |-> 0, freeservers |-> 0]
  /\ child_indx = 0
  /\ exit_status = 0
  /\ c_icap_going_to_term = FALSE /\ c_icap_reconfigure = FALSE
  /\ crashes = 0 /\ crashed_childs = 0

(***************************************************************************)
(* Children                                                                *)
(***************************************************************************)
Slot(p) == CHOOSE i \in Slots : childs[gen[p]][i].pid = p
Mine(p) == childs[gen[p]][Slot(p)]
SetMine(p, r) == childs' = [childs EXCEPT ![gen[p]][Slot(p)] = r]

(* Mutant: takes the first slot without looking whether it is free         *)
register_child_First(p) ==
  /\ proc[p] = "forked"
  /\ proc' = [proc EXCEPT ![p] = "starting"]
  /\ childs' = [childs EXCEPT ![gen[p]][1] = Registered(p)]
  /\ UNCHANGED <<gen, sigterm, monVars, envVars>>

(* The forked child takes the first free slot of the queue it has inherited;
   with none left it exits *)
register_child(p) ==
  /\ proc[p] = "forked"
  /\ LET free == Slots \ Used(gen[p])
     IN IF free = {}
        THEN proc' = [proc EXCEPT ![p] = "exited"] /\ UNCHANGED childs
        ELSE /\ proc' = [proc EXCEPT ![p] = "starting"]
             /\ LET i == CHOOSE j \in free : \A k \in free : j <= k
                IN childs' = [childs EXCEPT ![gen[p]][i] = Registered(p)]
  /\ UNCHANGED <<gen, sigterm, monVars, envVars>>

(* child_main: signals are handled from here; what the monitor said before *)
child_main(p) ==
  /\ proc[p] = "starting"
  /\ proc' = [proc EXCEPT ![p] = "running"]
  /\ SetMine(p, IF Mine(p).father_said # NO_KILL
                THEN [Mine(p) EXCEPT !.to_be_killed = IMMEDIATELY] ELSE Mine(p))
  /\ UNCHANGED <<gen, sigterm, monVars, envVars>>

term_handler_child(p) ==
  /\ p \in sigterm /\ proc[p] = "running"
  /\ sigterm' = sigterm \ {p}
  /\ SetMine(p, [Mine(p) EXCEPT !.to_be_killed =
                   IF Mine(p).father_said = NO_KILL THEN IMMEDIATELY
                   ELSE Mine(p).father_said])
  /\ UNCHANGED <<proc, gen, monVars, envVars>>

(* ci_atomic_add_i64(&child_data->requests, 1)                             *)
RequestServed(p) ==
  /\ proc[p] = "running" /\ Mine(p).requests < MaxRequests
  /\ SetMine(p, [Mine(p) EXCEPT !.requests = @ + 1])
  /\ UNCHANGED <<proc, gen, sigterm, monVars, envVars>>

(* The child stops without an order: its listener has died, or the monitor
   has ended and closed the command pipe *)
StopsAlone(p, mode) ==
  /\ proc[p] = "running" /\ Mine(p).to_be_killed = NO_KILL
  /\ \/ mode = GRACEFULLY /\ Failures
     \/ mode = IMMEDIATELY /\ mpc \in {"exited", "segfault"}
  /\ SetMine(p, [Mine(p) EXCEPT !.to_be_killed = mode])
  /\ UNCHANGED <<proc, gen, sigterm, monVars, envVars>>

(* cancel_all_threads is done.  A graceful order may take for ever (module
   ChildServer); an immediate one, or one that becomes immediate, does not. *)
child_exits(p, mode) ==
  /\ proc[p] = "running" /\ Mine(p).to_be_killed = mode
  /\ proc' = [proc EXCEPT ![p] = "exited"]
  /\ sigterm' = sigterm \ {p}
  /\ UNCHANGED <<childs, gen, monVars, envVars>>

ChildCrashes(p) ==
  /\ crashes < MaxCrashes /\ proc[p] \in Living
  /\ crashes' = crashes + 1
  /\ proc' = [proc EXCEPT ![p] = "crashed"]
  /\ sigterm' = sigterm \ {p}
  /\ UNCHANGED <<childs, gen, monVars, c_icap_going_to_term, c_icap_reconfigure>>

(***************************************************************************)
(* The monitor: start_server                                               *)
(***************************************************************************)
Monitor(from, to) == mpc = from /\ mpc' = to

(* kill(pid, SIGTERM): discarded by a process that ignores or has not yet
   installed the signal, and by a zombie *)
Kill(ps) == sigterm' = sigterm \cup {p \in ps : proc[p] = "running"}

(* fork, or nothing when it fails                                          *)
start_child ==
  LET free == {p \in Pids : proc[p] = "none"}
  IN IF free = {}
     THEN UNCHANGED <<proc, gen>>
     ELSE \E p \in free : /\ proc' = [proc EXCEPT ![p] = "forked"]
                          /\ gen' = [gen EXCEPT ![p] = cur]

(* for (i = 0; i < START_SERVERS; i++) start_child(), when the server starts
   and in server_reconfigure *)
StartServers ==
  /\ mpc \in {"start", "restart"}
  /\ IF todo > 0
     THEN start_child /\ todo' = todo - 1 /\ UNCHANGED mpc
     ELSE mpc' = "loop" /\ UNCHANGED <<proc, gen, todo>>
  /\ UNCHANGED <<childs, sigterm, cur, old, stats, child_indx, exit_status,
                 crashed_childs, envVars>>

(* childs_queue_stats looks at every child that is not going down          *)
Counted(g) == {i \in Used(g) : childs[g][i].to_be_killed = NO_KILL}

(* top of the loop; a stop request is looked at first.  used is the sum of the
   usedservers of the children, whatever they are at this moment. *)
childs_queue_stats(used) ==
  LET n == Cardinality(Counted(cur))
  IN /\ used <= n * THREADS_PER_CHILD
     /\ Monitor("loop", IF c_icap_going_to_term THEN "term" ELSE "decide")
     /\ stats' = IF c_icap_going_to_term THEN stats
                 ELSE [childs |-> n, freeservers |-> n * THREADS_PER_CHILD - used]
     /\ UNCHANGED <<childVars, cur, old, todo, child_indx, exit_status,
                    crashed_childs, envVars>>

(* the first of the slots with the most requests                           *)
MostRequests(is) ==
  CHOOSE i \in is : \A j \in is :
    \/ childs[cur][j].requests < childs[cur][i].requests
    \/ childs[cur][j].requests = childs[cur][i].requests /\ i <= j

(* candidates, unless the death of some child is pending                   *)
NoDeathPending == \A i \in Used(cur) : childs[cur][i].to_be_killed = NO_KILL
find_a_child_nrequests ==
  IF NoDeathPending
  THEN {i \in Used(cur) : childs[cur][i].requests > MAX_REQUESTS_PER_CHILD}
  ELSE {}
(* idles: the slots with usedservers = 0 and idle = 1 at this moment       *)
find_an_idle_child(idles) == IF NoDeathPending THEN Used(cur) \cap idles ELSE {}

(* Mutant: a server without free threads has all it needs                  *)
NeedChild_Strict ==
  stats.freeservers < MIN_SPARE_THREADS /\ stats.childs < MAX_SERVERS

MaxRequestsReached == MAX_REQUESTS_PER_CHILD > 0 /\ find_a_child_nrequests # {}
NeedChild ==
  \/ stats.freeservers <= MIN_SPARE_THREADS /\ stats.childs < MAX_SERVERS
  \/ stats.childs < START_SERVERS
SpareChild ==
  /\ stats.freeservers >= MAX_SPARE_THREADS
  /\ stats.childs > START_SERVERS
  /\ stats.freeservers - THREADS_PER_CHILD > MIN_SPARE_THREADS

(* a child has served its requests: fork its replacement ...               *)
ReplaceChild ==
  /\ MaxRequestsReached
  /\ Monitor("decide", "retire")
  /\ start_child
  /\ child_indx' = MostRequests(find_a_child_nrequests)
  /\ UNCHANGED <<childs, sigterm, cur, old, todo, stats, exit_status,
                 crashed_childs, envVars>>

(* Order the child at slot i to stop gracefully                            *)
StopChild(i) ==
  /\ childs' = [childs EXCEPT ![cur][i].father_said = GRACEFULLY]
  /\ Kill({childs[cur][i].pid})

(* ... and retire the child itself                                         *)
RetireChild ==
  /\ Monitor("retire", "decided")
  /\ StopChild(child_indx)
  /\ child_indx' = 0
  /\ UNCHANGED <<proc, gen, cur, old, todo, stats, exit_status, crashed_childs,
                 envVars>>

AddChild ==
  /\ ~MaxRequestsReached /\ NeedChild
  /\ Monitor("decide", "decided")
  /\ start_child
  /\ UNCHANGED <<childs, sigterm, cur, old, todo, stats, child_indx, exit_status,
                 crashed_childs, envVars>>

StopSpareChild(idles) ==
  /\ ~MaxRequestsReached /\ ~NeedChild /\ SpareChild
  /\ find_an_idle_child(idles) # {}
  /\ Monitor("decide", "decided")
  /\ StopChild(MostRequests(find_an_idle_child(idles)))
  /\ UNCHANGED <<proc, gen, cur, old, todo, stats, child_indx, exit_status,
                 crashed_childs, envVars>>

(* no child to add, or to stop, or none that is idle                       *)
LeaveChildren ==
  /\ ~MaxRequestsReached /\ ~NeedChild
  /\ Monitor("decide", "decided")
  /\ UNCHANGED <<childVars, cur, old, todo, stats, child_indx, exit_status,
                 crashed_childs, envVars>>

(* if (c_icap_going_to_term) break; then check_for_exited_childs begins    *)
Decided ==
  /\ Monitor("decided", IF c_icap_going_to_term THEN "term" ELSE "reap")
  /\ exit_status' = 0
  /\ stats' = [childs |-> 0, freeservers |-> 0]
  /\ UNCHANGED <<childVars, cur, old, todo, child_indx, crashed_childs, envVars>>

(* remove_child(q, pid, ...): forget the slot of a process in a generation *)
remove_child(cs, g, p) ==
  [cs EXCEPT ![g] = [i \in Slots |-> IF cs[g][i].pid = p THEN Registered(NoPid)
                                     ELSE cs[g][i]]]
Knows(g, p) == \E i \in Slots : childs[g][i].pid = p

(* Mutant: destroys the old queue with its first child                     *)
check_for_exited_childs_Destroys(p) ==
  /\ mpc = "reap" /\ p \in Zombies
  /\ LET g == IF Knows(cur, p) THEN cur ELSE old
     IN /\ childs' = IF g = 0 THEN childs ELSE remove_child(childs, g, p)
        /\ old' = IF g = old THEN 0 ELSE old
  /\ proc' = [proc EXCEPT ![p] = "none"]
  /\ gen' = [gen EXCEPT ![p] = 1]
  /\ UNCHANGED <<sigterm, cur, mpc, todo, stats, child_indx, exit_status,
                 crashed_childs, envVars>>

(* one round of the waitpid loop of check_for_exited_childs; exit_status is
   reset only before the loop *)
check_for_exited_childs(p) ==
  /\ mpc = "reap" /\ p \in Zombies
  /\ LET g == IF Knows(cur, p) THEN cur ELSE old
         known == g # 0 /\ Knows(g, p)
     IN /\ exit_status' = IF proc[p] = "crashed" THEN 1 ELSE exit_status
        /\ childs' = IF g = 0 THEN childs ELSE remove_child(childs, g, p)
        /\ crashed_childs' =
             IF known /\ exit_status' = 1 /\ crashed_childs <= MaxCrashes
             THEN crashed_childs + 1 ELSE crashed_childs
        /\ old' = IF g = old /\ old # 0 /\ \A i \in Slots : childs'[old][i].pid = NoPid
                  THEN 0 ELSE old
  /\ proc' = [proc EXCEPT ![p] = "none"]
  /\ gen' = [gen EXCEPT ![p] = 1]
  /\ UNCHANGED <<sigterm, cur, mpc, todo, stats, child_indx, envVars>>

NoMoreExited ==
  /\ Zombies = {}
  /\ Monitor("reap", "reconfigure")
  /\ UNCHANGED <<childVars, cur, old, todo, stats, child_indx, exit_status,
                 crashed_childs, envVars>>

(* if (c_icap_reconfigure) server_reconfigure(), ignored while the children
   of the last one are still there *)
NoReconfigure ==
  /\ c_icap_reconfigure => old # 0
  /\ Monitor("reconfigure", "loop")
  /\ c_icap_reconfigure' = FALSE
  /\ UNCHANGED <<childVars, cur, old, todo, stats, child_indx, exit_status,
                 crashed_childs, c_icap_going_to_term, crashes>>

(* every registered child is told to stop; a new queue takes over          *)
server_reconfigure ==
  /\ c_icap_reconfigure /\ old = 0 /\ cur <= MaxReconfigures
  /\ Monitor("reconfigure", "restart")
  /\ c_icap_reconfigure' = FALSE
  /\ childs' = [childs EXCEPT ![cur] =
                  [i \in Slots |-> IF i \in Used(cur)
                                   THEN [childs[cur][i] EXCEPT !.father_said = GRACEFULLY]
                                   ELSE childs[cur][i]]]
  /\ Kill({childs[cur][i].pid : i \in Used(cur)})
  /\ old' = cur /\ cur' = cur + 1
  /\ todo' = START_SERVERS
  /\ UNCHANGED <<proc, gen, stats, child_indx, exit_status, crashed_childs,
                 c_icap_going_to_term, crashes>>

(* system_reconfigure fails: leave the loop                                *)
ReconfigureFails ==
  /\ Failures /\ c_icap_reconfigure /\ old = 0
  /\ Monitor("reconfigure", "term")
  /\ c_icap_reconfigure' = FALSE
  /\ UNCHANGED <<childVars, cur, old, todo, stats, child_indx, exit_status,
                 crashed_childs, c_icap_going_to_term, crashes>>

(* create_childs_queue fails: childs_queue is NULL when kill_all_childs, which
   follows, hands it to send_term_to_childs *)
ReconfigureNoMemory ==
  /\ Failures /\ c_icap_reconfigure /\ old = 0
  /\ Monitor("reconfigure", "segfault")
  /\ c_icap_reconfigure' = FALSE
  /\ childs' = [childs EXCEPT ![cur] =
                  [i \in Slots |-> IF i \in Used(cur)
                                   THEN [childs[cur][i] EXCEPT !.father_said = GRACEFULLY]
                                   ELSE childs[cur][i]]]
  /\ Kill({childs[cur][i].pid : i \in Used(cur)})
  /\ UNCHANGED <<proc, gen, cur, old, todo, stats, child_indx, exit_status,
                 crashed_childs, c_icap_going_to_term, crashes>>

(***************************************************************************)
(* kill_all_childs                                                         *)
(***************************************************************************)
Queues == {cur, old} \ {0}

(* Mutant: tells only the children that are going down already             *)
ToTell_Dying(g) == {i \in Used(g) : childs[g][i].to_be_killed = GRACEFULLY}

(* children that have not noted an immediate shutdown are told again       *)
ToTell(g) == {i \in Used(g) : childs[g][i].to_be_killed # IMMEDIATELY}
send_term_to_childs ==
  /\ Monitor("term", "waitchilds")
  /\ childs' =
       [g \in Generations |->
          [i \in Slots |-> IF g \in Queues /\ i \in ToTell(g)
                           THEN [childs[g][i] EXCEPT !.father_said = IMMEDIATELY]
                           ELSE childs[g][i]]]
  /\ Kill(UNION {{childs[g][i].pid : i \in ToTell(g)} : g \in Queues})
  /\ UNCHANGED <<proc, gen, cur, old, todo, stats, child_indx, exit_status,
                 crashed_childs, envVars>>

(* 30 ms later: a child that has noted the shutdown is reaped if it has    *)
(* ended                                                                   *)
Reapable(g) ==
  {i \in Used(g) : /\ childs[g][i].to_be_killed = IMMEDIATELY
                   /\ childs[g][i].pid \in Zombies}

wait_childs_to_exit ==
  LET left == [g \in Generations |->
                 [i \in Slots |-> IF g \in Queues /\ i \in Reapable(g)
                                  THEN Registered(NoPid) ELSE childs[g][i]]]
      done == UNION {{childs[g][i].pid : i \in Reapable(g)} : g \in Queues}
      running == \E g \in Queues, i \in Slots : left[g][i].pid # NoPid
  IN /\ Monitor("waitchilds", IF running THEN "term" ELSE "exited")
     /\ childs' = left
     /\ proc' = [p \in Pids |-> IF p \in done THEN "none" ELSE proc[p]]
     /\ gen' = [p \in Pids |-> IF p \in done THEN 1 ELSE gen[p]]
     /\ old' = IF running THEN old ELSE 0
     /\ UNCHANGED <<sigterm, cur, todo, stats, child_indx, exit_status,
                    crashed_childs, envVars>>

(***************************************************************************)
(* Commands and signals to the monitor                                     *)
(***************************************************************************)
stop_command ==
  /\ ~c_icap_going_to_term
  /\ c_icap_going_to_term' = TRUE
  /\ UNCHANGED <<childVars, monVars, c_icap_reconfigure, crashes>>

reconfigure_command ==
  /\ ~c_icap_reconfigure /\ cur <= MaxReconfigures
  /\ c_icap_reconfigure' = TRUE
  /\ UNCHANGED <<childVars, monVars, c_icap_going_to_term, crashes>>

(* start_server's loop and what follows it                                 *)
start_server ==
  \/ StartServers \/ ReplaceChild \/ RetireChild \/ AddChild
  \/ \E used \in 0 .. THREADS_PER_CHILD * Cardinality(Slots) : childs_queue_stats(used)
  \/ \E idles \in SUBSET Slots : StopSpareChild(idles)
  \/ LeaveChildren \/ Decided
  \/ \E p \in Pids : check_for_exited_childs(p)
  \/ NoMoreExited \/ NoReconfigure \/ server_reconfigure
  \/ send_term_to_childs \/ wait_childs_to_exit

Child(p) ==
  \/ register_child(p) \/ child_main(p) \/ term_handler_child(p)
  \/ child_exits(p, IMMEDIATELY)
  \/ StopsAlone(p, IMMEDIATELY)

Next ==
  \/ start_server \/ ReconfigureFails \/ ReconfigureNoMemory
  \/ \E p \in Pids : \/ Child(p) \/ ChildCrashes(p) \/ RequestServed(p)
                     \/ StopsAlone(p, GRACEFULLY) \/ child_exits(p, GRACEFULLY)
  \/ stop_command \/ reconfigure_command

Spec == Init /\ [][Next]_vars

(* The monitor runs, a forked child comes up, pending signals are delivered and
   a child that goes down immediately ends (ImmediateStops of ChildServer). *)
Fairness ==
  /\ WF_vars(start_server)
  /\ \A p \in Pids : WF_vars(Child(p))

FairSpec == Spec /\ Fairness

(* ... and a child that goes down gracefully ends as well                  *)
GracefulExits == \A p \in Pids : WF_vars(child_exits(p, GRACEFULLY))

PatientSpec == FairSpec /\ GracefulExits

(***************************************************************************)
(* Properties                                                              *)
(***************************************************************************)
(* Whatever the monitor signals or waits for is its own child: a used slot of a
   queue in use names a process that has registered there and is not reaped,
   and no process has two slots, so that a pid that the system has given to
   another process is never killed.  And every child that has registered keeps
   its slot until it is reaped: the monitor loses track of no living child. *)
SlotsAreChildren ==
  /\ \A g \in Queues : \A i \in Used(g) :
       LET p == childs[g][i].pid
       IN /\ proc[p] \notin {"none", "forked"} /\ gen[p] = g
          /\ \A h \in Queues, j \in Slots : childs[h][j].pid = p => h = g /\ j = i
  /\ \A p \in Pids : proc[p] \in Living /\ gen[p] \in Queues => Knows(gen[p], p)

(* The shared memory of the old queue is destroyed by the monitor only when no
   registered child uses it any more. *)
DestroyedUnused ==
  [][old # 0 /\ old' # old /\ mpc = "reap" =>
       ~ \E p \in Pids : proc'[p] \in Living /\ gen'[p] = old]_vars

(* When the monitor has been asked to stop, every child ends, those included
   that were forked or starting when kill_all_childs went through the queue. *)
ChildrenEnd ==
  c_icap_going_to_term ~> \A p \in Pids : proc[p] \in {"none", "exited", "crashed"}

(* Crashed or retired children are replaced: the server does not stay below
   StartServers children, provided that retired children do end (those that
   do not keep their slots and process ids). *)
InService == {i \in Used(cur) : childs[cur][i].to_be_killed = NO_KILL}
ChildrenReplaced ==
  GracefulExits =>
    (Cardinality(InService) < START_SERVERS
      ~> \/ Cardinality(InService) >= START_SERVERS
         \/ c_icap_going_to_term
         \/ mpc \in {"term", "waitchilds", "exited", "segfault"})

(***************************************************************************)
(* What comments and documentation say and the code does not do            *)
(***************************************************************************)
(* "The c-icap will shutdown" (the stop command): the monitor ends.  A child
   that has ended without noting IMMEDIATELY, retired or crashed, is skipped by
   wait_childs_to_exit and keeps kill_all_childs in its loop. *)
StopEnds == c_icap_going_to_term ~> mpc = "exited"

(* "When all childs exits release the old shared mem block" (server_reconfigure):
   every reconfiguration completes.  A child forked before it that registers
   after it is told nothing, and later reconfigurations are ignored. *)
OldQueueReleased == old # 0 ~> old = 0 \/ c_icap_going_to_term
=============================================================================
