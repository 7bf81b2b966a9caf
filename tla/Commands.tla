------------------------------ MODULE Commands ------------------------------
(***************************************************************************)
(* The commands of one process (commands.c): their registration, the queue *)
(* of commands scheduled for a time, and the main loop that runs the ones  *)
(* that are due.  Requests come from any thread and from the actions       *)
(* themselves; a request first searches the queue, without the lock, for   *)
(* an equal one, then pushes itself under COMMANDS_MTX.  The queue is the  *)
(* linked list of array.c, whose removed nodes lead into its trash; both   *)
(* lists are the sequences of their nodes.                                 *)
(***************************************************************************)
EXTENDS Naturals, FiniteSets, Sequences

CONSTANTS
  CmdNames,       \* names of commands
  CmdTypes,       \* types of the scheduled commands
  LoopType,       \* the type that the loop of this process runs
  CmdThreads,     \* threads that schedule
  QueueNodes,     \* bound: nodes of the queue
  CmdMaxTime,     \* bound: time
  MaxPushed,      \* bound: requests put into the queue since the last reset
  NoNode, NoCmd

ASSUME CommandsAssumption ==
  /\ LoopType \in CmdTypes /\ QueueNodes \in Nat \ {0} /\ CmdMaxTime \in Nat
  /\ NoNode \notin 1..QueueNodes

CONSTANT MainThread     \* the thread of the loop, which runs the actions
ASSUME MainThreadAssumption == MainThread \notin CmdThreads

VARIABLES
  registered,     \* COMMANDS_LIST: the type of each name, or NoCmd
  cmdQueue, trash, \* the nodes of the list COMMANDS_QUEUE and of its trash
  sched,          \* the schedule_data of each node
  usedNodes,
  now,
  caller,         \* thread -> [req, at]: a search in ci_command_schedule_on
  loop,           \* [pc, cursor, it, tm] of commands_exec_scheduled
  pushed, ran     \* ghosts: how often each request was queued and executed

cmdVars == <<registered, cmdQueue, trash, sched, usedNodes, now, caller, loop, pushed, ran>>

Requests == [name : CmdNames, when : 0..CmdMaxTime]
QNodes == 1..QueueNodes
NoRequest == [req |-> NoCmd, at |-> NoNode]
LoopIdle == [pc |-> "idle", cursor |-> NoNode, it |-> NoNode, tm |-> 0]
None == [r \in Requests |-> 0]
CallerThreads == CmdThreads \cup {MainThread}

CommandsInit ==
  /\ registered = [n \in CmdNames |-> NoCmd]
  /\ cmdQueue = <<>> /\ trash = <<>> /\ usedNodes = 0 /\ sched = [n \in QNodes |-> NoCmd]
  /\ now = 0 /\ loop = LoopIdle
  /\ caller = [t \in CallerThreads |-> NoRequest]
  /\ pushed = None /\ ran = None

queueVars == <<cmdQueue, trash, sched, usedNodes>>

Nodes(l) == {l[i] : i \in DOMAIN l}
First(l) == IF l = <<>> THEN NoNode ELSE l[1]
(* it->next of a node, which a removed one has in the trash                *)
NextOf(n) ==
  LET l == IF n \in Nodes(cmdQueue) THEN cmdQueue ELSE trash
      i == CHOOSE i \in DOMAIN l : l[i] = n
  IN  IF i = Len(l) THEN NoNode ELSE l[i + 1]
Without(l, k) == [i \in 1 .. Len(l) - 1 |-> IF i < k THEN l[i] ELSE l[i + 1]]

(* register_command_extend: the latest registration of a name is found     *)
(* first.                                                                  *)
register_command(name, type) ==
  /\ loop.pc = "idle" /\ registered[name] # type
  /\ registered' = [registered EXCEPT ![name] = type]
  /\ UNCHANGED <<queueVars, now, caller, loop, pushed, ran>>

(* commands_reset at a reconfiguration, in the loop's thread.              *)
commands_reset ==
  /\ loop.pc = "idle" /\ \A t \in CallerThreads : caller[t] = NoRequest
  /\ registered' = [n \in CmdNames |-> NoCmd]
  /\ cmdQueue' = <<>> /\ trash' = <<>> /\ usedNodes' = 0 /\ sched' = [n \in QNodes |-> NoCmd]
  /\ pushed' = None /\ ran' = None
  /\ UNCHANGED <<now, caller, loop>>

(***************************************************************************)
(* ci_command_schedule_on                                                  *)
(***************************************************************************)
Schedule(t, r) ==
  /\ caller[t] = NoRequest
  /\ t = MainThread => loop.pc = "action"
  /\ caller' = [caller EXCEPT ![t] = [req |-> r, at |-> First(cmdQueue)]]
  /\ UNCHANGED <<registered, queueVars, now, loop, pushed, ran>>

(* Each step of ci_list_search looks at one node; the node may have been   *)
(* removed, or used again, since the step before.                          *)
SearchStep(t) ==
  LET c == caller[t] IN
  /\ c.req # NoCmd /\ c.at # NoNode
  /\ caller' = IF sched[c.at] = c.req THEN [caller EXCEPT ![t] = NoRequest]
               ELSE [caller EXCEPT ![t].at = NextOf(c.at)]
  /\ UNCHANGED <<registered, queueVars, now, loop, pushed, ran>>

(* ci_list_push, under the lock.                                           *)
PushRequest(t) ==
  LET c == caller[t]
      n == IF trash # <<>> THEN trash[1] ELSE usedNodes + 1
  IN  /\ c.req # NoCmd /\ c.at = NoNode /\ n \in QNodes
      /\ trash' = IF trash # <<>> THEN Tail(trash) ELSE trash
      /\ usedNodes' = IF trash # <<>> THEN usedNodes ELSE usedNodes + 1
      /\ sched' = [sched EXCEPT ![n] = c.req]
      /\ cmdQueue' = <<n>> \o cmdQueue
      /\ caller' = [caller EXCEPT ![t] = NoRequest]
      /\ pushed' = [pushed EXCEPT ![c.req] = @ + 1]
      /\ UNCHANGED <<registered, now, loop, ran>>

(***************************************************************************)
(* commands_exec_scheduled                                                 *)
(***************************************************************************)
LoopStarts ==
  /\ loop.pc = "idle"
  /\ loop' = [pc |-> "visit", cursor |-> First(cmdQueue), it |-> NoNode, tm |-> now]
  /\ UNCHANGED <<registered, queueVars, now, caller, pushed, ran>>

Due(n) == sched[n].when <= loop.tm /\ registered[sched[n].name] = LoopType

(* cb_check_queue calls the action of an entry that is due; ci_list_iterate*)
(* has moved the cursor on before.                                         *)
cb_check_queue ==
  /\ loop.pc = "visit"
  /\ LET n == loop.cursor IN
       IF n = NoNode
       THEN loop' = LoopIdle /\ UNCHANGED ran
       ELSE IF Due(n)
       THEN /\ loop' = [loop EXCEPT !.pc = "action", !.cursor = NextOf(n), !.it = n]
            /\ ran' = [ran EXCEPT ![sched[n]] = @ + 1]
       ELSE /\ loop' = [loop EXCEPT !.cursor = NextOf(n)]
            /\ UNCHANGED ran
  /\ UNCHANGED <<registered, queueVars, now, caller, pushed>>

(* When the action has returned, ci_list_remove takes the first equal      *)
(* entry out, under the lock; the cursor moves off a removed node.         *)
FirstEqual(r) ==
  CHOOSE k \in DOMAIN cmdQueue : sched[cmdQueue[k]] = r /\ \A j \in 1 .. k - 1 : sched[cmdQueue[j]] # r

(* Mutant: an entry stays in the queue when its action has run.            *)
RemoveExecuted_Stays ==
  /\ loop.pc = "action" /\ caller[MainThread] = NoRequest
  /\ loop' = [loop EXCEPT !.pc = "visit", !.it = NoNode]
  /\ UNCHANGED <<registered, queueVars, now, caller, pushed, ran>>

RemoveExecuted ==
  /\ loop.pc = "action" /\ caller[MainThread] = NoRequest
  /\ LET k == FirstEqual(sched[loop.it])
         n == cmdQueue[k]
     IN  /\ cmdQueue' = Without(cmdQueue, k) /\ trash' = <<n>> \o trash
         /\ loop' = [loop EXCEPT !.pc = "visit", !.it = NoNode,
                                 !.cursor = IF @ = n THEN NextOf(n) ELSE @]
  /\ UNCHANGED <<registered, sched, usedNodes, now, caller, pushed, ran>>

CmdTick ==
  /\ now < CmdMaxTime
  /\ now' = now + 1
  /\ UNCHANGED <<registered, queueVars, caller, loop, pushed, ran>>

CommandsNext ==
  \/ \E n \in CmdNames, type \in CmdTypes : register_command(n, type)
  \/ commands_reset
  \/ \E t \in CallerThreads :
       \/ \E r \in Requests : /\ r.when >= now /\ pushed[r] < MaxPushed
                              /\ Schedule(t, r)
       \/ SearchStep(t) \/ PushRequest(t)
  \/ LoopStarts \/ cb_check_queue \/ RemoveExecuted
  \/ CmdTick

CommandsSpec == CommandsInit /\ [][CommandsNext]_cmdVars

(***************************************************************************)
(* Properties                                                              *)
(***************************************************************************)
(* Every request that has been put into the queue is executed once, or is  *)
(* still in the queue: none is lost, forgotten by the cursor's walk or     *)
(* executed again, while other threads push and actions schedule           *)
(* (ci_command_schedule_on, cb_check_queue).                               *)
RequestsRunOnce ==
  \A r \in Requests :
    LET waiting == Cardinality({n \in Nodes(cmdQueue) : sched[n] = r})
        running == IF loop.pc = "action" /\ sched[loop.it] = r THEN 1 ELSE 0
    IN  ran[r] + waiting - running = pushed[r]
=============================================================================
