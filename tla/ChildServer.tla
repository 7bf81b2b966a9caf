---------------------------- MODULE ChildServer ----------------------------
(***************************************************************************)
(* One c-icap child process (mpmt_server.c, proc_threads_queues.c): the    *)
(* listener thread, which accepts connections under the inter-process      *)
(* accept mutex and puts them on the connections queue; the worker         *)
(* threads, which take them from the queue and serve ICAP requests; the    *)
(* main thread, which starts them and takes them down; and the SIGTERM     *)
(* protocol with the monitor process (father_said / to_be_killed).         *)
(*                                                                         *)
(* Every step between two accesses to state that another thread or process *)
(* may change is an action of its own.  What a request does on the wire    *)
(* is left to module IcapRequest: here process_request serves a request    *)
(* and may clear req->keepalive, or reads nothing at all.                  *)
(***************************************************************************)
EXTENDS Integers, Sequences, FiniteSets

CONSTANTS
  Workers,         \* the worker threads (CI_CONF.THREADS_PER_CHILD of them)
  Conns,           \* the client connections that may arrive
  NoConn,          \* no connection
  MAX_KEEPALIVE_REQUESTS, \* configuration; 0 or less is "no limit"
  MaxRequests,     \* bound: requests a client sends on one connection
  ShutdownTimeout, \* CHILD_SHUTDOWN_TIMEOUT, in rounds of cancel_all_threads
  OtherChildren,   \* do other children compete for the accept mutex
  Spurious,        \* may a condition variable wake up spuriously (POSIX: yes)
  Failures         \* may accept/poll/lock/unlock/pipe calls fail

ASSUME ChildAssumption ==
  /\ IsFiniteSet(Workers) /\ Workers # {}
  /\ NoConn \notin Conns
  /\ MAX_KEEPALIVE_REQUESTS \in Int
  /\ MaxRequests \in Nat
  /\ ShutdownTimeout \in Nat
  /\ OtherChildren \in BOOLEAN /\ Spurious \in BOOLEAN /\ Failures \in BOOLEAN

(* enum KILL_MODE                                                          *)
NO_KILL == 0
GRACEFULLY == 1
IMMEDIATELY == 2
KillModes == {NO_KILL, GRACEFULLY, IMMEDIATELY}

(* child_data->servers, and the size child_main gives init_queue           *)
servers == Cardinality(Workers)
warn_size == 2 * servers

VARIABLES
  net,              \* state of each connection: idle, backlog, accepted, closed
  queue,            \* con_queue->connections; con_queue->used is its length
  to_be_killed,     \* child_data->to_be_killed
  father_said,      \* child_data->father_said, written by the monitor
  sigterm,          \* a SIGTERM is pending for this process
  father_kill,      \* the monitor has set father_said and is about to kill()
  usedservers,      \* child_data->usedservers (atomic counter)
  idle,             \* child_data->idle
  accept_mutex,     \* holder of the inter-process mutex: free, self, other,
                    \* or "left" locked by this child, whose unlock failed
  listener_running,
  jobs_in_queue,    \* the listener's local of that name
  lpc, lcon,        \* listener: control point, connection just accepted
  wpc, wcon,        \* workers: control point, connection in current_req
  keepalive,        \* workers: current_req->keepalive
  keepalive_reqs,   \* workers: local of that name
  mpc,              \* main thread: control point
  CHILD_HALT,
  wait_for_workers, \* cancel_all_threads' local of that name
  reaped            \* workers joined and released by cancel_all_threads

netVars == <<net, queue, lcon, wcon>>
fatherVars == <<father_said, sigterm, father_kill>>
listenerVars == <<lpc, jobs_in_queue, listener_running, idle, accept_mutex>>
workerVars == <<wpc, keepalive, keepalive_reqs, usedservers>>
mainVars == <<mpc, CHILD_HALT, wait_for_workers, reaped>>
vars == <<netVars, fatherVars, listenerVars, workerVars, mainVars, to_be_killed>>

(* Control points at which the listener holds the accept mutex.            *)
AcceptPcs == {"poll", "accept", "put", "putsignal", "after", "unlock",
              "fails", "failunlock"}
ListenerPcs == AcceptPcs \cup
  {"start", "startwait", "top", "lock", "check", "enterwait", "waitfree",
   "failsunlocked", "exited"}
(* Control points between the increment and the decrement of usedservers.  *)
ServingPcs == {"loop", "process", "served", "keepalive", "close", "sub"}
WorkerPcs == ServingPcs \cup
  {"top", "get", "empty", "enterwait", "blocked", "take", "signal", "exited"}
MainPcs == {"spawn", "father", "waitlistener", "run", "setgraceful", "cancel",
            "join", "broadcast", "reap", "reapsleep", "stopped", "exited"}

Init ==
  /\ net = [c \in Conns |-> "idle"]
  /\ queue = <<>>
  /\ to_be_killed = NO_KILL
  /\ father_said = NO_KILL
  /\ sigterm = FALSE
  /\ father_kill = FALSE
  /\ usedservers = 0
  /\ idle = 1
  /\ accept_mutex \in {"free", "other"}
  /\ listener_running = FALSE
  /\ jobs_in_queue = 0
  /\ lpc = "start" /\ lcon = NoConn
  /\ wpc = [w \in Workers |-> "top"]
  /\ wcon = [w \in Workers |-> NoConn]
  /\ keepalive = [w \in Workers |-> TRUE]
  /\ keepalive_reqs = [w \in Workers |-> 0]
  /\ mpc = "spawn"
  /\ CHILD_HALT = FALSE
  /\ wait_for_workers = ShutdownTimeout
  /\ reaped = {}

(***************************************************************************)
(* Worker threads: thread_main                                             *)
(***************************************************************************)
Worker(w, from, to) == wpc[w] = from /\ wpc' = [wpc EXCEPT ![w] = to]

(* Top of the for loop: an immediate shutdown ends the thread.             *)
WorkerTop(w) ==
  /\ Worker(w, "top", IF to_be_killed = IMMEDIATELY THEN "exited" ELSE "get")
  /\ UNCHANGED <<netVars, fatherVars, listenerVars, mainVars, to_be_killed,
                 keepalive, keepalive_reqs, usedservers>>

(* get_from_queue, under queue_mtx                                         *)
get_from_queue(w) ==
  /\ IF queue = <<>>
     THEN /\ Worker(w, "get", "empty")
          /\ UNCHANGED <<queue, wcon>>
     ELSE /\ Worker(w, "get", "take")
          /\ wcon' = [wcon EXCEPT ![w] = Head(queue)]
          /\ queue' = Tail(queue)
  /\ UNCHANGED <<net, lcon, fatherVars, listenerVars, mainVars, to_be_killed,
                 keepalive, keepalive_reqs, usedservers>>

(* The queue was empty: leave if the child is going down, else wait.       *)
WorkerEmpty(w) ==
  /\ Worker(w, "empty", IF to_be_killed # NO_KILL THEN "exited" ELSE "enterwait")
  /\ UNCHANGED <<netVars, fatherVars, listenerVars, mainVars, to_be_killed,
                 keepalive, keepalive_reqs, usedservers>>

(* wait_for_queue: it takes cond_mtx, which put_to_queue never holds, and
   blocks without looking at the queue again. *)
wait_for_queue(w) ==
  /\ Worker(w, "enterwait", "blocked")
  /\ UNCHANGED <<netVars, fatherVars, listenerVars, mainVars, to_be_killed,
                 keepalive, keepalive_reqs, usedservers>>

(* get_from_queue or wait_for_queue cannot take its mutex: the thread ends   *)
WorkerFatal(w) ==
  /\ Failures
  /\ wpc[w] \in {"get", "enterwait"}
  /\ wpc' = [wpc EXCEPT ![w] = "exited"]
  /\ UNCHANGED <<netVars, fatherVars, listenerVars, mainVars, to_be_killed,
                 keepalive, keepalive_reqs, usedservers>>

SpuriousWakeup(w) ==
  /\ Spurious
  /\ Worker(w, "blocked", "top")
  /\ UNCHANGED <<netVars, fatherVars, listenerVars, mainVars, to_be_killed,
                 keepalive, keepalive_reqs, usedservers>>

(* Mutant: a denied client is never counted, but released all the same     *)
server_request_use_connection_Late(w, allowed) ==
  /\ Worker(w, "take", IF allowed THEN "loop" ELSE "sub")
  /\ usedservers' = IF allowed THEN usedservers + 1 ELSE usedservers
  /\ keepalive' = [keepalive EXCEPT ![w] = TRUE]
  /\ keepalive_reqs' = [keepalive_reqs EXCEPT ![w] = 0]
  /\ net' = IF allowed THEN net ELSE [net EXCEPT ![wcon[w]] = "closed"]
  /\ wcon' = IF allowed THEN wcon ELSE [wcon EXCEPT ![w] = NoConn]
  /\ UNCHANGED <<queue, lcon, fatherVars, listenerVars, mainVars, to_be_killed>>

(* Count the worker as used and attach the connection to current_req;
   access_check_client may deny it, and then it is closed at once. *)
server_request_use_connection(w, allowed) ==
  /\ Worker(w, "take", IF allowed THEN "loop" ELSE "sub")
  /\ usedservers' = usedservers + 1
  /\ IF allowed
     THEN /\ keepalive' = [keepalive EXCEPT ![w] = TRUE]
          /\ keepalive_reqs' = [keepalive_reqs EXCEPT ![w] = 0]
          /\ UNCHANGED <<net, wcon>>
     ELSE /\ net' = [net EXCEPT ![wcon[w]] = "closed"]
          /\ wcon' = [wcon EXCEPT ![w] = NoConn]
          /\ UNCHANGED <<keepalive, keepalive_reqs>>
  /\ UNCHANGED <<queue, lcon, fatherVars, listenerVars, mainVars, to_be_killed>>

(* Top of the keep-alive loop: is this the last request of the connection? *)
KeepaliveLoop(w) ==
  /\ Worker(w, "loop", "process")
  /\ keepalive' =
       [keepalive EXCEPT ![w] =
          @ /\ ~ \/ /\ MAX_KEEPALIVE_REQUESTS > 0
                    /\ keepalive_reqs[w] >= MAX_KEEPALIVE_REQUESTS
                 \/ to_be_killed # NO_KILL]
  /\ UNCHANGED <<netVars, fatherVars, listenerVars, mainVars, to_be_killed,
                 keepalive_reqs, usedservers>>

(* process_request read nothing: hard close, ci_request_reset, leave the   *)
(* loop                                                                    *)
process_request_no_status(w) ==
  /\ Worker(w, "process", "close")
  /\ net' = [net EXCEPT ![wcon[w]] = "closed"]
  /\ wcon' = [wcon EXCEPT ![w] = NoConn]
  /\ keepalive' = [keepalive EXCEPT ![w] = TRUE]
  /\ UNCHANGED <<queue, lcon, fatherVars, listenerVars, mainVars, to_be_killed,
                 keepalive_reqs, usedservers>>

(* process_request served (or failed) a request; it may clear keepalive.
   child_data->requests, which only the monitor reads, is in module Monitor. *)
process_request(w, close) ==
  /\ Worker(w, "process", "served")
  /\ keepalive' = [keepalive EXCEPT ![w] = @ /\ ~close]
  /\ keepalive_reqs' = [keepalive_reqs EXCEPT ![w] = @ + 1]
  /\ UNCHANGED <<netVars, fatherVars, listenerVars, mainVars, to_be_killed,
                 usedservers>>

(* Leave the keep-alive loop, or keep the promise made to the client       *)
KeepaliveDecision(w) ==
  /\ Worker(w, "served",
            IF to_be_killed = IMMEDIATELY \/ ~keepalive[w]
            THEN "close" ELSE "keepalive")
  /\ UNCHANGED <<netVars, fatherVars, listenerVars, mainVars, to_be_killed,
                 keepalive, keepalive_reqs, usedservers>>

(* keepalive_request: wait for the next request of the connection; CHILD_HALT,
   a timeout or a closed connection end it.  ci_request_reset restores the
   keep-alive default. *)
keepalive_request(w, more) ==
  /\ more => ~CHILD_HALT /\ keepalive_reqs[w] < MaxRequests
  /\ Worker(w, "keepalive", IF more THEN "loop" ELSE "close")
  /\ keepalive' = [keepalive EXCEPT ![w] = TRUE]
  /\ UNCHANGED <<netVars, fatherVars, listenerVars, mainVars, to_be_killed,
                 keepalive_reqs, usedservers>>

(* Hard or lingering close of the connection, if process_request_no_status
   has not closed it already *)
CloseConnection(w) ==
  /\ Worker(w, "close", "sub")
  /\ IF wcon[w] # NoConn
     THEN /\ net' = [net EXCEPT ![wcon[w]] = "closed"]
          /\ wcon' = [wcon EXCEPT ![w] = NoConn]
     ELSE UNCHANGED <<net, wcon>>
  /\ UNCHANGED <<queue, lcon, fatherVars, listenerVars, mainVars, to_be_killed,
                 keepalive, keepalive_reqs, usedservers>>

(* end_of_main_loop_thread: no more used ... (the next connection sets keepalive
   and keepalive_reqs again before they are read) *)
ReleaseServer(w) ==
  /\ Worker(w, "sub", "signal")
  /\ usedservers' = usedservers - 1
  /\ keepalive' = [keepalive EXCEPT ![w] = TRUE]
  /\ keepalive_reqs' = [keepalive_reqs EXCEPT ![w] = 0]
  /\ UNCHANGED <<netVars, fatherVars, listenerVars, mainVars, to_be_killed>>

(* The listener blocks on free_server_cond at these two points only.       *)
WakeListener == lpc' = IF lpc \in {"startwait", "waitfree"} THEN "top" ELSE lpc

(* Mutants: wait for the queue without looking at it; forget the listener  *)
SignalFreeServer_Waits(w) ==
  /\ Worker(w, "signal", "enterwait")
  /\ WakeListener
  /\ UNCHANGED <<netVars, fatherVars, mainVars, to_be_killed, keepalive,
                 keepalive_reqs, usedservers,
                 jobs_in_queue, listener_running, idle, accept_mutex>>

SignalFreeServer_Silent(w) ==
  /\ Worker(w, "signal", "top")
  /\ UNCHANGED <<netVars, fatherVars, mainVars, to_be_killed, keepalive,
                 keepalive_reqs, usedservers, listenerVars>>

(* ... and tell the listener, without holding free_server_mtx              *)
SignalFreeServer(w) ==
  /\ Worker(w, "signal", "top")
  /\ WakeListener
  /\ UNCHANGED <<netVars, fatherVars, mainVars, to_be_killed, keepalive,
                 keepalive_reqs, usedservers,
                 jobs_in_queue, listener_running, idle, accept_mutex>>

thread_main(w) ==
  \/ WorkerTop(w) \/ get_from_queue(w) \/ WorkerEmpty(w) \/ wait_for_queue(w)
  \/ \E allowed \in BOOLEAN : server_request_use_connection(w, allowed)
  \/ KeepaliveLoop(w)
  \/ process_request_no_status(w)
  \/ \E close \in BOOLEAN : process_request(w, close)
  \/ KeepaliveDecision(w)
  \/ \E more \in BOOLEAN : keepalive_request(w, more)
  \/ CloseConnection(w) \/ ReleaseServer(w) \/ SignalFreeServer(w)

(***************************************************************************)
(* The listener thread: listener_thread                                    *)
(***************************************************************************)
Listener(from, to) == lpc = from /\ lpc' = to

(* Announce itself and wait, under free_server_mtx, for the main thread.   *)
ListenerStart ==
  /\ Listener("start", "startwait")
  /\ listener_running' = TRUE
  /\ UNCHANGED <<netVars, fatherVars, workerVars, mainVars, to_be_killed,
                 jobs_in_queue, idle, accept_mutex>>

ListenerSpuriousWakeup ==
  /\ Spurious
  /\ lpc \in {"startwait", "waitfree"}
  /\ lpc' = "top"
  /\ UNCHANGED <<netVars, fatherVars, workerVars, mainVars, to_be_killed,
                 jobs_in_queue, listener_running, idle, accept_mutex>>

ListenerTop ==
  /\ Listener("top", IF to_be_killed # NO_KILL THEN "failsunlocked" ELSE "lock")
  /\ UNCHANGED <<netVars, fatherVars, workerVars, mainVars, to_be_killed,
                 jobs_in_queue, listener_running, idle, accept_mutex>>

(* ci_proc_mutex_lock(&accept_mutex), then child_data->idle = 0            *)
ListenerLock ==
  /\ accept_mutex = "free"
  /\ Listener("lock", "poll")
  /\ accept_mutex' = "self"
  /\ idle' = 0
  /\ UNCHANGED <<netVars, fatherVars, workerVars, mainVars, to_be_killed,
                 jobs_in_queue, listener_running>>

(* poll() reports a connection to accept                                   *)
ListenerPoll ==
  /\ \E c \in Conns : net[c] = "backlog"
  /\ Listener("poll", "accept")
  /\ UNCHANGED <<netVars, fatherVars, workerVars, mainVars, to_be_killed,
                 jobs_in_queue, listener_running, idle, accept_mutex>>

(* icap_accept_raw_connection returns a connection                         *)
ListenerAccept(c) ==
  /\ net[c] = "backlog"
  /\ Listener("accept", "put")
  /\ net' = [net EXCEPT ![c] = "accepted"]
  /\ lcon' = c
  /\ UNCHANGED <<queue, wcon, fatherVars, workerVars, mainVars, to_be_killed,
                 jobs_in_queue, listener_running, idle, accept_mutex>>

(* Mutant: leaves through LISTENER_FAILS_UNLOCKED                          *)
ListenerAcceptAborted_Unlocked(c) ==
  /\ Failures
  /\ net[c] = "backlog"
  /\ Listener("accept", IF to_be_killed # NO_KILL THEN "failsunlocked" ELSE "after")
  /\ net' = [net EXCEPT ![c] = "closed"]
  /\ UNCHANGED <<queue, lcon, wcon, fatherVars, workerVars, mainVars,
                 to_be_killed, jobs_in_queue, listener_running, idle,
                 accept_mutex>>

(* ... or the client has given up (ret = -1): go on after the port loop, or to
   LISTENER_FAILS when the child is going down *)
ListenerAcceptAborted(c) ==
  /\ Failures
  /\ net[c] = "backlog"
  /\ Listener("accept", IF to_be_killed # NO_KILL THEN "fails" ELSE "after")
  /\ net' = [net EXCEPT ![c] = "closed"]
  /\ UNCHANGED <<queue, lcon, wcon, fatherVars, workerVars, mainVars,
                 to_be_killed, jobs_in_queue, listener_running, idle,
                 accept_mutex>>

(* Mutants: a connection that does not fit stays open; the connection is reset
   before it is copied to the queue *)
put_to_queue_NoClose ==
  /\ IF Len(queue) = warn_size
     THEN Listener("put", "after") /\ jobs_in_queue' = 0 /\ UNCHANGED queue
     ELSE /\ Listener("put", "putsignal")
          /\ jobs_in_queue' = 1
          /\ queue' = Append(queue, lcon)
  /\ lcon' = NoConn
  /\ UNCHANGED <<net, wcon, fatherVars, workerVars, mainVars, to_be_killed,
                 listener_running, idle, accept_mutex>>

put_to_queue_Reset ==
  /\ Listener("put", "putsignal")
  /\ jobs_in_queue' = 1
  /\ queue' = Append(queue, NoConn)
  /\ lcon' = NoConn
  /\ UNCHANGED <<net, wcon, fatherVars, workerVars, mainVars, to_be_killed,
                 listener_running, idle, accept_mutex>>

(* put_to_queue, under queue_mtx; a connection that does not fit is closed *)
put_to_queue ==
  /\ IF Len(queue) = warn_size
     THEN /\ Listener("put", "after")
          /\ jobs_in_queue' = 0
          /\ net' = [net EXCEPT ![lcon] = "closed"]
          /\ UNCHANGED queue
     ELSE /\ Listener("put", "putsignal")
          /\ jobs_in_queue' = 1
          /\ queue' = Append(queue, lcon)
          /\ UNCHANGED net
  /\ lcon' = NoConn
  /\ UNCHANGED <<wcon, fatherVars, workerVars, mainVars, to_be_killed,
                 listener_running, idle, accept_mutex>>

Blocked == {w \in Workers : wpc[w] = "blocked"}

(* ci_thread_cond_signal(&q->queue_cond), after queue_mtx is released      *)
SignalQueue ==
  /\ Listener("putsignal", "after")
  /\ IF Blocked = {}
     THEN UNCHANGED wpc
     ELSE \E w \in Blocked : wpc' = [wpc EXCEPT ![w] = "top"]
  /\ UNCHANGED <<netVars, fatherVars, keepalive, keepalive_reqs, usedservers,
                 mainVars, to_be_killed, jobs_in_queue,
                 listener_running, idle, accept_mutex>>

(* After the port loop: go down, accept more while haschild, or stop       *)
haschild == servers - usedservers - jobs_in_queue > 0

ListenerAfter ==
  /\ Listener("after", IF to_be_killed # NO_KILL THEN "fails"
                       ELSE IF haschild THEN "poll" ELSE "unlock")
  /\ idle' = IF to_be_killed = NO_KILL /\ ~haschild THEN 1 ELSE idle
  /\ UNCHANGED <<netVars, fatherVars, workerVars, mainVars, to_be_killed,
                 jobs_in_queue, listener_running, accept_mutex>>

ListenerUnlock ==
  /\ Listener("unlock", "check")
  /\ accept_mutex' = "free"
  /\ UNCHANGED <<netVars, fatherVars, workerVars, mainVars, to_be_killed,
                 jobs_in_queue, listener_running, idle>>

(* Wait for a free worker?  connections_pending reads q->used with no      *)
(* lock.                                                                   *)
ListenerCheck ==
  /\ Listener("check", IF servers - usedservers - Len(queue) <= 0
                       THEN "enterwait" ELSE "top")
  /\ UNCHANGED <<netVars, fatherVars, workerVars, mainVars, to_be_killed,
                 jobs_in_queue, listener_running, idle, accept_mutex>>

(* ci_thread_cond_wait(&free_server_cond): nothing is looked at again      *)
ListenerWait ==
  /\ Listener("enterwait", "waitfree")
  /\ UNCHANGED <<netVars, fatherVars, workerVars, mainVars, to_be_killed,
                 jobs_in_queue, listener_running, idle, accept_mutex>>

(* LISTENER_FAILS_UNLOCKED                                                 *)
ListenerFailsUnlocked ==
  /\ Listener("failsunlocked", "exited")
  /\ listener_running' = FALSE
  /\ UNCHANGED <<netVars, fatherVars, workerVars, mainVars, to_be_killed,
                 jobs_in_queue, idle, accept_mutex>>

(* LISTENER_FAILS: listener_running is cleared before the mutex is         *)
(* released                                                                *)
ListenerFails ==
  /\ Listener("fails", "failunlock")
  /\ listener_running' = FALSE
  /\ UNCHANGED <<netVars, fatherVars, workerVars, mainVars, to_be_killed,
                 jobs_in_queue, idle, accept_mutex>>

ListenerFailUnlock ==
  /\ Listener("failunlock", "exited")
  /\ accept_mutex' = "free"
  /\ UNCHANGED <<netVars, fatherVars, workerVars, mainVars, to_be_killed,
                 jobs_in_queue, listener_running, idle>>

(* ci_proc_mutex_unlock fails for good, in the loop or after LISTENER_FAILS: the
   listener ends and leaves the mutex locked *)
ListenerUnlockFails ==
  /\ Failures
  /\ \/ Listener("unlock", "failsunlocked")
     \/ Listener("failunlock", "exited")
  /\ accept_mutex' = "left"
  /\ UNCHANGED <<netVars, fatherVars, workerVars, mainVars, to_be_killed,
                 jobs_in_queue, listener_running, idle>>

(* poll, accept or lock fails for good                                     *)
ListenerError ==
  /\ Failures
  /\ lpc \in {"lock", "poll", "accept"}
  /\ lpc' = IF lpc = "lock" THEN "failsunlocked" ELSE "fails"
  /\ UNCHANGED <<netVars, fatherVars, workerVars, mainVars, to_be_killed,
                 jobs_in_queue, listener_running, idle, accept_mutex>>

listener_thread ==
  \/ ListenerStart \/ ListenerTop \/ ListenerLock \/ ListenerPoll
  \/ \E c \in Conns : ListenerAccept(c)
  \/ put_to_queue \/ SignalQueue \/ ListenerAfter \/ ListenerUnlock
  \/ ListenerCheck \/ ListenerWait
  \/ ListenerFailsUnlocked \/ ListenerFails \/ ListenerFailUnlock

(***************************************************************************)
(* The main thread: child_main and cancel_all_threads                      *)
(***************************************************************************)
Main(from, to) == mpc = from /\ mpc' = to

(* child_signals: until here SIGTERM is ignored                            *)
MainInstallSignals ==
  /\ Main("spawn", "father")
  /\ UNCHANGED <<netVars, fatherVars, listenerVars, workerVars, to_be_killed,
                 CHILD_HALT, wait_for_workers, reaped>>

(* Mutant: does not ask what the monitor said while the signal was ignored *)
MainCheckFather_Skips ==
  /\ Main("father", "waitlistener")
  /\ UNCHANGED <<netVars, fatherVars, listenerVars, workerVars, to_be_killed,
                 CHILD_HALT, wait_for_workers, reaped>>

(* What the monitor said while SIGTERM was ignored; start-child commands   *)
MainCheckFather ==
  /\ Main("father", "waitlistener")
  /\ to_be_killed' = IF father_said # NO_KILL THEN IMMEDIATELY ELSE to_be_killed
  /\ UNCHANGED <<netVars, fatherVars, listenerVars, workerVars,
                 CHILD_HALT, wait_for_workers, reaped>>

(* The listener is up: signal it to start accepting requests               *)
MainStartListener ==
  /\ listener_running
  /\ Main("waitlistener", "run")
  /\ WakeListener
  /\ UNCHANGED <<netVars, fatherVars, workerVars, to_be_killed, CHILD_HALT,
                 wait_for_workers, reaped, jobs_in_queue, listener_running,
                 idle, accept_mutex>>

(* The command pipe fails or the monitor has closed it                     *)
MainPipeClosed ==
  /\ Failures
  /\ mpc = "run"
  /\ to_be_killed' = IMMEDIATELY
  /\ UNCHANGED <<netVars, fatherVars, listenerVars, workerVars, mainVars>>

(* if (!listener_running && !to_be_killed) ...                             *)
MainListenerDied ==
  /\ ~listener_running /\ to_be_killed = NO_KILL
  /\ Main("run", "setgraceful")
  /\ UNCHANGED <<netVars, fatherVars, listenerVars, workerVars, to_be_killed,
                 CHILD_HALT, wait_for_workers, reaped>>

(* ... to_be_killed = GRACEFULLY, whatever a signal has stored meanwhile   *)
MainSetGraceful ==
  /\ Main("setgraceful", "run")
  /\ to_be_killed' = GRACEFULLY
  /\ UNCHANGED <<netVars, fatherVars, listenerVars, workerVars,
                 CHILD_HALT, wait_for_workers, reaped>>

MainLeaveLoop ==
  /\ to_be_killed # NO_KILL
  /\ Main("run", "cancel")
  /\ UNCHANGED <<netVars, fatherVars, listenerVars, workerVars, to_be_killed,
                 CHILD_HALT, wait_for_workers, reaped>>

(* pthread_kill(listener, SIGHUP) interrupts poll and accept;
   ci_thread_cond_signal(&free_server_cond) ends the waits *)
MainInterruptListener ==
  /\ mpc = "cancel" /\ listener_running
  /\ lpc \in {"poll", "accept", "startwait", "waitfree"}
  /\ lpc' = IF lpc \in {"poll", "accept"} THEN "fails" ELSE "top"
  /\ UNCHANGED <<netVars, fatherVars, workerVars, mainVars, to_be_killed,
                 jobs_in_queue, listener_running, idle, accept_mutex>>

(* Whether the signal also interrupts ci_proc_mutex_lock depends on the kind of
   inter-process mutex: a System V semaphore yes, a pthread mutex no *)
MainInterruptLock ==
  /\ mpc = "cancel" /\ listener_running
  /\ Listener("lock", "top")
  /\ UNCHANGED <<netVars, fatherVars, workerVars, mainVars, to_be_killed,
                 jobs_in_queue, listener_running, idle, accept_mutex>>

MainListenerGone ==
  /\ ~listener_running
  /\ Main("cancel", "join")
  /\ UNCHANGED <<netVars, fatherVars, listenerVars, workerVars, to_be_killed,
                 CHILD_HALT, wait_for_workers, reaped>>

(* wait_listener_time is over and the listener still runs: go on without   *)
(* it                                                                      *)
MainGiveUpListener ==
  /\ listener_running
  /\ Main("cancel", "broadcast")
  /\ UNCHANGED <<netVars, fatherVars, listenerVars, workerVars, to_be_killed,
                 CHILD_HALT, wait_for_workers, reaped>>

MainJoinListener ==
  /\ lpc = "exited"
  /\ Main("join", "broadcast")
  /\ UNCHANGED <<netVars, fatherVars, listenerVars, workerVars, to_be_killed,
                 CHILD_HALT, wait_for_workers, reaped>>

(* ci_thread_cond_broadcast(&con_queue->queue_cond), once                  *)
MainBroadcast ==
  /\ Main("broadcast", "reap")
  /\ wpc' = [w \in Workers |-> IF wpc[w] = "blocked" THEN "top" ELSE wpc[w]]
  /\ UNCHANGED <<netVars, fatherVars, listenerVars, keepalive, keepalive_reqs,
                 usedservers, to_be_killed, CHILD_HALT,
                 wait_for_workers, reaped>>

(* Mutant: takes a worker without a connection for an ended one            *)
MainReap_Idle ==
  /\ reaped # Workers /\ wait_for_workers >= 0
  /\ Main("reap", "reapsleep")
  /\ reaped' = {w \in Workers : wcon[w] = NoConn}
  /\ UNCHANGED <<netVars, fatherVars, listenerVars, workerVars,
                 to_be_killed, wait_for_workers, CHILD_HALT>>

(* One round: join the workers that have ended; near the end of an immediate
   shutdown send SIGTERM to the others *)
MainReap ==
  /\ reaped # Workers /\ wait_for_workers >= 0
  /\ Main("reap", "reapsleep")
  /\ CHILD_HALT' = (CHILD_HALT \/ to_be_killed = IMMEDIATELY)
  /\ reaped' = {w \in Workers : wpc[w] = "exited"}
  /\ sigterm' = \/ sigterm
                \/ /\ to_be_killed = IMMEDIATELY /\ wait_for_workers <= 2
                   /\ \E w \in Workers : wpc[w] # "exited"
  /\ UNCHANGED <<netVars, father_said, father_kill, listenerVars, workerVars,
                 to_be_killed, wait_for_workers>>

(* Mutant: the timeout of an immediate shutdown is never consumed          *)
MainReapSleep_NoTimeout ==
  /\ Main("reapsleep", "reap")
  /\ UNCHANGED <<netVars, fatherVars, listenerVars, workerVars, to_be_killed,
                 CHILD_HALT, reaped, wait_for_workers>>

(* ... sleep a second; only an immediate shutdown consumes the timeout     *)
MainReapSleep ==
  /\ Main("reapsleep", "reap")
  /\ wait_for_workers' =
       wait_for_workers - (IF to_be_killed = IMMEDIATELY THEN 1 ELSE 0)
  /\ UNCHANGED <<netVars, fatherVars, listenerVars, workerVars, to_be_killed,
                 CHILD_HALT, reaped>>

MainReapEnd ==
  /\ reaped = Workers \/ wait_for_workers < 0
  /\ Main("reap", "stopped")
  /\ UNCHANGED <<netVars, fatherVars, listenerVars, workerVars, to_be_killed,
                 CHILD_HALT, wait_for_workers, reaped>>

(* commands_execute_stop_child, exit_normaly, exit: whatever thread is left
   ends with the process, whose sockets and mutexes the system takes back *)
MainExit ==
  /\ Main("stopped", "exited")
  /\ net' = [c \in Conns |-> IF net[c] = "accepted" THEN "closed" ELSE net[c]]
  /\ queue' = <<>> /\ lcon' = NoConn /\ wcon' = [w \in Workers |-> NoConn]
  /\ wpc' = [w \in Workers |-> "exited"]
  /\ lpc' = "exited" /\ listener_running' = FALSE
  /\ accept_mutex' = IF accept_mutex \in {"self", "left"}
                      THEN "free" ELSE accept_mutex
  /\ UNCHANGED <<fatherVars, to_be_killed, idle, jobs_in_queue, keepalive,
                 keepalive_reqs, usedservers, CHILD_HALT,
                 wait_for_workers, reaped>>

child_main ==
  \/ MainInstallSignals \/ MainCheckFather \/ MainStartListener
  \/ MainListenerDied \/ MainSetGraceful \/ MainLeaveLoop
  \/ MainInterruptListener \/ MainListenerGone \/ MainJoinListener
  \/ MainBroadcast \/ MainReap \/ MainReapSleep \/ MainReapEnd \/ MainExit

(***************************************************************************)
(* SIGTERM: the handler of the child and what the monitor does             *)
(***************************************************************************)
term_handler_child ==
  /\ sigterm /\ mpc # "exited"
  /\ sigterm' = FALSE
  /\ to_be_killed' = IF mpc = "spawn" THEN to_be_killed
                     ELSE IF father_said = NO_KILL THEN IMMEDIATELY
                     ELSE father_said
  /\ UNCHANGED <<netVars, father_said, father_kill, listenerVars, workerVars,
                 mainVars>>

(* The monitor raises father_said, then sends the signal                   *)
FatherSays(mode) ==
  /\ mpc # "exited" /\ ~father_kill /\ mode > father_said
  /\ father_said' = mode
  /\ father_kill' = TRUE
  /\ UNCHANGED <<netVars, sigterm, listenerVars, workerVars, mainVars,
                 to_be_killed>>

FatherKills ==
  /\ father_kill
  /\ father_kill' = FALSE
  /\ sigterm' = TRUE
  /\ UNCHANGED <<netVars, father_said, listenerVars, workerVars, mainVars,
                 to_be_killed>>

(* send_term_to_childs repeats the signal until the child has noted it     *)
FatherInsists ==
  /\ mpc # "exited" /\ ~sigterm
  /\ father_said = IMMEDIATELY /\ to_be_killed # IMMEDIATELY
  /\ sigterm' = TRUE
  /\ UNCHANGED <<netVars, father_said, father_kill, listenerVars, workerVars,
                 mainVars, to_be_killed>>

(* somebody else sends SIGTERM to the child                                *)
StraySigterm ==
  /\ Failures /\ mpc # "exited" /\ ~sigterm
  /\ sigterm' = TRUE
  /\ UNCHANGED <<netVars, father_said, father_kill, listenerVars, workerVars,
                 mainVars, to_be_killed>>

(***************************************************************************)
(* Clients and the other children                                          *)
(***************************************************************************)
ClientConnects(c) ==
  /\ net[c] = "idle"
  /\ net' = [net EXCEPT ![c] = "backlog"]
  /\ UNCHANGED <<queue, lcon, wcon, fatherVars, listenerVars, workerVars,
                 mainVars, to_be_killed>>

OtherChildAccepts ==
  /\ OtherChildren
  /\ \/ accept_mutex = "free" /\ accept_mutex' = "other"
     \/ accept_mutex = "other" /\ accept_mutex' = "free"
  /\ UNCHANGED <<netVars, fatherVars, workerVars, mainVars, to_be_killed, lpc,
                 jobs_in_queue, listener_running, idle>>

Next ==
  \/ \E w \in Workers : thread_main(w) \/ SpuriousWakeup(w) \/ WorkerFatal(w)
  \/ listener_thread \/ ListenerSpuriousWakeup \/ ListenerError
  \/ ListenerUnlockFails
  \/ \E c \in Conns : ListenerAcceptAborted(c)
  \/ child_main \/ MainPipeClosed \/ MainGiveUpListener \/ MainInterruptLock
  \/ term_handler_child
  \/ \E mode \in {GRACEFULLY, IMMEDIATELY} : FatherSays(mode)
  \/ FatherKills \/ FatherInsists \/ StraySigterm
  \/ \E c \in Conns : ClientConnects(c)
  \/ OtherChildAccepts

Spec == Init /\ [][Next]_vars

(* Threads run, requests and waits for a client end (TIMEOUT and
   KEEPALIVE_TIMEOUT), the main thread's wait for the listener is bounded,
   pending signals are delivered, and the monitor completes what it began.  No
   client connects and the accept mutex is not handed over by fairness. *)
Fairness ==
  /\ \A w \in Workers : WF_vars(thread_main(w))
  /\ WF_vars(listener_thread)
  /\ WF_vars(child_main) /\ WF_vars(MainGiveUpListener)
  /\ WF_vars(term_handler_child)
  /\ WF_vars(FatherKills) /\ WF_vars(FatherInsists)

FairSpec == Spec /\ Fairness

(***************************************************************************)
(* Properties                                                              *)
(***************************************************************************)
(* Flags, counters and control points have the types of the code; queue, lcon
   and wcon hold connections only. *)
TypeOK ==
  /\ net \in [Conns -> {"idle", "backlog", "accepted", "closed"}]
  /\ queue \in Seq(Conns)
  /\ to_be_killed \in KillModes /\ father_said \in KillModes
  /\ sigterm \in BOOLEAN /\ father_kill \in BOOLEAN
  /\ usedservers \in Int
  /\ idle \in {0, 1}
  /\ accept_mutex \in {"free", "self", "other", "left"}
  /\ listener_running \in BOOLEAN
  /\ jobs_in_queue \in {0, 1}
  /\ lpc \in ListenerPcs /\ lcon \in Conns \cup {NoConn}
  /\ wpc \in [Workers -> WorkerPcs]
  /\ wcon \in [Workers -> Conns \cup {NoConn}]
  /\ keepalive \in [Workers -> BOOLEAN]
  /\ keepalive_reqs \in [Workers -> Nat]
  /\ mpc \in MainPcs
  /\ CHILD_HALT \in BOOLEAN
  /\ wait_for_workers \in Int
  /\ reaped \in SUBSET Workers

(* Every connection the child has accepted and not closed is held by exactly
   one of the listener, the queue and a worker: none is served twice, closed
   under a worker or forgotten (put_to_queue, get_from_queue, thread_main). *)
ConnOwnedOnce ==
  /\ \A c \in Conns :
       net[c] = "accepted" <=> \/ lcon = c
                               \/ \E i \in 1..Len(queue) : queue[i] = c
                               \/ \E w \in Workers : wcon[w] = c
  /\ \A i, j \in 1..Len(queue) : queue[i] = queue[j] => i = j
  /\ \A v, w \in Workers : wcon[v] = wcon[w] /\ wcon[v] # NoConn => v = w
  /\ \A i \in 1..Len(queue) : \A w \in Workers : queue[i] # wcon[w]
  /\ \A i \in 1..Len(queue) : queue[i] # lcon
  /\ \A w \in Workers : lcon # NoConn => lcon # wcon[w]

(* child_data->usedservers, which the listener and the monitor act on, is the
   number of workers between the atomic increment and the atomic decrement of
   thread_main, on every path through the loop (denied client, nothing read,
   error, keep-alive): it never drifts. *)
UsedServersExact ==
  mpc # "exited" =>
    usedservers = Cardinality({w \in Workers : wpc[w] \in ServingPcs})

(* The accept mutex is held by this child exactly while its listener is between
   lock and unlock, on the paths where poll, accept or the lock fail too.  A
   failing ci_proc_mutex_unlock is the one thing that leaves it locked: then
   the listener is ending or has ended and accepts nothing any more, and the
   mutex is taken back with the process at the latest.  A child whose idle flag
   is set (find_an_idle_child may choose it to be stopped) is not accepting. *)
AcceptMutexHeld ==
  /\ lpc \in AcceptPcs <=> accept_mutex = "self"
  /\ accept_mutex = "left" => /\ lpc \in {"failsunlocked", "exited"}
                              /\ mpc # "exited"
  /\ idle = 1 => lpc \notin AcceptPcs \ {"unlock"}

(* When cancel_all_threads ends before its timeout, every worker has finished
   the request and the connection it was serving. *)
WorkersJoined ==
  mpc = "stopped" /\ wait_for_workers >= 0 =>
    \A w \in Workers : wpc[w] = "exited" /\ wcon[w] = NoConn

(* What the monitor says is heard, even when its SIGTERM arrives while the
   starting child ignores the signal (child_main checks father_said after
   child_signals). *)
FatherHeard == father_said # NO_KILL ~> to_be_killed # NO_KILL

(* A child told to stop immediately ends, whatever its workers are doing.  *)
ImmediateStops == father_said = IMMEDIATELY ~> mpc = "exited"

(* A queued connection does not wait for ever while some worker is awake
   before its next look at the queue, whatever wakeups were lost. *)
QueueDrains ==
  \A c \in Conns :
    (/\ \E i \in 1..Len(queue) : queue[i] = c
     /\ \E w \in Workers : wpc[w] \in ServingPcs \cup {"signal", "top", "get"})
    ~> ~ \E i \in 1..Len(queue) : queue[i] = c

(* A listener that waits for a free worker is woken when one becomes free. *)
ListenerWoken ==
  lpc = "waitfree" /\ usedservers > 0 ~> lpc # "waitfree"

(***************************************************************************)
(* What comments and documentation say and the code does not do            *)
(***************************************************************************)
(* "We are going to interupt the waiting for queue childs" (cancel_all_threads):
   a child told to stop gracefully ends.  The one broadcast reaches no worker
   that has found the queue empty but does not wait yet. *)
GracefulStops == father_said # NO_KILL ~> mpc = "exited"
=============================================================================
