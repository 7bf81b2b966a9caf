-------------------------- MODULE ChildServerProofs --------------------------
(***************************************************************************)
(* Proofs about ChildServer, for any number of workers and connections.    *)
(***************************************************************************)
EXTENDS ChildServer, FiniteSetTheorems, SequenceTheorems, TLAPS

(* What TypeOK needs to be inductive: between accept and put_to_queue the
   listener holds a connection. *)
PutHolds == lpc = "put" => lcon # NoConn
TypeInv == TypeOK /\ PutHolds

(* A child that enters child_main satisfies the typing invariant.          *)
LEMMA InitType == Init => TypeInv
  <1>. SUFFICES ASSUME Init PROVE TypeOK /\ PutHolds
    BY DEF TypeInv
  <1>. USE ChildAssumption DEF Init, TypeOK, PutHolds, KillModes, NO_KILL, GRACEFULLY, IMMEDIATELY, WorkerPcs, ServingPcs, ListenerPcs, AcceptPcs, MainPcs
  <1>1. sigterm \in BOOLEAN /\ father_kill \in BOOLEAN /\ CHILD_HALT \in BOOLEAN
    BY Zenon
  <1>2. listener_running \in BOOLEAN
    BY Zenon
  <1>. QED
    BY <1>1, <1>2

(* Every step of the threads of a child, and of its environment, keeps the
   typing invariant; one step per action. *)
LEMMA NextType == TypeInv /\ [Next]_vars => TypeInv'
  <1>. SUFFICES ASSUME TypeOK, PutHolds, [Next]_vars PROVE TypeOK' /\ PutHolds'
    BY DEF TypeInv
  <1>. USE ChildAssumption DEF TypeOK, PutHolds, KillModes, NO_KILL, GRACEFULLY, IMMEDIATELY, WorkerPcs, ServingPcs, ListenerPcs, AcceptPcs, MainPcs
  <1>1. ASSUME NEW w \in Workers, WorkerTop(w) PROVE TypeOK' /\ PutHolds'
    BY <1>1 DEF WorkerTop, Worker, netVars, fatherVars, listenerVars, mainVars
  <1>2. ASSUME NEW w \in Workers, get_from_queue(w) PROVE TypeOK' /\ PutHolds'
    <2>1. queue # <<>> => Head(queue) \in Conns /\ Tail(queue) \in Seq(Conns)
      BY HeadTailProperties
    <2>2. queue' \in Seq(Conns)
      BY <2>1, <1>2 DEF get_from_queue, Worker, fatherVars, listenerVars, mainVars
    <2>3. wcon' \in [Workers -> Conns \cup {NoConn}]
      BY <2>1, <1>2 DEF get_from_queue, Worker, fatherVars, listenerVars, mainVars
    <2>4. wpc' \in [Workers -> WorkerPcs]
      BY <1>2 DEF get_from_queue, Worker, fatherVars, listenerVars, mainVars
    <2>. QED
      BY <2>1, <2>2, <2>3, <2>4, <1>2 DEF get_from_queue, Worker, fatherVars, listenerVars, mainVars
  <1>3. ASSUME NEW w \in Workers, WorkerEmpty(w) PROVE TypeOK' /\ PutHolds'
    BY <1>3 DEF WorkerEmpty, Worker, netVars, fatherVars, listenerVars,
        mainVars
  <1>4. ASSUME NEW w \in Workers, wait_for_queue(w) PROVE TypeOK' /\ PutHolds'
    BY <1>4 DEF wait_for_queue, Worker, netVars, fatherVars, listenerVars,
        mainVars
  <1>5. ASSUME NEW w \in Workers, SpuriousWakeup(w) PROVE TypeOK' /\ PutHolds'
    BY <1>5 DEF SpuriousWakeup, Worker, netVars, fatherVars, listenerVars,
        mainVars
  <1>6. ASSUME NEW w \in Workers, KeepaliveLoop(w) PROVE TypeOK' /\ PutHolds'
    BY <1>6 DEF KeepaliveLoop, Worker, netVars, fatherVars, listenerVars,
        mainVars
  <1>7. ASSUME NEW w \in Workers, process_request_no_status(w) PROVE TypeOK' /\ PutHolds'
    <2>1. net' \in [Conns -> {"idle", "backlog", "accepted", "closed"}]
      BY <1>7 DEF process_request_no_status, Worker, fatherVars, listenerVars, mainVars
    <2>2. wcon' \in [Workers -> Conns \cup {NoConn}]
      BY <1>7 DEF process_request_no_status, Worker, fatherVars, listenerVars, mainVars
    <2>3. keepalive' \in [Workers -> BOOLEAN]
      BY <1>7 DEF process_request_no_status, Worker, fatherVars, listenerVars, mainVars
    <2>. QED
      BY <2>1, <2>2, <2>3, <1>7 DEF process_request_no_status, Worker, fatherVars, listenerVars, mainVars
  <1>8. ASSUME NEW w \in Workers, KeepaliveDecision(w) PROVE TypeOK' /\ PutHolds'
    BY <1>8 DEF KeepaliveDecision, Worker, netVars, fatherVars, listenerVars,
        mainVars
  <1>9. ASSUME NEW w \in Workers, CloseConnection(w) PROVE TypeOK' /\ PutHolds'
    <2>1. net' \in [Conns -> {"idle", "backlog", "accepted", "closed"}]
      BY <1>9 DEF CloseConnection, Worker, fatherVars, listenerVars, mainVars
    <2>2. wcon' \in [Workers -> Conns \cup {NoConn}]
      BY <1>9 DEF CloseConnection, Worker, fatherVars, listenerVars, mainVars
    <2>3. keepalive' \in [Workers -> BOOLEAN]
      BY <1>9 DEF CloseConnection, Worker, fatherVars, listenerVars, mainVars
    <2>. QED
      BY <2>1, <2>2, <2>3, <1>9 DEF CloseConnection, Worker, fatherVars, listenerVars, mainVars
  <1>10. ASSUME NEW w \in Workers, ReleaseServer(w) PROVE TypeOK' /\ PutHolds'
    BY <1>10 DEF ReleaseServer, Worker, netVars, fatherVars, listenerVars,
        mainVars
  <1>11. ASSUME NEW w \in Workers, SignalFreeServer(w) PROVE TypeOK' /\ PutHolds'
    BY <1>11 DEF SignalFreeServer, Worker, WakeListener, netVars, fatherVars,
        mainVars
  <1>12. ASSUME NEW w \in Workers, NEW allowed \in BOOLEAN, server_request_use_connection(w, allowed)
       PROVE TypeOK' /\ PutHolds'
    <2>1. net' \in [Conns -> {"idle", "backlog", "accepted", "closed"}]
      BY <1>12 DEF server_request_use_connection, Worker, fatherVars, listenerVars, mainVars
    <2>2. wcon' \in [Workers -> Conns \cup {NoConn}]
      BY <1>12 DEF server_request_use_connection, Worker, fatherVars, listenerVars, mainVars
    <2>3. keepalive' \in [Workers -> BOOLEAN]
      BY <1>12 DEF server_request_use_connection, Worker, fatherVars, listenerVars, mainVars
    <2>4. keepalive_reqs' \in [Workers -> Nat]
      <3>1. \/ keepalive_reqs' = [keepalive_reqs EXCEPT ![w] = 0]
            \/ keepalive_reqs' = keepalive_reqs
        BY <1>12 DEF server_request_use_connection
      <3>2. keepalive_reqs \in [Workers -> Nat]
        OBVIOUS
      <3>. HIDE DEF TypeOK
      <3>. QED
        BY ONLY <3>1, <3>2
    <2>5. wpc' \in [Workers -> WorkerPcs]
      BY <1>12 DEF server_request_use_connection, Worker, fatherVars, listenerVars, mainVars
    <2>. QED
      BY <2>1, <2>2, <2>3, <2>4, <2>5, <1>12 DEF server_request_use_connection, Worker, fatherVars, listenerVars, mainVars
  <1>13. ASSUME NEW w \in Workers, NEW close \in BOOLEAN, process_request(w, close)
       PROVE TypeOK' /\ PutHolds'
    BY <1>13 DEF process_request, Worker, netVars, fatherVars, listenerVars,
        mainVars
  <1>14. ASSUME NEW w \in Workers, NEW more \in BOOLEAN, keepalive_request(w, more)
       PROVE TypeOK' /\ PutHolds'
    BY <1>14 DEF keepalive_request, Worker, netVars, fatherVars, listenerVars,
        mainVars
  <1>15. CASE ListenerStart
    BY <1>15 DEF ListenerStart, Listener, netVars, fatherVars, workerVars,
        mainVars
  <1>16. CASE ListenerTop
    BY <1>16 DEF ListenerTop, Listener, netVars, fatherVars, workerVars,
        mainVars
  <1>17. CASE ListenerLock
    BY <1>17 DEF ListenerLock, Listener, netVars, fatherVars, workerVars,
        mainVars
  <1>18. CASE ListenerPoll
    BY <1>18 DEF ListenerPoll, Listener, netVars, fatherVars, workerVars,
        mainVars
  <1>19. CASE put_to_queue
    <2>1. lcon \in Conns
      BY <1>19 DEF put_to_queue, Listener, fatherVars, workerVars, mainVars
    <2>2. net' \in [Conns -> {"idle", "backlog", "accepted", "closed"}]
      BY <1>19 DEF put_to_queue, Listener, fatherVars, workerVars, mainVars
    <2>3. Append(queue, lcon) \in Seq(Conns)
      BY <2>1, AppendProperties
    <2>4. queue' \in Seq(Conns)
      BY <2>3, <1>19 DEF put_to_queue, Listener, fatherVars, workerVars, mainVars
    <2>5. jobs_in_queue' \in {0, 1} /\ lpc' \in ListenerPcs /\ PutHolds'
      BY <1>19 DEF put_to_queue, Listener, fatherVars, workerVars, mainVars
    <2>. QED
      BY <2>1, <2>2, <2>3, <2>4, <2>5, <1>19 DEF put_to_queue, Listener, fatherVars, workerVars, mainVars
  <1>20. CASE SignalQueue
    <2>1. wpc' \in [Workers -> WorkerPcs]
      BY <1>20 DEF SignalQueue, Listener, Blocked, netVars, fatherVars, mainVars
    <2>. QED
      BY <2>1, <1>20 DEF SignalQueue, Listener, Blocked, netVars, fatherVars, mainVars
  <1>21. CASE ListenerAfter
    BY <1>21 DEF ListenerAfter, Listener, haschild, netVars, fatherVars,
        workerVars, mainVars
  <1>22. CASE ListenerUnlock
    BY <1>22 DEF ListenerUnlock, Listener, netVars, fatherVars, workerVars,
        mainVars
  <1>23. CASE ListenerCheck
    BY <1>23 DEF ListenerCheck, Listener, netVars, fatherVars, workerVars,
        mainVars
  <1>24. CASE ListenerWait
    BY <1>24 DEF ListenerWait, Listener, netVars, fatherVars, workerVars,
        mainVars
  <1>25. CASE ListenerFailsUnlocked
    <2>1. listener_running' \in BOOLEAN
      BY <1>25, Zenon DEF ListenerFailsUnlocked, Listener, netVars, fatherVars, workerVars, mainVars
    <2>. QED
      BY <2>1, <1>25 DEF ListenerFailsUnlocked, Listener, netVars, fatherVars, workerVars, mainVars
  <1>26. CASE ListenerFails
    <2>1. listener_running' \in BOOLEAN
      BY <1>26, Zenon DEF ListenerFails, Listener, netVars, fatherVars, workerVars, mainVars
    <2>. QED
      BY <2>1, <1>26 DEF ListenerFails, Listener, netVars, fatherVars, workerVars, mainVars
  <1>27. CASE ListenerFailUnlock
    BY <1>27 DEF ListenerFailUnlock, Listener, netVars, fatherVars, workerVars,
        mainVars
  <1>28. CASE ListenerSpuriousWakeup
    BY <1>28 DEF ListenerSpuriousWakeup, netVars, fatherVars, workerVars,
        mainVars
  <1>29. CASE ListenerError
    BY <1>29 DEF ListenerError, netVars, fatherVars, workerVars, mainVars
  <1>30. ASSUME NEW c \in Conns, ListenerAccept(c) PROVE TypeOK' /\ PutHolds'
    BY <1>30 DEF ListenerAccept, Listener, fatherVars, workerVars, mainVars
  <1>31. ASSUME NEW c \in Conns, ListenerAcceptAborted(c) PROVE TypeOK' /\ PutHolds'
    BY <1>31 DEF ListenerAcceptAborted, Listener, fatherVars, workerVars,
        mainVars
  <1>32. CASE MainInstallSignals
    BY <1>32 DEF MainInstallSignals, Main, netVars, fatherVars, listenerVars,
        workerVars
  <1>33. CASE MainCheckFather
    BY <1>33 DEF MainCheckFather, Main, netVars, fatherVars, listenerVars,
        workerVars
  <1>34. CASE MainStartListener
    BY <1>34 DEF MainStartListener, Main, WakeListener, netVars, fatherVars,
        workerVars
  <1>35. CASE MainListenerDied
    BY <1>35 DEF MainListenerDied, Main, netVars, fatherVars, listenerVars,
        workerVars
  <1>36. CASE MainSetGraceful
    BY <1>36 DEF MainSetGraceful, Main, netVars, fatherVars, listenerVars,
        workerVars
  <1>37. CASE MainLeaveLoop
    BY <1>37 DEF MainLeaveLoop, Main, netVars, fatherVars, listenerVars,
        workerVars
  <1>38. CASE MainInterruptListener
    BY <1>38 DEF MainInterruptListener, netVars, fatherVars, workerVars,
        mainVars
  <1>39. CASE MainListenerGone
    BY <1>39 DEF MainListenerGone, Main, netVars, fatherVars, listenerVars,
        workerVars
  <1>40. CASE MainJoinListener
    BY <1>40 DEF MainJoinListener, Main, netVars, fatherVars, listenerVars,
        workerVars
  <1>41. CASE MainBroadcast
    BY <1>41 DEF MainBroadcast, Main, netVars, fatherVars, listenerVars
  <1>42. CASE MainReap
    BY <1>42 DEF MainReap, Main, netVars, listenerVars, workerVars
  <1>43. CASE MainReapSleep
    BY <1>43 DEF MainReapSleep, Main, netVars, fatherVars, listenerVars,
        workerVars
  <1>44. CASE MainReapEnd
    BY <1>44 DEF MainReapEnd, Main, netVars, fatherVars, listenerVars,
        workerVars
  <1>45. CASE MainExit
    <2>1. listener_running' \in BOOLEAN
      BY <1>45, Zenon DEF MainExit, Main, fatherVars
    <2>2. net' \in [Conns -> {"idle", "backlog", "accepted", "closed"}]
      BY <1>45 DEF MainExit, Main, fatherVars
    <2>3. queue' \in Seq(Conns)
      BY <1>45 DEF MainExit, Main, fatherVars
    <2>. QED
      BY <2>1, <2>2, <2>3, <1>45 DEF MainExit, Main, fatherVars
  <1>46. CASE MainPipeClosed
    BY <1>46 DEF MainPipeClosed, netVars, fatherVars, listenerVars, workerVars,
        mainVars
  <1>47. CASE MainGiveUpListener
    BY <1>47 DEF MainGiveUpListener, Main, netVars, fatherVars, listenerVars,
        workerVars
  <1>48. CASE MainInterruptLock
    BY <1>48 DEF MainInterruptLock, Main, Listener, netVars, fatherVars,
        workerVars, mainVars
  <1>49. CASE term_handler_child
    <2>1. sigterm' \in BOOLEAN
      BY <1>49, Zenon DEF term_handler_child, netVars, listenerVars, workerVars, mainVars
    <2>. QED
      BY <2>1, <1>49 DEF term_handler_child, netVars, listenerVars, workerVars, mainVars
  <1>50. CASE FatherKills
    <2>1. father_kill' \in BOOLEAN /\ sigterm' \in BOOLEAN
      BY <1>50, Zenon DEF FatherKills, netVars, listenerVars, workerVars, mainVars
    <2>. QED
      BY <2>1, <1>50 DEF FatherKills, netVars, listenerVars, workerVars, mainVars
  <1>51. CASE FatherInsists
    BY <1>51 DEF FatherInsists, netVars, listenerVars, workerVars, mainVars
  <1>52. CASE StraySigterm
    BY <1>52 DEF StraySigterm, netVars, listenerVars, workerVars, mainVars
  <1>53. CASE OtherChildAccepts
    BY <1>53 DEF OtherChildAccepts, netVars, fatherVars, workerVars, mainVars
  <1>54. ASSUME NEW mode \in {GRACEFULLY, IMMEDIATELY}, FatherSays(mode) PROVE TypeOK' /\ PutHolds'
    BY <1>54 DEF FatherSays, netVars, listenerVars, workerVars, mainVars
  <1>55. ASSUME NEW c \in Conns, ClientConnects(c) PROVE TypeOK' /\ PutHolds'
    BY <1>55 DEF ClientConnects, fatherVars, listenerVars, workerVars, mainVars
  <1>56. ASSUME NEW w \in Workers, WorkerFatal(w) PROVE TypeOK' /\ PutHolds'
    BY <1>56 DEF WorkerFatal, netVars, fatherVars, listenerVars, mainVars
  <1>57. CASE ListenerUnlockFails
    BY <1>57 DEF ListenerUnlockFails, Listener, netVars, fatherVars, workerVars,
        mainVars
  <1>58. CASE UNCHANGED vars
    BY <1>58 DEF vars, netVars, fatherVars, listenerVars, workerVars, mainVars
  <1>. QED
    BY <1>1, <1>2, <1>3, <1>4, <1>5, <1>6, <1>7, <1>8, <1>9, <1>10, <1>11,
       <1>12, <1>13, <1>14, <1>15, <1>16, <1>17, <1>18, <1>19, <1>20, <1>21,
       <1>22, <1>23, <1>24, <1>25, <1>26, <1>27, <1>28, <1>29, <1>30, <1>31,
       <1>32, <1>33, <1>34, <1>35, <1>36, <1>37, <1>38, <1>39, <1>40, <1>41,
       <1>42, <1>43, <1>44, <1>45, <1>46, <1>47, <1>48, <1>49, <1>50, <1>51,
       <1>52, <1>53, <1>54, <1>55, <1>56, <1>57, <1>58
    DEF Next, thread_main, listener_thread, child_main

(* TypeOK holds in every reachable state of a child process.               *)
THEOREM TypeCorrect == Spec => []TypeOK
  <1>1. Spec => []TypeInv
    BY InitType, NextType, PTL DEF Spec
  <1>. QED
    BY <1>1, PTL DEF TypeInv

(* What AcceptMutexHeld needs to be inductive: no listener outlives the process
   that a failing unlock would leave the mutex locked by. *)
MutexInv == AcceptMutexHeld /\ (mpc = "exited" => lpc = "exited")

(* No step separates the accept mutex from the listener's control point.   *)
LEMMA NextAcceptMutex == MutexInv /\ [Next]_vars => MutexInv'
  <1>. SUFFICES ASSUME MutexInv, [Next]_vars PROVE MutexInv'
    OBVIOUS
  <1>1. ASSUME NEW w \in Workers, thread_main(w) \/ SpuriousWakeup(w) \/ WorkerFatal(w)
       PROVE MutexInv'
    BY <1>1 DEF thread_main, WorkerTop, get_from_queue, WorkerEmpty,
        wait_for_queue, SpuriousWakeup, WorkerFatal, KeepaliveLoop,
        process_request_no_status, KeepaliveDecision, CloseConnection,
        ReleaseServer, SignalFreeServer, server_request_use_connection,
        process_request, keepalive_request, Worker, WakeListener, netVars,
        fatherVars, listenerVars, mainVars, MutexInv,
        AcceptMutexHeld, AcceptPcs
  <1>2. CASE listener_thread \/ ListenerSpuriousWakeup \/ ListenerError \/ ListenerUnlockFails
    BY <1>2 DEF listener_thread, ListenerStart, ListenerTop, ListenerLock,
        ListenerPoll, put_to_queue, SignalQueue, ListenerAfter, ListenerUnlock,
        ListenerCheck, ListenerWait, ListenerFailsUnlocked, ListenerFails,
        ListenerFailUnlock, ListenerSpuriousWakeup, ListenerError, ListenerUnlockFails,
        ListenerAccept, Listener, Blocked, haschild, netVars, fatherVars,
        workerVars, mainVars, MutexInv,
        AcceptMutexHeld, AcceptPcs
  <1>3. ASSUME NEW c \in Conns, ListenerAcceptAborted(c) PROVE MutexInv'
    BY <1>3 DEF ListenerAcceptAborted, Listener, fatherVars, workerVars,
        mainVars, MutexInv,
        AcceptMutexHeld, AcceptPcs
  <1>4. CASE child_main \/ MainPipeClosed \/ MainGiveUpListener \/ MainInterruptLock
    BY <1>4 DEF child_main, MainInstallSignals, MainCheckFather,
        MainStartListener, MainListenerDied, MainSetGraceful, MainLeaveLoop,
        MainInterruptListener, MainListenerGone, MainJoinListener,
        MainBroadcast, MainReap, MainReapSleep, MainReapEnd, MainExit,
        MainPipeClosed, MainGiveUpListener, MainInterruptLock, Main,
        WakeListener, Listener, netVars, fatherVars, listenerVars, workerVars,
        mainVars, MutexInv,
        AcceptMutexHeld, AcceptPcs
  <1>5. CASE term_handler_child \/ FatherKills \/ FatherInsists \/ StraySigterm
           \/ OtherChildAccepts
    BY <1>5 DEF term_handler_child, FatherKills, FatherInsists, StraySigterm,
        OtherChildAccepts, netVars, listenerVars, workerVars, mainVars,
        fatherVars, MutexInv,
        AcceptMutexHeld, AcceptPcs
  <1>6. ASSUME NEW mode \in {GRACEFULLY, IMMEDIATELY}, FatherSays(mode)
       PROVE MutexInv'
    BY <1>6 DEF FatherSays, netVars, listenerVars, workerVars, mainVars,
        MutexInv,
        AcceptMutexHeld, AcceptPcs
  <1>7. ASSUME NEW c \in Conns, ClientConnects(c) PROVE MutexInv'
    BY <1>7 DEF ClientConnects, fatherVars, listenerVars, workerVars, mainVars,
        MutexInv,
        AcceptMutexHeld, AcceptPcs
  <1>8. CASE UNCHANGED vars
    BY <1>8 DEF vars, netVars, fatherVars, listenerVars, workerVars, mainVars,
        MutexInv,
        AcceptMutexHeld, AcceptPcs
  <1>. QED
    BY <1>1, <1>2, <1>3, <1>4, <1>5, <1>6, <1>7, <1>8 DEF Next

(* The inter-process accept mutex is held exactly between lock and unlock of
   listener_thread; only a failing unlock leaves it locked, by a listener that
   is ending, and no longer than the process lives. *)
THEOREM AcceptMutexCorrect == Spec => []AcceptMutexHeld
  <1>1. Init => MutexInv
    BY DEF Init, MutexInv, AcceptMutexHeld, AcceptPcs
  <1>2. MutexInv => AcceptMutexHeld
    BY DEF MutexInv
  <1>. QED
    BY <1>1, <1>2, NextAcceptMutex, PTL DEF Spec

(* No path through thread_main changes the number of busy workers without
   usedservers, or usedservers without it. *)
LEMMA NextUsedServers == TypeOK /\ UsedServersExact /\ [Next]_vars => UsedServersExact'
  <1>. SUFFICES ASSUME TypeOK, UsedServersExact, [Next]_vars
                PROVE UsedServersExact'
    OBVIOUS
  <1>. DEFINE S == {w \in Workers : wpc[w] \in ServingPcs}
              Same == /\ S' = S /\ usedservers' = usedservers
                      /\ mpc = "exited" => mpc' = "exited"
  <1>0. IsFiniteSet(S)
    BY ChildAssumption, FS_Subset
  <1>1. ASSUME NEW w \in Workers,
               NEW allowed \in BOOLEAN, server_request_use_connection(w, allowed)
        PROVE UsedServersExact'
    <2>1. w \notin S /\ S' = S \cup {w}
      BY <1>1 DEF server_request_use_connection, Worker, TypeOK, WorkerPcs, ServingPcs
    <2>2. usedservers' = usedservers + 1 /\ mpc' = mpc
      BY <1>1 DEF server_request_use_connection, mainVars
    <2>. QED
      BY <1>0, <2>1, <2>2, FS_AddElement DEF UsedServersExact
  <1>2. ASSUME NEW w \in Workers, ReleaseServer(w) PROVE UsedServersExact'
    <2>1. w \in S /\ S' = S \ {w}
      BY <1>2 DEF ReleaseServer, Worker, TypeOK, WorkerPcs, ServingPcs
    <2>2. usedservers' = usedservers - 1 /\ mpc' = mpc
      BY <1>2 DEF ReleaseServer, mainVars
    <2>. QED
      BY <1>0, <2>1, <2>2, FS_RemoveElement DEF UsedServersExact
  <1>3. ASSUME NEW w \in Workers, WorkerTop(w) \/ get_from_queue(w) \/ WorkerEmpty(w)
               \/ wait_for_queue(w) \/ SpuriousWakeup(w) \/ WorkerFatal(w) \/ SignalFreeServer(w)
        PROVE Same
    BY <1>3 DEF WorkerTop, get_from_queue, WorkerEmpty, wait_for_queue,
        SpuriousWakeup, WorkerFatal, SignalFreeServer, Worker, WakeListener, netVars,
        fatherVars, listenerVars, mainVars, TypeOK, WorkerPcs, ServingPcs,
        Same
  <1>4. ASSUME NEW w \in Workers, KeepaliveLoop(w) \/ process_request_no_status(w)
               \/ KeepaliveDecision(w) \/ CloseConnection(w)
               \/ \E b \in BOOLEAN : process_request(w, b) \/ keepalive_request(w, b)
        PROVE Same
    BY <1>4 DEF KeepaliveLoop, process_request_no_status, KeepaliveDecision,
        CloseConnection, process_request, keepalive_request, Worker, netVars,
        fatherVars, listenerVars, mainVars, TypeOK, WorkerPcs, ServingPcs,
        Same
  <1>5. ASSUME listener_thread \/ ListenerSpuriousWakeup \/ ListenerError \/ ListenerUnlockFails
        PROVE Same
    BY <1>5 DEF listener_thread, ListenerStart, ListenerTop, ListenerLock,
        ListenerPoll, put_to_queue, SignalQueue, ListenerAfter, ListenerUnlock,
        ListenerCheck, ListenerWait, ListenerFailsUnlocked, ListenerFails,
        ListenerFailUnlock, ListenerSpuriousWakeup, ListenerError, ListenerUnlockFails,
        ListenerAccept, Listener, Blocked, haschild, netVars, fatherVars,
        workerVars, mainVars, TypeOK, WorkerPcs, ServingPcs
  <1>6. ASSUME NEW c \in Conns, ListenerAcceptAborted(c) \/ ClientConnects(c)
        PROVE Same
    BY <1>6 DEF ListenerAcceptAborted, ClientConnects, Listener, fatherVars,
        workerVars, mainVars, listenerVars, TypeOK, WorkerPcs, ServingPcs,
        Same
  <1>7. CASE MainExit
    BY <1>7 DEF MainExit, Main, UsedServersExact
  <1>8. ASSUME child_main \/ MainPipeClosed \/ MainGiveUpListener
               \/ MainInterruptLock, ~MainExit
        PROVE Same
    BY <1>8 DEF child_main, MainInstallSignals, MainCheckFather,
        MainStartListener, MainListenerDied, MainSetGraceful, MainLeaveLoop,
        MainInterruptListener, MainListenerGone, MainJoinListener,
        MainBroadcast, MainReap, MainReapSleep, MainReapEnd, MainPipeClosed,
        MainGiveUpListener, MainInterruptLock, Main, WakeListener, Listener,
        netVars, fatherVars, listenerVars, workerVars, mainVars, TypeOK,
        WorkerPcs, ServingPcs
  <1>9. ASSUME term_handler_child \/ FatherKills \/ FatherInsists
               \/ StraySigterm \/ OtherChildAccepts
               \/ \E mode \in {GRACEFULLY, IMMEDIATELY} : FatherSays(mode)
        PROVE Same
    BY <1>9 DEF term_handler_child, FatherKills, FatherInsists, StraySigterm,
        OtherChildAccepts, FatherSays, netVars, listenerVars, workerVars,
        mainVars, fatherVars, TypeOK, WorkerPcs, ServingPcs
  <1>10. ASSUME UNCHANGED vars PROVE Same
    BY <1>10 DEF vars, netVars, fatherVars, listenerVars, workerVars, mainVars,
        Same
  <1>11. Same => UsedServersExact'
    BY DEF UsedServersExact
  <1>. QED
    BY <1>1, <1>2, <1>3, <1>4, <1>5, <1>6, <1>7, <1>8, <1>9, <1>10, <1>11
    DEF Next, thread_main

(* usedservers is the number of workers that serve a connection: it never
   drifts, whatever path thread_main takes through its loop. *)
THEOREM UsedServersCorrect == Spec => []UsedServersExact
  <1>1. Init => UsedServersExact
    <2>. SUFFICES ASSUME Init PROVE UsedServersExact
      OBVIOUS
    <2>1. {w \in Workers : wpc[w] \in ServingPcs} = {}
      BY DEF Init, ServingPcs
    <2>. QED
      BY <2>1, FS_EmptySet DEF Init, UsedServersExact
  <1>2. Spec => []TypeOK
    BY TypeCorrect
  <1>. QED
    BY <1>1, <1>2, NextUsedServers, PTL DEF Spec

(* Where the listener and a worker may hold a connection.                  *)
HeldPcs == {"take", "loop", "process", "served", "keepalive", "close"}
HolderPcs ==
  /\ lcon # NoConn => lpc = "put"
  /\ \A w \in Workers : wcon[w] # NoConn => wpc[w] \in HeldPcs

(* No step leaves a connection with a thread that is past the code that uses
   it. *)
LEMMA NextHolder == TypeOK /\ HolderPcs /\ [Next]_vars => HolderPcs'
  <1>. SUFFICES ASSUME TypeOK, HolderPcs, [Next]_vars PROVE HolderPcs'
    OBVIOUS
  <1>1. ASSUME NEW w \in Workers, WorkerTop(w) \/ WorkerEmpty(w)
               \/ wait_for_queue(w) \/ SpuriousWakeup(w) \/ WorkerFatal(w) \/ SignalFreeServer(w)
               \/ ReleaseServer(w)
        PROVE HolderPcs'
    BY <1>1 DEF WakeListener, WorkerTop, WorkerEmpty, wait_for_queue,
        SpuriousWakeup, WorkerFatal, SignalFreeServer, ReleaseServer, Worker, netVars,
        fatherVars, listenerVars, mainVars, TypeOK, HeldPcs, HolderPcs
  <1>2. ASSUME NEW w \in Workers, get_from_queue(w) \/ KeepaliveLoop(w)
               \/ process_request_no_status(w) \/ KeepaliveDecision(w)
               \/ CloseConnection(w)
        PROVE HolderPcs'
    BY <1>2 DEF get_from_queue, KeepaliveLoop, process_request_no_status,
        KeepaliveDecision, CloseConnection, Worker, fatherVars, listenerVars,
        mainVars, netVars, TypeOK, HeldPcs, HolderPcs
  <1>3. ASSUME NEW w \in Workers, NEW b \in BOOLEAN,
               process_request(w, b) \/ keepalive_request(w, b)
               \/ server_request_use_connection(w, b)
        PROVE HolderPcs'
    BY <1>3 DEF process_request, keepalive_request,
        server_request_use_connection, Worker, netVars, fatherVars,
        listenerVars, mainVars, TypeOK, HeldPcs, HolderPcs
  <1>4. CASE listener_thread \/ ListenerSpuriousWakeup \/ ListenerError \/ ListenerUnlockFails
    BY <1>4 DEF listener_thread, ListenerStart, ListenerTop, ListenerLock,
        ListenerPoll, put_to_queue, SignalQueue, ListenerAfter, ListenerUnlock,
        ListenerCheck, ListenerWait, ListenerFailsUnlocked, ListenerFails,
        ListenerFailUnlock, ListenerSpuriousWakeup, ListenerError, ListenerUnlockFails,
        ListenerAccept, Listener, Blocked, haschild, netVars, fatherVars,
        workerVars, mainVars, TypeOK, HeldPcs, HolderPcs
  <1>5. ASSUME NEW c \in Conns, ListenerAcceptAborted(c) \/ ClientConnects(c)
        PROVE HolderPcs'
    BY <1>5 DEF ListenerAcceptAborted, ClientConnects, Listener, fatherVars,
        workerVars, mainVars, listenerVars, TypeOK, HeldPcs, HolderPcs
  <1>6. CASE child_main \/ MainPipeClosed \/ MainGiveUpListener \/ MainInterruptLock
    BY <1>6 DEF child_main, MainInstallSignals, MainCheckFather,
        MainStartListener, MainListenerDied, MainSetGraceful, MainLeaveLoop,
        MainInterruptListener, MainListenerGone, MainJoinListener,
        MainBroadcast, MainReap, MainReapSleep, MainReapEnd, MainExit,
        MainPipeClosed, MainGiveUpListener, MainInterruptLock, Main,
        WakeListener, Listener, netVars, fatherVars, listenerVars, workerVars,
        mainVars, TypeOK, HeldPcs, HolderPcs
  <1>7. CASE term_handler_child \/ FatherKills \/ FatherInsists
               \/ StraySigterm \/ OtherChildAccepts
               \/ \E mode \in {GRACEFULLY, IMMEDIATELY} : FatherSays(mode)
    BY <1>7 DEF term_handler_child, FatherKills, FatherInsists, StraySigterm,
        OtherChildAccepts, FatherSays, netVars, listenerVars, workerVars,
        mainVars, fatherVars, TypeOK, HeldPcs, HolderPcs
  <1>8. CASE UNCHANGED vars
    BY <1>8 DEF vars, netVars, fatherVars, listenerVars, workerVars, mainVars,
        HeldPcs, HolderPcs
  <1>. QED
    BY <1>1, <1>2, <1>3, <1>4, <1>5, <1>6, <1>7, <1>8 DEF Next, thread_main

(* listener_thread holds a connection only between accept and put_to_queue, a
   worker only between get_from_queue and ci_connection_hard_close. *)
LEMMA HolderCorrect == Spec => []HolderPcs
  <1>1. Init => HolderPcs
    BY DEF Init, HolderPcs
  <1>. QED
    BY <1>1, NextHolder, TypeCorrect, PTL DEF Spec

(* cancel_all_threads counts only workers that have ended, for good.       *)
Joined ==
  /\ \A w \in reaped : wpc[w] = "exited"
  /\ mpc = "stopped" => reaped = Workers \/ wait_for_workers < 0

(* cancel_all_threads joins only workers that have ended, and leaves its loop
   only when all are joined or the time is out. *)
LEMMA NextJoined == TypeOK /\ Joined /\ [Next]_vars => Joined'
  <1>. SUFFICES ASSUME TypeOK, Joined, [Next]_vars PROVE Joined'
    OBVIOUS
  <1>1. ASSUME NEW w \in Workers, thread_main(w) \/ SpuriousWakeup(w) \/ WorkerFatal(w)
        PROVE Joined'
    BY <1>1 DEF thread_main, WorkerTop, get_from_queue, WorkerEmpty,
        wait_for_queue, SpuriousWakeup, WorkerFatal, KeepaliveLoop,
        process_request_no_status, KeepaliveDecision, CloseConnection,
        ReleaseServer, SignalFreeServer, server_request_use_connection,
        process_request, keepalive_request, Worker, WakeListener, netVars,
        fatherVars, listenerVars, mainVars, TypeOK, Joined
  <1>2. CASE listener_thread \/ ListenerSpuriousWakeup \/ ListenerError \/ ListenerUnlockFails
    BY <1>2 DEF listener_thread, ListenerStart, ListenerTop, ListenerLock,
        ListenerPoll, put_to_queue, SignalQueue, ListenerAfter, ListenerUnlock,
        ListenerCheck, ListenerWait, ListenerFailsUnlocked, ListenerFails,
        ListenerFailUnlock, ListenerSpuriousWakeup, ListenerError, ListenerUnlockFails,
        ListenerAccept, Listener, Blocked, haschild, netVars, fatherVars,
        workerVars, mainVars, TypeOK, Joined
  <1>3. ASSUME NEW c \in Conns, ListenerAcceptAborted(c) \/ ClientConnects(c)
        PROVE Joined'
    BY <1>3 DEF ListenerAcceptAborted, ClientConnects, Listener, fatherVars,
        workerVars, mainVars, listenerVars, TypeOK, Joined
  <1>4. CASE child_main \/ MainPipeClosed \/ MainGiveUpListener \/ MainInterruptLock
    BY <1>4 DEF child_main, MainInstallSignals, MainCheckFather,
        MainStartListener, MainListenerDied, MainSetGraceful, MainLeaveLoop,
        MainInterruptListener, MainListenerGone, MainJoinListener,
        MainBroadcast, MainReap, MainReapSleep, MainReapEnd, MainExit,
        MainPipeClosed, MainGiveUpListener, MainInterruptLock, Main,
        WakeListener, Listener, netVars, fatherVars, listenerVars, workerVars,
        mainVars, TypeOK, Joined
  <1>5. CASE term_handler_child \/ FatherKills \/ FatherInsists
               \/ StraySigterm \/ OtherChildAccepts
               \/ \E mode \in {GRACEFULLY, IMMEDIATELY} : FatherSays(mode)
    BY <1>5 DEF term_handler_child, FatherKills, FatherInsists, StraySigterm,
        OtherChildAccepts, FatherSays, netVars, listenerVars, workerVars,
        mainVars, fatherVars, TypeOK, Joined
  <1>6. CASE UNCHANGED vars
    BY <1>6 DEF vars, netVars, fatherVars, listenerVars, workerVars, mainVars,
        Joined
  <1>. QED
    BY <1>1, <1>2, <1>3, <1>4, <1>5, <1>6 DEF Next

(* A child that stops before its timeout has let every worker finish its
   request and close its connection. *)
THEOREM WorkersJoinedCorrect == Spec => []WorkersJoined
  <1>1. Init => Joined
    BY DEF Init, Joined
  <1>2. TypeOK /\ Joined /\ HolderPcs => WorkersJoined
    <2>. SUFFICES ASSUME TypeOK, Joined, HolderPcs, mpc = "stopped",
                         wait_for_workers >= 0, NEW w \in Workers
                  PROVE wpc[w] = "exited" /\ wcon[w] = NoConn
      BY DEF WorkersJoined
    <2>1. wpc[w] = "exited"
      BY DEF TypeOK, Joined
    <2>. QED
      BY <2>1 DEF HolderPcs, HeldPcs
  <1>. QED
    BY <1>1, <1>2, NextJoined, TypeCorrect, HolderCorrect, PTL DEF Spec

(* A step hands a connection from one owner to the next: the listener, the
   queue, one worker, or closed. *)
LEMMA NextConnOwned ==
  TypeInv /\ HolderPcs /\ ConnOwnedOnce /\ [Next]_vars => ConnOwnedOnce'
  <1>. SUFFICES ASSUME TypeOK, PutHolds, HolderPcs, ConnOwnedOnce, [Next]_vars
                PROVE ConnOwnedOnce'
    BY DEF TypeInv
  <1>. DEFINE Frame == UNCHANGED <<net, queue, lcon, wcon>>
  <1>0. Len(queue) \in Nat /\ \A i \in 1..Len(queue) : queue[i] \in Conns
    BY LenProperties DEF TypeOK
  <1>1. ASSUME NEW w \in Workers, get_from_queue(w) PROVE ConnOwnedOnce'
    <2>1. CASE queue = <<>>
      BY <1>1, <2>1 DEF get_from_queue, ConnOwnedOnce
    <2>2. CASE queue # <<>>
      <3>1. wcon[w] = NoConn
        BY <1>1 DEF get_from_queue, Worker, HolderPcs, HeldPcs
      <3>2. /\ wcon' = [wcon EXCEPT ![w] = Head(queue)] /\ queue' = Tail(queue)
            /\ net' = net /\ lcon' = lcon
        BY <1>1, <2>2 DEF get_from_queue
      <3>3. /\ Len(queue') \in Nat /\ Len(queue) = Len(queue') + 1
            /\ \A i \in 1..Len(queue') : queue'[i] = queue[i + 1]
            /\ Head(queue) = queue[1] /\ Head(queue) \in Conns
        BY <2>2, <3>2, HeadTailProperties, LenProperties DEF TypeOK
      <3>4. \A c \in Conns : (\E i \in 1..Len(queue) : queue[i] = c) <=>
                              \/ queue[1] = c
                              \/ \E i \in 1..Len(queue') : queue'[i] = c
        <4>1. \A i \in 1..Len(queue) : i = 1 \/ i - 1 \in 1..Len(queue')
          BY <3>3
        <4>2. \A i \in 1..Len(queue) : i # 1 => queue'[i - 1] = queue[i]
          BY <3>3, <4>1
        <4>3. 1 \in 1..Len(queue) /\ \A i \in 1..Len(queue') : i + 1 \in 1..Len(queue)
          BY <3>3
        <4>. QED
          BY <3>3, <4>1, <4>2, <4>3, ZenonT(40)
      <3>5. /\ wcon'[w] = queue[1] /\ queue[1] \in Conns /\ queue[1] # NoConn
            /\ \A v \in Workers : v # w => wcon'[v] = wcon[v]
        BY <3>2, <3>3, ChildAssumption DEF TypeOK
      <3>6. 1 \in 1..Len(queue) /\ \A i \in 1..Len(queue') : i + 1 \in 1..Len(queue)
        BY <3>3
      <3>7. \A c \in Conns :
              (\E v \in Workers : wcon'[v] = c)
                <=> queue[1] = c \/ \E v \in Workers : wcon[v] = c
        BY <3>1, <3>5, ChildAssumption
      <3>8. \A c \in Conns :
              net'[c] = "accepted" <=>
                \/ lcon' = c
                \/ \E i \in 1..Len(queue') : queue'[i] = c
                \/ \E v \in Workers : wcon'[v] = c
        BY <3>2, <3>4, <3>7 DEF ConnOwnedOnce
      <3>9. \A i, j \in 1..Len(queue') : queue'[i] = queue'[j] => i = j
        <4>. SUFFICES ASSUME NEW i \in 1..Len(queue'), NEW j \in 1..Len(queue'),
                             queue'[i] = queue'[j]
                      PROVE i = j
          OBVIOUS
        <4>1. i + 1 \in 1..Len(queue) /\ j + 1 \in 1..Len(queue)
              /\ queue[i + 1] = queue[j + 1]
          BY <3>3, <3>6
        <4>2. i + 1 = j + 1
          BY <4>1 DEF ConnOwnedOnce
        <4>. QED
          BY <4>2, <3>3
      <3>10. \A u, v \in Workers : wcon'[u] = wcon'[v] /\ wcon'[u] # NoConn => u = v
        <4>1. \A v \in Workers : v # w => wcon[v] # queue[1]
          BY <3>6 DEF ConnOwnedOnce
        <4>. QED
          BY <3>5, <4>1 DEF ConnOwnedOnce
      <3>11. \A i \in 1..Len(queue') : \A v \in Workers : queue'[i] # wcon'[v]
        <4>. SUFFICES ASSUME NEW i \in 1..Len(queue'), NEW v \in Workers
                      PROVE queue'[i] # wcon'[v]
          OBVIOUS
        <4>1. i + 1 \in 1..Len(queue) /\ queue'[i] = queue[i + 1] /\ i + 1 # 1
          BY <3>3, <3>6
        <4>2. queue[i + 1] # queue[1]
          BY <4>1, <3>6 DEF ConnOwnedOnce
        <4>3. queue[i + 1] # wcon[v]
          BY <4>1 DEF ConnOwnedOnce
        <4>. QED
          BY <3>5, <4>1, <4>2, <4>3
      <3>12. \A i \in 1..Len(queue') : queue'[i] # lcon'
        BY <3>2, <3>3, <3>6 DEF ConnOwnedOnce
      <3>13. \A v \in Workers : lcon' # NoConn => lcon' # wcon'[v]
        BY <3>2, <3>5, <3>6 DEF ConnOwnedOnce
      <3>. QED
        BY <3>8, <3>9, <3>10, <3>11, <3>12, <3>13 DEF ConnOwnedOnce
    <2>. QED
      BY <2>1, <2>2
  <1>2. CASE put_to_queue
    <2>1. lcon \in Conns /\ lcon' = NoConn /\ wcon' = wcon
      BY <1>2 DEF put_to_queue, Listener, PutHolds, TypeOK
    <2>2. CASE Len(queue) = warn_size
      <3>1. net' = [net EXCEPT ![lcon] = "closed"] /\ queue' = queue
        BY <1>2, <2>2 DEF put_to_queue
      <3>2. /\ \A c \in Conns : c # lcon => net'[c] = net[c]
            /\ net'[lcon] = "closed" /\ lcon # NoConn
        BY <2>1, <3>1, ChildAssumption DEF TypeOK
      <3>3. /\ \A i \in 1..Len(queue) : queue[i] # lcon /\ queue[i] \in Conns
            /\ \A w \in Workers : wcon[w] # lcon
        BY <1>0, <3>2 DEF ConnOwnedOnce
      <3>4. \A c \in Conns :
              net'[c] = "accepted" <=>
                \/ lcon' = c
                \/ \E i \in 1..Len(queue') : queue'[i] = c
                \/ \E w \in Workers : wcon'[w] = c
        <4>. SUFFICES ASSUME NEW c \in Conns
                      PROVE net'[c] = "accepted" <=>
                              \/ \E i \in 1..Len(queue) : queue[i] = c
                              \/ \E w \in Workers : wcon[w] = c
          BY <2>1, <3>1, ChildAssumption
        <4>1. CASE c = lcon
          BY <4>1, <3>2, <3>3
        <4>2. CASE c # lcon
          BY <4>2, <3>2 DEF ConnOwnedOnce
        <4>. QED
          BY <4>1, <4>2
      <3>5. \A i \in 1..Len(queue') : queue'[i] # lcon'
        BY <2>1, <3>1, <3>3, ChildAssumption
      <3>. QED
        BY <2>1, <3>1, <3>4, <3>5 DEF ConnOwnedOnce
    <2>3. CASE Len(queue) # warn_size
      <3>1. net' = net /\ queue' = Append(queue, lcon)
        BY <1>2, <2>3 DEF put_to_queue
      <3>2. /\ Len(queue) \in Nat /\ Len(queue') = Len(queue) + 1
            /\ \A i \in 1..Len(queue) : queue'[i] = queue[i] /\ queue[i] \in Conns
            /\ queue'[Len(queue) + 1] = lcon
        BY <2>1, <3>1, AppendProperties, LenProperties DEF TypeOK
      <3>3. \A i \in 1..Len(queue') : i \in 1..Len(queue) \/ i = Len(queue) + 1
        BY <3>2
      <3>4. \A c \in Conns : (\E i \in 1..Len(queue') : queue'[i] = c) <=>
                              \/ lcon = c
                              \/ \E i \in 1..Len(queue) : queue[i] = c
        BY <3>2, <3>3
      <3>5. \A i, j \in 1..Len(queue') : queue'[i] = queue'[j] => i = j
        <4>1. \A i \in 1..Len(queue) : queue[i] # lcon
          BY DEF ConnOwnedOnce
        <4>. QED
          BY <3>2, <3>3, <4>1 DEF ConnOwnedOnce
      <3>6. \A i \in 1..Len(queue') : \A w \in Workers : queue'[i] # wcon'[w]
        <4>1. \A w \in Workers : lcon # wcon[w]
          BY <2>1, ChildAssumption DEF ConnOwnedOnce
        <4>2. \A i \in 1..Len(queue) : \A w \in Workers : queue[i] # wcon[w]
          BY DEF ConnOwnedOnce
        <4>. QED
          BY <2>1, <3>2, <3>3, <4>1, <4>2
      <3>7. \A i \in 1..Len(queue') : queue'[i] # lcon'
        BY <2>1, <3>2, <3>3, ChildAssumption
      <3>. QED
        BY <2>1, <3>1, <3>4, <3>5, <3>6, <3>7, ChildAssumption DEF ConnOwnedOnce
    <2>. QED
      BY <2>2, <2>3
  <1>3. ASSUME NEW c \in Conns, ListenerAccept(c) PROVE ConnOwnedOnce'
    <2>1. lcon = NoConn /\ net[c] = "backlog"
      BY <1>3 DEF ListenerAccept, Listener, HolderPcs
    <2>2. /\ \A d \in Conns : net'[d] = "accepted" <=> net[d] = "accepted" \/ d = c
          /\ lcon' = c /\ UNCHANGED <<queue, wcon>>
      BY <1>3 DEF ListenerAccept, TypeOK
    <2>3. /\ \A i \in 1..Len(queue) : queue[i] # c
          /\ \A w \in Workers : wcon[w] # c
      BY <2>1 DEF ConnOwnedOnce
    <2>. QED
      BY <1>0, <2>1, <2>2, <2>3, ChildAssumption DEF ConnOwnedOnce
  <1>4. ASSUME NEW c \in Conns, ListenerAcceptAborted(c) \/ ClientConnects(c)
        PROVE ConnOwnedOnce'
    <2>1. /\ \A d \in Conns : net'[d] = "accepted" <=> net[d] = "accepted"
          /\ UNCHANGED <<queue, lcon, wcon>>
      BY <1>4 DEF ListenerAcceptAborted, ClientConnects, TypeOK
    <2>. QED
      BY <2>1 DEF ConnOwnedOnce
  <1>5. ASSUME NEW w \in Workers, \/ UNCHANGED <<net, wcon>>
                                 \/ /\ net' = [net EXCEPT ![wcon[w]] = "closed"]
                                    /\ wcon' = [wcon EXCEPT ![w] = NoConn],
               queue' = queue, lcon' = lcon
        PROVE ConnOwnedOnce'
    <2>1. CASE UNCHANGED <<net, wcon>>
      BY <1>5, <2>1 DEF ConnOwnedOnce
    <2>2. CASE wcon[w] = NoConn
      <3>1. net' = net /\ wcon' = wcon
        BY <1>5, <2>2, ChildAssumption DEF TypeOK
      <3>. QED
        BY <1>5, <3>1 DEF ConnOwnedOnce
    <2>3. CASE wcon[w] # NoConn /\ ~UNCHANGED <<net, wcon>>
      <3>1. /\ wcon[w] \in Conns
            /\ \A d \in Conns :
                 net'[d] = "accepted" <=> net[d] = "accepted" /\ d # wcon[w]
            /\ wcon'[w] = NoConn /\ \A v \in Workers \ {w} : wcon'[v] = wcon[v]
        BY <1>5, <2>3 DEF TypeOK
      <3>2. /\ lcon # wcon[w] /\ \A v \in Workers \ {w} : wcon[v] # wcon[w]
            /\ \A i \in 1..Len(queue) : queue[i] # wcon[w]
        BY <2>3 DEF ConnOwnedOnce
      <3>. QED
        BY <1>0, <1>5, <3>1, <3>2, ChildAssumption DEF ConnOwnedOnce
    <2>. QED
      BY <2>1, <2>2, <2>3
  <1>6. CASE MainExit
    BY <1>6, LenProperties, ChildAssumption DEF MainExit, ConnOwnedOnce, TypeOK
  <1>7. ASSUME NEW w \in Workers, \/ process_request_no_status(w)
                                 \/ CloseConnection(w)
                                 \/ \E b \in BOOLEAN :
                                      server_request_use_connection(w, b)
        PROVE ConnOwnedOnce'
    BY <1>5, <1>7 DEF process_request_no_status, CloseConnection,
        server_request_use_connection
  <1>8. ASSUME NEW w \in Workers, thread_main(w) \/ SpuriousWakeup(w) \/ WorkerFatal(w),
               ~get_from_queue(w), ~process_request_no_status(w),
               ~CloseConnection(w),
               ~ \E b \in BOOLEAN : server_request_use_connection(w, b)
        PROVE Frame
    BY <1>8 DEF thread_main, WorkerTop, WorkerEmpty, wait_for_queue,
        SpuriousWakeup, WorkerFatal, KeepaliveLoop, KeepaliveDecision, ReleaseServer,
        SignalFreeServer, process_request, keepalive_request, Worker,
        WakeListener, netVars, fatherVars, listenerVars, mainVars
  <1>9. ASSUME listener_thread \/ ListenerSpuriousWakeup \/ ListenerError \/ ListenerUnlockFails,
               ~put_to_queue, ~ \E c \in Conns : ListenerAccept(c)
        PROVE Frame
    BY <1>9 DEF listener_thread, ListenerStart, ListenerTop, ListenerLock,
        ListenerPoll, SignalQueue, ListenerAfter, ListenerUnlock,
        ListenerCheck, ListenerWait, ListenerFailsUnlocked, ListenerFails,
        ListenerFailUnlock, ListenerSpuriousWakeup, ListenerError, ListenerUnlockFails, Listener,
        Blocked, haschild, netVars, fatherVars, workerVars, mainVars
  <1>10. ASSUME child_main \/ MainPipeClosed \/ MainGiveUpListener
               \/ MainInterruptLock, ~MainExit
         PROVE Frame
    BY <1>10 DEF child_main, MainInstallSignals, MainCheckFather,
        MainStartListener, MainListenerDied, MainSetGraceful, MainLeaveLoop,
        MainInterruptListener, MainListenerGone, MainJoinListener,
        MainBroadcast, MainReap, MainReapSleep, MainReapEnd, MainPipeClosed,
        MainGiveUpListener, MainInterruptLock, Main, WakeListener, Listener,
        netVars, fatherVars, listenerVars, workerVars, mainVars
  <1>11. ASSUME term_handler_child \/ FatherKills \/ FatherInsists
               \/ StraySigterm \/ OtherChildAccepts
               \/ \E mode \in {GRACEFULLY, IMMEDIATELY} : FatherSays(mode)
         PROVE Frame
    BY <1>11 DEF term_handler_child, FatherKills, FatherInsists, StraySigterm,
        OtherChildAccepts, FatherSays, netVars, listenerVars, workerVars,
        mainVars, fatherVars
  <1>12. ASSUME UNCHANGED vars PROVE Frame
    BY <1>12 DEF vars, netVars
  <1>13. Frame => ConnOwnedOnce'
    BY DEF ConnOwnedOnce
  <1>14. ASSUME NEW w \in Workers, thread_main(w) \/ SpuriousWakeup(w) \/ WorkerFatal(w)
         PROVE ConnOwnedOnce'
    BY <1>1, <1>7, <1>8, <1>13, <1>14
  <1>15. CASE listener_thread \/ ListenerSpuriousWakeup \/ ListenerError \/ ListenerUnlockFails
    BY <1>2, <1>3, <1>9, <1>13, <1>15
  <1>. QED
    BY <1>4, <1>6, <1>10, <1>11, <1>12, <1>13, <1>14, <1>15 DEF Next

(* Every accepted connection has exactly one owner until it is closed: none is
   served twice, closed under a worker or forgotten by the child. *)
THEOREM ConnOwnedCorrect == Spec => []ConnOwnedOnce
  <1>1. Init => ConnOwnedOnce
    BY ChildAssumption DEF Init, ConnOwnedOnce
  <1>2. Spec => []TypeInv
    BY InitType, NextType, PTL DEF Spec
  <1>. QED
    BY <1>1, <1>2, HolderCorrect, NextConnOwned, PTL DEF Spec
=============================================================================
