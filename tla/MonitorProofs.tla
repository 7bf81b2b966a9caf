---------------------------- MODULE MonitorProofs ----------------------------
(***************************************************************************)
(* Proofs about Monitor, for any number of processes, slots and            *)
(* reconfigurations.                                                       *)
(***************************************************************************)
EXTENDS Monitor, ProofLemmas

Modes == {NO_KILL, GRACEFULLY, IMMEDIATELY}
ChildRec ==
  [pid : Pids \cup {NoPid}, requests : Nat, to_be_killed : Modes, father_said : Modes]
ProcStates == {"none", "forked", "starting", "running", "exited", "crashed"}

MonType ==
  /\ childs \in [Generations -> [Slots -> ChildRec]]
  /\ cur \in Generations /\ old \in Nat /\ old < cur
  /\ proc \in [Pids -> ProcStates]
  /\ gen \in [Pids -> Generations] /\ \A p \in Pids : gen[p] <= cur

(* The queues that are still to be created are empty.                      *)
FutureEmpty == \A g \in Generations : g > cur => \A i \in Slots : childs[g][i].pid = NoPid

(* A used slot of a queue in use names a registered child of that queue    *)
(* that has not been reaped.                                               *)
SlotsNameChildren ==
  \A g \in Queues : \A i \in Slots :
    childs[g][i].pid # NoPid =>
      proc[childs[g][i].pid] \notin {"none", "forked"} /\ gen[childs[g][i].pid] = g

(* No child has two slots in a queue.                                      *)
OneSlot ==
  \A g \in Queues : \A i, j \in Slots :
    childs[g][i].pid # NoPid /\ childs[g][i].pid = childs[g][j].pid => i = j

(* Every child that has registered in a queue in use has its slot there.   *)
LivingHaveSlots ==
  \A p \in Pids : proc[p] \in Living /\ gen[p] \in Queues =>
    \E i \in Slots : childs[gen[p]][i].pid = p

MonInv == MonType /\ FutureEmpty /\ SlotsNameChildren /\ OneSlot /\ LivingHaveSlots

(* The queues in use are generations.                                      *)
LEMMA QueuesAreGenerations == MonType => Queues \subseteq Generations /\ cur \in Queues
  BY MonitorAssumption DEF MonType, Queues, Generations

(* The server starts with empty queues and no child.                       *)
LEMMA MonInit == Init => MonInv
  <1>. SUFFICES ASSUME Init PROVE MonInv
    OBVIOUS
  <1>. USE MonitorAssumption DEF Init, Empty, Registered, NO_KILL, GRACEFULLY, IMMEDIATELY
  <1>1. Registered(NoPid) \in ChildRec
    BY DEF ChildRec, Modes
  <1>2. 1 \in Generations
    BY DEF Generations
  <1>3. childs \in [Generations -> [Slots -> ChildRec]]
    <2>. HIDE DEF Registered
    <2>. QED
      BY <1>1
  <1>4. MonType
    BY <1>2, <1>3 DEF MonType, ProcStates, Generations
  <1>5. \A g \in Generations, i \in Slots : childs[g][i].pid = NoPid
    OBVIOUS
  <1>6. \A p \in Pids : proc[p] \notin Living
    BY DEF Living
  <1>. HIDE DEF Init
  <1>. QED
    BY <1>4, <1>5, <1>6, QueuesAreGenerations
    DEF MonInv, FutureEmpty, SlotsNameChildren, OneSlot, LivingHaveSlots

(* A step that leaves the names in the slots alone and neither creates nor *)
(* reaps a process.                                                        *)
LEMMA PidsKept ==
  ASSUME MonInv, childs' \in [Generations -> [Slots -> ChildRec]],
         \A g \in Generations, i \in Slots : childs'[g][i].pid = childs[g][i].pid,
         cur' = cur, old' = old, gen' = gen, proc' \in [Pids -> ProcStates],
         \A p \in Pids : /\ proc'[p] \in {"none", "forked"} => proc[p] \in {"none", "forked"}
                         /\ proc'[p] \in Living => proc[p] \in Living
  PROVE  MonInv'
  <1>1. MonType' /\ FutureEmpty' /\ Queues' = Queues
    BY DEF MonInv, MonType, FutureEmpty, Queues
  <1>2. Queues \subseteq Generations
    BY QueuesAreGenerations DEF MonInv
  <1>3. \A g \in Queues, i \in Slots : childs[g][i].pid \in Pids \cup {NoPid}
    BY <1>2 DEF MonInv, MonType, ChildRec
  <1>4. SlotsNameChildren'
    BY <1>1, <1>2, <1>3 DEF MonInv, SlotsNameChildren
  <1>5. OneSlot'
    BY <1>1, <1>2 DEF MonInv, OneSlot
  <1>6. LivingHaveSlots'
    BY <1>1, <1>2 DEF MonInv, LivingHaveSlots
  <1>. QED
    BY <1>1, <1>4, <1>5, <1>6 DEF MonInv

(* A child that writes into its own slot, wherever it takes it to be,      *)
(* leaves the names of all slots alone if it leaves its own.               *)
LEMMA OwnSlot ==
  ASSUME MonInv, NEW p \in Pids, NEW r, SetMine(p, r),
         Mine(p) \in ChildRec => r \in ChildRec /\ r.pid = Mine(p).pid
  PROVE  /\ childs' \in [Generations -> [Slots -> ChildRec]]
         /\ \A g \in Generations, i \in Slots : childs'[g][i].pid = childs[g][i].pid
  <1>. DEFINE s == Slot(p)
              h == gen[p]
  <1>1. childs' = [childs EXCEPT ![h][s] = r] /\ Mine(p) = childs[h][s]
    BY DEF SetMine, Mine
  <1>2. childs \in [Generations -> [Slots -> ChildRec]] /\ h \in Generations
    BY DEF MonInv, MonType
  <1>3. s \in Slots => r \in ChildRec /\ r.pid = childs[h][s].pid
    BY <1>1, <1>2
  <1>. HIDE DEF s, h
  <1>. QED
    BY <1>1, <1>2, <1>3

(* fork gives the new child a process id that no slot names.               *)
LEMMA ForkStep ==
  ASSUME MonInv, start_child, childs' = childs, cur' = cur, old' = old
  PROVE  MonInv'
  <1>1. CASE UNCHANGED <<proc, gen>>
    BY <1>1, PidsKept DEF MonInv, MonType
  <1>2. ASSUME NEW p \in Pids, proc[p] = "none",
               proc' = [proc EXCEPT ![p] = "forked"], gen' = [gen EXCEPT ![p] = cur]
        PROVE  MonInv'
    <2>1. Queues' = Queues /\ Queues \subseteq Generations /\ cur \in Generations
      BY QueuesAreGenerations DEF MonInv, MonType, Queues
    <2>2. /\ proc'[p] = "forked" /\ gen'[p] = cur
          /\ \A q \in Pids \ {p} : proc'[q] = proc[q] /\ gen'[q] = gen[q]
      BY <1>2 DEF MonInv, MonType
    <2>3. MonType' /\ FutureEmpty'
      BY <1>2, <2>1 DEF MonInv, MonType, FutureEmpty, ProcStates, Generations
    <2>4. \A g \in Queues, i \in Slots : childs[g][i].pid \in (Pids \ {p}) \cup {NoPid}
      BY <1>2, <2>1, MonitorAssumption DEF MonInv, MonType, ChildRec, SlotsNameChildren
    <2>5. SlotsNameChildren'
      BY <2>1, <2>2, <2>4 DEF MonInv, SlotsNameChildren
    <2>6. OneSlot'
      BY <2>1 DEF MonInv, OneSlot
    <2>7. LivingHaveSlots'
      BY <2>1, <2>2 DEF MonInv, LivingHaveSlots, Living
    <2>. QED
      BY <2>3, <2>5, <2>6, <2>7 DEF MonInv
  <1>. QED
    BY <1>1, <1>2 DEF start_child

(* A child registers in the first free slot, if there is one.              *)
LEMMA RegisterStep ==
  ASSUME MonInv, NEW p \in Pids, register_child(p)
  PROVE  MonInv'
  <1>. DEFINE free == Slots \ Used(gen[p])
  <1>1. /\ proc[p] = "forked" /\ cur' = cur /\ old' = old /\ gen' = gen
    BY DEF register_child, monVars
  <1>2. CASE free = {}
    <2>1. proc' = [proc EXCEPT ![p] = "exited"] /\ childs' = childs
      BY <1>2 DEF register_child
    <2>. QED
      BY <1>1, <2>1, PidsKept DEF MonInv, MonType, ProcStates, Living
  <1>3. CASE free # {}
    <2>. DEFINE i == CHOOSE j \in free : \A k \in free : j <= k
                g == gen[p]
    <2>1. i \in free /\ i \in Slots
      <3>1. free \subseteq Nat
        BY DEF Slots
      <3>. QED
        BY <1>3, <3>1, LeastOfNats
    <2>2. g \in Generations /\ g <= cur
      BY DEF MonInv, MonType
    <2>3. childs[g][i].pid = NoPid
      BY <2>1 DEF Used
    <2>4. proc' = [proc EXCEPT ![p] = "starting"] /\ childs' = [childs EXCEPT ![g][i] = Registered(p)]
      BY <1>3 DEF register_child
    <2>5. PICK n \in Slots, h \in Generations : n = i /\ h = g
      BY <2>1, <2>2
    <2>. HIDE DEF i, g, free
    <2>6. Registered(p) \in ChildRec /\ Registered(p).pid = p
      BY DEF Registered, ChildRec, Modes
    <2>7. /\ childs' \in [Generations -> [Slots -> ChildRec]]
          /\ childs'[h][n] = Registered(p)
          /\ \A k \in Generations, j \in Slots :
               k # h \/ j # n => childs'[k][j] = childs[k][j]
      BY <2>4, <2>5, <2>6 DEF MonInv, MonType
    <2>8. /\ proc' \in [Pids -> ProcStates] /\ proc'[p] = "starting"
          /\ \A q \in Pids \ {p} : proc'[q] = proc[q]
      BY <2>4 DEF MonInv, MonType, ProcStates
    <2>9. Queues' = Queues /\ Queues \subseteq Generations /\ gen[p] = h /\ h <= cur
      BY <1>1, <2>2, <2>5, QueuesAreGenerations DEF MonInv, Queues, g
    <2>10. MonType' /\ FutureEmpty'
      BY <1>1, <2>7, <2>8, <2>9 DEF MonInv, MonType, FutureEmpty, Generations
    <2>11. \A k \in Queues, j \in Slots : childs[k][j].pid \in (Pids \ {p}) \cup {NoPid}
      BY <1>1, <2>9, MonitorAssumption DEF MonInv, MonType, ChildRec, SlotsNameChildren
    <2>12. SlotsNameChildren'
      BY <1>1, <2>6, <2>7, <2>8, <2>9, <2>11 DEF MonInv, SlotsNameChildren
    <2>13. OneSlot'
      BY <1>1, <2>6, <2>7, <2>9, <2>11, MonitorAssumption DEF MonInv, OneSlot
    <2>14. LivingHaveSlots'
      <3>. SUFFICES ASSUME NEW q \in Pids, proc'[q] \in Living, gen[q] \in Queues
                    PROVE  \E j \in Slots : childs'[gen[q]][j].pid = q
        BY <1>1, <2>9 DEF LivingHaveSlots
      <3>1. CASE q = p
        BY <3>1, <2>6, <2>7, <2>9
      <3>2. CASE q # p
        <4>1. PICK j \in Slots : childs[gen[q]][j].pid = q
          BY <3>2, <2>8 DEF MonInv, LivingHaveSlots
        <4>2. gen[q] # h \/ j # n
          BY <4>1, <2>3, <2>5, MonitorAssumption
        <4>. QED
          BY <4>1, <4>2, <2>7, <2>9
      <3>. QED
        BY <3>1, <3>2
    <2>. QED
      BY <2>10, <2>12, <2>13, <2>14 DEF MonInv
  <1>. QED
    BY <1>2, <1>3

(* A process is reaped: its slot is forgotten, and with the last slot of   *)
(* the old queue the queue itself.                                         *)
LEMMA ReapStep ==
  ASSUME MonInv, NEW p \in Pids, check_for_exited_childs(p)
  PROVE  /\ MonInv'
         /\ old # 0 /\ old' # old => ~ \E q \in Pids : proc'[q] \in Living /\ gen'[q] = old
  <1>. DEFINE g == IF Knows(cur, p) THEN cur ELSE old
  <1>1. /\ mpc = "reap" /\ p \in Zombies
        /\ childs' = IF g = 0 THEN childs ELSE remove_child(childs, g, p)
        /\ old' = IF g = old /\ old # 0 /\ \A i \in Slots : childs'[old][i].pid = NoPid
                  THEN 0 ELSE old
        /\ proc' = [proc EXCEPT ![p] = "none"]
        /\ gen' = [gen EXCEPT ![p] = 1]
        /\ cur' = cur
    BY DEF check_for_exited_childs
  <1>2. Queues \subseteq Generations /\ Queues' \subseteq Queues /\ 1 \in Generations
    BY <1>1, QueuesAreGenerations, MonitorAssumption DEF MonInv, Queues, Generations
  <1>3. Registered(NoPid) \in ChildRec /\ Registered(NoPid).pid = NoPid
    BY DEF Registered, ChildRec, Modes
  <1>4. /\ childs' \in [Generations -> [Slots -> ChildRec]]
        /\ \A k \in Generations, i \in Slots :
             \/ childs'[k][i] = childs[k][i] /\ (k # g \/ childs[k][i].pid # p)
             \/ childs'[k][i] = Registered(NoPid) /\ childs[k][i].pid = p
    <2>1. childs \in [Generations -> [Slots -> ChildRec]] /\ g \in Generations \cup {0} /\ 0 \notin Generations
      BY MonitorAssumption DEF MonInv, MonType, Generations
    <2>. HIDE DEF g
    <2>2. CASE g = 0
      BY <1>1, <2>1, <2>2
    <2>3. CASE g # 0
      <3>1. childs' = [childs EXCEPT ![g] = [i \in Slots |-> IF childs[g][i].pid = p THEN Registered(NoPid)
                                                            ELSE childs[g][i]]]
        BY <1>1, <2>3 DEF remove_child
      <3>. QED
        BY <3>1, <1>3, <2>1, <2>3
    <2>. QED
      BY <2>2, <2>3
  <1>5. \A k \in Queues, i \in Slots : childs'[k][i].pid # p
    <2>. SUFFICES ASSUME NEW k \in Queues, NEW i \in Slots, childs'[k][i].pid = p PROVE FALSE
      OBVIOUS
    <2>1. childs[k][i].pid = p /\ k # g
      BY <1>2, <1>3, <1>4, MonitorAssumption
    <2>2. gen[p] = k
      BY <2>1, MonitorAssumption DEF MonInv, SlotsNameChildren
    <2>3. k = cur \/ (k = old /\ old # 0)
      BY DEF Queues
    <2>4. CASE k = cur
      BY <2>1, <2>4 DEF Knows
    <2>5. CASE k = old /\ old # 0
      <3>1. Knows(cur, p)
        BY <2>1, <2>5
      <3>2. gen[p] = cur
        BY <3>1, QueuesAreGenerations, MonitorAssumption DEF Knows, MonInv, SlotsNameChildren
      <3>. QED
        BY <2>2, <2>5, <3>2 DEF MonInv, MonType
    <2>. QED
      BY <2>3, <2>4, <2>5
  <1>. HIDE DEF g
  <1>6. /\ proc'[p] = "none" /\ gen'[p] = 1
        /\ \A q \in Pids \ {p} : proc'[q] = proc[q] /\ gen'[q] = gen[q]
    BY <1>1 DEF MonInv, MonType
  <1>7. MonType'
    BY <1>1, <1>2, <1>4 DEF MonInv, MonType, ProcStates, Generations
  <1>8. FutureEmpty'
    BY <1>1, <1>3, <1>4 DEF MonInv, FutureEmpty
  <1>9. \A k \in Queues, i \in Slots : childs'[k][i].pid \in (Pids \ {p}) \cup {NoPid}
    BY <1>2, <1>4, <1>5 DEF ChildRec
  <1>10. SlotsNameChildren'
    BY <1>2, <1>3, <1>4, <1>6, <1>9 DEF MonInv, SlotsNameChildren
  <1>11. OneSlot'
    BY <1>2, <1>3, <1>4 DEF MonInv, OneSlot
  <1>12. \A q \in Pids : proc'[q] \in Living /\ gen'[q] \in Queues =>
           \E i \in Slots : childs'[gen'[q]][i].pid = q
    <2>. SUFFICES ASSUME NEW q \in Pids, proc'[q] \in Living, gen'[q] \in Queues
                  PROVE  \E i \in Slots : childs'[gen'[q]][i].pid = q
      OBVIOUS
    <2>1. q # p /\ proc[q] \in Living /\ gen'[q] = gen[q]
      BY <1>6 DEF Living
    <2>2. PICK i \in Slots : childs[gen[q]][i].pid = q
      BY <2>1 DEF MonInv, LivingHaveSlots
    <2>. QED
      BY <1>2, <1>4, <2>1, <2>2
  <1>13. LivingHaveSlots'
    BY <1>2, <1>12 DEF LivingHaveSlots
  <1>14. ASSUME old # 0, old' # old, NEW q \in Pids, proc'[q] \in Living, gen'[q] = old
         PROVE  FALSE
    <2>1. old \in Queues /\ \A i \in Slots : childs'[old][i].pid = NoPid
      BY <1>1, <1>14 DEF Queues
    <2>. QED
      BY <1>12, <1>14, <2>1, MonitorAssumption
  <1>. QED
    BY <1>7, <1>8, <1>10, <1>11, <1>13, <1>14 DEF MonInv

(* kill_all_childs reaps the children that have ended: their slots go, and *)
(* nobody else's.                                                          *)
LEMMA WaitStep ==
  ASSUME MonInv, wait_childs_to_exit
  PROVE  MonInv'
  <1>. DEFINE done == UNION {{childs[g][i].pid : i \in Reapable(g)} : g \in Queues}
  <1>1. /\ childs' = [g \in Generations |->
                       [i \in Slots |-> IF g \in Queues /\ i \in Reapable(g)
                                        THEN Registered(NoPid) ELSE childs[g][i]]]
        /\ proc' = [p \in Pids |-> IF p \in done THEN "none" ELSE proc[p]]
        /\ gen' = [p \in Pids |-> IF p \in done THEN 1 ELSE gen[p]]
        /\ old' \in {old, 0} /\ cur' = cur
    BY DEF wait_childs_to_exit
  <1>2. Queues \subseteq Generations /\ Queues' \subseteq Queues /\ 1 \in Generations
    BY <1>1, QueuesAreGenerations, MonitorAssumption DEF MonInv, Queues, Generations
  <1>3. Registered(NoPid) \in ChildRec /\ Registered(NoPid).pid = NoPid
    BY DEF Registered, ChildRec, Modes
  <1>4. \A p \in done : p # NoPid /\ p \in Zombies
    BY DEF Reapable, Used
  <1>5. \A g \in Queues, i \in Slots :
          /\ i \in Reapable(g) => childs[g][i].pid \in done
          /\ childs[g][i].pid \in done => i \in Reapable(g)
    <2>. SUFFICES ASSUME NEW g \in Queues, NEW i \in Slots, childs[g][i].pid \in done
                  PROVE  i \in Reapable(g)
      OBVIOUS
    <2>0. PICK h \in Queues : \E j \in Reapable(h) : childs[h][j].pid = childs[g][i].pid
      OBVIOUS
    <2>1. PICK j \in Reapable(h) : childs[h][j].pid = childs[g][i].pid
      BY <2>0
    <2>2. j \in Slots /\ childs[h][j].pid # NoPid
      BY <2>1 DEF Reapable, Used
    <2>3. h = g
      BY <2>1, <2>2 DEF MonInv, SlotsNameChildren
    <2>4. j = i
      BY <2>1, <2>2, <2>3 DEF MonInv, OneSlot
    <2>. QED
      BY <2>1, <2>3, <2>4
  <1>. HIDE DEF done
  <1>6. /\ childs' \in [Generations -> [Slots -> ChildRec]]
        /\ \A g \in Generations, i \in Slots :
             \/ childs'[g][i] = childs[g][i]
             \/ childs'[g][i] = Registered(NoPid)
        /\ \A g \in Queues, i \in Slots :
             childs'[g][i] = IF i \in Reapable(g) THEN Registered(NoPid) ELSE childs[g][i]
    BY <1>1, <1>2, <1>3 DEF MonInv, MonType
  <1>7. MonType'
    BY <1>1, <1>2, <1>6 DEF MonInv, MonType, ProcStates, Generations
  <1>8. FutureEmpty'
    BY <1>1, <1>3, <1>6 DEF MonInv, FutureEmpty
  <1>9. \A g \in Queues, i \in Slots :
          childs'[g][i].pid # NoPid =>
            /\ childs'[g][i] = childs[g][i]
            /\ childs'[g][i].pid \in Pids /\ childs'[g][i].pid \notin done
    BY <1>2, <1>3, <1>5, <1>6 DEF ChildRec
  <1>10. SlotsNameChildren'
    <2>. SUFFICES ASSUME NEW g \in Queues', NEW i \in Slots, childs'[g][i].pid # NoPid
                  PROVE  /\ proc'[childs'[g][i].pid] \notin {"none", "forked"}
                         /\ gen'[childs'[g][i].pid] = g
      BY DEF SlotsNameChildren
    <2>1. g \in Queues
      BY <1>2
    <2>2. /\ childs'[g][i] = childs[g][i]
          /\ childs'[g][i].pid \in Pids /\ childs'[g][i].pid \notin done
      BY <1>9, <2>1
    <2>3. proc[childs[g][i].pid] \notin {"none", "forked"} /\ gen[childs[g][i].pid] = g
      BY <2>1, <2>2 DEF MonInv, SlotsNameChildren
    <2>. QED
      BY <1>1, <2>2, <2>3
  <1>11. OneSlot'
    BY <1>2, <1>9 DEF MonInv, OneSlot
  <1>12. LivingHaveSlots'
    <2>. SUFFICES ASSUME NEW q \in Pids, proc'[q] \in Living, gen'[q] \in Queues
                  PROVE  \E i \in Slots : childs'[gen'[q]][i].pid = q
      BY <1>2 DEF LivingHaveSlots
    <2>1. q \notin done /\ proc[q] \in Living /\ gen'[q] = gen[q]
      BY <1>1 DEF Living
    <2>2. PICK i \in Slots : childs[gen[q]][i].pid = q
      BY <2>1 DEF MonInv, LivingHaveSlots
    <2>. QED
      BY <1>5, <1>6, <2>1, <2>2
  <1>. QED
    BY <1>7, <1>8, <1>10, <1>11, <1>12 DEF MonInv

(* server_reconfigure: the registered children are told, and an empty      *)
(* queue takes over.                                                       *)
LEMMA ReconfigureStep ==
  ASSUME MonInv, server_reconfigure
  PROVE  MonInv'
  <1>. DEFINE Told(i) == IF i \in Used(cur) THEN [childs[cur][i] EXCEPT !.father_said = GRACEFULLY]
                         ELSE childs[cur][i]
  <1>1. /\ childs' = [childs EXCEPT ![cur] = [i \in Slots |-> Told(i)]]
        /\ old = 0 /\ cur <= MaxReconfigures /\ old' = cur /\ cur' = cur + 1
        /\ proc' = proc /\ gen' = gen
    BY DEF server_reconfigure
  <1>2. cur \in Generations /\ cur' \in Generations /\ Queues = {cur} /\ Queues' = {cur, cur'}
    BY <1>1, MonitorAssumption DEF MonInv, MonType, Generations, Queues
  <1>3. \A i \in Slots : Told(i) \in ChildRec /\ Told(i).pid = childs[cur][i].pid
    <2>. TAKE i \in Slots
    <2>1. childs[cur][i] \in ChildRec /\ GRACEFULLY \in Modes
      BY <1>2 DEF MonInv, MonType, Modes
    <2>. QED
      BY <2>1 DEF ChildRec
  <1>. HIDE DEF Told
  <1>4. /\ childs' \in [Generations -> [Slots -> ChildRec]]
        /\ \A g \in Generations, i \in Slots : childs'[g][i].pid = childs[g][i].pid
    BY <1>1, <1>2, <1>3 DEF MonInv, MonType
  <1>5. \A i \in Slots : childs[cur'][i].pid = NoPid
    BY <1>1, <1>2 DEF MonInv, FutureEmpty, Generations
  <1>6. MonType' /\ FutureEmpty'
    BY <1>1, <1>2, <1>4 DEF MonInv, MonType, FutureEmpty, Generations
  <1>7. SlotsNameChildren' /\ OneSlot'
    BY <1>1, <1>2, <1>4, <1>5 DEF MonInv, SlotsNameChildren, OneSlot
  <1>8. \A p \in Pids : gen[p] # cur'
    BY <1>1, <1>2 DEF MonInv, MonType, Generations
  <1>9. LivingHaveSlots'
    BY <1>1, <1>2, <1>4, <1>8 DEF MonInv, LivingHaveSlots
  <1>. QED
    BY <1>6, <1>7, <1>9 DEF MonInv

(* An order of the monitor in a slot leaves the name of the child.         *)
LEMMA OrderKeeps ==
  ASSUME NEW r \in ChildRec, NEW mode \in Modes
  PROVE  [r EXCEPT !.father_said = mode] \in ChildRec /\ [r EXCEPT !.father_said = mode].pid = r.pid
  BY DEF ChildRec

(* The monitor orders the child in some slot to stop.                      *)
LEMMA StopStep ==
  ASSUME MonInv, NEW i, StopChild(i), cur' = cur, old' = old, gen' = gen, proc' = proc
  PROVE  MonInv'
  <1>1. childs' = [childs EXCEPT ![cur][i].father_said = GRACEFULLY]
    BY DEF StopChild
  <1>2. childs \in [Generations -> [Slots -> ChildRec]] /\ cur \in Generations /\ GRACEFULLY \in Modes
    BY DEF MonInv, MonType, Modes
  <1>. DEFINE r == [childs[cur][i] EXCEPT !.father_said = GRACEFULLY]
  <1>3. i \in Slots => r \in ChildRec /\ r.pid = childs[cur][i].pid
    BY <1>2, OrderKeeps
  <1>4. childs' = [childs EXCEPT ![cur][i] = r]
    BY <1>1
  <1>. HIDE DEF r
  <1>5. /\ childs' \in [Generations -> [Slots -> ChildRec]]
        /\ \A g \in Generations, j \in Slots : childs'[g][j].pid = childs[g][j].pid
    BY <1>2, <1>3, <1>4
  <1>. QED
    BY <1>5, PidsKept DEF MonInv, MonType

(* Every step of the monitor, of a child and of the commands keeps the     *)
(* invariant; one step per action.                                         *)
LEMMA MonStep == MonInv /\ [Next]_vars => MonInv'
  <1>. SUFFICES ASSUME MonInv, [Next]_vars PROVE MonInv'
    OBVIOUS
  <1>t. /\ childs \in [Generations -> [Slots -> ChildRec]] /\ proc \in [Pids -> ProcStates]
        /\ cur \in Generations
    BY DEF MonInv, MonType
  <1>k. NO_KILL \in Modes /\ GRACEFULLY \in Modes /\ IMMEDIATELY \in Modes
    BY DEF Modes
  <1>s. ASSUME UNCHANGED <<childs, proc, gen, cur, old>> PROVE MonInv'
    BY <1>s, <1>t, PidsKept
  <1>1. CASE StartServers
    BY <1>1, <1>s, ForkStep DEF StartServers
  <1>2. CASE ReplaceChild
    BY <1>2, ForkStep DEF ReplaceChild
  <1>3. CASE RetireChild
    BY <1>3, StopStep DEF RetireChild
  <1>4. CASE AddChild
    BY <1>4, ForkStep DEF AddChild
  <1>5. ASSUME NEW used, childs_queue_stats(used) PROVE MonInv'
    BY <1>5, <1>s DEF childs_queue_stats, childVars
  <1>6. ASSUME NEW idles, StopSpareChild(idles) PROVE MonInv'
    BY <1>6, StopStep DEF StopSpareChild
  <1>7. CASE LeaveChildren \/ Decided \/ NoMoreExited \/ NoReconfigure \/ ReconfigureFails
    BY <1>7, <1>s DEF LeaveChildren, Decided, NoMoreExited, NoReconfigure, ReconfigureFails, childVars
  <1>8. ASSUME NEW p \in Pids, check_for_exited_childs(p) PROVE MonInv'
    BY <1>8, ReapStep
  <1>9. CASE server_reconfigure
    BY <1>9, ReconfigureStep
  <1>10. CASE send_term_to_childs
    <2>1. /\ childs' \in [Generations -> [Slots -> ChildRec]]
          /\ \A g \in Generations, i \in Slots : childs'[g][i].pid = childs[g][i].pid
      BY <1>10, <1>t, <1>k, OrderKeeps DEF send_term_to_childs
    <2>. QED
      BY <1>10, <1>t, <2>1, PidsKept DEF send_term_to_childs
  <1>11. CASE wait_childs_to_exit
    BY <1>11, WaitStep
  <1>12. CASE ReconfigureNoMemory
    <2>1. /\ childs' \in [Generations -> [Slots -> ChildRec]]
          /\ \A g \in Generations, i \in Slots : childs'[g][i].pid = childs[g][i].pid
      BY <1>12, <1>t, <1>k, OrderKeeps DEF ReconfigureNoMemory
    <2>. QED
      BY <1>12, <1>t, <2>1, PidsKept DEF ReconfigureNoMemory
  <1>13. ASSUME NEW p \in Pids, register_child(p) PROVE MonInv'
    BY <1>13, RegisterStep
  <1>14. ASSUME NEW p \in Pids, child_main(p) PROVE MonInv'
    <2>. DEFINE r == IF Mine(p).father_said # NO_KILL
                     THEN [Mine(p) EXCEPT !.to_be_killed = IMMEDIATELY] ELSE Mine(p)
    <2>1. Mine(p) \in ChildRec => r \in ChildRec /\ r.pid = Mine(p).pid
      BY <1>k DEF ChildRec
    <2>2. SetMine(p, r)
      BY <1>14 DEF child_main
    <2>. HIDE DEF r
    <2>3. /\ childs' \in [Generations -> [Slots -> ChildRec]]
          /\ \A g \in Generations, i \in Slots : childs'[g][i].pid = childs[g][i].pid
      BY <2>1, <2>2, OwnSlot
    <2>4. /\ proc' \in [Pids -> ProcStates]
          /\ \A q \in Pids : /\ proc'[q] \in {"none", "forked"} => proc[q] \in {"none", "forked"}
                             /\ proc'[q] \in Living => proc[q] \in Living
      BY <1>14, <1>t DEF child_main, ProcStates, Living
    <2>. QED
      BY <1>14, <2>3, <2>4, PidsKept DEF child_main, monVars
  <1>15. ASSUME NEW p \in Pids, term_handler_child(p) PROVE MonInv'
    <2>. DEFINE r == [Mine(p) EXCEPT !.to_be_killed =
                       IF Mine(p).father_said = NO_KILL THEN IMMEDIATELY ELSE Mine(p).father_said]
    <2>1. Mine(p) \in ChildRec => r \in ChildRec /\ r.pid = Mine(p).pid
      BY <1>k DEF ChildRec
    <2>2. SetMine(p, r)
      BY <1>15 DEF term_handler_child
    <2>. HIDE DEF r
    <2>3. /\ childs' \in [Generations -> [Slots -> ChildRec]]
          /\ \A g \in Generations, i \in Slots : childs'[g][i].pid = childs[g][i].pid
      BY <2>1, <2>2, OwnSlot
    <2>. QED
      BY <1>15, <1>t, <2>3, PidsKept DEF term_handler_child, monVars
  <1>16. ASSUME NEW p \in Pids, RequestServed(p) PROVE MonInv'
    <2>. DEFINE r == [Mine(p) EXCEPT !.requests = @ + 1]
    <2>1. Mine(p) \in ChildRec => r \in ChildRec /\ r.pid = Mine(p).pid
      BY DEF ChildRec
    <2>2. SetMine(p, r)
      BY <1>16 DEF RequestServed
    <2>. HIDE DEF r
    <2>3. /\ childs' \in [Generations -> [Slots -> ChildRec]]
          /\ \A g \in Generations, i \in Slots : childs'[g][i].pid = childs[g][i].pid
      BY <2>1, <2>2, OwnSlot
    <2>. QED
      BY <1>16, <1>t, <2>3, PidsKept DEF RequestServed, monVars
  <1>17. ASSUME NEW p \in Pids, NEW mode \in Modes, StopsAlone(p, mode) PROVE MonInv'
    <2>. DEFINE r == [Mine(p) EXCEPT !.to_be_killed = mode]
    <2>1. Mine(p) \in ChildRec => r \in ChildRec /\ r.pid = Mine(p).pid
      BY DEF ChildRec
    <2>2. SetMine(p, r)
      BY <1>17 DEF StopsAlone
    <2>. HIDE DEF r
    <2>3. /\ childs' \in [Generations -> [Slots -> ChildRec]]
          /\ \A g \in Generations, i \in Slots : childs'[g][i].pid = childs[g][i].pid
      BY <2>1, <2>2, OwnSlot
    <2>. QED
      BY <1>17, <1>t, <2>3, PidsKept DEF StopsAlone, monVars
  <1>18. ASSUME NEW p \in Pids, NEW mode, child_exits(p, mode) PROVE MonInv'
    <2>1. /\ proc' \in [Pids -> ProcStates]
          /\ \A q \in Pids : /\ proc'[q] \in {"none", "forked"} => proc[q] \in {"none", "forked"}
                             /\ proc'[q] \in Living => proc[q] \in Living
      BY <1>18, <1>t DEF child_exits, ProcStates, Living
    <2>. QED
      BY <1>18, <1>t, <2>1, PidsKept DEF child_exits, monVars
  <1>19. ASSUME NEW p \in Pids, ChildCrashes(p) PROVE MonInv'
    <2>1. /\ proc' \in [Pids -> ProcStates]
          /\ \A q \in Pids : /\ proc'[q] \in {"none", "forked"} => proc[q] \in {"none", "forked"}
                             /\ proc'[q] \in Living => proc[q] \in Living
      BY <1>19, <1>t DEF ChildCrashes, ProcStates, Living
    <2>. QED
      BY <1>19, <1>t, <2>1, PidsKept DEF ChildCrashes, monVars
  <1>20. CASE stop_command \/ reconfigure_command
    BY <1>20, <1>s DEF stop_command, reconfigure_command, childVars, monVars
  <1>21. CASE UNCHANGED vars
    BY <1>21, <1>s DEF vars, childVars, monVars
  <1>. QED
    BY <1>1, <1>2, <1>3, <1>4, <1>5, <1>6, <1>7, <1>8, <1>9, <1>10, <1>11, <1>12, <1>13, <1>14,
       <1>15, <1>16, <1>17, <1>18, <1>19, <1>20, <1>21, <1>k
    DEF Next, start_server, Child

(* The invariant says of the queues in use what SlotsAreChildren says.     *)
LEMMA MonInvSound == MonInv => SlotsAreChildren
  <1>. SUFFICES ASSUME MonInv PROVE SlotsAreChildren
    OBVIOUS
  <1>1. ASSUME NEW g \in Queues, NEW i \in Used(g)
        PROVE  LET p == childs[g][i].pid
               IN /\ proc[p] \notin {"none", "forked"} /\ gen[p] = g
                  /\ \A h \in Queues, j \in Slots : childs[h][j].pid = p => h = g /\ j = i
    BY DEF MonInv, Used, SlotsNameChildren, OneSlot
  <1>2. ASSUME NEW p \in Pids, proc[p] \in Living, gen[p] \in Queues PROVE Knows(gen[p], p)
    BY <1>2 DEF MonInv, LivingHaveSlots, Knows
  <1>. QED
    BY <1>1, <1>2 DEF SlotsAreChildren

(* The monitor signals and waits for its own children only and loses track *)
(* of none that lives, over forks, crashes, reused process ids and         *)
(* reconfigurations, for any number of each.                               *)
THEOREM SlotsOfChildren == Spec => []SlotsAreChildren
  BY MonInit, MonStep, MonInvSound, PTL DEF Spec

(* The queue of the last configuration is destroyed only by the reaping of *)
(* its last child.                                                         *)
THEOREM OldQueueUnused == Spec => DestroyedUnused
  <1>1. ASSUME MonInv, [Next]_vars, old # 0, old' # old, mpc = "reap"
        PROVE  ~ \E p \in Pids : proc'[p] \in Living /\ gen'[p] = old
    <2>1. \E p \in Pids : check_for_exited_childs(p)
      BY <1>1
      DEF Next, start_server, Child, StartServers, ReplaceChild, RetireChild, AddChild,
          childs_queue_stats, StopSpareChild, LeaveChildren, Decided, NoMoreExited, NoReconfigure,
          server_reconfigure, send_term_to_childs, wait_childs_to_exit, ReconfigureFails,
          ReconfigureNoMemory, register_child, child_main, term_handler_child, child_exits,
          StopsAlone, ChildCrashes, RequestServed, stop_command, reconfigure_command, Monitor,
          vars, monVars
    <2>. QED
      BY <1>1, <2>1, ReapStep
  <1>2. MonInv /\ [Next]_vars =>
          [old # 0 /\ old' # old /\ mpc = "reap" =>
             ~ \E p \in Pids : proc'[p] \in Living /\ gen'[p] = old]_vars
    BY <1>1
  <1>. QED
    BY MonInit, MonStep, <1>2, PTL DEF Spec, DestroyedUnused
=============================================================================
