------------------------------- MODULE Stats --------------------------------
(***************************************************************************)
(* The statistics of stats.c and their place in the shared memory of the   *)
(* children queue (proc_threads_queues.c): the monitor registers the       *)
(* counters while it reads a configuration, every child counts in a block  *)
(* of its own, the monitor adds the block of a dead child to the history,  *)
(* and the information service (info.c) sums them all up without a lock.   *)
(* A reconfiguration starts a new queue, perhaps with more counters, while *)
(* the children of the old one still run.                                  *)
(***************************************************************************)
EXTENDS Naturals, Sequences, FiniteSets, FiniteSetsExt, SequencesExt

CONSTANTS
  StatNames,      \* names of counters, with their group
  StatType,       \* the type of the counter of each name: "int64" or "mean"
  StatSlots,      \* places for children in a queue
  StatMod,        \* 2^64: counters wrap
  MaxEntries,     \* bound: counters registered
  MaxAdded,       \* bound: updates of the counters of the queues there are
  MaxStarted      \* bound: children started in the queues there are

ASSUME StatsAssumption ==
  /\ StatSlots \in Nat \ {0} /\ StatMod \in Nat \ {0}
  /\ StatType \in [StatNames -> {"int64", "mean"}]     \* kbs counters add up like int64 ones
  /\ {MaxEntries, MaxAdded, MaxStarted} \subseteq Nat

NoQueue == [count |-> 0, started |-> 0, updates |-> 0]

VARIABLES
  entries,        \* STAT_STATS of the monitor
  reading,        \* the monitor is reading a configuration
  queues,         \* childs_queue ("now") and old_childs_queue ("old")
  aborted,        \* the assertion that has ended the monitor: "no", "check", "merge"
  report          \* the page that the information service builds

statVars == <<entries, reading, queues, aborted, report>>

(* The block of a child: checked for its signature, as long as the table   *)
(* of counters was when the child was forked.                              *)
Zeros(n) == [i \in 1..n |-> 0]
NoBlock == [sig |-> FALSE, stats |-> <<>>]

(* child_shared_data_t: no child, a child that has registered, one that    *)
(* has attached its block, one that is to be killed, one that has died and *)
(* has not been waited for.                                                *)
FreeKid == [is |-> "none", block |-> NoBlock]

(* create_childs_queue; updates, total and early are ghosts: how often and *)
(* what the children have counted, and that one has ended before it        *)
(* attached its block.                                                     *)
create_childs_queue(n) ==
  [count |-> n, kids |-> [s \in 1..StatSlots |-> FreeKid], started |-> 0, updates |-> 0,
   history |-> Zeros(n), total |-> Zeros(n), early |-> FALSE]

NoReport == [at |-> 0, by |-> 0, sums |-> <<>>, kids |-> 0, due |-> <<>>, steady |-> FALSE]

StatsInit ==
  /\ entries = <<>> /\ reading = TRUE
  /\ queues = [w \in {"now", "old"} |-> NoQueue] /\ aborted = "no" /\ report = NoReport

Up == aborted = "no"
There(w) == Up /\ queues[w] # NoQueue

(* A child of the current queue has started, closed or ended meanwhile.    *)
Disturbed(w) == [report EXCEPT !.steady = @ /\ w = "old"]

(***************************************************************************)
(* Registration                                                            *)
(***************************************************************************)
(* ci_stat_entry_register and stat_entry_add: the group of the counter is  *)
(* part of its name, and a name that is known keeps the counter it has.    *)
ci_stat_entry_register(name) ==
  /\ Up /\ reading /\ Len(entries) < MaxEntries
  /\ \A i \in DOMAIN entries : entries[i].name # name
  /\ entries' = Append(entries, [name |-> name, type |-> StatType[name]])
  /\ UNCHANGED <<reading, queues, aborted, report>>

(* The queue of the configuration that has been read; at a reconfiguration *)
(* the queue there was becomes the old one.                                *)
StartQueue ==
  /\ Up /\ reading /\ entries # <<>>
  /\ queues' = [now |-> create_childs_queue(Len(entries)), old |-> queues["now"]]
  /\ reading' = FALSE
  /\ report' = NoReport
  /\ UNCHANGED <<entries, aborted>>

(* server_reconfigure, ignored while an old queue is there.                *)
StatReconfigure ==
  /\ Up /\ ~reading /\ queues["old"] = NoQueue
  /\ reading' = TRUE
  /\ UNCHANGED <<entries, queues, aborted, report>>

(***************************************************************************)
(* Children                                                                *)
(***************************************************************************)
(* register_child takes the first free place and leaves its block as the   *)
(* child before has left it.                                               *)
register_child(s) ==
  /\ There("now") /\ ~reading /\ queues["now"].started + queues["old"].started < MaxStarted
  /\ LET kids == queues["now"].kids IN kids[s].is = "none" /\ \A r \in 1..(s - 1) : kids[r].is # "none"
  /\ queues' = [queues EXCEPT !["now"].kids[s].is = "registered", !["now"].started = @ + 1]
  /\ report' = Disturbed("now")
  /\ UNCHANGED <<entries, reading, aborted>>

(* Mutant: a block that has a signature is not initialized again.          *)
ci_stat_attach_mem_Keeps(w, s) ==
  /\ There(w) /\ queues[w].kids[s].is = "registered"
  /\ queues' = [queues EXCEPT ![w].kids[s].is = "up",
                              ![w].kids[s].block = IF @.sig THEN @ ELSE [sig |-> TRUE, stats |-> Zeros(queues[w].count)]]
  /\ UNCHANGED <<entries, reading, aborted, report>>

(* ci_stat_attach_mem in child_main initializes the block.                 *)
ci_stat_attach_mem(w, s) ==
  /\ There(w) /\ queues[w].kids[s].is = "registered"
  /\ queues' = [queues EXCEPT ![w].kids[s] = [is |-> "up", block |-> [sig |-> TRUE, stats |-> Zeros(queues[w].count)]]]
  /\ UNCHANGED <<entries, reading, aborted, report>>

(* ci_stat_uint64_inc and ci_stat_kbs_inc add, ci_stat_uint64_dec takes    *)
(* away, ci_stat_value_set stores; ci_stat_update does one of the three by *)
(* type and sign, and stores mean values.                                  *)
Updated(type, value, how) ==
  IF type = "mean" \/ how = "set" THEN 1
  ELSE IF how = "inc" THEN (value + 1) % StatMod ELSE (value + StatMod - 1) % StatMod

(* A child that is to be killed still serves.  The page that is being      *)
(* built should count an update of a block that it has not read yet.       *)
ci_stat_update(w, s, i, how) ==
  /\ There(w) /\ queues[w].kids[s].is \in {"up", "closing"}
  /\ queues["now"].updates + queues["old"].updates < MaxAdded
  /\ LET old == queues[w].kids[s].block.stats[i]
         new == Updated(entries[i].type, old, how)
         moved(n) == (n + StatMod + new - old) % StatMod
     IN  /\ queues' = [queues EXCEPT ![w].kids[s].block.stats[i] = new,
                                     ![w].total[i] = moved(@), ![w].updates = @ + 1]
         /\ report' = IF w = "now" /\ report.at \in 1..s THEN [report EXCEPT !.due[i] = moved(@)] ELSE report
  /\ UNCHANGED <<entries, reading, aborted>>

(* to_be_killed, set by the child: the father's order, or its own failure. *)
ChildCloses(w, s) ==
  /\ There(w) /\ queues[w].kids[s].is = "up"
  /\ queues' = [queues EXCEPT ![w].kids[s].is = "closing"]
  /\ report' = Disturbed(w)
  /\ UNCHANGED <<entries, reading, aborted>>

(* ci_stat_memblock_check and the assertions of ci_stat_memblock_merge, in *)
(* a process whose table has n counters.                                   *)
ci_stat_memblock_check(b, n) == b.sig /\ Len(b.stats) <= n
MergeAsserts(to, from, n) == Len(to) >= Len(from) /\ Len(to) = n

(* ci_stat_memblock_merge of a block into sums that stand for n children,  *)
(* or into the history.                                                    *)
ci_stat_memblock_merge(to, from, history, n) ==
  [i \in DOMAIN to |->
     IF i \notin DOMAIN from THEN to[i]
     ELSE IF entries[i].type # "mean" THEN (to[i] + from[i]) % StatMod
     ELSE IF history THEN to[i] ELSE (n * to[i] + from[i]) \div (n + 1)]

(* remove_child, in the monitor, of a child that has ended at any time     *)
(* since it registered.                                                    *)
Removed(q, s) ==
  [q EXCEPT !.kids[s].is = "none",
            !.early = @ \/ q.kids[s].is = "registered",
            !.history = ci_stat_memblock_merge(@, q.kids[s].block.stats, TRUE, 0)]

AssertFails(q, s) ==
  IF ~ci_stat_memblock_check(q.kids[s].block, Len(entries)) THEN "check"
  ELSE IF ~MergeAsserts(q.history, q.kids[s].block.stats, Len(entries)) THEN "merge" ELSE "no"

(* An old queue is destroyed when it is empty.                             *)
remove_child(w, s) ==
  /\ There(w) /\ ~reading /\ queues[w].kids[s].is # "none"
  /\ aborted' = AssertFails(queues[w], s)
  /\ queues' = IF aborted' # "no" THEN queues
               ELSE IF w = "old" /\ \A r \in 1..StatSlots : r # s => queues[w].kids[r].is = "none"
                    THEN [queues EXCEPT !["old"] = NoQueue]
               ELSE [queues EXCEPT ![w] = Removed(@, s)]
  /\ report' = IF w = "now" /\ report.by = s THEN NoReport ELSE Disturbed(w)
  /\ UNCHANGED <<entries, reading>>

(***************************************************************************)
(* The information service                                                 *)
(***************************************************************************)
(* What the history and the blocks of some children add up to.             *)
Sum(q, kids, i) == FoldSet(LAMBDA s, a : a + q.kids[s].block.stats[i], q.history[i], kids) % StatMod

(* fill_queue_statistics and ci_server_stat_get_all_stats, in a child: one *)
(* place of the queue at a time and no lock held; due is a ghost: what the *)
(* page should count if no child starts, closes or ends meanwhile.         *)
ReportBegins(by) ==
  /\ There("now") /\ report = NoReport
  /\ LET q == queues["now"]
         live == {s \in 1..StatSlots : q.kids[s].is = "up"}
     IN  /\ q.kids[by].is \in {"up", "closing"}
         /\ report' = [at |-> 1, by |-> by, sums |-> Zeros(q.count), kids |-> 0,
                       steady |-> \A s \in 1..StatSlots : q.kids[s].is \in {"none", "up"},
                       due |-> [i \in 1..q.count |-> Sum(q, live, i)]]
  /\ UNCHANGED <<entries, reading, queues, aborted>>

(* An assertion ends the child that builds the page.                       *)
ReportReadsChild ==
  /\ Up /\ report.at \in 1..StatSlots
  /\ LET k == queues["now"].kids[report.at]
         n == queues["now"].count
         reads == k.is \in {"registered", "up", "dead"}
         holds == ci_stat_memblock_check(k.block, n) /\ MergeAsserts(report.sums, k.block.stats, n)
     IN  IF reads /\ ~holds
         THEN report' = NoReport /\ queues' = [queues EXCEPT !["now"].kids[report.by].is = "dead"]
         ELSE /\ report' = IF reads
                           THEN [report EXCEPT !.at = @ + 1, !.kids = @ + 1,
                                               !.sums = ci_stat_memblock_merge(@, k.block.stats, FALSE, report.kids)]
                           ELSE [report EXCEPT !.at = @ + 1]
              /\ UNCHANGED queues
  /\ UNCHANGED <<entries, reading, aborted>>

ReportReadsHistory ==
  /\ Up /\ report.at = StatSlots + 1
  /\ report' = [report EXCEPT !.at = @ + 1,
                              !.sums = ci_stat_memblock_merge(@, queues["now"].history, TRUE, report.kids)]
  /\ UNCHANGED <<entries, reading, queues, aborted>>

ReportSent ==
  /\ Up /\ report.at = StatSlots + 2
  /\ report' = NoReport
  /\ UNCHANGED <<entries, reading, queues, aborted>>

StatsNext ==
  \/ \E n \in StatNames : ci_stat_entry_register(n)
  \/ StartQueue \/ StatReconfigure
  \/ \E s \in 1..StatSlots :
       \/ register_child(s) \/ ReportBegins(s)
       \/ \E w \in {"now", "old"} :
            \/ ci_stat_attach_mem(w, s) \/ ChildCloses(w, s) \/ remove_child(w, s)
            \/ \E i \in 1..queues[w].count, how \in {"inc", "dec", "set"} : ci_stat_update(w, s, i, how)
  \/ ReportReadsChild \/ ReportReadsHistory \/ ReportSent

(***************************************************************************)
(* Properties                                                              *)
(***************************************************************************)
Adds(i) == entries[i].type # "mean"
Serving(q) == {s \in 1..StatSlots : q.kids[s].is \in {"up", "closing", "dead"}}

(* Nothing that a child has counted is lost or counted twice when it ends, *)
(* crashes or its place goes to another one: the history and the blocks of *)
(* the children add up to what was counted.  Except when a child ends      *)
(* between register_child and ci_stat_attach_mem, for then remove_child    *)
(* adds the block of the child before it a second time.  A page of the     *)
(* information service that no child's start, closing or end has disturbed *)
(* counts exactly the updates that came before it read the block           *)
(* (fill_queue_statistics).  And an assertion ends the monitor in two      *)
(* cases only: a child has ended before it attached, in a place where none *)
(* had (proc_threads_queues.c:344), or a child of the old queue has ended  *)
(* after a reconfiguration that brought counters, which the comment at     *)
(* stats.c:496 expects and the assertion at :498 forbids.                  *)
StatsConserved ==
  /\ \A w \in {"now", "old"} :
       LET q == queues[w] IN
       q # NoQueue /\ ~q.early => \A i \in 1..q.count : Adds(i) => Sum(q, Serving(q), i) = q.total[i]
  /\ report.at = StatSlots + 2 /\ report.steady =>
       \A i \in 1..queues["now"].count : Adds(i) => report.sums[i] = report.due[i]
  /\ aborted = "check" =>
       \E w \in {"now", "old"} :
         /\ queues[w] # NoQueue
         /\ \E s \in 1..StatSlots : LET k == queues[w].kids[s] IN k.is = "registered" /\ ~k.block.sig
  /\ aborted = "merge" => queues["old"] # NoQueue /\ queues["old"].count < Len(entries)
=============================================================================
