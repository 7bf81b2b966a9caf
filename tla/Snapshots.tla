------------------------------ MODULE Snapshots ------------------------------
(***************************************************************************)
(* What is reported per time (info.c): once a second the monitor takes a   *)
(* snapshot of the counters of all children into one of 60 slots for       *)
(* seconds and one of 60 for minutes, and builds the reports for the last  *)
(* second, minute and so on from the slots that are recent enough.  And    *)
(* the statistics that a child updates after every request                 *)
(* (process_request of request.c), with its mean times per request.        *)
(* Servers, used servers and bytes are summed like children and requests.  *)
(***************************************************************************)
EXTENDS Integers, FiniteSets, FiniteSetsExt, Sequences, SequencesExt

CONSTANTS
  SIXTY,          \* 60: seconds of a minute, and slots for them
  HourSlots,      \* 60: slots for minutes
  BACKSECS,       \* 5: how far the last snapshot may be behind
  LongWindows,    \* reports from the minutes: records name, window, range
  MaxKids,        \* bound: children
  MaxPerSecond,   \* bound: requests of a child in a second
  MaxSeconds,     \* bound: seconds
  StatServices,   \* services of requests
  NoStatService,
  Durations,      \* times that requests take
  MaxProcessed    \* bound: requests that process_request counts

VARIABLES
  nowSec, due,    \* the time; when info::monitor_periodic is scheduled
  served,         \* requests of all children, those that have ended included
  kids,           \* children with a pid
  OneMinSecs, OneHourMins,
  info_tstats,    \* report name -> report
  monitorUp,
  seen,           \* ghost: second -> requests and children at its snapshot
  clock, STAT_TIME, stat_time, counters, perRequest, \* process_request
  tookGlobal, took \* ghost: times of the requests, per service

snapVars == <<nowSec, due, served, kids, OneMinSecs, OneHourMins, info_tstats, monitorUp, seen>>
timeVars == <<clock, STAT_TIME, stat_time, counters, perRequest, tookGlobal, took>>

NoSnapshot == [when |-> 0, when_max |-> 0, snapshots |-> 0, requests |-> 0, children |-> 0]
NoPage == [requests |-> 0, children |-> 0, start |-> 0, end |-> 0]
StartTime == SIXTY * SIXTY + SIXTY - 1   \* the last second of a minute
NoTimes == [indx |-> 0, accumulated |-> 0, requests |-> 0]
AllStats == StatServices \cup {NoStatService}

(* info_monitor_init_cmd.                                                  *)
SnapshotsInit ==
  /\ nowSec = StartTime /\ due = StartTime + 1 /\ served = 0 /\ kids \in 0..MaxKids
  /\ OneMinSecs = [i \in 0..(SIXTY - 1) |-> NoSnapshot]
  /\ OneHourMins = [i \in 0..(HourSlots - 1) |-> NoSnapshot]
  /\ info_tstats = [r \in {"1sec", "1min"} \cup {w.name : w \in LongWindows} |-> NoPage]
  /\ monitorUp = TRUE /\ seen = <<>>

TimesInit ==
  /\ clock = 1 /\ STAT_TIME = NoTimes /\ stat_time = [s \in StatServices |-> NoTimes]
  /\ counters = [s \in AllStats |-> 0] /\ perRequest = [s \in AllStats |-> 0]
  /\ tookGlobal = <<>> /\ took = [s \in StatServices |-> <<>>]

(***************************************************************************)
(* The world: time passes, requests are served, children come and go       *)
(***************************************************************************)
Tick ==
  /\ monitorUp /\ nowSec < StartTime + MaxSeconds
  /\ \E k \in 0..MaxKids : \E n \in 0..(k * MaxPerSecond) :
       nowSec' = nowSec + 1 /\ served' = served + n /\ kids' = k
  /\ UNCHANGED <<due, OneMinSecs, OneHourMins, info_tstats, monitorUp, seen>>

(***************************************************************************)
(* Snapshots                                                               *)
(***************************************************************************)
(* What the slot of a second becomes in take_snapshot.                     *)
SecondSlot(old) ==
  LET s == IF old.when = nowSec THEN old ELSE [NoSnapshot EXCEPT !.when = nowSec, !.when_max = nowSec]
  IN  [s EXCEPT !.snapshots = @ + 1, !.requests = served, !.children = @ + kids]

(* Mutant: the slot keeps the time it was first used.                      *)
MinuteSlot_Keeps(old) ==
  LET s == IF old.when # 0 THEN [old EXCEPT !.when_max = nowSec]
           ELSE [NoSnapshot EXCEPT !.when = nowSec, !.when_max = nowSec]
  IN  [s EXCEPT !.snapshots = @ + 1, !.requests = served, !.children = @ + kids]

(* The slot of a minute: the seconds of its time are compared with the     *)
(* number of the minute since 1970, so that it is always started anew.     *)
MinuteSlot(old) ==
  LET s == IF old.when % SIXTY # nowSec \div SIXTY THEN [NoSnapshot EXCEPT !.when = nowSec, !.when_max = nowSec]
           ELSE [old EXCEPT !.when_max = nowSec]
  IN  [s EXCEPT !.snapshots = @ + 1, !.requests = served, !.children = @ + kids]

(* append_snapshots.                                                       *)
NoResults == [snapshots |-> 0, start |-> 0, end |-> 0, first |-> 0, last |-> 0, children |-> 0]
append_snapshots(r, a) ==
  LET from == IF r.start > a.when \/ r.start = 0 THEN [r EXCEPT !.start = a.when, !.first = a.requests] ELSE r
      upto == IF r.end < a.when_max THEN [from EXCEPT !.end = a.when_max, !.last = a.requests] ELSE from
  IN  [upto EXCEPT !.snapshots = @ + a.snapshots, !.children = @ + a.children]

(* Those of the slots that are no older than a time, in their order.       *)
Accumulated(slots, since) ==
  LET order == [i \in 1..Cardinality(DOMAIN slots) |-> slots[i - 1]]
  IN  FoldLeft(append_snapshots, NoResults, SelectSeq(order, LAMBDA a : a.when >= since))

(* build_per_time_stats, not for a period that is too short; without any   *)
(* child it divides by zero.                                               *)
Period(acc) == IF acc.end > acc.start THEN acc.end - acc.start ELSE 1
build_per_time_stats(old, acc, range) ==
  IF Period(acc) < range THEN old
  ELSE [requests |-> acc.last - acc.first, children |-> acc.children \div acc.snapshots,
        start |-> acc.start, end |-> acc.end]
DividesByZero(acc, range) == Period(acc) >= range /\ acc.children = 0

(* The snapshot before this one: the last of BACKSECS seconds.             *)
Previous(secs) ==
  LET back == {b \in 1..BACKSECS : secs[(nowSec - b) % SIXTY].when = nowSec - b}
  IN  IF back = {} THEN <<>> ELSE <<secs[(nowSec - Min(back)) % SIXTY]>>

(* info_monitor_periodic_cmd: take_snapshot, process_snapshot, and the     *)
(* next one is scheduled.                                                  *)
info_monitor_periodic_cmd ==
  /\ monitorUp /\ nowSec >= due
  /\ due' = nowSec + 1
  /\ OneMinSecs' = [OneMinSecs EXCEPT ![nowSec % SIXTY] = SecondSlot(@)]
  /\ OneHourMins' = [OneHourMins EXCEPT ![(nowSec \div SIXTY) % HourSlots] = MinuteSlot(@)]
  /\ LET prev == Previous(OneMinSecs')
         second == FoldLeft(append_snapshots, NoResults, Append(prev, OneMinSecs'[nowSec % SIXTY]))
         minute == Accumulated(OneMinSecs', nowSec - SIXTY)
         long(w) == Accumulated(OneHourMins', nowSec - w.window)
         window(r) == CHOOSE w \in LongWindows : w.name = r
         secondRange == IF prev = <<>> THEN Period(second) + 1 ELSE 1
         all == {<<second, secondRange>>, <<minute, SIXTY - 2>>} \cup {<<long(w), w.range>> : w \in LongWindows}
     IN  /\ monitorUp' = \A a \in all : ~DividesByZero(a[1], a[2])
         /\ info_tstats' =
              IF ~monitorUp' THEN info_tstats
              ELSE [r \in DOMAIN info_tstats |->
                      CASE r = "1sec" -> build_per_time_stats(info_tstats[r], second, secondRange)
                        [] r = "1min" -> build_per_time_stats(info_tstats[r], minute, SIXTY - 2)
                        [] OTHER -> build_per_time_stats(info_tstats[r], long(window(r)), window(r).range)]
  /\ seen' = [t \in DOMAIN seen \cup {nowSec} |-> IF t = nowSec THEN [requests |-> served, children |-> kids] ELSE seen[t]]
  /\ UNCHANGED <<nowSec, served, kids>>

SnapshotsNext == Tick \/ info_monitor_periodic_cmd

(***************************************************************************)
(* Statistics of a request                                                 *)
(***************************************************************************)
(* A new second: the mean of the last one is stored, if it has one, and    *)
(* counting begins anew, without the request that has turned it.           *)
Turned(t) == [indx |-> clock, accumulated |-> 0, requests |-> 0]
Mean(t, old) == IF t.requests = 0 THEN old ELSE t.accumulated \div t.requests
Added(t, us) == [t EXCEPT !.accumulated = @ + us, !.requests = @ + 1]

(* process_request after do_request, under STAT_MTX.  The times of a       *)
(* service are turned by its own request only.                             *)
process_request(s, us) ==
  /\ Len(tookGlobal) < MaxProcessed
  /\ counters' = [counters EXCEPT ![NoStatService] = @ + 1, ![s] = @ + (IF s = NoStatService THEN 0 ELSE 1)]
  /\ LET mine(x) == x = s
     IN  IF clock > STAT_TIME.indx
         THEN /\ perRequest' = [x \in AllStats |->
                   IF x = NoStatService THEN Mean(STAT_TIME, perRequest[x])
                   ELSE IF mine(x) THEN Mean(stat_time[x], perRequest[x]) ELSE perRequest[x]]
              /\ STAT_TIME' = Turned(STAT_TIME)
              /\ stat_time' = [x \in StatServices |-> IF mine(x) THEN Turned(stat_time[x]) ELSE stat_time[x]]
         ELSE /\ STAT_TIME' = Added(STAT_TIME, us)
              /\ stat_time' = [x \in StatServices |-> IF mine(x) THEN Added(stat_time[x], us) ELSE stat_time[x]]
              /\ UNCHANGED perRequest
  /\ tookGlobal' = Append(tookGlobal, us)
  /\ took' = [x \in StatServices |-> IF x = s THEN Append(took[x], us) ELSE took[x]]
  /\ UNCHANGED clock

NextSecond ==
  /\ clock <= Len(tookGlobal) /\ clock' = clock + 1
  /\ UNCHANGED <<STAT_TIME, stat_time, counters, perRequest, tookGlobal, took>>

TimesNext ==
  \/ \E s \in AllStats, us \in Durations : process_request(s, us)
  \/ NextSecond

(***************************************************************************)
(* Properties                                                              *)
(***************************************************************************)
Within(n, times) == times # <<>> /\ Min(ToSet(times)) <= n /\ n <= Max(ToSet(times))

(* A report tells the requests that were served between two snapshots that *)
(* are as far apart as the report says, and a number of children that the  *)
(* server has had in that time, although slots are used again after a      *)
(* minute or an hour and the monitor may skip seconds; that a minute keeps *)
(* its last second only (info.c:1529) is accepted (take_snapshot,          *)
(* append_snapshots, process_snapshot, build_per_time_stats).  The mean    *)
(* time per request of the server and of each service lies within what     *)
(* requests have taken (process_request).                                  *)
ReportsTellTheTruth ==
  /\ \A r \in DOMAIN info_tstats :
       LET t == info_tstats[r]
           during == {u \in DOMAIN seen : t.start <= u /\ u <= t.end}
           windows == {w \in LongWindows : w.name = r}
       IN  t # NoPage =>
             /\ t.requests = seen[t.end].requests - seen[t.start].requests
             /\ \E u \in during : seen[u].children <= t.children
             /\ \E u \in during : t.children <= seen[u].children
             /\ r = "1sec" => t.end - t.start \in 1..BACKSECS
             /\ r = "1min" => t.end - t.start \in (SIXTY - 2)..SIXTY
             /\ \A w \in windows : t.end - t.start \in w.range..w.window
  /\ perRequest[NoStatService] # 0 => Within(perRequest[NoStatService], tookGlobal)
  /\ \A s \in StatServices : perRequest[s] # 0 => Within(perRequest[s], took[s])
=============================================================================
