-------------------------- MODULE DescriptorProofs ---------------------------
(***************************************************************************)
(* Proofs about what the server has open: its log files (Logging), for any *)
(* number of workers, files and formats, and its connections               *)
(* (Connections), for buffers and streams of any size.                     *)
(***************************************************************************)
EXTENDS Logging, Connections, ProofLemmas

(***************************************************************************)
(* Log files                                                               *)
(***************************************************************************)
LogRec == [file : LogNames, fmt : Nat, acl : BOOLEAN, access_log : Nat \cup {NoFile}]
FormatRec == [name : FormatNames, id : Nat]
LogSteps == {"idle", "wait", "print"}

LogTypeOK ==
  /\ logPhase \in {"reading", "running"} /\ logLines \in 0 .. MaxLogLines /\ logReads \in Nat
  /\ LOGFORMATS \in Seq(FormatRec) /\ freed \in Nat
  /\ ACCESS_LOG_FILES \in Seq(LogRec) /\ server_log \in Nat \cup {NoFile}
  /\ nextFile \in Nat \ {0}
  /\ readers \in [Locks -> SUBSET LogWorkers]
  /\ relogAt \in {"no", "wait", "have"} \X Nat
  /\ logAt \in [LogWorkers -> LogSteps \X Nat \X BOOLEAN]

(* There are locks for all log files.                                      *)
Counted == Len(ACCESS_LOG_FILES) <= logLines

(* Whoever logs, or reopens, is at a log file that there is, and only      *)
(* while the server runs.                                                  *)
AtFiles ==
  /\ \A w \in LogWorkers :
       logAt[w] # Idle => logPhase = "running" /\ logAt[w][2] \in 0 .. Len(ACCESS_LOG_FILES)
  /\ relogAt # NoRelog => logPhase = "running" /\ relogAt[2] \in 0 .. Len(ACCESS_LOG_FILES)

(* Each lock: whoever prints is a reader, and none is while relog has it.  *)
LocksHeld ==
  /\ \A w \in LogWorkers : logAt[w][1] = "print" => w \in readers[logAt[w][2]]
  /\ \A k \in Locks : \A w \in readers[k] : logAt[w][1] = "print" /\ logAt[w][2] = k
  /\ relogAt[1] = "have" => readers[relogAt[2]] = {}

(* The FILE of log file k, or of the server log: no two are the same.      *)
FileAt(k) == IF k = 0 THEN server_log ELSE ACCESS_LOG_FILES[k].access_log
Files == 0 .. Len(ACCESS_LOG_FILES)
FilesDiffer ==
  /\ \A k \in Files : FileAt(k) = NoFile \/ FileAt(k) \in 1 .. nextFile - 1
  /\ \A j, k \in Files : FileAt(j) = FileAt(k) /\ FileAt(j) # NoFile => j = k
  /\ logPhase = "reading" => \A k \in Files : FileAt(k) = NoFile
FilesOpen == openFiles = {FileAt(k) : k \in Files} \ {NoFile}

(* Formats of this configuration.                                          *)
FormatsLive ==
  /\ \A i \in DOMAIN LOGFORMATS : LOGFORMATS[i].id >= freed
  /\ \A k \in DOMAIN ACCESS_LOG_FILES :
       ACCESS_LOG_FILES[k].fmt = 0 \/ ACCESS_LOG_FILES[k].fmt >= freed

LogInv ==
  /\ LogTypeOK /\ Counted /\ AtFiles /\ LocksHeld /\ FilesDiffer /\ FilesOpen /\ FormatsLive

(* The files there are and their elements.                                 *)
LEMMA LogFiles ==
  ASSUME LogTypeOK
  PROVE  /\ Len(ACCESS_LOG_FILES) \in Nat /\ DOMAIN ACCESS_LOG_FILES = 1 .. Len(ACCESS_LOG_FILES)
         /\ \A k \in DOMAIN ACCESS_LOG_FILES : ACCESS_LOG_FILES[k] \in LogRec
         /\ Files = DOMAIN ACCESS_LOG_FILES \cup {0}
  BY DEF LogTypeOK, Files

(* Nothing is configured and nothing open.                                 *)
LEMMA LogInit == LoggingInit => LogInv
  <1>. SUFFICES ASSUME LoggingInit PROVE LogInv
    OBVIOUS
  <1>1. LogTypeOK
    <2>1. logLines \in 0 .. MaxLogLines /\ logReads \in Nat /\ freed \in Nat /\ nextFile \in Nat \ {0}
      BY LoggingAssumption DEF LoggingInit
    <2>2. relogAt \in {"no", "wait", "have"} \X Nat
      BY DEF LoggingInit, NoRelog
    <2>3. Idle \in LogSteps \X Nat \X BOOLEAN
      BY DEF Idle, LogSteps
    <2>4. logAt \in [LogWorkers -> LogSteps \X Nat \X BOOLEAN]
      BY <2>3 DEF LoggingInit
    <2>5. readers \in [Locks -> SUBSET LogWorkers]
      BY DEF LoggingInit
    <2>. QED
      BY <2>1, <2>2, <2>4, <2>5, EmptySeq DEF LoggingInit, LogTypeOK
  <1>2. Files = {0} /\ FileAt(0) = NoFile
    BY DEF LoggingInit, Files, FileAt
  <1>3. FilesOpen /\ FilesDiffer
    BY <1>2 DEF LoggingInit, FilesOpen, FilesDiffer
  <1>4. LocksHeld /\ AtFiles
    BY DEF LoggingInit, LocksHeld, AtFiles, Idle, NoRelog
  <1>5. Counted /\ FormatsLive
    BY DEF LoggingInit, Counted, FormatsLive
  <1>. QED
    BY <1>1, <1>3, <1>4, <1>5 DEF LogInv

(* What the invariant says of a thread that prints.                        *)
LEMMA LogInvOpen == LogInv => LogsToOpenFiles
  <1>. SUFFICES ASSUME LogInv PROVE LogsToOpenFiles
    OBVIOUS
  <1>0. LogTypeOK
    BY DEF LogInv
  <1>1. /\ Files = DOMAIN ACCESS_LOG_FILES \cup {0} /\ 0 \notin DOMAIN ACCESS_LOG_FILES
        /\ FileAt(0) = server_log
        /\ \A k \in DOMAIN ACCESS_LOG_FILES : FileAt(k) = ACCESS_LOG_FILES[k].access_log
    BY <1>0, LogFiles DEF FileAt
  <1>2. openFiles = ({ACCESS_LOG_FILES[k].access_log : k \in DOMAIN ACCESS_LOG_FILES}
                     \cup {server_log}) \ {NoFile}
    <2>1. {FileAt(k) : k \in Files}
            = {ACCESS_LOG_FILES[k].access_log : k \in DOMAIN ACCESS_LOG_FILES} \cup {server_log}
      BY <1>1
    <2>. QED
      BY <2>1 DEF LogInv, FilesOpen
  <1>3. ASSUME NEW w \in LogWorkers, logAt[w][1] = "print"
        PROVE  /\ FileAt(logAt[w][2]) = NoFile \/ FileAt(logAt[w][2]) \in openFiles
               /\ relogAt # <<"have", logAt[w][2]>>
    <2>3. Idle[1] = "idle"
      BY DEF Idle
    <2>1. logAt[w] # Idle /\ logAt[w][2] \in Files
      BY <1>3, <2>3 DEF LogInv, AtFiles, Files
    <2>2. w \in readers[logAt[w][2]]
      BY <1>3 DEF LogInv, LocksHeld
    <2>. QED
      BY <2>1, <2>2 DEF LogInv, FilesOpen, LocksHeld
  <1>. QED
    BY <1>2, <1>3 DEF LogsToOpenFiles, LogInv, FormatsLive, FileAt

(* Where a thread goes from a log file.                                    *)
LEMMA NextMatchOutcome ==
  ASSUME LogTypeOK, NEW w, NEW from \in Nat, NEW allowed \in BOOLEAN
  PROVE  /\ NextMatch(w, from, allowed) \in LogSteps \X Nat \X BOOLEAN
         /\ NextMatch(w, from, allowed)[1] # "print"
         /\ NextMatch(w, from, allowed) # Idle => NextMatch(w, from, allowed)[2] \in Files
  <1>. DEFINE ks == {k \in DOMAIN ACCESS_LOG_FILES :
                       k >= from /\ (ACCESS_LOG_FILES[k].acl => allowed)}
              least == CHOOSE k \in ks : \A j \in ks : k <= j
  <1>1. ks \subseteq Nat /\ ks \subseteq Files
    BY LogFiles
  <1>2. NextMatch(w, from, allowed) = IF ks = {} THEN Idle ELSE <<"wait", least, allowed>>
    BY DEF NextMatch
  <1>. HIDE DEF ks
  <1>3. ks # {} => least \in ks
    BY <1>1, LeastOfNats
  <1>. HIDE DEF least
  <1>4. CASE ks = {}
    <2>1. Idle \in LogSteps \X Nat \X BOOLEAN /\ Idle[1] = "idle"
      BY DEF Idle, LogSteps
    <2>2. NextMatch(w, from, allowed) = Idle
      BY <1>2, <1>4
    <2>. QED
      BY <2>1, <2>2
  <1>5. CASE ks # {}
    <2>1. NextMatch(w, from, allowed) = <<"wait", least, allowed>> /\ least \in Files /\ least \in Nat
      BY <1>1, <1>2, <1>3, <1>5
    <2>. QED
      BY <2>1 DEF LogSteps
  <1>. QED
    BY <1>4, <1>5

(* A thread starts to log, waits for a lock, gets it or lets it go.        *)
LEMMA WorkerLogs ==
  ASSUME LogInv, NEW w \in LogWorkers, NEW to \in LogSteps \X Nat \X BOOLEAN,
         logPhase = "running", logAt' = [logAt EXCEPT ![w] = to], to # Idle => to[2] \in Files,
         UNCHANGED <<confLogVars, fileVars, relogAt>>,
         \/ logAt[w][1] # "print" /\ to[1] # "print" /\ readers' = readers
         \/ /\ to[1] = "print" /\ to[2] = logAt[w][2] /\ logAt[w][1] = "wait" /\ CanRead(to[2])
            /\ readers' = [readers EXCEPT ![to[2]] = @ \cup {w}]
         \/ /\ logAt[w][1] = "print" /\ to[1] # "print"
            /\ readers' = [readers EXCEPT ![logAt[w][2]] = @ \ {w}]
  PROVE  LogInv'
  <1>0. LogTypeOK
    BY DEF LogInv
  <1>1. /\ logAt'[w] = to /\ (\A v \in LogWorkers : v # w => logAt'[v] = logAt[v])
        /\ logAt' \in [LogWorkers -> LogSteps \X Nat \X BOOLEAN]
    BY <1>0 DEF LogTypeOK
  <1>2. Files \subseteq Locks
    <2>1. Len(ACCESS_LOG_FILES) \in Nat /\ Len(ACCESS_LOG_FILES) <= logLines
      BY <1>0, LogFiles DEF LogInv, Counted
    <2>2. logLines \in 0 .. MaxLogLines /\ MaxLogLines \in Nat
      BY <1>0, LoggingAssumption DEF LogTypeOK
    <2>. QED
      BY <2>1, <2>2 DEF Files, Locks
  <1>3. to # Idle => to[2] \in Locks
    BY <1>2
  <1>4. Idle[1] = "idle"
    BY DEF Idle
  <1>5. logAt[w][1] \in {"print", "wait"} => logAt[w][2] \in Locks
    BY <1>2, <1>4 DEF LogInv, AtFiles, Files
  <1>6. LogTypeOK'
    <2>0. readers \in [Locks -> SUBSET LogWorkers]
      BY <1>0 DEF LogTypeOK
    <2>1. readers' \in [Locks -> SUBSET LogWorkers]
      <3>1. ASSUME NEW l \in Locks, NEW r \in SUBSET LogWorkers
            PROVE  [readers EXCEPT ![l] = r] \in [Locks -> SUBSET LogWorkers]
        BY <2>0
      <3>2. \A l \in Locks : readers[l] \cup {w} \in SUBSET LogWorkers
                            /\ readers[l] \ {w} \in SUBSET LogWorkers
        BY <2>0
      <3>3. to[1] = "print" => to[2] \in Locks
        BY <1>3, <1>4
      <3>. QED
        BY <1>5, <2>0, <3>1, <3>2, <3>3
    <2>. QED
      BY <1>0, <1>1, <2>1 DEF LogTypeOK, confLogVars, fileVars, Locks
  <1>7. Counted' /\ FilesDiffer' /\ FilesOpen' /\ FormatsLive'
    BY SMTT(40) DEF LogInv, Counted, FilesDiffer, FilesOpen, FormatsLive, Files, FileAt, confLogVars, fileVars
  <1>8. AtFiles'
    BY <1>1 DEF LogInv, AtFiles, confLogVars, fileVars, Files, Idle, NoRelog
  <1>9. LocksHeld'
    <2>1. CASE logAt[w][1] # "print" /\ to[1] # "print" /\ readers' = readers
      BY <1>1, <2>1 DEF LogInv, LocksHeld, Locks
    <2>2. CASE /\ to[1] = "print" /\ to[2] = logAt[w][2] /\ logAt[w][1] = "wait" /\ CanRead(to[2])
               /\ readers' = [readers EXCEPT ![to[2]] = @ \cup {w}]
      <3>1. /\ readers'[to[2]] = readers[to[2]] \cup {w}
            /\ \A k \in Locks : k # to[2] => readers'[k] = readers[k]
        BY <1>0, <1>5, <2>2 DEF LogTypeOK
      <3>2. relogAt # <<"have", to[2]>>
        BY <2>2 DEF CanRead
      <3>3. relogAt[1] = "have" => relogAt[2] # to[2] /\ relogAt[2] \in Locks
        <4>1. relogAt = <<relogAt[1], relogAt[2]>>
          BY <1>0 DEF LogTypeOK
        <4>2. NoRelog[1] = "no"
          BY DEF NoRelog
        <4>. QED
          BY <1>2, <3>2, <4>1, <4>2 DEF LogInv, AtFiles, Files
      <3>4. \A v \in LogWorkers : logAt'[v][1] = "print" => v \in readers'[logAt'[v][2]]
        <4>. SUFFICES ASSUME NEW v \in LogWorkers, logAt'[v][1] = "print"
                      PROVE  v \in readers'[logAt'[v][2]]
          OBVIOUS
        <4>1. CASE v = w
          BY <1>1, <3>1, <4>1
        <4>2. CASE v # w
          <5>1. logAt'[v] = logAt[v] /\ v \in readers[logAt[v][2]] /\ logAt[v][2] \in Locks
            BY <1>1, <1>2, <1>4, <4>2 DEF LogInv, LocksHeld, AtFiles, Files
          <5>. QED
            BY <3>1, <5>1
        <4>. QED
          BY <4>1, <4>2
      <3>5. \A k \in Locks : \A v \in readers'[k] : logAt'[v][1] = "print" /\ logAt'[v][2] = k
        <4>. SUFFICES ASSUME NEW k \in Locks, NEW v \in readers'[k]
                      PROVE  logAt'[v][1] = "print" /\ logAt'[v][2] = k
          OBVIOUS
        <4>1. v \in readers[k] \/ (v = w /\ k = to[2])
          BY <3>1
        <4>2. CASE v \in readers[k]
          <5>1. logAt[v][1] = "print" /\ logAt[v][2] = k /\ v \in LogWorkers
            BY <1>0, <4>2 DEF LogInv, LocksHeld, LogTypeOK
          <5>2. v # w
            BY <2>2, <5>1
          <5>. QED
            BY <1>1, <5>1, <5>2
        <4>3. CASE v = w /\ k = to[2]
          BY <1>1, <2>2, <4>3
        <4>. QED
          BY <4>1, <4>2, <4>3
      <3>6. relogAt'[1] = "have" => readers'[relogAt'[2]] = {}
        BY <3>1, <3>3 DEF LogInv, LocksHeld
      <3>. QED
        BY <3>4, <3>5, <3>6 DEF LocksHeld, Locks
    <2>3. CASE /\ logAt[w][1] = "print" /\ to[1] # "print"
               /\ readers' = [readers EXCEPT ![logAt[w][2]] = @ \ {w}]
      <3>1. /\ readers'[logAt[w][2]] = readers[logAt[w][2]] \ {w}
            /\ \A k \in Locks : k # logAt[w][2] => readers'[k] = readers[k]
        BY <1>0, <1>5, <2>3 DEF LogTypeOK
      <3>2. \A v \in LogWorkers : logAt'[v][1] = "print" => v \in readers'[logAt'[v][2]]
        <4>. SUFFICES ASSUME NEW v \in LogWorkers, logAt'[v][1] = "print"
                      PROVE  v \in readers'[logAt'[v][2]]
          OBVIOUS
        <4>1. v # w /\ logAt'[v] = logAt[v]
          BY <1>1, <2>3
        <4>2. v \in readers[logAt[v][2]] /\ logAt[v][2] \in Locks
          BY <1>2, <1>4, <4>1 DEF LogInv, LocksHeld, AtFiles, Files
        <4>. QED
          BY <3>1, <4>1, <4>2
      <3>3. \A k \in Locks : \A v \in readers'[k] : logAt'[v][1] = "print" /\ logAt'[v][2] = k
        <4>. SUFFICES ASSUME NEW k \in Locks, NEW v \in readers'[k]
                      PROVE  logAt'[v][1] = "print" /\ logAt'[v][2] = k
          OBVIOUS
        <4>1. v \in readers[k] /\ logAt[v][1] = "print" /\ logAt[v][2] = k /\ v \in LogWorkers
          BY <1>0, <3>1 DEF LogInv, LocksHeld, LogTypeOK
        <4>2. v # w
          BY <3>1, <4>1
        <4>. QED
          BY <1>1, <4>1, <4>2
      <3>4. relogAt'[1] = "have" => readers'[relogAt'[2]] = {}
        <4>. SUFFICES ASSUME relogAt[1] = "have" PROVE readers'[relogAt[2]] = {}
          OBVIOUS
        <4>1. NoRelog[1] = "no"
          BY DEF NoRelog
        <4>2. readers[relogAt[2]] = {} /\ relogAt[2] \in Locks
          BY <1>2, <4>1 DEF LogInv, LocksHeld, AtFiles, Files
        <4>. QED
          BY <3>1, <4>2
      <3>. QED
        BY <3>2, <3>3, <3>4 DEF LocksHeld, Locks
    <2>. QED
      BY <2>1, <2>2, <2>3
  <1>. QED
    BY <1>6, <1>7, <1>8, <1>9 DEF LogInv

(* The locks are those of the log files there can be.                      *)
LEMMA FilesHaveLocks ==
  ASSUME LogInv
  PROVE  /\ Files \subseteq Locks /\ NoRelog[1] = "no" /\ Idle[1] = "idle"
         /\ relogAt[1] # "no" => relogAt[2] \in Files /\ logPhase = "running"
         /\ relogAt = <<relogAt[1], relogAt[2]>>
  <1>1. Len(ACCESS_LOG_FILES) \in Nat /\ Len(ACCESS_LOG_FILES) <= logLines
    BY LogFiles DEF LogInv, Counted
  <1>2. logLines \in 0 .. MaxLogLines /\ MaxLogLines \in Nat
    BY LoggingAssumption DEF LogInv, LogTypeOK
  <1>3. Files \subseteq Locks
    BY <1>1, <1>2 DEF Files, Locks
  <1>4. NoRelog[1] = "no" /\ Idle[1] = "idle"
    BY DEF NoRelog, Idle
  <1>5. relogAt = <<relogAt[1], relogAt[2]>>
    BY DEF LogInv, LogTypeOK
  <1>. QED
    BY <1>3, <1>4, <1>5 DEF LogInv, AtFiles, Files

(* relog starts, and waits for the lock of a file.                         *)
LEMMA RelogWaits ==
  ASSUME LogInv, StartRelog \/ RelogLock
  PROVE  LogInv'
  <1>1. /\ logPhase = "running" /\ UNCHANGED <<confLogVars, fileVars, readers, logAt>>
        /\ \E m \in {"wait", "have"}, k \in Files : relogAt' = <<m, k>> /\ (m = "have" => readers[k] = {})
    <2>1. CASE StartRelog
      <3>1. NextLock(0) \in Files
        BY LogFiles DEF LogInv, NextLock, Files
      <3>. QED
        BY <2>1, <3>1 DEF StartRelog
    <2>2. CASE RelogLock
      BY <2>2, FilesHaveLocks DEF RelogLock
    <2>. QED
      BY <2>1, <2>2
  <1>2. PICK m \in {"wait", "have"}, k \in Files : relogAt' = <<m, k>> /\ (m = "have" => readers[k] = {})
    BY <1>1
  <1>3. LogTypeOK'
    <2>1. k \in Nat
      BY LogFiles DEF LogInv, Files
    <2>2. relogAt' \in {"no", "wait", "have"} \X Nat
      BY <1>2, <2>1
    <2>. QED
      BY <1>1, <2>2 DEF LogInv, LogTypeOK, confLogVars, fileVars, Locks
  <1>4. Counted' /\ FilesDiffer' /\ FilesOpen' /\ FormatsLive'
    BY <1>1 DEF LogInv, Counted, FilesDiffer, FilesOpen, FormatsLive, Files, FileAt, confLogVars,
                fileVars
  <1>5. AtFiles'
    BY <1>1, <1>2 DEF LogInv, AtFiles, confLogVars, fileVars, Files, Idle
  <1>6. LocksHeld'
    BY <1>1, <1>2 DEF LogInv, LocksHeld, Locks
  <1>. QED
    BY <1>3, <1>4, <1>5, <1>6 DEF LogInv

(* relog reopens a file: the old FILE was of this log file only, the new   *)
(* one is of nobody else.                                                  *)
LEMMA RelogReopens ==
  ASSUME LogInv, Reopen
  PROVE  LogInv'
  <1>. DEFINE A == ACCESS_LOG_FILES
  <1>0. LogTypeOK
    BY DEF LogInv
  <1>1. PICK k : k = relogAt[2]
    OBVIOUS
  <1>2. /\ k \in Files /\ k \in Nat /\ logPhase = "running" /\ relogAt[1] = "have"
        /\ UNCHANGED <<confLogVars, readers, logAt>> /\ nextFile' = nextFile + 1
        /\ relogAt' = IF k = 0 THEN NoRelog ELSE <<"wait", NextLock(k)>>
    BY <1>0, <1>1, FilesHaveLocks DEF Reopen, LogTypeOK
  <1>3. PICK new \in {nextFile, NoFile} :
          /\ openFiles' = (openFiles \ {FileAt(k)}) \cup ({new} \ {NoFile})
          /\ IF k = 0 THEN server_log' = new /\ UNCHANGED ACCESS_LOG_FILES
             ELSE A' = [A EXCEPT ![k] = [A[k] EXCEPT !.access_log = new]] /\ UNCHANGED server_log
    BY <1>1 DEF Reopen, FileAt
  <1>4. /\ Len(A) \in Nat /\ DOMAIN A = 1 .. Len(A) /\ (\A j \in DOMAIN A : A[j] \in LogRec)
        /\ Files = DOMAIN A \cup {0} /\ 0 \notin DOMAIN A
    BY <1>0, LogFiles
  <1>5. new \in Nat \cup {NoFile} /\ nextFile \in Nat \ {0}
    BY <1>0 DEF LogTypeOK
  <1>6. /\ A' \in Seq(LogRec) /\ Len(A') = Len(A) /\ server_log' \in Nat \cup {NoFile}
        /\ \A j \in DOMAIN A : A'[j].fmt = A[j].fmt
        /\ FileAt(k)' = new /\ \A j \in Files : j # k => FileAt(j)' = FileAt(j)
    <2>1. CASE k = 0
      BY <1>0, <1>3, <1>4, <1>5, <2>1 DEF FileAt, LogTypeOK
    <2>2. CASE k # 0
      <3>. DEFINE r == [A[k] EXCEPT !.access_log = new]
      <3>1. k \in DOMAIN A /\ A[k] \in LogRec
        BY <1>2, <1>4, <2>2
      <3>2. r \in LogRec /\ r.fmt = A[k].fmt /\ r.access_log = new
        BY <1>5, <3>1 DEF LogRec
      <3>3. A' = [A EXCEPT ![k] = r] /\ server_log' = server_log
        BY <1>3, <2>2
      <3>. HIDE DEF r
      <3>4. A' \in Seq(LogRec) /\ Len(A') = Len(A) /\ A'[k] = r /\ \A j \in DOMAIN A : j # k => A'[j] = A[j]
        BY <1>0, <1>4, <3>1, <3>2, <3>3 DEF LogTypeOK
      <3>. QED
        BY <1>0, <1>4, <2>2, <3>1, <3>2, <3>3, <3>4 DEF FileAt, LogTypeOK
    <2>. QED
      BY <2>1, <2>2
  <1>7. Files' = Files
    BY <1>6 DEF Files
  <1>8. NextLock(k) \in Files /\ NextLock(k) \in Nat
    BY <1>2, <1>4 DEF NextLock, Files
  <1>9. LogTypeOK'
    <2>1. relogAt' \in {"no", "wait", "have"} \X Nat
      BY <1>2, <1>8 DEF NoRelog
    <2>2. nextFile' \in Nat \ {0}
      BY <1>2, <1>5
    <2>. QED
      BY <1>0, <1>2, <1>6, <2>1, <2>2 DEF LogTypeOK, confLogVars, Locks
  <1>10. Counted'
    BY <1>2, <1>6 DEF LogInv, Counted, confLogVars
  <1>11. AtFiles'
    <2>1. relogAt' # NoRelog => relogAt'[2] \in Files
      BY <1>2, <1>8
    <2>. QED
      BY <1>2, <1>6, <2>1 DEF LogInv, AtFiles, confLogVars, Files, Idle, NoRelog
  <1>12. LocksHeld'
    <2>1. relogAt'[1] # "have"
      BY <1>2 DEF NoRelog
    <2>. QED
      BY <1>2, <2>1 DEF LogInv, LocksHeld, Locks
  <1>13. FilesDiffer'
    <2>1. \A j \in Files : FileAt(j)' = NoFile \/ FileAt(j)' \in 1 .. nextFile' - 1
      <3>. SUFFICES ASSUME NEW j \in Files PROVE FileAt(j)' = NoFile \/ FileAt(j)' \in 1 .. nextFile' - 1
        OBVIOUS
      <3>1. CASE j = k
        BY <1>2, <1>3, <1>5, <1>6, <3>1
      <3>2. CASE j # k
        BY <1>2, <1>5, <1>6, <3>2 DEF LogInv, FilesDiffer
      <3>. QED
        BY <3>1, <3>2
    <2>2. \A i, j \in Files : FileAt(i)' = FileAt(j)' /\ FileAt(i)' # NoFile => i = j
      <3>. SUFFICES ASSUME NEW i \in Files, NEW j \in Files, FileAt(i)' = FileAt(j)', FileAt(i)' # NoFile
                    PROVE  i = j
        OBVIOUS
      <3>1. \A l \in Files : FileAt(l) # nextFile \/ FileAt(l) = NoFile
        BY <1>5 DEF LogInv, FilesDiffer
      <3>2. new = nextFile \/ new = NoFile
        OBVIOUS
      <3>3. CASE i = k
        BY <1>6, <3>1, <3>2, <3>3
      <3>4. CASE j = k
        BY <1>6, <3>1, <3>2, <3>4
      <3>5. CASE i # k /\ j # k
        BY <1>6, <3>5 DEF LogInv, FilesDiffer
      <3>. QED
        BY <3>3, <3>4, <3>5
    <2>3. logPhase' # "reading"
      BY <1>2 DEF confLogVars
    <2>. QED
      BY <1>7, <2>1, <2>2, <2>3 DEF FilesDiffer
  <1>14. FilesOpen'
    <2>1. openFiles = {FileAt(j) : j \in Files} \ {NoFile}
      BY DEF LogInv, FilesOpen
    <2>2. \A f : f \in openFiles' <=> (f # NoFile /\ \E j \in Files : f = FileAt(j)')
      <3>. SUFFICES ASSUME NEW f
                    PROVE  f \in openFiles' <=> (f # NoFile /\ \E j \in Files : f = FileAt(j)')
        OBVIOUS
      <3>1. f \in openFiles' <=> ((f \in openFiles /\ f # FileAt(k)) \/ (f = new /\ f # NoFile))
        BY <1>3
      <3>2. ASSUME f \in openFiles, f # FileAt(k)
            PROVE  f # NoFile /\ \E j \in Files : f = FileAt(j)'
        <4>1. PICK j \in Files : f = FileAt(j) /\ f # NoFile
          BY <2>1, <3>2
        <4>. QED
          BY <1>6, <3>2, <4>1
      <3>3. ASSUME f = new, f # NoFile PROVE \E j \in Files : f = FileAt(j)'
        BY <1>2, <1>6, <3>3
      <3>4. ASSUME f # NoFile, NEW j \in Files, f = FileAt(j)'
            PROVE  (f \in openFiles /\ f # FileAt(k)) \/ f = new
        <4>1. CASE j = k
          BY <1>6, <3>4, <4>1
        <4>2. CASE j # k
          <5>1. f = FileAt(j) /\ f \in openFiles
            BY <1>6, <2>1, <3>4, <4>2
          <5>2. f # FileAt(k)
            BY <1>2, <3>4, <4>2, <5>1 DEF LogInv, FilesDiffer
          <5>. QED
            BY <5>1, <5>2
        <4>. QED
          BY <4>1, <4>2
      <3>. QED
        BY <3>1, <3>2, <3>3, <3>4
    <2>3. openFiles' = {FileAt(j)' : j \in Files} \ {NoFile}
      BY <2>2
    <2>. QED
      BY <1>7, <2>3 DEF FilesOpen
  <1>15. FormatsLive'
    <2>1. DOMAIN A' = DOMAIN A
      BY <1>4, <1>6
    <2>. QED
      BY <1>2, <1>6, <2>1 DEF LogInv, FormatsLive, confLogVars
  <1>. QED
    BY <1>9, <1>10, <1>11, <1>12, <1>13, <1>14, <1>15 DEF LogInv

(* While a configuration is read nobody logs.                              *)
LEMMA ReadingIsQuiet ==
  ASSUME LogInv, logPhase = "reading"
  PROVE  (\A w \in LogWorkers : logAt[w] = Idle) /\ relogAt = NoRelog
  BY DEF LogInv, AtFiles

(* Who logs and who reopens does not change, and nobody does.              *)
LEMMA QuietStep ==
  ASSUME LogInv, \A w \in LogWorkers : logAt[w] = Idle, relogAt = NoRelog,
         UNCHANGED <<readers, relogAt, logAt>>
  PROVE  AtFiles' /\ LocksHeld'
  <1>1. \A w \in LogWorkers : logAt'[w] = Idle
    OBVIOUS
  <1>2. AtFiles'
    BY <1>1 DEF AtFiles, Idle, NoRelog
  <1>3. LocksHeld'
    BY DEF LogInv, LocksHeld, Locks
  <1>. QED
    BY <1>2, <1>3

(* A format is added.                                                      *)
LEMMA AddsFormat ==
  ASSUME LogInv, NEW name \in FormatNames, logformat_add(name)
  PROVE  LogInv'
  <1>. DEFINE r == [name |-> name, id |-> freed + Len(LOGFORMATS)]
  <1>1. /\ logPhase = "reading" /\ logLines' = logLines + 1 /\ logLines < MaxLogLines
        /\ UNCHANGED <<logPhase, logReads, freed, fileVars, readers, relogAt, logAt>>
        /\ LOGFORMATS' = Append(LOGFORMATS, r)
    BY DEF logformat_add, LogLine
  <1>2. /\ LOGFORMATS \in Seq(FormatRec) /\ Len(LOGFORMATS) \in Nat /\ freed \in Nat
        /\ DOMAIN LOGFORMATS = 1 .. Len(LOGFORMATS)
    BY DEF LogInv, LogTypeOK
  <1>3. r \in FormatRec /\ r.id >= freed
    BY <1>2 DEF FormatRec
  <1>. HIDE DEF r
  <1>4. /\ LOGFORMATS' \in Seq(FormatRec) /\ DOMAIN LOGFORMATS' = 1 .. Len(LOGFORMATS) + 1
        /\ LOGFORMATS'[Len(LOGFORMATS) + 1] = r
        /\ \A i \in 1 .. Len(LOGFORMATS) : LOGFORMATS'[i] = LOGFORMATS[i]
    BY <1>1, <1>2, <1>3
  <1>5. logLines' \in 0 .. MaxLogLines /\ logLines \in Nat
    BY <1>1, LoggingAssumption DEF LogInv, LogTypeOK
  <1>6. LogTypeOK'
    BY <1>1, <1>4, <1>5 DEF LogInv, LogTypeOK, fileVars, Locks
  <1>7. Counted'
    <2>1. Len(ACCESS_LOG_FILES) \in Nat
      BY LogFiles DEF LogInv
    <2>. QED
      BY <1>1, <1>5, <2>1 DEF LogInv, Counted, fileVars
  <1>8. AtFiles' /\ LocksHeld'
    BY <1>1, ReadingIsQuiet, QuietStep
  <1>9. FilesDiffer' /\ FilesOpen'
    BY <1>1 DEF LogInv, FilesDiffer, FilesOpen, Files, FileAt, fileVars
  <1>10. FormatsLive'
    <2>1. \A i \in DOMAIN LOGFORMATS' : LOGFORMATS'[i].id >= freed
      <3>. SUFFICES ASSUME NEW i \in DOMAIN LOGFORMATS' PROVE LOGFORMATS'[i].id >= freed
        OBVIOUS
      <3>1. CASE i \in DOMAIN LOGFORMATS
        BY <1>2, <1>4, <3>1 DEF LogInv, FormatsLive
      <3>2. CASE i \notin DOMAIN LOGFORMATS
        BY <1>2, <1>3, <1>4, <3>2
      <3>. QED
        BY <3>1, <3>2
    <2>. QED
      BY <1>1, <2>1 DEF LogInv, FormatsLive, fileVars
  <1>. QED
    BY <1>6, <1>7, <1>8, <1>9, <1>10 DEF LogInv

(* A format that logformat_fmt finds is one of this configuration.         *)
LEMMA FormatFound ==
  ASSUME LogInv, NEW name
  PROVE  logformat_fmt(name) \in Nat /\ (logformat_fmt(name) = 0 \/ logformat_fmt(name) >= freed)
  <1>. DEFINE at == {i \in DOMAIN LOGFORMATS : LOGFORMATS[i].name = name}
              first == CHOOSE i \in at : \A j \in at : i <= j
  <1>1. at \subseteq Nat /\ at \subseteq DOMAIN LOGFORMATS
    BY DEF LogInv, LogTypeOK
  <1>2. logformat_fmt(name) = IF at = {} THEN 0 ELSE LOGFORMATS[first].id
    BY DEF logformat_fmt
  <1>. HIDE DEF at
  <1>3. at # {} => first \in at
    BY <1>1, LeastOfNats
  <1>. HIDE DEF first
  <1>4. \A i \in DOMAIN LOGFORMATS : LOGFORMATS[i].id \in Nat /\ LOGFORMATS[i].id >= freed
    <2>1. \A i \in DOMAIN LOGFORMATS : LOGFORMATS[i] \in FormatRec
      BY DEF LogInv, LogTypeOK
    <2>2. \A i \in DOMAIN LOGFORMATS : LOGFORMATS[i].id \in Nat
      BY <2>1 DEF FormatRec
    <2>. QED
      BY <2>2 DEF LogInv, FormatsLive
  <1>5. CASE at = {}
    BY <1>2, <1>5
  <1>6. CASE at # {}
    <2>1. first \in DOMAIN LOGFORMATS
      BY <1>1, <1>3, <1>6
    <2>. QED
      BY <1>2, <1>4, <1>6, <2>1
  <1>. QED
    BY <1>5, <1>6

(* A log file is added, not open yet.                                      *)
LEMMA AddsFile ==
  ASSUME LogInv, NEW file \in LogNames, NEW format, NEW acl \in BOOLEAN,
         file_log_addlogfile(file, format, acl)
  PROVE  LogInv'
  <1>. DEFINE A == ACCESS_LOG_FILES
              r == [file |-> file, fmt |-> logformat_fmt(format), acl |-> acl, access_log |-> NoFile]
  <1>1. /\ logPhase = "reading" /\ logLines' = logLines + 1 /\ logLines < MaxLogLines
        /\ UNCHANGED <<logPhase, logReads, freed, LOGFORMATS, server_log, openFiles, nextFile,
                       readers, relogAt, logAt>>
        /\ A' = A \/ A' = Append(A, r)
    BY DEF file_log_addlogfile, LogLine
  <1>2. /\ A \in Seq(LogRec) /\ Len(A) \in Nat /\ DOMAIN A = 1 .. Len(A) /\ Files = DOMAIN A \cup {0}
    BY LogFiles DEF LogInv, LogTypeOK
  <1>3. r \in LogRec /\ r.access_log = NoFile /\ (r.fmt = 0 \/ r.fmt >= freed)
    BY FormatFound DEF LogRec
  <1>. HIDE DEF r
  <1>4. /\ A' \in Seq(LogRec) /\ Len(A') \in Nat /\ Len(A') <= Len(A) + 1
        /\ DOMAIN A' = 1 .. Len(A')
        /\ \A i \in DOMAIN A : A'[i] = A[i]
        /\ \A i \in DOMAIN A' : i \notin DOMAIN A => A'[i] = r
    BY <1>1, <1>2, <1>3, SMTT(40)
  <1>5. logLines' \in 0 .. MaxLogLines /\ logLines \in Nat
    BY <1>1, LoggingAssumption DEF LogInv, LogTypeOK
  <1>6. LogTypeOK'
    BY <1>1, <1>4, <1>5 DEF LogInv, LogTypeOK, Locks
  <1>7. Counted'
    <2>1. Len(A') \in Nat /\ Len(A') <= Len(A) + 1
      BY <1>2, <1>4
    <2>2. Len(A) <= logLines /\ logLines' = logLines + 1
      BY <1>1 DEF LogInv, Counted
    <2>3. Len(A') <= logLines'
      BY <1>2, <1>5, <2>1, <2>2
    <2>. QED
      BY <2>3 DEF Counted
  <1>8. AtFiles' /\ LocksHeld'
    BY <1>1, ReadingIsQuiet, QuietStep
  <1>9. \A k \in Files : FileAt(k) = NoFile
    BY <1>1 DEF LogInv, FilesDiffer
  <1>10. Files' = DOMAIN A' \cup {0} /\ \A k \in Files' : FileAt(k)' = NoFile
    <2>1. Files' = DOMAIN A' \cup {0}
      <3>1. Len(A') \in Nat /\ Files' = 0 .. Len(A')
        BY <1>2, <1>4 DEF Files
      <3>. QED
        BY <1>4, <3>1
    <2>2. ASSUME NEW k \in Files' PROVE FileAt(k)' = NoFile
      <3>1. CASE k = 0
        BY <1>1, <1>2, <1>9, <3>1 DEF FileAt
      <3>2. CASE k # 0 /\ k \in DOMAIN A
        BY <1>2, <1>4, <1>9, <3>2 DEF FileAt
      <3>3. CASE k # 0 /\ k \notin DOMAIN A
        BY <1>3, <1>4, <2>1, <2>2, <3>3 DEF FileAt
      <3>. QED
        BY <3>1, <3>2, <3>3
    <2>. QED
      BY <2>1, <2>2
  <1>11. FilesDiffer'
    BY <1>10 DEF FilesDiffer
  <1>12. FilesOpen'
    <2>1. openFiles = {}
      BY <1>9 DEF LogInv, FilesOpen
    <2>2. {FileAt(k)' : k \in Files'} \ {NoFile} = {}
      BY <1>10, SMTT(40)
    <2>. QED
      BY <1>1, <2>1, <2>2 DEF FilesOpen
  <1>13. FormatsLive'
    BY <1>1, <1>3, <1>4 DEF LogInv, FormatsLive
  <1>. QED
    BY <1>6, <1>7, <1>8, <1>11, <1>12, <1>13 DEF LogInv

(* The log files are opened, those that can be.                            *)
LEMMA OpensFiles ==
  ASSUME LogInv, file_log_open
  PROVE  LogInv'
  <1>. DEFINE A == ACCESS_LOG_FILES
  <1>1. PICK n : n = nextFile
    OBVIOUS
  <1>2. PICK good \in SUBSET (0 .. Len(A)) :
          /\ A' = [k \in DOMAIN A |-> [A[k] EXCEPT !.access_log = IF k \in good THEN n + k ELSE NoFile]]
          /\ server_log' = IF 0 \in good THEN n + 0 ELSE NoFile
          /\ openFiles' = openFiles \cup {n + k : k \in good}
    <2>1. PICK good \in SUBSET (0 .. Len(ACCESS_LOG_FILES)) :
            /\ ACCESS_LOG_FILES' = [k \in DOMAIN ACCESS_LOG_FILES |->
                 [ACCESS_LOG_FILES[k] EXCEPT !.access_log = IF k \in good THEN nextFile + k ELSE NoFile]]
            /\ server_log' = IF 0 \in good THEN nextFile + 0 ELSE NoFile
            /\ openFiles' = openFiles \cup {nextFile + k : k \in good}
      BY DEF file_log_open
    <2>. QED
      BY <1>1, <2>1
  <1>3. /\ logPhase = "reading" /\ logPhase' = "running" /\ nextFile' = n + Len(A) + 1
        /\ UNCHANGED <<logLines, logReads, LOGFORMATS, freed, readers, relogAt, logAt>>
    BY <1>1 DEF file_log_open
  <1>4. /\ A \in Seq(LogRec) /\ Len(A) \in Nat /\ DOMAIN A = 1 .. Len(A) /\ Files = DOMAIN A \cup {0}
        /\ (\A k \in DOMAIN A : A[k] \in LogRec) /\ n \in Nat \ {0}
    BY <1>1, LogFiles DEF LogInv, LogTypeOK
  <1>5. \A k \in DOMAIN A : (IF k \in good THEN n + k ELSE NoFile) \in Nat \cup {NoFile}
    BY <1>4
  <1>6. \A k \in DOMAIN A :
          /\ A'[k] \in LogRec /\ A'[k].fmt = A[k].fmt
          /\ A'[k].access_log = IF k \in good THEN n + k ELSE NoFile
    <2>. SUFFICES ASSUME NEW k \in DOMAIN A
                  PROVE  /\ A'[k] \in LogRec /\ A'[k].fmt = A[k].fmt
                         /\ A'[k].access_log = IF k \in good THEN n + k ELSE NoFile
      OBVIOUS
    <2>. DEFINE f == IF k \in good THEN n + k ELSE NoFile
    <2>1. A'[k] = [A[k] EXCEPT !.access_log = f] /\ f \in Nat \cup {NoFile} /\ A[k] \in LogRec
      BY <1>2, <1>4, <1>5
    <2>. HIDE DEF f
    <2>2. A'[k] \in LogRec /\ A'[k].fmt = A[k].fmt /\ A'[k].access_log = f
      BY <2>1 DEF LogRec
    <2>. QED
      BY <2>2 DEF f
  <1>7. A' \in Seq(LogRec) /\ Len(A') = Len(A) /\ DOMAIN A' = DOMAIN A
    <2>1. A' \in [1 .. Len(A) -> LogRec]
      BY <1>2, <1>4, <1>6
    <2>. QED
      BY <1>4, <2>1
  <1>8. Files' = Files /\ \A k \in Files : FileAt(k)' = IF k \in good THEN n + k ELSE NoFile
    <2>1. Files' = Files
      BY <1>7 DEF Files
    <2>2. ASSUME NEW k \in Files PROVE FileAt(k)' = IF k \in good THEN n + k ELSE NoFile
      BY <1>2, <1>4, <1>6 DEF FileAt
    <2>. QED
      BY <2>1, <2>2
  <1>9. LogTypeOK'
    <2>1. server_log' \in Nat \cup {NoFile} /\ nextFile' \in Nat \ {0}
      BY <1>2, <1>3, <1>4
    <2>. QED
      BY <1>3, <1>7, <2>1 DEF LogInv, LogTypeOK, Locks
  <1>10. Counted'
    BY <1>3, <1>7 DEF LogInv, Counted
  <1>11. AtFiles' /\ LocksHeld'
    BY <1>3, ReadingIsQuiet, QuietStep
  <1>12. FilesDiffer'
    <2>1. \A k \in Files : FileAt(k)' = NoFile \/ FileAt(k)' \in 1 .. nextFile' - 1
      <3>. SUFFICES ASSUME NEW k \in Files PROVE FileAt(k)' = NoFile \/ FileAt(k)' \in 1 .. nextFile' - 1
        OBVIOUS
      <3>1. k \in 0 .. Len(A)
        BY DEF Files
      <3>2. FileAt(k)' = n + k \/ FileAt(k)' = NoFile
        BY <1>8
      <3>. QED
        BY <1>3, <1>4, <3>1, <3>2
    <2>2. \A j, k \in Files : FileAt(j)' = FileAt(k)' /\ FileAt(j)' # NoFile => j = k
      <3>. SUFFICES ASSUME NEW j \in Files, NEW k \in Files, FileAt(j)' = FileAt(k)', FileAt(j)' # NoFile
                    PROVE  j = k
        OBVIOUS
      <3>1. FileAt(j)' = n + j /\ FileAt(k)' = n + k
        BY <1>8
      <3>2. j \in Int /\ k \in Int
        BY <1>4 DEF Files
      <3>3. n + j = n + k
        BY <3>1
      <3>. QED
        BY <1>4, <3>2, <3>3
    <2>. QED
      BY <1>3, <1>8, <2>1, <2>2 DEF FilesDiffer
  <1>13. FilesOpen'
    <2>1. openFiles = {}
      BY <1>3 DEF LogInv, FilesDiffer, FilesOpen
    <2>2. good \subseteq Files
      BY DEF Files
    <2>3. \A k \in good : n + k \in Nat \ {0} /\ n + k # NoFile
      BY <1>4, <2>2, LoggingAssumption
    <2>4. {n + k : k \in good} = {FileAt(k)' : k \in Files} \ {NoFile}
      BY <1>8, <2>2, <2>3
    <2>. QED
      BY <1>2, <1>8, <2>1, <2>4 DEF FilesOpen
  <1>14. FormatsLive'
    BY <1>3, <1>6, <1>7 DEF LogInv, FormatsLive
  <1>. QED
    BY <1>9, <1>10, <1>11, <1>12, <1>13, <1>14 DEF LogInv

(* The log files are closed and freed, and the formats with them.          *)
LEMMA ClosesFiles ==
  ASSUME LogInv, file_log_close
  PROVE  LogInv'
  <1>. DEFINE A == ACCESS_LOG_FILES
  <1>1. /\ logPhase' = "reading" /\ logLines' = 0 /\ logReads' = logReads + 1
        /\ relogAt = NoRelog /\ (\A w \in LogWorkers : logAt[w] = Idle)
        /\ freed' = freed + Len(LOGFORMATS) /\ LOGFORMATS' = <<>>
        /\ openFiles' = openFiles \ ({A[k].access_log : k \in DOMAIN A} \cup {server_log})
        /\ A' = <<>> /\ server_log' = NoFile /\ UNCHANGED <<nextFile, readers, relogAt, logAt>>
    BY DEF file_log_close
  <1>2. LogTypeOK'
    <2>1. freed' \in Nat /\ logReads' \in Nat /\ logLines' \in 0 .. MaxLogLines
      BY <1>1, LoggingAssumption DEF LogInv, LogTypeOK
    <2>. QED
      BY <1>1, <2>1, EmptySeq DEF LogInv, LogTypeOK, Locks
  <1>3. Counted' /\ FormatsLive'
    BY <1>1 DEF Counted, FormatsLive
  <1>4. AtFiles' /\ LocksHeld'
    BY <1>1, QuietStep
  <1>5. Files' = {0} /\ FileAt(0)' = NoFile
    BY <1>1 DEF Files, FileAt
  <1>6. FilesDiffer'
    BY <1>5 DEF FilesDiffer
  <1>7. FilesOpen'
    <2>1. \A f \in openFiles : f \in {A[k].access_log : k \in DOMAIN A} \cup {server_log}
      BY LogFiles DEF LogInv, FilesOpen, FileAt
    <2>2. openFiles' = {}
      BY <1>1, <2>1
    <2>. QED
      BY <1>5, <2>2 DEF FilesOpen
  <1>. QED
    BY <1>2, <1>3, <1>4, <1>6, <1>7 DEF LogInv

(* Every step keeps the log files right.                                   *)
LEMMA LogStep == LogInv /\ [LoggingNext]_logVars => LogInv'
  <1>. SUFFICES ASSUME LogInv, [LoggingNext]_logVars PROVE LogInv'
    OBVIOUS
  <1>0. LogTypeOK /\ Idle[1] = "idle"
    BY DEF LogInv, Idle
  <1>1. ASSUME NEW w \in LogWorkers, StartLogAccess(w) PROVE LogInv'
    <2>1. PICK allowed \in BOOLEAN : logAt' = [logAt EXCEPT ![w] = NextMatch(w, 1, allowed)]
      BY <1>1 DEF StartLogAccess
    <2>2. PICK to : to = NextMatch(w, 1, allowed)
      OBVIOUS
    <2>3. 1 \in Nat
      OBVIOUS
    <2>4. to \in LogSteps \X Nat \X BOOLEAN /\ to[1] # "print" /\ (to # Idle => to[2] \in Files)
      BY <1>0, <2>2, <2>3, NextMatchOutcome
    <2>5. /\ logPhase = "running" /\ logAt[w][1] # "print" /\ readers' = readers
          /\ UNCHANGED <<confLogVars, fileVars, relogAt>> /\ logAt' = [logAt EXCEPT ![w] = to]
      BY <1>0, <1>1, <2>1, <2>2 DEF StartLogAccess
    <2>. QED
      BY <2>4, <2>5, WorkerLogs
  <1>2. ASSUME NEW w \in LogWorkers, StartLogServer(w) PROVE LogInv'
    <2>1. PICK to : to = <<"wait", 0, TRUE>>
      OBVIOUS
    <2>2. to \in LogSteps \X Nat \X BOOLEAN /\ to[1] # "print" /\ to[2] \in Files
      BY <1>0, <2>1, LogFiles DEF LogSteps
    <2>3. /\ logPhase = "running" /\ logAt[w][1] # "print" /\ readers' = readers
          /\ UNCHANGED <<confLogVars, fileVars, relogAt>> /\ logAt' = [logAt EXCEPT ![w] = to]
      BY <1>0, <1>2, <2>1 DEF StartLogServer
    <2>. QED
      BY <2>2, <2>3, WorkerLogs
  <1>3. ASSUME NEW w \in LogWorkers, ReadLock(w) PROVE LogInv'
    <2>1. PICK to : to = <<"print", logAt[w][2], logAt[w][3]>>
      OBVIOUS
    <2>2. logAt[w] \in LogSteps \X Nat \X BOOLEAN
      BY <1>0 DEF LogTypeOK
    <2>3. /\ to \in LogSteps \X Nat \X BOOLEAN /\ to[1] = "print" /\ to[2] = logAt[w][2]
      BY <2>1, <2>2 DEF LogSteps
    <2>4. /\ logAt[w][1] = "wait" /\ CanRead(to[2])
          /\ readers' = [readers EXCEPT ![to[2]] = @ \cup {w}]
          /\ UNCHANGED <<confLogVars, fileVars, relogAt>> /\ logAt' = [logAt EXCEPT ![w] = to]
      BY <1>3, <2>1, <2>3 DEF ReadLock
    <2>5. logPhase = "running" /\ to[2] \in Files
      BY <1>0, <2>3, <2>4 DEF LogInv, AtFiles, Files
    <2>. QED
      BY <2>3, <2>4, <2>5, WorkerLogs
  <1>4. ASSUME NEW w \in LogWorkers, Printed(w) PROVE LogInv'
    <2>1. PICK to : to = IF logAt[w][2] = 0 THEN Idle ELSE NextMatch(w, logAt[w][2] + 1, logAt[w][3])
      OBVIOUS
    <2>2. logAt[w] \in LogSteps \X Nat \X BOOLEAN
      BY <1>0 DEF LogTypeOK
    <2>3. logAt[w][2] + 1 \in Nat /\ logAt[w][3] \in BOOLEAN
      BY <2>2
    <2>4. Idle \in LogSteps \X Nat \X BOOLEAN
      BY DEF Idle, LogSteps
    <2>5. to \in LogSteps \X Nat \X BOOLEAN /\ to[1] # "print" /\ (to # Idle => to[2] \in Files)
      BY <1>0, <2>1, <2>3, <2>4, NextMatchOutcome
    <2>6. /\ logAt[w][1] = "print" /\ readers' = [readers EXCEPT ![logAt[w][2]] = @ \ {w}]
          /\ UNCHANGED <<confLogVars, fileVars, relogAt>> /\ logAt' = [logAt EXCEPT ![w] = to]
      BY <1>4, <2>1 DEF Printed
    <2>7. logPhase = "running"
      BY <1>0, <2>6 DEF LogInv, AtFiles
    <2>. QED
      BY <2>5, <2>6, <2>7, WorkerLogs
  <1>5. CASE UNCHANGED logVars
    BY <1>5 DEF logVars, confLogVars, fileVars, LogInv, LogTypeOK, Counted, AtFiles, LocksHeld,
                FilesDiffer, FilesOpen, FormatsLive, FileAt, Files, Locks
  <1>. QED
    BY <1>1, <1>2, <1>3, <1>4, <1>5, AddsFormat, AddsFile, OpensFiles, ClosesFiles, RelogWaits,
       RelogReopens DEF LoggingNext

(* Workers print to files that are open while relog reopens them, no FILE  *)
(* is lost over relogs, failed opens and reconfigurations, and no log file *)
(* has a format that was freed, for any number of workers, log files,      *)
(* formats and configurations.                                             *)
THEOREM LogFilesStayOpen == LoggingSpec => []LogsToOpenFiles
  <1>1. LoggingInit => LogInv
    BY LogInit
  <1>2. LogInv /\ [LoggingNext]_logVars => LogInv'
    BY LogStep
  <1>3. LogInv => LogsToOpenFiles
    BY LogInvOpen
  <1>. QED
    BY <1>1, <1>2, <1>3, PTL DEF LoggingSpec

(***************************************************************************)
(* Connections                                                             *)
(***************************************************************************)
NetCalls ==
  {"idle", "again", "closed", "lingers", "connecting", "failed", "read_wait", "writing", "write_wait", "spins"}

NetTypeOK ==
  /\ tls \in BOOLEAN /\ side \in {"none", "client", "server"} /\ fd \in {"invalid", "one"}
  /\ ctx \in {"null", "live", "dangling"} /\ holder \in {"free", "us", "others"} /\ stolen \in BOOLEAN
  /\ peer \in {"silent", "up", "closed", "reset"} /\ call \in NetCalls
NetDataOK ==
  /\ result \in Int
  /\ left \in Seq(Nat) /\ inbox \in Seq(Nat) /\ got \in Seq(Nat) /\ outbox \in Seq(Nat) /\ sent \in Seq(Nat)

(* The object has the descriptor, until a close that leaves it there, and  *)
(* an object that is not in use has none.                                  *)
Descriptor ==
  /\ ~stolen
  /\ fd = "one" /\ call # "closed" => holder = "us" /\ (tls => ctx = "live")
  /\ holder = "us" => fd = "one" /\ call # "closed"
  /\ side = "none" => call = "idle" /\ fd = "invalid"

(* What a call has not written yet follows what it has; if something is    *)
(* left when no call writes, then one has failed.                          *)
Written ==
  /\ call \in {"writing", "write_wait"} => InOrder(sent \o left)
  /\ left # <<>> =>
       /\ side # "none"
       /\ \/ call \in {"writing", "write_wait", "spins"}
          \/ call \in {"idle", "again", "closed", "lingers"} /\ result <= 0

Streams == InOrder(got \o inbox) /\ InOrder(sent)

NetInv == NetTypeOK /\ NetDataOK /\ Descriptor /\ Written /\ Streams

(* The invariant contains the property.                                    *)
LEMMA NetInvExact == NetInv => TransfersExact
  <1>. SUFFICES ASSUME NetInv PROVE TransfersExact
    OBVIOUS
  <1>1. call = "idle" /\ result > 0 => left = <<>>
    BY DEF NetInv, NetDataOK, Written
  <1>2. InOrder(got \o inbox) /\ InOrder(sent)
    BY DEF NetInv, Streams
  <1>3. /\ ~stolen
        /\ fd = "one" /\ call # "closed" => holder = "us" /\ (tls => ctx = "live")
        /\ holder = "us" => fd = "one"
    BY DEF NetInv, Descriptor
  <1>. QED
    BY <1>1, <1>2, <1>3 DEF TransfersExact

(* An empty sequence is in order.                                          *)
LEMMA EmptyInOrder == InOrder(<<>>) /\ <<>> \o <<>> = <<>>
  BY DEF InOrder

(* What InOrder says of the elements.                                      *)
LEMMA InOrderElements ==
  ASSUME NEW s \in Seq(Nat)
  PROVE  InOrder(s) <=> \A i \in 1 .. Len(s) : s[i] = i
  <1>1. Len(s) \in Nat /\ s \in [1 .. Len(s) -> Nat]
    BY LenProperties
  <1>. QED
    BY <1>1 DEF InOrder

(* The front of a sequence that is in order.                               *)
LEMMA InOrderFront ==
  ASSUME NEW r \in Seq(Nat), NEW s \in Seq(Nat), InOrder(r \o s)
  PROVE  InOrder(r)
  <1>1. r \o s \in Seq(Nat) /\ Len(r) \in Nat /\ Len(s) \in Nat /\ Len(r \o s) = Len(r) + Len(s)
        /\ \A i \in 1 .. Len(r) : (r \o s)[i] = r[i]
    BY ConcatProperties
  <1>2. \A i \in 1 .. Len(r \o s) : (r \o s)[i] = i
    BY <1>1, InOrderElements
  <1>3. \A i \in 1 .. Len(r) : r[i] = i
    BY <1>1, <1>2
  <1>. QED
    BY <1>3, InOrderElements

(* Numbers that go on where a sequence in order ends.                      *)
LEMMA InOrderNext ==
  ASSUME NEW r \in Seq(Nat), InOrder(r), NEW n \in Nat
  PROVE  /\ [i \in 1 .. n |-> Len(r) + i] \in Seq(Nat) /\ Len([i \in 1 .. n |-> Len(r) + i]) = n
         /\ InOrder(r \o [i \in 1 .. n |-> Len(r) + i])
  <1>. DEFINE s == [i \in 1 .. n |-> Len(r) + i]
  <1>1. Len(r) \in Nat /\ \A i \in 1 .. n : Len(r) + i \in Nat
    BY LenProperties
  <1>2. s \in [1 .. n -> Nat] /\ \A i \in 1 .. n : s[i] = Len(r) + i
    BY <1>1
  <1>. HIDE DEF s
  <1>3. s \in Seq(Nat) /\ Len(s) = n
    BY <1>2
  <1>4. r \o s \in Seq(Nat) /\ Len(r \o s) = Len(r) + n
        /\ (\A i \in 1 .. Len(r) : (r \o s)[i] = r[i]) /\ (\A i \in 1 .. n : (r \o s)[Len(r) + i] = s[i])
    BY <1>1, <1>3
  <1>5. \A i \in 1 .. Len(r) : r[i] = i
    BY InOrderElements
  <1>6. ASSUME NEW i \in 1 .. Len(r) + n PROVE (r \o s)[i] = i
    <2>1. CASE i <= Len(r)
      BY <1>1, <1>4, <1>5, <2>1
    <2>2. CASE i > Len(r)
      <3>1. PICK j : j = i - Len(r)
        OBVIOUS
      <3>2. j \in 1 .. n /\ i = Len(r) + j
        BY <1>1, <2>2, <3>1
      <3>. QED
        BY <1>2, <1>4, <3>2
    <2>3. i <= Len(r) \/ i > Len(r)
      BY <1>1
    <2>. QED
      BY <2>1, <2>2, <2>3
  <1>7. InOrder(r \o s)
    BY <1>4, <1>6, InOrderElements
  <1>. QED
    BY <1>3, <1>7 DEF s

(* At the start.                                                           *)
LEMMA NetInit == ConnectionsInit => NetInv
  <1>. SUFFICES ASSUME ConnectionsInit PROVE NetInv
    OBVIOUS
  <1>1. NetTypeOK /\ Descriptor
    BY DEF ConnectionsInit, NetTypeOK, NetCalls, Descriptor
  <1>2. NetDataOK /\ Written
    BY DEF ConnectionsInit, NetDataOK, Written
  <1>3. Streams
    BY EmptyInOrder DEF ConnectionsInit, Streams
  <1>. QED
    BY <1>1, <1>2, <1>3 DEF NetInv

(***************************************************************************)
(* Who has the descriptor                                                  *)
(***************************************************************************)
(* Closing: the descriptor that is closed is the object's own.             *)
LEMMA ClosesOwn ==
  ASSUME NetTypeOK, Descriptor,
         \/ ci_connection_hard_close \/ ci_connection_linger_close \/ ci_linger_close
         \/ ci_copy_connection \/ ConnectFails \/ ClientDone
  PROVE  NetTypeOK' /\ Descriptor'
  <1>. USE DEF NetTypeOK, NetCalls, Descriptor, CloseDescriptor, HardClosed, Forget, objVars, sysVars
  <1>1. CASE ci_connection_hard_close
    BY <1>1 DEF ci_connection_hard_close
  <1>2. CASE ci_connection_linger_close
    BY <1>2 DEF ci_connection_linger_close
  <1>3. CASE ci_linger_close
    BY <1>3 DEF ci_linger_close
  <1>4. CASE ci_copy_connection
    BY <1>4 DEF ci_copy_connection
  <1>5. CASE ConnectFails
    BY <1>5 DEF ConnectFails, ci_connection_destroy
  <1>6. CASE ClientDone
    BY <1>6 DEF ClientDone, ci_connection_destroy
  <1>. QED
    BY <1>1, <1>2, <1>3, <1>4, <1>5, <1>6

(* Accepting and connecting: only a descriptor that is free is got.        *)
LEMMA OpensFree ==
  ASSUME NetTypeOK, Descriptor,
         \/ icap_accept_raw_connection \/ icap_accept_tls_connection
         \/ ci_connect_to_address_nonblock \/ ci_connect_ms_to_address
         \/ ci_tls_connect_to_address_nonblock \/ ci_tls_connect_ms_to_address
  PROVE  NetTypeOK' /\ Descriptor'
  <1>. USE DEF NetTypeOK, NetCalls, Descriptor, objVars, sysVars
  <1>1. CASE icap_accept_raw_connection
    BY <1>1 DEF icap_accept_raw_connection
  <1>2. CASE icap_accept_tls_connection
    BY <1>2 DEF icap_accept_tls_connection
  <1>3. CASE ci_connect_to_address_nonblock
    BY <1>3 DEF ci_connect_to_address_nonblock, ci_socket_connect
  <1>4. CASE ci_connect_ms_to_address
    BY <1>4 DEF ci_connect_ms_to_address, Connected
  <1>5. CASE ci_tls_connect_to_address_nonblock
    BY <1>5 DEF ci_tls_connect_to_address_nonblock, ci_socket_connect
  <1>6. CASE ci_tls_connect_ms_to_address
    BY <1>6 DEF ci_tls_connect_ms_to_address, Connected
  <1>. QED
    BY <1>1, <1>2, <1>3, <1>4, <1>5, <1>6

(* Reading and writing leave the descriptor alone.                         *)
LEMMA TransfersKeep ==
  ASSUME NetTypeOK, Descriptor,
         \/ ci_connection_read \/ ci_read \/ ci_connection_read_tls
         \/ ci_read_nonblock \/ ci_connection_read_nonblock_tls
         \/ \E n \in 1..ReadSize : ci_connection_write(n) \/ ci_write_nonblock(n)
         \/ ci_write \/ WriteWaits \/ ci_connection_write_tls \/ ci_connection_write_nonblock_tls
         \/ PeerMoves \/ OtherThreads
  PROVE  NetTypeOK' /\ Descriptor'
  <1>. USE DEF NetTypeOK, NetCalls, Descriptor, objVars, sysVars
  <1>1. CASE ci_connection_read
    BY <1>1 DEF ci_connection_read, Usable
  <1>2. CASE ci_read
    BY <1>2 DEF ci_read, ci_wait_ms_for_data
  <1>3. CASE ci_connection_read_tls \/ ci_read_nonblock \/ ci_connection_read_nonblock_tls
    BY <1>3 DEF ci_connection_read_tls, ci_read_nonblock, ci_connection_read_nonblock_tls
  <1>4. ASSUME NEW n \in 1..ReadSize, ci_connection_write(n) \/ ci_write_nonblock(n)
        PROVE  NetTypeOK' /\ Descriptor'
    BY <1>4 DEF ci_connection_write, ci_write_nonblock, Usable
  <1>5. CASE ci_write
    BY <1>5 DEF ci_write
  <1>6. CASE WriteWaits
    BY <1>6 DEF WriteWaits, ci_wait_ms_for_data
  <1>7. CASE ci_connection_write_tls \/ ci_connection_write_nonblock_tls
    BY <1>7 DEF ci_connection_write_tls, ci_connection_write_nonblock_tls
  <1>8. CASE PeerMoves
    BY <1>8 DEF PeerMoves
  <1>9. CASE OtherThreads
    BY <1>9 DEF OtherThreads
  <1>. QED
    BY <1>1, <1>2, <1>3, <1>4, <1>5, <1>6, <1>7, <1>8, <1>9

(***************************************************************************)
(* What crosses the connection                                             *)
(***************************************************************************)
NetData == NetDataOK /\ Written /\ Streams

(* The shorter of two lengths, as read and write take it.                  *)
LEMMA ShorterLength ==
  ASSUME NEW a \in Nat, NEW b \in Nat
  PROVE  Shorter(a, b) \in 0 .. b /\ Shorter(a, b) \in Nat
  BY DEF Shorter

(* Steps that move no data.                                                *)
LEMMA NoDataMoves ==
  ASSUME NetTypeOK, Descriptor, NetData,
         \/ ci_connection_hard_close \/ ci_connection_linger_close
         \/ icap_accept_raw_connection \/ icap_accept_tls_connection
         \/ ci_connect_to_address_nonblock \/ ci_connect_ms_to_address
         \/ ci_tls_connect_to_address_nonblock \/ ci_tls_connect_ms_to_address
         \/ ci_connection_read_nonblock_tls
         \/ WriteWaits \/ ci_connection_write_tls \/ ci_connection_write_nonblock_tls \/ OtherThreads
  PROVE  NetData'
  <1>0. 0 \in Int /\ 1 \in Int /\ -1 \in Int /\ 0 <= 0 /\ -1 <= 0
    OBVIOUS
  <1>. DEFINE ToWrite(c) == c \in {"writing", "write_wait"}
              Done(c) == c \in {"idle", "again", "closed", "lingers"}
  <1>1. UNCHANGED <<left, inbox, got, outbox, sent>>
    BY DEF ci_connection_hard_close, ci_connection_linger_close, icap_accept_raw_connection,
           icap_accept_tls_connection, ci_connect_to_address_nonblock, ci_connect_ms_to_address,
           ci_tls_connect_to_address_nonblock, ci_tls_connect_ms_to_address,
           ci_connection_read_nonblock_tls, WriteWaits, ci_connection_write_tls,
           ci_connection_write_nonblock_tls, OtherThreads, dataVars
  <1>2. /\ result' \in Int
        /\ ToWrite(call') => ToWrite(call)
        /\ side' = "none" => side = "none" \/ left = <<>>
        /\ Done(call) /\ result <= 0 => left = <<>> \/ (Done(call') /\ result' <= 0)
        /\ ToWrite(call) => ToWrite(call') \/ call' = "spins" \/ (Done(call') /\ result' <= 0)
        /\ call = "spins" => call' = "spins"
    <2>. USE <1>0 DEF NetTypeOK, NetCalls, Descriptor, NetData, NetDataOK, Written, objVars, sysVars
    <2>1. CASE ci_connection_hard_close \/ ci_connection_linger_close
      BY <2>1 DEF ci_connection_hard_close, ci_connection_linger_close
    <2>2. CASE icap_accept_raw_connection \/ icap_accept_tls_connection
      BY <2>2 DEF icap_accept_raw_connection, icap_accept_tls_connection
    <2>3. CASE ci_connect_to_address_nonblock \/ ci_tls_connect_to_address_nonblock
      BY <2>3 DEF ci_connect_to_address_nonblock, ci_tls_connect_to_address_nonblock, ci_socket_connect
    <2>4. CASE ci_connect_ms_to_address
      BY <2>4 DEF ci_connect_ms_to_address, Connected
    <2>5. CASE ci_tls_connect_ms_to_address
      BY <2>5 DEF ci_tls_connect_ms_to_address, Connected
    <2>6. CASE ci_connection_read_nonblock_tls \/ ci_connection_write_nonblock_tls
      BY <2>6 DEF ci_connection_read_nonblock_tls, ci_connection_write_nonblock_tls, Usable
    <2>7. CASE WriteWaits
      BY <2>7 DEF WriteWaits
    <2>8. CASE ci_connection_write_tls
      BY <2>8 DEF ci_connection_write_tls
    <2>9. CASE OtherThreads
      BY <2>9 DEF OtherThreads
    <2>. QED
      BY <2>1, <2>2, <2>3, <2>4, <2>5, <2>6, <2>7, <2>8, <2>9
  <1>3. Written'
    <2>1. ToWrite(call') => InOrder(sent' \o left')
      BY <1>1, <1>2 DEF NetData, Written
    <2>2. left' # <<>> => side' # "none" /\ (ToWrite(call') \/ call' = "spins" \/ (Done(call') /\ result' <= 0))
      BY <1>1, <1>2 DEF NetData, Written
    <2>. QED
      BY <2>1, <2>2 DEF Written
  <1>4. NetDataOK'
    BY <1>1, <1>2 DEF NetData, NetDataOK
  <1>5. Streams'
    BY <1>1 DEF NetData, Streams
  <1>. QED
    BY <1>3, <1>4, <1>5 DEF NetData

(* An object that is forgotten takes its data with it.                     *)
LEMMA ForgetsData ==
  ASSUME NetData, ci_copy_connection \/ ConnectFails \/ ClientDone
  PROVE  NetData'
  <1>1. /\ left' = <<>> /\ inbox' = <<>> /\ got' = <<>> /\ outbox' = <<>> /\ sent' = <<>>
        /\ call' = "idle" /\ (result' = result \/ result' = 0)
    BY DEF ci_copy_connection, ConnectFails, ClientDone, ci_connection_destroy, Forget, NoData
  <1>2. NetDataOK'
    <2>1. 0 \in Int /\ <<>> \in Seq(Nat)
      OBVIOUS
    <2>. QED
      BY <1>1, <2>1 DEF NetData, NetDataOK
  <1>3. Written'
    BY <1>1 DEF Written
  <1>4. Streams'
    BY <1>1, EmptyInOrder DEF Streams
  <1>. QED
    BY <1>2, <1>3, <1>4 DEF NetData

(* Units are given to callers in the order in which they came.             *)
LEMMA TakesInOrder ==
  ASSUME NetData, NEW n \in 0 .. Len(inbox),
         got' = got \o SubSeq(inbox, 1, n), inbox' = SubSeq(inbox, n + 1, Len(inbox))
  PROVE  inbox' \in Seq(Nat) /\ got' \in Seq(Nat) /\ InOrder(got' \o inbox')
  <1>1. inbox \in Seq(Nat) /\ got \in Seq(Nat) /\ InOrder(got \o inbox)
    BY DEF NetData, NetDataOK, Streams
  <1>2. SubSeq(inbox, 1, n) \in Seq(Nat) /\ SubSeq(inbox, n + 1, Len(inbox)) \in Seq(Nat)
    BY <1>1, SplitSeq
  <1>3. got' \in Seq(Nat) /\ inbox' \in Seq(Nat)
    BY <1>1, <1>2, ConcatProperties
  <1>4. got' \o inbox' = got \o inbox
    BY <1>1, MoveFront
  <1>. QED
    BY <1>1, <1>3, <1>4

(* Reading.                                                                *)
LEMMA ReadsInOrder ==
  ASSUME NetTypeOK, Descriptor, NetData,
         \/ ci_connection_read \/ ci_read \/ ci_connection_read_tls \/ ci_read_nonblock \/ ci_linger_close
  PROVE  NetData'
  <1>0. inbox \in Seq(Nat) /\ Len(inbox) \in Nat /\ got \in Seq(Nat) /\ result \in Int /\ ReadSize \in Nat
    BY ConnectionsAssumption, LenProperties DEF NetData, NetDataOK
  <1>1. PICK m : m = Shorter(ReadSize, Len(inbox))
    OBVIOUS
  <1>2. m \in 0 .. Len(inbox) /\ m \in Int /\ -1 \in Int /\ 0 \in Int
    BY <1>0, <1>1, ShorterLength
  <1>. DEFINE Taken == got' = got \o SubSeq(inbox, 1, m) /\ inbox' = SubSeq(inbox, m + 1, Len(inbox))
  <1>3. Taken \/ (got' = got /\ inbox' = inbox)
    BY <1>1 DEF ci_connection_read, ci_read, ci_connection_read_tls, ci_read_nonblock, ci_linger_close, Take, ReadFails
  <1>4. inbox' \in Seq(Nat) /\ got' \in Seq(Nat) /\ InOrder(got' \o inbox')
    <2>1. CASE Taken
      BY <1>2, <2>1, TakesInOrder
    <2>2. CASE got' = got /\ inbox' = inbox
      BY <2>2 DEF NetData, NetDataOK, Streams
    <2>. QED
      BY <1>3, <2>1, <2>2
  <1>5. UNCHANGED <<left, outbox, sent, side>>
    BY DEF ci_connection_read, ci_read, ci_connection_read_tls, ci_read_nonblock, ci_linger_close, objVars
  <1>6. result' = result \/ result' = m \/ result' = -1 \/ result' = 0
    BY <1>1 DEF ci_connection_read, ci_read, ci_connection_read_tls, ci_read_nonblock, ci_linger_close, Take, ReadFails
  <1>7. \/ left = <<>> /\ call' \in {"idle", "read_wait", "spins"}
        \/ call = "lingers" /\ call' \in {"lingers", "closed"} /\ result' = result
    <2>1. CASE ci_connection_read
      BY <2>1 DEF ci_connection_read, Usable
    <2>2. CASE ci_read
      BY <2>2 DEF ci_read, NetData, Written
    <2>3. CASE ci_connection_read_tls
      BY <2>3 DEF ci_connection_read_tls, NetData, Written
    <2>4. CASE ci_read_nonblock
      BY <2>4 DEF ci_read_nonblock, Usable
    <2>5. CASE ci_linger_close
      BY <2>5 DEF ci_linger_close
    <2>. QED
      BY <2>1, <2>2, <2>3, <2>4, <2>5
  <1>8. Written'
    BY <1>5, <1>7 DEF NetData, Written
  <1>9. NetDataOK'
    BY <1>0, <1>2, <1>4, <1>5, <1>6 DEF NetData, NetDataOK
  <1>10. Streams'
    BY <1>4, <1>5 DEF NetData, Streams
  <1>. QED
    BY <1>8, <1>9, <1>10 DEF NetData

(* A write takes a part of a buffer that follows what was written before.  *)
LEMMA PutsInOrder ==
  ASSUME NetData, CanPut, NEW b \in Seq(Nat), InOrder(sent \o b), Put(b)
  PROVE  /\ sent' \in Seq(Nat) /\ outbox' \in Seq(Nat) /\ Rest(b) \in Seq(Nat)
         /\ InOrder(sent') /\ InOrder(sent' \o Rest(b))
         /\ Shorter(SocketFree, Len(b)) \in Int
  <1>1. sent \in Seq(Nat) /\ outbox \in Seq(Nat) /\ Len(outbox) \in Nat /\ SocketRoom \in Nat /\ Len(b) \in Nat
    BY ConnectionsAssumption, LenProperties DEF NetData, NetDataOK
  <1>2. SocketFree \in Nat
    BY <1>1 DEF CanPut, SocketFree
  <1>3. PICK m : m = Shorter(SocketFree, Len(b))
    OBVIOUS
  <1>4. m \in 0 .. Len(b) /\ m \in Int
    BY <1>1, <1>2, <1>3, ShorterLength
  <1>5. /\ outbox' = outbox \o SubSeq(b, 1, m) /\ sent' = sent \o SubSeq(b, 1, m)
        /\ Rest(b) = SubSeq(b, m + 1, Len(b))
    BY <1>3 DEF Put, Rest
  <1>6. SubSeq(b, 1, m) \in Seq(Nat) /\ SubSeq(b, m + 1, Len(b)) \in Seq(Nat)
    BY <1>4, SplitSeq
  <1>7. sent' \in Seq(Nat) /\ outbox' \in Seq(Nat) /\ Rest(b) \in Seq(Nat)
    BY <1>1, <1>5, <1>6, ConcatProperties
  <1>8. sent' \o Rest(b) = sent \o b
    BY <1>1, <1>4, <1>5, MoveFront
  <1>9. InOrder(sent' \o Rest(b))
    BY <1>8
  <1>10. InOrder(sent')
    BY <1>7, <1>9, InOrderFront
  <1>. QED
    BY <1>3, <1>4, <1>7, <1>9, <1>10

(* Writing.                                                                *)
LEMMA WritesInOrder ==
  ASSUME NetTypeOK, Descriptor, NetData,
         \/ ci_write
         \/ \E n \in 1..ReadSize : ci_connection_write(n) \/ ci_write_nonblock(n)
  PROVE  NetData'
  <1>0. /\ left \in Seq(Nat) /\ sent \in Seq(Nat) /\ outbox \in Seq(Nat) /\ result \in Int
        /\ -1 \in Int /\ 0 \in Int /\ 1 \in Int /\ ReadSize \in Nat /\ InOrder(sent)
    BY ConnectionsAssumption DEF NetData, NetDataOK, Streams
  <1>1. UNCHANGED <<side, inbox, got>>
    BY DEF ci_write, ci_connection_write, ci_write_nonblock, objVars
  <1>2. CASE ci_write
    <2>0. call = "writing" /\ InOrder(sent \o left)
      BY <1>2 DEF ci_write, NetData, Written
    <2>1. CASE CanPut /\ Put(left) /\ left' = Rest(left)
      <3>1. /\ sent' \in Seq(Nat) /\ outbox' \in Seq(Nat) /\ left' \in Seq(Nat)
            /\ InOrder(sent') /\ InOrder(sent' \o left')
        BY <1>0, <2>0, <2>1, PutsInOrder
      <3>2. \/ left' = <<>> /\ call' = "idle" /\ result' = 1
            \/ call' = call /\ result' = result
        <4>1. peer # "reset"
          BY <2>1 DEF CanPut
        <4>. QED
          BY <1>2, <2>1, <4>1 DEF ci_write
      <3>3. side # "none"
        BY <2>0 DEF Descriptor
      <3>5. Written'
        BY <1>1, <2>0, <3>1, <3>2, <3>3 DEF Written
      <3>6. NetDataOK'
        BY <1>0, <1>1, <3>1, <3>2 DEF NetData, NetDataOK
      <3>7. Streams'
        BY <1>1, <3>1 DEF NetData, Streams
      <3>. QED
        BY <3>5, <3>6, <3>7 DEF NetData
    <2>2. CASE ~(CanPut /\ Put(left) /\ left' = Rest(left))
      <3>1. /\ UNCHANGED <<left, outbox, sent>>
            /\ \/ call' = "write_wait" /\ result' = result
               \/ call' = "idle" /\ result' = -1
        BY <1>2, <2>2 DEF ci_write
      <3>2. -1 <= 0 /\ side # "none"
        BY <2>0 DEF Descriptor
      <3>3. Written'
        BY <1>1, <2>0, <3>1, <3>2 DEF NetData, Written
      <3>4. NetDataOK'
        BY <1>0, <1>1, <3>1 DEF NetData, NetDataOK
      <3>5. Streams'
        BY <1>1, <3>1 DEF NetData, Streams
      <3>. QED
        BY <3>3, <3>4, <3>5 DEF NetData
    <2>. QED
      BY <2>1, <2>2
  <1>3. ASSUME NEW n \in 1..ReadSize, ci_connection_write(n) \/ ci_write_nonblock(n)
        PROVE  NetData'
    <2>1. n \in Nat
      BY <1>0
    <2>2. PICK b : b = Buffer(n)
      OBVIOUS
    <2>3. b \in Seq(Nat) /\ Len(b) = n /\ InOrder(sent \o b)
      BY <1>0, <2>1, <2>2, InOrderNext DEF Buffer
    <2>4. fd = "one" /\ left = <<>> /\ call = "idle" /\ side # "none"
      BY <1>3 DEF ci_connection_write, ci_write_nonblock, Usable, Descriptor
    <2>5. CASE ci_connection_write(n)
      <3>1. left' = b /\ call' = "writing" /\ UNCHANGED <<sent, outbox, result>>
        BY <2>2, <2>5 DEF ci_connection_write
      <3>2. Written'
        BY <1>1, <2>3, <2>4, <3>1 DEF Written
      <3>3. NetDataOK'
        BY <1>0, <1>1, <2>3, <3>1 DEF NetData, NetDataOK
      <3>4. Streams'
        BY <1>1, <3>1 DEF NetData, Streams
      <3>. QED
        BY <3>2, <3>3, <3>4 DEF NetData
    <2>6. CASE ci_write_nonblock(n)
      <3>1. left' = left /\ call' = call
        BY <2>6 DEF ci_write_nonblock
      <3>2. sent' \in Seq(Nat) /\ outbox' \in Seq(Nat) /\ InOrder(sent') /\ result' \in Int
        <4>1. CASE CanPut /\ Put(b) /\ result' = Shorter(SocketFree, n)
          BY <2>3, <4>1, PutsInOrder
        <4>2. CASE (result' = 0 \/ result' = -1) /\ UNCHANGED <<outbox, sent>>
          BY <1>0, <4>2
        <4>. QED
          BY <2>2, <2>6, <4>1, <4>2 DEF ci_write_nonblock
      <3>3. Written'
        BY <2>4, <3>1 DEF Written
      <3>4. NetDataOK'
        BY <1>0, <1>1, <3>1, <3>2 DEF NetData, NetDataOK
      <3>5. Streams'
        BY <1>1, <3>2 DEF NetData, Streams
      <3>. QED
        BY <3>3, <3>4, <3>5 DEF NetData
    <2>. QED
      BY <1>3, <2>5, <2>6
  <1>. QED
    BY <1>2, <1>3

(* The peer sends the next unit, or takes one.                             *)
LEMMA PeerInOrder ==
  ASSUME NetData, PeerMoves
  PROVE  NetData'
  <1>1. UNCHANGED <<side, call, result, left, got, sent>>
    BY DEF PeerMoves, objVars
  <1>2. inbox \in Seq(Nat) /\ got \in Seq(Nat) /\ outbox \in Seq(Nat) /\ InOrder(got \o inbox)
    BY DEF NetData, NetDataOK, Streams
  <1>3. Len(got) \in Nat /\ Len(inbox) \in Nat
    BY <1>2, LenProperties
  <1>4. inbox' \in Seq(Nat) /\ InOrder(got' \o inbox')
    <2>1. PICK u : u = Len(got) + Len(inbox) + 1
      OBVIOUS
    <2>2. inbox' = inbox \/ inbox' = Append(inbox, u)
      BY <2>1 DEF PeerMoves
    <2>3. CASE inbox' = inbox
      BY <1>1, <1>2, <2>3
    <2>4. CASE inbox' = Append(inbox, u)
      <3>. DEFINE r == got \o inbox
                  s == got \o Append(inbox, u)
      <3>1. u \in Nat /\ Append(inbox, u) \in Seq(Nat)
        BY <1>2, <1>3, <2>1
      <3>0. r \in Seq(Nat) /\ Len(r) = Len(got) + Len(inbox)
        BY <1>2, ConcatProperties
      <3>2. r \in Seq(Nat) /\ Len(r) = Len(got) + Len(inbox) /\ \A i \in 1 .. Len(r) : r[i] = i
        BY <1>2, <3>0, InOrderElements
      <3>3. s = Append(r, u)
        BY <1>2, <3>1
      <3>. HIDE DEF r, s
      <3>4. s \in Seq(Nat) /\ Len(s) = u /\ (\A i \in 1 .. Len(r) : s[i] = r[i]) /\ s[Len(r) + 1] = u
        BY <1>3, <2>1, <3>1, <3>2, <3>3
      <3>5. ASSUME NEW i \in 1 .. Len(s) PROVE s[i] = i
        <4>1. i \in 1 .. Len(r) \/ i = Len(r) + 1
          BY <1>3, <2>1, <3>2, <3>4
        <4>2. u = Len(r) + 1
          BY <2>1, <3>2
        <4>. QED
          BY <3>2, <3>4, <4>1, <4>2
      <3>6. InOrder(s)
        BY <3>4, <3>5, InOrderElements
      <3>. QED
        BY <1>1, <2>4, <3>1, <3>6 DEF s
    <2>. QED
      BY <2>2, <2>3, <2>4
  <1>5. outbox' \in Seq(Nat)
    <2>1. outbox' = outbox \/ (outbox # <<>> /\ outbox' = Tail(outbox))
      BY DEF PeerMoves
    <2>2. outbox # <<>> => Tail(outbox) \in Seq(Nat)
      BY <1>2, HeadTailProperties
    <2>. QED
      BY <1>2, <2>1, <2>2
  <1>6. NetDataOK'
    BY <1>1, <1>4, <1>5 DEF NetData, NetDataOK
  <1>7. Written' /\ Streams'
    BY <1>1, <1>4 DEF NetData, Written, Streams
  <1>. QED
    BY <1>6, <1>7 DEF NetData

(* Every step.                                                             *)
LEMMA NetStep == NetInv /\ [ConnectionsNext]_netVars => NetInv'
  <1>. SUFFICES ASSUME NetInv, [ConnectionsNext]_netVars PROVE NetInv'
    OBVIOUS
  <1>1. NetTypeOK /\ Descriptor /\ NetData
    BY DEF NetInv, NetData
  <1>2. CASE ConnectionsNext
    <2>1. NetTypeOK' /\ Descriptor'
      BY <1>1, <1>2, ClosesOwn, OpensFree, TransfersKeep DEF ConnectionsNext
    <2>2. NetData'
      BY <1>1, <1>2, NoDataMoves, ForgetsData, ReadsInOrder, WritesInOrder, PeerInOrder DEF ConnectionsNext
    <2>. QED
      BY <2>1, <2>2 DEF NetInv, NetData
  <1>3. CASE UNCHANGED netVars
    BY <1>3 DEF netVars, objVars, sysVars, dataVars, NetInv, NetTypeOK, NetDataOK, Descriptor, Written, Streams
  <1>. QED
    BY <1>2, <1>3

(* Every unit crosses a connection once and in order, over short reads,    *)
(* short writes, timeouts and signals; no close hits a descriptor of       *)
(* another thread, and none of ours is lost; and only a plain connection   *)
(* that was reset while its thread waited keeps the thread: for any sizes  *)
(* of buffers and sockets and any amount of data.                          *)
THEOREM ConnectionsExact == ConnectionsSpec => []TransfersExact
  <1>1. ConnectionsInit => NetInv
    BY NetInit
  <1>2. NetInv /\ [ConnectionsNext]_netVars => NetInv'
    BY NetStep
  <1>3. NetInv => TransfersExact
    BY NetInvExact
  <1>. QED
    BY <1>1, <1>2, <1>3, PTL DEF ConnectionsSpec
=============================================================================
