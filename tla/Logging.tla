------------------------------- MODULE Logging -------------------------------
(***************************************************************************)
(* The file logger (log.c): the formats and log files that a configuration *)
(* names, opening and closing them, the "relog" command, which reopens     *)
(* them in the main thread while workers log, each file under a lock of    *)
(* its own, and log_reset, which frees formats that log files point to.    *)
(* A format is numbered when it is added; an open file is a number.        *)
(***************************************************************************)
EXTENDS Naturals, Sequences, FiniteSets

CONSTANTS
  LogWorkers,     \* threads that log
  LogNames,       \* names of log files
  FormatNames,    \* names of formats; others have no LogFormat line
  MaxLogLines,    \* bound: lines of a configuration
  MaxLogReads,    \* bound: configurations read
  MaxOpened,      \* bound: files opened
  NoFile          \* a FILE * that is NULL

ASSUME LoggingAssumption == MaxLogLines \in Nat /\ NoFile \notin Nat \ {0}

VARIABLES
  logPhase, logLines, logReads,
  LOGFORMATS,     \* sequence of records name, id
  freed,          \* ids below this one are of formats that have been freed
  ACCESS_LOG_FILES, \* sequence of records file, fmt (0: the default), acl, access_log
  server_log,
  openFiles,      \* FILEs that are open
  nextFile,       \* number of the next one
  readers,        \* lock -> threads that have it for reading; lock 0 is systemlog_rwlock
  relogAt,        \* what relog does next, "wait" or "have", and with which lock
  logAt           \* thread -> what it does next

confLogVars == <<logPhase, logLines, logReads, LOGFORMATS, freed>>
fileVars == <<ACCESS_LOG_FILES, server_log, openFiles, nextFile>>
logVars == <<confLogVars, fileVars, readers, relogAt, logAt>>

Locks == 0..MaxLogLines
NoRelog == <<"no", 0>>
Idle == <<"idle", 0, FALSE>>

LoggingInit ==
  /\ logPhase = "reading" /\ logLines = 0 /\ logReads = 1
  /\ LOGFORMATS = <<>> /\ freed = 1
  /\ ACCESS_LOG_FILES = <<>> /\ server_log = NoFile /\ openFiles = {} /\ nextFile = 1
  /\ readers = [k \in Locks |-> {}] /\ relogAt = NoRelog
  /\ logAt = [w \in LogWorkers |-> Idle]

(***************************************************************************)
(* The configuration                                                       *)
(***************************************************************************)
LogLine == logPhase = "reading" /\ logLines < MaxLogLines /\ logLines' = logLines + 1 /\ UNCHANGED <<logPhase, logReads, freed>>

(* logformat_add appends, whether the name is there or not.                *)
logformat_add(name) ==
  /\ LogLine
  /\ LOGFORMATS' = Append(LOGFORMATS, [name |-> name, id |-> freed + Len(LOGFORMATS)])
  /\ UNCHANGED <<fileVars, readers, relogAt, logAt>>

(* logformat_fmt: the first of that name, 0 if there is none.              *)
logformat_fmt(name) ==
  LET at == {i \in DOMAIN LOGFORMATS : LOGFORMATS[i].name = name}
  IN  IF at = {} THEN 0 ELSE LOGFORMATS[CHOOSE i \in at : \A j \in at : i <= j].id

(* file_log_addlogfile refuses a file that is there, but does not look at  *)
(* the last one.                                                           *)
file_log_addlogfile(file, format, acl) ==
  /\ LogLine
  /\ ACCESS_LOG_FILES' =
       IF \E i \in 1..(Len(ACCESS_LOG_FILES) - 1) : ACCESS_LOG_FILES[i].file = file THEN ACCESS_LOG_FILES
       ELSE Append(ACCESS_LOG_FILES, [file |-> file, fmt |-> logformat_fmt(format), acl |-> acl, access_log |-> NoFile])
  /\ UNCHANGED <<LOGFORMATS, server_log, openFiles, nextFile, readers, relogAt, logAt>>

(* file_log_open: each logfile_open may fail; without the server log the   *)
(* logger is not open, but what is open stays so.                          *)
file_log_open ==
  /\ logPhase = "reading"
  /\ \E good \in SUBSET (0..Len(ACCESS_LOG_FILES)) :
       LET fd(k) == IF k \in good THEN nextFile + k ELSE NoFile
       IN  /\ ACCESS_LOG_FILES' = [k \in DOMAIN ACCESS_LOG_FILES |-> [ACCESS_LOG_FILES[k] EXCEPT !.access_log = fd(k)]]
           /\ server_log' = fd(0)
           /\ openFiles' = openFiles \cup {nextFile + k : k \in good}
  /\ nextFile' = nextFile + Len(ACCESS_LOG_FILES) + 1
  /\ logPhase' = "running"
  /\ UNCHANGED <<logLines, logReads, LOGFORMATS, freed, readers, relogAt, logAt>>

(* release_modules: log_reset frees the formats, file_log_close closes and *)
(* frees the log files.  The threads of a child have ended by then, and    *)
(* the monitor has none.                                                   *)
file_log_close ==
  /\ logPhase = "running" /\ logReads < MaxLogReads
  /\ relogAt = NoRelog /\ \A w \in LogWorkers : logAt[w] = Idle
  /\ freed' = freed + Len(LOGFORMATS) /\ LOGFORMATS' = <<>>
  /\ openFiles' = openFiles \ ({ACCESS_LOG_FILES[k].access_log : k \in DOMAIN ACCESS_LOG_FILES} \cup {server_log})
  /\ ACCESS_LOG_FILES' = <<>> /\ server_log' = NoFile
  /\ logPhase' = "reading" /\ logLines' = 0 /\ logReads' = logReads + 1
  /\ UNCHANGED <<nextFile, readers, relogAt, logAt>>

(***************************************************************************)
(* The "relog" command                                                     *)
(***************************************************************************)
NextLock(k) == IF k < Len(ACCESS_LOG_FILES) THEN k + 1 ELSE 0

StartRelog ==
  /\ logPhase = "running" /\ relogAt = NoRelog
  /\ nextFile + Len(ACCESS_LOG_FILES) < MaxOpened
  /\ relogAt' = <<"wait", NextLock(0)>>
  /\ UNCHANGED <<confLogVars, fileVars, readers, logAt>>

(* Mutant: the file is reopened without the lock.                          *)
RelogLock_None ==
  /\ relogAt[1] = "wait"
  /\ relogAt' = <<"have", relogAt[2]>>
  /\ UNCHANGED <<confLogVars, fileVars, readers, logAt>>

RelogLock ==
  /\ relogAt[1] = "wait" /\ readers[relogAt[2]] = {}
  /\ relogAt' = <<"have", relogAt[2]>>
  /\ UNCHANGED <<confLogVars, fileVars, readers, logAt>>

(* fclose, logfile_open and the unlock; the server log is the last.        *)
Reopen ==
  /\ relogAt[1] = "have"
  /\ LET k == relogAt[2]
         old == IF k = 0 THEN server_log ELSE ACCESS_LOG_FILES[k].access_log
     IN  /\ \E new \in {nextFile, NoFile} :
              /\ openFiles' = (openFiles \ {old}) \cup ({new} \ {NoFile})
              /\ IF k = 0 THEN server_log' = new /\ UNCHANGED ACCESS_LOG_FILES
                 ELSE ACCESS_LOG_FILES' = [ACCESS_LOG_FILES EXCEPT ![k].access_log = new] /\ UNCHANGED server_log
         /\ nextFile' = nextFile + 1
         /\ relogAt' = IF k = 0 THEN NoRelog ELSE <<"wait", NextLock(k)>>
  /\ UNCHANGED <<confLogVars, readers, logAt>>

(***************************************************************************)
(* Workers                                                                 *)
(***************************************************************************)
CanRead(k) == relogAt # <<"have", k>>

(* file_log_access: each file whose acls match; the lock, the line if the  *)
(* file is open, the unlock.                                               *)
NextMatch(w, from, allowed) ==
  LET ks == {k \in DOMAIN ACCESS_LOG_FILES : k >= from /\ (ACCESS_LOG_FILES[k].acl => allowed)}
  IN  IF ks = {} THEN Idle ELSE <<"wait", CHOOSE k \in ks : \A j \in ks : k <= j, allowed>>

StartLogAccess(w) ==
  /\ logPhase = "running" /\ logAt[w] = Idle
  /\ \E allowed \in BOOLEAN : logAt' = [logAt EXCEPT ![w] = NextMatch(w, 1, allowed)]
  /\ UNCHANGED <<confLogVars, fileVars, readers, relogAt>>

(* file_log_server looks at server_log before it takes the lock, and       *)
(* prints to it after that.                                                *)
StartLogServer(w) ==
  /\ logPhase = "running" /\ logAt[w] = Idle /\ server_log # NoFile
  /\ logAt' = [logAt EXCEPT ![w] = <<"wait", 0, TRUE>>]
  /\ UNCHANGED <<confLogVars, fileVars, readers, relogAt>>

ReadLock(w) ==
  /\ logAt[w][1] = "wait" /\ CanRead(logAt[w][2])
  /\ readers' = [readers EXCEPT ![logAt[w][2]] = @ \cup {w}]
  /\ logAt' = [logAt EXCEPT ![w] = <<"print", logAt[w][2], logAt[w][3]>>]
  /\ UNCHANGED <<confLogVars, fileVars, relogAt>>

Printed(w) ==
  /\ logAt[w][1] = "print"
  /\ readers' = [readers EXCEPT ![logAt[w][2]] = @ \ {w}]
  /\ logAt' = [logAt EXCEPT ![w] = IF logAt[w][2] = 0 THEN Idle
                                   ELSE NextMatch(w, logAt[w][2] + 1, logAt[w][3])]
  /\ UNCHANGED <<confLogVars, fileVars, relogAt>>

LoggingNext ==
  \/ \E n \in FormatNames : logformat_add(n)
  \/ \E f \in LogNames, n \in FormatNames \cup {"other"}, acl \in BOOLEAN : file_log_addlogfile(f, n, acl)
  \/ file_log_open \/ file_log_close
  \/ StartRelog \/ RelogLock \/ Reopen
  \/ \E w \in LogWorkers : StartLogAccess(w) \/ StartLogServer(w) \/ ReadLock(w) \/ Printed(w)

LoggingSpec == LoggingInit /\ [][LoggingNext]_logVars

(***************************************************************************)
(* Properties                                                              *)
(***************************************************************************)
(* A thread that prints to a log file prints to one that is open, or knows *)
(* that there is none, whatever "relog" does meanwhile; only for the       *)
(* server log this can be a file that relog has failed to reopen.  The     *)
(* open files are those of the log files there are, none is lost over a    *)
(* relog or a reconfiguration; and no log file points to a format that has *)
(* been freed (file_log_relog, file_log_access, file_log_server,           *)
(* file_log_close, log_reset).                                             *)
LogsToOpenFiles ==
  /\ \A w \in LogWorkers :
       logAt[w][1] = "print" =>
         LET k == logAt[w][2]
             f == IF k = 0 THEN server_log ELSE ACCESS_LOG_FILES[k].access_log
         IN  /\ f = NoFile \/ f \in openFiles
             /\ relogAt # <<"have", k>>
  /\ openFiles = ({ACCESS_LOG_FILES[k].access_log : k \in DOMAIN ACCESS_LOG_FILES} \cup {server_log}) \ {NoFile}
  /\ \A k \in DOMAIN ACCESS_LOG_FILES : ACCESS_LOG_FILES[k].fmt = 0 \/ ACCESS_LOG_FILES[k].fmt >= freed
=============================================================================
