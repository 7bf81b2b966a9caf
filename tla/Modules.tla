------------------------------ MODULE Modules -------------------------------
(***************************************************************************)
(* The modules that a configuration loads (module.c) and what it selects   *)
(* among them: the loggers (log.c), the access controllers (access.c) and  *)
(* the authenticators of each authentication method.  A selection keeps    *)
(* pointers to modules, and a reconfiguration frees the modules: a module  *)
(* is a record with the number of its loading, so that a pointer that is   *)
(* kept too long is told from one to the module loaded in its place.       *)
(***************************************************************************)
EXTENDS Naturals, Sequences, SequencesExt, FiniteSets

CONSTANTS
  Libraries,      \* modules in files: records name, type, method
  LoggerLines,    \* arguments of Logger: sequences of names
  ControllerLines, \* arguments of AclControllers: sequences of names
  AuthLines,      \* AuthMethod lines: records method, names
  MaxModLines,    \* bound: lines of a configuration
  MaxModReads,    \* bound: configurations read
  Null

VARIABLES
  modPhase, modLines, modReads,
  modOk,          \* no line of this file has failed
  lists,          \* modules_lists_table: type -> sequence of modules
  default_loggers, disable_logs,
  used_access_controllers,
  authenticators_hash,  \* method id -> sequence of authenticators, or Null
  said            \* ghost: the names of this file's Logger lines, with the loggers they found

modVars == <<modPhase, modLines, modReads, modOk, lists, default_loggers, disable_logs,
             used_access_controllers, authenticators_hash, said>>
selVars == <<default_loggers, disable_logs, said>>

Kinds == {"service_handler", "logger", "access_controller", "auth_method", "authenticator", "common"}

(* The modules that are part of the server; nothing frees them.            *)
Builtin(name, type) == [name |-> name, type |-> type, method |-> "Basic", inst |-> 0, posted |-> FALSE]
file_logger == Builtin("file_logger", "logger")
default_acl == Builtin("default_acl", "access_controller")
basic_auth == Builtin("Basic", "auth_method")

(* init_modules.                                                           *)
BuiltinLists ==
  [t \in Kinds |->
     CASE t = "service_handler" -> <<Builtin("C", t)>>
       [] t = "logger" -> <<file_logger>>
       [] t = "access_controller" -> <<default_acl>>
       [] t = "auth_method" -> <<basic_auth>>
       [] t = "authenticator" -> <<Builtin("basic_simple_db", t)>>
       [] OTHER -> <<>>]

(* init_auth_hash clears 20 bytes of its array, the first two pointers.    *)
(* Bound: method ids 0 and 1.                                              *)
ClearedIds == 0..1
init_auth_hash == [i \in ClearedIds |-> Null]

ModulesInit ==
  /\ modPhase = "reading" /\ modLines = 0 /\ modReads = 1 /\ modOk = TRUE
  /\ lists = BuiltinLists
  /\ default_loggers = Null /\ disable_logs = FALSE
  /\ used_access_controllers = <<default_acl>>
  /\ authenticators_hash = init_auth_hash
  /\ said = <<>>

(***************************************************************************)
(* Looking up                                                              *)
(***************************************************************************)
FirstNamed(list, name) ==
  LET named == SelectSeq(list, LAMBDA m : m.name = name)
  IN  IF named = <<>> THEN <<>> ELSE <<Head(named)>>
find_logger(name) == FirstNamed(lists["logger"], name)
find_access_controller(name) == FirstNamed(lists["access_controller"], name)
find_common(name) == FirstNamed(lists["common"], name)
find_auth_method(name) == FirstNamed(lists["auth_method"], name)
find_authenticator(name) == FirstNamed(lists["authenticator"], name)
find_servicehandler(name) == FirstNamed(lists["service_handler"], name)

find_module(name) ==
  find_logger(name) \o find_servicehandler(name) \o find_access_controller(name)
    \o find_auth_method(name) \o find_authenticator(name) \o find_common(name)

(* find_auth_method_id: the id is the place in the list, from 0.           *)
find_auth_method_id(name) == {i \in DOMAIN lists["auth_method"] : lists["auth_method"][i].name = name}

(***************************************************************************)
(* Lines of a configuration                                                *)
(***************************************************************************)
ModLine(ok) ==
  /\ modPhase = "reading" /\ modLines < MaxModLines
  /\ modLines' = modLines + 1 /\ modOk' = (modOk /\ ok)
  /\ UNCHANGED <<modPhase, modReads>>

(* load_module: the file may not be there, be of another release or have   *)
(* no module in it.                                                        *)
load_module(l) == {Null, [name |-> l.name, type |-> l.type, method |-> l.method, inst |-> modReads, posted |-> FALSE]}

(* init_module's result is not looked at.                                  *)
add_to_modules_list(m) == lists' = [lists EXCEPT ![m.type] = Append(@, m)]

(* register_module, of a known type: a name that any module has is         *)
(* refused.                                                                *)
register_module(l) ==
  /\ \E m \in load_module(l) :
       IF m = Null \/ find_module(l.name) # <<>>
       THEN ModLine(FALSE) /\ UNCHANGED lists
       ELSE ModLine(TRUE) /\ add_to_modules_list(m)
  /\ l.type = "auth_method" => Len(lists["auth_method"]) \in ClearedIds
  /\ UNCHANGED <<selVars, used_access_controllers, authenticators_hash>>

(* cfg_set_logger: "none" drops the loggers so far (log_disable_logs),     *)
(* each known logger is added (log_add_logger).                            *)
WithLogger(s, name) ==
  IF name = "none" THEN [loggers |-> <<>>, off |-> TRUE]
  ELSE IF find_logger(name) = <<>> THEN s
  ELSE [loggers |-> Append(s.loggers, Head(find_logger(name))), off |-> FALSE]

LoggersOr(seq) == IF seq = <<>> THEN Null ELSE seq

cfg_set_logger(names) ==
  /\ ModLine(TRUE)
  /\ LET s == FoldLeft(WithLogger, [loggers |-> IF default_loggers = Null THEN <<>> ELSE default_loggers,
                                    off |-> disable_logs], names)
     IN  default_loggers' = LoggersOr(s.loggers) /\ disable_logs' = s.off
  /\ said' = said \o [i \in DOMAIN names |-> [name |-> names[i], found |-> find_logger(names[i])]]
  /\ UNCHANGED <<lists, used_access_controllers, authenticators_hash>>

(* cfg_set_acl_controllers: a later line replaces an earlier one; "none"   *)
(* allows everything.  An unknown name fails the line.                     *)
cfg_set_acl_controllers(names) ==
  /\ IF Head(names) = "none"
     THEN ModLine(TRUE) /\ used_access_controllers' = Null
     ELSE /\ ModLine(\A i \in DOMAIN names : find_access_controller(names[i]) # <<>>)
          /\ used_access_controllers' = FlattenSeq([i \in DOMAIN names |-> find_access_controller(names[i])])
  /\ UNCHANGED <<lists, selVars, authenticators_hash>>

(* cfg_set_auth_method, set_method_authenticators, methods_authenticators: *)
(* the list of a method becomes those authenticators that exist and are of *)
(* the method.  An unknown method fails the line.  For "none" the list of  *)
(* names is a NULL that methods_authenticators reads, and the process      *)
(* ends.                                                                   *)
methods_authenticators(method, names) ==
  LET found == FlattenSeq([i \in DOMAIN names |-> find_authenticator(names[i])])
  IN  SelectSeq(found, LAMBDA a : a.method = method)

cfg_set_auth_method(l) ==
  /\ IF find_auth_method_id(l.method) = {}
     THEN ModLine(FALSE) /\ UNCHANGED authenticators_hash
     ELSE IF Head(l.names) = "none"
     THEN /\ modPhase = "reading" /\ modLines < MaxModLines
          /\ modPhase' = "failed" /\ UNCHANGED <<modLines, modReads, modOk, authenticators_hash>>
     ELSE \E i \in find_auth_method_id(l.method) :
            /\ ModLine(TRUE)
            /\ authenticators_hash' = [authenticators_hash EXCEPT ![i - 1] = methods_authenticators(l.method, l.names)]
  /\ UNCHANGED <<lists, selVars, used_access_controllers>>

(* get_authentication_schema: the authenticators that a request which      *)
(* names the method is shown to.                                           *)
get_authentication_schema(method) ==
  UNION {ToSet(authenticators_hash[i - 1]) :
           i \in {j \in find_auth_method_id(method) : authenticators_hash[j - 1] # Null}}

(***************************************************************************)
(* The end of the file, and reading it again                               *)
(***************************************************************************)
(* log_open: without a line the loggers are the file logger, unless logs   *)
(* are disabled.                                                           *)
log_open == IF default_loggers = Null /\ ~disable_logs THEN <<file_logger>> ELSE default_loggers

(* The server ends on a file with a bad line.                              *)
BadFile ==
  /\ modPhase = "reading" /\ ~modOk /\ modPhase' = "failed"
  /\ UNCHANGED <<modLines, modReads, modOk, lists, selVars, used_access_controllers, authenticators_hash>>

(* post_init_modules: all lists but that of the loggers.                   *)
post_init_modules ==
  /\ modPhase = "reading" /\ modOk
  /\ modPhase' = "running"
  /\ default_loggers' = log_open
  /\ lists' = [t \in Kinds |-> IF t = "logger" THEN lists[t]
                               ELSE [i \in DOMAIN lists[t] |-> [lists[t][i] EXCEPT !.posted = TRUE]]]
  /\ UNCHANGED <<modLines, modReads, modOk, disable_logs, used_access_controllers, authenticators_hash, said>>

(* Mutant: access_reset is missing.                                        *)
release_modules_NoReset ==
  /\ modPhase = "running" /\ modReads < MaxModReads
  /\ default_loggers' = Null
  /\ lists' = BuiltinLists /\ authenticators_hash' = init_auth_hash
  /\ modPhase' = "reading" /\ modLines' = 0 /\ modReads' = modReads + 1
  /\ said' = <<>>
  /\ UNCHANGED <<modOk, disable_logs, used_access_controllers>>

(* release_modules (log_reset, access_reset, the modules freed) and, later *)
(* in system_reconfigure, init_modules; disable_logs is not reset.         *)
release_modules ==
  /\ modPhase = "running" /\ modReads < MaxModReads
  /\ default_loggers' = Null
  /\ used_access_controllers' = <<default_acl>>
  /\ lists' = BuiltinLists /\ authenticators_hash' = init_auth_hash
  /\ modPhase' = "reading" /\ modLines' = 0 /\ modReads' = modReads + 1
  /\ said' = <<>>
  /\ UNCHANGED <<modOk, disable_logs>>

ModulesNext ==
  \/ \E l \in Libraries : register_module(l)
  \/ \E names \in LoggerLines : cfg_set_logger(names)
  \/ \E names \in ControllerLines : cfg_set_acl_controllers(names)
  \/ \E l \in AuthLines : cfg_set_auth_method(l)
  \/ BadFile \/ post_init_modules
  \/ release_modules

(***************************************************************************)
(* Properties                                                              *)
(***************************************************************************)
Loaded(ms, type) == \A i \in DOMAIN ms : \E j \in DOMAIN lists[type] : lists[type][j].name = ms[i].name
                                                                     /\ lists[type][j].inst = ms[i].inst

(* The loggers that the file's lines name after the last "none".           *)
SaysNone == \E i \in DOMAIN said : said[i].name = "none"
NamedLoggers ==
  LET from == Max({0} \cup {i \in DOMAIN said : said[i].name = "none"})
  IN  FlattenSeq([i \in 1..(Len(said) - from) |-> said[from + i].found])

(* However often the configuration is read, the server logs with, asks for *)
(* access and authenticates with modules that are loaded, never with one   *)
(* that a reconfiguration has freed; a request that names a method is only *)
(* shown to authenticators of this method; and the loggers are those that  *)
(* the file names, the file logger when it names none, unless logs have    *)
(* been disabled, by this file or (disable_logs stays set) by an earlier   *)
(* one (release_modules, log_reset, access_reset, methods_authenticators,  *)
(* log_open).                                                              *)
SelectedAreLoaded ==
  /\ default_loggers # Null => Loaded(default_loggers, "logger")
  /\ used_access_controllers # Null => Loaded(used_access_controllers, "access_controller")
  /\ \A i \in DOMAIN authenticators_hash :
       authenticators_hash[i] # Null => Loaded(authenticators_hash[i], "authenticator")
  /\ \A i \in DOMAIN lists["auth_method"] :
       LET name == lists["auth_method"][i].name
       IN  \A a \in get_authentication_schema(name) : a.method = name
  /\ modPhase = "running" =>
       default_loggers = IF NamedLoggers # <<>> THEN NamedLoggers
                         ELSE IF disable_logs \/ SaysNone THEN Null ELSE <<file_logger>>
=============================================================================
