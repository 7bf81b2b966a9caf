--------------------------- MODULE Configuration ----------------------------
(***************************************************************************)
(* Reading a configuration and reading it again (cfg_param.c), with what   *)
(* it fills: the parameters and their saved defaults, the services and     *)
(* their aliases (service.c), and the tables that lead from the name in    *)
(* "name.Parameter" to what the parameter is of.                           *)
(* Tables keep pointers into the arrays of services and aliases; an array  *)
(* that is reallocated gets a new number, and a pointer with another       *)
(* number is dangling.                                                     *)
(***************************************************************************)
EXTENDS Naturals, Sequences, FiniteSets, SequencesExt

CONSTANTS
  ConfParams,     \* parameters that intl_cfg_... sets
  ConfValues,     \* their values, and those of PreviewSize
  ServiceNames,   \* names of service modules
  AliasNames,     \* names of aliases; may be the name of a service
  AliasArgs,      \* arguments of an alias
  STEP,           \* the arrays grow by this many entries (32)
  MaxLines,       \* bound: lines of a configuration file
  MaxReads,       \* bound: configurations read
  Unset           \* the value of a parameter before anything sets it

ASSUME ConfigurationAssumption == STEP \in Nat \ {0} /\ MaxLines \in Nat /\ MaxReads \in Nat

VARIABLES
  phase,          \* "reading", "running", "failed"
  lines, reads,   \* lines read of this file, files read
  parseOk,        \* no line of this file has failed
  params,         \* the parameters
  savedDefaults,  \* default_values: parameter -> value, for those saved
  services,       \* service_list with service_extra_data_list
  xdataArray,     \* number of the memory of service_extra_data_list
  aliases,        \* service_aliases
  aliasArray,     \* number of its memory
  tables,         \* extra_conf_tables
  asked           \* ghost: parameter -> last value in this file, for those set

confVars == <<phase, lines, reads, parseOk, params, savedDefaults, services, xdataArray,
              aliases, aliasArray, tables, asked>>
regVars == <<services, xdataArray, aliases, aliasArray, tables>>

NoFun == [x \in {} |-> Unset]

(* init_services puts the information service into the empty list.  The    *)
(* table of a service points into the array there is when it is added.     *)
InfoService == "info"
NewService(name, array) == [name |-> name, status |-> "ok", preview |-> Unset, built |-> array]
InfoTable == [name |-> InfoService, alias |-> FALSE, service |-> 1, xdata |-> 0, names |-> 0]

ConfigurationInit ==
  /\ phase = "reading" /\ lines = 0 /\ reads = 1 /\ parseOk = TRUE
  /\ params = [p \in ConfParams |-> Unset] /\ savedDefaults = NoFun
  /\ services = <<NewService(InfoService, 0)>> /\ xdataArray = 0
  /\ aliases = <<>> /\ aliasArray = 0
  /\ tables = <<InfoTable>>
  /\ asked = NoFun

Reading == phase = "reading" /\ lines < MaxLines
LineRead(ok) == lines' = lines + 1 /\ parseOk' = (parseOk /\ ok) /\ UNCHANGED <<phase, reads>>

(***************************************************************************)
(* Parameters                                                              *)
(***************************************************************************)
(* Mutant: the value before the latest setting is kept.                    *)
cfg_default_value_store_Latest(p) ==
  [q \in DOMAIN savedDefaults \cup {p} |-> IF q = p THEN params[p] ELSE savedDefaults[q]]

(* cfg_default_value_store keeps the value a parameter has before it is    *)
(* set for the first time.                                                 *)
cfg_default_value_store(p) ==
  IF p \in DOMAIN savedDefaults THEN savedDefaults
  ELSE [q \in DOMAIN savedDefaults \cup {p} |-> IF q = p THEN params[p] ELSE savedDefaults[q]]

intl_cfg_set(p, v) ==
  /\ Reading /\ LineRead(TRUE)
  /\ savedDefaults' = cfg_default_value_store(p)
  /\ params' = [params EXCEPT ![p] = v]
  /\ asked' = [q \in DOMAIN asked \cup {p} |-> IF q = p THEN v ELSE asked[q]]
  /\ UNCHANGED regVars

cfg_default_value_restore_all ==
  [p \in ConfParams |-> IF p \in DOMAIN savedDefaults THEN savedDefaults[p] ELSE params[p]]

(***************************************************************************)
(* Tables                                                                  *)
(***************************************************************************)
TableOf(name, ts) == {i \in DOMAIN ts : ts[i].name = name /\ \A j \in 1..(i - 1) : ts[j].name # name}

(* register_conf_table refuses a name that is there.                       *)
register_conf_table(ts, t) == IF TableOf(t.name, ts) # {} THEN ts ELSE Append(ts, t)

(***************************************************************************)
(* Services and aliases                                                    *)
(***************************************************************************)
find_service(name, ss) == {i \in DOMAIN ss : ss[i].name = name}
find_service_alias(name, as) ==
  {i \in DOMAIN as : as[i].alias = name /\ \A j \in 1..(i - 1) : as[j].alias # name}

(* What a request for a name gets (parse_header of request.c): the service *)
(* of that name, or that of the alias.                                     *)
Resolved(name) ==
  IF find_service(name, services) # {} THEN find_service(name, services)
  ELSE {aliases[i].service : i \in find_service_alias(name, aliases)}

Grown(num, array) == IF num = (array + 1) * STEP THEN array + 1 ELSE array

(* add_service_alias of a service or of an alias, whose arguments it       *)
(* extends; no arguments are printed as "(null)".                          *)
Printed(args) == IF args = Unset THEN <<"(null)">> ELSE <<args>>

AliasAdded(alias, target, args, ss, ts) ==
  LET base == {i \in find_service_alias(target, aliases) : find_service(target, ss) = {}}
      srv == find_service(target, ss) \cup {aliases[i].service : i \in base}
      array == Grown(Len(aliases), aliasArray)
  IN  IF alias = target THEN UNCHANGED <<aliases, aliasArray>> /\ tables' = ts
      ELSE IF srv = {} THEN aliasArray' = array /\ UNCHANGED aliases /\ tables' = ts
      ELSE \E s \in srv :
             /\ aliasArray' = array
             /\ aliases' = Append(aliases,
                  [alias |-> alias, service |-> s,
                   args |-> (IF base = {} THEN <<>> ELSE aliases[CHOOSE i \in base : TRUE].args) \o Printed(args)])
             /\ tables' = register_conf_table(ts,
                  [name |-> alias, alias |-> TRUE, service |-> s, xdata |-> ss[s].built, names |-> array])

(* cfg_load_service: register_service refuses a service that is loaded;    *)
(* add_service initializes it, which may fail, builds its table and        *)
(* registers that; the alias comes last.                                   *)
cfg_load_service(alias, name) ==
  /\ Reading
  /\ IF find_service(name, services) # {}
     THEN LineRead(FALSE) /\ UNCHANGED regVars
     ELSE /\ LineRead(TRUE)
          /\ xdataArray' = Grown(Len(services), xdataArray)
          /\ \E st \in {"ok", "error"} :
               LET ss == Append(services, [NewService(name, xdataArray') EXCEPT !.status = st])
                   t == [name |-> name, alias |-> FALSE, service |-> Len(ss), xdata |-> xdataArray', names |-> 0]
               IN  /\ services' = ss
                   /\ AliasAdded(alias, name, Unset, ss, register_conf_table(tables, t))
  /\ UNCHANGED <<params, savedDefaults, asked>>

cfg_service_alias(alias, target, args) ==
  /\ Reading /\ LineRead(TRUE)
  /\ AliasAdded(alias, target, args, services, tables)
  /\ UNCHANGED <<services, xdataArray, params, savedDefaults, asked>>

(* "name.PreviewSize v": process_line finds the table, cfg_srv_preview_size*)
(* sets the parameter in the extra data the table points to.               *)
TableAlive(t) == t.xdata = xdataArray /\ (t.alias => t.names = aliasArray)

cfg_srv_preview_size(name, v) ==
  /\ Reading
  /\ IF TableOf(name, tables) = {}
     THEN LineRead(FALSE) /\ UNCHANGED services
     ELSE \E i \in TableOf(name, tables) :
            /\ LineRead(TRUE)
            /\ services' = IF TableAlive(tables[i]) THEN [services EXCEPT ![tables[i].service].preview = v]
                           ELSE services
  /\ UNCHANGED <<xdataArray, aliases, aliasArray, tables, params, savedDefaults, asked>>

(***************************************************************************)
(* The configuration as a whole                                            *)
(***************************************************************************)
(* The end of the file: post_init_services gives the services that are ok  *)
(* a last occasion to fail.  A file with a bad line ends config and makes  *)
(* system_reconfigure fail.                                                *)
post_init_services ==
  /\ phase = "reading"
  /\ phase' = IF parseOk THEN "running" ELSE "failed"
  /\ services' \in {s \in [DOMAIN services -> {services[i] : i \in DOMAIN services}
                             \cup {[services[i] EXCEPT !.status = "error"] : i \in DOMAIN services}] :
                      \A i \in DOMAIN services :
                        s[i] \in {services[i], [services[i] EXCEPT !.status = "error"]}}
  /\ UNCHANGED <<lines, reads, parseOk, params, savedDefaults, xdataArray, aliases, aliasArray,
                 tables, asked>>

(* system_reconfigure: system_shutdown releases services and aliases, the  *)
(* tables are dropped, reconfig restores the parameters and reads the      *)
(* file.                                                                   *)
system_reconfigure ==
  /\ phase = "running" /\ reads < MaxReads
  /\ phase' = "reading" /\ lines' = 0 /\ reads' = reads + 1 /\ parseOk' = TRUE
  /\ params' = cfg_default_value_restore_all
  /\ services' = <<NewService(InfoService, 0)>> /\ xdataArray' = 0
  /\ aliases' = <<>> /\ aliasArray' = 0
  /\ tables' = <<InfoTable>>
  /\ asked' = NoFun
  /\ UNCHANGED savedDefaults

ConfigurationNext ==
  \/ \E p \in ConfParams, v \in ConfValues : intl_cfg_set(p, v)
  \/ \E a \in AliasNames, s \in ServiceNames : cfg_load_service(a, s)
  \/ \E a \in AliasNames, t \in ServiceNames \cup AliasNames, args \in AliasArgs \cup {Unset} :
       cfg_service_alias(a, t, args)
  \/ \E n \in ServiceNames \cup AliasNames, v \in ConfValues : cfg_srv_preview_size(n, v)
  \/ post_init_services \/ system_reconfigure

(***************************************************************************)
(* Properties                                                              *)
(***************************************************************************)
Shadowed(name) == find_service(name, services) # {} /\ find_service_alias(name, aliases) # {}

(* A server that has read its configuration again has the parameters of a  *)
(* server started with it: what this file sets, and the built-in defaults  *)
(* for the rest, whatever earlier files have set                           *)
(* (cfg_default_value_store, cfg_default_value_restore_all).  This is      *)
(* about the parameters that the intl_cfg functions set; CI_TMPDIR         *)
(* (cfg_param.c:664) and the schemes of sharing and locking (:787, :795)   *)
(* are not restored.  And "name.Parameter" configures the service that     *)
(* requests for that name get, also through aliases of aliases; as long as *)
(* the arrays have not been moved and no alias has the name of a service   *)
(* (register_conf_table, add_service_alias, find_service).                 *)
ReconfiguredAsFresh ==
  /\ phase = "running" =>
       \A p \in ConfParams : params[p] = IF p \in DOMAIN asked THEN asked[p] ELSE Unset
  /\ xdataArray = 0 /\ aliasArray = 0 =>
       \A i \in DOMAIN tables :
         ~Shadowed(tables[i].name) => Resolved(tables[i].name) = {tables[i].service}
=============================================================================
