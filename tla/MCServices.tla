----------------------------- MODULE MCServices -----------------------------
(***************************************************************************)
(* Small instances, for TLC, of the parts that the services of c-icap are  *)
(* made of and that a request or a configuration passes through: a shared  *)
(* cache, the statistics and their reports, the histograms, the commands,  *)
(* the configuration, the modules, the ports, the access control and the   *)
(* client library.  They share nothing: the variable part says which one a *)
(* behaviour is about.                                                     *)
(***************************************************************************)
EXTENDS SharedCache, Stats, Histograms, Commands, Configuration, Access, IcapClient,
        Modules, Ports, Snapshots

VARIABLE part

(* Shared cache: two keys with the same home.                              *)
MCShHash == "k1" :> 0 @@ "k2" :> 0

(* A counter that adds up and a mean value.                                *)
MCStatType == "la" :> "int64" @@ "lb" :> "mean"

(* Histograms of each kind, wide and narrow.                               *)
Histo(type, items, min, max, customs) ==
  [type |-> type, items |-> items, min |-> min, max |-> max, customs |-> customs]

MCHistoSpecs ==
  {Histo("linear", 4, 2, 11, <<>>), Histo("linear", 5, 0, 8, <<>>), Histo("linear", 9, 1, 6, <<>>),
   Histo("log", 4, 1, 31, <<>>), Histo("log", 3, 0, 5, <<>>), Histo("log", 5, 0, 6, <<>>), Histo("enum", 3, 0, 3, <<>>),
   Histo("custom", 4, 1, 9, <<1, 3, 4, 9>>), Histo("custom", 3, 0, 2, <<0, 1, 2>>)}

(* Access control: lists that name an acl of addresses, one of request     *)
(* types, users, groups and hours; users in a table of plain passwords.    *)
Row(k, v) == [kind |-> "row", key |-> k, vals |-> v]
KeyOnly(k) == [kind |-> "key", key |-> k]
MCRowHash(k) == 0
AclLine(n, t, v) == [name |-> n, type |-> t, param |-> NoData, value |-> v]
MCAclLines ==
  {AclLine("net", "src", [addr |-> 2, hosts |-> 2]), AclLine("net", "src", [addr |-> 0, hosts |-> 1]),
   AclLine("net", "src", BadValue), AclLine("net", "type", "OPTIONS"),
   AclLine("who", "auth", "joe"), AclLine("who", "group", "staff"),
   AclLine("hours", "time", [days |-> {1}, from |-> 480, to |-> 1080])}
Is(n) == [name |-> n, negate |-> FALSE]
IsNot(n) == [name |-> n, negate |-> TRUE]
AccessLine(list, action, terms) == [list |-> list, action |-> action, terms |-> terms]
MCAccessLines ==
  {AccessLine("client", "deny", <<Is("net")>>), AccessLine("client", "allow", <<IsNot("who")>>),
   AccessLine("client", "deny", <<IsNot("net")>>),
   AccessLine("icap", "allow", <<Is("who"), IsNot("net")>>), AccessLine("icap", "deny", <<IsNot("who")>>),
   AccessLine("icap", "deny", <<Is("hours")>>), AccessLine("icap", "permit", <<Is("net")>>)}
MCGroupLines ==
  {[by |-> "user", table |-> lookup_table_open("hash", <<Row("joe", <<"staff">>), [kind |-> "blank"]>>)],
   [by |-> "group", table |-> lookup_table_open("file", <<Row("staff", <<"ann">>)>>)],
   [by |-> "user", table |-> lookup_table_open("file", <<Row("joe", <<"staff">>), [kind |-> "bad"]>>)]}
MCUsersDb == lookup_table_open("hash", <<Row("joe", <<"secret">>), KeyOnly("ann"), Row("joe", <<"old">>)>>)
Credentials(s, u, p) == [scheme |-> s, user |-> u, pass |-> p]
MCAclRequests ==
  [src : {0, 3}, type : {"OPTIONS"}, remote : {NoData}, time : {[day |-> 1, minute |-> 600]},
   cred : {NoData, Credentials("basic", "joe", "old"), Credentials("basic", "ann", NoData),
           Credentials("basic", "ann", "x"), Credentials("digest", "joe", "old")}]

(* Client: no preview, an empty one, one that is shorter and one that is   *)
(* longer than the body.                                                   *)
MCPreviews == {-1, 0, 1, 3}
MCResponses == {<<>>, <<2, 1>>}

(* Modules of every kind that a configuration selects from, one of them    *)
(* with a name that is taken.                                              *)
Library(n, t, m) == [name |-> n, type |-> t, method |-> m]
MCLibraries ==
  {Library("sys", "logger", "none"), Library("acl2", "access_controller", "none"),
   Library("NTLM", "auth_method", "none"), Library("sys", "common", "none"),
   Library("ntlm_db", "authenticator", "NTLM")}
MCLoggerLines == {<<"sys">>, <<"none">>, <<"none", "file_logger">>}
MCControllerLines == {<<"none">>, <<"acl2", "default_acl">>}
MCAuthLines ==
  {[method |-> "Basic", names |-> <<"basic_simple_db", "ntlm_db">>], [method |-> "NTLM", names |-> <<"ntlm_db">>],
   [method |-> "NTLM", names |-> <<"none">>]}

(* Ports: plain and TLS ones at the same address, good certificates        *)
(* and a bad one, and a line that cannot be parsed.                        *)
PortLine(a, proto, tls, c) ==
  [addr |-> a, proto |-> proto, tls |-> tls, cert |-> c, options |-> c # "none", good |-> TRUE]
MCPortLines ==
  {PortLine("p", "icap", FALSE, "none"), PortLine("p", "http", FALSE, "none"), PortLine("p", "icap", TRUE, "c1"), PortLine("p", "icap", TRUE, "c2"),
   PortLine("p", "icap", TRUE, "bad"), PortLine("q", "http", FALSE, "none"), PortLine("q", "icap", TRUE, "c1"),
   [PortLine("q", "icap", FALSE, "none") EXCEPT !.good = FALSE]}

(* Reports: a minute of SIXTY seconds, and one longer window.              *)
MCLongWindows == {[name |-> "5min", window |-> 6, range |-> 5]}

Init ==
  /\ SharedCacheInit /\ StatsInit /\ HistogramsInit /\ CommandsInit /\ ConfigurationInit
  /\ AccessInit /\ ClientInit /\ ModulesInit /\ PortsInit /\ SnapshotsInit /\ TimesInit
  /\ part \in {"shared", "stats", "histograms", "commands", "configuration", "access", "client",
               "modules", "ports", "snapshots", "times"}
  /\ part # "histograms" => histo.type = "enum"
  /\ part # "client" => cl.preview = 0
  /\ part # "snapshots" => kids = 0

Next ==
  /\ UNCHANGED part
  /\ \/ part = "shared" /\ SharedCacheNext
     \/ part # "shared" /\ UNCHANGED shVars
  /\ \/ part = "stats" /\ StatsNext
     \/ part # "stats" /\ UNCHANGED statVars
  /\ \/ part = "histograms" /\ HistogramsNext
     \/ part # "histograms" /\ UNCHANGED histoVars
  /\ \/ part = "commands" /\ CommandsNext
     \/ part # "commands" /\ UNCHANGED cmdVars
  /\ \/ part = "configuration" /\ ConfigurationNext
     \/ part # "configuration" /\ UNCHANGED confVars
  /\ \/ part = "access" /\ AccessNext
     \/ part # "access" /\ UNCHANGED accessVars
  /\ \/ part = "client" /\ ClientNext
     \/ part # "client" /\ UNCHANGED clVars
  /\ \/ part = "modules" /\ ModulesNext
     \/ part # "modules" /\ UNCHANGED modVars
  /\ \/ part = "ports" /\ PortsNext
     \/ part # "ports" /\ UNCHANGED portVars
  /\ \/ part = "snapshots" /\ SnapshotsNext
     \/ part # "snapshots" /\ UNCHANGED snapVars
  /\ \/ part = "times" /\ TimesNext
     \/ part # "times" /\ UNCHANGED timeVars

Spec ==
  Init /\ [][Next]_<<part, shVars, statVars, histoVars, cmdVars, confVars, accessVars, clVars,
                  modVars, portVars, snapVars, timeVars>>
=============================================================================
