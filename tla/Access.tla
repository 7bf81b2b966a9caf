------------------------------- MODULE Access -------------------------------
(***************************************************************************)
(* Access control: acl specifications and access lists (acl.c,             *)
(* default_acl.c, access.c), authentication and groups (http_auth.c).      *)
(* Configuration lines build the lists, a connection is checked against    *)
(* client_access and its request against icap_access, and a                *)
(* reconfiguration starts from empty lists.                                *)
(*                                                                         *)
(* A request carries an address, a method, a header, a content length, the *)
(* time it comes and credentials; each but the first two may be NoData.    *)
(***************************************************************************)
EXTENDS LookupTables, TLC

CONSTANTS
  AclLines,       \* "acl name type{param} value": records name, type, param, value
  AccessLines,    \* "client_access" / "icap_access": records list, action, terms
  GroupLines,     \* "GroupSourceBy...": records by ("user", "group"), table; every
                  \* row has values (check_user_group reads them without a test)
  AclRequests,    \* what clients send
  UsersDb,        \* the table of users and passwords of basic_simple_db
  RemoteUsers,    \* ALLOW_REMOTE_PROXY_USERS
  MaxConfLines,   \* bound: lines of a configuration
  MaxConfs,       \* bound: configurations read
  NoData,         \* no data to test, no parameter
  BadValue        \* a value that the type's dup cannot convert

VARIABLES
  aclSpecs,       \* specs_list
  accessList,     \* acl_connection_access_list and acl_access_list
  groupSources,   \* GROUPS_SOURCE
  aclOk,          \* no line of the configuration has failed
  aclRead,        \* lines read, configurations read
  aclReq,         \* the request being checked
  written         \* ghost: the lines of this configuration

accessVars == <<aclSpecs, accessList, groupSources, aclOk, aclRead, aclReq, written>>

NoAclRequest == [stage |-> "none"]

AccessInit ==
  /\ aclSpecs = <<>> /\ accessList = [client |-> <<>>, icap |-> <<>>] /\ groupSources = <<>>
  /\ aclOk = TRUE /\ aclRead = [lines |-> 0, confs |-> 1]
  /\ aclReq = NoAclRequest /\ written = [acl |-> <<>>, access |-> <<>>]

(***************************************************************************)
(* The configuration                                                       *)
(***************************************************************************)
SpecOf(name) == {i \in DOMAIN aclSpecs : aclSpecs[i].name = name}

ReadLine(ok) ==
  /\ aclReq = NoAclRequest /\ aclRead.lines < MaxConfLines
  /\ aclRead' = [aclRead EXCEPT !.lines = @ + 1]
  /\ aclOk' = (aclOk /\ ok)
  /\ UNCHANGED aclReq

(* ci_acl_add_data: the first line of a name fixes its type and parameter; *)
(* a later line of another type is refused.  A value that cannot be        *)
(* converted is dropped and the line accepted.                             *)
Dup(value) == IF value = BadValue THEN <<>> ELSE <<value>>

ci_acl_add_data(l) ==
  /\ LET there == SpecOf(l.name)
         same == \A i \in there : aclSpecs[i].type = l.type
     IN  /\ ReadLine(same)
         /\ aclSpecs' =
              IF ~same THEN aclSpecs
              ELSE IF there = {}
              THEN Append(aclSpecs, [name |-> l.name, type |-> l.type, param |-> l.param, data |-> Dup(l.value)])
              ELSE [i \in DOMAIN aclSpecs |->
                      IF i \in there THEN [aclSpecs[i] EXCEPT !.data = @ \o Dup(l.value)] ELSE aclSpecs[i]]
         /\ written' = IF same THEN [written EXCEPT !.acl = Append(@, l)] ELSE written
  /\ UNCHANGED <<accessList, groupSources>>

(* cfg_default_acl_access: the entry is in the list before its acls are    *)
(* looked up, and an acl that is not there, or whose type is not allowed   *)
(* for connections, is left out of it and fails the line.  The type is     *)
(* looked up by the word in the line, so "!name" finds no type.            *)
ConnectionTypes == {"port", "src", "srvip"}

TypeForbidden(list, t) ==
  /\ list = "client" /\ ~t.negate
  /\ \E i \in SpecOf(t.name) : aclSpecs[i].type \notin ConnectionTypes

ci_access_entry_add_acl_by_name(list, terms) ==
  SelectSeq(terms, LAMBDA t : SpecOf(t.name) # {} /\ ~TypeForbidden(list, t))

cfg_default_acl_access(l) ==
  /\ LET known == ci_access_entry_add_acl_by_name(l.list, l.terms)
         valid == l.action \in {"allow", "deny"}
         ok == valid /\ known = l.terms
     IN  /\ ReadLine(ok)
         /\ accessList' = IF valid
                          THEN [accessList EXCEPT ![l.list] = Append(@, [action |-> l.action, specs |-> known])]
                          ELSE accessList
         /\ written' = IF ok THEN [written EXCEPT !.access = Append(@, l)] ELSE written
  /\ UNCHANGED <<aclSpecs, groupSources>>

(* group_source_add: a table that does not open is not added.              *)
group_source_add(l) ==
  /\ ReadLine(l.table.open)
  /\ groupSources' = IF l.table.open THEN Append(groupSources, l) ELSE groupSources
  /\ UNCHANGED <<aclSpecs, accessList, written>>

(* What system_reconfigure does here: default_acl_release (from            *)
(* release_modules), access_reset, ci_acl_reset, reset_http_auth.          *)
AccessReset ==
  /\ aclReq = NoAclRequest /\ aclRead.confs < MaxConfs
  /\ aclSpecs' = <<>> /\ accessList' = [client |-> <<>>, icap |-> <<>>] /\ groupSources' = <<>>
  /\ aclOk' = TRUE /\ aclRead' = [lines |-> 0, confs |-> aclRead.confs + 1]
  /\ written' = [acl |-> <<>>, access |-> <<>>] /\ UNCHANGED aclReq

(***************************************************************************)
(* Groups and users                                                        *)
(***************************************************************************)
(* check_user_group: the first source that has the user, or the group,     *)
(* decides.                                                                *)
Hit(src, user, group) == table_search(src.table, IF src.by = "user" THEN user ELSE group)

check_user_group(user, group) ==
  LET at == {i \in DOMAIN groupSources :
               /\ Hit(groupSources[i], user, group) # {}
               /\ \A j \in 1..(i - 1) : Hit(groupSources[j], user, group) = {}}
  IN  \E i \in at : \E row \in Hit(groupSources[i], user, group) :
        Contains(row.vals, IF groupSources[i].by = "user" THEN group ELSE user)

(* basic_simple_db_athenticate: a user without a password must give none.  *)
basic_simple_db_athenticate(user, pass) ==
  \E row \in table_search(UsersDb, user) :
    IF row.vals = NoVals \/ row.vals = <<>> THEN pass = NoData ELSE pass = row.vals[1]

(* http_authenticate of a request: the result and what it leaves in the    *)
(* request.  Without remote users the default method is "basic", which has *)
(* one authenticator.  The user's name is kept whatever the result.        *)
Challenged(r) == [res |-> "deny", req |-> [r EXCEPT !.authRequired = TRUE, !.challenges = @ + 1]]

http_authenticate(r, method) ==
  LET cred == r.in.cred
      named == [r EXCEPT !.user = cred.user]
  IN  IF RemoteUsers /\ method = NoData
      THEN IF r.in.remote = NoData THEN [res |-> "deny", req |-> r]
           ELSE [res |-> "allow", req |-> [r EXCEPT !.user = r.in.remote]]
      ELSE IF method \notin {NoData, "basic"} THEN [res |-> "deny", req |-> r]
      ELSE IF cred = NoData THEN Challenged(r)
      ELSE IF cred.scheme # "basic" THEN [res |-> "deny", req |-> r]
      ELSE IF basic_simple_db_athenticate(cred.user, cred.pass) THEN [res |-> "allow", req |-> named]
      ELSE Challenged(named)

(***************************************************************************)
(* Types of acls: the data a request gives for a type, and its comparison  *)
(***************************************************************************)
(* acl_time_dup leaves the set of days empty for a value without days.     *)
acl_time_equal(d, t) == t.day \in d.days /\ t.minute >= d.from /\ t.minute <= d.to

(* ip_sockaddr_equal, for IPv4: addresses that agree under the netmask.    *)
ip_equal(d, addr) == addr \div d.hosts = d.addr \div d.hosts

acl_cmp_uint64_equal(param, d, len) ==
  CASE param = ">" -> len > d
    [] param = "<" -> len < d
    [] OTHER       -> len = d

(* get_test_data of a type: the data, or NoData, and the request after it. *)
get_test_data(r, s) ==
  CASE s.type \in {"auth", "group"} ->
         LET a == http_authenticate(r, s.param)
         IN  [data |-> IF a.res = "allow" THEN a.req.user ELSE NoData, req |-> a.req]
    [] s.type = "user" -> [data |-> r.user, req |-> r]
    [] OTHER -> [data |-> r.in[s.type], req |-> r]

Equal(s, d, data) ==
  CASE s.type \in {"src", "srvip"} -> ip_equal(d, data)
    [] s.type = "time"             -> acl_time_equal(d, data)
    [] s.type = "content_length"   -> acl_cmp_uint64_equal(s.param, d, data)
    [] s.type = "auth"             -> d \in {"*", data}
    [] s.type = "group"            -> check_user_group(data, d)
    [] OTHER                       -> d = data

spec_data_check(s, data) == \E i \in DOMAIN s.data : Equal(s, s.data[i], data)

(***************************************************************************)
(* Checking                                                                *)
(***************************************************************************)
(* Mutant: a negated acl matches a request that has no data for it.        *)
MatchSpec_NoData(acc, term) ==
  LET s == aclSpecs[CHOOSE i \in SpecOf(term.name) : TRUE]
      t == get_test_data(acc.req, s)
  IN  IF ~acc.ok THEN acc
      ELSE [req |-> t.req,
            ok |-> (t.data # NoData /\ spec_data_check(s, t.data)) # term.negate]

(* request_match_specslist goes on to the next acl only while all match;   *)
(* no data to test is no match, negated or not.                            *)
MatchSpec(acc, term) ==
  LET s == aclSpecs[CHOOSE i \in SpecOf(term.name) : TRUE]
      t == get_test_data(acc.req, s)
  IN  IF ~acc.ok THEN acc
      ELSE [req |-> t.req,
            ok |-> t.data # NoData /\ (spec_data_check(s, t.data) # term.negate)]

request_match_specslist(r, terms) == FoldLeft(MatchSpec, [req |-> r, ok |-> TRUE], terms)

(* ci_access_entry_match_request: the first entry that matches decides; an *)
(* entry without acls never does.  An empty list allows, a list without a  *)
(* match leaves it to access_check_..., which allows.                      *)
MatchEntry(acc, e) ==
  IF acc.res # "unknown" \/ e.specs = <<>> THEN acc
  ELSE LET m == request_match_specslist(acc.req, e.specs)
       IN  [req |-> m.req, res |-> IF m.ok THEN e.action ELSE "unknown"]

ci_access_entry_match_request(list, r) == FoldLeft(MatchEntry, [req |-> r, res |-> "unknown"], list)

check_request(list, r) ==
  LET m == ci_access_entry_match_request(list, r)
  IN  [req |-> m.req, res |-> IF m.res = "unknown" THEN "allow" ELSE m.res]

(* ci_request_reset: of a request that has not been read there are only    *)
(* the addresses of its connection and the time; it has no headers, hence  *)
(* no credentials, and the method -1, which is called UNKNOWN.             *)
ci_request_reset(in) ==
  [f \in DOMAIN in |-> IF f \in ConnectionTypes \cup {"time"} THEN in[f]
                       ELSE IF f = "type" THEN "UNKNOWN" ELSE NoData]

(* server_request_use_connection checks before anything has been read.     *)
(* What an authentication has left in the request stays there.             *)
access_check_client(in) ==
  /\ aclReq = NoAclRequest /\ aclOk
  /\ LET m == check_request(accessList.client,
                [stage |-> "client", in |-> ci_request_reset(in), user |-> "", authRequired |-> FALSE, challenges |-> 0])
     IN  aclReq' = [m.req EXCEPT !.in = in, !.stage = IF m.res = "deny" THEN "refused" ELSE "connected"]
  /\ UNCHANGED <<aclSpecs, accessList, groupSources, aclOk, aclRead, written>>

(* do_request: 403, or 407 when authentication is what is missing.         *)
access_check_request ==
  /\ aclReq.stage = "connected"
  /\ LET m == check_request(accessList.icap, aclReq)
     IN  aclReq' = [m.req EXCEPT !.stage = IF m.res # "deny" THEN "allowed"
                                           ELSE IF m.req.authRequired THEN "407" ELSE "403"]
  /\ UNCHANGED <<aclSpecs, accessList, groupSources, aclOk, aclRead, written>>

AclRequestEnds ==
  /\ aclReq.stage \in {"refused", "allowed", "403", "407"} /\ aclReq' = NoAclRequest
  /\ UNCHANGED <<aclSpecs, accessList, groupSources, aclOk, aclRead, written>>

AccessNext ==
  \/ \E l \in AclLines : ci_acl_add_data(l)
  \/ \E l \in AccessLines : cfg_default_acl_access(l)
  \/ \E l \in GroupLines : group_source_add(l)
  \/ AccessReset
  \/ \E in \in AclRequests : access_check_client(in)
  \/ access_check_request
  \/ AclRequestEnds

(***************************************************************************)
(* Properties                                                              *)
(***************************************************************************)
(* What the lines say.  An acl holds of a request when the request has     *)
(* data for it and one of the values of all its lines fits; a line holds   *)
(* when all its acls do, the negated ones not; the first that holds        *)
(* decides and without one access is allowed.  A client_access line is     *)
(* about a connection whose request has not been read: an acl of           *)
(* authenticated users, groups or headers has no data there and never      *)
(* holds, and one of methods sees UNKNOWN.                                 *)
LinesOf(name) == {i \in DOMAIN written.acl : written.acl[i].name = name}
FirstLineOf(name) == written.acl[CHOOSE i \in LinesOf(name) : \A j \in LinesOf(name) : i <= j]

DataOf(in, list, l) ==
  IF list = "client" /\ l.type \notin ConnectionTypes \cup {"time"}
  THEN IF l.type = "type" THEN "UNKNOWN" ELSE NoData
  ELSE IF l.type \notin {"auth", "group"} THEN in[l.type]
  ELSE IF RemoteUsers /\ l.param = NoData THEN in.remote
  ELSE IF in.cred # NoData /\ l.param \in {NoData, "basic"} /\ in.cred.scheme = "basic"
          /\ basic_simple_db_athenticate(in.cred.user, in.cred.pass)
       THEN in.cred.user ELSE NoData

TermHolds(in, list, t) ==
  LET l == FirstLineOf(t.name)
      fits == \E i \in LinesOf(t.name) :
                /\ written.acl[i].value # BadValue
                /\ Equal(l, written.acl[i].value, DataOf(in, list, l))
  IN  DataOf(in, list, l) # NoData /\ (fits # t.negate)

Decision(in, list) ==
  LET ls == SelectSeq(written.access, LAMBDA l : l.list = list)
      at == {i \in DOMAIN ls : \A k \in DOMAIN ls[i].terms : TermHolds(in, list, ls[i].terms[k])}
  IN  IF at = {} THEN "allow" ELSE ls[CHOOSE i \in at : \A j \in at : i <= j].action

(* A connection is refused, and a request answered with 403 or 407,        *)
(* exactly when the first line of the current configuration's list that    *)
(* fits it says deny: whatever the order of the lines, the acls that more  *)
(* lines define, the negations, the missing data, what authentication has  *)
(* left in the request and the configurations read before                  *)
(* (acl.c request_match_specslist, ci_access_entry_match_request).  That   *)
(* client_access may name only acls of src, srvip and port, as             *)
(* c-icap.conf.in:617 says, is not part of it: default_acl.c:138 does not  *)
(* find the type of a negated acl and accepts any.                         *)
AccessAsWritten ==
  aclReq.stage # "none" =>
    /\ (aclReq.stage = "refused") = (Decision(aclReq.in, "client") = "deny")
    /\ aclReq.stage \in {"403", "407"} => Decision(aclReq.in, "icap") = "deny"
    /\ aclReq.stage = "allowed" => Decision(aclReq.in, "icap") = "allow"
=============================================================================
