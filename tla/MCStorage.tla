----------------------------- MODULE MCStorage ------------------------------
(***************************************************************************)
(* Small instances, for TLC, of what the server keeps data in: a ring      *)
(* buffer, a body, a local cache, the inter-process mutexes, buffers and   *)
(* allocators, a list, a vector, an array, a list of headers, the parts of *)
(* a message, the cache of templates, the log files, the pools of LDAP     *)
(* connections and a network connection.  They share nothing: the variable *)
(* part says which one a behaviour is about.                               *)
(***************************************************************************)
EXTENDS RingBuffer, Bodies, LocalCache, ProcMutex, MemPools, Containers, Headers,
        Entities, Templates, Logging, LdapPool, Connections

VARIABLE part

(* Two keys in the same chain; two threads of one process and one of       *)
(* another; a header with one line, one that is continued and one without  *)
(* a value.                                                                *)
MCCacheHash == "k1" :> 0 @@ "k2" :> 0
MCProcOf == "a1" :> "p1" @@ "a2" :> "p1" @@ "b" :> "p2"
MCHdrLines == {<<"a", ":", "x">>, <<"b", ":", " ", "y", CR, LF, HT, "x">>, <<"a", ":">>}

(* Messages that a method allows and others it does not; two services, one *)
(* of them also by an alias.                                               *)
MCPart(t, n) == [type |-> t, size |-> n]
MCMessages ==
  {<<MCPart("req-hdr", 2), MCPart("req-body", 0)>>,
   <<MCPart("req-hdr", 3), MCPart("res-hdr", 2), MCPart("res-body", 0)>>,
   <<MCPart("res-hdr", 2), MCPart("null-body", 0)>>, <<MCPart("res-body", 0)>>,
   <<MCPart("req-hdr", 2), MCPart("res-body", 0)>>, <<MCPart("req-hdr", 2)>>,
   <<MCPart("req-hdr", 2), MCPart("odd", 1)>>}
MCLine(m, s) == [method |-> m, wellFormed |-> TRUE, service |-> s]
MCRequestLines ==
  {MCLine("REQMOD", "echo"), MCLine("RESPMOD", "av"), MCLine("OPTIONS", "none"), MCLine("RESPMOD", "x"),
   MCLine("REQMOD", "av"), [MCLine("REQMOD", "av") EXCEPT !.wellFormed = FALSE]}
MCServiceMethods == "echo" :> {"REQMOD", "RESPMOD"} @@ "clam" :> {"RESPMOD"}
MCServiceAliases == "av" :> "clam"

(* A request without a preference, and one that prefers another language.  *)
MCAcceptLanguages == {<<>>, <<"el">>}

(* One LDAP server, without and with a user; one key that has a row.       *)
MCDirectory == "k" :> "row"
MCLdapUris == {[server |-> "s", user |-> NoUser], [server |-> "s", user |-> "u"]}

Init ==
  /\ RingInit /\ BodyInit /\ LocalCacheInit /\ ProcMutexInit
  /\ MemPoolsInit /\ ContainersInit /\ HeadersInit /\ EntitiesInit
  /\ TemplatesInit /\ LoggingInit /\ LdapInit /\ ConnectionsInit
  /\ part \in {"ring", "body", "local", "mutex", "buffers", "serial", "pack",
               "list", "vector", "array", "headers", "entities", "templates", "logging", "ldap",
               "connection"}
  /\ part # "body" => body = ci_membuf_new
  /\ part # "mutex" => scheme = "pthread"
  /\ part # "array" => ~arr.ptrs
  /\ part # "connection" => ~tls
  /\ part # "templates" => \A l \in Languages : files[l] = 0

Next ==
  /\ UNCHANGED part
  /\ \/ part = "ring" /\ RingNext
     \/ part # "ring" /\ UNCHANGED ringVars
  /\ \/ part = "body" /\ BodyNext
     \/ part # "body" /\ UNCHANGED bodyVars
  /\ \/ part = "local" /\ LocalCacheNext
     \/ part # "local" /\ UNCHANGED lcVars
  /\ \/ part = "mutex" /\ ProcMutexNext
     \/ part # "mutex" /\ UNCHANGED pmVars
  /\ \/ part = "buffers" /\ BuffersNext
     \/ part = "serial" /\ SerialNext
     \/ part = "pack" /\ PackNext
     \/ part \notin {"buffers", "serial", "pack"} /\ UNCHANGED mpVars
  /\ \/ part = "list" /\ ListNext
     \/ part # "list" /\ UNCHANGED listVars
  /\ \/ part = "vector" /\ VectorNext
     \/ part # "vector" /\ UNCHANGED vecVars
  /\ \/ part = "array" /\ ArrayNext
     \/ part # "array" /\ UNCHANGED arrVars
  /\ \/ part = "headers" /\ HeadersNext
     \/ part # "headers" /\ UNCHANGED hdrVars
  /\ \/ part = "entities" /\ EntitiesNext
     \/ part # "entities" /\ UNCHANGED entVars
  /\ \/ part = "templates" /\ TemplatesNext
     \/ part # "templates" /\ UNCHANGED tmplVars
  /\ \/ part = "logging" /\ LoggingNext
     \/ part # "logging" /\ UNCHANGED logVars
  /\ \/ part = "ldap" /\ LdapNext
     \/ part # "ldap" /\ UNCHANGED ldapVars
  /\ \/ part = "connection" /\ ConnectionsNext
     \/ part # "connection" /\ UNCHANGED netVars

Spec ==
  Init /\ [][Next]_<<part, ringVars, bodyVars, lcVars, pmVars, mpVars, listVars, vecVars, arrVars, hdrVars,
                  entVars, tmplVars, logVars, ldapVars, netVars>>
=============================================================================
