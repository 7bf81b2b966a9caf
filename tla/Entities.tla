------------------------------ MODULE Entities ------------------------------
(***************************************************************************)
(* The request line of a request and the parts of its message that the     *)
(* "Encapsulated" header names (request.c, request_common.c, header.c,     *)
(* simple_api.c): how they are read, checked, edited by a service and      *)
(* packed into the response, and how the request structure keeps released  *)
(* parts for the next request, where ci_http_request_headers still finds   *)
(* the headers of a part that has been released.                           *)
(* A header list is the sequence of its lines; a line is the number of the *)
(* request that it belongs to.  Its size counts its lines and the empty    *)
(* line at the end.                                                        *)
(***************************************************************************)
EXTENDS Naturals, Sequences, SequencesExt, FiniteSets

CONSTANTS
  ServiceMethods, \* service name -> the methods it supports
  ServiceAliases, \* alias -> service name
  DefaultService, \* DEFAULT_SERVICE, or NoService
  NoService,
  RequestLines,   \* request lines: records method, wellFormed, service
  Messages,       \* "Encapsulated" headers: sequences of records type, size
  MaxEdits,       \* bound: what a service edits in a message
  MaxMessages     \* bound: requests

VARIABLES
  message,        \* the fields of ci_request_t that hold the message
  stage,          \* how far do_request has come with it
  edits, current  \* bound; the number of the request

entVars == <<message, stage, edits, current>>

HeaderTypes == {"req-hdr", "res-hdr"}
BodyTypes == {"req-body", "res-body", "null-body"}
Types == HeaderTypes \cup BodyTypes
NoPart == [type |-> "none", start |-> 0, lines |-> <<>>]

(* ci_request_alloc.                                                       *)
NewMessage ==
  [method |-> "none", service |-> NoService, entities |-> <<>>, trash |-> [t \in Types |-> NoPart],
   hasbody |-> FALSE, respbody |-> FALSE, packed |-> FALSE, encapsulated |-> <<>>]

EntitiesInit == message = NewMessage /\ stage = "new" /\ edits = 0 /\ current = 1

(***************************************************************************)
(* Parts                                                                   *)
(***************************************************************************)
(* ci_request_alloc_entity takes the part from the trash, emptied, or      *)
(* makes one (mk_encaps_entity).                                           *)
ci_request_alloc_entity(m, type) == [m EXCEPT !.trash[type] = NoPart]
Allocated(type, start) == [type |-> type, start |-> start, lines |-> <<>>]

(* ci_request_release_entity: a part of the same type in the trash is      *)
(* destroyed.                                                              *)
ci_request_release_entity(m, e) == [m EXCEPT !.trash[e.type] = e]

(* sizeofencaps.                                                           *)
sizeofencaps(e) == IF e.lines = <<>> THEN 0 ELSE Len(e.lines) + 1

(* The offsets that the sender of a message writes.                        *)
Starts(parts) == [i \in DOMAIN parts |-> FoldSeq(LAMBDA p, n : n + p.size, 0, SubSeq(parts, 1, i - 1))]

(***************************************************************************)
(* Reading                                                                 *)
(***************************************************************************)
(* process_encapsulated overwrites the parts from the first one on; a      *)
(* second header of this name does so again.  An unknown part ends it.     *)
process_encapsulated(m, parts) ==
  LET good == {i \in DOMAIN parts : parts[i].type \in Types}
      n == IF good = DOMAIN parts THEN Len(parts)
           ELSE (CHOOSE i \in DOMAIN parts \ good : \A j \in DOMAIN parts \ good : i <= j) - 1
      new == [i \in 1..n |-> Allocated(parts[i].type, Starts(parts)[i])]
  IN  [FoldLeft(LAMBDA a, e : ci_request_alloc_entity(a, e.type), m, new)
         EXCEPT !.entities = new \o SubSeq(@, n + 1, Len(@)),
                !.hasbody = IF n = Len(parts) THEN \A i \in 1..n : parts[i].type # "null-body" ELSE @]

(* parse_request: a service by its name, by an alias, or the default one;  *)
(* the response code of a line that is refused, 100 for one that is not.   *)
Service(name) ==
  LET asked == IF name = NoService THEN DefaultService ELSE name
  IN  IF asked \in DOMAIN ServiceMethods THEN asked
      ELSE IF asked \in DOMAIN ServiceAliases THEN ServiceAliases[asked] ELSE NoService

parse_request(l) ==
  IF ~l.wellFormed THEN 400
  ELSE IF Service(l.service) = NoService THEN 404
  ELSE IF l.method \notin ServiceMethods[Service(l.service)] \cup {"OPTIONS"} THEN 405 ELSE 100

(* check_request: which parts a method allows, and in which order.         *)
check_request(m) ==
  LET type == [i \in DOMAIN m.entities |-> m.entities[i].type]
      n == Len(type)
  IN  CASE m.method = "REQMOD" ->
             \/ n = 2 /\ type[1] = "req-hdr" /\ type[2] \in {"req-body", "null-body"}
             \/ n = 1 /\ type[1] = "req-body"
        [] m.method = "RESPMOD" ->
             \/ n = 3 /\ type[1] = "req-hdr" /\ type[2] = "res-hdr" /\ type[3] \in {"res-body", "null-body"}
             \/ n = 2 /\ type[1] \in HeaderTypes /\ type[2] \in {"res-body", "null-body"}
             \/ n = 1 /\ type[1] = "res-body"
        [] OTHER -> TRUE

(* parse_header of a request line and its "Encapsulated" headers; the      *)
(* first that fails ends it.                                               *)
parse_header(l, heads) ==
  /\ stage = "new"
  /\ LET named == [message EXCEPT !.method = l.method, !.service = Service(l.service)]
         bad(k) == \E i \in DOMAIN heads[k] : heads[k][i].type \notin Types
         m == FoldLeft(LAMBDA a, k : IF \E j \in 1..(k - 1) : bad(j) THEN a ELSE process_encapsulated(a, heads[k]),
                       named, [k \in DOMAIN heads |-> k])
     IN  IF parse_request(l) # 100
         THEN message' = named /\ stage' = "refused"
         ELSE /\ message' = m
              /\ stage' = IF (\E k \in DOMAIN heads : bad(k)) \/ ~check_request(m) THEN "refused" ELSE "head"
  /\ UNCHANGED <<edits, current>>

(* parse_encaps_headers reads the header parts up to the first body, each  *)
(* up to the offset of the next part; a header part at the end is refused. *)
(* read_encaps_header may also fail.                                       *)
HeaderParts(m) ==
  {i \in DOMAIN m.entities : \A j \in 1..i : m.entities[j].type \in HeaderTypes}

parse_encaps_headers ==
  /\ stage = "head"
  /\ LET es == message.entities
         size(i) == es[i + 1].start - es[i].start
     IN  \/ /\ Len(es) \notin HeaderParts(message)
            /\ message' = [message EXCEPT !.entities =
                 [i \in DOMAIN es |-> IF i \notin HeaderParts(message) THEN es[i]
                                      ELSE [es[i] EXCEPT !.lines = [k \in 1..(size(i) - 1) |-> current]]]]
            /\ stage' = "service"
         \/ stage' = "refused" /\ UNCHANGED message
  /\ UNCHANGED <<edits, current>>

(***************************************************************************)
(* What a service may do with the message                                  *)
(***************************************************************************)
Editing == stage = "service" /\ edits < MaxEdits /\ edits' = edits + 1 /\ UNCHANGED <<stage, current>>

Created(parts) ==
  LET m == FoldLeft(ci_request_release_entity, message, message.entities)
  IN  [FoldLeft(ci_request_alloc_entity, m, parts)
         EXCEPT !.entities = [i \in DOMAIN parts |-> Allocated(parts[i], 0)]]

ci_http_response_create(has_reshdr, has_body) ==
  /\ Editing /\ message.method # "OPTIONS"
  /\ message' = Created((IF has_reshdr THEN <<"res-hdr">> ELSE <<>>) \o <<IF has_body THEN "res-body" ELSE "null-body">>)

(* Only for REQMOD: the response to RESPMOD has no request headers.        *)
ci_http_request_create(has_body) ==
  /\ Editing /\ message.method = "REQMOD"
  /\ message' = Created(<<"req-hdr", IF has_body THEN "req-body" ELSE "null-body">>)

(* ci_http_response_headers and ci_http_request_headers: where the headers *)
(* are, <<>> if nowhere.                                                   *)
ci_http_response_headers(m) ==
  LET at == {i \in DOMAIN m.entities : i <= 3 /\ m.entities[i].type = "res-hdr"}
  IN  IF at = {} THEN <<>> ELSE <<"entities", CHOOSE i \in at : \A j \in at : i <= j>>

ci_http_request_headers(m) ==
  IF m.entities # <<>> /\ m.entities[1].type = "req-hdr" THEN <<"entities", 1>>
  ELSE IF m.trash["req-hdr"].lines # <<>> THEN <<"trash", "req-hdr">> ELSE <<>>

LinesAt(m, at) == IF at = <<>> THEN <<>> ELSE m[at[1]][at[2]].lines
Edited(m, at, lines) == IF at = <<>> THEN m ELSE [m EXCEPT ![at[1]][at[2]].lines = lines]

(* ci_http_response_add_header, ci_http_request_add_header, not once the   *)
(* response has been packed.                                               *)
WithHeader(m, at) == IF m.packed THEN m ELSE Edited(m, at, Append(LinesAt(m, at), current))

AddHeader(at) == Editing /\ at # <<>> /\ message' = WithHeader(message, at)

(* ci_http_..._remove_header, ci_http_..._reset_headers.                   *)
RemoveHeaders(at) ==
  /\ Editing /\ LinesAt(message, at) # <<>>
  /\ \E lines \in {<<>>, Tail(LinesAt(message, at))} : message' = Edited(message, at, lines)

(***************************************************************************)
(* The response                                                            *)
(***************************************************************************)
(* ci_request_t_pack: the offsets of up to three parts.                    *)
ci_response_pack(m) ==
  LET es == [i \in DOMAIN m.entities |->
               [m.entities[i] EXCEPT !.start = IF i > 3 THEN @ ELSE
                  FoldSeq(LAMBDA e, n : n + sizeofencaps(e), 0, SubSeq(m.entities, 1, i - 1))]]
  IN  [m EXCEPT !.packed = TRUE, !.entities = es,
                !.encapsulated = IF es = <<>> THEN <<[type |-> "null-body", start |-> 0]>>
                                 ELSE [i \in 1..(IF Len(es) < 3 THEN Len(es) ELSE 3) |->
                                         [type |-> es[i].type, start |-> es[i].start]]]

(* mk_responce_header: the request headers of RESPMOD are released, the    *)
(* "Via" header added, and all is packed.                                  *)
mk_responce_header ==
  /\ stage = "service" /\ message.method # "OPTIONS"
  /\ LET es == message.entities
         m == IF message.method = "RESPMOD" /\ es[1].type = "req-hdr"
              THEN [ci_request_release_entity(message, es[1]) EXCEPT !.entities = Tail(es)] ELSE message
         via == WithHeader(m, IF m.method = "RESPMOD" THEN ci_http_response_headers(m) ELSE ci_http_request_headers(m))
     IN  message' = ci_response_pack([via EXCEPT !.respbody = \A i \in DOMAIN m.entities : m.entities[i].type # "null-body"])
  /\ stage' = "sent"
  /\ UNCHANGED <<edits, current>>

(* Mutant: the header lists in the trash keep their lines.                 *)
ci_request_reset_Keeps ==
  /\ stage # "new" /\ current < MaxMessages
  /\ message' = [NewMessage EXCEPT !.trash = FoldLeft(ci_request_release_entity, message, message.entities).trash]
  /\ stage' = "new" /\ edits' = 0 /\ current' = current + 1

(* ci_request_reset, whether the connection is kept or the structure gets  *)
(* another one, at any point where do_request may return.                  *)
ci_request_reset ==
  /\ stage # "new" /\ current < MaxMessages
  /\ LET t == FoldLeft(ci_request_release_entity, message, message.entities).trash
     IN  message' = [NewMessage EXCEPT !.trash = [x \in Types |-> [t[x] EXCEPT !.lines = <<>>]]]
  /\ stage' = "new" /\ edits' = 0 /\ current' = current + 1

EntitiesNext ==
  \/ \E l \in RequestLines : \E heads \in {<<h>> : h \in Messages} \cup {<<>>} \cup (Messages \X Messages) :
       parse_header(l, heads)
  \/ parse_encaps_headers
  \/ \E b, h \in BOOLEAN : ci_http_response_create(h, b)
  \/ \E b \in BOOLEAN : ci_http_request_create(b)
  \/ \E at \in {ci_http_response_headers(message), ci_http_request_headers(message)} :
       AddHeader(at) \/ RemoveHeaders(at)
  \/ mk_responce_header
  \/ ci_request_reset

(***************************************************************************)
(* Properties                                                              *)
(***************************************************************************)
(* Whoever asks for the HTTP headers of a request (a service, an acl, the  *)
(* access log) gets headers of this request or none, never those that an   *)
(* earlier request has left in the structure; and the "Encapsulated"       *)
(* header of a response tells its receiver where its parts are: each       *)
(* header part begins where the last one ends, the last part is a body and *)
(* there is a body when one is announced (ci_request_reset,                *)
(* ci_http_request_headers, ci_request_t_pack, mk_responce_header).        *)
MessageIsOfRequest ==
  /\ \A at \in {ci_http_request_headers(message), ci_http_response_headers(message)} :
       \A i \in DOMAIN LinesAt(message, at) : LinesAt(message, at)[i] = current
  /\ stage = "sent" =>
       LET es == message.entities
           enc == message.encapsulated
           n == Len(enc)
       IN  /\ n = Len(es) /\ enc[1].start = 0 /\ enc[n].type \in BodyTypes
           /\ message.respbody = (enc[n].type # "null-body")
           /\ \A i \in 1..(n - 1) : /\ enc[i].type \in HeaderTypes
                                    /\ enc[i + 1].start = enc[i].start + sizeofencaps(es[i])
=============================================================================
