---------------------------- MODULE IcapRequest ----------------------------
(***************************************************************************)
(* The requests of one client connection as a worker thread serves them    *)
(* (request.c, request_common.c): the request header, the preview and its  *)
(* handler, the full-duplex loop get_send_body, which reads the body from  *)
(* the client, hands it to the service, takes the service's data and sends *)
(* them, the end-of-data handler, the rest of the response and the return  *)
(* to the next request of a kept-alive connection.                         *)
(*                                                                         *)
(* The service is external: a handler answers what the interface allows    *)
(* and may unlock the response.  Bodies are sequences of numbered units of *)
(* data.  How a client cuts its body into chunks is left open: one call of *)
(* parse_chunk_data takes any number of the units that have been read.  A  *)
(* wait may always time out, which also stands for a client that has gone  *)
(* and for CHILD_HALT.  A socket that is ready takes or gives something.   *)
(* Not modelled: statistics, the log, the data a service keeps, headers    *)
(* beyond what decides the control flow.                                   *)
(***************************************************************************)
EXTENDS Integers, Sequences

CONSTANTS
  Requests,        \* a sequence of the requests that a client may send
  Configurations,  \* the configurations to look at, see conf
  MaxRequests,     \* bound: requests on the connection
  MaxData,         \* bound: units of data that a service makes for a response
  MAX_CHUNK_SIZE,  \* units of data in a chunk of the response
  RingSize,        \* units in req->echo_body (32768 bytes in the code)
  PipeliningClient,\* a client sends a request before it has the last response
  EagerServices    \* outside preview a service may unlock and answer 204 (as
                   \* srv_echo does), or answer 206 to a body (as srv_ex206)

IsRequest(q) ==
  /\ q.options \in BOOLEAN   \* OPTIONS, else REQMOD or RESPMOD
  /\ q.hasbody \in BOOLEAN
  /\ q.len \in Nat           \* units of data in the body
  /\ q.preview \in Int       \* units of data in the preview; < 0: no preview
  /\ q.allow204 \in BOOLEAN /\ q.allow206 \in BOOLEAN
  /\ q.close \in BOOLEAN     \* "Connection: close"
  /\ q.corrupt \in BOOLEAN   \* the body does not end in a zero chunk

ASSUME IcapRequestAssumption ==
  /\ DOMAIN Requests = 1 .. Len(Requests) /\ Len(Requests) \in Nat
  /\ \A i \in DOMAIN Requests : IsRequest(Requests[i])
  /\ Configurations \subseteq [as200 : BOOLEAN, fake204 : BOOLEAN, pipelining : BOOLEAN]
  /\ MaxRequests \in Nat /\ MaxData \in Nat
  /\ MAX_CHUNK_SIZE \in Nat \ {0} /\ RingSize \in Nat \ {0}
  /\ PipeliningClient \in BOOLEAN /\ EagerServices \in BOOLEAN

VARIABLES
  conf,     \* ALLOW204_AS_200OK_ZERO_ENCAPS, FAKE_ALLOW204 and PIPELINING
  asked,    \* how many requests the client has begun to send
  wire,     \* what the client has sent and the server has not read
  held,     \* what the client sends when it is told to continue
  pc,       \* where the worker is
  read,     \* pstrblock_read: what is read and not parsed
  req,      \* the fields of ci_request_t
  loc,      \* the locals of get_send_body
  echo,     \* contents of req->echo_body
  got,      \* body data that the service has taken
  made,     \* data that the service has given for the response
  resp      \* what has been written to the client for this request

clientVars == <<conf, asked, wire, held>>
dataVars == <<echo, got, made>>
vars == <<clientVars, pc, read, req, loc, dataVars, resp>>

Least(a, b) == IF a < b THEN a ELSE b
Drop(s, n) == SubSeq(s, n + 1, Len(s))
Units(a, b) == [i \in 1 .. (b - a + 1) |-> <<"data", a + i - 1>>]

(***************************************************************************)
(* The client.                                                             *)
(***************************************************************************)
LastChunk(q) == IF q.corrupt THEN <<"bad", 0>> ELSE <<"zero", 0>>

(* what a client sends at once: header, and body or preview                *)
FirstPart(i, q) ==
  <<<<"header", i>>>> \o
  CASE ~q.hasbody -> <<>>
    [] q.hasbody /\ q.preview < 0 -> Append(Units(1, q.len), LastChunk(q))
    [] q.hasbody /\ q.preview >= q.len -> Append(Units(1, q.len), <<"ieof", 0>>)
    [] OTHER -> Append(Units(1, q.preview), <<"zero", 0>>)

(* what follows a "100 Continue"                                           *)
AfterContinue(q) ==
  IF q.hasbody /\ 0 <= q.preview /\ q.preview < q.len
    THEN Append(Units(q.preview + 1, q.len), LastChunk(q)) ELSE <<>>

(* the client has the whole response to its last request                   *)
AnswerSeen ==
  /\ resp # <<>>
  /\ LET last == resp[Len(resp)] IN
       \/ /\ last[1] = "code" /\ last[2] # 100
          /\ req.status \in {"SEND_NOTHING", "SEND_EOF"} /\ ~req.respbody
       \/ last[1] = "head" /\ ~req.respbody
       \/ last[1] = "eof" /\ ~req.trailers
       \/ last[1] = "trailer"

(* another request is on its way already                                   *)
Asking == \E j \in DOMAIN (read \o wire) : (read \o wire)[j][1] = "header"

ClientSends(i) ==
  /\ asked < MaxRequests /\ pc # "closed" /\ held = <<>>
  /\ PipeliningClient \/ ((pc = "header" \/ AnswerSeen) /\ ~Asking)
  /\ asked' = asked + 1
  /\ wire' = wire \o FirstPart(i, Requests[i])
  /\ held' = AfterContinue(Requests[i])
  /\ UNCHANGED <<conf, pc, read, req, loc, dataVars, resp>>

(***************************************************************************)
(* ci_request_reset: the state of a request.  code is return_code, eof is  *)
(* eof_received, block what pstrblock_responce still has to send, pending  *)
(* the write_to_module_pending data, ret do_request's result.              *)
(***************************************************************************)
FreshRequest ==
  [n |-> 0, keepalive |-> TRUE, eof |-> FALSE, status |-> "SEND_NOTHING",
   code |-> 0, block |-> <<>>, pending |-> <<>>, locked |-> TRUE,
   echoes |-> FALSE, wpos |-> 0, respbody |-> FALSE, trailers |-> FALSE,
   preview |-> "CI_OK", ret |-> "CI_OK", starved |-> FALSE]

NoLocals ==
  [action |-> {}, lock_status |-> TRUE, formated |-> FALSE, service_eof |-> FALSE,
   parse_ret |-> "none", parse_only |-> FALSE, rchunkdata |-> FALSE]

q_ == Requests[req.n]

Init ==
  /\ conf \in Configurations
  /\ asked = 0 /\ wire = <<>> /\ held = <<>>
  /\ pc = "header" /\ read = <<>> /\ req = FreshRequest /\ loc = NoLocals
  /\ echo = <<>> /\ got = <<>> /\ made = <<>> /\ resp = <<>>

(* The request is over with result ret                                     *)
Ends(x, ret) == pc' = "end" /\ req' = [x EXCEPT !.ret = ret]

(* net_data_read: unparsed data move to the start of the buffer, over the  *)
(* data that the service has not taken yet, and n units are read.          *)
net_data_read(n) ==
  /\ n \in 1 .. Len(wire)
  /\ read' = read \o SubSeq(wire, 1, n)
  /\ wire' = Drop(wire, n)

Moved(x) == [x EXCEPT !.pending = [i \in DOMAIN x.pending |-> <<"data", 0>>]]

(* ec_responce: one write, which may fail                                  *)
StatusCode(ec) == IF ec = 204 /\ conf.as200 THEN 200 ELSE ec
Responded(x, ec) == [x EXCEPT !.code = StatusCode(ec), !.status = "SEND_EOF"]
Written(ec) == resp' = Append(resp, <<"code", StatusCode(ec)>>)

(* req->keepalive = 0; ec_responce(req, ec); return CI_ERROR               *)
ErrorResponse(x, ec) ==
  /\ Ends([Responded(x, ec) EXCEPT !.keepalive = FALSE], "CI_ERROR")
  /\ Written(ec) \/ UNCHANGED resp

(***************************************************************************)
(* The header: parse_header and parse_encaps_headers.  Data left from the  *)
(* last request are used first; a read may take what follows the header.   *)
(***************************************************************************)
ReadRequest ==
  /\ pc = "header"
  /\ \E n \in 0 .. Len(wire) :
       /\ (n = 0) <=> (read # <<>>)
       /\ LET data == read \o SubSeq(wire, 1, n)
              wellFormed == data[1][1] = "header"
              h == IF wellFormed THEN data[1][2] ELSE 0
              x == [req EXCEPT !.n = h, !.keepalive = wellFormed /\ ~Requests[h].close]
          IN  /\ wire' = Drop(wire, n) /\ read' = Tail(data)
              /\ \/ /\ wellFormed /\ req' = x /\ UNCHANGED resp
                    /\ pc' = IF Requests[h].options THEN "options"
                             ELSE IF Requests[h].preview >= 0 /\ Requests[h].hasbody
                               THEN "read_preview" ELSE "preview"
                 \/ \E ec \in {400, 403, 500} :  \* wrong, denied, service not ready
                      ErrorResponse(x, ec)
  /\ UNCHANGED <<conf, asked, held, loc, dataVars>>

(* Nothing has been read: CI_NO_STATUS, or the keep-alive wait has ended   *)
HeaderTimeout ==
  /\ pc = "header" /\ read = <<>> /\ pc' = "closed"
  /\ UNCHANGED <<clientVars, read, req, loc, dataVars, resp>>

(* options_responce; a response that cannot be sent is given up            *)
options_responce ==
  /\ pc = "options" /\ Ends(req, "CI_OK")
  /\ resp' = Append(resp, <<"code", 200>>) \/ UNCHANGED resp
  /\ UNCHANGED <<clientVars, read, loc, dataVars>>

(***************************************************************************)
(* parse_chunk_data: the results of one call.  Units of the current chunk  *)
(* go to pending, then the next chunk's definition is looked at.           *)
(***************************************************************************)
(* Mutant: the last chunk is not consumed                                  *)
AfterData_LeavesEnd(p, r) ==
  [pending |-> p, ieof |-> r # <<>> /\ r[1][1] = "ieof", read |-> r,
   ret |-> IF r = <<>> THEN "CI_NEEDS_MORE"
           ELSE CASE r[1][1] = "data" -> "CI_OK"
                  [] r[1][1] \in {"zero", "ieof"} -> "CI_EOF"
                  [] OTHER -> "CI_ERROR"]

AfterData(p, r) ==
  [pending |-> p, ieof |-> r # <<>> /\ r[1][1] = "ieof",
   read |-> IF r # <<>> /\ r[1][1] \in {"zero", "ieof"} THEN Tail(r) ELSE r,
   ret |-> IF r = <<>> THEN "CI_NEEDS_MORE"
           ELSE CASE r[1][1] = "data" -> "CI_OK"
                  [] r[1][1] \in {"zero", "ieof"} -> "CI_EOF"
                  [] OTHER -> "CI_ERROR"]

parse_chunk_data(r) ==
  LET lengths == {n \in 1 .. Len(r) : \A i \in 1 .. n : r[i][1] = "data"}
  IN  IF lengths = {} THEN {AfterData(<<>>, r)}
      ELSE {AfterData(SubSeq(r, 1, n), Drop(r, n)) : n \in lengths}

(* read_preview_data; what was read behind the preview is dropped          *)
read_preview_data_read ==
  /\ pc = "read_preview" /\ read = <<>>
  /\ \/ \E n \in 1 .. Len(wire) : net_data_read(n) /\ UNCHANGED <<pc, req, resp>>
     \/ ErrorResponse(req, 408) /\ UNCHANGED <<wire, read>>
  /\ UNCHANGED <<conf, asked, held, loc, dataVars>>

read_preview_data_parse ==
  /\ pc = "read_preview" /\ read # <<>>
  /\ \E p \in parse_chunk_data(read) :
       IF p.ret = "CI_ERROR" THEN ErrorResponse(req, 408) /\ UNCHANGED <<read, got>>
       ELSE /\ got' = got \o p.pending
            /\ req' = [req EXCEPT !.eof = p.ieof,
                         !.preview = IF p.ieof THEN "CI_EOF" ELSE "CI_OK"]
            /\ pc' = IF p.ret = "CI_EOF" THEN "preview" ELSE pc
            /\ read' = IF p.ret = "CI_EOF" THEN <<>> ELSE p.read
            /\ UNCHANGED resp
  /\ UNCHANGED <<clientVars, loc, echo, made>>

(***************************************************************************)
(* The preview handler and what do_request makes of its answer.            *)
(***************************************************************************)
Answers == {"CI_MOD_CONTINUE", "CI_MOD_ALLOW204", "CI_MOD_ALLOW206", "CI_ERROR"}

(* get_send_body begins                                                    *)
get_send_body(x, parse_only) ==
  /\ pc' = "wait"
  /\ req' = [x EXCEPT !.status = "SEND_NOTHING"]
  /\ loc' = [NoLocals EXCEPT !.parse_only = parse_only,
                             !.action = IF read = <<>> THEN {"read"} ELSE {}]

(* do_request after the preview: body, end of data or nothing more         *)
Proceed(x, previewEof) ==
  LET code == IF previewEof THEN 200 ELSE x.code IN
    CASE code = 204 -> Ends(x, "CI_OK") /\ UNCHANGED loc
      [] code = 100 /\ q_.hasbody -> get_send_body([x EXCEPT !.code = 200], FALSE)
      [] OTHER -> pc' = "end_of_data" /\ req' = [x EXCEPT !.code = code] /\ UNCHANGED loc

do_request_preview(x, answer) ==
  LET eof == x.preview = "CI_EOF" \/ ~q_.hasbody IN
  CASE answer = "CI_MOD_ALLOW204" ->
         /\ UNCHANGED <<wire, held, echo>>
         /\ \/ Written(204) /\ Proceed(Responded(x, 204), FALSE)
            \/ Ends([Responded(x, 204) EXCEPT !.keepalive = FALSE], "CI_ERROR")
               /\ UNCHANGED <<resp, loc>>
    [] answer = "CI_MOD_ALLOW206" /\ q_.allow206 ->
         Proceed([x EXCEPT !.code = 206], FALSE) /\ UNCHANGED <<wire, held, echo, resp>>
    [] answer = "CI_MOD_CONTINUE" /\ eof ->
         Proceed(x, TRUE) /\ UNCHANGED <<wire, held, echo, resp>>
    [] answer = "CI_MOD_CONTINUE" /\ ~eof ->    \* ec_responce_simple
         /\ Proceed([x EXCEPT !.code = 100], FALSE)
         /\ \/ /\ resp' = Append(resp, <<"code", 100>>)
               /\ wire' = wire \o held /\ held' = <<>>
            \/ UNCHANGED <<wire, held, resp>>
         /\ UNCHANGED echo
    [] OTHER -> ErrorResponse(x, 500) /\ UNCHANGED <<wire, held, echo, loc>>

do_fake_preview(x, answer) ==
  /\ UNCHANGED <<wire, held>>
  /\ CASE answer = "CI_MOD_ALLOW204" /\ q_.allow204 ->
            /\ EagerServices \/ x.locked
            /\ \/ /\ Written(204)
                  /\ IF q_.hasbody THEN get_send_body(Responded(x, 204), TRUE)
                     ELSE Ends([Responded(x, 204) EXCEPT !.code = 204], "CI_OK")
                          /\ UNCHANGED loc
               \/ Ends([Responded(x, 204) EXCEPT !.keepalive = FALSE], "CI_ERROR")
                  /\ UNCHANGED <<resp, loc>>
       [] answer = "CI_MOD_ALLOW204" /\ ~q_.allow204 /\ q_.hasbody /\ conf.fake204 ->
            Proceed([x EXCEPT !.echoes = TRUE, !.code = 100], FALSE) /\ UNCHANGED resp
       [] \/ answer = "CI_MOD_ALLOW204" /\ ~q_.allow204 /\ ~q_.hasbody
          \/ answer = "CI_MOD_CONTINUE" ->
            Proceed([x EXCEPT !.code = IF q_.hasbody THEN 100 ELSE 200], FALSE)
            /\ UNCHANGED resp
       [] answer = "CI_MOD_ALLOW206" /\ q_.allow204 /\ q_.allow206 ->
            /\ EagerServices \/ ~q_.hasbody
            /\ Proceed([x EXCEPT !.code = 206], FALSE) /\ UNCHANGED resp
       [] OTHER -> ErrorResponse(x, 500) /\ UNCHANGED loc
  /\ UNCHANGED echo

PreviewHandler ==
  /\ pc = "preview"
  /\ \E answer \in Answers, unlock \in BOOLEAN :
       LET x == [req EXCEPT !.locked = req.locked /\ ~unlock] IN
         IF q_.preview >= 0 THEN do_request_preview(x, answer)
                            ELSE do_fake_preview(x, answer)
  /\ UNCHANGED <<conf, asked, read, got, made>>

(***************************************************************************)
(* update_send_status: the states a call may lead to (the service chooses  *)
(* the entities of the response and the names of trailers), and when it    *)
(* returns CI_EOF.  Trailers do not depend on a body: a response without   *)
(* one that get_send_body has sent early gets them as well.                *)
(***************************************************************************)
mk_responce_header(x, b, t) ==
  [x EXCEPT !.status = "SEND_RESPHEAD", !.block = <<<<"code", x.code>>>>,
            !.respbody = b, !.trailers = t]

update_send_status(x) ==
  CASE x.status = "SEND_NOTHING" ->
         {mk_responce_header(x, b, t) :
            b \in IF x.echoes THEN {q_.hasbody} ELSE BOOLEAN, t \in BOOLEAN}
    [] x.status = "SEND_RESPHEAD" ->
         {[x EXCEPT !.status = "SEND_HEAD1", !.block = <<<<"head", 0>>>>]}
    [] x.status = "SEND_HEAD1" ->
         {[x EXCEPT !.status = IF x.respbody THEN "SEND_BODY" ELSE "SEND_EOF"]}
    [] x.status = "SEND_EOF" /\ x.block = <<>> /\ x.trailers ->
         {[x EXCEPT !.status = "SEND_TRAILERS", !.block = <<<<"trailer", 0>>>>]}
    [] OTHER -> {x}

SendEnds(x) ==
  \/ x.status = "SEND_HEAD1" /\ ~x.respbody
  \/ x.status = "SEND_EOF" /\ x.block = <<>> /\ ~x.trailers
  \/ x.status = "SEND_TRAILERS" /\ x.block = <<>>

(* send_current_block_data writes n units of the block                     *)
send_current_block_data(x, n) ==
  /\ n \in 0 .. Len(x.block) /\ (x.block # <<>> => n > 0)
  /\ resp' = resp \o SubSeq(x.block, 1, n)
  /\ req' = [x EXCEPT !.block = Drop(x.block, n)]

(* format_body_chunk: a block of data becomes a chunk, the end a zero      *)
(* chunk                                                                   *)
format_body_chunk(x, eof) ==
  IF eof THEN [x EXCEPT !.block = <<<<"eof", 0>>>>, !.status = "SEND_EOF"] ELSE x

(***************************************************************************)
(* get_send_body.                                                          *)
(***************************************************************************)
(* its result, in do_fake_preview or in do_request                         *)
BodyDone(x) ==
  CASE x.eof /\ loc.parse_only -> Ends([x EXCEPT !.code = 204], "CI_OK")
    [] x.eof /\ ~loc.parse_only -> pc' = "end_of_data" /\ req' = x
    [] ~x.eof /\ loc.parse_only -> Ends(x, "CI_ERROR")
    [] OTHER -> Ends([x EXCEPT !.keepalive = FALSE], "CI_ERROR")

BodyError(x) ==
  Ends([x EXCEPT !.keepalive = loc.parse_only /\ x.keepalive], "CI_ERROR")

gsb_NoWait ==
  /\ pc = "wait" /\ loc.action = {} /\ pc' = "update"
  /\ UNCHANGED <<clientVars, read, req, loc, dataVars, resp>>

gsb_WaitFails ==
  /\ pc = "wait" /\ loc.action # {}
  /\ BodyDone(req) \/ BodyError(req)    \* no event in time; failed read or write
  /\ UNCHANGED <<clientVars, read, loc, dataVars, resp>>

gsb_Wait ==
  /\ pc = "wait"
  /\ \E ready \in (SUBSET loc.action) \ {{}} :
       /\ IF "read" \in ready THEN \E n \in 1 .. Len(wire) : net_data_read(n)
          ELSE UNCHANGED <<wire, read>>
       /\ LET x == IF "read" \in ready THEN Moved(req) ELSE req IN
            IF "write" \in ready
              THEN \E y \in IF ~x.locked /\ x.status = "SEND_NOTHING"
                              THEN update_send_status(x) ELSE {x} :
                     \E n \in 0 .. Len(y.block) : send_current_block_data(y, n)
              ELSE req' = x /\ UNCHANGED resp
  /\ pc' = "update"
  /\ UNCHANGED <<conf, asked, held, loc, dataVars>>

(* the start of a round: the status moves on when a block has been sent    *)
gsb_Update ==
  /\ pc = "update" /\ pc' = "io"
  /\ \E x \in IF ~req.locked /\ req.block = <<>> THEN update_send_status(req) ELSE {req} :
       /\ req' = x
       /\ loc' = [loc EXCEPT !.lock_status = x.locked, !.formated = x.block # <<>>,
                             !.parse_ret = "none"]
  /\ UNCHANGED <<clientVars, read, dataVars, resp>>

(* What service_io may do with pending data p and room for n units: it     *)
(* takes the first w units, gives data or CI_EOF, and may unlock.          *)
NoIo == [w |-> 0, data |-> <<>>, eof |-> FALSE, unlock |-> FALSE, echo |-> echo,
         wpos |-> req.wpos]

mod_null_io(p, eof) == [NoIo EXCEPT !.w = Len(p), !.eof = eof]

(* an empty ring is filled up to its end only, a used one wraps around     *)
RingSpace == RingSize - (IF echo = <<>> THEN req.wpos ELSE Len(echo))

mod_echo_io(p, n, rbuf, eof) ==
  LET w == Least(Len(p), RingSpace)
      all == echo \o SubSeq(p, 1, w)
      k == IF rbuf THEN Least(n, Len(all)) ELSE 0
  IN  [NoIo EXCEPT !.w = w, !.data = SubSeq(all, 1, k), !.echo = Drop(all, k),
                   !.wpos = (req.wpos + w) % RingSize, !.eof = rbuf /\ k = 0 /\ eof]

ServiceIo(w, k, e, u) ==
  [NoIo EXCEPT !.w = w, !.data = Units(Len(made) + 1, Len(made) + k), !.eof = e, !.unlock = u]

mod_service_io(p, n) ==
  {ServiceIo(w, k, e, u) :
     w \in 0 .. Len(p), k \in 0 .. Least(n, MaxData - Len(made)),
     e \in BOOLEAN, u \in BOOLEAN}

service_io(p, n, rbuf, eof) ==
  IF loc.parse_only THEN {mod_null_io(p, eof)}
  ELSE IF req.echoes THEN {mod_echo_io(p, n, rbuf, eof)}
  ELSE {s \in mod_service_io(p, n) : s.eof => s.data = <<>>}

(* One pass of the inner loop: parse, call the service, take over          *)
gsb_ServiceIo ==
  /\ pc = "io"
  /\ \E p \in IF read # <<>> /\ req.pending = <<>> THEN parse_chunk_data(read)
              ELSE {[pending |-> req.pending, read |-> read, ieof |-> FALSE,
                     ret |-> loc.parse_ret]} :
       LET eof == req.eof \/ p.ret = "CI_EOF"
           sending == req.status = "SEND_BODY" /\ ~loc.service_eof
           rbuf == loc.rchunkdata \/ (sending /\ req.block = <<>>)
           room == IF sending /\ ~loc.formated THEN MAX_CHUNK_SIZE - Len(req.block) ELSE 0
           called == p.pending # <<>> \/ room > 0 \/ p.ret = "CI_EOF"
       IN  \/ /\ p.ret = "CI_ERROR" /\ BodyError(req)
              /\ UNCHANGED <<read, loc, dataVars>>
           \/ /\ p.ret # "CI_ERROR"
              /\ \E s \in IF called THEN service_io(p.pending, room, rbuf, eof) ELSE {NoIo} :
                   /\ read' = p.read /\ echo' = s.echo
                   /\ got' = got \o SubSeq(p.pending, 1, s.w)
                   /\ made' = made \o s.data
                   /\ req' = [req EXCEPT !.eof = eof, !.pending = Drop(p.pending, s.w),
                                !.block = req.block \o s.data,
                                !.wpos = s.wpos, !.locked = req.locked /\ ~s.unlock]
                   /\ loc' = [loc EXCEPT !.parse_ret = p.ret, !.rchunkdata = rbuf,
                                !.service_eof = loc.service_eof \/ s.eof]
                   /\ pc' = IF /\ s.w > 0 \/ s.data # <<>>
                               /\ \/ p.read # <<>> /\ p.ret \notin {"CI_NEEDS_MORE", "CI_EOF"}
                                  \/ room > 0
                            THEN "io" ELSE "round"
           \/ /\ p.ret # "CI_ERROR" /\ called /\ ~loc.parse_only /\ ~req.echoes
              /\ BodyError(req)      \* the service fails
              /\ UNCHANGED <<read, loc, dataVars>>
  /\ UNCHANGED <<clientVars, resp>>

(* Mutant: an unsent block is formatted again, or replaced by the end      *)
Formatted_Early(x) ==
  IF x.status = "SEND_BODY" THEN format_body_chunk(x, loc.service_eof) ELSE x

(* the block is formatted once, and ended when the service has no more     *)
Formatted(x) ==
  IF x.status = "SEND_BODY" /\ ~loc.formated
    THEN format_body_chunk(x, x.block = <<>> /\ loc.service_eof) ELSE x

(* Mutant: reads although data are pending                                 *)
WaitFor_Always(x) == {"read"} \cup (IF x.block # <<>> THEN {"write"} ELSE {})

(* nothing is read while the service has not taken the last data           *)
WaitFor(x) == (IF x.pending = <<>> THEN {"read"} ELSE {})
              \cup (IF x.block # <<>> THEN {"write"} ELSE {})

(* Mutant: goes on with nothing to wait for                                *)
GoesOn_Stalled(x) == ~x.eof \/ x.pending # <<>>

(* there is more to take and something to wait for                         *)
GoesOn(x) == /\ ~x.eof \/ x.pending # <<>>
             /\ WaitFor(x) # {} \/ loc.lock_status # x.locked

(* the end of a round: format what the service gave, go on or return       *)
gsb_Round ==
  /\ pc = "round"
  /\ LET x == Formatted(req) IN
       IF GoesOn(x) THEN pc' = "wait" /\ req' = x /\ loc' = [loc EXCEPT !.action = WaitFor(x)]
                    ELSE BodyDone(x) /\ UNCHANGED loc
  /\ UNCHANGED <<clientVars, read, dataVars, resp>>

(***************************************************************************)
(* do_end_of_data, then send_remaining_response.                           *)
(***************************************************************************)
(* Mutant: answers 500 behind a response                                   *)
EndOfDataFails_Answers(sent) == ErrorResponse(req, 500)

EndOfDataFails(sent) ==
  IF sent THEN Ends([req EXCEPT !.keepalive = FALSE], "CI_ERROR") /\ UNCHANGED resp
          ELSE ErrorResponse(req, 500)

do_end_of_data(answer) ==
  LET sent == req.status # "SEND_NOTHING"     \* ci_req_sent_data
      rest(x) == pc' = "rest" /\ req' = [x EXCEPT !.locked = FALSE]
  IN  CASE answer = "CI_MOD_DONE" -> rest(req) /\ UNCHANGED resp
        [] answer = "CI_MOD_ALLOW204" /\ q_.allow204 /\ ~sent ->
             \/ /\ Written(204)
                /\ IF conf.as200
                     THEN \E t \in BOOLEAN : rest([Responded(req, 204) EXCEPT !.trailers = t])
                     ELSE Ends(Responded(req, 204), "CI_OK")
             \/ Ends([Responded(req, 204) EXCEPT !.keepalive = FALSE], "CI_ERROR")
                /\ UNCHANGED resp
        [] answer = "CI_MOD_ALLOW206" /\ q_.allow204 /\ q_.allow206 /\ ~sent ->
             rest([req EXCEPT !.code = 206]) /\ UNCHANGED resp
        [] OTHER -> EndOfDataFails(sent)

EndOfDataHandler ==
  /\ pc = "end_of_data"
  /\ \E answer \in {"CI_MOD_DONE", "CI_MOD_ALLOW204", "CI_MOD_ALLOW206", "CI_ERROR"} :
       do_end_of_data(answer)
  /\ UNCHANGED <<clientVars, read, loc, dataVars>>

RestFails(x) == Ends([x EXCEPT !.keepalive = FALSE], "CI_ERROR")

rest_Send ==
  /\ pc = "rest" /\ req.block # <<>>
  /\ \/ \E n \in 0 .. Len(req.block) : send_current_block_data(req, n) /\ UNCHANGED pc
     \/ RestFails(req) /\ UNCHANGED resp
  /\ UNCHANGED <<clientVars, read, loc, dataVars>>

(* data for the next chunk; a service that gives nothing ends the response *)
rest_Read ==
  /\ pc = "rest" /\ req.block = <<>> /\ req.status = "SEND_BODY"
  /\ \/ \E s \in IF req.echoes THEN {mod_echo_io(<<>>, MAX_CHUNK_SIZE, TRUE, req.eof)}
                 ELSE {t \in mod_service_io(<<>>, MAX_CHUNK_SIZE) :
                         ~t.unlock /\ (t.eof => t.data = <<>>)} :
          /\ made' = made \o s.data /\ echo' = s.echo
          /\ IF s.data = <<>> /\ ~s.eof
               THEN Ends([req EXCEPT !.starved = TRUE], "CI_OK")
               ELSE /\ req' = format_body_chunk([req EXCEPT !.block = s.data], s.eof)
                    /\ UNCHANGED pc
     \/ ~req.echoes /\ RestFails(req) /\ UNCHANGED <<made, echo>>
  /\ UNCHANGED <<clientVars, read, loc, got, resp>>

rest_Update ==
  /\ pc = "rest" /\ req.block = <<>> /\ req.status # "SEND_BODY"
  /\ \E x \in update_send_status(req) :
       IF SendEnds(req) THEN Ends(x, "CI_OK") ELSE req' = x /\ UNCHANGED pc
  /\ UNCHANGED <<clientVars, read, loc, dataVars, resp>>

(* The end of process_request and of a pass of thread_main's loop: with    *)
(* keep-alive the request is reset, and keepalive_request keeps what has   *)
(* been read already with PIPELINING only.                                 *)
(* The client gives up the rest of this request's body, not of the next's. *)
EndRequest ==
  /\ pc = "end"
  /\ pc' = IF req.keepalive THEN "header" ELSE "closed"
  /\ req' = [FreshRequest EXCEPT !.ret = req.ret]
  /\ loc' = NoLocals /\ held' = IF Asking THEN held ELSE <<>>
  /\ echo' = <<>> /\ got' = <<>> /\ made' = <<>> /\ resp' = <<>>
  /\ read' = IF conf.pipelining THEN read ELSE <<>>
  /\ UNCHANGED <<conf, asked, wire>>

Closed == pc = "closed" /\ UNCHANGED vars

Worker ==
  \/ ReadRequest \/ HeaderTimeout \/ options_responce
  \/ read_preview_data_read \/ read_preview_data_parse \/ PreviewHandler
  \/ gsb_NoWait \/ gsb_WaitFails \/ gsb_Wait \/ gsb_Update \/ gsb_ServiceIo \/ gsb_Round
  \/ EndOfDataHandler \/ rest_Send \/ rest_Read \/ rest_Update \/ EndRequest

Next == (\E i \in DOMAIN Requests : ClientSends(i)) \/ Worker \/ Closed

Spec == Init /\ [][Next]_vars

(* The worker runs on, and a socket that is waited for is ready or fails   *)
FairSpec == Spec /\ WF_vars(Worker)

(***************************************************************************)
(* Properties.                                                             *)
(***************************************************************************)
(* A kept-alive connection is left at a request boundary: when do_request  *)
(* has ended with CI_OK, the next data that parse_header will find are the *)
(* header of the next request, whatever the handlers answered, whether or  *)
(* not the body was wanted, and however reads cut the stream.  Exceptions: *)
(* an OPTIONS request with a body, which nothing reads; PIPELINING off,    *)
(* when keepalive_request drops what was read behind the last request.     *)
(* And it is stated of clients that send a request when they have the      *)
(* response to the last one (PipeliningClient is FALSE: read_preview_data  *)
(* drops what follows the preview) and of services that do not answer 206  *)
(* to a body outside preview (EagerServices is FALSE: see                  *)
(* EndOfDataAfterBody).                                                    *)
InSync ==
  (/\ pc = "end" /\ req.keepalive /\ req.ret = "CI_OK"
   /\ conf.pipelining /\ ~(q_.options /\ q_.hasbody) /\ read \o wire # <<>>)
    => (read \o wire)[1][1] = "header"

(* A request gets one response, in order: at most one "100 Continue", then *)
(* one final status line, the HTTP header, data, one last chunk and one    *)
(* trailer; the error responses of do_request, ec_responce and the blocks  *)
(* of update_send_status never overlap.                                    *)
Rank(t) ==
  CASE t[1] = "code" -> IF t[2] = 100 THEN 0 ELSE 1
    [] t[1] = "head" -> 2 [] t[1] = "data" -> 3 [] t[1] = "eof" -> 4 [] OTHER -> 5

OneResponse ==
  \A i, j \in DOMAIN resp : i < j =>
    \/ Rank(resp[i]) < Rank(resp[j])
    \/ resp[i][1] = "data" /\ resp[j][1] = "data"

(* Full duplex loses nothing: what the service has taken, and the pending  *)
(* data, are the first units of the client's body in order, also when the  *)
(* read buffer is moved while data are pending; when the end-of-data       *)
(* handler runs after the whole body was received, nothing is missing.     *)
(* For clients and services as in InSync.                                  *)
BodyInOrder ==
  (req.n > 0 /\ q_.hasbody) =>
    LET seen == got \o req.pending IN
      /\ Len(seen) <= q_.len /\ seen = Units(1, Len(seen))
      /\ (pc = "end_of_data" /\ req.status = "SEND_NOTHING" /\ req.code = 200)
           => req.eof /\ Len(seen) = q_.len

(* The data of the response s are d, one behind the other.                 *)
DataIs(s, d) ==
  \E k \in 0 .. Len(s) - Len(d) : \A i \in DOMAIN s :
    IF i \in k + 1 .. k + Len(d) THEN s[i] = d[i - k] ELSE s[i][1] # "data"

(* The data of the service reach the client once and in order: the data    *)
(* sent and the block to be sent are what service_io has given, in all     *)
(* rounds of get_send_body and in send_remaining_response.  And a request  *)
(* that ends with CI_OK has been answered completely, unless the service   *)
(* gave no data in send_remaining_response or the OPTIONS response could   *)
(* not be sent.                                                            *)
ResponseComplete ==
  /\ DataIs(resp \o req.block, made)
  /\ (pc = "end" /\ req.ret = "CI_OK" /\ ~req.starved /\ ~q_.options)
       => AnswerSeen /\ DataIs(resp, made)

(* Outside preview the end-of-data handler runs when the client has sent   *)
(* the whole body, and the server has read it.                             *)
EndOfDataAfterBody ==
  (pc = "end_of_data" /\ q_.hasbody /\ q_.preview < 0) => req.eof

(* Every request ends: no handler's answer, no order of reads and writes   *)
(* and no cut of the data leaves the worker in one of its loops.           *)
RequestEnds == (pc # "header") ~> (pc \in {"header", "closed"})
=============================================================================
