----------------------------- MODULE IcapClient -----------------------------
(***************************************************************************)
(* The client library of client.c, as ci_client_icapfilter runs it: it     *)
(* sends the headers and the preview of a message, waits for the answer to *)
(* the preview, and then sends the body in chunks while it reads the       *)
(* response, with non-blocking calls that write and read what the          *)
(* connection takes and gives.  The caller's source and destination and    *)
(* the ICAP server at the other end are external.  A block of bytes is a   *)
(* sequence of tokens: a header, the definition of a chunk, a unit of      *)
(* data, an end; the empty line that ends a header is the two tokens "cr"  *)
(* and "lf", which the network may separate.                               *)
(***************************************************************************)
EXTENDS Integers, Sequences, FiniteSets, FiniteSetsExt, SequencesExt, Functions

CONSTANTS
  BodyLen,        \* units of data in the source
  Previews,       \* values of req->preview, -1 for none
  Responses,      \* bodies of responses, as sequences of chunks
  MaxChunk,       \* MAX_CHUNK_SIZE, in units
  NetRoom,        \* tokens that each direction of the connection holds
  MaxClientReqs,  \* requests on one connection
  Shorts,         \* the source and the destination may do less than asked
  NoBytes         \* what a buffer holds before it is written

ASSUME IcapClientAssumption ==
  /\ BodyLen \in Nat /\ MaxChunk \in Nat \ {0} /\ NetRoom \in Nat \ {0}
  /\ Previews \subseteq Int /\ Shorts \in BOOLEAN /\ NoBytes \notin Nat

VARIABLES
  cl,             \* the request structure of the client
  source, dest,   \* units read from the source; units written to the destination
  toSrv, toCli,   \* the connection
  srv,            \* what the server has read and done
  clReqs,         \* requests so far
  torn            \* ghost: the source or the destination did less than asked

clVars == <<cl, source, dest, toSrv, toCli, srv, clReqs, torn>>

Token(kind) == [is |-> kind]
Size(n) == [is |-> "size", n |-> n]
Unit(n) == [is |-> "unit", n |-> n]
EndOfHead == <<Token("cr"), Token("lf")>>
HttpHead == <<Token("http"), Token("http")>>
Trailer == <<Token("trailer")>> \o EndOfHead

NewServer == [pc |-> "head", preview |-> -1, seen |-> <<>>, eof |-> "no", closed |-> FALSE, sent |-> <<>>]

(* ci_client_request_reuse, and the fields that it does not reset: preview *)
(* and, on the server's side, the connection.                              *)
Reused(preview) ==
  [status |-> "INIT", block |-> <<>>, rbuf |-> <<>>, eof_sent |-> FALSE, preview |-> preview,
   preview_data |-> <<>>, allow204 |-> FALSE, code |-> 0, entities |-> "none", trailer |-> FALSE,
   header |-> <<>>, chunk |-> 0, hasData |-> TRUE, wait |-> {}, result |-> "none"]

ClientInit ==
  /\ \E p \in Previews : cl = Reused(p)
  /\ source = 0 /\ dest = <<>> /\ toSrv = <<>> /\ toCli = <<>>
  /\ srv = NewServer /\ clReqs = 1 /\ torn = FALSE

Fails(c) == [c EXCEPT !.result = "error"]

(***************************************************************************)
(* Sending                                                                 *)
(***************************************************************************)
(* prepare_headers reads the preview: piece after piece until there is     *)
(* enough of it, or until the source gives nothing, which counts as its    *)
(* end.  Every piece is put at the beginning of the buffer.                *)
Overlaid(buf, piece) == piece \o SubSeq(buf, Len(piece) + 1, Len(buf))

Pieces(want) ==
  IF ~Shorts THEN {<<Min({want, BodyLen})>>}
  ELSE {s \in UNION {[1..n -> 1..want] : n \in 0..want} : FoldSeq(+, 0, s) <= Min({want, BodyLen})}

(* Mutant: a preview that has been filled is taken for the whole body.     *)
PreviewIsAll_Full(preview, got) == got <= preview

PreviewIsAll(preview, got) == got < preview

prepare_headers ==
  /\ cl.result = "none" /\ cl.status = "INIT"
  /\ \E hasData, allow204 \in BOOLEAN : \E s \in Pieces(Max({cl.preview, 0})) :
       LET preview == IF hasData THEN cl.preview ELSE -1
           got == IF preview > 0 THEN FoldSeq(+, 0, s) ELSE 0
           from == [i \in DOMAIN s |-> FoldSeq(+, 0, SubSeq(s, 1, i - 1))]
           buf == FoldLeft(LAMBDA b, i : Overlaid(b, [k \in 1..s[i] |-> Unit(from[i] + k)]),
                           [k \in 1..got |-> Unit(NoBytes)], [i \in DOMAIN s |-> i])
       IN  /\ cl' = [cl EXCEPT !.hasData = hasData, !.allow204 = allow204, !.status = "SEND_HEADERS",
                               !.preview = IF preview > 0 THEN got ELSE preview,
                               !.preview_data = IF preview > 0 THEN buf ELSE <<>>,
                               !.eof_sent = preview > 0 /\ PreviewIsAll(preview, got),
                               !.wait = {"write"}]
           /\ source' = got
           /\ torn' = (torn \/ (preview > 0 /\ (Len(s) > 1 \/ got < Min({preview, BodyLen}))))
  /\ UNCHANGED <<dest, toSrv, toCli, srv, clReqs>>

(* The blocks of client_send_request_headers, one after the other: the     *)
(* ICAP header with the HTTP headers, the definition of the preview's      *)
(* chunk, the preview, and the end of it.                                  *)
HeaderBlock(c) == <<[is |-> "head", preview |-> c.preview, hasData |-> c.hasData]>>

EofInfo(c) == <<Token(IF c.eof_sent THEN "ieof" ELSE "end")>>

NextBlock(c) ==
  CASE c.status = "SEND_HEADERS" -> [c EXCEPT !.status = "WRITE_HEADERS", !.block = HeaderBlock(c)]
    [] c.status = "WRITE_HEADERS" /\ c.preview > 0 ->
         [c EXCEPT !.status = "WRITE_PREVIEW_INFO", !.block = <<Size(c.preview)>>]
    [] c.status = "WRITE_PREVIEW_INFO" -> [c EXCEPT !.status = "WRITE_PREVIEW", !.block = c.preview_data]
    [] (c.status = "WRITE_HEADERS" /\ c.preview = 0) \/ c.status = "WRITE_PREVIEW" ->
         [c EXCEPT !.status = "WRITE_EOF_INFO", !.block = EofInfo(c)]
    [] OTHER -> IF c.preview >= 0 THEN [c EXCEPT !.status = "READ_PREVIEW_RESPONSE", !.wait = {"read"}]
                ELSE [c EXCEPT !.status = "GET_NOTHING", !.wait = {"read", "write"}]

SendingHeaders == {"SEND_HEADERS", "WRITE_HEADERS", "WRITE_PREVIEW_INFO", "WRITE_PREVIEW", "WRITE_EOF_INFO"}
Room(net) == NetRoom - Len(net)

client_send_request_headers ==
  /\ cl.result = "none" /\ cl.status \in SendingHeaders
  /\ LET c == IF cl.status = "SEND_HEADERS" THEN NextBlock(cl) ELSE cl IN
       \E n \in 0..Min({Len(c.block), Room(toSrv)}) :
         LET left == SubSeq(c.block, n + 1, Len(c.block)) IN
         /\ n > 0 \/ srv.closed
         /\ cl' = IF srv.closed THEN Fails(c)
                  ELSE IF left # <<>> THEN [c EXCEPT !.block = left]
                  ELSE NextBlock([c EXCEPT !.block = <<>>])
         /\ toSrv' = IF srv.closed THEN toSrv ELSE toSrv \o SubSeq(c.block, 1, n)
  /\ UNCHANGED <<source, dest, toCli, srv, clReqs, torn>>

(* client_prepere_body_chunk: what the source gives, or nothing yet, or    *)
(* the end of the body.                                                    *)
Chunks ==
  IF cl.block # <<>> \/ cl.eof_sent \/ ~cl.hasData THEN {<<0, cl.block, cl.eof_sent \/ ~cl.hasData>>}
  ELSE IF source = BodyLen THEN {<<0, <<Token("end")>>, TRUE>>}
  ELSE {<<n, IF n = 0 THEN <<>> ELSE <<Size(n)>> \o [i \in 1..n |-> Unit(source + i)], FALSE>> :
          n \in (IF Shorts THEN 0 ELSE 1)..Min({MaxChunk, BodyLen - source})}

(***************************************************************************)
(* Receiving                                                               *)
(***************************************************************************)
(* client_parse_icap_header takes a header up to its empty line; without   *)
(* that, everything but what may be the beginning of an empty line.        *)
HeadEnds(buf) == {i \in 2..Len(buf) : <<buf[i - 1], buf[i]>> = EndOfHead}
HeadLength(buf) == IF HeadEnds(buf) # {} THEN Min(HeadEnds(buf)) ELSE Max({Len(buf) - 1, 0})

client_parse_icap_header(c) ==
  LET n == HeadLength(c.rbuf)
  IN  [c EXCEPT !.header = @ \o SubSeq(c.rbuf, 1, n), !.rbuf = SubSeq(c.rbuf, n + 1, Len(c.rbuf))]

Complete(c) == HeadEnds(c.rbuf) # {}

(* A complete header, unpacked: its status and encapsulated entities.      *)
Answer(c) == c.header[1]

(* ci_client_handle_previewed_response and what its caller makes of it.    *)
Previewed(c0) ==
  LET c == client_parse_icap_header(c0)
      a == Answer(c)
  IN  IF ~Complete(c0) THEN c
      ELSE IF a.code = 100
      THEN [c EXCEPT !.status = "GET_NOTHING", !.header = <<>>, !.code = 100, !.wait = {"write"}]
      ELSE IF a.code = 200 /\ c.eof_sent
      THEN [c EXCEPT !.status = IF a.entities = "body" THEN "GET_BODY" ELSE "GET_HEADERS",
                     !.code = 200, !.entities = a.entities, !.trailer = a.trailer, !.header = <<>>]
      ELSE [c EXCEPT !.code = a.code, !.result = "done"]

(* The stages of client_parse_incoming_data.                               *)
GetHead(c0) ==
  LET c == client_parse_icap_header(c0)
      a == Answer(c)
  IN  IF c0.status # "GET_NOTHING" \/ ~Complete(c0) THEN IF c0.status = "GET_NOTHING" THEN c ELSE c0
      ELSE IF a.code = 204 /\ c.allow204 THEN [c EXCEPT !.status = "END_OF_RESPONSE", !.code = 204, !.result = "done"]
      ELSE IF a.entities = "none" THEN Fails(c)
      ELSE [c EXCEPT !.status = IF a.entities = "body" THEN "GET_BODY" ELSE "GET_HEADERS",
                     !.code = a.code, !.entities = a.entities, !.trailer = a.trailer, !.header = <<>>]

(* client_parse_encaps_header: as many bytes as the entities say.          *)
GetHeaders(c) ==
  LET n == Min({Len(HttpHead) - Len(c.header), Len(c.rbuf)})
      h == c.header \o SubSeq(c.rbuf, 1, n)
      d == [c EXCEPT !.header = h, !.rbuf = SubSeq(c.rbuf, n + 1, Len(c.rbuf))]
  IN  IF c.status # "GET_HEADERS" \/ Len(h) < Len(HttpHead) THEN IF c.status = "GET_HEADERS" THEN d ELSE c
      ELSE [d EXCEPT !.header = <<>>, !.chunk = 0,
                     !.status = IF c.entities = "headers" THEN "END_OF_RESPONSE" ELSE "GET_BODY"]

(* parse_chunk_data, one token: the definition of a chunk, a unit of its   *)
(* data, which goes to the destination, or the end.                        *)
TakeToken(s, x) ==
  IF s.c.status # "GET_BODY" THEN [s EXCEPT !.rest = Append(@, x)]
  ELSE IF s.c.chunk > 0 THEN [s EXCEPT !.c.chunk = @ - 1, !.out = Append(@, x.n)]
  ELSE IF x.is = "end" THEN [s EXCEPT !.c.status = IF s.c.trailer THEN "GET_TRAILERS" ELSE "END_OF_RESPONSE"]
  ELSE [s EXCEPT !.c.chunk = x.n]

GetBody(c) == FoldLeft(TakeToken, [c |-> c, out |-> <<>>, rest |-> <<>>], c.rbuf)

GetTrailers(c) ==
  IF c.status # "GET_TRAILERS" THEN c
  ELSE [client_parse_icap_header(c) EXCEPT !.status = IF Complete(c) THEN "END_OF_RESPONSE" ELSE @]

(* What the destination gets of a run of units: it is offered the same     *)
(* bytes again after it has taken only a part of them.                     *)
Written(out) ==
  IF ~Shorts \/ Len(out) < 2 THEN {out}
  ELSE {out} \union {SubSeq(out, 1, k) \o SubSeq(out, 1, Len(out) - k) : k \in 1..(Len(out) - 1)}

(***************************************************************************)
(* ci_client_icapfilter_nonblocking once the headers are sent              *)
(***************************************************************************)
(* net_data_read: some of what has arrived; an end of the connection is an *)
(* error.                                                                  *)
Arrived == IF toCli = <<>> THEN {0} ELSE 1..Len(toCli)
ReadFails == toCli = <<>> /\ srv.closed
WithInput(c, n) == [c EXCEPT !.rbuf = @ \o SubSeq(toCli, 1, n)]

(* The flags that the call returns; none is the end of the request.        *)
Action(c) ==
  (IF ~c.eof_sent \/ c.block # <<>> THEN {"write"} ELSE {})
    \union (IF c.status # "END_OF_RESPONSE" THEN {"read"} ELSE {})

Waits(c) ==
  IF c.result # "none" THEN c
  ELSE IF Action(c) = {} THEN [c EXCEPT !.wait = {}, !.result = "done"]
  ELSE [c EXCEPT !.wait = Action(c)]

(* The reading half of ci_client_send_and_get_data.                        *)
client_parse_incoming_data(c) ==
  LET body == GetBody(GetHeaders(GetHead(c)))
      d == [body.c EXCEPT !.rbuf = body.rest]
  IN  [c |-> GetTrailers(d), out |-> body.out]

ReadPreviewResponse ==
  /\ cl.result = "none" /\ cl.status = "READ_PREVIEW_RESPONSE"
  /\ toCli # <<>> \/ srv.closed
  /\ \E n \in Arrived :
       LET c == Previewed(WithInput(cl, n))
           p == client_parse_incoming_data(c)
           more == c.result = "none" /\ c.status \in {"GET_BODY", "GET_HEADERS"}
       IN  IF ReadFails THEN cl' = Fails(cl) /\ UNCHANGED <<dest, toCli, torn>>
           ELSE /\ toCli' = SubSeq(toCli, n + 1, Len(toCli))
                /\ IF more
                   THEN \E w \in Written(p.out) :
                          cl' = Waits(p.c) /\ dest' = dest \o w /\ torn' = (torn \/ w # p.out)
                   ELSE cl' = c /\ UNCHANGED <<dest, torn>>
  /\ UNCHANGED <<source, toSrv, srv, clReqs>>

(* ci_client_send_and_get_data when the connection can be written to       *)
(* and, as it comes, read from.                                            *)
Processing == {"GET_NOTHING", "GET_HEADERS", "GET_BODY", "GET_TRAILERS", "END_OF_RESPONSE"}

ClientWrites ==
  /\ cl.result = "none" /\ cl.status \in Processing /\ "write" \in cl.wait
  /\ Room(toSrv) > 0 \/ srv.closed
  /\ \E ch \in Chunks : LET c == [cl EXCEPT !.block = ch[2], !.eof_sent = ch[3]] IN
       \E n \in 0..Min({Len(c.block), Room(toSrv)}) :
         /\ n > 0 \/ c.block = <<>> \/ srv.closed
         /\ source' = source + ch[1]
         /\ cl' = IF srv.closed /\ c.block # <<>> THEN Fails(c)
                  ELSE Waits([c EXCEPT !.block = SubSeq(c.block, n + 1, Len(c.block))])
         /\ toSrv' = IF srv.closed THEN toSrv ELSE toSrv \o SubSeq(c.block, 1, n)
  /\ UNCHANGED <<dest, toCli, srv, clReqs, torn>>

ClientReads ==
  /\ cl.result = "none" /\ cl.status \in Processing /\ "read" \in cl.wait
  /\ toCli # <<>> \/ srv.closed
  /\ \E n \in Arrived :
       LET p == client_parse_incoming_data(WithInput(cl, n)) IN
       \E w \in Written(p.out) :
         IF ReadFails THEN cl' = Fails(cl) /\ UNCHANGED <<dest, toCli, torn>>
         ELSE /\ toCli' = SubSeq(toCli, n + 1, Len(toCli))
              /\ cl' = Waits(p.c) /\ dest' = dest \o w /\ torn' = (torn \/ w # p.out)
  /\ UNCHANGED <<source, toSrv, srv, clReqs>>

(* ci_connection_wait times out, or the source or destination fails.       *)
ClientGivesUp ==
  /\ cl.result = "none" /\ cl.status # "INIT"
  /\ cl' = Fails(cl)
  /\ UNCHANGED <<source, dest, toSrv, toCli, srv, clReqs, torn>>

(* The caller uses the request and the connection again once a response    *)
(* has been read to its end and everything has been sent, or a preview has *)
(* been answered with 204.  A 204 that comes while the body is being sent  *)
(* (client.c:727) is left out: what is sent next is taken for the body.    *)
InStep ==
  IF cl.status = "READ_PREVIEW_RESPONSE" THEN cl.code = 204
  ELSE cl.status = "END_OF_RESPONSE" /\ Action(cl) = {}

ci_client_request_reuse ==
  /\ cl.result = "done" /\ InStep /\ clReqs < MaxClientReqs
  /\ toSrv = <<>> /\ srv.pc # "head" /\ ~srv.closed
  /\ cl' = Reused(cl.preview)
  /\ srv' = NewServer
  /\ source' = 0 /\ dest' = <<>> /\ clReqs' = clReqs + 1 /\ torn' = FALSE
  /\ UNCHANGED <<toSrv, toCli>>

(***************************************************************************)
(* The server (external)                                                   *)
(***************************************************************************)
SrvTakes(x) ==
  CASE srv.pc = "head" -> [srv EXCEPT !.preview = x.preview,
                                      !.pc = IF ~x.hasData THEN "whole" ELSE IF x.preview >= 0 THEN "preview" ELSE "body",
                                      !.eof = IF ~x.hasData THEN "end" ELSE "no"]
    [] srv.pc = "preview" /\ x.is \in {"end", "ieof"} ->
         [srv EXCEPT !.pc = IF x.is = "ieof" THEN "whole" ELSE "previewed",
                     !.eof = IF x.is = "ieof" THEN "ieof" ELSE "no"]
    [] srv.pc = "body" /\ x.is = "end" -> [srv EXCEPT !.pc = "whole", !.eof = "end"]
    [] x.is = "unit" -> [srv EXCEPT !.seen = Append(@, x.n)]
    [] OTHER -> srv

ServerReads ==
  /\ toSrv # <<>> /\ ~srv.closed
  /\ srv' = SrvTakes(Head(toSrv))
  /\ toSrv' = Tail(toSrv)
  /\ UNCHANGED <<cl, source, dest, toCli, clReqs, torn>>

Response(code, entities, trailer) ==
  <<[is |-> "response", code |-> code, entities |-> entities, trailer |-> trailer]>> \o EndOfHead

ServerContinues ==
  /\ srv.pc = "previewed" /\ srv.sent = <<>> /\ ~srv.closed
  /\ srv' = [srv EXCEPT !.pc = "body"]
  /\ toCli' = toCli \o Response(100, "none", FALSE)
  /\ UNCHANGED <<cl, source, dest, toSrv, clReqs, torn>>

(* A response of 200 once the preview or a part of the body is there, or   *)
(* 204, which needs a preview or the client's permission.                  *)
ChunkTokens(b) == FoldLeft(LAMBDA s, n : s \o <<Size(n)>> \o [i \in 1..n |-> Unit(BodyLen + Len(s) + i)], <<>>, b) \o <<Token("end")>>

Units(tokens) == LET u == SelectSeq(tokens, LAMBDA x : x.is = "unit") IN [i \in DOMAIN u |-> u[i].n]

ServerAnswers ==
  /\ srv.pc \in {"previewed", "body", "whole"} /\ srv.sent = <<>> /\ ~srv.closed
  /\ \/ \E b \in Responses, e \in {"body", "both", "headers"}, t \in BOOLEAN :
          LET body == IF e = "headers" THEN <<>> ELSE ChunkTokens(b)
          IN  /\ e = "headers" => ~t
              /\ toCli' = toCli \o Response(200, e, t) \o (IF e = "body" THEN <<>> ELSE HttpHead) \o body
                                \o (IF t THEN Trailer ELSE <<>>)
              /\ srv' = [srv EXCEPT !.sent = <<Units(body)>>,
                                    !.pc = IF @ = "previewed" THEN "early" ELSE @]
     \/ /\ cl.allow204 \/ srv.pc = "previewed" \/ srv.eof = "ieof"
        /\ toCli' = toCli \o Response(204, "none", FALSE)
        /\ srv' = [srv EXCEPT !.sent = <<<<>>>>]
  /\ UNCHANGED <<cl, source, dest, toSrv, clReqs, torn>>

ServerCloses ==
  /\ ~srv.closed /\ srv' = [srv EXCEPT !.closed = TRUE]
  /\ UNCHANGED <<cl, source, dest, toSrv, toCli, clReqs, torn>>

ClientNext ==
  \/ prepare_headers \/ client_send_request_headers \/ ReadPreviewResponse
  \/ ClientWrites \/ ClientReads \/ ClientGivesUp \/ ci_client_request_reuse
  \/ ServerReads \/ ServerContinues \/ ServerAnswers \/ ServerCloses

(***************************************************************************)
(* Properties                                                              *)
(***************************************************************************)
(* The server gets the source's data in order and, when it has seen an end *)
(* of the body that is the end of the message, all of it; and a client     *)
(* that reports 200 has written exactly the body of the response to the    *)
(* destination: preview, chunks and the two ways to end them fit together, *)
(* however the connection cuts them and over reused connections.  Excepted *)
(* are a source that gives less of the preview, or a destination that      *)
(* takes less of the data, than it is asked to, and a response that comes  *)
(* instead of 100 after a preview that was not the whole body; a           *)
(* connection is not reused after a 204 that came before the whole body    *)
(* was sent.  And neither side waits for the other: when the client only   *)
(* waits for the server, the server has what it needs to go on, the        *)
(* preview or the end of the body (prepare_headers,                        *)
(* client_send_request_headers, client_prepere_body_chunk,                 *)
(* ci_client_handle_previewed_response, client_parse_incoming_data,        *)
(* ci_client_icapfilter).                                                  *)
ClientRelays ==
  /\ ~torn =>
       /\ cl.hasData => /\ \A i \in DOMAIN srv.seen : srv.seen[i] = i
                        /\ srv.eof # "no" => Len(srv.seen) = BodyLen
       /\ cl.result = "done" /\ cl.code = 200 /\ srv.pc # "early" => srv.sent = <<dest>>
  /\ cl.result = "none" /\ cl.wait = {"read"} /\ cl.status # "INIT" /\ toCli = <<>> /\ toSrv = <<>> =>
       srv.pc \in {"previewed", "whole"} \/ srv.sent # <<>> \/ srv.closed
=============================================================================
