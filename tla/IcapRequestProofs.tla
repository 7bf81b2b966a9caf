-------------------------- MODULE IcapRequestProofs --------------------------
(***************************************************************************)
(* Proofs about IcapRequest, for any requests, any number of them on a     *)
(* connection, bodies and responses of any length and every way of cutting *)
(* them.                                                                   *)
(***************************************************************************)
EXTENDS IcapRequest, ProofLemmas

(* What is sent by the client and by the server, and data of either.       *)
Input == ({"header"} \X DOMAIN Requests) \cup ({"data", "zero", "ieof", "bad"} \X Int)
Output == {"code", "head", "data", "eof", "trailer"} \X Int
Data == {"data"} \X Int

Statuses ==
  {"SEND_NOTHING", "SEND_RESPHEAD", "SEND_HEAD1", "SEND_BODY", "SEND_EOF", "SEND_TRAILERS"}
BodyPcs == {"wait", "update", "io", "round"}
Pcs == {"header", "options", "read_preview", "preview", "end_of_data", "rest", "end", "closed"}
       \cup BodyPcs
ParseResults == {"CI_OK", "CI_EOF", "CI_ERROR", "CI_NEEDS_MORE"}

ReqRec ==
  [n : DOMAIN Requests \cup {0}, keepalive : BOOLEAN, eof : BOOLEAN, status : Statuses,
   code : Int, block : Seq(Output), pending : Seq(Data), locked : BOOLEAN,
   echoes : BOOLEAN, wpos : 0 .. RingSize - 1, respbody : BOOLEAN, trailers : BOOLEAN,
   preview : {"CI_OK", "CI_EOF"}, ret : {"CI_OK", "CI_ERROR"}, starved : BOOLEAN]
LocRec ==
  [action : SUBSET {"read", "write"}, lock_status : BOOLEAN, formated : BOOLEAN,
   service_eof : BOOLEAN, parse_ret : ParseResults \cup {"none"}, parse_only : BOOLEAN,
   rchunkdata : BOOLEAN]

TypeOK ==
  /\ conf \in [as200 : BOOLEAN, fake204 : BOOLEAN, pipelining : BOOLEAN] /\ asked \in Nat
  /\ wire \in Seq(Input) /\ held \in Seq(Input) /\ read \in Seq(Input)
  /\ pc \in Pcs /\ req \in ReqRec /\ loc \in LocRec
  /\ echo \in Seq(Data) /\ got \in Seq(Data) /\ made \in Seq(Data) /\ resp \in Seq(Output)
  /\ pc \notin {"header", "end", "closed"} => req.n \in DOMAIN Requests
  /\ Len(echo) <= RingSize
  /\ pc = "io" /\ ~loc.formated => Len(req.block) <= MAX_CHUNK_SIZE

(***************************************************************************)
(* The operators of the model                                              *)
(***************************************************************************)
(* Numbered units of data are data.                                        *)
LEMMA UnitsType ==
  ASSUME NEW a \in Int, NEW b \in Int
  PROVE  /\ Units(a, b) \in Seq(Data)
         /\ b < a => Units(a, b) = <<>>
         /\ b >= a - 1 => Len(Units(a, b)) = b - a + 1
  <1>1. CASE b < a
    <2>1. 1 .. (b - a + 1) = {}
      BY <1>1
    <2>2. Units(a, b) = <<>>
      BY <2>1 DEF Units
    <2>3. b >= a - 1 => b - a + 1 = 0
      BY <1>1
    <2>. QED
      BY <2>2, <2>3, EmptySeq, <1>1
  <1>2. CASE b >= a
    <2>1. b - a + 1 \in Nat /\ \A i \in 1 .. (b - a + 1) : <<"data", a + i - 1>> \in Data
      BY <1>2 DEF Data
    <2>2. Units(a, b) \in [1 .. (b - a + 1) -> Data]
      BY <2>1 DEF Units
    <2>. QED
      BY <1>2, <2>1, <2>2
  <1>. QED
    BY <1>1, <1>2

(* Data are a kind of input and a kind of output.                          *)
LEMMA DataIsBoth == Data \subseteq Input /\ Data \subseteq Output
  BY DEF Data, Input, Output

(* What a client sends at once, and what it holds back.                    *)
LEMMA ClientParts ==
  ASSUME NEW i \in DOMAIN Requests
  PROVE  FirstPart(i, Requests[i]) \in Seq(Input) /\ AfterContinue(Requests[i]) \in Seq(Input)
  <1>. DEFINE q == Requests[i]
  <1>1. q.len \in Nat /\ q.preview \in Int /\ q.hasbody \in BOOLEAN
    BY IcapRequestAssumption DEF IsRequest
  <1>2. LastChunk(q) \in Input /\ <<"ieof", 0>> \in Input /\ <<"zero", 0>> \in Input
    BY DEF LastChunk, Input
  <1>3. /\ Units(1, q.len) \in Seq(Input) /\ Units(1, q.preview) \in Seq(Input)
        /\ Units(q.preview + 1, q.len) \in Seq(Input)
    <2>1. /\ Units(1, q.len) \in Seq(Data) /\ Units(1, q.preview) \in Seq(Data)
          /\ Units(q.preview + 1, q.len) \in Seq(Data)
      <3>1. q.preview + 1 \in Int /\ q.len \in Int /\ 1 \in Int
        BY <1>1
      <3>. HIDE DEF q
      <3>. QED
        BY <1>1, <3>1, UnitsType
    <2>2. Seq(Data) \subseteq Seq(Input)
      BY DataIsBoth, SeqMonotonic
    <2>. QED
      BY <2>1, <2>2
  <1>4. <<<<"header", i>>>> \in Seq(Input)
    BY OneElement DEF Input
  <1>. HIDE DEF q
  <1>5. /\ Append(Units(1, q.len), LastChunk(q)) \in Seq(Input)
        /\ Append(Units(1, q.len), <<"ieof", 0>>) \in Seq(Input)
        /\ Append(Units(1, q.preview), <<"zero", 0>>) \in Seq(Input)
        /\ Append(Units(q.preview + 1, q.len), LastChunk(q)) \in Seq(Input)
        /\ <<>> \in Seq(Input)
    BY <1>2, <1>3, AppendProperties, EmptySeq
  <1>6. AfterContinue(q) \in Seq(Input)
    BY <1>5 DEF AfterContinue
  <1>7. FirstPart(i, q) \in Seq(Input)
    <2>1. CASE ~q.hasbody
      BY <2>1, <1>4, <1>5, ConcatProperties DEF FirstPart
    <2>2. CASE q.hasbody /\ q.preview < 0
      BY <2>2, <1>4, <1>5, ConcatProperties DEF FirstPart
    <2>3. CASE q.hasbody /\ ~(q.preview < 0) /\ q.preview >= q.len
      BY <1>1, <2>3, <1>4, <1>5, ConcatProperties DEF FirstPart
    <2>4. CASE q.hasbody /\ ~(q.preview < 0) /\ ~(q.preview >= q.len)
      BY <1>1, <2>4, <1>4, <1>5, ConcatProperties DEF FirstPart
    <2>. QED
      BY <2>1, <2>2, <2>3, <2>4
  <1>. QED
    BY <1>6, <1>7 DEF q

(* One call of parse_chunk_data takes data from the front of what has been *)
(* read, and at the end of the body the last chunk.                        *)
LEMMA ParseType ==
  ASSUME NEW r \in Seq(Input), NEW p \in parse_chunk_data(r)
  PROVE  /\ p.pending \in Seq(Data) /\ p.read \in Seq(Input)
         /\ p.ieof \in BOOLEAN /\ p.ret \in ParseResults
  <1>1. ASSUME NEW d \in Seq(Data), NEW t \in Seq(Input), p = AfterData(d, t)
        PROVE  /\ p.pending \in Seq(Data) /\ p.read \in Seq(Input)
               /\ p.ieof \in BOOLEAN /\ p.ret \in ParseResults
    <2>1. p.pending = d /\ p.ieof = (t # <<>> /\ t[1][1] = "ieof")
      BY <1>1 DEF AfterData
    <2>2. p.read = IF t # <<>> /\ t[1][1] \in {"zero", "ieof"} THEN Tail(t) ELSE t
      BY <1>1 DEF AfterData
    <2>3. t # <<>> => Tail(t) \in Seq(Input)
      BY HeadTailProperties
    <2>4. p.ret = IF t = <<>> THEN "CI_NEEDS_MORE"
                  ELSE CASE t[1][1] = "data" -> "CI_OK"
                         [] t[1][1] \in {"zero", "ieof"} -> "CI_EOF"
                         [] OTHER -> "CI_ERROR"
      BY <1>1 DEF AfterData
    <2>5. p.ret \in ParseResults
      BY <2>4 DEF ParseResults
    <2>6. p.ieof \in BOOLEAN
      BY <2>1
    <2>. QED
      BY <2>1, <2>2, <2>3, <2>5, <2>6
  <1>. DEFINE lengths == {n \in 1 .. Len(r) : \A i \in 1 .. n : r[i][1] = "data"}
  <1>2. CASE lengths = {}
    BY <1>1, <1>2, EmptySeq DEF parse_chunk_data
  <1>3. CASE lengths # {}
    <2>1. PICK n \in lengths : p = AfterData(SubSeq(r, 1, n), Drop(r, n))
      BY <1>3 DEF parse_chunk_data
    <2>2. n \in 0 .. Len(r) /\ Len(r) \in Nat
      OBVIOUS
    <2>3. Drop(r, n) \in Seq(Input)
      BY <2>2, SplitSeq DEF Drop
    <2>4. SubSeq(r, 1, n) \in Seq(Data)
      <3>1. \A i \in 1 .. n : r[i] \in Input /\ r[i][1] = "data"
        BY <2>2, ElementOfSeq
      <3>2. \A i \in 1 .. n : r[i] \in Data
        BY <3>1 DEF Input, Data
      <3>. QED
        BY <2>2, <3>2, SubSeqProperties
    <2>. QED
      BY <1>1, <2>1, <2>3, <2>4
  <1>. QED
    BY <1>2, <1>3

(* What a call of service_io may do: it takes a part of the pending data,  *)
(* gives data for which there is room, and an end only without data.       *)
IoRec ==
  [w : Nat, data : Seq(Data), eof : BOOLEAN, unlock : BOOLEAN, echo : Seq(Data),
   wpos : 0 .. RingSize - 1]

IoOK(s, p, n) ==
  /\ s \in IoRec /\ s.w <= Len(p) /\ Len(s.echo) <= RingSize
  /\ Len(s.data) <= n /\ (s.eof => s.data = <<>>)

(* No call takes, gives or unlocks anything.                               *)
LEMMA NoIoType ==
  ASSUME TypeOK, NEW p \in Seq(Data), NEW n \in Nat
  PROVE  IoOK(NoIo, p, n) /\ NoIo.data = <<>> /\ NoIo.unlock = FALSE
  <1>1. /\ NoIo.w = 0 /\ NoIo.data = <<>> /\ NoIo.eof = FALSE /\ NoIo.unlock = FALSE
        /\ NoIo.echo = echo /\ NoIo.wpos = req.wpos
    BY DEF NoIo
  <1>2. NoIo \in IoRec
    BY EmptySeq DEF TypeOK, ReqRec, NoIo, IoRec
  <1>3. Len(p) >= 0 /\ Len(<<>>) = 0
    OBVIOUS
  <1>. QED
    BY <1>1, <1>2, <1>3 DEF IoOK, TypeOK

(* mod_null_io takes all and gives nothing.                                *)
LEMMA NullIoType ==
  ASSUME TypeOK, NEW p \in Seq(Data), NEW n \in Nat, NEW eof \in BOOLEAN
  PROVE  /\ IoOK(mod_null_io(p, eof), p, n)
         /\ mod_null_io(p, eof).data = <<>> /\ mod_null_io(p, eof).unlock = FALSE
  <1>. DEFINE s == mod_null_io(p, eof)
  <1>1. /\ s.w = Len(p) /\ s.data = <<>> /\ s.eof = eof /\ s.unlock = FALSE
        /\ s.echo = echo /\ s.wpos = req.wpos
    BY DEF NoIo, mod_null_io
  <1>2. s \in IoRec
    <2>1. IoOK(NoIo, p, n)
      BY NoIoType
    <2>2. NoIo \in IoRec /\ Len(p) \in Nat
      BY <2>1 DEF IoOK
    <2>. QED
      BY <2>2 DEF mod_null_io, IoRec
  <1>3. Len(p) \in Nat /\ Len(<<>>) = 0
    OBVIOUS
  <1>. QED
    BY <1>1, <1>2, <1>3 DEF IoOK, TypeOK

(* mod_echo_io never puts more into the ring than there is space.          *)
LEMMA EchoIoType ==
  ASSUME TypeOK, NEW p \in Seq(Data), NEW n \in Nat, NEW rbuf \in BOOLEAN, NEW eof \in BOOLEAN
  PROVE  IoOK(mod_echo_io(p, n, rbuf, eof), p, n) /\ mod_echo_io(p, n, rbuf, eof).unlock = FALSE
  <1>. DEFINE w == Least(Len(p), RingSpace)
              all == echo \o SubSeq(p, 1, w)
              k == IF rbuf THEN Least(n, Len(all)) ELSE 0
              s == mod_echo_io(p, n, rbuf, eof)
  <1>1. /\ s.w = w /\ s.data = SubSeq(all, 1, k) /\ s.echo = Drop(all, k)
        /\ s.wpos = (req.wpos + w) % RingSize /\ s.unlock = FALSE
    BY DEF mod_echo_io, NoIo
  <1>. HIDE DEF s
  <1>2. Len(p) \in Nat /\ Len(echo) \in Nat /\ RingSize \in Nat \ {0}
        /\ req.wpos \in 0 .. RingSize - 1 /\ Len(echo) <= RingSize /\ echo \in Seq(Data)
    BY IcapRequestAssumption, SMTT(40) DEF TypeOK, ReqRec
  <1>3. RingSpace \in Nat /\ RingSpace <= RingSize /\ RingSpace + Len(echo) <= RingSize
    <2>1. CASE echo = <<>>
      BY <2>1, <1>2 DEF RingSpace
    <2>2. CASE echo # <<>>
      BY <2>2, <1>2 DEF RingSpace
    <2>. QED
      BY <2>1, <2>2
  <1>4. w \in 0 .. Len(p) /\ w <= RingSpace
    BY <1>2, <1>3 DEF Least
  <1>. HIDE DEF w
  <1>5. SubSeq(p, 1, w) \in Seq(Data) /\ Len(SubSeq(p, 1, w)) = w
    BY <1>4, SplitSeq
  <1>6. all \in Seq(Data) /\ Len(all) = Len(echo) + w
    BY <1>2, <1>5, ConcatProperties
  <1>. HIDE DEF all
  <1>7. k \in 0 .. Len(all) /\ k <= n /\ Len(all) \in Nat
    BY <1>6 DEF Least
  <1>. HIDE DEF k
  <1>8. /\ s.data \in Seq(Data) /\ Len(s.data) = k
        /\ s.echo \in Seq(Data) /\ Len(s.echo) = Len(all) - k
    BY <1>1, <1>7, <1>6, SplitSeq, ZenonT(40) DEF Drop
  <1>9. s.wpos \in 0 .. RingSize - 1
    <2>1. req.wpos + w \in Nat
      BY <1>2, <1>4
    <2>. QED
      BY <1>1, <2>1, <1>2
  <1>10. s \in IoRec
    <2>1. NoIo \in IoRec
      <3>1. IoOK(NoIo, p, n)
        BY NoIoType
      <3>. QED
        BY <3>1 DEF IoOK
    <2>2. s = [NoIo EXCEPT !.w = s.w, !.data = s.data, !.echo = s.echo, !.wpos = s.wpos,
                           !.eof = rbuf /\ k = 0 /\ eof]
      BY <1>1 DEF mod_echo_io, k, all, w, s
    <2>3. s.w \in Nat
      BY <1>1, <1>4
    <2>. QED
      BY <2>1, <2>2, <2>3, <1>8, <1>9 DEF IoRec
  <1>11. s.eof => s.data = <<>>
    <2>1. s.eof => k = 0
      BY DEF mod_echo_io, NoIo, k, all, w, s
    <2>2. k = 0 => s.data = <<>>
      BY <1>8
    <2>. QED
      BY <2>1, <2>2
  <1>12. s.w <= Len(p) /\ Len(s.echo) <= RingSize /\ Len(s.data) <= n
    BY <1>1, <1>2, <1>3, <1>4, <1>6, <1>7, <1>8
  <1>13. IoOK(s, p, n)
    BY <1>10, <1>11, <1>12 DEF IoOK
  <1>. QED
    BY <1>1, <1>13 DEF s

(* A service takes and gives what the interface lets it.                   *)
LEMMA ServiceIoType ==
  ASSUME TypeOK, NEW p \in Seq(Data), NEW n \in Nat,
         NEW s \in mod_service_io(p, n), s.eof => s.data = <<>>
  PROVE  IoOK(s, p, n)
  <1>1. PICK w \in 0 .. Len(p), k \in 0 .. Least(n, MaxData - Len(made)),
             e \in BOOLEAN, u \in BOOLEAN :
          s = ServiceIo(w, k, e, u)
    BY DEF mod_service_io
  <1>2. Len(p) \in Nat /\ Len(made) \in Nat /\ MaxData \in Nat
    BY IcapRequestAssumption, SMTT(30) DEF TypeOK
  <1>3. k \in Nat /\ k <= n
    BY <1>2 DEF Least
  <1>. DEFINE d == Units(Len(made) + 1, Len(made) + k)
  <1>4. d \in Seq(Data) /\ Len(d) = k
    <2>1. Len(made) + 1 \in Int /\ Len(made) + k \in Int
      BY <1>2, <1>3
    <2>2. Len(made) + k >= Len(made) + 1 - 1 /\ Len(made) + k - (Len(made) + 1) + 1 = k
      BY <1>2, <1>3
    <2>. QED
      <3>. DEFINE a == Len(made) + 1
                  b == Len(made) + k
      <3>1. d = Units(a, b) /\ a \in Int /\ b \in Int /\ b >= a - 1 /\ b - a + 1 = k
        BY <2>1, <2>2
      <3>. HIDE DEF a, b, d
      <3>. QED
        BY <3>1, UnitsType
  <1>. HIDE DEF d
  <1>5. IoOK(NoIo, p, n)
    BY NoIoType
  <1>6. s = [NoIo EXCEPT !.w = w, !.data = d, !.eof = e, !.unlock = u]
    BY <1>1 DEF ServiceIo, d
  <1>7. NoIo \in IoRec /\ Len(NoIo.echo) <= RingSize
    BY <1>5 DEF IoOK
  <1>8. s \in IoRec
    <2>1. w \in Nat
      BY <1>2
    <2>. QED
      BY <2>1, <1>4, <1>6, <1>7 DEF IoRec
  <1>9. s.w = w /\ s.data = d /\ s.echo = NoIo.echo
    BY <1>6, <1>7 DEF IoRec
  <1>. QED
    BY <1>2, <1>3, <1>4, <1>7, <1>8, <1>9 DEF IoOK

(* One call of the service, or of what stands for it; a body that is only  *)
(* parsed gives no data and unlocks nothing.                               *)
LEMMA AnyIoType ==
  ASSUME TypeOK, NEW p \in Seq(Data), NEW n \in Nat, NEW rbuf \in BOOLEAN, NEW eof \in BOOLEAN,
         NEW s \in service_io(p, n, rbuf, eof)
  PROVE  /\ IoOK(s, p, n)
         /\ loc.parse_only => s.data = <<>> /\ s.unlock = FALSE
  <1>1. CASE loc.parse_only
    BY <1>1, NullIoType DEF service_io
  <1>2. CASE ~loc.parse_only /\ req.echoes
    BY <1>2, EchoIoType DEF service_io
  <1>3. CASE ~loc.parse_only /\ ~req.echoes
    BY <1>3, ServiceIoType DEF service_io
  <1>. QED
    BY <1>1, <1>2, <1>3

(* update_send_status puts at most one element into the block and changes  *)
(* only the state of the response.                                         *)
LEMMA UpdateType ==
  ASSUME NEW x \in ReqRec, NEW y \in update_send_status(x),
         x.status = "SEND_NOTHING" => q_.hasbody \in BOOLEAN
  PROVE  /\ y \in ReqRec /\ y.n = x.n /\ y.locked = x.locked /\ y.code = x.code
         /\ y.block = x.block \/ Len(y.block) = 1
  <1>1. CASE x.status = "SEND_NOTHING"
    <2>1. PICK b \in BOOLEAN, t \in BOOLEAN :
            y = mk_responce_header(x, b, t)
      <3>1. (IF x.echoes THEN {q_.hasbody} ELSE BOOLEAN) \subseteq BOOLEAN
        BY <1>1
      <3>. QED
        BY <1>1, <3>1 DEF update_send_status
    <2>2. <<"code", x.code>> \in Output
      BY DEF Output, ReqRec
    <2>3. <<<<"code", x.code>>>> \in Seq(Output) /\ Len(<<<<"code", x.code>>>>) = 1
      BY <2>2, OneElement
    <2>. QED
      BY <2>1, <2>3 DEF ReqRec, Statuses, mk_responce_header
  <1>2. CASE x.status = "SEND_RESPHEAD"
    <2>1. y = [x EXCEPT !.status = "SEND_HEAD1", !.block = <<<<"head", 0>>>>]
      BY <1>2 DEF update_send_status
    <2>2. <<"head", 0>> \in Output
      BY DEF Output
    <2>3. <<<<"head", 0>>>> \in Seq(Output) /\ Len(<<<<"head", 0>>>>) = 1
      BY <2>2, OneElement
    <2>. QED
      BY <2>1, <2>3 DEF ReqRec, Statuses
  <1>3. CASE x.status = "SEND_HEAD1"
    <2>1. y = [x EXCEPT !.status = IF x.respbody THEN "SEND_BODY" ELSE "SEND_EOF"]
      BY <1>3 DEF update_send_status
    <2>. QED
      BY <2>1 DEF ReqRec, Statuses
  <1>4. CASE x.status = "SEND_EOF" /\ x.block = <<>> /\ x.trailers
    <2>1. y = [x EXCEPT !.status = "SEND_TRAILERS", !.block = <<<<"trailer", 0>>>>]
      BY <1>4 DEF update_send_status
    <2>2. <<"trailer", 0>> \in Output
      BY DEF Output
    <2>3. <<<<"trailer", 0>>>> \in Seq(Output) /\ Len(<<<<"trailer", 0>>>>) = 1
      BY <2>2, OneElement
    <2>. QED
      BY <2>1, <2>3 DEF ReqRec, Statuses
  <1>5. CASE /\ x.status \notin {"SEND_NOTHING", "SEND_RESPHEAD", "SEND_HEAD1"}
             /\ ~(x.status = "SEND_EOF" /\ x.block = <<>> /\ x.trailers)
    <2>1. update_send_status(x) = {x}
      BY <1>5 DEF update_send_status
    <2>. QED
      BY <2>1
  <1>. QED
    BY <1>1, <1>2, <1>3, <1>4, <1>5

(***************************************************************************)
(* Types                                                                   *)
(***************************************************************************)
(* A status line is one more element of the response.                      *)
LEMMA CodeAppended ==
  ASSUME TypeOK, NEW c \in Int
  PROVE  Append(resp, <<"code", c>>) \in Seq(Output)
  <1>1. <<"code", c>> \in Output
    BY DEF Output
  <1>. QED
    BY <1>1, AppendProperties DEF TypeOK

(* ec_responce sets the code and the status.                               *)
LEMMA RespondedType ==
  ASSUME TypeOK, NEW x \in ReqRec, NEW ec \in Int
  PROVE  /\ StatusCode(ec) \in Int
         /\ Responded(x, ec) \in ReqRec /\ Responded(x, ec).n = x.n
         /\ Responded(x, ec).block = x.block /\ Responded(x, ec).locked = x.locked
  <1>1. StatusCode(ec) \in Int
    BY DEF StatusCode, TypeOK
  <1>. QED
    BY <1>1 DEF Responded, ReqRec, Statuses

(* A request that ends.                                                    *)
LEMMA EndsType ==
  ASSUME NEW x \in ReqRec, NEW ret \in {"CI_OK", "CI_ERROR"}, Ends(x, ret)
  PROVE  pc' = "end" /\ req' \in ReqRec /\ req'.block = x.block /\ req'.ret = ret
  BY DEF Ends, ReqRec

(* An error response ends the request.                                     *)
LEMMA ErrorType ==
  ASSUME TypeOK, NEW x \in ReqRec, NEW ec \in Int, ErrorResponse(x, ec)
  PROVE  /\ pc' = "end" /\ req' \in ReqRec /\ req'.block = x.block /\ req'.ret = "CI_ERROR"
         /\ resp' \in Seq(Output)
         /\ resp' = resp \/ resp' = Append(resp, <<"code", StatusCode(ec)>>)
  <1>. DEFINE y == Responded(x, ec)
              z == [y EXCEPT !.keepalive = FALSE]
  <1>1. StatusCode(ec) \in Int /\ y \in ReqRec /\ y.block = x.block
    BY RespondedType
  <1>. HIDE DEF y
  <1>2. z \in ReqRec /\ z.block = y.block
    BY <1>1 DEF ReqRec
  <1>3. Ends(z, "CI_ERROR")
    BY DEF ErrorResponse, y
  <1>. HIDE DEF z
  <1>4. pc' = "end" /\ req' \in ReqRec /\ req'.block = z.block /\ req'.ret = "CI_ERROR"
    BY <1>2, <1>3, EndsType
  <1>5. resp' = resp \/ resp' = Append(resp, <<"code", StatusCode(ec)>>)
    BY DEF ErrorResponse, Written
  <1>6. resp' \in Seq(Output)
    BY <1>1, <1>5, CodeAppended DEF TypeOK
  <1>. QED
    BY <1>1, <1>2, <1>4, <1>5, <1>6

(* The initial state, and a request that begins                            *)
LEMMA FreshType ==
  /\ FreshRequest \in ReqRec /\ FreshRequest.block = <<>> /\ FreshRequest.n = 0
  /\ NoLocals \in LocRec
  <1>1. 0 \in 0 .. RingSize - 1
    BY IcapRequestAssumption
  <1>2. <<>> \in Seq(Output) /\ <<>> \in Seq(Data)
    BY EmptySeq
  <1>3. FreshRequest \in ReqRec /\ FreshRequest.block = <<>> /\ FreshRequest.n = 0
    BY <1>1, <1>2 DEF FreshRequest, ReqRec, Statuses
  <1>4. NoLocals \in LocRec
    BY DEF NoLocals, LocRec, ParseResults
  <1>. QED
    BY <1>3, <1>4

(* The state when a connection begins.                                     *)
LEMMA TypeInit == Init => TypeOK
  <1>1. <<>> \in Seq(Input) /\ <<>> \in Seq(Data) /\ <<>> \in Seq(Output) /\ Len(<<>>) = 0
    BY EmptySeq
  <1>. QED
    BY <1>1, FreshType, IcapRequestAssumption DEF Init, TypeOK, Pcs

(* The client's step.                                                      *)
LEMMA TypeClient ==
  ASSUME TypeOK, NEW i \in DOMAIN Requests, ClientSends(i)
  PROVE  TypeOK'
  <1>1. wire' \in Seq(Input) /\ held' \in Seq(Input)
    BY ClientParts, ConcatProperties DEF ClientSends, TypeOK
  <1>2. asked' \in Nat
    BY DEF ClientSends, TypeOK
  <1>. QED
    BY <1>1, <1>2 DEF ClientSends, TypeOK, dataVars

(* What a read leaves of a stream of input, and what it adds.              *)
LEMMA ReadType ==
  ASSUME TypeOK, NEW n \in 0 .. Len(wire)
  PROVE  /\ SubSeq(wire, 1, n) \in Seq(Input) /\ Len(SubSeq(wire, 1, n)) = n
         /\ Drop(wire, n) \in Seq(Input)
         /\ read \o SubSeq(wire, 1, n) \in Seq(Input)
         /\ (read \o SubSeq(wire, 1, n)) \o Drop(wire, n) = read \o wire
  <1>1. /\ SubSeq(wire, 1, n) \in Seq(Input) /\ Len(SubSeq(wire, 1, n)) = n
        /\ Drop(wire, n) \in Seq(Input) /\ SubSeq(wire, 1, n) \o Drop(wire, n) = wire
    BY SplitSeq DEF TypeOK, Drop
  <1>2. read \o SubSeq(wire, 1, n) \in Seq(Input)
    BY <1>1, ConcatProperties DEF TypeOK
  <1>3. (read \o SubSeq(wire, 1, n)) \o Drop(wire, n) = read \o wire
    BY MoveFront DEF TypeOK, Drop
  <1>. QED
    BY <1>1, <1>2, <1>3

(* The fields of a request that the handlers before the body leave alone.  *)
SameFields(y, x) ==
  /\ y \in ReqRec /\ y.n = x.n /\ y.block = x.block /\ y.pending = x.pending
  /\ y.locked = x.locked /\ y.respbody = x.respbody
SameRequest(x) == SameFields(req', x)

(* Setting the code, the keep-alive flag or the result leaves them alone.  *)
WithCode(x, c) == [x EXCEPT !.code = c]
WithoutKeepalive(x) == [x EXCEPT !.keepalive = FALSE]
WithResult(x, r) == [x EXCEPT !.ret = r]
WithTrailers(x, t) == [x EXCEPT !.trailers = t]
Echoing(x) == [x EXCEPT !.echoes = TRUE, !.code = 100]

(* The code.                                                               *)
LEMMA CodeSet ==
  ASSUME NEW x \in ReqRec, NEW c \in Int
  PROVE  /\ SameFields(WithCode(x, c), x)
         /\ WithCode(x, c).code = c /\ WithCode(x, c).status = x.status
  BY DEF SameFields, ReqRec, WithCode

(* The body is to be echoed.                                               *)
LEMMA EchoSet ==
  ASSUME NEW x \in ReqRec
  PROVE  SameFields(Echoing(x), x) /\ Echoing(x).code = 100 /\ Echoing(x).status = x.status
  <1>1. Echoing(x) \in ReqRec
    <2>. DEFINE y == [x EXCEPT !.echoes = TRUE]
    <2>1. y \in ReqRec /\ Echoing(x) = WithCode(y, 100)
      BY DEF ReqRec, Echoing, WithCode
    <2>. HIDE DEF y
    <2>. QED
      BY <2>1, CodeSet DEF SameFields
  <1>2. /\ Echoing(x).n = x.n /\ Echoing(x).block = x.block /\ Echoing(x).pending = x.pending
        /\ Echoing(x).locked = x.locked /\ Echoing(x).code = 100 /\ Echoing(x).status = x.status
        /\ Echoing(x).respbody = x.respbody
    BY DEF ReqRec, Echoing
  <1>. QED
    BY <1>1, <1>2 DEF SameFields

(* The keep-alive flag.                                                    *)
LEMMA KeepaliveCleared ==
  ASSUME NEW x \in ReqRec
  PROVE  /\ SameFields(WithoutKeepalive(x), x)
         /\ WithoutKeepalive(x).code = x.code /\ WithoutKeepalive(x).status = x.status
  BY DEF SameFields, ReqRec, WithoutKeepalive

(* The result.                                                             *)
LEMMA ResultSet ==
  ASSUME NEW x \in ReqRec, NEW r \in {"CI_OK", "CI_ERROR"}
  PROVE  /\ SameFields(WithResult(x, r), x) /\ WithResult(x, r).status = x.status
         /\ WithResult(x, r).ret = r
  BY DEF SameFields, ReqRec, WithResult

(* Two requests that share these fields with a third share them.           *)
LEMMA SameTransitive ==
  ASSUME NEW x, NEW y, NEW z, SameFields(z, y), SameFields(y, x)
  PROVE  SameFields(z, x)
  BY DEF SameFields

(* ec_responce leaves these fields alone, too.                             *)
LEMMA RespondedFields ==
  ASSUME TypeOK, NEW x \in ReqRec, NEW ec \in Int
  PROVE  /\ SameFields(Responded(x, ec), x)
         /\ Responded(x, ec).status = "SEND_EOF" /\ Responded(x, ec).code = StatusCode(ec)
         /\ SameFields(WithoutKeepalive(Responded(x, ec)), x)
  <1>1. /\ SameFields(Responded(x, ec), x)
        /\ Responded(x, ec).status = "SEND_EOF" /\ Responded(x, ec).code = StatusCode(ec)
    BY RespondedType DEF SameFields, Responded, ReqRec
  <1>2. SameFields(WithoutKeepalive(Responded(x, ec)), Responded(x, ec))
    BY <1>1, KeepaliveCleared DEF SameFields
  <1>. QED
    BY <1>1, <1>2, SameTransitive

(* get_send_body begins with nothing sent.                                 *)
LEMMA BodyBegins ==
  ASSUME TypeOK, NEW x \in ReqRec, NEW b \in BOOLEAN, get_send_body(x, b)
  PROVE  /\ pc' = "wait" /\ SameRequest(x)
         /\ req'.status = "SEND_NOTHING" /\ req'.code = x.code
         /\ loc' \in LocRec /\ loc'.parse_only = b
  <1>. DEFINE a == IF read = <<>> THEN {"read"} ELSE {}
  <1>1. a \in SUBSET {"read", "write"}
    OBVIOUS
  <1>. HIDE DEF a
  <1>2. loc' = [NoLocals EXCEPT !.parse_only = b, !.action = a]
    BY DEF get_send_body, a
  <1>3. loc' \in LocRec /\ loc'.parse_only = b
    BY <1>1, <1>2, FreshType DEF LocRec
  <1>4. req' = [x EXCEPT !.status = "SEND_NOTHING"] /\ pc' = "wait"
    BY DEF get_send_body
  <1>. QED
    BY <1>3, <1>4 DEF SameRequest, SameFields, ReqRec, Statuses

(* What do_request does after the preview handler.                         *)
Proceeded(x, e) ==
  \/ /\ pc' = "end" /\ loc' = loc /\ (IF e THEN 200 ELSE x.code) = 204
  \/ /\ pc' = "wait" /\ loc' \in LocRec /\ loc'.parse_only = FALSE
     /\ req'.status = "SEND_NOTHING" /\ req'.code = 200
  \/ /\ pc' = "end_of_data" /\ loc' = loc /\ req'.status = x.status
     /\ req'.code = (IF e THEN 200 ELSE x.code)

(* It begins with the body, with the end-of-data handler, or ends.         *)
LEMMA ProceedOutcome ==
  ASSUME TypeOK, NEW x \in ReqRec, NEW e \in BOOLEAN, Proceed(x, e)
  PROVE  SameRequest(x) /\ Proceeded(x, e)
  <1>. DEFINE code == IF e THEN 200 ELSE x.code
  <1>1. code \in Int
    BY DEF ReqRec
  <1>. HIDE DEF code
  <1>2. CASE code = 204
    <2>1. Ends(x, "CI_OK") /\ loc' = loc
      BY <1>2 DEF Proceed, code, Ends, get_send_body
    <2>. QED
      BY <1>2, <2>1 DEF SameRequest, SameFields, Ends, ReqRec, Proceeded, code
  <1>3. CASE code = 100 /\ q_.hasbody
    <2>. DEFINE y == [x EXCEPT !.code = 200]
    <2>1. get_send_body(y, FALSE)
      BY <1>3 DEF Proceed, code, get_send_body
    <2>2. y \in ReqRec /\ y.n = x.n /\ y.block = x.block /\ y.pending = x.pending
          /\ y.locked = x.locked /\ y.code = 200 /\ y.respbody = x.respbody
      BY SMTT(40) DEF ReqRec
    <2>. HIDE DEF y
    <2>. QED
      BY <2>1, <2>2, BodyBegins DEF SameRequest, SameFields, Proceeded
  <1>4. CASE code # 204 /\ ~(code = 100 /\ q_.hasbody)
    <2>1. pc' = "end_of_data" /\ req' = [x EXCEPT !.code = code] /\ loc' = loc
      BY <1>4, Zenon DEF Proceed, code
    <2>2. SameRequest(x) /\ req'.status = x.status /\ req'.code = code
      BY <1>1, <2>1 DEF SameRequest, SameFields, ReqRec
    <2>. QED
      BY <1>4, <2>1, <2>2 DEF code, Proceeded
  <1>. QED
    BY <1>2, <1>3, <1>4

(* Where a request goes from the preview handler.                          *)
AfterPreview ==
  \/ /\ pc' = "end" /\ loc' = loc /\ req'.ret = "CI_ERROR"
     /\ resp' = resp \/ \E c \in Int : resp' = Append(resp, <<"code", c>>)
  \/ /\ pc' = "end" /\ loc' = loc /\ req'.status = "SEND_EOF"
     /\ \E c \in Int \ {100} : resp' = Append(resp, <<"code", c>>)
  \/ /\ pc' = "wait" /\ loc' \in LocRec /\ loc'.parse_only = FALSE
     /\ req'.status = "SEND_NOTHING" /\ req'.code = 200
     /\ resp' = resp \/ resp' = Append(resp, <<"code", 100>>)
  \/ /\ pc' = "wait" /\ loc' \in LocRec /\ loc'.parse_only = TRUE
     /\ req'.status = "SEND_NOTHING" /\ (EagerServices \/ req'.locked)
     /\ \E c \in Int \ {100} : resp' = Append(resp, <<"code", c>>)
  \/ /\ pc' = "end_of_data" /\ loc' = loc /\ req'.code # 100
     /\ \/ resp' = resp /\ req'.status = req.status
        \/ req'.status = "SEND_EOF" /\ resp' = Append(resp, <<"code", 200>>)

(* A "204" was written: without more to do, or, as a "200", with a body of *)
(* length zero that is still to come.                                      *)
LEMMA RespondedProceeds ==
  ASSUME TypeOK, NEW x \in ReqRec, Written(204), Proceed(Responded(x, 204), FALSE)
  PROVE  SameRequest(x) /\ AfterPreview
  <1>. DEFINE y == Responded(x, 204)
  <1>1. SameFields(y, x) /\ y.status = "SEND_EOF" /\ y.code = StatusCode(204)
    BY RespondedFields
  <1>. HIDE DEF y
  <1>2. StatusCode(204) = 200 \/ StatusCode(204) = 204
    BY DEF StatusCode
  <1>3. resp' = Append(resp, <<"code", StatusCode(204)>>)
    BY DEF Written
  <1>4. Proceed(y, FALSE)
    BY DEF y
  <1>5. SameRequest(y)
    BY <1>1, <1>4, ProceedOutcome DEF SameFields
  <1>6. SameRequest(x)
    BY <1>1, <1>5 DEF SameFields, SameRequest
  <1>7. CASE StatusCode(204) = 204
    <2>1. pc' = "end" /\ loc' = loc /\ req' = WithResult(y, "CI_OK")
      BY <1>1, <1>4, <1>7 DEF Proceed, Ends, get_send_body, WithResult
    <2>2. req'.status = "SEND_EOF"
      BY <1>1, <2>1, ResultSet DEF SameFields
    <2>3. 204 \in Int \ {100}
      OBVIOUS
    <2>. QED
      BY <1>3, <1>6, <1>7, <2>1, <2>2, <2>3 DEF AfterPreview
  <1>8. CASE StatusCode(204) = 200
    <2>1. pc' = "end_of_data" /\ loc' = loc /\ req' = [y EXCEPT !.code = 200]
      BY <1>1, <1>4, <1>8 DEF Proceed, Ends, get_send_body
    <2>2. req'.code = 200 /\ req'.status = "SEND_EOF"
      BY <1>1, <2>1 DEF SameFields, ReqRec
    <2>. QED
      BY <1>3, <1>6, <1>8, <2>1, <2>2 DEF AfterPreview
  <1>. QED
    BY <1>2, <1>7, <1>8

(* The response could not be sent.                                         *)
LEMMA EndsOutcome ==
  ASSUME TypeOK, NEW x \in ReqRec, NEW y, SameFields(y, x), Ends(y, "CI_ERROR"),
         UNCHANGED <<resp, loc>>
  PROVE  SameRequest(x) /\ AfterPreview
  <1>1. pc' = "end" /\ req' = WithResult(y, "CI_ERROR") /\ y \in ReqRec
    BY DEF Ends, WithResult, SameFields
  <1>2. SameRequest(x) /\ req'.ret = "CI_ERROR"
    BY <1>1, ResultSet, SameTransitive DEF SameRequest
  <1>. QED
    BY <1>1, <1>2 DEF AfterPreview

(* An error response.                                                      *)
LEMMA ErrorOutcome ==
  ASSUME TypeOK, NEW x \in ReqRec, NEW ec \in Int, ErrorResponse(x, ec), UNCHANGED loc
  PROVE  SameRequest(x) /\ AfterPreview
  <1>. DEFINE y == WithoutKeepalive(Responded(x, ec))
  <1>1. SameFields(y, x) /\ StatusCode(ec) \in Int
    BY RespondedFields, RespondedType
  <1>2. pc' = "end" /\ req' = WithResult(y, "CI_ERROR")
    BY DEF ErrorResponse, Ends, WithResult, WithoutKeepalive
  <1>. HIDE DEF y
  <1>3. SameRequest(x) /\ req'.ret = "CI_ERROR"
    BY <1>1, <1>2, ResultSet, SameTransitive DEF SameFields, SameRequest
  <1>4. resp' = resp \/ resp' = Append(resp, <<"code", StatusCode(ec)>>)
    BY DEF ErrorResponse, Written
  <1>. QED
    BY <1>1, <1>2, <1>3, <1>4 DEF AfterPreview

(* The body is read, after "100 Continue" or because it is on its way.     *)
LEMMA ContinueOutcome ==
  ASSUME TypeOK, NEW x \in ReqRec, NEW y, SameFields(y, x), y.code = 100,
         Proceed(y, FALSE), q_.hasbody,
         resp' = resp \/ resp' = Append(resp, <<"code", 100>>)
  PROVE  SameRequest(x) /\ AfterPreview
  <1>1. SameFields(y, x) /\ y.code = 100 /\ y \in ReqRec
    BY DEF SameFields
  <1>2. get_send_body(WithCode(y, 200), FALSE)
    BY <1>1 DEF Proceed, Ends, get_send_body, WithCode
  <1>. DEFINE z == WithCode(y, 200)
  <1>3. SameFields(z, x) /\ z.code = 200 /\ z \in ReqRec
    <2>1. SameFields(z, y) /\ z.code = 200
      BY <1>1, CodeSet
    <2>2. z \in ReqRec
      BY <2>1 DEF SameFields
    <2>. QED
      BY <1>1, <2>1, <2>2, SameTransitive
  <1>. HIDE DEF z
  <1>4. /\ pc' = "wait" /\ SameRequest(z) /\ loc' \in LocRec /\ loc'.parse_only = FALSE
        /\ req'.status = "SEND_NOTHING" /\ req'.code = 200
    BY <1>2, <1>3, BodyBegins DEF z
  <1>5. SameRequest(x)
    BY <1>3, <1>4, SameTransitive DEF SameRequest
  <1>. QED
    BY <1>4, <1>5 DEF AfterPreview

(* The end-of-data handler is next, or the request is over.                *)
LEMMA ProceedsSilently ==
  ASSUME TypeOK, NEW x \in ReqRec, NEW y, NEW e \in BOOLEAN, Proceed(y, e), resp' = resp,
         SameFields(y, x), y.status = x.status, x.status = req.status,
         e = TRUE \/ y.code \in {200, 206}
  PROVE  SameRequest(x) /\ AfterPreview
  <1>1. y \in ReqRec
    BY DEF SameFields
  <1>2. SameRequest(y) /\ Proceeded(y, e)
    BY <1>1, ProceedOutcome
  <1>3. SameRequest(x)
    BY <1>2, SameTransitive DEF SameRequest
  <1>4. (IF e THEN 200 ELSE y.code) # 100
    OBVIOUS
  <1>. QED
    BY <1>2, <1>3, <1>4 DEF Proceeded, AfterPreview

(* A handler called with a preview.                                        *)
LEMMA PreviewOutcome ==
  ASSUME TypeOK, NEW x \in ReqRec, NEW answer, do_request_preview(x, answer),
         x.status = req.status
  PROVE  /\ SameRequest(x) /\ AfterPreview /\ echo' = echo
         /\ (wire' = wire /\ held' = held) \/ (wire' = wire \o held /\ held' = <<>>)
  <1>. DEFINE y1 == Responded(x, 204)
              y2 == WithoutKeepalive(y1)
  <1>1. \/ UNCHANGED <<wire, held, echo>> /\ Written(204) /\ Proceed(y1, FALSE)
        \/ UNCHANGED <<wire, held, echo>> /\ Ends(y2, "CI_ERROR") /\ UNCHANGED <<resp, loc>>
        \/ Proceed(WithCode(x, 206), FALSE) /\ UNCHANGED <<wire, held, echo, resp>>
        \/ Proceed(x, TRUE) /\ UNCHANGED <<wire, held, echo, resp>>
        \/ /\ q_.hasbody /\ Proceed(WithCode(x, 100), FALSE)
           /\ \/ /\ resp' = Append(resp, <<"code", 100>>)
                 /\ wire' = wire \o held /\ held' = <<>>
              \/ UNCHANGED <<wire, held, resp>>
           /\ UNCHANGED echo
        \/ ErrorResponse(x, 500) /\ UNCHANGED <<wire, held, echo, loc>>
    BY DEF do_request_preview, WithCode, WithoutKeepalive
  <1>. HIDE DEF y1, y2
  <1>2. ASSUME Written(204), Proceed(y1, FALSE) PROVE SameRequest(x) /\ AfterPreview
    BY <1>2, RespondedProceeds DEF y1
  <1>3. ASSUME Ends(y2, "CI_ERROR"), UNCHANGED <<resp, loc>>
        PROVE  SameRequest(x) /\ AfterPreview
    <2>1. SameFields(y2, x)
      BY RespondedFields DEF y1, y2
    <2>. QED
      BY <1>3, <2>1, EndsOutcome
  <1>4. ASSUME q_.hasbody, Proceed(WithCode(x, 100), FALSE),
               resp' = resp \/ resp' = Append(resp, <<"code", 100>>)
        PROVE  SameRequest(x) /\ AfterPreview
    <2>. DEFINE y == WithCode(x, 100)
    <2>1. SameFields(y, x) /\ y.code = 100
      BY CodeSet
    <2>. HIDE DEF y
    <2>2. Proceed(y, FALSE)
      BY <1>4 DEF y
    <2>. QED
      BY <1>4, <2>1, <2>2, ContinueOutcome
  <1>5. ASSUME ErrorResponse(x, 500), UNCHANGED loc PROVE SameRequest(x) /\ AfterPreview
    BY <1>5, ErrorOutcome
  <1>6. ASSUME Proceed(WithCode(x, 206), FALSE), UNCHANGED resp
        PROVE  SameRequest(x) /\ AfterPreview
    <2>. DEFINE y == WithCode(x, 206)
    <2>1. SameFields(y, x) /\ y.status = x.status /\ y.code = 206
      BY CodeSet
    <2>. HIDE DEF y
    <2>2. Proceed(y, FALSE) /\ resp' = resp
      BY <1>6 DEF y
    <2>. QED
      BY <2>1, <2>2, ProceedsSilently
  <1>7. ASSUME Proceed(x, TRUE), UNCHANGED resp PROVE SameRequest(x) /\ AfterPreview
    <2>1. SameFields(x, x)
      BY DEF SameFields
    <2>. QED
      BY <1>7, <2>1, ProceedsSilently
  <1>8. SameRequest(x) /\ AfterPreview
    BY <1>1, <1>2, <1>3, <1>4, <1>5, <1>6, <1>7
  <1>9. echo' = echo /\ ((wire' = wire /\ held' = held) \/ (wire' = wire \o held /\ held' = <<>>))
    BY <1>1
  <1>. QED
    BY <1>8, <1>9

(* A "204" to a request whose body is on its way: the body is only parsed. *)
LEMMA AllowOutcome ==
  ASSUME TypeOK, NEW x \in ReqRec, Written(204), EagerServices \/ x.locked,
         get_send_body(Responded(x, 204), TRUE)
  PROVE  SameRequest(x) /\ AfterPreview
  <1>. DEFINE y == Responded(x, 204)
  <1>1. SameFields(y, x) /\ StatusCode(204) \in Int \ {100}
    BY RespondedFields DEF StatusCode
  <1>2. get_send_body(y, TRUE)
    OBVIOUS
  <1>. HIDE DEF y
  <1>3. y \in ReqRec
    BY <1>1 DEF SameFields
  <1>4. /\ pc' = "wait" /\ SameRequest(y) /\ req'.status = "SEND_NOTHING"
        /\ loc' \in LocRec /\ loc'.parse_only = TRUE
    BY <1>2, <1>3, BodyBegins
  <1>5. SameRequest(x)
    BY <1>1, <1>4, SameTransitive DEF SameRequest
  <1>6. EagerServices \/ req'.locked
    BY <1>5 DEF SameRequest, SameFields
  <1>7. resp' = Append(resp, <<"code", StatusCode(204)>>)
    BY DEF Written
  <1>. QED
    BY <1>1, <1>4, <1>5, <1>6, <1>7 DEF AfterPreview

(* A "204" to a request without a body.                                    *)
LEMMA AllowNoBodyOutcome ==
  ASSUME TypeOK, NEW x \in ReqRec, Written(204),
         Ends(WithCode(Responded(x, 204), 204), "CI_OK"), UNCHANGED loc
  PROVE  SameRequest(x) /\ AfterPreview
  <1>. DEFINE y == Responded(x, 204)
              z == WithCode(y, 204)
  <1>1. SameFields(y, x) /\ y.status = "SEND_EOF" /\ StatusCode(204) \in Int \ {100}
    BY RespondedFields DEF StatusCode
  <1>2. pc' = "end" /\ req' = WithResult(z, "CI_OK")
    BY DEF Ends, WithResult
  <1>. HIDE DEF y
  <1>3. SameFields(z, y) /\ z.status = "SEND_EOF"
    BY <1>1, CodeSet, SMTT(30) DEF SameFields
  <1>. HIDE DEF z
  <1>4. SameFields(req', z) /\ req'.status = "SEND_EOF"
    BY <1>2, <1>3, ResultSet DEF SameFields
  <1>5. SameRequest(x)
    BY <1>1, <1>3, <1>4, SameTransitive DEF SameRequest
  <1>6. resp' = Append(resp, <<"code", StatusCode(204)>>)
    BY DEF Written
  <1>. QED
    BY <1>1, <1>2, <1>4, <1>5, <1>6 DEF AfterPreview

(* A handler called without a preview.                                     *)
LEMMA FakePreviewOutcome ==
  ASSUME TypeOK, NEW x \in ReqRec, NEW answer, do_fake_preview(x, answer),
         x.status = req.status
  PROVE  SameRequest(x) /\ AfterPreview /\ echo' = echo /\ wire' = wire /\ held' = held
  <1>. DEFINE y1 == Responded(x, 204)
              y2 == WithoutKeepalive(y1)
              y3 == WithCode(y1, 204)
              y4 == Echoing(x)
  <1>1. \/ /\ EagerServices \/ x.locked
           /\ \/ Written(204) /\ get_send_body(y1, TRUE)
              \/ Written(204) /\ Ends(y3, "CI_OK") /\ UNCHANGED loc
              \/ Ends(y2, "CI_ERROR") /\ UNCHANGED <<resp, loc>>
        \/ q_.hasbody /\ Proceed(y4, FALSE) /\ UNCHANGED resp
        \/ q_.hasbody /\ Proceed(WithCode(x, 100), FALSE) /\ UNCHANGED resp
        \/ Proceed(WithCode(x, 200), FALSE) /\ UNCHANGED resp
        \/ Proceed(WithCode(x, 206), FALSE) /\ UNCHANGED resp
        \/ ErrorResponse(x, 500) /\ UNCHANGED loc
    BY ZenonT(40) DEF do_fake_preview, WithCode, WithoutKeepalive, Echoing
  <1>2. wire' = wire /\ held' = held /\ echo' = echo
    BY DEF do_fake_preview
  <1>. HIDE DEF y1, y2, y3, y4
  <1>3. ASSUME Written(204), EagerServices \/ x.locked, get_send_body(y1, TRUE)
        PROVE  SameRequest(x) /\ AfterPreview
    BY <1>3, AllowOutcome DEF y1
  <1>4. ASSUME Written(204), Ends(y3, "CI_OK"), UNCHANGED loc
        PROVE  SameRequest(x) /\ AfterPreview
    BY <1>4, AllowNoBodyOutcome DEF y1, y3
  <1>5. ASSUME Ends(y2, "CI_ERROR"), UNCHANGED <<resp, loc>>
        PROVE  SameRequest(x) /\ AfterPreview
    <2>1. SameFields(y2, x)
      BY RespondedFields DEF y1, y2
    <2>. QED
      BY <1>5, <2>1, EndsOutcome
  <1>6. ASSUME NEW y, SameFields(y, x), y.code = 100, q_.hasbody, Proceed(y, FALSE),
               UNCHANGED resp
        PROVE  SameRequest(x) /\ AfterPreview
    BY <1>6, ContinueOutcome
  <1>7. ASSUME NEW c \in {200, 206}, Proceed(WithCode(x, c), FALSE), UNCHANGED resp
        PROVE  SameRequest(x) /\ AfterPreview
    <2>. DEFINE y == WithCode(x, c)
    <2>1. SameFields(y, x) /\ y.status = x.status /\ y.code \in {200, 206}
      <3>1. c \in Int
        OBVIOUS
      <3>. QED
        BY <3>1, CodeSet
    <2>. HIDE DEF y
    <2>2. Proceed(y, FALSE) /\ resp' = resp
      BY <1>7 DEF y
    <2>. QED
      BY <2>1, <2>2, ProceedsSilently
  <1>8. ASSUME q_.hasbody, Proceed(y4, FALSE), UNCHANGED resp
        PROVE  SameRequest(x) /\ AfterPreview
    <2>1. SameFields(y4, x) /\ y4.code = 100
      BY EchoSet DEF y4
    <2>. QED
      BY <1>6, <1>8, <2>1
  <1>9. ASSUME q_.hasbody, Proceed(WithCode(x, 100), FALSE), UNCHANGED resp
        PROVE  SameRequest(x) /\ AfterPreview
    <2>1. SameFields(WithCode(x, 100), x) /\ WithCode(x, 100).code = 100
      BY CodeSet
    <2>. QED
      BY <1>6, <1>9, <2>1
  <1>10. ASSUME ErrorResponse(x, 500), UNCHANGED loc PROVE SameRequest(x) /\ AfterPreview
    BY <1>10, ErrorOutcome
  <1>11. SameRequest(x) /\ AfterPreview
    BY <1>1, <1>3, <1>4, <1>5, <1>7, <1>8, <1>9, <1>10
  <1>. QED
    BY <1>2, <1>11

(* The preview handler, with or without a preview; it may unlock.          *)
LEMMA HandlerOutcome ==
  ASSUME TypeOK, PreviewHandler
  PROVE  /\ pc = "preview" /\ AfterPreview /\ UNCHANGED <<conf, asked, read, dataVars>>
         /\ (wire' = wire /\ held' = held) \/ (wire' = wire \o held /\ held' = <<>>)
         /\ req' \in ReqRec /\ req'.n = req.n /\ req'.block = req.block
         /\ req'.pending = req.pending /\ req'.respbody = req.respbody
  <1>1. PICK answer \in Answers, unlock \in BOOLEAN :
          LET x == [req EXCEPT !.locked = req.locked /\ ~unlock] IN
            IF q_.preview >= 0 THEN do_request_preview(x, answer) ELSE do_fake_preview(x, answer)
    BY DEF PreviewHandler
  <1>. DEFINE x == [req EXCEPT !.locked = req.locked /\ ~unlock]
  <1>2. x \in ReqRec /\ x.n = req.n /\ x.block = req.block /\ x.pending = req.pending
        /\ x.status = req.status /\ x.respbody = req.respbody
    BY DEF ReqRec, TypeOK
  <1>3. do_request_preview(x, answer) \/ do_fake_preview(x, answer)
    BY <1>1
  <1>. HIDE DEF x
  <1>4. /\ SameRequest(x) /\ AfterPreview /\ echo' = echo
        /\ (wire' = wire /\ held' = held) \/ (wire' = wire \o held /\ held' = <<>>)
    BY <1>2, <1>3, PreviewOutcome, FakePreviewOutcome
  <1>5. pc = "preview" /\ UNCHANGED <<conf, asked, read, dataVars>>
    BY <1>4, SMTT(40) DEF PreviewHandler, dataVars
  <1>. QED
    BY <1>2, <1>4, <1>5 DEF SameRequest, SameFields

(* The header of a request has been read, or the request is refused.       *)
LEMMA HeaderOutcome ==
  ASSUME TypeOK, ReadRequest
  PROVE  /\ pc = "header" /\ UNCHANGED <<conf, asked, held, loc, dataVars>>
         /\ wire' \in Seq(Input) /\ read' \in Seq(Input)
         /\ req' \in ReqRec /\ req'.block = req.block
         /\ \/ /\ pc' \in {"options", "read_preview", "preview"} /\ resp' = resp
               /\ req'.n \in DOMAIN Requests /\ req'.status = req.status
               /\ req'.respbody = req.respbody
               /\ pc' = "options" => Requests[req'.n].options
            \/ /\ pc' = "end" /\ resp' \in Seq(Output) /\ req'.ret = "CI_ERROR"
               /\ resp' = resp \/ \E c \in Int : resp' = Append(resp, <<"code", c>>)
  <1>. DEFINE data(n) == read \o SubSeq(wire, 1, n)
              wf(n) == data(n)[1][1] = "header"
              h(n) == IF wf(n) THEN data(n)[1][2] ELSE 0
              x(n) == [req EXCEPT !.n = h(n), !.keepalive = wf(n) /\ ~Requests[h(n)].close]
  <1>1. pc = "header" /\ UNCHANGED <<conf, asked, held, loc, dataVars>>
    BY SMTT(30) DEF ReadRequest
  <1>2. PICK n \in 0 .. Len(wire) :
          /\ (n = 0) <=> (read # <<>>)
          /\ wire' = Drop(wire, n) /\ read' = Tail(data(n))
          /\ \/ /\ wf(n) /\ req' = x(n) /\ UNCHANGED resp
                /\ pc' = IF Requests[h(n)].options THEN "options"
                         ELSE IF Requests[h(n)].preview >= 0 /\ Requests[h(n)].hasbody
                           THEN "read_preview" ELSE "preview"
             \/ \E ec \in {400, 403, 500} : ErrorResponse(x(n), ec)
    BY DEF ReadRequest
  <1>3. data(n) \in Seq(Input) /\ data(n) # <<>> /\ wire' \in Seq(Input)
    <2>1. /\ SubSeq(wire, 1, n) \in Seq(Input) /\ Len(SubSeq(wire, 1, n)) = n
          /\ Drop(wire, n) \in Seq(Input) /\ data(n) \in Seq(Input)
      BY ReadType
    <2>2. Len(data(n)) = Len(read) + n
      <3>1. read \in Seq(Input)
        BY DEF TypeOK
      <3>. DEFINE w == SubSeq(wire, 1, n)
      <3>2. w \in Seq(Input) /\ Len(w) = n
        BY <2>1
      <3>. HIDE DEF w
      <3>3. Len(read \o w) = Len(read) + Len(w)
        BY <3>1, <3>2, ConcatProperties
      <3>. QED
        BY <3>2, <3>3 DEF w
    <2>3. read # <<>> => Len(read) > 0
      BY EmptySeq DEF TypeOK
    <2>4. Len(read) \in Nat
      BY DEF TypeOK
    <2>5. Len(data(n)) # 0
      BY <1>2, <2>2, <2>3, <2>4
    <2>. QED
      BY <1>2, <2>1, <2>5
  <1>4. data(n)[1] \in Input
    BY <1>3
  <1>5. wf(n) => data(n)[1][2] \in DOMAIN Requests
    <2>. DEFINE t == data(n)[1]
    <2>1. t \in Input
      BY <1>4
    <2>. HIDE DEF t
    <2>2. t[1] = "header" => t[2] \in DOMAIN Requests
      BY <2>1 DEF Input
    <2>. QED
      BY <2>2 DEF t
  <1>. DEFINE y == x(n)
  <1>6. /\ y \in ReqRec /\ y.block = req.block /\ y.status = req.status /\ y.n = h(n)
        /\ y.respbody = req.respbody
    <2>. DEFINE k == wf(n) /\ ~Requests[h(n)].close
    <2>1. h(n) \in DOMAIN Requests \cup {0} /\ k \in BOOLEAN
      BY <1>5
    <2>2. y = [req EXCEPT !.n = h(n), !.keepalive = k]
      BY SMTT(40)
    <2>. HIDE DEF k, y, h
    <2>. QED
      BY <2>1, <2>2 DEF ReqRec, TypeOK
  <1>7. read' \in Seq(Input)
    BY <1>2, <1>3, HeadTailProperties
  <1>8. CASE wf(n) /\ req' = y /\ UNCHANGED resp
              /\ pc' \in {"options", "read_preview", "preview"}
              /\ (pc' = "options" => Requests[h(n)].options)
    BY <1>1, <1>3, <1>5, <1>6, <1>7, <1>8
  <1>9. CASE \E ec \in {400, 403, 500} : ErrorResponse(y, ec)
    <2>1. PICK ec \in {400, 403, 500} : ErrorResponse(y, ec)
      BY <1>9
    <2>2. ec \in Int
      OBVIOUS
    <2>. HIDE DEF y
    <2>3. /\ pc' = "end" /\ req' \in ReqRec /\ req'.block = y.block /\ resp' \in Seq(Output)
          /\ resp' = resp \/ resp' = Append(resp, <<"code", StatusCode(ec)>>)
          /\ StatusCode(ec) \in Int /\ req'.ret = "CI_ERROR"
      <3>1. y \in ReqRec
        BY <1>6
      <3>2. StatusCode(ec) \in Int
        BY <2>2, <3>1, RespondedType
      <3>3. /\ pc' = "end" /\ req' \in ReqRec /\ req'.block = y.block /\ req'.ret = "CI_ERROR"
            /\ resp' \in Seq(Output)
            /\ resp' = resp \/ resp' = Append(resp, <<"code", StatusCode(ec)>>)
        BY <2>1, <2>2, <3>1, ErrorType
      <3>. QED
        BY <3>2, <3>3
    <2>4. req'.block = req.block
      BY <1>6, <2>3
    <2>5. resp' = resp \/ \E c \in Int : resp' = Append(resp, <<"code", c>>)
      BY <2>3
    <2>. QED
      BY <1>1, <1>3, <1>7, <2>3, <2>4, <2>5
  <1>. HIDE DEF y
  <1>10. CASE /\ wf(n) /\ req' = y /\ UNCHANGED resp
              /\ pc' = IF Requests[h(n)].options THEN "options"
                       ELSE IF Requests[h(n)].preview >= 0 /\ Requests[h(n)].hasbody
                         THEN "read_preview" ELSE "preview"
    <2>1. /\ pc' \in {"options", "read_preview", "preview"}
          /\ (pc' = "options" => Requests[h(n)].options)
      BY <1>10, ZenonT(40)
    <2>. QED
      BY <1>8, <1>10, <2>1, ZenonT(40)
  <1>. QED
    BY <1>2, <1>9, <1>10, ZenonT(40) DEF y

(* The results of get_send_body.                                           *)
LEMMA BodyDoneOutcome ==
  ASSUME TypeOK, NEW x \in ReqRec, BodyDone(x) \/ BodyError(x)
  PROVE  /\ req' \in ReqRec /\ req'.block = x.block /\ req'.n = x.n
         /\ \/ pc' = "end" /\ req'.ret = "CI_ERROR"
            \/ /\ pc' = "end" /\ loc.parse_only = TRUE
               /\ req'.status = x.status /\ req'.respbody = x.respbody
            \/ pc' = "end_of_data" /\ req' = x /\ loc.parse_only = FALSE
         /\ BodyError(x) => req'.ret = "CI_ERROR"
  <1>0. loc.parse_only \in BOOLEAN /\ x.eof \in BOOLEAN /\ x.keepalive \in BOOLEAN
    BY DEF TypeOK, LocRec, ReqRec
  <1>1. CASE BodyDone(x) /\ ~BodyError(x)
    <2>1. CASE x.eof /\ ~loc.parse_only
      BY <1>0, <1>1, <2>1 DEF BodyDone, Ends
    <2>2. CASE x.eof /\ loc.parse_only
      <3>1. Ends(WithCode(x, 204), "CI_OK")
        BY <1>1, <2>2 DEF BodyDone, WithCode, Ends
      <3>2. SameFields(WithCode(x, 204), x) /\ WithCode(x, 204).status = x.status
        BY CodeSet
      <3>. QED
        BY <1>0, <1>1, <2>2, <3>1, <3>2, ResultSet, ZenonT(40) DEF Ends, SameFields, WithResult
    <2>3. CASE ~x.eof /\ loc.parse_only
      <3>1. Ends(x, "CI_ERROR")
        BY <1>1, <2>3 DEF BodyDone, Ends
      <3>. QED
        BY <1>1, <3>1, ResultSet DEF Ends, SameFields, WithResult
    <2>4. CASE ~x.eof /\ ~loc.parse_only
      <3>1. Ends(WithoutKeepalive(x), "CI_ERROR")
        BY <1>1, <2>4 DEF BodyDone, WithoutKeepalive, Ends
      <3>2. SameFields(WithoutKeepalive(x), x)
        BY KeepaliveCleared
      <3>. QED
        BY <1>1, <3>1, <3>2, ResultSet DEF Ends, SameFields, WithResult
    <2>. QED
      BY <2>1, <2>2, <2>3, <2>4
  <1>2. CASE BodyError(x)
    <2>. DEFINE k == loc.parse_only /\ x.keepalive
                y == [x EXCEPT !.keepalive = k]
    <2>1. k \in BOOLEAN
      BY <1>0
    <2>2. Ends(y, "CI_ERROR")
      BY <1>2 DEF BodyError
    <2>. HIDE DEF k
    <2>3. y \in ReqRec /\ y.block = x.block /\ y.n = x.n
      BY <2>1 DEF ReqRec
    <2>. HIDE DEF y
    <2>. QED
      BY <2>2, <2>3, ResultSet DEF Ends, SameFields, WithResult
  <1>. QED
    BY <1>1, <1>2

(* Writing to the client moves the front of the block to what is written.  *)
LEMMA SendOutcome ==
  ASSUME TypeOK, NEW x \in ReqRec, NEW n, send_current_block_data(x, n)
  PROVE  /\ req' \in ReqRec /\ req'.n = x.n /\ req'.status = x.status /\ req'.code = x.code
         /\ req'.locked = x.locked /\ req'.pending = x.pending /\ req'.respbody = x.respbody
         /\ resp' \in Seq(Output) /\ resp' \o req'.block = resp \o x.block
         /\ x.block = <<>> => req'.block = <<>>
         /\ Len(req'.block) <= Len(x.block)
  <1>1. /\ n \in 0 .. Len(x.block) /\ resp' = resp \o SubSeq(x.block, 1, n)
        /\ req' = [x EXCEPT !.block = Drop(x.block, n)]
    BY DEF send_current_block_data
  <1>2. x.block \in Seq(Output) /\ Len(x.block) \in Nat /\ resp \in Seq(Output)
    BY DEF ReqRec, TypeOK
  <1>. DEFINE d == Drop(x.block, n)
  <1>3. /\ SubSeq(x.block, 1, n) \in Seq(Output) /\ d \in Seq(Output)
        /\ Len(d) = Len(x.block) - n
    BY <1>1, <1>2, SplitSeq DEF Drop
  <1>4. (resp \o SubSeq(x.block, 1, n)) \o d = resp \o x.block
    BY <1>1, <1>2, MoveFront DEF Drop
  <1>5. x.block = <<>> => d = <<>>
    <2>1. ASSUME x.block = <<>> PROVE Len(d) = 0
      BY <1>1, <1>3, <2>1
    <2>. HIDE DEF d
    <2>. QED
      BY <2>1, <1>3
  <1>6. resp' \in Seq(Output)
    BY <1>1, <1>2, <1>3, ConcatProperties
  <1>. HIDE DEF d
  <1>7. req' = [x EXCEPT !.block = d]
    BY <1>1 DEF d
  <1>8. /\ req' \in ReqRec /\ req'.n = x.n /\ req'.status = x.status /\ req'.code = x.code
        /\ req'.locked = x.locked /\ req'.pending = x.pending /\ req'.block = d
        /\ req'.respbody = x.respbody
    BY <1>3, <1>7 DEF ReqRec
  <1>9. resp' \o req'.block = resp \o x.block
    <2>1. resp' = resp \o SubSeq(x.block, 1, n)
      BY <1>1
    <2>. QED
      BY <1>4, <1>8, <2>1
  <1>10. Len(req'.block) <= Len(x.block)
    BY <1>1, <1>2, <1>3, <1>8
  <1>. QED
    BY <1>5, <1>6, <1>8, <1>9, <1>10

(* The request in progress is one of the client's.                         *)
LEMMA CurrentRequest ==
  ASSUME TypeOK, pc \notin {"header", "end", "closed"}
  PROVE  req.n \in DOMAIN Requests /\ IsRequest(q_) /\ q_.hasbody \in BOOLEAN
  <1>1. req.n \in DOMAIN Requests
    BY DEF TypeOK
  <1>. QED
    BY <1>1, IcapRequestAssumption DEF q_, IsRequest

(* The data that have been moved are data.                                 *)
LEMMA MovedType ==
  ASSUME NEW x \in ReqRec
  PROVE  /\ Moved(x) \in ReqRec /\ Moved(x).n = x.n /\ Moved(x).block = x.block
         /\ Moved(x).status = x.status /\ Moved(x).code = x.code /\ Moved(x).locked = x.locked
         /\ Moved(x).respbody = x.respbody
         /\ x.pending = <<>> => Moved(x).pending = <<>>
  <1>. DEFINE p == [i \in DOMAIN x.pending |-> <<"data", 0>>]
  <1>1. x.pending \in Seq(Data)
    BY DEF ReqRec
  <1>2. DOMAIN x.pending = 1 .. Len(x.pending) /\ Len(x.pending) \in Nat
    BY <1>1
  <1>3. <<"data", 0>> \in Data
    BY DEF Data
  <1>4. p \in Seq(Data)
    BY <1>2, <1>3
  <1>5. x.pending = <<>> => p = <<>>
    OBVIOUS
  <1>6. Moved(x) = [x EXCEPT !.pending = p]
    BY DEF Moved
  <1>. HIDE DEF p
  <1>. QED
    BY <1>4, <1>5, <1>6 DEF ReqRec

(* A wait ends with something to read or to write.                         *)
LEMMA WaitOutcome ==
  ASSUME TypeOK, gsb_Wait
  PROVE  /\ pc = "wait" /\ pc' = "update" /\ UNCHANGED <<conf, asked, held, loc, dataVars>>
         /\ wire' \in Seq(Input) /\ read' \in Seq(Input)
         /\ req' \in ReqRec /\ resp' \in Seq(Output) /\ req'.n = req.n
         /\ \E x \in ReqRec : \E y \in ReqRec :
              /\ x.block = req.block /\ x.status = req.status /\ x.code = req.code
              /\ x.locked = req.locked /\ x.respbody = req.respbody
              /\ y = x \/ (~x.locked /\ x.status = "SEND_NOTHING" /\ y \in update_send_status(x))
              /\ resp' \o req'.block = resp \o y.block
              /\ req'.status = y.status /\ req'.code = y.code /\ req'.locked = y.locked
              /\ req'.respbody = y.respbody /\ (y.block = <<>> => req'.block = <<>>)
  <1>1. PICK ready \in (SUBSET loc.action) \ {{}} :
       /\ IF "read" \in ready THEN \E n \in 1 .. Len(wire) : net_data_read(n)
          ELSE UNCHANGED <<wire, read>>
       /\ LET x == IF "read" \in ready THEN Moved(req) ELSE req IN
            IF "write" \in ready
              THEN \E y \in IF ~x.locked /\ x.status = "SEND_NOTHING"
                              THEN update_send_status(x) ELSE {x} :
                     \E n \in 0 .. Len(y.block) : send_current_block_data(y, n)
              ELSE req' = x /\ UNCHANGED resp
    BY DEF gsb_Wait
  <1>2. pc = "wait" /\ pc' = "update" /\ UNCHANGED <<conf, asked, held, loc, dataVars>>
    BY DEF gsb_Wait
  <1>3. wire' \in Seq(Input) /\ read' \in Seq(Input)
    <2>1. CASE "read" \in ready
      <3>1. PICK n \in 1 .. Len(wire) : net_data_read(n)
        BY <1>1, <2>1
      <3>2. n \in 0 .. Len(wire)
        OBVIOUS
      <3>. QED
        BY <3>1, <3>2, ReadType DEF net_data_read
    <2>2. CASE "read" \notin ready
      BY <1>1, <2>2 DEF TypeOK
    <2>. QED
      BY <2>1, <2>2
  <1>. DEFINE x == IF "read" \in ready THEN Moved(req) ELSE req
  <1>4. /\ x \in ReqRec /\ x.n = req.n /\ x.block = req.block /\ x.status = req.status
        /\ x.code = req.code /\ x.locked = req.locked /\ x.respbody = req.respbody
    BY MovedType DEF TypeOK
  <1>5. q_.hasbody \in BOOLEAN
    BY <1>2, CurrentRequest
  <1>6. CASE "write" \in ready
    <2>1. PICK y \in (IF ~x.locked /\ x.status = "SEND_NOTHING"
                        THEN update_send_status(x) ELSE {x}) :
            \E n \in 0 .. Len(y.block) : send_current_block_data(y, n)
      BY <1>1, <1>6
    <2>2. PICK n \in 0 .. Len(y.block) : send_current_block_data(y, n)
      BY <2>1
    <2>. HIDE DEF x
    <2>3. y = x \/ (~x.locked /\ x.status = "SEND_NOTHING" /\ y \in update_send_status(x))
      BY <2>1
    <2>4. y \in ReqRec /\ y.n = x.n
      BY <1>4, <1>5, <2>3, UpdateType
    <2>5. /\ req' \in ReqRec /\ req'.n = y.n /\ req'.status = y.status /\ req'.code = y.code
          /\ req'.locked = y.locked /\ req'.respbody = y.respbody
          /\ resp' \in Seq(Output) /\ resp' \o req'.block = resp \o y.block
          /\ y.block = <<>> => req'.block = <<>>
      BY <2>2, <2>4, SendOutcome
    <2>. QED
      BY <1>2, <1>3, <1>4, <2>3, <2>4, <2>5
  <1>7. CASE "write" \notin ready
    <2>1. req' = x /\ resp' = resp
      BY <1>1, <1>7
    <2>. HIDE DEF x
    <2>2. resp \in Seq(Output)
      BY DEF TypeOK
    <2>. QED
      BY <1>2, <1>3, <1>4, <2>1, <2>2
  <1>. QED
    BY <1>6, <1>7

(* The start of a round.                                                   *)
LEMMA UpdateOutcome ==
  ASSUME TypeOK, gsb_Update
  PROVE  /\ pc = "update" /\ pc' = "io" /\ UNCHANGED <<clientVars, read, dataVars, resp>>
         /\ req' = req \/ (~req.locked /\ req.block = <<>> /\ req' \in update_send_status(req))
         /\ req' \in ReqRec /\ req'.n = req.n
         /\ loc' \in LocRec /\ loc'.parse_only = loc.parse_only
         /\ ~loc'.formated => req'.block = <<>>
  <1>1. PICK x \in (IF ~req.locked /\ req.block = <<>> THEN update_send_status(req) ELSE {req}) :
          /\ req' = x
          /\ loc' = [loc EXCEPT !.lock_status = x.locked, !.formated = x.block # <<>>,
                                !.parse_ret = "none"]
    BY DEF gsb_Update
  <1>2. pc = "update" /\ pc' = "io" /\ UNCHANGED <<clientVars, read, dataVars, resp>>
    BY DEF gsb_Update
  <1>3. req' = req \/ (~req.locked /\ req.block = <<>> /\ req' \in update_send_status(req))
    BY <1>1
  <1>4. req' \in ReqRec /\ req'.n = req.n
    <2>1. q_.hasbody \in BOOLEAN /\ req \in ReqRec
      BY <1>2, CurrentRequest DEF TypeOK
    <2>. QED
      BY <1>3, <2>1, UpdateType
  <1>5. loc' \in LocRec /\ loc'.parse_only = loc.parse_only /\ (~loc'.formated => req'.block = <<>>)
    <2>. DEFINE f == x.block # <<>>
    <2>1. loc' = [loc EXCEPT !.lock_status = x.locked, !.formated = f, !.parse_ret = "none"]
      BY <1>1
    <2>2. f \in BOOLEAN /\ x.locked \in BOOLEAN /\ loc \in LocRec
      BY <1>1, <1>4 DEF ReqRec, TypeOK
    <2>3. ~f => req'.block = <<>>
      BY <1>1, SMTT(40)
    <2>. HIDE DEF f
    <2>. QED
      BY <2>1, <2>2, <2>3, ZenonT(40) DEF LocRec, ParseResults
  <1>. QED
    BY <1>2, <1>3, <1>4, <1>5

(* One pass of the inner loop: data of the service are added to the block  *)
(* while the body is sent, and nothing else is done to the response.       *)
LEMMA IoOutcome ==
  ASSUME TypeOK, gsb_ServiceIo
  PROVE  /\ pc = "io" /\ UNCHANGED <<clientVars, resp>>
         /\ read' \in Seq(Input) /\ echo' \in Seq(Data) /\ Len(echo') <= RingSize
         /\ got' \in Seq(Data) /\ made' \in Seq(Data)
         /\ req' \in ReqRec /\ req'.n = req.n /\ loc' \in LocRec
         /\ \/ /\ pc' = "end" /\ req'.block = req.block /\ req'.ret = "CI_ERROR"
               /\ made' = made
            \/ /\ pc' \in {"io", "round"}
               /\ loc'.parse_only = loc.parse_only /\ loc'.formated = loc.formated
               /\ req'.status = req.status /\ req'.code = req.code
               /\ req'.respbody = req.respbody
               /\ loc.parse_only => req'.locked = req.locked
               /\ ~loc.formated => Len(req'.block) <= MAX_CHUNK_SIZE
               /\ \E d \in Seq(Data) :
                    /\ req'.block = req.block \o d /\ made' = made \o d
                    /\ d # <<>> => req.status = "SEND_BODY" /\ ~loc.parse_only
  <1>0. /\ pc = "io" /\ UNCHANGED <<clientVars, resp>>
        /\ req \in ReqRec /\ loc \in LocRec /\ read \in Seq(Input)
        /\ echo \in Seq(Data) /\ Len(echo) <= RingSize /\ got \in Seq(Data) /\ made \in Seq(Data)
    BY ZenonT(40) DEF TypeOK, gsb_ServiceIo
  <1>. DEFINE none == [pending |-> req.pending, read |-> read, ieof |-> FALSE,
                       ret |-> loc.parse_ret]
              end(p) == req.eof \/ p.ret = "CI_EOF"
              sending == req.status = "SEND_BODY" /\ ~loc.service_eof
              filling == loc.rchunkdata \/ (sending /\ req.block = <<>>)
              room == IF sending /\ ~loc.formated THEN MAX_CHUNK_SIZE - Len(req.block) ELSE 0
              called(p) == p.pending # <<>> \/ room > 0 \/ p.ret = "CI_EOF"
              Io(p, s) ==
                /\ read' = p.read /\ echo' = s.echo
                /\ got' = got \o SubSeq(p.pending, 1, s.w)
                /\ made' = made \o s.data
                /\ req' = [req EXCEPT !.eof = end(p), !.pending = Drop(p.pending, s.w),
                             !.block = req.block \o s.data,
                             !.wpos = s.wpos, !.locked = req.locked /\ ~s.unlock]
                /\ loc' = [loc EXCEPT !.parse_ret = p.ret, !.rchunkdata = filling,
                             !.service_eof = loc.service_eof \/ s.eof]
                /\ pc' = IF /\ s.w > 0 \/ s.data # <<>>
                            /\ \/ p.read # <<>> /\ p.ret \notin {"CI_NEEDS_MORE", "CI_EOF"}
                               \/ room > 0
                         THEN "io" ELSE "round"
  <1>1. PICK p \in (IF read # <<>> /\ req.pending = <<>> THEN parse_chunk_data(read) ELSE {none}) :
          \/ p.ret = "CI_ERROR" /\ BodyError(req) /\ UNCHANGED <<read, loc, dataVars>>
          \/ /\ p.ret # "CI_ERROR"
             /\ \E s \in IF called(p) THEN service_io(p.pending, room, filling, end(p)) ELSE {NoIo} :
                  Io(p, s)
          \/ /\ p.ret # "CI_ERROR" /\ called(p) /\ ~loc.parse_only /\ ~req.echoes
             /\ BodyError(req) /\ UNCHANGED <<read, loc, dataVars>>
    BY ZenonT(40) DEF gsb_ServiceIo
  <1>2. /\ p.pending \in Seq(Data) /\ p.read \in Seq(Input)
        /\ p.ret \in ParseResults \cup {"none"}
    <2>1. CASE p \in parse_chunk_data(read)
      BY <1>0, <2>1, ParseType
    <2>2. CASE p = none
      BY <1>0, <2>2 DEF ReqRec, LocRec
    <2>. QED
      BY <1>1, <2>1, <2>2
  <1>3. CASE BodyError(req) /\ UNCHANGED <<read, loc, dataVars>>
    <2>1. /\ req' \in ReqRec /\ req'.block = req.block /\ req'.n = req.n /\ pc' = "end"
          /\ req'.ret = "CI_ERROR"
      BY <1>0, <1>3, BodyDoneOutcome DEF BodyError, Ends
    <2>. QED
      BY <1>0, <1>3, <2>1 DEF dataVars
  <1>4. CASE \E s \in IF called(p) THEN service_io(p.pending, room, filling, end(p)) ELSE {NoIo} :
               Io(p, s)
    <2>1. PICK s \in (IF called(p) THEN service_io(p.pending, room, filling, end(p)) ELSE {NoIo}) :
            Io(p, s)
      BY <1>4
    <2>2. room \in Nat /\ filling \in BOOLEAN /\ end(p) \in BOOLEAN
      <3>1. ~loc.formated => Len(req.block) <= MAX_CHUNK_SIZE
        BY <1>0 DEF TypeOK
      <3>2. Len(req.block) \in Nat /\ MAX_CHUNK_SIZE \in Nat
        BY <1>0, IcapRequestAssumption DEF ReqRec
      <3>3. loc.rchunkdata \in BOOLEAN /\ req.eof \in BOOLEAN
        BY <1>0 DEF ReqRec, LocRec
      <3>. QED
        BY <3>1, <3>2, <3>3
    <2>3. room > 0 => sending /\ ~loc.formated /\ room = MAX_CHUNK_SIZE - Len(req.block)
      OBVIOUS
    <2>. HIDE DEF room, filling, end, called, none
    <2>4. IoOK(s, p.pending, room) /\ (loc.parse_only => s.data = <<>> /\ s.unlock = FALSE)
      <3>1. CASE called(p)
        <4>1. s \in service_io(p.pending, room, filling, end(p))
          BY <2>1, <3>1
        <4>. QED
          <5>1. PICK q \in Seq(Data), n \in Nat, f \in BOOLEAN, e \in BOOLEAN :
                  q = p.pending /\ n = room /\ f = filling /\ e = end(p)
            BY <1>2, <2>2
          <5>2. s \in service_io(q, n, f, e)
            BY <4>1, <5>1
          <5>3. IoOK(s, q, n)
            BY <5>2, AnyIoType
          <5>4. loc.parse_only => s.data = <<>>
            BY <5>2, AnyIoType
          <5>5. loc.parse_only => s.unlock = FALSE
            BY <5>2, AnyIoType, ZenonT(40)
          <5>. QED
            BY <5>1, <5>3, <5>4, <5>5
      <3>2. CASE ~called(p)
        BY <1>2, <2>1, <2>2, <3>2, NoIoType
      <3>. QED
        BY <3>1, <3>2
    <2>5. /\ s \in IoRec /\ s.w \in 0 .. Len(p.pending) /\ Len(s.echo) <= RingSize
          /\ Len(s.data) <= room
      BY <1>2, <2>4 DEF IoOK, IoRec
    <2>6. /\ s.data \in Seq(Data) /\ s.echo \in Seq(Data) /\ s.wpos \in 0 .. RingSize - 1
          /\ s.eof \in BOOLEAN /\ s.unlock \in BOOLEAN
      BY <2>5 DEF IoRec
    <2>. DEFINE d == Drop(p.pending, s.w)
                b == req.block \o s.data
                u == req.locked /\ ~s.unlock
                v == loc.service_eof \/ s.eof
    <2>7. SubSeq(p.pending, 1, s.w) \in Seq(Data) /\ d \in Seq(Data)
      BY <1>2, <2>5, SplitSeq DEF Drop
    <2>8. b \in Seq(Output) /\ Len(b) = Len(req.block) + Len(s.data)
      <3>1. s.data \in Seq(Output)
        BY <2>6, DataIsBoth, SeqMonotonic
      <3>2. req.block \in Seq(Output)
        BY <1>0 DEF ReqRec
      <3>. QED
        BY <3>1, <3>2, ConcatProperties
    <2>9. u \in BOOLEAN /\ v \in BOOLEAN /\ (loc.parse_only => u = req.locked)
      BY <1>0, <2>4, <2>6 DEF ReqRec, LocRec
    <2>10. req' = [req EXCEPT !.eof = end(p), !.pending = d, !.block = b, !.wpos = s.wpos,
                              !.locked = u]
      BY <2>1
    <2>11. loc' = [loc EXCEPT !.parse_ret = p.ret, !.rchunkdata = filling, !.service_eof = v]
      BY <2>1
    <2>. HIDE DEF d, b, u, v
    <2>12. /\ req' \in ReqRec /\ req'.n = req.n /\ req'.status = req.status
           /\ req'.code = req.code /\ req'.block = b /\ req'.locked = u
           /\ req'.respbody = req.respbody
      BY <1>0, <2>2, <2>6, <2>7, <2>8, <2>9, <2>10 DEF ReqRec
    <2>13. /\ loc' \in LocRec /\ loc'.parse_only = loc.parse_only
           /\ loc'.formated = loc.formated
      BY <1>0, <1>2, <2>2, <2>9, <2>11 DEF LocRec
    <2>14. /\ read' \in Seq(Input) /\ echo' \in Seq(Data) /\ Len(echo') <= RingSize
           /\ got' \in Seq(Data) /\ made' \in Seq(Data) /\ pc' \in {"io", "round"}
           /\ made' = made \o s.data
      <3>1. /\ read' = p.read /\ echo' = s.echo /\ pc' \in {"io", "round"}
            /\ got' = got \o SubSeq(p.pending, 1, s.w) /\ made' = made \o s.data
        BY <2>1
      <3>. QED
        BY <1>0, <1>2, <2>5, <2>6, <2>7, <3>1, ConcatProperties
    <2>15. ~loc.formated => Len(b) <= MAX_CHUNK_SIZE
      <3>1. ~loc.formated => Len(req.block) <= MAX_CHUNK_SIZE
        BY <1>0 DEF TypeOK
      <3>2. Len(req.block) \in Nat /\ Len(s.data) \in Nat /\ MAX_CHUNK_SIZE \in Nat
        BY <1>0, <2>6, IcapRequestAssumption, SMTT(40) DEF ReqRec
      <3>. DEFINE lr == Len(req.block)
                  ld == Len(s.data)
                  lb == Len(b)
      <3>3. /\ lr \in Nat /\ ld \in Nat /\ MAX_CHUNK_SIZE \in Nat /\ ld <= room /\ lb = lr + ld
            /\ room \in Nat /\ (room > 0 => room = MAX_CHUNK_SIZE - lr)
        BY <2>2, <2>3, <2>5, <2>8, <3>2
      <3>. HIDE DEF lr, ld, lb
      <3>4. lr <= MAX_CHUNK_SIZE => lb <= MAX_CHUNK_SIZE
        BY <3>3
      <3>. QED
        BY <3>1, <3>4 DEF lr, lb
    <2>16. s.data # <<>> => req.status = "SEND_BODY" /\ ~loc.parse_only
      <3>1. s.data # <<>> => Len(s.data) > 0
        BY <2>6, EmptySeq
      <3>2. s.data # <<>> => room > 0
        BY <2>2, <2>5, <2>6, <3>1
      <3>. QED
        BY <2>3, <2>4, <3>2
    <2>. QED
      BY <1>0, <2>6, <2>9, <2>12, <2>13, <2>14, <2>15, <2>16 DEF b
  <1>. QED
    BY <1>1, <1>3, <1>4

(* What format_body_chunk makes of a block: the end, once.                 *)
Ended(x, y) ==
  /\ x.status = "SEND_BODY" /\ x.block = <<>>
  /\ y.status = "SEND_EOF" /\ y.block = <<<<"eof", 0>>>>
  /\ y.n = x.n /\ y.code = x.code /\ y.locked = x.locked /\ y.respbody = x.respbody

(* The last chunk.                                                         *)
LEMMA ChunkEnds ==
  ASSUME NEW x \in ReqRec, x.status = "SEND_BODY", x.block = <<>>
  PROVE  format_body_chunk(x, TRUE) \in ReqRec /\ Ended(x, format_body_chunk(x, TRUE))
  <1>. DEFINE y == format_body_chunk(x, TRUE)
              b == <<<<"eof", 0>>>>
  <1>1. y = [x EXCEPT !.block = b, !.status = "SEND_EOF"]
    BY DEF format_body_chunk
  <1>2. <<"eof", 0>> \in Output
    BY DEF Output
  <1>3. b \in Seq(Output)
    BY <1>2, OneElement
  <1>4. y.block = b
    BY <1>1 DEF ReqRec
  <1>. HIDE DEF y, b
  <1>5. /\ y \in ReqRec /\ y.status = "SEND_EOF" /\ y.n = x.n /\ y.code = x.code
        /\ y.locked = x.locked /\ y.respbody = x.respbody
    BY <1>1, <1>3 DEF ReqRec, Statuses
  <1>. QED
    BY <1>4, <1>5 DEF Ended, y, b

(* The end of a round.                                                     *)
LEMMA RoundOutcome ==
  ASSUME TypeOK, gsb_Round
  PROVE  /\ pc = "round" /\ UNCHANGED <<clientVars, read, dataVars, resp>>
         /\ loc' \in LocRec /\ loc'.parse_only = loc.parse_only
         /\ \E x \in ReqRec :
              /\ x = req \/ Ended(req, x)
              /\ req' \in ReqRec /\ req'.block = x.block /\ req'.n = x.n
              /\ \/ pc' = "wait" /\ req' = x
                 \/ pc' = "end" /\ req'.ret = "CI_ERROR"
                 \/ /\ pc' = "end" /\ loc.parse_only = TRUE
                    /\ req'.status = x.status /\ req'.respbody = x.respbody
                 \/ pc' = "end_of_data" /\ req' = x /\ loc.parse_only = FALSE
  <1>. DEFINE x == Formatted(req)
  <1>1. pc = "round" /\ UNCHANGED <<clientVars, read, dataVars, resp>>
    BY DEF gsb_Round
  <1>2. req \in ReqRec /\ loc \in LocRec
    BY DEF TypeOK
  <1>3. x \in ReqRec /\ (x = req \/ Ended(req, x))
    <2>1. CASE /\ req.status = "SEND_BODY" /\ ~loc.formated /\ req.block = <<>>
               /\ loc.service_eof
      <3>1. x = format_body_chunk(req, TRUE)
        BY <2>1 DEF Formatted, format_body_chunk
      <3>. QED
        BY <1>2, <2>1, <3>1, ChunkEnds
    <2>2. CASE ~(/\ req.status = "SEND_BODY" /\ ~loc.formated /\ req.block = <<>>
                 /\ loc.service_eof)
      <3>1. x = req
        BY <2>2 DEF Formatted, format_body_chunk
      <3>. QED
        BY <1>2, <3>1
    <2>. QED
      BY <2>1, <2>2
  <1>. HIDE DEF x
  <1>4. CASE GoesOn(x)
    <2>. DEFINE a == WaitFor(x)
    <2>1. pc' = "wait" /\ req' = x /\ loc' = [loc EXCEPT !.action = a]
      BY <1>4 DEF gsb_Round, x
    <2>2. a \in SUBSET {"read", "write"}
      BY DEF WaitFor
    <2>. HIDE DEF a
    <2>3. loc' \in LocRec /\ loc'.parse_only = loc.parse_only
      BY <1>2, <2>1, <2>2 DEF LocRec
    <2>. QED
      BY <1>1, <1>3, <2>1, <2>3
  <1>5. CASE ~GoesOn(x)
    <2>1. BodyDone(x) /\ loc' = loc
      BY <1>5 DEF gsb_Round, x
    <2>2. /\ req' \in ReqRec /\ req'.block = x.block /\ req'.n = x.n
          /\ \/ pc' = "end" /\ req'.ret = "CI_ERROR"
             \/ /\ pc' = "end" /\ loc.parse_only = TRUE
                /\ req'.status = x.status /\ req'.respbody = x.respbody
             \/ pc' = "end_of_data" /\ req' = x /\ loc.parse_only = FALSE
      BY <1>3, <2>1, BodyDoneOutcome
    <2>. QED
      BY <1>1, <1>2, <1>3, <2>1, <2>2
  <1>. QED
    BY <1>4, <1>5

(* A request is unlocked for the rest of its response.                     *)
Unlocked(x) == [x EXCEPT !.locked = FALSE]

(* Nothing else of it changes.                                             *)
LEMMA UnlockedFields ==
  ASSUME NEW x \in ReqRec
  PROVE  /\ Unlocked(x) \in ReqRec /\ Unlocked(x).n = x.n /\ Unlocked(x).block = x.block
         /\ Unlocked(x).status = x.status /\ Unlocked(x).code = x.code
         /\ Unlocked(x).respbody = x.respbody
  BY DEF Unlocked, ReqRec

(* The end-of-data handler: no status line once something has been sent.   *)
LEMMA EndOfDataOutcome ==
  ASSUME TypeOK, EndOfDataHandler
  PROVE  /\ pc = "end_of_data" /\ UNCHANGED <<clientVars, read, loc, dataVars>>
         /\ req' \in ReqRec /\ req'.n = req.n /\ req'.block = req.block
         /\ resp' \in Seq(Output) /\ req'.respbody = req.respbody
         /\ \/ /\ pc' = "rest" /\ resp' = resp /\ req'.status = req.status
               /\ req'.code = req.code \/ req'.code = 206
            \/ /\ pc' = "rest" /\ resp' = Append(resp, <<"code", 200>>)
               /\ req.status = "SEND_NOTHING" /\ req'.status = "SEND_EOF" /\ req'.code = 200
            \/ /\ pc' = "end"
               /\ \/ resp' = resp /\ req'.ret = "CI_ERROR"
                  \/ /\ req.status = "SEND_NOTHING"
                     /\ req'.ret = "CI_ERROR" \/ req'.status = "SEND_EOF"
                     /\ \E c \in {204, 500} : resp' = Append(resp, <<"code", StatusCode(c)>>)
  <1>0. /\ pc = "end_of_data" /\ UNCHANGED <<clientVars, read, loc, dataVars>>
        /\ req \in ReqRec /\ resp \in Seq(Output)
    BY DEF TypeOK, EndOfDataHandler
  <1>. DEFINE sent == req.status # "SEND_NOTHING"
              y1 == Responded(req, 204)
              y2 == WithoutKeepalive(y1)
  <1>1. \/ pc' = "rest" /\ req' = Unlocked(req) /\ UNCHANGED resp
        \/ /\ ~sent /\ Written(204) /\ conf.as200 /\ pc' = "rest"
           /\ \E t \in BOOLEAN : req' = Unlocked(WithTrailers(y1, t))
        \/ /\ ~sent /\ Written(204) /\ Ends(y1, "CI_OK")
        \/ Ends(y2, "CI_ERROR") /\ UNCHANGED resp
        \/ pc' = "rest" /\ req' = Unlocked(WithCode(req, 206)) /\ UNCHANGED resp
        \/ Ends(WithoutKeepalive(req), "CI_ERROR") /\ UNCHANGED resp
        \/ ~sent /\ ErrorResponse(req, 500)
    BY DEF EndOfDataHandler, do_end_of_data, EndOfDataFails, Unlocked, WithCode, WithoutKeepalive,
        WithTrailers
  <1>2. /\ SameFields(y1, req) /\ y1.status = "SEND_EOF" /\ y1.code = StatusCode(204)
        /\ SameFields(y2, req) /\ StatusCode(204) \in Int /\ StatusCode(500) \in Int
    <2>1. StatusCode(204) \in Int /\ StatusCode(500) \in Int
      BY DEF StatusCode
    <2>. QED
      BY <1>0, <2>1, RespondedFields
  <1>3. y1 \in ReqRec /\ y2 \in ReqRec /\ y1.n = req.n /\ y2.n = req.n
        /\ y1.block = req.block /\ y2.block = req.block
        /\ y1.respbody = req.respbody /\ y2.respbody = req.respbody
    BY <1>2 DEF SameFields
  <1>. HIDE DEF y1, y2
  <1>4. CASE pc' = "rest" /\ req' = Unlocked(req) /\ UNCHANGED resp
    BY <1>0, <1>4, UnlockedFields
  <1>5. CASE ~sent /\ Written(204) /\ conf.as200 /\ pc' = "rest"
           /\ \E t \in BOOLEAN : req' = Unlocked(WithTrailers(y1, t))
    <2>1. StatusCode(204) = 200
      BY <1>5 DEF StatusCode
    <2>2. resp' = Append(resp, <<"code", 200>>)
      BY <1>5, <2>1 DEF Written
    <2>3. resp' \in Seq(Output)
      BY <2>2, CodeAppended
    <2>4. PICK t \in BOOLEAN : req' = Unlocked(WithTrailers(y1, t))
      BY <1>5
    <2>. DEFINE z == WithTrailers(y1, t)
    <2>5. z \in ReqRec /\ z.n = y1.n /\ z.block = y1.block /\ z.status = y1.status
          /\ z.code = y1.code /\ z.respbody = y1.respbody
      BY <1>3 DEF WithTrailers, ReqRec
    <2>. HIDE DEF z
    <2>6. req' = Unlocked(z)
      BY <2>4 DEF z
    <2>. QED
      BY <1>0, <1>2, <1>3, <1>5, <2>1, <2>2, <2>3, <2>5, <2>6, UnlockedFields
  <1>6. CASE ~sent /\ Written(204) /\ Ends(y1, "CI_OK")
    <2>1. resp' = Append(resp, <<"code", StatusCode(204)>>)
      BY <1>6 DEF Written
    <2>2. resp' \in Seq(Output)
      BY <1>2, <2>1, CodeAppended
    <2>3. pc' = "end" /\ req' = WithResult(y1, "CI_OK")
      BY <1>6 DEF Ends, WithResult
    <2>4. /\ req' \in ReqRec /\ req'.n = req.n /\ req'.block = req.block
          /\ req'.respbody = req.respbody /\ req'.status = "SEND_EOF"
      BY <1>2, <1>3, <2>3, ResultSet DEF SameFields
    <2>. QED
      BY <1>0, <1>6, <2>1, <2>2, <2>3, <2>4
  <1>7. ASSUME NEW y \in ReqRec, y.n = req.n, y.block = req.block, Ends(y, "CI_ERROR"),
               y.respbody = req.respbody, UNCHANGED resp
        PROVE  /\ pc' = "end" /\ resp' = resp /\ resp' \in Seq(Output)
               /\ req' \in ReqRec /\ req'.n = req.n /\ req'.block = req.block
               /\ req'.ret = "CI_ERROR" /\ req'.respbody = req.respbody
    <2>1. pc' = "end" /\ req' = WithResult(y, "CI_ERROR")
      BY <1>7 DEF Ends, WithResult
    <2>. QED
      BY <1>0, <1>7, <2>1, ResultSet DEF SameFields
  <1>8. CASE Ends(y2, "CI_ERROR") /\ UNCHANGED resp
    BY <1>0, <1>3, <1>7, <1>8
  <1>9. CASE pc' = "rest" /\ req' = Unlocked(WithCode(req, 206)) /\ UNCHANGED resp
    <2>. DEFINE y == WithCode(req, 206)
    <2>1. y \in ReqRec /\ y.n = req.n /\ y.block = req.block /\ y.status = req.status
          /\ y.code = 206 /\ y.respbody = req.respbody
      BY <1>0, CodeSet DEF SameFields
    <2>. HIDE DEF y
    <2>2. req' = Unlocked(y)
      BY <1>9 DEF y
    <2>. QED
      BY <1>0, <1>9, <2>1, <2>2, UnlockedFields
  <1>10. CASE Ends(WithoutKeepalive(req), "CI_ERROR") /\ UNCHANGED resp
    <2>1. /\ WithoutKeepalive(req) \in ReqRec /\ WithoutKeepalive(req).n = req.n
          /\ WithoutKeepalive(req).block = req.block
          /\ WithoutKeepalive(req).respbody = req.respbody
      BY <1>0, KeepaliveCleared DEF SameFields
    <2>. QED
      BY <1>0, <1>7, <1>10, <2>1
  <1>11. CASE ~sent /\ ErrorResponse(req, 500)
    <2>1. /\ pc' = "end" /\ req' \in ReqRec /\ req'.block = req.block /\ resp' \in Seq(Output)
          /\ resp' = resp \/ resp' = Append(resp, <<"code", StatusCode(500)>>)
          /\ req'.ret = "CI_ERROR"
      BY <1>0, <1>11, ErrorType
    <2>2. req'.n = req.n /\ req'.respbody = req.respbody
      <3>. DEFINE y == WithoutKeepalive(Responded(req, 500))
      <3>1. req' = WithResult(y, "CI_ERROR")
        BY <1>11 DEF ErrorResponse, Ends, WithResult, WithoutKeepalive
      <3>2. SameFields(y, req)
        BY <1>0, RespondedFields
      <3>. HIDE DEF y
      <3>. QED
        BY <3>1, <3>2, ResultSet DEF SameFields
    <2>. QED
      BY <1>0, <1>11, <2>1, <2>2
  <1>. QED
    BY <1>1, <1>4, <1>5, <1>6, <1>8, <1>9, <1>10, <1>11

(* send_remaining_response: writing.                                       *)
LEMMA RestSendOutcome ==
  ASSUME TypeOK, rest_Send
  PROVE  /\ pc = "rest" /\ UNCHANGED <<clientVars, read, loc, dataVars>>
         /\ req' \in ReqRec /\ req'.n = req.n /\ resp' \in Seq(Output)
         /\ resp' \o req'.block = resp \o req.block
         /\ \/ pc' = "end" /\ req'.ret = "CI_ERROR"
            \/ /\ pc' = "rest" /\ req'.status = req.status /\ req'.code = req.code
               /\ req'.respbody = req.respbody
  <1>0. /\ pc = "rest" /\ UNCHANGED <<clientVars, read, loc, dataVars>>
        /\ req \in ReqRec /\ resp \in Seq(Output)
    BY DEF TypeOK, rest_Send
  <1>1. CASE \E n \in 0 .. Len(req.block) : send_current_block_data(req, n) /\ UNCHANGED pc
    <2>1. PICK n : send_current_block_data(req, n) /\ UNCHANGED pc
      BY <1>1
    <2>. QED
      BY <1>0, <2>1, SendOutcome
  <1>2. CASE RestFails(req) /\ UNCHANGED resp
    <2>. DEFINE y == WithoutKeepalive(req)
    <2>1. SameFields(y, req)
      BY <1>0, KeepaliveCleared
    <2>2. pc' = "end" /\ req' = WithResult(y, "CI_ERROR") /\ resp' = resp
      BY <1>2 DEF RestFails, Ends, WithResult, WithoutKeepalive
    <2>. HIDE DEF y
    <2>. QED
      BY <1>0, <2>1, <2>2, ResultSet DEF SameFields
  <1>. QED
    BY <1>1, <1>2 DEF rest_Send

(* send_remaining_response: the next chunk, or the end of the body.        *)
LEMMA RestReadOutcome ==
  ASSUME TypeOK, rest_Read
  PROVE  /\ pc = "rest" /\ UNCHANGED <<clientVars, read, loc, got, resp>>
         /\ echo' \in Seq(Data) /\ Len(echo') <= RingSize /\ made' \in Seq(Data)
         /\ req.block = <<>> /\ req.status = "SEND_BODY"
         /\ req' \in ReqRec /\ req'.n = req.n
         /\ \/ /\ pc' = "end" /\ req'.block = req.block /\ made' = made
               /\ req'.ret = "CI_ERROR" \/ req'.starved
            \/ pc' = "rest" /\ Ended(req, req') /\ made' = made
            \/ /\ pc' = "rest" /\ req'.block \in Seq(Data) /\ req'.status = req.status
               /\ req'.code = req.code /\ req'.respbody = req.respbody
               /\ made' = made \o req'.block
  <1>0. /\ pc = "rest" /\ UNCHANGED <<clientVars, read, loc, got, resp>>
        /\ req \in ReqRec /\ req.block = <<>> /\ req.status = "SEND_BODY"
        /\ echo \in Seq(Data) /\ Len(echo) <= RingSize /\ made \in Seq(Data)
        /\ req.eof \in BOOLEAN /\ MAX_CHUNK_SIZE \in Nat
    BY IcapRequestAssumption DEF TypeOK, rest_Read, ReqRec
  <1>. DEFINE S == IF req.echoes THEN {mod_echo_io(<<>>, MAX_CHUNK_SIZE, TRUE, req.eof)}
                   ELSE {t \in mod_service_io(<<>>, MAX_CHUNK_SIZE) :
                           ~t.unlock /\ (t.eof => t.data = <<>>)}
  <1>1. \/ /\ ~req.echoes /\ RestFails(req) /\ UNCHANGED <<made, echo>>
        \/ \E s \in S :
             /\ made' = made \o s.data /\ echo' = s.echo
             /\ IF s.data = <<>> /\ ~s.eof
                  THEN Ends([req EXCEPT !.starved = TRUE], "CI_OK")
                  ELSE /\ req' = format_body_chunk([req EXCEPT !.block = s.data], s.eof)
                       /\ UNCHANGED pc
    BY DEF rest_Read
  <1>2. CASE ~req.echoes /\ RestFails(req) /\ UNCHANGED <<made, echo>>
    <2>. DEFINE y == WithoutKeepalive(req)
    <2>1. SameFields(y, req)
      BY <1>0, KeepaliveCleared
    <2>2. pc' = "end" /\ req' = WithResult(y, "CI_ERROR")
      BY <1>2 DEF RestFails, Ends, WithResult, WithoutKeepalive
    <2>. HIDE DEF y
    <2>. QED
      BY <1>0, <1>2, <2>1, <2>2, ResultSet DEF SameFields
  <1>3. ASSUME NEW s \in S, made' = made \o s.data, echo' = s.echo,
               IF s.data = <<>> /\ ~s.eof
                 THEN Ends([req EXCEPT !.starved = TRUE], "CI_OK")
                 ELSE /\ req' = format_body_chunk([req EXCEPT !.block = s.data], s.eof)
                      /\ UNCHANGED pc
        PROVE  /\ echo' \in Seq(Data) /\ Len(echo') <= RingSize /\ made' \in Seq(Data)
               /\ req' \in ReqRec /\ req'.n = req.n
               /\ \/ /\ pc' = "end" /\ req'.block = req.block /\ made' = made
                     /\ req'.ret = "CI_ERROR" \/ req'.starved
                  \/ pc' = "rest" /\ Ended(req, req') /\ made' = made
                  \/ /\ pc' = "rest" /\ req'.block \in Seq(Data) /\ req'.status = req.status
                     /\ req'.code = req.code /\ req'.respbody = req.respbody
                     /\ made' = made \o req'.block
    <2>1. IoOK(s, <<>>, MAX_CHUNK_SIZE)
      <3>1. <<>> \in Seq(Data)
        BY EmptySeq
      <3>2. CASE req.echoes
        BY <1>0, <3>1, <3>2, EchoIoType
      <3>3. CASE ~req.echoes
        BY <1>0, <3>1, <3>3, ServiceIoType
      <3>. QED
        BY <3>2, <3>3
    <2>. HIDE DEF S
    <2>2. /\ s.data \in Seq(Data) /\ s.echo \in Seq(Data) /\ Len(s.echo) <= RingSize
          /\ s.eof \in BOOLEAN /\ (s.eof => s.data = <<>>)
      BY <2>1 DEF IoOK, IoRec
    <2>3. /\ echo' \in Seq(Data) /\ Len(echo') <= RingSize /\ made' \in Seq(Data)
          /\ made' = made \o s.data
      BY <1>0, <1>3, <2>2, ConcatProperties
    <2>7. s.data = <<>> => made' = made
      BY <1>0, <2>3, ConcatEmptySeq
    <2>4. s.data \in Seq(Output)
      BY <2>2, DataIsBoth, SeqMonotonic
    <2>5. CASE s.data = <<>> /\ ~s.eof
      <3>. DEFINE y == [req EXCEPT !.starved = TRUE]
      <3>1. y \in ReqRec /\ y.n = req.n /\ y.block = req.block /\ y.starved = TRUE
        BY <1>0 DEF ReqRec
      <3>2. Ends(y, "CI_OK")
        BY <1>3, <2>5
      <3>. HIDE DEF y
      <3>3. pc' = "end" /\ req' = WithResult(y, "CI_OK")
        BY <3>2 DEF Ends, WithResult
      <3>4. req' \in ReqRec /\ req'.n = req.n /\ req'.block = req.block
        BY <3>1, <3>3, ResultSet DEF SameFields
      <3>5. req'.starved = TRUE
        BY <3>1, <3>3 DEF WithResult, ReqRec
      <3>. QED
        BY <2>3, <2>5, <2>7, <3>3, <3>4, <3>5
    <2>6. CASE ~(s.data = <<>> /\ ~s.eof)
      <3>. DEFINE y == [req EXCEPT !.block = s.data]
      <3>1. /\ y \in ReqRec /\ y.n = req.n /\ y.block = s.data /\ y.status = req.status
            /\ y.code = req.code /\ y.locked = req.locked /\ y.respbody = req.respbody
        BY <1>0, <2>4 DEF ReqRec
      <3>2. req' = format_body_chunk(y, s.eof) /\ pc' = pc
        BY <1>3, <2>6
      <3>. HIDE DEF y
      <3>3. CASE s.eof
        <4>1. req' = format_body_chunk(y, TRUE)
          BY <3>2, <3>3 DEF format_body_chunk
        <4>2. y.status = "SEND_BODY" /\ y.block = <<>>
          BY <1>0, <2>2, <3>1, <3>3
        <4>3. req' \in ReqRec /\ Ended(y, req')
          BY <3>1, <4>1, <4>2, ChunkEnds
        <4>4. Ended(req, req') /\ req'.n = req.n
          BY <1>0, <3>1, <4>3 DEF Ended
        <4>. QED
          BY <1>0, <2>2, <2>3, <2>7, <3>2, <3>3, <4>3, <4>4
      <3>4. CASE ~s.eof
        <4>1. req' = y
          BY <3>2, <3>4 DEF format_body_chunk
        <4>. QED
          BY <1>0, <2>2, <2>3, <3>1, <3>2, <4>1
      <3>. QED
        BY <3>3, <3>4
    <2>. QED
      BY <2>5, <2>6
  <1>. HIDE DEF S
  <1>4. CASE \E s \in S :
             /\ made' = made \o s.data /\ echo' = s.echo
             /\ IF s.data = <<>> /\ ~s.eof
                  THEN Ends([req EXCEPT !.starved = TRUE], "CI_OK")
                  ELSE /\ req' = format_body_chunk([req EXCEPT !.block = s.data], s.eof)
                       /\ UNCHANGED pc
    BY <1>0, <1>3, <1>4
  <1>. QED
    BY <1>1, <1>2, <1>4

(* send_remaining_response: the next part of the response, or its end.     *)
LEMMA RestUpdateOutcome ==
  ASSUME TypeOK, rest_Update
  PROVE  /\ pc = "rest" /\ UNCHANGED <<clientVars, read, loc, dataVars, resp>>
         /\ req.block = <<>> /\ req' \in ReqRec /\ req'.n = req.n
         /\ \E x \in update_send_status(req) :
              /\ req'.block = x.block
              /\ \/ pc' = "end" /\ SendEnds(req) /\ req' = WithResult(x, "CI_OK")
                 \/ pc' = "rest" /\ req' = x
  <1>0. /\ pc = "rest" /\ UNCHANGED <<clientVars, read, loc, dataVars, resp>>
        /\ req.block = <<>> /\ req \in ReqRec
    BY DEF TypeOK, rest_Update
  <1>1. PICK x \in update_send_status(req) :
          IF SendEnds(req) THEN Ends(x, "CI_OK") ELSE req' = x /\ UNCHANGED pc
    BY DEF rest_Update
  <1>2. x \in ReqRec /\ x.n = req.n
    <2>1. q_.hasbody \in BOOLEAN
      BY <1>0, CurrentRequest
    <2>. QED
      BY <1>0, <2>1, UpdateType
  <1>3. CASE SendEnds(req)
    <2>1. pc' = "end" /\ req' = WithResult(x, "CI_OK")
      BY <1>1, <1>3 DEF Ends, WithResult
    <2>. QED
      BY <1>0, <1>2, <1>3, <2>1, ResultSet DEF SameFields
  <1>4. CASE ~SendEnds(req)
    BY <1>0, <1>1, <1>2, <1>4
  <1>. QED
    BY <1>3, <1>4

(* Where the reading of the preview goes.                                  *)
ReadingPreview ==
  /\ pc = "read_preview" /\ UNCHANGED <<conf, asked, held, loc, echo, made>>
  /\ wire' \in Seq(Input) /\ read' \in Seq(Input) /\ got' \in Seq(Data)
  /\ req' \in ReqRec /\ req'.block = req.block
  /\ \/ /\ pc' \in {"read_preview", "preview"} /\ resp' = resp /\ req'.n = req.n
        /\ req'.status = req.status /\ req'.respbody = req.respbody
     \/ /\ pc' = "end" /\ resp' \in Seq(Output) /\ req'.ret = "CI_ERROR"
        /\ resp' = resp \/ resp' = Append(resp, <<"code", 408>>)

(* The error response of read_preview_data.                                *)
LEMMA PreviewFails ==
  ASSUME TypeOK, pc = "read_preview", ErrorResponse(req, 408),
         UNCHANGED <<conf, asked, held, loc, dataVars, wire, read>>
  PROVE  ReadingPreview
  <1>1. /\ pc' = "end" /\ req' \in ReqRec /\ req'.block = req.block /\ resp' \in Seq(Output)
        /\ resp' = resp \/ resp' = Append(resp, <<"code", StatusCode(408)>>)
        /\ req'.ret = "CI_ERROR"
    BY ErrorType DEF TypeOK
  <1>2. StatusCode(408) = 408
    BY DEF StatusCode
  <1>. QED
    BY <1>1, <1>2 DEF ReadingPreview, TypeOK, dataVars

(* Data are read for the preview.                                          *)
LEMMA PreviewReadOutcome ==
  ASSUME TypeOK, read_preview_data_read
  PROVE  ReadingPreview
  <1>1. CASE \E n \in 1 .. Len(wire) : net_data_read(n) /\ UNCHANGED <<pc, req, resp>>
    <2>1. PICK n \in 1 .. Len(wire) : net_data_read(n) /\ UNCHANGED <<pc, req, resp>>
      BY <1>1
    <2>2. n \in 0 .. Len(wire)
      OBVIOUS
    <2>3. wire' \in Seq(Input) /\ read' \in Seq(Input)
      BY <2>1, <2>2, ReadType DEF net_data_read
    <2>. QED
      BY <2>1, <2>3 DEF read_preview_data_read, ReadingPreview, TypeOK, dataVars
  <1>2. CASE ErrorResponse(req, 408) /\ UNCHANGED <<wire, read>>
    BY <1>2, PreviewFails DEF read_preview_data_read
  <1>. QED
    BY <1>1, <1>2 DEF read_preview_data_read

(* What is read of the preview goes to the service.                        *)
LEMMA PreviewParseOutcome ==
  ASSUME TypeOK, read_preview_data_parse
  PROVE  ReadingPreview
  <1>0. /\ pc = "read_preview" /\ UNCHANGED <<clientVars, loc, echo, made>>
        /\ req \in ReqRec /\ read \in Seq(Input) /\ got \in Seq(Data) /\ wire \in Seq(Input)
    BY DEF TypeOK, read_preview_data_parse
  <1>1. PICK p \in parse_chunk_data(read) :
       IF p.ret = "CI_ERROR" THEN ErrorResponse(req, 408) /\ UNCHANGED <<read, got>>
       ELSE /\ got' = got \o p.pending
            /\ req' = [req EXCEPT !.eof = p.ieof,
                         !.preview = IF p.ieof THEN "CI_EOF" ELSE "CI_OK"]
            /\ pc' = IF p.ret = "CI_EOF" THEN "preview" ELSE pc
            /\ read' = IF p.ret = "CI_EOF" THEN <<>> ELSE p.read
            /\ UNCHANGED resp
    BY DEF read_preview_data_parse
  <1>2. /\ p.pending \in Seq(Data) /\ p.read \in Seq(Input)
        /\ p.ieof \in BOOLEAN /\ p.ret \in ParseResults
    BY <1>0, ParseType
  <1>3. CASE p.ret = "CI_ERROR"
    BY <1>0, <1>1, <1>3, PreviewFails DEF clientVars, dataVars
  <1>4. CASE p.ret # "CI_ERROR"
    <2>. DEFINE v == IF p.ieof THEN "CI_EOF" ELSE "CI_OK"
    <2>1. v \in {"CI_OK", "CI_EOF"} /\ req' = [req EXCEPT !.eof = p.ieof, !.preview = v]
      BY <1>1, <1>4
    <2>. HIDE DEF v
    <2>2. /\ req' \in ReqRec /\ req'.n = req.n /\ req'.block = req.block
          /\ req'.status = req.status /\ req'.respbody = req.respbody
      BY <1>0, <1>2, <2>1 DEF ReqRec
    <2>3. got' \in Seq(Data) /\ read' \in Seq(Input)
      <3>1. got' = got \o p.pending /\ read' = IF p.ret = "CI_EOF" THEN <<>> ELSE p.read
        BY <1>1, <1>4
      <3>. QED
        BY <1>0, <1>2, <3>1, ConcatProperties, EmptySeq
    <2>4. pc' \in {"read_preview", "preview"} /\ resp' = resp
      BY <1>0, <1>1, <1>4
    <2>. QED
      BY <1>0, <2>2, <2>3, <2>4 DEF ReadingPreview, clientVars
  <1>. QED
    BY <1>3, <1>4

(* Every step keeps the types.                                             *)
LEMMA TypeStep == TypeOK /\ [Next]_vars => TypeOK'
  <1>. SUFFICES ASSUME TypeOK, [Next]_vars PROVE TypeOK'
    OBVIOUS
  <1>0. /\ conf \in [as200 : BOOLEAN, fake204 : BOOLEAN, pipelining : BOOLEAN] /\ asked \in Nat
        /\ wire \in Seq(Input) /\ held \in Seq(Input) /\ read \in Seq(Input)
        /\ pc \in Pcs /\ req \in ReqRec /\ loc \in LocRec
        /\ echo \in Seq(Data) /\ got \in Seq(Data) /\ made \in Seq(Data) /\ resp \in Seq(Output)
        /\ Len(echo) <= RingSize
        /\ pc \notin {"header", "end", "closed"} => req.n \in DOMAIN Requests
    BY DEF TypeOK
  <1>1. ASSUME NEW i \in DOMAIN Requests, ClientSends(i) PROVE TypeOK'
    BY <1>1, TypeClient
  <1>2. CASE ReadRequest
    BY <1>0, <1>2, HeaderOutcome DEF TypeOK, Pcs, dataVars
  <1>3. CASE HeaderTimeout
    BY <1>0, <1>3 DEF HeaderTimeout, TypeOK, Pcs, dataVars, clientVars
  <1>4. CASE options_responce
    <2>1. resp' \in Seq(Output)
      <3>1. 200 \in Int
        OBVIOUS
      <3>. QED
        BY <1>0, <1>4, <3>1, CodeAppended DEF options_responce
    <2>2. pc' = "end" /\ req' \in ReqRec
      BY <1>0, <1>4, EndsType DEF options_responce
    <2>. QED
      BY <1>0, <1>4, <2>1, <2>2 DEF options_responce, TypeOK, Pcs, dataVars, clientVars
  <1>5. CASE read_preview_data_read \/ read_preview_data_parse
    BY <1>0, <1>5, PreviewReadOutcome, PreviewParseOutcome DEF ReadingPreview, TypeOK, Pcs
  <1>6. CASE PreviewHandler
    <2>1. wire' \in Seq(Input) /\ held' \in Seq(Input)
      <3>1. (wire' = wire /\ held' = held) \/ (wire' = wire \o held /\ held' = <<>>)
        BY <1>6, HandlerOutcome
      <3>2. wire \o held \in Seq(Input) /\ <<>> \in Seq(Input)
        BY <1>0, ConcatProperties, EmptySeq
      <3>. QED
        BY <1>0, <3>1, <3>2
    <2>2. resp' \in Seq(Output)
      <3>1. 100 \in Int /\ 200 \in Int
        OBVIOUS
      <3>2. resp' = resp \/ \E c \in Int : resp' = Append(resp, <<"code", c>>)
        BY <1>6, <3>1, HandlerOutcome DEF AfterPreview
      <3>. QED
        BY <1>0, <3>2, CodeAppended
    <2>3. /\ pc' \in {"end", "wait", "end_of_data"} /\ loc' \in LocRec
          /\ pc = "preview" /\ req' \in ReqRec /\ req'.n = req.n
          /\ UNCHANGED <<conf, asked, read, dataVars>>
      BY <1>0, <1>6, HandlerOutcome DEF AfterPreview
    <2>. QED
      BY <1>0, <2>1, <2>2, <2>3 DEF TypeOK, Pcs, BodyPcs, dataVars
  <1>7. CASE gsb_NoWait
    BY <1>0, <1>7 DEF gsb_NoWait, TypeOK, Pcs, BodyPcs, dataVars, clientVars
  <1>8. CASE gsb_WaitFails
    <2>1. /\ req' \in ReqRec /\ req'.n = req.n /\ pc' \in {"end", "end_of_data"} /\ pc = "wait"
      BY <1>0, <1>8, BodyDoneOutcome DEF gsb_WaitFails
    <2>. QED
      BY <1>0, <1>8, <2>1 DEF gsb_WaitFails, TypeOK, Pcs, dataVars, clientVars
  <1>9. CASE gsb_Wait
    BY <1>0, <1>9, WaitOutcome DEF TypeOK, Pcs, BodyPcs, dataVars
  <1>10. CASE gsb_Update
    <2>1. ~loc'.formated => Len(req'.block) <= MAX_CHUNK_SIZE
      BY <1>10, UpdateOutcome, IcapRequestAssumption
    <2>2. /\ pc = "update" /\ pc' = "io" /\ UNCHANGED <<clientVars, read, dataVars, resp>>
          /\ req' \in ReqRec /\ req'.n = req.n /\ loc' \in LocRec
      BY <1>10, UpdateOutcome
    <2>. QED
      BY <1>0, <2>1, <2>2 DEF TypeOK, Pcs, BodyPcs, dataVars, clientVars
  <1>11. CASE gsb_ServiceIo
    <2>1. /\ pc = "io" /\ UNCHANGED <<clientVars, resp>>
          /\ read' \in Seq(Input) /\ echo' \in Seq(Data) /\ Len(echo') <= RingSize
          /\ got' \in Seq(Data) /\ made' \in Seq(Data)
          /\ req' \in ReqRec /\ req'.n = req.n /\ loc' \in LocRec
          /\ \/ pc' = "end"
             \/ /\ pc' \in {"io", "round"} /\ loc'.formated = loc.formated
                /\ ~loc.formated => Len(req'.block) <= MAX_CHUNK_SIZE
      BY <1>11, IoOutcome
    <2>. QED
      BY <1>0, <2>1 DEF TypeOK, Pcs, BodyPcs, clientVars
  <1>12. CASE gsb_Round
    <2>1. /\ pc = "round" /\ UNCHANGED <<clientVars, read, dataVars, resp>>
          /\ loc' \in LocRec /\ req' \in ReqRec /\ req'.n = req.n
          /\ pc' \in {"wait", "end", "end_of_data"}
      BY <1>12, RoundOutcome DEF Ended
    <2>. QED
      BY <1>0, <2>1 DEF TypeOK, Pcs, BodyPcs, dataVars, clientVars
  <1>13. CASE EndOfDataHandler
    <2>1. /\ pc = "end_of_data" /\ UNCHANGED <<clientVars, read, loc, dataVars>>
          /\ req' \in ReqRec /\ req'.n = req.n /\ resp' \in Seq(Output)
          /\ pc' \in {"rest", "end"}
      BY <1>13, EndOfDataOutcome
    <2>. QED
      BY <1>0, <2>1 DEF TypeOK, Pcs, dataVars, clientVars
  <1>14. CASE rest_Send
    BY <1>0, <1>14, RestSendOutcome DEF TypeOK, Pcs, dataVars, clientVars
  <1>15. CASE rest_Read
    BY <1>0, <1>15, RestReadOutcome DEF TypeOK, Pcs, clientVars
  <1>16. CASE rest_Update
    BY <1>0, <1>16, RestUpdateOutcome DEF TypeOK, Pcs, dataVars, clientVars
  <1>17. CASE EndRequest
    <2>1. req.ret \in {"CI_OK", "CI_ERROR"}
      BY <1>0 DEF ReqRec
    <2>2. req' \in ReqRec
      <3>1. req' = WithResult(FreshRequest, req.ret)
        BY <1>17 DEF EndRequest, WithResult
      <3>. QED
        BY <2>1, <3>1, FreshType, ResultSet DEF SameFields
    <2>3. /\ <<>> \in Seq(Data) /\ <<>> \in Seq(Output) /\ <<>> \in Seq(Input)
          /\ Len(<<>>) <= RingSize
      BY EmptySeq, IcapRequestAssumption
    <2>. QED
      BY <1>0, <1>17, <2>2, <2>3, FreshType DEF EndRequest, TypeOK, Pcs
  <1>18. CASE Closed
    BY <1>18 DEF Closed, vars, clientVars, dataVars, TypeOK
  <1>19. CASE UNCHANGED vars
    BY <1>19 DEF vars, clientVars, dataVars, TypeOK
  <1>. QED
    BY <1>1, <1>2, <1>3, <1>4, <1>5, <1>6, <1>7, <1>8, <1>9, <1>10, <1>11, <1>12, <1>13, <1>14,
       <1>15, <1>16, <1>17, <1>18, <1>19 DEF Next, Worker

(***************************************************************************)
(* One response                                                            *)
(***************************************************************************)
(* A response in order, and what it may hold so far in a status of         *)
(* sending: nothing that comes behind it.                                  *)
Ordered(s) ==
  \A i, j \in DOMAIN s : i < j =>
    Rank(s[i]) < Rank(s[j]) \/ (s[i][1] = "data" /\ s[j][1] = "data")

Top ==
  [t \in Statuses |->
     CASE t = "SEND_NOTHING" -> 1 [] t = "SEND_RESPHEAD" -> 2 [] t = "SEND_HEAD1" -> 3
       [] t = "SEND_BODY" -> 4 [] t = "SEND_EOF" -> 5 [] OTHER -> 6]

Below(s, k) == \A i \in DOMAIN s : Rank(s[i]) < k

(* A response that the engine goes on with (one whose body is only parsed  *)
(* has its answer already).                                                *)
GoingOn == pc \in {"end_of_data", "rest"} \/ (pc \in BodyPcs /\ ~loc.parse_only)

(* What is written and what is to be written are together in order and     *)
(* hold nothing of what the status says is still to come.                  *)
Phases ==
  /\ Ordered(resp \o req.block)
  /\ pc \in {"header", "options", "read_preview", "preview"} =>
       resp = <<>> /\ req.block = <<>> /\ req.status = "SEND_NOTHING"
  /\ GoingOn => Below(resp \o req.block, Top[req.status]) /\ req.code # 100
  /\ (pc \in BodyPcs /\ loc.parse_only) => req.locked /\ req.status = "SEND_NOTHING"
  /\ pc \in BodyPcs \cup {"end_of_data", "rest"} =>
       (req.status = "SEND_NOTHING" => req.block = <<>>)

(* The ranks of the elements of a response.                                *)
LEMMA RankType ==
  ASSUME NEW t \in Output
  PROVE  /\ Rank(t) \in 0 .. 5 /\ (Rank(t) = 3 <=> t[1] = "data")
         /\ t[1] = "code" /\ t[2] # 100 => Rank(t) = 1
         /\ t[1] = "head" => Rank(t) = 2
         /\ t[1] = "eof" => Rank(t) = 4
         /\ t[1] = "trailer" => Rank(t) = 5
  <1>1. t[1] \in {"code", "head", "data", "eof", "trailer"}
    BY DEF Output
  <1>2. CASE t[1] = "code"
    BY <1>2 DEF Rank
  <1>3. CASE t[1] = "head"
    BY <1>3 DEF Rank
  <1>4. CASE t[1] = "data"
    BY <1>4 DEF Rank
  <1>5. CASE t[1] = "eof"
    BY <1>5 DEF Rank
  <1>6. CASE t[1] = "trailer"
    BY <1>6 DEF Rank
  <1>. QED
    BY <1>1, <1>2, <1>3, <1>4, <1>5, <1>6

(* An element that comes behind all others is added at the end.            *)
LEMMA OrderedAppend ==
  ASSUME NEW s \in Seq(Output), NEW t \in Output, Ordered(s), Below(s, Rank(t))
  PROVE  /\ Ordered(Append(s, t)) /\ Below(Append(s, t), Rank(t) + 1)
  <1>. DEFINE u == Append(s, t)
  <1>1. /\ u \in Seq(Output) /\ Len(u) = Len(s) + 1 /\ Len(s) \in Nat
        /\ \A i \in 1 .. Len(s) : u[i] = s[i]
        /\ u[Len(s) + 1] = t
    BY AppendProperties
  <1>2. DOMAIN u = 1 .. Len(u) /\ DOMAIN s = 1 .. Len(s)
    BY <1>1
  <1>. HIDE DEF u
  <1>3. Ordered(u)
    <2>. SUFFICES ASSUME NEW i \in DOMAIN u, NEW j \in DOMAIN u, i < j
                  PROVE  Rank(u[i]) < Rank(u[j]) \/ (u[i][1] = "data" /\ u[j][1] = "data")
      BY DEF Ordered
    <2>1. i \in DOMAIN s /\ u[i] = s[i]
      BY <1>1, <1>2
    <2>2. CASE j \in DOMAIN s
      BY <1>1, <1>2, <2>1, <2>2 DEF Ordered
    <2>3. CASE j \notin DOMAIN s
      <3>1. u[j] = t
        BY <1>1, <1>2, <2>3
      <3>. QED
        BY <2>1, <3>1 DEF Below
    <2>. QED
      BY <2>2, <2>3
  <1>4. Below(u, Rank(t) + 1)
    <2>. SUFFICES ASSUME NEW i \in DOMAIN u PROVE Rank(u[i]) < Rank(t) + 1
      BY DEF Below
    <2>1. Rank(t) \in Int /\ Rank(u[i]) \in Int
      <3>1. u[i] \in Output
        BY <1>1, <1>2
      <3>. QED
        BY <3>1, RankType
    <2>2. CASE i \in DOMAIN s
      <3>1. Rank(u[i]) < Rank(t)
        BY <1>1, <1>2, <2>2 DEF Below
      <3>. QED
        BY <2>1, <3>1
    <2>3. CASE i \notin DOMAIN s
      <3>1. u[i] = t
        BY <1>1, <1>2, <2>3
      <3>. QED
        BY <2>1, <3>1
    <2>. QED
      BY <2>2, <2>3
  <1>. QED
    BY <1>3, <1>4 DEF u

(* Data are added behind everything up to data.                            *)
LEMMA OrderedData ==
  ASSUME NEW s \in Seq(Output), NEW d \in Seq(Data), Ordered(s), Below(s, 4)
  PROVE  Ordered(s \o d) /\ Below(s \o d, 4)
  <1>. DEFINE u == s \o d
  <1>1. d \in Seq(Output)
    BY DataIsBoth, SeqMonotonic
  <1>2. /\ u \in Seq(Output) /\ Len(u) = Len(s) + Len(d) /\ Len(s) \in Nat /\ Len(d) \in Nat
        /\ \A i \in 1 .. Len(s) + Len(d) : u[i] = IF i <= Len(s) THEN s[i] ELSE d[i - Len(s)]
    BY <1>1, ConcatProperties
  <1>3. DOMAIN u = 1 .. Len(u) /\ DOMAIN s = 1 .. Len(s)
    BY <1>2
  <1>. HIDE DEF u
  <1>4. \A i \in DOMAIN u : u[i] \in Output /\ Rank(u[i]) \in 0 .. 5
                            /\ (Rank(u[i]) = 3 <=> u[i][1] = "data")
    <2>1. \A i \in DOMAIN u : u[i] \in Output
      BY <1>2, <1>3, ElementOfSeq
    <2>. QED
      BY <2>1, RankType
  <1>5. \A i \in DOMAIN u : i \notin DOMAIN s => u[i][1] = "data"
    <2>. SUFFICES ASSUME NEW i \in DOMAIN u, i \notin DOMAIN s PROVE u[i][1] = "data"
      OBVIOUS
    <2>1. u[i] = d[i - Len(s)] /\ i - Len(s) \in 1 .. Len(d)
      BY <1>2, <1>3
    <2>2. d[i - Len(s)] \in Data
      BY <2>1, ElementOfSeq
    <2>. QED
      BY <2>1, <2>2 DEF Data
  <1>6. \A i \in DOMAIN s : i \in DOMAIN u /\ u[i] = s[i] /\ Rank(u[i]) < 4
    BY <1>2, <1>3 DEF Below
  <1>7. Below(u, 4)
    <2>. SUFFICES ASSUME NEW i \in DOMAIN u PROVE Rank(u[i]) < 4
      BY DEF Below
    <2>1. CASE i \in DOMAIN s
      BY <1>6, <2>1
    <2>2. CASE i \notin DOMAIN s
      BY <1>4, <1>5, <2>2
    <2>. QED
      BY <2>1, <2>2
  <1>8. Ordered(u)
    <2>. SUFFICES ASSUME NEW i \in DOMAIN u, NEW j \in DOMAIN u, i < j
                  PROVE  Rank(u[i]) < Rank(u[j]) \/ (u[i][1] = "data" /\ u[j][1] = "data")
      BY DEF Ordered
    <2>1. CASE j \in DOMAIN s
      <3>1. i \in DOMAIN s
        BY <1>2, <1>3, <2>1
      <3>. QED
        BY <1>6, <2>1, <3>1 DEF Ordered
    <2>2. CASE j \notin DOMAIN s
      <3>1. u[j][1] = "data" /\ Rank(u[j]) = 3
        BY <1>4, <1>5, <2>2
      <3>2. Rank(u[i]) < 4 /\ Rank(u[i]) \in 0 .. 5 /\ (Rank(u[i]) = 3 <=> u[i][1] = "data")
        BY <1>4, <1>7 DEF Below
      <3>. QED
        BY <3>1, <3>2
    <2>. QED
      BY <2>1, <2>2
  <1>. QED
    BY <1>7, <1>8 DEF u

(* A part of an ordered response that has been written is in order.        *)
LEMMA OrderedPrefix ==
  ASSUME NEW s \in Seq(Output), NEW b \in Seq(Output), Ordered(s \o b)
  PROVE  Ordered(s)
  <1>1. /\ s \o b \in Seq(Output) /\ Len(s \o b) = Len(s) + Len(b)
        /\ \A i \in 1 .. Len(s) + Len(b) :
             (s \o b)[i] = IF i <= Len(s) THEN s[i] ELSE b[i - Len(s)]
        /\ Len(s) \in Nat /\ Len(b) \in Nat
    BY ConcatProperties
  <1>2. DOMAIN s = 1 .. Len(s) /\ DOMAIN (s \o b) = 1 .. Len(s) + Len(b)
    BY <1>1
  <1>3. \A i \in DOMAIN s : i \in DOMAIN (s \o b) /\ (s \o b)[i] = s[i]
    BY <1>1, <1>2
  <1>. QED
    BY <1>3 DEF Ordered

(* The first status line of a response.                                    *)
LEMMA FirstCode ==
  ASSUME NEW c \in Int
  PROVE  /\ Append(<<>>, <<"code", c>>) \in Seq(Output)
         /\ Ordered(Append(<<>>, <<"code", c>>)) /\ Below(Append(<<>>, <<"code", c>>), 2)
         /\ c = 100 => Below(Append(<<>>, <<"code", c>>), 1)
  <1>. DEFINE t == <<"code", c>>
  <1>1. t \in Output /\ t[1] = "code" /\ t[2] = c
    BY DEF Output
  <1>2. <<>> \in Seq(Output)
    BY EmptySeq
  <1>3. Ordered(<<>>) /\ Below(<<>>, Rank(t))
    BY DEF Ordered, Below
  <1>4. Rank(t) = IF c = 100 THEN 0 ELSE 1
    BY <1>1 DEF Rank
  <1>. HIDE DEF t
  <1>5. Ordered(Append(<<>>, t)) /\ Below(Append(<<>>, t), Rank(t) + 1)
    BY <1>1, <1>2, <1>3, OrderedAppend
  <1>6. c = 100 => Below(Append(<<>>, t), 1)
    BY <1>4, <1>5
  <1>7. Append(<<>>, t) \in Seq(Output)
    BY <1>1, <1>2, AppendProperties
  <1>8. Below(Append(<<>>, t), 2)
    <2>. SUFFICES ASSUME NEW i \in DOMAIN Append(<<>>, t) PROVE Rank(Append(<<>>, t)[i]) < 2
      BY DEF Below
    <2>1. Append(<<>>, t)[i] \in Output
      BY <1>7
    <2>2. Rank(Append(<<>>, t)[i]) \in 0 .. 5
      BY <2>1, RankType
    <2>3. Rank(Append(<<>>, t)[i]) < Rank(t) + 1
      BY <1>5 DEF Below
    <2>. QED
      BY <1>4, <2>2, <2>3
  <1>. QED
    BY <1>5, <1>6, <1>7, <1>8 DEF t

(* A smaller bound is a bound.                                             *)
LEMMA BelowMore ==
  ASSUME NEW s \in Seq(Output), NEW k \in Nat, NEW m \in Nat, k <= m, Below(s, k)
  PROVE  Below(s, m)
  <1>. SUFFICES ASSUME NEW i \in DOMAIN s PROVE Rank(s[i]) < m
    BY DEF Below
  <1>1. s[i] \in Output
    BY ElementOfSeq
  <1>2. Rank(s[i]) \in 0 .. 5
    BY <1>1, RankType
  <1>3. Rank(s[i]) < k
    BY DEF Below
  <1>. QED
    BY <1>2, <1>3

(* A block of one element that comes behind what has been written.         *)
LEMMA OneMore ==
  ASSUME NEW r \in Seq(Output), NEW t \in Output, Ordered(r), Below(r, Rank(t))
  PROVE  Ordered(r \o <<t>>) /\ Below(r \o <<t>>, Rank(t) + 1)
  <1>1. r \o <<t>> = Append(r, t)
    BY AppendIsConcat
  <1>. QED
    BY <1>1, OrderedAppend

(* update_send_status adds the next part of the response, never one that   *)
(* has been sent.                                                          *)
LEMMA UpdateInOrder ==
  ASSUME NEW r \in Seq(Output), NEW x \in ReqRec, NEW y \in update_send_status(x),
         x.block = <<>>, x.code # 100, Ordered(r), Below(r, Top[x.status]),
         x.status = "SEND_NOTHING" => q_.hasbody \in BOOLEAN
  PROVE  /\ Ordered(r \o y.block) /\ Below(r \o y.block, Top[y.status])
         /\ y.code # 100 /\ y.locked = x.locked
         /\ y.status = "SEND_NOTHING" => y.block = <<>>
  <1>0. y \in ReqRec /\ y.locked = x.locked /\ y.code = x.code
    BY UpdateType
  <1>1. CASE x.status = "SEND_NOTHING"
    <2>1. PICK b \in BOOLEAN, t \in BOOLEAN : y = mk_responce_header(x, b, t)
      <3>1. (IF x.echoes THEN {q_.hasbody} ELSE BOOLEAN) \subseteq BOOLEAN
        BY <1>1
      <3>. QED
        BY <1>1, <3>1 DEF update_send_status
    <2>. DEFINE e == <<"code", x.code>>
    <2>2. y.status = "SEND_RESPHEAD" /\ y.block = <<e>>
      BY <2>1 DEF mk_responce_header, ReqRec
    <2>3. e \in Output /\ e[1] = "code" /\ e[2] # 100
      BY DEF Output, ReqRec
    <2>. HIDE DEF e
    <2>4. Rank(e) = 1 /\ Top[x.status] = 1 /\ Top[y.status] = 2
      BY <1>1, <2>2, <2>3, RankType DEF Top, Statuses
    <2>5. Ordered(r \o <<e>>) /\ Below(r \o <<e>>, 2)
      BY <2>3, <2>4, OneMore
    <2>. QED
      BY <1>0, <2>2, <2>4, <2>5
  <1>2. CASE x.status = "SEND_RESPHEAD"
    <2>. DEFINE e == <<"head", 0>>
    <2>1. y = [x EXCEPT !.status = "SEND_HEAD1", !.block = <<e>>]
      BY <1>2 DEF update_send_status
    <2>2. y.status = "SEND_HEAD1" /\ y.block = <<e>>
      BY <2>1 DEF ReqRec
    <2>3. e \in Output /\ e[1] = "head"
      BY DEF Output
    <2>. HIDE DEF e
    <2>4. Rank(e) = 2 /\ Top[x.status] = 2 /\ Top[y.status] = 3
      BY <1>2, <2>2, <2>3, RankType DEF Top, Statuses
    <2>5. Ordered(r \o <<e>>) /\ Below(r \o <<e>>, 3)
      BY <1>2, <2>3, <2>4, OneMore
    <2>. QED
      BY <1>0, <2>2, <2>4, <2>5
  <1>3. CASE x.status = "SEND_HEAD1"
    <2>1. y = [x EXCEPT !.status = IF x.respbody THEN "SEND_BODY" ELSE "SEND_EOF"]
      BY <1>3 DEF update_send_status
    <2>2. y.status \in {"SEND_BODY", "SEND_EOF"} /\ y.block = <<>>
      BY <2>1 DEF ReqRec
    <2>3. r \o y.block = r
      BY <2>2, ConcatEmptySeq
    <2>4. Top[x.status] = 3 /\ Top[y.status] \in {4, 5}
      BY <1>3, <2>2 DEF Top, Statuses
    <2>5. Below(r, Top[y.status])
      BY <1>3, <2>4, BelowMore
    <2>. QED
      BY <1>0, <2>2, <2>3, <2>5
  <1>4. CASE x.status = "SEND_EOF" /\ x.block = <<>> /\ x.trailers
    <2>. DEFINE e == <<"trailer", 0>>
    <2>1. y = [x EXCEPT !.status = "SEND_TRAILERS", !.block = <<e>>]
      BY <1>4 DEF update_send_status
    <2>2. y.status = "SEND_TRAILERS" /\ y.block = <<e>>
      BY <2>1 DEF ReqRec
    <2>3. e \in Output /\ e[1] = "trailer"
      BY DEF Output
    <2>. HIDE DEF e
    <2>4. Rank(e) = 5 /\ Top[x.status] = 5 /\ Top[y.status] = 6
      BY <1>4, <2>2, <2>3, RankType DEF Top, Statuses
    <2>5. Ordered(r \o <<e>>) /\ Below(r \o <<e>>, 6)
      BY <1>4, <2>3, <2>4, OneMore
    <2>. QED
      BY <1>0, <2>2, <2>4, <2>5
  <1>5. CASE /\ x.status \notin {"SEND_NOTHING", "SEND_RESPHEAD", "SEND_HEAD1"}
             /\ ~(x.status = "SEND_EOF" /\ x.block = <<>> /\ x.trailers)
    <2>1. update_send_status(x) = {x}
      BY <1>5 DEF update_send_status
    <2>2. r \o x.block = r
      BY ConcatEmptySeq
    <2>. QED
      BY <2>1, <2>2
  <1>. QED
    BY <1>1, <1>2, <1>3, <1>4, <1>5

(* The end of the body comes behind its data.                              *)
LEMMA EndInOrder ==
  ASSUME NEW r \in Seq(Output), NEW x \in ReqRec, NEW y \in ReqRec, Ended(x, y),
         Ordered(r), Below(r, Top[x.status])
  PROVE  Ordered(r \o y.block) /\ Below(r \o y.block, Top[y.status])
  <1>. DEFINE e == <<"eof", 0>>
  <1>1. x.status = "SEND_BODY" /\ y.status = "SEND_EOF" /\ y.block = <<e>>
    BY DEF Ended
  <1>2. e \in Output /\ e[1] = "eof"
    BY DEF Output
  <1>. HIDE DEF e
  <1>3. Rank(e) = 4 /\ Top[x.status] = 4 /\ Top[y.status] = 5
    BY <1>1, <1>2, RankType DEF Top, Statuses
  <1>4. Ordered(r \o <<e>>) /\ Below(r \o <<e>>, 5)
    BY <1>2, <1>3, OneMore
  <1>. QED
    BY <1>1, <1>3, <1>4

(* Where a request is over only the order matters.                         *)
LEMMA PhasesAtEnd ==
  ASSUME pc' = "end", Ordered(resp' \o req'.block)
  PROVE  Phases'
  BY DEF Phases, GoingOn, BodyPcs, Ordered, Rank

(* It goes on with what its status says is still to come.                  *)
LEMMA PhasesGoOn ==
  ASSUME pc' \in BodyPcs \cup {"end_of_data", "rest"}, pc' \in BodyPcs => ~loc'.parse_only,
         Ordered(resp' \o req'.block), Below(resp' \o req'.block, Top[req'.status]),
         req'.code # 100, req'.status = "SEND_NOTHING" => req'.block = <<>>
  PROVE  Phases'
  BY DEF Phases, GoingOn, BodyPcs, Ordered, Below, Rank, Top

(* Its body is only parsed.                                                *)
LEMMA PhasesParsing ==
  ASSUME pc' \in BodyPcs, loc'.parse_only, Ordered(resp' \o req'.block), req'.locked,
         req'.status = "SEND_NOTHING", req'.block = <<>>
  PROVE  Phases'
  BY DEF Phases, GoingOn, BodyPcs, Ordered, Rank

(* Every step keeps the response in order.                                 *)
LEMMA PhasesStep ==
  ASSUME EagerServices = FALSE, TypeOK, Phases, [Next]_vars
  PROVE  Phases'
  <1>0. /\ req \in ReqRec /\ resp \in Seq(Output) /\ req.block \in Seq(Output)
        /\ loc.parse_only \in BOOLEAN /\ <<>> \in Seq(Output)
    BY EmptySeq DEF TypeOK, ReqRec, LocRec
  <1>1. resp \o <<>> = resp
    BY <1>0, ConcatEmptySeq
  <1>2. ASSUME NEW r \in Seq(Output), NEW b, b = <<>> PROVE r \o b = r
    BY <1>2, ConcatEmptySeq
  (* before the body nothing has been sent *)
  <1>3. ASSUME resp = <<>>, req'.block = <<>>, pc' = "end",
               resp' = resp \/ \E c \in Int : resp' = Append(resp, <<"code", c>>)
        PROVE  Phases'
    <2>1. Ordered(<<>>)
      BY DEF Ordered
    <2>2. resp' \in Seq(Output) /\ Ordered(resp')
      BY <1>0, <1>3, <2>1, FirstCode
    <2>3. Ordered(resp' \o req'.block)
      BY <1>2, <1>3, <2>2
    <2>. QED
      BY <1>3, <2>3, PhasesAtEnd
  <1>4. ASSUME NEW i \in DOMAIN Requests, ClientSends(i) PROVE Phases'
    BY <1>4, SMTT(40) DEF ClientSends, Phases, GoingOn, Ordered, Below, Rank
  <1>5. CASE ReadRequest
    <2>1. resp = <<>> /\ req.block = <<>> /\ req.status = "SEND_NOTHING"
      BY <1>5, HeaderOutcome DEF Phases
    <2>2. CASE pc' = "end"
      BY <1>3, <1>5, <2>1, <2>2, HeaderOutcome
    <2>3. CASE pc' # "end"
      <3>1. /\ pc' \in {"options", "read_preview", "preview"} /\ resp' = <<>>
            /\ req'.block = <<>> /\ req'.status = "SEND_NOTHING"
        BY <1>5, <2>1, <2>3, HeaderOutcome
      <3>2. Ordered(resp' \o req'.block)
        BY <3>1 DEF Ordered
      <3>. QED
        BY <3>1, <3>2 DEF Phases, GoingOn, BodyPcs, Ordered, Rank
    <2>. QED
      BY <2>2, <2>3
  <1>6. CASE HeaderTimeout
    BY <1>6 DEF HeaderTimeout, Phases, GoingOn, BodyPcs, Ordered, Rank
  <1>7. CASE options_responce
    <2>1. resp = <<>> /\ req.block = <<>>
      BY <1>7 DEF options_responce, Phases
    <2>2. pc' = "end" /\ req'.block = <<>>
      BY <1>0, <1>7, <2>1, EndsType DEF options_responce
    <2>3. resp' = resp \/ \E c \in Int : resp' = Append(resp, <<"code", c>>)
      <3>1. 200 \in Int
        OBVIOUS
      <3>. QED
        BY <1>7, <3>1 DEF options_responce
    <2>. QED
      BY <1>3, <2>1, <2>2, <2>3
  <1>8. CASE read_preview_data_read \/ read_preview_data_parse
    <2>1. ReadingPreview
      BY <1>8, PreviewReadOutcome, PreviewParseOutcome
    <2>2. resp = <<>> /\ req.block = <<>> /\ req.status = "SEND_NOTHING"
      BY <2>1 DEF ReadingPreview, Phases
    <2>3. CASE pc' = "end"
      <3>1. 408 \in Int
        OBVIOUS
      <3>2. resp' = resp \/ \E c \in Int : resp' = Append(resp, <<"code", c>>)
        BY <2>1, <2>3, <3>1 DEF ReadingPreview
      <3>3. req'.block = <<>>
        BY <2>1, <2>2 DEF ReadingPreview
      <3>. QED
        BY <1>3, <2>2, <2>3, <3>2, <3>3
    <2>4. CASE pc' # "end"
      <3>1. /\ pc' \in {"read_preview", "preview"} /\ resp' = <<>>
            /\ req'.block = <<>> /\ req'.status = "SEND_NOTHING"
        BY <2>1, <2>2, <2>4 DEF ReadingPreview
      <3>2. Ordered(resp' \o req'.block)
        BY <3>1 DEF Ordered
      <3>. QED
        BY <3>1, <3>2 DEF Phases, GoingOn, BodyPcs, Ordered, Rank
    <2>. QED
      BY <2>3, <2>4
  <1>9. CASE PreviewHandler
    <2>1. resp = <<>> /\ req.block = <<>> /\ req.status = "SEND_NOTHING"
      BY <1>9, HandlerOutcome DEF Phases
    <2>2. AfterPreview /\ req'.block = <<>>
      BY <1>9, <2>1, HandlerOutcome
    <2>3. CASE pc' = "end"
      <3>1. resp' = resp \/ \E c \in Int : resp' = Append(resp, <<"code", c>>)
        BY <2>2, <2>3 DEF AfterPreview
      <3>. QED
        BY <1>3, <2>1, <2>2, <2>3, <3>1
    <2>4. CASE pc' = "wait" /\ loc'.parse_only = FALSE
      <3>1. /\ req'.status = "SEND_NOTHING" /\ req'.code = 200
            /\ resp' = resp \/ resp' = Append(resp, <<"code", 100>>)
        BY <2>2, <2>4 DEF AfterPreview
      <3>2. resp' \in Seq(Output) /\ Ordered(resp') /\ Below(resp', 1)
        <4>1. Ordered(<<>>) /\ Below(<<>>, 1)
          BY DEF Ordered, Below
        <4>2. 100 \in Int
          OBVIOUS
        <4>. QED
          BY <1>0, <2>1, <3>1, <4>1, <4>2, FirstCode
      <3>3. resp' \o req'.block = resp' /\ Top["SEND_NOTHING"] = 1
        BY <1>2, <2>2, <3>2 DEF Top, Statuses
      <3>. QED
        BY <2>2, <2>4, <3>1, <3>2, <3>3, PhasesGoOn DEF BodyPcs
    <2>5. CASE pc' = "wait" /\ loc'.parse_only = TRUE
      <3>1. /\ req'.status = "SEND_NOTHING" /\ req'.locked
            /\ \E c \in Int : resp' = Append(resp, <<"code", c>>)
        BY <2>2, <2>5 DEF AfterPreview
      <3>2. resp' \in Seq(Output) /\ Ordered(resp')
        BY <2>1, <3>1, FirstCode
      <3>3. resp' \o req'.block = resp'
        BY <1>2, <2>2, <3>2
      <3>. QED
        BY <2>2, <2>5, <3>1, <3>2, <3>3, PhasesParsing DEF BodyPcs
    <2>6. CASE pc' = "end_of_data"
      <3>1. /\ req'.code # 100
            /\ \/ resp' = resp /\ req'.status = "SEND_NOTHING"
               \/ req'.status = "SEND_EOF" /\ resp' = Append(resp, <<"code", 200>>)
        BY <2>1, <2>2, <2>6 DEF AfterPreview
      <3>2. Top["SEND_NOTHING"] = 1 /\ Top["SEND_EOF"] = 5
        BY DEF Top, Statuses
      <3>3. resp' \in Seq(Output) /\ Ordered(resp') /\ Below(resp', Top[req'.status])
        <4>1. CASE resp' = resp /\ req'.status = "SEND_NOTHING"
          BY <1>0, <2>1, <4>1 DEF Ordered, Below
        <4>2. CASE req'.status = "SEND_EOF" /\ resp' = Append(resp, <<"code", 200>>)
          <5>1. 200 \in Int
            OBVIOUS
          <5>2. resp' \in Seq(Output) /\ Ordered(resp') /\ Below(resp', 2)
            BY <2>1, <4>2, <5>1, FirstCode
          <5>3. 2 \in Nat /\ 5 \in Nat /\ 2 <= 5
            OBVIOUS
          <5>4. Below(resp', 5)
            BY <5>2, <5>3, BelowMore
          <5>. QED
            BY <3>2, <4>2, <5>2, <5>4
        <4>. QED
          BY <3>1, <4>1, <4>2
      <3>4. resp' \o req'.block = resp'
        BY <1>2, <2>2, <3>3
      <3>. QED
        BY <2>2, <2>6, <3>1, <3>3, <3>4, PhasesGoOn DEF BodyPcs
    <2>. QED
      BY <2>2, <2>3, <2>4, <2>5, <2>6 DEF AfterPreview
  <1>10. CASE gsb_NoWait
    BY <1>10, SMTT(40) DEF gsb_NoWait, Phases, GoingOn, BodyPcs, Ordered, Below, Rank
  <1>11. CASE gsb_WaitFails
    <2>1. pc = "wait" /\ (BodyDone(req) \/ BodyError(req)) /\ loc' = loc /\ resp' = resp
      BY <1>11, Zenon DEF gsb_WaitFails
    <2>2. /\ req'.block = req.block
          /\ pc' = "end" \/ (pc' = "end_of_data" /\ req' = req /\ loc.parse_only = FALSE)
      BY <1>0, <2>1, BodyDoneOutcome
    <2>3. resp' \o req'.block = resp \o req.block
      BY <2>1, <2>2
    <2>4. CASE pc' = "end"
      BY <2>3, <2>4, PhasesAtEnd DEF Phases
    <2>5. CASE pc' = "end_of_data" /\ req' = req /\ loc.parse_only = FALSE
      BY <2>1, <2>3, <2>5, PhasesGoOn DEF Phases, GoingOn, BodyPcs
    <2>. QED
      BY <2>2, <2>4, <2>5
  <1>12. CASE gsb_Wait
    <2>1. PICK x \in ReqRec, y \in ReqRec :
            /\ x.block = req.block /\ x.status = req.status /\ x.code = req.code
            /\ x.locked = req.locked
            /\ y = x \/ (~x.locked /\ x.status = "SEND_NOTHING" /\ y \in update_send_status(x))
            /\ resp' \o req'.block = resp \o y.block
            /\ req'.status = y.status /\ req'.code = y.code /\ req'.locked = y.locked
            /\ y.block = <<>> => req'.block = <<>>
      BY <1>12, WaitOutcome
    <2>2. pc = "wait" /\ pc' = "update" /\ loc' = loc
      BY <1>12, WaitOutcome
    <2>3. CASE loc.parse_only
      <3>1. req.locked /\ req.status = "SEND_NOTHING" /\ req.block = <<>>
        BY <2>2, <2>3 DEF Phases, BodyPcs
      <3>2. y = x
        BY <2>1, <3>1
      <3>. QED
        BY <2>1, <2>2, <2>3, <3>1, <3>2, PhasesParsing DEF Phases, BodyPcs
    <2>4. CASE ~loc.parse_only
      <3>1. /\ Ordered(resp \o req.block) /\ Below(resp \o req.block, Top[req.status])
            /\ req.code # 100 /\ (req.status = "SEND_NOTHING" => req.block = <<>>)
        BY <2>2, <2>4 DEF Phases, GoingOn, BodyPcs
      <3>2. CASE y = x
        BY <2>1, <2>2, <2>4, <3>1, <3>2, PhasesGoOn DEF BodyPcs
      <3>3. CASE x.status = "SEND_NOTHING" /\ y \in update_send_status(x)
        <4>1. x.block = <<>> /\ x.code # 100
          BY <2>1, <3>1, <3>3
        <4>2. resp \o req.block = resp
          BY <1>2, <1>0, <2>1, <4>1
        <4>3. Ordered(resp) /\ Below(resp, Top[x.status])
          BY <2>1, <3>1, <4>2
        <4>4. /\ Ordered(resp \o y.block) /\ Below(resp \o y.block, Top[y.status])
              /\ y.code # 100 /\ (y.status = "SEND_NOTHING" => y.block = <<>>)
          BY <1>0, <2>2, <3>3, <4>1, <4>3, UpdateInOrder, CurrentRequest
        <4>. QED
          BY <2>1, <2>2, <2>4, <4>4, PhasesGoOn DEF BodyPcs
      <3>. QED
        BY <2>1, <3>2, <3>3
    <2>. QED
      BY <2>3, <2>4
  <1>13. CASE gsb_Update
    <2>1. /\ pc = "update" /\ pc' = "io" /\ resp' = resp /\ loc'.parse_only = loc.parse_only
          /\ req' = req \/ (~req.locked /\ req.block = <<>> /\ req' \in update_send_status(req))
      BY <1>13, UpdateOutcome
    <2>2. CASE loc.parse_only
      <3>1. req.locked /\ req.status = "SEND_NOTHING" /\ req.block = <<>>
        BY <2>1, <2>2 DEF Phases, BodyPcs
      <3>2. req' = req
        BY <2>1, <3>1
      <3>. QED
        BY <2>1, <2>2, <3>1, <3>2, PhasesParsing DEF Phases, BodyPcs
    <2>3. CASE ~loc.parse_only
      <3>1. /\ Ordered(resp \o req.block) /\ Below(resp \o req.block, Top[req.status])
            /\ req.code # 100 /\ (req.status = "SEND_NOTHING" => req.block = <<>>)
        BY <2>1, <2>3 DEF Phases, GoingOn, BodyPcs
      <3>2. CASE req' = req
        BY <2>1, <2>3, <3>1, <3>2, PhasesGoOn DEF BodyPcs
      <3>3. CASE req.block = <<>> /\ req' \in update_send_status(req)
        <4>1. PICK y : y = req'
          OBVIOUS
        <4>2. resp \o req.block = resp
          BY <1>2, <1>0, <3>3
        <4>3. Ordered(resp) /\ Below(resp, Top[req.status]) /\ y \in update_send_status(req)
          BY <3>1, <3>3, <4>1, <4>2
        <4>4. /\ Ordered(resp \o y.block) /\ Below(resp \o y.block, Top[y.status])
              /\ y.code # 100 /\ (y.status = "SEND_NOTHING" => y.block = <<>>)
          BY <1>0, <2>1, <3>1, <3>3, <4>3, UpdateInOrder, CurrentRequest
        <4>. QED
          BY <2>1, <2>3, <4>1, <4>4, PhasesGoOn DEF BodyPcs
      <3>. QED
        BY <2>1, <3>2, <3>3
    <2>. QED
      BY <2>2, <2>3
  <1>14. CASE gsb_ServiceIo
    <2>1. pc = "io" /\ resp' = resp /\ req' \in ReqRec
      BY <1>14, IoOutcome
    <2>2. CASE pc' = "end" /\ req'.block = req.block
      <3>1. resp' \o req'.block = resp \o req.block
        BY <2>1, <2>2
      <3>. QED
        BY <2>2, <3>1, PhasesAtEnd DEF Phases
    <2>3. CASE ~(pc' = "end" /\ req'.block = req.block)
      <3>1. /\ pc' \in {"io", "round"} /\ loc'.parse_only = loc.parse_only
            /\ req'.status = req.status /\ req'.code = req.code
            /\ loc.parse_only => req'.locked = req.locked
        BY <1>14, <2>3, IoOutcome
      <3>2. PICK d \in Seq(Data) :
              /\ req'.block = req.block \o d
              /\ d # <<>> => req.status = "SEND_BODY" /\ ~loc.parse_only
        BY <1>14, <2>3, IoOutcome
      <3>3. d \in Seq(Output)
        BY DataIsBoth, SeqMonotonic
      <3>4. resp' \o req'.block = resp \o (req.block \o d)
        BY <2>1, <3>2
      <3>5. resp \o (req.block \o d) = (resp \o req.block) \o d
        <4>1. \A a, b, c \in Seq(Output) : a \o (b \o c) = (a \o b) \o c
          BY ConcatAssociative, SMTT(40)
        <4>. QED
          BY <1>0, <3>3, <4>1
      <3>6. PICK u \in Seq(Output) : u = resp \o req.block
        BY <1>0, ConcatProperties
      <3>7. resp' \o req'.block = u \o d
        BY <3>4, <3>5, <3>6
      <3>8. Ordered(u)
        BY <3>6 DEF Phases
      <3>9. CASE loc.parse_only
        <4>1. d = <<>> /\ req.locked /\ req.status = "SEND_NOTHING" /\ req.block = <<>>
          BY <2>1, <3>2, <3>9 DEF Phases, BodyPcs
        <4>2. u \o d = u /\ req'.block = <<>>
          BY <1>2, <3>2, <3>6, <4>1
        <4>3. Ordered(resp' \o req'.block)
          BY <3>7, <3>8, <4>2
        <4>. QED
          BY <3>1, <3>9, <4>1, <4>2, <4>3, PhasesParsing DEF BodyPcs
      <3>10. CASE ~loc.parse_only
        <4>1. /\ Below(u, Top[req.status]) /\ req.code # 100
              /\ (req.status = "SEND_NOTHING" => req.block = <<>>)
          BY <2>1, <3>6, <3>10 DEF Phases, GoingOn, BodyPcs
        <4>2. CASE d = <<>>
          <5>1. u \o d = u /\ (req'.status = "SEND_NOTHING" => req'.block = <<>>)
            BY <1>2, <3>1, <3>2, <3>6, <4>1, <4>2
          <5>2. Ordered(resp' \o req'.block) /\ Below(resp' \o req'.block, Top[req'.status])
            BY <3>1, <3>7, <3>8, <4>1, <5>1
          <5>. QED
            BY <3>1, <3>10, <4>1, <5>1, <5>2, PhasesGoOn DEF BodyPcs
        <4>3. CASE d # <<>>
          <5>1. req'.status = "SEND_BODY" /\ Top["SEND_BODY"] = 4 /\ req.status = "SEND_BODY"
            BY <3>1, <3>2, <4>3 DEF Top, Statuses
          <5>2. Ordered(u \o d) /\ Below(u \o d, 4)
            BY <3>6, <3>8, <4>1, <5>1, OrderedData
          <5>3. Ordered(resp' \o req'.block) /\ Below(resp' \o req'.block, Top[req'.status])
            BY <3>7, <5>1, <5>2
          <5>. QED
            BY <3>1, <3>10, <4>1, <5>1, <5>3, PhasesGoOn DEF BodyPcs
        <4>. QED
          BY <4>2, <4>3
      <3>. QED
        BY <3>9, <3>10
    <2>. QED
      BY <2>2, <2>3
  <1>15. CASE gsb_Round
    <2>1. pc = "round" /\ resp' = resp /\ loc'.parse_only = loc.parse_only
      BY <1>15, RoundOutcome
    <2>2. PICK x \in ReqRec :
            /\ x = req \/ Ended(req, x)
            /\ req' \in ReqRec /\ req'.block = x.block /\ req'.n = x.n
            /\ \/ pc' = "wait" /\ req' = x
               \/ pc' = "end"
               \/ pc' = "end_of_data" /\ req' = x /\ loc.parse_only = FALSE
      BY <1>15, RoundOutcome
    <2>3. resp' \o req'.block = resp \o x.block
      BY <2>1, <2>2
    <2>4. CASE loc.parse_only
      <3>1. req.locked /\ req.status = "SEND_NOTHING" /\ req.block = <<>>
        BY <2>1, <2>4 DEF Phases, BodyPcs
      <3>2. x = req /\ Ordered(resp \o x.block)
        BY <2>2, <3>1 DEF Ended, Phases
      <3>3. CASE pc' = "end"
        BY <2>3, <3>2, <3>3, PhasesAtEnd
      <3>4. CASE pc' = "wait" /\ req' = x
        BY <2>1, <2>3, <2>4, <3>1, <3>2, <3>4, PhasesParsing DEF BodyPcs
      <3>. QED
        BY <2>2, <2>4, <3>3, <3>4
    <2>5. CASE ~loc.parse_only
      <3>1. /\ Ordered(resp \o req.block) /\ Below(resp \o req.block, Top[req.status])
            /\ req.code # 100 /\ (req.status = "SEND_NOTHING" => req.block = <<>>)
        BY <2>1, <2>5 DEF Phases, GoingOn, BodyPcs
      <3>2. /\ Ordered(resp \o x.block) /\ Below(resp \o x.block, Top[x.status])
            /\ x.code # 100 /\ (x.status = "SEND_NOTHING" => x.block = <<>>)
        <4>1. CASE x = req
          BY <3>1, <4>1
        <4>2. CASE Ended(req, x)
          <5>1. resp \o req.block = resp
            BY <1>0, <1>2, <4>2 DEF Ended
          <5>2. Ordered(resp \o x.block) /\ Below(resp \o x.block, Top[x.status])
            BY <1>0, <3>1, <4>2, <5>1, EndInOrder
          <5>. QED
            BY <3>1, <4>2, <5>2 DEF Ended
        <4>. QED
          BY <2>2, <4>1, <4>2
      <3>3. CASE pc' = "end"
        BY <2>3, <3>2, <3>3, PhasesAtEnd
      <3>4. CASE pc' \in {"wait", "end_of_data"} /\ req' = x
        BY <2>1, <2>3, <2>5, <3>2, <3>4, PhasesGoOn DEF BodyPcs
      <3>. QED
        BY <2>2, <3>3, <3>4
    <2>. QED
      BY <2>4, <2>5
  <1>16. CASE EndOfDataHandler
    <2>1. /\ pc = "end_of_data" /\ req'.block = req.block /\ resp' \in Seq(Output)
          /\ req' \in ReqRec
      BY <1>16, EndOfDataOutcome
    <2>2. /\ Ordered(resp \o req.block) /\ Below(resp \o req.block, Top[req.status])
          /\ req.code # 100 /\ (req.status = "SEND_NOTHING" => req.block = <<>>)
      BY <2>1 DEF Phases, GoingOn, BodyPcs
    <2>3. ASSUME NEW c \in {200, 204, 500}, req.status = "SEND_NOTHING",
                 resp' = Append(resp, <<"code", c>>)
          PROVE  /\ req'.block = <<>> /\ Ordered(resp' \o req'.block)
                 /\ Below(resp' \o req'.block, 5)
      <3>1. req.block = <<>> /\ req'.block = <<>> /\ Top["SEND_NOTHING"] = 1
        BY <2>1, <2>2, <2>3 DEF Top, Statuses
      <3>2. resp \o req.block = resp /\ resp' \o req'.block = resp'
        BY <1>0, <1>2, <2>1, <3>1
      <3>3. Ordered(resp) /\ Below(resp, 1)
        BY <2>2, <2>3, <3>1, <3>2
      <3>4. PICK t \in Output : t = <<"code", c>>
        <4>1. <<"code", c>> \in Output
          BY DEF Output
        <4>. QED
          BY <4>1
      <3>5. Rank(t) = 1
        BY <3>4 DEF Rank
      <3>6. Ordered(Append(resp, t)) /\ Below(Append(resp, t), 2)
        BY <1>0, <3>3, <3>5, OrderedAppend
      <3>7. Ordered(resp') /\ Below(resp', 2)
        BY <2>3, <3>4, <3>6
      <3>8. 2 \in Nat /\ 5 \in Nat /\ 2 <= 5
        OBVIOUS
      <3>9. Below(resp', 5)
        BY <2>1, <3>7, <3>8, BelowMore
      <3>. QED
        BY <3>1, <3>2, <3>7, <3>9
    <2>4. CASE /\ pc' = "rest" /\ resp' = resp /\ req'.status = req.status
               /\ req'.code = req.code \/ req'.code = 206
      <3>1. resp' \o req'.block = resp \o req.block /\ req'.code # 100
        BY <2>1, <2>2, <2>4
      <3>. QED
        BY <2>1, <2>2, <2>4, <3>1, PhasesGoOn DEF BodyPcs
    <2>5. CASE /\ pc' = "rest" /\ resp' = Append(resp, <<"code", 200>>)
               /\ req.status = "SEND_NOTHING" /\ req'.status = "SEND_EOF" /\ req'.code = 200
      <3>1. /\ req'.block = <<>> /\ Ordered(resp' \o req'.block)
            /\ Below(resp' \o req'.block, 5)
        BY <2>3, <2>5
      <3>2. Top[req'.status] = 5
        BY <2>5 DEF Top, Statuses
      <3>. QED
        BY <2>5, <3>1, <3>2, PhasesGoOn DEF BodyPcs
    <2>6. CASE pc' = "end" /\ resp' = resp
      <3>1. resp' \o req'.block = resp \o req.block
        BY <2>1, <2>6
      <3>. QED
        BY <2>2, <2>6, <3>1, PhasesAtEnd
    <2>7. CASE /\ pc' = "end" /\ req.status = "SEND_NOTHING"
               /\ \E c \in {204, 500} : resp' = Append(resp, <<"code", StatusCode(c)>>)
      <3>1. \E c \in {200, 204, 500} : resp' = Append(resp, <<"code", c>>)
        BY <2>7 DEF StatusCode
      <3>2. Ordered(resp' \o req'.block)
        BY <2>3, <2>7, <3>1
      <3>. QED
        BY <2>7, <3>2, PhasesAtEnd
    <2>. QED
      BY <1>16, <2>4, <2>5, <2>6, <2>7, EndOfDataOutcome
  <1>17. CASE rest_Send \/ rest_Read \/ rest_Update
    <2>1. pc = "rest"
      BY <1>17, RestSendOutcome, RestReadOutcome, RestUpdateOutcome
    <2>2. /\ Ordered(resp \o req.block) /\ Below(resp \o req.block, Top[req.status])
          /\ req.code # 100 /\ (req.status = "SEND_NOTHING" => req.block = <<>>)
      BY <2>1 DEF Phases, GoingOn, BodyPcs
    <2>3. CASE rest_Send
      <3>1. /\ resp' \o req'.block = resp \o req.block
            /\ \/ pc' = "end"
               \/ pc' = "rest" /\ req'.status = req.status /\ req'.code = req.code
        BY <2>3, RestSendOutcome
      <3>2. req.block # <<>>
        BY <2>3, Zenon DEF rest_Send
      <3>3. CASE pc' = "end"
        BY <2>2, <3>1, <3>3, PhasesAtEnd
      <3>4. CASE pc' # "end"
        BY <2>2, <3>1, <3>2, <3>4, PhasesGoOn DEF BodyPcs
      <3>. QED
        BY <3>3, <3>4
    <2>4. CASE rest_Read
      <3>1. req.block = <<>> /\ req.status = "SEND_BODY" /\ resp' = resp /\ req' \in ReqRec
        BY <2>4, RestReadOutcome
      <3>2. resp \o req.block = resp /\ Top["SEND_BODY"] = 4
        BY <1>0, <1>2, <3>1 DEF Top, Statuses
      <3>3. PICK y \in ReqRec : y = req'
        BY <3>1
      <3>4. resp' \o req'.block = resp \o y.block
        BY <3>1, <3>3
      <3>5. CASE pc' = "end" /\ req'.block = req.block
        BY <2>2, <3>1, <3>3, <3>4, <3>5, PhasesAtEnd
      <3>6. CASE pc' = "rest" /\ Ended(req, req')
        <4>1. Ended(req, y)
          BY <3>3, <3>6
        <4>2. Ordered(resp \o y.block) /\ Below(resp \o y.block, Top[y.status])
          BY <1>0, <2>2, <3>2, <4>1, EndInOrder
        <4>. QED
          BY <2>2, <3>3, <3>4, <3>6, <4>1, <4>2, PhasesGoOn DEF BodyPcs, Ended
      <3>7. CASE /\ pc' = "rest" /\ req'.block \in Seq(Data) /\ req'.status = req.status
                 /\ req'.code = req.code
        <4>1. y.block \in Seq(Data)
          BY <3>3, <3>7
        <4>2. Ordered(resp \o y.block) /\ Below(resp \o y.block, 4)
          BY <1>0, <2>2, <3>1, <3>2, <4>1, OrderedData
        <4>. QED
          BY <2>2, <3>1, <3>2, <3>4, <3>7, <4>2, PhasesGoOn DEF BodyPcs
      <3>. QED
        BY <2>4, <3>5, <3>6, <3>7, RestReadOutcome
    <2>5. CASE rest_Update
      <3>1. req.block = <<>> /\ resp' = resp
        BY <2>5, RestUpdateOutcome
      <3>2. PICK y \in update_send_status(req) :
              /\ req'.block = y.block
              /\ pc' = "end" \/ (pc' = "rest" /\ req' = y)
        BY <2>5, RestUpdateOutcome
      <3>3. resp \o req.block = resp /\ resp' \o req'.block = resp \o y.block
        BY <1>0, <1>2, <3>1, <3>2
      <3>4. Ordered(resp) /\ Below(resp, Top[req.status])
        BY <2>2, <3>3
      <3>5. /\ Ordered(resp \o y.block) /\ Below(resp \o y.block, Top[y.status])
            /\ y.code # 100 /\ (y.status = "SEND_NOTHING" => y.block = <<>>)
        BY <1>0, <2>1, <2>2, <3>1, <3>4, UpdateInOrder, CurrentRequest
      <3>6. CASE pc' = "end"
        BY <3>3, <3>5, <3>6, PhasesAtEnd
      <3>7. CASE pc' = "rest" /\ req' = y
        BY <3>3, <3>5, <3>7, PhasesGoOn DEF BodyPcs
      <3>. QED
        BY <3>2, <3>6, <3>7
    <2>. QED
      BY <1>17, <2>3, <2>4, <2>5
  <1>18. CASE EndRequest
    <2>1. /\ pc' \in {"header", "closed"} /\ resp' = <<>>
          /\ req'.block = <<>> /\ req'.status = "SEND_NOTHING"
      BY <1>18 DEF EndRequest, FreshRequest
    <2>2. Ordered(resp' \o req'.block)
      BY <2>1 DEF Ordered
    <2>. QED
      BY <2>1, <2>2 DEF Phases, GoingOn, BodyPcs, Ordered, Rank
  <1>19. CASE Closed
    BY <1>19, SMTT(40) DEF Closed, vars, clientVars, dataVars, Phases, GoingOn, Ordered, Below, Rank
  <1>20. CASE UNCHANGED vars
    BY <1>20, SMTT(40) DEF vars, clientVars, dataVars, Phases, GoingOn, Ordered, Below, Rank
  <1>. QED
    BY <1>4, <1>5, <1>6, <1>7, <1>8, <1>9, <1>10, <1>11, <1>12, <1>13, <1>14, <1>15, <1>16,
       <1>17, <1>18, <1>19, <1>20 DEF Next, Worker

(* A connection begins with nothing to send.                               *)
LEMMA PhasesInit == Init => Phases
  <1>. SUFFICES ASSUME Init PROVE Phases
    OBVIOUS
  <1>1. /\ pc = "header" /\ resp = <<>> /\ req.block = <<>> /\ req.status = "SEND_NOTHING"
    BY DEF Init, FreshRequest
  <1>2. Ordered(resp \o req.block)
    BY <1>1 DEF Ordered
  <1>. QED
    BY <1>1, <1>2 DEF Phases, GoingOn, BodyPcs

(* What is written of a response is in order.                              *)
LEMMA PhasesOneResponse == TypeOK /\ Phases => OneResponse
  <1>. SUFFICES ASSUME TypeOK, Phases PROVE OneResponse
    OBVIOUS
  <1>1. resp \in Seq(Output) /\ req.block \in Seq(Output)
    BY DEF TypeOK, ReqRec
  <1>2. Ordered(resp)
    BY <1>1, OrderedPrefix DEF Phases
  <1>. QED
    BY <1>2 DEF Ordered, OneResponse

(* The worker's data, the client's and the service's stay of their types,  *)
(* req->echo_body does not run over and a chunk stays within               *)
(* MAX_CHUNK_SIZE: the buffers of ci_request_t hold what is put in them,   *)
(* for any requests, handlers and cuts of the data.                        *)
THEOREM RequestTypes == Spec => []TypeOK
  <1>1. Init => TypeOK
    BY TypeInit
  <1>2. TypeOK /\ [Next]_vars => TypeOK'
    BY TypeStep
  <1>. QED
    BY <1>1, <1>2, PTL DEF Spec

(* A request gets at most one "100 Continue", one final status line, one   *)
(* HTTP header, data, one last chunk and one trailer, in this order: the   *)
(* error responses of do_request, ec_responce and update_send_status do    *)
(* not overlap, for any requests, handlers and cuts of the data, when no   *)
(* service unlocks a response that it answers with 204 outside preview.    *)
THEOREM OneResponseEach == EagerServices = FALSE => (Spec => []OneResponse)
  <1>. SUFFICES ASSUME EagerServices = FALSE PROVE Spec => []OneResponse
    OBVIOUS
  <1>1. Init => TypeOK /\ Phases
    BY TypeInit, PhasesInit
  <1>2. TypeOK /\ Phases /\ [Next]_vars => (TypeOK /\ Phases)'
    BY TypeStep, PhasesStep
  <1>3. TypeOK /\ Phases => OneResponse
    BY PhasesOneResponse
  <1>. QED
    BY <1>1, <1>2, <1>3, PTL DEF Spec

(***************************************************************************)
(* The stream of requests                                                  *)
(***************************************************************************)
(* The units behind the first k of m, and what ends them.                  *)
Rest(k, m, last) == Append(Units(k + 1, m), last)
BodyRest(q, k) == Rest(k, q.len, LastChunk(q))
PreviewLen(q) == Least(q.preview, q.len)
PreviewRest(q, k) ==
  Rest(k, PreviewLen(q), IF q.preview >= q.len THEN <<"ieof", 0>> ELSE <<"zero", 0>>)

(* What a client sends behind the header.                               *)
After(q) ==
  IF ~q.hasbody THEN <<>> ELSE IF q.preview < 0 THEN BodyRest(q, 0) ELSE PreviewRest(q, 0)

(* What is not parsed yet is j and then, unless i is 0, the next request.  *)
Nexts == DOMAIN Requests \cup {0}
NextPart(i) == IF i = 0 THEN <<>> ELSE FirstPart(i, Requests[i])
Unread(j, i) ==
  read \o wire = j \o NextPart(i) /\ (i # 0 => held = AfterContinue(Requests[i]))

(* How much of the body has been parsed.                                   *)
Seen == Len(got) + Len(req.pending)

(* Between two requests: nothing is left of the last one, or the next      *)
(* header is not there where it is looked for, because the request failed, *)
(* or was an OPTIONS request with a body, and then nothing else is there   *)
(* that looks like one.                                                    *)
OffBoundary == pc = "header" \/ req.ret = "CI_ERROR" \/ (q_.options /\ q_.hasbody)
Boundary ==
  \E i \in Nexts, j \in Seq(Input) :
    Unread(j, i) /\ (j = <<>> \/ (OffBoundary /\ j[1][1] # "header"))

(* The preview is read, the preview has been read, or there is none.       *)
AtReadPreview ==
  /\ q_.hasbody /\ q_.preview >= 0 /\ Seen <= PreviewLen(q_)
  /\ read \o wire = PreviewRest(q_, Seen)
AtPreview ==
  /\ q_.hasbody /\ q_.preview >= 0 =>
       /\ read \o wire = <<>> /\ Seen = PreviewLen(q_)
       /\ req.eof = (q_.preview >= q_.len)
       /\ req.preview = IF q_.preview >= q_.len THEN "CI_EOF" ELSE "CI_OK"
  /\ q_.hasbody /\ q_.preview < 0 =>
       read \o wire = BodyRest(q_, 0) /\ Seen = 0 /\ req.eof = FALSE
  /\ ~q_.hasbody => read \o wire = <<>>

(* The body is read: its rest is on its way, or the client waits to be     *)
(* told to continue.                                                       *)
Left(i) == IF req.eof \/ (i = 0 /\ held # <<>>) THEN <<>> ELSE BodyRest(q_, Seen)
InBody ==
  /\ q_.hasbody /\ (req.eof => Seen = q_.len)
  /\ loc.parse_ret = "CI_EOF" => req.eof
  /\ \E i \in Nexts : Unread(Left(i), i)

(* The data that have been parsed are the first units of the body.         *)
InOrder == got \o req.pending = Units(1, Seen) /\ (req.n # 0 => Seen <= q_.len)

(* What the worker has read and what it may still read, at every place.    *)
Stream ==
  /\ InOrder
  /\ pc = "header" => Boundary /\ Seen = 0 /\ resp = <<>> /\ req.eof = FALSE
  /\ pc \in {"options", "read_preview", "preview"} =>
       /\ req.pending = <<>> /\ resp = <<>> /\ held = AfterContinue(q_)
  /\ pc = "options" => q_.options /\ read \o wire = After(q_)
  /\ pc = "read_preview" => AtReadPreview
  /\ pc = "preview" => AtPreview
  /\ pc \in BodyPcs => InBody
  /\ pc = "wait" /\ "read" \in loc.action => req.pending = <<>>
  /\ pc \in {"end_of_data", "rest"} => \E i \in Nexts : Unread(<<>>, i)
  /\ pc = "end_of_data" /\ q_.hasbody /\ req.status = "SEND_NOTHING" /\ req.code = 200 =>
       req.eof /\ Seen = q_.len
  /\ pc = "end" /\ req.keepalive => Boundary

(* Dropping the front of a concatenation.                                  *)
LEMMA DropFront ==
  ASSUME NEW S, NEW r \in Seq(S), NEW w \in Seq(S), NEW n \in 0 .. Len(r)
  PROVE  Drop(r, n) \in Seq(S) /\ Len(Drop(r, n)) = Len(r) - n
         /\ Drop(r, n) \o w = Drop(r \o w, n)
  <1>1. Len(r) \in Nat /\ Len(w) \in Nat /\ n \in Nat /\ n <= Len(r)
    BY LenProperties
  <1>2. /\ Drop(r, n) \in Seq(S) /\ Len(Drop(r, n)) = Len(r) - n
        /\ \A i \in 1 .. Len(r) - n : Drop(r, n)[i] = r[n + i]
    BY SplitSeq DEF Drop
  <1>. DEFINE t == r \o w
              d == Drop(r, n)
  <1>3. /\ t \in Seq(S) /\ Len(t) = Len(r) + Len(w)
        /\ \A i \in 1 .. Len(t) : t[i] = IF i <= Len(r) THEN r[i] ELSE w[i - Len(r)]
    BY ConcatProperties
  <1>4. /\ d \o w \in Seq(S) /\ Len(d \o w) = Len(d) + Len(w)
        /\ \A i \in 1 .. Len(d \o w) : (d \o w)[i] = IF i <= Len(d) THEN d[i] ELSE w[i - Len(d)]
    <2>1. d \in Seq(S)
      BY <1>2
    <2>. HIDE DEF d
    <2>. QED
      BY <2>1, ConcatProperties
  <1>. HIDE DEF t, d
  <1>5. n \in 0 .. Len(t)
    BY <1>1, <1>3
  <1>6. /\ Drop(t, n) \in Seq(S) /\ Len(Drop(t, n)) = Len(t) - n
        /\ \A i \in 1 .. Len(t) - n : Drop(t, n)[i] = t[n + i]
    BY <1>3, <1>5, SplitSeq DEF Drop
  <1>7. Len(d \o w) = Len(Drop(t, n))
    BY <1>1, <1>2, <1>3, <1>4, <1>6 DEF d
  <1>8. ASSUME NEW i \in 1 .. Len(d \o w) PROVE (d \o w)[i] = Drop(t, n)[i]
    <2>1. /\ i \in Nat /\ i >= 1 /\ i <= Len(r) - n + Len(w) /\ Len(d) = Len(r) - n
          /\ Len(t) = Len(r) + Len(w)
      BY <1>1, <1>2, <1>3, <1>4 DEF d
    <2>2. i \in 1 .. Len(t) - n /\ n + i \in 1 .. Len(t)
      BY <1>1, <2>1
    <2>3. Drop(t, n)[i] = IF n + i <= Len(r) THEN r[n + i] ELSE w[n + i - Len(r)]
      BY <1>3, <1>6, <2>2, SMTT(30)
    <2>4. CASE n + i <= Len(r)
      <3>1. i <= Len(d) /\ i \in 1 .. Len(r) - n
        BY <1>1, <2>1, <2>4
      <3>. QED
        BY <1>2, <1>4, <2>3, <2>4, <3>1 DEF d
    <2>5. CASE ~(n + i <= Len(r))
      <3>1. ~(i <= Len(d)) /\ i - Len(d) = n + i - Len(r)
        BY <1>1, <2>1, <2>5
      <3>. QED
        BY <1>4, <2>3, <2>5, <3>1
    <2>. QED
      BY <2>4, <2>5
  <1>9. d \o w = Drop(t, n)
    BY <1>4, <1>6, <1>7, <1>8, SeqEqual
  <1>. QED
    BY <1>2, <1>9 DEF d, t

(* The units of a body, one by one.                                        *)
LEMMA UnitsElement ==
  ASSUME NEW a \in Int, NEW b \in Int, NEW i \in 1 .. (b - a + 1)
  PROVE  Units(a, b)[i] = <<"data", a + i - 1>>
  BY DEF Units

(* The rest of a body, element by element.                                 *)
LEMMA RestElements ==
  ASSUME NEW k \in Nat, NEW m \in Nat, k <= m, NEW last \in Input
  PROVE  /\ Rest(k, m, last) \in Seq(Input) /\ Len(Rest(k, m, last)) = m - k + 1
         /\ \A i \in 1 .. m - k : Rest(k, m, last)[i] = <<"data", k + i>>
         /\ Rest(k, m, last)[m - k + 1] = last
  <1>. DEFINE u == Units(k + 1, m)
  <1>1. k + 1 \in Int /\ m \in Int /\ m >= (k + 1) - 1
    OBVIOUS
  <1>2. u \in Seq(Data) /\ Len(u) = m - k
    <2>1. u \in Seq(Data) /\ Len(u) = m - (k + 1) + 1
      BY <1>1, UnitsType
    <2>. HIDE DEF u
    <2>. QED
      BY <2>1
  <1>3. \A i \in 1 .. m - k : u[i] = <<"data", k + i>>
    <2>. TAKE i \in 1 .. m - k
    <2>1. i \in 1 .. (m - (k + 1) + 1) /\ (k + 1) + i - 1 = k + i
      OBVIOUS
    <2>. QED
      BY <1>1, <2>1, UnitsElement
  <1>. HIDE DEF u
  <1>4. u \in Seq(Input)
    BY <1>2, DataIsBoth, SeqOver
  <1>5. Rest(k, m, last) = Append(u, last)
    BY DEF Rest, u
  <1>6. /\ Append(u, last) \in Seq(Input) /\ Len(Append(u, last)) = Len(u) + 1
        /\ \A i \in 1 .. Len(u) : Append(u, last)[i] = u[i]
        /\ Append(u, last)[Len(u) + 1] = last
    BY <1>4, AppendProperties
  <1>. QED
    BY <1>2, <1>3, <1>5, <1>6

(* Dropping units from the rest of a body.                                 *)
LEMMA RestDrops ==
  ASSUME NEW k \in Nat, NEW m \in Nat, NEW n \in Nat, k + n <= m, NEW last \in Input
  PROVE  Drop(Rest(k, m, last), n) = Rest(k + n, m, last)
  <1>. DEFINE s == Rest(k, m, last)
              t == Rest(k + n, m, last)
  <1>1. k <= m /\ k + n \in Nat
    OBVIOUS
  <1>2. /\ s \in Seq(Input) /\ Len(s) = m - k + 1
        /\ \A i \in 1 .. m - k : s[i] = <<"data", k + i>>
        /\ s[m - k + 1] = last
    BY <1>1, RestElements
  <1>3. /\ t \in Seq(Input) /\ Len(t) = m - (k + n) + 1
        /\ \A i \in 1 .. m - (k + n) : t[i] = <<"data", k + n + i>>
        /\ t[m - (k + n) + 1] = last
    BY <1>1, RestElements
  <1>. HIDE DEF s, t
  <1>4. n \in 0 .. Len(s)
    BY <1>2
  <1>5. /\ Drop(s, n) \in Seq(Input) /\ Len(Drop(s, n)) = Len(s) - n
        /\ \A i \in 1 .. Len(s) - n : Drop(s, n)[i] = s[n + i]
    BY <1>2, <1>4, SplitSeq DEF Drop
  <1>6. Len(Drop(s, n)) = Len(t)
    BY <1>2, <1>3, <1>5
  <1>7. ASSUME NEW i \in 1 .. Len(Drop(s, n)) PROVE Drop(s, n)[i] = t[i]
    <2>1. i \in 1 .. m - k + 1 - n /\ i \in 1 .. Len(s) - n
      BY <1>2, <1>5
    <2>2. Drop(s, n)[i] = s[n + i]
      BY <1>5, <2>1
    <2>3. CASE i <= m - (k + n)
      <3>1. n + i \in 1 .. m - k /\ i \in 1 .. m - (k + n) /\ k + (n + i) = k + n + i
        BY <2>1, <2>3
      <3>2. s[n + i] = <<"data", k + (n + i)>> /\ t[i] = <<"data", k + n + i>>
        BY <1>2, <1>3, <3>1
      <3>. QED
        BY <2>2, <3>1, <3>2
    <2>4. CASE ~(i <= m - (k + n))
      <3>1. n + i = m - k + 1 /\ i = m - (k + n) + 1
        BY <2>1, <2>4
      <3>. QED
        BY <1>2, <1>3, <2>2, <3>1
    <2>. QED
      BY <2>3, <2>4
  <1>8. Drop(s, n) = t
    BY <1>3, <1>5, <1>6, <1>7, SeqEqual
  <1>. QED
    BY <1>8 DEF s, t

(* A sequence that begins with the units behind the first k of m and then  *)
(* with what ends them.                                                    *)
Begins(s, k, m, last) ==
  (\A i \in 1 .. m - k : s[i] = <<"data", k + i>>) /\ s[m - k + 1] = last

(* The rest of a body does, whatever follows.                              *)
LEMMA FirstUnread ==
  ASSUME NEW k \in Nat, NEW m \in Nat, k <= m, NEW last \in Input, NEW t \in Seq(Input)
  PROVE  Begins(Rest(k, m, last) \o t, k, m, last)
  <1>. DEFINE s == Rest(k, m, last)
  <1>1. /\ s \in Seq(Input) /\ Len(s) = m - k + 1
        /\ \A i \in 1 .. m - k : s[i] = <<"data", k + i>>
        /\ s[m - k + 1] = last
    BY RestElements
  <1>. HIDE DEF s
  <1>2. /\ s \o t \in Seq(Input) /\ Len(s \o t) = Len(s) + Len(t)
        /\ \A i \in 1 .. Len(s) + Len(t) : (s \o t)[i] = IF i <= Len(s) THEN s[i] ELSE t[i - Len(s)]
    BY <1>1, ConcatProperties
  <1>3. Len(t) \in Nat /\ m - k + 1 \in Nat
    BY LenProperties
  <1>4. (s \o t)[m - k + 1] = last
    <2>1. m - k + 1 \in 1 .. Len(s) + Len(t) /\ m - k + 1 <= Len(s)
      BY <1>1, <1>3
    <2>. QED
      BY <1>1, <1>2, <2>1
  <1>5. \A i \in 1 .. m - k : (s \o t)[i] = <<"data", k + i>>
    <2>. TAKE i \in 1 .. m - k
    <2>1. i \in 1 .. Len(s) + Len(t) /\ i <= Len(s)
      BY <1>1, <1>3
    <2>. QED
      BY <1>1, <1>2, <2>1
  <1>. QED
    BY <1>4, <1>5 DEF s, Begins

(* r and then w are the rest of a body and then t; r begins with n units.  *)
Holds(r, w, k, m, last, t) == r \o w = Rest(k, m, last) \o t
DataFirst(r, n) == \A i \in 1 .. n : r[i][1] = "data"

(* What parse_chunk_data may take: the data in front of what was read.     *)
LEMMA ParseTakes ==
  ASSUME NEW r \in Seq(Input), NEW p \in parse_chunk_data(r)
  PROVE  \E n \in 0 .. Len(r) : DataFirst(r, n) /\ p = AfterData(SubSeq(r, 1, n), Drop(r, n))
  <1>. DEFINE lengths == {n \in 1 .. Len(r) : \A i \in 1 .. n : r[i][1] = "data"}
  <1>0. Len(r) \in Nat
    OBVIOUS
  <1>1. CASE lengths = {}
    <2>1. p = AfterData(<<>>, r)
      BY <1>1 DEF parse_chunk_data
    <2>2. SubSeq(r, 1, 0) = <<>> /\ Drop(r, 0) = r
      <3>1. 0 \in 0 .. Len(r)
        BY <1>0
      <3>2. /\ SubSeq(r, 1, 0) \in Seq(Input) /\ Len(SubSeq(r, 1, 0)) = 0
            /\ Drop(r, 0) \in Seq(Input) /\ SubSeq(r, 1, 0) \o Drop(r, 0) = r
        BY <3>1, SplitSeq DEF Drop
      <3>3. SubSeq(r, 1, 0) = <<>>
        BY <3>2, EmptySeq
      <3>. QED
        BY <3>2, <3>3, ConcatEmptySeq
    <2>3. 0 \in 0 .. Len(r) /\ DataFirst(r, 0)
      BY <1>0 DEF DataFirst
    <2>. QED
      BY <2>1, <2>2, <2>3
  <1>2. CASE lengths # {}
    <2>1. PICK n \in lengths : p = AfterData(SubSeq(r, 1, n), Drop(r, n))
      BY <1>2 DEF parse_chunk_data
    <2>2. n \in 0 .. Len(r) /\ DataFirst(r, n)
      BY <2>1, <1>0 DEF DataFirst
    <2>. QED
      BY <2>1, <2>2
  <1>. QED
    BY <1>1, <1>2

(* The units taken are the next of the body, and the rest stays behind.    *)
LEMMA RestTaken ==
  ASSUME NEW r \in Seq(Input), NEW w \in Seq(Input), NEW t \in Seq(Input),
         NEW k \in Nat, NEW m \in Nat, k <= m, NEW last \in Input, last[1] # "data",
         Holds(r, w, k, m, last, t), NEW n \in 0 .. Len(r), DataFirst(r, n)
  PROVE  /\ k + n <= m /\ SubSeq(r, 1, n) = Units(k + 1, k + n)
         /\ Drop(r, n) \in Seq(Input)
         /\ Holds(Drop(r, n), w, k + n, m, last, t)
  <1>. DEFINE s == Rest(k, m, last)
  <1>0. Len(r) \in Nat /\ Len(w) \in Nat /\ n \in Nat /\ n <= Len(r)
    OBVIOUS
  <1>1. /\ \A i \in 1 .. m - k : (s \o t)[i] = <<"data", k + i>>
        /\ (s \o t)[m - k + 1] = last
    <2>1. Begins(s \o t, k, m, last)
      BY FirstUnread
    <2>. QED
      BY <2>1 DEF Begins
  <1>2. s \in Seq(Input) /\ Len(s) = m - k + 1
    BY RestElements
  <1>. HIDE DEF s
  <1>3. \A i \in 1 .. Len(r) : (r \o w)[i] = r[i]
    <2>1. \A i \in 1 .. Len(r) + Len(w) : (r \o w)[i] = IF i <= Len(r) THEN r[i] ELSE w[i - Len(r)]
      BY ConcatProperties
    <2>. TAKE i \in 1 .. Len(r)
    <2>2. i \in 1 .. Len(r) + Len(w) /\ i <= Len(r)
      BY <1>0
    <2>. QED
      BY <2>1, <2>2
  <1>4. r \o w = s \o t
    BY DEF s, Holds
  <1>5. k + n <= m
    <2>. SUFFICES ASSUME ~(k + n <= m) PROVE FALSE
      OBVIOUS
    <2>2. m - k + 1 \in 1 .. n /\ m - k + 1 \in 1 .. Len(r)
      BY <1>0
    <2>3. r[m - k + 1] = last
      BY <1>1, <1>3, <1>4, <2>2
    <2>. QED
      BY <2>2, <2>3 DEF DataFirst
  <1>6. SubSeq(r, 1, n) = Units(k + 1, k + n)
    <2>. DEFINE u == Units(k + 1, k + n)
                a == SubSeq(r, 1, n)
    <2>1. k + 1 \in Int /\ k + n \in Int /\ k + n >= (k + 1) - 1 /\ (k + n) - (k + 1) + 1 = n
      BY <1>0
    <2>2. u \in Seq(Data) /\ Len(u) = n
      <3>1. u \in Seq(Data) /\ Len(u) = (k + n) - (k + 1) + 1
        BY <2>1, UnitsType
      <3>. HIDE DEF u
      <3>. QED
        BY <2>1, <3>1
    <2>3. a \in Seq(Input) /\ Len(a) = n /\ \A i \in 1 .. n : a[i] = r[i]
      BY SplitSeq
    <2>4. u \in Seq(Input)
      BY <2>2, DataIsBoth, SeqOver
    <2>5. \A i \in 1 .. n : u[i] = <<"data", k + i>>
      <3>. TAKE i \in 1 .. n
      <3>1. i \in 1 .. ((k + n) - (k + 1) + 1) /\ (k + 1) + i - 1 = k + i
        BY <1>0
      <3>. QED
        BY <2>1, <3>1, UnitsElement
    <2>. HIDE DEF u, a
    <2>6. \A i \in 1 .. n : a[i] = u[i]
      <3>. TAKE i \in 1 .. n
      <3>1. i \in 1 .. Len(r) /\ i \in 1 .. m - k
        BY <1>0, <1>5
      <3>2. r[i] = <<"data", k + i>>
        BY <1>1, <1>3, <1>4, <3>1
      <3>. QED
        BY <2>3, <2>5, <3>2
    <2>7. a = u
      BY <2>2, <2>3, <2>4, <2>6, SeqEqual
    <2>. QED
      BY <2>7 DEF a, u
  <1>7. Drop(r, n) \in Seq(Input) /\ Drop(r, n) \o w = Drop(r \o w, n)
    BY DropFront, SMTT(30)
  <1>8. Drop(s, n) \o t = Drop(s \o t, n)
    <2>1. n \in 0 .. Len(s)
      BY <1>0, <1>2, <1>5
    <2>. QED
      BY <1>2, <2>1, DropFront, ZenonT(40)
  <1>9. Drop(s, n) = Rest(k + n, m, last)
    BY <1>0, <1>5, RestDrops DEF s
  <1>. QED
    BY <1>4, <1>5, <1>6, <1>7, <1>8, <1>9 DEF Holds

(* The tail of a concatenation.                                            *)
LEMMA TailFront ==
  ASSUME NEW S, NEW r \in Seq(S), NEW w \in Seq(S), r # <<>>
  PROVE  Tail(r) \in Seq(S) /\ Len(Tail(r)) = Len(r) - 1 /\ Tail(r) \o w = Drop(r \o w, 1)
  <1>1. Len(r) \in Nat /\ Len(r) > 0
    BY EmptySeq
  <1>2. 1 \in 0 .. Len(r)
    BY <1>1
  <1>3. Drop(r, 1) \o w = Drop(r \o w, 1)
    BY <1>2, DropFront
  <1>4. Tail(r) = Drop(r, 1)
    BY TailIsSubSeq DEF Drop
  <1>. QED
    BY <1>3, <1>4, HeadTailProperties

(* Behind what ends a body nothing is left of it.                          *)
LEMMA LastTaken ==
  ASSUME NEW d \in Seq(Input), NEW w \in Seq(Input), NEW t \in Seq(Input), d # <<>>,
         NEW m \in Nat, NEW k, k = m, NEW last \in Input, Holds(d, w, k, m, last, t)
  PROVE  Tail(d) \o w = t
  <1>. DEFINE s == Rest(m, m, last)
  <1>1. s \in Seq(Input) /\ Len(s) = 1
    <2>1. m <= m /\ m - m + 1 = 1
      OBVIOUS
    <2>2. s \in Seq(Input) /\ Len(s) = m - m + 1
      BY <2>1, RestElements
    <2>. HIDE DEF s
    <2>. QED
      BY <2>1, <2>2
  <1>2. d \o w = s \o t
    BY DEF Holds
  <1>. HIDE DEF s
  <1>3. s # <<>>
    <2>1. Len(<<>>) = 0 /\ 0 # 1
      OBVIOUS
    <2>2. Len(s) = 1
      BY <1>1
    <2>. QED
      BY <2>1, <2>2, Zenon
  <1>4. Tail(d) \o w = Drop(d \o w, 1)
    BY TailFront
  <1>5. Tail(s) \in Seq(Input) /\ Len(Tail(s)) = 0 /\ Tail(s) \o t = Drop(s \o t, 1)
    <2>1. Tail(s) \in Seq(Input) /\ Len(Tail(s)) = Len(s) - 1 /\ Tail(s) \o t = Drop(s \o t, 1)
      BY <1>1, <1>3, TailFront
    <2>. QED
      BY <1>1, <2>1
  <1>6. Tail(s) = <<>>
    BY <1>5, EmptySeq
  <1>. QED
    BY <1>2, <1>4, <1>5, <1>6, ConcatEmptySeq

(* What a call of parse_chunk_data does to the rest of a body: it takes    *)
(* the next units, or the last of them and what ends the body.             *)
Parsed(p, w, k, m, last, t) ==
  \E n \in Nat :
    /\ k + n <= m /\ p.pending = Units(k + 1, k + n)
    /\ \/ p.ret = "CI_EOF" /\ k + n = m /\ p.read \o w = t /\ p.ieof = (last[1] = "ieof")
       \/ p.ret # "CI_EOF" /\ Holds(p.read, w, k + n, m, last, t) /\ p.ieof = FALSE

(* It stops at the end of the body, wherever the reads have cut it.        *)
LEMMA ParseRest ==
  ASSUME NEW r \in Seq(Input), NEW w \in Seq(Input), NEW t \in Seq(Input),
         NEW k \in Nat, NEW m \in Nat, k <= m, NEW last \in Input, last[1] # "data",
         Holds(r, w, k, m, last, t), NEW p \in parse_chunk_data(r), p.ret # "CI_ERROR"
  PROVE  Parsed(p, w, k, m, last, t)
  <1>1. PICK n \in 0 .. Len(r) : DataFirst(r, n) /\ p = AfterData(SubSeq(r, 1, n), Drop(r, n))
    BY ParseTakes
  <1>. DEFINE d == Drop(r, n)
  <1>2. /\ k + n <= m /\ SubSeq(r, 1, n) = Units(k + 1, k + n) /\ d \in Seq(Input)
        /\ Holds(d, w, k + n, m, last, t)
    BY <1>1, RestTaken
  <1>. HIDE DEF d
  <1>3. n \in Nat /\ k + n \in Nat
    OBVIOUS
  <1>4. /\ p.pending = Units(k + 1, k + n) /\ p.ieof = (d # <<>> /\ d[1][1] = "ieof")
        /\ p.read = IF d # <<>> /\ d[1][1] \in {"zero", "ieof"} THEN Tail(d) ELSE d
        /\ p.ret = IF d = <<>> THEN "CI_NEEDS_MORE"
                   ELSE CASE d[1][1] = "data" -> "CI_OK"
                          [] d[1][1] \in {"zero", "ieof"} -> "CI_EOF"
                          [] OTHER -> "CI_ERROR"
    BY <1>1, <1>2 DEF AfterData, d
  <1>5. CASE d = <<>>
    <2>1. p.ret # "CI_EOF" /\ p.read = d /\ p.ieof = FALSE
      BY <1>4, <1>5
    <2>. QED
      BY <1>2, <1>3, <1>4, <2>1 DEF Parsed
  <1>6. CASE d # <<>>
    <2>1. Len(d) \in Nat /\ Len(d) > 0 /\ Len(w) \in Nat
      BY <1>2, <1>6, EmptySeq
    <2>2. Begins(d \o w, k + n, m, last)
      BY <1>2, <1>3, FirstUnread DEF Holds
    <2>3. (d \o w)[1] = d[1]
      <3>1. 1 \in 1 .. Len(d) + Len(w) /\ 1 <= Len(d)
        BY <2>1
      <3>. QED
        BY <1>2, <3>1, ConcatProperties
    <2>4. CASE d[1][1] = "data"
      <3>1. p.ret # "CI_EOF" /\ p.read = d /\ p.ieof = FALSE
        BY <1>4, <1>6, <2>4
      <3>. QED
        BY <1>2, <1>3, <1>4, <3>1 DEF Parsed
    <2>5. CASE d[1][1] # "data"
      <3>1. k + n = m /\ d[1] = last
        <4>1. CASE k + n < m
          <5>1. 1 \in 1 .. m - (k + n)
            BY <1>3, <4>1
          <5>2. d[1] = <<"data", k + n + 1>>
            BY <2>2, <2>3, <5>1 DEF Begins
          <5>. QED
            BY <2>5, <5>2
        <4>2. CASE k + n = m
          <5>1. m - (k + n) + 1 = 1
            BY <1>3, <4>2
          <5>. QED
            BY <2>2, <2>3, <4>2, <5>1 DEF Begins
        <4>. QED
          BY <1>2, <1>3, <4>1, <4>2
      <3>2. p.ret = "CI_EOF" /\ d[1][1] \in {"zero", "ieof"}
        BY <1>4, <1>6, <2>5
      <3>3. p.read = Tail(d) /\ p.ieof = (last[1] = "ieof")
        BY <1>4, <1>6, <3>1, <3>2
      <3>4. Tail(d) \o w = t
        BY <1>2, <1>6, <3>1, LastTaken
      <3>. QED
        BY <1>2, <1>3, <1>4, <3>1, <3>2, <3>3, <3>4 DEF Parsed
    <2>. QED
      BY <2>4, <2>5
  <1>. QED
    BY <1>5, <1>6

(* The fields of a request.                                                *)
LEMMA RequestFields ==
  ASSUME NEW i \in DOMAIN Requests
  PROVE  /\ Requests[i].len \in Nat /\ Requests[i].preview \in Int
         /\ Requests[i].hasbody \in BOOLEAN /\ Requests[i].options \in BOOLEAN
         /\ LastChunk(Requests[i]) \in Input
         /\ LastChunk(Requests[i])[1] \notin {"data", "header", "ieof"}
  <1>1. IsRequest(Requests[i])
    BY IcapRequestAssumption
  <1>2. LastChunk(Requests[i]) \in {<<"bad", 0>>, <<"zero", 0>>}
    BY DEF LastChunk
  <1>3. /\ LastChunk(Requests[i]) \in Input
        /\ LastChunk(Requests[i])[1] \notin {"data", "header", "ieof"}
    BY <1>2 DEF Input
  <1>. QED
    BY <1>1, <1>3 DEF IsRequest

(* The parts of a request are rests of its body.                           *)
LEMMA PartsOfRequest ==
  ASSUME NEW i \in DOMAIN Requests
  PROVE  /\ FirstPart(i, Requests[i]) = <<<<"header", i>>>> \o After(Requests[i])
         /\ AfterContinue(Requests[i]) =
              IF Requests[i].hasbody /\ 0 <= Requests[i].preview
                 /\ Requests[i].preview < Requests[i].len
                THEN BodyRest(Requests[i], Requests[i].preview) ELSE <<>>
  <1>. DEFINE q == Requests[i]
  <1>1. q.len \in Nat /\ q.preview \in Int /\ q.hasbody \in BOOLEAN
    BY RequestFields
  <1>. HIDE DEF q
  <1>2. AfterContinue(q) = IF q.hasbody /\ 0 <= q.preview /\ q.preview < q.len
                             THEN BodyRest(q, q.preview) ELSE <<>>
    BY DEF AfterContinue, BodyRest, Rest
  <1>3. FirstPart(i, q) = <<<<"header", i>>>> \o After(q)
    <2>0. 0 + 1 = 1
      OBVIOUS
    <2>1. CASE ~q.hasbody
      BY <2>1 DEF FirstPart, After
    <2>2. CASE q.hasbody /\ q.preview < 0
      <3>1. After(q) = BodyRest(q, 0)
        BY <2>2 DEF After
      <3>2. After(q) = Append(Units(1, q.len), LastChunk(q))
        BY <2>0, <3>1 DEF BodyRest, Rest
      <3>. QED
        BY <1>1, <2>2, <3>2 DEF FirstPart
    <2>3. CASE q.hasbody /\ ~(q.preview < 0) /\ q.preview >= q.len
      <3>1. PreviewLen(q) = q.len
        BY <1>1, <2>3 DEF PreviewLen, Least
      <3>2. After(q) = PreviewRest(q, 0)
        BY <2>3 DEF After
      <3>3. After(q) = Append(Units(1, q.len), <<"ieof", 0>>)
        BY <2>0, <2>3, <3>1, <3>2 DEF PreviewRest, Rest
      <3>. QED
        BY <1>1, <2>3, <3>3 DEF FirstPart
    <2>4. CASE q.hasbody /\ ~(q.preview < 0) /\ ~(q.preview >= q.len)
      <3>1. PreviewLen(q) = q.preview
        BY <1>1, <2>4 DEF PreviewLen, Least
      <3>2. After(q) = PreviewRest(q, 0)
        BY <2>4 DEF After
      <3>3. After(q) = Append(Units(1, q.preview), <<"zero", 0>>)
        BY <2>0, <2>4, <3>1, <3>2 DEF PreviewRest, Rest
      <3>. QED
        BY <1>1, <2>4, <3>3 DEF FirstPart
    <2>. QED
      BY <2>1, <2>2, <2>3, <2>4
  <1>. QED
    BY <1>2, <1>3 DEF q

(* The rests of a request's body and of its preview.                       *)
LEMMA RestsOfRequest ==
  ASSUME NEW i \in DOMAIN Requests
  PROVE  /\ \A k \in Nat : k <= Requests[i].len => BodyRest(Requests[i], k) \in Seq(Input)
         /\ After(Requests[i]) \in Seq(Input)
  <1>. DEFINE q == Requests[i]
  <1>1. q.len \in Nat /\ q.preview \in Int /\ q.hasbody \in BOOLEAN /\ LastChunk(q) \in Input
    BY RequestFields
  <1>2. <<"ieof", 0>> \in Input /\ <<"zero", 0>> \in Input /\ <<>> \in Seq(Input)
    BY EmptySeq DEF Input
  <1>. HIDE DEF q
  <1>3. ASSUME NEW k \in Nat, k <= q.len PROVE BodyRest(q, k) \in Seq(Input)
    BY <1>1, <1>3, RestElements DEF BodyRest
  <1>4. 0 <= q.len
    BY <1>1
  <1>5. ASSUME ~q.hasbody \/ q.preview < 0 PROVE After(q) \in Seq(Input)
    <2>1. BodyRest(q, 0) \in Seq(Input)
      <3>1. 0 \in Nat
        OBVIOUS
      <3>. QED
        BY <1>3, <1>4, <3>1
    <2>2. CASE ~q.hasbody
      BY <1>2, <2>2 DEF After
    <2>3. CASE q.hasbody /\ q.preview < 0
      BY <2>1, <2>3 DEF After
    <2>. QED
      BY <1>1, <1>5, <2>2, <2>3
  <1>6. ASSUME ~(~q.hasbody \/ q.preview < 0) PROVE After(q) \in Seq(Input)
    <2>. DEFINE last == IF q.preview >= q.len THEN <<"ieof", 0>> ELSE <<"zero", 0>>
    <2>1. PreviewLen(q) \in Nat /\ 0 <= PreviewLen(q) /\ last \in Input
      BY <1>1, <1>2, <1>6 DEF PreviewLen, Least
    <2>. HIDE DEF last
    <2>2. Rest(0, PreviewLen(q), last) \in Seq(Input)
      BY <2>1, RestElements
    <2>3. After(q) = PreviewRest(q, 0)
      BY <1>6 DEF After
    <2>. QED
      BY <2>2, <2>3 DEF PreviewRest, last
  <1>. QED
    BY <1>3, <1>5, <1>6 DEF q

(* The next request begins with its header.                                *)
LEMMA NextHeader ==
  ASSUME NEW i \in Nexts
  PROVE  /\ NextPart(i) \in Seq(Input)
         /\ i = 0 => NextPart(i) = <<>>
         /\ i # 0 => /\ i \in DOMAIN Requests /\ NextPart(i) # <<>>
                     /\ NextPart(i)[1] = <<"header", i>>
                     /\ Drop(NextPart(i), 1) = After(Requests[i])
  <1>1. CASE i = 0
    BY <1>1, EmptySeq DEF NextPart
  <1>2. CASE i # 0
    <2>. DEFINE h == <<<<"header", i>>>>
                a == After(Requests[i])
    <2>1. i \in DOMAIN Requests
      BY <1>2 DEF Nexts
    <2>2. <<"header", i>> \in Input
      BY <2>1 DEF Input
    <2>3. h \in Seq(Input) /\ Len(h) = 1 /\ h[1] = <<"header", i>>
      BY <2>2, OneElement
    <2>4. a \in Seq(Input)
      BY <2>1, RestsOfRequest
    <2>5. NextPart(i) = h \o a
      BY <1>2, <2>1, PartsOfRequest DEF NextPart
    <2>. HIDE DEF h, a
    <2>6. /\ h \o a \in Seq(Input) /\ Len(h \o a) = 1 + Len(a) /\ Len(a) \in Nat
          /\ (h \o a)[1] = h[1]
      <3>1. Len(a) \in Nat
        BY <2>4
      <3>2. 1 \in 1 .. Len(h) + Len(a) /\ 1 <= Len(h)
        BY <2>3, <3>1
      <3>3. (h \o a)[1] = h[1]
        BY <2>3, <2>4, <3>2, ConcatProperties
      <3>4. h \o a \in Seq(Input) /\ Len(h \o a) = Len(h) + Len(a)
        BY <2>3, <2>4, ConcatProperties
      <3>. QED
        BY <2>3, <3>1, <3>3, <3>4
    <2>7. Drop(h \o a, 1) = a
      <3>1. 1 \in 0 .. Len(h)
        BY <2>3
      <3>2. Drop(h, 1) \in Seq(Input) /\ Len(Drop(h, 1)) = Len(h) - 1 /\ Drop(h, 1) \o a = Drop(h \o a, 1)
        <4>1. h \in Seq(Input) /\ a \in Seq(Input) /\ 1 \in 0 .. Len(h)
          BY <2>3, <2>4, <3>1
        <4>. QED
          BY <4>1, DropFront
      <3>3. Len(Drop(h, 1)) = 0
        <4>1. Len(h) = 1 /\ Len(Drop(h, 1)) = Len(h) - 1
          BY <2>3, <3>2
        <4>. QED
          BY <4>1
      <3>4. Drop(h, 1) = <<>>
        BY <3>2, <3>3, EmptySeq
      <3>. QED
        BY <2>4, <3>2, <3>4, ConcatEmptySeq
    <2>8. h \o a # <<>>
      <3>1. Len(h \o a) # 0 /\ Len(<<>>) = 0
        BY <2>6
      <3>. QED
        BY <3>1, Zenon
    <2>. QED
      BY <1>2, <2>1, <2>3, <2>5, <2>6, <2>7, <2>8 DEF a
  <1>. QED
    BY <1>1, <1>2

(* A request that is on its way is seen to be.                             *)
LEMMA NextIsAsking ==
  ASSUME TypeOK, NEW i \in Nexts, i # 0, NEW j \in Seq(Input), Unread(j, i)
  PROVE  Asking
  <1>. DEFINE s == read \o wire
              t == NextPart(i)
  <1>1. t \in Seq(Input) /\ t # <<>> /\ t[1] = <<"header", i>>
    BY NextHeader
  <1>2. s = j \o t
    BY DEF Unread
  <1>. HIDE DEF s, t
  <1>3. Len(j) \in Nat /\ Len(t) \in Nat /\ Len(t) > 0
    BY <1>1, EmptySeq
  <1>4. /\ j \o t \in Seq(Input) /\ Len(j \o t) = Len(j) + Len(t)
        /\ \A k \in 1 .. Len(j) + Len(t) : (j \o t)[k] = IF k <= Len(j) THEN j[k] ELSE t[k - Len(j)]
    BY <1>1, ConcatProperties
  <1>5. /\ Len(j) + 1 \in 1 .. Len(j) + Len(t) /\ ~(Len(j) + 1 <= Len(j))
        /\ Len(j) + 1 - Len(j) = 1
    BY <1>3
  <1>6. (j \o t)[Len(j) + 1] = <<"header", i>>
    BY <1>1, <1>4, <1>5
  <1>7. Len(j) + 1 \in DOMAIN (j \o t)
    BY <1>4, <1>5
  <1>8. \E k \in DOMAIN s : s[k][1] = "header"
    <2>1. (j \o t)[Len(j) + 1][1] = "header"
      BY <1>6
    <2>. QED
      BY <1>2, <1>7, <2>1, Zenon
  <1>. QED
    BY <1>8 DEF Asking, s

(* The client sends its next request behind what is not read yet.          *)
LEMMA ClientFollows ==
  ASSUME TypeOK, PipeliningClient = FALSE, NEW c \in DOMAIN Requests, ClientSends(c),
         NEW i \in Nexts, NEW j \in Seq(Input), Unread(j, i)
  PROVE  c \in Nexts /\ c # 0 /\ i = 0 /\ Unread(j, c)'
  <1>1. ~Asking
    BY DEF ClientSends
  <1>2. i = 0
    BY <1>1, NextIsAsking
  <1>3. c \in Nexts /\ c # 0
    BY IcapRequestAssumption DEF Nexts
  <1>. DEFINE f == FirstPart(c, Requests[c])
  <1>4. f \in Seq(Input)
    BY ClientParts
  <1>5. read' = read /\ wire' = wire \o f /\ held' = AfterContinue(Requests[c])
    BY DEF ClientSends
  <1>6. NextPart(c) = f
    BY <1>3 DEF NextPart
  <1>7. read \o wire = j
    <2>1. read \o wire = j \o NextPart(0)
      BY <1>2 DEF Unread
    <2>2. NextPart(0) = <<>>
      BY DEF NextPart
    <2>. QED
      BY <2>1, <2>2, ConcatEmptySeq
  <1>. HIDE DEF f
  <1>8. read \o (wire \o f) = (read \o wire) \o f
    <2>1. read \in Seq(Input) /\ wire \in Seq(Input)
      BY DEF TypeOK
    <2>. QED
      BY <1>4, <2>1, ConcatAssociative, SMTT(30)
  <1>9. read' \o wire' = j \o NextPart(c)
    BY <1>5, <1>6, <1>7, <1>8
  <1>. QED
    BY <1>2, <1>3, <1>5, <1>9 DEF Unread

(* The body's rest in the middle of a body.                                *)
LEMMA LeftType ==
  ASSUME TypeOK, InOrder, pc \in BodyPcs, NEW i \in Nexts
  PROVE  Left(i) \in Seq(Input)
  <1>1. req.n \in DOMAIN Requests /\ req.n # 0
    <2>1. pc \notin {"header", "end", "closed"}
      BY DEF BodyPcs
    <2>. QED
      BY <2>1, IcapRequestAssumption DEF TypeOK
  <1>2. Seen \in Nat /\ Seen <= q_.len
    <2>1. Len(got) \in Nat /\ Len(req.pending) \in Nat
      BY DEF TypeOK, ReqRec
    <2>. QED
      BY <1>1, <2>1 DEF InOrder, Seen
  <1>3. BodyRest(q_, Seen) \in Seq(Input) /\ <<>> \in Seq(Input)
    BY <1>1, <1>2, RestsOfRequest, EmptySeq DEF q_
  <1>. QED
    BY <1>3 DEF Left

(* The client sends a request only between requests or when it has the     *)
(* response.                                                               *)
LEMMA StreamClient ==
  ASSUME TypeOK, Stream, PipeliningClient = FALSE, NEW c \in DOMAIN Requests, ClientSends(c)
  PROVE  Stream'
  <1>1. /\ pc # "closed" /\ held = <<>> /\ (pc = "header" \/ AnswerSeen)
        /\ UNCHANGED <<pc, read, req, loc, got, resp>>
    BY DEF ClientSends, dataVars
  <1>2. Seen' = Seen /\ q_' = q_
    BY <1>1 DEF Seen, q_
  <1>3. InOrder'
    BY <1>1, <1>2 DEF Stream, InOrder
  <1>4. pc \notin {"options", "read_preview", "preview"}
    BY <1>1 DEF Stream, AnswerSeen
  <1>5. ASSUME Boundary PROVE Boundary'
    <2>1. PICK i \in Nexts, j \in Seq(Input) :
            Unread(j, i) /\ (j = <<>> \/ (OffBoundary /\ j[1][1] # "header"))
      BY <1>5 DEF Boundary
    <2>2. c \in Nexts /\ Unread(j, c)'
      BY <2>1, ClientFollows
    <2>3. OffBoundary' <=> OffBoundary
      BY <1>1, <1>2 DEF OffBoundary
    <2>. QED
      BY <2>1, <2>2, <2>3 DEF Boundary
  <1>6. ASSUME pc \in BodyPcs PROVE InBody'
    <2>1. PICK i \in Nexts : Unread(Left(i), i)
      BY <1>6 DEF Stream, InBody
    <2>. DEFINE j == Left(i)
    <2>2. j \in Seq(Input) /\ Unread(j, i)
      BY <1>6, <2>1, LeftType DEF Stream
    <2>. HIDE DEF j
    <2>3. PICK l \in Seq(Input) : l = j
      BY <2>2
    <2>4. c \in Nexts /\ c # 0 /\ i = 0 /\ Unread(l, c)'
      BY <2>2, <2>3, ClientFollows
    <2>5. Left(c)' = l
      BY <1>1, <1>2, <2>3, <2>4 DEF Left, j
    <2>6. Unread(Left(c), c)'
      BY <2>4, <2>5 DEF Unread
    <2>7. q_.hasbody /\ (req.eof => Seen = q_.len) /\ (loc.parse_ret = "CI_EOF" => req.eof)
      BY <1>6 DEF Stream, InBody
    <2>. QED
      BY <1>1, <1>2, <2>4, <2>6, <2>7 DEF InBody
  <1>7. ASSUME NEW i \in Nexts, Unread(<<>>, i) PROVE \E k \in Nexts : Unread(<<>>, k)'
    <2>1. <<>> \in Seq(Input)
      BY EmptySeq
    <2>2. c \in Nexts /\ Unread(<<>>, c)'
      BY <1>7, <2>1, ClientFollows
    <2>. QED
      BY <2>2
  <1>. QED
    BY <1>1, <1>2, <1>3, <1>4, <1>5, <1>6, <1>7 DEF Stream

(* The fields of a request that say where it is in its body.               *)
SameBody(y, x) == y \in ReqRec /\ y.n = x.n /\ y.pending = x.pending /\ y.eof = x.eof

(* Which they do also when others are set.                                 *)
LEMMA BodyFieldsKept ==
  ASSUME NEW x \in ReqRec
  PROVE  /\ \A c \in Int : SameBody(WithCode(x, c), x) /\ WithCode(x, c).keepalive = x.keepalive
         /\ SameBody(WithoutKeepalive(x), x) /\ WithoutKeepalive(x).keepalive = FALSE
         /\ \A r \in {"CI_OK", "CI_ERROR"} :
              /\ SameBody(WithResult(x, r), x) /\ WithResult(x, r).keepalive = x.keepalive
              /\ WithResult(x, r).ret = r
         /\ SameBody(Unlocked(x), x) /\ SameBody(Echoing(x), x)
  <1>1. ASSUME NEW c \in Int
        PROVE  SameBody(WithCode(x, c), x) /\ WithCode(x, c).keepalive = x.keepalive
    BY DEF SameBody, WithCode, ReqRec
  <1>2. SameBody(WithoutKeepalive(x), x) /\ WithoutKeepalive(x).keepalive = FALSE
    BY DEF SameBody, WithoutKeepalive, ReqRec
  <1>3. ASSUME NEW r \in {"CI_OK", "CI_ERROR"}
        PROVE  /\ SameBody(WithResult(x, r), x) /\ WithResult(x, r).keepalive = x.keepalive
               /\ WithResult(x, r).ret = r
    BY DEF SameBody, WithResult, ReqRec
  <1>4. SameBody(Unlocked(x), x)
    BY DEF SameBody, Unlocked, ReqRec
  <1>5. SameBody(Echoing(x), x)
    <2>1. Echoing(x) \in ReqRec
      BY EchoSet DEF SameFields
    <2>2. Echoing(x).n = x.n /\ Echoing(x).pending = x.pending /\ Echoing(x).eof = x.eof
      BY DEF Echoing, ReqRec
    <2>. QED
      BY <2>1, <2>2 DEF SameBody
  <1>. QED
    BY <1>1, <1>2, <1>3, <1>4, <1>5

(* Also in the response of ec_responce.                                    *)
LEMMA RespondedBody ==
  ASSUME TypeOK, NEW x \in ReqRec, NEW ec \in Int
  PROVE  SameBody(Responded(x, ec), x) /\ Responded(x, ec).keepalive = x.keepalive
  <1>1. Responded(x, ec) \in ReqRec
    BY RespondedType
  <1>. QED
    BY <1>1 DEF SameBody, Responded, ReqRec

(* A request that ends with a result.                                      *)
LEMMA EndsBody ==
  ASSUME NEW x, NEW y \in ReqRec, SameBody(y, x), NEW r \in {"CI_OK", "CI_ERROR"}, Ends(y, r)
  PROVE  /\ pc' = "end" /\ SameBody(req', x) /\ req'.keepalive = y.keepalive
         /\ req'.ret = r
  <1>1. pc' = "end" /\ req' = WithResult(y, r)
    BY DEF Ends, WithResult
  <1>2. /\ SameBody(WithResult(y, r), y) /\ WithResult(y, r).keepalive = y.keepalive
        /\ WithResult(y, r).ret = r
    BY BodyFieldsKept
  <1>. QED
    BY <1>1, <1>2 DEF SameBody

(* A connection is closed after an error response.                         *)
LEMMA ErrorCloses ==
  ASSUME TypeOK, NEW x \in ReqRec, NEW ec \in Int, ErrorResponse(x, ec)
  PROVE  pc' = "end" /\ SameBody(req', x) /\ req'.keepalive = FALSE
  <1>. DEFINE y == Responded(x, ec)
              z == WithoutKeepalive(y)
  <1>1. SameBody(y, x)
    BY RespondedBody
  <1>2. y \in ReqRec
    BY <1>1 DEF SameBody
  <1>. HIDE DEF y
  <1>3. SameBody(z, y) /\ z.keepalive = FALSE
    BY <1>2, BodyFieldsKept
  <1>4. Ends(z, "CI_ERROR")
    BY DEF ErrorResponse, WithoutKeepalive, y
  <1>. HIDE DEF z
  <1>5. z \in ReqRec /\ SameBody(z, x)
    BY <1>1, <1>3 DEF SameBody
  <1>. QED
    BY <1>3, <1>4, <1>5, EndsBody

(* A request that ends in a connection that is closed.                     *)
LEMMA StreamCloses ==
  ASSUME Stream, pc' = "end", SameBody(req', req), req'.keepalive = FALSE, got' = got
  PROVE  Stream'
  <1>1. Seen' = Seen /\ q_' = q_ /\ req'.n = req.n /\ req'.pending = req.pending
    BY DEF Seen, q_, SameBody
  <1>2. InOrder'
    BY <1>1 DEF Stream, InOrder
  <1>. QED
    BY <1>2 DEF Stream, BodyPcs

(* A concatenation whose first part is not empty begins with it.           *)
LEMMA FirstOfConcat ==
  ASSUME NEW S, NEW r \in Seq(S), NEW w \in Seq(S), r # <<>>
  PROVE  (r \o w)[1] = r[1]
  <1>1. Len(r) \in Nat /\ Len(w) \in Nat /\ Len(r) > 0
    BY EmptySeq
  <1>2. 1 \in 1 .. Len(r) + Len(w) /\ 1 <= Len(r)
    BY <1>1
  <1>. QED
    BY <1>2, ConcatProperties

(* The header that is parsed is the next request's, and the next data are  *)
(* what the client has sent behind it.                                     *)
LEMMA HeaderFollows ==
  ASSUME TypeOK, Boundary, NEW d \in Seq(Input), d # <<>>, NEW w \in Seq(Input),
         d \o w = read \o wire, d[1][1] = "header"
  PROVE  \E i \in DOMAIN Requests :
           /\ d[1] = <<"header", i>> /\ Tail(d) \o w = After(Requests[i])
           /\ held = AfterContinue(Requests[i])
  <1>1. PICK i \in Nexts, j \in Seq(Input) :
          Unread(j, i) /\ (j = <<>> \/ (OffBoundary /\ j[1][1] # "header"))
    BY DEF Boundary
  <1>. DEFINE t == NextPart(i)
  <1>2. /\ t \in Seq(Input) /\ (i = 0 => t = <<>>)
        /\ i # 0 => /\ i \in DOMAIN Requests /\ t # <<>> /\ t[1] = <<"header", i>>
                    /\ Drop(t, 1) = After(Requests[i])
    BY NextHeader
  <1>3. d \o w = j \o t /\ (i # 0 => held = AfterContinue(Requests[i]))
    BY <1>1 DEF Unread
  <1>. HIDE DEF t
  <1>4. (d \o w)[1] = d[1]
    BY FirstOfConcat
  <1>5. j = <<>>
    <2>. SUFFICES ASSUME j # <<>> PROVE FALSE
      OBVIOUS
    <2>1. (j \o t)[1] = j[1]
      BY <1>2, FirstOfConcat
    <2>. QED
      BY <1>1, <1>3, <1>4, <2>1
  <1>6. d \o w = t
    BY <1>2, <1>3, <1>5, ConcatEmptySeq
  <1>7. i # 0
    <2>. SUFFICES ASSUME i = 0 PROVE FALSE
      OBVIOUS
    <2>1. d \o w = <<>>
      BY <1>2, <1>6
    <2>2. Len(d \o w) = Len(d) + Len(w) /\ Len(d) \in Nat /\ Len(w) \in Nat /\ Len(d) > 0
      BY ConcatProperties, EmptySeq
    <2>3. Len(d \o w) = 0
      BY <2>1
    <2>. QED
      BY <2>2, <2>3
  <1>8. Tail(d) \o w = Drop(d \o w, 1)
    BY TailFront
  <1>. QED
    BY <1>2, <1>3, <1>4, <1>6, <1>7, <1>8

(* The header of a request has been read.                                  *)
LEMMA StreamHeader ==
  ASSUME TypeOK, Stream, ReadRequest
  PROVE  Stream'
  <1>. DEFINE data(n) == read \o SubSeq(wire, 1, n)
              wf(n) == data(n)[1][1] = "header"
              h(n) == IF wf(n) THEN data(n)[1][2] ELSE 0
              x(n) == [req EXCEPT !.n = h(n), !.keepalive = wf(n) /\ ~Requests[h(n)].close]
  <1>1. /\ pc = "header" /\ held' = held /\ got' = got /\ loc' = loc
        /\ req \in ReqRec /\ wire \in Seq(Input) /\ read \in Seq(Input)
    BY DEF ReadRequest, dataVars, TypeOK
  <1>2. PICK n \in 0 .. Len(wire) :
          /\ (n = 0) <=> (read # <<>>)
          /\ wire' = Drop(wire, n) /\ read' = Tail(data(n))
          /\ \/ /\ wf(n) /\ req' = x(n) /\ UNCHANGED resp
                /\ pc' = IF Requests[h(n)].options THEN "options"
                         ELSE IF Requests[h(n)].preview >= 0 /\ Requests[h(n)].hasbody
                           THEN "read_preview" ELSE "preview"
             \/ \E ec \in {400, 403, 500} : ErrorResponse(x(n), ec)
    BY DEF ReadRequest
  <1>. DEFINE d == data(n)
              w == Drop(wire, n)
  <1>3. d \in Seq(Input) /\ w \in Seq(Input) /\ d \o w = read \o wire /\ d # <<>>
    <2>1. /\ SubSeq(wire, 1, n) \in Seq(Input) /\ Len(SubSeq(wire, 1, n)) = n
          /\ w \in Seq(Input) /\ d \in Seq(Input) /\ d \o w = read \o wire
      BY ReadType
    <2>2. Len(d) = Len(read) + n
      BY <1>1, <2>1, ConcatProperties
    <2>3. read # <<>> => Len(read) > 0
      BY <1>1, EmptySeq
    <2>4. Len(read) \in Nat
      BY <1>1
    <2>5. Len(d) # 0
      BY <1>2, <2>2, <2>3, <2>4
    <2>6. d # <<>>
      <3>1. Len(<<>>) = 0
        OBVIOUS
      <3>. QED
        BY <2>5, <3>1, Zenon
    <2>. QED
      BY <2>1, <2>6, Zenon
  <1>4. d[1] \in Input
    BY <1>3
  <1>. DEFINE y == x(n)
  <1>5. /\ y \in ReqRec /\ y.n = h(n) /\ y.pending = req.pending /\ y.eof = req.eof
    <2>. DEFINE k == wf(n) /\ ~Requests[h(n)].close
    <2>1. h(n) \in DOMAIN Requests \cup {0} /\ k \in BOOLEAN
      <3>. DEFINE t == d[1]
      <3>1. t \in Input
        BY <1>4
      <3>. HIDE DEF t
      <3>2. t[1] = "header" => t[2] \in DOMAIN Requests
        BY <3>1 DEF Input
      <3>. QED
        BY <3>2 DEF t
    <2>2. y = [req EXCEPT !.n = h(n), !.keepalive = k]
      BY SMTT(40)
    <2>. HIDE DEF k, y, h
    <2>. QED
      BY <1>1, <2>1, <2>2 DEF ReqRec
  <1>6. /\ got \o req.pending = Units(1, Seen) /\ Seen = 0 /\ resp = <<>> /\ req.eof = FALSE
        /\ Boundary
    BY <1>1 DEF Stream, InOrder
  <1>7. req.pending = <<>>
    <2>1. Len(got) \in Nat /\ Len(req.pending) \in Nat /\ req.pending \in Seq(Data)
      BY <1>1 DEF TypeOK, ReqRec
    <2>2. Len(req.pending) = 0
      BY <1>6, <2>1 DEF Seen
    <2>. QED
      BY <2>1, <2>2, EmptySeq
  <1>8. ASSUME SameBody(req', y) PROVE Seen' = 0 /\ InOrder' /\ req'.pending = <<>>
    <2>1. req'.pending = req.pending /\ req' \in ReqRec
      BY <1>5, <1>8 DEF SameBody
    <2>2. Seen' = 0
      BY <1>1, <1>6, <2>1 DEF Seen
    <2>3. req'.n # 0 => 0 <= q_'.len
      <3>1. req'.n # 0 => req'.n \in DOMAIN Requests
        BY <2>1 DEF ReqRec
      <3>2. q_' = Requests[req'.n]
        BY DEF q_
      <3>. QED
        BY <3>1, <3>2, RequestFields
    <2>. QED
      BY <1>1, <1>6, <1>7, <2>1, <2>2, <2>3 DEF InOrder
  <1>9. CASE \E ec \in {400, 403, 500} : ErrorResponse(y, ec)
    <2>1. PICK ec \in {400, 403, 500} : ErrorResponse(y, ec)
      BY <1>9
    <2>2. ec \in Int
      OBVIOUS
    <2>. HIDE DEF y
    <2>3. pc' = "end" /\ SameBody(req', y) /\ req'.keepalive = FALSE
      BY <1>5, <2>1, <2>2, ErrorCloses, ZenonT(40)
    <2>. QED
      BY <1>8, <2>3 DEF Stream, BodyPcs
  <1>10. CASE /\ wf(n) /\ req' = y /\ UNCHANGED resp
              /\ pc' = IF Requests[h(n)].options THEN "options"
                       ELSE IF Requests[h(n)].preview >= 0 /\ Requests[h(n)].hasbody
                         THEN "read_preview" ELSE "preview"
    <2>1. d[1][1] = "header"
      BY <1>10
    <2>2. PICK i \in DOMAIN Requests :
            /\ d[1] = <<"header", i>> /\ Tail(d) \o w = After(Requests[i])
            /\ held = AfterContinue(Requests[i])
      <3>. HIDE DEF d, w
      <3>. QED
        BY <1>3, <1>6, <2>1, HeaderFollows
    <2>3. h(n) = i
      <3>. DEFINE e == d[1]
      <3>1. e = <<"header", i>>
        BY <2>2
      <3>. HIDE DEF e
      <3>2. e[2] = i
        BY <3>1
      <3>. QED
        BY <2>1, <3>2, Zenon DEF e
    <2>4. read' \o wire' = After(Requests[i])
      BY <1>2, <2>2, ZenonT(40)
    <2>5. /\ SameBody(req', y) /\ req'.n = i /\ req'.eof = FALSE
      BY <1>5, <1>6, <1>10, <2>3 DEF SameBody
    <2>6. q_' = Requests[i] /\ held' = AfterContinue(q_')
      BY <1>1, <2>2, <2>5 DEF q_
    <2>7. Seen' = 0 /\ InOrder' /\ req'.pending = <<>> /\ resp' = <<>>
      BY <1>6, <1>8, <1>10, <2>5
    <2>. DEFINE q == Requests[i]
    <2>8. q.len \in Nat /\ q.preview \in Int /\ q.hasbody \in BOOLEAN /\ q.options \in BOOLEAN
      BY RequestFields
    <2>9. pc' = IF q.options THEN "options"
                ELSE IF q.preview >= 0 /\ q.hasbody THEN "read_preview" ELSE "preview"
      BY <1>10, <2>3
    <2>10. q_' = q /\ read' \o wire' = After(q)
      BY <2>4, <2>6
    <2>. HIDE DEF q, d, w, y, x, data, wf, h
    <2>11. CASE q.options
      <3>1. pc' = "options" /\ q_'.options /\ read' \o wire' = After(q_)'
        BY <2>9, <2>10, <2>11
      <3>. QED
        BY <2>6, <2>7, <3>1 DEF Stream, BodyPcs
    <2>12. CASE ~q.options /\ q.preview >= 0 /\ q.hasbody
      <3>1. pc' = "read_preview" /\ read' \o wire' = PreviewRest(q, 0)
        BY <2>8, <2>9, <2>10, <2>12 DEF After
      <3>2. 0 <= PreviewLen(q)
        BY <2>8, <2>12 DEF PreviewLen, Least
      <3>3. AtReadPreview'
        BY <2>7, <2>10, <2>12, <3>1, <3>2 DEF AtReadPreview
      <3>. QED
        BY <2>6, <2>7, <3>1, <3>3 DEF Stream, BodyPcs
    <2>13. CASE ~q.options /\ ~(q.preview >= 0 /\ q.hasbody)
      <3>1. pc' = "preview"
        BY <2>9, <2>13
      <3>2. AtPreview'
        <4>1. CASE q.hasbody
          <5>1. q.preview < 0 /\ read' \o wire' = BodyRest(q, 0)
            BY <2>8, <2>10, <2>13, <4>1 DEF After
          <5>. QED
            BY <2>5, <2>7, <2>8, <2>10, <4>1, <5>1 DEF AtPreview
        <4>2. CASE ~q.hasbody
          <5>1. read' \o wire' = <<>>
            BY <2>10, <4>2 DEF After
          <5>. QED
            BY <2>10, <4>2, <5>1 DEF AtPreview
        <4>. QED
          BY <4>1, <4>2
      <3>. QED
        BY <2>6, <2>7, <3>1, <3>2 DEF Stream, BodyPcs
    <2>. QED
      BY <2>11, <2>12, <2>13
  <1>. QED
    BY <1>2, <1>9, <1>10, ZenonT(40)

(* The first units and the next ones are the first units.                  *)
LEMMA UnitsJoin ==
  ASSUME NEW k \in Nat, NEW n \in Nat
  PROVE  /\ Units(1, k) \o Units(k + 1, k + n) = Units(1, k + n)
         /\ Len(Units(1, k)) = k /\ Len(Units(k + 1, k + n)) = n
         /\ Units(k + 1, k + n) \in Seq(Data)
  <1>. DEFINE a == Units(1, k)
              b == Units(k + 1, k + n)
              c == Units(1, k + n)
  <1>0. /\ k + n \in Nat /\ 1 \in Int /\ k \in Int /\ k + 1 \in Int /\ k + n \in Int
        /\ k >= 1 - 1 /\ k + n >= (k + 1) - 1 /\ k + n >= 1 - 1
    OBVIOUS
  <1>1. a \in Seq(Data) /\ Len(a) = k /\ \A i \in 1 .. k : a[i] = <<"data", i>>
    <2>1. a \in Seq(Data) /\ Len(a) = k - 1 + 1
      BY <1>0, UnitsType
    <2>2. \A i \in 1 .. k : a[i] = <<"data", i>>
      <3>. TAKE i \in 1 .. k
      <3>1. i \in 1 .. (k - 1 + 1) /\ 1 + i - 1 = i
        OBVIOUS
      <3>. QED
        BY <1>0, <3>1, UnitsElement
    <2>. HIDE DEF a
    <2>. QED
      BY <2>1, <2>2
  <1>2. b \in Seq(Data) /\ Len(b) = n /\ \A i \in 1 .. n : b[i] = <<"data", k + i>>
    <2>1. b \in Seq(Data) /\ Len(b) = (k + n) - (k + 1) + 1
      BY <1>0, UnitsType
    <2>2. \A i \in 1 .. n : b[i] = <<"data", k + i>>
      <3>. TAKE i \in 1 .. n
      <3>1. i \in 1 .. ((k + n) - (k + 1) + 1) /\ (k + 1) + i - 1 = k + i
        OBVIOUS
      <3>. QED
        BY <1>0, <3>1, UnitsElement
    <2>. HIDE DEF b
    <2>. QED
      BY <2>1, <2>2
  <1>3. c \in Seq(Data) /\ Len(c) = k + n /\ \A i \in 1 .. k + n : c[i] = <<"data", i>>
    <2>1. c \in Seq(Data) /\ Len(c) = (k + n) - 1 + 1
      BY <1>0, UnitsType
    <2>2. \A i \in 1 .. k + n : c[i] = <<"data", i>>
      <3>. TAKE i \in 1 .. k + n
      <3>1. i \in 1 .. ((k + n) - 1 + 1) /\ 1 + i - 1 = i
        OBVIOUS
      <3>. QED
        BY <1>0, <3>1, UnitsElement
    <2>. HIDE DEF c
    <2>. QED
      BY <2>1, <2>2
  <1>. HIDE DEF a, b, c
  <1>4. /\ a \o b \in Seq(Data) /\ Len(a \o b) = k + n
        /\ \A i \in 1 .. k + n : (a \o b)[i] = IF i <= k THEN a[i] ELSE b[i - k]
    BY <1>1, <1>2, ConcatProperties
  <1>5. ASSUME NEW i \in 1 .. Len(a \o b) PROVE (a \o b)[i] = c[i]
    <2>1. i \in 1 .. k + n
      BY <1>4
    <2>2. CASE i <= k
      <3>1. i \in 1 .. k
        BY <2>1, <2>2
      <3>. QED
        BY <1>1, <1>3, <1>4, <2>1, <2>2, <3>1
    <2>3. CASE ~(i <= k)
      <3>1. i - k \in 1 .. n /\ k + (i - k) = i
        BY <2>1, <2>3
      <3>2. b[i - k] = <<"data", k + (i - k)>>
        BY <1>2, <3>1
      <3>. QED
        BY <1>3, <1>4, <2>1, <2>3, <3>1, <3>2
    <2>. QED
      BY <2>2, <2>3
  <1>6. a \o b = c
    BY <1>3, <1>4, <1>5, SeqEqual
  <1>. QED
    BY <1>1, <1>2, <1>6 DEF a, b, c

(* Nothing is left and nothing follows; nothing is left.                   *)
LEMMA NothingUnread ==
  ASSUME read' \o wire' = <<>>
  PROVE  0 \in Nexts /\ Unread(<<>>, 0)'
  <1>1. NextPart(0) = <<>> /\ <<>> \o <<>> = <<>>
    BY DEF NextPart
  <1>. QED
    BY <1>1 DEF Unread, Nexts

(* A boundary.                                                             *)
LEMMA AtBoundary ==
  ASSUME NEW i \in Nexts, Unread(<<>>, i)'
  PROVE  Boundary'
  <1>1. <<>> \in Seq(Input)
    BY EmptySeq
  <1>. QED
    BY <1>1 DEF Boundary

(* The first unit of the rest of a body is not a header.                   *)
LEMMA RestNoHeader ==
  ASSUME NEW k \in Nat, NEW m \in Nat, k <= m, NEW last \in Input, last[1] # "header"
  PROVE  Rest(k, m, last)[1][1] # "header"
  <1>. DEFINE s == Rest(k, m, last)
  <1>1. /\ \A i \in 1 .. m - k : s[i] = <<"data", k + i>>
        /\ s[m - k + 1] = last
    BY RestElements
  <1>. HIDE DEF s
  <1>2. CASE k = m
    <2>1. m - k + 1 = 1
      BY <1>2
    <2>. QED
      BY <1>1, <2>1 DEF s
  <1>3. CASE k < m
    <2>1. 1 \in 1 .. m - k
      BY <1>3
    <2>2. s[1] = <<"data", k + 1>>
      BY <1>1, <2>1
    <2>. QED
      BY <2>2 DEF s
  <1>. QED
    BY <1>2, <1>3

(* A body does not begin like a request.                                   *)
LEMMA BodyFirst ==
  ASSUME NEW i \in DOMAIN Requests, Requests[i].hasbody
  PROVE  After(Requests[i])[1][1] # "header"
  <1>. DEFINE q == Requests[i]
  <1>1. q.len \in Nat /\ q.preview \in Int /\ LastChunk(q) \in Input
        /\ LastChunk(q)[1] # "header" /\ q.hasbody
    BY RequestFields
  <1>2. /\ <<"ieof", 0>> \in Input /\ <<"zero", 0>> \in Input
        /\ <<"ieof", 0>>[1] # "header" /\ <<"zero", 0>>[1] # "header"
    BY DEF Input
  <1>. HIDE DEF q
  <1>3. ASSUME NEW m \in Nat, NEW last \in Input, last[1] # "header"
        PROVE  Rest(0, m, last)[1][1] # "header"
    <2>1. 0 \in Nat /\ 0 <= m
      BY <1>3
    <2>. QED
      BY <1>3, <2>1, RestNoHeader
  <1>4. CASE q.preview < 0
    <2>1. After(q) = Rest(0, q.len, LastChunk(q))
      BY <1>1, <1>4 DEF After, BodyRest
    <2>. QED
      BY <1>1, <1>3, <2>1 DEF q
  <1>5. CASE ~(q.preview < 0)
    <2>. DEFINE last == IF q.preview >= q.len THEN <<"ieof", 0>> ELSE <<"zero", 0>>
    <2>1. PreviewLen(q) \in Nat /\ last \in Input /\ last[1] # "header"
      BY <1>1, <1>2, <1>5 DEF PreviewLen, Least
    <2>2. After(q) = Rest(0, PreviewLen(q), last)
      BY <1>1, <1>5 DEF After, PreviewRest
    <2>. HIDE DEF last
    <2>. QED
      BY <1>3, <2>1, <2>2 DEF q
  <1>. QED
    BY <1>4, <1>5

(* A wait that ends, and a step of the worker before the body.             *)
LEMMA StreamOptions ==
  ASSUME TypeOK, Stream, options_responce
  PROVE  Stream'
  <1>1. pc = "options" /\ Ends(req, "CI_OK") /\ UNCHANGED <<wire, read, got>> /\ req \in ReqRec
    BY DEF options_responce, clientVars, dataVars, TypeOK
  <1>2. SameBody(req, req)
    BY <1>1 DEF SameBody
  <1>3. pc' = "end" /\ SameBody(req', req)
    BY <1>1, <1>2, EndsBody
  <1>4. read' \o wire' = After(q_)
    BY <1>1 DEF Stream
  <1>6. Seen' = Seen /\ q_' = q_ /\ req'.n = req.n /\ req'.pending = req.pending
    BY <1>1, <1>3 DEF Seen, q_, SameBody
  <1>8. req.n \in DOMAIN Requests /\ q_.options
    BY <1>1 DEF TypeOK, Stream
  <1>5. Boundary'
    <2>1. CASE ~q_.hasbody
      BY <1>4, <2>1, NothingUnread, AtBoundary DEF After
    <2>2. CASE q_.hasbody
      <3>1. PICK j \in Seq(Input) : j = After(q_)
        BY <1>8, RestsOfRequest DEF q_
      <3>2. j[1][1] # "header"
        BY <1>8, <2>2, <3>1, BodyFirst DEF q_
      <3>3. NextPart(0) = <<>> /\ j \o <<>> = j /\ 0 \in Nexts
        BY ConcatEmptySeq DEF NextPart, Nexts
      <3>4. Unread(j, 0)'
        BY <1>4, <3>1, <3>3 DEF Unread
      <3>5. OffBoundary'
        BY <1>6, <1>8, <2>2 DEF OffBoundary
      <3>. QED
        BY <3>2, <3>3, <3>4, <3>5 DEF Boundary
    <2>. QED
      BY <2>1, <2>2
  <1>7. InOrder'
    BY <1>1, <1>6 DEF Stream, InOrder
  <1>. QED
    BY <1>3, <1>5, <1>7 DEF Stream, BodyPcs

(* Data are read for the preview, or it is given up.                       *)
LEMMA StreamPreviewRead ==
  ASSUME TypeOK, Stream, read_preview_data_read
  PROVE  Stream'
  <1>1. pc = "read_preview" /\ UNCHANGED <<held, loc, got>> /\ req \in ReqRec
    BY DEF read_preview_data_read, dataVars, TypeOK
  <1>2. CASE \E n \in 1 .. Len(wire) : net_data_read(n) /\ UNCHANGED <<pc, req, resp>>
    <2>1. PICK n \in 1 .. Len(wire) : net_data_read(n) /\ UNCHANGED <<pc, req, resp>>
      BY <1>2
    <2>2. n \in 0 .. Len(wire)
      OBVIOUS
    <2>3. read' \o wire' = read \o wire
      BY <2>1, <2>2, ReadType DEF net_data_read
    <2>4. Seen' = Seen /\ q_' = q_
      BY <1>1, <2>1 DEF Seen, q_
    <2>5. AtReadPreview' /\ InOrder'
      BY <1>1, <2>1, <2>3, <2>4 DEF Stream, AtReadPreview, InOrder
    <2>6. req'.pending = <<>> /\ resp' = <<>> /\ held' = AfterContinue(q_')
      BY <1>1, <2>1, <2>4 DEF Stream
    <2>. QED
      BY <1>1, <2>1, <2>5, <2>6 DEF Stream, BodyPcs
  <1>3. CASE ErrorResponse(req, 408)
    <2>1. 408 \in Int
      OBVIOUS
    <2>2. pc' = "end" /\ SameBody(req', req) /\ req'.keepalive = FALSE
      BY <1>1, <1>3, <2>1, ErrorCloses
    <2>. QED
      BY <1>1, <2>2, StreamCloses
  <1>. QED
    BY <1>2, <1>3 DEF read_preview_data_read

(* The data that one call of parse_chunk_data finds are the next units.    *)
LEMMA NextUnits ==
  ASSUME TypeOK, InOrder, req.pending = <<>>, NEW n \in Nat, NEW u, u = Units(Seen + 1, Seen + n)
  PROVE  /\ Seen \in Nat /\ Len(u) = n /\ u \in Seq(Data)
         /\ got \o u = Units(1, Seen + n) /\ Len(got) = Seen
  <1>1. Len(got) \in Nat /\ Len(<<>>) = 0 /\ got \in Seq(Data)
    BY DEF TypeOK
  <1>2. Seen = Len(got) /\ Seen \in Nat
    BY <1>1 DEF Seen
  <1>3. got = Units(1, Seen)
    <2>1. got \o <<>> = Units(1, Seen)
      BY DEF InOrder
    <2>. QED
      BY <1>1, <2>1, ConcatEmptySeq
  <1>4. /\ Units(1, Seen) \o Units(Seen + 1, Seen + n) = Units(1, Seen + n)
        /\ Len(Units(Seen + 1, Seen + n)) = n /\ Units(Seen + 1, Seen + n) \in Seq(Data)
    BY <1>2, UnitsJoin
  <1>. QED
    BY <1>2, <1>3, <1>4

(* What is read of the preview goes to the service.                        *)
LEMMA StreamPreviewParse ==
  ASSUME TypeOK, Stream, read_preview_data_parse
  PROVE  Stream'
  <1>0. /\ pc = "read_preview" /\ UNCHANGED <<wire, held, loc>>
        /\ req \in ReqRec /\ read \in Seq(Input) /\ got \in Seq(Data) /\ wire \in Seq(Input)
    BY DEF TypeOK, read_preview_data_parse, clientVars
  <1>1. PICK p \in parse_chunk_data(read) :
       IF p.ret = "CI_ERROR" THEN ErrorResponse(req, 408) /\ UNCHANGED <<read, got>>
       ELSE /\ got' = got \o p.pending
            /\ req' = [req EXCEPT !.eof = p.ieof,
                         !.preview = IF p.ieof THEN "CI_EOF" ELSE "CI_OK"]
            /\ pc' = IF p.ret = "CI_EOF" THEN "preview" ELSE pc
            /\ read' = IF p.ret = "CI_EOF" THEN <<>> ELSE p.read
            /\ UNCHANGED resp
    BY DEF read_preview_data_parse
  <1>2. p.ieof \in BOOLEAN /\ p.read \in Seq(Input)
    BY <1>0, ParseType
  <1>3. CASE p.ret = "CI_ERROR"
    <2>1. 408 \in Int /\ ErrorResponse(req, 408) /\ got' = got
      BY <1>1, <1>3
    <2>2. pc' = "end" /\ SameBody(req', req) /\ req'.keepalive = FALSE
      BY <1>0, <2>1, ErrorCloses
    <2>. QED
      BY <2>1, <2>2, StreamCloses
  <1>4. CASE p.ret # "CI_ERROR"
    <2>. DEFINE q == q_
                last == IF q.preview >= q.len THEN <<"ieof", 0>> ELSE <<"zero", 0>>
                m == PreviewLen(q)
                v == IF p.ieof THEN "CI_EOF" ELSE "CI_OK"
    <2>1. /\ req.n \in DOMAIN Requests /\ req.n # 0 /\ q.len \in Nat /\ q.preview \in Int
      <3>1. req.n \in DOMAIN Requests
        BY <1>0 DEF TypeOK
      <3>. QED
        BY <3>1, RequestFields, IcapRequestAssumption DEF q_
    <2>2. /\ InOrder /\ AtReadPreview /\ req.pending = <<>> /\ resp = <<>>
          /\ held = AfterContinue(q)
      BY <1>0 DEF Stream
    <2>3. /\ q.hasbody /\ q.preview >= 0 /\ Seen <= m /\ read \o wire = Rest(Seen, m, last)
      BY <2>2 DEF AtReadPreview, PreviewRest
    <2>4. q_' = q /\ got' = got \o p.pending /\ req' = [req EXCEPT !.eof = p.ieof, !.preview = v]
          /\ resp' = <<>>
      <3>1. req' = [req EXCEPT !.eof = p.ieof, !.preview = v] /\ got' = got \o p.pending
            /\ resp' = resp
        BY <1>1, <1>4
      <3>2. req'.n = req.n
        BY <1>0, <3>1 DEF ReqRec
      <3>. QED
        BY <2>2, <3>1, <3>2 DEF q_
    <2>5. last \in Input /\ last[1] # "data" /\ ((last[1] = "ieof") = (q.preview >= q.len))
      BY DEF Input
    <2>6. m \in Nat /\ m <= q.len
      BY <2>1, <2>3 DEF PreviewLen, Least
    <2>7. v \in {"CI_OK", "CI_EOF"} /\ v = IF p.ieof THEN "CI_EOF" ELSE "CI_OK"
      OBVIOUS
    <2>. HIDE DEF last, m, v
    <2>8. req'.n = req.n /\ req'.pending = <<>> /\ req'.eof = p.ieof /\ req'.preview = v
      BY <1>0, <1>2, <2>2, <2>4, <2>7 DEF ReqRec
    <2>9. Seen \in Nat
      <3>1. Len(got) \in Nat /\ Len(req.pending) \in Nat
        BY <1>0 DEF ReqRec
      <3>. QED
        BY <3>1 DEF Seen
    <2>10. Holds(read, wire, Seen, m, last, <<>>) /\ <<>> \in Seq(Input)
      <3>1. <<>> \in Seq(Input) /\ Rest(Seen, m, last) \in Seq(Input)
        BY <2>3, <2>5, <2>6, <2>9, EmptySeq, RestElements
      <3>2. Rest(Seen, m, last) \o <<>> = Rest(Seen, m, last)
        BY <3>1, ConcatEmptySeq
      <3>. QED
        BY <2>3, <3>1, <3>2 DEF Holds
    <2>11. Parsed(p, wire, Seen, m, last, <<>>)
      BY <1>0, <1>4, <2>3, <2>5, <2>6, <2>9, <2>10, ParseRest
    <2>12. PICK n \in Nat :
             /\ Seen + n <= m /\ p.pending = Units(Seen + 1, Seen + n)
             /\ \/ p.ret = "CI_EOF" /\ Seen + n = m /\ p.read \o wire = <<>>
                   /\ p.ieof = (last[1] = "ieof")
                \/ p.ret # "CI_EOF" /\ Holds(p.read, wire, Seen + n, m, last, <<>>)
                   /\ p.ieof = FALSE
      BY <2>11 DEF Parsed
    <2>13. /\ Len(p.pending) = n /\ p.pending \in Seq(Data)
           /\ got \o p.pending = Units(1, Seen + n) /\ Len(got) = Seen
      BY <2>2, <2>12, NextUnits
    <2>14. Seen' = Seen + n
      <3>1. Len(got \o p.pending) = Len(got) + Len(p.pending)
        BY <1>0, <2>13, ConcatProperties
      <3>2. Len(got') = Seen + n /\ Len(req'.pending) = 0
        BY <2>4, <2>8, <2>13, <3>1
      <3>. QED
        BY <2>9, <3>2 DEF Seen
    <2>15. InOrder'
      <3>1. got' \o req'.pending = got'
        <4>1. got' \in Seq(Data)
          BY <1>0, <2>4, <2>13, ConcatProperties
        <4>. QED
          BY <2>8, <4>1, ConcatEmptySeq
      <3>2. got' = Units(1, Seen')
        BY <2>4, <2>13, <2>14
      <3>3. Seen' <= q_'.len
        BY <2>1, <2>4, <2>6, <2>9, <2>12, <2>14
      <3>. QED
        BY <3>1, <3>2, <3>3 DEF InOrder
    <2>16. held' = AfterContinue(q_')
      BY <1>0, <2>2, <2>4
    <2>17. CASE p.ret = "CI_EOF"
      <3>1. pc' = "preview" /\ read' = <<>>
        BY <1>1, <1>4, <2>17
      <3>2. Seen + n = m /\ p.read \o wire = <<>> /\ p.ieof = (last[1] = "ieof")
        BY <2>12, <2>17
      <3>3. read' \o wire' = <<>>
        <4>1. wire = <<>>
          <5>1. Len(p.read \o wire) = Len(p.read) + Len(wire) /\ Len(p.read) \in Nat
                /\ Len(wire) \in Nat
            BY <1>0, <1>2, ConcatProperties
          <5>2. Len(wire) = 0
            BY <3>2, <5>1
          <5>. QED
            BY <1>0, <5>2, EmptySeq
        <4>. QED
          BY <1>0, <3>1, <4>1
      <3>4. AtPreview'
        <4>1. p.ieof = (q.preview >= q.len)
          BY <2>5, <3>2
        <4>2. req'.preview = IF q.preview >= q.len THEN "CI_EOF" ELSE "CI_OK"
          BY <2>7, <2>8, <4>1
        <4>3. Seen' = PreviewLen(q) /\ req'.eof = (q.preview >= q.len)
          BY <2>8, <2>14, <3>2, <4>1 DEF m
        <4>. HIDE DEF q
        <4>. QED
          BY <2>1, <2>3, <2>4, <3>3, <4>2, <4>3 DEF AtPreview
      <3>. QED
        BY <2>4, <2>8, <2>15, <2>16, <3>1, <3>4 DEF Stream, BodyPcs
    <2>18. CASE p.ret # "CI_EOF"
      <3>1. pc' = "read_preview" /\ read' = p.read
        BY <1>0, <1>1, <1>4, <2>18
      <3>2. Holds(p.read, wire, Seen + n, m, last, <<>>)
        BY <2>12, <2>18
      <3>3. read' \o wire' = Rest(Seen', m, last)
        <4>0. Seen + n \in Nat /\ Seen + n <= m
          BY <2>9, <2>12
        <4>1. Rest(Seen + n, m, last) \in Seq(Input)
          BY <2>5, <2>6, <4>0, RestElements
        <4>2. Rest(Seen + n, m, last) \o <<>> = Rest(Seen + n, m, last)
          BY <4>1, ConcatEmptySeq
        <4>. QED
          BY <1>0, <2>14, <3>1, <3>2, <4>2 DEF Holds
      <3>4. AtReadPreview'
        <4>1. Seen' <= m
          BY <2>12, <2>14
        <4>2. PreviewRest(q, Seen') = Rest(Seen', m, last)
          BY DEF PreviewRest, m, last
        <4>. HIDE DEF q
        <4>. QED
          BY <2>3, <2>4, <3>3, <4>1, <4>2 DEF AtReadPreview, m
      <3>. QED
        BY <2>4, <2>8, <2>15, <2>16, <3>1, <3>4 DEF Stream, BodyPcs
    <2>. QED
      BY <2>17, <2>18
  <1>. QED
    BY <1>3, <1>4

(* get_send_body begins where the preview has left the body.               *)
LEMMA BodyBeginsThere ==
  ASSUME NEW x \in ReqRec, NEW b \in BOOLEAN, get_send_body(x, b)
  PROVE  pc' = "wait" /\ SameBody(req', x) /\ loc'.parse_ret = "none"
  <1>. DEFINE a == IF read = <<>> THEN {"read"} ELSE {}
  <1>1. /\ pc' = "wait" /\ req' = [x EXCEPT !.status = "SEND_NOTHING"]
        /\ loc' = [NoLocals EXCEPT !.parse_only = b, !.action = a]
    BY DEF get_send_body
  <1>. HIDE DEF a
  <1>2. SameBody(req', x)
    BY <1>1 DEF SameBody, ReqRec, Statuses
  <1>3. loc'.parse_ret = NoLocals.parse_ret
    BY <1>1, FreshType DEF LocRec
  <1>4. NoLocals.parse_ret = "none"
    BY DEF NoLocals
  <1>. QED
    BY <1>1, <1>2, <1>3, <1>4

(* Where do_request goes on after the preview, by the code.                *)
GoneOn(x, c) ==
  /\ SameBody(req', x)
  /\ \/ pc' = "end" /\ c = 204
     \/ pc' = "wait" /\ c = 100 /\ q_.hasbody /\ loc'.parse_ret = "none"
     \/ /\ pc' = "end_of_data" /\ ~(c = 100 /\ q_.hasbody)
        /\ req'.status = x.status /\ req'.code = c

(* Nothing of the body is lost there.                                      *)
LEMMA ProceedBody ==
  ASSUME NEW x \in ReqRec, NEW e \in BOOLEAN, Proceed(x, e)
  PROVE  GoneOn(x, IF e THEN 200 ELSE x.code)
  <1>. DEFINE c == IF e THEN 200 ELSE x.code
  <1>1. c \in Int
    BY DEF ReqRec
  <1>2. SameBody(x, x)
    BY DEF SameBody
  <1>. HIDE DEF c
  <1>3. CASE c = 204
    <2>1. Ends(x, "CI_OK")
      BY <1>3 DEF Proceed, c, Ends, get_send_body
    <2>2. pc' = "end" /\ SameBody(req', x)
      BY <1>2, <2>1, EndsBody
    <2>. QED
      BY <1>3, <2>2 DEF GoneOn, c
  <1>4. CASE c = 100 /\ q_.hasbody
    <2>. DEFINE y == WithCode(x, 200)
    <2>1. get_send_body(y, FALSE)
      BY <1>4 DEF Proceed, c, get_send_body, WithCode
    <2>2. 200 \in Int
      OBVIOUS
    <2>3. SameBody(y, x)
      BY <2>2, BodyFieldsKept
    <2>4. y \in ReqRec
      BY <2>3 DEF SameBody
    <2>. HIDE DEF y
    <2>5. pc' = "wait" /\ SameBody(req', y) /\ loc'.parse_ret = "none"
      BY <2>1, <2>4, BodyBeginsThere
    <2>. QED
      BY <1>4, <2>3, <2>5 DEF GoneOn, c, SameBody
  <1>5. CASE c # 204 /\ ~(c = 100 /\ q_.hasbody)
    <2>1. pc' = "end_of_data" /\ req' = WithCode(x, c)
      BY <1>5, Zenon DEF Proceed, c, WithCode
    <2>2. SameBody(WithCode(x, c), x)
      BY <1>1, BodyFieldsKept
    <2>3. WithCode(x, c).code = c /\ WithCode(x, c).status = x.status
      BY <1>1, CodeSet
    <2>4. SameBody(req', x) /\ req'.code = c /\ req'.status = x.status
      BY <2>1, <2>2, <2>3
    <2>. QED
      BY <1>5, <2>1, <2>4 DEF GoneOn, c
  <1>. QED
    BY <1>3, <1>4, <1>5

(* Where a request goes from the preview handler, and what it leaves.      *)
Unbuffered == ~(q_.hasbody /\ q_.preview < 0)
Handled ==
  /\ SameBody(req', req)
  /\ \/ pc' = "end" /\ req'.keepalive = FALSE
     \/ pc' = "end" /\ Unbuffered /\ UNCHANGED <<wire, held>>
     \/ /\ pc' = "wait" /\ q_.hasbody /\ loc'.parse_ret = "none"
        /\ \/ q_.preview < 0 /\ UNCHANGED <<wire, held>>
           \/ /\ q_.preview >= 0 /\ req.preview # "CI_EOF"
              /\ UNCHANGED <<wire, held>> \/ (wire' = wire \o held /\ held' = <<>>)
     \/ /\ pc' = "end_of_data" /\ Unbuffered /\ UNCHANGED <<wire, held>>
        /\ (q_.hasbody /\ req'.status = "SEND_NOTHING" /\ req'.code = 200) =>
             req.preview = "CI_EOF"

(* The ways on after the answer of a handler: a "204".                     *)
LEMMA HandledResponds ==
  ASSUME TypeOK, NEW x \in ReqRec, SameBody(x, req), Proceed(Responded(x, 204), FALSE),
         Unbuffered, UNCHANGED <<wire, held>>
  PROVE  Handled
  <1>. DEFINE y == Responded(x, 204)
  <1>1. 204 \in Int /\ FALSE \in BOOLEAN
    OBVIOUS
  <1>2. y \in ReqRec /\ SameBody(y, x)
    BY <1>1, RespondedType, RespondedBody
  <1>3. y.status = "SEND_EOF" /\ y.code = StatusCode(204)
    BY <1>1, RespondedFields
  <1>. HIDE DEF y
  <1>4. GoneOn(y, y.code)
    <2>1. GoneOn(y, IF FALSE THEN 200 ELSE y.code)
      BY <1>1, <1>2, ProceedBody DEF y
    <2>. QED
      BY <2>1
  <1>5. StatusCode(204) # 100
    BY DEF StatusCode
  <1>6. SameBody(req', req)
    BY <1>2, <1>4 DEF GoneOn, SameBody
  <1>. QED
    BY <1>3, <1>4, <1>5, <1>6 DEF GoneOn, Handled

(* A response that could not be sent.                                      *)
LEMMA HandledFails ==
  ASSUME TypeOK, NEW x \in ReqRec, SameBody(x, req),
         Ends(WithoutKeepalive(Responded(x, 204)), "CI_ERROR")
  PROVE  Handled
  <1>. DEFINE y == Responded(x, 204)
              z == WithoutKeepalive(y)
  <1>1. 204 \in Int
    OBVIOUS
  <1>2. y \in ReqRec /\ SameBody(y, x)
    BY <1>1, RespondedType, RespondedBody
  <1>. HIDE DEF y
  <1>3. SameBody(z, y) /\ z.keepalive = FALSE
    BY <1>2, BodyFieldsKept
  <1>4. Ends(z, "CI_ERROR")
    BY DEF y
  <1>. HIDE DEF z
  <1>5. z \in ReqRec /\ SameBody(z, req)
    BY <1>2, <1>3 DEF SameBody
  <1>6. pc' = "end" /\ SameBody(req', req) /\ req'.keepalive = z.keepalive
    BY <1>4, <1>5, EndsBody
  <1>. QED
    BY <1>3, <1>6 DEF Handled

(* An error response.                                                      *)
LEMMA HandledError ==
  ASSUME TypeOK, NEW x \in ReqRec, SameBody(x, req), NEW ec \in Int, ErrorResponse(x, ec)
  PROVE  Handled
  <1>1. pc' = "end" /\ SameBody(req', x) /\ req'.keepalive = FALSE
    BY ErrorCloses
  <1>. QED
    BY <1>1 DEF Handled, SameBody

(* The codes with which the end-of-data handler comes next.                *)
WithoutBody(c) == c = 206 \/ (c = 200 /\ ~q_.hasbody)

(* The end-of-data handler.                                                *)
LEMMA HandledCode ==
  ASSUME TypeOK, NEW x \in ReqRec, SameBody(x, req), NEW c \in Int, WithoutBody(c),
         Proceed(WithCode(x, c), FALSE), Unbuffered, UNCHANGED <<wire, held>>
  PROVE  Handled
  <1>. DEFINE y == WithCode(x, c)
  <1>1. c \in Int /\ FALSE \in BOOLEAN
    OBVIOUS
  <1>2. SameBody(y, x) /\ y.code = c
    <2>1. SameBody(WithCode(x, c), x)
      BY <1>1, BodyFieldsKept
    <2>2. WithCode(x, c).code = c
      BY <1>1, CodeSet
    <2>. QED
      BY <2>1, <2>2
  <1>3. y \in ReqRec
    BY <1>2 DEF SameBody
  <1>. HIDE DEF y
  <1>4. GoneOn(y, c)
    <2>0. Proceed(y, FALSE)
      BY DEF y
    <2>1. GoneOn(y, IF FALSE THEN 200 ELSE y.code)
      BY <1>1, <1>3, <2>0, ProceedBody
    <2>. QED
      BY <1>2, <2>1
  <1>5. SameBody(req', req)
    BY <1>2, <1>4 DEF GoneOn, SameBody
  <1>. QED
    BY <1>4, <1>5 DEF GoneOn, Handled, WithoutBody

(* A handler called with a preview.                                        *)
LEMMA PreviewHandled ==
  ASSUME TypeOK, pc = "preview", NEW x \in ReqRec, SameBody(x, req), x.preview = req.preview,
         q_.preview >= 0, NEW answer, do_request_preview(x, answer)
  PROVE  Handled
  <1>. DEFINE y1 == Responded(x, 204)
              y2 == WithoutKeepalive(y1)
              eof == x.preview = "CI_EOF" \/ ~q_.hasbody
  <1>1. \/ UNCHANGED <<wire, held>> /\ Proceed(y1, FALSE)
        \/ Ends(y2, "CI_ERROR")
        \/ Proceed(WithCode(x, 206), FALSE) /\ UNCHANGED <<wire, held>>
        \/ eof /\ Proceed(x, TRUE) /\ UNCHANGED <<wire, held>>
        \/ /\ ~eof /\ Proceed(WithCode(x, 100), FALSE)
           /\ \/ wire' = wire \o held /\ held' = <<>>
              \/ UNCHANGED <<wire, held>>
        \/ ErrorResponse(x, 500)
    BY DEF do_request_preview, WithCode, WithoutKeepalive
  <1>2. Unbuffered
    <2>1. q_.preview \in Int
      BY RequestFields DEF TypeOK, q_
    <2>. QED
      BY <2>1 DEF Unbuffered
  <1>. HIDE DEF y1, y2
  <1>3. ASSUME eof, Proceed(x, TRUE), UNCHANGED <<wire, held>>, Unbuffered PROVE Handled
    <2>1. GoneOn(x, 200)
      <3>1. GoneOn(x, IF TRUE THEN 200 ELSE x.code)
        BY <1>3, ProceedBody
      <3>. QED
        BY <3>1
    <2>. QED
      BY <1>3, <2>1 DEF GoneOn, Handled, SameBody
  <1>4. ASSUME ~eof, Proceed(WithCode(x, 100), FALSE),
               UNCHANGED <<wire, held>> \/ (wire' = wire \o held /\ held' = <<>>)
        PROVE  Handled
    <2>. DEFINE y == WithCode(x, 100)
    <2>1. 100 \in Int /\ FALSE \in BOOLEAN
      OBVIOUS
    <2>2. SameBody(y, x) /\ y.code = 100
      BY <2>1, BodyFieldsKept, CodeSet
    <2>3. y \in ReqRec
      BY <2>2 DEF SameBody
    <2>. HIDE DEF y
    <2>4. GoneOn(y, 100)
      <3>1. GoneOn(y, IF FALSE THEN 200 ELSE y.code)
        BY <1>4, <2>1, <2>3, ProceedBody DEF y
      <3>. QED
        BY <2>2, <3>1
    <2>5. SameBody(req', req)
      BY <2>2, <2>4 DEF GoneOn, SameBody
    <2>6. pc' = "wait" /\ q_.hasbody /\ loc'.parse_ret = "none" /\ req.preview # "CI_EOF"
      BY <1>4, <2>4 DEF GoneOn
    <2>. QED
      BY <1>4, <2>5, <2>6 DEF Handled
  <1>5. 500 \in Int
    OBVIOUS
  <1>6. ASSUME Proceed(y1, FALSE), UNCHANGED <<wire, held>> PROVE Handled
    BY <1>2, <1>6, HandledResponds DEF y1
  <1>7. ASSUME Ends(y2, "CI_ERROR") PROVE Handled
    BY <1>7, HandledFails, Zenon DEF y1, y2
  <1>8. ASSUME ErrorResponse(x, 500) PROVE Handled
    BY <1>5, <1>8, HandledError
  <1>9. ASSUME Proceed(WithCode(x, 206), FALSE), UNCHANGED <<wire, held>> PROVE Handled
    <2>1. 206 \in Int /\ WithoutBody(206)
      BY DEF WithoutBody
    <2>. QED
      BY <1>2, <1>9, <2>1, HandledCode
  <1>. QED
    BY <1>1, <1>2, <1>3, <1>4, <1>6, <1>7, <1>8, <1>9

(* The body is on its way and is read.                                     *)
LEMMA HandledBody ==
  ASSUME NEW x, NEW y \in ReqRec, SameBody(x, req), SameBody(y, x), y.code = 100,
         q_.hasbody, q_.preview < 0, Proceed(y, FALSE), UNCHANGED <<wire, held>>
  PROVE  Handled
  <1>1. GoneOn(y, 100)
    <2>1. GoneOn(y, IF FALSE THEN 200 ELSE y.code)
      BY ProceedBody
    <2>. QED
      BY <2>1
  <1>2. SameBody(req', req)
    BY <1>1 DEF GoneOn, SameBody
  <1>. QED
    BY <1>1, <1>2 DEF GoneOn, Handled

(* A handler called without a preview.                                     *)
LEMMA FakePreviewHandled ==
  ASSUME TypeOK, EagerServices = FALSE, pc = "preview", NEW x \in ReqRec, SameBody(x, req),
         q_.preview < 0, NEW answer, do_fake_preview(x, answer)
  PROVE  Handled
  <1>. DEFINE y1 == Responded(x, 204)
              y2 == WithoutKeepalive(y1)
              y3 == WithCode(y1, 204)
              y4 == Echoing(x)
  <1>1. \/ q_.hasbody /\ get_send_body(y1, TRUE)
        \/ ~q_.hasbody /\ Ends(y3, "CI_OK")
        \/ Ends(y2, "CI_ERROR")
        \/ q_.hasbody /\ Proceed(y4, FALSE)
        \/ q_.hasbody /\ Proceed(WithCode(x, 100), FALSE)
        \/ ~q_.hasbody /\ Proceed(WithCode(x, 200), FALSE)
        \/ ~q_.hasbody /\ Proceed(WithCode(x, 206), FALSE)
        \/ ErrorResponse(x, 500)
    BY ZenonT(40) DEF do_fake_preview, WithCode, WithoutKeepalive, Echoing
  <1>2. UNCHANGED <<wire, held>>
    BY DEF do_fake_preview
  <1>3. y1 \in ReqRec /\ SameBody(y1, x)
    <2>1. 204 \in Int
      OBVIOUS
    <2>. QED
      BY <2>1, RespondedType, RespondedBody
  <1>. HIDE DEF y1, y2, y3, y4
  <1>4. ASSUME q_.hasbody, get_send_body(y1, TRUE) PROVE Handled
    <2>1. pc' = "wait" /\ SameBody(req', y1) /\ loc'.parse_ret = "none"
      BY <1>3, <1>4, BodyBeginsThere
    <2>2. SameBody(req', req)
      BY <1>3, <2>1 DEF SameBody
    <2>. QED
      BY <1>2, <1>4, <2>1, <2>2 DEF Handled
  <1>5. ASSUME ~q_.hasbody, Ends(y3, "CI_OK") PROVE Handled
    <2>1. 204 \in Int
      OBVIOUS
    <2>2. SameBody(y3, y1)
      BY <1>3, <2>1, BodyFieldsKept DEF y3
    <2>3. y3 \in ReqRec /\ SameBody(y3, req)
      BY <1>3, <2>2 DEF SameBody
    <2>4. pc' = "end" /\ SameBody(req', req)
      BY <1>5, <2>3, EndsBody
    <2>. QED
      BY <1>2, <1>5, <2>4 DEF Handled, Unbuffered
  <1>6. ASSUME Ends(y2, "CI_ERROR") PROVE Handled
    BY <1>6, HandledFails DEF y1, y2
  <1>7. ASSUME q_.hasbody, Proceed(y4, FALSE) PROVE Handled
    <2>1. SameBody(y4, x) /\ y4.code = 100
      BY BodyFieldsKept, EchoSet DEF y4
    <2>2. y4 \in ReqRec
      BY <2>1 DEF SameBody
    <2>. QED
      BY <1>2, <1>7, <2>1, <2>2, HandledBody
  <1>8. ASSUME q_.hasbody, Proceed(WithCode(x, 100), FALSE) PROVE Handled
    <2>. DEFINE y == WithCode(x, 100)
    <2>1. 100 \in Int
      OBVIOUS
    <2>2. SameBody(y, x)
      BY <2>1, BodyFieldsKept
    <2>3. y.code = 100
      BY <2>1, CodeSet
    <2>4. y \in ReqRec
      BY <2>2 DEF SameBody
    <2>. HIDE DEF y
    <2>5. Proceed(y, FALSE)
      BY <1>8 DEF y
    <2>. QED
      BY <1>2, <1>8, <2>2, <2>3, <2>4, <2>5, HandledBody
  <1>9. ASSUME ~q_.hasbody, NEW c \in Int, WithoutBody(c), Proceed(WithCode(x, c), FALSE)
        PROVE  Handled
    <2>1. Unbuffered
      BY <1>9 DEF Unbuffered
    <2>. QED
      BY <1>2, <1>9, <2>1, HandledCode
  <1>10. ASSUME ErrorResponse(x, 500) PROVE Handled
    <2>1. 500 \in Int
      OBVIOUS
    <2>. QED
      BY <1>10, <2>1, HandledError
  <1>11. ASSUME ~q_.hasbody, Proceed(WithCode(x, 200), FALSE) PROVE Handled
    <2>1. 200 \in Int /\ WithoutBody(200)
      BY <1>11 DEF WithoutBody
    <2>. QED
      BY <1>9, <1>11, <2>1
  <1>12. ASSUME ~q_.hasbody, Proceed(WithCode(x, 206), FALSE) PROVE Handled
    <2>1. 206 \in Int /\ WithoutBody(206)
      BY <1>12 DEF WithoutBody
    <2>. QED
      BY <1>9, <1>12, <2>1
  <1>. QED
    BY <1>1, <1>4, <1>5, <1>6, <1>7, <1>8, <1>10, <1>11, <1>12, Zenon

(* The preview handler, with or without a preview.                         *)
LEMMA HandlerHandled ==
  ASSUME TypeOK, EagerServices = FALSE, PreviewHandler
  PROVE  pc = "preview" /\ Handled /\ read' = read /\ got' = got
  <1>1. PICK answer \in Answers, unlock \in BOOLEAN :
          LET x == [req EXCEPT !.locked = req.locked /\ ~unlock] IN
            IF q_.preview >= 0 THEN do_request_preview(x, answer) ELSE do_fake_preview(x, answer)
    BY DEF PreviewHandler
  <1>2. pc = "preview" /\ read' = read /\ got' = got
    BY DEF PreviewHandler
  <1>. DEFINE x == [req EXCEPT !.locked = req.locked /\ ~unlock]
  <1>3. x \in ReqRec /\ SameBody(x, req) /\ x.preview = req.preview
    BY DEF ReqRec, TypeOK, SameBody
  <1>4. q_.preview \in Int
    BY <1>2, RequestFields DEF TypeOK, q_
  <1>5. (q_.preview >= 0 /\ do_request_preview(x, answer))
          \/ (q_.preview < 0 /\ do_fake_preview(x, answer))
    BY <1>1, <1>4
  <1>. HIDE DEF x
  <1>. QED
    BY <1>2, <1>3, <1>5, PreviewHandled, FakePreviewHandled

(* After the preview handler nothing of the body is lost.                  *)
LEMMA StreamHandler ==
  ASSUME TypeOK, Stream, EagerServices = FALSE, PreviewHandler
  PROVE  Stream'
  <1>1. pc = "preview" /\ Handled /\ read' = read /\ got' = got
    BY HandlerHandled
  <1>2. /\ InOrder /\ AtPreview /\ req.pending = <<>> /\ held = AfterContinue(q_)
        /\ read \in Seq(Input) /\ wire \in Seq(Input) /\ held \in Seq(Input)
    BY <1>1 DEF Stream, TypeOK
  <1>. DEFINE q == q_
  <1>3. /\ req.n \in DOMAIN Requests /\ q.len \in Nat /\ q.preview \in Int
        /\ q.hasbody \in BOOLEAN /\ LastChunk(q) \in Input
    BY <1>1, RequestFields DEF TypeOK, q_
  <1>4. /\ SameBody(req', req) /\ q_' = q /\ Seen' = Seen /\ req'.pending = <<>>
        /\ req'.eof = req.eof
    <2>1. SameBody(req', req)
      BY <1>1 DEF Handled
    <2>. QED
      BY <1>1, <1>2, <2>1 DEF SameBody, q_, Seen
  <1>5. InOrder'
    BY <1>1, <1>2, <1>4 DEF InOrder, SameBody
  <1>6. ASSUME Unbuffered, UNCHANGED <<wire, held>> PROVE Unread(<<>>, 0)' /\ 0 \in Nexts
    <2>1. read \o wire = <<>>
      BY <1>2, <1>3, <1>6 DEF Unbuffered, AtPreview
    <2>. QED
      BY <1>1, <1>6, <2>1, NothingUnread
  <1>7. CASE pc' = "end" /\ req'.keepalive = FALSE
    BY <1>1, <1>4, <1>7, StreamCloses
  <1>8. CASE pc' = "end" /\ Unbuffered /\ UNCHANGED <<wire, held>>
    <2>1. Boundary'
      BY <1>6, <1>8, AtBoundary
    <2>. QED
      BY <1>5, <1>8, <2>1 DEF Stream, BodyPcs
  <1>9. CASE /\ pc' = "end_of_data" /\ Unbuffered /\ UNCHANGED <<wire, held>>
             /\ (q_.hasbody /\ req'.status = "SEND_NOTHING" /\ req'.code = 200) =>
                  req.preview = "CI_EOF"
    <2>1. ASSUME q_.hasbody, req.preview = "CI_EOF" PROVE req'.eof /\ Seen' = q_'.len
      <3>1. q.preview >= 0
        BY <1>3, <1>9, <2>1 DEF Unbuffered
      <3>2. /\ req.eof = (q.preview >= q.len) /\ Seen = PreviewLen(q)
            /\ req.preview = IF q.preview >= q.len THEN "CI_EOF" ELSE "CI_OK"
        BY <1>2, <2>1, <3>1 DEF AtPreview
      <3>3. q.preview >= q.len
        BY <2>1, <3>2
      <3>4. PreviewLen(q) = q.len
        BY <1>3, <3>3 DEF PreviewLen, Least
      <3>. QED
        BY <1>4, <3>2, <3>3, <3>4
    <2>2. \E i \in Nexts : Unread(<<>>, i)'
      BY <1>6, <1>9
    <2>. QED
      BY <1>4, <1>5, <1>9, <2>1, <2>2 DEF Stream, BodyPcs
  <1>10. ASSUME NEW t \in Seq(Input), read' \o wire' = t, Left(0)' = t
         PROVE  \E i \in Nexts : Unread(Left(i), i)'
    <2>1. NextPart(0) = <<>> /\ 0 \in Nexts
      BY DEF NextPart, Nexts
    <2>2. t \o <<>> = t
      BY ConcatEmptySeq
    <2>3. Unread(Left(0), 0)'
      BY <1>10, <2>1, <2>2 DEF Unread
    <2>. QED
      BY <2>1, <2>3
  <1>11. held = IF q.hasbody /\ 0 <= q.preview /\ q.preview < q.len
                  THEN BodyRest(q, q.preview) ELSE <<>>
    BY <1>2, <1>3, PartsOfRequest DEF q_
  <1>. HIDE DEF q
  <1>12. ASSUME pc' = "wait", q.hasbody, req.eof = FALSE, loc'.parse_ret = "none",
                \E i \in Nexts : Unread(Left(i), i)'
         PROVE  Stream'
    <2>1. InBody'
      BY <1>4, <1>12 DEF InBody
    <2>. QED
      BY <1>4, <1>5, <1>12, <2>1 DEF Stream, BodyPcs
  <1>13. CASE /\ pc' = "wait" /\ q.hasbody /\ loc'.parse_ret = "none"
              /\ q.preview < 0 /\ UNCHANGED <<wire, held>>
    <2>. DEFINE t == BodyRest(q, 0)
    <2>1. read \o wire = t /\ Seen = 0 /\ req.eof = FALSE
      BY <1>2, <1>13 DEF AtPreview, q
    <2>2. held = <<>>
      BY <1>3, <1>11, <1>13
    <2>3. t \in Seq(Input)
      <3>1. 0 \in Nat /\ 0 <= q.len
        BY <1>3
      <3>. QED
        BY <1>3, <3>1, RestElements DEF BodyRest
    <2>4. Left(0)' = t
      BY <1>4, <1>13, <2>1, <2>2 DEF Left
    <2>. HIDE DEF t
    <2>5. \E i \in Nexts : Unread(Left(i), i)'
      BY <1>1, <1>10, <1>13, <2>1, <2>3, <2>4
    <2>. QED
      BY <1>12, <1>13, <2>1, <2>5
  <1>14. CASE /\ pc' = "wait" /\ q.hasbody /\ loc'.parse_ret = "none"
              /\ q.preview >= 0 /\ req.preview # "CI_EOF"
              /\ UNCHANGED <<wire, held>> \/ (wire' = wire \o held /\ held' = <<>>)
    <2>1. /\ read \o wire = <<>> /\ Seen = PreviewLen(q) /\ req.eof = (q.preview >= q.len)
          /\ req.preview = IF q.preview >= q.len THEN "CI_EOF" ELSE "CI_OK"
      BY <1>2, <1>14 DEF AtPreview, q
    <2>2. q.preview < q.len /\ req.eof = FALSE
      <3>1. ~(q.preview >= q.len)
        BY <1>14, <2>1, Zenon
      <3>2. (q.preview >= q.len) = FALSE
        BY <1>3, <3>1
      <3>3. req.eof = FALSE
        BY <2>1, <3>2
      <3>. QED
        BY <1>3, <3>1, <3>3
    <2>3. Seen = q.preview /\ Seen \in Nat /\ Seen <= q.len
      BY <1>3, <1>14, <2>1, <2>2 DEF PreviewLen, Least
    <2>. DEFINE t == BodyRest(q, Seen)
    <2>4. held = t
      BY <1>3, <1>11, <1>14, <2>2, <2>3
    <2>5. t \in Seq(Input) /\ Len(t) = q.len - Seen + 1
      BY <1>3, <2>3, RestElements DEF BodyRest
    <2>6. t # <<>>
      <3>1. Len(t) # 0 /\ Len(<<>>) = 0
        BY <1>3, <2>3, <2>5
      <3>. QED
        BY <3>1, Zenon
    <2>7. Left(0)' = IF held' # <<>> THEN <<>> ELSE t
      BY <1>4, <2>2 DEF Left
    <2>. HIDE DEF t
    <2>8. CASE UNCHANGED <<wire, held>>
      <3>1. Left(0)' = <<>> /\ <<>> \in Seq(Input) /\ read' \o wire' = <<>>
        BY <1>1, <2>1, <2>4, <2>6, <2>7, <2>8, EmptySeq
      <3>2. \E i \in Nexts : Unread(Left(i), i)'
        BY <1>10, <3>1
      <3>. QED
        BY <1>12, <1>14, <2>2, <3>2
    <2>9. CASE wire' = wire \o held /\ held' = <<>>
      <3>1. read \o (wire \o held) = (read \o wire) \o held
        BY <1>2, ConcatAssociative, SMTT(30)
      <3>2. read' \o wire' = t
        BY <1>1, <2>1, <2>4, <2>5, <2>9, <3>1, ConcatEmptySeq
      <3>3. Left(0)' = t
        BY <2>7, <2>9
      <3>4. \E i \in Nexts : Unread(Left(i), i)'
        BY <1>10, <2>5, <3>2, <3>3
      <3>. QED
        BY <1>12, <1>14, <2>2, <3>4
    <2>. QED
      BY <1>14, <2>8, <2>9
  <1>. QED
    BY <1>1, <1>7, <1>8, <1>9, <1>13, <1>14 DEF Handled, q

(* A step that leaves the stream and the parsed data alone.                *)
Kept ==
  SameBody(req', req) /\ got' = got /\ held' = held /\ read' \o wire' = read \o wire

(* So does a step that leaves their variables alone.                       *)
LEMMA SameStream ==
  ASSUME SameBody(req', req), UNCHANGED <<wire, held, read, got>>
  PROVE  Kept
  BY DEF Kept

(* The data stay in order.                                                 *)
LEMMA OrderKept ==
  ASSUME InOrder, Kept
  PROVE  InOrder' /\ Seen' = Seen /\ q_' = q_ /\ req'.eof = req.eof
  <1>1. Seen' = Seen /\ q_' = q_ /\ req'.eof = req.eof
    BY DEF Kept, SameBody, Seen, q_
  <1>2. InOrder'
    BY <1>1 DEF InOrder, Kept, SameBody
  <1>. QED
    BY <1>1, <1>2

(* The rest of the body stays.                                             *)
LEMMA BodyKept ==
  ASSUME InOrder, InBody, Kept, loc'.parse_ret = "none" \/ loc'.parse_ret = loc.parse_ret
  PROVE  InBody'
  <1>1. Seen' = Seen /\ q_' = q_ /\ req'.eof = req.eof
    BY OrderKept
  <1>2. PICK i \in Nexts : Unread(Left(i), i)
    BY DEF InBody
  <1>3. Left(i)' = Left(i)
    BY <1>1 DEF Left, Kept
  <1>4. Unread(Left(i), i)'
    BY <1>2, <1>3 DEF Unread, Kept
  <1>5. /\ q_'.hasbody /\ (req'.eof => Seen' = q_'.len)
        /\ loc'.parse_ret = "CI_EOF" => req'.eof
    BY <1>1 DEF InBody
  <1>6. \E k \in Nexts : Unread(Left(k), k)'
    BY <1>4
  <1>. QED
    BY <1>5, <1>6 DEF InBody

(* A request that gives up in the middle of a body fails.                  *)
LEMMA BodyBoundary ==
  ASSUME TypeOK, InOrder, InBody, pc \in BodyPcs, Kept, req.eof \/ req'.ret = "CI_ERROR"
  PROVE  Boundary'
  <1>1. PICK i \in Nexts : Unread(Left(i), i)
    BY DEF InBody
  <1>2. Left(i) \in Seq(Input)
    BY LeftType
  <1>3. Left(i) = <<>> \/ (Left(i) = BodyRest(q_, Seen) /\ ~req.eof)
    BY DEF Left
  <1>4. PICK j \in Seq(Input) : j = Left(i)
    BY <1>2
  <1>5. Unread(j, i)'
    BY <1>1, <1>4 DEF Unread, Kept
  <1>6. j = <<>> \/ (OffBoundary' /\ j[1][1] # "header")
    <2>1. CASE Left(i) = <<>>
      BY <1>4, <2>1
    <2>2. CASE Left(i) = BodyRest(q_, Seen) /\ ~req.eof
      <3>1. /\ req.n \in DOMAIN Requests /\ req.n # 0
            /\ got \in Seq(Data) /\ req.pending \in Seq(Data)
        <4>1. pc \notin {"header", "end", "closed"}
          BY DEF BodyPcs
        <4>2. req.n \in DOMAIN Requests
          BY <4>1, CurrentRequest
        <4>. QED
          BY <4>2, IcapRequestAssumption DEF TypeOK, ReqRec
      <3>2. Seen \in Nat
        BY <3>1, LenProperties DEF Seen
      <3>3. Seen <= q_.len
        BY <3>1 DEF InOrder
      <3>4. q_.len \in Nat /\ LastChunk(q_) \in Input /\ LastChunk(q_)[1] # "header"
        BY <3>1, RequestFields DEF q_
      <3>5. Rest(Seen, q_.len, LastChunk(q_))[1][1] # "header"
        <4>. DEFINE k == Seen
                    m == q_.len
                    last == LastChunk(q_)
        <4>1. k \in Nat /\ m \in Nat /\ k <= m /\ last \in Input /\ last[1] # "header"
          BY <3>2, <3>3, <3>4
        <4>. HIDE DEF k, m, last
        <4>2. Rest(k, m, last)[1][1] # "header"
          BY <4>1, RestNoHeader
        <4>. QED
          BY <4>2 DEF k, m, last
      <3>. QED
        BY <1>4, <2>2, <3>5 DEF BodyRest, OffBoundary
    <2>. QED
      BY <1>3, <2>1, <2>2
  <1>. QED
    BY <1>5, <1>6 DEF Boundary

(* get_send_body returns.                                                  *)
LEMMA BodyReturns ==
  ASSUME TypeOK, Stream, pc \in BodyPcs, NEW x \in ReqRec, SameBody(x, req),
         BodyDone(x) \/ BodyError(x), UNCHANGED <<wire, held, read, got>>
  PROVE  Stream'
  <1>. DEFINE y1 == WithCode(x, 204)
              y2 == WithoutKeepalive(x)
              y3 == [x EXCEPT !.keepalive = loc.parse_only /\ x.keepalive]
  <1>1. x.eof \in BOOLEAN /\ loc.parse_only \in BOOLEAN /\ x.keepalive \in BOOLEAN
    BY DEF ReqRec, TypeOK, LocRec
  <1>2. \/ x.eof /\ Ends(y1, "CI_OK")
        \/ x.eof /\ pc' = "end_of_data" /\ req' = x
        \/ Ends(x, "CI_ERROR")
        \/ Ends(y2, "CI_ERROR")
        \/ Ends(y3, "CI_ERROR")
    BY <1>1 DEF BodyDone, BodyError, WithCode, WithoutKeepalive
  <1>3. SameBody(y1, req) /\ y1 \in ReqRec
    <2>1. 204 \in Int
      OBVIOUS
    <2>2. SameBody(y1, x)
      BY <2>1, BodyFieldsKept
    <2>. HIDE DEF y1
    <2>. QED
      BY <2>2 DEF SameBody
  <1>4. SameBody(y2, req) /\ y2 \in ReqRec
    <2>1. SameBody(y2, x)
      BY BodyFieldsKept
    <2>. HIDE DEF y2
    <2>. QED
      BY <2>1 DEF SameBody
  <1>5. SameBody(y3, req) /\ y3 \in ReqRec
    <2>. DEFINE b == loc.parse_only /\ x.keepalive
    <2>1. b \in BOOLEAN
      BY <1>1
    <2>2. y3 = [x EXCEPT !.keepalive = b]
      OBVIOUS
    <2>. HIDE DEF b
    <2>3. y3 \in ReqRec /\ y3.n = x.n /\ y3.pending = x.pending /\ y3.eof = x.eof
      BY <2>1, <2>2 DEF ReqRec
    <2>. HIDE DEF y3
    <2>. QED
      BY <2>3 DEF SameBody
  <1>. HIDE DEF y1, y2, y3
  <1>6. InOrder /\ InBody
    BY DEF Stream
  <1>7. x.eof = req.eof
    BY DEF SameBody
  <1>8. ASSUME NEW y \in ReqRec, SameBody(y, req), NEW r \in {"CI_OK", "CI_ERROR"}, Ends(y, r),
               req.eof \/ r = "CI_ERROR"
        PROVE  Stream'
    <2>1. pc' = "end" /\ SameBody(req', req) /\ req'.ret = r
      BY <1>8, EndsBody
    <2>2. Kept
      BY <2>1, SameStream
    <2>3. InOrder' /\ Boundary'
      BY <1>6, <1>8, <2>1, <2>2, OrderKept, BodyBoundary
    <2>. QED
      BY <2>1, <2>3 DEF Stream, BodyPcs
  <1>9. ASSUME x.eof, pc' = "end_of_data", req' = x PROVE Stream'
    <2>1. Kept
      BY <1>9, SameStream
    <2>2. InOrder' /\ Seen' = Seen /\ q_' = q_ /\ req'.eof = req.eof
      BY <1>6, <2>1, OrderKept
    <2>3. req'.eof /\ Seen' = q_'.len
      BY <1>6, <1>7, <1>9, <2>2 DEF InBody
    <2>4. PICK i \in Nexts : Unread(Left(i), i)
      BY <1>6 DEF InBody
    <2>5. Left(i) = <<>>
      BY <1>7, <1>9 DEF Left
    <2>6. Unread(<<>>, i)'
      BY <2>1, <2>4, <2>5 DEF Unread, Kept
    <2>7. \E k \in Nexts : Unread(<<>>, k)'
      BY <2>6
    <2>. QED
      BY <1>9, <2>2, <2>3, <2>7 DEF Stream, BodyPcs
  <1>10. ASSUME x.eof, Ends(y1, "CI_OK") PROVE Stream'
    BY <1>3, <1>7, <1>8, <1>10
  <1>11. ASSUME NEW y \in ReqRec, SameBody(y, req), Ends(y, "CI_ERROR") PROVE Stream'
    BY <1>8, <1>11
  <1>. QED
    BY <1>2, <1>4, <1>5, <1>9, <1>10, <1>11

(* The connection is closed while it waits for a header.                   *)
LEMMA StreamTimeout ==
  ASSUME TypeOK, Stream, HeaderTimeout
  PROVE  Stream'
  <1>1. pc' = "closed" /\ UNCHANGED <<req, got>>
    BY DEF HeaderTimeout, dataVars
  <1>2. InOrder'
    BY <1>1 DEF Stream, InOrder, Seen, q_
  <1>. QED
    BY <1>1, <1>2 DEF Stream, BodyPcs

(* A step within get_send_body that leaves the stream alone.               *)
LEMMA StreamStays ==
  ASSUME TypeOK, Stream, pc \in BodyPcs, pc' \in BodyPcs, Kept,
         loc'.parse_ret = "none" \/ loc'.parse_ret = loc.parse_ret,
         pc' = "wait" /\ "read" \in loc'.action => req'.pending = <<>>
  PROVE  Stream'
  <1>1. InOrder /\ InBody
    BY DEF Stream
  <1>2. InOrder' /\ InBody'
    BY <1>1, OrderKept, BodyKept
  <1>. QED
    BY <1>2 DEF Stream, BodyPcs

(* Nothing to wait for.                                                    *)
LEMMA StreamNoWait ==
  ASSUME TypeOK, Stream, gsb_NoWait
  PROVE  Stream'
  <1>1. /\ pc = "wait" /\ pc' = "update" /\ UNCHANGED <<wire, held, read, got, req, loc>>
        /\ req \in ReqRec
    BY DEF gsb_NoWait, clientVars, dataVars, TypeOK
  <1>2. Kept
    BY <1>1, SameStream DEF SameBody
  <1>. QED
    BY <1>1, <1>2, StreamStays DEF BodyPcs

(* The wait ends with nothing to read or to write.                         *)
LEMMA StreamWaitFails ==
  ASSUME TypeOK, Stream, gsb_WaitFails
  PROVE  Stream'
  <1>1. /\ pc = "wait" /\ UNCHANGED <<wire, held, read, got>> /\ req \in ReqRec
        /\ BodyDone(req) \/ BodyError(req)
    BY DEF gsb_WaitFails, clientVars, dataVars, TypeOK
  <1>2. SameBody(req, req)
    BY <1>1 DEF SameBody
  <1>. QED
    BY <1>1, <1>2, BodyReturns DEF BodyPcs

(* What update_send_status, a write and the last chunk leave alone.        *)
LEMMA UpdateBody ==
  ASSUME NEW x \in ReqRec, NEW y \in update_send_status(x),
         x.status = "SEND_NOTHING" => q_.hasbody \in BOOLEAN
  PROVE  SameBody(y, x) /\ y.keepalive = x.keepalive
  <1>0. y \in ReqRec
    BY UpdateType
  <1>. DEFINE Others(z) == z.n = x.n /\ z.pending = x.pending /\ z.eof = x.eof
                           /\ z.keepalive = x.keepalive
  <1>1. CASE x.status = "SEND_NOTHING"
    <2>1. PICK b, t : y = mk_responce_header(x, b, t)
      BY <1>1 DEF update_send_status
    <2>2. Others(y)
      BY <2>1 DEF ReqRec, mk_responce_header
    <2>. QED
      BY <1>0, <2>2 DEF SameBody
  <1>2. CASE x.status = "SEND_RESPHEAD"
    <2>1. y = [x EXCEPT !.status = "SEND_HEAD1", !.block = <<<<"head", 0>>>>]
      BY <1>2 DEF update_send_status
    <2>2. Others(y)
      BY <2>1 DEF ReqRec
    <2>. QED
      BY <1>0, <2>2 DEF SameBody
  <1>3. CASE x.status = "SEND_HEAD1"
    <2>1. y = [x EXCEPT !.status = IF x.respbody THEN "SEND_BODY" ELSE "SEND_EOF"]
      BY <1>3 DEF update_send_status
    <2>2. Others(y)
      BY <2>1 DEF ReqRec
    <2>. QED
      BY <1>0, <2>2 DEF SameBody
  <1>4. CASE x.status = "SEND_EOF" /\ x.block = <<>> /\ x.trailers
    <2>1. y = [x EXCEPT !.status = "SEND_TRAILERS", !.block = <<<<"trailer", 0>>>>]
      BY <1>4 DEF update_send_status
    <2>2. Others(y)
      BY <2>1 DEF ReqRec
    <2>. QED
      BY <1>0, <2>2 DEF SameBody
  <1>5. CASE /\ x.status \notin {"SEND_NOTHING", "SEND_RESPHEAD", "SEND_HEAD1"}
             /\ ~(x.status = "SEND_EOF" /\ x.block = <<>> /\ x.trailers)
    <2>1. update_send_status(x) = {x}
      BY <1>5 DEF update_send_status
    <2>. QED
      BY <2>1 DEF SameBody
  <1>. QED
    BY <1>1, <1>2, <1>3, <1>4, <1>5

(* Writing a part of a block leaves the parsed data alone.                 *)
LEMMA SendBody ==
  ASSUME TypeOK, NEW x \in ReqRec, NEW n, send_current_block_data(x, n)
  PROVE  SameBody(req', x)
  <1>1. req' \in ReqRec
    BY SendOutcome
  <1>. DEFINE d == Drop(x.block, n)
  <1>2. req' = [x EXCEPT !.block = d]
    BY DEF send_current_block_data
  <1>. HIDE DEF d
  <1>3. req'.n = x.n /\ req'.pending = x.pending /\ req'.eof = x.eof
    BY <1>2 DEF ReqRec
  <1>. QED
    BY <1>1, <1>3 DEF SameBody

(* So does the last chunk.                                                 *)
LEMMA ChunkBody ==
  ASSUME NEW x \in ReqRec, x.status = "SEND_BODY", x.block = <<>>
  PROVE  SameBody(format_body_chunk(x, TRUE), x)
  <1>. DEFINE y == format_body_chunk(x, TRUE)
              b == <<<<"eof", 0>>>>
  <1>1. y \in ReqRec
    BY ChunkEnds
  <1>2. y = [x EXCEPT !.block = b, !.status = "SEND_EOF"]
    BY DEF format_body_chunk
  <1>. HIDE DEF b, y
  <1>3. y.n = x.n /\ y.pending = x.pending /\ y.eof = x.eof
    BY <1>2 DEF ReqRec
  <1>4. SameBody(y, x)
    BY <1>1, <1>3 DEF SameBody
  <1>. QED
    BY <1>4 DEF y

(* The start of a round.                                                   *)
LEMMA StreamUpdate ==
  ASSUME TypeOK, Stream, gsb_Update
  PROVE  Stream'
  <1>1. /\ pc = "update" /\ pc' = "io" /\ UNCHANGED <<clientVars, read, dataVars, resp>>
        /\ req' = req \/ (~req.locked /\ req.block = <<>> /\ req' \in update_send_status(req))
    BY UpdateOutcome
  <1>2. q_.hasbody \in BOOLEAN /\ req \in ReqRec /\ loc \in LocRec
    BY <1>1, CurrentRequest DEF TypeOK
  <1>3. SameBody(req', req)
    <2>1. CASE req' = req
      BY <1>2, <2>1 DEF SameBody
    <2>2. CASE req' \in update_send_status(req)
      BY <1>2, <2>2, UpdateBody
    <2>. QED
      BY <1>1, <2>1, <2>2
  <1>4. loc'.parse_ret = "none"
    <2>1. PICK a, b : loc' = [loc EXCEPT !.lock_status = a, !.formated = b, !.parse_ret = "none"]
      BY DEF gsb_Update
    <2>. QED
      BY <1>2, <2>1 DEF LocRec
  <1>5. Kept
    BY <1>1, <1>3, SameStream DEF clientVars, dataVars
  <1>. QED
    BY <1>1, <1>4, <1>5, StreamStays DEF BodyPcs

(* The wait ends: what is read moves from the wire, nothing is pending.    *)
LEMMA StreamWait ==
  ASSUME TypeOK, Stream, gsb_Wait
  PROVE  Stream'
  <1>1. PICK ready \in (SUBSET loc.action) \ {{}} :
       /\ IF "read" \in ready THEN \E n \in 1 .. Len(wire) : net_data_read(n)
          ELSE UNCHANGED <<wire, read>>
       /\ LET x == IF "read" \in ready THEN Moved(req) ELSE req IN
            IF "write" \in ready
              THEN \E y \in IF ~x.locked /\ x.status = "SEND_NOTHING"
                              THEN update_send_status(x) ELSE {x} :
                     \E n \in 0 .. Len(y.block) : send_current_block_data(y, n)
              ELSE req' = x /\ UNCHANGED resp
    BY DEF gsb_Wait
  <1>2. pc = "wait" /\ pc' = "update" /\ UNCHANGED <<held, loc, got>> /\ req \in ReqRec
    BY DEF gsb_Wait, dataVars, TypeOK
  <1>3. read' \o wire' = read \o wire
    <2>1. CASE "read" \in ready
      <3>1. PICK n \in 1 .. Len(wire) : net_data_read(n)
        BY <1>1, <2>1
      <3>2. n \in 0 .. Len(wire)
        OBVIOUS
      <3>3. read' = read \o SubSeq(wire, 1, n) /\ wire' = Drop(wire, n)
        BY <3>1 DEF net_data_read
      <3>4. (read \o SubSeq(wire, 1, n)) \o Drop(wire, n) = read \o wire
        BY <3>2, ReadType
      <3>. QED
        BY <3>3, <3>4
    <2>2. CASE "read" \notin ready
      BY <1>1, <2>2
    <2>. QED
      BY <2>1, <2>2
  <1>. DEFINE x == IF "read" \in ready THEN Moved(req) ELSE req
  <1>4. x \in ReqRec /\ SameBody(x, req)
    <2>1. CASE "read" \in ready
      <3>1. req.pending = <<>>
        <4>1. "read" \in loc.action
          BY <2>1
        <4>. QED
          BY <1>2, <4>1 DEF Stream
      <3>2. x = Moved(req)
        BY <2>1
      <3>. DEFINE p == [i \in DOMAIN req.pending |-> <<"data", 0>>]
      <3>3. /\ Moved(req) \in ReqRec /\ Moved(req).n = req.n
            /\ Moved(req).pending = <<>>
        BY <1>2, <3>1, MovedType
      <3>4. Moved(req) = [req EXCEPT !.pending = p]
        BY DEF Moved
      <3>. HIDE DEF p
      <3>5. Moved(req).eof = req.eof
        BY <1>2, <3>4 DEF ReqRec
      <3>. QED
        BY <3>1, <3>2, <3>3, <3>5 DEF SameBody
    <2>2. CASE "read" \notin ready
      BY <1>2, <2>2 DEF SameBody
    <2>. QED
      BY <2>1, <2>2
  <1>5. q_.hasbody \in BOOLEAN
    BY <1>2, CurrentRequest
  <1>6. SameBody(req', req)
    <2>1. CASE "write" \in ready
      <3>1. PICK y \in (IF ~x.locked /\ x.status = "SEND_NOTHING"
                          THEN update_send_status(x) ELSE {x}) :
              \E n \in 0 .. Len(y.block) : send_current_block_data(y, n)
        BY <1>1, <2>1
      <3>2. PICK n \in 0 .. Len(y.block) : send_current_block_data(y, n)
        BY <3>1
      <3>. HIDE DEF x
      <3>3. y = x \/ y \in update_send_status(x)
        BY <3>1
      <3>4. SameBody(y, x)
        <4>1. CASE y = x
          BY <1>4, <4>1 DEF SameBody
        <4>2. CASE y \in update_send_status(x)
          BY <1>4, <1>5, <4>2, UpdateBody
        <4>. QED
          BY <3>3, <4>1, <4>2
      <3>5. y \in ReqRec
        BY <3>4 DEF SameBody
      <3>6. SameBody(req', y)
        BY <3>2, <3>5, SendBody
      <3>. QED
        BY <1>4, <3>4, <3>6 DEF SameBody
    <2>2. CASE "write" \notin ready
      <3>1. req' = x
        BY <1>1, <2>2
      <3>. HIDE DEF x
      <3>. QED
        BY <1>4, <3>1
    <2>. QED
      BY <2>1, <2>2
  <1>. HIDE DEF x
  <1>7. Kept
    BY <1>2, <1>3, <1>6 DEF Kept
  <1>. QED
    BY <1>2, <1>7, StreamStays DEF BodyPcs

(* The end of a round.                                                     *)
LEMMA StreamRound ==
  ASSUME TypeOK, Stream, gsb_Round
  PROVE  Stream'
  <1>. DEFINE x == Formatted(req)
  <1>1. /\ pc = "round" /\ UNCHANGED <<wire, held, read, got>> /\ req \in ReqRec
        /\ loc \in LocRec
    BY DEF gsb_Round, clientVars, dataVars, TypeOK
  <1>2. x \in ReqRec /\ SameBody(x, req)
    <2>1. CASE /\ req.status = "SEND_BODY" /\ ~loc.formated /\ req.block = <<>>
               /\ loc.service_eof
      <3>1. x = format_body_chunk(req, TRUE)
        BY <2>1 DEF Formatted, format_body_chunk
      <3>. HIDE DEF x
      <3>2. SameBody(x, req)
        BY <1>1, <2>1, <3>1, ChunkBody
      <3>. QED
        BY <3>2 DEF SameBody
    <2>2. CASE ~(/\ req.status = "SEND_BODY" /\ ~loc.formated /\ req.block = <<>>
                 /\ loc.service_eof)
      <3>1. x = req
        BY <2>2 DEF Formatted, format_body_chunk
      <3>. QED
        BY <1>1, <3>1 DEF SameBody
    <2>. QED
      BY <2>1, <2>2
  <1>. HIDE DEF x
  <1>3. CASE GoesOn(x)
    <2>. DEFINE a == WaitFor(x)
    <2>1. pc' = "wait" /\ req' = x /\ loc' = [loc EXCEPT !.action = a]
      BY <1>3 DEF gsb_Round, x
    <2>2. "read" \in a => x.pending = <<>>
      BY DEF WaitFor
    <2>. HIDE DEF a
    <2>3. loc'.parse_ret = loc.parse_ret /\ loc'.action = a
      BY <1>1, <2>1 DEF LocRec
    <2>4. Kept
      BY <1>1, <1>2, <2>1, SameStream
    <2>. QED
      BY <1>1, <2>1, <2>2, <2>3, <2>4, StreamStays DEF BodyPcs
  <1>4. CASE ~GoesOn(x)
    <2>1. BodyDone(x)
      BY <1>4 DEF gsb_Round, x
    <2>. QED
      BY <1>1, <1>2, <2>1, BodyReturns DEF BodyPcs
  <1>. QED
    BY <1>3, <1>4

(* What is left behind a body stays there while the response is sent.      *)
LEMMA StreamRest ==
  ASSUME TypeOK, Stream, pc \in {"end_of_data", "rest"}, pc' \in {"rest", "end"},
         SameBody(req', req), UNCHANGED <<wire, held, read, got>>
  PROVE  Stream'
  <1>1. Kept
    BY SameStream
  <1>2. InOrder'
    BY <1>1, OrderKept DEF Stream
  <1>3. PICK i \in Nexts : Unread(<<>>, i)
    BY DEF Stream
  <1>4. Unread(<<>>, i)'
    BY <1>1, <1>3 DEF Unread, Kept
  <1>5. Boundary' /\ \E k \in Nexts : Unread(<<>>, k)'
    BY <1>4, AtBoundary
  <1>. QED
    BY <1>2, <1>5 DEF Stream, BodyPcs

(* The end-of-data handler.                                                *)
LEMMA StreamEndOfData ==
  ASSUME TypeOK, Stream, EndOfDataHandler
  PROVE  Stream'
  <1>0. /\ pc = "end_of_data" /\ UNCHANGED <<wire, held, read, got>> /\ req \in ReqRec
    BY DEF TypeOK, EndOfDataHandler, clientVars, dataVars
  <1>. DEFINE y1 == Responded(req, 204)
              y2 == WithoutKeepalive(y1)
              y3 == WithCode(req, 206)
              y4 == WithoutKeepalive(req)
  <1>1. \/ pc' = "rest" /\ req' = Unlocked(req)
        \/ pc' = "rest" /\ \E t \in BOOLEAN : req' = Unlocked(WithTrailers(y1, t))
        \/ Ends(y1, "CI_OK")
        \/ Ends(y2, "CI_ERROR")
        \/ pc' = "rest" /\ req' = Unlocked(y3)
        \/ Ends(y4, "CI_ERROR")
        \/ ErrorResponse(req, 500)
    BY DEF EndOfDataHandler, do_end_of_data, EndOfDataFails, Unlocked, WithCode, WithoutKeepalive,
        WithTrailers
  <1>2. 204 \in Int /\ 206 \in Int /\ 500 \in Int
    OBVIOUS
  <1>3. y1 \in ReqRec /\ SameBody(y1, req)
    BY <1>0, <1>2, RespondedType, RespondedBody
  <1>4. SameBody(y3, req) /\ SameBody(y4, req)
    BY <1>0, <1>2, BodyFieldsKept
  <1>. HIDE DEF y1
  <1>5. SameBody(y2, y1)
    BY <1>3, BodyFieldsKept
  <1>. HIDE DEF y2, y3, y4
  <1>6. y2 \in ReqRec /\ SameBody(y2, req) /\ y3 \in ReqRec /\ y4 \in ReqRec
    BY <1>3, <1>4, <1>5 DEF SameBody
  <1>12. \A t \in BOOLEAN : WithTrailers(y1, t) \in ReqRec /\ SameBody(WithTrailers(y1, t), req)
    BY <1>3 DEF WithTrailers, SameBody, ReqRec
  <1>7. ASSUME NEW y \in ReqRec, SameBody(y, req), pc' = "rest", req' = Unlocked(y)
        PROVE  pc' \in {"rest", "end"} /\ SameBody(req', req)
    <2>1. SameBody(Unlocked(y), y)
      BY BodyFieldsKept
    <2>2. SameBody(req', y)
      BY <1>7, <2>1
    <2>. QED
      BY <1>7, <2>2 DEF SameBody
  <1>8. ASSUME NEW y \in ReqRec, SameBody(y, req), NEW r \in {"CI_OK", "CI_ERROR"}, Ends(y, r)
        PROVE  pc' \in {"rest", "end"} /\ SameBody(req', req)
    BY <1>8, EndsBody
  <1>9. ASSUME ErrorResponse(req, 500) PROVE pc' \in {"rest", "end"} /\ SameBody(req', req)
    BY <1>0, <1>2, <1>9, ErrorCloses
  <1>10. SameBody(req, req)
    BY <1>0 DEF SameBody
  <1>11. pc' \in {"rest", "end"} /\ SameBody(req', req)
    BY <1>0, <1>1, <1>3, <1>4, <1>6, <1>7, <1>8, <1>9, <1>10, <1>12
  <1>. QED
    BY <1>0, <1>11, StreamRest

(* send_remaining_response.                                                *)
LEMMA StreamRestSend ==
  ASSUME TypeOK, Stream, rest_Send
  PROVE  Stream'
  <1>0. pc = "rest" /\ UNCHANGED <<wire, held, read, got>> /\ req \in ReqRec
    BY DEF TypeOK, rest_Send, clientVars, dataVars
  <1>1. CASE \E n \in 0 .. Len(req.block) : send_current_block_data(req, n) /\ UNCHANGED pc
    <2>1. PICK n : send_current_block_data(req, n) /\ UNCHANGED pc
      BY <1>1
    <2>2. SameBody(req', req)
      BY <1>0, <2>1, SendBody
    <2>. QED
      BY <1>0, <2>1, <2>2, StreamRest
  <1>2. CASE RestFails(req)
    <2>. DEFINE y == WithoutKeepalive(req)
    <2>1. SameBody(y, req)
      BY <1>0, BodyFieldsKept
    <2>2. Ends(y, "CI_ERROR")
      BY <1>2 DEF RestFails, WithoutKeepalive
    <2>. HIDE DEF y
    <2>3. y \in ReqRec
      BY <2>1 DEF SameBody
    <2>4. pc' = "end" /\ SameBody(req', req)
      BY <2>1, <2>2, <2>3, EndsBody
    <2>. QED
      BY <1>0, <2>4, StreamRest
  <1>. QED
    BY <1>1, <1>2 DEF rest_Send

(* The rest of the response: reading from the service.                     *)
LEMMA StreamRestRead ==
  ASSUME TypeOK, Stream, rest_Read
  PROVE  Stream'
  <1>0. /\ pc = "rest" /\ UNCHANGED <<wire, held, read, got>> /\ req \in ReqRec
        /\ req.block = <<>> /\ req.status = "SEND_BODY"
    BY DEF TypeOK, rest_Read, clientVars
  <1>1. req' \in ReqRec
    BY RestReadOutcome
  <1>2. CASE RestFails(req)
    <2>. DEFINE y == WithoutKeepalive(req)
    <2>1. SameBody(y, req)
      BY <1>0, BodyFieldsKept
    <2>2. Ends(y, "CI_ERROR")
      BY <1>2 DEF RestFails, WithoutKeepalive
    <2>. HIDE DEF y
    <2>3. y \in ReqRec
      BY <2>1 DEF SameBody
    <2>4. pc' = "end" /\ SameBody(req', req)
      BY <2>1, <2>2, <2>3, EndsBody
    <2>. QED
      BY <1>0, <2>4, StreamRest
  <1>3. CASE Ends([req EXCEPT !.starved = TRUE], "CI_OK")
    <2>. DEFINE y == [req EXCEPT !.starved = TRUE]
    <2>1. y \in ReqRec /\ y.n = req.n /\ y.pending = req.pending /\ y.eof = req.eof
      BY <1>0 DEF ReqRec
    <2>. HIDE DEF y
    <2>2. SameBody(y, req)
      BY <2>1 DEF SameBody
    <2>3. pc' = "end" /\ SameBody(req', req)
      BY <1>3, <2>1, <2>2, EndsBody DEF y
    <2>. QED
      BY <1>0, <2>3, StreamRest
  <1>4. ASSUME NEW d, NEW e, req' = format_body_chunk([req EXCEPT !.block = d], e), UNCHANGED pc
        PROVE  Stream'
    <2>. DEFINE b == <<<<"eof", 0>>>>
                y == [req EXCEPT !.block = d]
    <2>1. req' = y \/ req' = [y EXCEPT !.block = b, !.status = "SEND_EOF"]
      BY <1>4 DEF format_body_chunk
    <2>. HIDE DEF b
    <2>2. req'.n = req.n /\ req'.pending = req.pending /\ req'.eof = req.eof
      BY <1>0, <2>1 DEF ReqRec
    <2>3. SameBody(req', req)
      BY <1>1, <2>2 DEF SameBody
    <2>. QED
      BY <1>0, <1>4, <2>3, StreamRest
  <1>5. \/ RestFails(req) \/ Ends([req EXCEPT !.starved = TRUE], "CI_OK")
        \/ \E s : req' = format_body_chunk([req EXCEPT !.block = s.data], s.eof) /\ UNCHANGED pc
    BY DEF rest_Read
  <1>. QED
    BY <1>2, <1>3, <1>4, <1>5

(* The rest of the response: the next part to be written.                  *)
LEMMA StreamRestUpdate ==
  ASSUME TypeOK, Stream, rest_Update
  PROVE  Stream'
  <1>0. pc = "rest" /\ UNCHANGED <<wire, held, read, got>> /\ req \in ReqRec
    BY DEF TypeOK, rest_Update, clientVars, dataVars
  <1>1. PICK x \in update_send_status(req) :
          IF SendEnds(req) THEN Ends(x, "CI_OK") ELSE req' = x /\ UNCHANGED pc
    BY DEF rest_Update
  <1>2. SameBody(x, req)
    <2>1. q_.hasbody \in BOOLEAN
      BY <1>0, CurrentRequest
    <2>. QED
      BY <1>0, <2>1, UpdateBody
  <1>3. x \in ReqRec
    BY <1>2 DEF SameBody
  <1>4. pc' \in {"rest", "end"} /\ SameBody(req', req)
    <2>1. CASE SendEnds(req)
      BY <1>1, <1>2, <1>3, <2>1, EndsBody
    <2>2. CASE ~SendEnds(req)
      BY <1>0, <1>1, <1>2, <2>2
    <2>. QED
      BY <2>1, <2>2
  <1>. QED
    BY <1>0, <1>4, StreamRest

(* The next request.                                                       *)
LEMMA StreamEnd ==
  ASSUME TypeOK, Stream, conf.pipelining, EndRequest
  PROVE  Stream'
  <1>0. /\ pc = "end" /\ pc' = (IF req.keepalive THEN "header" ELSE "closed")
        /\ req' = [FreshRequest EXCEPT !.ret = req.ret]
        /\ held' = (IF Asking THEN held ELSE <<>>)
        /\ got' = <<>> /\ resp' = <<>> /\ wire' = wire /\ read' = read
    BY DEF EndRequest
  <1>1. req'.ret = req.ret /\ req'.n = 0 /\ req'.pending = <<>> /\ req'.eof = FALSE
    BY <1>0 DEF FreshRequest
  <1>2. Seen' = 0
    BY <1>0, <1>1 DEF Seen
  <1>3. InOrder'
    <2>1. Units(1, 0) = <<>>
      BY UnitsType
    <2>2. <<>> \o <<>> = <<>>
      OBVIOUS
    <2>. QED
      BY <1>0, <1>1, <1>2, <2>1, <2>2 DEF InOrder
  <1>4. CASE ~req.keepalive
    <2>1. pc' = "closed"
      BY <1>0, <1>4
    <2>. QED
      BY <1>3, <2>1 DEF Stream, BodyPcs
  <1>5. CASE req.keepalive
    <2>1. PICK i \in Nexts, j \in Seq(Input) :
            Unread(j, i) /\ (j = <<>> \/ (OffBoundary /\ j[1][1] # "header"))
      BY <1>0, <1>5 DEF Stream, Boundary
    <2>2. i # 0 => held' = held
      BY <1>0, <2>1, NextIsAsking
    <2>3. Unread(j, i)'
      BY <1>0, <2>1, <2>2 DEF Unread
    <2>5. pc' = "header"
      BY <1>0, <1>5
    <2>4. Boundary'
      BY <1>1, <2>1, <2>3, <2>5 DEF Boundary, OffBoundary
    <2>. QED
      BY <1>0, <1>1, <1>2, <1>3, <2>4, <2>5 DEF Stream, BodyPcs
  <1>. QED
    BY <1>4, <1>5

(* What a pass of the inner loop works on, and what it takes of that.      *)
NotParsed ==
  [pending |-> req.pending, read |-> read, ieof |-> FALSE, ret |-> loc.parse_ret]
Passes == IF read # <<>> /\ req.pending = <<>> THEN parse_chunk_data(read) ELSE {NotParsed}
Took(p, w) ==
  /\ read' = p.read /\ got' = got \o SubSeq(p.pending, 1, w)
  /\ req'.pending = Drop(p.pending, w) /\ req'.n = req.n
  /\ req'.eof = (req.eof \/ p.ret = "CI_EOF")
  /\ loc'.parse_ret = p.ret /\ pc' \in {"io", "round"} /\ UNCHANGED <<wire, held>>

(* Types of a pass.                                                        *)
LEMMA PassType ==
  ASSUME TypeOK, NEW p \in Passes
  PROVE  p.pending \in Seq(Data) /\ p.read \in Seq(Input) /\ p.ret \in ParseResults \cup {"none"}
  <1>0. req \in ReqRec /\ loc \in LocRec /\ read \in Seq(Input)
    BY DEF TypeOK
  <1>1. CASE p \in parse_chunk_data(read)
    BY <1>0, <1>1, ParseType
  <1>2. CASE p = NotParsed
    BY <1>0, <1>2 DEF ReqRec, LocRec, NotParsed
  <1>. QED
    BY <1>1, <1>2 DEF Passes

(* A pass of the inner loop.                                               *)
LEMMA IoTakes ==
  ASSUME TypeOK, gsb_ServiceIo
  PROVE  \/ BodyError(req) /\ UNCHANGED <<wire, held, read, got>>
         \/ \E p \in Passes : p.ret # "CI_ERROR" /\ \E w \in 0 .. Len(p.pending) : Took(p, w)
  <1>0. /\ pc = "io" /\ UNCHANGED <<wire, held>>
        /\ req \in ReqRec /\ loc \in LocRec /\ read \in Seq(Input)
        /\ echo \in Seq(Data) /\ Len(echo) <= RingSize /\ got \in Seq(Data) /\ made \in Seq(Data)
    BY ZenonT(40) DEF TypeOK, gsb_ServiceIo, clientVars
  <1>. DEFINE end(p) == req.eof \/ p.ret = "CI_EOF"
              sending == req.status = "SEND_BODY" /\ ~loc.service_eof
              filling == loc.rchunkdata \/ (sending /\ req.block = <<>>)
              room == IF sending /\ ~loc.formated THEN MAX_CHUNK_SIZE - Len(req.block) ELSE 0
              called(p) == p.pending # <<>> \/ room > 0 \/ p.ret = "CI_EOF"
              Io(p, s) ==
                /\ read' = p.read /\ echo' = s.echo
                /\ got' = got \o SubSeq(p.pending, 1, s.w)
                /\ made' = made \o s.data
                /\ req' = [req EXCEPT !.eof = end(p), !.pending = Drop(p.pending, s.w),
                             !.block = req.block \o s.data,
                             !.wpos = s.wpos, !.locked = req.locked /\ ~s.unlock]
                /\ loc' = [loc EXCEPT !.parse_ret = p.ret, !.rchunkdata = filling,
                             !.service_eof = loc.service_eof \/ s.eof]
                /\ pc' = IF /\ s.w > 0 \/ s.data # <<>>
                            /\ \/ p.read # <<>> /\ p.ret \notin {"CI_NEEDS_MORE", "CI_EOF"}
                               \/ room > 0
                         THEN "io" ELSE "round"
  <1>1. PICK p \in Passes :
          \/ p.ret = "CI_ERROR" /\ BodyError(req) /\ UNCHANGED <<read, loc, dataVars>>
          \/ /\ p.ret # "CI_ERROR"
             /\ \E s \in IF called(p) THEN service_io(p.pending, room, filling, end(p)) ELSE {NoIo} :
                  Io(p, s)
          \/ /\ p.ret # "CI_ERROR" /\ called(p) /\ ~loc.parse_only /\ ~req.echoes
             /\ BodyError(req) /\ UNCHANGED <<read, loc, dataVars>>
    BY ZenonT(40) DEF gsb_ServiceIo, Passes, NotParsed
  <1>2. p.pending \in Seq(Data) /\ p.read \in Seq(Input) /\ p.ret \in ParseResults \cup {"none"}
    BY PassType
  <1>3. CASE BodyError(req) /\ UNCHANGED <<read, loc, dataVars>>
    BY <1>0, <1>3 DEF dataVars
  <1>4. ASSUME p.ret # "CI_ERROR",
               NEW s \in IF called(p) THEN service_io(p.pending, room, filling, end(p)) ELSE {NoIo},
               Io(p, s)
        PROVE  \E w \in 0 .. Len(p.pending) : Took(p, w)
    <2>2. room \in Nat /\ filling \in BOOLEAN /\ end(p) \in BOOLEAN
      <3>1. ~loc.formated => Len(req.block) <= MAX_CHUNK_SIZE
        BY <1>0 DEF TypeOK
      <3>2. Len(req.block) \in Nat /\ MAX_CHUNK_SIZE \in Nat
        BY <1>0, IcapRequestAssumption DEF ReqRec
      <3>3. loc.rchunkdata \in BOOLEAN /\ req.eof \in BOOLEAN
        BY <1>0 DEF ReqRec, LocRec
      <3>. QED
        BY <3>1, <3>2, <3>3
    <2>3. pc' \in {"io", "round"}
      BY <1>4
    <2>. HIDE DEF room, filling, called
    <2>4. IoOK(s, p.pending, room)
      <3>1. CASE called(p)
        <4>1. s \in service_io(p.pending, room, filling, end(p))
          BY <1>4, <3>1
        <4>2. PICK q \in Seq(Data), n \in Nat, f \in BOOLEAN, e \in BOOLEAN :
                q = p.pending /\ n = room /\ f = filling /\ e = end(p)
          BY <1>2, <2>2
        <4>3. s \in service_io(q, n, f, e)
          BY <4>1, <4>2
        <4>4. IoOK(s, q, n)
          BY <4>3, AnyIoType
        <4>. QED
          BY <4>2, <4>4
      <3>2. CASE ~called(p)
        BY <1>2, <1>4, <2>2, <3>2, NoIoType
      <3>. QED
        BY <3>1, <3>2
    <2>. DEFINE w == s.w
    <2>5. w \in 0 .. Len(p.pending)
      BY <1>2, <2>4 DEF IoOK, IoRec
    <2>. DEFINE d == Drop(p.pending, w)
                b == req.block \o s.data
                u == req.locked /\ ~s.unlock
                v == loc.service_eof \/ s.eof
                z == s.wpos
                e == end(p)
                l == loc.rchunkdata \/ (sending /\ req.block = <<>>)
    <2>6. /\ read' = p.read /\ got' = got \o SubSeq(p.pending, 1, w)
          /\ req' = [req EXCEPT !.eof = e, !.pending = d, !.block = b, !.wpos = z, !.locked = u]
          /\ loc' = [loc EXCEPT !.parse_ret = p.ret, !.rchunkdata = l, !.service_eof = v]
      BY <1>4 DEF filling
    <2>. HIDE DEF d, b, u, v, z, e, l, w
    <2>7. req'.pending = d /\ req'.n = req.n /\ req'.eof = e
      BY <1>0, <2>6 DEF ReqRec
    <2>8. loc'.parse_ret = p.ret
      BY <1>0, <2>6 DEF LocRec
    <2>9. Took(p, w)
      BY <1>0, <2>3, <2>6, <2>7, <2>8 DEF Took, d, e
    <2>. QED
      BY <2>5, <2>9
  <1>. HIDE DEF Io, called, room, filling, end
  <1>5. CASE p.ret # "CI_ERROR"
             /\ \E s \in IF called(p) THEN service_io(p.pending, room, filling, end(p)) ELSE {NoIo} :
                  Io(p, s)
    BY <1>4, <1>5
  <1>. QED
    BY <1>1, <1>3, <1>5

(* The data of a pass are taken or pending.                                *)
LEMMA TookInOrder ==
  ASSUME TypeOK, NEW p \in Passes, NEW w \in 0 .. Len(p.pending), Took(p, w)
  PROVE  /\ got' \o req'.pending = got \o p.pending
         /\ Seen' = Len(got) + Len(p.pending) /\ q_' = q_
  <1>. DEFINE s == p.pending
              a == SubSeq(s, 1, w)
              d == Drop(s, w)
  <1>1. s \in Seq(Data) /\ got \in Seq(Data) /\ w \in 0 .. Len(s)
    BY PassType DEF TypeOK
  <1>2. got' = got \o a /\ req'.pending = d /\ q_' = q_
    BY DEF Took, q_
  <1>. HIDE DEF s
  <1>3. (got \o a) \o d = got \o s
    BY <1>1, MoveFront DEF Drop
  <1>4. a \in Seq(Data) /\ Len(a) = w /\ d \in Seq(Data) /\ Len(d) = Len(s) - w
    BY <1>1, SplitSeq DEF Drop
  <1>. HIDE DEF a, d
  <1>5. Len(got \o a) = Len(got) + Len(a) /\ Len(got) \in Nat /\ Len(s) \in Nat /\ w \in Nat
    <2>1. Len(got) \in Nat /\ Len(s) \in Nat
      BY <1>1, LenProperties
    <2>2. w \in Nat
      BY <1>1, <2>1
    <2>3. Len(got \o a) = Len(got) + Len(a)
      BY <1>1, <1>4, ConcatProperties
    <2>. QED
      BY <2>1, <2>2, <2>3
  <1>6. Len(got') + Len(req'.pending) = Len(got) + Len(s)
    BY <1>2, <1>4, <1>5
  <1>. QED
    BY <1>2, <1>3, <1>6 DEF Seen, s

(* Behind the end of the body a header is found, or nothing.               *)
LEMMA HeaderNotParsed ==
  ASSUME NEW r \in Seq(Input), r # <<>>, r[1][1] = "header", NEW p \in parse_chunk_data(r)
  PROVE  p.ret = "CI_ERROR"
  <1>1. PICK n \in 0 .. Len(r) : DataFirst(r, n) /\ p = AfterData(SubSeq(r, 1, n), Drop(r, n))
    BY ParseTakes
  <1>2. n = 0
    <2>1. SUFFICES ASSUME n # 0 PROVE FALSE
      OBVIOUS
    <2>2. 1 \in 1 .. n
      BY <2>1
    <2>3. r[1][1] = "data"
      BY <1>1, <2>2 DEF DataFirst
    <2>. QED
      BY <2>3
  <1>. DEFINE d == Drop(r, n)
  <1>3. d \in Seq(Input) /\ Len(d) = Len(r) /\ (\A i \in 1 .. Len(r) : d[i] = r[i])
    <2>1. /\ d \in Seq(Input) /\ Len(d) = Len(r) - n
          /\ \A i \in 1 .. Len(r) - n : d[i] = r[n + i]
      BY SplitSeq DEF Drop
    <2>2. Len(r) \in Nat
      OBVIOUS
    <2>. HIDE DEF d
    <2>. QED
      BY <1>2, <2>1, <2>2
  <1>4. Len(r) >= 1
    BY EmptySeq
  <1>. HIDE DEF d
  <1>5. d # <<>> /\ d[1][1] = "header"
    BY <1>3, <1>4
  <1>. QED
    BY <1>1, <1>5 DEF AfterData, d

(* A pass that has nothing to parse.                                       *)
LEMMA StreamNoParse ==
  ASSUME TypeOK, Stream, pc = "io", NEW w \in 0 .. Len(NotParsed.pending),
         Passes = {NotParsed}, Took(NotParsed, w)
  PROVE  Stream'
  <1>. DEFINE p == NotParsed
  <1>1. InOrder /\ InBody /\ req \in ReqRec
    BY DEF Stream, BodyPcs, TypeOK
  <1>2. p \in Passes /\ p.pending = req.pending /\ p.read = read /\ p.ret = loc.parse_ret
    BY DEF NotParsed
  <1>. HIDE DEF p
  <1>3. got' \o req'.pending = got \o req.pending /\ Seen' = Seen /\ q_' = q_
    <2>1. /\ got' \o req'.pending = got \o p.pending
          /\ Seen' = Len(got) + Len(p.pending) /\ q_' = q_
      BY <1>2, TookInOrder DEF p
    <2>. QED
      BY <1>2, <2>1 DEF Seen
  <1>4. /\ req'.n = req.n /\ read' = read /\ wire' = wire /\ held' = held
        /\ loc'.parse_ret = loc.parse_ret /\ pc' \in {"io", "round"}
        /\ req'.eof = (req.eof \/ loc.parse_ret = "CI_EOF")
    BY <1>2 DEF Took, p
  <1>5. req'.eof = req.eof
    <2>1. req.eof \in BOOLEAN
      BY <1>1 DEF ReqRec
    <2>2. loc.parse_ret = "CI_EOF" => req.eof
      BY <1>1 DEF InBody
    <2>3. (req.eof \/ loc.parse_ret = "CI_EOF") = req.eof
      BY <2>1, <2>2
    <2>. QED
      BY <1>4, <2>3
  <1>6. InOrder'
    BY <1>1, <1>3, <1>4 DEF InOrder
  <1>7. PICK i \in Nexts : Unread(Left(i), i)
    BY <1>1 DEF InBody
  <1>8. Left(i)' = Left(i)
    BY <1>3, <1>4, <1>5 DEF Left
  <1>9. \E k \in Nexts : Unread(Left(k), k)'
    BY <1>4, <1>7, <1>8 DEF Unread
  <1>10. /\ q_'.hasbody /\ (req'.eof => Seen' = q_'.len)
         /\ loc'.parse_ret = "CI_EOF" => req'.eof
    BY <1>1, <1>3, <1>4, <1>5 DEF InBody
  <1>11. InBody'
    BY <1>9, <1>10 DEF InBody
  <1>. QED
    BY <1>4, <1>6, <1>11 DEF Stream, BodyPcs

(* A body that is parsed has not ended and is on its way.                  *)
LEMMA ParsedBody ==
  ASSUME TypeOK, InBody, read # <<>>, NEW p \in parse_chunk_data(read), p.ret # "CI_ERROR",
         NEW i \in Nexts, Unread(Left(i), i)
  PROVE  ~req.eof /\ ~(i = 0 /\ held # <<>>) /\ read \o wire = BodyRest(q_, Seen) \o NextPart(i)
  <1>1. read \in Seq(Input) /\ wire \in Seq(Input)
    BY DEF TypeOK
  <1>2. NextPart(i) \in Seq(Input) /\ (i = 0 => NextPart(i) = <<>>)
        /\ (i # 0 => NextPart(i)[1] = <<"header", i>>)
    BY NextHeader
  <1>3. ASSUME Left(i) = <<>> PROVE FALSE
    <2>1. read \o wire = NextPart(i)
      <3>. DEFINE t == NextPart(i)
      <3>1. read \o wire = <<>> \o t
        BY <1>3 DEF Unread
      <3>2. t \in Seq(Input)
        BY <1>2
      <3>. HIDE DEF t
      <3>3. <<>> \o t = t
        BY <3>2, ConcatEmptySeq
      <3>. QED
        BY <3>1, <3>3 DEF t
    <2>2. i # 0
      <3>1. SUFFICES ASSUME i = 0 PROVE FALSE
        OBVIOUS
      <3>2. read \o wire = <<>>
        BY <1>2, <2>1, <3>1
      <3>3. Len(read \o wire) = Len(read) + Len(wire) /\ Len(read) \in Nat /\ Len(wire) \in Nat
        BY <1>1, ConcatProperties, LenProperties
      <3>4. Len(read) = 0
        BY <3>2, <3>3
      <3>. QED
        BY <1>1, <3>4, EmptySeq
    <2>3. (read \o wire)[1] = read[1]
      BY <1>1, FirstOfConcat
    <2>4. read[1] = <<"header", i>>
      BY <1>2, <2>1, <2>2, <2>3
    <2>5. read[1][1] = "header"
      BY <2>4
    <2>. QED
      BY <1>1, <2>5, HeaderNotParsed
  <1>4. ~req.eof /\ ~(i = 0 /\ held # <<>>)
    BY <1>3 DEF Left
  <1>5. Left(i) = BodyRest(q_, Seen)
    BY <1>4 DEF Left
  <1>. QED
    BY <1>4, <1>5 DEF Unread

(* A pass that parses.                                                     *)
LEMMA StreamParse ==
  ASSUME TypeOK, Stream, pc = "io", read # <<>>, req.pending = <<>>,
         NEW p \in parse_chunk_data(read), p.ret # "CI_ERROR",
         NEW w \in 0 .. Len(p.pending), Took(p, w)
  PROVE  Stream'
  <1>1. /\ InOrder /\ InBody /\ req \in ReqRec /\ read \in Seq(Input) /\ wire \in Seq(Input)
        /\ got \in Seq(Data)
    BY DEF Stream, BodyPcs, TypeOK
  <1>. DEFINE q == q_
              m == q.len
              last == LastChunk(q)
  <1>2. /\ req.n \in DOMAIN Requests /\ req.n # 0 /\ m \in Nat /\ last \in Input
        /\ last[1] # "data" /\ q.hasbody
    <2>1. req.n \in DOMAIN Requests
      BY CurrentRequest
    <2>2. q.hasbody
      BY <1>1 DEF InBody
    <2>. QED
      BY <2>1, <2>2, RequestFields, IcapRequestAssumption DEF q_
  <1>3. Seen \in Nat /\ Seen <= m
    <2>1. Len(got) \in Nat /\ Len(req.pending) \in Nat
      BY <1>1 DEF ReqRec
    <2>2. Seen \in Nat
      BY <2>1 DEF Seen
    <2>. QED
      BY <1>1, <1>2, <2>2 DEF InOrder
  <1>4. PICK i \in Nexts : Unread(Left(i), i)
    BY <1>1 DEF InBody
  <1>. DEFINE t == NextPart(i)
  <1>5. t \in Seq(Input)
    BY NextHeader
  <1>6. ~req.eof /\ ~(i = 0 /\ held # <<>>) /\ Holds(read, wire, Seen, m, last, t)
    <2>1. ~req.eof /\ ~(i = 0 /\ held # <<>>) /\ read \o wire = BodyRest(q_, Seen) \o NextPart(i)
      BY <1>1, <1>4, ParsedBody
    <2>. QED
      BY <2>1 DEF Holds, BodyRest
  <1>. HIDE DEF m, last, t
  <1>7. Parsed(p, wire, Seen, m, last, t)
    BY <1>1, <1>2, <1>3, <1>5, <1>6, ParseRest
  <1>8. PICK n \in Nat :
          /\ Seen + n <= m /\ p.pending = Units(Seen + 1, Seen + n)
          /\ \/ p.ret = "CI_EOF" /\ Seen + n = m /\ p.read \o wire = t
             \/ p.ret # "CI_EOF" /\ Holds(p.read, wire, Seen + n, m, last, t)
    BY <1>7 DEF Parsed
  <1>9. /\ Len(p.pending) = n /\ p.pending \in Seq(Data)
        /\ got \o p.pending = Units(1, Seen + n) /\ Len(got) = Seen
    BY <1>1, <1>8, NextUnits
  <1>10. got' \o req'.pending = got \o p.pending /\ Seen' = Seen + n /\ q_' = q
    <2>1. p \in Passes
      BY DEF Passes
    <2>2. /\ got' \o req'.pending = got \o p.pending
          /\ Seen' = Len(got) + Len(p.pending) /\ q_' = q_
      BY <2>1, TookInOrder
    <2>. QED
      BY <1>9, <2>2
  <1>11. /\ req'.n = req.n /\ read' = p.read /\ wire' = wire /\ held' = held
         /\ loc'.parse_ret = p.ret /\ pc' \in {"io", "round"}
         /\ req'.eof = (req.eof \/ p.ret = "CI_EOF")
    BY DEF Took
  <1>12. req'.eof = (p.ret = "CI_EOF")
    <2>1. req.eof = FALSE
      BY <1>1, <1>6 DEF ReqRec
    <2>. QED
      BY <1>11, <2>1
  <1>13. InOrder'
    <2>1. got' \o req'.pending = Units(1, Seen')
      BY <1>9, <1>10
    <2>2. Seen' <= q_'.len
      BY <1>8, <1>10 DEF m
    <2>. QED
      BY <2>1, <2>2 DEF InOrder
  <1>14. Unread(Left(i), i)' /\ (req'.eof => Seen' = q_'.len)
    <2>1. i # 0 => held' = AfterContinue(Requests[i])
      BY <1>4, <1>11 DEF Unread
    <2>2. CASE p.ret = "CI_EOF"
      <3>1. Seen + n = m /\ p.read \o wire = t
        BY <1>8, <2>2
      <3>2. req'.eof
        BY <1>12, <2>2
      <3>3. Left(i)' = <<>>
        BY <3>2 DEF Left
      <3>4. <<>> \o t = t
        BY <1>5, ConcatEmptySeq
      <3>5. read' \o wire' = Left(i)' \o NextPart(i)
        BY <1>11, <3>1, <3>3, <3>4 DEF t
      <3>6. Seen' = q_'.len
        BY <1>10, <3>1 DEF m
      <3>. QED
        BY <2>1, <3>5, <3>6 DEF Unread
    <2>3. CASE p.ret # "CI_EOF"
      <3>1. p.read \o wire = Rest(Seen + n, m, last) \o t
        BY <1>8, <2>3 DEF Holds
      <3>2. ~req'.eof
        BY <1>12, <2>3
      <3>3. Left(i)' = BodyRest(q_', Seen')
        BY <1>6, <1>11, <3>2 DEF Left
      <3>4. Left(i)' = Rest(Seen + n, m, last)
        BY <1>10, <3>3 DEF BodyRest, m, last
      <3>5. read' \o wire' = Left(i)' \o NextPart(i)
        BY <1>11, <3>1, <3>4 DEF t
      <3>. QED
        BY <2>1, <3>2, <3>5 DEF Unread
    <2>. QED
      BY <2>2, <2>3
  <1>15. InBody'
    <2>1. q_'.hasbody
      BY <1>2, <1>10
    <2>2. loc'.parse_ret = "CI_EOF" => req'.eof
      BY <1>11, <1>12
    <2>3. \E k \in Nexts : Unread(Left(k), k)'
      BY <1>14
    <2>. QED
      BY <1>14, <2>1, <2>2, <2>3 DEF InBody
  <1>. QED
    BY <1>11, <1>13, <1>15 DEF Stream, BodyPcs

(* One pass of the inner loop.                                             *)
LEMMA StreamIo ==
  ASSUME TypeOK, Stream, gsb_ServiceIo
  PROVE  Stream'
  <1>1. pc = "io" /\ req \in ReqRec
    BY DEF gsb_ServiceIo, TypeOK
  <1>2. CASE BodyError(req) /\ UNCHANGED <<wire, held, read, got>>
    <2>1. SameBody(req, req)
      BY <1>1 DEF SameBody
    <2>. QED
      BY <1>1, <1>2, <2>1, BodyReturns DEF BodyPcs
  <1>3. ASSUME NEW p \in Passes, p.ret # "CI_ERROR", NEW w \in 0 .. Len(p.pending), Took(p, w)
        PROVE  Stream'
    <2>1. CASE read # <<>> /\ req.pending = <<>>
      <3>1. p \in parse_chunk_data(read)
        BY <1>3, <2>1 DEF Passes
      <3>. QED
        BY <1>1, <1>3, <2>1, <3>1, StreamParse
    <2>2. CASE ~(read # <<>> /\ req.pending = <<>>)
      <3>1. Passes = {NotParsed} /\ p = NotParsed
        BY <1>3, <2>2 DEF Passes
      <3>2. w \in 0 .. Len(NotParsed.pending) /\ Took(NotParsed, w)
        BY <1>3, <3>1
      <3>. QED
        BY <1>1, <3>1, <3>2, StreamNoParse
    <2>. QED
      BY <2>1, <2>2
  <1>. QED
    BY <1>2, <1>3, IoTakes

(* The invariant holds of a new connection.                                *)
LEMMA StreamInit == Init => Stream
  <1>. SUFFICES ASSUME Init PROVE Stream
    OBVIOUS
  <1>1. /\ pc = "header" /\ read = <<>> /\ wire = <<>> /\ held = <<>> /\ got = <<>>
        /\ resp = <<>> /\ req = FreshRequest
    BY DEF Init
  <1>2. req.n = 0 /\ req.pending = <<>> /\ req.eof = FALSE
    BY <1>1 DEF FreshRequest
  <1>3. Seen = 0
    BY <1>1, <1>2 DEF Seen
  <1>4. InOrder
    <2>1. Units(1, 0) = <<>>
      BY UnitsType
    <2>2. <<>> \o <<>> = <<>>
      OBVIOUS
    <2>. QED
      BY <1>1, <1>2, <1>3, <2>1, <2>2 DEF InOrder
  <1>5. Boundary
    <2>1. 0 \in Nexts /\ NextPart(0) = <<>> /\ <<>> \in Seq(Input) /\ <<>> \o <<>> = <<>>
      BY EmptySeq DEF Nexts, NextPart
    <2>2. Unread(<<>>, 0)
      BY <1>1, <2>1 DEF Unread
    <2>. QED
      BY <2>1, <2>2 DEF Boundary
  <1>. QED
    BY <1>1, <1>2, <1>3, <1>4, <1>5 DEF Stream, BodyPcs

(* Every step keeps it.                                                    *)
LEMMA StreamStep ==
  ASSUME EagerServices = FALSE, PipeliningClient = FALSE
  PROVE  TypeOK /\ Stream /\ conf.pipelining /\ [Next]_vars => Stream'
  <1>. SUFFICES ASSUME TypeOK, Stream, conf.pipelining, [Next]_vars PROVE Stream'
    OBVIOUS
  <1>1. ASSUME NEW c \in DOMAIN Requests, ClientSends(c) PROVE Stream'
    BY <1>1, StreamClient
  <1>2. CASE ReadRequest
    BY <1>2, StreamHeader
  <1>3. CASE HeaderTimeout
    BY <1>3, StreamTimeout
  <1>4. CASE options_responce
    BY <1>4, StreamOptions
  <1>5. CASE read_preview_data_read
    BY <1>5, StreamPreviewRead
  <1>6. CASE read_preview_data_parse
    BY <1>6, StreamPreviewParse
  <1>7. CASE PreviewHandler
    BY <1>7, StreamHandler
  <1>8. CASE gsb_NoWait
    BY <1>8, StreamNoWait
  <1>9. CASE gsb_WaitFails
    BY <1>9, StreamWaitFails
  <1>10. CASE gsb_Wait
    BY <1>10, StreamWait
  <1>11. CASE gsb_Update
    BY <1>11, StreamUpdate
  <1>12. CASE gsb_ServiceIo
    BY <1>12, StreamIo
  <1>13. CASE gsb_Round
    BY <1>13, StreamRound
  <1>14. CASE EndOfDataHandler
    BY <1>14, StreamEndOfData
  <1>15. CASE rest_Send
    BY <1>15, StreamRestSend
  <1>16. CASE rest_Read
    BY <1>16, StreamRestRead
  <1>17. CASE rest_Update
    BY <1>17, StreamRestUpdate
  <1>18. CASE EndRequest
    BY <1>18, StreamEnd
  <1>19. CASE UNCHANGED vars
    <2>1. UNCHANGED <<pc, read, wire, held, req, loc, got, resp>>
      BY <1>19 DEF vars, clientVars, dataVars
    <2>2. Seen' = Seen /\ q_' = q_ /\ (InOrder' <=> InOrder)
      BY <2>1 DEF Seen, q_, InOrder
    <2>3. (Boundary' <=> Boundary) /\ (AtReadPreview' <=> AtReadPreview)
          /\ (AtPreview' <=> AtPreview)
      BY <2>1, <2>2 DEF Boundary, OffBoundary, Unread, AtReadPreview, AtPreview
    <2>4. InBody' <=> InBody
      BY <2>1, <2>2 DEF InBody, Unread, Left
    <2>5. (\E i \in Nexts : Unread(<<>>, i)') <=> (\E i \in Nexts : Unread(<<>>, i))
      BY <2>1 DEF Unread
    <2>. QED
      BY <2>1, <2>2, <2>3, <2>4, <2>5 DEF Stream
  <1>20. CASE Closed
    BY <1>19, <1>20 DEF Closed
  <1>. QED
    BY <1>1, <1>2, <1>3, <1>4, <1>5, <1>6, <1>7, <1>8, <1>9, <1>10, <1>11, <1>12, <1>13,
       <1>14, <1>15, <1>16, <1>17, <1>18, <1>19, <1>20 DEF Next, Worker

(* The configuration stays as it is.                                       *)
LEMMA ConfStays == [Next]_vars => conf' = conf
  <1>1. Worker => conf' = conf
    BY DEF Worker, ReadRequest, HeaderTimeout, options_responce, read_preview_data_read,
        read_preview_data_parse, PreviewHandler, gsb_NoWait, gsb_WaitFails, gsb_Wait,
        gsb_Update, gsb_ServiceIo, gsb_Round, EndOfDataHandler, rest_Send, rest_Read,
        rest_Update, EndRequest, clientVars
  <1>. QED
    BY <1>1 DEF Next, ClientSends, Closed, vars, clientVars

(* What a boundary is good for.                                            *)
LEMMA StreamInSync == TypeOK /\ (conf.pipelining => Stream) => InSync
  <1>. SUFFICES ASSUME TypeOK, Stream, pc = "end", req.keepalive, req.ret = "CI_OK",
                       ~(q_.options /\ q_.hasbody), read \o wire # <<>>
                PROVE  (read \o wire)[1][1] = "header"
    BY DEF InSync
  <1>1. PICK i \in Nexts, j \in Seq(Input) : Unread(j, i) /\ j = <<>>
    BY DEF Stream, Boundary, OffBoundary
  <1>2. /\ NextPart(i) \in Seq(Input) /\ (i = 0 => NextPart(i) = <<>>)
        /\ (i # 0 => NextPart(i)[1] = <<"header", i>>)
    BY NextHeader
  <1>. DEFINE t == NextPart(i)
  <1>3. read \o wire = <<>> \o t
    BY <1>1 DEF Unread
  <1>4. <<>> \o t = t
    BY <1>2, ConcatEmptySeq
  <1>5. t[1] = <<"header", i>>
    BY <1>2, <1>3, <1>4
  <1>. HIDE DEF t
  <1>. QED
    BY <1>3, <1>4, <1>5

(* The stream has what the property says of the data of a body.            *)
LEMMA StreamBodyInOrder == TypeOK /\ Stream => BodyInOrder
  <1>. SUFFICES ASSUME TypeOK, Stream, req.n > 0, q_.hasbody
                PROVE  LET seen == got \o req.pending IN
                         /\ Len(seen) <= q_.len /\ seen = Units(1, Len(seen))
                         /\ (pc = "end_of_data" /\ req.status = "SEND_NOTHING" /\ req.code = 200)
                              => req.eof /\ Len(seen) = q_.len
    BY DEF BodyInOrder
  <1>. DEFINE seen == got \o req.pending
  <1>1. Len(seen) = Seen
    <2>1. got \in Seq(Data) /\ req.pending \in Seq(Data)
      BY DEF TypeOK, ReqRec
    <2>2. Len(seen) = Len(got) + Len(req.pending)
      BY <2>1, ConcatProperties
    <2>. QED
      BY <2>2 DEF Seen
  <1>2. seen = Units(1, Seen) /\ (req.n # 0 => Seen <= q_.len)
    BY DEF Stream, InOrder
  <1>3. req.n # 0
    OBVIOUS
  <1>4. pc = "end_of_data" /\ req.status = "SEND_NOTHING" /\ req.code = 200 =>
          req.eof /\ Seen = q_.len
    BY DEF Stream
  <1>. HIDE DEF seen
  <1>5. /\ Len(seen) <= q_.len /\ seen = Units(1, Len(seen))
        /\ (pc = "end_of_data" /\ req.status = "SEND_NOTHING" /\ req.code = 200)
             => req.eof /\ Len(seen) = q_.len
    BY <1>1, <1>2, <1>3, <1>4
  <1>. QED
    BY <1>5 DEF seen

(* A kept-alive connection is left at a request boundary: after a request  *)
(* that ended with CI_OK the next data that parse_header finds are the     *)
(* header of the next request, whatever the handlers answered, whether or  *)
(* not the body was wanted, and however the reads cut the stream; for any  *)
(* requests and any number of them, but for what InSync excepts: bodies of *)
(* OPTIONS requests and PIPELINING off.  The hypotheses are those of       *)
(* InSync: the client waits for the response before it sends the next      *)
(* request, and no service answers 206 to a body outside preview, which    *)
(* nothing would read then.                                                *)
THEOREM ConnectionInSync ==
  EagerServices = FALSE /\ PipeliningClient = FALSE => (Spec => []InSync)
  <1>. SUFFICES ASSUME EagerServices = FALSE, PipeliningClient = FALSE PROVE Spec => []InSync
    OBVIOUS
  <1>. DEFINE Inv == TypeOK /\ (conf.pipelining => Stream)
  <1>1. Init => Inv
    BY TypeInit, StreamInit
  <1>2. Inv /\ [Next]_vars => Inv'
    BY TypeStep, StreamStep, ConfStays
  <1>3. Inv => InSync
    BY StreamInSync
  <1>. QED
    BY <1>1, <1>2, <1>3, PTL DEF Spec

(* get_send_body and read_preview_data give the service the client's body, *)
(* each unit once and in order, although net_data_read moves the unparsed  *)
(* data over the pending ones; and when the end-of-data handler runs with  *)
(* nothing sent after a body was read, nothing of the body is missing; for *)
(* any requests and cuts of the data, with PIPELINING on and under the     *)
(* same hypotheses.                                                        *)
THEOREM BodiesInOrder ==
  EagerServices = FALSE /\ PipeliningClient = FALSE =>
    (Spec => [](conf.pipelining => BodyInOrder))
  <1>. SUFFICES ASSUME EagerServices = FALSE, PipeliningClient = FALSE
                PROVE  Spec => [](conf.pipelining => BodyInOrder)
    OBVIOUS
  <1>. DEFINE Inv == TypeOK /\ (conf.pipelining => Stream)
  <1>1. Init => Inv
    BY TypeInit, StreamInit
  <1>2. Inv /\ [Next]_vars => Inv'
    BY TypeStep, StreamStep, ConfStays
  <1>3. Inv => (conf.pipelining => BodyInOrder)
    BY StreamBodyInOrder
  <1>. QED
    BY <1>1, <1>2, <1>3, PTL DEF Spec

(***************************************************************************)
(* Complete responses                                                      *)
(***************************************************************************)
(* The data of a response, behind the first k elements.                    *)
DataBehind(s, d, k) ==
  /\ k \in 0 .. Len(s) - Len(d)
  /\ \A i \in DOMAIN s : IF i \in k + 1 .. k + Len(d) THEN s[i] = d[i - k] ELSE s[i][1] # "data"

(* An element that is not of the data changes nothing about them.          *)
LEMMA DataAndOther ==
  ASSUME NEW s \in Seq(Output), NEW d \in Seq(Data), NEW t \in Output, t[1] # "data",
         DataIs(s, d)
  PROVE  DataIs(Append(s, t), d) /\ DataIs(s \o <<t>>, d)
  <1>1. PICK k \in 0 .. Len(s) - Len(d) : DataBehind(s, d, k)
    BY DEF DataIs, DataBehind
  <1>. DEFINE u == Append(s, t)
  <1>2. /\ u \in Seq(Output) /\ Len(u) = Len(s) + 1 /\ u[Len(s) + 1] = t
        /\ \A i \in 1 .. Len(s) : u[i] = s[i]
    BY AppendProperties
  <1>3. Len(s) \in Nat /\ Len(d) \in Nat /\ DOMAIN s = 1 .. Len(s) /\ DOMAIN u = 1 .. Len(s) + 1
    BY <1>2, LenProperties
  <1>. HIDE DEF u
  <1>4. k \in 0 .. Len(u) - Len(d)
    BY <1>1, <1>2, <1>3
  <1>5. ASSUME NEW i \in DOMAIN u
        PROVE  IF i \in k + 1 .. k + Len(d) THEN u[i] = d[i - k] ELSE u[i][1] # "data"
    <2>1. CASE i = Len(s) + 1
      <3>1. i \notin k + 1 .. k + Len(d)
        BY <1>1, <1>3, <2>1
      <3>. QED
        BY <1>2, <2>1, <3>1
    <2>2. CASE i # Len(s) + 1
      <3>1. i \in DOMAIN s /\ u[i] = s[i]
        BY <1>2, <1>3, <2>2
      <3>. QED
        BY <1>1, <3>1 DEF DataBehind
    <2>. QED
      BY <2>1, <2>2
  <1>6. DataIs(u, d)
    BY <1>4, <1>5 DEF DataIs
  <1>7. s \o <<t>> = u
    BY AppendIsConcat DEF u
  <1>. QED
    BY <1>6, <1>7 DEF u

(* While a body is sent its data are what comes last.                      *)
LEMMA DataLast ==
  ASSUME NEW s \in Seq(Output), NEW d \in Seq(Data), DataIs(s, d), Ordered(s), Below(s, 4)
  PROVE  DataBehind(s, d, Len(s) - Len(d))
  <1>1. PICK k \in 0 .. Len(s) - Len(d) : DataBehind(s, d, k)
    BY DEF DataIs, DataBehind
  <1>2. Len(s) \in Nat /\ Len(d) \in Nat /\ DOMAIN s = 1 .. Len(s) /\ DOMAIN d = 1 .. Len(d)
    BY LenProperties
  <1>3. CASE Len(d) = 0
    <2>1. \A i \in DOMAIN s : s[i][1] # "data"
      BY <1>1, <1>2, <1>3 DEF DataBehind
    <2>2. Len(s) - Len(d) \in 0 .. Len(s) - Len(d)
      BY <1>2, <1>3
    <2>3. \A i \in DOMAIN s : i \notin Len(s) - Len(d) + 1 .. Len(s) - Len(d) + Len(d)
      BY <1>2, <1>3
    <2>. QED
      BY <2>1, <2>2, <2>3 DEF DataBehind
  <1>4. CASE Len(d) # 0 /\ k # Len(s) - Len(d)
    <2>. DEFINE j == k + Len(d)
                i == k + Len(d) + 1
    <2>0. PICK m \in Nat, n \in Nat : m = Len(s) /\ n = Len(d)
      BY <1>2
    <2>1. j \in DOMAIN s /\ i \in DOMAIN s /\ j < i
      <3>1. k \in Nat /\ k <= m - n /\ n # 0 /\ k # m - n
        BY <1>4, <2>0
      <3>2. k + n \in 1 .. m /\ k + n + 1 \in 1 .. m /\ k + n < k + n + 1
        BY <3>1
      <3>. QED
        BY <1>2, <2>0, <3>2
    <2>2. j \in k + 1 .. k + Len(d) /\ i \notin k + 1 .. k + Len(d) /\ j - k \in DOMAIN d
      <3>1. k \in Nat /\ n # 0
        BY <1>4, <2>0
      <3>2. k + n \in k + 1 .. k + n /\ k + n + 1 \notin k + 1 .. k + n /\ k + n - k \in 1 .. n
        BY <3>1
      <3>. QED
        BY <1>2, <2>0, <3>2
    <2>. HIDE DEF i, j
    <2>3. s[j] = d[j - k] /\ s[i][1] # "data"
      BY <1>1, <2>1, <2>2 DEF DataBehind
    <2>4. s[j] \in Output /\ s[i] \in Output
      BY <1>2, <2>1, ElementOfSeq
    <2>5. s[j][1] = "data"
      <3>1. d[j - k] \in Data
        BY <1>2, <2>2, ElementOfSeq
      <3>. QED
        BY <2>3, <3>1 DEF Data
    <2>6. Rank(s[j]) = 3 /\ Rank(s[i]) \in 0 .. 5
      BY <2>4, <2>5, RankType
    <2>7. Rank(s[j]) < Rank(s[i]) /\ Rank(s[i]) < 4
      BY <2>1, <2>3 DEF Ordered, Below
    <2>. QED
      BY <2>6, <2>7, SMTT(30)
  <1>5. CASE k = Len(s) - Len(d)
    BY <1>1, <1>5
  <1>. QED
    BY <1>3, <1>4, <1>5

(* More data.                                                              *)
LEMMA DataAndMore ==
  ASSUME NEW s \in Seq(Output), NEW d \in Seq(Data), NEW e \in Seq(Data), DataIs(s, d),
         Ordered(s), Below(s, 4)
  PROVE  DataIs(s \o e, d \o e)
  <1>. DEFINE k == Len(s) - Len(d)
              u == s \o e
              v == d \o e
  <1>1. DataBehind(s, d, k)
    BY DataLast
  <1>2. /\ Len(s) \in Nat /\ Len(d) \in Nat /\ Len(e) \in Nat
        /\ DOMAIN s = 1 .. Len(s) /\ DOMAIN d = 1 .. Len(d)
    BY LenProperties
  <1>3. e \in Seq(Output)
    BY DataIsBoth, SeqMonotonic
  <1>4. /\ u \in Seq(Output) /\ Len(u) = Len(s) + Len(e)
        /\ \A i \in 1 .. Len(s) : u[i] = s[i]
        /\ \A i \in 1 .. Len(e) : u[Len(s) + i] = e[i]
    BY <1>3, ConcatProperties
  <1>5. /\ v \in Seq(Data) /\ Len(v) = Len(d) + Len(e)
        /\ \A i \in 1 .. Len(d) : v[i] = d[i]
        /\ \A i \in 1 .. Len(e) : v[Len(d) + i] = e[i]
    BY ConcatProperties
  <1>6. k \in Nat /\ k + Len(d) = Len(s)
    BY <1>1, <1>2 DEF DataBehind
  <1>7. DOMAIN u = 1 .. Len(s) + Len(e)
    BY <1>2, <1>4, LenProperties
  <1>. HIDE DEF u, v, k
  <1>8. k \in 0 .. Len(u) - Len(v)
    BY <1>2, <1>4, <1>5, <1>6
  <1>9. ASSUME NEW i \in DOMAIN u
        PROVE  IF i \in k + 1 .. k + Len(v) THEN u[i] = v[i - k] ELSE u[i][1] # "data"
    <2>1. CASE i > Len(s)
      <3>1. PICK j \in 1 .. Len(e) : i = Len(s) + j
        <4>1. i - Len(s) \in 1 .. Len(e) /\ i = Len(s) + (i - Len(s))
          BY <1>2, <1>7, <2>1
        <4>. QED
          BY <4>1
      <3>2. i \in k + 1 .. k + Len(v) /\ i - k = Len(d) + j
        <4>1. \A ls, ld, le, n \in Nat :
                /\ n + ld = ls
                => ls + j >= n + 1 /\ (j <= le => ls + j <= n + (ld + le)) /\ ls + j - n = ld + j
          OBVIOUS
        <4>2. /\ Len(s) + j >= k + 1 /\ Len(s) + j <= k + (Len(d) + Len(e))
              /\ Len(s) + j - k = Len(d) + j /\ j <= Len(e)
          BY <1>2, <1>6, <4>1, SMTT(30)
        <4>. QED
          BY <1>2, <1>5, <1>6, <3>1, <4>2
      <3>. QED
        BY <1>4, <1>5, <3>1, <3>2
    <2>2. CASE i <= Len(s)
      <3>1. i \in DOMAIN s /\ u[i] = s[i]
        BY <1>2, <1>4, <1>7, <2>2
      <3>2. IF i \in k + 1 .. k + Len(d) THEN s[i] = d[i - k] ELSE s[i][1] # "data"
        BY <1>1, <3>1 DEF DataBehind
      <3>3. i \in k + 1 .. k + Len(v) <=> i \in k + 1 .. k + Len(d)
        BY <1>2, <1>5, <1>6, <2>2, <3>1
      <3>4. i \in k + 1 .. k + Len(d) => v[i - k] = d[i - k]
        <4>1. i \in k + 1 .. k + Len(d) => i - k \in 1 .. Len(d)
          BY <1>2, <1>6, <3>1
        <4>. QED
          BY <1>5, <4>1
      <3>5. CASE i \in k + 1 .. k + Len(d)
        BY <3>1, <3>2, <3>3, <3>4, <3>5
      <3>6. CASE i \notin k + 1 .. k + Len(d)
        BY <3>1, <3>2, <3>3, <3>6
      <3>. QED
        BY <3>5, <3>6
    <2>. QED
      BY <1>2, <1>7, <2>1, <2>2
  <1>10. DataIs(u, v)
    BY <1>8, <1>9 DEF DataIs
  <1>. QED
    BY <1>10 DEF u, v

(* The last element of a response, and its final status line.              *)
LastIs(s, t) == s # <<>> /\ s[Len(s)][1] = t
FinalCode(s) == s # <<>> /\ s[Len(s)][1] = "code" /\ s[Len(s)][2] # 100

(* How far a response s has got in the status of the request x.            *)
Answering(x, s) ==
  /\ x.status = "SEND_NOTHING" => ~x.respbody
  /\ x.status = "SEND_HEAD1" => LastIs(s, "head")
  /\ x.status = "SEND_BODY" => x.respbody
  /\ x.status = "SEND_EOF" => IF x.respbody THEN LastIs(s, "eof")
                              ELSE LastIs(s, "head") \/ FinalCode(s)
  /\ x.status = "SEND_TRAILERS" => LastIs(s, "trailer")

(* What is written and what is to be written are the data of the service,  *)
(* as far as the status says, and a request that has ended well has all of *)
(* its response written.                                                   *)
Finished == pc = "end" /\ req.ret = "CI_OK" /\ ~req.starved /\ ~q_.options
Complete ==
  /\ DataIs(resp \o req.block, made)
  /\ pc \in {"header", "options", "read_preview", "preview"} => ~req.respbody
  /\ pc = "options" => q_.options
  /\ GoingOn => Answering(req, resp \o req.block)
  /\ (pc \in BodyPcs /\ loc.parse_only) => ~req.respbody /\ FinalCode(resp)
  /\ Finished => AnswerSeen /\ req.block = <<>>

(* The last element of a response is the one that was added.               *)
LEMMA LastAdded ==
  ASSUME NEW s \in Seq(Output), NEW t \in Output
  PROVE  /\ s \o <<t>> # <<>> /\ (s \o <<t>>)[Len(s \o <<t>>)] = t
         /\ Append(s, t) # <<>> /\ Append(s, t)[Len(Append(s, t))] = t
  <1>1. s \o <<t>> = Append(s, t)
    BY AppendIsConcat
  <1>2. /\ Append(s, t) \in Seq(Output) /\ Len(Append(s, t)) = Len(s) + 1
        /\ Append(s, t)[Len(s) + 1] = t
    BY AppendProperties
  <1>3. Append(s, t) # <<>>
    BY AppendProperties
  <1>. QED
    BY <1>1, <1>2, <1>3

(* update_send_status adds no data, and what its new status says.          *)
LEMMA UpdateAnswers ==
  ASSUME NEW r \in Seq(Output), NEW d \in Seq(Data), NEW x \in ReqRec,
         NEW y \in update_send_status(x), x.block = <<>>, DataIs(r, d), Answering(x, r),
         x.status = "SEND_NOTHING" => q_.hasbody \in BOOLEAN
  PROVE  DataIs(r \o y.block, d) /\ Answering(y, r \o y.block)
  <1>0. y \in ReqRec
    BY UpdateType
  <1>1. CASE x.status = "SEND_NOTHING"
    <2>1. PICK b \in BOOLEAN, t \in BOOLEAN : y = mk_responce_header(x, b, t)
      <3>1. (IF x.echoes THEN {q_.hasbody} ELSE BOOLEAN) \subseteq BOOLEAN
        BY <1>1
      <3>. QED
        BY <1>1, <3>1 DEF update_send_status
    <2>. DEFINE e == <<"code", x.code>>
    <2>2. y.status = "SEND_RESPHEAD" /\ y.block = <<e>>
      BY <2>1 DEF mk_responce_header, ReqRec
    <2>3. e \in Output /\ e[1] = "code"
      BY DEF Output, ReqRec
    <2>. HIDE DEF e
    <2>4. DataIs(r \o <<e>>, d)
      BY <2>3, DataAndOther
    <2>. QED
      BY <2>2, <2>4 DEF Answering
  <1>2. CASE x.status = "SEND_RESPHEAD"
    <2>. DEFINE e == <<"head", 0>>
    <2>1. y = [x EXCEPT !.status = "SEND_HEAD1", !.block = <<e>>]
      BY <1>2 DEF update_send_status
    <2>2. y.status = "SEND_HEAD1" /\ y.block = <<e>>
      BY <2>1 DEF ReqRec
    <2>3. e \in Output /\ e[1] = "head"
      BY DEF Output
    <2>. HIDE DEF e
    <2>4. DataIs(r \o <<e>>, d) /\ LastIs(r \o <<e>>, "head")
      BY <2>3, DataAndOther, LastAdded DEF LastIs
    <2>. QED
      BY <2>2, <2>4 DEF Answering
  <1>3. CASE x.status = "SEND_HEAD1"
    <2>. DEFINE st == IF x.respbody THEN "SEND_BODY" ELSE "SEND_EOF"
    <2>1. y = [x EXCEPT !.status = st]
      BY <1>3 DEF update_send_status
    <2>. HIDE DEF st
    <2>2. y.status = st /\ y.block = <<>> /\ y.respbody = x.respbody
      BY <2>1 DEF ReqRec
    <2>3. r \o y.block = r /\ LastIs(r, "head") /\ x.respbody \in BOOLEAN
      BY <1>3, <2>2, ConcatEmptySeq DEF Answering, ReqRec
    <2>. QED
      BY <2>2, <2>3 DEF Answering, st
  <1>4. CASE x.status = "SEND_EOF" /\ x.block = <<>> /\ x.trailers
    <2>. DEFINE e == <<"trailer", 0>>
    <2>1. y = [x EXCEPT !.status = "SEND_TRAILERS", !.block = <<e>>]
      BY <1>4 DEF update_send_status
    <2>2. y.status = "SEND_TRAILERS" /\ y.block = <<e>>
      BY <2>1 DEF ReqRec
    <2>3. e \in Output /\ e[1] = "trailer"
      BY DEF Output
    <2>. HIDE DEF e
    <2>4. DataIs(r \o <<e>>, d) /\ LastIs(r \o <<e>>, "trailer")
      BY <2>3, DataAndOther, LastAdded DEF LastIs
    <2>. QED
      BY <2>2, <2>4 DEF Answering
  <1>5. CASE /\ x.status \notin {"SEND_NOTHING", "SEND_RESPHEAD", "SEND_HEAD1"}
             /\ ~(x.status = "SEND_EOF" /\ x.block = <<>> /\ x.trailers)
    <2>1. update_send_status(x) = {x}
      BY <1>5 DEF update_send_status
    <2>2. r \o x.block = r /\ y = x
      BY <2>1, ConcatEmptySeq
    <2>. QED
      BY <2>2
  <1>. QED
    BY <1>1, <1>2, <1>3, <1>4, <1>5

(* The last chunk.                                                         *)
LEMMA EndAnswers ==
  ASSUME NEW r \in Seq(Output), NEW d \in Seq(Data), NEW x \in ReqRec, NEW y \in ReqRec,
         Ended(x, y), DataIs(r, d), Answering(x, r)
  PROVE  DataIs(r \o y.block, d) /\ Answering(y, r \o y.block)
  <1>. DEFINE e == <<"eof", 0>>
  <1>1. /\ x.status = "SEND_BODY" /\ y.status = "SEND_EOF" /\ y.block = <<e>>
        /\ y.respbody = x.respbody
    BY DEF Ended
  <1>2. e \in Output /\ e[1] = "eof"
    BY DEF Output
  <1>. HIDE DEF e
  <1>3. DataIs(r \o <<e>>, d) /\ LastIs(r \o <<e>>, "eof")
    BY <1>2, DataAndOther, LastAdded DEF LastIs
  <1>. QED
    BY <1>1, <1>3 DEF Answering

(* A request is over without having been answered.                         *)
LEMMA CompleteFails ==
  ASSUME pc' = "end", req'.ret = "CI_ERROR" \/ req'.starved, DataIs(resp' \o req'.block, made')
  PROVE  Complete'
  BY DEF Complete, GoingOn, BodyPcs, Finished, DataIs

(* It has been answered.                                                   *)
LEMMA CompleteEnds ==
  ASSUME pc' = "end", DataIs(resp' \o req'.block, made'), AnswerSeen', req'.block = <<>>
  PROVE  Complete'
  BY DEF Complete, GoingOn, BodyPcs, Finished, DataIs

(* It goes on.                                                             *)
LEMMA CompleteGoesOn ==
  ASSUME pc' \in BodyPcs \cup {"end_of_data", "rest"}, pc' \in BodyPcs => ~loc'.parse_only,
         DataIs(resp' \o req'.block, made'), Answering(req', resp' \o req'.block)
  PROVE  Complete'
  BY DEF Complete, GoingOn, BodyPcs, Finished, DataIs, Answering, LastIs, FinalCode

(* It has been answered and its body is parsed.                            *)
LEMMA CompleteParses ==
  ASSUME pc' \in BodyPcs, loc'.parse_only, DataIs(resp' \o req'.block, made'),
         ~req'.respbody, FinalCode(resp')
  PROVE  Complete'
  BY DEF Complete, GoingOn, BodyPcs, Finished, DataIs, FinalCode

(* It has not been answered yet.                                           *)
LEMMA CompleteBegins ==
  ASSUME pc' \in {"header", "options", "read_preview", "preview", "closed"},
         DataIs(resp' \o req'.block, made'), ~req'.respbody, pc' = "options" => q_'.options
  PROVE  Complete'
  BY DEF Complete, GoingOn, BodyPcs, Finished, DataIs

(* A final status line answers a request, if there is no body to come.     *)
LEMMA CodeAnswers ==
  ASSUME TypeOK, NEW c \in Int \ {100}, resp' = Append(resp, <<"code", c>>)
  PROVE  /\ FinalCode(resp') /\ resp' \in Seq(Output)
         /\ (req'.status \in {"SEND_NOTHING", "SEND_EOF"} /\ ~req'.respbody) => AnswerSeen'
  <1>. DEFINE t == <<"code", c>>
  <1>1. t \in Output /\ t[1] = "code" /\ t[2] # 100
    BY DEF Output
  <1>. HIDE DEF t
  <1>2. resp \in Seq(Output) /\ resp' = Append(resp, t)
    BY DEF TypeOK, t
  <1>3. resp' # <<>> /\ resp'[Len(resp')] = t
    <2>1. Append(resp, t) # <<>> /\ Append(resp, t)[Len(Append(resp, t))] = t
      BY <1>1, <1>2, LastAdded
    <2>. QED
      BY <1>2, <2>1
  <1>4. resp' \in Seq(Output)
    <2>1. Append(resp, t) \in Seq(Output)
      BY <1>1, <1>2, AppendProperties
    <2>. QED
      BY <1>2, <2>1
  <1>. QED
    BY <1>1, <1>3, <1>4 DEF FinalCode, AnswerSeen

(* A final status line is the answer to a request whose body is parsed.    *)
LEMMA AnsweredByCode ==
  ASSUME FinalCode(resp'), req'.status \in {"SEND_NOTHING", "SEND_EOF"}, ~req'.respbody
  PROVE  AnswerSeen'
  BY DEF FinalCode, AnswerSeen

(* The data stay what they are when nothing is added.                      *)
LEMMA DataStay ==
  ASSUME TypeOK, Complete, made' = made, resp' \o req'.block = resp \o req.block
  PROVE  DataIs(resp' \o req'.block, made')
  BY DEF Complete

(* A status line is none of the data.                                      *)
LEMMA DataAndCode ==
  ASSUME TypeOK, Complete, made' = made, req.block = <<>>, req'.block = <<>>,
         resp' = resp \/ \E c \in Int : resp' = Append(resp, <<"code", c>>)
  PROVE  DataIs(resp' \o req'.block, made') /\ resp' \o req'.block = resp'
  <1>1. resp \in Seq(Output) /\ made \in Seq(Data)
    BY DEF TypeOK
  <1>2. resp \o req.block = resp
    BY <1>1, ConcatEmptySeq
  <1>3. DataIs(resp, made)
    BY <1>2 DEF Complete
  <1>4. CASE resp' = resp
    BY <1>1, <1>2, <1>3, <1>4
  <1>5. CASE \E c \in Int : resp' = Append(resp, <<"code", c>>)
    <2>1. PICK c \in Int : resp' = Append(resp, <<"code", c>>)
      BY <1>5
    <2>2. PICK t \in Output : t = <<"code", c>> /\ t[1] = "code"
      <3>1. <<"code", c>> \in Output /\ <<"code", c>>[1] = "code"
        BY DEF Output
      <3>. QED
        BY <3>1
    <2>3. DataIs(Append(resp, t), made) /\ Append(resp, t) \in Seq(Output)
      BY <1>1, <1>3, <2>2, DataAndOther, AppendProperties
    <2>4. resp' = Append(resp, t)
      BY <2>1, <2>2
    <2>5. resp' \in Seq(Output) /\ DataIs(resp', made')
      BY <2>3, <2>4
    <2>6. resp' \o req'.block = resp'
      BY <2>5, ConcatEmptySeq
    <2>. QED
      BY <2>5, <2>6
  <1>. QED
    BY <1>4, <1>5

(* Nothing of a response changes.                                          *)
LEMMA CompleteSame ==
  ASSUME Complete, UNCHANGED <<pc, req, loc, made, resp>>
  PROVE  Complete'
  BY ZenonT(40) DEF Complete, GoingOn, Finished, DataIs, Answering, LastIs, FinalCode, AnswerSeen, q_

(* The header, the preview and the OPTIONS response.                       *)
LEMMA CompleteEarly ==
  ASSUME TypeOK, Phases, Complete,
         \/ ReadRequest \/ HeaderTimeout \/ options_responce
         \/ read_preview_data_read \/ read_preview_data_parse
  PROVE  Complete'
  <1>0. req \in ReqRec
    BY DEF TypeOK
  <1>1. CASE ReadRequest
    <2>1. /\ pc = "header" /\ made' = made /\ req'.block = req.block
          /\ \/ /\ pc' \in {"options", "read_preview", "preview"} /\ resp' = resp
                /\ req'.respbody = req.respbody
                /\ pc' = "options" => q_'.options
             \/ /\ pc' = "end" /\ req'.ret = "CI_ERROR"
                /\ resp' = resp \/ \E c \in Int : resp' = Append(resp, <<"code", c>>)
      BY <1>1, HeaderOutcome DEF dataVars, q_
    <2>2. req.block = <<>> /\ ~req.respbody
      BY <2>1 DEF Phases, Complete
    <2>3. DataIs(resp' \o req'.block, made')
      BY <2>1, <2>2, DataAndCode
    <2>4. CASE pc' = "end"
      BY <2>1, <2>3, <2>4, CompleteFails
    <2>5. CASE pc' # "end"
      <3>1. /\ pc' \in {"options", "read_preview", "preview"} /\ ~req'.respbody
            /\ (pc' = "options" => q_'.options)
        BY <2>1, <2>2, <2>5
      <3>. QED
        BY <2>3, <3>1, CompleteBegins
    <2>. QED
      BY <2>4, <2>5
  <1>2. CASE HeaderTimeout
    <2>1. pc = "header" /\ pc' = "closed" /\ UNCHANGED <<req, made, resp>>
      BY <1>2 DEF HeaderTimeout, dataVars
    <2>2. DataIs(resp' \o req'.block, made') /\ ~req'.respbody
      BY <2>1 DEF Complete
    <2>. QED
      BY <2>1, <2>2, CompleteBegins
  <1>3. CASE options_responce
    <2>1. pc = "options" /\ Ends(req, "CI_OK") /\ made' = made
      BY <1>3 DEF options_responce, dataVars
    <2>2. pc' = "end" /\ req' = WithResult(req, "CI_OK")
      BY <2>1 DEF Ends, WithResult
    <2>3. req'.block = req.block /\ req'.n = req.n
      BY <1>0, <2>2, ResultSet DEF SameFields
    <2>4. req.block = <<>>
      BY <2>1 DEF Phases
    <2>5. resp' = resp \/ \E c \in Int : resp' = Append(resp, <<"code", c>>)
      <3>1. 200 \in Int
        OBVIOUS
      <3>. QED
        BY <1>3, <3>1 DEF options_responce
    <2>6. DataIs(resp' \o req'.block, made')
      BY <2>1, <2>3, <2>4, <2>5, DataAndCode
    <2>7. q_.options
      BY <2>1 DEF Complete
    <2>. QED
      BY <2>2, <2>3, <2>6, <2>7 DEF Complete, GoingOn, BodyPcs, Finished, DataIs, q_
  <1>4. CASE read_preview_data_read \/ read_preview_data_parse
    <2>1. ReadingPreview
      BY <1>4, PreviewReadOutcome, PreviewParseOutcome
    <2>2. 408 \in Int
      OBVIOUS
    <2>3. /\ pc = "read_preview" /\ made' = made /\ req'.block = req.block
          /\ \/ /\ pc' \in {"read_preview", "preview"} /\ resp' = resp
                /\ req'.respbody = req.respbody
             \/ /\ pc' = "end" /\ req'.ret = "CI_ERROR"
                /\ resp' = resp \/ \E c \in Int : resp' = Append(resp, <<"code", c>>)
      BY <2>1, <2>2 DEF ReadingPreview
    <2>4. req.block = <<>> /\ ~req.respbody
      BY <2>3 DEF Phases, Complete
    <2>5. DataIs(resp' \o req'.block, made')
      BY <2>3, <2>4, DataAndCode
    <2>. QED
      BY <2>3, <2>4, <2>5, CompleteFails, CompleteBegins
  <1>. QED
    BY <1>1, <1>2, <1>3, <1>4

(* The preview handler.                                                    *)
LEMMA CompleteHandler ==
  ASSUME TypeOK, Phases, Complete, PreviewHandler
  PROVE  Complete'
  <1>1. /\ pc = "preview" /\ AfterPreview /\ made' = made /\ req'.block = req.block
        /\ req'.respbody = req.respbody
    BY HandlerOutcome DEF dataVars
  <1>2. req.block = <<>> /\ ~req.respbody /\ req.status = "SEND_NOTHING" /\ req'.block = <<>>
    BY <1>1 DEF Phases, Complete
  <1>3. 100 \in Int /\ 200 \in Int \ {100}
    OBVIOUS
  <1>4. resp' = resp \/ \E c \in Int : resp' = Append(resp, <<"code", c>>)
    BY <1>1, <1>3 DEF AfterPreview
  <1>5. DataIs(resp' \o req'.block, made') /\ resp' \o req'.block = resp'
    BY <1>1, <1>2, <1>4, DataAndCode
  <1>6. ~req'.respbody
    BY <1>1, <1>2
  <1>7. CASE pc' = "end" /\ req'.ret = "CI_ERROR"
    BY <1>5, <1>7, CompleteFails
  <1>8. CASE pc' = "end" /\ req'.status = "SEND_EOF"
             /\ \E c \in Int \ {100} : resp' = Append(resp, <<"code", c>>)
    <2>1. AnswerSeen'
      BY <1>6, <1>8, CodeAnswers
    <2>. QED
      BY <1>2, <1>5, <1>8, <2>1, CompleteEnds
  <1>9. CASE pc' = "wait" /\ loc'.parse_only = FALSE /\ req'.status = "SEND_NOTHING"
    <2>1. Answering(req', resp' \o req'.block)
      BY <1>6, <1>9 DEF Answering
    <2>. QED
      BY <1>5, <1>9, <2>1, CompleteGoesOn DEF BodyPcs
  <1>10. CASE pc' = "wait" /\ loc'.parse_only = TRUE
              /\ \E c \in Int \ {100} : resp' = Append(resp, <<"code", c>>)
    <2>1. FinalCode(resp')
      BY <1>10, CodeAnswers
    <2>. QED
      BY <1>5, <1>6, <1>10, <2>1, CompleteParses DEF BodyPcs
  <1>11. CASE pc' = "end_of_data" /\ resp' = resp /\ req'.status = req.status
    <2>1. Answering(req', resp' \o req'.block)
      BY <1>2, <1>6, <1>11 DEF Answering
    <2>. QED
      BY <1>5, <1>11, <2>1, CompleteGoesOn DEF BodyPcs
  <1>12. CASE pc' = "end_of_data" /\ req'.status = "SEND_EOF"
              /\ resp' = Append(resp, <<"code", 200>>)
    <2>1. FinalCode(resp')
      BY <1>3, <1>12, CodeAnswers
    <2>2. Answering(req', resp' \o req'.block)
      BY <1>5, <1>6, <1>12, <2>1 DEF Answering
    <2>. QED
      BY <1>5, <1>12, <2>2, CompleteGoesOn DEF BodyPcs
  <1>. QED
    BY <1>1, <1>7, <1>8, <1>9, <1>10, <1>11, <1>12 DEF AfterPreview

(* get_send_body returns, or one of its steps fails.                       *)
LEMMA CompleteReturns ==
  ASSUME TypeOK, Phases, Complete, pc \in BodyPcs, NEW x \in ReqRec, made' = made, resp' = resp,
         req'.block = x.block, DataIs(resp \o x.block, made), loc.parse_only => x = req,
         ~loc.parse_only => Answering(x, resp \o x.block),
         \/ pc' = "end" /\ req'.ret = "CI_ERROR"
         \/ /\ pc' = "end" /\ loc.parse_only = TRUE
            /\ req'.status = x.status /\ req'.respbody = x.respbody
         \/ pc' = "end_of_data" /\ req' = x /\ loc.parse_only = FALSE
  PROVE  Complete'
  <1>1. DataIs(resp' \o req'.block, made')
    OBVIOUS
  <1>2. CASE pc' = "end" /\ req'.ret = "CI_ERROR"
    BY <1>1, <1>2, CompleteFails
  <1>3. CASE /\ pc' = "end" /\ loc.parse_only = TRUE
             /\ req'.status = x.status /\ req'.respbody = x.respbody
    <2>1. /\ x = req /\ req.status = "SEND_NOTHING" /\ req.block = <<>>
          /\ ~req.respbody /\ FinalCode(resp)
      BY <1>3 DEF Phases, Complete
    <2>2. AnswerSeen'
      <3>1. FinalCode(resp') /\ req'.status = "SEND_NOTHING" /\ ~req'.respbody
        BY <1>3, <2>1
      <3>. QED
        BY <3>1, AnsweredByCode
    <2>. QED
      BY <1>1, <1>3, <2>1, <2>2, CompleteEnds
  <1>4. CASE pc' = "end_of_data" /\ req' = x /\ loc.parse_only = FALSE
    <2>1. Answering(req', resp' \o req'.block)
      BY <1>4
    <2>. QED
      BY <1>1, <1>4, <2>1, CompleteGoesOn DEF BodyPcs
  <1>. QED
    BY <1>2, <1>3, <1>4

(* The wait fails.                                                         *)
LEMMA CompleteWaitFails ==
  ASSUME TypeOK, Phases, Complete, gsb_WaitFails
  PROVE  Complete'
  <1>1. /\ pc = "wait" /\ (BodyDone(req) \/ BodyError(req)) /\ made' = made /\ resp' = resp
    BY DEF gsb_WaitFails, dataVars
  <1>2. req \in ReqRec /\ loc.parse_only \in BOOLEAN
    BY DEF TypeOK, LocRec
  <1>3. /\ req'.block = req.block
        /\ \/ pc' = "end" /\ req'.ret = "CI_ERROR"
           \/ /\ pc' = "end" /\ loc.parse_only = TRUE
              /\ req'.status = req.status /\ req'.respbody = req.respbody
           \/ pc' = "end_of_data" /\ req' = req /\ loc.parse_only = FALSE
    BY <1>1, <1>2, BodyDoneOutcome
  <1>4. /\ DataIs(resp \o req.block, made)
        /\ ~loc.parse_only => Answering(req, resp \o req.block)
    BY <1>1 DEF Complete, GoingOn, BodyPcs
  <1>. QED
    BY <1>1, <1>2, <1>3, <1>4, CompleteReturns DEF BodyPcs

(* A step of get_send_body that keeps the response of a body that is only  *)
(* parsed.                                                                 *)
LEMMA CompleteStaysParsing ==
  ASSUME TypeOK, Phases, Complete, pc \in BodyPcs, pc' \in BodyPcs, loc.parse_only,
         loc'.parse_only = loc.parse_only, made' = made, resp' = resp, req'.block = req.block,
         req'.respbody = req.respbody
  PROVE  Complete'
  <1>1. DataIs(resp' \o req'.block, made') /\ ~req'.respbody /\ FinalCode(resp')
    BY DEF Complete
  <1>. QED
    BY <1>1, CompleteParses

(* One that goes on with a response.                                       *)
LEMMA CompleteNoWait ==
  ASSUME TypeOK, Complete, gsb_NoWait
  PROVE  Complete'
  <1>1. pc = "wait" /\ pc' = "update" /\ UNCHANGED <<req, loc, made, resp>>
    BY DEF gsb_NoWait, dataVars
  <1>. QED
    BY <1>1, ZenonT(40) DEF Complete, GoingOn, BodyPcs, Finished, DataIs, Answering, LastIs, FinalCode

(* The wait ends.                                                          *)
LEMMA CompleteWait ==
  ASSUME TypeOK, Phases, Complete, gsb_Wait
  PROVE  Complete'
  <1>1. /\ pc = "wait" /\ pc' = "update" /\ loc' = loc /\ made' = made
        /\ resp' \in Seq(Output) /\ resp \in Seq(Output) /\ made \in Seq(Data)
        /\ loc.parse_only \in BOOLEAN /\ req \in ReqRec
    BY WaitOutcome DEF TypeOK, LocRec, dataVars
  <1>2. PICK x \in ReqRec, y \in ReqRec :
              /\ x.block = req.block /\ x.status = req.status /\ x.code = req.code
              /\ x.locked = req.locked /\ x.respbody = req.respbody
              /\ y = x \/ (~x.locked /\ x.status = "SEND_NOTHING" /\ y \in update_send_status(x))
              /\ resp' \o req'.block = resp \o y.block
              /\ req'.status = y.status /\ req'.code = y.code /\ req'.locked = y.locked
              /\ req'.respbody = y.respbody /\ (y.block = <<>> => req'.block = <<>>)
    BY WaitOutcome
  <1>3. CASE loc.parse_only
    <2>1. req.locked /\ req.status = "SEND_NOTHING" /\ req.block = <<>>
      BY <1>1, <1>3 DEF Phases, BodyPcs
    <2>2. y = x /\ req'.block = <<>> /\ y.block = <<>>
      BY <1>2, <2>1
    <2>3. resp' = resp
      <3>1. resp' \o req'.block = resp' /\ resp \o y.block = resp
        BY <1>1, <2>2, ConcatEmptySeq
      <3>. QED
        BY <1>2, <3>1
    <2>. QED
      BY <1>1, <1>2, <1>3, <2>1, <2>2, <2>3, CompleteStaysParsing DEF BodyPcs
  <1>4. CASE ~loc.parse_only
    <2>1. DataIs(resp \o req.block, made) /\ Answering(req, resp \o req.block)
      BY <1>1, <1>4 DEF Complete, GoingOn, BodyPcs
    <2>2. Answering(x, resp \o x.block) /\ DataIs(resp \o x.block, made)
      BY <1>2, <2>1 DEF Answering
    <2>3. DataIs(resp \o y.block, made) /\ Answering(y, resp \o y.block)
      <3>1. CASE y = x
        BY <2>2, <3>1
      <3>2. CASE x.status = "SEND_NOTHING" /\ y \in update_send_status(x)
        <4>1. x.block = <<>>
          BY <1>1, <1>2, <3>2 DEF Phases, BodyPcs
        <4>2. resp \o x.block = resp
          BY <1>1, <4>1, ConcatEmptySeq
        <4>3. q_.hasbody \in BOOLEAN
          BY <1>1, CurrentRequest
        <4>4. DataIs(resp, made) /\ Answering(x, resp)
          BY <2>2, <4>2
        <4>. QED
          BY <1>1, <3>2, <4>1, <4>3, <4>4, UpdateAnswers
      <3>. QED
        BY <1>2, <3>1, <3>2
    <2>4. DataIs(resp' \o req'.block, made') /\ Answering(req', resp' \o req'.block)
      BY <1>1, <1>2, <2>3 DEF Answering
    <2>. QED
      BY <1>1, <1>4, <2>4, CompleteGoesOn DEF BodyPcs
  <1>. QED
    BY <1>3, <1>4

(* The start of a round.                                                   *)
LEMMA CompleteUpdate ==
  ASSUME TypeOK, Phases, Complete, gsb_Update
  PROVE  Complete'
  <1>1. /\ pc = "update" /\ pc' = "io" /\ resp' = resp /\ made' = made
        /\ req' = req \/ (~req.locked /\ req.block = <<>> /\ req' \in update_send_status(req))
        /\ loc'.parse_only = loc.parse_only
    BY UpdateOutcome DEF dataVars
  <1>2. req \in ReqRec /\ resp \in Seq(Output) /\ made \in Seq(Data) /\ q_.hasbody \in BOOLEAN
    BY <1>1, CurrentRequest DEF TypeOK
  <1>3. CASE loc.parse_only
    <2>1. req' = req
      BY <1>1, <1>3 DEF Phases, BodyPcs
    <2>. QED
      BY <1>1, <1>3, <2>1, CompleteStaysParsing DEF BodyPcs
  <1>4. CASE ~loc.parse_only
    <2>1. DataIs(resp \o req.block, made) /\ Answering(req, resp \o req.block)
      BY <1>1, <1>4 DEF Complete, GoingOn, BodyPcs
    <2>2. CASE req' = req
      <3>1. DataIs(resp' \o req'.block, made') /\ Answering(req', resp' \o req'.block)
        BY <1>1, <2>1, <2>2
      <3>. QED
        BY <1>1, <1>4, <3>1, CompleteGoesOn DEF BodyPcs
    <2>3. CASE req.block = <<>> /\ req' \in update_send_status(req)
      <3>1. PICK y : y = req'
        OBVIOUS
      <3>2. resp \o req.block = resp
        BY <1>2, <2>3, ConcatEmptySeq
      <3>3. DataIs(resp, made) /\ Answering(req, resp) /\ y \in update_send_status(req)
        BY <2>1, <2>3, <3>1, <3>2
      <3>4. DataIs(resp \o y.block, made) /\ Answering(y, resp \o y.block)
        BY <1>2, <2>3, <3>3, UpdateAnswers
      <3>5. DataIs(resp' \o req'.block, made') /\ Answering(req', resp' \o req'.block)
        BY <1>1, <3>1, <3>4
      <3>. QED
        BY <1>1, <1>4, <3>5, CompleteGoesOn DEF BodyPcs
    <2>. QED
      BY <1>1, <2>2, <2>3
  <1>. QED
    BY <1>3, <1>4

(* A pass of the inner loop.                                               *)
LEMMA CompleteIo ==
  ASSUME TypeOK, Phases, Complete, gsb_ServiceIo
  PROVE  Complete'
  <1>1. /\ pc = "io" /\ resp' = resp /\ req \in ReqRec /\ resp \in Seq(Output)
        /\ made \in Seq(Data) /\ req.block \in Seq(Output)
    BY IoOutcome DEF TypeOK, ReqRec
  <1>2. CASE /\ pc' = "end" /\ req'.block = req.block /\ req'.ret = "CI_ERROR" /\ made' = made
    <2>1. DataIs(resp' \o req'.block, made')
      BY <1>1, <1>2 DEF Complete
    <2>. QED
      BY <1>2, <2>1, CompleteFails
  <1>3. ASSUME pc' \in {"io", "round"}, loc'.parse_only = loc.parse_only,
               req'.status = req.status, req'.respbody = req.respbody,
               NEW d \in Seq(Data), req'.block = req.block \o d, made' = made \o d,
               d # <<>> => req.status = "SEND_BODY" /\ ~loc.parse_only
        PROVE  Complete'
    <2>1. CASE d = <<>>
      <3>1. req'.block = req.block /\ made' = made
        BY <1>1, <1>3, <2>1, ConcatEmptySeq
      <3>2. CASE loc.parse_only
        BY <1>1, <1>3, <3>1, <3>2, CompleteStaysParsing DEF BodyPcs
      <3>3. CASE ~loc.parse_only
        <4>1. DataIs(resp \o req.block, made) /\ Answering(req, resp \o req.block)
          BY <1>1, <3>3 DEF Complete, GoingOn, BodyPcs
        <4>2. DataIs(resp' \o req'.block, made') /\ Answering(req', resp' \o req'.block)
          BY <1>1, <1>3, <3>1, <4>1 DEF Answering
        <4>. QED
          BY <1>3, <3>3, <4>2, CompleteGoesOn DEF BodyPcs
      <3>. QED
        BY <3>2, <3>3
    <2>2. CASE d # <<>>
      <3>1. req.status = "SEND_BODY" /\ ~loc.parse_only /\ Top["SEND_BODY"] = 4
        BY <1>3, <2>2 DEF Top, Statuses
      <3>2. PICK u \in Seq(Output) : u = resp \o req.block
        BY <1>1, ConcatProperties
      <3>3. Ordered(u) /\ Below(u, 4) /\ DataIs(u, made) /\ req.respbody
        BY <1>1, <3>1, <3>2 DEF Phases, Complete, GoingOn, BodyPcs, Answering
      <3>4. DataIs(u \o d, made \o d)
        BY <1>1, <3>3, DataAndMore
      <3>5. d \in Seq(Output)
        BY DataIsBoth, SeqMonotonic
      <3>6. resp \o (req.block \o d) = (resp \o req.block) \o d
        <4>1. \A a, b, c \in Seq(Output) : a \o (b \o c) = (a \o b) \o c
          BY ConcatAssociative, SMTT(40)
        <4>. QED
          BY <1>1, <3>5, <4>1
      <3>7. resp' \o req'.block = u \o d
        BY <1>1, <1>3, <3>2, <3>6
      <3>8. DataIs(resp' \o req'.block, made') /\ Answering(req', resp' \o req'.block)
        BY <1>3, <3>1, <3>3, <3>4, <3>7 DEF Answering
      <3>. QED
        BY <1>3, <3>1, <3>8, CompleteGoesOn DEF BodyPcs
    <2>. QED
      BY <2>1, <2>2
  <1>. QED
    BY <1>2, <1>3, IoOutcome

(* The end of a round.                                                     *)
LEMMA CompleteRound ==
  ASSUME TypeOK, Phases, Complete, gsb_Round
  PROVE  Complete'
  <1>1. /\ pc = "round" /\ resp' = resp /\ made' = made /\ loc'.parse_only = loc.parse_only
        /\ resp \in Seq(Output) /\ made \in Seq(Data) /\ req \in ReqRec
    BY RoundOutcome DEF TypeOK, dataVars
  <1>2. PICK x \in ReqRec :
              /\ x = req \/ Ended(req, x)
              /\ req'.block = x.block
              /\ \/ pc' = "wait" /\ req' = x
                 \/ pc' = "end" /\ req'.ret = "CI_ERROR"
                 \/ /\ pc' = "end" /\ loc.parse_only = TRUE
                    /\ req'.status = x.status /\ req'.respbody = x.respbody
                 \/ pc' = "end_of_data" /\ req' = x /\ loc.parse_only = FALSE
    BY RoundOutcome
  <1>3. loc.parse_only => x = req
    BY <1>1, <1>2 DEF Phases, BodyPcs, Ended
  <1>4. /\ DataIs(resp \o req.block, made)
        /\ ~loc.parse_only => Answering(req, resp \o req.block)
    BY <1>1 DEF Complete, GoingOn, BodyPcs
  <1>5. /\ DataIs(resp \o x.block, made)
        /\ ~loc.parse_only => Answering(x, resp \o x.block)
    <2>1. CASE x = req
      BY <1>4, <2>1
    <2>2. CASE Ended(req, x) /\ ~loc.parse_only
      <3>1. resp \o req.block = resp
        BY <1>1, <2>2, ConcatEmptySeq DEF Ended
      <3>2. DataIs(resp, made) /\ Answering(req, resp) /\ Ended(req, x)
        BY <1>4, <2>2, <3>1
      <3>. QED
        BY <1>1, <3>2, EndAnswers
    <2>. QED
      BY <1>2, <1>3, <2>1, <2>2
  <1>6. CASE pc' = "wait" /\ req' = x
    <2>1. CASE loc.parse_only
      BY <1>1, <1>3, <1>6, <2>1, CompleteStaysParsing DEF BodyPcs
    <2>2. CASE ~loc.parse_only
      <3>1. DataIs(resp' \o req'.block, made') /\ Answering(req', resp' \o req'.block)
        BY <1>1, <1>5, <1>6, <2>2
      <3>. QED
        BY <1>1, <1>6, <2>2, <3>1, CompleteGoesOn DEF BodyPcs
    <2>. QED
      BY <2>1, <2>2
  <1>7. CASE \/ pc' = "end" /\ req'.ret = "CI_ERROR"
             \/ /\ pc' = "end" /\ loc.parse_only = TRUE
                /\ req'.status = x.status /\ req'.respbody = x.respbody
             \/ pc' = "end_of_data" /\ req' = x /\ loc.parse_only = FALSE
    BY <1>1, <1>2, <1>3, <1>5, <1>7, CompleteReturns DEF BodyPcs
  <1>. QED
    BY <1>2, <1>6, <1>7

(* The end-of-data handler.                                                *)
LEMMA CompleteEndOfData ==
  ASSUME TypeOK, Phases, Complete, EndOfDataHandler
  PROVE  Complete'
  <1>1. /\ pc = "end_of_data" /\ made' = made /\ req'.block = req.block
        /\ req'.respbody = req.respbody /\ resp \in Seq(Output)
    BY EndOfDataOutcome DEF TypeOK, dataVars
  <1>2. /\ DataIs(resp \o req.block, made) /\ Answering(req, resp \o req.block)
        /\ (req.status = "SEND_NOTHING" => req.block = <<>> /\ ~req.respbody)
    BY <1>1 DEF Complete, GoingOn, Phases, Answering
  <1>3. ASSUME req.status = "SEND_NOTHING",
               \E c \in Int \ {100} : resp' = Append(resp, <<"code", c>>)
        PROVE  /\ DataIs(resp' \o req'.block, made') /\ resp' \o req'.block = resp'
               /\ ~req'.respbody /\ req'.block = <<>> /\ FinalCode(resp')
               /\ req'.status = "SEND_EOF" => AnswerSeen'
    <2>1. req.block = <<>> /\ req'.block = <<>> /\ ~req'.respbody
      BY <1>1, <1>2, <1>3
    <2>2. \E e \in Int : resp' = Append(resp, <<"code", e>>)
      BY <1>3
    <2>3. DataIs(resp' \o req'.block, made') /\ resp' \o req'.block = resp'
      BY <1>1, <2>1, <2>2, DataAndCode
    <2>4. FinalCode(resp') /\ (req'.status = "SEND_EOF" => AnswerSeen')
      BY <1>3, <2>1, CodeAnswers
    <2>. QED
      BY <2>1, <2>3, <2>4
  <1>4. CASE pc' = "rest" /\ resp' = resp /\ req'.status = req.status
    <2>1. DataIs(resp' \o req'.block, made') /\ Answering(req', resp' \o req'.block)
      BY <1>1, <1>2, <1>4 DEF Answering
    <2>. QED
      BY <1>4, <2>1, CompleteGoesOn DEF BodyPcs
  <1>5. CASE /\ pc' = "rest" /\ resp' = Append(resp, <<"code", 200>>)
             /\ req.status = "SEND_NOTHING" /\ req'.status = "SEND_EOF"
    <2>1. \E c \in Int \ {100} : resp' = Append(resp, <<"code", c>>)
      BY <1>5
    <2>2. /\ DataIs(resp' \o req'.block, made') /\ resp' \o req'.block = resp'
          /\ ~req'.respbody /\ FinalCode(resp')
      BY <1>3, <1>5, <2>1
    <2>3. Answering(req', resp' \o req'.block)
      BY <1>5, <2>2 DEF Answering
    <2>. QED
      BY <1>5, <2>2, <2>3, CompleteGoesOn DEF BodyPcs
  <1>6. CASE pc' = "end" /\ resp' = resp /\ req'.ret = "CI_ERROR"
    <2>1. DataIs(resp' \o req'.block, made')
      BY <1>1, <1>2, <1>6
    <2>. QED
      BY <1>6, <2>1, CompleteFails
  <1>7. CASE /\ pc' = "end" /\ req.status = "SEND_NOTHING"
             /\ req'.ret = "CI_ERROR" \/ req'.status = "SEND_EOF"
             /\ \E c \in {204, 500} : resp' = Append(resp, <<"code", StatusCode(c)>>)
    <2>1. \E c \in Int \ {100} : resp' = Append(resp, <<"code", c>>)
      <3>1. \A c \in {204, 500} : StatusCode(c) \in Int \ {100}
        BY DEF StatusCode
      <3>. QED
        BY <1>7, <3>1
    <2>2. /\ DataIs(resp' \o req'.block, made') /\ req'.block = <<>>
          /\ req'.status = "SEND_EOF" => AnswerSeen'
      BY <1>3, <1>7, <2>1
    <2>. QED
      BY <1>7, <2>2, CompleteFails, CompleteEnds
  <1>. QED
    BY <1>4, <1>5, <1>6, <1>7, EndOfDataOutcome

(* The rest of the response: writing.                                      *)
LEMMA CompleteRestSend ==
  ASSUME TypeOK, Complete, rest_Send
  PROVE  Complete'
  <1>1. /\ pc = "rest" /\ made' = made /\ resp' \o req'.block = resp \o req.block
        /\ \/ pc' = "end" /\ req'.ret = "CI_ERROR"
           \/ pc' = "rest" /\ req'.status = req.status /\ req'.respbody = req.respbody
    BY RestSendOutcome DEF dataVars
  <1>2. DataIs(resp \o req.block, made) /\ Answering(req, resp \o req.block)
    BY <1>1 DEF Complete, GoingOn
  <1>3. DataIs(resp' \o req'.block, made')
    BY <1>1, <1>2
  <1>4. CASE pc' = "end" /\ req'.ret = "CI_ERROR"
    BY <1>3, <1>4, CompleteFails
  <1>5. CASE pc' = "rest" /\ req'.status = req.status /\ req'.respbody = req.respbody
    <2>1. Answering(req', resp' \o req'.block)
      BY <1>1, <1>2, <1>5 DEF Answering
    <2>. QED
      BY <1>3, <1>5, <2>1, CompleteGoesOn DEF BodyPcs
  <1>. QED
    BY <1>1, <1>4, <1>5

(* The rest of the response: the next data or the last chunk.              *)
LEMMA CompleteRestRead ==
  ASSUME TypeOK, Phases, Complete, rest_Read
  PROVE  Complete'
  <1>1. /\ pc = "rest" /\ resp' = resp /\ req.block = <<>> /\ req.status = "SEND_BODY"
        /\ req' \in ReqRec /\ req \in ReqRec /\ resp \in Seq(Output) /\ made \in Seq(Data)
    BY RestReadOutcome DEF TypeOK
  <1>2. resp \o req.block = resp /\ Top["SEND_BODY"] = 4
    BY <1>1, ConcatEmptySeq DEF Top, Statuses
  <1>3. /\ Ordered(resp) /\ Below(resp, 4) /\ DataIs(resp, made)
        /\ Answering(req, resp) /\ req.respbody
    BY <1>1, <1>2 DEF Phases, Complete, GoingOn, Answering
  <1>4. PICK y \in ReqRec : y = req'
    BY <1>1
  <1>5. CASE /\ pc' = "end" /\ req'.block = req.block /\ made' = made
             /\ req'.ret = "CI_ERROR" \/ req'.starved
    <2>1. DataIs(resp' \o req'.block, made')
      BY <1>1, <1>2, <1>3, <1>5
    <2>. QED
      BY <1>5, <2>1, CompleteFails
  <1>6. CASE pc' = "rest" /\ Ended(req, req') /\ made' = made
    <2>1. Ended(req, y)
      BY <1>4, <1>6
    <2>2. DataIs(resp \o y.block, made) /\ Answering(y, resp \o y.block)
      BY <1>1, <1>3, <2>1, EndAnswers
    <2>3. DataIs(resp' \o req'.block, made') /\ Answering(req', resp' \o req'.block)
      BY <1>1, <1>4, <1>6, <2>2
    <2>. QED
      BY <1>6, <2>3, CompleteGoesOn DEF BodyPcs
  <1>7. CASE /\ pc' = "rest" /\ req'.block \in Seq(Data) /\ req'.status = req.status
             /\ req'.respbody = req.respbody /\ made' = made \o req'.block
    <2>1. y.block \in Seq(Data) /\ made' = made \o y.block
      BY <1>4, <1>7
    <2>2. DataIs(resp \o y.block, made \o y.block)
      BY <1>1, <1>3, <2>1, DataAndMore
    <2>3. DataIs(resp' \o req'.block, made')
      BY <1>1, <1>4, <2>1, <2>2
    <2>4. Answering(req', resp' \o req'.block)
      BY <1>1, <1>3, <1>7 DEF Answering
    <2>. QED
      BY <1>7, <2>3, <2>4, CompleteGoesOn DEF BodyPcs
  <1>. QED
    BY <1>5, <1>6, <1>7, RestReadOutcome

(* The rest of the response: its next part, or its end.                    *)
LEMMA CompleteRestUpdate ==
  ASSUME TypeOK, Complete, rest_Update
  PROVE  Complete'
  <1>1. /\ pc = "rest" /\ resp' = resp /\ made' = made /\ req.block = <<>>
        /\ req \in ReqRec /\ resp \in Seq(Output) /\ made \in Seq(Data)
    BY RestUpdateOutcome DEF TypeOK, dataVars
  <1>2. PICK x \in update_send_status(req) :
              /\ req'.block = x.block
              /\ \/ pc' = "end" /\ SendEnds(req) /\ req' = WithResult(x, "CI_OK")
                 \/ pc' = "rest" /\ req' = x
    BY RestUpdateOutcome
  <1>3. resp \o req.block = resp /\ q_.hasbody \in BOOLEAN
    BY <1>1, ConcatEmptySeq, CurrentRequest
  <1>4. DataIs(resp, made) /\ Answering(req, resp)
    BY <1>1, <1>3 DEF Complete, GoingOn
  <1>5. DataIs(resp \o x.block, made) /\ Answering(x, resp \o x.block) /\ x \in ReqRec
    BY <1>1, <1>3, <1>4, UpdateAnswers, UpdateType
  <1>6. DataIs(resp' \o req'.block, made')
    BY <1>1, <1>2, <1>5
  <1>7. CASE pc' = "rest" /\ req' = x
    <2>1. Answering(req', resp' \o req'.block)
      BY <1>1, <1>5, <1>7
    <2>. QED
      BY <1>6, <1>7, <2>1, CompleteGoesOn DEF BodyPcs
  <1>8. CASE pc' = "end" /\ SendEnds(req) /\ req' = WithResult(x, "CI_OK")
    <2>1. /\ req'.block = x.block /\ req'.status = x.status /\ req'.respbody = x.respbody
      BY <1>5, <1>8, ResultSet DEF SameFields
    <2>2. CASE req.status = "SEND_HEAD1" /\ ~req.respbody
      <3>1. x = [req EXCEPT !.status = "SEND_EOF"]
        BY <2>2 DEF update_send_status
      <3>2. x.block = <<>> /\ ~x.respbody
        BY <1>1, <2>2, <3>1 DEF ReqRec
      <3>3. LastIs(resp', "head")
        BY <1>1, <1>4, <2>2 DEF Answering
      <3>4. AnswerSeen'
        BY <2>1, <3>2, <3>3 DEF LastIs, AnswerSeen
      <3>. QED
        BY <1>6, <1>8, <2>1, <3>2, <3>4, CompleteEnds
    <2>3. CASE req.status = "SEND_EOF" /\ ~req.trailers
      <3>1. x = req
        BY <2>3 DEF update_send_status
      <3>2. req'.trailers = req.trailers
        BY <1>1, <1>8, <3>1 DEF WithResult, ReqRec
      <3>3. CASE req.respbody
        <4>1. LastIs(resp', "eof") /\ ~req'.trailers
          BY <1>1, <1>4, <2>3, <3>2, <3>3 DEF Answering
        <4>2. AnswerSeen'
          BY <4>1 DEF LastIs, AnswerSeen
        <4>. QED
          BY <1>1, <1>6, <1>8, <2>1, <3>1, <4>2, CompleteEnds
      <3>4. CASE ~req.respbody
        <4>1. LastIs(resp', "head") \/ FinalCode(resp')
          BY <1>1, <1>4, <2>3, <3>4 DEF Answering
        <4>2. req'.status = "SEND_EOF" /\ ~req'.respbody
          BY <2>1, <2>3, <3>1, <3>4
        <4>3. AnswerSeen'
          BY <4>1, <4>2 DEF LastIs, FinalCode, AnswerSeen
        <4>. QED
          BY <1>1, <1>6, <1>8, <2>1, <3>1, <4>3, CompleteEnds
      <3>. QED
        BY <3>3, <3>4
    <2>4. CASE req.status = "SEND_TRAILERS"
      <3>1. x = req
        BY <2>4 DEF update_send_status
      <3>2. LastIs(resp', "trailer")
        BY <1>1, <1>4, <2>4 DEF Answering
      <3>3. AnswerSeen'
        BY <3>2 DEF LastIs, AnswerSeen
      <3>. QED
        BY <1>1, <1>6, <1>8, <2>1, <3>1, <3>3, CompleteEnds
    <2>. QED
      BY <1>8, <2>2, <2>3, <2>4 DEF SendEnds
  <1>. QED
    BY <1>2, <1>7, <1>8

(* A request begins with nothing made and nothing sent.                    *)
LEMMA NothingSent ==
  ASSUME NEW s, NEW d, s = <<>>, d = <<>>
  PROVE  DataIs(s \o <<>>, d)
  <1>1. s \o <<>> = <<>>
    OBVIOUS
  <1>2. 0 \in 0 .. Len(<<>>) - Len(<<>>) /\ DOMAIN <<>> = {}
    OBVIOUS
  <1>. QED
    BY <1>1, <1>2 DEF DataIs

(* The connection begins so, and every step keeps it.                      *)
LEMMA CompleteInit == Init => Complete
  <1>. SUFFICES ASSUME Init PROVE Complete
    OBVIOUS
  <1>1. /\ pc = "header" /\ resp = <<>> /\ made = <<>> /\ req.block = <<>> /\ ~req.respbody
    BY DEF Init, FreshRequest
  <1>2. DataIs(resp \o req.block, made)
    BY <1>1, NothingSent
  <1>. QED
    BY <1>1, <1>2 DEF Complete, GoingOn, BodyPcs, Finished

(* Every action keeps the response complete.                               *)
LEMMA CompleteStep ==
  ASSUME TypeOK, Phases, Complete, [Next]_vars
  PROVE  Complete'
  <1>1. ASSUME NEW i \in DOMAIN Requests, ClientSends(i) PROVE Complete'
    <2>1. UNCHANGED <<pc, req, loc, made, resp>>
      BY <1>1 DEF ClientSends, dataVars
    <2>. QED
      BY <2>1, CompleteSame
  <1>2. CASE EndRequest
    <2>1. /\ pc' \in {"header", "closed"} /\ resp' = <<>> /\ made' = <<>>
          /\ req'.block = <<>> /\ ~req'.respbody
      BY <1>2 DEF EndRequest, FreshRequest
    <2>2. DataIs(resp' \o req'.block, made')
      BY <2>1, NothingSent
    <2>. QED
      BY <2>1, <2>2, CompleteBegins
  <1>3. CASE Closed \/ UNCHANGED vars
    <2>1. UNCHANGED <<pc, req, loc, made, resp>>
      BY <1>3 DEF Closed, vars, dataVars
    <2>. QED
      BY <2>1, CompleteSame
  <1>. QED
    BY <1>1, <1>2, <1>3, CompleteEarly, CompleteHandler, CompleteNoWait, CompleteWaitFails,
       CompleteWait, CompleteUpdate, CompleteIo, CompleteRound, CompleteEndOfData,
       CompleteRestSend, CompleteRestRead, CompleteRestUpdate DEF Next, Worker

(* What the engine knows of a response is what the client gets of it.      *)
LEMMA CompleteIsComplete == TypeOK /\ Complete => ResponseComplete
  <1>. SUFFICES ASSUME TypeOK, Complete PROVE ResponseComplete
    OBVIOUS
  <1>1. resp \in Seq(Output) /\ DataIs(resp \o req.block, made)
    BY DEF TypeOK, Complete
  <1>2. ASSUME Finished PROVE AnswerSeen /\ DataIs(resp, made)
    <2>1. AnswerSeen /\ req.block = <<>>
      BY <1>2 DEF Complete
    <2>2. resp \o req.block = resp
      BY <1>1, <2>1, ConcatEmptySeq
    <2>. QED
      BY <1>1, <2>1, <2>2
  <1>. QED
    BY <1>1, <1>2 DEF ResponseComplete, Finished

(* The client gets the data of the service once, in order and all of them: *)
(* a request that ends with CI_OK has been answered completely, whatever   *)
(* way get_send_body, the handlers and send_remaining_response shared the  *)
(* work, for any requests, cuts of the data and sizes of chunks, when no   *)
(* service unlocks a response that it answers with 204 outside preview.    *)
THEOREM ResponsesComplete == EagerServices = FALSE => (Spec => []ResponseComplete)
  <1>. SUFFICES ASSUME EagerServices = FALSE PROVE Spec => []ResponseComplete
    OBVIOUS
  <1>1. Init => TypeOK /\ Phases /\ Complete
    BY TypeInit, PhasesInit, CompleteInit
  <1>2. TypeOK /\ Phases /\ Complete /\ [Next]_vars => (TypeOK /\ Phases /\ Complete)'
    BY TypeStep, PhasesStep, CompleteStep
  <1>3. TypeOK /\ Complete => ResponseComplete
    BY CompleteIsComplete
  <1>. QED
    BY <1>1, <1>2, <1>3, PTL DEF Spec

=============================================================================
