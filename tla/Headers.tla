------------------------------ MODULE Headers -------------------------------
(***************************************************************************)
(* Lists of headers (header.c): one buffer that holds the text, and the    *)
(* positions where headers start.  In edit mode a header ends with NUL and *)
(* LF; packed, as it is sent, with CR and LF, or as it was received.  The  *)
(* properties are about these endings, so the text is kept character by    *)
(* character, over an alphabet of letters, ":", " " and the endings; the   *)
(* memory of buffer and index always suffices.                             *)
(***************************************************************************)
EXTENDS Naturals, Sequences, FiniteSets, SequencesExt

CONSTANTS
  HdrNames,       \* names of headers: one letter each
  HdrLines,       \* lines of headers: sequences that start with a name and ":"
  MaxHdrs         \* bound: headers of a list

VARIABLES
  hdr,            \* [buf, idx, packed] of a ci_headers_list_t
  hdrOther,       \* another list in edit mode, to be added to hdr
  hdrSeq          \* ghost: the headers the list should hold

hdrVars == <<hdr, hdrOther, hdrSeq>>

CR == "CR"
LF == "LF"
NUL == "NUL"
HT == "HT"
Ends == {CR, LF, NUL}
EmptyHeaders == [buf |-> <<>>, idx |-> <<>>, packed |-> FALSE]

HeadersInit == hdr = EmptyHeaders /\ hdrOther = EmptyHeaders /\ hdrSeq = <<>>

(* headers_terminate: nothing, or a text that ends a header and is         *)
(* followed by an empty one.                                               *)
Trim(b) == LET at == {i \in DOMAIN b : b[i] \notin Ends}
           IN  IF at = {} THEN <<>> ELSE SubSeq(b, 1, CHOOSE i \in at : \A j \in at : j <= i)

Terminated(b) ==
  /\ Len(b) >= 4 /\ b[Len(b)] = LF /\ b[Len(b) - 1] = CR /\ b[Len(b) - 2] = LF
  /\ b[Len(b) - 3] \in {CR, NUL}

headers_terminate(h) ==
  IF h.idx = <<>> THEN [h EXCEPT !.buf = <<>>]
  ELSE IF Terminated(h.buf) THEN h
  ELSE [h EXCEPT !.buf = Trim(@) \o <<IF h.packed THEN CR ELSE NUL, LF, CR, LF>>]

(* What an addition starts from: the text without the empty header.        *)
Open(h) == LET b == headers_terminate(h).buf
           IN  IF h.idx = <<>> THEN b ELSE SubSeq(b, 1, Len(b) - 2)

Added(h, line) ==
  [h EXCEPT !.buf = Open(h) \o line \o <<NUL, LF, CR, LF>>, !.idx = Append(@, Len(Open(h)) + 1)]

ci_headers_add(line) ==
  /\ ~hdr.packed /\ hdr' = Added(hdr, line)
  /\ hdrSeq' = Append(hdrSeq, line) /\ UNCHANGED hdrOther

(* ci_headers_addheaders, after the caller has made the other list.        *)
OtherAdd(line) == hdrOther' = Added(hdrOther, line) /\ UNCHANGED <<hdr, hdrSeq>>

Text(h, i) ==
  LET from == h.idx[i]
      at == {k \in from..Len(h.buf) : h.buf[k] = NUL}
  IN  SubSeq(h.buf, from, (CHOOSE k \in at : \A j \in at : k <= j) - 1)

ci_headers_addheaders ==
  /\ ~hdr.packed /\ hdrOther.idx # <<>>
  /\ LET start == Len(Open(hdr))
         all == [hdr EXCEPT !.buf = Open(hdr) \o hdrOther.buf,
                            !.idx = @ \o [i \in DOMAIN hdrOther.idx |-> start + hdrOther.idx[i]]]
     IN  hdr' = headers_terminate(all)
  /\ hdrSeq' = hdrSeq \o [i \in DOMAIN hdrOther.idx |-> Text(hdrOther, i)]
  /\ hdrOther' = EmptyHeaders

(* The first header of a name, by the loop of do_header_search.            *)
Found(h, name) ==
  {i \in DOMAIN h.idx :
     /\ h.buf[h.idx[i] + 1] = ":" /\ h.buf[h.idx[i]] = name
     /\ \A j \in 1..(i - 1) : ~(h.buf[h.idx[j] + 1] = ":" /\ h.buf[h.idx[j]] = name)}

(* Mutant: the index is not shifted.                                       *)
Cut_NoShift(h, i) ==
  IF i = Len(h.idx)
  THEN [h EXCEPT !.buf = SubSeq(@, 1, h.idx[i] - 1) \o <<CR, LF>>, !.idx = Front(@)]
  ELSE [h EXCEPT !.buf = SubSeq(@, 1, h.idx[i] - 1) \o SubSeq(@, h.idx[i + 1], Len(@)), !.idx = RemoveAt(@, i)]

(* ci_headers_remove cuts the header out and shifts the index; the last    *)
(* one is overwritten by the empty header.                                 *)
Cut(h, i) ==
  IF i = Len(h.idx)
  THEN [h EXCEPT !.buf = SubSeq(@, 1, h.idx[i] - 1) \o <<CR, LF>>, !.idx = Front(@)]
  ELSE LET size == h.idx[i + 1] - h.idx[i]
       IN  [h EXCEPT !.buf = SubSeq(@, 1, h.idx[i] - 1) \o SubSeq(@, h.idx[i + 1], Len(@)),
                     !.idx = [j \in 1..(Len(@) - 1) |-> IF j < i THEN @[j] ELSE @[j + 1] - size]]

ci_headers_remove(name) ==
  /\ ~hdr.packed
  /\ LET h == headers_terminate(hdr) IN
     \E i \in Found(h, name) :
       /\ hdr' = headers_terminate(Cut(h, i))
       /\ hdrSeq' = RemoveAt(hdrSeq, i)
  /\ UNCHANGED hdrOther

(* ci_headers_pack, and ci_headers_pack_to_buffer of a copy.               *)
Packed(h) ==
  LET b == headers_terminate(h).buf
      starts == {h.idx[i] : i \in 2..Len(h.idx)}
  IN  [h EXCEPT !.packed = TRUE,
                !.buf = [k \in DOMAIN b |->
                           IF k = Len(b) - 3 THEN CR
                           ELSE IF b[k] = NUL /\ k + 1 \in starts THEN LF
                           ELSE IF b[k] = NUL /\ k + 2 \in starts THEN CR
                           ELSE b[k]]]

ci_headers_pack ==
  /\ ~hdr.packed /\ hdr.idx # <<>>
  /\ hdr' = Packed(hdr) /\ UNCHANGED <<hdrOther, hdrSeq>>

(* ci_headers_unpack of a text: the ends of headers are CR LF, or LF, that *)
(* no blank follows; they become NUL and what follows starts a header.     *)
At(b, k) == IF k <= Len(b) THEN b[k] ELSE NUL
Blank == {" ", HT}

EndOfHeader(b, k, ebuf) ==
  \/ b[k] = CR /\ At(b, k + 1) = LF /\ (k + 2 >= ebuf \/ At(b, k + 2) \notin Blank)
  \/ b[k] = LF /\ At(b, k + 1) \notin Blank /\ (k = 1 \/ b[k - 1] # CR)

ci_headers_unpack(text) ==
  LET ebuf == Len(Trim(text)) + 1
      ends == {k \in 1..(ebuf - 1) : EndOfHeader(text, k, ebuf)}
      starts == {1} \cup {IF At(text, k + 1) = LF THEN k + 2 ELSE k + 1 : k \in ends}
      b == [k \in DOMAIN text |-> IF k = ebuf \/ k \in ends THEN NUL
                                  ELSE IF text[k] = NUL THEN " " ELSE text[k]]
  IN  headers_terminate([buf |-> b, idx |-> SetToSortSeq(starts, <), packed |-> FALSE])

UnpackAgain ==
  /\ hdr.packed
  /\ hdr' = ci_headers_unpack(hdr.buf) /\ UNCHANGED <<hdrOther, hdrSeq>>

(* A text that is received: lines with their ends, and maybe the empty     *)
(* line, which the reader counts or not.                                   *)
Joined(ls, sep, last) ==
  FlattenSeq([i \in DOMAIN ls |-> ls[i] \o (IF i = Len(ls) THEN <<CR, LF>> ELSE sep)]) \o last

Receive(ls, sep, last) ==
  /\ hdr.idx = <<>>
  /\ hdr' = ci_headers_unpack(Joined(ls, sep, last))
  /\ hdrSeq' = ls /\ UNCHANGED hdrOther

ci_headers_reset ==
  /\ hdr' = EmptyHeaders /\ hdrSeq' = <<>> /\ UNCHANGED hdrOther

HeadersNext ==
  \/ \E line \in HdrLines :
       \/ Len(hdr.idx) < MaxHdrs /\ ci_headers_add(line)
       \/ Len(hdrOther.idx) < MaxHdrs /\ OtherAdd(line)
  \/ Len(hdr.idx) + Len(hdrOther.idx) <= MaxHdrs /\ ci_headers_addheaders
  \/ \E name \in HdrNames : ci_headers_remove(name)
  \/ ci_headers_pack \/ UnpackAgain \/ ci_headers_reset
  \/ \E n \in 1..MaxHdrs : \E ls \in [1..n -> HdrLines], sep \in {<<CR, LF>>, <<LF>>}, last \in {<<>>, <<CR, LF>>} :
       Receive(ls, sep, last)

(* do_header_search with the value and its end.                            *)
SkipBlanks(b, from) ==
  LET at == {k \in from..Len(b) : b[k] \notin Blank} IN CHOOSE k \in at : \A j \in at : k <= j

HeaderValue(h, i) ==
  LET from == h.idx[i] + 2
      end == IF i < Len(h.idx) THEN h.idx[i + 1] - 1 ELSE Len(h.buf)
      at == {k \in from..end : h.buf[k] \notin Ends}
      upto == IF at = {} THEN from ELSE CHOOSE k \in at : \A j \in at : j <= k
  IN  SubSeq(h.buf, SkipBlanks(h.buf, from), upto)

(***************************************************************************)
(* Properties                                                              *)
(***************************************************************************)
ValueOfLine(line) == SubSeq(line, SkipBlanks(Append(line, NUL), 3), Len(line))

(* Whatever has been received, added, appended from another list, removed, *)
(* packed and unpacked, in whatever order: the index shows the headers, in *)
(* order; the packed text is these headers, each with its end, and the     *)
(* empty header; and the value of a header that has one is found as it was *)
(* written (ci_headers_add, ci_headers_addheaders, ci_headers_remove,      *)
(* ci_headers_pack, ci_headers_unpack, do_header_search).                  *)
HeadersAreLines ==
  /\ Len(hdr.idx) = Len(hdrSeq)
  /\ ~hdr.packed => \A i \in DOMAIN hdr.idx :
       (\E k \in DOMAIN hdr.buf : k >= hdr.idx[i] /\ hdr.buf[k] = NUL) /\ Text(hdr, i) = hdrSeq[i]
  /\ hdr.idx # <<>> =>
       /\ Terminated(hdr.buf)
       /\ \E seps \in [DOMAIN hdrSeq -> {<<CR, LF>>, <<LF>>}] :
            /\ seps[Len(hdrSeq)] = <<CR, LF>>
            /\ Packed(hdr).buf = FlattenSeq([i \in DOMAIN hdrSeq |-> hdrSeq[i] \o seps[i]]) \o <<CR, LF>>
  /\ \A name \in HdrNames : \A i \in Found(hdr, name) :
       ValueOfLine(hdrSeq[i]) # <<>> => HeaderValue(hdr, i) = ValueOfLine(hdrSeq[i])
=============================================================================
