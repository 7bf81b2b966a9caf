----------------------------- MODULE BodyProofs -----------------------------
(***************************************************************************)
(* body.c: the ring buffer implements a bounded queue, and the bodies give *)
(* what they have accepted, for every size.                                *)
(***************************************************************************)
EXTENDS RingBuffer, Bodies, ProofLemmas

(* A ring that can arise: the positions lie in the memory, a full ring has equal
   positions, and what lies between them has been written. *)
RingOK(r) ==
  /\ r = Ring(r.mem, r.read_pos, r.write_pos, r.full)
  /\ r.mem \in [Positions -> Data \cup {Junk}]
  /\ r.read_pos \in Positions /\ r.write_pos \in Positions
  /\ r.full \in {0, 1}
  /\ r.full = 1 => r.read_pos = r.write_pos
  /\ \A i \in 1..Count(r) : r.mem[Wrap(r.read_pos + i - 1)] \in Data

(* A ring holds between 0 and Size units, and Contents is a sequence.      *)
LEMMA CountBounds ==
  ASSUME NEW r, RingOK(r)
  PROVE  /\ Count(r) \in 0..Size
         /\ Contents(r) \in Seq(Data) /\ Len(Contents(r)) = Count(r)
         /\ Count(r) = 0 <=> ci_ring_buf_is_empty(r)
  <1>1. Count(r) \in 0..Size
    BY RingAssumption DEF RingOK, Count, Positions
  <1>2. Contents(r) \in [1..Count(r) -> Data]
    BY DEF RingOK, Contents
  <1>3. Count(r) \in Nat
    BY <1>1, RingAssumption
  <1>4. Contents(r) \in Seq(Data) /\ Len(Contents(r)) = Count(r)
    BY <1>2, <1>3
  <1>5. Count(r) = 0 <=> ci_ring_buf_is_empty(r)
    BY RingAssumption DEF RingOK, Count, Positions, ci_ring_buf_is_empty
  <1>. QED
    BY <1>1, <1>4, <1>5

(* A block that is put into the space that ci_ring_buf_write_direct offers is
   appended to the contents, also when it fills the ring or ends at the limit. *)
LEMMA PutBlockAppends ==
  ASSUME NEW r, RingOK(r), NEW s \in Seq(Data),
         Len(s) <= ci_ring_buf_write_direct(r).len
  PROVE  /\ RingOK(PutBlock(r, s))
         /\ Contents(PutBlock(r, s)) = Contents(r) \o s
  <1>. DEFINE n == Len(s)
              m == Copied(r, s)
              w == Advance(r.write_pos, n)
              t == PutBlock(r, s)
              R == r.read_pos
              W == r.write_pos
              c == Count(r)
  <1>1. n \in Nat /\ \A i \in 1..n : s[i] \in Data
    BY LenProperties
  <1>2. CASE n = 0
    <2>1. t = r
      <3>1. m = r.mem
        <4>1. \A p \in Positions : ~(W <= p /\ p < W + n)
          BY <1>2 DEF RingOK, Positions
        <4>2. \A p \in Positions : m[p] = r.mem[p]
          BY <4>1 DEF Copied
        <4>. QED
          BY <4>2 DEF Copied, RingOK
      <3>. QED
        BY <1>2, <3>1 DEF PutBlock, ci_ring_buf_produce, RingOK
    <2>2. s = <<>>
      BY <1>2, EmptySeq
    <2>. QED
      BY <2>1, <2>2, CountBounds, ConcatEmptySeq
  <1>3. CASE n > 0
    <2>. DEFINE f == IF w = r.read_pos THEN 1 ELSE r.full
    <2>1. t = Ring(m, R, w, f) /\ t.mem = m /\ t.read_pos = R /\ t.write_pos = w /\ t.full = f
      BY <1>1, <1>3 DEF PutBlock, ci_ring_buf_produce, Ring
    <2>a. R \in 0..Size-1 /\ W \in 0..Size-1
      BY DEF RingOK, Positions
    <2>b. /\ r.full = 0
          /\ \/ R = W /\ c = 0 /\ n <= Size - W
             \/ R > W /\ c = Size - R + W /\ n <= R - W
             \/ R < W /\ c = W - R /\ n <= Size - W
      BY <1>1, <1>3, <2>a, RingAssumption
      DEF RingOK, ci_ring_buf_write_direct, ci_ring_buf_is_empty, Count
    <2>2. W + n <= Size /\ w \in Positions /\ c + n <= Size
      BY <1>1, <1>3, <2>a, <2>b, RingAssumption DEF Positions, Advance
    <2>3. Count(t) = c + n
      <3>1. Count(t) = IF f = 1 THEN Size ELSE IF w >= R THEN w - R ELSE Size - R + w
        BY <2>1 DEF Count
      <3>2. w = IF W + n > Size - 1 THEN 0 ELSE W + n
        BY DEF Advance
      <3>3. f = IF w = R THEN 1 ELSE 0
        BY <2>b
      <3>. HIDE DEF n, R, W, c, w, f, t
      <3>. QED
        BY <1>1, <1>3, <2>a, <2>b, <3>1, <3>2, <3>3, RingAssumption
    <2>4. Count(r) \in 0..Size
      BY CountBounds
    <2>5. m \in [Positions -> Data \cup {Junk}]
      <3>1. \A p \in Positions : W <= p /\ p < W + n => (p - W + 1) \in 1..n
        BY <1>1, <2>a DEF Positions
      <3>. QED
        BY <1>1, <3>1 DEF RingOK, Copied
    <2>6. \A i \in 1..c : m[Wrap(R + i - 1)] = r.mem[Wrap(R + i - 1)]
      <3>. SUFFICES ASSUME NEW i \in 1..c PROVE m[Wrap(R + i - 1)] = r.mem[Wrap(R + i - 1)]
        OBVIOUS
      <3>1. /\ Wrap(R + i - 1) \in Positions
            /\ ~(W <= Wrap(R + i - 1) /\ Wrap(R + i - 1) < W + n)
        <4>. HIDE DEF n, R, W, c
        <4>. QED
          BY <1>1, <1>3, <2>a, <2>b, <2>2, RingAssumption DEF Positions, Wrap
      <3>. QED
        BY <3>1 DEF Copied
    <2>7. \A i \in 1..n : m[Wrap(R + (c + i) - 1)] = s[i]
      <3>. SUFFICES ASSUME NEW i \in 1..n PROVE m[Wrap(R + (c + i) - 1)] = s[i]
        OBVIOUS
      <3>1. Wrap(R + (c + i) - 1) = W + i - 1
        <4>. HIDE DEF n, R, W, c
        <4>. QED
          BY <1>1, <1>3, <2>a, <2>b, <2>2, RingAssumption DEF Wrap
      <3>2. W + i - 1 \in Positions
        BY <1>1, <2>a, <2>2, RingAssumption DEF Positions
      <3>3. W <= W + i - 1 /\ W + i - 1 < W + n /\ (W + i - 1) - W + 1 = i
        BY <1>1, <2>a
      <3>. QED
        BY <3>1, <3>2, <3>3 DEF Copied
    <2>8. \A i \in 1..Count(t) : i \in 1..Count(r) \/ (i - Count(r)) \in 1..n
      BY <1>1, <2>3, <2>4, RingAssumption
    <2>9. \A i \in 1..Count(t) :
            t.mem[Wrap(t.read_pos + i - 1)] =
              IF i <= Count(r) THEN r.mem[Wrap(r.read_pos + i - 1)] ELSE s[i - Count(r)]
      <3>. SUFFICES ASSUME NEW i \in 1..Count(t)
                    PROVE m[Wrap(r.read_pos + i - 1)] =
                            IF i <= Count(r) THEN r.mem[Wrap(r.read_pos + i - 1)]
                            ELSE s[i - Count(r)]
        BY <2>1
      <3>1. CASE i <= Count(r)
        <4>1. i \in 1..Count(r)
          BY <3>1, <2>3, <2>4, <1>1, RingAssumption
        <4>. QED
          BY <3>1, <4>1, <2>6
      <3>2. CASE ~(i <= Count(r))
        <4>1. (i - Count(r)) \in 1..n /\ Count(r) + (i - Count(r)) = i
          BY <3>2, <2>3, <2>4, <1>1, RingAssumption
        <4>2. m[Wrap(r.read_pos + (Count(r) + (i - Count(r))) - 1)] = s[i - Count(r)]
          BY <4>1, <2>7
        <4>. QED
          BY <3>2, <4>1, <4>2
      <3>. QED
        BY <3>1, <3>2
    <2>10. \A i \in 1..Count(t) : t.mem[Wrap(t.read_pos + i - 1)] \in Data
      <3>. SUFFICES ASSUME NEW i \in 1..Count(t)
                    PROVE t.mem[Wrap(t.read_pos + i - 1)] \in Data
        OBVIOUS
      <3>1. CASE i \in 1..Count(r)
        BY <3>1, <2>4, <2>9, RingAssumption DEF RingOK
      <3>2. CASE i \notin 1..Count(r)
        BY <3>2, <1>1, <2>4, <2>8, <2>9, RingAssumption
      <3>. QED
        BY <3>1, <3>2
    <2>11. RingOK(t)
      <3>1. t = Ring(t.mem, t.read_pos, t.write_pos, t.full)
        BY <2>1
      <3>2. /\ t.mem \in [Positions -> Data \cup {Junk}]
            /\ t.read_pos \in Positions /\ t.write_pos \in Positions
            /\ t.full \in {0, 1} /\ (t.full = 1 => t.read_pos = t.write_pos)
        BY <2>1, <2>2, <2>5, <2>b DEF RingOK
      <3>. QED
        BY <2>10, <3>1, <3>2 DEF RingOK
    <2>12. Contents(t) \in Seq(Data) /\ Len(Contents(t)) = Count(t)
      BY <2>11, CountBounds
    <2>13. Contents(r) \in Seq(Data) /\ Len(Contents(r)) = Count(r)
      BY CountBounds
    <2>14. /\ Contents(r) \o s \in Seq(Data) /\ Len(Contents(r) \o s) = Count(r) + n
           /\ \A i \in 1..(Count(r) + n) :
                (Contents(r) \o s)[i] =
                   IF i <= Count(r) THEN Contents(r)[i] ELSE s[i - Count(r)]
      BY <2>13, ConcatProperties
    <2>15. \A i \in 1..Count(t) : Contents(t)[i] = (Contents(r) \o s)[i]
      BY <1>1, <2>3, <2>4, <2>9, <2>14, RingAssumption DEF Contents
    <2>. QED
      BY <2>3, <2>11, <2>12, <2>14, <2>15, SeqEqual
  <1>. QED
    BY <1>1, <1>2, <1>3

(* What ci_ring_buf_consume drops is the first part of the contents, and it is
   what the reader found in the block. *)
LEMMA ConsumeDrops ==
  ASSUME NEW r, RingOK(r), NEW n \in Nat, n <= ci_ring_buf_read_direct(r).len
  PROVE  /\ RingOK(ci_ring_buf_consume(r, n))
         /\ Block(r, n) \in Seq(Data) /\ Len(Block(r, n)) = n
         /\ Contents(r) = Block(r, n) \o Contents(ci_ring_buf_consume(r, n))
  <1>. DEFINE t == ci_ring_buf_consume(r, n)
              R == r.read_pos
              W == r.write_pos
              c == Count(r)
              w == Advance(R, n)
  <1>a. R \in 0..Size-1 /\ W \in 0..Size-1 /\ c \in 0..Size
    BY CountBounds DEF RingOK, Positions
  <1>b. \/ r.full = 0 /\ R = W /\ c = 0 /\ n = 0
        \/ r.full = 1 /\ R = W /\ c = Size /\ n <= Size - R
        \/ r.full = 0 /\ R > W /\ c = Size - R + W /\ n <= Size - R
        \/ r.full = 0 /\ R < W /\ c = W - R /\ n <= W - R
    BY <1>a, RingAssumption
    DEF RingOK, ci_ring_buf_read_direct, ci_ring_buf_is_empty, Count
  <1>1. n <= c /\ R + n <= Size
    <2>. HIDE DEF R, W, c
    <2>. QED
      BY <1>a, <1>b, RingAssumption
  <1>2. \A i \in 1..n : Block(r, n)[i] = Contents(r)[i] /\ Contents(r)[i] \in Data
    <2>. SUFFICES ASSUME NEW i \in 1..n
                  PROVE Block(r, n)[i] = Contents(r)[i] /\ Contents(r)[i] \in Data
      OBVIOUS
    <2>1. i \in 1..c /\ Wrap(R + i - 1) = R + i - 1
      <3>. HIDE DEF R, c
      <3>. QED
        BY <1>a, <1>1, RingAssumption DEF Wrap
    <2>2. Contents(r)[i] = r.mem[Wrap(R + i - 1)]
      BY <2>1 DEF Contents
    <2>. QED
      BY <2>1, <2>2 DEF Block, RingOK
  <1>3. Block(r, n) \in Seq(Data) /\ Len(Block(r, n)) = n
    <2>1. Block(r, n) \in [1..n -> Data]
      BY <1>2 DEF Block
    <2>. QED
      BY <2>1
  <1>4. CASE n = 0
    <2>1. t = r /\ Block(r, n) = <<>>
      BY <1>3, <1>4, EmptySeq DEF ci_ring_buf_consume
    <2>. QED
      BY <2>1, <1>3, CountBounds, ConcatEmptySeq
  <1>5. CASE n > 0
    <2>1. /\ t = Ring(r.mem, w, W, 0)
          /\ t.mem = r.mem /\ t.read_pos = w /\ t.write_pos = W /\ t.full = 0
      BY <1>5 DEF ci_ring_buf_consume, Ring
    <2>2. w = IF R + n > Size - 1 THEN 0 ELSE R + n
      BY DEF Advance
    <2>3. Count(t) = c - n /\ w \in 0..Size-1
      <3>1. Count(t) = IF W >= w THEN W - w ELSE Size - w + W
        BY <2>1 DEF Count
      <3>. HIDE DEF R, W, c, w, t
      <3>. QED
        BY <1>a, <1>b, <1>5, <2>2, <3>1, RingAssumption
    <2>4. \A i \in 1..(c - n) : Wrap(w + i - 1) = Wrap(R + (n + i) - 1)
      <3>. HIDE DEF R, W, c, w, t
      <3>. QED
        BY <1>a, <1>1, <1>5, <2>2, RingAssumption DEF Wrap
    <2>5. \A i \in 1..(c - n) : (n + i) \in 1..c
      <3>. HIDE DEF R, W, c, w, t
      <3>. QED
        BY <1>a, <1>1
    <2>6. \A i \in 1..Count(t) : /\ t.mem[Wrap(t.read_pos + i - 1)] \in Data
                                 /\ t.mem[Wrap(t.read_pos + i - 1)] = Contents(r)[n + i]
      <3>. SUFFICES ASSUME NEW i \in 1..(c - n)
                    PROVE /\ r.mem[Wrap(w + i - 1)] \in Data
                          /\ r.mem[Wrap(w + i - 1)] = Contents(r)[n + i]
        BY <2>1, <2>3
      <3>1. (n + i) \in 1..c /\ Wrap(w + i - 1) = Wrap(R + (n + i) - 1)
        BY <2>4, <2>5
      <3>2. Contents(r)[n + i] = r.mem[Wrap(R + (n + i) - 1)]
        BY <3>1 DEF Contents
      <3>3. r.mem[Wrap(R + (n + i) - 1)] \in Data
        BY <3>1 DEF RingOK
      <3>. QED
        BY <3>1, <3>2, <3>3
    <2>7. RingOK(t)
      <3>1. t = Ring(t.mem, t.read_pos, t.write_pos, t.full)
        BY <2>1
      <3>2. /\ t.mem \in [Positions -> Data \cup {Junk}]
            /\ t.read_pos \in Positions /\ t.write_pos \in Positions
            /\ t.full \in {0, 1} /\ (t.full = 1 => t.read_pos = t.write_pos)
        BY <2>1, <2>3 DEF RingOK, Positions
      <3>. QED
        BY <2>6, <3>1, <3>2 DEF RingOK
    <2>8. /\ Contents(t) \in Seq(Data) /\ Len(Contents(t)) = Count(t)
          /\ Contents(r) \in Seq(Data) /\ Len(Contents(r)) = c
      BY <2>7, CountBounds
    <2>9. /\ Block(r, n) \o Contents(t) \in Seq(Data)
          /\ Len(Block(r, n) \o Contents(t)) = n + Count(t)
          /\ \A i \in 1..(n + Count(t)) :
               (Block(r, n) \o Contents(t))[i] =
                  IF i <= n THEN Block(r, n)[i] ELSE Contents(t)[i - n]
      <3>. DEFINE a == Block(r, n)
                  b == Contents(t)
                  k == Count(t)
      <3>1. a \in Seq(Data) /\ Len(a) = n /\ b \in Seq(Data) /\ Len(b) = k
        BY <1>3, <2>8
      <3>. HIDE DEF a, b, k
      <3>2. /\ a \o b \in Seq(Data) /\ Len(a \o b) = n + k
            /\ \A i \in 1..(n + k) : (a \o b)[i] = IF i <= n THEN a[i] ELSE b[i - n]
        BY <3>1, ConcatProperties
      <3>. QED
        BY <3>2 DEF a, b, k
    <2>10. n + Count(t) = c
      <3>. HIDE DEF c, t
      <3>. QED
        BY <1>a, <2>3
    <2>11. \A i \in 1..c : (Block(r, n) \o Contents(t))[i] = Contents(r)[i]
      <3>. SUFFICES ASSUME NEW i \in 1..c
                    PROVE (Block(r, n) \o Contents(t))[i] = Contents(r)[i]
        OBVIOUS
      <3>1. CASE i <= n
        <4>1. i \in 1..n
          BY <3>1, <1>a
        <4>. QED
          BY <3>1, <4>1, <1>2, <2>9, <2>10
      <3>2. CASE ~(i <= n)
        <4>1. (i - n) \in 1..Count(t) /\ n + (i - n) = i
          <5>. HIDE DEF c, t
          <5>. QED
            BY <3>2, <1>a, <2>3
        <4>2. Contents(t)[i - n] = t.mem[Wrap(t.read_pos + (i - n) - 1)]
          BY <4>1 DEF Contents
        <4>3. t.mem[Wrap(t.read_pos + (i - n) - 1)] = Contents(r)[n + (i - n)]
          BY <4>1, <2>6
        <4>. QED
          BY <3>2, <4>1, <4>2, <4>3, <2>9, <2>10
      <3>. QED
        BY <3>1, <3>2
    <2>. QED
      BY <1>3, <2>7, <2>8, <2>9, <2>10, <2>11, SeqEqual
  <1>. QED
    BY <1>4, <1>5

(* The block that is offered lies in the memory, and it is empty only if the
   ring is full or, for a reader, empty. *)
LEMMA DirectBounds ==
  ASSUME NEW r, RingOK(r)
  PROVE  /\ ci_ring_buf_write_direct(r).len \in Nat
         /\ Count(r) < Size => ci_ring_buf_write_direct(r).len > 0
         /\ ci_ring_buf_read_direct(r).len \in Nat
         /\ Count(r) > 0 => ci_ring_buf_read_direct(r).len > 0
  BY RingAssumption, SMTT(40)
  DEF RingOK, Positions, Count, ci_ring_buf_write_direct, ci_ring_buf_read_direct,
      ci_ring_buf_is_empty

(* The two pieces of the caller's data that ci_ring_buf_write copies       *)
LEMMA Pieces ==
  ASSUME NEW s \in Seq(Data), NEW a \in Nat, NEW b \in Nat, a + b <= Len(s)
  PROVE  /\ SubSeq(s, 1, a) \in Seq(Data) /\ Len(SubSeq(s, 1, a)) = a
         /\ SubSeq(s, a + 1, a + b) \in Seq(Data) /\ Len(SubSeq(s, a + 1, a + b)) = b
  <1>1. Len(s) \in Nat /\ \A i \in 1..Len(s) : s[i] \in Data
    BY LenProperties
  <1>2. (\A i \in 1..a : s[i] \in Data) /\ (\A i \in (a + 1)..(a + b) : s[i] \in Data)
    BY <1>1
  <1>3. SubSeq(s, 1, a) \in Seq(Data) /\ Len(SubSeq(s, 1, a)) = IF 1 <= a THEN a - 1 + 1 ELSE 0
    BY <1>2, SubSeqProperties
  <1>4. /\ SubSeq(s, a + 1, a + b) \in Seq(Data)
        /\ Len(SubSeq(s, a + 1, a + b)) = IF a + 1 <= a + b THEN (a + b) - (a + 1) + 1 ELSE 0
    BY <1>2, SubSeqProperties
  <1>. QED
    BY <1>3, <1>4

(* A write of one block or of two is a step of the queue.                  *)
LEMMA PutIsPut ==
  ASSUME RingOK(ring), RingOK(ring'), moved' \in Seq(Data), size' \in Nat,
         Contents(ring') = Contents(ring) \o moved', Len(moved') <= size',
         size' > 0 /\ Count(ring) < Size => Len(moved') > 0
  PROVE  F!Put
  <1>1. Contents(ring)' = Contents(ring) \o moved'
    BY DEF Contents, Count, Wrap
  <1>2. Len(Contents(ring)') <= Size
    <2>1. Len(Contents(ring')) = Count(ring') /\ Count(ring') \in 0..Size
      BY CountBounds
    <2>. QED
      BY <1>1, <2>1, RingAssumption
  <1>3. size' > 0 /\ Len(Contents(ring)) < Size => moved' # <<>>
    BY CountBounds, EmptySeq
  <1>. QED
    BY <1>1, <1>2, <1>3 DEF F!Put

(* A read of one block or of two is a step of the queue.                   *)
LEMMA GetIsGet ==
  ASSUME RingOK(ring), RingOK(ring'), moved' \in Seq(Data), size' \in Nat,
         Contents(ring) = moved' \o Contents(ring'), Len(moved') <= size',
         size' > 0 /\ Count(ring) > 0 => Len(moved') > 0
  PROVE  F!Get
  <1>1. Contents(ring) = moved' \o Contents(ring)'
    BY DEF Contents, Count, Wrap
  <1>2. size' > 0 /\ Contents(ring) # <<>> => moved' # <<>>
    BY CountBounds, EmptySeq
  <1>. QED
    BY <1>1, <1>2 DEF F!Get

(* ci_ring_buf_write appends a first part of the caller's data, and a part that
   is not empty unless the ring is full. *)
LEMMA WritePuts ==
  ASSUME RingOK(ring), NEW s \in Seq(Data), ci_ring_buf_write(s)
  PROVE  RingOK(ring') /\ F!Put
  <1>. DEFINE d1 == ci_ring_buf_write_direct(ring)
              n1 == Smaller(Len(s), d1.len)
              s1 == SubSeq(s, 1, n1)
              r1 == PutBlock(ring, s1)
              d2 == ci_ring_buf_write_direct(r1)
              n2 == IF d1.more THEN Smaller(Len(s) - n1, d2.len) ELSE 0
              s2 == SubSeq(s, n1 + 1, n1 + n2)
  <1>1. ring' = PutBlock(r1, s2) /\ moved' = s1 \o s2 /\ size' = Len(s)
    BY DEF ci_ring_buf_write
  <1>2. Len(s) \in Nat
    BY LenProperties
  <1>3. /\ n1 \in Nat /\ n1 <= Len(s) /\ n1 <= d1.len
        /\ Len(s) > 0 /\ Count(ring) < Size => n1 > 0
    BY <1>2, DirectBounds DEF Smaller
  <1>4. s1 \in Seq(Data) /\ Len(s1) = n1
    <2>1. n1 + 0 <= Len(s)
      BY <1>2, <1>3
    <2>. HIDE DEF n1
    <2>. QED
      BY <1>3, <2>1, Pieces
  <1>5. RingOK(r1) /\ Contents(r1) = Contents(ring) \o s1
    <2>. HIDE DEF s1, n1
    <2>. QED
      BY <1>3, <1>4, PutBlockAppends
  <1>6. n2 \in Nat /\ n1 + n2 <= Len(s) /\ n2 <= d2.len
    <2>1. d2.len \in Nat
      <3>. HIDE DEF r1
      <3>. QED
        BY <1>5, DirectBounds
    <2>. HIDE DEF n1, d1, d2
    <2>. QED
      BY <1>2, <1>3, <2>1 DEF Smaller
  <1>7. s2 \in Seq(Data) /\ Len(s2) = n2
    <2>. HIDE DEF n1, n2
    <2>. QED
      BY <1>3, <1>6, Pieces
  <1>8. RingOK(ring') /\ Contents(ring') = Contents(r1) \o s2
    <2>. HIDE DEF r1, s2, n2
    <2>. QED
      BY <1>1, <1>5, <1>6, <1>7, PutBlockAppends
  <1>9. Contents(ring') = Contents(ring) \o (s1 \o s2)
    <2>1. Contents(ring) \in Seq(Data)
      BY CountBounds
    <2>. HIDE DEF r1, s1, s2
    <2>. QED
      BY <1>4, <1>5, <1>7, <1>8, <2>1, ConcatAssociative, SMTT(40)
  <1>10. s1 \o s2 \in Seq(Data) /\ Len(s1 \o s2) = n1 + n2
    <2>. HIDE DEF s1, s2, n1, n2
    <2>. QED
      BY <1>4, <1>7, ConcatProperties
  <1>11. /\ moved' \in Seq(Data) /\ size' \in Nat /\ Len(moved') <= size'
         /\ Contents(ring') = Contents(ring) \o moved'
         /\ size' > 0 /\ Count(ring) < Size => Len(moved') > 0
    <2>. HIDE DEF r1, s1, s2, n1, n2
    <2>. QED
      BY <1>1, <1>2, <1>3, <1>6, <1>9, <1>10
  <1>. QED
    BY <1>8, <1>11, PutIsPut

(* ci_ring_buf_read gives the oldest data, and some unless the ring is     *)
(* empty.                                                                  *)
LEMMA ReadGets ==
  ASSUME RingOK(ring), NEW n \in Nat, ci_ring_buf_read(n)
  PROVE  RingOK(ring') /\ F!Get
  <1>. DEFINE d1 == ci_ring_buf_read_direct(ring)
              n1 == Smaller(n, d1.len)
              b1 == Block(ring, n1)
              r1 == ci_ring_buf_consume(ring, n1)
              d2 == ci_ring_buf_read_direct(r1)
              n2 == IF d1.more THEN Smaller(n - n1, d2.len) ELSE 0
              b2 == Block(r1, n2)
  <1>1. ring' = ci_ring_buf_consume(r1, n2) /\ moved' = b1 \o b2 /\ size' = n
    BY DEF ci_ring_buf_read
  <1>2. /\ n1 \in Nat /\ n1 <= n /\ n1 <= d1.len
        /\ n > 0 /\ Count(ring) > 0 => n1 > 0
    BY DirectBounds DEF Smaller
  <1>3. /\ RingOK(r1) /\ b1 \in Seq(Data) /\ Len(b1) = n1
        /\ Contents(ring) = b1 \o Contents(r1)
    <2>. HIDE DEF n1
    <2>. QED
      BY <1>2, ConsumeDrops
  <1>4. n2 \in Nat /\ n1 + n2 <= n /\ n2 <= d2.len
    <2>1. d2.len \in Nat
      <3>. HIDE DEF r1
      <3>. QED
        BY <1>3, DirectBounds
    <2>. HIDE DEF n1, d1, d2
    <2>. QED
      BY <1>2, <2>1 DEF Smaller
  <1>5. /\ RingOK(ring') /\ b2 \in Seq(Data) /\ Len(b2) = n2
        /\ Contents(r1) = b2 \o Contents(ring')
    <2>. HIDE DEF r1, n2
    <2>. QED
      BY <1>1, <1>3, <1>4, ConsumeDrops
  <1>6. Contents(ring) = (b1 \o b2) \o Contents(ring')
    <2>1. Contents(ring') \in Seq(Data)
      BY <1>5, CountBounds
    <2>. DEFINE q == Contents(ring')
    <2>2. Contents(ring) = b1 \o (b2 \o q)
      BY <1>3, <1>5
    <2>3. (b1 \o b2) \o q = b1 \o (b2 \o q)
      <3>. HIDE DEF b1, b2, q
      <3>. QED
        BY <1>3, <1>5, <2>1, ConcatAssociative, SMTT(40) DEF q
    <2>. QED
      BY <2>2, <2>3
  <1>7. b1 \o b2 \in Seq(Data) /\ Len(b1 \o b2) = n1 + n2
    <2>. HIDE DEF b1, b2, n1, n2
    <2>. QED
      BY <1>3, <1>5, ConcatProperties
  <1>8. /\ moved' \in Seq(Data) /\ size' \in Nat /\ Len(moved') <= size'
        /\ Contents(ring) = moved' \o Contents(ring')
        /\ size' > 0 /\ Count(ring) > 0 => Len(moved') > 0
    <2>. HIDE DEF r1, b1, b2, n1, n2
    <2>. QED
      BY <1>1, <1>2, <1>4, <1>6, <1>7
  <1>. QED
    BY <1>5, <1>8, GetIsGet

(* Every call of the ring buffer keeps the ring well formed and is a step of the
   queue. *)
LEMMA RingStep ==
  ASSUME RingOK(ring), RingNext
  PROVE  RingOK(ring') /\ F!Next
  <1>1. ASSUME NEW s \in Inputs, ci_ring_buf_write(s) \/ WriteBlock(s)
        PROVE  RingOK(ring') /\ F!Put
    <2>1. s \in Seq(Data) /\ Len(s) \in Nat
      BY RingAssumption DEF Inputs
    <2>2. CASE ci_ring_buf_write(s)
      BY <2>1, <2>2, WritePuts
    <2>3. CASE WriteBlock(s)
      <3>1. /\ ring' = PutBlock(ring, s) /\ moved' = s /\ size' = Len(s)
            /\ Len(s) <= ci_ring_buf_write_direct(ring).len
        BY <2>3 DEF WriteBlock
      <3>2. RingOK(ring') /\ Contents(ring') = Contents(ring) \o s
        BY <2>1, <3>1, PutBlockAppends
      <3>. QED
        BY <2>1, <3>1, <3>2, PutIsPut
    <2>. QED
      BY <1>1, <2>2, <2>3
  <1>2. ASSUME NEW n \in 0..MaxSize, ci_ring_buf_read(n) \/ ReadBlock(n)
        PROVE  RingOK(ring') /\ F!Get
    <2>1. n \in Nat
      BY RingAssumption
    <2>2. CASE ci_ring_buf_read(n)
      BY <2>1, <2>2, ReadGets
    <2>3. CASE ReadBlock(n)
      <3>1. /\ ring' = ci_ring_buf_consume(ring, n) /\ moved' = Block(ring, n)
            /\ size' = n /\ n <= ci_ring_buf_read_direct(ring).len
        BY <2>3 DEF ReadBlock
      <3>2. /\ RingOK(ring') /\ Block(ring, n) \in Seq(Data) /\ Len(Block(ring, n)) = n
            /\ Contents(ring) = Block(ring, n) \o Contents(ring')
        BY <2>1, <3>1, ConsumeDrops
      <3>. QED
        BY <2>1, <3>1, <3>2, GetIsGet
    <2>. QED
      BY <1>2, <2>2, <2>3
  <1>. QED
    BY <1>1, <1>2 DEF RingNext, F!Next

(* What ci_ring_buf_new returns is well formed and empty.                  *)
LEMMA RingStart ==
  ASSUME RingInit
  PROVE  RingOK(ring) /\ F!Init
  <1>1. /\ ring = Ring(ring.mem, 0, 0, 0) /\ ring.mem = [p \in Positions |-> Junk]
        /\ ring.read_pos = 0 /\ ring.write_pos = 0 /\ ring.full = 0
    BY DEF RingInit, ci_ring_buf_new, Ring
  <1>2. Count(ring) = 0
    BY <1>1 DEF Count
  <1>3. RingOK(ring)
    BY <1>1, <1>2, RingAssumption DEF RingOK, Positions
  <1>4. Contents(ring) = <<>>
    BY <1>2, <1>3, CountBounds, EmptySeq
  <1>. QED
    BY <1>3, <1>4 DEF RingInit, F!Init

(* Positions of a ring buffer stay in its memory, and what can be read has been
   written, in every state that calls of it reach. *)
THEOREM RingWellFormed == RingSpec => []RingOK(ring)
  <1>1. RingInit => RingOK(ring)
    BY RingStart
  <1>2. RingOK(ring) /\ [RingNext]_ringVars => RingOK(ring)'
    <2>1. CASE RingNext
      <3>1. RingOK(ring) => RingOK(ring')
        BY <2>1, RingStep
      <3>. QED
        BY <3>1 DEF RingOK, Ring, Count, Wrap
    <2>2. CASE UNCHANGED ringVars
      BY <2>2 DEF ringVars, RingOK, Ring, Count, Wrap
    <2>. QED
      BY <2>1, <2>2
  <1>. QED
    BY <1>1, <1>2, PTL DEF RingSpec

(* A ring buffer of any size, used by any mix of ci_ring_buf_write,
   ci_ring_buf_read and blocks, implements the bounded queue of Fifo. *)
THEOREM RingFifo == RingSpec => RingIsFifo
  <1>1. RingInit => F!Init
    BY RingStart
  <1>2. RingOK(ring) /\ [RingNext]_ringVars => [F!Next]_<<Contents(ring), size, moved>>
    <2>1. CASE RingNext
      BY <2>1, RingStep
    <2>2. CASE UNCHANGED ringVars
      BY <2>2 DEF ringVars, Contents, Count, Wrap
    <2>. QED
      BY <2>1, <2>2
  <1>. QED
    BY <1>1, <1>2, RingWellFormed, PTL DEF RingSpec, RingIsFifo, F!Spec

(***************************************************************************)
(* Bodies                                                                  *)
(***************************************************************************)
BodyRecords ==
  [kind : {"membuf", "cached", "simple"}, data : Seq(Nat), endpos : Nat, readpos : Nat,
   unlocked : Nat, locked : BOOLEAN, eof : BOOLEAN, ring : BOOLEAN, ro : BOOLEAN,
   room : Nat, infile : BOOLEAN]

(* The positions of a body of each kind; a ring fills its file.            *)
PositionsOK(b) ==
  /\ b.kind = "membuf" => ~b.infile /\ ~b.ring /\ (b.locked => b.unlocked <= b.endpos)
  /\ b.kind = "cached" => /\ ~b.ring
                          /\ ~b.infile => b.room >= b.endpos
                          /\ b.locked => b.unlocked >= b.readpos
  /\ b.kind = "simple" => /\ b.room > 0 => b.endpos <= b.room /\ b.readpos <= b.room
                          /\ b.locked => ~b.ring /\ b.unlocked >= b.readpos
  /\ b.ring => b.kind = "simple" /\ b.room > 0 /\ Len(b.data) = b.room

(* How many units of a ring are still to be read, and where the k-th of    *)
(* them lies.                                                              *)
Unread(b) == IF b.endpos >= b.readpos THEN b.endpos - b.readpos
             ELSE b.room - b.readpos + b.endpos
PlaceOf(b, k) == IF b.readpos + k <= b.room THEN b.readpos + k ELSE b.readpos + k - b.room

(* What a body holds, between what was accepted and what was given.        *)
HoldsFlat(b, a, g) == b.data = a /\ b.endpos = Len(a) /\ b.readpos = Len(g)
HoldsRing(b, a, g) ==
  /\ Len(a) = Len(g) + Unread(b)
  /\ \A k \in 1..Unread(b) : a[Len(g) + k] = b.data[PlaceOf(b, k)]
PrefixOf(g, a) == Len(g) <= Len(a) /\ \A k \in 1..Len(g) : g[k] = a[k]

BodyOK(b, a, g, d) ==
  /\ b \in BodyRecords /\ a \in Seq(Nat) /\ g \in Seq(Nat) /\ d \in BOOLEAN
  /\ PositionsOK(b)
  /\ d => (b.kind = "cached" /\ b.infile) \/ b.ring
  /\ ~d => /\ IF b.ring THEN HoldsRing(b, a, g) ELSE HoldsFlat(b, a, g)
           /\ PrefixOf(g, a)

BodyInv ==
  /\ BodyOK(body, accepted, given, damaged)
  /\ next \in Nat \ {0} /\ ret \in Int
  /\ ret = CI_EOF /\ ~damaged => Len(given) = Len(accepted)

(* The front of a sequence.                                                *)
LEMMA FirstUnits ==
  ASSUME NEW s \in Seq(Nat), NEW n \in Nat
  PROVE  /\ First(s, n) \in Seq(Nat) /\ Len(First(s, n)) = Lesser(n, Len(s))
         /\ Lesser(n, Len(s)) \in 0..Len(s) /\ Lesser(n, Len(s)) <= n
         /\ \A i \in 1 .. Lesser(n, Len(s)) : First(s, n)[i] = s[i]
         /\ Len(s) <= n => First(s, n) = s
  <1>. DEFINE m == Lesser(n, Len(s))
  <1>1. m \in 0..Len(s) /\ m <= n /\ (Len(s) <= n => m = Len(s))
    BY DEF Lesser
  <1>2. First(s, n) = SubSeq(s, 1, m)
    BY DEF First
  <1>. HIDE DEF m
  <1>3. /\ SubSeq(s, 1, m) \in Seq(Nat) /\ Len(SubSeq(s, 1, m)) = m
        /\ \A i \in 1 .. m : SubSeq(s, 1, m)[i] = s[i]
    BY <1>1, SplitSeq
  <1>4. m = Len(s) => SubSeq(s, 1, m) = s
    BY <1>3
  <1>. QED
    BY <1>1, <1>2, <1>3, <1>4 DEF m

(* The numbers of new units.                                               *)
LEMMA NumbersAreUnits ==
  ASSUME NEW from \in Nat \ {0}, NEW n \in Nat
  PROVE  Numbers(from, n) \in Seq(Nat) /\ Len(Numbers(from, n)) = n
  <1>1. \A i \in 1..n : from + i - 1 \in Nat
    OBVIOUS
  <1>2. Numbers(from, n) \in [1..n -> Nat]
    BY <1>1 DEF Numbers
  <1>. QED
    BY <1>2

(* Units stored at a position of what is there, or behind it.              *)
LEMMA StoredUnits ==
  ASSUME NEW s \in Seq(Nat), NEW new \in Seq(Nat), NEW pos \in 0..Len(s)
  PROVE  /\ Store(s, pos, new) \in Seq(Nat)
         /\ Len(Store(s, pos, new)) = Larger(Len(s), pos + Len(new))
         /\ \A i \in 1 .. Larger(Len(s), pos + Len(new)) :
              Store(s, pos, new)[i] = IF i > pos /\ i <= pos + Len(new) THEN new[i - pos]
                                      ELSE s[i]
         /\ pos = Len(s) => Store(s, pos, new) = s \o new
         /\ Len(new) = 0 => Store(s, pos, new) = s
  <1>. DEFINE m == Larger(Len(s), pos + Len(new))
              t == Store(s, pos, new)
  <1>1. m \in Nat /\ m >= Len(s) /\ m >= pos + Len(new) /\ (m = Len(s) \/ m = pos + Len(new))
    BY DEF Larger
  <1>2. t = [i \in 1..m |-> IF i > pos /\ i <= pos + Len(new) THEN new[i - pos] ELSE s[i]]
    BY DEF Store
  <1>. HIDE DEF m, t
  <1>3. ASSUME NEW i \in 1..m
        PROVE  (IF i > pos /\ i <= pos + Len(new) THEN new[i - pos] ELSE s[i]) \in Nat
    <2>1. CASE i > pos /\ i <= pos + Len(new)
      <3>1. i - pos \in 1..Len(new)
        BY <2>1
      <3>. QED
        BY <2>1, <3>1
    <2>2. CASE ~(i > pos /\ i <= pos + Len(new))
      <3>1. i \in 1..Len(s)
        BY <2>2, <1>1
      <3>. QED
        BY <2>2, <3>1
    <2>. QED
      BY <2>1, <2>2
  <1>4. t \in [1..m -> Nat]
    BY <1>2, <1>3
  <1>5. t \in Seq(Nat) /\ Len(t) = m
    BY <1>1, <1>4
  <1>6. ASSUME pos = Len(s)
        PROVE  t = s \o new
    <2>1. m = Len(s) + Len(new)
      BY <1>6, <1>1
    <2>2. s \o new \in Seq(Nat) /\ Len(s \o new) = m
      BY <2>1
    <2>3. ASSUME NEW i \in 1..m
          PROVE  t[i] = (s \o new)[i]
      BY <1>2, <1>6, <2>1
    <2>. QED
      BY <1>5, <2>2, <2>3, SeqEqual
  <1>7. ASSUME Len(new) = 0
        PROVE  t = s
    <2>1. m = Len(s)
      BY <1>7, <1>1
    <2>2. \A i \in 1..m : t[i] = s[i]
      BY <1>2, <1>7
    <2>. QED
      BY <1>5, <2>1, <2>2, SeqEqual
  <1>. QED
    BY <1>2, <1>5, <1>6, <1>7 DEF m, t

(* The front of a sequence that is as long as the sequence.                *)
LEMMA AllUnits ==
  ASSUME NEW new \in Seq(Nat)
  PROVE  Len(new) \in Nat /\ First(new, Len(new)) = new
  <1>1. Len(new) \in Nat /\ Len(new) <= Len(new)
    OBVIOUS
  <1>. QED
    BY <1>1, FirstUnits

(* Units stored behind the last one are appended.                          *)
LEMMA StoredBehind ==
  ASSUME NEW s \in Seq(Nat), NEW new \in Seq(Nat)
  PROVE  /\ Store(s, Len(s), new) = s \o new /\ s \o new \in Seq(Nat)
         /\ Len(s \o new) = Len(s) + Len(new)
  <1>1. Len(s) \in 0..Len(s)
    OBVIOUS
  <1>. QED
    BY <1>1, StoredUnits, ConcatProperties

(* The fields that a write to a body leaves alone.                         *)
SameReader(b, q) ==
  /\ q \in BodyRecords /\ q.kind = b.kind /\ q.readpos = b.readpos
  /\ q.unlocked = b.unlocked /\ q.locked = b.locked /\ q.room = b.room

(* Units stored at the end of a body, and its end of data.                 *)
LEMMA StoredBody ==
  ASSUME NEW b \in BodyRecords, NEW x \in Seq(Nat), NEW n \in 0..Len(x), b.endpos <= Len(b.data)
  PROVE  /\ SameReader(b, Stored(b, x, n)) /\ Stored(b, x, n).ring = b.ring
         /\ Stored(b, x, n).infile = b.infile
         /\ Stored(b, x, n).data = Store(b.data, b.endpos, First(x, n))
         /\ Stored(b, x, n).endpos = b.endpos + n
         /\ First(x, n) \in Seq(Nat) /\ Len(First(x, n)) = n
  <1>1. First(x, n) \in Seq(Nat) /\ Len(First(x, n)) = n
    <2>1. n \in Nat /\ Lesser(n, Len(x)) = n
      BY DEF Lesser
    <2>. QED
      BY <2>1, FirstUnits
  <1>2. b.data \in Seq(Nat) /\ b.endpos \in 0..Len(b.data)
    BY DEF BodyRecords
  <1>3. Store(b.data, b.endpos, First(x, n)) \in Seq(Nat)
    BY <1>1, <1>2, StoredUnits
  <1>4. b.endpos + n \in Nat
    BY <1>2
  <1>. DEFINE s == Store(b.data, b.endpos, First(x, n))
              e == b.endpos + n
              q == [b EXCEPT !.data = s, !.endpos = e]
  <1>5. Stored(b, x, n) = q
    BY DEF Stored, BodyRecords
  <1>6. s \in Seq(Nat) /\ e \in Nat
    BY <1>3, <1>4
  <1>. HIDE DEF s, e
  <1>7. /\ SameReader(b, q) /\ q.ring = b.ring /\ q.infile = b.infile
        /\ q.data = s /\ q.endpos = e
    BY <1>6 DEF BodyRecords, SameReader
  <1>. HIDE DEF q
  <1>8. /\ SameReader(b, Stored(b, x, n)) /\ Stored(b, x, n).ring = b.ring
        /\ Stored(b, x, n).infile = b.infile
        /\ Stored(b, x, n).data = s /\ Stored(b, x, n).endpos = e
    BY <1>5, <1>7
  <1>. QED
    BY <1>1, <1>8 DEF s, e

(* A write that only changes the end of data.                              *)
LEMMA EndedBody ==
  ASSUME NEW b \in BodyRecords, NEW e \in BOOLEAN
  PROVE  LET q == [b EXCEPT !.eof = e]
         IN  /\ SameReader(b, q) /\ q.ring = b.ring /\ q.infile = b.infile
             /\ q.data = b.data /\ q.endpos = b.endpos
  BY DEF BodyRecords, SameReader

(* What a reader has when r more units are read from position pos, and the *)
(* reader of a body at another position.                                   *)
Gave(g, s, pos, r) == g \o SubSeq(s, pos + 1, pos + r)
Moved(b, n) == [b EXCEPT !.readpos = n]

(* Units that are read from position pos.                                  *)
LEMMA UnitsGiven ==
  ASSUME NEW s \in Seq(Nat), NEW g \in Seq(Nat), NEW pos \in Nat, NEW r \in Nat,
         r = 0 \/ pos + r <= Len(s)
  PROVE  /\ Gave(g, s, pos, r) \in Seq(Nat) /\ Len(Gave(g, s, pos, r)) = Len(g) + r
         /\ \A k \in 1..Len(g) : Gave(g, s, pos, r)[k] = g[k]
         /\ \A k \in 1..r : Gave(g, s, pos, r)[Len(g) + k] = s[pos + k]
  <1>. DEFINE x == SubSeq(s, pos + 1, pos + r)
  <1>1. x \in Seq(Nat) /\ Len(x) = r /\ \A k \in 1..r : x[k] = s[pos + k]
    <2>1. CASE r = 0
      <3>1. x = <<>>
        BY <2>1
      <3>. QED
        BY <2>1, <3>1
    <2>2. CASE r # 0
      <3>1. pos + 1 \in 1 .. Len(s) + 1 /\ pos + r \in pos .. Len(s)
        BY <2>2
      <3>2. x \in Seq(Nat) /\ Len(x) = r
        BY <3>1
      <3>3. \A k \in 1..r : x[k] = s[pos + k]
        BY <3>1
      <3>. QED
        BY <3>2, <3>3
    <2>. QED
      BY <2>1, <2>2
  <1>. HIDE DEF x
  <1>2. g \o x \in Seq(Nat) /\ Len(g \o x) = Len(g) + r
    BY <1>1, ConcatProperties
  <1>3. /\ \A k \in 1..Len(g) : (g \o x)[k] = g[k]
        /\ \A k \in 1..r : (g \o x)[Len(g) + k] = x[k]
    BY <1>1, ConcatProperties
  <1>. QED
    BY <1>1, <1>2, <1>3 DEF x, Gave

(* A body that differs only in flags and locks keeps what it holds.        *)
LEMMA FlagsKeep ==
  ASSUME NEW b, NEW a, NEW g, NEW d, BodyOK(b, a, g, d),
         NEW q \in BodyRecords, q.data = b.data, q.endpos = b.endpos, q.readpos = b.readpos,
         q.ring = b.ring, q.room = b.room, PositionsOK(q),
         d => (q.kind = "cached" /\ q.infile) \/ q.ring
  PROVE  BodyOK(q, a, g, d)
  BY DEF BodyOK, HoldsFlat, HoldsRing, Unread, PlaceOf

(* The reader of a body at another position.                               *)
LEMMA ReaderMoves ==
  ASSUME NEW b \in BodyRecords, NEW n \in Nat
  PROVE  /\ Moved(b, n) \in BodyRecords
         /\ Moved(b, n).kind = b.kind /\ Moved(b, n).data = b.data
         /\ Moved(b, n).endpos = b.endpos /\ Moved(b, n).readpos = n
         /\ Moved(b, n).unlocked = b.unlocked /\ Moved(b, n).locked = b.locked
         /\ Moved(b, n).ring = b.ring /\ Moved(b, n).room = b.room
         /\ Moved(b, n).infile = b.infile
  BY DEF BodyRecords, Moved

(* A read from a body that is no ring.                                     *)
FlatRead(b, r) ==
  /\ ~b.ring /\ r \in Nat /\ (r = 0 \/ b.readpos + r <= Len(b.data))
  /\ b.locked /\ b.kind # "membuf" => b.readpos + r <= b.unlocked

(* Such a read gives the next units of what was accepted.                  *)
LEMMA ReadFlat ==
  ASSUME NEW b, NEW a, NEW g, NEW d, BodyOK(b, a, g, d), NEW r, FlatRead(b, r)
  PROVE  BodyOK(Moved(b, b.readpos + r), a, Gave(g, b.data, b.readpos, r), d)
  <1>0. ~b.ring /\ r \in Nat
    BY DEF FlatRead
  <1>. DEFINE h == Gave(g, b.data, b.readpos, r)
              q == Moved(b, b.readpos + r)
  <1>1. b \in BodyRecords /\ a \in Seq(Nat) /\ g \in Seq(Nat) /\ d \in BOOLEAN /\ PositionsOK(b)
    BY DEF BodyOK
  <1>2. b.data \in Seq(Nat) /\ b.readpos \in Nat /\ b.endpos \in Nat
    BY <1>1 DEF BodyRecords
  <1>3. /\ h \in Seq(Nat) /\ Len(h) = Len(g) + r
        /\ \A k \in 1..Len(g) : h[k] = g[k]
        /\ \A k \in 1..r : h[Len(g) + k] = b.data[b.readpos + k]
    <2>1. g \in Seq(Nat) /\ b.data \in Seq(Nat) /\ b.readpos \in Nat
      BY <1>1, <1>2
    <2>2. r = 0 \/ b.readpos + r <= Len(b.data)
      BY DEF FlatRead
    <2>. QED
      BY <1>0, <2>1, <2>2, UnitsGiven, ZenonT(40)
  <1>. HIDE DEF h
  <1>n. b.readpos + r \in Nat
    BY <1>0, <1>2
  <1>4. /\ q \in BodyRecords
        /\ q.kind = b.kind /\ q.data = b.data /\ q.endpos = b.endpos
        /\ q.readpos = b.readpos + r /\ q.unlocked = b.unlocked
        /\ q.locked = b.locked /\ q.ring = b.ring /\ q.room = b.room
        /\ q.infile = b.infile
    BY <1>1, <1>2, <1>n, ReaderMoves, Zenon
  <1>. HIDE DEF q
  <1>5. ~d => HoldsFlat(b, a, g) /\ PrefixOf(g, a)
    BY <1>0 DEF BodyOK
  <1>l. Len(g) \in Nat /\ Len(a) \in Nat /\ Len(b.data) \in Nat
    BY <1>1, <1>2
  <1>6. ~d => HoldsFlat(q, a, h)
    BY <1>3, <1>4, <1>5 DEF HoldsFlat
  <1>7. ASSUME ~d
        PROVE  PrefixOf(h, a)
    <2>1. Len(g) = b.readpos /\ a = b.data /\ Len(g) <= Len(a) /\ \A k \in 1..Len(g) : g[k] = a[k]
      BY <1>5, <1>7 DEF HoldsFlat, PrefixOf
    <2>2. r = 0 \/ b.readpos + r <= Len(b.data)
      BY DEF FlatRead
    <2>3. Len(h) <= Len(a)
      BY <2>1, <2>2, <1>0, <1>3, <1>l
    <2>4. ASSUME NEW k \in 1..Len(h)
          PROVE  h[k] = a[k]
      <3>1. CASE k <= Len(g)
        BY <3>1, <1>3, <1>l, <2>1
      <3>2. CASE k > Len(g)
        <4>. DEFINE j == k - Len(g)
        <4>1. j \in 1..r /\ k = Len(g) + j
          BY <3>2, <1>0, <1>3, <1>l
        <4>. HIDE DEF j
        <4>. QED
          BY <4>1, <2>1, <1>3
      <3>. QED
        BY <3>1, <3>2, <1>l
    <2>. QED
      BY <2>3, <2>4 DEF PrefixOf
  <1>8. PositionsOK(q)
    <2>1. b.kind = "simple" => ~d
      BY <1>0 DEF BodyOK
    <2>2. b.kind = "simple" => q.readpos <= q.endpos
      BY <2>1, <1>0, <1>2, <1>4, <1>5, <1>l DEF HoldsFlat, PrefixOf, FlatRead
    <2>3. b.unlocked \in Nat /\ b.room \in Nat
      BY <1>1 DEF BodyRecords
    <2>. QED
      BY <2>2, <2>3, <1>0, <1>1, <1>2, <1>4 DEF PositionsOK, FlatRead
  <1>. QED
    BY <1>0, <1>1, <1>3, <1>4, <1>6, <1>7, <1>8 DEF BodyOK, h, q

(* A ring b whose reader moves from pos on by r units is q.                *)
RingRead(b, pos, r, q) ==
  /\ b \in BodyRecords /\ b.room > 0 /\ b.endpos <= b.room /\ b.readpos <= b.room
  /\ b.readpos # b.endpos
  /\ pos \in Nat /\ pos = (IF b.readpos = b.room THEN 0 ELSE b.readpos)
  /\ ~(pos = 0 /\ b.endpos = 0)
  /\ r \in Nat /\ r > 0
  /\ r <= IF b.endpos > pos THEN b.endpos - pos ELSE b.room - pos
  /\ q \in BodyRecords /\ q.readpos = pos + r /\ q.endpos = b.endpos /\ q.room = b.room

(* The places of unread units when a ring's reader moves on by r.          *)
LEMMA PlacesRead ==
  ASSUME NEW b, NEW pos, NEW r, NEW q, RingRead(b, pos, r, q)
  PROVE  /\ Unread(b) \in Nat /\ r <= Unread(b) /\ Unread(q) = Unread(b) - r
         /\ q.readpos <= q.room
         /\ \A k \in 1..r : PlaceOf(b, k) = pos + k
         /\ \A k \in 1..Unread(q) : PlaceOf(q, k) = PlaceOf(b, r + k)
  <1>. b.endpos \in Nat /\ b.readpos \in Nat /\ b.room \in Nat
    BY DEF BodyRecords, RingRead
  <1>1. CASE b.readpos = b.room
    BY <1>1 DEF Unread, PlaceOf, RingRead
  <1>2. CASE b.readpos # b.room
    BY <1>2 DEF Unread, PlaceOf, RingRead
  <1>. QED
    BY <1>1, <1>2

(* A read from a ring, which may take old data for new.                    *)
RingReads(b, pos, r) ==
  /\ b.ring /\ b.readpos # b.endpos
  /\ pos \in Nat /\ pos = (IF b.readpos = b.room THEN 0 ELSE b.readpos)
  /\ r \in Nat /\ r > 0
  /\ r <= IF b.endpos > pos THEN b.endpos - pos ELSE b.room - pos

(* Unless it does, it gives the next units of what was accepted.           *)
LEMMA ReadRing ==
  ASSUME NEW b, NEW a, NEW g, NEW d, BodyOK(b, a, g, d), NEW pos, NEW r, RingReads(b, pos, r)
  PROVE  BodyOK(Moved(b, pos + r), a, Gave(g, b.data, pos, r), d \/ (pos = 0 /\ b.endpos = 0))
  <1>0. b.ring /\ pos \in Nat /\ r \in Nat /\ r > 0 /\ b.readpos # b.endpos
    BY DEF RingReads
  <1>. DEFINE h == Gave(g, b.data, pos, r)
              q == Moved(b, pos + r)
              e == d \/ (pos = 0 /\ b.endpos = 0)
  <1>1. b \in BodyRecords /\ a \in Seq(Nat) /\ g \in Seq(Nat) /\ d \in BOOLEAN /\ PositionsOK(b)
    BY DEF BodyOK
  <1>2. /\ b.data \in Seq(Nat) /\ b.readpos \in Nat /\ b.endpos \in Nat /\ b.room \in Nat
        /\ b.kind = "simple" /\ b.room > 0 /\ Len(b.data) = b.room
        /\ b.endpos <= b.room /\ b.readpos <= b.room /\ ~b.locked
    BY <1>0, <1>1 DEF BodyRecords, PositionsOK
  <1>3. pos + r <= Len(b.data) /\ (r = 0 \/ pos + r <= Len(b.data))
    BY <1>2 DEF RingReads
  <1>4. /\ h \in Seq(Nat) /\ Len(h) = Len(g) + r
        /\ \A k \in 1..Len(g) : h[k] = g[k]
        /\ \A k \in 1..r : h[Len(g) + k] = b.data[pos + k]
    <2>1. g \in Seq(Nat) /\ b.data \in Seq(Nat) /\ pos \in Nat /\ r \in Nat
      BY <1>0, <1>1, <1>2
    <2>2. r = 0 \/ pos + r <= Len(b.data)
      BY <1>3
    <2>. QED
      BY <2>1, <2>2, UnitsGiven
  <1>. HIDE DEF h
  <1>n. pos + r \in Nat
    BY <1>0
  <1>5. /\ q \in BodyRecords
        /\ q.kind = b.kind /\ q.data = b.data /\ q.endpos = b.endpos
        /\ q.readpos = pos + r /\ q.locked = b.locked
        /\ q.ring = b.ring /\ q.room = b.room
    BY <1>1, <1>2, <1>n, ReaderMoves, Zenon
  <1>. HIDE DEF q
  <1>6. PositionsOK(q)
    BY <1>0, <1>2, <1>3, <1>5 DEF PositionsOK
  <1>7. ASSUME ~e
        PROVE  HoldsRing(q, a, h) /\ PrefixOf(h, a)
    <2>1. HoldsRing(b, a, g) /\ PrefixOf(g, a)
      BY <1>0, <1>7 DEF BodyOK
    <2>2. /\ Unread(b) \in Nat /\ r <= Unread(b) /\ Unread(q) = Unread(b) - r
          /\ \A k \in 1..r : PlaceOf(b, k) = pos + k
          /\ \A k \in 1..Unread(q) : PlaceOf(q, k) = PlaceOf(b, r + k)
      <3>1. RingRead(b, pos, r, q)
        BY <1>1, <1>2, <1>5, <1>7 DEF RingRead, RingReads
      <3>. QED
        BY <3>1, PlacesRead
    <2>3. /\ Len(a) = Len(g) + Unread(b)
          /\ \A k \in 1..Unread(b) : a[Len(g) + k] = b.data[PlaceOf(b, k)]
          /\ \A k \in 1..Len(g) : g[k] = a[k]
      BY <2>1 DEF HoldsRing, PrefixOf
    <2>4. Len(a) = Len(h) + Unread(q) /\ Len(h) <= Len(a)
      <3>1. Len(a) \in Nat /\ Len(g) \in Nat /\ r \in Nat
        BY <1>0, <1>1
      <3>. QED
        BY <3>1, <2>2, <2>3, <1>4
    <2>5. ASSUME NEW k \in 1..Unread(q)
          PROVE  a[Len(h) + k] = q.data[PlaceOf(q, k)]
      <3>1. r + k \in 1..Unread(b) /\ Len(h) + k = Len(g) + (r + k)
        BY <2>2, <1>0, <1>1, <1>4
      <3>. QED
        BY <3>1, <2>2, <2>3, <1>5
    <2>6. ASSUME NEW k \in 1..Len(h)
          PROVE  h[k] = a[k]
      <3>1. CASE k <= Len(g)
        BY <3>1, <1>1, <1>4, <2>3, SMTT(40)
      <3>2. CASE k > Len(g)
        <4>. DEFINE j == k - Len(g)
        <4>0. Len(g) \in Nat
          BY <1>1
        <4>1. j \in 1..r /\ k = Len(g) + j
          BY <3>2, <4>0, <1>0, <1>4
        <4>. HIDE DEF j
        <4>2. j \in 1..Unread(b)
          BY <4>1, <1>0, <2>2
        <4>. QED
          BY <4>1, <4>2, <2>2, <2>3, <1>4
      <3>. QED
        BY <3>1, <3>2, <1>1
    <2>. QED
      BY <2>4, <2>5, <2>6 DEF HoldsRing, PrefixOf
  <1>. QED
    BY <1>0, <1>1, <1>4, <1>5, <1>2, <1>6, <1>7 DEF BodyOK, h, q, e

(* Units behind the end of a body that is no ring.                         *)
FlatWrite(b, x, q) ==
  /\ ~b.ring /\ x \in Seq(Nat)
  /\ q \in BodyRecords
  /\ q.kind = b.kind /\ q.data = b.data \o x /\ q.endpos = b.endpos + Len(x)
  /\ q.readpos = b.readpos /\ q.unlocked = b.unlocked /\ q.locked = b.locked
  /\ q.ring = b.ring /\ q.room = b.room /\ (b.kind = "membuf" => q.infile = b.infile)
  /\ b.kind = "cached" /\ ~q.infile => q.endpos <= b.room
  /\ b.kind = "simple" /\ b.room > 0 => q.endpos <= b.room

(* They are appended to what was accepted.                                 *)
LEMMA WriteFlat ==
  ASSUME NEW b, NEW a, NEW g, BodyOK(b, a, g, FALSE), NEW x, NEW q, FlatWrite(b, x, q)
  PROVE  BodyOK(q, a \o x, g, FALSE)
  <1>1. /\ b \in BodyRecords /\ a \in Seq(Nat) /\ g \in Seq(Nat) /\ PositionsOK(b)
        /\ HoldsFlat(b, a, g) /\ PrefixOf(g, a)
    BY DEF BodyOK, FlatWrite
  <1>2. x \in Seq(Nat)
    BY DEF FlatWrite
  <1>3. /\ a \o x \in Seq(Nat) /\ Len(a \o x) = Len(a) + Len(x)
        /\ \A k \in 1..Len(a) : (a \o x)[k] = a[k]
    BY <1>1, <1>2, ConcatProperties
  <1>4. PositionsOK(q)
    <2>1. /\ b.endpos \in Nat /\ b.readpos \in Nat /\ b.room \in Nat /\ b.unlocked \in Nat
          /\ Len(x) \in Nat
      BY <1>1, <1>2 DEF BodyRecords
    <2>. QED
      BY <1>1, <2>1 DEF PositionsOK, FlatWrite
  <1>5. HoldsFlat(q, a \o x, g)
    BY <1>1, <1>3 DEF HoldsFlat, FlatWrite
  <1>6. PrefixOf(g, a \o x)
    <2>1. Len(g) \in Nat /\ Len(a) \in Nat /\ Len(x) \in Nat
      BY <1>1, <1>2
    <2>. QED
      BY <1>1, <1>3, <2>1 DEF PrefixOf
  <1>7. q \in BodyRecords /\ ~q.ring
    BY DEF FlatWrite
  <1>. QED
    BY <1>1, <1>3, <1>4, <1>5, <1>6, <1>7 DEF BodyOK

(* At the limit the end of a simple file goes back to the beginning.       *)
LEMMA EnterRing ==
  ASSUME NEW b, NEW a, NEW g, NEW d, BodyOK(b, a, g, d), b.kind = "simple", EntersRing(b),
         NEW q \in BodyRecords, q.kind = b.kind, q.data = b.data, q.endpos = 0,
         q.readpos = b.readpos, q.locked = b.locked, q.ring = TRUE, q.room = b.room
  PROVE  BodyOK(q, a, g, d)
  <1>1. b \in BodyRecords /\ a \in Seq(Nat) /\ g \in Seq(Nat) /\ d \in BOOLEAN /\ PositionsOK(b)
    BY DEF BodyOK
  <1>2. /\ b.endpos \in Nat /\ b.readpos \in Nat /\ b.room \in Nat /\ b.data \in Seq(Nat)
        /\ b.endpos = b.room /\ b.readpos <= b.room /\ b.readpos # 0 /\ ~b.locked /\ b.room > 0
    BY <1>1 DEF BodyRecords, EntersRing, PositionsOK
  <1>3. Len(b.data) = b.room
    <2>1. CASE b.ring
      BY <2>1, <1>1 DEF PositionsOK
    <2>2. CASE ~b.ring
      BY <2>2, <1>2 DEF BodyOK, HoldsFlat
    <2>. QED
      BY <2>1, <2>2
  <1>4. PositionsOK(q)
    BY <1>2, <1>3 DEF PositionsOK
  <1>5. Unread(q) = b.room - b.readpos /\ Unread(b) = b.room - b.readpos
    BY <1>2 DEF Unread
  <1>6. \A k : PlaceOf(q, k) = PlaceOf(b, k)
    BY DEF PlaceOf
  <1>7. ASSUME ~d
        PROVE  HoldsRing(q, a, g) /\ PrefixOf(g, a)
    <2>1. PrefixOf(g, a)
      BY <1>7 DEF BodyOK
    <2>2. CASE b.ring
      BY <2>1, <2>2, <1>5, <1>6, <1>7 DEF BodyOK, HoldsRing
    <2>3. CASE ~b.ring
      <3>1. a = b.data /\ Len(g) = b.readpos
        BY <2>3, <1>7 DEF BodyOK, HoldsFlat
      <3>2. Len(a) = Len(g) + Unread(q)
        BY <3>1, <1>2, <1>3, <1>5
      <3>3. \A k \in 1..Unread(q) : PlaceOf(q, k) = Len(g) + k
        BY <3>1, <1>2, <1>5 DEF PlaceOf
      <3>. QED
        BY <2>1, <3>1, <3>2, <3>3 DEF HoldsRing
    <2>. QED
      BY <2>2, <2>3
  <1>. QED
    BY <1>1, <1>4, <1>7 DEF BodyOK

(* Where units that are written to a ring lie among the unread ones.       *)
RingWrite(b, n, q) ==
  /\ b \in BodyRecords /\ b.room > 0 /\ b.endpos <= b.room /\ b.readpos <= b.room
  /\ n \in Nat
  /\ n <= IF b.endpos < b.readpos THEN b.readpos - b.endpos - 1 ELSE b.room - b.endpos
  /\ q \in BodyRecords /\ q.readpos = b.readpos /\ q.endpos = b.endpos + n /\ q.room = b.room

(* The unread units stay where they are, and the new ones follow them.     *)
LEMMA PlacesWritten ==
  ASSUME NEW b, NEW n, NEW q, RingWrite(b, n, q)
  PROVE  /\ Unread(b) \in Nat /\ Unread(q) = Unread(b) + n /\ q.endpos <= q.room
         /\ \A k \in 1..Unread(b) :
              /\ PlaceOf(q, k) = PlaceOf(b, k) /\ PlaceOf(b, k) \in 1..b.room
              /\ ~(PlaceOf(b, k) > b.endpos /\ PlaceOf(b, k) <= b.endpos + n)
         /\ \A k \in 1..n : PlaceOf(q, Unread(b) + k) = b.endpos + k
  <1>. b.endpos \in Nat /\ b.readpos \in Nat /\ b.room \in Nat
    BY DEF BodyRecords, RingWrite
  <1>1. CASE b.endpos < b.readpos
    BY <1>1 DEF Unread, PlaceOf, RingWrite
  <1>2. CASE b.endpos >= b.readpos
    BY <1>2 DEF Unread, PlaceOf, RingWrite
  <1>. QED
    BY <1>1, <1>2

(* A write to a ring.                                                      *)
LEMMA WriteRing ==
  ASSUME NEW b, NEW a, NEW g, NEW d, BodyOK(b, a, g, d), NEW x, NEW q,
         b.ring, x \in Seq(Nat), RingWrite(b, Len(x), q),
         q.kind = b.kind, q.data = Store(b.data, b.endpos, x), q.locked = b.locked,
         q.ring = b.ring
  PROVE  BodyOK(q, a \o x, g, d)
  <1>1. b \in BodyRecords /\ a \in Seq(Nat) /\ g \in Seq(Nat) /\ d \in BOOLEAN /\ PositionsOK(b)
    BY DEF BodyOK
  <1>2. /\ b.endpos \in Nat /\ b.readpos \in Nat /\ b.room \in Nat /\ b.data \in Seq(Nat)
        /\ Len(b.data) = b.room /\ b.kind = "simple" /\ ~b.locked /\ b.room > 0
        /\ b.readpos <= b.room /\ b.endpos \in 0..Len(b.data) /\ Len(x) \in Nat
    BY <1>1 DEF BodyRecords, PositionsOK, RingWrite
  <1>3. /\ Unread(b) \in Nat /\ Unread(q) = Unread(b) + Len(x) /\ q.endpos <= q.room
        /\ \A k \in 1..Unread(b) :
             /\ PlaceOf(q, k) = PlaceOf(b, k) /\ PlaceOf(b, k) \in 1..b.room
             /\ ~(PlaceOf(b, k) > b.endpos /\ PlaceOf(b, k) <= b.endpos + Len(x))
        /\ \A k \in 1..Len(x) : PlaceOf(q, Unread(b) + k) = b.endpos + k
    BY PlacesWritten
  <1>4. q \in BodyRecords /\ q.readpos = b.readpos /\ q.endpos = b.endpos + Len(x) /\ q.room = b.room
    BY DEF RingWrite
  <1>5. Larger(Len(b.data), b.endpos + Len(x)) = b.room
    BY <1>2, <1>3, <1>4 DEF Larger
  <1>6. /\ Len(q.data) = b.room
        /\ \A i \in 1..b.room : q.data[i] = IF i > b.endpos /\ i <= b.endpos + Len(x)
                                            THEN x[i - b.endpos] ELSE b.data[i]
    <2>1. /\ Len(Store(b.data, b.endpos, x)) = Larger(Len(b.data), b.endpos + Len(x))
          /\ \A i \in 1 .. Larger(Len(b.data), b.endpos + Len(x)) :
               Store(b.data, b.endpos, x)[i] = IF i > b.endpos /\ i <= b.endpos + Len(x)
                                               THEN x[i - b.endpos] ELSE b.data[i]
      <3>1. b.data \in Seq(Nat) /\ b.endpos \in 0..Len(b.data)
        BY <1>2
      <3>. QED
        BY <3>1, StoredUnits, Zenon
    <2>. QED
      BY <2>1, <1>5
  <1>7. PositionsOK(q)
    BY <1>2, <1>3, <1>4, <1>6 DEF PositionsOK
  <1>8. /\ a \o x \in Seq(Nat) /\ Len(a \o x) = Len(a) + Len(x)
        /\ \A k \in 1..Len(a) : (a \o x)[k] = a[k]
        /\ \A k \in 1..Len(x) : (a \o x)[Len(a) + k] = x[k]
    BY <1>1, ConcatProperties
  <1>l. Len(a) \in Nat /\ Len(g) \in Nat
    BY <1>1
  <1>9. ASSUME ~d
        PROVE  HoldsRing(q, a \o x, g) /\ PrefixOf(g, a \o x)
    <2>1. /\ Len(a) = Len(g) + Unread(b)
          /\ \A k \in 1..Unread(b) : a[Len(g) + k] = b.data[PlaceOf(b, k)]
          /\ Len(g) <= Len(a) /\ \A k \in 1..Len(g) : g[k] = a[k]
      BY <1>9 DEF BodyOK, HoldsRing, PrefixOf
    <2>2. PrefixOf(g, a \o x)
      BY <2>1, <1>2, <1>8, <1>l DEF PrefixOf
    <2>3. Len(a \o x) = Len(g) + Unread(q)
      BY <2>1, <1>2, <1>3, <1>8, <1>l
    <2>4. ASSUME NEW k \in 1..Unread(q)
          PROVE  (a \o x)[Len(g) + k] = q.data[PlaceOf(q, k)]
      <3>0. /\ Unread(b) \in Nat /\ Unread(q) = Unread(b) + Len(x) /\ Len(x) \in Nat
            /\ Len(a) = Len(g) + Unread(b) /\ Len(g) \in Nat
        BY <1>2, <1>3, <1>l, <2>1
      <3>k. k \in Nat /\ 1 <= k /\ k <= Unread(b) + Len(x)
        BY <3>0
      <3>1. CASE k <= Unread(b)
        <4>1. k \in 1..Unread(b) /\ Len(g) + k \in 1..Len(a)
          BY <3>1, <1>3, <1>l, <2>1
        <4>2. q.data[PlaceOf(q, k)] = b.data[PlaceOf(b, k)]
          BY <4>1, <1>3, <1>6
        <4>. QED
          BY <4>1, <4>2, <1>8, <2>1
      <3>2. CASE k > Unread(b)
        <4>. DEFINE j == k - Unread(b)
        <4>1. j \in 1..Len(x) /\ k = Unread(b) + j /\ Len(g) + k = Len(a) + j
          BY <3>0, <3>k, <3>2
        <4>. HIDE DEF j
        <4>2. PlaceOf(q, k) = b.endpos + j
          BY <4>1, <1>3
        <4>3. /\ b.endpos + j \in 1..b.room /\ b.endpos + j > b.endpos
              /\ b.endpos + j <= b.endpos + Len(x) /\ (b.endpos + j) - b.endpos = j
          <5>1. /\ b.endpos \in Nat /\ b.room \in Nat /\ b.endpos + Len(x) <= b.room
                /\ j \in 1..Len(x) /\ Len(x) \in Nat
            BY <4>1, <1>2, <1>3, <1>4
          <5>. QED
            BY <5>1, SMTT(40)
        <4>4. q.data[b.endpos + j] = x[j]
          BY <4>3, <1>6
        <4>. QED
          BY <4>1, <4>2, <4>4, <1>8
      <3>. QED
        BY <3>0, <3>k, <3>1, <3>2
    <2>. QED
      BY <2>2, <2>3, <2>4 DEF HoldsRing
  <1>. QED
    BY <1>1, <1>4, <1>7, <1>8, <1>9 DEF BodyOK

(* A reader at the end has been given everything.                          *)
LEMMA AllGivenAtEnd ==
  ASSUME BodyInv, AtEnd, ~damaged
  PROVE  Len(given) = Len(accepted)
  <1>1. /\ BodyOK(body, accepted, given, damaged) /\ body \in BodyRecords
        /\ accepted \in Seq(Nat) /\ given \in Seq(Nat)
    BY DEF BodyInv, BodyOK
  <1>2. body.endpos \in Nat /\ Len(given) \in Nat /\ Len(accepted) \in Nat
    BY <1>1 DEF BodyRecords
  <1>. QED
    BY <1>1, <1>2 DEF BodyOK, AtEnd, HoldsFlat, HoldsRing, Unread

(* A call that only returns.                                               *)
LEMMA ReturnKeeps ==
  ASSUME BodyInv, NEW r \in Int, Returns(r), next' \in Nat \ {0}, r = CI_EOF => AtEnd
  PROVE  BodyInv'
  <1>1. BodyOK(body, accepted, given, damaged)'
    BY DEF BodyInv, Returns
  <1>2. ret' = r /\ damaged' = damaged /\ given' = given /\ accepted' = accepted
    BY DEF Returns
  <1>. QED
    BY <1>1, <1>2, AllGivenAtEnd DEF BodyInv

(* A read that moves a reader who is in no ring.                           *)
LEMMA ReadFlatKeeps ==
  ASSUME BodyInv, NEW r, FlatRead(body, r), ReadFrom(body.readpos, r), damaged' = damaged
  PROVE  BodyInv'
  <1>1. /\ body' = Moved(body, body.readpos + r)
        /\ given' = Gave(given, body.data, body.readpos, r)
        /\ accepted' = accepted /\ next' = next /\ ret' = r
    BY DEF ReadFrom, Moved, Gave
  <1>2. r \in Nat /\ CI_EOF = -2
    BY DEF FlatRead, CI_EOF
  <1>3. BodyOK(Moved(body, body.readpos + r), accepted,
               Gave(given, body.data, body.readpos, r), damaged)
    BY ReadFlat DEF BodyInv
  <1>. QED
    BY <1>1, <1>2, <1>3 DEF BodyInv

(* A read of a membuf, locked or not, keeps the invariant.                 *)
LEMMA MembufRead ==
  ASSUME BodyInv, NEW len \in Nat, ci_membuf_read(len)
  PROVE  BodyInv'
  <1>1. CASE AtEnd /\ body.eof
    <2>1. Returns(CI_EOF) /\ next' = next /\ CI_EOF \in Int
      BY <1>1 DEF ci_membuf_read, CI_EOF
    <2>. QED
      BY <1>1, <2>1, ReturnKeeps DEF BodyInv
  <1>2. CASE ~(AtEnd /\ body.eof)
    <2>. DEFINE remains == IF body.locked THEN Larger(body.unlocked - body.readpos, 0)
                           ELSE body.endpos - body.readpos
                r == Lesser(len, remains)
    <2>1. ReadFrom(body.readpos, r) /\ damaged' = damaged /\ body.kind = "membuf"
      BY <1>2 DEF ci_membuf_read
    <2>2. /\ body \in BodyRecords /\ PositionsOK(body) /\ ~damaged /\ ~body.ring
          /\ HoldsFlat(body, accepted, given) /\ PrefixOf(given, accepted)
          /\ accepted \in Seq(Nat) /\ given \in Seq(Nat)
      BY <2>1 DEF BodyInv, BodyOK, PositionsOK
    <2>3. body.endpos \in Nat /\ body.readpos \in Nat /\ body.unlocked \in Nat /\ body.locked \in BOOLEAN
      BY <2>2 DEF BodyRecords
    <2>4. /\ Len(body.data) = body.endpos /\ body.readpos <= body.endpos
          /\ body.locked => body.unlocked <= body.endpos
      BY <2>1, <2>2 DEF HoldsFlat, PrefixOf, PositionsOK
    <2>5. r \in Nat /\ (r = 0 \/ body.readpos + r <= body.endpos)
      BY <2>3, <2>4 DEF Lesser, Larger
    <2>. HIDE DEF r
    <2>6. FlatRead(body, r)
      BY <2>1, <2>2, <2>4, <2>5 DEF FlatRead
    <2>. QED
      BY <2>1, <2>6, ReadFlatKeeps
  <1>. QED
    BY <1>1, <1>2

(* A read of a cached file, from memory or from its file, keeps it.        *)
LEMMA CachedRead ==
  ASSUME BodyInv, NEW len \in Nat, ci_cached_file_read(len)
  PROVE  BodyInv'
  <1>0. next \in Nat \ {0} /\ CI_EOF = -2
    BY DEF BodyInv, CI_EOF
  <1>1. CASE AtEnd /\ body.eof
    <2>1. Returns(CI_EOF) /\ next' = next
      BY <1>1 DEF ci_cached_file_read
    <2>. QED
      BY <1>0, <1>1, <2>1, ReturnKeeps
  <1>2. CASE ~(AtEnd /\ body.eof) /\ len = 0
    <2>1. Returns(0) /\ next' = next
      BY <1>2 DEF ci_cached_file_read
    <2>. QED
      BY <1>0, <2>1, ReturnKeeps
  <1>3. CASE ~(AtEnd /\ body.eof) /\ len # 0
    <2>. DEFINE remains == IF body.locked THEN body.unlocked - body.readpos
                           ELSE IF body.infile THEN len ELSE body.endpos - body.readpos
                there == Larger(Len(body.data) - body.readpos, 0)
                r == Lesser(Lesser(len, remains), there)
    <2>1. ReadFrom(body.readpos, r) /\ damaged' = damaged /\ body.kind = "cached"
      BY <1>3 DEF ci_cached_file_read
    <2>2. /\ body \in BodyRecords /\ PositionsOK(body) /\ ~body.ring
          /\ accepted \in Seq(Nat) /\ given \in Seq(Nat)
      BY <2>1 DEF BodyInv, BodyOK, PositionsOK
    <2>3. /\ body.endpos \in Nat /\ body.readpos \in Nat /\ body.unlocked \in Nat
          /\ body.locked \in BOOLEAN /\ body.infile \in BOOLEAN /\ Len(body.data) \in Nat
      BY <2>2 DEF BodyRecords
    <2>4. body.locked => body.unlocked >= body.readpos
      BY <2>1, <2>2 DEF PositionsOK
    <2>5. ~body.infile => body.readpos <= body.endpos
      BY <2>1, <2>2 DEF BodyInv, BodyOK, HoldsFlat, PrefixOf
    <2>6. /\ remains \in Nat /\ there \in Nat /\ (there = 0 \/ body.readpos + there <= Len(body.data))
      BY <2>3, <2>4, <2>5, SMTT(40) DEF Larger
    <2>7. body.locked => remains = body.unlocked - body.readpos
      OBVIOUS
    <2>. HIDE DEF remains, there
    <2>8. r \in Nat /\ r <= there /\ r <= remains
      BY <2>6 DEF Lesser
    <2>. HIDE DEF r
    <2>9. FlatRead(body, r)
      BY <2>2, <2>3, <2>6, <2>7, <2>8 DEF FlatRead
    <2>. QED
      BY <2>1, <2>9, ReadFlatKeeps
  <1>. QED
    BY <1>1, <1>2, <1>3

(* A read of a simple file, a ring or not, keeps it.                       *)
LEMMA SimpleRead ==
  ASSUME BodyInv, NEW len \in Nat, ci_simple_file_read(len)
  PROVE  BodyInv'
  <1>0. next \in Nat \ {0} /\ CI_EOF = -2 /\ BodyOK(body, accepted, given, damaged)
    BY DEF BodyInv, CI_EOF
  <1>1. CASE len = 0
    <2>1. Returns(0) /\ next' = next
      BY <1>1 DEF ci_simple_file_read
    <2>. QED
      BY <1>0, <2>1, ReturnKeeps
  <1>2. CASE len > 0 /\ AtEnd
    <2>1. Returns(IF body.eof THEN CI_EOF ELSE 0) /\ next' = next
      BY <1>2 DEF ci_simple_file_read
    <2>. QED
      BY <1>0, <1>2, <2>1, ReturnKeeps
  <1>3. CASE len > 0 /\ ~AtEnd
    <2>. DEFINE pos == IF body.room > 0 /\ body.readpos = body.room THEN 0 ELSE body.readpos
                available == IF body.locked THEN body.unlocked - pos
                             ELSE IF body.endpos > pos THEN body.endpos - pos
                             ELSE body.room - pos
                there == Larger(Len(body.data) - pos, 0)
                r == Lesser(Lesser(available, len), there)
    <2>1. /\ ReadFrom(pos, r) /\ damaged' = (damaged \/ ReadsOld(pos)) /\ body.kind = "simple"
          /\ body.readpos # body.endpos
      BY <1>3 DEF ci_simple_file_read, AtEnd
    <2>2. body \in BodyRecords /\ PositionsOK(body) /\ accepted \in Seq(Nat) /\ given \in Seq(Nat)
      BY <1>0 DEF BodyOK
    <2>3. /\ body.endpos \in Nat /\ body.readpos \in Nat /\ body.unlocked \in Nat /\ body.room \in Nat
          /\ body.locked \in BOOLEAN /\ Len(body.data) \in Nat
          /\ body.room > 0 => body.endpos <= body.room /\ body.readpos <= body.room
          /\ body.locked => ~body.ring /\ body.unlocked >= body.readpos
      BY <2>1, <2>2 DEF BodyRecords, PositionsOK
    <2>4. CASE ~body.ring
      <3>1. /\ ~damaged /\ body.readpos <= body.endpos /\ body.endpos = Len(body.data)
        BY <2>1, <2>4, <1>0 DEF BodyOK, HoldsFlat, PrefixOf
      <3>2. pos = body.readpos /\ body.endpos > pos
        BY <3>1, <2>1, <2>3
      <3>3. /\ available \in Nat /\ there \in Nat /\ pos + there <= Len(body.data)
            /\ body.locked => available = body.unlocked - pos
        BY <3>1, <3>2, <2>3 DEF Larger
      <3>4. damaged' = damaged
        <4>1. ~ReadsOld(pos)
          BY <2>4 DEF ReadsOld
        <4>2. damaged \in BOOLEAN
          BY <1>0 DEF BodyOK
        <4>. QED
          BY <4>1, <4>2, <2>1, Zenon
      <3>. HIDE DEF pos, available, there
      <3>5. r \in Nat /\ r <= there /\ r <= available
        BY <3>3 DEF Lesser
      <3>. HIDE DEF r
      <3>6. FlatRead(body, r)
        BY <2>1, <2>3, <2>4, <3>2, <3>3, <3>5 DEF FlatRead
      <3>7. ReadFrom(body.readpos, r)
        BY <2>1, <3>2
      <3>. QED
        BY <3>4, <3>6, <3>7, ReadFlatKeeps
    <2>5. CASE body.ring
      <3>1. /\ ~body.locked /\ Len(body.data) = body.room /\ body.room > 0
            /\ body.endpos <= body.room /\ body.readpos <= body.room
        BY <2>2, <2>3, <2>5 DEF PositionsOK
      <3>2. /\ pos \in Nat /\ pos = (IF body.readpos = body.room THEN 0 ELSE body.readpos)
            /\ pos < body.room
        BY <3>1, <2>3
      <3>3. /\ available = (IF body.endpos > pos THEN body.endpos - pos ELSE body.room - pos)
            /\ available \in Nat /\ available > 0 /\ there \in Nat /\ there > 0
        BY <3>1, <3>2, <2>3 DEF Larger
      <3>4. damaged' = (damaged \/ (pos = 0 /\ body.endpos = 0))
        BY <2>1, <2>5 DEF ReadsOld
      <3>. HIDE DEF pos, available, there
      <3>5. r \in Nat /\ r > 0 /\ r <= available
        BY <1>3, <3>3 DEF Lesser
      <3>. HIDE DEF r
      <3>6. RingReads(body, pos, r)
        BY <2>1, <2>5, <3>2, <3>3, <3>5 DEF RingReads
      <3>7. /\ body' = Moved(body, pos + r) /\ given' = Gave(given, body.data, pos, r)
            /\ accepted' = accepted /\ next' = next /\ ret' = r
        BY <2>1 DEF ReadFrom, Moved, Gave
      <3>8. BodyOK(Moved(body, pos + r), accepted, Gave(given, body.data, pos, r),
                   damaged \/ (pos = 0 /\ body.endpos = 0))
        BY <1>0, <3>6, ReadRing
      <3>9. BodyOK(body, accepted, given, damaged)'
        BY <3>4, <3>7, <3>8
      <3>. QED
        BY <1>0, <3>5, <3>7, <3>9 DEF BodyInv
    <2>. QED
      BY <2>2, <2>4, <2>5
  <1>. QED
    BY <1>1, <1>2, <1>3

(* A write to a membuf, also one that cannot grow, keeps it.               *)
LEMMA MembufWrite ==
  ASSUME BodyInv, NEW new \in Seq(Nat), NEW iseof \in BOOLEAN, NEW grows \in BOOLEAN,
         ci_membuf_write(new, iseof, grows), next' \in Nat \ {0}
  PROVE  BodyInv'
  <1>0. body.kind = "membuf" /\ CI_EOF = -2
    BY DEF ci_membuf_write, CI_EOF
  <1>1. CASE body.ro \/ body.eof
    <2>1. Returns(0)
      BY <1>1 DEF ci_membuf_write
    <2>. QED
      BY <1>0, <2>1, ReturnKeeps
  <1>2. CASE ~(body.ro \/ body.eof)
    <2>1. /\ body \in BodyRecords /\ PositionsOK(body) /\ ~damaged /\ ~body.ring
          /\ BodyOK(body, accepted, given, FALSE) /\ HoldsFlat(body, accepted, given)
          /\ damaged \in BOOLEAN
      BY <1>0 DEF BodyInv, BodyOK, PositionsOK
    <2>2. body.data \in Seq(Nat) /\ body.endpos = Len(body.data)
      BY <2>1 DEF BodyRecords, HoldsFlat
    <2>d. damaged = FALSE
      BY <2>1, Zenon
    <2>3. CASE ~grows
      <3>1. /\ body' = [body EXCEPT !.eof = iseof] /\ accepted' = accepted /\ given' = given
            /\ ret' = 0 /\ damaged' = damaged
        BY <1>2, <2>3 DEF ci_membuf_write
      <3>2. /\ body' \in BodyRecords /\ body'.kind = body.kind /\ body'.data = body.data
            /\ body'.endpos = body.endpos /\ body'.readpos = body.readpos
            /\ body'.unlocked = body.unlocked /\ body'.locked = body.locked
            /\ body'.ring = body.ring /\ body'.room = body.room /\ body'.infile = body.infile
        BY <2>1, <3>1 DEF BodyRecords
      <3>3. PositionsOK(body')
        BY <2>1, <3>2 DEF PositionsOK
      <3>4. BodyOK(body', accepted, given, FALSE)
        BY <2>1, <3>2, <3>3, FlagsKeep
      <3>5. BodyOK(body, accepted, given, damaged)'
        BY <2>d, <3>1, <3>4, Zenon
      <3>. QED
        BY <1>0, <3>1, <3>5 DEF BodyInv
    <2>4. CASE grows
      <3>1. /\ body' = Stored([body EXCEPT !.eof = iseof], new, Len(new))
            /\ accepted' = accepted \o new /\ given' = given
            /\ ret' = Len(new) /\ damaged' = damaged
        BY <1>2, <2>4 DEF ci_membuf_write
      <3>. DEFINE b == [body EXCEPT !.eof = iseof]
      <3>2. /\ SameReader(body, b) /\ b.ring = body.ring /\ b.infile = body.infile
            /\ b.data = body.data /\ b.endpos = body.endpos
        BY <2>1, EndedBody
      <3>. HIDE DEF b
      <3>3. Len(new) \in Nat /\ Len(new) \in 0..Len(new) /\ First(new, Len(new)) = new
        BY AllUnits
      <3>4. Store(body.data, body.endpos, new) = body.data \o new
        BY <2>2, StoredBehind
      <3>5. /\ SameReader(b, body') /\ body'.ring = b.ring /\ body'.infile = b.infile
            /\ body'.data = body.data \o new /\ body'.endpos = body.endpos + Len(new)
        <4>1. b \in BodyRecords /\ b.endpos <= Len(b.data)
          BY <2>2, <3>2 DEF SameReader
        <4>2. body' = Stored(b, new, Len(new))
          BY <3>1 DEF b
        <4>. QED
          <5>1. /\ SameReader(b, Stored(b, new, Len(new))) /\ Stored(b, new, Len(new)).ring = b.ring
                /\ Stored(b, new, Len(new)).infile = b.infile
                /\ Stored(b, new, Len(new)).data = Store(b.data, b.endpos, First(new, Len(new)))
                /\ Stored(b, new, Len(new)).endpos = b.endpos + Len(new)
            BY <3>3, <4>1, StoredBody
          <5>. QED
            BY <3>2, <3>3, <3>4, <4>2, <5>1, Zenon
      <3>6. FlatWrite(body, new, body')
        BY <1>0, <2>1, <3>2, <3>5 DEF FlatWrite, SameReader
      <3>7. BodyOK(body', accepted \o new, given, FALSE)
        BY <2>1, <3>6, WriteFlat
      <3>8. BodyOK(body, accepted, given, damaged)'
        BY <2>d, <3>1, <3>7, Zenon
      <3>. QED
        BY <1>0, <3>1, <3>3, <3>8 DEF BodyInv
    <2>. QED
      BY <2>3, <2>4
  <1>. QED
    BY <1>1, <1>2

(* A cached file whose data have been damaged.                             *)
LEMMA DamagedFile ==
  ASSUME NEW b, NEW q, SameReader(b, q), PositionsOK(b), b.kind = "cached", q.infile, ~q.ring,
         NEW a \in Seq(Nat), NEW g \in Seq(Nat)
  PROVE  BodyOK(q, a, g, TRUE)
  <1>1. PositionsOK(q)
    BY DEF SameReader, PositionsOK
  <1>. QED
    BY <1>1 DEF BodyOK, SameReader

(* The record of a cached file that has a file, or not.                    *)
LEMMA FiledRecord ==
  ASSUME NEW b \in BodyRecords, NEW f \in BOOLEAN
  PROVE  LET q == [b EXCEPT !.infile = f] IN
           /\ SameReader(b, q) /\ q.ring = b.ring /\ q.infile = f
           /\ q.data = b.data /\ q.endpos = b.endpos
  BY DEF BodyRecords, SameReader

(* The record of a cached file whose move to a file lost its memory.       *)
LEMMA EmptiedRecord ==
  ASSUME NEW b \in BodyRecords
  PROVE  LET q == [b EXCEPT !.infile = TRUE, !.data = <<>>] IN
           SameReader(b, q) /\ q.ring = b.ring /\ q.infile = TRUE
  <1>1. <<>> \in Seq(Nat)
    OBVIOUS
  <1>. QED
    BY <1>1 DEF BodyRecords, SameReader

(* The record of a cached file to which a short write was made.            *)
LEMMA ShortRecord ==
  ASSUME NEW b \in BodyRecords, NEW x \in Seq(Nat)
  PROVE  LET q == [b EXCEPT !.infile = TRUE, !.endpos = @ + Len(x)] IN
           SameReader(b, q) /\ q.ring = b.ring /\ q.infile = TRUE
  <1>1. b.endpos \in Nat /\ Len(x) \in Nat
    BY DEF BodyRecords
  <1>2. b.endpos + Len(x) \in Nat
    BY <1>1
  <1>. QED
    BY <1>2 DEF BodyRecords, SameReader

(* The record of a cached file to whose file the units were written.       *)
LEMMA LongerRecord ==
  ASSUME NEW b \in BodyRecords, NEW x \in Seq(Nat)
  PROVE  LET q == [b EXCEPT !.data = @ \o x, !.endpos = @ + Len(x)] IN
           /\ SameReader(b, q) /\ q.ring = b.ring /\ q.infile = b.infile
           /\ q.data = b.data \o x /\ q.endpos = b.endpos + Len(x)
  <1>. DEFINE s == b.data \o x
              e == b.endpos + Len(x)
  <1>1. b.data \in Seq(Nat) /\ b.endpos \in Nat /\ Len(x) \in Nat
    BY DEF BodyRecords
  <1>2. s \in Seq(Nat) /\ e \in Nat
    BY <1>1, ConcatProperties
  <1>. HIDE DEF s, e
  <1>3. LET q == [b EXCEPT !.data = s, !.endpos = e] IN
          /\ SameReader(b, q) /\ q.ring = b.ring /\ q.infile = b.infile
          /\ q.data = s /\ q.endpos = e
    BY <1>2 DEF BodyRecords, SameReader
  <1>. QED
    BY <1>3 DEF s, e

(* A write to a cached file keeps it, whatever becomes of its I/O.         *)
LEMMA CachedWrite ==
  ASSUME BodyInv, NEW new \in Seq(Nat), NEW iseof \in BOOLEAN,
         NEW io \in {"done", "nofile", "memfails", "newfails", "short"},
         ci_cached_file_write(new, iseof, io), next' \in Nat \ {0}
  PROVE  BodyInv'
  <1>. DEFINE b == [body EXCEPT !.eof = @ \/ iseof]
              n == Len(new)
              moves == ~b.infile /\ n > 0 /\ b.endpos + n > b.room
              fails == moves /\ io \in {"nofile", "memfails", "newfails"}
              loses == n > 0 /\ (b.infile \/ moves) /\ io # "done" /\ ~fails
  <1>1. /\ body.kind = "cached"
        /\ body' = CASE fails -> [b EXCEPT !.infile = (io # "nofile"),
                                          !.data = IF io = "memfails" THEN <<>> ELSE @]
                     [] loses -> [b EXCEPT !.infile = TRUE, !.endpos = @ + n]
                     [] moves /\ io = "done" -> Spill(b, new)
                     [] b.infile /\ ~loses -> [b EXCEPT !.data = @ \o new, !.endpos = @ + n]
                     [] OTHER -> Stored(b, new, n)
        /\ accepted' = IF fails THEN accepted ELSE accepted \o new
        /\ ret' = IF fails THEN CI_ERROR ELSE n
        /\ damaged' = (damaged \/ loses \/ (fails /\ io = "memfails"))
        /\ given' = given
    BY DEF ci_cached_file_write
  <1>2. /\ body \in BodyRecords /\ PositionsOK(body) /\ ~body.ring /\ damaged \in BOOLEAN
        /\ accepted \in Seq(Nat) /\ given \in Seq(Nat) /\ BodyOK(body, accepted, given, damaged)
        /\ ~body.infile => ~damaged
    BY <1>1 DEF BodyInv, BodyOK, PositionsOK
  <1>3. b \in BodyRecords /\ SameReader(body, b) /\ b.ring = body.ring /\ b.infile = body.infile
        /\ b.data = body.data /\ b.endpos = body.endpos
    <2>1. (body.eof \/ iseof) \in BOOLEAN
      OBVIOUS
    <2>2. b = [body EXCEPT !.eof = body.eof \/ iseof]
      BY <1>2 DEF BodyRecords
    <2>. QED
      BY <1>2, <2>1, <2>2, EndedBody DEF SameReader
  <1>. HIDE DEF b
  <1>4. b.kind = "cached" /\ ~b.ring /\ b.infile \in BOOLEAN /\ PositionsOK(b)
        /\ b.endpos \in Nat /\ b.room \in Nat /\ n \in Nat /\ b.data \in Seq(Nat)
    BY <1>1, <1>2, <1>3 DEF SameReader, BodyRecords, PositionsOK
  <1>5. BodyOK(b, accepted, given, damaged)
    <2>1. b.room = body.room /\ b.readpos = body.readpos
      BY <1>3 DEF SameReader
    <2>2. damaged => (b.kind = "cached" /\ b.infile) \/ b.ring
      BY <1>2, <1>3, <1>4
    <2>. QED
      BY <1>2, <1>3, <1>4, <2>1, <2>2, FlagsKeep
  <1>6. ~b.infile => damaged = FALSE
    BY <1>2, <1>3, Zenon
  <1>7. /\ accepted \o new \in Seq(Nat)
    BY <1>2, ConcatProperties
  <1>8. CI_EOF = -2 /\ CI_ERROR = -1
    BY DEF CI_EOF, CI_ERROR
  <1>9. SUFFICES BodyOK(body', accepted', given', damaged')
    <2>1. ret' \in Int /\ ret' # CI_EOF
      BY <1>1, <1>4, <1>8
    <2>. QED
      BY <1>9, <2>1 DEF BodyInv
  <1>10. CASE fails
    <2>1. /\ accepted' = accepted /\ ~b.infile /\ ~loses
          /\ body' = [b EXCEPT !.infile = (io # "nofile"), !.data = IF io = "memfails" THEN <<>> ELSE @]
      BY <1>1, <1>10
    <2>2. damaged' = (io = "memfails")
      BY <1>1, <1>6, <1>10, <2>1
    <2>3. CASE io = "memfails"
      <3>1. body' = [b EXCEPT !.infile = TRUE, !.data = <<>>]
        BY <2>1, <2>3
      <3>2. SameReader(b, body') /\ body'.ring = b.ring /\ body'.infile = TRUE
        BY <1>3, <3>1, EmptiedRecord
      <3>3. BodyOK(body', accepted, given, TRUE)
        BY <1>2, <1>4, <3>2, DamagedFile
      <3>. QED
        BY <1>1, <2>1, <2>2, <2>3, <3>3
    <2>4. CASE io # "memfails"
      <3>. DEFINE f == (io # "nofile")
      <3>1. body' = [b EXCEPT !.infile = f]
        BY <1>3, <2>1, <2>4 DEF BodyRecords
      <3>2. f \in BOOLEAN
        OBVIOUS
      <3>. HIDE DEF f
      <3>3. /\ SameReader(b, body') /\ body'.ring = b.ring /\ body'.infile = f
            /\ body'.data = b.data /\ body'.endpos = b.endpos
        <4>1. b \in BodyRecords
          BY <1>3
        <4>2. LET q == [b EXCEPT !.infile = f] IN
                /\ SameReader(b, q) /\ q.ring = b.ring /\ q.infile = f
                /\ q.data = b.data /\ q.endpos = b.endpos
          BY <3>2, <4>1 DEF BodyRecords, SameReader
        <4>. QED
          BY <3>1, <4>2, Zenon
      <3>4. PositionsOK(body')
        BY <1>4, <2>1, <3>3 DEF PositionsOK, SameReader
      <3>5. body' \in BodyRecords /\ body'.room = b.room /\ body'.readpos = b.readpos
        BY <3>3 DEF SameReader
      <3>6. BodyOK(b, accepted, given, FALSE)
        BY <1>5, <1>6, <2>1
      <3>7. BodyOK(body', accepted, given, FALSE)
        BY <3>3, <3>4, <3>5, <3>6, FlagsKeep
      <3>. QED
        BY <1>1, <2>1, <2>2, <2>4, <3>7
    <2>. QED
      BY <2>3, <2>4
  <1>11. CASE ~fails /\ loses
    <2>1. /\ accepted' = accepted \o new
          /\ body' = [b EXCEPT !.infile = TRUE, !.endpos = @ + Len(new)] /\ damaged' = TRUE
      BY <1>1, <1>11
    <2>2. SameReader(b, body') /\ body'.ring = b.ring /\ body'.infile = TRUE
      <3>1. b \in BodyRecords
        BY <1>3
      <3>2. LET q == [b EXCEPT !.infile = TRUE, !.endpos = @ + Len(new)] IN
              SameReader(b, q) /\ q.ring = b.ring /\ q.infile = TRUE
        BY <3>1, ShortRecord, Zenon
      <3>. QED
        BY <2>1, <3>2, Zenon
    <2>3. BodyOK(body', accepted \o new, given, TRUE)
      BY <1>2, <1>4, <1>7, <2>2, DamagedFile
    <2>. QED
      BY <1>1, <2>1, <2>3
  <1>12. CASE ~fails /\ ~loses
    <2>1. /\ accepted' = accepted \o new /\ damaged' = damaged
      BY <1>1, <1>2, <1>12
    <2>2. CASE b.infile
      <3>1. body' = [b EXCEPT !.data = @ \o new, !.endpos = @ + Len(new)]
        BY <1>1, <1>12, <2>2
      <3>2. /\ SameReader(b, body') /\ body'.ring = b.ring /\ body'.infile = b.infile
            /\ body'.data = b.data \o new /\ body'.endpos = b.endpos + Len(new)
        <4>1. b \in BodyRecords
          BY <1>3
        <4>2. LET q == [b EXCEPT !.data = @ \o new, !.endpos = @ + Len(new)] IN
                /\ SameReader(b, q) /\ q.ring = b.ring /\ q.infile = b.infile
                /\ q.data = b.data \o new /\ q.endpos = b.endpos + Len(new)
          BY <4>1, LongerRecord, Zenon
        <4>. QED
          BY <3>1, <4>2, Zenon
      <3>3. CASE damaged
        <4>1. BodyOK(body', accepted \o new, given, TRUE)
          BY <1>2, <1>4, <1>7, <2>2, <3>2, DamagedFile
        <4>. QED
          BY <1>1, <1>2, <2>1, <3>3, <4>1
      <3>4. CASE ~damaged
        <4>1. FlatWrite(b, new, body')
          BY <1>4, <2>2, <3>2 DEF FlatWrite, SameReader
        <4>2. BodyOK(b, accepted, given, FALSE)
          BY <1>2, <1>5, <3>4
        <4>3. BodyOK(body', accepted \o new, given, FALSE)
          BY <4>1, <4>2, WriteFlat
        <4>. QED
          BY <1>1, <1>2, <2>1, <3>4, <4>3
      <3>. QED
        BY <3>3, <3>4
    <2>3. CASE ~b.infile
      <3>0. BodyOK(b, accepted, given, FALSE) /\ damaged' = FALSE /\ b.endpos = Len(b.data)
        <4>1. BodyOK(b, accepted, given, FALSE) /\ damaged' = FALSE
          BY <1>5, <1>6, <2>1, <2>3
        <4>. QED
          BY <1>4, <4>1 DEF BodyOK, HoldsFlat
      <3>1. Len(new) \in 0..Len(new) /\ First(new, Len(new)) = new /\ b.endpos <= Len(b.data)
        BY <1>4, <3>0, AllUnits
      <3>2. Store(b.data, b.endpos, new) = b.data \o new
        BY <1>4, <3>0, StoredBehind
      <3>. DEFINE q == Stored(b, new, n)
      <3>3. /\ SameReader(b, q) /\ q.ring = b.ring /\ q.infile = b.infile
            /\ q.data = Store(b.data, b.endpos, First(new, n)) /\ q.endpos = b.endpos + n
        BY <1>3, <3>1, StoredBody
      <3>4. /\ q.data = b.data \o new
        BY <3>1, <3>2, <3>3
      <3>5. CASE moves
        <4>1. body' = [q EXCEPT !.infile = TRUE]
          BY <1>1, <1>12, <2>3, <3>5 DEF Spill
        <4>. HIDE DEF q, n
        <4>2. q \in BodyRecords
          BY <3>3 DEF SameReader
        <4>3. /\ SameReader(q, body') /\ body'.ring = q.ring /\ body'.infile = TRUE
              /\ body'.data = q.data /\ body'.endpos = q.endpos
          BY <4>1, <4>2, FiledRecord
        <4>4. FlatWrite(b, new, body')
          BY <1>4, <3>3, <3>4, <4>3 DEF FlatWrite, SameReader, n
        <4>5. BodyOK(body', accepted \o new, given, FALSE)
          BY <3>0, <4>4, WriteFlat
        <4>. QED
          BY <1>1, <2>1, <3>0, <4>5
      <3>6. CASE ~moves
        <4>1. body' = q
          BY <1>1, <1>12, <2>3, <3>6
        <4>2. n = 0 \/ b.endpos + n <= b.room
          BY <1>4, <2>3, <3>6
        <4>3. b.room >= b.endpos
          BY <1>4, <2>3 DEF PositionsOK
        <4>. HIDE DEF q
        <4>4. FlatWrite(b, new, body')
          BY <1>4, <3>3, <3>4, <4>1, <4>2, <4>3 DEF FlatWrite, SameReader
        <4>5. BodyOK(body', accepted \o new, given, FALSE)
          BY <3>0, <4>4, WriteFlat
        <4>. QED
          BY <1>1, <2>1, <3>0, <4>5
      <3>. QED
        BY <3>5, <3>6
    <2>. QED
      BY <1>4, <2>2, <2>3
  <1>. QED
    BY <1>10, <1>11, <1>12

(* How much a write to a simple file may store behind its end.             *)
Fits(b, m) ==
  /\ b.ring => m <= IF b.endpos < b.readpos THEN b.readpos - b.endpos - 1 ELSE b.room - b.endpos
  /\ ~b.ring /\ b.room > 0 => b.endpos + m <= b.room

(* A write that fits keeps what a simple file holds.                       *)
LEMMA SimpleStores ==
  ASSUME NEW b, NEW a, NEW g, NEW d, BodyOK(b, a, g, d), b.kind = "simple",
         NEW new \in Seq(Nat), NEW m \in 0..Len(new), Fits(b, m), NEW e \in BOOLEAN
  PROVE  BodyOK([Stored(b, new, m) EXCEPT !.eof = e], a \o First(new, m), g, d)
  <1>1. /\ b \in BodyRecords /\ PositionsOK(b) /\ d \in BOOLEAN /\ a \in Seq(Nat)
    BY DEF BodyOK
  <1>2. /\ b.endpos \in Nat /\ b.readpos \in Nat /\ b.room \in Nat /\ b.data \in Seq(Nat)
        /\ b.ring \in BOOLEAN
    BY <1>1 DEF BodyRecords
  <1>3. b.endpos <= Len(b.data) /\ (~b.ring => b.endpos = Len(b.data))
    BY <1>1, <1>2 DEF BodyOK, PositionsOK, HoldsFlat
  <1>. DEFINE q == Stored(b, new, m)
              x == First(new, m)
              r == [q EXCEPT !.eof = e]
  <1>4. /\ SameReader(b, q) /\ q.ring = b.ring /\ q.infile = b.infile
        /\ q.data = Store(b.data, b.endpos, x) /\ q.endpos = b.endpos + m
        /\ x \in Seq(Nat) /\ Len(x) = m
    BY <1>1, <1>3, StoredBody
  <1>. HIDE DEF q, x
  <1>5. /\ SameReader(q, r) /\ r.ring = q.ring /\ r.infile = q.infile
        /\ r.data = q.data /\ r.endpos = q.endpos
    <2>1. q \in BodyRecords
      BY <1>4 DEF SameReader
    <2>. QED
      BY <2>1, EndedBody
  <1>. HIDE DEF r
  <1>6. /\ r \in BodyRecords /\ r.kind = b.kind /\ r.readpos = b.readpos
        /\ r.unlocked = b.unlocked /\ r.locked = b.locked /\ r.room = b.room
        /\ r.ring = b.ring /\ r.data = Store(b.data, b.endpos, x) /\ r.endpos = b.endpos + Len(x)
    BY <1>4, <1>5 DEF SameReader
  <1>7. CASE b.ring
    <2>1. RingWrite(b, Len(x), r)
      <3>1. b.room > 0 /\ b.endpos <= b.room /\ b.readpos <= b.room
        BY <1>1, <1>7 DEF PositionsOK
      <3>2. m <= IF b.endpos < b.readpos THEN b.readpos - b.endpos - 1 ELSE b.room - b.endpos
        BY <1>7 DEF Fits
      <3>3. m \in Nat
        OBVIOUS
      <3>. QED
        BY <3>1, <3>2, <3>3, <1>1, <1>4, <1>6 DEF RingWrite
    <2>. QED
      BY <1>4, <1>6, <1>7, <2>1, WriteRing DEF q, r, x
  <1>8. CASE ~b.ring
    <2>1. d = FALSE
      BY <1>1, <1>8 DEF BodyOK
    <2>2. r.data = b.data \o x
      BY <1>2, <1>3, <1>4, <1>6, <1>8, StoredBehind
    <2>3. b.room > 0 => r.endpos <= b.room
      BY <1>4, <1>6, <1>8 DEF Fits
    <2>4. FlatWrite(b, x, r)
      BY <1>4, <1>6, <1>8, <2>2, <2>3 DEF FlatWrite
    <2>5. BodyOK(b, a, g, FALSE)
      BY <2>1
    <2>6. BodyOK(r, a \o x, g, FALSE)
      BY <2>4, <2>5, WriteFlat
    <2>. QED
      BY <2>1, <2>6 DEF q, r, x
  <1>. QED
    BY <1>2, <1>7, <1>8

(* A write to a simple file, short, failed or into a ring, keeps it.       *)
LEMMA SimpleWrite ==
  ASSUME BodyInv, NEW new \in Seq(Nat), NEW iseof \in BOOLEAN, NEW w \in -1..Len(new),
         ci_simple_file_write(new, iseof, w), next' \in Nat \ {0}
  PROVE  BodyInv'
  <1>0. body.kind = "simple" /\ CI_EOF = -2 /\ BodyOK(body, accepted, given, damaged)
    BY DEF ci_simple_file_write, CI_EOF, BodyInv
  <1>1. /\ body \in BodyRecords /\ PositionsOK(body) /\ damaged \in BOOLEAN
        /\ accepted \in Seq(Nat) /\ given \in Seq(Nat)
    BY <1>0 DEF BodyOK
  <1>2. CASE body.eof
    <2>1. Returns(0)
      BY <1>2 DEF ci_simple_file_write
    <2>. QED
      BY <1>0, <2>1, ReturnKeeps
  <1>3. CASE ~body.eof /\ new = <<>>
    <2>1. /\ body' = [body EXCEPT !.eof = iseof] /\ ret' = 0
          /\ accepted' = accepted /\ given' = given /\ damaged' = damaged
      BY <1>3 DEF ci_simple_file_write
    <2>2. /\ SameReader(body, body') /\ body'.ring = body.ring /\ body'.infile = body.infile
          /\ body'.data = body.data /\ body'.endpos = body.endpos
      BY <1>1, <2>1, EndedBody
    <2>3. PositionsOK(body') /\ body' \in BodyRecords /\ body'.room = body.room
          /\ body'.readpos = body.readpos /\ body'.kind = body.kind
      BY <1>1, <2>2 DEF PositionsOK, SameReader
    <2>4. damaged => (body'.kind = "cached" /\ body'.infile) \/ body'.ring
      BY <1>0, <2>2, <2>3 DEF BodyOK
    <2>5. BodyOK(body', accepted, given, damaged)
      BY <1>0, <2>2, <2>3, <2>4, FlagsKeep
    <2>. QED
      BY <1>0, <2>1, <2>5 DEF BodyInv
  <1>4. CASE ~body.eof /\ new # <<>> /\ NoRoom(body)
    <2>1. Returns(0)
      BY <1>4 DEF ci_simple_file_write
    <2>. QED
      BY <1>0, <2>1, ReturnKeeps
  <1>5. CASE ~body.eof /\ new # <<>> /\ ~NoRoom(body)
    <2>. DEFINE sz == WriteSize(body, Len(new))
                b == IF EntersRing(body) THEN [body EXCEPT !.endpos = 0, !.ring = TRUE] ELSE body
                m == Written(w)
                e == (iseof /\ w = Len(new))
    <2>1. /\ w = sz \/ (IoFailures /\ w < sz)
          /\ body' = [Stored(b, new, m) EXCEPT !.eof = e]
          /\ accepted' = accepted \o First(new, m)
          /\ ret' = w /\ given' = given /\ damaged' = damaged
      BY <1>5 DEF ci_simple_file_write
    <2>2. /\ body.endpos \in Nat /\ body.readpos \in Nat /\ body.room \in Nat /\ body.data \in Seq(Nat)
          /\ body.ring \in BOOLEAN /\ body.locked \in BOOLEAN
          /\ body.room > 0 => body.endpos <= body.room /\ body.readpos <= body.room
          /\ body.ring => body.room > 0
      BY <1>0, <1>1 DEF BodyRecords, PositionsOK
    <2>3. Len(new) \in Nat /\ Len(new) > 0
      BY <1>5
    <2>4. ~body.ring => body.endpos >= body.readpos
      BY <1>0, <1>1 DEF BodyOK, HoldsFlat, PrefixOf
    <2>5. sz \in Nat /\ sz <= Len(new)
      <3>1. CASE body.endpos < body.readpos
        BY <2>2, <2>3, <3>1 DEF WriteSize, Lesser
      <3>2. CASE ~(body.endpos < body.readpos) /\ EntersRing(body)
        <4>1. body.readpos - 1 \in Nat
          BY <2>2, <3>2 DEF EntersRing
        <4>. QED
          BY <2>3, <3>2, <4>1 DEF WriteSize, Lesser
      <3>3. CASE ~(body.endpos < body.readpos) /\ ~EntersRing(body)
        BY <2>2, <2>3, <3>3 DEF WriteSize, Lesser
      <3>. QED
        BY <3>1, <3>2, <3>3
    <2>6. m \in 0..Len(new) /\ m <= sz
      BY <2>1, <2>3, <2>5 DEF Written, Larger
    <2>7. e \in BOOLEAN
      OBVIOUS
    <2>. HIDE DEF m, e
    <2>8. CASE EntersRing(body)
      <3>1. b = [body EXCEPT !.endpos = 0, !.ring = TRUE]
        BY <2>8
      <3>2. /\ b \in BodyRecords /\ b.kind = body.kind /\ b.data = body.data /\ b.endpos = 0
            /\ b.readpos = body.readpos /\ b.locked = body.locked /\ b.ring = TRUE
            /\ b.room = body.room
        BY <1>1, <3>1 DEF BodyRecords
      <3>. HIDE DEF b
      <3>3. BodyOK(b, accepted, given, damaged)
        BY <1>0, <2>8, <3>2, EnterRing
      <3>4. Fits(b, m)
        <4>1. sz <= body.readpos - 1 /\ body.readpos > 0
          BY <2>2, <2>3, <2>8 DEF WriteSize, Lesser, EntersRing
        <4>2. m <= body.readpos - 1
          BY <2>2, <2>3, <2>5, <2>6, <4>1
        <4>. QED
          BY <2>2, <3>2, <4>1, <4>2 DEF Fits
      <3>5. BodyOK(body', accepted', given', damaged')
        BY <1>0, <2>1, <2>6, <2>7, <3>2, <3>3, <3>4, SimpleStores
      <3>. QED
        BY <1>0, <2>1, <3>5 DEF BodyInv
    <2>9. CASE ~EntersRing(body)
      <3>1. b = body
        BY <2>9
      <3>. HIDE DEF b
      <3>2. Fits(body, m)
        <4>1. body.endpos < body.readpos => sz <= body.readpos - body.endpos - 1
          BY <2>2, <2>3 DEF WriteSize, Lesser
        <4>2. ~(body.endpos < body.readpos) /\ body.room > 0 => sz <= body.room - body.endpos
          BY <2>2, <2>3, <2>9 DEF WriteSize, Lesser
        <4>. HIDE DEF sz
        <4>. QED
          BY <2>2, <2>3, <2>4, <2>5, <2>6, <4>1, <4>2, SMTT(40) DEF Fits
      <3>3. BodyOK([Stored(body, new, m) EXCEPT !.eof = e], accepted \o First(new, m), given, damaged)
        BY <1>0, <2>6, <2>7, <3>2, SimpleStores
      <3>4. body' = [Stored(body, new, m) EXCEPT !.eof = e]
        BY <2>1, <3>1, Zenon
      <3>5. BodyOK(body', accepted', given', damaged')
        BY <2>1, <3>3, <3>4, Zenon
      <3>. QED
        BY <1>0, <2>1, <3>5 DEF BodyInv
    <2>. QED
      BY <2>8, <2>9
  <1>. QED
    BY <1>2, <1>3, <1>4, <1>5

(* What a truncation leaves, of a body that is no ring.                    *)
LEMMA TruncateKeeps ==
  ASSUME BodyInv, NEW sz \in Nat, sz <= body.endpos, ~body.ring, body.kind # "cached",
         Truncate(sz)
  PROVE  BodyInv'
  <1>1. /\ body \in BodyRecords /\ PositionsOK(body) /\ ~damaged /\ damaged \in BOOLEAN
        /\ accepted \in Seq(Nat) /\ given \in Seq(Nat) /\ PrefixOf(given, accepted)
        /\ HoldsFlat(body, accepted, given)
    BY DEF BodyInv, BodyOK
  <1>2. /\ body.data \in Seq(Nat) /\ body.endpos \in Nat /\ body.readpos \in Nat
        /\ body.unlocked \in Nat /\ body.room \in Nat
    BY <1>1 DEF BodyRecords
  <1>3. /\ accepted' = First(accepted, sz) /\ given' = First(given, sz) /\ ret' = 1
        /\ next' = next /\ damaged' = damaged
    BY DEF Truncate
  <1>. DEFINE s == First(body.data, sz)
              p == Lesser(body.readpos, sz)
              u == Lesser(body.unlocked, sz)
  <1>4. /\ p \in Nat /\ u \in Nat /\ p <= sz /\ u <= sz
        /\ p = Lesser(sz, body.readpos)
    BY <1>2 DEF Lesser
  <1>5. Lesser(sz, Len(accepted)) = sz
    BY <1>1 DEF Lesser, HoldsFlat
  <1>6. /\ accepted' \in Seq(Nat) /\ Len(accepted') = sz
        /\ \A i \in 1..sz : accepted'[i] = accepted[i]
    BY <1>1, <1>3, <1>5, FirstUnits
  <1>7. /\ given' \in Seq(Nat) /\ Len(given') = p
        /\ \A i \in 1..p : given'[i] = given[i]
    <2>1. Lesser(sz, Len(given)) = p
      BY <1>1, <1>4 DEF HoldsFlat
    <2>2. given \in Seq(Nat) /\ given' = First(given, sz)
      BY <1>1, <1>3
    <2>. HIDE DEF p
    <2>. QED
      BY <2>1, <2>2, FirstUnits
  <1>8. s = accepted'
    BY <1>1, <1>3 DEF HoldsFlat
  <1>9. body' = [body EXCEPT !.endpos = sz, !.data = s, !.readpos = p, !.unlocked = u]
    BY <1>1 DEF Truncate, Shortened, BodyRecords
  <1>10. body.locked => p <= u \/ body.kind = "membuf"
    BY <1>1, <1>2 DEF PositionsOK, Lesser, BodyRecords
  <1>. HIDE DEF s, p, u
  <1>11. /\ body' \in BodyRecords /\ body'.kind = body.kind /\ body'.data = accepted'
         /\ body'.endpos = sz /\ body'.readpos = p /\ body'.unlocked = u
         /\ body'.locked = body.locked /\ body'.ring = body.ring /\ body'.room = body.room
         /\ body'.infile = body.infile
    <2>1. s \in Seq(Nat)
      BY <1>6, <1>8
    <2>2. /\ body' \in BodyRecords /\ body'.kind = body.kind /\ body'.data = s
          /\ body'.endpos = sz /\ body'.readpos = p /\ body'.unlocked = u
          /\ body'.locked = body.locked /\ body'.ring = body.ring /\ body'.room = body.room
          /\ body'.infile = body.infile
      BY <2>1, <1>1, <1>4, <1>9 DEF BodyRecords
    <2>. QED
      BY <2>2, <1>8
  <1>12. PositionsOK(body')
    BY <1>1, <1>2, <1>4, <1>10, <1>11 DEF PositionsOK
  <1>13. HoldsFlat(body', accepted', given')
    BY <1>6, <1>7, <1>11 DEF HoldsFlat
  <1>14. PrefixOf(given', accepted')
    <2>1. p <= Len(given) /\ Len(given) <= Len(accepted)
      BY <1>1, <1>2, <1>4 DEF HoldsFlat, PrefixOf, Lesser
    <2>2. Len(given) \in Nat /\ Len(accepted) \in Nat
      BY <1>1
    <2>3. \A k \in 1..p : k \in 1..sz /\ k \in 1..Len(given)
      BY <2>1, <2>2, <1>4
    <2>4. \A k \in 1..Len(given) : given[k] = accepted[k]
      BY <1>1 DEF PrefixOf
    <2>. QED
      BY <2>3, <2>4, <1>4, <1>6, <1>7 DEF PrefixOf
  <1>15. BodyOK(body, accepted, given, damaged)'
    BY <1>1, <1>3, <1>6, <1>7, <1>11, <1>12, <1>13, <1>14 DEF BodyOK
  <1>16. next \in Nat \ {0} /\ CI_EOF = -2
    BY DEF BodyInv, CI_EOF
  <1>. QED
    BY <1>3, <1>15, <1>16 DEF BodyInv

(* Truncating a simple file keeps it.                                      *)
LEMMA SimpleTruncate ==
  ASSUME BodyInv, NEW sz \in Nat, ci_simple_file_truncate(sz)
  PROVE  BodyInv'
  <1>. DEFINE new == IF sz = 0 THEN Len(body.data) ELSE sz
  <1>1. /\ body.kind = "simple" /\ ~body.ring
        /\ \/ new <= body.endpos /\ Truncate(new)
           \/ Returns(0) /\ next' = next
    BY DEF ci_simple_file_truncate
  <1>2. new \in Nat
    BY DEF BodyInv, BodyOK, BodyRecords
  <1>. HIDE DEF new
  <1>3. next \in Nat \ {0} /\ CI_EOF = -2
    BY DEF BodyInv, CI_EOF
  <1>4. CASE new <= body.endpos /\ Truncate(new)
    BY <1>1, <1>2, <1>4, TruncateKeeps
  <1>5. CASE Returns(0) /\ next' = next
    BY <1>3, <1>5, ReturnKeeps
  <1>. QED
    BY <1>1, <1>4, <1>5

(* Truncating a membuf keeps it.                                           *)
LEMMA MembufTruncate ==
  ASSUME BodyInv, NEW sz \in Nat, ci_membuf_truncate(sz)
  PROVE  BodyInv'
  <1>1. body.kind = "membuf" /\ ~body.ring /\ body.endpos \in Nat
    BY DEF ci_membuf_truncate, BodyInv, BodyOK, PositionsOK, BodyRecords
  <1>2. next \in Nat \ {0} /\ CI_EOF = -2
    BY DEF BodyInv, CI_EOF
  <1>3. CASE sz > body.endpos
    <2>1. Returns(0) /\ next' = next
      BY <1>3 DEF ci_membuf_truncate
    <2>. QED
      BY <1>2, <2>1, ReturnKeeps
  <1>4. CASE ~(sz > body.endpos)
    <2>1. Truncate(sz) /\ sz <= body.endpos
      BY <1>1, <1>4 DEF ci_membuf_truncate
    <2>. QED
      BY <1>1, <2>1, TruncateKeeps
  <1>. QED
    BY <1>3, <1>4

(* A body that is new is empty.                                            *)
LEMMA FreshBody ==
  ASSUME NEW kind \in {"membuf", "cached", "simple"}, NEW room \in Nat, NEW infile \in BOOLEAN,
         kind = "membuf" => ~infile
  PROVE  /\ BodyOK(Fresh(kind, room, infile), <<>>, <<>>, FALSE)
         /\ Fresh(kind, room, infile) \in BodyRecords /\ Fresh(kind, room, infile).data = <<>>
  <1>. DEFINE b == Fresh(kind, room, infile)
  <1>1. /\ b \in BodyRecords /\ b.kind = kind /\ b.data = <<>> /\ b.endpos = 0 /\ b.readpos = 0
        /\ b.unlocked = 0 /\ ~b.locked /\ ~b.ring /\ b.room = room /\ b.infile = infile
    BY DEF Fresh, BodyRecords
  <1>. HIDE DEF b
  <1>2. PositionsOK(b)
    BY <1>1 DEF PositionsOK
  <1>3. HoldsFlat(b, <<>>, <<>>) /\ PrefixOf(<<>>, <<>>)
    BY <1>1 DEF HoldsFlat, PrefixOf
  <1>4. <<>> \in Seq(Nat)
    OBVIOUS
  <1>5. BodyOK(b, <<>>, <<>>, FALSE)
    BY <1>1, <1>2, <1>3, <1>4 DEF BodyOK
  <1>. QED
    BY <1>1, <1>5 DEF b

(* A cached file that is reset is new.                                     *)
LEMMA CachedReset ==
  ASSUME BodyInv, NEW sz \in Nat, ci_cached_file_reset(sz)
  PROVE  BodyInv'
  <1>. DEFINE room == IF sz >= body.room /\ sz <= CI_BODY_MAX_MEM THEN sz ELSE body.room
  <1>1. /\ body' = Fresh("cached", room, FALSE) /\ accepted' = <<>> /\ given' = <<>>
        /\ ret' = 0 /\ damaged' = FALSE /\ next' = next
    BY DEF ci_cached_file_reset
  <1>2. room \in Nat
    BY DEF BodyInv, BodyOK, BodyRecords
  <1>. HIDE DEF room
  <1>3. BodyOK(Fresh("cached", room, FALSE), <<>>, <<>>, FALSE)
    BY <1>2, FreshBody
  <1>4. BodyOK(body, accepted, given, damaged)'
    BY <1>1, <1>3, Zenon
  <1>5. next \in Nat \ {0} /\ CI_EOF = -2
    BY DEF BodyInv, CI_EOF
  <1>6. next' \in Nat \ {0} /\ ret' \in Int /\ ret' # CI_EOF
    BY <1>1, <1>5
  <1>. QED
    BY <1>4, <1>6 DEF BodyInv

(* A file that becomes a membuf holds the same data, all unread.           *)
LEMMA SimpleToMembuf ==
  ASSUME BodyInv, ci_simple_file_to_membuf
  PROVE  BodyInv'
  <1>1. /\ body.kind = "simple" /\ ~body.ring /\ given' = <<>> /\ ret' = 0
        /\ next' = next /\ accepted' = accepted /\ damaged' = damaged
        /\ body' = [ci_membuf_new EXCEPT !.data = body.data, !.endpos = body.endpos,
                                         !.eof = TRUE, !.ro = TRUE]
    BY DEF ci_simple_file_to_membuf
  <1>2. /\ body \in BodyRecords /\ ~damaged /\ damaged \in BOOLEAN /\ accepted \in Seq(Nat)
        /\ HoldsFlat(body, accepted, given)
    BY <1>1 DEF BodyInv, BodyOK
  <1>3. body.data \in Seq(Nat) /\ body.endpos \in Nat
    BY <1>2 DEF BodyRecords
  <1>4. /\ body' \in BodyRecords /\ body'.kind = "membuf" /\ body'.data = body.data
        /\ body'.endpos = body.endpos /\ body'.readpos = 0 /\ body'.unlocked = 0
        /\ ~body'.locked /\ ~body'.ring /\ ~body'.infile
    BY <1>1, <1>3 DEF ci_membuf_new, Fresh, BodyRecords
  <1>5. PositionsOK(body')
    BY <1>4 DEF PositionsOK
  <1>6. HoldsFlat(body', accepted', given') /\ PrefixOf(given', accepted')
    BY <1>1, <1>2, <1>4 DEF HoldsFlat, PrefixOf
  <1>7. given' \in Seq(Nat)
    BY <1>1
  <1>8. BodyOK(body', accepted', given', FALSE)
    BY <1>1, <1>2, <1>4, <1>5, <1>6, <1>7 DEF BodyOK
  <1>9. damaged' = FALSE
    BY <1>1, <1>2, Zenon
  <1>10. BodyOK(body, accepted, given, damaged)'
    BY <1>8, <1>9, Zenon
  <1>11. next \in Nat \ {0} /\ CI_EOF = -2
    BY DEF BodyInv, CI_EOF
  <1>. QED
    BY <1>1, <1>10, <1>11 DEF BodyInv

(* Flags and locks.                                                        *)
LEMMA LocksKeep ==
  ASSUME BodyInv, \/ ci_membuf_set_flag \/ lock_all \/ unlock_all
                  \/ \E len \in Nat : unlock(len)
  PROVE  BodyInv'
  <1>1. /\ BodyOK(body, accepted, given, damaged) /\ body \in BodyRecords /\ PositionsOK(body)
        /\ damaged => (body.kind = "cached" /\ body.infile) \/ body.ring
    BY DEF BodyInv, BodyOK
  <1>2. /\ next' = next /\ accepted' = accepted /\ given' = given /\ ret' = ret
        /\ damaged' = damaged
    BY DEF ci_membuf_set_flag, lock_all, unlock_all, unlock
  <1>3. /\ body.endpos \in Nat /\ body.readpos \in Nat /\ body.unlocked \in Nat
    BY <1>1 DEF BodyRecords
  <1>4. /\ body' \in BodyRecords /\ body'.kind = body.kind /\ body'.data = body.data
        /\ body'.endpos = body.endpos /\ body'.readpos = body.readpos
        /\ body'.ring = body.ring /\ body'.room = body.room /\ body'.infile = body.infile
        /\ PositionsOK(body')
    <2>1. CASE ci_membuf_set_flag
      <3>1. body' = [body EXCEPT !.ro = TRUE]
        BY <2>1 DEF ci_membuf_set_flag
      <3>2. /\ body' \in BodyRecords /\ body'.kind = body.kind /\ body'.data = body.data
            /\ body'.endpos = body.endpos /\ body'.readpos = body.readpos
            /\ body'.ring = body.ring /\ body'.room = body.room /\ body'.infile = body.infile
            /\ body'.locked = body.locked /\ body'.unlocked = body.unlocked
        BY <1>1, <3>1 DEF BodyRecords
      <3>. QED
        BY <1>1, <3>2 DEF PositionsOK
    <2>2. CASE lock_all
      <3>1. body' = [body EXCEPT !.locked = TRUE, !.unlocked = 0] /\ ~body.ring /\ body.readpos = 0
        BY <2>2 DEF lock_all
      <3>2. /\ body' \in BodyRecords /\ body'.kind = body.kind /\ body'.data = body.data
            /\ body'.endpos = body.endpos /\ body'.readpos = body.readpos
            /\ body'.ring = body.ring /\ body'.room = body.room /\ body'.infile = body.infile
            /\ body'.unlocked = 0
        BY <1>1, <3>1 DEF BodyRecords
      <3>. QED
        BY <1>1, <1>3, <3>1, <3>2 DEF PositionsOK
    <2>3. CASE unlock_all
      <3>1. body' = [body EXCEPT !.locked = FALSE, !.unlocked = 0]
        BY <2>3 DEF unlock_all
      <3>2. /\ body' \in BodyRecords /\ body'.kind = body.kind /\ body'.data = body.data
            /\ body'.endpos = body.endpos /\ body'.readpos = body.readpos
            /\ body'.ring = body.ring /\ body'.room = body.room /\ body'.infile = body.infile
            /\ body'.locked = FALSE
        BY <1>1, <3>1 DEF BodyRecords
      <3>. QED
        BY <1>1, <3>2 DEF PositionsOK
    <2>4. ASSUME NEW len \in Nat, unlock(len)
          PROVE  /\ body' \in BodyRecords /\ body'.kind = body.kind /\ body'.data = body.data
                 /\ body'.endpos = body.endpos /\ body'.readpos = body.readpos
                 /\ body'.ring = body.ring /\ body'.room = body.room /\ body'.infile = body.infile
                 /\ PositionsOK(body')
      <3>. DEFINE u == Larger(body.readpos, len)
      <3>1. body' = [body EXCEPT !.unlocked = u] /\ (body.infile \/ len <= body.endpos)
        BY <2>4 DEF unlock
      <3>2. u \in Nat /\ u >= body.readpos /\ (u = body.readpos \/ u = len)
        BY <1>3 DEF Larger
      <3>. HIDE DEF u
      <3>3. /\ body' \in BodyRecords /\ body'.kind = body.kind /\ body'.data = body.data
            /\ body'.endpos = body.endpos /\ body'.readpos = body.readpos
            /\ body'.ring = body.ring /\ body'.room = body.room /\ body'.infile = body.infile
            /\ body'.locked = body.locked /\ body'.unlocked = u
        BY <1>1, <3>1, <3>2 DEF BodyRecords
      <3>4. body.kind = "membuf" => body.readpos <= body.endpos
        BY <1>1 DEF BodyOK, HoldsFlat, PrefixOf, PositionsOK
      <3>. QED
        BY <1>1, <1>3, <3>1, <3>2, <3>3, <3>4 DEF PositionsOK
    <2>. QED
      BY <2>1, <2>2, <2>3, <2>4
  <1>5. BodyOK(body', accepted, given, damaged)
    BY <1>1, <1>4, FlagsKeep
  <1>. QED
    BY <1>2, <1>5 DEF BodyInv

(* Every new body satisfies the invariant.                                 *)
LEMMA BodyStarts ==
  ASSUME BodyInit
  PROVE  BodyInv
  <1>1. /\ accepted = body.data /\ next = Len(body.data) + 1 /\ given = <<>> /\ ret = 0
        /\ damaged = FALSE
    BY DEF BodyInit
  <1>2. SUFFICES ASSUME NEW b, b = body
                 PROVE  /\ BodyOK(b, b.data, <<>>, FALSE) /\ b.data \in Seq(Nat)
    <2>1. BodyOK(body, accepted, given, damaged)
      BY <1>1, <1>2
    <2>2. Len(body.data) \in Nat
      BY <1>2
    <2>3. next \in Nat \ {0}
      BY <1>1, <2>2
    <2>. QED
      BY <1>1, <2>1, <2>3 DEF BodyInv, CI_EOF
  <1>3. ASSUME NEW kind \in {"membuf", "cached", "simple"}, NEW room \in Nat, NEW infile \in BOOLEAN,
               kind = "membuf" => ~infile, body = Fresh(kind, room, infile)
        PROVE  BodyOK(body, body.data, <<>>, FALSE) /\ body.data \in Seq(Nat)
    <2>1. body.data = <<>> /\ BodyOK(body, <<>>, <<>>, FALSE)
      BY <1>3, FreshBody
    <2>2. body.data \in Seq(Nat)
      BY <2>1
    <2>. QED
      BY <2>1, <2>2, Zenon
  <1>4. CASE body = ci_membuf_new
    BY <1>2, <1>3, <1>4 DEF ci_membuf_new
  <1>5. CASE body = ci_simple_file_new(0) \/ body = ci_simple_file_new(MaxStore)
    <2>1. MaxStore \in Nat
      BY BodiesAssumption
    <2>. QED
      BY <1>2, <1>3, <1>5, <2>1 DEF ci_simple_file_new
  <1>6. ASSUME NEW n \in 0 .. CI_BODY_MAX_MEM + 1, body = ci_cached_file_new(n)
        PROVE  BodyOK(body, body.data, <<>>, FALSE) /\ body.data \in Seq(Nat)
    <2>1. PICK room \in Nat, infile \in BOOLEAN : body = Fresh("cached", room, infile)
      <3>. DEFINE wanted == IF n = 0 THEN CI_BODY_MAX_MEM ELSE n
      <3>1. CASE wanted \in 1..CI_BODY_MAX_MEM
        <4>1. body = Fresh("cached", wanted, FALSE)
          BY <1>6, <3>1 DEF ci_cached_file_new
        <4>2. wanted \in Nat
          BY <3>1
        <4>. QED
          BY <4>1, <4>2, Zenon
      <3>2. CASE ~(wanted \in 1..CI_BODY_MAX_MEM)
        <4>1. body = Fresh("cached", 0, TRUE)
          BY <1>6, <3>2 DEF ci_cached_file_new
        <4>2. 0 \in Nat
          OBVIOUS
        <4>. QED
          BY <4>1, <4>2, Zenon
      <3>. QED
        BY <3>1, <3>2
    <2>. QED
      BY <1>3, <2>1
  <1>7. CASE body = ci_simple_file_existing_new(Numbers(1, 2))
    <2>. DEFINE s == Numbers(1, 2)
    <2>1. s \in Seq(Nat) /\ Len(s) = 2
      <3>1. 1 \in Nat \ {0} /\ 2 \in Nat
        OBVIOUS
      <3>. QED
        BY <3>1, NumbersAreUnits, Zenon
    <2>. HIDE DEF s
    <2>2. body = [Fresh("simple", 0, TRUE) EXCEPT !.data = s, !.endpos = Len(s), !.eof = TRUE]
      BY <1>7 DEF ci_simple_file_existing_new, s
    <2>3. /\ body \in BodyRecords /\ body.kind = "simple" /\ body.data = s /\ body.endpos = 2
          /\ body.readpos = 0 /\ ~body.locked /\ ~body.ring /\ body.room = 0
      <3>1. body = [kind |-> "simple", data |-> s, endpos |-> Len(s), readpos |-> 0, unlocked |-> 0,
                    locked |-> FALSE, eof |-> TRUE, ring |-> FALSE, ro |-> FALSE, room |-> 0,
                    infile |-> TRUE]
        BY <2>2 DEF Fresh
      <3>. QED
        BY <2>1, <3>1 DEF BodyRecords
    <2>4. PositionsOK(body)
      BY <2>3 DEF PositionsOK
    <2>5. HoldsFlat(body, s, <<>>) /\ PrefixOf(<<>>, s) /\ <<>> \in Seq(Nat)
      BY <2>1, <2>3 DEF HoldsFlat, PrefixOf
    <2>6. BodyOK(body, s, <<>>, FALSE)
      BY <2>1, <2>3, <2>4, <2>5 DEF BodyOK
    <2>. QED
      BY <1>2, <2>1, <2>3, <2>6, Zenon
  <1>8. \/ body = ci_membuf_new \/ body = ci_simple_file_new(0) \/ body = ci_simple_file_new(MaxStore)
        \/ body = ci_simple_file_existing_new(Numbers(1, 2))
        \/ \E n \in 0 .. CI_BODY_MAX_MEM + 1 : body = ci_cached_file_new(n)
    BY DEF BodyInit
  <1>. QED
    BY <1>2, <1>4, <1>5, <1>6, <1>7, <1>8

(* Every call keeps the invariant.                                         *)
LEMMA BodySteps ==
  ASSUME BodyInv, [BodyNext]_bodyVars
  PROVE  BodyInv'
  <1>0. next \in Nat \ {0}
    BY DEF BodyInv
  <1>1. CASE Write
    <2>1. PICK n \in 0 .. Lesser(MaxLen, MaxUnits + 1 - next), iseof \in BOOLEAN :
            /\ next' = next + n
            /\ \/ \E grows \in {TRUE, ~IoFailures} : ci_membuf_write(Numbers(next, n), iseof, grows)
               \/ \E io \in {"done"} \cup (IF IoFailures THEN {"nofile", "memfails", "newfails", "short"} ELSE {}) :
                    ci_cached_file_write(Numbers(next, n), iseof, io)
               \/ \E w \in -1 .. n : ci_simple_file_write(Numbers(next, n), iseof, w)
      BY <1>1 DEF Write
    <2>2. n \in Nat /\ next' \in Nat \ {0}
      BY <1>0, <2>1
    <2>. DEFINE new == Numbers(next, n)
    <2>3. new \in Seq(Nat) /\ Len(new) = n
      BY <1>0, <2>2, NumbersAreUnits
    <2>. HIDE DEF new
    <2>4. ASSUME NEW grows \in {TRUE, ~IoFailures}, ci_membuf_write(new, iseof, grows)
          PROVE  BodyInv'
      <3>1. grows \in BOOLEAN
        BY BodiesAssumption
      <3>. QED
        BY <2>2, <2>3, <2>4, <3>1, MembufWrite
    <2>5. ASSUME NEW io \in {"done"} \cup (IF IoFailures THEN {"nofile", "memfails", "newfails", "short"} ELSE {}),
                 ci_cached_file_write(new, iseof, io)
          PROVE  BodyInv'
      <3>1. io \in {"done", "nofile", "memfails", "newfails", "short"}
        BY BodiesAssumption
      <3>. QED
        BY <2>2, <2>3, <2>5, <3>1, CachedWrite
    <2>6. ASSUME NEW w \in -1 .. n, ci_simple_file_write(new, iseof, w)
          PROVE  BodyInv'
      BY <2>2, <2>3, <2>6, SimpleWrite
    <2>. QED
      BY <2>1, <2>4, <2>5, <2>6 DEF new
  <1>2. CASE Read
    <2>1. PICK len \in 0..MaxLen : ci_membuf_read(len) \/ ci_cached_file_read(len) \/ ci_simple_file_read(len)
      BY <1>2 DEF Read
    <2>2. len \in Nat
      OBVIOUS
    <2>. QED
      BY <2>1, <2>2, MembufRead, CachedRead, SimpleRead
  <1>3. ASSUME NEW sz \in 0..MaxUnits,
               ci_membuf_truncate(sz) \/ ci_simple_file_truncate(sz) \/ unlock(sz)
        PROVE  BodyInv'
    <2>1. sz \in Nat
      OBVIOUS
    <2>. QED
      BY <1>3, <2>1, MembufTruncate, SimpleTruncate, LocksKeep
  <1>4. ASSUME NEW sz \in 0 .. CI_BODY_MAX_MEM + 1, ci_cached_file_reset(sz)
        PROVE  BodyInv'
    <2>1. sz \in Nat
      OBVIOUS
    <2>. QED
      BY <1>4, <2>1, CachedReset
  <1>5. CASE ci_membuf_set_flag \/ lock_all \/ unlock_all
    BY <1>5, LocksKeep
  <1>6. CASE ci_simple_file_to_membuf
    BY <1>6, SimpleToMembuf
  <1>7. CASE UNCHANGED bodyVars
    BY <1>7 DEF bodyVars, BodyInv
  <1>. QED
    BY <1>1, <1>2, <1>3, <1>4, <1>5, <1>6, <1>7 DEF BodyNext

(* What the reads of a body give is what the writes have accepted, in order, for
   every size of memory and every limit, and the asserts of body.c hold. *)
THEOREM BodiesGiveInOrder == BodySpec => []GivenInOrder
  <1>1. BodyInv => GivenInOrder
    <2>. SUFFICES ASSUME BodyInv PROVE GivenInOrder
      OBVIOUS
    <2>1. /\ body \in BodyRecords /\ PositionsOK(body) /\ accepted \in Seq(Nat) /\ given \in Seq(Nat)
          /\ damaged => (body.kind = "cached" /\ body.infile) \/ body.ring
          /\ ~damaged => PrefixOf(given, accepted)
          /\ ~damaged /\ ~body.ring => HoldsFlat(body, accepted, given)
          /\ ret = CI_EOF /\ ~damaged => Len(given) = Len(accepted)
      BY DEF BodyInv, BodyOK
    <2>2. body.endpos \in Nat /\ body.readpos \in Nat
      BY <2>1 DEF BodyRecords
    <2>3. body.kind # "cached" /\ ~body.ring => body.readpos <= body.endpos
      BY <2>1 DEF HoldsFlat, PrefixOf
    <2>4. AssertsHold
      BY <2>1, <2>2, <2>3 DEF AssertsHold, PositionsOK
    <2>5. ASSUME ~damaged
          PROVE  /\ Len(given) <= Len(accepted) /\ given = SubSeq(accepted, 1, Len(given))
                 /\ ret = CI_EOF => given = accepted
      <3>1. Len(given) \in 0..Len(accepted) /\ \A k \in 1..Len(given) : given[k] = accepted[k]
        BY <2>1, <2>5 DEF PrefixOf
      <3>2. /\ SubSeq(accepted, 1, Len(given)) \in Seq(Nat)
            /\ Len(SubSeq(accepted, 1, Len(given))) = Len(given)
            /\ \A k \in 1..Len(given) : SubSeq(accepted, 1, Len(given))[k] = accepted[k]
        BY <2>1, <3>1, SplitSeq
      <3>3. given = SubSeq(accepted, 1, Len(given))
        BY <2>1, <3>1, <3>2, SeqEqual
      <3>4. Len(given) = Len(accepted) => given = accepted
        BY <2>1, <3>1, SeqEqual
      <3>. QED
        BY <2>1, <2>5, <3>1, <3>3, <3>4
    <2>. QED
      BY <2>4, <2>5 DEF GivenInOrder
  <1>. QED
    BY <1>1, BodyStarts, BodySteps, PTL DEF BodySpec
=============================================================================
