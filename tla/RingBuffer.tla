----------------------------- MODULE RingBuffer -----------------------------
(***************************************************************************)
(* ci_ring_buf (body.c): a ring of bytes between buf and end_buf with a    *)
(* read and a write position and a flag that tells full from empty.  The   *)
(* positions are offsets from buf.  A user calls ci_ring_buf_write and     *)
(* ci_ring_buf_read, or gets a block of the memory, copies part of it and  *)
(* calls ci_ring_buf_produce or ci_ring_buf_consume.                       *)
(***************************************************************************)
EXTENDS Integers, Sequences

CONSTANTS
  Data,     \* the units of data
  Junk,     \* what the memory holds before it is written
  Size,     \* units that ci_ring_buf_new allocates
  MaxSize   \* bound: units offered or asked for in one call

ASSUME RingAssumption == Size \in Nat \ {0} /\ MaxSize \in Nat

VARIABLES
  ring,     \* the ci_ring_buf_t
  size,     \* size of the last call
  moved     \* data that the last call has copied

ringVars == <<ring, size, moved>>

Positions == 0 .. Size - 1
Smaller(a, b) == IF a < b THEN a ELSE b

Ring(m, rp, wp, f) == [mem |-> m, read_pos |-> rp, write_pos |-> wp, full |-> f]

ci_ring_buf_new == Ring([p \in Positions |-> Junk], 0, 0, 0)

ci_ring_buf_is_empty(r) == r.read_pos = r.write_pos /\ r.full = 0

(* The block that can be written: its length, and is there another one     *)
ci_ring_buf_write_direct(r) ==
  IF ci_ring_buf_is_empty(r) THEN [len |-> Size - r.write_pos, more |-> FALSE]
  ELSE IF r.read_pos >= r.write_pos
       THEN [len |-> r.read_pos - r.write_pos, more |-> FALSE]
       ELSE [len |-> Size - r.write_pos, more |-> TRUE]

(* The block that can be read                                              *)
ci_ring_buf_read_direct(r) ==
  IF ci_ring_buf_is_empty(r) THEN [len |-> 0, more |-> FALSE]
  ELSE IF r.read_pos >= r.write_pos
       THEN [len |-> Size - r.read_pos, more |-> r.read_pos # 0]
       ELSE [len |-> r.write_pos - r.read_pos, more |-> FALSE]

Advance(pos, n) == IF pos + n > Size - 1 THEN 0 ELSE pos + n

(* Mutant: a ring that has been filled looks empty                         *)
ci_ring_buf_produce_NotFull(r, n) ==
  Ring(r.mem, r.read_pos, Advance(r.write_pos, n), r.full)

ci_ring_buf_produce(r, n) ==
  IF n = 0 THEN r
  ELSE Ring(r.mem, r.read_pos, Advance(r.write_pos, n),
            IF Advance(r.write_pos, n) = r.read_pos THEN 1 ELSE r.full)

ci_ring_buf_consume(r, n) ==
  IF n = 0 THEN r ELSE Ring(r.mem, Advance(r.read_pos, n), r.write_pos, 0)

(* memcpy to the block and produce; memcpy from the block                  *)
Copied(r, s) ==
  [p \in Positions |-> IF r.write_pos <= p /\ p < r.write_pos + Len(s)
                       THEN s[p - r.write_pos + 1] ELSE r.mem[p]]
PutBlock(r, s) ==
  ci_ring_buf_produce(Ring(Copied(r, s), r.read_pos, r.write_pos, r.full), Len(s))
Block(r, n) == [i \in 1..n |-> r.mem[r.read_pos + i - 1]]

(* The loop goes round a second time only past the end of the memory, and then
   there is no third block. *)
ci_ring_buf_write(s) ==
  LET d1 == ci_ring_buf_write_direct(ring)
      n1 == Smaller(Len(s), d1.len)
      r1 == PutBlock(ring, SubSeq(s, 1, n1))
      d2 == ci_ring_buf_write_direct(r1)
      n2 == IF d1.more THEN Smaller(Len(s) - n1, d2.len) ELSE 0
  IN /\ ring' = PutBlock(r1, SubSeq(s, n1 + 1, n1 + n2))
     /\ moved' = SubSeq(s, 1, n1) \o SubSeq(s, n1 + 1, n1 + n2)
     /\ size' = Len(s)

ci_ring_buf_read(n) ==
  LET d1 == ci_ring_buf_read_direct(ring)
      n1 == Smaller(n, d1.len)
      r1 == ci_ring_buf_consume(ring, n1)
      d2 == ci_ring_buf_read_direct(r1)
      n2 == IF d1.more THEN Smaller(n - n1, d2.len) ELSE 0
  IN /\ ring' = ci_ring_buf_consume(r1, n2)
     /\ moved' = Block(ring, n1) \o Block(r1, n2)
     /\ size' = n

(* A user of the blocks fills or takes part of one.                        *)
WriteBlock(s) ==
  /\ Len(s) <= ci_ring_buf_write_direct(ring).len
  /\ ring' = PutBlock(ring, s) /\ moved' = s /\ size' = Len(s)

ReadBlock(n) ==
  /\ n <= ci_ring_buf_read_direct(ring).len
  /\ ring' = ci_ring_buf_consume(ring, n) /\ moved' = Block(ring, n) /\ size' = n

RingInit == ring = ci_ring_buf_new /\ size = 0 /\ moved = <<>>

Inputs == UNION {[1..n -> Data] : n \in 0..MaxSize}

RingNext ==
  \/ \E s \in Inputs : ci_ring_buf_write(s) \/ WriteBlock(s)
  \/ \E n \in 0..MaxSize : ci_ring_buf_read(n) \/ ReadBlock(n)

RingSpec == RingInit /\ [][RingNext]_ringVars

(***************************************************************************)
(* Properties                                                              *)
(***************************************************************************)
Wrap(p) == IF p >= Size THEN p - Size ELSE p
Count(r) ==
  IF r.full = 1 THEN Size
  ELSE IF r.write_pos >= r.read_pos THEN r.write_pos - r.read_pos
       ELSE Size - r.read_pos + r.write_pos
Contents(r) == [i \in 1..Count(r) |-> r.mem[Wrap(r.read_pos + i - 1)]]

F == INSTANCE Fifo WITH q <- Contents(ring), size <- size, moved <- moved

(* The ring is a first-in first-out queue of Size units for every mix of calls
   and blocks: wrapping, filling and emptying lose, repeat and reorder nothing,
   and a call that can move data moves some. *)
RingIsFifo == F!Spec
=============================================================================
