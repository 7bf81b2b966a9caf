------------------------------- MODULE Bodies -------------------------------
(***************************************************************************)
(* The bodies that a service keeps data in (body.c): ci_membuf, a growing  *)
(* block of memory; ci_cached_file, memory that moves to a temporary file; *)
(* ci_simple_file, a file that may be limited in size and then turns into  *)
(* a ring.  One body is followed through any sequence of calls.            *)
(*                                                                         *)
(* Units of data are numbered in the order in which they are offered.  As  *)
(* the asserts of the code demand, a service locks a body before it reads  *)
(* from it, and unlocks no more of a memory than it holds; it does not     *)
(* truncate or map a file that has become a ring.  Left out: the size of   *)
(* the memory of a membuf (a write may fail to grow it), failing reads,    *)
(* terminating zeros, attributes, file names and the pools that bodies     *)
(* come from.                                                              *)
(***************************************************************************)
EXTENDS Integers, Sequences

CONSTANTS
  CI_BODY_MAX_MEM, \* configuration: largest memory of a cached file
  MaxStore,        \* max_store_size of a limited simple file
  MaxUnits,        \* bound: units of data offered to the body
  MaxLen,          \* bound: units in one call
  IoFailures       \* may memory, temporary files and writes fail

ASSUME BodiesAssumption ==
  /\ CI_BODY_MAX_MEM \in Nat /\ MaxStore \in Nat \ {0}
  /\ MaxUnits \in Nat /\ MaxLen \in Nat /\ IoFailures \in BOOLEAN

VARIABLES
  body,    \* the fields of the body; data is its memory or file by position
  next,    \* number of the next unit
  accepted,\* units that the writes have accepted
  given,   \* units that the reads have given
  ret,     \* result of the last call
  damaged  \* data were lost or read twice in the way that the action says

bodyVars == <<body, next, accepted, given, ret, damaged>>

CI_EOF == -2
CI_ERROR == -1

Lesser(a, b) == IF a < b THEN a ELSE b
Larger(a, b) == IF a > b THEN a ELSE b
Numbers(from, n) == [i \in 1..n |-> from + i - 1]
First(s, n) == SubSeq(s, 1, Lesser(n, Len(s)))
Store(s, pos, new) ==
  [i \in 1 .. Larger(Len(s), pos + Len(new)) |->
     IF i > pos /\ i <= pos + Len(new) THEN new[i - pos] ELSE s[i]]

Fresh(kind, room, infile) ==
  [kind |-> kind, data |-> <<>>, endpos |-> 0, readpos |-> 0, unlocked |-> 0,
   locked |-> FALSE, eof |-> FALSE, ring |-> FALSE, ro |-> FALSE,
   room |-> room,      \* bufsize of a cached file, max_store_size of a simple one
   infile |-> infile]  \* fd > 0

ci_membuf_new == Fresh("membuf", 0, FALSE)
(* size = 0 is the default; too large a size, or no memory, opens a file   *)
ci_cached_file_new(n) ==
  LET wanted == IF n = 0 THEN CI_BODY_MAX_MEM ELSE n
  IN IF wanted \in 1..CI_BODY_MAX_MEM THEN Fresh("cached", wanted, FALSE)
     ELSE Fresh("cached", 0, TRUE)
ci_simple_file_new(maxsize) == Fresh("simple", maxsize, TRUE)
ci_simple_file_existing_new(s) ==
  [Fresh("simple", 0, TRUE) EXCEPT !.data = s, !.endpos = Len(s), !.eof = TRUE]

BodyInit ==
  /\ body \in {ci_membuf_new, ci_simple_file_new(0), ci_simple_file_new(MaxStore),
               ci_simple_file_existing_new(Numbers(1, 2))}
       \cup {ci_cached_file_new(n) : n \in 0 .. CI_BODY_MAX_MEM + 1}
  /\ accepted = body.data /\ next = Len(body.data) + 1
  /\ given = <<>> /\ ret = 0 /\ damaged = FALSE

(***************************************************************************)
(* What reads and writes have in common                                    *)
(***************************************************************************)
Returns(r) == ret' = r /\ UNCHANGED <<body, accepted, given, damaged>>

(* store the first n units of new at the end                               *)
Stored(b, new, n) ==
  [b EXCEPT !.data = Store(@, b.endpos, First(new, n)), !.endpos = @ + n]

(* r units are read from position pos                                      *)
ReadFrom(pos, r) ==
  /\ body' = [body EXCEPT !.readpos = pos + r]
  /\ given' = given \o SubSeq(body.data, pos + 1, pos + r)
  /\ ret' = r
  /\ UNCHANGED <<next, accepted>>

AtEnd == body.readpos = body.endpos

(***************************************************************************)
(* ci_membuf                                                               *)
(***************************************************************************)
ci_membuf_write(new, iseof, grows) ==
  /\ body.kind = "membuf"
  /\ IF body.ro \/ body.eof THEN Returns(0)
     ELSE LET b == [body EXCEPT !.eof = iseof] IN
       /\ body' = IF grows THEN Stored(b, new, Len(new)) ELSE b
       /\ accepted' = IF grows THEN accepted \o new ELSE accepted
       /\ ret' = IF grows THEN Len(new) ELSE 0
       /\ UNCHANGED <<given, damaged>>

ci_membuf_read(len) ==
  /\ body.kind = "membuf"
  /\ IF AtEnd /\ body.eof THEN Returns(CI_EOF) /\ UNCHANGED next
     ELSE LET remains == IF body.locked THEN Larger(body.unlocked - body.readpos, 0)
                         ELSE body.endpos - body.readpos
          IN ReadFrom(body.readpos, Lesser(len, remains)) /\ UNCHANGED damaged

(* CI_MEMBUF_RO; the other flag that a user may set is the terminating     *)
(* zero                                                                    *)
ci_membuf_set_flag ==
  /\ body.kind = "membuf"
  /\ body' = [body EXCEPT !.ro = TRUE]
  /\ UNCHANGED <<next, accepted, given, ret, damaged>>

(* the end, and the positions behind it, move to size                      *)
Shortened(b, size) ==
  [b EXCEPT !.endpos = size, !.data = First(@, size),
            !.readpos = Lesser(@, size), !.unlocked = Lesser(@, size)]

Truncate(size) ==
  /\ body' = Shortened(body, size)
  /\ accepted' = First(accepted, size) /\ given' = First(given, size)
  /\ ret' = 1 /\ UNCHANGED <<next, damaged>>

ci_membuf_truncate(size) ==
  /\ body.kind = "membuf"
  /\ IF size > body.endpos THEN Returns(0) /\ UNCHANGED next ELSE Truncate(size)

(***************************************************************************)
(* ci_cached_file                                                          *)
(***************************************************************************)
(* Mutant: what was in memory is not written to the new file               *)
Spill_Empty(b, new) ==
  [b EXCEPT !.infile = TRUE, !.data = new, !.endpos = @ + Len(new)]

(* the memory is too small: a temporary file takes what it holds           *)
Spill(b, new) == [Stored(b, new, Len(new)) EXCEPT !.infile = TRUE]

(* io: what becomes of the write.  When the file is open, one that fails or is
   short counts as done all the same.  On the way from memory to the file there
   may be no file, the write of the memory's data fails and leaves an empty file
   behind, the write of the new data fails, or it is short and counts as done. *)
ci_cached_file_write(new, iseof, io) ==
  /\ body.kind = "cached"
  /\ LET b == [body EXCEPT !.eof = @ \/ iseof]
         n == Len(new)
         moves == ~b.infile /\ n > 0 /\ b.endpos + n > b.room
         fails == moves /\ io \in {"nofile", "memfails", "newfails"}
         loses == n > 0 /\ (b.infile \/ moves) /\ io # "done" /\ ~fails
     IN /\ body' = CASE fails -> [b EXCEPT !.infile = (io # "nofile"),
                                          !.data = IF io = "memfails" THEN <<>> ELSE @]
                     [] loses -> [b EXCEPT !.infile = TRUE, !.endpos = @ + n]
                     [] moves /\ io = "done" -> Spill(b, new)
                     [] b.infile /\ ~loses -> \* at the end of the file
                          [b EXCEPT !.data = @ \o new, !.endpos = @ + n]
                     [] OTHER -> Stored(b, new, n)
        /\ accepted' = IF fails THEN accepted ELSE accepted \o new
        /\ ret' = IF fails THEN CI_ERROR ELSE n
        /\ damaged' = (damaged \/ loses \/ (fails /\ io = "memfails"))
        /\ UNCHANGED given

ci_cached_file_read(len) ==
  /\ body.kind = "cached"
  /\ CASE AtEnd /\ body.eof -> Returns(CI_EOF) /\ UNCHANGED next
       [] ~(AtEnd /\ body.eof) /\ len = 0 -> Returns(0) /\ UNCHANGED next
       [] OTHER ->
            LET remains == IF body.locked THEN body.unlocked - body.readpos
                           ELSE IF body.infile THEN len ELSE body.endpos - body.readpos
                \* the file gives no more than it holds
                there == Larger(Len(body.data) - body.readpos, 0)
            IN /\ ReadFrom(body.readpos, Lesser(Lesser(len, remains), there))
               /\ UNCHANGED damaged

(* the file is closed; memory grows to size if it may                      *)
ci_cached_file_reset(size) ==
  /\ body.kind = "cached"
  /\ body' = Fresh("cached", IF size >= body.room /\ size <= CI_BODY_MAX_MEM
                             THEN size ELSE body.room, FALSE)
  /\ accepted' = <<>> /\ given' = <<>> /\ ret' = 0 /\ damaged' = FALSE
  /\ UNCHANGED next

(***************************************************************************)
(* ci_simple_file                                                          *)
(***************************************************************************)
(* at the limit, the end goes back to the beginning when something was     *)
(* read                                                                    *)
EntersRing(b) ==
  /\ b.endpos >= b.readpos /\ b.room > 0 /\ b.endpos = b.room
  /\ b.readpos # 0 /\ ~b.locked
NoRoom(b) ==
  /\ b.endpos >= b.readpos /\ b.room > 0 /\ b.endpos = b.room
  /\ (b.readpos = 0 \/ b.locked)

(* one position stays free between the end and the reader in a ring        *)
WriteSize(b, len) ==
  IF b.endpos < b.readpos THEN Lesser(b.readpos - b.endpos - 1, len)
  ELSE IF EntersRing(b) THEN Lesser(b.readpos - 1, len)
  ELSE IF b.room > 0 THEN Lesser(b.room - b.endpos, len) ELSE len

(* an error of do_write has stored nothing                                 *)
Written(w) == Larger(w, 0)

(* w: what do_write writes, the whole or, when it fails, less; -1 is an    *)
(* error                                                                   *)
ci_simple_file_write(new, iseof, w) ==
  /\ body.kind = "simple"
  /\ CASE body.eof -> Returns(0)
       [] ~body.eof /\ new = <<>> ->
            /\ body' = [body EXCEPT !.eof = iseof] /\ ret' = 0
            /\ UNCHANGED <<accepted, given, damaged>>
       [] ~body.eof /\ new # <<>> /\ NoRoom(body) -> Returns(0)
       [] OTHER ->
            LET size == WriteSize(body, Len(new))
                b == IF EntersRing(body) THEN [body EXCEPT !.endpos = 0, !.ring = TRUE]
                     ELSE body
            IN /\ w = size \/ (IoFailures /\ w < size)
               /\ body' = [Stored(b, new, Written(w)) EXCEPT
                             !.eof = iseof /\ w = Len(new)]
               /\ accepted' = accepted \o First(new, Written(w))
               /\ ret' = w /\ UNCHANGED <<given, damaged>>

(* A reader that passes the limit before the writer has stored anything at the
   beginning takes the whole file for unread data. *)
ReadsOld(pos) == body.ring /\ pos = 0 /\ body.endpos = 0

ci_simple_file_read(len) ==
  /\ body.kind = "simple"
  /\ CASE len = 0 -> Returns(0) /\ UNCHANGED next
       [] len > 0 /\ AtEnd -> Returns(IF body.eof THEN CI_EOF ELSE 0) /\ UNCHANGED next
       [] OTHER ->
            LET pos == IF body.room > 0 /\ body.readpos = body.room THEN 0 ELSE body.readpos
                available == IF body.locked THEN body.unlocked - pos
                             ELSE IF body.endpos > pos THEN body.endpos - pos
                             ELSE body.room - pos
                there == Larger(Len(body.data) - pos, 0)
            IN /\ ReadFrom(pos, Lesser(Lesser(available, len), there))
               /\ damaged' = (damaged \/ ReadsOld(pos))

(* a new size of 0 stands for the size of the file                         *)
ci_simple_file_truncate(size) ==
  /\ body.kind = "simple" /\ ~body.ring
  /\ LET new == IF size = 0 THEN Len(body.data) ELSE size
     IN \/ new <= body.endpos /\ Truncate(new)
        \/ /\ new > body.endpos \/ (IoFailures /\ size > 0)
           /\ Returns(0) /\ UNCHANGED next

(* a complete file as a read-only memory buffer, read from its beginning   *)
ci_simple_file_to_membuf ==
  /\ body.kind = "simple" /\ ~body.ring /\ body.eof
  /\ body' = [ci_membuf_new EXCEPT !.data = body.data, !.endpos = body.endpos,
                                   !.eof = TRUE, !.ro = TRUE]
  /\ given' = <<>> /\ ret' = 0 /\ UNCHANGED <<next, accepted, damaged>>

(***************************************************************************)
(* Locks: the same three functions for all bodies                          *)
(***************************************************************************)
lock_all ==
  /\ given = <<>> /\ ~body.ring /\ body.readpos = 0
  /\ body' = [body EXCEPT !.locked = TRUE, !.unlocked = 0]
  /\ UNCHANGED <<next, accepted, given, ret, damaged>>

unlock(len) ==
  /\ body.infile \/ len <= body.endpos
  /\ body' = [body EXCEPT !.unlocked = Larger(body.readpos, len)]
  /\ UNCHANGED <<next, accepted, given, ret, damaged>>

unlock_all ==
  /\ body' = [body EXCEPT !.locked = FALSE, !.unlocked = 0]
  /\ UNCHANGED <<next, accepted, given, ret, damaged>>

Write ==
  \E n \in 0 .. Lesser(MaxLen, MaxUnits + 1 - next), iseof \in BOOLEAN :
    LET new == Numbers(next, n) IN
      /\ next' = next + n
      /\ \/ \E grows \in {TRUE, ~IoFailures} : ci_membuf_write(new, iseof, grows)
         \/ \E io \in {"done"} \cup (IF IoFailures THEN {"nofile", "memfails", "newfails", "short"} ELSE {}) :
              ci_cached_file_write(new, iseof, io)
         \/ \E w \in -1 .. n : ci_simple_file_write(new, iseof, w)

(* the bound on what is given matters only when data are read twice        *)
Read ==
  /\ Len(given) <= MaxUnits
  /\ \E len \in 0..MaxLen :
      ci_membuf_read(len) \/ ci_cached_file_read(len) \/ ci_simple_file_read(len)

BodyNext ==
  \/ Write \/ Read
  \/ \E size \in 0..MaxUnits : \/ ci_membuf_truncate(size) \/ ci_simple_file_truncate(size)
                               \/ unlock(size)
  \/ \E size \in 0 .. CI_BODY_MAX_MEM + 1 : ci_cached_file_reset(size)
  \/ ci_membuf_set_flag \/ ci_simple_file_to_membuf \/ lock_all \/ unlock_all

BodySpec == BodyInit /\ [][BodyNext]_bodyVars

(***************************************************************************)
(* Properties                                                              *)
(***************************************************************************)
(* No assert of body.c fails: the positions are ordered, a lock and a ring do not
   meet, and a lock never lies before the reader. *)
AssertsHold ==
  /\ body.kind = "membuf" =>
       /\ body.endpos >= body.readpos
       /\ body.locked => body.unlocked <= body.endpos
  /\ body.kind = "cached" =>
       /\ ~body.infile => body.room >= body.endpos
       /\ body.locked => body.unlocked >= body.readpos
  /\ body.kind = "simple" =>
       /\ body.room > 0 => body.endpos <= body.room /\ body.readpos <= body.room
       /\ body.endpos < body.readpos => body.ring
       /\ body.locked => ~body.ring /\ (AtEnd \/ body.unlocked >= body.readpos)

(* What the reads give is what the writes have accepted, from the first    *)
(* unit on and in order, and a reader is told CI_EOF only when it has all  *)
(* of it: when memory moves to a file, a limited file becomes a ring,      *)
(* writes are short or fail and positions move back by a truncation.  The  *)
(* exceptions are the two ways in which the code loses or repeats data: a  *)
(* write of a cached file that fails, and a ring whose reader passes the   *)
(* limit first.  In every case AssertsHold.                                *)
GivenInOrder ==
  /\ AssertsHold
  /\ ~damaged => /\ Len(given) <= Len(accepted)
                 /\ given = SubSeq(accepted, 1, Len(given))
                 /\ ret = CI_EOF => given = accepted
=============================================================================
