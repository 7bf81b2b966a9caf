------------------------------- MODULE Fifo -------------------------------
(***************************************************************************)
(* What a ring buffer promises: a bounded first-in first-out queue.  Each  *)
(* step is one call: size is how much the caller offered or asked for, and *)
(* moved the data that went in or came out.                                *)
(***************************************************************************)
EXTENDS Integers, Sequences

CONSTANT Size   \* units that the queue holds at most
VARIABLES q, size, moved

Init == q = <<>> /\ size = 0 /\ moved = <<>>

(* A write takes at most what is offered and what fits, and something unless
   nothing is offered or nothing fits. *)
Put ==
  /\ q' = q \o moved'
  /\ Len(q') <= Size /\ Len(moved') <= size'
  /\ size' > 0 /\ Len(q) < Size => moved' # <<>>

(* A read gives the oldest data, at most what was asked for, and something
   unless nothing is asked for or nothing is there. *)
Get ==
  /\ q = moved' \o q'
  /\ Len(moved') <= size'
  /\ size' > 0 /\ q # <<>> => moved' # <<>>

Next == Put \/ Get

Spec == Init /\ [][Next]_<<q, size, moved>>
=============================================================================
