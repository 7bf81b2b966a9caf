----------------------------- MODULE ProofLemmas -----------------------------
(***************************************************************************)
(* Facts about numbers and sequences that the proofs of several components *)
(* need.                                                                   *)
(***************************************************************************)
EXTENDS Integers, Sequences, FiniteSetTheorems, SequenceTheorems, TLAPS

(* A set of natural numbers that is not empty has a least element, which   *)
(* is what a search for the first free slot of a table finds.  (The sets   *)
(* 0..x are finite, and finite sets are well founded under inclusion.)     *)
LEMMA LeastOfNats ==
  ASSUME NEW T, T \subseteq Nat, T # {}
  PROVE  \E x \in T : \A y \in T : x <= y
  <1>. DEFINE below == {0..x : x \in T}
  <1>1. IsWellFoundedOn(StrictSubsetOrdering(Nat), FiniteSubsetsOf(Nat))
    BY FS_StrictSubsetOrderingWellFounded
  <1>2. \A x \in T : IsFiniteSet(0..x) /\ 0..x \subseteq Nat
    BY FS_Interval
  <1>3. below \subseteq FiniteSubsetsOf(Nat) /\ below # {}
    BY <1>2 DEF FiniteSubsetsOf
  <1>. HIDE DEF below
  <1>4. PICK b \in below : \A c \in below : ~(<<c, b>> \in StrictSubsetOrdering(Nat))
    BY <1>1, <1>3, WFMin
  <1>5. PICK x \in T : b = 0..x
    BY <1>4 DEF below
  <1>6. ASSUME NEW y \in T, y < x PROVE FALSE
    <2>1. 0..y \in below
      BY DEF below
    <2>2. x \in 0..x /\ x \notin 0..y
      BY <1>6
    <2>3. 0..y \subseteq 0..x /\ 0..y # 0..x /\ 0..y \in SUBSET Nat /\ 0..x \in SUBSET Nat
      BY <1>6, <2>2
    <2>4. <<0..y, b>> \in StrictSubsetOrdering(Nat)
      BY <2>3, <1>5 DEF StrictSubsetOrdering
    <2>. QED
      BY <2>1, <2>4, <1>4
  <1>. QED
    BY <1>6

(* The first n elements of a sequence and the rest.                        *)
LEMMA SplitSeq ==
  ASSUME NEW S, NEW s \in Seq(S), NEW n \in 0 .. Len(s)
  PROVE  /\ SubSeq(s, 1, n) \in Seq(S) /\ Len(SubSeq(s, 1, n)) = n
         /\ \A i \in 1 .. n : SubSeq(s, 1, n)[i] = s[i]
         /\ SubSeq(s, n + 1, Len(s)) \in Seq(S) /\ Len(SubSeq(s, n + 1, Len(s))) = Len(s) - n
         /\ \A i \in 1 .. Len(s) - n : SubSeq(s, n + 1, Len(s))[i] = s[n + i]
         /\ SubSeq(s, 1, n) \o SubSeq(s, n + 1, Len(s)) = s
  <1>1. Len(s) \in Nat /\ \A i \in 1 .. Len(s) : s[i] \in S
    BY ElementOfSeq, LenProperties
  <1>2. /\ SubSeq(s, 1, n) \in Seq(S) /\ Len(SubSeq(s, 1, n)) = n
        /\ \A i \in 1 .. n : SubSeq(s, 1, n)[i] = s[i]
    <2>1. \A i \in 1 .. n : s[i] \in S
      BY <1>1
    <2>. QED
      BY <1>1, <2>1, SubSeqProperties
  <1>3. /\ SubSeq(s, n + 1, Len(s)) \in Seq(S) /\ Len(SubSeq(s, n + 1, Len(s))) = Len(s) - n
        /\ \A i \in 1 .. Len(s) - n : SubSeq(s, n + 1, Len(s))[i] = s[n + i]
    <2>1. n + 1 \in Int /\ \A i \in n + 1 .. Len(s) : s[i] \in S
      BY <1>1
    <2>. QED
      BY <1>1, <2>1, SubSeqProperties
  <1>4. SubSeq(s, 1, n) \o SubSeq(s, n + 1, Len(s)) = s
    <2>1. 1 \in 1 .. Len(s) + 1 /\ n \in 1 - 1 .. Len(s) /\ Len(s) \in n .. Len(s)
      BY <1>1
    <2>2. SubSeq(s, 1, n) \o SubSeq(s, n + 1, Len(s)) = SubSeq(s, 1, Len(s))
      BY <2>1, ConcatAdjacentSubSeq
    <2>. QED
      BY <2>2, SubSeqFull
  <1>. QED
    BY <1>2, <1>3, <1>4

(* A sequence over a set is one over any larger set.                       *)
LEMMA SeqOver ==
  ASSUME NEW S, NEW T, S \subseteq T, NEW s \in Seq(S)
  PROVE  s \in Seq(T)
  BY SeqMonotonic

(* A sequence of one element.                                              *)
LEMMA OneElement ==
  ASSUME NEW S, NEW e \in S
  PROVE  <<e>> \in Seq(S) /\ Len(<<e>>) = 1 /\ <<e>>[1] = e /\ <<e>> # <<>>
  OBVIOUS

(* The front of one sequence moved to the end of another.                  *)
LEMMA MoveFront ==
  ASSUME NEW S, NEW r \in Seq(S), NEW s \in Seq(S), NEW n \in 0 .. Len(s)
  PROVE  (r \o SubSeq(s, 1, n)) \o SubSeq(s, n + 1, Len(s)) = r \o s
  <1>. DEFINE a == SubSeq(s, 1, n)
              b == SubSeq(s, n + 1, Len(s))
  <1>1. a \in Seq(S) /\ b \in Seq(S)
    BY SplitSeq
  <1>2. a \o b = s
    BY SplitSeq
  <1>. HIDE DEF a, b
  <1>3. (r \o a) \o b = r \o (a \o b)
    BY <1>1, ConcatAssociative, SMTT(40)
  <1>. QED
    BY <1>2, <1>3 DEF a, b
=============================================================================
