----------------------------- MODULE Histograms -----------------------------
(***************************************************************************)
(* The histograms of stats.c, which all children share: which bin a value  *)
(* is counted in and which value a bin is shown with, for the four kinds   *)
(* of histogram.  The code computes with doubles.  Here the same           *)
(* quotients, powers and logarithms are compared exactly, as integers;     *)
(* where the exact result is an integer the computed one may be just below *)
(* it, and is then truncated to the integer below.                         *)
(***************************************************************************)
EXTENDS Naturals, Sequences, FiniteSets, FiniteSetsExt

CONSTANTS
  HistoSpecs,     \* what is asked for: [type, items, min, max, customs]
  HistoValues,    \* values that are counted
  MaxUpdates      \* bound: values counted

ASSUME HistogramsAssumption ==
  /\ MaxUpdates \in Nat /\ HistoValues \subseteq Nat
  /\ \A h \in HistoSpecs : h.type \in {"linear", "log", "enum", "custom"} /\ h.items >= 2 /\ h.max > h.min + 1

VARIABLES
  histo,          \* the histogram that has been registered
  bins, other,    \* its counts, and that of the values beyond its bins
  failed,         \* an assertion has failed while a page showed the bins
  updated,        \* ghost: the values that were counted
  cleared, kept   \* ghosts: how many, and the other ones, when the bins were cleared

histoVars == <<histo, bins, other, failed, updated, cleared, kept>>

(* ci_stat_histo_register: never more bins than values.                    *)
ci_stat_histo_register(h) == [h EXCEPT !.items = IF @ > h.max - h.min THEN h.max - h.min ELSE @]

Width(h) == h.max - h.min

(* The integer parts of the n-th root of y and of its logarithm, up to m.  *)
Root(y, n, m) == Max({k \in 0..m : k ^ n <= y})
Log(base, y, m) == Max({j \in 0..m : base ^ j <= y})

(* What truncation of a computed n makes of it, if n is exact and not 0.   *)
Truncated(n, exact) == IF exact /\ n > 0 THEN {n, n - 1} ELSE {n}

(* Mutant: the bin below.                                                  *)
BinsOfDistance_Below(h, d) ==
  IF h.type = "log" THEN {Log(Width(h), d ^ (h.items - 1), h.items)}
  ELSE {((h.items - 1) * d) \div Width(h)}

(* The bins that a value at distance d above min may be counted in.        *)
BinsOfDistance(h, d) ==
  LET n == h.items - 1
      w == Width(h)
      j == Log(w, d ^ n, h.items)
  IN  {b + 1 : b \in IF h.type = "log" THEN Truncated(j, w ^ j = d ^ n)
                     ELSE Truncated((n * d) \div w, (n * d) % w = 0)}

(* ci_stat_histo_update_linear, _log, _enum and _custom_bins: bins and,    *)
(* from items on, the counter beside them.                                 *)
BinsOf(h, v) ==
  CASE h.type \in {"linear", "log"} -> IF v <= h.min THEN {0} ELSE BinsOfDistance(h, v - h.min)
    [] h.type = "enum" -> {IF v >= h.max THEN h.items ELSE v}
    [] h.type = "custom" ->
         {IF v >= h.max THEN h.items ELSE Min({i \in 0..(h.items - 1) : h.customs[i + 1] >= v})}

(* ci_stat_histo_get_bin_value_linear, _log, _enum and _custom_bins.       *)
BinValues(h, i) ==
  LET n == h.items - 1
      w == Width(h)
      r == Root(w ^ i, n, w)
  IN  CASE h.type = "linear" -> {h.min + k : k \in Truncated((i * w) \div n, (i * w) % n = 0)}
        [] h.type = "log" -> {h.min + k : k \in Truncated(r, i > 0 /\ r ^ n = w ^ i)}
        [] h.type = "enum" -> {i}
        [] h.type = "custom" -> {h.customs[i + 1]}

HistogramsInit ==
  /\ \E h \in HistoSpecs : histo = ci_stat_histo_register(h)
  /\ bins = [i \in 0..(histo.items - 1) |-> 0]
  /\ other = 0 /\ failed = FALSE
  /\ updated = <<>> /\ cleared = 0 /\ kept = 0

ci_stat_histo_update(v) ==
  /\ Len(updated) < MaxUpdates
  /\ \E b \in BinsOf(histo, v) :
       IF b \in DOMAIN bins
       THEN bins' = [bins EXCEPT ![b] = @ + 1] /\ UNCHANGED other
       ELSE other' = other + 1 /\ UNCHANGED bins
  /\ updated' = Append(updated, v)
  /\ UNCHANGED <<histo, failed, cleared, kept>>

(* Every child that starts attaches the queue of children and with it      *)
(* initializes the histograms: the bins are cleared, the counter beside    *)
(* them is not.                                                            *)
ci_stat_histo_mem_initialize ==
  /\ bins' = [i \in DOMAIN bins |-> 0]
  /\ cleared' = Len(updated) /\ kept' = other
  /\ UNCHANGED <<histo, other, failed, updated>>

(* A page asserts that a bin shown with the value of the bin before it is  *)
(* empty.                                                                  *)
ci_stat_histo_bins_iterate ==
  /\ failed' = (failed \/ \E i \in DOMAIN bins \ {0} :
                            BinValues(histo, i) \cap BinValues(histo, i - 1) # {} /\ bins[i] # 0)
  /\ UNCHANGED <<histo, bins, other, updated, cleared, kept>>

HistogramsNext ==
  \/ \E v \in HistoValues : ci_stat_histo_update(v)
  \/ ci_stat_histo_mem_initialize \/ ci_stat_histo_bins_iterate

(***************************************************************************)
(* Properties                                                              *)
(***************************************************************************)
(* The first bin above the lowest is shown with the same value as that.    *)
Narrow(h) == h.type = "log" /\ Width(h) <= 2 ^ (h.items - 1)

(* No value is counted twice or lost since a child has last started, which *)
(* clears the bins, and the values that a bin is shown with tell what has  *)
(* been counted since: as many values as a bin and the ones below it have  *)
(* counted lie up to its value, give or take those that are equal to it,   *)
(* or one more where it was truncated (ci_stat_histo_update,               *)
(* ci_stat_histo_mem_initialize, ci_stat_histo_raw_bins_iterate).  The     *)
(* assertions of stats.c:886 and :910 fail only for logarithmic histograms *)
(* with a first bin less than one wide.                                    *)
BinsTellValues ==
  LET counted == (cleared + 1)..Len(updated) IN
  /\ FoldSet(LAMBDA i, n : n + bins[i], other, DOMAIN bins) = kept + Cardinality(counted)
  /\ \A i \in DOMAIN bins : \A v \in BinValues(histo, i) :
       LET upto == FoldSet(LAMBDA j, n : n + bins[j], 0, 0..i)
           most == Max(BinValues(histo, i))
       IN  /\ Cardinality({k \in counted : updated[k] < v}) <= upto
           /\ upto <= Cardinality({k \in counted : updated[k] <= most})
  /\ failed => Narrow(histo)
=============================================================================
