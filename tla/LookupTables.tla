---------------------------- MODULE LookupTables ----------------------------
(***************************************************************************)
(* Lookup tables read from a text file (lookup_table.c,                    *)
(* lookup_file_table.c, hash.c): rows of a key and its values, searched    *)
(* from the first row ("file:") or through a hash table ("hash:").         *)
(* A table is [kind, open, rows]; a row is [key, vals], vals being NoVals  *)
(* for a line that has no ':'.                                             *)
(***************************************************************************)
EXTENDS Naturals, Sequences, FiniteSets, SequencesExt

CONSTANTS
  NoVals,       \* the values of a line that is only a key
  RowHash(_)    \* the hash of a key (ci_hash_compute)

(* What the text of a line gives: a comment or blank line gives no row but *)
(* counts; a key that cannot be made stops the reading.                    *)
read_row(line) ==
  CASE line.kind = "blank" -> <<>>
    [] line.kind = "key"   -> <<[key |-> line.key, vals |-> NoVals]>>
    [] line.kind = "row"   -> <<[key |-> line.key, vals |-> line.vals]>>

(* load_text_table appends the rows in the order of the lines; a line that *)
(* does not parse closes the table.                                        *)
load_text_table(file) ==
  IF \E i \in DOMAIN file : file[i].kind = "bad" THEN [open |-> FALSE, rows |-> <<>>]
  ELSE [open |-> TRUE, rows |-> FlattenSeq([i \in DOMAIN file |-> read_row(file[i])])]

(* ci_lookup_table_create and open.                                        *)
lookup_table_open(kind, file) ==
  [kind |-> kind, open |-> load_text_table(file).open, rows |-> load_text_table(file).rows]

(* ci_hash_add puts an entry before those of its hash value, so a chain    *)
(* holds the rows from the last to the first.                              *)
ci_hash_add(chain, row) == <<row>> \o chain
HashChain(rows, h) ==
  FoldLeft(ci_hash_add, <<>>, SelectSeq(rows, LAMBDA r : RowHash(r.key) = h))

FirstWith(rows, key) ==
  LET at == {i \in DOMAIN rows : rows[i].key = key /\ \A j \in 1..(i - 1) : rows[j].key # key}
  IN  {rows[i] : i \in at}

(* The row that a search finds, as a set of at most one.                   *)
file_table_search(t, key) == FirstWith(t.rows, key)
hash_table_search(t, key) == FirstWith(HashChain(t.rows, RowHash(key)), key)
table_search(t, key) ==
  IF ~t.open THEN {}
  ELSE IF t.kind = "hash" THEN hash_table_search(t, key) ELSE file_table_search(t, key)
=============================================================================
