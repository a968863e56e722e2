------------------------------ MODULE Ordering ------------------------------
(***************************************************************************)
(* Listings in the order of a key, as ORDER BY and sorted() make them.     *)
(***************************************************************************)
EXTENDS Integers, FiniteSetsExt, Sequences

(* s with x behind everything that key puts before it or on a par with it. *)
Inserted(x, s, key) ==
  LET n == Cardinality({i \in DOMAIN s : key[s[i]] <= key[x]})
  IN  SubSeq(s, 1, n) \o <<x>> \o SubSeq(s, n + 1, Len(s))

(* The elements of a finite set, in ascending order of key. *)
Ordered(S, key) == FoldSet(LAMBDA x, s : Inserted(x, s, key), <<>>, S)

Ascending(S) == Ordered(S, [x \in S |-> x])
=============================================================================
