---------------------------- MODULE MCCategories ----------------------------
(***************************************************************************)
(* Three of the default categories, one of them a sub-category; a user's   *)
(* own categories take names that are free at the time.                    *)
(***************************************************************************)
EXTENDS Categories, TLC

MCDefaults == {"Income", "Salary", "Transfer"}
MCDefaultType == [n \in MCDefaults |-> IF n = "Transfer" THEN "transfer" ELSE "income"]
MCDefaultParent == [n \in MCDefaults |-> IF n = "Salary" THEN "Income" ELSE Nil]

Symmetric == Permutations(CatId) \cup Permutations(TxId)
=============================================================================
