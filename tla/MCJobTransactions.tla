------------------------- MODULE MCJobTransactions -------------------------
(***************************************************************************)
(* JobTransactions for TLC: sessions and owners are interchangeable.       *)
(***************************************************************************)
EXTENDS JobTransactions, TLC

Symmetry == Permutations(Tx) \cup Permutations(Owner)
=============================================================================
