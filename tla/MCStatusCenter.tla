--------------------------- MODULE MCStatusCenter ---------------------------
(***************************************************************************)
(* StatusCenter for TLC: an item that begins at once or a tick later.      *)
(***************************************************************************)
EXTENDS StatusCenter, TLC

MCSchedules == {[from |-> 1, to |-> 2], [from |-> 0, to |-> None]}
MCMaxTime == [k \in Kind |-> IF k = "incident" THEN 1 ELSE 2]
Symmetry == Permutations(Dispatcher)
=============================================================================
