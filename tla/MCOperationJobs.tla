-------------------------- MODULE MCOperationJobs --------------------------
(***************************************************************************)
(* OperationJobs for TLC: the users of the instances and their ranks.      *)
(***************************************************************************)
EXTENDS OperationJobs, TLC

CONSTANTS owner1,      \* a Discord user with the owner role
          operator1,   \* a console user who may request but not cancel for others
          admin1       \* a console user who may do both

MCRank == owner1 :> 3 @@ operator1 :> 1 @@ admin1 :> 2
MCConsole == {operator1, admin1}

\* The agents are interchangeable.
Symmetry == Permutations(Owner)
=============================================================================
