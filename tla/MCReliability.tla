---------------------------- MODULE MCReliability ----------------------------
(***************************************************************************)
(* Reliability for TLC: a container and a backup of one host, windows for  *)
(* the container and for all backups, and an SLO of 94 percent or none.    *)
(* With burn windows of 1, 2 and 4 units a unit of downtime is critical    *)
(* while it is the last, then a warning for another unit.  Of the range of *)
(* a page the budget is 2.16 units: the third one exhausts it.             *)
(***************************************************************************)
EXTENDS Reliability, TLC
MCServiceIds == <<"overall", "backup">>
MCEntity(t, n) == [type |-> t, host |-> "h1", name |-> n]
MCEntities == {MCEntity("container", "c1"), MCEntity("backup", "b1")}
MCTarget(s, v, h, n) == [scope |-> s, service |-> v, host |-> h, name |-> n]
MCTargets == {MCTarget("container", None, "h1", "c1"), MCTarget("service", "backup", None, None)}
MCPolicies == {[enabled |-> FALSE, target |-> None], [enabled |-> TRUE, target |-> 94]}
MCBurnWindows == <<1, 2, 4>>
Symmetry == Permutations(Key) \cup Permutations(Reconciler)
=============================================================================
