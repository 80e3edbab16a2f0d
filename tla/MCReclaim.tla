------------------------------ MODULE MCReclaim ------------------------------
(* An install, its uninstall and an install that follows it at once.       *)
EXTENDS UninstallReclaim

OfFirst == [p \in Rivals |-> 1]
Rank == [f \in Assets |-> IF f \in Snapshots THEN 0 ELSE IF f \in Dirs THEN 1 ELSE 2]
Install(v, contract) ==
    [op |-> "install", version |-> v, hooks |-> TRUE,
     files |-> Text \cup {contract, "defaults"} \cup Dirs \cup Keys]
Jobs3 == <<Install("v1", "contract1"),
           [op |-> "uninstall", version |-> "v1", hooks |-> FALSE, files |-> Text],
           Install("v2", "contract2")>>
KindOf == [s \in Snapshots |-> IF s = "defaults" THEN "runtime-defaults" ELSE "contracts"]
=============================================================================
