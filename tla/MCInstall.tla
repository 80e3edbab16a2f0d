------------------------------ MODULE MCInstall ------------------------------
(***************************************************************************)
(* A small instance of InstallTransaction: an install of the Claude target *)
(* (contract snapshot, hook runtime, HMAC key, settings) and an uninstall, *)
(* in either order, on each of the machines of Init.                       *)
(***************************************************************************)
EXTENDS InstallProperties

(* A rival is given the manifest of the first run.                         *)
OfFirst == [p \in Rivals |-> 1]

Rank == [f \in Assets |-> IF f \in Snapshots THEN 0 ELSE IF f \in Dirs THEN 1 ELSE 2]

Guarded == [op |-> "install", version |-> "v1", hooks |-> TRUE, files |-> Files]
Removal == [op |-> "uninstall", version |-> "v1", hooks |-> FALSE, files |-> Text]
Jobs2 == <<Guarded, Removal>>
=============================================================================
