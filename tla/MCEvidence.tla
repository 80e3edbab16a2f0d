------------------------------ MODULE MCEvidence -----------------------------
(***************************************************************************)
(* Two installs of the project, p1 and p2, and one of the global layer, g. *)
(* The call c1 runs the hooks of p1 and p2, stacked in the settings; the   *)
(* call c2 runs those of p2 and of g.                                      *)
(***************************************************************************)
EXTENDS EvidenceReaders, TLC

Layers == ("p1" :> "project") @@ ("p2" :> "project") @@ ("g" :> "global")
Sessions == ("c1" :> {"p1", "p2"}) @@ ("c2" :> {"p2", "g"})
Prices == (1 :> 1)
NoAliases == [m \in {} |-> m]
=============================================================================
