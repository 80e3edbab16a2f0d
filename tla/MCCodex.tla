------------------------------- MODULE MCCodex -------------------------------
(***************************************************************************)
(* Three models, 2 an alias of the catalog's model 4 and 3 without a       *)
(* price; two children, the first with a copy of its file.  The baseline   *)
(* is the user's, the root's although the user's has no price, the         *)
(* contract's, or unknown.                                                 *)
(***************************************************************************)
EXTENDS CodexEstimate, TLC

Threads == <<"first", "first", "second">>
Prices == (1 :> 3) @@ (4 :> 9)
Aliases == (2 :> 4)
Baselines == {<<4, 0, 0>>, <<3, 2, 1>>, <<0, 3, 1>>, <<0, 3, 0>>}
=============================================================================
