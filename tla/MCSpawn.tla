------------------------------- MODULE MCSpawn -------------------------------
(***************************************************************************)
(* A project and the global layer, two roles and three lanes.  The first   *)
(* contract routes one role to a model that may be injected; without       *)
(* defaults it is one of an earlier version, that binds only the lanes it  *)
(* uses.  The second routes that role by the defaults to a model that may  *)
(* not be injected, and another role.                                      *)
(***************************************************************************)
EXTENDS SpawnGuard, TLC

RoleLanes ==
    LET Run(other) == ("executor" :> "terra") @@ ("explore" :> other) IN
    ("c1" :> Run(None)) @@ ("c2" :> Run("sol"))

Bind(terra, sol, luna) == ("terra" :> terra) @@ ("sol" :> sol) @@ ("luna" :> luna)
Bindings == ("c1" :> Bind("opus", None, "custom")) @@ ("c2" :> Bind(None, "opus", "opus"))
Released == "d" :> Bind("custom", "opus", "unsafe")

(* Every choice of the environment with every choice of the call or a      *)
(* choice of its override; another role; no role.                          *)
SomeCalls ==
    {NoCall} \cup
    {in \in Inputs :
        /\ in.role # None /\ in.override # "opus"
        /\ (in.call = "unset" \/ in.override = "unset")
        /\ (in.role = "executor" \/ (in.env = "unset" /\ in.override = "unset"))}
=============================================================================
