------------------------------- MODULE MCHooks -------------------------------
(* Two installs with a guard, one without, and an uninstall, in any order. *)
EXTENDS HookOwnership

Ops == <<"guard", "guard", "guidance", "uninstall">>
=============================================================================
