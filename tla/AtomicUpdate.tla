---------------------------- MODULE AtomicUpdate ----------------------------
(***************************************************************************)
(* What a run of the installer promises for one target: the files it owns  *)
(* change together or not at all.  A run is decided once, and a run that   *)
(* is refused leaves the store as it found it.  Between two runs the user  *)
(* goes on editing the files that are shared with him.                     *)
(***************************************************************************)
EXTENDS Naturals

CONSTANTS
    Tx,             \* runs of install or uninstall against one target
    Files,          \* the files of the target
    Shared,         \* those the user edits too
    Effect(_, _)    \* Effect(t, s): the store after t, when t finds store s

VARIABLES
    store,          \* the contents of every file
    decided         \* what became of each run

absVars == <<store, decided>>

Pending == [t \in Tx |-> "pending"]

AInit == decided = Pending

(* The run takes effect on every file in one step.                         *)
Apply(t) ==
    /\ decided[t] = "pending"
    /\ store' = Effect(t, store)
    /\ decided' = [decided EXCEPT ![t] = "applied"]

(* The run is refused, rolled back or recovered: no file changes.          *)
Refuse(t) ==
    /\ decided[t] = "pending"
    /\ decided' = [decided EXCEPT ![t] = "refused"]
    /\ UNCHANGED store

(* The user saves a shared file: what the installer owns in it stays.      *)
Edit(f) ==
    /\ store' = [store EXCEPT ![f].exists = TRUE, ![f].user = @ + 1]
    /\ UNCHANGED decided

ANext ==
    \/ \E t \in Tx : Apply(t) \/ Refuse(t)
    \/ \E f \in Shared : Edit(f)

ASpec == AInit /\ [][ANext]_absVars
=============================================================================
