-------------------------- MODULE UninstallReclaim --------------------------
(***************************************************************************)
(* uninstall and reclaimDerivedState of src/bin/orbitlane.js: once the     *)
(* transaction of an uninstall has completed, the same process removes the *)
(* snapshot stores and the vendored hook, unless it reads a report that a  *)
(* later install put there.  Composed with InstallTransaction, whose runs  *)
(* are the other processes.                                                *)
(***************************************************************************)
EXTENDS InstallProperties, FiniteSets

CONSTANTS
    SnapshotKind, \* [Snapshots -> the store that each of them is in]
    Alone         \* whether no run is under way while a reclaim is

ASSUME KindAssumption == SnapshotKind \in [Snapshots -> {"contracts", "runtime-defaults"}]
ASSUME AloneAssumption == Alone \in BOOLEAN

(* The directory of .orbitlane that an asset is in, the directories that a *)
(* reclaim removes, and what goes with each of them.                       *)
DirOf(f) == IF f \in Keys THEN "secrets" ELSE IF f \in Dirs THEN "hook" ELSE SnapshotKind[f]
Kinds == {"contracts", "runtime-defaults", "hook"}
Holds == [k \in Kinds |-> {f \in Assets : DirOf(f) = k}]

VARIABLES
    reclaim,    \* how far each run's reclaim is
    left        \* the kinds it has still to remove

rvars == <<vars, reclaim, left>>

RInit == Init /\ reclaim = [t \in Tx |-> "none"] /\ left = [t \in Tx |-> {}]

Uninstalled(t) == Job[t].op = "uninstall" /\ pc[t] = "done" /\ phase[t] = "completed"
Reclaiming(t) == reclaim[t] = "removing"
Reclaims(t, to, ks) == reclaim' = [reclaim EXCEPT ![t] = to] /\ left' = [left EXCEPT ![t] = ks]

(* A bug: the store goes without a look at the report.                     *)
ReclaimBlindly(t) ==
    /\ Uninstalled(t) /\ reclaim[t] = "none"
    /\ Alone => \A u \in Tx : Settled(u)
    /\ Reclaims(t, "removing", Kinds)
    /\ UNCHANGED vars

(* The report is read after the uninstall committed.                       *)
ReclaimCheck(t) ==
    /\ Uninstalled(t) /\ reclaim[t] = "none"
    /\ Alone => \A u \in Tx : Settled(u)
    /\ IF file["generated"].exists THEN Reclaims(t, "over", {}) ELSE Reclaims(t, "removing", Kinds)
    /\ UNCHANGED vars

KindsBefore(k) == CASE k = "contracts" -> {}
                    [] k = "runtime-defaults" -> {"contracts"}
                    [] k = "hook" -> {"contracts", "runtime-defaults"}

(* A bug: the whole .orbitlane directory is removed.                       *)
RemoveAll(t, k) ==
    /\ Reclaiming(t) /\ k \in left[t] /\ left[t] \cap KindsBefore(k) = {}
    /\ Reclaims(t, "removing", left[t] \ {k})
    /\ file' = [f \in Files |-> IF f \in Assets THEN Absent ELSE file[f]]
    /\ UNCHANGED <<runVars, edits, raced, spent>>

(* rm -rf of one store after the other.                                    *)
ReclaimKind(t, k) ==
    /\ Reclaiming(t) /\ k \in left[t] /\ left[t] \cap KindsBefore(k) = {}
    /\ Reclaims(t, "removing", left[t] \ {k})
    /\ file' = [f \in Files |-> IF f \in Holds[k] THEN Absent ELSE file[f]]
    /\ UNCHANGED <<runVars, edits, raced, spent>>

(* A bug: the end of the work is named as the transaction's is.            *)
ReclaimCompleted(t) ==
    /\ Reclaiming(t) /\ left[t] = {}
    /\ Reclaims(t, "completed", {})
    /\ UNCHANGED vars

ReclaimEnd(t) ==
    /\ Reclaiming(t) /\ left[t] = {}
    /\ Reclaims(t, "over", {})
    /\ UNCHANGED vars

(* A bug: a removal that fails ends the loop.                              *)
ReclaimStops(t, k) ==
    /\ Reclaiming(t) /\ k \in left[t] /\ left[t] \cap KindsBefore(k) = {}
    /\ Fail
    /\ Reclaims(t, "removing", {})
    /\ UNCHANGED <<file, runVars, edits, raced>>

(* A removal that fails is reported and skipped; a killed process leaves   *)
(* the rest where it is.                                                   *)
ReclaimFails(t, k) ==
    /\ Reclaiming(t) /\ k \in left[t] /\ left[t] \cap KindsBefore(k) = {}
    /\ Fail
    /\ Reclaims(t, "removing", left[t] \ {k})
    /\ UNCHANGED <<file, runVars, edits, raced>>

ReclaimKilled(t) ==
    /\ Uninstalled(t) /\ reclaim[t] # "over"
    /\ spent.crashes < MaxCrashes
    /\ Reclaims(t, "over", {})
    /\ spent' = [spent EXCEPT !.crashes = @ + 1]
    /\ UNCHANGED <<file, runVars, edits, raced>>

Run(t) ==
    /\ Start(t) \/ Step(t) \/ Recover(t, t) \/ Fault(t)
    /\ Alone /\ pc[t] = "idle" => \A u \in Tx : ~Reclaiming(u)
    /\ UNCHANGED <<reclaim, left>>

Reclaim(t) ==
    \/ ReclaimCheck(t) \/ ReclaimEnd(t) \/ ReclaimKilled(t)
    \/ \E k \in Kinds : ReclaimKind(t, k) \/ ReclaimFails(t, k)

REnded(t) == Uninstalled(t) => reclaim[t] = "over"

RFinished == Finished /\ (\A t \in Tx : REnded(t)) /\ UNCHANGED <<reclaim, left>>

RNext ==
    \/ \E t \in Tx : Run(t) \/ Reclaim(t)
    \/ RFinished

RSpec == RInit /\ [][RNext]_rvars
-----------------------------------------------------------------------------
RTypeOK ==
    /\ TypeOK
    /\ reclaim \in [Tx -> {"none", "removing", "over"}]
    /\ left \in [Tx -> SUBSET Kinds]

(* A report on disk has its store: when every run is settled, the hook and *)
(* the snapshots that the installed report points to are there.  An        *)
(* uninstall never strands an install that took its place.                 *)
StoreServesReport ==
    (\A t \in Tx : Settled(t)) =>
        \A t \in Tx :
            /\ Job[t].op = "install" /\ phase[t] = "completed"
            /\ file["generated"].owned = Job[t].version
            => \A f \in AssetsOf(t) : file[f].exists

(* No hook is left dangling: when every run is settled, hooks that are in  *)
(* the settings have the report that the guard looks for, and the runtime  *)
(* they start; without either, every call of the Agent tool would fail.    *)
HooksHaveRuntime ==
    (\A t \in Tx : Settled(t)) /\ file["settings"].owned # "none" =>
        /\ file["generated"].owned = file["settings"].owned
        /\ \A d \in Dirs : file[d].exists

(* Uninstalls that are not killed, and that no install follows, leave no   *)
(* derived state but the directories that could not be removed: one that   *)
(* fails does not keep the others.                                         *)
NothingLeft ==
    /\ \A t \in Tx : Settled(t) /\ REnded(t)
    /\ \E t \in Tx : reclaim[t] = "over"
    /\ ~file["generated"].exists /\ spent.crashes = 0
    => Cardinality({k \in Kinds : \E f \in Holds[k] : file[f].exists}) <= spent.faults

(* The HMAC key outlives uninstalls, reclaims and the runs beside them: it *)
(* goes only when a rollback of a run that had found none reaches it.      *)
KeyOutlives ==
    [][\A k \in Keys : file[k].exists /\ ~file'[k].exists =>
        \E t \in Tx : \E p \in ProcsOf(t) :
            pc[p] = "restore" /\ k \in todo[p] \ todo'[p] /\ ~snap[t][k].exists]_rvars
=============================================================================
