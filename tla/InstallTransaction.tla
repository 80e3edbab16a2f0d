------------------------- MODULE InstallTransaction -------------------------
(***************************************************************************)
(* runTarget and recoverRouting of src/src/installer/index.js: a run of    *)
(* install or uninstall against one target, one action for every step that *)
(* reads or renames a file, with the user editing the shared files, steps  *)
(* that fail, a process that is killed and an operator who recovers.       *)
(*                                                                         *)
(* A file's content is the part the user wrote (user, the number of his    *)
(* last edit) and the part the installer owns (owned, the version of the   *)
(* run that wrote it).                                                     *)
(***************************************************************************)
EXTENDS Naturals

CONSTANTS
    Tx,             \* runs: invocations of installOne or uninstallOne
    Versions,       \* what a run can install: contract, package and hooks
    Job,            \* [Tx -> what the run was asked to do]
    Dirs,           \* managed assets of kind "directory" (the hook runtime)
    Snapshots,      \* assets whose content the adapter gives (contracts)
    Keys,           \* assets kept when they exist (the telemetry HMAC key)
    AssetRank,      \* the order of adapter.managedAssets
    TextKey,        \* whether the bytes of a key happen to be UTF-8
    Serial,         \* whether a run starts only when the others are settled
    EditPhases,     \* phases of unsettled runs in which the user may edit
    MaxEdits, MaxTampers, MaxFaults, MaxCrashes,  \* bounds of a behaviour
    Rivals,         \* `recover` commands run beside a process that is at work
    RivalOf         \* [Rivals -> the run whose manifest it is given]

Text == {"instruction", "generated", "settings"}
Assets == Dirs \cup Snapshots \cup Keys
Files == Text \cup Assets
UserFiles == {"instruction", "settings"}

Ops == {"install", "uninstall"}
Jobs == [op : Ops, version : Versions, hooks : BOOLEAN, files : SUBSET Files]

Owners == Versions \cup {"none", "old", "fresh", "torn", "garbled", "foreign"}
Contents == [exists : BOOLEAN, user : Nat, owned : Owners]
Absent == [exists |-> FALSE, user |-> 0, owned |-> "none"]
Written(v) == [exists |-> TRUE, user |-> 0, owned |-> v]
Owning(s, v) == [exists |-> TRUE, user |-> s.user, owned |-> v]

Phases == {"none", "prepared", "committing", "completed", "aborted",
           "rolled_back", "recovered"}
Terminal == {"completed", "aborted", "rolled_back", "recovered"}
Procs == Tx \cup Rivals
ProcsOf(t) == {t} \cup {p \in Rivals : RivalOf[p] = t}
PCs == {"idle", "snap", "backup", "stage", "validate", "check", "commit",
        "place", "abort", "restore", "copy", "done", "dead"}

ASSUME JobAssumption == Job \in [Tx -> Jobs]
ASSUME RivalAssumption == RivalOf \in [Rivals -> Tx] /\ Rivals \cap Tx = {}
ASSUME TextManaged == \A t \in Tx : {"instruction", "generated"} \subseteq Job[t].files
ASSUME NamesApart ==
    /\ Text \cap Assets = {}
    /\ Dirs \cap (Snapshots \cup Keys) = {} /\ Snapshots \cap Keys = {}
    /\ Versions \cap {"none", "old", "fresh", "torn", "garbled", "foreign"} = {}
ASSUME RankAssumption == AssetRank \in [Assets -> Nat]
ASSUME FlagAssumption == TextKey \in BOOLEAN /\ Serial \in BOOLEAN
ASSUME BoundAssumption ==
    {MaxEdits, MaxTampers, MaxFaults, MaxCrashes} \subseteq Nat

VARIABLES
    file,       \* what is on disk at each managed path
    phase,      \* phase of each run's manifest on disk, "none" before it exists
    pc,         \* where each process is: a run's, and after it has gone that
                \* of a later `recover`; a rival's
    todo,       \* files its current loop has still to visit
    snap,       \* what a run read of each file: the snapshots and backups
    intact,     \* whether its staged files still have the staged hashes
    recovers,   \* whether the process is `recover` and not the run itself
    failed,     \* whether a step of its rollback failed
    edits,      \* number of edits the user made to each file
    raced,      \* files the user edited where no check can see it any more
    spent       \* tampers, faults and crashes so far

runVars == <<phase, pc, todo, snap, intact, recovers, failed>>
vars == <<file, runVars, edits, raced, spent>>
-----------------------------------------------------------------------------
(* Orders of the loops.  Each is the set of files that come before f.      *)

AssetsBefore(f) == {g \in Assets : AssetRank[g] < AssetRank[f]}

(* A bug: the report is renamed before the settings.                       *)
ReportBeforeSettings(op, f) ==
    CASE f \in Assets        -> AssetsBefore(f)
      [] f = "instruction"   -> Assets
      [] f = "generated"     -> Assets \cup {"instruction"}
      [] f = "settings"      -> Assets \cup {"instruction", "generated"}

(* An install writes the report last, an uninstall removes it before it    *)
(* rewrites the settings.                                                  *)
CommitsBefore(op, f) ==
    CASE f \in Assets        -> AssetsBefore(f)
      [] f = "instruction"   -> Assets
      [] f = "settings"      -> Assets \cup {"instruction"} \cup
                                (IF op = "install" THEN {} ELSE {"generated"})
      [] f = "generated"     -> Assets \cup {"instruction"} \cup
                                (IF op = "install" THEN {"settings"} ELSE {})

(* Snapshots and backups are taken, and restored, in the manifest's order. *)
BackupsBefore(f) ==
    CASE f = "instruction"   -> {}
      [] f = "generated"     -> {"instruction"}
      [] f = "settings"      -> {"instruction", "generated"}
      [] f \in Assets        -> Text \cup AssetsBefore(f)

TextOf(t) == Job[t].files \cap Text
AssetsOf(t) == Job[t].files \cap Assets

(* A bug: an uninstall has no path of the settings, and leaves its hooks.   *)
AfterGuidance(t, f, s) ==
    LET job == Job[t] IN
    CASE f \in Dirs \cup Snapshots -> Written(job.version)
      [] f \in Keys                -> IF s.exists THEN s ELSE Written("fresh")
      [] f = "generated"           -> IF job.op = "install" THEN Written(job.version) ELSE Absent
      [] f = "instruction"         -> Owning(s, IF job.op = "install" THEN job.version ELSE "none")
      [] f = "settings"            -> IF job.hooks THEN Owning(s, job.version) ELSE s

(* The content a run stages for f when it found s there.                   *)
After(t, f, s) ==
    LET job == Job[t] IN
    CASE f \in Dirs \cup Snapshots -> Written(job.version)
      [] f \in Keys                -> IF s.exists THEN s ELSE Written("fresh")
      [] f = "generated"           -> IF job.op = "install" THEN Written(job.version) ELSE Absent
      [] f = "instruction"         -> Owning(s, IF job.op = "install" THEN job.version ELSE "none")
      [] f = "settings"            -> Owning(s, IF job.hooks THEN job.version ELSE "none")

(* isUnchanged compares contents: a missing instruction file is empty text. *)
SameContent(f, s, a) ==
    s.user = a.user /\ s.owned = a.owned /\ (f = "instruction" \/ s.exists = a.exists)

Unchanged(t) ==
    /\ \A f \in TextOf(t) : SameContent(f, snap[t][f], After(t, f, snap[t][f]))
    /\ Job[t].op = "install" => AssetsOf(t) = {}

(* restoreBackup reads the backup of a single file as UTF-8 text: bytes    *)
(* that are not UTF-8 come back as replacement characters.                 *)
Utf8(f, c) == IF f \in Keys /\ c.exists /\ ~TextKey THEN [c EXCEPT !.owned = "garbled"] ELSE c

(* What the commit of f leaves there: its stage, or for the report of an    *)
(* uninstall nothing, unless the snapshot saw none.                         *)
Removes(t, f) == Job[t].op = "uninstall" /\ f = "generated"
Staged(t, f) ==
    IF Removes(t, f) THEN IF snap[t][f].exists THEN Absent ELSE file[f]
    ELSE IF intact[t] THEN After(t, f, snap[t][f]) ELSE Written("foreign")

(* The rename that takes the report away finds it gone.                     *)
Vanished(t, f) == Removes(t, f) /\ snap[t][f].exists /\ ~file[f].exists

(* A directory that somebody put back after it was renamed away; one that   *)
(* is being filled may still be empty.                                      *)
Refilled(f) == file[f].exists /\ file[f].owned # "torn"

(* A machine without OrbitLane, with or without files of the user; one      *)
(* with an older install; one whose install was uninstalled, where the key  *)
(* stays.                                                                   *)
Machine(had, users) ==
    [f \in Files |-> IF f \in had THEN Written("old")
                     ELSE IF f \in users THEN Written("none") ELSE Absent]
Machines ==
    {Machine({}, {}), Machine({}, UserFiles), Machine(Keys, UserFiles),
     Machine(Files \ Snapshots, {})}

Init ==
    /\ file \in Machines
    /\ phase = [t \in Tx |-> "none"]
    /\ pc = [p \in Procs |-> "idle"]
    /\ todo = [p \in Procs |-> {}]
    /\ snap = [t \in Tx |-> [f \in Files |-> Absent]]
    /\ intact = [t \in Tx |-> TRUE]
    /\ recovers = [p \in Procs |-> FALSE]
    /\ failed = [p \in Procs |-> FALSE]
    /\ edits = [f \in UserFiles |-> 0]
    /\ raced = {}
    /\ spent = [tampers |-> 0, faults |-> 0, crashes |-> 0]
-----------------------------------------------------------------------------
Gone(p) == pc[p] \in {"idle", "done", "dead"}
Settled(t) == phase[t] # "committing" /\ \A p \in ProcsOf(t) : Gone(p)

Goto(t, from, to) == pc[t] = from /\ pc' = [pc EXCEPT ![t] = to]
Put(f, c) == file' = [file EXCEPT ![f] = c]
Mark(t, p) == phase' = [phase EXCEPT ![t] = p]
Loop(t, fs) == todo' = [todo EXCEPT ![t] = fs]
Visit(t, f, before) ==
    /\ f \in todo[t] /\ todo[t] \cap before = {}
    /\ todo' = [todo EXCEPT ![t] = @ \ {f}]
Read(t, f) == snap' = [snap EXCEPT ![t][f] = file[f]]

Start(t) ==
    /\ Serial => \A u \in Tx \ {t} : Settled(u)
    /\ Goto(t, "idle", "snap")
    /\ Loop(t, TextOf(t))
    /\ UNCHANGED <<file, phase, snap, intact, recovers, failed, edits, raced, spent>>

Snapshot(t, f) ==
    /\ pc[t] = "snap"
    /\ Visit(t, f, BackupsBefore(f))
    /\ Read(t, f)
    /\ UNCHANGED <<file, phase, pc, intact, recovers, failed, edits, raced, spent>>

(* The diff is made of the snapshots alone; nothing to write ends the run. *)
Plan(t) ==
    /\ todo[t] = {}
    /\ Goto(t, "snap", IF Unchanged(t) THEN "done" ELSE "backup")
    /\ Loop(t, IF Unchanged(t) THEN {} ELSE AssetsOf(t))
    /\ UNCHANGED <<file, phase, snap, intact, recovers, failed, edits, raced, spent>>

BackupAsset(t, f) ==
    /\ pc[t] = "backup"
    /\ Visit(t, f, {})
    /\ Read(t, f)
    /\ UNCHANGED <<file, phase, pc, intact, recovers, failed, edits, raced, spent>>

Prepare(t) ==
    /\ todo[t] = {}
    /\ Goto(t, "backup", "stage")
    /\ Mark(t, "prepared")
    /\ UNCHANGED <<file, todo, snap, intact, recovers, failed, edits, raced, spent>>

Stage(t) ==
    /\ Goto(t, "stage", "validate")
    /\ UNCHANGED <<file, phase, todo, snap, intact, recovers, failed, edits, raced, spent>>

(* Bugs: the second round of checks trusts the stages, or the originals,   *)
(* that the first round saw.                                               *)
ValidateOnce(t) ==
    /\ Goto(t, "validate", IF intact[t] \/ phase[t] # "prepared" THEN "check" ELSE "abort")
    /\ Loop(t, TextOf(t))
    /\ UNCHANGED <<file, phase, snap, intact, recovers, failed, edits, raced, spent>>
CheckOnce(t) ==
    /\ Goto(t, "validate", IF intact[t] THEN "check" ELSE "abort")
    /\ Loop(t, IF intact[t] /\ phase[t] = "prepared" THEN TextOf(t) ELSE {})
    /\ UNCHANGED <<file, phase, snap, intact, recovers, failed, edits, raced, spent>>

(* validateStages, before and again after the manifest says "committing".  *)
(* The phase tells the rounds apart: it never is "prepared" again, though   *)
(* a rival may have written "recovered" by then.                            *)
ValidateStages(t) ==
    /\ Goto(t, "validate", IF intact[t] THEN "check" ELSE "abort")
    /\ Loop(t, IF intact[t] THEN TextOf(t) ELSE {})
    /\ UNCHANGED <<file, phase, snap, intact, recovers, failed, edits, raced, spent>>

(* originalsMatch re-reads the text files, in any order.                   *)
CheckOriginal(t, f) ==
    /\ pc[t] = "check"
    /\ \/ file[f] = snap[t][f] /\ Visit(t, f, {}) /\ UNCHANGED pc
       \/ /\ f \in todo[t] /\ file[f] # snap[t][f]
          /\ pc' = [pc EXCEPT ![t] = "abort"] /\ Loop(t, {})
    /\ UNCHANGED <<file, phase, snap, intact, recovers, failed, edits, raced, spent>>

MarkCommitting(t) ==
    /\ phase[t] = "prepared" /\ todo[t] = {}
    /\ Goto(t, "check", "validate")
    /\ Mark(t, "committing")
    /\ UNCHANGED <<file, todo, snap, intact, recovers, failed, edits, raced, spent>>

(* A bug: the commit starts without "committing" on disk.                  *)
BeginUnmarked(t) ==
    /\ todo[t] = {}
    /\ Goto(t, "check", "commit")
    /\ Loop(t, Job[t].files)
    /\ UNCHANGED <<file, phase, snap, intact, recovers, failed, edits, raced, spent>>

BeginCommit(t) ==
    /\ phase[t] # "prepared" /\ todo[t] = {}
    /\ Goto(t, "check", "commit")
    /\ Loop(t, Job[t].files)
    /\ UNCHANGED <<file, phase, snap, intact, recovers, failed, edits, raced, spent>>

CommitFile(t, f) ==
    /\ pc[t] = "commit" /\ f \notin Dirs /\ ~Vanished(t, f)
    /\ Visit(t, f, CommitsBefore(Job[t].op, f))
    /\ Put(f, Staged(t, f))
    /\ UNCHANGED <<phase, pc, snap, intact, recovers, failed, edits, raced, spent>>

(* A directory is renamed away, then the stage takes its place.  One that   *)
(* two processes fill at a time holds what the last of them puts there.     *)
RetireDir(t, f) ==
    /\ f \in Dirs \cap todo[t] /\ todo[t] \cap CommitsBefore(Job[t].op, f) = {}
    /\ Goto(t, "commit", "place")
    /\ Put(f, Absent)
    /\ UNCHANGED <<phase, todo, snap, intact, recovers, failed, edits, raced, spent>>

PlaceDir(t, f) ==
    /\ f \in Dirs /\ ~Refilled(f)
    /\ Visit(t, f, CommitsBefore(Job[t].op, f))
    /\ Goto(t, "place", "commit")
    /\ Put(f, Staged(t, f))
    /\ UNCHANGED <<phase, snap, intact, recovers, failed, edits, raced, spent>>

(* No rename takes a file that is not there, or replaces a directory that   *)
(* has entries.                                                             *)
FailRename(t, f) ==
    /\ f \in todo[t] /\ todo[t] \cap CommitsBefore(Job[t].op, f) = {}
    /\ \/ Vanished(t, f) /\ Goto(t, "commit", "restore")
       \/ f \in Dirs /\ file[f].exists /\ Goto(t, "place", "restore")
    /\ Loop(t, Job[t].files)
    /\ UNCHANGED <<file, phase, snap, intact, recovers, failed, edits, raced, spent>>

(* A bug: the manifest is given the status of the outcome as its phase.    *)
CompleteAsStatus(t) ==
    /\ todo[t] = {}
    /\ Goto(t, "commit", "done")
    /\ Mark(t, "installed")
    /\ UNCHANGED <<file, todo, snap, intact, recovers, failed, edits, raced, spent>>

Complete(t) ==
    /\ todo[t] = {}
    /\ Goto(t, "commit", "done")
    /\ Mark(t, "completed")
    /\ UNCHANGED <<file, todo, snap, intact, recovers, failed, edits, raced, spent>>

Abort(t) ==
    /\ Goto(t, "abort", "done")
    /\ Mark(t, "aborted")
    /\ UNCHANGED <<file, todo, snap, intact, recovers, failed, edits, raced, spent>>
-----------------------------------------------------------------------------
(* rollback of run t by process p: by the run itself when its commit fails, *)
(* or by recoverRouting.                                                    *)

RestoreFile(p, t, f) ==
    /\ pc[p] = "restore" /\ f \notin Dirs
    /\ Visit(p, f, BackupsBefore(f))
    /\ Put(f, Utf8(f, snap[t][f]))
    /\ UNCHANGED <<phase, pc, snap, intact, recovers, failed, edits, raced, spent>>

(* A directory is removed and copied back entry by entry.                  *)
ClearDir(p, f) ==
    /\ f \in Dirs \cap todo[p] /\ todo[p] \cap BackupsBefore(f) = {}
    /\ Goto(p, "restore", "copy")
    /\ Put(f, Written("torn"))
    /\ UNCHANGED <<phase, todo, snap, intact, recovers, failed, edits, raced, spent>>

CopyDir(p, t, f) ==
    /\ f \in Dirs
    /\ Visit(p, f, BackupsBefore(f))
    /\ Goto(p, "copy", "restore")
    /\ Put(f, snap[t][f])
    /\ UNCHANGED <<phase, snap, intact, recovers, failed, edits, raced, spent>>

(* Bugs: a rollback with errors is terminal too; one with errors never     *)
(* gives up.                                                               *)
EndAnyRollback(p, t) ==
    /\ todo[p] = {}
    /\ Goto(p, "restore", "done")
    /\ Mark(t, IF recovers[p] THEN "recovered" ELSE "rolled_back")
    /\ UNCHANGED <<file, todo, snap, intact, recovers, failed, edits, raced, spent>>
EndCleanRollback(p, t) == ~failed[p] /\ EndAnyRollback(p, t)

(* Only a rollback with no errors gets a terminal phase.                   *)
EndRollback(p, t) ==
    /\ todo[p] = {}
    /\ Goto(p, "restore", "done")
    /\ phase' = [phase EXCEPT ![t] = IF failed[p] THEN @
                                     ELSE IF recovers[p] THEN "recovered" ELSE "rolled_back"]
    /\ UNCHANGED <<file, todo, snap, intact, recovers, failed, edits, raced, spent>>

(* A `recover` given the manifest of run t takes the place of a process    *)
(* that is gone, or works beside the one that is there.                    *)
Comes(p, t) == IF p = t THEN Gone(t) ELSE Gone(p) /\ ~Gone(t)
BeginRecover(p, fs) ==
    /\ pc' = [pc EXCEPT ![p] = "restore"]
    /\ Loop(p, fs)
    /\ recovers' = [recovers EXCEPT ![p] = TRUE]
    /\ failed' = [failed EXCEPT ![p] = FALSE]
    /\ UNCHANGED <<file, phase, snap, intact, edits, raced, spent>>

(* Bugs: `recover` acts on any phase; it forgets the managed assets; it    *)
(* serves only a process that was killed.                                  *)
RecoverAny(p, t) ==
    /\ Comes(p, t) /\ phase[t] # "none"
    /\ BeginRecover(p, Job[t].files)
RecoverText(p, t) ==
    /\ Comes(p, t) /\ phase[t] = "committing"
    /\ BeginRecover(p, TextOf(t))
RecoverKilled(p, t) ==
    /\ Comes(p, t) /\ pc[p] = "dead" /\ phase[t] = "committing"
    /\ BeginRecover(p, Job[t].files)

(* recoverRouting: any phase but "committing" is returned untouched.  What *)
(* has become of the run's process is nowhere asked.                       *)
Recover(p, t) ==
    /\ Comes(p, t)
    /\ phase[t] = "committing"
    /\ BeginRecover(p, Job[t].files)
-----------------------------------------------------------------------------
(* What the environment does: a step fails, the process is killed, the     *)
(* user edits, somebody changes a staged file.                             *)

Fail == spent.faults < MaxFaults /\ spent' = [spent EXCEPT !.faults = @ + 1]

(* The catch clause of runTarget, by how far the run has come.             *)
FailBefore(t) ==
    /\ Fail
    /\ \/ pc[t] \in {"snap", "backup"} /\ pc' = [pc EXCEPT ![t] = "done"]
       \/ pc[t] \in {"stage", "validate", "check"} /\ pc' = [pc EXCEPT ![t] = "abort"]
    /\ Loop(t, {})
    /\ UNCHANGED <<file, phase, snap, intact, recovers, failed, edits, raced>>

FailCommit(t) ==
    /\ Fail
    /\ pc[t] \in {"commit", "place"}
    /\ pc' = [pc EXCEPT ![t] = "restore"]
    /\ Loop(t, Job[t].files)
    /\ UNCHANGED <<file, phase, snap, intact, recovers, failed, edits, raced>>

(* rollback notes the error and goes on with the next backup.              *)
FailRestore(p, f) ==
    /\ Fail
    /\ pc[p] \in {"restore", "copy"}
    /\ pc[p] = "copy" => f \in Dirs
    /\ Visit(p, f, BackupsBefore(f))
    /\ pc' = [pc EXCEPT ![p] = "restore"]
    /\ failed' = [failed EXCEPT ![p] = TRUE]
    /\ UNCHANGED <<file, phase, snap, intact, recovers, edits, raced>>

(* The terminal phase cannot be written: the manifest keeps its phase.     *)
FailPersist(p) ==
    /\ Fail
    /\ pc[p] = "abort" \/ (pc[p] = "restore" /\ todo[p] = {})
    /\ pc' = [pc EXCEPT ![p] = "done"]
    /\ UNCHANGED <<file, phase, todo, snap, intact, recovers, failed, edits, raced>>

Crash(p) ==
    /\ spent.crashes < MaxCrashes
    /\ pc[p] \notin {"idle", "done", "dead"}
    /\ pc' = [pc EXCEPT ![p] = "dead"]
    /\ Loop(p, {})
    /\ spent' = [spent EXCEPT !.crashes = @ + 1]
    /\ UNCHANGED <<file, phase, snap, intact, recovers, failed, edits, raced>>

TamperStage(t) ==
    /\ spent.tampers < MaxTampers
    /\ pc[t] = "validate" /\ intact[t]
    /\ intact' = [intact EXCEPT ![t] = FALSE]
    /\ spent' = [spent EXCEPT !.tampers = @ + 1]
    /\ UNCHANGED <<file, phase, pc, todo, snap, recovers, failed, edits, raced>>

(* f is beyond the last look that run t takes at it.                       *)
Exposed(t, f) ==
    \/ pc[t] = "check" /\ phase[t] # "prepared" /\ f \notin todo[t]
    \/ pc[t] \in {"commit", "place", "restore", "copy"}

UserEdit(f) ==
    /\ edits[f] < MaxEdits
    /\ \A t \in Tx : Settled(t) \/ phase[t] \in EditPhases
    /\ edits' = [edits EXCEPT ![f] = @ + 1]
    /\ Put(f, [exists |-> TRUE, user |-> edits[f] + 1, owned |-> file[f].owned])
    /\ raced' = IF \E t \in Tx : f \in Job[t].files /\ Exposed(t, f) THEN raced \cup {f} ELSE raced
    /\ UNCHANGED <<runVars, spent>>
-----------------------------------------------------------------------------
Rollback(p, t) ==
    \/ EndRollback(p, t)
    \/ \E f \in Files : RestoreFile(p, t, f) \/ ClearDir(p, f) \/ CopyDir(p, t, f)

(* The steps of run t's process, or of the `recover` in its place.         *)
Step(t) ==
    \/ Plan(t) \/ Prepare(t) \/ Stage(t) \/ ValidateStages(t)
    \/ MarkCommitting(t) \/ BeginCommit(t) \/ Complete(t) \/ Abort(t) \/ Rollback(t, t)
    \/ \E f \in Files :
        \/ Snapshot(t, f) \/ BackupAsset(t, f) \/ CheckOriginal(t, f)
        \/ CommitFile(t, f) \/ RetireDir(t, f) \/ PlaceDir(t, f) \/ FailRename(t, f)

Fault(t) ==
    \/ FailBefore(t) \/ FailCommit(t) \/ FailPersist(t) \/ Crash(t) \/ TamperStage(t)
    \/ \E f \in Files : FailRestore(t, f)

Rival(p) ==
    \/ Recover(p, RivalOf[p]) \/ Rollback(p, RivalOf[p]) \/ FailPersist(p) \/ Crash(p)
    \/ \E f \in Files : FailRestore(p, f)

(* Every run has ended: nothing is left to do but to edit.                 *)
Finished ==
    /\ \A t \in Tx : pc[t] # "idle" /\ Settled(t)
    /\ UNCHANGED vars

Next ==
    \/ \E t \in Tx : Start(t) \/ Step(t) \/ Recover(t, t) \/ Fault(t)
    \/ \E p \in Rivals : Rival(p)
    \/ \E f \in UserFiles : UserEdit(f)
    \/ Finished

Spec == Init /\ [][Next]_vars

(* A live process takes its steps; an operator comes to run `recover` when *)
(* the run's process has gone.                                             *)
FairSpec ==
    /\ Spec
    /\ \A t \in Tx : WF_vars(Step(t)) /\ WF_vars(Recover(t, t))
    /\ \A p \in Rivals : WF_vars(Rollback(p, RivalOf[p]))
=============================================================================
