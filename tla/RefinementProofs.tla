--------------------------- MODULE RefinementProofs --------------------------
(***************************************************************************)
(* Runs that follow one another implement AtomicUpdate: for any number of  *)
(* runs, assets, edits between the runs, faults and crashes.               *)
(***************************************************************************)
EXTENDS InstallProofs

(* One run is under way at a time, a `recover` comes when its process has   *)
(* gone, the user edits between the runs, and the key survives a restore.  *)
InTurn == Serial /\ EditPhases = {} /\ TextKey /\ Rivals = {}

(* The steps of run t and of its recovery.                                 *)
Moves(t) == Start(t) \/ Step(t) \/ Recover(t, t) \/ Fault(t)

LEMMA MovesOrEdits ==
    ASSUME InTurn, [Next]_vars
    PROVE  (\E t \in Tx : Moves(t)) \/ (\E f \in UserFiles : UserEdit(f)) \/ UNCHANGED vars
BY DEF Next, Moves, Finished, InTurn

LEMMA OneProcess ==
    ASSUME InTurn
    PROVE  \A t \in Tx :
             /\ Settled(t) <=> phase[t] # "committing" /\ Gone(t)
             /\ Settled(t)' <=> phase'[t] # "committing" /\ Gone(t)'
<1>1. \A t \in Tx : ProcsOf(t) = {t}
  BY DEF InTurn, ProcsOf
<1> QED
  BY <1>1 DEF Settled

(* A run leaves alone what belongs to another.                             *)
LEMMA MovesOwn ==
    ASSUME TypeOK, NEW t \in Tx, Moves(t), NEW u \in Tx, u # t
    PROVE  pc'[u] = pc[u] /\ phase'[u] = phase[u] /\ UNCHANGED <<edits, raced>>
<1> USE DEF TypeOK, Procs, Goto, Mark
<1>1. CASE Start(t) \/ Plan(t) \/ Prepare(t) \/ Stage(t) \/ ValidateStages(t)
  BY <1>1 DEF Start, Plan, Prepare, Stage, ValidateStages
<1>2. CASE MarkCommitting(t) \/ BeginCommit(t) \/ Complete(t) \/ Abort(t) \/ EndRollback(t, t) \/ Recover(t, t)
  BY <1>2 DEF MarkCommitting, BeginCommit, Complete, Abort, EndRollback, Recover, BeginRecover
<1>3. CASE FailBefore(t) \/ FailCommit(t) \/ FailPersist(t) \/ Crash(t) \/ TamperStage(t)
  BY <1>3 DEF FailBefore, FailCommit, FailPersist, Crash, TamperStage
<1>4. ASSUME NEW f \in Files,
             \/ Snapshot(t, f) \/ BackupAsset(t, f) \/ CheckOriginal(t, f)
             \/ CommitFile(t, f) \/ RetireDir(t, f) \/ PlaceDir(t, f) \/ FailRename(t, f)
             \/ RestoreFile(t, t, f) \/ ClearDir(t, f) \/ CopyDir(t, t, f) \/ FailRestore(t, f)
      PROVE pc'[u] = pc[u] /\ phase'[u] = phase[u] /\ UNCHANGED <<edits, raced>>
  BY <1>4 DEF Snapshot, BackupAsset, CheckOriginal, CommitFile, RetireDir, PlaceDir, FailRename,
      RestoreFile, ClearDir, CopyDir, FailRestore
<1> QED
  BY <1>1, <1>2, <1>3, <1>4 DEF Moves, Step, Rollback, Fault

(* A settled run only starts.                                              *)
LEMMA SettledStarts ==
    ASSUME NEW t \in Tx, Moves(t), Settled(t)
    PROVE  Start(t)
<1>1. phase[t] # "committing" /\ pc[t] \in {"idle", "done", "dead"}
  BY DEF Settled, Gone, ProcsOf
<1> QED
  BY <1>1 DEF Moves, Step, Rollback, Fault, Goto, Plan, Prepare, Stage, ValidateStages, MarkCommitting,
     BeginCommit, Complete, Abort, EndRollback, Recover, BeginRecover, FailBefore, FailCommit,
     FailPersist, Crash, TamperStage, Snapshot, BackupAsset, CheckOriginal, CommitFile, RetireDir,
     PlaceDir, FailRename, RestoreFile, ClearDir, CopyDir, FailRestore

LEMMA MovesKeepEdits ==
    ASSUME NEW t \in Tx, Moves(t)
    PROVE  UNCHANGED edits
BY DEF Moves, Step, Rollback, Fault, Start, Plan, Prepare, Stage, ValidateStages, MarkCommitting,
   BeginCommit, Complete, Abort, EndRollback, Recover, BeginRecover, FailBefore, FailCommit, FailPersist, Crash,
   TamperStage, Snapshot, BackupAsset, CheckOriginal, CommitFile, RetireDir, PlaceDir, FailRename,
   RestoreFile, ClearDir, CopyDir, FailRestore

(* The program counter of a live process tells the phase on disk.          *)
PhaseInTurn ==
    \A t \in Tx :
        /\ pc[t] \in {"idle", "snap", "backup"} => phase[t] = "none"
        /\ pc[t] = "stage" => phase[t] = "prepared"
        /\ pc[t] \in {"validate", "check", "abort"} => phase[t] \in {"prepared", "committing"}
        /\ pc[t] \in {"commit", "place", "restore", "copy"} => phase[t] = "committing"

LEMMA InTurnStep ==
    ASSUME InTurn, TypeOK, PhaseInTurn, [Next]_vars
    PROVE  PhaseInTurn'
<1> USE DEF PhaseInTurn, TypeOK, Procs, Goto, Mark
<1>1. ASSUME NEW t \in Tx, Start(t) \/ Plan(t) \/ Prepare(t) \/ Stage(t) PROVE PhaseInTurn'
  BY <1>1 DEF Start, Plan, Prepare, Stage
<1>2. ASSUME NEW t \in Tx, ValidateStages(t) \/ MarkCommitting(t) \/ BeginCommit(t)
      PROVE PhaseInTurn'
  BY <1>2 DEF ValidateStages, MarkCommitting, BeginCommit
<1>3. ASSUME NEW t \in Tx, Complete(t) \/ Abort(t) \/ EndRollback(t, t) \/ Recover(t, t)
      PROVE PhaseInTurn'
  BY <1>3 DEF Complete, Abort, EndRollback, Recover, BeginRecover
<1>4. ASSUME NEW t \in Tx, NEW f \in Files,
             Snapshot(t, f) \/ BackupAsset(t, f) \/ CheckOriginal(t, f)
      PROVE PhaseInTurn'
  BY <1>4 DEF Snapshot, BackupAsset, CheckOriginal
<1>5. ASSUME NEW t \in Tx, NEW f \in Files,
             CommitFile(t, f) \/ RetireDir(t, f) \/ PlaceDir(t, f) \/ FailRename(t, f)
      PROVE PhaseInTurn'
  BY <1>5 DEF CommitFile, RetireDir, PlaceDir, FailRename
<1>6. ASSUME NEW t \in Tx, NEW f \in Files,
             RestoreFile(t, t, f) \/ ClearDir(t, f) \/ CopyDir(t, t, f) \/ FailRestore(t, f)
      PROVE PhaseInTurn'
  BY <1>6 DEF RestoreFile, ClearDir, CopyDir, FailRestore
<1>7. ASSUME NEW t \in Tx, FailBefore(t) \/ FailCommit(t) \/ FailPersist(t)
      PROVE PhaseInTurn'
  BY <1>7 DEF FailBefore, FailCommit, FailPersist
<1>8. ASSUME NEW t \in Tx, Crash(t) \/ TamperStage(t) PROVE PhaseInTurn'
  BY <1>8 DEF Crash, TamperStage
<1>9. ASSUME NEW f \in UserFiles, UserEdit(f) PROVE PhaseInTurn'
  BY <1>9 DEF UserEdit, runVars
<1>10. CASE UNCHANGED vars
  BY <1>10 DEF vars, runVars
<1> QED
  BY <1>1, <1>2, <1>3, <1>4, <1>5, <1>6, <1>7, <1>8, <1>9, <1>10, MovesOrEdits DEF Moves, Step, Rollback, Fault

LEMMA InTurnInit == Init => PhaseInTurn
BY DEF Init, PhaseInTurn, Procs

-----------------------------------------------------------------------------
(* One run at a time is unsettled.                                         *)
OneRun == \A t, u \in Tx : t # u => Settled(t) \/ Settled(u)

LEMMA OthersSettled ==
    ASSUME InTurn, OneRun, NEW t \in Tx, Moves(t), NEW u \in Tx, u # t
    PROVE  Settled(u)
BY SettledStarts DEF OneRun, InTurn, Start

LEMMA OneRunStep ==
    ASSUME InTurn, TypeOK, OneRun, [Next]_vars
    PROVE  OneRun'
<1>1. ASSUME NEW t \in Tx, Moves(t) PROVE OneRun'
  <2>1. \A u \in Tx : u # t => Settled(u)'
    BY <1>1, OthersSettled, MovesOwn, OneProcess DEF Gone
  <2> QED
    BY <2>1 DEF OneRun
<1>2. ASSUME NEW f \in UserFiles, UserEdit(f) PROVE OneRun'
  BY <1>2 DEF UserEdit, runVars, OneRun, Settled, Gone
<1>3. CASE UNCHANGED vars
  BY <1>3 DEF vars, runVars, OneRun, Settled, Gone
<1> QED
  BY MovesOrEdits, <1>1, <1>2, <1>3

(* What the files of a run are while it is under way: what it has read,    *)
(* then what it makes of them, or what it has restored.                    *)
Same(t, S) == \A f \in S : file[f] = snap[t][f]
Made(t, S) == \A f \in S : file[f] = After(t, f, snap[t][f])
InStep(t) ==
    /\ pc[t] = "snap" => Same(t, TextOf(t) \ todo[t])
    /\ pc[t] = "backup" => Same(t, Job[t].files \ todo[t])
    /\ pc[t] \in {"stage", "validate", "check", "abort"} => Same(t, Job[t].files)
    /\ pc[t] \in {"commit", "place"} => Made(t, Job[t].files \ todo[t]) /\ Same(t, todo[t] \ Dirs)
    /\ pc[t] \in {"restore", "copy"} => failed[t] \/ Same(t, Job[t].files \ todo[t])
AllInStep == \A t \in Tx : InStep(t)

(* A report that does not exist has no content.                            *)
Solid(c) == c.exists \/ c = Absent
ReportSolid == Solid(file["generated"]) /\ \A t \in Tx : Solid(snap[t]["generated"])

LEMMA ReportFile == "generated" \in Files /\ "generated" \notin UserFiles /\ "generated" \notin Dirs /\ "generated" \notin Keys
BY NamesApart DEF Files, Text, UserFiles, Assets

LEMMA SolidStep ==
    ASSUME TypeOK, ReportSolid, [Next]_vars
    PROVE  ReportSolid'
<1> USE ReportFile DEF ReportSolid
<1> DEFINE g == "generated"
<1>1. CASE UNCHANGED <<file, snap>>
  BY <1>1
<1>2. ASSUME NEW f \in Files, NEW c, f = g => Solid(c), Put(f, c), UNCHANGED snap PROVE ReportSolid'
  <2>1. file'[g] = IF g = f THEN c ELSE file[g]
    BY <1>2, PutMoves
  <2> QED
    BY <1>2, <2>1
<1>3. ASSUME NEW t \in Tx, NEW f \in Files, Snapshot(t, f) \/ BackupAsset(t, f) PROVE ReportSolid'
  BY <1>3, ReadMoves
<1>4. \A v : Solid(Written(v)) /\ Solid(Absent)
  BY DEF Solid, Written
<1>5. ASSUME NEW t \in Tx PROVE Solid(Staged(t, g))
  <2>1. After(t, g, snap[t][g]) \in {Written(Job[t].version), Absent}
    BY NamesApart DEF After, Assets, Text
  <2> QED
    BY <1>4, <2>1 DEF Staged
<1>6. ASSUME NEW t \in Tx, NEW f \in Files, CommitFile(t, f) \/ PlaceDir(t, f) PROVE ReportSolid'
  BY <1>2, <1>5, <1>6 DEF CommitFile, PlaceDir
<1>7. ASSUME NEW t \in Tx, NEW p, NEW f \in Files, RetireDir(t, f) \/ ClearDir(p, f) PROVE ReportSolid'
  BY <1>2, <1>4, <1>7 DEF RetireDir, ClearDir
<1>8. ASSUME NEW t \in Tx, NEW p, NEW f \in Files, RestoreFile(p, t, f) \/ CopyDir(p, t, f)
      PROVE ReportSolid'
  <2>1. Utf8(g, snap[t][g]) = snap[t][g]
    BY DEF Utf8
  <2> QED
    BY <1>2, <1>8, <2>1 DEF RestoreFile, CopyDir
<1>9. ASSUME NEW f \in UserFiles, UserEdit(f) PROVE ReportSolid'
  <2> DEFINE c == [exists |-> TRUE, user |-> edits[f] + 1, owned |-> file[f].owned]
  <2>1. Put(f, c) /\ UNCHANGED snap /\ f # g
    BY <1>9 DEF UserEdit, runVars
  <2> HIDE DEF c
  <2> QED
    BY <1>2, <2>1, UserFile
<1> QED
  BY DiskSteps, <1>1, <1>3, <1>6, <1>7, <1>8, <1>9

-----------------------------------------------------------------------------
(* A run keeps in step with its snapshots while it moves.                  *)
LEMMA ReadsInStep ==
    ASSUME TypeOK, InJob, NEW t \in Tx, InStep(t),
           \/ Start(t) \/ Plan(t) \/ Prepare(t)
           \/ \E f \in Files : Snapshot(t, f) \/ BackupAsset(t, f)
    PROVE  InStep(t)'
<1> USE DEF InStep, Same, Made
<1>1. CASE Start(t)
  <2>1. pc'[t] = "snap" /\ todo'[t] = TextOf(t)
    BY <1>1 DEF Start, Goto, Loop, TypeOK, Procs
  <2> QED
    BY <2>1 DEF TextOf
<1>2. CASE Plan(t)
  <2>1. pc[t] = "snap" /\ todo[t] = {} /\ pc'[t] \in {"done", "backup"}
        /\ UNCHANGED <<file, snap>> /\ (pc'[t] = "backup" => todo'[t] = AssetsOf(t))
    BY <1>2 DEF Plan, Goto, Loop, TypeOK, Procs
  <2>2. Job[t].files \ AssetsOf(t) \subseteq TextOf(t)
    BY JobFiles DEF AssetsOf, TextOf, Files
  <2> QED
    BY <2>1, <2>2 DEF TextOf
<1>3. CASE Prepare(t)
  <2>1. pc[t] = "backup" /\ todo[t] = {} /\ pc'[t] = "stage" /\ UNCHANGED <<file, snap>>
    BY <1>3 DEF Prepare, Goto, TypeOK, Procs
  <2> QED
    BY <2>1
<1>4. ASSUME NEW f \in Files, Snapshot(t, f) \/ BackupAsset(t, f) PROVE InStep(t)'
  <2>1. /\ pc' = pc /\ pc[t] \in {"snap", "backup"} /\ file' = file
        /\ todo'[t] = todo[t] \ {f}
    BY <1>4 DEF Snapshot, BackupAsset, Visit, TypeOK, Procs
  <2>2. \A g \in Files : snap'[t][g] = IF g = f THEN file[f] ELSE snap[t][g]
    BY <1>4, ReadMoves
  <2>3. TextOf(t) \subseteq Files /\ Job[t].files \subseteq Files
    BY JobFiles
  <2>4. \A g : g \notin todo'[t] => g = f \/ g \notin todo[t]
    BY <2>1
  <2>5. pc'[t] = "snap" => \A g \in TextOf(t) \ todo'[t] : file'[g] = snap'[t][g]
    BY <2>1, <2>2, <2>3, <2>4
  <2>6. pc'[t] = "backup" => \A g \in Job[t].files \ todo'[t] : file'[g] = snap'[t][g]
    BY <2>1, <2>2, <2>3, <2>4
  <2> QED
    BY <2>1, <2>5, <2>6 DEF TextOf
<1> QED
  BY <1>1, <1>2, <1>3, <1>4

LEMMA ChecksInStep ==
    ASSUME TypeOK, InJob, NEW t \in Tx, InStep(t),
           \/ Stage(t) \/ ValidateStages(t) \/ MarkCommitting(t) \/ BeginCommit(t)
           \/ FailBefore(t) \/ TamperStage(t) \/ \E f \in Files : CheckOriginal(t, f)
    PROVE  InStep(t)'
<1> USE DEF InStep, Same, Made
<1>1. UNCHANGED <<file, snap>>
  BY DEF Stage, ValidateStages, MarkCommitting, BeginCommit, FailBefore, TamperStage, CheckOriginal
<1>2. \/ pc'[t] = "done"
      \/ /\ pc[t] \in {"stage", "validate", "check"}
         /\ \/ pc'[t] \in {"validate", "check", "abort"}
            \/ pc'[t] = "commit" /\ todo'[t] = Job[t].files
  BY DEF Stage, ValidateStages, MarkCommitting, BeginCommit, FailBefore, TamperStage, CheckOriginal,
     Goto, Loop, TypeOK, Procs
<1>3. pc[t] \in {"stage", "validate", "check"} => \A f \in Job[t].files : file[f] = snap[t][f]
  OBVIOUS
<1> QED
  BY <1>1, <1>2, <1>3

LEMMA CommitsInStep ==
    ASSUME TypeOK, InJob, Verified, ReportSolid, NEW t \in Tx, InStep(t), NEW f \in Files,
           CommitFile(t, f) \/ RetireDir(t, f) \/ PlaceDir(t, f) \/ FailRename(t, f)
    PROVE  InStep(t)'
<1> USE DEF InStep, Same, Made
<1>0. Job[t].files \subseteq Files /\ todo[t] \subseteq Job[t].files
  BY JobFiles DEF InJob
<1>1. CASE FailRename(t, f)
  <2>1. pc'[t] = "restore" /\ todo'[t] = Job[t].files
    BY <1>1 DEF FailRename, Goto, Loop, TypeOK, Procs
  <2> QED
    BY <2>1
<1>2. CASE RetireDir(t, f)
  <2>1. /\ pc[t] = "commit" /\ pc'[t] = "place" /\ UNCHANGED <<todo, snap>>
        /\ f \in todo[t] /\ f \in Dirs
        /\ \A g \in Files : file'[g] = IF g = f THEN Absent ELSE file[g]
    BY <1>2, PutMoves DEF RetireDir, Goto, TypeOK, Procs
  <2> QED
    BY <1>0, <2>1
<1>3. CASE CommitFile(t, f) \/ PlaceDir(t, f)
  <2>1. /\ pc[t] \in {"commit", "place"} /\ pc'[t] = "commit" /\ snap' = snap
        /\ todo'[t] = todo[t] \ {f} /\ f \in todo[t]
        /\ \A g \in Files : file'[g] = IF g = f THEN Staged(t, f) ELSE file[g]
    BY <1>3, PutMoves DEF CommitFile, PlaceDir, Visit, Goto, TypeOK, Procs
  <2>2. intact[t]
    BY <2>1 DEF Verified
  <2>3. Staged(t, f) = After(t, f, snap[t][f])
    <3>1. CASE ~Removes(t, f)
      BY <2>2, <3>1 DEF Staged
    <3>2. CASE Removes(t, f)
      <4>1. f = "generated" /\ Job[t].op # "install"
        BY <3>2 DEF Removes
      <4>2. After(t, f, snap[t][f]) = Absent
        BY <4>1, NamesApart DEF After, Assets, Text
      <4>3. snap[t][f].exists \/ snap[t][f] = Absent
        BY <4>1 DEF ReportSolid, Solid
      <4>4. file[f] = snap[t][f]
        BY <2>1, <4>1, ReportFile
      <4> QED
        BY <3>2, <4>2, <4>3, <4>4 DEF Staged
    <3> QED
      BY <3>1, <3>2
  <2>4. \A g \in Job[t].files \ todo'[t] : file'[g] = After(t, g, snap[t][g])
    BY <1>0, <2>1, <2>3
  <2>5. \A g \in todo'[t] \ Dirs : file'[g] = snap[t][g]
    BY <1>0, <2>1
  <2> QED
    BY <2>1, <2>4, <2>5
<1> QED
  BY <1>1, <1>2, <1>3

LEMMA RestoresInStep ==
    ASSUME InTurn, TypeOK, InJob, NEW t \in Tx, InStep(t), NEW f \in Files,
           RestoreFile(t, t, f) \/ ClearDir(t, f) \/ CopyDir(t, t, f) \/ FailRestore(t, f)
    PROVE  InStep(t)'
<1> USE DEF InStep, Same, Made
<1>0. Job[t].files \subseteq Files /\ todo[t] \subseteq Job[t].files
  BY JobFiles DEF InJob
<1>1. CASE FailRestore(t, f)
  <2>1. pc'[t] = "restore" /\ failed'[t] = TRUE
    BY <1>1 DEF FailRestore, TypeOK, Procs
  <2> QED
    BY <2>1
<1>2. CASE ClearDir(t, f)
  <2>1. /\ pc[t] = "restore" /\ pc'[t] = "copy" /\ UNCHANGED <<todo, snap, failed>> /\ f \in todo[t]
        /\ \A g \in Files : file'[g] = IF g = f THEN Written("torn") ELSE file[g]
    BY <1>2, PutMoves DEF ClearDir, Goto, TypeOK, Procs
  <2> QED
    BY <1>0, <2>1
<1>3. CASE RestoreFile(t, t, f) \/ CopyDir(t, t, f)
  <2>1. Utf8(f, snap[t][f]) = snap[t][f]
    BY DEF Utf8, InTurn
  <2>2. /\ pc[t] \in {"restore", "copy"} /\ pc'[t] = "restore" /\ UNCHANGED <<snap, failed>>
        /\ todo'[t] = todo[t] \ {f}
        /\ Put(f, snap[t][f])
    BY <1>3, <2>1 DEF RestoreFile, CopyDir, Visit, Goto, TypeOK, Procs
  <2>3. \A g \in Files : file'[g] = IF g = f THEN snap[t][f] ELSE file[g]
    BY <2>2, PutMoves
  <2> QED
    BY <1>0, <2>2, <2>3
<1> QED
  BY <1>1, <1>2, <1>3

LEMMA OwnInStep ==
    ASSUME InTurn, TypeOK, InJob, Verified, ReportSolid, NEW t \in Tx, InStep(t), Moves(t)
    PROVE  InStep(t)'
<1>1. CASE Complete(t) \/ Abort(t) \/ EndRollback(t, t) \/ FailPersist(t) \/ Crash(t)
  <2>1. pc'[t] \in {"done", "dead"}
    BY <1>1 DEF Complete, Abort, EndRollback, FailPersist, Crash, Goto, TypeOK, Procs
  <2> QED
    BY <2>1 DEF InStep
<1>2. CASE Recover(t, t) \/ FailCommit(t)
  <2>1. pc'[t] = "restore" /\ todo'[t] = Job[t].files
    BY <1>2 DEF Recover, BeginRecover, FailCommit, Loop, TypeOK, Procs
  <2> QED
    BY <2>1 DEF InStep, Same
<1> QED
  BY <1>1, <1>2, ReadsInStep, ChecksInStep, CommitsInStep, RestoresInStep DEF Moves, Step, Rollback, Fault

(* A settled run that keeps its place is in step, whatever the others do.  *)
LEMMA InStepStep ==
    ASSUME InTurn, TypeOK, InJob, Verified, ReportSolid, OneRun, AllInStep, [Next]_vars
    PROVE  AllInStep'
<1>1. ASSUME NEW t \in Tx, Moves(t) PROVE AllInStep'
  <2>1. InStep(t)'
    BY <1>1, OwnInStep DEF AllInStep
  <2>2. ASSUME NEW u \in Tx, u # t PROVE InStep(u)'
    <3>1. pc'[u] \in {"idle", "done", "dead"}
      BY <1>1, <2>2, OthersSettled, MovesOwn, OneProcess DEF Gone
    <3> QED
      BY <3>1 DEF InStep
  <2> QED
    BY <2>1, <2>2 DEF AllInStep
<1>2. ASSUME NEW f \in UserFiles, UserEdit(f) PROVE AllInStep'
  <2>1. \A u \in Tx : pc'[u] \in {"idle", "done", "dead"}
    BY <1>2, OneProcess DEF UserEdit, runVars, Gone, InTurn
  <2> QED
    BY <2>1 DEF AllInStep, InStep
<1>3. CASE UNCHANGED vars
  <2>1. UNCHANGED <<file, pc, todo, snap, failed>>
    BY <1>3 DEF vars, runVars
  <2>2. ASSUME NEW t \in Tx, InStep(t) PROVE InStep(t)'
    BY <2>1, <2>2 DEF InStep, Same, Made
  <2> QED
    BY <2>2 DEF AllInStep
<1> QED
  BY MovesOrEdits, <1>1, <1>2, <1>3

-----------------------------------------------------------------------------
(* What the abstraction shows while a run is committing, and when none is. *)
LEMMA StoreCommitting ==
    ASSUME OneRun, NEW t \in Tx, Committing(t)
    PROVE  Store = [f \in Files |-> IF f \in Job[t].files THEN snap[t][f] ELSE file[f]]
<1>1. \A u \in Tx : Committing(u) <=> u = t
  BY DEF OneRun, Settled, Gone, Committing
<1>2. ASSUME NEW f \in Files, f \in Job[t].files
      PROVE (CHOOSE u \in Tx : Committing(u) /\ f \in Job[u].files) = t
  BY <1>1, <1>2
<1> QED
  BY <1>1, <1>2 DEF Store

LEMMA StoreCommittingNext ==
    ASSUME OneRun', NEW t \in Tx, Committing(t)'
    PROVE  Store' = [f \in Files |-> IF f \in Job[t].files THEN snap'[t][f] ELSE file'[f]]
<1>1. \A u \in Tx : Committing(u)' <=> u = t
  BY DEF OneRun, Settled, Gone, Committing
<1>2. ASSUME NEW f \in Files, f \in Job[t].files
      PROVE (CHOOSE u \in Tx : Committing(u)' /\ f \in Job[u].files) = t
  BY <1>1, <1>2
<1> QED
  BY <1>1, <1>2 DEF Store

LEMMA StoreSettled ==
    ASSUME TypeOK, \A t \in Tx : ~Committing(t)
    PROVE  Store = file
BY DEF TypeOK, Procs, Store

LEMMA StoreSettledNext ==
    ASSUME TypeOK', \A t \in Tx : ~Committing(t)'
    PROVE  Store' = file'
BY DEF TypeOK, Procs, Store

(* A run touches the files of its job, once its manifest says "committing",*)
(* and reads them before.                                                  *)
LEMMA WritesWhenCommitting ==
    ASSUME TypeOK, PhaseInTurn, InJob, NEW t \in Tx, Moves(t)
    PROVE  /\ ~Committing(t) => file' = file
           /\ Committing(t) => snap' = snap /\ \A g \in Files \ Job[t].files : file'[g] = file[g]
<1> USE DEF PhaseInTurn, Committing
<1>1. CASE \/ Start(t) \/ Plan(t) \/ Prepare(t) \/ Stage(t) \/ ValidateStages(t)
           \/ MarkCommitting(t) \/ BeginCommit(t) \/ Complete(t) \/ Abort(t) \/ EndRollback(t, t)
           \/ Recover(t, t) \/ FailBefore(t) \/ FailCommit(t) \/ FailPersist(t) \/ Crash(t)
           \/ TamperStage(t)
  BY <1>1 DEF Start, Plan, Prepare, Stage, ValidateStages, MarkCommitting, BeginCommit,
      Complete, Abort, EndRollback, Recover, BeginRecover, FailBefore, FailCommit, FailPersist, Crash, TamperStage
<1>2. ASSUME NEW f \in Files, CheckOriginal(t, f) \/ FailRename(t, f) \/ FailRestore(t, f)
      PROVE UNCHANGED <<file, snap>>
  BY <1>2 DEF CheckOriginal, FailRename, FailRestore
<1>3. ASSUME NEW f \in Files, Snapshot(t, f) \/ BackupAsset(t, f)
      PROVE file' = file /\ ~Committing(t)
  BY <1>3 DEF Snapshot, BackupAsset
<1>4. ASSUME NEW f \in Files,
             \/ CommitFile(t, f) \/ RetireDir(t, f) \/ PlaceDir(t, f)
             \/ RestoreFile(t, t, f) \/ ClearDir(t, f) \/ CopyDir(t, t, f)
      PROVE /\ Committing(t) /\ snap' = snap
            /\ \A g \in Files \ Job[t].files : file'[g] = file[g]
  <2>1. Committing(t) /\ snap' = snap /\ f \in Job[t].files /\ \E c : Put(f, c)
    BY <1>4 DEF CommitFile, RetireDir, PlaceDir, RestoreFile, ClearDir, CopyDir, Goto, Visit, InJob
  <2> QED
    BY <2>1, PutMoves
<1> QED
  BY <1>1, <1>2, <1>3, <1>4 DEF Moves, Step, Rollback, Fault

(* The steps that write a manifest.                                        *)
LEMMA PhaseMoves ==
    ASSUME TypeOK, PhaseInTurn, NEW t \in Tx, Moves(t)
    PROVE  \/ phase'[t] = phase[t]
           \/ phase[t] = "none" /\ phase'[t] = "prepared"
           \/ MarkCommitting(t) \/ Complete(t) \/ Abort(t) \/ (EndRollback(t, t) /\ ~failed[t])
<1>1. CASE Prepare(t)
  BY <1>1 DEF Prepare, Mark, Goto, TypeOK, Procs, PhaseInTurn
<1>2. CASE EndRollback(t, t)
  BY <1>2 DEF EndRollback, TypeOK, Procs
<1>3. CASE \/ Start(t) \/ Plan(t) \/ Stage(t) \/ ValidateStages(t) \/ BeginCommit(t) \/ Recover(t, t)
           \/ FailBefore(t) \/ FailCommit(t) \/ FailPersist(t) \/ Crash(t) \/ TamperStage(t)
  BY <1>3 DEF Start, Plan, Stage, ValidateStages, BeginCommit, Recover, BeginRecover, FailBefore, FailCommit,
      FailPersist, Crash, TamperStage
<1>4. ASSUME NEW f \in Files,
             \/ Snapshot(t, f) \/ BackupAsset(t, f) \/ CheckOriginal(t, f)
             \/ CommitFile(t, f) \/ RetireDir(t, f) \/ PlaceDir(t, f) \/ FailRename(t, f)
             \/ RestoreFile(t, t, f) \/ ClearDir(t, f) \/ CopyDir(t, t, f) \/ FailRestore(t, f)
      PROVE phase' = phase
  BY <1>4 DEF Snapshot, BackupAsset, CheckOriginal, CommitFile, RetireDir, PlaceDir, FailRename,
      RestoreFile, ClearDir, CopyDir, FailRestore
<1> QED
  BY <1>1, <1>2, <1>3, <1>4 DEF Moves, Step, Rollback, Fault

(* The decision of a run, when only its manifest may have changed.         *)
LEMMA DecidedMoves ==
    ASSUME TypeOK, TypeOK', NEW t \in Tx, \A u \in Tx : u # t => phase'[u] = phase[u]
    PROVE  /\ phase'[t] = "completed" => Decided' = [Decided EXCEPT ![t] = "applied"]
           /\ phase'[t] \in {"aborted", "rolled_back", "recovered"}
                => Decided' = [Decided EXCEPT ![t] = "refused"]
           /\ phase'[t] = phase[t] => Decided' = Decided
           /\ phase[t] \notin Terminal /\ phase'[t] \notin Terminal => Decided' = Decided
           /\ phase[t] \notin Terminal => Decided[t] = "pending"
<1>1. \A u \in Tx : u # t => Decided'[u] = Decided[u]
  BY DEF Decided
<1>2. /\ phase'[t] = "completed" => Decided'[t] = "applied"
      /\ phase'[t] \in {"aborted", "rolled_back", "recovered"} => Decided'[t] = "refused"
      /\ phase'[t] = phase[t] => Decided'[t] = Decided[t]
  BY DEF Decided
<1>3. /\ phase[t] \notin Terminal => Decided[t] = "pending"
      /\ phase'[t] \notin Terminal => Decided'[t] = "pending"
  BY DEF Decided, Terminal
<1>4. Decided = [u \in Tx |-> Decided[u]] /\ Decided' = [u \in Tx |-> Decided'[u]]
  BY DEF Decided
<1>5. \A c : Decided'[t] = c => Decided' = [Decided EXCEPT ![t] = c]
  BY <1>1, <1>4
<1>6. Decided'[t] = Decided[t] => Decided' = Decided
  BY <1>1, <1>4
<1> QED
  BY <1>2, <1>3, <1>5, <1>6

LEMMA MarkShows ==
    ASSUME OneRun, OneRun', TypeOK, AllInStep, NEW t \in Tx, MarkCommitting(t),
           \A u \in Tx : ~Committing(u)
    PROVE  Store' = Store
<1>1. pc[t] = "check" /\ UNCHANGED <<file, snap>> /\ phase'[t] = "committing"
  BY DEF MarkCommitting, Goto, Mark, TypeOK, Procs
<1>2. Store' = [f \in Files |-> IF f \in Job[t].files THEN snap[t][f] ELSE file[f]]
  BY <1>1, StoreCommittingNext DEF Committing
<1>3. \A f \in Job[t].files : snap[t][f] = file[f]
  BY <1>1 DEF AllInStep, InStep, Same
<1>4. Store = file /\ file = [f \in Files |-> file[f]]
  BY StoreSettled DEF TypeOK, Procs
<1> QED
  BY <1>2, <1>3, <1>4

(* Each step of a run is one of AtomicUpdate or changes nothing it shows.  *)
LEMMA MoveMaps ==
    ASSUME InTurn, TypeOK, TypeOK', PhaseInTurn, InJob, OneRun, OneRun', AllInStep,
           NEW t \in Tx, Moves(t)
    PROVE  Promise!Apply(t) \/ Promise!Refuse(t) \/ UNCHANGED <<Store, Decided>>
<1> USE DEF Committing
<1>1. \A u \in Tx : u # t => phase'[u] = phase[u] /\ ~Committing(u) /\ ~Committing(u)'
  BY MovesOwn, OthersSettled DEF Settled, Gone
<1>2. CASE phase'[t] = phase[t] \/ (phase[t] = "none" /\ phase'[t] = "prepared")
  <2>1. Decided' = Decided
    BY <1>1, <1>2, DecidedMoves DEF Terminal
  <2>2. CASE ~Committing(t)
    <3>1. \A u \in Tx : ~Committing(u) /\ ~Committing(u)'
      BY <1>1, <1>2, <2>2
    <3> QED
      BY <2>1, <2>2, <3>1, StoreSettled, StoreSettledNext, WritesWhenCommitting
  <2>3. CASE Committing(t)
    <3>1. Store = [f \in Files |-> IF f \in Job[t].files THEN snap[t][f] ELSE file[f]]
      BY <2>3, StoreCommitting
    <3>2. Store' = [f \in Files |-> IF f \in Job[t].files THEN snap'[t][f] ELSE file'[f]]
      BY <1>2, <2>3, StoreCommittingNext
    <3>3. snap' = snap /\ \A g \in Files \ Job[t].files : file'[g] = file[g]
      BY <2>3, WritesWhenCommitting
    <3> QED
      BY <2>1, <3>1, <3>2, <3>3
  <2> QED
    BY <2>2, <2>3
<1>3. CASE MarkCommitting(t)
  <2>1. phase[t] = "prepared" /\ phase'[t] = "committing"
    BY <1>3 DEF MarkCommitting, Mark, TypeOK, Procs
  <2>2. Decided' = Decided
    BY <1>1, <2>1, DecidedMoves DEF Terminal
  <2>3. \A u \in Tx : ~Committing(u)
    BY <1>1, <2>1
  <2> QED
    BY <1>3, <2>2, <2>3, MarkShows
<1>4. CASE Complete(t)
  <2>1. /\ pc[t] = "commit" /\ todo[t] = {} /\ phase[t] = "committing" /\ phase'[t] = "completed"
        /\ file' = file
    BY <1>4 DEF Complete, Goto, Mark, TypeOK, Procs, PhaseInTurn
  <2>2. \A f \in Job[t].files : file[f] = After(t, f, snap[t][f])
    BY <2>1 DEF AllInStep, InStep, Made
  <2>3. Store = [f \in Files |-> IF f \in Job[t].files THEN snap[t][f] ELSE file[f]]
    BY <2>1, StoreCommitting
  <2>4. Store' = file /\ file = [f \in Files |-> file[f]]
    BY <1>1, <2>1, StoreSettledNext DEF TypeOK, Procs
  <2>5. Store' = Effect(t, Store)
    BY <2>2, <2>3, <2>4 DEF Effect
  <2>6. Decided[t] = "pending" /\ Decided' = [Decided EXCEPT ![t] = "applied"]
    BY <1>1, <2>1, DecidedMoves DEF Terminal
  <2> QED
    BY <2>5, <2>6 DEF Promise!Apply
<1>5. CASE Abort(t) \/ (EndRollback(t, t) /\ ~failed[t])
  <2>1. /\ phase[t] \in {"prepared", "committing"}
        /\ phase'[t] \in {"aborted", "rolled_back", "recovered"}
        /\ UNCHANGED <<file, snap>>
        /\ pc[t] = "abort" \/ (pc[t] = "restore" /\ todo[t] = {} /\ ~failed[t])
    BY <1>5 DEF Abort, EndRollback, Goto, Mark, TypeOK, Procs, PhaseInTurn
  <2>2. \A f \in Job[t].files : file[f] = snap[t][f]
    BY <2>1 DEF AllInStep, InStep, Same
  <2>3. Store' = file /\ file = [f \in Files |-> file[f]]
    BY <1>1, <2>1, StoreSettledNext DEF TypeOK, Procs
  <2>4. Store = file
    <3>1. CASE Committing(t)
      BY <2>2, <2>3, <3>1, StoreCommitting
    <3>2. CASE ~Committing(t)
      BY <1>1, <3>2, StoreSettled
    <3> QED
      BY <3>1, <3>2
  <2>5. Decided[t] = "pending" /\ Decided' = [Decided EXCEPT ![t] = "refused"]
    BY <1>1, <2>1, DecidedMoves DEF Terminal
  <2> QED
    BY <2>3, <2>4, <2>5 DEF Promise!Refuse
<1> QED
  BY <1>2, <1>3, <1>4, <1>5, PhaseMoves

-----------------------------------------------------------------------------
(* What the abstraction shows of a shared file has every edit of the user. *)
StoreEdits == \A f \in UserFiles : Store[f].user = edits[f]

(* The user's edit is AtomicUpdate's: every run is settled.                *)
LEMMA EditMaps ==
    ASSUME InTurn, TypeOK, TypeOK', StoreEdits, NEW f \in UserFiles, UserEdit(f)
    PROVE  Promise!Edit(f) /\ StoreEdits'
<1>1. \A t \in Tx : ~Committing(t) /\ ~Committing(t)'
  BY DEF UserEdit, runVars, InTurn, Settled, Gone, Committing
<1>2. Store = file /\ Store' = file'
  BY <1>1, StoreSettled, StoreSettledNext
<1>3. f \in Files /\ file[f] \in Contents /\ file[f].user = edits[f]
  BY <1>2, UserFile DEF TypeOK, Procs, StoreEdits
<1>4. file' = [file EXCEPT ![f] = [exists |-> TRUE, user |-> edits[f] + 1, owned |-> file[f].owned]]
  BY DEF UserEdit, Put
<1>5. [file[f] EXCEPT !.exists = TRUE, !.user = @ + 1]
        = [exists |-> TRUE, user |-> edits[f] + 1, owned |-> file[f].owned]
  <2> DEFINE r == [file[f] EXCEPT !.exists = TRUE]
  <2>1. r \in Contents /\ r.exists = TRUE /\ r.user = file[f].user /\ r.owned = file[f].owned
    BY <1>3 DEF Contents
  <2> HIDE DEF r
  <2>2. [r EXCEPT !.user = file[f].user + 1]
          = [exists |-> r.exists, user |-> file[f].user + 1, owned |-> r.owned]
    BY <2>1 DEF Contents
  <2> QED
    BY <1>3, <2>1, <2>2 DEF r
<1>6. file' = [file EXCEPT ![f].exists = TRUE, ![f].user = @ + 1]
  BY <1>3, <1>4, <1>5 DEF TypeOK, Procs
<1>7. Decided' = Decided
  BY DEF UserEdit, runVars, Decided
<1>8. StoreEdits'
  <2>1. edits' = [edits EXCEPT ![f] = edits[f] + 1]
    BY DEF UserEdit
  <2>2. \A g \in UserFiles : file'[g].user = edits'[g]
    BY <1>2, <1>3, <1>4, <2>1, UserFile DEF TypeOK, Procs, StoreEdits
  <2> QED
    BY <1>2, <2>2 DEF StoreEdits
<1> QED
  BY <1>2, <1>6, <1>7, <1>8 DEF Promise!Edit

(* No run takes an edit back, as the abstraction shows it.                 *)
LEMMA StoreEditsStep ==
    ASSUME TypeOK, StoreEdits, UNCHANGED edits, NEW t \in Tx,
           Promise!Apply(t) \/ Promise!Refuse(t) \/ UNCHANGED <<Store, Decided>>
    PROVE  StoreEdits'
<1>1. CASE Store' = Store
  BY <1>1 DEF StoreEdits
<1>2. CASE Store' = Effect(t, Store)
  <2>1. ASSUME NEW f \in UserFiles PROVE Store'[f].user = Store[f].user
    BY <1>2, UserFile, AfterOwner DEF Effect
  <2> QED
    BY <2>1 DEF StoreEdits
<1> QED
  BY <1>1, <1>2 DEF Promise!Apply, Promise!Refuse

LEMMA StartsShown == Init => Promise!AInit /\ StoreEdits
<1> SUFFICES ASSUME Init PROVE Promise!AInit /\ StoreEdits
  OBVIOUS
<1>1. Decided = [t \in Tx |-> "pending"]
  BY DEF Init, Decided
<1>2. \A t \in Tx : ~Committing(t)
  BY DEF Init, Committing
<1>3. Store = file
  BY <1>2, TypeInit, StoreSettled
<1>4. \A had, users : \A f \in Files : Machine(had, users)[f].user = 0
  BY DEF Machine, Written, Absent
<1>5. \A f \in UserFiles : file[f].user = 0 /\ edits[f] = 0
  BY <1>4, UserFile DEF Init, Machines
<1> QED
  BY <1>1, <1>3, <1>5 DEF StoreEdits, Promise!AInit, Promise!Pending

LEMMA TurnInit == Init => OneRun /\ ReportSolid /\ AllInStep
<1> SUFFICES ASSUME Init PROVE OneRun /\ ReportSolid /\ AllInStep
  OBVIOUS
<1>1. \A had, users : Solid(Machine(had, users)["generated"])
  BY ReportFile DEF Machine, Written, Solid
<1>2. OneRun /\ AllInStep
  BY Processes DEF Init, OneRun, Settled, Gone, AllInStep, InStep
<1> QED
  BY <1>1, <1>2, ReportFile DEF Init, Machines, ReportSolid, Solid

(* What holds of runs that follow one another.                             *)
TurnInv ==
    /\ TypeOK /\ PhaseInTurn /\ InJob /\ Verified
    /\ OneRun /\ ReportSolid /\ AllInStep /\ StoreEdits

LEMMA TurnStep ==
    ASSUME InTurn, TurnInv, [Next]_vars
    PROVE  TurnInv' /\ [Promise!ANext]_(Promise!absVars)
<1> USE DEF TurnInv
<1>1. /\ TypeOK' /\ PhaseInTurn' /\ InJob' /\ Verified' /\ OneRun' /\ ReportSolid' /\ AllInStep'
  BY TypeStep, InTurnStep, InJobStep, VerifiedStep, OneRunStep, SolidStep, InStepStep
<1>2. ASSUME NEW t \in Tx, Moves(t) PROVE StoreEdits' /\ [Promise!ANext]_(Promise!absVars)
  <2>1. Promise!Apply(t) \/ Promise!Refuse(t) \/ UNCHANGED <<Store, Decided>>
    BY <1>1, <1>2, MoveMaps
  <2>2. UNCHANGED edits
    BY <1>2, MovesKeepEdits
  <2> QED
    BY <2>1, <2>2, StoreEditsStep DEF Promise!ANext, Promise!absVars
<1>3. ASSUME NEW f \in UserFiles, UserEdit(f) PROVE StoreEdits' /\ [Promise!ANext]_(Promise!absVars)
  BY <1>1, <1>3, EditMaps DEF Promise!ANext
<1>4. CASE UNCHANGED vars
  <2>1. UNCHANGED <<Store, Decided>>
    BY <1>4 DEF vars, runVars, Store, Decided, Committing
  <2> QED
    BY <1>1, <1>4, <2>1 DEF StoreEdits, vars, Promise!absVars
<1> QED
  BY <1>1, <1>2, <1>3, <1>4, MovesOrEdits

(* When one run follows another and the user edits between them, each run  *)
(* changes all its files in one step or none: the half of a commit that a  *)
(* fault, a kill or a recovery leaves on disk never outlives the run.      *)
THEOREM RunsAreAtomic ==
    ASSUME InTurn
    PROVE  Spec => AllOrNothing
<1>1. Init => TurnInv
  BY TypeInit, InTurnInit, CleanInit, EditsInit, TurnInit, StartsShown DEF TurnInv
<1>2. TurnInv /\ [Next]_vars => TurnInv' /\ [Promise!ANext]_(Promise!absVars)
  BY TurnStep
<1> QED
  BY StartsShown, <1>1, <1>2, PTL DEF Spec, AllOrNothing, Promise!ASpec

LEMMA RestoredStep ==
    ASSUME InTurn, TurnInv, [Next]_vars, NEW t \in Tx, phase[t] = "committing",
           phase'[t] \in {"rolled_back", "recovered"}, NEW f \in Job[t].files
    PROVE  file[f] = snap[t][f]
<1> USE DEF TurnInv
<1>1. Moves(t)
  <2>1. ASSUME NEW u \in Tx, Moves(u) PROVE u = t
    BY <2>1, MovesOwn
  <2>2. ASSUME NEW g \in UserFiles, UserEdit(g) PROVE FALSE
    BY <2>2 DEF UserEdit, runVars
  <2>3. CASE UNCHANGED vars
    BY <2>3 DEF vars, runVars
  <2> QED
    BY <2>1, <2>2, <2>3, MovesOrEdits
<1>2. EndRollback(t, t) /\ ~failed[t]
  BY <1>1, PhaseMoves DEF MarkCommitting, Complete, Abort, Mark, TypeOK, Procs
<1>3. pc[t] = "restore" /\ todo[t] = {}
  BY <1>2 DEF EndRollback, Goto
<1> QED
  BY <1>2, <1>3 DEF AllInStep, InStep, Same

(* A rollback or a recovery that reports success has put every file of the *)
(* run back as the run found it, also when it was itself killed and        *)
(* started over.                                                           *)
THEOREM RollbackIsWhole ==
    ASSUME InTurn
    PROVE  Spec => RollbackRestores
<1>1. Init => TurnInv
  BY TypeInit, InTurnInit, CleanInit, EditsInit, TurnInit, StartsShown DEF TurnInv
<1>2. TurnInv /\ [Next]_vars => TurnInv'
  BY TurnStep
<1>3. TurnInv /\ [Next]_vars =>
        [\A t \in Tx : phase[t] = "committing" /\ phase'[t] \in {"rolled_back", "recovered"} =>
          \A f \in Job[t].files :
            /\ file[f].owned = snap[t][f].owned
            /\ f \notin UserFiles => file[f] = snap[t][f]]_vars
  BY RestoredStep
<1> QED
  BY <1>1, <1>2, <1>3, PTL DEF Spec, RollbackRestores
-----------------------------------------------------------------------------
(* The report lands last.  Every install has a version of its own, so that *)
(* a report tells whose it is.                                             *)
OwnVersions ==
    \A t, u \in Tx : t # u /\ Job[t].op = "install" /\ Job[u].op = "install"
        => Job[t].version # Job[u].version

Right(t, f, c) == IF f \in Keys THEN c.exists ELSE c.owned = After(t, f, Absent).owned
RightIn(t, s) == \A f \in Job[t].files \ {"instruction"} : Right(t, f, s[f])

(* What a run stages is right, whatever it found.                          *)
LEMMA StagedRight ==
    ASSUME NEW t \in Tx, NEW f \in Files, NEW s
    PROVE  /\ f \notin Keys => After(t, f, s).owned = After(t, f, Absent).owned
           /\ Right(t, f, After(t, f, s))
<1>1. f \in Dirs \/ f \in Snapshots \/ f \in Keys \/ f = "instruction" \/ f = "generated" \/ f = "settings"
  BY DEF Files, Text, Assets
<1>2. CASE f \in Keys
  <2>1. After(t, f, s) = IF s.exists THEN s ELSE Written("fresh")
    BY <1>2, NamesApart DEF After, Text, Assets
  <2> QED
    BY <1>2, <2>1 DEF Right, Written
<1>3. CASE f \in Dirs \cup Snapshots
  <2>1. \A c : After(t, f, c) = Written(Job[t].version)
    BY <1>3, NamesApart DEF After, Text, Assets
  <2> QED
    BY <2>1, <1>3, NamesApart DEF Right
<1>4. CASE f = "generated"
  <2>1. After(t, f, s) = After(t, f, Absent) /\ f \notin Keys
    BY <1>4, ReportFile, NamesApart DEF After, Text, Assets
  <2> QED
    BY <2>1 DEF Right
<1>5. CASE f \in {"instruction", "settings"}
  <2>1. PICK v : \A c : After(t, f, c) = Owning(c, v)
    BY <1>5, NamesApart DEF After, Text, Assets
  <2> QED
    BY <1>5, <2>1, UserFile DEF Right, Owning, UserFiles
<1> QED
  BY <1>1, <1>2, <1>3, <1>4, <1>5

LEMMA RightProves ==
    ASSUME NEW t \in Tx
    PROVE  Proven(t) <=> RightIn(t, file)
<1>1. ASSUME NEW f \in Job[t].files \ {"instruction"} PROVE InPlace(t, f) <=> Right(t, f, file[f])
  BY JobFiles, StagedRight DEF InPlace, Right
<1> QED
  BY <1>1 DEF Proven, RightIn

LEMMA ReportWritten ==
    ASSUME NEW t \in Tx, NEW s
    PROVE  /\ "generated" \in Job[t].files /\ Job[t].version \in Versions
           /\ After(t, "generated", s)
                = IF Job[t].op = "install" THEN Written(Job[t].version) ELSE Absent
BY JobAssumption, TextManaged, NamesApart DEF Jobs, After, Assets, Text

(* What the abstraction shows of the report is right.                      *)
ShownReport ==
    \A t \in Tx : Job[t].op = "install" /\ Store["generated"].owned = Job[t].version
        => Decided[t] = "applied" /\ RightIn(t, Store)

LEMMA ShownApply ==
    ASSUME OwnVersions, ShownReport, NEW t \in Tx, Promise!Apply(t)
    PROVE  ShownReport'
<1>1. Store' = Effect(t, Store) /\ Decided'[t] = "applied"
  BY DEF Promise!Apply, Decided
<1>2. \A f \in Job[t].files : Store'[f] = After(t, f, Store[f])
  BY <1>1, JobFiles DEF Effect
<1>3. Store'["generated"] = IF Job[t].op = "install" THEN Written(Job[t].version) ELSE Absent
  BY <1>2, ReportWritten
<1>4. ASSUME NEW u \in Tx, Job[u].op = "install", Store'["generated"].owned = Job[u].version
      PROVE  Decided'[u] = "applied" /\ RightIn(u, Store')
  <2>1. Job[t].op = "install"
    BY <1>3, <1>4, ReportWritten, NamesApart DEF Absent
  <2>2. u = t
    BY <1>3, <1>4, <2>1 DEF Written, OwnVersions
  <2>3. RightIn(t, Store')
    BY <1>2, JobFiles, StagedRight DEF RightIn
  <2> QED
    BY <1>1, <2>2, <2>3
<1> QED
  BY <1>4 DEF ShownReport, RightIn, Right

LEMMA ShownEdit ==
    ASSUME TypeOK, TypeOK', ShownReport, NEW f \in UserFiles, Store' = [Store EXCEPT ![f].exists = TRUE, ![f].user = @ + 1],
           Decided' = Decided, Store = file
    PROVE  ShownReport'
<1>1. f \in Files /\ f # "generated" /\ f \notin Keys
  BY UserFile, ReportFile
<1>2. \A g \in Files : g # f => Store'[g] = Store[g]
  BY <1>1 DEF TypeOK, Procs
<1>3. Store'[f].owned = Store[f].owned
  <2>1. file[f] \in Contents
    BY <1>1 DEF TypeOK, Procs
  <2> DEFINE r == [file[f] EXCEPT !.exists = TRUE]
  <2>2. r.owned = file[f].owned /\ r \in Contents
    BY <2>1 DEF Contents
  <2>3. Store'[f] = [r EXCEPT !.user = file[f].user + 1]
    BY <1>1 DEF TypeOK, Procs
  <2> HIDE DEF r
  <2>4. Store'[f].owned = r.owned
    BY <2>2, <2>3 DEF Contents
  <2> QED
    BY <2>2, <2>4
<1>4. \A t \in Tx : RightIn(t, Store) => RightIn(t, Store')
  BY <1>1, <1>2, <1>3, JobFiles DEF RightIn, Right
<1> QED
  BY <1>1, <1>2, <1>4, ReportFile DEF ShownReport, RightIn, Right

LEMMA ShownStep ==
    ASSUME InTurn, OwnVersions, TurnInv, ShownReport, [Next]_vars
    PROVE  ShownReport'
<1> USE DEF TurnInv
<1>0. TypeOK' /\ OneRun'
  BY TypeStep, OneRunStep
<1>1. CASE UNCHANGED <<Store, Decided>>
  BY <1>1 DEF ShownReport, RightIn, Right
<1>2. ASSUME NEW t \in Tx, Promise!Refuse(t) PROVE ShownReport'
  <2>1. Store' = Store /\ \A u \in Tx : Decided[u] = "applied" => Decided'[u] = "applied"
    BY <1>2 DEF Promise!Refuse, Decided
  <2> QED
    BY <2>1 DEF ShownReport, RightIn, Right
<1>3. ASSUME NEW t \in Tx, Moves(t) PROVE ShownReport'
  BY <1>0, <1>1, <1>2, <1>3, MoveMaps, ShownApply
<1>4. ASSUME NEW f \in UserFiles, UserEdit(f) PROVE ShownReport'
  <2>1. Promise!Edit(f)
    BY <1>0, <1>4, EditMaps
  <2>2. \A t \in Tx : ~Committing(t)
    BY <1>4 DEF UserEdit, InTurn, Settled, Gone, Committing
  <2>3. Store = file
    BY <2>2, StoreSettled
  <2> QED
    BY <1>0, <2>1, <2>3, ShownEdit DEF Promise!Edit
<1>5. CASE UNCHANGED vars
  BY <1>1, <1>5 DEF vars, runVars, Store, Decided, Committing
<1> QED
  BY <1>3, <1>4, <1>5, MovesOrEdits

LEMMA ShownInit == Init => ShownReport
<1> SUFFICES ASSUME Init PROVE ShownReport
  OBVIOUS
<1>1. Store = file
  <2>1. \A t \in Tx : ~Committing(t)
    BY DEF Init, Committing
  <2> QED
    BY <2>1, TypeInit, StoreSettled
<1>2. \A had, users : Machine(had, users)["generated"].owned \in {"old", "none"}
  BY ReportFile DEF Machine, Written, Absent
<1>3. file["generated"].owned \in {"old", "none"}
  BY <1>2 DEF Init, Machines
<1> QED
  BY <1>1, <1>3, ReportWritten, NamesApart DEF ShownReport

(* The commit of an install has nothing left to do once the report is in.  *)
ReportLast ==
    \A t \in Tx : Job[t].op = "install" /\ pc[t] \in {"commit", "place"} /\ "generated" \notin todo[t]
        => todo[t] = {}

LEMMA LastMoves ==
    ASSUME TypeOK, InJob, ReportLast, NEW t \in Tx, Moves(t), Job[t].op = "install",
           pc'[t] \in {"commit", "place"}, "generated" \notin todo'[t]
    PROVE  todo'[t] = {}
<1>1. "generated" \in Job[t].files /\ todo[t] \subseteq Files
  BY JobFiles, ReportWritten DEF InJob
<1>2. CommitsBefore(Job[t].op, "generated") = Assets \cup {"instruction", "settings"}
  BY NamesApart DEF CommitsBefore, Assets, Text
<1>3. BeginCommit(t) \/ \E f \in Files : CommitFile(t, f) \/ RetireDir(t, f) \/ PlaceDir(t, f)
  BY DEF TypeOK, Procs, Moves, Step, Rollback, Fault, Goto, Start, Plan, Prepare, Stage, ValidateStages, MarkCommitting,
     Complete, Abort, EndRollback, Recover, BeginRecover, FailBefore, FailCommit, FailPersist, Crash,
     TamperStage, Snapshot, BackupAsset, CheckOriginal, FailRename,
     RestoreFile, ClearDir, CopyDir, FailRestore
<1>4. CASE BeginCommit(t)
  BY <1>1, <1>4 DEF BeginCommit, Loop, TypeOK, Procs
<1>5. ASSUME NEW f \in Files, RetireDir(t, f) PROVE todo'[t] = {}
  BY <1>5 DEF RetireDir, Goto, ReportLast
<1>6. ASSUME NEW f \in Files, CommitFile(t, f) \/ PlaceDir(t, f) PROVE todo'[t] = {}
  <2>1. /\ pc[t] \in {"commit", "place"} /\ f \in todo[t] /\ todo'[t] = todo[t] \ {f}
        /\ todo[t] \cap CommitsBefore(Job[t].op, f) = {}
    BY <1>6 DEF CommitFile, PlaceDir, Visit, Goto, TypeOK, Procs
  <2>2. f = "generated"
    BY <2>1 DEF ReportLast
  <2>3. todo[t] \subseteq {"generated"}
    BY <1>1, <1>2, <2>1, <2>2 DEF Files, Text
  <2> QED
    BY <2>1, <2>2, <2>3
<1> QED
  BY <1>3, <1>4, <1>5, <1>6

LEMMA LastStep ==
    ASSUME InTurn, TurnInv, ReportLast, [Next]_vars
    PROVE  ReportLast'
<1> USE DEF TurnInv
<1>1. ASSUME NEW t \in Tx, Moves(t) PROVE ReportLast'
  <2>1. ASSUME NEW u \in Tx, u # t PROVE pc'[u] \notin {"commit", "place"}
    BY <1>1, <2>1, OthersSettled, MovesOwn, OneProcess DEF Gone
  <2> QED
    BY <1>1, <2>1, LastMoves DEF ReportLast
<1>2. ASSUME NEW f \in UserFiles, UserEdit(f) PROVE ReportLast'
  BY <1>2 DEF UserEdit, runVars, ReportLast
<1>3. CASE UNCHANGED vars
  BY <1>3 DEF vars, runVars, ReportLast
<1> QED
  BY MovesOrEdits, <1>1, <1>2, <1>3

(* What an install under way found is no report of its own.                *)
LEMMA FoundOther ==
    ASSUME TurnInv, OwnVersions, ShownReport, NEW t \in Tx, Job[t].op = "install",
           InTurn, Committing(t) \/ (MarkCommitting(t) /\ \A u \in Tx : ~Committing(u))
    PROVE  snap[t]["generated"].owned # Job[t].version
<1> USE DEF TurnInv
<1>1. Decided[t] # "applied"
  BY DEF MarkCommitting, Decided, Committing
<1>2. "generated" \in Files /\ "generated" \in Job[t].files
  BY ReportFile, ReportWritten
<1>3. Store["generated"] = snap[t]["generated"]
  <2>1. CASE Committing(t)
    BY <1>2, <2>1, StoreCommitting
  <2>2. CASE MarkCommitting(t) /\ \A u \in Tx : ~Committing(u)
    <3>1. pc[t] = "check"
      BY <2>2 DEF MarkCommitting, Goto
    <3>2. file["generated"] = snap[t]["generated"]
      BY <1>2, <3>1 DEF AllInStep, InStep, Same
    <3> QED
      BY <2>2, <3>2, StoreSettled
  <2> QED
    BY <2>1, <2>2
<1> QED
  BY <1>1, <1>3 DEF ShownReport

(* In the middle of a commit, after it failed or was killed, and until the *)
(* rollback reaches it, the report says what else is there.                *)
MidCommit ==
    \A t \in Tx :
        /\ Job[t].op = "install" /\ Committing(t) /\ ~failed[t] /\ ~recovers[t]
        /\ file["generated"].owned = Job[t].version
        => Proven(t)

LEMMA CommitReports ==
    ASSUME TurnInv, ReportLast, ReportLast', NEW t \in Tx, InStep(t)', Job[t].op = "install",
           snap' = snap, snap[t]["generated"].owned # Job[t].version,
           file'["generated"].owned = Job[t].version, NEW f \in Files,
           CommitFile(t, f) \/ RetireDir(t, f) \/ PlaceDir(t, f)
    PROVE  Proven(t)'
<1> USE DEF TurnInv
<1>1. "generated" \in Files /\ "generated" \notin Dirs
  BY ReportFile
<1>2. pc[t] \in {"commit", "place"} /\ f \in todo[t] /\ \E c : Put(f, c)
  BY DEF CommitFile, RetireDir, PlaceDir, Visit, Goto
<1>3. "generated" \in todo[t]
  BY <1>2 DEF ReportLast
<1>4. file["generated"] = snap[t]["generated"]
  BY <1>1, <1>2, <1>3 DEF AllInStep, InStep, Same
<1>5. f = "generated"
  BY <1>1, <1>2, <1>4, PutMoves
<1>6. pc'[t] = "commit" /\ todo'[t] = todo[t] \ {f}
  BY <1>1, <1>5 DEF CommitFile, RetireDir, PlaceDir, Visit, Goto, TypeOK, Procs
<1>7. todo'[t] = {}
  BY <1>5, <1>6 DEF ReportLast
<1>8. \A g \in Job[t].files : file'[g] = After(t, g, snap'[t][g])
  BY <1>6, <1>7 DEF InStep, Made
<1>9. ASSUME NEW g \in Job[t].files PROVE InPlace(t, g)'
  <2>1. g \in Keys => file'[g].exists
    BY <1>8, JobFiles, StagedRight DEF Right
  <2> QED
    BY <1>8, <2>1 DEF InPlace
<1> QED
  BY <1>9 DEF Proven

LEMMA RestoreReports ==
    ASSUME TurnInv, InTurn, MidCommit, NEW t \in Tx, Job[t].op = "install",
           Committing(t), ~failed[t], ~recovers[t], snap' = snap,
           snap[t]["generated"].owned # Job[t].version,
           file'["generated"].owned = Job[t].version, NEW f \in Files,
           RestoreFile(t, t, f) \/ ClearDir(t, f) \/ CopyDir(t, t, f)
    PROVE  Proven(t)'
<1> USE DEF TurnInv
<1>1. "generated" \in Files /\ "generated" \notin Dirs /\ "generated" \notin Keys /\ "generated" \in Job[t].files
  BY ReportFile, ReportWritten
<1>2. /\ pc[t] \in {"restore", "copy"} /\ todo[t] \cap BackupsBefore(f) = {}
      /\ \E c : Put(f, c)
      /\ f = "generated" => Put(f, snap[t][f])
  BY <1>1 DEF RestoreFile, ClearDir, CopyDir, Visit, Goto, Utf8
<1>3. f # "generated"
  BY <1>1, <1>2, PutMoves
<1>4. \A g \in Files : g # f => file'[g] = file[g]
  BY <1>2, PutMoves
<1>5. "generated" \in todo[t]
  <2>1. "generated" \notin todo[t] => file["generated"] = snap[t]["generated"]
    BY <1>1, <1>2 DEF AllInStep, InStep, Same
  <2> QED
    BY <1>1, <1>3, <1>4, <2>1
<1>6. f = "instruction"
  <2>1. CASE f \in Assets
    <3>1. "generated" \in BackupsBefore(f)
      BY <2>1, NamesApart DEF BackupsBefore, Assets, Text
    <3> QED
      BY <1>2, <1>5, <3>1
  <2>2. CASE f = "settings"
    <3>1. "generated" \in BackupsBefore(f)
      BY <2>2, NamesApart DEF BackupsBefore, Assets, Text
    <3> QED
      BY <1>2, <1>5, <3>1
  <2> QED
    BY <1>3, <2>1, <2>2 DEF Files, Text
<1>7. Proven(t)
  BY <1>1, <1>3, <1>4 DEF MidCommit
<1>8. ASSUME NEW g \in Job[t].files \ {"instruction"} PROVE InPlace(t, g)'
  <2>1. file'[g] = file[g]
    BY <1>4, <1>6, JobFiles
  <2>2. InPlace(t, g)
    BY <1>7 DEF Proven
  <2> QED
    BY <2>1, <2>2 DEF InPlace
<1> QED
  BY <1>8 DEF Proven

LEMMA FailedOrRecovers ==
    ASSUME TypeOK, NEW t \in Tx, Moves(t), ~failed'[t], ~recovers'[t]
    PROVE  ~failed[t] /\ ~recovers[t]
<1> USE DEF TypeOK, Procs
<1>1. CASE \/ Start(t) \/ Plan(t) \/ Prepare(t) \/ Stage(t) \/ ValidateStages(t)
           \/ MarkCommitting(t) \/ BeginCommit(t) \/ Complete(t) \/ Abort(t) \/ EndRollback(t, t)
           \/ FailBefore(t) \/ FailCommit(t) \/ FailPersist(t) \/ Crash(t) \/ TamperStage(t)
  BY <1>1 DEF Start, Plan, Prepare, Stage, ValidateStages, MarkCommitting, BeginCommit,
      Complete, Abort, EndRollback, FailBefore, FailCommit, FailPersist, Crash, TamperStage
<1>2. CASE Recover(t, t)
  BY <1>2 DEF Recover, BeginRecover
<1>3. ASSUME NEW f \in Files,
             \/ Snapshot(t, f) \/ BackupAsset(t, f) \/ CheckOriginal(t, f)
             \/ CommitFile(t, f) \/ RetireDir(t, f) \/ PlaceDir(t, f) \/ FailRename(t, f)
             \/ RestoreFile(t, t, f) \/ ClearDir(t, f) \/ CopyDir(t, t, f)
      PROVE ~failed[t] /\ ~recovers[t]
  BY <1>3 DEF Snapshot, BackupAsset, CheckOriginal, CommitFile, RetireDir, PlaceDir, FailRename,
      RestoreFile, ClearDir, CopyDir
<1>4. ASSUME NEW f \in Files, FailRestore(t, f) PROVE FALSE
  BY <1>4 DEF FailRestore
<1> QED
  BY <1>1, <1>2, <1>3, <1>4 DEF Moves, Step, Rollback, Fault

LEMMA MidMoves ==
    ASSUME InTurn, OwnVersions, TurnInv, TurnInv', ShownReport, ReportLast, ReportLast', MidCommit,
           NEW t \in Tx, Moves(t), Job[t].op = "install", Committing(t)', ~failed'[t], ~recovers'[t],
           file'["generated"].owned = Job[t].version
    PROVE  Proven(t)'
<1>0. TypeOK /\ PhaseInTurn /\ InJob /\ AllInStep /\ InStep(t)'
  BY DEF TurnInv, AllInStep
<1>1. ~failed[t] /\ ~recovers[t]
  BY <1>0, FailedOrRecovers
<1>2. CASE MarkCommitting(t)
  <2>1. \A u \in Tx : ~Committing(u)
    BY <1>2, OthersSettled DEF TurnInv, Settled, Gone, Committing, MarkCommitting
  <2>2. pc[t] = "check" /\ file' = file
    BY <1>2 DEF MarkCommitting, Goto
  <2>3. file["generated"] = snap[t]["generated"]
    BY <1>0, <2>2, ReportWritten DEF AllInStep, InStep, Same
  <2> QED
    BY <1>2, <2>1, <2>2, <2>3, FoundOther
<1>3. CASE ~MarkCommitting(t)
  <2>1. Committing(t)
    BY <1>0, <1>3, PhaseMoves DEF Committing, Complete, Abort, EndRollback, Mark, TypeOK, Procs
  <2>2. snap' = snap /\ snap[t]["generated"].owned # Job[t].version
    BY <1>0, <2>1, WritesWhenCommitting, FoundOther
  <2>3. CASE file' = file
    <3>1. Proven(t)
      BY <1>1, <2>1, <2>3 DEF MidCommit
    <3> QED
      BY <2>2, <2>3, <3>1 DEF Proven, InPlace
  <2>4. ASSUME NEW f \in Files,
               \/ CommitFile(t, f) \/ RetireDir(t, f) \/ PlaceDir(t, f)
               \/ RestoreFile(t, t, f) \/ ClearDir(t, f) \/ CopyDir(t, t, f)
        PROVE  Proven(t)'
    BY <1>0, <1>1, <2>1, <2>2, <2>4, CommitReports, RestoreReports
  <2>5. \/ file' = file
        \/ \E f \in Files :
             \/ CommitFile(t, f) \/ RetireDir(t, f) \/ PlaceDir(t, f)
             \/ RestoreFile(t, t, f) \/ ClearDir(t, f) \/ CopyDir(t, t, f)
    BY DEF Moves, Step, Rollback, Fault, Start, Plan, Prepare, Stage, ValidateStages, MarkCommitting, BeginCommit,
       Complete, Abort, EndRollback, Recover, BeginRecover, FailBefore, FailCommit, FailPersist, Crash,
       TamperStage, Snapshot, BackupAsset, CheckOriginal, FailRename, FailRestore
  <2> QED
    BY <2>3, <2>4, <2>5
<1> QED
  BY <1>2, <1>3

LEMMA MidStep ==
    ASSUME InTurn, OwnVersions, TurnInv, TurnInv', ShownReport, ReportLast, ReportLast', MidCommit,
           [Next]_vars
    PROVE  MidCommit'
<1>1. ASSUME NEW t \in Tx, Moves(t) PROVE MidCommit'
  <2>1. ASSUME NEW u \in Tx, u # t PROVE ~Committing(u)'
    BY <1>1, <2>1, OthersSettled, MovesOwn DEF TurnInv, Settled, Gone, Committing
  <2> QED
    BY <1>1, <2>1, MidMoves DEF MidCommit
<1>2. ASSUME NEW f \in UserFiles, UserEdit(f) PROVE MidCommit'
  <2>1. \A u \in Tx : ~Committing(u)'
    BY <1>2 DEF UserEdit, runVars, InTurn, Settled, Gone, Committing
  <2> QED
    BY <2>1 DEF MidCommit
<1>3. CASE UNCHANGED vars
  BY <1>3 DEF vars, runVars, MidCommit, Committing, Proven, InPlace
<1> QED
  BY MovesOrEdits, <1>1, <1>2, <1>3

(* While a run's report is on disk, the hooks and the assets it describes  *)
(* are the run's too, also in the middle of its commit, after it was       *)
(* killed and while it is rolled back.                                     *)
THEOREM ReportIsLast ==
    ASSUME InTurn, OwnVersions
    PROVE  Spec => []ReportLandsLast
<1> DEFINE Inv == TurnInv /\ ShownReport /\ ReportLast /\ MidCommit
<1>1. Init => Inv
  <2>1. Init => ReportLast /\ MidCommit
    BY Processes DEF Init, ReportLast, MidCommit, Committing
  <2> QED
    BY <2>1, TypeInit, InTurnInit, CleanInit, EditsInit, TurnInit, StartsShown, ShownInit DEF TurnInv
<1>2. Inv /\ [Next]_vars => Inv'
  BY TurnStep, ShownStep, LastStep, MidStep
<1>3. Inv => ReportLandsLast
  <2> SUFFICES ASSUME Inv, NEW t \in Tx, Reported(t), ~failed[t], ~recovers[t],
                      \A u \in Tx \ {t} : Settled(u)
               PROVE  Proven(t)
    BY DEF ReportLandsLast
  <2>1. CASE Committing(t)
    BY <2>1 DEF Reported, MidCommit
  <2>2. CASE ~Committing(t)
    <3>1. Store = file
      BY <2>2, StoreSettled DEF TurnInv, Settled, Gone, Committing
    <3> QED
      BY <3>1, RightProves DEF Reported, ShownReport
  <2> QED
    BY <2>1, <2>2
<1> QED
  BY <1>1, <1>2, <1>3, PTL DEF Spec
=============================================================================
