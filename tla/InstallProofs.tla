---------------------------- MODULE InstallProofs ----------------------------
(***************************************************************************)
(* What holds of a run of the installer for any number of runs, files,     *)
(* versions, edits, faults and crashes, and whatever the interleaving.     *)
(***************************************************************************)
EXTENDS InstallProperties, TLAPS

(* Every step is one of these; p is a process that serves run t.           *)
LEMMA Steps ==
    ASSUME [Next]_vars
    PROVE  \/ \E t \in Tx :
                \/ Start(t) \/ Plan(t) \/ Prepare(t) \/ Stage(t) \/ ValidateStages(t)
                \/ MarkCommitting(t) \/ BeginCommit(t) \/ Complete(t) \/ Abort(t)
                \/ FailBefore(t) \/ FailCommit(t) \/ TamperStage(t)
           \/ \E t \in Tx, f \in Files :
                \/ Snapshot(t, f) \/ BackupAsset(t, f) \/ CheckOriginal(t, f)
                \/ CommitFile(t, f) \/ RetireDir(t, f) \/ PlaceDir(t, f) \/ FailRename(t, f)
           \/ \E t \in Tx : \E p \in ProcsOf(t) : EndRollback(p, t) \/ Recover(p, t)
           \/ \E t \in Tx, f \in Files : \E p \in ProcsOf(t) :
                RestoreFile(p, t, f) \/ ClearDir(p, f) \/ CopyDir(p, t, f) \/ FailRestore(p, f)
           \/ \E t \in Tx : \E p \in ProcsOf(t) : FailPersist(p) \/ Crash(p)
           \/ \E f \in UserFiles : UserEdit(f)
           \/ UNCHANGED vars
<1>1. \A t \in Tx : t \in ProcsOf(t)
  BY DEF ProcsOf
<1>2. \A p \in Rivals : RivalOf[p] \in Tx /\ p \in ProcsOf(RivalOf[p])
  BY RivalAssumption DEF ProcsOf
<1>3. \A t \in Tx : Rollback(t, t) => \E p \in ProcsOf(t) : Rollback(p, t)
  BY <1>1
<1>4. \A p \in Rivals : Rollback(p, RivalOf[p]) => \E t \in Tx : \E q \in ProcsOf(t) : Rollback(q, t)
  BY <1>2
<1>5. CASE \E t \in Tx : Start(t) \/ Step(t) \/ Recover(t, t) \/ Fault(t)
  BY <1>1, <1>3, <1>5 DEF Step, Rollback, Fault
<1>6. CASE \E p \in Rivals : Rival(p)
  BY <1>2, <1>4, <1>6 DEF Rival, Rollback
<1> QED
  BY <1>5, <1>6 DEF Next, Finished

LEMMA AFile == "settings" \in Files
BY DEF Files, Text

LEMMA Processes == \A t \in Tx : ProcsOf(t) \subseteq Procs /\ t \in Procs
BY DEF ProcsOf, Procs

(* What a run leaves at a file, whatever it found there, is a content.      *)
LEMMA AfterType ==
    ASSUME NEW t \in Tx, NEW f \in Files, NEW s \in Contents
    PROVE  After(t, f, s) \in Contents
<1>1. Job[t] \in Jobs
  BY JobAssumption
<1>2. Job[t].version \in Versions /\ Job[t].op \in Ops /\ Job[t].hooks \in BOOLEAN
  BY <1>1 DEF Jobs
<1>3. \A o \in Owners : Written(o) \in Contents /\ Owning(s, o) \in Contents
  BY DEF Written, Owning, Contents
<1>4. Job[t].version \in Owners /\ "none" \in Owners /\ "fresh" \in Owners
  BY <1>2 DEF Owners
<1>5. Absent \in Contents
  BY DEF Absent, Contents, Owners
<1>6. f \in Dirs \/ f \in Snapshots \/ f \in Keys \/ f = "instruction" \/ f = "generated" \/ f = "settings"
  BY DEF Files, Text, Assets
<1>7. CASE f \in Dirs \cup Snapshots
  BY <1>7, <1>3, <1>4, NamesApart DEF After, Text, Assets
<1>8. CASE f \in Keys
  BY <1>8, <1>3, <1>4, NamesApart DEF After, Text, Assets
<1>9. CASE f = "instruction"
  BY <1>9, <1>3, <1>4, NamesApart DEF After, Text, Assets
<1>10. CASE f = "generated"
  BY <1>10, <1>3, <1>4, <1>5, NamesApart DEF After, Text, Assets
<1>11. CASE f = "settings"
  BY <1>11, <1>3, <1>4, NamesApart DEF After, Text, Assets
<1> QED
  BY <1>6, <1>7, <1>8, <1>9, <1>10, <1>11

(* The content of every staged, restored or retired file is a content.     *)
LEMMA ContentTypes ==
    ASSUME TypeOK, NEW t \in Tx, NEW f \in Files
    PROVE  /\ Staged(t, f) \in Contents
           /\ Utf8(f, snap[t][f]) \in Contents
           /\ Absent \in Contents /\ Written("torn") \in Contents
<1>1. snap[t][f] \in Contents /\ file[f] \in Contents
  BY DEF TypeOK
<1>2. Absent \in Contents /\ Written("torn") \in Contents /\ Written("foreign") \in Contents
  BY DEF Absent, Written, Contents, Owners
<1>3. After(t, f, snap[t][f]) \in Contents
  BY <1>1, AfterType
<1>4. Staged(t, f) \in Contents
  BY <1>1, <1>2, <1>3 DEF Staged
<1>5. [snap[t][f] EXCEPT !.owned = "garbled"] \in Contents
  BY <1>1 DEF Contents, Owners
<1> QED
  BY <1>1, <1>2, <1>4, <1>5 DEF Utf8

(* The files a loop visits are files; the tallies stay numbers.            *)
LEMMA JobFiles ==
    ASSUME NEW t \in Tx
    PROVE  /\ Job[t].files \in SUBSET Files
           /\ TextOf(t) \in SUBSET Files /\ AssetsOf(t) \in SUBSET Files
<1>1. Job[t].files \in SUBSET Files
  BY JobAssumption DEF Jobs
<1> QED
  BY <1>1 DEF TextOf, AssetsOf

LEMMA Tallies ==
    ASSUME TypeOK
    PROVE  LET T == [tampers : Nat, faults : Nat, crashes : Nat] IN
           /\ [spent EXCEPT !.faults = @ + 1] \in T
           /\ [spent EXCEPT !.crashes = @ + 1] \in T
           /\ [spent EXCEPT !.tampers = @ + 1] \in T
BY DEF TypeOK

(* Every action keeps the types: one step per action of Next.              *)
LEMMA TypeStep ==
    ASSUME TypeOK, [Next]_vars
    PROVE  TypeOK'
<1> USE Processes DEF TypeOK, Goto, Put, Mark, Loop, Visit, Read, PCs, Phases
<1>1. ASSUME NEW t \in Tx, Start(t) PROVE TypeOK'
  BY <1>1, JobFiles DEF Start
<1>2. ASSUME NEW t \in Tx, Plan(t) PROVE TypeOK'
  BY <1>2, JobFiles DEF Plan
<1>3. ASSUME NEW t \in Tx, Prepare(t) PROVE TypeOK'
  BY <1>3 DEF Prepare
<1>4. ASSUME NEW t \in Tx, Stage(t) PROVE TypeOK'
  BY <1>4 DEF Stage
<1>5. ASSUME NEW t \in Tx, ValidateStages(t) PROVE TypeOK'
  BY <1>5, JobFiles DEF ValidateStages
<1>6. ASSUME NEW t \in Tx, MarkCommitting(t) PROVE TypeOK'
  BY <1>6 DEF MarkCommitting
<1>7. ASSUME NEW t \in Tx, BeginCommit(t) PROVE TypeOK'
  BY <1>7, JobFiles DEF BeginCommit
<1>8. ASSUME NEW t \in Tx, Complete(t) PROVE TypeOK'
  BY <1>8 DEF Complete
<1>9. ASSUME NEW t \in Tx, Abort(t) PROVE TypeOK'
  BY <1>9 DEF Abort
<1>10. ASSUME NEW t \in Tx, NEW p \in ProcsOf(t), EndRollback(p, t) PROVE TypeOK'
  BY <1>10 DEF EndRollback
<1>11. ASSUME NEW t \in Tx, NEW p \in ProcsOf(t), Recover(p, t) PROVE TypeOK'
  BY <1>11, JobFiles DEF Recover, BeginRecover
<1>12. ASSUME NEW t \in Tx, NEW f \in Files, Snapshot(t, f) PROVE TypeOK'
  BY <1>12 DEF Snapshot
<1>13. ASSUME NEW t \in Tx, NEW f \in Files, BackupAsset(t, f) PROVE TypeOK'
  BY <1>13 DEF BackupAsset
<1>14. ASSUME NEW t \in Tx, NEW f \in Files, CheckOriginal(t, f) PROVE TypeOK'
  <2>1. pc' = pc \/ pc' = [pc EXCEPT ![t] = "abort"]
    BY <1>14 DEF CheckOriginal
  <2>2. todo' = [todo EXCEPT ![t] = @ \ {f}] \/ todo' = [todo EXCEPT ![t] = {}]
    BY <1>14 DEF CheckOriginal
  <2>3. pc' \in [Procs -> PCs]
    BY <2>1
  <2>4. todo[t] \ {f} \in SUBSET Files /\ {} \in SUBSET Files
    OBVIOUS
  <2>5. todo' \in [Procs -> SUBSET Files]
    BY <2>2, <2>4
  <2>6. UNCHANGED <<file, phase, snap, intact, recovers, failed, edits, raced, spent>>
    BY <1>14 DEF CheckOriginal
  <2> QED
    BY <2>3, <2>5, <2>6
<1>15. ASSUME NEW t \in Tx, NEW f \in Files, CommitFile(t, f) PROVE TypeOK'
  BY <1>15, ContentTypes DEF CommitFile
<1>16. ASSUME NEW t \in Tx, NEW f \in Files, RetireDir(t, f) PROVE TypeOK'
  BY <1>16, ContentTypes DEF RetireDir
<1>17. ASSUME NEW t \in Tx, NEW f \in Files, PlaceDir(t, f) PROVE TypeOK'
  BY <1>17, ContentTypes DEF PlaceDir
<1>18. ASSUME NEW t \in Tx, NEW f \in Files, FailRename(t, f) PROVE TypeOK'
  BY <1>18, JobFiles DEF FailRename
<1>19. ASSUME NEW t \in Tx, NEW f \in Files, NEW p \in ProcsOf(t), RestoreFile(p, t, f)
       PROVE TypeOK'
  BY <1>19, ContentTypes DEF RestoreFile
<1>20. ASSUME NEW t \in Tx, NEW f \in Files, NEW p \in ProcsOf(t), ClearDir(p, f)
       PROVE TypeOK'
  BY <1>20, ContentTypes DEF ClearDir
<1>21. ASSUME NEW t \in Tx, NEW f \in Files, NEW p \in ProcsOf(t), CopyDir(p, t, f)
       PROVE TypeOK'
  <2>1. /\ file' = [file EXCEPT ![f] = snap[t][f]] /\ pc' = [pc EXCEPT ![p] = "restore"]
        /\ todo' = [todo EXCEPT ![p] = @ \ {f}]
        /\ UNCHANGED <<phase, snap, intact, recovers, failed, edits, raced, spent>>
    BY <1>21 DEF CopyDir
  <2>2. file' \in [Files -> Contents]
    BY <2>1
  <2>3. pc' \in [Procs -> PCs] /\ todo' \in [Procs -> SUBSET Files]
    BY <2>1
  <2>4. /\ phase' = phase /\ snap' = snap /\ intact' = intact /\ recovers' = recovers
        /\ failed' = failed /\ edits' = edits /\ raced' = raced /\ spent' = spent
    BY <2>1
  <2>5. /\ phase' \in [Tx -> Phases] /\ snap' \in [Tx -> [Files -> Contents]]
        /\ intact' \in [Tx -> BOOLEAN] /\ recovers' \in [Procs -> BOOLEAN]
        /\ failed' \in [Procs -> BOOLEAN] /\ edits' \in [UserFiles -> Nat]
        /\ raced' \in SUBSET UserFiles
        /\ spent' \in [tampers : Nat, faults : Nat, crashes : Nat]
    BY <2>4
  <2> QED
    BY <2>2, <2>3, <2>5
<1>22. ASSUME NEW t \in Tx, FailBefore(t) PROVE TypeOK'
  <2>1. pc' = [pc EXCEPT ![t] = "done"] \/ pc' = [pc EXCEPT ![t] = "abort"]
    BY <1>22 DEF FailBefore
  <2>2. /\ todo' = [todo EXCEPT ![t] = {}] /\ spent' = [spent EXCEPT !.faults = @ + 1]
        /\ UNCHANGED <<file, phase, snap, intact, recovers, failed, edits, raced>>
    BY <1>22 DEF FailBefore, Fail
  <2>3. pc' \in [Procs -> PCs]
    BY <2>1
  <2>4. todo' \in [Procs -> SUBSET Files]
    BY <2>2
  <2>5. spent' \in [tampers : Nat, faults : Nat, crashes : Nat]
    BY <2>2, Tallies
  <2> QED
    BY <2>2, <2>3, <2>4, <2>5
<1>23. ASSUME NEW t \in Tx, FailCommit(t) PROVE TypeOK'
  BY <1>23, JobFiles, Tallies DEF FailCommit, Fail
<1>24. ASSUME NEW t \in Tx, NEW f \in Files, NEW p \in ProcsOf(t), FailRestore(p, f)
       PROVE TypeOK'
  BY <1>24, Tallies DEF FailRestore, Fail
<1>25. ASSUME NEW t \in Tx, NEW p \in ProcsOf(t), FailPersist(p) PROVE TypeOK'
  BY <1>25, Tallies DEF FailPersist, Fail
<1>26. ASSUME NEW t \in Tx, NEW p \in ProcsOf(t), Crash(p) PROVE TypeOK'
  BY <1>26, Tallies DEF Crash
<1>27. ASSUME NEW t \in Tx, TamperStage(t) PROVE TypeOK'
  BY <1>27, Tallies DEF TamperStage
<1>28. ASSUME NEW f \in UserFiles, UserEdit(f) PROVE TypeOK'
  <2>1. f \in Files
    BY <1>28 DEF UserFiles, Files, Text
  <2>2. [exists |-> TRUE, user |-> edits[f] + 1, owned |-> file[f].owned] \in Contents
    BY <2>1 DEF Contents
  <2> QED
    BY <1>28, <2>1, <2>2 DEF UserEdit, runVars
<1>29. CASE UNCHANGED vars
  BY <1>29 DEF vars, runVars
<1> QED
  BY <1>1, <1>2, <1>3, <1>4, <1>5, <1>6, <1>7, <1>8, <1>9, <1>10, <1>11, <1>12, <1>13, <1>14,
     <1>15, <1>16, <1>17, <1>18, <1>19, <1>20, <1>21, <1>22, <1>23, <1>24, <1>25, <1>26, <1>27,
     <1>28, <1>29, Steps

LEMMA TypeInit == Init => TypeOK
<1> SUFFICES ASSUME Init PROVE TypeOK
  OBVIOUS
<1>1. Absent \in Contents /\ Written("old") \in Contents /\ Written("none") \in Contents
  BY DEF Absent, Written, Contents, Owners
<1>2. \A had, users : Machine(had, users) \in [Files -> Contents]
  BY <1>1 DEF Machine
<1>3. file \in [Files -> Contents]
  BY <1>2 DEF Init, Machines
<1> QED
  BY <1>1, <1>3 DEF Init, TypeOK, Phases, PCs

(* Every reachable state has the types the variables are declared with.    *)
THEOREM TypeCorrect == Spec => []TypeOK
<1>1. TypeOK /\ [Next]_vars => TypeOK'
  BY TypeStep
<1> QED
  BY TypeInit, <1>1, PTL DEF Spec
-----------------------------------------------------------------------------
(* The program counter of a run's process bounds the phase on disk.  A     *)
(* process at work beside a rival may find that it says "recovered".       *)
Follows(t) ==
    /\ pc[t] \in {"idle", "snap", "backup"} => phase[t] = "none"
    /\ pc[t] = "stage" => phase[t] = "prepared"
    /\ pc[t] \in {"validate", "check", "abort"} => phase[t] \in {"prepared", "committing", "recovered"}
    /\ pc[t] \in {"commit", "place", "restore", "copy"} => phase[t] \in {"committing", "recovered"}
    /\ recovers[t] => /\ phase[t] \in {"committing", "recovered"}
                      /\ pc[t] \in {"restore", "copy", "done", "dead"}
    /\ phase[t] = "recovered" /\ ~Gone(t) => recovers[t] \/ Contested(t)

(* A rival that has begun recovers a run that has said "committing".       *)
Beside(p) ==
    /\ pc[p] \in {"idle", "restore", "copy", "done", "dead"}
    /\ pc[p] # "idle" => recovers[p] /\ phase[RivalOf[p]] \notin {"none", "prepared"}

PhaseFollows == (\A t \in Tx : Follows(t)) /\ (\A p \in Rivals : Beside(p))

LEMMA PhaseStep ==
    ASSUME TypeOK, PhaseFollows, [Next]_vars
    PROVE  PhaseFollows'
<1> USE RivalAssumption DEF PhaseFollows, Follows, Beside, Contested, Gone, TypeOK, Goto, Mark, Procs, ProcsOf
<1>1. ASSUME NEW t \in Tx, Start(t) \/ Plan(t) \/ Prepare(t) \/ Stage(t) PROVE PhaseFollows'
  BY <1>1 DEF Start, Plan, Prepare, Stage
<1>2. ASSUME NEW t \in Tx, ValidateStages(t) \/ MarkCommitting(t) \/ BeginCommit(t)
      PROVE PhaseFollows'
  BY <1>2 DEF ValidateStages, MarkCommitting, BeginCommit
<1>3. ASSUME NEW t \in Tx, Complete(t) \/ Abort(t) PROVE PhaseFollows'
  <2>1. /\ pc[t] \in {"commit", "abort"} /\ pc' = [pc EXCEPT ![t] = "done"] /\ recovers' = recovers
        /\ \E ph \in {"completed", "aborted"} : phase' = [phase EXCEPT ![t] = ph]
    BY <1>3 DEF Complete, Abort
  <2>2. ~recovers[t]
    BY <2>1
  <2>3. \A u \in Tx : Follows(u)'
    BY <2>1, <2>2
  <2>4. \A p \in Rivals : Beside(p)'
    BY <2>1
  <2> QED
    BY <2>3, <2>4
<1>e. ASSUME NEW t \in Tx, NEW p \in ProcsOf(t), EndRollback(p, t) PROVE PhaseFollows'
  <2>1. /\ pc[p] = "restore" /\ pc' = [pc EXCEPT ![p] = "done"] /\ recovers' = recovers
        /\ \/ phase' = phase
           \/ phase' = [phase EXCEPT ![t] = IF recovers[p] THEN "recovered" ELSE "rolled_back"]
    <3>1. CASE failed[p]
      BY <1>e, <3>1 DEF EndRollback
    <3>2. CASE ~failed[p]
      BY <1>e, <3>2 DEF EndRollback
    <3> QED
      BY <3>1, <3>2
  <2>2. p # t => p \in Rivals /\ RivalOf[p] = t /\ recovers[p] /\ phase[t] \notin {"none", "prepared"}
    BY <2>1
  <2>3. \A u \in Tx : Follows(u)'
    BY <2>1, <2>2
  <2>4. \A q \in Rivals : Beside(q)'
    BY <2>1, <2>2
  <2> QED
    BY <2>3, <2>4
<1>r. ASSUME NEW t \in Tx, NEW p \in ProcsOf(t), Recover(p, t) PROVE PhaseFollows'
  <2>1. /\ pc' = [pc EXCEPT ![p] = "restore"] /\ phase[t] = "committing" /\ phase' = phase
        /\ recovers' = [recovers EXCEPT ![p] = TRUE]
    BY <1>r DEF Recover, BeginRecover
  <2>2. p # t => p \in Rivals /\ RivalOf[p] = t
    OBVIOUS
  <2>3. \A u \in Tx : Follows(u)'
    BY <2>1, <2>2
  <2>4. \A q \in Rivals : Beside(q)'
    BY <2>1, <2>2
  <2> QED
    BY <2>3, <2>4
<1>4. ASSUME NEW t \in Tx, NEW f \in Files,
             Snapshot(t, f) \/ BackupAsset(t, f) \/ CheckOriginal(t, f)
      PROVE PhaseFollows'
  BY <1>4 DEF Snapshot, BackupAsset, CheckOriginal
<1>5. ASSUME NEW t \in Tx, NEW f \in Files,
             CommitFile(t, f) \/ RetireDir(t, f) \/ PlaceDir(t, f) \/ FailRename(t, f)
      PROVE PhaseFollows'
  BY <1>5 DEF CommitFile, RetireDir, PlaceDir, FailRename
<1>6. ASSUME NEW t \in Tx, NEW f \in Files, NEW p \in ProcsOf(t),
             RestoreFile(p, t, f) \/ ClearDir(p, f) \/ CopyDir(p, t, f) \/ FailRestore(p, f)
      PROVE PhaseFollows'
  BY <1>6, Processes DEF RestoreFile, ClearDir, CopyDir, FailRestore
<1>7. ASSUME NEW t \in Tx, FailBefore(t) \/ FailCommit(t) \/ TamperStage(t)
      PROVE PhaseFollows'
  BY <1>7 DEF FailBefore, FailCommit, TamperStage
<1>8. ASSUME NEW t \in Tx, NEW p \in ProcsOf(t), FailPersist(p) \/ Crash(p) PROVE PhaseFollows'
  BY <1>8, Processes DEF FailPersist, Crash
<1>9. ASSUME NEW f \in UserFiles, UserEdit(f) PROVE PhaseFollows'
  BY <1>9 DEF UserEdit, runVars
<1>10. CASE UNCHANGED vars
  BY <1>10 DEF vars, runVars
<1> QED
  BY Steps, <1>1, <1>2, <1>3, <1>e, <1>r, <1>4, <1>5, <1>6, <1>7, <1>8, <1>9, <1>10

LEMMA PhaseInit == Init => PhaseFollows
BY RivalAssumption DEF Init, PhaseFollows, Follows, Beside, Procs

(* The steps that persist a phase.                                         *)
LEMMA PhaseWrites ==
    ASSUME [Next]_vars
    PROVE  \/ phase' = phase
           \/ \E t \in Tx : Prepare(t) \/ MarkCommitting(t) \/ Complete(t) \/ Abort(t)
           \/ \E t \in Tx : \E p \in ProcsOf(t) : EndRollback(p, t)
<1>1. ASSUME NEW t \in Tx,
             \/ Start(t) \/ Plan(t) \/ Stage(t) \/ ValidateStages(t) \/ BeginCommit(t)
             \/ FailBefore(t) \/ FailCommit(t) \/ TamperStage(t)
      PROVE phase' = phase
  BY <1>1 DEF Start, Plan, Stage, ValidateStages, BeginCommit, FailBefore, FailCommit, TamperStage
<1>2. ASSUME NEW t \in Tx, NEW f \in Files,
             \/ Snapshot(t, f) \/ BackupAsset(t, f) \/ CheckOriginal(t, f)
             \/ CommitFile(t, f) \/ RetireDir(t, f) \/ PlaceDir(t, f) \/ FailRename(t, f)
      PROVE phase' = phase
  BY <1>2 DEF Snapshot, BackupAsset, CheckOriginal, CommitFile, RetireDir, PlaceDir, FailRename
<1>3. ASSUME NEW t \in Tx, NEW f \in Files, NEW p \in ProcsOf(t),
             RestoreFile(p, t, f) \/ ClearDir(p, f) \/ CopyDir(p, t, f) \/ FailRestore(p, f)
      PROVE phase' = phase
  BY <1>3 DEF RestoreFile, ClearDir, CopyDir, FailRestore
<1>4. ASSUME NEW t \in Tx, NEW p \in ProcsOf(t), Recover(p, t) \/ FailPersist(p) \/ Crash(p)
      PROVE phase' = phase
  BY <1>4 DEF Recover, BeginRecover, FailPersist, Crash
<1>5. ASSUME NEW f \in UserFiles, UserEdit(f) PROVE phase' = phase
  BY <1>5 DEF UserEdit, runVars
<1>6. CASE UNCHANGED vars
  BY <1>6 DEF vars, runVars
<1> QED
  BY Steps, <1>1, <1>2, <1>3, <1>4, <1>5, <1>6

(* What may be written over a terminal phase, and by whom.                 *)
Final(t) == phase'[t] \in Terminal /\ (phase'[t] = phase[t] \/ Contested(t))

LEMMA TerminalStep ==
    ASSUME TypeOK, PhaseFollows, [Next]_vars, NEW t \in Tx, phase[t] \in Terminal
    PROVE  Final(t)
<1> USE DEF PhaseFollows, Follows, Gone, TypeOK, Terminal, Final, Goto, Mark
<1>1. CASE phase' = phase
  BY <1>1
<1>2. ASSUME NEW u \in Tx, Prepare(u) \/ MarkCommitting(u) PROVE Final(t)
  BY <1>2 DEF Prepare, MarkCommitting
<1>3. ASSUME NEW u \in Tx, Complete(u) \/ Abort(u) PROVE Final(t)
  BY <1>3 DEF Complete, Abort
<1>4. ASSUME NEW u \in Tx, EndRollback(u, u) PROVE Final(t)
  BY <1>4 DEF EndRollback
<1>5. ASSUME NEW u \in Tx, NEW p \in ProcsOf(u) \ {u}, EndRollback(p, u) PROVE Final(t)
  <2>1. p \in Rivals /\ RivalOf[p] = u /\ pc[p] = "restore" /\ recovers[p]
    BY <1>5 DEF EndRollback, ProcsOf, Beside
  <2>2. phase' = [phase EXCEPT ![u] = IF failed[p] THEN @ ELSE "recovered"]
    BY <1>5, <2>1 DEF EndRollback
  <2>3. CASE recovers[u]
    BY <2>2, <2>3
  <2>4. CASE ~recovers[u]
    BY <2>1, <2>2, <2>4 DEF Contested
  <2> QED
    BY <2>3, <2>4
<1> QED
  BY PhaseWrites, <1>1, <1>2, <1>3, <1>4, <1>5

(* A completed, aborted, rolled back or recovered manifest stays so, for   *)
(* any number of runs and of recoveries of one run: only where a `recover` *)
(* was begun beside a run at work may one of the two overwrite the phase   *)
(* the other has written, and neither says "committing" again.             *)
THEOREM SettledForGood == Spec => TerminalIsFinal
<1>1. TypeOK /\ PhaseFollows /\ [Next]_vars => TypeOK' /\ PhaseFollows'
  BY TypeStep, PhaseStep
<1>2. TypeOK /\ PhaseFollows /\ [Next]_vars
      => [\A t \in Tx : phase[t] \in Terminal =>
            /\ phase'[t] \in Terminal
            /\ phase'[t] = phase[t] \/ Contested(t)]_vars
  BY TerminalStep DEF Final
<1> QED
  BY TypeInit, PhaseInit, <1>1, <1>2, PTL DEF Spec, TerminalIsFinal
-----------------------------------------------------------------------------
(* A run has begun once it can rename a file: its manifest has said        *)
(* "committing" and its process is past the checks, or is gone.  A run     *)
(* that aborts, even with "committing" on disk, has not begun.             *)
Begun(t) ==
    /\ phase[t] \in {"committing", "completed", "rolled_back", "recovered"}
    /\ pc[t] \notin {"validate", "check", "abort"}

(* The inductive strengthening of WriteAhead: what a rollback would put    *)
(* back, too, was written by a run that has begun.                         *)
Vouched(c) ==
    c.owned \in Versions => \E t \in Tx : Job[t].version = c.owned /\ Begun(t)
AllVouched ==
    /\ \A f \in Files : Vouched(file[f])
    /\ \A t \in Tx, f \in Files : Vouched(snap[t][f])
WriteAheadInv == PhaseFollows /\ AllVouched

(* No step takes a run that has begun back to the checks.                  *)
LEMMA BegunStays ==
    ASSUME TypeOK, PhaseFollows, [Next]_vars, NEW t \in Tx, Begun(t)
    PROVE  Begun(t)'
<1> USE RivalAssumption DEF PhaseFollows, Follows, TypeOK, Begun, Goto, Mark, ProcsOf, Procs
<1>1. ASSUME NEW u \in Tx, Start(u) \/ Plan(u) \/ Prepare(u) \/ Stage(u) PROVE Begun(t)'
  BY <1>1 DEF Start, Plan, Prepare, Stage
<1>2. ASSUME NEW u \in Tx, ValidateStages(u) \/ MarkCommitting(u) \/ BeginCommit(u)
      PROVE Begun(t)'
  BY <1>2 DEF ValidateStages, MarkCommitting, BeginCommit
<1>3. ASSUME NEW u \in Tx, Complete(u) \/ Abort(u) PROVE Begun(t)'
  BY <1>3 DEF Complete, Abort
<1>e. ASSUME NEW u \in Tx, NEW p \in ProcsOf(u), EndRollback(p, u) \/ Recover(p, u)
      PROVE Begun(t)'
  BY <1>e, Processes DEF EndRollback, Recover, Comes, BeginRecover
<1>4. ASSUME NEW u \in Tx, NEW f \in Files,
             Snapshot(u, f) \/ BackupAsset(u, f) \/ CheckOriginal(u, f)
      PROVE Begun(t)'
  BY <1>4 DEF Snapshot, BackupAsset, CheckOriginal
<1>5. ASSUME NEW u \in Tx, NEW f \in Files,
             CommitFile(u, f) \/ RetireDir(u, f) \/ PlaceDir(u, f) \/ FailRename(u, f)
      PROVE Begun(t)'
  BY <1>5 DEF CommitFile, RetireDir, PlaceDir, FailRename
<1>6. ASSUME NEW u \in Tx, NEW f \in Files, NEW p \in ProcsOf(u),
             RestoreFile(p, u, f) \/ ClearDir(p, f) \/ CopyDir(p, u, f) \/ FailRestore(p, f)
      PROVE Begun(t)'
  BY <1>6, Processes DEF RestoreFile, ClearDir, CopyDir, FailRestore
<1>7. ASSUME NEW u \in Tx, FailBefore(u) \/ FailCommit(u) \/ TamperStage(u)
      PROVE Begun(t)'
  BY <1>7 DEF FailBefore, FailCommit, TamperStage
<1>8. ASSUME NEW u \in Tx, NEW p \in ProcsOf(u), FailPersist(p) \/ Crash(p) PROVE Begun(t)'
  BY <1>8, Processes DEF FailPersist, Crash
<1>9. ASSUME NEW f \in UserFiles, UserEdit(f) PROVE Begun(t)'
  BY <1>9 DEF UserEdit, runVars
<1>10. CASE UNCHANGED vars
  BY <1>10 DEF vars, runVars
<1> QED
  BY Steps, <1>1, <1>2, <1>3, <1>e, <1>4, <1>5, <1>6, <1>7, <1>8, <1>9, <1>10

(* What a run makes of a file is its own version, or what it found there;  *)
(* of a file that the user shares it keeps what is the user's.             *)
LEMMA AfterOwner ==
    ASSUME NEW t \in Tx, NEW f \in Files, NEW s
    PROVE  /\ After(t, f, s).owned \in {Job[t].version, s.owned, "none", "fresh"}
           /\ f \in UserFiles => After(t, f, s).user = s.user
<1>1. f \in Dirs \/ f \in Snapshots \/ f \in Keys \/ f = "instruction" \/ f = "generated" \/ f = "settings"
  BY DEF Files, Text, Assets
<1>2. CASE f \in Dirs \cup Snapshots
  <2>1. After(t, f, s) = Written(Job[t].version) /\ f \notin UserFiles
    BY <1>2, NamesApart DEF After, Text, Assets, UserFiles
  <2> QED
    BY <2>1 DEF Written
<1>3. CASE f \in Keys
  <2>1. After(t, f, s) \in {s, Written("fresh")} /\ f \notin UserFiles
    BY <1>3, NamesApart DEF After, Text, Assets, UserFiles
  <2> QED
    BY <2>1 DEF Written
<1>4. CASE f = "instruction"
  <2>1. After(t, f, s) \in {Owning(s, Job[t].version), Owning(s, "none")}
    BY <1>4, NamesApart DEF After, Text, Assets
  <2> QED
    BY <2>1 DEF Owning
<1>5. CASE f = "generated"
  <2>1. After(t, f, s) \in {Written(Job[t].version), Absent}
    BY <1>5, NamesApart DEF After, Text, Assets
  <2> QED
    BY <1>5, <2>1 DEF Written, Absent, UserFiles
<1>6. CASE f = "settings"
  <2>1. After(t, f, s) \in {Owning(s, Job[t].version), Owning(s, "none")}
    BY <1>6, NamesApart DEF After, Text, Assets
  <2> QED
    BY <2>1 DEF Owning
<1> QED
  BY <1>1, <1>2, <1>3, <1>4, <1>5, <1>6

LEMMA StagedOwner ==
    ASSUME NEW t \in Tx, NEW f \in Files
    PROVE  Staged(t, f).owned \in
             {Job[t].version, snap[t][f].owned, file[f].owned, "none", "fresh", "foreign"}
BY AfterOwner DEF Staged, Written, Absent

(* An owner that is no version needs no run to vouch for it.               *)
LEMMA NoVersion ==
    /\ Vouched(Absent)
    /\ \A o \in {"none", "old", "fresh", "torn", "garbled", "foreign"} : \A c : c.owned = o => Vouched(c)
BY NamesApart DEF Vouched, Absent

(* A step that leaves file and snap alone keeps what vouches for them.     *)
LEMMA VouchedStays ==
    ASSUME TypeOK, PhaseFollows, [Next]_vars, NEW c, Vouched(c)
    PROVE  Vouched(c)'
BY BegunStays DEF Vouched

LEMMA VouchStep ==
    ASSUME TypeOK, WriteAheadInv, [Next]_vars
    PROVE  AllVouched'
<1> DEFINE Kept(c) == c.owned \in Versions => \E t \in Tx : Job[t].version = c.owned /\ Begun(t)'
<1>1. \A c : Vouched(c) => Kept(c)
  BY BegunStays DEF Vouched, WriteAheadInv
<1>2. /\ \A f \in Files : Kept(file[f])
      /\ \A t \in Tx, f \in Files : Kept(snap[t][f])
  BY <1>1 DEF WriteAheadInv, AllVouched
<1>3. \A o \in {"none", "old", "fresh", "torn", "garbled", "foreign"} : \A c : c.owned = o => Kept(c)
  BY NamesApart
<1>4. SUFFICES (\A f \in Files : Kept(file'[f])) /\ (\A t \in Tx, f \in Files : Kept(snap'[t][f]))
  BY DEF AllVouched, Vouched
<1> HIDE DEF Kept
<1> DEFINE Goal == (\A f \in Files : Kept(file'[f])) /\ (\A t \in Tx, f \in Files : Kept(snap'[t][f]))
<1>5. ASSUME UNCHANGED <<file, snap>> PROVE Goal
  BY <1>2, <1>5
<1>6. ASSUME NEW f \in Files, NEW c, Kept(c), Put(f, c), UNCHANGED snap PROVE Goal
  BY <1>2, <1>6 DEF Put, TypeOK
<1>7. ASSUME NEW t \in Tx, NEW f \in Files, Snapshot(t, f) \/ BackupAsset(t, f) PROVE Goal
  <2>1. Read(t, f) /\ UNCHANGED file
    BY <1>7 DEF Snapshot, BackupAsset
  <2> QED
    BY <1>2, <2>1 DEF Read, TypeOK
<1>8. ASSUME NEW t \in Tx, NEW f \in Files, CommitFile(t, f) \/ PlaceDir(t, f) PROVE Goal
  <2>1. pc[t] \in {"commit", "place"} /\ pc'[t] = "commit" /\ phase'[t] = phase[t]
    BY <1>8 DEF CommitFile, PlaceDir, Goto, TypeOK, Procs
  <2>2. Begun(t)'
    BY <2>1 DEF WriteAheadInv, PhaseFollows, Follows, Begun
  <2>3. Put(f, Staged(t, f)) /\ UNCHANGED snap
    BY <1>8 DEF CommitFile, PlaceDir
  <2>4. Kept(Staged(t, f))
    <3>1. CASE Staged(t, f).owned = Job[t].version
      BY <2>2, <3>1 DEF Kept
    <3>2. CASE Staged(t, f).owned \in {snap[t][f].owned, file[f].owned}
      BY <1>2, <3>2 DEF Kept
    <3>3. CASE Staged(t, f).owned \in {"none", "fresh", "foreign"}
      BY <1>3, <3>3
    <3> QED
      BY <3>1, <3>2, <3>3, StagedOwner
  <2> QED
    BY <1>6, <2>3, <2>4
<1>9. ASSUME NEW t \in Tx, NEW f \in Files, RetireDir(t, f) PROVE Goal
  BY <1>3, <1>6, <1>9 DEF RetireDir, Absent
<1>10. ASSUME NEW p, NEW f \in Files, ClearDir(p, f) PROVE Goal
  BY <1>3, <1>6, <1>10 DEF ClearDir, Written
<1>11. ASSUME NEW t \in Tx, NEW p, NEW f \in Files, CopyDir(p, t, f) PROVE Goal
  BY <1>2, <1>6, <1>11 DEF CopyDir
<1>12. ASSUME NEW t \in Tx, NEW p, NEW f \in Files, RestoreFile(p, t, f) PROVE Goal
  <2>1. Utf8(f, snap[t][f]) = snap[t][f] \/ Utf8(f, snap[t][f]).owned = "garbled"
    BY DEF Utf8, TypeOK, Contents
  <2>2. Kept(Utf8(f, snap[t][f]))
    BY <1>2, <1>3, <2>1
  <2> QED
    BY <1>6, <1>12, <2>2 DEF RestoreFile
<1>13. ASSUME NEW f \in UserFiles, UserEdit(f) PROVE Goal
  <2> DEFINE c == [exists |-> TRUE, user |-> edits[f] + 1, owned |-> file[f].owned]
  <2>1. f \in Files
    BY DEF UserFiles, Files, Text
  <2>2. Kept(c)
    BY <1>2, <2>1 DEF Kept
  <2>3. Put(f, c) /\ UNCHANGED snap
    BY <1>13 DEF UserEdit, runVars
  <2> QED
    BY <1>6, <2>1, <2>2, <2>3
<1>14. ASSUME NEW t \in Tx,
              \/ Start(t) \/ Plan(t) \/ Prepare(t) \/ Stage(t) \/ ValidateStages(t)
              \/ MarkCommitting(t) \/ BeginCommit(t) \/ Complete(t) \/ Abort(t)
              \/ FailBefore(t) \/ FailCommit(t) \/ TamperStage(t)
       PROVE Goal
  BY <1>5, <1>14 DEF Start, Plan, Prepare, Stage, ValidateStages, MarkCommitting, BeginCommit,
      Complete, Abort, FailBefore, FailCommit, TamperStage
<1>15. ASSUME NEW t \in Tx, NEW f \in Files, CheckOriginal(t, f) \/ FailRename(t, f)
       PROVE Goal
  BY <1>5, <1>15 DEF CheckOriginal, FailRename
<1>17. ASSUME NEW t \in Tx, NEW p, NEW f \in Files,
              EndRollback(p, t) \/ Recover(p, t) \/ FailRestore(p, f) \/ FailPersist(p) \/ Crash(p)
       PROVE Goal
  BY <1>5, <1>17 DEF EndRollback, Recover, BeginRecover, FailRestore, FailPersist, Crash
<1>16. CASE UNCHANGED vars
  BY <1>5, <1>16 DEF vars, runVars
<1> QED
  BY Steps, AFile, <1>7, <1>8, <1>9, <1>10, <1>11, <1>12, <1>13, <1>14, <1>15, <1>16, <1>17


LEMMA VouchInit == Init => AllVouched
<1> SUFFICES ASSUME Init PROVE AllVouched
  OBVIOUS
<1>1. \A had, users : \A f \in Files : Machine(had, users)[f].owned \in {"none", "old"}
  BY DEF Machine, Written, Absent
<1>2. \A f \in Files : file[f].owned \in {"none", "old"}
  BY <1>1 DEF Init, Machines
<1>3. \A t \in Tx, f \in Files : snap[t][f] = Absent
  BY DEF Init
<1> QED
  BY <1>2, <1>3, NoVersion DEF AllVouched

(* No run that is prepared or aborted has written anything, whatever the   *)
(* interleaving of runs, edits, faults and crashes: every version on disk  *)
(* is that of a run whose manifest recovery can act on, or has acted on.   *)
THEOREM CommittedBeforeWritten == Spec => []WriteAhead
<1>1. Init => TypeOK /\ WriteAheadInv
  BY TypeInit, PhaseInit, VouchInit DEF WriteAheadInv
<1>2. TypeOK /\ WriteAheadInv /\ [Next]_vars => TypeOK' /\ WriteAheadInv'
  BY TypeStep, PhaseStep, VouchStep DEF WriteAheadInv
<1>3. WriteAheadInv => WriteAhead
  BY DEF WriteAheadInv, AllVouched, Vouched, Begun, WriteAhead
<1> QED
  BY <1>1, <1>2, <1>3, PTL DEF Spec
-----------------------------------------------------------------------------
(* The steps that touch the disk, or what a run has read of it.            *)
LEMMA DiskSteps ==
    ASSUME [Next]_vars
    PROVE  \/ UNCHANGED <<file, snap>>
           \/ \E t \in Tx, f \in Files :
                \/ Snapshot(t, f) \/ BackupAsset(t, f)
                \/ CommitFile(t, f) \/ RetireDir(t, f) \/ PlaceDir(t, f)
                \/ \E p \in ProcsOf(t) : RestoreFile(p, t, f) \/ ClearDir(p, f) \/ CopyDir(p, t, f)
           \/ \E f \in UserFiles : UserEdit(f)
<1>1. ASSUME NEW t \in Tx,
             \/ Start(t) \/ Plan(t) \/ Prepare(t) \/ Stage(t) \/ ValidateStages(t)
             \/ MarkCommitting(t) \/ BeginCommit(t) \/ Complete(t) \/ Abort(t)
             \/ FailBefore(t) \/ FailCommit(t) \/ TamperStage(t)
      PROVE UNCHANGED <<file, snap>>
  BY <1>1 DEF Start, Plan, Prepare, Stage, ValidateStages, MarkCommitting, BeginCommit,
      Complete, Abort, FailBefore, FailCommit, TamperStage
<1>2. ASSUME NEW t \in Tx, NEW f \in Files, CheckOriginal(t, f) \/ FailRename(t, f)
      PROVE UNCHANGED <<file, snap>>
  BY <1>2 DEF CheckOriginal, FailRename
<1>3. ASSUME NEW t \in Tx, NEW p, NEW f \in Files,
             EndRollback(p, t) \/ Recover(p, t) \/ FailRestore(p, f) \/ FailPersist(p) \/ Crash(p)
      PROVE UNCHANGED <<file, snap>>
  BY <1>3 DEF EndRollback, Recover, BeginRecover, FailRestore, FailPersist, Crash
<1>4. CASE UNCHANGED vars
  BY <1>4 DEF vars, runVars
<1> QED
  BY Steps, AFile, <1>1, <1>2, <1>3, <1>4

(* What they change of it.                                                 *)
LEMMA PutMoves ==
    ASSUME TypeOK, NEW f \in Files, NEW c, Put(f, c)
    PROVE  \A g \in Files : file'[g] = IF g = f THEN c ELSE file[g]
BY DEF Put, TypeOK

LEMMA ReadMoves ==
    ASSUME TypeOK, NEW t \in Tx, NEW f \in Files, Snapshot(t, f) \/ BackupAsset(t, f)
    PROVE  /\ file' = file
           /\ \A u \in Tx, g \in Files :
                snap'[u][g] = IF u = t /\ g = f THEN file[f] ELSE snap[u][g]
<1>1. file' = file /\ snap' = [snap EXCEPT ![t][f] = file[f]]
  BY DEF Snapshot, BackupAsset, Read
<1> QED
  BY <1>1 DEF TypeOK

(* A run that looks at the originals or commits has verified its stages.   *)
Verified == \A t \in Tx : pc[t] \in {"check", "commit", "place"} => intact[t]

LEMMA VerifiedStep ==
    ASSUME TypeOK, Verified, [Next]_vars
    PROVE  Verified'
<1> USE DEF Verified, TypeOK, Goto, Procs
<1>1. ASSUME NEW t \in Tx, Start(t) \/ Plan(t) \/ Prepare(t) \/ Stage(t) PROVE Verified'
  BY <1>1 DEF Start, Plan, Prepare, Stage
<1>2. ASSUME NEW t \in Tx, ValidateStages(t) \/ MarkCommitting(t) \/ BeginCommit(t)
      PROVE Verified'
  BY <1>2 DEF ValidateStages, MarkCommitting, BeginCommit
<1>3. ASSUME NEW t \in Tx, Complete(t) \/ Abort(t) PROVE Verified'
  BY <1>3 DEF Complete, Abort
<1>e. ASSUME NEW t \in Tx, NEW p \in ProcsOf(t), EndRollback(p, t) \/ Recover(p, t)
      PROVE Verified'
  BY <1>e, Processes DEF EndRollback, Recover, Comes, BeginRecover
<1>4. ASSUME NEW t \in Tx, NEW f \in Files,
             Snapshot(t, f) \/ BackupAsset(t, f) \/ CheckOriginal(t, f)
      PROVE Verified'
  BY <1>4 DEF Snapshot, BackupAsset, CheckOriginal
<1>5. ASSUME NEW t \in Tx, NEW f \in Files,
             CommitFile(t, f) \/ RetireDir(t, f) \/ PlaceDir(t, f) \/ FailRename(t, f)
      PROVE Verified'
  BY <1>5 DEF CommitFile, RetireDir, PlaceDir, FailRename
<1>6. ASSUME NEW t \in Tx, NEW f \in Files, NEW p \in ProcsOf(t),
             RestoreFile(p, t, f) \/ ClearDir(p, f) \/ CopyDir(p, t, f) \/ FailRestore(p, f)
      PROVE Verified'
  BY <1>6, Processes DEF RestoreFile, ClearDir, CopyDir, FailRestore
<1>7. ASSUME NEW t \in Tx, FailBefore(t) \/ FailCommit(t) \/ TamperStage(t)
      PROVE Verified'
  BY <1>7 DEF FailBefore, FailCommit, TamperStage
<1>8. ASSUME NEW t \in Tx, NEW p \in ProcsOf(t), FailPersist(p) \/ Crash(p) PROVE Verified'
  BY <1>8, Processes DEF FailPersist, Crash
<1>9. ASSUME NEW f \in UserFiles, UserEdit(f) PROVE Verified'
  BY <1>9 DEF UserEdit, runVars
<1>10. CASE UNCHANGED vars
  BY <1>10 DEF vars, runVars
<1> QED
  BY Steps, <1>1, <1>2, <1>3, <1>e, <1>4, <1>5, <1>6, <1>7, <1>8, <1>9, <1>10

Clean(c) == c.owned # "foreign"
AllClean == (\A f \in Files : Clean(file[f])) /\ (\A t \in Tx, f \in Files : Clean(snap[t][f]))

LEMMA StagedClean ==
    ASSUME TypeOK, AllClean, NEW t \in Tx, NEW f \in Files, intact[t]
    PROVE  Clean(Staged(t, f))
<1>1. Job[t].version # "foreign"
  BY JobAssumption, NamesApart DEF Jobs
<1>2. Clean(After(t, f, snap[t][f]))
  BY <1>1, AfterOwner DEF AllClean, Clean
<1> QED
  BY <1>2 DEF Staged, Absent, AllClean, Clean

LEMMA CleanStep ==
    ASSUME TypeOK, Verified, AllClean, [Next]_vars
    PROVE  AllClean'
<1> USE DEF AllClean, Clean
<1>1. CASE UNCHANGED <<file, snap>>
  BY <1>1
<1>2. ASSUME NEW f \in Files, NEW c, Clean(c), Put(f, c), UNCHANGED snap PROVE AllClean'
  BY <1>2, PutMoves
<1>3. ASSUME NEW t \in Tx, NEW f \in Files, Snapshot(t, f) \/ BackupAsset(t, f) PROVE AllClean'
  BY <1>3, ReadMoves
<1>4. ASSUME NEW t \in Tx, NEW f \in Files, CommitFile(t, f) \/ PlaceDir(t, f) PROVE AllClean'
  <2>1. intact[t] /\ Put(f, Staged(t, f)) /\ UNCHANGED snap
    BY <1>4 DEF CommitFile, PlaceDir, Goto, Verified
  <2> QED
    BY <1>2, <2>1, StagedClean
<1>5. ASSUME NEW t \in Tx, NEW f \in Files,
             \/ RetireDir(t, f)
             \/ \E p \in ProcsOf(t) : ClearDir(p, f) \/ CopyDir(p, t, f) \/ RestoreFile(p, t, f)
      PROVE AllClean'
  <2>1. Utf8(f, snap[t][f]) = snap[t][f] \/ Utf8(f, snap[t][f]).owned = "garbled"
    BY DEF Utf8, TypeOK, Contents
  <2>2. Clean(Utf8(f, snap[t][f])) /\ Clean(snap[t][f]) /\ Clean(Absent) /\ Clean(Written("torn"))
    BY <2>1 DEF Absent, Written
  <2> QED
    BY <1>2, <1>5, <2>2 DEF RetireDir, ClearDir, CopyDir, RestoreFile
<1>6. ASSUME NEW f \in UserFiles, UserEdit(f) PROVE AllClean'
  <2> DEFINE c == [exists |-> TRUE, user |-> edits[f] + 1, owned |-> file[f].owned]
  <2>1. f \in Files
    BY DEF UserFiles, Files, Text
  <2>2. Clean(c)
    BY <2>1
  <2>3. Put(f, c) /\ UNCHANGED snap
    BY <1>6 DEF UserEdit, runVars
  <2> HIDE DEF c
  <2> QED
    BY <1>2, <2>1, <2>2, <2>3
<1> QED
  BY DiskSteps, <1>1, <1>3, <1>4, <1>5, <1>6

LEMMA CleanInit == Init => AllClean /\ Verified
<1> SUFFICES ASSUME Init PROVE AllClean /\ Verified
  OBVIOUS
<1>1. \A had, users : \A f \in Files : Machine(had, users)[f].owned \in {"none", "old"}
  BY DEF Machine, Written, Absent
<1>2. \A f \in Files : file[f].owned \in {"none", "old"}
  BY <1>1 DEF Init, Machines
<1> QED
  BY <1>2 DEF Init, AllClean, Clean, Verified, Absent

(* Nothing that was put into a stage after it was written gets out of it,  *)
(* before the last validation, in any interleaving of runs.                *)
THEOREM OnlyVerifiedContent == Spec => []VerifiedContent
<1>1. TypeOK /\ Verified /\ AllClean /\ [Next]_vars => TypeOK' /\ Verified' /\ AllClean'
  BY TypeStep, VerifiedStep, CleanStep
<1>2. AllClean => VerifiedContent
  BY DEF AllClean, Clean, VerifiedContent
<1> QED
  BY TypeInit, CleanInit, <1>1, <1>2, PTL DEF Spec
-----------------------------------------------------------------------------
(* A run visits files of its job alone.                                    *)
InJob == \A t \in Tx : todo[t] \subseteq Job[t].files

LEMMA InJobStep ==
    ASSUME TypeOK, InJob, [Next]_vars
    PROVE  InJob'
<1> USE DEF InJob, TypeOK, Goto, Loop, Visit, Procs
<1>0. \A t \in Tx : TextOf(t) \subseteq Job[t].files /\ AssetsOf(t) \subseteq Job[t].files
  BY DEF TextOf, AssetsOf
<1>1. ASSUME NEW t \in Tx, Start(t) \/ Plan(t) \/ Prepare(t) \/ Stage(t) PROVE InJob'
  BY <1>0, <1>1 DEF Start, Plan, Prepare, Stage
<1>2. ASSUME NEW t \in Tx, ValidateStages(t) \/ MarkCommitting(t) \/ BeginCommit(t)
      PROVE InJob'
  BY <1>0, <1>2 DEF ValidateStages, MarkCommitting, BeginCommit
<1>3. ASSUME NEW t \in Tx, Complete(t) \/ Abort(t) PROVE InJob'
  BY <1>3 DEF Complete, Abort
<1>e. ASSUME NEW t \in Tx, NEW p \in ProcsOf(t), EndRollback(p, t) \/ Recover(p, t)
      PROVE InJob'
  <2>1. CASE EndRollback(p, t)
    BY <2>1 DEF EndRollback
  <2>2. CASE Recover(p, t)
    <3>1. todo' = [todo EXCEPT ![p] = Job[t].files]
      BY <2>2 DEF Recover, BeginRecover
    <3>2. p = t \/ p \notin Tx
      BY RivalAssumption DEF ProcsOf
    <3> QED
      BY <3>1, <3>2
  <2> QED
    BY <1>e, <2>1, <2>2
<1>4. ASSUME NEW t \in Tx, NEW f \in Files,
             Snapshot(t, f) \/ BackupAsset(t, f) \/ CheckOriginal(t, f)
      PROVE InJob'
  BY <1>4 DEF Snapshot, BackupAsset, CheckOriginal
<1>5. ASSUME NEW t \in Tx, NEW f \in Files,
             CommitFile(t, f) \/ RetireDir(t, f) \/ PlaceDir(t, f) \/ FailRename(t, f)
      PROVE InJob'
  BY <1>5 DEF CommitFile, RetireDir, PlaceDir, FailRename
<1>6. ASSUME NEW t \in Tx, NEW f \in Files, NEW p \in ProcsOf(t),
             RestoreFile(p, t, f) \/ ClearDir(p, f) \/ CopyDir(p, t, f) \/ FailRestore(p, f)
      PROVE InJob'
  BY <1>6, Processes DEF RestoreFile, ClearDir, CopyDir, FailRestore
<1>7. ASSUME NEW t \in Tx, FailBefore(t) \/ FailCommit(t) \/ TamperStage(t)
      PROVE InJob'
  BY <1>7 DEF FailBefore, FailCommit, TamperStage
<1>8. ASSUME NEW t \in Tx, NEW p \in ProcsOf(t), FailPersist(p) \/ Crash(p) PROVE InJob'
  BY <1>8, Processes DEF FailPersist, Crash
<1>9. ASSUME NEW f \in UserFiles, UserEdit(f) PROVE InJob'
  BY <1>9 DEF UserEdit, runVars
<1>10. CASE UNCHANGED vars
  BY <1>10 DEF vars, runVars
<1> QED
  BY Steps, <1>1, <1>2, <1>3, <1>e, <1>4, <1>5, <1>6, <1>7, <1>8, <1>9, <1>10

(* The user's last edit is in a file, and in what a run that does not look *)
(* again has read of it, unless the run could not see it.                  *)
Last(f, c) == c.user = edits[f] \/ f \in raced
Recovering == \E p \in Procs : recovers[p]
EditsKept ==
    /\ \A f \in UserFiles : Last(f, file[f])
    /\ \A t \in Tx : \A f \in UserFiles \cap Job[t].files : Exposed(t, f) => Last(f, snap[t][f])
EditsInv == Recovering \/ EditsKept

LEMMA UserFile == \A f \in UserFiles : f \in Files /\ f \notin Dirs /\ f \notin Keys /\ f \notin Assets
BY NamesApart DEF UserFiles, Files, Text, Assets

(* Without a recovery, no process but a run's own is at work for it.        *)
LEMMA NoRival ==
    ASSUME PhaseFollows, ~Recovering, NEW t \in Tx, NEW p \in ProcsOf(t), pc[p] # "idle"
    PROVE  p = t
BY DEF PhaseFollows, Beside, Recovering, ProcsOf, Procs

(* The steps of a run that reach for a file without another look at it.    *)
LEMMA ExposedSteps ==
    ASSUME TypeOK, PhaseFollows, InJob, [Next]_vars, ~Recovering, ~Recovering', NEW t \in Tx, NEW f \in UserFiles \cap Job[t].files,
           Exposed(t, f)'
    PROVE  Exposed(t, f) \/ (CheckOriginal(t, f) /\ file[f] = snap[t][f])
<1> USE Processes DEF Exposed, TypeOK, Goto, Loop, Visit, Mark
<1>0. f \in Files /\ f \in TextOf(t)
  BY UserFile DEF TextOf, UserFiles, Text
<1> DEFINE Goal == Exposed(t, f) \/ (CheckOriginal(t, f) /\ file[f] = snap[t][f])
<1>1. ASSUME NEW u \in Tx, Start(u) \/ Plan(u) \/ Prepare(u) \/ Stage(u) PROVE Goal
  BY <1>1 DEF Start, Plan, Prepare, Stage
<1>2. ASSUME NEW u \in Tx, ValidateStages(u) \/ MarkCommitting(u) \/ BeginCommit(u) PROVE Goal
  BY <1>0, <1>2 DEF ValidateStages, MarkCommitting, BeginCommit
<1>3. ASSUME NEW u \in Tx, Complete(u) \/ Abort(u) PROVE Goal
  BY <1>3 DEF Complete, Abort
<1>e. ASSUME NEW u \in Tx, NEW p \in ProcsOf(u), EndRollback(p, u) PROVE Goal
  <2>1. p = u
    BY <1>e, NoRival DEF EndRollback
  <2> QED
    BY <1>e, <2>1 DEF EndRollback
<1>r. ASSUME NEW u \in Tx, NEW p \in ProcsOf(u), Recover(p, u) PROVE FALSE
  BY <1>r DEF Recover, BeginRecover, Recovering
<1>4. ASSUME NEW u \in Tx, NEW g \in Files, Snapshot(u, g) \/ BackupAsset(u, g) PROVE Goal
  BY <1>4 DEF Snapshot, BackupAsset
<1>5. ASSUME NEW u \in Tx, NEW g \in Files, CheckOriginal(u, g) PROVE Goal
  <2>1. CASE u # t
    BY <1>5, <2>1 DEF CheckOriginal
  <2>2. CASE u = t /\ file[g] # snap[t][g]
    BY <1>5, <2>2 DEF CheckOriginal
  <2>3. CASE u = t /\ g # f /\ file[g] = snap[t][g]
    BY <1>5, <2>3 DEF CheckOriginal
  <2> QED
    BY <1>5, <2>1, <2>2, <2>3
<1>6. ASSUME NEW u \in Tx, NEW g \in Files,
             CommitFile(u, g) \/ RetireDir(u, g) \/ PlaceDir(u, g) \/ FailRename(u, g)
      PROVE Goal
  BY <1>6 DEF CommitFile, RetireDir, PlaceDir, FailRename
<1>7. ASSUME NEW u \in Tx, NEW g \in Files, NEW p \in ProcsOf(u),
             RestoreFile(p, u, g) \/ ClearDir(p, g) \/ CopyDir(p, u, g) \/ FailRestore(p, g)
      PROVE Goal
  <2>1. pc[p] \in {"restore", "copy"}
    BY <1>7 DEF RestoreFile, ClearDir, CopyDir, FailRestore
  <2>2. p = u
    BY <2>1, NoRival
  <2> QED
    BY <1>7, <2>2 DEF RestoreFile, ClearDir, CopyDir, FailRestore
<1>8. ASSUME NEW u \in Tx, FailBefore(u) \/ FailCommit(u) \/ TamperStage(u) PROVE Goal
  BY <1>8 DEF FailBefore, FailCommit, TamperStage
<1>9. ASSUME NEW u \in Tx, NEW p \in ProcsOf(u), FailPersist(p) \/ Crash(p) PROVE Goal
  BY <1>9 DEF FailPersist, Crash
<1>10. ASSUME NEW g \in UserFiles, UserEdit(g) PROVE Goal
  BY <1>10 DEF UserEdit, runVars
<1>11. CASE UNCHANGED vars
  BY <1>11 DEF vars, runVars
<1> QED
  BY Steps, <1>1, <1>2, <1>3, <1>e, <1>r, <1>4, <1>5, <1>6, <1>7, <1>8, <1>9, <1>10, <1>11


(* Only the user's own edits move the counts, and only a recovery says     *)
(* that it is one.                                                         *)
LEMMA EditSteps ==
    ASSUME [Next]_vars
    PROVE  /\ UNCHANGED <<edits, raced>> \/ \E f \in UserFiles : UserEdit(f)
           /\ UNCHANGED recovers \/ \E t \in Tx : \E p \in ProcsOf(t) : Recover(p, t)
<1>1. ASSUME NEW t \in Tx,
             \/ Start(t) \/ Plan(t) \/ Prepare(t) \/ Stage(t) \/ ValidateStages(t)
             \/ MarkCommitting(t) \/ BeginCommit(t) \/ Complete(t) \/ Abort(t)
             \/ FailBefore(t) \/ FailCommit(t) \/ TamperStage(t)
      PROVE UNCHANGED <<edits, raced, recovers>>
  BY <1>1 DEF Start, Plan, Prepare, Stage, ValidateStages, MarkCommitting, BeginCommit, Complete,
      Abort, FailBefore, FailCommit, TamperStage
<1>2. ASSUME NEW t \in Tx, NEW f \in Files,
             \/ Snapshot(t, f) \/ BackupAsset(t, f) \/ CheckOriginal(t, f)
             \/ CommitFile(t, f) \/ RetireDir(t, f) \/ PlaceDir(t, f) \/ FailRename(t, f)
      PROVE UNCHANGED <<edits, raced, recovers>>
  BY <1>2 DEF Snapshot, BackupAsset, CheckOriginal, CommitFile, RetireDir, PlaceDir, FailRename
<1>3. ASSUME NEW t \in Tx, NEW f \in Files, NEW p \in ProcsOf(t),
             RestoreFile(p, t, f) \/ ClearDir(p, f) \/ CopyDir(p, t, f) \/ FailRestore(p, f)
      PROVE UNCHANGED <<edits, raced, recovers>>
  BY <1>3 DEF RestoreFile, ClearDir, CopyDir, FailRestore
<1>4. ASSUME NEW t \in Tx, NEW p \in ProcsOf(t), EndRollback(p, t) \/ FailPersist(p) \/ Crash(p)
      PROVE UNCHANGED <<edits, raced, recovers>>
  BY <1>4 DEF EndRollback, FailPersist, Crash
<1>5. ASSUME NEW t \in Tx, NEW p \in ProcsOf(t), Recover(p, t) PROVE UNCHANGED <<edits, raced>>
  BY <1>5 DEF Recover, BeginRecover
<1>6. ASSUME NEW f \in UserFiles, UserEdit(f) PROVE UNCHANGED recovers
  BY <1>6 DEF UserEdit, runVars
<1>7. CASE UNCHANGED vars
  BY <1>7 DEF vars, runVars
<1> QED
  BY Steps, <1>1, <1>2, <1>3, <1>4, <1>5, <1>6, <1>7

LEMMA RecoveringStays ==
    ASSUME TypeOK, [Next]_vars, Recovering
    PROVE  Recovering'
<1>1. ASSUME NEW t \in Tx, NEW p \in ProcsOf(t), Recover(p, t) PROVE p \in Procs /\ recovers'[p] = TRUE
  BY <1>1, Processes DEF Recover, BeginRecover, TypeOK
<1> QED
  BY EditSteps, <1>1 DEF Recovering

(* A file that a commit or a rollback writes keeps what the run read last. *)
LEMMA WritesKeep ==
    ASSUME TypeOK, PhaseFollows, ~Recovering, InJob, Verified, EditsKept, [Next]_vars, UNCHANGED <<edits, raced>>,
           NEW f \in UserFiles
    PROVE  Last(f, file'[f])
<1> USE UserFile
<1>1. CASE file' = file
  BY <1>1 DEF EditsKept
<1>0. ASSUME NEW t \in Tx, NEW g \in Files, NEW p \in ProcsOf(t), RestoreFile(p, t, g)
      PROVE RestoreFile(t, t, g)
  BY <1>0, NoRival DEF RestoreFile
<1>2. ASSUME NEW t \in Tx, NEW g \in Files, CommitFile(t, g) \/ RestoreFile(t, t, g)
      PROVE Last(f, file'[f])
  <2>1. g \in Job[t].files /\ Exposed(t, g)
    BY <1>2 DEF CommitFile, RestoreFile, Visit, InJob, Exposed
  <2>2. CASE g # f
    <3>1. file'[f] = file[f]
      BY <1>2, <2>2, PutMoves DEF CommitFile, RestoreFile
    <3> QED
      BY <3>1 DEF EditsKept
  <2>3. CASE g = f /\ CommitFile(t, g)
    <3>1. intact[t] /\ ~Removes(t, f)
      BY <2>3 DEF CommitFile, Verified, Removes, UserFiles
    <3>2. file'[f] = After(t, f, snap[t][f])
      BY <2>3, <3>1, PutMoves DEF CommitFile, Staged
    <3>3. Last(f, snap[t][f])
      BY <2>1, <2>3 DEF EditsKept
    <3> QED
      BY <3>2, <3>3, AfterOwner DEF Last
  <2>4. CASE g = f /\ RestoreFile(t, t, g)
    <3>1. file'[f] = snap[t][f]
      BY <2>4, PutMoves DEF RestoreFile, Utf8
    <3> QED
      BY <2>1, <2>4, <3>1 DEF EditsKept
  <2> QED
    BY <1>2, <2>2, <2>3, <2>4
<1>3. ASSUME NEW t \in Tx, NEW g \in Files,
             \/ RetireDir(t, g) \/ PlaceDir(t, g)
             \/ \E p \in ProcsOf(t) : ClearDir(p, g) \/ CopyDir(p, t, g)
      PROVE Last(f, file'[f])
  <2>1. g # f /\ file'[f] = file[f]
    BY <1>3, PutMoves DEF RetireDir, PlaceDir, ClearDir, CopyDir
  <2> QED
    BY <2>1 DEF EditsKept
<1>4. ASSUME NEW t \in Tx, NEW g \in Files, Snapshot(t, g) \/ BackupAsset(t, g) PROVE file' = file
  BY <1>4, ReadMoves
<1>5. ASSUME NEW g \in UserFiles, UserEdit(g) PROVE FALSE
  BY <1>5 DEF UserEdit, TypeOK
<1> QED
  BY DiskSteps, <1>0, <1>1, <1>2, <1>3, <1>4, <1>5

LEMMA EditsStep ==
    ASSUME TypeOK, PhaseFollows, InJob, Verified, EditsInv, [Next]_vars
    PROVE  EditsInv'
<1> USE UserFile
<1>1. SUFFICES ASSUME ~Recovering' PROVE EditsKept'
  BY DEF EditsInv
<1>2. EditsKept /\ ~Recovering
  BY <1>1, RecoveringStays DEF EditsInv
<1>3. CASE UNCHANGED <<edits, raced>>
  <2>1. \A f \in UserFiles : Last(f, file[f])'
    BY <1>2, <1>3, WritesKeep DEF Last
  <2>2. ASSUME NEW t \in Tx, NEW f \in UserFiles \cap Job[t].files, Exposed(t, f)'
        PROVE Last(f, snap[t][f])'
    <3>1. Last(f, snap[t][f])
      BY <1>1, <1>2, <2>2, ExposedSteps DEF EditsKept
    <3>2. pc'[t] \in {"check", "commit", "place", "restore", "copy"}
      BY <2>2 DEF Exposed
    <3>3. snap'[t][f] = snap[t][f]
      <4>1. ASSUME NEW u \in Tx, NEW g \in Files, Snapshot(u, g) \/ BackupAsset(u, g)
            PROVE snap'[t][f] = snap[t][f]
        <5>1. pc' = pc /\ pc[u] \in {"snap", "backup"}
          BY <4>1 DEF Snapshot, BackupAsset
        <5>2. u # t
          BY <3>2, <5>1
        <5> QED
          BY <4>1, <5>2, ReadMoves
      <4>2. ASSUME NEW u \in Tx, NEW g \in Files,
                   \/ CommitFile(u, g) \/ RetireDir(u, g) \/ PlaceDir(u, g)
                   \/ \E p \in ProcsOf(u) : RestoreFile(p, u, g) \/ ClearDir(p, g) \/ CopyDir(p, u, g)
            PROVE snap' = snap
        BY <4>2 DEF CommitFile, RetireDir, PlaceDir, RestoreFile, ClearDir, CopyDir
      <4>3. ASSUME NEW g \in UserFiles, UserEdit(g) PROVE snap' = snap
        BY <4>3 DEF UserEdit, runVars
      <4> QED
        BY DiskSteps, <4>1, <4>2, <4>3
    <3> QED
      BY <1>3, <3>1, <3>3 DEF Last
  <2> QED
    BY <2>1, <2>2 DEF EditsKept
<1>4. ASSUME NEW g \in UserFiles, UserEdit(g) PROVE EditsKept'
  <2>1. /\ pc' = pc /\ phase' = phase /\ todo' = todo /\ snap' = snap /\ raced \subseteq raced'
        /\ edits' = [edits EXCEPT ![g] = @ + 1]
        /\ Put(g, [exists |-> TRUE, user |-> edits[g] + 1, owned |-> file[g].owned])
        /\ (\E t \in Tx : g \in Job[t].files /\ Exposed(t, g)) => g \in raced'
    BY <1>4 DEF UserEdit, runVars
  <2>2. /\ file'[g].user = edits[g] + 1 /\ edits'[g] = edits[g] + 1
        /\ \A f \in UserFiles : f # g => file'[f] = file[f] /\ edits'[f] = edits[f]
    BY <2>1 DEF TypeOK, Put
  <2>3. \A t \in Tx, f \in UserFiles : Exposed(t, f)' => Exposed(t, f)
    BY <2>1 DEF Exposed
  <2>4. \A f \in UserFiles : Last(f, file[f])'
    BY <1>2, <2>1, <2>2 DEF EditsKept, Last
  <2>5. ASSUME NEW t \in Tx, NEW f \in UserFiles \cap Job[t].files, Exposed(t, f)'
        PROVE Last(f, snap[t][f])'
    <3>1. Last(f, snap[t][f]) /\ Exposed(t, f)
      BY <1>2, <2>3, <2>5 DEF EditsKept
    <3> QED
      BY <2>1, <2>2, <3>1 DEF Last
  <2> QED
    BY <2>4, <2>5 DEF EditsKept
<1> QED
  BY EditSteps, <1>3, <1>4

LEMMA EditsInit == Init => InJob /\ EditsInv
<1> SUFFICES ASSUME Init PROVE InJob /\ EditsInv
  OBVIOUS
<1>1. \A had, users : \A f \in Files : Machine(had, users)[f].user = 0
  BY DEF Machine, Written, Absent
<1>2. \A f \in UserFiles : Last(f, file[f])
  BY <1>1, UserFile DEF Init, Machines, Last
<1>3. \A t \in Tx, f \in UserFiles : ~Exposed(t, f)
  BY Processes DEF Init, Exposed
<1> QED
  BY <1>2, <1>3, Processes DEF Init, InJob, EditsInv, EditsKept

(* An abort, a commit or a rollback costs the user no edit that the run    *)
(* could have seen, for any number of runs at a time.                      *)
THEOREM NoEditLost == Spec => []EditsSurvive
<1>1. TypeOK /\ PhaseFollows /\ InJob /\ Verified /\ EditsInv /\ [Next]_vars
      => TypeOK' /\ PhaseFollows' /\ InJob' /\ Verified' /\ EditsInv'
  BY TypeStep, PhaseStep, InJobStep, VerifiedStep, EditsStep
<1>2. EditsInv => EditsSurvive
  BY DEF EditsInv, EditsKept, Last, Recovering, EditsSurvive
<1> QED
  BY TypeInit, PhaseInit, CleanInit, EditsInit, <1>1, <1>2, PTL DEF Spec
=============================================================================
