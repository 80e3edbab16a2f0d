--------------------------- MODULE ReclaimProofs ---------------------------
(***************************************************************************)
(* What holds of runs and of the removal that follows an uninstall, for    *)
(* any number of them, whatever the interleaving.                          *)
(***************************************************************************)
EXTENDS UninstallReclaim, RefinementProofs, FiniteSetTheorems

(* A step of the composition is one of a run, or of a reclaim that leaves  *)
(* the runs alone.                                                         *)
LEMMA Sides ==
    ASSUME [RNext]_rvars
    PROVE  \/ [Next]_vars /\ UNCHANGED <<reclaim, left>>
           \/ \E t \in Tx : Reclaim(t)
BY DEF RNext, Run, RFinished, Next, rvars

(* No directory that a reclaim removes holds a key.                        *)
LEMMA HoldsNoKey == Holds \in [Kinds -> SUBSET (Assets \ Keys)]
BY DEF Holds, Kinds, DirOf

LEMMA ReclaimSteps ==
    ASSUME TypeOK, NEW t \in Tx, Reclaim(t)
    PROVE  /\ UNCHANGED <<runVars, edits, raced>>
           /\ \/ file' = file
              \/ \E k \in Kinds : file' = [f \in Files |-> IF f \in Holds[k] THEN Absent ELSE file[f]]
           /\ spent' \in [tampers : Nat, faults : Nat, crashes : Nat]
<1>1. CASE ReclaimCheck(t) \/ ReclaimEnd(t)
  BY <1>1 DEF ReclaimCheck, ReclaimEnd, vars, TypeOK, Procs
<1>2. CASE ReclaimKilled(t)
  BY <1>2, Tallies DEF ReclaimKilled
<1>3. ASSUME NEW k \in Kinds, ReclaimKind(t, k) PROVE
        /\ UNCHANGED <<runVars, edits, raced, spent>>
        /\ file' = [f \in Files |-> IF f \in Holds[k] THEN Absent ELSE file[f]]
  BY <1>3 DEF ReclaimKind
<1>4. ASSUME NEW k \in Kinds, ReclaimFails(t, k) PROVE
        UNCHANGED <<file, runVars, edits, raced>> /\ Fail
  BY <1>4 DEF ReclaimFails
<1>5. Fail => spent' \in [tampers : Nat, faults : Nat, crashes : Nat]
  BY Tallies DEF Fail
<1> QED
  BY <1>1, <1>2, <1>3, <1>4, <1>5 DEF Reclaim, TypeOK, Procs

LEMMA ReclaimTypes ==
    ASSUME RTypeOK, NEW t \in Tx, Reclaim(t)
    PROVE  /\ reclaim' \in [Tx -> {"none", "removing", "over"}]
           /\ left' \in [Tx -> SUBSET Kinds]
<1>1. \E to \in {"none", "removing", "over"}, ks \in SUBSET Kinds : Reclaims(t, to, ks)
  <2>1. CASE ReclaimCheck(t) \/ ReclaimEnd(t) \/ ReclaimKilled(t)
    BY <2>1 DEF ReclaimCheck, ReclaimEnd, ReclaimKilled
  <2>2. ASSUME NEW k \in Kinds, ReclaimKind(t, k) \/ ReclaimFails(t, k)
        PROVE Reclaims(t, "removing", left[t] \ {k}) /\ left[t] \ {k} \in SUBSET Kinds
    BY <2>2 DEF ReclaimKind, ReclaimFails, RTypeOK
  <2> QED
    BY <2>1, <2>2 DEF Reclaim
<1> QED
  BY <1>1 DEF Reclaims, RTypeOK

LEMMA RTypeStep ==
    ASSUME RTypeOK, [RNext]_rvars
    PROVE  RTypeOK'
<1>1. CASE [Next]_vars /\ UNCHANGED <<reclaim, left>>
  BY <1>1, TypeStep DEF RTypeOK
<1>2. ASSUME NEW t \in Tx, Reclaim(t) PROVE RTypeOK'
  <2>1. TypeOK
    BY DEF RTypeOK
  <2>2. file' \in [Files -> Contents]
    <3>1. Absent \in Contents
      BY DEF Absent, Contents, Owners
    <3> QED
      BY <1>2, <2>1, <3>1, ReclaimSteps DEF TypeOK, Procs
  <2>3. TypeOK'
    BY <1>2, <2>1, <2>2, ReclaimSteps DEF TypeOK, Procs, runVars
  <2> QED
    BY <1>2, <2>3, ReclaimTypes DEF RTypeOK
<1> QED
  BY <1>1, <1>2, Sides

(* Every variable of runs and reclaims has its type.                       *)
THEOREM ReclaimTyped == RSpec => []RTypeOK
<1>1. RInit => RTypeOK
  BY TypeInit DEF RInit, RTypeOK
<1> QED
  BY <1>1, RTypeStep, PTL DEF RSpec

-----------------------------------------------------------------------------
(* Of the steps of a run, only the restore of one that found no key        *)
(* removes it.                                                             *)
Undone(k) ==
    \E t \in Tx : \E p \in ProcsOf(t) :
        pc[p] = "restore" /\ k \in todo[p] \ todo'[p] /\ ~snap[t][k].exists

LEMMA RunsKeepKeys ==
    ASSUME TypeOK, [Next]_vars, NEW k \in Keys, file[k].exists, ~file'[k].exists
    PROVE  Undone(k)
<1>0. k \in Files /\ k \notin Dirs /\ k \notin UserFiles /\ k \notin Text /\ k \notin Snapshots
  BY NamesApart DEF Files, Assets, UserFiles, Text
<1>1. ASSUME NEW t \in Tx, NEW p, NEW f \in Files,
             RetireDir(t, f) \/ PlaceDir(t, f) \/ ClearDir(p, f) \/ CopyDir(p, t, f)
      PROVE FALSE
  <2>1. f \in Dirs /\ \E c : Put(f, c)
    BY <1>1 DEF RetireDir, PlaceDir, ClearDir, CopyDir
  <2> QED
    BY <1>0, <2>1, PutMoves
<1>2. ASSUME NEW t \in Tx, NEW f \in Files, CommitFile(t, f) PROVE FALSE
  <2>1. \A g \in Files : file'[g] = IF g = f THEN Staged(t, f) ELSE file[g]
    BY <1>2, PutMoves DEF CommitFile
  <2>2. After(t, k, snap[t][k]) = IF snap[t][k].exists THEN snap[t][k] ELSE Written("fresh")
    BY <1>0, NamesApart DEF After, Text, Assets
  <2>3. Staged(t, k) \in {After(t, k, snap[t][k]), Written("foreign")}
    BY <1>0 DEF Staged, Removes, Text
  <2>4. Staged(t, k).exists
    BY <2>2, <2>3 DEF Written
  <2> QED
    BY <1>0, <2>1, <2>4
<1>3. ASSUME NEW t \in Tx, NEW p \in ProcsOf(t), NEW f \in Files, RestoreFile(p, t, f)
      PROVE Undone(k)
  <2>1. pc[p] = "restore" /\ f \in todo[p] /\ todo' = [todo EXCEPT ![p] = @ \ {f}]
        /\ Put(f, Utf8(f, snap[t][f]))
    BY <1>3 DEF RestoreFile, Visit
  <2>2. f = k /\ ~Utf8(k, snap[t][k]).exists
    BY <1>0, <2>1, PutMoves
  <2>3. snap[t][k] \in Contents
    BY <1>0 DEF TypeOK
  <2>4. ~snap[t][k].exists
    BY <2>2, <2>3 DEF Utf8, Contents
  <2>5. k \in todo[p] \ todo'[p]
    BY <2>1, <2>2, Processes DEF TypeOK
  <2> QED
    BY <2>1, <2>4, <2>5 DEF Undone
<1>4. ASSUME NEW t \in Tx, NEW f \in Files, Snapshot(t, f) \/ BackupAsset(t, f) PROVE FALSE
  BY <1>4, ReadMoves
<1>5. ASSUME NEW f \in UserFiles, UserEdit(f) PROVE FALSE
  BY <1>0, <1>5 DEF UserEdit, Put, TypeOK
<1> QED
  BY <1>1, <1>2, <1>3, <1>4, <1>5, DiskSteps

(* The HMAC key goes only when the rollback of a run that had found none   *)
(* restores it: no reclaim takes it, and no commit, whatever overlaps.     *)
THEOREM KeyIsKept == RSpec => KeyOutlives
<1>1. RInit => RTypeOK
  BY TypeInit DEF RInit, RTypeOK
<1>2. ASSUME RTypeOK, [RNext]_rvars, NEW k \in Keys, file[k].exists, ~file'[k].exists
      PROVE  Undone(k)
  <2>1. TypeOK /\ k \in Files
    BY <1>2 DEF RTypeOK, Files, Assets
  <2>2. ASSUME NEW t \in Tx, Reclaim(t) PROVE FALSE
    <3>1. \A j \in Kinds : k \notin Holds[j]
      BY HoldsNoKey
    <3> QED
      BY <1>2, <2>1, <2>2, <3>1, ReclaimSteps
  <2> QED
    BY <1>2, <2>1, <2>2, Sides, RunsKeepKeys
<1>3. RTypeOK /\ [RNext]_rvars =>
        [\A k \in Keys : file[k].exists /\ ~file'[k].exists =>
           \E t \in Tx : \E p \in ProcsOf(t) :
             pc[p] = "restore" /\ k \in todo[p] \ todo'[p] /\ ~snap[t][k].exists]_rvars
  BY <1>2 DEF Undone
<1> QED
  BY <1>1, <1>3, RTypeStep, PTL DEF RSpec, KeyOutlives

-----------------------------------------------------------------------------
(* What is installed, when runs follow one another and none is under way   *)
(* while a reclaim is.  Every job writes the settings, and one with hooks  *)
(* is an install that writes their runtime too.                            *)
WholeJobs ==
    \A t \in Tx : /\ "settings" \in Job[t].files
                  /\ Job[t].hooks => Dirs \subseteq Job[t].files /\ Job[t].op = "install"
Apart == InTurn /\ Alone /\ OwnVersions /\ WholeJobs

LEMMA RSteps ==
    ASSUME Alone, [RNext]_rvars
    PROVE  \/ \E t \in Tx : /\ Moves(t) /\ UNCHANGED <<reclaim, left>>
                            /\ pc[t] = "idle" => \A u \in Tx : ~Reclaiming(u)
           \/ \E t \in Tx : Reclaim(t)
           \/ UNCHANGED rvars
BY DEF RNext, Run, RFinished, Finished, Moves, rvars

(* A reclaim that removes finds every run settled and no report.           *)
Quiet == (\E t \in Tx : Reclaiming(t)) => (\A u \in Tx : Settled(u)) /\ ~file["generated"].exists

LEMMA RunsWait ==
    ASSUME Quiet, NEW t \in Tx, Moves(t), pc[t] = "idle" => \A u \in Tx : ~Reclaiming(u)
    PROVE  \A u \in Tx : ~Reclaiming(u)
BY SettledStarts DEF Quiet, Start, Goto

(* What a reclaim does to the disk and to what the abstraction shows.      *)
LEMMA ReclaimShows ==
    ASSUME TypeOK, TypeOK', Quiet, NEW t \in Tx, Reclaim(t)
    PROVE  \/ file' = file /\ Store' = Store
           \/ \E k \in Kinds :
                /\ ReclaimKind(t, k) /\ Store = file /\ Store' = file' /\ ~file["generated"].exists
                /\ \A u \in Tx : Settled(u)
                /\ \A f \in Files : file'[f] = IF f \in Holds[k] THEN Absent ELSE file[f]
<1>0. UNCHANGED runVars
  BY ReclaimSteps
<1>1. CASE file' = file
  BY <1>0, <1>1 DEF Store, Committing, runVars
<1>2. ASSUME NEW k \in Kinds, ReclaimKind(t, k)
      PROVE  /\ Store = file /\ Store' = file' /\ ~file["generated"].exists
             /\ \A u \in Tx : Settled(u)
             /\ \A f \in Files : file'[f] = IF f \in Holds[k] THEN Absent ELSE file[f]
  <2>1. (\A u \in Tx : Settled(u)) /\ ~file["generated"].exists
    BY <1>2 DEF ReclaimKind, Quiet
  <2>2. \A u \in Tx : ~Committing(u) /\ ~Committing(u)'
    BY <1>0, <2>1 DEF Settled, Gone, Committing, runVars
  <2>3. Store = file /\ Store' = file'
    BY <2>2, StoreSettled, StoreSettledNext
  <2>4. \A f \in Files : file'[f] = IF f \in Holds[k] THEN Absent ELSE file[f]
    BY <1>2 DEF ReclaimKind
  <2> QED
    BY <2>1, <2>3, <2>4
<1>3. file' = file \/ \E k \in Kinds : ReclaimKind(t, k)
  BY DEF Reclaim, ReclaimCheck, ReclaimEnd, ReclaimKilled, ReclaimFails, vars
<1> QED
  BY <1>1, <1>2, <1>3

LEMMA HeldApart == \A k \in Kinds, f \in Text : f \in Files /\ f \notin Holds[k]
BY HoldsNoKey, NamesApart DEF Files

(* A reclaim disturbs no run.                                              *)
LEMMA TurnReclaim ==
    ASSUME TypeOK', TurnInv, Quiet, NEW t \in Tx, Reclaim(t)
    PROVE  TurnInv'
<1> USE DEF TurnInv
<1>0. UNCHANGED <<runVars, edits>>
  BY ReclaimSteps
<1>1. PhaseInTurn' /\ InJob' /\ Verified' /\ OneRun'
  BY <1>0 DEF runVars, PhaseInTurn, InJob, Verified, OneRun, Settled, Gone
<1>2. CASE file' = file /\ Store' = Store
  <2>1. \A u \in Tx : InStep(u) => InStep(u)'
    BY <1>0, <1>2 DEF runVars, InStep, Same, Made
  <2> QED
    BY <1>0, <1>1, <1>2, <2>1 DEF runVars, ReportSolid, AllInStep, StoreEdits
<1>3. ASSUME NEW k \in Kinds, Store = file, Store' = file', \A u \in Tx : Settled(u),
             \A f \in Files : file'[f] = IF f \in Holds[k] THEN Absent ELSE file[f]
      PROVE  TurnInv'
  <2>1. file'["generated"] = file["generated"] /\ \A f \in UserFiles : file'[f] = file[f]
    BY <1>3, HeldApart DEF Text, UserFiles
  <2>2. AllInStep'
    BY <1>0, <1>3 DEF runVars, Settled, Gone, ProcsOf, AllInStep, InStep
  <2> QED
    BY <1>0, <1>1, <1>3, <2>1, <2>2 DEF runVars, ReportSolid, StoreEdits
<1> QED
  BY <1>2, <1>3, ReclaimShows

(* What the abstraction shows of the hooks and of the report.              *)
Hooked ==
    Store["settings"].owned # "none" =>
        /\ Store["generated"].owned = Store["settings"].owned
        /\ \A d \in Dirs : Store[d].exists
Stocked ==
    \A t \in Tx : Job[t].op = "install" /\ Store["generated"].owned = Job[t].version =>
        \A f \in AssetsOf(t) : Store[f].exists

LEMMA AppliedHolds ==
    ASSUME WholeJobs, OwnVersions, NEW t \in Tx, Promise!Apply(t)
    PROVE  Hooked' /\ Stocked'
<1>1. \A f \in Job[t].files : f \in Files /\ Store'[f] = After(t, f, Store[f])
  BY JobFiles DEF Effect, Promise!Apply
<1>2. Store'["generated"] = IF Job[t].op = "install" THEN Written(Job[t].version) ELSE Absent
  BY <1>1, ReportWritten
<1>3. Store'["settings"].owned = IF Job[t].hooks THEN Job[t].version ELSE "none"
  <2>1. After(t, "settings", Store["settings"]) = Owning(Store["settings"], IF Job[t].hooks THEN Job[t].version ELSE "none")
    BY NamesApart DEF After, Text, Assets
  <2> QED
    BY <1>1, <2>1 DEF WholeJobs, Owning
<1>4. \A f \in AssetsOf(t) : Store'[f].exists
  <2>1. ASSUME NEW f \in AssetsOf(t) PROVE Store'[f].exists
    <3>1. f \in Assets /\ f \in Job[t].files /\ f \notin Text
      BY NamesApart DEF AssetsOf
    <3>2. Store'[f] = After(t, f, Store[f])
      BY <1>1, <3>1
    <3>3. CASE f \in Keys
      <4>1. After(t, f, Store[f]) = IF Store[f].exists THEN Store[f] ELSE Written("fresh")
        BY <3>3, NamesApart DEF After, Text, Assets
      <4> QED
        BY <3>2, <4>1 DEF Written
    <3>4. CASE f \notin Keys
      <4>1. f \in Dirs \cup Snapshots
        BY <3>1, <3>4 DEF Assets
      <4>2. After(t, f, Store[f]) = Written(Job[t].version)
        BY <4>1, NamesApart DEF After, Text, Assets
      <4> QED
        BY <3>2, <4>2 DEF Written
    <3> QED
      BY <3>3, <3>4
  <2> QED
    BY <2>1
<1>5. Hooked'
  <2>1. Job[t].hooks => \A d \in Dirs : Store'[d].exists
    BY <1>4 DEF WholeJobs, AssetsOf, Assets
  <2>2. Job[t].hooks => Store'["generated"].owned = Job[t].version
    BY <1>2 DEF WholeJobs, Written
  <2> QED
    BY <1>3, <2>1, <2>2 DEF Hooked
<1>6. Stocked'
  <2>1. ASSUME NEW u \in Tx, Job[u].op = "install", Store'["generated"].owned = Job[u].version
        PROVE  u = t
    <3>1. Job[t].op = "install"
      BY <1>2, <2>1, ReportWritten, NamesApart DEF Absent
    <3> QED
      BY <1>2, <2>1, <3>1 DEF Written, OwnVersions
  <2> QED
    BY <1>4, <2>1 DEF Stocked
<1> QED
  BY <1>5, <1>6

LEMMA ShownInstalled ==
    ASSUME Apart, RTypeOK, TypeOK', TurnInv, Quiet, Hooked, Stocked, [RNext]_rvars
    PROVE  Hooked' /\ Stocked'
<1>1. CASE Store' = Store
  BY <1>1 DEF Hooked, Stocked
<1>2. ASSUME NEW t \in Tx, Moves(t) PROVE Hooked' /\ Stocked'
  <2>1. OneRun'
    BY <1>2, OneRunStep DEF Apart, TurnInv, Next, Moves
  <2>2. Promise!Apply(t) \/ Promise!Refuse(t) \/ UNCHANGED <<Store, Decided>>
    BY <1>2, <2>1, MoveMaps DEF Apart, TurnInv
  <2> QED
    BY <1>1, <2>2, AppliedHolds DEF Apart, Promise!Refuse
<1>3. ASSUME NEW t \in Tx, Reclaim(t) PROVE Hooked' /\ Stocked'
  <2>1. CASE \E k \in Kinds :
               /\ Store = file /\ Store' = file' /\ ~file["generated"].exists
               /\ \A f \in Files : file'[f] = IF f \in Holds[k] THEN Absent ELSE file[f]
    <3>1. file["generated"].owned = "none"
      BY <2>1 DEF TurnInv, ReportSolid, Solid, Absent
    <3>2. Store'["generated"] = Store["generated"] /\ Store'["settings"] = Store["settings"]
      BY <2>1, HeldApart DEF Text
    <3>3. Store'["settings"].owned = "none" /\ Store'["generated"].owned = "none"
      BY <2>1, <3>1, <3>2 DEF Hooked
    <3> QED
      BY <3>3, ReportWritten, NamesApart DEF Hooked, Stocked
  <2> QED
    BY <1>1, <1>3, <2>1, ReclaimShows DEF RTypeOK
<1>4. CASE UNCHANGED rvars
  BY <1>1, <1>4 DEF rvars, vars, runVars, Store, Committing
<1> QED
  BY <1>2, <1>3, <1>4, RSteps DEF Apart

LEMMA QuietStep ==
    ASSUME Apart, RTypeOK, TurnInv, Quiet, [RNext]_rvars
    PROVE  Quiet'
<1>1. ASSUME NEW t \in Tx, Moves(t), UNCHANGED <<reclaim, left>>,
             pc[t] = "idle" => \A u \in Tx : ~Reclaiming(u)
      PROVE  Quiet'
  BY <1>1, RunsWait DEF Quiet, Reclaiming
<1>2. ASSUME NEW t \in Tx, Reclaim(t) PROVE Quiet'
  <2>1. UNCHANGED runVars
    BY <1>2, ReclaimSteps DEF RTypeOK
  <2>2. file'["generated"] = file["generated"]
    <3>1. \A k \in Kinds : "generated" \notin Holds[k] /\ "generated" \in Files
      BY HeldApart DEF Text
    <3> QED
      BY <1>2, <3>1, ReclaimSteps DEF RTypeOK
  <2>3. ASSUME NEW u \in Tx, Reclaiming(u)', ~Reclaiming(u)
        PROVE  (\A w \in Tx : Settled(w)) /\ ~file["generated"].exists
    <3>1. reclaim'[u] = "removing" /\ reclaim[u] # "removing"
      BY <2>3 DEF Reclaiming
    <3>2. CASE ReclaimCheck(t)
      BY <3>1, <3>2 DEF ReclaimCheck, Reclaims, RTypeOK, Apart
    <3>3. CASE ReclaimEnd(t) \/ ReclaimKilled(t)
      BY <3>1, <3>3 DEF ReclaimEnd, ReclaimKilled, Reclaims, RTypeOK
    <3>4. ASSUME NEW k \in Kinds, ReclaimKind(t, k) \/ ReclaimFails(t, k) PROVE FALSE
      BY <3>1, <3>4 DEF ReclaimKind, ReclaimFails, Reclaiming, Reclaims, RTypeOK
    <3> QED
      BY <1>2, <3>2, <3>3, <3>4 DEF Reclaim
  <2> QED
    BY <2>1, <2>2, <2>3 DEF Quiet, Settled, Gone, runVars
<1>3. CASE UNCHANGED rvars
  BY <1>3 DEF rvars, vars, runVars, Quiet, Settled, Gone, Reclaiming
<1> QED
  BY <1>1, <1>2, <1>3, RSteps DEF Apart

RInv == RTypeOK /\ TurnInv /\ Quiet /\ Hooked /\ Stocked

LEMMA RInvStep ==
    ASSUME Apart, RInv, [RNext]_rvars
    PROVE  RInv'
<1> USE DEF RInv
<1>1. RTypeOK' /\ TypeOK'
  BY RTypeStep DEF RTypeOK
<1>2. TurnInv'
  <2>1. CASE [Next]_vars
    BY <2>1, TurnStep DEF Apart
  <2>2. ASSUME NEW t \in Tx, Reclaim(t) PROVE TurnInv'
    BY <1>1, <2>2, TurnReclaim
  <2> QED
    BY <2>1, <2>2, Sides
<1> QED
  BY <1>1, <1>2, QuietStep, ShownInstalled

LEMMA RInvInit == RInit => RInv
<1> SUFFICES ASSUME RInit PROVE RInv
  OBVIOUS
<1>1. Init /\ RTypeOK /\ TurnInv /\ Quiet
  BY TypeInit, InTurnInit, CleanInit, EditsInit, TurnInit, StartsShown
     DEF TurnInv, RInit, RTypeOK, Quiet, Reclaiming
<1>2. Store = file
  BY <1>1, TypeInit, StoreSettled DEF Init, Committing
<1>3. ASSUME NEW m \in Machines
      PROVE  /\ m["generated"].owned \in {"old", "none"}
             /\ m["settings"].owned # "none"
                  => m["generated"].owned = m["settings"].owned /\ \A d \in Dirs : m[d].exists
  <2>1. PICK had, users : m = Machine(had, users) /\ had \in {{}, Keys, Files \ Snapshots}
    BY <1>3 DEF Machines
  <2>2. \A f \in Files : m[f] = IF f \in had THEN Written("old") ELSE IF f \in users THEN Written("none") ELSE Absent
    BY <2>1 DEF Machine
  <2>3. "settings" \in Files /\ "generated" \in Files /\ Dirs \subseteq Files
        /\ "settings" \notin Keys /\ "generated" \notin Snapshots /\ Dirs \cap Snapshots = {}
    BY NamesApart DEF Files, Text, Assets
  <2>4. m["settings"].owned # "none" => had = Files \ Snapshots
    BY <2>1, <2>2, <2>3 DEF Written, Absent
  <2>5. had = Files \ Snapshots => m["generated"] = Written("old") /\ \A d \in Dirs : m[d] = Written("old")
    BY <2>2, <2>3
  <2>6. m["settings"].owned \in {"old", "none"} /\ m["generated"].owned \in {"old", "none"}
    BY <2>2, <2>3 DEF Written, Absent
  <2> QED
    BY <2>4, <2>5, <2>6 DEF Written
<1>4. file \in Machines
  BY <1>1 DEF Init
<1>5. Hooked
  BY <1>2, <1>3, <1>4 DEF Hooked
<1>6. Stocked
  BY <1>2, <1>3, <1>4, ReportWritten, NamesApart DEF Stocked
<1> QED
  BY <1>1, <1>5, <1>6 DEF RInv

(* A report has its store and its runtime, whatever uninstalls, reclaims,  *)
(* failures, kills and recoveries went before (reclaimDerivedState).       *)
THEOREM ReportKeepsStore ==
    ASSUME Apart
    PROVE  RSpec => []StoreServesReport
<1>1. RInv => StoreServesReport
  <2> SUFFICES ASSUME RInv, \A t \in Tx : Settled(t) PROVE StoreServesReport
    BY DEF StoreServesReport
  <2>1. Store = file
    BY StoreSettled DEF RInv, TurnInv, Settled, Gone, Committing
  <2> QED
    BY <2>1 DEF RInv, Stocked, StoreServesReport
<1> QED
  BY <1>1, RInvInit, RInvStep, PTL DEF RSpec

(* No hook dangles: hooks in the settings have their report and runtime.   *)
THEOREM HooksRun ==
    ASSUME Apart
    PROVE  RSpec => []HooksHaveRuntime
<1>1. RInv => HooksHaveRuntime
  <2> SUFFICES ASSUME RInv, \A t \in Tx : Settled(t) PROVE HooksHaveRuntime
    BY DEF HooksHaveRuntime
  <2>1. Store = file
    BY StoreSettled DEF RInv, TurnInv, Settled, Gone, Committing
  <2> QED
    BY <2>1 DEF RInv, Hooked, HooksHaveRuntime
<1> QED
  BY <1>1, RInvInit, RInvStep, PTL DEF RSpec

-----------------------------------------------------------------------------
(* What is left to remove.  A reclaim follows a completed uninstall; while *)
(* nothing kills it, of the directories it is done with those are left     *)
(* that it failed to remove; and once one is over and there is no report,  *)
(* another is owed or only so many are left.                               *)
Full == {k \in Kinds : \E f \in Holds[k] : Store[f].exists}
Few(S) == Cardinality(S) <= spent.faults
Unkilled == spent.crashes = 0
Owes(t) == Uninstalled(t) /\ reclaim[t] # "over"
AfterUninstall == \A t \in Tx : reclaim[t] # "none" => Uninstalled(t)
Removed == \A t \in Tx : Reclaiming(t) => Few(Full \ left[t])
Cleared ==
    (\E t \in Tx : reclaim[t] = "over") /\ ~Store["generated"].exists =>
        (\E t \in Tx : Owes(t)) \/ Few(Full)
Clearing == AfterUninstall /\ (Unkilled => Removed /\ Cleared)

LEMMA KindsFinite == IsFiniteSet(Kinds)
<1>1. IsFiniteSet({} \cup {"contracts"})
  BY FS_EmptySet, FS_AddElement
<1>2. IsFiniteSet(({} \cup {"contracts"}) \cup {"runtime-defaults"})
  BY <1>1, FS_AddElement
<1>3. IsFiniteSet((({} \cup {"contracts"}) \cup {"runtime-defaults"}) \cup {"hook"})
  BY <1>2, FS_AddElement
<1>4. Kinds = (({} \cup {"contracts"}) \cup {"runtime-defaults"}) \cup {"hook"}
  BY DEF Kinds
<1> QED
  BY <1>3, <1>4

LEMMA FewKinds ==
    ASSUME NEW S \in SUBSET Kinds, NEW m \in Nat, Cardinality(S) <= m
    PROVE  /\ \A T \in SUBSET S, n \in Nat : m <= n => Cardinality(T) <= n
           /\ \A k \in Kinds : \A T \in SUBSET (S \cup {k}) : Cardinality(T) <= m + 1
<1>1. IsFiniteSet(S) /\ Cardinality(S) \in Nat
  BY KindsFinite, FS_Subset, FS_CardinalityType
<1>2. ASSUME NEW T \in SUBSET S, NEW n \in Nat, m <= n PROVE Cardinality(T) <= n
  <2>1. Cardinality(T) <= Cardinality(S) /\ Cardinality(T) \in Nat
    BY <1>1, FS_Subset, FS_CardinalityType
  <2> QED
    BY <1>1, <1>2, <2>1
<1>3. ASSUME NEW k \in Kinds, NEW T \in SUBSET (S \cup {k}) PROVE Cardinality(T) <= m + 1
  <2>1. IsFiniteSet(S \cup {k}) /\ Cardinality(S \cup {k}) <= m + 1 /\ Cardinality(S \cup {k}) \in Nat
    BY <1>1, FS_AddElement
  <2>2. Cardinality(T) <= Cardinality(S \cup {k}) /\ Cardinality(T) \in Nat
    BY <2>1, FS_Subset, FS_CardinalityType
  <2> QED
    BY <2>1, <2>2
<1> QED
  BY <1>2, <1>3

(* No step takes a fault or a kill back.                                   *)
LEMMA SpentGrows ==
    ASSUME TypeOK, NEW t \in Tx, Moves(t)
    PROVE  /\ spent.faults \in Nat /\ spent'.faults \in Nat /\ spent.faults <= spent'.faults
           /\ Unkilled' => Unkilled
<1>0. spent \in [tampers : Nat, faults : Nat, crashes : Nat]
  BY DEF TypeOK
<1>1. CASE spent' = spent
  BY <1>0, <1>1 DEF Unkilled
<1>2. CASE Fail
  BY <1>0, <1>2 DEF Fail, Unkilled
<1>3. CASE Crash(t) \/ TamperStage(t)
  BY <1>0, <1>3 DEF Crash, TamperStage, Unkilled
<1>4. CASE Start(t) \/ Plan(t) \/ Prepare(t) \/ Stage(t) \/ ValidateStages(t) \/ MarkCommitting(t)
           \/ BeginCommit(t) \/ Complete(t) \/ Abort(t) \/ EndRollback(t, t) \/ Recover(t, t)
  BY <1>1, <1>4 DEF Start, Plan, Prepare, Stage, ValidateStages, MarkCommitting, BeginCommit,
      Complete, Abort, EndRollback, Recover, BeginRecover
<1>5. ASSUME NEW f \in Files,
             \/ Snapshot(t, f) \/ BackupAsset(t, f) \/ CheckOriginal(t, f)
             \/ CommitFile(t, f) \/ RetireDir(t, f) \/ PlaceDir(t, f) \/ FailRename(t, f)
             \/ RestoreFile(t, t, f) \/ ClearDir(t, f) \/ CopyDir(t, t, f)
      PROVE spent' = spent
  BY <1>5 DEF Snapshot, BackupAsset, CheckOriginal, CommitFile, RetireDir, PlaceDir, FailRename,
      RestoreFile, ClearDir, CopyDir
<1>6. ASSUME FailBefore(t) \/ FailCommit(t) \/ FailPersist(t) \/ \E f \in Files : FailRestore(t, f)
      PROVE Fail
  BY <1>6 DEF FailBefore, FailCommit, FailPersist, FailRestore
<1> QED
  BY <1>1, <1>2, <1>3, <1>4, <1>5, <1>6 DEF Moves, Step, Rollback, Fault

LEMMA UninstalledStays ==
    ASSUME InTurn, TypeOK, NEW t \in Tx, Moves(t), NEW u \in Tx, Uninstalled(u)
    PROVE  Uninstalled(u)'
<1>1. Settled(u) /\ ~Start(u)
  BY OneProcess DEF Uninstalled, Gone, Start, Goto
<1>2. u # t
  BY <1>1, SettledStarts
<1> QED
  BY <1>2, MovesOwn DEF Uninstalled

LEMMA AppliedClears ==
    ASSUME TypeOK, TypeOK', PhaseInTurn, NEW t \in Tx, Moves(t), Promise!Apply(t)
    PROVE  /\ Job[t].op = "install" => Store'["generated"].exists
           /\ Job[t].op = "uninstall" => Uninstalled(t)'
           /\ ~Uninstalled(t)
<1>1. Store'["generated"] = IF Job[t].op = "install" THEN Written(Job[t].version) ELSE Absent
  BY ReportFile, ReportWritten DEF Effect, Promise!Apply
<1>2. Decided[t] = "pending" /\ Decided'[t] = "applied"
  BY DEF Promise!Apply, Decided
<1>3. phase[t] # "completed" /\ phase'[t] = "completed"
  BY <1>2 DEF Decided
<1>4. Complete(t)
  BY <1>3, PhaseMoves DEF MarkCommitting, Abort, EndRollback, Mark, TypeOK, Procs
<1>5. pc'[t] = "done"
  BY <1>4 DEF Complete, Goto, TypeOK, Procs
<1> QED
  BY <1>1, <1>3, <1>5 DEF Written, Uninstalled

LEMMA RunClears ==
    ASSUME Apart, TypeOK, TypeOK', TurnInv, Quiet, Clearing, NEW t \in Tx, Moves(t),
           UNCHANGED <<reclaim, left>>, pc[t] = "idle" => \A u \in Tx : ~Reclaiming(u)
    PROVE  Clearing'
<1>1. \A u \in Tx : ~Reclaiming(u) /\ ~Reclaiming(u)'
  BY RunsWait DEF Reclaiming
<1>2. AfterUninstall'
  BY UninstalledStays DEF Apart, Clearing, AfterUninstall
<1>3. OneRun'
  BY OneRunStep DEF Apart, TurnInv, Next, Moves
<1>4. Promise!Apply(t) \/ Promise!Refuse(t) \/ UNCHANGED <<Store, Decided>>
  BY <1>3, MoveMaps DEF Apart, TurnInv
<1>5. CASE Promise!Apply(t)
  <2>1. reclaim[t] = "none"
    BY <1>5, AppliedClears DEF TurnInv, Clearing, AfterUninstall
  <2>2. Job[t].op \in {"install", "uninstall"}
    BY JobAssumption DEF Jobs, Ops
  <2>3. Store'["generated"].exists \/ Owes(t)'
    BY <1>5, <2>1, <2>2, AppliedClears DEF TurnInv, Owes
  <2>4. Cleared'
    BY <2>3 DEF Cleared
  <2> QED
    BY <1>1, <1>2, <2>4 DEF Clearing, Removed
<1>6. CASE Store' = Store
  <2>1. \A u \in Tx : Owes(u) => Owes(u)'
    BY UninstalledStays DEF Apart, Owes
  <2>2. Full' = Full /\ Full \in SUBSET Kinds
    BY <1>6 DEF Full
  <2>3. Few(Full) => Few(Full)'
    BY <2>2, SpentGrows, FewKinds DEF Few
  <2>4. Cleared => Cleared'
    BY <1>6, <2>1, <2>3 DEF Cleared
  <2> QED
    BY <1>1, <1>2, <2>4, SpentGrows DEF Clearing, Removed
<1> QED
  BY <1>4, <1>5, <1>6 DEF Promise!Refuse

LEMMA ReclaimClears ==
    ASSUME Apart, RTypeOK, TypeOK', Quiet, Clearing, NEW t \in Tx, Reclaim(t)
    PROVE  Clearing'
<1>0. UNCHANGED runVars /\ \A u \in Tx : Uninstalled(u)' = Uninstalled(u)
  BY ReclaimSteps DEF RTypeOK, runVars, Uninstalled
<1>1. Uninstalled(t)
  BY DEF Reclaim, ReclaimCheck, ReclaimEnd, ReclaimKilled, ReclaimKind, ReclaimFails, Reclaiming,
     Clearing, AfterUninstall
<1>2. \A u \in Tx : u # t => reclaim'[u] = reclaim[u] /\ left'[u] = left[u]
  BY DEF Reclaim, ReclaimCheck, ReclaimEnd, ReclaimKilled, ReclaimKind, ReclaimFails, Reclaims, RTypeOK
<1>3. AfterUninstall'
  BY <1>0, <1>1, <1>2 DEF Clearing, AfterUninstall
<1>4. ASSUME UNCHANGED vars
      PROVE  Store' = Store /\ Unkilled' = Unkilled /\ Full' = Full /\ \A S : Few(S)' <=> Few(S)
  BY <1>4 DEF vars, runVars, Store, Committing, Unkilled, Full, Few
<1>s. spent \in [tampers : Nat, faults : Nat, crashes : Nat]
  BY DEF RTypeOK, TypeOK
<1>n. spent.faults \in Nat /\ spent.crashes \in Nat
  BY <1>s
<1>5. CASE ReclaimCheck(t)
  <2>1. Store = file
    BY <1>5, StoreSettled DEF ReclaimCheck, Apart, Settled, Gone, Committing, RTypeOK
  <2>2. UNCHANGED vars
    BY <1>5 DEF ReclaimCheck
  <2>3. CASE file["generated"].exists
    <3>1. reclaim'[t] = "over" /\ Store'["generated"].exists
      BY <1>4, <1>5, <2>1, <2>2, <2>3 DEF ReclaimCheck, Reclaims, RTypeOK
    <3> QED
      BY <1>2, <1>3, <1>4, <2>2, <3>1 DEF Clearing, Removed, Cleared, Reclaiming
  <2>4. CASE ~file["generated"].exists
    <3>1. reclaim'[t] = "removing" /\ left'[t] = Kinds
      BY <1>5, <2>4 DEF ReclaimCheck, Reclaims, RTypeOK
    <3>2. Owes(t)'
      BY <1>0, <1>1, <3>1 DEF Owes
    <3>3. Full \ Kinds = {} /\ Few({})
      BY <1>n, FS_EmptySet DEF Full, Few
    <3>4. Few(Full \ left[t])'
      BY <1>4, <2>2, <3>1, <3>3
    <3>5. Unkilled => Removed'
      BY <1>2, <1>4, <2>2, <3>4 DEF Clearing, Removed, Reclaiming
    <3> QED
      BY <1>3, <1>4, <2>2, <3>2, <3>5 DEF Clearing, Cleared
  <2> QED
    BY <2>3, <2>4
<1>6. CASE ReclaimEnd(t)
  <2>1. UNCHANGED vars /\ reclaim'[t] = "over" /\ Reclaiming(t) /\ left[t] = {}
    BY <1>6 DEF ReclaimEnd, Reclaims, RTypeOK
  <2>2. Unkilled => Few(Full)
    BY <2>1 DEF Clearing, Removed
  <2> QED
    BY <1>2, <1>3, <1>4, <2>1, <2>2 DEF Clearing, Removed, Cleared, Reclaiming
<1>7. ASSUME NEW k \in Kinds, ReclaimKind(t, k) PROVE Clearing'
  <2>1. reclaim'[t] = "removing" /\ Reclaiming(t) /\ left'[t] = left[t] \ {k} /\ spent' = spent
    BY <1>7 DEF ReclaimKind, Reclaims, RTypeOK
  <2>2. \A u \in Tx : ~Committing(u) /\ ~Committing(u)'
    BY <1>0, <2>1 DEF Quiet, Settled, Gone, Committing, runVars
  <2>3. Store = file /\ Store' = file'
    BY <2>2, StoreSettled, StoreSettledNext DEF RTypeOK
  <2>4. \A f \in Files : Store'[f] = IF f \in Holds[k] THEN Absent ELSE Store[f]
    BY <1>7, <2>3 DEF ReclaimKind
  <2>5. \A j \in Kinds : \A f \in Holds[j] : f \in Files
    BY HoldsNoKey DEF Files
  <2>6. Full' \subseteq Full \ {k} /\ Full \in SUBSET Kinds
    BY <2>4, <2>5 DEF Full, Absent
  <2>7. Owes(t)'
    BY <1>0, <1>1, <2>1 DEF Owes
  <2>8. ASSUME NEW u \in Tx, Reclaiming(u)', Few(Full \ left[u]) PROVE Few(Full \ left[u])'
    <3>1. (Full \ left[u])' \in SUBSET (Full \ left[u])
      BY <1>2, <2>1, <2>6
    <3> QED
      BY <1>n, <2>1, <2>6, <2>8, <3>1, FewKinds DEF Few
  <2>9. Removed => Removed'
    BY <1>2, <2>1, <2>8 DEF Removed, Reclaiming
  <2> QED
    BY <1>3, <2>1, <2>7, <2>9 DEF Clearing, Cleared, Unkilled
<1>8. ASSUME NEW k \in Kinds, ReclaimFails(t, k) PROVE Clearing'
  <2>1. /\ reclaim'[t] = "removing" /\ Reclaiming(t) /\ left'[t] = left[t] \ {k}
        /\ spent' = [spent EXCEPT !.faults = @ + 1] /\ UNCHANGED <<file, runVars>>
    BY <1>8 DEF ReclaimFails, Reclaims, RTypeOK, Fail
  <2>2. spent'.faults = spent.faults + 1 /\ Unkilled' = Unkilled
    BY <1>s, <2>1 DEF Unkilled
  <2>3. Store' = Store /\ Full' = Full /\ Full \in SUBSET Kinds
    BY <2>1 DEF runVars, Store, Committing, Full
  <2>4. ASSUME NEW u \in Tx, Reclaiming(u)', Few(Full \ left[u]) PROVE Few(Full \ left[u])'
    <3>1. (Full \ left[u])' \in SUBSET ((Full \ left[u]) \cup {k})
      BY <1>2, <2>1, <2>3
    <3>2. Cardinality((Full \ left[u])') <= spent.faults + 1
      BY <1>n, <2>3, <2>4, <3>1, FewKinds DEF Few
    <3> QED
      BY <2>2, <3>2 DEF Few
  <2>5. Removed => Removed'
    BY <1>2, <2>1, <2>4 DEF Removed, Reclaiming
  <2>6. Owes(t)'
    BY <1>0, <1>1, <2>1 DEF Owes
  <2> QED
    BY <1>3, <2>2, <2>5, <2>6 DEF Clearing, Cleared
<1>9. CASE ReclaimKilled(t)
  <2>1. spent'.crashes = spent.crashes + 1
    BY <1>s, <1>9 DEF ReclaimKilled
  <2>2. ~Unkilled'
    BY <1>n, <2>1 DEF Unkilled
  <2> QED
    BY <1>3, <2>2 DEF Clearing
<1> QED
  BY <1>5, <1>6, <1>7, <1>8, <1>9 DEF Reclaim

LEMMA ClearingStep ==
    ASSUME Apart, RInv, Clearing, [RNext]_rvars
    PROVE  Clearing'
<1> USE DEF RInv
<1>1. TypeOK /\ TypeOK'
  BY RTypeStep DEF RTypeOK
<1>2. CASE UNCHANGED rvars
  <2>1. Store' = Store /\ UNCHANGED <<pc, phase, spent, reclaim, left>>
    BY <1>2 DEF rvars, vars, runVars, Store, Committing
  <2> QED
    BY <2>1 DEF Clearing, AfterUninstall, Removed, Cleared, Owes, Uninstalled, Reclaiming, Full, Few, Unkilled
<1> QED
  BY <1>1, <1>2, RunClears, ReclaimClears, RSteps DEF Apart

(* Uninstalls that are not killed, and that no install follows, leave no   *)
(* more directories of derived state than they failed to remove            *)
(* (reclaimDerivedState).                                                  *)
THEOREM ReclaimIsComplete ==
    ASSUME Apart
    PROVE  RSpec => []NothingLeft
<1>1. RInit => Clearing
  BY DEF RInit, Clearing, AfterUninstall, Removed, Cleared, Reclaiming
<1>2. RInv /\ Clearing => NothingLeft
  <2> SUFFICES ASSUME RInv, Clearing, \A t \in Tx : Settled(t) /\ REnded(t),
                      \E t \in Tx : reclaim[t] = "over", ~file["generated"].exists, Unkilled
               PROVE  Cardinality({k \in Kinds : \E f \in Holds[k] : file[f].exists}) <= spent.faults
    BY DEF NothingLeft, Unkilled
  <2>1. Store = file
    BY StoreSettled DEF RInv, RTypeOK, Settled, Committing
  <2>2. \A t \in Tx : ~Owes(t)
    BY DEF REnded, Owes
  <2> QED
    BY <2>1, <2>2 DEF Clearing, Cleared, Full, Few
<1> QED
  BY <1>1, <1>2, RInvInit, RInvStep, ClearingStep, PTL DEF RSpec
=============================================================================
