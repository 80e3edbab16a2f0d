-------------------------- MODULE InstallProperties --------------------------
(***************************************************************************)
(* What a run of the installer guarantees: invariants, action properties,  *)
(* liveness, and the refinement of AtomicUpdate.                           *)
(***************************************************************************)
EXTENDS InstallTransaction

TypeOK ==
    /\ file \in [Files -> Contents]
    /\ phase \in [Tx -> Phases]
    /\ pc \in [Procs -> PCs]
    /\ todo \in [Procs -> SUBSET Files]
    /\ snap \in [Tx -> [Files -> Contents]]
    /\ intact \in [Tx -> BOOLEAN]
    /\ recovers \in [Procs -> BOOLEAN]
    /\ failed \in [Procs -> BOOLEAN]
    /\ edits \in [UserFiles -> Nat]
    /\ raced \in SUBSET UserFiles
    /\ spent \in [tampers : Nat, faults : Nat, crashes : Nat]

(* Write-ahead: content of a version is on disk only if the manifest of a  *)
(* run of that version said "committing" first.  Whatever the interleaving *)
(* of runs, one that is prepared or aborted wrote nothing, so recovery     *)
(* finds every run that did write.                                         *)
WriteAhead ==
    \A f \in Files : file[f].owned \in Versions =>
        \E t \in Tx : /\ Job[t].version = file[f].owned
                      /\ phase[t] \notin {"none", "prepared", "aborted"}

(* A manifest in a terminal phase never says "committing" again, and its   *)
(* phase is final: `recover` leaves a completed run, and a run it has      *)
(* rolled back already, as they are, and recoveries of one run that        *)
(* overlap agree on the outcome.  The one exception is a `recover` that    *)
(* was run on a run still at work, which it does not notice: there the     *)
(* two write their phases over one another.                                *)
Contested(t) == ~recovers[t] /\ \E p \in Rivals : RivalOf[p] = t /\ recovers[p]
TerminalIsFinal ==
    [][\A t \in Tx : phase[t] \in Terminal =>
        /\ phase'[t] \in Terminal
        /\ phase'[t] = phase[t] \/ Contested(t)]_vars

(* The report lands last: while a run's report is on disk, the hooks and   *)
(* the assets it describes are the run's too.                              *)
InPlace(t, f) ==
    IF f \in Keys THEN file[f].exists
    ELSE file[f].owned = After(t, f, snap[t][f]).owned
Proven(t) == \A f \in Job[t].files \ {"instruction"} : InPlace(t, f)
Reported(t) ==
    /\ Job[t].op = "install" /\ phase[t] \notin {"none", "prepared"}
    /\ file["generated"].owned = Job[t].version
ReportProvesCommit == \A t \in Tx : Reported(t) => Proven(t)

(* The same while no other run is unsettled and no rollback of the run has *)
(* failed: in the middle of its commit, after it was killed, while it is   *)
(* rolled back.                                                            *)
ReportLandsLast ==
    \A t \in Tx :
        /\ Reported(t) /\ ~failed[t] /\ ~recovers[t]
        /\ \A u \in Tx \ {t} : Settled(u)
        => Proven(t)

(* When a rollback or a recovery reports success, every file of the run    *)
(* has the owned content it had before: no half of the commit stays, also  *)
(* when the rollback itself was killed and started over.                   *)
RollbackRestores ==
    [][\A t \in Tx : phase[t] = "committing" /\ phase'[t] \in {"rolled_back", "recovered"} =>
        \A f \in Job[t].files :
            /\ file[f].owned = snap[t][f].owned
            /\ f \notin UserFiles => file[f] = snap[t][f]]_vars

(* No staged file that changed after it was staged reaches its target,     *)
(* as long as it changed before the last validation.                       *)
VerifiedContent == \A f \in Files : file[f].owned # "foreign"

(* A user's edit is lost to a run only if it came after the run's last     *)
(* look at the file; an abort or a rollback never costs an earlier one.    *)
EditsSurvive ==
    \A f \in UserFiles :
        file[f].user = edits[f] \/ f \in raced \/ \E p \in Procs : recovers[p]

(* The same across recovery: an edit made before any manifest said         *)
(* "committing" is still there after `recover`.                            *)
EditsSurviveRecovery ==
    \A f \in UserFiles : file[f].user = edits[f] \/ f \in raced

(* A run whose manifest says "committing" reaches a terminal phase.        *)
CommittingSettles ==
    \A t \in Tx : (phase[t] = "committing") ~> (phase[t] \in Terminal)

(* Every run that starts ends, or its process is killed.                   *)
RunsEnd == \A t \in Tx : (pc[t] = "snap") ~> (pc[t] \in {"done", "dead"})
-----------------------------------------------------------------------------
(* The refinement: until its manifest is terminal, a run that committed    *)
(* files is seen as not having started.                                    *)
Committing(t) == phase[t] = "committing"

Store == [f \in Files |->
            IF \E t \in Tx : Committing(t) /\ f \in Job[t].files
            THEN LET t == CHOOSE t \in Tx : Committing(t) /\ f \in Job[t].files IN snap[t][f]
            ELSE file[f]]

Decided == [t \in Tx |->
    CASE phase[t] = "completed" -> "applied"
      [] phase[t] \in {"aborted", "rolled_back", "recovered"} -> "refused"
      [] OTHER -> "pending"]

Effect(t, s) == [f \in Files |-> IF f \in Job[t].files THEN After(t, f, s[f]) ELSE s[f]]

Promise == INSTANCE AtomicUpdate WITH
    Shared <- UserFiles, store <- Store, decided <- Decided

(* Runs that follow one another change all their files or none, and a      *)
(* crash, a failed step and a recovery never show.                         *)
AllOrNothing == Promise!ASpec
=============================================================================
