------------------------------ MODULE HookProofs ------------------------------
(***************************************************************************)
(* Theorems of HookOwnership, for any number of runs, whatever they do and *)
(* however often the user interferes.                                      *)
(***************************************************************************)
EXTENDS HookOwnership, TLAPS

(* The hooks that runs render, and those of the user, are tuples.          *)
LEMMA Rendered ==
    ASSUME NEW p \in Runs \cup {0}
    PROVE  /\ Guard(p) \in Tuples /\ Usage(p) \in Tuples
           /\ Guard(p).command \in Commands
           /\ Guard(p).command.by # "user" /\ Usage(p).command.by # "user"
BY DEF Guard, Usage, Hook, Tuples, Commands

LEMMA UserTuples == UserHooks \subseteq Tuples /\ \A h \in UserHooks : h.command.by = "user"
BY DEF UserHooks, Hook, Tuples, Commands

(* What the invariant has to say of the reports: the guard that an old     *)
(* receipt names is a command, and nothing that a report names is a hook   *)
(* of the user.                                                            *)
Foreign(ts) == \A h \in ts : h.command.by # "user"
ReportSound ==
    /\ report.kind \in {"managed1", "legacy"} => report.guard \in Commands
    /\ report.guard.by # "user" /\ Foreign(report.hooks)

(* A receipt proves tuples only, and none of the user's.                   *)
LEMMA Proves ==
    ASSUME TypeOK, ReportSound
    PROVE  ReceiptHooks(report) \subseteq Tuples /\ Foreign(ReceiptHooks(report))
BY DEF TypeOK, ReportSound, Reports, ReceiptHooks, Tuples, Foreign

(* What a run makes of its first read.                                     *)
LEMMA AdapterSound ==
    ASSUME TypeOK, ReportSound, NEW p \in Runs
    PROVE  Adapter(p) \in Plans /\ Foreign(Adapter(p).tuples)
<1>1. ReceiptHooks(report) \subseteq Tuples /\ Foreign(ReceiptHooks(report))
  BY Proves
<1>2. Op[p] \in {"guard", "guidance", "uninstall"}
  BY OpAssumption
<1>3. Transition(p) \in BOOLEAN
  BY DEF Transition
<1>4. Adapter(p).settings \in BOOLEAN
  BY <1>2, <1>3 DEF Adapter
<1>5. Adapter(p).tuples \in SUBSET Tuples /\ Foreign(Adapter(p).tuples)
  BY <1>1 DEF Adapter, Foreign
<1> QED
  BY <1>4, <1>5 DEF Adapter, Plans, TypeOK

(* The report a run writes.                                                *)
LEMMA NewReportSound ==
    ASSUME NEW p \in Runs
    PROVE  /\ NewReport(p) \in Reports
           /\ NewReport(p).kind \notin {"managed1", "legacy"}
           /\ NewReport(p).guard.by # "user" /\ Foreign(NewReport(p).hooks)
<1>1. CASE Op[p] = "guard"
  BY <1>1, Rendered DEF NewReport, Report, Reports, Versioned, Foreign
<1>2. CASE Op[p] = "guidance"
  BY <1>2 DEF NewReport, Report, Reports, Versioned, Foreign, NoCommand
<1>3. CASE Op[p] = "uninstall"
  BY <1>3 DEF NewReport, NoReport, Report, Reports, Versioned, Foreign, NoCommand
<1> QED
  BY <1>1, <1>2, <1>3, OpAssumption

(* What the user's hooks add to it: they are his own, they are there, and  *)
(* no plan is to take one out.                                             *)
UserSound ==
    /\ mine \subseteq UserHooks /\ mine \subseteq settings.hooks
    /\ \A p \in Runs : Foreign(plan[p].tuples)
HooksInv == TypeOK /\ ReportSound /\ UserSound

(* The machines a run may find satisfy the invariant.                      *)
LEMMA HooksInit == Init => HooksInv
<1> SUFFICES ASSUME Init PROVE HooksInv
  OBVIOUS
<1>1. PICK i \in Installed :
        /\ report = i[1]
        /\ settings = [ok |-> TRUE, hooks |-> i[2] \cup {Hook("Pre", "user", 0)}]
        /\ slipped = (i[1].kind \in {"bare", "guidance"})
  BY DEF Init
<1>2. Guard(0) \in Tuples /\ Guard(0).command \in Commands /\ Guard(0).command.by # "user"
  BY Rendered
<1>3. i[1] \in Reports /\ i[2] \subseteq Tuples
  BY <1>2 DEF Installed, NoReport, Report, Reports, Versioned
<1>4. /\ i[1].kind \in {"managed1", "legacy"} => i[1].guard \in Commands
      /\ i[1].guard.by # "user" /\ Foreign(i[1].hooks)
  BY <1>2 DEF Installed, NoReport, Report, NoCommand, Foreign
<1>5. NoPlan \in Plans /\ NoPlan.tuples = {}
  BY DEF NoPlan, Plans, NoReport, Report, Reports, NoCommand
<1>6. Hook("Pre", "user", 0) \in UserHooks
  BY DEF UserHooks
<1>7. TypeOK
  BY <1>1, <1>3, <1>5, <1>6, UserTuples, ActsAssumption DEF Init, TypeOK
<1>8. ReportSound
  BY <1>1, <1>4 DEF ReportSound
<1>9. UserSound
  BY <1>1, <1>5, <1>6 DEF Init, UserSound, Foreign
<1> QED
  BY <1>7, <1>8, <1>9 DEF HooksInv
-----------------------------------------------------------------------------
(* A merge takes out what it is told to and nothing else.                  *)
LEMMA Merged ==
    ASSUME NEW s \in [ok : BOOLEAN, hooks : SUBSET Tuples],
           NEW desired \in SUBSET Tuples, NEW previous, NEW remove \in BOOLEAN
    PROVE  LET after == MergeSettings(s, desired, previous, remove) IN
           /\ after \in [ok : BOOLEAN, hooks : SUBSET Tuples]
           /\ s.hooks \ (desired \cup previous) \subseteq after.hooks
BY DEF MergeSettings

(* A run that has ended plans nothing.                                     *)
LEMMA Forgotten ==
    ASSUME HooksInv, NEW p \in Runs
    PROVE  LET rest == [plan EXCEPT ![p] = NoPlan] IN
           rest \in [Runs -> Plans] /\ \A q \in Runs : Foreign(rest[q].tuples)
<1>1. NoPlan \in Plans /\ NoPlan.tuples = {}
  BY DEF NoPlan, Plans, NoReport, Report, Reports, NoCommand
<1> QED
  BY <1>1 DEF HooksInv, TypeOK, UserSound, Foreign

(* A commit takes out what a receipt or its plan names, never the user's.  *)
LEMMA CommitStep ==
    ASSUME HooksInv, NEW p \in Runs, Commit(p)
    PROVE  HooksInv'
<1> USE DEF HooksInv
<1> DEFINE desired == IF Op[p] = "guard" THEN {Guard(p), Usage(p)} ELSE plan[p].tuples
           after == MergeSettings(settings, desired, ReceiptHooks(report), Op[p] # "guard")
<1>1. desired \in SUBSET Tuples /\ Foreign(desired)
  BY Rendered DEF TypeOK, Plans, UserSound, Foreign
<1>2. ReceiptHooks(report) \subseteq Tuples /\ Foreign(ReceiptHooks(report))
  BY Proves
<1>3. /\ after \in [ok : BOOLEAN, hooks : SUBSET Tuples]
      /\ settings.hooks \ (desired \cup ReceiptHooks(report)) \subseteq after.hooks
  <2>1. settings \in [ok : BOOLEAN, hooks : SUBSET Tuples] /\ (Op[p] # "guard") \in BOOLEAN
    BY DEF TypeOK
  <2> HIDE DEF desired
  <2> QED
    BY <2>1, <1>1, Merged
<1>4. settings' = IF plan[p].settings THEN after ELSE settings
  BY DEF Commit
<1> HIDE DEF desired, after
<1>5. \A h \in mine : h \notin desired \cup ReceiptHooks(report)
  BY <1>1, <1>2, UserTuples DEF UserSound, Foreign
<1>6. mine' = mine /\ mine' \subseteq settings'.hooks
  BY <1>3, <1>4, <1>5 DEF Commit, UserSound
<1>p. plan' \in [Runs -> Plans] /\ \A q \in Runs : Foreign(plan'[q].tuples)
  BY Forgotten DEF Commit
<1>7. UserSound'
  BY <1>6, <1>p DEF UserSound
<1>8. ReportSound'
  BY NewReportSound DEF Commit, ReportSound
<1>9. TypeOK'
  <2>1. report' \in Reports
    BY NewReportSound DEF Commit
  <2>2. settings' \in [ok : BOOLEAN, hooks : SUBSET Tuples]
    BY <1>3, <1>4 DEF TypeOK
  <2>3. store' \in BOOLEAN /\ slipped' \in BOOLEAN
    BY DEF Commit, TypeOK
  <2>4. pc' \in [Runs -> {"idle", "planned", "done", "refused"}]
    BY DEF Commit, TypeOK, Goto
  <2> QED
    BY <2>1, <2>2, <2>3, <2>4, <1>6, <1>p DEF Commit, TypeOK
<1> QED
  BY <1>7, <1>8, <1>9

(* Runs that only read, and runs that are refused.                         *)
LEMMA ReadStep ==
    ASSUME HooksInv, NEW p \in Runs, Prepare(p) \/ Refuse(p) \/ CommitFails(p)
    PROVE  HooksInv'
<1> USE DEF HooksInv
<1>1. pc' \in [Runs -> {"idle", "planned", "done", "refused"}]
  BY DEF Prepare, Refuse, CommitFails, Goto, TypeOK
<1>2. UNCHANGED <<settings, report, store, mine, slipped, acts>>
  BY DEF Prepare, Refuse, CommitFails, fvars, uvars
<1>3. \/ plan' = plan
      \/ plan' = [plan EXCEPT ![p] = Adapter(p)]
      \/ plan' = [plan EXCEPT ![p] = NoPlan]
  BY DEF Prepare, Refuse, CommitFails
<1>4. plan' \in [Runs -> Plans] /\ \A q \in Runs : Foreign(plan'[q].tuples)
  BY <1>3, AdapterSound, Forgotten DEF TypeOK, UserSound
<1> QED
  BY <1>1, <1>2, <1>4 DEF TypeOK, ReportSound, UserSound

(* The user's own acts.                                                    *)
LEMMA UserStep ==
    ASSUME HooksInv, User
    PROVE  HooksInv'
<1> USE DEF HooksInv
<1>1. User => acts' = acts + 1 /\ acts < MaxActs /\ UNCHANGED <<pc, plan>>
  BY DEF User, AddHook, DropHook, MoveHook, CopyHook, Garble, LoseReport, LoseStore, Act
<1>2. acts' \in 0 .. MaxActs
  BY <1>1, ActsAssumption DEF TypeOK
<1>3. ASSUME NEW h \in UserHooks, AddHook(h) PROVE HooksInv'
  BY <1>1, <1>2, <1>3, UserTuples DEF AddHook, TypeOK, ReportSound, UserSound
<1>4. ASSUME NEW h \in settings.hooks, DropHook(h) PROVE HooksInv'
  BY <1>1, <1>2, <1>4 DEF DropHook, TypeOK, ReportSound, UserSound
<1>5. ASSUME NEW h \in settings.hooks, MoveHook(h) \/ CopyHook(h) PROVE HooksInv'
  <2>1. Elsewhere(h) \in Tuples
    BY DEF TypeOK, Tuples, Elsewhere
  <2>2. h \notin mine
    BY <1>5 DEF MoveHook, CopyHook, UserSound
  <2> QED
    BY <2>1, <2>2, <1>1, <1>2, <1>5 DEF MoveHook, CopyHook, TypeOK, ReportSound, UserSound
<1>6. ASSUME NEW k \in {"absent", "broken"}, LoseReport(k) PROVE HooksInv'
  <2>1. report' \in Reports /\ ReportSound'
    BY <1>6 DEF LoseReport, Report, Reports, NoCommand, ReportSound, Foreign
  <2>2. slipped' \in BOOLEAN
    BY <1>6 DEF LoseReport, TypeOK
  <2> QED
    BY <2>1, <2>2, <1>1, <1>2, <1>6 DEF LoseReport, TypeOK, UserSound
<1>7. CASE Garble
  BY <1>1, <1>2, <1>7 DEF Garble, TypeOK, ReportSound, UserSound
<1>8. CASE LoseStore
  BY <1>1, <1>2, <1>8 DEF LoseStore, TypeOK, ReportSound, UserSound
<1> QED
  BY <1>3, <1>4, <1>5, <1>6, <1>7, <1>8 DEF User

(* Every step keeps the invariant.                                         *)
LEMMA HooksStep == HooksInv /\ [Next]_vars => HooksInv'
<1> SUFFICES ASSUME HooksInv, [Next]_vars PROVE HooksInv'
  OBVIOUS
<1>1. CASE UNCHANGED vars
  BY <1>1 DEF vars, fvars, uvars, HooksInv, TypeOK, ReportSound, UserSound
<1> QED
  BY <1>1, CommitStep, ReadStep, UserStep DEF Next, Ended

(* Every variable keeps its type; with it, that an old receipt names a     *)
(* command (validated by claudeTransitionAction).                          *)
THEOREM HooksTyped == Spec => []TypeOK
<1>1. HooksInv => TypeOK
  BY DEF HooksInv
<1> QED
  BY HooksInit, HooksStep, <1>1, PTL DEF Spec

(* No run, whatever it read and whenever it commits, takes out a hook that *)
(* the user put into the settings (mergeSettings, previousGuardTuples).    *)
THEOREM HooksKept == Spec => []UserHooksKept
<1>1. HooksInv => UserHooksKept
  BY DEF HooksInv, UserSound, UserHooksKept
<1> QED
  BY HooksInit, HooksStep, <1>1, PTL DEF Spec
-----------------------------------------------------------------------------
(* Delete authority.  What a run plans to take out, the report it read     *)
(* first has a receipt for; and a receipt of the second version, whichever *)
(* run wrote it, names hooks under the Agent matcher only.                 *)
AgentOnly(r) == \A h \in r.hooks : h.matcher = "Agent"
PlansOwn ==
    /\ AgentOnly(report)
    /\ \A p \in Runs : AgentOnly(plan[p].read) /\ plan[p].tuples \subseteq ReceiptHooks(plan[p].read)

(* What a receipt proves, its report owns.                                 *)
LEMMA Receipted ==
    ASSUME NEW r \in Reports, AgentOnly(r), NEW h \in ReceiptHooks(r)
    PROVE  Owns(r, h)
BY DEF Owns, ReceiptHooks, AgentOnly

(* It holds on the machines a run may find.                                *)
LEMMA PlansOwnInit == Init => PlansOwn
BY DEF Init, Installed, NoReport, Report, NoPlan, PlansOwn, AgentOnly

LEMMA NothingPlanned ==
    NoPlan.tuples \subseteq ReceiptHooks(NoPlan.read) /\ AgentOnly(NoPlan.read)
BY DEF NoPlan, NoReport, Report, AgentOnly

(* A plan is made from the report that is there; reports are written whole. *)
LEMMA PlansOwnStep ==
    ASSUME HooksInv, PlansOwn, [Next]_vars
    PROVE  PlansOwn'
<1> USE DEF PlansOwn
<1>1. ASSUME NEW p \in Runs, Prepare(p) PROVE PlansOwn'
  <2>1. Adapter(p).tuples \subseteq ReceiptHooks(report) /\ Adapter(p).read = report
    BY DEF Adapter
  <2>2. \A q \in Runs : plan'[q] = IF q = p THEN Adapter(p) ELSE plan[q]
    BY <1>1 DEF Prepare, HooksInv, TypeOK
  <2>3. report' = report
    BY <1>1 DEF Prepare, fvars
  <2> QED
    BY <2>1, <2>2, <2>3
<1>2. ASSUME NEW p \in Runs, Refuse(p) \/ CommitFails(p) PROVE PlansOwn'
  <2>1. report' = report /\ \A q \in Runs : plan'[q] \in {plan[q], NoPlan}
    BY <1>2 DEF Refuse, CommitFails, fvars, HooksInv, TypeOK
  <2> QED
    BY <2>1, NothingPlanned
<1>3. ASSUME NEW p \in Runs, Commit(p) PROVE PlansOwn'
  <2>1. AgentOnly(NewReport(p))
    BY OpAssumption DEF NewReport, NoReport, Report, AgentOnly, Guard, Usage, Hook
  <2>2. report' = NewReport(p) /\ \A q \in Runs : plan'[q] \in {plan[q], NoPlan}
    BY <1>3 DEF Commit, HooksInv, TypeOK
  <2> QED
    BY <2>1, <2>2, NothingPlanned
<1>4. CASE User
  <2>1. plan' = plan
    BY <1>4 DEF User, AddHook, DropHook, MoveHook, CopyHook, Garble, LoseReport, LoseStore, Act
  <2>2. report' = report \/ report'.hooks = {}
    BY <1>4 DEF User, AddHook, DropHook, MoveHook, CopyHook, Garble, LoseReport, LoseStore, Report
  <2> QED
    BY <2>1, <2>2 DEF AgentOnly
<1>5. CASE UNCHANGED vars
  BY <1>5 DEF vars, fvars
<1> QED
  BY <1>1, <1>2, <1>3, <1>4, <1>5 DEF Next, Ended

(* What a merge takes out is desired, so that it comes back unless the     *)
(* merge is to remove, or it is what was there before.                     *)
LEMMA TakenOut ==
    ASSUME NEW s \in [ok : BOOLEAN, hooks : SUBSET Tuples],
           NEW desired, NEW previous, NEW remove \in BOOLEAN,
           NEW h \in s.hooks \ MergeSettings(s, desired, previous, remove).hooks
    PROVE  h \in previous \/ (remove /\ h \in desired)
BY DEF MergeSettings

(* Only a commit moves a run and takes hooks out, the run's own commit.    *)
LEMMA RemovalStep ==
    ASSUME HooksInv, PlansOwn, [Next]_vars, NEW p \in Runs, pc'[p] # pc[p],
           NEW h \in settings.hooks \ settings'.hooks
    PROVE  Owns(report, h) \/ Owns(plan[p].read, h)
<1>1. CASE Commit(p)
  <2> DEFINE desired == IF Op[p] = "guard" THEN {Guard(p), Usage(p)} ELSE plan[p].tuples
  <2>1. /\ plan[p].settings
        /\ settings' = MergeSettings(settings, desired, ReceiptHooks(report), Op[p] # "guard")
    BY <1>1 DEF Commit
  <2>2. settings \in [ok : BOOLEAN, hooks : SUBSET Tuples] /\ (Op[p] # "guard") \in BOOLEAN
    BY DEF HooksInv, TypeOK
  <2>3. h \in ReceiptHooks(report) \/ (Op[p] # "guard" /\ h \in desired)
    <3> HIDE DEF desired
    <3> QED
      BY <2>1, <2>2, TakenOut
  <2>4. h \in ReceiptHooks(report) \/ h \in plan[p].tuples
    BY <2>3
  <2>5. report \in Reports /\ plan[p].read \in Reports
    BY DEF HooksInv, TypeOK, Plans
  <2> QED
    BY <2>4, <2>5, Receipted DEF PlansOwn
<1>2. ASSUME NEW q \in Runs, Commit(q), q # p PROVE FALSE
  BY <1>2 DEF Commit, Goto, HooksInv, TypeOK
<1>3. ASSUME NEW q \in Runs, Prepare(q) \/ Refuse(q) \/ CommitFails(q) PROVE FALSE
  BY <1>3 DEF Prepare, Refuse, CommitFails, fvars
<1>4. CASE User
  BY <1>4 DEF User, AddHook, DropHook, MoveHook, CopyHook, Garble, LoseReport, LoseStore, Act
<1>5. CASE UNCHANGED vars
  BY <1>5 DEF vars, fvars
<1> QED
  BY <1>1, <1>2, <1>3, <1>4, <1>5 DEF Next, Ended

(* Whatever the interleaving of runs and user, a run takes a hook out only *)
(* if the report it read first, or the one it replaces, has a receipt for  *)
(* it (claudeTransitionAction, receiptAdapters, mergeSettings).            *)
THEOREM RemovalsAreReceipted == Spec => DeleteAuthority
<1>1. HooksInv /\ PlansOwn /\ [Next]_vars => HooksInv' /\ PlansOwn'
  BY HooksStep, PlansOwnStep
<1>2. HooksInv /\ PlansOwn /\ [Next]_vars
      => [\A p \in Runs : pc'[p] # pc[p] =>
            \A h \in settings.hooks \ settings'.hooks :
                Owns(report, h) \/ Owns(plan[p].read, h)]_vars
  BY RemovalStep
<1> QED
  BY HooksInit, PlansOwnInit, <1>1, <1>2, PTL DEF Spec, DeleteAuthority
-----------------------------------------------------------------------------
(* Nothing is left behind: HooksTracked is inductive.  A merge takes out   *)
(* all that the report it replaces proves, which is all there is, and what *)
(* it puts in the new report proves; a run that leaves the settings alone  *)
(* replaces a report that proves nothing there, or the report has slipped. *)
Owned(hs) == {h \in hs : h.matcher = "Agent" /\ h.command.by # "user"}

(* The machines that a run may find without anything having slipped.       *)
LEMMA Found ==
    ASSUME Init, ~slipped
    PROVE  /\ settings.ok /\ store
           /\ \/ /\ report.kind = "absent" /\ report.hooks = {}
                 /\ settings.hooks = {Hook("Pre", "user", 0)}
              \/ /\ report.kind \in {"legacy", "managed1"} /\ report.guard = Guard(0).command
                 /\ settings.hooks = {Guard(0), Hook("Pre", "user", 0)}
<1>1. PICK i \in Installed :
        /\ report = i[1]
        /\ settings = [ok |-> TRUE, hooks |-> i[2] \cup {Hook("Pre", "user", 0)}]
        /\ slipped = (i[1].kind \in {"bare", "guidance"})
  BY DEF Init
<1>2. i[1].kind \notin {"bare", "guidance"}
  BY <1>1
<1>3. CASE i = <<NoReport, {}>>
  BY <1>1, <1>3 DEF Init, NoReport, Report
<1>4. CASE i = <<Report("bare", NoCommand, {}), {Guard(0)}>>
  BY <1>2, <1>4 DEF Report
<1>5. ASSUME NEW k \in {"legacy", "managed1", "guidance"},
             i = <<Report(k, Guard(0).command, {}), {Guard(0)}>>
      PROVE  /\ report.kind \in {"legacy", "managed1"} /\ report.guard = Guard(0).command
             /\ settings.hooks = {Guard(0), Hook("Pre", "user", 0)}
  <2>1. i[1].kind = k /\ i[1].guard = Guard(0).command /\ i[2] = {Guard(0)}
    BY <1>5 DEF Report
  <2>2. settings.hooks = {Guard(0)} \cup {Hook("Pre", "user", 0)}
    BY <1>1, <2>1
  <2> QED
    BY <1>1, <1>2, <2>1, <2>2
<1> QED
  BY <1>1, <1>3, <1>4, <1>5 DEF Init, Installed

LEMMA TrackedInit == Init => HooksTracked
<1> SUFFICES ASSUME Init, ~slipped PROVE HooksTracked
  BY DEF HooksTracked
<1>1. Hook("Pre", "user", 0).command.by = "user"
  BY DEF Hook
<1>2. Guard(0) = [event |-> "Pre", matcher |-> "Agent", command |-> Guard(0).command]
  BY DEF Guard, Hook
<1> QED
  BY Found, <1>1, <1>2 DEF HooksTracked, ReceiptHooks

LEMMA TrackedCommit ==
    ASSUME HooksInv, HooksTracked, NEW p \in Runs, Commit(p)
    PROVE  HooksTracked'
<1>1. CASE plan[p].settings /\ ~slipped
  <2> DEFINE desired == IF Op[p] = "guard" THEN {Guard(p), Usage(p)} ELSE plan[p].tuples
             put == IF Op[p] # "guard" THEN {} ELSE desired
  <2>1. settings'.hooks = (settings.hooks \ (desired \cup ReceiptHooks(report))) \cup put
    BY <1>1 DEF Commit, MergeSettings, HooksInv, TypeOK
  <2>2. put \subseteq ReceiptHooks(NewReport(p))
    BY DEF NewReport, Report, ReceiptHooks
  <2>3. Owned(settings.hooks) \subseteq ReceiptHooks(report)
    BY <1>1 DEF HooksTracked, Owned
  <2>4. Owned(settings'.hooks) \subseteq put
    <3> HIDE DEF put, desired
    <3> QED
      BY <2>1, <2>3 DEF Owned
  <2>5. report' = NewReport(p)
    BY DEF Commit
  <2> QED
    BY <2>2, <2>4, <2>5 DEF HooksTracked, Owned
<1>2. CASE ~plan[p].settings
  BY <1>2 DEF Commit, HooksTracked
<1>3. CASE slipped
  BY <1>3 DEF Commit, HooksTracked
<1> QED
  BY <1>1, <1>2, <1>3 DEF HooksInv, TypeOK, Plans

LEMMA TrackedUser ==
    ASSUME HooksInv, HooksTracked, User
    PROVE  HooksTracked'
<1> USE DEF HooksInv, HooksTracked
<1>1. ASSUME NEW h \in UserHooks, AddHook(h) PROVE HooksTracked'
  BY <1>1, UserTuples DEF AddHook, TypeOK
<1>2. ASSUME NEW h \in settings.hooks, DropHook(h) PROVE HooksTracked'
  BY <1>2 DEF DropHook, TypeOK
<1>3. ASSUME NEW h \in settings.hooks, MoveHook(h) \/ CopyHook(h) PROVE HooksTracked'
  <2>1. Elsewhere(h).matcher # "Agent"
    BY DEF TypeOK, Tuples, Elsewhere
  <2> QED
    BY <2>1, <1>3 DEF MoveHook, CopyHook, TypeOK
<1>4. ASSUME NEW k \in {"absent", "broken"}, LoseReport(k) PROVE HooksTracked'
  BY <1>4 DEF LoseReport
<1>5. CASE Garble
  BY <1>5 DEF Garble, TypeOK
<1>6. CASE LoseStore
  BY <1>6 DEF LoseStore
<1> QED
  BY <1>1, <1>2, <1>3, <1>4, <1>5, <1>6 DEF User

LEMMA TrackedStep ==
    ASSUME HooksInv, HooksTracked, [Next]_vars
    PROVE  HooksTracked'
<1>1. ASSUME NEW p \in Runs, Prepare(p) \/ Refuse(p) \/ CommitFails(p) PROVE HooksTracked'
  BY <1>1 DEF Prepare, Refuse, CommitFails, fvars, uvars, HooksTracked
<1>2. CASE UNCHANGED vars
  BY <1>2 DEF vars, fvars, uvars, HooksTracked
<1> QED
  BY <1>1, <1>2, TrackedCommit, TrackedUser DEF Next, Ended

(* Until a report slips, every hook that a run put in the settings is      *)
(* named by the report on disk, whatever runs overlap (mergeSettings,      *)
(* previousGuardTuples).                                                   *)
THEOREM HooksNamed == Spec => []HooksTracked
<1>1. HooksInv /\ HooksTracked /\ [Next]_vars => HooksInv' /\ HooksTracked'
  BY HooksStep, TrackedStep
<1> QED
  BY HooksInit, TrackedInit, <1>1, PTL DEF Spec
-----------------------------------------------------------------------------
(* Nobody is locked out.  While the user did nothing and no report slipped, *)
(* what the report proves is in the settings; a run that writes a receipt  *)
(* has the settings in its plan.                                           *)
Orderly ==
    acts = 0 /\ ~slipped =>
        /\ settings.ok /\ store
        /\ report.kind \notin {"broken", "bare"}
        /\ report.kind = "guidance" => report.guard = NoCommand
        /\ report.kind = "managed2" => report.hooks # {}
        /\ ReceiptHooks(report) \subseteq settings.hooks
GuardsPlan == \A p \in Runs : pc[p] = "planned" /\ Op[p] = "guard" => plan[p].settings

LEMMA OrderlyInit == Init => Orderly /\ GuardsPlan
<1> SUFFICES ASSUME Init PROVE Orderly /\ GuardsPlan
  OBVIOUS
<1>1. GuardsPlan
  BY DEF Init, GuardsPlan
<1>2. Guard(0) = [event |-> "Pre", matcher |-> "Agent", command |-> Guard(0).command]
  BY DEF Guard, Hook
<1>3. Orderly
  BY Found, <1>2 DEF Orderly, ReceiptHooks
<1> QED
  BY <1>1, <1>3

LEMMA OrderlyCommit ==
    ASSUME HooksInv, Orderly, GuardsPlan, NEW p \in Runs, Commit(p)
    PROVE  Orderly'
<1> SUFFICES ASSUME acts = 0, ~slipped PROVE Orderly'
  BY DEF Commit, Orderly
<1>1. settings.ok /\ store
  BY DEF Orderly
<1>2. settings'.ok /\ store'
  BY <1>1 DEF Commit, MergeSettings, HooksInv, TypeOK
<1>3. report' = NewReport(p)
  BY DEF Commit
<1>4. CASE Op[p] = "guard"
  <2>1. plan[p].settings
    BY <1>4 DEF Commit, Goto, GuardsPlan
  <2>2. {Guard(p), Usage(p)} \subseteq settings'.hooks
    BY <1>4, <2>1 DEF Commit, MergeSettings, HooksInv, TypeOK
  <2> QED
    BY <1>2, <1>3, <1>4, <2>2 DEF NewReport, Report, ReceiptHooks, Orderly
<1>5. CASE Op[p] # "guard"
  <2>1. /\ report'.kind \in {"guidance", "absent"} /\ report'.guard = NoCommand
        /\ ReceiptHooks(report') = {}
    BY <1>3, <1>5, OpAssumption DEF NewReport, NoReport, Report, ReceiptHooks
  <2> QED
    BY <1>2, <2>1 DEF Orderly
<1> QED
  BY <1>4, <1>5

LEMMA OrderlyStep ==
    ASSUME HooksInv, Orderly, GuardsPlan, [Next]_vars
    PROVE  Orderly' /\ GuardsPlan'
<1>1. ASSUME NEW p \in Runs, Prepare(p) PROVE Orderly' /\ GuardsPlan'
  <2>1. Orderly'
    BY <1>1 DEF Prepare, fvars, uvars, Orderly
  <2>2. Op[p] = "guard" => Adapter(p).settings
    BY DEF Adapter
  <2> QED
    BY <1>1, <2>1, <2>2 DEF Prepare, Goto, GuardsPlan, HooksInv, TypeOK
<1>2. ASSUME NEW p \in Runs, Refuse(p) \/ CommitFails(p) PROVE Orderly' /\ GuardsPlan'
  BY <1>2 DEF Refuse, CommitFails, Goto, fvars, uvars, Orderly, GuardsPlan, HooksInv, TypeOK
<1>3. ASSUME NEW p \in Runs, Commit(p) PROVE Orderly' /\ GuardsPlan'
  BY <1>3, OrderlyCommit DEF Commit, Goto, GuardsPlan, HooksInv, TypeOK
<1>4. CASE User
  <2>1. acts' = acts + 1 /\ UNCHANGED <<pc, plan>>
    BY <1>4 DEF User, AddHook, DropHook, MoveHook, CopyHook, Garble, LoseReport, LoseStore, Act
  <2>2. acts' # 0
    BY <2>1 DEF HooksInv, TypeOK
  <2> QED
    BY <2>1, <2>2 DEF Orderly, GuardsPlan
<1>5. CASE UNCHANGED vars
  BY <1>5 DEF vars, fvars, uvars, Orderly, GuardsPlan
<1> QED
  BY <1>1, <1>2, <1>3, <1>4, <1>5 DEF Next, Ended

(* What is proved is never refused.                                        *)
LEMMA OrderlyAccepted ==
    ASSUME HooksInv, Orderly, acts = 0, ~slipped, NEW p \in Runs, Refused(p)
    PROVE  Op[p] = "uninstall" /\ report.kind = "absent"
<1>1. report.kind \in {"absent", "legacy", "guidance", "managed1", "managed2"}
  BY DEF HooksInv, TypeOK, Reports, Versioned, Orderly
<1>2. report.kind \notin {"absent", "guidance"} => ~Unproven(report, settings)
  BY <1>1 DEF Orderly, Unproven, HasHookTuples, ReceiptHooks
<1>3. report.kind = "guidance" => ~StaleCommand(report, settings)
  BY DEF Orderly, StaleCommand
<1>4. ~InstallRefused
  BY <1>1, <1>2 DEF InstallRefused, Orderly
<1> QED
  BY <1>2, <1>3, <1>4 DEF Refused, UninstallRefused

(* While the user leaves report and hooks alone, no run is refused at its  *)
(* first read but the uninstall of nothing, whatever runs went before or   *)
(* overlap (claudeTransitionAction, receiptAdapters).                      *)
THEOREM AlwaysAWayOut == Spec => NeverLockedOut
<1> DEFINE Inv == HooksInv /\ Orderly /\ GuardsPlan
<1>1. Init => Inv
  BY HooksInit, OrderlyInit
<1>2. Inv /\ [Next]_vars => Inv'
  BY HooksStep, OrderlyStep
<1>3. Inv /\ [Next]_vars
      => [\A p \in Runs : pc[p] = "idle" /\ pc'[p] = "refused" =>
            acts > 0 \/ slipped \/ (Op[p] = "uninstall" /\ report.kind = "absent")]_vars
  <2> SUFFICES ASSUME Inv, [Next]_vars, NEW p \in Runs, pc[p] = "idle", pc'[p] = "refused"
               PROVE  acts > 0 \/ slipped \/ (Op[p] = "uninstall" /\ report.kind = "absent")
    OBVIOUS
  <2>1. Refuse(p)
    <3>1. User => UNCHANGED pc
      BY DEF User, AddHook, DropHook, MoveHook, CopyHook, Garble, LoseReport, LoseStore, Act
    <3>2. ASSUME NEW q \in Runs, Prepare(q) \/ Refuse(q) \/ Commit(q) \/ CommitFails(q)
          PROVE  Refuse(p)
      BY <3>2 DEF Prepare, Refuse, Commit, CommitFails, Goto, HooksInv, TypeOK
    <3> QED
      BY <3>1, <3>2 DEF Next, Ended, vars
  <2>2. acts \in Nat /\ slipped \in BOOLEAN
    BY ActsAssumption DEF HooksInv, TypeOK
  <2> QED
    BY <2>1, <2>2, OrderlyAccepted DEF Refuse
<1> QED
  BY <1>1, <1>2, <1>3, PTL DEF Spec, NeverLockedOut
-----------------------------------------------------------------------------
(* What is left of what is uninstalled.  A command in the settings was put *)
(* there by a run that is done; so that an uninstall whose settings are as *)
(* it saw them knows every hook the report names, or the report is of a    *)
(* run that came between and has nothing there.                            *)
Nameless(r) == r.kind \in {"absent", "broken", "bare"} \/ r = Report("guidance", NoCommand, {})
Early(r) == r.kind \in {"legacy", "managed1", "guidance"} /\ r = Report(r.kind, Guard(0).command, {})
Of(r, q) == Op[q] = "guard" /\ r = NewReport(q)
Written(r) == Nameless(r) \/ Early(r) \/ \E q \in Runs : Of(r, q)

Ours(hs) == {h \in hs : h.command.by # "user"}
Dated(hs) == \A h \in Ours(hs) :
    h.command.run = 0 \/ (h.command.run \in Runs /\ pc[h.command.run] = "done")

Accepted(r, s) ==
    /\ r.kind \notin {"absent", "broken", "bare"}
    /\ IF r.kind = "guidance" THEN ~StaleCommand(r, s) ELSE ReceiptHooks(r) \subseteq s.hooks
Fits(p) == pc[p] = "planned" /\ Op[p] = "uninstall" =>
    /\ Dated(plan[p].seen.hooks)
    /\ Written(plan[p].read) /\ Accepted(plan[p].read, plan[p].seen)
    /\ plan[p].settings = (plan[p].read.kind # "guidance")
    /\ \/ Nameless(report) \/ report = plan[p].read
       \/ \E q \in Runs : Of(report, q) /\ \A h \in Ours(plan[p].seen.hooks) : h.command.run # q
CleanInv ==
    Dated(settings.hooks) /\ Written(report) /\ \A p \in Runs : Fits(p)

LEMMA CleanInit == Init => CleanInv
<1> SUFFICES ASSUME Init PROVE CleanInv
  OBVIOUS
<1>1. PICK i \in Installed : report = i[1] /\ settings.hooks = i[2] \cup {Hook("Pre", "user", 0)}
  BY DEF Init
<1>2. Written(i[1]) /\ i[2] \subseteq {Guard(0)}
  <2>1. CASE i = <<NoReport, {}>> \/ i = <<Report("bare", NoCommand, {}), {Guard(0)}>>
    BY <2>1 DEF NoReport, Report, Written, Nameless
  <2>2. ASSUME NEW k \in {"legacy", "managed1", "guidance"},
               i = <<Report(k, Guard(0).command, {}), {Guard(0)}>>
        PROVE  Written(i[1]) /\ i[2] \subseteq {Guard(0)}
    <3>1. i[1] = Report(k, Guard(0).command, {}) /\ i[1].kind = k /\ i[2] = {Guard(0)}
      BY <2>2 DEF Report
    <3> QED
      BY <3>1 DEF Written, Early
  <2> QED
    BY <2>1, <2>2 DEF Installed
<1>3. Ours(settings.hooks) \subseteq {Guard(0)} /\ Guard(0).command.run = 0
  BY <1>1, <1>2 DEF Ours, Guard, Hook
<1>4. \A p \in Runs : Fits(p)
  BY DEF Init, Fits
<1> QED
  BY <1>1, <1>2, <1>3, <1>4 DEF CleanInv, Dated

LEMMA CleanCommit ==
    ASSUME HooksInv, CleanInv, NEW p \in Runs, Commit(p)
    PROVE  CleanInv'
<1>1. /\ pc[p] = "planned" /\ \A q \in Runs : pc'[q] = IF q = p THEN "done" ELSE pc[q]
      /\ (\A q \in Runs : q # p => plan'[q] = plan[q]) /\ report' = NewReport(p)
  BY DEF Commit, Goto, HooksInv, TypeOK
<1>2. \A hs : Dated(hs) => Dated(hs)'
  BY <1>1 DEF Dated
<1>3. Nameless(report') \/ Of(report', p)
  <2>1. CASE Op[p] = "guard"
    BY <1>1, <2>1 DEF Of
  <2>2. CASE Op[p] # "guard"
    BY <1>1, <2>2, OpAssumption DEF NewReport, NoReport, Report, Nameless
  <2> QED
    BY <2>1, <2>2
<1>4. Dated(settings.hooks)'
  <2>1. CASE Op[p] = "guard"
    <3>1. settings'.hooks \subseteq settings.hooks \cup {Guard(p), Usage(p)}
      BY <2>1 DEF Commit, MergeSettings, HooksInv, TypeOK
    <3>2. /\ Guard(p).command # Usage(p).command
          /\ Guard(p).command.run = p /\ Usage(p).command.run = p
      BY DEF Guard, Usage, Hook
    <3>4. Ours(settings'.hooks) \subseteq Ours(settings.hooks) \cup {Guard(p), Usage(p)}
      BY <3>1 DEF Ours
    <3> QED
      BY <1>1, <3>2, <3>4 DEF CleanInv, Dated
  <2>2. CASE Op[p] # "guard"
    <3>1. settings'.hooks \subseteq settings.hooks
      BY <2>2 DEF Commit, MergeSettings, HooksInv, TypeOK
    <3>2. Ours(settings'.hooks) \subseteq Ours(settings.hooks)
      BY <3>1 DEF Ours
    <3> QED
      BY <1>1, <3>2 DEF CleanInv, Dated, Ours
  <2> QED
    BY <2>1, <2>2
<1>5. ASSUME NEW q \in Runs PROVE Fits(q)'
  <2>1. CASE q = p
    BY <1>1, <2>1 DEF Fits
  <2>2. CASE q # p /\ pc[q] = "planned" /\ Op[q] = "uninstall"
    <3>1. \A h \in Ours(plan[q].seen.hooks) : h.command.run # p
      BY <1>1, <2>2, RunsAssumption DEF CleanInv, Fits, Dated
    <3>2. Dated(plan[q].seen.hooks)'
      BY <1>1, <1>2, <2>2 DEF CleanInv, Fits, Dated, Ours
    <3> QED
      BY <1>1, <1>3, <2>2, <3>1, <3>2 DEF CleanInv, Fits, Ours, Of, Nameless
  <2>3. CASE q # p /\ ~(pc[q] = "planned" /\ Op[q] = "uninstall")
    BY <1>1, <2>3 DEF Fits
  <2> QED
    BY <2>1, <2>2, <2>3
<1> QED
  BY <1>3, <1>4, <1>5 DEF CleanInv, Written

LEMMA CleanUser ==
    ASSUME HooksInv, CleanInv, User
    PROVE  CleanInv'
<1>1. UNCHANGED <<pc, plan>> /\ (report' = report \/ Nameless(report'))
  BY DEF User, AddHook, DropHook, MoveHook, CopyHook, Garble, LoseReport, LoseStore, Act, Nameless, Report
<1>2. Dated(settings.hooks)'
  <2>1. CASE settings'.hooks \subseteq settings.hooks
    <3>1. Ours(settings'.hooks) \subseteq Ours(settings.hooks)
      BY <2>1 DEF Ours
    <3> QED
      BY <1>1, <3>1 DEF CleanInv, Dated, Ours
  <2>2. ASSUME NEW h \in UserHooks, AddHook(h) PROVE Dated(settings.hooks)'
    <3>1. settings'.hooks = settings.hooks \cup {h} /\ h.command.by = "user"
      BY <2>2, UserTuples DEF AddHook, HooksInv, TypeOK
    <3>2. Ours(settings'.hooks) = Ours(settings.hooks)
      BY <3>1 DEF Ours
    <3> QED
      BY <1>1, <3>2 DEF CleanInv, Dated, Ours
  <2>3. ASSUME NEW h \in settings.hooks, MoveHook(h) \/ CopyHook(h) PROVE Dated(settings.hooks)'
    <3>1. settings'.hooks \subseteq settings.hooks \cup {Elsewhere(h)}
      BY <2>3 DEF MoveHook, CopyHook, HooksInv, TypeOK
    <3>2. Elsewhere(h).command = h.command
      BY DEF HooksInv, TypeOK, Tuples, Elsewhere
    <3> QED
      BY <1>1, <3>1, <3>2 DEF CleanInv, Dated, Ours
  <2>4. ASSUME NEW h \in settings.hooks, DropHook(h) PROVE settings'.hooks \subseteq settings.hooks
    BY <2>4 DEF DropHook, HooksInv, TypeOK
  <2>5. CASE Garble \/ LoseStore \/ \E k \in {"absent", "broken"} : LoseReport(k)
    BY <2>1, <2>5 DEF Garble, LoseStore, LoseReport, HooksInv, TypeOK
  <2> QED
    BY <2>1, <2>2, <2>3, <2>4, <2>5 DEF User
<1>3. ASSUME NEW q \in Runs PROVE Fits(q)'
  <2>1. CASE report' = report
    BY <1>1, <2>1 DEF CleanInv, Fits, Dated, Ours, Of, Nameless, Written, Early
  <2>2. CASE Nameless(report')
    BY <1>1, <2>2 DEF CleanInv, Fits, Dated, Ours, Of, Nameless, Written, Early
  <2> QED
    BY <1>1, <2>1, <2>2
<1>4. Written(report')
  BY <1>1 DEF CleanInv, Written
<1> QED
  BY <1>2, <1>3, <1>4 DEF CleanInv, Written

LEMMA CleanPrepare ==
    ASSUME HooksInv, CleanInv, NEW p \in Runs, Prepare(p)
    PROVE  CleanInv'
<1>1. /\ ~Refused(p) /\ pc[p] = "idle" /\ UNCHANGED <<settings, report>>
      /\ \A q \in Runs : pc'[q] = IF q = p THEN "planned" ELSE pc[q]
      /\ \A q \in Runs : plan'[q] = IF q = p THEN Adapter(p) ELSE plan[q]
  BY DEF Prepare, Goto, HooksInv, TypeOK, fvars
<1>2. Dated(settings.hooks) => Dated(settings.hooks)'
  BY <1>1 DEF Dated, Ours
<1>3. ASSUME NEW q \in Runs, q # p PROVE Fits(q)'
  <2>1. Dated(plan[q].seen.hooks) => Dated(plan[q].seen.hooks)'
    BY <1>1, <1>3 DEF Dated, Ours
  <2> QED
    BY <1>1, <1>3, <2>1 DEF CleanInv, Fits, Ours, Of, Nameless, Written, Early
<1>4. ASSUME Op[p] = "uninstall" PROVE Fits(p)'
  <2>1. Adapter(p).seen = settings /\ Adapter(p).read = report
        /\ Adapter(p).settings = (report.kind # "guidance")
    BY <1>4 DEF Adapter
  <2>2. Accepted(report, settings)
    BY <1>1, <1>4 DEF Refused, UninstallRefused, Unproven, HasHookTuples, ReceiptHooks, Accepted
  <2>3. Dated(plan[p].seen.hooks)'
    BY <1>1, <1>2, <2>1 DEF CleanInv, Dated, Ours
  <2> QED
    BY <1>1, <2>1, <2>2, <2>3 DEF CleanInv, Fits, Ours
<1> QED
  BY <1>1, <1>2, <1>3, <1>4 DEF CleanInv, Fits, Ours

LEMMA CleanStep ==
    ASSUME HooksInv, CleanInv, [Next]_vars
    PROVE  CleanInv'
<1>1. ASSUME NEW p \in Runs, Refuse(p) \/ CommitFails(p) PROVE CleanInv'
  <2>1. /\ UNCHANGED <<settings, report>> /\ \A q \in Runs : q # p => plan'[q] = plan[q]
        /\ pc[p] # "done" /\ \A q \in Runs : pc'[q] = IF q = p THEN "refused" ELSE pc[q]
    BY <1>1 DEF Refuse, CommitFails, Goto, fvars, HooksInv, TypeOK
  <2> QED
    BY <2>1 DEF CleanInv, Fits, Dated, Ours
<1>2. CASE UNCHANGED vars
  BY <1>2 DEF vars, fvars, CleanInv, Fits, Dated, Ours
<1> QED
  BY <1>1, <1>2, CleanCommit, CleanUser, CleanPrepare DEF Next, Ended

(* What an uninstall leaves.                                               *)
LEMMA LeavesCopies ==
    ASSUME HooksInv, CleanInv, NEW p \in Runs, Op[p] = "uninstall", Commit(p), plan[p].seen = settings,
           NEW h \in settings'.hooks
    PROVE  Names(report, h) => h.matcher # "Agent" /\ Original(h) \in settings.hooks
<1> SUFFICES ASSUME Names(report, h) PROVE h.matcher # "Agent" /\ Original(h) \in settings.hooks
  OBVIOUS
<1>1. pc[p] = "planned" /\ Fits(p)
  BY DEF Commit, Goto, CleanInv
<1>2. h \in settings.hooks /\ h \in Tuples /\ h.command # NoCommand
  <2>1. h \in settings.hooks
    BY DEF Commit, MergeSettings, HooksInv, TypeOK
  <2> QED
    BY <2>1 DEF HooksInv, TypeOK, Tuples, Commands, NoCommand
<1>3. ~Nameless(report)
  BY <1>2 DEF Nameless, Names, Report
<1>4. h \in Ours(settings.hooks)
  BY <1>2 DEF Names, HooksInv, ReportSound, Foreign, Ours
<1>5. ASSUME NEW q \in Runs, Of(report, q)
      PROVE  /\ h.command = Guard(q).command \/ h.command = Usage(q).command
             /\ h.command.run = q
             /\ ReceiptHooks(report) = {Guard(q), Usage(q)} /\ report.kind = "managed2"
  <2>1. report = Report("managed2", Guard(q).command, {Guard(q), Usage(q)})
    BY <1>5 DEF Of, NewReport
  <2>2. h.command = Guard(q).command \/ h.command = Usage(q).command
    BY <2>1 DEF Names, Report
  <2>3. Guard(q).command.run = q /\ Usage(q).command.run = q
    BY DEF Guard, Usage, Hook
  <2> QED
    BY <2>1, <2>2, <2>3 DEF ReceiptHooks, Report
<1>6. report = plan[p].read
  BY <1>1, <1>3, <1>4, <1>5 DEF Fits
<1>7. Accepted(report, settings) /\ plan[p].settings = (report.kind # "guidance")
  BY <1>1, <1>6 DEF Fits
<1>8. h \notin ReceiptHooks(report) \/ report.kind = "guidance"
  BY <1>7 DEF Commit, MergeSettings, HooksInv, TypeOK
<1>o. Original(h) = [event |-> h.event, matcher |-> "Agent", command |-> h.command]
      /\ (h.matcher = "Agent" => Original(h) = h)
  BY <1>2 DEF Original, Tuples
<1>9. CASE Early(report)
  <2>1. h.event = "Pre" /\ h.command = Guard(0).command /\ report.guard = Guard(0).command
    BY <1>9 DEF Early, Names, Report
  <2>2. CASE report.kind = "guidance"
    BY <1>2, <1>7, <2>1, <2>2 DEF Accepted, StaleCommand
  <2>3. CASE report.kind \in {"legacy", "managed1"}
    <3>1. ReceiptHooks(report) = {Guard(0)}
      BY <2>1, <2>3 DEF ReceiptHooks, Guard, Hook
    <3>2. Guard(0) \in settings.hooks
      BY <1>7, <2>3, <3>1 DEF Accepted
    <3>3. Original(h) = Guard(0)
      BY <1>o, <2>1 DEF Guard, Hook
    <3> QED
      BY <1>8, <1>o, <2>3, <3>1, <3>2, <3>3
  <2> QED
    BY <1>9, <2>2, <2>3 DEF Early
<1>10. ASSUME NEW q \in Runs, Of(report, q)
       PROVE  h.matcher # "Agent" /\ Original(h) \in settings.hooks
  <2>1. Guard(q) \in settings.hooks /\ Usage(q) \in settings.hooks
    BY <1>5, <1>7, <1>10 DEF Accepted
  <2>2. report = Report("managed2", Guard(q).command, {Guard(q), Usage(q)})
    BY <1>10 DEF Of, NewReport
  <2>3. \/ h.event = Guard(q).event /\ h.command = Guard(q).command
        \/ h.event = Usage(q).event /\ h.command = Usage(q).command
    BY <2>2 DEF Names, Report, Guard, Hook
  <2>4. Original(h) \in {Guard(q), Usage(q)}
    BY <1>o, <2>3 DEF Guard, Usage, Hook
  <2> QED
    BY <1>5, <1>8, <1>10, <1>o, <2>1, <2>4
<1> QED
  BY <1>3, <1>9, <1>10 DEF CleanInv, Written

(* An uninstall that finds the settings as it saw them leaves no hook that *)
(* the report names under the Agent matcher; what it leaves with a command *)
(* the report names is a copy, put elsewhere by the user, of a hook that   *)
(* stood in the settings until this step (receiptAdapters, hasHookTuples,  *)
(* mergeSettings).                                                         *)
THEOREM OnlyCopiesStay == Spec => UninstallClean
<1> DEFINE Inv == HooksInv /\ CleanInv
<1>1. Init => Inv
  BY HooksInit, CleanInit
<1>2. Inv /\ [Next]_vars => Inv'
  BY HooksStep, CleanStep
<1>3. Inv /\ [Next]_vars
      => [\A p \in Runs : Op[p] = "uninstall" /\ pc'[p] # pc[p] /\ pc'[p] = "done" /\ plan[p].seen = settings
            => \A h \in settings'.hooks : Names(report, h) =>
                   h.matcher # "Agent" /\ Original(h) \in settings.hooks]_vars
  <2> SUFFICES ASSUME Inv, [Next]_vars, NEW p \in Runs, Op[p] = "uninstall", pc'[p] # pc[p],
                      pc'[p] = "done", plan[p].seen = settings, NEW h \in settings'.hooks
               PROVE  Names(report, h) => h.matcher # "Agent" /\ Original(h) \in settings.hooks
    OBVIOUS
  <2>1. Commit(p)
    <3>1. User => UNCHANGED pc
      BY DEF User, AddHook, DropHook, MoveHook, CopyHook, Garble, LoseReport, LoseStore, Act
    <3>2. ASSUME NEW q \in Runs, Prepare(q) \/ Refuse(q) \/ Commit(q) \/ CommitFails(q)
          PROVE  Commit(p)
      BY <3>2 DEF Prepare, Refuse, Commit, CommitFails, Goto, HooksInv, TypeOK
    <3> QED
      BY <3>1, <3>2 DEF Next, Ended, vars
  <2> QED
    BY <2>1, LeavesCopies
<1> QED
  BY <1>1, <1>2, <1>3, PTL DEF Spec, UninstallClean
=============================================================================
