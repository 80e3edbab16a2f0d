------------------------------ MODULE SpawnProofs -----------------------------
(***************************************************************************)
(* Theorems of SpawnGuard: for every number of roots, every set of         *)
(* contracts, defaults, models and calls, and any number of writes and of  *)
(* damage.                                                                 *)
(***************************************************************************)
EXTENDS SpawnGuard, TLAPS

(* A step of the guard leaves the disk, a step of a writer the guard.      *)
LEMMA NextCases ==
    ASSUME [Next]_vars
    PROVE \/ Unresolvable \/ ReadReport \/ LoadContract \/ LoadDefaults
          \/ \E in \in Calls : Judge(in)
          \/ \E r \in Roots : \/ \E c \in Contracts, d \in Defaults \cup {None} : Begin(r, c, d)
                              \/ PutSnapshots(r) \/ PutReport(r) \/ Complete(r)
                              \/ RestoreReport(r) \/ RestoreStore(r) \/ TakeReport(r) \/ PutBack(r) \/ Reclaim(r)
                              \/ \E state \in {"locked", "bad"} : HarmReport(r, state)
                              \/ \E s \in Snapshots : HarmSnapshot(r, s)
          \/ UNCHANGED vars
BY DEF Next, Guard, Writer, Outside, Decided

LEMMA PointersReport ==
    ASSUME NEW c \in Contracts, NEW d \in Defaults \cup {None}, Routable(c, d)
    PROVE Pointers(c, d) \in Reports
<1>1. Routes(c, d) \in [Roles -> Models \cup {None}]
    BY DEF Routes, Routable
<1> QED BY <1>1 DEF Pointers, Reports

LEMMA NoReportReport == NoReport \in Reports
BY DEF NoReport, Reports

(* An install that projects its contract can route it.                     *)
LEMMA ProjectsRoutes ==
    ASSUME NEW c \in Contracts, NEW d \in Defaults \cup {None}, Projects(c, d)
    PROVE Routable(c, d)
BY RouteAssumption DEF Projects, Routable, Managed, Route
-----------------------------------------------------------------------------
(* The type of every variable.  A guard's read and a writer's step each    *)
(* touch few of them.                                                      *)
DiskType == report \in [Roots -> Reports] /\ store \in [Roots -> [Snapshots -> States]]
Jobs == [step : {"idle", "stores", "report", "landed", "undo", "reclaim"},
         new : Reports, old : Reports, kept : [Snapshots -> States]]
GuardType ==
    /\ pc \in {"walk", "contract", "defaults", "judge", "done"} /\ at \in Roots
    /\ got \in Reports /\ loaded \in Contracts \cup {None}
    /\ input \in Inputs /\ out.decision \in {"none", "allow", "deny"}
HistoryType == steady \subseteq Roots /\ removed \in BOOLEAN /\ changes \in Nat
BoundsType == writes \in Nat /\ harms \in Nat

LEMMA TypeParts ==
    /\ TypeOK <=> DiskType /\ job \in [Roots -> Jobs] /\ GuardType /\ HistoryType /\ BoundsType
    /\ TypeOK' <=> DiskType' /\ job' \in [Roots -> Jobs] /\ GuardType' /\ HistoryType' /\ BoundsType'
BY DEF TypeOK, DiskType, Jobs, GuardType, HistoryType, BoundsType

LEMMA IdleJob == Idle \in Jobs
BY NoReportReport DEF Idle, Jobs, States

LEMMA NoCallInput == NoCall \in Inputs
BY DEF NoCall, Inputs

(* What the guard says is a verdict.                                       *)
LEMMA EvaluateDecides ==
    ASSUME NEW in, NEW c, NEW d
    PROVE Evaluate(in, c, d).decision \in {"allow", "deny"}
BY DEF Evaluate, Verdict

LEMMA TypeInit == Init => TypeOK
<1> SUFFICES ASSUME Init PROVE TypeOK
    OBVIOUS
<1>1. report \in [Roots -> Reports]
    BY PointersReport, NoReportReport DEF Init
<1>2. DiskType
    BY <1>1 DEF Init, DiskType, States
<1>3. 1 \in Roots
    BY RootAssumption DEF Roots
<1>4. GuardType
    BY <1>3, NoReportReport, NoCallInput DEF Init, GuardType, NoVerdict, Verdict
<1>5. job \in [Roots -> Jobs]
    BY IdleJob DEF Init
<1>6. HistoryType /\ BoundsType
    BY DEF Init, HistoryType, BoundsType, Present
<1> QED
    BY <1>2, <1>4, <1>5, <1>6, TypeParts

LEMMA SetReportType ==
    ASSUME TypeOK, NEW r \in Roots, NEW rep \in Reports, SetReport(r, rep)
    PROVE  /\ report' \in [Roots -> Reports]
           /\ steady' \subseteq Roots /\ changes' \in Nat
BY DEF TypeOK, SetReport

LEMMA GuardKeepsType ==
    ASSUME TypeOK,
           \/ Unresolvable \/ ReadReport \/ LoadContract \/ LoadDefaults
           \/ \E in \in Calls : Judge(in)
    PROVE TypeOK'
<1>1. DiskType' /\ job' \in [Roots -> Jobs] /\ HistoryType' /\ BoundsType'
    BY TypeParts DEF Unresolvable, ReadReport, LoadContract, LoadDefaults, Judge,
        DiskType, HistoryType, BoundsType, disk, history, bounds
<1>2. GuardType'
    <2> USE TypeParts DEF GuardType, Exit, Verdict
    <2>1. CASE Unresolvable
        BY <2>1 DEF Unresolvable
    <2>2. CASE ReadReport
        BY <2>2, RootAssumption DEF ReadReport, DiskType, Roots
    <2>3. CASE LoadContract
        BY <2>3 DEF LoadContract, Reports
    <2>4. CASE LoadDefaults
        BY <2>4 DEF LoadDefaults
    <2>5. ASSUME NEW in \in Calls, Judge(in) PROVE GuardType'
        BY <2>5, CallAssumption, EvaluateDecides DEF Judge
    <2> QED
        BY <2>1, <2>2, <2>3, <2>4, <2>5
<1> QED
    BY <1>1, <1>2, TypeParts

LEMMA WriterKeepsType ==
    ASSUME TypeOK, NEW r \in Roots,
           \/ \E c \in Contracts, d \in Defaults \cup {None} : Begin(r, c, d)
           \/ PutSnapshots(r) \/ PutReport(r) \/ Complete(r)
           \/ RestoreReport(r) \/ RestoreStore(r) \/ TakeReport(r) \/ PutBack(r) \/ Reclaim(r)
           \/ \E state \in {"locked", "bad"} : HarmReport(r, state)
           \/ \E s \in Snapshots : HarmSnapshot(r, s)
    PROVE TypeOK'
<1> USE TypeParts
<1>1. job[r] \in Jobs /\ job[r].new \in Reports /\ job[r].old \in Reports
      /\ job[r].kept \in [Snapshots -> States] /\ report[r] \in Reports
      /\ store[r] \in [Snapshots -> States]
    BY DEF Jobs, DiskType
<1>2. GuardType'
    BY DEF Begin, PutSnapshots, PutReport, Complete, RestoreReport, RestoreStore, TakeReport, PutBack, Reclaim,
        HarmReport, HarmSnapshot, GuardType, guard, Harm, Work, disk, Reading
<1>3. ASSUME NEW c \in Contracts, NEW d \in Defaults \cup {None}, Begin(r, c, d) PROVE TypeOK'
    <2>1. Pointers(c, d) \in Reports
        BY <1>3, ProjectsRoutes, PointersReport DEF Begin
    <2>2. [step |-> "stores", new |-> Pointers(c, d), old |-> report[r], kept |-> store[r]] \in Jobs
        BY <2>1, <1>1 DEF Jobs
    <2> QED
        BY <1>2, <1>3, <2>2 DEF Begin, DiskType, HistoryType, BoundsType, disk, history
<1>4. \A step \in {"idle", "stores", "report", "landed", "undo", "reclaim"} :
        [job[r] EXCEPT !.step = step] \in Jobs
    BY <1>1 DEF Jobs
<1>5. CASE PutSnapshots(r)
    <2>1. store' \in [Roots -> [Snapshots -> States]]
        BY <1>5, <1>1 DEF PutSnapshots, States, DiskType
    <2> QED
        BY <1>2, <1>5, <1>4, <2>1 DEF PutSnapshots, Work, DiskType, HistoryType, BoundsType, history, bounds
<1>6. CASE PutReport(r)
    BY <1>2, <1>6, <1>1, <1>4, SetReportType DEF PutReport, Work, DiskType, HistoryType, BoundsType, bounds
<1>7. CASE Complete(r)
    BY <1>2, <1>7, IdleJob DEF Complete, DiskType, HistoryType, BoundsType, disk, history, bounds
<1>8. CASE RestoreReport(r)
    BY <1>2, <1>8, <1>1, <1>4, SetReportType DEF RestoreReport, Work, DiskType, HistoryType, BoundsType, bounds
<1>9. CASE RestoreStore(r)
    <2>1. store' \in [Roots -> [Snapshots -> States]]
        BY <1>9, <1>1 DEF RestoreStore, DiskType
    <2> QED
        BY <1>2, <1>9, <2>1, IdleJob DEF RestoreStore, DiskType, HistoryType, BoundsType, history, bounds
<1>10. CASE TakeReport(r)
    <2>1. [job[r] EXCEPT !.step = "reclaim", !.old = report[r]] \in Jobs
        BY <1>1 DEF Jobs
    <2>2. job' = [job EXCEPT ![r] = [job[r] EXCEPT !.step = "reclaim", !.old = report[r]]]
        BY <1>10 DEF TakeReport, DiskType
    <2> QED
        BY <1>2, <1>10, <2>1, <2>2, NoReportReport, SetReportType
            DEF TakeReport, DiskType, HistoryType, BoundsType
<1>14. CASE PutBack(r)
    BY <1>2, <1>14, <1>1, IdleJob, SetReportType DEF PutBack, DiskType, HistoryType, BoundsType, bounds
<1>11. CASE Reclaim(r)
    <2>1. store' \in [Roots -> [Snapshots -> States]]
        BY <1>11, <1>1 DEF Reclaim, DiskType, States
    <2> QED
        BY <1>2, <1>11, <2>1, IdleJob DEF Reclaim, DiskType, HistoryType, BoundsType, bounds
<1>12. ASSUME NEW state \in {"locked", "bad"}, HarmReport(r, state) PROVE TypeOK'
    <2>1. [report[r] EXCEPT !.state = state] \in Reports
        BY <1>1 DEF Reports
    <2> QED
        BY <1>2, <1>12, <2>1, SetReportType DEF HarmReport, Harm, DiskType, HistoryType, BoundsType
<1>13. ASSUME NEW s \in Snapshots, HarmSnapshot(r, s) PROVE TypeOK'
    <2>1. store' \in [Roots -> [Snapshots -> States]]
        BY <1>13, <1>1 DEF HarmSnapshot, DiskType, States
    <2> QED
        BY <1>2, <1>13, <2>1 DEF HarmSnapshot, Harm, DiskType, HistoryType, BoundsType
<1> QED
    BY <1>3, <1>5, <1>6, <1>7, <1>8, <1>9, <1>10, <1>11, <1>12, <1>13, <1>14

LEMMA TypeStep == TypeOK /\ [Next]_vars => TypeOK'
<1> SUFFICES ASSUME TypeOK, [Next]_vars PROVE TypeOK'
    OBVIOUS
<1>1. CASE UNCHANGED vars
    BY <1>1 DEF vars, disk, guard, history, bounds, TypeOK
<1> QED
    BY <1>1, NextCases, GuardKeepsType, WriterKeepsType

(* Every variable of the guard and of its writers keeps its type           *)
(* (resolve-contract.js, claude-spawn.js).                                 *)
THEOREM SpawnTyped == Spec => []TypeOK
<1> QED BY TypeInit, TypeStep, PTL DEF Spec
-----------------------------------------------------------------------------
(* The walk.  What it has left behind had no report when it was read, and  *)
(* a root that had one all the time still has it.                          *)
Passed ==
    /\ steady \subseteq Present(report)
    /\ \A r \in steady : at <= r

LEMMA PassedInit == Init => Passed
BY RootAssumption DEF Init, Passed, Present, Roots

LEMMA PassedStep == TypeOK /\ Passed /\ [Next]_vars => Passed'
<1> SUFFICES ASSUME TypeOK, Passed, [Next]_vars PROVE Passed'
    OBVIOUS
<1>1. CASE UNCHANGED <<report, steady, at>>
    BY <1>1 DEF Passed, Present
<1>2. ASSUME NEW r \in Roots, NEW rep, SetReport(r, rep), at' = at PROVE Passed'
    BY <1>2 DEF SetReport, Passed
<1>3. CASE ReadReport
    <2>1. UNCHANGED <<report, steady>>
        BY <1>3 DEF ReadReport, disk, history
    <2>2. at' = at \/ (report[at].state = "absent" /\ at' = at + 1)
        BY <1>3 DEF ReadReport
    <2>3. ASSUME report[at].state = "absent", NEW r \in steady PROVE at + 1 <= r
        BY <2>3 DEF Passed, Present, TypeOK, Roots
    <2> QED
        BY <2>1, <2>2, <2>3 DEF Passed, Present
<1>4. ASSUME NEW r \in Roots, PutReport(r) \/ RestoreReport(r) \/ TakeReport(r) \/ PutBack(r) PROVE Passed'
    BY <1>4, <1>2 DEF PutReport, RestoreReport, TakeReport, PutBack, guard
<1>5. ASSUME NEW r \in Roots, NEW state \in {"locked", "bad"}, HarmReport(r, state) PROVE Passed'
    BY <1>5, <1>2 DEF HarmReport, Harm, guard
<1>6. ASSUME Unresolvable \/ LoadContract \/ LoadDefaults \/ (\E in \in Calls : Judge(in)) PROVE Passed'
    BY <1>6, <1>1 DEF Unresolvable, LoadContract, LoadDefaults, Judge, disk, history
<1>7. ASSUME NEW r \in Roots,
             \/ \E c \in Contracts, d \in Defaults \cup {None} : Begin(r, c, d)
             \/ PutSnapshots(r) \/ Complete(r) \/ RestoreStore(r) \/ Reclaim(r)
             \/ \E s \in Snapshots : HarmSnapshot(r, s)
      PROVE Passed'
    BY <1>7, <1>1 DEF Begin, PutSnapshots, Complete, RestoreStore, Reclaim, HarmSnapshot, Harm,
        disk, history, guard
<1>8. CASE UNCHANGED vars
    BY <1>8, <1>1 DEF vars, disk, guard, history
<1> QED
    BY <1>3, <1>4, <1>5, <1>6, <1>7, <1>8, NextCases

(* No cross-scope fallback, for any number of roots: a contract of an      *)
(* outer root never decides while a nearer one has a report from the       *)
(* beginning of the walk to its end (nearestProjectReport).                *)
THEOREM NoFallback == Spec => []NearestReportDecides
<1>1. Passed => NearestReportDecides
    BY DEF Passed, NearestReportDecides
<1> QED
    BY <1>1, TypeInit, TypeStep, PassedInit, PassedStep, PTL DEF Spec
-----------------------------------------------------------------------------
(* Every report that an install has rendered can be routed, and what it    *)
(* says was requested is what its contract and its defaults make of it.    *)
Rendered(rep) ==
    rep.state # "absent" =>
        /\ rep.contract \in Contracts /\ rep.defaults \in Defaults \cup {None}
        /\ Routable(rep.contract, rep.defaults)
        /\ rep.routes = Routes(rep.contract, rep.defaults)

AllRendered ==
    /\ \A r \in Roots : Rendered(report[r]) /\ Rendered(job[r].new) /\ Rendered(job[r].old)
    /\ Rendered(got)

LEMMA PointersRendered ==
    ASSUME NEW c \in Contracts, NEW d \in Defaults \cup {None}, Routable(c, d)
    PROVE Rendered(Pointers(c, d))
BY DEF Rendered, Pointers

LEMMA NoReportRendered == Rendered(NoReport)
BY DEF Rendered, NoReport

LEMMA RenderedInit == Init => AllRendered
BY PointersRendered, NoReportRendered DEF Init, AllRendered, Idle

LEMMA SetRendered ==
    ASSUME TypeOK, AllRendered, NEW r \in Roots, NEW rep, Rendered(rep), SetReport(r, rep)
    PROVE \A q \in Roots : Rendered(report'[q])
BY DEF TypeOK, AllRendered, SetReport

LEMMA RenderedStep == TypeOK /\ AllRendered /\ [Next]_vars => AllRendered'
<1> SUFFICES ASSUME TypeOK, AllRendered, [Next]_vars PROVE AllRendered'
    OBVIOUS
<1>1. CASE UNCHANGED <<report, job, got>>
    BY <1>1 DEF AllRendered
<1>2. ASSUME NEW r \in Roots, NEW c \in Contracts, NEW d \in Defaults \cup {None}, Begin(r, c, d)
      PROVE AllRendered'
    <2>1. Rendered(Pointers(c, d))
        BY <1>2, ProjectsRoutes, PointersRendered DEF Begin
    <2> QED
        BY <1>2, <2>1 DEF Begin, AllRendered, TypeOK, disk, guard
<1>3. ASSUME NEW r \in Roots, NEW step, job' = [job EXCEPT ![r].step = step]
      PROVE \A q \in Roots : Rendered(job'[q].new) /\ Rendered(job'[q].old)
    BY <1>3 DEF AllRendered, TypeOK
<1>4. ASSUME NEW r \in Roots, job' = [job EXCEPT ![r] = Idle]
      PROVE \A q \in Roots : Rendered(job'[q].new) /\ Rendered(job'[q].old)
    BY <1>4, NoReportRendered DEF AllRendered, TypeOK, Idle
<1>5. ASSUME NEW r \in Roots, PutReport(r) \/ RestoreReport(r) \/ TakeReport(r) \/ PutBack(r) PROVE AllRendered'
    <2>1. CASE PutReport(r) \/ RestoreReport(r)
        BY <1>3, <2>1, SetRendered DEF PutReport, RestoreReport, Work, AllRendered, guard
    <2>2. CASE TakeReport(r)
        <3>1. \A q \in Roots : /\ job'[q].new = job[q].new
                              /\ job'[q].old = IF q = r THEN report[r] ELSE job[q].old
            BY <2>2 DEF TakeReport, TypeOK
        <3> QED
            BY <2>2, <3>1, SetRendered, NoReportRendered DEF TakeReport, AllRendered, guard
    <2>3. CASE PutBack(r)
        BY <1>4, <2>3, SetRendered DEF PutBack, AllRendered, guard
    <2> QED
        BY <1>5, <2>1, <2>2, <2>3
<1>6. ASSUME NEW r \in Roots, PutSnapshots(r) PROVE AllRendered'
    BY <1>6, <1>3 DEF PutSnapshots, Work, AllRendered, guard
<1>7. ASSUME NEW r \in Roots, Complete(r) \/ RestoreStore(r) \/ Reclaim(r) PROVE AllRendered'
    BY <1>7, <1>4 DEF Complete, RestoreStore, Reclaim, AllRendered, guard, disk
<1>8. ASSUME NEW r \in Roots, NEW state \in {"locked", "bad"}, HarmReport(r, state) PROVE AllRendered'
    <2>1. Rendered([report[r] EXCEPT !.state = state])
        BY <1>8 DEF HarmReport, AllRendered, Rendered, TypeOK, Reports
    <2> QED
        BY <1>8, <2>1, SetRendered DEF HarmReport, Harm, AllRendered, guard
<1>9. ASSUME NEW r \in Roots, NEW s \in Snapshots, HarmSnapshot(r, s) PROVE AllRendered'
    BY <1>9, <1>1 DEF HarmSnapshot, Harm, guard
<1>10. CASE ReadReport
    BY <1>10 DEF ReadReport, AllRendered, TypeOK, disk
<1>11. ASSUME Unresolvable \/ LoadContract \/ LoadDefaults \/ (\E in \in Calls : Judge(in)) PROVE AllRendered'
    BY <1>11, <1>1 DEF Unresolvable, LoadContract, LoadDefaults, Judge, disk
<1>12. CASE UNCHANGED vars
    BY <1>12, <1>1 DEF vars, disk, guard
<1> QED
    BY <1>2, <1>5, <1>6, <1>7, <1>8, <1>9, <1>10, <1>11, <1>12, NextCases
-----------------------------------------------------------------------------
(* The guard goes by what it has read: the contract that it judges by is   *)
(* that of the report it read, and its verdict is the evaluation of it.    *)
GoesByReport ==
    /\ pc \in {"walk", "contract"} => loaded = None
    /\ pc = "walk" => got = NoReport
    /\ pc \in {"contract", "defaults", "judge"} => got.state = "ok"
    /\ pc = "defaults" => got.defaults # None
    /\ loaded # None => got.state = "ok" /\ loaded = got.contract
    /\ Ruled => out = Evaluate(input, loaded, got.defaults)

LEMMA GoesInit == Init => GoesByReport
BY DEF Init, GoesByReport, Ruled

LEMMA GoesStep == TypeOK /\ GoesByReport /\ [Next]_vars => GoesByReport'
<1> SUFFICES ASSUME TypeOK, GoesByReport, [Next]_vars PROVE GoesByReport'
    OBVIOUS
<1>1. CASE UNCHANGED guard
    BY <1>1 DEF guard, GoesByReport, Ruled
<1>2. ASSUME NEW r \in Roots,
             \/ \E c \in Contracts, d \in Defaults \cup {None} : Begin(r, c, d)
             \/ PutSnapshots(r) \/ PutReport(r) \/ Complete(r)
             \/ RestoreReport(r) \/ RestoreStore(r) \/ TakeReport(r) \/ PutBack(r) \/ Reclaim(r)
             \/ \E state \in {"locked", "bad"} : HarmReport(r, state)
             \/ \E s \in Snapshots : HarmSnapshot(r, s)
      PROVE UNCHANGED <<pc, guard>>
    BY <1>2 DEF Begin, PutSnapshots, PutReport, Complete, RestoreReport, RestoreStore, TakeReport, PutBack, Reclaim,
        HarmReport, HarmSnapshot, Harm, guard
<1>3. CASE Unresolvable
    BY <1>3 DEF Unresolvable, Exit, Verdict, GoesByReport, Ruled
<1>4. CASE ReadReport
    BY <1>4 DEF ReadReport, Exit, Verdict, GoesByReport, Ruled
<1>5. CASE LoadContract
    BY <1>5 DEF LoadContract, Exit, Verdict, GoesByReport, Ruled
<1>6. CASE LoadDefaults
    BY <1>6 DEF LoadDefaults, Exit, Verdict, GoesByReport, Ruled
<1>7. ASSUME NEW in \in Calls, Judge(in) PROVE GoesByReport'
    BY <1>7 DEF Judge, Exit, GoesByReport, Ruled
<1>8. CASE UNCHANGED vars
    BY <1>8, <1>1 DEF vars
<1> QED
    BY <1>1, <1>2, <1>3, <1>4, <1>5, <1>6, <1>7, <1>8, NextCases

GuardInv == TypeOK /\ AllRendered /\ GoesByReport

LEMMA GuardInvInit == Init => GuardInv
BY TypeInit, RenderedInit, GoesInit DEF GuardInv

LEMMA GuardInvStep == GuardInv /\ [Next]_vars => GuardInv'
BY TypeStep, RenderedStep, GoesStep DEF GuardInv

(* A model is no word for the lack of one.                                 *)
LEMMA ModelWords ==
    ASSUME NEW m \in Models
    PROVE m \notin {"unset", "inherit", "main", "unsafe", None}
BY ModelAssumption

(* A model is written only into a call that names none, whose environment  *)
(* says nothing.                                                           *)
LEMMA InjectsOpen ==
    ASSUME NEW in \in Inputs, NEW c, NEW d, Routable(c, d), in.role \in Roles \cup {None},
           Evaluate(in, c, d).injected # "unset"
    PROVE  /\ in.env = "unset" /\ in.call = "unset" /\ in.override = "unset"
           /\ Managed(c, in.role) /\ Evaluate(in, c, d).injected \in Models
<1>1. in.role # None /\ Managed(c, in.role)
    BY DEF Evaluate, Verdict
<1>2. Route(c, d, in.role) \in Models
    BY <1>1 DEF Routable
<1>3. ExplicitModel(in) = "unset" /\ in.env # "inherit"
      /\ Evaluate(in, c, d).injected = Route(c, d, in.role)
    BY <1>1, <1>2, ModelWords DEF Evaluate, Verdict
<1>4. in.env = "unset" /\ in.call = "unset" /\ in.override = "unset"
    BY <1>3, ModelWords DEF ExplicitModel, Inputs
<1> QED
    BY <1>1, <1>2, <1>3, <1>4

(* What was ruled on.                                                      *)
LEMMA RuledOn ==
    ASSUME GuardInv, Ruled
    PROVE  /\ out = Evaluate(input, loaded, got.defaults) /\ loaded = got.contract
           /\ Routable(loaded, got.defaults) /\ got.routes = Routes(loaded, got.defaults)
           /\ input \in Inputs /\ input.role \in Roles \cup {None}
BY DEF GuardInv, GoesByReport, AllRendered, Rendered, TypeOK, Ruled, Inputs

(* What the guard writes into a call is what runs, on every version of the *)
(* runtime (evaluateClaudeAgentSpawn).                                     *)
LEMMA InjectionRuns == GuardInv => InjectionTakesEffect
<1> SUFFICES ASSUME GuardInv, Ruled, out.injected # "unset", NEW early \in BOOLEAN
             PROVE ModelRun(Updated(input, out), early) = out.injected
    BY DEF InjectionTakesEffect
<1>1. input \in Inputs /\ input.env = "unset" /\ out.injected \in Models
    BY RuledOn, InjectsOpen
<1>2. Updated(input, out) = [input EXCEPT !.call = out.injected]
    BY DEF Updated
<1>3. Updated(input, out).env = "unset" /\ Updated(input, out).call = out.injected
    BY <1>1, <1>2 DEF Inputs
<1> QED
    BY <1>1, <1>3, ModelWords DEF ModelRun

THEOREM InjectionWorks == Spec => []InjectionTakesEffect
BY GuardInvInit, GuardInvStep, InjectionRuns, PTL DEF Spec

(* A deliberate choice of a model stands, whatever contract is installed   *)
(* and whatever the call is (explicitModel).                               *)
LEMMA ChoicesStand == GuardInv => ChoiceStands
<1> SUFFICES ASSUME GuardInv, Ruled, ~Open(input), NEW early \in BOOLEAN
             PROVE ModelRun(Updated(input, out), early) = ModelRun(input, early)
    BY DEF ChoiceStands
<1>1. out.injected = "unset"
    BY RuledOn, InjectsOpen DEF Open
<1> QED
    BY <1>1 DEF Updated

THEOREM ChoiceIsKept == Spec => []ChoiceStands
BY GuardInvInit, GuardInvStep, ChoicesStand, PTL DEF Spec

(* The guard does what the report says was requested: it never finds an    *)
(* installed contract ambiguous or unsafe, and it writes the requested model into    *)
(* every open call that may have it (resolveLaneModels).                   *)
LEMMA FollowsReport == GuardInv => GuardFollowsReport
<1> SUFFICES ASSUME GuardInv, Ruled
             PROVE  /\ out.reason \notin {"AMBIGUOUS_MODEL_RESOLUTION", "INVALID_CONTRACT"}
                    /\ Open(input) => out.injected =
                        IF got.routes[input.role] \in Injectable THEN got.routes[input.role] ELSE "unset"
    BY DEF GuardFollowsReport
<1>1. out.reason \notin {"AMBIGUOUS_MODEL_RESOLUTION", "INVALID_CONTRACT"}
    BY RuledOn DEF Evaluate, Verdict
<1>2. ASSUME Open(input)
      PROVE out.injected = IF got.routes[input.role] \in Injectable THEN got.routes[input.role] ELSE "unset"
    <2>1. Managed(loaded, input.role) /\ input.role # None /\ input.role \in Roles
          /\ input.env = "unset" /\ ExplicitModel(input) = "unset"
        BY <1>2, RuledOn DEF Open, Managed, ExplicitModel
    <2>2. got.routes[input.role] = Route(loaded, got.defaults, input.role)
        BY <2>1, RuledOn DEF Routes
    <2>3. Route(loaded, got.defaults, input.role) \in Models
        BY <2>1, RuledOn DEF Routable
    <2>4. Routable(loaded, got.defaults) /\ out = Evaluate(input, loaded, got.defaults)
        BY RuledOn
    <2>5. Route(loaded, got.defaults, input.role) # "unset"
        BY <2>3, ModelWords
    <2> QED
        BY <2>1, <2>2, <2>4, <2>5 DEF Evaluate, Verdict
<1> QED
    BY <1>1, <1>2

THEOREM NoDrift == Spec => []GuardFollowsReport
BY GuardInvInit, GuardInvStep, FollowsReport, PTL DEF Spec
-----------------------------------------------------------------------------
(* Snapshots land before their report and stay as long as it: as long as   *)
(* nothing was taken back, reclaimed or harmed, a report on disk, a report *)
(* about to land or to be put back and the report that a guard goes by     *)
(* have their snapshots; those of all but the first are also among what a  *)
(* rollback would restore.                                                 *)
Good(r, rep) == \A s \in Named(rep) : store[r][s] = "good"
Keeps(r, rep) == \A s \in Named(rep) : job[r].kept[s] = "good"
Disturbed == removed \/ harms > 0
Fresh == {"stores", "report", "undo"}

ServedAt(r) ==
    /\ Good(r, report[r])
    /\ job[r].step \in {"report", "landed"} => Good(r, job[r].new)
    /\ job[r].step \in {"stores", "report", "reclaim"} => Good(r, job[r].old)
    /\ job[r].step \in Fresh => Keeps(r, report[r]) /\ Keeps(r, job[r].old)
    /\ pc \in {"contract", "defaults"} /\ at = r =>
        Good(r, got) /\ (job[r].step \in Fresh => Keeps(r, got))
Served == Disturbed \/ \A r \in Roots : ServedAt(r)

LEMMA ServedInit == Init => Served
<1> SUFFICES ASSUME Init PROVE Served
    OBVIOUS
<1>1. ASSUME NEW r \in Roots PROVE Named(report[r]) \subseteq Snapshots
    BY <1>1, TypeInit DEF TypeOK, Reports, Named, Snapshots
<1> QED
    BY <1>1 DEF Init, Served, ServedAt, Good, Fresh, Idle

LEMMA NamedSnapshots ==
    ASSUME NEW rep \in Reports
    PROVE Named(rep) \subseteq Snapshots
BY DEF Reports, Named, Snapshots

LEMMA NamesNothing == Named(NoReport) = {}
BY DEF Named, NoReport

LEMMA ServedStep == GuardInv /\ Served /\ [Next]_vars => Served'
<1> SUFFICES ASSUME GuardInv, Served, [Next]_vars PROVE Served'
    OBVIOUS
<1> USE DEF GuardInv
<1>2. ASSUME Disturbed, removed => removed', harms' = harms \/ harms' = harms + 1 PROVE Served'
    BY <1>2 DEF Served, Disturbed, TypeOK
<1>3. harms' = harms \/ harms' = harms + 1
    BY NextCases DEF Unresolvable, ReadReport, LoadContract, LoadDefaults, Judge, Begin, PutSnapshots,
        PutReport, Complete, RestoreReport, RestoreStore, TakeReport, PutBack, Reclaim, HarmReport, HarmSnapshot,
        Harm, bounds, vars
<1>4. removed => removed'
    <2>1. ASSUME NEW r \in Roots, RestoreReport(r), removed PROVE removed'
        BY <2>1 DEF RestoreReport
    <2>2. CASE UNCHANGED removed
        BY <2>2
    <2>3. ASSUME NEW r \in Roots, Reclaim(r) PROVE removed'
        BY <2>3 DEF Reclaim
    <2> QED
        BY <2>1, <2>2, <2>3, NextCases DEF Unresolvable, ReadReport, LoadContract, LoadDefaults, Judge, Begin,
            PutSnapshots, PutReport, Complete, RestoreStore, TakeReport, PutBack, HarmReport,
            HarmSnapshot, Harm, history, vars
<1>5. CASE Disturbed
    BY <1>2, <1>3, <1>4, <1>5
<1>6. CASE ~Disturbed
    <2>1. \A r \in Roots : ServedAt(r)
        BY <1>6 DEF Served
    <2>t. /\ \A q \in Roots : Named(report[q]) \subseteq Snapshots /\ Named(job[q].new) \subseteq Snapshots
                              /\ Named(job[q].old) \subseteq Snapshots
          /\ Named(got) \subseteq Snapshots /\ at \in Roots
        BY NamedSnapshots DEF TypeOK
    (* What a step at one root leaves at the others.                       *)
    <2>o. ASSUME NEW r \in Roots, NEW q \in Roots, q # r, UNCHANGED <<pc, at, got>>,
                 report'[q] = report[q], job'[q] = job[q], store'[q] = store[q]
          PROVE  ServedAt(q)'
        BY <2>1, <2>o DEF ServedAt, Good, Keeps
    <2>2. ASSUME NEW r \in Roots, NEW c \in Contracts, NEW d \in Defaults \cup {None}, Begin(r, c, d) PROVE Served'
        <3>1. /\ job[r] = Idle /\ UNCHANGED <<report, store, pc, at, got>>
              /\ job' = [job EXCEPT ![r] = [step |-> "stores", new |-> Pointers(c, d), old |-> report[r],
                                            kept |-> store[r]]]
            BY <2>2 DEF Begin, disk, guard
        <3>2. \A q \in Roots : q # r => job'[q] = job[q]
            BY <3>1 DEF TypeOK
        <3>3. job'[r].step = "stores" /\ job'[r].old = report[r] /\ job'[r].kept = store[r]
            BY <3>1 DEF TypeOK
        <3>4. ServedAt(r)'
            BY <2>1, <3>1, <3>3 DEF ServedAt, Good, Keeps
        <3> QED
            BY <2>o, <3>1, <3>2, <3>4 DEF Served
    <2>3. ASSUME NEW r \in Roots, PutSnapshots(r) PROVE Served'
        <3>1. \A s \in Snapshots : store[r][s] = "good" => store'[r][s] = "good"
            BY <2>3 DEF PutSnapshots, TypeOK
        <3>2. \A s \in Named(job[r].new) : store'[r][s] = "good"
            BY <2>3, <2>t DEF PutSnapshots, TypeOK
        <3>3. /\ job[r].step = "stores" /\ job'[r].step = "report"
              /\ job'[r].new = job[r].new /\ job'[r].old = job[r].old /\ job'[r].kept = job[r].kept
            BY <2>3 DEF PutSnapshots, Work, TypeOK
        <3>4. UNCHANGED <<report, pc, at, got>>
            BY <2>3 DEF PutSnapshots, guard
        <3>5. \A q \in Roots : q # r => job'[q] = job[q] /\ store'[q] = store[q]
            BY <2>3 DEF PutSnapshots, Work, TypeOK
        <3>6. ServedAt(r)'
            BY <2>1, <2>t, <3>1, <3>2, <3>3, <3>4 DEF ServedAt, Good, Keeps, Fresh
        <3> QED
            BY <2>o, <3>4, <3>5, <3>6 DEF Served
    <2>4. ASSUME NEW r \in Roots, PutReport(r) PROVE Served'
        <3>1. /\ job[r].step = "report" /\ job'[r].step = "landed" /\ job'[r].new = job[r].new
              /\ report'[r] = job[r].new /\ UNCHANGED <<store, pc, at, got>>
            BY <2>4 DEF PutReport, Work, SetReport, TypeOK, guard
        <3>2. \A q \in Roots : q # r => job'[q] = job[q] /\ report'[q] = report[q]
            BY <2>4 DEF PutReport, Work, SetReport, TypeOK
        <3>3. ServedAt(r)'
            BY <2>1, <3>1 DEF ServedAt, Good, Fresh
        <3> QED
            BY <2>o, <3>1, <3>2, <3>3 DEF Served
    <2>5. ASSUME NEW r \in Roots, Complete(r) PROVE Served'
        <3>1. job'[r].step = "idle" /\ UNCHANGED <<report, store, pc, at, got>>
              /\ \A q \in Roots : q # r => job'[q] = job[q]
            BY <2>5 DEF Complete, Idle, TypeOK, guard, disk
        <3>2. ServedAt(r)'
            BY <2>1, <3>1 DEF ServedAt, Good, Fresh
        <3> QED
            BY <2>o, <3>1, <3>2 DEF Served
    <2>6. ASSUME NEW r \in Roots, TakeReport(r) PROVE Served'
        <3>1. /\ job'[r].step = "reclaim" /\ job'[r].old = report[r] /\ report'[r] = NoReport
              /\ UNCHANGED <<store, pc, at, got>>
              /\ \A q \in Roots : q # r => job'[q] = job[q] /\ report'[q] = report[q]
            BY <2>6 DEF TakeReport, SetReport, TypeOK, guard
        <3>2. ServedAt(r)'
            BY <2>1, <3>1, NamesNothing DEF ServedAt, Good, Fresh
        <3> QED
            BY <2>o, <3>1, <3>2 DEF Served
    <2>7. ASSUME NEW r \in Roots, PutBack(r) PROVE Served'
        <3>1. /\ job[r].step = "reclaim" /\ job'[r].step = "idle" /\ report'[r] = job[r].old
              /\ UNCHANGED <<store, pc, at, got>>
              /\ \A q \in Roots : q # r => job'[q] = job[q] /\ report'[q] = report[q]
            BY <2>7 DEF PutBack, SetReport, Idle, TypeOK, guard
        <3>2. ServedAt(r)'
            BY <2>1, <3>1 DEF ServedAt, Good, Fresh
        <3> QED
            BY <2>o, <3>1, <3>2 DEF Served
    <2>8. ASSUME NEW r \in Roots, RestoreReport(r) PROVE Served'
        <3>1. CASE job[r].step = "landed"
            BY <2>8, <3>1 DEF RestoreReport, Served, Disturbed
        <3>2. CASE job[r].step # "landed"
            <4>1. /\ job[r].step = "report" /\ job'[r].step = "undo" /\ report'[r] = job[r].old
                  /\ job'[r].old = job[r].old /\ job'[r].kept = job[r].kept /\ UNCHANGED <<store, pc, at, got>>
                  /\ \A q \in Roots : q # r => job'[q] = job[q] /\ report'[q] = report[q]
                BY <2>8, <3>2 DEF RestoreReport, Work, SetReport, TypeOK, guard
            <4>2. ServedAt(r)'
                BY <2>1, <4>1 DEF ServedAt, Good, Keeps, Fresh
            <4> QED
                BY <2>o, <4>1, <4>2 DEF Served
        <3> QED
            BY <3>1, <3>2
    <2>9. ASSUME NEW r \in Roots, RestoreStore(r) PROVE Served'
        <3>1. /\ job[r].step = "undo" /\ job'[r].step = "idle" /\ UNCHANGED <<report, pc, at, got>>
              /\ \A q \in Roots : q # r => job'[q] = job[q] /\ store'[q] = store[q]
              /\ \A s \in Snapshots : store'[r][s] = IF s \in Named(job[r].new) THEN job[r].kept[s] ELSE store[r][s]
            BY <2>9 DEF RestoreStore, Idle, TypeOK, guard
        <3>2. ServedAt(r)'
            BY <2>1, <2>t, <3>1 DEF ServedAt, Good, Keeps, Fresh
        <3> QED
            BY <2>o, <3>1, <3>2 DEF Served
    <2>10. ASSUME NEW r \in Roots,
                 \/ Reclaim(r)
                 \/ \E state \in {"locked", "bad"} : HarmReport(r, state)
                 \/ \E s \in Snapshots : HarmSnapshot(r, s)
          PROVE Served'
        BY <2>10 DEF Reclaim, HarmReport, HarmSnapshot, Harm, Served, Disturbed, TypeOK
    <2>11. CASE ReadReport
        <3>1. UNCHANGED <<report, store, job>> /\ pc = "walk"
            BY <2>11 DEF ReadReport, disk
        <3>2. pc' \in {"contract", "defaults"} => at' = at /\ got' = report[at]
            BY <2>11 DEF ReadReport, Exit
        <3> QED
            BY <2>1, <2>t, <3>1, <3>2 DEF Served, ServedAt, Good, Keeps
    <2>12. ASSUME Unresolvable \/ LoadContract \/ LoadDefaults \/ (\E in \in Calls : Judge(in)) PROVE Served'
        <3>1. UNCHANGED <<report, store, job, at, got>>
            BY <2>12 DEF Unresolvable, LoadContract, LoadDefaults, Judge, disk
        <3>2. pc' \in {"contract", "defaults"} => pc \in {"contract", "defaults"}
            BY <2>12 DEF Unresolvable, LoadContract, LoadDefaults, Judge, Exit
        <3> QED
            BY <2>1, <3>1, <3>2 DEF Served, ServedAt, Good, Keeps
    <2>13. CASE UNCHANGED vars
        <3>1. UNCHANGED <<report, store, job, pc, at, got>>
            BY <2>13 DEF vars, disk, guard
        <3> QED
            BY <2>1, <3>1 DEF Served, ServedAt, Good, Keeps
    <2> QED
        BY <2>2, <2>3, <2>4, <2>5, <2>6, <2>7, <2>8, <2>9, <2>10, <2>11, <2>12, <2>13, NextCases
<1> QED
    BY <1>5, <1>6

(* A guard that does not find a snapshot has been disturbed.               *)
LEMMA DenialsInit == Init => InstallsNeverDeny
BY DEF Init, InstallsNeverDeny

LEMMA DenialsStep == GuardInv /\ Served /\ InstallsNeverDeny /\ [Next]_vars => InstallsNeverDeny'
<1> SUFFICES ASSUME GuardInv, Served, InstallsNeverDeny, [Next]_vars, (pc = "done" /\ out.reason = "SNAPSHOT")'
             PROVE  removed' \/ harms' > 0
    BY DEF InstallsNeverDeny
<1> USE DEF GuardInv
<1>1. CASE UNCHANGED <<pc, out>>
    <2>1. removed \/ harms > 0
        BY <1>1 DEF InstallsNeverDeny
    <2>2. pc = "done"
        BY <1>1
    <2>3. UNCHANGED vars
        BY <2>2, NextCases DEF Unresolvable, ReadReport, LoadContract, LoadDefaults, Judge, Begin,
            PutSnapshots, PutReport, Complete, RestoreReport, RestoreStore, TakeReport, PutBack, Reclaim,
            HarmReport, HarmSnapshot, Harm, Reading, Work
    <2> QED
        BY <2>1, <2>3 DEF vars, history, bounds
<1>2. CASE LoadContract
    <2>1. got.contract \in Named(got) /\ store[at][got.contract] # "good"
        BY <1>2, NameAssumption DEF LoadContract, GoesByReport, AllRendered, Rendered, Named
    <2>2. ~Good(at, got) /\ pc = "contract" /\ at \in Roots
        BY <1>2, <2>1 DEF Good, LoadContract, TypeOK
    <2>3. removed \/ harms > 0
        BY <2>2 DEF Served, ServedAt, Disturbed
    <2> QED
        BY <1>2, <2>3 DEF LoadContract, history, bounds
<1>3. CASE LoadDefaults
    <2>1. store[at][got.defaults] # "good"
        BY <1>3 DEF LoadDefaults, Exit
    <2>2. got.defaults \in Named(got)
        BY <1>3 DEF LoadDefaults, Named, GoesByReport
    <2>3. ~Good(at, got) /\ pc = "defaults" /\ at \in Roots
        BY <1>3, <2>1, <2>2 DEF Good, LoadDefaults, TypeOK
    <2>4. removed \/ harms > 0
        BY <2>3 DEF Served, ServedAt, Disturbed
    <2> QED
        BY <1>3, <2>4 DEF LoadDefaults, history, bounds
<1>4. CASE Unresolvable \/ ReadReport
    BY <1>4 DEF Unresolvable, ReadReport, Exit, Verdict, TypeOK
<1>5. ASSUME NEW in \in Calls, Judge(in) PROVE FALSE
    BY <1>5 DEF Judge, Exit, Evaluate, Fault, Verdict
<1> QED
    BY <1>1, <1>2, <1>3, <1>4, <1>5, NextCases DEF Begin, PutSnapshots, PutReport, Complete, RestoreReport,
        RestoreStore, TakeReport, PutBack, Reclaim, HarmReport, HarmSnapshot, Harm, vars, guard

(* Installs never get in the way of a spawn, for any number of installs    *)
(* that run at any root while a guard reads: no guard misses a snapshot of *)
(* the report it read, unless one was reclaimed or damaged, or some        *)
(* install was rolled back after its report had landed.                    *)
THEOREM InstallsAreSafe == Spec => []InstallsNeverDeny
BY GuardInvInit, GuardInvStep, ServedInit, ServedStep, DenialsInit, DenialsStep, PTL DEF Spec
-----------------------------------------------------------------------------
(* What was in force.  As long as reports have changed at most once, the   *)
(* nearest report among the roots that the walk has not passed was the     *)
(* nearest of all at some moment: the roots it has passed were empty       *)
(* before the change or are empty after it.                                *)
NearestFrom(a, rep) ==
    {[root |-> r, contract |-> rep[r].contract] :
        r \in {q \in Present(rep) : a <= q /\ \A p \in Present(rep) : a <= p => q <= p}}

Behind ==
    /\ pc = "walk" =>
        /\ changes = 0 => \A r \in Roots : r < at => report[r].state = "absent"
        /\ changes <= 1 => NearestFrom(at, report) \subseteq effective
    /\ InForce(report) \subseteq effective
    /\ pc # "walk" /\ got.state = "ok" /\ changes <= 1 =>
        [root |-> at, contract |-> got.contract] \in effective

(* Passing empty roots by changes nothing.                                 *)
LEMMA PassedBy ==
    ASSUME NEW rep, NEW a \in Roots, \A r \in Roots : r < a => rep[r].state = "absent"
    PROVE NearestFrom(a, rep) = InForce(rep)
<1>1. \A q \in Present(rep) : a <= q
    BY DEF Present, Roots
<1> QED
    BY <1>1 DEF NearestFrom, InForce

LEMMA BehindInit == Init => Behind
<1> SUFFICES ASSUME Init PROVE Behind
    OBVIOUS
<1>1. 1 \in Roots /\ \A r \in Roots : ~(r < 1)
    BY RootAssumption DEF Roots
<1>2. NearestFrom(1, report) = InForce(report)
    BY <1>1, PassedBy
<1> QED
    BY <1>1, <1>2 DEF Init, Behind

(* One more change of a report.                                            *)
LEMMA BehindChange ==
    ASSUME TypeOK, Behind, NEW r \in Roots, NEW rep, SetReport(r, rep), UNCHANGED <<pc, at, got>>
    PROVE Behind'
<1>1. effective \subseteq effective' /\ InForce(report') \subseteq effective'
    BY DEF SetReport
<1>2. changes \in Nat /\ at \in Roots /\ report' = [report EXCEPT ![r] = rep]
      /\ changes' = (IF rep = report[r] THEN changes ELSE changes + 1)
    BY DEF TypeOK, SetReport
<1>3. CASE rep = report[r]
    <2>1. report' = report /\ changes' = changes
        BY <1>2, <1>3 DEF TypeOK
    <2> QED
        BY <1>1, <2>1 DEF Behind
<1>4. CASE rep # report[r] /\ changes > 0
    <2>1. ~(changes' <= 1) /\ changes' # 0
        BY <1>2, <1>4
    <2> QED
        BY <1>1, <1>2, <2>1 DEF Behind
<1>5. CASE rep # report[r] /\ changes = 0
    <2>1. changes' = 1
        BY <1>2, <1>5
    <2>2. ASSUME pc = "walk" PROVE NearestFrom(at, report') \subseteq effective'
        <3>1. \A q \in Roots : q < at => report[q].state = "absent"
            BY <1>5, <2>2 DEF Behind
        <3>2. CASE r < at
            <4>1. \A q \in Roots : at <= q => report'[q] = report[q]
                BY <1>2, <3>2 DEF TypeOK, Roots
            <4>2. NearestFrom(at, report') = NearestFrom(at, report)
                BY <4>1 DEF NearestFrom, Present
            <4> QED
                BY <1>1, <1>5, <2>2, <4>2 DEF Behind
        <3>3. CASE ~(r < at)
            <4>1. \A q \in Roots : q < at => report'[q].state = "absent"
                BY <1>2, <3>1, <3>3 DEF TypeOK
            <4>2. NearestFrom(at, report') = InForce(report')
                BY <1>2, <4>1, PassedBy
            <4> QED
                BY <1>1, <4>2
        <3> QED
            BY <3>2, <3>3
    <2>3. pc # "walk" /\ got.state = "ok" => [root |-> at, contract |-> got.contract] \in effective
        BY <1>5 DEF Behind
    <2> QED
        BY <1>1, <2>1, <2>2, <2>3 DEF Behind
<1> QED
    BY <1>2, <1>3, <1>4, <1>5

LEMMA BehindStep == GuardInv /\ Behind /\ [Next]_vars => Behind'
<1> SUFFICES ASSUME GuardInv, Behind, [Next]_vars PROVE Behind'
    OBVIOUS
<1> USE DEF GuardInv
<1>1. CASE UNCHANGED <<report, pc, at, got, changes, effective>>
    BY <1>1 DEF Behind, InForce, NearestFrom, Present
<1>2. ASSUME NEW r \in Roots, PutReport(r) \/ RestoreReport(r) \/ TakeReport(r) \/ PutBack(r) PROVE Behind'
    BY <1>2, BehindChange DEF PutReport, RestoreReport, TakeReport, PutBack, guard
<1>3. ASSUME NEW r \in Roots, NEW state \in {"locked", "bad"}, HarmReport(r, state) PROVE Behind'
    BY <1>3, BehindChange DEF HarmReport, Harm, guard
<1>4. CASE ReadReport
    <2>1. UNCHANGED <<report, changes, effective>> /\ at \in Roots /\ pc = "walk"
        BY <1>4 DEF ReadReport, disk, history, TypeOK
    <2>2. CASE report[at].state = "absent" /\ at' = at + 1 /\ UNCHANGED <<pc, got>>
        <3>1. NearestFrom(at + 1, report) = NearestFrom(at, report)
            BY <2>1, <2>2 DEF NearestFrom, Present, Roots
        <3>2. \A r \in Roots : r < at + 1 => r < at \/ r = at
            BY <2>1 DEF Roots
        <3> QED
            BY <2>1, <2>2, <3>1, <3>2 DEF Behind, InForce, Present
    <2>3. CASE pc' = "done" /\ UNCHANGED <<at, got>> /\ got.state # "ok"
        BY <2>1, <2>3 DEF Behind, InForce, Present
    <2>4. CASE report[at].state = "ok" /\ got' = report[at] /\ pc' = "contract" /\ UNCHANGED at
        <3>1. [root |-> at, contract |-> got'.contract] \in NearestFrom(at, report)
            BY <2>1, <2>4 DEF NearestFrom, Present, Roots
        <3> QED
            BY <2>1, <2>4, <3>1 DEF Behind, InForce, Present
    <2> QED
        BY <1>4, <2>2, <2>3, <2>4 DEF ReadReport, Exit, GoesByReport, NoReport
<1>5. ASSUME Unresolvable \/ LoadContract \/ LoadDefaults \/ (\E in \in Calls : Judge(in)) PROVE Behind'
    <2>1. UNCHANGED <<report, at, got, changes, effective>> /\ pc' # "walk"
        BY <1>5 DEF Unresolvable, LoadContract, LoadDefaults, Judge, Exit, disk, history
    <2>2. CASE pc # "walk"
        BY <2>1, <2>2 DEF Behind, InForce, Present
    <2>3. CASE pc = "walk"
        BY <1>5, <2>1, <2>3 DEF Unresolvable, LoadContract, LoadDefaults, Judge, Behind, InForce, Present,
            GoesByReport, NoReport
    <2> QED
        BY <2>2, <2>3
<1>6. ASSUME NEW r \in Roots,
             \/ \E c \in Contracts, d \in Defaults \cup {None} : Begin(r, c, d)
             \/ PutSnapshots(r) \/ Complete(r) \/ RestoreStore(r) \/ Reclaim(r)
             \/ \E s \in Snapshots : HarmSnapshot(r, s)
      PROVE Behind'
    BY <1>6, <1>1 DEF Begin, PutSnapshots, Complete, RestoreStore, Reclaim, HarmSnapshot, Harm,
        disk, history, guard
<1>7. CASE UNCHANGED vars
    BY <1>7, <1>1 DEF vars, disk, guard, history
<1> QED
    BY <1>2, <1>3, <1>4, <1>5, <1>6, <1>7, NextCases

(* The contract that decides was in force while the guard walked, for any  *)
(* number of roots, unless reports changed more than once meanwhile        *)
(* (resolveEffectiveContract).                                             *)
THEOREM DeciderInForce == Spec => []DecidedWasInForce
<1>1. GuardInv /\ Behind => DecidedWasInForce
    BY DEF GuardInv, GoesByReport, Behind, DecidedWasInForce, Ruled
<1> QED
    BY <1>1, GuardInvInit, GuardInvStep, BehindInit, BehindStep, PTL DEF Spec
=============================================================================
