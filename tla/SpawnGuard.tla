------------------------------ MODULE SpawnGuard ------------------------------
(***************************************************************************)
(* The guard of an agent spawn: resolveEffectiveContract of                *)
(* src/src/guards/resolve-contract.js, one action for every file it reads, *)
(* and evaluateClaudeAgentSpawn of src/src/guards/claude-spawn.js, while   *)
(* installs and uninstalls run at the same roots.                          *)
(*                                                                         *)
(* Roots are numbered from the working directory outwards; the last one is *)
(* the global layer.  The writers are the commits of InstallTransaction    *)
(* cut down to what a guard reads, one at a time at each root.             *)
(***************************************************************************)
EXTENDS Naturals

CONSTANTS
    Last,               \* number of roots
    Contracts, Defaults,\* contents of contract and runtime-defaults snapshots
    Roles, Lanes,       \* roles that calls may name, lanes of a contract
    LaneOf,             \* [Contracts -> [Roles -> the lane of the role, if it has one]]
    Bound,              \* [Contracts -> [Lanes -> the model it binds, if it does]]
    Official,           \* [Defaults -> [Lanes -> the model for the lane's class, if any]]
    Models, Injectable, \* concrete models, and the allowlist among them
    Calls,              \* the calls that the guard may have to judge
    MaxWrites           \* bound on installs, uninstalls and damage from outside

ASSUME RootAssumption == Last \in Nat \ {0}
None == "none"
ASSUME RouteAssumption ==
    /\ LaneOf \in [Contracts -> [Roles -> Lanes \cup {None}]]
    /\ Bound \in [Contracts -> [Lanes -> Models \cup {None}]]
    /\ Official \in [Defaults -> [Lanes -> Models \cup {"unsafe", None}]]
ASSUME ModelAssumption ==
    Injectable \subseteq Models /\ Models \cap {"unset", "inherit", "main", "unsafe", None} = {}
ASSUME NameAssumption == None \notin Contracts \cup Defaults \cup Roles \cup Lanes
ASSUME BoundAssumption == MaxWrites \in Nat

Roots == 1 .. Last
Snapshots == Contracts \cup Defaults
-----------------------------------------------------------------------------
(* Where a lane becomes a model: what the contract binds, or what the      *)
(* official runtime defaults have for its class.                           *)
LaneModel(c, d, lane) ==
    IF Bound[c][lane] # None THEN Bound[c][lane] ELSE IF d # None THEN Official[d][lane] ELSE None

Managed(c, role) == role # None /\ LaneOf[c][role] # None
Route(c, d, role) == LaneModel(c, d, LaneOf[c][role])

(* The routes of a contract: every role has a model, or none is judged.    *)
Routable(c, d) == \A role \in Roles : Managed(c, role) => Route(c, d, role) \in Models
Routes(c, d) == [role \in Roles |-> IF Managed(c, role) THEN Route(c, d, role) ELSE None]

(* A contract that is not routable is told by the first role, any here,    *)
(* that has no model.                                                      *)
Fault(c, d) ==
    LET role == CHOOSE r \in Roles : Managed(c, r) /\ Route(c, d, r) \notin Models IN
    IF Route(c, d, role) = "unsafe" THEN "INVALID_CONTRACT" ELSE "AMBIGUOUS_MODEL_RESOLUTION"

(* An install projects the models of all lanes, of those too that no role  *)
(* uses, into the guidance, or refuses.                                    *)
Projects(c, d) == \A lane \in Lanes : LaneModel(c, d, lane) \in Models
-----------------------------------------------------------------------------
(* A report cannot be read, does not parse, has another schema or a        *)
(* malformed pointer ("bad"), or points to its snapshots.  It names the    *)
(* models that its install requested for the roles.                        *)
Reports == [state : {"absent", "locked", "bad", "ok"},
            contract : Contracts \cup {None}, defaults : Defaults \cup {None},
            routes : [Roles -> Models \cup {None}]]
NoReport == [state |-> "absent", contract |-> None, defaults |-> None, routes |-> [role \in Roles |-> None]]
Pointers(c, d) == [state |-> "ok", contract |-> c, defaults |-> d, routes |-> Routes(c, d)]
States == {"absent", "good", "forged"}
Named(rep) == {rep.contract, rep.defaults} \ {None}

VARIABLES
    report,     \* the report at each root
    store,      \* state of each snapshot at each root
    job,        \* what the writer of each root is doing
    pc, at,     \* the guard: what it does next, at which root
    got, loaded,\* the report it read, the contract it loaded
    input, out, \* the call it judges, its verdict
    steady, effective, changes, removed,    \* history of its walk, see below
    writes, harms

disk == <<report, store>>
guard == <<pc, at, got, loaded, input, out>>
history == <<steady, effective, changes, removed>>
bounds == <<writes, harms>>
vars == <<disk, job, guard, history, bounds>>
-----------------------------------------------------------------------------
(* The decision.  The model of a call is the environment's, the call's or  *)
(* its override; "inherit" in the environment is no choice.                *)

Inputs == [role : Roles \cup {None}, env : Models \cup {"unset", "inherit"},
           call : Models \cup {"unset"}, override : Models \cup {"unset"}]

NoCall == [role |-> None, env |-> "unset", call |-> "unset", override |-> "unset"]
ASSUME CallAssumption == Calls \subseteq Inputs

(* Bugs: the environment is not looked at; nothing but the environment is. *)
CallFirst(in) == IF in.call # "unset" THEN in.call ELSE in.override
EnvironmentOnly(in) == IF in.env = "inherit" THEN "unset" ELSE in.env

ExplicitModel(in) ==
    CASE in.env \notin {"unset", "inherit"} -> in.env
      [] in.env \in {"unset", "inherit"} /\ in.call # "unset" -> in.call
      [] OTHER -> in.override

Verdict(decision, reason) == [decision |-> decision, reason |-> reason, injected |-> "unset"]

Evaluate(in, c, d) ==
    LET declared == ExplicitModel(in)  routed == Route(c, d, in.role) IN
    CASE in.role = None -> Verdict("deny", "INVALID_AGENT_TOOL_INPUT")
      [] in.role # None /\ ~Routable(c, d) -> Verdict("deny", Fault(c, d))
      [] OTHER ->
        CASE ~Managed(c, in.role) -> Verdict("allow", "UNMANAGED_ROLE")
          [] Managed(c, in.role) /\ declared = routed -> Verdict("allow", "CONTRACT_MATCH")
          [] Managed(c, in.role) /\ declared \notin {"unset", routed} -> Verdict("allow", "EXPLICIT_MODEL_RETAINED")
          [] OTHER ->
            CASE in.env = "inherit" -> Verdict("allow", "ROUTED_MODEL_WITHHELD_INHERIT")
              [] in.env # "inherit" /\ routed \notin Injectable -> Verdict("allow", "ROUTED_MODEL_NOT_INJECTABLE")
              [] OTHER -> [Verdict("allow", "ROUTED_MODEL_INJECTED") EXCEPT !.injected = routed]

(* The call as the runtime gets it, and the model the runtime then runs:   *)
(* before v2.1.196 "inherit" forced the model of the main conversation.    *)
Updated(in, verdict) == IF verdict.injected = "unset" THEN in ELSE [in EXCEPT !.call = verdict.injected]
ModelRun(in, early) ==
    CASE in.env \notin {"unset", "inherit"} -> in.env
      [] in.env = "inherit" /\ early -> "main"
      [] OTHER -> IF in.call # "unset" THEN in.call
                  ELSE IF in.override # "unset" THEN in.override ELSE "main"
-----------------------------------------------------------------------------
Present(rep) == {r \in Roots : rep[r].state # "absent"}

(* The root, or none, whose report is in force, and the contract it names. *)
InForce(rep) ==
    LET near == {r \in Present(rep) : \A q \in Present(rep) : r <= q} IN
    {[root |-> r, contract |-> rep[r].contract] : r \in near}

Idle == [step |-> "idle", new |-> NoReport, old |-> NoReport, kept |-> [s \in Snapshots |-> "absent"]]
NoVerdict == Verdict("none", "none")

Init ==
    /\ report \in [Roots -> {NoReport} \cup
                        {Pointers(p[1], p[2]) : p \in {q \in Contracts \X (Defaults \cup {None}) : Routable(q[1], q[2])}}]
    /\ store = [r \in Roots |-> [s \in Snapshots |-> IF s \in Named(report[r]) THEN "good" ELSE "absent"]]
    /\ job = [r \in Roots |-> Idle]
    /\ pc = "walk" /\ at = 1
    /\ got = NoReport /\ loaded = None
    /\ input = NoCall
    /\ out = NoVerdict
    /\ steady = Present(report) /\ effective = InForce(report)
    /\ changes = 0 /\ removed = FALSE
    /\ writes = 0 /\ harms = 0

(* History of the walk: the roots that had a report all the time, every    *)
(* contract that was in force, how often a report changed.                 *)
SetReport(r, rep) ==
    /\ report' = [report EXCEPT ![r] = rep]
    /\ steady' = steady \cap Present(report')
    /\ effective' = effective \cup InForce(report')
    /\ changes' = IF rep = report[r] THEN changes ELSE changes + 1

Exit(verdict) == pc' = "done" /\ out' = verdict
-----------------------------------------------------------------------------
(* The guard.  Only "absent" lets the walk go on.                          *)

(* The working directory cannot be made canonical.                         *)
Unresolvable ==
    /\ pc = "walk" /\ at = 1
    /\ Exit(Verdict("deny", "CWD_UNRESOLVABLE"))
    /\ UNCHANGED <<disk, job, at, got, loaded, input, history, bounds>>

(* A bug: a report that cannot be read is passed by as well.               *)
ReadPastLocked ==
    /\ pc = "walk"
    /\ LET rep == report[at] IN
       \/ /\ rep.state \in {"absent", "locked"} /\ at < Last
          /\ at' = at + 1 /\ UNCHANGED <<pc, got, out>>
       \/ /\ rep.state \in {"locked", "bad"} \/ (rep.state = "absent" /\ at = Last)
          /\ Exit(Verdict("deny", "REPORT")) /\ UNCHANGED <<at, got>>
       \/ /\ rep.state = "ok"
          /\ got' = rep /\ pc' = "contract" /\ UNCHANGED <<at, out>>
    /\ UNCHANGED <<disk, job, loaded, input, history, bounds>>

ReadReport ==
    /\ pc = "walk"
    /\ LET rep == report[at] IN
       \/ /\ rep.state = "absent" /\ at < Last
          /\ at' = at + 1 /\ UNCHANGED <<pc, got, out>>
       \/ /\ rep.state \in {"locked", "bad"} \/ (rep.state = "absent" /\ at = Last)
          /\ Exit(Verdict("deny", "REPORT")) /\ UNCHANGED <<at, got>>
       \/ /\ rep.state = "ok"
          /\ got' = rep /\ pc' = "contract" /\ UNCHANGED <<at, out>>
    /\ UNCHANGED <<disk, job, loaded, input, history, bounds>>

(* A bug: the digest of what was read is not compared.                     *)
LoadUnverified ==
    /\ pc = "contract"
    /\ \/ /\ store[at][got.contract] # "absent"
          /\ loaded' = IF store[at][got.contract] = "good" THEN got.contract
                       ELSE CHOOSE c \in Contracts : c # got.contract
          /\ pc' = IF got.defaults = None THEN "judge" ELSE "defaults"
          /\ UNCHANGED out
       \/ store[at][got.contract] = "absent" /\ Exit(Verdict("deny", "SNAPSHOT")) /\ UNCHANGED loaded
    /\ UNCHANGED <<disk, job, at, got, input, history, bounds>>

LoadContract ==
    /\ pc = "contract"
    /\ \/ /\ store[at][got.contract] = "good"
          /\ loaded' = got.contract
          /\ pc' = IF got.defaults = None THEN "judge" ELSE "defaults"
          /\ UNCHANGED out
       \/ store[at][got.contract] # "good" /\ Exit(Verdict("deny", "SNAPSHOT")) /\ UNCHANGED loaded
    /\ UNCHANGED <<disk, job, at, got, input, history, bounds>>

LoadDefaults ==
    /\ pc = "defaults"
    /\ \/ store[at][got.defaults] = "good" /\ pc' = "judge" /\ UNCHANGED out
       \/ store[at][got.defaults] # "good" /\ Exit(Verdict("deny", "SNAPSHOT"))
    /\ UNCHANGED <<disk, job, at, got, loaded, input, history, bounds>>

(* A bug: the runtime defaults do not reach the resolution of the routes.  *)
JudgeByContract(in) ==
    /\ pc = "judge"
    /\ input' = in
    /\ Exit(Evaluate(in, loaded, None))
    /\ UNCHANGED <<disk, job, at, got, loaded, history, bounds>>

Judge(in) ==
    /\ pc = "judge"
    /\ input' = in
    /\ Exit(Evaluate(in, loaded, got.defaults))
    /\ UNCHANGED <<disk, job, at, got, loaded, history, bounds>>
-----------------------------------------------------------------------------
(* The writers.  Snapshots land before the report that points to them; an  *)
(* uninstall takes the report before it reclaims the store.                *)

(* They rest once the guard has read all it reads.                         *)
Reading == pc \notin {"judge", "done"}
Work(r, from, to) == Reading /\ job[r].step = from /\ job' = [job EXCEPT ![r].step = to]

Begin(r, c, d) ==
    /\ Projects(c, d)
    /\ Reading /\ job[r] = Idle /\ writes + harms < MaxWrites
    /\ job' = [job EXCEPT ![r] = [step |-> "stores", new |-> Pointers(c, d), old |-> report[r],
                                  kept |-> store[r]]]
    /\ writes' = writes + 1
    /\ UNCHANGED <<disk, guard, history, harms>>

PutSnapshots(r) ==
    /\ Work(r, "stores", "report")
    /\ store' = [store EXCEPT ![r] = [s \in Snapshots |-> IF s \in Named(job[r].new) THEN "good" ELSE @[s]]]
    /\ UNCHANGED <<report, guard, history, bounds>>

(* A bug: the report may land before its snapshots.                        *)
PutReportFirst(r) ==
    /\ Work(r, "stores", "landed") \/ Work(r, "report", "landed")
    /\ SetReport(r, job[r].new)
    /\ UNCHANGED <<store, guard, removed, bounds>>

PutReport(r) ==
    /\ Work(r, "report", "landed")
    /\ SetReport(r, job[r].new)
    /\ UNCHANGED <<store, guard, removed, bounds>>

(* A bug: the word of the manifest's phase is left as the writer's step.   *)
CompleteAsStep(r) ==
    /\ Reading /\ job[r].step \in {"stores", "landed"}
    /\ job' = [job EXCEPT ![r].step = "completed"]
    /\ UNCHANGED <<disk, guard, history, bounds>>

(* The end of a commit, or of an install that is aborted before it.        *)
Complete(r) ==
    /\ Reading /\ job[r].step \in {"stores", "landed"}
    /\ job' = [job EXCEPT ![r] = Idle]
    /\ UNCHANGED <<disk, guard, history, bounds>>

(* A rollback, or a recovery after a crash: the report first, then the     *)
(* snapshots as they were.                                                 *)
RestoreReport(r) ==
    /\ Work(r, "report", "undo") \/ Work(r, "landed", "undo")
    /\ SetReport(r, job[r].old)
    /\ removed' = (removed \/ job[r].step = "landed")
    /\ UNCHANGED <<store, guard, bounds>>

RestoreStore(r) ==
    /\ Reading /\ job[r].step = "undo"
    /\ job' = [job EXCEPT ![r] = Idle]
    /\ store' = [store EXCEPT ![r] = [s \in Snapshots |-> IF s \in Named(job[r].new) THEN job[r].kept[s] ELSE @[s]]]
    /\ UNCHANGED <<report, guard, history, bounds>>

TakeReport(r) ==
    /\ Reading /\ job[r] = Idle /\ report[r].state = "ok" /\ writes + harms < MaxWrites
    /\ job' = [job EXCEPT ![r].step = "reclaim", ![r].old = report[r]]
    /\ SetReport(r, NoReport)
    /\ writes' = writes + 1
    /\ UNCHANGED <<store, guard, removed, harms>>

(* An uninstall that fails after its report went is rolled back.           *)
PutBack(r) ==
    /\ Reading /\ job[r].step = "reclaim"
    /\ job' = [job EXCEPT ![r] = Idle]
    /\ SetReport(r, job[r].old)
    /\ UNCHANGED <<store, guard, removed, bounds>>

Reclaim(r) ==
    /\ Reading /\ job[r].step = "reclaim"
    /\ job' = [job EXCEPT ![r] = Idle]
    /\ store' = [store EXCEPT ![r] = [s \in Snapshots |-> "absent"]]
    /\ removed' = TRUE
    /\ UNCHANGED <<report, guard, steady, effective, changes, bounds>>

(* Damage from outside: a report or a snapshot goes bad.                   *)
Harm == Reading /\ writes + harms < MaxWrites /\ harms' = harms + 1 /\ UNCHANGED <<job, guard, removed, writes>>

HarmReport(r, state) ==
    /\ Harm /\ job[r] = Idle /\ report[r].state = "ok"
    /\ SetReport(r, [report[r] EXCEPT !.state = state])
    /\ UNCHANGED store

HarmSnapshot(r, s) ==
    /\ Harm /\ store[r][s] = "good"
    /\ store' = [store EXCEPT ![r][s] = "forged"]
    /\ UNCHANGED <<report, steady, effective, changes>>
-----------------------------------------------------------------------------
Guard == Unresolvable \/ ReadReport \/ LoadContract \/ LoadDefaults \/ \E in \in Calls : Judge(in)

Writer(r) ==
    \/ \E c \in Contracts, d \in Defaults \cup {None} : Begin(r, c, d)
    \/ PutSnapshots(r) \/ PutReport(r) \/ Complete(r)
    \/ RestoreReport(r) \/ RestoreStore(r)
    \/ TakeReport(r) \/ PutBack(r) \/ Reclaim(r)

Outside(r) ==
    \/ \E state \in {"locked", "bad"} : HarmReport(r, state)
    \/ \E s \in Snapshots : HarmSnapshot(r, s)

Decided == pc = "done" /\ UNCHANGED vars

Next == Guard \/ (\E r \in Roots : Writer(r) \/ Outside(r)) \/ Decided

Spec == Init /\ [][Next]_vars
-----------------------------------------------------------------------------
TypeOK ==
    /\ report \in [Roots -> Reports]
    /\ store \in [Roots -> [Snapshots -> States]]
    /\ job \in [Roots -> [step : {"idle", "stores", "report", "landed", "undo", "reclaim"},
                          new : Reports, old : Reports, kept : [Snapshots -> States]]]
    /\ pc \in {"walk", "contract", "defaults", "judge", "done"} /\ at \in Roots
    /\ got \in Reports /\ loaded \in Contracts \cup {None}
    /\ input \in Inputs
    /\ out.decision \in {"none", "allow", "deny"}
    /\ steady \subseteq Roots /\ removed \in BOOLEAN
    /\ changes \in Nat /\ writes \in Nat /\ harms \in Nat

Ruled == pc = "done" /\ loaded # None /\ out.reason \notin {"REPORT", "SNAPSHOT"}

(* No cross-scope fallback: a contract from an outer root never decides    *)
(* while a nearer root has a report, be it unreadable, from the beginning  *)
(* of the walk to its end.                                                 *)
NearestReportDecides == Ruled => \A r \in steady : at <= r

(* The contract that decides is one that was in force while the guard      *)
(* walked, unless reports changed more than once meanwhile: never a forged *)
(* one, never one that a finished reinstall had replaced before.           *)
DecidedWasInForce == Ruled /\ changes <= 1 => [root |-> at, contract |-> loaded] \in effective

(* Installs never get in the way of a spawn: a guard that has read a       *)
(* report finds its snapshots, unless an uninstall reclaimed them, an      *)
(* install, a first or a later one, was rolled back after its report had   *)
(* landed, or they were damaged.  (A rollback before that takes no         *)
(* snapshot away that a report on disk ever named.)                        *)
InstallsNeverDeny ==
    pc = "done" /\ out.reason = "SNAPSHOT" => removed \/ harms > 0

(* A deliberate choice stands, on every version of the runtime: unless the *)
(* environment and the call both left the model open, and the contract     *)
(* routes the role, what runs is what would run without the guard.         *)
Open(in) == Managed(loaded, in.role) /\ in.env = "unset" /\ in.call = "unset" /\ in.override = "unset"
ChoiceStands ==
    Ruled /\ out.decision = "allow" /\ ~Open(input) =>
        \A early \in BOOLEAN : ModelRun(Updated(input, out), early) = ModelRun(input, early)

(* A model that the guard says it wrote into the call is the one that      *)
(* runs, on every version of the runtime.                                  *)
InjectionTakesEffect ==
    Ruled /\ out.injected # "unset" =>
        \A early \in BOOLEAN : ModelRun(Updated(input, out), early) = out.injected

(* Guard and guidance do not drift apart: long after its install, from     *)
(* snapshots, the guard writes the model that the report says was          *)
(* requested for the role, into every call that leaves it open if that     *)
(* model may be injected; and no contract that an install has put there,   *)
(* one of an earlier version that binds only the lanes it uses included,   *)
(* is too ambiguous, or too unsafe, to judge by (resolveLaneModels).       *)
GuardFollowsReport ==
    Ruled =>
        /\ out.reason \notin {"AMBIGUOUS_MODEL_RESOLUTION", "INVALID_CONTRACT"}
        /\ Open(input) =>
            out.injected = IF got.routes[input.role] \in Injectable THEN got.routes[input.role] ELSE "unset"
=============================================================================
