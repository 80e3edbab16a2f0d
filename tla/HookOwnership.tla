---------------------------- MODULE HookOwnership ----------------------------
(***************************************************************************)
(* Which hooks of settings.json an install or an uninstall of the Claude   *)
(* target may take out.  A run first reads the report and the settings     *)
(* (claudeTransitionAction, receiptAdapters of src/bin/orbitlane.js), then *)
(* reads them again in its transaction and writes both (mergeSettings,     *)
(* previousGuardTuples of src/src/installer/index.js).  The transaction is *)
(* one step here: InstallTransaction shows that it may be.  Between the    *)
(* two, other runs commit and the user edits.                              *)
(*                                                                         *)
(* A command line is a kind and the run that rendered it: the telemetry    *)
(* reference in it is fresh for every run, so that no run can tell by the  *)
(* command alone which hooks an earlier run left.                          *)
(***************************************************************************)
EXTENDS Naturals

CONSTANTS
    Runs,       \* invocations of the command line, numbers from 1 up
    Op,         \* [Runs -> "guard" | "guidance" | "uninstall"]
    MaxActs     \* bound on what the user does

ASSUME RunsAssumption == Runs \subseteq Nat \ {0}
ASSUME OpAssumption == Op \in [Runs -> {"guard", "guidance", "uninstall"}]
ASSUME ActsAssumption == MaxActs \in Nat

Commands == [by : {"user", "guard", "usage"}, run : Runs \cup {0}]
Tuples == [event : {"Pre", "Post"}, matcher : {"Agent", "Bash"}, command : Commands]
NoCommand == [by |-> "none", run |-> 0]

Hook(event, by, p) ==
    [event |-> event, matcher |-> "Agent", command |-> [by |-> by, run |-> p]]
Guard(p) == Hook("Pre", "guard", p)
Usage(p) == Hook("Post", "usage", p)
UserHooks == {Hook("Pre", "user", 0), [Hook("Post", "user", 0) EXCEPT !.matcher = "Bash"]}

Versioned == {"guidance", "managed1", "managed2"}
Reports ==
    [kind : {"absent", "broken", "bare", "legacy"} \cup Versioned,
     guard : Commands \cup {NoCommand}, hooks : SUBSET Tuples]
Report(kind, guard, hooks) == [kind |-> kind, guard |-> guard, hooks |-> hooks]
NoReport == Report("absent", NoCommand, {})

VARIABLES
    settings,   \* whether settings.json parses, and the hooks in it
    report,     \* the report: its receipt's version and shape, what it names
    store,      \* whether the snapshot that the report points to verifies
    pc, plan,   \* of each run: where it is, and what it made of its first read
    mine,       \* the hooks that the user put into the settings
    slipped,    \* whether a report that named live hooks was lost or passed by
    acts        \* number of things the user did

fvars == <<settings, report, store>>
uvars == <<mine, slipped, acts>>
vars == <<fvars, pc, plan, uvars>>
-----------------------------------------------------------------------------
(* A bug: the shape of a receipt is not looked at.                         *)
AnyShape(r) ==
    CASE r.kind = "managed2" -> r.hooks
      [] r.kind \in {"managed1", "legacy", "guidance"} /\ r.guard # NoCommand ->
            {[event |-> "Pre", matcher |-> "Agent", command |-> r.guard]}
      [] OTHER -> {}

(* The hooks a report proves to be OrbitLane's.  A guidance-only receipt    *)
(* proves nothing, whatever command an older projection still names.       *)
ReceiptHooks(r) ==
    CASE r.kind = "managed2" -> r.hooks
      [] r.kind \in {"managed1", "legacy"} ->
            {[event |-> "Pre", matcher |-> "Agent", command |-> r.guard]}
      [] OTHER -> {}

(* A bug: the command counts under any matcher.                            *)
HasCommands(s, ts) ==
    s.ok /\ \A t \in ts : \E h \in s.hooks : h.event = t.event /\ h.command = t.command

HasHookTuples(s, ts) == s.ok /\ ts \subseteq s.hooks

(* Bugs: hooks are told apart by matcher only; the earlier hooks stay.     *)
MergeByMatcher(s, desired, previous, remove) ==
    [s EXCEPT !.hooks = {h \in @ : \A o \in desired \cup previous :
                            <<h.event, h.matcher>> # <<o.event, o.matcher>>}
                        \cup (IF remove THEN {} ELSE desired)]
MergeStacking(s, desired, previous, remove) ==
    [s EXCEPT !.hooks = (@ \ desired) \cup (IF remove THEN previous ELSE desired)]

MergeSettings(s, desired, previous, remove) ==
    [s EXCEPT !.hooks = (@ \ (desired \cup previous)) \cup (IF remove THEN {} ELSE desired)]

(* The command of an older guard is still in some PreToolUse entry.        *)
StaleCommand(r, s) ==
    /\ r.guard # NoCommand
    /\ ~s.ok \/ \E h \in s.hooks : h.event = "Pre" /\ h.command = r.guard

Unproven(r, s) == ReceiptHooks(r) = {} \/ ~HasHookTuples(s, ReceiptHooks(r))

InstallRefused ==
    \/ report.kind = "broken"
    \/ report.kind \in Versioned /\ ~store
    \/ report.kind \notin {"absent", "guidance"} /\ Unproven(report, settings)

UninstallRefused ==
    IF report.kind = "guidance" THEN StaleCommand(report, settings)
    ELSE Unproven(report, settings)

Refused(p) == IF Op[p] = "uninstall" THEN UninstallRefused ELSE InstallRefused

(* The adapter of a run: the hooks it is to take out, and whether it has   *)
(* the path of the settings at all.                                        *)
Transition(p) == Op[p] = "guidance" /\ report.kind \notin {"absent", "guidance"}
Adapter(p) ==
    [tuples   |-> IF Op[p] = "guard" \/ report.kind = "guidance" THEN {} ELSE ReceiptHooks(report),
     settings |-> CASE Op[p] = "guard"     -> TRUE
                    [] Op[p] = "guidance"  -> Transition(p)
                    [] Op[p] = "uninstall" -> report.kind # "guidance",
     read     |-> report,
     seen     |-> settings]

Plans == [tuples : SUBSET Tuples, settings : BOOLEAN, read : Reports,
          seen : [ok : BOOLEAN, hooks : SUBSET Tuples]]
NoPlan == [tuples |-> {}, settings |-> FALSE, read |-> NoReport,
           seen |-> [ok |-> TRUE, hooks |-> {}]]

(* What an earlier version or nobody installed; a guidance-only report may *)
(* name a guard that is still there.                                       *)
Installed ==
    {<<NoReport, {}>>, <<Report("bare", NoCommand, {}), {Guard(0)}>>}
    \cup {<<Report(k, Guard(0).command, {}), {Guard(0)}>> : k \in {"legacy", "managed1", "guidance"}}

Init ==
    /\ \E i \in Installed :
        /\ report = i[1]
        /\ settings = [ok |-> TRUE, hooks |-> i[2] \cup {Hook("Pre", "user", 0)}]
        /\ slipped = (i[1].kind \in {"bare", "guidance"})
    /\ store = TRUE
    /\ mine = {Hook("Pre", "user", 0)}
    /\ pc = [p \in Runs |-> "idle"]
    /\ plan = [p \in Runs |-> NoPlan]
    /\ acts = 0
-----------------------------------------------------------------------------
Goto(p, from, to) == pc[p] = from /\ pc' = [pc EXCEPT ![p] = to]

Prepare(p) ==
    /\ ~Refused(p)
    /\ Goto(p, "idle", "planned")
    /\ plan' = [plan EXCEPT ![p] = Adapter(p)]
    /\ UNCHANGED <<fvars, uvars>>

(* A bug: the run is given the word of a rolled back transaction.          *)
RefuseFailed(p) ==
    /\ Refused(p)
    /\ Goto(p, "idle", "failed")
    /\ UNCHANGED <<fvars, plan, uvars>>

Refuse(p) ==
    /\ Refused(p)
    /\ Goto(p, "idle", "refused")
    /\ UNCHANGED <<fvars, plan, uvars>>

(* The diff of the transaction: what it can no longer verify, or parse,    *)
(* fails the run before anything is written.                               *)
Diffable(p) ==
    /\ plan[p].settings => report.kind # "broken" /\ settings.ok
    /\ Op[p] = "guidance" /\ plan[p].settings =>
        plan[p].read = report /\ HasHookTuples(settings, plan[p].tuples)

(* A bug: the receipt has the command of the preflight for the observer.   *)
PreflightReport(p) ==
    CASE Op[p] = "guard"     -> Report("managed2", Guard(p).command, {Guard(p), Usage(0)})
      [] Op[p] = "guidance"  -> Report("guidance", NoCommand, {})
      [] Op[p] = "uninstall" -> NoReport

NewReport(p) ==
    CASE Op[p] = "guard"     -> Report("managed2", Guard(p).command, {Guard(p), Usage(p)})
      [] Op[p] = "guidance"  -> Report("guidance", NoCommand, {})
      [] Op[p] = "uninstall" -> NoReport

Commit(p) ==
    /\ Diffable(p)
    /\ Goto(p, "planned", "done")
    /\ settings' = IF plan[p].settings
                   THEN MergeSettings(settings,
                                      IF Op[p] = "guard" THEN {Guard(p), Usage(p)} ELSE plan[p].tuples,
                                      ReceiptHooks(report), Op[p] # "guard")
                   ELSE settings
    /\ report' = NewReport(p)
    /\ store' = (store \/ Op[p] # "uninstall")
    /\ slipped' = (slipped \/ (~plan[p].settings /\ ReceiptHooks(report) \cap settings.hooks # {}))
    /\ plan' = [plan EXCEPT ![p] = NoPlan]
    /\ UNCHANGED <<mine, acts>>

CommitFails(p) ==
    /\ ~Diffable(p)
    /\ Goto(p, "planned", "refused")
    /\ plan' = [plan EXCEPT ![p] = NoPlan]
    /\ UNCHANGED <<fvars, uvars>>
-----------------------------------------------------------------------------
Act == acts < MaxActs /\ acts' = acts + 1 /\ UNCHANGED <<pc, plan>>

AddHook(h) ==
    /\ Act /\ settings.ok
    /\ settings' = [settings EXCEPT !.hooks = @ \cup {h}]
    /\ mine' = mine \cup {h}
    /\ UNCHANGED <<report, store, slipped>>

DropHook(h) ==
    /\ Act /\ settings.ok /\ h \in settings.hooks
    /\ settings' = [settings EXCEPT !.hooks = @ \ {h}]
    /\ mine' = mine \ {h}
    /\ UNCHANGED <<report, store, slipped>>

(* A hook of a run is put under another matcher, or copied there.          *)
Elsewhere(h) == [h EXCEPT !.matcher = "Bash"]
MoveHook(h) ==
    /\ Act /\ settings.ok /\ h \in settings.hooks \ UserHooks
    /\ settings' = [settings EXCEPT !.hooks = (@ \ {h}) \cup {Elsewhere(h)}]
    /\ UNCHANGED <<report, store, mine, slipped>>
CopyHook(h) ==
    /\ Act /\ settings.ok /\ h \in settings.hooks \ UserHooks
    /\ settings' = [settings EXCEPT !.hooks = @ \cup {Elsewhere(h)}]
    /\ UNCHANGED <<report, store, mine, slipped>>

(* settings.json is left in the middle of an edit, or mended.              *)
Garble ==
    /\ Act
    /\ settings' = [settings EXCEPT !.ok = ~@]
    /\ UNCHANGED <<report, store, mine, slipped>>

LoseReport(kind) ==
    /\ Act
    /\ report' = Report(kind, NoCommand, {})
    /\ slipped' = (slipped \/ ReceiptHooks(report) \cap settings.hooks # {})
    /\ UNCHANGED <<settings, store, mine>>

LoseStore ==
    /\ Act /\ store
    /\ store' = FALSE
    /\ UNCHANGED <<settings, report, mine, slipped>>

User ==
    \/ \E h \in UserHooks : AddHook(h)
    \/ \E h \in settings.hooks : DropHook(h) \/ MoveHook(h) \/ CopyHook(h)
    \/ \E k \in {"absent", "broken"} : LoseReport(k)
    \/ Garble \/ LoseStore

Ended == (\A p \in Runs : pc[p] \in {"done", "refused"}) /\ UNCHANGED vars

Next ==
    \/ \E p \in Runs : Prepare(p) \/ Refuse(p) \/ Commit(p) \/ CommitFails(p)
    \/ User
    \/ Ended

Spec == Init /\ [][Next]_vars
-----------------------------------------------------------------------------
TypeOK ==
    /\ settings \in [ok : BOOLEAN, hooks : SUBSET Tuples]
    /\ report \in Reports
    /\ store \in BOOLEAN /\ slipped \in BOOLEAN
    /\ pc \in [Runs -> {"idle", "planned", "done", "refused"}]
    /\ plan \in [Runs -> Plans]
    /\ mine \in SUBSET Tuples
    /\ acts \in 0 .. MaxActs

(* No run, however stale what it first read, takes a hook of the user.     *)
UserHooksKept == mine \subseteq settings.hooks

(* Every hook that a run put under the Agent matcher, and no other run has *)
(* taken out, is named by the report: a later run will find it.  Hooks are *)
(* never stacked.  (Until a report is lost, or a run that has no settings  *)
(* path overwrites a report it did not read.)                              *)
HooksTracked ==
    slipped \/
    {h \in settings.hooks : h.matcher = "Agent" /\ h.command.by # "user"} \subseteq ReceiptHooks(report)

(* No run locks the user out: while he leaves report and hooks alone, and  *)
(* no report was passed by, whatever is installed can be installed anew    *)
(* and uninstalled.  Only an uninstall of nothing is refused.              *)
NeverLockedOut ==
    [][\A p \in Runs : pc[p] = "idle" /\ pc'[p] = "refused" =>
        acts > 0 \/ slipped \/ (Op[p] = "uninstall" /\ report.kind = "absent")]_vars

(* Delete authority rests on receipts only: a run takes a hook out if the  *)
(* report it read first, or the one it replaces, has a receipt for it.     *)
Owns(r, h) ==
    /\ r.kind \notin {"absent", "broken", "bare", "guidance"}
    /\ h.matcher = "Agent" /\ (h \in r.hooks \/ (h.event = "Pre" /\ h.command = r.guard))
DeleteAuthority ==
    [][\A p \in Runs : pc'[p] # pc[p] =>
        \A h \in settings.hooks \ settings'.hooks : Owns(report, h) \/ Owns(plan[p].read, h)]_vars

(* An uninstall that finds the settings as they were when it proved its    *)
(* ownership takes every hook under Agent with a command the report named, *)
(* and never loses one that was moved away: what it leaves is only a copy  *)
(* that the user had made of a hook, which stood beside its original until *)
(* then.  (That copy outlives the runtime that is then removed.)           *)
Names(r, h) ==
    r.kind \notin {"absent", "broken", "bare"} /\
    ((\E o \in r.hooks : h.event = o.event /\ h.command = o.command) \/ (h.event = "Pre" /\ h.command = r.guard))
Original(h) == [h EXCEPT !.matcher = "Agent"]
UninstallClean ==
    [][\A p \in Runs : Op[p] = "uninstall" /\ pc'[p] # pc[p] /\ pc'[p] = "done" /\ plan[p].seen = settings
        => \A h \in settings'.hooks : Names(report, h) =>
               h.matcher # "Agent" /\ Original(h) \in settings.hooks]_vars
=============================================================================
