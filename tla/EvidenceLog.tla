----------------------------- MODULE EvidenceLog -----------------------------
(***************************************************************************)
(* The local evidence of the Claude target: the spawn guard and the usage  *)
(* observer append an event per Agent call to the JSONL files of the layer *)
(* that installed them, each in a hook process of its own, and the         *)
(* estimator reads the project's files while they run                      *)
(* (src/src/telemetry/storage.js, src/src/guards/claude-usage-hook.js,     *)
(* src/src/estimate/claude.js).                                            *)
(*                                                                         *)
(* A file is the sequence of the writes that reached it.  A write leaves a *)
(* whole line or is cut short of its newline; what is written next to an   *)
(* unfinished line becomes part of that line.                              *)
(***************************************************************************)
EXTENDS Naturals, Sequences, FiniteSets

CONSTANTS
    Calls,          \* calls of the Agent tool
    Collectors,     \* the references of the installs, one fresh for each
    Scope,          \* the layer of each install
    Hooks,          \* the installs whose hooks the session of a call has loaded
    Linking,        \* installs whose observer is told the invocation: none of this
                    \* version, but the format and its readers provide for them
    MaxOpen,        \* bound on the calls under way at a time
    MaxShort,       \* bound on the writes cut short
    MaxChanges,     \* bound on the times that the project's report comes or goes
    MaxReports      \* bound on the estimates

Scopes == {"project", "global"}
Kinds == {"decisions", "usages"}

ASSUME ScopeAssumption == Scope \in [Collectors -> Scopes]
ASSUME HooksAssumption == Hooks \in [Calls -> SUBSET Collectors \ {{}}]
ASSUME LinkingAssumption == Linking \subseteq Collectors
ASSUME BoundAssumption == MaxOpen \in Nat /\ MaxShort \in Nat /\ MaxChanges \in Nat /\ MaxReports \in Nat

None == "none"
ASSUME NoneAssumption == None \notin Collectors

Events == [kind : Kinds, call : Calls, by : Collectors, selected : Scopes \cup {None}]
Writes == [event : Events, part : {"line", "cut"}]
NoReport == [collector |-> None, counted |-> {}, corrupt |-> FALSE,
             unended |-> {}, missed |-> {}]

VARIABLES
    phase, waiting, \* of each call: how far it is, the hooks that have yet to run
    present,        \* whether the project has a report for its guards to resolve
    crossed,        \* calls during whose guards the report came or went
    log,            \* the files of each layer
    reading, toRead,    \* whether the estimator has begun, the files it has yet to read
    read, known,    \* what it has read, and the usages written when it began
    report,         \* the last estimate, and what it missed of the known
    short, changes, reports     \* writes cut short, changes of the report, estimates

cvars == <<phase, waiting, present, crossed, changes>>
rvars == <<reading, toRead, read, known, report, reports>>
vars == <<cvars, log, rvars, short>>
-----------------------------------------------------------------------------
(* Reading.  A line is a record when it is one whole write, corrupt when   *)
(* unfinished writes are glued to it, and skipped when it has no newline.  *)
AtLineStart(l, i) == i = 1 \/ l[i - 1].part = "line"

(* A bug: an unfinished last line, which may parse, is a record too.       *)
WithTail(l) == {i \in DOMAIN l : AtLineStart(l, i) /\ (l[i].part = "line" \/ i = Len(l))}

Records(l) == {i \in DOMAIN l : AtLineStart(l, i) /\ l[i].part = "line"}
Ends(l) == {i \in DOMAIN l : l[i].part = "line"}
Partial(l) == l # <<>> /\ l[Len(l)].part # "line"
Corrupt(l) == Ends(l) \ Records(l)
Unended(l) == {l[i].event : i \in {j \in DOMAIN l : \A n \in DOMAIN l : n >= j => l[n].part # "line"}}

(* Whether a reading shows that lines are corrupt.  (An unfinished last    *)
(* line shows nothing: it only counts among the lines that were read.)     *)
(* A bug: the corrupt lines of one of the files are forgotten.             *)
ShowsDecisions(r) == Corrupt(r["decisions"]) # {}

ShowsCorrupt(r) == \E f \in Kinds : Corrupt(r[f]) # {}

(* An event that has references is named by them, so that a second record  *)
(* of it is known; one that has none gets an identifier of its own.        *)
Linked(e) == e.kind = "decisions" \/ e.by \in Linking
EventId(e) == IF Linked(e) THEN <<e.kind, e.by, e.call>> ELSE <<e.kind, e>>

(* The records kept: the first of each identifier.  A bug: all of them.    *)
KeptAll(l) == Records(l)

Kept(l) ==
    LET R == Records(l) IN
    {i \in R : \A j \in R : j < i => EventId(l[j].event) # EventId(l[i].event)}

EventsOf(l) == {l[i].event : i \in Kept(l)}

(* The collector that the estimate is about is that of the latest event;   *)
(* the hooks append in any order of their times, so that it may be any.    *)
Candidates(r) ==
    LET by == {e.by : e \in UNION {EventsOf(r[f]) : f \in Kinds}} IN IF by = {} THEN {None} ELSE by

(* The usages that the totals add up.                                      *)
Counted(r, k) == {i \in Kept(r["usages"]) : r["usages"][i].event.by = k}
CountedEvents(r, k) == {r["usages"][i].event : i \in Counted(r, k)}
-----------------------------------------------------------------------------
Init ==
    /\ phase = [c \in Calls |-> "new"] /\ waiting = [c \in Calls |-> {}]
    /\ present = TRUE /\ crossed = {}
    /\ log = [s \in Scopes |-> [f \in Kinds |-> <<>>]]
    /\ reading = FALSE /\ toRead = {} /\ read = [f \in Kinds |-> <<>>] /\ known = {}
    /\ report = NoReport
    /\ short = 0 /\ changes = 0 /\ reports = 0

Open(c) == phase[c] = "asking" \/ waiting[c] # {}

(* A session calls the Agent tool.  It runs the hooks it has loaded: those *)
(* of an install before the latest too, those of both layers, and those of *)
(* several installs of a layer when their hooks stacked in the settings.   *)
Start(c) ==
    /\ phase[c] = "new" /\ Cardinality({d \in Calls : Open(d)}) < MaxOpen
    /\ phase' = [phase EXCEPT ![c] = "asking"]
    /\ waiting' = [waiting EXCEPT ![c] = Hooks[c]]
    /\ UNCHANGED <<present, crossed, changes, log, rvars, short>>

(* The project's report goes or comes back, with an uninstall or a new     *)
(* install; the hooks that a session has loaded stay.                      *)
ChangeReport ==
    /\ changes < MaxChanges /\ changes' = changes + 1
    /\ present' = ~present
    /\ crossed' = crossed \cup {c \in Calls : phase[c] = "asking"}
    /\ UNCHANGED <<phase, waiting, log, rvars, short>>

(* The one write of an append.  It may be cut short, and is reported       *)
(* written all the same.  (Whether a hook that wrote lives to report it    *)
(* makes no difference to a file.)                                         *)
AppendJsonl(e, part) ==
    /\ part # "line" => short < MaxShort
    /\ log' = [log EXCEPT ![Scope[e.by]][e.kind] = Append(@, [event |-> e, part |-> part])]
    /\ short' = IF part = "line" THEN short ELSE short + 1

(* A hook makes its event and appends it.                                  *)
Record(c, k, f, selected) ==
    /\ k \in waiting[c] /\ waiting' = [waiting EXCEPT ![c] = @ \ {k}]
    /\ \E part \in {"line", "cut"} :
          AppendJsonl([kind |-> f, call |-> c, by |-> k, selected |-> selected], part)
    /\ UNCHANGED <<phase, present, crossed, changes, rvars>>

(* The guard's decision names the layer whose report it resolved, which    *)
(* need not be the layer that installed the guard.                         *)
Decide(c, k) ==
    phase[c] = "asking" /\ Record(c, k, "decisions", IF present THEN "project" ELSE "global")

Observe(c, k) == phase[c] = "returned" /\ Record(c, k, "usages", None)

(* A hook that records nothing: the guard finds no contract, cannot read   *)
(* its key or misses an identifier, the observer finds no complete usage   *)
(* of a foreground call with a model, the append is refused, or the        *)
(* process dies before it.                                                 *)
Withhold(c, k) ==
    /\ k \in waiting[c] /\ waiting' = [waiting EXCEPT ![c] = @ \ {k}]
    /\ UNCHANGED <<phase, present, crossed, changes, log, short, rvars>>

(* A bug: the outcome of a decision becomes the phase of the call.         *)
ReturnDenied(c) ==
    /\ phase[c] = "asking" /\ waiting[c] = {}
    /\ phase' = [phase EXCEPT ![c] = "denied"]
    /\ waiting' = [waiting EXCEPT ![c] = Hooks[c]]
    /\ UNCHANGED <<present, crossed, changes, log, short, rvars>>

(* The call runs when its guards are done, and then its observers run.     *)
Return(c) ==
    /\ phase[c] = "asking" /\ waiting[c] = {}
    /\ phase' = [phase EXCEPT ![c] = "returned"]
    /\ waiting' = [waiting EXCEPT ![c] = Hooks[c]]
    /\ UNCHANGED <<present, crossed, changes, log, short, rvars>>

(* The estimator reads the project's files in either order, and reports.   *)
ReadJsonl(f) ==
    /\ IF reading THEN f \in toRead /\ toRead' = toRead \ {f} /\ UNCHANGED known
       ELSE /\ reports < MaxReports
            /\ toRead' = Kinds \ {f}
            /\ known' = LET l == log["project"]["usages"] IN {l[i].event : i \in DOMAIN l}
    /\ reading' = TRUE
    /\ read' = [read EXCEPT ![f] = log["project"][f]]
    /\ UNCHANGED <<cvars, log, report, reports, short>>

Estimate ==
    /\ reading /\ toRead = {}
    /\ \E k \in Candidates(read) :
          report' = [collector |-> k, counted |-> CountedEvents(read, k),
                     corrupt |-> ShowsCorrupt(read), unended |-> Unended(read["usages"]),
                     missed |-> {e \in known : k \in {e.by, None}} \ CountedEvents(read, k)]
    /\ reading' = FALSE /\ read' = [f \in Kinds |-> <<>>] /\ known' = {}
    /\ reports' = reports + 1
    /\ UNCHANGED <<cvars, log, toRead, short>>

Next ==
    \/ \E c \in Calls :
          \/ Start(c)
          \/ \E k \in Collectors : Decide(c, k) \/ Withhold(c, k) \/ Observe(c, k)
          \/ Return(c)
    \/ ChangeReport
    \/ (\E f \in Kinds : ReadJsonl(f)) \/ Estimate

Spec == Init /\ [][Next]_vars
-----------------------------------------------------------------------------
TypeOK ==
    /\ phase \in [Calls -> {"new", "asking", "returned"}]
    /\ waiting \in [Calls -> SUBSET Collectors]
    /\ present \in BOOLEAN /\ crossed \subseteq Calls
    /\ log \in [Scopes -> [Kinds -> Seq(Writes)]]
    /\ reading \in BOOLEAN /\ known \subseteq Events
    /\ read \in [Kinds -> Seq(Writes)] /\ toRead \subseteq Kinds
    /\ report.collector \in Collectors \cup {None} /\ report.corrupt \in BOOLEAN
    /\ report.counted \cup report.unended \cup report.missed \subseteq Events
    /\ short \in 0 .. MaxShort /\ changes \in 0 .. MaxChanges /\ reports \in 0 .. MaxReports

(* The estimator has read what it reports on.                              *)
Ready == reading /\ toRead = {}

(* However many installs left their hooks in the settings, and although    *)
(* the files that the user has the estimator read hold every record twice, *)
(* the totals hold the tokens of a call once (deduplicate,                 *)
(* selectedCollector and chosenUsages in claude.js).                       *)
CallsCountedOnce ==
    Ready => LET twice == [f \in Kinds |-> read[f] \o read[f]] IN
        \A r \in {read, twice} : \A k \in Candidates(r) :
            LET counted == Counted(r, k) IN
            \A i, j \in counted : r["usages"][i].event.call = r["usages"][j].event.call => i = j

(* A usage that was written before the estimator began to read is in the   *)
(* totals of its collector, or the report shows corrupt lines.  Lost       *)
(* without a word is only what the unfinished last line of the usages held *)
(* at that moment; the next append to the file makes that line corrupt.    *)
LossShows == report.corrupt \/ report.missed \subseteq report.unended

(* What an estimate counted, a later one for the same collector counts: an *)
(* unfinished line is left alone even when it parses, for the next append  *)
(* would turn it into a corrupt one (readJsonl).                           *)
TotalsOnlyGrow ==
    report.counted \subseteq CountedEvents(log["project"], report.collector)
=============================================================================
