---------------------------- MODULE EvidenceProofs ---------------------------
(***************************************************************************)
(* Theorems of EvidenceLog and EvidenceReaders: for any number of calls,   *)
(* installs, writes cut short, changes of the report and estimates, and    *)
(* for any number of calls under way at a time.                            *)
(***************************************************************************)
EXTENDS EvidenceReaders, FiniteSums

(* One case for each action.  A hook that records appends one write.       *)
Recorded(c, k, f, part, selected) ==
    /\ k \in waiting[c] /\ waiting' = [waiting EXCEPT ![c] = @ \ {k}]
    /\ AppendJsonl([kind |-> f, call |-> c, by |-> k, selected |-> selected], part)
    /\ UNCHANGED <<phase, present, crossed, changes, rvars>>

Layer == IF present THEN "project" ELSE "global"

LEMMA NextCases ==
    ASSUME [Next]_vars
    PROVE \/ \E c \in Calls : Start(c) \/ Return(c) \/ \E k \in Collectors : Withhold(c, k)
          \/ \E c \in Calls, k \in Collectors, part \in {"line", "cut"} :
                \/ phase[c] = "asking" /\ Recorded(c, k, "decisions", part, Layer)
                \/ phase[c] = "returned" /\ Recorded(c, k, "usages", part, None)
          \/ ChangeReport
          \/ \E f \in Kinds : ReadJsonl(f)
          \/ Estimate
          \/ UNCHANGED vars
BY DEF Next, Decide, Observe, Record, Recorded, Layer
-----------------------------------------------------------------------------
(* The type of every variable.                                             *)
CallType ==
    /\ phase \in [Calls -> {"new", "asking", "returned"}]
    /\ waiting \in [Calls -> SUBSET Collectors]
    /\ present \in BOOLEAN /\ crossed \subseteq Calls
LogType == log \in [Scopes -> [Kinds -> Seq(Writes)]]
ReadType ==
    /\ reading \in BOOLEAN /\ known \subseteq Events
    /\ read \in [Kinds -> Seq(Writes)] /\ toRead \subseteq Kinds
ReportType ==
    /\ report.collector \in Collectors \cup {None} /\ report.corrupt \in BOOLEAN
    /\ report.counted \cup report.unended \cup report.missed \subseteq Events
BoundType == short \in 0 .. MaxShort /\ changes \in 0 .. MaxChanges /\ reports \in 0 .. MaxReports

LEMMA TypeParts ==
    /\ TypeOK <=> CallType /\ LogType /\ ReadType /\ ReportType /\ BoundType
    /\ TypeOK' <=> CallType' /\ LogType' /\ ReadType' /\ ReportType' /\ BoundType'
BY DEF TypeOK, CallType, LogType, ReadType, ReportType, BoundType

LEMMA WriteEvent == \A w \in Writes : w.event \in Events /\ w.part \in {"line", "cut"}
BY DEF Writes

LEMMA EventFields ==
    \A e \in Events : /\ e.kind \in Kinds /\ e.call \in Calls /\ e.by \in Collectors
                      /\ e.selected \in Scopes \cup {None}
BY DEF Events

(* What is kept of a file are whole lines of it.                           *)
LEMMA KeptLines ==
    ASSUME NEW l
    PROVE Kept(l) \subseteq Records(l) /\ Records(l) \subseteq DOMAIN l
BY DEF Kept, Records

LEMMA EventsOfType ==
    ASSUME NEW l \in Seq(Writes)
    PROVE EventsOf(l) \subseteq Events
<1>1. \A i \in DOMAIN l : l[i] \in Writes
    OBVIOUS
<1> QED BY <1>1, KeptLines, WriteEvent DEF EventsOf

LEMMA CountedType ==
    ASSUME NEW r \in [Kinds -> Seq(Writes)], NEW k
    PROVE CountedEvents(r, k) \subseteq Events
<1>1. "usages" \in Kinds
    BY DEF Kinds
<1>2. CountedEvents(r, k) \subseteq EventsOf(r["usages"])
    BY DEF CountedEvents, Counted, EventsOf
<1>3. EventsOf(r["usages"]) \subseteq Events
    BY <1>1, EventsOfType
<1> QED BY <1>2, <1>3

LEMMA CandidatesType ==
    ASSUME NEW r \in [Kinds -> Seq(Writes)]
    PROVE Candidates(r) \subseteq Collectors \cup {None}
<1>1. \A f \in Kinds : EventsOf(r[f]) \subseteq Events
    BY EventsOfType
<1> QED BY <1>1, EventFields DEF Candidates

LEMMA AppendType ==
    ASSUME LogType, CallType, NEW c \in Calls, NEW k \in Collectors, NEW f \in Kinds,
           NEW part \in {"line", "cut"}, NEW selected \in Scopes \cup {None},
           Recorded(c, k, f, part, selected)
    PROVE LogType'
<1> DEFINE w == [event |-> [kind |-> f, call |-> c, by |-> k, selected |-> selected], part |-> part]
<1>1. w \in Writes
    BY DEF Writes, Events
<1>2. Scope[k] \in Scopes
    BY ScopeAssumption
<1>3. log' = [log EXCEPT ![Scope[k]][f] = Append(@, w)]
    BY DEF Recorded, AppendJsonl
<1>4. Append(log[Scope[k]][f], w) \in Seq(Writes)
    BY <1>1, <1>2 DEF LogType
<1> QED BY <1>2, <1>3, <1>4 DEF LogType

(* An estimate that has begun is within the bound.                         *)
Within == reading => reports < MaxReports

LEMMA TypeInit == Init => TypeOK
<1> SUFFICES ASSUME Init PROVE TypeOK
    OBVIOUS
<1>1. CallType
    BY DEF Init, CallType
<1>2. <<>> \in Seq(Writes)
    OBVIOUS
<1>3. LogType /\ ReadType
    BY <1>2 DEF Init, LogType, ReadType
<1>4. ReportType
    BY DEF Init, ReportType, NoReport
<1>5. BoundType
    BY BoundAssumption DEF Init, BoundType
<1> QED BY <1>1, <1>3, <1>4, <1>5, TypeParts

LEMMA TypeStep == TypeOK /\ Within /\ [Next]_vars => TypeOK'
<1> SUFFICES ASSUME TypeOK, Within, [Next]_vars PROVE TypeOK'
    OBVIOUS
<1>0. CallType /\ LogType /\ ReadType /\ ReportType /\ BoundType
    BY TypeParts
<1> USE <1>0
<1>1. ASSUME NEW c \in Calls, Start(c) \/ Return(c) \/ \E k \in Collectors : Withhold(c, k)
      PROVE TypeOK'
    <2>1. Hooks[c] \subseteq Collectors
        BY HooksAssumption
    <2>2. CallType'
        BY <1>1, <2>1 DEF CallType, Start, Return, Withhold
    <2>3. UNCHANGED <<log, reading, toRead, read, known, report, short, changes, reports>>
        BY <1>1 DEF Start, Return, Withhold, rvars
    <2> QED BY <2>2, <2>3, TypeParts DEF LogType, ReadType, ReportType, BoundType
<1>2. ASSUME NEW c \in Calls, NEW k \in Collectors, NEW part \in {"line", "cut"}, NEW f \in Kinds,
             NEW selected \in Scopes \cup {None}, Recorded(c, k, f, part, selected)
      PROVE TypeOK'
    <2>1. LogType'
        BY <1>2, AppendType
    <2>2. CallType'
        BY <1>2 DEF CallType, Recorded
    <2>3. UNCHANGED <<reading, toRead, read, known, report, changes, reports>>
        BY <1>2 DEF Recorded, rvars
    <2>4. short' \in 0 .. MaxShort
        BY <1>2, BoundAssumption DEF Recorded, AppendJsonl, BoundType
    <2> QED BY <2>1, <2>2, <2>3, <2>4, TypeParts DEF ReadType, ReportType, BoundType
<1>3. CASE ChangeReport
    BY <1>3, TypeParts, BoundAssumption
    DEF ChangeReport, CallType, LogType, ReadType, ReportType, BoundType, rvars
<1>4. ASSUME NEW f \in Kinds, ReadJsonl(f) PROVE TypeOK'
    <2>1. UNCHANGED <<phase, waiting, present, crossed, changes, log, report, reports, short>>
        BY <1>4 DEF ReadJsonl, cvars
    <2>2. "project" \in Scopes /\ "usages" \in Kinds
        BY DEF Scopes, Kinds
    <2>3. log["project"]["usages"] \in Seq(Writes) /\ log["project"][f] \in Seq(Writes)
        BY <2>2 DEF LogType
    <2>4. {log["project"]["usages"][i].event : i \in DOMAIN log["project"]["usages"]} \subseteq Events
        <3>1. \A i \in DOMAIN log["project"]["usages"] : log["project"]["usages"][i] \in Writes
            BY <2>3
        <3> QED BY <3>1, WriteEvent
    <2>5. known' \subseteq Events
        BY <1>4, <2>4 DEF ReadJsonl, ReadType
    <2>6. toRead' \subseteq Kinds /\ reading' \in BOOLEAN /\ read' \in [Kinds -> Seq(Writes)]
        BY <1>4, <2>3 DEF ReadJsonl, ReadType
    <2> QED BY <2>1, <2>5, <2>6, TypeParts DEF CallType, LogType, ReadType, ReportType, BoundType
<1>5. CASE Estimate
    <2>1. UNCHANGED <<phase, waiting, present, crossed, changes, log, toRead, short>>
        BY <1>5 DEF Estimate, cvars
    <2>2. ReportType'
        <3>1. PICK k \in Candidates(read) :
                report' = [collector |-> k, counted |-> CountedEvents(read, k),
                           corrupt |-> ShowsCorrupt(read), unended |-> Unended(read["usages"]),
                           missed |-> {e \in known : k \in {e.by, None}} \ CountedEvents(read, k)]
            BY <1>5 DEF Estimate
        <3>2. k \in Collectors \cup {None} /\ CountedEvents(read, k) \subseteq Events
            BY CandidatesType, CountedType DEF ReadType
        <3>3. report'.collector = k /\ report'.counted = CountedEvents(read, k)
              /\ report'.missed \subseteq known
            BY <3>1
        <3>4. report'.corrupt \in BOOLEAN /\ report'.unended \subseteq Events
            <4>1. ShowsCorrupt(read) \in BOOLEAN
                BY DEF ShowsCorrupt
            <4>2. Unended(read["usages"]) \subseteq Events
                BY WriteEvent DEF ReadType, Kinds, Unended
            <4> QED BY <3>1, <4>1, <4>2
        <3>5. report'.missed \subseteq Events
            BY <3>3 DEF ReadType
        <3>6. report'.collector \in Collectors \cup {None} /\ report'.counted \subseteq Events
            BY <3>2, <3>3
        <3> QED BY <3>4, <3>5, <3>6 DEF ReportType
    <2>3. ReadType'
        <3>1. <<>> \in Seq(Writes)
            OBVIOUS
        <3>2. reading' = FALSE /\ known' = {} /\ read' = [f \in Kinds |-> <<>>]
            BY <1>5 DEF Estimate
        <3> QED BY <2>1, <3>1, <3>2 DEF ReadType
    <2>4. reports' \in 0 .. MaxReports
        BY <1>5, BoundAssumption DEF Estimate, BoundType, Within
    <2> QED BY <2>1, <2>2, <2>3, <2>4, TypeParts DEF CallType, LogType, BoundType
<1>6. CASE UNCHANGED vars
    BY <1>6, TypeParts DEF vars, cvars, rvars, CallType, LogType, ReadType, ReportType, BoundType
<1>7. "decisions" \in Kinds /\ "usages" \in Kinds /\ Layer \in Scopes
    BY DEF Kinds, Layer, Scopes
<1> QED BY NextCases, <1>1, <1>2, <1>3, <1>4, <1>5, <1>6, <1>7

LEMMA WithinStep == TypeOK /\ Within /\ [Next]_vars => Within'
BY NextCases DEF TypeOK, Within, Start, Return, Withhold, Recorded, ChangeReport, ReadJsonl, Estimate,
    vars, rvars

LEMMA Typed == Spec => [](TypeOK /\ Within)
<1>1. Init => TypeOK /\ Within
    BY TypeInit DEF Init, Within
<1> QED BY <1>1, TypeStep, WithinStep, PTL DEF Spec

(* Every variable keeps its type, for any number of hooks and estimates.   *)
THEOREM EvidenceTyped == Spec => []TypeOK
BY Typed, PTL
-----------------------------------------------------------------------------
(* The files.  A file only grows, and an estimator that reads it has read  *)
(* what it starts with.                                                    *)
Starts(l, m) == Len(l) <= Len(m) /\ \A i \in DOMAIN l : l[i] = m[i]

LEMMA StartsItself ==
    ASSUME NEW l \in Seq(Writes)
    PROVE Starts(l, l) /\ Starts(<<>>, l)
BY DEF Starts

LEMMA Appended ==
    ASSUME NEW l \in Seq(Writes), NEW w \in Writes, NEW i \in DOMAIN Append(l, w)
    PROVE \/ i \in DOMAIN l /\ Append(l, w)[i] = l[i]
          \/ i = Len(l) + 1 /\ Append(l, w)[i] = w
OBVIOUS

LEMMA StartsAppend ==
    ASSUME NEW l \in Seq(Writes), NEW m \in Seq(Writes), Starts(l, m), NEW w \in Writes
    PROVE Starts(l, Append(m, w))
BY DEF Starts

(* What a file adds up to only grows with it: an unfinished line is not    *)
(* counted before it is known what becomes of it.                          *)
LEMMA KeptStarts ==
    ASSUME NEW l \in Seq(Writes), NEW m \in Seq(Writes), Starts(l, m)
    PROVE Kept(l) \subseteq Kept(m)
<1>1. \A i \in DOMAIN l : i \in DOMAIN m /\ l[i] = m[i] /\ (i # 1 => i - 1 \in DOMAIN l)
    BY DEF Starts
<1>2. \A i \in DOMAIN l : i \in Records(l) <=> i \in Records(m)
    BY <1>1 DEF Records, AtLineStart
<1>3. \A i \in DOMAIN l : \A j \in DOMAIN m : j < i => j \in DOMAIN l
    OBVIOUS
<1>4. SUFFICES ASSUME NEW i \in Kept(l) PROVE i \in Kept(m)
    OBVIOUS
<1>5. i \in DOMAIN l /\ i \in Records(m)
    BY <1>2, KeptLines
<1>6. ASSUME NEW j \in Records(m), j < i PROVE EventId(m[j].event) # EventId(m[i].event)
    <2>1. j \in DOMAIN l /\ j \in Records(l)
        BY <1>2, <1>3, <1>5, <1>6, KeptLines
    <2>2. EventId(l[j].event) # EventId(l[i].event)
        BY <1>6, <2>1 DEF Kept
    <2> QED BY <1>1, <1>5, <2>1, <2>2
<1> QED BY <1>5, <1>6 DEF Kept

LEMMA CountedStarts ==
    ASSUME NEW r \in [Kinds -> Seq(Writes)], NEW q \in [Kinds -> Seq(Writes)], NEW k,
           Starts(r["usages"], q["usages"])
    PROVE CountedEvents(r, k) \subseteq CountedEvents(q, k)
<1>1. "usages" \in Kinds
    BY DEF Kinds
<1>2. Kept(r["usages"]) \subseteq Kept(q["usages"])
    BY <1>1, KeptStarts
<1>3. \A i \in Kept(r["usages"]) : r["usages"][i] = q["usages"][i]
    BY KeptLines DEF Starts
<1>4. Counted(r, k) \subseteq Counted(q, k)
    BY <1>2, <1>3 DEF Counted
<1>5. \A i \in Counted(r, k) : r["usages"][i].event = q["usages"][i].event
    BY <1>3 DEF Counted
<1> QED BY <1>4, <1>5 DEF CountedEvents

(* One file changes when a hook records, by one write at its end.          *)
LEMMA Growth ==
    ASSUME LogType, NEW c \in Calls, NEW k \in Collectors, NEW f \in Kinds,
           NEW part \in {"line", "cut"}, NEW selected \in Scopes \cup {None},
           Recorded(c, k, f, part, selected)
    PROVE \E w \in Writes :
            /\ w = [event |-> [kind |-> f, call |-> c, by |-> k, selected |-> selected], part |-> part]
            /\ \A s \in Scopes, g \in Kinds :
                  log'[s][g] = IF s = Scope[k] /\ g = f THEN Append(log[s][g], w) ELSE log[s][g]
<1> DEFINE w == [event |-> [kind |-> f, call |-> c, by |-> k, selected |-> selected], part |-> part]
<1>1. w \in Writes
    BY DEF Writes, Events
<1>2. Scope[k] \in Scopes
    BY ScopeAssumption
<1>3. log' = [log EXCEPT ![Scope[k]][f] = Append(@, w)]
    BY DEF Recorded, AppendJsonl
<1>4. \A s \in Scopes, g \in Kinds :
        log'[s][g] = IF s = Scope[k] /\ g = f THEN Append(log[s][g], w) ELSE log[s][g]
    BY <1>2, <1>3 DEF LogType
<1> QED BY <1>1, <1>4

Read == \A f \in Kinds : Starts(read[f], log["project"][f])

LEMMA ReadStep == TypeOK /\ Read /\ [Next]_vars => Read'
<1> SUFFICES ASSUME TypeOK, Read, [Next]_vars PROVE Read'
    OBVIOUS
<1>0. LogType /\ ReadType /\ "project" \in Scopes
    BY TypeParts DEF Scopes
<1> USE <1>0
<1>1. CASE UNCHANGED <<log, read>>
    BY <1>1 DEF Read
<1>2. ASSUME NEW c \in Calls, NEW k \in Collectors, NEW part \in {"line", "cut"}, NEW f \in Kinds,
             NEW selected \in Scopes \cup {None}, Recorded(c, k, f, part, selected)
      PROVE Read'
    <2>1. read' = read
        BY <1>2 DEF Recorded, rvars
    <2>2. PICK w \in Writes : \A s \in Scopes, g \in Kinds :
            log'[s][g] = IF s = Scope[k] /\ g = f THEN Append(log[s][g], w) ELSE log[s][g]
        BY <1>2, Growth
    <2>3. ASSUME NEW g \in Kinds PROVE Starts(read[g], log'["project"][g])
        <3>1. read[g] \in Seq(Writes) /\ log["project"][g] \in Seq(Writes)
            BY DEF LogType, ReadType
        <3> QED BY <2>2, <3>1, StartsAppend DEF Read
    <2> QED BY <2>1, <2>3 DEF Read
<1>3. ASSUME NEW f \in Kinds, ReadJsonl(f) PROVE Read'
    <2>1. log' = log /\ read' = [read EXCEPT ![f] = log["project"][f]]
        BY <1>3 DEF ReadJsonl
    <2>2. log["project"][f] \in Seq(Writes)
        BY DEF LogType
    <2> QED BY <2>1, <2>2, StartsItself DEF Read, ReadType
<1>4. CASE Estimate
    <2>1. log' = log /\ read' = [f \in Kinds |-> <<>>]
        BY <1>4 DEF Estimate
    <2>2. \A f \in Kinds : log["project"][f] \in Seq(Writes)
        BY DEF LogType
    <2> QED BY <2>1, <2>2, StartsItself DEF Read
<1>5. "decisions" \in Kinds /\ "usages" \in Kinds /\ Layer \in Scopes
    BY DEF Kinds, Layer, Scopes
<1> QED BY NextCases, <1>1, <1>2, <1>3, <1>4, <1>5
        DEF Start, Return, Withhold, ChangeReport, rvars, vars

LEMMA Reading == Spec => [](TypeOK /\ Within /\ Read)
<1>1. Init => TypeOK /\ Within /\ Read
    <2>1. Init => Read
        <3>1. \A l : Starts(<<>>, <<>>)
            BY DEF Starts
        <3> QED BY <3>1 DEF Init, Read, Scopes, Kinds
    <2> QED BY <2>1, TypeInit DEF Init, Within
<1> QED BY <1>1, TypeStep, WithinStep, ReadStep, PTL DEF Spec

(* What an estimate counted a later one counts, whatever was written, cut  *)
(* short or glued together in between.                                     *)
THEOREM NothingUncounted == Spec => []TotalsOnlyGrow
<1>1. Init => TotalsOnlyGrow
    BY DEF Init, TotalsOnlyGrow, NoReport
<1>2. TypeOK /\ Read /\ TotalsOnlyGrow /\ [Next]_vars => TotalsOnlyGrow'
    <2> SUFFICES ASSUME TypeOK, Read, TotalsOnlyGrow, [Next]_vars PROVE TotalsOnlyGrow'
        OBVIOUS
    <2>0. LogType /\ ReadType /\ "project" \in Scopes /\ "usages" \in Kinds /\ "decisions" \in Kinds
          /\ Layer \in Scopes
        BY TypeParts DEF Scopes, Kinds, Layer
    <2> USE <2>0
    <2>t. log["project"] \in [Kinds -> Seq(Writes)]
        BY DEF LogType
    <2>1. CASE UNCHANGED <<log, report>>
        BY <2>1 DEF TotalsOnlyGrow, CountedEvents, Counted
    <2>2. ASSUME NEW c \in Calls, NEW k \in Collectors, NEW part \in {"line", "cut"}, NEW f \in Kinds,
                 NEW selected \in Scopes \cup {None}, Recorded(c, k, f, part, selected)
          PROVE TotalsOnlyGrow'
        <3>1. report' = report
            BY <2>2 DEF Recorded, rvars
        <3>2. LogType'
            BY <2>2, AppendType, TypeParts
        <3>3. PICK w \in Writes : \A s \in Scopes, g \in Kinds :
                log'[s][g] = IF s = Scope[k] /\ g = f THEN Append(log[s][g], w) ELSE log[s][g]
            BY <2>2, Growth
        <3>4. Starts(log["project"]["usages"], log'["project"]["usages"])
            <4>1. log["project"]["usages"] \in Seq(Writes)
                BY <2>t
            <4> QED BY <3>3, <4>1, StartsItself, StartsAppend
        <3>5. log'["project"] \in [Kinds -> Seq(Writes)]
            BY <3>2 DEF LogType
        <3>6. CountedEvents(log["project"], report.collector)
                \subseteq CountedEvents(log'["project"], report.collector)
            BY <2>t, <3>4, <3>5, CountedStarts
        <3> QED BY <3>1, <3>6 DEF TotalsOnlyGrow
    <2>3. CASE Estimate
        <3>1. log' = log
            BY <2>3 DEF Estimate
        <3>2. PICK k : report'.collector = k /\ report'.counted = CountedEvents(read, k)
            BY <2>3 DEF Estimate
        <3>3. CountedEvents(read, k) \subseteq CountedEvents(log["project"], k)
            BY <2>t, CountedStarts DEF Read, ReadType
        <3> QED BY <3>1, <3>2, <3>3 DEF TotalsOnlyGrow
    <2> QED BY NextCases, <2>1, <2>2, <2>3
            DEF Start, Return, Withhold, ChangeReport, ReadJsonl, rvars, vars
<1> QED BY <1>1, <1>2, Reading, PTL DEF Spec
-----------------------------------------------------------------------------
(* Who wrote what: each event is in the file of its kind and its layer, a  *)
(* hook that has written for a call does not wait any more, and so writes  *)
(* once.                                                                   *)
Placed(s, f, e) == e.kind = f /\ (f = "usages" => e.selected = None) /\ Scope[e.by] = s
Past(f, e) ==
    /\ f = "usages" => phase[e.call] = "returned" /\ e.by \notin waiting[e.call]
    /\ f = "decisions" => /\ phase[e.call] # "new"
                          /\ phase[e.call] = "asking" => e.by \notin waiting[e.call]
AllPlaced == \A s \in Scopes, f \in Kinds : \A i \in DOMAIN log[s][f] : Placed(s, f, log[s][f][i].event)
AllPast == \A s \in Scopes, f \in Kinds : \A i \in DOMAIN log[s][f] : Past(f, log[s][f][i].event)
Single(l) ==
    \A i, j \in DOMAIN l :
        l[i].event.call = l[j].event.call /\ l[i].event.by = l[j].event.by => i = j
AllSingle == \A s \in Scopes, f \in Kinds : Single(log[s][f])
FileInv == AllPlaced /\ AllPast /\ AllSingle

LEMMA FileStep == TypeOK /\ FileInv /\ [Next]_vars => FileInv'
<1> SUFFICES ASSUME TypeOK, FileInv, [Next]_vars PROVE FileInv'
    OBVIOUS
<1>0. LogType /\ CallType /\ AllPlaced /\ AllPast /\ AllSingle
    BY TypeParts DEF FileInv
<1> USE <1>0
<1>e. \A s \in Scopes, f \in Kinds : \A i \in DOMAIN log[s][f] :
        log[s][f][i].event.call \in Calls /\ log[s][f][i].event.by \in Collectors
    BY WriteEvent, EventFields DEF LogType
<1>1. CASE UNCHANGED <<log, phase, waiting>>
    BY <1>1 DEF FileInv, AllPlaced, AllPast, AllSingle, Placed, Past
<1>2. ASSUME NEW c \in Calls, Start(c) \/ Return(c) \/ \E k \in Collectors : Withhold(c, k)
      PROVE FileInv'
    <2>1. log' = log
        BY <1>2 DEF Start, Return, Withhold
    <2>2. AllPlaced' /\ AllSingle'
        BY <2>1 DEF AllPlaced, AllSingle, Placed
    <2>3. \A d \in Calls : d # c => phase'[d] = phase[d] /\ waiting'[d] = waiting[d]
        BY <1>2 DEF Start, Return, Withhold, CallType
    <2>4. CASE Start(c)
        <3>1. phase[c] = "new"
            BY <2>4 DEF Start
        <3> QED BY <1>e, <2>1, <2>2, <2>3, <3>1 DEF FileInv, AllPast, Past, Kinds
    <2>5. CASE Return(c)
        <3>1. phase[c] = "asking" /\ phase'[c] = "returned"
            BY <2>5 DEF Return, CallType
        <3> QED BY <1>e, <2>1, <2>2, <2>3, <3>1 DEF FileInv, AllPast, Past, Kinds
    <2>6. CASE \E k \in Collectors : Withhold(c, k)
        <3>1. phase' = phase /\ waiting'[c] \subseteq waiting[c]
            BY <2>6 DEF Withhold, CallType
        <3> QED BY <1>e, <2>1, <2>2, <2>3, <3>1 DEF FileInv, AllPast, Past, Kinds
    <2> QED BY <1>2, <2>4, <2>5, <2>6
<1>3. ASSUME NEW c \in Calls, NEW k \in Collectors, NEW part \in {"line", "cut"}, NEW f \in Kinds,
             NEW selected \in Scopes \cup {None}, Recorded(c, k, f, part, selected),
             \/ f = "decisions" /\ phase[c] = "asking"
             \/ f = "usages" /\ phase[c] = "returned" /\ selected = None
      PROVE FileInv'
    <2>1. PICK w \in Writes :
            /\ w = [event |-> [kind |-> f, call |-> c, by |-> k, selected |-> selected], part |-> part]
            /\ \A s \in Scopes, g \in Kinds :
                  log'[s][g] = IF s = Scope[k] /\ g = f THEN Append(log[s][g], w) ELSE log[s][g]
        BY <1>3, Growth
    <2>2. /\ phase' = phase /\ k \in waiting[c] /\ k \notin waiting'[c]
          /\ \A d \in Calls : waiting'[d] \subseteq waiting[d]
        BY <1>3 DEF Recorded, CallType
    <2>3. \A s \in Scopes, g \in Kinds : \A i \in DOMAIN log'[s][g] :
            \/ i \in DOMAIN log[s][g] /\ log'[s][g][i] = log[s][g][i]
            \/ s = Scope[k] /\ g = f /\ i = Len(log[s][g]) + 1 /\ log'[s][g][i] = w
        <3>1. \A s \in Scopes, g \in Kinds : log[s][g] \in Seq(Writes)
            BY DEF LogType
        <3> SUFFICES ASSUME NEW s \in Scopes, NEW g \in Kinds, NEW i \in DOMAIN log'[s][g]
                     PROVE \/ i \in DOMAIN log[s][g] /\ log'[s][g][i] = log[s][g][i]
                           \/ s = Scope[k] /\ g = f /\ i = Len(log[s][g]) + 1 /\ log'[s][g][i] = w
            OBVIOUS
        <3>3. CASE s = Scope[k] /\ g = f
            <4>1. log[s][g] \in Seq(Writes) /\ log'[s][g] = Append(log[s][g], w)
                BY <2>1, <3>1, <3>3
            <4> QED BY <3>3, <4>1, Appended
        <3>4. CASE ~(s = Scope[k] /\ g = f)
            BY <2>1, <3>4
        <3> QED BY <3>3, <3>4
    <2>4. w.event.kind = f /\ w.event.call = c /\ w.event.by = k /\ w.event.selected = selected
        BY <2>1
    <2>5. AllPlaced'
        BY <1>3, <2>3, <2>4 DEF AllPlaced, Placed
    <2>6. AllPast'
        <3> SUFFICES ASSUME NEW s \in Scopes, NEW g \in Kinds, NEW i \in DOMAIN log'[s][g]
                     PROVE Past(g, log[s][g][i].event)'
            BY DEF AllPast
        <3>1. CASE i \in DOMAIN log[s][g] /\ log'[s][g][i] = log[s][g][i]
            <4>1. Past(g, log[s][g][i].event) /\ log[s][g][i].event.call \in Calls
                BY <1>e, <3>1 DEF AllPast
            <4> QED BY <2>2, <3>1, <4>1 DEF Past
        <3>2. CASE g = f /\ log'[s][g][i] = w
            BY <1>3, <2>2, <2>4, <3>2 DEF Past
        <3> QED BY <2>3, <3>1, <3>2
    <2>7. AllSingle'
        <3>1. ASSUME NEW s \in Scopes, NEW i \in DOMAIN log[s][f], log[s][f][i].event.call = c
              PROVE log[s][f][i].event.by # k
            <4>1. Past(f, log[s][f][i].event)
                BY DEF AllPast
            <4> QED BY <1>3, <2>2, <3>1, <4>1 DEF Past
        <3>2. ASSUME NEW s \in Scopes, NEW g \in Kinds PROVE Single(log'[s][g])
            <4> SUFFICES ASSUME NEW i \in DOMAIN log'[s][g], NEW j \in DOMAIN log'[s][g],
                                log'[s][g][i].event.call = log'[s][g][j].event.call,
                                log'[s][g][i].event.by = log'[s][g][j].event.by
                         PROVE i = j
                BY DEF Single
            <4> DEFINE Old(n) == n \in DOMAIN log[s][g] /\ log'[s][g][n] = log[s][g][n]
                       New(n) == g = f /\ n = Len(log[s][g]) + 1 /\ log'[s][g][n] = w
            <4>1. (Old(i) \/ New(i)) /\ (Old(j) \/ New(j))
                BY <2>3
            <4>2. Old(i) /\ Old(j) => i = j
                BY DEF AllSingle, Single
            <4>3. ~(Old(i) /\ New(j)) /\ ~(New(i) /\ Old(j))
                BY <2>4, <3>1
            <4> QED BY <4>1, <4>2, <4>3
        <3> QED BY <3>2 DEF AllSingle
    <2> QED BY <2>5, <2>6, <2>7 DEF FileInv
<1>4. "decisions" \in Kinds /\ "usages" \in Kinds /\ Layer \in Scopes /\ None \in Scopes \cup {None}
    BY DEF Kinds, Layer, Scopes
<1>5. ASSUME NEW f \in Kinds, ReadJsonl(f) PROVE FileInv'
    BY <1>1, <1>5 DEF ReadJsonl, cvars
<1>6. CASE Estimate
    BY <1>1, <1>6 DEF Estimate, cvars
<1>7. CASE ChangeReport
    BY <1>1, <1>7 DEF ChangeReport
<1>8. CASE UNCHANGED vars
    BY <1>1, <1>8 DEF vars, cvars
<1> QED BY NextCases, <1>2, <1>3, <1>4, <1>5, <1>6, <1>7, <1>8

LEMMA Filed == Spec => [](TypeOK /\ Within /\ Read /\ FileInv)
<1>1. Init => FileInv
    <2>1. ASSUME Init PROVE \A s \in Scopes, f \in Kinds : log[s][f] = <<>>
        BY <2>1 DEF Init
    <2> QED BY <2>1 DEF FileInv, AllPlaced, AllPast, AllSingle, Single
<1> QED BY <1>1, FileStep, Reading, PTL DEF Spec

(* Two records of a kind that name one call and one install are one event. *)
LEMMA SameEvent ==
    ASSUME NEW d \in Events, NEW e \in Events, d.kind = e.kind, d.call = e.call, d.by = e.by,
           d.selected = e.selected
    PROVE d = e
BY DEF Events

(* What is true of the project's file is true of what was read of it.      *)
LEMMA ReadShape ==
    ASSUME TypeOK, Read, FileInv, NEW f \in Kinds
    PROVE /\ Single(read[f])
          /\ \A i \in DOMAIN read[f] :
                read[f][i] \in Writes /\ Placed("project", f, read[f][i].event)
<1>1. "project" \in Scopes /\ LogType /\ ReadType
    BY TypeParts DEF Scopes
<1>2. \A i \in DOMAIN read[f] : i \in DOMAIN log["project"][f] /\ read[f][i] = log["project"][f][i]
    BY <1>1 DEF Read, Starts, LogType, ReadType
<1>3. \A i \in DOMAIN read[f] : read[f][i] \in Writes
    BY <1>1 DEF ReadType
<1> QED BY <1>1, <1>2, <1>3 DEF FileInv, AllSingle, AllPlaced, Single

(* A call counts once, in what was read and in the same read twice.        *)
LEMMA CountsOnce ==
    ASSUME NEW r \in [Kinds -> Seq(Writes)], NEW k,
           \A i \in DOMAIN r["usages"] : Placed("project", "usages", r["usages"][i].event),
           NEW i \in Counted(r, k), NEW j \in Counted(r, k),
           r["usages"][i].event.call = r["usages"][j].event.call
    PROVE i = j
<1> DEFINE l == r["usages"]
<1>1. l \in Seq(Writes)
    BY DEF Kinds
<1>2. /\ i \in Kept(l) /\ j \in Kept(l) /\ i \in DOMAIN l /\ j \in DOMAIN l
      /\ l[i].event.by = k /\ l[j].event.by = k
    BY KeptLines DEF Counted
<1>3. l[i].event \in Events /\ l[j].event \in Events
    BY <1>1, <1>2, WriteEvent
<1>4. l[i].event = l[j].event
    BY <1>2, <1>3, SameEvent DEF Placed
<1>5. i \in Records(l) /\ j \in Records(l) /\ i \in Nat /\ j \in Nat
    BY <1>1, <1>2, KeptLines
<1>6. ~(i < j) /\ ~(j < i)
    BY <1>2, <1>4, <1>5 DEF Kept
<1> QED BY <1>5, <1>6

(* However many installs left their hooks behind, and however often the    *)
(* files are read, the totals hold the tokens of a call once.              *)
THEOREM OncePerCall == Spec => []CallsCountedOnce
<1>1. TypeOK /\ Read /\ FileInv => CallsCountedOnce
    <2> SUFFICES ASSUME TypeOK, Read, FileInv PROVE CallsCountedOnce
        OBVIOUS
    <2> DEFINE twice == [f \in Kinds |-> read[f] \o read[f]]
    <2>1. read \in [Kinds -> Seq(Writes)] /\ "usages" \in Kinds
        BY TypeParts DEF ReadType, Kinds
    <2>2. twice \in [Kinds -> Seq(Writes)]
        BY <2>1
    <2>3. \A i \in DOMAIN read["usages"] : Placed("project", "usages", read["usages"][i].event)
        BY <2>1, ReadShape
    <2>4. \A i \in DOMAIN twice["usages"] : Placed("project", "usages", twice["usages"][i].event)
        <3>1. read["usages"] \in Seq(Writes) /\ twice["usages"] = read["usages"] \o read["usages"]
            BY <2>1
        <3>2. \A i \in DOMAIN twice["usages"] :
                \E j \in DOMAIN read["usages"] : twice["usages"][i] = read["usages"][j]
            <4> DEFINE l == read["usages"]
            <4>1. \A i \in DOMAIN (l \o l) : IF i <= Len(l) THEN (l \o l)[i] = l[i] ELSE (l \o l)[i] = l[i - Len(l)]
                BY <3>1
            <4>2. \A i \in DOMAIN (l \o l) : IF i <= Len(l) THEN i \in DOMAIN l ELSE i - Len(l) \in DOMAIN l
                BY <3>1
            <4> QED BY <3>1, <4>1, <4>2
        <3> QED BY <2>3, <3>2
    <2>5. ASSUME NEW r \in {read, twice}, NEW k, NEW i \in Counted(r, k), NEW j \in Counted(r, k),
                 r["usages"][i].event.call = r["usages"][j].event.call
          PROVE i = j
        <3>1. CASE r = read
            BY <2>1, <2>3, <2>5, <3>1, CountsOnce
        <3>2. CASE r = twice
            BY <2>2, <2>4, <2>5, <3>2, CountsOnce
        <3> QED BY <3>1, <3>2
    <2> QED BY <2>5 DEF CallsCountedOnce
<1> QED BY <1>1, Filed, PTL
-----------------------------------------------------------------------------
(* A write that was cut short is in the unfinished last line, or the file  *)
(* has a corrupt line: one that begins within an unfinished write.         *)
Trailing(l, i) == \A n \in DOMAIN l : n >= i => l[n].part # "line"
Honest(l) == \A i \in DOMAIN l : l[i].part # "line" => Trailing(l, i) \/ Corrupt(l) # {}
AllHonest == (\A s \in Scopes, f \in Kinds : Honest(log[s][f])) /\ (\A f \in Kinds : Honest(read[f]))

LEMMA HonestAppend ==
    ASSUME NEW l \in Seq(Writes), Honest(l), NEW w \in Writes
    PROVE Honest(Append(l, w))
<1> DEFINE m == Append(l, w)
<1>1. /\ m \in Seq(Writes) /\ Len(m) = Len(l) + 1 /\ m[Len(m)] = w /\ DOMAIN m = 1 .. Len(m)
      /\ Len(l) \in Nat /\ DOMAIN l = 1 .. Len(l)
      /\ \A i \in DOMAIN l : i \in DOMAIN m /\ m[i] = l[i] /\ i \in Nat
    OBVIOUS
<1>2. \A i \in DOMAIN m : i \in DOMAIN l \/ i = Len(m)
    BY <1>1
<1> HIDE DEF m
<1>3. Corrupt(l) # {} => Corrupt(m) # {}
    <2> SUFFICES ASSUME Corrupt(l) # {} PROVE Corrupt(m) # {}
        OBVIOUS
    <2>1. PICK i \in DOMAIN l : l[i].part = "line" /\ i # 1 /\ l[i - 1].part # "line"
        BY DEF Corrupt, Ends, Records, AtLineStart
    <2>2. i - 1 \in DOMAIN l
        BY <1>1, <2>1
    <2>3. i \in Ends(m) /\ i \notin Records(m)
        BY <1>1, <2>1, <2>2 DEF Ends, Records, AtLineStart
    <2> QED BY <2>3 DEF Corrupt
<1>4. ASSUME NEW i \in DOMAIN m, m[i].part # "line" PROVE Trailing(m, i) \/ Corrupt(m) # {}
    <2>1. CASE i = Len(m)
        BY <1>1, <1>4, <2>1 DEF Trailing
    <2>2. CASE i \in DOMAIN l /\ ~Trailing(l, i)
        BY <1>1, <1>3, <1>4, <2>2 DEF Honest
    <2>3. CASE i \in DOMAIN l /\ Trailing(l, i) /\ w.part # "line"
        BY <1>1, <1>2, <2>3 DEF Trailing
    <2>4. CASE i \in DOMAIN l /\ Trailing(l, i) /\ w.part = "line"
        <3>1. Len(l) \in DOMAIN l /\ l[Len(l)].part # "line" /\ Len(m) # 1
            BY <1>1, <2>4 DEF Trailing
        <3>2. Len(m) \in DOMAIN m /\ m[Len(m) - 1].part # "line"
            BY <1>1, <3>1
        <3>3. Len(m) \in Ends(m) /\ Len(m) \notin Records(m)
            BY <1>1, <2>4, <3>1, <3>2 DEF Ends, Records, AtLineStart
        <3> QED BY <3>3 DEF Corrupt
    <2> QED BY <1>2, <2>1, <2>2, <2>3, <2>4
<1> QED BY <1>4 DEF Honest, m

LEMMA HonestStep == TypeOK /\ AllHonest /\ [Next]_vars => AllHonest'
<1> SUFFICES ASSUME TypeOK, AllHonest, [Next]_vars PROVE AllHonest'
    OBVIOUS
<1>0. LogType /\ ReadType /\ "project" \in Scopes
    BY TypeParts DEF Scopes
<1> USE <1>0
<1>1. CASE UNCHANGED <<log, read>>
    BY <1>1 DEF AllHonest
<1>2. ASSUME NEW c \in Calls, NEW k \in Collectors, NEW part \in {"line", "cut"}, NEW f \in Kinds,
             NEW selected \in Scopes \cup {None}, Recorded(c, k, f, part, selected)
      PROVE AllHonest'
    <2>1. read' = read
        BY <1>2 DEF Recorded, rvars
    <2>2. PICK w \in Writes : \A s \in Scopes, g \in Kinds :
            log'[s][g] = IF s = Scope[k] /\ g = f THEN Append(log[s][g], w) ELSE log[s][g]
        BY <1>2, Growth
    <2>3. ASSUME NEW s \in Scopes, NEW g \in Kinds PROVE Honest(log'[s][g])
        <3>1. log[s][g] \in Seq(Writes) /\ Honest(log[s][g])
            BY DEF LogType, AllHonest
        <3> QED BY <2>2, <3>1, HonestAppend
    <2> QED BY <2>1, <2>3 DEF AllHonest
<1>3. ASSUME NEW f \in Kinds, ReadJsonl(f) PROVE AllHonest'
    <2>1. log' = log /\ read' = [read EXCEPT ![f] = log["project"][f]]
        BY <1>3 DEF ReadJsonl
    <2> QED BY <2>1 DEF AllHonest, ReadType
<1>4. CASE Estimate
    <2>1. log' = log /\ read' = [f \in Kinds |-> <<>>]
        BY <1>4 DEF Estimate
    <2> QED BY <2>1 DEF AllHonest, Honest
<1>5. "decisions" \in Kinds /\ "usages" \in Kinds /\ Layer \in Scopes
    BY DEF Kinds, Layer, Scopes
<1> QED BY NextCases, <1>1, <1>2, <1>3, <1>4, <1>5
        DEF Start, Return, Withhold, ChangeReport, rvars, vars

(* A file without corrupt lines, whose calls are recorded once, keeps every*)
(* write but those of its unfinished last line.                            *)
LEMMA IdNames ==
    ASSUME NEW d \in Events, NEW e \in Events, d.kind = e.kind, EventId(d) = EventId(e)
    PROVE d.call = e.call /\ d.by = e.by
<1>1. CASE Linked(d) /\ Linked(e)
    BY <1>1 DEF EventId
<1>2. CASE ~Linked(d) /\ ~Linked(e)
    BY <1>2 DEF EventId
<1>3. CASE Linked(d) /\ ~Linked(e)
    BY <1>3 DEF EventId
<1>4. CASE ~Linked(d) /\ Linked(e)
    BY <1>4 DEF EventId
<1> QED BY <1>1, <1>2, <1>3, <1>4

LEMMA AllKept ==
    ASSUME NEW l \in Seq(Writes), NEW f, \A i \in DOMAIN l : l[i].event.kind = f,
           Single(l), Honest(l), Corrupt(l) = {}, NEW i \in DOMAIN l
    PROVE i \in Kept(l) \/ l[i].event \in Unended(l)
<1>1. CASE l[i].part # "line"
    BY <1>1 DEF Honest, Trailing, Unended
<1>2. CASE l[i].part = "line"
    <2>1. i \in Records(l)
        BY <1>2 DEF Corrupt, Ends
    <2>2. ASSUME NEW j \in Records(l), j < i PROVE EventId(l[j].event) # EventId(l[i].event)
        <3>1. j \in DOMAIN l /\ i # j
            BY <2>2 DEF Records
        <3>2. l[i].event \in Events /\ l[j].event \in Events
            BY <3>1, WriteEvent
        <3> QED BY <3>1, <3>2, IdNames DEF Single
    <2> QED BY <2>1, <2>2 DEF Kept
<1> QED BY <1>1, <1>2

(* What was written before an estimate began is in what it reads.          *)
Lines(l) == {l[i].event : i \in DOMAIN l}
Before ==
    /\ known \subseteq Lines(log["project"]["usages"])
    /\ reading /\ "usages" \notin toRead => known \subseteq Lines(read["usages"])

LEMMA LinesStart ==
    ASSUME NEW l \in Seq(Writes), NEW m \in Seq(Writes), Starts(l, m)
    PROVE Lines(l) \subseteq Lines(m)
BY DEF Lines, Starts

LEMMA BeforeStep == TypeOK /\ Before /\ [Next]_vars => Before'
<1> SUFFICES ASSUME TypeOK, Before, [Next]_vars PROVE Before'
    OBVIOUS
<1>0. LogType /\ ReadType /\ "project" \in Scopes /\ "usages" \in Kinds /\ "decisions" \in Kinds
      /\ Layer \in Scopes
    BY TypeParts DEF Scopes, Kinds, Layer
<1> USE <1>0
<1>1. CASE UNCHANGED <<log, read, known, reading, toRead>>
    BY <1>1 DEF Before, Lines
<1>2. ASSUME NEW c \in Calls, NEW k \in Collectors, NEW part \in {"line", "cut"}, NEW f \in Kinds,
             NEW selected \in Scopes \cup {None}, Recorded(c, k, f, part, selected)
      PROVE Before'
    <2>1. UNCHANGED <<read, known, reading, toRead>>
        BY <1>2 DEF Recorded, rvars
    <2>2. LogType'
        BY <1>2, AppendType, TypeParts
    <2>3. PICK w \in Writes : \A s \in Scopes, g \in Kinds :
            log'[s][g] = IF s = Scope[k] /\ g = f THEN Append(log[s][g], w) ELSE log[s][g]
        BY <1>2, Growth
    <2>4. log["project"]["usages"] \in Seq(Writes) /\ log'["project"]["usages"] \in Seq(Writes)
        BY <2>2 DEF LogType
    <2>5. Starts(log["project"]["usages"], log'["project"]["usages"])
        BY <2>3, <2>4, StartsItself, StartsAppend
    <2>6. Lines(log["project"]["usages"]) \subseteq Lines(log'["project"]["usages"])
        BY <2>4, <2>5, LinesStart
    <2>7. Lines(read["usages"])' = Lines(read["usages"])
        BY <2>1 DEF Lines
    <2>8. Lines(log["project"]["usages"])' = Lines(log'["project"]["usages"])
        BY DEF Lines
    <2> QED BY <2>1, <2>6, <2>7, <2>8 DEF Before
<1>3. ASSUME NEW f \in Kinds, ReadJsonl(f) PROVE Before'
    <2>1. /\ log' = log /\ reading' = TRUE /\ read' = [read EXCEPT ![f] = log["project"][f]]
          /\ known' = IF reading THEN known ELSE Lines(log["project"]["usages"])
          /\ toRead' = IF reading THEN toRead \ {f} ELSE Kinds \ {f}
        BY <1>3 DEF ReadJsonl, Lines
    <2>2. known' \subseteq Lines(log["project"]["usages"])
        BY <2>1 DEF Before
    <2>3. CASE f = "usages"
        <3>1. read'["usages"] = log["project"]["usages"]
            BY <2>1, <2>3 DEF ReadType
        <3> QED BY <2>1, <2>2, <3>1 DEF Before, Lines
    <2>4. CASE f # "usages" /\ reading
        <3>1. read'["usages"] = read["usages"] /\ known' = known
              /\ ("usages" \in toRead' <=> "usages" \in toRead)
            BY <2>1, <2>4 DEF ReadType
        <3> QED BY <2>1, <2>2, <2>4, <3>1 DEF Before, Lines
    <2>5. CASE f # "usages" /\ ~reading
        <3>1. "usages" \in toRead'
            BY <2>1, <2>5
        <3> QED BY <2>1, <2>2, <3>1 DEF Before, Lines
    <2> QED BY <2>3, <2>4, <2>5
<1>4. CASE Estimate
    <2>1. reading' = FALSE /\ known' = {}
        BY <1>4 DEF Estimate
    <2> QED BY <2>1 DEF Before
<1> QED BY NextCases, <1>1, <1>2, <1>3, <1>4
        DEF Start, Return, Withhold, ChangeReport, rvars, vars

LEMMA Faithful == Spec => [](TypeOK /\ Within /\ Read /\ FileInv /\ AllHonest /\ Before)
<1>1. Init => AllHonest
    BY DEF Init, AllHonest, Honest
<1>2. Init => Before
    BY DEF Init, Before
<1> QED BY <1>1, <1>2, HonestStep, BeforeStep, Filed, PTL DEF Spec

(* A usage that was written before an estimate began is in its totals, or  *)
(* the report shows corrupt lines, wherever and however often a write was  *)
(* cut; or it is in the unfinished last line that the estimate read, which *)
(* nothing shows (readJsonl, readEvidenceFiles).                           *)
THEOREM LossIsShown == Spec => []LossShows
<1>1. Init => LossShows
    BY DEF Init, LossShows, NoReport
<1>2. TypeOK /\ Read /\ FileInv /\ AllHonest /\ Before /\ LossShows /\ [Next]_vars => LossShows'
    <2> SUFFICES ASSUME TypeOK, Read, FileInv, AllHonest, Before, LossShows, [Next]_vars PROVE LossShows'
        OBVIOUS
    <2>1. CASE UNCHANGED report
        BY <2>1 DEF LossShows
    <2>2. CASE Estimate
        <3>1. PICK k \in Candidates(read) :
                report' = [collector |-> k, counted |-> CountedEvents(read, k),
                           corrupt |-> ShowsCorrupt(read), unended |-> Unended(read["usages"]),
                           missed |-> {e \in known : k \in {e.by, None}} \ CountedEvents(read, k)]
            BY <2>2 DEF Estimate
        <3>2. /\ report'.missed = {e \in known : k \in {e.by, None}} \ CountedEvents(read, k)
              /\ report'.corrupt = ShowsCorrupt(read) /\ report'.unended = Unended(read["usages"])
            BY <3>1
        <3> DEFINE l == read["usages"]
        <3>3. l \in Seq(Writes) /\ "usages" \in Kinds /\ reading /\ "usages" \notin toRead
            BY <2>2, TypeParts DEF ReadType, Kinds, Estimate
        <3>4. ASSUME Corrupt(l) = {}, NEW e \in known, k \in {e.by, None}, e \notin Unended(l)
              PROVE  e \in CountedEvents(read, k)
            <4>1. PICK i \in DOMAIN l : l[i].event = e
                BY <3>3 DEF Before, Lines
            <4>2. i \in Kept(l)
                <5>1. Single(l) /\ \A j \in DOMAIN l : l[j].event.kind = "usages"
                    BY <3>3, ReadShape DEF Placed
                <5>2. Honest(l)
                    BY <3>3 DEF AllHonest
                <5> QED BY <3>3, <3>4, <4>1, <5>1, <5>2, AllKept
            <4>3. e \in EventsOf(l) /\ e \in Events
                BY <3>3, <4>1, <4>2, WriteEvent DEF EventsOf
            <4>4. e.by \in {d.by : d \in UNION {EventsOf(read[f]) : f \in Kinds}}
                BY <3>3, <4>3
            <4>5. k \in {d.by : d \in UNION {EventsOf(read[f]) : f \in Kinds}}
                BY <4>4 DEF Candidates
            <4>6. \A d \in UNION {EventsOf(read[f]) : f \in Kinds} : d \in Events
                BY EventsOfType, TypeParts DEF ReadType
            <4>7. k = e.by
                BY <3>4, <4>5, <4>6, EventFields, NoneAssumption
            <4>8. i \in Counted(read, k)
                BY <4>1, <4>2, <4>7 DEF Counted
            <4> QED BY <4>1, <4>8 DEF CountedEvents
        <3>5. Corrupt(l) # {} => ShowsCorrupt(read)
            BY <3>3 DEF ShowsCorrupt
        <3> HIDE DEF l
        <3> QED BY <3>2, <3>4, <3>5 DEF LossShows, l
    <2> QED BY NextCases, <2>1, <2>2
            DEF Start, Return, Withhold, Recorded, ChangeReport, ReadJsonl, rvars, vars
<1> QED BY <1>1, <1>2, Faithful, PTL DEF Spec
-----------------------------------------------------------------------------
(* The readers.  The guards of a call resolve one layer, unless the report *)
(* came or went among them.                                                *)
Current(d) == phase[d.call] = "asking" /\ d.call \notin crossed => d.selected = Layer
Agree(d, e) == d.call = e.call /\ d.call \notin crossed => d.selected = e.selected
AllCurrent == \A s \in Scopes : \A i \in DOMAIN log[s]["decisions"] : Current(log[s]["decisions"][i].event)
AllAgree ==
    \A s, t \in Scopes : \A i \in DOMAIN log[s]["decisions"], j \in DOMAIN log[t]["decisions"] :
        Agree(log[s]["decisions"][i].event, log[t]["decisions"][j].event)
LayerInv == AllCurrent /\ AllAgree

LEMMA LayerStep == TypeOK /\ FileInv /\ LayerInv /\ [Next]_vars => LayerInv'
<1> SUFFICES ASSUME TypeOK, FileInv, LayerInv, [Next]_vars PROVE LayerInv'
    OBVIOUS
<1>0. LogType /\ CallType /\ AllPast /\ AllCurrent /\ AllAgree /\ "decisions" \in Kinds
    BY TypeParts DEF FileInv, LayerInv, Kinds
<1> USE <1>0
<1>e. \A s \in Scopes : \A i \in DOMAIN log[s]["decisions"] :
        log[s]["decisions"][i].event.call \in Calls
    BY WriteEvent, EventFields DEF LogType
<1>1. CASE UNCHANGED <<log, phase, present, crossed>>
    BY <1>1 DEF LayerInv, AllCurrent, AllAgree, Current, Agree, Layer
<1>2. ASSUME NEW c \in Calls, Start(c) \/ Return(c) PROVE LayerInv'
    <2>1. UNCHANGED <<log, present, crossed>>
        BY <1>2 DEF Start, Return
    <2>2. AllAgree'
        BY <2>1 DEF AllAgree, Agree
    <2>3. \A d \in Calls : d # c => phase'[d] = phase[d]
        BY <1>2 DEF Start, Return, CallType
    <2>4. CASE Start(c)
        <3>1. phase[c] = "new"
            BY <2>4 DEF Start
        <3>2. \A s \in Scopes : \A i \in DOMAIN log[s]["decisions"] :
                log[s]["decisions"][i].event.call # c
            BY <3>1 DEF AllPast, Past
        <3> QED BY <1>e, <2>1, <2>2, <2>3, <3>2 DEF LayerInv, AllCurrent, Current, Layer
    <2>5. CASE Return(c)
        <3>1. phase'[c] = "returned"
            BY <2>5 DEF Return, CallType
        <3> QED BY <1>e, <2>1, <2>2, <2>3, <3>1 DEF LayerInv, AllCurrent, Current, Layer
    <2> QED BY <1>2, <2>4, <2>5
<1>3. CASE ChangeReport
    <2>1. UNCHANGED <<log, phase>> /\ crossed' = crossed \cup {c \in Calls : phase[c] = "asking"}
        BY <1>3 DEF ChangeReport
    <2>2. AllAgree'
        BY <2>1 DEF AllAgree, Agree
    <2>3. AllCurrent'
        BY <1>e, <2>1 DEF AllCurrent, Current
    <2> QED BY <2>2, <2>3 DEF LayerInv
<1>4. ASSUME NEW c \in Calls, NEW k \in Collectors, NEW part \in {"line", "cut"}, NEW f \in Kinds,
             NEW selected \in Scopes \cup {None}, Recorded(c, k, f, part, selected),
             f = "decisions" => phase[c] = "asking" /\ selected = Layer
      PROVE LayerInv'
    <2>1. UNCHANGED <<phase, present, crossed>>
        BY <1>4 DEF Recorded
    <2>2. PICK w \in Writes :
            /\ w = [event |-> [kind |-> f, call |-> c, by |-> k, selected |-> selected], part |-> part]
            /\ \A s \in Scopes, g \in Kinds :
                  log'[s][g] = IF s = Scope[k] /\ g = f THEN Append(log[s][g], w) ELSE log[s][g]
        BY <1>4, Growth
    <2>3. w.event.call = c /\ w.event.selected = selected
        BY <2>2
    <2> DEFINE Old(s, i) == /\ i \in DOMAIN log[s]["decisions"]
                            /\ log'[s]["decisions"][i] = log[s]["decisions"][i]
               New(s, i) == f = "decisions" /\ log'[s]["decisions"][i] = w
    <2>4. ASSUME NEW s \in Scopes, NEW i \in DOMAIN log'[s]["decisions"] PROVE Old(s, i) \/ New(s, i)
        <3>1. log[s]["decisions"] \in Seq(Writes)
            BY DEF LogType
        <3>2. CASE s = Scope[k] /\ f = "decisions"
            <4>1. log'[s]["decisions"] = Append(log[s]["decisions"], w)
                BY <2>2, <3>2
            <4> QED BY <2>4, <3>1, <3>2, <4>1, Appended
        <3>3. CASE ~(s = Scope[k] /\ f = "decisions")
            BY <2>2, <2>4, <3>3
        <3> QED BY <3>2, <3>3
    <2>5. AllCurrent'
        <3> SUFFICES ASSUME NEW s \in Scopes, NEW i \in DOMAIN log'[s]["decisions"]
                     PROVE Current(log[s]["decisions"][i].event)'
            BY DEF AllCurrent
        <3>1. CASE Old(s, i)
            BY <2>1, <3>1 DEF AllCurrent, Current, Layer
        <3>2. CASE New(s, i)
            BY <1>4, <2>1, <2>3, <3>2 DEF Current, Layer
        <3> QED BY <2>4, <3>1, <3>2
    <2>6. AllAgree'
        <3>1. ASSUME NEW s \in Scopes, NEW i \in DOMAIN log[s]["decisions"], f = "decisions"
              PROVE Agree(log[s]["decisions"][i].event, w.event) /\ Agree(w.event, log[s]["decisions"][i].event)
            <4>1. Current(log[s]["decisions"][i].event)
                BY DEF AllCurrent
            <4> QED BY <1>4, <2>3, <3>1, <4>1 DEF Current, Agree
        <3> SUFFICES ASSUME NEW s \in Scopes, NEW t \in Scopes, NEW i \in DOMAIN log'[s]["decisions"],
                            NEW j \in DOMAIN log'[t]["decisions"]
                     PROVE Agree(log[s]["decisions"][i].event, log[t]["decisions"][j].event)'
            BY DEF AllAgree
        <3>2. CASE Old(s, i) /\ Old(t, j)
            BY <2>1, <3>2 DEF AllAgree, Agree
        <3>3. CASE Old(s, i) /\ New(t, j)
            BY <2>1, <3>1, <3>3 DEF Agree
        <3>4. CASE New(s, i) /\ Old(t, j)
            BY <2>1, <3>1, <3>4 DEF Agree
        <3>5. CASE New(s, i) /\ New(t, j)
            BY <3>5 DEF Agree
        <3> QED BY <2>4, <3>2, <3>3, <3>4, <3>5
    <2> QED BY <2>5, <2>6 DEF LayerInv
<1>5. "usages" \in Kinds /\ Layer \in Scopes
    BY DEF Kinds, Layer, Scopes
<1>6. ASSUME NEW f \in Kinds, ReadJsonl(f) PROVE LayerInv'
    BY <1>1, <1>6 DEF ReadJsonl, cvars
<1>7. CASE Estimate
    BY <1>1, <1>7 DEF Estimate, cvars
<1>8. ASSUME NEW c \in Calls, NEW k \in Collectors, Withhold(c, k) PROVE LayerInv'
    BY <1>1, <1>8 DEF Withhold
<1>9. CASE UNCHANGED vars
    BY <1>1, <1>9 DEF vars, cvars
<1>10. ASSUME NEW c \in Calls, NEW k \in Collectors, NEW part \in {"line", "cut"},
              phase[c] = "returned", Recorded(c, k, "usages", part, None)
       PROVE LayerInv'
    <2>1. None \in Scopes \cup {None} /\ "usages" # "decisions"
        OBVIOUS
    <2> QED BY <1>4, <1>5, <1>10, <2>1
<1> QED BY NextCases, <1>2, <1>3, <1>4, <1>5, <1>6, <1>7, <1>8, <1>9, <1>10

(* A usage is matched with decisions of its call.                          *)
LEMMA MatchedCall ==
    ASSUME NEW D, \A d \in D : d.kind = "decisions", NEW u, NEW d \in Matching(D, u)
    PROVE d \in D /\ Linked(u) /\ d.by = u.by /\ d.call = u.call
<1>1. d \in D /\ JoinKey(u) # <<>> /\ JoinKey(d) = JoinKey(u)
    BY DEF Matching
<1>2. Linked(u) /\ Linked(d)
    BY <1>1 DEF JoinKey, Linked
<1> QED BY <1>1, <1>2 DEF JoinKey

LEMMA ElectedMatch ==
    ASSUME NEW D, NEW u, ElectWriter(D, u) = "SELECTED"
    PROVE \E d \in Matching(D, u) : d.selected = Scope[u.by]
BY DEF ElectWriter

(* Of the usages that hooks of both layers observed of a call, those of    *)
(* one layer are elected, whatever each guard resolved for itself.         *)
THEOREM OneWriter == Spec => []OneLayerElected
<1>1. Init => LayerInv
    BY DEF Init, LayerInv, AllCurrent, AllAgree, Kinds
<1>2. TypeOK /\ FileInv /\ LayerInv => OneLayerElected
    <2> SUFFICES ASSUME TypeOK, FileInv, LayerInv PROVE OneLayerElected
        OBVIOUS
    <2> DEFINE D == UNION {EventsOf(log[s]["decisions"]) : s \in Scopes}
    <2>1. ASSUME NEW d \in D
          PROVE \E s \in Scopes : \E i \in DOMAIN log[s]["decisions"] : d = log[s]["decisions"][i].event
        BY KeptLines DEF EventsOf
    <2>2. \A d \in D : d.kind = "decisions"
        BY <2>1 DEF FileInv, AllPlaced, Placed, Kinds
    <2>3. ASSUME NEW u, NEW v, u.call = v.call, u.call \notin crossed,
                 ElectWriter(D, u) = "SELECTED", ElectWriter(D, v) = "SELECTED"
          PROVE Scope[u.by] = Scope[v.by]
        <3>1. PICK d \in Matching(D, u) : d.selected = Scope[u.by]
            BY <2>3, ElectedMatch
        <3>2. PICK e \in Matching(D, v) : e.selected = Scope[v.by]
            BY <2>3, ElectedMatch
        <3>3. d \in D /\ d.call = u.call /\ e \in D /\ e.call = v.call
            BY <2>2, <3>1, <3>2, MatchedCall
        <3>4. Agree(d, e)
            BY <2>1, <3>3 DEF LayerInv, AllAgree
        <3> QED BY <2>3, <3>1, <3>2, <3>3, <3>4 DEF Agree
    <2>4. "decisions" \in Kinds
        BY DEF Kinds
    <2> QED BY <2>3, <2>4 DEF OneLayerElected, Elected
<1> QED BY <1>1, <1>2, LayerStep, Filed, PTL DEF Spec

(* The estimator and the projector tie the same usages to decisions, of    *)
(* whatever install, and whether or not its observer is told invocations.  *)
THEOREM TiesAgree == Spec => []ReadersAgree
<1>1. TypeOK /\ Read /\ FileInv => ReadersAgree
    <2> SUFFICES ASSUME TypeOK, Read, FileInv PROVE ReadersAgree
        OBVIOUS
    <2> DEFINE D == EventsOf(read["decisions"])
    <2>1. \A d \in D : d.kind = "decisions"
        BY ReadShape, KeptLines DEF EventsOf, Placed, Kinds
    <2>2. ASSUME NEW k, NEW u \in CountedEvents(read, k)
          PROVE u \in Tied(read, k) <=> ElectWriter(D, u) # "ORPHANED_NO_PRE"
        <3>1. u.by = k
            BY <2>2 DEF CountedEvents, Counted
        <3>2. ElectWriter(D, u) # "ORPHANED_NO_PRE" <=> Matching(D, u) # {}
            BY DEF ElectWriter
        <3>3. u \in Tied(read, k) <=> Linked(u) /\ \E d \in D : d.by = k /\ d.call = u.call
            BY <2>2 DEF Tied, Ran, Of
        <3>4. ASSUME NEW d \in D, Linked(u), d.by = k, d.call = u.call PROVE d \in Matching(D, u)
            <4>1. JoinKey(u) = <<u.by, u.call>> /\ JoinKey(d) = <<d.by, d.call>>
                BY <2>1, <3>4 DEF JoinKey, Linked
            <4> QED BY <3>1, <3>4, <4>1 DEF Matching
        <3>5. ASSUME NEW d \in Matching(D, u) PROVE d \in D /\ Linked(u) /\ d.by = k /\ d.call = u.call
            BY <2>1, <3>1, MatchedCall
        <3> QED BY <3>2, <3>3, <3>4, <3>5
    <2>3. \A k : Tied(read, k) \subseteq CountedEvents(read, k)
        BY DEF Tied
    <2> QED BY <2>2, <2>3 DEF ReadersAgree
<1> QED BY <1>1, Filed, PTL
-----------------------------------------------------------------------------
(* The score of the estimator, and the operators that it comes from.       *)
LEMMA EstimateOperators ==
    /\ \A F : E!SumFunction(F) = SumFunction(F)
    /\ \A S : E!Min(S) = Min(S) /\ E!Max(S) = Max(S)
<1>1. \A F, S : E!SumFunctionOnSet(F, S) = SumFunctionOnSet(F, S)
    BY DEF E!SumFunctionOnSet, E!FoldFunctionOnSet, E!MapThenFoldSet,
           SumFunctionOnSet, FoldFunctionOnSet, MapThenFoldSet
<1>2. \A F : E!SumFunction(F) = SumFunction(F)
    BY <1>1 DEF E!SumFunction, SumFunction
<1>3. \A S : E!Min(S) = Min(S) /\ E!Max(S) = Max(S)
    BY DEF E!Min, E!Max, Min, Max
<1> QED BY <1>2, <1>3

(* Evidence that does not tie all its usages to decisions.                 *)
Untied(e) ==
    /\ e.runtime = "claude" /\ e.usage \in {"none", "detailed"}
    /\ e.attribution \in {"child", "guidance", "none"}
    /\ e.model \in {"unknown", "inferred", "resolved"}
    /\ IsFiniteSet(DOMAIN e.buckets) /\ \A b \in DOMAIN e.buckets : e.buckets[b].tokens \in Nat
    /\ e.unknown \in Nat /\ e.corrupt \in Nat /\ e.lines \in Nat

LEMMA UntiedTokens ==
    ASSUME NEW e, Untied(e), NEW B \in SUBSET DOMAIN e.buckets
    PROVE E!Tokens(e, B) \in Nat
<1> DEFINE F == [b \in B |-> e.buckets[b].tokens]
<1>1. IsFiniteSet(B) /\ DOMAIN F = B /\ \A b \in B : F[b] \in Nat
    BY FS_Subset DEF Untied
<1>2. E!Tokens(e, B) = SumFunctionOnSet(F, B)
    BY <1>1, EstimateOperators DEF E!Tokens, SumFunction
<1> HIDE DEF F
<1> QED BY <1>1, <1>2, SumNat

LEMMA UntiedPenalty ==
    ASSUME NEW e, Untied(e)
    PROVE E!Penalty(e) \in Int
<1> DEFINE n == Max({1, e.lines})
           q == (10 * e.corrupt + n - 1) \div n
<1>1. n \in Nat \ {0} /\ e.corrupt \in Nat
    BY MaxOfTwo DEF Untied
<1>2. E!Penalty(e) = Min({10, q})
    BY EstimateOperators DEF E!Penalty
<1> HIDE DEF n
<1>3. q \in Nat
    <2>1. 10 * e.corrupt + n - 1 \in Nat
        BY <1>1
    <2> QED BY <1>1, <2>1, DivBound
<1> HIDE DEF q
<1> QED BY <1>2, <1>3, MinOfTwo

LEMMA UntiedCoverage ==
    ASSUME NEW e, Untied(e), NEW base, NEW basis
    PROVE E!Coverage(e, base, basis) \in Int
<1> DEFINE p == E!Tokens(e, E!Included(e, base))
           t == E!Total(e)
           d == E!Dimensions(e, base, basis)
<1>1. p \in Nat
    <2>1. E!Included(e, base) \in SUBSET DOMAIN e.buckets
        BY DEF E!Included
    <2> QED BY <2>1, UntiedTokens
<1>2. t \in Nat
    <2>1. E!Tokens(e, DOMAIN e.buckets) \in Nat
        BY UntiedTokens
    <2> QED BY <2>1 DEF E!Total, Untied
<1>3. d \in Nat
    <2>1. E!PricePoints(e, base, basis) \in {0, 5, 10, 15}
        BY DEF E!PricePoints
    <2>2. E!UsagePoints[e.usage] \in {35, 0}
        BY DEF Untied, E!UsagePoints
    <2>3. E!ModelPoints[e.model] \in {25, 10, 0}
        BY DEF Untied, E!ModelPoints
    <2>4. E!AttributionPoints[e.attribution] \in {18, 5, 0}
        BY DEF Untied, E!AttributionPoints
    <2> QED BY <2>1, <2>2, <2>3, <2>4 DEF E!Dimensions
<1>4. E!Coverage(e, base, basis) = IF t = 0 THEN 0 ELSE (d * p) \div t
    BY DEF E!Coverage
<1> HIDE DEF p, t, d
<1>5. d * p \in Nat
    <2>1. \A x, y \in Nat : x * y \in Nat
        OBVIOUS
    <2> QED BY <1>1, <1>3, <2>1
<1>6. t # 0 => (d * p) \div t \in Nat
    BY <1>2, <1>5, DivBound
<1> QED BY <1>4, <1>6

LEMMA UntiedNotHigh ==
    ASSUME NEW e, Untied(e), NEW base, NEW basis
    PROVE ~E!High(E!Score(e, base, basis))
<1> DEFINE c == E!Coverage(e, base, basis)
           p == E!Penalty(e)
           m == Max({0, c - p})
           s == E!Score(e, base, basis)
<1>1. E!Cap(e) \in {54, 79}
    BY DEF E!Cap, Untied
<1>2. c - p \in Int
    <2>1. c \in Int /\ p \in Int
        BY UntiedCoverage, UntiedPenalty
    <2> HIDE DEF c, p
    <2> QED BY <2>1
<1>3. s = IF ~base.known THEN 0 ELSE Min({E!Cap(e), m})
    BY EstimateOperators DEF E!Score
<1> HIDE DEF c, p, s
<1>4. m \in Int
    BY <1>2, MaxOfTwo
<1> HIDE DEF m
<1>5. Min({E!Cap(e), m}) <= 79 /\ Min({E!Cap(e), m}) \in Int
    <2>1. Min({E!Cap(e), m}) = IF E!Cap(e) <= m THEN E!Cap(e) ELSE m
        BY <1>1, <1>4, MinOfTwo
    <2> QED BY <1>1, <1>4, <2>1
<1>6. s \in Int /\ s <= 79
    BY <1>3, <1>5
<1>7. ~(s >= 80)
    BY <1>6
<1> QED BY <1>7 DEF E!High, s

LEMMA FileFinite ==
    ASSUME TypeOK, NEW f \in Kinds
    PROVE IsFiniteSet(DOMAIN read[f])
<1>1. read[f] \in Seq(Writes)
    BY TypeParts DEF ReadType
<1>2. Len(read[f]) \in Nat /\ DOMAIN read[f] = 1 .. Len(read[f])
    BY <1>1
<1>3. IsFiniteSet(1 .. Len(read[f]))
    <2>1. 1 \in Int /\ Len(read[f]) \in Int
        BY <1>2
    <2> QED BY <2>1, FS_Interval
<1> QED BY <1>2, <1>3

LEMMA UsagesFinite ==
    ASSUME TypeOK, NEW k
    PROVE IsFiniteSet(CountedEvents(read, k))
<1> DEFINE C == Counted(read, k)
           F == [i \in C |-> read["usages"][i].event]
<1>1. "usages" \in Kinds
    BY DEF Kinds
<1>2. C \in SUBSET DOMAIN read["usages"]
    BY KeptLines DEF Counted
<1>3. IsFiniteSet(C)
    BY <1>1, <1>2, FileFinite, FS_Subset
<1>4. F \in Surjection(C, CountedEvents(read, k))
    BY DEF Surjection, CountedEvents
<1> HIDE DEF C, F
<1> QED BY <1>3, <1>4, FS_Surjection

(* When every usage is of the model m, or of none, so are the buckets.     *)
LEMMA OneModel ==
    ASSUME NEW k, NEW m, NEW resolved \in [Calls -> {m, E!NoModel}],
           \A e \in CountedEvents(read, k) : e.call \in Calls
    PROVE LET model == Models(read, k, resolved, [c \in Calls |-> m]) IN
          /\ DOMAIN model \in SUBSET CountedEvents(read, k)
          /\ {model[e] : e \in DOMAIN model} \in SUBSET {m}
          /\ \A e \in CountedEvents(read, k) : resolved[e.call] # E!NoModel => e \in DOMAIN model
<1> DEFINE injected == [c \in Calls |-> m]
           named == {e \in CountedEvents(read, k) : resolved[e.call] # E!NoModel}
           asked == {e \in Tied(read, k) : injected[e.call] # E!NoModel}
           model == [e \in named \cup asked |-> IF e \in named THEN resolved[e.call] ELSE injected[e.call]]
<1>1. Models(read, k, resolved, injected) = model
    BY DEF Models
<1>2. named \cup asked \in SUBSET CountedEvents(read, k)
    BY DEF Tied
<1>3. \A e \in named \cup asked : model[e] = m
    BY <1>2
<1> QED BY <1>1, <1>2, <1>3

LEMMA EvidenceUntied ==
    ASSUME TypeOK, NEW k, NEW m, NEW resolved \in [Calls -> {m, E!NoModel}],
           \A e \in CountedEvents(read, k) : e.call \in Calls,
           NEW u \in CountedEvents(read, k), u \notin Tied(read, k), resolved[u.call] # E!NoModel
    PROVE Untied(Evidence(read, k, resolved, [c \in Calls |-> m]))
<1> DEFINE injected == [c \in Calls |-> m]
           e == Evidence(read, k, resolved, injected)
           all == CountedEvents(read, k)
           model == Models(read, k, resolved, injected)
           M == DOMAIN model
           B == {model[x] : x \in M}
           bucket == [b \in B |-> {x \in M : model[x] = b}]
           Spoils == [f \in Kinds |-> Cardinality(Corrupt(read[f]))]
           Sizes == [f \in Kinds |-> Cardinality(Ends(read[f])) + (IF Partial(read[f]) THEN 1 ELSE 0)]
<1>1. M \in SUBSET all /\ B \in SUBSET {m} /\ u \in M
    <2>1. /\ DOMAIN Models(read, k, resolved, injected) \in SUBSET all
          /\ {model[x] : x \in DOMAIN Models(read, k, resolved, injected)} \in SUBSET {m}
          /\ \A x \in all : resolved[x.call] # E!NoModel
                => x \in DOMAIN Models(read, k, resolved, injected)
        <3> HIDE DEF model
        <3> QED BY OneModel DEF model
    <2> QED BY <2>1
<1>2. IsFiniteSet(all) /\ IsFiniteSet(M) /\ IsFiniteSet(B) /\ IsFiniteSet(all \ M)
    <2>1. IsFiniteSet({m})
        BY FS_Singleton
    <2> HIDE DEF M, B
    <2> QED BY <1>1, <2>1, UsagesFinite, FS_Subset
<1>3. /\ e.runtime = "claude" /\ e.usage \in {"none", "detailed"}
      /\ e.attribution = Attribution(read, k, M)
      /\ e.model \in {"unknown", "inferred", "resolved"}
      /\ e.buckets = [b \in B |-> [model |-> b, tokens |-> Cardinality(bucket[b])]]
      /\ e.unknown = Cardinality(all \ M)
      /\ e.corrupt = E!SumFunction(Spoils) /\ e.lines = E!SumFunction(Sizes)
    BY DEF Evidence
<1>4. e.attribution = "child"
    <2>1. M # {} /\ ~(M \subseteq Tied(read, k))
        BY <1>1
    <2> QED BY <1>3, <2>1 DEF Attribution
<1>5. \A b \in B : Cardinality(bucket[b]) \in Nat
    <2>1. \A b \in B : bucket[b] \in SUBSET M
        OBVIOUS
    <2> QED BY <1>2, <2>1, FS_Subset, FS_CardinalityType
<1>6. \A f \in Kinds : IsFiniteSet(Ends(read[f])) /\ IsFiniteSet(Corrupt(read[f]))
    <2>1. \A f \in Kinds : Ends(read[f]) \in SUBSET DOMAIN read[f] /\ Corrupt(read[f]) \in SUBSET DOMAIN read[f]
        BY DEF Ends, Corrupt
    <2> QED BY <2>1, FileFinite, FS_Subset
<1>7. IsFiniteSet(Kinds)
    <2>1. IsFiniteSet({"decisions"}) /\ Kinds = {"decisions"} \cup {"usages"}
        BY FS_Singleton DEF Kinds
    <2> QED BY <2>1, FS_AddElement
<1>8. E!SumFunction(Spoils) \in Nat /\ E!SumFunction(Sizes) \in Nat
    <2>1. DOMAIN Spoils = Kinds /\ DOMAIN Sizes = Kinds
        OBVIOUS
    <2>2. ASSUME NEW f \in Kinds PROVE Spoils[f] \in Nat /\ Sizes[f] \in Nat
        <3>1. Cardinality(Ends(read[f])) \in Nat /\ Cardinality(Corrupt(read[f])) \in Nat
            BY <1>6, FS_CardinalityType
        <3> QED BY <3>1
    <2> HIDE DEF Spoils, Sizes
    <2> QED BY <1>7, <2>1, <2>2, SumNat, EstimateOperators DEF SumFunction
<1>9. Cardinality(all \ M) \in Nat
    BY <1>2, FS_CardinalityType
<1> HIDE DEF e, all, M, B, bucket, Spoils, Sizes
<1>10. DOMAIN e.buckets = B /\ \A b \in B : e.buckets[b].tokens \in Nat
    BY <1>3, <1>5
<1> QED BY <1>2, <1>3, <1>4, <1>8, <1>9, <1>10 DEF Untied, e

(* Confidence is not high while a usage with a model is of a call that its *)
(* install's guard recorded no decision for.                               *)
THEOREM HighIsTied == Spec => []HighNeedsExact
<1>1. TypeOK /\ Read => HighNeedsExact
    <2> DEFINE m == CHOOSE m \in DOMAIN Rate : TRUE
               injected == [c \in Calls |-> m]
               Decided(k) == Ran(Of(EventsOf(log["project"]["decisions"]), k))
    <2> SUFFICES ASSUME TypeOK, Read, Ready, NEW k \in Candidates(read),
                        NEW c \in Ran(CountedEvents(read, k)) \ Decided(k),
                        NEW resolved \in [Calls -> {m, E!NoModel}], resolved[c] = m
                 PROVE ~E!High(E!EstimateRuntime(Evidence(read, k, resolved, injected),
                                                 <<m, m, m>>, "user-supplied").score)
        BY DEF HighNeedsExact
    <2> DEFINE e == Evidence(read, k, resolved, injected)
               base == E!Baseline(<<m, m, m>>)
    <2>1. E!EstimateRuntime(e, <<m, m, m>>, "user-supplied").score = E!Score(e, base, "user-supplied")
        BY DEF E!EstimateRuntime
    <2>2. CASE DOMAIN Rate = {}
        <3>1. ~E!HasPrice(m)
            BY <2>2, PricesAssumption DEF E!HasPrice
        <3>2. base = [known |-> FALSE]
            <4>1. \A s \in {1, 2, 3} : <<m, m, m>>[s] = m
                OBVIOUS
            <4>2. {s \in {1, 2, 3} : E!HasPrice(<<m, m, m>>[s])} = {}
                BY <3>1, <4>1
            <4> QED BY <4>2 DEF E!Baseline
        <3>3. E!Score(e, base, "user-supplied") = 0
            BY <3>2 DEF E!Score
        <3> QED BY <2>1, <3>3 DEF E!High
    <2>3. CASE DOMAIN Rate # {}
        <3>1. m # E!NoModel
            BY <2>3, PricesAssumption DEF E!NoModel
        <3>2. PICK u \in CountedEvents(read, k) : u.call = c
            BY DEF Ran
        <3>3. u \notin Tied(read, k)
            <4>1. EventsOf(read["decisions"]) \subseteq EventsOf(log["project"]["decisions"])
                <5>1. "decisions" \in Kinds /\ "project" \in Scopes
                    BY DEF Kinds, Scopes
                <5>2. /\ read["decisions"] \in Seq(Writes) /\ log["project"]["decisions"] \in Seq(Writes)
                      /\ Starts(read["decisions"], log["project"]["decisions"])
                    BY <5>1, TypeParts DEF ReadType, LogType, Read
                <5>3. Kept(read["decisions"]) \subseteq Kept(log["project"]["decisions"])
                    BY <5>2, KeptStarts
                <5>4. \A i \in Kept(read["decisions"]) : read["decisions"][i] = log["project"]["decisions"][i]
                    BY <5>2, KeptLines DEF Starts
                <5> QED BY <5>3, <5>4 DEF EventsOf
            <4>2. Ran(Of(EventsOf(read["decisions"]), k)) \subseteq Decided(k)
                BY <4>1 DEF Ran, Of
            <4> QED BY <3>2, <4>2 DEF Tied
        <3>4. \A x \in CountedEvents(read, k) : x.call \in Calls
            <4>1. read["usages"] \in Seq(Writes)
                BY TypeParts DEF ReadType, Kinds
            <4>2. \A i \in Counted(read, k) : read["usages"][i] \in Writes
                BY <4>1, KeptLines DEF Counted
            <4> QED BY <4>2, WriteEvent, EventFields DEF CountedEvents
        <3>5. Untied(e)
            BY <3>1, <3>2, <3>3, <3>4, EvidenceUntied
        <3> HIDE DEF e, base
        <3> QED BY <2>1, <3>5, UntiedNotHigh DEF e
    <2> QED BY <2>2, <2>3
<1> QED BY <1>1, Reading, PTL
=============================================================================
