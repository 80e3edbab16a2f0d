---------------------------- MODULE CodexEstimate ----------------------------
(***************************************************************************)
(* The estimate for Codex: a root thread and the threads it spawned write  *)
(* rollout files while the estimator reads them one by one; what it read   *)
(* becomes tokens per model (src/src/estimate/codex.js), and Estimate makes*)
(* a score of it and, when the score allows it, an amount.                 *)
(*                                                                         *)
(* A file is what parseRollout makes of its complete lines.  The four      *)
(* token counts of a usage are treated alike; there is one here.           *)
(***************************************************************************)
EXTENDS Estimate, Sequences, FiniteSets, SequencesExt

CONSTANTS
    Models,         \* models, numbers in the order of their names
    Files, Child,   \* rollout files by name, [Files -> the thread in it]
    Routed,         \* models that the contract routes a role to
    Asked,          \* models named as the baseline, by the user, the root, the contract
    Steps,          \* the tokens that a turn may use
    MaxRecords, MaxSpawns   \* bounds on what is written

ASSUME OrderAssumption == Models \subseteq Nat /\ Files \subseteq Nat /\ Steps \subseteq Nat
ASSUME FiniteAssumption == IsFiniteSet(Models) /\ IsFiniteSet(Files)
ASSUME RoutedAssumption == Routed \subseteq Models
ASSUME AskedAssumption == Asked \subseteq [1 .. 3 -> Nat]
ASSUME BoundAssumption == MaxRecords \in Nat /\ MaxSpawns \in Nat

Children == {Child[f] : f \in Files}
NoUsage == -1
Empty == [models |-> {}, tokens |-> NoUsage, time |-> 0, corrupt |-> 0, lines |-> 0]
Rollouts == [models : SUBSET Models, tokens : Nat \cup {NoUsage}, time : Nat, corrupt : Nat, lines : Nat]

(* A spawn names its model, or a role the contract routes, or neither.     *)
Kinds == (Models \X {"observed"}) \cup (Routed \X {"inferred"}) \cup {<<0, "unknown">>}

VARIABLES
    linked,         \* whether this Codex writes the parent into a child's file
    root,           \* the root's usage, spawns, corrupt and complete lines
    roll,           \* what each file of a child holds
    used,           \* the tokens that each child has really used
    blank,          \* children with a token count that has no total
    records,        \* number of records written
    pc, toRead, read, torn,     \* the estimator, and what it has read
    known,          \* the newest total of each child when it began
    out             \* the evidence it made of it

world == <<linked, root, roll, used, blank, records>>
vars == <<world, pc, toRead, read, torn, known, out>>
-----------------------------------------------------------------------------
(* One rollout for each child: the first of a stable sort.                 *)
(* Bugs: rollouts of the same time stay in the order of the listing; the   *)
(* sort is the other way round.                                            *)
NewerByTime(r, f, g) == r[f].time > r[g].time
Older(r, f, g) == r[f].time < r[g].time \/ (r[f].time = r[g].time /\ f < g)

Newer(r, f, g) == r[f].time > r[g].time \/ (r[f].time = r[g].time /\ f < g)

Chosen(r, order, c) ==
    LET of == {i \in DOMAIN order : Child[order[i]] = c}
        Before(i, j) == \/ Newer(r, order[i], order[j])
                        \/ ~Newer(r, order[j], order[i]) /\ i < j
    IN order[CHOOSE i \in of : \A j \in of \ {i} : Before(i, j)]

(* allocateRootUsage.  The share of the root's usage that is given to      *)
(* models, at most three fourths, and its distribution by largest          *)
(* remainder.  (The reduction of the fraction does not change a rounding.) *)
Spawned(spawns) == SumFunction(spawns)
Count(spawns, m) == SumFunctionOnSet(spawns, {k \in Kinds \ {<<0, "unknown">>} : k[1] = m})
Named(spawns) == {m \in Models : Count(spawns, m) > 0}
Limit(n) == IF 4 * n > 3 * (n + 2) THEN <<3, 4>> ELSE <<n, n + 2>>
HalfUp(a, b) == (a + b \div 2) \div b

(* A bug: every model's part is rounded for itself.                        *)
RoundedParts(tokens, spawns) ==
    LET n == Spawned(spawns)  limit == Limit(n) IN
    [m \in Models |-> HalfUp(tokens * limit[1] * Count(spawns, m), limit[2] * n)]

Parts(tokens, spawns) ==
    LET n == Spawned(spawns)
        limit == Limit(n)
        names == Named(spawns)
        among == SumFunction([m \in names |-> Count(spawns, m)])
        allocated == HalfUp(tokens * limit[1] * among, limit[2] * n)
        quotient == [m \in names |-> (allocated * Count(spawns, m)) \div among]
        remainder == [m \in names |-> (allocated * Count(spawns, m)) % among]
        remaining == allocated - SumFunction(quotient)
        ahead == [m \in names |-> {q \in names : \/ remainder[q] > remainder[m]
                                                 \/ remainder[q] = remainder[m] /\ q < m}]
    IN [m \in Models |-> IF m \notin names THEN 0
                         ELSE IF Cardinality(ahead[m]) < remaining THEN quotient[m] + 1 ELSE quotient[m]]

(* The evidence: what it is from says how good usage and attribution are.  *)
Usage == [children |-> "detailed", session |-> "session", routing |-> "none"]
Attribution == [children |-> "child", session |-> "allocation", routing |-> "guidance"]
Evidence(source, model, buckets, unknown, corrupt, lines) ==
    [runtime |-> "codex", usage |-> Usage[source], attribution |-> Attribution[source],
     model |-> model, buckets |-> buckets, unknown |-> unknown, corrupt |-> corrupt, lines |-> lines]
Nothing == [m \in {} |-> 0]

(* normalizeCodexRollouts: linked children when one of them has a usage of *)
(* one model, else the root's usage spread over what it spawned.           *)
Normalize(r, cut, order) ==
    LET kept    == IF linked THEN {Chosen(r, order, c) : c \in {Child[f] : f \in DOMAIN r}} ELSE {}
        usable  == {f \in kept : r[f].tokens # NoUsage}
        buckets == {f \in usable : Cardinality(r[f].models) = 1}
        mixed   == SumFunction([f \in usable \ buckets |-> r[f].tokens])
        spawns  == root.spawns
        weak    == \E m \in Named(spawns) : spawns[<<m, "observed">>] = 0
    IN  CASE buckets # {} ->
                Evidence("children", "observed",
                         [f \in buckets |-> [model |-> CHOOSE m \in r[f].models : TRUE, tokens |-> r[f].tokens]],
                         mixed,
                         root.corrupt + SumFunction([f \in kept |-> r[f].corrupt]),
                         root.lines + SumFunction([f \in kept |-> r[f].lines + (IF f \in cut THEN 1 ELSE 0)]))
          [] buckets = {} /\ root.tokens # NoUsage /\ Spawned(spawns) > 0 ->
                LET parts == Parts(root.tokens, spawns) IN
                Evidence("session",
                         IF Named(spawns) = {} THEN "unknown" ELSE IF weak THEN "inferred" ELSE "observed",
                         [m \in Named(spawns) |-> [model |-> m, tokens |-> parts[m]]],
                         root.tokens - SumFunction(parts), root.corrupt, root.lines)
          [] OTHER -> Evidence("routing", "unknown", Nothing, mixed, root.corrupt, root.lines)
-----------------------------------------------------------------------------
Exists(f) == roll[f].lines > 0

Init ==
    /\ linked \in BOOLEAN
    /\ root = [tokens |-> NoUsage, spawns |-> [k \in Kinds |-> 0], corrupt |-> 0, lines |-> 1]
    /\ roll = [f \in Files |-> Empty]
    /\ used = [c \in Children |-> 0]
    /\ blank = {} /\ records = 0
    /\ pc = "idle" /\ toRead = {} /\ read = <<>> /\ torn = {}
    /\ known = [c \in Children |-> 0]
    /\ out = Evidence("routing", "unknown", Nothing, 0, 0, 0)

(* Codex writes.  Without links the children's files play no part, and the *)
(* root's records are bounded by MaxSpawns; with links nothing is said of  *)
(* the spawns.                                                             *)
Writes ==
    /\ pc # "done"
    /\ records < (IF linked THEN MaxRecords ELSE MaxSpawns) /\ records' = records + 1
    /\ UNCHANGED <<linked, pc, toRead, read, torn, known, out>>

RootTurn(n) ==
    /\ pc = "idle" /\ Writes
    /\ root' = [root EXCEPT !.tokens = (IF @ = NoUsage THEN 0 ELSE @) + n, !.lines = @ + 1]
    /\ UNCHANGED <<roll, used, blank>>

Spawn(k) ==
    /\ pc = "idle" /\ ~linked /\ Writes
    /\ root' = [root EXCEPT !.spawns[k] = @ + 1, !.lines = @ + 1]
    /\ UNCHANGED <<roll, used, blank>>

(* A turn of a child: its model and its token count, of which the last one *)
(* counts, also when it has no total in it.                                *)
Turn(f, m, n, total) ==
    /\ linked /\ Writes
    /\ \A g \in Files : Child[g] = Child[f] => f <= g       \* copies are not written to
    /\ used' = [used EXCEPT ![Child[f]] = @ + n]
    /\ roll' = [roll EXCEPT ![f].models = @ \cup {m}, ![f].lines = @ + 1, ![f].time = records',
                            ![f].tokens = IF total THEN used'[Child[f]] ELSE NoUsage]
    /\ blank' = IF total THEN blank ELSE blank \cup {Child[f]}
    /\ UNCHANGED root

(* The file of a child is copied, a backup or a restored session.          *)
CopyFile(f, g) ==
    /\ linked /\ Writes
    /\ f # g /\ Child[f] = Child[g] /\ Exists(f) /\ ~Exists(g)
    /\ roll' = [roll EXCEPT ![g] = roll[f]]
    /\ UNCHANGED <<root, used, blank>>

(* A line that does not parse, in a child's file or in the root's.         *)
SpoilChild(f) ==
    /\ Writes /\ Exists(f)
    /\ roll' = [roll EXCEPT ![f].corrupt = @ + 1, ![f].lines = @ + 1]
    /\ UNCHANGED <<root, used, blank>>

SpoilRoot ==
    /\ pc = "idle" /\ Writes
    /\ root' = [root EXCEPT !.corrupt = @ + 1, !.lines = @ + 1]
    /\ UNCHANGED <<roll, used, blank>>

(* The estimator lists the files, reads them one by one, a last line that  *)
(* is being written is passed by, and estimates.                           *)
Begin ==
    /\ pc = "idle" /\ pc' = "reading"
    /\ toRead' = {f \in Files : Exists(f)}
    /\ known' = [c \in Children |-> Max({0} \cup {roll[f].tokens : f \in {g \in Files : Child[g] = c}})]
    /\ UNCHANGED <<world, read, torn, out>>

ReadFile(f) ==
    /\ f \in toRead /\ toRead' = toRead \ {f}
    /\ read' = [g \in DOMAIN read \cup {f} |-> IF g = f THEN roll[f] ELSE read[g]]
    /\ torn' \in {torn, torn \cup {f}}
    /\ UNCHANGED <<world, pc, known, out>>

Estimate ==
    /\ pc = "reading" /\ toRead = {} /\ pc' = "done"
    /\ \E order \in SetToSeqs(DOMAIN read) : out' = Normalize(read, torn, order)
    /\ UNCHANGED <<world, toRead, read, torn, known>>

Ended == pc = "done" /\ UNCHANGED vars

Next ==
    \/ \E n \in Steps : RootTurn(n)
    \/ \E k \in Kinds : Spawn(k)
    \/ \E f \in Files :
        \/ \E m \in Models, n \in Steps, total \in BOOLEAN : Turn(f, m, n, total)
        \/ \E g \in Files : CopyFile(f, g)
        \/ SpoilChild(f) \/ ReadFile(f)
    \/ SpoilRoot \/ Begin \/ Estimate \/ Ended

Spec == Init /\ [][Next]_vars
-----------------------------------------------------------------------------
Estimates == {EstimateRuntime(out, named, basis) : named \in Asked, basis \in {"heuristic", "user-supplied"}}

TypeOK ==
    /\ linked \in BOOLEAN /\ blank \subseteq Children
    /\ root.tokens \in Nat \cup {NoUsage} /\ root.spawns \in [Kinds -> Nat]
    /\ root.corrupt \in 0 .. root.lines
    /\ roll \in [Files -> Rollouts] /\ used \in [Children -> Nat]
    /\ pc \in {"idle", "reading", "done"} /\ toRead \subseteq Files
    /\ DOMAIN read \subseteq Files /\ torn \subseteq Files
    /\ out.usage \in {"detailed", "session", "none"} /\ out.unknown \in Nat
    /\ \A b \in DOMAIN out.buckets : out.buckets[b] \in [model : Models, tokens : Nat]
    /\ pc = "done" => \A est \in Estimates : est.score \in 0 .. 100

(* However often its file was copied, and whatever is written while the    *)
(* estimator reads, a child counts once and with its newest total: no less *)
(* than it had used when the estimator began, no more than it has used by  *)
(* now.  Only a child with a token count that has no total may count less. *)
ChildrenCountOnce ==
    pc = "done" /\ out.usage = "detailed" =>
        /\ Total(out) <= SumFunction(used)
        /\ Total(out) >= SumFunctionOnSet(known, Children \ blank)

(* The order in which the directory lists its entries does not change what *)
(* is estimated, also among copies of the same time.                       *)
SameWhateverListing ==
    pc = "done" => \A order \in SetToSeqs(DOMAIN read) : Normalize(read, torn, order) = out

(* The usage of a session is spread by quota.  Nothing is made up: the     *)
(* parts and a rest that is not negative are the root's usage, and at      *)
(* least a fourth of it stays unknown.  Nobody is favoured: a part strays  *)
(* less than one token and a half from its exact quota, and a model that   *)
(* was spawned more often gets no less.                                    *)
SharesKeepQuota ==
    pc = "done" /\ out.usage = "session" =>
        LET n == Spawned(root.spawns)  limit == Limit(n)
            given == Tokens(out, DOMAIN out.buckets)
            Part(m) == IF m \in DOMAIN out.buckets THEN out.buckets[m].tokens ELSE 0 IN
        /\ out.unknown >= 0 /\ given + out.unknown = root.tokens
        /\ 4 * given <= 3 * root.tokens + 2
        /\ \A m \in Models :
            2 * Magnitude(Part(m) * limit[2] * n - root.tokens * limit[1] * Count(root.spawns, m))
                < 3 * limit[2] * n
        /\ \A m, q \in Models :
            Count(root.spawns, m) > Count(root.spawns, q) => Part(m) >= Part(q)

(* An amount is shown only against a known baseline and when two fifths of *)
(* the observed tokens have a price; it has the sign of the raw difference *)
(* and is not larger.                                                      *)
AmountNeedsEvidence ==
    pc = "done" =>
        \A est \in Estimates : Shown(est.score) =>
            /\ est.baseline /\ 5 * est.priced >= 2 * est.total
            /\ Magnitude(est.adjusted) <= Magnitude(est.raw) /\ est.adjusted * est.raw >= 0
=============================================================================
