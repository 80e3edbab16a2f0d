--------------------------- MODULE EvidenceReaders ---------------------------
(***************************************************************************)
(* What is made of the evidence of EvidenceLog: the estimator ties usages  *)
(* to decisions and scores the result (src/src/estimate/claude.js, with    *)
(* Estimate), and the projector joins them on its own and elects the       *)
(* writer of each usage (src/src/telemetry/projector.js).                  *)
(***************************************************************************)
EXTENDS EvidenceLog

CONSTANTS Rate, AliasOf, Unit       \* the price catalog
(* Of the catalog only this: an alias names one of its models, 0 names none.*)
ASSUME PricesAssumption == 0 \notin DOMAIN Rate /\ AliasOf \in [DOMAIN AliasOf -> DOMAIN Rate]
E == INSTANCE Estimate

Of(S, k) == {e \in S : e.by = k}
Ran(S) == {e.call : e \in S}
-----------------------------------------------------------------------------
(* The estimator.  A usage is tied to the decision of its collector that   *)
(* has its invocation.                                                     *)
Tied(r, k) ==
    LET decided == Ran(Of(EventsOf(r["decisions"]), k)) IN
    {e \in CountedEvents(r, k) : Linked(e) /\ e.call \in decided}

(* The models of the usages, where they have one: that which the runtime   *)
(* resolved, if its name is usable, or else the one the decision injected. *)
Models(r, k, resolved, injected) ==
    LET named == {e \in CountedEvents(r, k) : resolved[e.call] # E!NoModel}
        asked == {e \in Tied(r, k) : injected[e.call] # E!NoModel}
    IN  [e \in named \cup asked |-> IF e \in named THEN resolved[e.call] ELSE injected[e.call]]

(* Bearing are the usages that have a model.  A bug: it is enough that one *)
(* of them is tied to its decision.                                        *)
AttributionOfAny(r, k, bearing) ==
    IF bearing \cap Tied(r, k) # {} THEN "exact" ELSE IF bearing # {} THEN "child"
    ELSE IF Of(EventsOf(r["decisions"]), k) # {} THEN "guidance" ELSE "none"

Attribution(r, k, bearing) ==
    IF bearing # {} /\ bearing \subseteq Tied(r, k) THEN "exact" ELSE IF bearing # {} THEN "child"
    ELSE IF Of(EventsOf(r["decisions"]), k) # {} THEN "guidance" ELSE "none"

(* The evidence, with one token for each usage.  A bucket is resolved when *)
(* one of its usages is, and the weakest bucket counts.                    *)
Evidence(r, k, resolved, injected) ==
    LET all    == CountedEvents(r, k)
        model  == Models(r, k, resolved, injected)
        bucket == [m \in {model[e] : e \in DOMAIN model} |-> {e \in DOMAIN model : model[e] = m}]
        weak   == \E m \in DOMAIN bucket : \A e \in bucket[m] : resolved[e.call] = E!NoModel
    IN  [runtime |-> "claude",
         usage |-> IF all = {} THEN "none" ELSE "detailed",
         attribution |-> Attribution(r, k, DOMAIN model),
         model |-> IF DOMAIN model = {} THEN "unknown" ELSE IF weak THEN "inferred" ELSE "resolved",
         buckets |-> [m \in DOMAIN bucket |-> [model |-> m, tokens |-> Cardinality(bucket[m])]],
         unknown |-> Cardinality(all \ DOMAIN model),
         corrupt |-> E!SumFunction([f \in Kinds |-> Cardinality(Corrupt(r[f]))]),
         lines |-> E!SumFunction([f \in Kinds |-> Cardinality(Ends(r[f])) + (IF Partial(r[f]) THEN 1 ELSE 0)])]
-----------------------------------------------------------------------------
(* The projector, on the events kept of decisions D and usages.            *)
(* A bug: an invocation is looked up whatever install observed it.         *)
InvocationKey(e) == IF Linked(e) THEN <<e.call>> ELSE <<>>

JoinKey(e) == IF Linked(e) THEN <<e.by, e.call>> ELSE <<>>

Matching(D, u) == {d \in D : JoinKey(u) # <<>> /\ JoinKey(d) = JoinKey(u)}

(* A bug: the hook's own layer is not compared with the one selected.      *)
ElectAnyWriter(D, u) == IF Matching(D, u) = {} THEN "ORPHANED_NO_PRE" ELSE "SELECTED"

ElectWriter(D, u) ==
    CASE Matching(D, u) = {} -> "ORPHANED_NO_PRE"
      [] \E d \in Matching(D, u) : d.selected = Scope[u.by] -> "SELECTED"
      [] OTHER -> "ORPHANED_UNSELECTED_SCOPE"

Elected(D, U) == {u \in U : ElectWriter(D, u) = "SELECTED"}
-----------------------------------------------------------------------------
(* Two readers that were written apart agree on which usage belongs to     *)
(* which decision: for the collector of an estimate, the projector calls a *)
(* usage an orphan without decision exactly when the estimator cannot tie  *)
(* it to one.  (Those of this version's observer, which is told no         *)
(* invocation, are all of them.)                                           *)
ReadersAgree ==
    Ready => LET decisions == EventsOf(read["decisions"]) IN
        \A k \in Candidates(read) :
            Tied(read, k) = {u \in CountedEvents(read, k) : ElectWriter(decisions, u) # "ORPHANED_NO_PRE"}

(* The hooks of both layers see the same call, each resolves the contract  *)
(* for itself, and each records it.  Unless the project's report came or   *)
(* went between two guards of the call, usages of one layer are elected    *)
(* and not those of the other (electWriter).                               *)
OneLayerElected ==
    LET kept == [f \in Kinds |-> UNION {EventsOf(log[s][f]) : s \in Scopes}] IN
    \A u, v \in kept["usages"] :
        u.call = v.call /\ u.call \notin crossed /\ Scope[u.by] # Scope[v.by]
            => ~({u, v} \subseteq Elected(kept["decisions"], {u, v}))

(* Confidence is not called high as long as a usage that has a model is of *)
(* a call for which this install's guard recorded no decision, whatever    *)
(* the models of the others and however good the prices (attribution in    *)
(* claude.js, runtimeCap in confidence.js).                                *)
HighNeedsExact ==
    LET m == CHOOSE m \in DOMAIN Rate : TRUE
        High(k, resolved) ==
            E!High(E!EstimateRuntime(Evidence(read, k, resolved, [c \in Calls |-> m]),
                                     <<m, m, m>>, "user-supplied").score)
        Decided(k) == Ran(Of(EventsOf(log["project"]["decisions"]), k))
    IN  Ready => \A k \in Candidates(read) :
        \A c \in Ran(CountedEvents(read, k)) \ Decided(k) :
            \A resolved \in [Calls -> {m, E!NoModel}] : resolved[c] = m => ~High(k, resolved)
=============================================================================
