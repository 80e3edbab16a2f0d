------------------------------- MODULE Estimate ------------------------------
(***************************************************************************)
(* What the estimator makes of the evidence of a runtime: a baseline, a    *)
(* difference of costs, a score and, when the score allows it, an amount   *)
(* (src/src/estimate/index.js, pricing.js, confidence.js).                 *)
(*                                                                         *)
(* Evidence is a record: the runtime and the source it is from, how good   *)
(* its usage, its attribution and its models are, a bucket of tokens for   *)
(* each model or child, the tokens of unknown models, and the lines read.  *)
(* The token counts of a usage are treated alike; there is one here.       *)
(***************************************************************************)
EXTENDS Integers, FiniteSetsExt

CONSTANTS
    Rate,           \* the price catalog: [its models -> the price of a unit]
    AliasOf,        \* [its aliases -> its models]
    Unit            \* the tokens of a unit, a million

(* A token names one model of a catalog (normalizeModel), and 0 names none.*)
ASSUME CatalogAssumption ==
    /\ Unit \in Nat \ {0} /\ Rate \in [DOMAIN Rate -> Nat]
    /\ AliasOf \in [DOMAIN AliasOf -> DOMAIN Rate]
    /\ DOMAIN AliasOf \cap DOMAIN Rate = {} /\ 0 \notin DOMAIN AliasOf \cup DOMAIN Rate

NoModel == 0
-----------------------------------------------------------------------------
(* resolveModelPrice and resolveBaselineModel: the first of the models     *)
(* that are named that has a price.                                        *)
HasPrice(m) == m \in DOMAIN Rate \cup DOMAIN AliasOf
Match(m) == IF m \in DOMAIN Rate THEN "exact" ELSE "alias"
RateOf(m) == Rate[IF m \in DOMAIN Rate THEN m ELSE AliasOf[m]]

Baseline(named) ==
    LET sources == {s \in {1, 2, 3} : HasPrice(named[s])}
        s == Min(sources)
    IN  IF sources = {} THEN [known |-> FALSE]
        ELSE [known |-> TRUE, match |-> Match(named[s]), rate |-> RateOf(named[s]),
              source |-> <<"explicit", "observed", "contract">>[s]]

(* priceUsageDifference, over the buckets that have a price.               *)
Cost(tokens, rate) == (tokens * rate + Unit \div 2) \div Unit
Included(e, base) == IF base.known THEN {b \in DOMAIN e.buckets : HasPrice(e.buckets[b].model)} ELSE {}
Tokens(e, B) == SumFunction([b \in B |-> e.buckets[b].tokens])
Total(e) == Tokens(e, DOMAIN e.buckets) + e.unknown
Raw(e, base) ==
    SumFunction([b \in Included(e, base) |->
        Cost(e.buckets[b].tokens, base.rate) - Cost(e.buckets[b].tokens, RateOf(e.buckets[b].model))])
-----------------------------------------------------------------------------
(* scoreConfidence.                                                        *)
UsagePoints == [detailed |-> 35, session |-> 25, none |-> 0]
ModelPoints == [resolved |-> 25, observed |-> 18, inferred |-> 10, unknown |-> 0]
AttributionPoints == [exact |-> 25, child |-> 18, allocation |-> 10, guidance |-> 5, none |-> 0]

PricePoints(e, base, basis) ==
    LET priced == Included(e, base)
        exact  == base.match = "exact" /\ \A b \in priced : Match(e.buckets[b].model) = "exact"
    IN  IF priced = {} THEN 0
        ELSE IF basis = "heuristic" THEN 5
        ELSE IF exact /\ base.source = "explicit" THEN 15 ELSE 10

Dimensions(e, base, basis) ==
    UsagePoints[e.usage] + ModelPoints[e.model] + AttributionPoints[e.attribution] + PricePoints(e, base, basis)

(* A bug: what is not tied to its decisions is capped no more than what is.*)
CapOfUsage(e) ==
    IF e.runtime = "claude" THEN IF e.usage = "none" THEN 54 ELSE 100
    ELSE CASE e.usage = "detailed" -> 65 [] e.usage = "session" -> 45 [] OTHER -> 34

Cap(e) ==
    IF e.runtime = "claude"
    THEN IF e.usage = "none" THEN 54 ELSE IF e.attribution = "exact" THEN 100 ELSE 79
    ELSE CASE e.usage = "detailed" -> 65 [] e.usage = "session" -> 45 [] OTHER -> 34

Penalty(e) == LET n == Max({1, e.lines}) IN Min({10, (10 * e.corrupt + n - 1) \div n})
Coverage(e, base, basis) ==
    IF Total(e) = 0 THEN 0
    ELSE (Dimensions(e, base, basis) * Tokens(e, Included(e, base))) \div Total(e)

(* Bugs: the score does not fall with the usage that has no price; the     *)
(* penalty is taken off without a floor.                                   *)
ScoreUncovered(e, base, basis) ==
    IF ~base.known \/ Included(e, base) = {} THEN 0
    ELSE Min({Cap(e), Max({0, Dimensions(e, base, basis) - Penalty(e)})})

ScoreUnfloored(e, base, basis) ==
    IF ~base.known THEN 0 ELSE Min({Cap(e), Coverage(e, base, basis) - Penalty(e)})

Score(e, base, basis) ==
    IF ~base.known THEN 0 ELSE Min({Cap(e), Max({0, Coverage(e, base, basis) - Penalty(e)})})

Shown(score) == score >= 35
High(score) == score >= 80
Magnitude(x) == IF x < 0 THEN -x ELSE x
Adjusted(raw, score) ==
    LET size == (Magnitude(raw) * score + 50) \div 100 IN IF raw < 0 THEN -size ELSE size

(* estimateRuntime.                                                        *)
EstimateRuntime(e, named, basis) ==
    LET base == Baseline(named)  score == Score(e, base, basis) IN
    [baseline |-> base.known, score |-> score, raw |-> Raw(e, base),
     priced |-> Tokens(e, Included(e, base)), total |-> Total(e),
     adjusted |-> IF Shown(score) THEN Adjusted(Raw(e, base), score) ELSE 0]
=============================================================================
