----------------------------- MODULE CodexProofs -----------------------------
(***************************************************************************)
(* Theorems of CodexEstimate: for any finite numbers of files, children    *)
(* and models, any history of turns, copies and spoiled lines, and any     *)
(* moment at which each file is read.                                      *)
(*                                                                         *)
(* The argument has three parts.  First operators alone: what a score and  *)
(* an amount are of any well-formed evidence; that the file kept of a      *)
(* child is the newest, whatever the listing; and that the parts of a      *)
(* session add up and keep their quota.  Then the invariant Typed /\ Made: *)
(* what is read is well formed, and once the estimator is done its         *)
(* evidence is Normalize of it.  TypeOK and the three properties of an     *)
(* estimate follow.  Last, for the tokens of the children, the invariant   *)
(* Counted: of the counts held anywhere of a child a newer one is no       *)
(* smaller, and a count that was known at the beginning is still to be     *)
(* read or was read.                                                       *)
(***************************************************************************)
EXTENDS CodexEstimate, FiniteSums

-----------------------------------------------------------------------------
(* The score and the amount, of any evidence for Codex.                    *)
Bucket == [model : Models, tokens : Nat]
WellFormed(e) ==
    /\ e.runtime = "codex" /\ e.usage \in {"detailed", "session", "none"}
    /\ e.model \in {"observed", "inferred", "unknown"}
    /\ e.attribution \in {"child", "allocation", "guidance"}
    /\ IsFiniteSet(DOMAIN e.buckets) /\ \A b \in DOMAIN e.buckets : e.buckets[b] \in Bucket
    /\ e.unknown \in Nat /\ e.corrupt \in Nat /\ e.lines \in Nat

(* Tokens of a set of buckets are a number, and no more than those of all. *)
LEMMA TokensNat ==
    ASSUME NEW e, WellFormed(e), NEW B \in SUBSET DOMAIN e.buckets
    PROVE  Tokens(e, B) \in Nat /\ Tokens(e, B) <= Tokens(e, DOMAIN e.buckets)
<1> DEFINE D == DOMAIN e.buckets
           F == [b \in B |-> e.buckets[b].tokens]
           G == [b \in D |-> e.buckets[b].tokens]
<1>1. IsFiniteSet(D) /\ IsFiniteSet(B)
  BY FS_Subset DEF WellFormed
<1>2. \A b \in D : G[b] \in Nat
  BY DEF WellFormed, Bucket
<1>3. \A b \in B : F[b] = G[b] /\ F[b] \in Int
  BY <1>2
<1>4. DOMAIN F = B /\ DOMAIN G = D
  OBVIOUS
<1>5. Tokens(e, B) = SumFunctionOnSet(F, B) /\ Tokens(e, D) = SumFunctionOnSet(G, D)
  BY <1>4 DEF Tokens, SumFunction
<1> HIDE DEF F, G
<1>6. SumFunctionOnSet(F, B) = SumFunctionOnSet(G, B)
  BY <1>1, <1>3, SumEqual
<1>7. SumFunctionOnSet(G, B) <= SumFunctionOnSet(G, D)
  <2> HIDE DEF D
  <2> QED
    BY <1>1, <1>2, SumPart DEF D
<1>8. SumFunctionOnSet(G, B) \in Nat
  <2>1. \A b \in B : G[b] \in Nat
    BY <1>2
  <2> QED
    BY <1>1, <2>1, SumNat
<1> QED
  BY <1>5, <1>6, <1>7, <1>8

LEMMA IncludedIn == \A e, base : Included(e, base) \in SUBSET DOMAIN e.buckets
BY DEF Included

(* The dimensions, the penalty and the coverage: the score is a            *)
(* percentage.                                                             *)
LEMMA DimensionsBound ==
    ASSUME NEW e, WellFormed(e), NEW base, NEW basis
    PROVE  Dimensions(e, base, basis) \in 0 .. 86
<1>1. PricePoints(e, base, basis) \in {0, 5, 10, 15}
  BY DEF PricePoints
<1>2. UsagePoints[e.usage] \in {35, 25, 0}
  BY DEF WellFormed, UsagePoints
<1>3. ModelPoints[e.model] \in {18, 10, 0}
  BY DEF WellFormed, ModelPoints
<1>4. AttributionPoints[e.attribution] \in {18, 10, 5}
  BY DEF WellFormed, AttributionPoints
<1> QED
  BY <1>1, <1>2, <1>3, <1>4 DEF Dimensions

LEMMA PenaltyNat ==
    ASSUME NEW e, WellFormed(e)
    PROVE  Penalty(e) \in Nat
<1> DEFINE n == Max({1, e.lines})
           q == (10 * e.corrupt + n - 1) \div n
<1>1. n \in Nat \ {0} /\ e.corrupt \in Nat
  BY MaxOfTwo DEF WellFormed
<1> HIDE DEF n
<1>2. q \in Nat
  <2>1. 10 * e.corrupt + n - 1 \in Nat
    BY <1>1
  <2> QED
    BY <1>1, <2>1, DivBound
<1> HIDE DEF q
<1>3. Min({10, q}) \in Nat
  BY <1>2, MinOfTwo
<1> QED
  BY <1>3 DEF Penalty, n, q

LEMMA CoverageBound ==
    ASSUME NEW e, WellFormed(e), NEW base, NEW basis
    PROVE  /\ Coverage(e, base, basis) \in 0 .. 86
           /\ Coverage(e, base, basis) >= 35 => 5 * Tokens(e, Included(e, base)) >= 2 * Total(e)
<1> DEFINE p == Tokens(e, Included(e, base))
           t == Total(e)
           d == Dimensions(e, base, basis)
           q == (d * p) \div t
<1>1. p \in Nat /\ t \in Nat /\ p <= t
  <2>1. p \in Nat /\ p <= Tokens(e, DOMAIN e.buckets)
    BY IncludedIn, TokensNat
  <2>2. Tokens(e, DOMAIN e.buckets) \in Nat
    BY TokensNat
  <2> QED
    BY <2>1, <2>2 DEF Total, WellFormed
<1>2. d \in 0 .. 86
  BY DimensionsBound
<1>3. Coverage(e, base, basis) = IF t = 0 THEN 0 ELSE q
  BY DEF Coverage
<1> HIDE DEF p, t, d
<1>4. CASE t = 0
  BY <1>3, <1>4
<1>5. CASE t # 0
  <2>1. \A x, y \in Nat : x <= 86 => x * y \in Nat /\ x * y <= 86 * y
    <3>1. \A x, y \in Nat : x * y \in Nat
      OBVIOUS
    <3>2. \A x, y, z \in Nat : x <= z => x * y <= z * y
      OBVIOUS
    <3> QED
      BY <3>1, <3>2
  <2>2. d * p \in Nat /\ d * p <= 86 * p
    BY <1>1, <1>2, <2>1
  <2>3. q \in Nat /\ t * q <= d * p
    BY <1>1, <1>5, <2>2, DivBound
  <2> HIDE DEF q
  <2>4. t * q <= 86 * t
    BY <1>1, <2>2, <2>3
  <2>5. q <= 86
    <3>1. \A x, y \in Nat : x # 0 /\ y > 86 => x * y > 86 * x
      OBVIOUS
    <3>2. t * q \in Int /\ 86 * t \in Int
      BY <1>1, <2>3
    <3> QED
      BY <1>1, <1>5, <2>3, <2>4, <3>1, <3>2
  <2>6. ASSUME q >= 35 PROVE 5 * p >= 2 * t
    <3>1. \A x, y \in Nat : y >= 35 => x * y >= 35 * x
      OBVIOUS
    <3>2. 35 * t <= 86 * p
      BY <1>1, <2>2, <2>3, <2>6, <3>1
    <3> QED
      BY <1>1, <3>2
  <2> QED
    BY <1>3, <1>5, <2>3, <2>5, <2>6 DEF p, t
<1> QED
  BY <1>4, <1>5

LEMMA ScoreBound ==
    ASSUME NEW e, WellFormed(e), NEW base, NEW basis
    PROVE  /\ Score(e, base, basis) \in 0 .. 100
           /\ Shown(Score(e, base, basis)) =>
                base.known /\ 5 * Tokens(e, Included(e, base)) >= 2 * Total(e)
<1> DEFINE c == Coverage(e, base, basis)
           p == Penalty(e)
           m == Max({0, c - p})
<1>1. c \in 0 .. 86 /\ p \in Nat
  BY CoverageBound, PenaltyNat
<1>2. Cap(e) \in 0 .. 100
  BY DEF Cap, WellFormed
<1> HIDE DEF c, p
<1>3. m \in 0 .. 86 /\ (m >= 35 => c >= 35)
  <2>1. 0 \in Int /\ c - p \in Int
    BY <1>1
  <2>2. m = IF 0 >= c - p THEN 0 ELSE c - p
    BY <2>1, MaxOfTwo
  <2> HIDE DEF m
  <2> QED
    BY <1>1, <2>2
<1> HIDE DEF m
<1>4. Min({Cap(e), m}) \in 0 .. 100 /\ Min({Cap(e), m}) <= m
  <2>1. Cap(e) \in Int /\ m \in Int
    BY <1>2, <1>3
  <2>2. Min({Cap(e), m}) = IF Cap(e) <= m THEN Cap(e) ELSE m
    BY <2>1, MinOfTwo
  <2> QED
    BY <1>2, <1>3, <2>2
<1>5. Score(e, base, basis) = IF ~base.known THEN 0 ELSE Min({Cap(e), m})
  BY DEF Score, c, p, m
<1>6. c >= 35 => 5 * Tokens(e, Included(e, base)) >= 2 * Total(e)
  BY CoverageBound DEF c
<1> DEFINE s == Score(e, base, basis)
           g == Min({Cap(e), m})
           enough == 5 * Tokens(e, Included(e, base)) >= 2 * Total(e)
<1>7. CASE base.known
  <2>1. s = g
    BY <1>5, <1>7
  <2> HIDE DEF s, g, enough
  <2>2. s \in 0 .. 100 /\ (s >= 35 => enough)
    BY <1>3, <1>4, <1>6, <2>1 DEF g, enough
  <2> QED
    BY <1>7, <2>2 DEF Shown, s, enough
<1>8. CASE ~base.known
  <2>1. s = 0
    BY <1>5, <1>8
  <2> QED
    BY <2>1 DEF Shown
<1> QED
  BY <1>7, <1>8

(* The adjusted amount lies between nothing and the raw amount.            *)
LEMMA AdjustedBound ==
    ASSUME NEW raw \in Int, NEW score \in 0 .. 100
    PROVE  /\ Adjusted(raw, score) \in Int
           /\ Magnitude(Adjusted(raw, score)) <= Magnitude(raw)
           /\ Adjusted(raw, score) * raw >= 0
<1> DEFINE a == Magnitude(raw)
           s == (a * score + 50) \div 100
<1>1. a \in Nat /\ (raw < 0 => raw = -a) /\ (raw >= 0 => raw = a)
  BY DEF Magnitude
<1> HIDE DEF a
<1>2. a * score \in Nat /\ a * score <= 100 * a
  <2>1. \A x, y \in Nat : x * y \in Nat
    OBVIOUS
  <2>2. \A x, y, z \in Nat : y <= z => x * y <= z * x
    OBVIOUS
  <2> QED
    BY <1>1, <2>1, <2>2
<1>3. s \in Nat /\ s <= a
  <2>1. s \in Nat /\ 100 * s <= a * score + 50
    BY <1>2, DivBound
  <2> QED
    BY <1>1, <1>2, <2>1
<1> HIDE DEF s
<1>4. Adjusted(raw, score) = IF raw < 0 THEN -s ELSE s
  BY DEF Adjusted, a, s
<1>5. s * a >= 0
  BY <1>1, <1>3
<1>6. (-s) * (-a) = s * a
  BY <1>1, <1>3
<1>7. CASE raw < 0
  BY <1>1, <1>3, <1>4, <1>5, <1>6, <1>7 DEF Magnitude, a
<1>8. CASE ~(raw < 0)
  BY <1>1, <1>3, <1>4, <1>5, <1>8 DEF Magnitude, a
<1> QED
  BY <1>7, <1>8

(* The raw amount is a number.                                             *)
LEMMA RateNat == \A m : HasPrice(m) => RateOf(m) \in Nat
BY CatalogAssumption DEF HasPrice, RateOf

LEMMA BaselineRate == \A named : Baseline(named).known \in BOOLEAN /\ (Baseline(named).known => Baseline(named).rate \in Nat)
<1> SUFFICES ASSUME NEW named
             PROVE Baseline(named).known \in BOOLEAN /\ (Baseline(named).known => Baseline(named).rate \in Nat)
  OBVIOUS
<1> DEFINE sources == {s \in {1, 2, 3} : HasPrice(named[s])}
           s == Min(sources)
<1>1. CASE sources = {}
  BY <1>1 DEF Baseline
<1>2. CASE sources # {}
  <2>1. s \in sources
    <3>1. sources \in SUBSET {1, 2, 3}
      OBVIOUS
    <3>2. \A S \in SUBSET {1, 2, 3} : S # {} => \E x \in S : \A y \in S : x <= y
      <4> SUFFICES ASSUME NEW S \in SUBSET {1, 2, 3}, S # {} PROVE \E x \in S : \A y \in S : x <= y
        OBVIOUS
      <4>1. CASE 1 \in S
        BY <4>1
      <4>2. CASE 1 \notin S /\ 2 \in S
        BY <4>2
      <4>3. CASE 1 \notin S /\ 2 \notin S
        <5>1. S = {3}
          BY <4>3
        <5> QED
          BY <5>1
      <4> QED
        BY <4>1, <4>2, <4>3
    <3> HIDE DEF sources
    <3> QED
      BY <1>2, <3>1, <3>2 DEF Min
  <2>2. RateOf(named[s]) \in Nat
    BY <2>1, RateNat
  <2>3. Baseline(named) = [known |-> TRUE, match |-> Match(named[s]), rate |-> RateOf(named[s]),
                           source |-> <<"explicit", "observed", "contract">>[s]]
    BY <1>2 DEF Baseline
  <2>4. Baseline(named).known = TRUE /\ Baseline(named).rate = RateOf(named[s])
    BY <2>3
  <2> HIDE DEF s
  <2> QED
    BY <2>2, <2>4
<1> QED
  BY <1>1, <1>2

LEMMA RawInt ==
    ASSUME NEW e, WellFormed(e), NEW named
    PROVE  Raw(e, Baseline(named)) \in Int
<1> DEFINE base == Baseline(named)
           B == Included(e, base)
           F == [b \in B |-> Cost(e.buckets[b].tokens, base.rate)
                               - Cost(e.buckets[b].tokens, RateOf(e.buckets[b].model))]
<1>1. IsFiniteSet(B)
  BY IncludedIn, FS_Subset DEF WellFormed
<1>2. \A t, r \in Nat : Cost(t, r) \in Int
  <2> SUFFICES ASSUME NEW t \in Nat, NEW r \in Nat PROVE Cost(t, r) \in Int
    OBVIOUS
  <2>1. t * r \in Nat /\ Unit \div 2 \in Nat /\ Unit \in Nat \ {0}
    BY CatalogAssumption, DivBound
  <2>2. t * r + Unit \div 2 \in Nat
    BY <2>1
  <2> QED
    BY <2>1, <2>2, DivBound DEF Cost
<1>3. ASSUME NEW b \in B PROVE F[b] \in Int
  <2>1. base.known /\ HasPrice(e.buckets[b].model) /\ b \in DOMAIN e.buckets
    BY DEF Included
  <2>2. base.rate \in Nat /\ RateOf(e.buckets[b].model) \in Nat /\ e.buckets[b].tokens \in Nat
    BY <2>1, BaselineRate, RateNat DEF WellFormed, Bucket
  <2>3. /\ Cost(e.buckets[b].tokens, base.rate) \in Int
        /\ Cost(e.buckets[b].tokens, RateOf(e.buckets[b].model)) \in Int
    BY <1>2, <2>2
  <2> QED
    BY <2>3
<1>4. Raw(e, base) = SumFunctionOnSet(F, B)
  BY DEF Raw, SumFunction
<1>5. SumFunctionOnSet(F, B) \in Int
  <2> HIDE DEF F, B
  <2> QED
    BY <1>1, <1>3, SumInt
<1> QED
  BY <1>4, <1>5

(* What an estimate of well-formed evidence shows.                         *)
LEMMA EstimateHolds ==
    ASSUME NEW e, WellFormed(e), NEW named, NEW basis, NEW est, est = EstimateRuntime(e, named, basis)
    PROVE  /\ est.score \in 0 .. 100
           /\ Shown(est.score) =>
                /\ est.baseline /\ 5 * est.priced >= 2 * est.total
                /\ Magnitude(est.adjusted) <= Magnitude(est.raw) /\ est.adjusted * est.raw >= 0
<1> DEFINE base == Baseline(named)
           score == Score(e, base, basis)
           raw == Raw(e, base)
           p == Tokens(e, Included(e, base))
<1>1. est = [baseline |-> base.known, score |-> score, raw |-> raw, priced |-> p, total |-> Total(e),
             adjusted |-> IF Shown(score) THEN Adjusted(raw, score) ELSE 0]
  BY DEF EstimateRuntime
<1>2. score \in 0 .. 100 /\ (Shown(score) => base.known /\ 5 * p >= 2 * Total(e))
  BY ScoreBound
<1>3. raw \in Int
  BY RawInt
<1> HIDE DEF base, score, raw, p
<1>4. Shown(score) => /\ Magnitude(Adjusted(raw, score)) <= Magnitude(raw)
                      /\ Adjusted(raw, score) * raw >= 0
  BY <1>2, <1>3, AdjustedBound
<1> QED
  BY <1>1, <1>2, <1>4
-----------------------------------------------------------------------------
(* One rollout for each child, whatever the order of the listing.          *)
(* Of what is read of a child one file is newer than all others            *)
(* (OneNewest, NewestExists), and it is the one that is chosen of any      *)
(* listing.                                                                *)
Readable(r) == DOMAIN r \in SUBSET Files /\ \A f \in DOMAIN r : r[f] \in Rollouts
Newest(r, c, f) ==
    f \in DOMAIN r /\ Child[f] = c /\ \A g \in DOMAIN r \ {f} : Child[g] = c => Newer(r, f, g)

LEMMA NewerOrders ==
    ASSUME NEW r, Readable(r), NEW f \in DOMAIN r, NEW g \in DOMAIN r
    PROVE  /\ ~Newer(r, f, f)
           /\ Newer(r, f, g) => ~Newer(r, g, f)
           /\ f # g => Newer(r, f, g) \/ Newer(r, g, f)
           /\ \A h \in DOMAIN r : Newer(r, f, g) /\ Newer(r, g, h) => Newer(r, f, h)
<1>1. \A h \in DOMAIN r : h \in Nat /\ r[h].time \in Nat
  BY OrderAssumption DEF Readable, Rollouts
<1> QED
  BY <1>1 DEF Newer

LEMMA OneNewest ==
    ASSUME NEW r, Readable(r), NEW c, NEW f, NEW g, Newest(r, c, f), Newest(r, c, g)
    PROVE  f = g
BY NewerOrders DEF Newest

LEMMA NewestExists ==
    ASSUME NEW r, Readable(r), NEW c \in {Child[f] : f \in DOMAIN r}
    PROVE  \E f \in DOMAIN r : Newest(r, c, f)
<1> DEFINE S == {f \in DOMAIN r : Child[f] = c}
           below == [f \in S |-> {g \in S : Newer(r, g, f)}]
<1>1. IsFiniteSet(S) /\ S # {}
  BY FiniteAssumption, FS_Subset DEF Readable
<1>2. below \in [S -> SUBSET S]
  OBVIOUS
<1>3. \A x, y \in S : x \in below[y] => below[x] \subseteq below[y] /\ x \notin below[x]
  BY NewerOrders
<1>4. PICK f \in S : below[f] = {}
  <2> HIDE DEF S, below
  <2> QED
    BY <1>1, <1>2, <1>3, FirstExists
<1>5. \A g \in S \ {f} : Newer(r, f, g)
  BY <1>4, NewerOrders
<1> QED
  BY <1>4, <1>5 DEF Newest

LEMMA Listing ==
    ASSUME NEW S, IsFiniteSet(S), NEW order \in SetToSeqs(S)
    PROVE  /\ order \in [1 .. Cardinality(S) -> S]
           /\ \A i, j \in 1 .. Cardinality(S) : order[i] = order[j] => i = j
           /\ \A x \in S : \E i \in 1 .. Cardinality(S) : order[i] = x
<1>1. /\ order \in [1 .. Cardinality(S) -> S]
      /\ \A i, j \in 1 .. Cardinality(S) : i # j => order[i] # order[j]
  BY DEF SetToSeqs
<1>2. order \in Injection(1 .. Cardinality(S), S)
  BY <1>1 DEF Injection, IsInjective
<1>3. Cardinality(S) \in Nat
  BY FS_CardinalityType
<1>4. IsFiniteSet(1 .. Cardinality(S)) /\ Cardinality(1 .. Cardinality(S)) = Cardinality(S)
  BY <1>3, FS_Interval
<1>5. order \in Surjection(1 .. Cardinality(S), S)
  BY <1>2, <1>4, FS_Injection
<1> QED
  BY <1>1, <1>5 DEF Surjection

LEMMA ChosenIsNewest ==
    ASSUME NEW r, Readable(r), NEW c \in {Child[f] : f \in DOMAIN r}, NEW order \in SetToSeqs(DOMAIN r)
    PROVE  Newest(r, c, Chosen(r, order, c))
<1> DEFINE N == 1 .. Cardinality(DOMAIN r)
           of == {i \in DOMAIN order : Child[order[i]] = c}
           Before(i, j) == \/ Newer(r, order[i], order[j])
                           \/ ~Newer(r, order[j], order[i]) /\ i < j
           first == CHOOSE i \in of : \A j \in of \ {i} : Before(i, j)
<1>1. IsFiniteSet(DOMAIN r)
  BY FiniteAssumption, FS_Subset DEF Readable
<1>2. /\ order \in [N -> DOMAIN r] /\ \A i, j \in N : order[i] = order[j] => i = j
      /\ \A x \in DOMAIN r : \E i \in N : order[i] = x
  BY <1>1, Listing
<1>3. PICK f \in DOMAIN r : Newest(r, c, f)
  BY NewestExists
<1>4. PICK k \in N : order[k] = f
  BY <1>2
<1>5. of \in SUBSET N /\ k \in of
  BY <1>2, <1>3, <1>4 DEF Newest
<1>6. \A j \in of \ {k} : Newer(r, order[k], order[j]) /\ ~Newer(r, order[j], order[k])
  <2> SUFFICES ASSUME NEW j \in of \ {k}
               PROVE Newer(r, order[k], order[j]) /\ ~Newer(r, order[j], order[k])
    OBVIOUS
  <2>1. order[j] \in DOMAIN r /\ order[j] # f /\ Child[order[j]] = c
    BY <1>2, <1>4, <1>5
  <2> QED
    BY <1>3, <1>4, <2>1, NewerOrders DEF Newest
<1>7. \A j \in of \ {k} : Before(k, j)
  BY <1>6
<1>8. \A i \in of : (\A j \in of \ {i} : Before(i, j)) => i = k
  BY <1>5, <1>6
<1>9. first = k
  <2> HIDE DEF of, Before
  <2> QED
    BY <1>5, <1>7, <1>8
<1>10. Chosen(r, order, c) = order[first]
  BY DEF Chosen
<1> QED
  BY <1>3, <1>4, <1>9, <1>10

LEMMA SameChosen ==
    ASSUME NEW r, Readable(r), NEW o \in SetToSeqs(DOMAIN r), NEW p \in SetToSeqs(DOMAIN r)
    PROVE  \A c \in {Child[f] : f \in DOMAIN r} : Chosen(r, o, c) = Chosen(r, p, c)
BY ChosenIsNewest, OneNewest
-----------------------------------------------------------------------------
(* The parts of a session's usage: the definitions inside Parts, by name.  *)
Sizes(spawns) == [m \in Named(spawns) |-> Count(spawns, m)]
Among(spawns) == SumFunction(Sizes(spawns))
Allocated(tokens, spawns) ==
    HalfUp(tokens * Limit(Spawned(spawns))[1] * Among(spawns), Limit(Spawned(spawns))[2] * Spawned(spawns))
Quotient(tokens, spawns) ==
    [m \in Named(spawns) |-> (Allocated(tokens, spawns) * Count(spawns, m)) \div Among(spawns)]
Remainder(tokens, spawns) ==
    [m \in Named(spawns) |-> (Allocated(tokens, spawns) * Count(spawns, m)) % Among(spawns)]
Remaining(tokens, spawns) == Allocated(tokens, spawns) - SumFunction(Quotient(tokens, spawns))
Ahead(tokens, spawns) ==
    [m \in Named(spawns) |->
        {q \in Named(spawns) :
            \/ Remainder(tokens, spawns)[q] > Remainder(tokens, spawns)[m]
            \/ Remainder(tokens, spawns)[q] = Remainder(tokens, spawns)[m] /\ q < m}]
Top(tokens, spawns) ==
    {m \in Named(spawns) : Cardinality(Ahead(tokens, spawns)[m]) < Remaining(tokens, spawns)}

(* Parts, by these names.                                                  *)
LEMMA PartsAre ==
    \A tokens, spawns :
        Parts(tokens, spawns) =
            [m \in Models |->
                IF m \notin Named(spawns) THEN 0
                ELSE IF Cardinality(Ahead(tokens, spawns)[m]) < Remaining(tokens, spawns)
                     THEN Quotient(tokens, spawns)[m] + 1 ELSE Quotient(tokens, spawns)[m]]
BY DEF Parts, Sizes, Among, Allocated, Quotient, Remainder, Remaining, Ahead

(* There are finitely many models to spread to, and numbers of spawns.     *)
LEMMA KindsFinite == IsFiniteSet(Kinds)
<1>1. IsFiniteSet({"observed"}) /\ IsFiniteSet({"inferred"}) /\ IsFiniteSet({<<0, "unknown">>})
  BY FS_Singleton
<1>2. IsFiniteSet(Routed) /\ IsFiniteSet(Models)
  BY FiniteAssumption, RoutedAssumption, FS_Subset
<1>3. IsFiniteSet(Models \X {"observed"}) /\ IsFiniteSet(Routed \X {"inferred"})
  BY <1>1, <1>2, FS_Product
<1>4. IsFiniteSet((Models \X {"observed"}) \cup (Routed \X {"inferred"}))
  BY <1>3, FS_Union
<1> QED
  BY <1>1, <1>4, FS_Union DEF Kinds

LEMMA SpawnedNat == \A spawns \in [Kinds -> Nat] : Spawned(spawns) \in Nat
<1> SUFFICES ASSUME NEW spawns \in [Kinds -> Nat] PROVE Spawned(spawns) \in Nat
  OBVIOUS
<1>1. Spawned(spawns) = SumFunctionOnSet(spawns, Kinds)
  BY DEF Spawned, SumFunction
<1>2. SumFunctionOnSet(spawns, Kinds) \in Nat
  BY KindsFinite, SumNat
<1> QED
  BY <1>1, <1>2

LEMMA CountNat == \A spawns \in [Kinds -> Nat] : \A m : Count(spawns, m) \in Nat
<1> SUFFICES ASSUME NEW spawns \in [Kinds -> Nat], NEW m PROVE Count(spawns, m) \in Nat
  OBVIOUS
<1> DEFINE K == {k \in Kinds \ {<<0, "unknown">>} : k[1] = m}
<1>1. K \in SUBSET Kinds
  OBVIOUS
<1>2. IsFiniteSet(K) /\ \A k \in K : spawns[k] \in Nat
  BY <1>1, KindsFinite, FS_Subset
<1>3. SumFunctionOnSet(spawns, K) \in Nat
  <2> HIDE DEF K
  <2> QED
    BY <1>2, SumNat
<1> QED
  BY <1>3 DEF Count

LEMMA NamedFinite ==
    ASSUME NEW spawns \in [Kinds -> Nat]
    PROVE  /\ Named(spawns) \in SUBSET Models /\ IsFiniteSet(Named(spawns))
           /\ Sizes(spawns) \in [Named(spawns) -> Nat \ {0}]
BY FiniteAssumption, FS_Subset, CountNat DEF Named, Sizes

LEMMA AmongSum ==
    ASSUME NEW spawns \in [Kinds -> Nat]
    PROVE  /\ Among(spawns) \in Nat /\ Among(spawns) <= Spawned(spawns)
           /\ \A m \in Named(spawns) : Count(spawns, m) \in Nat \ {0} /\ Count(spawns, m) <= Among(spawns)
<1> DEFINE N == Named(spawns)
           C == Sizes(spawns)
           part == [m \in N |-> {k \in Kinds \ {<<0, "unknown">>} : k[1] = m}]
<1>1. IsFiniteSet(N) /\ C \in [N -> Nat \ {0}]
  BY NamedFinite
<1>2. Among(spawns) = SumFunctionOnSet(C, N)
  BY <1>1 DEF Among, SumFunction
<1>3. SumFunctionOnSet(C, N) \in Nat
  <2> HIDE DEF N, C
  <2> QED
    BY <1>1, SumNat
<1>4. part \in [N -> SUBSET Kinds] /\ \A m, q \in N : m # q => part[m] \cap part[q] = {}
  OBVIOUS
<1>5. \A m \in N : C[m] = SumFunctionOnSet(spawns, part[m])
  BY DEF Sizes, Count
<1>6. \A k \in Kinds : spawns[k] \in Nat /\ spawns[k] \in Int
  OBVIOUS
<1>7. SumFunctionOnSet(C, N) = SumFunctionOnSet(spawns, UNION {part[m] : m \in N})
  <2> HIDE DEF N, C, part
  <2> QED
    BY <1>1, <1>4, <1>5, <1>6, KindsFinite, SumOfParts
<1>8. UNION {part[m] : m \in N} \in SUBSET Kinds
  OBVIOUS
<1>9. SumFunctionOnSet(spawns, UNION {part[m] : m \in N}) <= SumFunctionOnSet(spawns, Kinds)
  <2> HIDE DEF N, part
  <2> QED
    BY <1>6, <1>8, KindsFinite, SumPart
<1>10. Spawned(spawns) = SumFunctionOnSet(spawns, Kinds)
  BY DEF Spawned, SumFunction
<1>11. ASSUME NEW m \in N
       PROVE Count(spawns, m) \in Nat \ {0} /\ Count(spawns, m) <= SumFunctionOnSet(C, N)
  <2>1. C[m] = Count(spawns, m)
    BY DEF Sizes
  <2>2. SumFunctionOnSet(C, N) = C[m] + SumFunctionOnSet(C, N \ {m})
    <3> HIDE DEF N, C
    <3> QED
      BY <1>1, SumWithout
  <2>3. SumFunctionOnSet(C, N \ {m}) \in Nat
    <3>1. IsFiniteSet(N \ {m}) /\ \A x \in N \ {m} : C[x] \in Nat
      BY <1>1, FS_Subset
    <3> HIDE DEF N, C
    <3> QED
      BY <3>1, SumNat
  <2> QED
    BY <1>1, <2>1, <2>2, <2>3
<1> QED
  BY <1>2, <1>3, <1>7, <1>9, <1>10, <1>11

(* The allocation is at most three fourths of the tokens, rounded.         *)
LEMMA LimitBound ==
    ASSUME NEW n \in Nat \ {0}
    PROVE  Limit(n)[1] \in Nat \ {0} /\ Limit(n)[2] \in Nat \ {0} /\ 4 * Limit(n)[1] <= 3 * Limit(n)[2]
BY DEF Limit

LEMMA Rounded ==
    ASSUME NEW x \in Nat, NEW y \in Nat \ {0}
    PROVE  HalfUp(x, y) \in Nat /\ 2 * (y * HalfUp(x, y)) <= 2 * x + y /\ 2 * x < 2 * (y * HalfUp(x, y)) + y
<1> DEFINE z == y \div 2
           h == (x + z) \div y
<1>1. z \in Nat /\ 2 * z <= y /\ y < 2 * z + 2
  BY DivBound
<1> HIDE DEF z
<1>2. h \in Nat /\ y * h <= x + z /\ x + z < y * h + y
  BY <1>1, DivBound
<1>3. HalfUp(x, y) = h
  BY DEF HalfUp, z
<1> HIDE DEF h
<1>4. y * h \in Int
  BY <1>2
<1> DEFINE w == y * h
<1> HIDE DEF w
<1>5. w \in Int /\ w <= x + z /\ x + z < w + y
  BY <1>2, <1>4 DEF w
<1>6. 2 * w <= 2 * x + y /\ 2 * x < 2 * w + y
  BY <1>1, <1>5
<1> QED
  BY <1>2, <1>3, <1>6 DEF w

LEMMA ProductNat == \A x, y \in Nat : x * y \in Nat
OBVIOUS

LEMMA AllocatedBound ==
    ASSUME NEW spawns \in [Kinds -> Nat], Spawned(spawns) > 0, NEW tokens \in Nat
    PROVE  /\ Allocated(tokens, spawns) \in Nat
           /\ 4 * Allocated(tokens, spawns) <= 3 * tokens + 2
           /\ LET D == Limit(Spawned(spawns))[2] * Spawned(spawns)
                  x == tokens * Limit(Spawned(spawns))[1] * Among(spawns)
              IN  /\ D \in Nat \ {0}
                  /\ 2 * (D * Allocated(tokens, spawns)) <= 2 * x + D
                  /\ 2 * x < 2 * (D * Allocated(tokens, spawns)) + D
<1> DEFINE n == Spawned(spawns)
           a == Limit(n)[1]
           b == Limit(n)[2]
           A == Among(spawns)
           D == b * n
           x == tokens * a * A
           h == Allocated(tokens, spawns)
<1>1. n \in Nat \ {0} /\ A \in Nat /\ A <= n
  BY SpawnedNat, AmongSum
<1>2. a \in Nat /\ b \in Nat \ {0} /\ 4 * a <= 3 * b
  BY <1>1, LimitBound
<1>3. h = HalfUp(x, D)
  BY DEF Allocated
<1> HIDE DEF n, a, b, A, h
<1>4. D \in Nat \ {0}
  <2>1. \A u, v \in Nat \ {0} : u * v \in Nat \ {0}
    OBVIOUS
  <2> QED
    BY <1>1, <1>2, <2>1
<1>5. x \in Nat
  <2>1. tokens * a \in Nat
    BY <1>2, ProductNat
  <2> QED
    BY <1>1, <2>1, ProductNat
<1>6. 4 * x <= 3 * (D * tokens)
  <2>1. \A u, v, w \in Nat : v <= w => u * v <= u * w
    OBVIOUS
  <2>2. tokens * a \in Nat /\ a * n \in Nat
    BY <1>1, <1>2, ProductNat
  <2>3. (tokens * a) * A <= (tokens * a) * n
    BY <1>1, <2>1, <2>2
  <2>4. (n * tokens) * (4 * a) <= (n * tokens) * (3 * b)
    <3>1. n * tokens \in Nat /\ 4 * a \in Nat /\ 3 * b \in Nat
      BY <1>1, <1>2, ProductNat
    <3> QED
      BY <1>2, <2>1, <3>1
  <2>5. (n * tokens) * (4 * a) = 4 * ((tokens * a) * n)
    BY <1>1, <1>2
  <2>6. (n * tokens) * (3 * b) = 3 * (D * tokens)
    BY <1>1, <1>2
  <2>7. (tokens * a) * A \in Int /\ (tokens * a) * n \in Int /\ D * tokens \in Int
    BY <1>1, <1>4, <2>2, ProductNat
  <2>8. \A u, v, w \in Int : u <= v /\ 4 * v <= 3 * w => 4 * u <= 3 * w
    OBVIOUS
  <2> DEFINE g == (tokens * a) * n
             k == D * tokens
             y == (n * tokens) * (4 * a)
             z == (n * tokens) * (3 * b)
  <2>9. y <= z /\ y = 4 * g /\ z = 3 * k
    BY <2>4, <2>5, <2>6
  <2> HIDE DEF g, k, y, z
  <2>10. 4 * g <= 3 * k
    BY <2>9
  <2> QED
    BY <2>3, <2>7, <2>8, <2>10 DEF g, k
<1> HIDE DEF x, D
<1>7. h \in Nat /\ 2 * (D * h) <= 2 * x + D /\ 2 * x < 2 * (D * h) + D
  BY <1>3, <1>4, <1>5, Rounded
<1>8. 4 * h <= 3 * tokens + 2
  <2>1. D * h \in Nat /\ D * tokens \in Nat
    BY <1>4, <1>7, ProductNat
  <2>2. 4 * (D * h) <= 3 * (D * tokens) + 2 * D
    <3> DEFINE u == D * h
               v == D * tokens
    <3>1. u \in Int /\ v \in Int /\ 2 * u <= 2 * x + D /\ 4 * x <= 3 * v
      BY <1>6, <1>7, <2>1
    <3> HIDE DEF u, v
    <3>2. 4 * u <= 3 * v + 2 * D
      BY <1>4, <1>5, <3>1
    <3> QED
      BY <3>2 DEF u, v
  <2>3. 4 * (D * h) = D * (4 * h) /\ 3 * (D * tokens) + 2 * D = D * (3 * tokens + 2)
    BY <1>4, <1>7
  <2>4. \A u \in Nat \ {0} : \A v, w \in Int : u * v <= u * w => v <= w
    <3> SUFFICES ASSUME NEW u \in Nat \ {0}, NEW v \in Int, NEW w \in Int, u * v <= u * w, v > w PROVE FALSE
      OBVIOUS
    <3>1. u * (v - w) > 0 /\ u * (v - w) = u * v - u * w /\ u * v \in Int /\ u * w \in Int
      OBVIOUS
    <3> QED
      BY <3>1
  <2>5. D * (4 * h) <= D * (3 * tokens + 2)
    BY <2>2, <2>3
  <2>6. 4 * h \in Int /\ 3 * tokens + 2 \in Int
    BY <1>7
  <2> QED
    BY <1>4, <2>4, <2>5, <2>6
<1> QED
  BY <1>4, <1>7, <1>8 DEF n, a, b, A, D, x, h

(* The quotients, the remainders and what remains of the allocation.       *)
LEMMA QuotientsBound ==
    ASSUME NEW spawns \in [Kinds -> Nat], Spawned(spawns) > 0, NEW tokens \in Nat
    PROVE  \A m \in Named(spawns) :
             /\ Among(spawns) \in Nat \ {0}
             /\ Quotient(tokens, spawns)[m] \in Nat
             /\ Remainder(tokens, spawns)[m] \in 0 .. Among(spawns) - 1
             /\ Allocated(tokens, spawns) * Count(spawns, m)
                  = Among(spawns) * Quotient(tokens, spawns)[m] + Remainder(tokens, spawns)[m]
<1> SUFFICES ASSUME NEW m \in Named(spawns)
             PROVE  /\ Among(spawns) \in Nat \ {0}
                    /\ Quotient(tokens, spawns)[m] \in Nat
                    /\ Remainder(tokens, spawns)[m] \in 0 .. Among(spawns) - 1
                    /\ Allocated(tokens, spawns) * Count(spawns, m)
                         = Among(spawns) * Quotient(tokens, spawns)[m] + Remainder(tokens, spawns)[m]
  OBVIOUS
<1> DEFINE A == Among(spawns)
           x == Allocated(tokens, spawns) * Count(spawns, m)
<1>1. A \in Nat \ {0} /\ x \in Nat
  <2>1. Count(spawns, m) \in Nat \ {0} /\ Count(spawns, m) <= A /\ A \in Nat
    BY AmongSum
  <2>2. Allocated(tokens, spawns) \in Nat
    BY AllocatedBound
  <2> QED
    BY <2>1, <2>2, ProductNat
<1>2. Quotient(tokens, spawns)[m] = x \div A /\ Remainder(tokens, spawns)[m] = x % A
  BY DEF Quotient, Remainder
<1> HIDE DEF A, x
<1>3. x \div A \in Nat /\ x % A \in 0 .. A - 1 /\ x = A * (x \div A) + (x % A)
  BY <1>1, DivBound
<1> QED
  BY <1>1, <1>2, <1>3 DEF A, x

LEMMA RemainingBound ==
    ASSUME NEW spawns \in [Kinds -> Nat], Spawned(spawns) > 0, NEW tokens \in Nat, Named(spawns) # {}
    PROVE  Remaining(tokens, spawns) \in Nat /\ Remaining(tokens, spawns) <= Cardinality(Named(spawns))
<1> DEFINE N == Named(spawns)
           A == Among(spawns)
           h == Allocated(tokens, spawns)
           C == Sizes(spawns)
           q == Quotient(tokens, spawns)
           s == Remainder(tokens, spawns)
           w == [m \in N |-> A * q[m]]
           H == [m \in N |-> h * C[m]]
           one == [m \in N |-> 1]
           top == [m \in N |-> A * one[m]]
           Q == SumFunctionOnSet(q, N)
           S == SumFunctionOnSet(s, N)
<1>1. IsFiniteSet(N) /\ C \in [N -> Nat \ {0}] /\ \A m \in N : C[m] = Count(spawns, m)
  BY NamedFinite DEF Sizes
<1>2. h \in Nat
  BY AllocatedBound
<1>3. /\ A \in Nat \ {0}
      /\ \A m \in N : q[m] \in Nat /\ s[m] \in 0 .. A - 1 /\ h * C[m] = A * q[m] + s[m]
  BY <1>1, QuotientsBound
<1>4. A = SumFunctionOnSet(C, N) /\ Remaining(tokens, spawns) = h - Q
  <2>1. DOMAIN C = N /\ DOMAIN q = N
    BY DEF Sizes, Quotient
  <2> QED
    BY <2>1 DEF Among, Remaining, SumFunction
<1> HIDE DEF N, A, h, C, q, s
<1>5. Q \in Nat /\ S \in Nat
  BY <1>1, <1>3, SumNat
<1>6. SumFunctionOnSet(H, N) = h * A
  <2>1. \A m \in N : C[m] \in Int /\ H[m] = h * C[m]
    BY <1>1
  <2> HIDE DEF H
  <2> QED
    BY <1>1, <1>2, <1>4, <2>1, SumTimes
<1>7. SumFunctionOnSet(w, N) = A * Q
  <2>1. \A m \in N : q[m] \in Int /\ w[m] = A * q[m]
    BY <1>3
  <2> HIDE DEF w
  <2> QED
    BY <1>1, <1>3, <2>1, SumTimes
<1>8. SumFunctionOnSet(H, N) = SumFunctionOnSet(w, N) + S
  <2>1. \A m \in N : w[m] \in Int /\ s[m] \in Int /\ H[m] = w[m] + s[m]
    BY <1>3, ProductNat
  <2> HIDE DEF H, w
  <2> QED
    BY <1>1, <2>1, SumPlus
<1>9. S <= A * Cardinality(N)
  <2>1. SumFunctionOnSet(one, N) = Cardinality(N)
    <3>1. \A m \in N : one[m] = 1
      OBVIOUS
    <3> HIDE DEF one
    <3> QED
      BY <1>1, <3>1, SumCount
  <2>2. \A m \in N : one[m] \in Int /\ top[m] = A * one[m] /\ s[m] \in Int /\ top[m] \in Int /\ s[m] <= top[m]
    BY <1>3
  <2> HIDE DEF one, top
  <2>3. SumFunctionOnSet(top, N) = A * SumFunctionOnSet(one, N)
    BY <1>1, <1>3, <2>2, SumTimes
  <2>4. SumFunctionOnSet(s, N) <= SumFunctionOnSet(top, N)
    BY <1>1, <2>2, SumMonotone
  <2> QED
    BY <2>1, <2>3, <2>4
<1> HIDE DEF Q, S
<1>10. h * A = A * Q + S
  BY <1>6, <1>7, <1>8
<1>11. A * (h - Q) = S
  BY <1>2, <1>3, <1>5, <1>10
<1>12. \A u \in Nat \ {0} : \A v, z \in Int : u * v >= 0 => v >= 0
  <2> SUFFICES ASSUME NEW u \in Nat \ {0}, NEW v \in Int, u * v >= 0, v < 0 PROVE FALSE
    OBVIOUS
  <2>1. u * (-v) > 0 /\ u * (-v) = -(u * v) /\ u * v \in Int
    OBVIOUS
  <2> QED
    BY <2>1
<1>13. h - Q \in Int /\ h - Q >= 0
  <2>1. h - Q \in Int /\ A * (h - Q) >= 0
    BY <1>2, <1>5, <1>11
  <2> QED
    BY <1>3, <1>12, <2>1
<1>14. h - Q <= Cardinality(N)
  <2>1. Cardinality(N) \in Nat
    BY <1>1, FS_CardinalityType
  <2> DEFINE c == Cardinality(N)
  <2>2. A * (c - (h - Q)) = A * c - A * (h - Q) /\ A * c \in Int /\ A * (h - Q) \in Int
    <3> HIDE DEF c
    <3> QED
      BY <1>3, <1>13, <2>1, ProductNat DEF c
  <2>3. A * (c - (h - Q)) >= 0
    BY <1>5, <1>9, <1>11, <2>2
  <2>4. c - (h - Q) \in Int
    BY <1>13, <2>1
  <2>5. c - (h - Q) >= 0
    BY <1>3, <1>12, <2>3, <2>4
  <2> QED
    BY <1>13, <2>1, <2>5
<1> QED
  BY <1>4, <1>13, <1>14 DEF N

(* Ahead is a strict total order, so that as many models are topped up as  *)
(* tokens remain.                                                          *)
LEMMA AheadOrders ==
    ASSUME NEW spawns \in [Kinds -> Nat], Spawned(spawns) > 0, NEW tokens \in Nat
    PROVE  /\ Ahead(tokens, spawns) \in [Named(spawns) -> SUBSET Named(spawns)]
           /\ \A m \in Named(spawns) : m \notin Ahead(tokens, spawns)[m]
           /\ \A m, q \in Named(spawns) :
                q \in Ahead(tokens, spawns)[m] => Ahead(tokens, spawns)[q] \subseteq Ahead(tokens, spawns)[m]
           /\ \A m, q \in Named(spawns) :
                m # q => m \in Ahead(tokens, spawns)[q] \/ q \in Ahead(tokens, spawns)[m]
<1> DEFINE N == Named(spawns)
           s == Remainder(tokens, spawns)
           ahead == Ahead(tokens, spawns)
<1>1. \A m \in N : m \in Nat /\ s[m] \in Int
  <2>1. N \in SUBSET Nat
    BY NamedFinite, OrderAssumption
  <2>2. \A m \in N : s[m] \in Int
    BY QuotientsBound
  <2> QED
    BY <2>1, <2>2
<1>2. ahead \in [N -> SUBSET N]
  BY DEF Ahead
<1>3. \A m, q \in N : q \in ahead[m] <=> s[q] > s[m] \/ (s[q] = s[m] /\ q < m)
  BY DEF Ahead
<1> HIDE DEF N, s, ahead
<1>4. \A m \in N : m \notin ahead[m]
  BY <1>1, <1>3
<1>5. \A m, q \in N : q \in ahead[m] => ahead[q] \subseteq ahead[m]
  <2> SUFFICES ASSUME NEW m \in N, NEW q \in N, q \in ahead[m], NEW z \in ahead[q] PROVE z \in ahead[m]
    OBVIOUS
  <2>1. z \in N
    BY <1>2
  <2> QED
    BY <1>1, <1>3, <2>1
<1>6. \A m, q \in N : m # q => m \in ahead[q] \/ q \in ahead[m]
  BY <1>1, <1>3
<1> QED
  BY <1>2, <1>4, <1>5, <1>6 DEF N, ahead

(* The parts add up to the allocation, and none of them is larger.         *)
LEMMA PartsAddUp ==
    ASSUME NEW spawns \in [Kinds -> Nat], Spawned(spawns) > 0, NEW tokens \in Nat
    PROVE  /\ \A m \in Models : Parts(tokens, spawns)[m] \in Nat
           /\ SumFunction(Parts(tokens, spawns)) = SumFunctionOnSet(Parts(tokens, spawns), Named(spawns))
           /\ Named(spawns) # {} => SumFunction(Parts(tokens, spawns)) = Allocated(tokens, spawns)
           /\ Named(spawns) = {} => SumFunction(Parts(tokens, spawns)) = 0
           /\ \A m \in Named(spawns) : Parts(tokens, spawns)[m] <= Allocated(tokens, spawns)
<1> DEFINE N == Named(spawns)
           h == Allocated(tokens, spawns)
           q == Quotient(tokens, spawns)
           ahead == Ahead(tokens, spawns)
           r == Remaining(tokens, spawns)
           P == Parts(tokens, spawns)
           T == Top(tokens, spawns)
           G == [m \in N |-> IF m \in T THEN 1 ELSE 0]
<1>1. N \in SUBSET Models /\ IsFiniteSet(N) /\ IsFiniteSet(Models)
  BY NamedFinite, FiniteAssumption
<1>2. \A m \in N : q[m] \in Nat
  BY QuotientsBound
<1>3. /\ DOMAIN P = Models
      /\ \A m \in Models : P[m] = IF m \notin N THEN 0
                                  ELSE IF Cardinality(ahead[m]) < r THEN q[m] + 1 ELSE q[m]
  BY PartsAre
<1>4. T = {m \in N : Cardinality(ahead[m]) < r}
  BY DEF Top
<1>5. h \in Nat
  BY AllocatedBound
<1>6. N # {} => r \in Nat /\ r <= Cardinality(N) /\ r = h - SumFunctionOnSet(q, N)
  <2>1. DOMAIN q = N
    BY DEF Quotient
  <2>2. r = h - SumFunctionOnSet(q, N)
    BY <2>1 DEF Remaining, SumFunction
  <2> QED
    BY <2>2, RemainingBound
<1>7. /\ ahead \in [N -> SUBSET N] /\ \A m \in N : m \notin ahead[m]
      /\ \A m, x \in N : x \in ahead[m] => ahead[x] \subseteq ahead[m]
      /\ \A m, x \in N : m # x => m \in ahead[x] \/ x \in ahead[m]
  BY AheadOrders
<1> HIDE DEF N, h, q, ahead, r, P, T
<1>8. \A m \in N : P[m] = q[m] + G[m] /\ q[m] \in Int /\ G[m] \in {0, 1} /\ P[m] \in Nat
  BY <1>1, <1>2, <1>3, <1>4
<1>9. \A m \in Models : P[m] \in Nat
  BY <1>3, <1>8
<1>10. SumFunction(P) = SumFunctionOnSet(P, N)
  <2> DEFINE Rest == Models \ N
  <2>1. \A m \in Models : P[m] \in Int
    BY <1>9
  <2>2. SumFunctionOnSet(P, Models) = SumFunctionOnSet(P, N) + SumFunctionOnSet(P, Rest)
    BY <1>1, <2>1, SumSplit
  <2>3. IsFiniteSet(Rest) /\ \A m \in Rest : P[m] = 0
    BY <1>1, <1>3, FS_Subset
  <2>6. SumFunctionOnSet(P, Rest) = 0
    <3> HIDE DEF Rest
    <3> QED
      BY <2>3, SumZero
  <2>7. SumFunctionOnSet(P, N) \in Int
    <3>1. \A m \in N : P[m] \in Int
      BY <1>8
    <3> QED
      BY <1>1, <3>1, SumInt
  <2> HIDE DEF Rest
  <2> QED
    BY <1>3, <2>2, <2>6, <2>7 DEF SumFunction
<1>11. N # {} => SumFunctionOnSet(P, N) = h
  <2> SUFFICES ASSUME N # {} PROVE SumFunctionOnSet(P, N) = h
    OBVIOUS
  <2>1. Cardinality(T) = r
    BY <1>1, <1>4, <1>6, <1>7, RanksAreAll
  <2>2. T \in SUBSET N /\ IsFiniteSet(T) /\ IsFiniteSet(N \ T)
    BY <1>1, <1>4, FS_Subset
  <2>3. SumFunctionOnSet(P, N) = SumFunctionOnSet(q, N) + SumFunctionOnSet(G, N)
    <3>1. \A m \in N : q[m] \in Int /\ G[m] \in Int /\ P[m] = q[m] + G[m]
      BY <1>8
    <3> HIDE DEF G
    <3> QED
      BY <1>1, <3>1, SumPlus
  <2>4. SumFunctionOnSet(G, N) = SumFunctionOnSet(G, T) + SumFunctionOnSet(G, N \ T)
    <3>1. \A m \in N : G[m] \in Int
      BY <1>8
    <3> HIDE DEF G
    <3> QED
      BY <1>1, <2>2, <3>1, SumSplit
  <2>5. SumFunctionOnSet(G, T) = r
    <3>1. \A m \in T : G[m] = 1
      BY <2>2
    <3> HIDE DEF G
    <3> QED
      BY <2>1, <2>2, <3>1, SumCount
  <2>6. SumFunctionOnSet(G, N \ T) = 0
    <3>1. \A m \in N \ T : G[m] = 0
      OBVIOUS
    <3> HIDE DEF G
    <3> QED
      BY <2>2, <3>1, SumZero
  <2>7. SumFunctionOnSet(q, N) \in Int
    <3>1. \A m \in N : q[m] \in Int
      BY <1>8
    <3> QED
      BY <1>1, <3>1, SumInt
  <2> HIDE DEF G
  <2> QED
    BY <1>5, <1>6, <2>3, <2>4, <2>5, <2>6, <2>7
<1>12. N = {} => SumFunctionOnSet(P, N) = 0
  BY SumEmpty
<1>13. ASSUME NEW m \in N PROVE P[m] <= h
  <2>1. \A x \in N : P[x] \in Int
    BY <1>8
  <2>2. SumFunctionOnSet(P, N) = P[m] + SumFunctionOnSet(P, N \ {m})
    BY <1>1, <2>1, SumWithout
  <2>3. SumFunctionOnSet(P, N \ {m}) \in Nat
    <3>1. IsFiniteSet(N \ {m}) /\ \A x \in N \ {m} : P[x] \in Nat
      BY <1>1, <1>8, FS_Subset
    <3> QED
      BY <3>1, SumNat
  <2>4. SumFunctionOnSet(P, N) = h /\ P[m] \in Nat
    BY <1>8, <1>11
  <2> QED
    BY <1>5, <2>2, <2>3, <2>4
<1> QED
  BY <1>9, <1>10, <1>11, <1>12, <1>13 DEF N, P, h

(* How far a part is from its quota.                                       *)
LEMMA Cancel == \A u \in Nat \ {0} : \A v, w \in Int : u * v < u * w => v < w
<1> SUFFICES ASSUME NEW u \in Nat \ {0}, NEW v \in Int, NEW w \in Int, u * v < u * w, v >= w PROVE FALSE
  OBVIOUS
<1>1. u * (v - w) >= 0 /\ u * (v - w) = u * v - u * w /\ u * v \in Int /\ u * w \in Int
  OBVIOUS
<1> QED
  BY <1>1

(* A part p of an allocation h, which is a share w * A of D rounded.       *)
LEMMA Strays ==
    ASSUME NEW w \in Nat, NEW D \in Nat \ {0}, NEW A \in Nat \ {0}, NEW c \in Nat, 0 < c, c <= A,
           NEW p \in Nat, NEW h \in Nat, p <= h,
           2 * (D * h) <= 2 * (w * A) + D, 2 * (w * A) < 2 * (D * h) + D,
           A * p <= h * c + A, h * c < A * p + A
    PROVE  2 * (p * D - w * c) < 3 * D /\ 2 * (w * c - p * D) < 3 * D
<1> DEFINE u == A * (p * D)
           v == A * (w * c)
           y == (D * h) * c
           k == A * D
           l == D * c
<1>1. /\ p * D \in Nat /\ w * c \in Nat /\ D * h \in Nat /\ w * A \in Nat /\ A * p \in Nat /\ h * c \in Nat
  BY ProductNat
<1>2. u \in Nat /\ v \in Nat /\ y \in Nat /\ k \in Nat /\ l \in Nat
  BY <1>1, ProductNat
<1>3. D <= k /\ l <= k /\ (c < A => l < k)
  <2>1. \A i, j, z \in Nat : i <= j => z * i <= z * j
    OBVIOUS
  <2>2. \A i, j, z \in Nat : i < j /\ z > 0 => z * i < z * j
    OBVIOUS
  <2>3. k = D * A /\ D * 1 = D
    OBVIOUS
  <2> QED
    BY <2>1, <2>2, <2>3
<1>4. \A i, j, z \in Int : z >= 0 /\ i <= j => z * i <= z * j
  OBVIOUS
<1>5. 2 * y <= 2 * v + l
  <2>1. c * (2 * (D * h)) <= c * (2 * (w * A) + D)
    BY <1>1, <1>4
  <2>2. c * (2 * (D * h)) = 2 * y /\ c * (2 * (w * A) + D) = 2 * v + l
    OBVIOUS
  <2> QED
    BY <2>1, <2>2
<1>6. 2 * v < 2 * y + l
  <2>1. \A i, j, z \in Int : z > 0 /\ i < j => z * i < z * j
    OBVIOUS
  <2>2. c * (2 * (w * A)) < c * (2 * (D * h) + D)
    BY <1>1, <2>1
  <2>3. c * (2 * (w * A)) = 2 * v /\ c * (2 * (D * h) + D) = 2 * y + l
    OBVIOUS
  <2> QED
    BY <2>2, <2>3
<1>7. u <= y + k
  <2>1. D * (A * p) <= D * (h * c + A)
    BY <1>1, <1>4
  <2>2. D * (A * p) = u /\ D * (h * c + A) = y + k
    OBVIOUS
  <2> QED
    BY <2>1, <2>2
<1>8. y <= u + k - D
  <2>1. h * c <= A * p + A - 1
    BY <1>1
  <2>2. D * (h * c) <= D * (A * p + A - 1)
    BY <1>1, <1>4, <2>1
  <2>3. D * (h * c) = y /\ D * (A * p + A - 1) = u + k - D
    OBVIOUS
  <2> QED
    BY <2>2, <2>3
<1>9. c = A => u <= y
  <2> SUFFICES ASSUME c = A PROVE u <= y
    OBVIOUS
  <2>1. k * p <= k * h
    BY <1>2, <1>4
  <2>2. k * p = u /\ k * h = y
    OBVIOUS
  <2> QED
    BY <2>1, <2>2
<1> HIDE DEF u, v, y, k, l
<1>10. 2 * u - 2 * v < 3 * k
  <2>1. CASE c = A
    BY <1>2, <1>3, <1>5, <1>9, <2>1
  <2>2. CASE c < A
    BY <1>2, <1>3, <1>5, <1>7, <2>2
  <2> QED
    BY <2>1, <2>2
<1>11. 2 * v - 2 * u < 3 * k
  BY <1>2, <1>3, <1>6, <1>8
<1>12. /\ A * (2 * (p * D - w * c)) = 2 * u - 2 * v /\ A * (2 * (w * c - p * D)) = 2 * v - 2 * u
       /\ A * (3 * D) = 3 * k
  BY <1>1 DEF u, v, k
<1>13. 2 * (p * D - w * c) \in Int /\ 2 * (w * c - p * D) \in Int /\ 3 * D \in Int
  BY <1>1
<1> QED
  BY <1>10, <1>11, <1>12, <1>13, Cancel

LEMMA PartsKeepQuota ==
    ASSUME NEW spawns \in [Kinds -> Nat], Spawned(spawns) > 0, NEW tokens \in Nat, NEW m \in Named(spawns)
    PROVE  LET n == Spawned(spawns)  limit == Limit(n) IN
             2 * Magnitude(Parts(tokens, spawns)[m] * limit[2] * n - tokens * limit[1] * Count(spawns, m))
               < 3 * limit[2] * n
<1> DEFINE n == Spawned(spawns)
           a == Limit(n)[1]
           b == Limit(n)[2]
           A == Among(spawns)
           D == b * n
           w == tokens * a
           c == Count(spawns, m)
           h == Allocated(tokens, spawns)
           q == Quotient(tokens, spawns)[m]
           s == Remainder(tokens, spawns)[m]
           p == Parts(tokens, spawns)[m]
<1>1. /\ D \in Nat \ {0} /\ h \in Nat
      /\ 2 * (D * h) <= 2 * (w * A) + D /\ 2 * (w * A) < 2 * (D * h) + D
  BY AllocatedBound
<1>2. A \in Nat \ {0} /\ q \in Nat /\ s \in 0 .. A - 1 /\ h * c = A * q + s
  BY QuotientsBound
<1>3. c \in Nat /\ 0 < c /\ c <= A
  BY AmongSum
<1>4. p \in Nat /\ p <= h /\ (p = q \/ p = q + 1)
  BY PartsAddUp, PartsAre, NamedFinite
<1>5. n \in Nat \ {0} /\ a \in Nat /\ b \in Nat \ {0}
  BY SpawnedNat, LimitBound
<1>6. w \in Nat
  BY <1>5, ProductNat
<1>7. p * b * n = p * D /\ 3 * b * n = 3 * D
  <2> HIDE DEF p, b, n
  <2> QED
    BY <1>4, <1>5
<1> HIDE DEF n, a, b, A, D, w, c, h, q, s, p
<1>8. A * p <= h * c + A /\ h * c < A * p + A
  <2>1. A * (q + 1) = A * q + A /\ A * q \in Nat
    BY <1>2, ProductNat
  <2>2. CASE p = q
    BY <1>2, <2>1, <2>2
  <2>3. CASE p = q + 1
    <3>1. A * p = A * q + A
      BY <2>1, <2>3
    <3> QED
      BY <1>2, <2>1, <3>1
  <2> QED
    BY <1>4, <2>2, <2>3
<1>9. 2 * (p * D - w * c) < 3 * D /\ 2 * (w * c - p * D) < 3 * D
  BY <1>1, <1>2, <1>3, <1>4, <1>6, <1>8, Strays
<1> DEFINE d == p * D - w * c
<1>10. d \in Int /\ w * c - p * D = -d
  BY <1>1, <1>3, <1>4, <1>6, ProductNat
<1>11. 2 * Magnitude(d) < 3 * D
  <2> HIDE DEF d
  <2>1. 2 * d < 3 * D /\ 2 * (-d) < 3 * D
    BY <1>9, <1>10 DEF d
  <2> QED
    BY <1>10, <2>1 DEF Magnitude
<1>12. 2 * Magnitude(p * b * n - w * c) < 3 * b * n
  BY <1>7, <1>11
<1> QED
  BY <1>12 DEF n, a, b, w, c, p

(* Of two models the one that was spawned more often gets no less: its     *)
(* quotient is no smaller, and with the same quotient its remainder is     *)
(* larger.                                                                 *)
LEMMA Ranked ==
    ASSUME NEW A \in Nat \ {0}, NEW h \in Nat \ {0}, NEW c \in Nat, NEW d \in Nat, c < d,
           NEW q \in Nat, NEW s \in 0 .. A - 1, h * c = A * q + s,
           NEW x \in Nat, NEW y \in 0 .. A - 1, h * d = A * x + y
    PROVE  q < x \/ (q = x /\ s < y)
<1>1. h * c < h * d
  <2>1. \A i, j, z \in Nat : i < j /\ z # 0 => z * i < z * j
    OBVIOUS
  <2> QED
    BY <2>1
<1>2. A * q \in Nat /\ A * x \in Nat /\ A * (x + 1) = A * x + A
  BY ProductNat
<1>3. A * q + s < A * x + y
  BY <1>1
<1>4. A * q < A * (x + 1)
  BY <1>2, <1>3
<1>5. q < x + 1
  BY <1>4, Cancel
<1>6. q = x => s < y
  BY <1>2, <1>3
<1> QED
  BY <1>5, <1>6

LEMMA PartsFollowCounts ==
    ASSUME NEW spawns \in [Kinds -> Nat], Spawned(spawns) > 0, NEW tokens \in Nat,
           NEW m \in Named(spawns), NEW x \in Named(spawns), Count(spawns, m) > Count(spawns, x)
    PROVE  Parts(tokens, spawns)[m] >= Parts(tokens, spawns)[x]
<1> DEFINE A == Among(spawns)
           h == Allocated(tokens, spawns)
           q == Quotient(tokens, spawns)
           s == Remainder(tokens, spawns)
           ahead == Ahead(tokens, spawns)
           r == Remaining(tokens, spawns)
           P == Parts(tokens, spawns)
<1>1. A \in Nat \ {0} /\ h \in Nat /\ r \in Int
  <2>1. A \in Nat \ {0}
    BY QuotientsBound
  <2>2. r \in Nat
    BY RemainingBound
  <2> QED
    BY <2>1, <2>2, AllocatedBound
<1>2. \A y \in {m, x} :
        Count(spawns, y) \in Nat /\ q[y] \in Nat /\ s[y] \in 0 .. A - 1 /\ h * Count(spawns, y) = A * q[y] + s[y]
  BY AmongSum, QuotientsBound
<1>3. \A y \in {m, x} :
        P[y] \in Nat /\ P[y] <= h /\ P[y] = IF Cardinality(ahead[y]) < r THEN q[y] + 1 ELSE q[y]
  BY PartsAddUp, PartsAre, NamedFinite
<1>4. \A y \in {m, x} : Cardinality(ahead[y]) \in Nat
  <2>1. ahead \in [Named(spawns) -> SUBSET Named(spawns)] /\ IsFiniteSet(Named(spawns))
    BY AheadOrders, NamedFinite
  <2> QED
    BY <2>1, FS_Subset, FS_CardinalityType
<1>5. s[m] > s[x] => Cardinality(ahead[m]) <= Cardinality(ahead[x])
  <2> SUFFICES ASSUME s[m] > s[x] PROVE Cardinality(ahead[m]) <= Cardinality(ahead[x])
    OBVIOUS
  <2>1. m \in ahead[x]
    BY DEF Ahead
  <2>2. ahead[m] \subseteq ahead[x] /\ ahead[x] \in SUBSET Named(spawns)
    BY <2>1, AheadOrders
  <2>3. IsFiniteSet(ahead[x])
    BY <2>2, NamedFinite, FS_Subset
  <2> QED
    BY <2>2, <2>3, FS_Subset
<1> DEFINE i == Cardinality(ahead[m])
           j == Cardinality(ahead[x])
<1>6. i \in Nat /\ j \in Nat /\ (s[m] > s[x] => i <= j)
  BY <1>4, <1>5
<1>7. /\ q[m] \in Nat /\ s[m] \in 0 .. A - 1 /\ h * Count(spawns, m) = A * q[m] + s[m]
      /\ q[x] \in Nat /\ s[x] \in 0 .. A - 1 /\ h * Count(spawns, x) = A * q[x] + s[x]
      /\ Count(spawns, m) \in Nat /\ Count(spawns, x) \in Nat
  BY <1>2
<1>8. /\ P[m] \in Nat /\ P[m] = IF i < r THEN q[m] + 1 ELSE q[m]
      /\ P[x] \in Nat /\ P[x] <= h /\ P[x] = IF j < r THEN q[x] + 1 ELSE q[x]
  BY <1>3
<1> HIDE DEF A, h, q, s, ahead, r, P, i, j
<1>9. CASE h = 0
  BY <1>8, <1>9 DEF P
<1>10. CASE h # 0
  <2>1. q[x] < q[m] \/ (q[x] = q[m] /\ s[x] < s[m])
    BY <1>1, <1>7, <1>10, Ranked
  <2>2. CASE q[x] < q[m]
    BY <1>7, <1>8, <2>2 DEF P
  <2>3. CASE q[x] = q[m] /\ s[x] < s[m]
    <3>1. i <= j
      BY <1>6, <1>7, <2>3
    <3>2. j < r => i < r
      BY <1>1, <1>6, <3>1
    <3> QED
      BY <1>7, <1>8, <2>3, <3>2 DEF P
  <2> QED
    BY <2>1, <2>2, <2>3
<1> QED
  BY <1>9, <1>10
-----------------------------------------------------------------------------
(* Normalize, as the evidence of the files it keeps.                       *)
Kept(r, order) == IF linked THEN {Chosen(r, order, c) : c \in {Child[f] : f \in DOMAIN r}} ELSE {}
Usable(r, kept) == {f \in kept : r[f].tokens # NoUsage}
Single(r, kept) == {f \in Usable(r, kept) : Cardinality(r[f].models) = 1}
Mixed(r, kept) == SumFunction([f \in Usable(r, kept) \ Single(r, kept) |-> r[f].tokens])
FromChildren(r, cut, kept) ==
    Evidence("children", "observed",
             [f \in Single(r, kept) |-> [model |-> CHOOSE m \in r[f].models : TRUE, tokens |-> r[f].tokens]],
             Mixed(r, kept),
             root.corrupt + SumFunction([f \in kept |-> r[f].corrupt]),
             root.lines + SumFunction([f \in kept |-> r[f].lines + (IF f \in cut THEN 1 ELSE 0)]))
FromSession ==
    Evidence("session",
             IF Named(root.spawns) = {} THEN "unknown"
             ELSE IF \E m \in Named(root.spawns) : root.spawns[<<m, "observed">>] = 0 THEN "inferred"
             ELSE "observed",
             [m \in Named(root.spawns) |-> [model |-> m, tokens |-> Parts(root.tokens, root.spawns)[m]]],
             root.tokens - SumFunction(Parts(root.tokens, root.spawns)), root.corrupt, root.lines)
Session(r, kept) == Single(r, kept) = {} /\ root.tokens # NoUsage /\ Spawned(root.spawns) > 0
FromRouting(r, kept) == Evidence("routing", "unknown", Nothing, Mixed(r, kept), root.corrupt, root.lines)
From(r, cut, kept) ==
    CASE Single(r, kept) # {} -> FromChildren(r, cut, kept)
      [] Session(r, kept) -> FromSession
      [] OTHER -> FromRouting(r, kept)

LEMMA NormalizeIs == \A r, cut, order : Normalize(r, cut, order) = From(r, cut, Kept(r, order))
BY DEF Normalize, From, Kept, Usable, Single, Mixed, FromChildren, FromSession, Session, FromRouting

RootOK ==
    /\ root.tokens \in Nat \cup {NoUsage} /\ root.spawns \in [Kinds -> Nat]
    /\ root.corrupt \in Nat /\ root.lines \in Nat

(* What is kept, and its usage.                                            *)
LEMMA KeptFiles ==
    ASSUME NEW r, Readable(r), NEW order \in SetToSeqs(DOMAIN r)
    PROVE  /\ Kept(r, order) \in SUBSET DOMAIN r
           /\ \A f \in Kept(r, order) : Newest(r, Child[f], f)
           /\ linked => \A f \in DOMAIN r : Newest(r, Child[f], Chosen(r, order, Child[f]))
                                              /\ Chosen(r, order, Child[f]) \in Kept(r, order)
<1>1. \A c \in {Child[f] : f \in DOMAIN r} : Newest(r, c, Chosen(r, order, c))
  BY ChosenIsNewest
<1> QED
  BY <1>1 DEF Kept, Newest

LEMMA KeptUsage ==
    ASSUME NEW r, Readable(r), NEW kept \in SUBSET DOMAIN r
    PROVE  /\ IsFiniteSet(kept) /\ IsFiniteSet(Usable(r, kept)) /\ Usable(r, kept) \in SUBSET kept
           /\ Single(r, kept) \in SUBSET Usable(r, kept)
           /\ \A f \in Usable(r, kept) : r[f].tokens \in Nat
           /\ \A f \in Single(r, kept) : (CHOOSE m \in r[f].models : TRUE) \in Models
           /\ Mixed(r, kept) \in Nat
<1>1. IsFiniteSet(kept) /\ Usable(r, kept) \in SUBSET kept /\ Single(r, kept) \in SUBSET Usable(r, kept)
  BY FiniteAssumption, FS_Subset DEF Readable, Usable, Single
<1>2. IsFiniteSet(Usable(r, kept)) /\ IsFiniteSet(Usable(r, kept) \ Single(r, kept))
  BY <1>1, FS_Subset
<1>3. \A f \in Usable(r, kept) : r[f].tokens \in Nat
  BY DEF Readable, Usable, Rollouts
<1>4. ASSUME NEW f \in Single(r, kept) PROVE (CHOOSE m \in r[f].models : TRUE) \in Models
  <2>1. r[f].models \in SUBSET Models /\ Cardinality(r[f].models) = 1
    BY <1>1 DEF Single, Readable, Rollouts
  <2>2. r[f].models # {}
    BY <2>1, FS_EmptySet
  <2> QED
    BY <2>1, <2>2
<1>5. Mixed(r, kept) \in Nat
  <2> DEFINE S == Usable(r, kept) \ Single(r, kept)
             F == [f \in S |-> r[f].tokens]
  <2>1. \A f \in S : F[f] \in Nat
    BY <1>3
  <2>2. Mixed(r, kept) = SumFunctionOnSet(F, S)
    BY DEF Mixed, SumFunction
  <2>3. IsFiniteSet(S)
    BY <1>2
  <2> HIDE DEF F, S
  <2> QED
    BY <2>1, <2>2, <2>3, SumNat
<1> QED
  BY <1>1, <1>2, <1>3, <1>4, <1>5

LEMMA SessionShare ==
    ASSUME RootOK, root.tokens # NoUsage, Spawned(root.spawns) > 0
    PROVE  LET parts == Parts(root.tokens, root.spawns) IN
           /\ \A m \in Models : parts[m] \in Nat
           /\ SumFunction(parts) \in Nat /\ SumFunction(parts) <= root.tokens
           /\ 4 * SumFunction(parts) <= 3 * root.tokens + 2
<1> DEFINE t == root.tokens
           s == SumFunction(Parts(root.tokens, root.spawns))
           h == Allocated(root.tokens, root.spawns)
<1>1. t \in Nat /\ root.spawns \in [Kinds -> Nat]
  BY DEF RootOK
<1>2. h \in Nat /\ 4 * h <= 3 * t + 2
  BY <1>1, AllocatedBound
<1>3. s = 0 \/ s = h
  BY <1>1, PartsAddUp
<1>4. \A m \in Models : Parts(root.tokens, root.spawns)[m] \in Nat
  BY <1>1, PartsAddUp
<1> HIDE DEF s, h, t
<1>5. s \in Nat /\ s <= t /\ 4 * s <= 3 * t + 2
  BY <1>1, <1>2, <1>3
<1> QED
  BY <1>4, <1>5 DEF s, t

LEMMA EvidenceFields ==
    \A source, model, buckets, unknown, corrupt, lines :
        LET e == Evidence(source, model, buckets, unknown, corrupt, lines) IN
        /\ e.runtime = "codex" /\ e.model = model /\ e.buckets = buckets /\ e.unknown = unknown
        /\ e.corrupt = corrupt /\ e.lines = lines
        /\ source = "children" => e.usage = "detailed" /\ e.attribution = "child"
        /\ source = "session" => e.usage = "session" /\ e.attribution = "allocation"
        /\ source = "routing" => e.usage = "none" /\ e.attribution = "guidance"
BY DEF Evidence, Usage, Attribution

(* Evidence made of readable files is well formed.                         *)
LEMMA FromWellFormed ==
    ASSUME RootOK, NEW r, Readable(r), NEW kept \in SUBSET DOMAIN r, NEW cut
    PROVE  WellFormed(From(r, cut, kept))
<1>1. ASSUME NEW F, \A f \in kept : F[f] \in Nat, DOMAIN F = kept
      PROVE SumFunction(F) \in Nat
  <2>1. IsFiniteSet(kept)
    BY KeptUsage
  <2> QED
    BY <1>1, <2>1, SumNat DEF SumFunction
<1>2. WellFormed(FromChildren(r, cut, kept))
  <2> DEFINE b == [f \in Single(r, kept) |->
                     [model |-> CHOOSE m \in r[f].models : TRUE, tokens |-> r[f].tokens]]
             c == root.corrupt + SumFunction([f \in kept |-> r[f].corrupt])
             l == root.lines + SumFunction([f \in kept |-> r[f].lines + (IF f \in cut THEN 1 ELSE 0)])
  <2>1. c \in Nat
    <3> DEFINE F == [f \in kept |-> r[f].corrupt]
    <3>1. DOMAIN F = kept /\ \A f \in kept : F[f] \in Nat
      BY DEF Readable, Rollouts
    <3> HIDE DEF F
    <3>2. SumFunction(F) \in Nat
      BY <1>1, <3>1
    <3> QED
      BY <3>2 DEF RootOK, F
  <2>2. l \in Nat
    <3> DEFINE F == [f \in kept |-> r[f].lines + (IF f \in cut THEN 1 ELSE 0)]
    <3>1. DOMAIN F = kept /\ \A f \in kept : F[f] \in Nat
      BY DEF Readable, Rollouts
    <3> HIDE DEF F
    <3>2. SumFunction(F) \in Nat
      BY <1>1, <3>1
    <3> QED
      BY <3>2 DEF RootOK, F
  <2>3. IsFiniteSet(DOMAIN b)
    BY KeptUsage, FS_Subset
  <2>4. \A f \in DOMAIN b : b[f] \in Bucket
    BY KeptUsage DEF Bucket
  <2>5. Mixed(r, kept) \in Nat
    BY KeptUsage
  <2>6. FromChildren(r, cut, kept) = Evidence("children", "observed", b, Mixed(r, kept), c, l)
    BY DEF FromChildren
  <2> HIDE DEF b, c, l
  <2> QED
    BY <2>1, <2>2, <2>3, <2>4, <2>5, <2>6, EvidenceFields DEF WellFormed
<1>3. ASSUME Session(r, kept) PROVE WellFormed(FromSession)
  <2> DEFINE parts == Parts(root.tokens, root.spawns)
             b == [m \in Named(root.spawns) |-> [model |-> m, tokens |-> parts[m]]]
             u == root.tokens - SumFunction(parts)
             k == IF Named(root.spawns) = {} THEN "unknown"
                  ELSE IF \E m \in Named(root.spawns) : root.spawns[<<m, "observed">>] = 0 THEN "inferred"
                  ELSE "observed"
  <2>1. /\ \A m \in Models : parts[m] \in Nat
        /\ SumFunction(parts) \in Nat /\ SumFunction(parts) <= root.tokens
    BY <1>3, SessionShare DEF Session
  <2>2. root.tokens \in Nat
    BY <1>3 DEF Session, RootOK
  <2>3. u \in Nat
    BY <2>1, <2>2
  <2>4. Named(root.spawns) \in SUBSET Models /\ IsFiniteSet(Named(root.spawns))
    BY NamedFinite DEF RootOK
  <2>5. IsFiniteSet(DOMAIN b) /\ \A m \in DOMAIN b : b[m] \in Bucket
    BY <2>1, <2>4 DEF Bucket
  <2>6. FromSession = Evidence("session", k, b, u, root.corrupt, root.lines)
    BY DEF FromSession
  <2>7. k \in {"observed", "inferred", "unknown"}
    OBVIOUS
  <2> HIDE DEF b, u, k
  <2> QED
    BY <2>3, <2>5, <2>6, <2>7, EvidenceFields DEF WellFormed, RootOK
<1>4. WellFormed(FromRouting(r, kept))
  <2>1. Mixed(r, kept) \in Nat
    BY KeptUsage
  <2>2. IsFiniteSet(DOMAIN Nothing) /\ DOMAIN Nothing = {}
    BY FS_EmptySet DEF Nothing
  <2> QED
    BY <2>1, <2>2, EvidenceFields DEF WellFormed, FromRouting, RootOK
<1> QED
  BY <1>2, <1>3, <1>4 DEF From, Session
-----------------------------------------------------------------------------
(* The inductive invariant of the types.                                   *)
Roots == [tokens : Nat \cup {NoUsage}, spawns : [Kinds -> Nat], corrupt : Nat, lines : Nat]
Typed ==
    /\ linked \in BOOLEAN /\ root \in Roots /\ root.corrupt <= root.lines
    /\ roll \in [Files -> Rollouts] /\ used \in [Children -> Nat] /\ blank \in SUBSET Children
    /\ records \in Nat /\ pc \in {"idle", "reading", "done"}
    /\ toRead \in SUBSET Files /\ (pc # "reading" => toRead = {})
    /\ Readable(read) /\ torn \in SUBSET Files /\ known \in [Children -> Nat]
Made ==
    /\ WellFormed(out)
    /\ pc = "done" => \E order \in SetToSeqs(DOMAIN read) : out = Normalize(read, torn, order)

LEMMA TypedRoot == Typed => RootOK
BY DEF Typed, Roots, RootOK

LEMMA EmptyRollout == Empty \in Rollouts
BY DEF Empty, Rollouts, NoUsage

LEMMA ChildIn == \A f \in Files : Child[f] \in Children
BY DEF Children

LEMMA Begun ==
    ASSUME Typed, NEW c \in Children
    PROVE  LET S == {0} \cup {roll[f].tokens : f \in {g \in Files : Child[g] = c}} IN
           /\ Max(S) \in S /\ Max(S) \in Nat /\ \A x \in S : x <= Max(S)
<1> DEFINE of == {g \in Files : Child[g] = c}
           T == {roll[f].tokens : f \in of}
           S == {0} \cup T
<1>1. IsFiniteSet(of)
  BY FiniteAssumption, FS_Subset
<1>2. IsFiniteSet(T)
  <2> DEFINE F == [f \in of |-> roll[f].tokens]
  <2>1. F \in Surjection(of, T)
    BY DEF Surjection
  <2> HIDE DEF of, F, T
  <2> QED
    BY <1>1, <2>1, FS_Surjection
<1>3. IsFiniteSet({0})
  BY FS_Singleton
<1>4. IsFiniteSet(S)
  <2> HIDE DEF T
  <2> QED
    BY <1>2, <1>3, FS_Union
<1>5. S \subseteq Nat \cup {NoUsage} /\ S \subseteq Int /\ S # {} /\ 0 \in S
  BY DEF Typed, Rollouts, NoUsage
<1> HIDE DEF S
<1>6. Max(S) \in S /\ \A x \in S : x <= Max(S)
  BY <1>4, <1>5, MaxExists
<1>7. Max(S) \in Nat
  <2>1. 0 <= Max(S) /\ Max(S) \in Nat \cup {-1}
    BY <1>5, <1>6 DEF NoUsage
  <2> QED
    BY <2>1
<1> QED
  BY <1>6, <1>7 DEF S

LEMMA TypedInit == Init => Typed /\ Made
<1> SUFFICES ASSUME Init PROVE Typed /\ Made
  OBVIOUS
<1>1. Typed
  <2>1. Readable(read)
    BY DEF Init, Readable
  <2>2. root \in Roots /\ root.corrupt <= root.lines
    BY DEF Init, Roots, NoUsage
  <2> QED
    BY <2>1, <2>2, EmptyRollout DEF Init, Typed
<1>2. WellFormed(Evidence("routing", "unknown", Nothing, 0, 0, 0))
  <2>1. IsFiniteSet(DOMAIN Nothing) /\ DOMAIN Nothing = {}
    BY FS_EmptySet DEF Nothing
  <2> QED
    BY <2>1, EvidenceFields DEF WellFormed
<1> QED
  BY <1>1, <1>2 DEF Init, Made

(* What a record of the world leaves as it was.                            *)
LEMMA WritesKeep ==
    Writes => /\ pc # "done" /\ records' = records + 1 /\ linked' = linked /\ pc' = pc /\ toRead' = toRead
              /\ read' = read /\ torn' = torn /\ known' = known /\ out' = out
BY DEF Writes

LEMMA TurnFile ==
    ASSUME roll \in [Files -> Rollouts], NEW f \in Files, NEW m, NEW n, NEW total, Turn(f, m, n, total)
    PROVE  /\ roll' = [g \in Files |-> roll'[g]]
           /\ roll'[f] = [models |-> roll[f].models \cup {m},
                          tokens |-> IF total THEN used'[Child[f]] ELSE NoUsage, time |-> records',
                          corrupt |-> roll[f].corrupt, lines |-> roll[f].lines + 1]
           /\ \A g \in Files : g # f => roll'[g] = roll[g]
<1> DEFINE t == IF total THEN used'[Child[f]] ELSE NoUsage
<1>1. roll' = [roll EXCEPT ![f].models = @ \cup {m}, ![f].lines = @ + 1, ![f].time = records', ![f].tokens = t]
  BY DEF Turn
<1> HIDE DEF t
<1>2. roll'[f] = [models |-> roll[f].models \cup {m}, tokens |-> t, time |-> records',
                  corrupt |-> roll[f].corrupt, lines |-> roll[f].lines + 1]
  BY <1>1 DEF Rollouts
<1>3. roll' = [g \in Files |-> roll'[g]] /\ \A g \in Files : g # f => roll'[g] = roll[g]
  BY <1>1
<1> QED
  BY <1>2, <1>3 DEF t

(* Every action keeps the types; only Estimate makes evidence.             *)
LEMMA TypedStep == Typed /\ Made /\ [Next]_vars => Typed' /\ Made'
<1> SUFFICES ASSUME Typed, Made, [Next]_vars PROVE Typed' /\ Made'
  OBVIOUS
<1> USE DEF Typed, Made
<1>1. ASSUME UNCHANGED vars PROVE Typed' /\ Made'
  <2>1. Typed'
    BY <1>1 DEF vars, world, Readable
  <2>2. WellFormed(out)' /\ SetToSeqs(DOMAIN read)' = SetToSeqs(DOMAIN read)
    BY <1>1 DEF vars
  <2>3. \A order : Normalize(read, torn, order)' = Normalize(read, torn, order)
    BY <1>1 DEF vars, world, Normalize
  <2>4. pc' = pc /\ out' = out
    BY <1>1 DEF vars
  <2> QED
    BY <2>1, <2>2, <2>3, <2>4
<1>2. ASSUME NEW n \in Steps, RootTurn(n) PROVE Typed' /\ Made'
  <2>1. root' \in Roots /\ root'.corrupt <= root'.lines
    <3>1. n \in Nat
      BY OrderAssumption
    <3>2. root' = [root EXCEPT !.tokens = (IF @ = NoUsage THEN 0 ELSE @) + n, !.lines = @ + 1]
      BY <1>2 DEF RootTurn
    <3>3. root \in Roots /\ root.corrupt <= root.lines
      OBVIOUS
    <3> HIDE DEF Typed, Made
    <3>4. (IF root.tokens = NoUsage THEN 0 ELSE root.tokens) + n \in Nat
      BY <3>1, <3>3 DEF Roots, NoUsage
    <3> DEFINE t == (IF root.tokens = NoUsage THEN 0 ELSE root.tokens) + n
    <3>5. root' = [tokens |-> t, spawns |-> root.spawns, corrupt |-> root.corrupt, lines |-> root.lines + 1]
      BY <3>2, <3>3 DEF Roots
    <3> HIDE DEF t
    <3> QED
      BY <3>3, <3>4, <3>5 DEF Roots, t
  <2> QED
    BY <1>2, <2>1, WritesKeep DEF RootTurn
<1>3. ASSUME NEW k \in Kinds, Spawn(k) PROVE Typed' /\ Made'
  <2>1. root' \in Roots /\ root'.corrupt <= root'.lines
    <3>1. root' = [root EXCEPT !.spawns[k] = @ + 1, !.lines = @ + 1]
      BY <1>3 DEF Spawn
    <3>2. root \in Roots /\ root.corrupt <= root.lines
      OBVIOUS
    <3> HIDE DEF Typed, Made
    <3>3. [root.spawns EXCEPT ![k] = @ + 1] \in [Kinds -> Nat]
      BY <3>2 DEF Roots
    <3> DEFINE w == [root.spawns EXCEPT ![k] = @ + 1]
    <3>4. root' = [tokens |-> root.tokens, spawns |-> w, corrupt |-> root.corrupt, lines |-> root.lines + 1]
      BY <3>1, <3>2 DEF Roots
    <3> HIDE DEF w
    <3> QED
      BY <3>2, <3>3, <3>4 DEF Roots, w
  <2> QED
    BY <1>3, <2>1, WritesKeep DEF Spawn
<1>4. ASSUME NEW f \in Files, NEW m \in Models, NEW n \in Steps, NEW total \in BOOLEAN, Turn(f, m, n, total)
      PROVE Typed' /\ Made'
  <2>1. n \in Nat /\ Child[f] \in Children
    BY OrderAssumption, ChildIn
  <2>2. used' \in [Children -> Nat]
    BY <1>4, <2>1 DEF Turn
  <2>3. records' \in Nat
    BY <1>4, WritesKeep DEF Turn
  <2>4. roll' \in [Files -> Rollouts]
    <3>1. used'[Child[f]] \in Nat
      BY <2>1, <2>2
    <3>2. roll'[f] \in Rollouts
      <4> DEFINE t == IF total THEN used'[Child[f]] ELSE NoUsage
      <4>1. t \in Nat \cup {NoUsage} /\ roll[f] \in Rollouts
        BY <3>1
      <4>2. roll'[f] = [models |-> roll[f].models \cup {m}, tokens |-> t, time |-> records',
                        corrupt |-> roll[f].corrupt, lines |-> roll[f].lines + 1]
        BY <1>4, TurnFile
      <4> HIDE DEF t, Typed, Made
      <4> QED
        BY <2>3, <4>1, <4>2 DEF Rollouts
    <3> QED
      BY <1>4, <3>2, TurnFile
  <2>5. blank' \in SUBSET Children
    BY <1>4, <2>1 DEF Turn
  <2> QED
    BY <1>4, <2>2, <2>3, <2>4, <2>5, WritesKeep DEF Turn
<1>5. ASSUME NEW f \in Files, NEW g \in Files, CopyFile(f, g) PROVE Typed' /\ Made'
  <2>1. roll' \in [Files -> Rollouts]
    BY <1>5 DEF CopyFile
  <2> QED
    BY <1>5, <2>1, WritesKeep DEF CopyFile
<1>6. ASSUME NEW f \in Files, SpoilChild(f) PROVE Typed' /\ Made'
  <2>1. roll' \in [Files -> Rollouts]
    BY <1>6 DEF SpoilChild, Rollouts
  <2> QED
    BY <1>6, <2>1, WritesKeep DEF SpoilChild
<1>7. ASSUME NEW f \in Files, ReadFile(f) PROVE Typed' /\ Made'
  <2>1. Readable(read')
    BY <1>7 DEF ReadFile, Readable
  <2>2. pc = "reading" /\ toRead' \in SUBSET Files /\ torn' \in SUBSET Files
    BY <1>7 DEF ReadFile
  <2> QED
    BY <1>7, <2>1, <2>2 DEF ReadFile, world, Readable
<1>8. CASE SpoilRoot
  <2>1. root' \in Roots /\ root'.corrupt <= root'.lines
    <3>1. root' = [root EXCEPT !.corrupt = @ + 1, !.lines = @ + 1]
      BY <1>8 DEF SpoilRoot
    <3>2. root \in Roots /\ root.corrupt <= root.lines
      OBVIOUS
    <3> HIDE DEF Typed, Made
    <3>3. root' = [tokens |-> root.tokens, spawns |-> root.spawns,
                   corrupt |-> root.corrupt + 1, lines |-> root.lines + 1]
      BY <3>1, <3>2 DEF Roots
    <3> QED
      BY <3>2, <3>3 DEF Roots
  <2> QED
    BY <1>8, <2>1, WritesKeep DEF SpoilRoot
<1>9. CASE Begin
  <2>1. known' \in [Children -> Nat]
    BY <1>9, Begun DEF Begin
  <2>2. toRead' \in SUBSET Files
    BY <1>9 DEF Begin
  <2> QED
    BY <1>9, <2>1, <2>2 DEF Begin, world, Readable
<1>10. CASE Estimate
  <2>1. PICK order \in SetToSeqs(DOMAIN read) : out' = Normalize(read, torn, order)
    BY <1>10 DEF Estimate
  <2>2. /\ pc' = "done" /\ toRead = {} /\ toRead' = toRead /\ read' = read /\ torn' = torn /\ known' = known
        /\ root' = root /\ linked' = linked /\ UNCHANGED <<roll, used, blank, records>>
    BY <1>10 DEF Estimate, world
  <2>3. WellFormed(out')
    <3>1. Kept(read, order) \in SUBSET DOMAIN read
      BY KeptFiles
    <3> QED
      BY <2>1, <3>1, TypedRoot, NormalizeIs, FromWellFormed
  <2>4. Normalize(read, torn, order)' = Normalize(read, torn, order)
    BY <2>2 DEF Normalize, Kept
  <2>5. Typed'
    BY <2>2
  <2>6. pc' = "done" => \E o \in SetToSeqs(DOMAIN read') : out' = Normalize(read, torn, o)'
    BY <2>1, <2>2, <2>4
  <2> QED
    BY <2>3, <2>5, <2>6
<1>11. CASE Ended
  BY <1>1, <1>11 DEF Ended
<1> QED
  BY <1>1, <1>2, <1>3, <1>4, <1>5, <1>6, <1>7, <1>8, <1>9, <1>10, <1>11 DEF Next

LEMMA TypedAlways == Spec => [](Typed /\ Made)
<1>1. Init => Typed /\ Made
  BY TypedInit
<1>2. (Typed /\ Made) /\ [Next]_vars => (Typed /\ Made)'
  BY TypedStep
<1> QED
  BY <1>1, <1>2, PTL DEF Spec

(* Every score is a percentage, and the evidence it is made of is well     *)
(* formed: whatever the files hold and whenever they are read, no rounding *)
(* or remainder leaves a negative number of tokens unknown.                *)
THEOREM CodexTypes == Spec => []TypeOK
<1>1. Typed /\ Made => TypeOK
  <2> SUFFICES ASSUME Typed, Made PROVE TypeOK
    OBVIOUS
  <2>1. \A est \in Estimates : est.score \in 0 .. 100
    BY EstimateHolds DEF Made, Estimates
  <2>2. root.tokens \in Nat \cup {NoUsage} /\ root.spawns \in [Kinds -> Nat] /\ root.corrupt \in 0 .. root.lines
    BY DEF Typed, Roots
  <2>3. DOMAIN read \subseteq Files
    BY DEF Typed, Readable
  <2>4. /\ out.usage \in {"detailed", "session", "none"} /\ out.unknown \in Nat
        /\ \A b \in DOMAIN out.buckets : out.buckets[b] \in [model : Models, tokens : Nat]
    BY DEF Made, WellFormed, Bucket
  <2> QED
    BY <2>1, <2>2, <2>3, <2>4 DEF TypeOK, Typed
<1> QED
  BY <1>1, TypedAlways, PTL

(* The order in which the directory lists its entries changes nothing.     *)
THEOREM ListingDoesNotMatter == Spec => []SameWhateverListing
<1>1. Typed /\ Made => SameWhateverListing
  <2> SUFFICES ASSUME Typed, Made, pc = "done", NEW o \in SetToSeqs(DOMAIN read)
               PROVE Normalize(read, torn, o) = out
    BY DEF SameWhateverListing
  <2>1. PICK p \in SetToSeqs(DOMAIN read) : out = Normalize(read, torn, p)
    BY DEF Made
  <2>2. Readable(read)
    BY DEF Typed
  <2>3. \A c \in {Child[f] : f \in DOMAIN read} : Chosen(read, o, c) = Chosen(read, p, c)
    BY <2>2, SameChosen
  <2>4. Kept(read, o) = Kept(read, p)
    BY <2>3 DEF Kept
  <2> QED
    BY <2>1, <2>4, NormalizeIs
<1> QED
  BY <1>1, TypedAlways, PTL

(* An amount is shown only with a baseline and enough of the tokens        *)
(* priced; it has the sign of the raw difference and is not larger.        *)
THEOREM AmountsHaveEvidence == Spec => []AmountNeedsEvidence
<1>1. Typed /\ Made => AmountNeedsEvidence
  BY EstimateHolds DEF Made, Estimates, AmountNeedsEvidence
<1> QED
  BY <1>1, TypedAlways, PTL

(* What a session's evidence is made of.                                   *)
LEMMA SessionEvidence ==
    ASSUME Typed, Made, pc = "done", out.usage = "session"
    PROVE  root.tokens # NoUsage /\ Spawned(root.spawns) > 0 /\ out = FromSession
<1>1. PICK order \in SetToSeqs(DOMAIN read) : out = Normalize(read, torn, order)
  BY DEF Made
<1> DEFINE kept == Kept(read, order)
<1>2. out = From(read, torn, kept)
  BY <1>1, NormalizeIs
<1> HIDE DEF kept
<1>3. FromChildren(read, torn, kept).usage = "detailed" /\ FromRouting(read, kept).usage = "none"
  BY EvidenceFields DEF FromChildren, FromRouting
<1>4. Session(read, kept) /\ out = FromSession
  BY <1>2, <1>3 DEF From, Session
<1> QED
  BY <1>4 DEF Session

(* The usage of a session is spread by quota: nothing is made up, at least *)
(* a fourth stays unknown, and nobody is favoured.                         *)
THEOREM SessionSpread == Spec => []SharesKeepQuota
<1>1. Typed /\ Made => SharesKeepQuota
  <2> SUFFICES ASSUME Typed, Made, pc = "done", out.usage = "session" PROVE SharesKeepQuota
    BY DEF SharesKeepQuota
  <2> DEFINE n == Spawned(root.spawns)
             limit == Limit(n)
             given == Tokens(out, DOMAIN out.buckets)
             Part(m) == IF m \in DOMAIN out.buckets THEN out.buckets[m].tokens ELSE 0
             N == Named(root.spawns)
             parts == Parts(root.tokens, root.spawns)
             b == [m \in N |-> [model |-> m, tokens |-> parts[m]]]
             F == [m \in N |-> b[m].tokens]
  <2>1. root.tokens # NoUsage /\ n > 0 /\ out = FromSession
    BY SessionEvidence
  <2>2. out.buckets = b /\ out.unknown = root.tokens - SumFunction(parts)
    <3> DEFINE k == IF N = {} THEN "unknown"
                    ELSE IF \E m \in N : root.spawns[<<m, "observed">>] = 0 THEN "inferred" ELSE "observed"
               u == root.tokens - SumFunction(parts)
    <3>1. out = Evidence("session", k, b, u, root.corrupt, root.lines)
      BY <2>1 DEF FromSession
    <3> HIDE DEF k, u, b
    <3> QED
      BY <3>1, EvidenceFields DEF u
  <2>3. RootOK /\ root.spawns \in [Kinds -> Nat] /\ root.tokens \in Nat
    BY <2>1, TypedRoot DEF RootOK
  <2>4. /\ \A m \in Models : parts[m] \in Nat
        /\ SumFunction(parts) \in Nat /\ SumFunction(parts) <= root.tokens
        /\ 4 * SumFunction(parts) <= 3 * root.tokens + 2
    BY <2>1, <2>3, SessionShare
  <2>5. N \in SUBSET Models /\ IsFiniteSet(N)
    BY <2>3, NamedFinite
  <2>6. given = SumFunction(parts)
    <3>1. DOMAIN b = N /\ DOMAIN F = N
      OBVIOUS
    <3>2. given = SumFunction(F)
      BY <2>2, <3>1 DEF Tokens
    <3>3. \A m \in N : F[m] \in Int /\ parts[m] = F[m]
      BY <2>4, <2>5
    <3>4. SumFunctionOnSet(F, N) = SumFunctionOnSet(parts, N)
      <4> HIDE DEF F, N, parts
      <4> QED
        BY <2>5, <3>3, SumEqual
    <3>5. SumFunction(parts) = SumFunctionOnSet(parts, N)
      BY <2>1, <2>3, PartsAddUp
    <3> QED
      BY <3>1, <3>2, <3>4, <3>5 DEF SumFunction
  <2>7. out.unknown >= 0 /\ given + out.unknown = root.tokens /\ 4 * given <= 3 * root.tokens + 2
    <3> HIDE DEF given, parts
    <3> QED
      BY <2>2, <2>3, <2>4, <2>6
  <2>8. \A m \in Models : Part(m) = IF m \in N THEN parts[m] ELSE 0
    BY <2>2
  <2>9. \A m \in Models : m \notin N => Count(root.spawns, m) = 0
    BY <2>3, CountNat DEF Named
  <2>10. n \in Nat \ {0} /\ limit[1] \in Nat \ {0} /\ limit[2] \in Nat \ {0}
    BY <2>1, <2>3, SpawnedNat, LimitBound
  <2>11. ASSUME NEW m \in Models
         PROVE 2 * Magnitude(Part(m) * limit[2] * n - root.tokens * limit[1] * Count(root.spawns, m))
                 < 3 * limit[2] * n
    <3>1. CASE m \in N
      <4>1. Part(m) = parts[m]
        BY <2>8, <3>1
      <4>2. 2 * Magnitude(parts[m] * limit[2] * n - root.tokens * limit[1] * Count(root.spawns, m))
              < 3 * limit[2] * n
        BY <2>1, <2>3, <3>1, PartsKeepQuota
      <4> QED
        BY <4>1, <4>2
    <3>2. CASE m \notin N
      <4>1. Part(m) = 0 /\ Count(root.spawns, m) = 0
        BY <2>8, <2>9, <3>2
      <4> HIDE DEF Part, limit, n
      <4>2. root.tokens * limit[1] \in Nat /\ 3 * limit[2] \in Nat \ {0}
        BY <2>3, <2>10, ProductNat
      <4>3. Part(m) * limit[2] * n = 0 /\ root.tokens * limit[1] * Count(root.spawns, m) = 0
        BY <2>10, <4>1, <4>2
      <4>4. 3 * limit[2] * n > 0
        <5>1. \A u, v \in Nat \ {0} : u * v > 0
          OBVIOUS
        <5> QED
          BY <2>10, <4>2, <5>1
      <4>5. Magnitude(0 - 0) = 0
        BY DEF Magnitude
      <4> QED
        BY <4>3, <4>4, <4>5
    <3> QED
      BY <3>1, <3>2
  <2>12. ASSUME NEW m \in Models, NEW q \in Models, Count(root.spawns, m) > Count(root.spawns, q)
         PROVE Part(m) >= Part(q)
    <3>1. m \in N
      <4>1. Count(root.spawns, m) \in Nat /\ Count(root.spawns, q) \in Nat
        BY <2>3, CountNat
      <4> QED
        BY <2>12, <4>1 DEF Named
    <3>2. CASE q \in N
      BY <2>1, <2>3, <2>8, <2>12, <3>1, <3>2, PartsFollowCounts
    <3>3. CASE q \notin N
      BY <2>4, <2>8, <3>1, <3>3
    <3> QED
      BY <3>2, <3>3
  <2> QED
    BY <2>7, <2>11, <2>12 DEF SharesKeepQuota
<1> QED
  BY <1>1, TypedAlways, PTL
-----------------------------------------------------------------------------
(* What the estimator may hold of a child, while its file is written,      *)
(* copied and read: a newer count is no smaller, and what was known when   *)
(* the estimator began is still to be read or was read.                    *)
FilesOf(c) == {f \in Files : Child[f] = c}
Held(c) == {<<roll[f].time, roll[f].tokens>> : f \in FilesOf(c)}
             \cup {<<read[f].time, read[f].tokens>> : f \in FilesOf(c) \cap DOMAIN read}
Ordered ==
    \A c \in Children :
        /\ \A x \in Held(c) : x[1] <= records /\ x[2] <= used[c]
        /\ c \notin blank => \A x, y \in Held(c) : x[1] <= y[1] => x[2] <= y[2]
Found ==
    /\ \A f \in Files : roll[f].lines = 0 => roll[f].tokens = NoUsage
    /\ toRead \cap DOMAIN read = {} /\ (pc = "idle" => DOMAIN read = {})
    /\ pc # "idle" => \A c \in Children \ blank : known[c] > 0 =>
         \E g \in FilesOf(c) : \/ g \in toRead /\ roll[g].tokens >= known[c]
                               \/ g \in DOMAIN read /\ read[g].tokens >= known[c]
Counted == Ordered /\ Found

LEMMA HeldType ==
    ASSUME Typed, NEW c
    PROVE  Held(c) \in SUBSET (Nat \X (Nat \cup {NoUsage}))
BY DEF Typed, Held, FilesOf, Readable, Rollouts

LEMMA CountedInit == Init => Counted
<1> SUFFICES ASSUME Init PROVE Counted
  OBVIOUS
<1>1. Typed /\ \A f \in Files : roll[f] = Empty
  BY TypedInit DEF Init
<1>2. DOMAIN read = {} /\ toRead = {} /\ pc = "idle" /\ records = 0
  BY DEF Init
<1>3. \A c \in Children : used[c] = 0
  BY DEF Init
<1>4. \A c : Held(c) \in SUBSET {<<0, NoUsage>>}
  BY <1>1, <1>2 DEF Held, FilesOf, Empty
<1>5. Ordered
  BY <1>2, <1>3, <1>4 DEF Ordered, NoUsage
<1>6. Found
  BY <1>1, <1>2 DEF Found, Empty
<1> QED
  BY <1>5, <1>6 DEF Counted

(* When nothing new is held, the order is kept.                            *)
LEMMA OrderKept ==
    ASSUME Ordered, Typed, \A c \in Children : Held(c)' \in SUBSET Held(c),
           records' \in Int, records' >= records, used' = used, blank' = blank
    PROVE  Ordered'
<1> SUFFICES ASSUME NEW c \in Children
             PROVE  /\ \A x \in Held(c)' : x[1] <= records' /\ x[2] <= used[c]
                    /\ c \notin blank => \A x, y \in Held(c)' : x[1] <= y[1] => x[2] <= y[2]
  BY DEF Ordered
<1>1. Held(c)' \in SUBSET Held(c)
  OBVIOUS
<1>2. \A x \in Held(c) : x[1] <= records' /\ x[2] <= used[c]
  <2> SUFFICES ASSUME NEW x \in Held(c) PROVE x[1] <= records' /\ x[2] <= used[c]
    OBVIOUS
  <2>1. x[1] <= records /\ x[2] <= used[c]
    BY DEF Ordered
  <2>2. x[1] \in Int /\ records \in Int
    BY HeldType DEF Typed
  <2> QED
    BY <2>1, <2>2
<1>3. c \notin blank => \A x, y \in Held(c) : x[1] <= y[1] => x[2] <= y[2]
  BY DEF Ordered
<1> QED
  BY <1>1, <1>2, <1>3

(* A turn of a child adds one count, the newest and no smaller.            *)
LEMMA HeldTurn ==
    ASSUME Typed, NEW f \in Files, NEW m \in Models, NEW n \in Steps, NEW total \in BOOLEAN, Turn(f, m, n, total)
    PROVE  /\ \A c \in Children \ {Child[f]} : Held(c)' \in SUBSET Held(c)
           /\ total => Held(Child[f])' \in SUBSET (Held(Child[f]) \cup {<<records', used'[Child[f]]>>})
           /\ ~total => Held(Child[f])' \in SUBSET (Held(Child[f]) \cup {<<records', NoUsage>>})
<1>1. roll \in [Files -> Rollouts]
  BY DEF Typed
<1>2. /\ roll'[f].time = records' /\ roll'[f].tokens = IF total THEN used'[Child[f]] ELSE NoUsage
      /\ \A g \in Files : g # f => roll'[g] = roll[g]
  <2> DEFINE t == IF total THEN used'[Child[f]] ELSE NoUsage
  <2>1. roll'[f] = [models |-> roll[f].models \cup {m}, tokens |-> t, time |-> records',
                    corrupt |-> roll[f].corrupt, lines |-> roll[f].lines + 1]
    BY <1>1, TurnFile
  <2>2. \A g \in Files : g # f => roll'[g] = roll[g]
    BY <1>1, TurnFile
  <2> HIDE DEF t
  <2>3. roll'[f].time = records' /\ roll'[f].tokens = t
    BY <2>1
  <2> QED
    BY <2>2, <2>3 DEF t
<1>3. read' = read
  BY WritesKeep DEF Turn
<1> QED
  BY <1>2, <1>3 DEF Held, FilesOf

LEMMA OrderedTurn ==
    ASSUME Typed, Ordered, NEW f \in Files, NEW m \in Models, NEW n \in Steps, NEW total \in BOOLEAN,
           Turn(f, m, n, total)
    PROVE  Ordered'
<1>1. n \in Nat /\ Child[f] \in Children /\ records \in Nat /\ used \in [Children -> Nat]
  BY OrderAssumption, ChildIn DEF Typed
<1>2. records' = records + 1
  BY WritesKeep DEF Turn
<1>3. /\ used' \in [Children -> Nat] /\ used'[Child[f]] = used[Child[f]] + n
      /\ \A c \in Children : used[c] <= used'[c]
  BY <1>1 DEF Turn
<1>4. blank' = IF total THEN blank ELSE blank \cup {Child[f]}
  BY DEF Turn
<1>5. SUFFICES ASSUME NEW c \in Children
               PROVE  /\ \A x \in Held(c)' : x[1] <= records' /\ x[2] <= used'[c]
                      /\ c \notin blank' => \A x, y \in Held(c)' : x[1] <= y[1] => x[2] <= y[2]
  BY DEF Ordered
<1>6. \A x \in Held(c) : x[1] \in Nat /\ x[2] \in Int /\ x[1] < records' /\ x[2] <= used[c] /\ x[2] <= used'[c]
  <2> SUFFICES ASSUME NEW x \in Held(c)
               PROVE x[1] \in Nat /\ x[2] \in Int /\ x[1] < records' /\ x[2] <= used[c] /\ x[2] <= used'[c]
    OBVIOUS
  <2>1. x[1] \in Nat /\ x[2] \in Int
    BY HeldType DEF NoUsage
  <2>2. x[1] <= records /\ x[2] <= used[c]
    BY DEF Ordered
  <2> QED
    BY <1>1, <1>2, <1>3, <2>1, <2>2
<1>7. c \notin blank => \A x, y \in Held(c) : x[1] <= y[1] => x[2] <= y[2]
  BY DEF Ordered
<1>8. CASE c # Child[f]
  <2>1. Held(c)' \in SUBSET Held(c)
    BY <1>8, HeldTurn
  <2>2. c \notin blank' => c \notin blank
    BY <1>4
  <2>3. \A x \in Held(c) : x[1] <= records'
    BY <1>1, <1>2, <1>6
  <2> QED
    BY <1>6, <1>7, <2>1, <2>2, <2>3
<1>9. CASE c = Child[f] /\ total
  <2> DEFINE z == <<records', used'[c]>>
  <2>1. Held(c)' \in SUBSET (Held(c) \cup {z})
    BY <1>9, HeldTurn
  <2>2. z[1] = records' /\ z[2] = used'[c] /\ records' \in Nat /\ used'[c] \in Nat
    BY <1>1, <1>2, <1>3
  <2> HIDE DEF z
  <2>3. \A x \in Held(c) \cup {z} : x[1] <= records' /\ x[2] <= used'[c]
    BY <1>6, <2>2
  <2>4. c \notin blank => \A x, y \in Held(c) \cup {z} : x[1] <= y[1] => x[2] <= y[2]
    BY <1>6, <1>7, <2>2
  <2> QED
    BY <1>4, <1>9, <2>1, <2>3, <2>4
<1>10. CASE c = Child[f] /\ ~total
  <2> DEFINE z == <<records', NoUsage>>
  <2>1. Held(c)' \in SUBSET (Held(c) \cup {z})
    BY <1>10, HeldTurn
  <2>2. z[1] = records' /\ z[2] = -1 /\ records' \in Nat /\ used'[c] \in Nat
    BY <1>1, <1>2, <1>3 DEF NoUsage
  <2> HIDE DEF z
  <2>3. \A x \in Held(c) \cup {z} : x[1] <= records' /\ x[2] <= used'[c]
    BY <1>6, <2>2
  <2> QED
    BY <1>4, <1>10, <2>1, <2>3
<1> QED
  BY <1>8, <1>9, <1>10

(* A child's file that shows a count keeps a count as large.               *)
LEMMA FoundKept ==
    ASSUME Found, \A f \in Files : roll'[f].lines = 0 => roll'[f].tokens = NoUsage,
           toRead' = toRead, read' = read, pc' = pc, known' = known, blank \in SUBSET blank',
           \A c \in Children \ blank' : \A g \in FilesOf(c) \cap toRead : \A k \in Nat \ {0} :
                roll[g].tokens >= k => roll'[g].tokens >= k,
           known \in [Children -> Nat]
    PROVE  Found'
<1>1. toRead' \cap DOMAIN read' = {} /\ (pc' = "idle" => DOMAIN read' = {})
  BY DEF Found
<1>2. ASSUME pc' # "idle", NEW c \in Children \ blank', known'[c] > 0
      PROVE \E g \in FilesOf(c) : \/ g \in toRead' /\ roll'[g].tokens >= known'[c]
                                  \/ g \in DOMAIN read' /\ read'[g].tokens >= known'[c]
  <2>1. c \in Children \ blank /\ known[c] \in Nat \ {0} /\ pc # "idle"
    BY <1>2
  <2>2. PICK g \in FilesOf(c) : \/ g \in toRead /\ roll[g].tokens >= known[c]
                                \/ g \in DOMAIN read /\ read[g].tokens >= known[c]
    BY <2>1 DEF Found
  <2>3. CASE g \in toRead /\ roll[g].tokens >= known[c]
    <3>1. roll'[g].tokens >= known[c]
      BY <2>1, <2>2, <2>3
    <3> QED
      BY <2>2, <2>3, <3>1
  <2>4. CASE g \in DOMAIN read /\ read[g].tokens >= known[c]
    BY <2>2, <2>4
  <2> QED
    BY <2>2, <2>3, <2>4
<1> QED
  BY <1>1, <1>2 DEF Found, FilesOf

(* One lemma for each action.  Records of the root leave the children      *)
(* alone; a turn raises a count; a copy and a spoiled line add none; Begin *)
(* notes what is known; ReadFile moves a count from what is to be read to  *)
(* what was read.                                                          *)
LEMMA CountedRoot ==
    ASSUME Typed, Counted, UNCHANGED <<roll, used, blank>>, read' = read, toRead' = toRead, pc' = pc,
           known' = known, records' \in {records, records + 1}
    PROVE  Counted'
<1>1. \A c \in Children : Held(c)' \in SUBSET Held(c)
  BY DEF Held, FilesOf
<1>2. records' \in Int /\ records' >= records
  BY DEF Typed
<1>3. Ordered'
  BY <1>1, <1>2, OrderKept DEF Counted
<1>4. Found'
  BY FoundKept DEF Counted, Found, Typed
<1> QED
  BY <1>3, <1>4 DEF Counted

LEMMA CountedTurn ==
    ASSUME Typed, Counted, NEW f \in Files, NEW m \in Models, NEW n \in Steps, NEW total \in BOOLEAN,
           Turn(f, m, n, total)
    PROVE  Counted'
<1>1. Ordered'
  BY OrderedTurn DEF Counted
<1>2. roll \in [Files -> Rollouts]
  BY DEF Typed
<1> DEFINE t == IF total THEN used'[Child[f]] ELSE NoUsage
<1>3. /\ roll'[f] = [models |-> roll[f].models \cup {m}, tokens |-> t, time |-> records',
                     corrupt |-> roll[f].corrupt, lines |-> roll[f].lines + 1]
      /\ \A g \in Files : g # f => roll'[g] = roll[g]
  BY <1>2, TurnFile
<1>4. roll'[f].lines # 0
  <2>1. roll[f].lines \in Nat
    BY <1>2 DEF Rollouts
  <2> QED
    BY <1>3, <2>1
<1>5. toRead' = toRead /\ read' = read /\ pc' = pc /\ known' = known
  BY WritesKeep DEF Turn
<1>6. blank' = IF total THEN blank ELSE blank \cup {Child[f]}
  BY DEF Turn
<1>7. ASSUME NEW c \in Children \ blank', NEW g \in FilesOf(c) \cap toRead, NEW k \in Nat \ {0},
             roll[g].tokens >= k
      PROVE  roll'[g].tokens >= k
  <2>1. CASE g # f
    BY <1>3, <1>7, <2>1 DEF FilesOf
  <2>2. CASE g = f
    <3>1. total /\ Child[f] = c
      BY <1>6, <2>2 DEF FilesOf
    <3>2. roll'[f].tokens = used'[c]
      BY <1>3, <3>1
    <3>3. used'[c] \in Nat /\ used[c] \in Nat /\ used[c] <= used'[c]
      BY <3>1, OrderAssumption, ChildIn DEF Turn, Typed
    <3>4. roll[f].tokens <= used[c] /\ roll[f].tokens \in Int
      <4>1. <<roll[f].time, roll[f].tokens>> \in Held(c)
        BY <2>2 DEF Held
      <4> QED
        BY <1>2, <4>1 DEF Counted, Ordered, Rollouts, NoUsage
    <3> QED
      BY <1>7, <2>2, <3>2, <3>3, <3>4
  <2> QED
    BY <2>1, <2>2
<1>8. \A g \in Files : roll'[g].lines = 0 => roll'[g].tokens = NoUsage
  BY <1>3, <1>4 DEF Counted, Found
<1>9. Found'
  BY <1>5, <1>6, <1>7, <1>8, FoundKept DEF Counted, Typed
<1> QED
  BY <1>1, <1>9 DEF Counted

LEMMA CountedCopy ==
    ASSUME Typed, Counted, NEW f \in Files, NEW g \in Files, CopyFile(f, g)
    PROVE  Counted'
<1>1. roll' = [roll EXCEPT ![g] = roll[f]] /\ roll \in [Files -> Rollouts] /\ Child[f] = Child[g]
  BY DEF CopyFile, Typed
<1>2. roll[f].lines > 0 /\ ~(roll[g].lines > 0) /\ roll[g].lines \in Nat /\ roll[f].lines \in Nat
  BY <1>1 DEF CopyFile, Exists, Rollouts
<1>3. toRead' = toRead /\ read' = read /\ pc' = pc /\ known' = known /\ used' = used /\ blank' = blank
  BY WritesKeep DEF CopyFile
<1>4. records' \in Int /\ records' >= records
  BY WritesKeep DEF CopyFile, Typed
<1>5. \A c \in Children : Held(c)' \in SUBSET Held(c)
  BY <1>1, <1>3 DEF Held, FilesOf
<1>6. Ordered'
  BY <1>3, <1>4, <1>5, OrderKept DEF Counted
<1>7. roll[g].tokens = NoUsage
  BY <1>2 DEF Counted, Found
<1>8. \A h \in Files : roll'[h].lines = 0 => roll'[h].tokens = NoUsage
  BY <1>1, <1>2 DEF Counted, Found
<1>9. \A h \in Files : \A k \in Nat \ {0} : roll[h].tokens >= k => roll'[h].tokens >= k
  BY <1>1, <1>7 DEF NoUsage
<1>10. Found'
  BY <1>3, <1>8, <1>9, FoundKept DEF Counted, Typed, FilesOf
<1> QED
  BY <1>6, <1>10 DEF Counted

LEMMA CountedSpoil ==
    ASSUME Typed, Counted, NEW f \in Files, SpoilChild(f)
    PROVE  Counted'
<1>1. /\ roll' = [roll EXCEPT ![f].corrupt = @ + 1, ![f].lines = @ + 1]
      /\ roll \in [Files -> Rollouts] /\ roll[f].lines > 0
  BY DEF SpoilChild, Typed, Exists
<1>2. \A g \in Files : /\ roll'[g].time = roll[g].time /\ roll'[g].tokens = roll[g].tokens
                       /\ roll'[g].lines = 0 => roll[g].lines = 0
  <2>1. \A g \in Files : roll[g].lines \in Nat
    BY <1>1 DEF Rollouts
  <2>2. \A g \in Files : g # f => roll'[g] = roll[g]
    BY <1>1
  <2>3. roll'[f].time = roll[f].time /\ roll'[f].tokens = roll[f].tokens /\ roll'[f].lines = roll[f].lines + 1
    BY <1>1 DEF Rollouts
  <2> QED
    BY <2>1, <2>2, <2>3
<1>3. toRead' = toRead /\ read' = read /\ pc' = pc /\ known' = known /\ used' = used /\ blank' = blank
  BY WritesKeep DEF SpoilChild
<1>4. records' \in Int /\ records' >= records
  BY WritesKeep DEF SpoilChild, Typed
<1>5. \A c \in Children : Held(c)' \in SUBSET Held(c)
  BY <1>2, <1>3 DEF Held, FilesOf
<1>6. Ordered'
  BY <1>3, <1>4, <1>5, OrderKept DEF Counted
<1>7. Found'
  BY <1>2, <1>3, FoundKept DEF Counted, Found, Typed, FilesOf
<1> QED
  BY <1>6, <1>7 DEF Counted

LEMMA CountedBegin ==
    ASSUME Typed, Counted, Begin
    PROVE  Counted'
<1>1. /\ roll' = roll /\ used' = used /\ blank' = blank /\ records' = records /\ read' = read
      /\ pc = "idle" /\ pc' = "reading" /\ toRead' = {f \in Files : Exists(f)}
  BY DEF Begin, world
<1>2. \A c \in Children :
        known'[c] = Max({0} \cup {roll[f].tokens : f \in {g \in Files : Child[g] = c}})
  BY DEF Begin
<1>3. \A c \in Children : Held(c)' \in SUBSET Held(c)
  BY <1>1 DEF Held, FilesOf
<1>4. Ordered'
  BY <1>1, <1>3, OrderKept DEF Counted, Typed
<1>5. ASSUME NEW c \in Children, known'[c] > 0
      PROVE \E g \in FilesOf(c) : g \in toRead' /\ roll'[g].tokens >= known'[c]
  <2>1. known'[c] \in {0} \cup {roll[f].tokens : f \in {g \in Files : Child[g] = c}} /\ known'[c] \in Nat
    BY <1>2, Begun
  <2>2. PICK g \in FilesOf(c) : roll[g].tokens = known'[c]
    BY <1>5, <2>1 DEF FilesOf
  <2>3. roll[g].lines # 0 /\ roll[g].lines \in Nat /\ g \in Files
    BY <1>5, <2>2 DEF Counted, Found, Typed, Rollouts, FilesOf, NoUsage
  <2>4. g \in toRead'
    BY <1>1, <2>3 DEF Exists
  <2> QED
    BY <1>1, <2>1, <2>2, <2>4
<1>6. DOMAIN read = {} /\ \A f \in Files : roll[f].lines = 0 => roll[f].tokens = NoUsage
  BY <1>1 DEF Counted, Found
<1>7. Found'
  BY <1>1, <1>5, <1>6 DEF Found, FilesOf
<1> QED
  BY <1>4, <1>7 DEF Counted

LEMMA CountedRead ==
    ASSUME Typed, Counted, NEW f \in Files, ReadFile(f)
    PROVE  Counted'
<1>1. /\ roll' = roll /\ used' = used /\ blank' = blank /\ records' = records /\ pc' = pc /\ known' = known
      /\ f \in toRead /\ toRead' = toRead \ {f}
      /\ read' = [g \in DOMAIN read \cup {f} |-> IF g = f THEN roll[f] ELSE read[g]]
  BY DEF ReadFile, world
<1>2. \A c \in Children : Held(c)' \in SUBSET Held(c)
  BY <1>1 DEF Held, FilesOf
<1>3. Ordered'
  BY <1>1, <1>2, OrderKept DEF Counted, Typed
<1>4. pc = "reading" /\ toRead \cap DOMAIN read = {}
  BY <1>1 DEF Typed, Counted, Found
<1>5. DOMAIN read' = DOMAIN read \cup {f} /\ read'[f] = roll[f] /\ \A g \in DOMAIN read : read'[g] = read[g]
  BY <1>1, <1>4
<1>6. ASSUME NEW c \in Children \ blank, known[c] > 0
      PROVE \E g \in FilesOf(c) : \/ g \in toRead' /\ roll'[g].tokens >= known'[c]
                                  \/ g \in DOMAIN read' /\ read'[g].tokens >= known'[c]
  <2>1. PICK g \in FilesOf(c) : \/ g \in toRead /\ roll[g].tokens >= known[c]
                                \/ g \in DOMAIN read /\ read[g].tokens >= known[c]
    BY <1>4, <1>6 DEF Counted, Found
  <2>2. CASE g = f
    BY <1>1, <1>4, <1>5, <2>1, <2>2
  <2>3. CASE g # f
    BY <1>1, <1>5, <2>1, <2>3
  <2> QED
    BY <2>2, <2>3
<1>7. toRead' \cap DOMAIN read' = {}
  BY <1>1, <1>4, <1>5
<1>8. Found'
  BY <1>1, <1>4, <1>6, <1>7 DEF Counted, Found, FilesOf
<1> QED
  BY <1>3, <1>8 DEF Counted

LEMMA CountedEstimate ==
    ASSUME Typed, Counted, Estimate
    PROVE  Counted'
<1>1. /\ roll' = roll /\ used' = used /\ blank' = blank /\ records' = records /\ known' = known
      /\ toRead' = toRead /\ read' = read /\ pc = "reading" /\ pc' = "done"
  BY DEF Estimate, world
<1>2. \A c \in Children : Held(c)' \in SUBSET Held(c)
  BY <1>1 DEF Held, FilesOf
<1>3. Ordered'
  BY <1>1, <1>2, OrderKept DEF Counted, Typed
<1>4. Found'
  BY <1>1 DEF Counted, Found, FilesOf
<1> QED
  BY <1>3, <1>4 DEF Counted

LEMMA CountedStep == Typed /\ Counted /\ [Next]_vars => Counted'
<1> SUFFICES ASSUME Typed, Counted, [Next]_vars PROVE Counted'
  OBVIOUS
<1>1. ASSUME UNCHANGED vars PROVE Counted'
  BY <1>1, CountedRoot DEF vars, world
<1>2. ASSUME NEW n \in Steps, RootTurn(n) PROVE Counted'
  BY <1>2, CountedRoot, WritesKeep DEF RootTurn
<1>3. ASSUME NEW k \in Kinds, Spawn(k) PROVE Counted'
  BY <1>3, CountedRoot, WritesKeep DEF Spawn
<1>4. CASE SpoilRoot
  BY <1>4, CountedRoot, WritesKeep DEF SpoilRoot
<1>5. CASE Ended
  BY <1>1, <1>5 DEF Ended
<1> QED
  BY <1>1, <1>2, <1>3, <1>4, <1>5, CountedTurn, CountedCopy, CountedSpoil, CountedRead, CountedBegin,
     CountedEstimate DEF Next

LEMMA CountedAlways == Spec => [](Typed /\ Made /\ Counted)
<1>1. Typed /\ Counted /\ [Next]_vars => Counted'
  BY CountedStep
<1>2. Init => Counted
  BY CountedInit
<1> QED
  BY <1>1, <1>2, TypedAlways, PTL DEF Spec

(* The tokens of the children's evidence, as a sum over the files in use.  *)
LEMMA ChildrenTotal ==
    ASSUME NEW r, Readable(r), NEW kept \in SUBSET DOMAIN r, NEW cut
    PROVE  LET F == [f \in Usable(r, kept) |-> r[f].tokens] IN
           Total(FromChildren(r, cut, kept)) = SumFunctionOnSet(F, Usable(r, kept))
<1> DEFINE U == Usable(r, kept)
           S == Single(r, kept)
           F == [f \in U |-> r[f].tokens]
           b == [f \in S |-> [model |-> CHOOSE m \in r[f].models : TRUE, tokens |-> r[f].tokens]]
           G == [f \in S |-> b[f].tokens]
           H == [f \in U \ S |-> r[f].tokens]
           e == FromChildren(r, cut, kept)
<1>1. IsFiniteSet(U) /\ S \in SUBSET U /\ \A f \in U : r[f].tokens \in Nat
  BY KeptUsage
<1>2. e.buckets = b /\ e.unknown = Mixed(r, kept)
  BY EvidenceFields DEF FromChildren
<1>3. DOMAIN b = S /\ DOMAIN G = S /\ DOMAIN H = U \ S
  OBVIOUS
<1>4. Tokens(e, DOMAIN e.buckets) = SumFunctionOnSet(G, S)
  BY <1>2, <1>3 DEF Tokens, SumFunction
<1>5. Mixed(r, kept) = SumFunctionOnSet(H, U \ S)
  BY <1>3 DEF Mixed, SumFunction
<1>6. \A f \in U : F[f] \in Int
  BY <1>1
<1>7. \A f \in S : G[f] \in Int /\ F[f] = G[f]
  BY <1>1
<1>8. \A f \in U \ S : H[f] \in Int /\ F[f] = H[f]
  BY <1>1
<1>9. IsFiniteSet(S) /\ IsFiniteSet(U \ S)
  BY <1>1, FS_Subset
<1> HIDE DEF U, S, F, G, H, e, b
<1>10. SumFunctionOnSet(G, S) = SumFunctionOnSet(F, S)
  BY <1>7, <1>9, SumEqual
<1>11. SumFunctionOnSet(H, U \ S) = SumFunctionOnSet(F, U \ S)
  <2> DEFINE R == U \ S
  <2>1. IsFiniteSet(R) /\ \A f \in R : H[f] \in Int /\ F[f] = H[f]
    BY <1>8, <1>9
  <2> HIDE DEF R
  <2>2. SumFunctionOnSet(H, R) = SumFunctionOnSet(F, R)
    BY <2>1, SumEqual
  <2> QED
    BY <2>2 DEF R
<1>12. SumFunctionOnSet(F, U) = SumFunctionOnSet(F, S) + SumFunctionOnSet(F, U \ S)
  BY <1>1, <1>6, SumSplit
<1>13. Total(e) = SumFunctionOnSet(F, U)
  BY <1>2, <1>4, <1>5, <1>10, <1>11, <1>12 DEF Total
<1> QED
  BY <1>13 DEF e, F, U

LEMMA ChildrenFinite == IsFiniteSet(Children)
<1> DEFINE F == [f \in Files |-> Child[f]]
<1>1. F \in Surjection(Files, Children)
  BY DEF Surjection, Children
<1> HIDE DEF F
<1> QED
  BY <1>1, FiniteAssumption, FS_Surjection

(* The count that is made of a child is the largest that was read of it.   *)
LEMMA ChosenIsLargest ==
    ASSUME Typed, Counted, linked, pc = "done", NEW order \in SetToSeqs(DOMAIN read),
           NEW c \in Children \ blank, known[c] > 0
    PROVE  LET f == Chosen(read, order, c) IN
           /\ f \in Usable(read, Kept(read, order)) /\ Child[f] = c /\ read[f].tokens >= known[c]
<1> DEFINE f == Chosen(read, order, c)
<1>1. toRead = {} /\ Readable(read) /\ known[c] \in Nat
  BY DEF Typed
<1>2. PICK g \in FilesOf(c) : g \in DOMAIN read /\ read[g].tokens >= known[c]
  BY <1>1 DEF Counted, Found
<1>3. Child[g] = c
  BY DEF FilesOf
<1>4. Newest(read, c, f) /\ f \in Kept(read, order)
  BY <1>1, <1>2, <1>3, KeptFiles
<1>5. f \in DOMAIN read /\ Child[f] = c /\ f \in FilesOf(c)
  BY <1>1, <1>4 DEF Newest, Readable, FilesOf
<1>6. read[f] \in Rollouts /\ read[g] \in Rollouts
  BY <1>1, <1>2, <1>5 DEF Readable
<1>7. read[g].time <= read[f].time
  <2>1. f = g \/ Newer(read, f, g)
    BY <1>2, <1>3, <1>4 DEF Newest
  <2> QED
    BY <1>6, <2>1 DEF Newer, Rollouts
<1>8. <<read[f].time, read[f].tokens>> \in Held(c) /\ <<read[g].time, read[g].tokens>> \in Held(c)
  BY <1>2, <1>5 DEF Held
<1>9. read[g].tokens <= read[f].tokens
  BY <1>7, <1>8 DEF Counted, Ordered
<1>10. read[f].tokens \in Int /\ read[g].tokens \in Int
  BY <1>6 DEF Rollouts, NoUsage
<1>11. read[f].tokens >= known[c] /\ read[f].tokens # NoUsage
  BY <1>1, <1>2, <1>9, <1>10 DEF NoUsage
<1> QED
  BY <1>4, <1>5, <1>11 DEF Usable

(* However its file was copied and whatever was written meanwhile, a child *)
(* counts once: no more than it has used, no less than it had when the     *)
(* estimator began.                                                        *)
THEOREM EachChildOnce == Spec => []ChildrenCountOnce
<1>1. Typed /\ Made /\ Counted => ChildrenCountOnce
  <2> SUFFICES ASSUME Typed, Made, Counted, pc = "done", out.usage = "detailed"
               PROVE  /\ Total(out) <= SumFunction(used)
                      /\ Total(out) >= SumFunctionOnSet(known, Children \ blank)
    BY DEF ChildrenCountOnce
  <2>1. PICK order \in SetToSeqs(DOMAIN read) : out = Normalize(read, torn, order)
    BY DEF Made
  <2> DEFINE kept == Kept(read, order)
             U == Usable(read, kept)
             F == [f \in U |-> read[f].tokens]
             rest == Children \ blank
             K == {c \in rest : known[c] > 0}
  <2>2. /\ Readable(read) /\ used \in [Children -> Nat] /\ known \in [Children -> Nat]
        /\ blank \in SUBSET Children
    BY DEF Typed
  <2>3. kept \in SUBSET DOMAIN read /\ \A f \in kept : Newest(read, Child[f], f)
    BY <2>2, KeptFiles
  <2>4. Single(read, kept) # {} /\ out = FromChildren(read, torn, kept)
    <3>1. out = From(read, torn, kept)
      BY <2>1, NormalizeIs
    <3> HIDE DEF kept
    <3>2. FromSession.usage = "session" /\ FromRouting(read, kept).usage = "none"
      BY DEF FromSession, FromRouting, Evidence, Usage
    <3> QED
      BY <3>1, <3>2 DEF From
  <2>5. IsFiniteSet(U) /\ U \in SUBSET kept /\ \A f \in U : read[f].tokens \in Nat
    BY <2>2, <2>3, KeptUsage
  <2>6. linked
    BY <2>4 DEF Kept, Single, Usable, Typed
  <2>7. Total(out) = SumFunctionOnSet(F, U)
    <3> HIDE DEF kept
    <3> QED
      BY <2>2, <2>3, <2>4, ChildrenTotal
  <2>8. IsFiniteSet(Children) /\ IsFiniteSet(rest) /\ IsFiniteSet(K)
    BY ChildrenFinite, FS_Subset
  <2>9. \A f \in U : F[f] \in Nat /\ F[f] <= used[Child[f]] /\ Child[f] \in Children
    <3> SUFFICES ASSUME NEW f \in U PROVE F[f] \in Nat /\ F[f] <= used[Child[f]] /\ Child[f] \in Children
      OBVIOUS
    <3>1. f \in Files /\ f \in DOMAIN read
      BY <2>2, <2>3, <2>5 DEF Readable
    <3>2. <<read[f].time, read[f].tokens>> \in Held(Child[f]) /\ Child[f] \in Children
      BY <3>1, ChildIn DEF Held, FilesOf
    <3>3. read[f].tokens <= used[Child[f]]
      BY <3>2 DEF Counted, Ordered
    <3> QED
      BY <2>5, <3>2, <3>3
  <2>10. SumFunctionOnSet(F, U) <= SumFunction(used)
    <3> DEFINE to == [f \in U |-> Child[f]]
    <3>1. to \in [U -> Children] /\ \A f \in U : to[f] = Child[f]
      BY <2>9
    <3>2. \A f, g \in U : to[f] = to[g] => f = g
      BY <2>2, <2>3, <2>5, <3>1, OneNewest
    <3>3. \A f \in U : F[f] \in Int /\ F[f] <= used[to[f]]
      BY <2>9, <3>1
    <3>4. \A c \in Children : used[c] \in Nat
      BY <2>2
    <3> HIDE DEF to, F, U
    <3>5. SumFunctionOnSet(F, U) <= SumFunctionOnSet(used, Children)
      BY <2>5, <2>8, <3>1, <3>2, <3>3, <3>4, SumInto
    <3>6. DOMAIN used = Children
      BY <2>2
    <3> QED
      BY <3>5, <3>6 DEF SumFunction
  <2>11. SumFunctionOnSet(known, K) <= SumFunctionOnSet(F, U)
    <3> DEFINE to == [c \in K |-> Chosen(read, order, c)]
    <3>1. \A c \in K : to[c] \in U /\ Child[to[c]] = c /\ read[to[c]].tokens >= known[c]
      BY <2>6, ChosenIsLargest
    <3>2. to \in [K -> U] /\ \A c, d \in K : to[c] = to[d] => c = d
      BY <3>1
    <3>3. \A c \in K : known[c] \in Int /\ known[c] <= F[to[c]]
      <4> SUFFICES ASSUME NEW c \in K PROVE known[c] \in Int /\ known[c] <= F[to[c]]
        OBVIOUS
      <4>1. to[c] \in U /\ read[to[c]].tokens >= known[c] /\ known[c] \in Nat
        BY <2>2, <3>1
      <4> HIDE DEF to, U
      <4>2. F[to[c]] = read[to[c]].tokens /\ read[to[c]].tokens \in Nat
        BY <2>5, <4>1
      <4> QED
        BY <4>1, <4>2
    <3>4. \A f \in U : F[f] \in Nat
      BY <2>9
    <3> HIDE DEF to, F, U, K
    <3> QED
      BY <2>5, <2>8, <3>2, <3>3, <3>4, SumInto
  <2>12. SumFunctionOnSet(known, rest) = SumFunctionOnSet(known, K)
    <3>1. \A c \in rest : known[c] \in Int
      BY <2>2
    <3>2. K \in SUBSET rest /\ IsFiniteSet(rest \ K)
      BY <2>8, FS_Subset
    <3>3. \A c \in rest \ K : known[c] = 0
      BY <2>2
    <3> HIDE DEF K, rest
    <3>4. SumFunctionOnSet(known, rest) = SumFunctionOnSet(known, K) + SumFunctionOnSet(known, rest \ K)
      BY <2>8, <3>1, <3>2, SumSplit
    <3>5. SumFunctionOnSet(known, rest \ K) = 0
      BY <3>2, <3>3, SumZero
    <3>6. SumFunctionOnSet(known, K) \in Int
      <4>1. \A c \in K : known[c] \in Int
        BY <3>1, <3>2
      <4> QED
        BY <2>8, <4>1, SumInt
    <3> QED
      BY <3>4, <3>5, <3>6
  <2> HIDE DEF F, U, K, rest
  <2> QED
    BY <2>7, <2>10, <2>11, <2>12 DEF rest
<1> QED
  BY <1>1, CountedAlways, PTL
=============================================================================
