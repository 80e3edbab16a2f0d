----------------------------- MODULE FiniteSums -----------------------------
(***************************************************************************)
(* Lemmas on sums over finite sets, and on the largest, the least and the  *)
(* order of the elements of one.  They are about SumFunctionOnSet, Max and *)
(* Min of the community modules, and about nothing of the program.         *)
(*                                                                         *)
(* The sum is a fold, defined by a CHOOSE of a recursive function.  The    *)
(* library's induction theorems take an operator as a parameter; here the  *)
(* induction is on the elements of a set of subsets, as the existence of a *)
(* least one, which LeastSubset has from the well-foundedness of the       *)
(* strict subsets of a finite set.                                         *)
(***************************************************************************)
EXTENDS FiniteSetsExt, FiniteSetTheorems, TLAPS

(* A set of subsets of a finite set has a least element.                   *)
LEMMA LeastSubset ==
    ASSUME NEW S, IsFiniteSet(S), NEW B \in SUBSET (SUBSET S), B # {}
    PROVE  \E T \in B : \A U \in SUBSET T : U # T => U \notin B
<1>1. IsWellFoundedOn(StrictSubsetOrdering(S), SUBSET S)
  BY FS_StrictSubsetOrderingWellFounded, FS_FiniteSubsetsOfFinite
<1>2. PICK T \in B : \A U \in B : <<U, T>> \notin StrictSubsetOrdering(S)
  <2> HIDE DEF StrictSubsetOrdering
  <2> QED
  BY <1>1, WFMin
<1> QED
  BY <1>2 DEF StrictSubsetOrdering

-----------------------------------------------------------------------------
(* The function that a fold of a sum chooses, and that there is one.       *)
Pick(s) == CHOOSE x \in s : TRUE
SumsUp(g, F, S) == g = [s \in SUBSET S |-> IF s = {} THEN 0 ELSE F[Pick(s)] + g[s \ {Pick(s)}]]
Sums(F, S) == CHOOSE g : SumsUp(g, F, S)


LEMMA SumIsSums == \A F, S : SumFunctionOnSet(F, S) = Sums(F, S)[S]
BY DEF SumFunctionOnSet, FoldFunctionOnSet, MapThenFoldSet, Sums, SumsUp, Pick

LEMMA PickIn == \A s : s # {} => Pick(s) \in s
BY DEF Pick

(* Two such functions agree where both are defined.                        *)
LEMMA OneSum ==
    ASSUME NEW F, NEW S, IsFiniteSet(S), NEW A \in SUBSET S, NEW B \in SUBSET S, NEW g, NEW h,
           SumsUp(g, F, A), SumsUp(h, F, B), NEW s \in SUBSET (A \cap B)
    PROVE  g[s] = h[s]
<1> DEFINE Bad == {T \in SUBSET (A \cap B) : g[T] # h[T]}
<1>1. SUFFICES ASSUME Bad # {} PROVE FALSE
  OBVIOUS
<1>2. PICK T \in Bad : \A U \in SUBSET T : U # T => U \notin Bad
  <2> HIDE DEF Bad
  <2>1. Bad \in SUBSET (SUBSET S)
    BY DEF Bad
  <2> QED
  BY <1>1, <2>1, LeastSubset
<1>3. CASE T = {}
  BY <1>3 DEF SumsUp
<1>4. CASE T # {}
  <2>1. g[T \ {Pick(T)}] = h[T \ {Pick(T)}]
    BY <1>2, <1>4, PickIn
  <2> QED
    BY <1>4, <2>1 DEF SumsUp
<1> QED
  BY <1>3, <1>4

(* Were there a set without, the functions of its strict subsets would     *)
(* make one for it.                                                        *)
LEMMA SumsExist ==
    ASSUME NEW F, NEW S, IsFiniteSet(S)
    PROVE  SumsUp(Sums(F, S), F, S)
<1> DEFINE Bad == {T \in SUBSET S : ~ SumsUp(Sums(F, T), F, T)}
<1>1. SUFFICES ASSUME Bad # {} PROVE FALSE
  OBVIOUS
<1>2. PICK T \in Bad : \A U \in SUBSET T : U # T => U \notin Bad
  <2> HIDE DEF Bad
  <2>1. Bad \in SUBSET (SUBSET S)
    BY DEF Bad
  <2> QED
  BY <1>1, <2>1, LeastSubset
<1>3. \A U \in SUBSET T : U # T => SumsUp(Sums(F, U), F, U)
  BY <1>2
<1> DEFINE rest(s) == s \ {Pick(s)}
           g == [s \in SUBSET T |-> IF s = {} THEN 0 ELSE F[Pick(s)] + Sums(F, rest(s))[rest(s)]]
<1>4. ASSUME NEW U \in SUBSET T, U # T PROVE g[U] = Sums(F, U)[U]
  <2>1. SumsUp(Sums(F, U), F, U)
    BY <1>3, <1>4
  <2>2. CASE U = {}
    BY <2>1, <2>2 DEF SumsUp
  <2>3. CASE U # {}
    <3>1. Pick(U) \in U
      BY <2>3, PickIn
    <3>2. rest(U) \in SUBSET U /\ rest(U) \in SUBSET T /\ rest(U) # T
      BY <3>1
    <3>3. SumsUp(Sums(F, rest(U)), F, rest(U))
      BY <1>3, <3>2
    <3>4. Sums(F, U)[rest(U)] = Sums(F, rest(U))[rest(U)]
      BY <2>1, <3>2, <3>3, OneSum
    <3>5. g[U] = F[Pick(U)] + Sums(F, rest(U))[rest(U)]
      BY <2>3
    <3>6. Sums(F, U)[U] = F[Pick(U)] + Sums(F, U)[rest(U)]
      BY <2>1, <2>3 DEF SumsUp
    <3> QED
      BY <3>4, <3>5, <3>6
  <2> QED
    BY <2>2, <2>3
<1>5. SumsUp(g, F, T)
  <2>1. ASSUME NEW s \in SUBSET T, s # {} PROVE g[s \ {Pick(s)}] = Sums(F, rest(s))[rest(s)]
    <3>1. rest(s) \in SUBSET T /\ rest(s) # T
      BY <2>1, PickIn
    <3> QED
      BY <1>4, <3>1
  <2> QED
    BY <2>1 DEF SumsUp
<1>6. SumsUp(Sums(F, T), F, T)
  BY <1>5 DEF Sums
<1> QED
  BY <1>2, <1>6

-----------------------------------------------------------------------------
(* Induction on a finite set: what holds of the empty set and is kept when *)
(* an element is added holds of the set.  Good is the set of the subsets   *)
(* that it holds of.                                                       *)
LEMMA SetInduction ==
    ASSUME NEW S, IsFiniteSet(S), NEW Good, {} \in Good,
           \A T \in SUBSET S : T \in Good => \A x \in S \ T : T \cup {x} \in Good
    PROVE  S \in Good
<1> DEFINE Bad == {T \in SUBSET S : T \notin Good}
<1>1. SUFFICES ASSUME Bad # {} PROVE FALSE
  OBVIOUS
<1>2. PICK T \in Bad : \A U \in SUBSET T : U # T => U \notin Bad
  <2> HIDE DEF Bad
  <2>1. Bad \in SUBSET (SUBSET S)
    BY DEF Bad
  <2> QED
    BY <1>1, <2>1, LeastSubset
<1>3. PICK x \in T : TRUE
  BY <1>2
<1>4. T \ {x} \in Good /\ T \ {x} \in SUBSET S /\ x \in S \ (T \ {x})
  BY <1>2, <1>3
<1>5. T = (T \ {x}) \cup {x}
  BY <1>3
<1> QED
  BY <1>2, <1>4, <1>5

-----------------------------------------------------------------------------
(* The sum of nothing; the sum of a set, element by element, in any order. *)
LEMMA SumEmpty == \A F : SumFunctionOnSet(F, {}) = 0
<1>1. ASSUME NEW F PROVE SumFunctionOnSet(F, {}) = 0
  <2>1. SumsUp(Sums(F, {}), F, {})
    BY FS_EmptySet, SumsExist
  <2> QED
    BY <2>1, SumIsSums DEF SumsUp
<1> QED
  BY <1>1

LEMMA SumPicks ==
    ASSUME NEW F, NEW S, IsFiniteSet(S), S # {}
    PROVE  SumFunctionOnSet(F, S) = F[Pick(S)] + SumFunctionOnSet(F, S \ {Pick(S)})
<1> DEFINE R == S \ {Pick(S)}
<1>1. IsFiniteSet(R) /\ R \in SUBSET S
  BY FS_Subset
<1>2. SumsUp(Sums(F, S), F, S) /\ SumsUp(Sums(F, R), F, R)
  BY <1>1, SumsExist
<1>3. Sums(F, S)[S] = F[Pick(S)] + Sums(F, S)[R]
  BY <1>2 DEF SumsUp
<1>4. Sums(F, S)[R] = Sums(F, R)[R]
  <2> HIDE DEF R
  <2> QED
    BY <1>1, <1>2, OneSum
<1> QED
  BY <1>3, <1>4, SumIsSums

LEMMA SumInt ==
    ASSUME NEW F, NEW S, IsFiniteSet(S), \A x \in S : F[x] \in Int
    PROVE  SumFunctionOnSet(F, S) \in Int
<1> DEFINE Bad == {T \in SUBSET S : SumFunctionOnSet(F, T) \notin Int}
<1>1. SUFFICES ASSUME Bad # {} PROVE FALSE
  OBVIOUS
<1>2. PICK T \in Bad : \A U \in SUBSET T : U # T => U \notin Bad
  <2> HIDE DEF Bad
  <2>1. Bad \in SUBSET (SUBSET S)
    BY DEF Bad
  <2> QED
    BY <1>1, <2>1, LeastSubset
<1>3. T # {}
  <2>1. SumFunctionOnSet(F, {}) \in Int
    BY SumEmpty
  <2>2. SumFunctionOnSet(F, T) \notin Int
    BY <1>2
  <2> QED
    BY <2>1, <2>2
<1>4. Pick(T) \in T /\ IsFiniteSet(T)
  BY <1>2, <1>3, PickIn, FS_Subset
<1>5. SumFunctionOnSet(F, T \ {Pick(T)}) \in Int
  BY <1>2, <1>4
<1>6. F[Pick(T)] \in Int
  BY <1>2, <1>4
<1>7. SumFunctionOnSet(F, T) = F[Pick(T)] + SumFunctionOnSet(F, T \ {Pick(T)})
  BY <1>3, <1>4, SumPicks
<1> QED
  BY <1>2, <1>5, <1>6, <1>7

LEMMA SumWithout ==
    ASSUME NEW F, NEW S, IsFiniteSet(S), \A x \in S : F[x] \in Int, NEW x \in S
    PROVE  SumFunctionOnSet(F, S) = F[x] + SumFunctionOnSet(F, S \ {x})
<1> DEFINE Fine(T) == \A y \in T : SumFunctionOnSet(F, T) = F[y] + SumFunctionOnSet(F, T \ {y})
           Bad == {T \in SUBSET S : ~Fine(T)}
<1>1. SUFFICES ASSUME Bad # {} PROVE FALSE
  OBVIOUS
<1>2. PICK T \in Bad : \A U \in SUBSET T : U # T => U \notin Bad
  <2> HIDE DEF Bad
  <2>1. Bad \in SUBSET (SUBSET S)
    BY DEF Bad
  <2> QED
    BY <1>1, <2>1, LeastSubset
<1>3. PICK y \in T : SumFunctionOnSet(F, T) # F[y] + SumFunctionOnSet(F, T \ {y})
  BY <1>2
<1> DEFINE p == Pick(T)
<1>4. p \in T /\ T \in SUBSET S /\ IsFiniteSet(T)
  BY <1>2, <1>3, PickIn, FS_Subset
<1>5. SumFunctionOnSet(F, T) = F[p] + SumFunctionOnSet(F, T \ {p})
  BY <1>3, <1>4, SumPicks
<1> HIDE DEF p
<1>6. p # y
  BY <1>3, <1>5
<1>7. SumFunctionOnSet(F, T \ {p}) = F[y] + SumFunctionOnSet(F, (T \ {p}) \ {y})
  <2>1. Fine(T \ {p})
    BY <1>2, <1>4
  <2> QED
    BY <1>3, <1>6, <2>1
<1>8. SumFunctionOnSet(F, T \ {y}) = F[p] + SumFunctionOnSet(F, (T \ {y}) \ {p})
  <2>1. Fine(T \ {y})
    BY <1>2, <1>3, <1>4
  <2> QED
    BY <1>4, <1>6, <2>1
<1>9. (T \ {p}) \ {y} = (T \ {y}) \ {p}
  OBVIOUS
<1>10. SumFunctionOnSet(F, (T \ {p}) \ {y}) \in Int
  <2>1. IsFiniteSet((T \ {p}) \ {y}) /\ \A z \in (T \ {p}) \ {y} : F[z] \in Int
    BY <1>4, FS_Subset
  <2> QED
    BY <2>1, SumInt
<1>11. F[p] \in Int /\ F[y] \in Int
  BY <1>3, <1>4
<1>12. \A a, b, c \in Int : a + (b + c) = b + (a + c)
  OBVIOUS
<1>13. F[p] + SumFunctionOnSet(F, T \ {p}) = F[y] + SumFunctionOnSet(F, T \ {y})
  <2> DEFINE r == SumFunctionOnSet(F, (T \ {p}) \ {y})
  <2>1. SumFunctionOnSet(F, T \ {y}) = F[p] + r
    BY <1>8, <1>9
  <2>2. SumFunctionOnSet(F, T \ {p}) = F[y] + r
    BY <1>7
  <2>3. F[p] + (F[y] + r) = F[y] + (F[p] + r)
    BY <1>10, <1>11, <1>12
  <2> QED
    BY <2>1, <2>2, <2>3
<1> QED
  BY <1>3, <1>5, <1>13

LEMMA SumWith ==
    ASSUME NEW F, NEW S, IsFiniteSet(S), NEW x, x \notin S, \A y \in S \cup {x} : F[y] \in Int
    PROVE  SumFunctionOnSet(F, S \cup {x}) = F[x] + SumFunctionOnSet(F, S)
<1>1. IsFiniteSet(S \cup {x}) /\ (S \cup {x}) \ {x} = S
  BY FS_AddElement
<1> QED
  BY <1>1, SumWithout

-----------------------------------------------------------------------------
(* Sums of functions that are compared, equal, added and multiplied point  *)
(* by point.                                                               *)
LEMMA SumMonotone ==
    ASSUME NEW F, NEW G, NEW S, IsFiniteSet(S),
           \A x \in S : F[x] \in Int /\ G[x] \in Int /\ F[x] <= G[x]
    PROVE  SumFunctionOnSet(F, S) <= SumFunctionOnSet(G, S)
<1> DEFINE Good == {T \in SUBSET S : SumFunctionOnSet(F, T) <= SumFunctionOnSet(G, T)}
<1>1. {} \in Good
  BY SumEmpty
<1>2. ASSUME NEW T \in SUBSET S, T \in Good, NEW x \in S \ T PROVE T \cup {x} \in Good
  <2>1. IsFiniteSet(T) /\ T \cup {x} \in SUBSET S
    BY FS_Subset
  <2>2. /\ SumFunctionOnSet(F, T \cup {x}) = F[x] + SumFunctionOnSet(F, T)
        /\ SumFunctionOnSet(G, T \cup {x}) = G[x] + SumFunctionOnSet(G, T)
    BY <2>1, SumWith
  <2>3. SumFunctionOnSet(F, T) \in Int /\ SumFunctionOnSet(G, T) \in Int
    BY <2>1, SumInt
  <2>4. SumFunctionOnSet(F, T) <= SumFunctionOnSet(G, T)
    BY <1>2
  <2>5. \A a, b, c, d \in Int : a <= b /\ c <= d => a + c <= b + d
    OBVIOUS
  <2>6. F[x] + SumFunctionOnSet(F, T) <= G[x] + SumFunctionOnSet(G, T)
    BY <2>3, <2>4, <2>5
  <2> QED
    BY <2>1, <2>2, <2>6
<1>3. S \in Good
  <2> HIDE DEF Good
  <2> QED
    BY <1>1, <1>2, SetInduction
<1> QED
  BY <1>3

LEMMA SumEqual ==
    ASSUME NEW F, NEW G, NEW S, IsFiniteSet(S), \A x \in S : F[x] \in Int /\ G[x] = F[x]
    PROVE  SumFunctionOnSet(F, S) = SumFunctionOnSet(G, S)
<1>1. SumFunctionOnSet(F, S) \in Int /\ SumFunctionOnSet(G, S) \in Int
  BY SumInt
<1>2. SumFunctionOnSet(F, S) <= SumFunctionOnSet(G, S) /\ SumFunctionOnSet(G, S) <= SumFunctionOnSet(F, S)
  BY SumMonotone
<1>3. \A a, b \in Int : a <= b /\ b <= a => a = b
  OBVIOUS
<1> QED
  BY <1>1, <1>2, <1>3

LEMMA SumPlus ==
    ASSUME NEW F, NEW G, NEW H, NEW S, IsFiniteSet(S),
           \A x \in S : F[x] \in Int /\ G[x] \in Int /\ H[x] = F[x] + G[x]
    PROVE  SumFunctionOnSet(H, S) = SumFunctionOnSet(F, S) + SumFunctionOnSet(G, S)
<1> DEFINE Good == {T \in SUBSET S :
                      SumFunctionOnSet(H, T) = SumFunctionOnSet(F, T) + SumFunctionOnSet(G, T)}
<1>1. {} \in Good
  BY SumEmpty
<1>2. ASSUME NEW T \in SUBSET S, T \in Good, NEW x \in S \ T PROVE T \cup {x} \in Good
  <2>1. IsFiniteSet(T) /\ T \cup {x} \in SUBSET S
    BY FS_Subset
  <2>2. \A y \in S : H[y] \in Int
    OBVIOUS
  <2>3. /\ SumFunctionOnSet(F, T \cup {x}) = F[x] + SumFunctionOnSet(F, T)
        /\ SumFunctionOnSet(G, T \cup {x}) = G[x] + SumFunctionOnSet(G, T)
        /\ SumFunctionOnSet(H, T \cup {x}) = H[x] + SumFunctionOnSet(H, T)
    BY <2>1, <2>2, SumWith
  <2>4. SumFunctionOnSet(F, T) \in Int /\ SumFunctionOnSet(G, T) \in Int
    BY <2>1, SumInt
  <2>5. SumFunctionOnSet(H, T) = SumFunctionOnSet(F, T) + SumFunctionOnSet(G, T)
    BY <1>2
  <2>6. \A a, b, c, d \in Int : (a + b) + (c + d) = (a + c) + (b + d)
    OBVIOUS
  <2>7. H[x] = F[x] + G[x] /\ F[x] \in Int /\ G[x] \in Int
    OBVIOUS
  <2>8. SumFunctionOnSet(H, T \cup {x}) = (F[x] + SumFunctionOnSet(F, T)) + (G[x] + SumFunctionOnSet(G, T))
    BY <2>3, <2>4, <2>5, <2>6, <2>7
  <2> QED
    BY <2>1, <2>3, <2>8
<1>3. S \in Good
  <2> HIDE DEF Good
  <2> QED
    BY <1>1, <1>2, SetInduction
<1> QED
  BY <1>3

LEMMA SumTimes ==
    ASSUME NEW F, NEW H, NEW k \in Int, NEW S, IsFiniteSet(S),
           \A x \in S : F[x] \in Int /\ H[x] = k * F[x]
    PROVE  SumFunctionOnSet(H, S) = k * SumFunctionOnSet(F, S)
<1> DEFINE Good == {T \in SUBSET S : SumFunctionOnSet(H, T) = k * SumFunctionOnSet(F, T)}
<1>1. {} \in Good
  BY SumEmpty
<1>2. ASSUME NEW T \in SUBSET S, T \in Good, NEW x \in S \ T PROVE T \cup {x} \in Good
  <2>1. IsFiniteSet(T) /\ T \cup {x} \in SUBSET S
    BY FS_Subset
  <2>2. \A y \in S : H[y] \in Int
    OBVIOUS
  <2>3. /\ SumFunctionOnSet(F, T \cup {x}) = F[x] + SumFunctionOnSet(F, T)
        /\ SumFunctionOnSet(H, T \cup {x}) = H[x] + SumFunctionOnSet(H, T)
    BY <2>1, <2>2, SumWith
  <2>4. SumFunctionOnSet(F, T) \in Int
    BY <2>1, SumInt
  <2>5. SumFunctionOnSet(H, T) = k * SumFunctionOnSet(F, T)
    BY <1>2
  <2>6. \A a, b \in Int : k * a + k * b = k * (a + b)
    OBVIOUS
  <2>7. H[x] = k * F[x] /\ F[x] \in Int
    OBVIOUS
  <2>8. SumFunctionOnSet(H, T \cup {x}) = k * (F[x] + SumFunctionOnSet(F, T))
    BY <2>3, <2>4, <2>5, <2>6, <2>7
  <2> QED
    BY <2>1, <2>3, <2>8
<1>3. S \in Good
  <2> HIDE DEF Good
  <2> QED
    BY <1>1, <1>2, SetInduction
<1> QED
  BY <1>3

LEMMA SumNat ==
    ASSUME NEW F, NEW S, IsFiniteSet(S), \A x \in S : F[x] \in Nat
    PROVE  SumFunctionOnSet(F, S) \in Nat
<1> DEFINE Good == {T \in SUBSET S : SumFunctionOnSet(F, T) \in Nat}
<1>1. {} \in Good
  <2>1. SumFunctionOnSet(F, {}) \in Nat
    BY SumEmpty
  <2> QED
    BY <2>1
<1>2. ASSUME NEW T \in SUBSET S, T \in Good, NEW x \in S \ T PROVE T \cup {x} \in Good
  <2>1. IsFiniteSet(T) /\ T \cup {x} \in SUBSET S /\ \A y \in T \cup {x} : F[y] \in Int
    BY FS_Subset
  <2>2. SumFunctionOnSet(F, T \cup {x}) = F[x] + SumFunctionOnSet(F, T)
    BY <2>1, SumWith
  <2>3. F[x] \in Nat /\ SumFunctionOnSet(F, T) \in Nat
    BY <1>2
  <2>4. F[x] + SumFunctionOnSet(F, T) \in Nat
    BY <2>3
  <2> QED
    BY <2>1, <2>2, <2>4
<1>3. S \in Good
  <2> HIDE DEF Good
  <2> QED
    BY <1>1, <1>2, SetInduction
<1> QED
  BY <1>3

LEMMA SumZero ==
    ASSUME NEW F, NEW S, IsFiniteSet(S), \A x \in S : F[x] = 0
    PROVE  SumFunctionOnSet(F, S) = 0
<1> DEFINE one == [x \in S |-> 1]
<1>1. \A x \in S : one[x] \in Int /\ F[x] = 0 * one[x]
  OBVIOUS
<1>2. 0 \in Int
  OBVIOUS
<1> HIDE DEF one
<1>3. SumFunctionOnSet(F, S) = 0 * SumFunctionOnSet(one, S)
  BY <1>1, <1>2, SumTimes
<1>4. SumFunctionOnSet(one, S) \in Int
  BY <1>1, SumInt
<1> QED
  BY <1>3, <1>4

-----------------------------------------------------------------------------
(* The sum of a set is that of a part and of the rest.                     *)
LEMMA SumSplit ==
    ASSUME NEW F, NEW S, IsFiniteSet(S), \A x \in S : F[x] \in Int, NEW T \in SUBSET S
    PROVE  SumFunctionOnSet(F, S) = SumFunctionOnSet(F, T) + SumFunctionOnSet(F, S \ T)
<1> DEFINE Good == {U \in SUBSET T :
                      SumFunctionOnSet(F, S) = SumFunctionOnSet(F, U) + SumFunctionOnSet(F, S \ U)}
<1>1. {} \in Good
  <2>1. SumFunctionOnSet(F, S) \in Int /\ S \ {} = S
    BY SumInt
  <2>2. SumFunctionOnSet(F, S) = 0 + SumFunctionOnSet(F, S)
    BY <2>1
  <2>3. SumFunctionOnSet(F, S) = SumFunctionOnSet(F, {}) + SumFunctionOnSet(F, S \ {})
    BY <2>1, <2>2, SumEmpty
  <2> QED
    BY <2>3
<1>2. ASSUME NEW U \in SUBSET T, U \in Good, NEW x \in T \ U PROVE U \cup {x} \in Good
  <2>1. IsFiniteSet(U) /\ IsFiniteSet(S \ U) /\ IsFiniteSet((S \ U) \ {x})
    BY FS_Subset
  <2>2. SumFunctionOnSet(F, U \cup {x}) = F[x] + SumFunctionOnSet(F, U)
    BY <2>1, SumWith
  <2>3. SumFunctionOnSet(F, S \ U) = F[x] + SumFunctionOnSet(F, (S \ U) \ {x})
    BY <2>1, SumWithout
  <2>4. SumFunctionOnSet(F, U) \in Int /\ SumFunctionOnSet(F, (S \ U) \ {x}) \in Int
    BY <2>1, SumInt
  <2>5. SumFunctionOnSet(F, S) = SumFunctionOnSet(F, U) + SumFunctionOnSet(F, S \ U)
    BY <1>2
  <2>6. \A a, b, c \in Int : b + (a + c) = (a + b) + c
    OBVIOUS
  <2>7. F[x] \in Int /\ S \ (U \cup {x}) = (S \ U) \ {x}
    OBVIOUS
  <2>8. SumFunctionOnSet(F, S) = (F[x] + SumFunctionOnSet(F, U)) + SumFunctionOnSet(F, (S \ U) \ {x})
    BY <2>3, <2>4, <2>5, <2>6, <2>7
  <2>9. SumFunctionOnSet(F, S) = SumFunctionOnSet(F, U \cup {x}) + SumFunctionOnSet(F, S \ (U \cup {x}))
    BY <2>2, <2>7, <2>8
  <2> QED
    BY <2>9
<1>3. T \in Good
  <2>1. IsFiniteSet(T)
    BY FS_Subset
  <2> HIDE DEF Good
  <2> QED
    BY <1>1, <1>2, <2>1, SetInduction
<1> QED
  BY <1>3

LEMMA SumPart ==
    ASSUME NEW F, NEW S, IsFiniteSet(S), \A x \in S : F[x] \in Nat, NEW T \in SUBSET S
    PROVE  SumFunctionOnSet(F, T) <= SumFunctionOnSet(F, S)
<1>1. IsFiniteSet(T) /\ IsFiniteSet(S \ T)
  BY FS_Subset
<1>2. SumFunctionOnSet(F, T) \in Nat /\ SumFunctionOnSet(F, S \ T) \in Nat
  BY <1>1, SumNat
<1>3. SumFunctionOnSet(F, S) = SumFunctionOnSet(F, T) + SumFunctionOnSet(F, S \ T)
  BY SumSplit
<1>4. \A a, b \in Nat : a <= a + b
  OBVIOUS
<1> QED
  BY <1>2, <1>3, <1>4

(* A sum of ones counts.                                                   *)
LEMMA SumCount ==
    ASSUME NEW F, NEW S, IsFiniteSet(S), \A x \in S : F[x] = 1
    PROVE  SumFunctionOnSet(F, S) = Cardinality(S)
<1> DEFINE Good == {T \in SUBSET S : SumFunctionOnSet(F, T) = Cardinality(T)}
<1>1. {} \in Good
  BY SumEmpty, FS_EmptySet
<1>2. ASSUME NEW T \in SUBSET S, T \in Good, NEW x \in S \ T PROVE T \cup {x} \in Good
  <2>1. IsFiniteSet(T) /\ T \cup {x} \in SUBSET S /\ \A y \in T \cup {x} : F[y] \in Int
    BY FS_Subset
  <2>2. SumFunctionOnSet(F, T \cup {x}) = F[x] + SumFunctionOnSet(F, T)
    BY <2>1, SumWith
  <2>3. Cardinality(T) \in Nat /\ Cardinality(T \cup {x}) = Cardinality(T) + 1
    BY <2>1, FS_CardinalityType, FS_AddElement
  <2>4. F[x] = 1 /\ SumFunctionOnSet(F, T) = Cardinality(T)
    BY <1>2
  <2>5. SumFunctionOnSet(F, T \cup {x}) = Cardinality(T \cup {x})
    BY <2>2, <2>3, <2>4
  <2> QED
    BY <2>1, <2>5
<1>3. S \in Good
  <2> HIDE DEF Good
  <2> QED
    BY <1>1, <1>2, SetInduction
<1> QED
  BY <1>3

(* A sum is no larger than one that its set has an injection into, each    *)
(* element to one that is no smaller.                                      *)
LEMMA SumInto ==
    ASSUME NEW F, NEW S, IsFiniteSet(S), NEW G, NEW C, IsFiniteSet(C), NEW to \in [S -> C],
           \A x, y \in S : to[x] = to[y] => x = y,
           \A x \in S : F[x] \in Int /\ F[x] <= G[to[x]], \A z \in C : G[z] \in Nat
    PROVE  SumFunctionOnSet(F, S) <= SumFunctionOnSet(G, C)
<1> DEFINE im(T) == {to[x] : x \in T}
           Good == {T \in SUBSET S : IsFiniteSet(im(T)) /\ SumFunctionOnSet(F, T) <= SumFunctionOnSet(G, im(T))}
<1>1. {} \in Good
  <2>1. im({}) = {}
    OBVIOUS
  <2> QED
    BY <2>1, SumEmpty, FS_EmptySet
<1>2. ASSUME NEW T \in SUBSET S, T \in Good, NEW x \in S \ T PROVE T \cup {x} \in Good
  <2>1. IsFiniteSet(T) /\ T \cup {x} \in SUBSET S
    BY FS_Subset
  <2>2. im(T \cup {x}) = im(T) \cup {to[x]} /\ to[x] \notin im(T) /\ im(T \cup {x}) \in SUBSET C
    <3>1. im(T \cup {x}) = im(T) \cup {to[x]}
      OBVIOUS
    <3>2. to[x] \notin im(T)
      OBVIOUS
    <3> QED
      BY <3>1, <3>2
  <2>3. SumFunctionOnSet(F, T \cup {x}) = F[x] + SumFunctionOnSet(F, T)
    BY <2>1, SumWith
  <2>4. IsFiniteSet(im(T)) /\ IsFiniteSet(im(T \cup {x}))
    BY <2>2, FS_Subset
  <2>5. SumFunctionOnSet(G, im(T \cup {x})) = G[to[x]] + SumFunctionOnSet(G, im(T))
    <3> HIDE DEF im
    <3>1. \A z \in im(T) \cup {to[x]} : G[z] \in Int
      BY <2>2
    <3>2. SumFunctionOnSet(G, im(T) \cup {to[x]}) = G[to[x]] + SumFunctionOnSet(G, im(T))
      BY <2>2, <2>4, <3>1, SumWith
    <3> QED
      BY <2>2, <3>2
  <2>6. SumFunctionOnSet(F, T) \in Int
    BY <2>1, SumInt
  <2>7. SumFunctionOnSet(G, im(T)) \in Int
    <3>1. \A z \in im(T) : G[z] \in Int
      OBVIOUS
    <3> HIDE DEF im
    <3> QED
      BY <2>4, <3>1, SumInt
  <2>8. SumFunctionOnSet(F, T) <= SumFunctionOnSet(G, im(T))
    BY <1>2
  <2>9. \A a, b, c, d \in Int : a <= b /\ c <= d => a + c <= b + d
    OBVIOUS
  <2>10. F[x] \in Int /\ G[to[x]] \in Int /\ F[x] <= G[to[x]]
    OBVIOUS
  <2>11. SumFunctionOnSet(F, T \cup {x}) <= SumFunctionOnSet(G, im(T \cup {x}))
    <3> HIDE DEF im
    <3>1. F[x] + SumFunctionOnSet(F, T) <= G[to[x]] + SumFunctionOnSet(G, im(T))
      BY <2>6, <2>7, <2>8, <2>9, <2>10
    <3> QED
      BY <2>3, <2>5, <3>1
  <2> QED
    BY <2>1, <2>4, <2>11
<1>3. S \in Good
  <2> HIDE DEF Good
  <2> QED
    BY <1>1, <1>2, SetInduction
<1>4. im(S) \in SUBSET C
  OBVIOUS
<1>5. SumFunctionOnSet(G, im(S)) <= SumFunctionOnSet(G, C)
  <2> HIDE DEF im
  <2> QED
    BY <1>4, SumPart
<1>6. SumFunctionOnSet(F, S) \in Int
  BY SumInt
<1>7. SumFunctionOnSet(G, im(S)) \in Int /\ SumFunctionOnSet(G, C) \in Int
  <2> HIDE DEF im
  <2>1. IsFiniteSet(im(S)) /\ \A z \in im(S) : G[z] \in Int
    BY <1>4, FS_Subset
  <2>2. \A z \in C : G[z] \in Int
    OBVIOUS
  <2> QED
    BY <2>1, <2>2, SumInt
<1>8. SumFunctionOnSet(F, S) <= SumFunctionOnSet(G, im(S))
  BY <1>3
<1>9. \A a, b, c \in Int : a <= b /\ b <= c => a <= c
  OBVIOUS
<1> HIDE DEF im, Good
<1> QED
  BY <1>5, <1>6, <1>7, <1>8, <1>9

(* The sum of the sums of disjoint parts is the sum of their union.        *)
LEMMA SumOfParts ==
    ASSUME NEW N, IsFiniteSet(N), NEW K, IsFiniteSet(K), NEW F, \A k \in K : F[k] \in Int,
           NEW part \in [N -> SUBSET K], \A m, q \in N : m # q => part[m] \cap part[q] = {},
           NEW C, \A m \in N : C[m] = SumFunctionOnSet(F, part[m])
    PROVE  SumFunctionOnSet(C, N) = SumFunctionOnSet(F, UNION {part[m] : m \in N})
<1> DEFINE all(T) == UNION {part[m] : m \in T}
           Good == {T \in SUBSET N : SumFunctionOnSet(C, T) = SumFunctionOnSet(F, all(T))}
<1>0. \A T \in SUBSET N : all(T) \in SUBSET K
  OBVIOUS
<1>1. {} \in Good
  <2>1. all({}) = {}
    OBVIOUS
  <2> QED
    BY <2>1, SumEmpty
<1>2. ASSUME NEW T \in SUBSET N, T \in Good, NEW x \in N \ T PROVE T \cup {x} \in Good
  <2>1. IsFiniteSet(T) /\ T \cup {x} \in SUBSET N
    BY FS_Subset
  <2>2. \A m \in N : C[m] \in Int
    <3>1. ASSUME NEW m \in N PROVE C[m] \in Int
      <4>1. IsFiniteSet(part[m]) /\ \A k \in part[m] : F[k] \in Int
        BY FS_Subset
      <4> QED
        BY <4>1, SumInt
    <3> QED
      BY <3>1
  <2>3. SumFunctionOnSet(C, T \cup {x}) = C[x] + SumFunctionOnSet(C, T)
    BY <2>1, <2>2, SumWith
  <2>4. all(T \cup {x}) \in SUBSET K /\ part[x] \in SUBSET all(T \cup {x})
    OBVIOUS
  <2>5. all(T \cup {x}) \ part[x] = all(T)
    OBVIOUS
  <2>6. SumFunctionOnSet(F, all(T \cup {x})) = SumFunctionOnSet(F, part[x]) + SumFunctionOnSet(F, all(T))
    <3> DEFINE A == all(T \cup {x})
    <3>1. IsFiniteSet(A) /\ (\A k \in A : F[k] \in Int) /\ part[x] \in SUBSET A /\ A \ part[x] = all(T)
      <4> HIDE DEF all
      <4> QED
        BY <2>4, <2>5, FS_Subset
    <3>2. SumFunctionOnSet(F, A) = SumFunctionOnSet(F, part[x]) + SumFunctionOnSet(F, A \ part[x])
      <4> HIDE DEF A, all
      <4> QED
        BY <3>1, SumSplit
    <3> HIDE DEF all
    <3> QED
      BY <3>1, <3>2
  <2>7. SumFunctionOnSet(C, T) = SumFunctionOnSet(F, all(T)) /\ C[x] = SumFunctionOnSet(F, part[x])
    BY <1>2
  <2>8. SumFunctionOnSet(C, T \cup {x}) = SumFunctionOnSet(F, all(T \cup {x}))
    BY <2>3, <2>6, <2>7
  <2> QED
    BY <2>1, <2>8
<1>3. N \in Good
  <2> HIDE DEF Good
  <2> QED
    BY <1>1, <1>2, SetInduction
<1> QED
  BY <1>3

-----------------------------------------------------------------------------
(* Division, Max and Min of two numbers, and of a finite set.              *)
LEMMA DivBound ==
    /\ \A a \in Nat, b \in Nat \ {0} : a \div b \in Nat /\ b * (a \div b) <= a /\ a < b * (a \div b) + b
<1> SUFFICES ASSUME NEW a \in Nat, NEW b \in Nat \ {0}
             PROVE a \div b \in Nat /\ b * (a \div b) <= a /\ a < b * (a \div b) + b
  OBVIOUS
<1>1. a = b * (a \div b) + (a % b) /\ a % b \in 0 .. b - 1 /\ a \div b \in Int
  OBVIOUS
<1> QED
  BY <1>1

LEMMA MaxOfTwo == \A a, b \in Int : Max({a, b}) = IF a >= b THEN a ELSE b
<1> SUFFICES ASSUME NEW a \in Int, NEW b \in Int PROVE Max({a, b}) = IF a >= b THEN a ELSE b
  OBVIOUS
<1> DEFINE m == IF a >= b THEN a ELSE b
<1>1. \A x \in {a, b} : (\A y \in {a, b} : x >= y) <=> x = m
  OBVIOUS
<1>2. m \in {a, b}
  OBVIOUS
<1> HIDE DEF m
<1>3. (CHOOSE x \in {a, b} : \A y \in {a, b} : x >= y) = m
  BY <1>1, <1>2
<1> QED
  BY <1>3 DEF Max, m

LEMMA MinOfTwo == \A a, b \in Int : Min({a, b}) = IF a <= b THEN a ELSE b
<1> SUFFICES ASSUME NEW a \in Int, NEW b \in Int PROVE Min({a, b}) = IF a <= b THEN a ELSE b
  OBVIOUS
<1> DEFINE m == IF a <= b THEN a ELSE b
<1>1. \A x \in {a, b} : (\A y \in {a, b} : x <= y) <=> x = m
  OBVIOUS
<1>2. m \in {a, b}
  OBVIOUS
<1> HIDE DEF m
<1>3. (CHOOSE x \in {a, b} : \A y \in {a, b} : x <= y) = m
  BY <1>1, <1>2
<1> QED
  BY <1>3 DEF Min, m

LEMMA MaxExists ==
    ASSUME NEW S, IsFiniteSet(S), S # {}, S \subseteq Int
    PROVE  Max(S) \in S /\ \A x \in S : x <= Max(S)
<1> DEFINE Good == {T \in SUBSET S : T = {} \/ \E m \in T : \A x \in T : m >= x}
<1>1. {} \in Good
  OBVIOUS
<1>2. ASSUME NEW T \in SUBSET S, T \in Good, NEW y \in S \ T PROVE T \cup {y} \in Good
  <2>1. CASE T = {}
    BY <2>1
  <2>2. CASE T # {}
    <3>1. PICK m \in T : \A x \in T : m >= x
      BY <1>2, <2>2
    <3>2. m \in Int /\ y \in Int /\ \A x \in T : x \in Int
      OBVIOUS
    <3>3. CASE y >= m
      <4>1. \A x \in T \cup {y} : y >= x
        BY <3>1, <3>2, <3>3
      <4> QED
        BY <4>1
    <3>4. CASE m >= y
      <4>1. \A x \in T \cup {y} : m >= x
        BY <3>1, <3>4
      <4> QED
        BY <4>1
    <3> QED
      BY <3>2, <3>3, <3>4
  <2> QED
    BY <2>1, <2>2
<1>3. S \in Good
  <2> HIDE DEF Good
  <2> QED
    BY <1>1, <1>2, SetInduction
<1>4. \E m \in S : \A x \in S : m >= x
  BY <1>3
<1>5. Max(S) \in S /\ \A x \in S : Max(S) >= x
  BY <1>4 DEF Max
<1> QED
  BY <1>5

-----------------------------------------------------------------------------
(* Of a finite set in a strict order one element is before all others.     *)
LEMMA FirstExists ==
    ASSUME NEW S, IsFiniteSet(S), S # {}, NEW below \in [S -> SUBSET S],
           \A x, y \in S : x \in below[y] => below[x] \subseteq below[y] /\ x \notin below[x]
    PROVE  \E x \in S : below[x] = {}
<1> DEFINE Bad == {T \in SUBSET S : T # {} /\ (\A x \in T : below[x] \subseteq T)}
<1>1. S \in Bad
  OBVIOUS
<1>2. PICK T \in Bad : \A U \in SUBSET T : U # T => U \notin Bad
  <2> HIDE DEF Bad
  <2>1. Bad \in SUBSET (SUBSET S) /\ Bad # {}
    BY <1>1 DEF Bad
  <2> QED
    BY <2>1, LeastSubset
<1>3. PICK x \in T : TRUE
  BY <1>2
<1>4. x \in S /\ below[x] \subseteq T /\ T \in SUBSET S
  BY <1>2, <1>3
<1>5. CASE \E y \in T : below[y] = {}
  BY <1>4, <1>5
<1>6. CASE below[x] # {} /\ \A y \in T : below[y] # {}
  <2>1. PICK y \in below[x] : TRUE
    BY <1>6
  <2>2. y \in S /\ y \in T /\ below[y] \subseteq below[x] /\ y \notin below[y]
    BY <1>4, <2>1
  <2>3. \A z \in below[y] : z \in S /\ below[z] \subseteq below[y]
    BY <1>4, <2>2
  <2>4. below[y] \in Bad
    BY <1>4, <1>6, <2>2, <2>3
  <2>5. below[y] \in SUBSET T /\ below[y] # T
    BY <1>4, <2>2
  <2> QED
    BY <1>2, <2>4, <2>5
<1> QED
  BY <1>3, <1>5, <1>6

(* In a strict total order the first r of a finite set are r elements.     *)
LEMMA RanksAreAll ==
    ASSUME NEW N, IsFiniteSet(N), NEW ahead \in [N -> SUBSET N],
           \A m \in N : m \notin ahead[m],
           \A m, q \in N : q \in ahead[m] => ahead[q] \subseteq ahead[m],
           \A m, q \in N : m # q => m \in ahead[q] \/ q \in ahead[m],
           NEW r \in Nat, r <= Cardinality(N)
    PROVE  Cardinality({m \in N : Cardinality(ahead[m]) < r}) = r
<1> DEFINE n == Cardinality(N)
           rank == [m \in N |-> Cardinality(ahead[m])]
           first == {m \in N : Cardinality(ahead[m]) < r}
<1>1. n \in Nat
  BY FS_CardinalityType
<1>2. \A m \in N : IsFiniteSet(ahead[m]) /\ rank[m] \in Nat
  <2>1. ASSUME NEW m \in N PROVE IsFiniteSet(ahead[m]) /\ Cardinality(ahead[m]) \in Nat
    <3>1. IsFiniteSet(ahead[m])
      BY FS_Subset
    <3> QED
      BY <3>1, FS_CardinalityType
  <2> QED
    BY <2>1
<1>3. ASSUME NEW m \in N, NEW q \in N, q \in ahead[m] PROVE rank[q] < rank[m]
  <2>1. ahead[q] \in SUBSET ahead[m] /\ ahead[q] # ahead[m]
    BY <1>3
  <2>2. Cardinality(ahead[q]) <= Cardinality(ahead[m]) /\ Cardinality(ahead[m]) # Cardinality(ahead[q])
    BY <1>2, <2>1, FS_Subset
  <2>3. \A a, b \in Nat : a <= b /\ b # a => a < b
    OBVIOUS
  <2>4. Cardinality(ahead[q]) \in Nat /\ Cardinality(ahead[m]) \in Nat
    BY <1>2
  <2>5. Cardinality(ahead[q]) < Cardinality(ahead[m])
    BY <2>2, <2>3, <2>4
  <2> QED
    BY <2>5
<1>4. \A m \in N : rank[m] < n
  <2>1. ASSUME NEW m \in N PROVE Cardinality(ahead[m]) < n
    <3>1. ahead[m] # N
      OBVIOUS
    <3>2. Cardinality(ahead[m]) <= n /\ n # Cardinality(ahead[m])
      BY <3>1, FS_Subset
    <3>3. Cardinality(ahead[m]) \in Nat
      BY <1>2
    <3> HIDE DEF n
    <3> QED
      BY <1>1, <3>2, <3>3
  <2> QED
    BY <2>1
<1>5. \A m, q \in N : m # q => rank[m] # rank[q]
  <2>1. ASSUME NEW m \in N, NEW q \in N, m # q PROVE rank[m] # rank[q]
    <3>1. rank[m] < rank[q] \/ rank[q] < rank[m]
      BY <1>3, <2>1
    <3>2. rank[m] \in Nat /\ rank[q] \in Nat
      BY <1>2
    <3> HIDE DEF rank
    <3> QED
      BY <3>1, <3>2
  <2> QED
    BY <2>1
<1>6. rank \in Injection(N, 0 .. n - 1)
  <2>1. rank \in [N -> 0 .. n - 1]
    <3>1. \A m \in N : rank[m] \in 0 .. n - 1
      <4> HIDE DEF rank, n
      <4> QED
        BY <1>1, <1>2, <1>4
    <3> QED
      BY <3>1
  <2> HIDE DEF rank
  <2> QED
    BY <1>5, <2>1 DEF Injection, IsInjective
<1>7. IsFiniteSet(0 .. n - 1) /\ Cardinality(0 .. n - 1) = n
  <2>1. 0 \in Int /\ n - 1 \in Int
    BY <1>1
  <2>2. IsFiniteSet(0 .. n - 1) /\ Cardinality(0 .. n - 1) = IF 0 > n - 1 THEN 0 ELSE (n - 1) - 0 + 1
    <3> HIDE DEF n
    <3> QED
      BY <2>1, FS_Interval
  <2> HIDE DEF n
  <2> QED
    BY <1>1, <2>2
<1>8. rank \in Surjection(N, 0 .. n - 1)
  <2>1. Cardinality(N) = Cardinality(0 .. n - 1)
    BY <1>7
  <2> HIDE DEF rank, n
  <2> QED
    BY <1>6, <1>7, <2>1, FS_Injection
<1> DEFINE low == [m \in first |-> rank[m]]
<1>9. low \in Injection(first, 0 .. r - 1) /\ low \in Surjection(first, 0 .. r - 1)
  <2>1. \A m \in first : m \in N /\ rank[m] \in Nat /\ rank[m] < r
    BY <1>2
  <2>2. low \in [first -> 0 .. r - 1]
    <3> HIDE DEF rank, first
    <3> QED
      BY <2>1
  <2>3. \A m, q \in first : m # q => low[m] # low[q]
    BY <1>5
  <2>4. ASSUME NEW i \in 0 .. r - 1 PROVE \E m \in first : low[m] = i
    <3>1. i \in 0 .. n - 1 /\ i \in Nat /\ i < r
      <4>1. r <= n
        OBVIOUS
      <4> HIDE DEF n
      <4> QED
        BY <1>1, <4>1
    <3>2. PICK m \in N : rank[m] = i
      <4> HIDE DEF rank, n
      <4> QED
        BY <1>8, <3>1 DEF Surjection
    <3>3. m \in first
      BY <3>1, <3>2
    <3> QED
      BY <3>2, <3>3
  <2> HIDE DEF low, first
  <2> QED
    BY <2>2, <2>3, <2>4 DEF Injection, IsInjective, Surjection
<1>10. IsFiniteSet(0 .. r - 1) /\ Cardinality(0 .. r - 1) = r
  <2>1. 0 \in Int /\ r - 1 \in Int
    OBVIOUS
  <2>2. IsFiniteSet(0 .. r - 1) /\ Cardinality(0 .. r - 1) = IF 0 > r - 1 THEN 0 ELSE (r - 1) - 0 + 1
    BY <2>1, FS_Interval
  <2> QED
    BY <2>2
<1>11. Cardinality(first) = Cardinality(0 .. r - 1)
  <2> HIDE DEF low, first
  <2> QED
    BY <1>9, <1>10, FS_Injection
<1> QED
  BY <1>10, <1>11
=============================================================================
