---------------------------- MODULE AdvisoryProofs ----------------------------
(***************************************************************************)
(* Theorems about one evaluation with optional AI extraction: the kernel   *)
(* (Kleene, Detection, Decision), Advisory, and Extraction in front of it, *)
(* for every library of knowledge that the loader accepts, every input of  *)
(* the host, every answer and every submitted text.                        *)
(*                                                                         *)
(* Conditions, searches, unions, the progress of normalization and the     *)
(* order of findings are recursive functions.  What they compute is shown  *)
(* by a least counterexample, by induction over the subsets of a finite    *)
(* set, or from each position of a text to the next.                       *)
(***************************************************************************)
EXTENDS Extraction, FiniteSetTheorems, SequenceTheorems, WellFoundedInduction, TLAPS

-----------------------------------------------------------------------------
(* Finite sets, least elements and recursive functions *)

\* A set of naturals has a least element.
LEMMA LeastExists ==
  ASSUME NEW S \in SUBSET Nat, S # {}
  PROVE  \E m \in S : \A y \in S : m <= y
<1> DEFINE Below(x) == {y \in S : y < x}
           Belows == {Below(x) : x \in S}
<1>1. ASSUME NEW x \in S PROVE Below(x) \in FiniteSubsetsOf(Nat)
  <2>1. \A y \in Below(x) : y \in Nat /\ y < x
    OBVIOUS
  <2>2. Below(x) \in SUBSET Nat
    BY <2>1
  <2>3. Below(x) \in SUBSET (0..x)
    <3>1. \A y \in Below(x) : y \in 0..x
      BY <2>1
    <3> HIDE DEF Below
    <3> QED BY <3>1
  <2>4. IsFiniteSet(0..x)
    BY FS_Interval
  <2>5. IsFiniteSet(Below(x))
    <3> HIDE DEF Below
    <3> QED BY ONLY <2>3, <2>4, FS_Subset
  <2> QED BY <2>2, <2>5 DEF FiniteSubsetsOf
<1>2. Belows \subseteq FiniteSubsetsOf(Nat) /\ Belows # {}
  <2> HIDE DEF Below
  <2> QED BY <1>1
<1>3. PICK B \in Belows : \A C \in Belows : ~ <<C, B>> \in StrictSubsetOrdering(Nat)
  <2> HIDE DEF Belows
  <2> QED BY <1>2, FS_StrictSubsetOrderingWellFounded, WFMin
<1>4. PICK m \in S : B = Below(m)
  OBVIOUS
<1>5. ASSUME NEW y \in S, y < m PROVE FALSE
  <2>1. Below(y) \in FiniteSubsetsOf(Nat) /\ Below(m) \in FiniteSubsetsOf(Nat) /\ Below(y) \in Belows
    BY <1>1
  <2>2. Below(y) \subseteq Below(m) /\ y \in Below(m) /\ y \notin Below(y)
    <3>1. \A z \in Below(y) : z \in S /\ z < m
      BY <1>5
    <3>2. y \in Below(m) /\ y \notin Below(y)
      BY <1>5
    <3> QED BY <3>1, <3>2
  <2> HIDE DEF Below, Belows
  <2>3. <<Below(y), Below(m)>> \in StrictSubsetOrdering(Nat)
    BY <2>1, <2>2 DEF StrictSubsetOrdering, FiniteSubsetsOf
  <2> QED BY <1>3, <1>4, <2>1, <2>3
<1> QED BY <1>5

\* The operator Min finds it.
LEMMA LeastFacts ==
  ASSUME NEW S \in SUBSET Nat, S # {}
  PROVE  Min(S) \in S /\ \A y \in S : Min(S) <= y
BY LeastExists DEF Min

\* A finite set of naturals has a largest element.
LEMMA GreatestFacts ==
  ASSUME NEW S \in SUBSET Nat, S # {}, IsFiniteSet(S)
  PROVE  Max(S) \in S /\ \A y \in S : y <= Max(S)
<1> DEFINE Above(x) == {y \in S : y > x}
           Aboves == {Above(x) : x \in S}
<1>1. ASSUME NEW x \in S PROVE Above(x) \in FiniteSubsetsOf(S)
  <2>1. Above(x) \in SUBSET S
    OBVIOUS
  <2> HIDE DEF Above
  <2> QED BY <2>1, FS_Subset DEF FiniteSubsetsOf
<1>2. Aboves \subseteq FiniteSubsetsOf(S) /\ Aboves # {}
  <2> HIDE DEF Above
  <2> QED BY <1>1
<1>3. PICK B \in Aboves : \A C \in Aboves : ~ <<C, B>> \in StrictSubsetOrdering(S)
  <2> HIDE DEF Aboves
  <2> QED BY <1>2, FS_StrictSubsetOrderingWellFounded, WFMin
<1>4. PICK m \in S : B = Above(m)
  OBVIOUS
<1>5. ASSUME NEW y \in S, y > m PROVE FALSE
  <2>1. Above(y) \in FiniteSubsetsOf(S) /\ Above(m) \in FiniteSubsetsOf(S) /\ Above(y) \in Aboves
    BY <1>1
  <2>2. Above(y) \subseteq Above(m) /\ y \in Above(m) /\ y \notin Above(y)
    <3>1. \A z \in Above(y) : z \in S /\ z > m
      BY <1>5
    <3>2. y \in Above(m) /\ y \notin Above(y)
      BY <1>5
    <3> QED BY <3>1, <3>2
  <2> HIDE DEF Above, Aboves
  <2>3. <<Above(y), Above(m)>> \in StrictSubsetOrdering(S)
    BY <2>1, <2>2 DEF StrictSubsetOrdering, FiniteSubsetsOf
  <2> QED BY <1>3, <1>4, <2>1, <2>3
<1>6. \E x \in S : \A y \in S : x >= y
  BY <1>5
<1> QED BY <1>6 DEF Max

(* Recursive definitions: when every value depends only on values of lower  *)
(* rank, and ranks are bounded, some function satisfies the equation.        *)
Recursion(D, V, rank, N, F) ==
    /\ V # {} /\ rank \in [D -> Nat] /\ N \in Nat /\ \A q \in D : rank[q] < N
    /\ F \in [[D -> V] -> [D -> V]]
    /\ \A g, h \in [D -> V] : \A q \in D :
          (\A p \in D : rank[p] < rank[q] => g[p] = h[p]) => F[g][q] = F[h][q]

\* By induction on the rank: two values of lower rank that agree give one value.
LEMMA RecursionExists ==
  ASSUME NEW D, NEW V, NEW rank, NEW N, NEW F, Recursion(D, V, rank, N, F)
  PROVE  \E f \in [D -> V] : f = F[f]
<1>0. /\ V # {} /\ rank \in [D -> Nat] /\ N \in Nat /\ \A q \in D : rank[q] < N
      /\ F \in [[D -> V] -> [D -> V]]
      /\ \A g, h \in [D -> V] : \A q \in D :
            (\A p \in D : rank[p] < rank[q] => g[p] = h[p]) => F[g][q] = F[h][q]
  BY DEF Recursion
<1> DEFINE Solves(g, n) == \A q \in D : rank[q] < n => g[q] = F[g][q]
           Bad == {n \in Nat : \A g \in [D -> V] : ~ Solves(g, n)}
<1>1. Bad = {}
  <2> SUFFICES ASSUME Bad # {} PROVE FALSE
    OBVIOUS
  <2>1. PICK n \in Bad : \A k \in Bad : n <= k
    <3>1. Bad \in SUBSET Nat
      OBVIOUS
    <3> HIDE DEF Bad
    <3> QED BY <3>1, LeastExists
  <2>2. n # 0
    <3>1. PICK v \in V : TRUE
      BY <1>0
    <3>2. [q \in D |-> v] \in [D -> V] /\ Solves([q \in D |-> v], 0)
      <4>1. \A q \in D : ~ rank[q] < 0
        BY <1>0
      <4> QED BY <4>1
    <3> QED BY <3>2
  <2>3. PICK g \in [D -> V] : Solves(g, n - 1)
    <3>1. n - 1 \in Nat /\ n - 1 \notin Bad
      BY <2>1, <2>2
    <3> QED BY <3>1
  <2>4. F[g] \in [D -> V] /\ Solves(F[g], n)
    <3>1. F[g] \in [D -> V]
      BY <1>0
    <3>2. ASSUME NEW q \in D, rank[q] < n PROVE F[g][q] = F[F[g]][q]
      <4>1. \A p \in D : rank[p] < rank[q] => g[p] = F[g][p]
        BY <1>0, <2>3, <3>2
      <4> QED BY <1>0, <3>1, <4>1
    <3> QED BY <3>1, <3>2
  <2> QED BY <2>4
<1>2. PICK f \in [D -> V] : Solves(f, N)
  <2>1. N \notin Bad
    BY <1>1
  <2> QED BY <1>0, <2>1
<1>3. F[f] \in [D -> V] /\ \A q \in D : f[q] = F[f][q]
  BY <1>0, <1>2
<1> QED BY <1>3

\* The levels are finite.
LEMMA SmallIntervals ==
  IsFiniteSet(0..3) /\ IsFiniteSet(1..4)
<1>1. 0 \in Int /\ 1 \in Int /\ 3 \in Int /\ 4 \in Int
  OBVIOUS
<1> DEFINE Span(a, b) == a..b
<1>2. \A a, b \in Int : IsFiniteSet(Span(a, b))
  BY FS_Interval
<1>3. IsFiniteSet(Span(0, 3)) /\ IsFiniteSet(Span(1, 4))
  <2> HIDE DEF Span
  <2> QED BY <1>1, <1>2
<1> QED BY <1>3

\* The image of a finite set is finite.
LEMMA ImageFinite ==
  ASSUME NEW S, IsFiniteSet(S), NEW T, NEW f \in [S -> T]
  PROVE  /\ IsFiniteSet({f[x] : x \in S})
         /\ Cardinality({f[x] : x \in S}) <= Cardinality(S)
<1>1. f \in Surjection(S, {f[x] : x \in S})
  BY DEF Surjection
<1> QED BY <1>1, FS_Surjection

\* Among the subsets of a finite set that have some property, one is minimal.
LEMMA MinimalSubset ==
  ASSUME NEW S, IsFiniteSet(S), NEW B \in SUBSET SUBSET S, B # {}
  PROVE  \E b \in B : \A a \in B : a \subseteq b => a = b
<1>1. B \subseteq FiniteSubsetsOf(S)
  BY FS_Subset DEF FiniteSubsetsOf
<1>2. PICK b \in B : \A a \in B : ~ <<a, b>> \in StrictSubsetOrdering(S)
  BY <1>1, FS_StrictSubsetOrderingWellFounded, WFMin
<1>3. \A a \in B : a \subseteq b => a = b
  BY <1>1, <1>2 DEF StrictSubsetOrdering, FiniteSubsetsOf
<1> QED BY <1>3

-----------------------------------------------------------------------------
(* Three-valued logic (kleene.py) *)

\* The operand list with its unknowns set to x.
Filled(v, x) == [i \in DOMAIN v |-> IF v[i] = "UNKNOWN" THEN x ELSE v[i]]

\* Setting every unknown to one truth value is a resolution.
LEMMA FilledResolves ==
    ASSUME NEW I, NEW v \in [I -> Values], NEW x \in {"TRUE", "FALSE"}
    PROVE  Filled(v, x) \in Resolutions(v)
BY DEF Filled, Resolutions, Resolves, Values

\* The operands with one value form a finite set.
LEMMA HavingFinite ==
    ASSUME NEW I, IsFiniteSet(I), NEW v \in [I -> Values], NEW x
    PROVE  /\ Having(x, v) \subseteq I
           /\ IsFiniteSet(Having(x, v))
           /\ Cardinality(Having(x, v)) \in Nat
<1>1. Having(x, v) \subseteq I
  BY DEF Having
<1>2. IsFiniteSet(Having(x, v))
  BY <1>1, FS_Subset
<1> QED
  BY <1>1, <1>2, FS_CardinalityType

\* Counting the operands that are TRUE or UNKNOWN.
LEMMA CountPossible ==
    ASSUME NEW I, IsFiniteSet(I), NEW v \in [I -> Values]
    PROVE  /\ IsFiniteSet(Having("TRUE", v) \cup Having("UNKNOWN", v))
           /\ Cardinality(Having("TRUE", v) \cup Having("UNKNOWN", v))
                = Cardinality(Having("TRUE", v)) + Cardinality(Having("UNKNOWN", v))
<1> DEFINE T == Having("TRUE", v)
           U == Having("UNKNOWN", v)
<1>1. /\ IsFiniteSet(T) /\ Cardinality(T) \in Nat
      /\ IsFiniteSet(U) /\ Cardinality(U) \in Nat
  BY HavingFinite
<1>2. T \cap U = {}
  BY DEF Having
<1>3. Cardinality(T \cup U) = Cardinality(T) + Cardinality(U) - Cardinality(T \cap U)
  BY <1>1, FS_Union
<1>4. Cardinality(T \cap U) = 0
  BY <1>2, FS_EmptySet
<1>5. IsFiniteSet(T \cup U)
  BY <1>1, FS_Union
<1> QED
  BY <1>1, <1>3, <1>4, <1>5

\* Resolving unknowns leaves the TRUE operands TRUE and makes no FALSE operand TRUE.
LEMMA ResolutionBounds ==
    ASSUME NEW I, NEW v \in [I -> Values], NEW w \in [I -> Values], Resolves(w, v)
    PROVE  /\ Having("TRUE", v) \subseteq Having("TRUE", w)
           /\ Having("FALSE", v) \subseteq Having("FALSE", w)
           /\ Having("TRUE", w) \cup Having("UNKNOWN", w)
                \subseteq Having("TRUE", v) \cup Having("UNKNOWN", v)
BY DEF Having, Resolves, Values

(* A threshold verdict is final: whatever the unknown operands turn out to  *)
(* be, n_of does not change a verdict that it has given (kleene.py:85).      *)
THEOREM ThresholdMonotone ==
    ASSUME NEW I, IsFiniteSet(I), NEW v \in [I -> Values], NEW w \in [I -> Values],
           Resolves(w, v), NEW n \in Nat, n_of(n, v) # "UNKNOWN"
    PROVE  n_of(n, w) = n_of(n, v)
<1> DEFINE tv == Cardinality(Having("TRUE", v))
           uv == Cardinality(Having("UNKNOWN", v))
           tw == Cardinality(Having("TRUE", w))
           uw == Cardinality(Having("UNKNOWN", w))
<1>1. tv \in Nat /\ uv \in Nat /\ tw \in Nat /\ uw \in Nat /\ IsFiniteSet(Having("TRUE", w))
  BY HavingFinite
<1>2. tv <= tw
  BY <1>1, ResolutionBounds, FS_Subset
<1>3. tw + uw <= tv + uv
  <2> DEFINE Pv == Having("TRUE", v) \cup Having("UNKNOWN", v)
             Pw == Having("TRUE", w) \cup Having("UNKNOWN", w)
  <2>1. IsFiniteSet(Pv) /\ Cardinality(Pv) = tv + uv
    BY CountPossible
  <2>2. Cardinality(Pw) = tw + uw
    BY CountPossible
  <2>3. Pw \subseteq Pv
    BY ResolutionBounds
  <2>4. Cardinality(Pw) <= Cardinality(Pv)
    BY <2>1, <2>3, FS_Subset
  <2> QED
    BY <2>1, <2>2, <2>4
<1>4. CASE tv >= n
  BY <1>1, <1>2, <1>4 DEF n_of
<1>5. CASE tv < n
  <2>1. tv + uv < n
    BY <1>1, <1>5 DEF n_of
  <2> QED
    BY <1>1, <1>2, <1>3, <2>1 DEF n_of
<1> QED
  BY <1>1, <1>4, <1>5

\* Every full resolution is an operand list, and leaves nothing unknown.
LEMMA ResolutionType ==
    ASSUME NEW I, NEW v \in [I -> Values], NEW w \in Resolutions(v)
    PROVE  /\ w \in [I -> Values]
           /\ Resolves(w, v)
           /\ Having("UNKNOWN", w) = {}
BY DEF Resolutions, Values, Having

\* Without unknowns a threshold has a classical verdict.
LEMMA ThresholdClassical ==
    ASSUME NEW I, IsFiniteSet(I), NEW w \in [I -> Values], NEW n \in Nat,
           Having("UNKNOWN", w) = {}
    PROVE  n_of(n, w) = IF Cardinality(Having("TRUE", w)) >= n THEN "TRUE" ELSE "FALSE"
<1>1. Cardinality(Having("UNKNOWN", w)) = 0
  BY FS_EmptySet
<1>2. Cardinality(Having("TRUE", w)) \in Nat
  BY HavingFinite
<1> QED
  BY <1>1, <1>2 DEF n_of

(* n_of is the strongest sound verdict: TRUE exactly when the threshold     *)
(* holds under every resolution of the unknown operands, FALSE exactly when *)
(* it holds under none (kleene.py:85, ADR-0005 section 2).                   *)
THEOREM ThresholdExact ==
    ASSUME NEW I, IsFiniteSet(I), NEW v \in [I -> Values], NEW n \in Nat
    PROVE  /\ n_of(n, v) = "TRUE" <=> \A w \in Resolutions(v) : n_of(n, w) = "TRUE"
           /\ n_of(n, v) = "FALSE" <=> \A w \in Resolutions(v) : n_of(n, w) = "FALSE"
<1> DEFINE low == Filled(v, "FALSE")
           high == Filled(v, "TRUE")
           tv == Cardinality(Having("TRUE", v))
           uv == Cardinality(Having("UNKNOWN", v))
<1>1. /\ low \in Resolutions(v) /\ high \in Resolutions(v)
      /\ low \in [I -> Values] /\ high \in [I -> Values]
      /\ Having("UNKNOWN", low) = {} /\ Having("UNKNOWN", high) = {}
  BY FilledResolves, ResolutionType
<1>2. tv \in Nat /\ uv \in Nat
  BY HavingFinite
<1>3. Having("TRUE", low) = Having("TRUE", v)
  BY DEF Having, Filled, Values
<1>4. Having("TRUE", high) = Having("TRUE", v) \cup Having("UNKNOWN", v)
  BY DEF Having, Filled, Values
<1>5. Cardinality(Having("TRUE", high)) = tv + uv
  BY <1>4, CountPossible
<1>6. ASSUME n_of(n, v) # "UNKNOWN"
      PROVE  \A w \in Resolutions(v) : n_of(n, w) = n_of(n, v)
  BY <1>6, ResolutionType, ThresholdMonotone
<1>7. n_of(n, low) = "TRUE" => n_of(n, v) = "TRUE"
  BY <1>1, <1>2, <1>3, ThresholdClassical DEF n_of
<1>8. n_of(n, high) = "FALSE" => n_of(n, v) = "FALSE"
  BY <1>1, <1>2, <1>5, ThresholdClassical DEF n_of
<1> QED
  BY <1>1, <1>6, <1>7, <1>8

(* The three operators cannot drift apart: a disjunction is the threshold   *)
(* 1, a conjunction the threshold of all its operands.                       *)
THEOREM OperatorsAgree ==
    ASSUME NEW I, IsFiniteSet(I), NEW v \in [I -> Values]
    PROVE  /\ any_of(v) = n_of(1, v)
           /\ all_of(v) = n_of(Cardinality(I), v)
<1> DEFINE T == Having("TRUE", v)
           U == Having("UNKNOWN", v)
           F == Having("FALSE", v)
<1>1. /\ IsFiniteSet(T) /\ Cardinality(T) \in Nat /\ T \subseteq I
      /\ IsFiniteSet(U) /\ Cardinality(U) \in Nat /\ U \subseteq I
  BY HavingFinite
<1>2. Cardinality(T) = 0 <=> T = {}
  BY <1>1, FS_EmptySet
<1>3. Cardinality(U) = 0 <=> U = {}
  BY <1>1, FS_EmptySet
<1>4. any_of(v) = n_of(1, v)
  BY <1>1, <1>2, <1>3 DEF any_of, n_of
<1>5. Cardinality(I) \in Nat
  BY FS_CardinalityType
<1>6. IsFiniteSet(T \cup U) /\ Cardinality(T \cup U) = Cardinality(T) + Cardinality(U)
  BY CountPossible
<1>7. CASE F # {}
  <2>1. T \cup U \subseteq I /\ T \cup U # I
    BY <1>7 DEF Having
  <2>2. Cardinality(T \cup U) < Cardinality(I)
    BY <2>1, <1>6, <1>5, FS_Subset, FS_CardinalityType
  <2> QED
    BY <1>1, <1>4, <1>5, <1>6, <1>7, <2>2 DEF all_of, n_of
<1>8. CASE F = {}
  <2>1. T \cup U = I
    BY <1>1, <1>8 DEF Having, Values
  <2>2. Cardinality(I) = Cardinality(T) + Cardinality(U)
    BY <2>1, <1>6
  <2> QED
    BY <1>1, <1>3, <1>4, <1>5, <1>8, <2>2 DEF all_of, n_of
<1> QED
  BY <1>4, <1>7, <1>8

-----------------------------------------------------------------------------
(* Conditions.                                                             *)

\* The value of every node of a condition, from the values of its operands.
Evaluates(value, c, truth) ==
    /\ value \in [DOMAIN c -> Values]
    /\ \A i \in DOMAIN c : value[i] = NodeValue(c[i], truth, [j \in Operands(c[i]) |-> value[j]])

\* Every id that has a truth value has one of the three.
TruthTable(truth) == \A p \in DOMAIN truth : truth[p] \in Values

\* The operators have no other result.
LEMMA KleeneValues ==
  ASSUME NEW v, NEW n
  PROVE  all_of(v) \in Values /\ any_of(v) \in Values /\ n_of(n, v) \in Values
BY DEF all_of, any_of, n_of, Values

\* A node of an accepted condition has a value.
LEMMA NodeIsValue ==
  ASSUME NEW c, Condition(c), NEW truth, TruthTable(truth), NEW i \in DOMAIN c, NEW args
  PROVE  NodeValue(c[i], truth, args) \in Values
<1>1. all_of(args) \in Values /\ any_of(args) \in Values /\ n_of(c[i].n, args) \in Values
  BY KleeneValues
<1>2. c[i].op = "leaf" \/ c[i].op \in {"all_of", "any_of", "n_of"}
  BY DEF Condition
<1>3. \A p \in DOMAIN truth : truth[p] \in Values
  BY DEF TruthTable
<1>4. "UNKNOWN" \in Values
  BY DEF Values
<1> QED BY <1>1, <1>2, <1>3, <1>4 DEF NodeValue

\* The operands of a node come before it: a condition has no cycle.
LEMMA OperandsBefore ==
  ASSUME NEW c, Condition(c), NEW i \in DOMAIN c
  PROVE  /\ i \in Nat /\ i <= Len(c) /\ Len(c) \in DOMAIN c /\ Len(c) \in Nat
         /\ IsFiniteSet(Operands(c[i]))
         /\ \A j \in Operands(c[i]) : j \in DOMAIN c /\ j < i
<1>1. Len(c) \in Nat \ {0} /\ DOMAIN c = 1..Len(c)
  BY DEF Condition
<1>2. Operands(c[i]) \subseteq 1..(i - 1)
  BY DEF Condition, Operands
<1>3. IsFiniteSet(1..(i - 1))
  BY <1>1, FS_Interval
<1>4. IsFiniteSet(Operands(c[i]))
  BY <1>2, <1>3, FS_Subset
<1> QED BY <1>1, <1>2, <1>4

\* A condition has a value at every node (evaluator.py _eval_condition ends).
LEMMA ConditionEvaluates ==
  ASSUME NEW c, Condition(c), NEW truth, TruthTable(truth)
  PROVE  \E value : Evaluates(value, c, truth) /\ eval_condition(c, truth) = value[Len(c)]
<1> DEFINE D == DOMAIN c
           Step(value) == [i \in D |-> NodeValue(c[i], truth, [j \in Operands(c[i]) |-> value[j]])]
           F == [value \in [D -> Values] |-> Step(value)]
           rank == [i \in D |-> i]
<1>1. \A i \in D : i \in Nat /\ i < Len(c) + 1 /\ \A j \in Operands(c[i]) : j \in D /\ j < i
  BY OperandsBefore
<1>2. rank \in [D -> Nat] /\ \A q \in D : rank[q] < Len(c) + 1
  BY <1>1
<1>3. Len(c) + 1 \in Nat /\ Values # {}
  BY DEF Condition, Values
<1>4. \A value : Step(value) \in [D -> Values]
  BY NodeIsValue
<1>5. F \in [[D -> Values] -> [D -> Values]]
  <2> HIDE DEF Step
  <2> QED BY <1>4
<1>6. ASSUME NEW g \in [D -> Values], NEW h \in [D -> Values], NEW q \in D,
             \A p \in D : rank[p] < rank[q] => g[p] = h[p]
      PROVE  F[g][q] = F[h][q]
  <2>1. \A j \in Operands(c[q]) : g[j] = h[j]
    BY <1>1, <1>6
  <2>2. [j \in Operands(c[q]) |-> g[j]] = [j \in Operands(c[q]) |-> h[j]]
    BY <2>1
  <2>3. Step(g)[q] = Step(h)[q]
    BY <2>2
  <2> HIDE DEF Step
  <2> QED BY <2>3
<1>7. \E value \in [D -> Values] : value = F[value]
  <2>1. \A g, h \in [D -> Values] : \A q \in D :
           (\A p \in D : rank[p] < rank[q] => g[p] = h[p]) => F[g][q] = F[h][q]
    <3> HIDE DEF F, rank, D
    <3> QED BY <1>6
  <2> HIDE DEF F, rank, D
  <2>2. Recursion(D, Values, rank, Len(c) + 1, F)
    BY <1>2, <1>3, <1>5, <2>1 DEF Recursion
  <2> QED BY <2>2, RecursionExists
<1> DEFINE v == CHOOSE value : value = [i \in DOMAIN c |-> NodeValue(c[i], truth, [j \in Operands(c[i]) |-> value[j]])]
<1>8. PICK w \in [D -> Values] : w = Step(w)
  <2>1. PICK w \in [D -> Values] : w = F[w]
    BY <1>7
  <2> HIDE DEF Step
  <2> QED BY <2>1
<1>9. v = Step(v)
  BY <1>8
<1>10. eval_condition(c, truth) = v[Len(c)]
  BY DEF eval_condition
<1>11. Step(v) \in [D -> Values]
  BY <1>4
<1>12. v \in [D -> Values]
  <2> HIDE DEF Step, v
  <2> QED BY <1>9, <1>11
<1>13. \A i \in D : v[i] = NodeValue(c[i], truth, [j \in Operands(c[i]) |-> v[j]])
  <2> HIDE DEF v
  <2> QED BY <1>9
<1> HIDE DEF v
<1> QED BY <1>10, <1>12, <1>13 DEF Evaluates

\* What a condition sees of an id.
LeafValue(p, truth) == IF p \in DOMAIN truth THEN truth[p] ELSE "UNKNOWN"

\* A determined verdict is not changed by what its unknown operands turn out to be.
LEMMA OperatorsMonotone ==
  ASSUME NEW I, IsFiniteSet(I), NEW v \in [I -> Values], NEW w \in [I -> Values], Resolves(w, v), NEW n \in Nat
  PROVE  /\ all_of(v) # "UNKNOWN" => all_of(w) = all_of(v)
         /\ any_of(v) # "UNKNOWN" => any_of(w) = any_of(v)
         /\ n_of(n, v) # "UNKNOWN" => n_of(n, w) = n_of(n, v)
<1>1. /\ all_of(v) = n_of(Cardinality(I), v) /\ all_of(w) = n_of(Cardinality(I), w)
      /\ any_of(v) = n_of(1, v) /\ any_of(w) = n_of(1, w)
  BY OperatorsAgree
<1>2. Cardinality(I) \in Nat /\ 1 \in Nat
  BY FS_CardinalityType
<1>3. \A k \in Nat : n_of(k, v) # "UNKNOWN" => n_of(k, w) = n_of(k, v)
  BY ThresholdMonotone
<1> QED BY <1>1, <1>2, <1>3

\* A verdict that holds still holds when more operands do.
LEMMA OperatorsGrow ==
  ASSUME NEW I, IsFiniteSet(I), NEW v \in [I -> Values], NEW w \in [I -> Values], NEW n \in Nat,
         \A i \in I : v[i] = "TRUE" => w[i] = "TRUE"
  PROVE  /\ all_of(v) = "TRUE" => all_of(w) = "TRUE"
         /\ any_of(v) = "TRUE" => any_of(w) = "TRUE"
         /\ n_of(n, v) = "TRUE" => n_of(n, w) = "TRUE"
<1>1. Having("TRUE", v) \subseteq Having("TRUE", w)
  BY DEF Having
<1>2. /\ IsFiniteSet(Having("TRUE", w)) /\ Cardinality(Having("TRUE", w)) \in Nat
      /\ Cardinality(Having("TRUE", v)) \in Nat
  BY HavingFinite
<1>3. Cardinality(Having("TRUE", v)) <= Cardinality(Having("TRUE", w))
  BY <1>1, <1>2, FS_Subset
<1>4. all_of(v) = "TRUE" => all_of(w) = "TRUE"
  BY DEF all_of, Having, Values
<1>5. any_of(v) = "TRUE" => any_of(w) = "TRUE"
  BY <1>1 DEF any_of
<1>6. n_of(n, v) = "TRUE" => n_of(n, w) = "TRUE"
  BY <1>2, <1>3 DEF n_of
<1> QED BY <1>4, <1>5, <1>6

\* The value of a leaf, and of the other nodes.
LEMMA LeafNode ==
  ASSUME NEW node, node.op = "leaf", NEW truth, NEW args
  PROVE  NodeValue(node, truth, args) = LeafValue(node.id, truth)
BY DEF NodeValue, LeafValue

LEMMA InnerNode ==
  ASSUME NEW node, NEW truth, NEW args
  PROVE  /\ node.op = "all_of" => NodeValue(node, truth, args) = all_of(args)
         /\ node.op = "any_of" => NodeValue(node, truth, args) = any_of(args)
         /\ node.op = "n_of" => NodeValue(node, truth, args) = n_of(node.n, args)
BY DEF NodeValue

(* A property of two evaluations holds at every node when it passes from the *)
(* operands of a node to the node: the least node without it would have      *)
(* operands with it.                                                         *)
LEMMA EveryNode ==
  ASSUME NEW c, Condition(c), NEW B \in SUBSET DOMAIN c,
         \A i \in DOMAIN c : i \in B => \E j \in Operands(c[i]) : j \in B
  PROVE  B = {}
<1> SUFFICES ASSUME B # {} PROVE FALSE
  OBVIOUS
<1>1. B \in SUBSET Nat
  BY OperandsBefore
<1>2. PICK i \in B : \A j \in B : i <= j
  BY <1>1, LeastExists
<1>3. PICK j \in Operands(c[i]) : j \in B
  BY <1>2
<1>4. j < i /\ i \in Nat /\ j \in Nat
  BY <1>1, <1>3, OperandsBefore
<1> QED BY <1>2, <1>3, <1>4

\* A determined condition keeps its value when its undetermined leaves are decided.
LEMMA EvalMonotone ==
  ASSUME NEW c, Condition(c), NEW s, TruthTable(s), NEW t, TruthTable(t),
         \A p \in operands(c) : LeafValue(p, s) # "UNKNOWN" => LeafValue(p, t) = LeafValue(p, s),
         eval_condition(c, s) # "UNKNOWN"
  PROVE  eval_condition(c, t) = eval_condition(c, s)
<1>1. PICK v : Evaluates(v, c, s) /\ eval_condition(c, s) = v[Len(c)]
  BY ConditionEvaluates
<1>2. PICK w : Evaluates(w, c, t) /\ eval_condition(c, t) = w[Len(c)]
  BY ConditionEvaluates
<1> DEFINE B == {i \in DOMAIN c : v[i] # "UNKNOWN" /\ w[i] # v[i]}
<1>3. ASSUME NEW i \in DOMAIN c, v[i] # "UNKNOWN" /\ w[i] # v[i],
             \A j \in Operands(c[i]) : ~ (v[j] # "UNKNOWN" /\ w[j] # v[j])
      PROVE  FALSE
  <2> DEFINE I == Operands(c[i])
             vs == [j \in I |-> v[j]]
             ws == [j \in I |-> w[j]]
  <2>1. v[i] = NodeValue(c[i], s, vs) /\ w[i] = NodeValue(c[i], t, ws)
    BY <1>1, <1>2 DEF Evaluates
  <2>2. IsFiniteSet(I) /\ I \subseteq DOMAIN c
    BY OperandsBefore
  <2>3. vs \in [I -> Values] /\ ws \in [I -> Values]
    BY <1>1, <1>2, <2>2 DEF Evaluates
  <2>4. Resolves(ws, vs)
    BY <1>3 DEF Resolves
  <2>5. CASE c[i].op = "leaf"
    <3>1. c[i].id \in operands(c)
      BY <2>5 DEF operands
    <3> QED BY <1>3, <2>1, <2>5, <3>1, LeafNode
  <2>6. CASE c[i].op \in {"all_of", "any_of", "n_of"}
    <3>1. c[i].op = "n_of" => c[i].n \in Nat
      BY <2>6 DEF Condition
    <3> HIDE DEF I, vs, ws
    <3>2. CASE c[i].op = "all_of"
      BY <1>3, <2>1, <2>2, <2>3, <2>4, <3>2, InnerNode, OperatorsMonotone
    <3>3. CASE c[i].op = "any_of"
      BY <1>3, <2>1, <2>2, <2>3, <2>4, <3>3, InnerNode, OperatorsMonotone
    <3>4. CASE c[i].op = "n_of"
      BY <1>3, <2>1, <2>2, <2>3, <2>4, <3>1, <3>4, InnerNode, OperatorsMonotone
    <3> QED BY <2>6, <3>2, <3>3, <3>4
  <2> QED BY <2>5, <2>6 DEF Condition
<1>4. B = {}
  <2>1. \A i \in DOMAIN c : i \in B => \E j \in Operands(c[i]) : j \in B
    BY <1>3, OperandsBefore
  <2> HIDE DEF B
  <2>2. B \in SUBSET DOMAIN c
    BY DEF B
  <2> QED BY <2>1, <2>2, EveryNode
<1>5. Len(c) \in DOMAIN c
  BY DEF Condition
<1> QED BY <1>1, <1>2, <1>4, <1>5

\* A condition that sees the same leaves has the same value.
LEMMA EvalCongruence ==
  ASSUME NEW c, Condition(c), NEW s, TruthTable(s), NEW t, TruthTable(t),
         \A p \in operands(c) : LeafValue(p, t) = LeafValue(p, s)
  PROVE  eval_condition(c, t) = eval_condition(c, s)
BY EvalMonotone

\* A condition that holds still holds when more leaves do.
LEMMA EvalGrows ==
  ASSUME NEW c, Condition(c), NEW s, TruthTable(s), NEW t, TruthTable(t),
         \A p \in operands(c) : LeafValue(p, s) = "TRUE" => LeafValue(p, t) = "TRUE",
         eval_condition(c, s) = "TRUE"
  PROVE  eval_condition(c, t) = "TRUE"
<1>1. PICK v : Evaluates(v, c, s) /\ eval_condition(c, s) = v[Len(c)]
  BY ConditionEvaluates
<1>2. PICK w : Evaluates(w, c, t) /\ eval_condition(c, t) = w[Len(c)]
  BY ConditionEvaluates
<1> DEFINE B == {i \in DOMAIN c : v[i] = "TRUE" /\ w[i] # "TRUE"}
<1>3. ASSUME NEW i \in DOMAIN c, v[i] = "TRUE" /\ w[i] # "TRUE",
             \A j \in Operands(c[i]) : ~ (v[j] = "TRUE" /\ w[j] # "TRUE")
      PROVE  FALSE
  <2> DEFINE I == Operands(c[i])
             vs == [j \in I |-> v[j]]
             ws == [j \in I |-> w[j]]
  <2>1. v[i] = NodeValue(c[i], s, vs) /\ w[i] = NodeValue(c[i], t, ws)
    BY <1>1, <1>2 DEF Evaluates
  <2>2. IsFiniteSet(I) /\ I \subseteq DOMAIN c
    BY OperandsBefore
  <2>3. vs \in [I -> Values] /\ ws \in [I -> Values]
    BY <1>1, <1>2, <2>2 DEF Evaluates
  <2>4. \A j \in I : vs[j] = "TRUE" => ws[j] = "TRUE"
    BY <1>3
  <2>5. CASE c[i].op = "leaf"
    <3>1. c[i].id \in operands(c)
      BY <2>5 DEF operands
    <3> QED BY <1>3, <2>1, <2>5, <3>1, LeafNode
  <2>6. CASE c[i].op \in {"all_of", "any_of", "n_of"}
    <3>1. c[i].op = "n_of" => c[i].n \in Nat
      BY <2>6 DEF Condition
    <3> HIDE DEF I, vs, ws
    <3>2. CASE c[i].op = "all_of"
      BY <1>3, <2>1, <2>2, <2>3, <2>4, <3>2, InnerNode, OperatorsGrow
    <3>3. CASE c[i].op = "any_of"
      BY <1>3, <2>1, <2>2, <2>3, <2>4, <3>3, InnerNode, OperatorsGrow
    <3>4. CASE c[i].op = "n_of"
      BY <1>3, <2>1, <2>2, <2>3, <2>4, <3>1, <3>4, InnerNode, OperatorsGrow
    <3> QED BY <2>6, <3>2, <3>3, <3>4
  <2> QED BY <2>5, <2>6 DEF Condition
<1>4. B = {}
  <2>1. \A i \in DOMAIN c : i \in B => \E j \in Operands(c[i]) : j \in B
    BY <1>3, OperandsBefore
  <2> HIDE DEF B
  <2>2. B \in SUBSET DOMAIN c
    BY DEF B
  <2> QED BY <2>1, <2>2, EveryNode
<1>5. Len(c) \in DOMAIN c
  BY DEF Condition
<1> QED BY <1>1, <1>2, <1>4, <1>5

\* A condition has one of the three values.
LEMMA EvalValue ==
  ASSUME NEW c, Condition(c), NEW s, TruthTable(s)
  PROVE  eval_condition(c, s) \in Values
<1>1. PICK v : Evaluates(v, c, s) /\ eval_condition(c, s) = v[Len(c)]
  BY ConditionEvaluates
<1>2. Len(c) \in DOMAIN c
  BY DEF Condition
<1> QED BY <1>1, <1>2 DEF Evaluates

\* A condition is over finitely many ids.
LEMMA OperandsFinite ==
  ASSUME NEW c, Condition(c)
  PROVE  IsFiniteSet(operands(c))
<1>1. Len(c) \in Nat /\ DOMAIN c = 1..Len(c)
  BY DEF Condition
<1>2. IsFiniteSet(DOMAIN c)
  BY <1>1, FS_Interval
<1> DEFINE L == {j \in DOMAIN c : c[j].op = "leaf"}
<1>3. IsFiniteSet(L)
  BY <1>2, FS_Subset
<1> DEFINE f == [i \in L |-> c[i].id]
           T == {c[i].id : i \in L}
<1>4. IsFiniteSet({c[i].id : i \in L})
  <2>1. f \in [L -> T]
    OBVIOUS
  <2>2. {f[i] : i \in L} = T
    OBVIOUS
  <2>3. IsFiniteSet({f[i] : i \in L})
    <3> HIDE DEF f, L, T
    <3> QED BY <1>3, <2>1, ImageFinite
  <2> QED BY <2>2, <2>3
<1> QED BY <1>4 DEF operands

-----------------------------------------------------------------------------
(* The fields of a rule result *)

\* The states of a rule result (aggregation.py:100).
RuleStates == {"MATCHED", "NOT_MATCHED", "INDETERMINATE", "SUPPRESSED", "NOT_APPLICABLE"}

\* A result that was not computed is empty but for its error.
LEMMA NotApplicableFields ==
  ASSUME NEW id, NEW code
  PROVE  LET r == not_applicable(id, code)
         IN  /\ r.id = id /\ r.kind = Rules[id].kind /\ r.state = "NOT_APPLICABLE" /\ r.required = "UNKNOWN"
             /\ r.positives = {} /\ r.classes = {} /\ r.negatives = {} /\ r.neutralised = {}
             /\ r.overrides = {} /\ r.reported = {} /\ r.context = {} /\ r.ambiguities = {}
             /\ r.unknowns = {} /\ r.prov = <<>> /\ r.severity = 0 /\ r.verdict = "NONE" /\ r.error = code
             /\ r.applied = {} /\ r.capped = {} /\ r.blocked = {}
BY DEF NoResult, not_applicable

\* The fields that suppression assigns.
Assigned == {"state", "severity", "applied", "capped", "blocked", "context", "required"}

\* Every result has the fields that suppression assigns.
LEMMA ResultDomains ==
  ASSUME NEW ctx, NEW id, NEW active, NEW matched, NEW pos, NEW code
  PROVE  /\ Assigned \subseteq DOMAIN NoResult(id)
         /\ Assigned \subseteq DOMAIN not_applicable(id, code)
         /\ Assigned \subseteq DOMAIN CompositeResult(ctx, id, active, matched, pos)
         /\ Assigned \subseteq DOMAIN evaluate_suppression(ctx, id)
<1>1. Assigned \subseteq DOMAIN NoResult(id)
  BY DEF NoResult, Assigned
<1> DEFINE none == NoResult(id)
<1>2. DOMAIN not_applicable(id, code) = DOMAIN none
  <2> HIDE DEF none
  <2> QED BY DEF not_applicable, none
<1>3. DOMAIN CompositeResult(ctx, id, active, matched, pos) = DOMAIN none
  BY DEF CompositeResult
<1>4. DOMAIN evaluate_suppression(ctx, id) = DOMAIN none
  BY DEF evaluate_suppression
<1> QED BY <1>1, <1>2, <1>3, <1>4

\* What suppression changes of a result that it has no reason to reject (suppression.py).
LEMMA ApplyFields ==
  ASSUME NEW r, Assigned \subseteq DOMAIN r,
         \/ r.kind # "COMPOSITE" \/ r.state # "MATCHED"
         \/ r.reported # {} =>
               r.reported = {n \in {n \in r.negatives : Negatives[n].effect \in Soft} :
                                is_blocked(n, BlockedCategories(r.overrides))}
  PROVE  LET s == apply(r)
             blocked == BlockedCategories(r.overrides)
             soft == {n \in r.negatives : Negatives[n].effect \in Soft}
             stopped == {n \in soft : is_blocked(n, blocked)}
             suppressors == {n \in soft \ stopped : Negatives[n].effect = "SUPPRESS_RULE"}
             caps == {n \in soft \ stopped : Negatives[n].effect = "CAP_SEVERITY"}
         IN  /\ r.kind # "COMPOSITE" \/ r.state # "MATCHED" => s = r
             /\ r.kind = "COMPOSITE" /\ r.state = "MATCHED" =>
                  /\ s.state = IF suppressors # {} THEN "SUPPRESSED" ELSE "MATCHED"
                  /\ s.severity = Min({r.severity} \cup {Negatives[n].cap : n \in caps})
             /\ s.id = r.id /\ s.kind = r.kind /\ s.required = r.required /\ s.positives = r.positives
             /\ s.classes = r.classes /\ s.negatives = r.negatives /\ s.neutralised = r.neutralised
             /\ s.overrides = r.overrides /\ s.reported = r.reported /\ s.ambiguities = r.ambiguities
             /\ s.unknowns = r.unknowns /\ s.conf = r.conf /\ s.prov = r.prov /\ s.verdict = r.verdict
             /\ s.error = r.error
BY DEF apply, Assigned

\* The truth of an indicator is one of the three values (evaluator.py _combine_positive).
LEMMA PositiveValue ==
  ASSUME NEW ctx, NEW p, NEW s
  PROVE  combine_positive(ctx, p, s).value \in Values
BY KleeneValues DEF combine_positive

\* So is the truth of each positive that a rule sees.
LEMMA RulePositiveValues ==
  ASSUME NEW ctx, NEW id
  PROVE  /\ DOMAIN RulePositives(ctx, id) = Present(ctx)
         /\ \A p \in Present(ctx) : RulePositives(ctx, id)[p].value \in Values
         /\ TruthTable([p \in Present(ctx) |-> RulePositives(ctx, id)[p].value])
BY PositiveValue DEF RulePositives, TruthTable

\* A capped severity is one.
LEMMA SeverityCapped ==
  ASSUME NEW a \in 1..4, NEW b \in 0..3
  PROVE  SevMin(a, b) \in 1..4
BY DEF SevMin

\* The knowledge that a published composite rule rests on (rule.schema.json).
LEMMA RuleShape ==
  ASSUME NEW id \in DOMAIN Rules
  PROVE  /\ Condition(Rules[id].cond) /\ Rules[id].kind \in {"COMPOSITE", "SUPPRESSION"}
         /\ id \in Nat /\ id # 0
         /\ Rules[id].kind = "COMPOSITE" =>
               /\ Rules[id].verdict \in DOMAIN VERDICT_RANK
               /\ Rules[id].severity \in 1..4 /\ Rules[id].severity_cap \in 0..3
               /\ Rules[id].min_classes \in Nat
               /\ operands(Rules[id].cond) \subseteq DOMAIN Indicators
         /\ Rules[id].kind = "SUPPRESSION" => operands(Rules[id].cond) \subseteq DOMAIN Negatives
<1>1. WellShaped /\ RuleReferences
  BY KnowledgeAccepted
<1>2. operands(Rules[id].cond) \subseteq
         IF Rules[id].kind = "COMPOSITE" THEN DOMAIN Indicators ELSE DOMAIN Negatives
  BY <1>1 DEF RuleReferences
<1> QED BY <1>1, <1>2 DEF WellShaped

\* What every rule result is, as the evaluator leaves it and as suppression does.
RuleSound(r) ==
    /\ r.id \in PublishedRules /\ r.kind = Rules[r.id].kind
    /\ r.state \in RuleStates
    /\ r.required \in Values
    /\ r.state \in {"MATCHED", "SUPPRESSED"} => r.required = "TRUE"
    /\ r.state = "INDETERMINATE" => r.required = "UNKNOWN"
    /\ r.state = "NOT_MATCHED" => r.required \in {"TRUE", "FALSE"}
    /\ (r.state = "NOT_APPLICABLE") = (r.error # "NONE")
    /\ r.kind = "COMPOSITE" /\ r.state # "NOT_APPLICABLE" =>
          r.verdict \in DOMAIN VERDICT_RANK /\ r.severity \in 1..4
    /\ r.positives \subseteq operands(Rules[r.id].cond) \cap DOMAIN Indicators
    /\ r.classes = {Indicators[p].class : p \in r.positives}
    /\ r.neutralised \subseteq DOMAIN Indicators
    /\ r.negatives \subseteq DOMAIN Negatives
    /\ r.overrides \subseteq DOMAIN Overrides
    /\ DOMAIN r.prov \subseteq r.positives

\* What the evaluator reports as blocked is what suppression finds blocked.
Fresh(r) ==
    /\ Assigned \subseteq DOMAIN r
    /\ r.state # "SUPPRESSED"
    /\ r.kind = "COMPOSITE" /\ r.state = "MATCHED" =>
          r.reported = {n \in {n \in r.negatives : Negatives[n].effect \in Soft} :
                            is_blocked(n, BlockedCategories(r.overrides))}

\* What the evaluator reports as blocked is what suppression blocks: the library keeps its promise.
LEMMA CandidatesStopped ==
  ASSUME NEW matched \in SUBSET DOMAIN Negatives, NEW active \in SUBSET DOMAIN Overrides
  PROVE  suppression_candidates(matched, active)
            = {n \in {n \in matched : Negatives[n].effect \in Soft} :
                  is_blocked(n, BlockedCategories(active))}
<1>1. ASSUME NEW n \in matched, Negatives[n].effect \in Soft,
             Negatives[n].category \in BlockedCategories(active)
      PROVE  Negatives[n].blockable /\ active # {}
  <2>1. PICK o \in active : Negatives[n].category \in Overrides[o].blocks
    BY <1>1 DEF BlockedCategories
  <2> QED BY <1>1, <2>1, SoftAreBlockable
<1> QED BY <1>1 DEF suppression_candidates, is_blocked

\* A composite rule has a sound result (evaluator.py _evaluate_composite).
LEMMA CompositeSound ==
  ASSUME NEW ctx, NEW id \in PublishedRules, Rules[id].kind = "COMPOSITE"
  PROVE  RuleSound(evaluate_composite(ctx, id)) /\ Fresh(evaluate_composite(ctx, id))
         /\ evaluate_composite(ctx, id).id = id
<1> DEFINE active == RuleOverrides(ctx, id)
           matched == RuleNegatives(ctx, id)
           pos == RulePositives(ctx, id)
           r == CompositeResult(ctx, id, active, matched, pos)
           required == eval_condition(Rules[id].cond, [p \in Present(ctx) |-> pos[p].value])
<1>1. id \in DOMAIN Rules
  BY DEF PublishedRules
<1>2. required \in Values
  BY <1>1, RuleShape, RulePositiveValues, EvalValue
<1>3. active \in SUBSET DOMAIN Overrides /\ matched \in SUBSET DOMAIN Negatives
  BY DEF RuleOverrides, active_overrides, RuleNegatives, active_negatives
<1>4. Present(ctx) \subseteq DOMAIN Indicators
  BY DEF Present
<1>5. /\ Rules[id].verdict \in DOMAIN VERDICT_RANK
      /\ SevMin(Rules[id].severity, Rules[id].severity_cap) \in 1..4
  BY <1>1, RuleShape, SeverityCapped
<1> HIDE DEF active, matched, pos
<1> DEFINE ops == operands(Rules[id].cond) \cap DOMAIN Indicators
           positives == {p \in ops \cap Present(ctx) : pos[p].value = "TRUE"}
<1>6. /\ r.id = id /\ r.kind = Rules[id].kind /\ r.required = required /\ r.error = "NONE"
      /\ required = "TRUE" => r.state \in {"MATCHED", "NOT_MATCHED"}
      /\ required = "FALSE" => r.state = "NOT_MATCHED"
      /\ required = "UNKNOWN" => r.state = "INDETERMINATE"
      /\ r.positives = positives
      /\ r.classes = {Indicators[p].class : p \in positives}
      /\ r.negatives = matched
      /\ r.neutralised = {p \in Present(ctx) : pos[p].value = "FALSE" /\ pos[p].neutralised}
      /\ r.overrides = active
      /\ r.reported = suppression_candidates(matched, active)
      /\ r.prov = [p \in {q \in positives : pos[q].groups # {}} |-> pos[p].groups]
      /\ r.severity = SevMin(Rules[id].severity, Rules[id].severity_cap)
      /\ r.verdict = Rules[id].verdict
  BY DEF NoResult, CompositeResult
<1>7. Assigned \subseteq DOMAIN r
  BY ResultDomains
<1>8. evaluate_composite(ctx, id) = r
  BY DEF evaluate_composite, active, matched, pos
<1> HIDE DEF r, required, ops
<1>9. /\ r.positives \subseteq ops /\ DOMAIN r.prov \subseteq r.positives
      /\ r.neutralised \subseteq DOMAIN Indicators /\ r.classes = {Indicators[p].class : p \in r.positives}
  BY <1>4, <1>6
<1> HIDE DEF positives
<1>10. r.state \in {"MATCHED", "NOT_MATCHED", "INDETERMINATE"}
  BY <1>2, <1>6 DEF Values
<1>11. RuleSound(r)
  BY <1>2, <1>3, <1>5, <1>6, <1>9, <1>10 DEF RuleSound, ops, Values, RuleStates
<1>12. Fresh(r)
  BY <1>3, <1>6, <1>7, <1>10, CandidatesStopped DEF Fresh
<1> QED BY <1>6, <1>8, <1>11, <1>12

\* A suppression rule has a sound result (evaluator.py _evaluate_suppression).
LEMMA SuppressionSound ==
  ASSUME NEW ctx, NEW id \in PublishedRules, Rules[id].kind # "COMPOSITE"
  PROVE  RuleSound(evaluate_suppression(ctx, id)) /\ Fresh(evaluate_suppression(ctx, id))
         /\ evaluate_suppression(ctx, id).id = id
<1> DEFINE present == {n \in DOMAIN Negatives : OccurrencesOf(ctx, n) # {}}
           truth == [n \in present |-> combine_negative(ctx, n)]
           required == eval_condition(Rules[id].cond, truth)
           r == evaluate_suppression(ctx, id)
<1>1. id \in DOMAIN Rules
  BY DEF PublishedRules
<1>2. TruthTable(truth)
  BY KleeneValues DEF TruthTable, combine_negative
<1>3. required \in Values
  <2> HIDE DEF truth
  <2> QED BY <1>1, <1>2, RuleShape, EvalValue
<1>4. /\ r.id = id /\ r.kind = Rules[id].kind /\ r.required = required /\ r.error = "NONE"
      /\ required = "TRUE" => r.state = "MATCHED"
      /\ required = "FALSE" => r.state = "NOT_MATCHED"
      /\ required = "UNKNOWN" => r.state = "INDETERMINATE"
      /\ r.positives = {} /\ r.classes = {} /\ r.neutralised = {}
      /\ r.negatives = {n \in operands(Rules[id].cond) \cap present : truth[n] = "TRUE"}
      /\ r.overrides = {} /\ r.prov = <<>>
  BY DEF NoResult, evaluate_suppression
<1>5. r.negatives \subseteq DOMAIN Negatives
  BY <1>4
<1>6. Assigned \subseteq DOMAIN r
  BY ResultDomains
<1>8. r.classes = {Indicators[p].class : p \in r.positives}
  BY <1>4
<1>9. DOMAIN r.prov = {}
  BY <1>4
<1> HIDE DEF r, required, truth
<1>10. r.state \in {"MATCHED", "NOT_MATCHED", "INDETERMINATE"}
  BY <1>3, <1>4 DEF Values
<1>11. RuleSound(r)
  BY <1>3, <1>4, <1>5, <1>8, <1>9, <1>10 DEF RuleSound, Values, RuleStates
<1>12. Fresh(r)
  BY <1>4, <1>6, <1>10 DEF Fresh
<1> QED BY <1>4, <1>11, <1>12 DEF r

\* A rule that does not apply has a sound result.
LEMMA NotApplicableSound ==
  ASSUME NEW id \in PublishedRules, NEW code, code # "NONE"
  PROVE  RuleSound(not_applicable(id, code)) /\ Fresh(not_applicable(id, code))
         /\ not_applicable(id, code).id = id
<1> DEFINE r == not_applicable(id, code)
<1>1. /\ r.id = id /\ r.kind = Rules[id].kind /\ r.state = "NOT_APPLICABLE" /\ r.required = "UNKNOWN"
      /\ r.positives = {} /\ r.classes = {} /\ r.negatives = {} /\ r.neutralised = {}
      /\ r.overrides = {} /\ r.prov = <<>> /\ r.error = code
  BY NotApplicableFields
<1>2. Assigned \subseteq DOMAIN r
  BY ResultDomains
<1>3. r.classes = {Indicators[p].class : p \in r.positives} /\ DOMAIN r.prov = {}
  BY <1>1
<1> HIDE DEF r
<1>4. RuleSound(r) /\ Fresh(r)
  BY <1>1, <1>2, <1>3 DEF RuleSound, Values, RuleStates, Fresh
<1> QED BY <1>1, <1>4 DEF r

\* Every result of the evaluator is sound (evaluator.py run_isolated).
LEMMA EvaluatedSound ==
  ASSUME NEW ctx, NEW id \in PublishedRules
  PROVE  /\ RuleSound(run_isolated(ctx, id)) /\ Fresh(run_isolated(ctx, id))
         /\ run_isolated(ctx, id).id = id
<1>1. CASE ~ language_in_scope(ctx, id)
  <2>1. run_isolated(ctx, id) = not_applicable(id, "LANGUAGE_OUT_OF_SCOPE")
    BY <1>1 DEF run_isolated
  <2> QED BY <2>1, NotApplicableSound
<1>2. CASE language_in_scope(ctx, id) /\ Rules[id].kind = "SUPPRESSION"
  <2>1. run_isolated(ctx, id) = evaluate_suppression(ctx, id)
    BY <1>2 DEF run_isolated
  <2> QED BY <1>2, <2>1, SuppressionSound
<1>3. CASE language_in_scope(ctx, id) /\ Rules[id].kind # "SUPPRESSION"
  <2>1. run_isolated(ctx, id) = evaluate_composite(ctx, id)
    BY <1>3 DEF run_isolated
  <2>2. Rules[id].kind = "COMPOSITE"
    BY <1>3, RuleShape DEF PublishedRules
  <2> QED BY <2>1, <2>2, CompositeSound
<1> QED BY <1>1, <1>2, <1>3

\* Suppression leaves a sound result, and lowers at most its severity and its state.
LEMMA AppliedSound ==
  ASSUME NEW r, RuleSound(r), Fresh(r)
  PROVE  RuleSound(apply(r)) /\ apply(r).id = r.id
<1> DEFINE s == apply(r)
           soft == {n \in r.negatives : Negatives[n].effect \in Soft}
           stopped == {n \in soft : is_blocked(n, BlockedCategories(r.overrides))}
           suppressors == {n \in soft \ stopped : Negatives[n].effect = "SUPPRESS_RULE"}
           caps == {n \in soft \ stopped : Negatives[n].effect = "CAP_SEVERITY"}
           levels == {r.severity} \cup {Negatives[n].cap : n \in caps}
<1>1. /\ r.kind # "COMPOSITE" \/ r.state # "MATCHED" => s = r
      /\ r.kind = "COMPOSITE" /\ r.state = "MATCHED" =>
           /\ s.state = IF suppressors # {} THEN "SUPPRESSED" ELSE "MATCHED"
           /\ s.severity = Min(levels)
      /\ s.id = r.id /\ s.kind = r.kind /\ s.required = r.required /\ s.positives = r.positives
      /\ s.classes = r.classes /\ s.negatives = r.negatives /\ s.neutralised = r.neutralised
      /\ s.overrides = r.overrides /\ s.prov = r.prov /\ s.verdict = r.verdict
      /\ s.error = r.error
  BY ApplyFields DEF Fresh
<1> HIDE DEF s, suppressors
<1>2. CASE r.kind # "COMPOSITE" \/ r.state # "MATCHED"
  BY <1>1, <1>2 DEF s
<1>3. CASE r.kind = "COMPOSITE" /\ r.state = "MATCHED"
  <2>1. r.severity \in 1..4 /\ r.required = "TRUE"
    BY <1>3 DEF RuleSound
  <2>2. \A n \in caps : Negatives[n].cap \in 1..3
    <3>1. WellShaped /\ r.negatives \subseteq DOMAIN Negatives
      BY KnowledgeAccepted DEF RuleSound
    <3> QED BY <3>1 DEF WellShaped
  <2> HIDE DEF caps
  <2>3. levels \subseteq 1..4 /\ levels # {}
    BY <2>1, <2>2
  <2> HIDE DEF levels
  <2>4. levels \in SUBSET Nat
    BY <2>3
  <2>5. Min(levels) \in 1..4
    BY <2>3, <2>4, LeastFacts
  <2>6. s.state \in {"MATCHED", "SUPPRESSED"} /\ s.severity \in 1..4
    BY <1>1, <1>3, <2>5
  <2>7. RuleSound(s)
    BY <1>1, <1>3, <2>1, <2>6 DEF RuleSound, RuleStates
  <2> QED BY <1>1, <2>7 DEF s
<1> QED BY <1>2, <1>3

\* The finiteness that the checks and the order need.
LEMMA SoundFinite ==
  ASSUME NEW r, RuleSound(r)
  PROVE  /\ IsFiniteSet(r.positives) /\ IsFiniteSet(r.classes) /\ Cardinality(r.classes) \in Nat
         /\ r.positives \subseteq DOMAIN Indicators
<1>1. r.id \in DOMAIN Rules
  BY DEF RuleSound, PublishedRules
<1>2. IsFiniteSet(operands(Rules[r.id].cond))
  BY <1>1, RuleShape, OperandsFinite
<1>3. r.positives \in SUBSET operands(Rules[r.id].cond) /\ r.positives \subseteq DOMAIN Indicators
  BY DEF RuleSound
<1>4. IsFiniteSet(r.positives)
  BY <1>2, <1>3, FS_Subset
<1> DEFINE f == [p \in r.positives |-> Indicators[p].class]
           T == {Indicators[p].class : p \in r.positives}
<1>5. f \in [r.positives -> T] /\ {f[p] : p \in r.positives} = T /\ r.classes = T
  BY DEF RuleSound
<1>6. IsFiniteSet(T)
  <2>1. IsFiniteSet({f[p] : p \in r.positives})
    <3> HIDE DEF f, T
    <3> QED BY <1>4, <1>5, ImageFinite
  <2> QED BY <1>5, <2>1
<1>7. Cardinality(T) \in Nat
  <2> HIDE DEF T
  <2> QED BY <1>6, FS_CardinalityType
<1> QED BY <1>3, <1>4, <1>5, <1>6, <1>7

\* A sound result passes the checks of aggregation (aggregation.py _check_semantic_invariants).
LEMMA SoundConsistent ==
  ASSUME NEW r, RuleSound(r)
  PROVE  check_semantic_invariants(r)
BY DEF RuleSound, check_semantic_invariants, RuleStates, Values

\* Rule results as a decision gets them.
SoundResults(rs) ==
    /\ IsFiniteSet(rs)
    /\ \A r \in rs : RuleSound(r)
    /\ \A r, s \in rs : r.id = s.id => r = s

\* Verdicts are ranked, and no two alike.
LEMMA VerdictFacts ==
  /\ \A v \in DOMAIN VERDICT_RANK :
        VERDICT_RANK[v] \in 0..3 /\ v \in DOMAIN VERDICT_STRENGTH_CAP /\ VERDICT_STRENGTH_CAP[v] \in 1..3
  /\ \A v, w \in DOMAIN VERDICT_RANK : VERDICT_RANK[v] = VERDICT_RANK[w] => v = w
BY DEF VERDICT_RANK, VERDICT_STRENGTH_CAP

\* The eligible results are finitely many, and have what aggregation computes with.
LEMMA EligibleFacts ==
  ASSUME NEW rs, SoundResults(rs)
  PROVE  /\ Eligible(rs) \subseteq rs /\ IsFiniteSet(Eligible(rs))
         /\ \A r \in Eligible(rs) :
               /\ RuleSound(r) /\ r.kind = "COMPOSITE" /\ r.state = "MATCHED" /\ r.required = "TRUE"
               /\ r.severity \in 1..4 /\ r.verdict \in DOMAIN VERDICT_RANK
               /\ Cardinality(r.classes) \in Nat /\ r.id \in Nat /\ r.id # 0 /\ r.id \in PublishedRules
<1>1. Eligible(rs) \in SUBSET rs
  BY DEF Eligible
<1>2. IsFiniteSet(Eligible(rs))
  BY <1>1, FS_Subset DEF SoundResults
<1>3. ASSUME NEW r \in Eligible(rs)
      PROVE  /\ RuleSound(r) /\ r.kind = "COMPOSITE" /\ r.state = "MATCHED" /\ r.required = "TRUE"
             /\ r.severity \in 1..4 /\ r.verdict \in DOMAIN VERDICT_RANK
             /\ Cardinality(r.classes) \in Nat /\ r.id \in Nat /\ r.id # 0 /\ r.id \in PublishedRules
  <2>1. RuleSound(r) /\ is_eligible_matched(r)
    BY <1>3 DEF SoundResults, Eligible
  <2>2. r.kind = "COMPOSITE" /\ r.state = "MATCHED" /\ r.required = "TRUE" /\ r.severity \in 1..4
    BY <2>1 DEF is_eligible_matched
  <2>3. r.verdict \in DOMAIN VERDICT_RANK /\ r.id \in PublishedRules
    BY <2>1, <2>2 DEF RuleSound
  <2>4. r.id \in Nat /\ r.id # 0
    BY <2>3, RuleShape DEF PublishedRules
  <2>5. Cardinality(r.classes) \in Nat
    BY <2>1, SoundFinite
  <2> QED BY <2>1, <2>2, <2>3, <2>4, <2>5
<1> QED BY <1>1, <1>2, <1>3

(* Among the eligible rules one comes before every other: the order of      *)
(* aggregation.py is total, as rule ids differ.                              *)
LEMMA GoverningExists ==
  ASSUME NEW rs, SoundResults(rs), Eligible(rs) # {}
  PROVE  \E r \in Eligible(rs) : \A s \in Eligible(rs) \ {r} : Precedes(r, s)
<1> DEFINE E == Eligible(rs)
           S1 == {r.severity : r \in E}
           E1 == {r \in E : r.severity = Max(S1)}
           S2 == {VERDICT_RANK[r.verdict] : r \in E1}
           E2 == {r \in E1 : VERDICT_RANK[r.verdict] = Max(S2)}
           S3 == {Cardinality(r.classes) : r \in E2}
           E3 == {r \in E2 : Cardinality(r.classes) = Max(S3)}
           S4 == {r.id : r \in E3}
<1>1. /\ IsFiniteSet(E) /\ E # {}
      /\ \A r \in E :
               /\ r.severity \in 1..4 /\ r.verdict \in DOMAIN VERDICT_RANK
               /\ Cardinality(r.classes) \in Nat /\ r.id \in Nat
      /\ \A r, s \in E : r.id = s.id => r = s
  BY EligibleFacts DEF SoundResults
<1> HIDE DEF E
<1>2. Max(S1) \in S1 /\ \A x \in S1 : x <= Max(S1)
  <2>1. S1 \in SUBSET (1..4) /\ S1 # {} /\ S1 \in SUBSET Nat
    BY <1>1
  <2>2. IsFiniteSet(1..4)
    BY SmallIntervals
  <2> HIDE DEF S1
  <2>3. IsFiniteSet(S1)
    BY <2>1, <2>2, FS_Subset
  <2> QED BY <2>1, <2>3, GreatestFacts
<1>3. E1 # {} /\ E1 \subseteq E
  BY <1>2
<1>4. \A r \in E : r \notin E1 => \A s \in E1 : s.severity > r.severity
  <2>0. \A r \in E : r.severity \in S1 /\ r.severity \in Nat
    BY <1>1
  <2>2. Max(S1) \in Nat
    BY <1>1, <1>2
  <2>1. \A r \in E : r.severity <= Max(S1) /\ r.severity \in Nat
    <3> HIDE DEF S1
    <3> QED BY <1>2, <2>0
  <2> HIDE DEF S1
  <2> QED BY <2>1, <2>2
<1>a. \A r, s \in E1 : r.severity = s.severity
  OBVIOUS
<1> HIDE DEF E1
<1>5. Max(S2) \in S2 /\ \A x \in S2 : x <= Max(S2)
  <2>1. S2 \in SUBSET (0..3) /\ S2 # {} /\ S2 \in SUBSET Nat
    <3>1. \A r \in E1 : VERDICT_RANK[r.verdict] \in 0..3
      BY <1>1, <1>3, VerdictFacts
    <3> QED BY <1>3, <3>1
  <2>2. IsFiniteSet(0..3)
    BY SmallIntervals
  <2> HIDE DEF S2
  <2>3. IsFiniteSet(S2)
    BY <2>1, <2>2, FS_Subset
  <2> QED BY <2>1, <2>3, GreatestFacts
<1>6. E2 # {} /\ E2 \subseteq E1
  BY <1>5
<1>7. \A r \in E1 : r \notin E2 => \A s \in E2 : VERDICT_RANK[s.verdict] > VERDICT_RANK[r.verdict]
  <2>1. \A r \in E1 : VERDICT_RANK[r.verdict] \in Nat
    BY <1>1, <1>3, VerdictFacts
  <2>0. \A r \in E1 : VERDICT_RANK[r.verdict] \in S2
    OBVIOUS
  <2>2. \A r \in E1 : VERDICT_RANK[r.verdict] <= Max(S2)
    <3> HIDE DEF S2
    <3> QED BY <1>5, <2>0
  <2>3. Max(S2) \in Nat
    BY <1>5, <2>1
  <2> HIDE DEF S2
  <2> QED BY <2>1, <2>2, <2>3
<1>b. \A r, s \in E2 : r.verdict = s.verdict
  <2>1. \A r, s \in E2 : VERDICT_RANK[r.verdict] = VERDICT_RANK[s.verdict]
    OBVIOUS
  <2> QED BY <1>1, <1>3, <1>6, <2>1, VerdictFacts
<1> HIDE DEF E2
<1>8. Max(S3) \in S3 /\ \A x \in S3 : x <= Max(S3)
  <2> DEFINE f == [r \in E2 |-> Cardinality(r.classes)]
  <2>1. S3 \in SUBSET Nat /\ S3 # {}
    BY <1>1, <1>3, <1>6
  <2>2. f \in [E2 -> Nat] /\ {f[r] : r \in E2} = S3
    BY <1>1, <1>3, <1>6
  <2>3. E2 \in SUBSET E
    BY <1>3, <1>6
  <2>4. IsFiniteSet(E2)
    BY <1>1, <2>3, FS_Subset
  <2>5. IsFiniteSet({f[r] : r \in E2})
    <3> HIDE DEF f
    <3>1. f \in [E2 -> Nat]
      BY <2>2
    <3> QED BY ONLY <2>4, <3>1, ImageFinite
  <2>6. IsFiniteSet(S3)
    BY <2>2, <2>5
  <2> HIDE DEF S3
  <2> QED BY <2>1, <2>6, GreatestFacts
<1>9. E3 # {} /\ E3 \subseteq E2
  BY <1>8
<1>10. \A r \in E2 : r \notin E3 => \A s \in E3 : Cardinality(s.classes) > Cardinality(r.classes)
  <2>1. \A r \in E2 : Cardinality(r.classes) \in Nat
    BY <1>1, <1>3, <1>6
  <2>2. \A r \in E2 : Cardinality(r.classes) <= Max(S3)
    BY <1>8
  <2>3. Max(S3) \in Nat
    BY <1>8, <2>1
  <2> HIDE DEF S3
  <2> QED BY <2>1, <2>2, <2>3
<1>c. \A r, s \in E3 : Cardinality(r.classes) = Cardinality(s.classes)
  OBVIOUS
<1> HIDE DEF E3
<1>11. S4 \in SUBSET Nat /\ S4 # {}
  BY <1>1, <1>3, <1>6, <1>9
<1>12. PICK g \in E3 : \A s \in E3 : g.id <= s.id
  <2>1. PICK m \in S4 : \A y \in S4 : m <= y
    <3> HIDE DEF S4
    <3> QED BY <1>11, LeastExists
  <2> QED BY <2>1
<1>13. ASSUME NEW s \in E \ {g} PROVE Precedes(g, s)
  <2>0. g \in E /\ g \in E1 /\ g \in E2 /\ g \in E3
    BY <1>3, <1>6, <1>9
  <2>1. CASE s \notin E1
    BY <1>4, <2>0, <2>1 DEF Precedes
  <2>2. CASE s \in E1 /\ s \notin E2
    BY <1>7, <1>a, <2>0, <2>2 DEF Precedes
  <2>3. CASE s \in E2 /\ s \notin E3
    BY <1>6, <1>10, <1>a, <1>b, <2>0, <2>3 DEF Precedes
  <2>4. CASE s \in E3
    <3>1. g.id # s.id /\ g.id \in Nat /\ s.id \in Nat /\ g.id <= s.id
      BY <1>1, <1>12, <1>13, <2>0, <2>4
    <3> QED BY <1>6, <1>9, <1>a, <1>b, <1>c, <2>0, <2>4, <3>1 DEF Precedes
  <2> QED BY <2>1, <2>2, <2>3, <2>4
<1> QED BY <1>3, <1>6, <1>9, <1>12, <1>13 DEF E

\* The governing rule is one of the eligible rules (aggregation.py _select_governing).
LEMMA GoverningFacts ==
  ASSUME NEW rs, SoundResults(rs), Eligible(rs) # {}
  PROVE  select_governing(Eligible(rs)) \in Eligible(rs)
BY GoverningExists DEF select_governing

(* What the later stages demand of a classification and its axes: they go   *)
(* together with the eligible rules.                                         *)
Consistent(rs, support, class, axes, gov, whole) ==
    /\ axes[1] \in 0..4 /\ axes[2] \in 0..3 /\ axes[3] \in 0..3
    /\ whole => class = "ERROR"
    /\ support = "UNSUPPORTED" => class = "UNSUPPORTED"
    /\ support = "ERROR" => class = "ERROR"
    /\ support = "INSUFFICIENT_INFORMATION" => class = "INSUFFICIENT_EVIDENCE"
    /\ Eligible(rs) # {} =>
          /\ class \in SCAM /\ support \in Evaluable
          /\ \E r \in Eligible(rs) : r.id = gov
          /\ axes[1] # 0 /\ axes[2] # 0 /\ axes[3] # 0
          /\ (class = "SCAM_PATTERN_SUSPECTED") = (axes[3] = 1)
    /\ Eligible(rs) = {} =>
          /\ gov = 0 /\ axes[1] = 0 /\ axes[2] = 0 /\ axes[3] = 0
          /\ class \in {"NO_SCAM_PATTERN", "INSUFFICIENT_EVIDENCE", "UNSUPPORTED", "ERROR"}
          /\ class = "NO_SCAM_PATTERN" => support \in Evaluable
          /\ class = "UNSUPPORTED" => support = "UNSUPPORTED"
          /\ class = "ERROR" => support = "ERROR" \/ whole

\* The risk matrix is total, and its risks are there exactly when a severity is.
LEMMA RiskFacts ==
  ASSUME NEW severity \in 0..4, NEW strength \in 0..3, severity # 0 => strength # 0
  PROVE  risk_level(severity, strength) \in 0..4 /\ (risk_level(severity, strength) = 0) = (severity = 0)
<1>1. \A s \in 1..4, t \in 1..3 : RISK_MATRIX[s][t] \in 1..4
  BY DEF RISK_MATRIX
<1> QED BY <1>1 DEF risk_level

\* The roll-ups are recomputed from the same results (explanation.py validate_wp5_rollups).
LEMMA RollupsAgree ==
  ASSUME NEW support, NEW class, NEW axes, NEW gov, NEW rs, NEW whole
  PROVE  validate_wp5_rollups(assemble(support, class, axes, gov, Eligible(rs), rs, whole))
BY DEF assemble, validate_wp5_rollups, Eligible, Composites

\* What is assembled over consistent axes passes the later checks (explanation.py, result.py).
LEMMA AssembledSound ==
  ASSUME NEW rs, SoundResults(rs), NEW support, NEW class, NEW axes, NEW gov, NEW whole,
         Consistent(rs, support, class, axes, gov, whole)
  PROVE  LET d == assemble(support, class, axes, gov, Eligible(rs), rs, whole)
         IN  /\ validate_explanation_input(d)
             /\ (\A r \in rs : r.kind = "SUPPRESSION" => r.state # "MATCHED") => ~ semantic_violations(d)
<1> DEFINE d == assemble(support, class, axes, gov, Eligible(rs), rs, whole)
<1>1. /\ d.support = support /\ d.class = class /\ d.severity = axes[1] /\ d.strength = axes[2]
      /\ d.risk = risk_level(axes[1], axes[2]) /\ d.confidence = axes[3]
      /\ d.governing = gov
      /\ d.matched_rules = {r.id : r \in Eligible(rs)}
      /\ d.overrides = UNION {r.overrides : r \in Composites(rs)}
      /\ d.whole = whole /\ d.results = rs
  BY DEF assemble
<1>2. validate_wp5_rollups(d)
  BY RollupsAgree
<1> HIDE DEF d
<1>3. /\ Eligible(rs) \subseteq rs
      /\ \A r \in Eligible(rs) : r.id \in PublishedRules /\ r.id # 0
  BY EligibleFacts
<1>4. axes[1] # 0 => axes[2] # 0
  BY DEF Consistent
<1>5. d.risk \in 0..4 /\ (d.risk = 0) = (d.severity = 0)
  BY <1>1, <1>4, RiskFacts DEF Consistent
<1>6. validate_classification(d)
  <2>1. CASE Eligible(rs) # {}
    <3>1. /\ class \in SCAM /\ support \in Evaluable /\ ~ whole
          /\ \E r \in Eligible(rs) : r.id = gov
          /\ axes[1] # 0 /\ axes[2] # 0 /\ axes[3] # 0
          /\ (class = "SCAM_PATTERN_SUSPECTED") = (axes[3] = 1)
      BY <2>1 DEF Consistent, SCAM
    <3>2. gov \in d.matched_rules
      BY <1>1, <3>1
    <3> QED BY <1>1, <1>5, <3>1, <3>2 DEF validate_classification, SCAM
  <2>2. CASE Eligible(rs) = {}
    <3>1. /\ gov = 0 /\ axes[1] = 0 /\ axes[2] = 0 /\ axes[3] = 0
          /\ class \in {"NO_SCAM_PATTERN", "INSUFFICIENT_EVIDENCE", "UNSUPPORTED", "ERROR"}
          /\ class = "NO_SCAM_PATTERN" => support \in Evaluable
          /\ class = "UNSUPPORTED" => support = "UNSUPPORTED"
          /\ class = "ERROR" => support = "ERROR" \/ whole
          /\ whole => class = "ERROR"
      BY <2>2 DEF Consistent
    <3> QED BY <1>1, <1>5, <2>2, <3>1 DEF validate_classification, SCAM
  <2> QED BY <2>1, <2>2
<1>7. contributing_rule_ids(d) \subseteq PublishedRules
  <2>1. d.matched_rules \subseteq PublishedRules
    BY <1>1, <1>3
  <2>2. Unresolved(d) \subseteq PublishedRules
    BY <1>1 DEF Unresolved, SoundResults, RuleSound
  <2>3. d.governing # 0 => d.governing \in PublishedRules
    BY <1>1, <1>3 DEF Consistent
  <2> QED BY <2>1, <2>2, <2>3 DEF contributing_rule_ids
<1>8. \A r \in d.results : check_semantic_invariants(r) /\ r.id \in DOMAIN Rules
  BY <1>1, SoundConsistent DEF SoundResults, RuleSound, PublishedRules
<1>9. d.overrides \subseteq DOMAIN Overrides
  BY <1>1 DEF Composites, SoundResults, RuleSound
<1>10. validate_explanation_input(d)
  BY <1>2, <1>6, <1>7, <1>8, <1>9 DEF validate_explanation_input
<1>11. ASSUME \A r \in rs : r.kind = "SUPPRESSION" => r.state # "MATCHED"
       PROVE  ~ semantic_violations(d)
  <2> DEFINE M == {x \in rs : x.state = "MATCHED"}
  <2>1. M = Eligible(rs)
    <3>1. ASSUME NEW x \in rs, x.state = "MATCHED" PROVE is_eligible_matched(x)
      <4>1. RuleSound(x)
        BY DEF SoundResults
      <4>2. x.kind = "COMPOSITE"
        BY <1>11, <3>1, <4>1, RuleShape DEF RuleSound, PublishedRules
      <4> QED BY <3>1, <4>1, <4>2 DEF RuleSound, is_eligible_matched
    <3> QED BY <3>1 DEF Eligible, is_eligible_matched
  <2>2. {r.id : r \in {x \in d.results : x.state = "MATCHED"}} = d.matched_rules
    BY <1>1, <2>1
  <2>3. d.matched_rules = {} <=> Eligible(rs) = {}
    BY <1>1
  <2> HIDE DEF M
  <2>4. CASE Eligible(rs) # {}
    <3>1. /\ class \in SCAM /\ support \in Evaluable
          /\ axes[1] # 0 /\ axes[2] # 0 /\ axes[3] # 0
          /\ (class = "SCAM_PATTERN_SUSPECTED") = (axes[3] = 1)
      BY <2>4 DEF Consistent
    <3> QED BY <1>1, <1>5, <2>2, <2>3, <2>4, <3>1 DEF semantic_violations, Evaluable
  <2>5. CASE Eligible(rs) = {}
    <3>1. /\ axes[1] = 0 /\ axes[2] = 0 /\ axes[3] = 0
          /\ class \notin SCAM
          /\ support = "UNSUPPORTED" => class = "UNSUPPORTED"
          /\ support = "ERROR" => class = "ERROR"
          /\ support = "INSUFFICIENT_INFORMATION" => class = "INSUFFICIENT_EVIDENCE"
      BY <2>5 DEF Consistent, SCAM
    <3> QED BY <1>1, <1>5, <2>2, <2>3, <2>5, <3>1 DEF semantic_violations
  <2> QED BY <2>4, <2>5
<1> QED BY <1>10, <1>11 DEF d

\* HIGH confidence rests on three independent classes or on an override.
LEMMA ConfidenceFacts ==
  ASSUME NEW gov, NEW count
  PROVE  /\ detection_confidence(gov, count) \in 1..3
         /\ detection_confidence(gov, count) = 3 => count >= 3 \/ gov.overrides # {}
BY DEF detection_confidence

\* Min and Max of two levels.
LEMMA LesserFacts ==
  ASSUME NEW a \in Nat, NEW b \in Nat
  PROVE  /\ Min({a, b}) = IF a <= b THEN a ELSE b
         /\ Max({a, b}) = IF a <= b THEN b ELSE a
<1>1. {a, b} \in SUBSET Nat /\ {a, b} # {} /\ IsFiniteSet({a, b})
  <2>1. IsFiniteSet({a}) /\ {a, b} = {a} \cup {b}
    BY FS_Singleton
  <2>2. IsFiniteSet({a} \cup {b})
    BY <2>1, FS_AddElement
  <2> QED BY <2>1, <2>2
<1>2. Min({a, b}) \in {a, b} /\ \A y \in {a, b} : Min({a, b}) <= y
  BY <1>1, LeastFacts
<1>3. Max({a, b}) \in {a, b} /\ \A y \in {a, b} : y <= Max({a, b})
  BY <1>1, GreatestFacts
<1> QED BY <1>2, <1>3

\* The evidence strength of a rule is WEAK, MODERATE or STRONG.
LEMMA StrengthFacts ==
  ASSUME NEW r, RuleSound(r), r.verdict \in DOMAIN VERDICT_RANK
  PROVE  rule_evidence_strength(r) \in 1..3
<1> DEFINE S == {Indicators[p].strength : p \in r.positives}
           f == [p \in r.positives |-> Indicators[p].strength]
           T == {1} \cup S
           cap == VERDICT_STRENGTH_CAP[r.verdict]
<1>1. IsFiniteSet(r.positives) /\ r.positives \subseteq DOMAIN Indicators
  BY SoundFinite
<1>2. WellShaped
  BY KnowledgeAccepted
<1>3. S \subseteq 1..3
  BY <1>1, <1>2 DEF WellShaped
<1>4. T \in SUBSET Nat /\ T # {} /\ T \subseteq 1..4 /\ T \subseteq 1..3
  BY <1>3
<1>5. Max(T) \in 1..3
  <2> HIDE DEF T
  <2>1. T \in SUBSET (1..4)
    BY <1>4
  <2>2. IsFiniteSet(T)
    BY <2>1, SmallIntervals, FS_Subset
  <2>3. Max(T) \in T
    BY <1>4, <2>2, GreatestFacts
  <2> QED BY <1>4, <2>3
<1>6. cap \in 1..3
  BY VerdictFacts
<1> DEFINE best == Max(T)
           capped == Min({best, cap})
<1>7. capped \in 1..3
  <2> HIDE DEF best, cap
  <2> QED BY <1>5, <1>6, LesserFacts DEF best
<1>8. Max({capped, 2}) \in 1..3
  <2> HIDE DEF capped
  <2> QED BY <1>7, LesserFacts
<1> HIDE DEF capped
<1>9. rule_evidence_strength(r) = IF r.overrides # {} THEN Max({capped, 2}) ELSE capped
  BY DEF rule_evidence_strength, capped
<1> QED BY <1>7, <1>8, <1>9

\* What the decision is over sound results: an assembled one, whose class and axes are consistent.
Aggregated(rs, support, whole, class, axes, gov) ==
    /\ aggregate_decision(rs, support, whole) = assemble(support, class, axes, gov, Eligible(rs), rs, whole)
    /\ Consistent(rs, support, class, axes, gov, whole)
    /\ class = "NO_SCAM_PATTERN" =>
          support \in Evaluable /\ ~ \E r \in rs : is_degraded(r) \/ is_unresolved_harmful(r)
    /\ Eligible(rs) = {} => axes[4] = 0 /\ axes[5] \in 0..1
    /\ Eligible(rs) # {} =>
          /\ axes[1] = Max({r.severity : r \in Eligible(rs)})
          /\ axes[4] = proven_independence(Eligible(rs))
          /\ \E g \in Eligible(rs) :
                /\ gov = g.id /\ axes[5] = CorroborationBand(axes[4], g.verdict)
                /\ axes[3] = 3 =>
                      /\ ~ \E r \in rs : is_degraded(r)
                      /\ axes[4] >= 3 \/ g.overrides # {}

\* The decision when no rule is eligible.
LEMMA AggregateQuiet ==
  ASSUME NEW rs, SoundResults(rs), NEW support \in Supports, NEW whole \in BOOLEAN,
         support \notin Evaluable => rs = {}, whole => support = "ERROR", Eligible(rs) = {}
  PROVE  \E class, axes, gov : Aggregated(rs, support, whole, class, axes, gov)
<1> DEFINE quiet == classify(support, {}, rs, 0, whole)
           band == IF whole \/ support \notin Evaluable THEN 0 ELSE corroboration_no_fire(rs, quiet)
           axes == <<0, 0, 0, 0, band>>
<1>1. aggregate_decision(rs, support, whole) = assemble(support, quiet, axes, 0, Eligible(rs), rs, whole)
  BY DEF aggregate_decision
<1>2. band \in 0..1
  BY DEF corroboration_no_fire
<1>3. /\ whole \/ support = "ERROR" => quiet = "ERROR"
      /\ ~ whole /\ support = "UNSUPPORTED" => quiet = "UNSUPPORTED"
      /\ ~ whole /\ support = "INSUFFICIENT_INFORMATION" => quiet = "INSUFFICIENT_EVIDENCE"
      /\ ~ whole /\ support \in Evaluable =>
            \/ quiet = "INSUFFICIENT_EVIDENCE"
            \/ quiet = "NO_SCAM_PATTERN" /\ ~ \E r \in rs : is_degraded(r) \/ is_unresolved_harmful(r)
  BY DEF classify, Evaluable
<1> HIDE DEF quiet, band
<1>4. axes[1] = 0 /\ axes[2] = 0 /\ axes[3] = 0 /\ axes[4] = 0 /\ axes[5] \in 0..1
  BY <1>2
<1> HIDE DEF axes
<1>5. support \in Evaluable \/ support \in {"UNSUPPORTED", "INSUFFICIENT_INFORMATION", "ERROR"}
  BY DEF Supports, Evaluable
<1>6. CASE support \in Evaluable
  <2>1. ~ whole /\ support # "ERROR" /\ support # "UNSUPPORTED" /\ support # "INSUFFICIENT_INFORMATION"
    BY <1>6 DEF Evaluable
  <2>2. Consistent(rs, support, quiet, axes, 0, whole)
    BY <1>3, <1>4, <1>6, <2>1 DEF Consistent
  <2> QED BY <1>1, <1>3, <1>4, <1>6, <2>1, <2>2 DEF Aggregated
<1>7. CASE support \in {"UNSUPPORTED", "INSUFFICIENT_INFORMATION", "ERROR"}
  <2>1. /\ support = "ERROR" => quiet = "ERROR"
        /\ support = "UNSUPPORTED" => quiet = "UNSUPPORTED" /\ ~ whole
        /\ support = "INSUFFICIENT_INFORMATION" => quiet = "INSUFFICIENT_EVIDENCE" /\ ~ whole
    BY <1>3
  <2>2. Consistent(rs, support, quiet, axes, 0, whole)
    BY <1>4, <1>7, <2>1 DEF Consistent
  <2>3. quiet # "NO_SCAM_PATTERN"
    BY <1>7, <2>1
  <2> QED BY <1>1, <1>4, <2>2, <2>3 DEF Aggregated
<1> QED BY <1>5, <1>6, <1>7

\* The decision when some rule is eligible.
LEMMA AggregateFires ==
  ASSUME NEW rs, SoundResults(rs), NEW support \in Supports, NEW whole \in BOOLEAN,
         support \notin Evaluable => rs = {}, whole => support = "ERROR", Eligible(rs) # {}
  PROVE  \E class, axes, gov : Aggregated(rs, support, whole, class, axes, gov)
<1> DEFINE E == Eligible(rs)
           g == select_governing(E)
           count == proven_independence(E)
           sure == detection_confidence(g, count)
           conf == IF \E r \in rs : is_degraded(r) THEN Min({sure, 2}) ELSE sure
           class == classify(support, E, rs, conf, whole)
           sev == Max({r.severity : r \in E})
           strength == rule_evidence_strength(g)
           axes == <<sev, strength, conf, count, CorroborationBand(count, g.verdict)>>
<1>0. E \subseteq rs /\ E # {}
  BY EligibleFacts
<1>1. support \in Evaluable /\ ~ whole
  BY <1>0 DEF Evaluable
<1>2. aggregate_decision(rs, support, whole) = assemble(support, class, axes, g.id, E, rs, whole)
  BY <1>0, <1>1 DEF aggregate_decision
<1>3. g \in E /\ RuleSound(g) /\ g.verdict \in DOMAIN VERDICT_RANK
  BY GoverningFacts, EligibleFacts
<1>4. sure \in 1..3 /\ (sure = 3 => count >= 3 \/ g.overrides # {})
  <2> HIDE DEF g, count
  <2> QED BY ConfidenceFacts
<1>5. conf \in 1..3 /\ (conf = 3 => sure = 3 /\ ~ \E r \in rs : is_degraded(r))
  <2> HIDE DEF sure
  <2>1. Min({sure, 2}) \in 1..2
    BY <1>4, LesserFacts
  <2> QED BY <1>4, <2>1
<1>6. class = IF conf = 1 THEN "SCAM_PATTERN_SUSPECTED" ELSE "SCAM_PATTERN_DETECTED"
  BY <1>0, <1>1 DEF classify, Evaluable
<1>7. strength \in 1..3
  <2> HIDE DEF g
  <2> QED BY <1>3, StrengthFacts
<1>8. sev \in 1..4
  <2> DEFINE S == {r.severity : r \in E}
  <2>1. S \in SUBSET (1..4) /\ S # {} /\ S \in SUBSET Nat
    BY <1>0, EligibleFacts
  <2> HIDE DEF S
  <2>2. IsFiniteSet(S)
    BY <2>1, SmallIntervals, FS_Subset
  <2>3. Max(S) \in S
    BY <2>1, <2>2, GreatestFacts
  <2> QED BY <2>1, <2>3 DEF S
<1>9. /\ axes[1] = sev /\ axes[2] = strength /\ axes[3] = conf /\ axes[4] = count
      /\ axes[5] = CorroborationBand(count, g.verdict)
  OBVIOUS
<1> HIDE DEF sure, conf, class, sev, strength, axes, g, count, E
<1>10. Consistent(rs, support, class, axes, g.id, whole)
  <2>1. /\ class \in SCAM /\ support \in Evaluable /\ class # "NO_SCAM_PATTERN"
        /\ (class = "SCAM_PATTERN_SUSPECTED") = (axes[3] = 1)
    BY <1>1, <1>6, <1>9 DEF SCAM
  <2>2. support # "UNSUPPORTED" /\ support # "ERROR" /\ support # "INSUFFICIENT_INFORMATION"
    BY <1>1 DEF Evaluable
  <2> QED BY <1>0, <1>1, <1>3, <1>5, <1>7, <1>8, <1>9, <2>1, <2>2 DEF Consistent, E
<1>11. class # "NO_SCAM_PATTERN"
  BY <1>6
<1>12. Aggregated(rs, support, whole, class, axes, g.id)
  BY <1>0, <1>2, <1>3, <1>4, <1>5, <1>9, <1>10, <1>11 DEF Aggregated, E, count, sev
<1> QED BY <1>12

\* The decision is always an assembled one.
LEMMA AggregateFacts ==
  ASSUME NEW rs, SoundResults(rs), NEW support \in Supports, NEW whole \in BOOLEAN,
         support \notin Evaluable => rs = {}, whole => support = "ERROR"
  PROVE  \E class, axes, gov : Aggregated(rs, support, whole, class, axes, gov)
BY AggregateQuiet, AggregateFires

-----------------------------------------------------------------------------
(* The observations that the kernel consumes *)

\* Observation identifiers differ.
UniqueObs(obs) == \A a, b \in obs : a.id = b.id => a = b

\* An observation is found by its identifier.
LEMMA ByIdFacts ==
  ASSUME NEW obs, UniqueObs(obs), NEW o \in obs
  PROVE  o.id \in DOMAIN ById(obs) /\ ById(obs)[o.id] = o
BY DEF ById, UniqueObs

\* What is grounded in an accepted answer is mapped to host data of the same input.
LEMMA MappedShape ==
  ASSUME NEW x
  PROVE  /\ IsFiniteSet(x.obs) => IsFiniteSet(MappedObs(x))
         /\ IsFiniteSet(x.inds) => IsFiniteSet(MappedInds(x))
<1> DEFINE mo(o) == [id |-> ObservationId(o.pid), status |-> o.status, polarity |-> o.polarity,
                     attribution |-> o.attribution, mood |-> o.mood, input |-> o.input]
           mi(i) == [ind |-> i.ind, matched |-> i.matched, conf |-> CappedLevel(i.matched),
                     polarity |-> i.polarity, refs |-> {ObservationId(r) : r \in i.refs}, input |-> i.input]
           XO == x.obs
           XI == x.inds
           f == [o \in XO |-> mo(o)]
           g == [i \in XI |-> mi(i)]
           MO == MappedObs(x)
           MI == MappedInds(x)
<1>1. {f[o] : o \in XO} = MO
  BY DEF MappedObs
<1>2. {g[i] : i \in XI} = MI
  BY DEF MappedInds
<1>3. ASSUME IsFiniteSet(x.obs) PROVE IsFiniteSet(MappedObs(x))
  <2>1. IsFiniteSet(XO) /\ f \in [XO -> MO]
    BY <1>3 DEF MappedObs
  <2> HIDE DEF f, XO, MO
  <2>2. IsFiniteSet({f[o] : o \in XO})
    BY <2>1, ImageFinite
  <2> QED BY <1>1, <2>2 DEF MO
<1>4. ASSUME IsFiniteSet(x.inds) PROVE IsFiniteSet(MappedInds(x))
  <2>1. IsFiniteSet(XI) /\ g \in [XI -> MI]
    BY <1>4 DEF MappedInds
  <2> HIDE DEF g, XI, MI
  <2>2. IsFiniteSet({g[i] : i \in XI})
    BY <2>1, ImageFinite
  <2> QED BY <1>2, <2>2 DEF MI
<1> QED BY <1>3, <1>4

\* A set within a singleton has at most one member.
LEMMA AtMostOne ==
  ASSUME NEW S, NEW e, S \subseteq {e}
  PROVE  Cardinality(S) <= 1 /\ IsFiniteSet(S)
<1>1. IsFiniteSet({e}) /\ Cardinality({e}) = 1
  BY FS_Singleton
<1> QED BY <1>1, FS_Subset

\* The combined artifact is a valid context when the host's was (integration.py _map).
LEMMA CombinedValid ==
  ASSUME NEW h, NEW x, ValidContext(h.occs, h.obs), Mappable(h, x), validate_ai_extraction(x, h.id)
  PROVE  ValidContext(map_ai(h, x).occs, map_ai(h, x).obs)
<1> DEFINE MO == MappedObs(x)
           MI == MappedInds(x)
           O == h.obs \cup MO
           I == h.occs \cup MI
           inputs == {io.input : io \in I} \cup {o.input : o \in O}
<1>1. map_ai(h, x).occs = I /\ map_ai(h, x).obs = O
  BY DEF map_ai
<1>2. ValidContext(MI, MO)
  BY DEF Mappable
<1>3. \A a \in h.obs, b \in MO : a.id # b.id
  <2>1. \A b \in MO : \E o \in x.obs : b.id = ObservationId(o.pid)
    BY DEF MappedObs
  <2> HIDE DEF MO
  <2> QED BY <2>1 DEF Mappable
<1>4. \A b \in MO : b.input = h.id
  BY DEF MappedObs, validate_ai_extraction
<1>5. \A i \in MI : i.input = h.id
  BY DEF MappedInds, validate_ai_extraction
<1>6. (MO = {} /\ MI = {}) \/ \A e \in h.obs \cup h.occs : e.input = h.id
  <2>1. x.obs = {} /\ x.inds = {} => MO = {} /\ MI = {}
    BY DEF MappedObs, MappedInds
  <2> HIDE DEF MO, MI
  <2> QED BY <2>1 DEF Mappable
<1> HIDE DEF MO, MI
<1>7. UniqueObs(h.obs) /\ UniqueObs(MO) /\ UniqueObs(O)
  BY <1>2, <1>3 DEF ValidContext, UniqueObs
<1>8. Cardinality(inputs) <= 1
  <2>1. CASE MO = {} /\ MI = {}
    <3>1. O = h.obs /\ I = h.occs
      BY <2>1
    <3> QED BY <3>1 DEF ValidContext
  <2>2. CASE \A e \in h.obs \cup h.occs : e.input = h.id
    <3>1. inputs \subseteq {h.id}
      BY <1>4, <1>5, <2>2
    <3> HIDE DEF inputs
    <3> QED BY <3>1, AtMostOne
  <2> QED BY <1>6, <2>1, <2>2
<1>9. ASSUME NEW io \in I
      PROVE  /\ io.refs \subseteq {o.id : o \in O}
             /\ \A r \in io.refs :
                   ~ (io.matched = "OBSERVED" /\ ById(O)[r].status \in {"NOT_OBSERVED", "NOT_APPLICABLE"})
  <2>1. PICK P \in {h.obs, MO} :
           /\ io.refs \subseteq {o.id : o \in P}
           /\ \A r \in io.refs :
                 ~ (io.matched = "OBSERVED" /\ ById(P)[r].status \in {"NOT_OBSERVED", "NOT_APPLICABLE"})
    <3>1. CASE io \in h.occs
      BY <3>1 DEF ValidContext
    <3>2. CASE io \in MI
      BY <1>2, <3>2 DEF ValidContext
    <3> QED BY <3>1, <3>2
  <2>2. P \subseteq O /\ UniqueObs(P)
    BY <1>7
  <2>3. ASSUME NEW r \in io.refs PROVE ById(O)[r] = ById(P)[r] /\ r \in {o.id : o \in O}
    <3>1. PICK o \in P : o.id = r
      BY <2>1
    <3> HIDE DEF O
    <3> QED BY <1>7, <2>2, <3>1, ByIdFacts
  <2> HIDE DEF O
  <2> QED BY <2>1, <2>3
<1> HIDE DEF inputs
<1>10. Cardinality({io.input : io \in I} \cup {o.input : o \in O}) <= 1
  BY <1>8 DEF inputs
<1> HIDE DEF I, O
<1> QED BY <1>1, <1>7, <1>9, <1>10 DEF ValidContext, UniqueObs

-----------------------------------------------------------------------------
(* Results of a run *)

\* Without rules there are no results.
LEMMA NoResults ==
  ResultSet(apply_all(<<>>)) = {} /\ ResultSet(<<>>) = {} /\ DOMAIN apply_all(<<>>) = {}
BY DEF ResultSet, apply_all

\* The rule results of an evaluation are sound, one for each published rule.
LEMMA ResultsSound ==
  ASSUME NEW ctx, NEW i, i = evaluate_rules(ctx)
  PROVE  /\ SoundResults(ResultSet(apply_all(i)))
         /\ DOMAIN i = PublishedRules /\ DOMAIN apply_all(i) = PublishedRules
         /\ \A id \in PublishedRules :
               /\ i[id] = run_isolated(ctx, id)
               /\ apply_all(i)[id] = apply(i[id]) /\ apply_all(i)[id].id = id
               /\ RuleSound(apply_all(i)[id]) /\ apply_all(i)[id] \in ResultSet(apply_all(i))
<1> DEFINE R == apply_all(i)
<1>1. DOMAIN i = PublishedRules /\ \A id \in PublishedRules : i[id] = run_isolated(ctx, id)
  BY DEF evaluate_rules
<1>2. DOMAIN R = PublishedRules /\ \A id \in PublishedRules : R[id] = apply(i[id])
  BY <1>1 DEF apply_all
<1>3. \A id \in PublishedRules : RuleSound(R[id]) /\ R[id].id = id
  BY <1>1, <1>2, EvaluatedSound, AppliedSound
<1>4. ResultSet(R) = {R[id] : id \in PublishedRules}
  BY <1>2 DEF ResultSet
<1>5. IsFiniteSet(PublishedRules)
  <2>1. WellShaped
    BY KnowledgeAccepted
  <2>2. IsFiniteSet(DOMAIN Rules) /\ PublishedRules \in SUBSET DOMAIN Rules
    BY <2>1 DEF WellShaped, PublishedRules
  <2> QED BY <2>2, FS_Subset
<1>6. IsFiniteSet({R[id] : id \in PublishedRules})
  <2> DEFINE T == {R[id] : id \in PublishedRules}
             f == [id \in PublishedRules |-> R[id]]
  <2>1. {f[id] : id \in PublishedRules} = T
    OBVIOUS
  <2>2. f \in [PublishedRules -> T]
    OBVIOUS
  <2> HIDE DEF f, T
  <2>3. IsFiniteSet({f[id] : id \in PublishedRules})
    BY <1>5, <2>2, ImageFinite
  <2> QED BY <2>1, <2>3 DEF T
<1> HIDE DEF R
<1>7. SoundResults(ResultSet(R))
  BY <1>3, <1>4, <1>6 DEF SoundResults
<1> QED BY <1>1, <1>2, <1>3, <1>4, <1>7 DEF R

-----------------------------------------------------------------------------
(* The inductive invariant: what each stage has done so far *)

\* The stages before the kernel.
Early == {"gate", "provider", "validate", "govern", "map"}
\* The host's data alone.
HostArtifact == [occs |-> input.occs, obs |-> input.obs]

\* What the gates of the optional path have let through.
PathSound ==
    /\ stage \in {"provider", "validate", "govern", "map"} => HostEvaluable
    /\ stage \in {"validate", "govern", "map"} => response \in Responses
    /\ stage \in {"govern", "map"} => validate_ai_extraction(response, input.id)

\* The combined artifact of an accepted, mappable answer.
AiUsed ==
    /\ reason = "NONE" /\ HostEvaluable
    /\ response \in Responses /\ validate_ai_extraction(response, input.id) /\ Mappable(input, response)
    /\ artifact = map_ai(input, response)

\* The kernel consumes the host's data, or the host's data with all of an accepted answer.
ArtifactSound ==
    /\ stage \in Early => reason = "NONE" /\ artifact = HostArtifact
    /\ stage \notin Early => (reason # "NONE" /\ artifact = HostArtifact) \/ AiUsed

\* The kernel got past the checks of its inputs.
ContextAccepted ==
    /\ input.whole => input.support = "ERROR"
    /\ input.support \in Evaluable => ValidContext(artifact.occs, artifact.obs)

\* The rule results of the artifact.
Rested == IF input.support \in Evaluable THEN RuleResults(artifact) ELSE <<>>
\* The decision of the artifact.
Decided == aggregate_decision(ResultSet(apply_all(Rested)), input.support, input.whole)
\* The same with its explanation.
Explained == [Decided EXCEPT !.explanation = build_explanation(Decided)]

\* Each stage has computed its part from the artifact, and nothing else.
KernelSound ==
    /\ stage \in Early \cup {"rules"} => results = <<>> /\ decision = Nothing
    /\ stage \in {"suppress", "aggregate", "explain", "assemble"} => ContextAccepted
    /\ stage = "suppress" => results = Rested /\ decision = Nothing
    /\ stage \in {"aggregate", "explain", "assemble"} => results = apply_all(Rested)
    /\ stage = "aggregate" => decision = Nothing
    /\ stage = "explain" => decision = Decided
    /\ stage = "assemble" => decision = Explained
    /\ stage = "done" => decision = Nothing \/ (ContextAccepted /\ decision = Explained)

\* AI is dropped for one of the listed reasons.
Reasoned ==
    reason \in {"NONE", "DISABLED", "HOST_NOT_EVALUABLE", "PROVIDER_FAILED",
                "RESPONSE_REJECTED", "GOVERNANCE_FAILED", "MAPPING_FAILED"}

\* The inductive invariant.
AInv ==
    /\ HostShaped(input) /\ stage \in Stages /\ attempted \in BOOLEAN /\ Reasoned
    /\ PathSound /\ ArtifactSound /\ KernelSound
    /\ stage # "done" => outcome = "NONE"
    /\ stage = "done" => outcome \in {"RESULT", "CONTEXT", "OBSERVATIONS", "ASSEMBLY"}
    /\ StagesAgree

\* An evaluation starts in it.
LEMMA InitInvariant ==
  ASSUME HostShaped(input), Started
  PROVE  AInv
BY DEF Started, AInv, Stages, Reasoned, PathSound, ArtifactSound, HostArtifact, KernelSound, Early,
       StagesAgree, Nothing

\* The optional path keeps it (integration.py).
LEMMA PathStep ==
  ASSUME AInv, Disabled \/ NotEvaluable \/ Prepare \/ ProviderFails \/ ProviderAnswers
                 \/ RejectResponse \/ AcceptResponse \/ Govern \/ MapFails \/ MapProposals
  PROVE  AInv'
<1>1. /\ stage \in Early /\ reason = "NONE" /\ artifact = HostArtifact /\ results = <<>> /\ decision = Nothing
      /\ outcome = "NONE" /\ HostShaped(input) /\ attempted \in BOOLEAN /\ PathSound
  BY DEF AInv, ArtifactSound, KernelSound, Stages, Early, Disabled, NotEvaluable, Prepare,
         ProviderFails, ProviderAnswers, RejectResponse, AcceptResponse, Govern, MapFails, MapProposals
<1>2. UNCHANGED <<input, results, decision, outcome>>
  BY DEF Disabled, NotEvaluable, Prepare, ProviderFails, ProviderAnswers, RejectResponse,
         AcceptResponse, Govern, MapFails, MapProposals, FallBack, GoOn
<1>3. attempted' \in BOOLEAN
  BY <1>1 DEF Disabled, NotEvaluable, Prepare, ProviderFails, ProviderAnswers, RejectResponse,
         AcceptResponse, Govern, MapFails, MapProposals
<1>4. HostShaped(input)' /\ StagesAgree'
  BY <1>1, <1>2 DEF StagesAgree, HostShaped
<1>5. ASSUME NEW why, FallBack(why), why \in {"DISABLED", "HOST_NOT_EVALUABLE", "PROVIDER_FAILED",
                          "RESPONSE_REJECTED", "GOVERNANCE_FAILED", "MAPPING_FAILED"}
      PROVE  AInv'
  <2>1. stage' = "rules" /\ reason' = why /\ artifact' = artifact /\ why # "NONE"
    BY <1>5 DEF FallBack, GoOn
  <2> QED BY <1>1, <1>2, <1>3, <1>4, <1>5, <2>1
          DEF AInv, Stages, Reasoned, PathSound, ArtifactSound, KernelSound, Early, HostArtifact
<1>6. ASSUME reason' = reason, artifact' = artifact, stage' \in {"provider", "validate", "govern", "map"},
             HostEvaluable, stage' \in {"validate", "govern", "map"} => response' \in Responses,
             stage' \in {"govern", "map"} => validate_ai_extraction(response', input.id)
      PROVE  AInv'
  <2>1. HostEvaluable'
    BY <1>2, <1>6 DEF HostEvaluable
  <2> QED BY <1>1, <1>2, <1>3, <1>4, <1>6, <2>1
          DEF AInv, Stages, Reasoned, PathSound, ArtifactSound, KernelSound, Early, HostArtifact
<1>7. CASE Disabled
  BY <1>5, <1>7 DEF Disabled
<1>8. CASE NotEvaluable
  BY <1>5, <1>8 DEF NotEvaluable
<1>9. CASE Prepare
  BY <1>5, <1>6, <1>9 DEF Prepare, GoOn
<1>10. CASE ProviderFails
  BY <1>5, <1>10 DEF ProviderFails
<1>11. CASE ProviderAnswers
  BY <1>1, <1>6, <1>11 DEF ProviderAnswers, GoOn, PathSound
<1>12. CASE RejectResponse
  BY <1>5, <1>12 DEF RejectResponse
<1>13. CASE AcceptResponse
  BY <1>1, <1>6, <1>13 DEF AcceptResponse, GoOn, PathSound
<1>14. CASE Govern
  <2>1. CASE FallBack("GOVERNANCE_FAILED")
    BY <1>5, <2>1
  <2>2. CASE GoOn("map") /\ UNCHANGED <<reason, artifact>>
    <3>1. stage = "govern" /\ stage' = "map" /\ response' = response
      BY <1>14, <2>2 DEF Govern, GoOn
    <3>2. HostEvaluable /\ response \in Responses /\ validate_ai_extraction(response, input.id)
      BY <1>1, <3>1 DEF PathSound
    <3> QED BY <1>6, <2>2, <3>1, <3>2
  <2> QED BY <1>14, <2>1, <2>2 DEF Govern
<1>15. CASE MapFails
  BY <1>5, <1>15 DEF MapFails
<1>16. CASE MapProposals
  <2>1. /\ stage = "map" /\ stage' = "rules" /\ artifact' = map_ai(input, response)
        /\ reason' = reason /\ response' = response /\ Mappable(input, response)
    BY <1>16 DEF MapProposals, GoOn
  <2>2. HostEvaluable /\ response \in Responses /\ validate_ai_extraction(response, input.id)
    BY <1>1, <2>1 DEF PathSound
  <2>3. HostEvaluable' /\ input' = input
    BY <1>2, <2>2 DEF HostEvaluable
  <2>4. AiUsed'
    BY <1>1, <2>1, <2>2, <2>3 DEF AiUsed
  <2> QED BY <1>1, <1>2, <1>3, <1>4, <2>1, <2>4
          DEF AInv, Stages, Reasoned, PathSound, ArtifactSound, KernelSound, Early
<1> QED BY <1>7, <1>8, <1>9, <1>10, <1>11, <1>12, <1>13, <1>14, <1>15, <1>16

\* The rule results that the decision is over.
Final == ResultSet(apply_all(Rested))

\* Adding the explanation leaves the decision as it was.
LEMMA ExplanationAdds ==
  ASSUME NEW support, NEW class, NEW axes, NEW gov, NEW eligible, NEW rs, NEW whole, NEW x
  PROVE  LET d == assemble(support, class, axes, gov, eligible, rs, whole)
             e == [d EXCEPT !.explanation = x]
         IN  /\ e.support = d.support /\ e.class = d.class /\ e.severity = d.severity
             /\ e.strength = d.strength /\ e.risk = d.risk /\ e.confidence = d.confidence
             /\ e.band = d.band /\ e.matched_rules = d.matched_rules /\ e.results = d.results
             /\ e # Nothing /\ d # Nothing
<1> DEFINE d == assemble(support, class, axes, gov, eligible, rs, whole)
           e == [d EXCEPT !.explanation = x]
<1>1. /\ e.support = d.support /\ e.class = d.class /\ e.severity = d.severity
      /\ e.strength = d.strength /\ e.risk = d.risk /\ e.confidence = d.confidence
      /\ e.band = d.band /\ e.matched_rules = d.matched_rules /\ e.results = d.results
  BY DEF assemble
<1>2. "severity" \in DOMAIN d /\ "severity" \in DOMAIN e
  BY DEF assemble
<1>3. "severity" \notin DOMAIN Nothing
  BY DEF Nothing
<1> HIDE DEF d, e
<1>4. e # Nothing /\ d # Nothing
  BY <1>2, <1>3
<1> QED BY <1>1, <1>4 DEF d, e

\* They are sound, and the decision is assembled over them.
LEMMA FinalSound ==
  ASSUME HostShaped(input), ContextAccepted
  PROVE  /\ SoundResults(Final)
         /\ input.support \notin Evaluable => Final = {}
         /\ \E class, axes, gov : Aggregated(Final, input.support, input.whole, class, axes, gov)
<1>1. SoundResults({})
  BY FS_EmptySet DEF SoundResults
<1>2. CASE input.support \in Evaluable
  <2>1. Rested = evaluate_rules(build_validated_context(artifact.occs, artifact.obs, input.language, input.script))
    BY <1>2 DEF Rested, RuleResults
  <2>2. SoundResults(Final)
    BY <2>1, ResultsSound DEF Final
  <2> QED BY <1>2, <2>2, AggregateFacts DEF HostShaped, ContextAccepted
<1>3. CASE input.support \notin Evaluable
  <2>1. Final = {}
    BY <1>3, NoResults DEF Final, Rested
  <2> QED BY <1>1, <1>3, <2>1, AggregateFacts DEF HostShaped, ContextAccepted
<1> QED BY <1>2, <1>3

\* The decision passes the checks of explanation and, unless a suppression rule matched, of assembly.
LEMMA DecidedSound ==
  ASSUME HostShaped(input), ContextAccepted
  PROVE  /\ validate_explanation_input(Decided) /\ Decided # Nothing /\ Explained # Nothing
         /\ \A r \in Final : check_semantic_invariants(r)
         /\ (\A r \in Final : r.kind = "SUPPRESSION" => r.state # "MATCHED") => ~ semantic_violations(Explained)
         /\ Explained.severity = Decided.severity /\ Explained.risk = Decided.risk
         /\ Explained.strength = Decided.strength /\ Explained.confidence = Decided.confidence
         /\ Explained.band = Decided.band
<1>1. PICK class, axes, gov : Aggregated(Final, input.support, input.whole, class, axes, gov)
  BY FinalSound
<1> DEFINE d == assemble(input.support, class, axes, gov, Eligible(Final), Final, input.whole)
           e == [d EXCEPT !.explanation = build_explanation(d)]
<1>2. SoundResults(Final) /\ Consistent(Final, input.support, class, axes, gov, input.whole)
  BY <1>1, FinalSound DEF Aggregated
<1>3. Decided = d /\ Explained = e
  BY <1>1 DEF Decided, Explained, Final, Aggregated
<1>4. /\ validate_explanation_input(d)
      /\ (\A r \in Final : r.kind = "SUPPRESSION" => r.state # "MATCHED") => ~ semantic_violations(d)
  BY <1>2, AssembledSound
<1>5. /\ e.support = d.support /\ e.class = d.class /\ e.severity = d.severity
      /\ e.strength = d.strength /\ e.risk = d.risk /\ e.confidence = d.confidence
      /\ e.band = d.band /\ e.matched_rules = d.matched_rules /\ e.results = d.results
      /\ e # Nothing /\ d # Nothing
  BY ExplanationAdds
<1>6. \A r \in Final : check_semantic_invariants(r)
  BY <1>2, SoundConsistent DEF SoundResults
<1> HIDE DEF d, e
<1>7. semantic_violations(e) = semantic_violations(d)
  BY <1>5 DEF semantic_violations
<1> QED BY <1>3, <1>4, <1>5, <1>6, <1>7

\* The kernel's steps keep its inputs.
LEMMA KeepsInputs ==
  ASSUME AInv, stage \notin Early, UNCHANGED <<input, reason, attempted, response, artifact>>,
         stage' \in Stages, stage' \notin Early
  PROVE  /\ HostShaped(input)' /\ attempted' \in BOOLEAN /\ Reasoned' /\ PathSound' /\ ArtifactSound'
         /\ Final' = ResultSet(apply_all(Rested)) /\ Rested' = Rested /\ Decided' = Decided
         /\ Explained' = Explained /\ ContextAccepted' = ContextAccepted
<1>1. HostShaped(input)' /\ attempted' \in BOOLEAN /\ Reasoned'
  BY DEF AInv, HostShaped, Reasoned
<1>2. PathSound' /\ ArtifactSound'
  BY DEF AInv, PathSound, ArtifactSound, Early, AiUsed, HostEvaluable, HostArtifact
<1>3. Rested' = Rested /\ ContextAccepted' = ContextAccepted
  BY DEF Rested, RuleResults, ContextAccepted
<1>4. Decided' = Decided /\ Final' = ResultSet(apply_all(Rested))
  BY <1>3 DEF Decided, Final
<1>5. Explained' = Explained
  BY <1>4 DEF Explained
<1> QED BY <1>1, <1>2, <1>3, <1>4, <1>5

\* The host's data is accepted when the artifact is not: no answer invalidates it.
LEMMA HostRefused ==
  ASSUME AInv, stage = "rules", ~ ValidContext(artifact.occs, artifact.obs)
  PROVE  ~ ValidContext(input.occs, input.obs)
<1>1. (reason # "NONE" /\ artifact = HostArtifact) \/ AiUsed
  BY DEF AInv, ArtifactSound, Early
<1>2. CASE artifact = HostArtifact
  BY <1>2 DEF HostArtifact
<1>3. CASE AiUsed
  BY <1>3, CombinedValid DEF AiUsed
<1> QED BY <1>1, <1>2, <1>3

\* The kernel keeps the invariant (result.py).
LEMMA KernelStep ==
  ASSUME AInv, EvaluateRules \/ Suppress \/ Aggregate \/ Explain \/ Assemble
  PROVE  AInv'
<1>1. CASE EvaluateRules
  <2>1. stage = "rules" /\ results = <<>> /\ decision = Nothing /\ decision' = decision /\ outcome = "NONE"
    BY <1>1 DEF EvaluateRules, AInv, KernelSound, Early
  <2>2. ASSUME NEW by, by \in {"CONTEXT", "OBSERVATIONS"}, Refuse(by),
               by = "CONTEXT" => input.whole /\ input.support # "ERROR",
               by = "OBSERVATIONS" => ~ ValidContext(input.occs, input.obs)
        PROVE  AInv'
    <3>1. stage' = "done" /\ outcome' = by /\ UNCHANGED <<input, reason, attempted, response, artifact>>
      BY <2>2 DEF Refuse
    <3>2. StagesAgree'
      BY <2>2, <3>1 DEF StagesAgree
    <3>3. KernelSound'
      BY <2>1, <3>1 DEF KernelSound, Early, Nothing
    <3> QED BY <2>1, <2>2, <3>1, <3>2, <3>3, KeepsInputs DEF AInv, Early, Stages
  <2>3. CASE input.whole /\ input.support # "ERROR"
    BY <1>1, <2>2, <2>3 DEF EvaluateRules
  <2>4. CASE ~ (input.whole /\ input.support # "ERROR") /\ input.support \in Evaluable
             /\ ~ ValidContext(artifact.occs, artifact.obs)
    <3>1. Refuse("OBSERVATIONS")
      BY <1>1, <2>4 DEF EvaluateRules
    <3> QED BY <2>1, <2>2, <2>4, <3>1, HostRefused
  <2>5. CASE ~ (input.whole /\ input.support # "ERROR")
             /\ ~ (input.support \in Evaluable /\ ~ ValidContext(artifact.occs, artifact.obs))
    <3>1. /\ stage' = "suppress" /\ results' = Rested
          /\ UNCHANGED <<input, reason, attempted, response, artifact, outcome>>
      BY <1>1, <2>5 DEF EvaluateRules, Rested
    <3>2. ContextAccepted
      BY <2>5 DEF ContextAccepted, AInv, HostShaped
    <3>3. KernelSound'
      BY <2>1, <3>1, <3>2, KeepsInputs DEF KernelSound, Early, Nothing, Stages
    <3>4. StagesAgree'
      BY <2>1, <3>1 DEF StagesAgree
    <3> QED BY <2>1, <3>1, <3>3, <3>4, KeepsInputs DEF AInv, Early, Stages
  <2> QED BY <2>3, <2>4, <2>5
<1>2. CASE Suppress
  <2>1. /\ stage = "suppress" /\ stage' = "aggregate" /\ results = Rested /\ decision = Nothing
        /\ results' = apply_all(Rested) /\ outcome = "NONE" /\ ContextAccepted
        /\ UNCHANGED <<input, reason, attempted, response, artifact, decision, outcome>>
    BY <1>2 DEF Suppress, AInv, KernelSound
  <2>2. KernelSound'
    BY <2>1, KeepsInputs DEF KernelSound, Early, Nothing, Stages
  <2>3. StagesAgree'
    BY <2>1 DEF StagesAgree
  <2> QED BY <2>1, <2>2, <2>3, KeepsInputs DEF AInv, Early, Stages
<1>3. CASE Aggregate
  <2>1. /\ stage = "aggregate" /\ results = apply_all(Rested) /\ outcome = "NONE" /\ ContextAccepted
        /\ results' = results /\ HostShaped(input)
    BY <1>3 DEF Aggregate, AInv, KernelSound
  <2>2. \A r \in ResultSet(results) : check_semantic_invariants(r)
    BY <2>1, DecidedSound DEF Final
  <2>3. /\ decision' = Decided /\ stage' = "explain"
        /\ UNCHANGED <<input, reason, attempted, response, artifact, outcome>>
    BY <1>3, <2>1, <2>2 DEF Aggregate, Decided
  <2>4. KernelSound'
    BY <2>1, <2>3, KeepsInputs DEF KernelSound, Early, Stages
  <2>5. StagesAgree'
    BY <2>1, <2>3 DEF StagesAgree
  <2> QED BY <2>1, <2>3, <2>4, <2>5, KeepsInputs DEF AInv, Early, Stages
<1>4. CASE Explain
  <2>1. /\ stage = "explain" /\ results = apply_all(Rested) /\ outcome = "NONE" /\ ContextAccepted
        /\ results' = results /\ HostShaped(input) /\ decision = Decided
    BY <1>4 DEF Explain, AInv, KernelSound
  <2>2. validate_explanation_input(decision)
    BY <2>1, DecidedSound
  <2>3. /\ decision' = Explained /\ stage' = "assemble"
        /\ UNCHANGED <<input, reason, attempted, response, artifact, outcome>>
    BY <1>4, <2>1, <2>2 DEF Explain, Explained
  <2>4. KernelSound'
    BY <2>1, <2>3, KeepsInputs DEF KernelSound, Early, Stages
  <2>5. StagesAgree'
    BY <2>1, <2>3 DEF StagesAgree
  <2> QED BY <2>1, <2>3, <2>4, <2>5, KeepsInputs DEF AInv, Early, Stages
<1>5. CASE Assemble
  <2>1. /\ stage = "assemble" /\ results = apply_all(Rested) /\ outcome = "NONE" /\ ContextAccepted
        /\ HostShaped(input) /\ decision = Explained
    BY <1>5 DEF Assemble, AInv, KernelSound
  <2>2. /\ stage' = "done" /\ outcome' \in {"ASSEMBLY", "RESULT"}
        /\ outcome' = "ASSEMBLY" => semantic_violations(decision)
        /\ UNCHANGED <<input, reason, attempted, response, artifact, decision, results>>
    BY <1>5 DEF Assemble, Refuse
  <2>3. outcome' = "ASSEMBLY" => \E r \in ResultSet(results) : r.kind = "SUPPRESSION" /\ r.state = "MATCHED"
    BY <2>1, <2>2, DecidedSound DEF Final
  <2>4. KernelSound'
    BY <2>1, <2>2, KeepsInputs DEF KernelSound, Early, Stages
  <2>5. StagesAgree'
    BY <2>2, <2>3 DEF StagesAgree
  <2> QED BY <2>1, <2>2, <2>4, <2>5, KeepsInputs DEF AInv, Early, Stages
<1> QED BY <1>1, <1>2, <1>3, <1>4, <1>5

\* Every step keeps the invariant.
LEMMA StepInvariant ==
  ASSUME AInv, [Next]_vars
  PROVE  AInv'
<1>1. CASE UNCHANGED vars
  <2>1. Rested' = Rested
    BY <1>1 DEF vars, Rested, RuleResults
  <2>2. Decided' = Decided
    BY <1>1, <2>1 DEF vars, Decided
  <2>3. Explained' = Explained
    BY <2>2 DEF Explained
  <2> QED BY <1>1, <2>1, <2>2, <2>3 DEF vars, AInv, HostShaped, Reasoned, PathSound, ArtifactSound, KernelSound, AiUsed,
        HostEvaluable, HostArtifact, ContextAccepted, StagesAgree
<1> QED BY <1>1, PathStep, KernelStep DEF Next

\* Every evaluation keeps the invariant: the kernel consumes the host's data or all of one
\* accepted answer, and each stage is a function of what it consumed (integration.py, result.py).
THEOREM AdvisoryInvariant == Spec => []AInv
<1>1. Init => AInv
  BY InitInvariant, DataShaped DEF Init
<1> QED BY <1>1, StepInvariant, PTL DEF Spec

\* Aggregation, explanation and assembly never refuse what the stages before them produce, and no
\* answer of a provider makes the kernel refuse host data that it accepts (result.py, integration.py).
THEOREM CheckedStagesAgree == Spec => []StagesAgree
<1>1. AInv => StagesAgree
  BY DEF AInv
<1> QED BY <1>1, AdvisoryInvariant, PTL

-----------------------------------------------------------------------------
(* NO_SCAM_PATTERN is final *)

\* A composite rule's result in scope: what it requires, and what it leaves open.
LEMMA CompositeOpen ==
  ASSUME NEW ctx, NEW id \in PublishedRules, Rules[id].kind = "COMPOSITE"
  PROVE  LET r == evaluate_composite(ctx, id)
             pos == RulePositives(ctx, id)
             ops == operands(Rules[id].cond) \cap DOMAIN Indicators
         IN  /\ r.required = eval_condition(Rules[id].cond, [p \in Present(ctx) |-> pos[p].value])
             /\ r.required = "UNKNOWN" => r.state = "INDETERMINATE"
             /\ r.ambiguities \cup r.unknowns = {o \in ops \cap DOMAIN pos : pos[o].value = "UNKNOWN"}
             /\ r.kind = "COMPOSITE"
<1> DEFINE pos == RulePositives(ctx, id)
           active == RuleOverrides(ctx, id)
           matched == RuleNegatives(ctx, id)
           ops == operands(Rules[id].cond) \cap DOMAIN Indicators
           r == CompositeResult(ctx, id, active, matched, pos)
<1>1. evaluate_composite(ctx, id) = r
  BY DEF evaluate_composite
<1> HIDE DEF pos, active, matched
<1>2. /\ r.required = eval_condition(Rules[id].cond, [p \in Present(ctx) |-> pos[p].value])
      /\ r.required = "UNKNOWN" => r.state = "INDETERMINATE"
      /\ r.ambiguities = Ambiguities(pos, ops) /\ r.unknowns = Unknowns(pos, ops)
      /\ r.kind = Rules[id].kind
  BY DEF NoResult, CompositeResult
<1> HIDE DEF r, ops
<1>3. Ambiguities(pos, ops) \cup Unknowns(pos, ops) = {o \in ops \cap DOMAIN pos : pos[o].value = "UNKNOWN"}
  BY DEF Ambiguities, Unknowns
<1>4. r.ambiguities \cup r.unknowns = {o \in ops \cap DOMAIN pos : pos[o].value = "UNKNOWN"}
  BY <1>2, <1>3
<1> QED BY <1>1, <1>2, <1>4 DEF pos, ops

(* A rule that neither holds nor is unresolved would not hold if all that   *)
(* its evaluation left undecided were there.                                 *)
LEMMA NothingOpen ==
  ASSUME NEW ctx, NEW id \in PublishedRules, Rules[id].kind = "COMPOSITE",
         ~ is_degraded(apply(run_isolated(ctx, id))), ~ is_unresolved_harmful(apply(run_isolated(ctx, id))),
         apply(run_isolated(ctx, id)).required # "TRUE",
         NEW worst, DOMAIN worst = Present(ctx),
         \A p \in Present(ctx) : worst[p] = IF RulePositives(ctx, id)[p].value = "UNKNOWN" THEN "TRUE"
                                            ELSE RulePositives(ctx, id)[p].value
  PROVE  eval_condition(Rules[id].cond, worst) # "TRUE"
<1> DEFINE q == run_isolated(ctx, id)
           r == apply(q)
           pos == RulePositives(ctx, id)
           seen == [p \in Present(ctx) |-> pos[p].value]
           cond == Rules[id].cond
<1>1. Fresh(q) /\ RuleSound(q)
  BY EvaluatedSound
<1>2. /\ q.kind # "COMPOSITE" \/ q.state # "MATCHED" => r = q
      /\ r.required = q.required /\ r.kind = q.kind /\ r.error = q.error
  BY <1>1, ApplyFields DEF Fresh
<1>3. language_in_scope(ctx, id)
  <2> SUFFICES ASSUME ~ language_in_scope(ctx, id) PROVE FALSE
    OBVIOUS
  <2>1. q = not_applicable(id, "LANGUAGE_OUT_OF_SCOPE")
    BY DEF run_isolated
  <2>2. q.state = "NOT_APPLICABLE" /\ q.error = "LANGUAGE_OUT_OF_SCOPE"
    BY <2>1, NotApplicableFields
  <2> HIDE DEF q
  <2>3. r = q
    BY <1>2, <2>2
  <2> QED BY <2>2, <2>3 DEF is_degraded, q
<1>4. q = evaluate_composite(ctx, id)
  BY <1>3 DEF run_isolated
<1>5. /\ q.required = eval_condition(cond, seen)
      /\ q.required = "UNKNOWN" => q.state = "INDETERMINATE"
      /\ q.ambiguities \cup q.unknowns = {o \in (operands(cond) \cap DOMAIN Indicators) \cap DOMAIN pos :
                                              pos[o].value = "UNKNOWN"}
      /\ q.kind = "COMPOSITE"
  BY <1>4, CompositeOpen
<1>6. /\ Condition(cond) /\ operands(cond) \subseteq DOMAIN Indicators
  BY RuleShape DEF PublishedRules
<1>7. /\ DOMAIN pos = Present(ctx) /\ TruthTable(seen)
      /\ \A p \in Present(ctx) : pos[p].value \in Values
  BY RulePositiveValues
<1>9. q.required \in Values /\ r.required # "TRUE"
  BY <1>1 DEF RuleSound
<1>a. ~ is_unresolved_harmful(r)
  OBVIOUS
<1>s. DOMAIN seen = Present(ctx) /\ \A p \in Present(ctx) : seen[p] = pos[p].value
  OBVIOUS
<1>d. DOMAIN worst = Present(ctx)
  OBVIOUS
<1> HIDE DEF q, r, pos
<1>8. TruthTable(worst) /\ \A p \in Present(ctx) :
         worst[p] = IF pos[p].value = "UNKNOWN" THEN "TRUE" ELSE pos[p].value
  BY <1>7 DEF TruthTable, Values, pos
<1>10. CASE q.required = "FALSE"
  <2>1. \A p \in operands(cond) : LeafValue(p, seen) # "UNKNOWN" => LeafValue(p, worst) = LeafValue(p, seen)
    <3> HIDE DEF seen, cond
    <3> SUFFICES ASSUME NEW p \in operands(cond), LeafValue(p, seen) # "UNKNOWN"
                 PROVE  LeafValue(p, worst) = LeafValue(p, seen)
      OBVIOUS
    <3>1. p \in Present(ctx) /\ pos[p].value # "UNKNOWN" /\ LeafValue(p, seen) = pos[p].value
      BY <1>s DEF LeafValue
    <3>2. worst[p] = pos[p].value
      BY <1>8, <3>1
    <3> QED BY <1>d, <3>1, <3>2 DEF LeafValue
  <2> HIDE DEF seen, cond
  <2>3. eval_condition(cond, seen) = "FALSE" /\ Condition(cond) /\ TruthTable(seen) /\ TruthTable(worst)
    BY <1>5, <1>6, <1>7, <1>8, <1>10
  <2>2. eval_condition(cond, worst) = "FALSE"
    BY <2>1, <2>3, EvalMonotone
  <2> QED BY <2>2 DEF cond
<1>11. CASE q.required = "UNKNOWN"
  <2>1. r = q /\ q.state = "INDETERMINATE"
    BY <1>2, <1>5, <1>11
  <2>2. q.ambiguities = {} /\ q.unknowns = {}
    BY <1>5, <1>11, <1>a, <2>1 DEF is_unresolved_harmful
  <2>3. \A o \in operands(cond) \cap Present(ctx) : pos[o].value # "UNKNOWN"
    BY <1>5, <1>6, <1>7, <2>2
  <2>4. \A p \in operands(cond) : LeafValue(p, worst) = LeafValue(p, seen)
    <3> HIDE DEF seen, cond
    <3> TAKE p \in operands(cond)
    <3>1. CASE p \in Present(ctx)
      <4>1. worst[p] = pos[p].value /\ seen[p] = pos[p].value
        BY <1>8, <1>s, <2>3, <3>1
      <4> QED BY <1>d, <1>s, <3>1, <4>1 DEF LeafValue
    <3>2. CASE p \notin Present(ctx)
      BY <1>d, <1>s, <3>2 DEF LeafValue
    <3> QED BY <3>1, <3>2
  <2> HIDE DEF seen, cond
  <2>6. eval_condition(cond, seen) = "UNKNOWN" /\ Condition(cond) /\ TruthTable(seen) /\ TruthTable(worst)
    BY <1>5, <1>6, <1>7, <1>8, <1>11
  <2>5. eval_condition(cond, worst) = "UNKNOWN"
    BY <2>4, <2>6, EvalCongruence
  <2> QED BY <2>5 DEF cond
<1> QED BY <1>2, <1>9, <1>10, <1>11 DEF Values

\* The invariant leaves nothing open behind NO_SCAM_PATTERN.
LEMMA ClearOfInvariant ==
  ASSUME AInv
  PROVE  ClearIsFinal
<1> SUFFICES ASSUME stage = "explain", decision.class = "NO_SCAM_PATTERN", NEW r \in Composites(decision.results),
                    r.required # "TRUE"
             PROVE  LET ctx == build_validated_context(artifact.occs, artifact.obs, input.language, input.script)
                        pos == RulePositives(ctx, r.id)
                        worst == [p \in DOMAIN pos |->
                                     IF pos[p].value = "UNKNOWN" THEN "TRUE" ELSE pos[p].value]
                    IN  eval_condition(Rules[r.id].cond, worst) # "TRUE"
  BY DEF ClearIsFinal
<1>1. ContextAccepted /\ decision = Decided /\ HostShaped(input)
  BY DEF AInv, KernelSound
<1>2. PICK class, axes, gov : Aggregated(Final, input.support, input.whole, class, axes, gov)
  BY <1>1, FinalSound
<1> DEFINE d == assemble(input.support, class, axes, gov, Eligible(Final), Final, input.whole)
<1>3. decision = d
  BY <1>1, <1>2 DEF Aggregated, Decided, Final
<1>4. d.class = class /\ d.results = Final
  BY DEF assemble
<1> HIDE DEF d
<1>5. /\ input.support \in Evaluable /\ r \in Final /\ r.kind = "COMPOSITE"
      /\ ~ is_degraded(r) /\ ~ is_unresolved_harmful(r)
  BY <1>2, <1>3, <1>4 DEF Aggregated, Composites
<1> DEFINE ctx == build_validated_context(artifact.occs, artifact.obs, input.language, input.script)
<1>6. Rested = evaluate_rules(ctx)
  BY <1>5 DEF Rested, RuleResults
<1>7. PICK id \in PublishedRules : r = apply(run_isolated(ctx, id)) /\ r.id = id /\ RuleSound(r)
  <2>1. /\ DOMAIN apply_all(Rested) = PublishedRules
        /\ \A id \in PublishedRules :
              /\ apply_all(Rested)[id] = apply(run_isolated(ctx, id))
              /\ apply_all(Rested)[id].id = id /\ RuleSound(apply_all(Rested)[id])
    <3>1. /\ DOMAIN apply_all(Rested) = PublishedRules
          /\ \A id \in PublishedRules :
               /\ Rested[id] = run_isolated(ctx, id)
               /\ apply_all(Rested)[id] = apply(Rested[id])
               /\ apply_all(Rested)[id].id = id /\ RuleSound(apply_all(Rested)[id])
      <4> HIDE DEF ctx
      <4> QED BY <1>6, ResultsSound
    <3> QED BY <3>1
  <2>2. PICK id \in DOMAIN apply_all(Rested) : r = apply_all(Rested)[id]
    BY <1>5 DEF Final, ResultSet
  <2> QED BY <2>1, <2>2
<1>8. Rules[id].kind = "COMPOSITE"
  BY <1>5, <1>7 DEF RuleSound
<1> HIDE DEF ctx
<1> DEFINE pos == RulePositives(ctx, r.id)
           worst == [p \in DOMAIN pos |-> IF pos[p].value = "UNKNOWN" THEN "TRUE" ELSE pos[p].value]
<1>9. DOMAIN pos = Present(ctx)
  BY RulePositiveValues
<1>10. DOMAIN worst = Present(ctx)
       /\ \A p \in Present(ctx) : worst[p] = IF RulePositives(ctx, id)[p].value = "UNKNOWN" THEN "TRUE"
                                            ELSE RulePositives(ctx, id)[p].value
  BY <1>7, <1>9
<1> HIDE DEF worst
<1>11. eval_condition(Rules[id].cond, worst) # "TRUE"
  BY <1>5, <1>7, <1>8, <1>10, NothingOpen
<1> QED BY <1>7, <1>11 DEF worst, ctx

\* NO_SCAM_PATTERN is never said over an open question (aggregation.py _classify): resolving every
\* doubt against the host would match no further rule.
THEOREM NoScamIsFinal == Spec => []ClearIsFinal
BY AdvisoryInvariant, ClearOfInvariant, PTL

-----------------------------------------------------------------------------
(* The search for an augmenting path *)

\* Finitely many evidence classes, with the components that each could have.
Adjacency(adj) ==
    /\ IsFiniteSet(DOMAIN adj) /\ DOMAIN adj \subseteq Nat \ {0}
    /\ IsFiniteSet(Components(adj)) /\ Components(adj) \subseteq Nat

\* What a search starts from and gives back.
Assignments(adj) == [Components(adj) -> {0} \cup DOMAIN adj]
Answers(adj) == [found : BOOLEAN, m : Assignments(adj), seen : SUBSET Components(adj)]
Searches(adj) == [SUBSET Components(adj) -> [DOMAIN adj -> Answers(adj)]]

\* One step of the search (aggregation.py augment).
NextTry(try, adj, m, seen, c) ==
    LET comp == Min(adj[c] \ seen)
        deeper == try[seen \cup {comp}][m[comp]]
    IN  IF adj[c] \subseteq seen THEN [found |-> FALSE, m |-> m, seen |-> seen]
        ELSE IF m[comp] = 0 THEN [found |-> TRUE, m |-> [m EXCEPT ![comp] = c], seen |-> seen]
        ELSE IF deeper.found THEN [found |-> TRUE, m |-> [deeper.m EXCEPT ![comp] = c], seen |-> deeper.seen]
        ELSE try[seen \cup {comp} \cup deeper.seen][c]

\* A search answers from every set of seen components.
SearchOf(try, adj, m) ==
    /\ try \in Searches(adj)
    /\ \A seen \in SUBSET Components(adj), c \in DOMAIN adj : try[seen][c] = NextTry(try, adj, m, seen, c)

\* The least unseen component that a class could have.
LEMMA NextComponent ==
  ASSUME NEW adj, Adjacency(adj), NEW c \in DOMAIN adj, NEW seen, ~ adj[c] \subseteq seen
  PROVE  LET comp == Min(adj[c] \ seen)
         IN  comp \in Components(adj) /\ comp \in adj[c] /\ comp \notin seen
<1>1. adj[c] \subseteq Components(adj)
  BY DEF Components
<1> DEFINE S == adj[c] \ seen
<1>2. S \in SUBSET Nat /\ S # {}
  BY <1>1 DEF Adjacency
<1>3. Min(S) \in S
  <2> HIDE DEF S
  <2> QED BY <1>2, LeastFacts
<1> QED BY <1>1, <1>3

\* The answer of a search, from the answers of the searches it makes.
LEMMA TryAnswers ==
  ASSUME NEW adj, Adjacency(adj), NEW m \in Assignments(adj), NEW try \in Searches(adj),
         NEW seen \in SUBSET Components(adj), NEW c \in DOMAIN adj
  PROVE  NextTry(try, adj, m, seen, c) \in Answers(adj)
<1> DEFINE comp == Min(adj[c] \ seen)
           deeper == try[seen \cup {comp}][m[comp]]
           K == Components(adj)
<1>1. CASE adj[c] \subseteq seen
  <2>1. NextTry(try, adj, m, seen, c) = [found |-> FALSE, m |-> m, seen |-> seen]
    BY <1>1 DEF NextTry
  <2> QED BY <2>1 DEF Answers
<1>2. CASE ~ adj[c] \subseteq seen
  <2>1. comp \in K /\ comp \in adj[c] /\ comp \notin seen
    BY <1>2, NextComponent
  <2>2. NextTry(try, adj, m, seen, c) =
           IF m[comp] = 0 THEN [found |-> TRUE, m |-> [m EXCEPT ![comp] = c], seen |-> seen]
           ELSE IF deeper.found THEN [found |-> TRUE, m |-> [deeper.m EXCEPT ![comp] = c], seen |-> deeper.seen]
           ELSE try[seen \cup {comp} \cup deeper.seen][c]
    BY <1>2 DEF NextTry
  <2> HIDE DEF comp
  <2>3. CASE m[comp] = 0
    <3>1. [m EXCEPT ![comp] = c] \in Assignments(adj)
      BY <2>1 DEF Assignments
    <3> QED BY <2>2, <2>3, <3>1 DEF Answers
  <2>4. CASE m[comp] # 0
    <3>1. m[comp] \in DOMAIN adj
      BY <2>1, <2>4 DEF Assignments
    <3>2. deeper \in Answers(adj)
      <4>1. seen \cup {comp} \in SUBSET K
        BY <2>1
      <4>2. try[seen \cup {comp}] \in [DOMAIN adj -> Answers(adj)]
        BY <4>1 DEF Searches
      <4> QED BY <3>1, <4>2
    <3>3. deeper.m \in Assignments(adj) /\ deeper.seen \in SUBSET K /\ deeper.found \in BOOLEAN
      BY <3>2 DEF Answers
    <3> HIDE DEF deeper
    <3>4. [deeper.m EXCEPT ![comp] = c] \in Assignments(adj)
      BY <2>1, <3>3 DEF Assignments
    <3>5. try[seen \cup {comp} \cup deeper.seen][c] \in Answers(adj)
      <4>1. seen \cup {comp} \cup deeper.seen \in SUBSET K
        BY <2>1, <3>3
      <4>2. try[seen \cup {comp} \cup deeper.seen] \in [DOMAIN adj -> Answers(adj)]
        BY <4>1 DEF Searches
      <4> QED BY <4>2
    <3>6. CASE deeper.found
      BY <2>2, <2>4, <3>3, <3>4, <3>6 DEF Answers
    <3>7. CASE ~ deeper.found
      BY <2>2, <2>4, <3>5, <3>7
    <3> QED BY <3>6, <3>7
  <2> QED BY <2>3, <2>4
<1> QED BY <1>1, <1>2

\* The recursion of augment is well founded: every search inside has seen more.
LEMMA SearchExists ==
  ASSUME NEW adj, Adjacency(adj), NEW m \in Assignments(adj)
  PROVE  \E try : SearchOf(try, adj, m) /\ \A start \in DOMAIN adj : augment(adj, m, start) = try[{}][start].m
<1> DEFINE K == Components(adj)
           C == DOMAIN adj
           D == SUBSET K
           V == [C -> Answers(adj)]
           rank == [seen \in D |-> Cardinality(K \ seen)]
           N == Cardinality(K) + 1
           Step(try) == [seen \in D |-> [c \in C |-> NextTry(try, adj, m, seen, c)]]
           F == [try \in [D -> V] |-> Step(try)]
<1>1. \A seen \in D : Cardinality(K \ seen) \in Nat /\ Cardinality(K \ seen) < N
  <2>1. IsFiniteSet(K)
    BY DEF Adjacency
  <2>2. Cardinality(K) \in Nat
    BY <2>1, FS_CardinalityType
  <2> TAKE seen \in D
  <2>3. K \ seen \in SUBSET K
    OBVIOUS
  <2>4. Cardinality(K \ seen) \in Nat /\ Cardinality(K \ seen) <= Cardinality(K)
    BY <2>1, <2>3, FS_Subset, FS_CardinalityType
  <2> QED BY <2>2, <2>4
<1>2. rank \in [D -> Nat] /\ N \in Nat /\ \A q \in D : rank[q] < N
  <2>1. N \in Nat
    BY FS_CardinalityType DEF Adjacency
  <2> HIDE DEF N, K
  <2> QED BY <1>1, <2>1
<1>3. V # {}
  <2>1. [c \in C |-> [found |-> FALSE, m |-> m, seen |-> {}]] \in V
    BY DEF Answers
  <2> QED BY <2>1
<1>4. \A try \in [D -> V] : Step(try) \in [D -> V]
  BY TryAnswers DEF Searches
<1>5. F \in [[D -> V] -> [D -> V]]
  <2> HIDE DEF Step, D, V
  <2> QED BY <1>4
<1>6. \A seen, more \in D : seen \subseteq more /\ more # seen => rank[more] < rank[seen]
  <2> TAKE seen \in D, more \in D
  <2> HAVE seen \subseteq more /\ more # seen
  <2>1. IsFiniteSet(K \ seen) /\ K \ more \in SUBSET (K \ seen) /\ K \ more # K \ seen
    BY FS_Difference DEF Adjacency
  <2>2. Cardinality(K \ more) <= Cardinality(K \ seen) /\ Cardinality(K \ more) # Cardinality(K \ seen)
    BY <2>1, FS_Subset
  <2>3. Cardinality(K \ more) < Cardinality(K \ seen)
    BY <1>1, <2>2
  <2> QED BY <2>3
<1>7. ASSUME NEW g, NEW h \in [D -> V], NEW seen \in D,
             \A more \in D : rank[more] < rank[seen] => g[more] = h[more], NEW c \in C
      PROVE  NextTry(g, adj, m, seen, c) = NextTry(h, adj, m, seen, c)
  <2> DEFINE comp == Min(adj[c] \ seen)
             deeper == h[seen \cup {comp}][m[comp]]
  <2>1. CASE adj[c] \subseteq seen
    BY <2>1 DEF NextTry
  <2>2. CASE ~ adj[c] \subseteq seen
    <3>1. comp \in K /\ comp \notin seen
      BY <2>2, NextComponent
    <3> HIDE DEF comp, rank
    <3>2. g[seen \cup {comp}] = h[seen \cup {comp}]
      BY <1>6, <1>7, <3>1
    <3>3. CASE m[comp] = 0
      BY <2>2, <3>3 DEF NextTry, comp
    <3>4. CASE m[comp] # 0
      <4>1. m[comp] \in C
        BY <3>1, <3>4 DEF Assignments
      <4>2. deeper.seen \in SUBSET K
        BY <3>1, <4>1 DEF Answers
      <4>3. g[seen \cup {comp} \cup deeper.seen] = h[seen \cup {comp} \cup deeper.seen]
        <5> HIDE DEF deeper
        <5> QED BY <1>6, <1>7, <3>1, <4>2
      <4> QED BY <2>2, <3>2, <4>3 DEF NextTry, comp
    <3> QED BY <3>3, <3>4
  <2> QED BY <2>1, <2>2
<1>8. \A g, h \in [D -> V] : \A q \in D :
         (\A p \in D : rank[p] < rank[q] => g[p] = h[p]) => F[g][q] = F[h][q]
  <2> HIDE DEF rank
  <2> SUFFICES ASSUME NEW g \in [D -> V], NEW h \in [D -> V], NEW q \in D,
                      \A p \in D : rank[p] < rank[q] => g[p] = h[p]
               PROVE  F[g][q] = F[h][q]
    OBVIOUS
  <2>1. \A c \in C : NextTry(g, adj, m, q, c) = NextTry(h, adj, m, q, c)
    BY <1>7
  <2>2. Step(g)[q] = Step(h)[q]
    BY <2>1
  <2> HIDE DEF Step, D, V
  <2> QED BY <2>2
<1>9. \E try \in [D -> V] : try = F[try]
  <2> HIDE DEF F, rank, D, V, N
  <2>1. Recursion(D, V, rank, N, F)
    BY <1>2, <1>3, <1>5, <1>8 DEF Recursion
  <2> QED BY <2>1, RecursionExists
<1>10. PICK w \in [D -> V] : w = Step(w)
  <2>1. PICK w \in [D -> V] : w = F[w]
    BY <1>9
  <2> HIDE DEF Step, D, V
  <2> QED BY <2>1
<1> DEFINE v == CHOOSE try : try = [seen \in D |-> [c \in C |-> NextTry(try, adj, m, seen, c)]]
<1>11. v = Step(v)
  BY <1>10
<1>12. \A start \in C : augment(adj, m, start) = v[{}][start].m
  BY DEF augment, NextTry
<1> HIDE DEF v
<1>13. \A q \in D : v[q] = w[q]
  <2> DEFINE Bad == {n \in Nat : \E q \in D : rank[q] = n /\ v[q] # w[q]}
  <2> SUFFICES ASSUME Bad # {} PROVE FALSE
    <3> HIDE DEF v, D, V, rank, N
    <3> QED BY <1>2
  <2>1. PICK n \in Bad : \A k \in Bad : n <= k
    <3>1. Bad \in SUBSET Nat
      OBVIOUS
    <3> HIDE DEF Bad
    <3> QED BY <3>1, LeastExists
  <2>2. PICK q \in D : rank[q] = n /\ v[q] # w[q]
    BY <2>1
  <2>3. \A p \in D : rank[p] < rank[q] => v[p] = w[p]
    <3> HIDE DEF D, V, rank, N
    <3> QED BY <1>2, <2>1, <2>2
  <2>4. \A c \in C : NextTry(v, adj, m, q, c) = NextTry(w, adj, m, q, c)
    <3> HIDE DEF rank
    <3> QED BY <1>7, <2>3
  <2>5. Step(v)[q] = Step(w)[q]
    BY <2>4
  <2> HIDE DEF Step
  <2> QED BY <1>10, <1>11, <2>2, <2>5
<1>14. v = w
  <2>1. DOMAIN v = D /\ v = [q \in D |-> v[q]] /\ w = [q \in D |-> w[q]]
    BY <1>11
  <2> HIDE DEF D, V, Step
  <2> QED BY <1>13, <2>1
<1>15. w \in Searches(adj) /\ \A seen \in D, c \in C : w[seen][c] = NextTry(w, adj, m, seen, c)
  <2>1. w \in Searches(adj)
    BY DEF Searches
  <2>2. \A seen \in D, c \in C : Step(w)[seen][c] = NextTry(w, adj, m, seen, c)
    OBVIOUS
  <2> HIDE DEF Step, D, V
  <2> QED BY <1>10, <2>1, <2>2
<1>16. SearchOf(w, adj, m)
  BY <1>15 DEF SearchOf
<1> HIDE DEF D, V, Step
<1> QED BY <1>12, <1>14, <1>16

\* A larger set has another member.
LEMMA Larger ==
  ASSUME NEW s, NEW t, s \subseteq t, s # t
  PROVE  \E x \in t : x \notin s
<1> SUFFICES ASSUME \A x \in t : x \in s PROVE FALSE
  OBVIOUS
<1>1. \A x : x \in s <=> x \in t
  OBVIOUS
<1>2. s = t
  BY <1>1
<1> QED BY <1>2

\* What holds of a set of a finite universe when it holds of all larger ones, holds of all.
LEMMA UpwardInduction ==
  ASSUME NEW K, IsFiniteSet(K), NEW G,
         \A seen \in SUBSET K :
            (\A more \in SUBSET K : seen \subseteq more /\ seen # more => more \in G) => seen \in G
  PROVE  \A seen \in SUBSET K : seen \in G
<1> DEFINE B == {K \ seen : seen \in {s \in SUBSET K : s \notin G}}
<1> SUFFICES ASSUME NEW bad \in SUBSET K, bad \notin G PROVE FALSE
  OBVIOUS
<1>1. B \in SUBSET SUBSET K /\ B # {}
  <2>1. K \ bad \in B
    OBVIOUS
  <2>2. \A b \in B : b \subseteq K
    OBVIOUS
  <2> HIDE DEF B
  <2> QED BY <2>1, <2>2
<1>2. PICK b \in B : \A a \in B : a \subseteq b => a = b
  <2> HIDE DEF B
  <2> QED BY <1>1, MinimalSubset
<1>3. PICK s \in SUBSET K : s \notin G /\ b = K \ s
  OBVIOUS
<1>4. ASSUME NEW more \in SUBSET K, s \subseteq more, s # more PROVE more \in G
  <2>1. K \ more \subseteq b /\ K \ more # b
    <3>1. PICK x \in more : x \notin s
      BY <1>4, Larger
    <3>2. x \in b /\ x \notin K \ more
      BY <1>3, <3>1
    <3>3. K \ more \subseteq b
      BY <1>3, <1>4
    <3> QED BY <3>2, <3>3
  <2>2. K \ more \notin B
    <3> HIDE DEF B
    <3> QED BY <1>2, <2>1
  <2>3. ASSUME more \notin G PROVE K \ more \in B
    <3>1. more \in {s2 \in SUBSET K : s2 \notin G}
      BY <2>3
    <3> QED BY <3>1
  <2> HIDE DEF B
  <2> QED BY <2>2, <2>3
<1> QED BY <1>3, <1>4

\* The same, from the smaller sets.
LEMMA DownwardInduction ==
  ASSUME NEW K, IsFiniteSet(K), NEW G,
         \A cs \in SUBSET K :
            (\A less \in SUBSET K : less \subseteq cs /\ cs # less => less \in G) => cs \in G
  PROVE  \A cs \in SUBSET K : cs \in G
<1> DEFINE B == {cs \in SUBSET K : cs \notin G}
<1> SUFFICES ASSUME B # {} PROVE FALSE
  OBVIOUS
<1>1. PICK b \in B : \A a \in B : a \subseteq b => a = b
  <2>1. B \in SUBSET SUBSET K
    OBVIOUS
  <2> HIDE DEF B
  <2> QED BY <2>1, MinimalSubset
<1> QED BY <1>1

\* What a search does: it ends, or takes a free component, or one that its holder gives up,
\* or goes on without it.
Searched(try, adj, m, seen, c, t) ==
    \/ adj[c] \subseteq seen /\ t = [found |-> FALSE, m |-> m, seen |-> seen]
    \/ \E comp \in Components(adj) :
         /\ comp \in adj[c] /\ comp \notin seen
         /\ \/ m[comp] = 0 /\ t.found = TRUE /\ t.m = [m EXCEPT ![comp] = c]
            \/ /\ m[comp] \in DOMAIN adj
               /\ \E d \in Answers(adj) :
                    /\ d = try[seen \cup {comp}][m[comp]]
                    /\ \/ d.found /\ t.found = TRUE /\ t.m = [d.m EXCEPT ![comp] = c]
                       \/ ~ d.found /\ t = try[seen \cup {comp} \cup d.seen][c]

\* What an answer of the search is.
LEMMA SearchCases ==
  ASSUME NEW adj, Adjacency(adj), NEW m \in Assignments(adj), NEW try, SearchOf(try, adj, m),
         NEW seen \in SUBSET Components(adj), NEW c \in DOMAIN adj
  PROVE  try[seen][c] \in Answers(adj) /\ Searched(try, adj, m, seen, c, try[seen][c])
<1> DEFINE K == Components(adj)
           t == try[seen][c]
           comp == Min(adj[c] \ seen)
           d == try[seen \cup {comp}][m[comp]]
<1>1. try \in Searches(adj) /\ t = NextTry(try, adj, m, seen, c)
  BY DEF SearchOf
<1>2. t \in Answers(adj)
  BY <1>1, TryAnswers
<1>3. CASE adj[c] \subseteq seen
  BY <1>1, <1>2, <1>3 DEF NextTry, Searched
<1>4. CASE ~ adj[c] \subseteq seen
  <2>1. comp \in K /\ comp \in adj[c] /\ comp \notin seen
    BY <1>4, NextComponent
  <2>2. t = IF m[comp] = 0 THEN [found |-> TRUE, m |-> [m EXCEPT ![comp] = c], seen |-> seen]
            ELSE IF d.found THEN [found |-> TRUE, m |-> [d.m EXCEPT ![comp] = c], seen |-> d.seen]
            ELSE try[seen \cup {comp} \cup d.seen][c]
    BY <1>1, <1>4 DEF NextTry
  <2> HIDE DEF comp, t
  <2>3. CASE m[comp] = 0
    <3>1. t.found = TRUE /\ t.m = [m EXCEPT ![comp] = c]
      BY <2>2, <2>3
    <3> QED BY <1>2, <2>1, <2>3, <3>1 DEF t, Searched
  <2>4. CASE m[comp] # 0
    <3>1. m[comp] \in DOMAIN adj
      BY <2>1, <2>4 DEF Assignments
    <3>2. d \in Answers(adj)
      <4>1. seen \cup {comp} \in SUBSET K
        BY <2>1
      <4>2. try[seen \cup {comp}] \in [DOMAIN adj -> Answers(adj)]
        BY <1>1, <4>1 DEF Searches
      <4> QED BY <3>1, <4>2
    <3>3. d.found => t.found = TRUE /\ t.m = [d.m EXCEPT ![comp] = c]
      <4> HIDE DEF d
      <4> QED BY <2>2, <2>4
    <3>4. ~ d.found => t = try[seen \cup {comp} \cup d.seen][c]
      <4> HIDE DEF d
      <4> QED BY <2>2, <2>4
    <3> DEFINE Goes(e) == \/ e.found /\ t.found = TRUE /\ t.m = [e.m EXCEPT ![comp] = c]
                          \/ ~ e.found /\ t = try[seen \cup {comp} \cup e.seen][c]
    <3>5. Goes(d)
      BY <3>3, <3>4
    <3>6. \E e \in Answers(adj) : e = try[seen \cup {comp}][m[comp]] /\ Goes(e)
      <4> HIDE DEF Goes
      <4> QED BY <3>2, <3>5
    <3> QED BY <1>2, <2>1, <3>1, <3>6 DEF t, Searched
  <2> QED BY <2>3, <2>4
<1> QED BY <1>3, <1>4

\* No component of B is free, and whoever holds one could only have others of B.
Blocked(adj, m, B) ==
    B \subseteq Components(adj) /\ \A b \in B : m[b] \in DOMAIN adj /\ adj[m[b]] \subseteq B

\* A search that fails has changed nothing and has seen a blocked set.
Failed(adj, m, seen, c, t) ==
    ~ t.found =>
        /\ t.m = m /\ seen \subseteq t.seen /\ adj[c] \subseteq t.seen
        /\ \A b \in t.seen \ seen : m[b] \in DOMAIN adj /\ adj[m[b]] \subseteq t.seen

\* A search that fails leaves the assignment, and has seen all that it could reach.
LEMMA SearchFails ==
  ASSUME NEW adj, Adjacency(adj), NEW m \in Assignments(adj), NEW try, SearchOf(try, adj, m)
  PROVE  \A seen \in SUBSET Components(adj), c \in DOMAIN adj : Failed(adj, m, seen, c, try[seen][c])
<1> DEFINE K == Components(adj)
           G == {seen \in SUBSET K : \A c \in DOMAIN adj : Failed(adj, m, seen, c, try[seen][c])}
<1>1. IsFiniteSet(K)
  BY DEF Adjacency
<1>2. ASSUME NEW seen \in SUBSET K, \A more \in SUBSET K : seen \subseteq more /\ seen # more => more \in G
      PROVE  seen \in G
  <2> SUFFICES ASSUME NEW c \in DOMAIN adj PROVE Failed(adj, m, seen, c, try[seen][c])
    OBVIOUS
  <2>1. CASE adj[c] \subseteq seen /\ try[seen][c] = [found |-> FALSE, m |-> m, seen |-> seen]
    BY <2>1 DEF Failed
  <2>2. CASE try[seen][c].found = TRUE
    BY <2>2 DEF Failed
  <2>3. ASSUME NEW comp \in K, comp \in adj[c], comp \notin seen, m[comp] \in DOMAIN adj,
               NEW d \in Answers(adj), d = try[seen \cup {comp}][m[comp]], ~ d.found,
               try[seen][c] = try[seen \cup {comp} \cup d.seen][c]
        PROVE  Failed(adj, m, seen, c, try[seen][c])
    <3> DEFINE more == seen \cup {comp} \cup d.seen
               t == try[more][c]
    <3>1. d.seen \in SUBSET K
      BY DEF Answers
    <3>2. Failed(adj, m, seen \cup {comp}, m[comp], d)
      <4>1. seen \cup {comp} \in G
        BY <1>2, <2>3
      <4> QED BY <2>3, <4>1
    <3>3. Failed(adj, m, more, c, t)
      <4>1. more \in G
        BY <1>2, <2>3, <3>1
      <4> QED BY <4>1
    <3> HIDE DEF t
    <3>4. Failed(adj, m, seen, c, t)
      BY <2>3, <3>2, <3>3 DEF Failed
    <3> QED BY <2>3, <3>4 DEF t
  <2>4. Searched(try, adj, m, seen, c, try[seen][c])
    BY SearchCases
  <2> HIDE DEF G
  <2> QED BY <2>1, <2>2, <2>3, <2>4 DEF Searched
<1> HIDE DEF G
<1>3. \A seen \in SUBSET K : seen \in G
  <2>1. IsFiniteSet(K)
    BY <1>1
  <2>2. \A seen \in SUBSET K :
           (\A more \in SUBSET K : seen \subseteq more /\ seen # more => more \in G) => seen \in G
    BY <1>2
  <2> HIDE DEF K
  <2> QED BY ONLY <2>1, <2>2, UpwardInduction
<1> QED BY <1>3 DEF G

\* A search that begins inside a blocked set fails, and no search disturbs one.
Spared(adj, m, c, t, B) ==
    /\ adj[c] \subseteq B => ~ t.found
    /\ \A b \in B : t.m[b] = m[b]

\* A search never moves a class of a blocked set of components.
LEMMA SearchSpares ==
  ASSUME NEW adj, Adjacency(adj), NEW m \in Assignments(adj), NEW try, SearchOf(try, adj, m),
         NEW B, Blocked(adj, m, B), \A c \in DOMAIN adj : 0 # c
  PROVE  \A seen \in SUBSET Components(adj), c \in DOMAIN adj : Spared(adj, m, c, try[seen][c], B)
<1> DEFINE K == Components(adj)
           G == {seen \in SUBSET K : \A c \in DOMAIN adj : Spared(adj, m, c, try[seen][c], B)}
<1>1. IsFiniteSet(K)
  BY DEF Adjacency
<1>2. ASSUME NEW seen \in SUBSET K, \A more \in SUBSET K : seen \subseteq more /\ seen # more => more \in G
      PROVE  seen \in G
  <2> SUFFICES ASSUME NEW c \in DOMAIN adj PROVE Spared(adj, m, c, try[seen][c], B)
    OBVIOUS
  <2> DEFINE t == try[seen][c]
  <2> SUFFICES Spared(adj, m, c, t, B)
    OBVIOUS
  <2>1. CASE adj[c] \subseteq seen /\ t = [found |-> FALSE, m |-> m, seen |-> seen]
    BY <2>1 DEF Spared
  <2>2. ASSUME NEW comp \in K, comp \in adj[c], m[comp] = 0, t.m = [m EXCEPT ![comp] = c]
        PROVE  Spared(adj, m, c, t, B)
    <3>1. comp \notin B
      BY <2>2 DEF Blocked
    <3>2. \A b \in B : t.m[b] = m[b]
      BY <2>2, <3>1 DEF Assignments, Blocked
    <3> HIDE DEF t
    <3> QED BY <2>2, <3>1, <3>2 DEF Spared
  <2>3. ASSUME NEW comp \in K, comp \in adj[c], comp \notin seen, m[comp] \in DOMAIN adj,
               NEW d \in Answers(adj), d = try[seen \cup {comp}][m[comp]], d.found,
               t.m = [d.m EXCEPT ![comp] = c]
        PROVE  Spared(adj, m, c, t, B)
    <3>1. Spared(adj, m, m[comp], d, B)
      <4>1. seen \cup {comp} \in G
        BY <1>2, <2>3
      <4> QED BY <2>3, <4>1
    <3>2. comp \notin B
      BY <2>3, <3>1 DEF Blocked, Spared
    <3>3. \A b \in B : t.m[b] = m[b]
      <4>1. d.m \in Assignments(adj)
        BY DEF Answers
      <4> HIDE DEF t
      <4> QED BY <2>3, <3>1, <3>2, <4>1 DEF Assignments, Blocked, Spared
    <3> HIDE DEF t
    <3> QED BY <2>3, <3>2, <3>3 DEF Spared
  <2>4. ASSUME NEW comp \in K, comp \in adj[c], comp \notin seen,
               NEW d \in Answers(adj), t = try[seen \cup {comp} \cup d.seen][c]
        PROVE  Spared(adj, m, c, t, B)
    <3>1. seen \cup {comp} \cup d.seen \in SUBSET K
      BY DEF Answers
    <3>2. seen \cup {comp} \cup d.seen \in G
      BY <1>2, <2>4, <3>1
    <3> QED BY <2>4, <3>2
  <2>5. Searched(try, adj, m, seen, c, t)
    BY SearchCases
  <2>6. CASE \E comp \in Components(adj) :
              /\ comp \in adj[c] /\ comp \notin seen
              /\ \/ m[comp] = 0 /\ t.found = TRUE /\ t.m = [m EXCEPT ![comp] = c]
                 \/ /\ m[comp] \in DOMAIN adj
                    /\ \E d \in Answers(adj) :
                         /\ d = try[seen \cup {comp}][m[comp]]
                         /\ \/ d.found /\ t.found = TRUE /\ t.m = [d.m EXCEPT ![comp] = c]
                            \/ ~ d.found /\ t = try[seen \cup {comp} \cup d.seen][c]
    <3> HIDE DEF t, G
    <3>1. PICK comp \in K :
             /\ comp \in adj[c] /\ comp \notin seen
             /\ \/ m[comp] = 0 /\ t.found = TRUE /\ t.m = [m EXCEPT ![comp] = c]
                \/ /\ m[comp] \in DOMAIN adj
                   /\ \E d \in Answers(adj) :
                        /\ d = try[seen \cup {comp}][m[comp]]
                        /\ \/ d.found /\ t.found = TRUE /\ t.m = [d.m EXCEPT ![comp] = c]
                           \/ ~ d.found /\ t = try[seen \cup {comp} \cup d.seen][c]
      BY <2>6
    <3>2. CASE m[comp] = 0 /\ t.m = [m EXCEPT ![comp] = c]
      BY <2>2, <3>1, <3>2
    <3>3. ASSUME NEW d \in Answers(adj), m[comp] \in DOMAIN adj, d = try[seen \cup {comp}][m[comp]],
                 \/ d.found /\ t.found = TRUE /\ t.m = [d.m EXCEPT ![comp] = c]
                 \/ ~ d.found /\ t = try[seen \cup {comp} \cup d.seen][c]
          PROVE  Spared(adj, m, c, t, B)
      <4>1. CASE d.found /\ t.m = [d.m EXCEPT ![comp] = c]
        BY <2>3, <3>1, <3>3, <4>1
      <4>2. CASE t = try[seen \cup {comp} \cup d.seen][c]
        BY <2>4, <3>1, <4>2
      <4> QED BY <3>3, <4>1, <4>2
    <3> QED BY <3>1, <3>2, <3>3
  <2> HIDE DEF t, G
  <2> QED BY <2>1, <2>5, <2>6 DEF Searched
<1> HIDE DEF G
<1>3. \A seen \in SUBSET K : seen \in G
  <2>1. IsFiniteSet(K)
    BY <1>1
  <2>2. \A seen \in SUBSET K :
           (\A more \in SUBSET K : seen \subseteq more /\ seen # more => more \in G) => seen \in G
    BY <1>2
  <2> HIDE DEF K
  <2> QED BY ONLY <2>1, <2>2, UpwardInduction
<1> QED BY <1>3 DEF G

\* Each component has a class that it could have, and no class has two.
IsMatching(adj, m) ==
    /\ m \in Assignments(adj)
    /\ \A k \in Components(adj) : m[k] # 0 => k \in adj[m[k]]
    /\ \A k, l \in Components(adj) : m[k] # 0 /\ m[k] = m[l] => k = l

\* n is m with c placed outside seen, at the cost of moving classes that are there.
Shifted(adj, m, seen, c, n) ==
    LET rest == Components(adj) \ seen
    IN  /\ n \in Assignments(adj)
        /\ \A k \in Components(adj) : n[k] # 0 => k \in adj[n[k]]
        /\ \A k \in seen : n[k] = m[k]
        /\ \A k, l \in rest : n[k] # 0 /\ n[k] = n[l] => k = l
        /\ \A k \in rest : n[k] # 0 /\ n[k] # c => \E l \in rest : m[l] = n[k]
        /\ \A k \in rest : m[k] # 0 => \E l \in rest : n[l] = m[k]
        /\ \E l \in rest : n[l] = c

\* A free component takes the class.
LEMMA ShiftFree ==
  ASSUME NEW adj, NEW m, IsMatching(adj, m), NEW seen \in SUBSET Components(adj),
         NEW c \in DOMAIN adj, c # 0, \A k \in Components(adj) : m[k] = c => k \in seen,
         NEW comp \in Components(adj), comp \in adj[c], comp \notin seen, m[comp] = 0,
         NEW n, n = [m EXCEPT ![comp] = c]
  PROVE  Shifted(adj, m, seen, c, n)
<1> DEFINE K == Components(adj)
<1>1. /\ m \in [K -> {0} \cup DOMAIN adj]
      /\ \A k \in K : m[k] # 0 => k \in adj[m[k]]
      /\ \A k, l \in K : m[k] # 0 /\ m[k] = m[l] => k = l
  BY DEF IsMatching, Assignments
<1>2. n \in [K -> {0} \cup DOMAIN adj] /\ n[comp] = c /\ \A k \in K : k # comp => n[k] = m[k]
  <2>1. comp \in K
    OBVIOUS
  <2> HIDE DEF K
  <2> QED BY <1>1, <2>1
<1> HIDE DEF K
<1>3. \A k \in K : n[k] # 0 => k \in adj[n[k]]
  BY <1>1, <1>2
<1>4. \A k \in seen : n[k] = m[k]
  BY <1>2 DEF K
<1>5. \A k, l \in K \ seen : n[k] # 0 /\ n[k] = n[l] => k = l
  <2> SUFFICES ASSUME NEW k \in K \ seen, NEW l \in K \ seen, n[k] # 0, n[k] = n[l] PROVE k = l
    OBVIOUS
  <2>1. \A j \in K \ seen : m[j] # c
    BY DEF K
  <2> QED BY <1>1, <1>2, <2>1
<1>6. \A k \in K \ seen : n[k] # 0 /\ n[k] # c => \E l \in K \ seen : m[l] = n[k]
  BY <1>2
<1>7. \A k \in K \ seen : m[k] # 0 => \E l \in K \ seen : n[l] = m[k]
  BY <1>2
<1>8. \E l \in K \ seen : n[l] = c
  BY <1>2 DEF K
<1> QED BY <1>2, <1>3, <1>4, <1>5, <1>6, <1>7, <1>8 DEF K, Shifted, Assignments

\* A holder that finds another component gives its own up.
LEMMA ShiftGivenUp ==
  ASSUME NEW adj, NEW m, IsMatching(adj, m), NEW seen \in SUBSET Components(adj),
         NEW c \in DOMAIN adj, c # 0, \A k \in Components(adj) : m[k] = c => k \in seen,
         NEW comp \in Components(adj), comp \in adj[c], comp \notin seen, m[comp] # 0,
         NEW d, Shifted(adj, m, seen \cup {comp}, m[comp], d),
         NEW n, n = [d EXCEPT ![comp] = c]
  PROVE  Shifted(adj, m, seen, c, n)
<1> DEFINE K == Components(adj)
           most == K \ (seen \cup {comp})
<1>1. /\ m \in [K -> {0} \cup DOMAIN adj]
      /\ \A k, l \in K : m[k] # 0 /\ m[k] = m[l] => k = l
  BY DEF IsMatching, Assignments
<1>2. /\ d \in [K -> {0} \cup DOMAIN adj]
      /\ \A k \in K : d[k] # 0 => k \in adj[d[k]]
      /\ \A k \in seen : d[k] = m[k]
      /\ \A k, l \in most : d[k] # 0 /\ d[k] = d[l] => k = l
      /\ \A k \in most : d[k] # 0 /\ d[k] # m[comp] => \E l \in most : m[l] = d[k]
      /\ \A k \in most : m[k] # 0 => \E l \in most : d[l] = m[k]
      /\ \E l \in most : d[l] = m[comp]
  BY DEF Shifted, Assignments
<1>3. n \in [K -> {0} \cup DOMAIN adj] /\ n[comp] = c /\ \A k \in K : k # comp => n[k] = d[k]
  <2>1. comp \in K
    OBVIOUS
  <2> HIDE DEF K
  <2> QED BY <1>2, <2>1
<1>4. seen \in SUBSET K /\ comp \in K /\ \A k \in K \ seen : m[k] # c
  OBVIOUS
<1> HIDE DEF K
<1>5. \A k \in K : n[k] # 0 => k \in adj[n[k]]
  BY <1>2, <1>3
<1>6. \A k \in seen : n[k] = m[k]
  BY <1>2, <1>3, <1>4
<1>7. \A k \in most : d[k] # c
  BY <1>2, <1>4
<1>8. \A k \in K \ seen : k # comp => k \in most /\ n[k] = d[k]
  BY <1>3
<1>9. \A k \in most : k \in K \ seen /\ k # comp /\ n[k] = d[k]
  BY <1>3
<1> HIDE DEF most
<1>10. \A k, l \in K \ seen : n[k] # 0 /\ n[k] = n[l] => k = l
  BY <1>2, <1>3, <1>7, <1>8
<1>11. \A k \in K \ seen : n[k] # 0 /\ n[k] # c => \E l \in K \ seen : m[l] = n[k]
  BY <1>2, <1>3, <1>4, <1>8, <1>9
<1>12. \A k \in K \ seen : m[k] # 0 => \E l \in K \ seen : n[l] = m[k]
  BY <1>2, <1>8, <1>9
<1>13. \E l \in K \ seen : n[l] = c
  BY <1>3, <1>4
<1> QED BY <1>3, <1>5, <1>6, <1>10, <1>11, <1>12, <1>13 DEF K, Shifted, Assignments

\* The search goes on without a component whose holder cannot move.
LEMMA ShiftOn ==
  ASSUME NEW adj, NEW m, IsMatching(adj, m), NEW seen \in SUBSET Components(adj),
         NEW c \in DOMAIN adj, c # 0, \A k \in Components(adj) : m[k] = c => k \in seen,
         NEW more \in SUBSET Components(adj), seen \subseteq more,
         NEW n, Shifted(adj, m, more, c, n)
  PROVE  Shifted(adj, m, seen, c, n)
<1> DEFINE K == Components(adj)
           rest == K \ more
<1>1. /\ m \in [K -> {0} \cup DOMAIN adj]
      /\ \A k, l \in K : m[k] # 0 /\ m[k] = m[l] => k = l
  BY DEF IsMatching, Assignments
<1>2. /\ n \in [K -> {0} \cup DOMAIN adj]
      /\ \A k \in K : n[k] # 0 => k \in adj[n[k]]
      /\ \A k \in more : n[k] = m[k]
      /\ \A k, l \in rest : n[k] # 0 /\ n[k] = n[l] => k = l
      /\ \A k \in rest : n[k] # 0 /\ n[k] # c => \E l \in rest : m[l] = n[k]
      /\ \A k \in rest : m[k] # 0 => \E l \in rest : n[l] = m[k]
      /\ \E l \in rest : n[l] = c
  BY DEF Shifted, Assignments
<1>3. seen \in SUBSET K /\ more \in SUBSET K /\ \A k \in K \ seen : m[k] # c
  OBVIOUS
<1>4. \A k \in rest : k \in K \ seen /\ k \notin more
  OBVIOUS
<1>5. \A k \in K : k \in more \/ k \in rest
  OBVIOUS
<1> HIDE DEF K, rest
<1>6. \A k \in seen : n[k] = m[k]
  BY <1>2
<1>7. \A k \in K \ seen, l \in rest : k \in more /\ n[k] # 0 => n[k] # n[l]
  BY <1>1, <1>2, <1>3, <1>4
<1>8. \A k, l \in K \ seen : n[k] # 0 /\ n[k] = n[l] => k = l
  BY <1>1, <1>2, <1>5, <1>7
<1>9. \A k \in K \ seen : n[k] # 0 /\ n[k] # c => \E l \in K \ seen : m[l] = n[k]
  BY <1>2, <1>4, <1>5
<1>10. \A k \in K \ seen : m[k] # 0 => \E l \in K \ seen : n[l] = m[k]
  BY <1>2, <1>4, <1>5
<1>11. \E l \in K \ seen : n[l] = c
  BY <1>2, <1>4
<1> QED BY <1>2, <1>6, <1>8, <1>9, <1>10, <1>11 DEF K, Shifted, Assignments

\* A search that succeeds for a class that has no component places it and loses no other.
Placed(adj, m, seen, c, t) ==
    t.found /\ (\A k \in Components(adj) : m[k] = c => k \in seen) => Shifted(adj, m, seen, c, t.m)

\* By induction on the components that are not seen.
LEMMA SearchPlaces ==
  ASSUME NEW adj, Adjacency(adj), NEW m, IsMatching(adj, m), NEW try, SearchOf(try, adj, m)
  PROVE  \A seen \in SUBSET Components(adj), c \in DOMAIN adj : Placed(adj, m, seen, c, try[seen][c])
<1> DEFINE K == Components(adj)
           G == {seen \in SUBSET K : \A c \in DOMAIN adj : Placed(adj, m, seen, c, try[seen][c])}
<1>1. IsFiniteSet(K) /\ m \in Assignments(adj) /\ 0 \notin DOMAIN adj
  BY DEF Adjacency, IsMatching
<1>2. ASSUME NEW seen \in SUBSET K, \A more \in SUBSET K : seen \subseteq more /\ seen # more => more \in G
      PROVE  seen \in G
  <2> SUFFICES ASSUME NEW c \in DOMAIN adj PROVE Placed(adj, m, seen, c, try[seen][c])
    OBVIOUS
  <2> DEFINE t == try[seen][c]
  <2> SUFFICES ASSUME t.found, \A k \in K : m[k] = c => k \in seen
               PROVE  Shifted(adj, m, seen, c, t.m)
    BY DEF Placed
  <2>1. c # 0
    BY <1>1
  <2>2. ASSUME NEW comp \in K, comp \in adj[c], comp \notin seen, m[comp] = 0,
               t.m = [m EXCEPT ![comp] = c]
        PROVE  Shifted(adj, m, seen, c, t.m)
    <3> HIDE DEF t, G
    <3> QED BY <2>1, <2>2, ShiftFree
  <2>3. ASSUME NEW comp \in K, comp \in adj[c], comp \notin seen, m[comp] \in DOMAIN adj,
               NEW d \in Answers(adj), d = try[seen \cup {comp}][m[comp]], d.found,
               t.m = [d.m EXCEPT ![comp] = c]
        PROVE  Shifted(adj, m, seen, c, t.m)
    <3>1. Placed(adj, m, seen \cup {comp}, m[comp], d)
      <4>1. seen \cup {comp} \in G
        BY <1>2, <2>3
      <4> QED BY <2>3, <4>1
    <3>2. m[comp] # 0 /\ \A k \in K : m[k] = m[comp] => k \in seen \cup {comp}
      BY <1>1, <2>3 DEF IsMatching
    <3>3. Shifted(adj, m, seen \cup {comp}, m[comp], d.m)
      BY <2>3, <3>1, <3>2 DEF Placed
    <3> HIDE DEF t, G
    <3> QED BY <2>1, <2>3, <3>2, <3>3, ShiftGivenUp
  <2>4. ASSUME NEW comp \in K, comp \in adj[c], comp \notin seen,
               NEW d \in Answers(adj), t = try[seen \cup {comp} \cup d.seen][c]
        PROVE  Shifted(adj, m, seen, c, t.m)
    <3> DEFINE more == seen \cup {comp} \cup d.seen
    <3>1. more \in SUBSET K
      BY DEF Answers
    <3>2. more \in G
      BY <1>2, <2>4, <3>1
    <3>3. Placed(adj, m, more, c, t)
      BY <2>4, <3>2
    <3>4. seen \subseteq more
      OBVIOUS
    <3> HIDE DEF t, G, more
    <3>5. Shifted(adj, m, more, c, t.m)
      BY <3>3, <3>4 DEF Placed
    <3> QED BY <2>1, <3>1, <3>4, <3>5, ShiftOn
  <2>5. Searched(try, adj, m, seen, c, t)
    BY <1>1, SearchCases
  <2>6. CASE adj[c] \subseteq seen /\ t = [found |-> FALSE, m |-> m, seen |-> seen]
    <3>1. ~ t.found
      BY <2>6
    <3> QED BY <3>1
  <2> HIDE DEF t, G
  <2>7. CASE \E comp \in Components(adj) :
              /\ comp \in adj[c] /\ comp \notin seen
              /\ \/ m[comp] = 0 /\ t.found = TRUE /\ t.m = [m EXCEPT ![comp] = c]
                 \/ /\ m[comp] \in DOMAIN adj
                    /\ \E d \in Answers(adj) :
                         /\ d = try[seen \cup {comp}][m[comp]]
                         /\ \/ d.found /\ t.found = TRUE /\ t.m = [d.m EXCEPT ![comp] = c]
                            \/ ~ d.found /\ t = try[seen \cup {comp} \cup d.seen][c]
    <3>1. PICK comp \in K :
             /\ comp \in adj[c] /\ comp \notin seen
             /\ \/ m[comp] = 0 /\ t.found = TRUE /\ t.m = [m EXCEPT ![comp] = c]
                \/ /\ m[comp] \in DOMAIN adj
                   /\ \E d \in Answers(adj) :
                        /\ d = try[seen \cup {comp}][m[comp]]
                        /\ \/ d.found /\ t.found = TRUE /\ t.m = [d.m EXCEPT ![comp] = c]
                           \/ ~ d.found /\ t = try[seen \cup {comp} \cup d.seen][c]
      BY <2>7
    <3>2. CASE m[comp] = 0 /\ t.m = [m EXCEPT ![comp] = c]
      BY <2>2, <3>1, <3>2
    <3>3. ASSUME NEW d \in Answers(adj), m[comp] \in DOMAIN adj, d = try[seen \cup {comp}][m[comp]],
                 \/ d.found /\ t.found = TRUE /\ t.m = [d.m EXCEPT ![comp] = c]
                 \/ ~ d.found /\ t = try[seen \cup {comp} \cup d.seen][c]
          PROVE  Shifted(adj, m, seen, c, t.m)
      <4>1. CASE d.found /\ t.m = [d.m EXCEPT ![comp] = c]
        BY <2>3, <3>1, <3>3, <4>1
      <4>2. CASE t = try[seen \cup {comp} \cup d.seen][c]
        BY <2>4, <3>1, <4>2
      <4> QED BY <3>3, <4>1, <4>2
    <3> QED BY <3>1, <3>2, <3>3
  <2> QED BY <2>5, <2>6, <2>7 DEF Searched
<1> HIDE DEF G
<1>3. \A seen \in SUBSET K : seen \in G
  <2>1. IsFiniteSet(K)
    BY <1>1
  <2>2. \A seen \in SUBSET K :
           (\A more \in SUBSET K : seen \subseteq more /\ seen # more => more \in G) => seen \in G
    BY <1>2
  <2> HIDE DEF K
  <2> QED BY ONLY <2>1, <2>2, UpwardInduction
<1> QED BY <1>3 DEF G

\* An augmentation gives an assignment.
LEMMA SearchKeepsAssignments ==
  ASSUME NEW adj, Adjacency(adj), NEW m \in Assignments(adj), NEW c \in DOMAIN adj
  PROVE  augment(adj, m, c) \in Assignments(adj)
<1>1. PICK try : SearchOf(try, adj, m) /\ \A start \in DOMAIN adj : augment(adj, m, start) = try[{}][start].m
  BY SearchExists
<1>2. try[{}][c] \in Answers(adj)
  <2>1. {} \in SUBSET Components(adj)
    OBVIOUS
  <2> QED BY <1>1, <2>1, SearchCases
<1>3. try[{}][c].m \in Assignments(adj)
  BY <1>2 DEF Answers
<1> QED BY <1>1, <1>3

\* The classes that have a component, and a blocked set that holds every component that the
\* others of cs could have.
Saturated(adj, m, cs) ==
    /\ IsMatching(adj, m)
    /\ \A k \in Components(adj) : m[k] \in {0} \cup cs
    /\ \E B : /\ Blocked(adj, m, B)
              /\ \A c \in cs : (\E k \in Components(adj) : m[k] = c) \/ adj[c] \subseteq B

\* The search of one more class keeps the matching as large as it can be.
LEMMA AugmentSaturates ==
  ASSUME NEW adj, Adjacency(adj), NEW cs \in SUBSET DOMAIN adj, NEW c \in DOMAIN adj, c \notin cs,
         NEW m, Saturated(adj, m, cs)
  PROVE  Saturated(adj, augment(adj, m, c), cs \cup {c})
<1> DEFINE K == Components(adj)
<1>1. IsMatching(adj, m) /\ m \in Assignments(adj) /\ 0 \notin DOMAIN adj
  BY DEF Saturated, IsMatching, Adjacency
<1>2. PICK try : SearchOf(try, adj, m) /\ augment(adj, m, c) = try[{}][c].m
  BY <1>1, SearchExists
<1> DEFINE t == try[{}][c]
<1>3. \A k \in K : m[k] \in {0} \cup cs
  BY DEF Saturated
<1>4. PICK B : /\ Blocked(adj, m, B)
               /\ \A x \in cs : (\E k \in K : m[k] = x) \/ adj[x] \subseteq B
  BY DEF Saturated
<1>5. t \in Answers(adj) /\ Failed(adj, m, {}, c, t) /\ Placed(adj, m, {}, c, t) /\ Spared(adj, m, c, t, B)
  <2>1. {} \in SUBSET K
    OBVIOUS
  <2>2. t \in Answers(adj)
    BY <1>1, <1>2, <2>1, SearchCases
  <2>3. Failed(adj, m, {}, c, t)
    BY <1>1, <1>2, <2>1, SearchFails
  <2>4. Placed(adj, m, {}, c, t)
    BY <1>1, <1>2, <2>1, SearchPlaces
  <2>5. \A x \in DOMAIN adj : 0 # x
    BY <1>1
  <2>6. Spared(adj, m, c, t, B)
    BY <1>1, <1>2, <1>4, <2>1, <2>5, SearchSpares
  <2> QED BY <2>2, <2>3, <2>4, <2>6
<1>6. B \in SUBSET K /\ \A b \in B : m[b] \in DOMAIN adj /\ adj[m[b]] \subseteq B
  BY <1>4 DEF Blocked
<1>7. augment(adj, m, c) = t.m
  BY <1>2
<1> HIDE DEF t
<1>8. CASE ~ t.found
  <2>1. /\ t.m = m /\ adj[c] \subseteq t.seen /\ t.seen \in SUBSET K
        /\ \A b \in t.seen : m[b] \in DOMAIN adj /\ adj[m[b]] \subseteq t.seen
    BY <1>5, <1>8 DEF Failed, Answers
  <2> DEFINE U == B \cup t.seen
  <2>2. Blocked(adj, m, U)
    <3>1. U \subseteq K
      BY <1>6, <2>1
    <3>2. \A b \in U : m[b] \in DOMAIN adj /\ adj[m[b]] \subseteq U
      BY <1>6, <2>1
    <3> QED BY <3>1, <3>2 DEF Blocked
  <2>3. \A x \in cs \cup {c} : (\E k \in K : m[k] = x) \/ adj[x] \subseteq U
    BY <1>4, <2>1
  <2> HIDE DEF U
  <2> QED BY <1>1, <1>3, <1>7, <2>1, <2>2, <2>3 DEF Saturated
<1>9. CASE t.found
  <2> DEFINE n == t.m
  <2>1. Shifted(adj, m, {}, c, n)
    <3>1. \A k \in K : m[k] # c
      BY <1>1, <1>3
    <3> QED BY <1>5, <1>9, <3>1 DEF Placed
  <2> HIDE DEF n
  <2>2. /\ n \in Assignments(adj)
        /\ \A k \in K : n[k] # 0 => k \in adj[n[k]]
        /\ \A k, l \in K : n[k] # 0 /\ n[k] = n[l] => k = l
        /\ \A k \in K : n[k] # 0 /\ n[k] # c => \E l \in K : m[l] = n[k]
        /\ \A k \in K : m[k] # 0 => \E l \in K : n[l] = m[k]
        /\ \E l \in K : n[l] = c
    <3>1. K \ {} = K
      OBVIOUS
    <3> QED BY <2>1, <3>1 DEF Shifted
  <2>3. IsMatching(adj, n)
    BY <2>2 DEF IsMatching
  <2>4. \A k \in K : n[k] \in {0} \cup (cs \cup {c})
    BY <1>3, <2>2
  <2>5. Blocked(adj, n, B)
    <3>1. \A b \in B : n[b] = m[b]
      BY <1>5 DEF Spared, n
    <3> QED BY <1>6, <3>1 DEF Blocked
  <2>6. \A x \in cs \cup {c} : (\E k \in K : n[k] = x) \/ adj[x] \subseteq B
    <3>1. \A x \in cs : x # 0
      BY <1>1
    <3> QED BY <1>4, <2>2, <3>1
  <2> QED BY <1>7, <2>3, <2>4, <2>5, <2>6 DEF Saturated, n
<1> QED BY <1>8, <1>9

\* Every class searches once: the recursion over the classes.
LEMMA MatchingExists ==
  ASSUME NEW adj, Adjacency(adj)
  PROVE  \E after \in [SUBSET DOMAIN adj -> Assignments(adj)] :
            /\ \A cs \in SUBSET DOMAIN adj :
                  after[cs] = IF cs = {} THEN [k \in Components(adj) |-> 0]
                              ELSE augment(adj, after[cs \ {Max(cs)}], Max(cs))
            /\ max_bipartite_matching(adj) = after[DOMAIN adj]
<1> DEFINE C == DOMAIN adj
           D == SUBSET C
           V == Assignments(adj)
           rank == [cs \in D |-> Cardinality(cs)]
           N == Cardinality(C) + 1
           Step(after) == [cs \in D |-> IF cs = {} THEN [k \in Components(adj) |-> 0]
                                        ELSE augment(adj, after[cs \ {Max(cs)}], Max(cs))]
           F == [after \in [D -> V] |-> Step(after)]
<1>0. IsFiniteSet(C) /\ C \subseteq Nat
  BY DEF Adjacency
<1>1. \A cs \in D : Cardinality(cs) \in Nat /\ Cardinality(cs) < N
  <2>1. Cardinality(C) \in Nat
    BY <1>0, FS_CardinalityType
  <2> TAKE cs \in D
  <2>2. Cardinality(cs) \in Nat /\ Cardinality(cs) <= Cardinality(C)
    BY <1>0, FS_Subset, FS_CardinalityType
  <2> QED BY <2>1, <2>2
<1>2. rank \in [D -> Nat] /\ N \in Nat /\ \A q \in D : rank[q] < N
  <2>1. N \in Nat
    BY <1>0, FS_CardinalityType
  <2> HIDE DEF N, C
  <2> QED BY <1>1, <2>1
<1>3. [k \in Components(adj) |-> 0] \in V
  BY DEF Assignments
<1>4. \A cs \in D : cs # {} =>
         /\ Max(cs) \in C /\ cs \ {Max(cs)} \in D
         /\ rank[cs \ {Max(cs)}] < rank[cs]
  <2> SUFFICES ASSUME NEW cs \in D, cs # {}
               PROVE  Max(cs) \in C /\ cs \ {Max(cs)} \in D /\ rank[cs \ {Max(cs)}] < rank[cs]
    OBVIOUS
  <2>1. IsFiniteSet(cs) /\ cs \in SUBSET Nat
    BY <1>0, FS_Subset
  <2>2. Max(cs) \in cs
    BY <2>1, GreatestFacts
  <2>3. Cardinality(cs \ {Max(cs)}) = Cardinality(cs) - 1
    BY <2>1, <2>2, FS_RemoveElement
  <2>4. Cardinality(cs) \in Nat
    BY <1>1
  <2>5. cs \ {Max(cs)} \in D
    OBVIOUS
  <2> QED BY <2>2, <2>3, <2>4, <2>5
<1> HIDE DEF rank
<1>5. \A after \in [D -> V] : Step(after) \in [D -> V]
  <2> SUFFICES ASSUME NEW after \in [D -> V], NEW cs \in D
               PROVE  (IF cs = {} THEN [k \in Components(adj) |-> 0]
                       ELSE augment(adj, after[cs \ {Max(cs)}], Max(cs))) \in V
    OBVIOUS
  <2>1. CASE cs = {}
    BY <1>3, <2>1
  <2>2. CASE cs # {}
    <3>1. after[cs \ {Max(cs)}] \in V /\ Max(cs) \in C
      BY <1>4, <2>2
    <3>2. augment(adj, after[cs \ {Max(cs)}], Max(cs)) \in V
      BY <3>1, SearchKeepsAssignments
    <3> QED BY <2>2, <3>2
  <2> QED BY <2>1, <2>2
<1>6. F \in [[D -> V] -> [D -> V]]
  <2> HIDE DEF Step, D, V
  <2> QED BY <1>5
<1>7. ASSUME NEW g, NEW h, NEW q \in D, \A p \in D : rank[p] < rank[q] => g[p] = h[p]
      PROVE  Step(g)[q] = Step(h)[q]
  <2>1. CASE q = {}
    BY <2>1
  <2>2. CASE q # {}
    <3>1. g[q \ {Max(q)}] = h[q \ {Max(q)}]
      BY <1>4, <1>7, <2>2
    <3> QED BY <2>2, <3>1
  <2> QED BY <2>1, <2>2
<1>8. \A g, h \in [D -> V] : \A q \in D :
         (\A p \in D : rank[p] < rank[q] => g[p] = h[p]) => F[g][q] = F[h][q]
  <2> SUFFICES ASSUME NEW g \in [D -> V], NEW h \in [D -> V], NEW q \in D,
                      \A p \in D : rank[p] < rank[q] => g[p] = h[p]
               PROVE  F[g][q] = F[h][q]
    OBVIOUS
  <2>1. Step(g)[q] = Step(h)[q]
    <3> HIDE DEF Step, D, V
    <3> QED BY <1>7
  <2> HIDE DEF Step, D, V
  <2> QED BY <2>1
<1>9. PICK w \in [D -> V] : w = Step(w)
  <2>1. V # {}
    BY <1>3
  <2>2. \E f \in [D -> V] : f = F[f]
    <3> HIDE DEF F, D, V, N
    <3>1. Recursion(D, V, rank, N, F)
      BY <1>2, <1>6, <1>8, <2>1 DEF Recursion
    <3> QED BY <3>1, RecursionExists
  <2> HIDE DEF Step, D, V
  <2> QED BY <2>2
<1> DEFINE v == CHOOSE after :
                  after = [cs \in D |-> IF cs = {} THEN [k \in Components(adj) |-> 0]
                                        ELSE augment(adj, after[cs \ {Max(cs)}], Max(cs))]
<1>10. v = Step(v)
  BY <1>9
<1>11. max_bipartite_matching(adj) = v[C]
  BY DEF max_bipartite_matching
<1> HIDE DEF v
<1>12. \A q \in D : v[q] = w[q]
  <2> DEFINE Bad == {n \in Nat : \E q \in D : rank[q] = n /\ v[q] # w[q]}
  <2> SUFFICES ASSUME Bad # {} PROVE FALSE
    <3> HIDE DEF D, V, N
    <3> QED BY <1>2
  <2>1. PICK n \in Bad : \A k \in Bad : n <= k
    <3>1. Bad \in SUBSET Nat
      OBVIOUS
    <3> HIDE DEF Bad
    <3> QED BY <3>1, LeastExists
  <2>2. PICK q \in D : rank[q] = n /\ v[q] # w[q]
    BY <2>1
  <2>3. \A p \in D : rank[p] < rank[q] => v[p] = w[p]
    <3> HIDE DEF D, V, N
    <3> QED BY <1>2, <2>1, <2>2
  <2>4. Step(v)[q] = Step(w)[q]
    <3> HIDE DEF Step, D, V, Bad
    <3> QED BY <1>7, <2>3
  <2> HIDE DEF Step
  <2> QED BY <1>9, <1>10, <2>2, <2>4
<1>13. v[C] = w[C]
  BY <1>12
<1>14. \A cs \in D : w[cs] = IF cs = {} THEN [k \in Components(adj) |-> 0]
                             ELSE augment(adj, w[cs \ {Max(cs)}], Max(cs))
  <2>1. \A cs \in D : Step(w)[cs] = IF cs = {} THEN [k \in Components(adj) |-> 0]
                                    ELSE augment(adj, w[cs \ {Max(cs)}], Max(cs))
    OBVIOUS
  <2> HIDE DEF Step
  <2> QED BY <1>9, <2>1
<1> HIDE DEF Step
<1> QED BY <1>11, <1>13, <1>14

\* After every class has searched, each is placed or blocked.
LEMMA MatchingSaturated ==
  ASSUME NEW adj, Adjacency(adj)
  PROVE  Saturated(adj, max_bipartite_matching(adj), DOMAIN adj)
<1> DEFINE C == DOMAIN adj
           K == Components(adj)
<1>1. PICK after \in [SUBSET C -> Assignments(adj)] :
        /\ \A cs \in SUBSET C : after[cs] = IF cs = {} THEN [k \in K |-> 0]
                                            ELSE augment(adj, after[cs \ {Max(cs)}], Max(cs))
        /\ max_bipartite_matching(adj) = after[C]
  BY MatchingExists
<1> DEFINE G == {cs \in SUBSET C : Saturated(adj, after[cs], cs)}
<1>2. IsFiniteSet(C) /\ C \subseteq Nat
  BY DEF Adjacency
<1>3. ASSUME NEW cs \in SUBSET C, \A less \in SUBSET C : less \subseteq cs /\ cs # less => less \in G
      PROVE  cs \in G
  <2>1. CASE cs = {}
    <3> DEFINE m == [k \in K |-> 0]
    <3>1. after[cs] = m
      BY <1>1, <2>1
    <3>2. IsMatching(adj, m)
      BY DEF IsMatching, Assignments
    <3>3. Blocked(adj, m, {})
      BY DEF Blocked
    <3>4. \A k \in K : m[k] \in {0} \cup cs
      OBVIOUS
    <3> HIDE DEF m
    <3>5. Saturated(adj, m, cs)
      BY <2>1, <3>2, <3>3, <3>4 DEF Saturated
    <3> QED BY <3>1, <3>5
  <2>2. CASE cs # {}
    <3> DEFINE c == Max(cs)
               less == cs \ {c}
    <3>1. c \in cs
      <4>1. IsFiniteSet(cs) /\ cs \in SUBSET Nat
        BY <1>2, FS_Subset
      <4> QED BY <2>2, <4>1, GreatestFacts
    <3> HIDE DEF c
    <3>2. less \in SUBSET C /\ less \subseteq cs /\ cs # less /\ c \in C /\ c \notin less /\ cs = less \cup {c}
      BY <3>1
    <3>3. Saturated(adj, after[less], less)
      BY <1>3, <3>2
    <3>4. Saturated(adj, augment(adj, after[less], c), less \cup {c})
      <4> HIDE DEF less
      <4> QED BY <3>2, <3>3, AugmentSaturates
    <3>5. after[cs] = augment(adj, after[less], c)
      BY <1>1, <2>2 DEF c
    <3>6. Saturated(adj, after[cs], cs)
      BY <3>2, <3>4, <3>5
    <3> QED BY <3>6
  <2> QED BY <2>1, <2>2
<1> HIDE DEF G
<1>4. \A cs \in SUBSET C : cs \in G
  BY <1>2, <1>3, DownwardInduction
<1>5. C \in G
  BY <1>4
<1> QED BY <1>1, <1>5 DEF G

\* No assignment of classes to components is larger than the one that augment builds.
THEOREM MatchingIsLargest ==
  ASSUME NEW adj, Adjacency(adj), NEW T, NEW a \in [T -> DOMAIN adj], NEW b \in [T -> Components(adj)],
         \A x \in T : b[x] \in adj[a[x]],
         \A x, y \in T : a[x] = a[y] \/ b[x] = b[y] => x = y
  PROVE  /\ IsFiniteSet(T) /\ IsFiniteSet(Matched(max_bipartite_matching(adj)))
         /\ Cardinality(T) <= Cardinality(Matched(max_bipartite_matching(adj)))
<1> DEFINE m == max_bipartite_matching(adj)
           K == Components(adj)
           M == Matched(m)
<1>1. Saturated(adj, m, DOMAIN adj)
  BY MatchingSaturated
<1> HIDE DEF m
<1>2. m \in [K -> {0} \cup DOMAIN adj] /\ 0 \notin DOMAIN adj
  BY <1>1 DEF Saturated, IsMatching, Assignments, Adjacency
<1>3. PICK B : /\ Blocked(adj, m, B)
               /\ \A c \in DOMAIN adj : (\E k \in K : m[k] = c) \/ adj[c] \subseteq B
  BY <1>1 DEF Saturated
<1>4. B \in SUBSET K /\ \A k \in B : m[k] \in DOMAIN adj /\ adj[m[k]] \subseteq B
  BY <1>3 DEF Blocked
<1>5. M = {k \in K : m[k] # 0}
  BY <1>2 DEF Matched
<1>6. IsFiniteSet(M)
  <2>1. IsFiniteSet(K) /\ M \in SUBSET K
    BY <1>5 DEF Adjacency
  <2> HIDE DEF M
  <2> QED BY <2>1, FS_Subset
<1> HIDE DEF M
<1> DEFINE Own(x, k) == m[k] = a[x] /\ k \notin B
           g == [x \in T |-> IF b[x] \in B THEN b[x] ELSE CHOOSE k \in K : Own(x, k)]
<1>7. \A x \in T : b[x] \notin B => \E k \in K : Own(x, k)
  <2> SUFFICES ASSUME NEW x \in T, b[x] \notin B PROVE \E k \in K : Own(x, k)
    OBVIOUS
  <2>1. a[x] \in DOMAIN adj /\ ~ adj[a[x]] \subseteq B
    OBVIOUS
  <2>2. PICK k \in K : m[k] = a[x]
    BY <1>3, <2>1
  <2>3. k \notin B
    BY <1>4, <2>1, <2>2
  <2> QED BY <2>2, <2>3
<1>8. \A x \in T : b[x] \notin B => g[x] \in K /\ Own(x, g[x])
  <2> HIDE DEF Own, K
  <2> QED BY <1>7
<1>9. \A x \in T : b[x] \in B => g[x] = b[x]
  OBVIOUS
<1>10. \A x \in T : g[x] \in M
  <2> TAKE x \in T
  <2>1. a[x] \in DOMAIN adj
    OBVIOUS
  <2> HIDE DEF g
  <2> QED BY <1>2, <1>4, <1>5, <1>8, <1>9, <2>1
<1>11. g \in [T -> M]
  <2>1. g = [x \in T |-> g[x]]
    OBVIOUS
  <2> HIDE DEF g
  <2> QED BY <1>10, <2>1
<1> HIDE DEF g
<1>12. \A x, y \in T : g[x] = g[y] => x = y
  <2> SUFFICES ASSUME NEW x \in T, NEW y \in T, g[x] = g[y] PROVE x = y
    OBVIOUS
  <2>1. CASE b[x] \in B /\ b[y] \in B
    BY <1>9, <2>1
  <2>2. CASE b[x] \notin B /\ b[y] \notin B
    BY <1>8, <2>2
  <2>3. CASE b[x] \in B /\ b[y] \notin B
    BY <1>8, <1>9, <2>3
  <2>4. CASE b[x] \notin B /\ b[y] \in B
    BY <1>8, <1>9, <2>4
  <2> QED BY <2>1, <2>2, <2>3, <2>4
<1>13. g \in Injection(T, M)
  BY <1>11, <1>12 DEF Injection, IsInjective
<1>14. IsFiniteSet(T) /\ Cardinality(T) <= Cardinality(M)
  BY <1>6, <1>13, FS_Injection
<1> QED BY <1>6, <1>14 DEF M, m

(* Union-find *)

\* Finitely many groups of references.
Groups(groups) == IsFiniteSet(groups) /\ \A g \in groups : g \in SUBSET Nat /\ g # {}

\* Joining a group connects its references and what they were connected to, and nothing else.
LEMMA UnionGroupKeeps ==
  ASSUME NEW U \in SUBSET Nat, NEW R \in [U -> U], NEW g \in SUBSET U, g # {}
  PROVE  /\ UnionGroup(R, g) \in [U -> U]
         /\ \A x, y \in g : UnionGroup(R, g)[x] = UnionGroup(R, g)[y]
         /\ \A x, y \in U : R[x] = R[y] => UnionGroup(R, g)[x] = UnionGroup(R, g)[y]
         /\ \A x, y \in U : UnionGroup(R, g)[x] = UnionGroup(R, g)[y] =>
               R[x] = R[y] \/ \E r, s \in g : R[x] = R[r] /\ R[y] = R[s]
<1> DEFINE roots == {R[r] : r \in g}
           low == Min(roots)
           J == UnionGroup(R, g)
<1>1. roots \in SUBSET Nat /\ roots # {} /\ roots \subseteq U
  OBVIOUS
<1>2. low \in roots
  <2> HIDE DEF roots
  <2> QED BY <1>1, LeastFacts
<1>3. J = [x \in U |-> IF R[x] \in roots THEN low ELSE R[x]]
  BY DEF UnionGroup
<1>4. \A x \in U : R[x] \in U /\ (R[x] \in roots <=> \E r \in g : R[x] = R[r])
  OBVIOUS
<1> HIDE DEF roots, low, J
<1>5. J \in [U -> U]
  BY <1>1, <1>2, <1>3, <1>4
<1>6. \A x \in U : J[x] = IF R[x] \in roots THEN low ELSE R[x]
  BY <1>3
<1>7. \A x, y \in g : J[x] = J[y]
  BY <1>4, <1>6
<1>8. \A x, y \in U : R[x] = R[y] => J[x] = J[y]
  BY <1>6
<1>9. \A x, y \in U : J[x] = J[y] => R[x] = R[y] \/ \E r, s \in g : R[x] = R[r] /\ R[y] = R[s]
  <2> SUFFICES ASSUME NEW x \in U, NEW y \in U, J[x] = J[y], R[x] # R[y]
               PROVE  \E r, s \in g : R[x] = R[r] /\ R[y] = R[s]
    OBVIOUS
  <2>1. R[x] \in roots /\ R[y] \in roots
    BY <1>2, <1>6
  <2> QED BY <1>4, <2>1
<1> QED BY <1>5, <1>7, <1>8, <1>9 DEF J

\* The union-find joins every group once (aggregation.py _UnionFind).
LEMMA RootsExist ==
  ASSUME NEW groups, Groups(groups)
  PROVE  \E root \in [SUBSET groups -> [UNION groups -> UNION groups]] :
            /\ \A gs \in SUBSET groups :
                  root[gs] = IF gs = {} THEN [r \in UNION groups |-> r]
                             ELSE LET g == CHOOSE h \in gs : TRUE IN UnionGroup(root[gs \ {g}], g)
            /\ Roots(groups) = root[groups]
<1> DEFINE U == UNION groups
           D == SUBSET groups
           V == [U -> U]
           rank == [gs \in D |-> Cardinality(gs)]
           N == Cardinality(groups) + 1
           pick(gs) == CHOOSE h \in gs : TRUE
           Step(root) == [gs \in D |-> IF gs = {} THEN [r \in U |-> r]
                                       ELSE UnionGroup(root[gs \ {pick(gs)}], pick(gs))]
           F == [root \in [D -> V] |-> Step(root)]
<1>0. IsFiniteSet(groups) /\ U \in SUBSET Nat /\ \A g \in groups : g \in SUBSET U /\ g # {}
  BY DEF Groups
<1>1. \A gs \in D : Cardinality(gs) \in Nat /\ Cardinality(gs) < N
  <2>1. Cardinality(groups) \in Nat
    BY <1>0, FS_CardinalityType
  <2> TAKE gs \in D
  <2>2. Cardinality(gs) \in Nat /\ Cardinality(gs) <= Cardinality(groups)
    BY <1>0, FS_Subset, FS_CardinalityType
  <2> QED BY <2>1, <2>2
<1>2. rank \in [D -> Nat] /\ N \in Nat /\ \A q \in D : rank[q] < N
  <2>1. N \in Nat
    BY <1>0, FS_CardinalityType
  <2> HIDE DEF N, D
  <2> QED BY <1>1, <2>1
<1>3. [r \in U |-> r] \in V
  OBVIOUS
<1>4. \A gs \in D : gs # {} =>
         /\ pick(gs) \in groups /\ gs \ {pick(gs)} \in D
         /\ rank[gs \ {pick(gs)}] < rank[gs]
  <2> SUFFICES ASSUME NEW gs \in D, gs # {}
               PROVE  pick(gs) \in groups /\ gs \ {pick(gs)} \in D /\ rank[gs \ {pick(gs)}] < rank[gs]
    OBVIOUS
  <2>1. IsFiniteSet(gs)
    BY <1>0, FS_Subset
  <2>2. pick(gs) \in gs
    OBVIOUS
  <2> HIDE DEF pick
  <2>3. Cardinality(gs \ {pick(gs)}) = Cardinality(gs) - 1
    BY <2>1, <2>2, FS_RemoveElement
  <2>4. Cardinality(gs) \in Nat
    BY <1>1
  <2>5. gs \ {pick(gs)} \in D
    OBVIOUS
  <2> QED BY <2>2, <2>3, <2>4, <2>5
<1> HIDE DEF rank, pick
<1>5. \A root \in [D -> V] : Step(root) \in [D -> V]
  <2> SUFFICES ASSUME NEW root \in [D -> V], NEW gs \in D
               PROVE  (IF gs = {} THEN [r \in U |-> r]
                       ELSE UnionGroup(root[gs \ {pick(gs)}], pick(gs))) \in V
    OBVIOUS
  <2>1. CASE gs = {}
    BY <1>3, <2>1
  <2>2. CASE gs # {}
    <3>1. root[gs \ {pick(gs)}] \in V /\ pick(gs) \in groups
      BY <1>4, <2>2
    <3>2. UnionGroup(root[gs \ {pick(gs)}], pick(gs)) \in V
      <4>1. U \in SUBSET Nat /\ pick(gs) \in SUBSET U /\ pick(gs) # {} /\ root[gs \ {pick(gs)}] \in [U -> U]
        BY <1>0, <3>1
      <4> HIDE DEF U
      <4> QED BY <4>1, UnionGroupKeeps
    <3> QED BY <2>2, <3>2
  <2> QED BY <2>1, <2>2
<1>6. F \in [[D -> V] -> [D -> V]]
  <2> HIDE DEF Step, D, V
  <2> QED BY <1>5
<1>7. ASSUME NEW g, NEW h, NEW q \in D, \A p \in D : rank[p] < rank[q] => g[p] = h[p]
      PROVE  Step(g)[q] = Step(h)[q]
  <2>1. CASE q = {}
    BY <2>1
  <2>2. CASE q # {}
    <3>1. g[q \ {pick(q)}] = h[q \ {pick(q)}]
      BY <1>4, <1>7, <2>2
    <3> QED BY <2>2, <3>1
  <2> QED BY <2>1, <2>2
<1>8. \A g, h \in [D -> V] : \A q \in D :
         (\A p \in D : rank[p] < rank[q] => g[p] = h[p]) => F[g][q] = F[h][q]
  <2> SUFFICES ASSUME NEW g \in [D -> V], NEW h \in [D -> V], NEW q \in D,
                      \A p \in D : rank[p] < rank[q] => g[p] = h[p]
               PROVE  F[g][q] = F[h][q]
    OBVIOUS
  <2>1. Step(g)[q] = Step(h)[q]
    <3> HIDE DEF Step, D, V
    <3> QED BY <1>7
  <2> HIDE DEF Step, D, V
  <2> QED BY <2>1
<1>9. PICK w \in [D -> V] : w = Step(w)
  <2>1. V # {}
    BY <1>3
  <2>2. \E f \in [D -> V] : f = F[f]
    <3> HIDE DEF F, D, V, N
    <3>1. Recursion(D, V, rank, N, F)
      BY <1>2, <1>6, <1>8, <2>1 DEF Recursion
    <3> QED BY <3>1, RecursionExists
  <2> HIDE DEF Step, D, V
  <2> QED BY <2>2
<1> DEFINE v == CHOOSE root :
                  root = [gs \in D |-> IF gs = {} THEN [r \in U |-> r]
                                       ELSE LET g == CHOOSE h \in gs : TRUE
                                            IN  UnionGroup(root[gs \ {g}], g)]
<1>10. v = Step(v)
  BY <1>9 DEF pick
<1>11. Roots(groups) = v[groups]
  BY DEF Roots
<1> HIDE DEF v
<1>12. \A q \in D : v[q] = w[q]
  <2> DEFINE Bad == {n \in Nat : \E q \in D : rank[q] = n /\ v[q] # w[q]}
  <2> SUFFICES ASSUME Bad # {} PROVE FALSE
    <3> HIDE DEF D, V, N
    <3> QED BY <1>2
  <2>1. PICK n \in Bad : \A k \in Bad : n <= k
    <3>1. Bad \in SUBSET Nat
      OBVIOUS
    <3> HIDE DEF Bad
    <3> QED BY <3>1, LeastExists
  <2>2. PICK q \in D : rank[q] = n /\ v[q] # w[q]
    BY <2>1
  <2>3. \A p \in D : rank[p] < rank[q] => v[p] = w[p]
    <3> HIDE DEF D, V, N
    <3> QED BY <1>2, <2>1, <2>2
  <2>4. Step(v)[q] = Step(w)[q]
    <3> HIDE DEF Step, D, V, Bad
    <3> QED BY <1>7, <2>3
  <2> HIDE DEF Step
  <2> QED BY <1>9, <1>10, <2>2, <2>4
<1>13. v[groups] = w[groups]
  BY <1>12
<1>14. \A gs \in D : w[gs] = IF gs = {} THEN [r \in U |-> r]
                             ELSE UnionGroup(w[gs \ {pick(gs)}], pick(gs))
  <2>1. \A gs \in D : Step(w)[gs] = IF gs = {} THEN [r \in U |-> r]
                                    ELSE UnionGroup(w[gs \ {pick(gs)}], pick(gs))
    OBVIOUS
  <2> HIDE DEF Step
  <2> QED BY <1>9, <2>1
<1> HIDE DEF Step
<1> QED BY <1>11, <1>13, <1>14 DEF pick

\* No group crosses the set c.
Closed(groups, c) == \A h \in groups : h \cap c # {} => h \subseteq c

\* The representatives tell apart exactly what a closed set can tell apart.
Represents(R, U, gs) ==
    /\ R \in [U -> U]
    /\ \A g \in gs : \A x, y \in g : R[x] = R[y]
    /\ \A x, y \in U : R[x] = R[y] => \A c \in SUBSET U : Closed(gs, c) => (x \in c <=> y \in c)

\* A further group is represented when it is joined.
LEMMA UnionRepresents ==
  ASSUME NEW U \in SUBSET Nat, NEW gs \in SUBSET SUBSET U, NEW g \in SUBSET U, g # {},
         NEW R, Represents(R, U, gs)
  PROVE  Represents(UnionGroup(R, g), U, gs \cup {g})
<1> DEFINE J == UnionGroup(R, g)
<1>1. /\ R \in [U -> U]
      /\ \A h \in gs : \A x, y \in h : R[x] = R[y]
      /\ \A x, y \in U : R[x] = R[y] => \A c \in SUBSET U : Closed(gs, c) => (x \in c <=> y \in c)
  BY DEF Represents
<1>2. /\ J \in [U -> U]
      /\ \A x, y \in g : J[x] = J[y]
      /\ \A x, y \in U : R[x] = R[y] => J[x] = J[y]
      /\ \A x, y \in U : J[x] = J[y] => R[x] = R[y] \/ \E r, s \in g : R[x] = R[r] /\ R[y] = R[s]
  BY <1>1, UnionGroupKeeps
<1> HIDE DEF J
<1>3. \A h \in gs \cup {g} : \A x, y \in h : J[x] = J[y]
  BY <1>1, <1>2
<1>4. \A x, y \in U : J[x] = J[y] =>
         \A c \in SUBSET U : Closed(gs \cup {g}, c) => (x \in c <=> y \in c)
  <2> SUFFICES ASSUME NEW x \in U, NEW y \in U, J[x] = J[y], NEW c \in SUBSET U, Closed(gs \cup {g}, c)
               PROVE  x \in c <=> y \in c
    OBVIOUS
  <2>1. Closed(gs, c) /\ (g \cap c # {} => g \subseteq c)
    BY DEF Closed
  <2>2. CASE R[x] = R[y]
    BY <1>1, <2>1, <2>2
  <2>3. CASE \E r, s \in g : R[x] = R[r] /\ R[y] = R[s]
    <3>1. PICK r \in g, s \in g : R[x] = R[r] /\ R[y] = R[s]
      BY <2>3
    <3>2. (x \in c <=> r \in c) /\ (y \in c <=> s \in c)
      BY <1>1, <2>1, <3>1
    <3>3. r \in c <=> s \in c
      BY <2>1
    <3> QED BY <3>2, <3>3
  <2> QED BY <1>2, <2>2, <2>3
<1> QED BY <1>2, <1>3, <1>4 DEF Represents, J

\* All groups are represented when all are joined.
LEMMA RootsRepresent ==
  ASSUME NEW groups, Groups(groups)
  PROVE  Represents(Roots(groups), UNION groups, groups)
<1> DEFINE U == UNION groups
<1>1. PICK root \in [SUBSET groups -> [U -> U]] :
         /\ \A gs \in SUBSET groups :
               root[gs] = IF gs = {} THEN [r \in U |-> r]
                          ELSE LET g == CHOOSE h \in gs : TRUE IN UnionGroup(root[gs \ {g}], g)
         /\ Roots(groups) = root[groups]
  BY RootsExist
<1> DEFINE G == {gs \in SUBSET groups : Represents(root[gs], U, gs)}
<1>2. IsFiniteSet(groups) /\ U \in SUBSET Nat /\ \A g \in groups : g \in SUBSET U /\ g # {}
  BY DEF Groups
<1>3. ASSUME NEW gs \in SUBSET groups, \A less \in SUBSET groups : less \subseteq gs /\ gs # less => less \in G
      PROVE  gs \in G
  <2>1. CASE gs = {}
    <3>1. root[gs] = [r \in U |-> r]
      BY <1>1, <2>1
    <3>2. Represents([r \in U |-> r], U, {})
      BY DEF Represents
    <3> QED BY <2>1, <3>1, <3>2
  <2>2. CASE gs # {}
    <3> DEFINE g == CHOOSE h \in gs : TRUE
               less == gs \ {g}
    <3>1. g \in gs
      BY <2>2
    <3>2. root[gs] = UnionGroup(root[less], g)
      BY <1>1, <2>2
    <3> HIDE DEF g
    <3>3. less \in SUBSET groups /\ less \subseteq gs /\ gs # less /\ gs = less \cup {g}
      BY <3>1
    <3>4. Represents(root[less], U, less)
      BY <1>3, <3>3
    <3>5. less \in SUBSET SUBSET U /\ g \in SUBSET U /\ g # {}
      BY <1>2, <3>1
    <3> HIDE DEF less, U
    <3>6. Represents(UnionGroup(root[less], g), U, less \cup {g})
      BY <1>2, <3>4, <3>5, UnionRepresents
    <3>7. Represents(root[gs], U, gs)
      BY <3>2, <3>3, <3>6
    <3> QED BY <3>7
  <2> QED BY <2>1, <2>2
<1> HIDE DEF G
<1>4. \A gs \in SUBSET groups : gs \in G
  BY <1>2, <1>3, DownwardInduction
<1>5. groups \in G
  BY <1>4
<1> QED BY <1>1, <1>5 DEF G

\* Two groups have one root exactly when a chain of shared references connects them.
LEMMA RootsAreConnections ==
  ASSUME NEW groups, Groups(groups), NEW g \in groups, NEW h \in groups
  PROVE  /\ Min(g) \in g /\ Min(h) \in h
         /\ Roots(groups) \in [UNION groups -> UNION groups]
         /\ Roots(groups)[Min(g)] = Roots(groups)[Min(h)] <=> Connected(groups, g) = Connected(groups, h)
<1> DEFINE U == UNION groups
           R == Roots(groups)
<1>1. Represents(R, U, groups)
  BY RootsRepresent
<1> HIDE DEF R
<1>2. /\ R \in [U -> U]
      /\ \A k \in groups : \A x, y \in k : R[x] = R[y]
      /\ \A x, y \in U : R[x] = R[y] => \A c \in SUBSET U : Closed(groups, c) => (x \in c <=> y \in c)
  BY <1>1 DEF Represents
<1>3. g \in SUBSET Nat /\ g # {} /\ h \in SUBSET Nat /\ h # {}
  BY DEF Groups
<1>4. Min(g) \in g /\ Min(h) \in h
  BY <1>3, LeastFacts
<1>5. \A k \in groups : Connected(groups, k) = {x \in U : \A c \in SUBSET U : k \subseteq c /\ Closed(groups, c) => x \in c}
  BY DEF Connected, Closed
<1>6. ASSUME R[Min(g)] = R[Min(h)] PROVE Connected(groups, g) = Connected(groups, h)
  <2>1. \A c \in SUBSET U : Closed(groups, c) => (g \subseteq c <=> h \subseteq c)
    <3> SUFFICES ASSUME NEW c \in SUBSET U, Closed(groups, c) PROVE g \subseteq c <=> h \subseteq c
      OBVIOUS
    <3>1. (Min(g) \in c <=> g \subseteq c) /\ (Min(h) \in c <=> h \subseteq c)
      BY <1>4 DEF Closed
    <3>2. Min(g) \in U /\ Min(h) \in U
      BY <1>4
    <3> QED BY <1>2, <1>6, <3>1, <3>2
  <2> QED BY <1>5, <2>1
<1>7. ASSUME Connected(groups, g) = Connected(groups, h) PROVE R[Min(g)] = R[Min(h)]
  <2> DEFINE c == {x \in U : R[x] = R[Min(g)]}
  <2>1. Closed(groups, c)
    <3> SUFFICES ASSUME NEW k \in groups, NEW x \in k, x \in c, NEW y \in k PROVE y \in c
      BY DEF Closed
    <3> QED BY <1>2
  <2>2. g \subseteq c /\ c \in SUBSET U
    BY <1>2, <1>4
  <2>3. Min(h) \in Connected(groups, h)
    BY <1>4, <1>5
  <2>4. Min(h) \in c
    <3> HIDE DEF c
    <3> QED BY <1>5, <1>7, <2>1, <2>2, <2>3
  <2> QED BY <2>4
<1> QED BY <1>2, <1>4, <1>6, <1>7 DEF R

\* A largest member is the maximum.
LEMMA MaxIs ==
  ASSUME NEW S \in SUBSET Nat, NEW n \in S, \A y \in S : y <= n
  PROVE  Max(S) = n
<1>1. \E x \in S : \A y \in S : x >= y
  OBVIOUS
<1>2. \A x \in S : (\A y \in S : x >= y) => x = n
  OBVIOUS
<1> QED BY <1>1, <1>2 DEF Max

\* Evidence classes with the references that support them.
Supported(entries) ==
    /\ IsFiniteSet(entries)
    /\ \A e \in entries : e[1] \in Nat \ {0} /\ e[2] \in SUBSET Nat /\ e[2] # {}

\* The classes and components of entries that are supported.
LEMMA EntriesFacts ==
  ASSUME NEW entries, Supported(entries)
  PROVE  LET groups == {e[2] : e \in entries}
             root == Roots(groups)
             adj == ClassToComponent(entries)
         IN  /\ Groups(groups)
             /\ Adjacency(adj)
             /\ DOMAIN adj = {e[1] : e \in entries}
             /\ Components(adj) = {root[Min(e[2])] : e \in entries}
             /\ \A e \in entries : root[Min(e[2])] \in adj[e[1]]
             /\ \A c \in DOMAIN adj : \A k \in adj[c] : \E e \in entries : e[1] = c /\ root[Min(e[2])] = k
             /\ \A e, f \in entries : root[Min(e[2])] = root[Min(f[2])]
                                       <=> Connected(groups, e[2]) = Connected(groups, f[2])
<1> DEFINE groups == {e[2] : e \in entries}
           root == Roots(groups)
           adj == ClassToComponent(entries)
           refs == [e \in entries |-> e[2]]
           classes == [e \in entries |-> e[1]]
           comp == [e \in entries |-> root[Min(e[2])]]
<1>1. /\ IsFiniteSet(entries)
      /\ \A e \in entries : e[1] \in Nat \ {0} /\ e[2] \in SUBSET Nat /\ e[2] # {} /\ e[2] \in groups
  BY DEF Supported
<1>2. Groups(groups)
  <2>1. IsFiniteSet({refs[e] : e \in entries})
    <3>1. refs \in [entries -> SUBSET Nat]
      BY <1>1
    <3> HIDE DEF refs
    <3> QED BY <1>1, <3>1, ImageFinite
  <2>2. IsFiniteSet(groups)
    BY <2>1
  <2> QED BY <1>1, <2>2 DEF Groups
<1>3. \A e, f \in entries : /\ Min(e[2]) \in e[2]
                            /\ root \in [UNION groups -> UNION groups]
                            /\ root[Min(e[2])] = root[Min(f[2])] <=> Connected(groups, e[2]) = Connected(groups, f[2])
  <2> TAKE e \in entries, f \in entries
  <2>1. e[2] \in groups /\ f[2] \in groups
    OBVIOUS
  <2> HIDE DEF groups
  <2>2. ASSUME NEW g \in groups, NEW h \in groups
        PROVE  /\ Min(g) \in g
               /\ root \in [UNION groups -> UNION groups]
               /\ root[Min(g)] = root[Min(h)] <=> Connected(groups, g) = Connected(groups, h)
    BY <1>2, RootsAreConnections
  <2> HIDE DEF root
  <2> QED BY <2>1, <2>2
<1>4. \A e \in entries : root[Min(e[2])] \in Nat
  <2> TAKE e \in entries
  <2>1. Min(e[2]) \in UNION groups
    BY <1>1, <1>3
  <2>2. UNION groups \subseteq Nat
    BY <1>1
  <2> HIDE DEF groups, root
  <2> QED BY <1>3, <2>1, <2>2
<1>5. adj = [c \in {e[1] : e \in entries} |-> {root[Min(e[2])] : e \in {x \in entries : x[1] = c}}]
  BY DEF ClassToComponent
<1> HIDE DEF root, adj
<1>6. DOMAIN adj = {e[1] : e \in entries}
  BY <1>5
<1>7. \A e \in entries : root[Min(e[2])] \in adj[e[1]]
  BY <1>5
<1>8. \A c \in DOMAIN adj : \A k \in adj[c] : \E e \in entries : e[1] = c /\ root[Min(e[2])] = k
  BY <1>5
<1>9. Components(adj) = {root[Min(e[2])] : e \in entries}
  <2>1. \A k \in Components(adj) : \E e \in entries : k = root[Min(e[2])]
    BY <1>8 DEF Components
  <2>2. \A e \in entries : root[Min(e[2])] \in Components(adj)
    BY <1>6, <1>7 DEF Components
  <2> QED BY <2>1, <2>2
<1>10. Adjacency(adj)
  <2>1. IsFiniteSet({classes[e] : e \in entries})
    <3>1. classes \in [entries -> Nat]
      BY <1>1
    <3> HIDE DEF classes
    <3> QED BY <1>1, <3>1, ImageFinite
  <2>2. IsFiniteSet(DOMAIN adj)
    BY <1>6, <2>1
  <2>3. IsFiniteSet({comp[e] : e \in entries})
    <3>1. comp \in [entries -> Nat]
      BY <1>4
    <3> HIDE DEF comp
    <3> QED BY <1>1, <3>1, ImageFinite
  <2>4. IsFiniteSet(Components(adj))
    BY <1>9, <2>3
  <2>5. DOMAIN adj \subseteq Nat \ {0}
    BY <1>1, <1>6
  <2>6. Components(adj) \subseteq Nat
    BY <1>4, <1>9
  <2> QED BY <2>2, <2>4, <2>5, <2>6 DEF Adjacency
<1> QED BY <1>2, <1>3, <1>6, <1>7, <1>8, <1>9, <1>10 DEF root, adj

\* The assignments that IndependentSupport takes the largest of.
Independent(entries) ==
    {t \in SUBSET {<<e[1], Connected({x[2] : x \in entries}, e[2])>> : e \in entries} :
        \A a, b \in t : a # b => a[1] # b[1] /\ a[2] # b[2]}

\* No independent support is larger than the matching.
LEMMA SupportBounded ==
  ASSUME NEW entries, Supported(entries), NEW t \in Independent(entries)
  PROVE  LET M == Matched(max_bipartite_matching(ClassToComponent(entries)))
         IN  IsFiniteSet(t) /\ IsFiniteSet(M) /\ Cardinality(t) <= Cardinality(M)
<1> DEFINE groups == {e[2] : e \in entries}
           root == Roots(groups)
           adj == ClassToComponent(entries)
           con(e) == Connected(groups, e[2])
           Of(p, e) == p = <<e[1], con(e)>>
           of == [p \in t |-> CHOOSE e \in entries : Of(p, e)]
           a == [p \in t |-> of[p][1]]
           b == [p \in t |-> root[Min(of[p][2])]]
<1>1. /\ Adjacency(adj) /\ DOMAIN adj = {e[1] : e \in entries}
      /\ Components(adj) = {root[Min(e[2])] : e \in entries}
      /\ \A e \in entries : root[Min(e[2])] \in adj[e[1]]
      /\ \A e, f \in entries : root[Min(e[2])] = root[Min(f[2])] <=> con(e) = con(f)
  BY EntriesFacts
<1>2. \A p \in t : \E e \in entries : Of(p, e)
  BY DEF Independent
<1>3. \A p \in t : of[p] \in entries /\ Of(p, of[p])
  <2> HIDE DEF Of
  <2> QED BY <1>2
<1>4. \A p, q \in t : p # q => p[1] # q[1] /\ p[2] # q[2]
  BY DEF Independent
<1> HIDE DEF groups, root, adj, of
<1>5. \A p \in t : p[1] = of[p][1] /\ p[2] = con(of[p])
  BY <1>3
<1>6. \A p \in t : a[p] = of[p][1] /\ b[p] = root[Min(of[p][2])]
  OBVIOUS
<1>7. \A p \in t : a[p] \in DOMAIN adj /\ b[p] \in Components(adj) /\ b[p] \in adj[a[p]]
  BY <1>1, <1>3, <1>6
<1>8. a \in [t -> DOMAIN adj] /\ b \in [t -> Components(adj)]
  BY <1>1, <1>3
<1>9. \A p, q \in t : a[p] = a[q] \/ b[p] = b[q] => p = q
  <2> SUFFICES ASSUME NEW p \in t, NEW q \in t, a[p] = a[q] \/ b[p] = b[q], p # q PROVE FALSE
    OBVIOUS
  <2>1. p[1] # q[1] /\ con(of[p]) # con(of[q])
    BY <1>4, <1>5
  <2> HIDE DEF con, a, b
  <2>2. a[p] # a[q]
    BY <1>5, <1>6, <2>1
  <2>3. b[p] # b[q]
    BY <1>1, <1>3, <1>6, <2>1
  <2> QED BY <2>2, <2>3
<1> HIDE DEF a, b
<1>10. /\ IsFiniteSet(t) /\ IsFiniteSet(Matched(max_bipartite_matching(adj)))
       /\ Cardinality(t) <= Cardinality(Matched(max_bipartite_matching(adj)))
  BY <1>1, <1>7, <1>8, <1>9, MatchingIsLargest
<1> QED BY <1>10 DEF adj

\* The matching is the size of some independent support.
LEMMA SupportReached ==
  ASSUME NEW entries, Supported(entries)
  PROVE  \E t \in Independent(entries) :
            Cardinality(t) = Cardinality(Matched(max_bipartite_matching(ClassToComponent(entries))))
<1> DEFINE groups == {e[2] : e \in entries}
           root == Roots(groups)
           adj == ClassToComponent(entries)
           con(e) == Connected(groups, e[2])
           m == max_bipartite_matching(adj)
           M == Matched(m)
           Of(k, e) == e[1] = m[k] /\ root[Min(e[2])] = k
           of == [k \in M |-> CHOOSE e \in entries : Of(k, e)]
           pair == [k \in M |-> <<of[k][1], con(of[k])>>]
           t == {pair[k] : k \in M}
<1>1. /\ Adjacency(adj) /\ DOMAIN adj = {e[1] : e \in entries}
      /\ \A c \in DOMAIN adj : \A k \in adj[c] : \E e \in entries : e[1] = c /\ root[Min(e[2])] = k
      /\ \A e, f \in entries : root[Min(e[2])] = root[Min(f[2])] <=> con(e) = con(f)
  BY EntriesFacts
<1> HIDE DEF adj
<1>2. Saturated(adj, m, DOMAIN adj)
  BY <1>1, MatchingSaturated
<1> HIDE DEF m
<1>3. /\ m \in [Components(adj) -> {0} \cup DOMAIN adj]
      /\ \A k \in Components(adj) : m[k] # 0 => k \in adj[m[k]]
      /\ \A k, l \in Components(adj) : m[k] # 0 /\ m[k] = m[l] => k = l
  BY <1>2 DEF Saturated, IsMatching, Assignments
<1>4. M = {k \in Components(adj) : m[k] # 0}
  BY <1>3 DEF Matched
<1>5. IsFiniteSet(M)
  <2>1. IsFiniteSet(Components(adj)) /\ M \in SUBSET Components(adj)
    BY <1>1, <1>4 DEF Adjacency
  <2> HIDE DEF M
  <2> QED BY <2>1, FS_Subset
<1> HIDE DEF M, groups, root
<1>6. \A k \in M : \E e \in entries : Of(k, e)
  BY <1>1, <1>3, <1>4
<1>7. \A k \in M : of[k] \in entries /\ Of(k, of[k])
  <2> HIDE DEF Of
  <2> QED BY <1>6
<1> HIDE DEF of
<1>8. \A k \in M : pair[k] = <<of[k][1], con(of[k])>>
  OBVIOUS
<1>9. \A k, l \in M : k # l => of[k][1] # of[l][1] /\ con(of[k]) # con(of[l])
  <2> HIDE DEF con, pair
  <2> QED BY <1>1, <1>3, <1>4, <1>7
<1>10. \A k, l \in M : k # l => pair[k] # pair[l]
  <2> HIDE DEF con
  <2> QED BY <1>8, <1>9
<1> DEFINE pairs == {<<e[1], con(e)>> : e \in entries}
<1>11. \A k \in M : pair[k] \in pairs
  <2> HIDE DEF con
  <2> QED BY <1>7
<1>12. t \in Independent(entries)
  <2>1. t \in SUBSET pairs
    <3> HIDE DEF pair, pairs
    <3> QED BY <1>11
  <2>2. \A x, y \in t : x # y => x[1] # y[1] /\ x[2] # y[2]
    <3> SUFFICES ASSUME NEW k \in M, NEW l \in M, pair[k] # pair[l]
                 PROVE  pair[k][1] # pair[l][1] /\ pair[k][2] # pair[l][2]
      <4> HIDE DEF pair
      <4> QED OBVIOUS
    <3> HIDE DEF con
    <3> QED BY <1>8, <1>9
  <2> HIDE DEF t
  <2> QED BY <2>1, <2>2 DEF Independent, groups
<1>13. Cardinality(t) = Cardinality(M)
  <2>1. pair \in Bijection(M, t)
    <3>1. pair \in [M -> t]
      <4>1. pair = [k \in M |-> pair[k]]
        OBVIOUS
      <4> HIDE DEF pair
      <4> QED BY <4>1
    <3> HIDE DEF pair
    <3>2. pair \in Injection(M, t)
      BY <1>10, <3>1 DEF Injection, IsInjective
    <3>3. pair \in Surjection(M, t)
      BY <3>1 DEF Surjection
    <3> QED BY <3>2, <3>3 DEF Bijection
  <2> HIDE DEF pair, t
  <2>2. ExistsBijection(M, t)
    BY <2>1 DEF ExistsBijection
  <2> QED BY <1>5, <2>2, FS_Bijection
<1> QED BY <1>12, <1>13 DEF m, M, adj

\* The augmenting paths over the union-find count the largest independent support.
LEMMA SupportIsMatching ==
  ASSUME NEW entries, Supported(entries)
  PROVE  LET M == Matched(max_bipartite_matching(ClassToComponent(entries)))
         IN  IndependentSupport(entries) = Cardinality(M) /\ Cardinality(M) \in Nat
<1> DEFINE M == Matched(max_bipartite_matching(ClassToComponent(entries)))
           Sizes == {Cardinality(s) : s \in Independent(entries)}
<1>1. PICK t \in Independent(entries) : Cardinality(t) = Cardinality(M)
  BY SupportReached
<1>2. \A s \in Independent(entries) : IsFiniteSet(s) /\ IsFiniteSet(M) /\ Cardinality(s) <= Cardinality(M)
  BY SupportBounded
<1> HIDE DEF M
<1>3. Cardinality(M) \in Nat
  BY <1>1, <1>2, FS_CardinalityType
<1>4. Sizes \in SUBSET Nat
  BY <1>2, FS_CardinalityType
<1>5. Cardinality(M) \in Sizes
  BY <1>1
<1>6. \A n \in Sizes : n <= Cardinality(M)
  BY <1>2
<1>7. IndependentSupport(entries) = Max(Sizes)
  BY DEF IndependentSupport, Independent
<1>8. Max(Sizes) = Cardinality(M)
  <2> HIDE DEF Sizes
  <2> QED BY <1>4, <1>5, <1>6, MaxIs
<1> QED BY <1>3, <1>7, <1>8 DEF M

-----------------------------------------------------------------------------
(* What supports a decision *)

\* The groups of references of a rule are those of occurrences.
LEMMA GroupsOfRule ==
  ASSUME NEW ctx, NEW id \in PublishedRules
  PROVE  LET r == apply(run_isolated(ctx, id))
         IN  /\ DOMAIN r.prov \subseteq r.positives /\ RuleSound(r)
             /\ \A p \in DOMAIN r.prov : \A g \in r.prov[p] : g # {} /\ \E io \in ctx.occs : g = io.refs
<1> DEFINE q == run_isolated(ctx, id)
           r == apply(q)
           Backed(v) == \A p \in DOMAIN v.prov : \A g \in v.prov[p] : g # {} /\ \E io \in ctx.occs : g = io.refs
<1>1. RuleSound(q) /\ Fresh(q)
  BY EvaluatedSound
<1>2. RuleSound(r)
  BY <1>1, AppliedSound
<1>3. r.prov = q.prov
  BY <1>1, ApplyFields DEF Fresh
<1>4. Backed(q)
  <2>1. CASE ~ language_in_scope(ctx, id)
    <3>1. q.prov = <<>>
      BY <2>1, NotApplicableFields DEF run_isolated
    <3> HIDE DEF q
    <3> QED BY <3>1
  <2>2. CASE language_in_scope(ctx, id) /\ Rules[id].kind = "SUPPRESSION"
    <3>1. q.prov = <<>>
      BY <2>2 DEF run_isolated, evaluate_suppression, NoResult
    <3> HIDE DEF q
    <3> QED BY <3>1
  <2>3. CASE language_in_scope(ctx, id) /\ Rules[id].kind # "SUPPRESSION"
    <3> DEFINE pos == RulePositives(ctx, id)
               active == RuleOverrides(ctx, id)
               matched == RuleNegatives(ctx, id)
               positives == {p \in (operands(Rules[id].cond) \cap DOMAIN Indicators) \cap Present(ctx) :
                                pos[p].value = "TRUE"}
    <3>1. q = CompositeResult(ctx, id, active, matched, pos)
      BY <2>3 DEF run_isolated, evaluate_composite
    <3> HIDE DEF pos, active, matched
    <3>2. CompositeResult(ctx, id, active, matched, pos).prov
             = [p \in {x \in positives : pos[x].groups # {}} |-> pos[p].groups]
      BY DEF NoResult, CompositeResult
    <3>3. \A p \in Present(ctx) : \A g \in pos[p].groups : g # {} /\ \E io \in ctx.occs : g = io.refs
      BY DEF pos, RulePositives, combine_positive, OccurrencesOf
    <3>4. positives \subseteq Present(ctx)
      OBVIOUS
    <3> HIDE DEF q, positives
    <3>5. q.prov = [p \in {x \in positives : pos[x].groups # {}} |-> pos[p].groups]
      BY <3>1, <3>2
    <3> QED BY <3>3, <3>4, <3>5
  <2> QED BY <2>1, <2>2, <2>3
<1> HIDE DEF q, r
<1>5. Backed(r)
  BY <1>3, <1>4
<1>6. DOMAIN r.prov \subseteq r.positives
  BY <1>2 DEF RuleSound
<1> QED BY <1>2, <1>5, <1>6 DEF q, r

\* Eligible rules rest on finitely many classes and groups of references.
LEMMA EntriesSupported ==
  ASSUME NEW ctx, IsFiniteSet(ctx.occs), \A io \in ctx.occs : io.refs \in SUBSET Nat
  PROVE  Supported(Entries(Eligible(ResultSet(apply_all(evaluate_rules(ctx))))))
<1> DEFINE rs == ResultSet(apply_all(evaluate_rules(ctx)))
           E == Eligible(rs)
           PP == UNION {r.positives : r \in E}
           CC == {Indicators[p].class : p \in PP}
           GG == {io.refs : io \in ctx.occs}
           f == [r \in E |-> r.positives]
           c == [p \in PP |-> Indicators[p].class]
           h == [io \in ctx.occs |-> io.refs]
           N == Entries(E)
<1>1. /\ SoundResults(rs)
      /\ \A r \in rs : \E id \in PublishedRules : r = apply(run_isolated(ctx, id))
  <2> DEFINE i == evaluate_rules(ctx)
  <2> HIDE DEF i
  <2>1. i = evaluate_rules(ctx)
    BY DEF i
  <2>2. /\ SoundResults(ResultSet(apply_all(i)))
        /\ DOMAIN apply_all(i) = PublishedRules
        /\ \A id \in PublishedRules : i[id] = run_isolated(ctx, id) /\ apply_all(i)[id] = apply(i[id])
    BY <2>1, ResultsSound
  <2> QED BY <2>1, <2>2 DEF ResultSet
<1> HIDE DEF rs
<1>2. E \subseteq rs /\ IsFiniteSet(E)
  BY <1>1, EligibleFacts
<1>3. \A r \in E : /\ DOMAIN r.prov \subseteq r.positives /\ RuleSound(r)
                   /\ \A p \in DOMAIN r.prov : \A g \in r.prov[p] : g # {} /\ g \in GG
  BY <1>1, <1>2, GroupsOfRule
<1> HIDE DEF E
<1>4. IsFiniteSet(PP)
  <2> DEFINE TT == {r.positives : r \in E}
  <2>1. f \in [E -> TT]
    OBVIOUS
  <2>2. IsFiniteSet({f[r] : r \in E})
    <3> HIDE DEF f, TT
    <3> QED BY <1>2, <2>1, ImageFinite
  <2>3. IsFiniteSet({r.positives : r \in E})
    BY <2>2
  <2>4. \A r \in E : IsFiniteSet(r.positives)
    BY <1>3, SoundFinite
  <2>5. \A T \in {r.positives : r \in E} : IsFiniteSet(T)
    BY <2>4
  <2> QED BY <2>3, <2>5, FS_UNION
<1>5. PP \subseteq DOMAIN Indicators
  BY <1>3, SoundFinite
<1>6. \A p \in DOMAIN Indicators : Indicators[p].class \in Nat \ {0}
  BY KnowledgeAccepted DEF WellShaped
<1>7. IsFiniteSet(CC) /\ CC \subseteq Nat \ {0}
  <2>1. c \in [PP -> CC]
    OBVIOUS
  <2>2. IsFiniteSet({c[p] : p \in PP})
    <3> HIDE DEF c, CC, PP
    <3> QED BY <1>4, <2>1, ImageFinite
  <2>3. {c[p] : p \in PP} = CC
    OBVIOUS
  <2>4. CC \subseteq Nat \ {0}
    <3> HIDE DEF PP
    <3> QED BY <1>5, <1>6
  <2> QED BY <2>2, <2>3, <2>4
<1>8. IsFiniteSet(GG)
  <2> DEFINE OO == ctx.occs
  <2>1. h \in [OO -> GG] /\ IsFiniteSet(OO)
    OBVIOUS
  <2>2. IsFiniteSet({h[io] : io \in OO})
    <3> HIDE DEF h, GG, OO
    <3> QED BY <2>1, ImageFinite
  <2> QED BY <2>2
<1>9. \A g \in GG : g \in SUBSET Nat
  OBVIOUS
<1>10. \A e \in N : e \in CC \X GG /\ e[2] # {}
  <2> SUFFICES ASSUME NEW r \in E, NEW p \in DOMAIN r.prov, NEW g \in r.prov[p]
               PROVE  <<Indicators[p].class, g>> \in CC \X GG /\ g # {}
    BY DEF Entries
  <2>1. p \in PP
    BY <1>3
  <2>2. Indicators[p].class \in CC
    <3> HIDE DEF PP
    <3> QED BY <2>1
  <2>3. g \in GG /\ g # {}
    BY <1>3
  <2> HIDE DEF CC, GG
  <2> QED BY <2>2, <2>3
<1> HIDE DEF CC, GG, N
<1>11. IsFiniteSet(N)
  <2>1. IsFiniteSet(CC \X GG) /\ N \in SUBSET (CC \X GG)
    BY <1>7, <1>8, <1>10, FS_Product
  <2> QED BY <2>1, FS_Subset
<1>12. Supported(N)
  BY <1>7, <1>9, <1>10, <1>11 DEF Supported
<1> QED BY <1>12 DEF N, E, rs

\* The artifact that the kernel consumes refers to finitely many ordered observations.
Consumed ==
    /\ HostShaped(input) /\ ContextAccepted
    /\ (reason # "NONE" /\ artifact = HostArtifact) \/ AiUsed

\* It is what the stages after the rules were computed from.
LEMMA ConsumedAt ==
  ASSUME AInv, stage \in {"suppress", "aggregate", "explain", "assemble", "done"},
         stage = "done" => ContextAccepted
  PROVE  Consumed
BY DEF AInv, ArtifactSound, Early, KernelSound, Consumed

LEMMA ArtifactFacts ==
  ASSUME Consumed, input.support \in Evaluable
  PROVE  IsFiniteSet(artifact.occs) /\ \A io \in artifact.occs : io.refs \in SUBSET Nat
<1>1. /\ (reason # "NONE" /\ artifact = HostArtifact) \/ AiUsed
      /\ ValidContext(artifact.occs, artifact.obs) /\ HostShaped(input)
  BY DEF Consumed, ContextAccepted
<1>2. IsFiniteSet(artifact.occs) /\ \A o \in artifact.obs : o.id \in Nat
  <2>1. CASE artifact = HostArtifact
    BY <1>1, <2>1 DEF HostArtifact, HostShaped
  <2>2. CASE AiUsed
    <3>1. /\ artifact.occs = input.occs \cup MappedInds(response)
          /\ artifact.obs = input.obs \cup MappedObs(response)
          /\ response \in Responses /\ response.form = "schema_valid"
      BY <2>2 DEF AiUsed, map_ai, validate_ai_extraction
    <3>2. IsFiniteSet(response.inds) /\ \A o \in response.obs : o.pid \in Nat
      BY <3>1, DataShaped
    <3>3. IsFiniteSet(MappedInds(response))
      BY <3>2, MappedShape
    <3>4. \A o \in MappedObs(response) : o.id \in Nat
      BY <3>2 DEF MappedObs, ObservationId
    <3>5. IsFiniteSet(input.occs) /\ \A o \in input.obs : o.id \in Nat
      BY <1>1 DEF HostShaped
    <3>6. IsFiniteSet(input.occs \cup MappedInds(response))
      BY <3>3, <3>5, FS_Union
    <3> QED BY <3>1, <3>4, <3>5, <3>6
  <2> QED BY <1>1, <2>1, <2>2
<1>3. \A io \in artifact.occs : io.refs \subseteq {o.id : o \in artifact.obs}
  BY <1>1 DEF ValidContext
<1> QED BY <1>2, <1>3

\* The final results rest on finitely many classes and groups.
LEMMA FinalSupported ==
  ASSUME Consumed
  PROVE  Supported(Entries(Eligible(Final)))
<1>1. CASE input.support \in Evaluable
  <2> DEFINE ctx == build_validated_context(artifact.occs, artifact.obs, input.language, input.script)
  <2>1. Final = ResultSet(apply_all(evaluate_rules(ctx)))
    BY <1>1 DEF Final, Rested, RuleResults
  <2>2. ctx.occs = artifact.occs
    BY DEF build_validated_context
  <2> HIDE DEF ctx
  <2> QED BY <1>1, <2>1, <2>2, ArtifactFacts, EntriesSupported
<1>2. CASE input.support \notin Evaluable
  <2>1. Final = {}
    BY <1>2, NoResults DEF Final, Rested
  <2>2. Entries(Eligible(Final)) = {}
    BY <2>1 DEF Entries, Eligible
  <2> QED BY <2>2, FS_EmptySet DEF Supported
<1> QED BY <1>1, <1>2

\* No entries, no matching.
LEMMA NothingMatched ==
  Cardinality(Matched(max_bipartite_matching(ClassToComponent({})))) = 0
<1>1. Supported({})
  BY FS_EmptySet DEF Supported
<1>2. PICK t \in Independent({}) :
         Cardinality(t) = Cardinality(Matched(max_bipartite_matching(ClassToComponent({}))))
  BY <1>1, SupportReached
<1>3. t = {}
  BY DEF Independent
<1> QED BY <1>2, <1>3, FS_EmptySet

\* The decision at explanation, by its parts.
DecidedAs(class, axes, gov) ==
    /\ Aggregated(Final, input.support, input.whole, class, axes, gov)
    /\ decision.results = Final /\ decision.class = class /\ decision.severity = axes[1]
    /\ decision.strength = axes[2] /\ decision.risk = risk_level(axes[1], axes[2])
    /\ decision.confidence = axes[3] /\ decision.count = axes[4] /\ decision.band = axes[5]
    /\ decision.governing = gov /\ decision.degraded = (\E r \in Final : is_degraded(r))

\* The decision that explanation reads is an assembled one over sound results.
LEMMA ExplainedDecision ==
  ASSUME AInv, stage = "explain"
  PROVE  /\ decision = Decided /\ SoundResults(Final) /\ ContextAccepted /\ HostShaped(input)
         /\ \E class, axes, gov : DecidedAs(class, axes, gov)
<1>1. ContextAccepted /\ decision = Decided /\ HostShaped(input)
  BY DEF AInv, KernelSound
<1>2. PICK class, axes, gov : Aggregated(Final, input.support, input.whole, class, axes, gov)
  BY <1>1, FinalSound
<1> DEFINE d == assemble(input.support, class, axes, gov, Eligible(Final), Final, input.whole)
<1>3. decision = d
  BY <1>1, <1>2 DEF Aggregated, Decided, Final
<1>4. /\ d.results = Final /\ d.class = class /\ d.severity = axes[1]
      /\ d.strength = axes[2] /\ d.risk = risk_level(axes[1], axes[2])
      /\ d.confidence = axes[3] /\ d.count = axes[4] /\ d.band = axes[5]
      /\ d.governing = gov /\ d.degraded = (\E r \in Final : is_degraded(r))
  BY DEF assemble
<1> HIDE DEF d
<1>5. DecidedAs(class, axes, gov)
  BY <1>2, <1>3, <1>4 DEF DecidedAs
<1> QED BY <1>1, <1>5, FinalSound

\* The count of such a decision is that of a largest matching.
LEMMA IndependenceOfInvariant ==
  ASSUME AInv
  PROVE  IndependenceIsMatching
<1> SUFFICES ASSUME stage = "explain"
             PROVE  LET eligible == Eligible(decision.results)
                    IN  /\ decision.count = IndependentSupport(Entries(eligible))
                        /\ decision.confidence = 3 =>
                              /\ ~ decision.degraded
                              /\ \/ decision.count >= 3
                                 \/ \E r \in eligible : r.id = decision.governing /\ r.overrides # {}
  BY DEF IndependenceIsMatching
<1>0. PICK class, axes, gov : DecidedAs(class, axes, gov)
  BY ExplainedDecision
<1>1. /\ Aggregated(Final, input.support, input.whole, class, axes, gov)
      /\ decision.results = Final /\ decision.confidence = axes[3] /\ decision.count = axes[4]
      /\ decision.governing = gov /\ decision.degraded = (\E r \in Final : is_degraded(r))
  BY <1>0 DEF DecidedAs
<1> DEFINE E == Eligible(Final)
           M == Matched(max_bipartite_matching(ClassToComponent(Entries(E))))
<1>2. IndependentSupport(Entries(E)) = Cardinality(M)
  BY ConsumedAt, FinalSupported, SupportIsMatching
<1>3. Consistent(Final, input.support, class, axes, gov, input.whole)
  BY <1>1 DEF Aggregated
<1>4. CASE E = {}
  <2>1. Entries(E) = {}
    BY <1>4 DEF Entries
  <2>2. Cardinality(M) = 0
    BY <2>1, NothingMatched
  <2>3. axes[4] = 0 /\ axes[3] = 0
    BY <1>1, <1>3, <1>4 DEF Aggregated, Consistent
  <2> HIDE DEF M, E
  <2>4. decision.count = IndependentSupport(Entries(E)) /\ decision.confidence = 0
    BY <1>1, <1>2, <2>2, <2>3
  <2> QED BY <1>1, <2>4 DEF E
<1>5. CASE E # {}
  <2>1. axes[4] = Cardinality(M)
    BY <1>1, <1>5 DEF Aggregated, proven_independence
  <2>2. axes[3] = 3 =>
           /\ ~ \E r \in Final : is_degraded(r)
           /\ axes[4] >= 3 \/ \E g \in E : g.id = gov /\ g.overrides # {}
    BY <1>1, <1>5 DEF Aggregated
  <2> HIDE DEF M, E
  <2> QED BY <1>1, <1>2, <2>1, <2>2 DEF E
<1> QED BY <1>4, <1>5

\* Corroboration counts independent evidence: union-find and augmenting paths find the maximum over
\* all assignments, and HIGH confidence needs three classes or an override (aggregation.py).
THEOREM CheckedIndependence == Spec => []IndependenceIsMatching
BY AdvisoryInvariant, IndependenceOfInvariant, PTL

-----------------------------------------------------------------------------
(* AI only adds: the types *)

\* The axes of a decision are levels.
LEMMA DecidedTyped ==
  ASSUME Consumed
  PROVE  /\ Decided.severity \in 0..4 /\ Decided.risk \in 0..4
         /\ Decided.strength \in 0..3 /\ Decided.confidence \in 0..3 /\ Decided.band \in 0..3
<1> DEFINE E == Eligible(Final)
           M == Matched(max_bipartite_matching(ClassToComponent(Entries(E))))
<1>1. HostShaped(input) /\ ContextAccepted
  BY DEF Consumed
<1>2. PICK class, axes, gov : Aggregated(Final, input.support, input.whole, class, axes, gov)
  BY <1>1, FinalSound
<1>3. /\ Decided.severity = axes[1] /\ Decided.strength = axes[2] /\ Decided.confidence = axes[3]
      /\ Decided.risk = risk_level(axes[1], axes[2]) /\ Decided.band = axes[5]
  BY <1>2 DEF Aggregated, Decided, Final, assemble
<1>4. /\ axes[1] \in 0..4 /\ axes[2] \in 0..3 /\ axes[3] \in 0..3
      /\ axes[1] # 0 => axes[2] # 0
  BY <1>2 DEF Aggregated, Consistent
<1>5. risk_level(axes[1], axes[2]) \in 0..4
  BY <1>4, RiskFacts
<1>6. Cardinality(M) \in Nat
  BY FinalSupported, SupportIsMatching
<1>7. axes[5] \in 0..3
  <2>1. CASE E = {}
    BY <1>2, <2>1 DEF Aggregated
  <2>2. CASE E # {}
    <3>1. axes[4] = Cardinality(M)
      BY <1>2, <2>2 DEF Aggregated, proven_independence
    <3>2. \E v : axes[5] = CorroborationBand(axes[4], v)
      BY <1>2, <2>2 DEF Aggregated
    <3> HIDE DEF M
    <3>3. PICK v : axes[5] = CorroborationBand(axes[4], v)
      BY <3>2
    <3>4. PICK b \in {2, 3} : axes[5] = Min({axes[4], b})
      BY <3>3 DEF CorroborationBand
    <3>5. axes[4] \in Nat
      BY <1>6, <3>1
    <3>6. axes[5] = IF axes[4] <= b THEN axes[4] ELSE b
      BY <3>4, <3>5, LesserFacts
    <3> QED BY <3>5, <3>6
  <2> QED BY <2>1, <2>2
<1> QED BY <1>3, <1>4, <1>5, <1>7

\* What AI contributes has the level that governance gives it.
LEMMA ContributionCapped ==
  ASSUME AInv, NEW io \in artifact.occs \ input.occs
  PROVE  io.conf \in 1..2
<1>1. artifact = HostArtifact \/ AiUsed
  BY DEF AInv, ArtifactSound
<1>2. artifact # HostArtifact
  BY DEF HostArtifact
<1>3. io \in MappedInds(response)
  BY <1>1, <1>2 DEF AiUsed, map_ai
<1> QED BY <1>3 DEF MappedInds, CappedLevel

\* The invariant has the types of TypeOK.
LEMMA TypeOfInvariant ==
  ASSUME AInv
  PROVE  TypeOK
<1>1. decision # Nothing =>
        /\ decision.severity \in 0..4 /\ decision.risk \in 0..4
        /\ decision.strength \in 0..3 /\ decision.confidence \in 0..3 /\ decision.band \in 0..3
  <2> SUFFICES ASSUME decision # Nothing
               PROVE  /\ decision.severity \in 0..4 /\ decision.risk \in 0..4
                      /\ decision.strength \in 0..3 /\ decision.confidence \in 0..3 /\ decision.band \in 0..3
    OBVIOUS
  <2>1. /\ decision = Decided \/ decision = Explained
        /\ stage \in {"explain", "assemble", "done"} /\ ContextAccepted
    BY DEF AInv, KernelSound, Early, Stages
  <2>2. Consumed
    BY <2>1, ConsumedAt
  <2>3. HostShaped(input) /\ ContextAccepted
    BY <2>2 DEF Consumed
  <2> QED BY <2>1, <2>2, <2>3, DecidedTyped, DecidedSound
<1>2. outcome \in {"NONE", "RESULT", "CONTEXT", "OBSERVATIONS", "AGGREGATION", "EXPLANATION", "ASSEMBLY"}
  BY DEF AInv, Stages
<1> QED BY <1>1, <1>2, ContributionCapped DEF AInv, TypeOK, Reasoned

-----------------------------------------------------------------------------
(* AI only adds: what positive proposals do to a rule *)

\* The context b is the context a with more observations and more positive occurrences.
Enlarges(b, a) ==
    /\ a.occs \subseteq b.occs
    /\ \A io \in b.occs \ a.occs : io.ind \in DOMAIN Indicators
    /\ \A io \in a.occs : \A r \in io.refs : b.obs[r] = a.obs[r]
    /\ b.language = a.language /\ b.script = a.script

\* Fewer suppressors leave an occurrence that holds as it is.
LEMMA TruthKept ==
  ASSUME NEW a, NEW b, Enlarges(b, a), NEW io \in a.occs, NEW s, NEW t, t \subseteq s,
         OccurrenceTruth(a.obs, io, s).value = "TRUE"
  PROVE  OccurrenceTruth(b.obs, io, t).value = "TRUE"
<1> DEFINE g == gate_single(io)
           v(obs) == structural_verdict(obs, io)
           base(w) == IF w = "NON_LIVE"
                      THEN [g EXCEPT !.value = "FALSE", !.reason = "structural_nonlive",
                                     !.neutralised = (g.value # "FALSE")]
                      ELSE IF w = "LIVE" \/ g.value = "FALSE" THEN g
                      ELSE Truth("UNKNOWN", "unresolved_structure")
           x == base(v(a.obs))
<1>1. v(b.obs) = v(a.obs)
  <2>1. {observation_verdict(b.obs[r]) : r \in io.refs} = {observation_verdict(a.obs[r]) : r \in io.refs}
    BY DEF Enlarges
  <2> DEFINE agreed(verdicts) == IF Cardinality(verdicts) = 1 THEN CHOOSE d \in verdicts : TRUE ELSE "UNRESOLVED"
  <2>2. /\ v(b.obs) = agreed({observation_verdict(b.obs[r]) : r \in io.refs})
        /\ v(a.obs) = agreed({observation_verdict(a.obs[r]) : r \in io.refs})
    BY Zenon DEF structural_verdict
  <2> HIDE DEF agreed, v
  <2> QED BY <2>1, <2>2
<1> DEFINE past(q, y) == IF io.polarity \notin {"NONE", "POSITIVE"} THEN Truth("UNKNOWN", "polarity_mismatch")
                         ELSE IF y.value = "FALSE" THEN y ELSE suppression_association(io, q, y)
<1>2. OccurrenceTruth(a.obs, io, s) = past(s, x) /\ OccurrenceTruth(b.obs, io, t) = past(t, x)
  <2>1. OccurrenceTruth(a.obs, io, s) = past(s, base(v(a.obs)))
    BY DEF OccurrenceTruth
  <2>2. OccurrenceTruth(b.obs, io, t) = past(t, base(v(b.obs)))
    BY DEF OccurrenceTruth
  <2> HIDE DEF past, base, v
  <2> QED BY <1>1, <2>1, <2>2
<1> HIDE DEF x
<1>3. /\ io.polarity \in {"NONE", "POSITIVE"} /\ x.value # "FALSE"
      /\ suppression_association(io, s, x).value = "TRUE"
  BY <1>2 DEF Truth
<1>4. /\ ~ \E e \in s : e.refs \cap io.refs # {}
      /\ ~ \E e \in s : e.refs = {} \/ io.refs = {}
      /\ x.value = "TRUE"
  BY <1>3 DEF suppression_association, Truth, Neutral
<1>5. suppression_association(io, t, x) = x
  BY <1>4 DEF suppression_association
<1> QED BY <1>2, <1>3, <1>4, <1>5

\* An indicator that is there is there in the larger context, over fewer suppressors.
LEMMA PositiveKept ==
  ASSUME NEW a, NEW b, Enlarges(b, a), NEW p, NEW s, NEW t, t \subseteq s,
         combine_positive(a, p, s).value = "TRUE"
  PROVE  combine_positive(b, p, t).value = "TRUE"
<1> DEFINE u == [io \in OccurrencesOf(a, p) |-> OccurrenceTruth(a.obs, io, s)]
           w == [io \in OccurrencesOf(b, p) |-> OccurrenceTruth(b.obs, io, t)]
<1>1. /\ combine_positive(a, p, s).value = any_of([io \in OccurrencesOf(a, p) |-> u[io].value])
      /\ combine_positive(b, p, t).value = any_of([io \in OccurrencesOf(b, p) |-> w[io].value])
  BY DEF combine_positive
<1>2. PICK io \in OccurrencesOf(a, p) : u[io].value = "TRUE"
  BY <1>1 DEF any_of, Having
<1>3. io \in a.occs /\ io \in OccurrencesOf(b, p)
  BY <1>2 DEF OccurrencesOf, Enlarges
<1>4. w[io].value = "TRUE"
  BY <1>2, <1>3, TruthKept
<1> HIDE DEF w
<1> QED BY <1>1, <1>3, <1>4 DEF any_of, Having

\* An indicator that occurs still does.
LEMMA PresentKept ==
  ASSUME NEW a, NEW b, Enlarges(b, a)
  PROVE  Present(a) \subseteq Present(b)
BY DEF Present, OccurrencesOf, Enlarges

\* Positive proposals say nothing of negative indicators (one namespace of ids).
LEMMA NegativesKept ==
  ASSUME NEW a, NEW b, Enlarges(b, a), NEW id
  PROVE  /\ RuleNegatives(b, id) = RuleNegatives(a, id) /\ RuleNegatives(a, id) \subseteq DOMAIN Negatives
         /\ \A n \in DOMAIN Negatives : OccurrencesOf(b, n) = OccurrencesOf(a, n)
<1>1. \A n \in DOMAIN Negatives : OccurrencesOf(b, n) = OccurrencesOf(a, n)
  BY KnowledgeAccepted DEF UniqueIds, OccurrencesOf, Enlarges
<1>2. \A n \in DOMAIN Negatives : combine_negative(b, n) = combine_negative(a, n)
  BY <1>1 DEF combine_negative
<1>3. active_negatives(b) = active_negatives(a)
  BY <1>1, <1>2 DEF active_negatives
<1> QED BY <1>1, <1>3 DEF RuleNegatives, active_negatives

\* Overrides that are active stay active (evaluator.py _active_overrides).
LEMMA OverridesGrow ==
  ASSUME NEW a, NEW b, Enlarges(b, a), NEW id
  PROVE  RuleOverrides(a, id) \subseteq RuleOverrides(b, id) /\ RuleOverrides(b, id) \subseteq DOMAIN Overrides
<1> DEFINE u == [p \in Present(a) |-> combine_positive(a, p, {}).value]
           w == [p \in Present(b) |-> combine_positive(b, p, {}).value]
<1>1. TruthTable(u) /\ TruthTable(w)
  BY PositiveValue DEF TruthTable
<1>2. \A p : LeafValue(p, u) = "TRUE" => LeafValue(p, w) = "TRUE"
  BY PresentKept, PositiveKept DEF LeafValue
<1>3. RuleOverrides(a, id) = active_overrides(id, u) /\ RuleOverrides(b, id) = active_overrides(id, w)
  BY DEF RuleOverrides
<1> HIDE DEF u, w
<1>4. \A o \in DOMAIN Overrides : Condition(Overrides[o].cond)
  BY KnowledgeAccepted DEF WellShaped
<1>5. ASSUME NEW o \in active_overrides(id, u)
      PROVE  o \in active_overrides(id, w)
  <2>1. o \in DOMAIN Overrides /\ override_applies(o, id) /\ eval_condition(Overrides[o].cond, u) = "TRUE"
    BY DEF active_overrides
  <2>2. eval_condition(Overrides[o].cond, w) = "TRUE"
    BY <1>1, <1>2, <1>4, <2>1, EvalGrows
  <2> QED BY <2>1, <2>2 DEF active_overrides
<1> QED BY <1>3, <1>5 DEF active_overrides

\* What overrides block grows with them, and so what suppresses shrinks.
LEMMA SuppressorsShrink ==
  ASSUME NEW a, NEW b, Enlarges(b, a), NEW id, NEW p
  PROVE  ActiveSuppressorOccurrences(b, p, RuleNegatives(b, id), BlockedCategories(RuleOverrides(b, id)))
           \subseteq
         ActiveSuppressorOccurrences(a, p, RuleNegatives(a, id), BlockedCategories(RuleOverrides(a, id)))
<1> DEFINE N == RuleNegatives(a, id)
           B == BlockedCategories(RuleOverrides(b, id))
           A == BlockedCategories(RuleOverrides(a, id))
<1>1. RuleNegatives(b, id) = N /\ N \subseteq DOMAIN Negatives
      /\ \A n \in DOMAIN Negatives : OccurrencesOf(b, n) = OccurrencesOf(a, n)
  BY NegativesKept
<1>2. A \subseteq B
  BY OverridesGrow DEF BlockedCategories
<1> HIDE DEF N, B, A
<1>3. \A io \in b.occs : io.ind \in N => io \in a.occs
  BY <1>1 DEF OccurrencesOf
<1>4. ActiveSuppressorOccurrences(b, p, N, B) \subseteq ActiveSuppressorOccurrences(a, p, N, A)
  BY <1>2, <1>3 DEF ActiveSuppressorOccurrences, is_blocked
<1> QED BY <1>1, <1>4 DEF N, A, B

\* A positive that a rule sees is seen in the larger context.
LEMMA RulePositivesKept ==
  ASSUME NEW a, NEW b, Enlarges(b, a), NEW id, NEW p \in Present(a), RulePositives(a, id)[p].value = "TRUE"
  PROVE  p \in Present(b) /\ RulePositives(b, id)[p].value = "TRUE"
<1> DEFINE s == ActiveSuppressorOccurrences(a, p, RuleNegatives(a, id), BlockedCategories(RuleOverrides(a, id)))
           t == ActiveSuppressorOccurrences(b, p, RuleNegatives(b, id), BlockedCategories(RuleOverrides(b, id)))
<1>1. p \in Present(b)
  BY PresentKept
<1>2. /\ RulePositives(a, id)[p] = combine_positive(a, p, s)
      /\ RulePositives(b, id)[p] = combine_positive(b, p, t)
  BY <1>1 DEF RulePositives
<1>3. t \subseteq s
  BY SuppressorsShrink
<1> HIDE DEF s, t
<1> QED BY <1>1, <1>2, <1>3, PositiveKept

\* A composite rule that matches still does, over the same negatives and at the same severity.
LEMMA CompositeKept ==
  ASSUME NEW a, NEW b, Enlarges(b, a), NEW id \in PublishedRules, Rules[id].kind = "COMPOSITE",
         evaluate_composite(a, id).state = "MATCHED"
  PROVE  LET q == evaluate_composite(a, id)
             r == evaluate_composite(b, id)
         IN  /\ r.state = "MATCHED" /\ r.kind = "COMPOSITE" /\ q.kind = "COMPOSITE"
             /\ r.negatives = q.negatives /\ q.overrides \subseteq r.overrides
             /\ r.severity = q.severity
<1> DEFINE q == evaluate_composite(a, id)
           r == evaluate_composite(b, id)
           c == Rules[id].cond
           ops == operands(c) \cap DOMAIN Indicators
           u == [p \in Present(a) |-> RulePositives(a, id)[p].value]
           w == [p \in Present(b) |-> RulePositives(b, id)[p].value]
           U == {p \in ops \cap Present(a) : RulePositives(a, id)[p].value = "TRUE"}
           W == {p \in ops \cap Present(b) : RulePositives(b, id)[p].value = "TRUE"}
           classes(P) == {Indicators[p].class : p \in P}
           state(v, P) == CASE v = "TRUE" -> IF Cardinality(classes(P)) >= Rules[id].min_classes
                                             THEN "MATCHED" ELSE "NOT_MATCHED"
                            [] v = "FALSE" -> "NOT_MATCHED"
                            [] v = "UNKNOWN" -> "INDETERMINATE"
<1>1. /\ q.state = state(eval_condition(c, u), U) /\ q.kind = "COMPOSITE" /\ q.positives = U
      /\ q.negatives = RuleNegatives(a, id) /\ q.overrides = RuleOverrides(a, id)
      /\ q.severity = SevMin(Rules[id].severity, Rules[id].severity_cap)
  BY DEF evaluate_composite, CompositeResult, NoResult
<1>2. /\ r.state = state(eval_condition(c, w), W) /\ r.kind = "COMPOSITE" /\ r.positives = W
      /\ r.negatives = RuleNegatives(b, id) /\ r.overrides = RuleOverrides(b, id)
      /\ r.severity = SevMin(Rules[id].severity, Rules[id].severity_cap)
      /\ r.classes = classes(W)
  BY DEF evaluate_composite, CompositeResult, NoResult
<1>3. /\ TruthTable(u) /\ TruthTable(w) /\ Condition(c)
      /\ Rules[id].min_classes \in Nat
  BY RulePositiveValues, RuleShape DEF PublishedRules
<1>4. \A p : LeafValue(p, u) = "TRUE" => LeafValue(p, w) = "TRUE"
  BY RulePositivesKept DEF LeafValue
<1>5. U \subseteq W
  BY RulePositivesKept
<1>6. RuleSound(r)
  BY CompositeSound
<1>7. IsFiniteSet(classes(W)) /\ Cardinality(classes(W)) \in Nat
  BY <1>2, <1>6, SoundFinite
<1>8. classes(U) \in SUBSET classes(W)
  BY <1>5
<1> HIDE DEF q, r, u, w, U, W, classes, c
<1>9. Cardinality(classes(U)) <= Cardinality(classes(W)) /\ Cardinality(classes(U)) \in Nat
  BY <1>7, <1>8, FS_Subset, FS_CardinalityType
<1>10. eval_condition(c, u) \in Values /\ eval_condition(c, w) \in Values
  BY <1>3, EvalValue
<1>11. q.state = "MATCHED"
  BY DEF q
<1>12. eval_condition(c, u) = "TRUE" /\ Cardinality(classes(U)) >= Rules[id].min_classes
  BY <1>1, <1>10, <1>11 DEF Values
<1>13. eval_condition(c, w) = "TRUE"
  BY <1>3, <1>4, <1>12, EvalGrows
<1>14. r.state = "MATCHED"
  BY <1>2, <1>3, <1>7, <1>9, <1>12, <1>13
<1>15. RuleNegatives(b, id) = RuleNegatives(a, id) /\ RuleOverrides(a, id) \subseteq RuleOverrides(b, id)
  BY NegativesKept, OverridesGrow
<1>16. /\ r.state = "MATCHED" /\ r.kind = "COMPOSITE" /\ q.kind = "COMPOSITE"
       /\ r.negatives = q.negatives /\ q.overrides \subseteq r.overrides
       /\ r.severity = q.severity
  BY <1>1, <1>2, <1>14, <1>15
<1> QED BY <1>16 DEF q, r

\* A rule that counts in a decision still does, and is not less severe (suppression.py apply).
LEMMA MatchedKept ==
  ASSUME NEW a, NEW b, Enlarges(b, a), NEW id \in PublishedRules,
         is_eligible_matched(apply(run_isolated(a, id)))
  PROVE  /\ is_eligible_matched(apply(run_isolated(b, id)))
         /\ apply(run_isolated(a, id)).severity <= apply(run_isolated(b, id)).severity
<1> DEFINE q == run_isolated(a, id)
           r == run_isolated(b, id)
           soft(n) == {m \in n : Negatives[m].effect \in Soft}
           free(n, o) == {m \in soft(n) : ~ is_blocked(m, BlockedCategories(o))}
           supp(n, o) == {m \in soft(n) \ {k \in soft(n) : is_blocked(k, BlockedCategories(o))} :
                             Negatives[m].effect = "SUPPRESS_RULE"}
           caps(n, o) == {m \in soft(n) \ {k \in soft(n) : is_blocked(k, BlockedCategories(o))} :
                             Negatives[m].effect = "CAP_SEVERITY"}
           levels(x) == {x.severity} \cup {Negatives[m].cap : m \in caps(x.negatives, x.overrides)}
<1>1. RuleSound(q) /\ Fresh(q) /\ RuleSound(r) /\ Fresh(r)
  BY EvaluatedSound
<1>2. apply(q).kind = "COMPOSITE" /\ apply(q).state = "MATCHED" /\ apply(q).required = "TRUE"
  BY DEF is_eligible_matched
<1>3. ASSUME NEW x, RuleSound(x), Fresh(x)
      PROVE  /\ apply(x).kind = x.kind /\ apply(x).required = x.required
             /\ x.state # "MATCHED" => apply(x).state = x.state
             /\ x.kind = "COMPOSITE" /\ x.state = "MATCHED" =>
                  /\ apply(x).state = IF supp(x.negatives, x.overrides) # {} THEN "SUPPRESSED" ELSE "MATCHED"
                  /\ apply(x).severity = Min(levels(x))
  BY <1>3, ApplyFields DEF Fresh
<1>4. q.kind = "COMPOSITE" /\ q.state = "MATCHED"
  BY <1>1, <1>2, <1>3
<1>5. /\ language_in_scope(a, id) /\ Rules[id].kind = "COMPOSITE" /\ q = evaluate_composite(a, id)
  <2>1. language_in_scope(a, id)
    BY <1>4, NotApplicableFields DEF run_isolated
  <2>2. Rules[id].kind = "COMPOSITE"
    BY <1>1, <1>4, EvaluatedSound DEF RuleSound
  <2> QED BY <2>1, <2>2 DEF run_isolated
<1>6. r = evaluate_composite(b, id)
  BY <1>5 DEF run_isolated, language_in_scope, Enlarges
<1>7. /\ r.state = "MATCHED" /\ r.kind = "COMPOSITE"
      /\ r.negatives = q.negatives /\ q.overrides \subseteq r.overrides
      /\ r.severity = q.severity
  BY <1>4, <1>5, <1>6, CompositeKept
<1>8. /\ supp(q.negatives, q.overrides) = {}
      /\ supp(r.negatives, r.overrides) \subseteq supp(q.negatives, q.overrides)
      /\ caps(r.negatives, r.overrides) \subseteq caps(q.negatives, q.overrides)
  <2>1. BlockedCategories(q.overrides) \subseteq BlockedCategories(r.overrides)
    BY <1>7 DEF BlockedCategories
  <2>2. supp(q.negatives, q.overrides) = {}
    <3> HIDE DEF q, supp
    <3> QED BY <1>1, <1>2, <1>3, <1>4
  <2> HIDE DEF q, r
  <2> QED BY <1>7, <2>1, <2>2 DEF is_blocked
<1>9. /\ levels(r) \subseteq levels(q) /\ levels(q) \subseteq Nat /\ levels(r) # {} /\ levels(q) # {}
  <2>1. q.severity \in 1..4 /\ q.negatives \subseteq DOMAIN Negatives
    BY <1>1, <1>4 DEF RuleSound
  <2>2. \A m \in caps(q.negatives, q.overrides) : Negatives[m].cap \in 1..3
    <3> HIDE DEF q
    <3> QED BY <2>1, KnowledgeAccepted DEF WellShaped
  <2> HIDE DEF q, r, caps
  <2> QED BY <1>7, <1>8, <2>1, <2>2
<1>10. /\ apply(r).state = "MATCHED" /\ apply(r).kind = "COMPOSITE"
       /\ apply(r).severity = Min(levels(r)) /\ apply(q).severity = Min(levels(q))
  <2> HIDE DEF q, r, supp, levels
  <2> QED BY <1>1, <1>3, <1>4, <1>7, <1>8
<1>11. Min(levels(q)) <= Min(levels(r))
  <2> HIDE DEF levels
  <2>1. levels(q) \in SUBSET Nat /\ levels(r) \in SUBSET Nat
    BY <1>9
  <2>2. Min(levels(r)) \in levels(r)
    BY <1>9, <2>1, LeastFacts
  <2>3. \A y \in levels(q) : Min(levels(q)) <= y
    BY <1>9, <2>1, LeastFacts
  <2> QED BY <1>9, <2>2, <2>3
<1>12. RuleSound(apply(r))
  BY <1>1, AppliedSound
<1>13. apply(r).required = "TRUE" /\ apply(r).severity \in 1..4
  BY <1>10, <1>12 DEF RuleSound
<1> QED BY <1>10, <1>11, <1>13 DEF is_eligible_matched

-----------------------------------------------------------------------------
(* AI only adds: the decision *)

\* The results of a context, as suppression leaves them.
ResultsOf(ctx) == ResultSet(apply_all(evaluate_rules(ctx)))

\* They are those of the published rules.
LEMMA ResultsFacts ==
  ASSUME NEW ctx
  PROVE  /\ SoundResults(ResultsOf(ctx))
         /\ \A r \in ResultsOf(ctx) : \E id \in PublishedRules : r = apply(run_isolated(ctx, id))
         /\ \A id \in PublishedRules : apply(run_isolated(ctx, id)) \in ResultsOf(ctx)
<1> DEFINE i == evaluate_rules(ctx)
<1> HIDE DEF i
<1>1. i = evaluate_rules(ctx)
  BY DEF i
<1>2. /\ SoundResults(ResultSet(apply_all(i)))
      /\ DOMAIN apply_all(i) = PublishedRules
      /\ \A id \in PublishedRules :
            /\ i[id] = run_isolated(ctx, id) /\ apply_all(i)[id] = apply(i[id])
            /\ apply_all(i)[id] \in ResultSet(apply_all(i))
  BY <1>1, ResultsSound
<1>3. ResultsOf(ctx) = ResultSet(apply_all(i))
  BY <1>1 DEF ResultsOf
<1> QED BY <1>2, <1>3 DEF ResultSet

\* Every rule that counts in the smaller context counts in the larger one, at least as much.
LEMMA EligibleKept ==
  ASSUME NEW a, NEW b, Enlarges(b, a), NEW r \in Eligible(ResultsOf(a))
  PROVE  \E s \in Eligible(ResultsOf(b)) : r.severity <= s.severity
<1>1. PICK id \in PublishedRules : r = apply(run_isolated(a, id))
  BY ResultsFacts DEF Eligible
<1>2. is_eligible_matched(r)
  BY DEF Eligible
<1>3. /\ is_eligible_matched(apply(run_isolated(b, id)))
      /\ r.severity <= apply(run_isolated(b, id)).severity
  BY <1>1, <1>2, MatchedKept
<1>4. apply(run_isolated(b, id)) \in Eligible(ResultsOf(b))
  BY <1>3, ResultsFacts DEF Eligible
<1> QED BY <1>3, <1>4

\* The severities of eligible rules have a largest one.
LEMMA SeveritiesBounded ==
  ASSUME NEW rs, SoundResults(rs), Eligible(rs) # {}
  PROVE  LET m == Max({r.severity : r \in Eligible(rs)})
         IN  m \in 1..4 /\ (\E r \in Eligible(rs) : m = r.severity) /\ \A r \in Eligible(rs) : r.severity <= m
<1> DEFINE E == Eligible(rs)
           S == {r.severity : r \in E}
<1>1. \A r \in E : r.severity \in 1..4
  BY EligibleFacts
<1>2. S \in SUBSET (1..4) /\ S # {}
  BY <1>1
<1>3. S \in SUBSET Nat /\ IsFiniteSet(S)
  BY <1>2, SmallIntervals, FS_Subset
<1>4. Max(S) \in S /\ \A y \in S : y <= Max(S)
  <2> HIDE DEF S
  <2> QED BY <1>2, <1>3, GreatestFacts
<1> QED BY <1>1, <1>4

\* A finding over the smaller context is one over the larger context, and at least as severe.
LEMMA DecisionKept ==
  ASSUME NEW a, NEW b, Enlarges(b, a), NEW support \in Evaluable
  PROVE  LET host == aggregate_decision(ResultsOf(a), support, FALSE)
             both == aggregate_decision(ResultsOf(b), support, FALSE)
         IN  /\ host.class \in SCAM => both.class \in SCAM
             /\ host.severity <= both.severity
<1> DEFINE H == ResultsOf(a)
           B == ResultsOf(b)
<1>1. SoundResults(H) /\ SoundResults(B) /\ support \in Supports
  BY ResultsFacts DEF Supports
<1>2. PICK class, axes, gov : Aggregated(H, support, FALSE, class, axes, gov)
  BY <1>1, AggregateFacts
<1>3. PICK class2, axes2, gov2 : Aggregated(B, support, FALSE, class2, axes2, gov2)
  BY <1>1, AggregateFacts
<1> DEFINE host == aggregate_decision(H, support, FALSE)
           both == aggregate_decision(B, support, FALSE)
<1>4. /\ host.class = class /\ host.severity = axes[1]
      /\ both.class = class2 /\ both.severity = axes2[1]
  <2> DEFINE x == assemble(support, class, axes, gov, Eligible(H), H, FALSE)
             y == assemble(support, class2, axes2, gov2, Eligible(B), B, FALSE)
  <2>1. x.class = class /\ x.severity = axes[1] /\ y.class = class2 /\ y.severity = axes2[1]
    BY DEF assemble
  <2>2. host = x /\ both = y
    BY <1>2, <1>3 DEF Aggregated
  <2> HIDE DEF x, y, host, both
  <2> QED BY <2>1, <2>2
<1> HIDE DEF host, both
<1>5. Consistent(H, support, class, axes, gov, FALSE) /\ Consistent(B, support, class2, axes2, gov2, FALSE)
  BY <1>2, <1>3 DEF Aggregated
<1>6. CASE Eligible(H) = {}
  <2>1. axes[1] = 0 /\ class \in {"NO_SCAM_PATTERN", "INSUFFICIENT_EVIDENCE", "UNSUPPORTED", "ERROR"}
    BY <1>5, <1>6 DEF Consistent
  <2>2. axes2[1] \in 0..4
    BY <1>5 DEF Consistent
  <2>3. class \notin SCAM
    BY <2>1 DEF SCAM
  <2>4. axes[1] <= axes2[1]
    BY <2>1, <2>2
  <2> QED BY <1>4, <2>3, <2>4 DEF host, both
<1>7. CASE Eligible(H) # {}
  <2>1. /\ axes[1] = Max({r.severity : r \in Eligible(H)})
        /\ \E r \in Eligible(H) : axes[1] = r.severity
    BY <1>1, <1>2, <1>7, SeveritiesBounded DEF Aggregated
  <2>2. PICK r \in Eligible(H) : axes[1] = r.severity
    BY <2>1
  <2>3. PICK s \in Eligible(B) : r.severity <= s.severity
    BY <2>2, EligibleKept
  <2>4. axes2[1] = Max({x.severity : x \in Eligible(B)})
    BY <1>3, <2>3 DEF Aggregated
  <2>5. s.severity <= axes2[1] /\ axes2[1] \in 1..4
    BY <1>1, <2>3, <2>4, SeveritiesBounded
  <2>6. r.severity \in 1..4 /\ s.severity \in 1..4
    BY <1>1, <2>2, <2>3, EligibleFacts
  <2>7. class2 \in SCAM
    BY <1>5, <2>3 DEF Consistent
  <2>8. axes[1] <= axes2[1]
    BY <2>2, <2>3, <2>5, <2>6
  <2> QED BY <1>4, <2>7, <2>8 DEF host, both
<1> QED BY <1>6, <1>7

\* An accepted answer without negative indicators enlarges the host's context.
LEMMA AnswerEnlarges ==
  ASSUME AiUsed, ValidContext(input.occs, input.obs), ValidContext(artifact.occs, artifact.obs),
         \A i \in response.inds : i.polarity = "POSITIVE", NEW language, NEW script
  PROVE  Enlarges(build_validated_context(artifact.occs, artifact.obs, language, script),
                  build_validated_context(input.occs, input.obs, language, script))
<1> DEFINE b == build_validated_context(artifact.occs, artifact.obs, language, script)
           a == build_validated_context(input.occs, input.obs, language, script)
<1>1. /\ artifact.occs = input.occs \cup MappedInds(response)
      /\ artifact.obs = input.obs \cup MappedObs(response)
      /\ \A i \in response.inds : IndicatorKnown(i)
  BY DEF AiUsed, map_ai, validate_ai_extraction
<1>2. /\ b.occs = artifact.occs /\ b.obs = ById(artifact.obs) /\ b.language = language /\ b.script = script
      /\ a.occs = input.occs /\ a.obs = ById(input.obs) /\ a.language = language /\ a.script = script
  BY DEF build_validated_context
<1>3. \A io \in MappedInds(response) : io.ind \in DOMAIN Indicators
  BY <1>1 DEF MappedInds, IndicatorKnown
<1>4. UniqueObs(input.obs) /\ UniqueObs(artifact.obs)
  BY DEF ValidContext, UniqueObs
<1>5. ASSUME NEW io \in input.occs, NEW r \in io.refs
      PROVE  ById(artifact.obs)[r] = ById(input.obs)[r]
  <2>1. r \in {o.id : o \in input.obs}
    BY DEF ValidContext
  <2>2. PICK o \in input.obs : r = o.id
    BY <2>1
  <2>3. o \in artifact.obs
    BY <1>1
  <2> QED BY <1>4, <2>2, <2>3, ByIdFacts
<1> HIDE DEF a, b
<1>6. Enlarges(b, a)
  BY <1>1, <1>2, <1>3, <1>5 DEF Enlarges
<1> QED BY <1>6 DEF a, b

\* An evaluation in the invariant has the host's decision, or one that adds to it.
LEMMA AdditionsOfInvariant ==
  ASSUME AInv
  PROVE  AiOnlyAdds
<1>1. TypeOK
  BY TypeOfInvariant
<1>2. ASSUME stage = "explain"
      PROVE  LET rules == IF input.support \in Evaluable THEN RuleResults(input) ELSE <<>>
                 host == aggregate_decision(ResultSet(apply_all(rules)), input.support, input.whole)
             IN  /\ reason # "NONE" => decision = host
                 /\ /\ reason = "NONE" /\ ValidContext(input.occs, input.obs)
                    /\ \A i \in response.inds : i.polarity = "POSITIVE"
                    => /\ host.class \in SCAM => decision.class \in SCAM
                       /\ host.severity <= decision.severity
  <2> DEFINE rules == IF input.support \in Evaluable THEN RuleResults(input) ELSE <<>>
             host == aggregate_decision(ResultSet(apply_all(rules)), input.support, input.whole)
  <2>1. decision = Decided /\ Consumed
    BY <1>2, ExplainedDecision, ConsumedAt
  <2>2. reason # "NONE" => decision = host
    <3> SUFFICES ASSUME reason # "NONE"
                 PROVE  decision = host
      OBVIOUS
    <3>1. artifact = HostArtifact
      BY <2>1 DEF Consumed, AiUsed
    <3>2. Rested = rules
      BY <3>1 DEF Rested, RuleResults, HostArtifact
    <3> HIDE DEF rules
    <3> QED BY <2>1, <3>2 DEF Decided
  <2>3. ASSUME reason = "NONE", ValidContext(input.occs, input.obs),
               \A i \in response.inds : i.polarity = "POSITIVE"
        PROVE  /\ host.class \in SCAM => decision.class \in SCAM
               /\ host.severity <= decision.severity
    <3> DEFINE b == build_validated_context(artifact.occs, artifact.obs, input.language, input.script)
               a == build_validated_context(input.occs, input.obs, input.language, input.script)
    <3>1. AiUsed /\ ContextAccepted /\ HostShaped(input)
      BY <2>1, <2>3 DEF Consumed
    <3>2. input.support \in Evaluable /\ input.whole = FALSE
      BY <3>1 DEF AiUsed, HostEvaluable, HostShaped
    <3>3. ValidContext(artifact.occs, artifact.obs)
      BY <3>1, <3>2 DEF ContextAccepted
    <3>4. Enlarges(b, a)
      BY <2>3, <3>1, <3>3, AnswerEnlarges
    <3>5. rules = evaluate_rules(a) /\ Rested = evaluate_rules(b)
      BY <3>2 DEF RuleResults, Rested
    <3> HIDE DEF a, b, rules
    <3>6. /\ host = aggregate_decision(ResultsOf(a), input.support, FALSE)
          /\ decision = aggregate_decision(ResultsOf(b), input.support, FALSE)
      BY <2>1, <3>2, <3>5 DEF ResultsOf, Decided
    <3> HIDE DEF host
    <3> QED BY <3>2, <3>4, <3>6, DecisionKept
  <2> HIDE DEF host
  <2> QED BY <2>2, <2>3 DEF host
<1> QED BY <1>1, <1>2 DEF AiOnlyAdds

\* AI is advisory: dropped, it leaves the host's decision; without negative indicators it never
\* withdraws a finding of accepted host data or lowers its severity (integration.py, aggregation.py).
THEOREM CheckedAdditions == Spec => []AiOnlyAdds
BY AdvisoryInvariant, AdditionsOfInvariant, PTL

-----------------------------------------------------------------------------
(* Normalization: runs, clusters and what NFKC makes of them *)

\* The end of a run is where its characters end.
LEMMA RunFacts ==
  ASSUME NEW raw \in Seq(Characters), NEW i \in 1..Len(raw), NEW S
  PROVE  /\ EndOfRun(raw, i, S) \in i..Len(raw)
         /\ \A k \in (i + 1)..EndOfRun(raw, i, S) : raw[k] \in S
         /\ EndOfRun(raw, i, S) = Len(raw) \/ raw[EndOfRun(raw, i, S) + 1] \notin S
<1> DEFINE n == Len(raw)
           R == {j \in i..n : \A k \in (i + 1)..j : raw[k] \in S}
           e == Max(R)
<1>1. n \in Nat /\ i \in Nat /\ i <= n
  BY LenProperties
<1>2. i \in R /\ R \subseteq i..n /\ i..n \subseteq Nat
  BY <1>1
<1>3. IsFiniteSet(i..n)
  BY <1>1, FS_Interval
<1>4. IsFiniteSet(R)
  <2> HIDE DEF R
  <2> QED BY <1>2, <1>3, FS_Subset
<1>5. e \in R /\ \A y \in R : y <= e
  <2> HIDE DEF R
  <2> QED BY <1>2, <1>4, GreatestFacts
<1>6. e = n \/ raw[e + 1] \notin S
  <2> SUFFICES ASSUME e # n, raw[e + 1] \in S PROVE FALSE
    OBVIOUS
  <2> HIDE DEF e
  <2>1. e + 1 \in i..n /\ \A k \in (i + 1)..(e + 1) : raw[k] \in S
    BY <1>1, <1>5
  <2>2. e + 1 \in R
    BY <2>1
  <2> QED BY <1>1, <1>2, <1>5, <2>2
<1> HIDE DEF R
<1>7. EndOfRun(raw, i, S) = e
  BY DEF EndOfRun, R
<1> HIDE DEF e
<1>8. e \in i..n /\ \A k \in (i + 1)..e : raw[k] \in S
  BY <1>5 DEF R
<1> QED BY <1>6, <1>7, <1>8

\* There is only one such end.
LEMMA RunIs ==
  ASSUME NEW raw \in Seq(Characters), NEW i \in 1..Len(raw), NEW S, NEW e \in i..Len(raw),
         \A k \in (i + 1)..e : raw[k] \in S, e = Len(raw) \/ raw[e + 1] \notin S
  PROVE  EndOfRun(raw, i, S) = e
<1> DEFINE R == {j \in i..Len(raw) : \A k \in (i + 1)..j : raw[k] \in S}
<1>1. Len(raw) \in Nat
  BY LenProperties
<1>2. e \in R /\ R \in SUBSET Nat
  BY <1>1
<1>3. \A y \in R : y <= e
  BY <1>1
<1> HIDE DEF R
<1>4. Max(R) = e
  BY <1>2, <1>3, MaxIs
<1> QED BY <1>4 DEF EndOfRun, R

\* What NFKC makes of a cluster: something, that has a space only for a spacing accent, no letter
\* before its mark, and begins with a mark only if the cluster does.
LEMMA PieceFacts ==
  ASSUME NEW c \in Seq(Characters), c # <<>>, ~ IsSpace(c[1]), \A k \in 2..Len(c) : c[k] = "m"
  PROVE  /\ NFKC(c) \in Seq(Characters) /\ NFKC(c) # <<>>
         /\ c[1] # "q" => \A k \in DOMAIN NFKC(c) : ~ IsSpace(NFKC(c)[k])
         /\ \A k \in 1..(Len(NFKC(c)) - 1) : NFKC(c)[k] \in Plain => NFKC(c)[k + 1] # "m"
         /\ NFKC(c)[1] = "m" => c[1] = "m"
<1> DEFINE b == IF c[1] = "l" THEN <<"o", "o">> ELSE IF c[1] = "q" THEN <<"s", "m">> ELSE <<c[1]>>
           s == b \o Tail(c)
           k == {i \in 1..(Len(s) - 1) : s[i] \in {"e", "h", "u", "o"} /\ s[i + 1] = "m"}
           p == IF k = {} THEN s ELSE ReplaceAt(RemoveAt(s, Min(k) + 1), Min(k), "x")
<1>0. NFKC(c) = p
  BY DEF NFKC
<1>1. /\ Len(c) \in Nat /\ Len(c) > 0 /\ c[1] \in Characters /\ Tail(c) \in Seq(Characters)
      /\ Len(Tail(c)) = Len(c) - 1 /\ \A j \in 1..Len(Tail(c)) : Tail(c)[j] = "m"
  OBVIOUS
<1>2. /\ b \in Seq(Characters) /\ Len(b) \in {1, 2}
      /\ b[1] = "m" => c[1] = "m"
      /\ c[1] # "q" => \A j \in 1..Len(b) : ~ IsSpace(b[j])
      /\ Len(b) = 2 => b[1] \notin Plain \/ b[2] # "m"
  <2>1. CASE c[1] = "l"
    <3>1. b = <<"o", "o">>
      BY <2>1
    <3> HIDE DEF b
    <3>2. Len(b) = 2 /\ b[1] = "o" /\ b[2] = "o"
      BY <3>1
    <3>3. b \in Seq(Characters)
      <4>1. "o" \in Characters /\ "o" \in Characters
        BY DEF Characters
      <4> QED BY <3>1, <4>1
    <3>4. \A j \in 1..Len(b) : j = 1 \/ j = 2
      BY <3>2
    <3> QED BY <2>1, <3>2, <3>3, <3>4 DEF IsSpace, Plain
  <2>2. CASE c[1] = "q"
    <3>1. b = <<"s", "m">>
      BY <2>2
    <3> HIDE DEF b
    <3>2. Len(b) = 2 /\ b[1] = "s" /\ b[2] = "m"
      BY <3>1
    <3>3. b \in Seq(Characters)
      <4>1. "s" \in Characters /\ "m" \in Characters
        BY DEF Characters
      <4> QED BY <3>1, <4>1
    <3>4. \A j \in 1..Len(b) : j = 1 \/ j = 2
      BY <3>2
    <3> QED BY <2>2, <3>2, <3>3, <3>4 DEF IsSpace, Plain
  <2>3. CASE c[1] # "l" /\ c[1] # "q"
    <3>1. b = <<c[1]>>
      BY <2>3
    <3> HIDE DEF b
    <3>2. b \in Seq(Characters) /\ Len(b) = 1 /\ b[1] = c[1]
      BY <1>1, <3>1
    <3> QED BY <3>2
  <2> QED BY <2>1, <2>2, <2>3
<1>21. Len(b) \in Nat /\ (Len(b) = 1 \/ Len(b) = 2)
  BY <1>2
<1> HIDE DEF b
<1>3. /\ s \in Seq(Characters) /\ Len(s) = Len(b) + Len(c) - 1 /\ Len(s) \in Nat /\ Len(s) > 0
      /\ \A j \in 1..Len(b) : s[j] = b[j]
      /\ \A j \in (Len(b) + 1)..Len(s) : s[j] = "m"
  BY <1>1, <1>2
<1> HIDE DEF s
<1>31. ~ IsSpace("m")
  BY DEF IsSpace
<1>4. ASSUME c[1] # "q", NEW j \in 1..Len(s) PROVE ~ IsSpace(s[j])
  <2>1. CASE j \in 1..Len(b)
    BY <1>2, <1>3, <1>4, <2>1
  <2>2. CASE j \in (Len(b) + 1)..Len(s)
    BY <1>3, <1>31, <2>2
  <2> QED BY <1>3, <1>21, <2>1, <2>2
<1>5. ASSUME NEW i \in k PROVE i = Len(b)
  <2>1. i \in 1..(Len(s) - 1) /\ s[i] # "m" /\ s[i] \in Plain /\ s[i + 1] = "m"
    BY DEF Plain
  <2>2. i <= Len(b)
    BY <1>3, <1>21, <2>1
  <2>3. ASSUME i < Len(b) PROVE FALSE
    <3>0. i \in Nat /\ i >= 1
      BY <1>3, <2>1
    <3> HIDE DEF k, p
    <3>1. i = 1 /\ Len(b) = 2
      <4> DEFINE n == Len(b)
      <4>1. n \in Nat /\ (n = 1 \/ n = 2) /\ i < n
        BY <1>21, <2>3
      <4> HIDE DEF n
      <4>2. i = 1 /\ n = 2
        BY <3>0, <4>1
      <4> QED BY <4>2 DEF n
    <3>2. s[1] = b[1] /\ s[2] = b[2]
      BY <1>3, <3>1
    <3> QED BY <1>2, <2>1, <3>1, <3>2
  <2> QED BY <1>21, <2>1, <2>2, <2>3
<1>6. CASE k = {}
  <2>1. p = s /\ \A i \in 1..(Len(s) - 1) : ~ (s[i] \in {"e", "h", "u", "o"} /\ s[i + 1] = "m")
    BY <1>6
  <2>2. \A i \in 1..(Len(s) - 1) : s[i] \in Plain => s[i + 1] # "m"
    BY <2>1 DEF Plain
  <2>3. s # <<>> /\ (s[1] = "m" => c[1] = "m")
    BY <1>2, <1>3
  <2> HIDE DEF k, p
  <2> QED BY <1>0, <1>3, <1>4, <2>1, <2>2, <2>3
<1>7. CASE k # {}
  <2> DEFINE m == Len(b)
             t == RemoveAt(s, m + 1)
  <2>1. k = {m} /\ m \in 1..(Len(s) - 1) /\ s[m] \in {"e", "h", "u", "o"}
    BY <1>5, <1>7
  <2>2. Min(k) = m
    <3>1. k \in SUBSET Nat
      BY <2>1, <1>2
    <3> HIDE DEF k
    <3> QED BY <1>7, <2>1, <3>1, LeastFacts
  <2>3. p = [t EXCEPT ![m] = "x"]
    <3> HIDE DEF k
    <3> QED BY <1>7, <2>2 DEF ReplaceAt
  <2>4. /\ t \in Seq(Characters) /\ Len(t) = Len(s) - 1
        /\ \A j \in 1..m : t[j] = s[j]
        /\ \A j \in (m + 1)..Len(t) : t[j] = "m"
    <3>1. t = SubSeq(s, 1, m) \o SubSeq(s, m + 2, Len(s))
      BY <2>1, <1>2 DEF RemoveAt
    <3>2. /\ SubSeq(s, 1, m) \in Seq(Characters) /\ Len(SubSeq(s, 1, m)) = m
          /\ \A j \in 1..m : SubSeq(s, 1, m)[j] = s[j]
      BY <1>2, <1>3, <2>1
    <3>3. /\ SubSeq(s, m + 2, Len(s)) \in Seq(Characters) /\ Len(SubSeq(s, m + 2, Len(s))) = Len(s) - m - 1
          /\ \A j \in 1..(Len(s) - m - 1) : SubSeq(s, m + 2, Len(s))[j] = s[m + 1 + j]
      BY <1>2, <1>3, <2>1
    <3> DEFINE u == SubSeq(s, 1, m)
               v == SubSeq(s, m + 2, Len(s))
    <3> HIDE DEF u, v, t
    <3>0. /\ t = u \o v /\ u \in Seq(Characters) /\ v \in Seq(Characters) /\ m \in Nat /\ Len(s) \in Nat
          /\ Len(u) = m /\ Len(v) = Len(s) - m - 1
          /\ (\A j \in 1..m : u[j] = s[j]) /\ \A j \in 1..(Len(s) - m - 1) : v[j] = s[m + 1 + j]
      BY <3>1, <3>2, <3>3, <1>21, <1>3 DEF u, v
    <3>4. t \in Seq(Characters) /\ Len(t) = Len(s) - 1 /\ \A j \in 1..m : t[j] = s[j]
      BY <3>0
    <3>5. ASSUME NEW j \in (m + 1)..Len(t) PROVE t[j] = "m"
      <4>1. j - m \in 1..Len(v) /\ t[j] = v[j - m]
        BY <3>0, <3>4
      <4>2. t[j] = s[j + 1]
        BY <3>0, <4>1
      <4>3. j + 1 \in (Len(b) + 1)..Len(s)
        BY <3>0, <3>4
      <4> QED BY <1>3, <4>2, <4>3
    <3> QED BY <3>4, <3>5
  <2> HIDE DEF t, k, p
  <2>5. p \in Seq(Characters) /\ Len(p) = Len(t)
        /\ p[m] = "x" /\ (\A j \in 1..Len(t) : j # m => p[j] = t[j])
    <3>0. "x" \in Characters
      BY DEF Characters
    <3>1. m \in 1..Len(t) /\ "x" \in Characters /\ Len(t) \in Nat
      BY <2>1, <2>4, <1>3, <1>21, <3>0
    <3> HIDE DEF m
    <3> QED BY <2>3, <2>4, <3>1
  <2>6. m \in Nat /\ (m = 1 \/ m = 2) /\ Len(t) >= m /\ Len(t) \in Nat
    BY <1>21, <1>3, <2>1, <2>4
  <2> HIDE DEF m
  <2>7. \A j \in 1..(Len(p) - 1) : p[j] \in Plain => p[j + 1] # "m"
    <3> SUFFICES ASSUME NEW j \in 1..(Len(p) - 1), p[j] \in Plain PROVE p[j + 1] # "m"
      OBVIOUS
    <3>0. j \in Nat /\ "m" \notin Plain /\ "x" \notin Plain
      BY <2>5, <2>6 DEF Plain
    <3>1. j < m
      <4>1. CASE j = m
        BY <2>5, <3>0, <4>1
      <4>2. CASE j > m
        <5>1. j \in 1..Len(t) /\ j # m /\ j \in (m + 1)..Len(t)
          BY <2>5, <2>6, <3>0, <4>2
        <5>2. p[j] = t[j]
          BY <2>5, <5>1
        <5>3. t[j] = "m"
          BY <2>4, <5>1
        <5> QED BY <3>0, <5>2, <5>3
      <4> QED BY <2>6, <3>0, <4>1, <4>2
    <3>2. m = 2 /\ j = 1
      BY <3>1, <2>6
    <3> QED BY <2>5, <3>2
  <2>8. p[1] = "m" => c[1] = "m"
    <3>1. CASE m = 1
      BY <2>5, <3>1
    <3>2. CASE m = 2
      <4>1. p[1] = t[1] /\ t[1] = s[1]
        BY <2>4, <2>5, <2>6, <3>2
      <4> QED BY <1>2, <1>3, <4>1, <3>2 DEF m
    <3> QED BY <2>6, <3>1, <3>2
  <2>9. ASSUME c[1] # "q", NEW j \in 1..Len(p) PROVE ~ IsSpace(p[j])
    <3>1. CASE j = m
      BY <2>5, <3>1 DEF IsSpace
    <3>2. CASE j \in 1..m /\ j # m
      <4>1. j \in 1..Len(s) /\ p[j] = s[j]
        BY <2>4, <2>5, <2>6, <3>2, <1>3
      <4> QED BY <1>4, <2>9, <4>1
    <3>3. CASE j \in (m + 1)..Len(t)
      BY <1>31, <2>4, <2>5, <2>6, <3>3
    <3> QED BY <2>5, <2>6, <3>1, <3>2, <3>3
  <2>10. p # <<>>
    BY <2>5, <2>6
  <2> QED BY <1>0, <2>5, <2>7, <2>8, <2>9, <2>10
<1> QED BY <1>6, <1>7

-----------------------------------------------------------------------------
(* Normalization: the progress from position to position *)

\* What holds at a, and goes on holding from each position to the next, holds up to b.
LEMMA CountingUp ==
  ASSUME NEW a \in Nat, NEW b \in Nat, NEW G, a \in G, \A i \in (a + 1)..b : i - 1 \in G => i \in G
  PROVE  \A i \in a..b : i \in G
<1> DEFINE Bad == {i \in a..b : i \notin G}
<1> SUFFICES ASSUME Bad # {} PROVE FALSE
  OBVIOUS
<1>1. PICK i \in Bad : \A k \in Bad : i <= k
  <2>1. Bad \in SUBSET Nat
    OBVIOUS
  <2> HIDE DEF Bad
  <2> QED BY <2>1, LeastExists
<1>2. i \in (a + 1)..b /\ i - 1 \in a..b /\ i - 1 \notin Bad
  BY <1>1
<1> QED BY <1>1, <1>2

\* A normalized character with its origin, and how far normalization has come.
Origins == [ch : Characters, from : Nat, to : Nat]
Progress == [out : Seq(Origins), pending : Seq(Origins), next : Nat]

\* The cluster at i is a letter with its marks.
LEMMA ClusterFacts ==
  ASSUME NEW raw \in Seq(Characters), NEW i \in 1..Len(raw), ~ IsSpace(raw[i])
  PROVE  LET j == ClusterEnd(raw, i)
             c == SubSeq(raw, i, j)
         IN  /\ j \in i..Len(raw) /\ (\A k \in (i + 1)..j : raw[k] = "m")
             /\ j = Len(raw) \/ raw[j + 1] # "m"
             /\ c \in Seq(Characters) /\ c # <<>> /\ c[1] = raw[i] /\ \A k \in 2..Len(c) : c[k] = "m"
<1> DEFINE j == ClusterEnd(raw, i)
           c == SubSeq(raw, i, j)
<1>0. Len(raw) \in Nat
  OBVIOUS
<1>1. /\ j \in i..Len(raw) /\ (\A k \in (i + 1)..j : raw[k] = "m")
      /\ j = Len(raw) \/ raw[j + 1] # "m"
  BY RunFacts DEF ClusterEnd
<1> HIDE DEF j
<1>2. /\ c \in Seq(Characters) /\ Len(c) = j - i + 1 /\ \A k \in 1..(j - i + 1) : c[k] = raw[i + k - 1]
  BY <1>0, <1>1
<1>3. j - i + 1 \in Nat /\ j - i + 1 >= 1
  BY <1>0, <1>1
<1> HIDE DEF c
<1>4. c # <<>> /\ c[1] = raw[i]
  BY <1>2, <1>3
<1>5. ASSUME NEW k \in 2..Len(c) PROVE c[k] = "m"
  <2>1. i + k - 1 \in (i + 1)..j /\ c[k] = raw[i + k - 1]
    BY <1>0, <1>1, <1>2, <1>3
  <2> QED BY <1>1, <2>1
<1> QED BY <1>1, <1>2, <1>4, <1>5 DEF c, j

\* The normalized characters of the cluster at i.
Pieces(raw, i) ==
    LET j == ClusterEnd(raw, i)
        piece == NFKC(SubSeq(raw, i, j))
    IN  [k \in DOMAIN piece |-> [ch |-> piece[k], from |-> i, to |-> j]]

\* They stand for a letter with its marks.
LEMMA PiecesFacts ==
  ASSUME NEW raw \in Seq(Characters), NEW i \in 1..Len(raw), ~ IsSpace(raw[i])
  PROVE  LET q == Pieces(raw, i)
         IN  /\ q \in Seq(Origins) /\ Len(q) \in Nat /\ Len(q) >= 1
             /\ \A k \in 1..Len(q) : q[k].from = i /\ q[k].to = ClusterEnd(raw, i)
             /\ raw[i] # "q" => \A k \in 1..Len(q) : ~ IsSpace(q[k].ch)
             /\ \A k \in 1..(Len(q) - 1) : q[k].ch \in Plain => q[k + 1].ch # "m"
             /\ q[1].ch = "m" => raw[i] = "m"
<1> DEFINE j == ClusterEnd(raw, i)
           c == SubSeq(raw, i, j)
           p == NFKC(c)
           q == [k \in DOMAIN p |-> [ch |-> p[k], from |-> i, to |-> j]]
<1>1. j \in i..Len(raw) /\ c \in Seq(Characters) /\ c # <<>> /\ c[1] = raw[i] /\ \A k \in 2..Len(c) : c[k] = "m"
  BY ClusterFacts
<1>2. /\ p \in Seq(Characters) /\ p # <<>>
      /\ raw[i] # "q" => \A k \in DOMAIN p : ~ IsSpace(p[k])
      /\ \A k \in 1..(Len(p) - 1) : p[k] \in Plain => p[k + 1] # "m"
      /\ p[1] = "m" => raw[i] = "m"
  <2> HIDE DEF c
  <2> QED BY <1>1, PieceFacts
<1> HIDE DEF p, c, j
<1>3. Len(p) \in Nat /\ Len(p) >= 1 /\ DOMAIN p = 1..Len(p)
  BY <1>2
<1>4. i \in Nat /\ j \in Nat
  BY <1>1
<1>5. q \in Seq(Origins) /\ Len(q) = Len(p)
  <2>1. q \in [1..Len(p) -> Origins]
    BY <1>2, <1>3, <1>4 DEF Origins
  <2> HIDE DEF q
  <2> QED BY <1>3, <2>1
<1>6. \A k \in 1..Len(p) : q[k].ch = p[k] /\ q[k].from = i /\ q[k].to = j
  BY <1>3
<1>7. Pieces(raw, i) = q
  BY DEF Pieces, p, c, j
<1> HIDE DEF q
<1>8. /\ raw[i] # "q" => \A k \in 1..Len(q) : ~ IsSpace(q[k].ch)
      /\ \A k \in 1..(Len(q) - 1) : q[k].ch \in Plain => q[k + 1].ch # "m"
      /\ q[1].ch = "m" => raw[i] = "m"
  BY <1>2, <1>3, <1>5, <1>6
<1> QED BY <1>3, <1>5, <1>6, <1>7, <1>8 DEF j

\* What may become of the progress at a position: nothing, a pending separator, or a cluster.
Skips(raw, s, i) == i < s.next \/ Invisible(raw[i])
Separates(raw, s, i) == ~ Skips(raw, s, i) /\ IsSpace(raw[i])
Takes(raw, s, i) == ~ Skips(raw, s, i) /\ ~ IsSpace(raw[i])

\* Which of the three it is decides what the progress becomes (normalize).
LEMMA StepFacts ==
  ASSUME NEW raw \in Seq(Characters), NEW s \in Progress, NEW i \in 1..Len(raw)
  PROVE  LET t == Normalized(raw, s, i)
         IN  /\ t \in Progress
             /\ Skips(raw, s, i) => t = s
             /\ Separates(raw, s, i) =>
                   /\ t.out = s.out /\ t.next = SpaceEnd(raw, i) + 1
                   /\ s.out = <<>> => t.pending = s.pending
                   /\ s.out # <<>> => \E ch \in {"s", "n"} :
                         t.pending = <<[ch |-> ch, from |-> i, to |-> SpaceEnd(raw, i)]>>
             /\ Takes(raw, s, i) =>
                   t = [out |-> s.out \o s.pending \o Pieces(raw, i), pending |-> <<>>,
                        next |-> ClusterEnd(raw, i) + 1]
<1> DEFINE t == Normalized(raw, s, i)
<1>0. i \in Nat /\ Len(raw) \in Nat /\ s.out \in Seq(Origins) /\ s.pending \in Seq(Origins) /\ s.next \in Nat
  BY DEF Progress
<1>1. CASE Skips(raw, s, i)
  <2>1. t = s
    BY <1>1 DEF Skips, Normalized
  <2> QED BY <1>1, <2>1 DEF Separates, Takes
<1>2. CASE Separates(raw, s, i)
  <2> DEFINE j == SpaceEnd(raw, i)
             ch == IF \E k \in i..j : raw[k] = "n" THEN "n" ELSE "s"
             e == [ch |-> ch, from |-> i, to |-> j]
             p == IF s.out = <<>> THEN s.pending ELSE <<e>>
  <2>1. t = [s EXCEPT !.next = j + 1, !.pending = p]
    BY <1>2 DEF Separates, Skips, Normalized
  <2>2. j \in Nat
    BY <1>0, RunFacts DEF SpaceEnd
  <2>3. ch \in {"s", "n"} /\ ch \in Characters
    BY DEF Characters
  <2> HIDE DEF j, ch
  <2>4. e \in Origins
    BY <1>0, <2>2, <2>3 DEF Origins
  <2>5. p \in Seq(Origins)
    <3> HIDE DEF e
    <3> QED BY <1>0, <2>4
  <2> HIDE DEF p
  <2>6. t \in Progress /\ t.out = s.out /\ t.next = j + 1 /\ t.pending = p
    <3> DEFINE x == j + 1
               u == [s EXCEPT !.next = x, !.pending = p]
    <3>0. x \in Nat
      BY <2>2
    <3> HIDE DEF x
    <3>1. u \in Progress /\ u.out = s.out /\ u.next = x /\ u.pending = p
      BY <2>5, <3>0 DEF Progress
    <3>2. t = u
      BY <2>1 DEF x
    <3> HIDE DEF u, t
    <3> QED BY <3>1, <3>2 DEF x
  <2>7. s.out = <<>> => t.pending = s.pending
    BY <2>6 DEF p
  <2>8. s.out # <<>> => \E x \in {"s", "n"} : t.pending = <<[ch |-> x, from |-> i, to |-> j]>>
    <3> SUFFICES ASSUME s.out # <<>>
                 PROVE  \E x \in {"s", "n"} : t.pending = <<[ch |-> x, from |-> i, to |-> j]>>
      OBVIOUS
    <3>1. t.pending = <<[ch |-> ch, from |-> i, to |-> j]>>
      BY <2>6 DEF p
    <3> HIDE DEF e, t
    <3> QED BY <2>3, <3>1
  <2> HIDE DEF e
  <2> QED BY <1>2, <2>6, <2>7, <2>8 DEF Separates, Takes, j
<1>3. CASE Takes(raw, s, i)
  <2>1. t = [out |-> s.out \o s.pending \o Pieces(raw, i), pending |-> <<>>, next |-> ClusterEnd(raw, i) + 1]
    BY <1>3 DEF Takes, Skips, Normalized, Pieces
  <2>2. Pieces(raw, i) \in Seq(Origins)
    BY <1>3, PiecesFacts DEF Takes
  <2>3. ClusterEnd(raw, i) \in Nat
    BY <1>0, <1>3, ClusterFacts DEF Takes
  <2>4. s.out \o s.pending \o Pieces(raw, i) \in Seq(Origins)
    BY <1>0, <2>2
  <2>5. t \in Progress
    BY <2>1, <2>3, <2>4 DEF Progress
  <2> QED BY <1>3, <2>1, <2>5 DEF Separates, Takes
<1> QED BY <1>1, <1>2, <1>3 DEF Separates, Takes

\* The progress of normalization at each position.
Normalizes(after, raw) ==
    /\ after \in [0..Len(raw) -> Progress]
    /\ after[0] = [out |-> <<>>, pending |-> <<>>, next |-> 1]
    /\ \A i \in 1..Len(raw) : after[i] = Normalized(raw, after[i - 1], i)

\* There is such a progress, and what it has made of the whole text is the normalized text.
LEMMA NormalizationExists ==
  ASSUME NEW raw \in Seq(Characters)
  PROVE  \E after : Normalizes(after, raw) /\ normalize(raw) = after[Len(raw)].out
<1> DEFINE D == 0..Len(raw)
           V == Progress
           start == [out |-> <<>>, pending |-> <<>>, next |-> 1]
           Step(f) == [i \in D |-> IF i = 0 THEN start ELSE Normalized(raw, f[i - 1], i)]
           F == [f \in [D -> V] |-> Step(f)]
           rank == [i \in D |-> i]
           N == Len(raw) + 1
<1>0. Len(raw) \in Nat
  OBVIOUS
<1>1. start \in V
  <2>1. <<>> \in Seq(Origins) /\ 1 \in Nat
    OBVIOUS
  <2> QED BY <2>1 DEF Progress
<1>2. \A s \in V, i \in 1..Len(raw) : Normalized(raw, s, i) \in V
  BY StepFacts
<1> HIDE DEF V, start
<1>3. ASSUME NEW f \in [D -> V] PROVE Step(f) \in [D -> V]
  <2> SUFFICES ASSUME NEW i \in D PROVE (IF i = 0 THEN start ELSE Normalized(raw, f[i - 1], i)) \in V
    OBVIOUS
  <2>1. CASE i = 0
    BY <1>1, <2>1
  <2>2. CASE i # 0
    <3>1. i \in 1..Len(raw) /\ i - 1 \in D
      BY <1>0, <2>2
    <3>2. f[i - 1] \in V
      BY <3>1
    <3> QED BY <1>2, <2>2, <3>1, <3>2
  <2> QED BY <2>1, <2>2
<1>4. F \in [[D -> V] -> [D -> V]]
  <2> HIDE DEF Step, D
  <2> QED BY <1>3
<1>5. ASSUME NEW g, NEW h, NEW q \in D, \A p \in D : rank[p] < rank[q] => g[p] = h[p]
      PROVE  Step(g)[q] = Step(h)[q]
  <2>1. CASE q = 0
    BY <2>1
  <2>2. CASE q # 0
    <3>1. q - 1 \in D /\ rank[q - 1] < rank[q]
      BY <1>0, <2>2
    <3>2. g[q - 1] = h[q - 1]
      <4> HIDE DEF rank, D
      <4> QED BY <1>5, <3>1
    <3> QED BY <2>2, <3>2
  <2> QED BY <2>1, <2>2
<1>6. \A g, h \in [D -> V] : \A q \in D :
         (\A p \in D : rank[p] < rank[q] => g[p] = h[p]) => F[g][q] = F[h][q]
  <2> SUFFICES ASSUME NEW g \in [D -> V], NEW h \in [D -> V], NEW q \in D,
                      \A p \in D : rank[p] < rank[q] => g[p] = h[p]
               PROVE  F[g][q] = F[h][q]
    OBVIOUS
  <2>1. Step(g)[q] = Step(h)[q]
    <3> HIDE DEF Step, D
    <3> QED BY <1>5
  <2> HIDE DEF Step, D
  <2> QED BY <2>1
<1>7. rank \in [D -> Nat] /\ N \in Nat /\ \A q \in D : rank[q] < N
  BY <1>0
<1>8. PICK w \in [D -> V] : w = Step(w)
  <2>1. V # {}
    BY <1>1
  <2>2. \E f \in [D -> V] : f = F[f]
    <3> HIDE DEF F, D, N, rank
    <3>1. Recursion(D, V, rank, N, F)
      BY <1>4, <1>6, <1>7, <2>1 DEF Recursion
    <3> QED BY <3>1, RecursionExists
  <2> HIDE DEF Step, D
  <2> QED BY <2>2
<1> DEFINE v == CHOOSE after :
                  after = [i \in D |-> IF i = 0 THEN start ELSE Normalized(raw, after[i - 1], i)]
<1>9. v = Step(v)
  BY <1>8
<1>10. normalize(raw) = v[Len(raw)].out
  BY DEF normalize, start
<1> HIDE DEF v
<1>11. v[0] = start /\ \A i \in 1..Len(raw) : v[i] = Normalized(raw, v[i - 1], i)
  <2>1. 0 \in D /\ v[0] = start
    BY <1>0, <1>9
  <2>2. ASSUME NEW i \in 1..Len(raw) PROVE v[i] = Normalized(raw, v[i - 1], i)
    <3>1. i \in D /\ i # 0
      BY <1>0
    <3> QED BY <1>9, <3>1
  <2> QED BY <2>1, <2>2
<1>12. \A i \in 0..Len(raw) : v[i] \in V
  <2> DEFINE G == {i \in 0..Len(raw) : v[i] \in V}
  <2>1. 0 \in G
    BY <1>0, <1>1, <1>11
  <2>2. ASSUME NEW i \in (0 + 1)..Len(raw), i - 1 \in G PROVE i \in G
    BY <1>0, <1>2, <1>11, <2>2
  <2>3. \A i \in 0..Len(raw) : i \in G
    <3> HIDE DEF G
    <3> QED BY <1>0, <2>1, <2>2, CountingUp
  <2> QED BY <2>3
<1>13. v \in [0..Len(raw) -> V]
  BY <1>9, <1>12
<1> QED BY <1>10, <1>11, <1>13 DEF Normalizes, V, start

-----------------------------------------------------------------------------
(* Normalization: the offsets are sound at every position *)

\* A normalized character is a separator, or one of a cluster that was taken.
Stands(raw, after, e) ==
    /\ e.from \in 1..Len(raw) /\ e.to \in e.from..Len(raw)
    /\ IsSpace(raw[e.from]) => e.ch \in {"s", "n"}
    /\ ~ IsSpace(raw[e.from]) =>
          /\ Takes(raw, after[e.from - 1], e.from) /\ e.to = ClusterEnd(raw, e.from)
          /\ raw[e.from] # "q" => ~ IsSpace(e.ch)

\* The second follows the first, or both are of one cluster.
Ordered(d, e) == d.to < e.from \/ (d.from = e.from /\ d.to = e.to)

\* Neither a letter beside its mark, nor two separators.
Apart(raw, d, e) ==
    /\ d.ch \in Plain /\ e.ch = "m" => d.to + 1 < e.from
    /\ ~ (IsSpace(raw[d.from]) /\ IsSpace(raw[e.from]))

\* Each of them stands for something of the text, in order, and neighbours are apart.
InPlace(raw, after, w) ==
    /\ \A k \in 1..Len(w) : Stands(raw, after, w[k])
    /\ \A k \in 1..Len(w), l \in 1..Len(w) : k < l => Ordered(w[k], w[l])
    /\ \A k \in 1..(Len(w) - 1) : Apart(raw, w[k], w[k + 1])

\* Two normalized parts, the second after the first, are one.
LEMMA AppendPlaced ==
  ASSUME NEW raw, NEW after, NEW u \in Seq(Origins), NEW v \in Seq(Origins),
         InPlace(raw, after, u), InPlace(raw, after, v),
         \A k \in 1..Len(u), l \in 1..Len(v) : Ordered(u[k], v[l]),
         u # <<>> /\ v # <<>> => Apart(raw, u[Len(u)], v[1])
  PROVE  /\ u \o v \in Seq(Origins) /\ Len(u \o v) = Len(u) + Len(v)
         /\ InPlace(raw, after, u \o v)
<1> DEFINE w == u \o v
           m == Len(u)
           n == Len(v)
<1>1. m \in Nat /\ n \in Nat /\ w \in Seq(Origins) /\ Len(w) = m + n
  OBVIOUS
<1>2. (\A k \in 1..m : w[k] = u[k]) /\ \A k \in (m + 1)..(m + n) : k - m \in 1..n /\ w[k] = v[k - m]
  OBVIOUS
<1>3. /\ \A k \in 1..m : Stands(raw, after, u[k])
      /\ \A k \in 1..m, l \in 1..m : k < l => Ordered(u[k], u[l])
      /\ \A k \in 1..(m - 1) : Apart(raw, u[k], u[k + 1])
  BY DEF InPlace
<1>4. /\ \A k \in 1..n : Stands(raw, after, v[k])
      /\ \A k \in 1..n, l \in 1..n : k < l => Ordered(v[k], v[l])
      /\ \A k \in 1..(n - 1) : Apart(raw, v[k], v[k + 1])
  BY DEF InPlace
<1>5. (m > 0 => u # <<>>) /\ (n > 0 => v # <<>>)
  OBVIOUS
<1>6. /\ \A k \in 1..m, l \in 1..n : Ordered(u[k], v[l])
      /\ m > 0 /\ n > 0 => Apart(raw, u[m], v[1])
  BY <1>5
<1> HIDE DEF w, m, n
<1>7. ASSUME NEW k \in 1..(m + n) PROVE Stands(raw, after, w[k])
  <2>1. k \in 1..m \/ k \in (m + 1)..(m + n)
    BY <1>1
  <2> QED BY <1>2, <1>3, <1>4, <2>1
<1>8. ASSUME NEW k \in 1..(m + n), NEW l \in 1..(m + n), k < l PROVE Ordered(w[k], w[l])
  <2>1. CASE l \in 1..m
    <3>1. k \in 1..m
      BY <1>1, <1>8, <2>1
    <3> QED BY <1>2, <1>3, <1>8, <2>1, <3>1
  <2>2. CASE k \in 1..m /\ l \in (m + 1)..(m + n)
    BY <1>2, <1>6, <2>2
  <2>3. CASE k \in (m + 1)..(m + n)
    <3>1. l \in (m + 1)..(m + n) /\ k - m \in 1..n /\ l - m \in 1..n /\ k - m < l - m
      BY <1>1, <1>8, <2>3
    <3>2. Ordered(v[k - m], v[l - m])
      BY <1>4, <3>1
    <3> QED BY <1>2, <2>3, <3>1, <3>2
  <2> QED BY <1>1, <2>1, <2>2, <2>3
<1>9. ASSUME NEW k \in 1..(m + n - 1) PROVE Apart(raw, w[k], w[k + 1])
  <2>1. CASE k \in 1..(m - 1)
    <3>1. k \in 1..m /\ k + 1 \in 1..m
      BY <1>1, <2>1
    <3> QED BY <1>2, <1>3, <2>1, <3>1
  <2>2. CASE k = m
    <3>1. m > 0 /\ n > 0 /\ m \in 1..m /\ m + 1 \in (m + 1)..(m + n) /\ m + 1 - m = 1
      BY <1>1, <2>2
    <3>2. w[k] = u[m] /\ w[k + 1] = v[1]
      BY <1>2, <2>2, <3>1
    <3> QED BY <1>6, <3>1, <3>2
  <2>3. CASE k \in (m + 1)..(m + n - 1)
    <3>1. /\ k \in (m + 1)..(m + n) /\ k + 1 \in (m + 1)..(m + n)
          /\ k - m \in 1..(n - 1) /\ (k + 1) - m = (k - m) + 1
      BY <1>1, <2>3
    <3>2. Apart(raw, v[k - m], v[(k - m) + 1])
      BY <1>4, <3>1
    <3>3. w[k] = v[k - m] /\ w[k + 1] = v[(k + 1) - m]
      BY <1>2, <3>1
    <3> QED BY <3>1, <3>2, <3>3
  <2> QED BY <1>1, <2>1, <2>2, <2>3
<1>10. InPlace(raw, after, w)
  BY <1>1, <1>7, <1>8, <1>9 DEF InPlace
<1> QED BY <1>1, <1>10 DEF w, m, n

\* What normalization has made of the text up to a position.
Sound(raw, after, c) ==
    LET s == after[c]
        o == s.out
        d == s.pending
    IN  /\ s.next >= 1
        /\ d # <<>> => /\ o # <<>> /\ Len(d) = 1 /\ IsSpace(raw[d[1].from]) /\ InPlace(raw, after, d)
                       /\ d[1].from <= c /\ d[1].to < s.next
                       /\ \A k \in 1..Len(o) : o[k].to < d[1].from
        /\ InPlace(raw, after, o)
        /\ \A k \in 1..Len(o) : o[k].from <= c /\ o[k].to < s.next
        /\ o # <<>> => ~ IsSpace(raw[o[1].from]) /\ ~ IsSpace(raw[o[Len(o)].from])
        /\ \A k \in 1..Len(raw) :
              (k <= c \/ k < s.next) /\ ~ IsSpace(raw[k]) /\ ~ Invisible(raw[k]) =>
                  \E l \in 1..Len(o) : o[l].from <= k /\ k <= o[l].to

\* A pending separator goes after what there is.
LEMMA SoundSeparates ==
  ASSUME NEW raw \in Seq(Characters), NEW after, Normalizes(after, raw), NEW i \in 1..Len(raw),
         Sound(raw, after, i - 1), Separates(raw, after[i - 1], i)
  PROVE  Sound(raw, after, i)
<1> DEFINE s == after[i - 1]
           t == after[i]
           o == s.out
           d == t.pending
           j == SpaceEnd(raw, i)
<1>0. i \in Nat /\ i >= 1 /\ i <= Len(raw) /\ Len(raw) \in Nat /\ i - 1 \in 0..Len(raw)
  OBVIOUS
<1>1. s \in Progress /\ t = Normalized(raw, s, i) /\ Separates(raw, s, i)
  BY <1>0 DEF Normalizes
<1>2. /\ t \in Progress /\ t.out = o /\ t.next = j + 1
      /\ o = <<>> => d = s.pending
      /\ o # <<>> => \E ch \in {"s", "n"} : d = <<[ch |-> ch, from |-> i, to |-> j]>>
  <2> DEFINE u == Normalized(raw, s, i)
  <2> HIDE DEF s
  <2>1. /\ u \in Progress /\ u.out = s.out /\ u.next = SpaceEnd(raw, i) + 1
        /\ s.out = <<>> => u.pending = s.pending
        /\ s.out # <<>> => \E ch \in {"s", "n"} : u.pending = <<[ch |-> ch, from |-> i, to |-> SpaceEnd(raw, i)]>>
    BY <1>1, StepFacts
  <2>2. t = u
    BY <1>1
  <2> HIDE DEF u, t
  <2> QED BY <2>1, <2>2
<1>3. /\ j \in i..Len(raw) /\ \A k \in (i + 1)..j : raw[k] \in {"s", "n", "z"}
  BY RunFacts DEF SpaceEnd
<1>4. o \in Seq(Origins) /\ Len(o) \in Nat /\ s.next \in Nat
  BY <1>1 DEF Progress
<1>5. IsSpace(raw[i]) /\ ~ (i < s.next)
  BY DEF Separates, Skips
<1> HIDE DEF j
<1>6. /\ s.next >= 1 /\ (s.pending # <<>> => o # <<>>)
      /\ InPlace(raw, after, o)
      /\ \A k \in 1..Len(o) : o[k].from <= i - 1 /\ o[k].to < s.next
      /\ o # <<>> => ~ IsSpace(raw[o[1].from]) /\ ~ IsSpace(raw[o[Len(o)].from])
      /\ \A k \in 1..Len(raw) :
            (k <= i - 1 \/ k < s.next) /\ ~ IsSpace(raw[k]) /\ ~ Invisible(raw[k]) =>
                \E l \in 1..Len(o) : o[l].from <= k /\ k <= o[l].to
  BY DEF Sound
<1> HIDE DEF s, t, o
<1>7. \A k \in 1..Len(o) : o[k].from \in Nat /\ o[k].to \in Nat
  <2>1. \A k \in 1..Len(o) : o[k] \in Origins
    BY <1>4
  <2> QED BY <2>1 DEF Origins
<1>8. ASSUME d # <<>>
      PROVE  /\ o # <<>> /\ Len(d) = 1 /\ IsSpace(raw[d[1].from]) /\ InPlace(raw, after, d)
             /\ d[1].from <= i /\ d[1].to < t.next
             /\ \A k \in 1..Len(o) : o[k].to < d[1].from
  <2>1. o # <<>>
    BY <1>2, <1>6, <1>8
  <2>2. PICK ch \in {"s", "n"} : d = <<[ch |-> ch, from |-> i, to |-> j]>>
    BY <1>2, <2>1
  <2>3. Len(d) = 1 /\ d[1].ch = ch /\ d[1].from = i /\ d[1].to = j
    BY <2>2
  <2>4. InPlace(raw, after, d)
    <3>1. Stands(raw, after, d[1])
      <4> HIDE DEF d
      <4> QED BY <1>0, <1>3, <1>5, <2>2, <2>3 DEF Stands
    <3> HIDE DEF d
    <3>2. (\A k \in 1..Len(d) : k = 1) /\ Len(d) - 1 = 0
      BY <2>3
    <3> QED BY <2>3, <3>1, <3>2 DEF InPlace
  <2>5. \A k \in 1..Len(o) : o[k].to < i
    BY <1>0, <1>4, <1>5, <1>6, <1>7
  <2> HIDE DEF d
  <2> QED BY <1>0, <1>2, <1>3, <1>5, <2>1, <2>3, <2>4, <2>5
<1>9. \A k \in 1..Len(o) : o[k].from <= i /\ o[k].to < t.next
  <2>1. i <= j /\ j \in Nat /\ t.next = j + 1
    BY <1>0, <1>2, <1>3
  <2>2. s.next <= i
    BY <1>0, <1>4, <1>5
  <2>3. ASSUME NEW k \in 1..Len(o) PROVE o[k].from <= i /\ o[k].to < t.next
    <3>1. o[k].from <= i - 1 /\ o[k].to < s.next /\ o[k].from \in Nat /\ o[k].to \in Nat
      BY <1>6, <1>7
    <3> QED BY <1>0, <1>4, <2>1, <2>2, <3>1
  <2> QED BY <2>3
<1>10. ASSUME NEW k \in 1..Len(raw), k <= i \/ k < t.next, ~ IsSpace(raw[k]), ~ Invisible(raw[k])
       PROVE  \E l \in 1..Len(o) : o[l].from <= k /\ k <= o[l].to
  <2>1. ~ (k \in (i + 1)..j) /\ k # i
    BY <1>3, <1>5, <1>10 DEF IsSpace, Invisible
  <2>2. k <= i - 1
    BY <1>0, <1>2, <1>3, <1>10, <2>1
  <2> QED BY <1>6, <1>10, <2>2
<1>11. t.next >= 1
  BY <1>0, <1>2, <1>3
<1> HIDE DEF d
<1>12. /\ InPlace(raw, after, t.out)
       /\ \A k \in 1..Len(t.out) : t.out[k].from <= i /\ t.out[k].to < t.next
       /\ t.out # <<>> => ~ IsSpace(raw[t.out[1].from]) /\ ~ IsSpace(raw[t.out[Len(t.out)].from])
       /\ \A k \in 1..Len(raw) :
            (k <= i \/ k < t.next) /\ ~ IsSpace(raw[k]) /\ ~ Invisible(raw[k]) =>
                \E l \in 1..Len(t.out) : t.out[l].from <= k /\ k <= t.out[l].to
  BY <1>2, <1>6, <1>9, <1>10
<1>13. d # <<>> =>
          /\ t.out # <<>> /\ Len(d) = 1 /\ IsSpace(raw[d[1].from]) /\ InPlace(raw, after, d)
          /\ d[1].from <= i /\ d[1].to < t.next
          /\ \A k \in 1..Len(t.out) : t.out[k].to < d[1].from
  BY <1>2, <1>8
<1> QED BY <1>11, <1>12, <1>13 DEF Sound, t, d

\* A cluster goes after what there is, behind the pending separator.
LEMMA SoundTakes ==
  ASSUME NEW raw \in Seq(Characters), NEW after, Normalizes(after, raw), NEW i \in 1..Len(raw),
         Sound(raw, after, i - 1), Takes(raw, after[i - 1], i)
  PROVE  Sound(raw, after, i)
<1> DEFINE s == after[i - 1]
           t == after[i]
           o == s.out
           d == s.pending
           j == ClusterEnd(raw, i)
           q == Pieces(raw, i)
           w == o \o d
<1>0. i \in Nat /\ i >= 1 /\ i <= Len(raw) /\ Len(raw) \in Nat /\ i - 1 \in 0..Len(raw)
  OBVIOUS
<1>1. s \in Progress /\ t = Normalized(raw, s, i) /\ Takes(raw, s, i)
  BY <1>0 DEF Normalizes
<1>2. t.out = w \o q /\ t.pending = <<>> /\ t.next = j + 1
  <2> DEFINE u == Normalized(raw, s, i)
  <2> HIDE DEF s, q
  <2>1. u = [out |-> s.out \o s.pending \o Pieces(raw, i), pending |-> <<>>, next |-> ClusterEnd(raw, i) + 1]
    BY <1>1, StepFacts
  <2>2. t = u
    BY <1>1
  <2> HIDE DEF u, t
  <2> QED BY <2>1, <2>2 DEF q
<1>3. ~ IsSpace(raw[i]) /\ ~ Invisible(raw[i]) /\ ~ (i < s.next)
  BY DEF Takes, Skips
<1>4. /\ j \in i..Len(raw) /\ \A k \in (i + 1)..j : raw[k] = "m"
  BY <1>3, ClusterFacts
<1>5. /\ q \in Seq(Origins) /\ Len(q) \in Nat /\ Len(q) >= 1
      /\ \A k \in 1..Len(q) : q[k].from = i /\ q[k].to = j
      /\ raw[i] # "q" => \A k \in 1..Len(q) : ~ IsSpace(q[k].ch)
      /\ \A k \in 1..(Len(q) - 1) : q[k].ch \in Plain => q[k + 1].ch # "m"
      /\ q[1].ch = "m" => raw[i] = "m"
  BY <1>3, PiecesFacts
<1> HIDE DEF q, j
<1>6. InPlace(raw, after, q)
  <2>1. \A k \in 1..Len(q) : Stands(raw, after, q[k])
    BY <1>0, <1>1, <1>3, <1>4, <1>5 DEF Stands, j
  <2>2. \A k \in 1..Len(q), l \in 1..Len(q) : Ordered(q[k], q[l])
    BY <1>5 DEF Ordered
  <2>3. \A k \in 1..(Len(q) - 1) : Apart(raw, q[k], q[k + 1])
    <3> SUFFICES ASSUME NEW k \in 1..(Len(q) - 1) PROVE Apart(raw, q[k], q[k + 1])
      OBVIOUS
    <3>1. k \in 1..Len(q) /\ k + 1 \in 1..Len(q)
      BY <1>5
    <3>2. q[k].from = i /\ q[k + 1].from = i
      BY <1>5, <3>1
    <3> QED BY <1>3, <1>5, <3>2 DEF Apart
  <2> QED BY <2>1, <2>2, <2>3 DEF InPlace
<1>7. o \in Seq(Origins) /\ d \in Seq(Origins) /\ s.next \in Nat /\ Len(o) \in Nat /\ Len(d) \in Nat
  BY <1>1 DEF Progress
<1>8. /\ s.next >= 1
      /\ d # <<>> => /\ o # <<>> /\ Len(d) = 1 /\ IsSpace(raw[d[1].from]) /\ InPlace(raw, after, d)
                     /\ d[1].from <= i - 1 /\ d[1].to < s.next
                     /\ \A k \in 1..Len(o) : o[k].to < d[1].from
      /\ InPlace(raw, after, o)
      /\ \A k \in 1..Len(o) : o[k].from <= i - 1 /\ o[k].to < s.next
      /\ o # <<>> => ~ IsSpace(raw[o[1].from]) /\ ~ IsSpace(raw[o[Len(o)].from])
      /\ \A k \in 1..Len(raw) :
            (k <= i - 1 \/ k < s.next) /\ ~ IsSpace(raw[k]) /\ ~ Invisible(raw[k]) =>
                \E l \in 1..Len(o) : o[l].from <= k /\ k <= o[l].to
  BY DEF Sound
<1> HIDE DEF s, t, o, d
\* The pending separator comes after a cluster.
<1>9. /\ w \in Seq(Origins) /\ Len(w) = Len(o) + Len(d) /\ InPlace(raw, after, w)
      /\ \A k \in 1..Len(w) : w[k] \in Origins /\ w[k].from <= i - 1 /\ w[k].to < s.next
      /\ o # <<>> => w # <<>> /\ w[1] = o[1]
      /\ o = <<>> => w = <<>>
      /\ \A k \in 1..Len(o) : w[k] = o[k]
      /\ d = <<>> => w = o
      /\ d # <<>> => w[Len(w)] = d[1]
  <2>1. CASE d = <<>>
    <3>1. w = o
      BY <1>7, <2>1
    <3>2. \A k \in 1..Len(o) : o[k] \in Origins
      BY <1>7
    <3>3. Len(d) = 0
      BY <2>1
    <3> HIDE DEF w
    <3> QED BY <1>7, <1>8, <2>1, <3>1, <3>2, <3>3
  <2>2. CASE d # <<>>
    <3>1. /\ o # <<>> /\ Len(d) = 1 /\ IsSpace(raw[d[1].from]) /\ InPlace(raw, after, d)
          /\ d[1].from <= i - 1 /\ d[1].to < s.next /\ \A k \in 1..Len(o) : o[k].to < d[1].from
      BY <1>8, <2>2
    <3>2. \A k \in 1..Len(o), l \in 1..Len(d) : Ordered(o[k], d[l])
      BY <3>1 DEF Ordered
    <3>3. Apart(raw, o[Len(o)], d[1])
      <4>1. ~ IsSpace(raw[o[Len(o)].from]) /\ d[1].ch # "m"
        <5>1. Stands(raw, after, d[1])
          BY <3>1 DEF InPlace
        <5> QED BY <1>8, <3>1, <5>1 DEF Stands
      <4> QED BY <4>1 DEF Apart
    <3>4. w \in Seq(Origins) /\ Len(w) = Len(o) + Len(d) /\ InPlace(raw, after, w)
      <4> HIDE DEF w
      <4> QED BY <1>7, <1>8, <3>1, <3>2, <3>3, AppendPlaced DEF w
    <3>5. (\A k \in 1..Len(o) : w[k] = o[k]) /\ w[Len(o) + 1] = d[1]
      <4>1. /\ \A k \in 1..Len(o) : w[k] = o[k]
            /\ \A k \in (Len(o) + 1)..(Len(o) + Len(d)) : w[k] = d[k - Len(o)]
        BY <1>7
      <4>2. Len(o) + 1 \in (Len(o) + 1)..(Len(o) + Len(d)) /\ Len(o) + 1 - Len(o) = 1
        BY <1>7, <3>1
      <4> HIDE DEF w
      <4> QED BY <4>1, <4>2
    <3> HIDE DEF w
    <3>6. 1 \in 1..Len(o) /\ Len(w) = Len(o) + 1
      BY <1>7, <3>1, <3>4
    <3>7. ASSUME NEW k \in 1..Len(w) PROVE w[k] \in Origins /\ w[k].from <= i - 1 /\ w[k].to < s.next
      <4>1. w[k] \in Origins
        BY <3>4
      <4>2. CASE k \in 1..Len(o)
        BY <1>8, <3>5, <4>1, <4>2
      <4>3. CASE k = Len(o) + 1
        BY <3>1, <3>5, <4>1, <4>3
      <4> QED BY <1>7, <3>6, <4>2, <4>3
    <3> QED BY <2>2, <3>1, <3>4, <3>5, <3>6, <3>7
  <2> QED BY <2>1, <2>2
<1> HIDE DEF w
<1>10. \A k \in 1..Len(w) : w[k].from \in Nat /\ w[k].to \in Nat /\ w[k].to < i
  <2>1. \A k \in 1..Len(w) : w[k].from \in Nat /\ w[k].to \in Nat
    BY <1>9 DEF Origins
  <2>2. s.next <= i
    BY <1>0, <1>3, <1>7
  <2>3. \A k \in 1..Len(w) : w[k].to < s.next
    BY <1>9
  <2> HIDE DEF w
  <2> QED BY <1>0, <1>7, <2>1, <2>2, <2>3
<1>11. \A k \in 1..Len(w), l \in 1..Len(q) : Ordered(w[k], q[l])
  BY <1>5, <1>10 DEF Ordered
<1>12. ASSUME w # <<>> PROVE Apart(raw, w[Len(w)], q[1])
  <2> DEFINE e == w[Len(w)]
             m == Len(w)
  <2>0. m \in 1..Len(w) /\ o # <<>> /\ 1 \in 1..Len(q)
    BY <1>5, <1>9, <1>12
  <2>1. Stands(raw, after, e) /\ e.to < i /\ e.to \in Nat /\ q[1].from = i
    <3> HIDE DEF m
    <3>1. Stands(raw, after, w[m]) /\ w[m].to < i /\ w[m].to \in Nat
      BY <1>9, <1>10, <2>0 DEF InPlace
    <3> QED BY <1>5, <2>0, <3>1 DEF m
  <2>2. ASSUME e.ch \in Plain, q[1].ch = "m" PROVE e.to + 1 < i
    <3>1. e.ch \notin {"s", "n"}
      BY <2>2 DEF Plain
    <3>2. ~ IsSpace(raw[e.from]) /\ e.from \in 1..Len(raw) /\ e.to = ClusterEnd(raw, e.from)
      BY <2>1, <3>1 DEF Stands
    <3>3. e.to = Len(raw) \/ raw[e.to + 1] # "m"
      <4> HIDE DEF e
      <4> QED BY <3>2, ClusterFacts
    <3>4. raw[i] = "m"
      BY <1>5, <2>2
    <3>5. e.to + 1 # i
      BY <1>0, <2>1, <3>3, <3>4
    <3> HIDE DEF e
    <3> QED BY <1>0, <2>1, <3>5
  <2> HIDE DEF e
  <2>3. Apart(raw, e, q[1])
    BY <1>3, <2>1, <2>2 DEF Apart
  <2> QED BY <2>3 DEF e
<1>13. w \o q \in Seq(Origins) /\ Len(w \o q) = Len(w) + Len(q) /\ InPlace(raw, after, w \o q)
  BY <1>5, <1>6, <1>9, <1>11, <1>12, AppendPlaced
<1>14. /\ \A k \in 1..Len(w) : (w \o q)[k] = w[k]
       /\ \A k \in (Len(w) + 1)..(Len(w) + Len(q)) : k - Len(w) \in 1..Len(q) /\ (w \o q)[k] = q[k - Len(w)]
  BY <1>5, <1>9
<1> DEFINE x == w \o q
<1>15. x \in Seq(Origins) /\ Len(w) \in Nat /\ Len(x) = Len(w) + Len(q) /\ Len(q) \in Nat /\ Len(q) >= 1
  BY <1>5, <1>7, <1>9, <1>13
<1> HIDE DEF x
<1>16. /\ \A k \in 1..Len(w) : x[k] = w[k]
       /\ \A k \in (Len(w) + 1)..Len(x) : x[k].from = i /\ x[k].to = j
  BY <1>5, <1>14, <1>15 DEF x
<1>17. ASSUME NEW k \in 1..Len(x) PROVE x[k].from <= i /\ x[k].to < j + 1
  <2>1. CASE k \in 1..Len(w)
    BY <1>0, <1>4, <1>9, <1>10, <1>16, <2>1
  <2>2. CASE k \in (Len(w) + 1)..Len(x)
    BY <1>0, <1>4, <1>16, <2>2
  <2> QED BY <1>15, <2>1, <2>2
<1>18. x # <<>> /\ ~ IsSpace(raw[x[1].from]) /\ ~ IsSpace(raw[x[Len(x)].from])
  <2>1. Len(x) \in (Len(w) + 1)..Len(x)
    BY <1>15
  <2>2. ~ IsSpace(raw[x[Len(x)].from])
    BY <1>3, <1>16, <2>1
  <2>3. CASE w = <<>>
    <3>1. 1 \in (Len(w) + 1)..Len(x)
      BY <1>15, <2>3
    <3> QED BY <1>3, <1>15, <1>16, <2>2, <3>1
  <2>4. CASE w # <<>>
    <3>1. o # <<>> /\ w[1] = o[1] /\ 1 \in 1..Len(w)
      BY <1>9, <2>4
    <3> QED BY <1>8, <1>15, <1>16, <2>2, <3>1
  <2> QED BY <2>3, <2>4
<1>19. ASSUME NEW k \in 1..Len(raw), k <= i \/ k < j + 1, ~ IsSpace(raw[k]), ~ Invisible(raw[k])
       PROVE  \E l \in 1..Len(x) : x[l].from <= k /\ k <= x[l].to
  <2>1. CASE k \in i..j
    <3>1. Len(x) \in 1..Len(x) /\ x[Len(x)].from = i /\ x[Len(x)].to = j
      BY <1>15, <1>16
    <3> QED BY <1>0, <1>4, <2>1, <3>1
  <2>2. CASE k <= i - 1
    <3>1. PICK l \in 1..Len(o) : o[l].from <= k /\ k <= o[l].to
      BY <1>8, <1>19, <2>2
    <3>2. l \in 1..Len(w) /\ w[l] = o[l]
      BY <1>7, <1>9
    <3>3. l \in 1..Len(x) /\ x[l] = o[l]
      BY <1>15, <1>16, <3>2
    <3> QED BY <3>1, <3>3
  <2> QED BY <1>0, <1>4, <1>19, <2>1, <2>2
<1>20. t.out = x /\ t.pending = <<>> /\ t.next = j + 1 /\ j + 1 >= 1
  BY <1>0, <1>2, <1>4 DEF x
<1>21. InPlace(raw, after, x)
  BY <1>13 DEF x
<1>22. /\ t.next >= 1 /\ t.pending = <<>> /\ InPlace(raw, after, t.out)
       /\ \A k \in 1..Len(t.out) : t.out[k].from <= i /\ t.out[k].to < t.next
       /\ t.out # <<>> => ~ IsSpace(raw[t.out[1].from]) /\ ~ IsSpace(raw[t.out[Len(t.out)].from])
       /\ \A k \in 1..Len(raw) :
            (k <= i \/ k < t.next) /\ ~ IsSpace(raw[k]) /\ ~ Invisible(raw[k]) =>
                \E l \in 1..Len(t.out) : t.out[l].from <= k /\ k <= t.out[l].to
  BY <1>17, <1>18, <1>19, <1>20, <1>21
<1> QED BY <1>22 DEF Sound, t

\* Nothing changes at a position that is skipped.
LEMMA SoundSkips ==
  ASSUME NEW raw \in Seq(Characters), NEW after, Normalizes(after, raw), NEW i \in 1..Len(raw),
         Sound(raw, after, i - 1), Skips(raw, after[i - 1], i)
  PROVE  Sound(raw, after, i)
<1> DEFINE s == after[i - 1]
           t == after[i]
<1>0. i \in Nat /\ i >= 1 /\ Len(raw) \in Nat /\ i - 1 \in 0..Len(raw)
  OBVIOUS
<1>1. s \in Progress /\ t = Normalized(raw, s, i) /\ Skips(raw, s, i)
  BY <1>0 DEF Normalizes
<1>2. t = s
  <2> HIDE DEF s
  <2> QED BY <1>1, StepFacts
<1>3. i < s.next \/ Invisible(raw[i])
  BY <1>1 DEF Skips
<1>4. /\ s.out \in Seq(Origins) /\ s.pending \in Seq(Origins) /\ s.next \in Nat
  BY <1>1 DEF Progress
<1>5. /\ \A k \in 1..Len(s.out) : s.out[k].from \in Nat
      /\ s.pending # <<>> => s.pending[1].from \in Nat
  <2> DEFINE o == s.out
             d == s.pending
  <2>1. \A k \in 1..Len(o) : o[k] \in Origins
    BY <1>4
  <2>2. d # <<>> => d[1] \in Origins
    BY <1>4
  <2> HIDE DEF o, d
  <2>3. (\A k \in 1..Len(o) : o[k].from \in Nat) /\ (d # <<>> => d[1].from \in Nat)
    BY <2>1, <2>2 DEF Origins
  <2> QED BY <2>3 DEF o, d
<1> HIDE DEF s, t
<1>6. Sound(raw, after, i - 1)
  OBVIOUS
<1> USE DEF s
<1>7. after[i] = after[i - 1]
  BY <1>2 DEF t
<1>8. ASSUME NEW k \in 1..Len(raw), k <= i \/ k < after[i - 1].next, ~ IsSpace(raw[k]), ~ Invisible(raw[k])
      PROVE  k <= i - 1 \/ k < after[i - 1].next
  BY <1>0, <1>3, <1>8
<1> DEFINE z == after[i - 1]
           o == z.out
           d == z.pending
<1>9. /\ z.next >= 1 /\ InPlace(raw, after, o)
      /\ o # <<>> => ~ IsSpace(raw[o[1].from]) /\ ~ IsSpace(raw[o[Len(o)].from])
  BY <1>6 DEF Sound
<1>10. d # <<>> =>
         /\ o # <<>> /\ Len(d) = 1 /\ IsSpace(raw[d[1].from]) /\ InPlace(raw, after, d)
         /\ d[1].from <= i /\ d[1].to < z.next
         /\ \A k \in 1..Len(o) : o[k].to < d[1].from
  <2> SUFFICES ASSUME d # <<>>
               PROVE  /\ o # <<>> /\ Len(d) = 1 /\ IsSpace(raw[d[1].from]) /\ InPlace(raw, after, d)
                      /\ d[1].from <= i /\ d[1].to < z.next
                      /\ \A k \in 1..Len(o) : o[k].to < d[1].from
    OBVIOUS
  <2>1. /\ o # <<>> /\ Len(d) = 1 /\ IsSpace(raw[d[1].from]) /\ InPlace(raw, after, d)
        /\ d[1].from <= i - 1 /\ d[1].to < z.next
        /\ \A k \in 1..Len(o) : o[k].to < d[1].from
    BY <1>6 DEF Sound
  <2>2. d[1].from \in Nat
    BY <1>5
  <2> HIDE DEF o, d, z
  <2>3. d[1].from <= i
    BY <1>0, <2>1, <2>2
  <2> QED BY <2>1, <2>3
<1>11. \A k \in 1..Len(o) : o[k].from <= i /\ o[k].to < z.next
  <2>1. \A k \in 1..Len(o) : o[k].from <= i - 1 /\ o[k].to < z.next /\ o[k].from \in Nat
    BY <1>5, <1>6 DEF Sound
  <2> HIDE DEF o, z
  <2> QED BY <1>0, <2>1
<1>12. \A k \in 1..Len(raw) :
         (k <= i \/ k < z.next) /\ ~ IsSpace(raw[k]) /\ ~ Invisible(raw[k]) =>
            \E l \in 1..Len(o) : o[l].from <= k /\ k <= o[l].to
  BY <1>6, <1>8 DEF Sound
<1> HIDE DEF o, d, z, s
<1>13. after[i] = z
  BY <1>7 DEF z
<1> QED BY <1>9, <1>10, <1>11, <1>12, <1>13 DEF Sound, o, d

\* So it is throughout.
LEMMA Soundness ==
  ASSUME NEW raw \in Seq(Characters), NEW after, Normalizes(after, raw)
  PROVE  \A i \in 0..Len(raw) : Sound(raw, after, i)
<1> DEFINE G == {i \in 0..Len(raw) : Sound(raw, after, i)}
<1>0. Len(raw) \in Nat
  OBVIOUS
<1>1. 0 \in G
  <2>1. after[0].out = <<>> /\ after[0].pending = <<>> /\ after[0].next = 1
    BY DEF Normalizes
  <2>2. InPlace(raw, after, <<>>)
    BY DEF InPlace
  <2>3. Sound(raw, after, 0)
    BY <1>0, <2>1, <2>2 DEF Sound
  <2> QED BY <1>0, <2>3
<1>2. ASSUME NEW i \in (0 + 1)..Len(raw), i - 1 \in G PROVE i \in G
  <2>1. i \in 1..Len(raw) /\ i \in 0..Len(raw) /\ Sound(raw, after, i - 1)
    BY <1>0, <1>2
  <2>2. Sound(raw, after, i)
    BY <2>1, SoundSkips, SoundSeparates, SoundTakes DEF Separates, Takes
  <2> QED BY <2>1, <2>2
<1>3. \A i \in 0..Len(raw) : i \in G
  <2> HIDE DEF G
  <2> QED BY <1>0, <1>1, <1>2, CountingUp
<1> QED BY <1>3

-----------------------------------------------------------------------------
(* Normalization: a part of the text is normalized like the text *)

\* What s becomes at i.
LEMMA StepOf ==
  ASSUME NEW raw \in Seq(Characters), NEW after, Normalizes(after, raw), NEW i \in 1..Len(raw)
  PROVE  /\ after[i - 1] \in Progress /\ after[i] \in Progress
         /\ Skips(raw, after[i - 1], i) => after[i] = after[i - 1]
         /\ Separates(raw, after[i - 1], i) =>
               /\ after[i].out = after[i - 1].out /\ after[i].next = SpaceEnd(raw, i) + 1
               /\ after[i - 1].out = <<>> => after[i].pending = after[i - 1].pending
               /\ after[i - 1].out # <<>> => \E ch \in {"s", "n"} :
                     after[i].pending = <<[ch |-> ch, from |-> i, to |-> SpaceEnd(raw, i)]>>
         /\ Takes(raw, after[i - 1], i) =>
               /\ after[i].out = after[i - 1].out \o after[i - 1].pending \o Pieces(raw, i)
               /\ after[i].pending = <<>> /\ after[i].next = ClusterEnd(raw, i) + 1
<1> DEFINE s == after[i - 1]
           t == after[i]
           u == Normalized(raw, s, i)
<1>0. i - 1 \in 0..Len(raw) /\ i \in 0..Len(raw)
  OBVIOUS
<1>1. s \in Progress /\ t \in Progress /\ t = u
  BY <1>0 DEF Normalizes
<1> HIDE DEF s, t
<1>2. /\ Skips(raw, s, i) => u = s
      /\ Separates(raw, s, i) =>
            /\ u.out = s.out /\ u.next = SpaceEnd(raw, i) + 1
            /\ s.out = <<>> => u.pending = s.pending
            /\ s.out # <<>> => \E ch \in {"s", "n"} :
                  u.pending = <<[ch |-> ch, from |-> i, to |-> SpaceEnd(raw, i)]>>
  BY <1>1, StepFacts
<1>3. ASSUME Takes(raw, s, i)
      PROVE  u.out = s.out \o s.pending \o Pieces(raw, i) /\ u.pending = <<>> /\ u.next = ClusterEnd(raw, i) + 1
  <2>1. u = [out |-> s.out \o s.pending \o Pieces(raw, i), pending |-> <<>>, next |-> ClusterEnd(raw, i) + 1]
    BY <1>1, <1>3, StepFacts
  <2> HIDE DEF u
  <2> QED BY <2>1
<1> HIDE DEF u
<1>4. /\ Skips(raw, s, i) => t = s
      /\ Separates(raw, s, i) =>
            /\ t.out = s.out /\ t.next = SpaceEnd(raw, i) + 1
            /\ s.out = <<>> => t.pending = s.pending
            /\ s.out # <<>> => \E ch \in {"s", "n"} :
                  t.pending = <<[ch |-> ch, from |-> i, to |-> SpaceEnd(raw, i)]>>
      /\ Takes(raw, s, i) =>
            t.out = s.out \o s.pending \o Pieces(raw, i) /\ t.pending = <<>> /\ t.next = ClusterEnd(raw, i) + 1
  BY <1>1, <1>2, <1>3
<1> QED BY <1>1, <1>4 DEF s, t

\* What has come out stays; what comes out later comes from later positions.
LEMMA LaterFacts ==
  ASSUME NEW raw \in Seq(Characters), NEW after, Normalizes(after, raw), NEW c \in 0..Len(raw),
         after[c].pending = <<>>
  PROVE  \A d \in c..Len(raw) :
            /\ Len(after[c].out) <= Len(after[d].out)
            /\ \A k \in 1..Len(after[c].out) : after[d].out[k] = after[c].out[k]
            /\ \A k \in (Len(after[c].out) + 1)..Len(after[d].out) : after[d].out[k].from > c
            /\ \A k \in 1..Len(after[d].pending) : after[d].pending[k].from > c
<1> DEFINE o == after[c].out
           m == Len(o)
           Holds(u, p) == /\ m <= Len(u) /\ \A k \in 1..m : u[k] = o[k]
                          /\ \A k \in (m + 1)..Len(u) : u[k].from > c
                          /\ \A k \in 1..Len(p) : p[k].from > c
           G == {d \in c..Len(raw) : Holds(after[d].out, after[d].pending)}
<1>0. /\ Len(raw) \in Nat /\ c \in Nat /\ c <= Len(raw)
      /\ \A i \in 0..Len(raw) : after[i] \in Progress
  BY DEF Normalizes
<1>01. \A i \in 0..Len(raw) : after[i].out \in Seq(Origins) /\ after[i].pending \in Seq(Origins)
  BY <1>0 DEF Progress
<1>02. o \in Seq(Origins) /\ m \in Nat
  BY <1>01
<1>1. c \in G
  <2>1. Len(after[c].pending) = 0
    OBVIOUS
  <2>2. Holds(after[c].out, after[c].pending)
    BY <1>02, <2>1
  <2> QED BY <1>0, <2>2
<1>2. ASSUME NEW i \in (c + 1)..Len(raw), i - 1 \in G PROVE i \in G
  <2> DEFINE s == after[i - 1]
             t == after[i]
  <2>1. i \in 1..Len(raw) /\ i \in c..Len(raw) /\ i - 1 \in 0..Len(raw) /\ i > c
    BY <1>0
  <2>2. Holds(s.out, s.pending)
    BY <1>2
  <2>3. s.out \in Seq(Origins) /\ s.pending \in Seq(Origins)
    BY <1>01, <2>1
  <2>4. CASE Skips(raw, s, i)
    <3>1. t = s
      BY <2>1, <2>4, StepOf
    <3> HIDE DEF Holds
    <3>2. Holds(t.out, t.pending)
      BY <2>2, <3>1
    <3> QED BY <2>1, <3>2
  <2>5. CASE Separates(raw, s, i)
    <3>1. /\ t.out = s.out
          /\ s.out = <<>> => t.pending = s.pending
          /\ s.out # <<>> => \E ch \in {"s", "n"} :
                t.pending = <<[ch |-> ch, from |-> i, to |-> SpaceEnd(raw, i)]>>
      BY <2>1, <2>5, StepOf
    <3>2. \A k \in 1..Len(t.pending) : t.pending[k].from > c
      <4>1. CASE s.out = <<>>
        BY <2>2, <3>1, <4>1
      <4>2. CASE s.out # <<>>
        <5> DEFINE p == t.pending
                   j == SpaceEnd(raw, i)
        <5>1. PICK ch \in {"s", "n"} : p = <<[ch |-> ch, from |-> i, to |-> j]>>
          BY <3>1, <4>2
        <5> HIDE DEF p, j
        <5>2. Len(p) = 1 /\ p[1].from = i
          BY <5>1
        <5>3. \A k \in 1..Len(p) : p[k].from > c
          BY <2>1, <5>2
        <5> QED BY <5>3 DEF p
      <4> QED BY <4>1, <4>2
    <3>3. Holds(t.out, t.pending)
      BY <2>2, <3>1, <3>2
    <3> HIDE DEF Holds
    <3> QED BY <2>1, <3>3
  <2>6. CASE Takes(raw, s, i)
    <3> DEFINE u == s.out
               p == s.pending
               q == Pieces(raw, i)
    <3>1. t.out = u \o p \o q /\ t.pending = <<>>
      BY <2>1, <2>6, StepOf
    <3>2. q \in Seq(Origins) /\ \A k \in 1..Len(q) : q[k].from = i
      BY <2>1, <2>6, PiecesFacts DEF Takes
    <3>3. u \in Seq(Origins) /\ p \in Seq(Origins) /\ Holds(u, p)
      BY <2>2, <2>3
    <3> HIDE DEF u, p, q, s, o
    <3> DEFINE x == u \o p \o q
    <3>4. /\ Len(u) \in Nat /\ Len(p) \in Nat /\ Len(q) \in Nat /\ Len(x) = Len(u) + Len(p) + Len(q)
          /\ \A k \in 1..Len(u) : x[k] = u[k]
          /\ \A k \in (Len(u) + 1)..(Len(u) + Len(p)) : x[k] = p[k - Len(u)]
          /\ \A k \in (Len(u) + Len(p) + 1)..Len(x) : x[k] = q[k - Len(u) - Len(p)]
      BY <3>2, <3>3
    <3> HIDE DEF x
    <3>5. ASSUME NEW k \in (m + 1)..Len(x) PROVE x[k].from > c
      <4>1. CASE k \in 1..Len(u)
        <5>1. k \in (m + 1)..Len(u)
          BY <1>02, <3>4, <4>1
        <5> QED BY <3>3, <3>4, <4>1, <5>1
      <4>2. CASE k \in (Len(u) + 1)..(Len(u) + Len(p))
        <5>1. k - Len(u) \in 1..Len(p)
          BY <3>4, <4>2
        <5> QED BY <3>3, <3>4, <4>2, <5>1
      <4>3. CASE k \in (Len(u) + Len(p) + 1)..Len(x)
        <5>1. k - Len(u) - Len(p) \in 1..Len(q)
          BY <3>4, <4>3
        <5> QED BY <2>1, <3>2, <3>4, <4>3, <5>1
      <4> QED BY <1>02, <3>4, <4>1, <4>2, <4>3
    <3>6. m <= Len(x) /\ \A k \in 1..m : x[k] = o[k]
      <4>1. m \in Nat /\ m <= Len(u) /\ \A k \in 1..m : u[k] = o[k]
        BY <1>02, <3>3
      <4> HIDE DEF m
      <4>2. m <= Len(x) /\ \A k \in 1..m : k \in 1..Len(u)
        BY <3>4, <4>1
      <4> QED BY <3>4, <4>1, <4>2
    <3> DEFINE none == <<>>
    <3>7. Len(none) = 0 /\ \A k \in 1..Len(none) : none[k].from > c
      OBVIOUS
    <3>8. t.out = x /\ t.pending = none
      BY <3>1 DEF x
    <3> HIDE DEF none
    <3>9. Holds(x, none)
      BY <3>5, <3>6, <3>7
    <3> HIDE DEF Holds
    <3>10. Holds(t.out, t.pending)
      BY <3>8, <3>9
    <3> QED BY <2>1, <3>10
  <2> QED BY <2>4, <2>5, <2>6 DEF Separates, Takes
<1>3. \A d \in c..Len(raw) : d \in G
  <2> HIDE DEF G
  <2> QED BY <1>0, <1>1, <1>2, CountingUp
<1> QED BY <1>3

\* A run or a cluster within a part of the text is one of the part.
LEMMA RunWithin ==
  ASSUME NEW raw \in Seq(Characters), NEW a \in 1..Len(raw), NEW b \in a..Len(raw), NEW i \in a..b, NEW S,
         EndOfRun(raw, i, S) <= b
  PROVE  /\ SubSeq(raw, a, b) \in Seq(Characters) /\ Len(SubSeq(raw, a, b)) = b - a + 1
         /\ EndOfRun(SubSeq(raw, a, b), i - a + 1, S) = EndOfRun(raw, i, S) - a + 1
<1> DEFINE part == SubSeq(raw, a, b)
           e == EndOfRun(raw, i, S)
           f == e - a + 1
           p == i - a + 1
<1>0. Len(raw) \in Nat /\ a \in Nat /\ b \in Nat /\ i \in Nat /\ a >= 1 /\ a <= b /\ b <= Len(raw) /\ a <= i /\ i <= b
  OBVIOUS
<1>1. part \in Seq(Characters) /\ Len(part) = b - a + 1 /\ \A k \in 1..Len(part) : part[k] = raw[a + k - 1]
  BY <1>0
<1>2. /\ e \in i..Len(raw) /\ e <= b
      /\ \A k \in (i + 1)..e : raw[k] \in S
      /\ e = Len(raw) \/ raw[e + 1] \notin S
  BY <1>0, RunFacts
<1> HIDE DEF part, e
<1>3. p \in 1..Len(part) /\ f \in p..Len(part)
  BY <1>0, <1>1, <1>2
<1>4. ASSUME NEW k \in (p + 1)..f PROVE part[k] \in S
  <2>1. k \in 1..Len(part) /\ a + k - 1 \in (i + 1)..e
    BY <1>0, <1>1, <1>2, <1>3
  <2> QED BY <1>1, <1>2, <2>1
<1>5. f = Len(part) \/ part[f + 1] \notin S
  <2> SUFFICES ASSUME f # Len(part) PROVE part[f + 1] \notin S
    OBVIOUS
  <2>1. f + 1 \in 1..Len(part) /\ a + (f + 1) - 1 = e + 1 /\ e # Len(raw)
    BY <1>0, <1>1, <1>2, <1>3
  <2> QED BY <1>1, <1>2, <2>1
<1> HIDE DEF f, p
<1>6. EndOfRun(part, p, S) = f
  BY <1>1, <1>3, <1>4, <1>5, RunIs
<1> QED BY <1>1, <1>6 DEF part, e, f, p

\* White space is collapsed into a line break or a space.
SpaceAt(raw, i) == IF \E k \in i..SpaceEnd(raw, i) : raw[k] = "n" THEN "n" ELSE "s"

\* The separator that becomes pending has the white space that it stands for.
LEMMA StepSpace ==
  ASSUME NEW raw \in Seq(Characters), NEW after, Normalizes(after, raw), NEW i \in 1..Len(raw),
         Separates(raw, after[i - 1], i), after[i - 1].out # <<>>
  PROVE  Len(after[i].pending) = 1 /\ after[i].pending[1].ch = SpaceAt(raw, i)
<1> DEFINE s == after[i - 1]
           t == after[i]
           j == SpaceEnd(raw, i)
           ch == IF \E k \in i..j : raw[k] = "n" THEN "n" ELSE "s"
           e == [ch |-> ch, from |-> i, to |-> j]
           x == j + 1
           p == IF s.out = <<>> THEN s.pending ELSE <<e>>
           u == [s EXCEPT !.next = x, !.pending = p]
<1>0. i - 1 \in 0..Len(raw)
  OBVIOUS
<1>1. s \in Progress /\ t = Normalized(raw, s, i)
  BY <1>0 DEF Normalizes
<1>2. Normalized(raw, s, i) = u
  BY DEF Separates, Skips, Normalized
<1> HIDE DEF ch, x
<1>3. p = <<e>>
  OBVIOUS
<1>4. u.pending = p
  <2> HIDE DEF p
  <2> QED BY <1>1 DEF Progress
<1> HIDE DEF u, t
<1>5. t.pending = <<e>>
  BY <1>1, <1>2, <1>3, <1>4
<1>6. e.ch = ch
  OBVIOUS
<1> HIDE DEF e
<1>7. Len(t.pending) = 1 /\ t.pending[1] = e
  BY <1>5
<1> HIDE DEF j
<1>8. ch = SpaceAt(raw, i)
  BY DEF SpaceAt, ch, j
<1> QED BY <1>6, <1>7, <1>8 DEF t

\* A part of the text, from one cluster to another.
Spanned(raw, a, b) ==
    /\ a \in 1..Len(raw) /\ b \in a..Len(raw)
    /\ raw[b] \notin {"s", "n", "z"} /\ (b = Len(raw) \/ raw[b + 1] # "m")

\* Within such a part, runs and clusters are those of the text.
LEMMA SpannedFacts ==
  ASSUME NEW raw \in Seq(Characters), NEW a, NEW b, Spanned(raw, a, b), NEW i \in a..b
  PROVE  LET part == SubSeq(raw, a, b)
             p == i - a + 1
         IN  /\ part \in Seq(Characters) /\ Len(part) = b - a + 1 /\ p \in 1..Len(part) /\ part[p] = raw[i]
             /\ ClusterEnd(raw, i) <= b /\ ClusterEnd(part, p) = ClusterEnd(raw, i) - a + 1
             /\ IsSpace(raw[i]) => /\ SpaceEnd(raw, i) <= b /\ SpaceEnd(part, p) = SpaceEnd(raw, i) - a + 1
                                   /\ SpaceAt(part, p) = SpaceAt(raw, i)
             /\ ~ IsSpace(raw[i]) =>
                   /\ Len(Pieces(part, p)) = Len(Pieces(raw, i))
                   /\ \A k \in 1..Len(Pieces(raw, i)) : Pieces(part, p)[k].ch = Pieces(raw, i)[k].ch
<1> DEFINE part == SubSeq(raw, a, b)
           p == i - a + 1
<1>0. /\ Len(raw) \in Nat /\ a \in 1..Len(raw) /\ b \in a..Len(raw) /\ a \in Nat /\ b \in Nat /\ i \in Nat
      /\ a <= i /\ i <= b /\ b <= Len(raw) /\ i \in 1..Len(raw) /\ a >= 1
  BY DEF Spanned
<1>1. /\ raw[b] \notin {"s", "n", "z"} /\ (b = Len(raw) \/ raw[b + 1] # "m")
  BY DEF Spanned
<1>2. part \in Seq(Characters) /\ Len(part) = b - a + 1 /\ \A k \in 1..Len(part) : part[k] = raw[a + k - 1]
  BY <1>0
<1> HIDE DEF part
<1>3. p \in 1..Len(part) /\ part[p] = raw[i]
  <2>1. p \in 1..Len(part) /\ a + p - 1 = i
    BY <1>0, <1>2
  <2> HIDE DEF p
  <2> QED BY <1>2, <2>1
<1>4. ClusterEnd(raw, i) <= b /\ ClusterEnd(raw, i) \in i..Len(raw)
  <2> DEFINE e == ClusterEnd(raw, i)
  <2>1. e \in i..Len(raw) /\ \A k \in (i + 1)..e : raw[k] = "m"
    BY <1>0, RunFacts DEF ClusterEnd
  <2> HIDE DEF e
  <2>2. ASSUME e > b PROVE FALSE
    <3>1. b + 1 \in (i + 1)..e /\ b # Len(raw)
      BY <1>0, <2>1, <2>2
    <3> QED BY <1>1, <2>1, <3>1
  <2>3. e <= b
    BY <1>0, <2>1, <2>2
  <2> QED BY <2>1, <2>3 DEF e
<1>5. ClusterEnd(part, p) = ClusterEnd(raw, i) - a + 1
  BY <1>0, <1>4, RunWithin DEF ClusterEnd, part
<1>6. ASSUME IsSpace(raw[i])
      PROVE  /\ SpaceEnd(raw, i) <= b /\ SpaceEnd(part, p) = SpaceEnd(raw, i) - a + 1
             /\ SpaceAt(part, p) = SpaceAt(raw, i)
  <2> DEFINE e == SpaceEnd(raw, i)
             f == SpaceEnd(part, p)
  <2>1. e \in i..Len(raw) /\ \A k \in (i + 1)..e : raw[k] \in {"s", "n", "z"}
    BY <1>0, RunFacts DEF SpaceEnd
  <2>2. e <= b
    <3> HIDE DEF e
    <3>1. ASSUME e > b PROVE FALSE
      <4>1. b # i
        BY <1>1, <1>6 DEF IsSpace
      <4>2. b \in (i + 1)..e
        BY <1>0, <2>1, <3>1, <4>1
      <4> QED BY <1>1, <2>1, <4>2
    <3> QED BY <1>0, <2>1, <3>1
  <2>3. f = e - a + 1
    BY <1>0, <2>2, RunWithin DEF SpaceEnd, part
  <2> HIDE DEF e, f, p
  <2>4. (\E k \in p..f : part[k] = "n") <=> \E k \in i..e : raw[k] = "n"
    <3>0. p = i - a + 1
      BY DEF p
    <3>1. ASSUME NEW k \in p..f, part[k] = "n" PROVE \E l \in i..e : raw[l] = "n"
      <4>1. k \in 1..Len(part) /\ a + k - 1 \in i..e
        BY <1>0, <1>2, <2>1, <2>2, <2>3, <3>0
      <4> QED BY <1>2, <3>1, <4>1
    <3>2. ASSUME NEW l \in i..e, raw[l] = "n" PROVE \E k \in p..f : part[k] = "n"
      <4>1. l - a + 1 \in p..f /\ l - a + 1 \in 1..Len(part) /\ a + (l - a + 1) - 1 = l
        BY <1>0, <1>2, <2>1, <2>2, <2>3, <3>0
      <4>2. part[l - a + 1] = raw[l]
        BY <1>2, <4>1
      <4> QED BY <3>2, <4>1, <4>2
    <3> QED BY <3>1, <3>2
  <2>5. SpaceAt(part, p) = SpaceAt(raw, i)
    BY <2>4 DEF SpaceAt, e, f
  <2> QED BY <2>2, <2>3, <2>5 DEF e, f, p
<1>7. ASSUME ~ IsSpace(raw[i])
      PROVE  /\ Len(Pieces(part, p)) = Len(Pieces(raw, i))
             /\ \A k \in 1..Len(Pieces(raw, i)) : Pieces(part, p)[k].ch = Pieces(raw, i)[k].ch
  <2> DEFINE j == ClusterEnd(raw, i)
             f == ClusterEnd(part, p)
             c == SubSeq(raw, i, j)
             d == SubSeq(part, p, f)
             w == NFKC(c)
  <2>1. c = d
    <3>1. j \in i..b /\ f = j - a + 1 /\ j \in Nat
      BY <1>0, <1>4, <1>5
    <3>2. c = [k \in 1..(j - i + 1) |-> raw[i + k - 1]]
      BY <1>0, <1>4
    <3>3. d = [k \in 1..(f - p + 1) |-> part[p + k - 1]]
      <4>1. f \in p..Len(part)
        BY <1>0, <1>2, <1>3, <3>1
      <4> HIDE DEF f, p
      <4> QED BY <1>2, <1>3, <4>1
    <3> HIDE DEF j, f, c, d
    <3>4. f - p + 1 = j - i + 1
      BY <1>0, <3>1
    <3>5. \A k \in 1..(j - i + 1) : part[p + k - 1] = raw[i + k - 1]
      <4> SUFFICES ASSUME NEW k \in 1..(j - i + 1) PROVE part[p + k - 1] = raw[i + k - 1]
        OBVIOUS
      <4>1. p + k - 1 \in 1..Len(part) /\ a + (p + k - 1) - 1 = i + k - 1
        BY <1>0, <1>2, <3>1
      <4> HIDE DEF p
      <4> QED BY <1>2, <4>1
    <3> HIDE DEF p
    <3> QED BY <3>2, <3>3, <3>4, <3>5
  <2>2. w \in Seq(Characters)
    <3>1. /\ j \in i..Len(raw) /\ c \in Seq(Characters) /\ c # <<>> /\ c[1] = raw[i] /\ \A k \in 2..Len(c) : c[k] = "m"
      BY <1>0, <1>7, ClusterFacts
    <3> HIDE DEF c
    <3> QED BY <1>7, <3>1, PieceFacts
  <2>3. /\ Pieces(raw, i) = [k \in DOMAIN w |-> [ch |-> w[k], from |-> i, to |-> j]]
        /\ Pieces(part, p) = [k \in DOMAIN w |-> [ch |-> w[k], from |-> p, to |-> f]]
    <3> HIDE DEF p, part
    <3>1. Pieces(raw, i) = [k \in DOMAIN w |-> [ch |-> w[k], from |-> i, to |-> j]]
      BY DEF Pieces
    <3>2. Pieces(part, p) = [k \in DOMAIN NFKC(d) |-> [ch |-> NFKC(d)[k], from |-> p, to |-> f]]
      BY DEF Pieces
    <3> HIDE DEF c, d, j, f
    <3> QED BY <2>1, <3>1, <3>2
  <2> HIDE DEF w, j, f, p, part
  <2>4. DOMAIN w = 1..Len(w) /\ Len(w) \in Nat
    BY <2>2
  <2>5. Len(Pieces(raw, i)) = Len(w) /\ Len(Pieces(part, p)) = Len(w)
    BY <2>3, <2>4
  <2>6. \A k \in 1..Len(w) : Pieces(raw, i)[k].ch = w[k] /\ Pieces(part, p)[k].ch = w[k]
    BY <2>3, <2>4
  <2> QED BY <2>5, <2>6
<1> QED BY <1>2, <1>3, <1>4, <1>5, <1>6, <1>7 DEF part, p

\* From m on, the one has the characters of the other.
SameChars(x, y, m) ==
    Len(x) = m + Len(y) /\ \A k \in 1..Len(y) : x[m + k].ch = y[k].ch

\* So they do when the same characters are appended.
LEMMA AppendSame ==
  ASSUME NEW x \in Seq(Origins), NEW y \in Seq(Origins), NEW u \in Seq(Origins), NEW v \in Seq(Origins),
         NEW m \in Nat, SameChars(x, y, m), SameChars(u, v, 0)
  PROVE  x \o u \in Seq(Origins) /\ y \o v \in Seq(Origins) /\ SameChars(x \o u, y \o v, m)
<1>1. /\ Len(x) \in Nat /\ Len(y) \in Nat /\ Len(u) \in Nat /\ Len(v) \in Nat
      /\ x \o u \in Seq(Origins) /\ y \o v \in Seq(Origins)
      /\ Len(x \o u) = Len(x) + Len(u) /\ Len(y \o v) = Len(y) + Len(v)
  OBVIOUS
<1>2. /\ \A k \in 1..Len(x) : (x \o u)[k] = x[k]
      /\ \A k \in (Len(x) + 1)..(Len(x) + Len(u)) : (x \o u)[k] = u[k - Len(x)]
      /\ \A k \in 1..Len(y) : (y \o v)[k] = y[k]
      /\ \A k \in (Len(y) + 1)..(Len(y) + Len(v)) : (y \o v)[k] = v[k - Len(y)]
  OBVIOUS
<1>3. /\ Len(x) = m + Len(y) /\ \A k \in 1..Len(y) : x[m + k].ch = y[k].ch
      /\ Len(u) = Len(v) /\ \A k \in 1..Len(v) : u[0 + k].ch = v[k].ch
  BY <1>1 DEF SameChars
<1> DEFINE p == x \o u
           q == y \o v
<1> HIDE DEF p, q
<1>4. ASSUME NEW k \in 1..Len(q) PROVE p[m + k].ch = q[k].ch
  <2>0. Len(q) = Len(y) + Len(v)
    BY <1>1 DEF q
  <2>1. CASE k \in 1..Len(y)
    <3>1. m + k \in 1..Len(x)
      BY <1>1, <1>3, <2>1
    <3> QED BY <1>2, <1>3, <2>1, <3>1 DEF p, q
  <2>2. CASE k \in (Len(y) + 1)..(Len(y) + Len(v))
    <3>1. /\ m + k \in (Len(x) + 1)..(Len(x) + Len(u)) /\ m + k - Len(x) = k - Len(y)
          /\ k - Len(y) \in 1..Len(v) /\ 0 + (k - Len(y)) = k - Len(y)
      BY <1>1, <1>3, <2>2
    <3>2. p[m + k] = u[k - Len(y)] /\ q[k] = v[k - Len(y)]
      <4>1. (x \o u)[m + k] = u[(m + k) - Len(x)]
        BY <1>2, <3>1
      <4>2. (y \o v)[k] = v[k - Len(y)]
        BY <1>2, <2>2
      <4>3. (m + k) - Len(x) = k - Len(y)
        BY <3>1
      <4> QED BY <4>1, <4>2, <4>3 DEF p, q
    <3>3. u[k - Len(y)].ch = v[k - Len(y)].ch
      BY <1>3, <3>1
    <3> QED BY <3>2, <3>3
  <2> QED BY <1>1, <2>0, <2>1, <2>2
<1>5. SameChars(p, q, m)
  <2>1. Len(p) = m + Len(q)
    BY <1>1, <1>3 DEF p, q
  <2> QED BY <1>4, <2>1 DEF SameChars
<1> QED BY <1>1, <1>5 DEF p, q

\* Lengths of concatenated normalized characters.
LEMMA Lengths ==
  ASSUME NEW u \in Seq(Origins), NEW v \in Seq(Origins)
  PROVE  /\ Len(u) \in Nat /\ Len(v) \in Nat /\ (u # <<>> <=> Len(u) > 0) /\ (v # <<>> <=> Len(v) > 0)
         /\ u \o v \in Seq(Origins) /\ Len(u \o v) = Len(u) + Len(v)
  OBVIOUS

\* A sum over something is not zero.
LEMMA MoreThanNothing ==
  ASSUME NEW m \in Nat, NEW x \in Nat, NEW y \in Nat, x = m + y, y > 0
  PROVE  x # 0
  OBVIOUS

\* The normalization of a part goes on like that of the text.
Alike(s, t, m, z) ==
    /\ t.out # <<>> /\ SameChars(s.out, t.out, m) /\ SameChars(s.pending, t.pending, 0)
    /\ s.next = t.next + z

\* From where the part begins, its normalization has the same characters out and pending.
LEMMA GoesOn ==
  ASSUME NEW raw \in Seq(Characters), NEW after, Normalizes(after, raw),
         NEW a, NEW b, Spanned(raw, a, b), Takes(raw, after[a - 1], a),
         NEW part, part = SubSeq(raw, a, b), NEW again, Normalizes(again, part), NEW m,
         m = Len(after[a - 1].out) + Len(after[a - 1].pending)
  PROVE  \A i \in a..b : Alike(after[i], again[i - a + 1], m, a - 1)
<1> DEFINE G == {i \in a..b : Alike(after[i], again[i - a + 1], m, a - 1)}
<1>0. /\ Len(raw) \in Nat /\ a \in Nat /\ b \in Nat /\ a >= 1 /\ a <= b /\ b <= Len(raw)
  BY DEF Spanned
<1>1. part \in Seq(Characters) /\ Len(part) = b - a + 1 /\ part[1] = raw[a]
  <2>1. a \in a..b /\ a - a + 1 = 1
    BY <1>0
  <2> QED BY <2>1, SpannedFacts
<1>2. /\ \A i \in 0..Len(raw) : after[i].out \in Seq(Origins) /\ after[i].pending \in Seq(Origins) /\ after[i].next \in Nat
      /\ \A p \in 0..Len(part) : again[p].out \in Seq(Origins) /\ again[p].pending \in Seq(Origins) /\ again[p].next \in Nat
  BY DEF Normalizes, Progress
<1>20. m \in Nat
  <2> DEFINE o == after[a - 1].out
             d == after[a - 1].pending
  <2>1. a - 1 \in 0..Len(raw)
    BY <1>0
  <2>2. o \in Seq(Origins) /\ d \in Seq(Origins)
    BY <1>2, <2>1
  <2>3. m = Len(o) + Len(d)
    OBVIOUS
  <2> HIDE DEF o, d
  <2>4. Len(o) \in Nat /\ Len(d) \in Nat
    BY <2>2, Lengths
  <2> DEFINE x == Len(o)
             y == Len(d)
  <2>5. x \in Nat /\ y \in Nat /\ m = x + y
    BY <2>3, <2>4
  <2> HIDE DEF x, y
  <2>6. x + y \in Nat
    BY <2>5
  <2> QED BY <2>5, <2>6
<1>3. ASSUME NEW i \in a..b, ~ IsSpace(raw[i])
      PROVE  /\ SameChars(Pieces(raw, i), Pieces(part, i - a + 1), 0)
             /\ Pieces(raw, i) \in Seq(Origins) /\ Pieces(part, i - a + 1) \in Seq(Origins)
             /\ Len(Pieces(part, i - a + 1)) \in Nat /\ Len(Pieces(part, i - a + 1)) >= 1
             /\ ClusterEnd(part, i - a + 1) = ClusterEnd(raw, i) - a + 1 /\ ClusterEnd(raw, i) \in Nat
  <2> DEFINE p == i - a + 1
             P == Pieces(raw, i)
             Q == Pieces(part, p)
  <2>1. i \in 1..Len(raw)
    BY <1>0
  <2>2. /\ p \in 1..Len(part) /\ part[p] = raw[i] /\ ClusterEnd(part, p) = ClusterEnd(raw, i) - a + 1
        /\ Len(Q) = Len(P) /\ \A k \in 1..Len(P) : Q[k].ch = P[k].ch
    BY <1>3, SpannedFacts
  <2>3. P \in Seq(Origins) /\ Len(P) \in Nat /\ Len(P) >= 1
    BY <1>3, <2>1, PiecesFacts
  <2> HIDE DEF p
  <2>4. Q \in Seq(Origins)
    BY <1>1, <1>3, <2>2, PiecesFacts
  <2>5. ClusterEnd(raw, i) \in Nat
    <3>1. ClusterEnd(raw, i) \in i..Len(raw)
      BY <1>3, <2>1, ClusterFacts
    <3> HIDE DEF P, Q
    <3> QED BY <1>0, <3>1
  <2> HIDE DEF P, Q
  <2>6. SameChars(P, Q, 0)
    <3>1. \A k \in 1..Len(Q) : 0 + k = k
      BY <2>2, <2>3
    <3> QED BY <2>2, <2>3, <3>1 DEF SameChars
  <2> QED BY <2>2, <2>3, <2>4, <2>5, <2>6 DEF p, P, Q
<1>4. a \in G
  <2> DEFINE o == after[a - 1].out
             d == after[a - 1].pending
             P == Pieces(raw, a)
             Q == Pieces(part, 1)
             w == o \o d
             none == <<>>
  <2>1. a \in 1..Len(raw) /\ a \in a..b /\ a - a + 1 = 1 /\ 1 \in 1..Len(part) /\ 1 - 1 = 0 /\ a - 1 \in 0..Len(raw)
    BY <1>0, <1>1
  <2>2. after[a].out = w \o P /\ after[a].pending = none /\ after[a].next = ClusterEnd(raw, a) + 1
    BY <2>1, StepOf
  <2>3. ~ IsSpace(raw[a]) /\ ~ Invisible(raw[a])
    BY DEF Takes, Skips
  <2>4. again[0].out = none /\ again[0].pending = none /\ again[0].next = 1
    BY DEF Normalizes
  <2>5. Takes(part, again[0], 1)
    BY <1>1, <2>3, <2>4 DEF Takes, Skips
  <2>6. again[1].out = again[0].out \o again[0].pending \o Q /\ again[1].pending = none /\ again[1].next = ClusterEnd(part, 1) + 1
    <3> DEFINE p == 1
    <3>1. p \in 1..Len(part) /\ p - 1 = 0 /\ Takes(part, again[p - 1], p)
      BY <2>1, <2>5
    <3> HIDE DEF p
    <3>2. /\ again[p].out = again[p - 1].out \o again[p - 1].pending \o Pieces(part, p)
          /\ again[p].pending = <<>> /\ again[p].next = ClusterEnd(part, p) + 1
      BY <1>1, <3>1, StepOf
    <3>3. p = 1
      BY DEF p
    <3> QED BY <3>1, <3>2, <3>3
  <2>7. /\ SameChars(P, Q, 0) /\ P \in Seq(Origins) /\ Q \in Seq(Origins) /\ Len(Q) \in Nat /\ Len(Q) >= 1
        /\ ClusterEnd(part, 1) = ClusterEnd(raw, a) - a + 1 /\ ClusterEnd(raw, a) \in Nat
    BY <1>3, <2>1, <2>3
  <2>8. w \in Seq(Origins) /\ Len(w) = m /\ m \in Nat
    <3>1. o \in Seq(Origins) /\ d \in Seq(Origins) /\ m = Len(o) + Len(d)
      BY <1>2, <2>1
    <3> HIDE DEF o, d
    <3>2. o \o d \in Seq(Origins) /\ Len(o \o d) = Len(o) + Len(d)
      BY <3>1, Lengths
    <3> QED BY <1>20, <3>1, <3>2
  <2>9. none \in Seq(Origins) /\ none \o Q = Q /\ none \o none = none /\ Len(none) = 0
    <3> HIDE DEF Q
    <3> QED BY <2>7
  <2> HIDE DEF w, P, Q, none
  <2>10. SameChars(w, none, m)
    BY <2>8, <2>9 DEF SameChars
  <2>11. SameChars(w \o P, none \o Q, m)
    BY <2>7, <2>8, <2>9, <2>10, AppendSame
  <2>12. SameChars(none, none, 0)
    BY <2>9 DEF SameChars
  <2>13. again[1].out = Q
    BY <2>4, <2>6, <2>9
  <2>14. Q # <<>>
    BY <2>7
  <2>15. after[a].next = again[1].next + (a - 1)
    BY <1>0, <2>2, <2>6, <2>7
  <2>16. Alike(after[a], again[1], m, a - 1)
    BY <2>2, <2>6, <2>9, <2>11, <2>12, <2>13, <2>14, <2>15 DEF Alike
  <2> QED BY <2>1, <2>16
<1>5. ASSUME NEW i \in (a + 1)..b, i - 1 \in G PROVE i \in G
  <2> DEFINE p == i - a + 1
             s == after[i - 1]
             t == again[p - 1]
  <2>1. /\ i \in 1..Len(raw) /\ i \in a..b /\ i - 1 \in 0..Len(raw) /\ (i - 1) - a + 1 = p - 1
        /\ p \in 1..Len(part) /\ p - 1 \in 0..Len(part) /\ i \in Nat /\ p \in Nat
    BY <1>0, <1>1
  <2>2. Alike(s, t, m, a - 1)
    BY <1>5, <2>1
  <2>3. /\ s.out \in Seq(Origins) /\ s.pending \in Seq(Origins) /\ s.next \in Nat
        /\ t.out \in Seq(Origins) /\ t.pending \in Seq(Origins) /\ t.next \in Nat /\ m \in Nat
    BY <1>2, <1>20, <2>1
  <2>4. /\ part[p] = raw[i]
        /\ IsSpace(raw[i]) => SpaceEnd(part, p) = SpaceEnd(raw, i) - a + 1 /\ SpaceAt(part, p) = SpaceAt(raw, i)
    <3>1. i \in a..b
      BY <2>1
    <3>2. SubSeq(raw, a, b)[i - a + 1] = raw[i]
      BY <3>1, SpannedFacts
    <3>3. IsSpace(raw[i]) => /\ SpaceEnd(SubSeq(raw, a, b), i - a + 1) = SpaceEnd(raw, i) - a + 1
                             /\ SpaceAt(SubSeq(raw, a, b), i - a + 1) = SpaceAt(raw, i)
      BY <3>1, SpannedFacts
    <3> QED BY <3>2, <3>3
  <2>5. i < s.next <=> p < t.next
    <3>1. s.next = t.next + (a - 1)
      BY <2>2 DEF Alike
    <3> HIDE DEF s, t
    <3> QED BY <1>0, <2>1, <2>3, <3>1
  <2>6. /\ Skips(raw, s, i) <=> Skips(part, t, p)
        /\ Separates(raw, s, i) <=> Separates(part, t, p)
        /\ Takes(raw, s, i) <=> Takes(part, t, p)
    <3> HIDE DEF s, t, p
    <3> QED BY <2>4, <2>5 DEF Skips, Separates, Takes
  <2>7. Alike(after[i], again[p], m, a - 1)
    <3>1. CASE Skips(raw, s, i)
      <4>1. after[i] = s
        BY <2>1, <3>1, StepOf
      <4>2. again[p] = t
        <5> HIDE DEF p
        <5> QED BY <1>1, <2>1, <2>6, <3>1, StepOf
      <4> QED BY <2>2, <4>1, <4>2
    <3>2. CASE Separates(raw, s, i)
      <4>0. s.out # <<>> /\ t.out # <<>>
        <5> HIDE DEF s, t
        <5>1. t.out # <<>> /\ Len(s.out) = m + Len(t.out)
          BY <2>2 DEF Alike, SameChars
        <5>2. Len(t.out) \in Nat /\ Len(t.out) # 0 /\ Len(s.out) # 0
          <6> DEFINE u == s.out
                     v == t.out
          <6>1. u \in Seq(Origins) /\ v \in Seq(Origins) /\ v # <<>> /\ Len(u) = m + Len(v)
            BY <2>3, <5>1
          <6> HIDE DEF u, v
          <6>2. Len(v) \in Nat /\ Len(v) # 0
            BY <6>1
          <6>3. Len(u) # 0
            <7>1. Len(u) \in Nat /\ Len(v) > 0
              BY <6>1, Lengths
            <7> DEFINE x == Len(u)
                       y == Len(v)
            <7>2. x \in Nat /\ y > 0 /\ x = m + y /\ y \in Nat
              BY <6>1, <6>2, <7>1
            <7> HIDE DEF x, y
            <7>3. x # 0
              BY <1>20, <7>2, MoreThanNothing
            <7> QED BY <7>3 DEF x
          <6> QED BY <6>2, <6>3 DEF u, v
        <5> QED BY <5>1, <5>2
      <4>1. /\ after[i].out = s.out /\ after[i].next = SpaceEnd(raw, i) + 1
            /\ Len(after[i].pending) = 1 /\ after[i].pending[1].ch = SpaceAt(raw, i)
        <5>1. Separates(raw, after[i - 1], i) /\ after[i - 1].out # <<>>
          BY <3>2, <4>0
        <5>2. after[i].out = after[i - 1].out /\ after[i].next = SpaceEnd(raw, i) + 1
          BY <2>1, <5>1, StepOf
        <5>3. Len(after[i].pending) = 1 /\ after[i].pending[1].ch = SpaceAt(raw, i)
          BY <2>1, <5>1, StepSpace
        <5> QED BY <5>2, <5>3
      <4>2. /\ again[p].out = t.out /\ again[p].next = SpaceEnd(part, p) + 1
            /\ Len(again[p].pending) = 1 /\ again[p].pending[1].ch = SpaceAt(part, p)
        <5>1. Separates(part, again[p - 1], p) /\ again[p - 1].out # <<>>
          BY <2>6, <3>2, <4>0
        <5>2. p \in 1..Len(part)
          BY <2>1
        <5> HIDE DEF p
        <5>3. again[p].out = again[p - 1].out /\ again[p].next = SpaceEnd(part, p) + 1
          <6>1. Separates(part, again[p - 1], p) =>
                   again[p].out = again[p - 1].out /\ again[p].next = SpaceEnd(part, p) + 1
            BY <1>1, <5>2, StepOf
          <6> QED BY <5>1, <6>1
        <5>4. Len(again[p].pending) = 1 /\ again[p].pending[1].ch = SpaceAt(part, p)
          BY <1>1, <5>1, <5>2, StepSpace
        <5> QED BY <5>3, <5>4
      <4>3. SpaceEnd(part, p) = SpaceEnd(raw, i) - a + 1 /\ SpaceAt(part, p) = SpaceAt(raw, i) /\ SpaceEnd(raw, i) \in Nat
        <5>1. SpaceEnd(raw, i) \in i..Len(raw)
          BY <2>1, RunFacts DEF SpaceEnd
        <5>2. SpaceEnd(raw, i) \in Nat
          BY <1>0, <2>1, <5>1
        <5>3. IsSpace(raw[i])
          BY <3>2 DEF Separates
        <5> QED BY <2>4, <5>2, <5>3
      <4>4. SameChars(after[i].pending, again[p].pending, 0)
        <5>1. \A k \in 1..1 : 0 + k = 1 /\ k = 1
          OBVIOUS
        <5> QED BY <4>1, <4>2, <4>3, <5>1 DEF SameChars
      <4>5. after[i].next = again[p].next + (a - 1)
        BY <1>0, <4>1, <4>2, <4>3
      <4>6. SameChars(after[i].out, again[p].out, m) /\ again[p].out # <<>>
        BY <2>2, <4>0, <4>1, <4>2 DEF Alike
      <4> QED BY <4>4, <4>5, <4>6 DEF Alike
    <3>3. CASE Takes(raw, s, i)
      <4> DEFINE P == Pieces(raw, i)
                 Q == Pieces(part, p)
                 none == <<>>
      <4>1. after[i].out = s.out \o s.pending \o P /\ after[i].pending = none /\ after[i].next = ClusterEnd(raw, i) + 1
        BY <2>1, <3>3, StepOf
      <4>2. again[p].out = t.out \o t.pending \o Q /\ again[p].pending = none /\ again[p].next = ClusterEnd(part, p) + 1
        <5> HIDE DEF p
        <5>1. p \in 1..Len(part) /\ Takes(part, again[p - 1], p)
          BY <2>1, <2>6, <3>3
        <5> HIDE DEF t, Q, none
        <5>2. /\ again[p].out = again[p - 1].out \o again[p - 1].pending \o Pieces(part, p)
              /\ again[p].pending = <<>> /\ again[p].next = ClusterEnd(part, p) + 1
          BY <1>1, <5>1, StepOf
        <5> QED BY <5>2 DEF t, Q, none
      <4>3. /\ SameChars(P, Q, 0) /\ P \in Seq(Origins) /\ Q \in Seq(Origins) /\ Len(Q) \in Nat /\ Len(Q) >= 1
            /\ ClusterEnd(part, p) = ClusterEnd(raw, i) - a + 1 /\ ClusterEnd(raw, i) \in Nat
        BY <1>3, <2>1, <3>3 DEF Takes
      <4> HIDE DEF P, Q, s, t, p
      <4>4. /\ SameChars(s.out \o s.pending, t.out \o t.pending, m)
            /\ s.out \o s.pending \in Seq(Origins) /\ t.out \o t.pending \in Seq(Origins)
        BY <2>2, <2>3, AppendSame DEF Alike
      <4>5. SameChars(s.out \o s.pending \o P, t.out \o t.pending \o Q, m)
        BY <2>3, <4>3, <4>4, AppendSame
      <4>6. t.out \o t.pending \o Q # <<>>
        <5> DEFINE y == t.out \o t.pending
        <5>1. y \in Seq(Origins)
          BY <4>4
        <5> HIDE DEF y
        <5>2. Len(y \o Q) = Len(y) + Len(Q) /\ Len(y) \in Nat
          BY <4>3, <5>1
        <5>3. y \o Q # <<>>
          BY <4>3, <5>2
        <5> QED BY <5>3 DEF y
      <4>7. SameChars(none, none, 0)
        BY DEF SameChars
      <4>8. after[i].next = again[p].next + (a - 1)
        BY <1>0, <4>1, <4>2, <4>3
      <4> HIDE DEF none
      <4> QED BY <4>1, <4>2, <4>5, <4>6, <4>7, <4>8 DEF Alike
    <3> QED BY <3>1, <3>2, <3>3 DEF Separates, Takes
  <2> QED BY <2>1, <2>7
<1>6. \A i \in a..b : i \in G
  <2> HIDE DEF G
  <2> QED BY <1>0, <1>4, <1>5, CountingUp
<1> QED BY <1>6

\* Where the elements of a concatenation come from.
LEMMA ConcatAt ==
  ASSUME NEW u \in Seq(Origins), NEW v \in Seq(Origins)
  PROVE  /\ Len(u) \in Nat /\ Len(v) \in Nat /\ Len(u \o v) = Len(u) + Len(v)
         /\ \A k \in 1..Len(u) : (u \o v)[k] = u[k]
         /\ \A k \in 1..Len(v) : (u \o v)[Len(u) + k] = v[k]
<1>1. Len(u) \in Nat /\ Len(v) \in Nat /\ Len(u \o v) = Len(u) + Len(v) /\ \A k \in 1..Len(u) : (u \o v)[k] = u[k]
  OBVIOUS
<1>2. ASSUME NEW k \in 1..Len(v) PROVE (u \o v)[Len(u) + k] = v[k]
  OBVIOUS
<1> QED BY <1>1, <1>2

\* A cluster that is taken is out at its end.
LEMMA TakenFacts ==
  ASSUME NEW raw \in Seq(Characters), NEW after, Normalizes(after, raw), NEW f \in 1..Len(raw),
         Takes(raw, after[f - 1], f)
  PROVE  LET b == ClusterEnd(raw, f)
         IN  /\ b \in f..Len(raw) /\ after[b] = after[f] /\ after[f].pending = <<>> /\ after[f].next = b + 1
             /\ raw[b] \notin {"s", "n", "z"} /\ (b = Len(raw) \/ raw[b + 1] # "m")
<1> DEFINE b == ClusterEnd(raw, f)
           G == {k \in f..b : after[k] = after[f]}
<1>0. Len(raw) \in Nat /\ f \in Nat /\ f >= 1 /\ f <= Len(raw)
  OBVIOUS
<1>1. ~ IsSpace(raw[f]) /\ ~ Invisible(raw[f])
  BY DEF Takes, Skips
<1>2. b \in f..Len(raw) /\ (\A k \in (f + 1)..b : raw[k] = "m") /\ (b = Len(raw) \/ raw[b + 1] # "m")
  BY <1>1, ClusterFacts
<1>3. after[f].pending = <<>> /\ after[f].next = b + 1
  BY StepOf
<1> HIDE DEF b
<1>4. f \in G
  BY <1>0, <1>2
<1>5. ASSUME NEW k \in (f + 1)..b, k - 1 \in G PROVE k \in G
  <2>1. k \in 1..Len(raw) /\ k \in f..b /\ after[k - 1] = after[f] /\ k < b + 1
    BY <1>0, <1>2, <1>5
  <2>2. Skips(raw, after[k - 1], k)
    BY <1>3, <2>1 DEF Skips
  <2>3. after[k] = after[k - 1]
    BY <2>1, <2>2, StepOf
  <2> QED BY <2>1, <2>3
<1>6. b \in G
  <2>0. f \in Nat /\ b \in Nat /\ \A k \in (f + 1)..b : k - 1 \in G => k \in G
    BY <1>0, <1>2, <1>5
  <2> HIDE DEF G
  <2>1. \A k \in f..b : k \in G
    BY <1>4, <2>0, CountingUp
  <2> QED BY <1>0, <1>2, <2>1
<1>7. raw[b] \notin {"s", "n", "z"}
  <2>1. CASE b = f
    BY <1>1, <2>1 DEF IsSpace, Invisible
  <2>2. CASE b # f
    <3>1. b \in (f + 1)..b
      BY <1>0, <1>2, <2>2
    <3> QED BY <1>2, <3>1
  <2> QED BY <2>1, <2>2
<1> QED BY <1>2, <1>3, <1>6, <1>7 DEF b

\* A span of whole clusters.
Whole(raw, n, i, j) ==
    /\ i = 1 \/ n[i - 1].from # n[i].from
    /\ j = Len(n) \/ n[j + 1].from # n[j].from
    /\ ~ IsSpace(raw[n[i].from]) /\ ~ IsSpace(raw[n[j].from])

\* Normalizing what is behind a span of whole clusters gives the span again.
LEMMA SpanAgain ==
  ASSUME NEW raw \in Seq(Characters), NEW after, Normalizes(after, raw),
         NEW n, n = after[Len(raw)].out, NEW i \in 1..Len(n), NEW j \in i..Len(n), Whole(raw, n, i, j)
  PROVE  Text(normalize(SubSeq(raw, n[i].from, n[j].to))) = SubSeq(Text(n), i, j)
<1> DEFINE a == n[i].from
           f == n[j].from
           b == n[j].to
           N == Len(n)
<1>00. /\ i = 1 \/ n[i - 1].from # n[i].from
       /\ j = Len(n) \/ n[j + 1].from # n[j].from
       /\ ~ IsSpace(raw[n[i].from]) /\ ~ IsSpace(raw[n[j].from])
  BY DEF Whole
<1>0. Len(raw) \in Nat /\ Len(raw) \in 0..Len(raw)
  OBVIOUS
<1>1. \A c \in 0..Len(raw) : after[c].out \in Seq(Origins) /\ after[c].pending \in Seq(Origins)
  BY DEF Normalizes, Progress
<1>2. n \in Seq(Origins) /\ N \in Nat
  <2>1. n \in Seq(Origins)
    BY <1>0, <1>1
  <2> QED BY <2>1, Lengths
<1>3. \A c \in 0..Len(raw) : Sound(raw, after, c)
  BY Soundness
<1>4. /\ \A k \in 1..N : Stands(raw, after, n[k])
      /\ \A k \in 1..N, l \in 1..N : k < l => Ordered(n[k], n[l])
  BY <1>0, <1>3 DEF Sound, InPlace
<1>5. i \in 1..N /\ j \in 1..N /\ i \in Nat /\ j \in Nat /\ i <= j /\ j <= N /\ i >= 1
  BY <1>2
<1>6. /\ a \in 1..Len(raw) /\ Takes(raw, after[a - 1], a)
      /\ f \in 1..Len(raw) /\ Takes(raw, after[f - 1], f) /\ b = ClusterEnd(raw, f)
  BY <1>00, <1>4, <1>5 DEF Stands
<1>7. \A k \in 1..N : n[k].from \in Nat /\ n[k].to \in Nat /\ n[k].from <= n[k].to /\ n[k].to <= Len(raw)
  BY <1>0, <1>4 DEF Stands
<1> HIDE DEF N
<1>8. a <= f
  <2>1. CASE i = j
    BY <1>5, <1>7, <2>1
  <2>2. CASE i < j
    <3>1. Ordered(n[i], n[j])
      BY <1>4, <1>5, <2>2
    <3> QED BY <1>5, <1>7, <3>1 DEF Ordered
  <2> QED BY <1>5, <2>1, <2>2
<1>9. /\ b \in f..Len(raw) /\ after[b] = after[f] /\ after[f].pending = <<>> /\ after[f].next = b + 1
      /\ raw[b] \notin {"s", "n", "z"} /\ (b = Len(raw) \/ raw[b + 1] # "m")
  <2> HIDE DEF f, b
  <2> QED BY <1>6, TakenFacts
<1> HIDE DEF a, f, b
<1>10. a \in Nat /\ b \in Nat /\ f \in Nat /\ a >= 1 /\ f <= b /\ b <= Len(raw) /\ b \in 0..Len(raw) /\ a - 1 \in 0..Len(raw) /\ a \in 0..Len(raw)
  BY <1>0, <1>6, <1>9
<1>11. Spanned(raw, a, b)
  <2>1. a \in 1..Len(raw) /\ b \in a..Len(raw)
    BY <1>0, <1>6, <1>8, <1>10
  <2> QED BY <1>9, <2>1 DEF Spanned
\* All of the clusters up to the last one, and no other, are out at its end.
<1>12. Len(after[b].out) = j /\ \A k \in 1..j : n[k] = after[b].out[k]
  <2> DEFINE u == after[b].out
             J == Len(u)
  <2>1. u \in Seq(Origins) /\ J \in Nat
    <3>1. u \in Seq(Origins)
      BY <1>1, <1>10
    <3> QED BY <3>1, Lengths
  <2>2. /\ J <= N /\ (\A k \in 1..J : n[k] = u[k]) /\ \A k \in (J + 1)..N : n[k].from > b
    <3>1. Len(raw) \in b..Len(raw)
      BY <1>0, <1>10
    <3>2. after[b].pending = <<>>
      BY <1>9
    <3> DEFINE c == Len(raw)
    <3>3. c \in b..Len(raw) /\ n = after[c].out
      BY <3>1
    <3> HIDE DEF u, J, c
    <3>4. /\ Len(after[b].out) <= Len(after[c].out)
          /\ \A k \in 1..Len(after[b].out) : after[c].out[k] = after[b].out[k]
          /\ \A k \in (Len(after[b].out) + 1)..Len(after[c].out) : after[c].out[k].from > b
      BY <1>10, <3>2, <3>3, LaterFacts
    <3> QED BY <3>3, <3>4 DEF N, u, J
  <2>3. \A k \in 1..J : u[k].from <= b
    <3>1. Sound(raw, after, b)
      BY <1>3, <1>10
    <3> QED BY <3>1 DEF Sound
  <2> HIDE DEF u, J
  <2>4. j <= J
    <3>1. ASSUME j > J PROVE FALSE
      <4>1. j \in (J + 1)..N
        BY <1>2, <1>5, <2>1, <3>1
      <4>2. n[j].from > b
        BY <2>2, <4>1
      <4> QED BY <1>10, <4>2 DEF f
    <3> QED BY <1>5, <2>1, <3>1
  <2>5. ASSUME j < J PROVE FALSE
    <3>1. j + 1 \in 1..J /\ j + 1 \in 1..N /\ j # N /\ j < j + 1
      BY <1>2, <1>5, <2>1, <2>2, <2>5
    <3>2. n[j + 1].from <= b
      <4>1. n[j + 1] = u[j + 1] /\ u[j + 1].from <= b
        BY <2>2, <2>3, <3>1
      <4> QED BY <4>1
    <3>3. n[j + 1].from # n[j].from
      BY <1>00, <3>1 DEF N
    <3>4. Ordered(n[j], n[j + 1])
      BY <1>4, <1>5, <3>1
    <3>5. n[j].to < n[j + 1].from
      BY <3>3, <3>4 DEF Ordered
    <3>6. n[j + 1].from \in Nat
      BY <1>7, <3>1
    <3>7. b < n[j + 1].from
      BY <3>5 DEF b
    <3> QED BY <1>10, <3>2, <3>6, <3>7
  <2>6. J = j
    BY <1>5, <2>1, <2>4, <2>5
  <2> QED BY <2>2, <2>6 DEF u, J
\* What is out or pending before the first one is what comes before the span.
<1> DEFINE o == after[a - 1].out
           d == after[a - 1].pending
           m == Len(o) + Len(d)
           P == Pieces(raw, a)
           w == o \o d
<1>13. o \in Seq(Origins) /\ d \in Seq(Origins)
  BY <1>1, <1>10
<1>14. /\ after[a].out = w \o P /\ after[a].pending = <<>>
  BY <1>6, StepOf
<1>15. P \in Seq(Origins) /\ Len(P) \in Nat /\ Len(P) >= 1 /\ \A k \in 1..Len(P) : P[k].from = a
  <2>1. ~ IsSpace(raw[a])
    BY <1>6 DEF Takes
  <2> QED BY <1>6, <2>1, PiecesFacts
<1>16. /\ \A k \in 1..Len(o) : o[k].from <= a - 1
       /\ \A k \in 1..Len(d) : d[k].from <= a - 1
  <2>1. Sound(raw, after, a - 1)
    BY <1>3, <1>10
  <2>2. \A k \in 1..Len(o) : o[k].from <= a - 1
    BY <2>1 DEF Sound
  <2>3. d # <<>> => Len(d) = 1 /\ d[1].from <= a - 1
    BY <2>1 DEF Sound
  <2>4. d = <<>> => Len(d) = 0
    OBVIOUS
  <2>5. ASSUME NEW k \in 1..Len(d) PROVE d[k].from <= a - 1
    <3> HIDE DEF d
    <3>0. CASE d = <<>>
      BY <2>4, <2>5, <3>0
    <3>1. CASE d # <<>>
      <4>1. Len(d) = 1 /\ d[1].from <= a - 1
        BY <2>3, <3>1
      <4>2. \A l \in 1..1 : l = 1
        OBVIOUS
      <4>3. k = 1
        BY <2>5, <4>1, <4>2, Zenon
      <4> QED BY <4>1, <4>3
    <3> QED BY <3>0, <3>1
  <2> QED BY <2>2, <2>5
<1>17. /\ Len(after[a].out) <= N
       /\ \A k \in 1..Len(after[a].out) : n[k] = after[a].out[k]
  <2>1. Len(raw) \in a..Len(raw)
    BY <1>0, <1>10
  <2> DEFINE c == Len(raw)
  <2>2. c \in a..Len(raw) /\ n = after[c].out /\ after[a].pending = <<>>
    BY <1>14, <2>1
  <2> HIDE DEF c
  <2>3. /\ Len(after[a].out) <= Len(after[c].out)
        /\ \A k \in 1..Len(after[a].out) : after[c].out[k] = after[a].out[k]
    BY <1>10, <2>2, LaterFacts
  <2> QED BY <2>2, <2>3 DEF N
<1> HIDE DEF o, d, P
<1>18. /\ w \in Seq(Origins) /\ Len(w) = m /\ m \in Nat
       /\ \A k \in 1..m : w[k].from <= a - 1
  <2>1. w \in Seq(Origins) /\ Len(w) = m /\ Len(o) \in Nat /\ Len(d) \in Nat /\ m \in Nat
    BY <1>13, Lengths
  <2>2. /\ \A k \in 1..Len(o) : w[k] = o[k]
        /\ \A k \in (Len(o) + 1)..(Len(o) + Len(d)) : k - Len(o) \in 1..Len(d) /\ w[k] = d[k - Len(o)]
    BY <1>13, <2>1
  <2> HIDE DEF w
  <2>3. ASSUME NEW k \in 1..m PROVE w[k].from <= a - 1
    <3>1. CASE k \in 1..Len(o)
      BY <1>16, <2>2, <3>1
    <3>2. CASE k \in (Len(o) + 1)..(Len(o) + Len(d))
      <4>1. k - Len(o) \in 1..Len(d) /\ w[k] = d[k - Len(o)]
        BY <2>2, <3>2
      <4>2. d[k - Len(o)].from <= a - 1
        BY <1>16, <4>1
      <4> QED BY <4>1, <4>2
    <3> QED BY <2>1, <3>1, <3>2
  <2> QED BY <2>1, <2>3
<1> HIDE DEF w, m
<1>19. m + 1 \in 1..N /\ n[m + 1].from = a /\ \A k \in 1..m : n[k].from <= a - 1
  <2> DEFINE x == w \o P
  <2>1. /\ Len(x) = m + Len(P) /\ (\A k \in 1..m : x[k] = w[k])
        /\ \A k \in 1..Len(P) : x[m + k] = P[k]
    <3>1. /\ Len(x) = Len(w) + Len(P) /\ (\A k \in 1..Len(w) : x[k] = w[k])
          /\ \A k \in 1..Len(P) : x[Len(w) + k] = P[k]
      <4> HIDE DEF x
      <4> QED BY <1>15, <1>18, ConcatAt DEF x
    <3> HIDE DEF x
    <3> QED BY <1>18, <3>1
  <2>2. Len(x) <= N /\ \A k \in 1..Len(x) : n[k] = x[k]
    BY <1>14, <1>17
  <2> HIDE DEF x
  <2>3. 1 \in 1..Len(P) /\ m + 1 \in 1..Len(x) /\ m + 1 \in 1..N
    BY <1>2, <1>15, <1>18, <2>1, <2>2
  <2>4. x[m + 1] = P[1] /\ P[1].from = a
    BY <1>15, <2>1, <2>3
  <2>5. n[m + 1].from = a
    BY <2>2, <2>3, <2>4
  <2>6. ASSUME NEW k \in 1..m PROVE n[k].from <= a - 1
    <3>1. k \in 1..Len(x)
      BY <1>15, <1>18, <2>1
    <3>2. n[k] = w[k]
      BY <2>1, <2>2, <3>1
    <3> QED BY <1>18, <3>2
  <2> QED BY <2>3, <2>5, <2>6
<1>20. i = m + 1
  <2>1. i > m
    <3>1. ASSUME i <= m PROVE FALSE
      <4>1. i \in 1..m
        BY <1>5, <1>18, <3>1
      <4>2. n[i].from <= a - 1
        BY <1>19, <4>1
      <4>3. a <= a - 1
        BY <4>2 DEF a
      <4> QED BY <1>10, <4>3
    <3> QED BY <1>5, <1>18, <3>1
  <2>2. ASSUME i > m + 1 PROVE FALSE
    <3>1. i - 1 \in 1..N /\ i # 1 /\ m + 1 <= i - 1 /\ i - 1 < i
      BY <1>2, <1>5, <1>18, <2>2
    <3>2. n[i - 1].from # a
      BY <1>00, <3>1 DEF a
    <3>3. m + 1 < i - 1
      BY <1>5, <1>18, <1>19, <3>1, <3>2
    <3>4. Ordered(n[m + 1], n[i - 1]) /\ Ordered(n[i - 1], n[i])
      BY <1>4, <1>5, <1>19, <3>1, <3>3
    <3>5. n[m + 1].to < n[i - 1].from
      BY <1>19, <3>2, <3>4 DEF Ordered
    <3>6. n[i - 1].to < a
      BY <3>2, <3>4 DEF Ordered, a
    <3>7. /\ n[m + 1].to \in Nat /\ a <= n[m + 1].to
          /\ n[i - 1].from \in Nat /\ n[i - 1].to \in Nat /\ n[i - 1].from <= n[i - 1].to
      BY <1>7, <1>19, <3>1
    <3> DEFINE p == n[m + 1].to
               q == n[i - 1].from
               y == n[i - 1].to
    <3>8. p < q /\ y < a /\ a <= p /\ q <= y /\ p \in Nat /\ q \in Nat /\ y \in Nat
      BY <3>5, <3>6, <3>7
    <3> HIDE DEF p, q, y
    <3> QED BY <1>10, <3>8
  <2> QED BY <1>5, <1>18, <2>1, <2>2
\* The part is normalized like the text that it is of.
<1> DEFINE part == SubSeq(raw, a, b)
<1>21. part \in Seq(Characters) /\ Len(part) = b - a + 1
  <2>1. a \in a..b
    BY <1>8, <1>10
  <2> QED BY <1>11, <2>1, SpannedFacts
<1> HIDE DEF part
<1>22. PICK again : Normalizes(again, part) /\ normalize(part) = again[Len(part)].out
  BY <1>21, NormalizationExists
<1> DEFINE x == normalize(part)
           u == after[b].out
<1>23. SameChars(u, x, m)
  <2>1. b \in a..b
    BY <1>8, <1>10
  <2>2. \A k \in a..b : Alike(after[k], again[k - a + 1], m, a - 1)
    <3>1. part = SubSeq(raw, a, b) /\ m = Len(after[a - 1].out) + Len(after[a - 1].pending)
      BY DEF part, m, o, d
    <3> QED BY <1>6, <1>11, <1>22, <3>1, GoesOn
  <2>3. Alike(after[b], again[Len(part)], m, a - 1)
    BY <1>21, <2>1, <2>2
  <2> QED BY <1>22, <2>3 DEF Alike
<1>24. x \in Seq(Origins) /\ Len(x) \in Nat
  <2>1. Len(part) \in 0..Len(part)
    BY <1>21
  <2>2. x \in Seq(Origins)
    <3>1. again[Len(part)] \in Progress
      BY <1>22, <2>1 DEF Normalizes
    <3>2. again[Len(part)].out \in Seq(Origins)
      BY <3>1 DEF Progress
    <3> QED BY <1>22, <3>2
  <2> QED BY <2>2, Lengths
<1> HIDE DEF x, u
<1>25. Len(x) = j - i + 1 /\ \A k \in 1..Len(x) : x[k].ch = n[i + k - 1].ch
  <2>1. Len(u) = j /\ Len(u) = m + Len(x) /\ \A k \in 1..Len(x) : u[m + k].ch = x[k].ch
    BY <1>12, <1>23 DEF SameChars, u
  <2>2. Len(x) = j - i + 1
    BY <1>5, <1>18, <1>20, <1>24, <2>1
  <2>3. ASSUME NEW k \in 1..Len(x) PROVE x[k].ch = n[i + k - 1].ch
    <3>1. m + k \in 1..j /\ m + k = i + k - 1
      BY <1>5, <1>18, <1>20, <1>24, <2>1
    <3>2. n[m + k] = u[m + k]
      BY <1>12, <3>1 DEF u
    <3> QED BY <2>1, <3>1, <3>2
  <2> QED BY <2>2, <2>3
<1>26. Text(x) = [k \in 1..(j - i + 1) |-> n[i + k - 1].ch]
  <2>1. DOMAIN x = 1..(j - i + 1)
    BY <1>24, <1>25
  <2> QED BY <1>25, <2>1 DEF Text
<1>27. SubSeq(Text(n), i, j) = [k \in 1..(j - i + 1) |-> n[i + k - 1].ch]
  <2> DEFINE t == Text(n)
  <2>1. t = [k \in 1..N |-> n[k].ch]
    BY <1>2 DEF Text, N
  <2>2. \A k \in 1..N : n[k].ch \in Characters
    <3>1. \A k \in 1..N : n[k] \in Origins
      BY <1>2 DEF N
    <3> QED BY <3>1 DEF Origins
  <2>3. t \in Seq(Characters) /\ Len(t) = N /\ \A k \in 1..N : t[k] = n[k].ch
    BY <1>2, <2>1, <2>2
  <2> HIDE DEF t
  <2>4. SubSeq(t, i, j) = [k \in 1..(j - i + 1) |-> t[i + k - 1]]
    BY <1>2, <1>5, <2>3
  <2>5. \A k \in 1..(j - i + 1) : t[i + k - 1] = n[i + k - 1].ch
    <3>1. \A k \in 1..(j - i + 1) : i + k - 1 \in 1..N
      BY <1>2, <1>5
    <3> QED BY <2>3, <3>1, Zenon
  <2>6. SubSeq(t, i, j) = [k \in 1..(j - i + 1) |-> n[i + k - 1].ch]
    BY <2>4, <2>5
  <2> QED BY <2>6 DEF t
<1> QED BY <1>26, <1>27 DEF x, part, a, b

\* The text is one of those submitted.
Submitted == message \in {Given} \cup Messages

\* No step changes the text (extraction.py extract_text reads it once).
LEMMA SubmittedHolds == ExtractionSpec => []Submitted
<1>1. ExtractionInit => Submitted
  BY DEF ExtractionInit, Submitted
<1>2. Submitted /\ [ExtractionNext]_<<vars, message>> => Submitted'
  BY DEF ExtractionNext, Submitted, vars
<1> QED BY <1>1, <1>2, PTL DEF ExtractionSpec

\* What the offsets of a normalized text lead to.
LEMMA SpansOf ==
  ASSUME NEW raw \in Seq(Characters)
  PROVE  LET n == normalize(raw)
             whole(i, j) == /\ i = 1 \/ n[i - 1].from # n[i].from
                            /\ j = Len(n) \/ n[j + 1].from # n[j].from
                            /\ ~ IsSpace(raw[n[i].from]) /\ ~ IsSpace(raw[n[j].from])
         IN  /\ \A k \in DOMAIN raw : ~ IsSpace(raw[k]) /\ ~ Invisible(raw[k]) =>
                   \E i \in DOMAIN n : n[i].from <= k /\ k <= n[i].to
             /\ \A i \in DOMAIN n, j \in DOMAIN n : i < j =>
                   n[i].to < n[j].from \/ (n[i].from = n[j].from /\ n[i].to = n[j].to)
             /\ \A i \in DOMAIN n : \A j \in i..Len(n) : whole(i, j) =>
                   Text(normalize(raw_of(raw, n, i, j))) = SubSeq(Text(n), i, j)
             /\ \A i \in 1..(Len(n) - 1) :
                   n[i].ch \in Plain /\ n[i + 1].ch = "m" => n[i].to + 1 < n[i + 1].from
             /\ (\A k \in DOMAIN raw : raw[k] # "q") =>
                   \A i \in DOMAIN n : IsSpace(n[i].ch) =>
                       i > 1 /\ i < Len(n) /\ ~ IsSpace(n[i + 1].ch)
<1> DEFINE n == normalize(raw)
           N == Len(n)
<1>1. PICK after : Normalizes(after, raw) /\ normalize(raw) = after[Len(raw)].out
  BY NormalizationExists
<1>2. Len(raw) \in Nat /\ DOMAIN raw = 1..Len(raw) /\ Len(raw) \in 0..Len(raw)
  OBVIOUS
<1>3. n \in Seq(Origins) /\ N \in Nat /\ DOMAIN n = 1..N
  <2>1. n \in Seq(Origins)
    BY <1>1, <1>2 DEF Normalizes, Progress
  <2> HIDE DEF n
  <2> QED BY <2>1
<1>4. /\ InPlace(raw, after, n)
      /\ n # <<>> => ~ IsSpace(raw[n[1].from]) /\ ~ IsSpace(raw[n[N].from])
      /\ \A k \in 1..Len(raw) :
            ~ IsSpace(raw[k]) /\ ~ Invisible(raw[k]) => \E l \in 1..N : n[l].from <= k /\ k <= n[l].to
  <2>1. Sound(raw, after, Len(raw))
    BY <1>1, <1>2, Soundness
  <2>2. \A k \in 1..Len(raw) : k <= Len(raw)
    BY <1>2
  <2> QED BY <1>1, <2>1, <2>2 DEF Sound
<1>5. ASSUME NEW i \in 1..N, NEW j \in i..N,
             i = 1 \/ n[i - 1].from # n[i].from, j = N \/ n[j + 1].from # n[j].from,
             ~ IsSpace(raw[n[i].from]), ~ IsSpace(raw[n[j].from])
      PROVE  Text(normalize(raw_of(raw, n, i, j))) = SubSeq(Text(n), i, j)
  <2>1. n = after[Len(raw)].out
    BY <1>1
  <2> HIDE DEF n
  <2>2. Text(normalize(SubSeq(raw, n[i].from, n[j].to))) = SubSeq(Text(n), i, j)
    <3>1. Normalizes(after, raw) /\ i \in 1..Len(n) /\ j \in i..Len(n)
      BY <1>1
    <3>2. /\ i = 1 \/ n[i - 1].from # n[i].from
          /\ j = Len(n) \/ n[j + 1].from # n[j].from
          /\ ~ IsSpace(raw[n[i].from]) /\ ~ IsSpace(raw[n[j].from])
      BY <1>5
    <3>3. Whole(raw, n, i, j)
      BY <3>2 DEF Whole
    <3> HIDE DEF N
    <3> QED BY <2>1, <3>1, <3>3, SpanAgain, SMTT(30)
  <2> QED BY <2>2 DEF raw_of
<1> HIDE DEF n, N
<1>6. /\ \A k \in 1..N : Stands(raw, after, n[k])
      /\ \A k \in 1..N, l \in 1..N : k < l => Ordered(n[k], n[l])
      /\ \A k \in 1..(N - 1) : Apart(raw, n[k], n[k + 1])
  BY <1>4 DEF InPlace, N
<1>7. ASSUME \A k \in 1..Len(raw) : raw[k] # "q", NEW i \in 1..N, IsSpace(n[i].ch)
      PROVE  i > 1 /\ i < N /\ ~ IsSpace(n[i + 1].ch)
  <2>1. \A k \in 1..N : IsSpace(n[k].ch) => IsSpace(raw[n[k].from])
    BY <1>6, <1>7 DEF Stands
  <2>2. IsSpace(raw[n[i].from]) /\ n # <<>>
    <3>1. n # <<>>
      BY <1>3 DEF N
    <3> QED BY <1>7, <2>1, <3>1
  <2>3. i # 1 /\ i # N
    BY <1>4, <2>2
  <2>4. i \in 1..(N - 1) /\ i + 1 \in 1..N /\ i > 1 /\ i < N
    BY <1>3, <2>3
  <2>5. ~ (IsSpace(raw[n[i].from]) /\ IsSpace(raw[n[i + 1].from]))
    BY <1>6, <2>4 DEF Apart
  <2> QED BY <2>1, <2>2, <2>4, <2>5
<1>8. \A i \in 1..N, j \in 1..N : i < j =>
         n[i].to < n[j].from \/ (n[i].from = n[j].from /\ n[i].to = n[j].to)
  BY <1>6 DEF Ordered
<1>9. \A i \in 1..(N - 1) : n[i].ch \in Plain /\ n[i + 1].ch = "m" => n[i].to + 1 < n[i + 1].from
  BY <1>6 DEF Apart
<1>10. DOMAIN n = 1..N /\ DOMAIN raw = 1..Len(raw)
  BY <1>2, <1>3
<1>11. \A i \in DOMAIN n : \A j \in i..N :
          (/\ i = 1 \/ n[i - 1].from # n[i].from
           /\ j = N \/ n[j + 1].from # n[j].from
           /\ ~ IsSpace(raw[n[i].from]) /\ ~ IsSpace(raw[n[j].from])) =>
          Text(normalize(raw_of(raw, n, i, j))) = SubSeq(Text(n), i, j)
  BY <1>5, <1>10
<1>12. /\ \A k \in DOMAIN raw : ~ IsSpace(raw[k]) /\ ~ Invisible(raw[k]) =>
             \E i \in DOMAIN n : n[i].from <= k /\ k <= n[i].to
       /\ \A i \in DOMAIN n, j \in DOMAIN n : i < j =>
             n[i].to < n[j].from \/ (n[i].from = n[j].from /\ n[i].to = n[j].to)
  BY <1>4, <1>8, <1>10
<1>13. (\A k \in DOMAIN raw : raw[k] # "q") =>
          \A i \in DOMAIN n : IsSpace(n[i].ch) => i > 1 /\ i < N /\ ~ IsSpace(n[i + 1].ch)
  BY <1>7, <1>10
<1> QED BY <1>9, <1>11, <1>12, <1>13, Zenon DEF n, N

\* Offsets keep leading to the submitted text (extraction.py normalize, raw_of).
THEOREM OffsetsLeadBack == ExtractionSpec => []SpansTraceable
<1>1. Submitted => SpansTraceable
  <2> SUFFICES ASSUME message \in Messages PROVE SpansTraceable
    BY DEF Submitted, SpansTraceable
  <2> DEFINE raw == message.raw
  <2>1. raw \in Seq(Characters)
    BY TextShaped
  <2> HIDE DEF raw
  <2>2. LET n == normalize(raw)
            whole(i, j) == /\ i = 1 \/ n[i - 1].from # n[i].from
                           /\ j = Len(n) \/ n[j + 1].from # n[j].from
                           /\ ~ IsSpace(raw[n[i].from]) /\ ~ IsSpace(raw[n[j].from])
        IN  /\ \A k \in DOMAIN raw : ~ IsSpace(raw[k]) /\ ~ Invisible(raw[k]) =>
                  \E i \in DOMAIN n : n[i].from <= k /\ k <= n[i].to
            /\ \A i \in DOMAIN n, j \in DOMAIN n : i < j =>
                  n[i].to < n[j].from \/ (n[i].from = n[j].from /\ n[i].to = n[j].to)
            /\ \A i \in DOMAIN n : \A j \in i..Len(n) : whole(i, j) =>
                  Text(normalize(raw_of(raw, n, i, j))) = SubSeq(Text(n), i, j)
            /\ \A i \in 1..(Len(n) - 1) :
                  n[i].ch \in Plain /\ n[i + 1].ch = "m" => n[i].to + 1 < n[i + 1].from
            /\ (\A k \in DOMAIN raw : raw[k] # "q") =>
                  \A i \in DOMAIN n : IsSpace(n[i].ch) =>
                      i > 1 /\ i < Len(n) /\ ~ IsSpace(n[i + 1].ch)
    BY <2>1, SpansOf, Zenon
  <2> QED BY <2>2, Zenon DEF SpansTraceable, raw
<1> QED BY <1>1, SubmittedHolds, PTL

-----------------------------------------------------------------------------
(* Findings are ordered by their places *)

\* The finding that comes first in the text: least start, then least end.
Foremost(fs) == CHOOSE x \in First(fs) : \A y \in First(fs) : x.end <= y.end

\* There is one.
LEMMA ForemostExists ==
  ASSUME NEW fs, fs # {}, \A f \in fs : f.start \in Nat /\ f.end \in Nat
  PROVE  Foremost(fs) \in fs
<1> DEFINE S == {f.start : f \in fs}
           E == {f.end : f \in First(fs)}
<1>1. S \in SUBSET Nat /\ S # {}
  OBVIOUS
<1>2. PICK s \in S : \A y \in S : s <= y
  <2> HIDE DEF S
  <2> QED BY <1>1, LeastExists
<1>3. PICK f \in fs : f.start = s
  BY <1>2
<1>4. f \in First(fs)
  BY <1>2, <1>3 DEF First
<1>5. E \in SUBSET Nat /\ E # {} /\ First(fs) \subseteq fs
  BY <1>4 DEF First
<1>6. PICK e \in E : \A y \in E : e <= y
  <2> HIDE DEF E
  <2> QED BY <1>5, LeastExists
<1>7. PICK x \in First(fs) : x.end = e
  BY <1>6
<1>8. \A y \in First(fs) : x.end <= y.end
  BY <1>6, <1>7
<1>9. Foremost(fs) \in First(fs)
  BY <1>8 DEF Foremost
<1> QED BY <1>5, <1>9

\* The order of finitely many findings lists findings (_materialize).
LEMMA OrderTyped ==
  ASSUME NEW found, IsFiniteSet(found), \A f \in found : f.start \in Nat /\ f.end \in Nat
  PROVE  InTextOrder(found) \in Seq(found)
<1> DEFINE D == SUBSET found
           V == Seq(found)
           rank == [fs \in D |-> Cardinality(fs)]
           N == Cardinality(found) + 1
           Step(order) == [fs \in D |-> IF fs = {} THEN <<>>
                                        ELSE <<Foremost(fs)>> \o order[fs \ {Foremost(fs)}]]
           F == [order \in [D -> V] |-> Step(order)]
<1>1. \A fs \in D : Cardinality(fs) \in Nat /\ Cardinality(fs) < N
  <2>1. Cardinality(found) \in Nat
    BY FS_CardinalityType
  <2> TAKE fs \in D
  <2>2. Cardinality(fs) \in Nat /\ Cardinality(fs) <= Cardinality(found)
    BY FS_Subset, FS_CardinalityType
  <2> QED BY <2>1, <2>2
<1>2. rank \in [D -> Nat] /\ N \in Nat /\ \A q \in D : rank[q] < N
  <2>1. N \in Nat
    BY FS_CardinalityType
  <2> HIDE DEF N, D
  <2> QED BY <1>1, <2>1
<1>3. <<>> \in V
  OBVIOUS
<1>4. \A fs \in D : fs # {} =>
         Foremost(fs) \in found /\ fs \ {Foremost(fs)} \in D /\ rank[fs \ {Foremost(fs)}] < rank[fs]
  <2> SUFFICES ASSUME NEW fs \in D, fs # {}
               PROVE  /\ Foremost(fs) \in found /\ fs \ {Foremost(fs)} \in D
                      /\ rank[fs \ {Foremost(fs)}] < rank[fs]
    OBVIOUS
  <2>1. IsFiniteSet(fs)
    BY FS_Subset
  <2>2. Foremost(fs) \in fs
    BY ForemostExists
  <2>3. Cardinality(fs \ {Foremost(fs)}) = Cardinality(fs) - 1
    BY <2>1, <2>2, FS_RemoveElement
  <2>4. Cardinality(fs) \in Nat
    BY <1>1
  <2>5. fs \ {Foremost(fs)} \in D
    OBVIOUS
  <2> QED BY <2>2, <2>3, <2>4, <2>5
<1> HIDE DEF rank
<1>5. \A order \in [D -> V] : Step(order) \in [D -> V]
  <2> SUFFICES ASSUME NEW order \in [D -> V], NEW fs \in D
               PROVE  (IF fs = {} THEN <<>> ELSE <<Foremost(fs)>> \o order[fs \ {Foremost(fs)}]) \in V
    OBVIOUS
  <2>1. CASE fs = {}
    BY <1>3, <2>1
  <2>2. CASE fs # {}
    <3>0. Foremost(fs) \in found /\ fs \ {Foremost(fs)} \in D
      BY <1>4, <2>2
    <3>1. order[fs \ {Foremost(fs)}] \in Seq(found) /\ <<Foremost(fs)>> \in Seq(found)
      <4>1. order[fs \ {Foremost(fs)}] \in V
        <5> HIDE DEF D, V, Step, F
        <5> QED BY <3>0
      <4> QED BY <3>0, <4>1
    <3>2. <<Foremost(fs)>> \o order[fs \ {Foremost(fs)}] \in Seq(found)
      BY <3>1, ConcatProperties
    <3> QED BY <2>2, <3>2
  <2> QED BY <2>1, <2>2
<1>6. F \in [[D -> V] -> [D -> V]]
  <2> HIDE DEF Step, D, V
  <2> QED BY <1>5
<1>7. ASSUME NEW g, NEW h, NEW q \in D, \A p \in D : rank[p] < rank[q] => g[p] = h[p]
      PROVE  Step(g)[q] = Step(h)[q]
  <2>1. CASE q = {}
    BY <2>1
  <2>2. CASE q # {}
    <3>1. g[q \ {Foremost(q)}] = h[q \ {Foremost(q)}]
      BY <1>4, <1>7, <2>2
    <3> QED BY <2>2, <3>1
  <2> QED BY <2>1, <2>2
<1>8. \A g, h \in [D -> V] : \A q \in D :
         (\A p \in D : rank[p] < rank[q] => g[p] = h[p]) => F[g][q] = F[h][q]
  <2> SUFFICES ASSUME NEW g \in [D -> V], NEW h \in [D -> V], NEW q \in D,
                      \A p \in D : rank[p] < rank[q] => g[p] = h[p]
               PROVE  F[g][q] = F[h][q]
    OBVIOUS
  <2>1. Step(g)[q] = Step(h)[q]
    <3> HIDE DEF Step, D, V
    <3> QED BY <1>7
  <2> HIDE DEF Step, D, V
  <2> QED BY <2>1
<1>9. \E w \in [D -> V] : w = Step(w)
  <2>1. V # {}
    BY <1>3
  <2>2. \E f \in [D -> V] : f = F[f]
    <3> HIDE DEF F, D, V, N
    <3>1. Recursion(D, V, rank, N, F)
      BY <1>2, <1>6, <1>8, <2>1 DEF Recursion
    <3> QED BY <3>1, RecursionExists
  <2> HIDE DEF Step, D, V
  <2> QED BY <2>2
<1> DEFINE v == CHOOSE order :
                  order = [fs \in SUBSET found |-> IF fs = {} THEN <<>>
                                                   ELSE <<Foremost(fs)>> \o order[fs \ {Foremost(fs)}]]
<1>10. v = Step(v)
  BY <1>9
<1>11. InTextOrder(found) = v[found]
  BY DEF InTextOrder, Foremost
<1> HIDE DEF v
<1>12. PICK w \in [D -> V] : w = Step(w)
  BY <1>9
<1>13. \A q \in D : v[q] = w[q]
  <2> DEFINE Bad == {n \in Nat : \E q \in D : rank[q] = n /\ v[q] # w[q]}
  <2> SUFFICES ASSUME Bad # {} PROVE FALSE
    <3> HIDE DEF D, V, N
    <3> QED BY <1>2
  <2>1. PICK n \in Bad : \A k \in Bad : n <= k
    <3>1. Bad \in SUBSET Nat
      OBVIOUS
    <3> HIDE DEF Bad
    <3> QED BY <3>1, LeastExists
  <2>2. PICK q \in D : rank[q] = n /\ v[q] # w[q]
    BY <2>1
  <2>3. \A p \in D : rank[p] < rank[q] => v[p] = w[p]
    <3> HIDE DEF D, V, N
    <3> QED BY <1>2, <2>1, <2>2
  <2>4. Step(v)[q] = Step(w)[q]
    <3> HIDE DEF Step, D, V, Bad
    <3> QED BY <1>7, <2>3
  <2> HIDE DEF Step
  <2> QED BY <1>10, <1>12, <2>2, <2>4
<1>14. found \in D
  OBVIOUS
<1>15. w[found] \in V
  <2> HIDE DEF D, V, Step
  <2> QED BY <1>12, <1>14
<1> QED BY <1>11, <1>13, <1>14, <1>15

-----------------------------------------------------------------------------
(* What a pattern leads to is positive only about live words *)

\* What a finding has to be: at a place of the text, observed or ambiguous, and what it projects
\* is a safety indicator or rests on affirmed first-party words.
Sensible(f) ==
    /\ f.start \in Nat /\ f.end \in Nat /\ f.status \in {"OBSERVED", "AMBIGUOUS"}
    /\ IsFiniteSet(f.emits)
    /\ \A e \in f.emits : e[1] \in Safety \/ live_first_party(f.s)

\* Finitely many of them.
AllSensible(found) == IsFiniteSet(found) /\ \A f \in found : Sensible(f)

\* Matches are at places of the text.
LEMMA MatchFacts ==
  ASSUME NEW msg \in Messages, NEW S \in SUBSET msg.matches
  PROVE  IsFiniteSet(S) /\ \A x \in S : x \in Matches /\ x.start \in Nat /\ x.end \in Nat
<1>1. msg.matches \subseteq Matches /\ IsFiniteSet(msg.matches)
  BY TextShaped
<1>2. IsFiniteSet(S)
  BY <1>1, FS_Subset
<1>3. \A x \in Matches : x.start \in Nat /\ x.end \in Nat
  BY DEF Matches
<1> QED BY <1>1, <1>2, <1>3

\* What is searched for is among the matches.
LEMMA FindFacts ==
  ASSUME NEW msg \in Messages
  PROVE  /\ \A name : Find(msg, name) \in SUBSET msg.matches
         /\ \A names : FindAny(msg, names) \in SUBSET msg.matches
         /\ \A xs \in SUBSET msg.matches :
               First(xs) \in SUBSET msg.matches /\ \A covering : Outside(xs, covering) \in SUBSET msg.matches
BY DEF Find, FindAny, First, Outside

\* No findings, and two groups of them.
LEMMA SensibleUnion ==
  /\ AllSensible({})
  /\ \A a, b : AllSensible(a) /\ AllSensible(b) => AllSensible(a \cup b)
<1>1. AllSensible({})
  BY FS_EmptySet DEF AllSensible
<1>2. ASSUME NEW a, NEW b, AllSensible(a), AllSensible(b) PROVE AllSensible(a \cup b)
  <2>1. IsFiniteSet(a \cup b)
    BY <1>2, FS_Union DEF AllSensible
  <2> QED BY <1>2, <2>1 DEF AllSensible
<1> QED BY <1>1, <1>2

\* A finding for each of finitely many matches.
LEMMA SensibleImage ==
  ASSUME NEW S, IsFiniteSet(S), NEW F, \A x \in S : Sensible(F[x])
  PROVE  AllSensible({F[x] : x \in S})
<1> DEFINE T == {F[x] : x \in S}
           f == [x \in S |-> F[x]]
<1>0. IsFiniteSet(S)
  OBVIOUS
<1>1. f \in [S -> T]
  OBVIOUS
<1>2. {f[x] : x \in S} = T
  OBVIOUS
<1>3. \A y \in T : Sensible(y)
  OBVIOUS
<1> HIDE DEF f, T
<1>4. IsFiniteSet({f[x] : x \in S})
  BY ONLY <1>0, <1>1, ImageFinite
<1>5. IsFiniteSet(T)
  BY <1>2, <1>4
<1>6. AllSensible(T)
  BY <1>3, <1>5 DEF AllSensible
<1> QED BY <1>6 DEF T

\* At most one match gives a finite group.
LEMMA FiniteFew ==
  \A a, b, c : IsFiniteSet({}) /\ IsFiniteSet({a}) /\ IsFiniteSet({a, b}) /\ IsFiniteSet({a, b, c})
<1> TAKE a, b, c
<1>1. IsFiniteSet({}) /\ IsFiniteSet({a}) /\ IsFiniteSet({b}) /\ IsFiniteSet({c})
  BY FS_EmptySet, FS_Singleton
<1>2. IsFiniteSet({a} \cup {b})
  BY <1>1, FS_Union
<1>3. IsFiniteSet(({a} \cup {b}) \cup {c})
  BY <1>1, <1>2, FS_Union
<1>4. {a} \cup {b} = {a, b} /\ ({a} \cup {b}) \cup {c} = {a, b, c}
  OBVIOUS
<1> QED BY <1>1, <1>2, <1>3, <1>4

\* Claims project affirmed first-party words, or nothing (_claim_structure).
LEMMA ClaimSensible ==
  ASSUME NEW msg, NEW x, x.start \in Nat, x.end \in Nat, NEW type, NEW risky, NEW emits, IsFiniteSet(emits)
  PROVE  Sensible(Claim(msg, x, type, risky, emits))
BY FS_EmptySet DEF Sensible, Claim, Finding

\* So do requests, when they are instructions.
LEMMA RequestSensible ==
  ASSUME NEW msg, NEW x, x.start \in Nat, x.end \in Nat, NEW type, NEW ind, NEW conf
  PROVE  Sensible(Request(msg, x, type, ind, conf))
<1> DEFINE s == structure(msg, x, TRUE)
           e == <<ind, IF s.mood = "DIRECTIVE" THEN conf ELSE MEDIUM>>
           emits == IF live_first_party(s) /\ s.mood # "DESCRIPTIVE" THEN {e} ELSE {}
<1>1. Request(msg, x, type, ind, conf) = Finding(x, type, s, TRUE, emits)
  BY DEF Request
<1>2. IsFiniteSet(emits) /\ \A y \in emits : live_first_party(s)
  BY FiniteFew
<1> HIDE DEF s, emits
<1> QED BY <1>1, <1>2 DEF Sensible, Finding

\* And demands.
LEMMA DemandSensible ==
  ASSUME NEW msg, NEW x, x.start \in Nat, x.end \in Nat, NEW type, NEW ind
  PROVE  /\ Sensible(Demand(msg, x, type, ind))
         /\ Demand(msg, x, type, ind) = Finding(x, type, structure(msg, x, TRUE), TRUE,
                                                Demand(msg, x, type, ind).emits)
<1> DEFINE s == structure(msg, x, TRUE)
           e == <<ind, IF s.mood # "DESCRIPTIVE" THEN HIGH ELSE MEDIUM>>
           emits == IF live_first_party(s) THEN {e} ELSE {}
<1>1. Demand(msg, x, type, ind) = Finding(x, type, s, TRUE, emits)
  BY DEF Demand
<1>2. IsFiniteSet(emits) /\ \A y \in emits : live_first_party(s)
  BY FiniteFew
<1> HIDE DEF s, emits
<1>3. Finding(x, type, s, TRUE, emits).emits = emits
  BY DEF Finding
<1>4. Sensible(Finding(x, type, s, TRUE, emits))
  BY <1>2 DEF Sensible, Finding
<1> QED BY <1>1, <1>3, <1>4 DEF s

\* A group of findings for each of finitely many matches.
LEMMA SensibleGroups ==
  ASSUME NEW S, IsFiniteSet(S), NEW F, \A x \in S : AllSensible(F[x])
  PROVE  AllSensible(UNION {F[x] : x \in S})
<1> DEFINE T == {F[x] : x \in S}
           f == [x \in S |-> F[x]]
<1>0. IsFiniteSet(S)
  OBVIOUS
<1>1. f \in [S -> T]
  OBVIOUS
<1>2. {f[x] : x \in S} = T
  OBVIOUS
<1>3. \A y \in T : AllSensible(y)
  OBVIOUS
<1> HIDE DEF f, T
<1>4. IsFiniteSet({f[x] : x \in S})
  BY ONLY <1>0, <1>1, ImageFinite
<1>5. IsFiniteSet(T)
  BY <1>2, <1>4
<1>6. IsFiniteSet(UNION T)
  BY <1>3, <1>5, FS_UNION DEF AllSensible
<1>7. \A y \in UNION T : Sensible(y)
  BY <1>3 DEF AllSensible
<1>8. AllSensible(UNION T)
  BY <1>6, <1>7 DEF AllSensible
<1> QED BY <1>8 DEF T

\* Polarity is one of two.
LEMMA Polarities ==
  \A msg, x, request : structure(msg, x, request).polarity \in {"AFFIRMED", "NEGATED"}
BY DEF structure, Structure

\* A request for a credential, denied or not.
LEMMA CredentialSensible ==
  ASSUME NEW msg, NEW x, x.start \in Nat, x.end \in Nat, NEW kind
  PROVE  Sensible(Credential(msg, x, kind))
<1> DEFINE s == structure(msg, x, TRUE)
           conf == IF s.mood = "DIRECTIVE" THEN HIGH ELSE MEDIUM
           spoken == IF "plural" \in x.detail
                     THEN {<<"EDUCATIONAL_CONTENT", HIGH>>, <<"SUPPORT_NEVER_ASKS", HIGH>>}
                     ELSE {<<"SELF_PROTECTIVE_WARNING", HIGH>>}
           safety == {<<"NEGATED_CREDENTIAL_REQUEST", HIGH>>} \cup spoken
           asked == IF kind # "PASSWORD" THEN {<<CREDENTIALS[kind], conf>>}
                    ELSE IF "verification_context" \in msg.cues THEN {<<"VERIFICATION_PROMPT", conf>>} ELSE {}
           emits == IF s.polarity = "NEGATED" THEN safety
                    ELSE IF s.attribution = "FIRST_PARTY" THEN asked ELSE {}
           f == Finding(x, "AUTHENTICATION_ACTION", s, s.polarity # "NEGATED", emits)
<1>1. Credential(msg, x, kind) = f
  BY DEF Credential
<1>2. IsFiniteSet(safety) /\ \A e \in safety : e[1] \in Safety
  <2>1. IsFiniteSet(spoken) /\ IsFiniteSet({<<"NEGATED_CREDENTIAL_REQUEST", HIGH>>})
    BY FiniteFew
  <2>2. \A e \in safety : e[1] \in Safety
    BY DEF Safety
  <2>3. IsFiniteSet({<<"NEGATED_CREDENTIAL_REQUEST", HIGH>>} \cup spoken)
    <3> HIDE DEF spoken
    <3> QED BY <2>1, FS_Union
  <2> QED BY <2>2, <2>3
<1>3. IsFiniteSet(asked)
  BY FiniteFew
<1>4. s.polarity # "NEGATED" /\ s.attribution = "FIRST_PARTY" => live_first_party(s)
  <2>1. s.polarity \in {"AFFIRMED", "NEGATED"}
    BY Polarities
  <2> HIDE DEF s
  <2> QED BY <2>1 DEF live_first_party
<1> HIDE DEF s, safety, asked
<1>5. IsFiniteSet(emits) /\ \A e \in emits : e[1] \in Safety \/ live_first_party(s)
  <2>1. \/ emits = safety
        \/ emits = asked /\ live_first_party(s)
        \/ emits = {}
    BY <1>4
  <2> HIDE DEF emits
  <2> QED BY <1>2, <1>3, <2>1, FS_EmptySet
<1> HIDE DEF emits
<1>6. Sensible(f)
  BY <1>5 DEF Sensible, Finding
<1> QED BY <1>1, <1>6

\* _credential_findings
LEMMA CredentialFindingsSensible ==
  ASSUME NEW msg \in Messages
  PROVE  AllSensible(CredentialFindings(msg))
<1> DEFINE requests == Find(msg, "credential_request")
           pronouns == {x \in Outside(Find(msg, "credential_pronoun"), requests) :
                           structure(msg, x, TRUE).polarity = "NEGATED" /\ "otp_mention" \in msg.cues}
           F == [x \in requests |-> Credential(msg, x, CHOOSE k \in x.detail : k # "plural")]
           G == [x \in pronouns |-> Credential(msg, x, "OTP")]
<1>1. requests \in SUBSET msg.matches /\ pronouns \in SUBSET msg.matches
  <2>1. requests \in SUBSET msg.matches /\ Outside(Find(msg, "credential_pronoun"), requests) \in SUBSET msg.matches
    <3> HIDE DEF requests
    <3> QED BY FindFacts DEF requests
  <2> HIDE DEF requests
  <2> QED BY <2>1
<1>2. CredentialFindings(msg) = {Credential(msg, x, CHOOSE k \in x.detail : k # "plural") : x \in requests}
                                \cup {Credential(msg, x, "OTP") : x \in pronouns}
  BY DEF CredentialFindings
<1> HIDE DEF requests, pronouns
<1>3. AllSensible({F[x] : x \in requests})
  <2>1. IsFiniteSet(requests) /\ \A x \in requests : Sensible(F[x])
    BY <1>1, MatchFacts, CredentialSensible
  <2> HIDE DEF F
  <2> QED BY <2>1, SensibleImage
<1>4. AllSensible({G[x] : x \in pronouns})
  <2>1. IsFiniteSet(pronouns) /\ \A x \in pronouns : Sensible(G[x])
    BY <1>1, MatchFacts, CredentialSensible
  <2> HIDE DEF G
  <2> QED BY <2>1, SensibleImage
<1>5. CredentialFindings(msg) = {F[x] : x \in requests} \cup {G[x] : x \in pronouns}
  BY <1>2
<1> HIDE DEF F, G
<1> QED BY <1>3, <1>4, <1>5, SensibleUnion

\* A code that is only delivered.
LEMMA DeliveredSensible ==
  ASSUME NEW msg \in Messages
  PROVE  AllSensible(Delivered(msg))
<1> DEFINE S == Find(msg, "otp_delivered")
           f(x) == Claim(msg, x, "AUTHENTICATION_ACTION", FALSE, {<<"OTP_DELIVERED_NOT_REQUESTED", HIGH>>})
           F == [x \in S |-> [f(x) EXCEPT !.s.mood = "DESCRIPTIVE", !.claim = FALSE]]
<1>1. S \in SUBSET msg.matches
  BY FindFacts
<1>2. Delivered(msg) = {F[x] : x \in S}
  BY DEF Delivered
<1> HIDE DEF S
<1>3. ASSUME NEW x \in S PROVE Sensible(F[x])
  <2>1. x.start \in Nat /\ x.end \in Nat /\ IsFiniteSet({<<"OTP_DELIVERED_NOT_REQUESTED", HIGH>>})
    BY <1>1, MatchFacts, FiniteFew
  <2>2. Sensible(f(x))
    BY <2>1, ClaimSensible
  <2>3. F[x] = [f(x) EXCEPT !.s.mood = "DESCRIPTIVE", !.claim = FALSE]
    OBVIOUS
  <2>4. /\ F[x].start = f(x).start /\ F[x].end = f(x).end /\ F[x].status = f(x).status /\ F[x].emits = f(x).emits
        /\ live_first_party(F[x].s) = live_first_party(f(x).s)
    <3> DEFINE emits == {<<"OTP_DELIVERED_NOT_REQUESTED", HIGH>>}
               t == claim_structure(msg, x)
               kept == IF live_first_party(t) THEN emits ELSE {}
    <3>1. f(x) = [Finding(x, "AUTHENTICATION_ACTION", t, FALSE, kept) EXCEPT !.claim = TRUE]
      BY DEF Claim
    <3>2. t \in [polarity : {t.polarity}, attribution : {t.attribution}, mood : {t.mood}]
      BY DEF claim_structure, structure, Structure, Unstated
    <3> HIDE DEF f, F, t, kept
    <3> QED BY <2>3, <3>1, <3>2 DEF Finding, live_first_party
  <2> HIDE DEF f, F
  <2> QED BY <2>2, <2>4 DEF Sensible
<1>4. IsFiniteSet(S)
  BY <1>1, MatchFacts
<1> HIDE DEF F
<1> QED BY <1>2, <1>3, <1>4, SensibleImage

\* _threat_findings
LEMMA ThreatFindingsSensible ==
  ASSUME NEW msg \in Messages
  PROVE  AllSensible(ThreatFindings(msg))
<1> DEFINE blocks == Find(msg, "account_block")
           others == FindAny(msg, {"arrest", "legal_accusation", "withdrawal_blocked"})
           suspensions == IF "service_subject" \in msg.cues THEN Outside(Find(msg, "suspension"), blocks) ELSE {}
           S == blocks \cup others \cup suspensions
           F == [x \in S |-> Claim(msg, x, "CLAIM", TRUE, {<<THREATS[x.name], HIGH>>})]
<1>1. ThreatFindings(msg) = {F[x] : x \in S}
  BY DEF ThreatFindings
<1>2. S \in SUBSET msg.matches
  <2>1. blocks \in SUBSET msg.matches /\ others \in SUBSET msg.matches
    BY FindFacts
  <2>2. \A covering : Outside(Find(msg, "suspension"), covering) \in SUBSET msg.matches
    BY FindFacts
  <2>3. Outside(Find(msg, "suspension"), blocks) \in SUBSET msg.matches
    <3> HIDE DEF blocks
    <3> QED BY <2>2
  <2> HIDE DEF blocks, others
  <2> QED BY <2>1, <2>3
<1> HIDE DEF S
<1>3. \A x \in S : Sensible(F[x])
  BY <1>2, MatchFacts, ClaimSensible, FiniteFew
<1>4. IsFiniteSet(S)
  BY <1>2, MatchFacts
<1> HIDE DEF F
<1> QED BY <1>1, <1>3, <1>4, SensibleImage

\* What the sentence goes on with shares the structure of the demand.
LEMMA DirectionSensible ==
  ASSUME NEW x, x.start \in Nat, x.end \in Nat, NEW type, NEW s, NEW first,
         NEW name, NEW risky, NEW emits, IsFiniteSet(emits)
  PROVE  Sensible(Direction(x, Finding(x, type, s, TRUE, first), name, risky, emits))
<1> DEFINE f == Finding(x, type, s, TRUE, first)
           kept == IF live_first_party(s) THEN emits ELSE {}
           d == Direction(x, f, name, risky, emits)
<1>1. f.s = s
  BY DEF Finding
<1>2. d = [f EXCEPT !.name = name, !.start = x.end + 1, !.end = x.end + 1, !.type = "PAYMENT_CONTEXT",
                    !.risky = risky, !.emits = kept]
  BY <1>1 DEF Direction
<1>3. IsFiniteSet(kept) /\ \A e \in kept : live_first_party(s)
  BY FS_EmptySet
<1>4. x.end + 1 \in Nat
  OBVIOUS
<1> HIDE DEF kept, d
<1>5. d.start \in Nat /\ d.end \in Nat /\ d.status = "OBSERVED" /\ d.emits = kept /\ d.s = s
  BY <1>2, <1>4 DEF Finding
<1> HIDE DEF f
<1>6. Sensible(d)
  BY <1>3, <1>5 DEF Sensible
<1> QED BY <1>6 DEF d, f

\* A UPI PIN, and the direction of the money.
LEMMA UpiPinSensible ==
  ASSUME NEW msg, NEW x, x.start \in Nat, x.end \in Nat
  PROVE  AllSensible(UpiPin(msg, x))
<1> DEFINE f == Demand(msg, x, "AUTHENTICATION_ACTION", "UPI_PIN_PROMPT")
           r == Direction(x, f, "RECEIVE_MONEY", TRUE, {<<"RECEIVE_FRAMING", HIGH>>})
           merchant == IF Head(x.after) = "merchant" THEN {<<"PAY_MERCHANT_DIRECTION", HIGH>>} ELSE {}
           p == Direction(x, f, "PAY_OUTBOUND", FALSE, merchant)
           further == IF x.after = <<>> THEN {} ELSE IF Head(x.after) = "receive" THEN {r} ELSE {p}
<1>1. UpiPin(msg, x) = {f} \cup further
  BY DEF UpiPin
<1>2. Sensible(f) /\ Sensible(r) /\ Sensible(p)
  <2>1. Sensible(f) /\ f = Finding(x, "AUTHENTICATION_ACTION", structure(msg, x, TRUE), TRUE, f.emits)
    BY DemandSensible
  <2>2. IsFiniteSet(merchant) /\ IsFiniteSet({<<"RECEIVE_FRAMING", HIGH>>})
    BY FiniteFew
  <2> HIDE DEF f, merchant
  <2>3. Sensible(r) /\ Sensible(p)
    <3> DEFINE g == Finding(x, "AUTHENTICATION_ACTION", structure(msg, x, TRUE), TRUE, f.emits)
    <3>1. /\ Sensible(Direction(x, g, "RECEIVE_MONEY", TRUE, {<<"RECEIVE_FRAMING", HIGH>>}))
          /\ Sensible(Direction(x, g, "PAY_OUTBOUND", FALSE, merchant))
      BY <2>2, DirectionSensible
    <3>2. f = g
      BY <2>1
    <3> HIDE DEF g
    <3> QED BY <3>1, <3>2
  <2> QED BY <2>1, <2>3
<1> HIDE DEF f, r, p
<1>3. IsFiniteSet({f}) /\ IsFiniteSet(further) /\ \A g \in further : Sensible(g)
  BY <1>2, FiniteFew
<1> HIDE DEF further
<1>4. IsFiniteSet({f} \cup further)
  BY <1>3, FS_Union
<1> QED BY <1>1, <1>2, <1>3, <1>4 DEF AllSensible

\* A payment that is mentioned, and a deposit.
LEMMA PaymentSensible ==
  ASSUME NEW msg, NEW x, x.start \in Nat, x.end \in Nat
  PROVE  Sensible(Payment(msg, x)) /\ Sensible(Deposit(msg, x))
<1>1. Sensible(Payment(msg, x))
  <2> DEFINE mention == {<<"PAYMENT_CONTEXT", IF QrPresent(msg) THEN LOW ELSE MEDIUM>>}
             status == IF QrPresent(msg) THEN "AMBIGUOUS" ELSE "OBSERVED"
             c == Claim(msg, x, "PAYMENT_CONTEXT", TRUE, mention)
             t == claim_structure(msg, x)
             kept == IF live_first_party(t) THEN mention ELSE {}
             d == [c EXCEPT !.status = status]
  <2>1. IsFiniteSet(mention)
    BY FiniteFew
  <2>2. Payment(msg, x) = d
    BY DEF Payment
  <2> HIDE DEF mention
  <2>3. Sensible(c)
    BY <2>1, ClaimSensible
  <2>4. c = [Finding(x, "PAYMENT_CONTEXT", t, TRUE, kept) EXCEPT !.claim = TRUE]
    BY DEF Claim
  <2>5. status \in {"OBSERVED", "AMBIGUOUS"}
    OBVIOUS
  <2> HIDE DEF c, t, kept, status
  <2>6. d.start = c.start /\ d.end = c.end /\ d.emits = c.emits /\ d.s = c.s /\ d.status = status
    BY <2>4 DEF Finding
  <2> HIDE DEF d
  <2> QED BY <2>2, <2>3, <2>5, <2>6 DEF Sensible
<1>2. Sensible(Deposit(msg, x))
  <2> DEFINE s == structure(msg, x, TRUE)
             emits == IF live_first_party(s) THEN {<<"DEPOSIT_FOR_EARNINGS", MEDIUM>>} ELSE {}
  <2>1. IsFiniteSet(emits) /\ \A e \in emits : live_first_party(s)
    BY FiniteFew
  <2>2. Deposit(msg, x) = Finding(x, "PAYMENT_CONTEXT", s, TRUE, emits)
    BY DEF Deposit
  <2> HIDE DEF s, emits
  <2> QED BY <2>1, <2>2 DEF Sensible, Finding
<1> QED BY <1>1, <1>2

\* _payment_findings
LEMMA PaymentFindingsSensible ==
  ASSUME NEW msg \in Messages, NEW threatened
  PROVE  AllSensible(PaymentFindings(msg, threatened))
<1> DEFINE pins == Find(msg, "upi_pin")
           immediate == Find(msg, "immediate_payment")
           fees == Outside(Find(msg, "upfront_fee"), immediate)
           demands == Outside(Find(msg, "payment_demand"), immediate \cup fees)
           contexts == Find(msg, "payment_context")
           deposits == Find(msg, "deposit_for_earnings")
           kind == IF threatened THEN "IMMEDIATE_PAYMENT_DEMAND" ELSE "PAYMENT_DEMAND"
           A == [x \in pins |-> UpiPin(msg, x)]
           B == [x \in immediate |-> Demand(msg, x, "PAYMENT_CONTEXT", kind)]
           C == [x \in fees |-> Request(msg, x, "PAYMENT_CONTEXT", "UPFRONT_FEE_DEMAND", MEDIUM)]
           D == [x \in demands |-> Request(msg, x, "PAYMENT_CONTEXT", "PAYMENT_DEMAND", MEDIUM)]
           E == [x \in contexts |-> Payment(msg, x)]
           G == [x \in deposits |-> Deposit(msg, x)]
<1>1. PaymentFindings(msg, threatened) =
         (UNION {UpiPin(msg, x) : x \in pins})
            \cup {Demand(msg, x, "PAYMENT_CONTEXT", kind) : x \in immediate}
            \cup {Request(msg, x, "PAYMENT_CONTEXT", "UPFRONT_FEE_DEMAND", MEDIUM) : x \in fees}
            \cup {Request(msg, x, "PAYMENT_CONTEXT", "PAYMENT_DEMAND", MEDIUM) : x \in demands}
            \cup {Payment(msg, x) : x \in contexts}
            \cup {Deposit(msg, x) : x \in deposits}
  BY Zenon DEF PaymentFindings
<1>2. /\ pins \in SUBSET msg.matches /\ immediate \in SUBSET msg.matches /\ fees \in SUBSET msg.matches
      /\ demands \in SUBSET msg.matches /\ contexts \in SUBSET msg.matches /\ deposits \in SUBSET msg.matches
  <2>1. \A name : Find(msg, name) \in SUBSET msg.matches
    BY FindFacts
  <2>2. \A name, covering : Outside(Find(msg, name), covering) \in SUBSET msg.matches
    BY FindFacts
  <2> QED BY <2>1, <2>2
<1> HIDE DEF pins, immediate, fees, demands, contexts, deposits, kind
<1>3. AllSensible(UNION {UpiPin(msg, x) : x \in pins})
  <2>1. IsFiniteSet(pins) /\ \A x \in pins : AllSensible(A[x])
    BY <1>2, MatchFacts, UpiPinSensible
  <2>2. UNION {A[x] : x \in pins} = UNION {UpiPin(msg, x) : x \in pins}
    OBVIOUS
  <2> HIDE DEF A
  <2>3. AllSensible(UNION {A[x] : x \in pins})
    BY <2>1, SensibleGroups
  <2> QED BY <2>2, <2>3
<1>4. AllSensible({Demand(msg, x, "PAYMENT_CONTEXT", kind) : x \in immediate})
  <2>1. IsFiniteSet(immediate) /\ \A x \in immediate : Sensible(B[x])
    BY <1>2, MatchFacts, DemandSensible
  <2>2. {B[x] : x \in immediate} = {Demand(msg, x, "PAYMENT_CONTEXT", kind) : x \in immediate}
    OBVIOUS
  <2> HIDE DEF B
  <2>3. AllSensible({B[x] : x \in immediate})
    BY <2>1, SensibleImage
  <2> QED BY <2>2, <2>3
<1>5. AllSensible({Request(msg, x, "PAYMENT_CONTEXT", "UPFRONT_FEE_DEMAND", MEDIUM) : x \in fees})
  <2>1. IsFiniteSet(fees) /\ \A x \in fees : Sensible(C[x])
    BY <1>2, MatchFacts, RequestSensible
  <2>2. {C[x] : x \in fees} = {Request(msg, x, "PAYMENT_CONTEXT", "UPFRONT_FEE_DEMAND", MEDIUM) : x \in fees}
    OBVIOUS
  <2> HIDE DEF C
  <2>3. AllSensible({C[x] : x \in fees})
    BY <2>1, SensibleImage
  <2> QED BY <2>2, <2>3
<1>6. AllSensible({Request(msg, x, "PAYMENT_CONTEXT", "PAYMENT_DEMAND", MEDIUM) : x \in demands})
  <2>1. IsFiniteSet(demands) /\ \A x \in demands : Sensible(D[x])
    BY <1>2, MatchFacts, RequestSensible
  <2>2. {D[x] : x \in demands} = {Request(msg, x, "PAYMENT_CONTEXT", "PAYMENT_DEMAND", MEDIUM) : x \in demands}
    OBVIOUS
  <2> HIDE DEF D
  <2>3. AllSensible({D[x] : x \in demands})
    BY <2>1, SensibleImage
  <2> QED BY <2>2, <2>3
<1>7. AllSensible({Payment(msg, x) : x \in contexts})
  <2>1. IsFiniteSet(contexts) /\ \A x \in contexts : Sensible(E[x])
    BY <1>2, MatchFacts, PaymentSensible
  <2>2. {E[x] : x \in contexts} = {Payment(msg, x) : x \in contexts}
    OBVIOUS
  <2> HIDE DEF E
  <2>3. AllSensible({E[x] : x \in contexts})
    BY <2>1, SensibleImage
  <2> QED BY <2>2, <2>3
<1>8. AllSensible({Deposit(msg, x) : x \in deposits})
  <2>1. IsFiniteSet(deposits) /\ \A x \in deposits : Sensible(G[x])
    BY <1>2, MatchFacts, PaymentSensible
  <2>2. {G[x] : x \in deposits} = {Deposit(msg, x) : x \in deposits}
    OBVIOUS
  <2> HIDE DEF G
  <2>3. AllSensible({G[x] : x \in deposits})
    BY <2>1, SensibleImage
  <2> QED BY <2>2, <2>3
<1> HIDE DEF A, B, C, D, E, G
<1>9. \A a, b : AllSensible(a) /\ AllSensible(b) => AllSensible(a \cup b)
  BY SensibleUnion
<1> DEFINE p1 == UNION {UpiPin(msg, x) : x \in pins}
           p2 == {Demand(msg, x, "PAYMENT_CONTEXT", kind) : x \in immediate}
           p3 == {Request(msg, x, "PAYMENT_CONTEXT", "UPFRONT_FEE_DEMAND", MEDIUM) : x \in fees}
           p4 == {Request(msg, x, "PAYMENT_CONTEXT", "PAYMENT_DEMAND", MEDIUM) : x \in demands}
           p5 == {Payment(msg, x) : x \in contexts}
           p6 == {Deposit(msg, x) : x \in deposits}
<1>10. PaymentFindings(msg, threatened) = p1 \cup p2 \cup p3 \cup p4 \cup p5 \cup p6
  BY <1>1, Zenon
<1>11. AllSensible(p1) /\ AllSensible(p2) /\ AllSensible(p3) /\ AllSensible(p4) /\ AllSensible(p5) /\ AllSensible(p6)
  BY <1>3, <1>4, <1>5, <1>6, <1>7, <1>8, Zenon
<1> HIDE DEF p1, p2, p3, p4, p5, p6
<1> QED BY <1>9, <1>10, <1>11

\* Pressure of time (_find_all).
LEMMA PressureFindingsSensible ==
  ASSUME NEW msg \in Messages, NEW before
  PROVE  AllSensible(PressureFindings(msg, before))
<1> DEFINE deadlines == Find(msg, "deadline")
           urgent == Outside(Find(msg, "urgency"), deadlines)
           contextual == Outside(Find(msg, "urgency_contextual"), deadlines)
           stated == {Claim(msg, x, "CLAIM", TRUE, {<<"URGENCY_DEADLINE", HIGH>>}) : x \in deadlines}
                        \cup {Claim(msg, x, "CLAIM", TRUE, {<<"URGENCY", HIGH>>}) : x \in urgent}
           pressured == {f.sentence : f \in {g \in before \cup stated : g.risky /\ g.emits # {}}}
           projected(x) == IF x.sentence \in pressured THEN {<<"URGENCY", MEDIUM>>} ELSE {}
<1>1. PressureFindings(msg, before) =
         stated \cup {Claim(msg, x, "CLAIM", TRUE, projected(x)) : x \in contextual}
  BY Zenon DEF PressureFindings
<1>2. deadlines \in SUBSET msg.matches /\ urgent \in SUBSET msg.matches /\ contextual \in SUBSET msg.matches
  <2>1. \A name : Find(msg, name) \in SUBSET msg.matches
    BY FindFacts
  <2>2. \A name, covering : Outside(Find(msg, name), covering) \in SUBSET msg.matches
    BY FindFacts
  <2> QED BY <2>1, <2>2
<1>3. \A x : IsFiniteSet(projected(x))
  BY FiniteFew
<1> HIDE DEF deadlines, urgent, contextual, pressured, projected
<1>4. AllSensible({Claim(msg, x, "CLAIM", TRUE, {<<"URGENCY_DEADLINE", HIGH>>}) : x \in deadlines})
  <2> DEFINE F == [x \in deadlines |-> Claim(msg, x, "CLAIM", TRUE, {<<"URGENCY_DEADLINE", HIGH>>})]
  <2>1. IsFiniteSet(deadlines) /\ \A x \in deadlines : Sensible(F[x])
    BY <1>2, MatchFacts, ClaimSensible, FiniteFew
  <2>2. {F[x] : x \in deadlines} = {Claim(msg, x, "CLAIM", TRUE, {<<"URGENCY_DEADLINE", HIGH>>}) : x \in deadlines}
    OBVIOUS
  <2> HIDE DEF F
  <2>3. AllSensible({F[x] : x \in deadlines})
    BY <2>1, SensibleImage
  <2> QED BY <2>2, <2>3
<1>5. AllSensible({Claim(msg, x, "CLAIM", TRUE, {<<"URGENCY", HIGH>>}) : x \in urgent})
  <2> DEFINE F == [x \in urgent |-> Claim(msg, x, "CLAIM", TRUE, {<<"URGENCY", HIGH>>})]
  <2>1. IsFiniteSet(urgent) /\ \A x \in urgent : Sensible(F[x])
    BY <1>2, MatchFacts, ClaimSensible, FiniteFew
  <2>2. {F[x] : x \in urgent} = {Claim(msg, x, "CLAIM", TRUE, {<<"URGENCY", HIGH>>}) : x \in urgent}
    OBVIOUS
  <2> HIDE DEF F
  <2>3. AllSensible({F[x] : x \in urgent})
    BY <2>1, SensibleImage
  <2> QED BY <2>2, <2>3
<1>6. AllSensible({Claim(msg, x, "CLAIM", TRUE, projected(x)) : x \in contextual})
  <2> DEFINE F == [x \in contextual |-> Claim(msg, x, "CLAIM", TRUE, projected(x))]
  <2>1. IsFiniteSet(contextual) /\ \A x \in contextual : Sensible(F[x])
    BY <1>2, <1>3, MatchFacts, ClaimSensible, FiniteFew
  <2>2. {F[x] : x \in contextual} = {Claim(msg, x, "CLAIM", TRUE, projected(x)) : x \in contextual}
    OBVIOUS
  <2> HIDE DEF F
  <2>3. AllSensible({F[x] : x \in contextual})
    BY <2>1, SensibleImage
  <2> QED BY <2>2, <2>3
<1>7. AllSensible(stated)
  BY <1>4, <1>5, SensibleUnion
<1> HIDE DEF stated
<1> QED BY <1>1, <1>6, <1>7, SensibleUnion

\* Coercion: do not tell anyone.
LEMMA CoercionFindingsSensible ==
  ASSUME NEW msg \in Messages
  PROVE  AllSensible(CoercionFindings(msg))
<1> DEFINE S == FindAny(msg, DOMAIN COERCIONS)
<1>1. CoercionFindings(msg) =
         {Claim(msg, [x EXCEPT !.negation = FAR], "CLAIM", TRUE, {<<COERCIONS[x.name], HIGH>>}) : x \in S}
  BY DEF CoercionFindings
<1>2. S \in SUBSET msg.matches
  BY FindFacts
<1> HIDE DEF S
<1>3. \A x \in S : [x EXCEPT !.negation = FAR].start \in Nat /\ [x EXCEPT !.negation = FAR].end \in Nat
  <2>1. \A x \in S : x \in Matches
    BY <1>2, MatchFacts
  <2> QED BY <2>1 DEF Matches, FAR
<1>4. AllSensible({Claim(msg, [x EXCEPT !.negation = FAR], "CLAIM", TRUE, {<<COERCIONS[x.name], HIGH>>}) : x \in S})
  <2> DEFINE F == [x \in S |-> Claim(msg, [x EXCEPT !.negation = FAR], "CLAIM", TRUE, {<<COERCIONS[x.name], HIGH>>})]
  <2>1. IsFiniteSet(S) /\ \A x \in S : Sensible(F[x])
    BY <1>2, <1>3, MatchFacts, ClaimSensible, FiniteFew
  <2>2. {F[x] : x \in S} = {Claim(msg, [x EXCEPT !.negation = FAR], "CLAIM", TRUE, {<<COERCIONS[x.name], HIGH>>}) : x \in S}
    OBVIOUS
  <2> HIDE DEF F
  <2>3. AllSensible({F[x] : x \in S})
    BY <2>1, SensibleImage
  <2> QED BY <2>2, <2>3
<1> QED BY <1>1, <1>4

\* Pretexts and the requests that come with them.
LEMMA PretextFindingsSensible ==
  ASSUME NEW msg \in Messages
  PROVE  AllSensible(PretextFindings(msg))
<1> DEFINE chosen == UNION {IF name \in ONCE THEN First(Find(msg, name)) ELSE Find(msg, name)
                               : name \in DOMAIN PRETEXTS}
           free == Find(msg, "explicit_no_fee")
           handoffs == Find(msg, "off_platform")
           dials == Find(msg, "ussd_dial")
           returns(x) == IF "high" \in x.detail THEN {<<"HIGH_RETURN_MENTION", MEDIUM>>} ELSE {}
<1>1. PretextFindings(msg) =
         {Claim(msg, x, "CLAIM", TRUE, {PRETEXTS[x.name]} \cup returns(x)) : x \in chosen}
         \cup {Claim(msg, x, "CLAIM", FALSE, {<<"EXPLICIT_NO_FEE", HIGH>>}) : x \in free}
         \cup {Request(msg, x, "LINK_ACTION", "OFF_PLATFORM_HANDOFF", MEDIUM) : x \in handoffs}
         \cup {Request(msg, x, "DEVICE_ACTION", "USSD_CODE_DIAL_REQUEST", HIGH) : x \in dials}
  BY Zenon DEF PretextFindings
<1>2. /\ chosen \in SUBSET msg.matches /\ free \in SUBSET msg.matches
      /\ handoffs \in SUBSET msg.matches /\ dials \in SUBSET msg.matches
  <2>1. \A name : Find(msg, name) \in SUBSET msg.matches
    BY FindFacts
  <2>2. \A name : First(Find(msg, name)) \in SUBSET msg.matches
    BY FindFacts
  <2> QED BY <2>1, <2>2
<1>3. \A x : IsFiniteSet({PRETEXTS[x.name]} \cup returns(x))
  <2> TAKE x
  <2>1. IsFiniteSet({PRETEXTS[x.name]}) /\ IsFiniteSet(returns(x))
    BY FiniteFew
  <2> HIDE DEF returns
  <2> QED BY <2>1, FS_Union
<1> HIDE DEF chosen, free, handoffs, dials, returns
<1>4. AllSensible({Claim(msg, x, "CLAIM", TRUE, {PRETEXTS[x.name]} \cup returns(x)) : x \in chosen})
  <2> DEFINE F == [x \in chosen |-> Claim(msg, x, "CLAIM", TRUE, {PRETEXTS[x.name]} \cup returns(x))]
  <2>1. IsFiniteSet(chosen) /\ \A x \in chosen : Sensible(F[x])
    BY <1>2, <1>3, MatchFacts, ClaimSensible, FiniteFew
  <2>2. {F[x] : x \in chosen} = {Claim(msg, x, "CLAIM", TRUE, {PRETEXTS[x.name]} \cup returns(x)) : x \in chosen}
    OBVIOUS
  <2> HIDE DEF F
  <2>3. AllSensible({F[x] : x \in chosen})
    BY <2>1, SensibleImage
  <2> QED BY <2>2, <2>3
<1>5. AllSensible({Claim(msg, x, "CLAIM", FALSE, {<<"EXPLICIT_NO_FEE", HIGH>>}) : x \in free})
  <2> DEFINE F == [x \in free |-> Claim(msg, x, "CLAIM", FALSE, {<<"EXPLICIT_NO_FEE", HIGH>>})]
  <2>1. IsFiniteSet(free) /\ \A x \in free : Sensible(F[x])
    BY <1>2, MatchFacts, ClaimSensible, FiniteFew
  <2>2. {F[x] : x \in free} = {Claim(msg, x, "CLAIM", FALSE, {<<"EXPLICIT_NO_FEE", HIGH>>}) : x \in free}
    OBVIOUS
  <2> HIDE DEF F
  <2>3. AllSensible({F[x] : x \in free})
    BY <2>1, SensibleImage
  <2> QED BY <2>2, <2>3
<1>6. AllSensible({Request(msg, x, "LINK_ACTION", "OFF_PLATFORM_HANDOFF", MEDIUM) : x \in handoffs})
  <2> DEFINE F == [x \in handoffs |-> Request(msg, x, "LINK_ACTION", "OFF_PLATFORM_HANDOFF", MEDIUM)]
  <2>1. IsFiniteSet(handoffs) /\ \A x \in handoffs : Sensible(F[x])
    BY <1>2, MatchFacts, RequestSensible, FiniteFew
  <2>2. {F[x] : x \in handoffs} = {Request(msg, x, "LINK_ACTION", "OFF_PLATFORM_HANDOFF", MEDIUM) : x \in handoffs}
    OBVIOUS
  <2> HIDE DEF F
  <2>3. AllSensible({F[x] : x \in handoffs})
    BY <2>1, SensibleImage
  <2> QED BY <2>2, <2>3
<1>7. AllSensible({Request(msg, x, "DEVICE_ACTION", "USSD_CODE_DIAL_REQUEST", HIGH) : x \in dials})
  <2> DEFINE F == [x \in dials |-> Request(msg, x, "DEVICE_ACTION", "USSD_CODE_DIAL_REQUEST", HIGH)]
  <2>1. IsFiniteSet(dials) /\ \A x \in dials : Sensible(F[x])
    BY <1>2, MatchFacts, RequestSensible, FiniteFew
  <2>2. {F[x] : x \in dials} = {Request(msg, x, "DEVICE_ACTION", "USSD_CODE_DIAL_REQUEST", HIGH) : x \in dials}
    OBVIOUS
  <2> HIDE DEF F
  <2>3. AllSensible({F[x] : x \in dials})
    BY <2>1, SensibleImage
  <2> QED BY <2>2, <2>3
<1>8. \A a, b : AllSensible(a) /\ AllSensible(b) => AllSensible(a \cup b)
  BY SensibleUnion
<1>9. \A a, b, c, d : AllSensible(a) /\ AllSensible(b) /\ AllSensible(c) /\ AllSensible(d) =>
                          AllSensible(a \cup b \cup c \cup d)
  BY <1>8
<1> DEFINE A == {Claim(msg, x, "CLAIM", TRUE, {PRETEXTS[x.name]} \cup returns(x)) : x \in chosen}
           B == {Claim(msg, x, "CLAIM", FALSE, {<<"EXPLICIT_NO_FEE", HIGH>>}) : x \in free}
           C == {Request(msg, x, "LINK_ACTION", "OFF_PLATFORM_HANDOFF", MEDIUM) : x \in handoffs}
           D == {Request(msg, x, "DEVICE_ACTION", "USSD_CODE_DIAL_REQUEST", HIGH) : x \in dials}
<1>10. PretextFindings(msg) = A \cup B \cup C \cup D
  BY ONLY <1>1, Zenon
<1>11. AllSensible(A) /\ AllSensible(B) /\ AllSensible(C) /\ AllSensible(D)
  BY ONLY <1>4, <1>5, <1>6, <1>7, Zenon
<1> HIDE DEF A, B, C, D
<1> QED BY ONLY <1>9, <1>10, <1>11

\* Technical actions.
LEMMA TechnicalFindingsSensible ==
  ASSUME NEW msg \in Messages
  PROVE  AllSensible(TechnicalFindings(msg))
<1> DEFINE S == Find(msg, "screen_share")
           T == FindAny(msg, DOMAIN TECHNICAL)
<1>1. TechnicalFindings(msg) =
         {Demand(msg, x, "DEVICE_ACTION", "SCREEN_SHARE_APP_REQUEST") : x \in S}
         \cup {Request(msg, x, "DEVICE_ACTION", TECHNICAL[x.name], HIGH) : x \in T}
  BY DEF TechnicalFindings
<1>2. S \in SUBSET msg.matches /\ T \in SUBSET msg.matches
  BY FindFacts
<1> HIDE DEF S, T
<1>3. AllSensible({Demand(msg, x, "DEVICE_ACTION", "SCREEN_SHARE_APP_REQUEST") : x \in S})
  <2> DEFINE F == [x \in S |-> Demand(msg, x, "DEVICE_ACTION", "SCREEN_SHARE_APP_REQUEST")]
  <2>1. IsFiniteSet(S) /\ \A x \in S : Sensible(F[x])
    BY <1>2, MatchFacts, DemandSensible, FiniteFew
  <2>2. {F[x] : x \in S} = {Demand(msg, x, "DEVICE_ACTION", "SCREEN_SHARE_APP_REQUEST") : x \in S}
    OBVIOUS
  <2> HIDE DEF F
  <2>3. AllSensible({F[x] : x \in S})
    BY <2>1, SensibleImage
  <2> QED BY <2>2, <2>3
<1>4. AllSensible({Request(msg, x, "DEVICE_ACTION", TECHNICAL[x.name], HIGH) : x \in T})
  <2> DEFINE F == [x \in T |-> Request(msg, x, "DEVICE_ACTION", TECHNICAL[x.name], HIGH)]
  <2>1. IsFiniteSet(T) /\ \A x \in T : Sensible(F[x])
    BY <1>2, MatchFacts, RequestSensible, FiniteFew
  <2>2. {F[x] : x \in T} = {Request(msg, x, "DEVICE_ACTION", TECHNICAL[x.name], HIGH) : x \in T}
    OBVIOUS
  <2> HIDE DEF F
  <2>3. AllSensible({F[x] : x \in T})
    BY <2>1, SensibleImage
  <2> QED BY <2>2, <2>3
<1> QED BY <1>1, <1>3, <1>4, SensibleUnion

\* What covers a technical action.
LEMMA CoverFindingsSensible ==
  ASSUME NEW msg \in Messages, NEW technical, NEW before
  PROVE  AllSensible(CoverFindings(msg, technical, before))
<1> DEFINE it == IF "it_support_task" \in msg.cues THEN Find(msg, "it_support") ELSE {}
           sensitive == \E f \in before : /\ f.risky /\ f.emits # {}
                                          /\ f.type \in {"AUTHENTICATION_ACTION", "PAYMENT_CONTEXT"}
           pretext == {<<"BENIGN_PRETEXT_FOR_TECHNICAL_ACTION", MEDIUM>>}
           supported == pretext \cup IF sensitive THEN {} ELSE {<<"IT_SUPPORT_CONTEXT", HIGH>>}
           benign == IF \E f \in technical : f.emits # {} THEN pretext ELSE {}
           cues == First(Find(msg, "benign_cue"))
           A == {Claim(msg, x, "CLAIM", FALSE, supported) : x \in First(it)}
           B == {Claim(msg, x, "CLAIM", TRUE, benign) : x \in cues}
<1>1. CoverFindings(msg, technical, before) = IF technical = {} THEN {} ELSE IF it # {} THEN A ELSE B
  BY Zenon DEF CoverFindings
<1>2. First(it) \in SUBSET msg.matches /\ cues \in SUBSET msg.matches
  <2>1. it \in SUBSET msg.matches /\ Find(msg, "benign_cue") \in SUBSET msg.matches
    BY FindFacts
  <2> HIDE DEF it
  <2> QED BY <2>1, FindFacts
<1>3. IsFiniteSet(supported) /\ IsFiniteSet(benign)
  <2>1. IsFiniteSet(pretext) /\ IsFiniteSet(IF sensitive THEN {} ELSE {<<"IT_SUPPORT_CONTEXT", HIGH>>})
    <3> HIDE DEF sensitive
    <3> QED BY FiniteFew
  <2>2. IsFiniteSet(supported)
    <3> HIDE DEF pretext, sensitive
    <3> QED BY <2>1, FS_Union
  <2>3. benign = pretext \/ benign = {}
    OBVIOUS
  <2> HIDE DEF benign, pretext, supported
  <2> QED BY <2>1, <2>2, <2>3, FS_EmptySet
<1> HIDE DEF it, supported, benign, cues
<1>4. AllSensible({Claim(msg, x, "CLAIM", FALSE, supported) : x \in First(it)})
  <2> DEFINE F == [x \in First(it) |-> Claim(msg, x, "CLAIM", FALSE, supported)]
  <2>1. IsFiniteSet(First(it)) /\ \A x \in First(it) : Sensible(F[x])
    BY <1>2, <1>3, MatchFacts, ClaimSensible, FiniteFew
  <2>2. {F[x] : x \in First(it)} = {Claim(msg, x, "CLAIM", FALSE, supported) : x \in First(it)}
    OBVIOUS
  <2> HIDE DEF F
  <2>3. AllSensible({F[x] : x \in First(it)})
    BY <2>1, SensibleImage
  <2> QED BY <2>2, <2>3
<1>5. AllSensible({Claim(msg, x, "CLAIM", TRUE, benign) : x \in cues})
  <2> DEFINE F == [x \in cues |-> Claim(msg, x, "CLAIM", TRUE, benign)]
  <2>1. IsFiniteSet(cues) /\ \A x \in cues : Sensible(F[x])
    BY <1>2, <1>3, MatchFacts, ClaimSensible, FiniteFew
  <2>2. {F[x] : x \in cues} = {Claim(msg, x, "CLAIM", TRUE, benign) : x \in cues}
    OBVIOUS
  <2> HIDE DEF F
  <2>3. AllSensible({F[x] : x \in cues})
    BY <2>1, SensibleImage
  <2> QED BY <2>2, <2>3
<1> HIDE DEF A, B
<1> QED BY <1>1, <1>4, <1>5, SensibleUnion DEF A, B

\* A QR code that is mentioned, and what it is scanned for.
LEMMA QrFindingsSensible ==
  ASSUME NEW msg \in Messages
  PROVE  AllSensible(QrFindings(msg))
<1> DEFINE attachments == Find(msg, "attachment")
           marker == First(IF attachments # {} THEN attachments ELSE Find(msg, "qr_mention"))
           scans == {y \in Find(msg, "qr_scan") : y.after # <<>>}
           present(x) == [Finding(x, "CLAIM", Unstated, FALSE, {<<"QR_PRESENT", MEDIUM>>}) EXCEPT !.claim = TRUE]
<1>1. QrFindings(msg) = IF ~ QrPresent(msg) THEN {}
                        ELSE {present(x) : x \in marker} \cup {QrScan(msg, x) : x \in scans}
  BY Zenon DEF QrFindings
<1>2. marker \in SUBSET msg.matches /\ scans \in SUBSET msg.matches
  <2>1. \A name : Find(msg, name) \in SUBSET msg.matches
    BY FindFacts
  <2>2. (IF attachments # {} THEN attachments ELSE Find(msg, "qr_mention")) \in SUBSET msg.matches
    BY <2>1
  <2>3. marker \in SUBSET msg.matches
    <3> HIDE DEF attachments
    <3> QED BY <2>2, FindFacts
  <2> QED BY <2>1, <2>3
<1>3. ASSUME NEW x \in msg.matches PROVE Sensible(present(x))
  <2>1. x.start \in Nat /\ x.end \in Nat /\ IsFiniteSet({<<"QR_PRESENT", MEDIUM>>})
    BY MatchFacts, FiniteFew
  <2>2. live_first_party(Unstated)
    BY DEF Unstated, Structure, live_first_party
  <2> DEFINE emits == {<<"QR_PRESENT", MEDIUM>>}
             d == present(x)
  <2> HIDE DEF emits
  <2>3. d.start = x.start /\ d.end = x.end /\ d.status = "OBSERVED" /\ d.s = Unstated /\ d.emits = emits
    BY DEF Finding, emits
  <2> HIDE DEF d
  <2>4. Sensible(d)
    BY <2>1, <2>2, <2>3 DEF Sensible, emits
  <2> QED BY <2>4 DEF d
<1>4. ASSUME NEW x \in msg.matches PROVE Sensible(QrScan(msg, x))
  <2> DEFINE s == structure(msg, x, TRUE)
             pays == SelectSeq(x.after, LAMBDA d : d # "receive")
             way == IF Contains(x.after, "receive") THEN {<<"RECEIVE_FRAMING", HIGH>>}
                    ELSE IF Head(pays) = "merchant" THEN {<<"PAY_MERCHANT_DIRECTION", HIGH>>} ELSE {}
             emits == IF ~ live_first_party(s) THEN {} ELSE {<<"QR_SCAN_REQUEST", MEDIUM>>} \cup way
  <2>1. QrScan(msg, x) = Finding(x, "PAYMENT_CONTEXT", s, TRUE, emits)
    BY DEF QrScan
  <2>2. way = {<<"RECEIVE_FRAMING", HIGH>>} \/ way = {<<"PAY_MERCHANT_DIRECTION", HIGH>>} \/ way = {}
    <3> HIDE DEF pays
    <3> QED OBVIOUS
  <2> HIDE DEF way, s
  <2>3. IsFiniteSet(way) /\ IsFiniteSet({<<"QR_SCAN_REQUEST", MEDIUM>>})
    BY <2>2, FiniteFew
  <2>4. IsFiniteSet({<<"QR_SCAN_REQUEST", MEDIUM>>} \cup way)
    BY <2>3, FS_Union
  <2>5. IsFiniteSet(emits) /\ \A e \in emits : live_first_party(s)
    BY <2>4, FS_EmptySet
  <2>6. x.start \in Nat /\ x.end \in Nat
    BY MatchFacts
  <2> HIDE DEF emits
  <2> QED BY <2>1, <2>5, <2>6 DEF Sensible, Finding
<1> HIDE DEF marker, scans, present
<1>5. AllSensible({present(x) : x \in marker})
  <2> DEFINE F == [x \in marker |-> present(x)]
  <2>1. IsFiniteSet(marker) /\ \A x \in marker : Sensible(F[x])
    BY <1>2, <1>3, MatchFacts
  <2>2. {F[x] : x \in marker} = {present(x) : x \in marker}
    OBVIOUS
  <2> HIDE DEF F
  <2>3. AllSensible({F[x] : x \in marker})
    BY <2>1, SensibleImage
  <2> QED BY <2>2, <2>3
<1>6. AllSensible({QrScan(msg, x) : x \in scans})
  <2> DEFINE F == [x \in scans |-> QrScan(msg, x)]
  <2>1. IsFiniteSet(scans) /\ \A x \in scans : Sensible(F[x])
    BY <1>2, <1>4, MatchFacts
  <2>2. {F[x] : x \in scans} = {QrScan(msg, x) : x \in scans}
    OBVIOUS
  <2> HIDE DEF F
  <2>3. AllSensible({F[x] : x \in scans})
    BY <2>1, SensibleImage
  <2> QED BY <2>2, <2>3
<1>7. AllSensible({present(x) : x \in marker} \cup {QrScan(msg, x) : x \in scans})
  BY <1>5, <1>6, SensibleUnion
<1> QED BY <1>1, <1>7, SensibleUnion

\* Links (_url_findings).
LEMMA UrlFindingsSensible ==
  ASSUME NEW msg \in Messages
  PROVE  AllSensible(UrlFindings(msg))
<1> DEFINE S == {y \in msg.matches : y.name = "url"}
           flags(x) == x.detail \cap DOMAIN URL_FLAGS
           emits(x) == {<<"LINK_PRESENT", HIGH>>} \cup {<<URL_FLAGS[d], HIGH>> : d \in flags(x)}
<1>1. UrlFindings(msg) = {Claim(msg, x, "LINK_ACTION", TRUE, emits(x)) : x \in S}
  BY Zenon DEF UrlFindings
<1>2. S \in SUBSET msg.matches
  OBVIOUS
<1>3. \A x : IsFiniteSet(emits(x))
  <2> TAKE x
  <2> DEFINE F == [d \in flags(x) |-> <<URL_FLAGS[d], HIGH>>]
             T == {<<URL_FLAGS[d], HIGH>> : d \in flags(x)}
  <2>1. flags(x) \in SUBSET {"verify", "short"}
    BY DEF URL_FLAGS
  <2>2. IsFiniteSet({"verify", "short"})
    BY FiniteFew
  <2> HIDE DEF flags
  <2>3. IsFiniteSet(flags(x))
    BY <2>1, <2>2, FS_Subset
  <2>4. F \in [flags(x) -> T]
    OBVIOUS
  <2>5. {F[d] : d \in flags(x)} = T
    OBVIOUS
  <2> HIDE DEF F, T
  <2>6. IsFiniteSet({F[d] : d \in flags(x)})
    BY ONLY <2>3, <2>4, ImageFinite
  <2>7. IsFiniteSet(T) /\ IsFiniteSet({<<"LINK_PRESENT", HIGH>>})
    BY <2>5, <2>6, FiniteFew
  <2>8. IsFiniteSet({<<"LINK_PRESENT", HIGH>>} \cup T)
    BY <2>7, FS_Union
  <2> QED BY <2>8 DEF T
<1> HIDE DEF S, emits
<1>4. AllSensible({Claim(msg, x, "LINK_ACTION", TRUE, emits(x)) : x \in S})
  <2> DEFINE F == [x \in S |-> Claim(msg, x, "LINK_ACTION", TRUE, emits(x))]
  <2>1. IsFiniteSet(S) /\ \A x \in S : Sensible(F[x])
    BY <1>2, <1>3, MatchFacts, ClaimSensible, FiniteFew
  <2>2. {F[x] : x \in S} = {Claim(msg, x, "LINK_ACTION", TRUE, emits(x)) : x \in S}
    OBVIOUS
  <2> HIDE DEF F
  <2>3. AllSensible({F[x] : x \in S})
    BY <2>1, SensibleImage
  <2> QED BY <2>2, <2>3
<1> QED BY <1>1, <1>4

\* Identities that are claimed.
LEMMA AuthorityFindingsSensible ==
  ASSUME NEW msg \in Messages, NEW before
  PROVE  AllSensible(AuthorityFindings(msg, before))
<1> DEFINE directed == \E f \in before :
              /\ f.emits # {} /\ f.risky
              /\ f.type \in {"AUTHENTICATION_ACTION", "PAYMENT_CONTEXT", "DEVICE_ACTION", "LINK_ACTION"}
              /\ f.s.mood # "DESCRIPTIVE" /\ ~ f.claim
           bank == IF directed THEN {<<"AUTHORITY_IMPERSONATION_BANK", MEDIUM>>} ELSE {}
           authority == IF directed \/ Threatened(before) THEN {<<"AUTHORITY_IMPERSONATION", MEDIUM>>} ELSE {}
           banks == Find(msg, "bank_claim")
           authorities == Find(msg, "authority_claim")
<1>1. AuthorityFindings(msg, before) =
         {Claim(msg, x, "CLAIM", FALSE, bank) : x \in banks}
         \cup {Claim(msg, x, "CLAIM", FALSE, authority) : x \in authorities}
  BY Zenon DEF AuthorityFindings
<1>2. banks \in SUBSET msg.matches /\ authorities \in SUBSET msg.matches
  BY FindFacts
<1>3. IsFiniteSet(bank) /\ IsFiniteSet(authority)
  <2> HIDE DEF directed
  <2> QED BY FiniteFew
<1> HIDE DEF banks, authorities, bank, authority
<1>4. AllSensible({Claim(msg, x, "CLAIM", FALSE, bank) : x \in banks})
  <2> DEFINE F == [x \in banks |-> Claim(msg, x, "CLAIM", FALSE, bank)]
  <2>1. IsFiniteSet(banks) /\ \A x \in banks : Sensible(F[x])
    BY <1>2, <1>3, MatchFacts, ClaimSensible, FiniteFew
  <2>2. {F[x] : x \in banks} = {Claim(msg, x, "CLAIM", FALSE, bank) : x \in banks}
    OBVIOUS
  <2> HIDE DEF F
  <2>3. AllSensible({F[x] : x \in banks})
    BY <2>1, SensibleImage
  <2> QED BY <2>2, <2>3
<1>5. AllSensible({Claim(msg, x, "CLAIM", FALSE, authority) : x \in authorities})
  <2> DEFINE F == [x \in authorities |-> Claim(msg, x, "CLAIM", FALSE, authority)]
  <2>1. IsFiniteSet(authorities) /\ \A x \in authorities : Sensible(F[x])
    BY <1>2, <1>3, MatchFacts, ClaimSensible, FiniteFew
  <2>2. {F[x] : x \in authorities} = {Claim(msg, x, "CLAIM", FALSE, authority) : x \in authorities}
    OBVIOUS
  <2> HIDE DEF F
  <2>3. AllSensible({F[x] : x \in authorities})
    BY <2>1, SensibleImage
  <2> QED BY <2>2, <2>3
<1> QED BY <1>1, <1>4, <1>5, SensibleUnion

\* Safety language.
LEMMA SafetyFindingsSensible ==
  ASSUME NEW msg \in Messages
  PROVE  AllSensible(SafetyFindings(msg))
<1> DEFINE t == Structure("AFFIRMED", "HYPOTHETICAL", "DESCRIPTIVE")
           educational == First(Find(msg, "educational"))
           channels == Find(msg, "official_channel")
<1>1. SafetyFindings(msg) =
         {Finding(x, "CLAIM", t, FALSE, {<<"EDUCATIONAL_CONTENT", HIGH>>}) : x \in educational}
         \cup {Claim(msg, x, "CLAIM", FALSE, {}) : x \in channels}
  BY Zenon DEF SafetyFindings
<1>2. educational \in SUBSET msg.matches /\ channels \in SUBSET msg.matches
  BY FindFacts
<1>3. ASSUME NEW x \in msg.matches PROVE Sensible(Finding(x, "CLAIM", t, FALSE, {<<"EDUCATIONAL_CONTENT", HIGH>>}))
  <2> DEFINE emits == {<<"EDUCATIONAL_CONTENT", HIGH>>}
  <2>1. x.start \in Nat /\ x.end \in Nat /\ IsFiniteSet(emits)
    BY MatchFacts, FiniteFew
  <2>2. \A e \in emits : e[1] \in Safety
    BY DEF Safety
  <2> HIDE DEF emits, t
  <2>3. Sensible(Finding(x, "CLAIM", t, FALSE, emits))
    BY <2>1, <2>2 DEF Sensible, Finding
  <2> QED BY <2>3 DEF emits
<1> HIDE DEF educational, channels, t
<1>4. AllSensible({Finding(x, "CLAIM", t, FALSE, {<<"EDUCATIONAL_CONTENT", HIGH>>}) : x \in educational})
  <2> DEFINE F == [x \in educational |-> Finding(x, "CLAIM", t, FALSE, {<<"EDUCATIONAL_CONTENT", HIGH>>})]
  <2>1. IsFiniteSet(educational) /\ \A x \in educational : Sensible(F[x])
    BY <1>2, <1>3, MatchFacts
  <2>2. {F[x] : x \in educational} = {Finding(x, "CLAIM", t, FALSE, {<<"EDUCATIONAL_CONTENT", HIGH>>}) : x \in educational}
    OBVIOUS
  <2> HIDE DEF F
  <2>3. AllSensible({F[x] : x \in educational})
    BY <2>1, SensibleImage
  <2> QED BY <2>2, <2>3
<1>5. AllSensible({Claim(msg, x, "CLAIM", FALSE, {}) : x \in channels})
  <2> DEFINE F == [x \in channels |-> Claim(msg, x, "CLAIM", FALSE, {})]
  <2>1. IsFiniteSet(channels) /\ \A x \in channels : Sensible(F[x])
    BY <1>2, MatchFacts, ClaimSensible, FiniteFew
  <2>2. {F[x] : x \in channels} = {Claim(msg, x, "CLAIM", FALSE, {}) : x \in channels}
    OBVIOUS
  <2> HIDE DEF F
  <2>3. AllSensible({F[x] : x \in channels})
    BY <2>1, SensibleImage
  <2> QED BY <2>2, <2>3
<1> QED BY <1>1, <1>4, <1>5, SensibleUnion

\* Everything that is found (_find_all): whatever the patterns match, nothing positive rests on
\* words that are denied, quoted, reported or hypothetical.
LEMMA FoundSensible ==
  ASSUME NEW msg \in Messages
  PROVE  AllSensible(FindAll(msg))
<1> DEFINE threats == ThreatFindings(msg)
           asked == Asked(msg, threats)
           pressed == Pressed(msg, asked)
           technical == TechnicalFindings(msg)
           described == Described(msg, technical, pressed)
<1>1. \A a, b : AllSensible(a) /\ AllSensible(b) => AllSensible(a \cup b)
  BY SensibleUnion
<1>2. AllSensible(threats) /\ AllSensible(technical)
  BY ThreatFindingsSensible, TechnicalFindingsSensible
<1>3. FindAll(msg) = Identified(msg, described)
  BY DEF FindAll
<1> HIDE DEF threats, technical
<1>4. AllSensible(asked)
  <2>1. AllSensible(CredentialFindings(msg)) /\ AllSensible(Delivered(msg))
    BY CredentialFindingsSensible, DeliveredSensible
  <2>2. AllSensible(PaymentFindings(msg, Threatened(threats)))
    BY PaymentFindingsSensible
  <2> QED BY <1>1, <1>2, <2>1, <2>2 DEF Asked
<1> HIDE DEF asked
<1>5. AllSensible(pressed)
  <2>1. AllSensible(PressureFindings(msg, asked)) /\ AllSensible(CoercionFindings(msg))
    BY PressureFindingsSensible, CoercionFindingsSensible
  <2>2. AllSensible(PretextFindings(msg))
    BY PretextFindingsSensible
  <2> QED BY <1>1, <1>4, <2>1, <2>2 DEF Pressed
<1> HIDE DEF pressed
<1>6. AllSensible(described)
  <2>1. AllSensible(CoverFindings(msg, technical, pressed \cup technical))
    BY CoverFindingsSensible
  <2>2. AllSensible(QrFindings(msg)) /\ AllSensible(UrlFindings(msg))
    BY QrFindingsSensible, UrlFindingsSensible
  <2> QED BY <1>1, <1>2, <1>5, <2>1, <2>2 DEF Described
<1> HIDE DEF described
<1>7. AllSensible(Identified(msg, described))
  <2>1. AllSensible(AuthorityFindings(msg, described)) /\ AllSensible(SafetyFindings(msg))
    BY AuthorityFindingsSensible, SafetyFindingsSensible
  <2> QED BY <1>1, <1>6, <2>1 DEF Identified
<1> QED BY <1>3, <1>7

\* What the kernel can rely on in extracted host data: one input, one observation for each
\* identifier, all references resolved, nothing observed that is not there, and every positive
\* indicator on one observation of affirmed first-party words.
Projected(h) ==
    /\ IsFiniteSet(h.occs) /\ IsFiniteSet(h.obs)
    /\ \A o \in h.obs : o.id \in Nat /\ o.input = 1 /\ o.status \in {"OBSERVED", "AMBIGUOUS"}
    /\ \A a, b \in h.obs : a.id = b.id => a = b
    /\ \A io \in h.occs :
          /\ io.input = 1 /\ io.matched = "OBSERVED" /\ io.polarity = Polarity(io.ind)
          /\ io.refs \subseteq {o.id : o \in h.obs}
          /\ io.ind \in DOMAIN Indicators => \E o \in h.obs : io.refs = {o.id} /\ FirstParty(o)

\* The safety indicators are not positive ones.
LEMMA SafetyNotPositive == \A ind \in Safety : ind \notin DOMAIN Indicators
BY TextShaped, KnowledgeAccepted DEF UniqueIds

\* Findings become such data (_materialize).
LEMMA MaterializedProjected ==
  ASSUME NEW found, AllSensible(found)
  PROVE  Projected(Materialized(found))
<1> DEFINE ordered == InTextOrder(found)
           observed(i) == [id |-> i, status |-> ordered[i].status, polarity |-> ordered[i].s.polarity,
                           attribution |-> ordered[i].s.attribution, mood |-> ordered[i].s.mood, input |-> 1]
           projected(i) == {Occur(e[1], e[2], {i}) : e \in ordered[i].emits}
           groups == {projected(i) : i \in DOMAIN ordered}
           ids == {i \in DOMAIN ordered : ordered[i] \in Reported(found)}
           narrative == Occur("REPORTED_SCAM_NARRATIVE", HIGH, ids)
           narratives == IF Reported(found) = {} THEN {} ELSE {narrative}
           obs == {observed(i) : i \in DOMAIN ordered}
           occs == (UNION groups) \cup narratives
           h == Materialized(found)
<1>1. h.obs = obs /\ h.occs = occs
  BY DEF Materialized
<1>2. ordered \in Seq(found)
  <2>1. IsFiniteSet(found) /\ \A f \in found : f.start \in Nat /\ f.end \in Nat
    BY DEF AllSensible, Sensible
  <2> QED BY <2>1, OrderTyped
<1> HIDE DEF ordered, h
<1>3. DOMAIN ordered \subseteq Nat /\ IsFiniteSet(DOMAIN ordered) /\ \A i \in DOMAIN ordered : Sensible(ordered[i])
  <2>1. DOMAIN ordered = 1..Len(ordered) /\ Len(ordered) \in Nat /\ \A i \in DOMAIN ordered : ordered[i] \in found
    BY <1>2
  <2>2. IsFiniteSet(1..Len(ordered))
    BY <2>1, FS_Interval
  <2> QED BY <2>1, <2>2 DEF AllSensible
<1>4. \A i \in DOMAIN ordered :
         /\ observed(i).id = i /\ observed(i).input = 1 /\ observed(i).status \in {"OBSERVED", "AMBIGUOUS"}
         /\ FirstParty(observed(i)) = live_first_party(ordered[i].s)
  BY <1>3 DEF Sensible, FirstParty, live_first_party
<1> HIDE DEF observed
<1>5. /\ \A o \in obs : o.id \in Nat /\ o.input = 1 /\ o.status \in {"OBSERVED", "AMBIGUOUS"}
      /\ \A a, b \in obs : a.id = b.id => a = b
  BY <1>3, <1>4
<1>6. IsFiniteSet(obs)
  <2> DEFINE F == [i \in DOMAIN ordered |-> observed(i)]
  <2>1. F \in [DOMAIN ordered -> obs]
    OBVIOUS
  <2>2. {F[i] : i \in DOMAIN ordered} = obs
    OBVIOUS
  <2>3. IsFiniteSet(DOMAIN ordered)
    BY <1>3
  <2> HIDE DEF F, obs
  <2>4. IsFiniteSet({F[i] : i \in DOMAIN ordered})
    BY ONLY <2>1, <2>3, ImageFinite
  <2> QED BY <2>2, <2>4
<1>7. ASSUME NEW i \in DOMAIN ordered PROVE IsFiniteSet(projected(i))
  <2> DEFINE emits == ordered[i].emits
             F == [e \in emits |-> Occur(e[1], e[2], {i})]
             T == projected(i)
  <2>1. F \in [emits -> T]
    OBVIOUS
  <2>2. {F[e] : e \in emits} = T
    OBVIOUS
  <2>3. IsFiniteSet(emits)
    BY <1>3 DEF Sensible
  <2> HIDE DEF F, T, emits
  <2>4. IsFiniteSet({F[e] : e \in emits})
    BY ONLY <2>1, <2>3, ImageFinite
  <2>5. IsFiniteSet(T)
    BY <2>2, <2>4
  <2> QED BY <2>5 DEF T
<1>8. ASSUME NEW i \in DOMAIN ordered, NEW io \in projected(i)
      PROVE  /\ io.input = 1 /\ io.matched = "OBSERVED" /\ io.polarity = Polarity(io.ind) /\ io.refs = {i}
             /\ io.ind \in DOMAIN Indicators => FirstParty(observed(i))
  <2>1. PICK e \in ordered[i].emits : io = Occur(e[1], e[2], {i})
    OBVIOUS
  <2>2. /\ io.input = 1 /\ io.matched = "OBSERVED" /\ io.polarity = Polarity(e[1]) /\ io.refs = {i}
        /\ io.ind = e[1]
    BY <2>1 DEF Occur
  <2>3. e[1] \in Safety \/ live_first_party(ordered[i].s)
    BY <1>3 DEF Sensible
  <2> QED BY <1>4, <2>2, <2>3, SafetyNotPositive
<1>9. /\ narrative.input = 1 /\ narrative.matched = "OBSERVED" /\ narrative.polarity = Polarity(narrative.ind)
      /\ narrative.refs = ids /\ narrative.ind \notin DOMAIN Indicators
  <2>1. narrative.ind = "REPORTED_SCAM_NARRATIVE" /\ "REPORTED_SCAM_NARRATIVE" \in Safety
    BY DEF Occur, Safety
  <2>2. narrative.input = 1 /\ narrative.matched = "OBSERVED" /\ narrative.refs = ids
    BY DEF Occur
  <2>3. narrative.polarity = Polarity("REPORTED_SCAM_NARRATIVE")
    BY DEF Occur
  <2> HIDE DEF narrative, ids
  <2> QED BY <2>1, <2>2, <2>3, SafetyNotPositive
<1>10. IsFiniteSet(occs)
  <2> DEFINE F == [i \in DOMAIN ordered |-> projected(i)]
  <2>1. F \in [DOMAIN ordered -> groups]
    OBVIOUS
  <2>2. {F[i] : i \in DOMAIN ordered} = groups
    OBVIOUS
  <2>3. IsFiniteSet(DOMAIN ordered)
    BY <1>3
  <2>4. \A g \in groups : IsFiniteSet(g)
    BY <1>7
  <2>5. IsFiniteSet(narratives)
    BY FiniteFew
  <2> HIDE DEF F, groups, narratives
  <2>6. IsFiniteSet({F[i] : i \in DOMAIN ordered})
    BY ONLY <2>1, <2>3, ImageFinite
  <2>7. IsFiniteSet(UNION groups)
    BY <2>2, <2>4, <2>6, FS_UNION
  <2> QED BY <2>5, <2>7, FS_Union
<1>11. \A io \in occs : io = narrative \/ \E i \in DOMAIN ordered : io \in projected(i)
  OBVIOUS
<1>12. \A i \in DOMAIN ordered : observed(i) \in obs /\ observed(i).id = i
  BY <1>4
<1>13. ids \subseteq DOMAIN ordered
  OBVIOUS
<1> HIDE DEF projected, obs, occs, narrative, ids
<1>14. ASSUME NEW io \in occs
       PROVE  /\ io.input = 1 /\ io.matched = "OBSERVED" /\ io.polarity = Polarity(io.ind)
              /\ io.refs \subseteq {o.id : o \in obs}
              /\ io.ind \in DOMAIN Indicators => \E o \in obs : io.refs = {o.id} /\ FirstParty(o)
  <2>1. CASE io = narrative
    BY <1>9, <1>12, <1>13, <2>1
  <2>2. ASSUME NEW i \in DOMAIN ordered, io \in projected(i)
        PROVE  /\ io.input = 1 /\ io.matched = "OBSERVED" /\ io.polarity = Polarity(io.ind)
               /\ io.refs \subseteq {o.id : o \in obs}
               /\ io.ind \in DOMAIN Indicators => \E o \in obs : io.refs = {o.id} /\ FirstParty(o)
    BY <1>8, <1>12, <2>2
  <2> QED BY <1>11, <2>1, <2>2
<1>15. \A io \in occs :
         /\ io.input = 1 /\ io.matched = "OBSERVED" /\ io.polarity = Polarity(io.ind)
         /\ io.refs \subseteq {o.id : o \in obs}
         /\ io.ind \in DOMAIN Indicators => \E o \in obs : io.refs = {o.id} /\ FirstParty(o)
  BY <1>14
<1>16. Projected(h)
  BY ONLY <1>1, <1>5, <1>6, <1>10, <1>15 DEF Projected
<1> QED BY <1>16 DEF h

\* Of every text (extract_text).
LEMMA ExtractedProjected ==
  ASSUME NEW msg \in Messages
  PROVE  /\ Projected(extract_text(msg)) /\ HostShaped(extract_text(msg))
         /\ ~ extract_text(msg).enabled
<1>1. ASSUME NEW found, AllSensible(found), NEW language, NEW script, NEW support \in Supports, NEW whole \in BOOLEAN
      PROVE  LET h == HostData(found, language, script, support, whole)
             IN  Projected(h) /\ HostShaped(h) /\ ~ h.enabled
  <2> DEFINE h == HostData(found, language, script, support, whole)
             m == Materialized(found)
  <2>1. Projected(m)
    BY <1>1, MaterializedProjected
  <2>2. h.obs = m.obs /\ h.occs = m.occs /\ h.support = support /\ h.whole = whole /\ ~ h.enabled
    BY DEF HostData
  <2> HIDE DEF h, m
  <2>3. Projected(h)
    BY <2>1, <2>2 DEF Projected
  <2>4. HostShaped(h)
    BY <1>1, <2>2, <2>3 DEF HostShaped, Projected
  <2> QED BY <2>2, <2>3, <2>4 DEF h
<1>2. AllSensible({}) /\ AllSensible(FindAll(msg))
  BY SensibleUnion, FoundSensible
<1> DEFINE text == Text(normalize(msg.raw))
           language == assess_language(text)
           found == IF language.supported THEN FindAll(msg) ELSE {}
           support == Support(text, language, Materialized(found).occs,
                              language.supported /\ Find(msg, "attachment") # {})
<1>3. extract_text(msg) = IF Malformed(msg) THEN HostData({}, "und", "Zzzz", "ERROR", TRUE)
                          ELSE HostData(found, language.language, language.script, support, FALSE)
  BY DEF extract_text, Evaluated, Extracted
<1>4. AllSensible(found)
  <2> HIDE DEF language
  <2> QED BY <1>2
<1>5. support \in Supports
  <2> HIDE DEF language, text, found
  <2> QED BY DEF Support, Supports, Evaluable
<1>6. "ERROR" \in Supports
  BY DEF Supports
<1> HIDE DEF found, support, language
<1> QED BY <1>1, <1>2, <1>3, <1>4, <1>5, <1>6

-----------------------------------------------------------------------------
(* The evaluation of a message *)

\* What a message leads to: its host data, which AI is never asked about.
Carried ==
    message # Given =>
        /\ message \in Messages /\ input = extract_text(message)
        /\ ~ input.enabled
        /\ stage = "gate" \/ (stage \notin Early /\ reason # "NONE")

\* The inductive invariant of an evaluation of messages.
XInv == AInv /\ Carried

\* Every evaluation of a message keeps the invariant of the evaluation of host data.
THEOREM ExtractionInvariant == ExtractionSpec => []XInv
<1>1. ExtractionInit => XInv
  <2>1. CASE message = Given /\ Init
    BY <2>1, InitInvariant, DataShaped DEF Init, XInv, Carried
  <2>2. CASE message \in Messages /\ input = extract_text(message) /\ Started
    <3>1. HostShaped(input) /\ ~ input.enabled
      BY <2>2, ExtractedProjected
    <3>2. AInv
      BY <2>2, <3>1, InitInvariant
    <3> QED BY <2>2, <3>1, <3>2 DEF XInv, Carried, Started
  <2> QED BY <2>1, <2>2 DEF ExtractionInit
<1>2. XInv /\ [ExtractionNext]_<<vars, message>> => XInv'
  <2> SUFFICES ASSUME XInv, [ExtractionNext]_<<vars, message>>
               PROVE  XInv'
    OBVIOUS
  <2>1. AInv /\ [Next]_vars /\ message' = message
    BY DEF XInv, ExtractionNext
  <2>2. AInv'
    BY <2>1, StepInvariant
  <2>3. Carried'
    <3> SUFFICES ASSUME message # Given
                 PROVE  Carried'
      BY <2>1 DEF Carried
    <3>1. /\ message \in Messages /\ input = extract_text(message) /\ ~ input.enabled
          /\ stage = "gate" \/ (stage \notin Early /\ reason # "NONE")
      BY DEF XInv, Carried
    <3>2. /\ input' = input
          /\ stage' = "gate" \/ (stage' \notin Early /\ reason' # "NONE")
      <4>1. CASE UNCHANGED vars
        BY <3>1, <4>1 DEF vars
      <4>2. CASE stage = "gate" /\ Next
        <5>1. Disabled
          BY <3>1, <4>2 DEF Next, Disabled, NotEvaluable, Prepare, ProviderFails, ProviderAnswers, RejectResponse,
                 AcceptResponse, Govern, MapFails, MapProposals, EvaluateRules, Suppress, Aggregate, Explain, Assemble
        <5> QED BY <5>1 DEF Disabled, FallBack, GoOn, Early
      <4>3. CASE stage \notin Early /\ reason # "NONE" /\ Next
        <5>1. EvaluateRules \/ Suppress \/ Aggregate \/ Explain \/ Assemble
          BY <4>3 DEF Next, Disabled, NotEvaluable, Prepare, ProviderFails, ProviderAnswers, RejectResponse,
                 AcceptResponse, Govern, MapFails, MapProposals, Early
        <5> QED BY <4>3, <5>1 DEF EvaluateRules, Suppress, Aggregate, Explain, Assemble, Refuse, Early
      <4> QED BY <2>1, <3>1, <4>1, <4>2, <4>3
    <3> QED BY <2>1, <3>1, <3>2 DEF Carried
  <2> QED BY <2>2, <2>3 DEF XInv
<1> QED BY <1>1, <1>2, PTL DEF ExtractionSpec

\* What holds of every evaluation of host data holds of every evaluation of a message
\* (extraction.py, result.py).
THEOREM MessagesEvaluated ==
  ExtractionSpec => [](StagesAgree /\ IndependenceIsMatching /\ AiOnlyAdds /\ ClearIsFinal)
<1>1. XInv => StagesAgree /\ IndependenceIsMatching /\ AiOnlyAdds /\ ClearIsFinal
  BY IndependenceOfInvariant, AdditionsOfInvariant, ClearOfInvariant DEF XInv, AInv
<1> QED BY <1>1, ExtractionInvariant, PTL

-----------------------------------------------------------------------------
(* Only live words count *)

\* The one element of a set of one.
LEMMA OneElement ==
  ASSUME NEW x
  PROVE  Cardinality({x}) = 1 /\ (CHOOSE s \in {x} : TRUE) = x
BY FS_Singleton

\* The kernel accepts what is extracted (observations.py build_validated_context).
LEMMA ProjectedAccepted ==
  ASSUME NEW h, Projected(h)
  PROVE  ValidContext(h.occs, h.obs)
<1>1. \A a, b \in h.obs : a.id = b.id => a = b
  BY DEF Projected
<1>2. Cardinality({io.input : io \in h.occs} \cup {o.input : o \in h.obs}) <= 1
  <2> DEFINE inputs == {io.input : io \in h.occs} \cup {o.input : o \in h.obs}
  <2>1. inputs \in SUBSET {1}
    BY DEF Projected
  <2> HIDE DEF inputs
  <2>2. Cardinality(inputs) <= Cardinality({1}) /\ Cardinality({1}) = 1
    BY <2>1, FS_Singleton, FS_Subset
  <2>3. Cardinality(inputs) <= 1
    BY <2>2
  <2> QED BY <2>3 DEF inputs
<1>3. ASSUME NEW io \in h.occs
      PROVE  /\ io.refs \subseteq {o.id : o \in h.obs}
             /\ \A r \in io.refs : ~ (/\ io.matched = "OBSERVED"
                                      /\ ById(h.obs)[r].status \in {"NOT_OBSERVED", "NOT_APPLICABLE"})
  <2>1. io.refs \subseteq {o.id : o \in h.obs}
    BY DEF Projected
  <2>2. ASSUME NEW r \in io.refs
        PROVE  ById(h.obs)[r].status \notin {"NOT_OBSERVED", "NOT_APPLICABLE"}
    <3>1. PICK o \in h.obs : o.id = r
      BY <2>1
    <3>2. ById(h.obs)[r] = o
      BY <1>1, <3>1, ByIdFacts DEF UniqueObs
    <3> QED BY <3>2 DEF Projected
  <2> QED BY <2>1, <2>2
<1> QED BY <1>1, <1>2, <1>3 DEF ValidContext

\* An ambiguous observation leaves what rests on it open (evaluator.py).
LEMMA DoubtfulNotTrue ==
  ASSUME NEW obs, NEW io, NEW r, io.refs = {r}, obs[r].status = "AMBIGUOUS", NEW s
  PROVE  OccurrenceTruth(obs, io, s).value # "TRUE"
<1>1. observation_verdict(obs[r]) = "UNRESOLVED"
  BY DEF observation_verdict
<1>2. {observation_verdict(obs[q]) : q \in io.refs} = {"UNRESOLVED"}
  BY <1>1
<1>3. structural_verdict(obs, io) = "UNRESOLVED"
  BY <1>2, OneElement, Zenon DEF structural_verdict
<1> DEFINE g == gate_single(io)
           base == IF g.value = "FALSE" THEN g ELSE Truth("UNKNOWN", "unresolved_structure")
<1>4. base.value # "TRUE"
  BY DEF Truth
<1>5. OccurrenceTruth(obs, io, s) = IF io.polarity \notin {"NONE", "POSITIVE"} THEN Truth("UNKNOWN", "polarity_mismatch")
                                    ELSE IF base.value = "FALSE" THEN base
                                    ELSE suppression_association(io, s, base)
  BY <1>3 DEF OccurrenceTruth
<1> HIDE DEF base
<1> QED BY <1>4, <1>5 DEF Truth, Neutral, suppression_association

\* A composite rule fires over some positive indicator that an occurrence makes true.
LEMMA FiringRests ==
  ASSUME NEW ctx, NEW id \in PublishedRules, is_eligible_matched(apply(run_isolated(ctx, id)))
  PROVE  \E p \in Present(ctx) : \E s : \E io \in OccurrencesOf(ctx, p) :
            OccurrenceTruth(ctx.obs, io, s).value = "TRUE"
<1> DEFINE q == run_isolated(ctx, id)
<1>1. RuleSound(q) /\ Fresh(q)
  BY EvaluatedSound
<1>2. apply(q).kind = "COMPOSITE" /\ apply(q).state = "MATCHED"
  BY DEF is_eligible_matched
<1>3. /\ apply(q).kind = q.kind
      /\ q.kind # "COMPOSITE" \/ q.state # "MATCHED" => apply(q) = q
  BY <1>1, ApplyFields DEF Fresh
<1>4. q.kind = "COMPOSITE" /\ q.state = "MATCHED"
  <2> HIDE DEF q
  <2> QED BY <1>2, <1>3
<1>5. Rules[id].kind = "COMPOSITE" /\ q = evaluate_composite(ctx, id)
  <2>1. language_in_scope(ctx, id)
    BY <1>4, NotApplicableFields DEF run_isolated
  <2>2. Rules[id].kind = "COMPOSITE"
    BY <1>1, <1>4, EvaluatedSound DEF RuleSound
  <2> QED BY <2>1, <2>2 DEF run_isolated
<1> DEFINE c == Rules[id].cond
           u == [p \in Present(ctx) |-> RulePositives(ctx, id)[p].value]
           U == {p \in (operands(c) \cap DOMAIN Indicators) \cap Present(ctx) : RulePositives(ctx, id)[p].value = "TRUE"}
           classes == {Indicators[p].class : p \in U}
           state == CASE eval_condition(c, u) = "TRUE" -> IF Cardinality(classes) >= Rules[id].min_classes
                                                          THEN "MATCHED" ELSE "NOT_MATCHED"
                      [] eval_condition(c, u) = "FALSE" -> "NOT_MATCHED"
                      [] eval_condition(c, u) = "UNKNOWN" -> "INDETERMINATE"
<1>6. q.state = state
  <2> DEFINE active == RuleOverrides(ctx, id)
             matched == RuleNegatives(ctx, id)
             pos == RulePositives(ctx, id)
  <2>1. q = CompositeResult(ctx, id, active, matched, pos)
    <3> HIDE DEF q
    <3> QED BY <1>5 DEF evaluate_composite
  <2> HIDE DEF q, active, matched
  <2>2. CompositeResult(ctx, id, active, matched, pos).state = state
    BY DEF CompositeResult, NoResult
  <2> HIDE DEF pos, state
  <2> QED BY <2>1, <2>2
<1>7. /\ TruthTable(u) /\ Condition(c) /\ id \in DOMAIN Rules
      /\ Rules[id].min_classes \in Nat \ {0, 1}
  BY <1>5, RulePositiveValues, KnowledgeAccepted DEF PublishedRules, WellShaped
<1>8. eval_condition(c, u) \in Values
  BY <1>7, EvalValue
<1> HIDE DEF q, c, u, classes
<1>9. Cardinality(classes) >= Rules[id].min_classes
  BY <1>4, <1>6, <1>8 DEF Values
<1>10. classes # {}
  BY <1>7, <1>9, FS_EmptySet
<1>11. PICK p \in Present(ctx) : RulePositives(ctx, id)[p].value = "TRUE"
  BY <1>10 DEF classes
<1> DEFINE s == ActiveSuppressorOccurrences(ctx, p, RuleNegatives(ctx, id), BlockedCategories(RuleOverrides(ctx, id)))
           w == [io \in OccurrencesOf(ctx, p) |-> OccurrenceTruth(ctx.obs, io, s)]
<1>12. RulePositives(ctx, id)[p] = combine_positive(ctx, p, s)
  BY DEF RulePositives
<1> HIDE DEF s
<1>13. combine_positive(ctx, p, s).value = any_of([io \in OccurrencesOf(ctx, p) |-> w[io].value])
  BY DEF combine_positive
<1>14. PICK io \in OccurrencesOf(ctx, p) : w[io].value = "TRUE"
  BY <1>11, <1>12, <1>13 DEF any_of, Having
<1> QED BY <1>14

\* Without an observation of live first-party words, no rule fires (evaluator.py).
LEMMA NothingLiveNothingFires ==
  ASSUME NEW h, Projected(h), NEW language, NEW script,
         \A o \in h.obs : o.status = "OBSERVED" => ~ FirstParty(o)
  PROVE  Eligible(ResultsOf(build_validated_context(h.occs, h.obs, language, script))) = {}
<1> DEFINE ctx == build_validated_context(h.occs, h.obs, language, script)
<1>1. ctx.occs = h.occs /\ ctx.obs = ById(h.obs)
  BY DEF build_validated_context
<1> HIDE DEF ctx
<1>2. SUFFICES ASSUME NEW r \in Eligible(ResultsOf(ctx)) PROVE FALSE
  BY DEF ctx
<1>3. PICK id \in PublishedRules : r = apply(run_isolated(ctx, id))
  BY ResultsFacts DEF Eligible
<1>4. is_eligible_matched(r)
  BY DEF Eligible
<1>5. PICK p \in Present(ctx) : \E s : \E io \in OccurrencesOf(ctx, p) : OccurrenceTruth(ctx.obs, io, s).value = "TRUE"
  BY <1>3, <1>4, FiringRests
<1>6. PICK s : \E io \in OccurrencesOf(ctx, p) : OccurrenceTruth(ctx.obs, io, s).value = "TRUE"
  BY <1>5
<1>7. PICK io \in OccurrencesOf(ctx, p) : OccurrenceTruth(ctx.obs, io, s).value = "TRUE"
  BY <1>6
<1>8. io \in h.occs /\ io.ind \in DOMAIN Indicators
  BY <1>1, <1>7 DEF OccurrencesOf, Present
<1>9. PICK o \in h.obs : io.refs = {o.id} /\ FirstParty(o)
  BY <1>8 DEF Projected
<1>10. o.status = "AMBIGUOUS"
  BY <1>9 DEF Projected
<1>11. ctx.obs[o.id] = o
  BY <1>1, ByIdFacts DEF Projected, UniqueObs
<1> QED BY <1>7, <1>9, <1>10, <1>11, DoubtfulNotTrue

\* A message's evaluation rests on what was extracted.
LEMMA LiveOfInvariant ==
  ASSUME XInv
  PROVE  OnlyLiveWordsCount
<1> SUFFICES ASSUME message # Given
             PROVE  OnlyLiveWordsCount
  BY DEF OnlyLiveWordsCount
<1>1. message \in Messages /\ input = extract_text(message) /\ AInv
  BY DEF XInv, Carried
<1>2. Projected(input)
  BY <1>1, ExtractedProjected
<1>3. ValidContext(input.occs, input.obs)
  BY <1>2, ProjectedAccepted
<1>4. ASSUME NEW io \in input.occs, io.polarity = "POSITIVE", NEW o \in input.obs, o.id \in io.refs
      PROVE  FirstParty(o)
  <2>1. io.ind \in DOMAIN Indicators
    BY <1>2, <1>4 DEF Projected, Polarity
  <2>2. PICK b \in input.obs : io.refs = {b.id} /\ FirstParty(b)
    BY <1>2, <2>1 DEF Projected
  <2>3. o = b
    BY <1>2, <1>4, <2>2 DEF Projected
  <2> QED BY <2>2, <2>3
<1>5. ASSUME stage = "explain"
      PROVE  /\ input.support \notin Evaluable => decision.class \notin SCAM \cup {"NO_SCAM_PATTERN"}
             /\ (\A o \in input.obs : o.status = "OBSERVED" => ~ FirstParty(o)) => decision.class \notin SCAM
  <2>1. PICK class, axes, gov : DecidedAs(class, axes, gov)
    BY <1>1, <1>5, ExplainedDecision
  <2>2. decision.class = class /\ Consistent(Final, input.support, class, axes, gov, input.whole)
    BY <2>1 DEF DecidedAs, Aggregated
  <2>3. Eligible(Final) = {} => class \notin SCAM
    BY <2>2 DEF Consistent, SCAM
  <2>4. ASSUME input.support \notin Evaluable
        PROVE  class \notin SCAM \cup {"NO_SCAM_PATTERN"}
    <3>1. Eligible(Final) = {}
      BY <2>2, <2>4 DEF Consistent
    <3> QED BY <2>2, <2>3, <2>4, <3>1 DEF Consistent
  <2>5. ASSUME input.support \in Evaluable, \A o \in input.obs : o.status = "OBSERVED" => ~ FirstParty(o)
        PROVE  class \notin SCAM
    <3>1. reason # "NONE" /\ artifact = HostArtifact
      <4>1. stage \notin Early
        BY <1>5 DEF Early
      <4>2. reason # "NONE"
        BY <1>5 DEF XInv, Carried
      <4> QED BY <1>1, <4>1, <4>2 DEF AInv, ArtifactSound, AiUsed
    <3>2. Final = ResultsOf(build_validated_context(input.occs, input.obs, input.language, input.script))
      BY <2>5, <3>1 DEF Final, Rested, RuleResults, ResultsOf, HostArtifact
    <3>3. Eligible(Final) = {}
      BY <1>2, <2>5, <3>2, NothingLiveNothingFires
    <3> QED BY <2>3, <3>3
  <2> QED BY <2>2, <2>4, <2>5
<1> QED BY <1>3, <1>4, <1>5 DEF OnlyLiveWordsCount

\* What a text does not say for itself is never held against it, and what cannot be evaluated is
\* neither accused nor cleared (extraction.py _find_all, evaluator.py, aggregation.py).
THEOREM CheckedLiveWords == ExtractionSpec => []OnlyLiveWordsCount
BY ExtractionInvariant, LiveOfInvariant, PTL
=============================================================================
