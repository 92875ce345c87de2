----------------------------- MODULE StudyProofs -----------------------------
(***************************************************************************)
(* What ExamRecipes, QuestionCard and StudyDesk promise, for any bank,     *)
(* blueprints, forms, plans, texts and statistics: DrawnAsAsked,           *)
(* EnabledStarts and that coverage is what can be drawn; MatchTokenOnce    *)
(* and AnswerShown; LibraryCurrent.                                        *)
(***************************************************************************)
EXTENDS ExamRecipes, QuestionCard, StudyDesk, FiniteSetTheorems, SequenceTheorems,
        WellFoundedInduction, TLAPS

-----------------------------------------------------------------------------
(* Sums.  SumFunctionOnSet is a recursive function on the subsets: that it  *)
(* exists, and what it gives, are inductions on the size of the set, each a *)
(* smallest counterexample.                                                 *)

LEMMA SmallestSet ==
    ASSUME NEW D, IsFiniteSet(D), NEW Bad, Bad \subseteq SUBSET D, Bad # {}
    PROVE  \E T \in Bad : IsFiniteSet(T) /\ \A U \in Bad : U \subseteq T => U = T
<1> DEFINE R == StrictSubsetOrdering(D)
<1>1. IsWellFoundedOn(R, FiniteSubsetsOf(D))
  BY FS_StrictSubsetOrderingWellFounded
<1>2. Bad \subseteq FiniteSubsetsOf(D)
  BY FS_FiniteSubsetsOfFinite
<1>3. PICK T \in Bad : \A U \in Bad : ~(<<U, T>> \in R)
  <2> HIDE DEF R
  <2> QED
    BY <1>1, <1>2, WFMin
<1>4. \A U \in Bad : U \subseteq T => U = T
  BY <1>2, <1>3 DEF StrictSubsetOrdering, FiniteSubsetsOf
<1> QED
  BY <1>2, <1>3, <1>4 DEF FiniteSubsetsOf

Choice(s) == CHOOSE x \in s : TRUE

LEMMA ChoiceIn == ASSUME NEW s, s # {} PROVE Choice(s) \in s
BY DEF Choice

\* The recursive definition of SumFunctionOnSet(f, S).
Sums(f, S, iter) ==
    iter = [s \in SUBSET S |-> IF s = {} THEN 0 ELSE f[Choice(s)] + iter[s \ {Choice(s)}]]

Summing(f, S) == CHOOSE iter : Sums(f, S, iter)

LEMMA SumUnfolds == ASSUME NEW f, NEW S PROVE SumFunctionOnSet(f, S) = Summing(f, S)[S]
BY DEF SumFunctionOnSet, FoldFunctionOnSet, MapThenFoldSet, Sums, Summing, Choice

LEMMA SumsAt ==
    ASSUME NEW f, NEW S, NEW iter, Sums(f, S, iter), NEW s \in SUBSET S
    PROVE  iter[s] = IF s = {} THEN 0 ELSE f[Choice(s)] + iter[s \ {Choice(s)}]
BY DEF Sums

\* Two of them agree where both are defined.
LEMMA SumsAgree ==
    ASSUME NEW f, NEW S, IsFiniteSet(S), NEW T, T \subseteq S,
           NEW i, Sums(f, S, i), NEW j, Sums(f, T, j), NEW s \in SUBSET T
    PROVE  i[s] = j[s]
<1> DEFINE Bad == {u \in SUBSET T : i[u] # j[u]}
<1> SUFFICES ASSUME Bad # {} PROVE FALSE
  OBVIOUS
<1>1. PICK u \in Bad : \A v \in Bad : v \subseteq u => v = u
  <2>1. Bad \subseteq SUBSET S
    OBVIOUS
  <2> HIDE DEF Bad
  <2> QED
    BY <2>1, SmallestSet
<1>2. u \in SUBSET T /\ u \in SUBSET S /\ i[u] # j[u]
  BY <1>1
<1>3. CASE u = {}
  BY <1>2, <1>3, SumsAt
<1>4. CASE u # {}
  <2> DEFINE v == u \ {Choice(u)}
  <2>1. v \in SUBSET T /\ v \subseteq u /\ v # u
    BY <1>2, <1>4, ChoiceIn
  <2>2. i[v] = j[v]
    BY <1>1, <2>1
  <2>3. i[u] = f[Choice(u)] + i[v] /\ j[u] = f[Choice(u)] + j[v]
    BY <1>2, <1>4, SumsAt
  <2> QED
    BY <1>2, <2>2, <2>3
<1> QED
  BY <1>3, <1>4

LEMMA SumsExist ==
    ASSUME NEW f, NEW S, IsFiniteSet(S), NEW T \in SUBSET S
    PROVE  Sums(f, T, Summing(f, T))
<1> DEFINE Bad == {u \in SUBSET S : ~ \E iter : Sums(f, u, iter)}
<1>1. Bad = {}
  <2> SUFFICES ASSUME Bad # {} PROVE FALSE
    OBVIOUS
  <2>1. PICK u \in Bad : \A v \in Bad : v \subseteq u => v = u
    <3>1. Bad \subseteq SUBSET S
      OBVIOUS
    <3> HIDE DEF Bad
    <3> QED
      BY <3>1, SmallestSet
  <2>2. u \in SUBSET S /\ ~ \E iter : Sums(f, u, iter)
    BY <2>1
  <2>3. ASSUME NEW v \in SUBSET u, v # u PROVE Sums(f, v, Summing(f, v)) /\ IsFiniteSet(v)
    <3>1. \E iter : Sums(f, v, iter)
      BY <2>1, <2>2, <2>3
    <3>2. IsFiniteSet(v)
      BY <2>2, <2>3, FS_Subset
    <3> QED
      BY <3>1, <3>2 DEF Summing
  <2> DEFINE V(v) == Summing(f, v)[v]
             top == IF u = {} THEN 0 ELSE f[Choice(u)] + V(u \ {Choice(u)})
             iter == [v \in SUBSET u |-> IF v = u THEN top ELSE V(v)]
  <2>4. ASSUME NEW v \in SUBSET u, v # u, v # {} PROVE V(v) = f[Choice(v)] + V(v \ {Choice(v)})
    <3> DEFINE w == v \ {Choice(v)}
    <3>1. w \in SUBSET v /\ w \in SUBSET u /\ w # u /\ w # v
      BY <2>4, ChoiceIn
    <3>2. Summing(f, v)[v] = f[Choice(v)] + Summing(f, v)[w]
      BY <2>3, <2>4, SumsAt
    <3>3. Summing(f, v)[w] = Summing(f, w)[w]
      <4> HIDE DEF w
      <4> QED
        BY <2>3, <2>4, <3>1, SumsAgree
    <3> QED
      BY <3>2, <3>3
  <2>5. ASSUME u # {} PROVE V({}) = 0
    BY <2>3, <2>5, SumsAt
  <2> HIDE DEF V
  <2>6. ASSUME NEW v \in SUBSET u
        PROVE  iter[v] = IF v = {} THEN 0 ELSE f[Choice(v)] + iter[v \ {Choice(v)}]
    <3>1. CASE v = {}
      BY <2>5, <3>1
    <3>2. CASE v # {}
      <4> DEFINE w == v \ {Choice(v)}
      <4>1. w \in SUBSET u /\ w # u
        BY <3>2, ChoiceIn
      <4>2. iter[w] = V(w)
        BY <4>1
      <4>3. CASE v = u
        BY <3>2, <4>2, <4>3
      <4>4. CASE v # u
        BY <2>4, <3>2, <4>2, <4>4
      <4> QED
        BY <4>3, <4>4
    <3> QED
      BY <3>1, <3>2
  <2>7. Sums(f, u, iter)
    <3>1. iter = [v \in SUBSET u |-> iter[v]]
      OBVIOUS
    <3> HIDE DEF iter
    <3> QED
      BY <2>6, <3>1 DEF Sums
  <2> QED
    BY <2>2, <2>7
<1>2. \E iter : Sums(f, T, iter)
  BY <1>1
<1> QED
  BY <1>2 DEF Summing

LEMMA SumEmpty == ASSUME NEW f PROVE SumFunctionOnSet(f, {}) = 0
<1>1. Sums(f, {}, Summing(f, {}))
  BY SumsExist, FS_EmptySet
<1> QED
  BY <1>1, SumsAt, SumUnfolds

LEMMA SumChoice ==
    ASSUME NEW f, NEW S, IsFiniteSet(S), S # {}
    PROVE  SumFunctionOnSet(f, S) = f[Choice(S)] + SumFunctionOnSet(f, S \ {Choice(S)})
<1> DEFINE T == S \ {Choice(S)}
<1>1. Sums(f, S, Summing(f, S)) /\ Sums(f, T, Summing(f, T))
  BY SumsExist
<1>2. Summing(f, S)[T] = Summing(f, T)[T]
  <2>1. T \subseteq S /\ T \in SUBSET T
    OBVIOUS
  <2> HIDE DEF T
  <2> QED
    BY <1>1, <2>1, SumsAgree
<1>3. Summing(f, S)[S] = f[Choice(S)] + Summing(f, S)[T]
  BY <1>1, SumsAt
<1> QED
  BY <1>2, <1>3, SumUnfolds

\* What grows by f[x] with every x is the sum.
LEMMA SumIs ==
    ASSUME NEW f, NEW S, IsFiniteSet(S), NEW V, V[{}] = 0,
           \A T \in SUBSET S : \A x \in T : V[T] = f[x] + V[T \ {x}]
    PROVE  SumFunctionOnSet(f, S) = V[S]
<1> DEFINE W == [T \in SUBSET S |-> V[T]]
<1>1. Sums(f, S, W)
  <2>1. ASSUME NEW s \in SUBSET S
        PROVE  W[s] = IF s = {} THEN 0 ELSE f[Choice(s)] + W[s \ {Choice(s)}]
    BY ChoiceIn
  <2>2. W = [s \in SUBSET S |-> W[s]]
    OBVIOUS
  <2> HIDE DEF W
  <2> QED
    BY <2>1, <2>2 DEF Sums
<1>2. Sums(f, S, Summing(f, S))
  BY SumsExist
<1>3. Summing(f, S)[S] = W[S]
  <2> HIDE DEF W
  <2> QED
    BY <1>1, <1>2, SumsAgree
<1> QED
  BY <1>3, SumUnfolds

LEMMA SumIsInt ==
    ASSUME NEW f, NEW S, IsFiniteSet(S), \A x \in S : f[x] \in Int
    PROVE  SumFunctionOnSet(f, S) \in Int
<1> DEFINE Bad == {T \in SUBSET S : SumFunctionOnSet(f, T) \notin Int}
<1> SUFFICES ASSUME Bad # {} PROVE FALSE
  OBVIOUS
<1>1. PICK T \in Bad : IsFiniteSet(T) /\ \A U \in Bad : U \subseteq T => U = T
  <2>1. Bad \subseteq SUBSET S
    OBVIOUS
  <2> HIDE DEF Bad
  <2> QED
    BY <2>1, SmallestSet
<1>2. T # {}
  <2>1. SumFunctionOnSet(f, {}) = 0
    BY SumEmpty
  <2>2. SumFunctionOnSet(f, T) \notin Int
    BY <1>1
  <2>3. SUFFICES ASSUME T = {} PROVE FALSE
    OBVIOUS
  <2>4. SumFunctionOnSet(f, T) = 0
    BY <2>1, <2>3
  <2> HIDE DEF Bad
  <2> QED
    BY <2>2, <2>4
<1>3. Choice(T) \in T /\ SumFunctionOnSet(f, T \ {Choice(T)}) \in Int
  BY <1>1, <1>2, ChoiceIn
<1>4. SumFunctionOnSet(f, T) = f[Choice(T)] + SumFunctionOnSet(f, T \ {Choice(T)})
  BY <1>1, <1>2, SumChoice
<1> QED
  BY <1>1, <1>3, <1>4

LEMMA SumNotNegative ==
    ASSUME NEW f, NEW S, IsFiniteSet(S), \A x \in S : f[x] \in Nat
    PROVE  SumFunctionOnSet(f, S) \in Nat
<1> DEFINE Bad == {T \in SUBSET S : SumFunctionOnSet(f, T) \notin Nat}
<1> SUFFICES ASSUME Bad # {} PROVE FALSE
  OBVIOUS
<1>1. PICK T \in Bad : IsFiniteSet(T) /\ \A U \in Bad : U \subseteq T => U = T
  <2>1. Bad \subseteq SUBSET S
    OBVIOUS
  <2> HIDE DEF Bad
  <2> QED
    BY <2>1, SmallestSet
<1>2. T # {}
  <2>1. SumFunctionOnSet(f, {}) = 0
    BY SumEmpty
  <2>2. SumFunctionOnSet(f, T) \notin Nat
    BY <1>1
  <2>3. SUFFICES ASSUME T = {} PROVE FALSE
    OBVIOUS
  <2>4. SumFunctionOnSet(f, T) = 0
    BY <2>1, <2>3
  <2> HIDE DEF Bad
  <2> QED
    BY <2>2, <2>4
<1>3. Choice(T) \in T /\ SumFunctionOnSet(f, T \ {Choice(T)}) \in Nat
  BY <1>1, <1>2, ChoiceIn
<1>4. SumFunctionOnSet(f, T) = f[Choice(T)] + SumFunctionOnSet(f, T \ {Choice(T)})
  BY <1>1, <1>2, SumChoice
<1> QED
  BY <1>1, <1>3, <1>4

\* Any element may be the last.
LEMMA SumRemove ==
    ASSUME NEW f, NEW S, IsFiniteSet(S), \A x \in S : f[x] \in Int, NEW x \in S
    PROVE  SumFunctionOnSet(f, S) = f[x] + SumFunctionOnSet(f, S \ {x})
<1> DEFINE Sm(T) == SumFunctionOnSet(f, T)
           Bad == {T \in SUBSET S : \E y \in T : Sm(T) # f[y] + Sm(T \ {y})}
<1> SUFFICES ASSUME Bad # {} PROVE FALSE
  OBVIOUS
<1>1. PICK T \in Bad : IsFiniteSet(T) /\ \A U \in Bad : U \subseteq T => U = T
  <2>1. Bad \subseteq SUBSET S
    OBVIOUS
  <2> HIDE DEF Bad
  <2> QED
    BY <2>1, SmallestSet
<1>2. PICK y \in T : Sm(T) # f[y] + Sm(T \ {y})
  BY <1>1
<1> DEFINE c == Choice(T)
<1>3. c \in T /\ Sm(T) = f[c] + Sm(T \ {c})
  BY <1>1, <1>2, ChoiceIn, SumChoice
<1>4. c # y
  BY <1>2, <1>3
<1> HIDE DEF c
<1>5. T \ {c} \notin Bad /\ T \ {y} \notin Bad
  <2> HIDE DEF Bad
  <2> QED
    BY <1>1, <1>2, <1>3
<1>6. T \subseteq S
  BY <1>1
<1>7. Sm(T \ {c}) = f[y] + Sm((T \ {c}) \ {y})
  BY <1>2, <1>4, <1>5, <1>6
<1>8. Sm(T \ {y}) = f[c] + Sm((T \ {y}) \ {c})
  BY <1>3, <1>4, <1>5, <1>6
<1>9. (T \ {c}) \ {y} = (T \ {y}) \ {c}
  OBVIOUS
<1>10. Sm((T \ {c}) \ {y}) \in Int
  <2>1. IsFiniteSet((T \ {c}) \ {y})
    BY <1>1, FS_Subset
  <2> QED
    BY <1>6, <2>1, SumIsInt
<1>11. f[c] \in Int /\ f[y] \in Int
  BY <1>3, <1>6
<1> HIDE DEF Sm
<1>12. Sm((T \ {y}) \ {c}) = Sm((T \ {c}) \ {y})
  BY <1>9
<1> QED
  BY <1>2, <1>3, <1>7, <1>8, <1>10, <1>11, <1>12

LEMMA SumOfSums ==
    ASSUME NEW f, NEW g, NEW h, NEW S, IsFiniteSet(S),
           \A x \in S : f[x] \in Int /\ g[x] \in Int /\ h[x] = f[x] + g[x]
    PROVE  SumFunctionOnSet(h, S) = SumFunctionOnSet(f, S) + SumFunctionOnSet(g, S)
<1> DEFINE F(T) == SumFunctionOnSet(f, T)
           G(T) == SumFunctionOnSet(g, T)
           V == [T \in SUBSET S |-> F(T) + G(T)]
<1>1. V[{}] = 0
  BY SumEmpty
<1>2. ASSUME NEW T \in SUBSET S, NEW x \in T PROVE V[T] = h[x] + V[T \ {x}]
  <2>1. IsFiniteSet(T) /\ IsFiniteSet(T \ {x})
    BY FS_Subset
  <2>2. F(T) = f[x] + F(T \ {x}) /\ G(T) = g[x] + G(T \ {x})
    BY <2>1, SumRemove
  <2>3. F(T \ {x}) \in Int /\ G(T \ {x}) \in Int
    BY <2>1, SumIsInt
  <2>4. f[x] \in Int /\ g[x] \in Int /\ h[x] = f[x] + g[x]
    OBVIOUS
  <2>5. V[T] = F(T) + G(T) /\ V[T \ {x}] = F(T \ {x}) + G(T \ {x})
    OBVIOUS
  <2> HIDE DEF F, G, V
  <2> QED
    BY <2>2, <2>3, <2>4, <2>5
<1>3. V[S] = F(S) + G(S)
  OBVIOUS
<1>4. SumFunctionOnSet(h, S) = V[S]
  <2> HIDE DEF F, G, V
  <2>1. \A T \in SUBSET S : \A x \in T : V[T] = h[x] + V[T \ {x}]
    BY <1>2
  <2>2. ASSUME NEW W, W[{}] = 0, \A T \in SUBSET S : \A x \in T : W[T] = h[x] + W[T \ {x}]
        PROVE  SumFunctionOnSet(h, S) = W[S]
    BY ONLY <2>2, SumIs, IsFiniteSet(S)
  <2> QED
    BY ONLY <1>1, <2>1, <2>2
<1> QED
  BY <1>3, <1>4

LEMMA Distributes == \A k, a, b \in Int : k * (a + b) = k * a + k * b /\ k * a \in Int
OBVIOUS

LEMMA SumOfMultiples ==
    ASSUME NEW f, NEW h, NEW k \in Int, NEW S, IsFiniteSet(S),
           \A x \in S : f[x] \in Int /\ h[x] = k * f[x]
    PROVE  SumFunctionOnSet(h, S) = k * SumFunctionOnSet(f, S)
<1> DEFINE F(T) == SumFunctionOnSet(f, T)
           V == [T \in SUBSET S |-> k * F(T)]
<1>1. V[{}] = 0
  BY SumEmpty
<1>2. ASSUME NEW T \in SUBSET S, NEW x \in T PROVE V[T] = h[x] + V[T \ {x}]
  <2>1. IsFiniteSet(T) /\ IsFiniteSet(T \ {x})
    BY FS_Subset
  <2>2. F(T) = f[x] + F(T \ {x})
    BY <2>1, SumRemove
  <2>3. F(T \ {x}) \in Int
    BY <2>1, SumIsInt
  <2>4. f[x] \in Int /\ h[x] = k * f[x]
    OBVIOUS
  <2>5. V[T] = k * F(T) /\ V[T \ {x}] = k * F(T \ {x})
    OBVIOUS
  <2> HIDE DEF F, V
  <2> QED
    BY <2>2, <2>3, <2>4, <2>5, Distributes
<1>3. V[S] = k * F(S)
  OBVIOUS
<1>4. SumFunctionOnSet(h, S) = V[S]
  <2> HIDE DEF F, V
  <2>1. \A T \in SUBSET S : \A x \in T : V[T] = h[x] + V[T \ {x}]
    BY <1>2
  <2>2. ASSUME NEW W, W[{}] = 0, \A T \in SUBSET S : \A x \in T : W[T] = h[x] + W[T \ {x}]
        PROVE  SumFunctionOnSet(h, S) = W[S]
    BY ONLY <2>2, SumIs, IsFiniteSet(S)
  <2> QED
    BY ONLY <1>1, <2>1, <2>2
<1> QED
  BY <1>3, <1>4

LEMMA SumIsMonotonic ==
    ASSUME NEW f, NEW g, NEW S, IsFiniteSet(S),
           \A x \in S : f[x] \in Int /\ g[x] \in Int /\ f[x] <= g[x]
    PROVE  SumFunctionOnSet(f, S) <= SumFunctionOnSet(g, S)
<1> DEFINE h == [x \in S |-> g[x] - f[x]]
<1>1. \A x \in S : h[x] \in Nat
  OBVIOUS
<1>2. \A x \in S : g[x] = f[x] + h[x]
  OBVIOUS
<1> HIDE DEF h
<1>3. SumFunctionOnSet(h, S) \in Nat
  BY <1>1, SumNotNegative
<1>4. SumFunctionOnSet(f, S) \in Int
  BY SumIsInt
<1>5. \A x \in S : f[x] \in Int /\ h[x] \in Int /\ g[x] = f[x] + h[x]
  BY <1>1, <1>2
<1>6. SumFunctionOnSet(g, S) = SumFunctionOnSet(f, S) + SumFunctionOnSet(h, S)
  BY <1>5, SumOfSums
<1> QED
  BY <1>3, <1>4, <1>6

\* One for each element of a part of the set.
LEMMA SumCounts ==
    ASSUME NEW f, NEW S, IsFiniteSet(S), NEW Part \in SUBSET S,
           \A x \in S : f[x] = IF x \in Part THEN 1 ELSE 0
    PROVE  SumFunctionOnSet(f, S) = Cardinality(Part)
<1> DEFINE V == [T \in SUBSET S |-> Cardinality(Part \cap T)]
<1>1. V[{}] = 0
  <2>1. Part \cap {} = {}
    OBVIOUS
  <2> QED
    BY <2>1, FS_EmptySet
<1>2. ASSUME NEW T \in SUBSET S, NEW x \in T PROVE V[T] = f[x] + V[T \ {x}]
  <2>1. IsFiniteSet(Part \cap T) /\ Cardinality(Part \cap T) \in Nat
    BY FS_Subset, FS_CardinalityType
  <2>2. (Part \cap T) \ {x} = Part \cap (T \ {x})
    OBVIOUS
  <2>3. Cardinality((Part \cap T) \ {x})
          = IF x \in Part \cap T THEN Cardinality(Part \cap T) - 1 ELSE Cardinality(Part \cap T)
    BY <2>1, FS_RemoveElement
  <2>4. V[T] = Cardinality(Part \cap T) /\ V[T \ {x}] = Cardinality((Part \cap T) \ {x})
    BY <2>2
  <2>5. f[x] = IF x \in Part THEN 1 ELSE 0
    OBVIOUS
  <2> HIDE DEF V
  <2> QED
    BY <2>1, <2>3, <2>4, <2>5
<1>3. V[S] = Cardinality(Part)
  <2>1. Part \cap S = Part
    OBVIOUS
  <2> QED
    BY <2>1
<1>4. SumFunctionOnSet(f, S) = V[S]
  <2> HIDE DEF V
  <2> QED
    BY <1>1, <1>2, <1>3, SumIs
<1> QED
  BY <1>3, <1>4

\* Sets without a common element count together.
LEMMA UnionCounts ==
    ASSUME NEW sets, NEW f, NEW S, IsFiniteSet(S),
           \A x \in S : IsFiniteSet(sets[x]) /\ f[x] = Cardinality(sets[x]),
           \A x, y \in S : x # y => sets[x] \cap sets[y] = {}
    PROVE  /\ IsFiniteSet(UNION {sets[x] : x \in S})
           /\ Cardinality(UNION {sets[x] : x \in S}) = SumFunctionOnSet(f, S)
<1> DEFINE U(T) == UNION {sets[x] : x \in T}
           V == [T \in SUBSET S |-> Cardinality(U(T))]
<1>1. V[{}] = 0
  <2>1. U({}) = {}
    OBVIOUS
  <2> QED
    BY <2>1, FS_EmptySet
<1>2. ASSUME NEW T \in SUBSET S PROVE IsFiniteSet(U(T))
  <2>1. IsFiniteSet(T)
    BY FS_Subset
  <2>2. IsFiniteSet({sets[x] : x \in T})
    <3> DEFINE g == [x \in T |-> sets[x]]
    <3>1. g \in Surjection(T, {sets[x] : x \in T})
      BY DEF Surjection
    <3> QED
      BY <2>1, <3>1, FS_Surjection
  <2> QED
    BY <2>2, FS_UNION
<1>3. ASSUME NEW T \in SUBSET S, NEW x \in T PROVE V[T] = f[x] + V[T \ {x}]
  <2>1. IsFiniteSet(U(T \ {x})) /\ IsFiniteSet(sets[x]) /\ x \in S /\ T \ {x} \in SUBSET S
    BY <1>2
  <2>2. U(T) = U(T \ {x}) \cup sets[x] /\ U(T \ {x}) \cap sets[x] = {}
    OBVIOUS
  <2>3. V[T] = Cardinality(U(T)) /\ V[T \ {x}] = Cardinality(U(T \ {x})) /\ f[x] = Cardinality(sets[x])
    OBVIOUS
  <2> HIDE DEF U, V
  <2>4. Cardinality(U(T)) = Cardinality(U(T \ {x})) + Cardinality(sets[x]) - 0
    <3>1. Cardinality(U(T \ {x}) \cup sets[x])
            = Cardinality(U(T \ {x})) + Cardinality(sets[x]) - Cardinality(U(T \ {x}) \cap sets[x])
      BY <2>1, FS_Union
    <3>2. Cardinality(U(T \ {x}) \cap sets[x]) = 0
      BY <2>2, FS_EmptySet
    <3> QED
      BY <2>2, <3>1, <3>2
  <2>5. Cardinality(U(T \ {x})) \in Nat /\ Cardinality(sets[x]) \in Nat
    BY <2>1, FS_CardinalityType
  <2> QED
    BY <2>3, <2>4, <2>5
<1>4. V[S] = Cardinality(U(S))
  OBVIOUS
<1>5. SumFunctionOnSet(f, S) = V[S]
  <2> HIDE DEF U, V
  <2>1. \A T \in SUBSET S : \A x \in T : V[T] = f[x] + V[T \ {x}]
    BY <1>3
  <2>2. ASSUME NEW W, W[{}] = 0, \A T \in SUBSET S : \A x \in T : W[T] = f[x] + W[T \ {x}]
        PROVE  SumFunctionOnSet(f, S) = W[S]
    BY ONLY <2>2, SumIs, IsFiniteSet(S)
  <2> QED
    BY ONLY <1>1, <2>1, <2>2
<1> QED
  BY <1>2, <1>4, <1>5

-----------------------------------------------------------------------------
(* The largest remainders.  What the whole parts leave over is the sum of   *)
(* the remainders, so it is no more than the domains that have one; the     *)
(* ranks are 0..n-1, each once; so as many domains get one more as are left *)
(* over, and all of them have a remainder.                                  *)

LEMMA Division ==
    \A a \in Nat, s \in Nat : s > 0 =>
        a \div s \in Nat /\ a % s \in Nat /\ a % s < s /\ a = s * (a \div s) + (a % s)
OBVIOUS

LEMMA Cancels == \A s, a, b \in Int : s > 0 /\ s * a <= s * b => a <= b
OBVIOUS

LEMMA TimesLess == \A s, a, b \in Int : s * (a - b) = s * a - s * b
OBVIOUS

\* What comes before whom, by remainders, is a strict total order: the numbers of
\* those before are 0..n-1.
Ahead(D, remainder, d) ==
    {e \in D \ {d} : remainder[e] > remainder[d] \/ (remainder[e] = remainder[d] /\ e > d)}

LEMMA AheadOf ==
    ASSUME NEW D, IsFiniteSet(D), D \subseteq Int, NEW remainder, \A d \in D : remainder[d] \in Int,
           NEW d \in D
    PROVE  /\ IsFiniteSet(Ahead(D, remainder, d))
           /\ Cardinality(Ahead(D, remainder, d)) \in 0..(Cardinality(D) - 1)
           /\ \A e \in D \ {d} : d \in Ahead(D, remainder, e) <=> e \notin Ahead(D, remainder, d)
           /\ \A e \in Ahead(D, remainder, d) :
                 Cardinality(Ahead(D, remainder, e)) < Cardinality(Ahead(D, remainder, d))
<1> DEFINE A(e) == Ahead(D, remainder, e)
<1>1. \A e \in D : IsFiniteSet(A(e)) /\ Cardinality(A(e)) \in Nat
  <2>1. \A e \in D : A(e) \subseteq D
    BY DEF Ahead
  <2> QED
    BY <2>1, FS_Subset, FS_CardinalityType
<1>2. Cardinality(A(d)) <= Cardinality(D) - 1
  <2>1. A(d) \subseteq D \ {d}
    BY DEF Ahead
  <2>2. IsFiniteSet(D \ {d}) /\ Cardinality(D \ {d}) = Cardinality(D) - 1
    BY FS_RemoveElement
  <2> QED
    BY <2>1, <2>2, FS_Subset
<1>3. \A e \in D \ {d} : d \in A(e) <=> e \notin A(d)
  BY DEF Ahead
<1>4. ASSUME NEW e \in A(d) PROVE Cardinality(A(e)) < Cardinality(A(d))
  <2>1. e \in D /\ e # d
    BY <1>4 DEF Ahead
  <2>2. \A x \in A(e) : x \in A(d)
    <3> TAKE x \in A(e)
    <3>1. x \in D /\ x \in Int /\ d \in Int /\ e \in Int
      BY <2>1 DEF Ahead
    <3>2. remainder[x] \in Int /\ remainder[e] \in Int /\ remainder[d] \in Int
      BY <2>1, <3>1
    <3>3. remainder[e] > remainder[d] \/ (remainder[e] = remainder[d] /\ e > d)
      BY <1>4 DEF Ahead
    <3>4. remainder[x] > remainder[e] \/ (remainder[x] = remainder[e] /\ x > e)
      BY DEF Ahead
    <3>5. (remainder[x] > remainder[d] \/ (remainder[x] = remainder[d] /\ x > d)) /\ x # d
      BY <3>1, <3>2, <3>3, <3>4
    <3> QED
      BY <3>1, <3>5 DEF Ahead
  <2>3. e \notin A(e)
    BY DEF Ahead
  <2>4. A(e) \subseteq A(d) \ {e}
    BY <2>2, <2>3
  <2>5. IsFiniteSet(A(d) \ {e}) /\ Cardinality(A(d) \ {e}) = Cardinality(A(d)) - 1
    BY <1>1, <1>4, FS_RemoveElement
  <2>6. Cardinality(A(e)) <= Cardinality(A(d)) - 1
    BY <2>4, <2>5, FS_Subset
  <2> HIDE DEF A
  <2> QED
    BY <1>1, <2>1, <2>6
<1>5. Cardinality(D) \in Nat
  BY FS_CardinalityType
<1>6. Cardinality(A(d)) \in 0..(Cardinality(D) - 1)
  <2> HIDE DEF A
  <2> QED
    BY <1>1, <1>2, <1>5
<1> QED
  BY <1>1, <1>3, <1>4, <1>6

\* As many have less than k before them.
LEMMA FirstOnes ==
    ASSUME NEW D, IsFiniteSet(D), D \subseteq Int, NEW remainder, \A d \in D : remainder[d] \in Int,
           NEW k \in Nat, k <= Cardinality(D)
    PROVE  Cardinality({d \in D : Cardinality(Ahead(D, remainder, d)) < k}) = k
<1> DEFINE n == Cardinality(D)
           rank == [d \in D |-> Cardinality(Ahead(D, remainder, d))]
           Top == {d \in D : rank[d] < k}
           first == [d \in Top |-> rank[d]]
<1>1. n \in Nat
  BY FS_CardinalityType
<1>2. rank \in [D -> 0..(n - 1)]
  BY AheadOf
<1>3. \A d, e \in D : rank[d] = rank[e] => d = e
  <2> SUFFICES ASSUME NEW d \in D, NEW e \in D, d # e, rank[d] = rank[e] PROVE FALSE
    OBVIOUS
  <2>1. d \in Ahead(D, remainder, e) \/ e \in Ahead(D, remainder, d)
    BY AheadOf
  <2>2. rank[d] < rank[e] \/ rank[e] < rank[d]
    BY <2>1, AheadOf
  <2>3. rank[d] \in Int /\ rank[e] \in Int
    <3> HIDE DEF rank, n
    <3> QED
      BY <1>1, <1>2
  <2> QED
    BY <2>2, <2>3
<1> HIDE DEF rank, n
<1>4. IsFiniteSet(0..(n - 1)) /\ Cardinality(0..(n - 1)) = n
  <2>1. 0 \in Int /\ n - 1 \in Int
    BY <1>1
  <2> QED
    BY <1>1, <2>1, FS_Interval
<1>5. rank \in Surjection(D, 0..(n - 1))
  <2>1. rank \in Injection(D, 0..(n - 1))
    BY <1>2, <1>3 DEF Injection, IsInjective
  <2> QED
    BY <1>4, <2>1, FS_Injection DEF n
<1>6. IsFiniteSet(0..(k - 1)) /\ Cardinality(0..(k - 1)) = k
  <2>1. 0 \in Int /\ k - 1 \in Int
    OBVIOUS
  <2> QED
    BY <2>1, FS_Interval
<1>7. first \in Injection(Top, 0..(k - 1))
  <2>1. \A d \in Top : rank[d] \in 0..(k - 1)
    BY <1>1, <1>2
  <2> QED
    BY <1>3, <2>1 DEF Injection, IsInjective
<1>8. first \in Surjection(Top, 0..(k - 1))
  <2>1. ASSUME NEW i \in 0..(k - 1) PROVE \E d \in Top : first[d] = i
    <3>1. i \in 0..(n - 1) /\ i < k
      BY <1>1 DEF n
    <3>2. PICK d \in D : rank[d] = i
      BY <1>5, <3>1 DEF Surjection
    <3> QED
      BY <3>1, <3>2
  <2>2. first \in [Top -> 0..(k - 1)]
    BY <1>7 DEF Injection
  <2> HIDE DEF first, Top
  <2> QED
    BY <2>1, <2>2 DEF Surjection
<1>9. Cardinality(Top) = k
  <2> HIDE DEF first, Top
  <2> QED
    BY <1>6, <1>7, <1>8, FS_Injection
<1>10. Top = {d \in D : Cardinality(Ahead(D, remainder, d)) < k}
  BY DEF rank
<1> QED
  BY <1>9, <1>10

\* Weights as the blueprints have them.
Weighs(weights) ==
    /\ IsFiniteSet(DOMAIN weights) /\ DOMAIN weights \subseteq Int
    /\ \A d \in DOMAIN weights : weights[d] \in Nat
    /\ SumFunction(weights) > 0

\* allocate_counts gives out the total, and each share but for less than one.
LEMMA AllocatedFairly ==
    ASSUME NEW total \in Nat, NEW weights, Weighs(weights)
    PROVE  LET counts == AllocateCounts(total, weights)
               sum == SumFunction(weights)
           IN  /\ DOMAIN counts = DOMAIN weights
               /\ SumFunctionOnSet(counts, DOMAIN weights) = total
               /\ \A d \in DOMAIN weights :
                     /\ counts[d] \in Nat
                     /\ counts[d] * sum - total * weights[d] < sum
                     /\ -(counts[d] * sum - total * weights[d]) < sum
<1> DEFINE D == DOMAIN weights
           sum == SumFunction(weights)
           floors == [d \in D |-> (total * weights[d]) \div sum]
           remainder == [d \in D |-> (total * weights[d]) % sum]
           leftover == total - SumFunction(floors)
           Top == {d \in D : Cardinality(Ahead(D, remainder, d)) < leftover}
           more == [d \in D |-> IF d \in Top THEN 1 ELSE 0]
           counts == [d \in D |-> floors[d] + more[d]]
<1>1. AllocateCounts(total, weights) = counts
  BY DEF AllocateCounts, Ahead
<1>2. IsFiniteSet(D) /\ D \subseteq Int /\ \A d \in D : weights[d] \in Nat
  BY DEF Weighs
<1>3. sum \in Nat /\ sum > 0
  <2>1. SumFunctionOnSet(weights, D) \in Nat
    BY <1>2, SumNotNegative
  <2> QED
    BY <2>1 DEF SumFunction, Weighs
<1>4. \A d \in D : /\ total * weights[d] \in Nat /\ floors[d] \in Nat /\ remainder[d] \in Nat
                   /\ remainder[d] < sum
                   /\ total * weights[d] = sum * floors[d] + remainder[d]
  <2> TAKE d \in D
  <2>1. total * weights[d] \in Nat
    BY <1>2
  <2>2. floors[d] = (total * weights[d]) \div sum /\ remainder[d] = (total * weights[d]) % sum
    OBVIOUS
  <2> HIDE DEF floors, remainder, sum
  <2> QED
    BY <1>3, <2>1, <2>2, Division
<1>5. DOMAIN floors = D
  OBVIOUS
<1>6. \A d \in D : more[d] = IF d \in Top THEN 1 ELSE 0
  OBVIOUS
<1>7. \A d \in D : counts[d] = floors[d] + more[d]
  OBVIOUS
<1>8. DOMAIN counts = D
  OBVIOUS
<1>9. sum = SumFunctionOnSet(weights, D) /\ leftover = total - SumFunctionOnSet(floors, D)
  BY <1>5 DEF SumFunction
<1>10. Top \in SUBSET D /\ Top = {d \in D : Cardinality(Ahead(D, remainder, d)) < leftover}
  OBVIOUS
<1> HIDE DEF D, sum, floors, remainder, leftover, Top, more, counts
<1> DEFINE F == SumFunctionOnSet(floors, D)
           R == SumFunctionOnSet(remainder, D)
           Pos == {d \in D : remainder[d] > 0}
<1>11. F \in Nat /\ R \in Nat /\ leftover \in Int
  <2>1. (\A d \in D : floors[d] \in Nat) /\ (\A d \in D : remainder[d] \in Nat)
    BY <1>4
  <2>2. F \in Nat /\ R \in Nat
    BY <1>2, <2>1, SumNotNegative
  <2> QED
    BY <1>9, <2>2
\* What is left over is the sum of the remainders.
<1>12. sum * leftover = R
  <2> DEFINE exact == [d \in D |-> total * weights[d]]
             whole == [d \in D |-> sum * floors[d]]
  <2>1. \A d \in D : exact[d] = total * weights[d] /\ whole[d] = sum * floors[d]
    OBVIOUS
  <2> HIDE DEF exact, whole
  <2>2. SumFunctionOnSet(exact, D) = total * sum
    <3>1. \A d \in D : weights[d] \in Int /\ exact[d] = total * weights[d]
      BY <1>2, <2>1
    <3>2. IsFiniteSet(D) /\ total \in Int
      BY <1>2
    <3> QED
      BY ONLY <1>9, <3>1, <3>2, SumOfMultiples
  <2>3. SumFunctionOnSet(whole, D) = sum * F
    <3>1. \A d \in D : floors[d] \in Int /\ whole[d] = sum * floors[d]
      BY <1>4, <2>1
    <3>2. IsFiniteSet(D) /\ sum \in Int
      BY <1>2, <1>3
    <3> QED
      BY ONLY <3>1, <3>2, SumOfMultiples
  <2>4. \A d \in D : whole[d] \in Int /\ remainder[d] \in Int /\ exact[d] = whole[d] + remainder[d]
    BY <1>3, <1>4, <2>1
  <2>5. SumFunctionOnSet(exact, D) = SumFunctionOnSet(whole, D) + R
    <3>1. IsFiniteSet(D)
      BY <1>2
    <3> QED
      BY ONLY <2>4, <3>1, SumOfSums
  <2>6. sum * (total - F) = sum * total - sum * F
    BY <1>3, <1>11, TimesLess
  <2>7. sum * total = total * sum
    BY <1>3
  <2> HIDE DEF F, R
  <2> QED
    BY <1>3, <1>9, <1>11, <2>2, <2>3, <2>5, <2>6, <2>7 DEF F
\* No more than the domains that have one.
<1>13. IsFiniteSet(Pos) /\ Cardinality(Pos) \in Nat /\ Cardinality(Pos) <= Cardinality(D)
  BY <1>2, FS_Subset, FS_CardinalityType
<1>14. 0 <= leftover /\ leftover <= Cardinality(Pos)
  <2> DEFINE one == [d \in D |-> IF d \in Pos THEN 1 ELSE 0]
             most == [d \in D |-> sum * one[d]]
  <2>1. \A d \in D : one[d] = (IF d \in Pos THEN 1 ELSE 0) /\ most[d] = sum * one[d]
    OBVIOUS
  <2> HIDE DEF one, most
  <2>2. SumFunctionOnSet(one, D) = Cardinality(Pos)
    <3>1. Pos \in SUBSET D
      OBVIOUS
    <3>2. IsFiniteSet(D) /\ \A d \in D : one[d] = IF d \in Pos THEN 1 ELSE 0
      BY <1>2, <2>1
    <3> HIDE DEF Pos
    <3> QED
      BY ONLY <3>1, <3>2, SumCounts
  <2>3. SumFunctionOnSet(most, D) = sum * Cardinality(Pos)
    <3>1. \A d \in D : one[d] \in Int /\ most[d] = sum * one[d]
      BY <2>1
    <3>2. IsFiniteSet(D) /\ sum \in Int
      BY <1>2, <1>3
    <3>3. SumFunctionOnSet(most, D) = sum * SumFunctionOnSet(one, D)
      BY ONLY <3>1, <3>2, SumOfMultiples
    <3> QED
      BY <2>2, <3>3
  <2>4. \A d \in D : remainder[d] \in Int /\ most[d] \in Int /\ remainder[d] <= most[d]
    <3> TAKE d \in D
    <3>1. CASE d \in Pos
      BY <1>3, <1>4, <2>1, <3>1
    <3>2. CASE d \notin Pos
      BY <1>3, <1>4, <2>1, <3>2
    <3> QED
      BY <3>1, <3>2
  <2>5. R <= sum * Cardinality(Pos)
    BY <1>2, <2>3, <2>4, SumIsMonotonic
  <2>6. sum * 0 <= sum * leftover
    BY <1>3, <1>11, <1>12
  <2> HIDE DEF R, Pos
  <2> QED
    BY <1>3, <1>11, <1>12, <1>13, <2>5, <2>6, Cancels
\* As many get one more.
<1>15. Cardinality(Top) = leftover
  <2>1. leftover \in Nat /\ leftover <= Cardinality(D)
    <3>1. Cardinality(D) \in Nat
      BY <1>2, FS_CardinalityType
    <3> QED
      BY <1>11, <1>13, <1>14, <3>1
  <2> QED
    <3>1. \A d \in D : remainder[d] \in Int
      BY <1>4
    <3>2. IsFiniteSet(D) /\ D \subseteq Int
      BY <1>2
    <3>3. Cardinality({d \in D : Cardinality(Ahead(D, remainder, d)) < leftover}) = leftover
      BY ONLY <2>1, <3>1, <3>2, FirstOnes
    <3> QED
      BY <1>10, <3>3
<1>16. SumFunctionOnSet(counts, D) = total
  <2>1. SumFunctionOnSet(more, D) = Cardinality(Top)
    <3>1. IsFiniteSet(D) /\ Top \in SUBSET D
      BY <1>2, <1>10
    <3> QED
      BY ONLY <1>6, <3>1, SumCounts
  <2>2. \A d \in D : floors[d] \in Int /\ more[d] \in Int /\ counts[d] = floors[d] + more[d]
    BY <1>4, <1>6, <1>7
  <2>3. SumFunctionOnSet(counts, D) = F + Cardinality(Top)
    <3>1. IsFiniteSet(D)
      BY <1>2
    <3>2. SumFunctionOnSet(counts, D) = SumFunctionOnSet(floors, D) + SumFunctionOnSet(more, D)
      BY ONLY <2>2, <3>1, SumOfSums
    <3> QED
      BY <2>1, <3>2
  <2> QED
    BY <1>9, <1>11, <1>15, <2>3
\* And all of them have a remainder.
<1>17. Top \subseteq Pos
  <2> SUFFICES ASSUME NEW d \in Top, remainder[d] = 0 PROVE FALSE
    BY <1>4, <1>10
  <2>1. Pos \subseteq Ahead(D, remainder, d)
    BY <1>4, <1>10 DEF Ahead
  <2>2. IsFiniteSet(Ahead(D, remainder, d)) /\ Cardinality(Ahead(D, remainder, d)) \in Nat
    BY <1>2, FS_Subset, FS_CardinalityType DEF Ahead
  <2>3. Cardinality(Pos) <= Cardinality(Ahead(D, remainder, d))
    BY <2>1, <2>2, FS_Subset
  <2>4. Cardinality(Ahead(D, remainder, d)) < leftover
    BY <1>10
  <2> HIDE DEF Pos
  <2> QED
    BY <1>11, <1>13, <1>14, <2>2, <2>3, <2>4
<1>18. ASSUME NEW d \in D
       PROVE  /\ counts[d] \in Nat
              /\ counts[d] * sum - total * weights[d] < sum
              /\ -(counts[d] * sum - total * weights[d]) < sum
  <2>1. total * weights[d] = sum * floors[d] + remainder[d]
    BY <1>4
  <2>2. floors[d] \in Nat /\ remainder[d] \in Nat /\ remainder[d] < sum
    BY <1>4
  <2>3. CASE d \in Top
    <3>1. counts[d] = floors[d] + 1 /\ remainder[d] > 0
      BY <1>6, <1>7, <1>17, <2>3
    <3>2. sum * (floors[d] + 1) = sum * floors[d] + sum * 1 /\ sum * floors[d] \in Int
      BY <1>3, <2>2, Distributes
    <3>3. counts[d] * sum = sum * floors[d] + sum
      BY <1>3, <2>2, <3>1, <3>2
    <3> QED
      BY <1>3, <2>1, <2>2, <3>1, <3>2, <3>3
  <2>4. CASE d \notin Top
    <3>1. counts[d] = floors[d]
      BY <1>6, <1>7, <2>2, <2>4
    <3>2. counts[d] * sum = sum * floors[d] /\ sum * floors[d] \in Int
      BY <1>3, <2>2, <3>1
    <3> QED
      BY <1>3, <2>1, <2>2, <3>1, <3>2
  <2> QED
    BY <2>3, <2>4
<1> QED
  BY <1>1, <1>8, <1>16, <1>18 DEF D, sum

-----------------------------------------------------------------------------
(* What is drawn.                                                          *)

LEMMA Shares ==
    ASSUME NEW b \in DOMAIN Blueprints
    PROVE  LET w == Blueprints[b].weights
               need == Required(b)
               sum == SumFunction(w)
           IN  /\ DOMAIN need = DOMAIN w /\ IsFiniteSet(DOMAIN w)
               /\ SumFunctionOnSet(need, DOMAIN w) = Blueprints[b].count
               /\ \A d \in DOMAIN w :
                     /\ need[d] \in Nat
                     /\ need[d] * sum - Blueprints[b].count * w[d] < sum
                     /\ -(need[d] * sum - Blueprints[b].count * w[d]) < sum
<1>1. Weighs(Blueprints[b].weights) /\ Blueprints[b].count \in Nat
  BY WeightsAssumption DEF Weighs
<1> QED
  BY <1>1, AllocatedFairly DEF Required, Weighs

LEMMA BlueprintDraws ==
    ASSUME NEW b \in DOMAIN Blueprints, NEW questions \in Pools, NEW qs \in BuildsFrom(b, questions),
           NEW a, a.blueprint = b, a.questions = qs
    PROVE  FollowsBlueprint(a)
<1> DEFINE need == Required(b)
           D == DOMAIN Blueprints[b].weights
           eligible == OfCert(questions, Blueprints[b].cert)
           from(d) == InDomain(eligible, d)
<1>1. DOMAIN need = D
  BY Shares
<1>2. PICK pick \in [D -> UNION {kSubset(need[d], from(d)) : d \in D}] :
         /\ qs = UNION {pick[d] : d \in D}
         /\ \A d \in D : pick[d] \in kSubset(need[d], from(d))
  <2> DEFINE picks == [d \in DOMAIN need |-> kSubset(need[d], from(d))]
             Draws == {f \in [DOMAIN need -> UNION {picks[d] : d \in DOMAIN need}] :
                          \A d \in DOMAIN need : f[d] \in picks[d]}
  <2>1. qs \in {UNION {pick[d] : d \in DOMAIN pick} : pick \in Draws}
    BY DEF BuildsFrom
  <2>2. PICK pick \in Draws : qs = UNION {pick[d] : d \in DOMAIN pick}
    <3> HIDE DEF Draws
    <3> QED
      BY <2>1
  <2>3. \A d \in DOMAIN need : picks[d] = kSubset(need[d], from(d))
    OBVIOUS
  <2>4. UNION {picks[d] : d \in DOMAIN need} = UNION {kSubset(need[d], from(d)) : d \in D}
    BY <1>1
  <2> HIDE DEF picks, need, D, from
  <2>5. /\ pick \in [D -> UNION {kSubset(need[d], from(d)) : d \in D}]
        /\ \A d \in D : pick[d] \in kSubset(need[d], from(d))
    BY <1>1, <2>3, <2>4
  <2>6. DOMAIN pick = D
    BY <2>5
  <2> QED
    BY <2>2, <2>5, <2>6
<1>3. ASSUME NEW d \in D
      PROVE  pick[d] \subseteq from(d) /\ IsFiniteSet(pick[d]) /\ Cardinality(pick[d]) = need[d]
  <2>1. pick[d] \subseteq from(d) /\ Cardinality(pick[d]) = need[d]
    BY <1>2 DEF kSubset
  <2>2. from(d) \subseteq questions
    BY DEF OfCert, InDomain
  <2> QED
    BY <2>1, <2>2, PoolsAssumption, FS_Subset
<1>4. \A d \in D : \A q \in pick[d] : Head(Topic(q)) = d /\ Blueprints[b].cert \in Certs(q)
  BY <1>3 DEF OfCert, InDomain
<1>5. IsFiniteSet(D)
  BY Shares
<1> HIDE DEF need, from, eligible, D
<1>6. Cardinality(qs) = Blueprints[b].count
  <2>1. \A d \in D : IsFiniteSet(pick[d]) /\ need[d] = Cardinality(pick[d])
    BY <1>3
  <2>2. \A d, e \in D : d # e => pick[d] \cap pick[e] = {}
    BY <1>4
  <2>3. Cardinality(UNION {pick[d] : d \in D}) = SumFunctionOnSet(need, D)
    <3>1. /\ \A d \in D : IsFiniteSet(pick[d]) /\ need[d] = Cardinality(pick[d])
          /\ \A d, e \in D : d # e => pick[d] \cap pick[e] = {}
          => Cardinality(UNION {pick[d] : d \in D}) = SumFunctionOnSet(need, D)
      BY ONLY <1>5, UnionCounts, SMTT(30)
    <3> QED
      BY ONLY <2>1, <2>2, <3>1
  <2>4. SumFunctionOnSet(need, D) = Blueprints[b].count
    BY Shares DEF need, D
  <2> QED
    BY <1>2, <2>3, <2>4
<1>7. \A q \in qs : Blueprints[b].cert \in Certs(q) /\ Head(Topic(q)) \in D
  BY <1>2, <1>4
<1>8. ASSUME NEW d \in D PROVE InDomain(qs, d) = pick[d]
  BY <1>2, <1>4 DEF InDomain
<1>9. ASSUME NEW d \in D
      PROVE  LET off == Cardinality(InDomain(qs, d)) * SumFunction(Blueprints[b].weights)
                          - Blueprints[b].count * Blueprints[b].weights[d]
             IN  off < SumFunction(Blueprints[b].weights) /\ -off < SumFunction(Blueprints[b].weights)
  <2>1. Cardinality(InDomain(qs, d)) = need[d]
    BY <1>3, <1>8
  <2> QED
    BY <2>1, Shares DEF need, D
<1> QED
  BY <1>6, <1>7, <1>9 DEF FollowsBlueprint, D

\* A spec has the count and the seed of a form, and topics as forms have them.
IsSpec(s) ==
    /\ DOMAIN s = SpecFields
    /\ \A t \in s.topics : SubSeq(t, 1, Len(t)) = t
    /\ \E f \in Forms : s.count = f.count /\ s.seed = f.seed

\* The rows hold what the history knows.
HistoryInv == met \subseteq HistoryMap.seen /\ HistoryMap.missed \subseteq failed

LEMMA CustomDraws ==
    ASSUME HistoryInv, NEW spec, IsSpec(spec), NEW questions \in Pools, NEW qs \in CustomFrom(questions, spec),
           NEW a, a.asked = spec, a.questions = qs, a.seen = met, a.missed = failed
    PROVE  FollowsSpec(a)
<1> DEFINE eligible == FilterQuestions(questions, spec)
<1>1. eligible \subseteq Questions /\ IsFiniteSet(eligible)
  <2>1. eligible \subseteq questions
    BY DEF FilterQuestions, OfCert
  <2> QED
    BY <2>1, PoolsAssumption, FS_Subset
<1>2. Cardinality(eligible) >= spec.count
  BY DEF CustomFrom, Suffices
<1>3. qs \in kSubset(spec.count, eligible)
  <2>1. CASE spec.seed = None
    BY <1>2, <2>1 DEF CustomFrom
  <2>2. CASE spec.seed # None
    <3>1. PICK f \in Forms : spec.count = f.count /\ spec.seed = f.seed
      BY DEF IsSpec
    <3>2. eligible \in SUBSET Questions
      BY <1>1
    <3>3. SeededPick(f.seed, eligible, f.count) \in kSubset(f.count, eligible)
      <4> HIDE DEF eligible
      <4> QED
        BY <1>1, <1>2, <2>2, <3>1, <3>2, PickAssumption
    <3>4. qs = SeededPick(spec.seed, eligible, spec.count)
      BY <2>2 DEF CustomFrom
    <3> QED
      BY <3>1, <3>3, <3>4
  <2> QED
    BY <2>1, <2>2
<1>4. qs \subseteq eligible /\ Cardinality(qs) = spec.count
  BY <1>3 DEF kSubset
<1>5. ASSUME NEW q \in qs, spec.topics # {}
      PROVE  \E t \in spec.topics : SubSeq(Topic(q), 1, Len(t)) = t
  <2>1. PICK t \in spec.topics : IsPrefix(t, Topic(q))
    BY <1>4, <1>5 DEF FilterQuestions, TopicMatches
  <2>2. SubSeq(t, 1, Len(t)) = t
    BY DEF IsSpec
  <2> QED
    BY <2>1, <2>2 DEF IsPrefix
<1>6. ASSUME NEW q \in qs
      PROVE  /\ spec.cert \in Certs(q)
             /\ spec.difficulties # {} => Difficulty(q) \in spec.difficulties
             /\ spec.history = "unseen" => q \notin met
             /\ spec.history = "missed" => q \in failed
  BY <1>4 DEF FilterQuestions, OfCert, HistoryInv
<1> QED
  BY <1>4, <1>5, <1>6 DEF FollowsSpec

LEMMA SubsetsOfSize ==
    ASSUME NEW S, IsFiniteSet(S), NEW n \in Nat
    PROVE  kSubset(n, S) # {} <=> n <= Cardinality(S)
<1>1. ASSUME NEW T \in kSubset(n, S) PROVE n <= Cardinality(S)
  BY FS_Subset DEF kSubset
<1>2. ASSUME n <= Cardinality(S) PROVE kSubset(n, S) # {}
  <2> DEFINE m == Cardinality(S)
  <2>1. m \in Nat /\ ExistsBijection(1..m, S)
    BY FS_CardinalityType
  <2>2. PICK f \in Bijection(1..m, S) : TRUE
    BY <2>1 DEF ExistsBijection
  <2>3. f \in [1..m -> S] /\ \A i, j \in 1..m : f[i] = f[j] => i = j
    BY <2>2 DEF Bijection, Injection, IsInjective
  <2> DEFINE T == {f[i] : i \in 1..n}
             g == [i \in 1..n |-> f[i]]
  <2>4. 1..n \subseteq 1..m
    BY <1>2, <2>1
  <2>5. T \subseteq S
    BY <2>3, <2>4
  <2>6. g \in Surjection(1..n, T) /\ g \in Injection(1..n, T)
    BY <2>3, <2>4 DEF Surjection, Injection, IsInjective
  <2>7. IsFiniteSet(1..n) /\ Cardinality(1..n) = n
    <3>1. 1 \in Int /\ n \in Int
      OBVIOUS
    <3> QED
      BY <3>1, FS_Interval
  <2>8. Cardinality(T) = n
    <3> HIDE DEF T, g
    <3> QED
      BY <2>6, <2>7, FS_Surjection
  <2> QED
    BY <2>5, <2>8 DEF kSubset
<1> QED
  BY <1>1, <1>2

\* What a page says of a blueprint's coverage is what the draw finds
\* (coverage_for_blueprint, build_exam_from_blueprint).
THEOREM CoverageIsRight ==
    ASSUME NEW b \in DOMAIN Blueprints, NEW questions \in Pools
    PROVE  ReadyIsDrawable(b, questions)
<1> SUFFICES ASSUME Blueprints[b].enabled
             PROVE  CoverageReady(b, questions) <=> BuildsFrom(b, questions) # {}
  BY DEF ReadyIsDrawable
<1> DEFINE need == Required(b)
           D == DOMAIN need
           eligible == OfCert(questions, Blueprints[b].cert)
           from(d) == InDomain(eligible, d)
           picks == [d \in D |-> kSubset(need[d], from(d))]
           Draws == {f \in [D -> UNION {picks[d] : d \in D}] : \A d \in D : f[d] \in picks[d]}
<1>1. BuildsFrom(b, questions) = {UNION {pick[d] : d \in DOMAIN pick} : pick \in Draws}
  BY DEF BuildsFrom
<1>2. BuildsFrom(b, questions) # {} <=> Draws # {}
  <2> HIDE DEF Draws
  <2>1. ASSUME NEW pick \in Draws PROVE UNION {pick[d] : d \in DOMAIN pick} \in BuildsFrom(b, questions)
    BY <1>1
  <2>2. ASSUME NEW qs \in BuildsFrom(b, questions) PROVE Draws # {}
    BY <1>1, <2>2
  <2> QED
    BY <2>1, <2>2
<1>3. ASSUME NEW d \in D PROVE picks[d] # {} <=> Cardinality(from(d)) >= need[d]
  <2>1. need[d] \in Nat
    BY Shares
  <2>2. from(d) \subseteq questions
    BY DEF OfCert, InDomain
  <2>3. IsFiniteSet(from(d)) /\ Cardinality(from(d)) \in Nat
    BY <2>2, PoolsAssumption, FS_Subset, FS_CardinalityType
  <2>4. picks[d] = kSubset(need[d], from(d))
    OBVIOUS
  <2> HIDE DEF picks, from, need, D
  <2> QED
    BY <2>1, <2>3, <2>4, SubsetsOfSize
<1>4. CoverageReady(b, questions) <=> \A d \in D : Cardinality(from(d)) >= need[d]
  BY DEF CoverageReady
<1> HIDE DEF picks, from, need, D
<1>5. Draws # {} <=> \A d \in D : picks[d] # {}
  <2>1. ASSUME \A d \in D : picks[d] # {} PROVE Draws # {}
    <3> DEFINE f == [d \in D |-> CHOOSE x \in picks[d] : TRUE]
    <3>1. \A d \in D : f[d] \in picks[d]
      BY <2>1
    <3>2. f \in [D -> UNION {picks[d] : d \in D}]
      BY <3>1
    <3> HIDE DEF f
    <3> QED
      BY <3>1, <3>2
  <2> QED
    BY <2>1
<1> QED
  BY <1>2, <1>3, <1>4, <1>5

-----------------------------------------------------------------------------
(* The attempts stay what they were drawn as, and what the next ones are   *)
(* drawn from stays what it should be.                                     *)

AttemptFields == {"questions", "preset", "blueprint", "asked", "seen", "missed", "status"}

IsAttempt(a) ==
    /\ DOMAIN a = AttemptFields
    /\ a.preset \in PresetIds \cup {None}
    /\ IF a.blueprint # None
       THEN a.blueprint \in DOMAIN Blueprints /\ FollowsBlueprint(a)
       ELSE a.asked \in {[same |-> a.questions]} \/ FollowsSpec(a)

PoolsInv == pool \in Pools /\ served \in Pools

IsSaving(t) == t.id \in PresetIds /\ IsSpec(t.spec)

FilesInv ==
    /\ DOMAIN presets = PresetIds
    /\ \A id \in PresetIds : presets[id] \in {None, Corrupt} \/ IsSpec(presets[id])
    /\ DOMAIN saving = {"window", "client"}
    /\ \A who \in {"window", "client"} : saving[who] = None \/ IsSaving(saving[who])
    /\ \A t \in leftovers : IsSaving(t)

PageInv == IsSpec(form) /\ editing \in PresetIds \cup {None}

AttemptsInv ==
    /\ running = None \/ IsAttempt(running)
    /\ client = None \/ IsAttempt(client)
    /\ place \in {"exam", "result"} => IsAttempt(running)

DrawInv == PoolsInv /\ FilesInv /\ PageInv /\ HistoryInv /\ AttemptsInv

LEMMA AttemptMade ==
    ASSUME NEW questions, NEW preset, NEW blueprint, NEW drawnFor
    PROVE  LET a == Attempt(questions, preset, blueprint, drawnFor)
           IN  /\ DOMAIN a = AttemptFields
               /\ a.questions = questions /\ a.preset = preset /\ a.blueprint = blueprint
               /\ a.asked = drawnFor /\ a.seen = met /\ a.missed = failed
BY DEF Attempt, AttemptFields

LEMMA BlueprintAttempt ==
    ASSUME NEW b \in DOMAIN Blueprints, NEW questions \in Pools, NEW a \in BlueprintAttempts(b, questions)
    PROVE  IsAttempt(a)
<1>1. PICK qs \in BuildsFrom(b, questions) : a = Attempt(qs, None, b, b)
  BY DEF BlueprintAttempts
<1>2. DOMAIN a = AttemptFields /\ a.questions = qs /\ a.preset = None /\ a.blueprint = b
  BY <1>1, AttemptMade
<1>3. FollowsBlueprint(a)
  BY <1>2, BlueprintDraws
<1>4. b # None
  BY BlueprintIdsAssumption
<1> QED
  BY <1>2, <1>3, <1>4 DEF IsAttempt

LEMMA CustomAttempt ==
    ASSUME HistoryInv, NEW spec, IsSpec(spec), NEW preset \in PresetIds \cup {None}, NEW questions \in Pools,
           NEW a \in CustomAttempts(spec, preset, questions)
    PROVE  IsAttempt(a)
<1>1. PICK qs \in CustomFrom(questions, spec) : a = Attempt(qs, preset, None, spec)
  BY DEF CustomAttempts
<1>2. /\ DOMAIN a = AttemptFields /\ a.questions = qs /\ a.preset = preset /\ a.blueprint = None
      /\ a.asked = spec /\ a.seen = met /\ a.missed = failed
  BY <1>1, AttemptMade
<1>3. FollowsSpec(a)
  BY <1>2, CustomDraws
<1> QED
  BY <1>2, <1>3 DEF IsAttempt

LEMMA StatusChanges ==
    ASSUME NEW a, IsAttempt(a), NEW s
    PROVE  IsAttempt([a EXCEPT !.status = s])
<1> DEFINE b == [a EXCEPT !.status = s]
<1>1. /\ DOMAIN b = AttemptFields /\ b.questions = a.questions /\ b.preset = a.preset
      /\ b.blueprint = a.blueprint /\ b.asked = a.asked /\ b.seen = a.seen /\ b.missed = a.missed
  BY DEF IsAttempt, AttemptFields
<1> HIDE DEF b
<1>2. FollowsBlueprint(b) <=> FollowsBlueprint(a)
  BY <1>1 DEF FollowsBlueprint
<1>3. FollowsSpec(b) <=> FollowsSpec(a)
  BY <1>1 DEF FollowsSpec
<1>4. IsAttempt(b)
  BY <1>1, <1>2, <1>3 DEF IsAttempt
<1> QED
  BY <1>4 DEF b

LEMMA OfferedIsSpec == ASSUME NEW s, IsSpec(s) PROVE IsSpec(Offered(s))
<1> DEFINE o == [s EXCEPT !.topics = {}]
<1>1. /\ DOMAIN o = SpecFields /\ o.topics = {} /\ o.count = s.count /\ o.seed = s.seed
  BY DEF IsSpec, SpecFields
<1> HIDE DEF o
<1>2. IsSpec(o)
  BY <1>1 DEF IsSpec
<1> QED
  BY <1>2 DEF Offered, o

LEMMA LoadedIsSpec ==
    ASSUME NEW s, IsSpec(s), NEW ts, ts = {} \/ \E t \in s.topics : ts = {t}
    PROVE  IsSpec([s EXCEPT !.topics = ts])
<1> DEFINE o == [s EXCEPT !.topics = ts]
<1>1. /\ DOMAIN o = SpecFields /\ o.topics = ts /\ o.count = s.count /\ o.seed = s.seed
  BY DEF IsSpec, SpecFields
<1> HIDE DEF o
<1>2. IsSpec(o)
  BY <1>1 DEF IsSpec
<1> QED
  BY <1>2 DEF o

LEMMA FormIsSpec == ASSUME NEW f \in Forms PROVE IsSpec(f)
<1>1. DOMAIN f = SpecFields
  BY FormsAssumption
<1>2. ASSUME NEW t \in f.topics PROVE SubSeq(t, 1, Len(t)) = t
  <2>1. t \in Seq(Range(t))
    BY FormsAssumption
  <2> QED
    BY <2>1, SubSeqFull
<1> QED
  BY <1>1, <1>2 DEF IsSpec

LEMMA ReadableIsSpec ==
    ASSUME FilesInv, NEW id \in PresetIds, NEW s \in Readable(id)
    PROVE  IsSpec(s)
BY DEF FilesInv, Readable, Known, TempFiles, IsSaving

-----------------------------------------------------------------------------
(* What the steps change.                                                  *)

LEMMA HistoryKept == ASSUME HistoryInv, UNCHANGED recipeRows PROVE HistoryInv'
BY DEF HistoryInv, HistoryMap, recipeRows

LEMMA FilesKept == ASSUME FilesInv, UNCHANGED recipeFiles PROVE FilesInv'
BY DEF FilesInv, recipeFiles

LEMMA GradedKeeps ==
    ASSUME HistoryInv, NEW attempt, Graded(attempt), UNCHANGED practiced
    PROVE  HistoryInv'
<1>1. CASE UNCHANGED <<answered, met, failed>>
  BY <1>1, HistoryKept DEF recipeRows
<1>2. ASSUME NEW right \in SUBSET attempt.questions, NEW blank \in SUBSET attempt.questions,
             right \cap blank = {},
             answered' = answered \cup
                {[q |-> q, right |-> IF q \in blank THEN None ELSE q \in right] : q \in attempt.questions},
             met' = met \cup attempt.questions,
             failed' = failed \cup (attempt.questions \ right)
      PROVE  HistoryInv'
  <2> DEFINE Row(q) == [q |-> q, right |-> IF q \in blank THEN None ELSE q \in right]
             New == {Row(q) : q \in attempt.questions}
  <2>1. answered' = answered \cup New
    BY <1>2
  <2>2. \A q \in attempt.questions : Row(q) \in New /\ Row(q).q = q
    OBVIOUS
  <2>3. \A r \in New : r.q \in attempt.questions /\ (r.right # TRUE => r.q \notin right)
    <3>1. ASSUME NEW q \in attempt.questions, q \in right PROVE Row(q).right = TRUE
      <4>1. q \notin blank
        BY <1>2, <3>1
      <4>2. Row(q).right = (q \in right)
        BY <4>1
      <4> QED
        BY <3>1, <4>2
    <3> TAKE r \in New
    <3>2. PICK q \in attempt.questions : r = Row(q)
      OBVIOUS
    <3> HIDE DEF Row
    <3> QED
      BY <2>2, <3>1, <3>2
  <2> HIDE DEF Row, New
  <2>4. ASSUME NEW q \in met' PROVE q \in HistoryMap.seen'
    <3>1. CASE q \in met
      BY <2>1, <3>1 DEF HistoryInv, HistoryMap
    <3>2. CASE q \in attempt.questions
      BY <2>1, <2>2, <3>2 DEF HistoryMap
    <3> QED
      BY <1>2, <3>1, <3>2
  <2>5. ASSUME NEW q \in HistoryMap.missed' PROVE q \in failed'
    <3>1. PICK r \in practiced \cup answered \cup New : r.right # TRUE /\ q = r.q
      BY <2>1 DEF HistoryMap
    <3>2. CASE r \in practiced \cup answered
      <4>1. q \in HistoryMap.missed
        BY <3>1, <3>2 DEF HistoryMap
      <4> QED
        BY <1>2, <4>1 DEF HistoryInv
    <3>3. CASE r \in New
      BY <1>2, <2>3, <3>1, <3>3
    <3> QED
      BY <3>2, <3>3
  <2> QED
    BY <2>4, <2>5 DEF HistoryInv
<1> QED
  BY <1>1, <1>2 DEF Graded

LEMMA PracticeKeeps ==
    ASSUME HistoryInv, NEW q \in Questions, NEW right \in BOOLEAN, Practice(q, right)
    PROVE  HistoryInv'
<1> DEFINE row == [q |-> q, right |-> right]
<1>1. /\ practiced' = practiced \cup {row} /\ answered' = answered
      /\ met' = met \cup {q} /\ failed' = IF right THEN failed ELSE failed \cup {q}
  BY DEF Practice
<1>2. row.q = q /\ row.right = right
  OBVIOUS
<1> HIDE DEF row
<1>3. ASSUME NEW x \in met' PROVE x \in HistoryMap.seen'
  BY <1>1, <1>2 DEF HistoryInv, HistoryMap
<1>4. ASSUME NEW x \in HistoryMap.missed' PROVE x \in failed'
  <2>1. PICK r \in practiced \cup {row} \cup answered : r.right # TRUE /\ x = r.q
    BY <1>1 DEF HistoryMap
  <2>2. CASE r \in practiced \cup answered
    <3>1. x \in HistoryMap.missed
      BY <2>1, <2>2 DEF HistoryMap
    <3> QED
      BY <1>1, <3>1 DEF HistoryInv
  <2>3. CASE r = row
    BY <1>1, <1>2, <2>1, <2>3
  <2> QED
    BY <2>2, <2>3
<1> QED
  BY <1>3, <1>4 DEF HistoryInv

LEMMA SaveBeginsKeeps ==
    ASSUME FilesInv, NEW who \in {"window", "client"}, NEW id \in PresetIds, NEW spec, IsSpec(spec),
           SaveBegins(who, id, spec)
    PROVE  FilesInv'
<1> DEFINE t == [id |-> id, spec |-> spec]
<1>1. IsSaving(t)
  BY DEF IsSaving
<1>2. saving' = [saving EXCEPT ![who] = t] /\ UNCHANGED <<presets, leftovers>>
  BY DEF SaveBegins
<1> HIDE DEF t
<1> QED
  BY <1>1, <1>2 DEF FilesInv

LEMMA StoredKeeps ==
    ASSUME FilesInv, NEW who \in {"window", "client"}, Stored(who)
    PROVE  FilesInv' /\ saving[who].id \in PresetIds
<1>1. saving[who].id \in PresetIds /\ IsSpec(saving[who].spec)
  BY DEF FilesInv, Stored, IsSaving
<1> QED
  BY <1>1 DEF FilesInv, Stored

LEMMA DeletedKeeps == ASSUME FilesInv, NEW id \in PresetIds, Deleted(id) PROVE FilesInv'
BY DEF FilesInv, Deleted

LEMMA ConfirmedKeeps ==
    ASSUME AttemptsInv, NEW a, IsAttempt(a), Confirmed(a), UNCHANGED client
    PROVE  AttemptsInv'
<1>1. CASE running' = a /\ place' = "exam"
  BY <1>1 DEF AttemptsInv
<1>2. ASSUME NEW r \in Resumable, running' = [r EXCEPT !.status = "active"], place' = "exam"
      PROVE  AttemptsInv'
  <2>1. IsAttempt(r)
    BY DEF AttemptsInv, Resumable
  <2> QED
    BY <1>2, <2>1, StatusChanges DEF AttemptsInv
<1>3. CASE UNCHANGED <<running, place>>
  BY <1>3 DEF AttemptsInv
<1> QED
  BY <1>1, <1>2, <1>3 DEF Confirmed

LEMMA AttemptsKept ==
    ASSUME AttemptsInv, UNCHANGED <<running, client>>, place' \in {"exam", "result"} => place' = place
    PROVE  AttemptsInv'
BY DEF AttemptsInv

LEMMA RetakesAreAttempts ==
    ASSUME DrawInv, NEW a, IsAttempt(a), NEW r \in Retakes(a)
    PROVE  IsAttempt(r)
<1>1. CASE a.preset # None
  <2>1. a.preset \in PresetIds /\ Known(a.preset) /\ r \in CustomAttempts(presets[a.preset], a.preset, pool)
    BY <1>1 DEF Retakes, IsAttempt
  <2>2. IsSpec(presets[a.preset])
    BY <2>1 DEF Known, DrawInv, FilesInv
  <2> QED
    BY <2>1, <2>2, CustomAttempt DEF DrawInv, PoolsInv
<1>2. CASE a.preset = None
  <2>1. a.blueprint # None /\ r \in BlueprintAttempts(a.blueprint, pool)
    BY <1>2 DEF Retakes
  <2>2. a.blueprint \in DOMAIN Blueprints
    BY <2>1 DEF IsAttempt
  <2> QED
    BY <2>1, <2>2, BlueprintAttempt DEF DrawInv, PoolsInv
<1> QED
  BY <1>1, <1>2

LEMMA DrawsBegin == RecipeInit => DrawInv
<1> SUFFICES ASSUME RecipeInit PROVE DrawInv
  OBVIOUS
<1>1. PoolsInv
  BY DEF RecipeInit, PoolsInv
<1>2. FilesInv
  BY DEF RecipeInit, FilesInv
<1>3. PageInv
  BY FormIsSpec DEF RecipeInit, PageInv
<1>4. HistoryInv
  BY DEF RecipeInit, HistoryInv, HistoryMap
<1>5. AttemptsInv
  BY DEF RecipeInit, AttemptsInv
<1> QED
  BY <1>1, <1>2, <1>3, <1>4, <1>5 DEF DrawInv

LEMMA WindowKeeps ==
    ASSUME DrawInv, \/ LeavePage \/ LeaveResult \/ Finish \/ Pause \/ Retake \/ StartRefused \/ StartCustom
                    \/ \E b \in DOMAIN Blueprints : StartBlueprint(b)
    PROVE  DrawInv'
<1> USE DEF recipePool, recipePage, NothingElse
<1>1. CASE LeavePage \/ LeaveResult \/ StartRefused
  <2>1. UNCHANGED <<pool, served, form, editing, running, client, recipeRows, recipeFiles>>
        /\ (place' = "elsewhere" \/ place' = place)
    BY <1>1 DEF LeavePage, LeaveResult, StartRefused
  <2>2. AttemptsInv'
    BY <2>1, AttemptsKept DEF DrawInv
  <2> QED
    BY <2>1, <2>2, HistoryKept, FilesKept DEF DrawInv, PoolsInv, PageInv
<1>2. CASE Finish
  <2>1. /\ UNCHANGED <<pool, served, form, editing, client, practiced, recipeFiles>>
        /\ place = "exam" /\ running' = [running EXCEPT !.status = "finished"] /\ Graded(running)
    BY <1>2 DEF Finish
  <2>2. IsAttempt(running')
    BY <2>1, StatusChanges DEF DrawInv, AttemptsInv
  <2>3. AttemptsInv'
    BY <2>1, <2>2 DEF DrawInv, AttemptsInv
  <2>4. HistoryInv'
    BY <2>1, GradedKeeps DEF DrawInv
  <2> QED
    BY <2>1, <2>3, <2>4, FilesKept DEF DrawInv, PoolsInv, PageInv
<1>3. CASE Pause
  <2>1. /\ UNCHANGED <<pool, served, form, editing, client, recipeRows, recipeFiles>>
        /\ place = "exam" /\ running' = [running EXCEPT !.status = "paused"] /\ place' = "elsewhere"
    BY <1>3 DEF Pause
  <2>2. IsAttempt(running')
    BY <2>1, StatusChanges DEF DrawInv, AttemptsInv
  <2>3. AttemptsInv'
    BY <2>1, <2>2 DEF DrawInv, AttemptsInv
  <2> QED
    BY <2>1, <2>3, HistoryKept, FilesKept DEF DrawInv, PoolsInv, PageInv
<1>4. CASE Retake
  <2>1. /\ UNCHANGED <<pool, served, form, editing, client, recipeRows, recipeFiles>>
        /\ place = "result" /\ place' = "exam"
        /\ running' \in (IF Retakes(running) # {} THEN Retakes(running)
                         ELSE {Attempt(running.questions, None, None, [same |-> running.questions])})
    BY <1>4 DEF Retake
  <2>2. IsAttempt(running)
    BY <2>1 DEF DrawInv, AttemptsInv
  <2>3. IsAttempt(running')
    <3>1. CASE Retakes(running) # {}
      BY <2>1, <2>2, <3>1, RetakesAreAttempts
    <3>2. CASE running' = Attempt(running.questions, None, None, [same |-> running.questions])
      BY <3>2, AttemptMade DEF IsAttempt
    <3> QED
      BY <2>1, <3>1, <3>2
  <2>4. AttemptsInv'
    BY <2>1, <2>3 DEF DrawInv, AttemptsInv
  <2> QED
    BY <2>1, <2>4, HistoryKept, FilesKept DEF DrawInv, PoolsInv, PageInv
<1>5. CASE StartCustom
  <2>1. PICK a \in CustomAttempts(form, editing, pool) : Confirmed(a)
    BY <1>5 DEF StartCustom
  <2>2. UNCHANGED <<pool, served, form, editing, client, recipeRows, recipeFiles>>
    BY <1>5 DEF StartCustom
  <2>3. IsAttempt(a)
    BY CustomAttempt DEF DrawInv, PageInv, PoolsInv
  <2>4. AttemptsInv'
    BY <2>1, <2>2, <2>3, ConfirmedKeeps DEF DrawInv
  <2> QED
    BY <2>2, <2>4, HistoryKept, FilesKept DEF DrawInv, PoolsInv, PageInv
<1>6. ASSUME NEW b \in DOMAIN Blueprints, StartBlueprint(b) PROVE DrawInv'
  <2>1. PICK a \in BlueprintAttempts(b, pool) : Confirmed(a)
    BY <1>6 DEF StartBlueprint
  <2>2. UNCHANGED <<pool, served, form, editing, client, recipeRows, recipeFiles>>
    BY <1>6 DEF StartBlueprint
  <2>3. IsAttempt(a)
    BY BlueprintAttempt DEF DrawInv, PoolsInv
  <2>4. AttemptsInv'
    BY <2>1, <2>2, <2>3, ConfirmedKeeps DEF DrawInv
  <2> QED
    BY <2>2, <2>4, HistoryKept, FilesKept DEF DrawInv, PoolsInv, PageInv
<1> QED
  BY <1>1, <1>2, <1>3, <1>4, <1>5, <1>6

LEMMA FormKeeps ==
    ASSUME DrawInv, \/ OpenPage \/ SavePreset \/ PresetSaved \/ SaveFailed
                    \/ \E spec \in Forms : EditForm(spec)
                    \/ \E id \in PresetIds : LoadPreset(id) \/ DeletePreset(id)
    PROVE  DrawInv'
<1> USE DEF recipePool, recipePage, NothingElse
<1>1. CASE OpenPage
  <2>1. /\ UNCHANGED <<pool, served, editing, running, client, recipeRows, recipeFiles>>
        /\ form' = Offered(form) /\ place' = "custom"
    BY <1>1 DEF OpenPage
  <2>2. IsSpec(form')
    BY <2>1, OfferedIsSpec DEF DrawInv, PageInv
  <2>3. AttemptsInv'
    BY <2>1, AttemptsKept DEF DrawInv
  <2> QED
    BY <2>1, <2>2, <2>3, HistoryKept, FilesKept DEF DrawInv, PoolsInv, PageInv
<1>2. CASE SavePreset
  <2>1. PICK id \in (IF editing = None THEN FreshIds ELSE {editing}) : SaveBegins("window", id, form)
    BY <1>2 DEF SavePreset
  <2>2. UNCHANGED <<pool, served, form, editing, running, client, place, recipeRows>>
    BY <1>2 DEF SavePreset
  <2>3. id \in PresetIds
    BY <2>1 DEF DrawInv, PageInv, FreshIds
  <2>4. FilesInv'
    BY <2>1, <2>3, SaveBeginsKeeps DEF DrawInv, PageInv
  <2>5. AttemptsInv'
    BY <2>2, AttemptsKept DEF DrawInv
  <2> QED
    BY <2>2, <2>4, <2>5, HistoryKept DEF DrawInv, PoolsInv, PageInv
<1>3. CASE PresetSaved
  <2>1. /\ UNCHANGED <<pool, served, form, running, client, place, recipeRows>>
        /\ Stored("window") /\ editing' = saving["window"].id
    BY <1>3 DEF PresetSaved
  <2>2. FilesInv' /\ editing' \in PresetIds
    BY <2>1, StoredKeeps DEF DrawInv
  <2>3. AttemptsInv'
    BY <2>1, AttemptsKept DEF DrawInv
  <2> QED
    BY <2>1, <2>2, <2>3, HistoryKept DEF DrawInv, PoolsInv, PageInv
<1>4. CASE SaveFailed
  <2>1. /\ UNCHANGED <<pool, served, form, editing, running, client, place, recipeRows, presets, leftovers>>
        /\ saving' = [saving EXCEPT !["window"] = None]
    BY <1>4 DEF SaveFailed
  <2>2. FilesInv'
    BY <2>1 DEF DrawInv, FilesInv
  <2>3. AttemptsInv'
    BY <2>1, AttemptsKept DEF DrawInv
  <2> QED
    BY <2>1, <2>2, <2>3, HistoryKept DEF DrawInv, PoolsInv, PageInv
<1>5. ASSUME NEW spec \in Forms, EditForm(spec) PROVE DrawInv'
  <2>1. /\ UNCHANGED <<pool, served, editing, running, client, place, recipeRows, recipeFiles>>
        /\ form' = Offered(spec)
    BY <1>5 DEF EditForm
  <2>2. IsSpec(form')
    BY <2>1, OfferedIsSpec, FormIsSpec
  <2>3. AttemptsInv'
    BY <2>1, AttemptsKept DEF DrawInv
  <2> QED
    BY <2>1, <2>2, <2>3, HistoryKept, FilesKept DEF DrawInv, PoolsInv, PageInv
<1>6. ASSUME NEW id \in PresetIds, LoadPreset(id) PROVE DrawInv'
  <2>1. UNCHANGED <<pool, served, running, client, place, recipeRows, recipeFiles>> /\ editing' = id
    BY <1>6 DEF LoadPreset
  <2>2. PICK spec \in Readable(id) :
           \E ts \in (IF spec.topics = {} THEN {{}} ELSE {{t} : t \in spec.topics}) :
              form' = Offered([spec EXCEPT !.topics = ts])
    BY <1>6 DEF LoadPreset
  <2>8. PICK ts \in (IF spec.topics = {} THEN {{}} ELSE {{t} : t \in spec.topics}) :
           form' = Offered([spec EXCEPT !.topics = ts])
    BY <2>2
  <2>3. IsSpec(spec)
    BY ReadableIsSpec DEF DrawInv
  <2>4. ts = {} \/ \E t \in spec.topics : ts = {t}
    BY <2>8
  <2>5. IsSpec([spec EXCEPT !.topics = ts])
    BY <2>3, <2>4, LoadedIsSpec
  <2>6. IsSpec(form')
    BY <2>8, <2>5, OfferedIsSpec
  <2>7. AttemptsInv'
    BY <2>1, AttemptsKept DEF DrawInv
  <2> QED
    BY <2>1, <2>6, <2>7, HistoryKept, FilesKept DEF DrawInv, PoolsInv, PageInv
<1>7. ASSUME NEW id \in PresetIds, DeletePreset(id) PROVE DrawInv'
  <2>1. /\ UNCHANGED <<pool, served, form, running, client, place, recipeRows>>
        /\ Deleted(id) /\ editing' = (IF editing = id THEN None ELSE editing)
    BY <1>7 DEF DeletePreset
  <2>2. FilesInv'
    BY <2>1, DeletedKeeps DEF DrawInv
  <2>3. AttemptsInv'
    BY <2>1, AttemptsKept DEF DrawInv
  <2> QED
    BY <2>1, <2>2, <2>3, HistoryKept DEF DrawInv, PoolsInv, PageInv
<1> QED
  BY <1>1, <1>2, <1>3, <1>4, <1>5, <1>6, <1>7

LEMMA ClientAndFilesKeep ==
    ASSUME DrawInv, \/ ClientSaved \/ ClientStarts \/ ClientFinishes
                    \/ \E id \in PresetIds : ClientDeletes(id) \/ Corrupted(id)
                    \/ \E id \in PresetIds, spec \in Forms : ClientSaves(id, spec)
                    \/ \E who \in {"window", "client"} : Ends(who)
    PROVE  DrawInv'
<1> USE DEF recipePool, recipePage, ClientKeeps
<1>1. CASE ClientSaved
  <2>1. UNCHANGED <<pool, served, form, editing, running, client, place, recipeRows>> /\ Stored("client")
    BY <1>1 DEF ClientSaved
  <2>2. FilesInv'
    BY <2>1, StoredKeeps DEF DrawInv
  <2>3. AttemptsInv'
    BY <2>1, AttemptsKept DEF DrawInv
  <2> QED
    BY <2>1, <2>2, <2>3, HistoryKept DEF DrawInv, PoolsInv, PageInv
<1>2. CASE ClientStarts
  <2>1. UNCHANGED <<pool, served, form, editing, running, place, recipeRows, recipeFiles>>
    BY <1>2 DEF ClientStarts
  <2>2. IsAttempt(client')
    <3>1. ASSUME NEW b \in DOMAIN Blueprints, client' \in BlueprintAttempts(b, served) PROVE IsAttempt(client')
      BY <3>1, BlueprintAttempt DEF DrawInv, PoolsInv
    <3>2. ASSUME NEW id \in PresetIds, Known(id), client' \in CustomAttempts(presets[id], id, served)
          PROVE  IsAttempt(client')
      <4>1. IsSpec(presets[id])
        BY <3>2 DEF Known, DrawInv, FilesInv
      <4> QED
        BY <3>2, <4>1, CustomAttempt DEF DrawInv, PoolsInv
    <3>3. ASSUME NEW spec \in Forms, client' \in CustomAttempts(spec, None, served) PROVE IsAttempt(client')
      BY <3>3, FormIsSpec, CustomAttempt DEF DrawInv, PoolsInv
    <3> QED
      BY <1>2, <3>1, <3>2, <3>3 DEF ClientStarts
  <2>3. AttemptsInv'
    BY <2>1, <2>2 DEF DrawInv, AttemptsInv
  <2> QED
    BY <2>1, <2>3, HistoryKept, FilesKept DEF DrawInv, PoolsInv, PageInv
<1>3. CASE ClientFinishes
  <2>1. /\ UNCHANGED <<pool, served, form, editing, running, place, practiced, recipeFiles>>
        /\ client # None /\ client' = [client EXCEPT !.status = "finished"] /\ Graded(client)
    BY <1>3 DEF ClientFinishes
  <2>2. IsAttempt(client')
    BY <2>1, StatusChanges DEF DrawInv, AttemptsInv
  <2>3. AttemptsInv'
    BY <2>1, <2>2 DEF DrawInv, AttemptsInv
  <2>4. HistoryInv'
    BY <2>1, GradedKeeps DEF DrawInv
  <2> QED
    BY <2>1, <2>3, <2>4, FilesKept DEF DrawInv, PoolsInv, PageInv
<1>4. ASSUME NEW id \in PresetIds, ClientDeletes(id) PROVE DrawInv'
  <2>1. UNCHANGED <<pool, served, form, editing, running, client, place, recipeRows>> /\ Deleted(id)
    BY <1>4 DEF ClientDeletes
  <2>2. FilesInv'
    BY <2>1, DeletedKeeps DEF DrawInv
  <2>3. AttemptsInv'
    BY <2>1, AttemptsKept DEF DrawInv
  <2> QED
    BY <2>1, <2>2, <2>3, HistoryKept DEF DrawInv, PoolsInv, PageInv
<1>5. ASSUME NEW id \in PresetIds, Corrupted(id) PROVE DrawInv'
  <2>1. /\ UNCHANGED <<pool, served, form, editing, running, client, place, recipeRows, saving, leftovers>>
        /\ presets' = [presets EXCEPT ![id] = Corrupt]
    BY <1>5 DEF Corrupted
  <2>2. FilesInv'
    BY <2>1 DEF DrawInv, FilesInv
  <2>3. AttemptsInv'
    BY <2>1, AttemptsKept DEF DrawInv
  <2> QED
    BY <2>1, <2>2, <2>3, HistoryKept DEF DrawInv, PoolsInv, PageInv
<1>6. ASSUME NEW id \in PresetIds, NEW spec \in Forms, ClientSaves(id, spec) PROVE DrawInv'
  <2>1. /\ UNCHANGED <<pool, served, form, editing, running, client, place, recipeRows>>
        /\ SaveBegins("client", id, spec)
    BY <1>6 DEF ClientSaves
  <2>2. FilesInv'
    BY <2>1, SaveBeginsKeeps, FormIsSpec DEF DrawInv
  <2>3. AttemptsInv'
    BY <2>1, AttemptsKept DEF DrawInv
  <2> QED
    BY <2>1, <2>2, <2>3, HistoryKept DEF DrawInv, PoolsInv, PageInv
<1>7. ASSUME NEW who \in {"window", "client"}, Ends(who) PROVE DrawInv'
  <2>1. /\ UNCHANGED <<pool, served, form, recipeRows, presets>>
        /\ saving[who] # None
        /\ leftovers' = leftovers \cup {saving[who]}
        /\ saving' = [saving EXCEPT ![who] = None]
    BY <1>7 DEF Ends
  <2>2. FilesInv'
    BY <2>1 DEF DrawInv, FilesInv
  <2>3. AttemptsInv' /\ (editing' = None \/ editing' = editing)
    <3>1. CASE who = "window"
      BY <1>7, <3>1 DEF Ends, DrawInv, AttemptsInv
    <3>2. CASE who # "window"
      BY <1>7, <3>2 DEF Ends, DrawInv, AttemptsInv
    <3> QED
      BY <3>1, <3>2
  <2> QED
    BY <2>1, <2>2, <2>3, HistoryKept DEF DrawInv, PoolsInv, PageInv
<1> QED
  BY <1>1, <1>2, <1>3, <1>4, <1>5, <1>6, <1>7

LEMMA DrawStep == ASSUME DrawInv, [RecipeNext]_recipeVars PROVE DrawInv'
<1>1. ASSUME NEW q \in Questions, NEW right \in BOOLEAN, Practice(q, right) PROVE DrawInv'
  <2>1. UNCHANGED <<pool, served, form, editing, running, client, place, recipeFiles>>
    BY <1>1 DEF Practice, recipePool, recipePage
  <2>2. HistoryInv'
    BY <1>1, PracticeKeeps DEF DrawInv
  <2>3. AttemptsInv'
    BY <2>1, AttemptsKept DEF DrawInv
  <2> QED
    BY <2>1, <2>2, <2>3, FilesKept DEF DrawInv, PoolsInv, PageInv
<1>2. ASSUME NEW questions \in Pools, ContentChanges(questions) PROVE DrawInv'
  <2>1. /\ UNCHANGED <<form, editing, running, client, place, recipeRows, recipeFiles>> /\ pool' = questions
        /\ served' \in {served, questions}
    BY <1>2 DEF ContentChanges, recipePage
  <2>2. AttemptsInv'
    BY <2>1, AttemptsKept DEF DrawInv
  <2> QED
    BY <2>1, <2>2, HistoryKept, FilesKept DEF DrawInv, PoolsInv, PageInv
<1>3. CASE UNCHANGED recipeVars
  <2>1. UNCHANGED <<pool, served, form, editing, running, client, place, recipeRows, recipeFiles>>
    BY <1>3 DEF recipeVars, recipePool, recipePage
  <2>2. AttemptsInv'
    BY <2>1, AttemptsKept DEF DrawInv
  <2> QED
    BY <2>1, <2>2, HistoryKept, FilesKept DEF DrawInv, PoolsInv, PageInv
<1> QED
  BY <1>1, <1>2, <1>3, WindowKeeps, FormKeeps, ClientAndFilesKeep DEF RecipeNext

\* Whatever the pool, the presets and the history became meanwhile, every attempt has
\* the questions that were asked for, a blueprint's in the shares allocate_counts
\* gives (build_exam_from_blueprint, build_exam_from_custom, _on_retake).
THEOREM ExamsAreDrawnAsAsked == RecipeSpec => []DrawnAsAsked
<1>1. DrawInv => DrawnAsAsked
  BY DEF DrawInv, AttemptsInv, IsAttempt, DrawnAsAsked
<1>2. DrawInv /\ [RecipeNext]_recipeVars => DrawInv'
  BY DrawStep
<1> QED
  BY <1>1, <1>2, DrawsBegin, PTL DEF RecipeSpec

-----------------------------------------------------------------------------
(* The Start button.  While the page is shown, it is right about what the  *)
(* form asks for, as long as no other process has changed the history, and *)
(* nobody the content, since it was set: everything else that changes the  *)
(* history or the form happens away from the page, which previews when it  *)
(* is opened, or previews itself.                                          *)

ButtonInv ==
    /\ touched \in BOOLEAN
    /\ place = "custom" /\ enabled /\ ~touched => Suffices(pool, form)
    /\ EnabledStarts

\* What Suffices reads.
reads == <<pool, form, practiced, answered>>

LEMMA SufficesReads == ASSUME UNCHANGED reads PROVE Suffices(pool, form)' <=> Suffices(pool, form)
BY DEF reads, Suffices, FilterQuestions, HistoryMap

\* The page previews, it is not shown, the history or the content is touched from
\* outside, or nothing the button depends on changes.
ButtonStep ==
    \/ Preview(form') /\ UNCHANGED <<pool, practiced, answered, refused>>
    \/ place' # "custom" /\ UNCHANGED <<touched, refused>>
    \/ touched' = TRUE /\ UNCHANGED refused
    \/ UNCHANGED <<reads, place, enabled, touched, refused>>
    \/ StartRefused

LEMMA ButtonStepKeeps == ASSUME ButtonInv, ButtonStep PROVE ButtonInv'
<1>1. CASE Preview(form') /\ UNCHANGED <<pool, practiced, answered, refused>>
  <2>1. Suffices(pool, form)' <=> Suffices(pool, form')
    BY <1>1 DEF Suffices, FilterQuestions, HistoryMap
  <2> QED
    BY <1>1, <2>1 DEF ButtonInv, Preview, EnabledStarts
<1>2. CASE place' # "custom" /\ UNCHANGED <<touched, refused>>
  BY <1>2 DEF ButtonInv, EnabledStarts
<1>3. CASE touched' = TRUE /\ UNCHANGED refused
  BY <1>3 DEF ButtonInv, EnabledStarts
<1>4. CASE UNCHANGED <<reads, place, enabled, touched, refused>>
  BY <1>4, SufficesReads DEF ButtonInv, EnabledStarts
<1>5. CASE StartRefused
  <2>1. UNCHANGED reads
    BY <1>5 DEF StartRefused, NothingElse, recipePool, recipeRows, reads, recipePage
  <2>2. touched = TRUE
    BY <1>5 DEF StartRefused, AtForm, ButtonInv
  <2>3. refused' = [touched |-> touched] /\ UNCHANGED touched
    BY <1>5 DEF StartRefused
  <2> QED
    BY <2>2, <2>3 DEF ButtonInv, EnabledStarts
<1> QED
  BY <1>1, <1>2, <1>3, <1>4, <1>5 DEF ButtonStep

LEMMA ButtonInitially == RecipeInit => ButtonInv
BY DEF RecipeInit, ButtonInv, EnabledStarts

LEMMA StepsOnButton == ASSUME RecipeNext PROVE ButtonStep
<1> USE DEF recipePool, recipeRows, recipePage, recipeFiles, reads, NothingElse, ClientKeeps, ButtonStep
<1>1. CASE OpenPage
  BY <1>1 DEF OpenPage
<1>2. CASE LeavePage \/ LeaveResult
  BY <1>2 DEF LeavePage, LeaveResult
<1>3. CASE SavePreset
  BY <1>3 DEF SavePreset
<1>4. CASE PresetSaved \/ SaveFailed
  BY <1>4 DEF PresetSaved, SaveFailed
<1>5. CASE StartCustom
  BY <1>5 DEF StartCustom, Confirmed
<1>6. CASE StartRefused
  BY <1>6
<1>7. CASE Finish \/ Pause \/ Retake
  BY <1>7 DEF Finish, Pause, Retake
<1>8. ASSUME NEW b \in DOMAIN Blueprints, StartBlueprint(b) PROVE ButtonStep
  BY <1>8 DEF StartBlueprint, Confirmed
<1>9. ASSUME NEW spec \in Forms, EditForm(spec) PROVE ButtonStep
  BY <1>9 DEF EditForm
<1>10. ASSUME NEW id \in PresetIds, LoadPreset(id) PROVE ButtonStep
  BY <1>10 DEF LoadPreset
<1>11. ASSUME NEW id \in PresetIds, DeletePreset(id) \/ ClientDeletes(id) \/ Corrupted(id) PROVE ButtonStep
  BY <1>11 DEF DeletePreset, ClientDeletes, Corrupted
<1>12. ASSUME NEW q \in Questions, NEW right \in BOOLEAN, Practice(q, right) PROVE ButtonStep
  BY <1>12 DEF Practice
<1>13. ASSUME NEW questions \in Pools, ContentChanges(questions) PROVE ButtonStep
  BY <1>13 DEF ContentChanges
<1>14. ASSUME NEW id \in PresetIds, NEW spec \in Forms, ClientSaves(id, spec) PROVE ButtonStep
  BY <1>14 DEF ClientSaves
<1>15. ASSUME NEW who \in {"window", "client"}, Ends(who) PROVE ButtonStep
  BY <1>15 DEF Ends
<1>16. CASE ClientSaved \/ ClientStarts \/ ClientFinishes
  BY <1>16 DEF ClientSaved, ClientStarts, ClientFinishes
<1> QED
  BY <1>1, <1>2, <1>3, <1>4, <1>5, <1>6, <1>7, <1>8, <1>9, <1>10, <1>11, <1>12, <1>13, <1>14,
     <1>15, <1>16 DEF RecipeNext

\* "Start exam" is enabled only when the exam can be filled, but for what another
\* process has finished, or a change of the content, since the last preview
\* (_update_eligible).
THEOREM ButtonIsRight == RecipeSpec => []EnabledStarts
<1>1. ButtonInv /\ [RecipeNext]_recipeVars => ButtonInv'
  <2> SUFFICES ASSUME ButtonInv, [RecipeNext]_recipeVars PROVE ButtonInv'
    OBVIOUS
  <2>1. CASE RecipeNext
    BY <2>1, StepsOnButton, ButtonStepKeeps
  <2>2. CASE UNCHANGED recipeVars
    BY <2>2, ButtonStepKeeps DEF recipeVars, recipePool, recipeRows, recipePage, reads, ButtonStep
  <2> QED
    BY <2>1, <2>2
<1>2. ButtonInv => EnabledStarts
  BY DEF ButtonInv
<1> QED
  BY <1>1, <1>2, ButtonInitially, PTL DEF RecipeSpec

-----------------------------------------------------------------------------
(* The question card.  The pool always shows what no slot has.  When an    *)
(* answer is restored, a term takes the item of its text whose turn is the *)
(* term's own: two terms of one text have different turns, so they take    *)
(* different items.                                                        *)

Slots == [Terms -> Tokens \cup {None}]

\* No item is in two slots.
Apart(s) == \A t, u \in Terms : s[t] = s[u] /\ s[t] # None => t = u

CardInv ==
    /\ slots \in Slots /\ Apart(slots) /\ tray = Rest(slots)
    /\ DOMAIN stored = Kinds
    /\ stored["drag_match"] # None => DOMAIN stored["drag_match"] \subseteq Terms

LEMMA TermsAndTokens ==
    /\ IsFiniteSet(Terms) /\ Terms \subseteq Int
    /\ IsFiniteSet(Tokens) /\ Tokens \subseteq Int
    /\ None \notin Tokens
<1>1. Cardinality(Terms) \in Nat /\ Cardinality(Tokens) \in Nat
  BY MatchAssumption, FS_CardinalityType
<1>2. 1..Cardinality(Terms) \subseteq Int /\ 1..Cardinality(Tokens) \subseteq Int
  BY <1>1
<1> QED
  BY <1>2, MatchAssumption

\* The turns of two terms with one text differ.
LEMMA TurnsDiffer ==
    ASSUME NEW pairs, DOMAIN pairs \subseteq Terms,
           NEW s \in DOMAIN pairs, NEW t \in DOMAIN pairs, pairs[s] = pairs[t], s < t
    PROVE  Cardinality(TurnOfTerm(pairs, s)) # Cardinality(TurnOfTerm(pairs, t))
<1>1. /\ TurnOfTerm(pairs, s) \subseteq TurnOfTerm(pairs, t)
      /\ TurnOfTerm(pairs, s) # TurnOfTerm(pairs, t)
  <2>1. \A x \in DOMAIN pairs : x \in Int
    BY TermsAndTokens
  <2>2. s \in TurnOfTerm(pairs, t) /\ s \notin TurnOfTerm(pairs, s)
    BY <2>1 DEF TurnOfTerm
  <2>3. \A x \in DOMAIN pairs : x < s => x < t
    BY <2>1
  <2>4. TurnOfTerm(pairs, s) \subseteq TurnOfTerm(pairs, t)
    BY <2>3 DEF TurnOfTerm
  <2> QED
    BY <2>2, <2>4
<1>2. IsFiniteSet(TurnOfTerm(pairs, t))
  <2>1. TurnOfTerm(pairs, t) \subseteq Terms
    BY DEF TurnOfTerm
  <2> QED
    BY <2>1, TermsAndTokens, FS_Subset
<1>3. IsFiniteSet(TurnOfTerm(pairs, s))
  BY <1>1, <1>2, FS_Subset
<1>4. /\ Cardinality(TurnOfTerm(pairs, s)) \in Nat
      /\ Cardinality(TurnOfTerm(pairs, t)) \in Nat
  BY <1>2, <1>3, FS_CardinalityType
<1>5. Cardinality(TurnOfTerm(pairs, s)) < Cardinality(TurnOfTerm(pairs, t))
  BY <1>1, <1>2, <1>4, FS_Subset
<1> QED
  BY <1>4, <1>5

LEMMA RestoredIsApart ==
    ASSUME NEW pairs, DOMAIN pairs \subseteq Terms
    PROVE  Restored(pairs) \in Slots /\ Apart(Restored(pairs))
<1>1. ASSUME NEW t \in Terms
      PROVE  /\ Restored(pairs)[t] \in Tokens \cup {None}
             /\ Restored(pairs)[t] # None =>
                   Restored(pairs)[t] \in Tokens /\ Takes(pairs, t, Restored(pairs)[t])
  <2>1. CASE \E token \in Tokens : Takes(pairs, t, token)
    BY <2>1 DEF Restored
  <2>2. CASE ~ \E token \in Tokens : Takes(pairs, t, token)
    BY <2>2 DEF Restored
  <2> QED
    BY <2>1, <2>2
<1>2. ASSUME NEW s \in Terms, NEW t \in Terms, s # t,
             Restored(pairs)[s] = Restored(pairs)[t], Restored(pairs)[s] # None
      PROVE  FALSE
  <2>1. /\ s \in DOMAIN pairs /\ t \in DOMAIN pairs /\ pairs[s] = pairs[t]
        /\ Cardinality(TurnOfTerm(pairs, s)) = Cardinality(TurnOfTerm(pairs, t))
    BY <1>1, <1>2 DEF Takes
  <2>2. s < t \/ t < s
    BY <1>2, TermsAndTokens
  <2> QED
    BY <2>1, <2>2, TurnsDiffer
<1>3. Restored(pairs) = [t \in Terms |-> Restored(pairs)[t]]
  BY DEF Restored
<1> QED
  BY <1>1, <1>2, <1>3 DEF Slots, Apart

\* The controls of a new card are in order.
LEMMA NewCardKeeps ==
    ASSUME NEW kind, NEW a, NEW presented, NewCard(kind, a, presented),
           kind = "drag_match" /\ a # None => DOMAIN a \subseteq Terms
    PROVE  slots' \in Slots /\ Apart(slots') /\ tray' = Rest(slots')
<1>1. CASE kind = "drag_match" /\ a # None
  BY <1>1, RestoredIsApart DEF NewCard
<1>2. CASE ~(kind = "drag_match" /\ a # None)
  <2>1. slots' = NoSlots /\ tray' = FullTray
    BY <1>2 DEF NewCard
  <2> QED
    BY <2>1, TermsAndTokens DEF NoSlots, FullTray, Slots, Apart, Rest
<1> QED
  BY <1>1, <1>2

\* What a match emits keeps the stored answers in order.
LEMMA EmitKeeps ==
    ASSUME CardInv, NEW a, Emit(a), shown = "drag_match" => DOMAIN a \subseteq Terms
    PROVE  /\ DOMAIN stored' = Kinds
           /\ stored'["drag_match"] # None => DOMAIN stored'["drag_match"] \subseteq Terms
BY DEF CardInv, Emit, Kinds

LEMMA DomainOfPairs == ASSUME NEW s PROVE DOMAIN Pairs(s) \subseteq Terms
BY DEF Pairs

\* What goes back to the pool and what leaves it.
LEMMA TrayAfter ==
    ASSUME slots \in Slots, Apart(slots), tray = Rest(slots),
           NEW term \in Terms, NEW token \in Tokens, \A u \in Terms \ {term} : slots[u] # token,
           slots[term] # token
    PROVE  /\ slots[term] # None => Returned(tray, slots[term]) = Rest([slots EXCEPT ![term] = None])
           /\ TakenOut(Returned(tray, slots[term]), token) = Rest([slots EXCEPT ![term] = token])
<1> DEFINE old == slots[term]
           cleared == [slots EXCEPT ![term] = None]
           after == [slots EXCEPT ![term] = token]
<1>1. /\ tray = [t \in Tokens |-> IF \E u \in Terms : slots[u] = t THEN 0 ELSE 1]
      /\ old \in Tokens \cup {None} /\ None \notin Tokens
      /\ slots \in [Terms -> Tokens \cup {None}]
  BY TermsAndTokens DEF Rest, Slots
<1>2. Returned(tray, old) = Rest(cleared)
  <2>1. CASE old = None
    <3>1. cleared = slots
      BY <1>1, <2>1
    <3> QED
      BY <2>1, <3>1 DEF Returned
  <2>2. CASE old # None
    <3>1. tray[old] = 0 /\ old \in Tokens
      BY <1>1, <2>2
    <3>2. Returned(tray, old) = [t \in Tokens |-> IF t = old THEN 1 ELSE tray[t]]
      BY <1>1, <2>2, <3>1 DEF Returned
    <3>3. \A t \in Tokens : (\E u \in Terms : cleared[u] = t) <=> (t # old /\ \E u \in Terms : slots[u] = t)
      BY <1>1, <2>2 DEF Apart
    <3> HIDE DEF cleared
    <3> QED
      BY <1>1, <3>2, <3>3 DEF Rest
  <2> QED
    BY <2>1, <2>2
<1>3. TakenOut(Rest(cleared), token) = Rest(after)
  <2>1. \A t \in Tokens : (\E u \in Terms : after[u] = t) <=> (t = token \/ \E u \in Terms : cleared[u] = t)
    BY <1>1
  <2>2. \A u \in Terms : cleared[u] # token
    BY <1>1
  <2> HIDE DEF cleared, after
  <2>3. Rest(cleared) = [t \in Tokens |-> Rest(cleared)[t]] /\ Rest(cleared)[token] = 1
    BY <2>2 DEF Rest
  <2>4. TakenOut(Rest(cleared), token) = [t \in Tokens |-> IF t = token THEN 0 ELSE Rest(cleared)[t]]
    BY <2>3 DEF TakenOut
  <2> QED
    BY <2>1, <2>4 DEF Rest
<1> QED
  BY <1>2, <1>3

LEMMA MatchStepKeeps ==
    ASSUME CardInv, NEW term \in Terms, NEW token \in Tokens,
           Drop(token, term) \/ ClearSlot(term) \/ ChooseNothing(term) \/ Choose(term, token)
    PROVE  CardInv'
<1>0. /\ DOMAIN stored' = Kinds
      /\ stored'["drag_match"] # None => DOMAIN stored'["drag_match"] \subseteq Terms
  BY EmitKeeps, DomainOfPairs DEF Drop, ClearSlot, ChooseNothing, Choose
<1>1. /\ slots \in [Terms -> Tokens \cup {None}] /\ Apart(slots)
      /\ tray = [t \in Tokens |-> IF \E u \in Terms : slots[u] = t THEN 0 ELSE 1]
      /\ None \notin Tokens
  BY TermsAndTokens DEF CardInv, Slots, Rest
<1>2. CASE Drop(token, term)
  <2>1. /\ tray[token] > 0 /\ slots' = [slots EXCEPT ![term] = token]
        /\ tray' = TakenOut(Returned(tray, slots[term]), token)
    BY <1>2 DEF Drop
  <2>2. \A u \in Terms : slots[u] # token
    BY <1>1, <2>1
  <2>3. slots' \in Slots /\ Apart(slots')
    BY <1>1, <2>1, <2>2 DEF Slots, Apart
  <2>4. tray' = Rest(slots')
    BY <2>1, <2>2, TrayAfter DEF CardInv
  <2> QED
    BY <1>0, <2>3, <2>4 DEF CardInv
<1>3. CASE ClearSlot(term) \/ ChooseNothing(term)
  <2>1. slots[term] # None /\ slots' = [slots EXCEPT ![term] = None]
    BY <1>3 DEF ClearSlot, ChooseNothing
  <2>2. tray' = Returned(tray, slots[term])
    BY <1>1, <1>3 DEF ClearSlot, ChooseNothing, Apart
  <2>3. slots' \in Slots /\ Apart(slots')
    BY <1>1, <2>1 DEF Slots, Apart
  <2>4. tray' = [t \in Tokens |-> IF t = slots[term] THEN 1 ELSE tray[t]]
    BY <1>1, <2>1, <2>2 DEF Returned
  <2>5. tray' = Rest(slots')
    BY <1>1, <2>1, <2>4 DEF Rest, Apart
  <2> QED
    BY <1>0, <2>3, <2>5 DEF CardInv
<1>4. CASE Choose(term, token)
  <2>1. slots[term] # token /\ \A u \in Terms \ {term} : slots[u] # token
    BY <1>4 DEF Choose, Offers
  <2>2. slots' = [slots EXCEPT ![term] = token]
    <3>1. slots' = [u \in Terms |-> IF u = term THEN token ELSE slots[u]]
      BY <1>4, <2>1 DEF Choose
    <3> QED
      BY <1>1, <3>1
  <2>3. tray' = TakenOut(Returned(tray, slots[term]), token)
    <3>1. CASE slots[term] = None
      BY <1>4, <3>1 DEF Choose, Returned
    <3>2. CASE slots[term] # None
      BY <1>1, <1>4, <3>2 DEF Choose, Apart
    <3> QED
      BY <3>1, <3>2
  <2>4. slots' \in Slots /\ Apart(slots')
    BY <1>1, <2>1, <2>2 DEF Slots, Apart
  <2>5. tray' = Rest(slots')
    BY <2>1, <2>2, <2>3, TrayAfter DEF CardInv
  <2> QED
    BY <1>0, <2>4, <2>5 DEF CardInv
<1> QED
  BY <1>2, <1>3, <1>4

LEMMA CardInitially == CardInit => CardInv
BY TermsAndTokens DEF CardInit, CardInv, NoSlots, FullTray, Slots, Apart, Rest, Kinds

LEMMA CardStepKeeps == ASSUME CardInv, CardNext PROVE CardInv'
<1>1. ASSUME NEW c \in Options, Pick(c) \/ TickBox(c) PROVE CardInv'
  BY <1>1, EmitKeeps DEF Pick, TickBox, Editing, CardInv, Rest
<1>2. ASSUME NEW config \in Configs, Type(config) PROVE CardInv'
  BY <1>2, EmitKeeps DEF Type, Editing, CardInv, Rest
<1>3. ASSUME NEW i \in DOMAIN order, NEW j \in DOMAIN order, MoveItem(i, j) PROVE CardInv'
  BY <1>3, EmitKeeps DEF MoveItem, Editing, CardInv, Rest
<1>4. CASE \/ \E token \in Tokens, term \in Terms : Drop(token, term) \/ Choose(term, token)
           \/ \E term \in Terms : ClearSlot(term) \/ ChooseNothing(term)
  <2>1. ASSUME NEW term \in Terms, ClearSlot(term) \/ ChooseNothing(term) PROVE \E token : token \in Tokens
    BY <2>1 DEF CardInv, Slots, ClearSlot, ChooseNothing
  <2> QED
    BY <1>4, <2>1, MatchStepKeeps
<1>5. ASSUME NEW questions \in Exams, StartExam(questions) PROVE CardInv'
  BY <1>5 DEF StartExam, controls, CardInv, Rest, Kinds
<1>6. ASSUME NEW q \in Kinds, RenderCurrent(q) PROVE CardInv'
  <2>1. slots' \in Slots /\ Apart(slots') /\ tray' = Rest(slots')
    BY <1>6, NewCardKeeps DEF RenderCurrent, CardInv
  <2>2. /\ DOMAIN stored' = Kinds /\ stored'["drag_match"] = stored["drag_match"]
    BY <1>6 DEF RenderCurrent, CardInv, Kinds
  <2> QED
    BY <2>1, <2>2 DEF CardInv
<1>7. ASSUME NEW q \in Kinds, NEW presented \in Orders, LoadCurrent(q, presented) PROVE CardInv'
  BY <1>7, NewCardKeeps DEF LoadCurrent, CardInv
<1>8. CASE CheckCard
  BY <1>8 DEF CheckCard, controls, CardInv, Rest
<1> QED
  BY <1>1, <1>2, <1>3, <1>4, <1>5, <1>6, <1>7, <1>8 DEF CardNext

LEMMA CardInvImplies == CardInv => MatchTokenOnce
BY TermsAndTokens DEF CardInv, Slots, Apart, Rest, MatchTokenOnce

\* Each item to match is in one place, whatever is dropped, cleared, chosen, left
\* and found again (_MatchWidget).
THEOREM MatchTokensOnce == CardSpec => []MatchTokenOnce
<1>1. CardInv /\ [CardNext]_cardVars => CardInv'
  <2> SUFFICES ASSUME CardInv, [CardNext]_cardVars PROVE CardInv'
    OBVIOUS
  <2>1. CASE CardNext
    BY <2>1, CardStepKeeps
  <2>2. CASE UNCHANGED cardVars
    BY <2>2 DEF cardVars, controls, CardInv, Rest
  <2> QED
    BY <2>1, <2>2
<1> QED
  BY <1>1, CardInitially, CardInvImplies, PTL DEF CardSpec

-----------------------------------------------------------------------------
(* AnswerShown.  What was stored of a match are the texts of items that are *)
(* all different, so there is a next unused item for each of them.          *)

LEMMA ProperSubset ==
    ASSUME NEW S, IsFiniteSet(S), NEW T \in SUBSET S, NEW x \in S, x \notin T
    PROVE  /\ IsFiniteSet(T) /\ Cardinality(T) \in Nat /\ Cardinality(S) \in Nat
           /\ Cardinality(T) < Cardinality(S)
<1>1. /\ IsFiniteSet(T) /\ Cardinality(T) <= Cardinality(S)
      /\ Cardinality(S) = Cardinality(T) => S = T
  BY FS_Subset
<1>2. Cardinality(T) \in Nat /\ Cardinality(S) \in Nat
  BY <1>1, FS_CardinalityType
<1> QED
  BY <1>1, <1>2

\* Below some element of a finite set of numbers there are any number of others.
LEMMA RankExists ==
    ASSUME NEW S, IsFiniteSet(S), S \subseteq Int, NEW c \in Nat, c < Cardinality(S)
    PROVE  \E x \in S : Cardinality({y \in S : y < x}) = c
<1> DEFINE below(x) == {y \in S : y < x}
           n == Cardinality(S)
           f == [x \in S |-> Cardinality(below(x))]
<1>1. n \in Nat
  BY FS_CardinalityType
<1>2. ASSUME NEW x \in S
      PROVE  IsFiniteSet(below(x)) /\ Cardinality(below(x)) \in 0..n - 1
  <2>1. below(x) \subseteq S /\ x \notin below(x)
    OBVIOUS
  <2>2. IsFiniteSet(below(x)) /\ Cardinality(below(x)) < n
    BY <2>1, ProperSubset
  <2>3. Cardinality(below(x)) \in Nat
    BY <2>2, FS_CardinalityType
  <2> QED
    BY <1>1, <2>2, <2>3
<1>3. ASSUME NEW x \in S, NEW z \in S, x < z
      PROVE  Cardinality(below(x)) # Cardinality(below(z))
  <2>1. x \in Int /\ z \in Int /\ \A y \in S : y \in Int
    OBVIOUS
  <2>2. below(x) \subseteq below(z)
    <3> SUFFICES ASSUME NEW y \in S, y < x PROVE y < z
      OBVIOUS
    <3>1. y \in Int
      BY <2>1
    <3> QED
      BY <1>3, <2>1, <3>1
  <2>3. x \in below(z) /\ x \notin below(x)
    BY <1>3, <2>1
  <2>4. IsFiniteSet(below(z))
    BY <1>2
  <2> HIDE DEF below
  <2>5. /\ Cardinality(below(x)) \in Nat /\ Cardinality(below(z)) \in Nat
        /\ Cardinality(below(x)) < Cardinality(below(z))
    BY <2>2, <2>3, <2>4, ProperSubset
  <2> QED
    BY <2>5
<1>4. f \in Injection(S, 0..n - 1)
  <2>1. f \in [S -> 0..n - 1]
    BY <1>2
  <2>2. ASSUME NEW x \in S, NEW z \in S, f[x] = f[z] PROVE x = z
    <3>1. x < z \/ z < x \/ x = z
      OBVIOUS
    <3> QED
      BY <1>3, <2>2, <3>1
  <2> QED
    BY <2>1, <2>2 DEF Injection, IsInjective
<1>5. IsFiniteSet(0..n - 1) /\ Cardinality(0..n - 1) = n
  <2>1. 0 \in Int /\ n - 1 \in Int
    BY <1>1
  <2> HIDE DEF n
  <2>2. /\ IsFiniteSet(0..n - 1)
        /\ Cardinality(0..n - 1) = IF 0 > n - 1 THEN 0 ELSE n - 1 - 0 + 1
    BY <2>1, FS_Interval
  <2> QED
    BY <1>1, <2>2
<1>6. f \in Surjection(S, 0..n - 1)
  BY <1>4, <1>5, FS_Injection
<1>7. c \in 0..n - 1
  BY <1>1
<1> QED
  BY <1>6, <1>7 DEF Surjection

LEMMA ItemLeft ==
    ASSUME NEW s \in Slots, Apart(s), NEW term \in DOMAIN Pairs(s)
    PROVE  \E token \in Tokens : Takes(Pairs(s), term, token)
<1> DEFINE pairs == Pairs(s)
           x == pairs[term]
           D == {u \in DOMAIN pairs : pairs[u] = x}
           T == {t \in Tokens : Text(t) = x}
           g == [u \in D |-> s[u]]
           turn == TurnOfTerm(pairs, term)
           c == Cardinality(turn)
<1>1. /\ DOMAIN pairs \subseteq Terms
      /\ \A u \in DOMAIN pairs : s[u] # None /\ s[u] \in Tokens /\ pairs[u] = Text(s[u])
  BY DEF Pairs, Slots
<1> HIDE DEF pairs
<1>2. g \in Injection(D, T)
  <2>1. g \in [D -> T]
    BY <1>1
  <2>2. \A u, v \in D : g[u] = g[v] => u = v
    BY <1>1 DEF Apart
  <2> QED
    BY <2>1, <2>2 DEF Injection, IsInjective
<1>3. IsFiniteSet(T) /\ T \subseteq Int
  <2>1. T \subseteq Tokens
    OBVIOUS
  <2> QED
    BY <2>1, TermsAndTokens, FS_Subset
<1>4. IsFiniteSet(D) /\ Cardinality(D) <= Cardinality(T)
  BY <1>2, <1>3, FS_Injection
<1>5. IsFiniteSet(turn) /\ c < Cardinality(D)
  <2>1. turn \subseteq D
    BY DEF TurnOfTerm
  <2>2. term \in D /\ term \notin turn
    <3>1. term \in Int
      BY <1>1, TermsAndTokens DEF pairs
    <3> QED
      BY <3>1 DEF TurnOfTerm, pairs
  <2> QED
    BY <1>4, <2>1, <2>2, ProperSubset
<1>6. c \in Nat /\ Cardinality(D) \in Nat /\ Cardinality(T) \in Nat
  BY <1>3, <1>4, <1>5, FS_CardinalityType
<1>7. c < Cardinality(T)
  BY <1>4, <1>5, <1>6
<1> HIDE DEF T, c
<1>8. PICK token \in T : Cardinality({y \in T : y < token}) = c
  BY <1>3, <1>6, <1>7, RankExists
<1>9. TurnOfToken(token) = {y \in T : y < token} /\ token \in Tokens /\ Text(token) = x
  BY <1>8 DEF TurnOfToken, T
<1> HIDE DEF x
<1>10. Cardinality(TurnOfToken(token)) = Cardinality(TurnOfTerm(pairs, term))
  BY <1>8, <1>9 DEF c
<1>11. Takes(pairs, term, token)
  BY <1>9, <1>10 DEF Takes, x, pairs
<1> QED
  BY <1>9, <1>11 DEF pairs

\* An answer is found again as it was left.
LEMMA RestoredShows ==
    ASSUME NEW s \in Slots, Apart(s)
    PROVE  Pairs(Restored(Pairs(s))) = Pairs(s)
<1> DEFINE pairs == Pairs(s)
           r == Restored(pairs)
<1>1. DOMAIN pairs \subseteq Terms /\ pairs = [u \in DOMAIN pairs |-> pairs[u]]
  BY DEF Pairs
<1>2. ASSUME NEW u \in DOMAIN pairs PROVE r[u] \in Tokens /\ Text(r[u]) = pairs[u]
  <2>1. \E token \in Tokens : Takes(pairs, u, token)
    BY ItemLeft
  <2>2. u \in Terms
    BY <1>1
  <2>3. r[u] \in Tokens /\ Takes(pairs, u, r[u])
    BY <2>1, <2>2 DEF Restored
  <2> QED
    BY <2>3 DEF Takes
<1>3. ASSUME NEW u \in Terms, u \notin DOMAIN pairs PROVE r[u] = None
  BY <1>3 DEF Restored, Takes
<1> HIDE DEF r, pairs
<1>4. {u \in Terms : r[u] # None} = DOMAIN pairs
  BY <1>1, <1>2, <1>3, TermsAndTokens
<1>5. Pairs(r) = [u \in DOMAIN pairs |-> Text(r[u])]
  BY <1>4 DEF Pairs
<1> QED
  BY <1>1, <1>2, <1>5 DEF r, pairs

\* A stored match is one a card may show.
Restorable(a) == \E s \in Slots : Apart(s) /\ a = Pairs(s)

AnswerInv ==
    /\ CardInv
    /\ stored["drag_match"] # None => Restorable(stored["drag_match"])
    /\ on # None => shown \in Kinds
    /\ on = "practice" => answer = None \/ answer = OnTheCard
    /\ AnswerShown

LEMMA AnswersInitially == CardInit => AnswerInv
<1> SUFFICES ASSUME CardInit PROVE AnswerInv
  OBVIOUS
<1>1. /\ on = None /\ locked = FALSE /\ stored = [q \in Kinds |-> None]
  BY DEF CardInit
<1> QED
  BY <1>1, CardInitially, PageNameAssumption DEF AnswerInv, AnswerShown, Kinds

\* A change of the controls that emits what they show.
LEMMA EmitsShown ==
    ASSUME AnswerInv, CardInv', NEW a, Emit(a), ~locked, a = OnTheCard',
           shown = "drag_match" => Restorable(a)
    PROVE  AnswerInv'
<1>1. /\ answer' = a /\ UNCHANGED <<shown, on, locked, verdict, exam>>
      /\ stored' = IF on = "exam" THEN [stored EXCEPT ![shown] = a] ELSE stored
      /\ locked' = FALSE \/ ~locked'
  BY DEF Emit
<1>2. DOMAIN stored = Kinds /\ (on = "exam" => shown \in Kinds)
  BY PageNameAssumption DEF AnswerInv, CardInv
<1>3. on' = "exam" => stored'[shown'] = OnTheCard'
  BY <1>1, <1>2
<1>4. stored'["drag_match"] # None => Restorable(stored'["drag_match"])
  BY <1>1, <1>2 DEF AnswerInv, Kinds
<1>5. on' = "practice" => answer' = None \/ answer' = OnTheCard'
  BY <1>1
<1>6. AnswerShown'
  BY <1>1, <1>3 DEF AnswerShown
<1> QED
  BY <1>1, <1>4, <1>5, <1>6 DEF AnswerInv

LEMMA ControlsEmit ==
    ASSUME AnswerInv, CardInv', NEW a, NEW kind \in Kinds, Editing(kind), Emit(a),
           a = CASE kind = "single_choice" -> picked'
                 [] kind = "multiple_choice" -> ticked'
                 [] kind = "sim" -> typed'
                 [] kind = "ordered_list" -> order'
                 [] kind = "drag_match" -> Pairs(slots)',
           kind = "drag_match" => a = Pairs(slots') 
    PROVE  AnswerInv'
<1>1. shown' = kind /\ shown = kind /\ ~locked
  BY DEF Editing, Emit
<1>2. a = OnTheCard'
  BY <1>1 DEF OnTheCard
<1>3. shown = "drag_match" => Restorable(a)
  BY <1>1 DEF Restorable, CardInv
<1> QED
  BY <1>1, <1>2, <1>3, EmitsShown

\* A new card shows what was stored, or nothing yet.
LEMMA NewCardShows ==
    ASSUME NEW kind \in Kinds, NEW a, NEW presented, NewCard(kind, a, presented),
           kind = "drag_match" /\ a # None => Restorable(a)
    PROVE  /\ a # None => OnTheCard' = a
           /\ a = None /\ kind # "ordered_list" => Untouched'
           /\ a = None /\ kind = "ordered_list" => OnTheCard' = presented
           /\ a = None /\ kind = "drag_match" => OnTheCard' = Pairs(NoSlots)
<1>1. shown' = kind
  BY DEF NewCard
<1>2. CASE kind = "drag_match"
  <2>1. CASE a = None
    <3>1. slots' = NoSlots
      BY <1>2, <2>1 DEF NewCard
    <3>2. OnTheCard' = Pairs(slots') /\ (Untouched' <=> slots' = NoSlots')
      BY <1>1, <1>2 DEF OnTheCard, Untouched, Pairs
    <3> QED
      BY <1>2, <2>1, <3>1, <3>2 DEF NoSlots
  <2>2. CASE a # None
    <3>1. slots' = Restored(a)
      BY <1>2, <2>2 DEF NewCard
    <3>2. PICK s \in Slots : Apart(s) /\ a = Pairs(s)
      BY <1>2, <2>2 DEF Restorable
    <3>3. Pairs(Restored(a)) = a
      BY <3>2, RestoredShows
    <3>4. OnTheCard' = Pairs(slots')
      BY <1>1, <1>2 DEF OnTheCard, Pairs
    <3> QED
      BY <1>2, <2>2, <3>1, <3>3, <3>4
  <2> QED
    BY <2>1, <2>2
<1>3. CASE kind = "ordered_list"
  <2>1. OnTheCard' = order' /\ order' = Given(a, presented)
    BY <1>1, <1>3 DEF OnTheCard, NewCard
  <2> QED
    BY <1>3, <2>1 DEF Given
<1>4. CASE kind = "single_choice"
  <2>1. OnTheCard' = picked' /\ picked' = a /\ (Untouched' <=> picked' = None)
    BY <1>1, <1>4 DEF OnTheCard, NewCard, Untouched
  <2> QED
    BY <1>4, <2>1
<1>5. CASE kind = "multiple_choice"
  <2>1. OnTheCard' = ticked' /\ ticked' = Given(a, {}) /\ (Untouched' <=> ticked' = {})
    BY <1>1, <1>5 DEF OnTheCard, NewCard, Untouched
  <2> QED
    BY <1>5, <2>1 DEF Given
<1>6. CASE kind = "sim"
  <2>1. OnTheCard' = typed' /\ typed' = Given(a, {}) /\ (Untouched' <=> typed' = {})
    BY <1>1, <1>6 DEF OnTheCard, NewCard, Untouched
  <2> QED
    BY <1>6, <2>1 DEF Given
<1> QED
  BY <1>2, <1>3, <1>4, <1>5, <1>6 DEF Kinds

LEMMA RenderShows == ASSUME AnswerInv, CardInv', NEW q \in Kinds, RenderCurrent(q) PROVE AnswerInv'
<1> DEFINE a == stored[q]
<1>1. /\ on' = "exam" /\ shown' = q /\ locked' = FALSE /\ NewCard(q, a, Presented)
      /\ stored' = IF q = "ordered_list" THEN [stored EXCEPT ![q] = answer'] ELSE stored
  BY DEF RenderCurrent, NewCard
<1>2. DOMAIN stored = Kinds
  BY DEF AnswerInv, CardInv
<1>3. q = "drag_match" /\ a # None => Restorable(a)
  BY DEF AnswerInv
<1>4. /\ a # None => OnTheCard' = a
      /\ a = None /\ q # "ordered_list" => Untouched'
      /\ a = None /\ q = "ordered_list" => OnTheCard' = Presented
  BY <1>1, <1>3, NewCardShows
<1>5. /\ a # None => answer' = a
      /\ a = None /\ q = "ordered_list" => answer' = Presented
  <2>1. answer' = CASE stored[q] # None -> stored[q]
                    [] stored[q] = None /\ q = "ordered_list" -> Presented
                    [] stored[q] = None /\ q = "drag_match" -> Pairs(NoSlots)
                    [] OTHER -> None
    BY DEF RenderCurrent
  <2>2. CASE a # None
    BY <2>1, <2>2
  <2>3. CASE a = None /\ q = "ordered_list"
    BY <2>1, <2>3
  <2> QED
    BY <2>2, <2>3
<1>6. stored'[q] = OnTheCard' \/ (stored'[q] = None /\ Untouched')
  <2>1. CASE q = "ordered_list"
    <3>1. stored'[q] = answer'
      BY <1>1, <1>2, <2>1
    <3> QED
      BY <1>4, <1>5, <2>1, <3>1
  <2>2. CASE q # "ordered_list"
    BY <1>1, <1>4, <2>2
  <2> QED
    BY <2>1, <2>2
<1>7. stored'["drag_match"] = stored["drag_match"]
  BY <1>1, <1>2 DEF Kinds
<1>8. AnswerShown'
  BY <1>1, <1>6 DEF AnswerShown
<1> QED
  BY <1>1, <1>7, <1>8 DEF AnswerInv

LEMMA LoadShows ==
    ASSUME AnswerInv, CardInv', NEW q \in Kinds, NEW presented, LoadCurrent(q, presented)
    PROVE  AnswerInv'
<1>1. /\ on' = "practice" /\ shown' = q /\ locked' = FALSE /\ NewCard(q, None, presented)
      /\ stored' = stored
  BY DEF LoadCurrent, NewCard
<1>2. /\ q = "ordered_list" => OnTheCard' = presented
      /\ q = "drag_match" => OnTheCard' = Pairs(NoSlots)
  BY <1>1, NewCardShows
<1>3. answer' = CASE q = "ordered_list" -> presented
                  [] q = "drag_match" -> Pairs(NoSlots)
                  [] OTHER -> None
  BY DEF LoadCurrent
<1>4. answer' = None \/ answer' = OnTheCard'
  <2>1. CASE q = "ordered_list"
    BY <1>2, <1>3, <2>1
  <2>2. CASE q = "drag_match"
    BY <1>2, <1>3, <2>2
  <2>3. CASE q # "ordered_list" /\ q # "drag_match"
    BY <1>3, <2>3
  <2> QED
    BY <2>1, <2>2, <2>3
<1>5. AnswerShown'
  BY <1>1 DEF AnswerShown
<1> QED
  BY <1>1, <1>4, <1>5 DEF AnswerInv

LEMMA ControlsSame ==
    ASSUME UNCHANGED <<controls, shown>> PROVE OnTheCard' = OnTheCard /\ (Untouched' <=> Untouched)
BY DEF controls, OnTheCard, Untouched, Pairs

LEMMA CheckShows == ASSUME AnswerInv, CardInv', CheckCard PROVE AnswerInv'
<1>1. /\ on = "practice" /\ answer # None /\ verdict' = GradeAnswer(shown, answer)
      /\ UNCHANGED <<controls, shown, on, answer, exam, stored>>
  BY DEF CheckCard
<1>2. OnTheCard' = OnTheCard /\ (Untouched' <=> Untouched)
  BY <1>1, ControlsSame
<1>3. answer = OnTheCard
  BY <1>1 DEF AnswerInv
<1>4. verdict' = GradeAnswer(shown', OnTheCard')
  BY <1>1, <1>2, <1>3
<1>5. AnswerShown'
  BY <1>1, <1>4 DEF AnswerShown
<1> QED
  BY <1>1, <1>2, <1>5 DEF AnswerInv

LEMMA AnswersStep == ASSUME AnswerInv, CardNext PROVE AnswerInv'
<1>0. CardInv'
  BY CardStepKeeps DEF AnswerInv
<1>1. ASSUME NEW c \in Options, Pick(c) PROVE AnswerInv'
  BY <1>0, <1>1, ControlsEmit DEF Pick, Kinds
<1>2. ASSUME NEW c \in Options, TickBox(c) PROVE AnswerInv'
  <2>1. Editing("multiple_choice") /\ Emit(ticked')
    BY <1>2 DEF TickBox
  <2> QED
    BY <1>0, <2>1, ControlsEmit DEF Kinds
<1>3. ASSUME NEW config \in Configs, Type(config) PROVE AnswerInv'
  BY <1>0, <1>3, ControlsEmit DEF Type, Kinds
<1>4. ASSUME NEW i \in DOMAIN order, NEW j \in DOMAIN order, MoveItem(i, j) PROVE AnswerInv'
  <2>1. Editing("ordered_list") /\ Emit(order')
    BY <1>4 DEF MoveItem
  <2> QED
    BY <1>0, <2>1, ControlsEmit DEF Kinds
<1>5. CASE \/ \E token \in Tokens, term \in Terms : Drop(token, term) \/ Choose(term, token)
           \/ \E term \in Terms : ClearSlot(term) \/ ChooseNothing(term)
  <2>1. Editing("drag_match") /\ Emit(Pairs(slots'))
    BY <1>5 DEF Drop, Choose, ClearSlot, ChooseNothing
  <2>2. Pairs(slots)' = Pairs(slots')
    BY DEF Pairs
  <2> QED
    BY <1>0, <2>1, <2>2, ControlsEmit DEF Kinds
<1>6. ASSUME NEW questions \in Exams, StartExam(questions) PROVE AnswerInv'
  <2>1. /\ on' = None /\ locked' = FALSE /\ stored' = [q \in Kinds |-> None]
    BY <1>6 DEF StartExam
  <2> QED
    BY <1>0, <2>1, PageNameAssumption DEF AnswerInv, AnswerShown, Kinds
<1>7. ASSUME NEW q \in Kinds, RenderCurrent(q) PROVE AnswerInv'
  BY <1>0, <1>7, RenderShows
<1>8. ASSUME NEW q \in Kinds, NEW presented \in Orders, LoadCurrent(q, presented) PROVE AnswerInv'
  BY <1>0, <1>8, LoadShows
<1>9. CASE CheckCard
  BY <1>0, <1>9, CheckShows
<1> QED
  BY <1>1, <1>2, <1>3, <1>4, <1>5, <1>6, <1>7, <1>8, <1>9 DEF CardNext

\* What is stored, and what is graded, is what the card shows, for any questions,
\* texts, keys and acts of the user (set_answer, _store_answer, _check_answer).
THEOREM AnswersAreShown == CardSpec => []AnswerShown
<1>1. AnswerInv /\ [CardNext]_cardVars => AnswerInv'
  <2> SUFFICES ASSUME AnswerInv, [CardNext]_cardVars PROVE AnswerInv'
    OBVIOUS
  <2>1. CASE CardNext
    BY <2>1, AnswersStep
  <2>2. CASE UNCHANGED cardVars
    <3>1. OnTheCard' = OnTheCard /\ (Untouched' <=> Untouched)
      BY <2>2, ControlsSame DEF cardVars
    <3>2. UNCHANGED <<shown, on, answer, locked, verdict, exam, stored, slots, tray>>
      BY <2>2 DEF cardVars, controls
    <3>3. CardInv'
      BY <3>2 DEF AnswerInv, CardInv, Rest
    <3>4. AnswerShown'
      BY <3>1, <3>2 DEF AnswerInv, AnswerShown
    <3> QED
      BY <3>1, <3>2, <3>3, <3>4 DEF AnswerInv
  <2> QED
    BY <2>1, <2>2
<1>2. AnswerInv => AnswerShown
  BY DEF AnswerInv
<1> QED
  BY <1>1, <1>2, AnswersInitially, PTL DEF CardSpec

-----------------------------------------------------------------------------
(* The question library.                                                   *)

LibFields ==
    {"load", "all", "offered", "cert", "topic", "narrow", "search", "seen", "sort", "ids",
     "prefix", "stats", "list", "page"}

\* The types that matter.
WellMade(l) ==
    /\ DOMAIN l = LibFields
    /\ l.load \in Nat /\ l.all \subseteq Questions /\ l.sort \in Keys
    /\ l.offered \subseteq {Topic(q) : q \in Questions}

\* A list has each question of a set once.
Lists(list, S) == {list[i] : i \in DOMAIN list} = S /\ Len(list) = Cardinality(S)

\* Passes, with other statistics than the library's.
PassesBy(l, stats, q) ==
    /\ l.ids # None => q \in l.ids
    /\ l.cert # All => l.cert \in Certs(q)
    /\ IF l.prefix # None THEN IsPrefix(l.prefix, Topic(q)) ELSE l.topic # All => Topic(q) = l.topic
    /\ q \in l.narrow /\ q \in l.search
    /\ l.seen = "unseen" => q \notin stats.seen
    /\ l.seen = "missed" => q \in stats.missed

Wanted(l, stats) == {q \in l.all : PassesBy(l, stats, q)}

\* The filters are those a link has set.
Follows(l, link) ==
    /\ l.cert = link.cert /\ l.narrow = Questions /\ l.seen = All
    /\ l.ids = link.ids /\ l.topic = All
    /\ link.code # None => l.prefix = link.code /\ link.code = <<link.code[1]>>
    /\ link.code = None => l.prefix = None

LinkOf(l, link, s) ==
    /\ link.link \in BOOLEAN
    /\ IF link.link THEN ~s => Follows(l, link) ELSE l.ids = None /\ l.prefix = None

ContentInv == content.load \in Nat /\ content.questions \subseteq Questions
\* The library has the pool of the load it knows; on its page that is the last
\* one, unless the content has changed since it was shown.
LoadInv ==
    /\ lib.load <= content.load
    /\ lib.load = content.load => lib.all = content.questions
    /\ where = "practice" /\ "practice" \notin due /\ ~moved => lib.load = content.load

LibraryInv ==
    /\ WellMade(lib) /\ ContentInv /\ LoadInv /\ due \subseteq {"practice", "dashboard"}
    /\ lib.seen = All \/ ~behind => Lists(lib.list, Wanted(lib, QuestionStats))
    /\ LinkOf(lib, asked, stuck)

LEMMA SeenIsNone == All \notin {"unseen", "missed"}
BY SeenAssumption DEF All

\* Without a filter on the history the statistics do not matter.
LEMMA AnyHistory ==
    ASSUME NEW l, NEW s, NEW t, l.seen = All
    PROVE  Wanted(l, s) = Wanted(l, t)
BY SeenIsNone DEF Wanted, PassesBy

\* What a list depends on.
SameFilters(l, m) ==
    /\ m.cert = l.cert /\ m.narrow = l.narrow /\ m.seen = l.seen /\ m.sort = l.sort
    /\ m.ids = l.ids /\ m.prefix = l.prefix

LEMMA RebuiltFields ==
    ASSUME NEW l, WellMade(l)
    PROVE  LET m == RebuildTopicCombo(l)
           IN  /\ WellMade(m) /\ SameFilters(l, m) /\ m.search = l.search
               /\ m.load = l.load /\ m.all = l.all /\ m.stats = l.stats
               /\ m.topic \in {l.topic, All}
<1> DEFINE codes == {Topic(q) : q \in {x \in l.all : l.cert = All \/ l.cert \in Certs(x)}}
           topic == IF l.topic \in codes THEN l.topic ELSE All
<1>1. codes \subseteq {Topic(q) : q \in Questions}
  BY DEF WellMade
<1> HIDE DEF codes
<1>2. RebuildTopicCombo(l) = [l EXCEPT !.offered = codes, !.topic = topic]
  BY DEF RebuildTopicCombo, codes
<1>3. topic \in {l.topic, All}
  OBVIOUS
<1> HIDE DEF topic
<1> QED
  BY <1>1, <1>2, <1>3 DEF WellMade, LibFields, SameFilters

\* The pool of the last load.
UpToDate(l) == l.load = content.load /\ l.all = content.questions
\* The pool the library has.
SamePool(l) == l.load = lib.load /\ l.all = lib.all

LEMMA ReloadedFields ==
    ASSUME NEW l, WellMade(l), ContentInv, l.load = content.load => l.all = content.questions
    PROVE  LET m == Reloaded(l)
           IN  /\ WellMade(m) /\ SameFilters(l, m) /\ m.search = l.search
               /\ UpToDate(m) /\ m.topic \in {l.topic, All}
<1>1. CASE l.load = content.load
  BY <1>1 DEF Reloaded, SameFilters, UpToDate
<1>2. CASE l.load # content.load
  <2> DEFINE n == [l EXCEPT !.load = content.load, !.all = content.questions]
  <2>1. /\ WellMade(n) /\ SameFilters(l, n) /\ n.search = l.search /\ n.topic = l.topic
        /\ n.load = content.load /\ n.all = content.questions
    BY DEF WellMade, LibFields, SameFilters, ContentInv
  <2>2. Reloaded(l) = RebuildTopicCombo(n)
    BY <1>2 DEF Reloaded
  <2> HIDE DEF n
  <2> QED
    BY <2>1, <2>2, RebuiltFields DEF SameFilters, UpToDate
<1> QED
  BY <1>1, <1>2

LEMMA AppliedFields ==
    ASSUME NEW l, WellMade(l)
    PROVE  LET m == ApplyFilters(l)
           IN  /\ WellMade(m) /\ SameFilters(l, m) /\ m.search = l.search
               /\ m.load = l.load /\ m.all = l.all /\ m.stats = l.stats
               /\ m.topic = l.topic
               /\ Lists(m.list, Wanted(m, m.stats))
<1> DEFINE S == {q \in l.all : Passes(l, q)}
           list == Sorted(l.sort, S)
           m == [l EXCEPT !.list = list, !.page = 1]
<1>1. ApplyFilters(l) = m
  BY DEF ApplyFilters
<1>2. l.sort \in Keys /\ S \in SUBSET Questions
  BY DEF WellMade
<1>3. Lists(list, S)
  BY <1>2, SortAssumption DEF Lists
<1>4. S = Wanted(l, l.stats)
  BY DEF Wanted, PassesBy, Passes
<1> HIDE DEF S, list
<1>5. /\ WellMade(m) /\ SameFilters(l, m) /\ m.search = l.search
      /\ m.load = l.load /\ m.all = l.all /\ m.stats = l.stats /\ m.topic = l.topic
      /\ m.list = list
  BY DEF WellMade, LibFields, SameFilters
<1>6. Wanted(m, m.stats) = Wanted(l, l.stats)
  BY <1>5 DEF Wanted, PassesBy, SameFilters
<1> QED
  BY <1>1, <1>3, <1>4, <1>5, <1>6

\* A refresh has the pool and keeps the filters; it lists anew, or keeps the
\* list, what it is made of, and the pool.
LEMMA Refreshed ==
    ASSUME NEW l, NEW list, Refresh(l, list), WellMade(l), ContentInv,
           l.load = content.load => l.all = content.questions
    PROVE  /\ WellMade(lib') /\ SameFilters(l, lib') /\ lib'.search = l.search
           /\ UpToDate(lib')
           /\ lib'.topic \in {l.topic, All}
           /\ \/ Relists(l, list) /\ Lists(lib'.list, Wanted(lib', lib'.stats))
              \/ /\ ~Relists(l, list) /\ lib'.list = l.list /\ lib'.all = l.all
                 /\ lib'.topic = l.topic
<1>1. PICK stats \in StatsRead :
        lib' = LET fresh == [Reloaded(l) EXCEPT !.stats = stats]
               IN  IF Relists(l, list) THEN ApplyFilters(fresh) ELSE fresh
  BY DEF Refresh
<1> DEFINE r == Reloaded(l)
           fresh == [r EXCEPT !.stats = stats]
<1>2. /\ WellMade(r) /\ SameFilters(l, r) /\ r.search = l.search
      /\ UpToDate(r) /\ r.topic \in {l.topic, All}
  BY ReloadedFields
<1>3. l.load = content.load => r = l
  BY DEF Reloaded
<1>4. lib' = IF Relists(l, list) THEN ApplyFilters(fresh) ELSE fresh
  BY <1>1
<1> HIDE DEF r
<1>5. /\ WellMade(fresh) /\ SameFilters(r, fresh) /\ fresh.search = r.search
      /\ fresh.load = r.load /\ fresh.all = r.all /\ fresh.topic = r.topic
      /\ fresh.list = r.list
  BY <1>2 DEF WellMade, LibFields, SameFilters
<1> HIDE DEF fresh
<1>6. CASE Relists(l, list)
  <2>1. lib' = ApplyFilters(fresh)
    BY <1>4, <1>6
  <2>2. /\ WellMade(lib') /\ SameFilters(fresh, lib') /\ lib'.search = fresh.search
        /\ lib'.load = fresh.load /\ lib'.all = fresh.all /\ lib'.topic = fresh.topic
        /\ Lists(lib'.list, Wanted(lib', lib'.stats))
    BY <1>5, <2>1, AppliedFields
  <2> QED
    BY <1>2, <1>5, <1>6, <2>2 DEF SameFilters, UpToDate
<1>7. CASE ~Relists(l, list)
  <2>1. lib' = fresh /\ r = l
    BY <1>3, <1>4, <1>7 DEF Relists
  <2> QED
    BY <1>2, <1>5, <1>7, <2>1 DEF SameFilters, UpToDate
<1> QED
  BY <1>6, <1>7

LEMMA LinkedFields ==
    ASSUME NEW l, WellMade(l), ContentInv, l.load = content.load => l.all = content.questions,
           NEW cert, NEW code, NEW ids, code # None => code = <<code[1]>>
    PROVE  LET m == Linked(l, cert, code, ids)
               link == [link |-> TRUE, cert |-> cert, code |-> code, ids |-> ids]
           IN  /\ WellMade(m) /\ UpToDate(m)
               /\ Reloaded(l).topic = All => Follows(m, link)
<1> DEFINE r == Reloaded(l)
           clean == [r EXCEPT !.cert = All, !.narrow = Questions, !.search = Questions,
                              !.seen = All, !.ids = ids, !.prefix = None]
           tagged == [clean EXCEPT !.cert = cert]
           certed == IF cert = None THEN clean ELSE RebuildTopicCombo(tagged)
           drops == cert # None /\ certed.topic # All
           m == Linked(l, cert, code, ids)
           link == [link |-> TRUE, cert |-> cert, code |-> code, ids |-> ids]
<1>1. WellMade(r) /\ UpToDate(r)
  BY ReloadedFields
<1>2. m = IF code = None THEN certed
          ELSE IF code \in certed.offered THEN [certed EXCEPT !.topic = code]
          ELSE [certed EXCEPT !.topic = All, !.prefix = IF drops THEN None ELSE code]
  BY DEF Linked
<1>3. link.cert = cert /\ link.code = code /\ link.ids = ids
  OBVIOUS
<1> HIDE DEF r, m, link
<1> DEFINE Clean(x) ==
      /\ WellMade(x) /\ UpToDate(x) /\ x.cert = cert /\ x.narrow = Questions /\ x.seen = All
      /\ x.ids = ids /\ x.prefix = None
<1>4. /\ WellMade(clean) /\ UpToDate(clean) /\ clean.cert = All /\ clean.narrow = Questions
      /\ clean.seen = All /\ clean.ids = ids /\ clean.prefix = None /\ clean.topic = r.topic
  BY <1>1 DEF WellMade, LibFields, UpToDate
<1> HIDE DEF clean
<1>5. Clean(tagged) /\ tagged.topic = r.topic
  BY <1>4 DEF WellMade, LibFields, UpToDate
<1> HIDE DEF tagged
<1>6. Clean(certed) /\ (r.topic = All => certed.topic = All)
  <2>1. CASE cert = None
    BY <1>4, <2>1 DEF All
  <2>2. CASE cert # None
    <3>1. certed = RebuildTopicCombo(tagged)
      BY <2>2
    <3> QED
      BY <1>5, <3>1, RebuiltFields DEF UpToDate, SameFilters
  <2> QED
    BY <2>1, <2>2
<1> HIDE DEF certed
<1>7. CASE code = None
  <2>1. m = certed
    BY <1>2, <1>7
  <2> QED
    BY <1>3, <1>6, <1>7, <2>1 DEF Follows, r, m, link
<1>8. CASE code # None
  <2>1. code \notin certed.offered
    <3>1. code = <<code[1]>>
      BY <1>8
    <3>2. Len(code) = 1
      BY <3>1
    <3>3. certed.offered \subseteq {Topic(q) : q \in Questions}
      BY <1>6 DEF WellMade
    <3>4. SUFFICES ASSUME code \in certed.offered PROVE FALSE
      OBVIOUS
    <3>5. PICK q \in Questions : code = Topic(q)
      BY <3>3, <3>4
    <3>6. Len(Topic(q)) \in Nat /\ Len(Topic(q)) > 1
      BY TopicAssumption
    <3>7. Len(code) > 1
      BY <3>5, <3>6
    <3> QED
      BY <3>2, <3>7
  <2> DEFINE prefix == IF drops THEN None ELSE code
             last == [certed EXCEPT !.topic = All, !.prefix = prefix]
  <2>2. m = last
    BY <1>2, <1>8, <2>1
  <2>3. r.topic = All => prefix = code
    BY <1>6
  <2> HIDE DEF prefix
  <2>4. /\ WellMade(last) /\ UpToDate(last) /\ last.cert = cert /\ last.narrow = Questions
        /\ last.seen = All /\ last.ids = ids /\ last.prefix = prefix /\ last.topic = All
    BY <1>6 DEF WellMade, LibFields, UpToDate
  <2> HIDE DEF last
  <2> QED
    BY <1>3, <1>8, <2>2, <2>3, <2>4 DEF Follows, r, m, link
<1> QED
  BY <1>7, <1>8

-----------------------------------------------------------------------------
(* The steps.                                                              *)

LEMMA LibraryBegins == StudyInit => LibraryInv
<1> SUFFICES ASSUME StudyInit PROVE LibraryInv
  OBVIOUS
<1>1. /\ lib = [load |-> 0, all |-> {}, offered |-> {}, cert |-> All, topic |-> All,
              narrow |-> Questions, search |-> Questions, seen |-> All,
              sort |-> "topic", ids |-> None, prefix |-> None,
              stats |-> [seen |-> {}, missed |-> {}], list |-> <<>>, page |-> 1]
      /\ content.load = 1 /\ content.questions = Questions
      /\ where = "dashboard" /\ asked.link = FALSE
  BY DEF StudyInit, NoLink
<1>7. due = {}
  BY DEF StudyInit
<1>2. WellMade(lib)
  BY <1>1 DEF WellMade, LibFields, Keys
<1>3. Lists(<<>>, {})
  BY FS_EmptySet DEF Lists
<1>4. Wanted(lib, QuestionStats) = {} /\ lib.list = <<>>
  BY <1>1 DEF Wanted
<1>5. LoadInv /\ ContentInv
  BY <1>1 DEF LoadInv, ContentInv
<1>6. LinkOf(lib, asked, stuck)
  BY <1>1 DEF LinkOf
<1> QED
  BY <1>2, <1>3, <1>4, <1>5, <1>6, <1>7 DEF LibraryInv

\* A list that was made from the statistics the library has just read.
LEMMA ListedAnew ==
    ASSUME WellMade(lib'), ContentInv, UNCHANGED content,
           UpToDate(lib') \/ (SamePool(lib') /\ LoadInv /\ UNCHANGED <<where, due, moved>>),
           Lists(lib'.list, Wanted(lib', lib'.stats)),
           UNCHANGED attempted, ~behind' => lib'.stats = QuestionStats,
           LinkOf(lib', asked', stuck'), due' \subseteq {"practice", "dashboard"}
    PROVE  LibraryInv'
<1>1. QuestionStats' = QuestionStats
  BY DEF QuestionStats
<1>2. ContentInv' /\ LoadInv'
  BY DEF ContentInv, LoadInv, UpToDate, SamePool
<1>3. CASE lib'.seen = All
  BY <1>1, <1>2, <1>3, AnyHistory DEF LibraryInv
<1>4. CASE ~behind'
  BY <1>1, <1>2, <1>4 DEF LibraryInv
<1>5. CASE lib'.seen # All /\ behind'
  BY <1>2, <1>5 DEF LibraryInv
<1> QED
  BY <1>3, <1>4, <1>5

\* The library is left alone.
LEMMA LibraryKept ==
    ASSUME LibraryInv, UNCHANGED <<lib, content, asked, stuck>>,
           \/ UNCHANGED attempted /\ (behind' <=> behind)
           \/ behind' = TRUE,
           where' = "practice" => where = "practice" \/ "practice" \in due' ,
           "practice" \in due => "practice" \in due' \/ where' # "practice",
           where' = "practice" /\ ~moved' => ~moved,
           due' \subseteq {"practice", "dashboard"}
    PROVE  LibraryInv'
<1>1. LoadInv'
  BY DEF LoadInv, LibraryInv
<1>2. lib'.seen = All \/ ~behind' => Lists(lib'.list, Wanted(lib', QuestionStats'))
  <2>1. CASE UNCHANGED attempted /\ (behind' <=> behind)
    <3>1. QuestionStats' = QuestionStats
      BY <2>1 DEF QuestionStats
    <3> QED
      BY <2>1, <3>1 DEF LibraryInv
  <2>2. CASE behind' = TRUE
    BY <2>2, AnyHistory DEF LibraryInv
  <2> QED
    BY <2>1, <2>2
<1> QED
  BY <1>1, <1>2 DEF LibraryInv, ContentInv

\* The filters of a link stay when the list is refreshed.
LEMMA LinkStays ==
    ASSUME NEW l, NEW m, NEW link, NEW s, LinkOf(l, link, s), SameFilters(l, m),
           m.topic \in {l.topic, All}
    PROVE  LinkOf(m, link, s)
BY DEF LinkOf, Follows, SameFilters

LEMMA RefreshedAnew ==
    ASSUME LibraryInv, Refresh(lib, TRUE), behind' = Unread, UNCHANGED <<content, attempted, asked, stuck, due>>
    PROVE  LibraryInv'
<1>1. Relists(lib, TRUE)
  BY DEF Relists
<1>2. /\ WellMade(lib') /\ SameFilters(lib, lib') /\ UpToDate(lib')
      /\ lib'.topic \in {lib.topic, All} /\ Lists(lib'.list, Wanted(lib', lib'.stats))
  BY <1>1, Refreshed DEF LibraryInv, LoadInv
<1>3. LinkOf(lib', asked', stuck')
  BY <1>2, LinkStays DEF LibraryInv
<1> QED
  BY <1>2, <1>3, ListedAnew DEF LibraryInv, Unread

LEMMA Navigates ==
    ASSUME LibraryInv, NEW cert, NEW code, NEW ids, code # None => code = <<code[1]>>,
           NavigatePractice(cert, code, ids)
    PROVE  LibraryInv'
<1>1. UNCHANGED <<content, due, attempted>> /\ behind' = Unread
  BY DEF NavigatePractice, studyRows
<1>2. CASE cert = None /\ code = None /\ ids = None
  <2> DEFINE l == [lib EXCEPT !.ids = None, !.prefix = None]
  <2>1. Refresh(l, TRUE) /\ asked' = NoLink /\ stuck' = FALSE
    BY <1>2 DEF NavigatePractice
  <2>2. /\ WellMade(l) /\ l.load = lib.load /\ l.all = lib.all /\ l.ids = None /\ l.prefix = None
    BY DEF LibraryInv, WellMade, LibFields
  <2> HIDE DEF l
  <2>3. Relists(l, TRUE) /\ (l.load = content.load => l.all = content.questions)
    BY <2>2 DEF Relists, LibraryInv, LoadInv
  <2>4. /\ WellMade(lib') /\ SameFilters(l, lib') /\ UpToDate(lib')
        /\ Lists(lib'.list, Wanted(lib', lib'.stats))
    BY <2>1, <2>2, <2>3, Refreshed DEF LibraryInv
  <2>5. LinkOf(lib', asked', stuck')
    BY <2>1, <2>2, <2>4 DEF LinkOf, NoLink, SameFilters
  <2> QED
    BY <1>1, <2>4, <2>5, ListedAnew DEF LibraryInv, Unread
<1>3. CASE ~(cert = None /\ code = None /\ ids = None)
  <2> DEFINE link == [link |-> TRUE, cert |-> cert, code |-> code, ids |-> ids]
             r == Linked(lib, cert, code, ids)
  <2>1. PICK stats \in StatsRead : lib' = ApplyFilters([r EXCEPT !.stats = stats])
    BY <1>3 DEF NavigatePractice
  <2>2. asked' = link /\ stuck' = (Reloaded(lib).topic # All)
    BY <1>3 DEF NavigatePractice
  <2>3. link.link = TRUE
    OBVIOUS
  <2>4. lib.load = content.load => lib.all = content.questions
    BY DEF LibraryInv, LoadInv
  <2>5. WellMade(r) /\ UpToDate(r) /\ (Reloaded(lib).topic = All => Follows(r, link))
    BY <2>4, LinkedFields DEF LibraryInv
  <2> DEFINE fresh == [r EXCEPT !.stats = stats]
  <2> HIDE DEF r, link
  <2>6. /\ WellMade(fresh) /\ UpToDate(fresh) /\ SameFilters(r, fresh) /\ fresh.topic = r.topic
    BY <2>5 DEF WellMade, LibFields, UpToDate, SameFilters
  <2>7. lib' = ApplyFilters(fresh)
    BY <2>1
  <2> HIDE DEF fresh
  <2>8. /\ WellMade(lib') /\ SameFilters(fresh, lib') /\ lib'.topic = fresh.topic /\ UpToDate(lib')
        /\ Lists(lib'.list, Wanted(lib', lib'.stats))
    BY <2>6, <2>7, AppliedFields DEF UpToDate
  <2>9. LinkOf(lib', asked', stuck')
    BY <2>2, <2>3, <2>5, <2>6, <2>8 DEF LinkOf, Follows, SameFilters
  <2> QED
    BY <1>1, <2>8, <2>9, ListedAnew DEF LibraryInv, Unread
<1> QED
  BY <1>2, <1>3

LEMMA LinksKeep == ASSUME LibraryInv, Links PROVE LibraryInv'
<1>1. \A d : <<d>> = <<(<<d>>)[1]>>
  OBVIOUS
<1>2. CASE \E cert \in {"ccna", "ccnp"} : Acts /\ NavigatePractice(cert, None, None)
  BY <1>2, Navigates
<1>3. CASE \E d : NavigatePractice(None, <<d>>, None)
  BY <1>1, <1>3, Navigates
<1>4. CASE \E cert : NavigatePractice(cert, <<SuggestNext(cert).domain>>, None)
  <2>1. PICK cert : NavigatePractice(cert, <<SuggestNext(cert).domain>>, None)
    BY <1>4
  <2> DEFINE code == <<SuggestNext(cert).domain>>
  <2>2. code = <<code[1]>>
    OBVIOUS
  <2> HIDE DEF code
  <2> QED
    BY <2>1, <2>2, Navigates DEF code
<1>5. CASE NavigatePractice(None, None, RecentMissed)
  BY <1>5, Navigates
<1>6. CASE NavigatePractice(None, None, None)
  BY <1>6, Navigates
<1> QED
  BY <1>2, <1>3, <1>4, <1>5, <1>6 DEF Links

LEMMA FiltersChange ==
    ASSUME LibraryInv, NEW l, NEW rebuild, WellMade(l), SamePool(l), l.stats = lib.stats,
           FilterChanged(l, rebuild), behind' = (lib.stats # QuestionStats),
           UNCHANGED <<content, attempted, where, due, moved>>
    PROVE  LibraryInv'
<1> DEFINE unlinked == [l EXCEPT !.ids = None, !.prefix = None]
           m == IF rebuild THEN RebuildTopicCombo(unlinked) ELSE unlinked
<1>1. lib' = ApplyFilters(m) /\ asked' = NoLink /\ stuck' = FALSE
  BY DEF FilterChanged
<1>2. /\ WellMade(unlinked) /\ SamePool(unlinked) /\ unlinked.stats = l.stats
      /\ unlinked.ids = None /\ unlinked.prefix = None
  BY DEF WellMade, LibFields, SamePool
<1> HIDE DEF unlinked
<1>3. /\ WellMade(m) /\ SamePool(m) /\ m.stats = l.stats /\ m.ids = None /\ m.prefix = None
  BY <1>2, RebuiltFields DEF SamePool, SameFilters
<1> HIDE DEF m
<1>4. /\ WellMade(lib') /\ SameFilters(m, lib') /\ SamePool(lib') /\ lib'.stats = lib.stats
      /\ Lists(lib'.list, Wanted(lib', lib'.stats))
  BY <1>1, <1>3, AppliedFields DEF SamePool
<1>5. LinkOf(lib', asked', stuck')
  BY <1>1, <1>3, <1>4 DEF LinkOf, NoLink, SameFilters
<1> QED
  BY <1>4, <1>5, ListedAnew DEF LibraryInv

LEMMA SetFilterKeeps == ASSUME LibraryInv, SetFilter PROVE LibraryInv'
<1>1. /\ SamePool(lib) /\ behind' = (lib.stats # QuestionStats)
      /\ UNCHANGED <<content, attempted, where, due, moved>> /\ WellMade(lib)
  BY DEF SamePool, SetFilter, studyRows, LibraryInv
<1>2. ASSUME NEW cert, FilterChanged([lib EXCEPT !.cert = cert], TRUE) PROVE LibraryInv'
  <2> DEFINE l == [lib EXCEPT !.cert = cert]
  <2>1. WellMade(l) /\ SamePool(l) /\ l.stats = lib.stats
    BY <1>1 DEF WellMade, LibFields, SamePool
  <2> HIDE DEF l
  <2> QED
    BY <1>1, <1>2, <2>1, FiltersChange DEF l
<1>3. ASSUME NEW topic, FilterChanged([lib EXCEPT !.topic = topic], FALSE) PROVE LibraryInv'
  <2> DEFINE l == [lib EXCEPT !.topic = topic]
  <2>1. WellMade(l) /\ SamePool(l) /\ l.stats = lib.stats
    BY <1>1 DEF WellMade, LibFields, SamePool
  <2> HIDE DEF l
  <2> QED
    BY <1>1, <1>3, <2>1, FiltersChange DEF l
<1>4. ASSUME NEW seen, FilterChanged([lib EXCEPT !.seen = seen], FALSE) PROVE LibraryInv'
  <2> DEFINE l == [lib EXCEPT !.seen = seen]
  <2>1. WellMade(l) /\ SamePool(l) /\ l.stats = lib.stats
    BY <1>1 DEF WellMade, LibFields, SamePool
  <2> HIDE DEF l
  <2> QED
    BY <1>1, <1>4, <2>1, FiltersChange DEF l
<1>5. ASSUME NEW narrow, FilterChanged([lib EXCEPT !.narrow = narrow], FALSE) PROVE LibraryInv'
  <2> DEFINE l == [lib EXCEPT !.narrow = narrow]
  <2>1. WellMade(l) /\ SamePool(l) /\ l.stats = lib.stats
    BY <1>1 DEF WellMade, LibFields, SamePool
  <2> HIDE DEF l
  <2> QED
    BY <1>1, <1>5, <2>1, FiltersChange DEF l
<1>6. ASSUME NEW key \in SortKeys, FilterChanged([lib EXCEPT !.sort = key], FALSE) PROVE LibraryInv'
  <2> DEFINE l == [lib EXCEPT !.sort = key]
  <2>1. WellMade(l) /\ SamePool(l) /\ l.stats = lib.stats
    BY <1>1, <1>6 DEF WellMade, LibFields, SamePool, Keys
  <2> HIDE DEF l
  <2> QED
    BY <1>1, <1>6, <2>1, FiltersChange DEF l
<1> QED
  BY <1>2, <1>3, <1>4, <1>5, <1>6 DEF SetFilter

LEMMA SearchKeeps == ASSUME LibraryInv, NEW found, Search(found) PROVE LibraryInv'
<1> DEFINE l == [lib EXCEPT !.search = found]
<1>1. /\ SamePool(lib) /\ lib' = ApplyFilters(l) /\ behind' = (lib.stats # QuestionStats)
      /\ UNCHANGED <<content, attempted, asked, stuck, where, due, moved>> /\ WellMade(lib)
  BY DEF SamePool, Search, studyRows, LibraryInv
<1>2. /\ WellMade(l) /\ SamePool(l) /\ l.stats = lib.stats /\ SameFilters(lib, l)
      /\ l.topic = lib.topic
  BY <1>1 DEF WellMade, LibFields, SamePool, SameFilters
<1> HIDE DEF l
<1>3. /\ WellMade(lib') /\ SameFilters(l, lib') /\ SamePool(lib') /\ lib'.stats = lib.stats
      /\ lib'.topic = lib.topic /\ Lists(lib'.list, Wanted(lib', lib'.stats))
  BY <1>1, <1>2, AppliedFields DEF SamePool
<1>4. LinkOf(lib', asked', stuck')
  BY <1>1, <1>2, <1>3 DEF LinkOf, Follows, SameFilters, LibraryInv
<1> QED
  BY <1>1, <1>3, <1>4, ListedAnew DEF LibraryInv

LEMMA TurnPageKeeps == ASSUME LibraryInv, NEW delta, TurnPage(delta) PROVE LibraryInv'
<1>1. /\ UNCHANGED <<content, attempted, asked, stuck, moved, behind, due, where>>
      /\ lib' = [lib EXCEPT !.page = @ + delta]
  BY DEF TurnPage, studyRows
<1>2. /\ WellMade(lib') /\ SameFilters(lib, lib') /\ lib'.search = lib.search
      /\ lib'.topic = lib.topic /\ lib'.list = lib.list /\ lib'.load = lib.load
      /\ lib'.all = lib.all
  BY <1>1 DEF WellMade, LibFields, SameFilters, LibraryInv
<1>3. QuestionStats' = QuestionStats
  BY <1>1 DEF QuestionStats
<1>4. Wanted(lib', QuestionStats) = Wanted(lib, QuestionStats)
  BY <1>2 DEF Wanted, PassesBy, SameFilters
<1>5. LinkOf(lib', asked', stuck')
  BY <1>1, <1>2, LinkStays DEF LibraryInv
<1>6. lib'.seen = All \/ ~behind' => Lists(lib'.list, Wanted(lib', QuestionStats'))
  BY <1>1, <1>2, <1>3, <1>4 DEF LibraryInv, SameFilters
<1>7. LoadInv' /\ ContentInv'
  BY <1>1, <1>2 DEF LibraryInv, LoadInv, ContentInv
<1> QED
  BY <1>1, <1>2, <1>5, <1>6, <1>7 DEF LibraryInv

LEMMA RefreshPageKeeps ==
    ASSUME LibraryInv, NEW page, RefreshStaticPage(page) PROVE LibraryInv'
<1>1. /\ page \in due /\ due' = due \ {page}
      /\ UNCHANGED <<content, attempted, asked, stuck, where>>
      /\ moved' = (moved /\ ~(page = "practice" /\ where = page))
  BY DEF RefreshStaticPage, studyRows
<1>2. page \in {"practice", "dashboard"} /\ due' \subseteq {"practice", "dashboard"}
  BY <1>1 DEF LibraryInv
<1>3. CASE page = "practice" /\ where = page
  <2>1. Refresh(lib, FALSE) /\ behind' = IF Relists(lib, FALSE) THEN Unread ELSE behind
    BY <1>3 DEF RefreshStaticPage
  <2>2. /\ WellMade(lib') /\ SameFilters(lib, lib') /\ lib'.search = lib.search
        /\ UpToDate(lib') /\ lib'.topic \in {lib.topic, All}
        /\ \/ Relists(lib, FALSE) /\ Lists(lib'.list, Wanted(lib', lib'.stats))
           \/ /\ ~Relists(lib, FALSE) /\ lib'.list = lib.list /\ lib'.all = lib.all
              /\ lib'.topic = lib.topic
    BY <2>1, Refreshed DEF LibraryInv, LoadInv
  <2>3. LinkOf(lib', asked', stuck')
    BY <1>1, <2>2, LinkStays DEF LibraryInv
  <2>4. CASE Relists(lib, FALSE)
    <3>1. Lists(lib'.list, Wanted(lib', lib'.stats)) /\ behind' = Unread
      BY <2>1, <2>2, <2>4
    <3> QED
      BY <1>1, <1>2, <2>2, <2>3, <3>1, ListedAnew DEF LibraryInv, Unread
  <2>5. CASE ~Relists(lib, FALSE)
    <3>1. QuestionStats' = QuestionStats
      BY <1>1 DEF QuestionStats
    <3>2. Wanted(lib', QuestionStats) = Wanted(lib, QuestionStats)
      BY <2>2, <2>5 DEF Wanted, PassesBy, SameFilters
    <3>3. lib'.seen = All \/ ~behind' => Lists(lib'.list, Wanted(lib', QuestionStats'))
      BY <2>1, <2>2, <2>5, <3>1, <3>2 DEF LibraryInv, SameFilters
    <3>4. LoadInv' /\ ContentInv'
      BY <1>1, <2>2 DEF LibraryInv, LoadInv, ContentInv, UpToDate
    <3> QED
      BY <1>2, <2>2, <2>3, <3>3, <3>4 DEF LibraryInv
  <2> QED
    BY <2>4, <2>5
<1>4. CASE page = "dashboard" /\ where = page
  <2>1. UNCHANGED <<lib, behind>>
    BY <1>4 DEF RefreshStaticPage
  <2> QED
    BY <1>1, <1>2, <1>4, <2>1, LibraryKept
<1>5. CASE where # page
  <2>1. UNCHANGED <<lib, behind>>
    BY <1>5 DEF RefreshStaticPage
  <2> QED
    BY <1>1, <1>2, <1>5, <2>1, LibraryKept
<1> QED
  BY <1>2, <1>3, <1>4, <1>5

LEMMA ReloadContentKeeps ==
    ASSUME LibraryInv, NEW questions \in Contents, ReloadContent(questions) PROVE LibraryInv'
<1>1. /\ UNCHANGED <<lib, where, due, attempted, asked, stuck, behind>>
      /\ moved' = (moved \/ where = "practice")
      /\ content'.load = content.load + 1 /\ content'.questions = questions
  BY DEF ReloadContent, studyPages, studyRows
<1>2. questions \subseteq Questions
  BY PoolAssumption
<1>3. /\ lib.load <= content.load /\ lib.load \in Nat /\ content.load \in Nat
      /\ where = "practice" /\ "practice" \notin due /\ ~moved => lib.load = content.load
  BY DEF ContentInv, LoadInv, LibraryInv, WellMade
<1>4. content'.load \in Nat /\ lib'.load < content'.load
  BY <1>1, <1>3
<1>5. lib'.load <= content'.load /\ lib'.load # content'.load
  BY <1>1, <1>3, <1>4
<1>6. ~(where' = "practice" /\ ~moved')
  BY <1>1
<1>7. ContentInv' /\ LoadInv'
  BY <1>1, <1>2, <1>4, <1>5, <1>6 DEF ContentInv, LoadInv
<1>8. QuestionStats' = QuestionStats
  BY <1>1 DEF QuestionStats
<1> QED
  BY <1>1, <1>7, <1>8 DEF LibraryInv

LEMMA GoesToPractice == ASSUME LibraryInv, GoToPractice PROVE LibraryInv'
BY RefreshedAnew DEF GoToPractice, studyRows

LEMMA LibraryStep == ASSUME LibraryInv, [StudyNext]_studyVars PROVE LibraryInv'
<1>1. due \subseteq {"practice", "dashboard"}
  BY DEF LibraryInv
<1>2. CASE Links
  BY <1>2, LinksKeep
<1>3. CASE SetFilter
  BY <1>3, SetFilterKeeps
<1>4. CASE GoBack
  BY <1>4, GoesToPractice DEF GoBack
<1>5. CASE GoNext
  <2>1. CASE at = Len(queue)
    BY <1>5, <2>1, GoesToPractice DEF GoNext
  <2>2. CASE at # Len(queue)
    BY <1>1, <1>5, <2>2, LibraryKept DEF GoNext, studyRows
  <2> QED
    BY <2>1, <2>2
<1>6. ASSUME NEW found \in Searches, Search(found) PROVE LibraryInv'
  BY <1>6, SearchKeeps
<1>7. ASSUME NEW delta \in {-1, 1}, TurnPage(delta) PROVE LibraryInv'
  BY <1>7, TurnPageKeeps
<1>8. ASSUME NEW page \in {"practice", "dashboard", "elsewhere"}, ClickTab(page) PROVE LibraryInv'
  <2>1. /\ UNCHANGED <<lib, content, asked, stuck, moved, attempted, behind>> /\ where' = page
        /\ due' = due \cup ({page} \cap {"practice", "dashboard"})
    BY <1>8 DEF ClickTab, studyRows
  <2> QED
    BY <1>1, <2>1, LibraryKept
<1>9. ASSUME NEW page \in {"practice", "dashboard", "elsewhere"}, RefreshStaticPage(page)
      PROVE  LibraryInv'
  BY <1>9, RefreshPageKeeps
<1>10. ASSUME NEW questions \in Contents, ReloadContent(questions) PROVE LibraryInv'
  BY <1>10, ReloadContentKeeps
<1>11. ASSUME NEW sheet \in Sheets, FinishExam(sheet) PROVE LibraryInv'
  BY <1>1, <1>11, LibraryKept DEF FinishExam, studyPages
<1>12. ASSUME NEW i, OpenQuestion(i) PROVE LibraryInv'
  BY <1>1, <1>12, LibraryKept DEF OpenQuestion, studyRows
<1>13. ASSUME NEW right \in BOOLEAN, CheckAnswer(right) PROVE LibraryInv'
  <2>1. /\ UNCHANGED <<lib, content, asked, stuck, moved, where, due>>
        /\ behind' = (behind \/ attempted' # attempted)
    BY <1>13 DEF CheckAnswer
  <2>2. CASE attempted' # attempted
    BY <1>1, <2>1, <2>2, LibraryKept
  <2>3. CASE attempted' = attempted
    <3>1. behind' <=> behind
      BY <2>1, <2>3
    <3> QED
      BY <1>1, <2>1, <2>3, <3>1, LibraryKept
  <2> QED
    BY <2>2, <2>3
<1>14. CASE UNCHANGED studyVars
  BY <1>1, <1>14, LibraryKept DEF studyVars, studyPages, studyRows
<1> QED
  BY <1>2, <1>3, <1>4, <1>5, <1>6, <1>7, <1>8, <1>9, <1>10, <1>11, <1>12, <1>13, <1>14
  DEF StudyNext

\* A topic begins with the domain of a link, or not.
LEMMA PrefixIsDomain ==
    ASSUME NEW q \in Questions, NEW code, code = <<code[1]>>
    PROVE  IsPrefix(code, Topic(q)) <=> SubSeq(Topic(q), 1, Len(code)) = code
<1>1. Len(code) = 1 /\ SubSeq(code, 1, 1) = code
  BY SubSeqProperties
<1>2. Len(Topic(q)) \in Nat /\ Len(Topic(q)) > 1
  BY TopicAssumption
<1> QED
  BY <1>1, <1>2 DEF IsPrefix

LEMMA LibraryImplies == LibraryInv => LibraryCurrent
<1> SUFFICES ASSUME LibraryInv, where = "practice", "practice" \notin due, ~stuck, ~moved,
                    lib.seen # All => ~behind
             PROVE  Lists(lib.list, {q \in content.questions : AskedFor(q)})
  BY DEF LibraryCurrent, Lists
<1>1. Lists(lib.list, Wanted(lib, QuestionStats))
  BY DEF LibraryInv
<1>2. lib.all = content.questions /\ content.questions \subseteq Questions
  BY DEF LibraryInv, LoadInv, ContentInv
<1>3. ASSUME NEW q \in content.questions PROVE PassesBy(lib, QuestionStats, q) <=> AskedFor(q)
  <2>1. q \in Questions
    BY <1>2, <1>3
  <2>2. CASE asked.link
    <3>1. Follows(lib, asked)
      BY <2>2 DEF LibraryInv, LinkOf
    <3>2. CASE asked.code = None
      BY <2>1, <2>2, <3>1, <3>2, SeenIsNone DEF Follows, PassesBy, AskedFor, All
    <3>3. CASE asked.code # None
      <4>1. IsPrefix(asked.code, Topic(q)) <=> SubSeq(Topic(q), 1, Len(asked.code)) = asked.code
        BY <2>1, <3>1, <3>3, PrefixIsDomain DEF Follows
      <4> QED
        BY <2>1, <2>2, <3>1, <3>3, <4>1, SeenIsNone DEF Follows, PassesBy, AskedFor, All
    <3> QED
      BY <3>2, <3>3
  <2>3. CASE ~asked.link
    <3>1. lib.ids = None /\ lib.prefix = None
      BY <2>3 DEF LibraryInv, LinkOf
    <3>2. q \in QuestionStats.seen <=> \E r \in attempted : r.q = q
      BY DEF QuestionStats
    <3>3. q \in QuestionStats.missed <=> \E r \in attempted : r.q = q /\ ~r.right
      BY DEF QuestionStats
    <3> QED
      BY <2>3, <3>1, <3>2, <3>3 DEF PassesBy, AskedFor
  <2> QED
    BY <2>2, <2>3 DEF LibraryInv, LinkOf
<1>4. Wanted(lib, QuestionStats) = {q \in content.questions : AskedFor(q)}
  BY <1>2, <1>3 DEF Wanted
<1> QED
  BY <1>1, <1>4

THEOREM LibraryIsCurrent == StudySpec => []LibraryCurrent
<1>1. LibraryInv /\ [StudyNext]_studyVars => LibraryInv'
  BY LibraryStep
<1> QED
  BY LibraryBegins, LibraryImplies, <1>1, PTL DEF StudySpec
=============================================================================
