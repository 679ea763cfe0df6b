------------------------------ MODULE SumLemmas ------------------------------
(***************************************************************************)
(* Sums over finite sets, as the folds of the community modules compute    *)
(* them.  A fold is a recursive function; what it computes is shown        *)
(* here by counting: a sum of natural numbers is the number of tokens when *)
(* every element is given as many as its weight.  What is true of the sum  *)
(* then follows from what is true of cardinalities.                        *)
(*                                                                         *)
(* First, what sets of natural numbers have: a least and a greatest        *)
(* element, and all of an interval if each number brings the next.         *)
(***************************************************************************)
EXTENDS Integers, FiniteSets, FiniteSetsExt, FiniteSetTheorems, FunctionTheorems, WellFoundedInduction, TLAPS

\* The recursion of MapThenSumSet, for weights that are given as a function.
Sums(g, w, S) ==
    g = [T \in SUBSET S |->
            IF T = {} THEN 0
            ELSE w[CHOOSE x \in T : TRUE] + g[T \ {CHOOSE x \in T : TRUE}]]

\* w[x] tokens for every element x.
TokensOf(w, x) == {x} \X (1 .. w[x])
Tokens(w, S) == UNION {TokensOf(w, x) : x \in S}
Count(w, S) == Cardinality(Tokens(w, S))

\* A set of natural numbers has a least element.
LEMMA LeastElement ==
    ASSUME NEW S, S \subseteq Nat, S # {}
    PROVE  \E m \in S : \A k \in S : m <= k
  <1>1. PICK m \in S : \A k \in S : <<k, m>> \notin OpToRel(<, Nat)
    BY WFMin, NatLessThanWellFounded, Zenon
  <1>2. \A k \in S : <<k, m>> \in Nat \X Nat
    OBVIOUS
  <1>3. \A k \in S : ~ (k < m)
    BY <1>1, <1>2, Zenon DEF OpToRel
  <1> QED
    BY <1>3

\* A set of numbers up to n has a greatest element.
LEMMA GreatestElement ==
    ASSUME NEW S, S \subseteq Nat, S # {}, NEW n \in Nat, \A k \in S : k <= n
    PROVE  \E m \in S : \A k \in S : k <= m
  <1> DEFINE Above == {b \in Nat : \A k \in S : k <= b}
  <1>1. Above \subseteq Nat /\ n \in Above
    OBVIOUS
  <1>2. PICK b \in Above : \A a \in Above : b <= a
    <2> HIDE DEF Above
    <2> QED
      BY <1>1, LeastElement
  <1>3. b \in S
    <2> SUFFICES ASSUME b \notin S PROVE FALSE
      OBVIOUS
    <2>1. \A k \in S : k \in Nat /\ k < b
      BY <1>2
    <2>2. b \in Nat /\ b # 0
      <3> PICK k \in S : TRUE
        OBVIOUS
      <3> QED
        BY <1>2, <2>1
    <2>3. b - 1 \in Above
      BY <2>1, <2>2
    <2> QED
      BY <1>2, <2>2, <2>3
  <1> QED
    BY <1>2, <1>3

\* What holds of 0 and passes on to the next number holds of all.
LEMMA UpToEvery ==
    ASSUME NEW N \in Nat, NEW Good, 0 \in Good, \A n \in 1 .. N : n - 1 \in Good => n \in Good
    PROVE  \A n \in 0 .. N : n \in Good
  <1> DEFINE Bad == {n \in 0 .. N : n \notin Good}
  <1>1. SUFFICES ASSUME Bad # {} PROVE FALSE
    OBVIOUS
  <1>2. Bad \subseteq Nat
    OBVIOUS
  <1>3. PICK m \in Bad : \A k \in Bad : m <= k
    <2> HIDE DEF Bad
    <2> QED
      BY <1>1, <1>2, LeastElement
  <1>4. m \in 1 .. N /\ m - 1 \in 0 .. N /\ m \notin Good
    BY <1>3
  <1>5. m - 1 \notin Bad
    BY <1>3, <1>4
  <1> QED
    BY <1>4, <1>5

\* The smaller of two numbers.
LEMMA MinOfTwo ==
    ASSUME NEW m \in Nat, NEW n \in Nat
    PROVE  Min({m, n}) \in {m, n} /\ Min({m, n}) <= m /\ Min({m, n}) <= n
  <1>1. \E x \in {m, n} : \A y \in {m, n} : x <= y
    <2>1. CASE m <= n
      BY <2>1
    <2>2. CASE n <= m
      BY <2>2
    <2> QED
      BY <2>1, <2>2
  <1> QED
    BY <1>1 DEF Min

\* The tokens of one element.
LEMMA TokensOfOne ==
    ASSUME NEW w, NEW x, w[x] \in Nat
    PROVE  IsFiniteSet(TokensOf(w, x)) /\ Cardinality(TokensOf(w, x)) = w[x]
  <1>1. IsFiniteSet({x}) /\ Cardinality({x}) = 1
    BY FS_Singleton
  <1>2. IsFiniteSet(1 .. w[x]) /\ Cardinality(1 .. w[x]) = w[x]
    BY FS_Interval
  <1>3. IsFiniteSet({x} \X (1 .. w[x]))
        /\ Cardinality({x} \X (1 .. w[x])) = Cardinality({x}) * Cardinality(1 .. w[x])
    BY <1>1, <1>2, FS_Product
  <1> QED
    BY <1>1, <1>2, <1>3 DEF TokensOf

\* There are finitely many tokens.
LEMMA TokensFinite ==
    ASSUME NEW S, IsFiniteSet(S), NEW w, \A x \in S : w[x] \in Nat
    PROVE  IsFiniteSet(Tokens(w, S)) /\ Count(w, S) \in Nat
  <1> DEFINE family == {TokensOf(w, x) : x \in S}
             f == [x \in S |-> TokensOf(w, x)]
  <1>1. f \in Surjection(S, family)
    BY DEF Surjection
  <1>2. IsFiniteSet(family)
    <2> HIDE DEF f, family
    <2> QED
      BY <1>1, FS_Surjection
  <1>3. \A T \in family : IsFiniteSet(T)
    BY TokensOfOne
  <1>4. IsFiniteSet(UNION family)
    <2> HIDE DEF f, family
    <2> QED
      BY <1>2, <1>3, FS_UNION
  <1> QED
    BY <1>4, FS_CardinalityType DEF Tokens, Count

\* No elements, no tokens.
LEMMA CountEmpty == ASSUME NEW w PROVE Count(w, {}) = 0
  <1>1. Tokens(w, {}) = {}
    BY DEF Tokens
  <1> QED
    BY <1>1, FS_EmptySet DEF Count

\* Disjoint sets count one by one.
LEMMA CountUnion ==
    ASSUME NEW S, IsFiniteSet(S), NEW T, IsFiniteSet(T), S \cap T = {},
           NEW w, \A y \in S \cup T : w[y] \in Nat
    PROVE  Count(w, S \cup T) = Count(w, S) + Count(w, T)
  <1>1. Tokens(w, S \cup T) = Tokens(w, S) \cup Tokens(w, T)
    BY DEF Tokens
  <1>2. Tokens(w, S) \cap Tokens(w, T) = {}
    BY DEF Tokens, TokensOf
  <1>3. IsFiniteSet(Tokens(w, S)) /\ Count(w, S) \in Nat
    BY TokensFinite
  <1>4. IsFiniteSet(Tokens(w, T)) /\ Count(w, T) \in Nat
    BY TokensFinite
  <1>5. Cardinality(Tokens(w, S) \cup Tokens(w, T))
          = Cardinality(Tokens(w, S)) + Cardinality(Tokens(w, T)) - Cardinality({})
    BY <1>2, <1>3, <1>4, FS_Union
  <1>6. Cardinality({}) = 0
    BY FS_EmptySet
  <1>7. /\ Count(w, S \cup T) = Cardinality(Tokens(w, S) \cup Tokens(w, T))
        /\ Count(w, S) = Cardinality(Tokens(w, S))
        /\ Count(w, T) = Cardinality(Tokens(w, T))
    BY <1>1 DEF Count
  <1> QED
    BY <1>3, <1>4, <1>5, <1>6, <1>7

\* Another element brings its weight.
LEMMA CountAdd ==
    ASSUME NEW S, IsFiniteSet(S), NEW x, x \notin S, NEW w, \A y \in S \cup {x} : w[y] \in Nat
    PROVE  Count(w, S \cup {x}) = Count(w, S) + w[x]
  <1>1. Tokens(w, {x}) = TokensOf(w, x)
    BY DEF Tokens
  <1>2. Count(w, {x}) = w[x]
    BY <1>1, TokensOfOne DEF Count
  <1>3. IsFiniteSet({x}) /\ S \cap {x} = {}
    BY FS_Singleton
  <1> QED
    BY <1>2, <1>3, CountUnion

\* Fewer elements weigh no more.
LEMMA CountMonotone ==
    ASSUME NEW S, IsFiniteSet(S), NEW T, T \subseteq S, NEW w, \A x \in S : w[x] \in Nat
    PROVE  Count(w, T) <= Count(w, S) /\ Count(w, T) \in Nat
  <1>1. Tokens(w, T) \in SUBSET Tokens(w, S)
    BY DEF Tokens
  <1>2. IsFiniteSet(T) /\ IsFiniteSet(Tokens(w, S))
    BY FS_Subset, TokensFinite
  <1> QED
    BY <1>1, <1>2, FS_Subset, TokensFinite DEF Count

\* The tokens satisfy the recursion.
LEMMA CountSums ==
    ASSUME NEW S, IsFiniteSet(S), NEW w, \A x \in S : w[x] \in Nat
    PROVE  Sums([T \in SUBSET S |-> Count(w, T)], w, S)
  <1> DEFINE g == [T \in SUBSET S |-> Count(w, T)]
  <1>1. ASSUME NEW T \in SUBSET S
        PROVE  g[T] = IF T = {} THEN 0
                      ELSE w[CHOOSE x \in T : TRUE] + g[T \ {CHOOSE x \in T : TRUE}]
    <2>1. CASE T = {}
      BY <2>1, CountEmpty
    <2>2. CASE T # {}
      <3> DEFINE c == CHOOSE x \in T : TRUE
      <3>1. c \in T
        BY <2>2
      <3> HIDE DEF c
      <3>2. (T \ {c}) \cup {c} = T /\ T \ {c} \in SUBSET S /\ c \notin T \ {c} /\ IsFiniteSet(T \ {c})
        BY <3>1, FS_Subset
      <3>3. Count(w, T) = Count(w, T \ {c}) + w[c]
        BY <3>1, <3>2, CountAdd
      <3>4. Count(w, T \ {c}) \in Nat /\ w[c] \in Nat
        BY <3>1, <3>2, TokensFinite
      <3>5. g[T] = w[c] + g[T \ {c}]
        BY <3>2, <3>3, <3>4
      <3> QED
        BY <2>2, <3>5 DEF c
    <2> QED
      BY <2>1, <2>2
  <1>2. g = [T \in SUBSET S |-> g[T]]
    OBVIOUS
  <1> HIDE DEF g
  <1>3. Sums(g, w, S)
    BY <1>1, <1>2 DEF Sums
  <1> QED
    BY <1>3 DEF g

\* Nothing else does, so the recursion computes the number of tokens: if not, take the
\* smallest number of elements for which it does not.
LEMMA SumsCount ==
    ASSUME NEW S, IsFiniteSet(S), NEW w, \A x \in S : w[x] \in Nat, NEW g, Sums(g, w, S)
    PROVE  g[S] = Count(w, S)
  <1> DEFINE Differ == {T \in SUBSET S : g[T] # Count(w, T)}
             Sizes == {n \in Nat : \E T \in Differ : Cardinality(T) = n}
  <1>1. SUFFICES ASSUME g[S] # Count(w, S) PROVE FALSE
    OBVIOUS
  <1>2. S \in Differ /\ Cardinality(S) \in Nat
    BY <1>1, FS_CardinalityType
  <1>3. PICK m \in Sizes : \A k \in Sizes : m <= k
    <2>1. Sizes \subseteq Nat /\ Sizes # {}
      BY <1>2
    <2> HIDE DEF Sizes
    <2> QED
      BY <2>1, LeastElement
  <1>4. PICK T \in Differ : Cardinality(T) = m
    BY <1>3
  <1> DEFINE c == CHOOSE x \in T : TRUE
  <1>5. g[T] = IF T = {} THEN 0 ELSE w[c] + g[T \ {c}]
    BY <1>4 DEF Sums
  <1>6. CASE T = {}
    BY <1>4, <1>5, <1>6, CountEmpty
  <1>7. CASE T # {}
    <2>1. c \in T
      BY <1>7
    <2> HIDE DEF c
    <2>2. T \in SUBSET S /\ IsFiniteSet(T) /\ m \in Nat
      BY <1>3, <1>4, FS_Subset
    <2>3. IsFiniteSet(T \ {c}) /\ Cardinality(T \ {c}) = m - 1 /\ Cardinality(T \ {c}) \in Nat
      BY <1>4, <2>1, <2>2, FS_RemoveElement, FS_CardinalityType
    <2>4. T \ {c} \notin Differ
      BY <1>3, <2>2, <2>3
    <2>5. g[T \ {c}] = Count(w, T \ {c})
      BY <2>2, <2>4
    <2>6. (T \ {c}) \cup {c} = T
      BY <2>1
    <2>7. Count(w, T) = Count(w, T \ {c}) + w[c] /\ Count(w, T \ {c}) \in Nat /\ w[c] \in Nat
      BY <2>1, <2>2, <2>3, <2>6, CountAdd, TokensFinite
    <2> QED
      BY <1>4, <1>5, <1>7, <2>5, <2>7
  <1> QED
    BY <1>6, <1>7

\* Elements in groups, with a bound for each group: the bounds add up.  "upTo" gives the
\* sum of the bounds of the groups before a number.
LEMMA CountByGroups ==
    ASSUME NEW S, IsFiniteSet(S), NEW w, \A x \in S : w[x] \in Nat,
           NEW n \in Nat, NEW group, \A x \in S : group[x] \in 0 .. n - 1,
           NEW upTo, \A k \in 0 .. n : upTo[k] \in Nat,
           \A k \in 0 .. n - 1 : upTo[k] + Count(w, {x \in S : group[x] = k}) <= upTo[k + 1]
    PROVE  Count(w, S) <= upTo[n]
  <1> DEFINE Before(k) == {x \in S : group[x] < k}
             Over == {k \in 0 .. n : ~ (Count(w, Before(k)) <= upTo[k])}
  <1>1. SUFFICES ASSUME ~ (Count(w, S) <= upTo[n]) PROVE FALSE
    OBVIOUS
  <1>2. Before(n) = S
    OBVIOUS
  <1>3. Over \subseteq Nat /\ n \in Over
    BY <1>1, <1>2
  <1>4. PICK m \in Over : \A k \in Over : m <= k
    <2> HIDE DEF Over
    <2> QED
      BY <1>3, LeastElement
  <1>5. m \in 0 .. n /\ ~ (Count(w, Before(m)) <= upTo[m])
    BY <1>4
  <1>6. CASE m = 0
    <2>1. Before(0) = {}
      OBVIOUS
    <2>2. Count(w, Before(m)) = 0 /\ upTo[m] \in Nat
      BY <1>6, <2>1, CountEmpty
    <2> QED
      BY <1>5, <2>2
  <1>7. CASE m # 0
    <2> DEFINE k == m - 1
               Here == {x \in S : group[x] = k}
    <2>1. k \in 0 .. n - 1 /\ k \in 0 .. n /\ k + 1 = m /\ ~ (m <= k)
      BY <1>5, <1>7
    <2>2. Count(w, Before(k)) <= upTo[k]
      BY <1>4, <2>1
    <2>3. Before(m) = Before(k) \cup Here /\ Before(k) \cap Here = {}
      BY <1>5, <2>1
    <2>4. IsFiniteSet(Before(k)) /\ IsFiniteSet(Here)
      BY FS_Subset
    <2>5. /\ \A x \in Before(k) \cup Here : w[x] \in Nat
          /\ \A x \in Before(k) : w[x] \in Nat
          /\ \A x \in Here : w[x] \in Nat
      OBVIOUS
    <2>6. upTo[k] + Count(w, Here) <= upTo[m] /\ upTo[k] \in Nat /\ upTo[m] \in Nat
      BY <1>5, <2>1
    <2> HIDE DEF Before, Here, k
    <2>7. Count(w, Before(m)) = Count(w, Before(k)) + Count(w, Here)
      BY <2>3, <2>4, <2>5, CountUnion
    <2>8. Count(w, Before(k)) \in Nat /\ Count(w, Here) \in Nat
      BY <2>4, <2>5, TokensFinite
    <2> QED
      BY <1>5, <2>2, <2>6, <2>7, <2>8
  <1> QED
    BY <1>6, <1>7

\* Elements that correspond one to one, with the same weights, weigh the same.
LEMMA CountBijection ==
    ASSUME NEW S, IsFiniteSet(S), NEW w, \A x \in S : w[x] \in Nat,
           NEW T, NEW v, NEW f \in Bijection(S, T), \A x \in S : v[f[x]] = w[x]
    PROVE  IsFiniteSet(T) /\ Count(v, T) = Count(w, S)
  <1> DEFINE g == [t \in Tokens(w, S) |-> <<f[t[1]], t[2]>>]
  <1>1. /\ f \in [S -> T]
        /\ \A x, y \in S : f[x] = f[y] => x = y
        /\ \A y \in T : \E x \in S : f[x] = y
    BY Fun_BijectionProperties
  <1>2. \A t \in Tokens(w, S) : \E x \in S : \E k \in 1 .. w[x] : t = <<x, k>>
    BY DEF Tokens, TokensOf
  <1>3. \A x \in S : \A k \in 1 .. w[x] : <<x, k>> \in Tokens(w, S)
    BY DEF Tokens, TokensOf
  <1>4. \A t \in Tokens(v, T) : \E y \in T : \E k \in 1 .. v[y] : t = <<y, k>>
    BY DEF Tokens, TokensOf
  <1>5. \A y \in T : \A k \in 1 .. v[y] : <<y, k>> \in Tokens(v, T)
    BY DEF Tokens, TokensOf
  <1>6. g \in Injection(Tokens(w, S), Tokens(v, T))
    <2>1. ASSUME NEW t \in Tokens(w, S) PROVE g[t] \in Tokens(v, T)
      BY <1>1, <1>2, <1>5
    <2>2. ASSUME NEW t \in Tokens(w, S), NEW u \in Tokens(w, S), g[t] = g[u] PROVE t = u
      BY <1>1, <1>2, <2>2
    <2> QED
      BY <2>1, <2>2, Fun_IsInj
  <1>7. g \in Surjection(Tokens(w, S), Tokens(v, T))
    <2>1. ASSUME NEW t \in Tokens(v, T) PROVE \E u \in Tokens(w, S) : g[u] = t
      <3>1. PICK y \in T : \E k \in 1 .. v[y] : t = <<y, k>>
        BY <1>4
      <3>2. PICK k \in 1 .. v[y] : t = <<y, k>>
        BY <3>1
      <3>3. PICK x \in S : f[x] = y
        BY <1>1
      <3>4. <<x, k>> \in Tokens(w, S) /\ g[<<x, k>>] = t
        BY <1>3, <3>2, <3>3
      <3> QED
        BY <3>4
    <2>2. g \in [Tokens(w, S) -> Tokens(v, T)]
      BY <1>6 DEF Injection
    <2> QED
      BY <2>1, <2>2 DEF Surjection
  <1>8. ExistsBijection(Tokens(w, S), Tokens(v, T)) /\ ExistsBijection(S, T)
    BY <1>6, <1>7 DEF ExistsBijection, Bijection
  <1> QED
    BY <1>8, TokensFinite, FS_Bijection DEF Count

\* Two sets in groups: if no group of the first weighs more than that of the second,
\* the first weighs no more.  If it does, take as few elements as possible for which it
\* does, and leave out a group.
LEMMA CountGroupwise ==
    ASSUME NEW S, IsFiniteSet(S), NEW T, IsFiniteSet(T), NEW w, \A x \in S \cup T : w[x] \in Nat,
           NEW group,
           \A c : Count(w, {x \in S : group[x] = c}) <= Count(w, {x \in T : group[x] = c})
    PROVE  Count(w, S) <= Count(w, T)
  <1> DEFINE InGroup(c, A) == {x \in A : group[x] = c}
             Over(A, B) == /\ A \in SUBSET S /\ B \in SUBSET T
                           /\ \A c : Count(w, InGroup(c, A)) <= Count(w, InGroup(c, B))
                           /\ ~ (Count(w, A) <= Count(w, B))
             Sizes == {n \in Nat : \E A, B : Over(A, B) /\ Cardinality(A) = n}
  <1>1. SUFFICES ASSUME ~ (Count(w, S) <= Count(w, T)) PROVE FALSE
    OBVIOUS
  <1>2. Over(S, T) /\ Cardinality(S) \in Nat
    BY <1>1, FS_CardinalityType
  <1>3. PICK m \in Sizes : \A k \in Sizes : m <= k
    <2>1. Sizes \subseteq Nat /\ Sizes # {}
      <3> HIDE DEF Over
      <3> QED
        BY <1>2
    <2> HIDE DEF Sizes
    <2> QED
      BY <2>1, LeastElement
  <1>4. PICK A, B : Over(A, B) /\ Cardinality(A) = m
    <2> HIDE DEF Over
    <2> QED
      BY <1>3
  <1>5. IsFiniteSet(A) /\ IsFiniteSet(B) /\ m \in Nat
    BY <1>3, <1>4, FS_Subset
  <1>6. \A x \in A \cup B : w[x] \in Nat
    BY <1>4
  <1>7. CASE A = {}
    <2>1. Count(w, A) = 0 /\ Count(w, B) \in Nat
      BY <1>5, <1>6, <1>7, CountEmpty, TokensFinite
    <2> QED
      BY <1>4, <2>1
  <1>8. CASE A # {}
    <2> PICK x \in A : TRUE
      BY <1>8
    <2> PICK c : c = group[x]
      OBVIOUS
    <2> DEFINE A1 == InGroup(c, A)
               A2 == A \ A1
               B1 == InGroup(c, B)
               B2 == B \ B1
    <2>1. /\ A1 \in SUBSET A /\ A2 \in SUBSET A /\ A = A1 \cup A2 /\ A1 \cap A2 = {} /\ x \in A1
          /\ B1 \in SUBSET B /\ B2 \in SUBSET B /\ B = B1 \cup B2 /\ B1 \cap B2 = {}
      OBVIOUS
    <2>2. /\ InGroup(c, A2) = {} /\ \A d : d # c => InGroup(d, A2) = InGroup(d, A) /\ InGroup(d, B2) = InGroup(d, B)
          /\ InGroup(c, B2) = {}
      OBVIOUS
    <2>3. Count(w, A1) <= Count(w, B1) /\ A \in SUBSET S /\ B \in SUBSET T /\ ~ (Count(w, A) <= Count(w, B))
          /\ \A d : Count(w, InGroup(d, A)) <= Count(w, InGroup(d, B))
      BY <1>4
    <2> HIDE DEF InGroup, A1, A2, B1, B2
    <2>4. IsFiniteSet(A1) /\ IsFiniteSet(A2) /\ IsFiniteSet(B1) /\ IsFiniteSet(B2)
      BY <1>5, <2>1, FS_Subset
    <2>5. /\ \A y \in A1 \cup A2 : w[y] \in Nat
          /\ \A y \in B1 \cup B2 : w[y] \in Nat
      BY <1>6, <2>1
    <2>6. /\ Count(w, A) = Count(w, A1) + Count(w, A2)
          /\ Count(w, B) = Count(w, B1) + Count(w, B2)
      BY <2>1, <2>4, <2>5, CountUnion
    <2>7. /\ Count(w, A1) \in Nat /\ Count(w, A2) \in Nat
          /\ Count(w, B1) \in Nat /\ Count(w, B2) \in Nat
      BY <2>4, <2>5, TokensFinite
    <2>8. \A d : Count(w, InGroup(d, A2)) <= Count(w, InGroup(d, B2))
      <3>1. Count(w, {}) = 0
        BY CountEmpty
      <3>2. ASSUME NEW d PROVE Count(w, InGroup(d, A2)) <= Count(w, InGroup(d, B2))
        <4>1. CASE d = c
          <5>1. InGroup(d, A2) = {} /\ InGroup(d, B2) = {}
            BY <2>2, <4>1
          <5> QED
            BY <3>1, <5>1
        <4>2. CASE d # c
          BY <2>2, <2>3, <4>2
        <4> QED
          BY <4>1, <4>2
      <3> QED
        BY <3>2
    <2>9. ~ (Count(w, A2) <= Count(w, B2))
      BY <2>3, <2>6, <2>7
    <2>10. A2 \in SUBSET S /\ B2 \in SUBSET T
      BY <2>1, <2>3
    <2>11. Over(A2, B2)
      BY <2>8, <2>9, <2>10 DEF InGroup
    <2>12. Cardinality(A2) \in Nat /\ Cardinality(A2) < m
      <3>1. A2 \in SUBSET A /\ A2 # A
        BY <2>1
      <3>2. Cardinality(A2) <= Cardinality(A) /\ Cardinality(A2) # Cardinality(A)
        BY <1>5, <3>1, FS_Subset
      <3>3. Cardinality(A2) \in Nat
        BY <2>4, FS_CardinalityType
      <3> QED
        BY <1>4, <1>5, <3>2, <3>3
    <2> HIDE DEF Over
    <2>13. Cardinality(A2) \in Sizes
      BY <2>11, <2>12
    <2> QED
      BY <1>3, <1>5, <2>12, <2>13
  <1> QED
    BY <1>7, <1>8

==============================================================================
