------------------------ MODULE CardPipeline_proofs ------------------------
(***************************************************************************)
(* The theorems about one run of the generation pipeline, and about the    *)
(* window of requests and tokens its calls share (ProviderGovernor).       *)
(***************************************************************************)
EXTENDS CardPipeline, ProviderGovernor, FiniteSetTheorems, WellFoundedInduction, TLAPS

-----------------------------------------------------------------------------
(* Induction over numbers and finite sets, and what a fold computes        *)

\* A set of numbers has a least member.
LEMMA LeastNumber ==
  ASSUME NEW T, T \subseteq Nat, T # {}
  PROVE  \E x \in T : \A y \in T : x <= y
<1>1. PICK x \in T : \A y \in T : ~(<<y, x>> \in OpToRel(<, Nat))
  BY NatLessThanWellFounded, WFMin
<1>2. \A y \in T : ~(y < x)
  BY <1>1 DEF OpToRel
<1> QED BY <1>2

\* Of finite sets that are not all fine, one is not although it is without any
\* one of its members.
LEMMA MinimalSet ==
  ASSUME NEW D, IsFiniteSet(D), NEW B, B \subseteq SUBSET D, B # {}
  PROVE  \E s \in B : \A y \in s : s \ {y} \notin B
<1> DEFINE T == {Cardinality(s) : s \in B}
<1>0. ASSUME NEW s \in SUBSET D
      PROVE  /\ IsFiniteSet(s) /\ Cardinality(s) \in Nat
             /\ \A y \in s : Cardinality(s \ {y}) = Cardinality(s) - 1
  BY FS_Subset, FS_CardinalityType, FS_RemoveElement
<1>1. T \subseteq Nat /\ T # {}
  BY <1>0
<1>2. PICK x \in T : \A y \in T : x <= y
  <2> HIDE DEF T
  <2> QED BY <1>1, LeastNumber
<1>3. PICK s \in B : x = Cardinality(s)
  OBVIOUS
<1>4. ASSUME NEW y \in s, s \ {y} \in B PROVE FALSE
  <2>1. Cardinality(s \ {y}) = x - 1 /\ x \in Nat
    BY <1>3, <1>0
  <2>2. Cardinality(s \ {y}) \in T
    BY <1>4
  <2> HIDE DEF T
  <2>3. x <= x - 1
    BY <2>1, <2>2, <1>2
  <2> QED BY <2>1, <2>3
<1> QED BY <1>4

\* it is the fold of the steps G over the subsets of D, whose next member pick
\* chooses; and the same for the subsets of at most n members.
IsFold(it, D, base, G, pick) ==
  it = [s \in SUBSET D |->
          IF s = {} THEN base ELSE G[pick[s]][it[s \ {pick[s]}]]]

IsFoldUpTo(it, D, base, G, pick, n) ==
  it = [s \in {t \in SUBSET D : Cardinality(t) <= n} |->
          IF s = {} THEN base ELSE G[pick[s]][it[s \ {pick[s]}]]]

LEMMA FoldUpToExists ==
  ASSUME NEW D, IsFiniteSet(D), NEW base, NEW G, NEW pick,
         \A s \in SUBSET D : s # {} => pick[s] \in s,
         NEW n \in Nat
  PROVE  \E it : IsFoldUpTo(it, D, base, G, pick, n)
<1> DEFINE T == {m \in Nat : ~ \E it : IsFoldUpTo(it, D, base, G, pick, m)}
<1> SUFFICES ASSUME T # {} PROVE FALSE
  OBVIOUS
<1>0. ASSUME NEW s \in SUBSET D
      PROVE  /\ Cardinality(s) \in Nat /\ (Cardinality(s) = 0 <=> s = {})
             /\ \A y \in s : Cardinality(s \ {y}) = Cardinality(s) - 1
  <2>1. IsFiniteSet(s)
    BY FS_Subset
  <2> QED BY <2>1, FS_CardinalityType, FS_RemoveElement, FS_EmptySet
<1>1. PICK m \in T : \A k \in T : m <= k
  <2>1. T \subseteq Nat
    OBVIOUS
  <2> HIDE DEF T
  <2> QED BY <2>1, LeastNumber
<1>2. CASE m = 0
  <2> DEFINE f == [s \in {t \in SUBSET D : Cardinality(t) <= 0} |-> base]
  <2>1. \A s \in {t \in SUBSET D : Cardinality(t) <= 0} : s = {}
    BY <1>0
  <2>2. IsFoldUpTo(f, D, base, G, pick, 0)
    BY <2>1 DEF IsFoldUpTo
  <2> QED BY <1>2, <2>2
<1>3. CASE m # 0
  <2>1. m - 1 \in Nat /\ m - 1 \notin T
    BY <1>1, <1>3
  <2>2. PICK f : IsFoldUpTo(f, D, base, G, pick, m - 1)
    BY <2>1
  <2> DEFINE E == {t \in SUBSET D : Cardinality(t) <= m}
             F == {t \in SUBSET D : Cardinality(t) <= m - 1}
             g == [s \in E |-> IF s = {} THEN base ELSE G[pick[s]][f[s \ {pick[s]}]]]
  <2>3. ASSUME NEW s \in F PROVE g[s] = f[s]
    <3>1. s \in E
      BY <1>0, <2>1
    <3>2. f[s] = IF s = {} THEN base ELSE G[pick[s]][f[s \ {pick[s]}]]
      BY <2>2 DEF IsFoldUpTo
    <3> QED BY <3>1, <3>2
  <2>4. ASSUME NEW s \in E, s # {} PROVE s \ {pick[s]} \in F
    <3>1. pick[s] \in s
      BY <2>4
    <3> QED BY <3>1, <1>0, <2>1
  <2>5. g = [s \in E |-> IF s = {} THEN base ELSE G[pick[s]][g[s \ {pick[s]}]]]
    <3> SUFFICES ASSUME NEW s \in E
                 PROVE g[s] = IF s = {} THEN base ELSE G[pick[s]][g[s \ {pick[s]}]]
      OBVIOUS
    <3>1. CASE s = {}
      BY <3>1
    <3>2. CASE s # {}
      BY <3>2, <2>3, <2>4
    <3> QED BY <3>1, <3>2
  <2>6. IsFoldUpTo(g, D, base, G, pick, m)
    <3> HIDE DEF g
    <3> QED BY <2>5 DEF IsFoldUpTo
  <2> QED BY <2>6
<1> QED BY <1>2, <1>3

\* A fold exists,
LEMMA FoldExists ==
  ASSUME NEW D, IsFiniteSet(D), NEW base, NEW G, NEW pick,
         \A s \in SUBSET D : s # {} => pick[s] \in s
  PROVE  \E it : IsFold(it, D, base, G, pick)
<1>1. Cardinality(D) \in Nat
  BY FS_CardinalityType
<1>2. PICK it : IsFoldUpTo(it, D, base, G, pick, Cardinality(D))
  BY <1>1, FoldUpToExists
<1>3. {t \in SUBSET D : Cardinality(t) <= Cardinality(D)} = SUBSET D
  BY FS_Subset
<1> QED BY <1>2, <1>3 DEF IsFold, IsFoldUpTo

\* and its values stay in a set that its steps do not leave.
LEMMA FoldStays ==
  ASSUME NEW D, IsFiniteSet(D), NEW Acc, NEW base \in Acc, NEW it, NEW pick,
         \A s \in SUBSET D : s # {} => pick[s] \in s,
         it[{}] = base,
         \A s \in SUBSET D : s # {} /\ it[s \ {pick[s]}] \in Acc => it[s] \in Acc
  PROVE  \A s \in SUBSET D : it[s] \in Acc
<1> DEFINE B == {s \in SUBSET D : it[s] \notin Acc}
<1> SUFFICES ASSUME B # {} PROVE FALSE
  OBVIOUS
<1>1. PICK s \in B : \A y \in s : s \ {y} \notin B
  <2>1. B \subseteq SUBSET D
    OBVIOUS
  <2> HIDE DEF B
  <2> QED BY <2>1, MinimalSet
<1>2. s # {}
  OBVIOUS
<1>3. pick[s] \in s /\ s \ {pick[s]} \in SUBSET D
  BY <1>2
<1>4. it[s \ {pick[s]}] \in Acc
  BY <1>1, <1>3
<1> QED BY <1>2, <1>4

-----------------------------------------------------------------------------
(* Sums                                                                    *)

Pick(s) == CHOOSE x \in s : TRUE

IsSum(it, f) ==
  it = [s \in SUBSET (DOMAIN f) |-> IF s = {} THEN 0 ELSE f[Pick(s)] + it[s \ {Pick(s)}]]

\* Total is a recursive sum, whose values are numbers.
LEMMA TotalIsSum ==
  ASSUME NEW D, IsFiniteSet(D), NEW f \in [D -> Int]
  PROVE  \E it \in [SUBSET D -> Int] : IsSum(it, f) /\ Total(f) = it[D]
<1> DEFINE G == [x \in D |-> [a \in Int |-> f[x] + a]]
           pick == [s \in SUBSET D |-> Pick(s)]
<1>1. \A s \in SUBSET D : s # {} => pick[s] \in s
  BY DEF Pick
<1>2. \E it : IsSum(it, f)
  <2>1. PICK it : IsFold(it, D, 0, G, pick)
    <3> HIDE DEF G, pick
    <3> QED BY <1>1, FoldExists
  <2>2. it[{}] = 0
    BY <2>1 DEF IsFold
  <2>3. ASSUME NEW s \in SUBSET D, s # {}, it[s \ {pick[s]}] \in Int
        PROVE  it[s] = f[Pick(s)] + it[s \ {Pick(s)}] /\ it[s] \in Int
    <3>1. it[s] = G[pick[s]][it[s \ {pick[s]}]]
      BY <2>1, <2>3 DEF IsFold
    <3>2. pick[s] \in D /\ pick[s] = Pick(s)
      BY <1>1, <2>3
    <3>3. G[pick[s]] = [a \in Int |-> f[pick[s]] + a]
      BY <3>2
    <3> HIDE DEF G, pick
    <3>4. f[pick[s]] \in Int
      BY <3>2
    <3> QED BY <3>1, <3>2, <3>3, <3>4, <2>3
  <2>4. \A s \in SUBSET D : it[s] \in Int
    <3> HIDE DEF pick
    <3>1. \A s \in SUBSET D : s # {} /\ it[s \ {pick[s]}] \in Int => it[s] \in Int
      BY <2>3, Zenon
    <3>2. 0 \in Int
      OBVIOUS
    <3> QED BY <1>1, <2>2, <3>1, <3>2, FoldStays
  <2>5. ASSUME NEW s \in SUBSET D
        PROVE  it[s] = IF s = {} THEN 0 ELSE f[Pick(s)] + it[s \ {Pick(s)}]
    <3>1. CASE s = {}
      BY <3>1, <2>2
    <3>2. CASE s # {}
      <4>1. s \ {pick[s]} \in SUBSET D
        OBVIOUS
      <4>2. it[s \ {pick[s]}] \in Int
        <5> HIDE DEF pick
        <5> QED BY <4>1, <2>4
      <4> HIDE DEF pick, G
      <4> QED BY <3>2, <4>2, <2>3
    <3> QED BY <3>1, <3>2
  <2>6. it = [s \in SUBSET D |-> it[s]]
    BY <2>1 DEF IsFold
  <2>7. IsSum(it, f)
    BY <2>5, <2>6 DEF IsSum
  <2> QED BY <2>7
<1> DEFINE it == CHOOSE g : IsSum(g, f)
<1>3. IsSum(it, f)
  BY <1>2
<1>4. Total(f) = it[D]
  <2>1. DOMAIN f = D
    OBVIOUS
  <2> QED
    BY <2>1, Zenon DEF Total, SumFunction, SumFunctionOnSet, FoldFunctionOnSet, MapThenFoldSet, IsSum, Pick
<1> HIDE DEF it
<1>5. it[{}] = 0
  BY <1>3 DEF IsSum
<1>6. ASSUME NEW s \in SUBSET D, s # {}, it[s \ {pick[s]}] \in Int
      PROVE  it[s] \in Int
  <2>1. it[s] = f[Pick(s)] + it[s \ {Pick(s)}]
    BY <1>3, <1>6 DEF IsSum
  <2>2. Pick(s) \in D /\ pick[s] = Pick(s)
    BY <1>1, <1>6
  <2> HIDE DEF pick
  <2> QED BY <2>1, <2>2, <1>6
<1>7. \A s \in SUBSET D : it[s] \in Int
  <2> HIDE DEF pick
  <2>1. 0 \in Int /\ \A s \in SUBSET D : s # {} /\ it[s \ {pick[s]}] \in Int => it[s] \in Int
    BY <1>6
  <2> QED BY <1>1, <1>5, <2>1, FoldStays
<1>8. it = [s \in SUBSET D |-> it[s]]
  BY <1>3 DEF IsSum
<1> QED BY <1>3, <1>4, <1>7, <1>8

LEMMA TotalIsNumber ==
  ASSUME NEW D, IsFiniteSet(D), NEW f \in [D -> Int]
  PROVE  Total(f) \in Int
<1>1. PICK it \in [SUBSET D -> Int] : IsSum(it, f) /\ Total(f) = it[D]
  BY TotalIsSum
<1> QED BY <1>1

\* The order of the members does not matter.
SumsUp(it, f, D) == f \in [D -> Int] /\ it \in [SUBSET D -> Int] /\ IsSum(it, f)

LEMMA SumOrder ==
  ASSUME NEW D, IsFiniteSet(D), NEW f, NEW it, SumsUp(it, f, D),
         NEW t, t \in SUBSET D, NEW w, w \in t, NEW r, r = t \ {w}
  PROVE  it[t] = f[w] + it[r]
<1> USE DEF SumsUp
<1>0. SUFFICES \A s \in SUBSET D : \A x \in s : it[s] = f[x] + it[s \ {x}]
  BY Zenon
<1> DEFINE B == {s \in SUBSET D : \E x \in s : it[s] # f[x] + it[s \ {x}]}
<1> SUFFICES ASSUME B # {} PROVE FALSE
  OBVIOUS
<1>1. PICK s \in B : \A y \in s : s \ {y} \notin B
  <2>1. B \subseteq SUBSET D
    OBVIOUS
  <2> HIDE DEF B
  <2> QED BY <2>1, MinimalSet
<1>2. PICK x \in s : it[s] # f[x] + it[s \ {x}]
  OBVIOUS
<1> DEFINE z == Pick(s)
<1>3. z \in s
  BY <1>2 DEF Pick
<1>4. it[s] = f[z] + it[s \ {z}]
  BY <1>2, DOMAIN f = D DEF IsSum
<1> HIDE DEF z
<1>5. x # z
  BY <1>2, <1>4
<1>6. s \ {z} \in SUBSET D /\ s \ {x} \in SUBSET D /\ (s \ {z}) \ {x} \in SUBSET D
  OBVIOUS
<1>7. it[s \ {z}] = f[x] + it[(s \ {z}) \ {x}]
  BY <1>1, <1>3, <1>5, <1>6
<1>8. it[s \ {x}] = f[z] + it[(s \ {x}) \ {z}]
  BY <1>1, <1>2, <1>3, <1>5, <1>6
<1>9. it[s \ {x}] = f[z] + it[(s \ {z}) \ {x}]
  <2>1. (s \ {z}) \ {x} = (s \ {x}) \ {z}
    OBVIOUS
  <2> QED BY <2>1, <1>8
<1>10. f[x] \in Int /\ f[z] \in Int /\ it[(s \ {z}) \ {x}] \in Int
  <2>1. x \in D /\ z \in D
    BY <1>3
  <2> QED BY <2>1, <1>6
<1> HIDE DEF B
<1> QED BY <1>2, <1>4, <1>7, <1>9, <1>10

\* A sum is one of its terms and the sum of the others.
LEMMA TotalWithout ==
  ASSUME NEW D, IsFiniteSet(D), NEW f \in [D -> Int], NEW x \in D,
         NEW g, g = [y \in D \ {x} |-> f[y]]
  PROVE  Total(f) = f[x] + Total(g)
<1> DEFINE E == D \ {x}
<1>0. IsFiniteSet(E) /\ g \in [E -> Int] /\ E \in SUBSET D
  BY FS_RemoveElement
<1>1. PICK it \in [SUBSET D -> Int] : IsSum(it, f) /\ Total(f) = it[D]
  BY TotalIsSum
<1>2. PICK jt \in [SUBSET E -> Int] : IsSum(jt, g) /\ Total(g) = jt[E]
  <2> HIDE DEF E
  <2> QED BY <1>0, TotalIsSum
<1>3. \A s \in SUBSET E : it[s] = jt[s]
  <2> DEFINE B == {s \in SUBSET E : it[s] # jt[s]}
  <2> SUFFICES ASSUME B # {} PROVE FALSE
    OBVIOUS
  <2>1. PICK s \in B : \A y \in s : s \ {y} \notin B
    <3>1. B \subseteq SUBSET E
      OBVIOUS
    <3> HIDE DEF B, E
    <3> QED BY <3>1, <1>0, MinimalSet
  <2>2. DOMAIN f = D /\ DOMAIN g = E
    OBVIOUS
  <2>3. it[s] = IF s = {} THEN 0 ELSE f[Pick(s)] + it[s \ {Pick(s)}]
    BY <1>1, <2>2 DEF IsSum
  <2>4. jt[s] = IF s = {} THEN 0 ELSE g[Pick(s)] + jt[s \ {Pick(s)}]
    BY <1>2, <2>2 DEF IsSum
  <2>5. s # {}
    BY <2>3, <2>4
  <2>6. Pick(s) \in s /\ s \ {Pick(s)} \in SUBSET E
    BY <2>5 DEF Pick
  <2>7. it[s \ {Pick(s)}] = jt[s \ {Pick(s)}]
    BY <2>1, <2>6
  <2>8. g[Pick(s)] = f[Pick(s)]
    BY <2>6
  <2> QED BY <2>3, <2>4, <2>5, <2>7, <2>8
<1>4. it[D] = f[x] + it[E]
  <2>1. D \in SUBSET D /\ E = D \ {x}
    OBVIOUS
  <2>2. SumsUp(it, f, D)
    BY <1>1 DEF SumsUp
  <2> HIDE DEF E
  <2> QED BY <1>0, <2>2, <2>1, SumOrder
<1>5. it[E] = jt[E]
  BY <1>3
<1> QED BY <1>1, <1>2, <1>4, <1>5

LEMMA TotalEmpty ==
  ASSUME NEW f, DOMAIN f = {}
  PROVE  Total(f) = 0
<1>1. \E h : IsSum(h, f)
  <2> DEFINE h == [s \in SUBSET {} |-> 0]
  <2>1. \A s \in SUBSET {} : s = {}
    OBVIOUS
  <2>2. h = [s \in SUBSET {} |-> IF s = {} THEN 0 ELSE f[Pick(s)] + h[s \ {Pick(s)}]]
    BY <2>1
  <2> HIDE DEF h
  <2>3. IsSum(h, f)
    BY <2>2 DEF IsSum
  <2> QED BY <2>3
<1> DEFINE it == CHOOSE g : IsSum(g, f)
<1>2. IsSum(it, f)
  BY <1>1
<1>3. Total(f) = it[{}]
  BY Zenon DEF Total, SumFunction, SumFunctionOnSet, FoldFunctionOnSet, MapThenFoldSet, IsSum, Pick
<1> HIDE DEF it
<1> QED BY <1>2, <1>3 DEF IsSum

\* The sum over a part of the domain.
Part(f, s) == [y \in s |-> f[y]]

LEMMA PartAll == ASSUME NEW D, NEW f, f \in [D -> Int] PROVE Part(f, D) = f
BY DEF Part

LEMMA TotalStep ==
  ASSUME NEW D, IsFiniteSet(D), NEW f, f \in [D -> Int],
         NEW t, t \in SUBSET D, NEW w, w \in t, NEW r, r = t \ {w}
  PROVE  /\ Total(Part(f, t)) = f[w] + Total(Part(f, r))
         /\ Total(Part(f, t)) \in Int /\ Total(Part(f, r)) \in Int /\ f[w] \in Int
<1> DEFINE h == Part(f, t)
           g == Part(f, r)
<1>1. IsFiniteSet(t) /\ IsFiniteSet(r)
  BY FS_Subset
<1>2. h \in [t -> Int] /\ g \in [r -> Int] /\ g = [y \in t \ {w} |-> h[y]] /\ h[w] = f[w]
  BY DEF Part
<1> HIDE DEF h, g
<1>3. Total(h) = h[w] + Total(g)
  BY <1>1, <1>2, TotalWithout
<1>4. Total(h) \in Int /\ Total(g) \in Int
  BY <1>1, <1>2, TotalIsNumber
<1>5. f[w] \in Int
  OBVIOUS
<1> QED BY <1>2, <1>3, <1>4, <1>5 DEF h, g

LEMMA TotalPart0 == ASSUME NEW f PROVE Total(Part(f, {})) = 0
<1>1. DOMAIN Part(f, {}) = {}
  BY DEF Part
<1> QED BY <1>1, TotalEmpty

\* A sum of sums: term by term.
Adds(h, f, g, D) == \A x \in D : h[x] = f[x] + g[x]

LEMMA TotalPlus ==
  ASSUME NEW D, IsFiniteSet(D), NEW f, f \in [D -> Int], NEW g, g \in [D -> Int],
         NEW h, h \in [D -> Int], Adds(h, f, g, D)
  PROVE  Total(h) = Total(f) + Total(g)
<1> DEFINE B == {s \in SUBSET D : Total(Part(h, s)) # Total(Part(f, s)) + Total(Part(g, s))}
<1>1. SUFFICES ASSUME B # {} PROVE FALSE
  BY PartAll
<1>2. PICK s \in B : \A y \in s : s \ {y} \notin B
  <2>1. B \subseteq SUBSET D
    OBVIOUS
  <2> HIDE DEF B
  <2> QED BY <1>1, <2>1, MinimalSet
<1>3. s # {}
  <2>1. Total(Part(h, {})) = 0 /\ Total(Part(f, {})) = 0 /\ Total(Part(g, {})) = 0
    BY TotalPart0
  <2> QED BY <2>1
<1>4. PICK w \in s : TRUE
  BY <1>3
<1> DEFINE r == s \ {w}
<1>5. Total(Part(h, r)) = Total(Part(f, r)) + Total(Part(g, r))
  BY <1>2, <1>4
<1>6. h[w] = f[w] + g[w]
  BY DEF Adds
<1>7. s \in SUBSET D /\ w \in s /\ r = s \ {w}
  BY <1>4
<1>8. Total(Part(h, s)) # Total(Part(f, s)) + Total(Part(g, s))
  OBVIOUS
<1> HIDE DEF r, B
<1>9. ASSUME NEW k, k \in [D -> Int]
      PROVE  /\ Total(Part(k, s)) = k[w] + Total(Part(k, r))
             /\ k[w] \in Int /\ Total(Part(k, r)) \in Int
  <2>1. s \in SUBSET D
    BY <1>7
  <2>2. w \in s
    BY <1>7
  <2>3. r = s \ {w}
    BY <1>7
  <2>4. Total(Part(k, s)) = k[w] + Total(Part(k, r))
    BY ONLY <1>9, <2>1, <2>2, <2>3, IsFiniteSet(D), TotalStep
  <2>5. Total(Part(k, s)) \in Int /\ k[w] \in Int
    BY <1>9, <2>1, <2>2, <2>3, TotalStep
  <2>6. IsFiniteSet(r) /\ Part(k, r) \in [r -> Int]
    BY <1>9, <2>1, <2>3, FS_Subset DEF Part
  <2>7. Total(Part(k, r)) \in Int
    BY <2>6, TotalIsNumber
  <2> QED BY <2>4, <2>5, <2>7
<1>10. /\ Total(Part(h, s)) = h[w] + Total(Part(h, r))
       /\ h[w] \in Int /\ Total(Part(h, r)) \in Int
  BY <1>9
<1>11. /\ Total(Part(f, s)) = f[w] + Total(Part(f, r))
       /\ f[w] \in Int /\ Total(Part(f, r)) \in Int
  BY <1>9
<1>12. /\ Total(Part(g, s)) = g[w] + Total(Part(g, r))
       /\ g[w] \in Int /\ Total(Part(g, r)) \in Int
  BY <1>9
<1> QED BY <1>5, <1>6, <1>8, <1>10, <1>11, <1>12

\* A sum grows with its terms.
LEMMA TotalOrder ==
  ASSUME NEW D, IsFiniteSet(D), NEW f, f \in [D -> Int], NEW g, g \in [D -> Int],
         \A x \in D : f[x] <= g[x]
  PROVE  Total(f) <= Total(g)
<1> DEFINE B == {s \in SUBSET D : ~(Total(Part(f, s)) <= Total(Part(g, s)))}
<1>1. SUFFICES ASSUME B # {} PROVE FALSE
  BY PartAll
<1>2. PICK s \in B : \A y \in s : s \ {y} \notin B
  <2>1. B \subseteq SUBSET D
    OBVIOUS
  <2> HIDE DEF B
  <2> QED BY <1>1, <2>1, MinimalSet
<1>3. s # {}
  BY TotalPart0
<1>4. PICK w \in s : TRUE
  BY <1>3
<1> DEFINE r == s \ {w}
<1>5. Total(Part(f, r)) <= Total(Part(g, r))
  BY <1>2, <1>4
<1>6. f[w] <= g[w]
  OBVIOUS
<1>7. s \in SUBSET D /\ w \in s /\ r = s \ {w}
  BY <1>4
<1>8. ~(Total(Part(f, s)) <= Total(Part(g, s)))
  OBVIOUS
<1> HIDE DEF r, B
<1>10. /\ Total(Part(f, s)) = f[w] + Total(Part(f, r))
       /\ f[w] \in Int /\ Total(Part(f, r)) \in Int
  BY <1>7, TotalStep
<1>11. /\ Total(Part(g, s)) = g[w] + Total(Part(g, r))
       /\ g[w] \in Int /\ Total(Part(g, r)) \in Int
  BY <1>7, TotalStep
<1> QED BY <1>5, <1>6, <1>8, <1>10, <1>11

\* Terms that are all zero sum to zero.
LEMMA TotalZero ==
  ASSUME NEW D, IsFiniteSet(D), NEW f, f \in [D -> Int], \A x \in D : f[x] = 0
  PROVE  Total(f) = 0
<1>1. Adds(f, f, f, D)
  BY DEF Adds
<1>2. Total(f) = Total(f) + Total(f)
  BY <1>1, TotalPlus
<1>3. Total(f) \in Int
  BY TotalIsNumber
<1> QED BY <1>2, <1>3, SMTT(30)

\* A sum of natural numbers is one, and no less than any of its terms.
LEMMA TotalNatural ==
  ASSUME NEW D, IsFiniteSet(D), NEW f, f \in [D -> Nat]
  PROVE  /\ Total(f) \in Nat
         /\ \A x \in D : f[x] <= Total(f)
<1>0. f \in [D -> Int]
  OBVIOUS
<1>1. Total(f) \in Int
  BY <1>0, TotalIsNumber
<1>2. 0 <= Total(f)
  <2> DEFINE z == [x \in D |-> 0]
  <2>1. z \in [D -> Int] /\ (\A x \in D : z[x] = 0) /\ \A x \in D : z[x] <= f[x]
    OBVIOUS
  <2> HIDE DEF z
  <2>2. Total(z) = 0
    BY <2>1, TotalZero
  <2> QED BY <1>0, <2>1, <2>2, TotalOrder
<1>3. ASSUME NEW x \in D PROVE f[x] <= Total(f)
  <2> DEFINE z == [y \in D |-> 0]
             g == [y \in D \ {x} |-> f[y]]
             zz == [y \in D \ {x} |-> 0]
  <2>0. IsFiniteSet(D \ {x})
    BY FS_RemoveElement
  <2>1. g \in [D \ {x} -> Int] /\ zz \in [D \ {x} -> Int]
    OBVIOUS
  <2>2. (\A y \in D \ {x} : zz[y] = 0) /\ \A y \in D \ {x} : zz[y] <= g[y]
    OBVIOUS
  <2> DEFINE E == D \ {x}
  <2>3. g = [y \in D \ {x} |-> f[y]]
    OBVIOUS
  <2> HIDE DEF g, zz
  <2>4. Total(f) = f[x] + Total(g)
    BY <1>0, <2>3, TotalWithout
  <2>5. IsFiniteSet(E) /\ g \in [E -> Int] /\ zz \in [E -> Int]
        /\ (\A y \in E : zz[y] = 0) /\ \A y \in E : zz[y] <= g[y]
    BY <2>0, <2>1, <2>2
  <2> HIDE DEF E
  <2>6. 0 <= Total(g) /\ Total(g) \in Int
    <3>1. Total(zz) = 0
      BY <2>5, TotalZero
    <3>2. Total(zz) <= Total(g)
      BY <2>5, TotalOrder
    <3>3. Total(g) \in Int
      BY <2>5, TotalIsNumber
    <3> QED BY <3>1, <3>2, <3>3
  <2>7. f[x] \in Int
    BY <1>0
  <2> QED BY <2>4, <2>6, <2>7
<1> QED BY <1>1, <1>2, <1>3

\* A sum whose term x changes.
LEMMA TotalChange ==
  ASSUME NEW D, IsFiniteSet(D), NEW f, f \in [D -> Int], NEW g, g \in [D -> Int],
         NEW x, x \in D, \A y \in D : y # x => g[y] = f[y]
  PROVE  Total(g) = Total(f) - f[x] + g[x]
<1> DEFINE h == [y \in D \ {x} |-> f[y]]
<1>1. h = [y \in D \ {x} |-> f[y]] /\ h = [y \in D \ {x} |-> g[y]]
  OBVIOUS
<1>2. IsFiniteSet(D \ {x}) /\ h \in [D \ {x} -> Int]
  BY FS_RemoveElement
<1> HIDE DEF h
<1>3. Total(f) = f[x] + Total(h)
  BY <1>1, TotalWithout
<1>4. Total(g) = g[x] + Total(h)
  BY <1>1, TotalWithout
<1>5. Total(h) \in Int
  <2> DEFINE E == D \ {x}
  <2>1. IsFiniteSet(E) /\ h \in [E -> Int]
    BY <1>2
  <2> HIDE DEF E
  <2> QED BY <2>1, TotalIsNumber
<1>6. f[x] \in Int /\ g[x] \in Int
  OBVIOUS
<1> QED BY <1>3, <1>4, <1>5, <1>6

-----------------------------------------------------------------------------
(* Folds over sequences                                                    *)

LEMMA MaxOfPositions ==
  ASSUME NEW n \in Nat
  PROVE  /\ \A s \in SUBSET (1 .. n) : s # {} => Max(s) \in s
         /\ \A k \in 1 .. n : Max(1 .. k) = k
<1>1. ASSUME NEW s \in SUBSET (1 .. n), s # {} PROVE \E x \in s : \A y \in s : x >= y
  <2> DEFINE T == {n - x : x \in s}
  <2>1. T \subseteq Nat /\ T # {}
    <3>1. \A x \in s : n - x \in Nat
      OBVIOUS
    <3> QED BY <3>1, <1>1
  <2>2. PICK t \in T : \A u \in T : t <= u
    <3> HIDE DEF T
    <3> QED BY <2>1, LeastNumber
  <2>3. PICK x \in s : t = n - x
    OBVIOUS
  <2>4. ASSUME NEW y \in s PROVE x >= y
    <3>1. n - y \in T /\ x \in Int /\ y \in Int
      OBVIOUS
    <3>2. n - x <= n - y
      BY <3>1, <2>2, <2>3
    <3> QED BY <3>1, <3>2
  <2> QED BY <2>4
<1>2. \A s \in SUBSET (1 .. n) : s # {} => Max(s) \in s /\ \A y \in s : Max(s) >= y
  BY <1>1 DEF Max
<1>3. ASSUME NEW k \in 1 .. n PROVE Max(1 .. k) = k
  <2>1. 1 .. k \in SUBSET (1 .. n) /\ k \in 1 .. k
    OBVIOUS
  <2>2. Max(1 .. k) \in 1 .. k /\ Max(1 .. k) >= k
    BY <2>1, <1>2
  <2> QED BY <2>2
<1> QED BY <1>2, <1>3

\* Steps[k] takes what was made of the first k - 1 elements to what is made of k.
StepsIn(Steps, Acc, n) == \A k \in 1 .. n : \A a \in Acc : Steps[k][a] \in Acc

\* it folds the positions 1 .. n, as long as its values are in Acc or throughout;
\* r are its values for the first 0, 1, ..., n positions.
FoldsIn(it, Steps, Acc, base, n) ==
  /\ it[{}] = base
  /\ \A s \in SUBSET (1 .. n) : s # {} /\ it[s \ {Max(s)}] \in Acc =>
          it[s] = Steps[Max(s)][it[s \ {Max(s)}]]

Folds(it, Steps, Acc, base, n) ==
  /\ it = [s \in SUBSET (1 .. n) |-> it[s]]
  /\ it[{}] = base
  /\ \A s \in SUBSET (1 .. n) : s # {} =>
          /\ it[s \ {Max(s)}] \in Acc
          /\ it[s] = Steps[Max(s)][it[s \ {Max(s)}]]

Results(r, Steps, Acc, base, n) ==
  /\ r \in [0 .. n -> Acc] /\ r[0] = base
  /\ \A k \in 1 .. n : r[k] = Steps[k][r[k - 1]]

LEMMA LeftFoldExists ==
  ASSUME NEW n \in Nat, NEW Acc, NEW base \in Acc, NEW Steps, StepsIn(Steps, Acc, n)
  PROVE  \E it : Folds(it, Steps, Acc, base, n)
<1> DEFINE D == 1 .. n
           pick == [s \in SUBSET D |-> Max(s)]
<1>1. \A s \in SUBSET D : s # {} => pick[s] \in s
  BY MaxOfPositions
<1>2. IsFiniteSet(D)
  BY FS_Interval
<1>3. PICK it : IsFold(it, D, base, Steps, pick)
  <2> HIDE DEF pick, D
  <2> QED BY <1>1, <1>2, FoldExists
<1>4. it[{}] = base /\ it = [s \in SUBSET D |-> it[s]]
  BY <1>3 DEF IsFold
<1>5. ASSUME NEW s \in SUBSET D, s # {}
      PROVE  it[s] = Steps[pick[s]][it[s \ {pick[s]}]]
  BY <1>3, <1>5 DEF IsFold
<1>6. ASSUME NEW s \in SUBSET D, s # {}, it[s \ {pick[s]}] \in Acc
      PROVE  it[s] \in Acc
  <2>1. pick[s] \in D
    BY <1>1, <1>6
  <2> HIDE DEF pick
  <2> QED BY <1>5, <1>6, <2>1 DEF StepsIn
<1>7. \A s \in SUBSET D : it[s] \in Acc
  <2> HIDE DEF pick, D
  <2>1. \A s \in SUBSET D : s # {} /\ it[s \ {pick[s]}] \in Acc => it[s] \in Acc
    BY <1>6, Zenon
  <2> QED BY <1>1, <1>2, <1>4, <2>1, FoldStays
<1>8. ASSUME NEW s \in SUBSET D, s # {}
      PROVE  /\ it[s \ {Max(s)}] \in Acc
             /\ it[s] = Steps[Max(s)][it[s \ {Max(s)}]]
  <2>1. pick[s] = Max(s) /\ s \ {Max(s)} \in SUBSET D
    OBVIOUS
  <2>2. it[s \ {Max(s)}] \in Acc
    BY <2>1, <1>7
  <2>3. it[s] = Steps[pick[s]][it[s \ {pick[s]}]]
    BY <1>5, <1>8
  <2> HIDE DEF pick
  <2> QED BY <2>1, <2>2, <2>3
<1> QED BY <1>4, <1>8 DEF Folds

LEMMA LeftFoldValue ==
  ASSUME NEW n \in Nat, NEW Acc, NEW base \in Acc, NEW Steps, StepsIn(Steps, Acc, n),
         NEW it, FoldsIn(it, Steps, Acc, base, n)
  PROVE  \E r : Results(r, Steps, Acc, base, n) /\ r[n] = it[1 .. n]
<1>0. /\ it[{}] = base
      /\ \A s \in SUBSET (1 .. n) : s # {} /\ it[s \ {Max(s)}] \in Acc =>
              it[s] = Steps[Max(s)][it[s \ {Max(s)}]]
  BY DEF FoldsIn
<1> DEFINE D == 1 .. n
           pick == [s \in SUBSET D |-> Max(s)]
<1>1. \A s \in SUBSET D : s # {} => pick[s] \in s
  BY MaxOfPositions
<1>2. IsFiniteSet(D)
  BY FS_Interval
<1>3. ASSUME NEW s \in SUBSET D, s # {}, it[s \ {pick[s]}] \in Acc
      PROVE  it[s] \in Acc
  <2>1. pick[s] \in D /\ pick[s] = Max(s)
    BY <1>1, <1>3
  <2>2. it[s] = Steps[pick[s]][it[s \ {pick[s]}]]
    BY <1>0, <2>1, <1>3
  <2> HIDE DEF pick
  <2> QED BY <2>1, <2>2, <1>3 DEF StepsIn
<1>4. \A s \in SUBSET D : it[s] \in Acc
  <2> HIDE DEF pick, D
  <2>1. \A s \in SUBSET D : s # {} /\ it[s \ {pick[s]}] \in Acc => it[s] \in Acc
    BY <1>3, Zenon
  <2> QED BY <1>0, <1>1, <1>2, <2>1, FoldStays
<1> DEFINE r == [k \in 0 .. n |-> it[1 .. k]]
<1>5. r \in [0 .. n -> Acc]
  <2>1. \A k \in 0 .. n : 1 .. k \in SUBSET D
    OBVIOUS
  <2> QED BY <2>1, <1>4
<1>6. r[0] = base
  <2>1. 1 .. 0 = {}
    OBVIOUS
  <2> QED BY <2>1, <1>0
<1>7. ASSUME NEW k \in 1 .. n PROVE r[k] = Steps[k][r[k - 1]]
  <2>1. 1 .. k \in SUBSET (1 .. n) /\ 1 .. k # {} /\ (1 .. k) \ {k} = 1 .. (k - 1)
    <3>1. k \in Nat /\ k >= 1 /\ k <= n
      OBVIOUS
    <3>2. \A x : x \in (1 .. k) \ {k} <=> x \in 1 .. (k - 1)
      BY <3>1
    <3>3. k \in 1 .. k /\ \A x \in 1 .. k : x \in 1 .. n
      BY <3>1
    <3> QED BY <3>2, <3>3
  <2>2. Max(1 .. k) = k
    BY MaxOfPositions
  <2>3. it[1 .. (k - 1)] \in Acc
    <3>1. 1 .. (k - 1) \in SUBSET D
      OBVIOUS
    <3> QED BY <3>1, <1>4
  <2>4. it[1 .. k] = Steps[k][it[1 .. (k - 1)]]
    <3> DEFINE t == 1 .. k
               u == 1 .. (k - 1)
    <3>1. t \in SUBSET (1 .. n) /\ t # {} /\ t \ {Max(t)} = u /\ Max(t) = k /\ it[u] \in Acc
      BY <2>1, <2>2, <2>3
    <3> HIDE DEF t, u
    <3>2. it[t] = Steps[k][it[u]]
      BY <1>0, <3>1
    <3> QED BY <3>2 DEF t, u
  <2>5. r[k] = it[1 .. k] /\ r[k - 1] = it[1 .. (k - 1)]
    OBVIOUS
  <2> QED BY <2>4, <2>5
<1>8. r[n] = it[1 .. n]
  OBVIOUS
<1> HIDE DEF r
<1> QED BY <1>5, <1>6, <1>7, <1>8 DEF Results

-----------------------------------------------------------------------------
(* The plan: types                                                         *)

Document == doc \in Seq([page : Nat, tokens : Nat])

LEMMA ChunksFinite ==
  ASSUME Document
  PROVE  /\ Chunks = 1 .. Len(doc) /\ Len(doc) \in Nat /\ IsFiniteSet(Chunks)
         /\ \A c \in Chunks : doc[c].tokens \in Nat /\ doc[c].page \in Nat /\ c \in Nat
<1>1. Chunks = 1 .. Len(doc) /\ Len(doc) \in Nat
  BY DEF Document, Chunks
<1>2. IsFiniteSet(Chunks)
  BY <1>1, FS_Interval
<1>3. ASSUME NEW c \in Chunks PROVE doc[c].tokens \in Nat /\ doc[c].page \in Nat /\ c \in Nat
  <2> DEFINE R == [page : Nat, tokens : Nat]
  <2>1. doc \in Seq(R) /\ c \in DOMAIN doc
    BY DEF Document, Chunks
  <2> HIDE DEF R
  <2>2. doc[c] \in R
    BY <2>1
  <2> QED BY <2>2, <1>1 DEF R
<1> QED BY <1>1, <1>2, <1>3

\* The tokens of chunks are a number, and so are the prompts made of them.
LEMMA TokensTyped ==
  ASSUME Document, NEW cs, cs \subseteq Chunks
  PROVE  TokensOf(cs) \in Nat
<1> DEFINE f == [c \in cs |-> doc[c].tokens]
<1>1. IsFiniteSet(cs) /\ f \in [cs -> Nat]
  BY ChunksFinite, FS_Subset
<1> HIDE DEF f
<1>2. Total(f) \in Nat
  BY <1>1, TotalNatural
<1> QED BY <1>2 DEF TokensOf, f

LEMMA Numbers ==
  /\ {Target, CardsPerRequest, RequestTarget, Concurrency,
      SummaryOutput, CallOutput, BaseOutput} \subseteq Nat \ {0}
  /\ GroupSize \in Nat \ {0, 1}
  /\ {RefillRounds, MaxInput, MaxOutput, InputPrice, OutputPrice, MaxCost, ContextWindow,
      CardOutput, Instructions, RefillReserve, CallRetries} \subseteq Nat
  /\ Drift \subseteq [in : Int, out : Int] /\ Offers \subseteq Nat
BY PipelineAssumption

LEMMA PromptsTyped ==
  ASSUME Document
  PROVE  /\ \A pack \in SUBSET Chunks : MapPrompt(pack) \in Nat
         /\ \A n \in Nat : ReducePrompt(n) \in Nat /\ Exclusions(n) \in Nat
         /\ \A batch, n : DOMAIN batch \subseteq Chunks /\ n \in Nat => CardPrompt(batch, n) \in Nat
<1>1. Instructions \in Nat /\ SummaryOutput \in Nat /\ RefillReserve \in Nat
  BY Numbers
<1>2. ASSUME NEW pack \in SUBSET Chunks PROVE MapPrompt(pack) \in Nat
  <2>1. TokensOf(pack) \in Nat
    BY TokensTyped
  <2> QED BY <1>1, <2>1 DEF MapPrompt
<1>3. ASSUME NEW n \in Nat PROVE ReducePrompt(n) \in Nat /\ Exclusions(n) \in Nat
  BY <1>1 DEF ReducePrompt, Exclusions, Least
<1>4. ASSUME NEW batch, NEW n, DOMAIN batch \subseteq Chunks /\ n \in Nat
      PROVE  CardPrompt(batch, n) \in Nat
  <2>1. TokensOf(DOMAIN batch) \in Nat
    BY <1>4, TokensTyped
  <2>2. TokensOf(Chunks) \in Nat
    BY TokensTyped
  <2>3. CASE Summarised
    <3>1. CardPrompt(batch, n) = Instructions + TokensOf(DOMAIN batch) + SummaryOutput + n
      BY <2>3 DEF CardPrompt
    <3> QED BY <3>1, <2>1, <1>1, <1>4
  <2>4. CASE ~Summarised
    <3>1. CardPrompt(batch, n) = Instructions + TokensOf(Chunks) + 0 + n
      BY <2>4 DEF CardPrompt
    <3> QED BY <3>1, <2>2, <1>1, <1>4
  <2> QED BY <2>3, <2>4
<1> QED BY <1>2, <1>3, <1>4

\* The packs are sets of chunks.
LEMMA PacksTyped ==
  ASSUME Document
  PROVE  Packs \in Seq(SUBSET Chunks)
<1> DEFINE n == Len(doc)
           Acc == Seq(SUBSET Chunks)
           S == [c \in Chunks |-> c]
           Steps == [k \in 1 .. n |-> [ps \in Acc |-> JoinPack(ps, k)]]
           IsPacking(it) ==
             it = [s \in SUBSET (DOMAIN S) |->
                     IF s = {} THEN <<>> ELSE JoinPack(it[s \ {Max(s)}], S[Max(s)])]
<1>0. n \in Nat /\ Chunks = 1 .. n /\ <<>> \in Acc
  BY ChunksFinite
<1>1. StepsIn(Steps, Acc, n)
  <2> SUFFICES ASSUME NEW k \in 1 .. n, NEW ps \in Acc PROVE JoinPack(ps, k) \in Acc
    BY DEF StepsIn
  <2>1. k \in Chunks
    BY <1>0
  <2>2. CASE ps # <<>> /\ MapPrompt(Last(ps) \cup {k}) <= RequestTarget
    <3>1. Len(ps) \in DOMAIN ps /\ ps[Len(ps)] \cup {k} \in SUBSET Chunks
      BY <2>1, <2>2
    <3>2. JoinPack(ps, k) = [ps EXCEPT ![Len(ps)] = @ \cup {k}]
      BY <2>2 DEF JoinPack
    <3> QED BY <3>1, <3>2
  <2>3. CASE ~(ps # <<>> /\ MapPrompt(Last(ps) \cup {k}) <= RequestTarget)
    <3>1. JoinPack(ps, k) = Append(ps, {k})
      BY <2>3 DEF JoinPack
    <3> QED BY <3>1, <2>1
  <2> QED BY <2>2, <2>3
<1>2. ASSUME NEW s \in SUBSET (1 .. n), s # {} PROVE Max(s) \in 1 .. n /\ S[Max(s)] = Max(s)
  BY <1>0, <1>2, MaxOfPositions
<1>3. \E it : IsPacking(it)
  <2>1. PICK it : Folds(it, Steps, Acc, <<>>, n)
    <3> HIDE DEF Steps, Acc, n
    <3> QED BY <1>0, <1>1, LeftFoldExists
  <2>2. ASSUME NEW s \in SUBSET (1 .. n), s # {}
        PROVE  it[s] = JoinPack(it[s \ {Max(s)}], S[Max(s)])
    <3>1. it[s \ {Max(s)}] \in Acc /\ it[s] = Steps[Max(s)][it[s \ {Max(s)}]]
      BY <2>1, <2>2 DEF Folds
    <3> QED BY <3>1, <1>2, <2>2
  <2>3. DOMAIN S = 1 .. n
    BY <1>0
  <2> HIDE DEF S
  <2>4. IsPacking(it)
    BY <2>1, <2>2, <2>3 DEF Folds
  <2> QED BY <2>4
<1> DEFINE it == CHOOSE g : IsPacking(g)
<1>4. IsPacking(it)
  BY <1>3
<1>5. Packs = it[DOMAIN S]
  BY Zenon DEF Packs, FoldLeft, MapThenFoldSet
<1>6. DOMAIN S = 1 .. n
  BY <1>0
<1> HIDE DEF it
<1>7. it[{}] = <<>>
  BY <1>4
<1>8. ASSUME NEW s \in SUBSET (1 .. n), s # {} /\ it[s \ {Max(s)}] \in Acc
      PROVE  it[s] = Steps[Max(s)][it[s \ {Max(s)}]]
  <2>1. it[s] = JoinPack(it[s \ {Max(s)}], S[Max(s)])
    <3> HIDE DEF S
    <3> QED BY <1>4, <1>6, <1>8
  <2> QED BY <2>1, <1>2, <1>8
<1>9. FoldsIn(it, Steps, Acc, <<>>, n)
  <2> HIDE DEF Steps, Acc
  <2> QED BY <1>7, <1>8 DEF FoldsIn
<1>10. PICK r : Results(r, Steps, Acc, <<>>, n) /\ r[n] = it[1 .. n]
  <2> HIDE DEF Steps, Acc, n
  <2> QED BY <1>0, <1>1, <1>9, LeftFoldValue
<1>11. r[n] \in Acc
  <2> HIDE DEF Acc
  <2> QED BY <1>0, <1>10 DEF Results
<1> QED BY <1>5, <1>6, <1>10, <1>11

LEMMA ResultsExist ==
  ASSUME NEW n \in Nat, NEW Acc, NEW base \in Acc, NEW Steps, StepsIn(Steps, Acc, n)
  PROVE  \E r : Results(r, Steps, Acc, base, n)
<1>1. PICK it : Folds(it, Steps, Acc, base, n)
  BY LeftFoldExists
<1>2. FoldsIn(it, Steps, Acc, base, n)
  BY <1>1 DEF Folds, FoldsIn
<1> QED BY <1>2, LeftFoldValue

\* The sum of a sequence: r are the sums of its first 0, 1, ..., n terms.
Sums(r, f, n) ==
  /\ r \in [0 .. n -> Int] /\ r[0] = 0
  /\ \A k \in 1 .. n : r[k] = r[k - 1] + f[k]

LEMMA SumsExist ==
  ASSUME NEW n \in Nat, NEW f, f \in [1 .. n -> Int]
  PROVE  \E r : Sums(r, f, n) /\ r[n] = Total(f)
<1> DEFINE D == 1 .. n
           r == [k \in 0 .. n |-> Total(Part(f, 1 .. k))]
<1>1. IsFiniteSet(D)
  BY FS_Interval
<1>2. f \in [D -> Int]
  OBVIOUS
<1>3. ASSUME NEW t \in SUBSET D PROVE Total(Part(f, t)) \in Int
  <2>1. IsFiniteSet(t)
    BY <1>1, FS_Subset
  <2>2. Part(f, t) \in [t -> Int]
    BY <1>2 DEF Part
  <2> QED BY ONLY <2>1, <2>2, TotalIsNumber
<1>4. r \in [0 .. n -> Int]
  <2>1. \A k \in 0 .. n : 1 .. k \in SUBSET D
    OBVIOUS
  <2> QED BY <2>1, <1>3
<1>5. r[0] = 0
  <2>1. 1 .. 0 = {}
    OBVIOUS
  <2> QED BY <2>1, TotalPart0
<1>6. ASSUME NEW k \in 1 .. n PROVE r[k] = r[k - 1] + f[k]
  <2> DEFINE a == 1 .. k
             b == 1 .. k - 1
  <2>1. a \in SUBSET D
    OBVIOUS
  <2>2. k \in a
    OBVIOUS
  <2>3. b = a \ {k}
    <3>1. \A x : x \in a \ {k} <=> x \in b
      OBVIOUS
    <3> QED BY <3>1
  <2>4. r[k] = Total(Part(f, a)) /\ r[k - 1] = Total(Part(f, b))
    OBVIOUS
  <2> HIDE DEF a, b, D, r
  <2>5. Total(Part(f, a)) = f[k] + Total(Part(f, b))
    <3>1. ASSUME NEW w, w \in a, b = a \ {w}
          PROVE  Total(Part(f, a)) = f[w] + Total(Part(f, b))
      BY ONLY <1>1, <1>2, <2>1, <3>1, TotalStep
    <3> QED BY <2>2, <2>3, <3>1, Zenon
  <2>6. f[k] \in Int
    OBVIOUS
  <2>7. r[k - 1] \in Int
    BY <1>4
  <2> QED BY <2>4, <2>5, <2>6, <2>7
<1>7. r[n] = Total(f)
  <2>1. r[n] = Total(Part(f, D))
    OBVIOUS
  <2> HIDE DEF D, r
  <2> QED BY <2>1, <1>2, PartAll
<1> HIDE DEF r
<1> QED BY <1>4, <1>5, <1>6, <1>7 DEF Sums

LEMMA SumsAre ==
  ASSUME NEW n \in Nat, NEW f, f \in [1 .. n -> Int], NEW r, Sums(r, f, n)
  PROVE  r[n] = Total(f)
<1>1. PICK q : Sums(q, f, n) /\ q[n] = Total(f)
  BY SumsExist
<1> DEFINE T == {k \in 0 .. n : r[k] # q[k]}
<1>2. SUFFICES ASSUME T # {} PROVE FALSE
  BY <1>1
<1>3. PICK k \in T : \A j \in T : k <= j
  <2>1. T \subseteq Nat
    OBVIOUS
  <2> HIDE DEF T
  <2> QED BY <1>2, <2>1, LeastNumber
<1>4. k # 0
  BY <1>1 DEF Sums
<1>5. k \in 1 .. n /\ k - 1 \in 0 .. n /\ k - 1 \notin T
  BY <1>3, <1>4
<1>6. r[k - 1] = q[k - 1]
  BY <1>5
<1>7. r[k] = r[k - 1] + f[k] /\ q[k] = q[k - 1] + f[k]
  BY <1>1, <1>5 DEF Sums
<1> QED BY <1>6, <1>7

\* The sum of a sequence that grows,
LEMMA TotalAppend ==
  ASSUME NEW s \in Seq(Int), NEW x \in Int
  PROVE  Total(Append(s, x)) = Total(s) + x
<1> DEFINE n == Len(s)
           f == Append(s, x)
<1>1. n \in Nat /\ s \in [1 .. n -> Int]
  OBVIOUS
<1>2. PICK q : Sums(q, s, n) /\ q[n] = Total(s)
  <2> HIDE DEF n
  <2> QED BY <1>1, SumsExist
<1>3. f \in [1 .. n + 1 -> Int] /\ f[n + 1] = x /\ \A k \in 1 .. n : f[k] = s[k]
  <2>1. f \in Seq(Int) /\ Len(f) = n + 1
    OBVIOUS
  <2>2. f \in [1 .. n + 1 -> Int]
    <3> HIDE DEF f, n
    <3> QED BY <2>1
  <2> QED BY <2>2
<1> HIDE DEF f, n
<1> DEFINE r == [k \in 0 .. n + 1 |-> IF k <= n THEN q[k] ELSE q[n] + x]
<1>4. r \in [0 .. n + 1 -> Int] /\ r[0] = 0
  BY <1>1, <1>2 DEF Sums
<1>5. \A k \in 1 .. n + 1 : r[k] = r[k - 1] + f[k]
  BY <1>1, <1>2, <1>3 DEF Sums
<1>6. r[n + 1] = q[n] + x
  BY <1>1
<1> HIDE DEF r
<1>7. Sums(r, f, n + 1)
  BY <1>4, <1>5 DEF Sums
<1>8. r[n + 1] = Total(f)
  BY <1>1, <1>3, <1>7, SumsAre
<1> QED BY <1>2, <1>6, <1>8 DEF f

\* and of one that loses its head.
LEMMA TotalTail ==
  ASSUME NEW s \in Seq(Int), s # <<>>
  PROVE  Total(s) = s[1] + Total(Tail(s))
<1> DEFINE n == Len(s)
           m == Len(s) - 1
           t == Tail(s)
<1>1. n \in Nat /\ m \in Nat /\ n = m + 1 /\ s \in [1 .. n -> Int] /\ s[1] \in Int
  OBVIOUS
<1>2. t \in [1 .. m -> Int] /\ \A k \in 1 .. m : t[k] = s[k + 1]
  <2>1. t \in Seq(Int) /\ Len(t) = m
    OBVIOUS
  <2>2. t \in [1 .. m -> Int]
    <3> HIDE DEF t, m
    <3> QED BY <2>1
  <2> QED BY <2>2
<1> HIDE DEF n, m, t
<1>3. PICK q : Sums(q, s, n) /\ q[n] = Total(s)
  BY <1>1, SumsExist
<1> DEFINE r == [k \in 0 .. m |-> q[k + 1] - s[1]]
<1>4. r \in [0 .. m -> Int]
  BY <1>1, <1>3 DEF Sums
<1>5. r[0] = 0
  <2>1. q[1] = q[0] + s[1]
    BY <1>1, <1>3 DEF Sums
  <2> QED BY <2>1, <1>1, <1>3 DEF Sums
<1>6. ASSUME NEW k \in 1 .. m PROVE r[k] = r[k - 1] + t[k]
  <2>1. k + 1 \in 1 .. n /\ k \in 0 .. n /\ (k + 1) - 1 = k /\ k - 1 \in 0 .. m /\ (k - 1) + 1 = k
    BY <1>1
  <2>2. q[k + 1] = q[k] + s[k + 1] /\ q[k] \in Int /\ s[k + 1] \in Int
    BY <2>1, <1>1, <1>3 DEF Sums
  <2>3. r[k] = q[k + 1] - s[1] /\ r[k - 1] = q[k] - s[1]
    BY <2>1
  <2> QED BY <2>2, <2>3, <1>1, <1>2
<1>7. r[m] = q[n] - s[1] /\ q[n] \in Int
  BY <1>1, <1>3 DEF Sums
<1> HIDE DEF r
<1>8. Sums(r, t, m)
  BY <1>4, <1>5, <1>6 DEF Sums
<1>9. r[m] = Total(t)
  BY <1>1, <1>2, <1>8, SumsAre
<1> QED BY <1>1, <1>3, <1>7, <1>9 DEF t

\* Sequences in a row.
LEMMA Flattened ==
  ASSUME NEW S, NEW seqs \in Seq(Seq(S))
  PROVE  /\ FlattenSeq(seqs) \in Seq(S)
         /\ Len(FlattenSeq(seqs)) = Total([i \in 1 .. Len(seqs) |-> Len(seqs[i])])
<1> DEFINE n == Len(seqs)
           lens == [i \in 1 .. n |-> Len(seqs[i])]
           Acc == Seq(S)
           Steps == [k \in 1 .. n |-> [a \in Acc |-> a \o seqs[k]]]
<1>1. n \in Nat /\ (\A k \in 1 .. n : seqs[k] \in Acc) /\ <<>> \in Acc
  OBVIOUS
<1>2. \A k \in 1 .. n : \A a \in Acc : Steps[k][a] = a \o seqs[k]
  OBVIOUS
<1>3. StepsIn(Steps, Acc, n)
  BY <1>1 DEF StepsIn
<1>4. lens \in [1 .. n -> Int] /\ IsFiniteSet(1 .. n)
  BY <1>1, FS_Interval
<1>5. PICK r : Results(r, Steps, Acc, <<>>, n)
  <2> HIDE DEF Steps, Acc, n
  <2> QED BY <1>1, <1>3, ResultsExist
<1>6. /\ \A k \in 0 .. n : r[k] \in Acc
      /\ r[0] = <<>> /\ \A k \in 1 .. n : r[k] = r[k - 1] \o seqs[k]
  <2>1. \A k \in 0 .. n : r[k] \in Acc
    <3> HIDE DEF Acc
    <3> QED BY <1>5 DEF Results
  <2>2. ASSUME NEW k \in 1 .. n PROVE r[k] = r[k - 1] \o seqs[k]
    <3>1. k - 1 \in 0 .. n
      OBVIOUS
    <3>2. r[k] = Steps[k][r[k - 1]] /\ r[k - 1] \in Acc
      BY <1>5, <2>1, <3>1 DEF Results
    <3> QED BY <3>2, <1>2
  <2> QED BY <1>5, <2>1, <2>2 DEF Results
<1> HIDE DEF Steps
<1>7. CASE n = 0
  <2>1. FlattenSeq(seqs) = seqs /\ seqs = <<>>
    BY <1>7 DEF FlattenSeq
  <2>2. DOMAIN lens = {}
    BY <1>7
  <2> HIDE DEF lens
  <2>3. Total(lens) = 0
    BY <2>2, TotalEmpty
  <2> QED BY <2>1, <2>3 DEF lens
<1>8. CASE n # 0
  <2> DEFINE IsFlat(g) == g = [i \in 1 .. n |-> IF i = 1 THEN seqs[i] ELSE g[i - 1] \o seqs[i]]
             flat == CHOOSE g : IsFlat(g)
  <2>0. r[1] = seqs[1]
    <3>1. 1 \in 1 .. n /\ 1 - 1 = 0
      BY <1>1, <1>8
    <3>2. seqs[1] \in Seq(S) /\ r[1] = r[0] \o seqs[1] /\ r[0] = <<>>
      <4> HIDE DEF n
      <4> QED BY <1>1, <1>6, <3>1
    <3>3. <<>> \o seqs[1] = seqs[1]
      BY ONLY <3>2
    <3> QED BY <3>2, <3>3
  <2>1. \E g : IsFlat(g)
    <3> DEFINE g == [i \in 1 .. n |-> r[i]]
    <3>1. ASSUME NEW i \in 1 .. n
          PROVE  g[i] = IF i = 1 THEN seqs[i] ELSE g[i - 1] \o seqs[i]
      <4>1. CASE i = 1
        <5> QED BY <4>1, <2>0
      <4>2. CASE i # 1
        <5>1. i - 1 \in 1 .. n
          BY <4>2
        <5> QED BY <1>6, <4>2, <5>1
      <4> QED BY <4>1, <4>2
    <3>2. IsFlat(g)
      BY <3>1
    <3> QED BY <3>2
  <2>2. IsFlat(flat)
    BY <2>1
  <2>3. FlattenSeq(seqs) = flat[n]
    BY <1>8, Zenon DEF FlattenSeq
  <2> HIDE DEF flat
  <2> DEFINE T == {i \in 1 .. n : flat[i] # r[i]}
  <2>4. T = {}
    <3> SUFFICES ASSUME T # {} PROVE FALSE
      OBVIOUS
    <3>1. PICK i \in T : \A j \in T : i <= j
      <4>1. T \subseteq Nat
        OBVIOUS
      <4> HIDE DEF T
      <4> QED BY <4>1, LeastNumber
    <3>2. CASE i = 1
      <4> QED BY <2>2, <3>2, <2>0
    <3>3. CASE i # 1
      <4>1. i - 1 \in 1 .. n /\ i - 1 \notin T
        BY <3>1, <3>3
      <4>2. flat[i - 1] = r[i - 1]
        BY <4>1
      <4> QED BY <2>2, <1>6, <3>3, <4>2, ZenonT(60)
    <3> QED BY <3>2, <3>3
  <2>5. FlattenSeq(seqs) = r[n] /\ r[n] \in Seq(S)
    <3>1. n \in 0 .. n /\ n \in 1 .. n
      BY <1>1, <1>8
    <3> HIDE DEF n
    <3>2. flat[n] = r[n]
      BY <2>4, <3>1
    <3> QED BY <1>6, <2>3, <3>1, <3>2
  <2> DEFINE q == [k \in 0 .. n |-> Len(r[k])]
  <2>6. q \in [0 .. n -> Int] /\ q[0] = 0 /\ q[n] = Len(r[n])
    BY <1>1, <1>6
  <2>7. ASSUME NEW k \in 1 .. n PROVE q[k] = q[k - 1] + lens[k]
    <3>1. k - 1 \in 0 .. n /\ k \in 0 .. n
      OBVIOUS
    <3>2. r[k - 1] \in Seq(S) /\ seqs[k] \in Seq(S) /\ r[k] = r[k - 1] \o seqs[k]
      BY <1>1, <1>6, <3>1
    <3>3. Len(r[k]) = Len(r[k - 1]) + Len(seqs[k])
      BY ONLY <3>2
    <3>4. q[k] = Len(r[k]) /\ q[k - 1] = Len(r[k - 1]) /\ lens[k] = Len(seqs[k])
      BY <3>1
    <3> QED BY <3>3, <3>4
  <2> HIDE DEF q, lens, n
  <2>8. Sums(q, lens, n)
    BY <2>6, <2>7 DEF Sums
  <2>9. q[n] = Total(lens)
    BY <1>1, <1>4, <2>8, SumsAre
  <2> QED BY <2>5, <2>6, <2>9 DEF lens, n
<1> QED BY <1>7, <1>8

-----------------------------------------------------------------------------
(* Orders and ranks                                                        *)

\* Lower orders the sequences of a length.
LEMMA LowerOrder ==
  ASSUME NEW m \in Nat, NEW s, s \in [1 .. m -> Int],
         NEW t, t \in [1 .. m -> Int], NEW u, u \in [1 .. m -> Int]
  PROVE  /\ ~Lower(s, s)
         /\ Lower(s, t) /\ Lower(t, u) => Lower(s, u)
         /\ s # t => Lower(s, t) \/ Lower(t, s)
<1>1. ~Lower(s, s)
  BY DEF Lower
<1>2. ASSUME Lower(s, t), Lower(t, u) PROVE Lower(s, u)
  <2>1. PICK i \in 1 .. m : s[i] < t[i] /\ \A k \in 1 .. i - 1 : s[k] = t[k]
    BY <1>2 DEF Lower
  <2>2. PICK j \in 1 .. m : t[j] < u[j] /\ \A k \in 1 .. j - 1 : t[k] = u[k]
    BY <1>2 DEF Lower
  <2>3. CASE i < j
    <3>1. s[i] < u[i] /\ \A k \in 1 .. i - 1 : s[k] = u[k]
      BY <2>1, <2>2, <2>3
    <3> QED BY <3>1 DEF Lower
  <2>4. CASE i = j
    <3>1. s[i] < u[i] /\ \A k \in 1 .. i - 1 : s[k] = u[k]
      BY <2>1, <2>2, <2>4
    <3> QED BY <3>1 DEF Lower
  <2>5. CASE j < i
    <3>1. s[j] < u[j] /\ \A k \in 1 .. j - 1 : s[k] = u[k]
      BY <2>1, <2>2, <2>5
    <3> QED BY <3>1 DEF Lower
  <2> QED BY <2>3, <2>4, <2>5
<1>3. ASSUME s # t PROVE Lower(s, t) \/ Lower(t, s)
  <2> DEFINE T == {k \in 1 .. m : s[k] # t[k]}
  <2>1. T \subseteq Nat /\ T # {}
    BY <1>3, SMTT(30)
  <2>2. PICK i \in T : \A k \in T : i <= k
    <3> HIDE DEF T
    <3> QED BY <2>1, LeastNumber
  <2>3. i \in 1 .. m /\ s[i] # t[i] /\ \A k \in 1 .. i - 1 : s[k] = t[k]
    BY <2>2
  <2>4. s[i] < t[i] \/ t[i] < s[i]
    BY <2>3
  <2> HIDE DEF T
  <2> QED BY <2>3, <2>4 DEF Lower
<1> QED BY <1>1, <1>2, <1>3

\* below tells of every member of D which are before it.
Ordered(below, D) ==
  /\ below \in [D -> SUBSET D]
  /\ \A c \in D : c \notin below[c]
  /\ \A c, d \in D : d \in below[c] => below[d] \subseteq below[c]
  /\ \A c, d \in D : c # d => c \in below[d] \/ d \in below[c]

\* Those with distinct keys are in order,
OrderedByKey(below, key, D) == below = [c \in D |-> {d \in D : Lower(key[d], key[c])}]

LEMMA KeysOrder ==
  ASSUME NEW D, NEW m \in Nat, NEW key, key \in [D -> [1 .. m -> Int]],
         \A c, d \in D : key[c] = key[d] => c = d,
         NEW below, OrderedByKey(below, key, D)
  PROVE  Ordered(below, D)
<1>1. below \in [D -> SUBSET D]
  BY DEF OrderedByKey
<1>2. \A c, d \in D : d \in below[c] <=> Lower(key[d], key[c])
  BY DEF OrderedByKey
<1>3. \A c \in D : key[c] \in [1 .. m -> Int]
  OBVIOUS
<1>4. \A c \in D : c \notin below[c]
  BY <1>2, <1>3, LowerOrder
<1>5. ASSUME NEW c \in D, NEW d \in D, d \in below[c] PROVE below[d] \subseteq below[c]
  <2> SUFFICES ASSUME NEW e \in below[d] PROVE e \in below[c]
    OBVIOUS
  <2>1. e \in D
    BY <1>1
  <2>2. Lower(key[e], key[d]) /\ Lower(key[d], key[c])
    BY <1>2, <1>5, <2>1
  <2>3. Lower(key[e], key[c])
    BY <1>3, <2>1, <2>2, LowerOrder
  <2> QED BY <1>2, <2>1, <2>3
<1>6. ASSUME NEW c \in D, NEW d \in D, c # d PROVE c \in below[d] \/ d \in below[c]
  <2>1. key[c] # key[d]
    BY <1>6
  <2>2. Lower(key[c], key[d]) \/ Lower(key[d], key[c])
    BY <1>3, <2>1, LowerOrder
  <2> QED BY <1>2, <2>2
<1> QED BY <1>1, <1>4, <1>5, <1>6 DEF Ordered

\* and their ranks are distinct: 0, 1, and so on.
LEMMA RanksDiffer ==
  ASSUME NEW D, IsFiniteSet(D), NEW below, Ordered(below, D)
  PROVE  /\ \A c \in D : Cardinality(below[c]) \in 0 .. Cardinality(D) - 1
         /\ \A c, d \in D : Cardinality(below[c]) = Cardinality(below[d]) => c = d
<1>1. ASSUME NEW s \in SUBSET D, NEW t \in SUBSET D, s \subseteq t, s # t
      PROVE  Cardinality(s) < Cardinality(t)
  <2>1. IsFiniteSet(t) /\ s \in SUBSET t
    BY <1>1, FS_Subset
  <2>2. IsFiniteSet(s) /\ Cardinality(s) <= Cardinality(t) /\ Cardinality(s) # Cardinality(t)
    BY <1>1, <2>1, FS_Subset
  <2>3. Cardinality(s) \in Nat /\ Cardinality(t) \in Nat
    BY <2>1, <2>2, FS_CardinalityType
  <2> QED BY <2>2, <2>3
<1>2. \A c \in D : below[c] \in SUBSET D
  BY DEF Ordered
<1>3. ASSUME NEW c \in D PROVE Cardinality(below[c]) \in 0 .. Cardinality(D) - 1
  <2>1. Cardinality(below[c]) < Cardinality(D)
    BY <1>1, <1>2 DEF Ordered
  <2>2. IsFiniteSet(below[c])
    BY <1>2, FS_Subset
  <2>3. Cardinality(below[c]) \in Nat /\ Cardinality(D) \in Nat
    BY <2>2, FS_CardinalityType
  <2> QED BY <2>1, <2>3
<1>4. ASSUME NEW c \in D, NEW d \in D, d \in below[c]
      PROVE  Cardinality(below[d]) < Cardinality(below[c])
  <2>1. below[d] \subseteq below[c] /\ d \notin below[d]
    BY <1>4 DEF Ordered
  <2> QED BY <1>1, <1>2, <1>4, <2>1
<1>5. ASSUME NEW c \in D, NEW d \in D, Cardinality(below[c]) = Cardinality(below[d]), c # d
      PROVE  FALSE
  <2>1. c \in below[d] \/ d \in below[c]
    BY <1>5 DEF Ordered
  <2>2. Cardinality(below[c]) \in Int
    BY <1>3
  <2> QED BY <1>4, <1>5, <2>1, <2>2
<1> QED BY <1>3, <1>5

LEMMA RanksCount ==
  ASSUME NEW D, IsFiniteSet(D), NEW below, Ordered(below, D),
         NEW r \in 0 .. Cardinality(D),
         NEW T, T = {c \in D : Cardinality(below[c]) < r}
  PROVE  Cardinality(T) = r
<1> DEFINE n == Cardinality(D)
           I == 0 .. n - 1
           rank == [c \in D |-> Cardinality(below[c])]
           J == 0 .. r - 1
           part == [c \in T |-> rank[c]]
<1>1. n \in Nat /\ r \in Nat /\ r <= n
  BY FS_CardinalityType
<1>2. IsFiniteSet(I) /\ Cardinality(I) = n /\ IsFiniteSet(J) /\ Cardinality(J) = r
  <2> HIDE DEF n
  <2>0. n - 1 \in Int /\ r - 1 \in Int
    BY <1>1
  <2>1. IsFiniteSet(I) /\ Cardinality(I) = IF 0 > n - 1 THEN 0 ELSE (n - 1) - 0 + 1
    BY <2>0, FS_Interval, SMTT(30)
  <2>2. IsFiniteSet(J) /\ Cardinality(J) = IF 0 > r - 1 THEN 0 ELSE (r - 1) - 0 + 1
    BY <2>0, FS_Interval, SMTT(30)
  <2> QED BY <1>1, <2>1, <2>2
<1>3. rank \in [D -> I] /\ \A c, d \in D : rank[c] = rank[d] => c = d
  BY RanksDiffer
<1>4. rank \in Injection(D, I)
  <2> HIDE DEF rank, I
  <2> QED BY <1>3 DEF Injection, IsInjective
<1>5. \A k \in I : \E c \in D : rank[c] = k
  <2> HIDE DEF rank, I
  <2>1. rank \in Surjection(D, I)
    BY <1>2, <1>4, FS_Injection DEF n
  <2> QED BY <2>1 DEF Surjection
<1>6. \A c \in D : c \in T <=> rank[c] < r
  OBVIOUS
<1> HIDE DEF rank
<1>7. part \in [T -> J] /\ (\A k \in J : \E c \in T : part[c] = k)
      /\ \A c, d \in T : part[c] = part[d] => c = d
  <2>1. ASSUME NEW c \in T PROVE part[c] \in J
    <3>1. c \in D /\ rank[c] \in I /\ rank[c] < r
      BY <1>3, <1>6
    <3> QED BY <3>1, <1>1
  <2>2. ASSUME NEW k \in J PROVE \E c \in T : part[c] = k
    <3>1. k \in I /\ k < r
      BY <1>1
    <3>2. PICK c \in D : rank[c] = k
      BY <1>5, <3>1
    <3>3. c \in T
      BY <1>6, <3>1, <3>2
    <3> QED BY <3>2, <3>3
  <2>3. ASSUME NEW c \in T, NEW d \in T, part[c] = part[d] PROVE c = d
    <3>1. c \in D /\ d \in D /\ rank[c] = rank[d]
      BY <2>3
    <3> QED BY <1>3, <3>1
  <2> QED BY <2>1, <2>2, <2>3
<1> HIDE DEF part, J
<1>8. part \in Injection(T, J) /\ part \in Surjection(T, J)
  BY <1>7 DEF Injection, IsInjective, Surjection
<1>9. Cardinality(T) = Cardinality(J)
  BY <1>2, <1>8, FS_Injection
<1> QED BY <1>2, <1>9

\* The sum of equal terms, and the number of those chosen.
LEMMA TotalConstant ==
  ASSUME NEW D, IsFiniteSet(D), NEW q \in Int, NEW f, f = [x \in D |-> q]
  PROVE  Total(f) = q * Cardinality(D)
<1> DEFINE B == {s \in SUBSET D : Total(Part(f, s)) # q * Cardinality(s)}
<1>0. f \in [D -> Int]
  OBVIOUS
<1>1. SUFFICES ASSUME B # {} PROVE FALSE
  BY <1>0, PartAll
<1>2. PICK s \in B : \A y \in s : s \ {y} \notin B
  <2>1. B \subseteq SUBSET D
    OBVIOUS
  <2> HIDE DEF B
  <2> QED BY <1>1, <2>1, MinimalSet
<1>3. s # {}
  BY TotalPart0, FS_EmptySet
<1>4. PICK w \in s : TRUE
  BY <1>3
<1> DEFINE r == s \ {w}
<1>5. Total(Part(f, r)) = q * Cardinality(r)
  BY <1>2, <1>4
<1>6. f[w] = q
  OBVIOUS
<1>7. s \in SUBSET D /\ w \in s /\ r = s \ {w}
  BY <1>4
<1>8. Total(Part(f, s)) # q * Cardinality(s)
  OBVIOUS
<1>9. Cardinality(r) = Cardinality(s) - 1 /\ Cardinality(s) \in Nat
  BY FS_Subset, FS_RemoveElement, FS_CardinalityType
<1> HIDE DEF r, B
<1>10. Total(Part(f, s)) = f[w] + Total(Part(f, r))
  BY <1>0, <1>7, TotalStep
<1>11. q + q * (Cardinality(s) - 1) = q * Cardinality(s)
  BY <1>9
<1> QED BY <1>5, <1>6, <1>8, <1>9, <1>10, <1>11

LEMMA TotalChosen ==
  ASSUME NEW D, IsFiniteSet(D), NEW T, T \subseteq D,
         NEW f, f = [x \in D |-> IF x \in T THEN 1 ELSE 0]
  PROVE  Total(f) = Cardinality(T)
<1> DEFINE B == {s \in SUBSET D : Total(Part(f, s)) # Cardinality(s \cap T)}
<1>0. f \in [D -> Int]
  OBVIOUS
<1>1. SUFFICES ASSUME B # {} PROVE FALSE
  <2>1. D \cap T = T /\ D \notin B
    BY <1>1
  <2> QED BY <1>0, <2>1, PartAll
<1>2. PICK s \in B : \A y \in s : s \ {y} \notin B
  <2>1. B \subseteq SUBSET D
    OBVIOUS
  <2> HIDE DEF B
  <2> QED BY <1>1, <2>1, MinimalSet
<1>3. s # {}
  <2>1. {} \cap T = {}
    OBVIOUS
  <2> QED BY <2>1, TotalPart0, FS_EmptySet
<1>4. PICK w \in s : TRUE
  BY <1>3
<1> DEFINE r == s \ {w}
           a == s \cap T
           b == r \cap T
<1>5. Total(Part(f, r)) = Cardinality(b)
  BY <1>2, <1>4
<1>6. f[w] = IF w \in T THEN 1 ELSE 0
  OBVIOUS
<1>7. s \in SUBSET D /\ w \in s /\ r = s \ {w}
  BY <1>4
<1>8. Total(Part(f, s)) # Cardinality(a)
  OBVIOUS
<1>9. IsFiniteSet(a)
  BY FS_Subset
<1>10. Cardinality(b) = (IF w \in T THEN Cardinality(a) - 1 ELSE Cardinality(a))
       /\ Cardinality(a) \in Nat
  <2>1. b = a \ {w} /\ (w \in a <=> w \in T)
    BY <1>4
  <2> HIDE DEF a, b, r, B
  <2> QED BY <1>9, <2>1, FS_RemoveElement, FS_CardinalityType
<1> HIDE DEF a, b, r, B
<1>11. Total(Part(f, s)) = f[w] + Total(Part(f, r))
  BY <1>0, <1>7, TotalStep
<1> QED BY <1>5, <1>6, <1>8, <1>10, <1>11

\* An allocation gives every missing card to a chunk, and no more.
LEMMA TurnsDiffer ==
  ASSUME Document, NEW asked \in [Chunks -> Nat],
         NEW c \in Chunks, NEW d \in Chunks, doc[c].page = doc[d].page,
         Cardinality({e \in Chunks : /\ doc[e].page = doc[c].page
                                     /\ Lower(<<asked[e], e>>, <<asked[c], c>>)})
         = Cardinality({e \in Chunks : /\ doc[e].page = doc[d].page
                                       /\ Lower(<<asked[e], e>>, <<asked[d], d>>)})
  PROVE  c = d
<1> DEFINE D == {e \in Chunks : doc[e].page = doc[c].page}
           key == [e \in D |-> <<asked[e], e>>]
           below == [x \in D |-> {e \in D : Lower(key[e], key[x])}]
<1>1. IsFiniteSet(D)
  BY ChunksFinite, FS_Subset
<1>2. \A e \in Chunks : e \in Nat
  BY ChunksFinite
<1>3. key \in [D -> [1 .. 2 -> Int]]
  <2> SUFFICES ASSUME NEW e \in D PROVE <<asked[e], e>> \in [1 .. 2 -> Int]
    OBVIOUS
  <2>1. asked[e] \in Int /\ e \in Int
    BY <1>2
  <2> QED BY <2>1
<1>4. \A x, y \in D : key[x] = key[y] => x = y
  OBVIOUS
<1>5. \A x \in D : below[x] = {e \in Chunks : /\ doc[e].page = doc[x].page
                                              /\ Lower(<<asked[e], e>>, <<asked[x], x>>)}
  <2> SUFFICES ASSUME NEW x \in D
               PROVE  below[x] = {e \in Chunks : /\ doc[e].page = doc[x].page
                                                 /\ Lower(<<asked[e], e>>, <<asked[x], x>>)}
    OBVIOUS
  <2>1. below[x] = {e \in D : Lower(<<asked[e], e>>, <<asked[x], x>>)}
    OBVIOUS
  <2> QED BY <2>1
<1>6. c \in D /\ d \in D
  OBVIOUS
<1>7. Ordered(below, D)
  <2>1. OrderedByKey(below, key, D)
    BY DEF OrderedByKey
  <2> HIDE DEF below, key, D
  <2> QED BY <1>3, <1>4, <2>1, KeysOrder
<1>8. Cardinality(below[c]) = Cardinality(below[d])
  BY <1>5, <1>6
<1> HIDE DEF below, D
<1> QED BY <1>1, <1>6, <1>7, <1>8, RanksDiffer

LEMMA Division ==
  ASSUME NEW m \in Nat, NEW n \in Nat \ {0}
  PROVE  m \div n \in Nat /\ m % n \in 0 .. n - 1 /\ m = n * (m \div n) + (m % n)
OBVIOUS

LEMMA AllocationExact ==
  ASSUME Document, doc # <<>>, NEW missing \in Nat,
         NEW asked \in [Chunks -> Nat], NEW got \in [Chunks -> Nat]
  PROVE  /\ Allocation(missing, asked, got) \in [Chunks -> Nat]
         /\ Total(Allocation(missing, asked, got)) = missing
<1> DEFINE Turn(c) == Cardinality({d \in Chunks : /\ doc[d].page = doc[c].page
                                                  /\ Lower(<<asked[d], d>>, <<asked[c], c>>)})
           Key(c) == IF asked[c] = 0 THEN <<0, 0, 0, Turn(c), doc[c].page>>
                     ELSE <<1, -got[c], asked[c], Turn(c), doc[c].page>>
           Place(c) == Cardinality({d \in Chunks : Lower(Key(d), Key(c))})
           n == Len(doc)
           q == missing \div n
           r == missing % n
           h == [c \in Chunks |-> (missing \div Len(doc)) + (IF Place(c) < missing % Len(doc) THEN 1 ELSE 0)]
<1>1. Allocation(missing, asked, got) = h
  BY Zenon DEF Allocation
<1>2. /\ n \in Nat \ {0} /\ Chunks = 1 .. n /\ IsFiniteSet(Chunks) /\ Cardinality(Chunks) = n
      /\ \A c \in Chunks : doc[c].page \in Nat
  <2>1. /\ n \in Nat /\ Chunks = 1 .. n /\ IsFiniteSet(Chunks)
        /\ \A c \in Chunks : doc[c].page \in Nat
    BY ChunksFinite
  <2>2. n # 0
    BY DEF Document
  <2>3. Cardinality(Chunks) = n
    BY <2>1, <2>2, FS_Interval
  <2> QED BY <2>1, <2>2, <2>3
<1>3. \A c \in Chunks : Turn(c) \in Nat
  <2> SUFFICES ASSUME NEW c \in Chunks PROVE Turn(c) \in Nat
    OBVIOUS
  <2> DEFINE T == {d \in Chunks : /\ doc[d].page = doc[c].page
                                  /\ Lower(<<asked[d], d>>, <<asked[c], c>>)}
  <2>1. T \in SUBSET Chunks /\ Turn(c) = Cardinality(T)
    OBVIOUS
  <2> HIDE DEF T, Turn
  <2>2. IsFiniteSet(T)
    BY <1>2, <2>1, FS_Subset
  <2>3. Cardinality(T) \in Nat
    BY <2>2, FS_CardinalityType
  <2> QED BY <2>1, <2>3
<1>4. \A c, d \in Chunks : doc[c].page = doc[d].page /\ Turn(c) = Turn(d) => c = d
  BY TurnsDiffer, SMTT(30)
<1> HIDE DEF Turn
<1> DEFINE key == [c \in Chunks |-> Key(c)]
           below == [c \in Chunks |-> {d \in Chunks : Lower(key[d], key[c])}]
           T == {c \in Chunks : Cardinality(below[c]) < r}
           f == [c \in Chunks |-> IF c \in T THEN 1 ELSE 0]
           g == [c \in Chunks |-> q]
<1>5. key \in [Chunks -> [1 .. 5 -> Int]]
  <2> SUFFICES ASSUME NEW c \in Chunks PROVE Key(c) \in [1 .. 5 -> Int]
    OBVIOUS
  <2>1. Turn(c) \in Int /\ doc[c].page \in Int /\ asked[c] \in Int /\ got[c] \in Int
    BY <1>2, <1>3
  <2>2. CASE asked[c] = 0
    BY <2>1, <2>2
  <2>3. CASE asked[c] # 0
    BY <2>1, <2>3
  <2> QED BY <2>2, <2>3
<1>6. ASSUME NEW c \in Chunks, NEW d \in Chunks, key[c] = key[d] PROVE c = d
  <2>1. \A x \in Chunks : Key(x)[4] = Turn(x) /\ Key(x)[5] = doc[x].page
    OBVIOUS
  <2>2. Key(c) = Key(d)
    BY <1>6
  <2> HIDE DEF Key
  <2>3. Turn(c) = Turn(d) /\ doc[c].page = doc[d].page
    BY <2>1, <2>2
  <2> QED BY <2>3, <1>4
<1>7. Ordered(below, Chunks)
  <2>1. OrderedByKey(below, key, Chunks)
    BY DEF OrderedByKey
  <2> HIDE DEF below, key
  <2> QED BY <1>5, <1>6, <2>1, KeysOrder
<1>8. \A c \in Chunks : Place(c) = Cardinality(below[c])
  <2> SUFFICES ASSUME NEW c \in Chunks PROVE Place(c) = Cardinality(below[c])
    OBVIOUS
  <2>1. {d \in Chunks : Lower(Key(d), Key(c))} = below[c]
    <3> HIDE DEF Key
    <3> QED OBVIOUS
  <2> QED BY <2>1
<1> HIDE DEF below, Place
<1>9. q \in Nat /\ r \in 0 .. n - 1 /\ missing = n * q + r
  <2> HIDE DEF n
  <2> QED BY <1>2, Division
<1>10. Cardinality(T) = r
  <2>1. r \in 0 .. Cardinality(Chunks) /\ T = {c \in Chunks : Cardinality(below[c]) < r}
    BY <1>2, <1>9
  <2> HIDE DEF r, T
  <2> QED BY <1>2, <1>7, <2>1, RanksCount, SMTT(30)
<1>11. \A c \in Chunks : h[c] = q + f[c]
  BY <1>8
<1>12. f \in [Chunks -> Int] /\ g \in [Chunks -> Int] /\ T \subseteq Chunks
  BY <1>9
<1>13. h \in [Chunks -> Nat]
  BY <1>9
<1>14. Total(f) = r
  <2>1. f = [c \in Chunks |-> IF c \in T THEN 1 ELSE 0]
    OBVIOUS
  <2> HIDE DEF f, T, r
  <2> QED BY <1>2, <1>10, <1>12, <2>1, TotalChosen
<1>15. Total(g) = q * n
  <2>1. g = [c \in Chunks |-> q] /\ q \in Int
    BY <1>9
  <2> HIDE DEF g, q, n
  <2> QED BY <1>2, <2>1, TotalConstant
<1>16. Total(h) = Total(f) + Total(g)
  <2>1. Adds(h, f, g, Chunks)
    <3>1. \A c \in Chunks : g[c] = q /\ f[c] \in Int
      BY <1>12
    <3> HIDE DEF f, g, h, q, r, n
    <3> QED BY <1>9, <1>11, <3>1 DEF Adds
  <2>2. h \in [Chunks -> Int]
    <3> HIDE DEF h
    <3> QED BY <1>13
  <2> HIDE DEF h, f, g
  <2>3. f \in [Chunks -> Int]
    BY <1>12
  <2>4. g \in [Chunks -> Int]
    BY <1>12
  <2>5. IsFiniteSet(Chunks)
    BY <1>2
  <2> QED BY ONLY <2>1, <2>2, <2>3, <2>4, <2>5, TotalPlus
<1>17. Total(h) = missing
  <2> HIDE DEF h, f, g, q, r, n
  <2> QED BY <1>2, <1>9, <1>14, <1>15, <1>16
<1> QED BY <1>1, <1>13, <1>17

-----------------------------------------------------------------------------
(* The sum of what the members of a sequence weigh                         *)

SumBy(w, s) == Total([i \in DOMAIN s |-> w[s[i]]])

\* f are the terms of the sum.
Terms(f, w, s) ==
  /\ f \in Seq(Int) /\ f \in [1 .. Len(s) -> Nat] /\ Len(f) = Len(s)
  /\ \A i \in 1 .. Len(s) : f[i] = w[s[i]]
  /\ SumBy(w, s) = Total(f)

LEMMA SumByIsTotal ==
  ASSUME NEW S, NEW w, w \in [S -> Nat], NEW s, s \in Seq(S)
  PROVE  \E f : Terms(f, w, s)
<1> DEFINE f == [i \in DOMAIN s |-> w[s[i]]]
           n == Len(s)
<1>1. n \in Nat /\ DOMAIN s = 1 .. n /\ \A i \in 1 .. n : s[i] \in S
  OBVIOUS
<1>2. \A i \in 1 .. n : w[s[i]] \in Nat
  BY <1>1
<1>3. f = [i \in 1 .. n |-> w[s[i]]]
  BY <1>1
<1>4. f \in [1 .. n -> Nat] /\ \A i \in 1 .. n : f[i] = w[s[i]]
  BY <1>2, <1>3
<1>5. SumBy(w, s) = Total(f)
  BY Zenon DEF SumBy
<1> HIDE DEF f
<1>7. f \in Seq(Int) /\ Len(f) = n
  BY <1>1, <1>4
<1> QED BY <1>4, <1>5, <1>7 DEF Terms

LEMMA SumNatural ==
  ASSUME NEW S, NEW w, w \in [S -> Nat], NEW s, s \in Seq(S)
  PROVE  /\ SumBy(w, s) \in Nat
         /\ \A i \in DOMAIN s : w[s[i]] <= SumBy(w, s)
<1>1. PICK f : Terms(f, w, s)
  BY SumByIsTotal
<1> USE DEF Terms
<1>2. IsFiniteSet(1 .. Len(s)) /\ DOMAIN s = 1 .. Len(s)
  BY FS_Interval
<1>3. Total(f) \in Nat /\ \A i \in 1 .. Len(s) : f[i] <= Total(f)
  <2> DEFINE D == 1 .. Len(s)
  <2>1. IsFiniteSet(D) /\ f \in [D -> Nat]
    BY <1>1, <1>2
  <2> HIDE DEF D
  <2>2. Total(f) \in Nat /\ \A i \in D : f[i] <= Total(f)
    BY <2>1, TotalNatural
  <2> QED BY <2>2 DEF D
<1> QED BY <1>1, <1>2, <1>3

LEMMA SumEmpty == ASSUME NEW w PROVE SumBy(w, <<>>) = 0
<1> DEFINE f == [i \in DOMAIN <<>> |-> w[<<>>[i]]]
<1>1. DOMAIN f = {}
  OBVIOUS
<1> HIDE DEF f
<1>2. Total(f) = 0
  BY <1>1, TotalEmpty
<1> QED BY <1>2 DEF SumBy, f

Grows(t, s, x) == t = Append(s, x)
Alters(t, s, k, x) == t = [s EXCEPT ![k] = x]

LEMMA SumAppend ==
  ASSUME NEW S, NEW w, w \in [S -> Nat], NEW s, s \in Seq(S), NEW x, x \in S,
         NEW t, Grows(t, s, x)
  PROVE  SumBy(w, t) = SumBy(w, s) + w[x]
<1>0. t \in Seq(S) /\ Len(t) = Len(s) + 1 /\ t[Len(s) + 1] = x
      /\ \A i \in 1 .. Len(s) : t[i] = s[i]
  BY DEF Grows
<1>1. PICK f : Terms(f, w, s)
  BY SumByIsTotal
<1>2. PICK g : Terms(g, w, t)
  BY ONLY w \in [S -> Nat], <1>0, SumByIsTotal
<1> USE DEF Terms
<1>3. w[x] \in Int
  OBVIOUS
<1>4. g = Append(f, w[x])
  <2> DEFINE h == Append(f, w[x])
  <2>1. h \in Seq(Int) /\ Len(h) = Len(s) + 1 /\ h[Len(s) + 1] = w[x]
        /\ \A i \in 1 .. Len(s) : h[i] = w[s[i]]
    BY <1>1, <1>3
  <2> HIDE DEF h
  <2>2. \A i \in 1 .. Len(t) : g[i] = h[i]
    <3> SUFFICES ASSUME NEW i \in 1 .. Len(t) PROVE g[i] = h[i]
      OBVIOUS
    <3>1. g[i] = w[t[i]]
      BY <1>2
    <3>2. i \in 1 .. Len(s) \/ i = Len(s) + 1
      BY <1>0
    <3>3. CASE i \in 1 .. Len(s)
      BY <1>0, <2>1, <3>1, <3>3
    <3>4. CASE i = Len(s) + 1
      BY <1>0, <2>1, <3>1, <3>4
    <3> QED BY <3>2, <3>3, <3>4
  <2>3. g = h
    BY <1>0, <1>2, <2>1, <2>2
  <2> QED BY <2>3 DEF h
<1>5. Total(Append(f, w[x])) = Total(f) + w[x]
  BY <1>1, <1>3, TotalAppend
<1> QED BY <1>1, <1>2, <1>4, <1>5

Tails(t, s) == s # <<>> /\ t = Tail(s)

LEMMA SumTail ==
  ASSUME NEW S, NEW w, w \in [S -> Nat], NEW s, s \in Seq(S), NEW t, Tails(t, s)
  PROVE  SumBy(w, s) = w[Head(s)] + SumBy(w, t)
<1> USE DEF Tails
<1>0. t \in Seq(S) /\ Len(t) = Len(s) - 1 /\ Len(s) \in Nat \ {0}
      /\ (\A i \in 1 .. Len(t) : t[i] = s[i + 1]) /\ Head(s) = s[1]
  OBVIOUS
<1>1. PICK f : Terms(f, w, s)
  BY SumByIsTotal
<1>2. PICK g : Terms(g, w, t)
  BY ONLY w \in [S -> Nat], <1>0, SumByIsTotal
<1> USE DEF Terms
<1>3. f # <<>> /\ f[1] = w[s[1]]
  BY <1>0, <1>1
<1>4. g = Tail(f)
  <2> DEFINE h == Tail(f)
  <2>1. h \in Seq(Int) /\ Len(h) = Len(f) - 1 /\ \A i \in 1 .. Len(h) : h[i] = f[i + 1]
    BY <1>1, <1>3
  <2> HIDE DEF h
  <2>2. \A i \in 1 .. Len(t) : g[i] = h[i]
    <3> SUFFICES ASSUME NEW i \in 1 .. Len(t) PROVE g[i] = h[i]
      OBVIOUS
    <3>1. g[i] = w[t[i]] /\ t[i] = s[i + 1]
      BY <1>0, <1>2
    <3>2. i + 1 \in 1 .. Len(s) /\ i \in 1 .. Len(h)
      BY <1>0, <1>1, <2>1
    <3>3. h[i] = f[i + 1] /\ f[i + 1] = w[s[i + 1]]
      BY <1>1, <2>1, <3>2
    <3> QED BY <3>1, <3>3
  <2>3. g = h
    BY <1>0, <1>1, <1>2, <2>1, <2>2
  <2> QED BY <2>3 DEF h
<1>5. Total(f) = f[1] + Total(Tail(f))
  BY <1>1, <1>3, TotalTail
<1> QED BY <1>0, <1>1, <1>2, <1>3, <1>4, <1>5

LEMMA SumChange ==
  ASSUME NEW S, NEW w, w \in [S -> Nat], NEW s, s \in Seq(S), NEW k, k \in DOMAIN s,
         NEW x, x \in S, NEW t, Alters(t, s, k, x)
  PROVE  SumBy(w, t) = SumBy(w, s) - w[s[k]] + w[x]
<1>0. t \in Seq(S) /\ Len(t) = Len(s) /\ Len(s) \in Nat /\ k \in 1 .. Len(s)
      /\ t[k] = x /\ \A i \in 1 .. Len(s) : i # k => t[i] = s[i]
  BY DEF Alters
<1>1. PICK f : Terms(f, w, s)
  BY SumByIsTotal
<1>2. PICK g : Terms(g, w, t)
  BY ONLY w \in [S -> Nat], <1>0, SumByIsTotal
<1> USE DEF Terms
<1> DEFINE D == 1 .. Len(s)
<1>3. IsFiniteSet(D)
  <2>1. Len(s) \in Int /\ 1 \in Int
    BY <1>0
  <2> QED BY ONLY <2>1, FS_Interval DEF D
<1>4. f \in [D -> Int] /\ g \in [D -> Int] /\ k \in D /\ f[k] = w[s[k]] /\ g[k] = w[x]
      /\ \A i \in D : i # k => g[i] = f[i]
  <2>1. g \in [1 .. Len(s) -> Nat] /\ \A i \in 1 .. Len(s) : g[i] = w[t[i]]
    BY <1>0, <1>2
  <2>2. f \in [D -> Int] /\ g \in [D -> Int] /\ k \in D
    BY <1>0, <1>1, <2>1
  <2>3. \A i \in D : i # k => g[i] = f[i]
    BY <1>0, <1>1, <2>1, SMTT(30)
  <2> QED BY <1>0, <1>1, <2>1, <2>2, <2>3
<1> HIDE DEF D
<1>5. ASSUME NEW j, j = k PROVE Total(g) = Total(f) - f[j] + g[j]
  <2>1. f \in [D -> Int] /\ g \in [D -> Int] /\ j \in D /\ \A i \in D : i # j => g[i] = f[i]
    BY <1>4, <1>5
  <2> QED BY ONLY <1>3, <2>1, TotalChange
<1>6. Total(g) = Total(f) - f[k] + g[k]
  BY <1>5
<1> QED BY <1>1, <1>2, <1>4, <1>6

LEMMA SumZero ==
  ASSUME NEW S, NEW w, w \in [S -> Nat], NEW s, s \in Seq(S),
         \A i \in DOMAIN s : w[s[i]] = 0
  PROVE  SumBy(w, s) = 0
<1>1. PICK f : Terms(f, w, s)
  BY SumByIsTotal
<1> USE DEF Terms
<1> DEFINE D == 1 .. Len(s)
<1>2. IsFiniteSet(D)
  BY FS_Interval
<1>3. f \in [D -> Int] /\ \A i \in D : f[i] = 0
  <2>1. f \in [1 .. Len(s) -> Nat]
    BY <1>1
  <2>2. \A i \in 1 .. Len(s) : f[i] = w[s[i]] /\ i \in DOMAIN s
    BY <1>1
  <2> QED BY <2>1, <2>2
<1> HIDE DEF D
<1>4. Total(f) = 0
  BY <1>2, <1>3, TotalZero
<1> QED BY <1>1, <1>4

-----------------------------------------------------------------------------
(* Batches and waves                                                       *)

Batch == UNION {[s -> Nat] : s \in SUBSET Chunks}

\* The batches of a wave ask for different chunks.
Apart(wave) == \A i, k \in DOMAIN wave : i # k => ~Shares(wave[i], wave[k])
Wave == {wave \in Seq(Batch) \ {<<>>} : Apart(wave)}

Asks == [batch \in Batch |-> Total(batch)]
CardsIn(batches) == SumBy(Asks, batches)
InWave == [wave \in Wave |-> CardsIn(wave)]
CardsOf(waves) == SumBy(InWave, waves)

LEMMA BatchIs ==
  ASSUME Document, NEW b, b \in Batch
  PROVE  /\ DOMAIN b \subseteq Chunks /\ IsFiniteSet(DOMAIN b)
         /\ b \in [DOMAIN b -> Nat] /\ b = [c \in DOMAIN b |-> b[c]]
         /\ Total(b) \in Nat /\ Asks[b] = Total(b)
<1>1. PICK s \in SUBSET Chunks : b \in [s -> Nat]
  BY DEF Batch
<1>2. DOMAIN b = s
  BY <1>1
<1>3. IsFiniteSet(DOMAIN b)
  BY <1>2, ChunksFinite, FS_Subset
<1>4. Total(b) \in Nat
  <2> DEFINE D == DOMAIN b
  <2>1. IsFiniteSet(D) /\ b \in [D -> Nat]
    BY <1>1, <1>2, <1>3
  <2> HIDE DEF D
  <2> QED BY <2>1, TotalNatural
<1>5. Asks[b] = Total(b)
  BY DEF Asks
<1> QED BY <1>1, <1>2, <1>3, <1>4, <1>5

LEMMA BatchMade ==
  ASSUME NEW s, s \in SUBSET Chunks, NEW b, b \in [s -> Nat]
  PROVE  b \in Batch
BY DEF Batch

LEMMA EmptyBatch == <<>> \in Batch
<1>1. {} \in SUBSET Chunks /\ <<>> \in [{} -> Nat]
  OBVIOUS
<1> QED BY <1>1 DEF Batch

LEMMA AsksTyped == ASSUME Document PROVE Asks \in [Batch -> Nat]
<1>1. \A b \in Batch : Total(b) \in Nat
  BY BatchIs
<1> QED BY <1>1 DEF Asks

LEMMA CardsInTyped ==
  ASSUME Document, NEW batches, batches \in Seq(Batch)
  PROVE  CardsIn(batches) \in Nat
<1>1. Asks \in [Batch -> Nat]
  BY AsksTyped
<1> QED BY <1>1, SumNatural DEF CardsIn

LEMMA InWaveTyped == ASSUME Document PROVE InWave \in [Wave -> Nat]
<1>1. \A wave \in Wave : CardsIn(wave) \in Nat
  BY CardsInTyped DEF Wave
<1> QED BY <1>1 DEF InWave

LEMMA CardsOfTyped ==
  ASSUME Document, NEW waves, waves \in Seq(Wave)
  PROVE  CardsOf(waves) \in Nat
<1>1. InWave \in [Wave -> Nat]
  BY InWaveTyped
<1> QED BY <1>1, SumNatural DEF CardsOf

\* One card more for a chunk.
LEMMA WithExact ==
  ASSUME Document, NEW b, b \in Batch, NEW c, c \in Chunks
  PROVE  With(b, c) \in Batch /\ Total(With(b, c)) = Total(b) + 1
<1> DEFINE S == DOMAIN b \cup {c}
           g == [d \in S |-> (IF d \in DOMAIN b THEN b[d] ELSE 0) + (IF d = c THEN 1 ELSE 0)]
<1>1. With(b, c) = g
  BY DEF With
<1>2. /\ DOMAIN b \subseteq Chunks /\ IsFiniteSet(DOMAIN b) /\ b \in [DOMAIN b -> Nat]
      /\ b = [d \in DOMAIN b |-> b[d]] /\ Total(b) \in Nat
  BY BatchIs
<1>3. S \in SUBSET Chunks /\ IsFiniteSet(S)
  BY <1>2, FS_AddElement
<1>4. g \in [S -> Nat]
  <2> SUFFICES ASSUME NEW d \in S
               PROVE (IF d \in DOMAIN b THEN b[d] ELSE 0) + (IF d = c THEN 1 ELSE 0) \in Nat
    OBVIOUS
  <2>1. (IF d \in DOMAIN b THEN b[d] ELSE 0) \in Nat
    BY <1>2
  <2> QED BY <2>1
<1>5. \A d \in DOMAIN b : d # c => g[d] = b[d]
  BY <1>2
<1>6. g[c] = (IF c \in DOMAIN b THEN b[c] ELSE 0) + 1
  OBVIOUS
<1>7. CASE c \in DOMAIN b
  <2>1. S = DOMAIN b
    BY <1>7
  <2>2. g \in [DOMAIN b -> Int] /\ b \in [DOMAIN b -> Int] /\ g[c] = b[c] + 1
    BY <1>2, <1>4, <1>6, <1>7, <2>1
  <2> HIDE DEF g, S
  <2>3. Total(g) = Total(b) - b[c] + g[c]
    BY ONLY <1>2, <1>5, <1>7, <2>2, TotalChange
  <2>4. b[c] \in Int
    BY <1>7, <2>2
  <2>5. g \in Batch
    BY <1>3, <1>4, BatchMade
  <2> QED BY <1>1, <1>2, <2>2, <2>3, <2>4, <2>5
<1>8. CASE c \notin DOMAIN b
  <2>1. S \ {c} = DOMAIN b
    BY <1>8
  <2>2. b = [d \in S \ {c} |-> g[d]]
    <3>1. \A d \in S \ {c} : g[d] = b[d]
      BY <1>5, <2>1
    <3> QED BY <1>2, <2>1, <3>1
  <2>3. g[c] = 1 /\ c \in S /\ g \in [S -> Int]
    BY <1>4, <1>6, <1>8
  <2> HIDE DEF g, S
  <2>4. Total(g) = g[c] + Total(b)
    BY ONLY <1>3, <2>2, <2>3, TotalWithout
  <2>5. g \in Batch
    BY <1>3, <1>4, BatchMade
  <2> QED BY <1>1, <1>2, <2>3, <2>4, <2>5
<1> QED BY <1>7, <1>8

LEMMA FirstCard ==
  ASSUME Document, NEW c, c \in Chunks, NEW b, b = [d \in {c} |-> 1]
  PROVE  b \in Batch /\ Total(b) = 1
<1> DEFINE S == {c}
<1>1. S \in SUBSET Chunks /\ b \in [S -> Nat] /\ IsFiniteSet(S) /\ Cardinality(S) = 1
      /\ b = [d \in S |-> 1]
  BY FS_Singleton
<1> HIDE DEF S
<1>2. b \in Batch
  BY <1>1, BatchMade
<1>3. Total(b) = 1 * Cardinality(S)
  BY <1>1, TotalConstant
<1> QED BY <1>1, <1>2, <1>3

LEMMA JoinBatchExact ==
  ASSUME Document, NEW batches, batches \in Seq(Batch), NEW c, c \in Chunks, NEW exclusions
  PROVE  /\ JoinBatch(batches, c, exclusions) \in Seq(Batch)
         /\ CardsIn(JoinBatch(batches, c, exclusions)) = CardsIn(batches) + 1
<1>0. Asks \in [Batch -> Nat] /\ CardsIn(batches) \in Nat
  BY AsksTyped, CardsInTyped
<1>1. CASE batches # <<>> /\ Room(Last(batches), c, exclusions)
  <2> DEFINE k == Len(batches)
             b == With(batches[k], c)
             t == [batches EXCEPT ![k] = b]
  <2>1. k \in DOMAIN batches /\ batches[k] \in Batch
    BY <1>1
  <2>2. b \in Batch /\ Total(b) = Total(batches[k]) + 1
    BY <2>1, WithExact
  <2>3. JoinBatch(batches, c, exclusions) = t
    BY <1>1 DEF JoinBatch
  <2>4. t \in Seq(Batch) /\ Alters(t, batches, k, b)
    BY <2>1, <2>2 DEF Alters
  <2>5. Asks[b] = Total(b) /\ Asks[batches[k]] = Total(batches[k]) /\ Total(batches[k]) \in Nat
    BY <2>1, <2>2, BatchIs
  <2> HIDE DEF b, k, t
  <2>6. SumBy(Asks, t) = SumBy(Asks, batches) - Asks[batches[k]] + Asks[b]
    BY ONLY <1>0, <2>1, <2>2, <2>4, batches \in Seq(Batch), SumChange
  <2> QED BY <1>0, <2>2, <2>3, <2>4, <2>5, <2>6 DEF CardsIn
<1>2. CASE ~(batches # <<>> /\ Room(Last(batches), c, exclusions))
  <2> DEFINE b == [d \in {c} |-> 1]
             t == Append(batches, b)
  <2>1. b = [d \in {c} |-> 1]
    OBVIOUS
  <2>2. JoinBatch(batches, c, exclusions) = t
    BY <1>2 DEF JoinBatch
  <2> HIDE DEF b
  <2>3. b \in Batch /\ Total(b) = 1
    BY <2>1, FirstCard
  <2>4. t \in Seq(Batch) /\ Grows(t, batches, b)
    BY <2>3 DEF Grows
  <2>5. Asks[b] = 1
    BY <2>3, BatchIs
  <2> HIDE DEF t
  <2>6. SumBy(Asks, t) = SumBy(Asks, batches) + Asks[b]
    BY ONLY <1>0, <2>3, <2>4, batches \in Seq(Batch), SumAppend
  <2> QED BY <1>0, <2>2, <2>4, <2>5, <2>6 DEF CardsIn
<1> QED BY <1>1, <1>2

LEMMA JoinWaveExact ==
  ASSUME Document, NEW waves, waves \in Seq(Wave), NEW batch, batch \in Batch
  PROVE  /\ JoinWave(waves, batch) \in Seq(Wave)
         /\ CardsOf(JoinWave(waves, batch)) = CardsOf(waves) + Total(batch)
<1>0. Asks \in [Batch -> Nat] /\ InWave \in [Wave -> Nat] /\ CardsOf(waves) \in Nat
      /\ Total(batch) \in Nat /\ Asks[batch] = Total(batch)
  BY AsksTyped, InWaveTyped, CardsOfTyped, BatchIs
<1>1. ASSUME NEW old, old \in Seq(Batch), NEW new, Grows(new, old, batch),
             Apart(old), \A i \in DOMAIN old : ~Shares(batch, old[i])
      PROVE  new \in Wave /\ InWave[new] = CardsIn(old) + Total(batch) /\ CardsIn(old) \in Nat
  <2>1. new \in Wave
    <3>1. new \in Seq(Batch) /\ new # <<>> /\ Len(new) = Len(old) + 1 /\ Len(old) \in Nat
          /\ new[Len(old) + 1] = batch /\ \A i \in 1 .. Len(old) : new[i] = old[i]
      BY <1>1 DEF Grows
    <3>2. ASSUME NEW i \in DOMAIN new, NEW k \in DOMAIN new, i # k
          PROVE  ~Shares(new[i], new[k])
      <4>1. i \in 1 .. Len(old) + 1 /\ k \in 1 .. Len(old) + 1 /\ DOMAIN old = 1 .. Len(old)
        BY <1>1, <3>1
      <4>2. CASE i \in 1 .. Len(old) /\ k \in 1 .. Len(old)
        BY <1>1, <3>1, <3>2, <4>1, <4>2 DEF Apart
      <4>3. CASE i = Len(old) + 1
        <5>1. k \in 1 .. Len(old)
          BY <3>1, <3>2, <4>1, <4>3
        <5> QED BY <1>1, <3>1, <4>1, <4>3, <5>1
      <4>4. CASE k = Len(old) + 1
        <5>1. i \in 1 .. Len(old)
          BY <3>1, <3>2, <4>1, <4>4
        <5>2. ~Shares(new[k], new[i])
          BY <1>1, <3>1, <4>1, <4>4, <5>1
        <5> QED BY <5>2 DEF Shares
      <4> QED BY <3>1, <4>1, <4>2, <4>3, <4>4
    <3> QED BY <3>1, <3>2 DEF Wave, Apart
  <2>2. SumBy(Asks, new) = SumBy(Asks, old) + Asks[batch]
    BY ONLY <1>0, <1>1, batch \in Batch, SumAppend
  <2>3. InWave[new] = CardsIn(new)
    BY <2>1 DEF InWave
  <2>4. CardsIn(old) \in Nat
    BY <1>1, CardsInTyped
  <2> QED BY <1>0, <2>1, <2>2, <2>3, <2>4 DEF CardsIn
<1>2. CASE waves # <<>> /\ \A i \in DOMAIN Last(waves) : ~Shares(batch, Last(waves)[i])
  <2> DEFINE k == Len(waves)
             old == waves[k]
             new == Append(old, batch)
             t == [waves EXCEPT ![k] = new]
  <2>1. k \in DOMAIN waves /\ old \in Wave /\ old \in Seq(Batch)
        /\ Apart(old) /\ Last(waves) = old
    BY <1>2 DEF Wave, Last
  <2>2. JoinWave(waves, batch) = t
    BY <1>2 DEF JoinWave
  <2>3. new \in Wave /\ InWave[new] = CardsIn(old) + Total(batch) /\ CardsIn(old) \in Nat
    BY <1>1, <1>2, <2>1 DEF Grows
  <2>4. InWave[waves[k]] = CardsIn(old)
    BY <2>1 DEF InWave
  <2>5. t \in Seq(Wave) /\ Alters(t, waves, k, new)
    BY <2>1, <2>3 DEF Alters
  <2> HIDE DEF new, t, old, k
  <2>6. SumBy(InWave, t) = SumBy(InWave, waves) - InWave[waves[k]] + InWave[new]
    <3>1. InWave \in [Wave -> Nat]
      BY <1>0
    <3>2. new \in Wave
      BY <2>3
    <3>3. k \in DOMAIN waves
      BY <2>1
    <3>4. Alters(t, waves, k, new)
      BY <2>5
    <3> QED BY ONLY <3>1, <3>2, <3>3, <3>4, waves \in Seq(Wave), SumChange
  <2> QED BY <1>0, <2>2, <2>3, <2>4, <2>5, <2>6 DEF CardsOf
<1>3. CASE ~(waves # <<>> /\ \A i \in DOMAIN Last(waves) : ~Shares(batch, Last(waves)[i]))
  <2> DEFINE new == <<batch>>
             t == Append(waves, new)
  <2>1. Grows(new, <<>>, batch) /\ <<>> \in Seq(Batch)
    BY DEF Grows
  <2>2. JoinWave(waves, batch) = t
    BY <1>3 DEF JoinWave
  <2> HIDE DEF new
  <2>3. CardsIn(<<>>) = 0
    BY SumEmpty DEF CardsIn
  <2>4. new \in Wave /\ InWave[new] = Total(batch)
    <3>1. /\ new \in Wave /\ InWave[new] = CardsIn(<<>>) + Total(batch)
          /\ CardsIn(<<>>) \in Nat
      <4>1. Apart(<<>>) /\ \A i \in DOMAIN <<>> : ~Shares(batch, <<>>[i])
        BY DEF Apart
      <4> QED BY ONLY <1>1, <2>1, <4>1, Zenon
    <3> QED BY <1>0, <3>1, <2>3
  <2>5. t \in Seq(Wave) /\ Grows(t, waves, new)
    BY <2>4 DEF Grows
  <2> HIDE DEF t
  <2>6. SumBy(InWave, t) = SumBy(InWave, waves) + InWave[new]
    <3>1. InWave \in [Wave -> Nat]
      BY <1>0
    <3>2. new \in Wave
      BY <2>4
    <3>3. Grows(t, waves, new)
      BY <2>5
    <3> QED BY ONLY <3>1, <3>2, <3>3, waves \in Seq(Wave), SumAppend
  <2> QED BY <1>0, <2>2, <2>4, <2>5, <2>6 DEF CardsOf
<1> QED BY <1>2, <1>3

\* The batches ask for what the allocation gives,
LEMMA CardByCard ==
  ASSUME Document, NEW a, a \in [Chunks -> Nat],
         NEW S, S = FlattenSeq([c \in Chunks |-> [k \in 1 .. a[c] |-> c]])
  PROVE  S \in Seq(Chunks) /\ Len(S) = Total(a)
<1> DEFINE seqs == [c \in Chunks |-> [k \in 1 .. a[c] |-> c]]
<1>1. Chunks = 1 .. Len(doc) /\ Len(doc) \in Nat
  BY ChunksFinite
<1>2. \A c \in Chunks : seqs[c] \in Seq(Chunks) /\ Len(seqs[c]) = a[c]
  <2> SUFFICES ASSUME NEW c \in Chunks
               PROVE [k \in 1 .. a[c] |-> c] \in Seq(Chunks) /\ Len([k \in 1 .. a[c] |-> c]) = a[c]
    OBVIOUS
  <2>1. a[c] \in Nat
    OBVIOUS
  <2> QED BY <2>1
<1>3. S = FlattenSeq(seqs) /\ DOMAIN seqs = Chunks
  OBVIOUS
<1>4. seqs = [c \in Chunks |-> seqs[c]]
  OBVIOUS
<1> HIDE DEF seqs
<1>5. seqs \in Seq(Seq(Chunks)) /\ Len(seqs) = Len(doc)
  <2> DEFINE T == Seq(Chunks)
             n == Len(doc)
  <2>1. seqs \in [1 .. n -> T] /\ n \in Nat
    BY <1>1, <1>2, <1>4
  <2> HIDE DEF T, n
  <2>2. seqs \in Seq(T) /\ Len(seqs) = n
    BY <2>1
  <2> QED BY <2>2 DEF T, n
<1>6. S \in Seq(Chunks) /\ Len(S) = Total([i \in 1 .. Len(seqs) |-> Len(seqs[i])])
  BY <1>3, <1>5, Flattened
<1>7. [i \in 1 .. Len(seqs) |-> Len(seqs[i])] = a
  <2>1. 1 .. Len(seqs) = Chunks
    BY <1>1, <1>5
  <2>2. a = [c \in Chunks |-> a[c]]
    OBVIOUS
  <2> QED BY <1>2, <2>1, <2>2
<1> QED BY <1>6, <1>7

LEMMA BatchesExact ==
  ASSUME Document, NEW a, a \in [Chunks -> Nat], NEW exclusions
  PROVE  /\ Batches(a, exclusions) \in Seq(Batch)
         /\ CardsIn(Batches(a, exclusions)) = Total(a)
<1> DEFINE S == FlattenSeq([c \in Chunks |-> [k \in 1 .. a[c] |-> c]])
           n == Len(S)
           Acc == Seq(Batch)
           Steps == [k \in 1 .. n |-> [bs \in Acc |-> JoinBatch(bs, S[k], exclusions)]]
           IsBatching(it) ==
             it = [s \in SUBSET (DOMAIN S) |->
                     IF s = {} THEN <<>> ELSE JoinBatch(it[s \ {Max(s)}], S[Max(s)], exclusions)]
<1>a. S \in Seq(Chunks) /\ n = Total(a)
  BY CardByCard
<1>b. Batches(a, exclusions) = FoldLeft(LAMBDA batches, c : JoinBatch(batches, c, exclusions), <<>>, S)
  BY Zenon DEF Batches
<1> DEFINE it == CHOOSE g : IsBatching(g)
<1>c. Batches(a, exclusions) = it[DOMAIN S]
  BY Zenon DEF Batches, FoldLeft, MapThenFoldSet
<1> HIDE DEF S
<1>0. n \in Nat /\ DOMAIN S = 1 .. n /\ <<>> \in Acc /\ \A k \in 1 .. n : S[k] \in Chunks
  BY <1>a
<1>1. StepsIn(Steps, Acc, n)
  <2> SUFFICES ASSUME NEW k \in 1 .. n, NEW bs \in Acc PROVE JoinBatch(bs, S[k], exclusions) \in Acc
    BY DEF StepsIn
  <2> QED BY <1>0, JoinBatchExact
<1>2. ASSUME NEW s \in SUBSET (1 .. n), s # {} PROVE Max(s) \in 1 .. n
  BY <1>0, <1>2, MaxOfPositions
<1>3. \E g : IsBatching(g)
  <2>1. PICK g : Folds(g, Steps, Acc, <<>>, n)
    <3> HIDE DEF Steps, Acc, n
    <3> QED BY <1>0, <1>1, LeftFoldExists
  <2>2. ASSUME NEW s \in SUBSET (1 .. n), s # {}
        PROVE  g[s] = JoinBatch(g[s \ {Max(s)}], S[Max(s)], exclusions)
    <3>1. g[s \ {Max(s)}] \in Acc /\ g[s] = Steps[Max(s)][g[s \ {Max(s)}]]
      BY <2>1, <2>2 DEF Folds
    <3> QED BY <3>1, <1>2, <2>2
  <2>3. IsBatching(g)
    BY <1>0, <2>1, <2>2 DEF Folds
  <2> QED BY <2>3
<1>4. IsBatching(it)
  BY <1>3
<1> HIDE DEF it
<1>7. it[{}] = <<>>
  BY <1>4
<1>8. ASSUME NEW s \in SUBSET (1 .. n), s # {} /\ it[s \ {Max(s)}] \in Acc
      PROVE  it[s] = Steps[Max(s)][it[s \ {Max(s)}]]
  <2>1. it[s] = JoinBatch(it[s \ {Max(s)}], S[Max(s)], exclusions)
    BY <1>4, <1>0, <1>8
  <2> QED BY <2>1, <1>2, <1>8
<1>9. FoldsIn(it, Steps, Acc, <<>>, n)
  <2> HIDE DEF Steps, Acc
  <2> QED BY <1>7, <1>8 DEF FoldsIn
<1>10. PICK r : Results(r, Steps, Acc, <<>>, n) /\ r[n] = it[1 .. n]
  <2> HIDE DEF Steps, Acc, n
  <2> QED BY <1>0, <1>1, <1>9, LeftFoldValue
<1>11. r[0] = <<>> /\ \A k \in 0 .. n : r[k] \in Acc
  <2> HIDE DEF Acc
  <2> QED BY <1>0, <1>10 DEF Results
<1>12. ASSUME NEW k \in 1 .. n
       PROVE  r[k] = JoinBatch(r[k - 1], S[k], exclusions) /\ r[k - 1] \in Acc
  <2>1. k - 1 \in 0 .. n
    BY <1>0
  <2>2. r[k] = Steps[k][r[k - 1]] /\ r[k - 1] \in Acc
    BY <1>10, <1>11, <2>1 DEF Results
  <2> QED BY <2>2
<1> DEFINE T == {k \in 0 .. n : CardsIn(r[k]) # k}
<1>13. T = {}
  <2> SUFFICES ASSUME T # {} PROVE FALSE
    OBVIOUS
  <2>1. PICK k \in T : \A j \in T : k <= j
    <3>1. T \subseteq Nat
      BY <1>0
    <3> HIDE DEF T
    <3> QED BY <3>1, LeastNumber
  <2>2. CardsIn(<<>>) = 0
    BY SumEmpty DEF CardsIn
  <2>3. k # 0
    BY <1>11, <2>2
  <2>4. k \in 1 .. n /\ k - 1 \in 0 .. n /\ k - 1 \notin T
    BY <1>0, <2>1, <2>3
  <2>5. CardsIn(r[k - 1]) = k - 1
    BY <2>4
  <2>6. r[k] = JoinBatch(r[k - 1], S[k], exclusions) /\ r[k - 1] \in Seq(Batch) /\ S[k] \in Chunks
    BY <1>0, <1>12, <2>4
  <2>7. CardsIn(r[k]) = CardsIn(r[k - 1]) + 1
    BY ONLY <2>6, Document, JoinBatchExact
  <2> QED BY <2>5, <2>7
<1>14. r[n] \in Seq(Batch) /\ CardsIn(r[n]) = n
  BY <1>0, <1>11, <1>13
<1> QED BY <1>0, <1>a, <1>c, <1>10, <1>14

\* and the waves together ask for what the batches do.
LEMMA WavesExact ==
  ASSUME Document, NEW S, S \in Seq(Batch)
  PROVE  /\ Waves(S) \in Seq(Wave)
         /\ CardsOf(Waves(S)) = CardsIn(S)
<1> DEFINE n == Len(S)
           Acc == Seq(Wave)
           Steps == [k \in 1 .. n |-> [ws \in Acc |-> JoinWave(ws, S[k])]]
           IsWaving(it) ==
             it = [s \in SUBSET (DOMAIN S) |->
                     IF s = {} THEN <<>> ELSE JoinWave(it[s \ {Max(s)}], S[Max(s)])]
           it == CHOOSE g : IsWaving(g)
<1>c. Waves(S) = it[DOMAIN S]
  BY Zenon DEF Waves, FoldLeft, MapThenFoldSet
<1>0. n \in Nat /\ DOMAIN S = 1 .. n /\ <<>> \in Acc /\ \A k \in 1 .. n : S[k] \in Batch
  OBVIOUS
<1>1. StepsIn(Steps, Acc, n)
  <2> SUFFICES ASSUME NEW k \in 1 .. n, NEW ws \in Acc PROVE JoinWave(ws, S[k]) \in Acc
    BY DEF StepsIn
  <2> QED BY <1>0, JoinWaveExact
<1>2. ASSUME NEW s \in SUBSET (1 .. n), s # {} PROVE Max(s) \in 1 .. n
  BY <1>0, <1>2, MaxOfPositions
<1>3. \E g : IsWaving(g)
  <2>1. PICK g : Folds(g, Steps, Acc, <<>>, n)
    <3> HIDE DEF Steps, Acc, n
    <3> QED BY <1>0, <1>1, LeftFoldExists
  <2>2. ASSUME NEW s \in SUBSET (1 .. n), s # {}
        PROVE  g[s] = JoinWave(g[s \ {Max(s)}], S[Max(s)])
    <3>1. g[s \ {Max(s)}] \in Acc /\ g[s] = Steps[Max(s)][g[s \ {Max(s)}]]
      BY <2>1, <2>2 DEF Folds
    <3> QED BY <3>1, <1>2, <2>2
  <2>3. IsWaving(g)
    BY <1>0, <2>1, <2>2 DEF Folds
  <2> QED BY <2>3
<1>4. IsWaving(it)
  BY <1>3
<1> HIDE DEF it
<1>7. it[{}] = <<>>
  BY <1>4
<1>8. ASSUME NEW s \in SUBSET (1 .. n), s # {} /\ it[s \ {Max(s)}] \in Acc
      PROVE  it[s] = Steps[Max(s)][it[s \ {Max(s)}]]
  <2>1. it[s] = JoinWave(it[s \ {Max(s)}], S[Max(s)])
    BY <1>4, <1>0, <1>8
  <2> QED BY <2>1, <1>2, <1>8
<1>9. FoldsIn(it, Steps, Acc, <<>>, n)
  <2> HIDE DEF Steps, Acc
  <2> QED BY <1>7, <1>8 DEF FoldsIn
<1>10. PICK r : Results(r, Steps, Acc, <<>>, n) /\ r[n] = it[1 .. n]
  <2> HIDE DEF Steps, Acc, n
  <2> QED BY <1>0, <1>1, <1>9, LeftFoldValue
<1>11. r[0] = <<>> /\ \A k \in 0 .. n : r[k] \in Acc
  <2> HIDE DEF Acc
  <2> QED BY <1>0, <1>10 DEF Results
<1>12. ASSUME NEW k \in 1 .. n
       PROVE  r[k] = JoinWave(r[k - 1], S[k]) /\ r[k - 1] \in Acc
  <2>1. k - 1 \in 0 .. n
    BY <1>0
  <2>2. r[k] = Steps[k][r[k - 1]] /\ r[k - 1] \in Acc
    BY <1>10, <1>11, <2>1 DEF Results
  <2> QED BY <2>2
<1> DEFINE q == [k \in 0 .. n |-> CardsOf(r[k])]
<1>13. PICK f : Terms(f, Asks, S)
  <2>1. Asks \in [Batch -> Nat]
    BY AsksTyped
  <2> QED BY ONLY <2>1, S \in Seq(Batch), SumByIsTotal
<1>14. f \in [1 .. n -> Int] /\ CardsIn(S) = Total(f) /\ \A k \in 1 .. n : f[k] = Total(S[k])
  <2>1. \A k \in 1 .. n : Asks[S[k]] = Total(S[k])
    BY <1>0, BatchIs
  <2> QED BY <1>13, <2>1 DEF Terms, CardsIn
<1>15. q \in [0 .. n -> Int] /\ q[0] = 0
  <2>1. CardsOf(<<>>) = 0
    BY SumEmpty DEF CardsOf
  <2>2. \A k \in 0 .. n : CardsOf(r[k]) \in Nat
    BY <1>11, CardsOfTyped
  <2> QED BY <1>0, <1>11, <2>1, <2>2
<1>16. ASSUME NEW k \in 1 .. n PROVE q[k] = q[k - 1] + f[k]
  <2>1. r[k] = JoinWave(r[k - 1], S[k]) /\ r[k - 1] \in Seq(Wave) /\ S[k] \in Batch
    BY <1>0, <1>12
  <2>2. CardsOf(r[k]) = CardsOf(r[k - 1]) + Total(S[k])
    BY ONLY <2>1, Document, JoinWaveExact
  <2>3. q[k] = CardsOf(r[k]) /\ q[k - 1] = CardsOf(r[k - 1])
    BY <1>0
  <2> QED BY <1>14, <2>2, <2>3
<1>17. q[n] = CardsOf(r[n]) /\ r[n] \in Seq(Wave)
  BY <1>0, <1>11
<1> HIDE DEF q, n
<1>18. Sums(q, f, n)
  BY <1>15, <1>16 DEF Sums
<1>19. q[n] = Total(f)
  BY <1>0, <1>14, <1>18, SumsAre
<1> QED BY <1>0, <1>c, <1>10, <1>14, <1>17, <1>19

-----------------------------------------------------------------------------
(* The inductive invariant                                                 *)

Kinds == {"map", "reduce", "cards"}

States == {"held", "waiting", "out", "leaving", "ok", "failed", "gone"}

Call == [kind : Kinds, batch : Batch, in : Nat, out : Nat \ {0}, state : States,
         tries : Nat, offers : Batch]

Usage == [in : Int, out : Int]

Ends == {"ok", "insufficient", "no_text", "limit", "failed", "stopped"}

\* The values of the variables (FlashcardGenerationPipeline).
Types ==
  /\ Document /\ packs \in Seq(SUBSET Chunks)
  /\ stage \in [at : {"start", "map", "reduce", "cards", "over"}, todo : Nat, next : Nat,
                round : Nat, waves : Seq(Wave)]
  /\ fan \in Seq(Call)
  /\ requested \in [Chunks -> Nat] /\ accepted \in [Chunks -> Nat]
  /\ books \in [used : Usage, pending : Usage, uncertain : Usage]
  /\ sent \in [map : Nat, reduce : Nat, cards : Nat]
  /\ ending \in {None, "failed", "stopped"} /\ result \in Ends \cup {None}
  /\ spent \in Usage /\ beyond \in [in : Nat, out : Nat]
  /\ answered \subseteq Kinds

\* What the calls of a stage are, and where a run can be.
Course ==
  /\ stage.at \in {"start", "over"} => fan = <<>>
  /\ stage.at \in Kinds => doc # <<>> /\ fan # <<>>
  /\ stage.at \in {"start", "map", "reduce"} => \A c \in Chunks : accepted[c] = 0
  /\ result # None => stage.at = "over"
  /\ ending # None => stage.at # "start"
  /\ ending # None => \A i \in DOMAIN fan : fan[i].state \in {"leaving", "ok", "failed", "gone"}
  /\ \A i \in DOMAIN fan :
        /\ fan[i].kind = stage.at
        /\ fan[i].state = "ok" => fan[i].kind \in answered
        /\ ending = None /\ fan[i].state = "ok" /\ fan[i].kind = "cards" =>
              DOMAIN fan[i].offers = DOMAIN fan[i].batch
        /\ i = 1 \/ fan[i].kind \in answered \/ fan[i].state \in {"held", "gone"}
        /\ \A k \in DOMAIN fan : i # k => ~Shares(fan[i].batch, fan[k].batch)

\* What a call owes: the envelope of one that is out.
OwedIn == [call \in Call |-> IF call.state \in {"out", "leaving"} THEN call.in ELSE 0]
OwedOut == [call \in Call |-> IF call.state \in {"out", "leaving"} THEN call.out ELSE 0]

\* The books are the envelopes of the calls that are out and what the others used,
\* and the provider counts no more than is charged but for what they cannot know.
Accounts ==
  /\ spent.in <= books.used.in + books.pending.in + books.uncertain.in + beyond.in
  /\ spent.out <= books.used.out + books.pending.out + books.uncertain.out + beyond.out
  /\ books.pending = [in |-> SumBy(OwedIn, fan), out |-> SumBy(OwedOut, fan)]
  /\ SpendingBounded

\* The cards that the calls and the waves of a round ask for are still missing.
Asking == [call \in Call |-> Total(call.batch)]

Quotas ==
  /\ stage.at = "cards" => Total(accepted) + SumBy(Asking, fan) + CardsOf(stage.waves) <= Target
  /\ CardsExact

\* The calls of summaries that are not sent yet, those that are, and those of the
\* levels to come.
Unsent == [call \in Call |-> IF call.state \in {"held", "waiting"} THEN 1 ELSE 0]
Sent == [call \in Call |-> IF call.state \in {"out", "ok"} THEN 1 ELSE 0]

InLevel(n) == (n \div GroupSize) + (IF n % GroupSize > 1 THEN 1 ELSE 0)
Above(n) == (n + GroupSize - 1) \div GroupSize
ToCome(todo, next) == InLevel(todo) + ReduceCalls(next + Above(todo))

Summaries ==
  /\ stage.at = "start" => sent.map + sent.reduce = 0 /\ sent.cards = 0
  /\ stage.at = "map" =>
        /\ Summarised /\ Len(fan) = Len(packs)
        /\ sent.reduce = 0 /\ sent.cards = 0
        /\ sent.map + SumBy(Unsent, fan) <= Len(packs)
        /\ ending = None => sent.map >= SumBy(Sent, fan)
  /\ stage.at = "reduce" =>
        /\ Summarised /\ Len(fan) = 1 /\ stage.todo + stage.next >= 1
        /\ sent.map = Len(packs) /\ sent.cards = 0
        /\ sent.reduce + SumBy(Unsent, fan) + ToCome(stage.todo, stage.next)
              <= ReduceCalls(Len(packs))
        /\ ending = None =>
              sent.reduce + 1 - SumBy(Sent, fan) + ToCome(stage.todo, stage.next)
                 >= ReduceCalls(Len(packs))
  /\ stage.at = "cards" => sent.map + sent.reduce = SummaryCalls
  /\ SummariesAsEstimated

IInv == Types /\ Course /\ Accounts /\ Quotas /\ Summaries

\* A step leaves the document alone, and so what is defined from it.
LEMMA SameDocument ==
  ASSUME doc' = doc
  PROVE  /\ Chunks' = Chunks /\ Batch' = Batch /\ Wave' = Wave /\ Call' = Call
         /\ OwedIn' = OwedIn /\ OwedOut' = OwedOut /\ Asking' = Asking
         /\ Unsent' = Unsent /\ Sent' = Sent /\ Asks' = Asks /\ InWave' = InWave
<1>1. Chunks' = Chunks
  BY DEF Chunks
<1>2. Batch' = Batch
  BY <1>1 DEF Batch
<1>3. Wave' = Wave /\ Call' = Call /\ Asks' = Asks
  BY <1>2 DEF Wave, Call, Asks
<1>4. InWave' = InWave
  BY <1>3 DEF InWave, CardsIn
<1>5. OwedIn' = OwedIn /\ OwedOut' = OwedOut
  BY <1>3 DEF OwedIn, OwedOut
<1>6. Unsent' = Unsent /\ Sent' = Sent /\ Asking' = Asking
  BY <1>3 DEF Unsent, Sent, Asking
<1> QED BY <1>1, <1>2, <1>3, <1>4, <1>5, <1>6

LEMMA CallIs ==
  ASSUME Document, NEW x, x \in Call
  PROVE  /\ x.kind \in Kinds /\ x.batch \in Batch /\ x.in \in Nat /\ x.out \in Nat /\ x.out >= 1
         /\ x.state \in States /\ x.offers \in Batch
         /\ OwedIn[x] = (IF x.state \in {"out", "leaving"} THEN x.in ELSE 0)
         /\ OwedOut[x] = (IF x.state \in {"out", "leaving"} THEN x.out ELSE 0)
         /\ Unsent[x] = (IF x.state \in {"held", "waiting"} THEN 1 ELSE 0)
         /\ Sent[x] = (IF x.state \in {"out", "ok"} THEN 1 ELSE 0)
         /\ Asking[x] = Total(x.batch) /\ Total(x.batch) \in Nat
<1>1. x.kind \in Kinds /\ x.batch \in Batch /\ x.in \in Nat /\ x.out \in Nat \ {0}
      /\ x.state \in States /\ x.offers \in Batch
  BY DEF Call
<1>2. Total(x.batch) \in Nat
  BY <1>1, BatchIs
<1>3. /\ OwedIn[x] = (IF x.state \in {"out", "leaving"} THEN x.in ELSE 0)
      /\ OwedOut[x] = (IF x.state \in {"out", "leaving"} THEN x.out ELSE 0)
      /\ Unsent[x] = (IF x.state \in {"held", "waiting"} THEN 1 ELSE 0)
      /\ Sent[x] = (IF x.state \in {"out", "ok"} THEN 1 ELSE 0)
      /\ Asking[x] = Total(x.batch)
  BY Zenon DEF OwedIn, OwedOut, Unsent, Sent, Asking
<1> QED BY <1>1, <1>2, <1>3

LEMMA WeightsTyped ==
  ASSUME Document
  PROVE  /\ OwedIn \in [Call -> Nat] /\ OwedOut \in [Call -> Nat] /\ Asking \in [Call -> Nat]
         /\ Unsent \in [Call -> Nat] /\ Sent \in [Call -> Nat]
<1>1. ASSUME NEW x \in Call
      PROVE  /\ OwedIn[x] \in Nat /\ OwedOut[x] \in Nat /\ Asking[x] \in Nat
             /\ Unsent[x] \in Nat /\ Sent[x] \in Nat
  BY CallIs
<1>2. /\ OwedIn = [x \in Call |-> OwedIn[x]] /\ OwedOut = [x \in Call |-> OwedOut[x]]
      /\ Asking = [x \in Call |-> Asking[x]]
      /\ Unsent = [x \in Call |-> Unsent[x]] /\ Sent = [x \in Call |-> Sent[x]]
  BY DEF OwedIn, OwedOut, Unsent, Sent, Asking
<1> QED BY <1>1, <1>2

\* The sums of two sequences whose members weigh the same.
Alike(w, t, s) == Len(t) = Len(s) /\ \A i \in DOMAIN s : w[t[i]] = w[s[i]]

LEMMA SumSame ==
  ASSUME NEW S, NEW w, NEW s, s \in Seq(S), NEW t, t \in Seq(S), Alike(w, t, s)
  PROVE  SumBy(w, t) = SumBy(w, s)
<1>1. DOMAIN t = DOMAIN s
  BY DEF Alike
<1>2. [i \in DOMAIN t |-> w[t[i]]] = [i \in DOMAIN s |-> w[s[i]]]
  BY <1>1 DEF Alike
<1> QED BY <1>2, Zenon DEF SumBy

\* All of weight one.
LEMMA SumOnes ==
  ASSUME NEW S, NEW w, w \in [S -> Nat], NEW s, s \in Seq(S),
         \A i \in DOMAIN s : w[s[i]] = 1
  PROVE  SumBy(w, s) = Len(s)
<1> DEFINE f == [i \in DOMAIN s |-> w[s[i]]]
           D == 1 .. Len(s)
<1>1. DOMAIN s = D /\ Len(s) \in Nat
  OBVIOUS
<1>2. IsFiniteSet(D) /\ Cardinality(D) = Len(s)
  <2>1. IsFiniteSet(D) /\ Cardinality(D) = IF 1 > Len(s) THEN 0 ELSE Len(s) - 1 + 1
    BY ONLY <1>1, FS_Interval DEF D
  <2> QED BY <1>1, <2>1
<1>3. f = [i \in D |-> 1]
  BY <1>1
<1>4. SumBy(w, s) = Total(f)
  BY Zenon DEF SumBy
<1> HIDE DEF f, D
<1>5. Total(f) = 1 * Cardinality(D)
  BY <1>2, <1>3, TotalConstant
<1> QED BY <1>1, <1>2, <1>4, <1>5

-----------------------------------------------------------------------------
(* One call goes on                                                        *)

\* t are the calls when call i has come to state st with these offers.
Becomes(t, i, st, offers) ==
  /\ t \in Seq(Call) /\ Len(t) = Len(fan) /\ t[i] \in Call /\ Alters(t, fan, i, t[i])
  /\ \A k \in DOMAIN fan : k # i => t[k] = fan[k]
  /\ t[i].kind = fan[i].kind /\ t[i].batch = fan[i].batch
  /\ t[i].in = fan[i].in /\ t[i].out = fan[i].out
  /\ t[i].state = st /\ t[i].offers = offers

LEMMA MoveBecomes ==
  ASSUME fan \in Seq(Call), NEW i, i \in DOMAIN fan, NEW st, st \in States,
         NEW t, t = [fan EXCEPT ![i].state = st]
  PROVE  Becomes(t, i, st, fan[i].offers)
<1> DEFINE x == [fan[i] EXCEPT !.state = st]
<1>1. fan[i] \in Call
  OBVIOUS
<1>2. x \in Call /\ x.kind = fan[i].kind /\ x.batch = fan[i].batch /\ x.in = fan[i].in
      /\ x.out = fan[i].out /\ x.state = st /\ x.offers = fan[i].offers
  BY <1>1 DEF Call
<1>3. t = [fan EXCEPT ![i] = x]
  OBVIOUS
<1> HIDE DEF x
<1>4. t[i] = x /\ Len(t) = Len(fan) /\ \A k \in DOMAIN fan : k # i => t[k] = fan[k]
  BY <1>3
<1>5. t \in Seq(Call)
  BY <1>2, <1>3
<1>6. Alters(t, fan, i, t[i])
  BY <1>3, <1>4 DEF Alters
<1> QED BY <1>2, <1>4, <1>5, <1>6 DEF Becomes

LEMMA AnswerBecomes ==
  ASSUME fan \in Seq(Call), NEW i, i \in DOMAIN fan, NEW st, st \in States,
         NEW offers, offers \in Batch,
         NEW t, t = [fan EXCEPT ![i].state = st, ![i].offers = offers]
  PROVE  Becomes(t, i, st, offers)
<1> DEFINE x == [fan[i] EXCEPT !.state = st, !.offers = offers]
<1>1. fan[i] \in Call
  OBVIOUS
<1>2. x \in Call /\ x.kind = fan[i].kind /\ x.batch = fan[i].batch /\ x.in = fan[i].in
      /\ x.out = fan[i].out /\ x.state = st /\ x.offers = offers
  BY <1>1 DEF Call
<1>3. t = [fan EXCEPT ![i] = x]
  OBVIOUS
<1> HIDE DEF x
<1>4. t[i] = x /\ Len(t) = Len(fan) /\ \A k \in DOMAIN fan : k # i => t[k] = fan[k]
  BY <1>3
<1>5. t \in Seq(Call)
  <2>1. x \in Call
    BY <1>2
  <2> QED BY ONLY <1>3, <2>1, fan \in Seq(Call), i \in DOMAIN fan
<1>6. Alters(t, fan, i, t[i])
  BY <1>3, <1>4 DEF Alters
<1> QED BY <1>2, <1>4, <1>5, <1>6 DEF Becomes

LEMMA MoveSums ==
  ASSUME Document, fan \in Seq(Call), NEW i, i \in DOMAIN fan,
         NEW t, NEW st, NEW offers, Becomes(t, i, st, offers)
  PROVE  /\ SumBy(OwedIn, t) = SumBy(OwedIn, fan) - OwedIn[fan[i]] + OwedIn[t[i]]
         /\ SumBy(OwedOut, t) = SumBy(OwedOut, fan) - OwedOut[fan[i]] + OwedOut[t[i]]
         /\ SumBy(Unsent, t) = SumBy(Unsent, fan) - Unsent[fan[i]] + Unsent[t[i]]
         /\ SumBy(Sent, t) = SumBy(Sent, fan) - Sent[fan[i]] + Sent[t[i]]
         /\ SumBy(Asking, t) = SumBy(Asking, fan)
<1>1. t[i] \in Call /\ Alters(t, fan, i, t[i]) /\ t \in Seq(Call) /\ Len(t) = Len(fan)
      /\ (\A k \in DOMAIN fan : k # i => t[k] = fan[k]) /\ t[i].batch = fan[i].batch
  BY DEF Becomes
<1>2. ASSUME NEW w, w \in [Call -> Nat]
      PROVE  SumBy(w, t) = SumBy(w, fan) - w[fan[i]] + w[t[i]]
  <2> DEFINE x == t[i]
  <2>1. x \in Call /\ Alters(t, fan, i, x)
    BY <1>1
  <2> HIDE DEF x
  <2>2. SumBy(w, t) = SumBy(w, fan) - w[fan[i]] + w[x]
    BY ONLY <1>2, <2>1, fan \in Seq(Call), i \in DOMAIN fan, SumChange
  <2> QED BY <2>2 DEF x
<1>3. \A k \in DOMAIN fan : Asking[t[k]] = Asking[fan[k]]
  <2> SUFFICES ASSUME NEW k \in DOMAIN fan PROVE Asking[t[k]] = Asking[fan[k]]
    OBVIOUS
  <2>1. CASE k = i
    <3>1. Asking[t[i]] = Total(t[i].batch) /\ Asking[fan[i]] = Total(fan[i].batch)
      BY <1>1, CallIs
    <3> QED BY <1>1, <2>1, <3>1
  <2>2. CASE k # i
    BY <1>1, <2>2
  <2> QED BY <2>1, <2>2
<1>5. SumBy(Asking, t) = SumBy(Asking, fan)
  <2>1. t \in Seq(Call)
    BY <1>1
  <2>2. Alike(Asking, t, fan)
    BY <1>1, <1>3 DEF Alike
  <2> QED BY ONLY <2>1, <2>2, fan \in Seq(Call), SumSame
<1> QED BY <1>2, <1>5, WeightsTyped

LEMMA SumsTyped ==
  ASSUME Document, NEW t, t \in Seq(Call)
  PROVE  /\ SumBy(OwedIn, t) \in Nat /\ SumBy(OwedOut, t) \in Nat /\ SumBy(Asking, t) \in Nat
         /\ SumBy(Unsent, t) \in Nat /\ SumBy(Sent, t) \in Nat
BY WeightsTyped, SumNatural

LEMMA CourseMove ==
  ASSUME Types, Course, NEW i, i \in DOMAIN fan, NEW st, NEW offers,
         Becomes(fan', i, st, offers),
         UNCHANGED <<doc, stage, accepted, ending, result>>, answered \subseteq answered',
         st = "ok" => /\ fan[i].kind \in answered'
                      /\ fan[i].kind = "cards" => DOMAIN offers = DOMAIN fan[i].batch,
         ending # None => st \in {"leaving", "ok", "failed", "gone"},
         st \in {"held", "gone"} \/ fan[i].state \notin {"held", "gone"}
  PROVE  Course'
<1>1. /\ fan' \in Seq(Call) /\ Len(fan') = Len(fan) /\ \A k \in DOMAIN fan : k # i => fan'[k] = fan[k]
      /\ fan'[i].kind = fan[i].kind /\ fan'[i].batch = fan[i].batch
      /\ fan'[i].state = st /\ fan'[i].offers = offers
  BY DEF Becomes
<1>2. fan \in Seq(Call) /\ DOMAIN fan' = DOMAIN fan /\ fan # <<>> /\ fan' # <<>>
  <2>1. fan \in Seq(Call)
    BY DEF Types
  <2> QED BY <1>1, <2>1
<1>3. /\ (stage.at \in {"start", "over"} => fan = <<>>)'
      /\ (stage.at \in Kinds => doc # <<>> /\ fan # <<>>)'
      /\ (stage.at \in {"start", "map", "reduce"} => \A c \in Chunks : accepted[c] = 0)'
      /\ (result # None => stage.at = "over")'
      /\ (ending # None => stage.at # "start")'
  BY <1>2, SameDocument DEF Course
<1>4. ASSUME ending' # None, NEW k \in DOMAIN fan'
      PROVE  fan'[k].state \in {"leaving", "ok", "failed", "gone"}
  <2>1. CASE k = i
    BY <1>1, <1>4, <2>1
  <2>2. CASE k # i
    BY <1>1, <1>2, <1>4, <2>2 DEF Course
  <2> QED BY <2>1, <2>2
<1>5. ASSUME NEW k \in DOMAIN fan'
      PROVE  /\ fan'[k].kind = stage'.at
             /\ fan'[k].state = "ok" => fan'[k].kind \in answered'
             /\ ending' = None /\ fan'[k].state = "ok" /\ fan'[k].kind = "cards" =>
                   DOMAIN fan'[k].offers = DOMAIN fan'[k].batch
             /\ k = 1 \/ fan'[k].kind \in answered' \/ fan'[k].state \in {"held", "gone"}
  <2>0. /\ fan[k].kind = stage.at
        /\ fan[k].state = "ok" => fan[k].kind \in answered
        /\ ending = None /\ fan[k].state = "ok" /\ fan[k].kind = "cards" =>
              DOMAIN fan[k].offers = DOMAIN fan[k].batch
        /\ k = 1 \/ fan[k].kind \in answered \/ fan[k].state \in {"held", "gone"}
    BY <1>2 DEF Course
  <2>1. CASE k = i
    BY <1>1, <2>0, <2>1
  <2>2. CASE k # i
    <3>1. fan'[k] = fan[k]
      BY <1>1, <1>2, <2>2
    <3> QED BY <2>0, <3>1
  <2> QED BY <2>1, <2>2
<1>6. \A k \in DOMAIN fan : fan'[k].batch = fan[k].batch
  BY <1>1
<1>7. ASSUME NEW k \in DOMAIN fan', NEW l \in DOMAIN fan', k # l
      PROVE  ~Shares(fan'[k].batch, fan'[l].batch)
  BY <1>2, <1>6, <1>7 DEF Course
<1> QED BY <1>3, <1>4, <1>5, <1>7 DEF Course

\* The cards taken and asked for stay as they are while no wave is over.
LEMMA QuotasSame ==
  ASSUME Types, Quotas, UNCHANGED <<doc, stage, requested, accepted, result>>,
         fan' \in Seq(Call), SumBy(Asking, fan') = SumBy(Asking, fan)
  PROVE  Quotas'
<1>1. Chunks' = Chunks /\ Asking' = Asking /\ InWave' = InWave
  BY SameDocument
<1>2. CardsOf(stage.waves)' = CardsOf(stage.waves)
  BY <1>1 DEF CardsOf
<1>3. CardsExact'
  BY <1>1 DEF Quotas, CardsExact
<1>4. SumBy(Asking, fan)' = SumBy(Asking, fan)
  BY <1>1
<1> QED BY <1>2, <1>3, <1>4 DEF Quotas

LEMMA SameWays ==
  ASSUME UNCHANGED <<doc, packs>>
  PROVE  Summarised' = Summarised /\ SummaryCalls' = SummaryCalls
BY DEF Summarised, SummaryCalls

LEMMA TypesParts ==
  ASSUME Types
  PROVE  /\ Document /\ fan \in Seq(Call) /\ doc \in Seq([page : Nat, tokens : Nat])
         /\ \A i \in DOMAIN fan : fan[i] \in Call
         /\ books.used.in \in Int /\ books.used.out \in Int
         /\ books.pending.in \in Int /\ books.pending.out \in Int
         /\ books.uncertain.in \in Int /\ books.uncertain.out \in Int
         /\ spent.in \in Int /\ spent.out \in Int /\ beyond.in \in Nat /\ beyond.out \in Nat
         /\ sent.map \in Nat /\ sent.reduce \in Nat /\ sent.cards \in Nat
<1>1. /\ Document /\ fan \in Seq(Call) /\ doc \in Seq([page : Nat, tokens : Nat])
      /\ \A i \in DOMAIN fan : fan[i] \in Call
  BY DEF Types, Document
<1>2. /\ books.used \in Usage /\ books.pending \in Usage /\ books.uncertain \in Usage
      /\ spent \in Usage
  BY DEF Types
<1>3. /\ beyond.in \in Nat /\ beyond.out \in Nat
      /\ sent.map \in Nat /\ sent.reduce \in Nat /\ sent.cards \in Nat
  BY DEF Types
<1> QED BY <1>1, <1>2, <1>3 DEF Usage

Cost(i, o) == i * InputPrice + o * OutputPrice

Bounded(s, o, n, m) ==
  /\ s <= MaxInput + n /\ o <= MaxOutput + m
  /\ Cost(s, o) <= MaxCost + n * InputPrice + m * OutputPrice

LEMMA Dearer ==
  ASSUME NEW a \in Int, NEW b \in Int, NEW c \in Int, NEW d \in Int, NEW p \in Nat, a - b <= c - d
  PROVE  a * p - b * p <= c * p - d * p
<1> DEFINE x == a - b
           y == c - d
<1>1. x \in Int /\ y \in Int /\ x <= y
  OBVIOUS
<1>2. x * p = a * p - b * p /\ y * p = c * p - d * p
  OBVIOUS
<1> HIDE DEF x, y
<1>3. x * p <= y * p
  BY <1>1
<1> QED BY <1>2, <1>3

\* A bound holds on as long as less is added to the amounts than to what is excused.
LEMMA BoundedStays ==
  ASSUME NEW s \in Int, NEW o \in Int, NEW n \in Nat, NEW m \in Nat, Bounded(s, o, n, m),
         NEW t \in Int, NEW q \in Int, NEW k \in Nat, NEW l \in Nat,
         t - k <= s - n, q - l <= o - m
  PROVE  Bounded(t, q, k, l)
<1>1. /\ MaxInput \in Nat /\ MaxOutput \in Nat /\ InputPrice \in Nat /\ OutputPrice \in Nat
      /\ MaxCost \in Nat
  BY Numbers
<1>2. /\ s <= MaxInput + n /\ o <= MaxOutput + m
      /\ s * InputPrice + o * OutputPrice <= MaxCost + n * InputPrice + m * OutputPrice
  BY DEF Bounded, Cost
<1>3. t <= MaxInput + k /\ q <= MaxOutput + l
  BY <1>1, <1>2
<1>4. /\ t * InputPrice - k * InputPrice <= s * InputPrice - n * InputPrice
      /\ q * OutputPrice - l * OutputPrice <= o * OutputPrice - m * OutputPrice
  BY <1>1, Dearer
<1>5. /\ t * InputPrice \in Int /\ k * InputPrice \in Int /\ s * InputPrice \in Int
      /\ n * InputPrice \in Int /\ q * OutputPrice \in Int /\ l * OutputPrice \in Int
      /\ o * OutputPrice \in Int /\ m * OutputPrice \in Int
  BY <1>1
<1>6. t * InputPrice + q * OutputPrice <= MaxCost + k * InputPrice + l * OutputPrice
  BY ONLY <1>1, <1>2, <1>4, <1>5
<1> QED BY <1>3, <1>6 DEF Bounded, Cost

\* What a budget allows is bounded.
LEMMA WithinBounded ==
  ASSUME NEW s \in Int, NEW o \in Int, Within([in |-> s, out |-> o])
  PROVE  Bounded(s, o, 0, 0)
<1>1. s <= MaxInput /\ o <= MaxOutput /\ s * InputPrice + o * OutputPrice <= MaxCost
  BY DEF Within
<1>2. /\ MaxInput \in Nat /\ MaxOutput \in Nat /\ InputPrice \in Nat /\ OutputPrice \in Nat
      /\ MaxCost \in Nat
  BY Numbers
<1>3. 0 * InputPrice = 0 /\ 0 * OutputPrice = 0
  BY <1>2
<1> QED BY <1>1, <1>2, <1>3 DEF Bounded, Cost

\* The step adds no more to what the provider counts than to what is beyond.
NoDearer ==
  /\ spent' \in Usage /\ beyond' \in [in : Nat, out : Nat]
  /\ spent'.in - beyond'.in <= spent.in - beyond.in
  /\ spent'.out - beyond'.out <= spent.out - beyond.out

LEMMA SameNoDearer ==
  ASSUME Types, UNCHANGED <<spent, beyond>>
  PROVE  NoDearer
<1>1. spent \in Usage /\ beyond \in [in : Nat, out : Nat]
  BY DEF Types
<1>2. spent'.in - beyond'.in <= spent.in - beyond.in /\ spent'.out - beyond'.out <= spent.out - beyond.out
  BY TypesParts
<1>3. Usage' = Usage
  BY DEF Usage
<1> QED BY <1>1, <1>2, <1>3 DEF NoDearer

LEMMA NoDearerBounded ==
  ASSUME Types, SpendingBounded, NoDearer
  PROVE  SpendingBounded'
<1>1. spent.in \in Int /\ spent.out \in Int /\ beyond.in \in Nat /\ beyond.out \in Nat
  BY TypesParts
<1>2. spent'.in \in Int /\ spent'.out \in Int /\ beyond'.in \in Nat /\ beyond'.out \in Nat
  BY DEF NoDearer, Usage
<1>3. Bounded(spent.in, spent.out, beyond.in, beyond.out)
  BY DEF SpendingBounded, Bounded, Cost
<1>4. Bounded(spent'.in, spent'.out, beyond'.in, beyond'.out)
  BY <1>1, <1>2, <1>3, BoundedStays DEF NoDearer
<1> QED BY <1>4 DEF SpendingBounded, Bounded, Cost

\* Amounts of tokens.
LEMMA UsageMade ==
  ASSUME NEW a \in Int, NEW b \in Int
  PROVE  /\ [in |-> a, out |-> b] \in Usage
         /\ [in |-> a, out |-> b].in = a /\ [in |-> a, out |-> b].out = b
BY DEF Usage

LEMMA UsageSame ==
  ASSUME NEW a, a \in Usage, NEW b, b \in Usage, a.in = b.in, a.out = b.out
  PROVE  a = b
BY DEF Usage

LEMMA UsageSums ==
  ASSUME NEW a, a \in Usage, NEW b, b \in Usage
  PROVE  /\ Plus(a, b) \in Usage /\ Minus(a, b) \in Usage
         /\ Plus(a, b).in = a.in + b.in /\ Plus(a, b).out = a.out + b.out
         /\ Minus(a, b).in = a.in - b.in /\ Minus(a, b).out = a.out - b.out
<1>1. a.in \in Int /\ a.out \in Int /\ b.in \in Int /\ b.out \in Int
  BY DEF Usage
<1>2. /\ a.in + b.in \in Int /\ a.out + b.out \in Int
      /\ a.in - b.in \in Int /\ a.out - b.out \in Int
  BY <1>1
<1>3. Plus(a, b) = [in |-> a.in + b.in, out |-> a.out + b.out]
      /\ Minus(a, b) = [in |-> a.in - b.in, out |-> a.out - b.out]
  BY DEF Plus, Minus
<1> QED BY ONLY <1>2, <1>3, UsageMade

LEMMA EnvelopeIs ==
  ASSUME Document, NEW x, x \in Call
  PROVE  Envelope(x) \in Usage /\ Envelope(x).in = x.in /\ Envelope(x).out = x.out
<1>1. x.in \in Int /\ x.out \in Int
  BY CallIs
<1> QED BY <1>1, UsageMade DEF Envelope

LEMMA AccountsParts ==
  ASSUME Types, Accounts
  PROVE  /\ spent.in <= books.used.in + books.pending.in + books.uncertain.in + beyond.in
         /\ spent.out <= books.used.out + books.pending.out + books.uncertain.out + beyond.out
         /\ books.pending.in = SumBy(OwedIn, fan) /\ books.pending.out = SumBy(OwedOut, fan)
         /\ SpendingBounded
BY DEF Accounts

LEMMA AccountsMade ==
  ASSUME Types', SpendingBounded',
         spent'.in <= books'.used.in + books'.pending.in + books'.uncertain.in + beyond'.in,
         spent'.out <= books'.used.out + books'.pending.out + books'.uncertain.out + beyond'.out,
         books'.pending.in = SumBy(OwedIn', fan'), books'.pending.out = SumBy(OwedOut', fan')
  PROVE  Accounts'
<1> DEFINE p == [in |-> SumBy(OwedIn', fan'), out |-> SumBy(OwedOut', fan')]
<1>1. books'.pending \in Usage
  BY DEF Types, Usage
<1>2. books'.pending = p
  <2>1. books'.pending.in \in Int /\ books'.pending.out \in Int
    BY <1>1 DEF Usage
  <2>2. p.in = books'.pending.in /\ p.out = books'.pending.out /\ p \in Usage
    BY <2>1 DEF Usage
  <2> HIDE DEF p
  <2> QED BY <1>1, <2>2, UsageSame
<1> QED BY <1>2 DEF Accounts

\* The books of a step that leaves what is charged alone.
LEMMA ChargedKept ==
  ASSUME Types, Types', Accounts, NoDearer,
         books'.used.in + books'.pending.in + books'.uncertain.in
            = books.used.in + books.pending.in + books.uncertain.in,
         books'.used.out + books'.pending.out + books'.uncertain.out
            = books.used.out + books.pending.out + books.uncertain.out,
         books'.pending.in = SumBy(OwedIn', fan'), books'.pending.out = SumBy(OwedOut', fan')
  PROVE  Accounts'
<1> DEFINE c == books.used.in + books.pending.in + books.uncertain.in
           e == books.used.out + books.pending.out + books.uncertain.out
           f == books'.used.in + books'.pending.in + books'.uncertain.in
           g == books'.used.out + books'.pending.out + books'.uncertain.out
<1>1. c \in Int /\ e \in Int /\ spent.in \in Int /\ spent.out \in Int
      /\ beyond.in \in Nat /\ beyond.out \in Nat
  <2>1. /\ books.used.in \in Int /\ books.used.out \in Int
        /\ books.pending.in \in Int /\ books.pending.out \in Int
        /\ books.uncertain.in \in Int /\ books.uncertain.out \in Int
        /\ spent.in \in Int /\ spent.out \in Int /\ beyond.in \in Nat /\ beyond.out \in Nat
    BY TypesParts
  <2> QED BY ONLY <2>1
<1>2. spent'.in \in Int /\ spent'.out \in Int /\ beyond'.in \in Nat /\ beyond'.out \in Nat
      /\ spent'.in - beyond'.in <= spent.in - beyond.in
      /\ spent'.out - beyond'.out <= spent.out - beyond.out
  BY DEF NoDearer, Usage
<1>3. spent.in <= c + beyond.in /\ spent.out <= e + beyond.out /\ SpendingBounded
  BY AccountsParts
<1>4. f = c /\ g = e
  OBVIOUS
<1>5. SpendingBounded'
  BY <1>3, NoDearerBounded
<1> HIDE DEF c, e, f, g
<1>6. spent'.in <= f + beyond'.in /\ spent'.out <= g + beyond'.out
  BY ONLY <1>1, <1>2, <1>3, <1>4
<1> QED BY <1>5, <1>6, AccountsMade DEF f, g

\* What the provider counts for an attempt that has ended.
LEMMA CountedIs ==
  ASSUME Document, NEW x, x \in Call, NEW u, u \in Counted(x)
  PROVE  u \in Usage /\ u.in \in Nat /\ u.out \in Nat
<1>1. Zero \in Usage /\ Zero.in = 0 /\ Zero.out = 0
  BY DEF Zero, Usage
<1>2. CASE u = Zero
  BY <1>1, <1>2
<1>3. CASE u # Zero
  <2>1. PICK d \in Drift \cup {Zero} : u = Plus(Envelope(x), d) /\ u.in >= 0 /\ u.out >= 0
    BY <1>3 DEF Counted, Receipts
  <2>2. d \in Usage /\ Envelope(x) \in Usage
    BY <1>1, Numbers, EnvelopeIs DEF Usage
  <2>3. u \in Usage
    BY <2>1, <2>2, UsageSums
  <2> QED BY <2>1, <2>3 DEF Usage
<1> QED BY <1>2, <1>3

LEMMA AttemptEndsIs ==
  ASSUME Types, NEW x, x \in Call, NEW u, u \in Counted(x), AttemptEnds(x, u)
  PROVE  /\ NoDearer
         /\ spent'.in = spent.in - x.in + u.in /\ spent'.out = spent.out - x.out + u.out
         /\ beyond.in <= beyond'.in /\ beyond.out <= beyond'.out
<1>1. /\ Document /\ spent.in \in Int /\ spent.out \in Int
      /\ beyond.in \in Nat /\ beyond.out \in Nat
  BY TypesParts
<1>2. x.in \in Nat /\ x.out \in Nat
  BY <1>1, CallIs
<1>3. u \in Usage /\ u.in \in Nat /\ u.out \in Nat
  BY <1>1, CountedIs
<1>4. Envelope(x) \in Usage /\ Envelope(x).in = x.in /\ Envelope(x).out = x.out
  BY <1>1, EnvelopeIs
<1> DEFINE e == Excess(u, Envelope(x))
           p == Minus(spent, Envelope(x))
           q == Plus(p, u)
           n == u.in - Least(u.in, x.in)
           m == u.out - Least(u.out, x.out)
<1>5. n \in Nat /\ m \in Nat /\ u.in - x.in <= n /\ u.out - x.out <= m
  BY <1>2, <1>3 DEF Least
<1>6. e = [in |-> n, out |-> m]
  BY <1>4 DEF Excess
<1> HIDE DEF n, m
<1>7. e \in Usage /\ e.in = n /\ e.out = m
  <2> HIDE DEF e
  <2> QED BY <1>5, <1>6, UsageMade
<1>8. spent \in Usage /\ beyond \in [in : Nat, out : Nat]
  BY DEF Types
<1>9. p \in Usage /\ p.in = spent.in - x.in /\ p.out = spent.out - x.out
  BY <1>4, <1>8, UsageSums
<1>10. q \in Usage /\ q.in = p.in + u.in /\ q.out = p.out + u.out
  <2> HIDE DEF p
  <2> QED BY <1>3, <1>9, UsageSums
<1>11. spent' = q /\ beyond' = Plus(beyond, e)
  BY DEF AttemptEnds
<1> HIDE DEF p, q, e
<1>12. beyond' = [in |-> beyond.in + n, out |-> beyond.out + m]
  BY <1>7, <1>11 DEF Plus
<1>13. beyond' \in [in : Nat, out : Nat] /\ beyond'.in = beyond.in + n /\ beyond'.out = beyond.out + m
  <2>1. beyond.in + n \in Nat /\ beyond.out + m \in Nat
    BY <1>1, <1>5
  <2> QED BY <1>12, <2>1
<1>14. spent'.in = spent.in - x.in + u.in /\ spent'.out = spent.out - x.out + u.out
       /\ spent' \in Usage
  BY <1>9, <1>10, <1>11
<1>15. /\ spent'.in - beyond'.in <= spent.in - beyond.in
       /\ spent'.out - beyond'.out <= spent.out - beyond.out
       /\ beyond.in <= beyond'.in /\ beyond.out <= beyond'.out
  BY ONLY <1>1, <1>2, <1>3, <1>5, <1>13, <1>14
<1> QED BY <1>13, <1>14, <1>15 DEF NoDearer

-----------------------------------------------------------------------------
(* The calls of the summaries                                              *)

LEMMA Quotient ==
  ASSUME NEW m \in Nat, NEW n \in Nat \ {0}, NEW q \in Nat, NEW r \in 0 .. n - 1, m = n * q + r
  PROVE  m \div n = q /\ m % n = r
<1> DEFINE p == m \div n
           s == m % n
<1>1. p \in Nat /\ s \in 0 .. n - 1 /\ m = n * p + s
  BY Division
<1> HIDE DEF p, s
<1>2. ASSUME NEW a \in Nat, NEW b \in Nat, a + 1 <= b PROVE n * a + n <= n * b
  <2>1. b = a + 1 + (b - (a + 1)) /\ b - (a + 1) \in Nat
    BY <1>2
  <2>2. PICK d \in Nat : b = a + 1 + d
    BY <2>1
  <2>3. n * b = n * a + n + n * d /\ n * d >= 0
    BY <2>2
  <2>4. n * d \in Nat /\ n * a \in Nat
    OBVIOUS
  <2> QED BY <2>3, <2>4
<1>3. n * p \in Nat /\ n * q \in Nat
  BY <1>1
<1>4. ~(p + 1 <= q)
  BY <1>1, <1>2, <1>3
<1>5. ~(q + 1 <= p)
  BY <1>1, <1>2, <1>3
<1>6. p = q
  BY <1>1, <1>4, <1>5
<1>7. s = r
  BY <1>1, <1>3, <1>6
<1> QED BY <1>6, <1>7 DEF p, s

\* A full group more is one call more, and one summary more in the level above.
LEMMA LevelGrows ==
  ASSUME NEW m \in Nat, m >= GroupSize
  PROVE  /\ InLevel(m) = 1 + InLevel(m - GroupSize)
         /\ Above(m) = 1 + Above(m - GroupSize)
<1> DEFINE G == GroupSize
           a == m - G
           b == a + G - 1
<1>1. G \in Nat \ {0} /\ G >= 2
  BY Numbers
<1>2. a \in Nat /\ m = a + G /\ b \in Nat
  BY <1>1
<1> HIDE DEF a, b
<1>3. ASSUME NEW x \in Nat PROVE (x + G) \div G = (x \div G) + 1 /\ (x + G) % G = x % G
  <2> HIDE DEF G
  <2> DEFINE q == x \div G
             r == x % G
             p == q + 1
             y == x + G
  <2>1. q \in Nat /\ r \in 0 .. G - 1 /\ x = G * q + r
    BY <1>1, Division
  <2> HIDE DEF q, r
  <2>2. p \in Nat /\ y \in Nat /\ G * p = G * q + G
    BY <1>1, <2>1
  <2>3. y = G * p + r
    BY <1>1, <2>1, <2>2
  <2> HIDE DEF p, y
  <2>4. y \div G = p /\ y % G = r
    BY <1>1, <2>1, <2>2, <2>3, Quotient
  <2> QED BY <2>4 DEF y, p, q, r
<1>4. (a + G) \div G = (a \div G) + 1 /\ (a + G) % G = a % G
  BY <1>2, <1>3
<1>5. (b + G) \div G = (b \div G) + 1
  BY <1>2, <1>3
<1>6. InLevel(m) = 1 + InLevel(a)
  <2>1. a \div G \in Nat
    BY <1>1, <1>2, Division
  <2>2. InLevel(m) = ((a \div G) + 1) + (IF a % G > 1 THEN 1 ELSE 0)
    BY <1>2, <1>4 DEF InLevel
  <2>3. InLevel(a) = (a \div G) + (IF a % G > 1 THEN 1 ELSE 0)
    BY DEF InLevel
  <2>4. CASE a % G > 1
    BY <2>1, <2>2, <2>3, <2>4
  <2>5. CASE ~(a % G > 1)
    BY <2>1, <2>2, <2>3, <2>5
  <2> QED BY <2>4, <2>5
<1>7. Above(m) = 1 + Above(a)
  <2>1. m + G - 1 = b + G
    BY <1>1, <1>2 DEF b
  <2>2. Above(m) = (b + G) \div G
    BY <2>1 DEF Above
  <2>3. Above(a) = b \div G
    BY DEF Above, b
  <2>4. b \div G \in Nat
    BY <1>1, <1>2, Division
  <2> QED BY <1>5, <2>2, <2>3, <2>4
<1> QED BY <1>6, <1>7 DEF a

\* Less than a group is one call, unless it is a single summary or none.
LEMMA LevelSmall ==
  ASSUME NEW m \in Nat, m < GroupSize
  PROVE  /\ InLevel(m) = (IF m > 1 THEN 1 ELSE 0)
         /\ Above(m) = (IF m > 0 THEN 1 ELSE 0)
<1>1. GroupSize \in Nat \ {0} /\ GroupSize >= 2
  BY Numbers
<1>2. m \div GroupSize = 0 /\ m % GroupSize = m
  <2>1. m = GroupSize * 0 + m /\ m \in 0 .. GroupSize - 1
    BY <1>1
  <2> QED BY <1>1, <2>1, Quotient
<1>3. InLevel(m) = (IF m > 1 THEN 1 ELSE 0)
  BY <1>2 DEF InLevel
<1>4. CASE m > 0
  <2> DEFINE x == m + GroupSize - 1
             r == m - 1
  <2>1. x \in Nat /\ r \in 0 .. GroupSize - 1 /\ x = GroupSize * 1 + r
    BY <1>1, <1>4
  <2> HIDE DEF x, r
  <2>2. x \div GroupSize = 1
    BY <1>1, <2>1, Quotient
  <2> QED BY <1>3, <1>4, <2>2 DEF x, Above
<1>5. CASE m = 0
  <2> DEFINE x == m + GroupSize - 1
  <2>1. x \in Nat /\ x \in 0 .. GroupSize - 1 /\ x = GroupSize * 0 + x
    BY <1>1, <1>5
  <2> HIDE DEF x
  <2>2. x \div GroupSize = 0
    BY <1>1, <2>1, Quotient
  <2> QED BY <1>3, <1>5, <2>2 DEF x, Above
<1> QED BY <1>4, <1>5

LEMMA LevelTyped ==
  ASSUME NEW m \in Nat
  PROVE  InLevel(m) \in Nat /\ Above(m) \in Nat
<1>1. GroupSize \in Nat \ {0} /\ GroupSize >= 2
  BY Numbers
<1>2. InLevel(m) \in Nat
  <2>1. m \div GroupSize \in Nat
    BY <1>1, Division
  <2> QED BY <2>1 DEF InLevel
<1>3. Above(m) \in Nat
  <2> DEFINE x == m + GroupSize - 1
  <2>1. x \in Nat
    BY <1>1
  <2> HIDE DEF x
  <2>2. x \div GroupSize \in Nat
    BY <1>1, <2>1, Division
  <2> QED BY <2>2 DEF x, Above
<1> QED BY <1>2, <1>3

\* A level has fewer summaries than the one below it.
LEMMA LevelFalls ==
  ASSUME NEW m \in Nat, m >= 2
  PROVE  Above(m) \in 1 .. m - 1
<1> DEFINE x == m + GroupSize - 1
           q == x \div GroupSize
<1>1. GroupSize \in Nat \ {0} /\ GroupSize >= 2
  BY Numbers
<1>2. x \in Nat
  BY <1>1
<1>3. q \in Nat /\ x % GroupSize \in 0 .. GroupSize - 1 /\ x = GroupSize * q + (x % GroupSize)
  <2> HIDE DEF x
  <2> QED BY <1>1, <1>2, Division
<1>4. q = Above(m)
  BY DEF Above
<1> HIDE DEF q
<1>5. q # 0
  <2>1. SUFFICES ASSUME q = 0 PROVE FALSE
    OBVIOUS
  <2>2. GroupSize * q = 0
    BY <1>1, <2>1
  <2> QED BY <1>1, <1>3, <2>2
<1>6. ~(q >= m)
  <2> SUFFICES ASSUME q >= m PROVE FALSE
    OBVIOUS
  <2>1. PICK g \in Nat : GroupSize = g + 2
    <3>1. GroupSize - 2 \in Nat /\ GroupSize = (GroupSize - 2) + 2
      BY <1>1
    <3> QED BY <3>1
  <2>2. PICK k \in Nat : m = k + 2
    <3>1. m - 2 \in Nat /\ m = (m - 2) + 2
      OBVIOUS
    <3> QED BY <3>1
  <2>3. PICK d \in Nat : q = m + d
    <3>1. q - m \in Nat /\ q = m + (q - m)
      BY <1>3
    <3> QED BY <3>1
  <2>4. GroupSize * q = g * k + 2 * g + g * d + 2 * k + 4 + 2 * d
    BY <2>1, <2>2, <2>3
  <2>5. g * k \in Nat /\ g * d \in Nat
    OBVIOUS
  <2>6. x = k + g + 3
    BY <2>1, <2>2
  <2> QED BY <1>3, <2>4, <2>5, <2>6
<1> QED BY <1>3, <1>4, <1>5, <1>6

\* calls are those of the summaries of any number up to n (_reduce_call_count).
Counts(calls, n) ==
  calls = [m \in 0 .. n |->
             IF m <= 1 THEN 0
             ELSE (m \div GroupSize) + (IF m % GroupSize > 1 THEN 1 ELSE 0)
                  + calls[(m + GroupSize - 1) \div GroupSize]]

LEMMA CountsAre ==
  ASSUME NEW calls, NEW n \in Nat
  PROVE  Counts(calls, n) <=>
           calls = [m \in 0 .. n |-> IF m <= 1 THEN 0 ELSE InLevel(m) + calls[Above(m)]]
BY DEF Counts, InLevel, Above

LEMMA CountsExist ==
  ASSUME NEW n \in Nat
  PROVE  \E calls \in [0 .. n -> Nat] : Counts(calls, n)
<1> DEFINE Bad == {k \in Nat : ~\E calls \in [0 .. k -> Nat] : Counts(calls, k)}
<1>1. SUFFICES ASSUME Bad # {} PROVE FALSE
  OBVIOUS
<1>2. PICK k \in Bad : \A y \in Bad : k <= y
  <2>1. Bad \subseteq Nat
    OBVIOUS
  <2> HIDE DEF Bad
  <2> QED BY <1>1, <2>1, LeastNumber
<1>3. k \in Nat /\ ~\E calls \in [0 .. k -> Nat] : Counts(calls, k)
  BY <1>2
<1>4. ASSUME NEW calls, calls \in [0 .. k -> Nat],
             \A m \in 0 .. k : calls[m] = (IF m <= 1 THEN 0 ELSE InLevel(m) + calls[Above(m)])
      PROVE  FALSE
  <2>1. calls = [m \in 0 .. k |-> calls[m]]
    BY <1>4
  <2>2. calls = [m \in 0 .. k |-> IF m <= 1 THEN 0 ELSE InLevel(m) + calls[Above(m)]]
    BY <1>4, <2>1
  <2>3. Counts(calls, k)
    BY <1>3, <2>2, CountsAre
  <2> QED BY <1>3, <1>4, <2>3
<1>5. CASE k <= 1
  <2> DEFINE calls == [m \in 0 .. k |-> 0]
  <2>1. calls \in [0 .. k -> Nat]
    OBVIOUS
  <2>2. \A m \in 0 .. k : calls[m] = (IF m <= 1 THEN 0 ELSE InLevel(m) + calls[Above(m)])
    BY <1>3, <1>5
  <2> HIDE DEF calls
  <2> QED BY <1>4, <2>1, <2>2
<1>6. CASE k >= 2
  <2>1. k - 1 \in Nat /\ ~(k <= k - 1)
    BY <1>3, <1>6
  <2>2. k - 1 \notin Bad
    BY <1>2, <2>1
  <2>3. PICK f \in [0 .. k - 1 -> Nat] : Counts(f, k - 1)
    BY <2>1, <2>2
  <2>4. f = [m \in 0 .. k - 1 |-> IF m <= 1 THEN 0 ELSE InLevel(m) + f[Above(m)]]
    BY <2>1, <2>3, CountsAre
  <2>5. Above(k) \in 1 .. k - 1 /\ InLevel(k) \in Nat
    BY <1>3, <1>6, LevelFalls, LevelTyped
  <2> DEFINE v == InLevel(k) + f[Above(k)]
             calls == [m \in 0 .. k |-> IF m = k THEN v ELSE f[m]]
  <2>6. f[Above(k)] \in Nat
    BY <2>3, <2>5
  <2>7. v \in Nat
    BY <2>5, <2>6
  <2>8. \A m \in 0 .. k : m # k => m \in 0 .. k - 1
    BY <1>3
  <2>9. calls \in [0 .. k -> Nat]
    <3> HIDE DEF v
    <3> QED BY <2>3, <2>7, <2>8
  <2>10. ASSUME NEW m \in 0 .. k
         PROVE  calls[m] = (IF m <= 1 THEN 0 ELSE InLevel(m) + calls[Above(m)])
    <3>1. CASE m = k
      <4>1. Above(k) \in 0 .. k /\ Above(k) # k
        BY <1>3, <2>5
      <4>2. calls[Above(k)] = f[Above(k)] /\ calls[k] = v
        BY <4>1, <1>3
      <4> QED BY <1>6, <3>1, <4>2
    <3>2. CASE m # k /\ m <= 1
      <4>1. calls[m] = f[m] /\ m \in 0 .. k - 1
        BY <2>8, <3>2
      <4>2. f[m] = 0
        BY <2>4, <3>2, <4>1
      <4> QED BY <3>2, <4>1, <4>2
    <3>3. CASE m # k /\ ~(m <= 1)
      <4>1. calls[m] = f[m] /\ m \in 0 .. k - 1 /\ m \in Nat /\ m >= 2
        BY <2>8, <3>3
      <4>2. f[m] = InLevel(m) + f[Above(m)]
        BY <2>4, <3>3, <4>1
      <4>3. Above(m) \in 1 .. m - 1
        BY <4>1, LevelFalls
      <4>4. Above(m) \in 0 .. k /\ Above(m) # k
        BY <1>3, <4>1, <4>3
      <4>5. calls[Above(m)] = f[Above(m)]
        BY <4>4
      <4> QED BY <3>3, <4>1, <4>2, <4>5
    <3> QED BY <3>1, <3>2, <3>3
  <2> HIDE DEF calls
  <2> QED BY <1>4, <2>9, <2>10
<1> QED BY <1>3, <1>5, <1>6

LEMMA CountsAgree ==
  ASSUME NEW n \in Nat, NEW f, Counts(f, n), NEW k \in Nat, NEW g, Counts(g, k),
         NEW j \in 0 .. n, j \in 0 .. k
  PROVE  f[j] = g[j]
<1> DEFINE Bad == {m \in Nat : m \in 0 .. n /\ m \in 0 .. k /\ f[m] # g[m]}
<1>1. SUFFICES ASSUME Bad # {} PROVE FALSE
  <2>1. j \in Nat
    OBVIOUS
  <2> QED BY <2>1
<1>2. PICK m \in Bad : \A y \in Bad : m <= y
  <2>1. Bad \subseteq Nat
    OBVIOUS
  <2> HIDE DEF Bad
  <2> QED BY <1>1, <2>1, LeastNumber
<1>3. m \in Nat /\ m \in 0 .. n /\ m \in 0 .. k /\ f[m] # g[m]
  BY <1>2
<1>4. f[m] = (IF m <= 1 THEN 0 ELSE InLevel(m) + f[Above(m)])
  <2>1. f = [i \in 0 .. n |-> IF i <= 1 THEN 0 ELSE InLevel(i) + f[Above(i)]]
    BY CountsAre
  <2> QED BY <1>3, <2>1
<1>5. g[m] = (IF m <= 1 THEN 0 ELSE InLevel(m) + g[Above(m)])
  <2>1. g = [i \in 0 .. k |-> IF i <= 1 THEN 0 ELSE InLevel(i) + g[Above(i)]]
    BY CountsAre
  <2> QED BY <1>3, <2>1
<1>6. m >= 2
  BY <1>3, <1>4, <1>5
<1>7. Above(m) \in 1 .. m - 1
  BY <1>3, <1>6, LevelFalls
<1>8. Above(m) \in Nat /\ Above(m) \in 0 .. n /\ Above(m) \in 0 .. k /\ ~(m <= Above(m))
  BY <1>3, <1>7
<1>9. f[Above(m)] = g[Above(m)]
  BY <1>2, <1>8
<1> QED BY <1>3, <1>4, <1>5, <1>9

LEMMA ReduceCallsCount ==
  ASSUME NEW n \in Nat
  PROVE  \E calls \in [0 .. n -> Nat] : Counts(calls, n) /\ ReduceCalls(n) = calls[n]
<1> DEFINE c == CHOOSE calls : Counts(calls, n)
<1>1. \E calls : Counts(calls, n)
  BY CountsExist
<1>2. Counts(c, n)
  BY <1>1
<1>3. ReduceCalls(n) = c[n]
  BY Zenon DEF ReduceCalls, Counts
<1> HIDE DEF c
<1>4. PICK f \in [0 .. n -> Nat] : Counts(f, n)
  BY CountsExist
<1>5. c = f
  <2>1. ASSUME NEW j \in 0 .. n PROVE c[j] = f[j]
    BY <1>2, <1>4, CountsAgree
  <2>2. c = [j \in 0 .. n |-> c[j]]
    <3>1. c = [m \in 0 .. n |-> IF m <= 1 THEN 0 ELSE InLevel(m) + c[Above(m)]]
      BY <1>2, CountsAre
    <3> QED BY <3>1
  <2> QED BY <1>4, <2>1, <2>2
<1> QED BY <1>3, <1>4, <1>5

\* The calls of n summaries are those of their level and of the one above it.
LEMMA ReduceCallsLevels ==
  ASSUME NEW n \in Nat
  PROVE  /\ ReduceCalls(n) \in Nat
         /\ n <= 1 => ReduceCalls(n) = 0
         /\ n >= 2 => ReduceCalls(n) = InLevel(n) + ReduceCalls(Above(n))
<1>1. PICK f \in [0 .. n -> Nat] : Counts(f, n) /\ ReduceCalls(n) = f[n]
  BY ReduceCallsCount
<1>2. f = [m \in 0 .. n |-> IF m <= 1 THEN 0 ELSE InLevel(m) + f[Above(m)]]
  BY <1>1, CountsAre
<1>3. n \in 0 .. n
  OBVIOUS
<1>4. f[n] = (IF n <= 1 THEN 0 ELSE InLevel(n) + f[Above(n)]) /\ f[n] \in Nat
  BY <1>1, <1>2, <1>3
<1>5. ASSUME n >= 2 PROVE ReduceCalls(n) = InLevel(n) + ReduceCalls(Above(n))
  <2>1. Above(n) \in 1 .. n - 1
    BY <1>5, LevelFalls
  <2> DEFINE a == Above(n)
  <2>2. a \in Nat /\ a \in 0 .. a /\ a \in 0 .. n
    BY <2>1
  <2> HIDE DEF a
  <2>3. PICK g \in [0 .. a -> Nat] : Counts(g, a) /\ ReduceCalls(a) = g[a]
    BY <2>2, ReduceCallsCount
  <2>4. f[a] = g[a]
    BY <1>1, <2>2, <2>3, CountsAgree
  <2> QED BY <1>1, <1>4, <1>5, <2>3, <2>4 DEF a
<1> QED BY <1>1, <1>4, <1>5

\* One call of summaries takes up to a group of them and leaves one.
LEMMA ToComeStep ==
  ASSUME NEW t \in Nat, NEW x \in Nat
  PROVE  /\ ToCome(t, x) \in Nat
         /\ t >= 2 => /\ t - Least(t, GroupSize) \in Nat
                      /\ ToCome(t, x) = 1 + ToCome(t - Least(t, GroupSize), x + 1)
         /\ t < 2 => ToCome(t, x) = ReduceCalls(t + x)
         /\ t + x >= 2 => ReduceCalls(t + x) = ToCome(t + x, 0)
<1>1. GroupSize \in Nat /\ GroupSize >= 2
  BY Numbers
<1>2. ToCome(t, x) \in Nat
  <2>1. InLevel(t) \in Nat /\ Above(t) \in Nat
    BY LevelTyped
  <2>2. x + Above(t) \in Nat
    BY <2>1
  <2>3. ReduceCalls(x + Above(t)) \in Nat
    BY <2>2, ReduceCallsLevels
  <2> QED BY <2>1, <2>3 DEF ToCome
<1>3. ASSUME t >= 2
      PROVE  /\ t - Least(t, GroupSize) \in Nat
             /\ ToCome(t, x) = 1 + ToCome(t - Least(t, GroupSize), x + 1)
  <2>1. CASE t >= GroupSize
    <3>1. Least(t, GroupSize) = GroupSize
      BY <1>1, <2>1 DEF Least
    <3> DEFINE a == t - GroupSize
    <3>2. a \in Nat
      BY <1>1, <2>1
    <3>3. InLevel(t) = 1 + InLevel(a) /\ Above(t) = 1 + Above(a)
      BY <2>1, LevelGrows
    <3> HIDE DEF a
    <3>4. InLevel(a) \in Nat /\ Above(a) \in Nat
      BY <3>2, LevelTyped
    <3>5. x + Above(t) = (x + 1) + Above(a)
      BY <3>3, <3>4
    <3>6. (x + 1) + Above(a) \in Nat
      BY <3>4
    <3>7. ReduceCalls((x + 1) + Above(a)) \in Nat
      BY <3>6, ReduceCallsLevels
    <3>8. ToCome(t, x) = 1 + InLevel(a) + ReduceCalls((x + 1) + Above(a))
      BY <3>3, <3>5 DEF ToCome
    <3>9. ToCome(a, x + 1) = InLevel(a) + ReduceCalls((x + 1) + Above(a))
      BY DEF ToCome
    <3>10. ToCome(t, x) = 1 + ToCome(a, x + 1)
      BY <3>4, <3>7, <3>8, <3>9
    <3> QED BY <3>1, <3>2, <3>10 DEF a
  <2>2. CASE t < GroupSize
    <3>1. t - Least(t, GroupSize) = 0
      BY <1>1, <2>2 DEF Least
    <3>2. InLevel(t) = 1 /\ Above(t) = 1
      BY <1>3, <2>2, LevelSmall
    <3>3. InLevel(0) = 0 /\ Above(0) = 0
      BY <1>1, LevelSmall
    <3>4. ReduceCalls(x + 1) \in Nat
      BY ReduceCallsLevels
    <3>5. ToCome(t, x) = 1 + ReduceCalls(x + 1)
      BY <3>2 DEF ToCome
    <3>6. ToCome(0, x + 1) = 0 + ReduceCalls((x + 1) + 0)
      BY <3>3 DEF ToCome
    <3>7. (x + 1) + 0 = x + 1
      OBVIOUS
    <3>8. ToCome(0, x + 1) = ReduceCalls(x + 1)
      BY <3>4, <3>6, <3>7
    <3> QED BY <3>1, <3>5, <3>8
  <2> QED BY <1>1, <2>1, <2>2
<1>4. ASSUME t < 2 PROVE ToCome(t, x) = ReduceCalls(t + x)
  <2>1. t < GroupSize
    BY <1>1, <1>4
  <2>2. InLevel(t) = 0 /\ Above(t) = t
    <3>1. InLevel(t) = (IF t > 1 THEN 1 ELSE 0) /\ Above(t) = (IF t > 0 THEN 1 ELSE 0)
      BY <2>1, LevelSmall
    <3> QED BY <1>4, <3>1
  <2>3. x + t = t + x /\ t + x \in Nat
    OBVIOUS
  <2>4. ReduceCalls(t + x) \in Nat
    BY <2>3, ReduceCallsLevels
  <2>5. ToCome(t, x) = 0 + ReduceCalls(t + x)
    BY <2>2, <2>3 DEF ToCome
  <2> QED BY <2>4, <2>5
<1>5. ASSUME t + x >= 2 PROVE ReduceCalls(t + x) = ToCome(t + x, 0)
  <2> DEFINE m == t + x
  <2>1. m \in Nat /\ m >= 2
    BY <1>5
  <2> HIDE DEF m
  <2>2. ReduceCalls(m) = InLevel(m) + ReduceCalls(Above(m)) /\ 0 + Above(m) = Above(m)
    BY <2>1, ReduceCallsLevels, LevelTyped
  <2>3. ToCome(m, 0) = InLevel(m) + ReduceCalls(0 + Above(m))
    BY DEF ToCome
  <2>4. ReduceCalls(m) = ToCome(m, 0)
    BY <2>2, <2>3
  <2> QED BY <2>4 DEF m
<1> QED BY <1>2, <1>3, <1>4, <1>5

-----------------------------------------------------------------------------
(* The steps of a call                                                     *)

LEMMA PacksCounted ==
  ASSUME Types
  PROVE  Len(packs) \in Nat /\ ReduceCalls(Len(packs)) \in Nat
<1>1. Len(packs) \in Nat
  BY DEF Types
<1> QED BY <1>1, ReduceCallsLevels

\* The calls of the summaries stay within the estimate while the calls of a stage
\* move on: one that starts to be sent is no longer unsent, and one that is no
\* longer out or answered ends the run.
LEMMA SummariesKept ==
  ASSUME Types, Types', Summaries, SumBy(Unsent, fan) \in Nat, SumBy(Sent, fan) \in Nat,
         UNCHANGED <<doc, packs, stage>>, stage.at \in Kinds, Len(fan') = Len(fan),
         ending' = None => ending = None,
         NEW u \in Nat, u = SumBy(Unsent', fan'), NEW s \in Nat, s = SumBy(Sent', fan'),
         stage.at = "map" => /\ sent'.reduce = sent.reduce /\ sent'.cards = sent.cards
                             /\ sent'.map + u <= sent.map + SumBy(Unsent, fan)
                             /\ ending' = None => sent'.map - s >= sent.map - SumBy(Sent, fan),
         stage.at = "reduce" => /\ sent'.map = sent.map /\ sent'.cards = sent.cards
                                /\ sent'.reduce + u <= sent.reduce + SumBy(Unsent, fan)
                                /\ ending' = None =>
                                      sent'.reduce - s >= sent.reduce - SumBy(Sent, fan),
         stage.at = "cards" => sent'.map = sent.map /\ sent'.reduce = sent.reduce
  PROVE  Summaries'
<1>1. /\ sent.map \in Nat /\ sent.reduce \in Nat /\ sent.cards \in Nat
      /\ stage.todo \in Nat /\ stage.next \in Nat
  BY DEF Types
<1>2. sent'.map \in Nat /\ sent'.reduce \in Nat /\ sent'.cards \in Nat
  BY DEF Types
<1>3. Summarised' = Summarised /\ SummaryCalls' = SummaryCalls
  BY SameWays
<1>4. Len(packs) \in Nat /\ ReduceCalls(Len(packs)) \in Nat
  BY PacksCounted
<1>5. ToCome(stage.todo, stage.next) \in Nat
  BY <1>1, ToComeStep
<1>6. stage.at \in {"map", "reduce", "cards"}
  BY DEF Kinds
<1>7. CASE stage.at = "map"
  <2>1. /\ Summarised /\ Len(fan) = Len(packs)
        /\ sent.reduce = 0 /\ sent.cards = 0
        /\ sent.map + SumBy(Unsent, fan) <= Len(packs)
        /\ ending = None => sent.map >= SumBy(Sent, fan)
    BY <1>7 DEF Summaries
  <2>2. /\ sent'.reduce = 0 /\ sent'.cards = 0
        /\ sent'.map + u <= Len(packs)
    BY <1>1, <1>2, <1>4, <1>7, <2>1
  <2>3. ending' = None => sent'.map >= s
    BY <1>1, <1>2, <1>7, <2>1
  <2>4. SummaryCalls = Len(packs) + ReduceCalls(Len(packs))
    BY <2>1 DEF SummaryCalls
  <2>5. sent'.map + sent'.reduce <= SummaryCalls /\ ~(sent'.cards > 0)
    BY <1>2, <1>4, <2>2, <2>4
  <2> QED BY <1>3, <1>7, <2>1, <2>2, <2>3, <2>5 DEF Summaries, SummariesAsEstimated
<1>8. CASE stage.at = "reduce"
  <2>1. /\ Summarised /\ Len(fan) = 1 /\ stage.todo + stage.next >= 1
        /\ sent.map = Len(packs) /\ sent.cards = 0
        /\ sent.reduce + SumBy(Unsent, fan) + ToCome(stage.todo, stage.next)
              <= ReduceCalls(Len(packs))
        /\ ending = None =>
              sent.reduce + 1 - SumBy(Sent, fan) + ToCome(stage.todo, stage.next)
                 >= ReduceCalls(Len(packs))
    BY <1>8 DEF Summaries
  <2>2. /\ sent'.map = Len(packs) /\ sent'.cards = 0
        /\ sent'.reduce + u + ToCome(stage.todo, stage.next) <= ReduceCalls(Len(packs))
    BY <1>1, <1>2, <1>4, <1>5, <1>8, <2>1, SMTT(30)
  <2>3. ASSUME ending' = None
        PROVE  sent'.reduce + 1 - s + ToCome(stage.todo, stage.next) >= ReduceCalls(Len(packs))
    <3>1. sent'.reduce - s >= sent.reduce - SumBy(Sent, fan)
      BY <1>8, <2>3
    <3>2. sent.reduce + 1 - SumBy(Sent, fan) + ToCome(stage.todo, stage.next)
             >= ReduceCalls(Len(packs))
      BY <2>1, <2>3
    <3> QED BY ONLY <1>1, <1>2, <1>4, <1>5, <3>1, <3>2, s \in Nat, SumBy(Sent, fan) \in Nat, SMTT(30)
  <2>4. SummaryCalls = Len(packs) + ReduceCalls(Len(packs))
    BY <2>1 DEF SummaryCalls
  <2>5. sent'.map + sent'.reduce <= SummaryCalls /\ ~(sent'.cards > 0)
    BY <1>2, <1>4, <1>5, <2>2, <2>4, SMTT(30)
  <2>6. ToCome(stage.todo, stage.next)' = ToCome(stage.todo, stage.next)
        /\ ReduceCalls(Len(packs))' = ReduceCalls(Len(packs))
    OBVIOUS
  <2> QED BY <1>3, <1>8, <2>1, <2>2, <2>3, <2>5, <2>6 DEF Summaries, SummariesAsEstimated
<1>9. CASE stage.at = "cards"
  <2>1. sent'.map + sent'.reduce = SummaryCalls
    BY <1>9 DEF Summaries
  <2>2. sent'.map + sent'.reduce <= SummaryCalls
    BY <1>2, <2>1
  <2> QED BY <1>3, <1>9, <2>1, <2>2 DEF Summaries, SummariesAsEstimated
<1> QED BY <1>6, <1>7, <1>8, <1>9

\* The books when a call has moved on.
BooksTyped == books \in [used : Usage, pending : Usage, uncertain : Usage]

LEMMA AdmitStep ==
  ASSUME IInv, NEW i, i \in DOMAIN fan, Admit(i) \/ Refuse(i)
  PROVE  IInv'
<1> USE DEF IInv
<1>1. PICK st \in {"failed", "out"} :
        /\ fan' = [fan EXCEPT ![i].state = st]
        /\ st = "failed" => UNCHANGED <<books, sent, spent>>
        /\ st = "out" =>
              /\ Within(Plus(Charged, Envelope(fan[i])))
              /\ books' = [books EXCEPT !.pending = Plus(@, Envelope(fan[i]))]
              /\ sent' = [sent EXCEPT ![fan[i].kind] = @ + 1]
              /\ spent' = Plus(spent, Envelope(fan[i]))
  BY DEF Admit, Refuse, Move
<1>2. /\ UNCHANGED <<doc, packs, stage, requested, accepted, ending, result, beyond, answered>>
      /\ fan[i].state = "waiting" /\ ending = None
  BY DEF Admit, Refuse
<1>3. /\ Document /\ fan \in Seq(Call) /\ fan[i] \in Call
      /\ spent.in \in Int /\ spent.out \in Int /\ beyond.in \in Nat /\ beyond.out \in Nat
      /\ books.used.in \in Int /\ books.used.out \in Int
      /\ books.pending.in \in Int /\ books.pending.out \in Int
      /\ books.uncertain.in \in Int /\ books.uncertain.out \in Int
      /\ sent.map \in Nat /\ sent.reduce \in Nat /\ sent.cards \in Nat
  BY TypesParts
<1>4. fan[i].in \in Nat /\ fan[i].out \in Nat /\ fan[i].kind \in Kinds
      /\ Envelope(fan[i]) \in Usage /\ Envelope(fan[i]).in = fan[i].in /\ Envelope(fan[i]).out = fan[i].out
  BY <1>3, CallIs, EnvelopeIs
<1>5. Becomes(fan', i, st, fan[i].offers)
  <2>1. st \in States
    BY DEF States
  <2> QED BY <1>1, <1>3, <2>1, MoveBecomes
<1>6. fan' \in Seq(Call) /\ Len(fan') = Len(fan) /\ fan'[i] \in Call /\ fan'[i].state = st
      /\ fan'[i].in = fan[i].in /\ fan'[i].out = fan[i].out
  BY <1>5 DEF Becomes
<1>7. Document' /\ Call' = Call /\ OwedIn' = OwedIn /\ OwedOut' = OwedOut
      /\ Unsent' = Unsent /\ Sent' = Sent
  BY <1>2, <1>3, SameDocument DEF Document
<1>8. /\ SumBy(OwedIn, fan') = SumBy(OwedIn, fan) - OwedIn[fan[i]] + OwedIn[fan'[i]]
      /\ SumBy(OwedOut, fan') = SumBy(OwedOut, fan) - OwedOut[fan[i]] + OwedOut[fan'[i]]
      /\ SumBy(Unsent, fan') = SumBy(Unsent, fan) - Unsent[fan[i]] + Unsent[fan'[i]]
      /\ SumBy(Sent, fan') = SumBy(Sent, fan) - Sent[fan[i]] + Sent[fan'[i]]
      /\ SumBy(Asking, fan') = SumBy(Asking, fan)
  BY <1>3, <1>5, MoveSums
<1>9. /\ OwedIn[fan[i]] = 0 /\ OwedOut[fan[i]] = 0 /\ Unsent[fan[i]] = 1 /\ Sent[fan[i]] = 0
      /\ OwedIn[fan'[i]] = (IF st = "out" THEN fan[i].in ELSE 0)
      /\ OwedOut[fan'[i]] = (IF st = "out" THEN fan[i].out ELSE 0)
      /\ Unsent[fan'[i]] = 0
      /\ Sent[fan'[i]] = (IF st = "out" THEN 1 ELSE 0)
  BY <1>2, <1>3, <1>6, CallIs
<1>10. /\ SumBy(OwedIn, fan) \in Nat /\ SumBy(OwedOut, fan) \in Nat
       /\ SumBy(Unsent, fan) \in Nat /\ SumBy(Sent, fan) \in Nat
       /\ SumBy(Unsent, fan') \in Nat /\ SumBy(Sent, fan') \in Nat
  BY <1>3, <1>6, SumsTyped
<1>11. books.used \in Usage /\ books.pending \in Usage /\ books.uncertain \in Usage
       /\ spent \in Usage /\ BooksTyped
  BY DEF Types, BooksTyped
<1>12. ASSUME st = "out"
       PROVE  /\ books'.used = books.used /\ books'.uncertain = books.uncertain
              /\ books'.pending.in = books.pending.in + fan[i].in
              /\ books'.pending.out = books.pending.out + fan[i].out
              /\ spent'.in = spent.in + fan[i].in /\ spent'.out = spent.out + fan[i].out
              /\ spent' \in Usage /\ BooksTyped'
  <2> DEFINE p == Plus(books.pending, Envelope(fan[i]))
             q == Plus(spent, Envelope(fan[i]))
  <2>1. p \in Usage /\ p.in = books.pending.in + fan[i].in /\ p.out = books.pending.out + fan[i].out
    BY <1>4, <1>11, UsageSums
  <2>2. q \in Usage /\ q.in = spent.in + fan[i].in /\ q.out = spent.out + fan[i].out
    BY <1>4, <1>11, UsageSums
  <2>3. books' = [books EXCEPT !.pending = p] /\ spent' = q
    BY <1>1, <1>12
  <2> HIDE DEF p, q
  <2>4. books'.used = books.used /\ books'.uncertain = books.uncertain /\ books'.pending = p
        /\ BooksTyped'
    BY <1>11, <2>1, <2>3 DEF BooksTyped, Usage
  <2> QED BY <2>1, <2>2, <2>3, <2>4
<1>13. ASSUME st = "out"
       PROVE  /\ sent' \in [map : Nat, reduce : Nat, cards : Nat]
              /\ sent'.map = sent.map + (IF fan[i].kind = "map" THEN 1 ELSE 0)
              /\ sent'.reduce = sent.reduce + (IF fan[i].kind = "reduce" THEN 1 ELSE 0)
              /\ sent'.cards = sent.cards + (IF fan[i].kind = "cards" THEN 1 ELSE 0)
  <2>1. sent \in [map : Nat, reduce : Nat, cards : Nat]
    BY DEF Types
  <2> QED BY <1>1, <1>4, <1>13, <2>1 DEF Kinds
<1>14. Types'
  <2>1. CASE st = "failed"
    BY <1>1, <1>2, <1>6, <1>7, <2>1, SameDocument DEF Types
  <2>2. CASE st = "out"
    <3>1. spent' \in Usage /\ BooksTyped' /\ sent' \in [map : Nat, reduce : Nat, cards : Nat]
      BY <1>12, <1>13, <2>2
    <3> QED BY <1>2, <1>6, <1>7, <3>1, SameDocument DEF Types, BooksTyped, Usage
  <2> QED BY <2>1, <2>2
<1>15. Course'
  <2>1. fan[i].state \notin {"held", "gone"} /\ st # "ok" /\ ending = None
    BY <1>2
  <2> QED BY <1>2, <1>5, <2>1, CourseMove
<1>16. Accounts'
  <2>1. /\ spent.in <= books.used.in + books.pending.in + books.uncertain.in + beyond.in
        /\ spent.out <= books.used.out + books.pending.out + books.uncertain.out + beyond.out
        /\ books.pending.in = SumBy(OwedIn, fan) /\ books.pending.out = SumBy(OwedOut, fan)
    BY AccountsParts
  <2>2. CASE st = "failed"
    <3>1. SumBy(OwedIn', fan') = SumBy(OwedIn, fan) /\ SumBy(OwedOut', fan') = SumBy(OwedOut, fan)
      BY <1>7, <1>8, <1>9, <1>10, <2>2
    <3>2. NoDearer
      BY <1>1, <1>2, <2>2, SameNoDearer
    <3>3. books' = books
      BY <1>1, <2>2
    <3> QED BY <1>14, <2>1, <3>1, <3>2, <3>3, ChargedKept
  <2>3. CASE st = "out"
    <3>1. /\ SumBy(OwedIn', fan') = books.pending.in + fan[i].in
          /\ SumBy(OwedOut', fan') = books.pending.out + fan[i].out
      BY <1>4, <1>7, <1>8, <1>9, <1>10, <2>1, <2>3
    <3> DEFINE c == books.used.in + books.pending.in + books.uncertain.in
               e == books.used.out + books.pending.out + books.uncertain.out
               s == c + fan[i].in
               o == e + fan[i].out
    <3>0. /\ books.used.in \in Int /\ books.used.out \in Int
          /\ books.pending.in \in Int /\ books.pending.out \in Int
          /\ books.uncertain.in \in Int /\ books.uncertain.out \in Int
          /\ fan[i].in \in Nat /\ fan[i].out \in Nat
          /\ spent.in \in Int /\ spent.out \in Int /\ beyond.in \in Nat /\ beyond.out \in Nat
      BY <1>3, <1>4
    <3>2. c \in Int /\ e \in Int /\ s \in Int /\ o \in Int
      BY ONLY <3>0
    <3>3. /\ spent'.in = spent.in + fan[i].in /\ spent'.out = spent.out + fan[i].out
          /\ spent'.in \in Int /\ spent'.out \in Int
          /\ beyond'.in = beyond.in /\ beyond'.out = beyond.out
      <4>1. /\ spent'.in = spent.in + fan[i].in /\ spent'.out = spent.out + fan[i].out
            /\ beyond' = beyond
        BY <1>2, <1>12, <2>3
      <4>2. spent.in + fan[i].in \in Int /\ spent.out + fan[i].out \in Int
        BY ONLY <3>0
      <4> QED BY <4>1, <4>2
    <3>4. Within([in |-> s, out |-> o])
      <4> DEFINE a == Plus(books.used, books.pending)
                 b == Plus(a, books.uncertain)
                 q == Plus(b, Envelope(fan[i]))
      <4>1. a \in Usage /\ a.in = books.used.in + books.pending.in
            /\ a.out = books.used.out + books.pending.out
        BY <1>11, UsageSums
      <4>2. b \in Usage /\ b.in = a.in + books.uncertain.in /\ b.out = a.out + books.uncertain.out
        <5> HIDE DEF a
        <5> QED BY <1>11, <4>1, UsageSums
      <4>3. q = [in |-> b.in + fan[i].in, out |-> b.out + fan[i].out]
        <5> HIDE DEF b
        <5> QED BY <1>4 DEF Plus
      <4>4. Within(q)
        BY <1>1, <2>3 DEF Charged
      <4> HIDE DEF a, b, q
      <4>5. b.in + fan[i].in = s /\ b.out + fan[i].out = o
        BY <4>1, <4>2
      <4> QED BY <4>3, <4>4, <4>5
    <3>5. spent.in <= c + beyond.in /\ spent.out <= e + beyond.out
      BY <2>1
    <3>6. /\ spent'.in - beyond'.in <= s - 0 /\ spent'.out - beyond'.out <= o - 0
      <4> HIDE DEF c, e
      <4> QED BY ONLY <3>0, <3>2, <3>3, <3>5 DEF s, o
    <3>7. SpendingBounded'
      <4> HIDE DEF s, o
      <4>1. Bounded(s, o, 0, 0)
        BY <3>2, <3>4, WithinBounded
      <4>2. beyond'.in \in Nat /\ beyond'.out \in Nat
        BY <1>3, <3>3
      <4>3. Bounded(spent'.in, spent'.out, beyond'.in, beyond'.out)
        BY <3>2, <3>3, <3>6, <4>1, <4>2, BoundedStays
      <4> QED BY <4>3 DEF SpendingBounded, Bounded, Cost
    <3>8. /\ spent'.in <= books'.used.in + books'.pending.in + books'.uncertain.in + beyond'.in
          /\ spent'.out <= books'.used.out + books'.pending.out + books'.uncertain.out + beyond'.out
      <4>1. /\ books'.used.in = books.used.in /\ books'.used.out = books.used.out
            /\ books'.uncertain.in = books.uncertain.in /\ books'.uncertain.out = books.uncertain.out
            /\ books'.pending.in = books.pending.in + fan[i].in
            /\ books'.pending.out = books.pending.out + fan[i].out
        BY <1>12, <2>3
      <4> QED BY ONLY <2>1, <3>0, <3>3, <4>1
    <3>9. books'.pending.in = SumBy(OwedIn', fan') /\ books'.pending.out = SumBy(OwedOut', fan')
      BY <1>12, <2>3, <3>1
    <3> QED BY <1>14, <3>7, <3>8, <3>9, AccountsMade
  <2> QED BY <2>2, <2>3
<1>17. Quotas'
  BY <1>2, <1>6, <1>8, QuotasSame
<1>18. Summaries'
  <2>1. fan[i].kind = stage.at /\ stage.at \in Kinds
    BY <1>4 DEF Course
  <2> DEFINE u == SumBy(Unsent', fan')
             s == SumBy(Sent', fan')
  <2>2. u \in Nat /\ s \in Nat /\ u = SumBy(Unsent, fan) - 1
        /\ s = SumBy(Sent, fan) + (IF st = "out" THEN 1 ELSE 0)
    BY <1>7, <1>8, <1>9, <1>10
  <2>4. u = SumBy(Unsent', fan') /\ s = SumBy(Sent', fan')
    OBVIOUS
  <2> HIDE DEF u, s
  <2>5. ASSUME stage.at = "map"
       PROVE  /\ sent'.reduce = sent.reduce /\ sent'.cards = sent.cards
              /\ sent'.map + u <= sent.map + SumBy(Unsent, fan)
              /\ sent'.map - s >= sent.map - SumBy(Sent, fan)
    <3>0. sent.map \in Nat /\ SumBy(Unsent, fan) \in Nat /\ SumBy(Sent, fan) \in Nat
      BY <1>3, <1>10
    <3>1. CASE st = "failed"
      <4>1. sent' = sent
        BY <1>1, <3>1
      <4>2. u = SumBy(Unsent, fan) - 1 /\ s = SumBy(Sent, fan)
        BY <2>2, <3>0, <3>1
      <4>3. sent'.map + u <= sent.map + SumBy(Unsent, fan)
            /\ sent'.map - s >= sent.map - SumBy(Sent, fan)
        BY ONLY <3>0, <4>1, <4>2
      <4> QED BY <4>1, <4>3
    <3>2. CASE st = "out"
      <4>1. sent'.map = sent.map + 1 /\ sent'.reduce = sent.reduce /\ sent'.cards = sent.cards
        BY <1>3, <1>13, <2>1, <2>5, <3>2
      <4>2. u = SumBy(Unsent, fan) - 1 /\ s = SumBy(Sent, fan) + 1
        BY <2>2, <3>2
      <4>3. sent'.map + u <= sent.map + SumBy(Unsent, fan)
            /\ sent'.map - s >= sent.map - SumBy(Sent, fan)
        BY ONLY <3>0, <4>1, <4>2
      <4> QED BY <4>1, <4>3
    <3> QED BY <3>1, <3>2
  <2>6. ASSUME stage.at = "reduce"
       PROVE  /\ sent'.map = sent.map /\ sent'.cards = sent.cards
              /\ sent'.reduce + u <= sent.reduce + SumBy(Unsent, fan)
              /\ sent'.reduce - s >= sent.reduce - SumBy(Sent, fan)
    <3>0. sent.reduce \in Nat /\ SumBy(Unsent, fan) \in Nat /\ SumBy(Sent, fan) \in Nat
      BY <1>3, <1>10
    <3>1. CASE st = "failed"
      <4>1. sent' = sent
        BY <1>1, <3>1
      <4>2. u = SumBy(Unsent, fan) - 1 /\ s = SumBy(Sent, fan)
        BY <2>2, <3>0, <3>1
      <4>3. sent'.reduce + u <= sent.reduce + SumBy(Unsent, fan)
            /\ sent'.reduce - s >= sent.reduce - SumBy(Sent, fan)
        BY ONLY <3>0, <4>1, <4>2
      <4> QED BY <4>1, <4>3
    <3>2. CASE st = "out"
      <4>1. sent'.reduce = sent.reduce + 1 /\ sent'.map = sent.map /\ sent'.cards = sent.cards
        BY <1>3, <1>13, <2>1, <2>6, <3>2
      <4>2. u = SumBy(Unsent, fan) - 1 /\ s = SumBy(Sent, fan) + 1
        BY <2>2, <3>2
      <4>3. sent'.reduce + u <= sent.reduce + SumBy(Unsent, fan)
            /\ sent'.reduce - s >= sent.reduce - SumBy(Sent, fan)
        BY ONLY <3>0, <4>1, <4>2
      <4> QED BY <4>1, <4>3
    <3> QED BY <3>1, <3>2
  <2>7. stage.at = "cards" => sent'.map = sent.map /\ sent'.reduce = sent.reduce
    BY <1>1, <1>3, <1>13, <2>1
  <2> QED BY <1>2, <1>6, <1>10, <1>14, <2>1, <2>2, <2>4, <2>5, <2>6, <2>7, SummariesKept
<1> QED BY <1>14, <1>15, <1>16, <1>17, <1>18

\* A call without a receipt moves its envelope to what is uncertain.
LEMMA LostStep ==
  ASSUME IInv, NEW i, i \in DOMAIN fan, NEW st,
         (fan[i].state = "out" /\ st = "failed") \/ (fan[i].state = "leaving" /\ st = "gone"),
         Lost(fan[i]), Move(i, st),
         NEW v, v \in Counted(fan[i]), AttemptEnds(fan[i], v),
         UNCHANGED <<doc, packs, stage, requested, accepted, sent, ending, result, answered>>
  PROVE  IInv'
<1> USE DEF IInv
<1>3. /\ Document /\ fan \in Seq(Call) /\ fan[i] \in Call
      /\ books.used.in \in Int /\ books.used.out \in Int
      /\ books.pending.in \in Int /\ books.pending.out \in Int
      /\ books.uncertain.in \in Int /\ books.uncertain.out \in Int
  BY TypesParts
<1>4. fan[i].in \in Nat /\ fan[i].out \in Nat /\ fan[i].kind \in Kinds
      /\ Envelope(fan[i]) \in Usage /\ Envelope(fan[i]).in = fan[i].in /\ Envelope(fan[i]).out = fan[i].out
  BY <1>3, CallIs, EnvelopeIs
<1>5. Becomes(fan', i, st, fan[i].offers)
  <2>1. st \in States
    BY DEF States
  <2>2. fan' = [fan EXCEPT ![i].state = st]
    BY DEF Move
  <2> QED BY <1>3, <2>1, <2>2, MoveBecomes
<1>6. fan' \in Seq(Call) /\ Len(fan') = Len(fan) /\ fan'[i] \in Call /\ fan'[i].state = st
  BY <1>5 DEF Becomes
<1>7. Document' /\ Call' = Call /\ OwedIn' = OwedIn /\ OwedOut' = OwedOut
      /\ Unsent' = Unsent /\ Sent' = Sent
  BY <1>3, SameDocument DEF Document
<1>8. /\ SumBy(OwedIn, fan') = SumBy(OwedIn, fan) - OwedIn[fan[i]] + OwedIn[fan'[i]]
      /\ SumBy(OwedOut, fan') = SumBy(OwedOut, fan) - OwedOut[fan[i]] + OwedOut[fan'[i]]
      /\ SumBy(Unsent, fan') = SumBy(Unsent, fan) - Unsent[fan[i]] + Unsent[fan'[i]]
      /\ SumBy(Sent, fan') = SumBy(Sent, fan) - Sent[fan[i]] + Sent[fan'[i]]
      /\ SumBy(Asking, fan') = SumBy(Asking, fan)
  BY <1>3, <1>5, MoveSums
<1>9. /\ OwedIn[fan[i]] = fan[i].in /\ OwedOut[fan[i]] = fan[i].out
      /\ OwedIn[fan'[i]] = 0 /\ OwedOut[fan'[i]] = 0
      /\ Unsent[fan[i]] = 0 /\ Unsent[fan'[i]] = 0
      /\ Sent[fan[i]] \in Nat /\ Sent[fan'[i]] = 0
  <2>c. /\ Unsent[fan[i]] = (IF fan[i].state \in {"held", "waiting"} THEN 1 ELSE 0)
        /\ Unsent[fan'[i]] = (IF fan'[i].state \in {"held", "waiting"} THEN 1 ELSE 0)
        /\ Sent[fan[i]] = (IF fan[i].state \in {"out", "ok"} THEN 1 ELSE 0)
        /\ Sent[fan'[i]] = (IF fan'[i].state \in {"out", "ok"} THEN 1 ELSE 0)
    BY <1>3, <1>6, CallIs
  <2>d. /\ OwedIn[fan[i]] = (IF fan[i].state \in {"out", "leaving"} THEN fan[i].in ELSE 0)
        /\ OwedOut[fan[i]] = (IF fan[i].state \in {"out", "leaving"} THEN fan[i].out ELSE 0)
        /\ OwedIn[fan'[i]] = (IF fan'[i].state \in {"out", "leaving"} THEN fan'[i].in ELSE 0)
        /\ OwedOut[fan'[i]] = (IF fan'[i].state \in {"out", "leaving"} THEN fan'[i].out ELSE 0)
    BY <1>3, <1>6, CallIs
  <2> QED BY <1>6, <2>c, <2>d
<1>10. /\ SumBy(OwedIn, fan) \in Nat /\ SumBy(OwedOut, fan) \in Nat
       /\ SumBy(Unsent, fan) \in Nat /\ SumBy(Sent, fan) \in Nat
       /\ SumBy(Unsent, fan') \in Nat /\ SumBy(Sent, fan') \in Nat
  BY <1>3, <1>6, SumsTyped
<1>11. books.used \in Usage /\ books.pending \in Usage /\ books.uncertain \in Usage /\ BooksTyped
  BY DEF Types, BooksTyped
<1>12. /\ books'.used = books.used /\ BooksTyped'
       /\ books'.pending.in = books.pending.in - fan[i].in
       /\ books'.pending.out = books.pending.out - fan[i].out
       /\ books'.uncertain.in = books.uncertain.in + fan[i].in
       /\ books'.uncertain.out = books.uncertain.out + fan[i].out
  <2> DEFINE p == Minus(books.pending, Envelope(fan[i]))
             q == Plus(books.uncertain, Envelope(fan[i]))
  <2>1. p \in Usage /\ p.in = books.pending.in - fan[i].in /\ p.out = books.pending.out - fan[i].out
    BY <1>4, <1>11, UsageSums
  <2>2. q \in Usage /\ q.in = books.uncertain.in + fan[i].in
        /\ q.out = books.uncertain.out + fan[i].out
    BY <1>4, <1>11, UsageSums
  <2>3. books' = [books EXCEPT !.pending = p, !.uncertain = q]
    BY DEF Lost
  <2> HIDE DEF p, q
  <2>4. books'.used = books.used /\ books'.pending = p /\ books'.uncertain = q /\ BooksTyped'
    BY <1>11, <2>1, <2>2, <2>3 DEF BooksTyped, Usage
  <2> QED BY <2>1, <2>2, <2>4
<1>13. NoDearer
  BY <1>3, AttemptEndsIs
<1>14. Types'
  <2>1. spent' \in Usage /\ beyond' \in [in : Nat, out : Nat]
    BY <1>13 DEF NoDearer
  <2> QED BY <1>6, <1>7, <1>12, <2>1, SameDocument DEF Types, BooksTyped, Usage
<1>15. Course'
  <2>1. fan[i].state \notin {"held", "gone"} /\ st # "ok" /\ st \in {"failed", "gone"}
    OBVIOUS
  <2> QED BY <1>5, <2>1, CourseMove
<1>16. Accounts'
  <2>1. books.pending.in = SumBy(OwedIn, fan) /\ books.pending.out = SumBy(OwedOut, fan)
    BY AccountsParts
  <2>2. /\ SumBy(OwedIn', fan') = books.pending.in - fan[i].in
        /\ SumBy(OwedOut', fan') = books.pending.out - fan[i].out
    BY <1>4, <1>7, <1>8, <1>9, <1>10, <2>1
  <2>3. /\ books'.used.in + books'.pending.in + books'.uncertain.in
             = books.used.in + books.pending.in + books.uncertain.in
        /\ books'.used.out + books'.pending.out + books'.uncertain.out
             = books.used.out + books.pending.out + books.uncertain.out
    <3>1. books'.used.in = books.used.in /\ books'.used.out = books.used.out
      BY <1>12
    <3>2. fan[i].in \in Nat /\ fan[i].out \in Nat
      BY <1>4
    <3>3. /\ books.used.in \in Int /\ books.used.out \in Int
          /\ books.pending.in \in Int /\ books.pending.out \in Int
          /\ books.uncertain.in \in Int /\ books.uncertain.out \in Int
      BY <1>3
    <3>4. /\ books'.pending.in = books.pending.in - fan[i].in
          /\ books'.pending.out = books.pending.out - fan[i].out
          /\ books'.uncertain.in = books.uncertain.in + fan[i].in
          /\ books'.uncertain.out = books.uncertain.out + fan[i].out
      BY <1>12
    <3> QED BY ONLY <3>1, <3>2, <3>3, <3>4
  <2>4. books'.pending.in = SumBy(OwedIn', fan') /\ books'.pending.out = SumBy(OwedOut', fan')
    BY <1>12, <2>2
  <2> QED BY <1>13, <1>14, <2>3, <2>4, ChargedKept
<1>17. Quotas'
  BY <1>6, <1>8, QuotasSame
<1>18. Summaries'
  <2>1. fan[i].kind = stage.at /\ stage.at \in Kinds
    BY <1>4 DEF Course
  <2> DEFINE u == SumBy(Unsent', fan')
             s == SumBy(Sent', fan')
  <2>2. u \in Nat /\ s \in Nat /\ u = SumBy(Unsent, fan) /\ s <= SumBy(Sent, fan)
    BY <1>7, <1>8, <1>9, <1>10
  <2>3. u = SumBy(Unsent', fan') /\ s = SumBy(Sent', fan')
    OBVIOUS
  <2>4. sent.map \in Nat /\ sent.reduce \in Nat
    BY TypesParts
  <2> HIDE DEF u, s
  <2>5. sent'.map - s >= sent.map - SumBy(Sent, fan)
        /\ sent'.reduce - s >= sent.reduce - SumBy(Sent, fan)
        /\ sent'.map + u <= sent.map + SumBy(Unsent, fan)
        /\ sent'.reduce + u <= sent.reduce + SumBy(Unsent, fan)
    <3>1. sent' = sent
      OBVIOUS
    <3>2. SumBy(Unsent, fan) \in Nat /\ SumBy(Sent, fan) \in Nat
      BY <1>10
    <3> QED BY ONLY <2>2, <2>4, <3>1, <3>2
  <2> QED BY <1>6, <1>10, <1>14, <2>1, <2>2, <2>3, <2>5, SummariesKept
<1> QED BY <1>14, <1>15, <1>16, <1>17, <1>18

LEMMA FailsStep ==
  ASSUME IInv, NEW i, i \in DOMAIN fan, Fails(i)
  PROVE  IInv'
<1>1. PICK v \in Counted(fan[i]) : AttemptEnds(fan[i], v)
  BY DEF Fails
<1> QED BY <1>1, LostStep DEF Fails

LEMMA LeaveStep ==
  ASSUME IInv, NEW i, i \in DOMAIN fan, Leave(i)
  PROVE  IInv'
<1>1. PICK v \in Counted(fan[i]) : AttemptEnds(fan[i], v)
  BY DEF Leave
<1> QED BY <1>1, LostStep DEF Leave

LEMMA AnswerStep ==
  ASSUME IInv, NEW i, i \in DOMAIN fan, Answer(i)
  PROVE  IInv'
<1> USE DEF IInv
<1>1. PICK u \in Receipts(fan[i]), offers \in Candidates(fan[i]) :
         LET used == Plus(books.used, u)
         IN /\ fan' = [fan EXCEPT ![i].state = IF Within(used) THEN "ok" ELSE "failed",
                                  ![i].offers = IF Within(used) THEN offers ELSE <<>>]
            /\ books' = [books EXCEPT !.used = used,
                                      !.pending = Minus(@, Envelope(fan[i]))]
            /\ AttemptEnds(fan[i], u)
  BY DEF Answer
<1>2. /\ UNCHANGED <<doc, packs, stage, requested, accepted, sent, ending, result>>
      /\ fan[i].state = "out" /\ answered' = answered \cup {fan[i].kind}
  BY DEF Answer
<1>3. /\ Document /\ fan \in Seq(Call) /\ fan[i] \in Call
      /\ spent.in \in Int /\ spent.out \in Int /\ beyond.in \in Nat /\ beyond.out \in Nat
      /\ books.used.in \in Int /\ books.used.out \in Int
      /\ books.pending.in \in Int /\ books.pending.out \in Int
      /\ books.uncertain.in \in Int /\ books.uncertain.out \in Int
  BY TypesParts
<1>4. fan[i].in \in Nat /\ fan[i].out \in Nat /\ fan[i].kind \in Kinds /\ fan[i].batch \in Batch
      /\ Envelope(fan[i]) \in Usage /\ Envelope(fan[i]).in = fan[i].in /\ Envelope(fan[i]).out = fan[i].out
  BY <1>3, CallIs, EnvelopeIs
<1>a. u \in Counted(fan[i]) /\ u \in Usage
  <2>1. u \in Counted(fan[i])
    BY <1>1 DEF Counted
  <2> QED BY <1>3, <2>1, CountedIs
<1>b. u.in \in Int /\ u.out \in Int
  BY <1>a DEF Usage
<1>c. offers \in Batch /\ (fan[i].kind = "cards" => DOMAIN offers = DOMAIN fan[i].batch)
  <2>1. CASE fan[i].kind = "cards"
    <3>1. offers \in [DOMAIN fan[i].batch -> Offers]
      BY <1>1, <2>1 DEF Candidates
    <3>2. Offers \subseteq Nat /\ DOMAIN fan[i].batch \in SUBSET Chunks
      BY <1>3, <1>4, Numbers, BatchIs
    <3>3. offers \in [DOMAIN fan[i].batch -> Nat] /\ DOMAIN offers = DOMAIN fan[i].batch
      BY <3>1, <3>2
    <3> QED BY <3>2, <3>3, BatchMade
  <2>2. CASE fan[i].kind # "cards"
    BY <1>1, <2>2, EmptyBatch DEF Candidates
  <2> QED BY <2>1, <2>2
<1>d. PICK st \in {"ok", "failed"}, given \in Batch :
         /\ fan' = [fan EXCEPT ![i].state = st, ![i].offers = given]
         /\ st = "ok" => given = offers
  <2> DEFINE w == Within(Plus(books.used, u))
  <2>1. fan' = [fan EXCEPT ![i].state = IF w THEN "ok" ELSE "failed",
                           ![i].offers = IF w THEN offers ELSE <<>>]
    BY <1>1
  <2> HIDE DEF w
  <2>2. CASE w
    BY <1>c, <2>1, <2>2
  <2>3. CASE ~w
    BY <2>1, <2>3, EmptyBatch
  <2> QED BY <2>2, <2>3
<1>5. Becomes(fan', i, st, given)
  <2>1. st \in States
    BY DEF States
  <2> QED BY <1>3, <1>d, <2>1, AnswerBecomes
<1>6. fan' \in Seq(Call) /\ Len(fan') = Len(fan) /\ fan'[i] \in Call /\ fan'[i].state = st
  BY <1>5 DEF Becomes
<1>7. Document' /\ Call' = Call /\ OwedIn' = OwedIn /\ OwedOut' = OwedOut
      /\ Unsent' = Unsent /\ Sent' = Sent
  BY <1>2, <1>3, SameDocument DEF Document
<1>8. /\ SumBy(OwedIn, fan') = SumBy(OwedIn, fan) - OwedIn[fan[i]] + OwedIn[fan'[i]]
      /\ SumBy(OwedOut, fan') = SumBy(OwedOut, fan) - OwedOut[fan[i]] + OwedOut[fan'[i]]
      /\ SumBy(Unsent, fan') = SumBy(Unsent, fan) - Unsent[fan[i]] + Unsent[fan'[i]]
      /\ SumBy(Sent, fan') = SumBy(Sent, fan) - Sent[fan[i]] + Sent[fan'[i]]
      /\ SumBy(Asking, fan') = SumBy(Asking, fan)
  BY <1>3, <1>5, MoveSums
<1>9. /\ OwedIn[fan[i]] = fan[i].in /\ OwedOut[fan[i]] = fan[i].out
      /\ OwedIn[fan'[i]] = 0 /\ OwedOut[fan'[i]] = 0
      /\ Unsent[fan[i]] = 0 /\ Unsent[fan'[i]] = 0
      /\ Sent[fan[i]] = 1 /\ Sent[fan'[i]] \in Nat /\ Sent[fan'[i]] <= 1
  <2>c. /\ Unsent[fan[i]] = (IF fan[i].state \in {"held", "waiting"} THEN 1 ELSE 0)
        /\ Unsent[fan'[i]] = (IF fan'[i].state \in {"held", "waiting"} THEN 1 ELSE 0)
        /\ Sent[fan[i]] = (IF fan[i].state \in {"out", "ok"} THEN 1 ELSE 0)
        /\ Sent[fan'[i]] = (IF fan'[i].state \in {"out", "ok"} THEN 1 ELSE 0)
    BY <1>3, <1>6, CallIs
  <2>d. /\ OwedIn[fan[i]] = (IF fan[i].state \in {"out", "leaving"} THEN fan[i].in ELSE 0)
        /\ OwedOut[fan[i]] = (IF fan[i].state \in {"out", "leaving"} THEN fan[i].out ELSE 0)
        /\ OwedIn[fan'[i]] = (IF fan'[i].state \in {"out", "leaving"} THEN fan'[i].in ELSE 0)
        /\ OwedOut[fan'[i]] = (IF fan'[i].state \in {"out", "leaving"} THEN fan'[i].out ELSE 0)
    BY <1>3, <1>6, CallIs
  <2> QED BY <1>2, <1>6, <2>c, <2>d
<1>10. /\ SumBy(OwedIn, fan) \in Nat /\ SumBy(OwedOut, fan) \in Nat
       /\ SumBy(Unsent, fan) \in Nat /\ SumBy(Sent, fan) \in Nat
       /\ SumBy(Unsent, fan') \in Nat /\ SumBy(Sent, fan') \in Nat
  BY <1>3, <1>6, SumsTyped
<1>11. books.used \in Usage /\ books.pending \in Usage /\ books.uncertain \in Usage
       /\ spent \in Usage /\ BooksTyped
  BY DEF Types, BooksTyped
<1>12. /\ books'.uncertain = books.uncertain /\ BooksTyped'
       /\ books'.pending.in = books.pending.in - fan[i].in
       /\ books'.pending.out = books.pending.out - fan[i].out
       /\ books'.used.in = books.used.in + u.in
       /\ books'.used.out = books.used.out + u.out
  <2> DEFINE p == Minus(books.pending, Envelope(fan[i]))
             q == Plus(books.used, u)
  <2>1. p \in Usage /\ p.in = books.pending.in - fan[i].in /\ p.out = books.pending.out - fan[i].out
    BY <1>4, <1>11, UsageSums
  <2>2. q \in Usage /\ q.in = books.used.in + u.in /\ q.out = books.used.out + u.out
    BY <1>a, <1>11, UsageSums
  <2>3. books' = [books EXCEPT !.used = q, !.pending = p]
    BY <1>1
  <2> HIDE DEF p, q
  <2>4. books'.uncertain = books.uncertain /\ books'.pending = p /\ books'.used = q /\ BooksTyped'
    BY <1>11, <2>1, <2>2, <2>3 DEF BooksTyped, Usage
  <2> QED BY <2>1, <2>2, <2>4
<1>e. /\ NoDearer /\ spent' \in Usage /\ beyond' \in [in : Nat, out : Nat]
      /\ spent'.in = spent.in - fan[i].in + u.in /\ spent'.out = spent.out - fan[i].out + u.out
      /\ beyond.in <= beyond'.in /\ beyond.out <= beyond'.out
  <2>1. AttemptEnds(fan[i], u)
    BY <1>1
  <2> QED BY <1>3, <1>a, <2>1, AttemptEndsIs DEF NoDearer
<1>14. Types'
  <2>1. answered' \subseteq Kinds
    BY <1>2, <1>4 DEF Types
  <2> QED BY <1>2, <1>6, <1>7, <1>12, <1>e, <2>1, SameDocument DEF Types, BooksTyped, Usage
<1>15. Course'
  <2>1. fan[i].state \notin {"held", "gone"} /\ st \in {"leaving", "ok", "failed", "gone"}
    BY <1>2
  <2>2. st = "ok" => /\ fan[i].kind \in answered'
                     /\ fan[i].kind = "cards" => DOMAIN given = DOMAIN fan[i].batch
    BY <1>2, <1>c, <1>d
  <2>3. answered \subseteq answered'
    BY <1>2
  <2> QED BY <1>2, <1>5, <2>1, <2>2, <2>3, CourseMove
<1>16. Accounts'
  <2>1. /\ spent.in <= books.used.in + books.pending.in + books.uncertain.in + beyond.in
        /\ spent.out <= books.used.out + books.pending.out + books.uncertain.out + beyond.out
        /\ books.pending.in = SumBy(OwedIn, fan) /\ books.pending.out = SumBy(OwedOut, fan)
        /\ SpendingBounded
    BY AccountsParts
  <2>2. /\ SumBy(OwedIn', fan') = books.pending.in - fan[i].in
        /\ SumBy(OwedOut', fan') = books.pending.out - fan[i].out
    BY <1>4, <1>7, <1>8, <1>9, <1>10, <2>1
  <2>3. SpendingBounded'
    BY <1>e, <2>1, NoDearerBounded
  <2>4. /\ spent'.in <= books'.used.in + books'.pending.in + books'.uncertain.in + beyond'.in
        /\ spent'.out <= books'.used.out + books'.pending.out + books'.uncertain.out + beyond'.out
    <3>1. /\ books'.uncertain.in = books.uncertain.in /\ books'.uncertain.out = books.uncertain.out
      BY <1>12
    <3>2. fan[i].in \in Nat /\ fan[i].out \in Nat /\ u.in \in Int /\ u.out \in Int
      BY <1>4, <1>b
    <3>3. beyond'.in \in Nat /\ beyond'.out \in Nat
      BY <1>e
    <3>4. /\ books.used.in \in Int /\ books.used.out \in Int
          /\ books.pending.in \in Int /\ books.pending.out \in Int
          /\ books.uncertain.in \in Int /\ books.uncertain.out \in Int
          /\ spent.in \in Int /\ spent.out \in Int /\ beyond.in \in Nat /\ beyond.out \in Nat
      BY <1>3
    <3>5. /\ books'.pending.in = books.pending.in - fan[i].in
          /\ books'.pending.out = books.pending.out - fan[i].out
          /\ books'.used.in = books.used.in + u.in /\ books'.used.out = books.used.out + u.out
      BY <1>12
    <3>6. /\ spent'.in = spent.in - fan[i].in + u.in /\ spent'.out = spent.out - fan[i].out + u.out
          /\ beyond.in <= beyond'.in /\ beyond.out <= beyond'.out
      BY <1>e
    <3>7. /\ spent.in <= books.used.in + books.pending.in + books.uncertain.in + beyond.in
          /\ spent.out <= books.used.out + books.pending.out + books.uncertain.out + beyond.out
      BY <2>1
    <3> QED BY ONLY <3>1, <3>2, <3>3, <3>4, <3>5, <3>6, <3>7
  <2>5. books'.pending.in = SumBy(OwedIn', fan') /\ books'.pending.out = SumBy(OwedOut', fan')
    BY <1>12, <2>2
  <2> QED BY <1>14, <2>3, <2>4, <2>5, AccountsMade
<1>17. Quotas'
  BY <1>2, <1>6, <1>8, QuotasSame
<1>18. Summaries'
  <2>1. fan[i].kind = stage.at /\ stage.at \in Kinds
    BY <1>4 DEF Course
  <2> DEFINE v == SumBy(Unsent', fan')
             s == SumBy(Sent', fan')
  <2>2. v \in Nat /\ s \in Nat /\ v = SumBy(Unsent, fan) /\ s <= SumBy(Sent, fan)
    BY <1>7, <1>8, <1>9, <1>10
  <2>3. v = SumBy(Unsent', fan') /\ s = SumBy(Sent', fan')
    OBVIOUS
  <2>4. sent.map \in Nat /\ sent.reduce \in Nat
    BY TypesParts
  <2> HIDE DEF v, s
  <2>5. sent'.map - s >= sent.map - SumBy(Sent, fan)
        /\ sent'.reduce - s >= sent.reduce - SumBy(Sent, fan)
        /\ sent'.map + v <= sent.map + SumBy(Unsent, fan)
        /\ sent'.reduce + v <= sent.reduce + SumBy(Unsent, fan)
    <3>1. sent' = sent
      BY <1>2
    <3>2. SumBy(Unsent, fan) \in Nat /\ SumBy(Sent, fan) \in Nat
      BY <1>10
    <3> QED BY ONLY <2>2, <2>4, <3>1, <3>2
  <2> QED BY <1>2, <1>6, <1>10, <1>14, <2>1, <2>2, <2>3, <2>5, SummariesKept
<1> QED BY <1>14, <1>15, <1>16, <1>17, <1>18

-----------------------------------------------------------------------------
(* The steps of all calls at once                                          *)

\* t are the calls of s, each in a state where it owes as much.
Moved(t, s) ==
  /\ t \in Seq(Call) /\ Len(t) = Len(s)
  /\ \A i \in DOMAIN s :
        /\ t[i].kind = s[i].kind /\ t[i].batch = s[i].batch
        /\ t[i].in = s[i].in /\ t[i].out = s[i].out
        /\ t[i].state \in {"out", "leaving"} <=> s[i].state \in {"out", "leaving"}

LEMMA MovedSums ==
  ASSUME Document, NEW s, s \in Seq(Call), NEW t, Moved(t, s)
  PROVE  /\ SumBy(OwedIn, t) = SumBy(OwedIn, s) /\ SumBy(OwedOut, t) = SumBy(OwedOut, s)
         /\ SumBy(Asking, t) = SumBy(Asking, s)
<1>1. t \in Seq(Call) /\ Len(t) = Len(s)
  BY DEF Moved
<1>2. ASSUME NEW i \in DOMAIN s
      PROVE  /\ OwedIn[t[i]] = OwedIn[s[i]] /\ OwedOut[t[i]] = OwedOut[s[i]]
             /\ Asking[t[i]] = Asking[s[i]]
  <2>1. s[i] \in Call /\ t[i] \in Call
    BY <1>1
  <2>2. /\ OwedIn[s[i]] = (IF s[i].state \in {"out", "leaving"} THEN s[i].in ELSE 0)
        /\ OwedOut[s[i]] = (IF s[i].state \in {"out", "leaving"} THEN s[i].out ELSE 0)
        /\ Asking[s[i]] = Total(s[i].batch)
    BY <2>1, CallIs
  <2>3. /\ OwedIn[t[i]] = (IF t[i].state \in {"out", "leaving"} THEN t[i].in ELSE 0)
        /\ OwedOut[t[i]] = (IF t[i].state \in {"out", "leaving"} THEN t[i].out ELSE 0)
        /\ Asking[t[i]] = Total(t[i].batch)
    BY <2>1, CallIs
  <2>4. /\ t[i].batch = s[i].batch /\ t[i].in = s[i].in /\ t[i].out = s[i].out
        /\ t[i].state \in {"out", "leaving"} <=> s[i].state \in {"out", "leaving"}
    BY DEF Moved
  <2> QED BY <2>2, <2>3, <2>4, Zenon
<1>3. Alike(OwedIn, t, s) /\ Alike(OwedOut, t, s) /\ Alike(Asking, t, s)
  BY <1>1, <1>2 DEF Alike
<1> QED BY <1>1, <1>3, SumSame

LEMMA MovedStep ==
  ASSUME IInv, Moved(fan', fan), Course', fan # <<>>,
         UNCHANGED <<doc, packs, stage, requested, accepted, books, sent, result, answered>>, NoDearer,
         ending' \in {None, "failed", "stopped"},
         SumBy(Unsent, fan') <= SumBy(Unsent, fan),
         ending' = None => ending = None /\ SumBy(Sent, fan') = SumBy(Sent, fan)
  PROVE  IInv'
<1> USE DEF IInv
<1>1. Document /\ fan \in Seq(Call) /\ sent.map \in Nat /\ sent.reduce \in Nat
  BY TypesParts
<1>2. fan' \in Seq(Call) /\ Len(fan') = Len(fan)
  BY DEF Moved
<1>3. Document' /\ Call' = Call /\ OwedIn' = OwedIn /\ OwedOut' = OwedOut
      /\ Unsent' = Unsent /\ Sent' = Sent
  BY <1>1, SameDocument DEF Document
<1>4. /\ SumBy(OwedIn, fan') = SumBy(OwedIn, fan) /\ SumBy(OwedOut, fan') = SumBy(OwedOut, fan)
      /\ SumBy(Asking, fan') = SumBy(Asking, fan)
  BY <1>1, MovedSums
<1>5. Types'
  <2>1. spent' \in Usage /\ beyond' \in [in : Nat, out : Nat]
    BY DEF NoDearer
  <2> QED BY <1>2, <1>3, <2>1, SameDocument DEF Types
<1>6. Accounts'
  <2>1. OwedIn' = OwedIn /\ OwedOut' = OwedOut
    BY <1>3
  <2>2. books'.pending.in = SumBy(OwedIn', fan') /\ books'.pending.out = SumBy(OwedOut', fan')
    BY <1>4, <2>1, AccountsParts
  <2> QED BY <1>5, <2>2, ChargedKept
<1>7. Quotas'
  BY <1>2, <1>4, QuotasSame
<1>8. Summaries'
  <2> DEFINE u == SumBy(Unsent', fan')
             s == SumBy(Sent', fan')
  <2>1. u \in Nat /\ s \in Nat /\ SumBy(Unsent, fan) \in Nat /\ SumBy(Sent, fan) \in Nat
    BY <1>1, <1>2, <1>3, SumsTyped
  <2>2. u = SumBy(Unsent', fan') /\ s = SumBy(Sent', fan')
    OBVIOUS
  <2>3. u <= SumBy(Unsent, fan) /\ (ending' = None => s = SumBy(Sent, fan))
    BY <1>3
  <2>4. stage.at \in Kinds
    <3>1. stage.at \notin {"start", "over"}
      BY DEF Course
    <3> QED BY <3>1 DEF Types, Kinds
  <2> HIDE DEF u, s
  <2>5. sent'.map = sent.map /\ sent'.reduce = sent.reduce /\ sent'.cards = sent.cards
    OBVIOUS
  <2>6. /\ sent'.map + u <= sent.map + SumBy(Unsent, fan)
        /\ sent'.reduce + u <= sent.reduce + SumBy(Unsent, fan)
    BY ONLY <1>1, <2>1, <2>3, <2>5
  <2>7. ASSUME ending' = None
        PROVE  /\ sent'.map - s >= sent.map - SumBy(Sent, fan)
               /\ sent'.reduce - s >= sent.reduce - SumBy(Sent, fan)
    <3>1. s = SumBy(Sent, fan)
      BY <2>3, <2>7
    <3> QED BY ONLY <1>1, <2>1, <3>1, <2>5
  <2>8. ending' = None => ending = None
    OBVIOUS
  <2> QED BY <1>2, <1>5, <2>1, <2>2, <2>4, <2>5, <2>6, <2>7, <2>8, SummariesKept
<1> QED BY <1>5, <1>6, <1>7, <1>8

LEMMA TriesBecomes ==
  ASSUME fan \in Seq(Call), NEW i, i \in DOMAIN fan,
         NEW t, t = [fan EXCEPT ![i].tries = @ + 1]
  PROVE  Becomes(t, i, fan[i].state, fan[i].offers)
<1> DEFINE n == fan[i].tries + 1
           x == [fan[i] EXCEPT !.tries = n]
<1>1. fan[i] \in Call
  OBVIOUS
<1>0. n \in Nat
  BY <1>1 DEF Call
<1>7. t = [fan EXCEPT ![i].tries = n]
  OBVIOUS
<1> HIDE DEF n
<1>2. x \in Call /\ x.kind = fan[i].kind /\ x.batch = fan[i].batch /\ x.in = fan[i].in
      /\ x.out = fan[i].out /\ x.state = fan[i].state /\ x.offers = fan[i].offers
  BY <1>0, <1>1 DEF Call
<1>3. t = [fan EXCEPT ![i] = x]
  BY <1>7
<1> HIDE DEF x
<1>4. t[i] = x /\ Len(t) = Len(fan) /\ \A k \in DOMAIN fan : k # i => t[k] = fan[k]
  BY <1>3
<1>5. t \in Seq(Call)
  BY <1>2, <1>3
<1>6. Alters(t, fan, i, t[i])
  BY <1>3, <1>4 DEF Alters
<1> QED BY <1>2, <1>4, <1>5, <1>6 DEF Becomes

\* A call that is tried again owes what it owed, and what the provider counted for
\* the attempt is beyond the books.
LEMMA TryAgainStep ==
  ASSUME IInv, NEW i, i \in DOMAIN fan, TryAgain(i)
  PROVE  IInv'
<1> USE DEF IInv
<1>1. PICK u \in Counted(fan[i]) : spent' = Plus(spent, u) /\ beyond' = Plus(beyond, u)
  BY DEF TryAgain
<1>2. /\ fan' = [fan EXCEPT ![i].tries = @ + 1] /\ fan[i].state = "out"
      /\ UNCHANGED <<doc, packs, stage, requested, accepted, books, sent, ending, result, answered>>
  BY DEF TryAgain
<1>3. /\ Document /\ fan \in Seq(Call) /\ fan[i] \in Call /\ fan # <<>>
      /\ spent.in \in Int /\ spent.out \in Int /\ beyond.in \in Nat /\ beyond.out \in Nat
      /\ spent \in Usage
  BY TypesParts DEF Types
<1>4. Becomes(fan', i, "out", fan[i].offers)
  BY <1>2, <1>3, TriesBecomes
<1>5. /\ fan' \in Seq(Call) /\ Len(fan') = Len(fan) /\ fan'[i] \in Call /\ fan'[i].state = "out"
      /\ fan'[i].kind = fan[i].kind /\ fan'[i].batch = fan[i].batch
      /\ fan'[i].in = fan[i].in /\ fan'[i].out = fan[i].out
      /\ \A k \in DOMAIN fan : k # i => fan'[k] = fan[k]
  BY <1>4 DEF Becomes
<1>6. Moved(fan', fan)
  <2> SUFFICES ASSUME NEW k \in DOMAIN fan
               PROVE  /\ fan'[k].kind = fan[k].kind /\ fan'[k].batch = fan[k].batch
                      /\ fan'[k].in = fan[k].in /\ fan'[k].out = fan[k].out
                      /\ fan'[k].state \in {"out", "leaving"} <=> fan[k].state \in {"out", "leaving"}
    BY <1>5 DEF Moved
  <2>1. CASE k = i
    BY <1>2, <1>5, <2>1
  <2>2. CASE k # i
    BY <1>5, <2>2
  <2> QED BY <2>1, <2>2
<1>7. Course'
  <2>1. ending = None
    BY <1>2 DEF Course
  <2> QED BY <1>2, <1>4, <2>1, CourseMove
<1>8. NoDearer
  <2>1. u \in Usage /\ u.in \in Nat /\ u.out \in Nat
    BY <1>1, <1>3, CountedIs
  <2>2. spent' \in Usage /\ spent'.in = spent.in + u.in /\ spent'.out = spent.out + u.out
    BY <1>1, <1>3, <2>1, UsageSums
  <2>3. /\ beyond' \in [in : Nat, out : Nat]
        /\ beyond'.in = beyond.in + u.in /\ beyond'.out = beyond.out + u.out
    <3>1. beyond.in + u.in \in Nat /\ beyond.out + u.out \in Nat
      BY <1>3, <2>1
    <3> QED BY <1>1, <3>1 DEF Plus
  <2>4. /\ spent'.in - beyond'.in <= spent.in - beyond.in
        /\ spent'.out - beyond'.out <= spent.out - beyond.out
    BY ONLY <1>3, <2>1, <2>2, <2>3
  <2> QED BY <2>2, <2>3, <2>4 DEF NoDearer
<1>9. SumBy(Unsent, fan') = SumBy(Unsent, fan) /\ SumBy(Sent, fan') = SumBy(Sent, fan)
  <2>1. /\ SumBy(Unsent, fan') = SumBy(Unsent, fan) - Unsent[fan[i]] + Unsent[fan'[i]]
        /\ SumBy(Sent, fan') = SumBy(Sent, fan) - Sent[fan[i]] + Sent[fan'[i]]
    BY <1>3, <1>4, MoveSums
  <2>2. Unsent[fan[i]] = 0 /\ Unsent[fan'[i]] = 0 /\ Sent[fan[i]] = 1 /\ Sent[fan'[i]] = 1
    BY <1>2, <1>3, <1>5, CallIs
  <2>3. SumBy(Unsent, fan) \in Nat /\ SumBy(Sent, fan) \in Nat
    BY <1>3, SumsTyped
  <2> QED BY ONLY <2>1, <2>2, <2>3
<1>10. SumBy(Unsent, fan) \in Nat
  BY <1>3, SumsTyped
<1>11. ending' \in {None, "failed", "stopped"}
  BY <1>2 DEF Types
<1> QED BY <1>2, <1>3, <1>6, <1>7, <1>8, <1>9, <1>10, <1>11, MovedStep

LEMMA FanOutStep ==
  ASSUME IInv, FanOut
  PROVE  IInv'
<1> USE DEF IInv
<1>1. /\ ending = None /\ InState({"held"}) # {} /\ fan[1].state = "ok"
      /\ fan' = [i \in DOMAIN fan |->
                    IF fan[i].state = "held" THEN [fan[i] EXCEPT !.state = "waiting"] ELSE fan[i]]
      /\ UNCHANGED <<doc, packs, stage, requested, accepted, books, sent, ending, result,
                     spent, beyond, answered>>
  BY DEF FanOut
<1>2. Document /\ fan \in Seq(Call)
  BY TypesParts
<1>3. fan # <<>>
  BY <1>1 DEF InState
<1>4. Len(fan) \in Nat /\ DOMAIN fan = 1 .. Len(fan) /\ 1 \in DOMAIN fan
  BY <1>2, <1>3
<1>5. ASSUME NEW i \in DOMAIN fan
      PROVE  /\ fan'[i] \in Call /\ fan'[i].kind = fan[i].kind /\ fan'[i].batch = fan[i].batch
             /\ fan'[i].in = fan[i].in /\ fan'[i].out = fan[i].out
             /\ fan'[i].offers = fan[i].offers
             /\ fan'[i].state = (IF fan[i].state = "held" THEN "waiting" ELSE fan[i].state)
  <2>1. fan[i] \in Call
    BY <1>2
  <2>2. CASE fan[i].state = "held"
    <3>1. fan'[i] = [fan[i] EXCEPT !.state = "waiting"]
      BY <1>1, <2>2
    <3> QED BY <2>1, <2>2, <3>1 DEF Call, States
  <2>3. CASE fan[i].state # "held"
    <3>1. fan'[i] = fan[i]
      BY <1>1, <2>3
    <3> QED BY <2>1, <2>3, <3>1
  <2> QED BY <2>2, <2>3
<1>6. fan' \in Seq(Call) /\ Len(fan') = Len(fan) /\ DOMAIN fan' = DOMAIN fan
  <2>1. fan' = [i \in 1 .. Len(fan) |-> fan'[i]]
    BY <1>1, <1>4
  <2>2. \A i \in 1 .. Len(fan) : fan'[i] \in Call
    BY <1>4, <1>5
  <2> QED BY <1>4, <2>1, <2>2
<1>7. Moved(fan', fan)
  <2>1. \A i \in DOMAIN fan : fan'[i].state \in {"out", "leaving"} <=> fan[i].state \in {"out", "leaving"}
    BY <1>5
  <2> QED BY <1>5, <1>6, <2>1 DEF Moved
<1>8. SumBy(Unsent, fan') = SumBy(Unsent, fan) /\ SumBy(Sent, fan') = SumBy(Sent, fan)
  <2>1. ASSUME NEW i \in DOMAIN fan
        PROVE  Unsent[fan'[i]] = Unsent[fan[i]] /\ Sent[fan'[i]] = Sent[fan[i]]
    <3>1. /\ Unsent[fan'[i]] = (IF fan'[i].state \in {"held", "waiting"} THEN 1 ELSE 0)
          /\ Sent[fan'[i]] = (IF fan'[i].state \in {"out", "ok"} THEN 1 ELSE 0)
      BY <1>2, <1>5, CallIs
    <3>2. /\ Unsent[fan[i]] = (IF fan[i].state \in {"held", "waiting"} THEN 1 ELSE 0)
          /\ Sent[fan[i]] = (IF fan[i].state \in {"out", "ok"} THEN 1 ELSE 0)
      BY <1>2, CallIs
    <3>3. fan'[i].state = (IF fan[i].state = "held" THEN "waiting" ELSE fan[i].state)
      BY <1>5
    <3> QED BY <3>1, <3>2, <3>3
  <2>2. Alike(Unsent, fan', fan) /\ Alike(Sent, fan', fan)
    BY <1>6, <2>1 DEF Alike
  <2> QED BY <1>2, <1>6, <2>2, SumSame
<1>9. Course'
  <2>1. stage.at = fan[1].kind /\ fan[1].kind \in answered
    BY <1>1, <1>4 DEF Course
  <2>2. /\ (stage.at \in {"start", "over"} => fan = <<>>)'
        /\ (stage.at \in Kinds => doc # <<>> /\ fan # <<>>)'
        /\ (stage.at \in {"start", "map", "reduce"} => \A c \in Chunks : accepted[c] = 0)'
        /\ (result # None => stage.at = "over")'
        /\ (ending # None => stage.at # "start")'
        /\ ending' = None
    BY <1>1, <1>3, <1>6, <1>4, SameDocument DEF Course
  <2>3. ASSUME NEW i \in DOMAIN fan'
        PROVE  /\ fan'[i].kind = stage'.at
               /\ fan'[i].state = "ok" => fan'[i].kind \in answered'
               /\ fan'[i].state = "ok" /\ fan'[i].kind = "cards" =>
                     DOMAIN fan'[i].offers = DOMAIN fan'[i].batch
               /\ fan'[i].kind \in answered'
    <3>1. /\ fan[i].kind = stage.at
          /\ fan[i].state = "ok" /\ fan[i].kind = "cards" =>
                DOMAIN fan[i].offers = DOMAIN fan[i].batch
      BY <1>1, <1>6 DEF Course
    <3> QED BY <1>1, <1>5, <1>6, <2>1, <3>1
  <2>4. ASSUME NEW i \in DOMAIN fan', NEW k \in DOMAIN fan', i # k
        PROVE  ~Shares(fan'[i].batch, fan'[k].batch)
    <3>1. ~Shares(fan[i].batch, fan[k].batch)
      BY <1>6, <2>4 DEF Course
    <3>2. fan'[i].batch = fan[i].batch /\ fan'[k].batch = fan[k].batch
      BY <1>5, <1>6
    <3> QED BY <3>1, <3>2
  <2> QED BY <2>2, <2>3, <2>4 DEF Course
<1>10. SumBy(Unsent, fan) \in Nat
  BY <1>2, SumsTyped
<1>11. SumBy(Unsent, fan') <= SumBy(Unsent, fan)
  BY <1>8, <1>10
<1>12. NoDearer
  BY <1>1, SameNoDearer DEF IInv
<1> QED BY <1>1, <1>3, <1>7, <1>8, <1>9, <1>11, <1>12, MovedStep

LEMMA CancelStep ==
  ASSUME IInv, fan # <<>>, ending' \in {"failed", "stopped"}, fan' = CancelSiblings,
         UNCHANGED <<doc, packs, stage, requested, accepted, books, sent, result, spent, beyond,
                     answered>>
  PROVE  IInv'
<1> USE DEF IInv
<1>1. Document /\ fan \in Seq(Call)
  BY TypesParts
<1>2. Len(fan) \in Nat /\ DOMAIN fan = 1 .. Len(fan) /\ 1 \in DOMAIN fan
  BY <1>1
<1>3. ending' # None
  BY PipelineAssumption
<1>4. ASSUME NEW i \in DOMAIN fan
      PROVE  /\ fan'[i] \in Call /\ fan'[i].kind = fan[i].kind /\ fan'[i].batch = fan[i].batch
             /\ fan'[i].in = fan[i].in /\ fan'[i].out = fan[i].out
             /\ fan'[i].state = CASE fan[i].state = "out" -> "leaving"
                                  [] fan[i].state \in {"held", "waiting"} -> "gone"
                                  [] OTHER -> fan[i].state
             /\ fan'[i].state \in {"leaving", "ok", "failed", "gone"}
  <2> DEFINE st == CASE fan[i].state = "out" -> "leaving"
                     [] fan[i].state \in {"held", "waiting"} -> "gone"
                     [] OTHER -> fan[i].state
  <2>1. fan[i] \in Call /\ fan[i].state \in States
    BY <1>1, CallIs
  <2>2. fan'[i] = [fan[i] EXCEPT !.offers = <<>>, !.state = st]
    BY Zenon DEF CancelSiblings
  <2>3. st \in {"leaving", "ok", "failed", "gone"}
    BY <2>1 DEF States
  <2>4. fan'[i].state = st /\ st = CASE fan[i].state = "out" -> "leaving"
                                  [] fan[i].state \in {"held", "waiting"} -> "gone"
                                  [] OTHER -> fan[i].state
    <3> HIDE DEF st
    <3>1. fan'[i].state = st
      BY <2>1, <2>2 DEF Call
    <3> QED BY <3>1 DEF st
  <2> HIDE DEF st
  <2>5. /\ fan'[i] \in Call /\ fan'[i].kind = fan[i].kind /\ fan'[i].batch = fan[i].batch
        /\ fan'[i].in = fan[i].in /\ fan'[i].out = fan[i].out
    BY <2>1, <2>2, <2>3, EmptyBatch DEF Call, States
  <2> QED BY <2>3, <2>4, <2>5
<1>6. fan' \in Seq(Call) /\ Len(fan') = Len(fan) /\ DOMAIN fan' = DOMAIN fan
  <2>1. fan' = [i \in 1 .. Len(fan) |-> fan'[i]]
    BY <1>2 DEF CancelSiblings
  <2>2. \A i \in 1 .. Len(fan) : fan'[i] \in Call
    BY <1>2, <1>4
  <2> QED BY <1>2, <2>1, <2>2
<1>7. Moved(fan', fan)
  <2>1. ASSUME NEW i \in DOMAIN fan
        PROVE  fan'[i].state \in {"out", "leaving"} <=> fan[i].state \in {"out", "leaving"}
    BY <1>4
  <2> QED BY <1>4, <1>6, <2>1 DEF Moved
<1>8. SumBy(Unsent, fan') = 0 /\ SumBy(Unsent, fan) \in Nat
  <2>1. ASSUME NEW i \in DOMAIN fan' PROVE Unsent[fan'[i]] = 0
    <3>1. Unsent[fan'[i]] = (IF fan'[i].state \in {"held", "waiting"} THEN 1 ELSE 0)
      BY <1>1, <1>4, <1>6, CallIs
    <3>2. fan'[i].state \in {"leaving", "ok", "failed", "gone"}
      BY <1>4, <1>6
    <3> QED BY <3>1, <3>2
  <2>2. SumBy(Unsent, fan') = 0
    BY <1>1, <1>6, <2>1, SumZero, WeightsTyped
  <2> QED BY <1>1, <2>2, SumsTyped
<1>9. Course'
  <2>2. /\ (stage.at \in {"start", "over"} => fan = <<>>)'
        /\ (stage.at \in Kinds => doc # <<>> /\ fan # <<>>)'
        /\ (stage.at \in {"start", "map", "reduce"} => \A c \in Chunks : accepted[c] = 0)'
        /\ (result # None => stage.at = "over")'
        /\ (ending # None => stage.at # "start")'
        /\ ending' # None
    BY <1>2, <1>3, <1>6, SameDocument DEF Course
  <2>3. ASSUME NEW i \in DOMAIN fan'
        PROVE  /\ fan'[i].kind = stage'.at
               /\ fan'[i].state = "ok" => fan'[i].kind \in answered'
               /\ fan'[i].state \in {"leaving", "ok", "failed", "gone"}
               /\ i = 1 \/ fan'[i].kind \in answered' \/ fan'[i].state \in {"held", "gone"}
    <3>1. /\ fan[i].kind = stage.at
          /\ fan[i].state = "ok" => fan[i].kind \in answered
          /\ i = 1 \/ fan[i].kind \in answered \/ fan[i].state \in {"held", "gone"}
      BY <1>6 DEF Course
    <3>2. /\ fan'[i].kind = fan[i].kind
          /\ fan'[i].state = "ok" => fan[i].state = "ok"
          /\ fan[i].state \in {"held", "gone"} => fan'[i].state = "gone"
          /\ fan'[i].state \in {"leaving", "ok", "failed", "gone"}
      BY <1>4, <1>6
    <3> QED BY <3>1, <3>2
  <2>4. ASSUME NEW i \in DOMAIN fan', NEW k \in DOMAIN fan', i # k
        PROVE  ~Shares(fan'[i].batch, fan'[k].batch)
    <3>1. ~Shares(fan[i].batch, fan[k].batch)
      BY <1>6, <2>4 DEF Course
    <3>2. fan'[i].batch = fan[i].batch /\ fan'[k].batch = fan[k].batch
      BY <1>4, <1>6
    <3> QED BY <3>1, <3>2
  <2> QED BY <2>2, <2>3, <2>4 DEF Course
<1>10. SumBy(Unsent, fan') <= SumBy(Unsent, fan)
  BY <1>8
<1>11. NoDearer
  BY SameNoDearer DEF IInv
<1> QED BY <1>3, <1>7, <1>9, <1>10, <1>11, MovedStep

LEMMA FailFastStep ==
  ASSUME IInv, FailFast
  PROVE  IInv'
<1>1. fan # <<>>
  BY DEF FailFast, InState
<1>2. /\ ending' \in {"failed", "stopped"} /\ fan' = CancelSiblings
      /\ UNCHANGED <<doc, packs, stage, requested, accepted, books, sent, result, spent, beyond,
                     answered>>
  BY Zenon DEF FailFast
<1> QED BY <1>1, <1>2, CancelStep

LEMMA JobStopsStep ==
  ASSUME IInv, JobStops
  PROVE  IInv'
<1>1. /\ fan # <<>> /\ ending' \in {"failed", "stopped"} /\ fan' = CancelSiblings
      /\ UNCHANGED <<doc, packs, stage, requested, accepted, books, sent, result, spent, beyond,
                     answered>>
  BY Zenon DEF JobStops
<1> QED BY <1>1, CancelStep

LEMMA StutterStep ==
  ASSUME IInv, UNCHANGED vars
  PROVE  IInv'
<1>1. UNCHANGED <<doc, packs, stage, fan, requested, accepted, books, sent, ending, result,
                  spent, beyond, answered>>
  BY DEF vars
<1>2. /\ Chunks' = Chunks /\ Batch' = Batch /\ Wave' = Wave /\ Call' = Call
      /\ OwedIn' = OwedIn /\ OwedOut' = OwedOut /\ Asking' = Asking
      /\ Unsent' = Unsent /\ Sent' = Sent /\ InWave' = InWave
  BY <1>1, SameDocument
<1>3. Types'
  BY <1>1, <1>2 DEF IInv, Types, Document
<1>4. Course'
  BY <1>1, <1>2 DEF IInv, Course
<1>5. Accounts'
  BY <1>1, <1>2 DEF IInv, Accounts, SpendingBounded
<1>6. Quotas'
  BY <1>1, <1>2 DEF IInv, Quotas, CardsExact, CardsOf
<1>7. Summaries'
  BY <1>1, <1>2, SameWays DEF IInv, Summaries, SummariesAsEstimated
<1> QED BY <1>3, <1>4, <1>5, <1>6, <1>7 DEF IInv

-----------------------------------------------------------------------------
(* The sums over chunks and calls                                          *)

\* h and t are the sums of the columns and of the rows of n rows over C.
Rows(g, C, n) == \A k \in 1 .. n : g[k] \in [C -> Int]
ColumnSums(h, g, C, n) ==
  h \in [C -> Int] /\ \A c \in C : h[c] = Total([k \in 1 .. n |-> g[k][c]])
RowSums(t, g, n) == t \in [1 .. n -> Int] /\ \A k \in 1 .. n : t[k] = Total(g[k])

LEMMA TotalSwap ==
  ASSUME NEW C, IsFiniteSet(C), NEW n \in Nat, NEW g, Rows(g, C, n),
         NEW h, ColumnSums(h, g, C, n), NEW t, RowSums(t, g, n)
  PROVE  Total(h) = Total(t)
<1> USE DEF Rows, ColumnSums, RowSums
<1> DEFINE Col(c) == [k \in 1 .. n |-> g[k][c]]
           R == [c \in C |-> CHOOSE r : Sums(r, Col(c), n) /\ r[n] = Total(Col(c))]
           Row(k) == [c \in C |-> R[c][k]]
           q == [k \in 0 .. n |-> Total(Row(k))]
<1>1. ASSUME NEW c \in C
      PROVE  Sums(R[c], Col(c), n) /\ R[c][n] = h[c]
  <2>1. Col(c) \in [1 .. n -> Int]
    OBVIOUS
  <2> DEFINE f == Col(c)
  <2>2. f \in [1 .. n -> Int]
    BY <2>1
  <2> HIDE DEF f
  <2>3. \E r : Sums(r, f, n) /\ r[n] = Total(f)
    BY <2>2, SumsExist
  <2>4. R[c] = CHOOSE r : Sums(r, f, n) /\ r[n] = Total(f)
    BY DEF f
  <2>5. Sums(R[c], f, n) /\ R[c][n] = Total(f)
    <3> HIDE DEF R
    <3> QED BY <2>3, <2>4
  <2>6. Total(f) = h[c]
    BY DEF f
  <2> HIDE DEF R
  <2> QED BY <2>5, <2>6 DEF f
<1> HIDE DEF R
<1>2. ASSUME NEW c \in C
      PROVE  /\ R[c] \in [0 .. n -> Int] /\ R[c][0] = 0
             /\ \A k \in 1 .. n : R[c][k] = R[c][k - 1] + g[k][c]
  <2>1. /\ R[c] \in [0 .. n -> Int] /\ R[c][0] = 0
        /\ \A k \in 1 .. n : R[c][k] = R[c][k - 1] + Col(c)[k]
    BY <1>1 DEF Sums
  <2>2. \A k \in 1 .. n : Col(c)[k] = g[k][c]
    OBVIOUS
  <2> HIDE DEF Col
  <2> QED BY <2>1, <2>2
<1>3. \A k \in 0 .. n : Row(k) \in [C -> Int]
  BY <1>2
<1>4. ASSUME NEW k \in 0 .. n PROVE q[k] = Total(Row(k)) /\ q[k] \in Int
  <2>1. Row(k) \in [C -> Int]
    BY <1>3
  <2>2. Total(Row(k)) \in Int
    <3> HIDE DEF Row
    <3> QED BY <2>1, TotalIsNumber
  <2> QED BY <2>2
<1>5. q[0] = 0
  <2>1. 0 \in 0 .. n
    OBVIOUS
  <2>2. Row(0) \in [C -> Int] /\ \A c \in C : Row(0)[c] = 0
    BY <1>2, <1>3, <2>1
  <2>3. Total(Row(0)) = 0
    <3> HIDE DEF Row
    <3> QED BY <2>2, TotalZero
  <2> QED BY <1>4, <2>1, <2>3
<1>6. ASSUME NEW k \in 1 .. n PROVE q[k] = q[k - 1] + t[k]
  <2>1. k \in 0 .. n /\ k - 1 \in 0 .. n
    OBVIOUS
  <2> DEFINE a == Row(k)
             b == Row(k - 1)
             d == g[k]
  <2>2. a \in [C -> Int] /\ b \in [C -> Int] /\ d \in [C -> Int]
    BY <1>3, <2>1
  <2>3. Adds(a, b, d, C)
    BY <1>2 DEF Adds
  <2>4. q[k] = Total(a) /\ q[k - 1] = Total(b) /\ t[k] = Total(d)
    <3> HIDE DEF q, Row
    <3> QED BY <1>4, <2>1
  <2> HIDE DEF a, b, d
  <2>5. a \in [C -> Int]
    BY <2>2
  <2>6. b \in [C -> Int]
    BY <2>2
  <2>7. d \in [C -> Int]
    BY <2>2
  <2>8. Total(a) = Total(b) + Total(d)
    BY ONLY IsFiniteSet(C), <2>3, <2>5, <2>6, <2>7, TotalPlus
  <2> QED BY <2>4, <2>8
<1>7. q \in [0 .. n -> Int]
  <2>1. q = [k \in 0 .. n |-> q[k]]
    OBVIOUS
  <2> HIDE DEF q
  <2> QED BY <1>4, <2>1
<1>8. q[n] = Total(h)
  <2>1. n \in 0 .. n
    OBVIOUS
  <2>2. Row(n) = h
    BY <1>1
  <2> HIDE DEF q
  <2> QED BY <1>4, <2>1, <2>2
<1> HIDE DEF q
<1>9. Sums(q, t, n)
  BY <1>5, <1>6, <1>7 DEF Sums
<1>10. t \in [1 .. n -> Int]
  OBVIOUS
<1> QED BY ONLY n \in Nat, <1>8, <1>9, <1>10, SumsAre

\* Zeros do not change a sum.
Pads(f, b, C, D) ==
  f \in [C -> Int] /\ \A c \in C : f[c] = (IF c \in D THEN b[c] ELSE 0)

LEMMA TotalPadded ==
  ASSUME NEW C, IsFiniteSet(C), NEW D, D \in SUBSET C, NEW b, b \in [D -> Int],
         NEW f, Pads(f, b, C, D)
  PROVE  Total(f) = Total(b)
<1> USE DEF Pads
<1> DEFINE Rest == C \ D
           B == {s \in SUBSET Rest : Total(Part(f, D \cup s)) # Total(Part(f, D))}
<1>1. IsFiniteSet(Rest)
  BY FS_Subset
<1>2. SUFFICES ASSUME B # {} PROVE FALSE
  <2>1. Total(Part(f, D \cup Rest)) = Total(Part(f, D))
    BY <1>2
  <2>2. D \cup Rest = C
    OBVIOUS
  <2>3. Part(f, C) = f /\ Part(f, D) = b
    BY DEF Part
  <2> QED BY <2>1, <2>2, <2>3
<1>3. PICK s \in B : \A y \in s : s \ {y} \notin B
  <2>1. B \subseteq SUBSET Rest
    OBVIOUS
  <2> HIDE DEF B, Rest
  <2> QED BY <1>1, <1>2, <2>1, MinimalSet
<1>4. s \in SUBSET Rest /\ Total(Part(f, D \cup s)) # Total(Part(f, D))
  BY <1>3
<1>5. s # {}
  <2>1. D \cup {} = D
    OBVIOUS
  <2> QED BY <1>4, <2>1
<1>6. PICK w \in s : TRUE
  BY <1>5
<1> DEFINE t == D \cup s
           r == D \cup (s \ {w})
<1>7. t \in SUBSET C /\ w \in t /\ r = t \ {w} /\ f[w] = 0
  BY <1>4, <1>6
<1>8. Total(Part(f, r)) = Total(Part(f, D))
  <2>1. s \ {w} \in SUBSET Rest /\ s \ {w} \notin B
    BY <1>3, <1>4, <1>6
  <2> QED BY <2>1
<1>9. Total(Part(f, t)) # Total(Part(f, D))
  BY <1>4
<1> HIDE DEF t, r
<1>10. Total(Part(f, t)) = f[w] + Total(Part(f, r)) /\ Total(Part(f, r)) \in Int
  BY <1>7, TotalStep
<1> QED BY <1>7, <1>8, <1>9, <1>10

\* What the calls ask of the chunks is what they ask for.
LEMMA AskedOfChunks ==
  ASSUME Document, fan \in Seq(Call),
         NEW h, h \in [Chunks -> Int],
         \A c \in Chunks : h[c] = Total([i \in DOMAIN fan |-> Asked(fan[i], c)])
  PROVE  Total(h) = SumBy(Asking, fan)
<1> DEFINE n == Len(fan)
           g == [k \in 1 .. n |-> [c \in Chunks |-> Asked(fan[k], c)]]
<1>1. n \in Nat /\ DOMAIN fan = 1 .. n /\ IsFiniteSet(Chunks)
  BY ChunksFinite
<1>2. ASSUME NEW k \in 1 .. n
      PROVE  /\ g[k] \in [Chunks -> Int] /\ Total(g[k]) = Asking[fan[k]]
             /\ \A c \in Chunks : g[k][c] = Asked(fan[k], c) /\ Asked(fan[k], c) \in Nat
  <2>1. fan[k] \in Call
    BY <1>1, <1>2
  <2> DEFINE b == fan[k].batch
             D == DOMAIN b
             f == g[k]
  <2>2. b \in Batch /\ Asking[fan[k]] = Total(b)
    BY <2>1, CallIs
  <2>3. D \in SUBSET Chunks /\ b \in [D -> Nat]
    BY <2>2, BatchIs
  <2>4. \A c \in Chunks : f[c] = (IF c \in D THEN b[c] ELSE 0) /\ f[c] = Asked(fan[k], c)
    BY DEF Asked
  <2>5. \A c \in Chunks : f[c] \in Nat
    <3> HIDE DEF f, D, b
    <3> QED BY <2>3, <2>4
  <2>6. f \in [Chunks -> Int]
    <3>1. f = [c \in Chunks |-> f[c]]
      OBVIOUS
    <3> HIDE DEF f
    <3> QED BY <2>5, <3>1
  <2>7. Total(f) = Total(b)
    <3>1. b \in [D -> Int]
      <4> HIDE DEF D, b
      <4> QED BY <2>3
    <3>2. Pads(f, b, Chunks, D)
      <4> HIDE DEF f, D, b
      <4> QED BY <2>4, <2>6 DEF Pads
    <3>3. IsFiniteSet(Chunks) /\ D \in SUBSET Chunks
      BY <1>1, <2>3
    <3> HIDE DEF f, D, b
    <3> QED BY ONLY <3>1, <3>2, <3>3, TotalPadded
  <2>8. f = g[k]
    OBVIOUS
  <2> HIDE DEF f, g
  <2> QED BY <2>2, <2>4, <2>5, <2>6, <2>7, <2>8
<1> DEFINE t == [k \in 1 .. n |-> Asking[fan[k]]]
<1>3. t \in [1 .. n -> Int] /\ \A k \in 1 .. n : t[k] = Total(g[k])
  <2>1. \A k \in 1 .. n : Asking[fan[k]] \in Nat
    <3>1. ASSUME NEW k \in 1 .. n PROVE Asking[fan[k]] \in Nat
      BY <1>1, CallIs
    <3> QED BY <3>1
  <2> HIDE DEF g
  <2> QED BY <1>2, <2>1
<1>4. SumBy(Asking, fan) = Total(t)
  BY <1>1 DEF SumBy
<1>5. \A c \in Chunks : h[c] = Total([k \in 1 .. n |-> g[k][c]])
  <2> SUFFICES ASSUME NEW c \in Chunks PROVE h[c] = Total([k \in 1 .. n |-> g[k][c]])
    OBVIOUS
  <2>1. [k \in 1 .. n |-> g[k][c]] = [i \in DOMAIN fan |-> Asked(fan[i], c)]
    BY <1>1
  <2> QED BY <2>1
<1>6. \A k \in 1 .. n : g[k] \in [Chunks -> Int]
  <2> HIDE DEF g
  <2> QED BY <1>2
<1> HIDE DEF g, t, n
<1>7. Rows(g, Chunks, n) /\ ColumnSums(h, g, Chunks, n) /\ RowSums(t, g, n)
  BY <1>3, <1>5, <1>6 DEF Rows, ColumnSums, RowSums
<1>8. IsFiniteSet(Chunks) /\ n \in Nat
  BY <1>1
<1>9. Total(h) = Total(t)
  BY ONLY <1>7, <1>8, TotalSwap
<1> QED BY <1>4, <1>9

-----------------------------------------------------------------------------
(* The steps of the run                                                    *)

\* No call is out, and so nothing is pending.
Quiet == \A i \in DOMAIN fan : fan[i].state \notin {"out", "leaving"}

LEMMA QuietBooks ==
  ASSUME Types, Accounts, Quiet
  PROVE  books.pending.in = 0 /\ books.pending.out = 0
<1>1. Document /\ fan \in Seq(Call)
  BY TypesParts
<1>2. \A i \in DOMAIN fan : OwedIn[fan[i]] = 0 /\ OwedOut[fan[i]] = 0
  <2> SUFFICES ASSUME NEW i \in DOMAIN fan PROVE OwedIn[fan[i]] = 0 /\ OwedOut[fan[i]] = 0
    OBVIOUS
  <2>1. /\ OwedIn[fan[i]] = (IF fan[i].state \in {"out", "leaving"} THEN fan[i].in ELSE 0)
        /\ OwedOut[fan[i]] = (IF fan[i].state \in {"out", "leaving"} THEN fan[i].out ELSE 0)
    BY <1>1, CallIs
  <2>2. fan[i].state \notin {"out", "leaving"}
    BY DEF Quiet
  <2> QED BY <2>1, <2>2
<1>3. OwedIn \in [Call -> Nat] /\ OwedOut \in [Call -> Nat]
  BY <1>1, WeightsTyped
<1>4. SumBy(OwedIn, fan) = 0
  BY <1>1, <1>2, <1>3, SumZero
<1>5. SumBy(OwedOut, fan) = 0
  BY <1>1, <1>2, <1>3, SumZero
<1> QED BY <1>4, <1>5, AccountsParts

\* Calls that are new: the first waits and the others too, or are held until it
\* is back.
Fresh(calls, kind) ==
  /\ calls \in Seq(Call) /\ calls # <<>>
  /\ \A i \in DOMAIN calls :
        /\ calls[i].kind = kind
        /\ calls[i].state \in {"waiting", "held"}
        /\ i = 1 \/ kind \in answered \/ calls[i].state = "held"
        /\ \A k \in DOMAIN calls : i # k => ~Shares(calls[i].batch, calls[k].batch)

LEMMA FreshSums ==
  ASSUME Document, NEW calls, NEW kind, Fresh(calls, kind)
  PROVE  /\ SumBy(OwedIn, calls) = 0 /\ SumBy(OwedOut, calls) = 0 /\ SumBy(Sent, calls) = 0
         /\ SumBy(Unsent, calls) = Len(calls)
<1>1. calls \in Seq(Call)
  BY DEF Fresh
<1>2. ASSUME NEW i \in DOMAIN calls
      PROVE  /\ OwedIn[calls[i]] = 0 /\ OwedOut[calls[i]] = 0 /\ Sent[calls[i]] = 0
             /\ Unsent[calls[i]] = 1
  <2>1. calls[i] \in Call
    BY <1>1
  <2>2. /\ OwedIn[calls[i]] = (IF calls[i].state \in {"out", "leaving"} THEN calls[i].in ELSE 0)
        /\ OwedOut[calls[i]] = (IF calls[i].state \in {"out", "leaving"} THEN calls[i].out ELSE 0)
        /\ Unsent[calls[i]] = (IF calls[i].state \in {"held", "waiting"} THEN 1 ELSE 0)
        /\ Sent[calls[i]] = (IF calls[i].state \in {"out", "ok"} THEN 1 ELSE 0)
    BY <2>1, CallIs
  <2>3. calls[i].state \in {"waiting", "held"}
    BY DEF Fresh
  <2> QED BY <2>2, <2>3
<1>3. OwedIn \in [Call -> Nat] /\ OwedOut \in [Call -> Nat]
      /\ Unsent \in [Call -> Nat] /\ Sent \in [Call -> Nat]
  BY WeightsTyped
<1>4. SumBy(OwedIn, calls) = 0
  <2>1. \A i \in DOMAIN calls : OwedIn[calls[i]] = 0
    BY <1>2
  <2>2. OwedIn \in [Call -> Nat]
    BY <1>3
  <2> QED BY ONLY <1>1, <2>1, <2>2, SumZero
<1>5. SumBy(OwedOut, calls) = 0
  <2>1. \A i \in DOMAIN calls : OwedOut[calls[i]] = 0
    BY <1>2
  <2>2. OwedOut \in [Call -> Nat]
    BY <1>3
  <2> QED BY ONLY <1>1, <2>1, <2>2, SumZero
<1>6. SumBy(Sent, calls) = 0
  <2>1. \A i \in DOMAIN calls : Sent[calls[i]] = 0
    BY <1>2
  <2>2. Sent \in [Call -> Nat]
    BY <1>3
  <2> QED BY ONLY <1>1, <2>1, <2>2, SumZero
<1>7. SumBy(Unsent, calls) = Len(calls)
  BY <1>1, <1>2, <1>3, SumOnes, SMTT(30)
<1> QED BY <1>4, <1>5, <1>6, <1>7

\* The books of a run that waits for no call, or for calls that are new.
LEMMA AccountsRest ==
  ASSUME Types, Types', Accounts, Quiet, UNCHANGED <<doc, books, spent, beyond>>,
         SumBy(OwedIn, fan') = 0, SumBy(OwedOut, fan') = 0
  PROVE  Accounts'
<1>1. Document
  BY TypesParts
<1>2. OwedIn' = OwedIn /\ OwedOut' = OwedOut
  BY SameDocument
<1>3. books.pending.in = 0 /\ books.pending.out = 0
  BY QuietBooks
<1>4. NoDearer
  BY SameNoDearer
<1>5. books'.pending.in = SumBy(OwedIn', fan') /\ books'.pending.out = SumBy(OwedOut', fan')
  BY <1>2, <1>3
<1>6. books' = books
  OBVIOUS
<1> QED BY <1>4, <1>5, <1>6, ChargedKept

LEMMA OverStep ==
  ASSUME IInv, Quiet, NEW how, how \in Ends, Over(how),
         UNCHANGED <<doc, packs, books, sent, ending, spent, beyond, answered>>,
         requested' \in [Chunks -> Nat], accepted' \in [Chunks -> Nat],
         \A c \in Chunks : accepted'[c] <= requested'[c],
         Total(accepted') <= Target, how = "ok" => Total(accepted') = Target
  PROVE  IInv'
<1> USE DEF IInv
<1>1. stage' = [Start EXCEPT !.at = "over"] /\ fan' = <<>> /\ result' = how
  BY DEF Over
<1>2. /\ stage' \in [at : {"start", "map", "reduce", "cards", "over"}, todo : Nat, next : Nat,
                     round : Nat, waves : Seq(Wave)]
      /\ stage'.at = "over"
  <2>1. <<>> \in Seq(Wave)
    OBVIOUS
  <2> QED BY <1>1, <2>1 DEF Start
<1>3. Document /\ Document'
  BY TypesParts DEF Document
<1>4. Chunks' = Chunks /\ Wave' = Wave /\ Call' = Call /\ Asking' = Asking /\ InWave' = InWave
  BY SameDocument
<1>5. Types'
  <2>1. fan' \in Seq(Call)
    BY <1>1
  <2> QED BY <1>1, <1>2, <1>3, <1>4, <2>1 DEF Types
<1>6. Course'
  <2>1. DOMAIN fan' = {}
    BY <1>1
  <2>2. stage'.at \notin Kinds
    BY <1>2 DEF Kinds
  <2> QED BY <1>1, <1>2, <2>1, <2>2 DEF Course
<1>7. Accounts'
  <2>1. SumBy(OwedIn, fan') = 0 /\ SumBy(OwedOut, fan') = 0
    BY <1>1, SumEmpty
  <2> QED BY <1>5, <2>1, AccountsRest
<1>8. Quotas'
  BY <1>1, <1>2, <1>4 DEF Quotas, CardsExact
<1>9. Summaries'
  <2>1. SummariesAsEstimated'
    BY SameWays DEF Summaries, SummariesAsEstimated
  <2> QED BY <1>2, <2>1 DEF Summaries
<1> QED BY <1>5, <1>6, <1>7, <1>8, <1>9

\* What the run then waits for, and what it has asked for and taken so far.
LEMMA AwaitStep ==
  ASSUME IInv, Quiet, ending = None, result = None, doc # <<>>,
         NEW kind, kind \in Kinds, Fresh(fan', kind),
         stage' \in [at : {"start", "map", "reduce", "cards", "over"}, todo : Nat, next : Nat,
                     round : Nat, waves : Seq(Wave)],
         stage'.at = kind,
         UNCHANGED <<doc, packs, books, sent, ending, result, spent, beyond, answered>>,
         requested' \in [Chunks -> Nat], accepted' \in [Chunks -> Nat],
         \A c \in Chunks : accepted'[c] <= requested'[c],
         Total(accepted') <= Target,
         kind \in {"map", "reduce"} => \A c \in Chunks : accepted'[c] = 0,
         kind = "cards" => Total(accepted') + SumBy(Asking, fan') + CardsOf(stage'.waves) <= Target,
         kind = "map" => /\ Summarised /\ Len(fan') = Len(packs)
                         /\ sent.map = 0 /\ sent.reduce = 0 /\ sent.cards = 0,
         kind = "reduce" => /\ Summarised /\ Len(fan') = 1 /\ stage'.todo + stage'.next >= 1
                            /\ sent.map = Len(packs) /\ sent.cards = 0
                            /\ sent.reduce + 1 + ToCome(stage'.todo, stage'.next)
                                  = ReduceCalls(Len(packs)),
         kind = "cards" => sent.map + sent.reduce = SummaryCalls
  PROVE  IInv'
<1> USE DEF IInv
<1>1. Document /\ Document' /\ sent.map \in Nat /\ sent.reduce \in Nat /\ sent.cards \in Nat
  BY TypesParts DEF Document
<1>2. /\ Chunks' = Chunks /\ Wave' = Wave /\ Call' = Call /\ Asking' = Asking /\ InWave' = InWave
      /\ Unsent' = Unsent /\ Sent' = Sent
  BY SameDocument
<1>3. fan' \in Seq(Call) /\ fan' # <<>>
  BY DEF Fresh
<1>4. /\ SumBy(OwedIn, fan') = 0 /\ SumBy(OwedOut, fan') = 0 /\ SumBy(Sent, fan') = 0
      /\ SumBy(Unsent, fan') = Len(fan')
  BY <1>1, FreshSums
<1>5. Types'
  BY <1>1, <1>2, <1>3 DEF Types
<1>6. Course'
  <2>1. ASSUME NEW i \in DOMAIN fan'
        PROVE  /\ fan'[i].kind = stage'.at
               /\ fan'[i].state \in {"waiting", "held"}
               /\ i = 1 \/ fan'[i].kind \in answered' \/ fan'[i].state = "held"
               /\ \A k \in DOMAIN fan' : i # k => ~Shares(fan'[i].batch, fan'[k].batch)
    BY DEF Fresh
  <2>2. /\ (stage.at \in {"start", "over"} => fan = <<>>)'
        /\ (stage.at \in Kinds => doc # <<>> /\ fan # <<>>)'
        /\ (stage.at \in {"start", "map", "reduce"} => \A c \in Chunks : accepted[c] = 0)'
        /\ (result # None => stage.at = "over")'
        /\ (ending # None => stage.at # "start")'
        /\ ending' = None
    BY <1>2, <1>3 DEF Kinds
  <2> QED BY <2>1, <2>2 DEF Course
<1>7. Accounts'
  BY <1>4, <1>5, AccountsRest
<1>8. Quotas'
  <2>1. result' # "ok"
    BY PipelineAssumption
  <2>2. CardsOf(stage.waves)' = CardsOf(stage'.waves)
    BY <1>2 DEF CardsOf
  <2>3. SumBy(Asking, fan)' = SumBy(Asking, fan')
    BY <1>2
  <2> QED BY <1>2, <2>1, <2>2, <2>3 DEF Quotas, CardsExact
<1>9. Summaries'
  <2>1. Summarised' = Summarised /\ SummaryCalls' = SummaryCalls
    BY SameWays
  <2>2. SumBy(Unsent, fan)' = Len(fan') /\ SumBy(Sent, fan)' = 0
    BY <1>2, <1>4
  <2>3. Len(packs) \in Nat /\ ReduceCalls(Len(packs)) \in Nat
    BY PacksCounted
  <2>4. CASE kind = "map"
    <3>1. SummaryCalls = Len(packs) + ReduceCalls(Len(packs))
      BY <2>4 DEF SummaryCalls
    <3>2. sent.map + sent.reduce <= SummaryCalls /\ ~(sent.cards > 0)
      BY <2>3, <2>4, <3>1
    <3>3. sent.map + Len(fan') <= Len(packs) /\ sent.map >= 0
      BY <2>3, <2>4
    <3> QED BY <1>1, <2>1, <2>2, <2>4, <3>2, <3>3 DEF Summaries, SummariesAsEstimated
  <2>5. CASE kind = "reduce"
    <3>1. SummaryCalls = Len(packs) + ReduceCalls(Len(packs))
      BY <2>5 DEF SummaryCalls
    <3>2. ToCome(stage'.todo, stage'.next) \in Nat
      <4>1. stage'.todo \in Nat /\ stage'.next \in Nat
        OBVIOUS
      <4> QED BY <4>1, ToComeStep
    <3>3. sent.reduce + 1 + ToCome(stage'.todo, stage'.next) = ReduceCalls(Len(packs))
          /\ sent.map = Len(packs) /\ sent.cards = 0 /\ Len(fan') = 1
      BY <2>5
    <3>4. sent.map + sent.reduce <= SummaryCalls /\ ~(sent.cards > 0)
      BY ONLY <1>1, <2>3, <3>1, <3>2, <3>3
    <3>5. /\ sent.reduce + Len(fan') + ToCome(stage'.todo, stage'.next) <= ReduceCalls(Len(packs))
          /\ sent.reduce + 1 - 0 + ToCome(stage'.todo, stage'.next) >= ReduceCalls(Len(packs))
      BY ONLY <1>1, <2>3, <3>2, <3>3
    <3>6. ToCome(stage.todo, stage.next)' = ToCome(stage'.todo, stage'.next)
          /\ ReduceCalls(Len(packs))' = ReduceCalls(Len(packs))
      OBVIOUS
    <3> QED BY <2>1, <2>2, <2>5, <3>4, <3>5, <3>6 DEF Summaries, SummariesAsEstimated
  <2>6. CASE kind = "cards"
    <3>1. sent.map + sent.reduce = SummaryCalls /\ sent.map + sent.reduce <= SummaryCalls
      BY <1>1, <2>6
    <3> QED BY <2>1, <2>6, <3>1 DEF Summaries, SummariesAsEstimated
  <2> QED BY <2>4, <2>5, <2>6 DEF Kinds
<1> QED BY <1>5, <1>6, <1>7, <1>8, <1>9

LEMMA RaiseStep ==
  ASSUME IInv, Raise
  PROVE  IInv'
<1> USE DEF IInv
<1>1. /\ ending # None /\ InState({"leaving"}) = {} /\ Over(ending)
      /\ UNCHANGED <<doc, packs, requested, accepted, books, sent, ending, spent, beyond, answered>>
  BY DEF Raise
<1>2. ending \in {"failed", "stopped"}
  BY <1>1 DEF Types
<1>3. Quiet
  <2> SUFFICES ASSUME NEW i \in DOMAIN fan PROVE fan[i].state \notin {"out", "leaving"}
    BY DEF Quiet
  <2>1. fan[i].state \in {"leaving", "ok", "failed", "gone"}
    BY <1>1 DEF Course
  <2>2. fan[i].state # "leaving"
    BY <1>1 DEF InState
  <2> QED BY <2>1, <2>2
<1>4. ending \in Ends /\ ending # "ok"
  BY <1>2 DEF Ends
<1>5. /\ requested' \in [Chunks -> Nat] /\ accepted' \in [Chunks -> Nat]
  BY <1>1 DEF Types
<1>6. /\ \A c \in Chunks : accepted'[c] <= requested'[c]
      /\ Total(accepted') <= Target
  BY <1>1 DEF Quotas, CardsExact
<1> DEFINE how == ending
<1>7. how \in Ends /\ Over(how) /\ how # "ok"
  BY <1>1, <1>4
<1> HIDE DEF how
<1> QED BY <1>1, <1>3, <1>5, <1>6, <1>7, OverStep

\* Calls of a kind that wait, before the others are held for the first.
AllWaiting(calls, kind) ==
  /\ calls \in Seq(Call) /\ calls # <<>>
  /\ \A i \in DOMAIN calls : calls[i].kind = kind /\ calls[i].state = "waiting"
  /\ \A i, k \in DOMAIN calls : i # k => ~Shares(calls[i].batch, calls[k].batch)

CallParts(kind, b, m, n) == kind \in Kinds /\ b \in Batch /\ m \in Nat /\ n \in Nat \ {0}

LEMMA NewCallIs ==
  ASSUME NEW kind, NEW b, NEW m, NEW n, CallParts(kind, b, m, n)
  PROVE  /\ NewCall(kind, b, m, n) \in Call
         /\ NewCall(kind, b, m, n).kind = kind /\ NewCall(kind, b, m, n).batch = b
         /\ NewCall(kind, b, m, n).state = "waiting"
<1>1. NewCall(kind, b, m, n) =
         [kind |-> kind, batch |-> b, in |-> m, out |-> n, state |-> "waiting",
          tries |-> 0, offers |-> <<>>]
  BY DEF NewCall
<1>2. "waiting" \in States
  BY DEF States
<1> QED BY <1>1, <1>2, EmptyBatch DEF Call, CallParts

LEMMA WaitingFresh ==
  ASSUME NEW calls, NEW kind, AllWaiting(calls, kind), kind \in answered \/ Len(calls) = 1
  PROVE  Fresh(calls, kind)
<1>1. calls \in Seq(Call) /\ calls # <<>>
      /\ (\A i \in DOMAIN calls : calls[i].kind = kind /\ calls[i].state = "waiting")
      /\ (\A i, k \in DOMAIN calls : i # k => ~Shares(calls[i].batch, calls[k].batch))
  BY DEF AllWaiting
<1>2. \A i \in DOMAIN calls : i = 1 \/ kind \in answered
  BY <1>1
<1> QED BY <1>1, <1>2 DEF Fresh

LEMMA ProbedFresh ==
  ASSUME Document, NEW calls, NEW kind, AllWaiting(calls, kind)
  PROVE  /\ Fresh(Probed(calls), kind) /\ Len(Probed(calls)) = Len(calls)
         /\ SumBy(Asking, Probed(calls)) = SumBy(Asking, calls)
<1> DEFINE t == Probed(calls)
<1>1. calls \in Seq(Call) /\ calls # <<>>
      /\ (\A i \in DOMAIN calls : calls[i].kind = kind /\ calls[i].state = "waiting")
      /\ (\A i, k \in DOMAIN calls : i # k => ~Shares(calls[i].batch, calls[k].batch))
  BY DEF AllWaiting
<1>2. Len(calls) \in Nat /\ DOMAIN calls = 1 .. Len(calls)
  BY <1>1
<1>3. ASSUME NEW i \in DOMAIN calls
      PROVE  /\ t[i] \in Call /\ t[i].kind = kind /\ t[i].batch = calls[i].batch
             /\ t[i].state = (IF i = 1 THEN "waiting" ELSE "held")
  <2>1. calls[i] \in Call /\ calls[i].kind = kind /\ calls[i].state = "waiting"
    BY <1>1
  <2>2. CASE i = 1
    <3>1. t[i] = calls[i]
      BY <2>2 DEF Probed
    <3> QED BY <2>1, <2>2, <3>1
  <2>3. CASE i # 1
    <3>1. t[i] = [calls[i] EXCEPT !.state = "held"]
      BY <2>3 DEF Probed
    <3> QED BY <2>1, <2>3, <3>1 DEF Call, States
  <2> QED BY <2>2, <2>3
<1>4. t = [i \in 1 .. Len(calls) |-> t[i]]
  BY <1>2 DEF Probed
<1> HIDE DEF t
<1>5. t \in Seq(Call) /\ Len(t) = Len(calls) /\ DOMAIN t = DOMAIN calls
  <2>1. \A i \in 1 .. Len(calls) : t[i] \in Call
    BY <1>2, <1>3
  <2> QED BY <1>2, <1>4, <2>1
<1>6. Fresh(t, kind)
  <2>1. t # <<>>
    BY <1>1, <1>2, <1>5
  <2>2. ASSUME NEW i \in DOMAIN t
        PROVE  /\ t[i].kind = kind
               /\ t[i].state \in {"waiting", "held"}
               /\ i = 1 \/ kind \in answered \/ t[i].state = "held"
    BY <1>3, <1>5
  <2>3. ASSUME NEW i \in DOMAIN t, NEW k \in DOMAIN t, i # k
        PROVE  ~Shares(t[i].batch, t[k].batch)
    <3>1. ~Shares(calls[i].batch, calls[k].batch)
      BY <1>1, <1>5, <2>3
    <3>2. t[i].batch = calls[i].batch /\ t[k].batch = calls[k].batch
      BY <1>3, <1>5
    <3> QED BY <3>1, <3>2
  <2> QED BY <1>5, <2>1, <2>2, <2>3 DEF Fresh
<1>7. SumBy(Asking, t) = SumBy(Asking, calls)
  <2>1. ASSUME NEW i \in DOMAIN calls PROVE Asking[t[i]] = Asking[calls[i]]
    <3>1. Asking[t[i]] = Total(t[i].batch) /\ t[i].batch = calls[i].batch
      BY <1>3, CallIs
    <3>2. Asking[calls[i]] = Total(calls[i].batch)
      BY <1>1, CallIs
    <3> QED BY <3>1, <3>2
  <2>2. Alike(Asking, t, calls)
    BY <1>5, <2>1 DEF Alike
  <2> QED BY <1>1, <1>5, <2>2, SumSame
<1> QED BY <1>5, <1>6, <1>7 DEF t

LEMMA CardCallsAre ==
  ASSUME Document, NEW wave, wave \in Wave, NEW n, n \in Nat
  PROVE  /\ AllWaiting(CardCalls(wave, n), "cards")
         /\ SumBy(Asking, CardCalls(wave, n)) = InWave[wave]
<1> DEFINE t == CardCalls(wave, n)
<1>1. wave \in Seq(Batch) /\ wave # <<>> /\ Apart(wave)
  BY DEF Wave
<1>2. Len(wave) \in Nat /\ DOMAIN wave = 1 .. Len(wave)
  BY <1>1
<1>3. ASSUME NEW i \in DOMAIN wave
      PROVE  t[i] \in Call /\ t[i].kind = "cards" /\ t[i].batch = wave[i] /\ t[i].state = "waiting"
  <2> DEFINE b == wave[i]
             e == Exclusions(n)
             p == CardPrompt(b, e)
             o == BatchOutput(b)
             k == "cards"
  <2>1. b \in Batch
    BY <1>1
  <2>2. e \in Nat
    BY PromptsTyped
  <2>3. p \in Nat
    <3>1. DOMAIN b \subseteq Chunks
      <4> HIDE DEF b
      <4> QED BY <2>1, BatchIs
    <3> HIDE DEF b, e
    <3> QED BY <2>2, <3>1, PromptsTyped
  <2>4. o \in Nat \ {0}
    <3>1. CallOutput \in Nat \ {0} /\ BaseOutput \in Nat \ {0} /\ CardOutput \in Nat
      BY Numbers
    <3>2. Total(b) \in Nat
      <4> HIDE DEF b
      <4> QED BY <2>1, BatchIs
    <3> DEFINE m == Total(b) * CardOutput
    <3>3. m \in Nat
      BY <3>1, <3>2
    <3>4. o = Least(CallOutput, m + BaseOutput)
      BY DEF BatchOutput
    <3> HIDE DEF m, o
    <3> QED BY <3>1, <3>3, <3>4 DEF Least
  <2>5. k \in Kinds /\ t[i] = NewCall(k, b, p, o)
    BY DEF Kinds, CardCalls
  <2> HIDE DEF b, e, p, o, k
  <2>7. CallParts(k, b, p, o)
    BY <2>1, <2>3, <2>4, <2>5 DEF CallParts
  <2>6. /\ NewCall(k, b, p, o) \in Call /\ NewCall(k, b, p, o).kind = k
        /\ NewCall(k, b, p, o).batch = b /\ NewCall(k, b, p, o).state = "waiting"
    BY <2>7, NewCallIs
  <2> HIDE DEF t
  <2> QED BY <2>5, <2>6 DEF b, k
<1>4. t = [i \in 1 .. Len(wave) |-> t[i]]
  BY <1>2 DEF CardCalls
<1> HIDE DEF t
<1>5. t \in Seq(Call) /\ DOMAIN t = DOMAIN wave /\ Len(t) = Len(wave)
  <2>1. \A i \in 1 .. Len(wave) : t[i] \in Call
    BY <1>2, <1>3
  <2> QED BY <1>2, <1>4, <2>1
<1>6. AllWaiting(t, "cards")
  <2>1. t # <<>>
    BY <1>1, <1>2, <1>5
  <2>2. \A i \in DOMAIN t : t[i].kind = "cards" /\ t[i].state = "waiting" /\ t[i].batch = wave[i]
    BY <1>3, <1>5
  <2>3. \A i, k \in DOMAIN t : i # k => ~Shares(t[i].batch, t[k].batch)
    BY <1>1, <1>5, <2>2 DEF Apart
  <2> QED BY <1>5, <2>1, <2>2, <2>3 DEF AllWaiting
<1>7. SumBy(Asking, t) = InWave[wave]
  <2>1. ASSUME NEW i \in DOMAIN wave PROVE Asking[t[i]] = Asks[wave[i]]
    <3>1. Asking[t[i]] = Total(t[i].batch) /\ t[i].batch = wave[i]
      BY <1>3, CallIs
    <3>2. wave[i] \in Batch
      BY <1>1
    <3>3. Asks[wave[i]] = Total(wave[i])
      BY <3>2, BatchIs
    <3> QED BY <3>1, <3>3
  <2>2. [i \in DOMAIN t |-> Asking[t[i]]] = [i \in DOMAIN wave |-> Asks[wave[i]]]
    BY <1>5, <2>1
  <2>3. SumBy(Asking, t) = SumBy(Asks, wave)
    BY <2>2, Zenon DEF SumBy
  <2>4. InWave[wave] = SumBy(Asks, wave)
    BY DEF InWave, CardsIn
  <2> QED BY <2>3, <2>4
<1> QED BY <1>6, <1>7 DEF t

LEMMA MapCallsAre ==
  ASSUME Document, packs \in Seq(SUBSET Chunks), packs # <<>>
  PROVE  AllWaiting(MapCalls, "map") /\ Len(MapCalls) = Len(packs)
<1> DEFINE t == MapCalls
<1>1. Len(packs) \in Nat /\ DOMAIN packs = 1 .. Len(packs)
  OBVIOUS
<1>2. ASSUME NEW i \in DOMAIN packs
      PROVE  t[i] \in Call /\ t[i].kind = "map" /\ t[i].batch = <<>> /\ t[i].state = "waiting"
  <2> DEFINE p == MapPrompt(packs[i])
             k == "map"
             b == <<>>
             o == SummaryOutput
  <2>1. packs[i] \in SUBSET Chunks
    OBVIOUS
  <2>2. p \in Nat
    BY <2>1, PromptsTyped
  <2>3. o \in Nat \ {0}
    BY Numbers
  <2>4. k \in Kinds /\ t[i] = NewCall(k, b, p, o)
    BY DEF Kinds, MapCalls
  <2>a. b \in Batch
    BY EmptyBatch
  <2> HIDE DEF p, k, b, t, o
  <2>b. CallParts(k, b, p, o)
    BY <2>2, <2>3, <2>4, <2>a DEF CallParts
  <2>5. /\ NewCall(k, b, p, o) \in Call /\ NewCall(k, b, p, o).kind = k
        /\ NewCall(k, b, p, o).batch = b /\ NewCall(k, b, p, o).state = "waiting"
    BY <2>b, NewCallIs
  <2> QED BY <2>4, <2>5 DEF k, b
<1>3. t = [i \in 1 .. Len(packs) |-> t[i]]
  BY <1>1 DEF MapCalls
<1> HIDE DEF t
<1>4. t \in Seq(Call) /\ DOMAIN t = DOMAIN packs /\ Len(t) = Len(packs)
  <2>1. \A i \in 1 .. Len(packs) : t[i] \in Call
    BY <1>1, <1>2
  <2> QED BY <1>1, <1>3, <2>1
<1>5. AllWaiting(t, "map")
  <2>1. t # <<>>
    BY <1>1, <1>4
  <2>2. \A i \in DOMAIN t : t[i].kind = "map" /\ t[i].state = "waiting" /\ t[i].batch = <<>>
    BY <1>2, <1>4
  <2>3. \A i, k \in DOMAIN t : ~Shares(t[i].batch, t[k].batch)
    BY <2>2 DEF Shares
  <2> QED BY <1>4, <2>1, <2>2, <2>3 DEF AllWaiting
<1> QED BY <1>4, <1>5 DEF t

LEMMA ReduceCallIs ==
  ASSUME NEW n, n \in Nat
  PROVE  AllWaiting(ReduceCall(n), "reduce") /\ Len(ReduceCall(n)) = 1
<1> DEFINE p == ReducePrompt(Least(n, GroupSize))
           k == "reduce"
           b == <<>>
           o == SummaryOutput
           x == NewCall(k, b, p, o)
<1>1. Instructions \in Nat /\ SummaryOutput \in Nat \ {0} /\ GroupSize \in Nat
  BY Numbers
<1>2. p \in Nat
  <2> DEFINE m == Least(n, GroupSize)
             j == m * SummaryOutput
  <2>1. m \in Nat
    BY <1>1 DEF Least
  <2>2. j \in Nat
    <3> HIDE DEF m
    <3> QED BY <1>1, <2>1
  <2>3. p = Instructions + j
    BY DEF ReducePrompt
  <2> HIDE DEF j
  <2> QED BY <1>1, <2>2, <2>3
<1>3. k \in Kinds
  BY DEF Kinds
<1>a. b \in Batch
  BY EmptyBatch
<1>b. o \in Nat \ {0}
  BY <1>1
<1>4. x \in Call /\ x.kind = k /\ x.batch = b /\ x.state = "waiting"
  <2> HIDE DEF p, k, b, o
  <2>1. CallParts(k, b, p, o)
    BY <1>2, <1>3, <1>a, <1>b DEF CallParts
  <2> QED BY <2>1, NewCallIs
<1>5. ReduceCall(n) = <<x>>
  BY DEF ReduceCall
<1> HIDE DEF x
<1>6. Len(<<x>>) = 1 /\ <<x>> \in Seq(Call) /\ <<x>> # <<>> /\ DOMAIN <<x>> = {1} /\ <<x>>[1] = x
  BY <1>4
<1> QED BY <1>4, <1>5, <1>6 DEF AllWaiting

\* The run waits for the first of these waves.
AwaitWave(st, got, round, waves) ==
  LET calls == CardCalls(Head(waves), Total(got))
  IN Await([st EXCEPT !.at = "cards", !.round = round, !.waves = Tail(waves)],
           IF st.at # "cards" THEN Probed(calls) ELSE calls)

Stages == [at : {"start", "map", "reduce", "cards", "over"}, todo : Nat, next : Nat,
           round : Nat, waves : Seq(Wave)]

LEMMA WaveStep ==
  ASSUME IInv, Quiet, ending = None, result = None, doc # <<>>,
         NEW st, st \in Stages, st.at # "cards" \/ "cards" \in answered,
         NEW got, got \in [Chunks -> Nat], NEW round, round \in Nat,
         NEW waves, waves \in Seq(Wave), waves # <<>>,
         AwaitWave(st, got, round, waves), accepted' = got,
         requested' \in [Chunks -> Nat], \A c \in Chunks : got[c] <= requested'[c],
         Total(got) + CardsOf(waves) <= Target,
         sent.map + sent.reduce = SummaryCalls,
         UNCHANGED <<doc, packs, books, sent, ending, spent, beyond, answered>>
  PROVE  IInv'
<1> DEFINE wave == Head(waves)
           rest == Tail(waves)
           n == Total(got)
           calls == CardCalls(wave, n)
           all == IF st.at # "cards" THEN Probed(calls) ELSE calls
<1>1. Document /\ IsFiniteSet(Chunks)
  BY TypesParts, ChunksFinite DEF IInv
<1>2. n \in Nat
  BY <1>1, TotalNatural
<1>3. wave \in Wave /\ rest \in Seq(Wave)
  OBVIOUS
<1>4. stage' = [st EXCEPT !.at = "cards", !.round = round, !.waves = rest] /\ fan' = all
      /\ UNCHANGED result
  BY DEF AwaitWave, Await
<1>5. CardsOf(waves) = InWave[wave] + CardsOf(rest)
  <2>1. InWave \in [Wave -> Nat]
    BY <1>1, InWaveTyped
  <2>2. SumBy(InWave, waves) = InWave[Head(waves)] + SumBy(InWave, rest)
    <3> DEFINE w == InWave
    <3>1. Tails(rest, waves)
      BY DEF Tails
    <3>2. w \in [Wave -> Nat]
      BY <2>1
    <3>3. waves \in Seq(Wave)
      OBVIOUS
    <3> HIDE DEF rest, w
    <3>4. SumBy(w, waves) = w[Head(waves)] + SumBy(w, rest)
      BY ONLY <3>1, <3>2, <3>3, SumTail
    <3> QED BY <3>4 DEF w
  <2> QED BY <2>2 DEF CardsOf
<1>6. CardsOf(rest) \in Nat /\ InWave[wave] \in Nat
  <2>1. CardsOf(rest) \in Nat
    <3> HIDE DEF rest
    <3> QED BY <1>1, <1>3, CardsOfTyped
  <2>2. InWave[wave] \in Nat
    <3> HIDE DEF wave
    <3> QED BY <1>1, <1>3, InWaveTyped
  <2> QED BY <2>1, <2>2
<1>7. AllWaiting(calls, "cards") /\ SumBy(Asking, calls) = InWave[wave]
  <2> HIDE DEF wave, n
  <2> QED BY <1>1, <1>2, <1>3, CardCallsAre
<1>8. Fresh(all, "cards") /\ SumBy(Asking, all) = InWave[wave]
  <2>1. CASE st.at # "cards"
    <3>1. all = Probed(calls)
      BY <2>1
    <3> HIDE DEF all, calls
    <3> QED BY <1>1, <1>7, <3>1, ProbedFresh
  <2>2. CASE st.at = "cards"
    <3>1. all = calls
      BY <2>2
    <3> HIDE DEF all, calls
    <3> QED BY <1>7, <2>2, <3>1, WaitingFresh
  <2> QED BY <2>1, <2>2
<1>9. /\ stage' \in Stages /\ stage'.at = "cards" /\ stage'.waves = rest
  <2> HIDE DEF rest
  <2> QED BY <1>3, <1>4 DEF Stages
<1> HIDE DEF wave, rest, n, calls, all
<1>10. Total(accepted') + SumBy(Asking, fan') + CardsOf(stage'.waves) <= Target
       /\ Total(accepted') <= Target
  <2>1. Target \in Nat
    BY Numbers
  <2>2. Total(accepted') = n /\ SumBy(Asking, fan') = InWave[wave] /\ CardsOf(stage'.waves) = CardsOf(rest)
    BY <1>4, <1>8, <1>9 DEF n
  <2>3. n + CardsOf(waves) <= Target
    BY DEF n
  <2> QED BY ONLY <1>2, <1>5, <1>6, <2>1, <2>2, <2>3
<1>11. Fresh(fan', "cards") /\ "cards" \in Kinds
  BY <1>4, <1>8 DEF Kinds
<1> QED BY <1>4, <1>9, <1>10, <1>11, AwaitStep DEF Stages

\* The waves of a round ask for what is missing.
RoundWaves(missing, asked, got, exclusions) ==
  Waves(Batches(Allocation(missing, asked, got), exclusions))

LEMMA RoundIs ==
  ASSUME Document, doc # <<>>, NEW missing, missing \in Nat, missing # 0,
         NEW asked, asked \in [Chunks -> Nat], NEW got, got \in [Chunks -> Nat],
         NEW exclusions
  PROVE  /\ RoundWaves(missing, asked, got, exclusions) \in Seq(Wave)
         /\ RoundWaves(missing, asked, got, exclusions) # <<>>
         /\ CardsOf(RoundWaves(missing, asked, got, exclusions)) = missing
<1> DEFINE a == Allocation(missing, asked, got)
           S == Batches(a, exclusions)
           waves == RoundWaves(missing, asked, got, exclusions)
<1>1. a \in [Chunks -> Nat] /\ Total(a) = missing
  BY AllocationExact
<1> HIDE DEF a
<1>2. S \in Seq(Batch) /\ CardsIn(S) = missing
  BY <1>1, BatchesExact
<1>3. waves = Waves(S)
  BY DEF a, RoundWaves
<1> HIDE DEF S, waves
<1>4. waves \in Seq(Wave) /\ CardsOf(waves) = missing
  BY <1>2, <1>3, WavesExact
<1>5. CardsOf(<<>>) = 0
  BY SumEmpty DEF CardsOf
<1> QED BY <1>4, <1>5 DEF waves

\* The ways on when the cards of a stage are counted.
LEMMA NextWaveIs ==
  ASSUME NEW st, NEW asked, NEW got, NextWave(st, asked, got)
  PROVE  \/ Target - Total(got) = 0 /\ Over("ok")
         \/ Over("insufficient")
         \/ /\ Target - Total(got) # 0 /\ st.at # "cards"
            /\ AwaitWave(st, got, 0, RoundWaves(Target - Total(got), asked, got, 0))
         \/ /\ st.at = "cards" /\ st.waves # <<>> /\ AwaitWave(st, got, st.round, st.waves)
         \/ /\ Target - Total(got) # 0 /\ st.at = "cards"
            /\ \E e : AwaitWave(st, got, st.round + 1,
                                RoundWaves(Target - Total(got), asked, got, e))
<1> DEFINE missing == Target - Total(got)
           wave(round, waves) == AwaitWave(st, got, round, waves)
           fresh(round) == wave(round, RoundWaves(missing, asked, got,
                                        IF round > 0 THEN Exclusions(Total(got)) ELSE 0))
<1>1. \/ missing = 0 /\ Over("ok")
      \/ missing # 0 /\ st.at # "cards" /\ fresh(0)
      \/ missing > 0 /\ st.at = "cards" /\ st.waves # <<>> /\ wave(st.round, st.waves)
      \/ missing > 0 /\ st.at = "cards" /\ st.waves = <<>> /\ st.round < RefillRounds
         /\ fresh(st.round + 1)
      \/ Over("insufficient")
  BY Zenon DEF NextWave, AwaitWave, RoundWaves
<1>2. CASE missing = 0 /\ Over("ok")
  BY <1>2
<1>3. CASE missing # 0 /\ st.at # "cards" /\ fresh(0)
  <2>1. (IF 0 > 0 THEN Exclusions(Total(got)) ELSE 0) = 0
    OBVIOUS
  <2>2. wave(0, RoundWaves(missing, asked, got, 0))
    BY <1>3, <2>1
  <2> QED BY <1>3, <2>2
<1>4. CASE st.at = "cards" /\ st.waves # <<>> /\ wave(st.round, st.waves)
  BY <1>4
<1>5. CASE missing > 0 /\ st.at = "cards" /\ fresh(st.round + 1)
  <2>1. missing # 0
    BY <1>5
  <2>2. \E e : wave(st.round + 1, RoundWaves(missing, asked, got, e))
    BY <1>5, Zenon
  <2> QED BY <1>5, <2>1, <2>2
<1>6. CASE Over("insufficient")
  BY <1>6
<1> QED BY <1>1, <1>2, <1>3, <1>4, <1>5, <1>6

LEMMA NextWaveStep ==
  ASSUME IInv, Quiet, ending = None, result = None, doc # <<>>,
         NEW st, st \in Stages, st.at # "cards" \/ "cards" \in answered,
         NEW asked, asked \in [Chunks -> Nat], NEW got, got \in [Chunks -> Nat],
         NextWave(st, asked, got), requested' = asked, accepted' = got,
         \A c \in Chunks : got[c] <= asked[c],
         Total(got) <= Target,
         st.at = "cards" => Total(got) + CardsOf(st.waves) <= Target,
         sent.map + sent.reduce = SummaryCalls,
         UNCHANGED <<doc, packs, books, sent, ending, spent, beyond, answered>>
  PROVE  IInv'
<1> DEFINE missing == Target - Total(got)
<1>1. Document /\ IsFiniteSet(Chunks) /\ Target \in Nat
  BY TypesParts, ChunksFinite, Numbers DEF IInv
<1>2. Total(got) \in Nat
  BY <1>1, TotalNatural
<1>3. missing \in Nat /\ Total(got) + missing = Target
  BY <1>1, <1>2
<1>4. \/ missing = 0 /\ Over("ok")
      \/ Over("insufficient")
      \/ /\ missing # 0 /\ st.at # "cards"
         /\ AwaitWave(st, got, 0, RoundWaves(missing, asked, got, 0))
      \/ /\ st.at = "cards" /\ st.waves # <<>> /\ AwaitWave(st, got, st.round, st.waves)
      \/ /\ missing # 0 /\ st.at = "cards"
         /\ \E e : AwaitWave(st, got, st.round + 1,
                             RoundWaves(missing, asked, got, e))
  BY NextWaveIs
<1> HIDE DEF missing
<1>5. CASE missing = 0 /\ Over("ok")
  <2> DEFINE how == "ok"
  <2>1. how \in Ends /\ Over(how) /\ (how = "ok" => Total(accepted') = Target)
    BY <1>2, <1>3, <1>5 DEF Ends
  <2> HIDE DEF how
  <2> QED BY <2>1, OverStep
<1>6. CASE Over("insufficient")
  <2> DEFINE how == "insufficient"
  <2>1. how \in Ends /\ Over(how) /\ (how = "ok" => Total(accepted') = Target)
    BY <1>6 DEF Ends
  <2> HIDE DEF how
  <2> QED BY <2>1, OverStep
<1>7. ASSUME missing # 0, NEW e, NEW round, round \in Nat,
             AwaitWave(st, got, round, RoundWaves(missing, asked, got, e))
      PROVE  IInv'
  <2> DEFINE waves == RoundWaves(missing, asked, got, e)
  <2>1. waves = RoundWaves(missing, asked, got, e) /\ AwaitWave(st, got, round, waves)
    BY <1>7
  <2> HIDE DEF waves
  <2>2. waves \in Seq(Wave) /\ waves # <<>> /\ CardsOf(waves) = missing
    <3>1. Document
      BY <1>1
    <3>2. missing \in Nat
      BY <1>3
    <3>4. missing # 0
      BY <1>7
    <3>5. asked \in [Chunks -> Nat] /\ got \in [Chunks -> Nat] /\ doc # <<>>
      OBVIOUS
    <3>6. /\ RoundWaves(missing, asked, got, e) \in Seq(Wave) /\ RoundWaves(missing, asked, got, e) # <<>>
          /\ CardsOf(RoundWaves(missing, asked, got, e)) = missing
      BY ONLY <3>1, <3>2, <3>4, <3>5, RoundIs
    <3> QED BY <2>1, <3>6
  <2>3. Total(got) + CardsOf(waves) <= Target
    BY <1>1, <1>3, <2>2
  <2>4. requested' \in [Chunks -> Nat] /\ \A c \in Chunks : got[c] <= requested'[c]
    OBVIOUS
  <2> QED BY <1>7, <2>1, <2>2, <2>3, <2>4, WaveStep
<1>8. CASE missing # 0 /\ st.at # "cards"
           /\ AwaitWave(st, got, 0, RoundWaves(missing, asked, got, 0))
  BY <1>7, <1>8
<1>9. CASE st.at = "cards" /\ st.waves # <<>> /\ AwaitWave(st, got, st.round, st.waves)
  <2> DEFINE waves == st.waves
             round == st.round
  <2>1. waves \in Seq(Wave) /\ waves # <<>> /\ round \in Nat /\ Total(got) + CardsOf(waves) <= Target
        /\ AwaitWave(st, got, round, waves)
    BY <1>9 DEF Stages
  <2>2. requested' \in [Chunks -> Nat] /\ \A c \in Chunks : got[c] <= requested'[c]
    OBVIOUS
  <2> HIDE DEF waves, round
  <2> QED BY <2>1, <2>2, WaveStep
<1>10. CASE /\ missing # 0 /\ st.at = "cards"
            /\ \E e : AwaitWave(st, got, st.round + 1,
                                RoundWaves(missing, asked, got, e))
  <2> DEFINE round == st.round + 1
  <2>1. PICK e : AwaitWave(st, got, round, RoundWaves(missing, asked, got, e))
    BY <1>10
  <2>2. round \in Nat
    BY DEF Stages
  <2> HIDE DEF round
  <2> QED BY <1>7, <1>10, <2>1, <2>2
<1> QED BY <1>4, <1>5, <1>6, <1>8, <1>9, <1>10

\* The next group of summaries, or the cards when one summary is left.
LEMMA NextGroupStep ==
  ASSUME IInv, Quiet, ending = None, result = None, doc # <<>>, stage.at \in {"map", "reduce"},
         NEW todo, todo \in Nat, NEW next, next \in Nat, todo + next >= 1,
         NextGroup(todo, next), Summarised,
         sent.map = Len(packs), sent.cards = 0,
         sent.reduce + ToCome(todo, next) = ReduceCalls(Len(packs)),
         UNCHANGED <<doc, packs, requested, accepted, books, sent, ending, spent, beyond, answered>>
  PROVE  IInv'
<1>1. /\ Document /\ sent.reduce \in Nat /\ IsFiniteSet(Chunks) /\ Target \in Nat
      /\ GroupSize \in Nat /\ GroupSize >= 2
  BY TypesParts, ChunksFinite, Numbers DEF IInv
<1>2. Len(packs) \in Nat /\ ReduceCalls(Len(packs)) \in Nat
  BY PacksCounted DEF IInv
<1>3. /\ requested \in [Chunks -> Nat] /\ accepted \in [Chunks -> Nat]
      /\ \A c \in Chunks : accepted[c] = 0 /\ accepted[c] <= requested[c]
      /\ Total(accepted) <= Target
  BY DEF IInv, Types, Course, Quotas, CardsExact
<1>4. Start \in Stages /\ Start.at = "start"
  <2>1. <<>> \in Seq(Wave)
    OBVIOUS
  <2> QED BY <2>1 DEF Start, Stages
<1>5. CASE todo + next = 1
  <2>1. ToCome(todo, next) = 0
    <3>1. ToCome(todo, next) = ReduceCalls(todo + next)
      <4>1. todo < 2
        BY <1>5
      <4> QED BY <4>1, ToComeStep
    <3>2. todo + next \in Nat /\ todo + next <= 1
      BY <1>5
    <3> QED BY <3>1, <3>2, ReduceCallsLevels
  <2>2. sent.map + sent.reduce = SummaryCalls
    <3>1. SummaryCalls = Len(packs) + ReduceCalls(Len(packs))
      BY DEF SummaryCalls
    <3>2. sent.reduce + 0 = ReduceCalls(Len(packs))
      BY <2>1
    <3> QED BY ONLY <1>1, <1>2, <3>1, <3>2, sent.map = Len(packs)
  <2> DEFINE st == Start
             asked == requested
             got == accepted
  <2>3. NextWave(st, asked, got)
    BY <1>5 DEF NextGroup
  <2>4. /\ st \in Stages /\ st.at # "cards" /\ asked \in [Chunks -> Nat] /\ got \in [Chunks -> Nat]
        /\ requested' = asked /\ accepted' = got /\ \A c \in Chunks : got[c] <= asked[c]
        /\ Total(got) <= Target
    BY <1>3, <1>4
  <2> HIDE DEF st, asked, got
  <2> QED BY <2>2, <2>3, <2>4, NextWaveStep
<1>6. CASE todo + next # 1
  <2>1. PICK t \in Nat, x \in Nat :
           /\ t >= 2 /\ ToCome(todo, next) = ToCome(t, x)
           /\ Await([Start EXCEPT !.at = "reduce", !.todo = t - Least(t, GroupSize), !.next = x + 1],
                    ReduceCall(t))
    <3>1. CASE todo >= 2
      BY <1>6, <3>1 DEF NextGroup
    <3>2. CASE ~(todo >= 2)
      <4> DEFINE m == todo + next
      <4>1. m \in Nat /\ m >= 2
        BY <1>6
      <4>2. ToCome(todo, next) = ReduceCalls(m)
        BY <3>2, ToComeStep
      <4>3. ReduceCalls(m) = ToCome(m, 0)
        BY <4>1, ToComeStep
      <4>4. Await([Start EXCEPT !.at = "reduce", !.todo = m - Least(m, GroupSize), !.next = 0 + 1],
                  ReduceCall(m))
        BY <1>6, <3>2 DEF NextGroup
      <4>5. ToCome(todo, next) = ToCome(m, 0) /\ 0 \in Nat
        BY <4>2, <4>3
      <4> HIDE DEF m
      <4> QED BY <4>1, <4>4, <4>5, Zenon
    <3> QED BY <3>1, <3>2
  <2> DEFINE r == t - Least(t, GroupSize)
             y == x + 1
             kind == "reduce"
  <2>2. r \in Nat /\ y \in Nat /\ y >= 1 /\ ToCome(t, x) = 1 + ToCome(r, y)
    BY <2>1, ToComeStep
  <2>3. stage' = [Start EXCEPT !.at = kind, !.todo = r, !.next = y] /\ fan' = ReduceCall(t)
        /\ UNCHANGED result
    BY <2>1 DEF Await
  <2> HIDE DEF r, y
  <2>4. stage' \in Stages /\ stage'.at = kind /\ stage'.todo = r /\ stage'.next = y
    BY <1>4, <2>2, <2>3 DEF Stages
  <2>5. AllWaiting(fan', kind) /\ Len(fan') = 1
    BY <2>3, ReduceCallIs
  <2> HIDE DEF kind
  <2>6. Fresh(fan', kind)
    BY <2>5, WaitingFresh
  <2>7. ToCome(r, y) \in Nat
    BY <2>2, ToComeStep
  <2>8. sent.reduce + 1 + ToCome(stage'.todo, stage'.next) = ReduceCalls(Len(packs))
    <3>1. sent.reduce + (1 + ToCome(r, y)) = ReduceCalls(Len(packs))
      BY <2>1, <2>2
    <3>2. sent.reduce + 1 + ToCome(r, y) = ReduceCalls(Len(packs))
      BY ONLY <1>1, <1>2, <2>7, <3>1
    <3> QED BY <2>4, <3>2
  <2>9. stage'.todo + stage'.next >= 1
    BY <2>2, <2>4
  <2>10. kind \in Kinds /\ kind = "reduce" /\ kind # "cards" /\ kind # "map"
    BY DEF kind, Kinds
  <2>11. /\ requested' \in [Chunks -> Nat] /\ accepted' \in [Chunks -> Nat]
         /\ (\A c \in Chunks : accepted'[c] <= requested'[c])
         /\ (\A c \in Chunks : accepted'[c] = 0) /\ Total(accepted') <= Target
    BY <1>3
  <2> QED BY <2>3, <2>4, <2>5, <2>6, <2>8, <2>9, <2>10, <2>11, AwaitStep DEF Stages
<1> QED BY <1>5, <1>6

LEMMA BeginStep ==
  ASSUME IInv, Begin
  PROVE  IInv'
<1>1. /\ stage.at = "start" /\ result = None
      /\ \/ doc = <<>> /\ Over("no_text")
         \/ doc # <<>> /\ Over("limit")
         \/ doc # <<>> /\ Summarised /\ Await([Start EXCEPT !.at = "map"], Probed(MapCalls))
         \/ doc # <<>> /\ ~Summarised /\ NextWave(Start, requested, accepted)
      /\ UNCHANGED <<doc, packs, requested, accepted, books, sent, ending, spent, beyond, answered>>
  BY DEF Begin
<1>2. /\ Document /\ sent.map \in Nat /\ sent.reduce \in Nat /\ sent.cards \in Nat
      /\ Target \in Nat
  BY TypesParts, Numbers DEF IInv
<1>3. /\ requested' \in [Chunks -> Nat] /\ accepted' \in [Chunks -> Nat]
      /\ \A c \in Chunks : accepted'[c] = 0 /\ accepted'[c] <= requested'[c]
      /\ Total(accepted') <= Target
  BY <1>1 DEF IInv, Types, Course, Quotas, CardsExact
<1>4. Start \in Stages /\ Start.at = "start"
  <2>1. <<>> \in Seq(Wave)
    OBVIOUS
  <2> QED BY <2>1 DEF Start, Stages
<1>5. fan = <<>> /\ ending = None
  BY <1>1 DEF IInv, Course
<1>6. Quiet
  BY <1>5 DEF Quiet
<1>7. sent.map = 0 /\ sent.reduce = 0 /\ sent.cards = 0
  <2>1. sent.map + sent.reduce = 0 /\ sent.cards = 0
    BY <1>1 DEF IInv, Summaries
  <2> QED BY ONLY <1>2, <2>1
<1>8. ASSUME NEW how, how \in {"no_text", "limit"}, Over(how) PROVE IInv'
  <2>1. how \in Ends /\ how # "ok"
    BY <1>8 DEF Ends
  <2> QED BY <1>1, <1>3, <1>6, <1>8, <2>1, OverStep
<1>9. CASE doc = <<>> /\ Over("no_text")
  BY <1>8, <1>9
<1>10. CASE doc # <<>> /\ Over("limit")
  BY <1>8, <1>10
<1>11. CASE doc # <<>> /\ Summarised /\ Await([Start EXCEPT !.at = "map"], Probed(MapCalls))
  <2> DEFINE kind == "map"
  <2>1. stage' = [Start EXCEPT !.at = kind] /\ fan' = Probed(MapCalls) /\ UNCHANGED result
    BY <1>11 DEF Await
  <2>2. stage' \in Stages /\ stage'.at = kind
    BY <1>4, <2>1 DEF Stages
  <2>3. packs \in Seq(SUBSET Chunks) /\ packs # <<>>
    <3>1. packs \in Seq(SUBSET Chunks)
      BY DEF IInv, Types
    <3> QED BY <1>11, <3>1 DEF Summarised
  <2>4. AllWaiting(MapCalls, kind) /\ Len(MapCalls) = Len(packs)
    BY <1>2, <2>3, MapCallsAre
  <2>5. Fresh(fan', kind) /\ Len(fan') = Len(packs)
    <3> HIDE DEF kind
    <3> QED BY <1>2, <2>1, <2>4, ProbedFresh
  <2>6. kind \in Kinds /\ kind = "map" /\ kind # "cards" /\ kind # "reduce"
    BY DEF Kinds
  <2> HIDE DEF kind
  <2> QED BY <1>1, <1>3, <1>5, <1>6, <1>7, <1>11, <2>1, <2>2, <2>5, <2>6, AwaitStep DEF Stages
<1>12. CASE doc # <<>> /\ ~Summarised /\ NextWave(Start, requested, accepted)
  <2>1. sent.map + sent.reduce = SummaryCalls
    BY <1>7, <1>12 DEF SummaryCalls
  <2> DEFINE st == Start
             asked == requested
             got == accepted
  <2>2. NextWave(st, asked, got)
    BY <1>12
  <2>3. /\ st \in Stages /\ st.at # "cards" /\ asked \in [Chunks -> Nat] /\ got \in [Chunks -> Nat]
        /\ requested' = asked /\ accepted' = got /\ \A c \in Chunks : got[c] <= asked[c]
        /\ Total(got) <= Target
    BY <1>1, <1>3, <1>4
  <2> HIDE DEF st, asked, got
  <2> QED BY <1>1, <1>5, <1>6, <1>12, <2>1, <2>2, <2>3, NextWaveStep
<1> QED BY <1>1, <1>9, <1>10, <1>11, <1>12

\* What is taken of an answer is at most what was asked.
LEMMA TakenIs ==
  ASSUME Document, NEW x, x \in Call, DOMAIN x.offers = DOMAIN x.batch, NEW c
  PROVE  Taken(x, c) \in Nat /\ Asked(x, c) \in Nat /\ Taken(x, c) <= Asked(x, c)
<1>1. x.batch \in Batch /\ x.offers \in Batch
  BY CallIs
<1>2. x.batch \in [DOMAIN x.batch -> Nat] /\ x.offers \in [DOMAIN x.offers -> Nat]
  BY <1>1, BatchIs
<1>3. CASE c \in DOMAIN x.batch
  <2>1. x.batch[c] \in Nat /\ x.offers[c] \in Nat
    BY <1>2, <1>3
  <2> QED BY <1>3, <2>1 DEF Taken, Asked, Least
<1>4. CASE c \notin DOMAIN x.batch
  BY <1>4 DEF Taken, Asked
<1> QED BY <1>3, <1>4

\* What a chunk is asked and gives in all calls.
AskedOf(c) == Total([i \in DOMAIN fan |-> Asked(fan[i], c)])
TakenOf(c) == Total([i \in DOMAIN fan |-> Taken(fan[i], c)])

LEMMA TakenOfIs ==
  ASSUME Document, fan \in Seq(Call),
         \A i \in DOMAIN fan : DOMAIN fan[i].offers = DOMAIN fan[i].batch,
         NEW c
  PROVE  TakenOf(c) \in Nat /\ AskedOf(c) \in Nat /\ TakenOf(c) <= AskedOf(c)
<1> DEFINE D == 1 .. Len(fan)
           f == [i \in D |-> Taken(fan[i], c)]
           g == [i \in D |-> Asked(fan[i], c)]
<1>1. DOMAIN fan = D /\ IsFiniteSet(D)
  <2>1. DOMAIN fan = D /\ Len(fan) \in Int
    OBVIOUS
  <2>2. IsFiniteSet(D)
    BY ONLY <2>1, FS_Interval DEF D
  <2> QED BY <2>1, <2>2
<1>2. ASSUME NEW i \in D
      PROVE  Taken(fan[i], c) \in Nat /\ Asked(fan[i], c) \in Nat /\ Taken(fan[i], c) <= Asked(fan[i], c)
  <2>1. fan[i] \in Call /\ DOMAIN fan[i].offers = DOMAIN fan[i].batch
    BY <1>1
  <2> QED BY <2>1, TakenIs
<1>3. f \in [D -> Nat] /\ g \in [D -> Nat] /\ \A i \in D : f[i] <= g[i]
  BY <1>2
<1>4. TakenOf(c) = Total(f) /\ AskedOf(c) = Total(g)
  BY <1>1 DEF TakenOf, AskedOf
<1> HIDE DEF D, f, g
<1>5. Total(f) \in Nat /\ Total(g) \in Nat
  BY <1>1, <1>3, TotalNatural
<1>6. Total(f) <= Total(g)
  <2>1. f \in [D -> Int] /\ g \in [D -> Int]
    BY <1>3
  <2> QED BY <1>1, <1>3, <2>1, TotalOrder
<1> QED BY <1>4, <1>5, <1>6

LEMMA GatheredStep ==
  ASSUME IInv, Gathered
  PROVE  IInv'
<1> DEFINE asked == [c \in Chunks |-> requested[c] + AskedOf(c)]
           got == [c \in Chunks |-> accepted[c] + TakenOf(c)]
<1>1. /\ ending = None /\ fan # <<>> /\ InState({"ok"}) = DOMAIN fan
      /\ \/ stage.at = "map" /\ NextGroup(Len(fan), 0)
         \/ stage.at = "reduce" /\ NextGroup(stage.todo, stage.next)
         \/ stage.at = "cards" /\ NextWave(stage, asked, got)
      /\ IF stage.at = "cards" THEN requested' = asked /\ accepted' = got
                               ELSE UNCHANGED <<requested, accepted>>
      /\ UNCHANGED <<doc, packs, books, sent, ending, spent, beyond, answered>>
  BY Zenon DEF Gathered, AskedOf, TakenOf
<1>2. /\ Document /\ fan \in Seq(Call) /\ sent.map \in Nat /\ sent.reduce \in Nat
      /\ Target \in Nat /\ IsFiniteSet(Chunks)
      /\ stage \in Stages /\ stage.todo \in Nat /\ stage.next \in Nat
      /\ requested \in [Chunks -> Nat] /\ accepted \in [Chunks -> Nat]
  BY TypesParts, ChunksFinite, Numbers DEF IInv, Types, Stages
<1>3. \A i \in DOMAIN fan : fan[i].state = "ok"
  BY <1>1 DEF InState
<1>4. Quiet
  BY <1>3 DEF Quiet
<1>5. Len(fan) \in Nat /\ DOMAIN fan = 1 .. Len(fan) /\ 1 \in DOMAIN fan
  BY <1>1, <1>2
<1>6. stage.at \notin {"start", "over"} /\ stage.at \in Kinds /\ result = None /\ doc # <<>>
  BY <1>1, <1>2 DEF IInv, Course, Stages, Kinds
<1>7. SumBy(Sent, fan) = Len(fan) /\ SumBy(Unsent, fan) = 0
  <2>1. ASSUME NEW i \in DOMAIN fan PROVE Sent[fan[i]] = 1 /\ Unsent[fan[i]] = 0
    <3>1. /\ Unsent[fan[i]] = (IF fan[i].state \in {"held", "waiting"} THEN 1 ELSE 0)
          /\ Sent[fan[i]] = (IF fan[i].state \in {"out", "ok"} THEN 1 ELSE 0)
      BY <1>2, CallIs
    <3>2. fan[i].state = "ok"
      BY <1>3
    <3> QED BY <3>1, <3>2
  <2>2. \A i \in DOMAIN fan : Sent[fan[i]] = 1
    BY <2>1
  <2>3. \A i \in DOMAIN fan : Unsent[fan[i]] = 0
    BY <2>1
  <2>4. Sent \in [Call -> Nat]
    BY <1>2, WeightsTyped
  <2>5. Unsent \in [Call -> Nat]
    BY <1>2, WeightsTyped
  <2>6. fan \in Seq(Call)
    BY <1>2
  <2>7. SumBy(Sent, fan) = Len(fan)
    BY ONLY <2>2, <2>4, <2>6, SumOnes
  <2>8. SumBy(Unsent, fan) = 0
    BY ONLY <2>3, <2>5, <2>6, SumZero
  <2> QED BY <2>7, <2>8
<1>8. Len(packs) \in Nat /\ ReduceCalls(Len(packs)) \in Nat
  BY PacksCounted DEF IInv
<1>9. CASE stage.at = "map" /\ NextGroup(Len(fan), 0)
  <2>1. /\ Summarised /\ Len(fan) = Len(packs)
        /\ sent.reduce = 0 /\ sent.cards = 0
        /\ sent.map + SumBy(Unsent, fan) <= Len(packs)
        /\ sent.map >= SumBy(Sent, fan)
    BY <1>1, <1>9 DEF IInv, Summaries
  <2>2. sent.map = Len(packs) /\ Len(packs) >= 2
    <3>1. Len(packs) > 1
      BY <2>1 DEF Summarised
    <3> QED BY <1>2, <1>7, <1>8, <2>1, <3>1
  <2> DEFINE todo == Len(fan)
             next == 0
  <2>3. todo \in Nat /\ next \in Nat /\ todo + next >= 1 /\ NextGroup(todo, next)
    BY <1>5, <1>9
  <2>4. sent.reduce + ToCome(todo, next) = ReduceCalls(Len(packs))
    <3>1. ReduceCalls(todo + 0) = ToCome(todo + 0, 0)
      BY <1>8, <2>1, <2>2, ToComeStep
    <3>2. todo + 0 = Len(packs)
      BY <1>8, <2>1
    <3>3. ToCome(todo, next) = ReduceCalls(Len(packs))
      BY <2>1, <3>1, <3>2
    <3> QED BY <1>8, <2>1, <3>3
  <2>5. UNCHANGED <<requested, accepted>>
    BY <1>1, <1>9
  <2> HIDE DEF todo, next
  <2> QED BY <1>1, <1>4, <1>6, <1>9, <2>1, <2>2, <2>3, <2>4, <2>5, NextGroupStep
<1>10. CASE stage.at = "reduce" /\ NextGroup(stage.todo, stage.next)
  <2>1. /\ Summarised /\ Len(fan) = 1 /\ stage.todo + stage.next >= 1
        /\ sent.map = Len(packs) /\ sent.cards = 0
        /\ sent.reduce + SumBy(Unsent, fan) + ToCome(stage.todo, stage.next)
              <= ReduceCalls(Len(packs))
        /\ sent.reduce + 1 - SumBy(Sent, fan) + ToCome(stage.todo, stage.next)
              >= ReduceCalls(Len(packs))
    BY <1>1, <1>10 DEF IInv, Summaries
  <2> DEFINE todo == stage.todo
             next == stage.next
             t == ToCome(todo, next)
  <2>2. todo \in Nat /\ next \in Nat /\ todo + next >= 1 /\ NextGroup(todo, next)
    BY <1>2, <1>10, <2>1
  <2>3. t \in Nat
    <3> HIDE DEF todo, next
    <3> QED BY <2>2, ToComeStep
  <2>4. sent.reduce + t = ReduceCalls(Len(packs))
    <3>1. /\ sent.reduce + SumBy(Unsent, fan) + t <= ReduceCalls(Len(packs))
          /\ sent.reduce + 1 - SumBy(Sent, fan) + t >= ReduceCalls(Len(packs))
      BY <2>1
    <3>2. SumBy(Unsent, fan) = 0 /\ SumBy(Sent, fan) = 1
      BY <1>7, <2>1
    <3>3. sent.reduce \in Nat
      BY <1>2
    <3> HIDE DEF t
    <3> QED BY ONLY <1>8, <2>3, <3>1, <3>2, <3>3
  <2>5. UNCHANGED <<requested, accepted>>
    BY <1>1, <1>10
  <2>6. sent.reduce + ToCome(todo, next) = ReduceCalls(Len(packs))
    BY <2>4
  <2> HIDE DEF todo, next, t
  <2> QED BY <1>1, <1>4, <1>6, <1>10, <2>1, <2>2, <2>5, <2>6, NextGroupStep
<1>11. CASE stage.at = "cards" /\ NextWave(stage, asked, got)
  <2>1. \A i \in DOMAIN fan : DOMAIN fan[i].offers = DOMAIN fan[i].batch
    BY <1>1, <1>3, <1>11 DEF IInv, Course
  <2>2. ASSUME NEW c \in Chunks
        PROVE  TakenOf(c) \in Nat /\ AskedOf(c) \in Nat /\ TakenOf(c) <= AskedOf(c)
    BY <1>2, <2>1, TakenOfIs
  <2>3. requested' = asked /\ accepted' = got
    BY <1>1, <1>11
  <2>4. \A c \in Chunks : accepted[c] <= requested[c]
    BY DEF IInv, Quotas, CardsExact
  <2>5. ASSUME NEW c \in Chunks
        PROVE  got[c] \in Nat /\ asked[c] \in Nat /\ got[c] <= asked[c]
    <3>1. accepted[c] \in Nat /\ requested[c] \in Nat /\ accepted[c] <= requested[c]
      BY <1>2, <2>4
    <3>2. got[c] = accepted[c] + TakenOf(c) /\ asked[c] = requested[c] + AskedOf(c)
      OBVIOUS
    <3> HIDE DEF got, asked
    <3> QED BY <2>2, <3>1, <3>2
  <2>6. got \in [Chunks -> Nat] /\ asked \in [Chunks -> Nat]
    <3>1. got = [c \in Chunks |-> got[c]] /\ asked = [c \in Chunks |-> asked[c]]
      OBVIOUS
    <3> HIDE DEF got, asked
    <3> QED BY <2>5, <3>1
  <2> DEFINE h == [c \in Chunks |-> AskedOf(c)]
             m == [c \in Chunks |-> accepted[c] + h[c]]
  <2>7. h \in [Chunks -> Int] /\ m \in [Chunks -> Int] /\ Adds(m, accepted, h, Chunks)
    <3>1. \A c \in Chunks : h[c] = AskedOf(c) /\ m[c] = accepted[c] + h[c]
      OBVIOUS
    <3>2. \A c \in Chunks : h[c] \in Nat /\ m[c] \in Int
      BY <1>2, <2>2
    <3>3. h = [c \in Chunks |-> h[c]] /\ m = [c \in Chunks |-> m[c]]
      OBVIOUS
    <3> HIDE DEF h, m
    <3> QED BY <3>1, <3>2, <3>3 DEF Adds
  <2>8. Total(h) = SumBy(Asking, fan)
    <3>1. \A c \in Chunks : h[c] = Total([i \in DOMAIN fan |-> Asked(fan[i], c)])
      BY DEF AskedOf
    <3> HIDE DEF h
    <3> QED BY <1>2, <2>7, <3>1, AskedOfChunks
  <2>9. Total(m) = Total(accepted) + Total(h)
    <3>1. accepted \in [Chunks -> Int]
      BY <1>2
    <3>2. h \in [Chunks -> Int] /\ m \in [Chunks -> Int]
      BY <2>7
    <3>3. Adds(m, accepted, h, Chunks)
      BY <2>7
    <3>4. IsFiniteSet(Chunks)
      BY <1>2
    <3> HIDE DEF h, m
    <3> QED BY ONLY <3>1, <3>2, <3>3, <3>4, TotalPlus
  <2>10. Total(got) <= Total(m)
    <3>1. \A c \in Chunks : got[c] <= m[c]
      BY <1>2, <2>2
    <3>2. got \in [Chunks -> Int]
      BY <2>6
    <3>3. m \in [Chunks -> Int]
      BY <2>7
    <3>4. IsFiniteSet(Chunks)
      BY <1>2
    <3> HIDE DEF got, m
    <3> QED BY ONLY <3>1, <3>2, <3>3, <3>4, TotalOrder
  <2> DEFINE a == Total(got)
             b == Total(accepted)
             d == SumBy(Asking, fan)
             e == CardsOf(stage.waves)
  <2>11. a \in Nat
    <3> HIDE DEF got
    <3> QED BY <1>2, <2>6, TotalNatural
  <2>12. b \in Nat /\ d \in Nat /\ e \in Nat
    <3>1. stage.waves \in Seq(Wave)
      BY <1>2 DEF Stages
    <3> QED BY <1>2, <3>1, TotalNatural, SumsTyped, CardsOfTyped
  <2>13. b + d + e <= Target
    BY <1>11 DEF IInv, Quotas
  <2>14. a <= b + d
    <3> HIDE DEF h, m, got
    <3> QED BY <2>8, <2>9, <2>10
  <2>15. a <= Target /\ a + e <= Target
    <3>1. Target \in Nat
      BY <1>2
    <3> HIDE DEF a, b, d, e
    <3> QED BY ONLY <2>11, <2>12, <2>13, <2>14, <3>1
  <2>16. "cards" \in answered
    BY <1>3, <1>5, <1>11 DEF IInv, Course
  <2>17. sent.map + sent.reduce = SummaryCalls
    BY <1>11 DEF IInv, Summaries
  <2>18. \A c \in Chunks : got[c] <= asked[c]
    BY <2>5
  <2>19. Total(got) <= Target /\ Total(got) + CardsOf(stage.waves) <= Target
    BY <2>15
  <2> HIDE DEF h, m, a, b, d, e
  <2>20. NextWave(stage, asked, got)
    BY <1>11
  <2> HIDE DEF got, asked
  <2> DEFINE st == stage
  <2>21. st \in Stages /\ NextWave(st, asked, got) /\ Total(got) + CardsOf(st.waves) <= Target
    BY <1>2, <2>19, <2>20
  <2> HIDE DEF st
  <2> QED BY <1>1, <1>4, <1>6, <2>3, <2>6, <2>16, <2>17, <2>18, <2>19, <2>21, NextWaveStep
<1> QED BY <1>1, <1>9, <1>10, <1>11

-----------------------------------------------------------------------------
(* The theorems                                                            *)

LEMMA NextStep ==
  ASSUME IInv, [Next]_vars
  PROVE  IInv'
<1>1. CASE Begin
  BY <1>1, BeginStep
<1>2. CASE FanOut
  BY <1>2, FanOutStep
<1>3. CASE Gathered
  BY <1>3, GatheredStep
<1>4. CASE FailFast
  BY <1>4, FailFastStep
<1>5. CASE JobStops
  BY <1>5, JobStopsStep
<1>6. CASE Raise
  BY <1>6, RaiseStep
<1>7. CASE Done
  BY <1>7, StutterStep DEF Done
<1>8. ASSUME NEW i \in DOMAIN fan,
             Refuse(i) \/ Admit(i) \/ TryAgain(i) \/ Answer(i) \/ Fails(i) \/ Leave(i)
      PROVE  IInv'
  BY <1>8, AdmitStep, TryAgainStep, AnswerStep, FailsStep, LeaveStep
<1>9. CASE UNCHANGED vars
  BY <1>9, StutterStep
<1> QED BY <1>1, <1>2, <1>3, <1>4, <1>5, <1>6, <1>7, <1>8, <1>9 DEF Next

LEMMA InitHolds ==
  ASSUME Init
  PROVE  IInv
<1>1. /\ doc \in Docs /\ packs = Packs
      /\ stage = Start /\ fan = <<>> /\ sent = [map |-> 0, reduce |-> 0, cards |-> 0]
      /\ requested = [c \in Chunks |-> 0] /\ accepted = [c \in Chunks |-> 0]
      /\ books = [used |-> Zero, pending |-> Zero, uncertain |-> Zero]
      /\ ending = None /\ result = None
      /\ spent = Zero /\ beyond = Zero /\ answered = {}
  BY DEF Init
<1>2. Document
  BY <1>1, PipelineAssumption DEF Document
<1>3. IsFiniteSet(Chunks) /\ packs \in Seq(SUBSET Chunks)
  BY <1>1, <1>2, ChunksFinite, PacksTyped
<1>4. stage \in Stages /\ stage.at = "start"
  <2>1. <<>> \in Seq(Wave)
    OBVIOUS
  <2> QED BY <1>1, <2>1 DEF Start, Stages
<1>5. Zero \in Usage /\ Zero.in = 0 /\ Zero.out = 0
  BY DEF Zero, Usage
<1>6. requested \in [Chunks -> Nat] /\ accepted \in [Chunks -> Nat]
      /\ \A c \in Chunks : accepted[c] = 0 /\ requested[c] = 0
  BY <1>1
<1>7. books \in [used : Usage, pending : Usage, uncertain : Usage]
  BY <1>1, <1>5
<1>8. Types
  <2>1. fan \in Seq(Call) /\ answered \subseteq Kinds /\ sent \in [map : Nat, reduce : Nat, cards : Nat]
    BY <1>1
  <2>2. beyond \in [in : Nat, out : Nat] /\ spent \in Usage
    BY <1>1, <1>5 DEF Zero
  <2> QED BY <1>1, <1>2, <1>3, <1>4, <1>6, <1>7, <2>1, <2>2 DEF Types, Stages
<1>9. Course
  BY <1>1, <1>4, <1>6 DEF Course, Kinds
<1>10. Accounts
  <2>1. SpendingBounded
    <3>1. spent.in = 0 /\ spent.out = 0 /\ beyond.in = 0 /\ beyond.out = 0
      BY <1>1, <1>5
    <3>2. /\ MaxInput \in Nat /\ MaxOutput \in Nat /\ InputPrice \in Nat /\ OutputPrice \in Nat
          /\ MaxCost \in Nat
      BY Numbers
    <3> QED BY <3>1, <3>2 DEF SpendingBounded
  <2>2. books.pending = [in |-> SumBy(OwedIn, fan), out |-> SumBy(OwedOut, fan)]
    BY <1>1, SumEmpty DEF Zero
  <2>3. /\ spent.in <= books.used.in + books.pending.in + books.uncertain.in + beyond.in
        /\ spent.out <= books.used.out + books.pending.out + books.uncertain.out + beyond.out
    BY <1>1, <1>5
  <2> QED BY <2>1, <2>2, <2>3 DEF Accounts
<1>11. Total(accepted) = 0
  <2>1. accepted \in [Chunks -> Int]
    BY <1>6
  <2> QED BY <1>3, <1>6, <2>1, TotalZero
<1>12. Quotas
  <2>1. result # "ok"
    BY <1>1, PipelineAssumption
  <2>2. Target \in Nat
    BY Numbers
  <2> QED BY <1>4, <1>6, <1>11, <2>1, <2>2 DEF Quotas, CardsExact
<1>13. Summaries
  <2>1. sent.map = 0 /\ sent.reduce = 0 /\ sent.cards = 0
    BY <1>1
  <2>2. SummaryCalls \in Nat
    BY <1>8, PacksCounted DEF SummaryCalls
  <2> QED BY <1>4, <2>1, <2>2 DEF Summaries, SummariesAsEstimated
<1> QED BY <1>8, <1>9, <1>10, <1>12, <1>13 DEF IInv

\* The inductive invariant of a run.
THEOREM Invariance == Spec => []IInv
<1>1. Init => IInv
  BY InitHolds
<1>2. IInv /\ [Next]_vars => IInv'
  BY NextStep
<1> QED BY <1>1, <1>2, PTL DEF Spec

\* The variables of a run have their types (FlashcardGenerationPipeline).
THEOREM TypeCorrect == Spec => []Types
<1>1. IInv => Types
  BY DEF IInv
<1> QED BY <1>1, Invariance, PTL

\* Whatever the document, the budgets, the prices and the calls that fail, are tried
\* again, return late or are cancelled, the provider counts no more for a run than its
\* job may spend, but for what attempts took beyond their envelope and for those that
\* were tried again, which the books do not know (_call, _run_with_retries).
THEOREM Spending == Spec => []SpendingBounded
<1>1. IInv => SpendingBounded
  BY DEF IInv, Accounts
<1> QED BY <1>1, Invariance, PTL

\* No call of a run that is over is out, and nothing of it is pending (run,
\* _gather_fail_fast).
THEOREM OverAndDone == Spec => []NothingOutlivesRun
<1>1. ASSUME IInv, result # None
      PROVE  InState({"out", "leaving"}) = {} /\ books.pending = Zero
  <2>1. fan = <<>>
    BY <1>1 DEF IInv, Course
  <2>2. books.pending = Zero
    BY <1>1, <2>1, SumEmpty DEF IInv, Accounts, Zero
  <2> QED BY <2>1, <2>2 DEF InState
<1>2. IInv => NothingOutlivesRun
  BY <1>1 DEF NothingOutlivesRun
<1> QED BY <1>2, Invariance, PTL

\* The rounds never take more cards than the target nor more of a chunk than was
\* asked of it, and a run that is successful has exactly the target (_run).
THEOREM CardsAsAsked == Spec => []CardsExact
<1>1. IInv => CardsExact
  BY DEF IInv, Quotas
<1> QED BY <1>1, Invariance, PTL

\* The calls of the summaries are as many as the estimate counts, for every number
\* of packs and every size of a group (_reduce_call_count, _reduce_summaries).
THEOREM SummariesCounted == Spec => []SummariesAsEstimated
<1>1. IInv => SummariesAsEstimated
  BY DEF IInv, Summaries
<1> QED BY <1>1, Invariance, PTL

\* The first call of a kind goes alone, and calls that are out together ask for
\* different chunks (_run).
THEOREM FanOutOrder == Spec => []FanOutDiscipline
<1>1. ASSUME IInv, NEW i \in InState({"out", "leaving"}), NEW k \in InState({"out", "leaving"}),
             i # k
      PROVE  fan[i].kind \in answered /\ ~Shares(fan[i].batch, fan[k].batch)
  <2>1. /\ i \in DOMAIN fan /\ k \in DOMAIN fan
        /\ fan[i].state \notin {"held", "gone"} /\ fan[k].state \notin {"held", "gone"}
    BY DEF InState
  <2>2. /\ i = 1 \/ fan[i].kind \in answered
        /\ k = 1 \/ fan[k].kind \in answered
        /\ fan[i].kind = stage.at /\ fan[k].kind = stage.at
        /\ ~Shares(fan[i].batch, fan[k].batch)
    BY <1>1, <2>1 DEF IInv, Course
  <2> QED BY <1>1, <2>2
<1>2. IInv => FanOutDiscipline
  BY <1>1 DEF FanOutDiscipline
<1> QED BY <1>2, Invariance, PTL

-----------------------------------------------------------------------------
(* The window of requests and tokens that the calls of a pipeline share        *)
(* (ProviderGovernor): its charges are sums like those above.                  *)

\* What the folds of that module mean is what they mean here.
Entry == Reservation
TokensIn == [r \in Entry |-> r.tokens]

LEMMA ChargeIsSum ==
  ASSUME NEW rs \in Seq(Entry)
  PROVE  Charge(rs) = SumBy(TokensIn, rs)
<1> DEFINE n == Len(rs)
           Steps == [k \in 1 .. n |-> [a \in Int |-> a + rs[k].tokens]]
           IsCharge(it) ==
             it = [s \in SUBSET (DOMAIN rs) |->
                     IF s = {} THEN 0 ELSE it[s \ {Max(s)}] + rs[Max(s)].tokens]
<1>0. n \in Nat /\ DOMAIN rs = 1 .. n /\ 0 \in Int /\ \A k \in 1 .. n : rs[k].tokens \in Nat
  <2>1. \A k \in 1 .. n : rs[k] \in Entry
    OBVIOUS
  <2>2. \A e \in Entry : e.tokens \in Nat
    BY DEF Entry, Reservation
  <2> QED BY <2>1, <2>2
<1>1. StepsIn(Steps, Int, n)
  BY <1>0 DEF StepsIn
<1>2. ASSUME NEW s \in SUBSET (1 .. n), s # {} PROVE Max(s) \in 1 .. n
  <2> HIDE DEF n
  <2> QED BY <1>0, <1>2, MaxOfPositions
<1>3. \E it : IsCharge(it)
  <2>1. PICK it : Folds(it, Steps, Int, 0, n)
    <3> HIDE DEF Steps, n
    <3> QED BY <1>0, <1>1, LeftFoldExists
  <2>2. ASSUME NEW s \in SUBSET (1 .. n), s # {}
        PROVE  it[s] = it[s \ {Max(s)}] + rs[Max(s)].tokens
    <3>1. it[s \ {Max(s)}] \in Int /\ it[s] = Steps[Max(s)][it[s \ {Max(s)}]]
      BY <2>1, <2>2 DEF Folds
    <3> HIDE DEF n
    <3> QED BY <3>1, <1>2, <2>2
  <2> HIDE DEF n
  <2>4. IsCharge(it)
    BY <1>0, <2>1, <2>2 DEF Folds
  <2> QED BY <2>4
<1> DEFINE it == CHOOSE g : IsCharge(g)
<1>4. IsCharge(it)
  BY <1>3
<1>5. Charge(rs) = it[DOMAIN rs]
  BY Zenon DEF Charge, FoldLeft, MapThenFoldSet
<1> HIDE DEF it
<1>7. it[{}] = 0
  BY <1>4
<1>8. ASSUME NEW s \in SUBSET (1 .. n), s # {} /\ it[s \ {Max(s)}] \in Int
      PROVE  it[s] = Steps[Max(s)][it[s \ {Max(s)}]]
  <2>1. it[s] = it[s \ {Max(s)}] + rs[Max(s)].tokens
    <3> HIDE DEF n
    <3> QED BY <1>0, <1>4, <1>8
  <2> HIDE DEF n
  <2> QED BY <2>1, <1>2, <1>8
<1>9. FoldsIn(it, Steps, Int, 0, n)
  <2> HIDE DEF Steps
  <2> QED BY <1>7, <1>8 DEF FoldsIn
<1>10. PICK r : Results(r, Steps, Int, 0, n) /\ r[n] = it[1 .. n]
  <2> DEFINE Acc == Int
             zero == 0
  <2>1. n \in Nat
    BY <1>0
  <2>2. zero \in Acc /\ StepsIn(Steps, Acc, n) /\ FoldsIn(it, Steps, Acc, zero, n)
    BY <1>1, <1>9
  <2> HIDE DEF Steps, n, IsCharge, Acc, zero
  <2>3. \E r : Results(r, Steps, Acc, zero, n) /\ r[n] = it[1 .. n]
    BY ONLY <2>1, <2>2, LeftFoldValue
  <2> QED BY <2>3 DEF Acc, zero
<1>11. PICK f : Terms(f, TokensIn, rs)
  <2>1. TokensIn \in [Entry -> Nat]
    BY DEF TokensIn, Entry, Reservation
  <2> QED BY ONLY <2>1, rs \in Seq(Entry), SumByIsTotal
<1>12. f \in [1 .. n -> Int] /\ SumBy(TokensIn, rs) = Total(f) /\ \A k \in 1 .. n : f[k] = rs[k].tokens
  <2>1. \A k \in 1 .. n : TokensIn[rs[k]] = rs[k].tokens
    BY DEF TokensIn
  <2> QED BY <1>11, <2>1 DEF Terms
<1>13. Sums(r, f, n)
  <2>1. ASSUME NEW k \in 1 .. n PROVE r[k] = r[k - 1] + f[k]
    <3>0. k - 1 \in 0 .. n
      BY <1>0
    <3>1. r[k] = Steps[k][r[k - 1]] /\ r[k - 1] \in Int
      <4> HIDE DEF Steps, n
      <4> QED BY <3>0, <1>10 DEF Results
    <3> HIDE DEF n
    <3> QED BY <3>1, <1>12
  <2> QED BY <1>10, <2>1 DEF Results, Sums
<1>14. r[n] = Total(f)
  <2> HIDE DEF n
  <2> QED BY <1>0, <1>12, <1>13, SumsAre
<1> QED BY <1>0, <1>5, <1>10, <1>12, <1>14

LEMMA GovernorNumbers ==
  /\ RequestsPerWindow \in Nat /\ TokensPerWindow \in Nat /\ Window \in Nat \ {0}
  /\ Estimates \subseteq Nat /\ Usages \subseteq Nat /\ MaxRetries \in Nat
  /\ RetryBase \in Nat /\ Hints \subseteq Nat
<1>1. /\ RequestsPerMinute \in Nat /\ TokensPerMinute \in Nat /\ SafetyPercent \in Nat
      /\ Window \in Nat \ {0} /\ Estimates \subseteq Nat /\ Usages \subseteq Nat /\ MaxRetries \in Nat
      /\ RetryBase \in Nat /\ Hints \subseteq Nat
  BY GovernorAssumption
<1>2. ASSUME NEW m \in Nat PROVE EffectiveLimit(m) \in Nat
  <2> DEFINE p == m * SafetyPercent
  <2>1. p \in Nat
    BY <1>1
  <2> HIDE DEF p
  <2>2. p \div 100 \in Nat
    BY <2>1
  <2>3. EffectiveLimit(m) = IF m = 0 THEN 0 ELSE AtLeast(p \div 100, 1)
    BY DEF EffectiveLimit, p
  <2> HIDE DEF p
  <2>4. \A x \in Nat : AtLeast(x, 1) \in Nat
    BY DEF AtLeast
  <2> QED BY <2>2, <2>3, <2>4
<1> QED BY <1>1, <1>2 DEF RequestsPerWindow, TokensPerWindow

LEMMA Amounts ==
  ASSUME NEW n \in Estimates \cup {0}
  PROVE  n \in Nat
<1>1. Estimates \subseteq Nat
  BY GovernorNumbers
<1>2. CASE n \in Estimates
  BY <1>1, <1>2
<1>3. CASE n = 0
  BY <1>3
<1> QED BY <1>2, <1>3

LEMMA ChargeGrows ==
  ASSUME NEW rs \in Seq(Entry), NEW e \in Entry
  PROVE  /\ Charge(<<>>) = 0 /\ Charge(rs) \in Int
         /\ Charge(Append(rs, e)) = Charge(rs) + e.tokens
<1>1. TokensIn \in [Entry -> Nat] /\ TokensIn[e] = e.tokens
  BY DEF TokensIn, Entry, Reservation
<1>2. Charge(<<>>) = SumBy(TokensIn, <<>>)
  <2>1. <<>> \in Seq(Entry)
    OBVIOUS
  <2> QED BY <2>1, ChargeIsSum
<1>3. Charge(rs) = SumBy(TokensIn, rs)
  BY ChargeIsSum
<1>4. Charge(Append(rs, e)) = SumBy(TokensIn, Append(rs, e))
  <2>1. Append(rs, e) \in Seq(Entry)
    OBVIOUS
  <2> QED BY <2>1, ChargeIsSum
<1>5. SumBy(TokensIn, Append(rs, e)) = SumBy(TokensIn, rs) + TokensIn[e]
  <2> DEFINE t == Append(rs, e)
  <2>1. Grows(t, rs, e)
    BY DEF Grows
  <2> HIDE DEF t
  <2>2. SumBy(TokensIn, t) = SumBy(TokensIn, rs) + TokensIn[e]
    BY ONLY rs \in Seq(Entry), e \in Entry, <1>1, <2>1, SumAppend
  <2> QED BY <2>2 DEF t
<1>6. SumBy(TokensIn, rs) \in Int
  BY ONLY <1>1, rs \in Seq(Entry), SumNatural
<1> QED BY <1>1, <1>2, <1>3, <1>4, <1>5, <1>6, SumEmpty

\* Requests of the window: none has left it yet.
Young(rs) == rs \in Seq(Entry) /\ \A i \in 1 .. Len(rs) : rs[i].age < Window

HasRoom(rs, n) ==
  /\ RequestsPerWindow > 0 => Len(rs) < RequestsPerWindow
  /\ TokensPerWindow > 0 => Charge(rs) + n <= TokensPerWindow

\* A request waits as long as the window has no room for it, and no longer.
LEMMA DelayExact ==
  ASSUME NEW rs, Young(rs), NEW n \in Nat, Fits(n)
  PROVE  RequiredDelay(rs, n) \in Nat /\ (RequiredDelay(rs, n) = 0 <=> HasRoom(rs, n))
<1> DEFINE requests == IF RequestsPerWindow > 0 /\ Len(rs) >= RequestsPerWindow
                         THEN Left(rs[1]) ELSE 0
           Frees(i) == Charge(SubSeq(rs, i + 1, Len(rs))) + n <= TokensPerWindow
           First == CHOOSE i \in 1 .. Len(rs) : Frees(i) /\ \A k \in 1 .. i - 1 : ~Frees(k)
           tokens == IF TokensPerWindow = 0 \/ Charge(rs) + n <= TokensPerWindow THEN 0
                     ELSE Left(rs[First])
<1>0. /\ RequestsPerWindow \in Nat /\ TokensPerWindow \in Nat /\ Len(rs) \in Nat
      /\ rs \in Seq(Entry) /\ Window \in Nat
  BY GovernorNumbers DEF Young
<1>1. \A i \in 1 .. Len(rs) : Left(rs[i]) \in Nat \ {0}
  <2> SUFFICES ASSUME NEW i \in 1 .. Len(rs) PROVE Left(rs[i]) \in Nat \ {0}
    OBVIOUS
  <2>1. rs[i] \in Entry /\ rs[i].age < Window
    BY DEF Young
  <2>2. rs[i].age \in Nat
    BY <1>0, <2>1 DEF Entry, Reservation
  <2> QED BY <1>0, <2>1, <2>2 DEF Left
<1>2. requests \in Nat /\ (requests = 0 <=> (RequestsPerWindow > 0 => Len(rs) < RequestsPerWindow))
  <2>1. CASE RequestsPerWindow > 0 /\ Len(rs) >= RequestsPerWindow
    <3>1. 1 \in 1 .. Len(rs)
      BY <1>0, <2>1
    <3>2. Left(rs[1]) \in Nat \ {0}
      BY <1>1, <3>1
    <3> QED BY <1>0, <2>1, <3>2
  <2>2. CASE ~(RequestsPerWindow > 0 /\ Len(rs) >= RequestsPerWindow)
    BY <1>0, <2>2
  <2> QED BY <2>1, <2>2
<1>3. Charge(rs) \in Int /\ Charge(<<>>) = 0
  <2>1. CASE rs = <<>>
    <3>1. Charge(<<>>) = SumBy(TokensIn, <<>>)
      <4>1. <<>> \in Seq(Entry)
        OBVIOUS
      <4> QED BY <4>1, ChargeIsSum
    <3> QED BY <2>1, <3>1, SumEmpty
  <2>2. CASE rs # <<>>
    <3>1. rs[1] \in Entry
      BY <1>0, <2>2
    <3> QED BY <1>0, <3>1, ChargeGrows
  <2> QED BY <2>1, <2>2
<1>4. ASSUME TokensPerWindow # 0, ~(Charge(rs) + n <= TokensPerWindow)
      PROVE  First \in 1 .. Len(rs)
  <2>1. rs # <<>>
    BY <1>0, <1>3, <1>4 DEF Fits
  <2> DEFINE T == {i \in 1 .. Len(rs) : Frees(i)}
  <2>2. Len(rs) \in T
    <3>1. SubSeq(rs, Len(rs) + 1, Len(rs)) = <<>>
      BY <1>0
    <3>2. n <= TokensPerWindow
      BY <1>4 DEF Fits
    <3>3. Frees(Len(rs))
      <4>1. Charge(SubSeq(rs, Len(rs) + 1, Len(rs))) = 0
        BY <1>3, <3>1
      <4>2. 0 + n <= TokensPerWindow
        BY <3>2
      <4> QED BY <4>1, <4>2
    <3>4. Len(rs) \in 1 .. Len(rs)
      BY <1>0, <2>1
    <3> QED BY <3>3, <3>4
  <2>3. PICK i \in T : \A k \in T : i <= k
    <3>1. T \subseteq Nat
      OBVIOUS
    <3> HIDE DEF T
    <3> QED BY <2>2, <3>1, LeastNumber
  <2>4. i \in 1 .. Len(rs) /\ Frees(i) /\ \A k \in 1 .. i - 1 : ~Frees(k)
    <3>1. \A k \in 1 .. i - 1 : k \in 1 .. Len(rs) /\ ~(i <= k)
      BY <1>0
    <3>2. \A k \in 1 .. i - 1 : k \notin T
      BY <2>3, <3>1
    <3> HIDE DEF Frees
    <3> QED BY <3>1, <3>2
  <2> HIDE DEF Frees
  <2> QED BY <2>4
<1>5. tokens \in Nat /\ (tokens = 0 <=> (TokensPerWindow > 0 => Charge(rs) + n <= TokensPerWindow))
  <2> HIDE DEF First
  <2>1. CASE TokensPerWindow = 0 \/ Charge(rs) + n <= TokensPerWindow
    BY <1>0, <2>1
  <2>2. CASE ~(TokensPerWindow = 0 \/ Charge(rs) + n <= TokensPerWindow)
    <3>1. Left(rs[First]) \in Nat \ {0}
      BY <1>1, <1>4, <2>2
    <3> QED BY <1>0, <2>2, <3>1
  <2> QED BY <2>1, <2>2
<1>6. RequiredDelay(rs, n) = AtLeast(requests, tokens)
  BY Zenon DEF RequiredDelay
<1> HIDE DEF requests, tokens
<1>7. RequiredDelay(rs, n) \in Nat /\ (RequiredDelay(rs, n) = 0 <=> requests = 0 /\ tokens = 0)
  BY <1>2, <1>5, <1>6 DEF AtLeast
<1> QED BY <1>2, <1>5, <1>7 DEF HasRoom

\* The ledger is what is left of the reservations without the first d, which are
\* a window old; the oldest come first.
Cut(res, led, d) ==
  /\ res \in Seq(Entry) /\ led \in Seq(Entry)
  /\ d \in 0 .. Len(res) /\ Len(led) = Len(res) - d
  /\ \A i \in 1 .. Len(led) : led[i] = res[d + i] /\ led[i].age < Window
  /\ \A k \in 1 .. d : res[k].age >= Window

Aged(rs) == \A i, k \in 1 .. Len(rs) : i <= k => rs[i].age >= rs[k].age

LEMMA PrunedIsLedger ==
  ASSUME NEW res, NEW led, NEW d, Cut(res, led, d), Window \in Nat
  PROVE  Pruned(res) = led
<1> DEFINE Starts(i) == /\ \A k \in 1 .. i - 1 : res[k].age >= Window
                        /\ i <= Len(res) => res[i].age < Window
           first == CHOOSE i \in 1 .. Len(res) + 1 : Starts(i)
<1>0. /\ res \in Seq(Entry) /\ led \in Seq(Entry) /\ Len(res) \in Nat
      /\ d \in Nat /\ d <= Len(res) /\ Len(led) = Len(res) - d /\ Len(led) \in Nat
  BY DEF Cut
<1>1. Pruned(res) = SubSeq(res, first, Len(res))
  BY Zenon DEF Pruned, WithoutOld
<1>2. d + 1 \in 1 .. Len(res) + 1 /\ Starts(d + 1)
  <2>1. \A k \in 1 .. (d + 1) - 1 : res[k].age >= Window
    <3>1. (d + 1) - 1 = d
      BY <1>0
    <3> QED BY <3>1 DEF Cut
  <2>2. ASSUME d + 1 <= Len(res) PROVE res[d + 1].age < Window
    <3>1. 1 \in 1 .. Len(led)
      BY <1>0, <2>2
    <3> QED BY <3>1 DEF Cut
  <2>3. d + 1 \in 1 .. Len(res) + 1
    BY <1>0
  <2> QED BY <2>1, <2>2, <2>3
<1>3. ASSUME NEW i \in 1 .. Len(res) + 1, Starts(i) PROVE i = d + 1
  <2>1. ~(i < d + 1)
    <3> SUFFICES ASSUME i < d + 1 PROVE FALSE
      OBVIOUS
    <3>1. i \in 1 .. d /\ i <= Len(res)
      BY <1>0
    <3>2. res[i] \in Entry /\ res[i].age \in Nat
      <4>1. res[i] \in Entry
        BY <1>0, <3>1
      <4> QED BY <4>1 DEF Entry, Reservation
    <3>3. res[i].age >= Window /\ res[i].age < Window
      BY <1>3, <3>1 DEF Cut
    <3> QED BY <3>2, <3>3
  <2>2. ~(d + 1 < i)
    <3> SUFFICES ASSUME d + 1 < i PROVE FALSE
      OBVIOUS
    <3>1. d + 1 \in 1 .. i - 1 /\ 1 \in 1 .. Len(led)
      BY <1>0
    <3>2. led[1] = res[d + 1] /\ led[1].age < Window
      BY <3>1 DEF Cut
    <3>3. led[1] \in Entry
      BY <1>0, <3>1
    <3>4. led[1].age \in Nat
      BY <3>3 DEF Entry, Reservation
    <3>5. res[d + 1].age >= Window
      BY <1>3, <3>1
    <3> QED BY <3>2, <3>4, <3>5
  <2> QED BY <1>0, <2>1, <2>2
<1>4. first = d + 1
  <2> HIDE DEF Starts
  <2> QED BY <1>2, <1>3
<1> HIDE DEF first
<1> DEFINE s == SubSeq(res, d + 1, Len(res))
<1>5. s \in Seq(Entry) /\ Len(s) = Len(led) /\ \A i \in 1 .. Len(led) : s[i] = res[d + i]
  BY <1>0
<1> HIDE DEF s
<1>6. s = led
  <2>1. \A i \in 1 .. Len(led) : s[i] = led[i]
    BY <1>5 DEF Cut
  <2> QED BY ONLY <1>0, <1>5, <2>1
<1> QED BY <1>1, <1>4, <1>6 DEF s

\* Whoever is admitted counts from now on.
LEMMA AppendCut ==
  ASSUME NEW led, NEW e \in Entry, Cut(led, led, 0), Aged(led), e.age = 0, Window \in Nat \ {0}
  PROVE  Cut(Append(led, e), Append(led, e), 0) /\ Aged(Append(led, e))
<1> DEFINE s == Append(led, e)
<1>0. led \in Seq(Entry) /\ Len(led) \in Nat
  BY DEF Cut
<1>1. s \in Seq(Entry) /\ Len(s) = Len(led) + 1 /\ s[Len(led) + 1] = e
      /\ \A i \in 1 .. Len(led) : s[i] = led[i]
  BY <1>0
<1>2. \A i \in 1 .. Len(led) : led[i].age \in Nat /\ led[i].age < Window
  <2>1. \A i \in 1 .. Len(led) : led[i] \in Entry
    BY <1>0
  <2> QED BY <2>1 DEF Cut, Entry, Reservation
<1> HIDE DEF s
<1>3. ASSUME NEW i \in 1 .. Len(s) PROVE s[i].age < Window /\ s[i].age >= 0
  <2>1. i \in 1 .. Len(led) \/ i = Len(led) + 1
    BY <1>0, <1>1
  <2> QED BY <1>1, <1>2, <2>1
<1>4. ASSUME NEW i \in 1 .. Len(s), NEW k \in 1 .. Len(s), i <= k
      PROVE  s[i].age >= s[k].age
  <2>1. CASE k = Len(led) + 1
    BY <1>1, <1>3, <2>1
  <2>2. CASE k # Len(led) + 1
    <3>1. i \in 1 .. Len(led) /\ k \in 1 .. Len(led)
      BY <1>0, <1>1, <1>4, <2>2
    <3> QED BY <1>1, <1>4, <3>1 DEF Aged
  <2> QED BY <2>1, <2>2
<1>5. Cut(s, s, 0)
  BY <1>0, <1>1, <1>3 DEF Cut
<1> QED BY <1>4, <1>5 DEF s, Aged

\* Nothing but ages and tokens of requests changes when one is settled.
LEMMA SettledCut ==
  ASSUME NEW res, NEW led, NEW d, Cut(res, led, d), Aged(res), NEW c, NEW n \in Nat
  PROVE  Cut(Settled(res, c, n), Settled(led, c, n), d) /\ Aged(Settled(res, c, n))
<1> DEFINE New(r) == IF r.by = c THEN [r EXCEPT !.by = Absent, !.tokens = n] ELSE r
           s == Settled(res, c, n)
           t == Settled(led, c, n)
<1>0. /\ res \in Seq(Entry) /\ led \in Seq(Entry) /\ Len(res) \in Nat /\ Len(led) \in Nat
      /\ d \in Nat /\ d <= Len(res) /\ Len(led) = Len(res) - d
  BY DEF Cut
<1>1. ASSUME NEW r \in Entry PROVE New(r) \in Entry /\ New(r).age = r.age
  BY DEF Entry, Reservation
<1>2. /\ s = [i \in 1 .. Len(res) |-> New(res[i])]
      /\ t = [i \in 1 .. Len(led) |-> New(led[i])]
  BY DEF Settled
<1> HIDE DEF New, s, t
<1>3. s \in Seq(Entry) /\ t \in Seq(Entry) /\ Len(s) = Len(res) /\ Len(t) = Len(led)
      /\ (\A i \in 1 .. Len(res) : s[i] = New(res[i]) /\ s[i].age = res[i].age)
      /\ (\A i \in 1 .. Len(led) : t[i] = New(led[i]) /\ t[i].age = led[i].age)
  <2>1. (\A i \in 1 .. Len(res) : res[i] \in Entry) /\ \A i \in 1 .. Len(led) : led[i] \in Entry
    BY <1>0
  <2>2. (\A i \in 1 .. Len(res) : New(res[i]) \in Entry) /\ \A i \in 1 .. Len(led) : New(led[i]) \in Entry
    BY <1>1, <2>1
  <2> QED BY <1>0, <1>1, <1>2, <2>1, <2>2
<1>4. Cut(s, t, d)
  <2>1. ASSUME NEW i \in 1 .. Len(t) PROVE t[i] = s[d + i] /\ t[i].age < Window
    <3>1. i \in 1 .. Len(led) /\ d + i \in 1 .. Len(res)
      BY <1>0, <1>3
    <3>2. led[i] = res[d + i] /\ led[i].age < Window
      BY <3>1 DEF Cut
    <3> QED BY <1>3, <3>1, <3>2
  <2>2. ASSUME NEW k \in 1 .. d PROVE s[k].age >= Window
    <3>1. k \in 1 .. Len(res)
      BY <1>0
    <3> QED BY <1>3, <3>1 DEF Cut
  <2> QED BY <1>0, <1>3, <2>1, <2>2 DEF Cut
<1>5. Aged(s)
  BY <1>3 DEF Aged
<1> QED BY <1>4, <1>5 DEF s, t

\* A unit of time: the requests that are a window old now are the first of the
\* ledger.
LEMMA OlderCut ==
  ASSUME NEW d, Cut(reservations, ledger, d), Aged(reservations), Window \in Nat \ {0}, Tick
  PROVE  \E e : Cut(reservations', ledger', e) /\ Aged(reservations')
<1> DEFINE Old(r) == [r EXCEPT !.age = IF @ < Window THEN @ + 1 ELSE @]
           res == reservations
           led == ledger
           s == Older(res)
           t == Older(led)
           T == {i \in 1 .. Len(led) : led[i].age = Window - 1}
<1>0. /\ res \in Seq(Entry) /\ led \in Seq(Entry) /\ Len(res) \in Nat /\ Len(led) \in Nat
      /\ d \in Nat /\ d <= Len(res) /\ Len(led) = Len(res) - d /\ DOMAIN led = 1 .. Len(led)
  BY DEF Cut
<1>1. ASSUME NEW r \in Entry
      PROVE  /\ Old(r) \in Entry /\ r.age \in Nat
             /\ Old(r).age = IF r.age < Window THEN r.age + 1 ELSE r.age
  BY DEF Entry, Reservation
<1>2. /\ s = [i \in 1 .. Len(res) |-> Old(res[i])]
      /\ t = [i \in 1 .. Len(led) |-> Old(led[i])]
  BY DEF Older
<1>3. PICK e \in 0 .. Len(led) : T = 1 .. e
  <2>1. ASSUME NEW i \in T, NEW k \in 1 .. Len(led), k <= i PROVE k \in T
    <3>1. i \in 1 .. Len(led) /\ d + i \in 1 .. Len(res) /\ d + k \in 1 .. Len(res) /\ d + k <= d + i
      BY <1>0, <2>1
    <3>2. led[k] = res[d + k] /\ led[i] = res[d + i] /\ led[k].age < Window
      BY <3>1 DEF Cut
    <3>3. res[d + k].age >= res[d + i].age
      BY <3>1 DEF Aged
    <3>4. led[k].age \in Nat /\ led[i].age = Window - 1
      <4>1. led[k] \in Entry
        BY <1>0
      <4> QED BY <1>1, <4>1
    <3>5. led[k].age = Window - 1
      BY <3>2, <3>3, <3>4
    <3> QED BY <3>5
  <2>2. CASE T = {}
    <3>1. 0 \in 0 .. Len(led) /\ 1 .. 0 = {}
      BY <1>0
    <3> QED BY <2>2, <3>1
  <2>3. CASE T # {}
    <3> DEFINE m == Max(T)
    <3>1. T \in SUBSET (1 .. Len(led))
      OBVIOUS
    <3>2. m \in T /\ m \in 1 .. Len(led)
      <4> HIDE DEF T
      <4> QED BY <1>0, <2>3, <3>1, MaxOfPositions
    <3>3. ASSUME NEW i \in T PROVE i <= m
      <4> HIDE DEF m
      <4>1. \E x \in T : \A y \in T : x >= y
        <5> DEFINE U == {Len(led) - x : x \in T}
        <5>1. U \subseteq Nat /\ U # {}
          <6>1. \A x \in T : Len(led) - x \in Nat
            BY <1>0
          <6> HIDE DEF T
          <6> QED BY <2>3, <6>1
        <5>2. PICK u \in U : \A v \in U : u <= v
          <6> HIDE DEF U
          <6> QED BY <5>1, LeastNumber
        <5>3. PICK x \in T : u = Len(led) - x
          OBVIOUS
        <5>4. ASSUME NEW y \in T PROVE x >= y
          <6>1. Len(led) - y \in U /\ x \in Int /\ y \in Int
            OBVIOUS
          <6>2. Len(led) - x <= Len(led) - y
            BY <5>2, <5>3, <6>1
          <6> QED BY <1>0, <6>1, <6>2
        <5> QED BY <5>4
      <4>2. m \in T /\ \A y \in T : m >= y
        <5> HIDE DEF T
        <5> QED BY <4>1 DEF m, Max
      <4>3. m \in Int /\ i \in Int
        BY <3>2
      <4> HIDE DEF T
      <4> QED BY <4>2, <4>3
    <3> HIDE DEF m
    <3>4. \A x : x \in T <=> x \in 1 .. m
      <4>1. ASSUME NEW x \in T PROVE x \in 1 .. m
        <5>1. x \in 1 .. Len(led) /\ x <= m
          BY <3>3
        <5> QED BY <3>2, <5>1
      <4>2. ASSUME NEW x \in 1 .. m PROVE x \in T
        <5>1. x \in 1 .. Len(led) /\ x <= m
          BY <1>0, <3>2
        <5> HIDE DEF T
        <5> QED BY <2>1, <3>2, <5>1
      <4> QED BY <4>1, <4>2
    <3>5. T = 1 .. m /\ m \in 0 .. Len(led)
      BY <1>0, <3>2, <3>4
    <3> QED BY <3>5
  <2> QED BY <2>2, <2>3
<1>4. Cardinality(T) = e /\ e \in Nat
  <2>1. e \in Nat
    BY <1>0
  <2>2. Cardinality(1 .. e) = e
    BY <2>1, FS_Interval
  <2> HIDE DEF T
  <2> QED BY <1>3, <2>1, <2>2
<1>5. reservations' = s /\ ledger' = SubSeq(t, e + 1, Len(led))
  <2>1. Expired = T
    BY <1>0 DEF Expired
  <2>2. ledger' = SubSeq(t, Cardinality(Expired) + 1, Len(led))
    BY DEF Tick
  <2>3. Cardinality(Expired) = Cardinality(T)
    <3> HIDE DEF T
    <3> QED BY <2>1 DEF Cardinality, Cardinality
  <2> HIDE DEF T, t
  <2> QED BY <1>4, <2>2, <2>3 DEF Tick
<1> HIDE DEF Old, s, t
<1>6. s \in Seq(Entry) /\ t \in Seq(Entry) /\ Len(s) = Len(res) /\ Len(t) = Len(led)
      /\ (\A i \in 1 .. Len(res) : s[i] = Old(res[i])) /\ (\A i \in 1 .. Len(led) : t[i] = Old(led[i]))
  <2>1. (\A i \in 1 .. Len(res) : res[i] \in Entry) /\ \A i \in 1 .. Len(led) : led[i] \in Entry
    BY <1>0
  <2>2. (\A i \in 1 .. Len(res) : Old(res[i]) \in Entry) /\ \A i \in 1 .. Len(led) : Old(led[i]) \in Entry
    BY <1>1, <2>1
  <2> QED BY <1>0, <1>2, <2>2
<1> DEFINE q == SubSeq(t, e + 1, Len(led))
<1>7. q \in Seq(Entry) /\ Len(q) = Len(led) - e /\ \A i \in 1 .. Len(led) - e : q[i] = t[e + i]
  BY <1>0, <1>4, <1>6
<1> HIDE DEF q
<1>8. Cut(s, q, d + e)
  <2>1. d + e \in 0 .. Len(s) /\ Len(q) = Len(s) - (d + e)
    BY <1>0, <1>6, <1>7
  <2>2. ASSUME NEW i \in 1 .. Len(q) PROVE q[i] = s[(d + e) + i] /\ q[i].age < Window
    <3>1. /\ i \in 1 .. Len(led) - e /\ e + i \in 1 .. Len(led)
          /\ d + (e + i) \in 1 .. Len(res) /\ d + (e + i) = (d + e) + i
      BY <1>0, <1>4, <1>7
    <3>2. q[i] = t[e + i] /\ t[e + i] = Old(led[e + i])
      BY <1>6, <1>7, <3>1
    <3>3. led[e + i] = res[d + (e + i)] /\ led[e + i].age < Window
      BY <3>1 DEF Cut
    <3>4. s[d + (e + i)] = Old(res[d + (e + i)])
      BY <1>6, <3>1
    <3>5. led[e + i] \in Entry
      BY <1>0, <3>1
    <3>6. e + i \notin T
      <4>1. e + i \notin 1 .. e
        BY <1>4, <3>1
      <4> QED BY <1>3, <4>1
    <3>7. led[e + i].age # Window - 1
      BY <3>1, <3>6
    <3>8. led[e + i].age + 1 < Window /\ Old(led[e + i]).age = led[e + i].age + 1
      BY <1>1, <3>3, <3>5, <3>7
    <3> QED BY <3>1, <3>2, <3>3, <3>4, <3>8
  <2>3. ASSUME NEW k \in 1 .. d + e PROVE s[k].age >= Window
    <3>1. k \in 1 .. Len(res) /\ s[k] = Old(res[k]) /\ res[k] \in Entry
      BY <1>0, <1>4, <1>6
    <3>2. CASE k <= d
      <4>1. k \in 1 .. d
        BY <1>0, <3>2
      <4>2. res[k].age >= Window
        BY <4>1 DEF Cut
      <4> QED BY <1>1, <3>1, <4>2
    <3>3. CASE ~(k <= d)
      <4>1. k - d \in 1 .. e /\ k - d \in 1 .. Len(led) /\ d + (k - d) = k
        BY <1>0, <1>4, <3>3
      <4>2. k - d \in T
        <5> HIDE DEF T
        <5> QED BY <1>3, <4>1
      <4>3. led[k - d].age = Window - 1
        BY <4>2
      <4>4. led[k - d] = res[k]
        BY <4>1 DEF Cut
      <4>5. Old(res[k]).age = IF Window - 1 < Window THEN (Window - 1) + 1 ELSE Window - 1
        BY <1>1, <3>1, <4>3, <4>4
      <4> QED BY <3>1, <4>5
    <3> QED BY <3>2, <3>3
  <2> QED BY <1>6, <1>7, <2>1, <2>2, <2>3 DEF Cut
<1>9. Aged(s)
  <2>1. ASSUME NEW i \in 1 .. Len(s), NEW k \in 1 .. Len(s), i <= k
        PROVE  s[i].age >= s[k].age
    <3>1. /\ i \in 1 .. Len(res) /\ k \in 1 .. Len(res) /\ res[i] \in Entry /\ res[k] \in Entry
          /\ s[i] = Old(res[i]) /\ s[k] = Old(res[k])
      BY <1>0, <1>6
    <3>2. res[i].age >= res[k].age
      BY <2>1, <3>1 DEF Aged
    <3> DEFINE x == res[i].age
               y == res[k].age
    <3>3. /\ x \in Nat /\ y \in Nat /\ x >= y
          /\ s[i].age = IF x < Window THEN x + 1 ELSE x
          /\ s[k].age = IF y < Window THEN y + 1 ELSE y
      BY <1>1, <3>1, <3>2
    <3> HIDE DEF x, y
    <3> QED BY ONLY <3>3, Window \in Nat
  <2> QED BY <2>1 DEF Aged
<1> QED BY <1>5, <1>8, <1>9 DEF q

-----------------------------------------------------------------------------
(* The invariant of the governor                                           *)

\* What a coroutine asks for fits a window; the ledger is the young part of the
\* reservations.
Kept(res, led, cs) ==
  /\ cs \in [Callers -> Caller]
  /\ \A c \in Callers : cs[c].pc # "idle" => Fits(cs[c].tokens)
  /\ \E d : Cut(res, led, d)
  /\ Aged(res)

GovernorInv == Kept(reservations, ledger, caller)

LEMMA InvPrimed ==
  ASSUME Kept(reservations', ledger', caller')
  PROVE  GovernorInv'
BY DEF GovernorInv, Kept, Cut, Aged, Entry, Caller, Reservation, Fits, TokensPerWindow,
       EffectiveLimit, AtLeast

\* Whoever is admitted finds the window within its limits.
WindowKept ==
  /\ RequestsPerWindow > 0 => Len(ledger') <= RequestsPerWindow
  /\ TokensPerWindow > 0 => Charge(ledger') <= TokensPerWindow

Admits ==
  \A c \in Callers : caller[c].pc # "calling" /\ caller'[c].pc = "calling" => WindowKept

LEMMA Notified ==
  ASSUME NEW cs \in [Callers -> Caller]
  PROVE  /\ NotifyAll(cs) \in [Callers -> Caller]
         /\ \A c \in Callers : /\ NotifyAll(cs)[c].pc = cs[c].pc
                               /\ NotifyAll(cs)[c].tokens = cs[c].tokens
BY DEF NotifyAll, Caller

\* The coroutines but one keep what they ask for.
Moves(c, me) ==
  /\ me \in Caller /\ (me.pc # "idle" => Fits(me.tokens))
  /\ caller' \in [Callers -> Caller]
  /\ caller'[c].pc = me.pc /\ caller'[c].tokens = me.tokens
  /\ \A x \in Callers : x # c => caller'[x].pc = caller[x].pc /\ caller'[x].tokens = caller[x].tokens

LEMMA MovesKeep ==
  ASSUME GovernorInv, NEW c \in Callers, NEW me, Moves(c, me),
         NEW d, Cut(reservations', ledger', d), Aged(reservations'),
         me.pc = "calling" => caller[c].pc = "calling" \/ WindowKept
  PROVE  GovernorInv' /\ Admits
<1>1. ASSUME NEW x \in Callers, caller'[x].pc # "idle" PROVE Fits(caller'[x].tokens)
  BY <1>1 DEF GovernorInv, Kept, Moves
<1>2. Kept(reservations', ledger', caller')
  BY <1>1 DEF Moves, Kept
<1>3. ASSUME NEW x \in Callers, caller[x].pc # "calling", caller'[x].pc = "calling" PROVE WindowKept
  <2>1. x = c
    BY <1>3 DEF Moves
  <2> QED BY <1>3, <2>1 DEF Moves
<1> QED BY <1>2, <1>3, InvPrimed DEF Admits

\* One coroutine becomes me, and whoever is parked hears of it or not.
LEMMA MovesOne ==
  ASSUME GovernorInv, NEW c \in Callers, NEW me \in Caller, me.pc # "idle" => Fits(me.tokens),
         \/ caller' = [caller EXCEPT ![c] = me]
         \/ caller' = NotifyAll([caller EXCEPT ![c] = me])
  PROVE  Moves(c, me)
<1> DEFINE cs == [caller EXCEPT ![c] = me]
<1>1. /\ cs \in [Callers -> Caller] /\ cs[c] = me
      /\ \A x \in Callers : x # c => cs[x] = caller[x]
  BY DEF GovernorInv, Kept
<1>2. /\ caller' \in [Callers -> Caller]
      /\ \A x \in Callers : caller'[x].pc = cs[x].pc /\ caller'[x].tokens = cs[x].tokens
  <2> HIDE DEF cs
  <2>1. CASE caller' = cs
    BY <1>1, <2>1
  <2>2. CASE caller' = NotifyAll(cs)
    BY <1>1, <2>2, Notified
  <2> QED BY <2>1, <2>2 DEF cs
<1> HIDE DEF cs
<1> QED BY <1>1, <1>2 DEF Moves

\* A coroutine looks at the window (reserve).
LEMMA LookKeeps ==
  ASSUME GovernorInv, NEW c \in Callers, NEW q, NEW me \in Caller,
         Fits(me.tokens), Look(c, q, me)
  PROVE  GovernorInv' /\ Admits
<1> DEFINE rs == Pruned(reservations)
           delay == RequiredDelay(rs, me.tokens)
           entry == [by |-> c, tokens |-> me.tokens, age |-> 0]
           cs == [caller EXCEPT ![c] = me]
           called == [me EXCEPT !.pc = "calling", !.timer = 0]
           capped == [me EXCEPT !.pc = "capacity", !.timer = delay]
           queued == [me EXCEPT !.pc = "queued", !.woken = FALSE, !.timer = 0]
<1>0. /\ Window \in Nat \ {0} /\ RequestsPerWindow \in Nat /\ TokensPerWindow \in Nat
  BY GovernorNumbers
<1>n. me.tokens \in Nat
  <2>1. me.tokens \in Estimates \cup {0}
    BY DEF Caller
  <2> QED BY <2>1, Amounts
<1>1. rs = ledger /\ Young(ledger) /\ Cut(ledger, ledger, 0) /\ Aged(ledger)
  <2>1. PICK d : Cut(reservations, ledger, d)
    BY DEF GovernorInv, Kept
  <2>2. rs = ledger
    BY <1>0, <2>1, PrunedIsLedger
  <2>3. Young(ledger) /\ Cut(ledger, ledger, 0)
    <3>1. ledger \in Seq(Entry) /\ \A i \in 1 .. Len(ledger) : ledger[i].age < Window
      BY <2>1 DEF Cut
    <3> QED BY <3>1 DEF Young, Cut
  <2>4. ASSUME NEW i \in 1 .. Len(ledger), NEW k \in 1 .. Len(ledger), i <= k
        PROVE  ledger[i].age >= ledger[k].age
    <3>1. d + i \in 1 .. Len(reservations) /\ d + k \in 1 .. Len(reservations) /\ d + i <= d + k
      BY <2>1, <2>4 DEF Cut
    <3>2. ledger[i] = reservations[d + i] /\ ledger[k] = reservations[d + k]
      BY <2>1 DEF Cut
    <3> QED BY <3>1, <3>2 DEF GovernorInv, Kept, Aged
  <2> QED BY <2>2, <2>3, <2>4 DEF Aged
<1>2. delay \in Nat /\ (delay = 0 <=> HasRoom(ledger, me.tokens))
  BY <1>n, <1>1, DelayExact
<1>3. cs \in [Callers -> Caller] /\ cs[c] = me /\ caller \in [Callers -> Caller]
  BY DEF GovernorInv, Kept
<1>4. entry \in Entry /\ entry.age = 0 /\ entry.tokens = me.tokens
  BY <1>0, <1>n DEF Entry, Reservation
<1>5. \/ /\ delay <= 0 /\ reservations' = Append(rs, entry) /\ ledger' = Append(ledger, entry)
         /\ caller' = NotifyAll([cs EXCEPT ![c].pc = "calling", ![c].timer = 0])
      \/ /\ delay > 0 /\ reservations' = rs /\ ledger' = ledger
         /\ caller' = [cs EXCEPT ![c].pc = "capacity", ![c].timer = delay]
      \/ /\ caller' = [cs EXCEPT ![c].pc = "queued", ![c].woken = FALSE, ![c].timer = 0]
         /\ reservations' = reservations /\ ledger' = ledger
  BY DEF Look
<1> HIDE DEF rs, delay, entry
<1>6. CASE /\ delay <= 0 /\ reservations' = Append(rs, entry) /\ ledger' = Append(ledger, entry)
           /\ caller' = NotifyAll([cs EXCEPT ![c].pc = "calling", ![c].timer = 0])
  <2>1. /\ called \in Caller /\ called.pc = "calling" /\ called.tokens = me.tokens
    BY DEF Caller
  <2>2. [cs EXCEPT ![c].pc = "calling", ![c].timer = 0] = [caller EXCEPT ![c] = called]
    BY <1>3
  <2> HIDE DEF called, cs
  <2>3. Moves(c, called)
    BY <1>6, <2>1, <2>2, MovesOne
  <2>4. Cut(reservations', ledger', 0) /\ Aged(reservations')
    BY <1>0, <1>1, <1>4, <1>6, AppendCut
  <2>5. WindowKept
    <3>1. HasRoom(ledger, me.tokens)
      BY <1>2, <1>6
    <3>2. /\ Len(ledger') = Len(ledger) + 1 /\ Len(ledger) \in Nat
          /\ Charge(ledger') = Charge(ledger) + me.tokens
      BY <1>1, <1>4, <1>6, ChargeGrows DEF Young
    <3> QED BY <1>0, <3>1, <3>2 DEF HasRoom, WindowKept
  <2> QED BY <2>3, <2>4, <2>5, MovesKeep
<1>7. CASE /\ delay > 0 /\ reservations' = rs /\ ledger' = ledger
           /\ caller' = [cs EXCEPT ![c].pc = "capacity", ![c].timer = delay]
  <2>1. /\ capped \in Caller /\ capped.pc = "capacity" /\ capped.tokens = me.tokens
    BY <1>2 DEF Caller
  <2>2. [cs EXCEPT ![c].pc = "capacity", ![c].timer = delay] = [caller EXCEPT ![c] = capped]
    BY <1>3
  <2> HIDE DEF capped, cs
  <2>3. Moves(c, capped)
    BY <1>7, <2>1, <2>2, MovesOne
  <2>4. Cut(reservations', ledger', 0) /\ Aged(reservations')
    BY <1>1, <1>7
  <2> QED BY <2>1, <2>3, <2>4, MovesKeep
<1>8. CASE /\ caller' = [cs EXCEPT ![c].pc = "queued", ![c].woken = FALSE, ![c].timer = 0]
           /\ reservations' = reservations /\ ledger' = ledger
  <2>1. /\ queued \in Caller /\ queued.pc = "queued" /\ queued.tokens = me.tokens
    BY DEF Caller
  <2>2. [cs EXCEPT ![c].pc = "queued", ![c].woken = FALSE, ![c].timer = 0]
          = [caller EXCEPT ![c] = queued]
    BY <1>3
  <2> HIDE DEF queued, cs
  <2>3. Moves(c, queued)
    BY <1>8, <2>1, <2>2, MovesOne
  <2>4. PICK d : Cut(reservations', ledger', d)
    BY <1>8 DEF GovernorInv, Kept
  <2>5. Aged(reservations')
    BY <1>8 DEF GovernorInv, Kept
  <2> QED BY <2>1, <2>3, <2>4, <2>5, MovesKeep
<1> QED BY <1>5, <1>6, <1>7, <1>8

\* A coroutine that is not admitted by the step gives its request back or leaves
\* what it was admitted charged.
LEMMA LetsGo ==
  ASSUME GovernorInv, NEW c \in Callers, NEW me \in Caller,
         me.pc # "calling", me.pc # "idle" => Fits(me.tokens),
         \/ \E n \in Nat : Commit(c, n, me)
         \/ Abandon(c, me)
         \/ Withdrawn(c, me)
  PROVE  GovernorInv' /\ Admits
<1>1. Moves(c, me)
  <2>1. \/ caller' = [caller EXCEPT ![c] = me]
        \/ caller' = NotifyAll([caller EXCEPT ![c] = me])
    BY DEF Commit, Abandon, Withdrawn
  <2> QED BY <2>1, MovesOne
<1>2. PICK d : Cut(reservations, ledger, d)
  BY DEF GovernorInv, Kept
<1>3. Aged(reservations)
  BY DEF GovernorInv, Kept
<1>4. caller[c].tokens \in Nat
  <2>1. caller[c].tokens \in Estimates \cup {0}
    BY DEF GovernorInv, Kept, Caller
  <2> QED BY <2>1, Amounts
<1>5. Cut(reservations', ledger', d) /\ Aged(reservations')
  <2>1. ASSUME NEW n \in Nat, reservations' = Settled(reservations, c, n), ledger' = Settled(ledger, c, n)
        PROVE  Cut(reservations', ledger', d) /\ Aged(reservations')
    BY <1>2, <1>3, <2>1, SettledCut
  <2>2. CASE \E n \in Nat : Commit(c, n, me)
    BY <2>1, <2>2 DEF Commit
  <2>3. CASE Abandon(c, me)
    BY <1>4, <2>1, <2>3 DEF Abandon
  <2>4. CASE Withdrawn(c, me)
    BY <1>2, <1>3, <2>4 DEF Withdrawn
  <2> QED BY <2>2, <2>3, <2>4
<1> QED BY <1>1, <1>5, MovesKeep

LEMMA IdleIsTyped ==
  Idle \in Caller /\ Idle.pc = "idle"
  /\ \A n \in Estimates : /\ [Idle EXCEPT !.tokens = n] \in Caller
                          /\ [Idle EXCEPT !.tokens = n].tokens = n
<1>1. 0 \in 0 .. MaxRetries
  BY GovernorNumbers
<1> QED BY <1>1 DEF Idle, Caller

\* The ledger is what reserve finds in the window, after every step, and whoever
\* is admitted fits into it.
LEMMA GovernorStep ==
  ASSUME GovernorInv, GovernorNext
  PROVE  GovernorInv' /\ Admits
<1>0. \A c \in Callers : caller[c] \in Caller /\ (caller[c].pc # "idle" => Fits(caller[c].tokens))
  BY DEF GovernorInv, Kept
<1>1. ASSUME NEW c \in Callers, NEW n \in Estimates, Reserve(c, n)
      PROVE  GovernorInv' /\ Admits
  <2> DEFINE me == [Idle EXCEPT !.tokens = n]
  <2>1. me \in Caller /\ me.tokens = n
    BY IdleIsTyped
  <2>2. Fits(n) /\ Look(c, Append(waiters, c), me)
    BY <1>1 DEF Reserve
  <2> HIDE DEF me
  <2> QED BY <2>1, <2>2, LookKeeps
<1>2. ASSUME NEW c \in Callers, Resume(c) PROVE GovernorInv' /\ Admits
  <2>1. Look(c, waiters, caller[c]) /\ caller[c].pc # "idle"
    BY <1>2 DEF Resume
  <2> QED BY <1>0, <2>1, LookKeeps
<1>3. ASSUME NEW c \in Callers, Retry(c) PROVE GovernorInv' /\ Admits
  <2>1. Look(c, Append(waiters, c), caller[c]) /\ caller[c].pc # "idle"
    BY <1>3 DEF Retry
  <2> QED BY <1>0, <2>1, LookKeeps
<1>4. ASSUME NEW c \in Callers, CallReturns(c) PROVE GovernorInv' /\ Admits
  <2>1. PICK n \in Reported(c) : Commit(c, n, Idle)
    BY <1>4 DEF CallReturns
  <2>2. n \in Nat
    <3>1. n \in Usages \cup {caller[c].tokens}
      BY DEF Reported, VectorUsage
    <3>2. caller[c].tokens \in Estimates \cup {0}
      BY <1>0 DEF Caller
    <3> QED BY <3>1, <3>2, GovernorNumbers
  <2> QED BY <2>1, <2>2, IdleIsTyped, LetsGo
<1>5. ASSUME NEW c \in Callers, NEW failure \in Failure, NEW hint \in Hints \cup {0},
             CallFails(c, failure, hint)
      PROVE  GovernorInv' /\ Admits
  <2> DEFINE again == /\ failure \in Retryable
                      /\ caller[c].attempt < MaxRetries
                      /\ Backoff(hint) <= RetryMax
             later == [caller[c] EXCEPT !.pc = "backoff", !.attempt = @ + 1,
                                        !.timer = Backoff(hint)]
             me == IF again THEN later ELSE Idle
  <2>1. caller[c].pc = "calling" /\ \E n \in ErrorUsage(c, failure) :
           IF n = Absent THEN Abandon(c, me) ELSE Commit(c, n, me)
    BY <1>5 DEF CallFails
  <2>2. me \in Caller /\ me.pc # "calling" /\ (me.pc # "idle" => Fits(me.tokens))
    <3>1. CASE again
      <4>1. Backoff(hint) \in Nat
        <5>1. hint \in Nat /\ RetryBase \in Nat
          BY GovernorNumbers
        <5> QED BY <5>1 DEF Backoff, AtLeast
      <4>2. caller[c].attempt + 1 \in 0 .. MaxRetries
        <5>1. caller[c].attempt \in 0 .. MaxRetries /\ MaxRetries \in Nat
          BY <1>0, GovernorNumbers DEF Caller
        <5> QED BY <3>1, <5>1
      <4>3. later \in Caller /\ later.pc = "backoff" /\ later.tokens = caller[c].tokens
        <5> DEFINE b == Backoff(hint)
                   a == caller[c].attempt + 1
        <5>1. b \in Nat /\ a \in 0 .. MaxRetries /\ caller[c] \in Caller
          BY <1>0, <4>1, <4>2
        <5>2. later = [caller[c] EXCEPT !.pc = "backoff", !.attempt = a, !.timer = b]
          OBVIOUS
        <5> HIDE DEF a, b, later
        <5> QED BY <5>1, <5>2 DEF Caller
      <4>4. Fits(caller[c].tokens)
        BY <1>0, <2>1
      <4>5. me = later
        BY <3>1
      <4> HIDE DEF me, later
      <4> QED BY <4>3, <4>4, <4>5
    <3>2. CASE ~again
      <4>1. me = Idle
        BY <3>2
      <4> HIDE DEF me
      <4> QED BY <4>1, IdleIsTyped
    <3> QED BY <3>1, <3>2
  <2> HIDE DEF me
  <2>3. PICK n \in ErrorUsage(c, failure) :
           IF n = Absent THEN Abandon(c, me) ELSE Commit(c, n, me)
    BY <2>1
  <2>4. CASE n = Absent
    BY <2>2, <2>3, <2>4, LetsGo
  <2>5. CASE n # Absent
    <3>1. n \in Nat
      <4>1. n \in Usages
        BY <2>5 DEF ErrorUsage
      <4> QED BY <4>1, GovernorNumbers
    <3>2. Commit(c, n, me)
      BY <2>3, <2>5
    <3> QED BY <2>2, <3>1, <3>2, LetsGo
  <2> QED BY <2>4, <2>5
<1>6. ASSUME NEW c \in Callers, Cancelled(c) PROVE GovernorInv' /\ Admits
  <2>1. Withdrawn(c, Idle) \/ Abandon(c, Idle)
    BY <1>6 DEF Cancelled
  <2> QED BY <2>1, IdleIsTyped, LetsGo
<1>7. ASSUME Tick PROVE GovernorInv' /\ Admits
  <2>1. PICK e : Cut(reservations', ledger', e) /\ Aged(reservations')
    <3>1. PICK d : Cut(reservations, ledger, d)
      BY DEF GovernorInv, Kept
    <3> QED BY <1>7, <3>1, GovernorNumbers, OlderCut DEF GovernorInv, Kept
  <2> DEFINE Aging(x) == [caller[x] EXCEPT !.timer = IF @ > 0 THEN @ - 1 ELSE 0]
  <2>2. caller' = [x \in Callers |-> Aging(x)]
    BY <1>7 DEF Tick
  <2>3. ASSUME NEW x \in Callers
        PROVE  Aging(x) \in Caller /\ Aging(x).pc = caller[x].pc /\ Aging(x).tokens = caller[x].tokens
    <3> DEFINE t == IF caller[x].timer > 0 THEN caller[x].timer - 1 ELSE 0
    <3>1. caller[x] \in Caller /\ t \in Nat
      <4>1. caller[x].timer \in Nat
        BY <1>0 DEF Caller
      <4> QED BY <1>0, <4>1
    <3>2. Aging(x) = [caller[x] EXCEPT !.timer = t]
      OBVIOUS
    <3> HIDE DEF t, Aging
    <3> QED BY <3>1, <3>2 DEF Caller
  <2> HIDE DEF Aging
  <2>4. Kept(reservations', ledger', caller') /\ \A x \in Callers : caller'[x].pc = caller[x].pc
    <3>1. caller' \in [Callers -> Caller]
      BY <2>2, <2>3
    <3>2. \A x \in Callers : caller'[x].pc = caller[x].pc /\ caller'[x].tokens = caller[x].tokens
      BY <2>2, <2>3
    <3> QED BY <1>0, <2>1, <3>1, <3>2 DEF Kept
  <2> QED BY <2>4, InvPrimed DEF Admits
<1> QED BY <1>1, <1>2, <1>3, <1>4, <1>5, <1>6, <1>7 DEF GovernorNext

\* Whenever a request leaves, the requests and the tokens of the window that ends
\* with it are within the limits: reserve, _prune, _required_delay and _commit of
\* ProviderRateGovernor, for every number of coroutines, limits and estimates.
THEOREM WindowsHold == GovernorSpec => AdmissionsFit
<1>1. GovernorInit => GovernorInv
  <2> SUFFICES ASSUME GovernorInit PROVE GovernorInv
    OBVIOUS
  <2>1. Cut(reservations, ledger, 0) /\ Aged(reservations)
    BY DEF GovernorInit, Cut, Aged
  <2>2. \A c \in Callers : caller[c] = Idle
    BY DEF GovernorInit
  <2>3. caller \in [Callers -> Caller]
    BY IdleIsTyped DEF GovernorInit
  <2> QED BY <2>1, <2>2, <2>3, IdleIsTyped DEF GovernorInv, Kept
<1>2. GovernorInv /\ [GovernorNext]_governor_vars => GovernorInv'
  <2>1. ASSUME GovernorInv, UNCHANGED governor_vars PROVE GovernorInv'
    <3>1. Kept(reservations', ledger', caller')
      BY <2>1 DEF governor_vars, GovernorInv
    <3> QED BY <3>1, InvPrimed
  <2> QED BY <2>1, GovernorStep
<1>3. GovernorInv /\ [GovernorNext]_governor_vars =>
        [\A c \in Callers :
          caller[c].pc # "calling" /\ caller'[c].pc = "calling" =>
              /\ RequestsPerWindow > 0 => Len(ledger') <= RequestsPerWindow
              /\ TokensPerWindow > 0 => Charge(ledger') <= TokensPerWindow]_governor_vars
  BY GovernorStep DEF Admits, WindowKept
<1> QED BY <1>1, <1>2, <1>3, PTL DEF GovernorSpec, AdmissionsFit

=============================================================================
