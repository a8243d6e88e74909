----------------------------- MODULE RedisProofs -----------------------------
(***************************************************************************)
(* The two users of Redis, for any number of callers, addresses, entries   *)
(* and readers and any ceilings and windows: the inductive invariants of   *)
(* the limiter and of the cache.                                           *)
(*                                                                         *)
(* What the limiter promises are sums.  The first part is about sums over  *)
(* finite sets, by induction: a least number or a minimal subset that      *)
(* refutes a claim would give a smaller one.                               *)
(***************************************************************************)
EXTENDS RateLimit, Cache, FiniteSetTheorems, WellFoundedInduction, TLAPS

(* Every non-empty set of natural numbers has a least element. *)
LEMMA LeastOf ==
  ASSUME NEW T, T \subseteq Nat, T # {}
  PROVE  \E x \in T : \A y \in T : x <= y
<1>1. PICK x \in T : \A y \in T : ~(<<y, x>> \in OpToRel(<, Nat))
  BY NatLessThanWellFounded, WFMin, Zenon
<1>2. \A y \in T : ~(y < x)
  BY <1>1, Zenon DEF OpToRel
<1> QED BY <1>2

(* Every non-empty family of subsets of a finite set has a minimal member. *)
LEMMA MinimalIn ==
  ASSUME NEW S, IsFiniteSet(S), NEW F, F \subseteq SUBSET S, F # {}
  PROVE  \E s \in F : \A u \in F : u \subseteq s => u = s
<1>1. /\ IsWellFoundedOn(StrictSubsetOrdering(S), SUBSET S)
  BY FS_StrictSubsetOrderingWellFounded, FS_FiniteSubsetsOfFinite, Zenon
<1>2. PICK s \in F : \A u \in F : ~(<<u, s>> \in StrictSubsetOrdering(S))
  BY <1>1, WFMin, Zenon
<1>3. ASSUME NEW u \in F, u \subseteq s, u # s PROVE FALSE
  BY <1>2, <1>3, Zenon DEF StrictSubsetOrdering
<1> QED BY <1>3, Zenon

(* What the fold of a sum goes through, an element of the rest at a time. *)
FirstOf(s) == CHOOSE x \in s : TRUE
Step(g, f, s) == IF s = {} THEN 0 ELSE f[FirstOf(s)] + g[s \ {FirstOf(s)}]
IsSum(g, f, S) == \A s \in SUBSET S : g[s] = Step(g, f, s)
Iter(f, S) == CHOOSE g : g = [s \in SUBSET S |-> Step(g, f, s)]

LEMMA FirstIn == ASSUME NEW s, s # {} PROVE FirstOf(s) \in s
BY Zenon DEF FirstOf

LEMMA SumUnfolds == ASSUME NEW f, NEW S PROVE SumFunctionOnSet(f, S) = Iter(f, S)[S]
BY Zenon DEF SumFunctionOnSet, FoldFunctionOnSet, MapThenFoldSet, Iter, Step, FirstOf

LEMMA SumExists ==
  ASSUME NEW S, IsFiniteSet(S), NEW f
  PROVE  \E g : g = [s \in SUBSET S |-> Step(g, f, s)]
<1> DEFINE Upto(n) == \E g : /\ g = [s \in SUBSET S |-> g[s]]
                             /\ \A s \in SUBSET S : Cardinality(s) <= n => g[s] = Step(g, f, s)
<1>0. \A s \in SUBSET S : IsFiniteSet(s) /\ Cardinality(s) \in Nat
  BY FS_Subset, FS_CardinalityType, Zenon
<1>1. Upto(0)
  <2>1. \A s \in SUBSET S : Cardinality(s) <= 0 => s = {}
    BY <1>0, FS_EmptySet
  <2> DEFINE g == [s \in SUBSET S |-> 0]
  <2>2. g = [s \in SUBSET S |-> g[s]] /\ \A s \in SUBSET S : Cardinality(s) <= 0 => g[s] = Step(g, f, s)
    BY <2>1, Zenon DEF Step
  <2> QED BY <2>2, Zenon
<1>2. ASSUME NEW n \in Nat, Upto(n) PROVE Upto(n + 1)
  <2>1. PICK g : \A s \in SUBSET S : Cardinality(s) <= n => g[s] = Step(g, f, s)
    BY <1>2, Zenon
  <2> DEFINE h == [s \in SUBSET S |-> Step(g, f, s)]
  <2>2. ASSUME NEW s \in SUBSET S, Cardinality(s) <= n + 1 PROVE h[s] = Step(h, f, s)
    <3>1. CASE s = {}
      BY <3>1, Zenon DEF Step
    <3>2. CASE s # {}
      <4>1. PICK x : x = FirstOf(s)
        BY Zenon
      <4>2. x \in s /\ s \ {x} \in SUBSET S
        BY <3>2, <4>1, FirstIn, Zenon
      <4>3. Cardinality(s \ {x}) <= n
        BY <1>0, <2>2, <4>2, FS_RemoveElement
      <4>4. g[s \ {x}] = h[s \ {x}]
        BY <2>1, <4>2, <4>3, Zenon
      <4> HIDE DEF h
      <4>5. Step(g, f, s) = Step(h, f, s)
        BY <3>2, <4>1, <4>4, Zenon DEF Step
      <4> QED BY <4>5, Zenon DEF h
    <3> QED BY <3>1, <3>2, Zenon
  <2>3. h = [s \in SUBSET S |-> h[s]]
    BY Zenon
  <2> HIDE DEF h
  <2> QED BY <2>2, <2>3, Zenon
<1>3. Cardinality(S) \in Nat /\ \A s \in SUBSET S : Cardinality(s) <= Cardinality(S)
  BY <1>0, FS_Subset, Zenon
<1>4. \A n \in Nat : Upto(n)
  <2> SUFFICES ASSUME {n \in Nat : ~Upto(n)} # {} PROVE FALSE
    BY Zenon
  <2>1. PICK n \in Nat : ~Upto(n) /\ \A m \in Nat : ~Upto(m) => n <= m
    <3> DEFINE T == {k \in Nat : ~Upto(k)}
    <3>1. T \subseteq Nat /\ T # {}
      BY Zenon
    <3>2. PICK x \in T : \A y \in T : x <= y
      <4> HIDE DEF T
      <4> QED BY <3>1, LeastOf, Zenon
    <3> QED BY <3>2, Zenon
  <2> HIDE DEF Upto
  <2>2. n # 0 /\ n - 1 \in Nat
    BY <1>1, <2>1
  <2>3. Upto(n - 1)
    BY <2>1, <2>2
  <2>4. Upto(n - 1 + 1)
    BY <1>2, <2>2, <2>3, Zenon
  <2>5. n - 1 + 1 = n
    OBVIOUS
  <2> QED BY <2>1, <2>4, <2>5, Zenon
<1>5. PICK g : /\ g = [s \in SUBSET S |-> g[s]]
               /\ \A s \in SUBSET S : Cardinality(s) <= Cardinality(S) => g[s] = Step(g, f, s)
  BY <1>3, <1>4, Zenon
<1>6. g = [s \in SUBSET S |-> Step(g, f, s)]
  BY <1>3, <1>5, Zenon
<1> QED BY <1>6, Zenon

LEMMA IterIsSum ==
  ASSUME NEW S, IsFiniteSet(S), NEW f
  PROVE  IsSum(Iter(f, S), f, S)
<1>1. \E g : g = [s \in SUBSET S |-> Step(g, f, s)]
  BY SumExists
<1>2. Iter(f, S) = [s \in SUBSET S |-> Step(Iter(f, S), f, s)]
  BY <1>1, Zenon DEF Iter
<1> QED BY <1>2, Zenon DEF IsSum

(* Two sums that agree on what they add agree. *)
LEMMA SumsAgree ==
  ASSUME NEW S, IsFiniteSet(S), NEW f, NEW g, NEW e, NEW h, NEW T, NEW U,
         U \subseteq S, U \subseteq T, IsSum(g, f, S), IsSum(h, e, T), \A x \in U : f[x] = e[x]
  PROVE  g[U] = h[U]
<1> DEFINE F == {s \in SUBSET U : g[s] # h[s]}
<1> SUFFICES ASSUME F # {} PROVE FALSE
  BY Zenon
<1>1. PICK s \in F : \A u \in F : u \subseteq s => u = s
  <2>1. F \subseteq SUBSET S
    BY Zenon
  <2> HIDE DEF F
  <2> QED BY <2>1, MinimalIn
<1>2. s \in SUBSET S /\ s \in SUBSET T /\ s \subseteq U /\ g[s] # h[s]
  BY Zenon
<1>3. s # {}
  BY <1>2, Zenon DEF IsSum, Step
<1>4. PICK x : x = FirstOf(s)
  BY Zenon
<1>5. x \in s /\ x \in U
  BY <1>2, <1>3, <1>4, FirstIn, Zenon
<1>6. s \ {x} \subseteq U /\ s \ {x} \subseteq s /\ s \ {x} # s
  BY <1>2, <1>5, Zenon
<1>7. g[s \ {x}] = h[s \ {x}]
  BY <1>1, <1>6, Zenon
<1>8. g[s] = f[x] + g[s \ {x}] /\ h[s] = e[x] + h[s \ {x}]
  BY <1>2, <1>3, <1>4, Zenon DEF IsSum, Step
<1> QED BY <1>2, <1>5, <1>7, <1>8, Zenon

LEMMA SumOfPart ==
  ASSUME NEW S, IsFiniteSet(S), NEW f, NEW U, U \subseteq S
  PROVE  SumFunctionOnSet(f, U) = Iter(f, S)[U]
<1>1. IsFiniteSet(U)
  BY FS_Subset, Zenon
<1>2. IsSum(Iter(f, S), f, S) /\ IsSum(Iter(f, U), f, U)
  BY <1>1, IterIsSum, Zenon
<1>3. Iter(f, S)[U] = Iter(f, U)[U]
  BY <1>2, SumsAgree
<1> QED BY <1>3, SumUnfolds, Zenon

(* A sum over one element more. *)
LEMMA SumTakesOut ==
  ASSUME NEW S, IsFiniteSet(S), NEW f, NEW y \in S, \A x \in S : f[x] \in Nat
  PROVE  /\ SumFunctionOnSet(f, S) \in Nat
         /\ SumFunctionOnSet(f, S) = f[y] + SumFunctionOnSet(f, S \ {y})
<1>1. PICK g : g = Iter(f, S)
  BY Zenon
<1>2. \A s \in SUBSET S : g[s] = Step(g, f, s)
  BY <1>1, IterIsSum, Zenon DEF IsSum
<1>3. \A s \in SUBSET S : g[s] \in Nat
  <2> DEFINE F == {s \in SUBSET S : g[s] \notin Nat}
  <2> SUFFICES ASSUME F # {} PROVE FALSE
    BY Zenon
  <2>1. PICK s \in F : \A u \in F : u \subseteq s => u = s
    <3>1. F \subseteq SUBSET S
      BY Zenon
    <3> HIDE DEF F
    <3> QED BY <3>1, MinimalIn
  <2>2. s \in SUBSET S /\ g[s] \notin Nat /\ s # {}
    <3>1. g[{}] = 0
      BY <1>2, Zenon DEF Step
    <3>2. 0 \in Nat
      OBVIOUS
    <3> QED BY <3>1, <3>2, Zenon
  <2>3. PICK x : x = FirstOf(s)
    BY Zenon
  <2>4. x \in s /\ f[x] \in Nat /\ s \ {x} \in SUBSET S /\ s \ {x} # s
    BY <2>2, <2>3, FirstIn, Zenon
  <2>5. g[s \ {x}] \in Nat
    BY <2>1, <2>4, Zenon
  <2>6. g[s] = f[x] + g[s \ {x}]
    BY <1>2, <2>2, <2>3, Zenon DEF Step
  <2> QED BY <2>2, <2>4, <2>5, <2>6
<1>4. ASSUME NEW s \in SUBSET S, s # {}
      PROVE  FirstOf(s) \in s /\ FirstOf(s) \in S /\ g[s] = f[FirstOf(s)] + g[s \ {FirstOf(s)}]
  BY <1>2, <1>4, FirstIn, Zenon DEF Step
<1>5. \A s \in SUBSET S : \A z \in s : g[s] = f[z] + g[s \ {z}]
  <2> DEFINE F == {s \in SUBSET S : ~\A z \in s : g[s] = f[z] + g[s \ {z}]}
  <2> SUFFICES ASSUME F # {} PROVE FALSE
    BY Zenon
  <2>1. PICK s \in F : \A u \in F : u \subseteq s => u = s
    <3>1. F \subseteq SUBSET S
      BY Zenon
    <3> HIDE DEF F
    <3> QED BY <3>1, MinimalIn
  <2>2. PICK z \in s : g[s] # f[z] + g[s \ {z}]
    BY Zenon
  <2>3. PICK x : x = FirstOf(s)
    BY Zenon
  <2>4. /\ s \in SUBSET S /\ x \in s /\ x \in S /\ z \in S /\ x # z
        /\ g[s] = f[x] + g[s \ {x}]
    BY <1>4, <2>2, <2>3, Zenon
  <2>5. ASSUME NEW u \in SUBSET s, u # s, NEW w \in u PROVE g[u] = f[w] + g[u \ {w}]
    BY <2>1, <2>4, <2>5, Zenon
  <2>6. PICK r : r = (s \ {x}) \ {z}
    BY Zenon
  <2>7. r = (s \ {z}) \ {x} /\ r \in SUBSET S
    BY <2>4, <2>6, Zenon
  <2>8. g[s \ {x}] = f[z] + g[r]
    BY <2>4, <2>5, <2>6, Zenon
  <2>9. g[s \ {z}] = f[x] + g[r]
    <3>1. s \ {z} \in SUBSET s /\ s \ {z} # s /\ x \in s \ {z}
      BY <2>2, <2>4, Zenon
    <3> QED BY <2>5, <2>7, <3>1, Zenon
  <2>10. f[x] \in Nat /\ f[z] \in Nat /\ g[r] \in Nat
    BY <1>3, <2>4, <2>7, Zenon
  <2>11. f[x] + (f[z] + g[r]) = f[z] + (f[x] + g[r])
    BY <2>10
  <2> QED BY <2>2, <2>4, <2>8, <2>9, <2>11, Zenon
<1>6. SumFunctionOnSet(f, S) = g[S] /\ SumFunctionOnSet(f, S \ {y}) = g[S \ {y}]
  <2>1. S \subseteq S /\ S \ {y} \subseteq S
    BY Zenon
  <2> QED BY <1>1, <2>1, SumOfPart, Zenon
<1> QED BY <1>3, <1>5, <1>6, Zenon

LEMMA SumOfNothing ==
  ASSUME NEW f
  PROVE  SumFunctionOnSet(f, {}) = 0
<1>1. IsFiniteSet({})
  BY FS_EmptySet, Zenon
<1>2. Iter(f, {})[{}] = Step(Iter(f, {}), f, {})
  BY <1>1, IterIsSum, Zenon DEF IsSum
<1>3. Step(Iter(f, {}), f, {}) = 0
  BY Zenon DEF Step
<1> QED BY <1>2, <1>3, SumUnfolds, Zenon

LEMMA SumIsNat ==
  ASSUME NEW S, IsFiniteSet(S), NEW f, \A x \in S : f[x] \in Nat
  PROVE  SumFunctionOnSet(f, S) \in Nat
<1>1. CASE S = {}
  BY <1>1, SumOfNothing
<1>2. CASE S # {}
  BY <1>2, SumTakesOut, Zenon
<1> QED BY <1>1, <1>2, Zenon

LEMMA SumOfEquals ==
  ASSUME NEW S, IsFiniteSet(S), NEW f, NEW e, \A x \in S : f[x] = e[x]
  PROVE  SumFunctionOnSet(f, S) = SumFunctionOnSet(e, S)
<1>1. IsSum(Iter(f, S), f, S) /\ IsSum(Iter(e, S), e, S)
  BY IterIsSum, Zenon
<1>2. Iter(f, S)[S] = Iter(e, S)[S]
  BY <1>1, SumsAgree
<1> QED BY <1>2, SumUnfolds, Zenon

(* The sum of a function follows a change of one value. *)
LEMMA SumFollows ==
  ASSUME NEW S, IsFiniteSet(S), NEW f \in [S -> Nat], NEW e \in [S -> Nat], NEW y \in S,
         \A x \in S : x # y => e[x] = f[x]
  PROVE  /\ SumFunction(f) \in Nat /\ SumFunction(e) \in Nat
         /\ SumFunction(e) - SumFunction(f) = e[y] - f[y]
<1>1. /\ SumFunction(f) = SumFunctionOnSet(f, S)
      /\ SumFunction(e) = SumFunctionOnSet(e, S)
  BY Zenon DEF SumFunction
<1>2. /\ SumFunctionOnSet(f, S) \in Nat
      /\ SumFunctionOnSet(f, S) = f[y] + SumFunctionOnSet(f, S \ {y})
  BY SumTakesOut, Zenon
<1>3. /\ SumFunctionOnSet(e, S) \in Nat
      /\ SumFunctionOnSet(e, S) = e[y] + SumFunctionOnSet(e, S \ {y})
  BY SumTakesOut, Zenon
<1>4. IsFiniteSet(S \ {y}) /\ \A x \in S \ {y} : f[x] = e[x] /\ f[x] \in Nat
  BY FS_RemoveElement, Zenon
<1>5. SumFunctionOnSet(f, S \ {y}) \in Nat /\ SumFunctionOnSet(f, S \ {y}) = SumFunctionOnSet(e, S \ {y})
  BY <1>4, SumOfEquals, SumIsNat, Zenon
<1>6. f[y] \in Nat /\ e[y] \in Nat
  BY Zenon
<1> QED BY <1>1, <1>2, <1>3, <1>5, <1>6

LEMMA SumOfZeros ==
  ASSUME NEW S, IsFiniteSet(S), NEW f, DOMAIN f = S, \A x \in S : f[x] = 0
  PROVE  SumFunction(f) = 0
<1> DEFINE F == {s \in SUBSET S : SumFunctionOnSet(f, s) # 0}
<1> SUFFICES ASSUME F # {} PROVE FALSE
  BY Zenon DEF SumFunction
<1>1. PICK s \in F : \A u \in F : u \subseteq s => u = s
  <2>1. F \subseteq SUBSET S
    BY Zenon
  <2> HIDE DEF F
  <2> QED BY <2>1, MinimalIn
<1>2. s \in SUBSET S /\ SumFunctionOnSet(f, s) # 0 /\ IsFiniteSet(s)
  BY FS_Subset, Zenon
<1>3. PICK x \in s : TRUE
  BY <1>2, SumOfNothing, Zenon
<1>4. \A z \in s : f[z] \in Nat
  BY <1>2
<1>5. SumFunctionOnSet(f, s) = f[x] + SumFunctionOnSet(f, s \ {x})
  BY <1>2, <1>4, SumTakesOut, Zenon
<1>6. SumFunctionOnSet(f, s \ {x}) = 0 /\ f[x] = 0
  BY <1>1, <1>2, <1>3
<1> QED BY <1>2, <1>5, <1>6

(* The parts that a function divides a set into add up to the set. *)
LEMMA PartsAddUp ==
  ASSUME NEW C, IsFiniteSet(C), NEW K, IsFiniteSet(K), NEW h, \A r \in C : h[r] \in K,
         NEW D, D \subseteq C, NEW f, DOMAIN f = K, \A k \in K : f[k] = Cardinality({r \in D : h[r] = k})
  PROVE  SumFunction(f) = Cardinality(D)
<1> DEFINE In(s) == {r \in D : h[r] \in s}
<1> DEFINE F == {s \in SUBSET K : SumFunctionOnSet(f, s) # Cardinality(In(s))}
<1>0. In(K) = D
  BY Zenon
<1> SUFFICES ASSUME F # {} PROVE FALSE
  BY <1>0, Zenon DEF SumFunction
<1>1. PICK s \in F : \A u \in F : u \subseteq s => u = s
  <2>1. F \subseteq SUBSET K
    BY Zenon
  <2> HIDE DEF F
  <2> QED BY <2>1, MinimalIn
<1>2. /\ s \in SUBSET K /\ SumFunctionOnSet(f, s) # Cardinality(In(s)) /\ IsFiniteSet(s)
      /\ \A u \in SUBSET s : u # s => SumFunctionOnSet(f, u) = Cardinality(In(u))
  BY <1>1, FS_Subset, Zenon
<1> HIDE DEF F
<1>3. In({}) = {} /\ Cardinality({}) = 0
  BY FS_EmptySet, Zenon
<1>4. PICK k \in s : TRUE
  BY <1>2, <1>3, SumOfNothing, Zenon
<1>5. \A T \in SUBSET C : IsFiniteSet(T) /\ Cardinality(T) \in Nat
  BY FS_Subset, FS_CardinalityType, Zenon
<1>6. PICK A : A = {r \in D : h[r] = k}
  BY Zenon
<1>7. PICK B : B = In(s \ {k})
  BY Zenon
<1>8. In(s) = A \cup B /\ A \cap B = {} /\ A \in SUBSET C /\ B \in SUBSET C
  BY <1>4, <1>6, <1>7, Zenon
<1>9. f[k] = Cardinality(A)
  BY <1>2, <1>4, <1>6, Zenon
<1>10. SumFunctionOnSet(f, s \ {k}) = Cardinality(B)
  BY <1>2, <1>4, <1>7, Zenon
<1>11. SumFunctionOnSet(f, s) = f[k] + SumFunctionOnSet(f, s \ {k})
  <2>1. \A z \in s : f[z] \in Nat
    <3> TAKE z \in s
    <3>1. {r \in D : h[r] = z} \in SUBSET C
      BY Zenon
    <3> QED BY <1>2, <1>5, <3>1, Zenon
  <2> QED BY <1>2, <1>4, <2>1, SumTakesOut, Zenon
<1>12. Cardinality(A \cup B) = Cardinality(A) + Cardinality(B)
  <2>1. Cardinality(A \cup B) = Cardinality(A) + Cardinality(B) - Cardinality(A \cap B)
    BY <1>5, <1>8, FS_Union, Zenon
  <2>2. Cardinality(A \cap B) = 0
    BY <1>3, <1>8, Zenon
  <2>3. Cardinality(A) \in Nat /\ Cardinality(B) \in Nat
    BY <1>5, <1>8, Zenon
  <2> QED BY <2>1, <2>2, <2>3
<1> HIDE DEF In
<1> QED BY <1>2, <1>8, <1>9, <1>10, <1>11, <1>12, Zenon

------------------------------------------------------------------------------
(* The limiter. *)
LEMMA DivisionFacts ==
  ASSUME NEW a \in Nat, NEW w \in Nat \ {0}
  PROVE  a \div w \in Nat /\ (a \div w) * w <= a /\ a < (a \div w) * w + w
OBVIOUS

LEMMA Distributes ==
  ASSUME NEW a \in Int, NEW b \in Int, NEW c \in Int
  PROVE  a * (b * c) = (a * b) * c /\ (a + b) * c = a * c + b * c
OBVIOUS

(* A window begins at its bucket and has room for what falls into it. *)
LEMMA WindowFacts ==
  ASSUME NEW at \in Nat
  PROVE  /\ Window \in Nat \ {0}
         /\ windowBucket(at) \in Nat
         /\ windowBucket(at) % WindowSeconds = 0
         /\ windowBucket(at) * Units <= at
         /\ (windowBucket(at) + WindowSeconds) * Units = windowBucket(at) * Units + Window
         /\ at < windowBucket(at) * Units + Window
<1>1. WindowSeconds \in Nat \ {0} /\ Units \in Nat \ {0}
  BY RateLimitAssumption, Zenon
<1>2. Window \in Nat \ {0}
  BY <1>1 DEF Window
<1>3. PICK q : q = at \div Window
  BY Zenon
<1>4. q \in Nat /\ q * Window <= at /\ at < q * Window + Window
  BY <1>2, <1>3, DivisionFacts, Zenon
<1>5. windowBucket(at) = q * WindowSeconds
  BY <1>3, Zenon DEF windowBucket
<1>6. q * WindowSeconds \in Nat /\ (q * WindowSeconds) * Units = q * Window
  BY <1>1, <1>4, Distributes DEF Window
<1>7. (q * WindowSeconds) % WindowSeconds = 0
  BY <1>1, <1>4
<1>8. (q * WindowSeconds + WindowSeconds) * Units = (q * WindowSeconds) * Units + Window
  BY <1>1, <1>6, Distributes DEF Window
<1> QED BY <1>2, <1>4, <1>5, <1>6, <1>7, <1>8, Zenon

LEMMA BucketOf ==
  ASSUME NEW at \in Nat, at <= LastUnit
  PROVE  windowBucket(at) \in Buckets
<1>1. /\ windowBucket(at) \in Nat /\ windowBucket(at) * Units <= at
      /\ windowBucket(at) % WindowSeconds = 0
  BY WindowFacts, Zenon
<1>2. Units \in Nat \ {0} /\ LastUnit \in Nat
  BY RateLimitAssumption, Zenon
<1>3. windowBucket(at) <= windowBucket(at) * Units
  <2>1. \A x, y \in Nat : y # 0 => x <= x * y
    OBVIOUS
  <2> QED BY <1>1, <1>2, <2>1, Zenon
<1>4. windowBucket(at) * Units \in Nat
  BY <1>1, <1>2
<1> QED BY <1>1, <1>2, <1>3, <1>4 DEF Buckets

(* Two instants of one bucket lie in one window, and a later window has a  *)
(* later bucket.                                                           *)
LEMMA LaterBucket ==
  ASSUME NEW a \in Nat, NEW z \in Nat, windowBucket(a) * Units + Window <= z
  PROVE  windowBucket(z) > windowBucket(a)
<1>1. /\ windowBucket(a) \in Nat /\ windowBucket(z) \in Nat
      /\ z < windowBucket(z) * Units + Window /\ Window \in Nat
  BY WindowFacts, Zenon
<1>2. Units \in Nat \ {0}
  BY RateLimitAssumption, Zenon
<1>3. \A x, y \in Nat : y <= x => y * Units <= x * Units
  BY <1>2
<1>4. windowBucket(a) * Units \in Nat /\ windowBucket(z) * Units \in Nat
  BY <1>1, <1>2
<1> QED BY <1>1, <1>3, <1>4

(* The wait a denied client is told ends past its window, and is no longer *)
(* than one.                                                               *)
LEMMA RetryIsPastTheWindow ==
  ASSUME NEW at \in Nat
  PROVE  LET back == at + Units * retryAfterSeconds(at) IN
         /\ back \in Nat
         /\ windowBucket(back) > windowBucket(at)
         /\ back - at <= Window
<1>1. /\ Window \in Nat \ {0} /\ windowBucket(at) \in Nat
      /\ windowBucket(at) * Units <= at
      /\ (windowBucket(at) + WindowSeconds) * Units = windowBucket(at) * Units + Window
      /\ at < windowBucket(at) * Units + Window
  BY WindowFacts, Zenon
<1>2. WindowSeconds \in Nat \ {0} /\ Units \in Nat \ {0}
  BY RateLimitAssumption, Zenon
<1>3. PICK start : start = windowBucket(at) * Units
  BY Zenon
<1>4. PICK left : left = start + Window - at
  BY Zenon
<1>5. start \in Nat /\ left \in 1 .. Window
  BY <1>1, <1>2, <1>3, <1>4
<1>6. retryAfterSeconds(at) = IF left <= Units THEN 1 ELSE (left + Units - 1) \div Units
  BY <1>1, <1>3, <1>4 DEF retryAfterSeconds
<1>7. PICK n : n = retryAfterSeconds(at)
  BY Zenon
<1>8. n \in Nat /\ Units * n >= left /\ Units * n <= Window
  <2>1. CASE left <= Units
    <3>1. n = 1
      BY <1>6, <1>7, <2>1, Zenon
    <3>2. Units <= Window
      <4>1. \A x, y \in Nat : x # 0 => y <= x * y
        OBVIOUS
      <4> QED BY <1>2, <4>1, Zenon DEF Window
    <3> QED BY <1>2, <2>1, <3>1, <3>2
  <2>2. CASE ~(left <= Units)
    <3>1. n = (left + Units - 1) \div Units /\ left + Units - 1 \in Nat
      BY <1>2, <1>5, <1>6, <1>7, <2>2
    <3>2. n \in Nat /\ n * Units <= left + Units - 1 /\ left + Units - 1 < n * Units + Units
      BY <1>2, <3>1, DivisionFacts, Zenon
    <3>3. Units * n = n * Units /\ n * Units \in Nat
      BY <1>2, <3>2
    <3>4. n <= WindowSeconds
      <4> SUFFICES ASSUME WindowSeconds + 1 <= n PROVE FALSE
        BY <1>2, <3>2
      <4>1. (WindowSeconds + 1) * Units <= n * Units
        BY <1>2, <3>2
      <4>2. (WindowSeconds + 1) * Units = Window + Units
        BY <1>2, Distributes DEF Window
      <4> QED BY <1>1, <1>2, <1>5, <3>2, <3>3, <4>1, <4>2
    <3>5. n * Units <= WindowSeconds * Units
      BY <1>2, <3>2, <3>4
    <3> QED BY <1>2, <1>5, <3>2, <3>3, <3>5 DEF Window
  <2> QED BY <2>1, <2>2, Zenon
<1>9. PICK back : back = at + Units * n
  BY Zenon
<1>10. back \in Nat /\ start + Window <= back /\ back - at <= Window
  <2>1. PICK m : m = Units * n
    BY Zenon
  <2>2. m \in Nat /\ m >= left /\ m <= Window
    BY <1>2, <1>8, <2>1
  <2> QED BY <1>1, <1>4, <1>5, <1>9, <2>1, <2>2
<1>11. windowBucket(back) > windowBucket(at)
  BY <1>3, <1>10, LaterBucket, Zenon
<1> QED BY <1>7, <1>9, <1>10, <1>11, Zenon

------------------------------------------------------------------------------
LimiterTypeOK ==
  /\ now \in 0 .. LastUnit
  /\ counter \in [Keys -> [Buckets -> [count : Nat, expires : Nat]]]
  /\ passed \in [Keys -> [Buckets -> Nat]]
  /\ call \in [Callers -> [pc : {"idle", "hit"}, key : Keys, at : 0 .. LastUnit]]
  /\ \A c \in Callers : call[c].at <= now

(* A counter that no failure blinded has counted what it let through, and  *)
(* its key outlives its window.                                            *)
Honest ==
  \A k \in Keys, b \in Buckets : <<k, b>> \notin blind =>
    /\ passed[k][b] <= counter[k][b].count /\ passed[k][b] <= Limit[k]
    /\ counter[k][b].count # 0 => b * Units + Window <= counter[k][b].expires

(* What the global counter counts, with those on their way to it, passed   *)
(* the counter of an address.                                              *)
Counted  == [b \in Buckets |-> counter[Global][b].count]
Admitted == [k \in Addresses |-> SumFunction(passed[k])]
Onward   == {c \in Callers : call[c].pc = "hit" /\ call[c].key = Global}
Screened == SumFunction(Counted) + Cardinality(Onward) <= SumFunction(Admitted)

Waits ==
  retryAt # <<>> => /\ windowBucket(retryAt[2]) > windowBucket(retryAt[1])
                    /\ retryAt[2] - retryAt[1] <= Window

LimiterInv == LimiterTypeOK /\ Honest /\ Screened /\ Waits

LEMMA BucketsAreFinite == IsFiniteSet(Buckets)
<1>1. IsFiniteSet(0 .. LastUnit)
  BY RateLimitAssumption, FS_Interval
<1> QED BY <1>1, FS_Subset, Zenon DEF Buckets

LEMMA KeysFacts ==
  /\ Global \in Keys /\ Addresses \subseteq Keys /\ Global \notin Addresses
  /\ \A k \in Keys : Limit[k] \in Nat
BY RateLimitAssumption, Zenon DEF Keys

LEMMA LimiterStarts == RateLimitInit => LimiterInv
<1> SUFFICES ASSUME RateLimitInit PROVE LimiterInv
  BY Zenon
<1> USE DEF RateLimitInit
<1>1. LimiterTypeOK
  BY RateLimitAssumption, KeysFacts DEF LimiterTypeOK, Resting
<1>2. Honest
  BY KeysFacts DEF Honest
<1>3. Screened
  <2>1. SumFunction(Counted) = 0
    <3>1. DOMAIN Counted = Buckets /\ \A b \in Buckets : Counted[b] = 0
      BY KeysFacts, Zenon DEF Counted
    <3> QED BY <3>1, SumOfZeros, BucketsAreFinite, Zenon
  <2>2. \A k \in Addresses : SumFunction(passed[k]) = 0
    <3> TAKE k \in Addresses
    <3>1. DOMAIN passed[k] = Buckets /\ \A b \in Buckets : passed[k][b] = 0
      BY KeysFacts, Zenon
    <3> QED BY <3>1, SumOfZeros, BucketsAreFinite, Zenon
  <2>3. SumFunction(Admitted) = 0
    <3>1. DOMAIN Admitted = Addresses /\ \A k \in Addresses : Admitted[k] = 0
      BY <2>2, Zenon DEF Admitted
    <3> QED BY <3>1, SumOfZeros, RateLimitAssumption, Zenon
  <2>4. Onward = {}
    BY Zenon DEF Onward, Resting
  <2> QED BY <2>1, <2>3, <2>4, FS_EmptySet DEF Screened
<1> QED BY <1>1, <1>2, <1>3, Zenon DEF LimiterInv, Waits

(* A request is through with the counter k, b: it is counted once at most, *)
(* and refused, or let through and, by an address, passed on.              *)
Onwards == [pc |-> "hit", key |-> Global, at |-> now]

GoesOn(c) == call' = [call EXCEPT ![c] = Resting] \/ call' = [call EXCEPT ![c] = Onwards]

LetThrough(c, k, b) ==
  \/ passed' = passed /\ call'[c].pc = "idle"
  \/ passed' = [passed EXCEPT ![k][b] = @ + 1] /\ (call'[c].pc = "hit" <=> k \in Addresses)

CountedOnce(k, b) ==
  \/ counter' = counter
  \/ \E n \in 0 .. counter[k][b].count + 1 : counter' = [counter EXCEPT ![k][b] = [count |-> n, expires |-> now + Window]]

Through(c, k, b) ==
  /\ call[c].pc = "hit" /\ call[c].key = k
  /\ GoesOn(c) /\ LetThrough(c, k, b) /\ CountedOnce(k, b)
  /\ UNCHANGED now

LEMMA ThroughTypeOK ==
  ASSUME LimiterTypeOK, NEW c \in Callers, NEW k \in Keys, NEW b \in Buckets, Through(c, k, b)
  PROVE  /\ LimiterTypeOK'
         /\ \A o \in Keys, d \in Buckets : o # k \/ d # b => counter'[o][d] = counter[o][d] /\ passed'[o][d] = passed[o][d]
         /\ \A o \in Keys : o # k => passed'[o] = passed[o]
         /\ counter'[k][b].count <= counter[k][b].count + 1
<1>1. now \in Nat /\ now <= LastUnit /\ Window \in Nat /\ LastUnit \in Nat /\ now + Window \in Nat
  BY WindowFacts, RateLimitAssumption DEF LimiterTypeOK
<1>2. counter[k][b].count \in Nat /\ passed[k][b] \in Nat
  BY Zenon DEF LimiterTypeOK
<1> DEFINE Counts == /\ counter' \in [Keys -> [Buckets -> [count : Nat, expires : Nat]]]
                     /\ \A o \in Keys, d \in Buckets : o # k \/ d # b => counter'[o][d] = counter[o][d]
                     /\ counter'[k][b].count <= counter[k][b].count + 1
<1>3. Counts
  <2>1. CASE counter' = counter
    BY <1>2, <2>1 DEF LimiterTypeOK
  <2>2. ASSUME NEW n \in 0 .. counter[k][b].count + 1, counter' = [counter EXCEPT ![k][b] = [count |-> n, expires |-> now + Window]]
        PROVE  Counts
    <3>1. n \in Nat /\ n <= counter[k][b].count + 1
      BY <1>2
    <3> QED BY <1>1, <2>2, <3>1, Zenon DEF LimiterTypeOK
  <2> QED BY <2>1, <2>2, Zenon DEF Through, CountedOnce
<1>4. /\ passed' \in [Keys -> [Buckets -> Nat]]
      /\ \A o \in Keys : o # k => passed'[o] = passed[o]
      /\ \A o \in Keys, d \in Buckets : o # k \/ d # b => passed'[o][d] = passed[o][d]
  <2>1. CASE passed' = passed
    BY <2>1, Zenon DEF LimiterTypeOK
  <2>2. CASE passed' = [passed EXCEPT ![k][b] = @ + 1]
    BY <1>2, <2>2 DEF LimiterTypeOK
  <2> QED BY <2>1, <2>2, Zenon DEF Through, LetThrough
<1>5. /\ call' \in [Callers -> [pc : {"idle", "hit"}, key : Keys, at : 0 .. LastUnit]]
      /\ \A o \in Callers : call'[o].at <= now
  <2>1. CASE call' = [call EXCEPT ![c] = Resting]
    BY <1>1, <2>1, KeysFacts DEF LimiterTypeOK, Resting
  <2>2. CASE call' = [call EXCEPT ![c] = Onwards]
    BY <1>1, <2>2, KeysFacts DEF LimiterTypeOK, Onwards
  <2> QED BY <2>1, <2>2, Zenon DEF Through, GoesOn
<1> QED BY <1>3, <1>4, <1>5, Zenon DEF LimiterTypeOK, Through

(* Such a request keeps the account: the global count rises for one that   *)
(* was on its way, and an address passes on only what it let through.      *)
LEMMA AccountIsKept ==
  ASSUME LimiterTypeOK, Screened, NEW c \in Callers, NEW k \in Keys, NEW b \in Buckets, Through(c, k, b)
  PROVE  Screened'
<1>0. /\ LimiterTypeOK'
      /\ \A o \in Keys, d \in Buckets : o # k \/ d # b => counter'[o][d] = counter[o][d]
      /\ \A o \in Keys : o # k => passed'[o] = passed[o]
      /\ counter'[k][b].count <= counter[k][b].count + 1
  BY ThroughTypeOK
<1>1. /\ Counted \in [Buckets -> Nat] /\ Counted' \in [Buckets -> Nat]
      /\ \A o \in Keys : passed[o] \in [Buckets -> Nat] /\ passed'[o] \in [Buckets -> Nat]
  BY <1>0, KeysFacts DEF LimiterTypeOK, Counted
<1>2. SumFunction(Counted) \in Nat /\ SumFunction(Counted') \in Nat
  BY <1>1, BucketsAreFinite, SumIsNat, Zenon DEF SumFunction
<1>3. /\ Admitted \in [Addresses -> Nat] /\ Admitted' \in [Addresses -> Nat]
  <2>1. \A a \in Addresses : SumFunction(passed[a]) \in Nat /\ SumFunction(passed'[a]) \in Nat
    BY <1>1, KeysFacts, BucketsAreFinite, SumIsNat, Zenon DEF SumFunction
  <2> QED BY <2>1, Zenon DEF Admitted
<1>4. SumFunction(Admitted) \in Nat /\ SumFunction(Admitted') \in Nat
  BY <1>3, RateLimitAssumption, SumIsNat, Zenon DEF SumFunction
<1>5. IsFiniteSet(Onward) /\ Cardinality(Onward) \in Nat
  <2>1. Onward \subseteq Callers
    BY Zenon DEF Onward
  <2> QED BY <2>1, RateLimitAssumption, FS_Subset, FS_CardinalityType, Zenon
<1>6. /\ \A o \in Callers : o # c => call'[o] = call[o]
      /\ call'[c].key = Global
  BY DEF Through, GoesOn, Resting, Onwards, LimiterTypeOK
<1>7. k \notin Addresses => Admitted' = Admitted
  BY <1>0, KeysFacts, Zenon DEF Admitted
<1>8. k # Global => Counted' = Counted
  BY <1>0, KeysFacts, Zenon DEF Counted
<1>9. CASE k = Global
  <2>1. k \notin Addresses
    BY <1>9, KeysFacts, Zenon
  <2>2. Onward' = Onward \ {c} /\ c \in Onward
    BY <1>6, <1>9, <2>1, Zenon DEF Onward, Through, LetThrough
  <2>3. Cardinality(Onward') = Cardinality(Onward) - 1
    BY <1>5, <2>2, FS_RemoveElement, Zenon
  <2>4. /\ \A d \in Buckets : d # b => Counted'[d] = Counted[d]
        /\ Counted'[b] <= Counted[b] + 1
    BY <1>0, <1>9, KeysFacts, Zenon DEF Counted
  <2>5. SumFunction(Counted') - SumFunction(Counted) = Counted'[b] - Counted[b]
    BY <1>1, <2>4, BucketsAreFinite, SumFollows
  <2>6. Counted[b] \in Nat /\ Counted'[b] \in Nat
    BY <1>1, Zenon
  <2> QED BY <1>2, <1>4, <1>5, <1>7, <2>1, <2>3, <2>4, <2>5, <2>6 DEF Screened
<1>10. CASE k \in Addresses /\ call'[c].pc = "hit"
  <2>1. k # Global
    BY <1>10, KeysFacts, Zenon
  <2>2. Onward' = Onward \cup {c} /\ c \notin Onward
    BY <1>6, <1>10, <2>1, Zenon DEF Onward, Through, LetThrough
  <2>3. Cardinality(Onward') = Cardinality(Onward) + 1
    BY <1>5, <2>2, FS_AddElement, Zenon
  <2>4. /\ \A d \in Buckets : d # b => passed'[k][d] = passed[k][d]
        /\ passed'[k][b] = passed[k][b] + 1 /\ passed[k][b] \in Nat
    <3>1. passed' = [passed EXCEPT ![k][b] = @ + 1]
      BY <1>10, Zenon DEF Through, LetThrough
    <3> QED BY <1>1, <3>1 DEF LimiterTypeOK
  <2>5. SumFunction(passed'[k]) - SumFunction(passed[k]) = passed'[k][b] - passed[k][b]
    BY <1>1, <2>4, BucketsAreFinite, SumFollows
  <2>6. Admitted'[k] = Admitted[k] + 1 /\ Admitted[k] \in Nat
    <3>1. Admitted[k] = SumFunction(passed[k]) /\ Admitted'[k] = SumFunction(passed'[k])
      BY <1>10, Zenon DEF Admitted
    <3>2. Admitted[k] \in Nat /\ Admitted'[k] \in Nat
      BY <1>3, <1>10, Zenon
    <3> QED BY <2>4, <2>5, <3>1, <3>2
  <2>7. \A a \in Addresses : a # k => Admitted'[a] = Admitted[a]
    BY <1>0, KeysFacts, Zenon DEF Admitted
  <2>8. SumFunction(Admitted') - SumFunction(Admitted) = Admitted'[k] - Admitted[k]
    BY <1>3, <1>10, <2>7, RateLimitAssumption, SumFollows
  <2> QED BY <1>2, <1>4, <1>5, <1>8, <2>1, <2>3, <2>6, <2>8 DEF Screened
<1>11. CASE k # Global /\ ~(k \in Addresses /\ call'[c].pc = "hit")
  <2>1. Onward' = Onward
    <3>1. call'[c].pc # "hit"
      BY <1>11, Zenon DEF Through, LetThrough
    <3> QED BY <1>6, <1>11, <3>1, Zenon DEF Onward, Through, LetThrough
  <2>2. Admitted' = Admitted
    <3>1. CASE k \in Addresses
      BY <1>11, <3>1, KeysFacts, Zenon DEF Admitted, Through, LetThrough
    <3> QED BY <1>7, <3>1, Zenon
  <2> QED BY <1>8, <1>11, <2>1, <2>2, Zenon DEF Screened
<1> QED BY <1>9, <1>10, <1>11, Zenon

LEMMA LimiterKeeps == LimiterInv /\ [Limiter]_limiter => LimiterInv'
<1> SUFFICES ASSUME LimiterInv, [Limiter]_limiter PROVE LimiterInv'
  BY Zenon
<1> USE DEF LimiterInv
<1>1. CASE UNCHANGED limiter
  BY <1>1, Zenon DEF limiter, LimiterTypeOK, Honest, Screened, Counted, Admitted, Onward, Waits
<1>2. CASE Pass
  <2>1. now' = now + 1 /\ now < LastUnit /\ UNCHANGED <<counter, call, passed, blind, retryAt>>
    BY <1>2, Zenon DEF Pass
  <2>2. LimiterTypeOK'
    BY <2>1, RateLimitAssumption DEF LimiterTypeOK
  <2> QED BY <2>1, <2>2, Zenon DEF Honest, Screened, Counted, Admitted, Onward, Waits
<1>3. ASSUME NEW c \in Callers, NEW k \in Keys, Ask(c, k) PROVE LimiterInv'
  <2>1. /\ call' = [call EXCEPT ![c] = [pc |-> "hit", key |-> k, at |-> now]]
        /\ call[c].pc = "idle" /\ k # Global /\ UNCHANGED <<now, counter, passed, blind, retryAt>>
    BY <1>3, RateLimitAssumption, Zenon DEF Ask
  <2>2. LimiterTypeOK'
    BY <2>1, RateLimitAssumption DEF LimiterTypeOK
  <2>3. Onward' = Onward
    BY <2>1, Zenon DEF Onward, LimiterTypeOK
  <2> QED BY <2>1, <2>2, <2>3, Zenon DEF Honest, Screened, Counted, Admitted, Waits
<1>4. ASSUME NEW c \in Callers, Hit(c) PROVE LimiterInv'
  <2>1. PICK k \in Keys : k = call[c].key
    BY Zenon DEF LimiterTypeOK
  <2>2. PICK at \in 0 .. LastUnit : at = call[c].at
    BY Zenon DEF LimiterTypeOK
  <2>3. PICK b \in Buckets : b = windowBucket(at)
    BY BucketOf, RateLimitAssumption
  <2>4. PICK n : n = IF now < counter[k][b].expires THEN counter[k][b].count + 1 ELSE 1
    BY Zenon
  <2> DEFINE no == denied(k, n)
  <2>6. /\ call[c].pc = "hit"
        /\ counter' = [counter EXCEPT ![k][b] = [count |-> n, expires |-> now + Window]]
        /\ passed' = IF no THEN passed ELSE [passed EXCEPT ![k][b] = @ + 1]
        /\ retryAt' = IF no THEN <<at, at + Units * retryAfterSeconds(at)>> ELSE retryAt
        /\ blind' = IF windowBucket(now) # b THEN blind \cup {<<k, b>>} ELSE blind
        /\ Answered(c, no)
        /\ now' = now
    BY <1>4, <2>1, <2>2, <2>3, <2>4, Zenon DEF Hit
  <2>7. now \in Nat /\ Window \in Nat \ {0} /\ LastUnit \in Nat
    BY WindowFacts, RateLimitAssumption DEF LimiterTypeOK
  <2>8. counter[k][b].count \in Nat /\ n \in Nat /\ n # 0 /\ n <= counter[k][b].count + 1 /\ passed[k][b] \in Nat
    BY <2>4 DEF LimiterTypeOK
  <2>5. Through(c, k, b)
    <3>1. CountedOnce(k, b)
      <4>1. n \in 0 .. counter[k][b].count + 1
        BY <2>8
      <4> QED BY <2>6, <4>1, Zenon DEF CountedOnce
    <3>2. GoesOn(c)
      BY <2>6, Zenon DEF Answered, GoesOn, Onwards
    <3>3. LetThrough(c, k, b)
      <4>1. CASE no
        BY <2>6, <4>1, Zenon DEF Answered, Charged, LimiterTypeOK, Resting, LetThrough
      <4>2. CASE ~no
        BY <2>1, <2>6, <4>2, Zenon DEF Answered, Charged, LimiterTypeOK, Resting, LetThrough
      <4> QED BY <4>1, <4>2, Zenon
    <3> QED BY <2>1, <2>6, <3>1, <3>2, <3>3, Zenon DEF Through
  <2>9. LimiterTypeOK' /\ Screened'
    BY <2>5, ThroughTypeOK, AccountIsKept, Zenon
  <2>10. /\ \A o \in Keys, d \in Buckets : o # k \/ d # b => counter'[o][d] = counter[o][d] /\ passed'[o][d] = passed[o][d]
         /\ counter'[k][b].count = n /\ counter'[k][b].expires = now + Window
         /\ passed'[k][b] = IF no THEN passed[k][b] ELSE passed[k][b] + 1
    BY <2>6, Zenon DEF LimiterTypeOK
  <2>11. Honest'
    <3> SUFFICES ASSUME NEW o \in Keys, NEW d \in Buckets, <<o, d>> \notin blind'
                 PROVE  /\ passed'[o][d] <= counter'[o][d].count /\ passed'[o][d] <= Limit[o]
                        /\ counter'[o][d].count # 0 => d * Units + Window <= counter'[o][d].expires
      BY Zenon DEF Honest
    <3>1. <<o, d>> \notin blind
      BY <2>6, Zenon
    <3>2. CASE o # k \/ d # b
      BY <2>10, <3>1, <3>2, Zenon DEF Honest
    <3>3. CASE o = k /\ d = b
      <4>1. windowBucket(now) = b
        BY <2>6, <3>3, Zenon
      <4>2. b * Units <= now /\ now < b * Units + Window /\ b * Units \in Nat
        BY <2>7, <4>1, WindowFacts, RateLimitAssumption
      <4>3. /\ passed[k][b] <= counter[k][b].count /\ passed[k][b] <= Limit[k]
            /\ counter[k][b].count # 0 => b * Units + Window <= counter[k][b].expires
        BY <3>1, <3>3, Zenon DEF Honest
      <4>4. n = counter[k][b].count + 1
        BY <2>4, <2>7, <2>8, <4>2, <4>3 DEF LimiterTypeOK
      <4>5. ~no => n <= Limit[k]
        BY <2>8, KeysFacts DEF denied
      <4>6. b * Units + Window <= now + Window
        BY <2>7, <4>2
      <4>7. Limit[k] \in Nat
        BY KeysFacts, Zenon
      <4> QED BY <2>8, <2>10, <3>3, <4>3, <4>4, <4>5, <4>6, <4>7
    <3> QED BY <3>2, <3>3, Zenon
  <2>13. Waits'
    <3>1. CASE no
      <4>1. retryAt' = <<at, at + Units * retryAfterSeconds(at)>>
        BY <2>6, <3>1, Zenon
      <4>2. at \in Nat
        BY <2>7
      <4> QED BY <4>1, <4>2, RetryIsPastTheWindow, Zenon DEF Waits
    <3>2. CASE ~no
      BY <2>6, <3>2, Zenon DEF Waits
    <3> QED BY <3>1, <3>2, Zenon
  <2> QED BY <2>9, <2>11, <2>13, Zenon
<1>5. ASSUME NEW c \in Callers, NEW counted \in BOOLEAN, FailOpen(c, counted) PROVE LimiterInv'
  <2>1. PICK k \in Keys : k = call[c].key
    BY Zenon DEF LimiterTypeOK
  <2>2. PICK at \in 0 .. LastUnit : at = call[c].at
    BY Zenon DEF LimiterTypeOK
  <2>3. PICK b \in Buckets : b = windowBucket(at)
    BY BucketOf, RateLimitAssumption
  <2>4. PICK n : n = IF now < counter[k][b].expires THEN counter[k][b].count + 1 ELSE 1
    BY Zenon
  <2>6. /\ call[c].pc = "hit"
        /\ counter' = IF counted THEN [counter EXCEPT ![k][b] = [count |-> n, expires |-> now + Window]] ELSE counter
        /\ passed' = [passed EXCEPT ![k][b] = @ + 1]
        /\ blind' = blind \cup {<<k, b>>}
        /\ Answered(c, FALSE)
        /\ now' = now /\ retryAt' = retryAt
    BY <1>5, <2>1, <2>2, <2>3, <2>4, Zenon DEF FailOpen
  <2>7. now \in Nat /\ Window \in Nat \ {0} /\ LastUnit \in Nat
    BY WindowFacts, RateLimitAssumption DEF LimiterTypeOK
  <2>8. counter[k][b].count \in Nat /\ n \in Nat /\ n <= counter[k][b].count + 1 /\ passed[k][b] \in Nat
    BY <2>4 DEF LimiterTypeOK
  <2>5. Through(c, k, b)
    <3>1. CountedOnce(k, b)
      <4>1. n \in 0 .. counter[k][b].count + 1
        BY <2>8
      <4> QED BY <2>6, <4>1, Zenon DEF CountedOnce
    <3>2. GoesOn(c)
      BY <2>6, Zenon DEF Answered, GoesOn, Onwards
    <3>3. LetThrough(c, k, b)
      BY <2>1, <2>6, Zenon DEF Answered, Charged, LimiterTypeOK, Resting, LetThrough
    <3> QED BY <2>1, <2>6, <3>1, <3>2, <3>3, Zenon DEF Through
  <2>9. LimiterTypeOK' /\ Screened'
    BY <2>5, ThroughTypeOK, AccountIsKept, Zenon
  <2>10. \A o \in Keys, d \in Buckets : o # k \/ d # b => counter'[o][d] = counter[o][d] /\ passed'[o][d] = passed[o][d]
    BY <2>5, ThroughTypeOK, Zenon
  <2>11. Honest'
    BY <2>6, <2>10 DEF Honest
  <2> QED BY <2>6, <2>9, <2>11, Zenon DEF Waits
<1> QED BY <1>1, <1>2, <1>3, <1>4, <1>5, Zenon DEF Limiter

LEMMA LimiterHolds == LimiterInv => CeilingHolds
<1> SUFFICES ASSUME LimiterInv PROVE CeilingHolds
  BY Zenon
<1>1. SumFunction(Counted) \in Nat
  <2>1. DOMAIN Counted = Buckets /\ \A b \in Buckets : Counted[b] \in Nat
    BY KeysFacts, Zenon DEF Counted, LimiterInv, LimiterTypeOK
  <2> QED BY <2>1, BucketsAreFinite, SumIsNat, Zenon DEF SumFunction
<1>2. SumFunction(Admitted) \in Nat
  <2>1. ASSUME NEW k \in Addresses PROVE SumFunction(passed[k]) \in Nat
    <3>1. DOMAIN passed[k] = Buckets /\ \A b \in Buckets : passed[k][b] \in Nat
      BY KeysFacts, Zenon DEF LimiterInv, LimiterTypeOK
    <3> QED BY <3>1, BucketsAreFinite, SumIsNat, Zenon DEF SumFunction
  <2>2. DOMAIN Admitted = Addresses /\ \A k \in Addresses : Admitted[k] \in Nat
    BY <2>1, Zenon DEF Admitted
  <2> QED BY <2>2, RateLimitAssumption, SumIsNat, Zenon DEF SumFunction
<1>3. Cardinality(Onward) \in Nat
  <2>1. IsFiniteSet(Onward)
    BY RateLimitAssumption, FS_Subset, Zenon DEF Onward
  <2> QED BY <2>1, FS_CardinalityType, Zenon
<1>4. SumFunction(Counted) <= SumFunction(Admitted)
  BY <1>1, <1>2, <1>3 DEF LimiterInv, Screened
<1> QED BY <1>4, Zenon DEF CeilingHolds, Counted, Admitted, LimiterInv, Honest, Waits

------------------------------------------------------------------------------
(* The cache.  An entry, and what a load under way will write, differs     *)
(* from its row only where a history variable says so.                     *)
CacheTypeOK ==
  /\ time \in Nat
  /\ row \in [Entries -> Nat]
  /\ DOMAIN cached = Entries
  /\ DOMAIN reader = Readers
  /\ \A r \in Readers : reader[r].pc \in {"idle", "write"}
  /\ \A r \in Readers : reader[r].pc = "write" => reader[r].entry \in Entries

EntriesAreOwned ==
  \A e \in Entries : cached[e] # Absent =>
    /\ cached[e].value # row[e] => e \in raced \cup unbusted
    /\ cached[e].expires \in time + 1 .. time + Ttl

LoadsAreOwned ==
  \A r \in Readers : reader[r].pc = "write" /\ reader[r].value # row[reader[r].entry] => reader[r].entry \in raced

CacheInv == CacheTypeOK /\ EntriesAreOwned /\ LoadsAreOwned

LEMMA CacheStarts == CacheInit => CacheInv
  BY DEF CacheInit, AtRest, CacheInv, CacheTypeOK, EntriesAreOwned, LoadsAreOwned

LEMMA CacheKeeps == CacheInv /\ [Cached]_cache => CacheInv'
<1> SUFFICES ASSUME CacheInv, [Cached]_cache PROVE CacheInv'
  BY Zenon
<1> USE DEF CacheInv
<1>1. CASE UNCHANGED cache
  BY <1>1, Zenon DEF cache, CacheTypeOK, EntriesAreOwned, LoadsAreOwned
<1>2. CASE Expire
  <2>1. /\ time \in Nat /\ time' = time + 1 /\ UNCHANGED <<row, reader, toBust, raced, unbusted>>
        /\ DOMAIN cached' = Entries
    BY <1>2, Zenon DEF Expire, CacheTypeOK
  <2>2. \A e \in Entries : cached'[e] # Absent => cached'[e] = cached[e] /\ ~(cached[e].expires <= time + 1)
    BY <1>2, Zenon DEF Expire
  <2>3. \A n : n \in time + 1 .. time + Ttl /\ ~(n <= time + 1) => n \in time' + 1 .. time' + Ttl
    BY <2>1, CacheAssumption
  <2>4. EntriesAreOwned'
    BY <2>1, <2>2, <2>3, Zenon DEF EntriesAreOwned
  <2> QED BY <2>1, <2>4 DEF CacheTypeOK, LoadsAreOwned
<1>3. ASSUME NEW r \in Readers, NEW e \in Entries, NEW missed, Load(r, e, missed) PROVE CacheInv'
  <2>1. /\ reader' = [reader EXCEPT ![r] = [pc |-> "write", entry |-> e, value |-> row[e]]]
        /\ UNCHANGED <<time, row, cached, toBust, raced, unbusted>>
    BY <1>3, Zenon DEF Load
  <2>2. /\ DOMAIN reader' = Readers
        /\ reader'[r].pc = "write" /\ reader'[r].entry = e /\ reader'[r].value = row[e]
        /\ \A o \in Readers : o # r => reader'[o] = reader[o]
    BY <2>1, Zenon DEF CacheTypeOK
  <2> QED BY <2>1, <2>2, Zenon DEF CacheTypeOK, EntriesAreOwned, LoadsAreOwned
<1>4. ASSUME NEW r \in Readers, NEW ok, WriteBack(r, ok) PROVE CacheInv'
  <2>1. PICK e \in Entries : e = reader[r].entry
    BY <1>4, Zenon DEF WriteBack, CacheTypeOK
  <2>2. /\ reader' = [reader EXCEPT ![r] = AtRest]
        /\ UNCHANGED <<time, row, toBust, raced, unbusted>>
        /\ reader[r].pc = "write"
    BY <1>4, Zenon DEF WriteBack
  <2>3. /\ DOMAIN reader' = Readers
        /\ reader'[r].pc = "idle"
        /\ \A o \in Readers : o # r => reader'[o] = reader[o]
    BY <2>2, Zenon DEF CacheTypeOK, AtRest
  <2>4. LoadsAreOwned'
    BY <2>2, <2>3, Zenon DEF LoadsAreOwned
  <2>5. \/ cached' = cached
        \/ cached' = [cached EXCEPT ![e] = [value |-> reader[r].value, expires |-> time + Ttl]]
    BY <1>4, <2>1, Zenon DEF WriteBack
  <2>6. CacheTypeOK'
    BY <2>2, <2>3, <2>5, Zenon DEF CacheTypeOK
  <2>7. time + Ttl \in time + 1 .. time + Ttl
    BY CacheAssumption DEF CacheTypeOK
  <2>8. ASSUME cached' = [cached EXCEPT ![e] = [value |-> reader[r].value, expires |-> time + Ttl]]
        PROVE  EntriesAreOwned'
    <3>1. /\ cached'[e].value = reader[r].value /\ cached'[e].expires = time + Ttl
          /\ \A o \in Entries : o # e => cached'[o] = cached[o]
      BY <2>8, Zenon DEF CacheTypeOK
    <3>2. reader[r].value # row[e] => e \in raced
      BY <2>1, <2>2, Zenon DEF LoadsAreOwned
    <3> QED BY <2>2, <2>7, <3>1, <3>2, Zenon DEF EntriesAreOwned
  <2>9. EntriesAreOwned'
    BY <2>2, <2>5, <2>8, Zenon DEF EntriesAreOwned
  <2> QED BY <2>4, <2>6, <2>9, Zenon
<1>5. ASSUME NEW e \in Entries, Write(e) PROVE CacheInv'
  <2>1. /\ row' = [row EXCEPT ![e] = @ + 1]
        /\ unbusted' = unbusted \cup {e}
        /\ raced \subseteq raced'
        /\ \A r \in Readers : reader[r].entry = e => e \in raced'
        /\ UNCHANGED <<time, cached, reader, toBust>>
    BY <1>5, Zenon DEF Write
  <2>2. row' \in [Entries -> Nat] /\ \A o \in Entries : o # e => row'[o] = row[o]
    BY <2>1 DEF CacheTypeOK
  <2>3. EntriesAreOwned'
    BY <2>1, <2>2, Zenon DEF EntriesAreOwned
  <2>4. LoadsAreOwned'
    BY <2>1, <2>2, Zenon DEF LoadsAreOwned, CacheTypeOK
  <2> QED BY <2>1, <2>2, <2>3, <2>4, Zenon DEF CacheTypeOK
<1>6. ASSUME NEW e \in Entries, Unlink(e) PROVE CacheInv'
  <2>1. /\ cached' = [cached EXCEPT ![e] = Absent]
        /\ unbusted' = unbusted \ {e}
        /\ UNCHANGED <<time, row, reader, raced>>
    BY <1>6, Zenon DEF Unlink, Unlinked
  <2>2. DOMAIN cached' = Entries /\ cached'[e] = Absent /\ \A o \in Entries : o # e => cached'[o] = cached[o]
    BY <2>1, Zenon DEF CacheTypeOK
  <2> QED BY <2>1, <2>2, Zenon DEF CacheTypeOK, EntriesAreOwned, LoadsAreOwned
<1>7. CASE UNCHANGED <<time, row, cached, reader, raced, unbusted>>
  BY <1>7, Zenon DEF CacheTypeOK, EntriesAreOwned, LoadsAreOwned
<1> QED BY <1>1, <1>2, <1>3, <1>4, <1>5, <1>6, <1>7, Zenon DEF Cached, Bust, BustFails
==============================================================================
