------------------------------ MODULE SeedProofs ------------------------------
(***************************************************************************)
(* The two implementations of the SLA clocks agree, for any plan: the      *)
(* seed's replay of a path and a thread, and the triggers run at the times *)
(* of the plan.                                                            *)
(*                                                                         *)
(* Both are loops, and what a loop has computed after k turns is shown by  *)
(* induction: the least turn at which a claim fails would come after one   *)
(* at which it holds.                                                      *)
(***************************************************************************)
EXTENDS Seed, FiniteSetTheorems, WellFoundedInduction, TLAPS

(* Induction up to n, over the set of the numbers that have the property. *)
LEMMA UpTo ==
  ASSUME NEW n \in Nat, NEW T, 0 \in T, \A k \in 0 .. n - 1 : k \in T => k + 1 \in T
  PROVE  0 .. n \subseteq T
<1> DEFINE R == {k \in 0 .. n : k \notin T}
<1> SUFFICES ASSUME R # {} PROVE FALSE
  BY Zenon
<1>1. R \subseteq Nat
  OBVIOUS
<1>2. PICK k \in R : \A m \in R : ~(<<m, k>> \in OpToRel(<, Nat))
  <2> HIDE DEF R
  <2> QED BY <1>1, NatLessThanWellFounded, WFMin, Zenon
<1>3. k \in 0 .. n /\ k \notin T
  BY Zenon
<1>4. k - 1 \in 0 .. n - 1 /\ k - 1 < k /\ k - 1 + 1 = k /\ k - 1 \in Nat /\ k \in Nat /\ k - 1 \in 0 .. n
  BY <1>3
<1>5. k - 1 \in T
  <2>1. k - 1 \notin R
    BY <1>2, <1>4, Zenon DEF OpToRel
  <2> QED BY <1>4, <2>1, Zenon
<1> QED BY <1>3, <1>4, <1>5, Zenon

(* The values of a loop of n turns that starts with v. *)
IsLoop(f, n, v, G) == f = [k \in 0 .. n |-> IF k = 0 THEN v ELSE G[<<k, f[k - 1]>>]]

(* A loop has its values, whatever a turn of it does. *)
LEMMA LoopsRun ==
  ASSUME NEW n \in Nat, NEW v, NEW G
  PROVE  \E f : IsLoop(f, n, v, G)
<1> DEFINE Turn(f, k) == IF k = 0 THEN v ELSE G[<<k, f[k - 1]>>]
           T == {m \in 0 .. n : \E f : f = [k \in 0 .. n |-> f[k]] /\ \A k \in 0 .. m : f[k] = Turn(f, k)}
<1>1. 0 \in T
  <2> DEFINE f == [k \in 0 .. n |-> v]
  <2>1. 0 \in 0 .. n /\ \A k \in 0 .. 0 : k = 0
    OBVIOUS
  <2>2. f = [k \in 0 .. n |-> f[k]] /\ \A k \in 0 .. 0 : f[k] = Turn(f, k)
    BY <2>1, Zenon
  <2> HIDE DEF f, Turn
  <2> QED BY <2>1, <2>2, Zenon
<1>2. ASSUME NEW m \in 0 .. n - 1, m \in T PROVE m + 1 \in T
  <2>1. PICK f : f = [k \in 0 .. n |-> f[k]] /\ \A k \in 0 .. m : f[k] = Turn(f, k)
    BY <1>2, Zenon
  <2> DEFINE g == [k \in 0 .. n |-> Turn(f, k)]
  <2>2. g = [k \in 0 .. n |-> g[k]]
    BY Zenon
  <2>3. ASSUME NEW k \in 0 .. m + 1 PROVE g[k] = Turn(g, k)
    <3>1. k \in 0 .. n /\ (k # 0 => k - 1 \in 0 .. m /\ k - 1 \in 0 .. n)
      OBVIOUS
    <3>2. k # 0 => g[k - 1] = f[k - 1]
      BY <2>1, <3>1, Zenon
    <3>3. g[k] = Turn(f, k)
      BY <3>1, Zenon
    <3> HIDE DEF g
    <3> QED BY <3>2, <3>3, Zenon
  <2>4. m + 1 \in 0 .. n
    OBVIOUS
  <2> HIDE DEF g, Turn
  <2> QED BY <2>2, <2>3, <2>4, Zenon
<1>3. n \in T
  <2>1. 0 .. n \subseteq T
    <3> HIDE DEF T
    <3> QED BY <1>1, <1>2, UpTo, Zenon
  <2> QED BY <2>1
<1>4. PICK f : f = [k \in 0 .. n |-> f[k]] /\ \A k \in 0 .. n : f[k] = Turn(f, k)
  BY <1>3, Zenon
<1>5. f = [k \in 0 .. n |-> Turn(f, k)]
  BY <1>4, Zenon
<1> QED BY <1>5, Zenon DEF IsLoop

(* ... and they stay in a set no turn leaves. *)
LEMMA LoopsStay ==
  ASSUME NEW n \in Nat, NEW V, NEW f, f[0] \in V, \A k \in 1 .. n : f[k - 1] \in V => f[k] \in V
  PROVE  \A k \in 0 .. n : f[k] \in V
<1> DEFINE T == {k \in 0 .. n : f[k] \in V}
<1>1. 0 \in T
  <2>1. 0 \in 0 .. n
    OBVIOUS
  <2> QED BY <2>1, Zenon
<1>2. ASSUME NEW k \in 0 .. n - 1, k \in T PROVE k + 1 \in T
  <2>1. PICK j : j = k + 1
    BY Zenon
  <2>2. j \in 1 .. n /\ j \in 0 .. n /\ j - 1 = k
    BY <2>1
  <2> QED BY <1>2, <2>1, <2>2, Zenon
<1>3. 0 .. n \subseteq T
  <2> HIDE DEF T
  <2> QED BY <1>1, <1>2, UpTo, Zenon
<1> QED BY <1>3, Zenon

LEMMA Times ==
  Now \in Nat /\ Now \in Int /\ \A x \in 0 .. Now : x \in Nat /\ x \in Int /\ x # None
BY SlaAssumption, SeedAssumption

LEMMA Ranges ==
  ASSUME NEW n \in Nat
  PROVE  /\ 0 \in 0 .. n /\ n \in 0 .. n /\ n + 1 \in 0 .. n + 1 /\ n \in 0 .. n + 1
         /\ \A k \in 1 .. n : k \in 0 .. n /\ k # 0 /\ k - 1 \in 0 .. n /\ ~(k > n)
         /\ \A k \in 0 .. n : k \in 0 .. n + 1 /\ (k # 0 => k \in 1 .. n /\ k - 1 \in 0 .. n)
OBVIOUS

------------------------------------------------------------------------------
(* The k-th move of a plan leads from the k-th segment to the next. *)
StateAt(p, k) == IF k = 0 THEN "open" ELSE p.path[k].to
Bound(p, k)   == IF k = 0 THEN 0 ELSE IF k > Len(p.path) THEN Now ELSE p.path[k].at

Clocks == [pausedMs : Int, pauseStartedAt : Int \cup {None}, activeMs : Int, breachedAt : Int \cup {None}]
AtStart == [pausedMs |-> 0, pauseStartedAt |-> None, activeMs |-> 0, breachedAt |-> None]

LEMMA Members ==
  ASSUME NEW S, NEW s \in Seq(S)
  PROVE  Len(s) \in Nat /\ DOMAIN s = 1 .. Len(s) /\ \A k \in 1 .. Len(s) : s[k] \in S
OBVIOUS

LEMMA PlanFacts ==
  ASSUME NEW p \in Plans
  PROVE  /\ Len(p.path) \in Nat /\ DOMAIN p.path = 1 .. Len(p.path)
         /\ \A k \in 1 .. Len(p.path) : p.path[k].to \in States /\ p.path[k].at \in 0 .. Now
         /\ \A j, k \in 1 .. Len(p.path) : j <= k => p.path[j].at <= p.path[k].at
         /\ Len(p.thread) \in Nat /\ DOMAIN p.thread = 1 .. Len(p.thread)
         /\ \A k \in 1 .. Len(p.thread) : p.thread[k].at \in 0 .. Now
         /\ p.priority \in Priorities /\ Resolution[p.priority] \in Nat /\ FirstResponse[p.priority] \in Nat
<1>1. /\ Now \in Nat
      /\ p.path \in Seq([to : States, at : 0 .. Now])
      /\ \A j, k \in DOMAIN p.path : j <= k => p.path[j].at <= p.path[k].at
      /\ p.thread \in Seq([by : {"contact", "agent", "ai"}, internal : BOOLEAN, at : 0 .. Now])
      /\ p.priority \in Priorities
  BY SeedAssumption, Zenon
<1>2. /\ Len(p.path) \in Nat /\ DOMAIN p.path = 1 .. Len(p.path)
      /\ \A k \in 1 .. Len(p.path) : p.path[k] \in [to : States, at : 0 .. Now]
  BY <1>1, Members, Zenon
<1>3. /\ Len(p.thread) \in Nat /\ DOMAIN p.thread = 1 .. Len(p.thread)
      /\ \A k \in 1 .. Len(p.thread) : p.thread[k].at \in 0 .. Now
  <2>1. /\ Len(p.thread) \in Nat /\ DOMAIN p.thread = 1 .. Len(p.thread)
        /\ \A k \in 1 .. Len(p.thread) :
             p.thread[k] \in [by : {"contact", "agent", "ai"}, internal : BOOLEAN, at : 0 .. Now]
    BY <1>1, Members, Zenon
  <2> QED BY <2>1, Zenon
<1>4. Resolution[p.priority] \in Nat /\ FirstResponse[p.priority] \in Nat
  BY <1>1, SlaAssumption, Zenon
<1>5. \A k \in 1 .. Len(p.path) : p.path[k].to \in States /\ p.path[k].at \in 0 .. Now
  BY <1>2, Zenon
<1> QED BY <1>1, <1>2, <1>3, <1>4, <1>5, Zenon

LEMMA Segments ==
  ASSUME NEW p \in Plans
  PROVE  /\ \A k \in 0 .. Len(p.path) + 1 : Bound(p, k) \in 0 .. Now
         /\ \A j, k \in 0 .. Len(p.path) + 1 : j <= k => Bound(p, j) <= Bound(p, k)
         /\ \A k \in 0 .. Len(p.path) : StateAt(p, k) \in States
         /\ \A k \in 1 .. Len(p.path) + 1 :
              timeline(p.path)[k] = [state |-> StateAt(p, k - 1), from |-> Bound(p, k - 1),
                                     until |-> Bound(p, k), open |-> k > Len(p.path)]
<1>0. Now \in Nat /\ "open" \in States
  BY SeedAssumption, Zenon DEF States, Active
<1>1. PICK n \in Nat : n = Len(p.path)
  BY PlanFacts, Zenon
<1>2. /\ \A k \in 1 .. n : p.path[k].to \in States /\ p.path[k].at \in 0 .. Now
      /\ \A j, k \in 1 .. n : j <= k => p.path[j].at <= p.path[k].at
  BY <1>1, PlanFacts, Zenon
<1>3. \A k \in 0 .. n + 1 : Bound(p, k) \in 0 .. Now
  BY <1>0, <1>1, <1>2 DEF Bound
<1>4. ASSUME NEW j \in 0 .. n + 1, NEW k \in 0 .. n + 1, j <= k PROVE Bound(p, j) <= Bound(p, k)
  <2>1. CASE j = 0 \/ k = n + 1
    BY <1>0, <1>1, <1>3, <2>1 DEF Bound
  <2>2. CASE j # 0 /\ k # n + 1
    <3>1. j \in 1 .. n /\ k \in 1 .. n /\ ~(j > n) /\ ~(k > n) /\ k # 0
      BY <1>4, <2>2
    <3> QED BY <1>1, <1>2, <1>4, <2>2, <3>1, Zenon DEF Bound
  <2> QED BY <2>1, <2>2, Zenon
<1>5. \A k \in 0 .. n : StateAt(p, k) \in States
  BY <1>0, <1>2 DEF StateAt
<1>6. ASSUME NEW k \in 1 .. n + 1
      PROVE  timeline(p.path)[k] = [state |-> StateAt(p, k - 1), from |-> Bound(p, k - 1),
                                    until |-> Bound(p, k), open |-> k > n]
  <2>1. timeline(p.path)[k] = [state |-> IF k = 1 THEN "open" ELSE p.path[k - 1].to,
                               from  |-> IF k = 1 THEN 0 ELSE p.path[k - 1].at,
                               until |-> IF k > n THEN Now ELSE p.path[k].at,
                               open  |-> k > n]
    BY <1>1, Zenon DEF timeline
  <2>2. PICK j \in 0 .. n : j = k - 1
    OBVIOUS
  <2>3. k # 0 /\ (k = 1 <=> j = 0) /\ ~(j > n)
    BY <2>2
  <2> QED BY <1>1, <2>1, <2>2, <2>3, Zenon DEF StateAt, Bound
<1> QED BY <1>1, <1>3, <1>4, <1>5, <1>6, Zenon

(* The loop of replay. *)
LEMMA WalkRuns ==
  ASSUME NEW p \in Plans
  PROVE  /\ walk(p)[0] = AtStart
         /\ \A k \in 0 .. Len(p.path) + 1 : walk(p)[k] \in Clocks
         /\ \A k \in 1 .. Len(p.path) + 1 :
              walk(p)[k] = Walked(walk(p)[k - 1], timeline(p.path)[k], Resolution[p.priority])
<1>1. PICK n \in Nat : n = Len(p.path) + 1
  BY PlanFacts
<1> DEFINE Turn(k, x) == Walked(x, timeline(p.path)[k], Resolution[p.priority])
           G == [y \in (1 .. n) \X Clocks |-> Turn(y[1], y[2])]
<1>2. AtStart \in Clocks
  BY DEF AtStart, Clocks
<1>3. ASSUME NEW k \in 1 .. n, NEW x \in Clocks PROVE Turn(k, x) \in Clocks
  <2>1. timeline(p.path)[k].from \in Int /\ timeline(p.path)[k].until \in Int
    <3>1. k - 1 \in 0 .. n /\ k \in 0 .. n /\ n = Len(p.path) + 1 /\ k \in 1 .. Len(p.path) + 1
      BY <1>1
    <3>2. Bound(p, k - 1) \in Int /\ Bound(p, k) \in Int
      BY <1>1, <3>1, Segments, Times, Zenon
    <3>3. timeline(p.path)[k] = [state |-> StateAt(p, k - 1), from |-> Bound(p, k - 1),
                                 until |-> Bound(p, k), open |-> k > Len(p.path)]
      BY <3>1, Segments, Zenon
    <3> QED BY <3>2, <3>3
  <2>2. PICK target \in Int : target = Resolution[p.priority]
    BY PlanFacts
  <2>3. PICK g : g = timeline(p.path)[k]
    BY Zenon
  <2>4. /\ g.from \in Int /\ g.until - g.from \in Int /\ x.pausedMs + (g.until - g.from) \in Int
        /\ x.activeMs + (g.until - g.from) \in Int /\ g.from + (target - x.activeMs) \in Int
    BY <2>1, <2>3 DEF Clocks
  <2>5. /\ [x EXCEPT !.pauseStartedAt = g.from] \in Clocks
        /\ [x EXCEPT !.pausedMs = @ + (g.until - g.from)] \in Clocks
    BY <2>4, Zenon DEF Clocks
  <2>6. \A b \in Int \cup {None} : [x EXCEPT !.activeMs = @ + (g.until - g.from), !.breachedAt = b] \in Clocks
    BY <2>4, Zenon DEF Clocks
  <2>7. x.breachedAt \in Int \cup {None} /\ g.from + (target - x.activeMs) \in Int \cup {None}
    BY <2>4, Zenon DEF Clocks
  <2>8. Walked(x, g, target) \in Clocks
    BY <2>5, <2>6, <2>7, Zenon DEF Walked
  <2> QED BY <2>2, <2>3, <2>8, Zenon
<1>4. \A k \in 1 .. n : \A x \in Clocks : G[<<k, x>>] = Turn(k, x)
  BY Zenon
<1>5. \A k \in 1 .. n : \A x \in Clocks : G[<<k, x>>] \in Clocks
  <2> HIDE DEF Turn, G
  <2> QED BY <1>3, <1>4, Zenon
<1> HIDE DEF G, Turn
<1>6. PICK f : IsLoop(f, n, AtStart, G)
  BY LoopsRun, Zenon
<1>7. 0 \in 0 .. n /\ \A k \in 1 .. n : k \in 0 .. n /\ k # 0 /\ k - 1 \in 0 .. n
  BY Ranges, Zenon
<1>8. \A k \in 0 .. n : f[k] \in Clocks
  <2>1. f[0] = AtStart /\ \A k \in 1 .. n : f[k] = G[<<k, f[k - 1]>>]
    BY <1>6, <1>7, Zenon DEF IsLoop
  <2> QED BY <1>2, <1>5, <2>1, LoopsStay, Zenon
<1>10. f = [k \in 0 .. n |-> IF k = 0 THEN AtStart ELSE Turn(k, f[k - 1])]
  <2>1. \A k \in 0 .. n : k # 0 => k \in 1 .. n /\ k - 1 \in 0 .. n
    BY Ranges, Zenon
  <2> DEFINE e == [k \in 0 .. n |-> IF k = 0 THEN AtStart ELSE Turn(k, f[k - 1])]
             d == [k \in 0 .. n |-> IF k = 0 THEN AtStart ELSE G[<<k, f[k - 1]>>]]
  <2>2. ASSUME NEW k \in 0 .. n PROVE (IF k = 0 THEN AtStart ELSE Turn(k, f[k - 1])) = (IF k = 0 THEN AtStart ELSE G[<<k, f[k - 1]>>])
    BY <1>4, <1>8, <2>1, Zenon
  <2>3. d = e
    BY <2>2, Zenon
  <2> QED BY <1>6, <2>3, Zenon DEF IsLoop
<1>11. walk(p) = [k \in 0 .. n |-> IF k = 0 THEN AtStart ELSE Turn(k, walk(p)[k - 1])]
  BY <1>1, <1>10, Zenon DEF walk, Turn, AtStart
<1>12. walk(p)[0] = AtStart /\ \A k \in 1 .. n : walk(p)[k] = Turn(k, walk(p)[k - 1])
  BY <1>7, <1>11, Zenon
<1>13. \A k \in 0 .. n : walk(p)[k] \in Clocks
  BY <1>2, <1>3, <1>12, LoopsStay, Zenon
<1> QED BY <1>1, <1>12, <1>13, Zenon DEF Turn
------------------------------------------------------------------------------
(* The thread in the order it is written. *)
Before(when, j, k) == when[j] < when[k] \/ (when[j] = when[k] /\ j < k)
Earlier(when, D, k) == {j \in D : Before(when, j, k)}
Place(when, D, k)  == Cardinality(Earlier(when, D, k)) + 1

LEMMA BeforeIsAnOrder ==
  ASSUME NEW n \in Nat, NEW when \in [1 .. n -> Int], NEW i \in 1 .. n, NEW j \in 1 .. n, NEW k \in 1 .. n
  PROVE  /\ ~Before(when, i, i)
         /\ Before(when, i, j) /\ Before(when, j, k) => Before(when, i, k)
         /\ i # j => Before(when, i, j) \/ Before(when, j, i)
         /\ Before(when, i, j) => when[i] <= when[j]
<1>1. when[i] \in Int /\ when[j] \in Int /\ when[k] \in Int
  BY Zenon
<1> QED BY <1>1 DEF Before

LEMMA PlacesAreTaken ==
  ASSUME NEW n \in Nat, NEW when \in [1 .. n -> Int]
  PROVE  /\ \A k \in 1 .. n : Place(when, 1 .. n, k) \in 1 .. n
         /\ \A j, k \in 1 .. n : Before(when, j, k) => Place(when, 1 .. n, j) < Place(when, 1 .. n, k)
         /\ \A m \in 1 .. n : \E k \in 1 .. n : Place(when, 1 .. n, k) = m
<1> DEFINE D == 1 .. n
           E(k) == Earlier(when, D, k)
           P(k) == Place(when, D, k)
<1>1. IsFiniteSet(D) /\ Cardinality(D) = n
  <2>1. 1 \in Int /\ n \in Int
    OBVIOUS
  <2>2. IsFiniteSet(1 .. n) /\ Cardinality(1 .. n) = IF 1 > n THEN 0 ELSE n - 1 + 1
    BY <2>1, FS_Interval, Zenon
  <2> QED BY <2>2
<1> HIDE DEF D
<1>2. ASSUME NEW k \in D
      PROVE  /\ E(k) \subseteq D \ {k} /\ IsFiniteSet(E(k))
             /\ Cardinality(E(k)) \in Nat /\ Cardinality(E(k)) <= n - 1
  <2>1. E(k) \subseteq D \ {k}
    BY BeforeIsAnOrder, Zenon DEF D, Earlier
  <2>2. IsFiniteSet(D \ {k}) /\ Cardinality(D \ {k}) = n - 1
    BY <1>1, FS_RemoveElement, Zenon
  <2>3. IsFiniteSet(E(k)) /\ Cardinality(E(k)) <= Cardinality(D \ {k})
    BY <2>1, <2>2, FS_Subset, Zenon
  <2> QED BY <2>1, <2>2, <2>3, FS_CardinalityType, Zenon
<1>3. \A k \in D : P(k) \in 1 .. n
  <2> TAKE k \in D
  <2>1. PICK c \in Nat : c = Cardinality(E(k)) /\ c <= n - 1
    BY <1>2, Zenon
  <2>2. c + 1 \in 1 .. n
    BY <2>1
  <2> QED BY <2>1, <2>2, Zenon DEF Place
<1>4. ASSUME NEW j \in D, NEW k \in D, Before(when, j, k) PROVE P(j) < P(k)
  <2>1. E(j) \cup {j} \subseteq E(k)
    BY <1>4, BeforeIsAnOrder, Zenon DEF D, Earlier
  <2>2. j \notin E(j)
    BY <1>2, Zenon
  <2>3. Cardinality(E(j) \cup {j}) = Cardinality(E(j)) + 1
    BY <1>2, <2>2, FS_AddElement, Zenon
  <2>4. Cardinality(E(j) \cup {j}) <= Cardinality(E(k))
    BY <1>2, <2>1, FS_Subset, Zenon
  <2>5. PICK a \in Nat, b \in Nat : a = Cardinality(E(j)) /\ b = Cardinality(E(k))
    BY <1>2, Zenon
  <2>6. a + 1 < b + 1
    BY <2>3, <2>4, <2>5
  <2> QED BY <2>5, <2>6, Zenon DEF Place
<1>5. \A m \in 1 .. n : \E k \in D : P(k) = m
  <2> DEFINE f == [k \in D |-> P(k)]
  <2>1. \A j, k \in D : P(j) = P(k) => j = k
    <3> TAKE j, k \in D
    <3>1. P(j) \in Int /\ P(k) \in Int
      BY <1>3
    <3>2. Before(when, j, k) \/ Before(when, k, j) \/ j = k
      BY BeforeIsAnOrder, Zenon DEF D
    <3>3. P(j) = P(k) => ~(P(j) < P(k)) /\ ~(P(k) < P(j))
      BY <3>1
    <3> QED BY <1>4, <3>2, <3>3, Zenon
  <2>2. f \in Injection(D, 1 .. n)
    BY <1>3, <2>1, Zenon DEF Injection, IsInjective
  <2>3. f \in Surjection(D, 1 .. n)
    <3>1. IsFiniteSet(1 .. n) /\ Cardinality(1 .. n) = n
      BY <1>1, Zenon DEF D
    <3> HIDE DEF f
    <3> QED BY <1>1, <2>2, <3>1, FS_Injection, Zenon
  <2> QED BY <2>3, Zenon DEF Surjection
<1> QED BY <1>3, <1>4, <1>5, Zenon DEF D

(* s is the thread in that order. *)
InOrder(s, thread, n) ==
  /\ \A m \in 1 .. n : \E k \in 1 .. n : s[m] = thread[k]
  /\ \A k \in 1 .. n : \E m \in 1 .. n : s[m] = thread[k]
  /\ \A l, m \in 1 .. n : l < m => s[l].at <= s[m].at

LEMMA Sorted ==
  ASSUME NEW p \in Plans
  PROVE  InOrder(chronological(p.thread), p.thread, Len(p.thread))
<1>0. PICK s, n : s = chronological(p.thread) /\ n = Len(p.thread)
  BY Zenon
<1>1. n \in Nat /\ DOMAIN p.thread = 1 .. n /\ \A k \in 1 .. n : p.thread[k].at \in Int
  BY <1>0, PlanFacts, Times, Zenon
<1>2. PICK when \in [1 .. n -> Int] : \A k \in 1 .. n : when[k] = p.thread[k].at
  <2>1. [k \in 1 .. n |-> p.thread[k].at] \in [1 .. n -> Int]
    BY <1>1, Zenon
  <2> QED BY <2>1, Zenon
<1> DEFINE P(k) == Place(when, 1 .. n, k)
           C(m) == CHOOSE k \in 1 .. n : P(k) = m
           E(k) == {j \in DOMAIN p.thread : p.thread[j].at < p.thread[k].at \/ (p.thread[j].at = p.thread[k].at /\ j < k)}
<1>3. \A k \in 1 .. n : E(k) = Earlier(when, 1 .. n, k)
  BY <1>1, <1>2, Zenon DEF Earlier, Before
<1>4. \A m \in 1 .. n : s[m] = p.thread[C(m)]
  <2> TAKE m \in 1 .. n
  <2>1. s = [l \in DOMAIN p.thread |-> p.thread[CHOOSE k \in DOMAIN p.thread : Cardinality(E(k)) + 1 = l]]
    BY <1>0, Zenon DEF chronological
  <2>2. s[m] = p.thread[CHOOSE k \in DOMAIN p.thread : Cardinality(E(k)) + 1 = m]
    BY <1>1, <2>1, Zenon
  <2> HIDE DEF E
  <2>3. (CHOOSE k \in DOMAIN p.thread : Cardinality(E(k)) + 1 = m) = C(m)
    BY <1>1, <1>3, Zenon DEF Place
  <2> QED BY <2>2, <2>3, Zenon
<1>p. /\ \A k \in 1 .. n : P(k) \in 1 .. n
      /\ \A j, k \in 1 .. n : Before(when, j, k) => P(j) < P(k)
      /\ \A m \in 1 .. n : \E k \in 1 .. n : P(k) = m
  BY <1>1, PlacesAreTaken, Zenon
<1>5. \A m \in 1 .. n : C(m) \in 1 .. n /\ P(C(m)) = m
  BY <1>p, Zenon
<1> HIDE DEF C, P
<1>7. ASSUME NEW k \in 1 .. n PROVE \E m \in 1 .. n : s[m] = p.thread[k]
  <2>1. PICK m \in 1 .. n : m = P(k)
    BY <1>p, Zenon
  <2>2. C(m) = k
    <3>1. P(C(m)) = P(k) /\ C(m) \in 1 .. n
      BY <1>5, <2>1, Zenon
    <3>2. P(k) \in Int
      BY <2>1
    <3>3. C(m) = k \/ Before(when, C(m), k) \/ Before(when, k, C(m))
      BY <1>1, <3>1, BeforeIsAnOrder, Zenon
    <3>4. ~(P(k) < P(k))
      BY <3>2
    <3> QED BY <1>p, <3>1, <3>3, <3>4, Zenon
  <2> QED BY <1>4, <2>2, Zenon
<1>8. ASSUME NEW l \in 1 .. n, NEW m \in 1 .. n, l < m PROVE s[l].at <= s[m].at
  <2>1. C(l) \in 1 .. n /\ C(m) \in 1 .. n /\ P(C(l)) = l /\ P(C(m)) = m
    BY <1>5, Zenon
  <2>2. ~(m < l) /\ l # m
    BY <1>1, <1>8
  <2>3. C(l) # C(m)
    BY <2>1, <2>2, Zenon
  <2>4. ASSUME Before(when, C(m), C(l)) PROVE FALSE
    <3>1. P(C(m)) < P(C(l))
      BY <1>p, <2>1, <2>4, Zenon
    <3> QED BY <2>1, <2>2, <3>1, Zenon
  <2>5. when[C(l)] <= when[C(m)]
    BY <1>1, <2>1, <2>3, <2>4, BeforeIsAnOrder, Zenon
  <2> QED BY <1>2, <1>4, <2>1, <2>5, Zenon
<1> QED BY <1>0, <1>4, <1>5, <1>7, <1>8, Zenon DEF InOrder
------------------------------------------------------------------------------
(* The Ticket had it lived through its plan. *)
Lives == [state : States, priority : Priorities, pausedMs : Int, pauseStartedAt : Int \cup {None},
          firstResponseAt : Int \cup {None}, latch : {Newborn.latch}, lastActivityAt : Int]

LEMMA NewbornFacts ==
  /\ Newborn \in Lives
  /\ Newborn.state = "open" /\ Newborn.pausedMs = 0 /\ Newborn.pauseStartedAt = None
  /\ Newborn.firstResponseAt = None /\ Newborn.priority = Normal
  /\ Newborn.latch = [t \in Timers |-> None]
BY SlaAssumption DEF Newborn, Lives, States, Active

(* e is what the row r becomes with an entry, and with a move. *)
Observed(e, r, entry) ==
  /\ e \in Lives
  /\ e.state = r.state /\ e.priority = r.priority
  /\ e.pausedMs = r.pausedMs /\ e.pauseStartedAt = r.pauseStartedAt
  /\ e.firstResponseAt = IF r.firstResponseAt = None /\ Answers(entry) THEN entry.at ELSE r.firstResponseAt

Enforced(e, r, to, t) ==
  /\ e \in Lives
  /\ e.state = to /\ e.priority = r.priority
  /\ e.pausedMs = IF r.pauseStartedAt = None THEN r.pausedMs ELSE r.pausedMs + (t - r.pauseStartedAt)
  /\ e.pauseStartedAt = IF to \in Stopping THEN t ELSE None
  /\ e.firstResponseAt = r.firstResponseAt

LEMMA Observes ==
  ASSUME NEW r \in Lives, NEW entry, entry.at \in Int
  PROVE  Observed(observe(r, entry), r, entry)
<1>1. PICK f \in Int \cup {None} : f = IF r.firstResponseAt = None /\ Answers(entry) THEN entry.at ELSE r.firstResponseAt
  BY Zenon DEF Lives
<1>2. observe(r, entry) = [r EXCEPT !.lastActivityAt = entry.at, !.firstResponseAt = f]
  BY <1>1, Zenon DEF observe
<1>3. [r EXCEPT !.lastActivityAt = entry.at, !.firstResponseAt = f] \in Lives
  BY Zenon DEF Lives
<1>4. LET e == [r EXCEPT !.lastActivityAt = entry.at, !.firstResponseAt = f] IN
        e.state = r.state /\ e.priority = r.priority /\ e.pausedMs = r.pausedMs /\ e.pauseStartedAt = r.pauseStartedAt /\ e.firstResponseAt = f
  BY Zenon DEF Lives
<1> QED BY <1>1, <1>2, <1>3, <1>4, Zenon DEF Observed

LEMMA Enforces ==
  ASSUME NEW r \in Lives, NEW to \in States, NEW t \in Int, r.pauseStartedAt # None => r.pauseStartedAt \in Int
  PROVE  Enforced(enforce(r, to, t), r, to, t)
<1>1. PICK m \in Int : m = IF r.pauseStartedAt = None THEN r.pausedMs ELSE r.pausedMs + (t - r.pauseStartedAt)
  BY DEF Lives
<1>2. PICK s \in Int \cup {None} : s = IF to \in Stopping THEN t ELSE None
  BY Zenon
<1>3. enforce(r, to, t) = [r EXCEPT !.state = to, !.pausedMs = m, !.pauseStartedAt = s, !.lastActivityAt = t]
  BY <1>1, <1>2, Zenon DEF enforce
<1>4. [r EXCEPT !.state = to, !.pausedMs = m, !.pauseStartedAt = s, !.lastActivityAt = t] \in Lives
  BY Zenon DEF Lives
<1>5. LET e == [r EXCEPT !.state = to, !.pausedMs = m, !.pauseStartedAt = s, !.lastActivityAt = t] IN
        e.state = to /\ e.priority = r.priority /\ e.pausedMs = m /\ e.pauseStartedAt = s /\ e.firstResponseAt = r.firstResponseAt
  BY Zenon DEF Lives
<1> QED BY <1>1, <1>2, <1>3, <1>4, <1>5, Zenon DEF Enforced

(* ticket_observe_message, entry by entry. *)
LEMMA HeardRuns ==
  ASSUME NEW p \in Plans
  PROVE  /\ Heard(p)[0] = Newborn
         /\ \A k \in 0 .. Len(p.thread) : Heard(p)[k] \in Lives
         /\ \A k \in 1 .. Len(p.thread) : Heard(p)[k] = observe(Heard(p)[k - 1], chronological(p.thread)[k])
<1>1. PICK n \in Nat : n = Len(p.thread)
  BY PlanFacts, Zenon
<1>2. PICK th : th = chronological(p.thread)
  BY Zenon
<1> DEFINE Turn(k, x) == observe(x, th[k])
           G == [y \in (1 .. n) \X Lives |-> Turn(y[1], y[2])]
<1>3. \A k \in 1 .. n : \A x \in Lives : Turn(k, x) \in Lives
  <2>1. \A k \in 1 .. n : th[k].at \in Int
    <3> TAKE k \in 1 .. n
    <3>1. PICK j \in 1 .. n : th[k] = p.thread[j]
      <4>1. \A m \in 1 .. n : \E j \in 1 .. n : th[m] = p.thread[j]
        BY <1>1, <1>2, Sorted, Zenon DEF InOrder
      <4> QED BY <4>1, Zenon
    <3>2. p.thread[j].at \in Int
      BY <1>1, PlanFacts, Times, Zenon
    <3> QED BY <3>1, <3>2, Zenon
  <2> QED BY <2>1, Observes, Zenon DEF Observed
<1>4. \A k \in 1 .. n : \A x \in Lives : G[<<k, x>>] = Turn(k, x)
  BY Zenon
<1>5. \A k \in 1 .. n : \A x \in Lives : G[<<k, x>>] \in Lives
  <2> HIDE DEF Turn, G
  <2> QED BY <1>3, <1>4, Zenon
<1> HIDE DEF G, Turn
<1>6. PICK f : IsLoop(f, n, Newborn, G)
  BY LoopsRun, Zenon
<1>7. /\ 0 \in 0 .. n /\ \A k \in 1 .. n : k \in 0 .. n /\ k # 0 /\ k - 1 \in 0 .. n
      /\ \A k \in 0 .. n : k # 0 => k \in 1 .. n /\ k - 1 \in 0 .. n
  BY Ranges, Zenon
<1>8. \A k \in 0 .. n : f[k] \in Lives
  <2>1. f[0] = Newborn /\ \A k \in 1 .. n : f[k] = G[<<k, f[k - 1]>>]
    BY <1>6, <1>7, Zenon DEF IsLoop
  <2>2. f[0] \in Lives /\ \A k \in 1 .. n : f[k - 1] \in Lives => f[k] \in Lives
    BY <1>5, <2>1, NewbornFacts, Zenon
  <2> QED BY <2>2, LoopsStay, Zenon
<1>9. f = [k \in 0 .. n |-> IF k = 0 THEN Newborn ELSE Turn(k, f[k - 1])]
  <2>1. \A k \in 0 .. n : (IF k = 0 THEN Newborn ELSE Turn(k, f[k - 1])) = (IF k = 0 THEN Newborn ELSE G[<<k, f[k - 1]>>])
    BY <1>4, <1>7, <1>8, Zenon
  <2>2. [k \in 0 .. n |-> IF k = 0 THEN Newborn ELSE Turn(k, f[k - 1])]
          = [k \in 0 .. n |-> IF k = 0 THEN Newborn ELSE G[<<k, f[k - 1]>>]]
    BY <2>1, Zenon
  <2> QED BY <1>6, <2>2, Zenon DEF IsLoop
<1>10. Heard(p) = [k \in 0 .. n |-> IF k = 0 THEN Newborn ELSE Turn(k, Heard(p)[k - 1])]
  BY <1>1, <1>2, <1>9, Zenon DEF Heard, Turn
<1>11. Heard(p)[0] = Newborn /\ \A k \in 1 .. n : Heard(p)[k] = Turn(k, Heard(p)[k - 1])
  BY <1>7, <1>10, Zenon
<1>12. \A k \in 0 .. n : Heard(p)[k] \in Lives
  <2>1. Heard(p)[0] \in Lives /\ \A k \in 1 .. n : Heard(p)[k - 1] \in Lives => Heard(p)[k] \in Lives
    BY <1>3, <1>11, NewbornFacts, Zenon
  <2> QED BY <2>1, LoopsStay, Zenon
<1> QED BY <1>1, <1>2, <1>11, <1>12, Zenon DEF Turn

(* ticket_enforce_transition, move by move. *)
LEMMA MovedRuns ==
  ASSUME NEW p \in Plans
  PROVE  /\ Moved(p)[0] = Heard(p)[Len(p.thread)]
         /\ \A k \in 0 .. Len(p.path) : Moved(p)[k] \in Lives
         /\ \A k \in 1 .. Len(p.path) : Moved(p)[k] = enforce(Moved(p)[k - 1], p.path[k].to, p.path[k].at)
<1>1. PICK n \in Nat : n = Len(p.path)
  BY PlanFacts, Zenon
<1>2. PICK First \in Lives : First = Heard(p)[Len(p.thread)]
  <2>1. Len(p.thread) \in 0 .. Len(p.thread)
    BY PlanFacts, Ranges, Zenon
  <2> QED BY <2>1, HeardRuns, Zenon
<1> DEFINE Turn(k, x) == enforce(x, p.path[k].to, p.path[k].at)
           G == [y \in (1 .. n) \X Lives |-> Turn(y[1], y[2])]
<1>3. \A k \in 1 .. n : \A x \in Lives : Turn(k, x) \in Lives
  <2>1. \A k \in 1 .. n : p.path[k].to \in States /\ p.path[k].at \in Int
    BY <1>1, PlanFacts, Times, Zenon
  <2>2. \A x \in Lives : x.pauseStartedAt # None => x.pauseStartedAt \in Int
    BY Zenon DEF Lives
  <2> QED BY <2>1, <2>2, Enforces, Zenon DEF Enforced
<1>4. \A k \in 1 .. n : \A x \in Lives : G[<<k, x>>] = Turn(k, x)
  BY Zenon
<1>5. \A k \in 1 .. n : \A x \in Lives : G[<<k, x>>] \in Lives
  <2> HIDE DEF Turn, G
  <2> QED BY <1>3, <1>4, Zenon
<1> HIDE DEF G, Turn
<1>6. PICK f : IsLoop(f, n, First, G)
  BY LoopsRun, Zenon
<1>7. /\ 0 \in 0 .. n /\ \A k \in 1 .. n : k \in 0 .. n /\ k # 0 /\ k - 1 \in 0 .. n
      /\ \A k \in 0 .. n : k # 0 => k \in 1 .. n /\ k - 1 \in 0 .. n
  BY Ranges, Zenon
<1>8. \A k \in 0 .. n : f[k] \in Lives
  <2>1. f[0] = First /\ \A k \in 1 .. n : f[k] = G[<<k, f[k - 1]>>]
    BY <1>6, <1>7, Zenon DEF IsLoop
  <2>2. f[0] \in Lives /\ \A k \in 1 .. n : f[k - 1] \in Lives => f[k] \in Lives
    BY <1>5, <2>1, Zenon
  <2> QED BY <2>2, LoopsStay, Zenon
<1>9. f = [k \in 0 .. n |-> IF k = 0 THEN First ELSE Turn(k, f[k - 1])]
  <2>1. \A k \in 0 .. n : (IF k = 0 THEN First ELSE Turn(k, f[k - 1])) = (IF k = 0 THEN First ELSE G[<<k, f[k - 1]>>])
    BY <1>4, <1>7, <1>8, Zenon
  <2>2. [k \in 0 .. n |-> IF k = 0 THEN First ELSE Turn(k, f[k - 1])]
          = [k \in 0 .. n |-> IF k = 0 THEN First ELSE G[<<k, f[k - 1]>>]]
    BY <2>1, Zenon
  <2> QED BY <1>6, <2>2, Zenon DEF IsLoop
<1>10. Moved(p) = [k \in 0 .. n |-> IF k = 0 THEN First ELSE Turn(k, Moved(p)[k - 1])]
  BY <1>1, <1>2, <1>9, Zenon DEF Moved, Turn
<1>11. Moved(p)[0] = First /\ \A k \in 1 .. n : Moved(p)[k] = Turn(k, Moved(p)[k - 1])
  BY <1>7, <1>10, Zenon
<1>12. \A k \in 0 .. n : Moved(p)[k] \in Lives
  <2>1. Moved(p)[0] \in Lives /\ \A k \in 1 .. n : Moved(p)[k - 1] \in Lives => Moved(p)[k] \in Lives
    BY <1>3, <1>11, Zenon
  <2> QED BY <2>1, LoopsStay, Zenon
<1> QED BY <1>1, <1>2, <1>11, <1>12, Zenon DEF Turn

(* An entry of the thread moves no clock, and the first answer stays. *)
Unmoved == {r \in Lives : r.state = "open" /\ r.pausedMs = 0 /\ r.pauseStartedAt = None}

LEMMA ThreadTimes ==
  ASSUME NEW p \in Plans
  PROVE  \A k \in 1 .. Len(p.thread) : chronological(p.thread)[k].at \in 0 .. Now
BY Sorted, PlanFacts, Zenon DEF InOrder

LEMMA HeardUnmoved ==
  ASSUME NEW p \in Plans
  PROVE  \A k \in 0 .. Len(p.thread) : Heard(p)[k] \in Unmoved
<1>1. PICK n \in Nat : n = Len(p.thread)
  BY PlanFacts, Zenon
<1>2. PICK th : th = chronological(p.thread)
  BY Zenon
<1>3. \A k \in 1 .. n : th[k].at \in Int
  <2>1. \A k \in 1 .. n : th[k].at \in 0 .. Now
    BY <1>1, <1>2, ThreadTimes, Zenon
  <2> QED BY <2>1, Times, Zenon
<1>4. Heard(p)[0] \in Unmoved
  BY HeardRuns, NewbornFacts, Zenon DEF Unmoved
<1>5. ASSUME NEW k \in 1 .. n, Heard(p)[k - 1] \in Unmoved PROVE Heard(p)[k] \in Unmoved
  <2>1. Heard(p)[k] = observe(Heard(p)[k - 1], th[k]) /\ th[k].at \in Int
    BY <1>1, <1>2, <1>3, HeardRuns, Zenon
  <2>2. Observed(Heard(p)[k], Heard(p)[k - 1], th[k])
    BY <1>5, <2>1, Observes, Zenon DEF Unmoved
  <2> QED BY <1>5, <2>2, Zenon DEF Unmoved, Observed
<1> QED BY <1>1, <1>4, <1>5, LoopsStay, Zenon

(* first_response_at after k entries is the time of the earliest answer among them. *)
Earliest(th, k, t) ==
  IF t = None THEN \A j \in 1 .. k : ~Answers(th[j])
  ELSE \E j \in 1 .. k : Answers(th[j]) /\ t = th[j].at /\ \A i \in 1 .. k : Answers(th[i]) => t <= th[i].at

LEMMA FirstAnswerIsKept ==
  ASSUME NEW p \in Plans
  PROVE  \A k \in 0 .. Len(p.thread) : Earliest(chronological(p.thread), k, Heard(p)[k].firstResponseAt)
<1>1. PICK n \in Nat : n = Len(p.thread)
  BY PlanFacts, Zenon
<1>2. PICK th : th = chronological(p.thread)
  BY Zenon
<1>3. \A k \in 1 .. n : th[k].at \in Int /\ th[k].at # None
  <2>1. \A k \in 1 .. n : th[k].at \in 0 .. Now
    BY <1>1, <1>2, ThreadTimes, Zenon
  <2> QED BY <2>1, Times, Zenon
<1>4. \A i, j \in 1 .. n : i < j => th[i].at <= th[j].at
  BY <1>1, <1>2, Sorted, Zenon DEF InOrder
<1> DEFINE F(k) == Heard(p)[k].firstResponseAt
           T == {k \in 0 .. n : Earliest(th, k, F(k))}
<1>5. 0 \in T
  <2>1. F(0) = None
    BY HeardRuns, NewbornFacts, Zenon
  <2>2. 0 \in 0 .. n /\ 1 .. 0 = {}
    OBVIOUS
  <2> HIDE DEF F
  <2> QED BY <2>1, <2>2, Zenon DEF Earliest
<1>6. ASSUME NEW k \in 0 .. n - 1, k \in T PROVE k + 1 \in T
  <2>1. PICK m : m = k + 1
    BY Zenon
  <2>2. m \in 1 .. n /\ m \in 0 .. n /\ k \in 0 .. n /\ m - 1 = k /\ m \in 1 .. m
    BY <2>1
  <2>3. \A j \in 1 .. m : j = m \/ j \in 1 .. k
    BY <2>1
  <2>4. \A j \in 1 .. k : j \in 1 .. m /\ j \in 1 .. n /\ j < m
    BY <2>1
  <2>5. F(m) = IF F(k) = None /\ Answers(th[m]) THEN th[m].at ELSE F(k)
    <3>1. Heard(p)[m] = observe(Heard(p)[k], th[m]) /\ th[m].at \in Int /\ Heard(p)[k] \in Lives
      BY <1>1, <1>2, <1>3, <2>2, HeardRuns, Zenon
    <3>2. Observed(Heard(p)[m], Heard(p)[k], th[m])
      BY <3>1, Observes, Zenon
    <3> QED BY <3>2, Zenon DEF Observed
  <2>6. Earliest(th, k, F(k))
    BY <1>6, Zenon
  <2> HIDE DEF F
  <2>7. CASE F(k) = None /\ Answers(th[m])
    <3>1. \A j \in 1 .. k : ~Answers(th[j])
      BY <2>6, <2>7, Zenon DEF Earliest
    <3>2. th[m].at <= th[m].at /\ th[m].at # None
      BY <1>3, <2>2
    <3>3. F(m) = th[m].at
      BY <2>5, <2>7, Zenon
    <3> QED BY <2>1, <2>2, <2>3, <2>7, <3>1, <3>2, <3>3, Zenon DEF Earliest
  <2>8. CASE F(k) = None /\ ~Answers(th[m])
    <3>1. \A j \in 1 .. k : ~Answers(th[j])
      BY <2>6, <2>8, Zenon DEF Earliest
    <3> QED BY <2>1, <2>2, <2>3, <2>5, <2>8, <3>1, Zenon DEF Earliest
  <2>9. CASE F(k) # None
    <3>1. PICK j \in 1 .. k : Answers(th[j]) /\ F(k) = th[j].at /\ \A i \in 1 .. k : Answers(th[i]) => F(k) <= th[i].at
      BY <2>6, <2>9, Zenon DEF Earliest
    <3>2. F(m) = F(k) /\ j \in 1 .. m /\ F(k) <= th[m].at
      BY <1>4, <2>2, <2>4, <2>5, <2>9, <3>1, Zenon
    <3>3. \A i \in 1 .. m : Answers(th[i]) => F(m) <= th[i].at
      BY <2>3, <3>1, <3>2, Zenon
    <3> QED BY <2>1, <2>2, <2>9, <3>1, <3>2, <3>3, Zenon DEF Earliest
  <2> QED BY <2>7, <2>8, <2>9, Zenon
<1>7. 0 .. n \subseteq T
  <2> HIDE DEF T
  <2> QED BY <1>5, <1>6, UpTo, Zenon
<1> QED BY <1>1, <1>2, <1>7, Zenon

(* replay and the triggers agree on the first response: its breach is     *)
(* dated exactly when the answer came late, or never came and is overdue. *)
LEMMA FirstResponsesAgree ==
  ASSUME NEW p \in Plans, NEW fr, fr = Heard(p)[Len(p.thread)].firstResponseAt,
         NEW b, b = firstResponseBreach(p.thread, FirstResponse[p.priority])
  PROVE  /\ fr = None /\ Now > FirstResponse[p.priority] => b # None
         /\ fr # None /\ b # None => fr > FirstResponse[p.priority]
<1>1. PICK n \in Nat : n = Len(p.thread)
  BY PlanFacts, Zenon
<1>2. PICK th : th = chronological(p.thread)
  BY Zenon
<1>3. InOrder(th, p.thread, n) /\ Earliest(th, n, fr)
  <2>1. n \in 0 .. n
    BY Ranges, Zenon
  <2> QED BY <1>1, <1>2, <2>1, Sorted, FirstAnswerIsKept, Zenon
<1>4. PICK R : R = {p.thread[k].at : k \in {j \in DOMAIN p.thread : Answers(p.thread[j])}}
  BY Zenon
<1>5. PICK target \in Nat : target = FirstResponse[p.priority]
  BY PlanFacts, Zenon
<1>6. target # None
  BY SlaAssumption, Zenon
<1>7. b = IF (IF R = {} THEN Now ELSE Min(R)) > target THEN target ELSE None
  BY <1>4, <1>5, Zenon DEF firstResponseBreach
<1>8. DOMAIN p.thread = 1 .. n
  BY <1>1, PlanFacts, Zenon
<1>9. CASE fr = None
  <2>1. R = {}
    BY <1>3, <1>4, <1>8, <1>9, Zenon DEF InOrder, Earliest
  <2> QED BY <1>5, <1>6, <1>7, <1>9, <2>1, Zenon
<1>10. CASE fr # None
  <2>1. PICK j \in 1 .. n : Answers(th[j]) /\ fr = th[j].at /\ \A i \in 1 .. n : Answers(th[i]) => fr <= th[i].at
    BY <1>3, <1>10, Zenon DEF Earliest
  <2>2. fr \in R
    BY <1>3, <1>4, <1>8, <2>1, Zenon DEF InOrder
  <2>3. ASSUME NEW x \in R PROVE fr <= x
    <3>1. PICK k \in 1 .. n : Answers(p.thread[k]) /\ x = p.thread[k].at
      BY <1>4, <1>8, Zenon
    <3>2. PICK i \in 1 .. n : th[i] = p.thread[k]
      BY <1>3, Zenon DEF InOrder
    <3> QED BY <2>1, <3>1, <3>2, Zenon
  <2>4. R \subseteq Int
    <3>1. \A k \in 1 .. n : p.thread[k].at \in Int
      BY <1>1, PlanFacts, Times, Zenon
    <3> QED BY <1>4, <1>8, <3>1, Zenon
  <2>5. Min(R) = fr
    <3>1. PICK m \in R : m = Min(R) /\ \A y \in R : m <= y
      BY <2>2, <2>3, Zenon DEF Min
    <3>2. m <= fr /\ fr <= m /\ m \in Int /\ fr \in Int
      BY <2>2, <2>3, <2>4, <3>1, Zenon
    <3> QED BY <3>1, <3>2
  <2> QED BY <1>5, <1>7, <1>10, <2>2, <2>5, Zenon
<1> QED BY <1>9, <1>10, Zenon

------------------------------------------------------------------------------
(* The Ticket's clocks after k moves. *)
Halted(p, k) == StateAt(p, k) \in Stopping
Paused(p, k) == Moved(p)[k].pausedMs

LEMMA MovedFacts ==
  ASSUME NEW p \in Plans
  PROVE  /\ Paused(p, 0) = 0
         /\ \A k \in 0 .. Len(p.path) :
              /\ Paused(p, k) \in Int
              /\ Moved(p)[k].state = StateAt(p, k)
              /\ Moved(p)[k].firstResponseAt = Heard(p)[Len(p.thread)].firstResponseAt
              /\ Moved(p)[k].pauseStartedAt = IF Halted(p, k) THEN Bound(p, k) ELSE None
         /\ \A k \in 1 .. Len(p.path) :
              Paused(p, k) = IF Halted(p, k - 1) THEN Paused(p, k - 1) + (Bound(p, k) - Bound(p, k - 1))
                             ELSE Paused(p, k - 1)
<1>1. PICK n \in Nat : n = Len(p.path)
  BY PlanFacts, Zenon
<1>2. PICK fr : fr = Heard(p)[Len(p.thread)].firstResponseAt
  BY Zenon
<1> DEFINE Fine(k) == /\ Moved(p)[k].state = StateAt(p, k)
                      /\ Moved(p)[k].firstResponseAt = fr
                      /\ Moved(p)[k].pauseStartedAt = IF Halted(p, k) THEN Bound(p, k) ELSE None
           T == {k \in 0 .. n : Fine(k)}
<1>3. 0 \in T /\ Paused(p, 0) = 0
  <2>1. Len(p.thread) \in 0 .. Len(p.thread) /\ 0 \in 0 .. n
    BY PlanFacts, Ranges, Zenon
  <2>2. Moved(p)[0] \in Unmoved /\ Moved(p)[0].firstResponseAt = fr
    BY <1>2, <2>1, MovedRuns, HeardUnmoved, Zenon
  <2>3. StateAt(p, 0) = "open" /\ ~Halted(p, 0)
    BY Zenon DEF StateAt, Halted, Stopping
  <2> QED BY <2>1, <2>2, <2>3, Zenon DEF Unmoved, Paused
<1>4. ASSUME NEW k \in 1 .. n, Fine(k - 1)
      PROVE  /\ Fine(k)
             /\ Paused(p, k) = IF Halted(p, k - 1) THEN Paused(p, k - 1) + (Bound(p, k) - Bound(p, k - 1))
                               ELSE Paused(p, k - 1)
  <2>1. PICK j \in 0 .. n : j = k - 1
    OBVIOUS
  <2>2. Moved(p)[k] = enforce(Moved(p)[j], p.path[k].to, p.path[k].at) /\ Moved(p)[j] \in Lives
    BY <1>1, <2>1, MovedRuns, Zenon
  <2>3. p.path[k].to = StateAt(p, k) /\ p.path[k].at = Bound(p, k) /\ StateAt(p, k) \in States /\ Bound(p, k) \in Int
    <3>1. k # 0 /\ ~(k > n) /\ k \in 0 .. n
      BY Ranges, Zenon
    <3>2. p.path[k].at \in Int
      BY <1>1, PlanFacts, Times, Zenon
    <3> QED BY <1>1, <3>1, <3>2, Segments, Zenon DEF StateAt, Bound
  <2>4. Moved(p)[j].pauseStartedAt # None => Moved(p)[j].pauseStartedAt \in Int
    BY <2>2, Zenon DEF Lives
  <2>5. Enforced(Moved(p)[k], Moved(p)[j], StateAt(p, k), Bound(p, k))
    BY <2>2, <2>3, <2>4, Enforces, Zenon
  <2>6. Fine(j)
    BY <1>4, <2>1, Zenon
  <2>7. Bound(p, j) # None
    <3>1. j \in 0 .. n + 1
      BY Ranges, Zenon
    <3>2. Bound(p, j) \in 0 .. Now
      BY <1>1, <3>1, Segments, Zenon
    <3> QED BY <3>2, Times, Zenon
  <2>8. Fine(k)
    BY <2>5, <2>6, Zenon DEF Enforced, Halted
  <2>9. Paused(p, k) = IF Halted(p, j) THEN Paused(p, j) + (Bound(p, k) - Bound(p, j)) ELSE Paused(p, j)
    BY <2>5, <2>6, <2>7, Zenon DEF Enforced, Paused
  <2> QED BY <2>1, <2>8, <2>9, Zenon
<1>5. ASSUME NEW k \in 0 .. n - 1, k \in T PROVE k + 1 \in T
  <2>1. PICK j : j = k + 1
    BY Zenon
  <2>2. j \in 1 .. n /\ j \in 0 .. n /\ j - 1 = k
    BY <2>1
  <2>3. Fine(j - 1)
    BY <1>5, <2>2, Zenon
  <2> HIDE DEF Fine
  <2> QED BY <1>4, <2>1, <2>2, <2>3, Zenon
<1>6. 0 .. n \subseteq T
  <2> HIDE DEF T
  <2> QED BY <1>3, <1>5, UpTo, Zenon
<1>7. \A k \in 0 .. n : Fine(k) /\ Paused(p, k) \in Int
  <2>1. \A x \in Lives : x.pausedMs \in Int
    BY Zenon DEF Lives
  <2> QED BY <1>1, <1>6, <2>1, MovedRuns, Zenon DEF Paused
<1>8. \A k \in 1 .. n : Paused(p, k) = IF Halted(p, k - 1) THEN Paused(p, k - 1) + (Bound(p, k) - Bound(p, k - 1))
                                       ELSE Paused(p, k - 1)
  <2> TAKE k \in 1 .. n
  <2>1. k - 1 \in 0 .. n
    BY Ranges, Zenon
  <2>2. Fine(k - 1)
    BY <1>7, <2>1, Zenon
  <2> HIDE DEF Fine
  <2> QED BY <1>4, <2>2, Zenon
<1> QED BY <1>1, <1>2, <1>3, <1>7, <1>8, Zenon

(* e is what the loop's accumulator x becomes with a segment. *)
Stepped(e, x, from, until, stops, open, target) ==
  /\ e.activeMs = IF stops THEN x.activeMs ELSE x.activeMs + (until - from)
  /\ e.pausedMs = IF stops /\ ~open THEN x.pausedMs + (until - from) ELSE x.pausedMs
  /\ e.pauseStartedAt = IF stops /\ open THEN from ELSE x.pauseStartedAt
  /\ e.breachedAt = IF ~stops /\ x.breachedAt = None /\ x.activeMs + (until - from) > target
                    THEN from + (target - x.activeMs) ELSE x.breachedAt

LEMMA Walks ==
  ASSUME NEW x \in Clocks, NEW g, NEW target
  PROVE  Stepped(Walked(x, g, target), x, g.from, g.until, g.state \in STOPS_THE_CLOCK, g.open, target)
<1>1. PICK span : span = g.until - g.from
  BY Zenon
<1>2. x = [pausedMs |-> x.pausedMs, pauseStartedAt |-> x.pauseStartedAt, activeMs |-> x.activeMs, breachedAt |-> x.breachedAt]
  BY Zenon DEF Clocks
<1>3. CASE g.state \in STOPS_THE_CLOCK /\ g.open
  <2>1. Walked(x, g, target) = [x EXCEPT !.pauseStartedAt = g.from]
    BY <1>3, Zenon DEF Walked
  <2>2. LET e == [x EXCEPT !.pauseStartedAt = g.from] IN
          /\ e.activeMs = x.activeMs /\ e.pausedMs = x.pausedMs /\ e.pauseStartedAt = g.from
          /\ e.breachedAt = x.breachedAt
    BY <1>2, Zenon
  <2> QED BY <1>3, <2>1, <2>2, Zenon DEF Stepped
<1>4. CASE g.state \in STOPS_THE_CLOCK /\ ~g.open
  <2>1. Walked(x, g, target) = [x EXCEPT !.pausedMs = x.pausedMs + span]
    BY <1>1, <1>4, Zenon DEF Walked
  <2>2. LET e == [x EXCEPT !.pausedMs = x.pausedMs + span] IN
          /\ e.activeMs = x.activeMs /\ e.pausedMs = x.pausedMs + span /\ e.pauseStartedAt = x.pauseStartedAt
          /\ e.breachedAt = x.breachedAt
    BY <1>2, Zenon
  <2> QED BY <1>1, <1>4, <2>1, <2>2, Zenon DEF Stepped
<1>5. CASE g.state \notin STOPS_THE_CLOCK
  <2>1. PICK b : b = IF x.breachedAt = None /\ x.activeMs + span > target THEN g.from + (target - x.activeMs) ELSE x.breachedAt
    BY Zenon
  <2>2. Walked(x, g, target) = [x EXCEPT !.activeMs = x.activeMs + span, !.breachedAt = b]
    BY <1>1, <1>5, <2>1, Zenon DEF Walked
  <2>3. LET e == [x EXCEPT !.activeMs = x.activeMs + span, !.breachedAt = b] IN
          /\ e.activeMs = x.activeMs + span /\ e.pausedMs = x.pausedMs /\ e.pauseStartedAt = x.pauseStartedAt
          /\ e.breachedAt = b
    BY <1>2, Zenon
  <2> QED BY <1>1, <1>5, <2>1, <2>2, <2>3, Zenon DEF Stepped
<1> QED BY <1>3, <1>4, <1>5, Zenon

LEMMA WalkSteps ==
  ASSUME NEW p \in Plans, NEW k \in 1 .. Len(p.path) + 1
  PROVE  Stepped(walk(p)[k], walk(p)[k - 1], Bound(p, k - 1), Bound(p, k), Halted(p, k - 1), k > Len(p.path),
                 Resolution[p.priority])
<1>1. PICK x : x = walk(p)[k - 1]
  BY Zenon
<1>2. PICK g : g = timeline(p.path)[k]
  BY Zenon
<1>3. x \in Clocks
  <2>1. k - 1 \in 0 .. Len(p.path) + 1
    BY PlanFacts
  <2> QED BY <1>1, <2>1, WalkRuns, Zenon
<1>4. g = [state |-> StateAt(p, k - 1), from |-> Bound(p, k - 1), until |-> Bound(p, k), open |-> k > Len(p.path)]
  BY <1>2, Segments, Zenon
<1>5. /\ g.state = StateAt(p, k - 1) /\ g.from = Bound(p, k - 1) /\ g.until = Bound(p, k)
      /\ g.open = (k > Len(p.path))
  BY <1>4, Zenon
<1>6. STOPS_THE_CLOCK = Stopping
  BY Zenon DEF STOPS_THE_CLOCK, Stopping
<1>7. Stepped(Walked(x, g, Resolution[p.priority]), x, g.from, g.until, g.state \in STOPS_THE_CLOCK, g.open,
              Resolution[p.priority])
  BY <1>3, Walks, Zenon
<1>8. walk(p)[k] = Walked(x, g, Resolution[p.priority])
  BY <1>1, <1>2, WalkRuns, Zenon
<1> QED BY <1>1, <1>5, <1>6, <1>7, <1>8, Zenon DEF Halted

(* The loop accumulates what the trigger does. *)
LEMMA WalkAgrees ==
  ASSUME NEW p \in Plans
  PROVE  \A k \in 0 .. Len(p.path) : /\ walk(p)[k].pausedMs = Paused(p, k)
                                     /\ walk(p)[k].pauseStartedAt = None
                                     /\ walk(p)[k].activeMs = Bound(p, k) - Paused(p, k)
<1>1. PICK n \in Nat : n = Len(p.path)
  BY PlanFacts, Zenon
<1> DEFINE W == walk(p)
           Fine(k) == W[k].pausedMs = Paused(p, k) /\ W[k].pauseStartedAt = None
                        /\ W[k].activeMs = Bound(p, k) - Paused(p, k)
           T == {k \in 0 .. n : Fine(k)}
<1>2. 0 \in T
  <2>1. W[0].pausedMs = 0 /\ W[0].pauseStartedAt = None /\ W[0].activeMs = 0
    BY WalkRuns DEF AtStart
  <2>2. Paused(p, 0) = 0 /\ Bound(p, 0) = 0
    BY MovedFacts, Zenon DEF Bound
  <2>3. 0 = 0 - 0 /\ 0 \in 0 .. n
    OBVIOUS
  <2> QED BY <2>1, <2>2, <2>3, Zenon
<1>3. ASSUME NEW j \in 0 .. n - 1, j \in T PROVE j + 1 \in T
  <2>1. PICK k : k = j + 1
    BY Zenon
  <2>2. k \in 1 .. n /\ k \in 0 .. n /\ k - 1 = j /\ j \in 0 .. n /\ ~(k > n) /\ k \in 1 .. n + 1 /\ j \in 0 .. n + 1 /\ k \in 0 .. n + 1
    BY <2>1
  <2>3. Stepped(W[k], W[j], Bound(p, j), Bound(p, k), Halted(p, j), k > n, Resolution[p.priority])
    BY <1>1, <2>2, WalkSteps, Zenon
  <2>4. /\ W[k].activeMs = IF Halted(p, j) THEN W[j].activeMs ELSE W[j].activeMs + (Bound(p, k) - Bound(p, j))
        /\ W[k].pausedMs = IF Halted(p, j) THEN W[j].pausedMs + (Bound(p, k) - Bound(p, j)) ELSE W[j].pausedMs
        /\ W[k].pauseStartedAt = W[j].pauseStartedAt
    BY <2>2, <2>3, Zenon DEF Stepped
  <2>5. Paused(p, k) = IF Halted(p, j) THEN Paused(p, j) + (Bound(p, k) - Bound(p, j)) ELSE Paused(p, j)
    BY <1>1, <2>2, MovedFacts, Zenon
  <2>6. Fine(j)
    BY <1>3, Zenon
  <2>7. PICK bj \in Int, bk \in Int, pj \in Int : bj = Bound(p, j) /\ bk = Bound(p, k) /\ pj = Paused(p, j)
    <3>1. Bound(p, j) \in 0 .. Now /\ Bound(p, k) \in 0 .. Now /\ Paused(p, j) \in Int
      BY <1>1, <2>2, Segments, MovedFacts, Zenon
    <3> QED BY <3>1, Times, Zenon
  <2>8. bj - pj + (bk - bj) = bk - pj /\ bj - pj = bk - (pj + (bk - bj))
    OBVIOUS
  <2>9. Fine(k)
    BY <2>4, <2>5, <2>6, <2>7, <2>8, Zenon
  <2> HIDE DEF Fine
  <2> QED BY <2>1, <2>2, <2>9, Zenon
<1>4. 0 .. n \subseteq T
  <2> HIDE DEF T
  <2> QED BY <1>2, <1>3, UpTo, Zenon
<1> QED BY <1>1, <1>4, Zenon

(* The clock showed the target at b, in a segment before the k-th move. *)
Dated(p, k, b) ==
  \E j \in 0 .. Len(p.path) :
    /\ j < k /\ ~Halted(p, j)
    /\ Bound(p, j) <= b /\ b < Bound(p, j + 1) /\ b - Paused(p, j) = Resolution[p.priority]

BreachedWell(p, k) ==
  IF walk(p)[k].breachedAt = None THEN walk(p)[k].activeMs <= Resolution[p.priority]
  ELSE walk(p)[k].activeMs > Resolution[p.priority] /\ Dated(p, k, walk(p)[k].breachedAt)

LEMMA WalkDates ==
  ASSUME NEW p \in Plans
  PROVE  \A k \in 0 .. Len(p.path) + 1 : BreachedWell(p, k)
<1>1. PICK n \in Nat : n = Len(p.path)
  BY PlanFacts, Zenon
<1>2. PICK R \in Nat : R = Resolution[p.priority]
  BY PlanFacts, Zenon
<1> DEFINE W == walk(p)
           T == {k \in 0 .. n + 1 : BreachedWell(p, k)}
<1>3. 0 \in T
  <2>1. W[0].activeMs = 0 /\ W[0].breachedAt = None
    BY WalkRuns DEF AtStart
  <2>2. 0 \in 0 .. n + 1 /\ 0 <= R
    OBVIOUS
  <2> QED BY <1>2, <2>1, <2>2, Zenon DEF BreachedWell
<1>4. ASSUME NEW j \in 0 .. n, j \in T PROVE j + 1 \in T
  <2>1. PICK k : k = j + 1
    BY Zenon
  <2>2. /\ k \in 1 .. n + 1 /\ k \in 0 .. n + 1 /\ k - 1 = j /\ j < k /\ j <= k /\ j \in 0 .. n + 1
        /\ \A i \in 0 .. n : i < j => i < k
    BY <2>1
  <2>3. Stepped(W[k], W[j], Bound(p, j), Bound(p, k), Halted(p, j), k > n, R)
    BY <1>1, <1>2, <2>2, WalkSteps, Zenon
  <2>4. PICK bj \in Nat, bk \in Nat, pj \in Int : /\ bj = Bound(p, j) /\ bk = Bound(p, k) /\ pj = Paused(p, j)
                                                 /\ bj <= bk
    <3>1. Bound(p, j) \in 0 .. Now /\ Bound(p, k) \in 0 .. Now /\ Paused(p, j) \in Int /\ Bound(p, j) <= Bound(p, k)
      BY <1>1, <2>2, Segments, MovedFacts, Zenon
    <3> QED BY <3>1, Times, Zenon
  <2>5. PICK a \in Int : a = W[j].activeMs /\ a = bj - pj
    <3>1. W[j].activeMs = bj - pj
      BY <1>1, <2>4, WalkAgrees, Zenon
    <3> QED BY <3>1
  <2>6. BreachedWell(p, j)
    BY <1>4, Zenon
  <2>7. /\ W[k].activeMs = IF Halted(p, j) THEN a ELSE a + (bk - bj)
        /\ W[k].breachedAt = IF ~Halted(p, j) /\ W[j].breachedAt = None /\ a + (bk - bj) > R
                             THEN bj + (R - a) ELSE W[j].breachedAt
    BY <2>3, <2>4, <2>5, Zenon DEF Stepped
  <2>8. CASE W[j].breachedAt # None
    <3>1. a > R /\ Dated(p, j, W[j].breachedAt) /\ W[k].breachedAt = W[j].breachedAt
      BY <1>2, <2>5, <2>6, <2>7, <2>8, Zenon DEF BreachedWell
    <3>2. Dated(p, k, W[j].breachedAt)
      BY <1>1, <2>2, <3>1, Zenon DEF Dated
    <3>3. a + (bk - bj) > R
      BY <2>4, <3>1
    <3>4. W[k].activeMs > R
      BY <2>7, <3>1, <3>3, Zenon
    <3> QED BY <1>2, <2>1, <2>2, <2>8, <3>1, <3>2, <3>4, Zenon DEF BreachedWell
  <2>9. CASE W[j].breachedAt = None /\ ~Halted(p, j) /\ a + (bk - bj) > R
    <3>1. PICK b : b = bj + (R - a)
      BY Zenon
    <3>2. a <= R
      BY <1>2, <2>5, <2>6, <2>9, Zenon DEF BreachedWell
    <3>3. b \in Nat /\ bj <= b /\ b < bk /\ b - pj = R
      BY <2>4, <2>5, <2>9, <3>1, <3>2
    <3>4. b # None
      BY <3>3, SlaAssumption, Zenon
    <3>5. Dated(p, k, b)
      BY <1>1, <1>2, <2>1, <2>2, <2>4, <2>9, <3>3, Zenon DEF Dated
    <3>6. W[k].breachedAt = b /\ W[k].activeMs > R
      BY <2>7, <2>9, <3>1, Zenon
    <3> QED BY <1>2, <2>1, <2>2, <3>4, <3>5, <3>6, Zenon DEF BreachedWell
  <2>10. CASE W[j].breachedAt = None /\ (Halted(p, j) \/ ~(a + (bk - bj) > R))
    <3>1. a <= R
      BY <1>2, <2>5, <2>6, <2>10, Zenon DEF BreachedWell
    <3>2. ~(a + (bk - bj) > R) => a + (bk - bj) <= R
      BY <2>4
    <3>3. W[k].breachedAt = None /\ W[k].activeMs <= R
      BY <2>7, <2>10, <3>1, <3>2, Zenon
    <3> QED BY <1>2, <2>1, <2>2, <3>3, Zenon DEF BreachedWell
  <2> QED BY <2>8, <2>9, <2>10, Zenon
<1>5. 0 .. n + 1 \subseteq T
  <2>1. PICK m \in Nat : m = n + 1
    OBVIOUS
  <2>2. 0 .. m - 1 = 0 .. n
    BY <2>1
  <2> HIDE DEF T
  <2>3. 0 .. m \subseteq T
    BY <1>3, <1>4, <2>2, UpTo, Zenon
  <2> QED BY <2>1, <2>3, Zenon
<1> QED BY <1>1, <1>5, Zenon

------------------------------------------------------------------------------
(* replay, at the end of the loop, against the Ticket that lived. *)
Agree(p, end, lived) ==
  /\ end.pausedMs = lived.pausedMs /\ end.pauseStartedAt = lived.pauseStartedAt
  /\ (end.breachedAt # None) = (elapsed(lived, Now) > Resolution[p.priority])
  /\ end.breachedAt # None => Showed(p, end.breachedAt) = Resolution[p.priority]

LEMMA ReplayAgrees ==
  ASSUME NEW p \in Plans
  PROVE  Agree(p, walk(p)[Len(p.path) + 1], Lived(p))
<1>1. PICK n \in Nat : n = Len(p.path)
  BY PlanFacts, Zenon
<1>2. PICK R \in Nat : R = Resolution[p.priority]
  BY PlanFacts, Zenon
<1>3. PICK m : m = n + 1
  BY Zenon
<1>4. m \in 1 .. n + 1 /\ m \in 0 .. n + 1 /\ m - 1 = n /\ m > n /\ n \in 0 .. n /\ n \in 0 .. n + 1
  BY <1>3
<1>5. PICK e, l, x : e = walk(p)[m] /\ l = Lived(p) /\ x = walk(p)[n]
  BY Zenon
<1>6. PICK bn \in Int, pn \in Int : bn = Bound(p, n) /\ pn = Paused(p, n) /\ bn # None
  <2>1. Bound(p, n) \in 0 .. Now /\ Paused(p, n) \in Int
    BY <1>1, <1>4, Segments, MovedFacts, Zenon
  <2> QED BY <2>1, Times, Zenon
<1>7. Bound(p, m) = Now /\ Now \in Int
  <2>1. m # 0
    BY <1>4
  <2> QED BY <1>1, <1>4, <2>1, SeedAssumption DEF Bound
<1>8. x.pausedMs = pn /\ x.pauseStartedAt = None /\ x.activeMs = bn - pn
  BY <1>1, <1>4, <1>5, <1>6, WalkAgrees, Zenon
<1>9. l.pausedMs = pn /\ l.pauseStartedAt = IF Halted(p, n) THEN bn ELSE None
  <2>1. l = Moved(p)[n]
    BY <1>1, <1>5, Zenon DEF Lived
  <2> QED BY <1>1, <1>4, <1>6, <2>1, MovedFacts, Zenon DEF Paused
<1>10. Stepped(e, x, bn, Now, Halted(p, n), m > n, R)
  BY <1>1, <1>2, <1>4, <1>5, <1>6, <1>7, WalkSteps, Zenon
<1>11. /\ e.pausedMs = pn /\ e.pauseStartedAt = IF Halted(p, n) THEN bn ELSE None
       /\ e.activeMs = IF Halted(p, n) THEN bn - pn ELSE bn - pn + (Now - bn)
  BY <1>4, <1>8, <1>10, Zenon DEF Stepped
<1>12. elapsed(l, Now) = e.activeMs
  <2>1. elapsed(l, Now) = Now - pn - (IF Halted(p, n) THEN Now - bn ELSE 0)
    BY <1>6, <1>9, Zenon DEF elapsed
  <2>2. Now - pn - (Now - bn) = bn - pn /\ Now - pn - 0 = bn - pn + (Now - bn)
    BY <1>7
  <2> QED BY <1>11, <2>1, <2>2, Zenon
<1>13. e.activeMs \in Int
  BY <1>7, <1>11
<1>14. BreachedWell(p, m)
  BY <1>1, <1>4, WalkDates, Zenon
<1>15. (e.breachedAt # None) = (e.activeMs > R)
  <2>1. e.activeMs <= R => ~(e.activeMs > R)
    BY <1>13
  <2>2. e.breachedAt = None => ~(e.activeMs > R)
    BY <1>2, <1>3, <1>5, <1>14, <2>1, Zenon DEF BreachedWell
  <2>3. e.breachedAt # None => e.activeMs > R
    BY <1>2, <1>3, <1>5, <1>14, Zenon DEF BreachedWell
  <2> QED BY <2>2, <2>3
<1>16. ASSUME e.breachedAt # None PROVE Showed(p, e.breachedAt) = R
  <2>1. PICK b : b = e.breachedAt
    BY Zenon
  <2>2. Dated(p, m, b)
    BY <1>5, <1>14, <1>16, <2>1, Zenon DEF BreachedWell
  <2>3. PICK j \in 0 .. n : ~Halted(p, j) /\ Bound(p, j) <= b /\ b < Bound(p, j + 1) /\ b - Paused(p, j) = R
    BY <1>1, <1>2, <2>2, Zenon DEF Dated
  <2> DEFINE S == {k \in DOMAIN p.path : p.path[k].at <= b}
  <2>0. b \in Int
    <3>1. e \in Clocks
      BY <1>1, <1>3, <1>4, <1>5, WalkRuns, Zenon
    <3> QED BY <1>16, <2>1, <3>1, Zenon DEF Clocks
  <2>4. S = 1 .. j
    <3>1. DOMAIN p.path = 1 .. n /\ \A k \in 1 .. n : p.path[k].at = Bound(p, k)
      <4>1. \A k \in 1 .. n : k # 0 /\ ~(k > n)
        BY Ranges, Zenon
      <4> QED BY <1>1, <4>1, PlanFacts, Zenon DEF Bound
    <3>2. ASSUME NEW k \in 1 .. n PROVE k \in 1 .. j <=> Bound(p, k) <= b
      <4>1. CASE k <= j
        <5>1. Bound(p, k) <= Bound(p, j) /\ Bound(p, k) \in 0 .. Now /\ Bound(p, j) \in 0 .. Now
          <6>1. k \in 0 .. n + 1 /\ j \in 0 .. n + 1
            BY Ranges, Zenon
          <6> QED BY <1>1, <4>1, <6>1, Segments, Zenon
        <5> QED BY <2>0, <2>3, <4>1, <5>1, SeedAssumption
      <4>2. CASE ~(k <= j)
        <5>1. Bound(p, j + 1) <= Bound(p, k) /\ Bound(p, k) \in 0 .. Now /\ Bound(p, j + 1) \in 0 .. Now
          <6>1. k \in 0 .. n + 1 /\ j + 1 \in 0 .. n + 1 /\ j + 1 <= k
            BY <4>2
          <6> QED BY <1>1, <6>1, Segments, Zenon
        <5> QED BY <2>0, <2>3, <4>2, <5>1, SeedAssumption
      <4> QED BY <4>1, <4>2, Zenon
    <3>3. \A k \in 1 .. j : k \in 1 .. n
      OBVIOUS
    <3> QED BY <3>1, <3>2, <3>3, Zenon
  <2>5. Cardinality(S) = j
    <3>1. 1 \in Int /\ j \in Int /\ (IF 1 > j THEN 0 ELSE j - 1 + 1) = j
      OBVIOUS
    <3>2. Cardinality(1 .. j) = IF 1 > j THEN 0 ELSE j - 1 + 1
      BY <3>1, FS_Interval, Zenon
    <3> QED BY <2>4, <3>1, <3>2, Zenon
  <2>6. Moved(p)[j].pausedMs = Paused(p, j) /\ Moved(p)[j].pauseStartedAt = None /\ Paused(p, j) \in Int
    BY <1>1, <2>3, MovedFacts, Zenon DEF Paused
  <2>7. Showed(p, b) = b - Paused(p, j) - 0
    <3>1. Showed(p, b) = elapsed(Moved(p)[j], b)
      BY <2>5, Zenon DEF Showed
    <3> QED BY <2>6, <3>1, Zenon DEF elapsed
  <2>8. b - Paused(p, j) - 0 = b - Paused(p, j)
    BY <2>0, <2>6
  <2> QED BY <2>1, <2>3, <2>7, <2>8, Zenon
<1> QED BY <1>1, <1>2, <1>3, <1>5, <1>9, <1>11, <1>12, <1>15, <1>16, Zenon DEF Agree

------------------------------------------------------------------------------
(* How many statements come before the first move, and in all. *)
Triaged(p) == IF p.priority # Normal \/ p.assigned THEN 1 ELSE 0
Opened(p)  == Len(p.thread) + Triaged(p)
Total(p)   == Opened(p) + Len(p.path) + 1

(* The row r after w statements, before the last. *)
Draft(p, w, r) ==
  /\ r \in Lives
  /\ w <= Len(p.thread) => r.priority = Normal /\ r.firstResponseAt = Heard(p)[w].firstResponseAt
  /\ w >= Len(p.thread) => r.firstResponseAt = Heard(p)[Len(p.thread)].firstResponseAt
  /\ w <= Opened(p) => r.state = "open"
  /\ w >= Opened(p) => r.priority = p.priority /\ r.state = StateAt(p, w - Opened(p))

(* ... and after it. *)
Finished(p, r) ==
  LET end == walk(p)[Len(p.path) + 1] IN
  /\ r.state = StateAt(p, Len(p.path)) /\ r.priority = p.priority
  /\ r.firstResponseAt = Heard(p)[Len(p.thread)].firstResponseAt
  /\ r.pausedMs = end.pausedMs /\ r.pauseStartedAt = end.pauseStartedAt
  /\ r.latch["resolution"] = end.breachedAt
  /\ r.latch["first_response"] = firstResponseBreach(p.thread, FirstResponse[p.priority])

SeedInv ==
  /\ plan \in Plans \cup {<<>>}
  /\ plan # <<>> /\ ~overlapped =>
       /\ written \in 0 .. Total(plan)
       /\ written < Total(plan) => Draft(plan, written, row)
       /\ written = Total(plan) => Finished(plan, row)

(* c is a, of l members, and then b, of m. *)
Joins(c, a, b, l, m) ==
  /\ Len(c) = l + m
  /\ \A k \in 1 .. l : c[k] = a[k]
  /\ \A k \in 1 .. m : c[l + k] = b[k]

LEMMA Joined ==
  ASSUME NEW S, NEW a \in Seq(S), NEW b \in Seq(S)
  PROVE  a \o b \in Seq(S) /\ Joins(a \o b, a, b, Len(a), Len(b))
BY DEF Joins

LEMMA Listed ==
  ASSUME NEW S, NEW n \in Nat, NEW f \in [1 .. n -> S]
  PROVE  f \in Seq(S) /\ Len(f) = n
OBVIOUS

LEMMA Single ==
  ASSUME NEW S, NEW x \in S
  PROVE  <<x>> \in Seq(S) /\ Len(<<x>>) = 1 /\ <<x>>[1] = x
OBVIOUS

LEMMA Nothing ==
  ASSUME NEW S
  PROVE  <<>> \in Seq(S) /\ Len(<<>>) = 0
OBVIOUS

(* The statements of writeTicket, by their number. *)
ScriptIs(p, s) ==
  /\ Len(s) = Total(p)
  /\ \A k \in 1 .. Len(p.thread) : s[k].kind = "entry" /\ s[k].what = chronological(p.thread)[k]
  /\ Triaged(p) = 1 => s[Opened(p)].kind = "triage"
  /\ \A k \in 1 .. Len(p.path) : s[Opened(p) + k].kind = "move" /\ s[Opened(p) + k].what = p.path[k]
  /\ s[Total(p)].kind = "backdate"

LEMMA TriageFacts ==
  ASSUME NEW p \in Plans
  PROVE  Triaged(p) \in {0, 1} /\ (Triaged(p) = 0 => p.priority = Normal)
BY DEF Triaged

LEMMA ScriptFacts ==
  ASSUME NEW p \in Plans
  PROVE  ScriptIs(p, Script(p))
<1>1. PICK N \in Nat, n \in Nat : N = Len(p.thread) /\ n = Len(p.path)
  BY PlanFacts, Zenon
<1>2. PICK th : th = chronological(p.thread)
  BY Zenon
<1>3. DOMAIN th = 1 .. N /\ DOMAIN p.path = 1 .. n
  BY <1>1, <1>2, PlanFacts, Zenon DEF chronological
<1>4. PICK t \in {0, 1} : t = Triaged(p)
  BY TriageFacts, Zenon
<1>5. PICK A : A = [k \in 1 .. N |-> [kind |-> "entry", what |-> th[k]]]
  BY Zenon
<1>6. PICK tri, back : tri = [kind |-> "triage", what |-> <<>>] /\ back = [kind |-> "backdate", what |-> <<>>]
  BY Zenon
<1>7. PICK B : B = IF p.priority # Normal \/ p.assigned THEN <<tri>> ELSE <<>>
  BY Zenon
<1>8. PICK C : C = [k \in 1 .. n |-> [kind |-> "move", what |-> p.path[k]]]
  BY Zenon
<1>9. Script(p) = ((A \o B) \o C) \o <<back>>
  BY <1>2, <1>3, <1>5, <1>6, <1>7, <1>8, Zenon DEF Script
<1>10. PICK S : S = {A[k] : k \in 1 .. N} \cup {C[k] : k \in 1 .. n} \cup {tri, back}
  BY Zenon
<1>11. A \in Seq(S) /\ Len(A) = N
  <2>1. A \in [1 .. N -> S]
    BY <1>5, <1>10, Zenon
  <2> QED BY <2>1, Listed, Zenon
<1>12. C \in Seq(S) /\ Len(C) = n
  <2>1. C \in [1 .. n -> S]
    BY <1>8, <1>10, Zenon
  <2> QED BY <2>1, Listed, Zenon
<1>13. B \in Seq(S) /\ Len(B) = t /\ (t = 1 => B[1] = tri)
  <2>1. tri \in S /\ 0 # 1
    BY <1>10
  <2>2. CASE p.priority # Normal \/ p.assigned
    BY <1>4, <1>7, <2>1, <2>2, Single, Zenon DEF Triaged
  <2>3. CASE ~(p.priority # Normal \/ p.assigned)
    BY <1>4, <1>7, <2>1, <2>3, Nothing, Zenon DEF Triaged
  <2> QED BY <2>2, <2>3, Zenon
<1>14. <<back>> \in Seq(S) /\ Len(<<back>>) = 1 /\ <<back>>[1] = back
  BY <1>10, Single, Zenon
<1>15. PICK AB : AB = A \o B
  BY Zenon
<1>16. AB \in Seq(S) /\ Joins(AB, A, B, N, t)
  BY <1>11, <1>13, <1>15, Joined, Zenon
<1>17. PICK ABC : ABC = AB \o C
  BY Zenon
<1>18. ABC \in Seq(S) /\ Joins(ABC, AB, C, N + t, n) /\ Len(ABC) = N + t + n
  <2>1. Len(AB) = N + t
    BY <1>16, Zenon DEF Joins
  <2>2. ABC \in Seq(S) /\ Joins(ABC, AB, C, N + t, n)
    BY <1>12, <1>16, <1>17, <2>1, Joined, Zenon
  <2> QED BY <2>2, Zenon DEF Joins
<1>19. PICK s : s = ABC \o <<back>>
  BY Zenon
<1>20. Joins(s, ABC, <<back>>, N + t + n, 1)
  BY <1>14, <1>18, <1>19, Joined, Zenon
<1>21. \A k \in 1 .. N : k \in 1 .. N + t /\ k \in 1 .. N + t + n
  OBVIOUS
<1>22. \A k \in 1 .. n : N + t + k \in 1 .. N + t + n
  OBVIOUS
<1>23. t = 1 => 1 \in 1 .. t /\ N + 1 \in 1 .. N + t /\ N + 1 \in 1 .. N + t + n /\ N + 1 = N + t
  OBVIOUS
<1>24. ASSUME NEW k \in 1 .. N PROVE s[k].kind = "entry" /\ s[k].what = th[k]
  <2>1. s[k] = A[k]
    <3>1. k \in 1 .. N + t /\ k \in 1 .. N + t + n
      BY <1>21, Zenon
    <3> QED BY <1>16, <1>18, <1>20, <3>1, Zenon DEF Joins
  <2>2. A[k].kind = "entry" /\ A[k].what = th[k]
    BY <1>5, Zenon
  <2> QED BY <2>1, <2>2, Zenon
<1>25. ASSUME t = 1 PROVE s[N + t].kind = "triage"
  <2>1. s[N + t] = tri
    <3>1. ABC[N + 1] = AB[N + 1] /\ s[N + 1] = ABC[N + 1]
      BY <1>18, <1>20, <1>23, <1>25, Zenon DEF Joins
    <3>2. AB[N + 1] = B[1]
      BY <1>16, <1>23, <1>25, Zenon DEF Joins
    <3> QED BY <1>13, <1>23, <1>25, <3>1, <3>2, Zenon
  <2> QED BY <1>6, <2>1
<1>26. ASSUME NEW k \in 1 .. n PROVE s[N + t + k].kind = "move" /\ s[N + t + k].what = p.path[k]
  <2>1. s[N + t + k] = C[k]
    BY <1>18, <1>20, <1>22, Zenon DEF Joins
  <2>2. C[k].kind = "move" /\ C[k].what = p.path[k]
    BY <1>8, Zenon
  <2> QED BY <2>1, <2>2, Zenon
<1>27. Len(s) = N + t + n + 1 /\ s[N + t + n + 1].kind = "backdate"
  <2>1. 1 \in 1 .. 1 /\ back.kind = "backdate"
    BY <1>6
  <2> QED BY <1>14, <1>20, <2>1, Zenon DEF Joins
<1>28. Opened(p) = N + t /\ Total(p) = N + t + n + 1
  BY <1>1, <1>4, Zenon DEF Opened, Total
<1>29. Script(p) = s
  BY <1>9, <1>15, <1>17, <1>19, Zenon
<1>30. Len(s) = Total(p) /\ s[Total(p)].kind = "backdate"
  BY <1>27, <1>28, Zenon
<1>31. \A k \in 1 .. Len(p.thread) : s[k].kind = "entry" /\ s[k].what = chronological(p.thread)[k]
  BY <1>1, <1>2, <1>24, Zenon
<1>32. Triaged(p) = 1 => s[Opened(p)].kind = "triage"
  BY <1>4, <1>25, <1>28, Zenon
<1>33. \A k \in 1 .. Len(p.path) : s[Opened(p) + k].kind = "move" /\ s[Opened(p) + k].what = p.path[k]
  BY <1>1, <1>26, <1>28, Zenon
<1> QED BY <1>29, <1>30, <1>31, <1>32, <1>33, Zenon DEF ScriptIs

LEMMA SeedStarts == SeedInit => SeedInv
<1> SUFFICES ASSUME SeedInit, plan # <<>>, ~overlapped
             PROVE  /\ written \in 0 .. Total(plan)
                    /\ written < Total(plan) => Draft(plan, written, row)
                    /\ written = Total(plan) => Finished(plan, row)
  BY Zenon DEF SeedInit, SeedInv
<1>1. plan \in Plans /\ written = 0 /\ row = Newborn
  BY Zenon DEF SeedInit
<1>2. PICK N \in Nat, n \in Nat, t \in {0, 1} : N = Len(plan.thread) /\ n = Len(plan.path) /\ t = Triaged(plan)
  BY <1>1, PlanFacts, TriageFacts, Zenon
<1>3. Opened(plan) = N + t /\ Total(plan) = N + t + n + 1
  BY <1>2, Zenon DEF Opened, Total
<1>4. 0 \in 0 .. Total(plan) /\ 0 # Total(plan)
  BY <1>3
<1>5. /\ 0 >= N => N = 0
      /\ 0 >= N + t => t = 0 /\ 0 - (N + t) = 0
  OBVIOUS
<1>6. /\ Newborn \in Lives
      /\ Newborn.priority = Normal /\ Newborn.firstResponseAt = Heard(plan)[0].firstResponseAt
      /\ Newborn.state = "open"
  BY <1>1, NewbornFacts, HeardRuns, Zenon
<1>7. t = 0 => plan.priority = Normal
  BY <1>1, <1>2, TriageFacts, Zenon
<1>8. StateAt(plan, 0) = "open"
  BY Zenon DEF StateAt
<1>9. Draft(plan, 0, Newborn)
  BY <1>2, <1>3, <1>5, <1>6, <1>7, <1>8, Zenon DEF Draft
<1> QED BY <1>1, <1>4, <1>9, Zenon

(* One statement, by the kind it is of. *)
Wrote(p, w, r, e) ==
  LET next == Script(p)[w + 1] IN
  /\ next.kind = "entry"    => e = observe(r, next.what)
  /\ next.kind = "triage"   => e = [r EXCEPT !.priority = p.priority, !.lastActivityAt = Now]
  /\ next.kind = "move"     => e = enforce(r, next.what.to, Now)
  /\ next.kind = "backdate" => e = [r EXCEPT !.pausedMs = replay(p).pausedMs, !.pauseStartedAt = replay(p).pauseStartedAt,
                                             !.latch = latched(r, replay(p).latch), !.lastActivityAt = replay(p).lastActivityAt]

LEMMA WriteWrites == Write => Wrote(plan, written, row, row')
<1> SUFFICES ASSUME Write PROVE Wrote(plan, written, row, row')
  BY Zenon
<1>1. PICK next : next = Script(plan)[written + 1]
  BY Zenon
<1>2. PICK a, b, c, d : /\ a = observe(row, next.what)
                        /\ b = [row EXCEPT !.priority = plan.priority, !.lastActivityAt = Now]
                        /\ c = enforce(row, next.what.to, Now)
                        /\ d = backdateClocks(row)
  BY Zenon
<1>3. row' = CASE next.kind = "entry"    -> a
               [] next.kind = "triage"   -> b
               [] next.kind = "move"     -> c
               [] next.kind = "backdate" -> d
  BY <1>1, <1>2, Zenon DEF Write
<1>4. /\ next.kind = "entry"    => row' = a
      /\ next.kind = "triage"   => row' = b
      /\ next.kind = "move"     => row' = c
      /\ next.kind = "backdate" => row' = d
  BY <1>3, Zenon
<1>5. d = [row EXCEPT !.pausedMs = replay(plan).pausedMs, !.pauseStartedAt = replay(plan).pauseStartedAt,
                      !.latch = latched(row, replay(plan).latch), !.lastActivityAt = replay(plan).lastActivityAt]
  BY <1>2, Zenon DEF backdateClocks
<1> QED BY <1>1, <1>2, <1>4, <1>5, Zenon DEF Wrote

LEMMA EntryKeeps ==
  ASSUME NEW p \in Plans, NEW w \in Nat, NEW r, NEW e,
         w < Len(p.thread), Draft(p, w, r), Wrote(p, w, r, e)
  PROVE  w + 1 < Total(p) /\ Draft(p, w + 1, e)
<1>1. PICK N \in Nat, n \in Nat, t \in {0, 1} : N = Len(p.thread) /\ n = Len(p.path) /\ t = Triaged(p)
  BY PlanFacts, TriageFacts, Zenon
<1>2. Opened(p) = N + t /\ Total(p) = N + t + n + 1
  BY <1>1, Zenon DEF Opened, Total
<1>3. PICK v : v = w + 1
  BY Zenon
<1>4. /\ v \in 1 .. N /\ v - 1 = w /\ w \in 0 .. N /\ v < N + t + n + 1 /\ w <= N /\ w <= N + t
      /\ (v >= N => v = N) /\ (v >= N + t => v = N /\ t = 0 /\ v - (N + t) = 0)
  BY <1>1, <1>3
<1>5. PICK x : x = chronological(p.thread)[v]
  BY Zenon
<1>6. e = observe(r, x)
  <2>0. ScriptIs(p, Script(p))
    BY ScriptFacts, Zenon
  <2>1. Script(p)[v].kind = "entry" /\ Script(p)[v].what = x
    BY <1>1, <1>4, <1>5, <2>0, Zenon DEF ScriptIs
  <2> QED BY <1>3, <2>1, Zenon DEF Wrote
<1>7. x.at \in Int
  <2>1. x.at \in 0 .. Now
    BY <1>1, <1>4, <1>5, ThreadTimes, Zenon
  <2> QED BY <2>1, Times, Zenon
<1>8. /\ r \in Lives /\ r.priority = Normal /\ r.state = "open"
      /\ r.firstResponseAt = Heard(p)[w].firstResponseAt
  BY <1>1, <1>2, <1>4, Zenon DEF Draft
<1>9. Observed(e, r, x)
  BY <1>6, <1>7, <1>8, Observes, Zenon
<1>10. Observed(Heard(p)[v], Heard(p)[w], x)
  <2>1. Heard(p)[v] = observe(Heard(p)[w], x) /\ Heard(p)[w] \in Lives
    BY <1>1, <1>4, <1>5, HeardRuns, Zenon
  <2> QED BY <1>7, <2>1, Observes, Zenon
<1>11. e \in Lives /\ e.priority = Normal /\ e.state = "open" /\ e.firstResponseAt = Heard(p)[v].firstResponseAt
  BY <1>8, <1>9, <1>10, Zenon DEF Observed
<1>12. t = 0 => p.priority = Normal
  BY <1>1, TriageFacts, Zenon
<1>13. StateAt(p, 0) = "open"
  BY Zenon DEF StateAt
<1>14. Draft(p, v, e)
  BY <1>1, <1>2, <1>4, <1>11, <1>12, <1>13, Zenon DEF Draft
<1> QED BY <1>2, <1>3, <1>4, <1>14, Zenon

LEMMA TriageKeeps ==
  ASSUME NEW p \in Plans, NEW w \in Nat, NEW r, NEW e,
         w = Len(p.thread), Triaged(p) = 1, Draft(p, w, r), Wrote(p, w, r, e)
  PROVE  w + 1 < Total(p) /\ Draft(p, w + 1, e)
<1>1. PICK n \in Nat : n = Len(p.path)
  BY PlanFacts, Zenon
<1>2. Opened(p) = w + 1 /\ Total(p) = w + 1 + n + 1
  BY <1>1, Zenon DEF Opened, Total
<1>3. PICK v : v = w + 1
  BY Zenon
<1>4. v < v + n + 1 /\ ~(v <= w) /\ w <= v /\ v - v = 0 /\ v >= w /\ w <= w /\ w >= w
  BY <1>3
<1>5. e = [r EXCEPT !.priority = p.priority, !.lastActivityAt = Now]
  <2>0. ScriptIs(p, Script(p))
    BY ScriptFacts, Zenon
  <2>1. Script(p)[v].kind = "triage"
    BY <1>2, <1>3, <2>0, Zenon DEF ScriptIs
  <2> QED BY <1>3, <2>1, Zenon DEF Wrote
<1>6. r \in Lives /\ r.state = "open" /\ r.firstResponseAt = Heard(p)[w].firstResponseAt
  BY <1>2, <1>3, <1>4, Zenon DEF Draft
<1>7. p.priority \in Priorities /\ Now \in Int
  BY PlanFacts, Times, Zenon
<1>8. /\ e \in Lives /\ e.priority = p.priority /\ e.state = r.state
      /\ e.firstResponseAt = r.firstResponseAt
  BY <1>5, <1>6, <1>7, Zenon DEF Lives
<1>9. StateAt(p, 0) = "open"
  BY Zenon DEF StateAt
<1>10. Draft(p, v, e)
  BY <1>2, <1>3, <1>4, <1>6, <1>8, <1>9, Zenon DEF Draft
<1> QED BY <1>2, <1>3, <1>4, <1>10, Zenon

LEMMA MoveKeeps ==
  ASSUME NEW p \in Plans, NEW w \in Nat, NEW r, NEW e,
         Opened(p) <= w, w + 1 < Total(p), Draft(p, w, r), Wrote(p, w, r, e)
  PROVE  Draft(p, w + 1, e)
<1>1. PICK N \in Nat, n \in Nat, t \in {0, 1} : N = Len(p.thread) /\ n = Len(p.path) /\ t = Triaged(p)
  BY PlanFacts, TriageFacts, Zenon
<1>2. Opened(p) = N + t /\ Total(p) = N + t + n + 1
  BY <1>1, Zenon DEF Opened, Total
<1>3. PICK k : k = w + 1 - (N + t)
  BY Zenon
<1>4. /\ k \in 1 .. n /\ w + 1 = N + t + k /\ ~(w + 1 <= N) /\ w + 1 >= N /\ ~(w + 1 <= N + t)
      /\ w >= N /\ w >= N + t /\ k # 0
  BY <1>2, <1>3
<1>5. e = enforce(r, p.path[k].to, Now)
  <2>0. ScriptIs(p, Script(p))
    BY ScriptFacts, Zenon
  <2>1. \A j \in 1 .. n : Script(p)[Opened(p) + j].kind = "move" /\ Script(p)[Opened(p) + j].what = p.path[j]
    BY <1>1, <2>0, Zenon DEF ScriptIs
  <2>2. Script(p)[w + 1].kind = "move" /\ Script(p)[w + 1].what = p.path[k]
    BY <1>2, <1>4, <2>1, Zenon
  <2> QED BY <2>2, Zenon DEF Wrote
<1>6. r \in Lives /\ r.priority = p.priority /\ r.firstResponseAt = Heard(p)[N].firstResponseAt
  BY <1>1, <1>2, <1>4, Zenon DEF Draft
<1>7. p.path[k].to \in States /\ Now \in Int
  BY <1>1, <1>4, PlanFacts, Times, Zenon
<1>8. r.pauseStartedAt # None => r.pauseStartedAt \in Int
  BY <1>6, Zenon DEF Lives
<1>9. Enforced(e, r, p.path[k].to, Now)
  BY <1>5, <1>6, <1>7, <1>8, Enforces, Zenon
<1>10. e \in Lives /\ e.priority = p.priority /\ e.firstResponseAt = Heard(p)[N].firstResponseAt /\ e.state = StateAt(p, k)
  BY <1>4, <1>6, <1>9, Zenon DEF Enforced, StateAt
<1>11. PICK v : v = w + 1
  BY Zenon
<1>12. ~(v <= Len(p.thread)) /\ ~(v <= Opened(p)) /\ v - Opened(p) = k
  BY <1>1, <1>2, <1>3, <1>4, <1>11
<1>13. /\ e.firstResponseAt = Heard(p)[Len(p.thread)].firstResponseAt
       /\ e.priority = p.priority /\ e.state = StateAt(p, v - Opened(p))
  BY <1>1, <1>10, <1>12, Zenon
<1>14. Draft(p, v, e)
  BY <1>10, <1>12, <1>13, Zenon DEF Draft
<1> QED BY <1>11, <1>14, Zenon

(* backdateClocks, on a row no sweep has latched. *)
LEMMA BackdateFinishes ==
  ASSUME NEW p \in Plans, NEW w \in Nat, NEW r, NEW e,
         w + 1 = Total(p), Draft(p, w, r), Wrote(p, w, r, e)
  PROVE  Finished(p, e)
<1>1. PICK N \in Nat, n \in Nat, t \in {0, 1} : N = Len(p.thread) /\ n = Len(p.path) /\ t = Triaged(p)
  BY PlanFacts, TriageFacts, Zenon
<1>2. Opened(p) = N + t /\ Total(p) = N + t + n + 1
  BY <1>1, Zenon DEF Opened, Total
<1>3. w >= N /\ w >= N + t /\ w - (N + t) = n
  BY <1>2
<1>4. PICK c : c = replay(p)
  BY Zenon
<1>5. PICK l : l = latched(r, c.latch)
  BY Zenon
<1>6. e = [r EXCEPT !.pausedMs = c.pausedMs, !.pauseStartedAt = c.pauseStartedAt,
                    !.latch = l, !.lastActivityAt = c.lastActivityAt]
  <2>0. ScriptIs(p, Script(p))
    BY ScriptFacts, Zenon
  <2>1. Script(p)[w + 1].kind = "backdate"
    BY <2>0, Zenon DEF ScriptIs
  <2> QED BY <1>4, <1>5, <2>1, Zenon DEF Wrote
<1>7. /\ r \in Lives /\ r.priority = p.priority /\ r.firstResponseAt = Heard(p)[N].firstResponseAt
      /\ r.state = StateAt(p, n)
  BY <1>1, <1>2, <1>3, Zenon DEF Draft
<1>8. /\ e.state = r.state /\ e.priority = r.priority /\ e.firstResponseAt = r.firstResponseAt
      /\ e.pausedMs = c.pausedMs /\ e.pauseStartedAt = c.pauseStartedAt /\ e.latch = l
  BY <1>6, <1>7, Zenon DEF Lives
<1>9. PICK end, fb : end = walk(p)[n + 1] /\ fb = firstResponseBreach(p.thread, FirstResponse[p.priority])
  BY Zenon
<1>10. /\ c.pausedMs = end.pausedMs /\ c.pauseStartedAt = end.pauseStartedAt
       /\ c.latch = [x \in Timers |-> IF x = "resolution" THEN end.breachedAt ELSE fb]
  <2>1. c = [pausedMs |-> end.pausedMs, pauseStartedAt |-> end.pauseStartedAt,
             latch |-> [x \in Timers |-> IF x = "resolution" THEN end.breachedAt ELSE fb],
             lastActivityAt |-> lastActivity(p)]
    BY <1>1, <1>4, <1>9, Zenon DEF replay
  <2> QED BY <2>1, Zenon
<1>11. l["resolution"] = end.breachedAt /\ l["first_response"] = fb
  <2>1. r.latch = [x \in Timers |-> None]
    <3>1. r.latch = Newborn.latch
      BY <1>7, Zenon DEF Lives
    <3> QED BY <3>1, NewbornFacts, Zenon
  <2>2. "resolution" \in Timers /\ "first_response" \in Timers /\ "first_response" # "resolution"
    BY Zenon DEF Timers
  <2>3. \A x \in Timers : l[x] = c.latch[x]
    BY <1>5, <2>1, Zenon DEF latched
  <2> QED BY <1>10, <2>2, <2>3, Zenon
<1> QED BY <1>1, <1>7, <1>8, <1>9, <1>10, <1>11, Zenon DEF Finished

LEMMA WriteKeeps ==
  ASSUME SeedInv, Write
  PROVE  SeedInv'
<1>1. /\ plan # <<>> /\ plan' = plan /\ written' = written + 1 /\ overlapped' = overlapped
      /\ written < Len(Script(plan))
  BY Zenon DEF Write
<1>2. plan \in Plans
  BY <1>1, Zenon DEF SeedInv
<1>3. SUFFICES ASSUME ~overlapped
               PROVE  /\ written + 1 \in 0 .. Total(plan)
                      /\ written + 1 < Total(plan) => Draft(plan, written + 1, row')
                      /\ written + 1 = Total(plan) => Finished(plan, row')
  BY <1>1, <1>2, Zenon DEF SeedInv
<1>4. PICK N \in Nat, n \in Nat, t \in {0, 1} :
        N = Len(plan.thread) /\ n = Len(plan.path) /\ t = Triaged(plan)
  BY <1>2, PlanFacts, TriageFacts, Zenon
<1>5. Opened(plan) = N + t /\ Total(plan) = N + t + n + 1
  BY <1>4, Zenon DEF Opened, Total
<1>6. written < Total(plan)
  BY <1>1, <1>2, ScriptFacts, Zenon DEF ScriptIs
<1>7. written \in 0 .. Total(plan) /\ Draft(plan, written, row)
  BY <1>1, <1>3, <1>6, Zenon DEF SeedInv
<1>8. PICK w \in Nat : w = written /\ w < N + t + n + 1
  BY <1>5, <1>6, <1>7
<1>9. Wrote(plan, w, row, row') /\ Draft(plan, w, row)
  BY <1>7, <1>8, WriteWrites, Zenon
<1>10. w + 1 \in 0 .. Total(plan)
  BY <1>5, <1>8
<1>11. w + 1 < Total(plan) => Draft(plan, w + 1, row')
  <2>1. CASE w < N
    BY <1>2, <1>4, <1>9, <2>1, EntryKeeps, Zenon
  <2>2. CASE ~(w < N) /\ w < N + t
    <3>1. w = N /\ t = 1
      BY <2>2
    <3> QED BY <1>2, <1>4, <1>9, <3>1, TriageKeeps, Zenon
  <2>3. CASE ~(w < N + t)
    <3>1. Opened(plan) <= w
      BY <1>5, <2>3
    <3> QED BY <1>2, <1>9, <3>1, MoveKeeps, Zenon
  <2> QED BY <2>1, <2>2, <2>3, Zenon
<1>12. w + 1 = Total(plan) => Finished(plan, row')
  BY <1>2, <1>9, BackdateFinishes, Zenon
<1> QED BY <1>8, <1>10, <1>11, <1>12, Zenon

LEMMA SeedStep == SeedInv /\ [SeedNext]_seed => SeedInv'
<1> SUFFICES ASSUME SeedInv, [SeedNext]_seed PROVE SeedInv'
  BY Zenon
<1>1. CASE Write
  BY <1>1, WriteKeeps, Zenon
<1>2. CASE SweepMeanwhile
  <2>1. plan' = plan /\ overlapped'
    BY <1>2, Zenon DEF SweepMeanwhile
  <2> QED BY <2>1, Zenon DEF SeedInv
<1>3. CASE UNCHANGED seed
  BY <1>3, Zenon DEF SeedInv, seed
<1> QED BY <1>1, <1>2, <1>3, Zenon DEF SeedNext

(* A Ticket the seed has written has the clocks it would have if it had    *)
(* lived, its breaches are all latched and each is dated at the instant    *)
(* the clock showed the target, unless a sweep came between the            *)
(* statements: for every plan (writeTicket, replay, backdateClocks).       *)
THEOREM SeedsAreAFixedPoint == SeedSpec => []SeedIsAFixedPoint
<1>1. SeedInv => SeedIsAFixedPoint
  <2> SUFFICES ASSUME SeedInv, plan # <<>>, written = Len(Script(plan)), ~overlapped
               PROVE  LET lived == Lived(plan) IN
                      /\ \A column \in {"state", "pausedMs", "pauseStartedAt", "firstResponseAt"} :
                           row[column] = lived[column]
                      /\ dueIn(row, Now) = {}
                      /\ (row.latch["resolution"] # None) = (elapsed(lived, Now) > Resolution[plan.priority])
                      /\ row.latch["resolution"] # None =>
                           Showed(plan, row.latch["resolution"]) = Resolution[plan.priority]
                      /\ row.latch["first_response"] # None /\ lived.firstResponseAt # None =>
                           lived.firstResponseAt > FirstResponse[plan.priority]
    BY Zenon DEF SeedIsAFixedPoint
  <2>1. plan \in Plans
    BY Zenon DEF SeedInv
  <2>2. written = Total(plan)
    BY <2>1, ScriptFacts, Zenon DEF ScriptIs
  <2>3. Finished(plan, row)
    BY <2>2, Zenon DEF SeedInv
  <2>4. PICK l, end : l = Lived(plan) /\ end = walk(plan)[Len(plan.path) + 1]
    BY Zenon
  <2>5. Agree(plan, end, l)
    BY <2>1, <2>4, ReplayAgrees, Zenon
  <2>6. l.state = StateAt(plan, Len(plan.path)) /\ l.firstResponseAt = Heard(plan)[Len(plan.thread)].firstResponseAt
    <3>1. Len(plan.path) \in 0 .. Len(plan.path) /\ l = Moved(plan)[Len(plan.path)]
      BY <2>1, <2>4, PlanFacts, Ranges, Zenon DEF Lived
    <3> QED BY <2>1, <3>1, MovedFacts, Zenon
  <2>7. /\ row.state = l.state /\ row.priority = plan.priority
        /\ row.pausedMs = l.pausedMs /\ row.pauseStartedAt = l.pauseStartedAt
        /\ row.firstResponseAt = l.firstResponseAt
        /\ row.latch["resolution"] = end.breachedAt
        /\ row.latch["first_response"] = firstResponseBreach(plan.thread, FirstResponse[plan.priority])
    BY <2>3, <2>4, <2>5, <2>6, Zenon DEF Finished, Agree
  <2>8. /\ l.firstResponseAt = None /\ Now > FirstResponse[plan.priority] => row.latch["first_response"] # None
        /\ l.firstResponseAt # None /\ row.latch["first_response"] # None =>
             l.firstResponseAt > FirstResponse[plan.priority]
    BY <2>1, <2>6, <2>7, FirstResponsesAgree, Zenon
  <2>9. elapsed(row, Now) = elapsed(l, Now)
    BY <2>7, Zenon DEF elapsed
  <2>10. /\ (end.breachedAt # None) = (elapsed(l, Now) > Resolution[plan.priority])
         /\ end.breachedAt # None => Showed(plan, end.breachedAt) = Resolution[plan.priority]
    BY <2>5, Zenon DEF Agree
  <2>11. dueIn(row, Now) = {}
    <3>1. \A x \in Timers : x = "first_response" \/ x = "resolution"
      BY Zenon DEF Timers
    <3> QED BY <2>7, <2>8, <2>9, <2>10, <3>1, Zenon DEF dueIn
  <2>12. \A column \in {"state", "pausedMs", "pauseStartedAt", "firstResponseAt"} : row[column] = l[column]
    BY <2>7, Zenon
  <2> QED BY <2>4, <2>7, <2>8, <2>10, <2>11, <2>12, Zenon
<1>2. QED
  BY <1>1, SeedStarts, SeedStep, PTL DEF SeedSpec
==============================================================================
