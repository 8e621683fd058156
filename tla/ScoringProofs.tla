---------------------------- MODULE ScoringProofs ----------------------------
(***************************************************************************)
(* Theorems about Scoring, for any number of matches, legs and turns, any  *)
(* scores and whatever the descriptions leave out.                         *)
(***************************************************************************)
EXTENDS Scoring, FiniteSetTheorems, WellFoundedInduction, TLAPS

-----------------------------------------------------------------------------
(* Numbers *)

\* A nonempty set of numbers has a smallest one.
LEMMA Smallest ==
  ASSUME NEW S, S \subseteq Nat, S # {}
  PROVE  \E x \in S : \A y \in S : x =< y
<1> DEFINE R == OpToRel(<, Nat)
<1>1. \E x \in S : \A y \in S : ~ (<<y, x>> \in R)
  <2> HIDE DEF R
  <2>1. IsWellFoundedOn(R, Nat)
    BY NatLessThanWellFounded DEF R
  <2> QED BY <2>1, WFMin
<1>2. \A y, x \in Nat : <<y, x>> \in R <=> y < x
  BY DEF OpToRel
<1>3. PICK x \in S : \A y \in S : ~ (<<y, x>> \in R)
  <2> HIDE DEF R
  <2> QED BY <1>1
<1>4. ASSUME NEW y \in S
      PROVE  x =< y
  <2>1. x \in Nat /\ y \in Nat
    OBVIOUS
  <2>2. ~ (y < x)
    <3> HIDE DEF R
    <3> QED BY <1>2, <1>3, <2>1
  <2> QED BY <2>1, <2>2
<1> QED BY <1>4

\* Induction up to n, for a set of numbers.
LEMMA UpTo ==
  ASSUME NEW n \in Nat, NEW S, 0 \in S,
         \A i \in 0 .. n : i # n /\ i \in S => i + 1 \in S
  PROVE  0 .. n \subseteq S
<1> DEFINE Bad == {i \in Nat : i =< n /\ i \notin S}
<1>1. SUFFICES ASSUME Bad # {} PROVE FALSE
  OBVIOUS
<1>2. PICK x \in Bad : \A y \in Bad : x =< y
  <2>1. Bad \subseteq Nat
    OBVIOUS
  <2> QED BY <1>1, <2>1, Smallest
<1>3. x \in Nat /\ x # 0 /\ x =< n /\ x \notin S
  BY <1>2
<1>4. x - 1 \in 0 .. n /\ x - 1 # n /\ ~(x =< x - 1)
  BY <1>3
<1>5. x - 1 \in S
  BY <1>2, <1>4
<1>6. (x - 1) + 1 = x
  BY <1>3
<1> QED BY <1>3, <1>4, <1>5, <1>6

-----------------------------------------------------------------------------
(* Sums over finite sets *)

\* g sums up w over the subsets of S, taking out one element after the other.
Summing(g, w, S) ==
  g = [s \in SUBSET S |->
         IF s = {} THEN 0 ELSE w[CHOOSE x \in s : TRUE] + g[s \ {CHOOSE x \in s : TRUE}]]

LEMMA OneLess ==
  ASSUME NEW S, IsFiniteSet(S), NEW s \in SUBSET S, s # {}
  PROVE  LET x == CHOOSE y \in s : TRUE
         IN /\ x \in s /\ s \ {x} \in SUBSET S /\ IsFiniteSet(s) /\ Cardinality(s) \in Nat
            /\ Cardinality(s \ {x}) \in Nat /\ Cardinality(s \ {x}) = Cardinality(s) - 1
<1>1. PICK x : x = CHOOSE y \in s : TRUE
  OBVIOUS
<1>2. x \in s
  BY <1>1
<1>3. IsFiniteSet(s)
  BY FS_Subset
<1>4. IsFiniteSet(s \ {x}) /\ Cardinality(s \ {x}) = Cardinality(s) - 1
  BY <1>2, <1>3, FS_RemoveElement
<1>5. Cardinality(s) \in Nat /\ Cardinality(s \ {x}) \in Nat
  BY <1>3, <1>4, FS_CardinalityType
<1>6. s \ {x} \in SUBSET S
  OBVIOUS
<1> QED BY <1>1, <1>2, <1>3, <1>4, <1>5, <1>6

\* The recursion has a solution.
LEMMA SumsExist ==
  ASSUME NEW S, IsFiniteSet(S), NEW w
  PROVE  \E g : Summing(g, w, S)
<1> DEFINE pick(s) == CHOOSE x \in s : TRUE
           rest(s) == s \ {pick(s)}
           Upto(m) == {s \in SUBSET S : Cardinality(s) =< m}
           Solves(g, m) == \A s \in Upto(m) : g[s] = IF s = {} THEN 0 ELSE w[pick(s)] + g[rest(s)]
           Good == {m \in Nat : \E g : Solves(g, m)}
<1>0. \A s \in SUBSET S : s # {} => rest(s) \in SUBSET S /\ Cardinality(s) \in Nat
                                    /\ Cardinality(rest(s)) \in Nat /\ Cardinality(rest(s)) = Cardinality(s) - 1
  BY OneLess
<1> DEFINE n == Cardinality(S)
<1>1. n \in Nat /\ \A s \in SUBSET S : Cardinality(s) \in Nat /\ Cardinality(s) =< n /\ (Cardinality(s) = 0 <=> s = {})
  <2>1. n \in Nat
    BY FS_CardinalityType
  <2>2. ASSUME NEW s \in SUBSET S
        PROVE  Cardinality(s) \in Nat /\ Cardinality(s) =< n /\ (Cardinality(s) = 0 <=> s = {})
    <3>1. IsFiniteSet(s) /\ Cardinality(s) =< n
      BY FS_Subset
    <3> QED BY <3>1, FS_CardinalityType, FS_EmptySet
  <2> QED BY <2>1, <2>2
<1> HIDE DEF pick, rest, n
<1>2. 0 \in Good
  <2> DEFINE g == [s \in SUBSET S |-> 0]
  <2>1. ASSUME NEW s \in Upto(0) PROVE s \in SUBSET S /\ s = {}
    BY <1>1
  <2>2. Solves(g, 0)
    BY <2>1
  <2> QED BY <2>2
<1>3. ASSUME NEW m \in 0 .. n, m # n, m \in Good
      PROVE  m + 1 \in Good
  <2>0. m \in Nat /\ m + 1 \in Nat
    BY <1>1
  <2>1. PICK g : Solves(g, m)
    BY <1>3
  <2> DEFINE h == [s \in SUBSET S |-> IF Cardinality(s) = m + 1 THEN w[pick(s)] + g[rest(s)] ELSE g[s]]
  <2>2. ASSUME NEW s \in Upto(m + 1)
        PROVE  h[s] = IF s = {} THEN 0 ELSE w[pick(s)] + h[rest(s)]
    <3>0. s \in SUBSET S /\ Cardinality(s) \in Nat /\ Cardinality(s) =< m + 1
      BY <1>1
    <3>1. CASE Cardinality(s) = m + 1
      <4>1. s # {}
        BY <1>1, <2>0, <3>0, <3>1
      <4>2. rest(s) \in SUBSET S /\ Cardinality(rest(s)) # m + 1
        BY <1>0, <2>0, <3>0, <3>1, <4>1
      <4>3. h[rest(s)] = g[rest(s)]
        BY <4>2
      <4>4. h[s] = w[pick(s)] + g[rest(s)]
        BY <3>0, <3>1
      <4> QED BY <4>1, <4>3, <4>4
    <3>2. CASE Cardinality(s) # m + 1
      <4>1. s \in Upto(m)
        BY <2>0, <3>0, <3>2
      <4>2. g[s] = IF s = {} THEN 0 ELSE w[pick(s)] + g[rest(s)]
        BY <2>1, <4>1
      <4>3. h[s] = g[s]
        BY <3>0, <3>2
      <4>4. s # {} => rest(s) \in SUBSET S /\ Cardinality(rest(s)) # m + 1
        BY <1>0, <2>0, <3>0
      <4>5. s # {} => h[rest(s)] = g[rest(s)]
        BY <4>4
      <4> QED BY <4>2, <4>3, <4>5
    <3> QED BY <3>1, <3>2
  <2> HIDE DEF h
  <2>3. Solves(h, m + 1)
    BY <2>2
  <2> QED BY <2>0, <2>3
<1>4. n \in Good
  <2>1. \A m \in 0 .. n : m # n /\ m \in Good => m + 1 \in Good
    BY <1>3
  <2> HIDE DEF Good
  <2>2. 0 .. n \subseteq Good
    BY <1>1, <1>2, <2>1, UpTo
  <2>3. n \in 0 .. n
    BY <1>1
  <2> QED BY <2>2, <2>3
<1>5. PICK g : Solves(g, n)
  BY <1>4
<1> DEFINE h == [s \in SUBSET S |-> g[s]]
<1>6. h = [s \in SUBSET S |-> IF s = {} THEN 0 ELSE w[pick(s)] + h[rest(s)]]
  <2>1. ASSUME NEW s \in SUBSET S
        PROVE  h[s] = IF s = {} THEN 0 ELSE w[pick(s)] + h[rest(s)]
    <3>1. s \in Upto(n)
      BY <1>1
    <3>2. g[s] = IF s = {} THEN 0 ELSE w[pick(s)] + g[rest(s)]
      BY <1>5, <3>1
    <3>3. s # {} => rest(s) \in SUBSET S
      BY <1>0
    <3>4. h[s] = g[s] /\ (s # {} => h[rest(s)] = g[rest(s)])
      BY <3>3
    <3> QED BY <3>2, <3>4
  <2>2. h = [s \in SUBSET S |-> h[s]]
    OBVIOUS
  <2> HIDE DEF h
  <2> QED BY <2>1, <2>2
<1> HIDE DEF h
<1>7. Summing(h, w, S)
  BY <1>6 DEF Summing, pick, rest
<1> QED BY <1>7

Together(V, S) == UNION {V[x] : x \in S}

\* A sum of numbers of things is the number of all of them.
LEMMA SumIsCount ==
  ASSUME NEW S, IsFiniteSet(S), NEW w, NEW V, NEW g, Summing(g, w, S),
         \A x \in S : IsFiniteSet(V[x]) /\ w[x] = Cardinality(V[x]),
         \A x, y \in S : x # y => V[x] \cap V[y] = {}
  PROVE  IsFiniteSet(Together(V, S)) /\ g[S] = Cardinality(Together(V, S))
<1> DEFINE U(s) == Together(V, s)
           Fine(s) == IsFiniteSet(U(s)) /\ g[s] = Cardinality(U(s))
           Good == {m \in Nat : \A s \in SUBSET S : Cardinality(s) = m => Fine(s)}
           n == Cardinality(S)
<1>1. n \in Nat /\ \A s \in SUBSET S : Cardinality(s) = 0 <=> s = {}
  <2>1. n \in Nat
    BY FS_CardinalityType
  <2>2. ASSUME NEW s \in SUBSET S
        PROVE  Cardinality(s) = 0 <=> s = {}
    <3>1. IsFiniteSet(s)
      BY FS_Subset
    <3> QED BY <3>1, FS_EmptySet
  <2> QED BY <2>1, <2>2
<1>2. \A s \in SUBSET S :
        g[s] = IF s = {} THEN 0 ELSE w[CHOOSE x \in s : TRUE] + g[s \ {CHOOSE x \in s : TRUE}]
  BY DEF Summing
<1> HIDE DEF n
<1>3. 0 \in Good
  <2> SUFFICES ASSUME NEW s \in SUBSET S, Cardinality(s) = 0 PROVE Fine(s)
    OBVIOUS
  <2>1. s = {} /\ U(s) = {}
    BY <1>1 DEF Together
  <2>2. g[s] = 0
    BY <1>2, <2>1
  <2> QED BY <2>1, <2>2, FS_EmptySet
<1>4. ASSUME NEW m \in 0 .. n, m # n, m \in Good
      PROVE  m + 1 \in Good
  <2>0. m \in Nat /\ m + 1 \in Nat
    BY <1>1
  <2> SUFFICES ASSUME NEW s \in SUBSET S, Cardinality(s) = m + 1 PROVE Fine(s)
    BY <2>0
  <2>1. s # {}
    BY <1>1, <2>0
  <2>2. PICK x : x = CHOOSE y \in s : TRUE
    OBVIOUS
  <2>3. x \in s /\ s \ {x} \in SUBSET S /\ Cardinality(s \ {x}) = m
    <3>1. x \in s /\ s \ {x} \in SUBSET S /\ Cardinality(s \ {x}) = Cardinality(s) - 1
      BY <2>1, <2>2, OneLess
    <3> QED BY <2>0, <3>1
  <2>4. Fine(s \ {x})
    BY <1>4, <2>3
  <2>5. g[s] = w[x] + g[s \ {x}]
    BY <1>2, <2>1, <2>2
  <2>6. U(s) = V[x] \cup U(s \ {x}) /\ V[x] \cap U(s \ {x}) = {}
    <3>1. \A y \in s \ {x} : V[x] \cap V[y] = {}
      BY <2>3
    <3> QED BY <2>3, <3>1 DEF Together
  <2>7. IsFiniteSet(V[x]) /\ w[x] = Cardinality(V[x])
    BY <2>3
  <2> HIDE DEF U
  <2>8. IsFiniteSet(V[x] \cup U(s \ {x}))
        /\ Cardinality(V[x] \cup U(s \ {x})) = Cardinality(V[x]) + Cardinality(U(s \ {x})) - Cardinality(V[x] \cap U(s \ {x}))
    BY <2>4, <2>7, FS_Union
  <2>9. Cardinality(V[x] \cap U(s \ {x})) = 0 /\ Cardinality(V[x]) \in Nat /\ Cardinality(U(s \ {x})) \in Nat
    BY <2>4, <2>6, <2>7, FS_EmptySet, FS_CardinalityType
  <2> QED BY <2>4, <2>5, <2>6, <2>7, <2>8, <2>9
<1>5. n \in Good
  <2>1. \A m \in 0 .. n : m # n /\ m \in Good => m + 1 \in Good
    BY <1>4
  <2> HIDE DEF Good
  <2>2. 0 .. n \subseteq Good
    BY <1>1, <1>3, <2>1, UpTo
  <2>3. n \in 0 .. n
    BY <1>1
  <2> QED BY <2>2, <2>3
<1>6. Fine(S)
  BY <1>5 DEF n
<1> QED BY <1>6

\* A sum, as the server computes it
Total(w, S) == (CHOOSE g : Summing(g, w, S))[S]

LEMMA TotalIsCount ==
  ASSUME NEW S, IsFiniteSet(S), NEW w, NEW V,
         \A x \in S : IsFiniteSet(V[x]) /\ w[x] = Cardinality(V[x]),
         \A x, y \in S : x # y => V[x] \cap V[y] = {}
  PROVE  IsFiniteSet(Together(V, S)) /\ Total(w, S) = Cardinality(Together(V, S))
<1>1. \E g : Summing(g, w, S)
  BY SumsExist
<1>2. PICK g : g = CHOOSE h : Summing(h, w, S)
  OBVIOUS
<1>3. Summing(g, w, S)
  BY <1>1, <1>2, Zenon
<1>4. IsFiniteSet(Together(V, S)) /\ g[S] = Cardinality(Together(V, S))
  BY <1>3, SumIsCount
<1> QED BY <1>2, <1>4 DEF Total

\* n things named after x
Stack(x, n) == {<<x, i>> : i \in 1 .. n}

LEMMA StackHas ==
  ASSUME NEW x, NEW n \in Nat
  PROVE  IsFiniteSet(Stack(x, n)) /\ Cardinality(Stack(x, n)) = n
<1>1. IsFiniteSet(1 .. n) /\ Cardinality(1 .. n) = n
  <2>1. 1 \in Int /\ n \in Int
    OBVIOUS
  <2>2. IsFiniteSet(1 .. n) /\ Cardinality(1 .. n) = IF 1 > n THEN 0 ELSE n - 1 + 1
    BY <2>1, FS_Interval
  <2> QED BY <2>2
<1> DEFINE f == [i \in 1 .. n |-> <<x, i>>]
           T == Stack(x, n)
<1>2. f \in [1 .. n -> T] /\ (\A i, k \in 1 .. n : f[i] = f[k] => i = k) /\ (\A t \in T : \E i \in 1 .. n : f[i] = t)
  BY DEF Stack
<1> HIDE DEF f, T
<1>3. f \in Surjection(1 .. n, T) /\ f \in Injection(1 .. n, T)
  BY <1>2, Zenon DEF Surjection, Injection, IsInjective
<1>4. IsFiniteSet(T) /\ Cardinality(T) = Cardinality(1 .. n)
  BY <1>1, <1>3, FS_Surjection
<1> QED BY <1>1, <1>4 DEF T

\* As many things as a sum counts
Heap(w, S) == UNION {Stack(x, w[x]) : x \in S}

LEMMA TotalIsHeap ==
  ASSUME NEW S, IsFiniteSet(S), NEW w, \A x \in S : w[x] \in Nat
  PROVE  IsFiniteSet(Heap(w, S)) /\ Total(w, S) = Cardinality(Heap(w, S)) /\ Total(w, S) \in Nat
<1> DEFINE V == [x \in S |-> Stack(x, w[x])]
<1>1. \A x \in S : V[x] = Stack(x, w[x])
  OBVIOUS
<1> HIDE DEF V
<1>2. \A x \in S : IsFiniteSet(V[x]) /\ w[x] = Cardinality(V[x])
  BY <1>1, StackHas
<1>3. \A x, y \in S : x # y => V[x] \cap V[y] = {}
  BY <1>1 DEF Stack
<1>4. Heap(w, S) = Together(V, S)
  BY <1>1, Zenon DEF Heap, Together
<1>5. IsFiniteSet(Together(V, S)) /\ Total(w, S) = Cardinality(Together(V, S))
  BY <1>2, <1>3, TotalIsCount
<1> QED BY <1>4, <1>5, FS_CardinalityType

LEMMA TotalAgrees ==
  ASSUME NEW S, IsFiniteSet(S), NEW w, NEW v, \A x \in S : w[x] \in Nat /\ v[x] = w[x]
  PROVE  Total(w, S) = Total(v, S)
<1>1. Heap(w, S) = Heap(v, S)
  BY DEF Heap
<1>2. Total(w, S) = Cardinality(Heap(w, S))
  BY TotalIsHeap
<1>3. Total(v, S) = Cardinality(Heap(v, S))
  <2>1. \A x \in S : v[x] \in Nat
    OBVIOUS
  <2> QED BY <2>1, TotalIsHeap
<1> QED BY <1>1, <1>2, <1>3

LEMMA TotalOfUnion ==
  ASSUME NEW A, IsFiniteSet(A), NEW B, IsFiniteSet(B), A \cap B = {}, NEW w, \A x \in A \cup B : w[x] \in Nat
  PROVE  Total(w, A \cup B) = Total(w, A) + Total(w, B)
<1>1. IsFiniteSet(A \cup B)
  BY FS_Union
<1>2. Total(w, A \cup B) = Cardinality(Heap(w, A \cup B))
  BY <1>1, TotalIsHeap
<1>3. Total(w, A) = Cardinality(Heap(w, A)) /\ IsFiniteSet(Heap(w, A)) /\ Total(w, A) \in Nat
  <2>1. \A x \in A : w[x] \in Nat
    OBVIOUS
  <2> QED BY <2>1, TotalIsHeap
<1>4. Total(w, B) = Cardinality(Heap(w, B)) /\ IsFiniteSet(Heap(w, B)) /\ Total(w, B) \in Nat
  <2>1. \A x \in B : w[x] \in Nat
    OBVIOUS
  <2> QED BY <2>1, TotalIsHeap
<1>5. Heap(w, A \cup B) = Heap(w, A) \cup Heap(w, B)
  BY DEF Heap
<1>6. Heap(w, A) \cap Heap(w, B) = {}
  <2>1. \A x \in A, y \in B : x # y
    OBVIOUS
  <2> QED BY <2>1 DEF Heap, Stack
<1>7. Cardinality(Heap(w, A) \cup Heap(w, B)) = Cardinality(Heap(w, A)) + Cardinality(Heap(w, B)) - Cardinality(Heap(w, A) \cap Heap(w, B))
  BY <1>3, <1>4, FS_Union
<1>8. Cardinality(Heap(w, A) \cap Heap(w, B)) = 0
  BY <1>6, FS_EmptySet
<1>9. Total(w, A \cup B) = Cardinality(Heap(w, A) \cup Heap(w, B))
  BY <1>2, <1>5, Zenon
<1> QED BY <1>3, <1>4, <1>7, <1>8, <1>9

LEMMA TotalOfParts ==
  ASSUME NEW S, IsFiniteSet(S), NEW P, NEW v, NEW w, IsFiniteSet(Together(P, S)),
         \A z \in Together(P, S) : v[z] \in Nat,
         \A x, y \in S : x # y => P[x] \cap P[y] = {},
         \A x \in S : w[x] = Total(v, P[x])
  PROVE  Total(w, S) = Total(v, Together(P, S))
<1> DEFINE V == [x \in S |-> Heap(v, P[x])]
<1>1. \A x \in S : V[x] = Heap(v, P[x])
  OBVIOUS
<1> HIDE DEF V
<1>2. ASSUME NEW x \in S
      PROVE  IsFiniteSet(V[x]) /\ w[x] = Cardinality(V[x])
  <2>1. PICK Q : Q = P[x]
    OBVIOUS
  <2>2. Q \subseteq Together(P, S)
    BY <2>1 DEF Together
  <2>3. IsFiniteSet(Q) /\ \A z \in Q : v[z] \in Nat
    BY <2>2, FS_Subset
  <2>4. IsFiniteSet(Heap(v, Q)) /\ Total(v, Q) = Cardinality(Heap(v, Q))
    BY <2>3, TotalIsHeap
  <2> QED BY <1>1, <2>1, <2>4
<1>3. ASSUME NEW x \in S, NEW y \in S, x # y
      PROVE  V[x] \cap V[y] = {}
  <2>1. \A z \in P[x], u \in P[y] : z # u
    BY <1>3
  <2> QED BY <1>1, <2>1 DEF Heap, Stack
<1>4. Together(V, S) = Heap(v, Together(P, S))
  <2>1. \A z : z \in Together(V, S) <=> \E x \in S : \E u \in P[x] : z \in Stack(u, v[u])
    BY <1>1 DEF Together, Heap
  <2>2. \A z : z \in Heap(v, Together(P, S)) <=> \E x \in S : \E u \in P[x] : z \in Stack(u, v[u])
    BY DEF Together, Heap
  <2> QED BY <2>1, <2>2
<1>5. Total(w, S) = Cardinality(Together(V, S))
  BY <1>2, <1>3, TotalIsCount
<1>6. Total(v, Together(P, S)) = Cardinality(Heap(v, Together(P, S)))
  BY TotalIsHeap
<1> QED BY <1>4, <1>5, <1>6

LEMMA TotalAtMost ==
  ASSUME NEW S, IsFiniteSet(S), NEW w, NEW v, \A x \in S : w[x] \in Nat /\ v[x] \in Nat /\ w[x] =< v[x]
  PROVE  Total(w, S) =< Total(v, S)
<1>1. Heap(w, S) \subseteq Heap(v, S)
  <2>1. ASSUME NEW x \in S
        PROVE  Stack(x, w[x]) \subseteq Stack(x, v[x])
    <3>1. 1 .. w[x] \subseteq 1 .. v[x]
      BY <2>1
    <3> QED BY <3>1 DEF Stack
  <2> QED BY <2>1 DEF Heap
<1>2. \A x \in S : w[x] \in Nat
  OBVIOUS
<1>3. \A x \in S : v[x] \in Nat
  OBVIOUS
<1>4. Total(w, S) = Cardinality(Heap(w, S))
  BY <1>2, TotalIsHeap
<1>5. Total(v, S) = Cardinality(Heap(v, S)) /\ IsFiniteSet(Heap(v, S))
  BY <1>3, TotalIsHeap
<1>6. Cardinality(Heap(w, S)) =< Cardinality(Heap(v, S))
  BY <1>1, <1>5, FS_Subset
<1> QED BY <1>4, <1>5, <1>6

\* A sum over other names for the same things
LEMMA TotalMoved ==
  ASSUME NEW A, IsFiniteSet(A), NEW B, IsFiniteSet(B), NEW f, NEW w, NEW v,
         \A a \in A : f[a] \in B /\ w[a] = v[f[a]] /\ w[a] \in Nat,
         \A a, x \in A : f[a] = f[x] => a = x,
         \A b \in B : \E a \in A : f[a] = b
  PROVE  Total(w, A) = Total(v, B)
<1> DEFINE V == [a \in A |-> Stack(f[a], v[f[a]])]
<1>1. \A a \in A : V[a] = Stack(f[a], v[f[a]])
  OBVIOUS
<1> HIDE DEF V
<1>2. ASSUME NEW a \in A
      PROVE  IsFiniteSet(V[a]) /\ w[a] = Cardinality(V[a])
  <2>1. PICK b, n : b = f[a] /\ n = v[f[a]]
    OBVIOUS
  <2>2. n \in Nat /\ n = w[a] /\ V[a] = Stack(b, n)
    BY <1>1, <2>1
  <2> QED BY <2>2, StackHas
<1>3. \A a, x \in A : a # x => V[a] \cap V[x] = {}
  BY <1>1 DEF Stack
<1>4. Together(V, A) = Heap(v, B)
  <2>1. \A z : z \in Together(V, A) <=> \E a \in A : z \in Stack(f[a], v[f[a]])
    BY <1>1 DEF Together
  <2>2. \A z : z \in Heap(v, B) <=> \E b \in B : z \in Stack(b, v[b])
    BY DEF Heap
  <2>3. \A z : (\E a \in A : z \in Stack(f[a], v[f[a]])) <=> (\E b \in B : z \in Stack(b, v[b]))
    <3> SUFFICES ASSUME NEW z
                 PROVE  (\E a \in A : z \in Stack(f[a], v[f[a]])) <=> (\E b \in B : z \in Stack(b, v[b]))
      OBVIOUS
    <3>1. ASSUME NEW a \in A, z \in Stack(f[a], v[f[a]])
          PROVE  \E b \in B : z \in Stack(b, v[b])
      BY <3>1
    <3>2. ASSUME NEW b \in B, z \in Stack(b, v[b])
          PROVE  \E a \in A : z \in Stack(f[a], v[f[a]])
      BY <3>2
    <3> QED BY <3>1, <3>2
  <2>4. \A z : z \in Together(V, A) <=> z \in Heap(v, B)
    BY <2>1, <2>2, <2>3, Zenon
  <2> QED BY <2>4
<1>5. Total(w, A) = Cardinality(Together(V, A))
  BY <1>2, <1>3, TotalIsCount
<1>6. \A b \in B : v[b] \in Nat
  OBVIOUS
<1>7. Total(v, B) = Cardinality(Heap(v, B))
  BY <1>6, TotalIsHeap
<1> QED BY <1>4, <1>5, <1>7

LEMMA SumIs ==
  ASSUME NEW S, NEW w, DOMAIN w = S
  PROVE  SumFunction(w) = Total(w, S)
<1> DEFINE Sums(g) == g = [s \in SUBSET S |->
             IF s = {} THEN 0 ELSE w[CHOOSE x \in s : TRUE] + g[s \ {CHOOSE x \in s : TRUE}]]
<1>1. \A g : Sums(g) <=> Summing(g, w, S)
  BY DEF Summing
<1> HIDE DEF Sums
<1>2. (CHOOSE g : Sums(g)) = (CHOOSE g : Summing(g, w, S))
  BY <1>1, Zenon
<1>3. SumFunction(w) = (CHOOSE g : Sums(g))[S]
  BY DEF SumFunction, SumFunctionOnSet, FoldFunctionOnSet, MapThenFoldSet, Sums
<1> QED BY <1>2, <1>3 DEF Total

Largest(S) == S # {} /\ Max(S) \in S /\ \A x \in S : Max(S) >= x

\* A finite set of numbers has a largest one.
LEMMA LargestIs ==
  ASSUME NEW S, IsFiniteSet(S), S \subseteq Nat, S # {}
  PROVE  Largest(S)
<1>1. \E x \in S : \A y \in S : x >= y
  <2> DEFINE T == {n \in Nat : \A y \in S : n >= y}
  <2>1. T # {}
    <3> DEFINE w == [x \in S |-> x]
    <3>1. \A x \in S : w[x] \in Nat
      OBVIOUS
    <3> HIDE DEF w
    <3>2. PICK n : n = Total(w, S)
      OBVIOUS
    <3>3. n \in Nat
      BY <3>1, <3>2, TotalIsHeap
    <3>4. ASSUME NEW x \in S PROVE n >= x
      <4>1. Stack(x, w[x]) \subseteq Heap(w, S)
        BY DEF Heap
      <4>2. w[x] = x
        BY DEF w
      <4>3. IsFiniteSet(Heap(w, S)) /\ Cardinality(Heap(w, S)) = n
        BY <3>1, <3>2, TotalIsHeap
      <4>4. Cardinality(Stack(x, x)) = x
        BY StackHas
      <4>5. Cardinality(Stack(x, x)) =< Cardinality(Heap(w, S))
        BY <4>1, <4>2, <4>3, FS_Subset
      <4> QED BY <3>3, <4>3, <4>4, <4>5
    <3> QED BY <3>3, <3>4
  <2>2. T \subseteq Nat
    OBVIOUS
  <2>3. PICK n \in T : \A y \in T : n =< y
    BY <2>1, <2>2, Smallest
  <2>4. n \in S
    <3> SUFFICES ASSUME n \notin S PROVE FALSE
      OBVIOUS
    <3>1. PICK x \in S : TRUE
      OBVIOUS
    <3>2. n > 0 /\ n \in Nat
      BY <2>3, <3>1
    <3>3. n - 1 \in Nat /\ \A y \in S : n - 1 >= y
      BY <2>3, <3>2
    <3>4. n - 1 \in T
      BY <3>3
    <3> QED BY <2>3, <3>2, <3>4
  <2> QED BY <2>3, <2>4
<1>2. PICK x : x = Max(S)
  OBVIOUS
<1>3. x \in S /\ \A y \in S : x >= y
  BY <1>1, <1>2 DEF Max
<1> QED BY <1>2, <1>3 DEF Largest

\* What a finite set names is finite.
LEMMA NamedIsFinite ==
  ASSUME NEW S, IsFiniteSet(S), NEW f, NEW T, \A t \in T : \E x \in S : f[x] = t
  PROVE  IsFiniteSet(T)
<1> DEFINE U == {f[x] : x \in S}
           g == [x \in S |-> f[x]]
<1>1. g \in [S -> U] /\ \A u \in U : \E x \in S : g[x] = u
  OBVIOUS
<1>2. T \subseteq U
  OBVIOUS
<1> HIDE DEF g, U
<1>3. g \in Surjection(S, U)
  BY <1>1, Zenon DEF Surjection
<1>4. IsFiniteSet(U)
  BY <1>3, FS_Surjection
<1> QED BY <1>2, <1>4, FS_Subset

\* Two parts of a set and the whole of it
Parts(A, B, C) == C = A \cup B /\ A \cap B = {}

LEMMA PartsAdd ==
  ASSUME NEW A, NEW B, NEW C, IsFiniteSet(C), Parts(A, B, C)
  PROVE  /\ Cardinality(A) \in Nat /\ Cardinality(B) \in Nat
         /\ Cardinality(A) + Cardinality(B) = Cardinality(C)
<1>1. IsFiniteSet(A) /\ IsFiniteSet(B)
  BY FS_Subset DEF Parts
<1>2. Cardinality(A) \in Nat /\ Cardinality(B) \in Nat
  BY <1>1, FS_CardinalityType
<1>3. Cardinality(A \cup B) = Cardinality(A) + Cardinality(B) - Cardinality(A \cap B)
  BY <1>1, FS_Union
<1>4. C = A \cup B /\ Cardinality(A \cap B) = 0
  BY FS_EmptySet DEF Parts
<1> QED BY <1>2, <1>3, <1>4

\* The sum of a function over two parts of its domain
LEMMA SumsAdd ==
  ASSUME NEW A, NEW B, NEW C, IsFiniteSet(C), Parts(A, B, C), NEW w, DOMAIN w = C, \A x \in C : w[x] \in Nat,
         NEW u, DOMAIN u = A, \A x \in A : u[x] = w[x],
         NEW v, DOMAIN v = B, \A x \in B : v[x] = w[x]
  PROVE  SumFunction(u) + SumFunction(v) = SumFunction(w)
<1>1. IsFiniteSet(A) /\ IsFiniteSet(B) /\ C = A \cup B /\ A \cap B = {}
  BY FS_Subset DEF Parts
<1>2. Total(w, A \cup B) = Total(w, A) + Total(w, B)
  BY <1>1, TotalOfUnion
<1>3. Total(u, A) = Total(w, A)
  <2>1. \A x \in A : u[x] \in Nat /\ w[x] = u[x]
    BY <1>1
  <2> QED BY <1>1, <2>1, TotalAgrees
<1>4. Total(v, B) = Total(w, B)
  <2>1. \A x \in B : v[x] \in Nat /\ w[x] = v[x]
    BY <1>1
  <2> QED BY <1>1, <2>1, TotalAgrees
<1>5. SumFunction(u) = Total(u, A) /\ SumFunction(v) = Total(v, B) /\ SumFunction(w) = Total(w, C)
  BY SumIs
<1> QED BY <1>1, <1>2, <1>3, <1>4, <1>5

-----------------------------------------------------------------------------
(* The loop over the turns *)

Count(turns, s) == Counting(turns, s)[Len(turns)]

Counter == [points : Nat, darts : Nat, first9 : Nat \X Nat, c180 : Nat, c140 : Nat, c100 : Nat]

\* One turn more of the loop
StepAt(turns, s, i, ls) == IF turns[i].slot = s THEN WithTurn(ls, turns[i]) ELSE ls

\* The recursion has a solution.
LEMMA CountingIs ==
  ASSUME NEW turns, NEW n \in Nat, n = Len(turns), NEW s
  PROVE  LET C == Counting(turns, s)
         IN /\ C[0] = NothingThrown
            /\ \A i \in 1 .. n : C[i] = StepAt(turns, s, i, C[i - 1])
<1> DEFINE Step(i, ls) == IF turns[i].slot = s THEN WithTurn(ls, turns[i]) ELSE ls
           SolvesUpTo(g, m) == g = [i \in 0 .. m |-> IF i = 0 THEN NothingThrown ELSE Step(i, g[i - 1])]
           S == {m \in Nat : \E g : SolvesUpTo(g, m)}
<1> HIDE DEF Step
<1>1. 0 \in S
  <2>1. SolvesUpTo([i \in 0 .. 0 |-> NothingThrown], 0)
    OBVIOUS
  <2> QED BY <2>1
<1>2. ASSUME NEW m \in 0 .. n, m # n, m \in S
      PROVE  m + 1 \in S
  <2>1. PICK g : SolvesUpTo(g, m)
    BY <1>2
  <2>2. \A i \in 0 .. m : g[i] = IF i = 0 THEN NothingThrown ELSE Step(i, g[i - 1])
    BY <2>1
  <2> DEFINE h == [i \in 0 .. m + 1 |-> IF i = m + 1 THEN Step(m + 1, g[m]) ELSE g[i]]
  <2>3. \A i \in 0 .. m + 1 : h[i] = IF i = 0 THEN NothingThrown ELSE Step(i, h[i - 1])
    <3> SUFFICES ASSUME NEW i \in 0 .. m + 1
                 PROVE  h[i] = IF i = 0 THEN NothingThrown ELSE Step(i, h[i - 1])
      OBVIOUS
    <3>1. CASE i = m + 1
      <4>1. i # 0 /\ i - 1 = m /\ m \in 0 .. m + 1 /\ m # m + 1
        BY <3>1
      <4>2. h[i - 1] = g[m]
        BY <4>1
      <4> QED BY <3>1, <4>1, <4>2
    <3>2. CASE i # m + 1
      <4>1. i \in 0 .. m /\ (i # 0 => i - 1 \in 0 .. m + 1 /\ i - 1 # m + 1)
        BY <3>2
      <4>2. i # 0 => h[i - 1] = g[i - 1]
        BY <4>1
      <4> QED BY <2>2, <3>2, <4>1, <4>2
    <3> QED BY <3>1, <3>2
  <2>4. SolvesUpTo(h, m + 1)
    <3>1. h = [i \in 0 .. m + 1 |-> h[i]]
      OBVIOUS
    <3> HIDE DEF h
    <3> QED BY <2>3, <3>1
  <2>5. m + 1 \in Nat
    OBVIOUS
  <2> HIDE DEF h
  <2> QED BY <2>4, <2>5
<1>3. n \in S
  <2>1. \A m \in 0 .. n : m # n /\ m \in S => m + 1 \in S
    BY <1>2
  <2> HIDE DEF S
  <2>2. 0 .. n \subseteq S
    BY <1>1, <2>1, UpTo
  <2>3. n \in 0 .. n
    OBVIOUS
  <2> QED BY <2>2, <2>3
<1> DEFINE A == CHOOSE g : SolvesUpTo(g, n)
<1>4. Counting(turns, s) = A
  BY DEF Counting, Step
<1>5. SolvesUpTo(A, n)
  BY <1>3
<1> HIDE DEF A
<1>6. A[0] = NothingThrown /\ \A i \in 1 .. n : A[i] = Step(i, A[i - 1])
  <2>1. \A i \in 1 .. n : i \in 0 .. n /\ i # 0
    OBVIOUS
  <2> QED BY <1>5, <2>1
<1> QED BY <1>4, <1>6 DEF Step, StepAt

LEMMA CountNothing ==
  ASSUME NEW s
  PROVE  Count(<<>>, s) = NothingThrown
<1>1. Len(<<>>) = 0
  OBVIOUS
<1>2. PICK n : n = 0
  OBVIOUS
<1>3. n \in Nat /\ n = Len(<<>>)
  BY <1>1, <1>2
<1> QED BY <1>1, <1>3, CountingIs DEF Count

\* A turn adds to what was counted before it.
LEMMA CountOneMore ==
  ASSUME NEW turns \in Seq(Turn), NEW t \in Turn, NEW s
  PROVE  Count(Append(turns, t), s) = IF t.slot = s THEN WithTurn(Count(turns, s), t) ELSE Count(turns, s)
<1> DEFINE more == Append(turns, t)
           C == Counting(turns, s)
           D == Counting(more, s)
<1>1. PICK n : n = Len(turns)
  OBVIOUS
<1>2. /\ n \in Nat /\ Len(more) = n + 1 /\ n + 1 \in Nat /\ more[n + 1] = t
      /\ \A i \in 1 .. n : more[i] = turns[i]
  BY <1>1
<1> HIDE DEF more
<1>3. C[0] = NothingThrown /\ \A i \in 1 .. n : C[i] = StepAt(turns, s, i, C[i - 1])
  BY <1>1, <1>2, CountingIs
<1>4. D[0] = NothingThrown /\ \A i \in 1 .. n + 1 : D[i] = StepAt(more, s, i, D[i - 1])
  BY <1>2, CountingIs
<1> HIDE DEF C, D
<1> DEFINE S == {i \in Nat : D[i] = C[i]}
<1>5. 0 .. n \subseteq S
  <2>1. 0 \in S
    BY <1>3, <1>4
  <2>2. ASSUME NEW i \in 0 .. n, i # n, i \in S
        PROVE  i + 1 \in S
    <3>1. i + 1 \in 1 .. n /\ i + 1 \in 1 .. n + 1 /\ (i + 1) - 1 = i /\ i + 1 \in Nat
      BY <1>2, <2>2
    <3>2. D[i + 1] = StepAt(more, s, i + 1, D[i]) /\ C[i + 1] = StepAt(turns, s, i + 1, C[i])
      BY <1>3, <1>4, <3>1
    <3>3. more[i + 1] = turns[i + 1] /\ D[i] = C[i]
      BY <1>2, <2>2, <3>1
    <3> QED BY <3>1, <3>2, <3>3 DEF StepAt
  <2> HIDE DEF S
  <2> QED BY <1>2, <2>1, <2>2, UpTo
<1>6. D[n] = C[n]
  BY <1>2, <1>5
<1>7. D[n + 1] = StepAt(more, s, n + 1, D[n])
  BY <1>2, <1>4
<1>8. Count(turns, s) = C[n] /\ Count(more, s) = D[n + 1]
  BY <1>1, <1>2 DEF Count, C, D
<1> QED BY <1>2, <1>6, <1>7, <1>8 DEF StepAt, more

LEMMA TurnCounts ==
  ASSUME NEW ls \in Counter, NEW t \in Turn
  PROVE  /\ WithTurn(ls, t) \in Counter /\ PointsOf(t) \in Nat /\ DartsOf(t) \in Nat
         /\ WithTurn(ls, t).points = ls.points + PointsOf(t)
         /\ WithTurn(ls, t).darts = ls.darts + DartsOf(t)
<1>1. PointsOf(t) \in Nat /\ DartsOf(t) \in Nat
  BY NoneAssumption DEF Turn, PointsOf, DartsOf
<1>2. ls.first9[1] \in Nat /\ ls.first9[2] \in Nat /\ ls.first9 \in Nat \X Nat
  BY DEF Counter
<1>3. Opening(ls.first9, t) \in Nat \X Nat
  BY <1>1, <1>2 DEF Opening
<1> QED BY <1>1, <1>3 DEF WithTurn, Counter

-----------------------------------------------------------------------------
(* A match as it is played *)

\* What is counted of a slot's turns is what it has thrown.
Agreed(g, s) ==
  LET ls == Count(g.turns, s)
      y  == g.tally[s]
  IN /\ ls \in Counter
     /\ ls.points = y.points /\ ls.c180 = y.c180 /\ ls.c140 = y.c140 /\ ls.c100 = y.c100
     /\ g.source.throws => ls.darts = y.darts
     /\ y.darts = 0 => ls.darts = 0
     /\ y.points <= Base
     /\ g.legWinner # s => y.checkout = 0

\* The last turn of a leg is its winner's, and in X01 the checkout.
Ended(g, s) ==
  g.legWinner = s =>
    LET n == Len(g.turns)
    IN /\ n > 0 /\ g.turns[n].slot = s
       /\ g.variant = "X01" => g.tally[s].points = Base /\ g.tally[s].checkout = g.turns[n].score

\* Who has won the match has won its last leg.
Leading(g, s) ==
  /\ g.wins[s] <= g.target
  /\ g.legWinner # s => g.wins[s] < g.target
  /\ g.legWinner = s => g.wins[s] > 0

\* The first nine darts are those of the turns that begin before the tenth.
Opened9(y) == IF y.darts < 9 THEN y.first9 = <<y.points, y.darts>> ELSE 9 <= y.first9[2] /\ y.first9[2] <= y.darts

\* Who has thrown the whole score has won the leg, in X01 with a turn that could win it; the
\* first nine darts are also those the turns show; and of the turns that could win a leg at
\* most all have.
Kept(g, s) ==
  LET y == g.tally[s]
  IN /\ y.points = Base => g.legWinner = s
     /\ g.variant = "X01" /\ g.legWinner = s => y.tries > 0
     /\ Opened9(y)
     /\ g.source.throws => Count(g.turns, s).first9 = y.first9
     /\ g.outs[s][1] <= g.outs[s][2]

Played(g) == g \in Game /\ \A s \in Slots : Agreed(g, s) /\ Ended(g, s) /\ Leading(g, s) /\ Kept(g, s)

\* The same match, and the same leg of it
SameMatch(h, g) ==
  /\ h.playedAt = g.playedAt /\ h.variant = g.variant /\ h.slots = g.slots /\ h.source = g.source
  /\ h.target = g.target

Continues(h, g) ==
  /\ SameMatch(h, g) /\ h.leg = g.leg
  /\ \A s \in Slots : h.wins[s] = g.wins[s] + (IF h.legWinner = s THEN 1 ELSE 0)

LEMMA GameHas ==
  ASSUME NEW g \in Game
  PROVE  /\ g.playedAt \in Nat /\ g.slots \in Pairings /\ g.source \in Source /\ g.target \in Nat \ {0}
         /\ g.leg \in Nat /\ g.turns \in Seq(Turn) /\ g.tally \in [Slots -> Tally]
         /\ g.outs \in [Slots -> Nat \X Nat] /\ g.legWinner \in Slots \cup {None}
         /\ g.wins \in [Slots -> Nat] /\ g.variant \in Variants
BY ScoringAssumption DEF Game

\* A new leg
LEMMA FreshLeg ==
  ASSUME NEW g \in Game, g.turns = <<>>, g.tally = [s \in Slots |-> NoThrows], g.legWinner = None,
         \A s \in Slots : g.wins[s] < g.target /\ g.outs[s][1] <= g.outs[s][2]
  PROVE  Played(g)
<1> SUFFICES ASSUME NEW s \in Slots PROVE Agreed(g, s) /\ Ended(g, s) /\ Leading(g, s) /\ Kept(g, s)
  BY DEF Played
<1>1. g.tally[s] = NoThrows
  OBVIOUS
<1>2. Count(g.turns, s) = NothingThrown
  BY CountNothing
<1>3. None # s
  BY NoneAssumption DEF Slots
<1>4. Agreed(g, s)
  BY <1>1, <1>2, ScoringAssumption DEF Agreed, NoThrows, NothingThrown, Counter
<1>5. g.wins[s] \in Nat /\ g.target \in Nat
  BY GameHas
<1>6. Kept(g, s)
  BY <1>1, <1>2, <1>3, ScoringAssumption DEF Kept, Opened9, NoThrows, NothingThrown
<1> QED BY <1>3, <1>4, <1>5, <1>6 DEF Ended, Leading

LEMMA OpenedIsPlayed ==
  ASSUME now \in Nat, NEW pair \in Pairings, NEW v \in Variants, NEW source \in Sources, NEW n \in Targets
  PROVE  Played(Opened(pair, v, source, n))
<1>1. PICK g : g = Opened(pair, v, source, n)
  OBVIOUS
<1>2. NoThrows \in Tally
  BY DEF NoThrows, Tally
<1>3. <<>> \in Seq(Turn) /\ <<0, 0>> \in Nat \X Nat
  OBVIOUS
<1>4. g \in Game
  BY <1>1, <1>2, <1>3 DEF Opened, Game
<1>5. \A s \in Slots : g.wins[s] < g.target /\ g.outs[s][1] <= g.outs[s][2]
  BY <1>1, ScoringAssumption DEF Opened
<1> QED BY <1>1, <1>4, <1>5, FreshLeg DEF Opened

LEMMA NextLegIsPlayed ==
  ASSUME NEW g, Played(g), ~Over(g),
         NEW h, h = AfterLeg(g)
  PROVE  Played(h) /\ SameMatch(h, g) /\ h.leg = g.leg + 1 /\ h.legWinner = None /\ h.wins = g.wins
<1>1. h = AfterLeg(g)
  OBVIOUS
<1>2. g \in Game /\ NoThrows \in Tally /\ <<>> \in Seq(Turn)
  BY DEF Played, NoThrows, Tally
<1>3. /\ h.turns = <<>> /\ h.tally = [s \in Slots |-> NoThrows] /\ h.legWinner = None
      /\ h.leg = g.leg + 1 /\ h.wins = g.wins /\ h.slots = g.slots /\ h.variant = g.variant
      /\ h.playedAt = g.playedAt /\ h.source = g.source /\ h.target = g.target /\ h.outs = g.outs
  BY <1>1, <1>2 DEF AfterLeg, Game
<1>4. h \in Game
  <2>1. /\ g.turns \in Seq(Turn) /\ [s \in Slots |-> NoThrows] \in [Slots -> Tally]
        /\ g.leg + 1 \in Nat /\ None \in Slots \cup {None}
    BY <1>2, GameHas
  <2> QED BY <1>1, <1>2, <2>1 DEF AfterLeg, Game
<1>5. \A s \in Slots : h.wins[s] < h.target
  <2>1. g.target \in Nat /\ \A s \in Slots : g.wins[s] \in Nat
    BY <1>2, GameHas
  <2> QED BY <1>3, <2>1 DEF Played, Leading, Over
<1>6. \A s \in Slots : h.outs[s][1] <= h.outs[s][2]
  BY <1>3 DEF Played, Kept
<1> QED BY <1>3, <1>4, <1>5, <1>6, FreshLeg DEF SameMatch

\* What a turn may be: the rest is thrown exactly, not at all, or not to the end.
Throwable(g, s, score, darts, busted, wins) ==
  /\ s \in Slots /\ score \in 0 .. 180 /\ darts \in 1 .. 3 /\ busted \in BOOLEAN /\ wins \in BOOLEAN
  /\ ~busted => score <= Remaining(g, s) /\ (~wins => score < Remaining(g, s))
  /\ wins => ~busted /\ (g.variant = "X01" => score = Remaining(g, s) /\ Remaining(g, s) <= 170)

LEMMA TurnIsPlayed ==
  ASSUME NEW g, Played(g), g.legWinner = None, NEW s, NEW score, NEW darts, NEW busted, NEW wins,
         Throwable(g, s, score, darts, busted, wins),
         NEW h, h = AfterTurn(g, s, score, darts, busted, wins)
  PROVE  Played(h) /\ Continues(h, g)
<1> DEFINE try == IF g.variant = "X01" /\ Remaining(g, s) <= 170 THEN 1 ELSE 0
           out == IF wins /\ try = 1 THEN score ELSE 0
           y == g.tally[s]
           z == Thrown(y, score, darts, busted, try, out)
           turn == [slot |-> s, score |-> score, busted |-> busted,
                    throws |-> IF g.source.throws THEN darts ELSE None]
<1>1. /\ g \in Game /\ g.turns \in Seq(Turn) /\ g.tally \in [Slots -> Tally] /\ g.wins \in [Slots -> Nat]
      /\ g.outs \in [Slots -> Nat \X Nat] /\ y \in Tally /\ s \in Slots /\ Base \in Nat /\ g.target \in Nat
      /\ g.source.throws \in BOOLEAN
  BY GameHas, ScoringAssumption DEF Played, Throwable, Source
<1>2. /\ score \in Nat /\ score <= 180 /\ darts \in Nat /\ darts > 0 /\ darts <= 3
      /\ busted \in BOOLEAN /\ wins \in BOOLEAN
  BY DEF Throwable
<1>3. try \in Nat /\ out \in Nat
  BY <1>2
<1>4. turn \in Turn
  BY <1>1, <1>2 DEF Turn
<1> HIDE DEF try, out
<1>5. z \in Tally
  <2>1. y.first9 \in Nat \X Nat /\ y.points \in Nat /\ y.darts \in Nat
    BY <1>1 DEF Tally
  <2>2. /\ y.tries \in Nat /\ y.c180 \in Nat /\ y.c140 \in Nat /\ y.c100 \in Nat
    BY <1>1 DEF Tally
  <2>3. PICK points, f9 : /\ points = (IF busted THEN 0 ELSE score)
                          /\ f9 = IF y.darts < 9 THEN <<y.points + points, y.darts + darts>> ELSE y.first9
    OBVIOUS
  <2>4. points \in Nat /\ f9 \in Nat \X Nat
    BY <1>2, <2>1, <2>3
  <2>5. PICK f : f = (y.full /\ (darts = 3 \/ out > 0))
    OBVIOUS
  <2>6. f \in BOOLEAN
    BY <2>5
  <2>7. z = [points |-> y.points + points, darts |-> y.darts + darts,
             c180 |-> y.c180 + (IF points >= 180 THEN 1 ELSE 0), c140 |-> y.c140 + (IF points >= 140 THEN 1 ELSE 0),
             c100 |-> y.c100 + (IF points >= 100 THEN 1 ELSE 0), tries |-> y.tries + try, checkout |-> out,
             first9 |-> f9, full |-> f]
    BY <2>3, <2>5 DEF Thrown
  <2> QED BY <1>2, <1>3, <2>1, <2>2, <2>4, <2>6, <2>7 DEF Tally
<1>6. /\ z.points = y.points + PointsOf(turn) /\ z.darts = y.darts + darts /\ z.checkout = out
      /\ z.c180 = y.c180 + (IF PointsOf(turn) = 180 THEN 1 ELSE 0)
      /\ z.c140 = y.c140 + (IF PointsOf(turn) >= 140 THEN 1 ELSE 0)
      /\ z.c100 = y.c100 + (IF PointsOf(turn) >= 100 THEN 1 ELSE 0)
  <2>1. PointsOf(turn) = IF busted THEN 0 ELSE score
    BY DEF PointsOf
  <2>2. (IF busted THEN 0 ELSE score) \in 0 .. 180
    BY <1>2
  <2> QED BY <1>2, <2>1, <2>2 DEF Thrown
<1>7. g.source.throws => DartsOf(turn) = darts
  <2>1. darts # None
    BY <1>2, NoneAssumption
  <2> QED BY <2>1 DEF DartsOf
<1> HIDE DEF turn, z
<1>8. /\ h.turns = Append(g.turns, turn) /\ h.tally = [g.tally EXCEPT ![s] = z]
      /\ h.legWinner = (IF wins THEN s ELSE None)
      /\ h.wins = [g.wins EXCEPT ![s] = IF wins THEN @ + 1 ELSE @]
      /\ h.source = g.source /\ h.target = g.target /\ h.variant = g.variant
      /\ h.slots = g.slots /\ h.playedAt = g.playedAt /\ h.leg = g.leg
      /\ h.outs = [g.outs EXCEPT ![s] = <<IF wins THEN @[1] + try ELSE @[1], @[2] + try>>]
  BY <1>1 DEF AfterTurn, Game, turn, z, try, out
<1>9. h \in Game
  <2>1. g.outs[s] \in Nat \X Nat
    BY <1>1
  <2>2. PICK o : o = <<IF wins THEN g.outs[s][1] + try ELSE g.outs[s][1], g.outs[s][2] + try>>
    OBVIOUS
  <2>3. o \in Nat \X Nat
    BY <1>2, <1>3, <2>1, <2>2
  <2>4. h = [g EXCEPT !.turns = Append(g.turns, turn), !.tally = [g.tally EXCEPT ![s] = z],
                      !.outs = [g.outs EXCEPT ![s] = o], !.legWinner = IF wins THEN s ELSE None,
                      !.wins = [g.wins EXCEPT ![s] = IF wins THEN @ + 1 ELSE @]]
    BY <1>1, <2>2 DEF AfterTurn, Game, turn, z, try, out
  <2>5. /\ Append(g.turns, turn) \in Seq(Turn) /\ [g.tally EXCEPT ![s] = z] \in [Slots -> Tally]
        /\ [g.outs EXCEPT ![s] = o] \in [Slots -> Nat \X Nat] /\ (IF wins THEN s ELSE None) \in Slots \cup {None}
        /\ [g.wins EXCEPT ![s] = IF wins THEN @ + 1 ELSE @] \in [Slots -> Nat]
    BY <1>1, <1>2, <1>4, <1>5, <2>3
  <2> QED BY <1>1, <2>4, <2>5 DEF Game
<1>14. Continues(h, g)
  <2>1. None \notin Slots
    BY NoneAssumption DEF Slots
  <2> QED BY <1>1, <1>2, <1>8, <2>1 DEF Continues, SameMatch
<1> SUFFICES ASSUME NEW x \in Slots PROVE Agreed(h, x) /\ Ended(h, x) /\ Leading(h, x) /\ Kept(h, x)
  BY <1>9, <1>14 DEF Played
<1>10. None # x /\ None # s /\ turn.slot = s
  BY <1>1, NoneAssumption DEF Slots, turn
<1>11. Agreed(g, x) /\ Agreed(g, s) /\ Leading(g, x) /\ Leading(g, s) /\ Kept(g, x) /\ Kept(g, s)
  BY <1>1 DEF Played
<1>12. CASE x = s
  <2>1. PICK c : c = Count(g.turns, s)
    OBVIOUS
  <2>2. c \in Counter
    BY <1>11, <2>1 DEF Agreed
  <2>3. Count(h.turns, s) = WithTurn(c, turn)
    BY <1>1, <1>4, <1>8, <1>10, <2>1, CountOneMore
  <2>4. /\ WithTurn(c, turn) \in Counter /\ PointsOf(turn) \in Nat /\ DartsOf(turn) \in Nat
        /\ WithTurn(c, turn).points = c.points + PointsOf(turn)
        /\ WithTurn(c, turn).darts = c.darts + DartsOf(turn)
    BY <1>4, <2>2, TurnCounts
  <2>5. /\ WithTurn(c, turn).c180 = c.c180 + (IF PointsOf(turn) = 180 THEN 1 ELSE 0)
        /\ WithTurn(c, turn).c140 = c.c140 + (IF PointsOf(turn) >= 140 THEN 1 ELSE 0)
        /\ WithTurn(c, turn).c100 = c.c100 + (IF PointsOf(turn) >= 100 THEN 1 ELSE 0)
    BY DEF WithTurn
  <2>6. h.tally[s] = z
    BY <1>1, <1>8
  <2>7. y.points \in Nat /\ y.darts \in Nat
    BY <1>1 DEF Tally
  <2>8. z.points <= Base
    <3>1. busted => PointsOf(turn) = 0
      BY DEF PointsOf, turn
    <3>2. ~busted => PointsOf(turn) = score /\ score <= Base - y.points
      BY DEF PointsOf, turn, Throwable, Remaining
    <3> QED BY <1>1, <1>2, <1>6, <1>11, <2>7, <3>1, <3>2 DEF Agreed
  <2>9. Agreed(h, s)
    <3>1. ~wins => out = 0
      BY DEF out
    <3>2. h.legWinner # s => ~wins
      BY <1>8
    <3>3. z.darts # 0
      BY <1>2, <1>6, <2>7
    <3> QED BY <1>6, <1>7, <1>8, <1>11, <2>1, <2>3, <2>4, <2>5, <2>6, <2>8, <3>1, <3>2, <3>3 DEF Agreed
  <2>10. Ended(h, s)
    <3> SUFFICES ASSUME h.legWinner = s
                 PROVE  LET n == Len(h.turns)
                        IN /\ n > 0 /\ h.turns[n].slot = s
                           /\ h.variant = "X01" => h.tally[s].points = Base /\ h.tally[s].checkout = h.turns[n].score
      BY DEF Ended
    <3>1. wins
      BY <1>8, <1>10
    <3>2. Len(h.turns) = Len(g.turns) + 1 /\ Len(g.turns) \in Nat /\ h.turns[Len(g.turns) + 1] = turn
      BY <1>1, <1>4, <1>8
    <3>3. turn.score = score
      BY DEF turn
    <3>4. ASSUME h.variant = "X01"
          PROVE  z.points = Base /\ z.checkout = score
      <4>1. ~busted /\ score = Base - y.points /\ Remaining(g, s) <= 170
        BY <1>8, <3>1, <3>4 DEF Throwable, Remaining
      <4>2. PointsOf(turn) = score
        BY <4>1 DEF PointsOf, turn
      <4>3. try = 1
        BY <1>8, <3>4, <4>1 DEF try
      <4> QED BY <1>1, <1>6, <2>7, <3>1, <4>1, <4>2, <4>3 DEF out
    <3> QED BY <1>10, <2>6, <3>2, <3>3, <3>4
  <2>11. Leading(h, s)
    <3>1. g.wins[s] \in Nat /\ g.wins[s] < g.target
      BY <1>1, <1>10, <1>11 DEF Leading
    <3>2. h.wins[s] = IF wins THEN g.wins[s] + 1 ELSE g.wins[s]
      BY <1>1, <1>8
    <3> QED BY <1>1, <1>2, <1>8, <1>10, <3>1, <3>2 DEF Leading
  <2>12. z.points = Base => wins
    <3>1. CASE busted
      <4>1. PointsOf(turn) = 0 /\ y.points # Base
        BY <1>10, <1>11, <3>1 DEF PointsOf, turn, Kept
      <4> QED BY <1>6, <2>7, <4>1
    <3>2. CASE ~busted
      <4>1. PointsOf(turn) = score /\ (~wins => score < Base - y.points)
        BY <3>2 DEF PointsOf, turn, Throwable, Remaining
      <4> QED BY <1>1, <1>2, <1>6, <2>7, <4>1
    <3> QED BY <1>2, <3>1, <3>2
  <2>13. g.variant = "X01" /\ wins => z.tries > 0
    <3> SUFFICES ASSUME g.variant = "X01", wins PROVE z.tries > 0
      OBVIOUS
    <3>1. try = 1
      BY DEF Throwable, try
    <3>2. z.tries = y.tries + try /\ y.tries \in Nat
      BY <1>1 DEF z, Thrown, Tally
    <3> QED BY <3>1, <3>2
  <2>14. PICK f9, p, a, b : /\ f9 = y.first9 /\ p = PointsOf(turn) /\ a = y.points /\ b = y.darts
    OBVIOUS
  <2>15. /\ p \in Nat /\ a \in Nat /\ b \in Nat /\ f9 \in Nat \X Nat
         /\ IF b < 9 THEN f9 = <<a, b>> ELSE 9 <= f9[2] /\ f9[2] <= b
    BY <1>1, <1>11, <2>4, <2>7, <2>14 DEF Tally, Kept, Opened9
  <2>16. z.points = a + p /\ z.darts = b + darts /\ z.first9 = IF b < 9 THEN <<a + p, b + darts>> ELSE f9
    <3>1. PointsOf(turn) = IF busted THEN 0 ELSE score
      BY DEF PointsOf, turn
    <3> QED BY <2>14, <3>1 DEF z, Thrown
  <2>17. Opened9(z)
    BY <1>2, <2>15, <2>16 DEF Opened9
  <2>18. g.source.throws => WithTurn(c, turn).first9 = z.first9
    <3> SUFFICES ASSUME g.source.throws PROVE WithTurn(c, turn).first9 = z.first9
      OBVIOUS
    <3>1. c.first9 = f9
      BY <1>11, <2>1, <2>14 DEF Kept
    <3>2. WithTurn(c, turn).first9 = IF f9[2] < 9 THEN <<f9[1] + p, f9[2] + darts>> ELSE f9
      BY <1>7, <2>14, <3>1 DEF WithTurn, Opening
    <3> QED BY <1>2, <2>15, <2>16, <3>2
  <2>19. h.outs[s][1] <= h.outs[s][2]
    <3>1. g.outs[s] \in Nat \X Nat /\ g.outs[s][1] <= g.outs[s][2]
      BY <1>1, <1>11 DEF Kept
    <3>2. h.outs[s] = <<IF wins THEN g.outs[s][1] + try ELSE g.outs[s][1], g.outs[s][2] + try>>
      BY <1>1, <1>8
    <3> QED BY <1>2, <1>3, <3>1, <3>2
  <2>20. Kept(h, s)
    BY <1>8, <1>10, <2>3, <2>6, <2>12, <2>13, <2>17, <2>18, <2>19 DEF Kept
  <2> QED BY <1>12, <2>9, <2>10, <2>11, <2>20
<1>13. CASE x # s
  <2>1. Count(h.turns, x) = Count(g.turns, x)
    BY <1>1, <1>4, <1>8, <1>10, <1>13, CountOneMore
  <2>2. h.tally[x] = g.tally[x] /\ h.wins[x] = g.wins[x] /\ h.legWinner # x /\ g.legWinner # x
    BY <1>1, <1>8, <1>10, <1>13
  <2>3. g.wins[x] \in Nat
    BY <1>1
  <2>4. h.outs[x] = g.outs[x]
    BY <1>1, <1>8, <1>13
  <2>5. Kept(h, x)
    BY <1>8, <1>10, <1>11, <2>1, <2>2, <2>4 DEF Kept
  <2> QED BY <1>1, <1>8, <1>11, <2>1, <2>2, <2>3, <2>5 DEF Agreed, Ended, Leading
<1> QED BY <1>12, <1>13

LEMMA AtTurnIsSlot ==
  ASSUME NEW g, Played(g)
  PROVE  AtTurn(g) \in Slots /\ \A s \in Slots : g.legWinner = s => AtTurn(g) # s
<1>1. g.turns \in Seq(Turn)
  BY GameHas DEF Played
<1>2. CASE g.turns = <<>>
  <2>1. Len(g.turns) = 0
    BY <1>2
  <2> QED BY <1>2, <2>1 DEF AtTurn, Slots, Played, Ended
<1>3. CASE g.turns # <<>>
  <2>1. PICK t : t = Last(g.turns)
    OBVIOUS
  <2>2. t = g.turns[Len(g.turns)] /\ t \in Turn
    BY <1>1, <1>3, <2>1 DEF Last
  <2>3. AtTurn(g) = 1 - t.slot
    BY <1>3, <2>1 DEF AtTurn, Other
  <2>4. t.slot \in 0 .. 1
    BY <2>2 DEF Turn, Slots
  <2>5. \A s \in Slots : g.legWinner = s => t.slot = s
    BY <2>2 DEF Played, Ended
  <2> QED BY <2>3, <2>4, <2>5 DEF Slots
<1> QED BY <1>2, <1>3

LEMMA PlayTurnIsPlayed ==
  ASSUME NEW m \in Matches, game \in [Matches -> Game \cup {None}], Played(game[m]), PlayTurn(m)
  PROVE  \E h : game' = [game EXCEPT ![m] = h] /\ Played(h) /\ Continues(h, game[m])
<1>1. PICK g, s : g = game[m] /\ s = AtTurn(g)
  OBVIOUS
<1>2. g \in Game /\ Played(g) /\ s \in Slots /\ g.legWinner = None
  BY <1>1, AtTurnIsSlot DEF PlayTurn, Running, Played
<1>3. PICK rest : rest = Remaining(g, s)
  OBVIOUS
<1>4. rest \in Nat /\ rest > 0
  <2>1. g.tally[s] \in Tally /\ Base \in Nat /\ g.tally[s].points <= Base
    BY <1>2, GameHas, ScoringAssumption DEF Played, Agreed
  <2>2. g.tally[s].points # Base
    BY <1>2, NoneAssumption DEF Played, Kept, Slots
  <2> QED BY <1>3, <2>1, <2>2 DEF Remaining, Tally
<1>5. \E score, darts, busted, wins :
        TakeTurn(m, s, score, darts, busted, wins) /\ Throwable(g, s, score, darts, busted, wins)
  <2>1. \/ g.variant = "Cricket" /\ \E wins \in BOOLEAN : TakeTurn(m, s, 0, 3, FALSE, wins)
        \/ \E n \in Menu[s] : n <= rest - 2 /\ TakeTurn(m, s, n, 3, FALSE, FALSE)
        \/ \E d \in DartsFor(rest) : TakeTurn(m, s, rest, d, TRUE, FALSE)
        \/ \E d \in DartsFor(rest) : rest <= 170 /\ TakeTurn(m, s, rest, d, FALSE, TRUE)
    BY <1>1, <1>3 DEF PlayTurn
  <2>2. CASE g.variant = "Cricket" /\ \E wins \in BOOLEAN : TakeTurn(m, s, 0, 3, FALSE, wins)
    <3>1. PICK wins \in BOOLEAN : TakeTurn(m, s, 0, 3, FALSE, wins)
      BY <2>2
    <3>2. Throwable(g, s, 0, 3, FALSE, wins)
      BY <1>2, <1>3, <1>4, <2>2 DEF Throwable
    <3> QED BY <3>1, <3>2
  <2>3. CASE \E n \in Menu[s] : n <= rest - 2 /\ TakeTurn(m, s, n, 3, FALSE, FALSE)
    <3>1. PICK n \in Menu[s] : n <= rest - 2 /\ TakeTurn(m, s, n, 3, FALSE, FALSE)
      BY <2>3
    <3>2. n \in 0 .. 180
      BY <1>2, ScoringAssumption
    <3>3. Throwable(g, s, n, 3, FALSE, FALSE)
      BY <1>2, <1>3, <1>4, <3>1, <3>2 DEF Throwable
    <3> QED BY <3>1, <3>3
  <2>4. CASE \E d \in DartsFor(rest) : TakeTurn(m, s, rest, d, TRUE, FALSE)
    <3>1. PICK d \in DartsFor(rest) : TakeTurn(m, s, rest, d, TRUE, FALSE)
      BY <2>4
    <3>2. Throwable(g, s, rest, d, TRUE, FALSE)
      BY <1>2, <1>3, <1>4 DEF Throwable, DartsFor
    <3> QED BY <3>1, <3>2
  <2>5. CASE \E d \in DartsFor(rest) : rest <= 170 /\ TakeTurn(m, s, rest, d, FALSE, TRUE)
    <3>1. PICK d \in DartsFor(rest) : rest <= 170 /\ TakeTurn(m, s, rest, d, FALSE, TRUE)
      BY <2>5
    <3>2. Throwable(g, s, rest, d, FALSE, TRUE)
      BY <1>2, <1>3, <1>4, <3>1 DEF Throwable, DartsFor
    <3> QED BY <3>1, <3>2
  <2> QED BY <2>1, <2>2, <2>3, <2>4, <2>5
<1>6. PICK score, darts, busted, wins :
        TakeTurn(m, s, score, darts, busted, wins) /\ Throwable(g, s, score, darts, busted, wins)
  BY <1>5
<1>7. PICK h : h = AfterTurn(g, s, score, darts, busted, wins)
  OBVIOUS
<1>8. Played(h) /\ Continues(h, g)
  BY <1>2, <1>6, <1>7, TurnIsPlayed
<1>9. game' = [game EXCEPT ![m] = h]
  BY <1>1, <1>6, <1>7 DEF TakeTurn
<1> QED BY <1>1, <1>8, <1>9

-----------------------------------------------------------------------------
(* What the server makes of a description *)

\* The turn that has not begun counts nothing.
LEMMA DescribedCounts ==
  ASSUME NEW g, Played(g), NEW idle \in BOOLEAN, NEW s \in Slots
  PROVE  LET c == Count(Described(g, idle).turns, s)
         IN /\ c.points = g.tally[s].points
            /\ c.c180 = g.tally[s].c180 /\ c.c140 = g.tally[s].c140 /\ c.c100 = g.tally[s].c100
            /\ g.source.throws => c.darts = g.tally[s].darts /\ c.first9 = g.tally[s].first9
            /\ g.tally[s].darts = 0 => c.darts = 0
<1>1. PICK b : b = Count(g.turns, s)
  OBVIOUS
<1>2. PICK t : t = [slot |-> AtTurn(g), score |-> 0, busted |-> FALSE,
                    throws |-> IF g.source.throws THEN 0 ELSE None]
  OBVIOUS
<1>3. b \in Counter /\ Agreed(g, s) /\ g.turns \in Seq(Turn) /\ (g.source.throws => b.first9 = g.tally[s].first9)
  BY <1>1, GameHas DEF Played, Agreed, Kept
<1>4. t \in Turn
  BY <1>2, AtTurnIsSlot DEF Turn
<1>5. PointsOf(t) = 0 /\ DartsOf(t) = 0
  BY <1>2, NoneAssumption DEF PointsOf, DartsOf
<1>6. PICK w : w = WithTurn(b, t)
  OBVIOUS
<1>7. /\ w.points = b.points /\ w.darts = b.darts /\ w.c180 = b.c180 /\ w.c140 = b.c140 /\ w.c100 = b.c100
      /\ w.first9 = b.first9
  <2>1. w.points = b.points /\ w.darts = b.darts /\ w.c180 = b.c180 /\ w.c140 = b.c140 /\ w.c100 = b.c100
    BY <1>3, <1>5, <1>6 DEF WithTurn, Counter
  <2>2. PICK f : f = b.first9
    OBVIOUS
  <2>3. f \in Nat \X Nat /\ w.first9 = IF f[2] < 9 THEN <<f[1] + 0, f[2] + 0>> ELSE f
    BY <1>3, <1>5, <1>6, <2>2 DEF WithTurn, Counter, Opening
  <2> QED BY <2>1, <2>2, <2>3
<1>8. Count(Append(g.turns, t), s) \in {b, w}
  BY <1>1, <1>3, <1>4, <1>6, CountOneMore
<1>9. Count(Described(g, idle).turns, s) \in {b, w}
  BY <1>1, <1>2, <1>8 DEF Described
<1> QED BY <1>1, <1>3, <1>7, <1>9 DEF Agreed

LEMMA DescribedLastTurn ==
  ASSUME NEW g, Played(g), NEW idle \in BOOLEAN, NEW s \in Slots, g.legWinner = s,
         NEW r, r = Described(g, idle)
  PROVE  TurnsOf(r.turns, s) # {} /\ Max(TurnsOf(r.turns, s)) = Len(g.turns)
         /\ r.turns[Len(g.turns)].score = g.turns[Len(g.turns)].score /\ g.turns[Len(g.turns)].score \in Nat
<1>1. PICK n, t : /\ n = Len(g.turns)
                  /\ t = [slot |-> AtTurn(g), score |-> 0, busted |-> FALSE,
                          throws |-> IF g.source.throws THEN 0 ELSE None]
  OBVIOUS
<1>2. /\ g.turns \in Seq(Turn) /\ n \in Nat /\ n > 0 /\ g.turns[n].slot = s /\ t.slot # s
      /\ g.turns[n] \in Turn
  BY <1>1, GameHas, AtTurnIsSlot DEF Played, Ended
<1>3. r.turns = g.turns \/ r.turns = Append(g.turns, t)
  BY <1>1 DEF Described
<1>4. /\ r.turns[n] = g.turns[n] /\ n \in DOMAIN r.turns
      /\ \A i \in DOMAIN r.turns : i \in Nat /\ (i <= n \/ r.turns[i] = t)
  <2>1. CASE r.turns = g.turns
    BY <1>1, <1>2, <2>1
  <2>2. CASE r.turns = Append(g.turns, t)
    <3>1. DOMAIN r.turns = 1 .. n + 1 /\ r.turns[n + 1] = t /\ \A i \in 1 .. n : r.turns[i] = g.turns[i]
      BY <1>1, <1>2, <2>2
    <3> QED BY <1>2, <3>1
  <2> QED BY <1>3, <2>1, <2>2
<1>5. PICK S : S = TurnsOf(r.turns, s)
  OBVIOUS
<1>6. n \in S /\ \A i \in S : i \in Nat /\ i <= n
  BY <1>2, <1>4, <1>5 DEF TurnsOf
<1>7. Max(S) = n
  <2>1. Max(S) \in S /\ \A i \in S : Max(S) >= i
    BY <1>2, <1>6 DEF Max
  <2>2. PICK x : x = Max(S)
    OBVIOUS
  <2>3. x \in Nat /\ x <= n /\ x >= n
    BY <1>6, <2>1, <2>2
  <2> QED BY <1>2, <2>2, <2>3
<1> QED BY <1>1, <1>2, <1>4, <1>5, <1>6, <1>7 DEF Turn

\* A leg that has ended has turns.
LEMMA DescribedHasTurns ==
  ASSUME NEW g, Played(g), NEW idle \in BOOLEAN, g.legWinner # None
  PROVE  Described(g, idle).turns # <<>>
<1>1. PICK r : r = Described(g, idle)
  OBVIOUS
<1>2. g.legWinner \in Slots
  BY GameHas DEF Played
<1>3. TurnsOf(r.turns, g.legWinner) # {}
  BY <1>1, <1>2, DescribedLastTurn
<1>4. DOMAIN <<>> = {}
  OBVIOUS
<1>5. TurnsOf(<<>>, g.legWinner) = {}
  BY <1>4 DEF TurnsOf
<1> QED BY <1>1, <1>3, <1>5

\* The statistics of a leg that has ended, from Autodarts' own (told) and from the turns
Merged(ls, own, y, told) ==
  /\ ls.c180 = own.c180 /\ ls.c140 = own.c140 /\ ls.c100 = own.c100 /\ ls.checkout = own.checkout
  /\ ls.darts = IF told /\ y.darts > 0 THEN y.darts ELSE own.darts
  /\ ls.points = IF told /\ y.points > 0 THEN y.points ELSE own.points
  /\ ls.first9 = IF told /\ y.first9[2] > 0 THEN <<y.first9[1], y.first9[2]>> ELSE own.first9
  /\ ls.attempts = IF told /\ y.tries > 0 THEN y.tries ELSE 0
  /\ ls.hits = IF told /\ y.tries > 0 THEN (IF y.checkout > 0 THEN 1 ELSE 0) ELSE own.hits

LEMMA LegStatsAre ==
  ASSUME NEW g, Played(g), NEW idle \in BOOLEAN, NEW s \in Slots, g.legWinner # None,
         NEW r, r = Described(g, idle)
  PROVE  Merged(LegStats(r, s), Counted(r, s), g.tally[s], g.source.legStats)
<1> SUFFICES ASSUME NEW own, own = Counted(r, s), NEW y, y = g.tally[s],
                    NEW ls, ls = LegStats(r, s), NEW told, told = g.source.legStats
             PROVE  Merged(ls, own, y, told)
  OBVIOUS
<1>1. told \in BOOLEAN /\ s \in 0 .. 1
  BY GameHas DEF Played, Source, Slots
<1>2. CASE ~told
  <2>1. DOMAIN r.legStats = {}
    BY <1>2 DEF Described
  <2>2. ls = own
    BY <2>1 DEF LegStats
  <2>3. own.attempts = 0
    BY DEF Counted
  <2> QED BY <1>2, <2>2, <2>3 DEF Merged
<1>3. CASE told
  <2>1. s \in DOMAIN r.legStats /\ r.legStats[s] = LegFields(y)
    BY <1>3 DEF Described
  <2>2. PICK t : t = FromFields(LegFields(y))
    OBVIOUS
  <2>3. /\ t.points = y.points /\ t.darts = y.darts /\ t.attempts = y.tries
        /\ t.hits = IF y.checkout > 0 THEN 1 ELSE 0
        /\ t.first9 = IF y.first9[2] > 0 THEN <<y.first9[1], y.first9[2]>> ELSE None
    BY <2>2 DEF FromFields, LegFields, Average
  <2>4. ls = [own EXCEPT
           !.average  = Preferred(t.average, @, t.average # None),
           !.first9   = Preferred(t.first9, @, t.first9 # None),
           !.darts    = Preferred(t.darts, @, t.darts > 0),
           !.points   = Preferred(t.points, @, t.points > 0),
           !.attempts = Preferred(t.attempts, @, t.attempts > 0),
           !.hits     = Preferred(t.hits, @, t.attempts > 0),
           !.c180     = Preferred(t.c180, @, r.turns = <<>>),
           !.c140     = Preferred(t.c140, @, r.turns = <<>>),
           !.c100     = Preferred(t.c100, @, r.turns = <<>>)]
    BY <2>1, <2>2 DEF LegStats
  <2>5. PICK a, f, d, p, k, h :
          /\ a = Preferred(t.average, own.average, t.average # None)
          /\ f = Preferred(t.first9, own.first9, t.first9 # None)
          /\ d = Preferred(t.darts, own.darts, t.darts > 0)
          /\ p = Preferred(t.points, own.points, t.points > 0)
          /\ k = Preferred(t.attempts, own.attempts, t.attempts > 0)
          /\ h = Preferred(t.hits, own.hits, t.attempts > 0)
    OBVIOUS
  <2>6. /\ Preferred(t.c180, own.c180, r.turns = <<>>) = own.c180
        /\ Preferred(t.c140, own.c140, r.turns = <<>>) = own.c140
        /\ Preferred(t.c100, own.c100, r.turns = <<>>) = own.c100
    BY DescribedHasTurns DEF Preferred
  <2>7. ls = [own EXCEPT !.average = a, !.first9 = f, !.darts = d, !.points = p, !.attempts = k, !.hits = h,
                         !.c180 = own.c180, !.c140 = own.c140, !.c100 = own.c100]
    BY <2>4, <2>5, <2>6, ZenonT(60)
  <2>8. own = [points |-> own.points, darts |-> own.darts, average |-> own.average, first9 |-> own.first9,
               c180 |-> own.c180, c140 |-> own.c140, c100 |-> own.c100, hits |-> own.hits,
               attempts |-> own.attempts, checkout |-> own.checkout]
    BY DEF Counted
  <2>9. /\ ls.first9 = f /\ ls.darts = d /\ ls.points = p /\ ls.attempts = k /\ ls.hits = h
        /\ ls.c180 = own.c180 /\ ls.c140 = own.c140 /\ ls.c100 = own.c100 /\ ls.checkout = own.checkout
    BY <2>7, <2>8
  <2>10. own.attempts = 0
    BY DEF Counted
  <2>11. \A b : Preferred(t.first9, b, t.first9 # None) = IF y.first9[2] > 0 THEN <<y.first9[1], y.first9[2]>> ELSE b
    <3>1. <<y.first9[1], y.first9[2]>> # None
      <4>1. y.first9 \in Nat \X Nat
        BY GameHas DEF Played, Tally
      <4>2. <<y.first9[1], y.first9[2]>> \in Int \X Int
        BY <4>1
      <4> QED BY <4>2, NoneAssumption
    <3> QED BY <2>3, <3>1 DEF Preferred
  <2>12. /\ d = IF y.darts > 0 THEN y.darts ELSE own.darts
         /\ p = IF y.points > 0 THEN y.points ELSE own.points
         /\ k = IF y.tries > 0 THEN y.tries ELSE own.attempts
         /\ h = IF y.tries > 0 THEN (IF y.checkout > 0 THEN 1 ELSE 0) ELSE own.hits
    BY <2>3, <2>5 DEF Preferred
  <2>13. f = IF y.first9[2] > 0 THEN <<y.first9[1], y.first9[2]>> ELSE own.first9
    BY <2>5, <2>11
  <2> QED BY <1>3, <2>9, <2>10, <2>12, <2>13 DEF Merged
<1> QED BY <1>1, <1>2, <1>3

\* What the loop over the turns of a description counts
LEMMA DescribedCounter ==
  ASSUME NEW g, Played(g), NEW idle \in BOOLEAN, NEW s \in Slots
  PROVE  Count(Described(g, idle).turns, s) \in Counter
<1>1. PICK b : b = Count(g.turns, s)
  OBVIOUS
<1>2. PICK t : t = [slot |-> AtTurn(g), score |-> 0, busted |-> FALSE,
                    throws |-> IF g.source.throws THEN 0 ELSE None]
  OBVIOUS
<1>3. b \in Counter /\ g.turns \in Seq(Turn)
  BY <1>1, GameHas DEF Played, Agreed
<1>4. t \in Turn
  BY <1>2, AtTurnIsSlot DEF Turn
<1>5. PICK w : w = WithTurn(b, t)
  OBVIOUS
<1>6. w \in Counter
  BY <1>3, <1>4, <1>5, TurnCounts
<1>7. Count(Append(g.turns, t), s) \in {b, w}
  BY <1>1, <1>3, <1>4, <1>5, CountOneMore
<1>8. Count(Described(g, idle).turns, s) \in {b, w}
  BY <1>1, <1>2, <1>7 DEF Described
<1> QED BY <1>3, <1>6, <1>8

LEMMA CountedHas ==
  ASSUME NEW g, Played(g), NEW idle \in BOOLEAN, NEW s \in Slots, g.legWinner # None,
         NEW r, r = Described(g, idle), NEW own, own = Counted(r, s)
  PROVE  /\ own.points \in Nat /\ own.darts \in Nat /\ own.checkout \in Nat
         /\ own.c180 \in Nat /\ own.c140 \in Nat /\ own.c100 \in Nat
         /\ own.hits = IF s = g.legWinner /\ g.variant = "X01" THEN 1 ELSE 0
         /\ own.first9 = IF g.variant = "X01"
                         THEN Average(Count(r.turns, s).first9[1], Count(r.turns, s).first9[2]) ELSE None
<1>1. PICK c : c = Count(r.turns, s)
  OBVIOUS
<1>2. c \in Counter
  BY <1>1, DescribedCounter
<1>3. PICK out : out = Checkout(r, s)
  OBVIOUS
<1>4. r.legWinner = g.legWinner /\ (HasScoring(r) <=> g.variant = "X01")
  BY DEF Described, HasScoring
<1>5. out = None \/ out \in Nat
  BY <1>3, <1>4, DescribedLastTurn DEF Checkout
<1>6. out # None <=> s = g.legWinner /\ g.variant = "X01"
  <2>1. CASE s = g.legWinner /\ g.variant = "X01"
    <3>1. TurnsOf(r.turns, s) # {} /\ r.turns[Max(TurnsOf(r.turns, s))].score \in Nat
      BY <2>1, DescribedLastTurn
    <3> QED BY <1>3, <1>4, <2>1, <3>1, NoneAssumption DEF Checkout
  <2>2. CASE ~(s = g.legWinner /\ g.variant = "X01")
    BY <1>3, <1>4, <2>2 DEF Checkout
  <2> QED BY <2>1, <2>2
<1>7. /\ own.points = c.points /\ own.darts = c.darts /\ own.c180 = c.c180 /\ own.c140 = c.c140
      /\ own.c100 = c.c100 /\ own.hits = (IF out = None THEN 0 ELSE 1)
      /\ own.checkout = (IF out = None THEN 0 ELSE out)
      /\ own.first9 = IF g.variant = "X01" THEN Average(c.first9[1], c.first9[2]) ELSE None
  BY <1>1, <1>3, <1>4 DEF Counted, Count
<1> QED BY <1>1, <1>2, <1>5, <1>6, <1>7 DEF Counter

\* The rows of match_legs are of numbers.
Numbers(l) ==
  /\ l.darts \in Nat /\ l.checkout \in Nat /\ l.hits \in Nat /\ l.attempts \in Nat
  /\ l.c180 \in Nat /\ l.c140 \in Nat /\ l.c100 \in Nat
  /\ l.points # None => l.points \in Nat

LEMMA LegRowNumbers ==
  ASSUME NEW m, NEW g, Played(g), NEW idle \in BOOLEAN, NEW s \in Slots, g.legWinner # None,
         NEW l, l = LegRow(m, g, Described(g, idle), s)
  PROVE  Numbers(l)
<1>1. PICK r, y, told : r = Described(g, idle) /\ y = g.tally[s] /\ told = g.source.legStats
  OBVIOUS
<1>2. PICK own, ls : own = Counted(r, s) /\ ls = LegStats(r, s)
  OBVIOUS
<1>3. /\ ls.c180 = own.c180 /\ ls.c140 = own.c140 /\ ls.c100 = own.c100 /\ ls.checkout = own.checkout
      /\ ls.darts = IF told /\ y.darts > 0 THEN y.darts ELSE own.darts
      /\ ls.points = IF told /\ y.points > 0 THEN y.points ELSE own.points
      /\ ls.attempts = IF told /\ y.tries > 0 THEN y.tries ELSE 0
      /\ ls.hits = IF told /\ y.tries > 0 THEN (IF y.checkout > 0 THEN 1 ELSE 0) ELSE own.hits
  <2>1. Merged(LegStats(r, s), Counted(r, s), g.tally[s], g.source.legStats)
    BY <1>1, LegStatsAre
  <2>2. Merged(ls, own, y, told)
    BY <1>1, <1>2, <2>1
  <2> QED BY <2>2 DEF Merged
<1>4. /\ own.points \in Nat /\ own.darts \in Nat /\ own.checkout \in Nat
      /\ own.c180 \in Nat /\ own.c140 \in Nat /\ own.c100 \in Nat /\ own.hits \in Nat
  BY <1>1, <1>2, CountedHas
<1>5. y.darts \in Nat /\ y.points \in Nat /\ y.tries \in Nat
  <2>1. y \in Tally
    BY <1>1, GameHas DEF Played
  <2> QED BY <2>1 DEF Tally
<1>6. /\ l.darts = ls.darts /\ l.checkout = ls.checkout /\ l.hits = ls.hits /\ l.attempts = ls.attempts
      /\ l.c180 = ls.c180 /\ l.c140 = ls.c140 /\ l.c100 = ls.c100 /\ (l.points = ls.points \/ l.points = None)
  BY <1>1, <1>2 DEF LegRow
<1> QED BY <1>3, <1>4, <1>5, <1>6 DEF Numbers

\* A row tells what was thrown.
Tells(l, y, g) ==
  /\ l.points = y.points /\ l.checkout = y.checkout
  /\ l.c180 = y.c180 /\ l.c140 = y.c140 /\ l.c100 = y.c100
  /\ g.source.throws \/ g.source.legStats => l.darts = y.darts
  /\ l.won => l.points = Base

LEMMA RowTells ==
  ASSUME NEW g, Played(g), NEW idle \in BOOLEAN, NEW s \in Slots, g.legWinner # None, g.variant = "X01",
         NEW m, NEW l, l = LegRow(m, g, Described(g, idle), s)
  PROVE  Tells(l, g.tally[s], g)
<1>1. PICK r : r = Described(g, idle)
  OBVIOUS
<1>2. PICK y : y = g.tally[s]
  OBVIOUS
<1>3. PICK own : own = Counted(r, s)
  OBVIOUS
<1>4. y \in Tally /\ g.turns \in Seq(Turn) /\ Agreed(g, s) /\ Ended(g, s) /\ g.legWinner \in Slots
      /\ g.source \in Source
  BY <1>2, GameHas DEF Played
<1>5. r.variant = "X01" /\ r.legWinner = g.legWinner /\ HasScoring(r)
  BY <1>1 DEF Described, HasScoring
<1>6. /\ own.points = y.points /\ own.c180 = y.c180 /\ own.c140 = y.c140 /\ own.c100 = y.c100
      /\ g.source.throws => own.darts = y.darts
      /\ y.darts = 0 => own.darts = 0
  BY <1>1, <1>2, <1>3, DescribedCounts DEF Counted, Count
<1>7. own.checkout = y.checkout
  <2>1. CASE g.legWinner = s
    <3>1. /\ TurnsOf(r.turns, s) # {} /\ Max(TurnsOf(r.turns, s)) = Len(g.turns)
          /\ r.turns[Len(g.turns)].score = g.turns[Len(g.turns)].score /\ g.turns[Len(g.turns)].score \in Nat
      BY <1>1, <2>1, DescribedLastTurn
    <3>2. y.checkout = g.turns[Len(g.turns)].score
      BY <1>2, <1>4, <2>1 DEF Ended
    <3>3. Checkout(r, s) = y.checkout /\ Checkout(r, s) # None
      BY <1>5, <2>1, <3>1, <3>2, NoneAssumption DEF Checkout
    <3> QED BY <1>3, <3>3 DEF Counted
  <2>2. CASE g.legWinner # s
    <3>1. Checkout(r, s) = None /\ y.checkout = 0
      BY <1>2, <1>4, <1>5, <2>2 DEF Checkout, Agreed
    <3> QED BY <1>3, <3>1 DEF Counted
  <2> QED BY <2>1, <2>2
<1>8. PICK ls : ls = LegStats(r, s)
  OBVIOUS
<1>9. Merged(LegStats(r, s), Counted(r, s), g.tally[s], g.source.legStats)
  BY <1>1, LegStatsAre
<1>10. /\ ls.points = y.points /\ ls.checkout = y.checkout
       /\ ls.c180 = y.c180 /\ ls.c140 = y.c140 /\ ls.c100 = y.c100
       /\ g.source.throws \/ g.source.legStats => ls.darts = y.darts
  <2>1. Merged(ls, own, y, g.source.legStats)
    BY <1>2, <1>3, <1>8, <1>9
  <2>2. y.points \in Nat /\ y.darts \in Nat /\ g.source.legStats \in BOOLEAN
    BY <1>4 DEF Tally, Source
  <2> QED BY <1>6, <1>7, <2>1, <2>2 DEF Merged
<1>11. /\ l.points = ls.points /\ l.checkout = ls.checkout /\ l.darts = ls.darts
       /\ l.c180 = ls.c180 /\ l.c140 = ls.c140 /\ l.c100 = ls.c100 /\ l.won = (s = g.legWinner)
  BY <1>1, <1>5, <1>8 DEF LegRow
<1>12. l.won => y.points = Base
  <2>1. l.won => g.legWinner = s
    BY <1>11
  <2> QED BY <1>2, <1>4, <2>1 DEF Ended
<1> QED BY <1>2, <1>10, <1>11, <1>12 DEF Tells

\* A row has been won by whoever has thrown the whole score; it has the first nine darts, if
\* there is any account of them, and in other variants only if Autodarts tells them; and its
\* hits are among its attempts or it tells no attempts.
Shows(l, y, g) ==
  /\ g.variant = "X01" =>
       /\ Tells(l, y, g) /\ (y.points = Base => l.won)
       /\ (g.source.throws \/ g.source.legStats) /\ y.first9[2] > 0 => l.first9 = y.first9
  /\ g.variant # "X01" /\ ~g.source.legStats => l.first9 = None
  /\ IF g.source.legStats THEN l.hits <= l.attempts ELSE l.attempts = 0

LEMMA RowShows ==
  ASSUME NEW g, Played(g), NEW idle \in BOOLEAN, NEW s \in Slots, g.legWinner # None,
         NEW m, NEW l, l = LegRow(m, g, Described(g, idle), s)
  PROVE  Shows(l, g.tally[s], g)
<1>1. PICK r, y, told : r = Described(g, idle) /\ y = g.tally[s] /\ told = g.source.legStats
  OBVIOUS
<1>2. PICK own, ls : own = Counted(r, s) /\ ls = LegStats(r, s)
  OBVIOUS
<1>3. /\ ls.first9 = IF told /\ y.first9[2] > 0 THEN <<y.first9[1], y.first9[2]>> ELSE own.first9
      /\ ls.attempts = IF told /\ y.tries > 0 THEN y.tries ELSE 0
      /\ ls.hits = IF told /\ y.tries > 0 THEN (IF y.checkout > 0 THEN 1 ELSE 0) ELSE own.hits
  <2>1. Merged(LegStats(r, s), Counted(r, s), g.tally[s], g.source.legStats)
    BY <1>1, LegStatsAre
  <2>2. Merged(ls, own, y, told)
    BY <1>1, <1>2, <2>1
  <2> QED BY <2>2 DEF Merged
<1>4. PICK c : c = Count(r.turns, s)
  OBVIOUS
<1>5. /\ own.hits = IF s = g.legWinner /\ g.variant = "X01" THEN 1 ELSE 0
      /\ own.first9 = IF g.variant = "X01" THEN Average(c.first9[1], c.first9[2]) ELSE None
  BY <1>1, <1>2, <1>4, CountedHas
<1>6. g.source.throws => c.first9 = y.first9
  BY <1>1, <1>4, DescribedCounts
<1>7. l.first9 = ls.first9 /\ l.hits = ls.hits /\ l.attempts = ls.attempts /\ l.won = (s = g.legWinner)
  BY <1>1, <1>2 DEF LegRow, Described
<1>8. told \in BOOLEAN /\ g.source.throws \in BOOLEAN
  BY <1>1, GameHas DEF Played, Source
<1>9. y.first9 \in Nat \X Nat /\ y.tries \in Nat
  <2>1. y \in Tally
    BY <1>1, GameHas DEF Played
  <2> QED BY <2>1 DEF Tally
<1>10. PICK f : f = y.first9
  OBVIOUS
<1>11. f \in Nat \X Nat /\ f = <<f[1], f[2]>>
  BY <1>9, <1>10
<1>12. ASSUME g.variant = "X01"
       PROVE  /\ Tells(l, y, g) /\ (y.points = Base => l.won)
              /\ (g.source.throws \/ g.source.legStats) /\ y.first9[2] > 0 => l.first9 = y.first9
  <2>1. Tells(l, y, g)
    BY <1>1, <1>12, RowTells
  <2>2. y.points = Base => l.won
    BY <1>1, <1>7 DEF Played, Kept
  <2>3. ASSUME g.source.throws \/ told, f[2] > 0
        PROVE  l.first9 = f
    <3>1. CASE told
      BY <1>3, <1>7, <1>10, <1>11, <2>3, <3>1
    <3>2. CASE ~told
      <4>1. c.first9 = f /\ own.first9 = Average(f[1], f[2])
        BY <1>5, <1>6, <1>10, <1>12, <2>3, <3>2
      <4> QED BY <1>3, <1>7, <1>11, <2>3, <3>2, <4>1 DEF Average
    <3> QED BY <3>1, <3>2
  <2> QED BY <1>1, <1>10, <2>1, <2>2, <2>3
<1>13. g.variant # "X01" /\ ~told => l.first9 = None
  BY <1>3, <1>5, <1>7
<1>14. IF told THEN l.hits <= l.attempts ELSE l.attempts = 0
  <2>1. ~told => l.attempts = 0
    BY <1>3, <1>7
  <2>2. s = g.legWinner /\ g.variant = "X01" => y.tries > 0
    BY <1>1 DEF Played, Kept
  <2>3. PICK hits, attempts, n : hits = l.hits /\ attempts = l.attempts /\ n = y.tries
    OBVIOUS
  <2>4. /\ n \in Nat /\ (told => attempts = IF n > 0 THEN n ELSE 0)
        /\ told /\ n > 0 => hits \in {0, 1}
        /\ told /\ ~(n > 0) => hits = 0
    BY <1>3, <1>5, <1>7, <1>9, <2>2, <2>3
  <2>5. told => hits <= attempts
    BY <2>4
  <2> QED BY <1>8, <2>1, <2>3, <2>5
<1> QED BY <1>1, <1>12, <1>13, <1>14 DEF Shows

-----------------------------------------------------------------------------
(* The rows of a match *)

\* A row of match_legs belongs to a leg that was played and a slot that is booked; the
\* current leg has rows when it is over.
LegRowOf(l, g) ==
  /\ l.leg \in Nat /\ l.leg <= g.leg
  /\ \E s \in Booked(g) : l.player = g.slots[s] /\ (l.leg = g.leg => g.legWinner # None /\ l.won = (s = g.legWinner))
  /\ (l.points # None) = (g.variant = "X01")

OneRowEach(L) ==
  \A l, k \in L : l.leg = k.leg => l = k \/ (l.player # k.player /\ ~(l.won /\ k.won))

WonBy(L, p) == {l \in L : l.won /\ l.player = p}
Earlier(L, g) == {l \in L : l.leg < g.leg}

\* No slot has won more of the earlier legs than it has won in truth.
LegsInv(g, L) ==
  /\ IsFiniteSet(L) /\ OneRowEach(L)
  /\ \A l \in L : LegRowOf(l, g)
  /\ \A s \in Booked(g) :
       Cardinality(WonBy(Earlier(L, g), g.slots[s])) <= g.wins[s] - (IF g.legWinner = s THEN 1 ELSE 0)

LEMMA BookedAre ==
  ASSUME NEW g \in Game
  PROVE  /\ Booked(g) \subseteq Slots
         /\ \A s, x \in Booked(g) : g.slots[s] = g.slots[x] => s = x
BY GameHas, ScoringAssumption DEF Booked, Slots

LEMMA WonLegs ==
  ASSUME NEW g, Played(g), NEW L, LegsInv(g, L), NEW s \in Booked(g)
  PROVE  Cardinality(WonBy(L, g.slots[s])) \in Nat /\ Cardinality(WonBy(L, g.slots[s])) <= g.wins[s]
<1>1. PICK W, A : W = WonBy(Earlier(L, g), g.slots[s]) /\ A = WonBy(L, g.slots[s])
  OBVIOUS
<1>2. W \subseteq L /\ A \subseteq L /\ W \subseteq A
  BY <1>1 DEF WonBy, Earlier
<1>3. IsFiniteSet(W) /\ IsFiniteSet(A) /\ Cardinality(W) \in Nat /\ Cardinality(A) \in Nat
  BY <1>2, FS_Subset, FS_CardinalityType DEF LegsInv
<1>4. g.wins[s] \in Nat /\ g.leg \in Nat
  BY GameHas, BookedAre DEF Played
<1>5. Cardinality(W) <= g.wins[s] - (IF g.legWinner = s THEN 1 ELSE 0)
  BY <1>1 DEF LegsInv
<1>6. CASE A = W
  BY <1>1, <1>3, <1>4, <1>5, <1>6
<1>7. CASE A # W
  <2>1. PICK v \in A : v \notin W
    BY <1>2, <1>7
  <2>2. \A l \in A \ W : l \in L /\ l.leg = g.leg /\ l.won /\ l.player = g.slots[s]
    BY <1>1, <1>4 DEF WonBy, Earlier, LegsInv, LegRowOf
  <2>3. A = W \cup {v}
    <3>1. \A l \in A \ W : l = v
      BY <2>1, <2>2 DEF LegsInv, OneRowEach
    <3> QED BY <1>2, <2>1, <3>1
  <2>4. g.legWinner = s
    <3>1. v \in L /\ v.leg = g.leg /\ v.won /\ v.player = g.slots[s]
      BY <2>1, <2>2
    <3>2. PICK x \in Booked(g) : v.player = g.slots[x] /\ v.won = (x = g.legWinner)
      BY <3>1 DEF LegsInv, LegRowOf
    <3>3. x = s
      BY <3>1, <3>2, BookedAre DEF Played
    <3> QED BY <3>1, <3>2, <3>3
  <2>5. Cardinality(A) = Cardinality(W) + 1
    BY <1>3, <2>1, <2>3, FS_AddElement
  <2> QED BY <1>1, <1>3, <1>4, <1>5, <2>4, <2>5
<1> QED BY <1>6, <1>7

\* The rows after the description of a leg has been taken in
LegsAfter(L, m, g, r) ==
  IF g.legWinner = None THEN L
  ELSE {l \in L : l.leg # g.leg} \cup {LegRow(m, g, r, s) : s \in Booked(g)}

LEMMA LegRowHas ==
  ASSUME NEW m, NEW g, Played(g), NEW idle \in BOOLEAN, NEW s \in Booked(g), g.legWinner # None,
         NEW l, l = LegRow(m, g, Described(g, idle), s)
  PROVE  /\ l.match = m /\ l.leg = g.leg /\ l.player = g.slots[s] /\ l.won = (s = g.legWinner)
         /\ LegRowOf(l, g)
<1>1. /\ l.match = m /\ l.leg = g.leg /\ l.player = g.slots[s] /\ l.won = (s = g.legWinner)
  BY DEF LegRow, Described
<1>2. g.leg \in Nat /\ s \in Slots
  BY GameHas, BookedAre DEF Played
<1>3. (l.points # None) = (g.variant = "X01")
  <2>1. CASE g.variant = "X01"
    <3>1. l.points = g.tally[s].points
      BY <1>2, <2>1, RowTells DEF Tells
    <3>2. g.tally[s] \in Tally
      BY <1>2, GameHas DEF Played
    <3> QED BY <2>1, <3>1, <3>2, NoneAssumption DEF Tally
  <2>2. CASE g.variant # "X01"
    <3>1. l.points = None
      BY <2>2 DEF LegRow, HasScoring, Described
    <3> QED BY <2>2, <3>1
  <2> QED BY <2>1, <2>2
<1> QED BY <1>1, <1>2, <1>3 DEF LegRowOf

LEMMA LegsReported ==
  ASSUME NEW m, NEW g, Played(g), NEW idle \in BOOLEAN, NEW L, LegsInv(g, L),
         NEW K, K = LegsAfter(L, m, g, Described(g, idle))
  PROVE  LegsInv(g, K)
<1>1. CASE g.legWinner = None
  BY <1>1 DEF LegsAfter
<1>2. CASE g.legWinner # None
  <2> DEFINE row(s) == LegRow(m, g, Described(g, idle), s)
  <2>1. K = {l \in L : l.leg # g.leg} \cup {row(s) : s \in Booked(g)}
    BY <1>2 DEF LegsAfter
  <2>2. \A s \in Booked(g) : /\ row(s).leg = g.leg /\ row(s).player = g.slots[s]
                             /\ row(s).won = (s = g.legWinner) /\ LegRowOf(row(s), g)
    BY <1>2, LegRowHas
  <2> HIDE DEF row
  <2>3. Booked(g) \subseteq 0 .. 1 /\ \A s, x \in Booked(g) : g.slots[s] = g.slots[x] => s = x
    BY BookedAre DEF Played, Slots
  <2>4. IsFiniteSet(K)
    <3>1. PICK M : M = {l \in L : l.leg # g.leg}
      OBVIOUS
    <3>2. M \subseteq L
      BY <3>1
    <3>3. IsFiniteSet(M)
      BY <3>2, FS_Subset DEF LegsInv
    <3>4. IsFiniteSet(M \cup {row(0)})
      BY <3>3, FS_AddElement
    <3>5. IsFiniteSet((M \cup {row(0)}) \cup {row(1)})
      BY <3>4, FS_AddElement
    <3>6. K \subseteq (M \cup {row(0)}) \cup {row(1)}
      BY <2>1, <2>3, <3>1
    <3> QED BY <3>5, <3>6, FS_Subset
  <2>5. \A l \in K : LegRowOf(l, g)
    BY <2>1, <2>2 DEF LegsInv
  <2>6. OneRowEach(K)
    <3> SUFFICES ASSUME NEW l \in K, NEW k \in K, l.leg = k.leg, l # k
                 PROVE  l.player # k.player /\ ~(l.won /\ k.won)
      BY DEF OneRowEach
    <3>1. CASE l.leg # g.leg
      <4>1. l \in L /\ k \in L
        BY <2>1, <2>2, <3>1
      <4> QED BY <4>1 DEF LegsInv, OneRowEach
    <3>2. CASE l.leg = g.leg
      <4>1. PICK s, x \in Booked(g) : l = row(s) /\ k = row(x)
        BY <2>1, <3>2
      <4>2. s # x
        BY <4>1
      <4>3. l.player # k.player
        BY <2>2, <2>3, <4>1, <4>2
      <4>4. l.won = (s = g.legWinner) /\ k.won = (x = g.legWinner)
        BY <2>2, <4>1
      <4>5. ~(l.won /\ k.won)
        BY <4>2, <4>4
      <4> QED BY <4>3, <4>5
    <3> QED BY <3>1, <3>2
  <2>7. Earlier(K, g) = Earlier(L, g)
    <3>1. g.leg \in Nat
      BY GameHas DEF Played
    <3>2. \A l \in K \ L : l.leg = g.leg
      BY <2>1, <2>2
    <3>3. \A l \in L \ K : l.leg = g.leg
      BY <2>1
    <3> QED BY <3>1, <3>2, <3>3 DEF Earlier
  <2> QED BY <2>4, <2>5, <2>6, <2>7 DEF LegsInv
<1> QED BY <1>1, <1>2

\* A leg that goes on, and the next one
LEMMA LegsContinue ==
  ASSUME NEW g, NEW h, Played(g), Played(h), NEW L, LegsInv(g, L), g.legWinner = None, Continues(h, g)
  PROVE  LegsInv(h, L)
<1>1. Booked(h) = Booked(g) /\ h.slots = g.slots /\ h.leg = g.leg /\ Booked(g) \subseteq Slots
  BY BookedAre DEF Continues, SameMatch, Booked, Played
<1>2. Earlier(L, h) = Earlier(L, g)
  BY <1>1 DEF Earlier
<1>3. \A l \in L : LegRowOf(l, h)
  BY <1>1 DEF LegsInv, LegRowOf, Continues, SameMatch
<1>4. ASSUME NEW s \in Booked(h)
      PROVE  Cardinality(WonBy(Earlier(L, h), h.slots[s])) <= h.wins[s] - (IF h.legWinner = s THEN 1 ELSE 0)
  <2>1. s \in Slots /\ None # s /\ g.wins[s] \in Nat
    BY <1>1, GameHas, NoneAssumption DEF Slots, Played
  <2>2. h.wins[s] - (IF h.legWinner = s THEN 1 ELSE 0) = g.wins[s] - (IF g.legWinner = s THEN 1 ELSE 0)
    BY <2>1 DEF Continues
  <2> QED BY <1>1, <1>2, <2>2 DEF LegsInv
<1> QED BY <1>3, <1>4 DEF LegsInv

LEMMA LegsOfNext ==
  ASSUME NEW g, NEW h, Played(g), Played(h), NEW L, LegsInv(g, L), SameMatch(h, g),
         h.leg = g.leg + 1, h.legWinner = None, h.wins = g.wins
  PROVE  LegsInv(h, L)
<1>1. Booked(h) = Booked(g) /\ h.slots = g.slots /\ h.variant = g.variant /\ g.leg \in Nat
  BY GameHas DEF SameMatch, Booked, Played
<1>2. \A l \in L : l.leg \in Nat /\ l.leg <= g.leg
  BY DEF LegsInv, LegRowOf
<1>3. Earlier(L, h) = L
  BY <1>1, <1>2 DEF Earlier
<1>4. \A l \in L : LegRowOf(l, h)
  <2> SUFFICES ASSUME NEW l \in L PROVE LegRowOf(l, h)
    OBVIOUS
  <2>1. l.leg <= h.leg /\ l.leg # h.leg
    BY <1>1, <1>2
  <2> QED BY <1>1, <2>1 DEF LegsInv, LegRowOf
<1>5. ASSUME NEW s \in Booked(h)
      PROVE  Cardinality(WonBy(L, h.slots[s])) <= h.wins[s] - (IF h.legWinner = s THEN 1 ELSE 0)
  <2>1. Cardinality(WonBy(L, g.slots[s])) \in Nat /\ Cardinality(WonBy(L, g.slots[s])) <= g.wins[s]
    BY <1>1, WonLegs
  <2>2. g.wins[s] \in Nat /\ None # s
    <3>1. s \in Slots
      BY <1>1, BookedAre DEF Played
    <3>2. g.wins[s] \in Nat
      BY <3>1, GameHas DEF Played
    <3> QED BY <3>1, <3>2, NoneAssumption DEF Slots
  <2> QED BY <1>1, <2>1, <2>2
<1> QED BY <1>3, <1>4, <1>5 DEF LegsInv

\* What a player has thrown in a leg that was reported
Thrower == [match : Matches, leg : Nat, slot : Slots, tally : Tally]

\* What was reported of a leg is that leg's, once for each of its two sides; in X01 it has its
\* rows, and no row is without it.
TruthInv(g, L, T) ==
  /\ \A t \in T :
       /\ t \in Thrower /\ t.leg <= g.leg /\ Opened9(t.tally)
       /\ t.leg = g.leg => g.legWinner # None /\ t.tally = g.tally[t.slot]
       /\ g.variant = "X01" /\ g.slots[t.slot] # Bot =>
            \E l \in L : l.leg = t.leg /\ l.player = g.slots[t.slot] /\ Tells(l, t.tally, g)
  /\ \A t, u \in T : t.match = u.match /\ t.leg = u.leg /\ t.slot = u.slot => t = u
  /\ \A l \in L : \E t \in T : t.leg = l.leg /\ g.slots[t.slot] = l.player /\ Shows(l, t.tally, g)

TruthAfter(T, m, g) ==
  IF g.legWinner = None THEN T
  ELSE T \cup {[match |-> m, leg |-> g.leg, slot |-> s, tally |-> g.tally[s]] : s \in Slots}

LEMMA TruthReported ==
  ASSUME NEW m \in Matches, NEW g, Played(g), NEW idle \in BOOLEAN, NEW L, NEW T, TruthInv(g, L, T),
         \A t \in T : t.match = m, NEW K, K = LegsAfter(L, m, g, Described(g, idle))
  PROVE  TruthInv(g, K, TruthAfter(T, m, g))
<1>1. CASE g.legWinner = None
  BY <1>1 DEF LegsAfter, TruthAfter
<1>2. CASE g.legWinner # None
  <2> DEFINE just(s) == [match |-> m, leg |-> g.leg, slot |-> s, tally |-> g.tally[s]]
  <2>0. PICK U : U = TruthAfter(T, m, g)
    OBVIOUS
  <2>1. U = T \cup {just(s) : s \in Slots}
    BY <1>2, <2>0 DEF TruthAfter
  <2>2. \A s \in Slots : /\ just(s) \in Thrower /\ just(s).match = m /\ just(s).leg = g.leg /\ just(s).slot = s
                         /\ just(s).tally = g.tally[s] /\ Opened9(just(s).tally)
    BY GameHas DEF Played, Kept, Thrower
  <2> HIDE DEF just
  <2>3. g.leg \in Nat
    BY GameHas DEF Played
  <2>4. ASSUME NEW t \in U
        PROVE  /\ t \in Thrower /\ t.leg <= g.leg /\ Opened9(t.tally) /\ t.match = m
               /\ t.leg = g.leg => t.tally = g.tally[t.slot]
    BY <2>1, <2>2, <2>3 DEF TruthInv
  <2>5. ASSUME NEW t \in U, g.variant = "X01", g.slots[t.slot] # Bot
        PROVE  \E l \in K : l.leg = t.leg /\ l.player = g.slots[t.slot] /\ Tells(l, t.tally, g)
    <3>1. t.slot \in Booked(g) /\ t.slot \in Slots
      BY <2>4, <2>5 DEF Booked, Thrower
    <3>2. CASE t.leg = g.leg
      <4>1. PICK s : s = t.slot
        OBVIOUS
      <4>2. PICK l : l = LegRow(m, g, Described(g, idle), s)
        OBVIOUS
      <4>3. l \in K
        BY <1>2, <3>1, <4>1, <4>2 DEF LegsAfter
      <4>4. Tells(l, g.tally[s], g)
        BY <1>2, <2>5, <3>1, <4>1, <4>2, RowTells
      <4>5. l.leg = g.leg /\ l.player = g.slots[s]
        BY <1>2, <3>1, <4>1, <4>2, LegRowHas
      <4> QED BY <2>4, <3>2, <4>1, <4>3, <4>4, <4>5
    <3>3. CASE t.leg # g.leg
      <4>1. t \in T
        BY <2>1, <2>2, <3>3
      <4>2. PICK l \in L : l.leg = t.leg /\ l.player = g.slots[t.slot] /\ Tells(l, t.tally, g)
        BY <2>5, <4>1 DEF TruthInv
      <4>3. l \in K
        BY <1>2, <3>3, <4>2 DEF LegsAfter
      <4> QED BY <4>2, <4>3
    <3> QED BY <3>2, <3>3
  <2>6. ASSUME NEW t \in U, NEW u \in U, t.match = u.match, t.leg = u.leg, t.slot = u.slot
        PROVE  t = u
    <3>1. CASE t.leg = g.leg
      <4>1. t.tally = u.tally
        BY <2>4, <2>6, <3>1
      <4> QED BY <2>4, <2>6, <4>1 DEF Thrower
    <3>2. CASE t.leg # g.leg
      <4>1. t \in T /\ u \in T
        BY <2>1, <2>2, <2>6, <3>2
      <4> QED BY <2>6, <4>1 DEF TruthInv
    <3> QED BY <3>1, <3>2
  <2>7. ASSUME NEW l \in K
        PROVE  \E t \in U : t.leg = l.leg /\ g.slots[t.slot] = l.player /\ Shows(l, t.tally, g)
    <3>1. CASE l \in L
      BY <2>1, <3>1 DEF TruthInv
    <3>2. CASE l \notin L
      <4>1. PICK s \in Booked(g) : l = LegRow(m, g, Described(g, idle), s)
        BY <1>2, <3>2 DEF LegsAfter
      <4>2. s \in Slots
        BY BookedAre DEF Played
      <4>3. l.leg = g.leg /\ l.player = g.slots[s]
        BY <1>2, <4>1, LegRowHas
      <4>4. Shows(l, g.tally[s], g)
        BY <1>2, <4>1, <4>2, RowShows
      <4>5. just(s) \in U
        BY <2>1, <4>2
      <4> QED BY <2>2, <4>2, <4>3, <4>4, <4>5
    <3> QED BY <3>1, <3>2
  <2>8. TruthInv(g, K, U)
    BY <1>2, <2>4, <2>5, <2>6, <2>7 DEF TruthInv
  <2> QED BY <2>0, <2>8
<1> QED BY <1>1, <1>2

\* A leg that goes on, or the next one
LEMMA TruthStays ==
  ASSUME NEW g, NEW h, Played(g), NEW L, NEW T, TruthInv(g, L, T), SameMatch(h, g),
         \/ g.legWinner = None /\ h.leg = g.leg
         \/ h.leg = g.leg + 1
  PROVE  TruthInv(h, L, T)
<1>1. g.leg \in Nat
  BY GameHas DEF Played
<1>2. ASSUME NEW t \in T
      PROVE  /\ t \in Thrower /\ t.leg <= h.leg /\ Opened9(t.tally) /\ t.leg # h.leg
             /\ h.variant = "X01" /\ h.slots[t.slot] # Bot =>
                  \E l \in L : l.leg = t.leg /\ l.player = h.slots[t.slot] /\ Tells(l, t.tally, h)
  <2>1. /\ t \in Thrower /\ t.leg <= g.leg /\ Opened9(t.tally) /\ t.leg \in Nat
        /\ t.leg = g.leg => g.legWinner # None
        /\ g.variant = "X01" /\ g.slots[t.slot] # Bot =>
             \E l \in L : l.leg = t.leg /\ l.player = g.slots[t.slot] /\ Tells(l, t.tally, g)
    BY DEF TruthInv, Thrower
  <2>2. t.leg <= h.leg /\ t.leg # h.leg
    BY <1>1, <2>1
  <2> QED BY <2>1, <2>2 DEF SameMatch, Tells
<1>3. \A l \in L : \E t \in T : t.leg = l.leg /\ h.slots[t.slot] = l.player /\ Shows(l, t.tally, h)
  BY DEF TruthInv, SameMatch, Shows, Tells
<1>4. \A t, u \in T : t.match = u.match /\ t.leg = u.leg /\ t.slot = u.slot => t = u
  BY DEF TruthInv
<1> QED BY <1>2, <1>3, <1>4 DEF TruthInv

\* The rows of match_players, once the match is finished, have its result.
Result(e, g) ==
  \A s \in Slots : g.slots[s] = e.player =>
    /\ e.won = (g.wins[s] = g.target)
    /\ IF g.source.scores THEN e.legsWon = g.wins[s] ELSE e.legsWon <= g.wins[s]

\* A share, if it is told
IsShare(rate) == rate = None \/ (0 <= rate[1] /\ rate[1] <= rate[2])

EntriesInv(g, finished, E) ==
  /\ \A e, k \in E : e.player = k.player => e = k
  /\ \A e \in E : IsShare(e.rate)
  /\ finished => \A e \in E : Result(e, g)

LEMMA MatchRowHas ==
  ASSUME NEW legs, NEW m, NEW g, Played(g), NEW idle \in BOOLEAN, NEW s \in Booked(g), NEW K,
         K = {l \in legs : l.match = m},
         LegsInv(g, K), NEW e, e = MatchRow(legs, m, g, Described(g, idle), s)
  PROVE  /\ e.match = m /\ e.player = g.slots[s] /\ IsShare(e.rate)
         /\ Over(g) => Result(e, g)
<1>1. PICK r : r = Described(g, idle)
  OBVIOUS
<1>2. PICK n : n = Cardinality(WonBy(K, g.slots[s]))
  OBVIOUS
<1>3. Won({l \in legs : l.match = m /\ l.player = g.slots[s]}) = WonBy(K, g.slots[s])
  BY DEF Won, WonBy
<1>4. /\ e.match = m /\ e.player = g.slots[s] /\ e.won = (r.finished /\ s = r.winner)
      /\ e.legsWon = LegsWon(MatchStats(r, s).legsWon, n)
  BY <1>1, <1>2, <1>3 DEF MatchRow
<1>5. /\ s \in Slots /\ n \in Nat /\ n <= g.wins[s] /\ g.wins \in [Slots -> Nat] /\ g.target \in Nat
      /\ g.source.scores \in BOOLEAN
  BY <1>2, GameHas, BookedAre, WonLegs DEF Played, Source
<1>6. MatchStats(r, s).legsWon = IF g.source.scores THEN g.wins[s] ELSE 0
  BY <1>1, <1>5 DEF MatchStats, Described
<1>7. IF g.source.scores THEN e.legsWon = g.wins[s] ELSE e.legsWon <= g.wins[s]
  <2>1. PICK told : told = IF g.source.scores THEN g.wins[s] ELSE 0
    OBVIOUS
  <2>2. told \in Nat /\ e.legsWon = Max({told, n})
    BY <1>4, <1>5, <1>6, <2>1 DEF LegsWon
  <2>3. \E x \in {told, n} : \A y \in {told, n} : x >= y
    BY <1>5, <2>2
  <2>4. PICK x : x = Max({told, n})
    OBVIOUS
  <2>5. x \in {told, n} /\ x >= told /\ x >= n
    BY <2>3, <2>4 DEF Max
  <2>6. PICK w : w = g.wins[s]
    OBVIOUS
  <2>7. w \in Nat /\ n \in Nat /\ n <= w /\ (told = w \/ told = 0) /\ (g.source.scores => told = w)
    BY <1>5, <2>1, <2>6
  <2>8. (g.source.scores => x = w) /\ x <= w
    BY <2>5, <2>7
  <2> QED BY <2>2, <2>4, <2>6, <2>8
<1>8. ASSUME Over(g)
      PROVE  e.won = (g.wins[s] = g.target)
  <2>1. r.finished /\ r.winner = CHOOSE x \in Slots : g.wins[x] = g.target
    BY <1>1, <1>8 DEF Described
  <2>2. PICK w \in Slots : g.wins[w] = g.target
    BY <1>8 DEF Over
  <2>3. \A x \in Slots : g.wins[x] = g.target => g.legWinner = x
    BY <1>5 DEF Played, Leading
  <2>4. r.winner = w
    <3>1. r.winner \in Slots /\ g.wins[r.winner] = g.target
      BY <2>1, <2>2
    <3> QED BY <2>2, <2>3, <3>1
  <2>5. (s = w) = (g.wins[s] = g.target)
    <3>1. s = w => g.wins[s] = g.target
      BY <2>2
    <3>2. g.wins[s] = g.target => s = w
      BY <1>5, <2>2, <2>3
    <3> QED BY <3>1, <3>2
  <2> QED BY <1>4, <2>1, <2>4, <2>5
<1>9. \A x \in Slots : g.slots[x] = e.player => x = s
  <2>1. \A x \in Slots : g.slots[x] = g.slots[s] => x \in Booked(g)
    BY DEF Booked
  <2> QED BY <1>4, <2>1, BookedAre DEF Played
<1>10. Over(g) => Result(e, g)
  BY <1>7, <1>8, <1>9 DEF Result
<1>11. IsShare(e.rate)
  <2>1. PICK percent, told : percent = g.source.percent /\ told = g.source.matchStats
    OBVIOUS
  <2>2. PICK o : o = g.outs[s]
    OBVIOUS
  <2>3. o \in Nat \X Nat /\ o[1] <= o[2] /\ percent \in BOOLEAN /\ told \in BOOLEAN
    BY <1>5, <2>1, <2>2, GameHas DEF Played, Kept, Source
  <2>4. e.rate = MatchStats(r, s).rate
    BY <1>1 DEF MatchRow
  <2>5. e.rate = IF told THEN Share(Percent(o, percent)) ELSE None
    BY <1>1, <1>5, <2>1, <2>2, <2>4 DEF MatchStats, Described
  <2>6. CASE told /\ o[2] # 0
    <3>1. PICK a, b : a = o[1] * (IF percent THEN 100 ELSE 1) /\ b = o[2]
      OBVIOUS
    <3>2. a \in Nat /\ b \in Nat /\ a <= 100 * b
      BY <2>3, <3>1
    <3>3. Percent(o, percent) = <<a, b>>
      BY <2>6, <3>1 DEF Percent
    <3>4. <<a, b>> # None
      BY <3>2, NoneAssumption
    <3>5. e.rate = IF a > b THEN <<a, 100 * b>> ELSE <<a, b>>
      BY <2>5, <2>6, <3>3, <3>4 DEF Share
    <3> QED BY <3>2, <3>5 DEF IsShare
  <2>7. CASE ~(told /\ o[2] # 0)
    BY <2>3, <2>5, <2>7 DEF Percent, Share, IsShare
  <2> QED BY <2>6, <2>7
<1> QED BY <1>4, <1>10, <1>11

LEMMA EntriesReported ==
  ASSUME NEW legs, NEW m, NEW g, Played(g), NEW idle \in BOOLEAN, NEW K,
         K = {l \in legs : l.match = m}, LegsInv(g, K),
         NEW E, E = {MatchRow(legs, m, g, Described(g, idle), s) : s \in Booked(g)}
  PROVE  EntriesInv(g, Over(g), E) /\ \A e \in E : e.match = m
<1> DEFINE row(s) == MatchRow(legs, m, g, Described(g, idle), s)
<1>1. \A s \in Booked(g) : /\ row(s).match = m /\ row(s).player = g.slots[s] /\ IsShare(row(s).rate)
                           /\ Over(g) => Result(row(s), g)
  BY MatchRowHas
<1>2. E = {row(s) : s \in Booked(g)}
  OBVIOUS
<1> HIDE DEF row
<1>3. \A e, k \in E : e.player = k.player => e = k
  BY <1>1, <1>2, BookedAre DEF Played
<1> QED BY <1>1, <1>2, <1>3 DEF EntriesInv

-----------------------------------------------------------------------------
(* The inductive invariant *)

LegsOf(m) == {l \in matchLegs : l.match = m}
EntriesOf(m) == {e \in matchPlayers : e.match = m}
ReportsOf(m) == {t \in truth : t.match = m}

\* What is stored of a match, if anything is, is the match.
RowInv(g, row) == row.playedAt = g.playedAt /\ row.variant = g.variant /\ (row.finished => Over(g))

MatchInv(g, row, L, E, T, time) ==
  /\ g = None => row = None /\ L = {} /\ E = {} /\ T = {}
  /\ g # None =>
       /\ Played(g) /\ g.playedAt <= time
       /\ row # None \/ L # {} \/ E # {} => RowInv(g, row)
       /\ LegsInv(g, L) /\ TruthInv(g, L, T) /\ EntriesInv(g, row.finished, E)

Typed ==
  /\ now \in Nat /\ game \in [Matches -> Game \cup {None}] /\ matches = [m \in Matches |-> matches[m]]
  /\ \A x \in matchLegs \cup matchPlayers \cup truth : x.match \in Matches

IInv == Typed /\ \A m \in Matches : MatchInv(game[m], matches[m], LegsOf(m), EntriesOf(m), ReportsOf(m), now)

LEMMA Initially ==
  Init => IInv
<1> SUFFICES ASSUME Init PROVE IInv
  OBVIOUS
<1>1. Typed
  BY DEF Init, Typed
<1>2. ASSUME NEW m \in Matches
      PROVE  MatchInv(game[m], matches[m], LegsOf(m), EntriesOf(m), ReportsOf(m), now)
  BY <1>2 DEF Init, MatchInv, LegsOf, EntriesOf, ReportsOf
<1> QED BY <1>1, <1>2 DEF IInv

\* The invariant speaks of each match by itself.
LEMMA OthersStay ==
  ASSUME IInv, NEW m \in Matches, NEW h \in Game \cup {None}, game' = [game EXCEPT ![m] = h], now' = now,
         matches' = [x \in Matches |-> matches'[x]],
         \A x \in Matches \ {m} : matches'[x] = matches[x],
         \A x : x.match # m => /\ (x \in matchLegs' <=> x \in matchLegs)
                               /\ (x \in matchPlayers' <=> x \in matchPlayers)
                               /\ (x \in truth' <=> x \in truth),
         MatchInv(h, matches'[m], LegsOf(m)', EntriesOf(m)', ReportsOf(m)', now)
  PROVE  IInv'
<1>1. game \in [Matches -> Game \cup {None}] /\ now \in Nat
  BY DEF IInv, Typed
<1>2. game' \in [Matches -> Game \cup {None}] /\ game'[m] = h /\ \A x \in Matches \ {m} : game'[x] = game[x]
  BY <1>1
<1>3. Typed'
  BY <1>1, <1>2 DEF IInv, Typed
<1>4. ASSUME NEW x \in Matches
      PROVE  MatchInv(game'[x], matches'[x], LegsOf(x)', EntriesOf(x)', ReportsOf(x)', now')
  <2>1. CASE x = m
    BY <1>2, <2>1
  <2>2. CASE x # m
    <3>1. LegsOf(x)' = LegsOf(x) /\ EntriesOf(x)' = EntriesOf(x) /\ ReportsOf(x)' = ReportsOf(x)
      BY <2>2 DEF LegsOf, EntriesOf, ReportsOf
    <3> QED BY <1>2, <2>2, <3>1 DEF IInv
  <2> QED BY <2>1, <2>2
<1> QED BY <1>3, <1>4 DEF IInv

LEMMA TablesStay ==
  ASSUME IInv, NEW m \in Matches, NEW h \in Game, game' = [game EXCEPT ![m] = h],
         UNCHANGED <<tables, now, truth>>,
         MatchInv(h, matches[m], LegsOf(m), EntriesOf(m), ReportsOf(m), now)
  PROVE  IInv'
<1>1. matches' = matches /\ matchLegs' = matchLegs /\ matchPlayers' = matchPlayers /\ truth' = truth /\ now' = now
  BY DEF tables
<1>2. LegsOf(m)' = LegsOf(m) /\ EntriesOf(m)' = EntriesOf(m) /\ ReportsOf(m)' = ReportsOf(m)
  BY <1>1 DEF LegsOf, EntriesOf, ReportsOf
<1>3. matches = [x \in Matches |-> matches[x]]
  BY DEF IInv, Typed
<1> QED BY <1>1, <1>2, <1>3, OthersStay

LEMMA BeginKeeps ==
  ASSUME IInv, NEW m \in Matches, NEW pair \in Pairings, NEW v \in Variants, NEW source \in Sources, NEW n \in Targets,
         Begin(m, pair, v, source, n)
  PROVE  IInv'
<1>1. PICK h : h = Opened(pair, v, source, n)
  OBVIOUS
<1>2. now \in Nat
  BY DEF IInv, Typed
<1>3. Played(h) /\ h \in Game /\ h.playedAt = now /\ h.legWinner = None /\ \A s \in Slots : h.wins[s] = 0
  BY <1>1, <1>2, OpenedIsPlayed DEF Played, Opened
<1>4. MatchInv(None, matches[m], LegsOf(m), EntriesOf(m), ReportsOf(m), now)
  BY DEF Begin, IInv
<1>5. matches[m] = None /\ LegsOf(m) = {} /\ EntriesOf(m) = {} /\ ReportsOf(m) = {}
  BY <1>4 DEF MatchInv
<1>6. LegsInv(h, {})
  <2>1. \A s : WonBy(Earlier({}, h), h.slots[s]) = {}
    BY DEF WonBy, Earlier
  <2>2. IsFiniteSet({}) /\ Cardinality({}) = 0
    BY FS_EmptySet
  <2>3. \A s \in Booked(h) : h.wins[s] = 0 /\ h.legWinner # s
    BY <1>3, BookedAre, NoneAssumption DEF Slots
  <2> QED BY <2>1, <2>2, <2>3 DEF LegsInv, OneRowEach
<1>7. TruthInv(h, {}, {}) /\ \A f : EntriesInv(h, f, {})
  BY DEF TruthInv, EntriesInv
<1>8. h # None
  BY <1>3, ScoringAssumption
<1>9. MatchInv(h, matches[m], LegsOf(m), EntriesOf(m), ReportsOf(m), now)
  BY <1>2, <1>3, <1>5, <1>6, <1>7, <1>8 DEF MatchInv
<1> QED BY <1>1, <1>3, <1>9, TablesStay DEF Begin

\* A match that is not over has no finished row: its rows promise nothing yet.
LEMMA GoesOn ==
  ASSUME IInv, NEW m \in Matches, game[m] # None, ~Over(game[m]), NEW h, Played(h), SameMatch(h, game[m]),
         LegsInv(h, LegsOf(m)), TruthInv(h, LegsOf(m), ReportsOf(m))
  PROVE  h \in Game /\ MatchInv(h, matches[m], LegsOf(m), EntriesOf(m), ReportsOf(m), now)
<1>1. PICK g, L, E, T : g = game[m] /\ L = LegsOf(m) /\ E = EntriesOf(m) /\ T = ReportsOf(m)
  OBVIOUS
<1>2. MatchInv(g, matches[m], L, E, T, now) /\ g # None
  BY <1>1 DEF IInv
<1>3. h # None /\ h \in Game
  BY ScoringAssumption DEF Played
<1>4. matches[m] # None \/ L # {} \/ E # {} => RowInv(h, matches[m]) /\ ~matches[m].finished
  BY <1>1, <1>2 DEF MatchInv, RowInv, SameMatch
<1>5. EntriesInv(h, matches[m].finished, E)
  <2>1. CASE E = {}
    BY <2>1 DEF EntriesInv
  <2>2. CASE E # {}
    BY <1>2, <1>4, <2>2 DEF MatchInv, EntriesInv
  <2> QED BY <2>1, <2>2
<1>6. h.playedAt <= now
  BY <1>1, <1>2 DEF MatchInv, SameMatch
<1> QED BY <1>1, <1>3, <1>4, <1>5, <1>6 DEF MatchInv

LEMMA PlayTurnKeeps ==
  ASSUME IInv, NEW m \in Matches, PlayTurn(m)
  PROVE  IInv'
<1>1. PICK g, L, T : g = game[m] /\ L = LegsOf(m) /\ T = ReportsOf(m)
  OBVIOUS
<1>2. g # None /\ g.legWinner = None
  BY <1>1 DEF PlayTurn, Running
<1>3. Played(g) /\ LegsInv(g, L) /\ TruthInv(g, L, T)
  BY <1>1, <1>2 DEF IInv, MatchInv
<1>4. PICK h : game' = [game EXCEPT ![m] = h] /\ Played(h) /\ Continues(h, g)
  BY <1>1, <1>3, PlayTurnIsPlayed DEF IInv, Typed
<1>5. LegsInv(h, L) /\ TruthInv(h, L, T)
  BY <1>2, <1>3, <1>4, LegsContinue, TruthStays DEF Continues
<1>6. ~Over(g)
  <2>1. \A s \in Slots : None # s /\ g.wins[s] \in Nat /\ g.target \in Nat
    BY <1>3, GameHas, NoneAssumption DEF Played, Slots
  <2> QED BY <1>2, <1>3, <2>1 DEF Over, Played, Leading
<1>7. h \in Game /\ MatchInv(h, matches[m], LegsOf(m), EntriesOf(m), ReportsOf(m), now)
  BY <1>1, <1>2, <1>4, <1>5, <1>6, GoesOn DEF Continues
<1> QED BY <1>4, <1>7, TablesStay DEF PlayTurn

LEMMA NextLegKeeps ==
  ASSUME IInv, NEW m \in Matches, NextLeg(m)
  PROVE  IInv'
<1>1. PICK g, L, T : g = game[m] /\ L = LegsOf(m) /\ T = ReportsOf(m)
  OBVIOUS
<1>2. g # None /\ ~Over(g)
  BY <1>1 DEF NextLeg
<1>3. Played(g) /\ LegsInv(g, L) /\ TruthInv(g, L, T)
  BY <1>1, <1>2 DEF IInv, MatchInv
<1>4. PICK h : h = AfterLeg(g)
  OBVIOUS
<1>5. Played(h) /\ SameMatch(h, g) /\ h.leg = g.leg + 1 /\ h.legWinner = None /\ h.wins = g.wins
  BY <1>2, <1>3, <1>4, NextLegIsPlayed
<1>6. LegsInv(h, L) /\ TruthInv(h, L, T)
  BY <1>3, <1>5, LegsOfNext, TruthStays
<1>7. h \in Game /\ MatchInv(h, matches[m], LegsOf(m), EntriesOf(m), ReportsOf(m), now)
  BY <1>1, <1>2, <1>5, <1>6, GoesOn
<1>8. game' = [game EXCEPT ![m] = h]
  BY <1>1, <1>4 DEF NextLeg
<1> QED BY <1>7, <1>8, TablesStay DEF NextLeg

LEMMA ReportKeeps ==
  ASSUME IInv, NEW m \in Matches, Report(m)
  PROVE  IInv'
<1>1. PICK g, L, T : g = game[m] /\ L = LegsOf(m) /\ T = ReportsOf(m)
  OBVIOUS
<1>2. PICK idle \in BOOLEAN : HandleEvent(m, g, Described(g, idle))
  BY <1>1 DEF Report
<1>3. g # None /\ Played(g) /\ g \in Game /\ g.playedAt <= now /\ LegsInv(g, L) /\ TruthInv(g, L, T)
  BY <1>1 DEF Report, IInv, MatchInv, Played
<1>4. PICK r : r = Described(g, idle)
  OBVIOUS
<1>5. PICK K, E, U : K = LegsOf(m)' /\ E = EntriesOf(m)' /\ U = ReportsOf(m)'
  OBVIOUS
<1>6. PICK legs : legs = matchLegs'
  OBVIOUS
<1>7. r.leg = g.leg /\ r.legWinner = g.legWinner /\ r.variant = g.variant /\ r.finished = Over(g)
  BY <1>4 DEF Described
<1>8. /\ matches' = [matches EXCEPT ![m] = [playedAt |-> g.playedAt, variant |-> r.variant, finished |-> r.finished]]
      /\ legs = WithLeg(matchLegs, m, g, r)
      /\ matchPlayers' = {e \in matchPlayers : e.match # m} \cup {MatchRow(legs, m, g, r, s) : s \in Booked(g)}
  BY <1>2, <1>4, <1>6 DEF HandleEvent, Counters, WithMatch
<1>9. g.legWinner # None => \A s \in Booked(g) : LegRow(m, g, r, s).match = m
  BY <1>4 DEF LegRow
<1>10. K = LegsAfter(L, m, g, r)
  <2>1. K = {l \in legs : l.match = m}
    BY <1>5, <1>6 DEF LegsOf
  <2> QED BY <1>1, <1>7, <1>8, <1>9, <2>1 DEF WithLeg, LegsAfter, LegsOf
<1>11. LegsInv(g, K) /\ TruthInv(g, K, TruthAfter(T, m, g))
  <2>1. \A t \in T : t.match = m
    BY <1>1 DEF ReportsOf
  <2> QED BY <1>3, <1>4, <1>10, <2>1, LegsReported, TruthReported
<1>12. \A s \in Booked(g) : MatchRow(legs, m, g, r, s).match = m
  BY DEF MatchRow
<1>13. E = {MatchRow(legs, m, g, r, s) : s \in Booked(g)}
  BY <1>5, <1>8, <1>12 DEF EntriesOf
<1>14. EntriesInv(g, Over(g), E)
  <2>1. K = {l \in legs : l.match = m}
    BY <1>5, <1>6 DEF LegsOf
  <2> QED BY <1>3, <1>4, <1>11, <1>13, <2>1, EntriesReported
<1>15. truth' = IF g.legWinner = None THEN truth
                ELSE truth \cup {[match |-> m, leg |-> g.leg, slot |-> s, tally |-> g.tally[s]] : s \in Slots}
  BY <1>1, <1>3 DEF Report, Running
<1>16. U = TruthAfter(T, m, g)
  BY <1>1, <1>5, <1>15 DEF TruthAfter, ReportsOf
<1>17. /\ matches = [x \in Matches |-> matches[x]] /\ game \in [Matches -> Game \cup {None}] /\ now' = now /\ game' = game
  BY DEF IInv, Typed, Report
<1>18. /\ matches' = [x \in Matches |-> matches'[x]] /\ \A x \in Matches \ {m} : matches'[x] = matches[x]
       /\ matches'[m].playedAt = g.playedAt /\ matches'[m].variant = g.variant /\ matches'[m].finished = Over(g)
  BY <1>7, <1>8, <1>17
<1>19. MatchInv(g, matches'[m], K, E, U, now)
  BY <1>3, <1>11, <1>14, <1>16, <1>18 DEF MatchInv, RowInv
<1>20. game' = [game EXCEPT ![m] = g]
  BY <1>1, <1>17
<1>21. \A x : x.match # m => (x \in matchLegs' <=> x \in matchLegs)
  <2>1. CASE g.legWinner = None
    BY <1>6, <1>7, <1>8, <2>1 DEF WithLeg
  <2>2. CASE g.legWinner # None
    <3>1. matchLegs' = {l \in matchLegs : l.match # m \/ l.leg # r.leg} \cup {LegRow(m, g, r, s) : s \in Booked(g)}
      BY <1>6, <1>7, <1>8, <2>2 DEF WithLeg
    <3> QED BY <1>9, <2>2, <3>1
  <2> QED BY <2>1, <2>2
<1>22. \A x : x.match # m => (x \in matchPlayers' <=> x \in matchPlayers)
  BY <1>8, <1>12
<1>23. \A x : x.match # m => (x \in truth' <=> x \in truth)
  BY <1>15
<1> QED BY <1>3, <1>5, <1>17, <1>18, <1>19, <1>20, <1>21, <1>22, <1>23, OthersStay

LEMMA TickKeeps ==
  ASSUME IInv, Tick
  PROVE  IInv'
<1>1. /\ now \in Nat /\ now' = now + 1 /\ matches' = matches /\ matchLegs' = matchLegs
      /\ matchPlayers' = matchPlayers /\ truth' = truth /\ game' = game
  BY DEF IInv, Typed, Tick, tables
<1>2. Typed'
  BY <1>1 DEF IInv, Typed
<1>3. ASSUME NEW m \in Matches
      PROVE  MatchInv(game'[m], matches'[m], LegsOf(m)', EntriesOf(m)', ReportsOf(m)', now')
  <2>1. MatchInv(game[m], matches[m], LegsOf(m), EntriesOf(m), ReportsOf(m), now)
    BY DEF IInv
  <2>2. LegsOf(m)' = LegsOf(m) /\ EntriesOf(m)' = EntriesOf(m) /\ ReportsOf(m)' = ReportsOf(m)
    BY <1>1 DEF LegsOf, EntriesOf, ReportsOf
  <2>3. game[m] # None => game[m].playedAt \in Nat
    BY <2>1, GameHas DEF MatchInv, Played
  <2>4. PICK time : time = now'
    OBVIOUS
  <2>5. MatchInv(game[m], matches[m], LegsOf(m), EntriesOf(m), ReportsOf(m), time)
    BY <1>1, <2>1, <2>3, <2>4 DEF MatchInv
  <2> QED BY <1>1, <2>2, <2>4, <2>5
<1> QED BY <1>2, <1>3 DEF IInv

LEMMA StepKeeps ==
  IInv /\ [Next]_vars => IInv'
<1> SUFFICES ASSUME IInv, [Next]_vars PROVE IInv'
  OBVIOUS
<1>1. CASE Tick
  BY <1>1, TickKeeps
<1>2. ASSUME NEW m \in Matches,
             \/ \E pair \in Pairings, v \in Variants, source \in Sources, n \in Targets : Begin(m, pair, v, source, n)
             \/ PlayTurn(m) \/ NextLeg(m) \/ Report(m)
      PROVE  IInv'
  BY <1>2, BeginKeeps, PlayTurnKeeps, NextLegKeeps, ReportKeeps
<1>3. CASE UNCHANGED vars
  <2>1. /\ now' = now /\ matches' = matches /\ matchLegs' = matchLegs
        /\ matchPlayers' = matchPlayers /\ truth' = truth /\ game' = game
    BY <1>3 DEF vars, tables
  <2> QED BY <2>1 DEF IInv, Typed, LegsOf, EntriesOf, ReportsOf
<1> QED BY <1>1, <1>2, <1>3 DEF Next

-----------------------------------------------------------------------------
(* What the invariant says *)

LEMMA Held ==
  ASSUME IInv, NEW m \in Matches,
         matches[m] # None \/ LegsOf(m) # {} \/ EntriesOf(m) # {} \/ ReportsOf(m) # {}
  PROVE  /\ game[m] # None /\ Played(game[m]) /\ game[m].playedAt \in 0 .. now
         /\ LegsInv(game[m], LegsOf(m)) /\ TruthInv(game[m], LegsOf(m), ReportsOf(m))
         /\ EntriesInv(game[m], matches[m].finished, EntriesOf(m))
         /\ matches[m] # None \/ LegsOf(m) # {} \/ EntriesOf(m) # {} => RowInv(game[m], matches[m])
<1>1. MatchInv(game[m], matches[m], LegsOf(m), EntriesOf(m), ReportsOf(m), now)
  BY DEF IInv
<1>2. PICK g, row, L, E, T :
        g = game[m] /\ row = matches[m] /\ L = LegsOf(m) /\ E = EntriesOf(m) /\ T = ReportsOf(m)
  OBVIOUS
<1>3. MatchInv(g, row, L, E, T, now) /\ (row # None \/ L # {} \/ E # {} \/ T # {})
  BY <1>1, <1>2
<1>4. g # None /\ Played(g) /\ g.playedAt <= now
  BY <1>3 DEF MatchInv
<1>5. g.playedAt \in 0 .. now
  BY <1>4, GameHas DEF Played, IInv, Typed
<1> QED BY <1>2, <1>3, <1>4, <1>5 DEF MatchInv

LEMMA TypesFollow ==
  IInv => TypeOK
<1> SUFFICES ASSUME IInv PROVE TypeOK
  OBVIOUS
<1>1. ASSUME NEW m \in Matches, matches[m] # None
      PROVE  matches[m].playedAt \in 0 .. now /\ game[m] # None
  BY <1>1, Held DEF RowInv
<1>2. ASSUME NEW l \in matchLegs
      PROVE  /\ (l.points # None) = (matches[l.match].variant = "X01")
             /\ \A k \in matchLegs : l.match = k.match /\ l.leg = k.leg =>
                  l = k \/ (l.player # k.player /\ ~(l.won /\ k.won))
  <2>1. PICK m \in Matches : m = l.match
    BY <1>2 DEF IInv, Typed
  <2>2. l \in LegsOf(m)
    BY <2>1 DEF LegsOf
  <2>3. LegsInv(game[m], LegsOf(m)) /\ matches[m].variant = game[m].variant
    BY <2>2, Held DEF RowInv
  <2>4. (l.points # None) = (game[m].variant = "X01")
    BY <2>2, <2>3 DEF LegsInv, LegRowOf
  <2>5. \A k \in LegsOf(m) : l.leg = k.leg => l = k \/ (l.player # k.player /\ ~(l.won /\ k.won))
    BY <2>2, <2>3 DEF LegsInv, OneRowEach
  <2> QED BY <2>1, <2>3, <2>4, <2>5 DEF LegsOf
<1>3. ASSUME NEW e \in matchPlayers, NEW k \in matchPlayers, e.match = k.match, e.player = k.player
      PROVE  e = k
  <2>1. PICK m \in Matches : m = e.match
    BY <1>3 DEF IInv, Typed
  <2>2. e \in EntriesOf(m) /\ k \in EntriesOf(m)
    BY <1>3, <2>1 DEF EntriesOf
  <2> QED BY <1>3, <2>2, Held DEF EntriesInv
<1> QED BY <1>1, <1>2, <1>3 DEF TypeOK

LEMMA LegsFollow ==
  IInv => LegRowsAreTheLeg
<1> SUFFICES ASSUME IInv, NEW t \in truth, game[t.match].variant = "X01", PlayerOf(t) # Bot
             PROVE  \E l \in matchLegs :
                      /\ l.match = t.match /\ l.leg = t.leg /\ l.player = PlayerOf(t)
                      /\ l.points = t.tally.points /\ l.checkout = t.tally.checkout
                      /\ l.c180 = t.tally.c180 /\ l.c140 = t.tally.c140 /\ l.c100 = t.tally.c100
                      /\ Told(t.match) => l.darts = t.tally.darts
                      /\ l.won => l.points = Base
  BY DEF LegRowsAreTheLeg
<1>1. PICK m \in Matches : m = t.match
  BY DEF IInv, Typed
<1>2. t \in ReportsOf(m)
  BY <1>1 DEF ReportsOf
<1>3. TruthInv(game[m], LegsOf(m), ReportsOf(m))
  BY <1>2, Held
<1>4. game[m].variant = "X01" /\ game[m].slots[t.slot] # Bot
  BY <1>1 DEF PlayerOf
<1>5. PICK l \in LegsOf(m) : l.leg = t.leg /\ l.player = game[m].slots[t.slot] /\ Tells(l, t.tally, game[m])
  BY <1>2, <1>3, <1>4 DEF TruthInv
<1>6. l \in matchLegs /\ l.match = t.match /\ l.player = PlayerOf(t)
  BY <1>1, <1>5 DEF LegsOf, PlayerOf
<1>7. Told(t.match) => l.darts = t.tally.darts
  BY <1>1, <1>5 DEF Tells, Told
<1> QED BY <1>5, <1>6, <1>7 DEF Tells

LEMMA ResultFollows ==
  IInv => ResultSurvives
<1> SUFFICES ASSUME IInv, NEW e \in matchPlayers, matches[e.match].finished
             PROVE  Result(e, game[e.match])
  BY DEF ResultSurvives, Result
<1>1. PICK m \in Matches : m = e.match
  BY DEF IInv, Typed
<1>2. e \in EntriesOf(m)
  BY <1>1 DEF EntriesOf
<1>3. EntriesInv(game[m], matches[m].finished, EntriesOf(m))
  BY <1>2, Held
<1> QED BY <1>1, <1>2, <1>3 DEF EntriesInv

-----------------------------------------------------------------------------
(* The counters of match_players *)

\* What a row of match_players says of the rows of match_legs: "of" are the player's
Reckoned(e, of) ==
  /\ e.legsPlayed = Cardinality(of)
  /\ e.legsWon \in Nat /\ Cardinality(Won(of)) <= e.legsWon
  /\ e.c180 = Total([l \in of |-> l.c180], of) /\ e.c100 = Total([l \in of |-> l.c100], of)
  /\ e.checkout = Max({l.checkout : l \in of} \cup {0})

LegsBy(L, p) == {l \in L : l.player = p}

\* The books of a match, which has a row if it was ever heard of
BooksInv(g, row, L, E) ==
  /\ row = None => L = {} /\ E = {}
  /\ row # None => row.finished \in BOOLEAN /\ \A s \in Booked(g) : \E e \in E : e.player = g.slots[s]
  /\ \A l \in L : Numbers(l)
  /\ IsFiniteSet(E)
  /\ \A e \in E : (\E s \in Booked(g) : e.player = g.slots[s]) /\ Reckoned(e, LegsBy(L, e.player))

Books == \A m \in Matches : BooksInv(game[m], matches[m], LegsOf(m), EntriesOf(m))

LEMMA EntryReckons ==
  ASSUME NEW legs, NEW m, NEW g, Played(g), NEW idle \in BOOLEAN, NEW s \in Booked(g), NEW K,
         K = {l \in legs : l.match = m}, IsFiniteSet(K), \A l \in K : Numbers(l),
         NEW e, e = MatchRow(legs, m, g, Described(g, idle), s)
  PROVE  e.player = g.slots[s] /\ Reckoned(e, LegsBy(K, e.player))
<1>1. PICK of, told : /\ of = {l \in legs : l.match = m /\ l.player = g.slots[s]}
                      /\ told = MatchStats(Described(g, idle), s).legsWon
  OBVIOUS
<1>2. /\ e.player = g.slots[s] /\ e.legsPlayed = Cardinality(of)
      /\ e.legsWon = Max({told, Cardinality(Won(of))})
      /\ e.c180 = SumFunction([l \in of |-> l.c180]) /\ e.c100 = SumFunction([l \in of |-> l.c100])
      /\ e.checkout = Max({l.checkout : l \in of} \cup {0})
  BY <1>1 DEF MatchRow, LegsWon, MaxOf
<1>3. of = LegsBy(K, e.player) /\ of \subseteq K
  BY <1>1, <1>2 DEF LegsBy
<1>4. SumFunction([l \in of |-> l.c180]) = Total([l \in of |-> l.c180], of)
  BY SumIs
<1>5. SumFunction([l \in of |-> l.c100]) = Total([l \in of |-> l.c100], of)
  BY SumIs
<1>6. told \in Nat
  <2>1. s \in Slots /\ g.wins \in [Slots -> Nat]
    BY BookedAre, GameHas DEF Played
  <2> QED BY <1>1, <2>1 DEF MatchStats, Described
<1>7. PICK n : n = Cardinality(Won(of))
  OBVIOUS
<1>8. n \in Nat
  <2>1. Won(of) \subseteq K
    BY <1>3 DEF Won
  <2> QED BY <1>7, <2>1, FS_Subset, FS_CardinalityType
<1>9. Max({told, n}) \in Nat /\ n <= Max({told, n})
  <2>1. \E x \in {told, n} : \A y \in {told, n} : x >= y
    BY <1>6, <1>8
  <2>2. PICK x : x = Max({told, n})
    OBVIOUS
  <2>3. x \in {told, n} /\ x >= n
    BY <2>1, <2>2 DEF Max
  <2> QED BY <1>6, <1>8, <2>2, <2>3
<1>10. e.c180 = Total([l \in of |-> l.c180], of) /\ e.c100 = Total([l \in of |-> l.c100], of)
  BY <1>2, <1>4, <1>5, Zenon
<1>11. e.legsWon \in Nat /\ Cardinality(Won(of)) <= e.legsWon
  BY <1>2, <1>7, <1>9
<1>12. Reckoned(e, of)
  BY <1>2, <1>10, <1>11, Zenon DEF Reckoned
<1> QED BY <1>2, <1>3, <1>12

LEMMA LegsNumbered ==
  ASSUME NEW m, NEW g, Played(g), NEW idle \in BOOLEAN, NEW L, \A l \in L : Numbers(l),
         NEW K, K = LegsAfter(L, m, g, Described(g, idle))
  PROVE  \A l \in K : Numbers(l)
<1>1. CASE g.legWinner = None
  BY <1>1 DEF LegsAfter
<1>2. CASE g.legWinner # None
  <2> SUFFICES ASSUME NEW l \in K PROVE Numbers(l)
    OBVIOUS
  <2>1. l \in L \/ \E s \in Booked(g) : l = LegRow(m, g, Described(g, idle), s)
    BY <1>2 DEF LegsAfter
  <2>2. ASSUME NEW s \in Booked(g), l = LegRow(m, g, Described(g, idle), s)
        PROVE  Numbers(l)
    <3>1. s \in Slots
      BY BookedAre DEF Played
    <3> QED BY <1>2, <2>2, <3>1, LegRowNumbers
  <2> QED BY <2>1, <2>2
<1> QED BY <1>1, <1>2

LEMMA BooksReported ==
  ASSUME IInv, Books, NEW m \in Matches, Report(m)
  PROVE  Books'
<1>1. PICK g, L : g = game[m] /\ L = LegsOf(m)
  OBVIOUS
<1>2. PICK idle \in BOOLEAN : HandleEvent(m, g, Described(g, idle))
  BY <1>1 DEF Report
<1>3. g # None /\ Played(g) /\ LegsInv(g, L) /\ \A l \in L : Numbers(l)
  BY <1>1 DEF Report, IInv, MatchInv, Books, BooksInv
<1>4. PICK r, legs, K, E : r = Described(g, idle) /\ legs = matchLegs' /\ K = LegsOf(m)' /\ E = EntriesOf(m)'
  OBVIOUS
<1>5. r.leg = g.leg /\ r.legWinner = g.legWinner /\ r.variant = g.variant /\ r.finished = Over(g)
  BY <1>4 DEF Described
<1>6. /\ matches' = [matches EXCEPT ![m] = [playedAt |-> g.playedAt, variant |-> r.variant, finished |-> r.finished]]
      /\ legs = WithLeg(matchLegs, m, g, r)
      /\ matchPlayers' = {e \in matchPlayers : e.match # m} \cup {MatchRow(legs, m, g, r, s) : s \in Booked(g)}
  BY <1>2, <1>4 DEF HandleEvent, Counters, WithMatch
<1>7. g.legWinner # None => \A s \in Booked(g) : LegRow(m, g, r, s).match = m
  BY <1>4 DEF LegRow
<1>8. K = {l \in legs : l.match = m}
  BY <1>4 DEF LegsOf
<1>9. K = LegsAfter(L, m, g, r)
  BY <1>1, <1>5, <1>6, <1>7, <1>8 DEF WithLeg, LegsAfter, LegsOf
<1>10. LegsInv(g, K) /\ \A l \in K : Numbers(l)
  BY <1>3, <1>4, <1>9, LegsReported, LegsNumbered
<1> DEFINE row(s) == MatchRow(legs, m, g, r, s)
<1>11. \A s \in Booked(g) : row(s).match = m
  BY DEF MatchRow
<1>12. \A s \in Booked(g) : row(s).player = g.slots[s] /\ Reckoned(row(s), LegsBy(K, row(s).player))
  BY <1>3, <1>4, <1>8, <1>10, EntryReckons DEF LegsInv
<1>13. E = {row(s) : s \in Booked(g)}
  BY <1>4, <1>6, <1>11 DEF EntriesOf
<1>14. matchPlayers' = {e \in matchPlayers : e.match # m} \cup {row(s) : s \in Booked(g)}
  BY <1>6
<1> HIDE DEF row
<1>15. IsFiniteSet(E)
  <2>1. IsFiniteSet({}) /\ Booked(g) \subseteq 0 .. 1
    BY <1>3, BookedAre, FS_EmptySet DEF Played, Slots
  <2>2. IsFiniteSet({} \cup {row(0)})
    BY <2>1, FS_AddElement
  <2>3. IsFiniteSet(({} \cup {row(0)}) \cup {row(1)})
    BY <2>2, FS_AddElement
  <2>4. E \subseteq ({} \cup {row(0)}) \cup {row(1)}
    BY <1>13, <2>1
  <2> QED BY <2>3, <2>4, FS_Subset
<1>16. matches = [x \in Matches |-> matches[x]] /\ game' = game
  BY DEF IInv, Typed, Report
<1>17. /\ \A x \in Matches \ {m} : matches'[x] = matches[x]
       /\ matches'[m] = [playedAt |-> g.playedAt, variant |-> r.variant, finished |-> r.finished]
  BY <1>6, <1>16
<1>18. BooksInv(g, matches'[m], K, E)
  <2>1. PICK rw : rw = matches'[m]
    OBVIOUS
  <2>2. rw.finished \in BOOLEAN
    <3>1. rw.finished = Over(g)
      BY <1>5, <1>17, <2>1
    <3> QED BY <3>1 DEF Over
  <2>3. rw # None
    <3>1. g.playedAt \in Nat /\ g.variant \in Variants
      BY <1>3, GameHas DEF Played
    <3>2. rw \in [playedAt : Nat, variant : Variants, finished : BOOLEAN]
      BY <1>5, <1>17, <2>1, <2>2, <3>1
    <3> QED BY <3>2, ScoringAssumption
  <2> QED BY <1>10, <1>12, <1>13, <1>15, <2>1, <2>2, <2>3 DEF BooksInv
<1>19. ASSUME NEW x \in Matches
       PROVE  BooksInv(game[x], matches[x], LegsOf(x), EntriesOf(x))'
  <2>1. CASE x = m
    BY <1>1, <1>4, <1>16, <1>18, <2>1
  <2>2. CASE x # m
    <3>1. EntriesOf(x)' = EntriesOf(x)
      BY <1>11, <1>14, <2>2 DEF EntriesOf, row
    <3>2. LegsOf(x)' = LegsOf(x)
      <4>1. CASE g.legWinner = None
        BY <1>4, <1>5, <1>6, <4>1 DEF WithLeg, LegsOf
      <4>2. CASE g.legWinner # None
        <5>1. matchLegs' = {l \in matchLegs : l.match # m \/ l.leg # r.leg} \cup {LegRow(m, g, r, s) : s \in Booked(g)}
          BY <1>4, <1>5, <1>6, <4>2 DEF WithLeg
        <5> QED BY <1>7, <2>2, <4>2, <5>1 DEF LegsOf
      <4> QED BY <4>1, <4>2
    <3>3. matches'[x] = matches[x] /\ game'[x] = game[x]
      BY <1>16, <1>17, <2>2
    <3> QED BY <3>1, <3>2, <3>3 DEF Books
  <2> QED BY <2>1, <2>2
<1> QED BY <1>19 DEF Books

\* Whoever has been heard of plays on, the tables as they are.
LEMMA BooksStay ==
  ASSUME Books, UNCHANGED tables, \A m \in Matches : matches[m] # None => game'[m].slots = game[m].slots
  PROVE  Books'
<1>1. matches' = matches /\ matchLegs' = matchLegs /\ matchPlayers' = matchPlayers
  BY DEF tables
<1>2. ASSUME NEW m \in Matches
      PROVE  BooksInv(game[m], matches[m], LegsOf(m), EntriesOf(m))'
  <2>1. PICK g, h, row, L, E : g = game[m] /\ h = game'[m] /\ row = matches[m] /\ L = LegsOf(m) /\ E = EntriesOf(m)
    OBVIOUS
  <2>2. LegsOf(m)' = L /\ EntriesOf(m)' = E /\ matches'[m] = row
    BY <1>1, <2>1 DEF LegsOf, EntriesOf
  <2>3. BooksInv(g, row, L, E)
    BY <2>1 DEF Books
  <2>4. row # None => h.slots = g.slots /\ Booked(h) = Booked(g)
    BY <2>1 DEF Booked
  <2>5. BooksInv(h, row, L, E)
    BY <2>3, <2>4 DEF BooksInv
  <2> QED BY <2>1, <2>2, <2>5
<1> QED BY <1>2 DEF Books

LEMMA BooksKeep ==
  IInv /\ Books /\ [Next]_vars => Books'
<1> SUFFICES ASSUME IInv, Books, [Next]_vars PROVE Books'
  OBVIOUS
<1>1. CASE Tick
  <2>1. UNCHANGED tables /\ game' = game
    BY <1>1 DEF Tick
  <2> QED BY <2>1, BooksStay
<1>2. ASSUME NEW m \in Matches, Report(m)
      PROVE  Books'
  BY <1>2, BooksReported
<1>3. ASSUME NEW m \in Matches, NEW pair, NEW v, NEW source, NEW n, Begin(m, pair, v, source, n)
      PROVE  Books'
  <2>1. MatchInv(None, matches[m], LegsOf(m), EntriesOf(m), ReportsOf(m), now)
    BY <1>3 DEF Begin, IInv
  <2>2. matches[m] = None
    BY <2>1 DEF MatchInv
  <2>3. UNCHANGED tables /\ \A x \in Matches \ {m} : game'[x] = game[x]
    BY <1>3 DEF Begin, IInv, Typed
  <2> QED BY <2>2, <2>3, BooksStay
<1>4. ASSUME NEW m \in Matches, PlayTurn(m)
      PROVE  Books'
  <2>1. game[m] # None
    BY <1>4 DEF PlayTurn, Running
  <2>2. Played(game[m]) /\ now \in Nat
    BY <2>1 DEF IInv, MatchInv, Typed
  <2>3. PICK h : game' = [game EXCEPT ![m] = h] /\ Continues(h, game[m])
    BY <1>4, <2>2, PlayTurnIsPlayed DEF IInv, Typed
  <2>4. UNCHANGED tables
    BY <1>4 DEF PlayTurn
  <2>5. \A x \in Matches : game'[x].slots = game[x].slots
    BY <2>3 DEF IInv, Typed, Continues, SameMatch
  <2> QED BY <2>4, <2>5, BooksStay
<1>5. ASSUME NEW m \in Matches, NextLeg(m)
      PROVE  Books'
  <2>1. UNCHANGED tables /\ game[m] # None /\ ~Over(game[m]) /\ game' = [game EXCEPT ![m] = AfterLeg(@)]
    BY <1>5 DEF NextLeg
  <2>2. Played(game[m])
    BY <2>1 DEF IInv, MatchInv
  <2>3. PICK h : h = AfterLeg(game[m])
    OBVIOUS
  <2>4. h.slots = game[m].slots
    BY <2>1, <2>2, <2>3, NextLegIsPlayed DEF SameMatch
  <2>5. \A x \in Matches : game'[x].slots = game[x].slots
    BY <2>1, <2>3, <2>4 DEF IInv, Typed
  <2> QED BY <2>1, <2>5, BooksStay
<1>6. CASE UNCHANGED vars
  <2>1. UNCHANGED tables /\ game' = game
    BY <1>6 DEF vars
  <2> QED BY <2>1, BooksStay
<1> QED BY <1>1, <1>2, <1>3, <1>4, <1>5, <1>6 DEF Next

LEMMA BooksAtFirst ==
  Init => Books
<1> SUFFICES ASSUME Init, NEW m \in Matches PROVE BooksInv(game[m], matches[m], LegsOf(m), EntriesOf(m))
  BY DEF Books
<1>1. matches[m] = None /\ LegsOf(m) = {} /\ EntriesOf(m) = {}
  BY DEF Init, LegsOf, EntriesOf
<1>2. IsFiniteSet({})
  BY FS_EmptySet
<1> QED BY <1>1, <1>2 DEF BooksInv

-----------------------------------------------------------------------------
(* Periods *)

LEMMA TablesAreFinite ==
  ASSUME IInv, Books
  PROVE  IsFiniteSet(matchLegs) /\ IsFiniteSet(matchPlayers) /\ \A l \in matchLegs : Numbers(l)
<1>1. \A m \in Matches : IsFiniteSet(EntriesOf(m)) /\ \A l \in LegsOf(m) : Numbers(l)
  BY DEF Books, BooksInv
<1>2. ASSUME NEW m \in Matches PROVE IsFiniteSet(LegsOf(m))
  <2>1. CASE LegsOf(m) = {}
    BY <2>1, FS_EmptySet
  <2>2. CASE LegsOf(m) # {}
    BY <2>2, Held DEF LegsInv
  <2> QED BY <2>1, <2>2
<1>4. IsFiniteSet({LegsOf(m) : m \in Matches})
  <2> DEFINE f == [m \in Matches |-> LegsOf(m)]
             T == {LegsOf(m) : m \in Matches}
  <2>1. \A t \in T : \E m \in Matches : f[m] = t
    OBVIOUS
  <2> HIDE DEF f, T
  <2>2. IsFiniteSet(T)
    BY <2>1, StatisticsAssumption, NamedIsFinite
  <2> QED BY <2>2 DEF T
<1>5. IsFiniteSet({EntriesOf(m) : m \in Matches})
  <2> DEFINE f == [m \in Matches |-> EntriesOf(m)]
             T == {EntriesOf(m) : m \in Matches}
  <2>1. \A t \in T : \E m \in Matches : f[m] = t
    OBVIOUS
  <2> HIDE DEF f, T
  <2>2. IsFiniteSet(T)
    BY <2>1, StatisticsAssumption, NamedIsFinite
  <2> QED BY <2>2 DEF T
<1>6. IsFiniteSet(UNION {LegsOf(m) : m \in Matches})
  <2>1. \A T \in {LegsOf(m) : m \in Matches} : IsFiniteSet(T)
    BY <1>2
  <2> QED BY <1>4, <2>1, FS_UNION
<1>7. IsFiniteSet(UNION {EntriesOf(m) : m \in Matches})
  <2>1. \A T \in {EntriesOf(m) : m \in Matches} : IsFiniteSet(T)
    BY <1>1
  <2> QED BY <1>5, <2>1, FS_UNION
<1>8. matchLegs = UNION {LegsOf(m) : m \in Matches} /\ matchPlayers = UNION {EntriesOf(m) : m \in Matches}
  BY DEF LegsOf, EntriesOf, IInv, Typed
<1> QED BY <1>1, <1>6, <1>7, <1>8 DEF LegsOf

\* The matches of two consecutive periods are those of both together.
LEMMA PeriodsArePartsOfOne ==
  ASSUME IInv, NEW a \in Nat, NEW b \in Nat, NEW c \in Nat, a <= b, b < c
  PROVE  Parts(Chosen(ParseFilter(a, b, None)), Chosen(ParseFilter(b + 1, c, None)), Chosen(ParseFilter(a, c, None)))
<1>1. PICK x, y, z : x = a * DayLength /\ y = (b + 1) * DayLength /\ z = (c + 1) * DayLength
  OBVIOUS
<1>2. x \in Nat /\ y \in Nat /\ z \in Nat /\ x <= y /\ y <= z
  <2>0. \A n \in Nat, k \in Nat : n <= k => n * DayLength <= k * DayLength /\ n * DayLength \in Nat
    <3> SUFFICES ASSUME NEW n \in Nat, NEW k \in Nat, n <= k
                 PROVE  n * DayLength <= k * DayLength /\ n * DayLength \in Nat
      OBVIOUS
    <3>1. DayLength \in Nat
      BY StatisticsAssumption
    <3>2. PICK d \in Nat : k = n + d
      <4>1. k - n \in Nat /\ k = n + (k - n)
        OBVIOUS
      <4> QED BY <4>1
    <3>3. k * DayLength = n * DayLength + d * DayLength /\ d * DayLength \in Nat /\ n * DayLength \in Nat
      BY <3>1, <3>2
    <3> QED BY <3>3
  <2>1. a <= b + 1 /\ b + 1 <= c + 1 /\ b + 1 \in Nat /\ c + 1 \in Nat
    OBVIOUS
  <2>2. z <= z /\ z \in Nat
    BY <1>1, <2>0, <2>1
  <2> QED BY <1>1, <2>0, <2>1, <2>2
<1>3. a # None /\ b # None /\ c # None /\ b + 1 # None /\ x # None /\ y # None /\ z # None
  BY <1>2, NoneAssumption
<1>4. /\ ParseFilter(a, b, None) = [from |-> x, to |-> y, variant |-> None]
      /\ ParseFilter(b + 1, c, None) = [from |-> y, to |-> z, variant |-> None]
      /\ ParseFilter(a, c, None) = [from |-> x, to |-> z, variant |-> None]
  BY <1>1, <1>3 DEF ParseFilter
<1>5. ASSUME NEW f, NEW p \in Nat, NEW q \in Nat, f = [from |-> p, to |-> q, variant |-> None]
      PROVE  Chosen(f) = {m \in Matches : matches[m] # None /\ matches[m].playedAt >= p /\ matches[m].playedAt < q}
  <2>1. p # None /\ q # None
    BY NoneAssumption
  <2> QED BY <1>5, <2>1 DEF Chosen
<1>6. \A m \in Matches : matches[m] # None => matches[m].playedAt \in Nat
  <2> SUFFICES ASSUME NEW m \in Matches, matches[m] # None PROVE matches[m].playedAt \in Nat
    OBVIOUS
  <2>1. game[m].playedAt \in 0 .. now /\ matches[m].playedAt = game[m].playedAt
    BY Held DEF RowInv
  <2> QED BY <2>1 DEF IInv, Typed
<1> QED BY <1>2, <1>4, <1>5, <1>6 DEF Parts

\* What the rows of a player over two sets of matches have to do with that over both
LEMMA RowParts ==
  ASSUME IInv, Books, NEW p, NEW A, NEW B, NEW C, Parts(A, B, C)
  PROVE  /\ Parts(Entries(p, Finished(A)), Entries(p, Finished(B)), Entries(p, Finished(C)))
         /\ Parts(Won(Entries(p, Finished(A))), Won(Entries(p, Finished(B))), Won(Entries(p, Finished(C))))
         /\ Parts(Entries(p, A \ Finished(A)), Entries(p, B \ Finished(B)), Entries(p, C \ Finished(C)))
         /\ Parts(Legs(p, A), Legs(p, B), Legs(p, C))
         /\ Parts(Won(Legs(p, A)), Won(Legs(p, B)), Won(Legs(p, C)))
<1>1. /\ Parts(Finished(A), Finished(B), Finished(C))
      /\ Parts(A \ Finished(A), B \ Finished(B), C \ Finished(C))
  BY DEF Parts, Finished
<1>2. \A X, Y, Z : Parts(X, Y, Z) => Parts(Entries(p, X), Entries(p, Y), Entries(p, Z)) /\ Parts(Legs(p, X), Legs(p, Y), Legs(p, Z))
  BY DEF Parts, Entries, Legs
<1>3. \A X, Y, Z : Parts(X, Y, Z) => Parts(Won(X), Won(Y), Won(Z))
  BY DEF Parts, Won
<1> QED BY <1>1, <1>2, <1>3

LEMMA PlayerRowsFinite ==
  ASSUME IInv, Books, NEW p, NEW ms
  PROVE  /\ IsFiniteSet(Entries(p, ms)) /\ IsFiniteSet(Won(Entries(p, ms)))
         /\ IsFiniteSet(Legs(p, ms)) /\ IsFiniteSet(Won(Legs(p, ms)))
         /\ \A l \in Legs(p, ms) : Numbers(l)
<1>1. /\ Entries(p, ms) \subseteq matchPlayers /\ Won(Entries(p, ms)) \subseteq matchPlayers
      /\ Legs(p, ms) \subseteq matchLegs /\ Won(Legs(p, ms)) \subseteq matchLegs
  BY DEF Entries, Legs, Won
<1> QED BY <1>1, TablesAreFinite, FS_Subset

\* The variants of a player's finished matches count each of them once.
LEMMA VariantsAddUp ==
  ASSUME IInv, Books, NEW p, NEW f
  PROVE  SumFunction([v \in Profile(p, f).variants |-> v.matches]) = Cardinality(Entries(p, Finished(Chosen(f))))
<1>1. PICK done, S : done = Entries(p, Finished(Chosen(f))) /\ S = Profile(p, f).variants
  OBVIOUS
<1> DEFINE of(v) == {e \in done : matches[e.match].variant = v}
           line(v) == [variant |-> v, matches |-> Cardinality(of(v)), wins |-> Cardinality(Won(of(v)))]
<1>2. S = {line(v) : v \in {matches[e.match].variant : e \in done}}
  BY <1>1 DEF Profile
<1>3. IsFiniteSet(done)
  BY <1>1, PlayerRowsFinite
<1>20. \A v : line(v).variant = v /\ line(v).matches = Cardinality(of(v))
  OBVIOUS
<1> HIDE DEF line, of
<1>4. \A x \in S : x.matches = Cardinality(of(x.variant)) /\ x = line(x.variant)
  <2> SUFFICES ASSUME NEW x \in S PROVE x.matches = Cardinality(of(x.variant)) /\ x = line(x.variant)
    OBVIOUS
  <2>1. PICK v : x = line(v)
    BY <1>2
  <2> QED BY <1>20, <2>1
<1>5. \A v : IsFiniteSet(of(v))
  BY <1>3, FS_Subset DEF of
<1>6. \A e \in done : \E x \in S : x.variant = matches[e.match].variant
  BY <1>20, <1>2
<1>7. IsFiniteSet(S)
  <2> DEFINE g == [e \in done |-> line(matches[e.match].variant)]
  <2>1. \A t \in S : \E e \in done : g[e] = t
    BY <1>2
  <2> HIDE DEF g
  <2> QED BY <1>3, <2>1, NamedIsFinite
<1> DEFINE w == [x \in S |-> x.matches]
           V == [x \in S |-> of(x.variant)]
<1>8. \A x \in S : IsFiniteSet(V[x]) /\ w[x] = Cardinality(V[x])
  BY <1>4, <1>5
<1>9. \A x, y \in S : x # y => V[x] \cap V[y] = {}
  <2> SUFFICES ASSUME NEW x \in S, NEW y \in S, x # y PROVE V[x] \cap V[y] = {}
    OBVIOUS
  <2>1. x.variant # y.variant
    BY <1>4
  <2> QED BY <2>1 DEF of
<1>10. Together(V, S) = done
  <2>1. \A e : e \in Together(V, S) => e \in done
    BY DEF Together, of
  <2>2. ASSUME NEW e \in done PROVE e \in Together(V, S)
    <3>1. PICK x \in S : x.variant = matches[e.match].variant
      BY <1>6
    <3>2. e \in V[x]
      BY <3>1 DEF of
    <3> QED BY <3>1, <3>2 DEF Together
  <2> QED BY <2>1, <2>2
<1>11. DOMAIN w = S
  OBVIOUS
<1> HIDE DEF V, w
<1>12. Total(w, S) = Cardinality(done)
  BY <1>7, <1>8, <1>9, <1>10, TotalIsCount
<1>13. SumFunction(w) = Total(w, S)
  BY <1>11, SumIs
<1> QED BY <1>1, <1>12, <1>13 DEF w

LEMMA PeriodsFollow ==
  IInv /\ Books => PeriodsAddUp
<1> SUFFICES ASSUME IInv, Books, NEW p \in Players, NEW a \in Days, NEW b \in Days, NEW c \in Days, a <= b, b < c,
                    NEW whole, whole = ParseFilter(a, c, None),
                    NEW early, early = RowOf(p, ParseFilter(a, b, None)),
                    NEW late, late = RowOf(p, ParseFilter(b + 1, c, None)),
                    NEW all, all = RowOf(p, whole)
             PROVE  /\ \A field \in {"matches", "wins", "openMatches", "legsPlayed", "legsWon", "darts", "c180"} :
                         early[field] + late[field] = all[field]
                    /\ SumFunction([v \in Profile(p, whole).variants |-> v.matches]) = all.matches
                    /\ Ranked(early, 1) => Ranked(all, 1)
  BY DEF PeriodsAddUp
<1>1. a \in Nat /\ b \in Nat /\ c \in Nat
  <2>1. Days \subseteq Nat
    BY DEF Days
  <2> QED BY <2>1
<1>2. PICK A, B, C : /\ A = Chosen(ParseFilter(a, b, None)) /\ B = Chosen(ParseFilter(b + 1, c, None))
                     /\ C = Chosen(ParseFilter(a, c, None))
  OBVIOUS
<1>3. Parts(A, B, C)
  BY <1>1, <1>2, PeriodsArePartsOfOne
<1>4. /\ early.matches = Cardinality(Entries(p, Finished(A))) /\ late.matches = Cardinality(Entries(p, Finished(B)))
      /\ all.matches = Cardinality(Entries(p, Finished(C)))
      /\ early.wins = Cardinality(Won(Entries(p, Finished(A)))) /\ late.wins = Cardinality(Won(Entries(p, Finished(B))))
      /\ all.wins = Cardinality(Won(Entries(p, Finished(C))))
      /\ early.openMatches = Cardinality(Entries(p, A \ Finished(A)))
      /\ late.openMatches = Cardinality(Entries(p, B \ Finished(B)))
      /\ all.openMatches = Cardinality(Entries(p, C \ Finished(C)))
      /\ early.legsPlayed = Cardinality(Legs(p, A)) /\ late.legsPlayed = Cardinality(Legs(p, B))
      /\ all.legsPlayed = Cardinality(Legs(p, C))
      /\ early.legsWon = Cardinality(Won(Legs(p, A))) /\ late.legsWon = Cardinality(Won(Legs(p, B)))
      /\ all.legsWon = Cardinality(Won(Legs(p, C)))
  BY <1>2 DEF RowOf
<1>5. /\ early.darts = SumFunction([l \in Legs(p, A) |-> l.darts])
      /\ late.darts = SumFunction([l \in Legs(p, B) |-> l.darts])
      /\ all.darts = SumFunction([l \in Legs(p, C) |-> l.darts])
      /\ early.c180 = SumFunction([l \in Legs(p, A) |-> l.c180])
      /\ late.c180 = SumFunction([l \in Legs(p, B) |-> l.c180])
      /\ all.c180 = SumFunction([l \in Legs(p, C) |-> l.c180])
  BY <1>2, Zenon DEF RowOf
<1>6. /\ Parts(Entries(p, Finished(A)), Entries(p, Finished(B)), Entries(p, Finished(C)))
      /\ Parts(Won(Entries(p, Finished(A))), Won(Entries(p, Finished(B))), Won(Entries(p, Finished(C))))
      /\ Parts(Entries(p, A \ Finished(A)), Entries(p, B \ Finished(B)), Entries(p, C \ Finished(C)))
      /\ Parts(Legs(p, A), Legs(p, B), Legs(p, C))
      /\ Parts(Won(Legs(p, A)), Won(Legs(p, B)), Won(Legs(p, C)))
  BY <1>3, RowParts
<1>7. \A ms : /\ IsFiniteSet(Entries(p, ms)) /\ IsFiniteSet(Won(Entries(p, ms)))
              /\ IsFiniteSet(Legs(p, ms)) /\ IsFiniteSet(Won(Legs(p, ms)))
              /\ \A l \in Legs(p, ms) : Numbers(l)
  BY PlayerRowsFinite
<1>8. early.matches \in Nat /\ late.matches \in Nat /\ early.matches + late.matches = all.matches
  BY <1>4, <1>6, <1>7, PartsAdd
<1>9. /\ early.wins + late.wins = all.wins /\ early.openMatches + late.openMatches = all.openMatches
      /\ early.legsPlayed + late.legsPlayed = all.legsPlayed /\ early.legsWon + late.legsWon = all.legsWon
  BY <1>4, <1>6, <1>7, PartsAdd
<1>10. Legs(p, A) \subseteq Legs(p, C) /\ Legs(p, B) \subseteq Legs(p, C)
  BY <1>6 DEF Parts
<1>11. early.darts + late.darts = all.darts
  <2> DEFINE u == [l \in Legs(p, A) |-> l.darts]
             v == [l \in Legs(p, B) |-> l.darts]
             w == [l \in Legs(p, C) |-> l.darts]
  <2>1. /\ DOMAIN w = Legs(p, C) /\ DOMAIN u = Legs(p, A) /\ DOMAIN v = Legs(p, B)
        /\ \A x \in Legs(p, C) : w[x] \in Nat
        /\ \A x \in Legs(p, A) : u[x] = w[x]
        /\ \A x \in Legs(p, B) : v[x] = w[x]
    BY <1>7, <1>10 DEF Numbers
  <2>2. early.darts = SumFunction(u) /\ late.darts = SumFunction(v) /\ all.darts = SumFunction(w)
    BY <1>5
  <2> HIDE DEF u, v, w
  <2>3. SumFunction(u) + SumFunction(v) = SumFunction(w)
    BY <1>6, <1>7, <2>1, SumsAdd
  <2> QED BY <2>2, <2>3
<1>12. early.c180 + late.c180 = all.c180
  <2> DEFINE u == [l \in Legs(p, A) |-> l.c180]
             v == [l \in Legs(p, B) |-> l.c180]
             w == [l \in Legs(p, C) |-> l.c180]
  <2>1. /\ DOMAIN w = Legs(p, C) /\ DOMAIN u = Legs(p, A) /\ DOMAIN v = Legs(p, B)
        /\ \A x \in Legs(p, C) : w[x] \in Nat
        /\ \A x \in Legs(p, A) : u[x] = w[x]
        /\ \A x \in Legs(p, B) : v[x] = w[x]
    BY <1>7, <1>10 DEF Numbers
  <2>2. early.c180 = SumFunction(u) /\ late.c180 = SumFunction(v) /\ all.c180 = SumFunction(w)
    BY <1>5
  <2> HIDE DEF u, v, w
  <2>3. SumFunction(u) + SumFunction(v) = SumFunction(w)
    BY <1>6, <1>7, <2>1, SumsAdd
  <2> QED BY <2>2, <2>3
<1>13. SumFunction([v \in Profile(p, whole).variants |-> v.matches]) = all.matches
  <2>1. SumFunction([v \in Profile(p, whole).variants |-> v.matches]) = Cardinality(Entries(p, Finished(Chosen(whole))))
    BY VariantsAddUp
  <2> QED BY <1>2, <1>4, <2>1
<1>14. Ranked(early, 1) => Ranked(all, 1)
  BY <1>8 DEF Ranked
<1>15. ASSUME NEW field \in {"matches", "wins", "openMatches", "legsPlayed", "legsWon", "darts", "c180"}
       PROVE  early[field] + late[field] = all[field]
  BY <1>8, <1>9, <1>11, <1>12
<1> QED BY <1>13, <1>14, <1>15

LEMMA EverythingIs ==
  /\ Chosen(Everything) = {m \in Matches : matches[m] # None}
  /\ Finished(Chosen(Everything)) = {m \in Matches : matches[m] # None /\ matches[m].finished}
BY DEF Chosen, Everything, Finished

\* An entry is that of a slot, and a slot that is booked has one.
LEMMA EntriesKnown ==
  ASSUME IInv, Books
  PROVE  /\ \A e \in matchPlayers :
              /\ e.match \in Matches /\ matches[e.match] # None /\ e.player \in Players
              /\ \E s \in Slots : game[e.match].slots[s] = e.player
              /\ Reckoned(e, Legs(e.player, {e.match}))
         /\ \A e, k \in matchPlayers : e.match = k.match /\ e.player = k.player => e = k
         /\ \A m \in Matches, s \in Slots : matches[m] # None /\ game[m].slots[s] # Bot =>
              game[m].slots[s] \in Players /\ \E e \in matchPlayers : e.match = m /\ e.player = game[m].slots[s]
<1>1. ASSUME NEW e \in matchPlayers
      PROVE  /\ e.match \in Matches /\ matches[e.match] # None /\ e.player \in Players
             /\ \E s \in Slots : game[e.match].slots[s] = e.player
             /\ Reckoned(e, Legs(e.player, {e.match}))
  <2>1. PICK m \in Matches : m = e.match
    BY DEF IInv, Typed
  <2>2. e \in EntriesOf(m)
    BY <2>1 DEF EntriesOf
  <2>3. BooksInv(game[m], matches[m], LegsOf(m), EntriesOf(m))
    BY DEF Books
  <2>4. PICK s \in Booked(game[m]) : e.player = game[m].slots[s]
    BY <2>2, <2>3 DEF BooksInv
  <2>5. matches[m] # None /\ Reckoned(e, LegsBy(LegsOf(m), e.player))
    BY <2>2, <2>3 DEF BooksInv
  <2>6. LegsBy(LegsOf(m), e.player) = Legs(e.player, {e.match})
    BY <2>1 DEF LegsBy, LegsOf, Legs
  <2>7. Played(game[m])
    BY <2>2, Held
  <2>8. s \in Slots /\ e.player \in Players
    <3>1. s \in Slots /\ game[m].slots[s] # Bot
      BY DEF Booked
    <3>2. game[m].slots \in [Slots -> Players \cup {Bot}]
      BY <2>7, GameHas, ScoringAssumption DEF Played
    <3> QED BY <2>4, <3>1, <3>2
  <2> QED BY <2>1, <2>4, <2>5, <2>6, <2>8
<1>2. ASSUME NEW e \in matchPlayers, NEW k \in matchPlayers, e.match = k.match, e.player = k.player
      PROVE  e = k
  BY <1>2, TypesFollow DEF TypeOK
<1>3. ASSUME NEW m \in Matches, NEW s \in Slots, matches[m] # None, game[m].slots[s] # Bot
      PROVE  game[m].slots[s] \in Players /\ \E e \in matchPlayers : e.match = m /\ e.player = game[m].slots[s]
  <2>1. BooksInv(game[m], matches[m], LegsOf(m), EntriesOf(m))
    BY DEF Books
  <2>2. s \in Booked(game[m])
    BY <1>3 DEF Booked
  <2>3. PICK e \in EntriesOf(m) : e.player = game[m].slots[s]
    BY <1>3, <2>1, <2>2 DEF BooksInv
  <2>4. Played(game[m])
    BY <1>3, Held
  <2>5. game[m].slots \in [Slots -> Players \cup {Bot}]
    BY <2>4, GameHas, ScoringAssumption DEF Played
  <2> QED BY <1>3, <2>3, <2>5 DEF EntriesOf
<1> QED BY <1>1, <1>2, <1>3

\* A leg is one of a player who has an entry.
LEMMA LegsKnown ==
  ASSUME IInv, Books, NEW l \in matchLegs
  PROVE  /\ l.match \in Matches /\ matches[l.match] # None /\ l.player \in Players
         /\ \E e \in matchPlayers : e.match = l.match /\ e.player = l.player
<1>1. PICK m \in Matches : m = l.match
  BY DEF IInv, Typed
<1>2. l \in LegsOf(m)
  BY <1>1 DEF LegsOf
<1>3. BooksInv(game[m], matches[m], LegsOf(m), EntriesOf(m))
  BY DEF Books
<1>4. matches[m] # None
  BY <1>2, <1>3 DEF BooksInv
<1>5. LegRowOf(l, game[m])
  BY <1>2, Held DEF LegsInv
<1>6. PICK s \in Booked(game[m]) : l.player = game[m].slots[s]
  BY <1>5 DEF LegRowOf
<1>7. s \in Slots /\ game[m].slots[s] # Bot
  BY DEF Booked
<1> QED BY <1>1, <1>4, <1>6, <1>7, EntriesKnown

\* A finished match has one winner.
LEMMA OneWinner ==
  ASSUME IInv, Books, NEW e \in matchPlayers, NEW k \in matchPlayers, e.match = k.match, matches[e.match].finished
  PROVE  /\ e.won /\ k.won => e = k
         /\ e # k => e.won \/ k.won
<1>1. PICK m, g : m = e.match /\ g = game[m]
  OBVIOUS
<1>2. m \in Matches /\ matches[m] # None
  BY <1>1, EntriesKnown
<1>3. Played(g) /\ Over(g)
  BY <1>1, <1>2, Held DEF RowInv
<1>4. Result(e, g) /\ Result(k, g)
  BY <1>1, <1>2, ResultFollows DEF ResultSurvives, Result
<1>5. PICK s \in Slots : g.slots[s] = e.player
  BY <1>1, EntriesKnown
<1>6. PICK x \in Slots : g.slots[x] = k.player
  <2>1. PICK h : h = game[k.match]
    OBVIOUS
  <2>2. \E x \in Slots : h.slots[x] = k.player
    BY <2>1, EntriesKnown
  <2>3. h = g
    BY <1>1, <2>1
  <2> QED BY <2>2, <2>3
<1>7. e.won = (g.wins[s] = g.target) /\ k.won = (g.wins[x] = g.target)
  BY <1>4, <1>5, <1>6 DEF Result
<1>8. PICK w \in Slots : g.wins[w] = g.target
  BY <1>3 DEF Over
<1>9. \A y \in Slots : g.wins[y] = g.target => y = w
  <2>1. \A y \in Slots : g.wins[y] \in Nat
    BY <1>3, GameHas DEF Played
  <2>2. g.target \in Nat
    BY <1>3, GameHas DEF Played
  <2>3. \A y \in Slots : g.wins[y] = g.target => g.legWinner = y
    BY <1>3, <2>1, <2>2 DEF Played, Leading
  <2> QED BY <1>8, <2>3
<1>10. e # k => s # x
  BY <1>5, <1>6, EntriesKnown
<1>11. ASSUME e.won, k.won PROVE e = k
  BY <1>7, <1>9, <1>10, <1>11
<1>12. ASSUME e # k PROVE e.won \/ k.won
  <2>1. s \in 0 .. 1 /\ x \in 0 .. 1 /\ w \in 0 .. 1 /\ s # x
    BY <1>10, <1>12 DEF Slots
  <2>2. w = s \/ w = x
    BY <2>1
  <2>3. w = s => e.won
    BY <1>7, <1>8, Zenon
  <2>4. w = x => k.won
    BY <1>7, <1>8, Zenon
  <2> QED BY <2>2, <2>3, <2>4
<1> QED BY <1>11, <1>12

-----------------------------------------------------------------------------
(* The counters add up *)

\* The legs of each of a player's entries make up his legs.
LEMMA LegsOfEntries ==
  ASSUME IInv, Books, NEW p, NEW mine, mine = Entries(p, Matches), NEW P, \A e \in mine : P[e] = Legs(p, {e.match})
  PROVE  /\ Together(P, mine) = Legs(p, Chosen(Everything))
         /\ \A e, k \in mine : e # k => P[e] \cap P[k] = {}
         /\ \A e \in mine : IsFiniteSet(P[e]) /\ Reckoned(e, P[e])
<1>1. ASSUME NEW l \in Together(P, mine) PROVE l \in Legs(p, Chosen(Everything))
  <2>1. PICK e \in mine : l \in P[e]
    BY DEF Together
  <2>2. l \in matchLegs /\ l.player = p
    BY <2>1 DEF Legs
  <2> QED BY <2>2, LegsKnown, EverythingIs DEF Legs
<1>2. ASSUME NEW l \in Legs(p, Chosen(Everything)) PROVE l \in Together(P, mine)
  <2>1. l \in matchLegs /\ l.player = p
    BY DEF Legs
  <2>2. PICK e \in matchPlayers : e.match = l.match /\ e.player = l.player
    BY <2>1, LegsKnown
  <2>3. e \in mine
    BY <2>1, <2>2, EntriesKnown DEF Entries
  <2>4. l \in P[e]
    BY <2>1, <2>2, <2>3 DEF Legs
  <2> QED BY <2>3, <2>4 DEF Together
<1>3. ASSUME NEW e \in mine, NEW k \in mine, e # k PROVE P[e] \cap P[k] = {}
  <2>1. e.match # k.match
    BY <1>3, EntriesKnown DEF Entries
  <2> QED BY <2>1 DEF Legs
<1>4. ASSUME NEW e \in mine PROVE IsFiniteSet(P[e]) /\ Reckoned(e, P[e])
  <2>1. e \in matchPlayers /\ e.player = p
    BY DEF Entries
  <2>2. PICK Q : Q = Legs(e.player, {e.match})
    OBVIOUS
  <2>3. Reckoned(e, Q)
    BY <2>1, <2>2, EntriesKnown
  <2>4. Q = P[e]
    BY <2>1, <2>2
  <2>5. IsFiniteSet(Legs(e.player, {e.match}))
    BY PlayerRowsFinite
  <2> QED BY <2>2, <2>3, <2>4, <2>5
<1> QED BY <1>1, <1>2, <1>3, <1>4

\* What match_players counts of a player's matches is what match_legs has.
CountersAgree(p) ==
  LET row  == RowOf(p, Everything)
      mine == Entries(p, Matches)
  IN /\ row.legsPlayed = SumFunction([e \in mine |-> e.legsPlayed])
     /\ row.legsWon <= SumFunction([e \in mine |-> e.legsWon])
     /\ row.c180 = SumFunction([e \in mine |-> e.c180])
     /\ row.c100 = SumFunction([e \in mine |-> e.c100])
     /\ row.checkout = MaxOf(mine, LAMBDA e : e.checkout)

LEMMA CountersFollow ==
  ASSUME IInv, Books, NEW p
  PROVE  CountersAgree(p)
<1>1. PICK row, mine, L : row = RowOf(p, Everything) /\ mine = Entries(p, Matches) /\ L = Legs(p, Chosen(Everything))
  OBVIOUS
<1>2. PICK P : P = [e \in mine |-> Legs(p, {e.match})]
  OBVIOUS
<1>3. /\ Together(P, mine) = L
      /\ \A e, k \in mine : e # k => P[e] \cap P[k] = {}
      /\ \A e \in mine : IsFiniteSet(P[e]) /\ Reckoned(e, P[e])
  <2>1. mine = Entries(p, Matches) /\ \A e \in mine : P[e] = Legs(p, {e.match})
    BY <1>1, <1>2
  <2>2. /\ Together(P, mine) = Legs(p, Chosen(Everything))
        /\ \A e, k \in mine : e # k => P[e] \cap P[k] = {}
        /\ \A e \in mine : IsFiniteSet(P[e]) /\ Reckoned(e, P[e])
    BY <2>1, LegsOfEntries
  <2> QED BY <1>1, <2>2
<1>4. IsFiniteSet(mine) /\ IsFiniteSet(L) /\ \A l \in L : Numbers(l)
  BY <1>1, PlayerRowsFinite
<1>5. /\ row.legsPlayed = Cardinality(L) /\ row.legsWon = Cardinality(Won(L))
      /\ row.checkout = Max({l.checkout : l \in L} \cup {0})
  BY <1>1 DEF RowOf, MaxOf
<1>6. row.c180 = SumFunction([l \in L |-> l.c180]) /\ row.c100 = SumFunction([l \in L |-> l.c100])
  BY <1>1, Zenon DEF RowOf
<1>7. row.legsPlayed = SumFunction([e \in mine |-> e.legsPlayed])
  <2> DEFINE w == [e \in mine |-> e.legsPlayed]
  <2>1. DOMAIN w = mine /\ \A e \in mine : IsFiniteSet(P[e]) /\ w[e] = Cardinality(P[e])
    BY <1>3 DEF Reckoned
  <2> HIDE DEF w
  <2>2. Total(w, mine) = Cardinality(L)
    BY <1>3, <1>4, <2>1, TotalIsCount
  <2>3. SumFunction(w) = Total(w, mine)
    BY <2>1, SumIs
  <2> QED BY <1>5, <2>2, <2>3 DEF w
<1>8. row.legsWon <= SumFunction([e \in mine |-> e.legsWon])
  <2> DEFINE w == [e \in mine |-> e.legsWon]
             u == [e \in mine |-> Cardinality(Won(P[e]))]
             W == [e \in mine |-> Won(P[e])]
  <2>1. \A e \in mine : IsFiniteSet(Won(P[e]))
    <3> SUFFICES ASSUME NEW e \in mine PROVE IsFiniteSet(Won(P[e]))
      OBVIOUS
    <3>1. Won(P[e]) \subseteq P[e]
      BY DEF Won
    <3> QED BY <1>3, <3>1, FS_Subset
  <2>2. \A e \in mine : IsFiniteSet(W[e]) /\ u[e] = Cardinality(W[e])
    BY <2>1
  <2>3. \A e, k \in mine : e # k => W[e] \cap W[k] = {}
    BY <1>3 DEF Won
  <2>4. Together(W, mine) = Won(L)
    BY <1>3 DEF Together, Won
  <2>5. \A e \in mine : u[e] \in Nat /\ w[e] \in Nat /\ u[e] =< w[e]
    BY <1>3, <2>1, FS_CardinalityType DEF Reckoned
  <2>6. DOMAIN w = mine
    OBVIOUS
  <2> HIDE DEF w, u, W
  <2>7. Total(u, mine) = Cardinality(Won(L))
    BY <1>4, <2>2, <2>3, <2>4, TotalIsCount
  <2>8. Total(u, mine) =< Total(w, mine)
    BY <1>4, <2>5, TotalAtMost
  <2>9. SumFunction(w) = Total(w, mine)
    BY <2>6, SumIs
  <2> QED BY <1>5, <2>7, <2>8, <2>9 DEF w
<1>9. row.c180 = SumFunction([e \in mine |-> e.c180])
  <2> DEFINE w == [e \in mine |-> e.c180]
             v == [l \in L |-> l.c180]
             part(e) == [l \in P[e] |-> l.c180]
  <2>1. \A e \in mine : P[e] \subseteq L
    BY <1>3 DEF Together
  <2>2. \A l \in L : v[l] \in Nat
    BY <1>4 DEF Numbers
  <2>3. \A e \in mine : w[e] = Total(part(e), P[e])
    BY <1>3 DEF Reckoned
  <2>4. \A e \in mine : \A l \in P[e] : part(e)[l] = v[l]
    BY <2>1
  <2>5. DOMAIN w = mine /\ DOMAIN v = L
    OBVIOUS
  <2>6. row.c180 = SumFunction(v)
    BY <1>6
  <2> HIDE DEF w, v, part
  <2>7. \A e \in mine : w[e] = Total(v, P[e])
    <3> SUFFICES ASSUME NEW e \in mine PROVE w[e] = Total(v, P[e])
      OBVIOUS
    <3>1. PICK Q, u : Q = P[e] /\ u = part(e)
      OBVIOUS
    <3>2. IsFiniteSet(Q) /\ \A l \in Q : u[l] \in Nat /\ v[l] = u[l]
      BY <1>3, <2>1, <2>2, <2>4, <3>1
    <3>3. Total(u, Q) = Total(v, Q)
      BY <3>2, TotalAgrees
    <3> QED BY <2>3, <3>1, <3>3
  <2>8. Total(w, mine) = Total(v, Together(P, mine))
    BY <1>3, <1>4, <2>2, <2>7, TotalOfParts
  <2>9. SumFunction(w) = Total(w, mine) /\ SumFunction(v) = Total(v, L)
    BY <2>5, SumIs
  <2> QED BY <1>3, <2>6, <2>8, <2>9 DEF w
<1>10. row.c100 = SumFunction([e \in mine |-> e.c100])
  <2> DEFINE w == [e \in mine |-> e.c100]
             v == [l \in L |-> l.c100]
             part(e) == [l \in P[e] |-> l.c100]
  <2>1. \A e \in mine : P[e] \subseteq L
    BY <1>3 DEF Together
  <2>2. \A l \in L : v[l] \in Nat
    BY <1>4 DEF Numbers
  <2>3. \A e \in mine : w[e] = Total(part(e), P[e])
    BY <1>3 DEF Reckoned
  <2>4. \A e \in mine : \A l \in P[e] : part(e)[l] = v[l]
    BY <2>1
  <2>5. DOMAIN w = mine /\ DOMAIN v = L
    OBVIOUS
  <2>6. row.c100 = SumFunction(v)
    BY <1>6
  <2> HIDE DEF w, v, part
  <2>7. \A e \in mine : w[e] = Total(v, P[e])
    <3> SUFFICES ASSUME NEW e \in mine PROVE w[e] = Total(v, P[e])
      OBVIOUS
    <3>1. PICK Q, u : Q = P[e] /\ u = part(e)
      OBVIOUS
    <3>2. IsFiniteSet(Q) /\ \A l \in Q : u[l] \in Nat /\ v[l] = u[l]
      BY <1>3, <2>1, <2>2, <2>4, <3>1
    <3>3. Total(u, Q) = Total(v, Q)
      BY <3>2, TotalAgrees
    <3> QED BY <2>3, <3>1, <3>3
  <2>8. Total(w, mine) = Total(v, Together(P, mine))
    BY <1>3, <1>4, <2>2, <2>7, TotalOfParts
  <2>9. SumFunction(w) = Total(w, mine) /\ SumFunction(v) = Total(v, L)
    BY <2>5, SumIs
  <2> QED BY <1>3, <2>6, <2>8, <2>9 DEF w
<1>11. row.checkout = MaxOf(mine, LAMBDA e : e.checkout)
  <2> DEFINE A == {l.checkout : l \in L} \cup {0}
             B == {e.checkout : e \in mine} \cup {0}
             C(e) == {l.checkout : l \in P[e]} \cup {0}
  <2>1. \A e \in mine : P[e] \subseteq L
    BY <1>3 DEF Together
  <2>2. A \subseteq Nat /\ \A e \in mine : C(e) \subseteq A
    BY <1>4, <2>1 DEF Numbers
  <2>3. IsFiniteSet(A)
    <3> DEFINE f == [l \in L |-> l.checkout]
               T == {l.checkout : l \in L}
    <3>1. \A t \in T : \E l \in L : f[l] = t
      OBVIOUS
    <3> HIDE DEF f, T
    <3>2. IsFiniteSet(T)
      BY <1>4, <3>1, NamedIsFinite
    <3>3. IsFiniteSet(T \cup {0})
      BY <3>2, FS_AddElement
    <3> QED BY <3>3 DEF T
  <2>4. \A e \in mine : e.checkout = Max(C(e))
    BY <1>3 DEF Reckoned
  <2>5. \A e \in mine : 0 \in C(e)
    OBVIOUS
  <2>6. \A x \in A : x = 0 \/ \E e \in mine : x \in C(e)
    BY <1>3 DEF Together
  <2>7. IsFiniteSet(B)
    <3> DEFINE f == [e \in mine |-> e.checkout]
               T == {e.checkout : e \in mine}
    <3>1. \A t \in T : \E e \in mine : f[e] = t
      OBVIOUS
    <3> HIDE DEF f, T
    <3>2. IsFiniteSet(T)
      BY <1>4, <3>1, NamedIsFinite
    <3>3. IsFiniteSet(T \cup {0})
      BY <3>2, FS_AddElement
    <3> QED BY <3>3 DEF T
  <2>8. 0 \in A /\ 0 \in B /\ (\A x \in B : x = 0 \/ \E e \in mine : x = e.checkout) /\ \A e \in mine : e.checkout \in B
    OBVIOUS
  <2>9. MaxOf(mine, LAMBDA e : e.checkout) = Max(B) /\ row.checkout = Max(A)
    BY <1>5 DEF MaxOf
  <2> HIDE DEF A, B, C
  <2>10. \A e \in mine : Largest(C(e))
    <3> SUFFICES ASSUME NEW e \in mine PROVE Largest(C(e))
      OBVIOUS
    <3>1. IsFiniteSet(C(e)) /\ C(e) \subseteq Nat /\ C(e) # {}
      BY <2>2, <2>3, <2>5, FS_Subset
    <3> QED BY <3>1, LargestIs
  <2>11. Largest(A)
    <3>1. A # {}
      BY <2>8
    <3> QED BY <2>2, <2>3, <3>1, LargestIs
  <2>12. \A e \in mine : e.checkout \in A /\ \A x \in C(e) : e.checkout >= x
    BY <2>2, <2>4, <2>10 DEF Largest
  <2>13. B \subseteq A
    BY <2>8, <2>12
  <2>14. Largest(B)
    <3>1. B \subseteq Nat /\ B # {}
      BY <2>2, <2>8, <2>13
    <3> QED BY <2>7, <3>1, LargestIs
  <2>15. PICK x, y : x = Max(A) /\ y = Max(B)
    OBVIOUS
  <2>16. x \in A /\ y \in A /\ x \in Nat /\ y \in Nat /\ y <= x
    BY <2>2, <2>11, <2>13, <2>14, <2>15 DEF Largest
  <2>17. x <= y
    <3>1. CASE x = 0
      BY <2>16, <3>1
    <3>2. ASSUME NEW e \in mine, x \in C(e) PROVE x <= y
      <4>1. e.checkout >= x /\ e.checkout \in Nat
        BY <2>2, <2>12, <3>2
      <4>2. y >= e.checkout
        BY <2>8, <2>14, <2>15 DEF Largest
      <4> QED BY <2>16, <4>1, <4>2
    <3> QED BY <2>6, <2>16, <3>1, <3>2
  <2> QED BY <2>9, <2>15, <2>16, <2>17
<1> QED BY <1>1, <1>7, <1>8, <1>9, <1>10, <1>11, Zenon DEF CountersAgree

-----------------------------------------------------------------------------
(* Who met whom *)

Met(p, q) == Finished(Both(p, q, Everything))

LEMMA MetIs ==
  ASSUME NEW p, NEW q
  PROVE  /\ Met(p, q) = {m \in Finished(Chosen(Everything)) :
                           /\ \E e \in matchPlayers : e.match = m /\ e.player = p
                           /\ \E e \in matchPlayers : e.match = m /\ e.player = q}
         /\ Side(p, q, Everything).matches = Cardinality(Met(p, q))
         /\ Side(p, q, Everything).wins = Cardinality(Won(Entries(p, Met(p, q))))
<1>1. \A m, x : Entries(x, {m}) # {} <=> \E e \in matchPlayers : e.match = m /\ e.player = x
  BY DEF Entries
<1>2. Met(p, q) = {m \in Finished(Chosen(Everything)) :
                     /\ \E e \in matchPlayers : e.match = m /\ e.player = p
                     /\ \E e \in matchPlayers : e.match = m /\ e.player = q}
  <2>1. PICK C : C = Chosen(Everything)
    OBVIOUS
  <2>2. \A m : m \in Both(p, q, Everything) <=>
          /\ m \in C
          /\ \E e \in matchPlayers : e.match = m /\ e.player = p
          /\ \E e \in matchPlayers : e.match = m /\ e.player = q
    BY <1>1, <2>1 DEF Both
  <2>3. \A m : m \in Met(p, q) <=> m \in Both(p, q, Everything) /\ matches[m].finished
    BY DEF Met, Finished
  <2>4. \A m : m \in Finished(Chosen(Everything)) <=> m \in C /\ matches[m].finished
    BY <2>1 DEF Finished
  <2>5. \A m : m \in Met(p, q) <=>
          /\ m \in Finished(Chosen(Everything))
          /\ \E e \in matchPlayers : e.match = m /\ e.player = p
          /\ \E e \in matchPlayers : e.match = m /\ e.player = q
    BY <2>2, <2>3, <2>4, Zenon
  <2> QED BY <2>5
<1>3. Side(p, q, Everything).matches = Cardinality(Met(p, q))
  BY DEF Side, Met
<1>4. Side(p, q, Everything).wins = Cardinality(Won(Entries(p, Met(p, q))))
  BY DEF Side, Met
<1> QED BY <1>2, <1>3, <1>4

\* The matches a player has won, counted by his entries
WonBySomeone(p, ms) == {m \in ms : \E e \in matchPlayers : e.match = m /\ e.player = p /\ e.won}

LEMMA VictoriesAreMatches ==
  ASSUME IInv, Books, NEW p, NEW ms
  PROVE  Cardinality(WonBySomeone(p, ms)) = Cardinality(Won(Entries(p, ms)))
<1> DEFINE S == Won(Entries(p, ms))
           T == WonBySomeone(p, ms)
           f == [e \in S |-> e.match]
<1>1. f \in [S -> T] /\ \A m \in T : \E e \in S : f[e] = m
  BY DEF Won, Entries, WonBySomeone
<1>2. \A e, k \in S : f[e] = f[k] => e = k
  BY EntriesKnown DEF Won, Entries
<1>3. IsFiniteSet(S)
  BY PlayerRowsFinite
<1> HIDE DEF f, S, T
<1>4. f \in Surjection(S, T) /\ f \in Injection(S, T)
  BY <1>1, <1>2, Zenon DEF Surjection, Injection, IsInjective
<1>5. Cardinality(T) = Cardinality(S)
  BY <1>3, <1>4, FS_Surjection
<1> QED BY <1>5 DEF S, T

\* Of two who met one has won.
LEMMA OneOfTwoWon ==
  ASSUME IInv, Books, NEW p, NEW q, p # q
  PROVE  /\ Side(p, q, Everything).matches = Side(q, p, Everything).matches
         /\ Side(p, q, Everything).wins + Side(q, p, Everything).wins = Side(p, q, Everything).matches
<1>1. PICK M : M = Met(p, q)
  OBVIOUS
<1>2. Met(q, p) = M
  <2>1. PICK D : D = Finished(Chosen(Everything))
    OBVIOUS
  <2>2. \A m : m \in Met(p, q) <=> m \in D /\ (\E e \in matchPlayers : e.match = m /\ e.player = p)
                                          /\ (\E e \in matchPlayers : e.match = m /\ e.player = q)
    BY <2>1, MetIs
  <2>3. \A m : m \in Met(q, p) <=> m \in D /\ (\E e \in matchPlayers : e.match = m /\ e.player = q)
                                          /\ (\E e \in matchPlayers : e.match = m /\ e.player = p)
    BY <2>1, MetIs
  <2> QED BY <1>1, <2>2, <2>3
<1>3. PICK a, b : a = Side(p, q, Everything) /\ b = Side(q, p, Everything)
  OBVIOUS
<1>4. a.matches = Cardinality(M) /\ a.wins = Cardinality(Won(Entries(p, M)))
  BY <1>1, <1>3, MetIs
<1>5. b.matches = Cardinality(M) /\ b.wins = Cardinality(Won(Entries(q, M)))
  <2>1. b.matches = Cardinality(Met(q, p)) /\ b.wins = Cardinality(Won(Entries(q, Met(q, p))))
    BY <1>3, MetIs
  <2> QED BY <1>2, <2>1
<1>6. PICK A, B : A = WonBySomeone(p, M) /\ B = WonBySomeone(q, M)
  OBVIOUS
<1>7. M = {m \in Finished(Chosen(Everything)) :
                           /\ \E e \in matchPlayers : e.match = m /\ e.player = p
                           /\ \E e \in matchPlayers : e.match = m /\ e.player = q}
  BY <1>1, MetIs
<1>8. Finished(Chosen(Everything)) = {m \in Matches : matches[m] # None /\ matches[m].finished}
  BY EverythingIs
<1>9. Parts(A, B, M)
  <2>1. A \subseteq M /\ B \subseteq M
    BY <1>6 DEF WonBySomeone
  <2>2. ASSUME NEW m \in M PROVE (m \in A \/ m \in B) /\ ~(m \in A /\ m \in B)
    <3>1. PICK e \in matchPlayers : e.match = m /\ e.player = p
      BY <1>7
    <3>2. PICK k \in matchPlayers : k.match = m /\ k.player = q
      BY <1>7
    <3>3. matches[e.match].finished /\ e.match = k.match /\ e # k
      BY <1>7, <1>8, <3>1, <3>2
    <3>4. (e.won \/ k.won) /\ ~(e.won /\ k.won)
      BY <3>3, OneWinner
    <3>5. m \in A <=> e.won
      BY <1>6, <3>1, EntriesKnown DEF WonBySomeone
    <3>6. m \in B <=> k.won
      BY <1>6, <3>2, EntriesKnown DEF WonBySomeone
    <3> QED BY <3>4, <3>5, <3>6
  <2> QED BY <2>1, <2>2 DEF Parts
<1>10. IsFiniteSet(M)
  <2>1. M \subseteq Matches
    BY <1>7, <1>8
  <2> QED BY <2>1, FS_Subset, StatisticsAssumption
<1>11. Cardinality(A) + Cardinality(B) = Cardinality(M)
  BY <1>9, <1>10, PartsAdd
<1>12. Cardinality(A) = Cardinality(Won(Entries(p, M))) /\ Cardinality(B) = Cardinality(Won(Entries(q, M)))
  BY <1>6, VictoriesAreMatches
<1> QED BY <1>3, <1>4, <1>5, <1>11, <1>12

AgainstBots(p) == {e \in Entries(p, Finished(Chosen(Everything))) : \E s \in Slots : game[e.match].slots[s] = Bot}

\* Who is in a match besides p
LEMMA Opponents ==
  ASSUME IInv, Books, NEW e \in matchPlayers
  PROVE  /\ \A k, j \in matchPlayers : k.match = e.match /\ j.match = e.match => k = e \/ j = e \/ k = j
         /\ (\E s \in Slots : game[e.match].slots[s] = Bot) <=>
              ~\E k \in matchPlayers : k.match = e.match /\ k.player # e.player
<1>1. PICK m, g : m = e.match /\ g = game[m]
  OBVIOUS
<1>2. m \in Matches /\ matches[m] # None
  BY <1>1, EntriesKnown
<1>3. \A k \in matchPlayers : k.match = m => k.player \in Players /\ \E s \in Slots : g.slots[s] = k.player
  <2> SUFFICES ASSUME NEW k \in matchPlayers, k.match = m
               PROVE  k.player \in Players /\ \E s \in Slots : g.slots[s] = k.player
    OBVIOUS
  <2>1. PICK h : h = game[k.match]
    OBVIOUS
  <2>2. k.player \in Players /\ \E s \in Slots : h.slots[s] = k.player
    BY <2>1, EntriesKnown
  <2>3. h = g
    BY <1>1, <2>1
  <2> QED BY <2>2, <2>3
<1>4. \A s \in Slots : g.slots[s] # Bot => \E k \in matchPlayers : k.match = m /\ k.player = g.slots[s]
  BY <1>1, <1>2, EntriesKnown
<1>5. \A k, j \in matchPlayers : k.match = m /\ j.match = m /\ k.player = j.player => k = j
  BY EntriesKnown
<1>6. Bot \notin Players
  BY ScoringAssumption
<1>7. g.slots[0] = g.slots[1] => g.slots[0] = Bot
  <2>1. g.slots \in Pairings
    BY <1>1, <1>2, Held, GameHas DEF Played
  <2> QED BY <2>1, ScoringAssumption
<1>8. \A s : s \in Slots <=> s = 0 \/ s = 1
  BY DEF Slots
<1>9. ASSUME NEW k \in matchPlayers, NEW j \in matchPlayers, k.match = e.match, j.match = e.match
      PROVE  k = e \/ j = e \/ k = j
  <2>1. PICK s, x, y \in Slots : g.slots[s] = e.player /\ g.slots[x] = k.player /\ g.slots[y] = j.player
    BY <1>1, <1>3, <1>9
  <2>2. s = x \/ s = y \/ x = y
    BY <1>8
  <2> QED BY <1>1, <1>5, <1>9, <2>1, <2>2
<1>10. ASSUME NEW s \in Slots, g.slots[s] = Bot, NEW k \in matchPlayers, k.match = m, k.player # e.player
       PROVE  FALSE
  <2>1. PICK x, y \in Slots : g.slots[x] = e.player /\ g.slots[y] = k.player /\ e.player \in Players /\ k.player \in Players
    BY <1>1, <1>3, <1>10
  <2>2. s # x /\ s # y /\ x # y
    BY <1>6, <1>10, <2>1
  <2> QED BY <1>8, <2>2
<1>11. ASSUME \A s \in Slots : g.slots[s] # Bot
       PROVE  \E k \in matchPlayers : k.match = m /\ k.player # e.player
  <2>1. g.slots[0] # g.slots[1] /\ 0 \in Slots /\ 1 \in Slots
    BY <1>7, <1>8, <1>11
  <2>2. PICK x \in Slots : g.slots[x] # e.player
    BY <2>1
  <2> QED BY <1>4, <1>11, <2>2
<1> QED BY <1>1, <1>9, <1>10, <1>11

\* A player's victories are those over each of the others and those over computers.
LEMMA VictoriesFollow ==
  ASSUME IInv, Books, NEW p \in Players
  PROVE  RowOf(p, Everything).wins =
           SumFunction([q \in Players \ {p} |-> Side(p, q, Everything).wins]) + Cardinality(Won(AgainstBots(p)))
<1>1. PICK done, S, W, X : /\ done = Finished(Chosen(Everything)) /\ S = Players \ {p}
                           /\ W = Won(Entries(p, done)) /\ X = Won(AgainstBots(p))
  OBVIOUS
<1> DEFINE w == [q \in S |-> Side(p, q, Everything).wins]
           V == [q \in S |-> Won(Entries(p, Met(p, q)))]
<1>2. \A q \in S : IsFiniteSet(V[q]) /\ w[q] = Cardinality(V[q])
  BY MetIs, PlayerRowsFinite
<1>3. \A e : \A q \in S : e \in V[q] <=>
        e \in W /\ \E k \in matchPlayers : k.match = e.match /\ k.player = q
  <2>1. \A q : Met(p, q) = {m \in done : /\ \E e \in matchPlayers : e.match = m /\ e.player = p
                                         /\ \E e \in matchPlayers : e.match = m /\ e.player = q}
    BY <1>1, MetIs
  <2> QED BY <1>1, <2>1 DEF Won, Entries
<1>4. \A e \in W : e \in matchPlayers /\ e.player = p
  BY <1>1 DEF Won, Entries
<1>5. DOMAIN w = S
  OBVIOUS
<1> HIDE DEF V, w
<1>6. ASSUME NEW q \in S, NEW x \in S, q # x
      PROVE  V[q] \cap V[x] = {}
  <2> SUFFICES ASSUME NEW e \in V[q], e \in V[x] PROVE FALSE
    OBVIOUS
  <2>1. PICK k \in matchPlayers : k.match = e.match /\ k.player = q
    BY <1>3
  <2>2. PICK j \in matchPlayers : j.match = e.match /\ j.player = x
    BY <1>3
  <2>3. e \in matchPlayers /\ e.player = p
    BY <1>3, <1>4
  <2>4. k # e /\ j # e /\ k # j
    BY <1>1, <1>6, <2>1, <2>2, <2>3
  <2> QED BY <2>1, <2>2, <2>3, <2>4, Opponents
<1>7. \A e : e \in Together(V, S) <=> e \in W /\ \E k \in matchPlayers : k.match = e.match /\ k.player # p
  <2>1. \A e : e \in Together(V, S) <=> \E q \in S : e \in V[q]
    BY DEF Together
  <2>2. \A k \in matchPlayers : k.player # p => k.player \in S
    BY <1>1, EntriesKnown
  <2>3. \A q \in S : q # p
    BY <1>1
  <2> QED BY <1>3, <2>1, <2>2, <2>3
<1>8. \A e : e \in X <=> e \in W /\ ~\E k \in matchPlayers : k.match = e.match /\ k.player # p
  <2>1. \A e : e \in X <=> e \in W /\ \E s \in Slots : game[e.match].slots[s] = Bot
    BY <1>1 DEF AgainstBots, Won
  <2>2. \A e \in W : (\E s \in Slots : game[e.match].slots[s] = Bot) <=>
                       ~\E k \in matchPlayers : k.match = e.match /\ k.player # p
    <3> SUFFICES ASSUME NEW e \in W
                 PROVE  (\E s \in Slots : game[e.match].slots[s] = Bot) <=>
                          ~\E k \in matchPlayers : k.match = e.match /\ k.player # p
      OBVIOUS
    <3>1. e \in matchPlayers /\ e.player = p
      BY <1>4
    <3> QED BY <3>1, Opponents
  <2> QED BY <2>1, <2>2
<1>9. Parts(Together(V, S), X, W)
  BY <1>7, <1>8 DEF Parts
<1>10. IsFiniteSet(S) /\ IsFiniteSet(W)
  BY <1>1, PlayerRowsFinite, StatisticsAssumption, FS_Subset
<1>11. Total(w, S) = Cardinality(Together(V, S))
  BY <1>2, <1>6, <1>10, TotalIsCount
<1>12. SumFunction(w) = Total(w, S)
  BY <1>5, SumIs
<1>13. Cardinality(Together(V, S)) + Cardinality(X) = Cardinality(W)
  BY <1>9, <1>10, PartsAdd
<1>14. RowOf(p, Everything).wins = Cardinality(W)
  BY <1>1 DEF RowOf
<1>15. RowOf(p, Everything).wins = SumFunction(w) + Cardinality(X)
  BY <1>11, <1>12, <1>13, <1>14
<1> QED BY <1>1, <1>15 DEF w

\* The rows of all players have the matches of the site, but for those a computer won, and its legs.
LEMMA SiteFollows ==
  ASSUME IInv, Books
  PROVE  LET done == Finished(Chosen(Everything))
             botsWon == {m \in done : Won({e \in matchPlayers : e.match = m}) = {}}
         IN /\ Meta.matches = SumFunction([p \in Players |-> RowOf(p, Everything).wins]) + Cardinality(botsWon)
            /\ Meta.legs = SumFunction([p \in Players |-> RowOf(p, Everything).legsWon])
<1>1. PICK C, done : C = Chosen(Everything) /\ done = Finished(C)
  OBVIOUS
<1>2. PICK N : N = {m \in done : Won({e \in matchPlayers : e.match = m}) = {}}
  OBVIOUS
<1>3. done = {m \in Matches : matches[m] # None /\ matches[m].finished}
  BY <1>1, EverythingIs
<1>4. Meta.matches = Cardinality(done) /\ Meta.legs = Cardinality(Won(matchLegs))
  BY <1>3 DEF Meta
<1>5. IsFiniteSet(Players) /\ IsFiniteSet(done)
  <2>1. done \subseteq Matches
    BY <1>3
  <2> QED BY <2>1, StatisticsAssumption, FS_Subset
<1>6. Meta.matches = SumFunction([p \in Players |-> RowOf(p, Everything).wins]) + Cardinality(N)
  <2> DEFINE w == [p \in Players |-> RowOf(p, Everything).wins]
             V == [p \in Players |-> WonBySomeone(p, done)]
  <2>1. \A p \in Players : V[p] = WonBySomeone(p, done) /\ w[p] = RowOf(p, Everything).wins
    OBVIOUS
  <2>2. DOMAIN w = Players
    OBVIOUS
  <2> HIDE DEF w, V
  <2>3. ASSUME NEW p \in Players
        PROVE  IsFiniteSet(V[p]) /\ w[p] = Cardinality(V[p])
    <3>1. WonBySomeone(p, done) \subseteq done
      BY DEF WonBySomeone
    <3>2. RowOf(p, Everything).wins = Cardinality(Won(Entries(p, done)))
      BY <1>1 DEF RowOf
    <3>3. Cardinality(WonBySomeone(p, done)) = Cardinality(Won(Entries(p, done)))
      BY VictoriesAreMatches
    <3> QED BY <1>5, <2>1, <3>1, <3>2, <3>3, FS_Subset
  <2>4. ASSUME NEW p \in Players, NEW q \in Players, p # q
        PROVE  V[p] \cap V[q] = {}
    <3> SUFFICES ASSUME NEW m \in V[p], m \in V[q] PROVE FALSE
      OBVIOUS
    <3>1. m \in done /\ \E e \in matchPlayers : e.match = m /\ e.player = p /\ e.won
      BY <2>1 DEF WonBySomeone
    <3>2. PICK e \in matchPlayers : e.match = m /\ e.player = p /\ e.won
      BY <3>1
    <3>3. \E k \in matchPlayers : k.match = m /\ k.player = q /\ k.won
      BY <2>1 DEF WonBySomeone
    <3>4. PICK k \in matchPlayers : k.match = m /\ k.player = q /\ k.won
      BY <3>3
    <3>5. matches[e.match].finished /\ e.match = k.match
      BY <1>3, <3>1, <3>2, <3>4
    <3>6. e = k
      BY <3>2, <3>4, <3>5, OneWinner
    <3> QED BY <2>4, <3>2, <3>4, <3>6
  <2>5. Parts(Together(V, Players), N, done)
    <3>1. \A m : m \in Together(V, Players) <=> m \in done /\ \E e \in matchPlayers : e.match = m /\ e.won
      <4>1. \A m : m \in Together(V, Players) <=> \E p \in Players : m \in WonBySomeone(p, done)
        BY <2>1 DEF Together
      <4>2. \A e \in matchPlayers : e.player \in Players
        BY EntriesKnown
      <4> QED BY <4>1, <4>2 DEF WonBySomeone
    <3>2. \A m : m \in N <=> m \in done /\ ~\E e \in matchPlayers : e.match = m /\ e.won
      BY <1>2 DEF Won
    <3> QED BY <3>1, <3>2 DEF Parts
  <2>6. Total(w, Players) = Cardinality(Together(V, Players))
    BY <1>5, <2>3, <2>4, TotalIsCount
  <2>7. SumFunction(w) = Total(w, Players)
    BY <2>2, SumIs
  <2>8. Cardinality(Together(V, Players)) + Cardinality(N) = Cardinality(done)
    BY <1>5, <2>5, PartsAdd
  <2>9. Meta.matches = SumFunction(w) + Cardinality(N)
    BY <1>4, <2>6, <2>7, <2>8
  <2> QED BY <2>9 DEF w
<1>7. Meta.legs = SumFunction([p \in Players |-> RowOf(p, Everything).legsWon])
  <2> DEFINE w == [p \in Players |-> RowOf(p, Everything).legsWon]
             V == [p \in Players |-> Won(Legs(p, C))]
  <2>1. \A p \in Players : V[p] = Won(Legs(p, C)) /\ w[p] = RowOf(p, Everything).legsWon
    OBVIOUS
  <2>2. DOMAIN w = Players
    OBVIOUS
  <2> HIDE DEF w, V
  <2>3. ASSUME NEW p \in Players
        PROVE  IsFiniteSet(V[p]) /\ w[p] = Cardinality(V[p])
    <3>1. RowOf(p, Everything).legsWon = Cardinality(Won(Legs(p, C)))
      BY <1>1 DEF RowOf
    <3> QED BY <2>1, <3>1, PlayerRowsFinite
  <2>4. \A p, q \in Players : p # q => V[p] \cap V[q] = {}
    BY <2>1 DEF Won, Legs
  <2>5. Together(V, Players) = Won(matchLegs)
    <3>1. \A l : l \in Together(V, Players) <=> \E p \in Players : l \in Won(Legs(p, C))
      BY <2>1 DEF Together
    <3>2. \A l \in matchLegs : l.player \in Players /\ l.match \in C
      BY <1>1, LegsKnown, EverythingIs
    <3> QED BY <3>1, <3>2 DEF Won, Legs
  <2>6. Total(w, Players) = Cardinality(Together(V, Players))
    BY <1>5, <2>3, <2>4, TotalIsCount
  <2>7. SumFunction(w) = Total(w, Players)
    BY <2>2, SumIs
  <2>8. Meta.legs = SumFunction(w)
    BY <1>4, <2>5, <2>6, <2>7
  <2> QED BY <2>8 DEF w
<1> QED BY <1>1, <1>2, <1>6, <1>7

LEMMA PagesFollow ==
  IInv /\ Books => PagesAgree
<1> SUFFICES ASSUME IInv, Books PROVE PagesAgree
  OBVIOUS
<1> DEFINE done == Finished(Chosen(Everything))
           row  == [p \in Players |-> RowOf(p, Everything)]
           mine == [p \in Players |-> Entries(p, Matches)]
           side == [p \in Players |-> [q \in Players |-> Side(p, q, Everything)]]
           againstBots(p) == {e \in Entries(p, done) : \E s \in Slots : game[e.match].slots[s] = Bot}
           botsWon == {m \in done : Won({e \in matchPlayers : e.match = m}) = {}}
<1>1. ASSUME NEW p \in Players
      PROVE  /\ row[p].legsPlayed = SumFunction([e \in mine[p] |-> e.legsPlayed])
             /\ row[p].legsWon <= SumFunction([e \in mine[p] |-> e.legsWon])
             /\ row[p].c180 = SumFunction([e \in mine[p] |-> e.c180])
             /\ row[p].c100 = SumFunction([e \in mine[p] |-> e.c100])
             /\ row[p].checkout = MaxOf(mine[p], LAMBDA e : e.checkout)
  <2>1. row[p] = RowOf(p, Everything) /\ mine[p] = Entries(p, Matches)
    OBVIOUS
  <2>2. CountersAgree(p)
    BY CountersFollow
  <2> HIDE DEF row, mine
  <2> QED BY <2>1, <2>2 DEF CountersAgree
<1>2. ASSUME NEW p \in Players
      PROVE  row[p].wins = SumFunction([q \in Players \ {p} |-> side[p][q].wins]) + Cardinality(Won(againstBots(p)))
  <2>1. [q \in Players \ {p} |-> side[p][q].wins] = [q \in Players \ {p} |-> Side(p, q, Everything).wins]
    OBVIOUS
  <2>2. row[p] = RowOf(p, Everything) /\ againstBots(p) = AgainstBots(p)
    BY DEF AgainstBots
  <2>3. RowOf(p, Everything).wins =
          SumFunction([q \in Players \ {p} |-> Side(p, q, Everything).wins]) + Cardinality(Won(AgainstBots(p)))
    BY VictoriesFollow
  <2> HIDE DEF row, side, againstBots
  <2> QED BY <2>1, <2>2, <2>3
<1>3. ASSUME NEW p \in Players, NEW q \in Players, p # q
      PROVE  /\ side[p][q].matches = side[q][p].matches
             /\ side[p][q].wins + side[q][p].wins = side[p][q].matches
  <2>1. side[p][q] = Side(p, q, Everything) /\ side[q][p] = Side(q, p, Everything)
    OBVIOUS
  <2> HIDE DEF side
  <2> QED BY <1>3, <2>1, OneOfTwoWon
<1>4. /\ Meta.matches = SumFunction([p \in Players |-> row[p].wins]) + Cardinality(botsWon)
      /\ Meta.legs = SumFunction([p \in Players |-> row[p].legsWon])
  <2>1. /\ [p \in Players |-> row[p].wins] = [p \in Players |-> RowOf(p, Everything).wins]
        /\ [p \in Players |-> row[p].legsWon] = [p \in Players |-> RowOf(p, Everything).legsWon]
    OBVIOUS
  <2>2. /\ Meta.matches = SumFunction([p \in Players |-> RowOf(p, Everything).wins]) + Cardinality(botsWon)
        /\ Meta.legs = SumFunction([p \in Players |-> RowOf(p, Everything).legsWon])
    BY SiteFollows
  <2> HIDE DEF row, botsWon
  <2> QED BY <2>1, <2>2
<1> HIDE DEF row, mine, side, againstBots, botsWon, done
<1>5. /\ \A p \in Players :
           /\ row[p].legsPlayed = SumFunction([e \in mine[p] |-> e.legsPlayed])
           /\ row[p].legsWon <= SumFunction([e \in mine[p] |-> e.legsWon])
           /\ row[p].c180 = SumFunction([e \in mine[p] |-> e.c180])
           /\ row[p].c100 = SumFunction([e \in mine[p] |-> e.c100])
           /\ row[p].checkout = MaxOf(mine[p], LAMBDA e : e.checkout)
           /\ row[p].wins = SumFunction([q \in Players \ {p} |-> side[p][q].wins]) + Cardinality(Won(againstBots(p)))
      /\ \A p \in Players, q \in Players : p # q =>
           /\ side[p][q].matches = side[q][p].matches
           /\ side[p][q].wins + side[q][p].wins = side[p][q].matches
      /\ Meta.matches = SumFunction([p \in Players |-> row[p].wins]) + Cardinality(botsWon)
      /\ Meta.legs = SumFunction([p \in Players |-> row[p].legsWon])
  BY <1>1, <1>2, <1>3, <1>4, Zenon
<1> QED BY <1>5, Zenon DEF PagesAgree, row, mine, side, againstBots, botsWon, done

-----------------------------------------------------------------------------
(* The quotients *)

\* Nothing adds up to nothing.
LEMMA TotalOfNothing ==
  ASSUME NEW S, IsFiniteSet(S), NEW w, \A x \in S : w[x] = 0
  PROVE  Total(w, S) = 0
<1>1. Heap(w, S) = {}
  BY DEF Heap, Stack
<1>2. Total(w, S) = Cardinality(Heap(w, S))
  BY TotalIsHeap
<1> QED BY <1>1, <1>2, FS_EmptySet

\* A common factor
LEMMA TotalTimes ==
  ASSUME NEW S, IsFiniteSet(S), NEW k \in Nat, NEW w, NEW v, \A x \in S : w[x] \in Nat /\ v[x] = k * w[x]
  PROVE  Total(v, S) = k * Total(w, S)
<1> DEFINE K == Stack(0, k)
           V == [x \in S |-> K \X Stack(x, w[x])]
<1>1. \A x \in S : V[x] = K \X Stack(x, w[x])
  OBVIOUS
<1>2. IsFiniteSet(K) /\ Cardinality(K) = k
  BY StackHas
<1> HIDE DEF V, K
<1>3. ASSUME NEW x \in S
      PROVE  IsFiniteSet(V[x]) /\ v[x] = Cardinality(V[x])
  <2>1. PICK n \in Nat : n = w[x]
    OBVIOUS
  <2>2. PICK T : T = Stack(x, n)
    OBVIOUS
  <2>3. IsFiniteSet(T) /\ Cardinality(T) = n
    BY <2>2, StackHas
  <2>4. IsFiniteSet(K \X T) /\ Cardinality(K \X T) = Cardinality(K) * Cardinality(T)
    BY <1>2, <2>3, FS_Product
  <2>5. V[x] = K \X T /\ v[x] = k * n
    BY <1>1, <2>1, <2>2
  <2> QED BY <1>2, <2>3, <2>4, <2>5
<1>4. \A x, y \in S : x # y => V[x] \cap V[y] = {}
  BY <1>1 DEF Stack
<1>5. Total(v, S) = Cardinality(Together(V, S))
  BY <1>3, <1>4, TotalIsCount
<1>6. Together(V, S) = K \X Heap(w, S)
  <2>1. \A z : z \in Together(V, S) <=> \E x \in S : z \in K \X Stack(x, w[x])
    BY <1>1 DEF Together
  <2>2. \A z : z \in K \X Heap(w, S) <=> \E x \in S : z \in K \X Stack(x, w[x])
    BY DEF Heap
  <2> QED BY <2>1, <2>2
<1>7. PICK H : H = Heap(w, S)
  OBVIOUS
<1>8. IsFiniteSet(H) /\ Total(w, S) = Cardinality(H)
  BY <1>7, TotalIsHeap
<1>9. Cardinality(K \X H) = Cardinality(K) * Cardinality(H)
  BY <1>2, <1>8, FS_Product
<1> QED BY <1>2, <1>5, <1>6, <1>7, <1>8, <1>9

\* The same number for each
LEMMA TotalOfSame ==
  ASSUME NEW S, IsFiniteSet(S), NEW k \in Nat, NEW v, \A x \in S : v[x] = k
  PROVE  Total(v, S) = k * Cardinality(S)
<1> DEFINE V == [x \in S |-> {x}]
           w == [x \in S |-> 1]
<1>1. \A x \in S : V[x] = {x} /\ w[x] = 1
  OBVIOUS
<1> HIDE DEF V, w
<1>2. \A x \in S : IsFiniteSet(V[x]) /\ w[x] = Cardinality(V[x])
  BY <1>1, FS_Singleton
<1>3. \A x, y \in S : x # y => V[x] \cap V[y] = {}
  BY <1>1
<1>4. Total(w, S) = Cardinality(Together(V, S))
  BY <1>2, <1>3, TotalIsCount
<1>5. Together(V, S) = S
  BY <1>1 DEF Together
<1>6. \A x \in S : w[x] \in Nat /\ v[x] = k * w[x]
  BY <1>1
<1>7. Total(v, S) = k * Total(w, S)
  BY <1>6, TotalTimes
<1> QED BY <1>4, <1>5, <1>7

\* One thing of B for each of A
Matched(f, A, B) ==
  /\ \A a \in A : f[a] \in B
  /\ \A a, x \in A : f[a] = f[x] => a = x
  /\ \A b \in B : \E a \in A : f[a] = b

LEMMA SumsMove ==
  ASSUME NEW A, IsFiniteSet(A), NEW B, IsFiniteSet(B), NEW f, Matched(f, A, B),
         NEW w, DOMAIN w = A, NEW v, DOMAIN v = B, \A a \in A : w[a] = v[f[a]] /\ w[a] \in Nat
  PROVE  SumFunction(w) = SumFunction(v) /\ SumFunction(w) \in Nat
<1>1. Total(w, A) = Total(v, B)
  BY TotalMoved DEF Matched
<1>2. SumFunction(w) = Total(w, A) /\ SumFunction(v) = Total(v, B)
  BY SumIs
<1>3. Total(w, A) \in Nat
  BY TotalIsHeap
<1> QED BY <1>1, <1>2, <1>3

\* What was thrown in the leg a row is about
ThrownIn(t, l) == t \in truth /\ t.match = l.match /\ t.leg = l.leg /\ PlayerOf(t) = l.player
Throw(l) == CHOOSE t \in truth : ThrownIn(t, l)

ThrownAs(l, t) ==
  /\ ThrownIn(t, l) /\ t \in Thrower /\ Opened9(t.tally)
  /\ Shows(l, t.tally, game[l.match]) /\ ((l.points # None) = (game[l.match].variant = "X01"))
  /\ game[l.match].source.legStats \in BOOLEAN

LEMMA ThrowIs ==
  ASSUME IInv, NEW l \in matchLegs
  PROVE  ThrownAs(l, Throw(l)) /\ \A u \in truth : ThrownIn(u, l) => u = Throw(l)
<1>1. PICK m \in Matches : m = l.match
  BY DEF IInv, Typed
<1>2. PICK g : g = game[m]
  OBVIOUS
<1>3. l \in LegsOf(m)
  BY <1>1 DEF LegsOf
<1>4. LegsInv(g, LegsOf(m)) /\ TruthInv(g, LegsOf(m), ReportsOf(m)) /\ Played(g)
  BY <1>2, <1>3, Held
<1>5. PICK t \in ReportsOf(m) : t.leg = l.leg /\ g.slots[t.slot] = l.player /\ Shows(l, t.tally, g)
  BY <1>3, <1>4 DEF TruthInv
<1>6. LegRowOf(l, g)
  BY <1>3, <1>4 DEF LegsInv
<1>7. PICK s \in Booked(g) : l.player = g.slots[s]
  BY <1>6 DEF LegRowOf
<1>8. \A u \in ReportsOf(m) : u \in truth /\ u.match = m /\ u \in Thrower /\ Opened9(u.tally)
  BY <1>4 DEF TruthInv, ReportsOf
<1>9. \A u \in ReportsOf(m) : PlayerOf(u) = g.slots[u.slot]
  BY <1>2, <1>8 DEF PlayerOf
<1>10. ThrownIn(t, l)
  BY <1>1, <1>5, <1>8, <1>9 DEF ThrownIn
<1>11. ASSUME NEW u \in truth, ThrownIn(u, l)
       PROVE  u = t
  <2>1. u \in ReportsOf(m) /\ u.leg = t.leg
    BY <1>1, <1>5, <1>11 DEF ThrownIn, ReportsOf
  <2>2. g.slots[u.slot] = g.slots[s] /\ g.slots[t.slot] = g.slots[s]
    BY <1>5, <1>7, <1>9, <1>11, <2>1 DEF ThrownIn
  <2>3. u.slot \in Slots /\ t.slot \in Slots
    BY <1>8, <2>1 DEF Thrower
  <2>4. u.slot \in Booked(g) /\ t.slot \in Booked(g)
    BY <1>7, <2>2, <2>3 DEF Booked
  <2>5. u.slot = t.slot
    BY <1>4, <2>2, <2>4, BookedAre DEF Played
  <2> QED BY <1>4, <1>8, <2>1, <2>5 DEF TruthInv
<1>12. t \in truth
  BY <1>8
<1>13. Throw(l) = t
  BY <1>10, <1>11, <1>12 DEF Throw
<1>14. g.source.legStats \in BOOLEAN
  BY <1>4, GameHas DEF Played, Source
<1> QED BY <1>1, <1>2, <1>5, <1>6, <1>8, <1>10, <1>11, <1>13, <1>14 DEF ThrownAs, LegRowOf

\* A row of a leg of X01 and what was thrown in it
Equal(l, t) ==
  /\ l.points = t.tally.points /\ (Told(t.match) => l.darts = t.tally.darts)
  /\ l.won <=> t.tally.points = Base
  /\ Told(t.match) /\ t.tally.first9[2] > 0 => l.first9 = t.tally.first9
  /\ t.tally \in Tally /\ Opened9(t.tally) /\ Numbers(l) /\ l.points \in Nat

\* The rows of a player's legs of X01 are the legs he has thrown.
LEMMA LegsAreThrows ==
  ASSUME IInv, Books, NEW p \in Players, NEW ms, ms \subseteq Matches,
         NEW S, S = Scored(Legs(p, ms)), NEW T, T = TruthOf(p, ms), NEW f, f = [l \in S |-> Throw(l)]
  PROVE  IsFiniteSet(S) /\ IsFiniteSet(T) /\ Matched(f, S, T) /\ \A l \in S : Equal(l, f[l])
<1>1. \A l \in S : l \in matchLegs /\ l.player = p /\ l.match \in ms /\ l.points # None
  BY DEF Scored, Legs
<1>2. ASSUME NEW l \in S
      PROVE  ThrownAs(l, f[l]) /\ game[l.match].variant = "X01" /\ f[l] \in T
  <2>1. PICK t : t = Throw(l)
    OBVIOUS
  <2>2. ThrownAs(l, t)
    BY <1>1, <2>1, ThrowIs
  <2>3. game[l.match].variant = "X01"
    BY <1>1, <2>2 DEF ThrownAs
  <2>4. t \in truth /\ PlayerOf(t) = p /\ t.match = l.match /\ l.match \in ms
    BY <1>1, <2>2 DEF ThrownAs, ThrownIn
  <2>5. t \in T
    BY <2>3, <2>4 DEF TruthOf
  <2> QED BY <2>1, <2>2, <2>3, <2>5
<1>3. ASSUME NEW l \in S, NEW k \in S, f[l] = f[k]
      PROVE  l = k
  <2>1. l.match = k.match /\ l.leg = k.leg /\ l.player = k.player
    BY <1>1, <1>2, <1>3 DEF ThrownAs, ThrownIn
  <2> QED BY <1>1, <2>1, TypesFollow DEF TypeOK
<1>4. ASSUME NEW t \in T
      PROVE  \E l \in S : f[l] = t
  <2>1. t \in truth /\ PlayerOf(t) = p /\ t.match \in ms /\ game[t.match].variant = "X01" /\ p # Bot
    BY ScoringAssumption DEF TruthOf
  <2>2. PICK l \in matchLegs : l.match = t.match /\ l.leg = t.leg /\ l.player = p
    BY <2>1, LegsFollow DEF LegRowsAreTheLeg
  <2>3. ThrownIn(t, l)
    BY <2>1, <2>2 DEF ThrownIn
  <2>4. ThrownAs(l, Throw(l)) /\ t = Throw(l)
    BY <2>1, <2>2, <2>3, ThrowIs
  <2>5. l.points # None
    BY <2>1, <2>2, <2>4 DEF ThrownAs
  <2>6. l \in S
    BY <2>1, <2>2, <2>5 DEF Scored, Legs
  <2> QED BY <2>4, <2>6
<1>5. Matched(f, S, T)
  BY <1>2, <1>3, <1>4 DEF Matched
<1>6. IsFiniteSet(S)
  <2>1. S \subseteq matchLegs
    BY <1>1
  <2> QED BY <2>1, TablesAreFinite, FS_Subset
<1>7. IsFiniteSet(T)
  BY <1>4, <1>6, NamedIsFinite
<1>8. ASSUME NEW l \in S
      PROVE  Equal(l, f[l])
  <2>1. PICK t, g : t = f[l] /\ g = game[l.match]
    OBVIOUS
  <2>2. ThrownAs(l, t) /\ g.variant = "X01"
    BY <1>2, <2>1
  <2>3. t.match = l.match /\ t \in Thrower /\ Opened9(t.tally) /\ Shows(l, t.tally, g)
    BY <2>1, <2>2 DEF ThrownAs, ThrownIn
  <2>4. /\ Tells(l, t.tally, g) /\ (t.tally.points = Base => l.won)
        /\ (g.source.throws \/ g.source.legStats) /\ t.tally.first9[2] > 0 => l.first9 = t.tally.first9
    BY <2>2, <2>3 DEF Shows
  <2>5. Told(t.match) <=> g.source.throws \/ g.source.legStats
    BY <2>1, <2>3 DEF Told
  <2>6. t.tally \in Tally
    BY <2>3 DEF Thrower
  <2>7. Numbers(l) /\ l.points \in Nat
    BY <1>1, TablesAreFinite DEF Numbers
  <2>8. l.won <=> t.tally.points = Base
    BY <2>4 DEF Tells
  <2> QED BY <2>1, <2>3, <2>4, <2>5, <2>6, <2>7, <2>8 DEF Equal, Tells
<1> QED BY <1>5, <1>6, <1>7, <1>8

\* Without a filter nothing of a player is left out.
LEMMA AllLegs ==
  ASSUME IInv, Books, NEW p \in Players
  PROVE  Legs(p, Chosen(Everything)) = Legs(p, Matches)
<1>1. \A l \in matchLegs : l.match \in Matches /\ matches[l.match] # None
  BY LegsKnown
<1>2. \A l : l \in Legs(p, Chosen(Everything)) <=> l \in Legs(p, Matches)
  BY <1>1, EverythingIs DEF Legs
<1> QED BY <1>2

\* The average over what was thrown
Real(ts) == Average(SumFunction([t \in ts |-> t.tally.points]), SumFunction([t \in ts |-> t.tally.darts]))

LEMMA AverageIsReal ==
  ASSUME IInv, Books, NEW p \in Players, NEW ms, ms \subseteq Matches, \A t \in TruthOf(p, ms) : Told(t.match)
  PROVE  AverageOf(Legs(p, ms)) = Real(TruthOf(p, ms))
<1>1. PICK S, T : S = Scored(Legs(p, ms)) /\ T = TruthOf(p, ms)
  OBVIOUS
<1>2. PICK f : f = [l \in S |-> Throw(l)]
  OBVIOUS
<1>3. IsFiniteSet(S) /\ IsFiniteSet(T) /\ Matched(f, S, T) /\ \A l \in S : Equal(l, f[l])
  BY <1>1, <1>2, LegsAreThrows
<1> DEFINE w == [l \in S |-> l.points]
           v == [t \in T |-> t.tally.points]
           d == [l \in S |-> l.darts]
           e == [t \in T |-> t.tally.darts]
<1>4. \A l \in S : w[l] = v[f[l]] /\ w[l] \in Nat
  BY <1>3 DEF Equal, Matched
<1>5. \A l \in S : d[l] = e[f[l]] /\ d[l] \in Nat
  BY <1>1, <1>3 DEF Equal, Matched, Numbers
<1>6. DOMAIN w = S /\ DOMAIN v = T /\ DOMAIN d = S /\ DOMAIN e = T
  OBVIOUS
<1>7. AverageOf(Legs(p, ms)) = IF S # {} /\ SumFunction(d) > 0 THEN <<SumFunction(w), SumFunction(d)>> ELSE None
  BY <1>1 DEF AverageOf
<1>8. Real(T) = IF SumFunction(e) > 0 THEN <<SumFunction(v), SumFunction(e)>> ELSE None
  BY DEF Real, Average
<1> HIDE DEF w, v, d, e
<1>9. SumFunction(w) = SumFunction(v)
  BY <1>3, <1>4, <1>6, SumsMove
<1>10. SumFunction(d) = SumFunction(e)
  BY <1>3, <1>5, <1>6, SumsMove
<1>11. S = {} => SumFunction(d) = 0
  <2>1. SumFunction(d) = Total(d, S)
    BY <1>6, SumIs
  <2>2. S = {} => Total(d, S) = 0
    BY <1>3, TotalOfNothing
  <2> QED BY <2>1, <2>2
<1> QED BY <1>1, <1>7, <1>8, <1>9, <1>10, <1>11

\* The averages and the best leg are those of the legs thrown.
LEMMA AveragesFollow ==
  ASSUME IInv, Books, NEW p \in Players
  PROVE  AveragesAreThrown(p)
<1> DEFINE wins == {t \in TruthOf(p, Matches) : t.tally.points = Base}
<1> SUFFICES ASSUME \A t \in TruthOf(p, Matches) : Told(t.match)
             PROVE  /\ RowOf(p, Everything).average = Real(TruthOf(p, Matches))
                    /\ \A q \in Players : Side(p, q, Everything).average = Real(TruthOf(p, Both(p, q, Everything)))
                    /\ Profile(p, Everything).bestLegDarts = IF wins = {} THEN 0 ELSE Min({t.tally.darts : t \in wins})
  BY DEF AveragesAreThrown, Real
<1>1. RowOf(p, Everything).average = Real(TruthOf(p, Matches))
  <2>1. RowOf(p, Everything).average = AverageOf(Legs(p, Chosen(Everything)))
    BY DEF RowOf
  <2>2. AverageOf(Legs(p, Matches)) = Real(TruthOf(p, Matches))
    BY AverageIsReal
  <2> QED BY <2>1, <2>2, AllLegs
<1>2. ASSUME NEW q \in Players
      PROVE  Side(p, q, Everything).average = Real(TruthOf(p, Both(p, q, Everything)))
  <2>1. PICK ms : ms = Both(p, q, Everything)
    OBVIOUS
  <2>2. ms \subseteq Matches
    BY <2>1 DEF Both, Chosen
  <2>3. \A t \in TruthOf(p, ms) : Told(t.match)
    BY <2>2 DEF TruthOf
  <2>4. AverageOf(Legs(p, ms)) = Real(TruthOf(p, ms))
    BY <2>2, <2>3, AverageIsReal
  <2> QED BY <2>1, <2>4 DEF Side
<1>3. Profile(p, Everything).bestLegDarts = IF wins = {} THEN 0 ELSE Min({t.tally.darts : t \in wins})
  <2>1. PICK S, T : S = Scored(Legs(p, Matches)) /\ T = TruthOf(p, Matches)
    OBVIOUS
  <2>2. PICK f : f = [l \in S |-> Throw(l)]
    OBVIOUS
  <2>3. Matched(f, S, T) /\ \A l \in S : Equal(l, f[l])
    BY <2>1, <2>2, LegsAreThrows
  <2>4. PICK best : best = {l.darts : l \in Scored(Won(Legs(p, Matches)))}
    OBVIOUS
  <2>5. Profile(p, Everything).bestLegDarts = IF best = {} THEN 0 ELSE Min(best)
    BY <2>4, AllLegs DEF Profile
  <2>6. best = {l.darts : l \in {x \in S : x.won}}
    BY <2>1, <2>4 DEF Scored, Won
  <2>7. \A l \in S : f[l] \in T /\ l.darts = f[l].tally.darts /\ (l.won <=> f[l].tally.points = Base)
    BY <2>1, <2>3 DEF Matched, Equal
  <2>8. \A t \in T : \E l \in S : f[l] = t
    BY <2>3 DEF Matched
  <2>9. best = {t.tally.darts : t \in wins}
    BY <2>1, <2>6, <2>7, <2>8
  <2>10. best = {} <=> wins = {}
    BY <2>9
  <2> QED BY <2>5, <2>9, <2>10
<1> QED BY <1>1, <1>2, <1>3

\* Nine times an average per dart
LEMMA NineDarts ==
  ASSUME NEW a \in Nat
  PROVE  9 * PerDart(<<a, 9>>) = Unit * a
<1>1. PerDart(<<a, 9>>) = (a * 27720) \div 9
  BY DEF PerDart, Unit
<1>2. (a * 27720) \div 9 = a * 3080
  OBVIOUS
<1> QED BY <1>1, <1>2 DEF Unit

LEMMA FirstNineFollows ==
  ASSUME IInv, Books, NEW p \in Players
  PROVE  FirstNineIsThrown(p)
<1>1. PICK S, T, legs : S = Scored(Legs(p, Matches)) /\ T = TruthOf(p, Matches) /\ legs = Legs(p, Matches)
  OBVIOUS
<1>2. PICK f : f = [l \in S |-> Throw(l)]
  OBVIOUS
<1>3. IsFiniteSet(S) /\ IsFiniteSet(T) /\ Matched(f, S, T) /\ \A l \in S : Equal(l, f[l])
  BY <1>1, <1>2, LegsAreThrows
<1> SUFFICES ASSUME T # {}, \A t \in T : Told(t.match) /\ t.tally.first9[2] = 9,
                    \A m \in Matches : Entries(p, {m}) # {} => game[m].variant = "X01" \/ ~game[m].source.legStats
             PROVE  FirstNineOf(legs) = <<Unit * SumFunction([t \in T |-> t.tally.first9[1]]), 9 * Cardinality(T)>>
  <2>1. RowOf(p, Everything).first9 = FirstNineOf(legs)
    BY <1>1, AllLegs DEF RowOf
  <2> QED BY <1>1, <2>1 DEF FirstNineIsThrown
<1>4. ASSUME NEW l \in S
      PROVE  /\ f[l] \in T /\ l.first9 = <<f[l].tally.first9[1], 9>> /\ f[l].tally.first9[1] \in Nat
             /\ l.first9 # None /\ Min({l.darts, 9}) = 9
  <2>1. PICK y : y = f[l].tally
    OBVIOUS
  <2>2. f[l] \in T /\ Equal(l, f[l])
    BY <1>3 DEF Matched
  <2>3. y \in Tally /\ Opened9(y) /\ y.first9[2] = 9 /\ l.darts = y.darts /\ l.first9 = y.first9
    BY <2>1, <2>2 DEF Equal
  <2>4. y.first9 \in Nat \X Nat /\ y.darts \in Nat
    BY <2>3 DEF Tally
  <2>5. y.darts >= 9
    BY <2>3, <2>4 DEF Opened9
  <2>6. y.first9 # None
    <3>1. y.first9 \in Int \X Int
      BY <2>4
    <3> QED BY <3>1, NoneAssumption
  <2>7. PICK d, x : d = y.darts /\ x = Min({d, 9})
    OBVIOUS
  <2>8. x = 9
    <3>1. d \in Nat /\ d >= 9
      BY <2>4, <2>5, <2>7
    <3>2. 9 \in {d, 9} /\ \A n \in {d, 9} : 9 <= n
      BY <3>1
    <3>3. x \in {d, 9} /\ \A n \in {d, 9} : x <= n
      BY <2>7, <3>2 DEF Min
    <3> QED BY <3>1, <3>3
  <2>9. y.first9 = <<y.first9[1], 9>> /\ y.first9[1] \in Nat
    BY <2>3, <2>4
  <2> QED BY <2>1, <2>2, <2>3, <2>6, <2>7, <2>8, <2>9
<1>5. {l \in legs : l.first9 # None} = S
  <2>1. ASSUME NEW l \in legs, l \notin S
        PROVE  l.first9 = None
    <3>1. l \in matchLegs /\ l.player = p /\ l.points = None
      BY <1>1, <2>1 DEF Legs, Scored
    <3>2. ThrownAs(l, Throw(l))
      BY <3>1, ThrowIs
    <3>3. PICK g, t : g = game[l.match] /\ t = Throw(l)
      OBVIOUS
    <3>4. g.variant # "X01" /\ Shows(l, t.tally, g) /\ g.source.legStats \in BOOLEAN
      BY <3>1, <3>2, <3>3 DEF ThrownAs
    <3>5. l.match \in Matches /\ \E e \in matchPlayers : e.match = l.match /\ e.player = l.player
      BY <3>1, LegsKnown
    <3>6. Entries(p, {l.match}) # {}
      BY <3>1, <3>5 DEF Entries
    <3>7. ~g.source.legStats
      BY <3>3, <3>4, <3>5, <3>6
    <3> QED BY <3>4, <3>7 DEF Shows
  <2>2. S \subseteq legs
    BY <1>1 DEF Scored
  <2> QED BY <1>4, <2>1, <2>2
<1>6. S # {}
  BY <1>3 DEF Matched
<1> DEFINE w == [l \in S |-> 9 * PerDart(l.first9)]
           u == [l \in S |-> f[l].tally.first9[1]]
           v == [t \in T |-> t.tally.first9[1]]
           b == [l \in S |-> Min({l.darts, 9})]
           c == [t \in T |-> 9]
<1>7. FirstNineOf(legs) = <<SumFunction(w), SumFunction(b)>>
  <2>1. FirstNineOf(legs) = IF S = {} THEN None
                            ELSE <<SumFunction([l \in S |-> 9 * PerDart(l.first9)]), SumFunction([l \in S |-> Min({l.darts, 9})])>>
    BY <1>5, Zenon DEF FirstNineOf
  <2> QED BY <1>6, <2>1
<1>8. \A l \in S : u[l] = v[f[l]] /\ u[l] \in Nat /\ w[l] = Unit * u[l]
  BY <1>4, NineDarts
<1>9. \A l \in S : b[l] = c[f[l]] /\ b[l] \in Nat
  BY <1>4
<1>10. \A t \in T : c[t] = 9
  OBVIOUS
<1>11. DOMAIN w = S /\ DOMAIN u = S /\ DOMAIN v = T /\ DOMAIN b = S /\ DOMAIN c = T
  OBVIOUS
<1> HIDE DEF w, u, v, b, c
<1>12. SumFunction(u) = SumFunction(v)
  BY <1>3, <1>8, <1>11, SumsMove
<1>13. SumFunction(w) = Unit * SumFunction(u)
  <2>1. PICK k \in Nat : k = Unit
    BY DEF Unit
  <2>2. \A l \in S : u[l] \in Nat /\ w[l] = k * u[l]
    BY <1>8, <2>1
  <2>3. Total(w, S) = k * Total(u, S)
    BY <1>3, <2>2, TotalTimes
  <2> QED BY <1>11, <2>1, <2>3, SumIs
<1>14. SumFunction(b) = SumFunction(c)
  BY <1>3, <1>9, <1>11, SumsMove
<1>15. SumFunction(c) = 9 * Cardinality(T)
  <2>1. Total(c, T) = 9 * Cardinality(T)
    BY <1>3, <1>10, TotalOfSame
  <2> QED BY <1>11, <2>1, SumIs
<1>16. FirstNineOf(legs) = <<Unit * SumFunction(v), 9 * Cardinality(T)>>
  BY <1>7, <1>12, <1>13, <1>14, <1>15
<1> QED BY <1>16 DEF v

LEMMA RatesFollow ==
  ASSUME IInv, Books, NEW p \in Players
  PROVE  RatesAreShares(p)
<1> SUFFICES ASSUME \A m, k \in Matches : Entries(p, {m}) # {} /\ Entries(p, {k}) # {} =>
                      game[m].source.legStats = game[k].source.legStats,
                    NEW rate \in RowOf(p, Everything).rates
             PROVE  0 <= rate[1] /\ rate[1] <= rate[2]
  BY DEF RatesAreShares
<1>1. PICK legs, done : legs = Legs(p, Matches) /\ done = Entries(p, Finished(Chosen(Everything)))
  OBVIOUS
<1>2. rate \in CheckoutRates(legs, done)
  BY <1>1, AllLegs DEF RowOf
<1>3. IsFiniteSet(legs) /\ \A l \in legs : l \in matchLegs /\ l.player = p /\ Numbers(l)
  <2>1. legs \subseteq matchLegs /\ \A l \in legs : l.player = p
    BY <1>1 DEF Legs
  <2> QED BY <2>1, TablesAreFinite, FS_Subset
<1> DEFINE h == [l \in legs |-> l.hits]
           a == [l \in legs |-> l.attempts]
<1>4. \A l \in legs : h[l] = l.hits /\ a[l] = l.attempts /\ h[l] \in Nat /\ a[l] \in Nat
  BY <1>3 DEF Numbers
<1>5. DOMAIN h = legs /\ DOMAIN a = legs
  OBVIOUS
<1>6. CheckoutRates(legs, done) = IF SumFunction(a) > 0 THEN {<<SumFunction(h), SumFunction(a)>>}
                                  ELSE {e.rate : e \in done} \ {None}
  BY DEF CheckoutRates
<1> HIDE DEF h, a
<1>7. SumFunction(h) = Total(h, legs) /\ SumFunction(a) = Total(a, legs)
  BY <1>5, SumIs
<1>8. Total(h, legs) \in Nat /\ Total(a, legs) \in Nat
  BY <1>3, <1>4, TotalIsHeap
<1>9. ASSUME NEW l \in legs
      PROVE  /\ game[l.match].source.legStats \in BOOLEAN
             /\ IF game[l.match].source.legStats THEN l.hits <= l.attempts ELSE l.attempts = 0
             /\ l.match \in Matches /\ Entries(p, {l.match}) # {}
  <2>1. ThrownAs(l, Throw(l))
    BY <1>3, ThrowIs
  <2>2. PICK g, t : g = game[l.match] /\ t = Throw(l)
    OBVIOUS
  <2>3. Shows(l, t.tally, g) /\ g.source.legStats \in BOOLEAN
    BY <2>1, <2>2 DEF ThrownAs
  <2>4. IF g.source.legStats THEN l.hits <= l.attempts ELSE l.attempts = 0
    BY <2>3 DEF Shows
  <2>5. l.match \in Matches /\ \E e \in matchPlayers : e.match = l.match /\ e.player = l.player
    BY <1>3, LegsKnown
  <2>6. Entries(p, {l.match}) # {}
    BY <1>3, <2>5 DEF Entries
  <2> QED BY <2>2, <2>3, <2>4, <2>5, <2>6
<1>10. \/ \A l \in legs : a[l] = 0
       \/ \A l \in legs : h[l] <= a[l]
  <2>1. CASE \E k \in legs : ~game[k.match].source.legStats
    <3>1. PICK k \in legs : ~game[k.match].source.legStats
      BY <2>1
    <3>2. \A l \in legs : ~game[l.match].source.legStats
      BY <1>9, <3>1
    <3> QED BY <1>4, <1>9, <3>2
  <2>2. CASE \A k \in legs : game[k.match].source.legStats
    BY <1>4, <1>9, <2>2
  <2> QED BY <2>1, <2>2
<1>11. CASE SumFunction(a) > 0
  <2>1. ~ \A l \in legs : a[l] = 0
    <3> SUFFICES ASSUME \A l \in legs : a[l] = 0 PROVE FALSE
      OBVIOUS
    <3>1. Total(a, legs) = 0
      BY <1>3, TotalOfNothing
    <3> QED BY <1>7, <1>11, <3>1
  <2>2. Total(h, legs) <= Total(a, legs)
    <3>1. \A l \in legs : h[l] \in Nat /\ a[l] \in Nat /\ h[l] =< a[l]
      BY <1>4, <1>10, <2>1
    <3> QED BY <1>3, <3>1, TotalAtMost
  <2>3. rate = <<SumFunction(h), SumFunction(a)>>
    BY <1>2, <1>6, <1>11
  <2> QED BY <1>7, <1>8, <2>2, <2>3
<1>12. CASE ~(SumFunction(a) > 0)
  <2>1. PICK e \in done : rate = e.rate /\ rate # None
    BY <1>2, <1>6, <1>12
  <2>2. e \in matchPlayers
    BY <1>1 DEF Entries
  <2>3. PICK m \in Matches : m = e.match
    BY <2>2 DEF IInv, Typed
  <2>4. e \in EntriesOf(m)
    BY <2>2, <2>3 DEF EntriesOf
  <2>5. IsShare(e.rate)
    BY <2>4, Held DEF EntriesInv
  <2> QED BY <2>1, <2>5 DEF IsShare
<1> QED BY <1>11, <1>12

LEMMA QuotientsFollow ==
  IInv /\ Books => QuotientsAreTrue
BY AveragesFollow, FirstNineFollows, RatesFollow DEF QuotientsAreTrue

-----------------------------------------------------------------------------
(* The theorems *)

LEMMA AlwaysIInv ==
  Spec => []IInv
<1> QED BY Initially, StepKeeps, PTL DEF Spec

LEMMA AlwaysBooks ==
  Spec => [](IInv /\ Books)
<1> QED BY Initially, StepKeeps, BooksAtFirst, BooksKeep, PTL DEF Spec

\* The tables have their keys: a match has one row of a player and of his leg, a leg one
\* winner at most, and a leg has points if its variant counts down (001_init.sql:51-91,
\* applyLegState, applyMatchState).
THEOREM TablesKeepTheirKeys == Spec => []TypeOK
<1> QED BY AlwaysIInv, TypesFollow, PTL

\* Whichever of its two accounts of a leg a payload had, whether or not it showed the next
\* turn and however many legs of the match were lost, match_legs has the points, the classes,
\* the checkout and, if they were told, the darts of every leg whose end was reported
\* (autodarts.go:202-378, applyLegState).
THEOREM LegRowsTellTheLeg == Spec => []LegRowsAreTheLeg
<1> QED BY AlwaysIInv, LegsFollow, PTL

\* Whatever leg ends were lost, match_players has the winner of a finished match and, told or
\* at most, the legs each side has won (applyMatchState).
THEOREM ResultsSurviveLosses == Spec => []ResultSurvives
<1> QED BY AlwaysIInv, ResultFollows, PTL

\* Consecutive periods add up to the whole one in every column of a player's row that counts
\* something, the variants to his finished matches, and who is ranked in a period is ranked in
\* any longer one (stats.go, parseFilter, filterClause, Leaderboard and Profile).
THEOREM PeriodsDoAddUp == Spec => []PeriodsAddUp
<1> QED BY AlwaysBooks, PeriodsFollow, PTL

\* The pages agree, whatever was lost: the counters applyMatchState keeps in match_players with
\* what the ranking counts in match_legs, the two sides of a comparison with each other, a
\* player's victories with those over each opponent, and the rows of all players with the
\* numbers of the whole site.
THEOREM PagesDoAgree == Spec => []PagesAgree
<1> QED BY AlwaysBooks, PagesFollow, PTL

\* Where X01 is played, whatever was lost, every average shown of a player is that of the darts
\* he threw in the legs it covers, his average of the first nine that of those darts, if the
\* payloads told them alike, and his rate on doubles the share of the darts at a double that
\* hit it (stats.go, Leaderboard and Profile; applyLegState, applyMatchState).
THEOREM QuotientsAreShownTrue == Spec => []QuotientsAreTrue
<1> QED BY AlwaysBooks, QuotientsFollow, PTL

=============================================================================
