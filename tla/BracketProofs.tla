---------------------------- MODULE BracketProofs ----------------------------
(***************************************************************************)
(* Facts about Bracket, for trees of every size: what the layout is, that    *)
(* the evaluation computes it, and that every running tree can go on, wants  *)
(* nobody twice, shows nobody as out who has a pairing left and places        *)
(* everybody by whom he lost to; sums over sets of any size.                 *)
(***************************************************************************)
EXTENDS Bracket, FiniteSetTheorems, WellFoundedInduction, TLAPS

-----------------------------------------------------------------------------
(* Numbers and functions *)

\* A nonempty set of numbers has a smallest one.
LEMMA Smallest ==
  ASSUME NEW S, S \subseteq Nat, S # {}
  PROVE  \E x \in S : \A y \in S : x =< y
<1> DEFINE R == OpToRel(<, Nat)
<1>1. \E x \in S : \A y \in S : ~ (<<y, x>> \in R)
  <2> HIDE DEF R
  <2>1. IsWellFoundedOn(R, Nat)
    BY NatLessThanWellFounded DEF R
  <2> QED BY <2>1, WFMin
<1>2. \A y, x \in Nat : <<y, x>> \in R <=> y < x
  BY DEF OpToRel
<1>3. PICK x \in S : \A y \in S : ~ (<<y, x>> \in R)
  <2> HIDE DEF R
  <2> QED BY <1>1
<1>4. ASSUME NEW y \in S
      PROVE  x =< y
  <2>1. x \in Nat /\ y \in Nat
    OBVIOUS
  <2>2. ~ (y < x)
    <3> HIDE DEF R
    <3> QED BY <1>2, <1>3, <2>1
  <2> QED BY <2>1, <2>2
<1> QED BY <1>4

\* Induction up to n, for a set of numbers.
LEMMA UpTo ==
  ASSUME NEW n \in Nat, NEW S, 0 \in S,
         \A i \in 0 .. n : i # n /\ i \in S => i + 1 \in S
  PROVE  0 .. n \subseteq S
<1> DEFINE Bad == {i \in Nat : i =< n /\ i \notin S}
<1>1. SUFFICES ASSUME Bad # {} PROVE FALSE
  OBVIOUS
<1>2. PICK x \in Bad : \A y \in Bad : x =< y
  <2>1. Bad \subseteq Nat
    OBVIOUS
  <2> QED BY <1>1, <2>1, Smallest
<1>3. x \in Nat /\ x # 0 /\ x =< n /\ x \notin S
  BY <1>2
<1>4. x - 1 \in 0 .. n /\ x - 1 # n /\ ~(x =< x - 1)
  BY <1>3
<1>5. x - 1 \in S
  BY <1>2, <1>4
<1>6. (x - 1) + 1 = x
  BY <1>3
<1> QED BY <1>3, <1>4, <1>5, <1>6

\* A bounded set of numbers has a largest one.
LEMMA Largest ==
  ASSUME NEW n \in Nat, NEW S, S \subseteq 0 .. n, S # {}
  PROVE  \E x \in S : \A y \in S : x >= y
<1> DEFINE B == {b \in Nat : \A y \in S : b >= y}
<1>1. PICK b \in B : \A c \in B : b =< c
  <2>1. B \subseteq Nat /\ n \in B
    OBVIOUS
  <2> QED BY <2>1, Smallest
<1>2. SUFFICES ASSUME b \notin S PROVE FALSE
  BY <1>1
<1>3. \A y \in S : y \in Nat /\ b > y
  BY <1>1, <1>2
<1>4. PICK y \in S : TRUE
  OBVIOUS
<1>5. b \in Nat /\ b - 1 \in Nat /\ ~(b =< b - 1)
  BY <1>1, <1>3, <1>4
<1>6. \A z \in S : b - 1 >= z
  BY <1>3, <1>5
<1> QED BY <1>1, <1>5, <1>6

LEMMA TableIs ==
  ASSUME NEW f
  PROVE  Table(f) = f
BY DEF Table

\* What Over looks up.
LEMMA OverIs ==
  ASSUME NEW f, NEW g
  PROVE  /\ DOMAIN Over(f, g) = DOMAIN f \cup DOMAIN g
         /\ \A x \in DOMAIN f : Over(f, g)[x] = f[x]
         /\ \A x \in DOMAIN g \ DOMAIN f : Over(f, g)[x] = g[x]
BY DEF Over, Table

LEMMA OverIsFunction ==
  ASSUME NEW f, NEW g
  PROVE  Over(f, g) = [x \in DOMAIN f \cup DOMAIN g |-> IF x \in DOMAIN f THEN f[x] ELSE g[x]]
BY DEF Over, Table

-----------------------------------------------------------------------------
(* The layout *)

\* What names a pairing.
PairingKey == {"M", "L", "P", "T"} \X Nat \X Nat

LEMMA CardinalityOfBounded ==
  ASSUME NEW n \in Nat, NEW S, S \subseteq 0 .. n
  PROVE  IsFiniteSet(S) /\ Cardinality(S) \in Nat
<1>1. IsFiniteSet(0 .. n)
  BY FS_Interval
<1>2. IsFiniteSet(S)
  BY <1>1, FS_Subset
<1> QED BY <1>2, FS_CardinalityType

LEMMA RoundsAreNumbers ==
  ASSUME NEW c, c.n \in Nat, c.lucky \in BOOLEAN, c.llEntry \in Nat
  PROVE  Rounds(c) \in Nat /\ Entry(c) \in Nat /\ LLRounds(c) \in Nat
<1>1. Rounds(c) \in Nat
  <2> DEFINE S == {r \in 0 .. c.n : 2 ^ r < c.n}
  <2>1. S \subseteq 0 .. c.n
    OBVIOUS
  <2> HIDE DEF S
  <2>2. Cardinality(S) \in Nat
    BY <2>1, CardinalityOfBounded
  <2> QED BY <2>2 DEF Rounds, RoundCount, S
<1>2. Entry(c) \in Nat
  BY <1>1 DEF Entry, EntryRound
<1>3. LLRounds(c) \in Nat
  <2> DEFINE done(q) == q >= 2 * (Entry(c) - 2) /\ LLSize(c)[q] = 1
             S == {r \in 1 .. 2 * Rounds(c) : \A q \in 1 .. r - 1 : ~done(q)}
  <2>1. S \subseteq 0 .. 2 * Rounds(c) /\ 2 * Rounds(c) \in Nat
    BY <1>1
  <2>2. LLRounds(c) = IF ~c.lucky THEN 0 ELSE Cardinality(S)
    BY DEF LLRounds
  <2> HIDE DEF S
  <2>3. Cardinality(S) \in Nat
    BY <2>1, CardinalityOfBounded
  <2> QED BY <2>2, <2>3
<1> QED BY <1>1, <1>2, <1>3

LEMMA KeysAreKeys ==
  ASSUME NEW c, c.n \in Nat, c.lucky \in BOOLEAN, c.llEntry \in Nat
  PROVE  Keys(c) \subseteq PairingKey
<1>0. Rounds(c) \in Nat /\ LLRounds(c) \in Nat
  BY RoundsAreNumbers
<1>1. MainKeys(c) \subseteq PairingKey
  BY <1>0 DEF MainKeys, PairingKey
<1>2. LLKeys(c) \subseteq PairingKey
  BY <1>0 DEF LLKeys, PairingKey
<1>3. PlayinKey \in PairingKey /\ ThirdKey \in PairingKey
  BY DEF PlayinKey, ThirdKey, PairingKey
<1> QED BY <1>1, <1>2, <1>3 DEF Keys

\* The layout is a sequence of rounds, each a function from names of pairings.
LEMMA LayoutIsSequence ==
  ASSUME NEW c, c.n \in Nat, c.lucky \in BOOLEAN, c.llEntry \in Nat
  PROVE  /\ Len(Layout(c)) \in Nat
         /\ DOMAIN Layout(c) = 1 .. Len(Layout(c))
         /\ \A i \in DOMAIN Layout(c) : DOMAIN Layout(c)[i] \subseteq PairingKey
<1> DEFINE K == SUBSET Keys(c)
           rounds(g, first, last) ==
             [i \in 1 .. last - first + 1 |-> {k \in Keys(c) : k[1] = g /\ k[2] = first + i - 1}]
           entry == IF c.lucky THEN Entry(c) ELSE 1
<1>0. Rounds(c) \in Nat /\ Entry(c) \in Nat /\ LLRounds(c) \in Nat
  BY RoundsAreNumbers
<1>1. ASSUME NEW g, NEW first \in Nat, NEW last \in Int
      PROVE  rounds(g, first, last) \in Seq(K)
  <2> DEFINE m == IF last - first + 1 \in Nat THEN last - first + 1 ELSE 0
  <2>1. m \in Nat /\ 1 .. last - first + 1 = 1 .. m
    OBVIOUS
  <2>2. rounds(g, first, last) \in [1 .. m -> K]
    BY <2>1
  <2> HIDE DEF rounds, K, m
  <2> QED BY <2>1, <2>2
<1>2. RoundsInOrder(c) = rounds("M", 1, entry - 1) \o rounds("L", 1, LLRounds(c))
                           \o <<{PlayinKey} \cap Keys(c)>>
                           \o rounds("M", entry, Rounds(c)) \o <<{ThirdKey} \cap Keys(c)>>
  BY DEF RoundsInOrder
<1>3. entry \in Nat /\ entry - 1 \in Int
  BY <1>0
<1>4. /\ rounds("M", 1, entry - 1) \in Seq(K)
      /\ rounds("L", 1, LLRounds(c)) \in Seq(K)
      /\ rounds("M", entry, Rounds(c)) \in Seq(K)
      /\ <<{PlayinKey} \cap Keys(c)>> \in Seq(K)
      /\ <<{ThirdKey} \cap Keys(c)>> \in Seq(K)
  <2>1. 1 \in Nat
    OBVIOUS
  <2>2. rounds("M", 1, entry - 1) \in Seq(K)
    <3> HIDE DEF rounds, entry
    <3> QED BY <1>1, <1>3, <2>1
  <2>3. rounds("L", 1, LLRounds(c)) \in Seq(K)
    <3> HIDE DEF rounds
    <3> QED BY <1>0, <1>1, <2>1
  <2>4. rounds("M", entry, Rounds(c)) \in Seq(K)
    <3> HIDE DEF rounds, entry
    <3> QED BY <1>0, <1>1, <1>3
  <2> QED BY <2>2, <2>3, <2>4
<1>5. RoundsInOrder(c) \in Seq(K)
  <2> HIDE DEF rounds, K, entry
  <2> QED BY <1>2, <1>4
<1>6. /\ Len(RoundsInOrder(c)) \in Nat
      /\ DOMAIN RoundsInOrder(c) = 1 .. Len(RoundsInOrder(c))
      /\ \A i \in DOMAIN RoundsInOrder(c) : RoundsInOrder(c)[i] \subseteq Keys(c)
  <2>1. \A s \in Seq(K) : /\ Len(s) \in Nat /\ DOMAIN s = 1 .. Len(s)
                          /\ \A i \in DOMAIN s : s[i] \in K
    <3> HIDE DEF K
    <3> QED OBVIOUS
  <2> QED BY <1>5, <2>1
<1>7. Layout(c) = [i \in DOMAIN RoundsInOrder(c) |->
                     [k \in RoundsInOrder(c)[i] |-> Feed(c, k)]]
  BY TableIs DEF Layout, LayoutOf
<1> HIDE DEF rounds, K, entry
<1>8. Len(Layout(c)) = Len(RoundsInOrder(c))
  BY <1>6, <1>7
<1>9. \A i \in DOMAIN Layout(c) : DOMAIN Layout(c)[i] = RoundsInOrder(c)[i]
  BY <1>7
<1> QED BY <1>6, <1>7, <1>8, <1>9, KeysAreKeys

-----------------------------------------------------------------------------
(* Evaluation *)

\* The recursion over the rounds has a solution.
LEMMA EvaluationsAre ==
  ASSUME NEW L, Len(L) \in Nat, NEW order, NEW results, NEW started
  PROVE  LET E == Evaluations(L, order, results, started)
         IN E = [i \in 0 .. Len(L) |->
                   IF i = 0 THEN <<>> ELSE EvaluateRound(E[i - 1], L[i], order, results, started)]
<1> DEFINE Step(ev, i) == EvaluateRound(ev, L[i], order, results, started)
           SolvesUpTo(g, m) == g = [i \in 0 .. m |-> IF i = 0 THEN <<>> ELSE Step(g[i - 1], i)]
           S == {m \in Nat : \E g : SolvesUpTo(g, m)}
<1> HIDE DEF Step
<1>1. 0 \in S
  <2>1. SolvesUpTo([i \in 0 .. 0 |-> <<>>], 0)
    OBVIOUS
  <2> QED BY <2>1
<1>2. ASSUME NEW m \in 0 .. Len(L), m # Len(L), m \in S
      PROVE  m + 1 \in S
  <2>1. PICK g : SolvesUpTo(g, m)
    BY <1>2
  <2>2. \A i \in 0 .. m : g[i] = IF i = 0 THEN <<>> ELSE Step(g[i - 1], i)
    BY <2>1
  <2> DEFINE h == [i \in 0 .. m + 1 |-> IF i = m + 1 THEN Step(g[m], i) ELSE g[i]]
  <2>3. \A i \in 0 .. m + 1 : h[i] = IF i = 0 THEN <<>> ELSE Step(h[i - 1], i)
    <3> SUFFICES ASSUME NEW i \in 0 .. m + 1
                 PROVE  h[i] = IF i = 0 THEN <<>> ELSE Step(h[i - 1], i)
      OBVIOUS
    <3>1. CASE i = m + 1
      <4>1. i # 0 /\ i - 1 = m /\ m \in 0 .. m + 1 /\ m # m + 1
        BY <3>1
      <4>2. h[i - 1] = g[m]
        BY <4>1
      <4> QED BY <3>1, <4>1, <4>2
    <3>2. CASE i # m + 1
      <4>1. i \in 0 .. m /\ (i # 0 => i - 1 \in 0 .. m + 1 /\ i - 1 # m + 1)
        BY <3>2
      <4>2. i # 0 => h[i - 1] = g[i - 1]
        BY <4>1
      <4> QED BY <2>2, <3>2, <4>1, <4>2
    <3> QED BY <3>1, <3>2
  <2>4. SolvesUpTo(h, m + 1)
    <3>1. h = [i \in 0 .. m + 1 |-> h[i]]
      OBVIOUS
    <3> HIDE DEF h
    <3> QED BY <2>3, <3>1
  <2>5. m + 1 \in Nat
    OBVIOUS
  <2> HIDE DEF h
  <2> QED BY <2>4, <2>5
<1>3. Len(L) \in S
  <2>1. \A m \in 0 .. Len(L) : m # Len(L) /\ m \in S => m + 1 \in S
    BY <1>2
  <2> HIDE DEF S
  <2>2. 0 .. Len(L) \subseteq S
    BY <1>1, <2>1, UpTo
  <2>3. Len(L) \in 0 .. Len(L)
    OBVIOUS
  <2> QED BY <2>2, <2>3
<1>4. Evaluations(L, order, results, started) = CHOOSE g : SolvesUpTo(g, Len(L))
  BY DEF Evaluations, Step
<1>5. SolvesUpTo(CHOOSE g : SolvesUpTo(g, Len(L)), Len(L))
  BY <1>3
<1> QED BY <1>4, <1>5 DEF Step

\* What the later steps need to know of a layout.
IsLayout(L) == /\ Len(L) \in Nat
               /\ DOMAIN L = 1 .. Len(L)
               /\ \A i \in DOMAIN L : DOMAIN L[i] \subseteq PairingKey

\* A decided pairing has a result that fits it, one that is ready has none, and both of
\* its players are known.
Sound(p, k, results) ==
  /\ p.status = "done" => /\ k \in DOMAIN results /\ Fits(results[k], p.a, p.b)
                          /\ p.winner = results[k].winner
  /\ p.status = "ready" => /\ Known(p.a) /\ Known(p.b)
                           /\ ~(k \in DOMAIN results /\ Fits(results[k], p.a, p.b))

LEMMA PairingIsSound ==
  ASSUME NEW ev, NEW f, NEW order, NEW results, NEW started, NEW k
  PROVE  Sound(Pairing(ev, f, order, results, started, k), k, results)
<1> DEFINE p == Pairing(ev, f, order, results, started, k)
           player(s) == CASE s.kind = "player" -> order[s.of]
                          [] s.kind = "winner" -> Memo(ev, s.of).winner
                          [] s.kind = "loser"  -> Memo(ev, s.of).loser
                          [] s.kind = "bye"    -> Nobody
           since(s) == IF s.kind \in {"winner", "loser"} THEN Memo(ev, s.of).decidedAt ELSE 0
           a == player(f.a)
           b == player(f.b)
           ready == Later(started, Later(since(f.a), since(f.b)))
           has == k \in DOMAIN results
           r == IF has THEN results[k] ELSE Nobody
           out == Outcome(a, b, ready, has, r)
<1>1. p = [a |-> a, b |-> b, readyAt |-> ready, status |-> out.status,
           winner |-> out.winner, loser |-> out.loser, decidedAt |-> out.decidedAt]
  BY DEF Pairing
<1> HIDE DEF player, since, a, b, ready
<1>2. p.a = a /\ p.b = b /\ p.status = out.status /\ p.winner = out.winner
  <2> HIDE DEF p, out
  <2> QED BY <1>1
<1>3. out.status = "done" => has /\ Fits(r, a, b) /\ out.winner = r.winner
  BY DEF Outcome
<1>4. out.status = "ready" => Known(a) /\ Known(b) /\ ~(has /\ Fits(r, a, b))
  BY DEF Outcome, Known
<1> HIDE DEF p, out
<1>5. has => r = results[k]
  OBVIOUS
<1> QED BY <1>2, <1>3, <1>4, <1>5 DEF Sound, p

\* New is ev with the pairings of one round.
Extends(new, ev, feeds, order, results, started) ==
  /\ DOMAIN new = DOMAIN ev \cup DOMAIN feeds
  /\ \A k \in DOMAIN ev : new[k] = ev[k]
  /\ \A k \in DOMAIN feeds \ DOMAIN ev :
       new[k] = Pairing(ev, feeds[k], order, results, started, k)

LEMMA RoundKeeps ==
  ASSUME NEW ev, NEW feeds, NEW order, NEW results, NEW started
  PROVE  Extends(EvaluateRound(ev, feeds, order, results, started),
                 ev, feeds, order, results, started)
<1> DEFINE g == [k \in DOMAIN feeds |-> Pairing(ev, feeds[k], order, results, started, k)]
<1>1. DOMAIN g = DOMAIN feeds /\ \A k \in DOMAIN feeds : g[k] = Pairing(ev, feeds[k], order, results, started, k)
  OBVIOUS
<1>2. EvaluateRound(ev, feeds, order, results, started) = Over(ev, g)
  BY DEF EvaluateRound
<1> HIDE DEF g
<1>3. /\ DOMAIN Over(ev, g) = DOMAIN ev \cup DOMAIN g
      /\ \A k \in DOMAIN ev : Over(ev, g)[k] = ev[k]
      /\ \A k \in DOMAIN g \ DOMAIN ev : Over(ev, g)[k] = g[k]
  BY OverIs
<1> QED BY <1>1, <1>2, <1>3 DEF Extends

LEMMA EvaluationSteps ==
  ASSUME NEW L, IsLayout(L), NEW order, NEW results, NEW started
  PROVE  LET E == Evaluations(L, order, results, started)
         IN /\ DOMAIN E[0] = {}
            /\ \A i \in 1 .. Len(L) : E[i] = EvaluateRound(E[i - 1], L[i], order, results, started)
            /\ Evaluate(L, order, results, started) = E[Len(L)]
<1> DEFINE E == Evaluations(L, order, results, started)
<1>0. Len(L) \in Nat
  BY DEF IsLayout
<1>1. E = [i \in 0 .. Len(L) |->
             IF i = 0 THEN <<>> ELSE EvaluateRound(E[i - 1], L[i], order, results, started)]
  BY <1>0, EvaluationsAre
<1> HIDE DEF E
<1>2. E[0] = <<>>
  BY <1>0, <1>1
<1>3. \A i \in 1 .. Len(L) : i \in 0 .. Len(L) /\ i # 0
  BY <1>0
<1>4. \A i \in 1 .. Len(L) : E[i] = EvaluateRound(E[i - 1], L[i], order, results, started)
  BY <1>1, <1>3
<1> QED BY <1>2, <1>4 DEF E, Evaluate

\* evaluate: the tree's pairings and no others, each of them sound.
LEMMA EvaluateIsSound ==
  ASSUME NEW L, IsLayout(L), NEW order, NEW results, NEW started
  PROVE  LET ev == Evaluate(L, order, results, started)
         IN /\ DOMAIN ev \subseteq PairingKey
            /\ \A k \in DOMAIN ev : Sound(ev[k], k, results)
<1> DEFINE E == Evaluations(L, order, results, started)
           S == {i \in 0 .. Len(L) : /\ DOMAIN E[i] \subseteq PairingKey
                                     /\ \A k \in DOMAIN E[i] : Sound(E[i][k], k, results)}
<1> HIDE DEF E
<1>1. /\ DOMAIN E[0] = {}
      /\ \A i \in 1 .. Len(L) : E[i] = EvaluateRound(E[i - 1], L[i], order, results, started)
      /\ Evaluate(L, order, results, started) = E[Len(L)]
  BY EvaluationSteps DEF E
<1>2. Len(L) \in Nat /\ 0 \in S
  BY <1>1 DEF IsLayout
<1>3. ASSUME NEW i \in 0 .. Len(L), i # Len(L), i \in S
      PROVE  i + 1 \in S
  <2>1. i + 1 \in 1 .. Len(L) /\ (i + 1) - 1 = i /\ i + 1 \in 0 .. Len(L)
    BY <1>2, <1>3
  <2>2. E[i + 1] = EvaluateRound(E[i], L[i + 1], order, results, started)
    BY <1>1, <2>1
  <2>3. DOMAIN L[i + 1] \subseteq PairingKey
    BY <2>1 DEF IsLayout
  <2>4. Extends(E[i + 1], E[i], L[i + 1], order, results, started)
    BY <2>2, RoundKeeps
  <2>5. \A k \in DOMAIN E[i + 1] : Sound(E[i + 1][k], k, results)
    BY <1>3, <2>4, PairingIsSound DEF Extends
  <2>6. DOMAIN E[i + 1] \subseteq PairingKey
    BY <1>3, <2>3, <2>4 DEF Extends
  <2> QED BY <2>1, <2>5, <2>6
<1>4. \A i \in 0 .. Len(L) : i # Len(L) /\ i \in S => i + 1 \in S
  BY <1>3
<1>5. Len(L) \in S
  <2> HIDE DEF S
  <2>1. 0 .. Len(L) \subseteq S
    BY <1>2, <1>4, UpTo
  <2> QED BY <1>2, <2>1
<1> QED BY <1>1, <1>5

\* What is known of a pairing does not change in later rounds.
LEMMA KnownStays ==
  ASSUME NEW L, IsLayout(L), NEW order, NEW results, NEW started, NEW i \in 0 .. Len(L)
  PROVE  LET before == Evaluations(L, order, results, started)[i]
             ev == Evaluate(L, order, results, started)
         IN DOMAIN before \subseteq DOMAIN ev /\ \A k \in DOMAIN before : ev[k] = before[k]
<1> DEFINE E == Evaluations(L, order, results, started)
           n == Len(L)
           Stays(j) == DOMAIN E[j] \subseteq DOMAIN E[n] /\ \A k \in DOMAIN E[j] : E[n][k] = E[j][k]
           S == {j \in 0 .. n : Stays(n - j)}
<1> HIDE DEF E
<1>1. /\ \A j \in 1 .. n : E[j] = EvaluateRound(E[j - 1], L[j], order, results, started)
      /\ Evaluate(L, order, results, started) = E[n]
  BY EvaluationSteps DEF E
<1>2. n \in Nat
  BY DEF IsLayout
<1>3. 0 \in S
  <2>1. n - 0 = n /\ 0 \in 0 .. n
    BY <1>2
  <2> QED BY <2>1
<1>4. ASSUME NEW j \in 0 .. n, j # n, j \in S
      PROVE  j + 1 \in S
  <2>1. n - j \in 1 .. n /\ (n - j) - 1 = n - (j + 1) /\ j + 1 \in 0 .. n
    BY <1>2, <1>4
  <2>2. E[n - j] = EvaluateRound(E[n - (j + 1)], L[n - j], order, results, started)
    BY <1>1, <2>1
  <2>3. Extends(E[n - j], E[n - (j + 1)], L[n - j], order, results, started)
    BY <2>2, RoundKeeps
  <2>4. Stays(n - j)
    BY <1>4
  <2>5. Stays(n - (j + 1))
    BY <2>3, <2>4 DEF Extends
  <2> QED BY <2>1, <2>5
<1>5. \A j \in 0 .. n : j # n /\ j \in S => j + 1 \in S
  BY <1>4
<1>6. n - i \in S
  <2> HIDE DEF S
  <2>1. 0 .. n \subseteq S
    BY <1>2, <1>3, <1>5, UpTo
  <2>2. n - i \in 0 .. n
    BY <1>2
  <2> QED BY <2>1, <2>2
<1>7. n - (n - i) = i
  BY <1>2
<1>8. Stays(i)
  BY <1>6, <1>7
<1> QED BY <1>1, <1>8 DEF E

-----------------------------------------------------------------------------
(* Doubling and dividing *)

\* What the code shifts by: FiniteSetTheorems knows a power of two as the number of subsets.
Doubled == [r \in Nat |-> 2 ^ r]

\* With one element more there are twice as many subsets.
LEMMA SubsetsDouble ==
  ASSUME NEW A, NEW x, IsFiniteSet(A), x \notin A
  PROVE  Cardinality(SUBSET (A \cup {x})) = 2 * Cardinality(SUBSET A)
<1> DEFINE With == {B \cup {x} : B \in SUBSET A}
           f == [B \in SUBSET A |-> B \cup {x}]
<1>1. IsFiniteSet(SUBSET A) /\ Cardinality(SUBSET A) \in Nat
  BY FS_SUBSET, FS_CardinalityType
<1>2. f \in Bijection(SUBSET A, With)
  <2>1. f \in [SUBSET A -> With]
    OBVIOUS
  <2>2. \A B, C \in SUBSET A : f[B] = f[C] => B = C
    <3> SUFFICES ASSUME NEW B \in SUBSET A, NEW C \in SUBSET A, B \cup {x} = C \cup {x} PROVE B = C
      OBVIOUS
    <3> QED OBVIOUS
  <2>3. \A y \in With : \E B \in SUBSET A : f[B] = y
    OBVIOUS
  <2> QED BY <2>1, <2>2, <2>3 DEF Bijection, Injection, Surjection, IsInjective
<1>3. IsFiniteSet(With) /\ Cardinality(With) = Cardinality(SUBSET A)
  BY <1>1, <1>2, FS_Bijection DEF ExistsBijection
<1>4. SUBSET (A \cup {x}) = (SUBSET A) \cup With
  <2>1. ASSUME NEW B \in SUBSET (A \cup {x})
        PROVE  B \in (SUBSET A) \cup With
    <3>1. CASE x \in B
      <4>1. B \ {x} \in SUBSET A /\ B = (B \ {x}) \cup {x}
        BY <2>1, <3>1
      <4> QED BY <4>1
    <3>2. CASE x \notin B
      BY <2>1, <3>2
    <3> QED BY <3>1, <3>2
  <2>2. ASSUME NEW B \in (SUBSET A) \cup With
        PROVE  B \in SUBSET (A \cup {x})
    OBVIOUS
  <2> QED BY <2>1, <2>2
<1>5. (SUBSET A) \cap With = {}
  OBVIOUS
<1> HIDE DEF With
<1>6. Cardinality((SUBSET A) \cup With) = Cardinality(SUBSET A) + Cardinality(With) - Cardinality((SUBSET A) \cap With)
  BY <1>1, <1>3, FS_Union
<1>7. Cardinality((SUBSET A) \cap With) = 0
  BY <1>5, FS_EmptySet, Zenon
<1>8. Cardinality(SUBSET (A \cup {x})) = Cardinality(SUBSET A) + Cardinality(SUBSET A) - 0
  BY <1>3, <1>4, <1>6, <1>7, Zenon
<1>9. \A m \in Nat : m + m - 0 = 2 * m
  OBVIOUS
<1> QED BY <1>1, <1>8, <1>9, Zenon

LEMMA DoubledIs ==
  Doubled[0] = 1 /\ \A r \in Nat : Doubled[r + 1] = 2 * Doubled[r]
<1>1. ASSUME NEW r \in Nat
      PROVE  IsFiniteSet(1 .. r) /\ Doubled[r] = Cardinality(SUBSET (1 .. r))
  <2>1. IsFiniteSet(1 .. r) /\ Cardinality(1 .. r) = r
    BY FS_Interval
  <2>2. Cardinality(SUBSET (1 .. r)) = 2 ^ Cardinality(1 .. r)
    BY <2>1, FS_SUBSET, Zenon
  <2>3. Doubled[r] = 2 ^ r
    BY Zenon DEF Doubled
  <2> QED BY <2>1, <2>2, <2>3, Zenon
<1>2. ASSUME NEW r \in Nat
      PROVE  Doubled[r + 1] = 2 * Doubled[r]
  <2>1. r + 1 \in Nat /\ 1 .. r + 1 = (1 .. r) \cup {r + 1} /\ r + 1 \notin 1 .. r
    OBVIOUS
  <2>2. Cardinality(SUBSET ((1 .. r) \cup {r + 1})) = 2 * Cardinality(SUBSET (1 .. r))
    BY <1>1, <2>1, SubsetsDouble
  <2>3. Doubled[r + 1] = Cardinality(SUBSET (1 .. r + 1)) /\ Doubled[r] = Cardinality(SUBSET (1 .. r))
    BY <1>1, <2>1, Zenon
  <2> QED BY <2>1, <2>2, <2>3
<1>3. Doubled[0] = 1
  <2>1. 1 .. 0 = {} /\ 0 \in Nat
    OBVIOUS
  <2>2. Doubled[0] = Cardinality(SUBSET {})
    BY <1>1, <2>1, Zenon
  <2>3. SUBSET {} = {{}}
    OBVIOUS
  <2>4. Cardinality({{}}) = 1
    BY FS_Singleton
  <2> QED BY <2>2, <2>3, <2>4
<1> QED BY <1>2, <1>3

LEMMA DoubledSteps ==
  /\ Doubled[0] = 1
  /\ \A r \in Nat : /\ Doubled[r] \in Nat /\ Doubled[r] > r
                    /\ Doubled[r + 1] = 2 * Doubled[r]
<1>2. Doubled[0] = 1 /\ \A r \in Nat : Doubled[r + 1] = 2 * Doubled[r]
  BY DoubledIs
<1> DEFINE S == {r \in Nat : Doubled[r] \in Nat /\ Doubled[r] > r}
<1>3. ASSUME NEW r \in Nat
      PROVE  r \in S
  <2>1. 0 \in S
    BY <1>2
  <2>2. \A i \in 0 .. r : i # r /\ i \in S => i + 1 \in S
    <3> SUFFICES ASSUME NEW i \in 0 .. r, i \in S PROVE i + 1 \in S
      OBVIOUS
    <3>1. Doubled[i + 1] = 2 * Doubled[i] /\ Doubled[i] \in Nat /\ Doubled[i] > i
      BY <1>2
    <3> QED BY <3>1
  <2> HIDE DEF S
  <2>3. 0 .. r \subseteq S
    BY <2>1, <2>2, UpTo
  <2> QED BY <2>3
<1> QED BY <1>2, <1>3

LEMMA DoubledGrows ==
  ASSUME NEW s \in Nat, NEW r \in 0 .. s
  PROVE  Doubled[r] =< Doubled[s]
<1> DEFINE S == {i \in Nat : Doubled[r] =< Doubled[r + i]}
<1>1. 0 \in S
  <2>1. r + 0 = r /\ Doubled[r] \in Nat
    BY DoubledSteps
  <2> QED BY <2>1
<1>2. \A i \in 0 .. s - r : i # s - r /\ i \in S => i + 1 \in S
  <2> SUFFICES ASSUME NEW i \in 0 .. s - r, i \in S PROVE i + 1 \in S
    OBVIOUS
  <2>1. r + (i + 1) = (r + i) + 1 /\ r + i \in Nat /\ r \in Nat
    OBVIOUS
  <2>2. Doubled[r + (i + 1)] = 2 * Doubled[r + i] /\ Doubled[r + i] \in Nat /\ Doubled[r] \in Nat
    BY <2>1, DoubledSteps
  <2> QED BY <2>2
<1>3. s - r \in S
  <2> HIDE DEF S
  <2>1. s - r \in Nat /\ s - r \in 0 .. s - r
    OBVIOUS
  <2> QED BY <1>1, <1>2, <2>1, UpTo
<1>4. r + (s - r) = s
  OBVIOUS
<1> QED BY <1>3, <1>4

\* The rounds suffice for n players, and one fewer would not.
LEMMA RoundCountIs ==
  ASSUME NEW n \in Nat, n >= 2
  PROVE  /\ RoundCount(n) \in Nat \ {0}
         /\ Doubled[RoundCount(n) - 1] < n /\ n =< Doubled[RoundCount(n)]
<1> DEFINE Enough == {r \in Nat : n =< Doubled[r]}
<1>1. Enough \subseteq Nat /\ n \in Enough
  <2>1. Doubled[n] \in Nat /\ Doubled[n] > n
    BY DoubledSteps
  <2> QED BY <2>1
<1>2. PICK R \in Enough : \A r \in Enough : R =< r
  <2> HIDE DEF Enough
  <2> QED BY <1>1, Smallest
<1>3. R \in Nat /\ n =< Doubled[R] /\ R =< n
  BY <1>1, <1>2
<1>4. R # 0
  BY <1>3, DoubledSteps
<1>5. R - 1 \in Nat /\ Doubled[R - 1] \in Nat /\ Doubled[R - 1] < n
  <2>1. R - 1 \in Nat /\ ~(R =< R - 1)
    BY <1>3, <1>4
  <2>2. Doubled[R - 1] \in Nat /\ R - 1 \notin Enough
    BY <1>2, <2>1, DoubledSteps
  <2> QED BY <2>1, <2>2
<1>6. {r \in 0 .. n : Doubled[r] < n} = 0 .. R - 1
  <2>1. ASSUME NEW r \in 0 .. n, Doubled[r] < n
        PROVE  r \in 0 .. R - 1
    <3>1. CASE r >= R
      <4>1. Doubled[R] =< Doubled[r] /\ Doubled[R] \in Nat /\ Doubled[r] \in Nat
        BY <1>3, <3>1, DoubledGrows, DoubledSteps
      <4> QED BY <1>3, <2>1, <4>1
    <3> QED BY <1>3, <3>1
  <2>2. ASSUME NEW r \in 0 .. R - 1
        PROVE  r \in 0 .. n /\ Doubled[r] < n
    <3>1. Doubled[r] =< Doubled[R - 1] /\ Doubled[r] \in Nat
      BY <1>5, DoubledGrows, DoubledSteps
    <3> QED BY <1>3, <1>5, <3>1
  <2> QED BY <2>1, <2>2
<1>7. Cardinality(0 .. R - 1) = R
  BY <1>3, <1>4, FS_Interval
<1>8. RoundCount(n) = R
  <2>1. \A r \in 0 .. n : Doubled[r] = 2 ^ r
    <3>1. \A r \in 0 .. n : r \in Nat
      OBVIOUS
    <3> QED BY <3>1, Zenon DEF Doubled
  <2>2. {r \in 0 .. n : Doubled[r] < n} = {r \in 0 .. n : 2 ^ r < n}
    BY <2>1, Zenon
  <2> QED BY <1>6, <1>7, <2>2, Zenon DEF RoundCount
<1> QED BY <1>3, <1>4, <1>5, <1>8

\* Shifting back
LEMMA DoubledShrinks ==
  ASSUME NEW s \in Nat, NEW r \in 0 .. s
  PROVE  Doubled[s] \div Doubled[r] = Doubled[s - r]
<1> DEFINE S == {i \in Nat : Doubled[r + i] = Doubled[r] * Doubled[i]}
<1>0. r \in Nat /\ Doubled[r] \in Nat \ {0}
  BY DoubledSteps
<1>1. 0 \in S
  <2>1. r + 0 = r /\ Doubled[r] \in Nat /\ Doubled[0] = 1
    BY DoubledSteps
  <2> QED BY <2>1
<1>2. \A i \in 0 .. s - r : i # s - r /\ i \in S => i + 1 \in S
  <2> SUFFICES ASSUME NEW i \in 0 .. s - r, i \in S PROVE i + 1 \in S
    OBVIOUS
  <2>1. r + (i + 1) = (r + i) + 1 /\ r + i \in Nat /\ r \in Nat
    OBVIOUS
  <2>2. Doubled[r + (i + 1)] = 2 * Doubled[r + i] /\ Doubled[i + 1] = 2 * Doubled[i] /\ Doubled[i] \in Nat
    BY <2>1, DoubledSteps
  <2>3. \A x, y \in Nat : 2 * (x * y) = x * (2 * y)
    OBVIOUS
  <2>4. Doubled[r + i] = Doubled[r] * Doubled[i]
    OBVIOUS
  <2>5. Doubled[r + (i + 1)] = Doubled[r] * Doubled[i + 1]
    BY <1>0, <2>2, <2>3, <2>4
  <2> QED BY <2>5
<1>3. s - r \in S
  <2> HIDE DEF S
  <2>1. s - r \in Nat /\ s - r \in 0 .. s - r
    OBVIOUS
  <2> QED BY <1>1, <1>2, <2>1, UpTo
<1>4. r + (s - r) = s /\ Doubled[s - r] \in Nat
  BY DoubledSteps
<1>5. \A x \in Nat \ {0}, y \in Nat : (x * y) \div x = y
  OBVIOUS
<1> QED BY <1>0, <1>3, <1>4, <1>5

LEMMA Division ==
  ASSUME NEW x \in Nat, NEW b \in Nat \ {0}
  PROVE  x \div b \in Nat /\ b * (x \div b) =< x /\ x < b * (x \div b) + b
OBVIOUS

LEMMA Multiply ==
  ASSUME NEW b \in Nat \ {0}, NEW x \in Nat, NEW y \in Nat
  PROVE  b * x \in Nat /\ x * b = b * x /\ (b * x < b * y => x < y) /\ (x =< y => b * x =< b * y)
OBVIOUS

-----------------------------------------------------------------------------
(* Sizes *)

\* What a tournament whose tree can be built stands for.
IsConfig(c) ==
  /\ c.n \in Nat /\ c.third \in BOOLEAN /\ c.lucky \in BOOLEAN /\ c.llEntry \in Nat
  /\ c.playinMatch \in Nat /\ c.playinSide \in {0, 1}
  /\ Buildable(c)

LEMMA SizesAre ==
  ASSUME NEW c, IsConfig(c)
  PROVE  /\ Rounds(c) \in Nat \ {0} /\ c.n \in Nat
         /\ Half(c) \in Nat \ {0} /\ Half(c) = Doubled[Rounds(c) - 1] /\ Size(c) = 2 * Half(c)
         /\ Byes(c) \in Nat /\ Byes(c) < Half(c) /\ c.n = 2 * Half(c) - Byes(c)
         /\ c.lucky => /\ Entry(c) \in 2 .. Rounds(c)
                       /\ ~(Entry(c) = Rounds(c) /\ c.third)
<1>1. c.n \in Nat /\ c.n >= 2
  BY DEF IsConfig, Buildable
<1>2. /\ Rounds(c) \in Nat \ {0}
      /\ Doubled[Rounds(c) - 1] < c.n /\ c.n =< Doubled[Rounds(c)]
  BY <1>1, RoundCountIs DEF Rounds
<1>3. /\ Doubled[Rounds(c) - 1] \in Nat \ {0}
      /\ Doubled[Rounds(c)] = 2 * Doubled[Rounds(c) - 1]
  <2>1. Rounds(c) - 1 \in Nat /\ (Rounds(c) - 1) + 1 = Rounds(c)
    BY <1>2
  <2>2. /\ Doubled[Rounds(c) - 1] \in Nat /\ Doubled[Rounds(c) - 1] > Rounds(c) - 1
        /\ Doubled[(Rounds(c) - 1) + 1] = 2 * Doubled[Rounds(c) - 1]
    BY <2>1, DoubledSteps
  <2> QED BY <2>1, <2>2
<1>4. Half(c) = Doubled[Rounds(c) - 1] /\ Size(c) = 2 * Half(c)
  <2>1. Size(c) = Doubled[Rounds(c)]
    BY <1>2, Zenon DEF Size, Doubled
  <2> QED BY <1>3, <2>1 DEF Half
<1>5. Byes(c) \in Nat /\ Byes(c) < Half(c) /\ c.n = 2 * Half(c) - Byes(c)
  BY <1>1, <1>2, <1>3, <1>4 DEF Byes
<1>6. c.lucky => Entry(c) \in 2 .. Rounds(c) /\ ~(Entry(c) = Rounds(c) /\ c.third)
  <2>1. c.llEntry \in Nat /\ (c.lucky => Entry(c) # 0 /\ ~(Entry(c) = Rounds(c) /\ c.third))
    BY DEF IsConfig, Buildable
  <2> QED BY <1>2, <2>1 DEF Entry, EntryRound
<1> QED BY <1>1, <1>2, <1>3, <1>4, <1>5, <1>6

\* Main rounds halve.
LEMMA WidthIs ==
  ASSUME NEW c, IsConfig(c)
  PROVE  /\ Width(c, 1) = Half(c) /\ Width(c, Rounds(c)) = 1
         /\ \A r \in 1 .. Rounds(c) : Width(c, r) \in Nat \ {0}
         /\ \A r \in 2 .. Rounds(c) : Width(c, r - 1) = 2 * Width(c, r)
         /\ \A r \in 0 .. Rounds(c) : Width(c, r) = Doubled[Rounds(c) - r]
<1>1. Rounds(c) \in Nat \ {0} /\ Half(c) = Doubled[Rounds(c) - 1]
  BY SizesAre
<1>0. ASSUME NEW r \in 0 .. Rounds(c)
      PROVE  Width(c, r) = Doubled[Rounds(c) - r]
  <2>1. r \in Nat /\ Rounds(c) \in Nat
    BY <1>1
  <2>2. Size(c) = Doubled[Rounds(c)] /\ 2 ^ r = Doubled[r]
    BY <2>1, Zenon DEF Size, Doubled
  <2>3. Doubled[Rounds(c)] \div Doubled[r] = Doubled[Rounds(c) - r]
    BY <2>1, DoubledShrinks
  <2> QED BY <2>2, <2>3, Zenon DEF Width
<1>2. ASSUME NEW r \in 1 .. Rounds(c)
      PROVE  Width(c, r) \in Nat \ {0}
  <2>1. Rounds(c) - r \in Nat
    BY <1>1
  <2>2. Doubled[Rounds(c) - r] \in Nat /\ Doubled[Rounds(c) - r] > Rounds(c) - r
    BY <2>1, DoubledSteps
  <2> QED BY <1>0, <1>1, <2>1, <2>2
<1>3. ASSUME NEW r \in 2 .. Rounds(c)
      PROVE  Width(c, r - 1) = 2 * Width(c, r)
  <2>1. Rounds(c) - r \in Nat /\ (Rounds(c) - r) + 1 = Rounds(c) - (r - 1)
    BY <1>1
  <2>2. Doubled[(Rounds(c) - r) + 1] = 2 * Doubled[Rounds(c) - r]
    BY <2>1, DoubledSteps
  <2> QED BY <1>0, <1>1, <2>1, <2>2
<1>4. Rounds(c) - Rounds(c) = 0
  BY <1>1
<1> QED BY <1>0, <1>1, <1>2, <1>3, <1>4, DoubledSteps

-----------------------------------------------------------------------------
(* Byes and places *)

\* The byes fall on different matches of the first round.
LEMMA ByesAreSpread ==
  ASSUME NEW c, IsConfig(c)
  PROVE  Cardinality({i \in 0 .. Half(c) - 1 : IsBye(c, i)}) = Byes(c)
<1> DEFINE H == Half(c)
           B == Byes(c)
           at(j) == (j * H) \div B
           S == 0 .. B - 1
           T == {i \in 0 .. H - 1 : IsBye(c, i)}
           f == [j \in S |-> at(j)]
<1>1. H \in Nat \ {0} /\ B \in Nat /\ B < H
  BY SizesAre
<1>2. ASSUME NEW j \in S
      PROVE  at(j) \in 0 .. H - 1
  <2>1. B \in Nat \ {0} /\ j \in Nat /\ j < B /\ j * H \in Nat /\ j * H < B * H
    BY <1>1, Multiply
  <2>2. at(j) \in Nat /\ B * at(j) =< j * H /\ B * at(j) \in Nat
    BY <2>1, Division
  <2>3. B * H \in Nat /\ B * at(j) < B * H
    BY <1>1, <2>1, <2>2
  <2>4. at(j) < H
    <3> HIDE DEF at, H, B
    <3> QED BY <1>1, <2>1, <2>2, <2>3, Multiply
  <2> QED BY <1>1, <2>2, <2>4
<1>3. ASSUME NEW j \in S, NEW k \in S, j < k
      PROVE  at(j) < at(k)
  <2>1. B \in Nat \ {0} /\ j \in Nat /\ k \in Nat
    BY <1>1
  <2>2. j * H \in Nat /\ k * H \in Nat /\ (j + 1) * H =< k * H /\ (j + 1) * H = j * H + H
    <3>1. j + 1 \in Nat /\ j + 1 =< k
      BY <1>3, <2>1
    <3>2. H * (j + 1) =< H * k /\ (j + 1) * H = H * (j + 1) /\ k * H = H * k /\ H * j \in Nat /\ H * k \in Nat /\ j * H = H * j
      <4> HIDE DEF H
      <4> QED BY <1>1, <2>1, <3>1, Multiply
    <3>3. H * (j + 1) = H * j + H
      <4> HIDE DEF H
      <4> QED BY <1>1, <2>1
    <3> HIDE DEF H
    <3> QED BY <1>1, <3>2, <3>3
  <2>3. /\ at(j) \in Nat /\ B * at(j) =< j * H
        /\ at(k) \in Nat /\ k * H < B * at(k) + B
    <3> HIDE DEF H, B
    <3> QED BY <2>1, <2>2, Division
  <2>4. B * at(j) \in Nat /\ B * at(k) \in Nat /\ B * at(j) < B * at(k)
    <3>1. B * at(j) \in Nat /\ B * at(k) \in Nat
      <4> HIDE DEF H, B, at
      <4> QED BY <2>1, <2>3
    <3> HIDE DEF H, B, at
    <3> QED BY <1>1, <2>1, <2>2, <2>3, <3>1
  <2> HIDE DEF H, B, at
  <2> QED BY <2>1, <2>3, <2>4, Multiply
<1>4. f \in Bijection(S, T)
  <2>1. \A j \in S : f[j] \in T
    BY <1>2 DEF IsBye
  <2>2. \A j, k \in S : f[j] = f[k] => j = k
    <3> SUFFICES ASSUME NEW j \in S, NEW k \in S, f[j] = f[k] PROVE j = k
      OBVIOUS
    <3>1. j \in Int /\ k \in Int /\ (j < k \/ k < j \/ j = k)
      BY <1>1
    <3>2. at(j) \in Int /\ at(k) \in Int /\ at(j) = at(k)
      BY <1>2
    <3> HIDE DEF at, S
    <3> QED BY <1>3, <3>1, <3>2
  <2>3. \A i \in T : \E j \in S : f[j] = i
    BY DEF IsBye
  <2>4. f \in [S -> T]
    BY <2>1
  <2> HIDE DEF f, S, T
  <2> QED BY <2>2, <2>3, <2>4 DEF Bijection, Injection, Surjection, IsInjective
<1>5. IsFiniteSet(S) /\ Cardinality(S) = B
  <2>1. 0 \in Int /\ B - 1 \in Int
    BY <1>1
  <2> HIDE DEF B
  <2>2. IsFiniteSet(0 .. B - 1) /\ Cardinality(0 .. B - 1) = IF 0 > B - 1 THEN 0 ELSE (B - 1) - 0 + 1
    BY <2>1, FS_Interval
  <2> QED BY <1>1, <2>2
<1>6. Cardinality(T) = Cardinality(S)
  <2>1. ExistsBijection(S, T)
    BY <1>4 DEF ExistsBijection
  <2> HIDE DEF S, T
  <2> QED BY <1>5, <2>1, FS_Bijection
<1> QED BY <1>5, <1>6

\* The upper places grow by what a match takes, and the matches of the first round take n.
LEMMA UpperPlacesGrow ==
  ASSUME NEW c, IsConfig(c)
  PROVE  /\ UpperPlace(c, 0) = 1 /\ UpperPlace(c, Half(c)) = c.n + 1
         /\ \A i \in Nat : /\ UpperPlace(c, i) \in Int
                          /\ UpperPlace(c, i + 1) = UpperPlace(c, i) + IF IsBye(c, i) THEN 1 ELSE 2
<1> DEFINE Before(i) == {k \in 0 .. i - 1 : IsBye(c, k)}
<1>1. ASSUME NEW i \in Nat
      PROVE  IsFiniteSet(Before(i)) /\ Cardinality(Before(i)) \in Nat
  <2>1. Before(i) \subseteq 0 .. i
    OBVIOUS
  <2> HIDE DEF Before
  <2> QED BY <2>1, CardinalityOfBounded
<1>2. ASSUME NEW i \in Nat
      PROVE  Cardinality(Before(i + 1)) = Cardinality(Before(i)) + IF IsBye(c, i) THEN 1 ELSE 0
  <2>1. CASE IsBye(c, i)
    <3>1. Before(i + 1) = Before(i) \cup {i} /\ i \notin Before(i)
      BY <2>1
    <3> HIDE DEF Before
    <3>2. Cardinality(Before(i) \cup {i}) = Cardinality(Before(i)) + 1
      BY <1>1, <3>1, FS_AddElement
    <3> QED BY <2>1, <3>1, <3>2
  <2>2. CASE ~IsBye(c, i)
    <3>1. Before(i + 1) = Before(i)
      <4>1. \A k \in 0 .. (i + 1) - 1 : k \in 0 .. i - 1 \/ k = i
        OBVIOUS
      <4>2. 0 .. i - 1 \subseteq 0 .. (i + 1) - 1
        OBVIOUS
      <4> QED BY <2>2, <4>1, <4>2
    <3> HIDE DEF Before
    <3> QED BY <1>1, <2>2, <3>1
  <2> QED BY <2>1, <2>2
<1>3. \A i : UpperPlace(c, i) = 2 * i + 1 - Cardinality(Before(i))
  BY DEF UpperPlace
<1>4. UpperPlace(c, 0) = 1
  <2>1. Before(0) = {}
    OBVIOUS
  <2> HIDE DEF Before
  <2> QED BY <1>3, <2>1, FS_EmptySet
<1>5. UpperPlace(c, Half(c)) = c.n + 1
  <2>1. Cardinality(Before(Half(c))) = Byes(c)
    BY ByesAreSpread
  <2> HIDE DEF Before
  <2> QED BY <1>3, <2>1, SizesAre
<1> HIDE DEF Before
<1>6. ASSUME NEW i \in Nat
      PROVE  /\ UpperPlace(c, i) \in Int
             /\ UpperPlace(c, i + 1) = UpperPlace(c, i) + IF IsBye(c, i) THEN 1 ELSE 2
  <2>1. /\ UpperPlace(c, i) = 2 * i + 1 - Cardinality(Before(i))
        /\ UpperPlace(c, i + 1) = 2 * (i + 1) + 1 - Cardinality(Before(i + 1))
    BY <1>3
  <2>2. CASE IsBye(c, i)
    BY <1>1, <1>2, <2>1, <2>2
  <2>3. CASE ~IsBye(c, i)
    BY <1>1, <1>2, <2>1, <2>3
  <2> QED BY <2>2, <2>3
<1> QED BY <1>4, <1>5, <1>6

LEMMA UpperPlacesAre ==
  ASSUME NEW c, IsConfig(c), NEW j \in Nat, NEW i \in 0 .. j
  PROVE  /\ UpperPlace(c, i) + (j - i) =< UpperPlace(c, j)
         /\ i < j => UpperPlace(c, i) + (IF IsBye(c, i) THEN 1 ELSE 2) =< UpperPlace(c, j)
<1> DEFINE U(k) == UpperPlace(c, k)
           S(m) == {d \in Nat : U(m) + d =< U(m + d)}
<1>1. \A k \in Nat : U(k) \in Int /\ U(k + 1) = U(k) + IF IsBye(c, k) THEN 1 ELSE 2
  BY UpperPlacesGrow
<1> HIDE DEF U
<1>2. ASSUME NEW m \in Nat, NEW d \in Nat
      PROVE  U(m) + d =< U(m + d)
  <2>1. 0 \in S(m)
    <3>1. m + 0 = m /\ U(m) \in Int
      BY <1>1
    <3> QED BY <3>1
  <2>2. \A e \in 0 .. d : e # d /\ e \in S(m) => e + 1 \in S(m)
    <3> SUFFICES ASSUME NEW e \in 0 .. d, e \in S(m) PROVE e + 1 \in S(m)
      OBVIOUS
    <3>1. m + e \in Nat /\ m + (e + 1) = (m + e) + 1
      OBVIOUS
    <3>2. U(m) \in Int /\ U(m + e) \in Int /\ U(m + (e + 1)) >= U(m + e) + 1 /\ U(m + (e + 1)) \in Int
      BY <1>1, <3>1
    <3> QED BY <3>2
  <2> HIDE DEF S
  <2>3. d \in S(m)
    BY <2>1, <2>2, UpTo
  <2> QED BY <2>3 DEF S
<1>3. U(i) + (j - i) =< U(j)
  <2>1. i \in Nat /\ j - i \in Nat /\ i + (j - i) = j
    OBVIOUS
  <2>2. U(i) + (j - i) =< U(i + (j - i))
    BY <1>2, <2>1
  <2> QED BY <2>1, <2>2
<1>4. ASSUME i < j
      PROVE  U(i) + (IF IsBye(c, i) THEN 1 ELSE 2) =< U(j)
  <2>1. i + 1 \in Nat /\ j - (i + 1) \in Nat /\ (i + 1) + (j - (i + 1)) = j /\ i \in Nat
    BY <1>4
  <2>2. U(i + 1) + (j - (i + 1)) =< U((i + 1) + (j - (i + 1)))
    BY <1>2, <2>1
  <2>3. U(i + 1) = U(i) + (IF IsBye(c, i) THEN 1 ELSE 2) /\ U(i + 1) \in Int /\ U(j) \in Int
    BY <1>1, <2>1
  <2>4. U(i + 1) + (j - (i + 1)) =< U(j)
    BY <2>1, <2>2
  <2> QED BY <2>1, <2>3, <2>4
<1> QED BY <1>3, <1>4 DEF U

\* Every place of the draw belongs to one slot of the first round.
LEMMA PlacesAre ==
  ASSUME NEW c, IsConfig(c)
  PROVE  /\ \A i \in 0 .. Half(c) - 1 : /\ UpperPlace(c, i) \in 1 .. c.n
                                        /\ ~IsBye(c, i) => UpperPlace(c, i) + 1 \in 1 .. c.n
         /\ \A i, j \in 0 .. Half(c) - 1 :
              i < j => /\ UpperPlace(c, i) < UpperPlace(c, j)
                       /\ ~IsBye(c, i) => UpperPlace(c, i) + 1 < UpperPlace(c, j)
         /\ \A p \in 1 .. c.n : \E i \in 0 .. Half(c) - 1 :
              p = UpperPlace(c, i) \/ (~IsBye(c, i) /\ p = UpperPlace(c, i) + 1)
<1> DEFINE U(k) == UpperPlace(c, k)
           w(k) == IF IsBye(c, k) THEN 1 ELSE 2
<1>1. /\ U(0) = 1 /\ U(Half(c)) = c.n + 1
      /\ \A k \in Nat : U(k) \in Int /\ U(k + 1) = U(k) + w(k)
  BY UpperPlacesGrow
<1>2. \A j \in Nat : \A i \in 0 .. j : U(i) + (j - i) =< U(j) /\ (i < j => U(i) + w(i) =< U(j))
  BY UpperPlacesAre
<1>3. Half(c) \in Nat \ {0} /\ c.n \in Nat
  BY SizesAre
<1> HIDE DEF U
<1>4. ASSUME NEW i \in 0 .. Half(c) - 1
      PROVE  U(i) \in 1 .. c.n /\ (~IsBye(c, i) => U(i) + 1 \in 1 .. c.n)
  <2>1. i \in Nat /\ 0 \in 0 .. i /\ i \in 0 .. Half(c) /\ i < Half(c)
    BY <1>3
  <2>2. U(i) \in Int /\ U(0) + (i - 0) =< U(i) /\ U(i) + w(i) =< U(Half(c))
    BY <1>1, <1>2, <1>3, <2>1
  <2> QED BY <1>1, <1>3, <2>1, <2>2
<1>5. ASSUME NEW i \in 0 .. Half(c) - 1, NEW j \in 0 .. Half(c) - 1, i < j
      PROVE  U(i) < U(j) /\ (~IsBye(c, i) => U(i) + 1 < U(j))
  <2>1. i \in Nat /\ j \in Nat /\ i \in 0 .. j
    BY <1>3, <1>5
  <2>2. U(i) \in Int /\ U(j) \in Int /\ U(i) + w(i) =< U(j)
    BY <1>1, <1>2, <1>5, <2>1
  <2> QED BY <2>2
<1>6. ASSUME NEW p \in 1 .. c.n
      PROVE  \E i \in 0 .. Half(c) - 1 : p = U(i) \/ (~IsBye(c, i) /\ p = U(i) + 1)
  <2> DEFINE Q == {i \in Nat : p < U(i + 1)}
  <2>1. Half(c) - 1 \in Q
    <3>1. Half(c) - 1 \in Nat /\ (Half(c) - 1) + 1 = Half(c) /\ p < c.n + 1
      BY <1>3
    <3> QED BY <1>1, <3>1
  <2>2. PICK i \in Q : \A j \in Q : i =< j
    <3>1. Q \subseteq Nat /\ Q # {}
      BY <2>1
    <3> HIDE DEF Q
    <3> QED BY <3>1, Smallest
  <2>3. i \in Nat /\ p < U(i + 1) /\ i =< Half(c) - 1
    BY <2>1, <2>2
  <2>4. U(i) =< p
    <3>1. CASE i = 0
      BY <1>1, <1>3, <3>1
    <3>2. CASE i # 0
      <4>1. i - 1 \in Nat /\ (i - 1) + 1 = i /\ ~(i =< i - 1)
        BY <2>3, <3>2
      <4>2. ~(p < U(i)) /\ U(i) \in Int
        BY <1>1, <2>2, <2>3, <4>1
      <4> QED BY <1>3, <4>2
    <3> QED BY <3>1, <3>2
  <2>5. U(i) \in Int /\ U(i + 1) = U(i) + w(i)
    BY <1>1, <2>3
  <2>6. i \in 0 .. Half(c) - 1
    BY <1>3, <2>3
  <2>7. p = U(i) \/ (~IsBye(c, i) /\ p = U(i) + 1)
    BY <1>3, <2>3, <2>4, <2>5
  <2> QED BY <2>6, <2>7
<1> QED BY <1>4, <1>5, <1>6 DEF U

-----------------------------------------------------------------------------
(* The lucky loser rounds *)

LEMMA JoiningRoundIs ==
  ASSUME NEW c, NEW r \in Nat, Entry(c) \in Nat
  PROVE  /\ JoiningRound(c, r) # 0 <=> (r % 2 = 0 /\ r =< 2 * (Entry(c) - 2))
         /\ JoiningRound(c, r) # 0 => JoiningRound(c, r) = r \div 2 + 1
BY DEF JoiningRound

\* How many matches lucky loser round r has.
LLWidth(c, r) ==
  IF r =< 2 * (Entry(c) - 2) THEN Doubled[Rounds(c) - 1 - (r + 1) \div 2]
  ELSE IF r =< Rounds(c) + Entry(c) - 3 THEN Doubled[Rounds(c) + Entry(c) - 3 - r]
  ELSE 0

LEMMA LLWidthHalves ==
  ASSUME NEW c, IsConfig(c), c.lucky, NEW r \in 1 .. 2 * Rounds(c)
  PROVE  LLWidth(c, r) = IF r = 1 THEN Half(c) \div 2
                         ELSE IF JoiningRound(c, r) # 0 THEN LLWidth(c, r - 1)
                         ELSE LLWidth(c, r - 1) \div 2
<1> DEFINE R == Rounds(c)
           E == Entry(c)
<1>1. R \in Nat \ {0} /\ E \in 2 .. R /\ Half(c) = Doubled[R - 1]
  BY SizesAre
<1> HIDE DEF R, E
<1>2. ASSUME NEW x \in Nat
      PROVE  Doubled[x] \in Nat /\ Doubled[x + 1] \div 2 = Doubled[x]
  <2>1. Doubled[x] \in Nat /\ Doubled[x + 1] = 2 * Doubled[x]
    BY DoubledSteps
  <2> QED BY <2>1
<1>3. r \in Nat /\ r >= 1
  BY DEF R
<1>4. \A q \in Nat : LLWidth(c, q) = IF q =< 2 * (E - 2) THEN Doubled[R - 1 - (q + 1) \div 2]
                                     ELSE IF q =< R + E - 3 THEN Doubled[R + E - 3 - q] ELSE 0
  BY DEF LLWidth, R, E
<1>5. CASE r = 1
  <2>1. R - 2 \in Nat /\ (R - 2) + 1 = R - 1 /\ Half(c) \div 2 = Doubled[R - 2]
    <3>1. R - 2 \in Nat /\ (R - 2) + 1 = R - 1
      BY <1>1
    <3> QED BY <1>1, <1>2, <3>1
  <2>2. CASE E = 2
    <3>1. ~(1 =< 2 * (E - 2)) /\ 1 =< R + E - 3 /\ R + E - 3 - 1 = R - 2
      BY <1>1, <2>2
    <3>2. LLWidth(c, 1) = Doubled[R - 2]
      BY <1>4, <3>1
    <3> QED BY <1>5, <2>1, <3>2
  <2>3. CASE E # 2
    <3>1. 1 =< 2 * (E - 2) /\ R - 1 - (1 + 1) \div 2 = R - 2
      BY <1>1, <2>3
    <3>2. LLWidth(c, 1) = Doubled[R - 2]
      BY <1>4, <3>1
    <3> QED BY <1>5, <2>1, <3>2
  <2> QED BY <2>2, <2>3
<1>6. CASE r # 1 /\ JoiningRound(c, r) # 0
  <2>1. r % 2 = 0 /\ r =< 2 * (E - 2)
    BY <1>1, <1>3, <1>6, JoiningRoundIs DEF E
  <2>2. r - 1 \in Nat /\ r - 1 =< 2 * (E - 2) /\ (r + 1) \div 2 = ((r - 1) + 1) \div 2
    BY <1>1, <1>3, <2>1
  <2> QED BY <1>3, <1>4, <1>6, <2>1, <2>2
<1>7. CASE r # 1 /\ ~(JoiningRound(c, r) # 0)
  <2>1. ~(r % 2 = 0 /\ r =< 2 * (E - 2))
    BY <1>1, <1>3, <1>7, JoiningRoundIs DEF E
  <2>2. r - 1 \in Nat
    BY <1>3
  <2>3. CASE r =< 2 * (E - 2)
    <3>1. r - 1 =< 2 * (E - 2) /\ (r + 1) \div 2 = ((r - 1) + 1) \div 2 + 1
      BY <1>1, <1>3, <2>1, <2>3
    <3>2. R - 1 - (r + 1) \div 2 \in Nat /\ (R - 1 - (r + 1) \div 2) + 1 = R - 1 - ((r - 1) + 1) \div 2
      BY <1>1, <1>3, <2>3, <3>1
    <3>3. LLWidth(c, r) = Doubled[R - 1 - (r + 1) \div 2]
      BY <1>3, <1>4, <2>3
    <3>4. LLWidth(c, r - 1) = Doubled[(R - 1 - (r + 1) \div 2) + 1]
      BY <1>4, <2>2, <3>1, <3>2
    <3>5. LLWidth(c, r - 1) \div 2 = LLWidth(c, r)
      BY <1>2, <3>2, <3>3, <3>4
    <3> QED BY <1>7, <3>5
  <2>4. CASE ~(r =< 2 * (E - 2)) /\ r =< R + E - 3
    <3>1. R + E - 3 - r \in Nat
      BY <1>1, <1>3, <2>4
    <3>2. LLWidth(c, r) = Doubled[R + E - 3 - r]
      BY <1>3, <1>4, <2>4
    <3>3. LLWidth(c, r - 1) = Doubled[(R + E - 3 - r) + 1]
      <4>1. CASE r - 1 =< 2 * (E - 2)
        <5>1. R - 1 - ((r - 1) + 1) \div 2 = (R + E - 3 - r) + 1
          <6>1. r = 2 * (E - 2) + 1
            BY <1>1, <1>3, <2>4, <4>1
          <6> QED BY <1>1, <6>1
        <5> QED BY <1>4, <2>2, <4>1, <5>1
      <4>2. CASE ~(r - 1 =< 2 * (E - 2))
        <5>1. r - 1 =< R + E - 3 /\ R + E - 3 - (r - 1) = (R + E - 3 - r) + 1
          BY <1>1, <1>3, <2>4
        <5> QED BY <1>4, <2>2, <4>2, <5>1
      <4> QED BY <4>1, <4>2
    <3>4. LLWidth(c, r - 1) \div 2 = LLWidth(c, r)
      BY <1>2, <3>1, <3>2, <3>3
    <3> QED BY <1>7, <3>4
  <2>5. CASE ~(r =< 2 * (E - 2)) /\ ~(r =< R + E - 3)
    <3>1. LLWidth(c, r) = 0
      BY <1>3, <1>4, <2>5
    <3>2. LLWidth(c, r - 1) \in {0, 1}
      <4>1. ~(r - 1 =< 2 * (E - 2))
        BY <1>1, <1>3, <2>5
      <4>2. CASE r - 1 =< R + E - 3
        <5>1. R + E - 3 - (r - 1) = 0
          BY <1>1, <1>3, <2>5, <4>2
        <5> QED BY <1>4, <2>2, <4>1, <4>2, <5>1, DoubledSteps
      <4>3. CASE ~(r - 1 =< R + E - 3)
        BY <1>4, <2>2, <4>1, <4>3
      <4> QED BY <4>2, <4>3
    <3>3. LLWidth(c, r - 1) \div 2 = LLWidth(c, r)
      BY <3>1, <3>2
    <3> QED BY <1>7, <3>3
  <2> QED BY <2>3, <2>4, <2>5
<1> QED BY <1>5, <1>6, <1>7

\* The recursion over the rounds has this solution.
LEMMA LLSizeIs ==
  ASSUME NEW c, IsConfig(c), c.lucky
  PROVE  \A r \in 1 .. 2 * Rounds(c) : LLSize(c)[r] = LLWidth(c, r)
<1> DEFINE n == 2 * Rounds(c)
           Step(g, r) == IF r = 1 THEN Half(c) \div 2
                         ELSE IF JoiningRound(c, r) # 0 THEN g[r - 1]
                         ELSE g[r - 1] \div 2
           g0 == [r \in 1 .. n |-> LLWidth(c, r)]
<1>0. Rounds(c) \in Nat \ {0} /\ n \in Nat
  BY SizesAre
<1>1. g0 = [r \in 1 .. n |-> Step(g0, r)]
  <2>1. \A r \in 1 .. n : LLWidth(c, r) = Step(g0, r)
    <3> SUFFICES ASSUME NEW r \in 1 .. n PROVE LLWidth(c, r) = Step(g0, r)
      OBVIOUS
    <3>1. r # 1 => r - 1 \in 1 .. n
      BY <1>0
    <3>2. r # 1 => g0[r - 1] = LLWidth(c, r - 1)
      BY <3>1
    <3> HIDE DEF g0
    <3> QED BY <3>2, LLWidthHalves
  <2> HIDE DEF Step
  <2> QED BY <2>1
<1>2. LLSize(c) = CHOOSE g : g = [r \in 1 .. n |-> Step(g, r)]
  BY DEF LLSize
<1> DEFINE g == LLSize(c)
<1>3. g = [r \in 1 .. n |-> Step(g, r)]
  <2> HIDE DEF g0, Step, n
  <2> QED BY <1>1, <1>2
<1> DEFINE S == {r \in Nat : r \in 1 .. n => g[r] = LLWidth(c, r)}
<1>4. 0 \in S
  OBVIOUS
<1>5. \A r \in 0 .. n : r # n /\ r \in S => r + 1 \in S
  <2> SUFFICES ASSUME NEW r \in 0 .. n, r # n, r \in S PROVE r + 1 \in S
    OBVIOUS
  <2>1. r + 1 \in 1 .. n /\ (r + 1) - 1 = r /\ (r + 1 # 1 => r \in 1 .. n)
    BY <1>0
  <2>2. g[r + 1] = Step(g, r + 1)
    <3> HIDE DEF g, Step
    <3> QED BY <1>3, <2>1
  <2>3. LLWidth(c, r + 1) = IF r + 1 = 1 THEN Half(c) \div 2
                            ELSE IF JoiningRound(c, r + 1) # 0 THEN LLWidth(c, (r + 1) - 1)
                            ELSE LLWidth(c, (r + 1) - 1) \div 2
    BY <2>1, LLWidthHalves
  <2>4. r + 1 # 1 => g[r] = LLWidth(c, r)
    BY <2>1
  <2> HIDE DEF g
  <2> QED BY <2>1, <2>2, <2>3, <2>4
<1>6. 0 .. n \subseteq S
  <2> HIDE DEF S, n
  <2> QED BY <1>0, <1>4, <1>5, UpTo
<1>7. 1 .. n \subseteq 0 .. n
  OBVIOUS
<1> HIDE DEF g, n
<1> QED BY <1>6, <1>7 DEF g, n

\* The rounds end when one match is left.
LEMMA LLRoundsAre ==
  ASSUME NEW c, IsConfig(c), c.lucky
  PROVE  LLRounds(c) = Rounds(c) + Entry(c) - 3
<1> DEFINE R == Rounds(c)
           E == Entry(c)
           Q == R + E - 3
           done(q) == q >= 2 * (E - 2) /\ LLSize(c)[q] = 1
<1>1. R \in Nat \ {0} /\ E \in 2 .. R
  BY SizesAre
<1>2. Q \in 1 .. 2 * R /\ Q > 2 * (E - 2)
  BY <1>1
<1> HIDE DEF R, E
<1>3. ASSUME NEW q \in 1 .. 2 * R
      PROVE  LLSize(c)[q] = LLWidth(c, q)
  BY LLSizeIs DEF R
<1>4. done(Q)
  <2>1. Q - Q = 0 /\ Q =< Q /\ ~(Q =< 2 * (E - 2))
    BY <1>1, <1>2
  <2>2. LLWidth(c, Q) = Doubled[R + E - 3 - Q]
    BY <2>1 DEF LLWidth, R, E
  <2>3. LLWidth(c, Q) = 1
    BY <1>1, <2>1, <2>2, DoubledSteps
  <2> QED BY <1>1, <1>2, <1>3, <2>1, <2>3
<1>5. ASSUME NEW q \in 1 .. Q - 1
      PROVE  ~done(q)
  <2>1. q \in 1 .. 2 * R
    BY <1>1, <1>2
  <2>2. CASE q >= 2 * (E - 2)
    <3>1. \E x \in Nat \ {0} : LLWidth(c, q) = Doubled[x]
      <4>1. CASE q =< 2 * (E - 2)
        <5>1. R - 1 - (q + 1) \div 2 \in Nat \ {0}
          <6>1. q = 2 * (E - 2)
            BY <1>1, <2>2, <4>1
          <6> QED BY <1>1, <6>1
        <5>2. LLWidth(c, q) = Doubled[R - 1 - (q + 1) \div 2]
          BY <4>1 DEF LLWidth, R, E
        <5> QED BY <5>1, <5>2
      <4>2. CASE ~(q =< 2 * (E - 2))
        <5>1. R + E - 3 - q \in Nat \ {0} /\ q =< R + E - 3
          BY <1>1, <1>2
        <5>2. LLWidth(c, q) = Doubled[R + E - 3 - q]
          BY <4>2, <5>1 DEF LLWidth, R, E
        <5> QED BY <5>1, <5>2
      <4> QED BY <4>1, <4>2
    <3>2. LLWidth(c, q) # 1
      BY <3>1, DoubledSteps
    <3> QED BY <1>3, <2>1, <3>2
  <2> QED BY <2>2
<1>6. {r \in 1 .. 2 * R : \A q \in 1 .. r - 1 : ~done(q)} = 1 .. Q
  <2>1. ASSUME NEW r \in 1 .. 2 * R, \A q \in 1 .. r - 1 : ~done(q)
        PROVE  r \in 1 .. Q
    <3>1. ~(Q \in 1 .. r - 1)
      BY <1>4, <2>1
    <3> HIDE DEF done
    <3> QED BY <1>1, <1>2, <3>1
  <2>2. ASSUME NEW r \in 1 .. Q
        PROVE  r \in 1 .. 2 * R /\ \A q \in 1 .. r - 1 : ~done(q)
    <3>1. 1 .. r - 1 \subseteq 1 .. Q - 1 /\ r \in 1 .. 2 * R
      BY <1>1, <1>2
    <3> HIDE DEF done
    <3> QED BY <1>5, <3>1
  <2> HIDE DEF done
  <2> QED BY <2>1, <2>2
<1>7. LLRounds(c) = Cardinality({r \in 1 .. 2 * R : \A q \in 1 .. r - 1 : ~done(q)})
  BY DEF LLRounds, R, E
<1>8. Cardinality(1 .. Q) = Q
  <2>1. Q \in Int /\ 1 \in Int /\ Q >= 1
    BY <1>1, <1>2
  <2> HIDE DEF Q
  <2> QED BY <2>1, FS_Interval
<1> HIDE DEF done
<1> QED BY <1>6, <1>7, <1>8 DEF Q, R, E

\* A round that takes in losers has as many matches as the main round they come from;
\* any other halves.
LEMMA LLRoundsFit ==
  ASSUME NEW c, IsConfig(c), c.lucky
  PROVE  /\ LLRounds(c) \in Nat \ {0} /\ LLRounds(c) >= 2 * (Entry(c) - 2)
         /\ 2 * LLSize(c)[1] = Half(c) /\ LLSize(c)[LLRounds(c)] = 1
         /\ \A r \in 1 .. LLRounds(c) : LLSize(c)[r] \in Nat \ {0}
         /\ \A r \in 2 .. LLRounds(c) :
              IF JoiningRound(c, r) # 0
              THEN /\ LLSize(c)[r] = LLSize(c)[r - 1]
                   /\ JoiningRound(c, r) \in 2 .. Entry(c) - 1
                   /\ r = 2 * (JoiningRound(c, r) - 1)
                   /\ LLSize(c)[r] = Width(c, JoiningRound(c, r))
              ELSE LLSize(c)[r - 1] = 2 * LLSize(c)[r]
<1> DEFINE R == Rounds(c)
           E == Entry(c)
           Q == R + E - 3
<1>1. R \in Nat \ {0} /\ E \in 2 .. R /\ Half(c) = Doubled[R - 1]
  BY SizesAre
<1>2. LLRounds(c) = Q
  BY LLRoundsAre
<1>3. Q \in Nat \ {0} /\ Q > 2 * (E - 2) /\ Q =< 2 * R
  BY <1>1
<1> HIDE DEF R, E
<1>4. ASSUME NEW r \in 1 .. Q
      PROVE  \E x \in Nat : LLSize(c)[r] = Doubled[x] /\ x = IF r =< 2 * (E - 2) THEN R - 1 - (r + 1) \div 2 ELSE Q - r
  <2>1. LLSize(c)[r] = LLWidth(c, r)
    <3>1. r \in 1 .. 2 * R
      BY <1>1, <1>3
    <3> QED BY <3>1, LLSizeIs DEF R
  <2>2. CASE r =< 2 * (E - 2)
    <3>1. R - 1 - (r + 1) \div 2 \in Nat
      BY <1>1, <1>3, <2>2
    <3>2. LLWidth(c, r) = Doubled[R - 1 - (r + 1) \div 2]
      BY <2>2 DEF LLWidth, R, E
    <3> QED BY <2>1, <2>2, <3>1, <3>2
  <2>3. CASE ~(r =< 2 * (E - 2))
    <3>1. Q - r \in Nat /\ r =< R + E - 3
      BY <1>1, <1>3
    <3>2. LLWidth(c, r) = Doubled[R + E - 3 - r]
      BY <2>3, <3>1 DEF LLWidth, R, E
    <3>3. Q - r = R + E - 3 - r
      BY <1>1
    <3> HIDE DEF Q
    <3> QED BY <2>1, <2>3, <3>1, <3>2, <3>3
  <2> QED BY <2>2, <2>3
<1>5. \A r \in 1 .. Q : LLSize(c)[r] \in Nat \ {0}
  <2>1. \A x \in Nat : Doubled[x] \in Nat \ {0}
    BY DoubledSteps
  <2> QED BY <1>4, <2>1
<1>6. LLSize(c)[Q] = 1
  <2>1. Q \in 1 .. Q /\ ~(Q =< 2 * (E - 2)) /\ Q - Q = 0
    BY <1>1, <1>3
  <2> QED BY <1>4, <2>1, DoubledSteps
<1>7. 2 * LLSize(c)[1] = Half(c)
  <2>1. 1 \in 1 .. Q /\ R - 2 \in Nat /\ (R - 2) + 1 = R - 1
    BY <1>1, <1>3
  <2>2. LLSize(c)[1] = Doubled[R - 2]
    <3>1. (IF 1 =< 2 * (E - 2) THEN R - 1 - (1 + 1) \div 2 ELSE Q - 1) = R - 2
      BY <1>1
    <3> QED BY <1>4, <2>1, <3>1
  <2>3. Doubled[(R - 2) + 1] = 2 * Doubled[R - 2]
    BY <2>1, DoubledSteps
  <2> QED BY <1>1, <2>1, <2>2, <2>3
<1>8. ASSUME NEW r \in 2 .. Q, JoiningRound(c, r) # 0
      PROVE  /\ LLSize(c)[r] = LLSize(c)[r - 1]
             /\ JoiningRound(c, r) \in 2 .. E - 1
             /\ r = 2 * (JoiningRound(c, r) - 1)
             /\ LLSize(c)[r] = Width(c, JoiningRound(c, r))
  <2>1. r % 2 = 0 /\ r =< 2 * (E - 2) /\ JoiningRound(c, r) = r \div 2 + 1
    BY <1>1, <1>8, JoiningRoundIs DEF E
  <2>2. r \in 1 .. Q /\ r - 1 \in 1 .. Q /\ r - 1 =< 2 * (E - 2)
    BY <1>1, <1>3, <2>1
  <2>3. (r + 1) \div 2 = r \div 2 /\ ((r - 1) + 1) \div 2 = r \div 2 /\ r = 2 * (r \div 2)
    BY <2>1
  <2>4. LLSize(c)[r] = Doubled[R - 1 - r \div 2]
    BY <1>4, <2>1, <2>2, <2>3
  <2>5. LLSize(c)[r - 1] = Doubled[R - 1 - r \div 2]
    BY <1>4, <2>2, <2>3
  <2>6. R - 1 - r \div 2 = R - (r \div 2 + 1)
    BY <1>1
  <2>7. Width(c, JoiningRound(c, r)) = Doubled[R - 1 - r \div 2]
    BY <1>1, <2>1, <2>6, WidthIs DEF R
  <2>8. r \div 2 + 1 \in 2 .. E - 1
    BY <1>1, <2>1
  <2> QED BY <2>1, <2>3, <2>4, <2>5, <2>7, <2>8
<1>9. ASSUME NEW r \in 2 .. Q, ~(JoiningRound(c, r) # 0)
      PROVE  LLSize(c)[r - 1] = 2 * LLSize(c)[r]
  <2>1. ~(r % 2 = 0 /\ r =< 2 * (E - 2))
    BY <1>1, <1>9, JoiningRoundIs DEF E
  <2>2. r \in 1 .. Q /\ r - 1 \in 1 .. Q
    BY <1>3
  <2> DEFINE x(q) == IF q =< 2 * (E - 2) THEN R - 1 - (q + 1) \div 2 ELSE Q - q
  <2>3. /\ x(r) \in Nat /\ LLSize(c)[r] = Doubled[x(r)]
        /\ x(r - 1) \in Nat /\ LLSize(c)[r - 1] = Doubled[x(r - 1)]
    BY <1>4, <2>2
  <2>4. x(r - 1) = x(r) + 1
    <3>1. CASE r =< 2 * (E - 2)
      <4>1. r - 1 =< 2 * (E - 2) /\ (r + 1) \div 2 = ((r - 1) + 1) \div 2 + 1
        BY <1>1, <2>1, <3>1
      <4> QED BY <1>1, <3>1, <4>1
    <3>2. CASE r - 1 = 2 * (E - 2)
      <4>1. r = 2 * (E - 2) + 1 /\ ((r - 1) + 1) \div 2 = E - 2
        BY <1>1, <3>2
      <4> QED BY <1>1, <3>2, <4>1
    <3>3. CASE ~(r - 1 =< 2 * (E - 2))
      BY <1>1, <3>3
    <3> QED BY <1>1, <3>1, <3>2, <3>3
  <2>5. Doubled[x(r) + 1] = 2 * Doubled[x(r)]
    <3> HIDE DEF x
    <3> QED BY <2>3, DoubledSteps
  <2> HIDE DEF x
  <2> QED BY <2>3, <2>4, <2>5
<1>10. LLRounds(c) \in Nat \ {0} /\ LLRounds(c) >= 2 * (Entry(c) - 2)
  BY <1>1, <1>2, <1>3 DEF E
<1>11. ASSUME NEW r \in 2 .. LLRounds(c)
       PROVE  IF JoiningRound(c, r) # 0
              THEN /\ LLSize(c)[r] = LLSize(c)[r - 1]
                   /\ JoiningRound(c, r) \in 2 .. Entry(c) - 1
                   /\ r = 2 * (JoiningRound(c, r) - 1)
                   /\ LLSize(c)[r] = Width(c, JoiningRound(c, r))
              ELSE LLSize(c)[r - 1] = 2 * LLSize(c)[r]
  <2>1. r \in 2 .. Q
    BY <1>2
  <2> HIDE DEF Q
  <2> QED BY <1>8, <1>9, <2>1 DEF E
<1> HIDE DEF Q
<1> QED BY <1>2, <1>5, <1>6, <1>7, <1>10, <1>11

-----------------------------------------------------------------------------
(* The pairings and their rounds *)

LEMMA KeysAre ==
  ASSUME NEW c, IsConfig(c)
  PROVE  /\ \A r, i : <<"M", r, i>> \in Keys(c) <=> r \in 1 .. Rounds(c) /\ i \in 0 .. Width(c, r) - 1
         /\ \A r, i : <<"L", r, i>> \in Keys(c) <=> r \in 1 .. LLRounds(c) /\ i \in 0 .. LLSize(c)[r] - 1
         /\ PlayinKey \in Keys(c) <=> c.lucky
         /\ ThirdKey \in Keys(c) <=> c.third /\ Rounds(c) >= 2
         /\ \A k \in Keys(c) :
              \/ \E r \in 1 .. Rounds(c) : \E i \in 0 .. Width(c, r) - 1 : k = <<"M", r, i>>
              \/ \E r \in 1 .. LLRounds(c) : \E i \in 0 .. LLSize(c)[r] - 1 : k = <<"L", r, i>>
              \/ c.lucky /\ k = PlayinKey
              \/ c.third /\ Rounds(c) >= 2 /\ k = ThirdKey
<1>1. \A r, i : <<"M", r, i>> # PlayinKey /\ <<"M", r, i>> # ThirdKey
  BY DEF PlayinKey, ThirdKey
<1>2. \A r, i : <<"L", r, i>> # PlayinKey /\ <<"L", r, i>> # ThirdKey
  BY DEF PlayinKey, ThirdKey
<1>3. \A r, i, s, j : <<"M", r, i>> # <<"L", s, j>>
  OBVIOUS
<1>4. \A k : k \in MainKeys(c) <=> \E r \in 1 .. Rounds(c) : \E i \in 0 .. Width(c, r) - 1 : k = <<"M", r, i>>
  BY DEF MainKeys
<1>5. \A k : k \in LLKeys(c) <=> \E r \in 1 .. LLRounds(c) : \E i \in 0 .. LLSize(c)[r] - 1 : k = <<"L", r, i>>
  BY DEF LLKeys
<1>6. \A r, i : <<"M", r, i>> \in MainKeys(c) <=> r \in 1 .. Rounds(c) /\ i \in 0 .. Width(c, r) - 1
  BY <1>4
<1>7. \A r, i : <<"L", r, i>> \in LLKeys(c) <=> r \in 1 .. LLRounds(c) /\ i \in 0 .. LLSize(c)[r] - 1
  BY <1>5
<1>8. PlayinKey # ThirdKey /\ ~(PlayinKey \in MainKeys(c)) /\ ~(PlayinKey \in LLKeys(c))
      /\ ~(ThirdKey \in MainKeys(c)) /\ ~(ThirdKey \in LLKeys(c))
  <2>1. PlayinKey # ThirdKey
    BY DEF PlayinKey, ThirdKey
  <2> QED BY <1>1, <1>2, <1>4, <1>5, <2>1
<1> DEFINE P == IF c.lucky THEN {PlayinKey} ELSE {}
           T == IF c.third /\ Rounds(c) >= 2 THEN {ThirdKey} ELSE {}
<1>15. \A k : /\ k \in P <=> c.lucky /\ k = PlayinKey
              /\ k \in T <=> c.third /\ Rounds(c) >= 2 /\ k = ThirdKey
  OBVIOUS
<1>16. Keys(c) = MainKeys(c) \cup LLKeys(c) \cup P \cup T
  BY DEF Keys
<1> HIDE DEF P, T
<1>9. \A k : k \in Keys(c) <=> k \in MainKeys(c) \/ k \in LLKeys(c) \/ k \in P \/ k \in T
  BY <1>16
<1>10. \A r, i : <<"M", r, i>> \notin LLKeys(c) /\ <<"L", r, i>> \notin MainKeys(c)
  BY <1>3, <1>4, <1>5
<1>17. \A r, i : <<"M", r, i>> \notin P \cup T /\ <<"L", r, i>> \notin P \cup T
  BY <1>1, <1>2, <1>15
<1>11. \A r, i : <<"M", r, i>> \in Keys(c) <=> r \in 1 .. Rounds(c) /\ i \in 0 .. Width(c, r) - 1
  BY <1>6, <1>9, <1>10, <1>17
<1>12. \A r, i : <<"L", r, i>> \in Keys(c) <=> r \in 1 .. LLRounds(c) /\ i \in 0 .. LLSize(c)[r] - 1
  BY <1>7, <1>9, <1>10, <1>17
<1>13. PlayinKey \in Keys(c) <=> c.lucky
  <2>1. PlayinKey \in P <=> c.lucky
    BY DEF P
  <2>2. PlayinKey \notin T
    BY <1>8 DEF T
  <2> QED BY <1>8, <1>9, <2>1, <2>2
<1>14. ThirdKey \in Keys(c) <=> c.third /\ Rounds(c) >= 2
  <2>1. ThirdKey \in T <=> c.third /\ Rounds(c) >= 2
    BY DEF T
  <2>2. ThirdKey \notin P
    BY <1>8 DEF P
  <2> QED BY <1>8, <1>9, <2>1, <2>2
<1>18. ASSUME NEW k \in Keys(c)
       PROVE  \/ \E r \in 1 .. Rounds(c) : \E i \in 0 .. Width(c, r) - 1 : k = <<"M", r, i>>
              \/ \E r \in 1 .. LLRounds(c) : \E i \in 0 .. LLSize(c)[r] - 1 : k = <<"L", r, i>>
              \/ c.lucky /\ k = PlayinKey
              \/ c.third /\ Rounds(c) >= 2 /\ k = ThirdKey
  <2>1. CASE k \in MainKeys(c)
    BY <1>4, <2>1
  <2>2. CASE k \in LLKeys(c)
    BY <1>5, <2>2
  <2>3. CASE k \in P
    BY <1>15, <2>3
  <2>4. CASE k \in T
    BY <1>15, <2>4
  <2> QED BY <1>9, <2>1, <2>2, <2>3, <2>4
<1> QED BY <1>11, <1>12, <1>13, <1>14, <1>18

\* The main round before which the lucky loser rounds are played, if any.
Break(c) == IF c.lucky THEN Entry(c) ELSE 1

\* The round of the order in which pairing k comes.
RoundOf(c, k) ==
  CASE k[1] = "M" -> IF k[2] < Break(c) THEN k[2] ELSE LLRounds(c) + 1 + k[2]
    [] k[1] = "L" -> Break(c) - 1 + k[2]
    [] k[1] = "P" -> Break(c) + LLRounds(c)
    [] k[1] = "T" -> LLRounds(c) + Rounds(c) + 2

LEMMA Concatenation ==
  ASSUME NEW S, NEW s \in Seq(S), NEW t \in Seq(S)
  PROVE  /\ s \o t \in Seq(S) /\ Len(s) \in Nat /\ Len(t) \in Nat /\ Len(s \o t) = Len(s) + Len(t)
         /\ \A i \in 1 .. Len(s \o t) : (s \o t)[i] = IF i =< Len(s) THEN s[i] ELSE t[i - Len(s)]
OBVIOUS

LEMMA RoundsAre ==
  ASSUME NEW c, IsConfig(c)
  PROVE  /\ Len(RoundsInOrder(c)) = LLRounds(c) + Rounds(c) + 2
         /\ DOMAIN RoundsInOrder(c) = 1 .. LLRounds(c) + Rounds(c) + 2
         /\ \A i \in 1 .. LLRounds(c) + Rounds(c) + 2 :
              RoundsInOrder(c)[i] = {k \in Keys(c) : RoundOf(c, k) = i}
<1> DEFINE K == SUBSET Keys(c)
           rounds(g, first, last) ==
             [i \in 1 .. last - first + 1 |-> {k \in Keys(c) : k[1] = g /\ k[2] = first + i - 1}]
           e == Break(c)
           R == Rounds(c)
           Q == LLRounds(c)
           s1 == rounds("M", 1, e - 1)
           s2 == rounds("L", 1, Q)
           s3 == <<{PlayinKey} \cap Keys(c)>>
           s4 == rounds("M", e, R)
           s5 == <<{ThirdKey} \cap Keys(c)>>
<1>1. R \in Nat \ {0} /\ e \in 1 .. R /\ Q \in Nat
  <2>1. c.lucky \in BOOLEAN
    BY DEF IsConfig
  <2>2. CASE c.lucky
    BY <2>2, SizesAre, LLRoundsFit DEF Break
  <2>3. CASE ~c.lucky
    BY <2>3, SizesAre DEF LLRounds, Break
  <2> QED BY <2>1, <2>2, <2>3
<1>2. ASSUME NEW g, NEW first \in Nat, NEW last \in Int, last - first + 1 \in Nat
      PROVE  /\ rounds(g, first, last) \in Seq(K) /\ Len(rounds(g, first, last)) = last - first + 1
             /\ \A i \in 1 .. last - first + 1 :
                  rounds(g, first, last)[i] = {k \in Keys(c) : k[1] = g /\ k[2] = first + i - 1}
  <2>1. rounds(g, first, last) \in [1 .. last - first + 1 -> K]
    OBVIOUS
  <2>2. \A i \in 1 .. last - first + 1 :
          rounds(g, first, last)[i] = {k \in Keys(c) : k[1] = g /\ k[2] = first + i - 1}
    OBVIOUS
  <2> HIDE DEF rounds, K
  <2>3. rounds(g, first, last) \in Seq(K) /\ Len(rounds(g, first, last)) = last - first + 1
    BY <1>2, <2>1
  <2> QED BY <2>2, <2>3
<1>3. RoundsInOrder(c) = s1 \o s2 \o s3 \o s4 \o s5
  BY DEF RoundsInOrder, Break
<1>4. /\ s1 \in Seq(K) /\ Len(s1) = e - 1
      /\ \A i \in 1 .. e - 1 : s1[i] = {k \in Keys(c) : k[1] = "M" /\ k[2] = i}
  <2>1. 1 \in Nat /\ e - 1 \in Int /\ (e - 1) - 1 + 1 = e - 1 /\ (e - 1) - 1 + 1 \in Nat
    BY <1>1
  <2> HIDE DEF rounds, K, e
  <2>4. /\ s1 \in Seq(K) /\ Len(s1) = (e - 1) - 1 + 1
        /\ \A i \in 1 .. (e - 1) - 1 + 1 : s1[i] = {k \in Keys(c) : k[1] = "M" /\ k[2] = 1 + i - 1}
    BY <1>2, <2>1
  <2>2. /\ s1 \in Seq(K) /\ Len(s1) = e - 1
        /\ \A i \in 1 .. e - 1 : s1[i] = {k \in Keys(c) : k[1] = "M" /\ k[2] = 1 + i - 1}
    <3> HIDE DEF s1
    <3> QED BY <2>1, <2>4
  <2>3. \A i \in 1 .. e - 1 : 1 + i - 1 = i
    BY <2>1
  <2> HIDE DEF s1
  <2> QED BY <2>2, <2>3
<1>5. /\ s2 \in Seq(K) /\ Len(s2) = Q
      /\ \A i \in 1 .. Q : s2[i] = {k \in Keys(c) : k[1] = "L" /\ k[2] = i}
  <2>1. 1 \in Nat /\ Q \in Int /\ Q - 1 + 1 = Q /\ Q \in Nat
    BY <1>1
  <2> HIDE DEF rounds, K, Q
  <2>2. /\ s2 \in Seq(K) /\ Len(s2) = Q
        /\ \A i \in 1 .. Q : s2[i] = {k \in Keys(c) : k[1] = "L" /\ k[2] = 1 + i - 1}
    BY <1>2, <2>1
  <2>3. \A i \in 1 .. Q : 1 + i - 1 = i
    BY <2>1
  <2> HIDE DEF s2
  <2> QED BY <2>2, <2>3
<1>6. /\ s4 \in Seq(K) /\ Len(s4) = R - e + 1
      /\ \A i \in 1 .. R - e + 1 : s4[i] = {k \in Keys(c) : k[1] = "M" /\ k[2] = e + i - 1}
  <2>1. e \in Nat /\ R \in Int /\ R - e + 1 \in Nat
    BY <1>1
  <2>3. s4 = rounds("M", e, R)
    OBVIOUS
  <2> HIDE DEF rounds, K, e, R, s4
  <2>2. /\ s4 \in Seq(K) /\ Len(s4) = R - e + 1
        /\ \A i \in 1 .. R - e + 1 :
             s4[i] = {k \in Keys(c) : k[1] = "M" /\ k[2] = e + i - 1}
    <3>1. /\ rounds("M", e, R) \in Seq(K) /\ Len(rounds("M", e, R)) = R - e + 1
          /\ \A i \in 1 .. R - e + 1 :
               rounds("M", e, R)[i] = {k \in Keys(c) : k[1] = "M" /\ k[2] = e + i - 1}
      BY <1>2, <2>1
    <3> QED BY <2>3, <3>1
  <2> QED BY <2>2
<1>7. /\ s3 \in Seq(K) /\ Len(s3) = 1 /\ s3[1] = {PlayinKey} \cap Keys(c)
      /\ s5 \in Seq(K) /\ Len(s5) = 1 /\ s5[1] = {ThirdKey} \cap Keys(c)
  OBVIOUS
<1> HIDE DEF K, rounds, e, R, Q, s1, s2, s3, s4, s5
<1> DEFINE t2 == s1 \o s2
           t3 == t2 \o s3
           t4 == t3 \o s4
           t5 == t4 \o s5
<1>8. /\ t2 \in Seq(K) /\ Len(t2) = e - 1 + Q
      /\ \A i \in 1 .. Len(t2) : t2[i] = IF i =< Len(s1) THEN s1[i] ELSE s2[i - Len(s1)]
  <2>2. t2 = s1 \o s2
    OBVIOUS
  <2> HIDE DEF t2
  <2>3. s1 \in Seq(K) /\ s2 \in Seq(K)
    BY <1>4, <1>5
  <2>1. t2 \in Seq(K) /\ Len(t2) = Len(s1) + Len(s2)
        /\ \A i \in 1 .. Len(t2) : t2[i] = IF i =< Len(s1) THEN s1[i] ELSE s2[i - Len(s1)]
    BY <2>2, <2>3, Concatenation
  <2> QED BY <1>4, <1>5, <2>1
<1> HIDE DEF t2
<1>9. /\ t3 \in Seq(K) /\ Len(t3) = e + Q
      /\ \A i \in 1 .. Len(t3) : t3[i] = IF i =< Len(t2) THEN t2[i] ELSE s3[i - Len(t2)]
  <2>2. t3 = t2 \o s3
    OBVIOUS
  <2> HIDE DEF t3
  <2>3. t2 \in Seq(K) /\ s3 \in Seq(K)
    BY <1>7, <1>8
  <2>1. t3 \in Seq(K) /\ Len(t3) = Len(t2) + Len(s3)
        /\ \A i \in 1 .. Len(t3) : t3[i] = IF i =< Len(t2) THEN t2[i] ELSE s3[i - Len(t2)]
    BY <2>2, <2>3, Concatenation
  <2> QED BY <1>1, <1>7, <1>8, <2>1
<1> HIDE DEF t3
<1>10. /\ t4 \in Seq(K) /\ Len(t4) = Q + R + 1
       /\ \A i \in 1 .. Len(t4) : t4[i] = IF i =< Len(t3) THEN t3[i] ELSE s4[i - Len(t3)]
  <2>2. t4 = t3 \o s4
    OBVIOUS
  <2> HIDE DEF t4
  <2>3. t3 \in Seq(K) /\ s4 \in Seq(K)
    BY <1>6, <1>9
  <2>1. t4 \in Seq(K) /\ Len(t4) = Len(t3) + Len(s4)
        /\ \A i \in 1 .. Len(t4) : t4[i] = IF i =< Len(t3) THEN t3[i] ELSE s4[i - Len(t3)]
    BY <2>2, <2>3, Concatenation
  <2> QED BY <1>1, <1>6, <1>9, <2>1
<1> HIDE DEF t4
<1>11. /\ t5 \in Seq(K) /\ Len(t5) = Q + R + 2
       /\ \A i \in 1 .. Len(t5) : t5[i] = IF i =< Len(t4) THEN t4[i] ELSE s5[i - Len(t4)]
  <2>2. t5 = t4 \o s5
    OBVIOUS
  <2> HIDE DEF t5
  <2>3. t4 \in Seq(K) /\ s5 \in Seq(K)
    BY <1>7, <1>10
  <2>1. t5 \in Seq(K) /\ Len(t5) = Len(t4) + Len(s5)
        /\ \A i \in 1 .. Len(t5) : t5[i] = IF i =< Len(t4) THEN t4[i] ELSE s5[i - Len(t4)]
    BY <2>2, <2>3, Concatenation
  <2> QED BY <1>1, <1>7, <1>10, <2>1
<1>12. RoundsInOrder(c) = t5
  BY <1>3 DEF t2, t3, t4, t5
<1> HIDE DEF t5
<1>13. DOMAIN t5 = 1 .. Q + R + 2
  <2>1. \A s \in Seq(K) : DOMAIN s = 1 .. Len(s)
    OBVIOUS
  <2> QED BY <1>11, <2>1
<1>14. ASSUME NEW i \in 1 .. Q + R + 2
       PROVE  t5[i] = IF i =< e - 1 THEN {k \in Keys(c) : k[1] = "M" /\ k[2] = i}
                      ELSE IF i =< e - 1 + Q THEN {k \in Keys(c) : k[1] = "L" /\ k[2] = i - (e - 1)}
                      ELSE IF i =< e + Q THEN {PlayinKey} \cap Keys(c)
                      ELSE IF i =< Q + R + 1 THEN {k \in Keys(c) : k[1] = "M" /\ k[2] = i - Q - 1}
                      ELSE {ThirdKey} \cap Keys(c)
  <2>1. CASE i =< e - 1
    <3>1. i =< e - 1 + Q /\ i =< e + Q /\ i =< Q + R + 1 /\ i \in 1 .. e - 1
      BY <1>1, <2>1
    <3>2. i \in 1 .. e - 1 + Q /\ i \in 1 .. e + Q /\ i \in 1 .. Q + R + 1
      BY <1>1, <3>1
    <3>3. t5[i] = t4[i] /\ t4[i] = t3[i] /\ t3[i] = t2[i] /\ t2[i] = s1[i]
      BY <1>4, <1>8, <1>9, <1>10, <1>11, <3>1, <3>2
    <3> QED BY <1>4, <2>1, <3>1, <3>3
  <2>2. CASE ~(i =< e - 1) /\ i =< e - 1 + Q
    <3>1. i =< e + Q /\ i =< Q + R + 1 /\ i - (e - 1) \in 1 .. Q
      BY <1>1, <2>2
    <3>3. i \in 1 .. e - 1 + Q /\ i \in 1 .. e + Q /\ i \in 1 .. Q + R + 1
      BY <1>1, <2>2, <3>1
    <3>4. t5[i] = t4[i] /\ t4[i] = t3[i] /\ t3[i] = t2[i]
      BY <1>8, <1>9, <1>10, <1>11, <2>2, <3>1, <3>3
    <3>5. t2[i] = s2[i - Len(s1)]
      BY <1>4, <1>8, <2>2, <3>3
    <3>2. t5[i] = s2[i - (e - 1)]
      BY <1>4, <3>4, <3>5
    <3> QED BY <1>5, <2>2, <3>1, <3>2
  <2>3. CASE ~(i =< e - 1 + Q) /\ i =< e + Q
    <3>1. ~(i =< e - 1) /\ i =< Q + R + 1 /\ i - (e - 1 + Q) = 1
      BY <1>1, <2>3
    <3>3. i \in 1 .. e + Q /\ i \in 1 .. Q + R + 1
      BY <1>1, <2>3, <3>1
    <3>4. t5[i] = t4[i] /\ t4[i] = t3[i]
      BY <1>9, <1>10, <1>11, <2>3, <3>1, <3>3
    <3>5. t3[i] = s3[i - Len(t2)]
      BY <1>8, <1>9, <2>3, <3>3
    <3>2. t5[i] = s3[i - (e - 1 + Q)]
      BY <1>8, <3>4, <3>5
    <3> QED BY <1>7, <2>3, <3>1, <3>2
  <2>4. CASE ~(i =< e + Q) /\ i =< Q + R + 1
    <3>1. ~(i =< e - 1) /\ ~(i =< e - 1 + Q) /\ i - (e + Q) \in 1 .. R - e + 1 /\ e + (i - (e + Q)) - 1 = i - Q - 1
      BY <1>1, <2>4
    <3>4. i \in 1 .. Q + R + 1
      BY <1>1, <2>4
    <3>5. t5[i] = t4[i]
      BY <1>10, <1>11, <2>4, <3>4
    <3>6. t4[i] = s4[i - Len(t3)]
      BY <1>9, <1>10, <2>4, <3>4
    <3>2. t5[i] = s4[i - (e + Q)]
      BY <1>9, <3>5, <3>6
    <3>3. s4[i - (e + Q)] = {k \in Keys(c) : k[1] = "M" /\ k[2] = e + (i - (e + Q)) - 1}
      BY <1>6, <3>1
    <3> QED BY <2>4, <3>1, <3>2, <3>3
  <2>5. CASE ~(i =< Q + R + 1)
    <3>1. ~(i =< e - 1) /\ ~(i =< e - 1 + Q) /\ ~(i =< e + Q) /\ i - (Q + R + 1) = 1
      BY <1>1, <2>5
    <3>2. t5[i] = s5[i - (Q + R + 1)]
      BY <1>1, <1>10, <1>11, <2>5, <3>1
    <3> QED BY <1>7, <2>5, <3>1, <3>2
  <2> QED BY <1>1, <2>1, <2>2, <2>3, <2>4, <2>5
<1>15. ASSUME NEW k \in Keys(c), NEW i \in 1 .. Q + R + 2
       PROVE  k \in t5[i] <=> RoundOf(c, k) = i
  <2>1. CASE \E r \in 1 .. R : \E j \in 0 .. Width(c, r) - 1 : k = <<"M", r, j>>
    <3>1. PICK r \in 1 .. R : \E j : k = <<"M", r, j>>
      BY <2>1
    <3>2. k[1] = "M" /\ k[2] = r /\ k # PlayinKey /\ k # ThirdKey
      BY <3>1 DEF PlayinKey, ThirdKey
    <3>3. RoundOf(c, k) = IF r < e THEN r ELSE Q + 1 + r
      BY <3>2 DEF RoundOf, e, Q
    <3>4. k \in t5[i] <=> \/ i =< e - 1 /\ r = i
                          \/ ~(i =< e + Q) /\ i =< Q + R + 1 /\ r = i - Q - 1
      <4>1. /\ \A j : k \in {l \in Keys(c) : l[1] = "M" /\ l[2] = j} <=> r = j
            /\ \A j : k \notin {l \in Keys(c) : l[1] = "L" /\ l[2] = j}
            /\ k \notin {PlayinKey} \cap Keys(c) /\ k \notin {ThirdKey} \cap Keys(c)
        BY <3>2
      <4>2. i =< e - 1 => ~(~(i =< e + Q) /\ i =< Q + R + 1 /\ r = i - Q - 1)
        BY <1>1
      <4>3. i =< e - 1 => i =< e - 1 + Q /\ i =< e + Q
        BY <1>1
      <4>4. i =< e - 1 + Q => i =< e + Q
        BY <1>1
      <4>5. CASE i =< e - 1
        <5>1. t5[i] = {l \in Keys(c) : l[1] = "M" /\ l[2] = i}
          BY <1>14, <4>5
        <5> QED BY <4>1, <4>2, <4>5, <5>1
      <4>6. CASE ~(i =< e - 1) /\ i =< e - 1 + Q
        <5>1. t5[i] = {l \in Keys(c) : l[1] = "L" /\ l[2] = i - (e - 1)}
          BY <1>14, <4>6
        <5> QED BY <4>1, <4>4, <4>6, <5>1
      <4>7. CASE ~(i =< e - 1) /\ ~(i =< e - 1 + Q) /\ i =< e + Q
        <5>1. t5[i] = {PlayinKey} \cap Keys(c)
          BY <1>14, <4>7
        <5> QED BY <4>1, <4>7, <5>1
      <4>8. CASE ~(i =< e - 1) /\ ~(i =< e + Q) /\ i =< Q + R + 1
        <5>1. t5[i] = {l \in Keys(c) : l[1] = "M" /\ l[2] = i - Q - 1}
          BY <1>14, <4>4, <4>8
        <5> QED BY <4>1, <4>8, <5>1
      <4>9. CASE ~(i =< e - 1) /\ ~(i =< e + Q) /\ ~(i =< Q + R + 1)
        <5>1. t5[i] = {ThirdKey} \cap Keys(c)
          BY <1>14, <4>4, <4>9
        <5> QED BY <4>1, <4>9, <5>1
      <4> QED BY <4>5, <4>6, <4>7, <4>8, <4>9
    <3> QED BY <1>1, <3>3, <3>4
  <2>2. CASE \E r \in 1 .. Q : \E j : k = <<"L", r, j>>
    <3>1. PICK r \in 1 .. Q : \E j : k = <<"L", r, j>>
      BY <2>2
    <3>2. k[1] = "L" /\ k[2] = r /\ k # PlayinKey /\ k # ThirdKey
      BY <3>1 DEF PlayinKey, ThirdKey
    <3>3. RoundOf(c, k) = e - 1 + r
      BY <3>2 DEF RoundOf, e
    <3>4. k \in t5[i] <=> ~(i =< e - 1) /\ i =< e - 1 + Q /\ r = i - (e - 1)
      <4>1. /\ \A j : k \notin {l \in Keys(c) : l[1] = "M" /\ l[2] = j}
            /\ \A j : k \in {l \in Keys(c) : l[1] = "L" /\ l[2] = j} <=> r = j
            /\ k \notin {PlayinKey} \cap Keys(c) /\ k \notin {ThirdKey} \cap Keys(c)
        BY <3>2
      <4>5. CASE i =< e - 1
        <5>1. t5[i] = {l \in Keys(c) : l[1] = "M" /\ l[2] = i}
          BY <1>14, <4>5
        <5> QED BY <4>1, <4>5, <5>1
      <4>6. CASE ~(i =< e - 1) /\ i =< e - 1 + Q
        <5>1. t5[i] = {l \in Keys(c) : l[1] = "L" /\ l[2] = i - (e - 1)}
          BY <1>14, <4>6
        <5> QED BY <4>1, <4>6, <5>1
      <4>7. CASE ~(i =< e - 1) /\ ~(i =< e - 1 + Q)
        <5>1. \/ t5[i] = {PlayinKey} \cap Keys(c)
              \/ t5[i] = {l \in Keys(c) : l[1] = "M" /\ l[2] = i - Q - 1}
              \/ t5[i] = {ThirdKey} \cap Keys(c)
          BY <1>14, <4>7
        <5> QED BY <4>1, <4>7, <5>1
      <4> QED BY <4>5, <4>6, <4>7
    <3> QED BY <1>1, <3>3, <3>4
  <2>3. CASE k = PlayinKey
    <3>1. k[1] = "P" /\ k # ThirdKey
      BY <2>3 DEF PlayinKey, ThirdKey
    <3>2. RoundOf(c, k) = e + Q
      BY <3>1 DEF RoundOf, e, Q
    <3>3. k \in t5[i] <=> ~(i =< e - 1) /\ ~(i =< e - 1 + Q) /\ i =< e + Q
      BY <1>14, <2>3, <3>1
    <3> QED BY <1>1, <3>2, <3>3
  <2>4. CASE k = ThirdKey
    <3>1. k[1] = "T" /\ k # PlayinKey
      BY <2>4 DEF PlayinKey, ThirdKey
    <3>2. RoundOf(c, k) = Q + R + 2
      BY <3>1 DEF RoundOf, Q, R
    <3>3. k \in t5[i] <=> ~(i =< e - 1) /\ ~(i =< e - 1 + Q) /\ ~(i =< e + Q) /\ ~(i =< Q + R + 1)
      BY <1>14, <2>4, <3>1
    <3> QED BY <1>1, <3>2, <3>3
  <2> QED BY <2>1, <2>2, <2>3, <2>4, KeysAre DEF R, Q
<1>16. ASSUME NEW i \in 1 .. Q + R + 2
       PROVE  t5[i] = {k \in Keys(c) : RoundOf(c, k) = i}
  <2>1. t5[i] \subseteq Keys(c)
    <3>1. \A s \in Seq(K) : \A j \in 1 .. Len(s) : s[j] \in K
      OBVIOUS
    <3> QED BY <1>11, <3>1 DEF K
  <2> QED BY <1>15, <2>1
<1> QED BY <1>11, <1>12, <1>13, <1>16 DEF Q, R

\* How many rounds the order has.
LastRound(c) == LLRounds(c) + Rounds(c) + 2

\* The layout has every pairing once, in its round.
LEMMA LayoutIs ==
  ASSUME NEW c, IsConfig(c)
  PROVE  /\ LastRound(c) \in Nat
         /\ Len(Layout(c)) = LastRound(c) /\ DOMAIN Layout(c) = 1 .. LastRound(c)
         /\ \A i \in 1 .. LastRound(c) : /\ DOMAIN Layout(c)[i] = {k \in Keys(c) : RoundOf(c, k) = i}
                                    /\ \A k \in DOMAIN Layout(c)[i] : Layout(c)[i][k] = Feed(c, k)
<1>1. Layout(c) = [i \in DOMAIN RoundsInOrder(c) |->
                     [k \in RoundsInOrder(c)[i] |-> Feed(c, k)]]
  BY TableIs DEF Layout, LayoutOf
<1>2. /\ DOMAIN RoundsInOrder(c) = 1 .. LastRound(c)
      /\ \A i \in 1 .. LastRound(c) : RoundsInOrder(c)[i] = {k \in Keys(c) : RoundOf(c, k) = i}
  BY RoundsAre DEF LastRound
<1>3. LastRound(c) \in Nat
  <2>1. c.n \in Nat /\ c.lucky \in BOOLEAN /\ c.llEntry \in Nat
    BY DEF IsConfig
  <2>2. Rounds(c) \in Nat /\ LLRounds(c) \in Nat
    BY <2>1, RoundsAreNumbers
  <2> QED BY <2>2 DEF LastRound
<1>4. \A i \in 1 .. LastRound(c) :
        Layout(c)[i] = [k \in {l \in Keys(c) : RoundOf(c, l) = i} |-> Feed(c, k)]
  BY <1>1, <1>2
<1>5. DOMAIN Layout(c) = 1 .. LastRound(c)
  BY <1>1, <1>2
<1>6. Len(Layout(c)) = LastRound(c)
  BY <1>1, <1>2, <1>3
<1> QED BY <1>3, <1>4, <1>5, <1>6

-----------------------------------------------------------------------------
(* Who feeds whom *)

\* The upper (0) or the lower (1) slot of a pairing.
Slot(c, k, x) == IF x = 0 THEN Feed(c, k).a ELSE Feed(c, k).b

LEMMA TargetIs ==
  ASSUME NEW c, IsConfig(c), c.lucky
  PROVE  /\ Target(c)[3] \in 0 .. Width(c, Entry(c)) - 1
         /\ Target(c) = <<"M", Entry(c), Target(c)[3]>> /\ Target(c) \in Keys(c)
<1>1. Entry(c) \in 1 .. Rounds(c)
  BY SizesAre
<1>2. Width(c, Entry(c)) \in Nat \ {0}
  BY <1>1, WidthIs
<1>3. Target(c)[3] \in 0 .. Width(c, Entry(c)) - 1
  BY <1>2 DEF Target
<1>4. Target(c) = <<"M", Entry(c), Target(c)[3]>>
  BY DEF Target
<1>5. <<"M", Entry(c), Target(c)[3]>> \in Keys(c)
  BY <1>1, <1>3, KeysAre
<1> QED BY <1>3, <1>4, <1>5

LEMMA FirstRoundSlots ==
  ASSUME NEW c, IsConfig(c), NEW i
  PROVE  /\ Slot(c, <<"M", 1, i>>, 0) = Player(UpperPlace(c, i))
         /\ Slot(c, <<"M", 1, i>>, 1) = IF IsBye(c, i) THEN Bye ELSE Player(UpperPlace(c, i) + 1)
<1>1. c.lucky => <<"M", 1, i>> # Target(c)
  <2> SUFFICES ASSUME c.lucky PROVE <<"M", 1, i>> # Target(c)
    OBVIOUS
  <2>1. Entry(c) # 1
    BY SizesAre
  <2> QED BY <2>1 DEF Target
<1>2. Feed(c, <<"M", 1, i>>) = MainFeed(c, 1, i)
  BY <1>1 DEF Feed
<1> QED BY <1>2 DEF MainFeed, Slot

LEMMA MainSlots ==
  ASSUME NEW c, IsConfig(c), NEW r \in 2 .. Rounds(c), NEW i \in Nat, NEW x \in {0, 1}
  PROVE  Slot(c, <<"M", r, i>>, x) = IF c.lucky /\ <<"M", r, i>> = Target(c) /\ x = c.playinSide
                                     THEN WinnerOf(PlayinKey)
                                     ELSE WinnerOf(<<"M", r - 1, 2 * i + x>>)
<1> DEFINE f == MainFeed(c, r, i)
           k == <<"M", r, i>>
<1>1. f = [a |-> WinnerOf(<<"M", r - 1, 2 * i>>), b |-> WinnerOf(<<"M", r - 1, 2 * i + 1>>)]
  BY DEF MainFeed
<1>2. 2 * i + 0 = 2 * i
  OBVIOUS
<1>3. c.playinSide \in {0, 1} /\ c.lucky \in BOOLEAN
  BY DEF IsConfig
<1>4. Feed(c, k) = IF ~c.lucky \/ k # Target(c) THEN f
                   ELSE IF c.playinSide = 1 THEN [f EXCEPT !.b = WinnerOf(PlayinKey)]
                   ELSE [f EXCEPT !.a = WinnerOf(PlayinKey)]
  BY DEF Feed
<1> HIDE DEF k
<1>5. CASE ~c.lucky \/ k # Target(c)
  <2>1. Feed(c, k) = [a |-> WinnerOf(<<"M", r - 1, 2 * i>>), b |-> WinnerOf(<<"M", r - 1, 2 * i + 1>>)]
    BY <1>1, <1>4, <1>5
  <2> QED BY <1>2, <1>5, <2>1 DEF Slot, k
<1>6. CASE c.lucky /\ k = Target(c) /\ c.playinSide = 1
  <2>1. Feed(c, k) = [a |-> WinnerOf(<<"M", r - 1, 2 * i>>), b |-> WinnerOf(PlayinKey)]
    BY <1>1, <1>4, <1>6
  <2> QED BY <1>2, <1>6, <2>1 DEF Slot, k
<1>7. CASE c.lucky /\ k = Target(c) /\ c.playinSide = 0
  <2>1. Feed(c, k) = [a |-> WinnerOf(PlayinKey), b |-> WinnerOf(<<"M", r - 1, 2 * i + 1>>)]
    BY <1>1, <1>4, <1>7
  <2> QED BY <1>2, <1>7, <2>1 DEF Slot, k
<1> QED BY <1>3, <1>5, <1>6, <1>7

LEMMA LLSlots ==
  ASSUME NEW c, NEW r, NEW i \in Int, NEW x \in {0, 1}
  PROVE  Slot(c, <<"L", r, i>>, x) =
           IF r = 1 THEN LoserOf(<<"M", 1, 2 * i + x>>)
           ELSE IF JoiningRound(c, r) = 0 THEN WinnerOf(<<"L", r - 1, 2 * i + x>>)
           ELSE IF x = 0 THEN WinnerOf(<<"L", r - 1, i>>)
           ELSE LoserOf(<<"M", JoiningRound(c, r), Width(c, JoiningRound(c, r)) - 1 - i>>)
<1>1. Feed(c, <<"L", r, i>>) = LLFeed(c, r, i)
  BY DEF Feed
<1>2. 2 * i + 0 = 2 * i
  OBVIOUS
<1> QED BY <1>1, <1>2 DEF LLFeed, Slot

LEMMA PlayinSlots ==
  ASSUME NEW c, IsConfig(c), c.lucky
  PROVE  /\ Slot(c, PlayinKey, 0) = WinnerOf(<<"L", LLRounds(c), 0>>)
         /\ Slot(c, PlayinKey, 1) = WinnerOf(<<"M", Entry(c) - 1, 2 * Target(c)[3] + c.playinSide>>)
<1> DEFINE i == Target(c)[3]
           f == MainFeed(c, Entry(c), i)
<1>1. i \in Nat /\ Entry(c) # 1 /\ c.playinSide \in {0, 1}
  <2>1. Entry(c) \in 2 .. Rounds(c) /\ Rounds(c) \in Nat
    BY SizesAre
  <2>2. Width(c, Entry(c)) \in Nat
    BY <2>1, WidthIs
  <2>3. i \in 0 .. Width(c, Entry(c)) - 1
    BY TargetIs
  <2>4. i \in Nat
    <3> HIDE DEF i
    <3> QED BY <2>2, <2>3
  <2> QED BY <2>1, <2>4 DEF IsConfig
<1>2. f = [a |-> WinnerOf(<<"M", Entry(c) - 1, 2 * i>>), b |-> WinnerOf(<<"M", Entry(c) - 1, 2 * i + 1>>)]
  BY <1>1 DEF MainFeed
<1>3. Opponent(c) = IF c.playinSide = 1 THEN f.b ELSE f.a
  BY DEF Opponent
<1>4. 2 * i + 0 = 2 * i
  BY <1>1
<1> HIDE DEF i
<1>5. Opponent(c) = WinnerOf(<<"M", Entry(c) - 1, 2 * i + c.playinSide>>)
  BY <1>1, <1>2, <1>3, <1>4
<1>6. Feed(c, PlayinKey) = [a |-> WinnerOf(<<"L", LLRounds(c), 0>>), b |-> Opponent(c)]
  <2>1. PlayinKey[1] = "P"
    BY DEF PlayinKey
  <2> QED BY <2>1 DEF Feed
<1> QED BY <1>5, <1>6 DEF Slot, i

LEMMA ThirdSlots ==
  ASSUME NEW c, NEW x \in {0, 1}
  PROVE  Slot(c, ThirdKey, x) = LoserOf(<<"M", Rounds(c) - 1, x>>)
<1>1. ThirdKey[1] = "T"
  BY DEF ThirdKey
<1>2. Feed(c, ThirdKey) = [a |-> LoserOf(<<"M", Rounds(c) - 1, 0>>), b |-> LoserOf(<<"M", Rounds(c) - 1, 1>>)]
  BY <1>1 DEF Feed
<1> QED BY <1>2 DEF Slot

\* The slot that takes the winner or the loser of a pairing.
UsedBy(c, s) ==
  LET r == s.of[2]
      i == s.of[3]
  IN CASE s.kind = "winner" /\ s.of[1] = "M" ->
            IF c.lucky /\ r + 1 = Entry(c) /\ i = 2 * Target(c)[3] + c.playinSide THEN <<PlayinKey, 1>>
            ELSE <<<<"M", r + 1, i \div 2>>, i % 2>>
       [] s.kind = "winner" /\ s.of[1] = "L" ->
            IF r = LLRounds(c) THEN <<PlayinKey, 0>>
            ELSE IF JoiningRound(c, r + 1) # 0 THEN <<<<"L", r + 1, i>>, 0>>
            ELSE <<<<"L", r + 1, i \div 2>>, i % 2>>
       [] s.kind = "winner" /\ s.of[1] = "P" -> <<Target(c), c.playinSide>>
       [] s.kind = "loser" ->
            IF c.lucky /\ r = 1 THEN <<<<"L", 1, i \div 2>>, i % 2>>
            ELSE IF c.lucky /\ r < Entry(c) THEN <<<<"L", 2 * (r - 1), Width(c, r) - 1 - i>>, 1>>
            ELSE <<ThirdKey, i>>

\* Whether the loser of pairing l has another match.
PlaysOn(c, l) ==
  /\ l[1] = "M"
  /\ \/ c.lucky /\ l[2] < Entry(c)
     \/ ThirdKey \in Keys(c) /\ l[2] = Rounds(c) - 1

\* Slot x of k is for the winner, or for the loser, of l, which is played before.
TakesWinner(c, k, x, l) ==
  /\ l \in Keys(c) \ {FinalKey(c), ThirdKey} /\ RoundOf(c, l) < RoundOf(c, k)
  /\ Slot(c, k, x) = WinnerOf(l) /\ UsedBy(c, WinnerOf(l)) = <<k, x>>
TakesLoser(c, k, x, l) ==
  /\ l \in Keys(c) /\ PlaysOn(c, l) /\ RoundOf(c, l) < RoundOf(c, k)
  /\ Slot(c, k, x) = LoserOf(l) /\ UsedBy(c, LoserOf(l)) = <<k, x>>

LEMMA RoundOfIs ==
  ASSUME NEW c
  PROVE  /\ \A r, i : RoundOf(c, <<"M", r, i>>) = IF r < Break(c) THEN r ELSE LLRounds(c) + 1 + r
         /\ \A r, i : RoundOf(c, <<"L", r, i>>) = Break(c) - 1 + r
         /\ RoundOf(c, PlayinKey) = Break(c) + LLRounds(c)
         /\ RoundOf(c, ThirdKey) = LLRounds(c) + Rounds(c) + 2
BY DEF RoundOf, PlayinKey, ThirdKey

LEMMA NumbersAre ==
  ASSUME NEW c, IsConfig(c)
  PROVE  /\ Rounds(c) \in Nat \ {0} /\ LLRounds(c) \in Nat
         /\ c.lucky \in BOOLEAN /\ c.third \in BOOLEAN /\ c.playinSide \in {0, 1}
         /\ c.lucky => /\ Entry(c) \in 2 .. Rounds(c) /\ LLRounds(c) \in Nat \ {0}
                       /\ ~(Entry(c) = Rounds(c) /\ c.third)
         /\ ~c.lucky => LLRounds(c) = 0
         /\ Break(c) \in 1 .. Rounds(c) /\ (c.lucky => Break(c) = Entry(c))
BY SizesAre, LLRoundsFit DEF IsConfig, LLRounds, Break

LEMMA RoundsOfKeys ==
  ASSUME NEW c, IsConfig(c), NEW k \in Keys(c)
  PROVE  RoundOf(c, k) \in 1 .. LastRound(c)
<1>1. Rounds(c) \in Nat \ {0} /\ LLRounds(c) \in Nat /\ Break(c) \in 1 .. Rounds(c)
  BY NumbersAre
<1>2. CASE \E r \in 1 .. Rounds(c) : \E i \in 0 .. Width(c, r) - 1 : k = <<"M", r, i>>
  <2>1. PICK r \in 1 .. Rounds(c) : \E i : k = <<"M", r, i>>
    BY <1>2
  <2>2. RoundOf(c, k) = r \/ RoundOf(c, k) = LLRounds(c) + 1 + r
    BY <2>1, RoundOfIs
  <2> QED BY <1>1, <2>2 DEF LastRound
<1>3. CASE \E r \in 1 .. LLRounds(c) : \E i \in 0 .. LLSize(c)[r] - 1 : k = <<"L", r, i>>
  <2>1. PICK r \in 1 .. LLRounds(c) : \E i : k = <<"L", r, i>>
    BY <1>3
  <2>2. RoundOf(c, k) = Break(c) - 1 + r
    BY <2>1, RoundOfIs
  <2> QED BY <1>1, <2>2 DEF LastRound
<1>4. CASE k \in {PlayinKey, ThirdKey}
  BY <1>1, <1>4, RoundOfIs DEF LastRound
<1> QED BY <1>2, <1>3, <1>4, KeysAre

LEMMA NamesDiffer ==
  ASSUME NEW c
  PROVE  /\ \A r, i : <<"M", r, i>> # PlayinKey /\ <<"M", r, i>> # ThirdKey
         /\ \A r, i : <<"L", r, i>> # PlayinKey /\ <<"L", r, i>> # ThirdKey /\ <<"L", r, i>> # FinalKey(c)
         /\ PlayinKey # ThirdKey /\ PlayinKey # FinalKey(c) /\ ThirdKey # FinalKey(c)
         /\ \A r, i : r # Rounds(c) => <<"M", r, i>> # FinalKey(c)
BY DEF PlayinKey, ThirdKey, FinalKey

\* A number from its half and its parity
LEMMA Halving ==
  ASSUME NEW i \in Int, NEW x \in {0, 1}
  PROVE  (2 * i + x) \div 2 = i /\ (2 * i + x) % 2 = x
OBVIOUS

LEMMA MainWiring ==
  ASSUME NEW c, IsConfig(c), NEW r \in 2 .. Rounds(c), NEW i \in 0 .. Width(c, r) - 1, NEW x \in {0, 1}
  PROVE  \/ <<"M", r, i>> = Target(c) /\ x = c.playinSide /\ TakesWinner(c, <<"M", r, i>>, x, PlayinKey)
         \/ TakesWinner(c, <<"M", r, i>>, x, <<"M", r - 1, 2 * i + x>>)
<1> DEFINE k == <<"M", r, i>>
<1>1. /\ Rounds(c) \in Nat \ {0} /\ LLRounds(c) \in Nat /\ c.lucky \in BOOLEAN
      /\ c.lucky => Entry(c) \in 2 .. Rounds(c) /\ Break(c) = Entry(c)
      /\ Break(c) \in 1 .. Rounds(c)
  BY NumbersAre
<1>2. Width(c, r) \in Nat /\ Width(c, r - 1) = 2 * Width(c, r) /\ i \in Nat
  BY <1>1, WidthIs
<1>3. k \in Keys(c)
  BY <1>1, KeysAre
<1>4. Slot(c, k, x) = IF c.lucky /\ k = Target(c) /\ x = c.playinSide THEN WinnerOf(PlayinKey)
                      ELSE WinnerOf(<<"M", r - 1, 2 * i + x>>)
  BY <1>2, MainSlots
<1>5. CASE c.lucky /\ k = Target(c) /\ x = c.playinSide
  <2>1. PlayinKey \in Keys(c) \ {FinalKey(c), ThirdKey}
    BY <1>5, KeysAre, NamesDiffer
  <2>2. r = Entry(c)
    BY <1>5 DEF Target
  <2>3. RoundOf(c, PlayinKey) = Entry(c) + LLRounds(c) /\ RoundOf(c, k) = LLRounds(c) + 1 + Entry(c)
    BY <1>1, <1>5, <2>2, RoundOfIs
  <2>4. RoundOf(c, PlayinKey) < RoundOf(c, k)
    BY <1>1, <1>5, <2>3
  <2>5. UsedBy(c, WinnerOf(PlayinKey)) = <<k, x>>
    BY <1>5 DEF UsedBy, WinnerOf, PlayinKey
  <2> HIDE DEF k
  <2>6. TakesWinner(c, k, x, PlayinKey)
    BY <1>4, <1>5, <2>1, <2>4, <2>5 DEF TakesWinner
  <2> QED BY <1>5, <2>6 DEF k
<1>6. CASE ~(c.lucky /\ k = Target(c) /\ x = c.playinSide)
  <2> DEFINE j == 2 * i + x
             l == <<"M", r - 1, j>>
  <2>1. j \in 0 .. Width(c, r - 1) - 1 /\ r - 1 \in 1 .. Rounds(c) /\ r - 1 # Rounds(c)
    BY <1>1, <1>2
  <2>2. l \in Keys(c) \ {FinalKey(c), ThirdKey}
    BY <2>1, KeysAre, NamesDiffer
  <2>3. RoundOf(c, l) < RoundOf(c, k)
    <3>1. /\ RoundOf(c, l) = IF r - 1 < Break(c) THEN r - 1 ELSE LLRounds(c) + 1 + (r - 1)
          /\ RoundOf(c, k) = IF r < Break(c) THEN r ELSE LLRounds(c) + 1 + r
      BY RoundOfIs
    <3> HIDE DEF k, l
    <3> QED BY <1>1, <3>1
  <2>4. j \div 2 = i /\ j % 2 = x /\ (r - 1) + 1 = r
    BY <1>1, <1>2, Halving
  <2>5. ~(c.lucky /\ (r - 1) + 1 = Entry(c) /\ j = 2 * Target(c)[3] + c.playinSide)
    <3> SUFFICES ASSUME c.lucky, r = Entry(c), j = 2 * Target(c)[3] + c.playinSide PROVE FALSE
      BY <2>4
    <3>1. Target(c)[3] \in 0 .. Width(c, Entry(c)) - 1 /\ Target(c) = <<"M", Entry(c), Target(c)[3]>>
      BY TargetIs
    <3>2. Target(c)[3] \in Int /\ c.playinSide \in {0, 1}
      BY <1>2, <3>1, NumbersAre
    <3>3. i = Target(c)[3] /\ x = c.playinSide
      BY <1>2, <3>2
    <3>4. k = Target(c)
      BY <3>1, <3>3
    <3> QED BY <1>6, <3>3, <3>4
  <2>6. UsedBy(c, WinnerOf(l)) = <<k, x>>
    <3>1. UsedBy(c, WinnerOf(l)) = IF c.lucky /\ (r - 1) + 1 = Entry(c) /\ j = 2 * Target(c)[3] + c.playinSide
                                   THEN <<PlayinKey, 1>>
                                   ELSE <<<<"M", (r - 1) + 1, j \div 2>>, j % 2>>
      <4>1. PICK q : q = r - 1
        OBVIOUS
      <4> HIDE DEF j
      <4>2. UsedBy(c, WinnerOf(<<"M", q, j>>)) =
              IF c.lucky /\ q + 1 = Entry(c) /\ j = 2 * Target(c)[3] + c.playinSide THEN <<PlayinKey, 1>>
              ELSE <<<<"M", q + 1, j \div 2>>, j % 2>>
        BY DEF UsedBy, WinnerOf
      <4> QED BY <4>1, <4>2
    <3> HIDE DEF j
    <3> QED BY <2>4, <2>5, <3>1
  <2>7. Slot(c, k, x) = WinnerOf(l)
    BY <1>4, <1>6
  <2> HIDE DEF k, l
  <2>8. TakesWinner(c, k, x, l)
    BY <2>2, <2>3, <2>6, <2>7 DEF TakesWinner
  <2> QED BY <2>8 DEF k, l
<1> QED BY <1>5, <1>6


LEMMA LLWiring ==
  ASSUME NEW c, IsConfig(c), NEW r \in 1 .. LLRounds(c), NEW i \in 0 .. LLSize(c)[r] - 1, NEW x \in {0, 1}
  PROVE  \E l : TakesWinner(c, <<"L", r, i>>, x, l) \/ TakesLoser(c, <<"L", r, i>>, x, l)
<1> DEFINE k == <<"L", r, i>>
           Q == LLRounds(c)
<1>1. /\ Rounds(c) \in Nat \ {0} /\ Q \in Nat \ {0} /\ c.lucky
      /\ Entry(c) \in 2 .. Rounds(c) /\ Break(c) = Entry(c)
  BY NumbersAre
<1>2. /\ LLSize(c)[r] \in Nat \ {0} /\ 2 * LLSize(c)[1] = Half(c) /\ i \in Nat
      /\ r # 1 => IF JoiningRound(c, r) # 0
                  THEN /\ LLSize(c)[r] = LLSize(c)[r - 1]
                       /\ JoiningRound(c, r) \in 2 .. Entry(c) - 1
                       /\ r = 2 * (JoiningRound(c, r) - 1)
                       /\ LLSize(c)[r] = Width(c, JoiningRound(c, r))
                  ELSE LLSize(c)[r - 1] = 2 * LLSize(c)[r]
  <2>1. r # 1 => r \in 2 .. Q
    BY <1>1
  <2>2. LLSize(c)[r] \in Nat \ {0}
    BY <1>1, LLRoundsFit
  <2> QED BY <1>1, <2>1, <2>2, LLRoundsFit
<1>3. RoundOf(c, k) = Entry(c) - 1 + r
  BY <1>1, RoundOfIs
<1>4. i \in Int
  BY <1>2
<1>5. Slot(c, k, x) = IF r = 1 THEN LoserOf(<<"M", 1, 2 * i + x>>)
                      ELSE IF JoiningRound(c, r) = 0 THEN WinnerOf(<<"L", r - 1, 2 * i + x>>)
                      ELSE IF x = 0 THEN WinnerOf(<<"L", r - 1, i>>)
                      ELSE LoserOf(<<"M", JoiningRound(c, r), Width(c, JoiningRound(c, r)) - 1 - i>>)
  BY <1>4, LLSlots
<1>6. CASE r = 1
  <2> DEFINE j == 2 * i + x
             l == <<"M", 1, j>>
  <2>1. j \in 0 .. Width(c, 1) - 1 /\ 1 \in 1 .. Rounds(c)
    BY <1>1, <1>2, <1>6, WidthIs
  <2>2. l \in Keys(c)
    BY <2>1, KeysAre
  <2>3. RoundOf(c, l) = 1
    BY <1>1, RoundOfIs
  <2>4. j \div 2 = i /\ j % 2 = x
    BY <1>4, Halving
  <2> HIDE DEF j
  <2>5. UsedBy(c, LoserOf(l)) = <<<<"L", 1, j \div 2>>, j % 2>>
    BY <1>1 DEF UsedBy, LoserOf
  <2>6. Slot(c, k, x) = LoserOf(l)
    BY <1>5, <1>6 DEF j
  <2>7. PlaysOn(c, l)
    BY <1>1 DEF PlaysOn
  <2>8. RoundOf(c, l) < RoundOf(c, k)
    BY <1>1, <1>3, <1>6, <2>3
  <2>9. UsedBy(c, LoserOf(l)) = <<k, x>>
    BY <1>6, <2>4, <2>5
  <2> HIDE DEF k, l
  <2>10. TakesLoser(c, k, x, l)
    BY <2>2, <2>6, <2>7, <2>8, <2>9 DEF TakesLoser
  <2> QED BY <2>10 DEF k
<1>7. CASE r # 1 /\ JoiningRound(c, r) = 0
  <2> DEFINE j == 2 * i + x
             q == r - 1
             l == <<"L", q, j>>
  <2>1. j \in 0 .. LLSize(c)[r - 1] - 1 /\ r - 1 \in 1 .. Q /\ r - 1 # Q
    BY <1>1, <1>2, <1>7
  <2>4. j \div 2 = i /\ j % 2 = x /\ q + 1 = r
    BY <1>1, <1>4, Halving
  <2> HIDE DEF j, q
  <2>2. l \in Keys(c) \ {FinalKey(c), ThirdKey}
    BY <2>1, KeysAre, NamesDiffer DEF q
  <2>3. RoundOf(c, l) = Entry(c) - 1 + (r - 1)
    BY <1>1, RoundOfIs DEF q
  <2>5. UsedBy(c, WinnerOf(l)) = <<<<"L", q + 1, j \div 2>>, j % 2>>
    <3>1. q # LLRounds(c) /\ JoiningRound(c, q + 1) = 0
      BY <1>7, <2>1, <2>4 DEF q
    <3> QED BY <3>1 DEF UsedBy, WinnerOf
  <2>6. Slot(c, k, x) = WinnerOf(l)
    BY <1>5, <1>7 DEF j, q
  <2>8. RoundOf(c, l) < RoundOf(c, k)
    BY <1>1, <1>3, <2>3
  <2>9. UsedBy(c, WinnerOf(l)) = <<k, x>>
    BY <2>4, <2>5
  <2> HIDE DEF k, l
  <2>10. TakesWinner(c, k, x, l)
    BY <2>2, <2>6, <2>8, <2>9 DEF TakesWinner
  <2> QED BY <2>10 DEF k
<1>8. CASE r # 1 /\ JoiningRound(c, r) # 0 /\ x = 0
  <2> DEFINE q == r - 1
             l == <<"L", q, i>>
  <2>1. i \in 0 .. LLSize(c)[r - 1] - 1 /\ r - 1 \in 1 .. Q /\ r - 1 # Q
    BY <1>1, <1>2, <1>8
  <2>4. q + 1 = r
    BY <1>1
  <2> HIDE DEF q
  <2>2. l \in Keys(c) \ {FinalKey(c), ThirdKey}
    BY <2>1, KeysAre, NamesDiffer DEF q
  <2>3. RoundOf(c, l) = Entry(c) - 1 + (r - 1)
    BY <1>1, RoundOfIs DEF q
  <2>5. UsedBy(c, WinnerOf(l)) = <<<<"L", q + 1, i>>, 0>>
    <3>1. q # LLRounds(c) /\ JoiningRound(c, q + 1) # 0
      BY <1>8, <2>1, <2>4 DEF q
    <3> QED BY <3>1 DEF UsedBy, WinnerOf
  <2>6. Slot(c, k, x) = WinnerOf(l)
    BY <1>5, <1>8 DEF q
  <2>8. RoundOf(c, l) < RoundOf(c, k)
    BY <1>1, <1>3, <2>3
  <2>9. UsedBy(c, WinnerOf(l)) = <<k, x>>
    BY <1>8, <2>4, <2>5
  <2> HIDE DEF k, l
  <2>10. TakesWinner(c, k, x, l)
    BY <2>2, <2>6, <2>8, <2>9 DEF TakesWinner
  <2> QED BY <2>10 DEF k
<1>9. CASE r # 1 /\ JoiningRound(c, r) # 0 /\ x = 1
  <2> DEFINE J == JoiningRound(c, r)
             j == Width(c, J) - 1 - i
             l == <<"M", J, j>>
  <2>1. /\ J \in 2 .. Entry(c) - 1 /\ r = 2 * (J - 1) /\ i \in 0 .. Width(c, J) - 1
        /\ Width(c, J) \in Nat
    BY <1>2, <1>9
  <2>2. j \in 0 .. Width(c, J) - 1 /\ J \in 1 .. Rounds(c) /\ Width(c, J) - 1 - j = i
    BY <1>1, <2>1
  <2>6. Slot(c, k, x) = LoserOf(l)
    BY <1>5, <1>9
  <2> HIDE DEF j, J
  <2>3. l \in Keys(c)
    BY <2>2, KeysAre
  <2>4. RoundOf(c, l) = J
    BY <1>1, <2>1, RoundOfIs
  <2>5. UsedBy(c, LoserOf(l)) = <<<<"L", 2 * (J - 1), Width(c, J) - 1 - j>>, 1>>
    <3>1. J # 1 /\ J < Entry(c)
      BY <1>1, <2>1
    <3> QED BY <1>1, <3>1 DEF UsedBy, LoserOf
  <2>7. PlaysOn(c, l)
    BY <1>1, <2>1 DEF PlaysOn
  <2>8. RoundOf(c, l) < RoundOf(c, k)
    BY <1>1, <1>3, <2>1, <2>4
  <2>9. UsedBy(c, LoserOf(l)) = <<k, x>>
    BY <1>9, <2>1, <2>2, <2>5
  <2> HIDE DEF k, l
  <2>10. TakesLoser(c, k, x, l)
    BY <2>3, <2>6, <2>7, <2>8, <2>9 DEF TakesLoser
  <2> QED BY <2>10 DEF k
<1> QED BY <1>6, <1>7, <1>8, <1>9

LEMMA PlayinWiring ==
  ASSUME NEW c, IsConfig(c), c.lucky, NEW x \in {0, 1}
  PROVE  /\ x = 0 => TakesWinner(c, PlayinKey, x, <<"L", LLRounds(c), 0>>)
         /\ x = 1 => TakesWinner(c, PlayinKey, x, <<"M", Entry(c) - 1, 2 * Target(c)[3] + c.playinSide>>)
<1> DEFINE Q == LLRounds(c)
           e == Entry(c)
           i == Target(c)[3]
<1>1. /\ Rounds(c) \in Nat \ {0} /\ Q \in Nat \ {0}
      /\ e \in 2 .. Rounds(c) /\ Break(c) = e /\ c.playinSide \in {0, 1}
  BY NumbersAre
<1>2. RoundOf(c, PlayinKey) = e + Q
  BY <1>1, RoundOfIs
<1>3. ASSUME x = 0
      PROVE  TakesWinner(c, PlayinKey, x, <<"L", Q, 0>>)
  <2> DEFINE l == <<"L", Q, 0>>
  <2>1. 0 \in 0 .. LLSize(c)[Q] - 1 /\ Q \in 1 .. Q
    BY <1>1, LLRoundsFit
  <2>2. l \in Keys(c) \ {FinalKey(c), ThirdKey}
    BY <2>1, KeysAre, NamesDiffer
  <2>3. RoundOf(c, l) = e - 1 + Q
    BY <1>1, RoundOfIs
  <2>4. UsedBy(c, WinnerOf(l)) = <<PlayinKey, 0>>
    BY DEF UsedBy, WinnerOf
  <2>5. Slot(c, PlayinKey, x) = WinnerOf(l)
    BY <1>3, PlayinSlots
  <2>6. RoundOf(c, l) < RoundOf(c, PlayinKey)
    BY <1>1, <1>2, <2>3
  <2> HIDE DEF l
  <2>7. TakesWinner(c, PlayinKey, x, l)
    BY <1>3, <2>2, <2>4, <2>5, <2>6 DEF TakesWinner
  <2> QED BY <2>7 DEF l
<1>4. ASSUME x = 1
      PROVE  TakesWinner(c, PlayinKey, x, <<"M", e - 1, 2 * i + c.playinSide>>)
  <2> DEFINE j == 2 * i + c.playinSide
             q == e - 1
             l == <<"M", q, j>>
  <2>1. i \in 0 .. Width(c, e) - 1 /\ Width(c, e) \in Nat /\ Width(c, e - 1) = 2 * Width(c, e)
    <3>1. Width(c, e) \in Nat /\ Width(c, e - 1) = 2 * Width(c, e)
      BY <1>1, WidthIs
    <3> QED BY <3>1, TargetIs
  <2>2. j \in 0 .. Width(c, e - 1) - 1 /\ e - 1 \in 1 .. Rounds(c) /\ e - 1 # Rounds(c) /\ q + 1 = e
    <3> HIDE DEF i, e
    <3> QED BY <1>1, <2>1
  <2>5. Slot(c, PlayinKey, x) = WinnerOf(l)
    BY <1>4, PlayinSlots
  <2>9. j = 2 * Target(c)[3] + c.playinSide
    OBVIOUS
  <2> HIDE DEF j, q
  <2>3. l \in Keys(c) \ {FinalKey(c), ThirdKey}
    BY <2>2, KeysAre, NamesDiffer DEF q
  <2>4. UsedBy(c, WinnerOf(l)) = <<PlayinKey, 1>>
    BY <2>2, <2>9 DEF UsedBy, WinnerOf
  <2>6. RoundOf(c, l) = e - 1
    BY <1>1, RoundOfIs DEF q
  <2>7. RoundOf(c, l) < RoundOf(c, PlayinKey)
    BY <1>1, <1>2, <2>6
  <2> HIDE DEF l
  <2>8. TakesWinner(c, PlayinKey, x, l)
    BY <1>4, <2>3, <2>4, <2>5, <2>7 DEF TakesWinner
  <2> QED BY <2>8 DEF l, q, j
<1> QED BY <1>3, <1>4

LEMMA ThirdWiring ==
  ASSUME NEW c, IsConfig(c), ThirdKey \in Keys(c), NEW x \in {0, 1}
  PROVE  TakesLoser(c, ThirdKey, x, <<"M", Rounds(c) - 1, x>>)
<1> DEFINE q == Rounds(c) - 1
           l == <<"M", q, x>>
<1>1. /\ Rounds(c) \in Nat \ {0} /\ LLRounds(c) \in Nat /\ c.lucky \in BOOLEAN /\ c.third \in BOOLEAN
      /\ c.lucky => Entry(c) \in 2 .. Rounds(c) /\ ~(Entry(c) = Rounds(c) /\ c.third)
      /\ Break(c) \in 1 .. Rounds(c)
  BY NumbersAre
<1>2. c.third /\ Rounds(c) >= 2
  BY KeysAre
<1>3. Width(c, Rounds(c) - 1) = 2
  <2>1. Rounds(c) \in 2 .. Rounds(c)
    BY <1>1, <1>2
  <2> QED BY <2>1, WidthIs
<1>4. x \in 0 .. Width(c, q) - 1 /\ q \in 1 .. Rounds(c)
  BY <1>1, <1>2, <1>3
<1>5. l \in Keys(c)
  BY <1>4, KeysAre
<1>6. RoundOf(c, l) < RoundOf(c, ThirdKey)
  <2>1. RoundOf(c, l) = IF q < Break(c) THEN q ELSE LLRounds(c) + 1 + q
    <3> HIDE DEF q
    <3> QED BY RoundOfIs
  <2>2. RoundOf(c, ThirdKey) = LLRounds(c) + Rounds(c) + 2
    BY RoundOfIs
  <2> HIDE DEF l
  <2> QED BY <1>1, <2>1, <2>2
<1>7. PlaysOn(c, l)
  BY DEF PlaysOn
<1>8. UsedBy(c, LoserOf(l)) = <<ThirdKey, x>>
  <2>1. ~(c.lucky /\ q = 1) /\ ~(c.lucky /\ q < Entry(c))
    BY <1>1, <1>2
  <2> HIDE DEF q
  <2> QED BY <2>1 DEF UsedBy, LoserOf
<1>9. Slot(c, ThirdKey, x) = LoserOf(l)
  BY ThirdSlots
<1> HIDE DEF l
<1>10. TakesLoser(c, ThirdKey, x, l)
  BY <1>5, <1>6, <1>7, <1>8, <1>9 DEF TakesLoser
<1> QED BY <1>10 DEF l, q

\* Slot x of k is for a place of the draw, or for nobody.
TakesPlace(c, k, x) ==
  \E i \in 0 .. Half(c) - 1 :
    /\ k = <<"M", 1, i>>
    /\ Slot(c, k, x) = IF x = 0 THEN Player(UpperPlace(c, i))
                       ELSE IF IsBye(c, i) THEN Bye ELSE Player(UpperPlace(c, i) + 1)

LEMMA PlaceWiring ==
  ASSUME NEW c, IsConfig(c), NEW i \in 0 .. Half(c) - 1, NEW x \in {0, 1}
  PROVE  <<"M", 1, i>> \in Keys(c) /\ TakesPlace(c, <<"M", 1, i>>, x)
<1>1. 1 \in 1 .. Rounds(c) /\ i \in 0 .. Width(c, 1) - 1
  BY SizesAre, WidthIs
<1>2. <<"M", 1, i>> \in Keys(c)
  BY <1>1, KeysAre
<1> QED BY <1>2, FirstRoundSlots DEF TakesPlace

\* Every slot is for a place of the draw, for nobody, or for somebody out of an earlier
\* pairing.
LEMMA Wiring ==
  ASSUME NEW c, IsConfig(c), NEW k \in Keys(c), NEW x \in {0, 1}
  PROVE  TakesPlace(c, k, x) \/ \E l : TakesWinner(c, k, x, l) \/ TakesLoser(c, k, x, l)
<1>1. CASE \E r \in 1 .. Rounds(c) : \E i \in 0 .. Width(c, r) - 1 : k = <<"M", r, i>>
  <2>1. PICK r \in 1 .. Rounds(c) : \E i \in 0 .. Width(c, r) - 1 : k = <<"M", r, i>>
    BY <1>1
  <2>2. PICK i \in 0 .. Width(c, r) - 1 : k = <<"M", r, i>>
    BY <2>1
  <2>3. CASE r = 1
    <3>1. i \in 0 .. Half(c) - 1
      BY <2>3, WidthIs
    <3> QED BY <2>2, <2>3, <3>1, PlaceWiring
  <2>4. CASE r # 1
    <3>1. r \in 2 .. Rounds(c)
      BY <2>4, SizesAre
    <3> QED BY <2>2, <3>1, MainWiring
  <2> QED BY <2>3, <2>4
<1>2. CASE \E r \in 1 .. LLRounds(c) : \E i \in 0 .. LLSize(c)[r] - 1 : k = <<"L", r, i>>
  <2>1. PICK r \in 1 .. LLRounds(c) : \E i \in 0 .. LLSize(c)[r] - 1 : k = <<"L", r, i>>
    BY <1>2
  <2>2. PICK i \in 0 .. LLSize(c)[r] - 1 : k = <<"L", r, i>>
    BY <2>1
  <2> QED BY <2>2, LLWiring
<1>3. CASE c.lucky /\ k = PlayinKey
  BY <1>3, PlayinWiring
<1>4. CASE k = ThirdKey
  BY <1>4, ThirdWiring
<1> QED BY <1>1, <1>2, <1>3, <1>4, KeysAre

\* LLSlots case by case.
LEMMA LLSources ==
  ASSUME NEW c
  PROVE  \A r : \A i \in Int :
           /\ r = 1 => \A x \in {0, 1} : Slot(c, <<"L", 1, i>>, x) = LoserOf(<<"M", 1, 2 * i + x>>)
           /\ r # 1 /\ JoiningRound(c, r) = 0 =>
                \A x \in {0, 1} : Slot(c, <<"L", r, i>>, x) = WinnerOf(<<"L", r - 1, 2 * i + x>>)
           /\ r # 1 /\ JoiningRound(c, r) # 0 =>
                /\ Slot(c, <<"L", r, i>>, 0) = WinnerOf(<<"L", r - 1, i>>)
                /\ Slot(c, <<"L", r, i>>, 1)
                     = LoserOf(<<"M", JoiningRound(c, r), Width(c, JoiningRound(c, r)) - 1 - i>>)
<1> TAKE r
<1> TAKE i \in Int
<1>1. Feed(c, <<"L", r, i>>) = LLFeed(c, r, i)
  BY DEF Feed
<1>2. 2 * i + 0 = 2 * i
  OBVIOUS
<1>3. CASE r = 1
  BY <1>1, <1>2, <1>3 DEF LLFeed, Slot
<1>4. CASE r # 1 /\ JoiningRound(c, r) = 0
  BY <1>1, <1>2, <1>4 DEF LLFeed, Slot
<1>5. CASE r # 1 /\ JoiningRound(c, r) # 0
  BY <1>1, <1>5 DEF LLFeed, Slot
<1> QED BY <1>3, <1>4, <1>5

LEMMA SourcesDiffer ==
  ASSUME NEW p, NEW k, NEW q, NEW l
  PROVE  /\ Player(p) = Player(q) <=> p = q
         /\ WinnerOf(k) = WinnerOf(l) <=> k = l
         /\ LoserOf(k) = LoserOf(l) <=> k = l
         /\ Player(p) # WinnerOf(k) /\ Player(p) # LoserOf(k) /\ WinnerOf(k) # LoserOf(l)
         /\ Player(p) # Bye /\ WinnerOf(k) # Bye /\ LoserOf(k) # Bye
<1>1. /\ Player(p).kind = "player" /\ Player(p).of = p /\ Player(q).of = q
      /\ WinnerOf(k).kind = "winner" /\ WinnerOf(k).of = k /\ WinnerOf(l).of = l
      /\ LoserOf(k).kind = "loser" /\ LoserOf(k).of = k /\ LoserOf(l).of = l
      /\ Bye.kind = "bye" /\ LoserOf(l).kind = "loser"
  BY DEF Player, WinnerOf, LoserOf, Bye
<1> QED BY <1>1

\* No place and no outcome is used twice.
LEMMA SlotsDiffer ==
  ASSUME NEW c, IsConfig(c), NEW k \in Keys(c), NEW x \in {0, 1}, NEW l \in Keys(c), NEW y \in {0, 1},
         Slot(c, k, x) = Slot(c, l, y), Slot(c, k, x) # Bye
  PROVE  k = l /\ x = y
<1>1. CASE TakesPlace(c, k, x) /\ TakesPlace(c, l, y)
  <2>1. PICK i \in 0 .. Half(c) - 1 :
          k = <<"M", 1, i>> /\ Slot(c, k, x) = IF x = 0 THEN Player(UpperPlace(c, i))
                                               ELSE IF IsBye(c, i) THEN Bye ELSE Player(UpperPlace(c, i) + 1)
    BY <1>1 DEF TakesPlace
  <2>2. PICK j \in 0 .. Half(c) - 1 :
          l = <<"M", 1, j>> /\ Slot(c, l, y) = IF y = 0 THEN Player(UpperPlace(c, j))
                                               ELSE IF IsBye(c, j) THEN Bye ELSE Player(UpperPlace(c, j) + 1)
    BY <1>1 DEF TakesPlace
  <2>3. UpperPlace(c, i) + x = UpperPlace(c, j) + y /\ (x = 1 => ~IsBye(c, i)) /\ (y = 1 => ~IsBye(c, j))
    <3>1. UpperPlace(c, i) \in Int /\ UpperPlace(c, j) \in Int
      BY PlacesAre, SizesAre
    <3>2. (x = 1 => ~IsBye(c, i)) /\ (y = 1 => ~IsBye(c, j))
      BY <2>1, <2>2
    <3>3. Slot(c, k, x) = Player(UpperPlace(c, i) + x) /\ Slot(c, l, y) = Player(UpperPlace(c, j) + y)
      <4>1. UpperPlace(c, i) + 0 = UpperPlace(c, i) /\ UpperPlace(c, j) + 0 = UpperPlace(c, j)
        BY <3>1
      <4> QED BY <2>1, <2>2, <3>2, <4>1
    <3>4. \A p, q : Player(p) = Player(q) => p = q
      BY DEF Player
    <3> QED BY <3>2, <3>3, <3>4
  <2>4. /\ UpperPlace(c, i) \in Int /\ UpperPlace(c, j) \in Int
        /\ i < j => UpperPlace(c, i) + x < UpperPlace(c, j)
        /\ j < i => UpperPlace(c, j) + y < UpperPlace(c, i)
    <3>1. UpperPlace(c, i) \in Int /\ UpperPlace(c, j) \in Int
      BY PlacesAre, SizesAre
    <3>2. i < j => UpperPlace(c, i) < UpperPlace(c, j) /\ (~IsBye(c, i) => UpperPlace(c, i) + 1 < UpperPlace(c, j))
      BY PlacesAre
    <3>3. j < i => UpperPlace(c, j) < UpperPlace(c, i) /\ (~IsBye(c, j) => UpperPlace(c, j) + 1 < UpperPlace(c, i))
      BY PlacesAre
    <3> QED BY <2>3, <3>1, <3>2, <3>3
  <2>5. i = j
    <3>1. i \in Int /\ j \in Int
      BY SizesAre
    <3> QED BY <2>3, <2>4, <3>1
  <2> QED BY <2>1, <2>2, <2>3, <2>4, <2>5
<1>2. ASSUME NEW m, TakesWinner(c, k, x, m) \/ TakesLoser(c, k, x, m)
      PROVE  UsedBy(c, Slot(c, k, x)) = <<k, x>> /\ ~TakesPlace(c, l, y)
  BY <1>2, SourcesDiffer DEF TakesWinner, TakesLoser, TakesPlace
<1>3. ASSUME NEW m, TakesWinner(c, l, y, m) \/ TakesLoser(c, l, y, m)
      PROVE  UsedBy(c, Slot(c, l, y)) = <<l, y>> /\ ~TakesPlace(c, k, x)
  BY <1>3, SourcesDiffer DEF TakesWinner, TakesLoser, TakesPlace
<1>4. TakesPlace(c, k, x) \/ \E m : TakesWinner(c, k, x, m) \/ TakesLoser(c, k, x, m)
  BY Wiring
<1>5. TakesPlace(c, l, y) \/ \E m : TakesWinner(c, l, y, m) \/ TakesLoser(c, l, y, m)
  BY Wiring
<1>6. CASE ~TakesPlace(c, k, x)
  <2>1. UsedBy(c, Slot(c, k, x)) = <<k, x>> /\ UsedBy(c, Slot(c, l, y)) = <<l, y>>
    BY <1>2, <1>3, <1>4, <1>5, <1>6
  <2> QED BY <2>1
<1>7. CASE ~TakesPlace(c, l, y)
  <2>1. UsedBy(c, Slot(c, k, x)) = <<k, x>> /\ UsedBy(c, Slot(c, l, y)) = <<l, y>>
    BY <1>2, <1>3, <1>4, <1>5, <1>7
  <2> QED BY <2>1
<1> QED BY <1>1, <1>6, <1>7

\* Every place of the draw is used.
LEMMA PlacesUsed ==
  ASSUME NEW c, IsConfig(c), NEW p \in 1 .. c.n
  PROVE  \E k \in Keys(c) : \E x \in {0, 1} : Slot(c, k, x) = Player(p)
<1>1. PICK i \in 0 .. Half(c) - 1 : p = UpperPlace(c, i) \/ (~IsBye(c, i) /\ p = UpperPlace(c, i) + 1)
  BY PlacesAre
<1>2. <<"M", 1, i>> \in Keys(c)
  BY PlaceWiring
<1> QED BY <1>1, <1>2, FirstRoundSlots

\* Every winner plays on, except those of the final and of the match for third place.
LEMMA WinnersUsed ==
  ASSUME NEW c, IsConfig(c), NEW l \in Keys(c) \ {FinalKey(c), ThirdKey}
  PROVE  \E k \in Keys(c) : \E x \in {0, 1} : TakesWinner(c, k, x, l)
<1>1. /\ Rounds(c) \in Nat \ {0} /\ LLRounds(c) \in Nat /\ c.lucky \in BOOLEAN /\ c.playinSide \in {0, 1}
      /\ c.lucky => Entry(c) \in 2 .. Rounds(c) /\ LLRounds(c) \in Nat \ {0}
      /\ ~c.lucky => LLRounds(c) = 0
  BY NumbersAre
<1>2. CASE \E r \in 1 .. Rounds(c) : \E i \in 0 .. Width(c, r) - 1 : l = <<"M", r, i>>
  <2>1. PICK r \in 1 .. Rounds(c) : \E i \in 0 .. Width(c, r) - 1 : l = <<"M", r, i>>
    BY <1>2
  <2>2. PICK i \in 0 .. Width(c, r) - 1 : l = <<"M", r, i>>
    BY <2>1
  <2>3. r # Rounds(c)
    <3> SUFFICES ASSUME r = Rounds(c) PROVE FALSE
      OBVIOUS
    <3>1. i = 0
      <4>1. i \in 0 .. 1 - 1
        BY WidthIs
      <4> QED BY <4>1
    <3> QED BY <2>2, <3>1 DEF FinalKey
  <2>4. PICK s \in 2 .. Rounds(c) : s - 1 = r
    <3>1. r + 1 \in 2 .. Rounds(c) /\ (r + 1) - 1 = r
      BY <1>1, <2>3
    <3> QED BY <3>1
  <2>5. Width(c, s) \in Nat \ {0} /\ Width(c, r) = 2 * Width(c, s)
    BY <1>1, <2>4, WidthIs
  <2>6. PICK j \in 0 .. Width(c, s) - 1, x \in {0, 1} : i = 2 * j + x
    <3>1. i \div 2 \in 0 .. Width(c, s) - 1 /\ i % 2 \in {0, 1} /\ i = 2 * (i \div 2) + (i % 2)
      BY <2>5
    <3> QED BY <3>1
  <2>7. <<"M", s, j>> \in Keys(c)
    BY <1>1, KeysAre
  <2>8. CASE TakesWinner(c, <<"M", s, j>>, x, <<"M", s - 1, 2 * j + x>>)
    BY <2>2, <2>4, <2>6, <2>7, <2>8
  <2>9. CASE <<"M", s, j>> = Target(c) /\ x = c.playinSide /\ TakesWinner(c, <<"M", s, j>>, x, PlayinKey)
    <3>1. c.lucky
      BY <2>9, KeysAre DEF TakesWinner
    <3>2. s = Entry(c) /\ j = Target(c)[3]
      BY <2>9 DEF Target
    <3>3. l = <<"M", Entry(c) - 1, 2 * Target(c)[3] + c.playinSide>>
      BY <2>2, <2>4, <2>6, <2>9, <3>2
    <3>4. TakesWinner(c, PlayinKey, 1, l)
      BY <3>1, <3>3, PlayinWiring
    <3>5. PlayinKey \in Keys(c)
      BY <3>1, KeysAre
    <3> QED BY <3>4, <3>5
  <2> QED BY <2>8, <2>9, MainWiring
<1>3. CASE \E r \in 1 .. LLRounds(c) : \E i \in 0 .. LLSize(c)[r] - 1 : l = <<"L", r, i>>
  <2>1. PICK r \in 1 .. LLRounds(c) : \E i \in 0 .. LLSize(c)[r] - 1 : l = <<"L", r, i>>
    BY <1>3
  <2>2. PICK i \in 0 .. LLSize(c)[r] - 1 : l = <<"L", r, i>>
    BY <2>1
  <2>0. c.lucky
    BY <1>1, <2>1
  <2>3. CASE r = LLRounds(c)
    <3>1. i = 0
      <4>1. i \in 0 .. 1 - 1
        BY <2>0, <2>3, LLRoundsFit
      <4> QED BY <4>1
    <3>2. TakesWinner(c, PlayinKey, 0, l)
      BY <2>0, <2>2, <2>3, <3>1, PlayinWiring
    <3>3. PlayinKey \in Keys(c)
      BY <2>0, KeysAre
    <3> QED BY <3>2, <3>3
  <2>4. CASE r # LLRounds(c)
    <3>1. PICK s \in 2 .. LLRounds(c) : s - 1 = r
      <4>1. r + 1 \in 2 .. LLRounds(c) /\ (r + 1) - 1 = r
        BY <1>1, <2>4
      <4> QED BY <4>1
    <3>2. s \in 1 .. LLRounds(c) /\ s # 1
      BY <1>1
    <3>3. /\ LLSize(c)[s] \in Nat \ {0} /\ i \in Nat
          /\ IF JoiningRound(c, s) # 0 THEN LLSize(c)[s] = LLSize(c)[r]
             ELSE LLSize(c)[r] = 2 * LLSize(c)[s]
      <4>1. LLSize(c)[r] \in Nat
        BY <2>0, LLRoundsFit
      <4>2. i \in Nat
        BY <4>1
      <4> QED BY <2>0, <3>1, <3>2, <4>2, LLRoundsFit
    <3>4. CASE JoiningRound(c, s) # 0
      <4>1. i \in 0 .. LLSize(c)[s] - 1
        BY <3>3, <3>4
      <4>2. Slot(c, <<"L", s, i>>, 0) = WinnerOf(<<"L", s - 1, i>>)
        <5>1. \A q \in Int : Slot(c, <<"L", s, q>>, 0) = WinnerOf(<<"L", s - 1, q>>)
          BY <3>2, <3>4 DEF Slot, Feed, LLFeed
        <5>2. i \in Int
          BY <3>3
        <5> QED BY <5>1, <5>2
      <4>3. PICK m : TakesWinner(c, <<"L", s, i>>, 0, m) \/ TakesLoser(c, <<"L", s, i>>, 0, m)
        BY <3>2, <4>1, LLWiring
      <4>4. TakesWinner(c, <<"L", s, i>>, 0, l)
        BY <2>2, <3>1, <4>2, <4>3, SourcesDiffer DEF TakesWinner, TakesLoser
      <4>5. <<"L", s, i>> \in Keys(c)
        BY <3>2, <4>1, KeysAre
      <4> QED BY <4>4, <4>5
    <3>5. CASE JoiningRound(c, s) = 0
      <4>1. PICK j \in 0 .. LLSize(c)[s] - 1, x \in {0, 1} : i = 2 * j + x
        <5>1. i \div 2 \in 0 .. LLSize(c)[s] - 1 /\ i % 2 \in {0, 1} /\ i = 2 * (i \div 2) + (i % 2)
          BY <3>3, <3>5
        <5> QED BY <5>1
      <4>2. Slot(c, <<"L", s, j>>, x) = WinnerOf(<<"L", s - 1, 2 * j + x>>)
        <5>1. j \in Int
          BY <3>3
        <5>2. \A q \in Int : \A z \in {0, 1} : Slot(c, <<"L", s, q>>, z) = WinnerOf(<<"L", s - 1, 2 * q + z>>)
          <6>1. \A q \in Int : 2 * q + 0 = 2 * q
            OBVIOUS
          <6> QED BY <3>2, <3>5, <6>1 DEF Slot, Feed, LLFeed
        <5> QED BY <5>1, <5>2
      <4>3. PICK m : TakesWinner(c, <<"L", s, j>>, x, m) \/ TakesLoser(c, <<"L", s, j>>, x, m)
        BY <3>2, LLWiring
      <4>4. TakesWinner(c, <<"L", s, j>>, x, l)
        BY <2>2, <3>1, <4>1, <4>2, <4>3, SourcesDiffer DEF TakesWinner, TakesLoser
      <4>5. <<"L", s, j>> \in Keys(c)
        BY <3>2, KeysAre
      <4> QED BY <4>4, <4>5
    <3> QED BY <3>4, <3>5
  <2> QED BY <2>3, <2>4
<1>4. CASE c.lucky /\ l = PlayinKey
  <2>1. PICK j \in 0 .. Width(c, Entry(c)) - 1 : Target(c) = <<"M", Entry(c), j>> /\ j = Target(c)[3]
    BY <1>4, TargetIs
  <2>2. j \in Nat /\ Entry(c) \in 2 .. Rounds(c)
    <3>2. Entry(c) \in 1 .. Rounds(c)
      BY <1>1, <1>4
    <3>1. Width(c, Entry(c)) \in Nat
      BY <3>2, WidthIs
    <3> QED BY <1>1, <1>4, <3>1
  <2>0. PICK e \in 2 .. Rounds(c) : e = Entry(c)
    BY <2>2
  <2>9. PICK y \in {0, 1} : y = c.playinSide
    BY <1>1
  <2>3. Slot(c, <<"M", Entry(c), j>>, c.playinSide) = WinnerOf(PlayinKey)
    <3>1. Slot(c, <<"M", e, j>>, y) = WinnerOf(PlayinKey)
      <4>1. Slot(c, <<"M", e, j>>, y) = IF c.lucky /\ <<"M", e, j>> = Target(c) /\ y = c.playinSide
                                       THEN WinnerOf(PlayinKey)
                                       ELSE WinnerOf(<<"M", e - 1, 2 * j + y>>)
        <5>1. j \in Nat
          BY <2>2
        <5> QED BY <5>1, MainSlots
      <4> QED BY <1>4, <2>0, <2>1, <2>9, <4>1
    <3> QED BY <2>0, <2>9, <3>1
  <2>4. \/ TakesWinner(c, <<"M", Entry(c), j>>, c.playinSide, PlayinKey)
        \/ TakesWinner(c, <<"M", Entry(c), j>>, c.playinSide, <<"M", Entry(c) - 1, 2 * j + c.playinSide>>)
    <3>1. j \in 0 .. Width(c, e) - 1
      BY <2>0
    <3>2. \/ TakesWinner(c, <<"M", e, j>>, y, PlayinKey)
          \/ TakesWinner(c, <<"M", e, j>>, y, <<"M", e - 1, 2 * j + y>>)
      BY <3>1, MainWiring
    <3> QED BY <2>0, <2>9, <3>2
  <2>5. TakesWinner(c, <<"M", Entry(c), j>>, c.playinSide, PlayinKey)
    BY <2>3, <2>4, NamesDiffer, SourcesDiffer DEF TakesWinner
  <2>6. <<"M", Entry(c), j>> \in Keys(c)
    BY <1>1, <2>2, KeysAre
  <2> QED BY <1>1, <1>4, <2>5, <2>6
<1> QED BY <1>2, <1>3, <1>4, KeysAre

\* Losers play on where the tree says so.
LEMMA LosersUsed ==
  ASSUME NEW c, IsConfig(c), NEW l \in Keys(c), PlaysOn(c, l)
  PROVE  \E k \in Keys(c) : \E x \in {0, 1} : TakesLoser(c, k, x, l)
<1>1. /\ Rounds(c) \in Nat \ {0} /\ LLRounds(c) \in Nat
      /\ c.lucky => Entry(c) \in 2 .. Rounds(c) /\ LLRounds(c) \in Nat \ {0}
  BY NumbersAre
<1>2. l[1] = "M"
  BY DEF PlaysOn
<1>3. PICK r \in 1 .. Rounds(c) : \E i \in 0 .. Width(c, r) - 1 : l = <<"M", r, i>>
  BY <1>2, KeysAre DEF PlayinKey, ThirdKey
<1>4. PICK i \in 0 .. Width(c, r) - 1 : l = <<"M", r, i>>
  BY <1>3
<1>5. Width(c, r) \in Nat /\ i \in Nat
  BY <1>1, WidthIs
<1>6. CASE c.lucky /\ r = 1
  <2>1. Width(c, 1) = 2 * LLSize(c)[1] /\ LLSize(c)[1] \in Nat \ {0} /\ 1 \in 1 .. LLRounds(c)
    BY <1>1, <1>6, WidthIs, LLRoundsFit
  <2>2. PICK j \in 0 .. LLSize(c)[1] - 1, x \in {0, 1} : i = 2 * j + x
    <3>1. i \div 2 \in 0 .. LLSize(c)[1] - 1 /\ i % 2 \in {0, 1} /\ i = 2 * (i \div 2) + (i % 2)
      BY <1>6, <2>1
    <3> QED BY <3>1
  <2>3. Slot(c, <<"L", 1, j>>, x) = LoserOf(<<"M", 1, 2 * j + x>>)
    <3>1. j \in Int
      BY <2>1
    <3> QED BY <3>1, LLSources
  <2>4. PICK m : TakesWinner(c, <<"L", 1, j>>, x, m) \/ TakesLoser(c, <<"L", 1, j>>, x, m)
    BY <2>1, LLWiring
  <2>5. TakesLoser(c, <<"L", 1, j>>, x, l)
    BY <1>4, <1>6, <2>2, <2>3, <2>4, SourcesDiffer DEF TakesWinner, TakesLoser
  <2>6. <<"L", 1, j>> \in Keys(c)
    BY <2>1, KeysAre
  <2> QED BY <2>5, <2>6
<1>7. CASE c.lucky /\ r # 1 /\ r < Entry(c)
  <2> DEFINE s == 2 * (r - 1)
             j == Width(c, r) - 1 - i
  <2>1. s \in 2 .. LLRounds(c) /\ s \in 1 .. LLRounds(c) /\ s # 1
    <3>1. LLRounds(c) >= 2 * (Entry(c) - 2)
      BY <1>7, LLRoundsFit
    <3> QED BY <1>1, <1>7, <3>1
  <2>2. JoiningRound(c, s) = r
    <3>1. s % 2 = 0 /\ s =< 2 * (Entry(c) - 2) /\ s \div 2 + 1 = r
      BY <1>1, <1>7
    <3> QED BY <3>1 DEF JoiningRound
  <2>3. LLSize(c)[s] = Width(c, r)
    <3>1. r # 0
      BY <1>1
    <3> HIDE DEF s
    <3> QED BY <1>7, <2>1, <2>2, <3>1, LLRoundsFit
  <2>4. j \in 0 .. LLSize(c)[s] - 1 /\ Width(c, r) - 1 - j = i /\ j \in Int
    <3> HIDE DEF s
    <3> QED BY <1>5, <2>3
  <2> HIDE DEF s, j
  <2>5. Slot(c, <<"L", s, j>>, 1) = LoserOf(<<"M", r, i>>)
    <3>1. JoiningRound(c, s) # 0
      BY <1>1, <2>2
    <3> QED BY <2>1, <2>2, <2>4, <3>1, LLSources
  <2>6. PICK m : TakesWinner(c, <<"L", s, j>>, 1, m) \/ TakesLoser(c, <<"L", s, j>>, 1, m)
    BY <2>1, <2>4, LLWiring
  <2>7. TakesLoser(c, <<"L", s, j>>, 1, l)
    BY <1>4, <2>5, <2>6, SourcesDiffer DEF TakesWinner, TakesLoser
  <2>8. <<"L", s, j>> \in Keys(c)
    BY <2>1, <2>4, KeysAre
  <2> QED BY <2>7, <2>8
<1>8. CASE ThirdKey \in Keys(c) /\ r = Rounds(c) - 1
  <2>1. Width(c, r) = 2 * Width(c, Rounds(c)) /\ Width(c, Rounds(c)) = 1
    <3>1. Rounds(c) \in 2 .. Rounds(c)
      BY <1>1, <1>8, KeysAre
    <3> QED BY <1>8, <3>1, WidthIs
  <2>2. i \in {0, 1}
    BY <1>5, <2>1
  <2>3. TakesLoser(c, ThirdKey, i, l)
    BY <1>4, <1>8, <2>2, ThirdWiring
  <2> QED BY <1>8, <2>2, <2>3
<1>9. \/ c.lucky /\ r < Entry(c)
      \/ ThirdKey \in Keys(c) /\ r = Rounds(c) - 1
  BY <1>4 DEF PlaysOn
<1> QED BY <1>6, <1>7, <1>8, <1>9

-----------------------------------------------------------------------------
(* The tree as a system of equations *)

\* The wiring in a form for every pairing.
LEMMA WiringIs ==
  ASSUME NEW c, IsConfig(c)
  PROVE  \A k \in Keys(c) : \A x \in {0, 1} :
           \/ \E p \in 1 .. c.n : Slot(c, k, x) = Player(p)
           \/ Slot(c, k, x) = Bye
           \/ \E l \in Keys(c) \ {FinalKey(c), ThirdKey} :
                RoundOf(c, l) < RoundOf(c, k) /\ Slot(c, k, x) = WinnerOf(l)
           \/ \E l \in Keys(c) :
                PlaysOn(c, l) /\ RoundOf(c, l) < RoundOf(c, k) /\ Slot(c, k, x) = LoserOf(l)
<1> TAKE k \in Keys(c)
<1> TAKE x \in {0, 1}
<1>1. CASE TakesPlace(c, k, x)
  <2>1. PICK i \in 0 .. Half(c) - 1 :
          Slot(c, k, x) = IF x = 0 THEN Player(UpperPlace(c, i))
                          ELSE IF IsBye(c, i) THEN Bye ELSE Player(UpperPlace(c, i) + 1)
    BY <1>1 DEF TakesPlace
  <2>2. UpperPlace(c, i) \in 1 .. c.n /\ (~IsBye(c, i) => UpperPlace(c, i) + 1 \in 1 .. c.n)
    BY PlacesAre
  <2> QED BY <2>1, <2>2
<1>2. CASE \E l : TakesWinner(c, k, x, l) \/ TakesLoser(c, k, x, l)
  BY <1>2 DEF TakesWinner, TakesLoser
<1> QED BY <1>1, <1>2, Wiring

\* Who plays, if source s of a slot is worth what ev and the draw say.
Value(ev, order, s) ==
  CASE s.kind = "player" -> order[s.of]
    [] s.kind = "winner" -> ev[s.of].winner
    [] s.kind = "loser"  -> ev[s.of].loser
    [] s.kind = "bye"    -> Nobody

LEMMA ValueIs ==
  ASSUME NEW ev, NEW order
  PROVE  /\ \A p : Value(ev, order, Player(p)) = order[p]
         /\ \A l : Value(ev, order, WinnerOf(l)) = ev[l].winner
         /\ \A l : Value(ev, order, LoserOf(l)) = ev[l].loser
         /\ Value(ev, order, Bye) = Nobody
BY DEF Value, Player, WinnerOf, LoserOf, Bye

\* The upper (0) or the lower (1) player of a pairing.
Held(ev, k, x) == IF x = 0 THEN ev[k].a ELSE ev[k].b

\* What a pairing comes to, in terms of its players.
IsOutcome(p) ==
  \/ p.status = "empty" /\ p.a = Nobody /\ p.b = Nobody /\ p.winner = Nobody /\ p.loser = Nobody
  \/ /\ p.status = "wait" /\ p.winner = Pending
     /\ p.a = Pending \/ p.b = Pending
     /\ p.loser = IF p.a = Nobody \/ p.b = Nobody THEN Nobody ELSE Pending
  \/ /\ p.status = "walkover" /\ p.loser = Nobody /\ Known(p.winner)
     /\ \/ p.a = Nobody /\ p.b = p.winner
        \/ p.b = Nobody /\ p.a = p.winner
  \/ p.status = "ready" /\ Known(p.a) /\ Known(p.b) /\ p.winner = Pending /\ p.loser = Pending
  \/ /\ p.status = "done" /\ Known(p.a) /\ Known(p.b)
     /\ \/ p.winner = p.a /\ p.loser = p.b
        \/ p.winner = p.b /\ p.loser = p.a

LEMMA OutcomeIs ==
  ASSUME NEW a, NEW b, NEW ready, NEW has, NEW r, NEW p,
         p.a = a, p.b = b,
         p.status = Outcome(a, b, ready, has, r).status,
         p.winner = Outcome(a, b, ready, has, r).winner,
         p.loser = Outcome(a, b, ready, has, r).loser
  PROVE  IsOutcome(p)
<1> DEFINE other == IF a = Nobody THEN b ELSE a
           o == Outcome(a, b, ready, has, r)
<1>0. Pending # Nobody
  BY SlotAssumption
<1>1. CASE a = Nobody /\ b = Nobody
  <2>1. o = [status |-> "empty", winner |-> Nobody, loser |-> Nobody, decidedAt |-> ready]
    BY <1>1 DEF Outcome
  <2> QED BY <1>1, <2>1 DEF IsOutcome
<1>2. CASE ~(a = Nobody /\ b = Nobody) /\ (a = Nobody \/ b = Nobody) /\ other = Pending
  <2>1. o.status = "wait" /\ o.winner = Pending /\ o.loser = Nobody
    BY <1>2 DEF Outcome
  <2> HIDE DEF o
  <2>2. p.status = "wait" /\ p.winner = Pending /\ p.loser = Nobody
    BY <2>1 DEF o
  <2> QED BY <1>2, <2>2 DEF IsOutcome
<1>3. CASE ~(a = Nobody /\ b = Nobody) /\ (a = Nobody \/ b = Nobody) /\ other # Pending
  <2>1. o = [status |-> "walkover", winner |-> other, loser |-> Nobody, decidedAt |-> ready]
    BY <1>3 DEF Outcome
  <2>2. p.status = "walkover" /\ p.winner = other /\ p.loser = Nobody
    BY <2>1
  <2> QED BY <1>3, <2>2 DEF IsOutcome, Known
<1>4. CASE a # Nobody /\ b # Nobody /\ (a = Pending \/ b = Pending)
  <2>1. o = [status |-> "wait", winner |-> Pending, loser |-> Pending, decidedAt |-> 0]
    BY <1>4 DEF Outcome
  <2>2. p.status = "wait" /\ p.winner = Pending /\ p.loser = Pending
    BY <2>1
  <2> QED BY <1>4, <2>2 DEF IsOutcome
<1>5. CASE Known(a) /\ Known(b) /\ has /\ Fits(r, a, b)
  <2>1. o.status = "done" /\ o.winner = r.winner /\ o.loser = IF r.winner = a THEN b ELSE a
    BY <1>5 DEF Outcome, Known
  <2>2. r.winner = a \/ r.winner = b
    BY <1>5 DEF Fits
  <2> HIDE DEF o
  <2>3. p.status = "done" /\ p.winner = r.winner /\ p.loser = IF r.winner = a THEN b ELSE a
    BY <2>1 DEF o
  <2> QED BY <1>5, <2>2, <2>3 DEF IsOutcome
<1>6. CASE Known(a) /\ Known(b) /\ ~(has /\ Fits(r, a, b))
  <2>1. o.status = "ready" /\ o.winner = Pending /\ o.loser = Pending
    BY <1>6 DEF Outcome, Known
  <2> HIDE DEF o
  <2>2. p.status = "ready" /\ p.winner = Pending /\ p.loser = Pending
    BY <2>1 DEF o
  <2> QED BY <1>6, <2>2 DEF IsOutcome
<1> QED BY <1>1, <1>2, <1>3, <1>4, <1>5, <1>6 DEF Known

\* Everybody in a pairing comes from where the tree says, and its outcome follows.
IsTree(c, ev, order) ==
  /\ DOMAIN ev = Keys(c)
  /\ \A k \in Keys(c) : IsOutcome(ev[k])
  /\ \A k \in Keys(c) : \A x \in {0, 1} : Held(ev, k, x) = Value(ev, order, Slot(c, k, x))

\* The layout, as the lemmas about evaluation want it
LEMMA LayoutIsLayout ==
  ASSUME NEW c, IsConfig(c)
  PROVE  IsLayout(Layout(c))
BY LayoutIsSequence DEF IsLayout, IsConfig

\* What is known after round i is known of the pairings up to round i.
LEMMA RoundsKnown ==
  ASSUME NEW c, IsConfig(c), NEW order, NEW results, NEW started
  PROVE  LET E == Evaluations(Layout(c), order, results, started)
         IN \A i \in 0 .. LastRound(c) : DOMAIN E[i] = {k \in Keys(c) : RoundOf(c, k) =< i}
<1> DEFINE L == Layout(c)
           E == Evaluations(L, order, results, started)
           upTo(i) == {k \in Keys(c) : RoundOf(c, k) =< i}
           S == {i \in 0 .. LastRound(c) : DOMAIN E[i] = upTo(i)}
<1> HIDE DEF E
<1>1. /\ LastRound(c) \in Nat /\ Len(L) = LastRound(c)
      /\ \A i \in 1 .. LastRound(c) : DOMAIN L[i] = {k \in Keys(c) : RoundOf(c, k) = i}
  BY LayoutIs
<1>2. /\ DOMAIN E[0] = {}
      /\ \A i \in 1 .. LastRound(c) : E[i] = EvaluateRound(E[i - 1], L[i], order, results, started)
  BY <1>1, LayoutIsLayout, EvaluationSteps DEF E
<1>3. \A k \in Keys(c) : RoundOf(c, k) \in 1 .. LastRound(c)
  BY RoundsOfKeys
<1>4. 0 \in S
  <2>1. upTo(0) = {}
    <3> SUFFICES ASSUME NEW k \in Keys(c), RoundOf(c, k) =< 0 PROVE FALSE
      OBVIOUS
    <3>1. RoundOf(c, k) \in 1 .. LastRound(c)
      BY <1>3
    <3> QED BY <1>1, <3>1
  <2> QED BY <1>1, <1>2, <2>1
<1>5. ASSUME NEW i \in 0 .. LastRound(c), i # LastRound(c), i \in S
      PROVE  i + 1 \in S
  <2>1. i + 1 \in 1 .. LastRound(c) /\ (i + 1) - 1 = i /\ i + 1 \in 0 .. LastRound(c)
    BY <1>1, <1>5
  <2>2. E[i + 1] = EvaluateRound(E[i], L[i + 1], order, results, started)
    BY <1>2, <2>1
  <2>3. Extends(E[i + 1], E[i], L[i + 1], order, results, started)
    BY <2>2, RoundKeeps
  <2>4. DOMAIN E[i + 1] = upTo(i) \cup {k \in Keys(c) : RoundOf(c, k) = i + 1}
    BY <1>1, <1>5, <2>1, <2>3 DEF Extends
  <2>5. upTo(i) \cup {k \in Keys(c) : RoundOf(c, k) = i + 1} = upTo(i + 1)
    <3>1. \A k \in Keys(c) : RoundOf(c, k) =< i \/ RoundOf(c, k) = i + 1 <=> RoundOf(c, k) =< i + 1
      <4> TAKE k \in Keys(c)
      <4>1. RoundOf(c, k) \in Int
        BY <1>3
      <4> QED BY <4>1
    <3> QED BY <3>1
  <2> QED BY <2>1, <2>4, <2>5
<1>6. \A i \in 0 .. LastRound(c) : i # LastRound(c) /\ i \in S => i + 1 \in S
  BY <1>5
<1>7. 0 .. LastRound(c) \subseteq S
  <2> HIDE DEF S
  <2> QED BY <1>1, <1>4, <1>6, UpTo
<1> QED BY <1>7 DEF E

\* A pairing as match computes it
LEMMA PairingIs ==
  ASSUME NEW ev, NEW f, NEW order, NEW results, NEW started, NEW k
  PROVE  LET player(s) == CASE s.kind = "player" -> order[s.of]
                            [] s.kind = "winner" -> Memo(ev, s.of).winner
                            [] s.kind = "loser"  -> Memo(ev, s.of).loser
                            [] s.kind = "bye"    -> Nobody
             p == Pairing(ev, f, order, results, started, k)
         IN p.a = player(f.a) /\ p.b = player(f.b) /\ IsOutcome(p)
<1> DEFINE p == Pairing(ev, f, order, results, started, k)
           player(s) == CASE s.kind = "player" -> order[s.of]
                          [] s.kind = "winner" -> Memo(ev, s.of).winner
                          [] s.kind = "loser"  -> Memo(ev, s.of).loser
                          [] s.kind = "bye"    -> Nobody
           since(s) == IF s.kind \in {"winner", "loser"} THEN Memo(ev, s.of).decidedAt ELSE 0
           a == player(f.a)
           b == player(f.b)
           ready == Later(started, Later(since(f.a), since(f.b)))
           has == k \in DOMAIN results
           r == IF has THEN results[k] ELSE Nobody
           out == Outcome(a, b, ready, has, r)
<1>1. p = [a |-> a, b |-> b, readyAt |-> ready, status |-> out.status,
           winner |-> out.winner, loser |-> out.loser, decidedAt |-> out.decidedAt]
  BY DEF Pairing
<1> HIDE DEF player, since, a, b, ready, has, r, p
<1>2. p.a = a /\ p.b = b /\ p.status = out.status /\ p.winner = out.winner /\ p.loser = out.loser
  <2> HIDE DEF out
  <2> QED BY <1>1
<1>3. IsOutcome(p)
  BY <1>2, OutcomeIs
<1> QED BY <1>2, <1>3 DEF player, a, b, p

\* evaluate solves the equations of the tree.
LEMMA TreeIs ==
  ASSUME NEW c, IsConfig(c), NEW order, NEW results, NEW started
  PROVE  IsTree(c, Evaluate(Layout(c), order, results, started), order)
<1> DEFINE L == Layout(c)
           E == Evaluations(L, order, results, started)
           ev == Evaluate(L, order, results, started)
           upTo(i) == {k \in Keys(c) : RoundOf(c, k) =< i}
<1> HIDE DEF E, ev
<1>1. /\ LastRound(c) \in Nat /\ Len(L) = LastRound(c)
      /\ \A i \in 1 .. LastRound(c) : /\ DOMAIN L[i] = {k \in Keys(c) : RoundOf(c, k) = i}
                                 /\ \A k \in DOMAIN L[i] : L[i][k] = Feed(c, k)
  BY LayoutIs
<1>2. /\ \A i \in 1 .. LastRound(c) : E[i] = EvaluateRound(E[i - 1], L[i], order, results, started)
      /\ ev = E[LastRound(c)]
  BY <1>1, LayoutIsLayout, EvaluationSteps DEF E, ev
<1>3. \A k \in Keys(c) : RoundOf(c, k) \in 1 .. LastRound(c)
  BY RoundsOfKeys
<1>4. \A i \in 0 .. LastRound(c) : DOMAIN E[i] = upTo(i)
  BY RoundsKnown DEF E
<1>5. \A i \in 0 .. LastRound(c) : \A k \in DOMAIN E[i] : ev[k] = E[i][k]
  BY <1>1, LayoutIsLayout, KnownStays DEF E, ev
<1>6. DOMAIN ev = Keys(c)
  <2>1. upTo(LastRound(c)) = Keys(c)
    <3>1. \A k \in Keys(c) : RoundOf(c, k) =< LastRound(c)
      <4> TAKE k \in Keys(c)
      <4>1. RoundOf(c, k) \in 1 .. LastRound(c)
        BY <1>3
      <4> QED BY <1>1, <4>1
    <3> QED BY <3>1
  <2>2. LastRound(c) \in 0 .. LastRound(c)
    BY <1>1
  <2> HIDE DEF upTo
  <2> QED BY <1>2, <1>4, <2>1, <2>2
<1>7. ASSUME NEW k \in Keys(c)
      PROVE  IsOutcome(ev[k]) /\ \A x \in {0, 1} : Held(ev, k, x) = Value(ev, order, Slot(c, k, x))
  <2>1. PICK i \in 0 .. LastRound(c) : i + 1 = RoundOf(c, k)
    <3>1. RoundOf(c, k) \in 1 .. LastRound(c)
      BY <1>3
    <3>2. RoundOf(c, k) - 1 \in 0 .. LastRound(c) /\ (RoundOf(c, k) - 1) + 1 = RoundOf(c, k)
      BY <1>1, <3>1
    <3> QED BY <3>2
  <2>2. i + 1 \in 1 .. LastRound(c) /\ i + 1 \in 0 .. LastRound(c) /\ (i + 1) - 1 = i /\ ~(i + 1 =< i) /\ i + 1 =< i + 1
    <3>1. i + 1 \in 1 .. LastRound(c)
      BY <1>3, <2>1
    <3> QED BY <1>1, <3>1
  <2>3. k \in DOMAIN L[i + 1] /\ L[i + 1][k] = Feed(c, k)
    BY <1>1, <2>1, <2>2
  <2>4. k \notin DOMAIN E[i] /\ k \in DOMAIN E[i + 1]
    BY <1>4, <2>1, <2>2
  <2>5. E[i + 1] = EvaluateRound(E[i], L[i + 1], order, results, started)
    BY <1>2, <2>2
  <2>6. Extends(E[i + 1], E[i], L[i + 1], order, results, started)
    BY <2>5, RoundKeeps
  <2> DEFINE p == Pairing(E[i], Feed(c, k), order, results, started, k)
             player(s) == CASE s.kind = "player" -> order[s.of]
                            [] s.kind = "winner" -> Memo(E[i], s.of).winner
                            [] s.kind = "loser"  -> Memo(E[i], s.of).loser
                            [] s.kind = "bye"    -> Nobody
  <2>7. ev[k] = p
    <3>1. E[i + 1][k] = p
      BY <2>3, <2>4, <2>6 DEF Extends
    <3> HIDE DEF p
    <3> QED BY <1>5, <2>2, <2>4, <3>1
  <2>8. p.a = player(Feed(c, k).a) /\ p.b = player(Feed(c, k).b) /\ IsOutcome(p)
    BY PairingIs
  <2>9. ASSUME NEW x \in {0, 1}
        PROVE  player(Slot(c, k, x)) = Value(ev, order, Slot(c, k, x))
    <3>1. \A l \in Keys(c) : RoundOf(c, l) < RoundOf(c, k) => Memo(E[i], l) = ev[l]
      <4> SUFFICES ASSUME NEW l \in Keys(c), RoundOf(c, l) < RoundOf(c, k) PROVE Memo(E[i], l) = ev[l]
        OBVIOUS
      <4>1. RoundOf(c, l) =< i
        <5>1. RoundOf(c, l) \in Int /\ RoundOf(c, k) \in Int
          BY <1>3
        <5> QED BY <2>1, <5>1
      <4>2. l \in DOMAIN E[i]
        BY <1>4, <4>1
      <4> QED BY <1>5, <4>2 DEF Memo
    <3>2. /\ \A q : player(Player(q)) = order[q]
          /\ \A l : player(WinnerOf(l)) = Memo(E[i], l).winner
          /\ \A l : player(LoserOf(l)) = Memo(E[i], l).loser
          /\ player(Bye) = Nobody
      BY DEF Player, WinnerOf, LoserOf, Bye
    <3> HIDE DEF player
    <3>3. \/ \E q \in 1 .. c.n : Slot(c, k, x) = Player(q)
          \/ Slot(c, k, x) = Bye
          \/ \E l \in Keys(c) : RoundOf(c, l) < RoundOf(c, k) /\ Slot(c, k, x) = WinnerOf(l)
          \/ \E l \in Keys(c) : RoundOf(c, l) < RoundOf(c, k) /\ Slot(c, k, x) = LoserOf(l)
      BY WiringIs
    <3>4. /\ \A q : Value(ev, order, Player(q)) = order[q]
          /\ \A l : Value(ev, order, WinnerOf(l)) = ev[l].winner
          /\ \A l : Value(ev, order, LoserOf(l)) = ev[l].loser
          /\ Value(ev, order, Bye) = Nobody
      BY ValueIs
    <3>6. CASE \E q \in 1 .. c.n : Slot(c, k, x) = Player(q)
      BY <3>2, <3>4, <3>6
    <3>7. CASE Slot(c, k, x) = Bye
      BY <3>2, <3>4, <3>7
    <3>8. CASE \E l \in Keys(c) : RoundOf(c, l) < RoundOf(c, k) /\ Slot(c, k, x) = WinnerOf(l)
      <4>1. PICK l \in Keys(c) : Memo(E[i], l) = ev[l] /\ Slot(c, k, x) = WinnerOf(l)
        BY <3>1, <3>8
      <4>2. player(WinnerOf(l)) = ev[l].winner /\ Value(ev, order, WinnerOf(l)) = ev[l].winner
        BY <3>2, <3>4, <4>1
      <4> QED BY <4>1, <4>2
    <3>9. CASE \E l \in Keys(c) : RoundOf(c, l) < RoundOf(c, k) /\ Slot(c, k, x) = LoserOf(l)
      <4>1. PICK l \in Keys(c) : Memo(E[i], l) = ev[l] /\ Slot(c, k, x) = LoserOf(l)
        BY <3>1, <3>9
      <4>2. player(LoserOf(l)) = ev[l].loser /\ Value(ev, order, LoserOf(l)) = ev[l].loser
        BY <3>2, <3>4, <4>1
      <4> QED BY <4>1, <4>2
    <3> QED BY <3>3, <3>6, <3>7, <3>8, <3>9
  <2> HIDE DEF p, player
  <2> QED BY <2>7, <2>8, <2>9 DEF Held, Slot
<1> QED BY <1>6, <1>7 DEF IsTree, ev

-----------------------------------------------------------------------------
(* A tree that is not decided has a pairing to play *)

\* The draw: different players, and nothing that stands for no player.
IsDraw(c, order) ==
  /\ \A p \in 1 .. c.n : Known(order[p])
  /\ \A p, q \in 1 .. c.n : order[p] = order[q] => p = q

\* What a tree is, for use
LEMMA TreeFacts ==
  ASSUME NEW c, IsConfig(c), NEW ev, NEW order, IsTree(c, ev, order)
  PROVE  /\ DOMAIN ev = Keys(c)
         /\ \A k \in Keys(c) : IsOutcome(ev[k])
         /\ \A k \in Keys(c) : \A x \in {0, 1} :
              /\ \A p : Slot(c, k, x) = Player(p) => Held(ev, k, x) = order[p]
              /\ \A l : Slot(c, k, x) = WinnerOf(l) => Held(ev, k, x) = ev[l].winner
              /\ \A l : Slot(c, k, x) = LoserOf(l) => Held(ev, k, x) = ev[l].loser
              /\ Slot(c, k, x) = Bye => Held(ev, k, x) = Nobody
<1> SUFFICES ASSUME NEW k \in Keys(c), NEW x \in {0, 1}
             PROVE  /\ \A p : Slot(c, k, x) = Player(p) => Held(ev, k, x) = order[p]
                    /\ \A l : Slot(c, k, x) = WinnerOf(l) => Held(ev, k, x) = ev[l].winner
                    /\ \A l : Slot(c, k, x) = LoserOf(l) => Held(ev, k, x) = ev[l].loser
                    /\ Slot(c, k, x) = Bye => Held(ev, k, x) = Nobody
  BY DEF IsTree
<1>1. Held(ev, k, x) = Value(ev, order, Slot(c, k, x))
  BY DEF IsTree
<1>2. /\ \A p : Value(ev, order, Player(p)) = order[p]
      /\ \A l : Value(ev, order, WinnerOf(l)) = ev[l].winner
      /\ \A l : Value(ev, order, LoserOf(l)) = ev[l].loser
      /\ Value(ev, order, Bye) = Nobody
  BY ValueIs
<1>3. ASSUME NEW p, Slot(c, k, x) = Player(p) PROVE Held(ev, k, x) = order[p]
  BY <1>1, <1>2, <1>3
<1>4. ASSUME NEW l, Slot(c, k, x) = WinnerOf(l) PROVE Held(ev, k, x) = ev[l].winner
  BY <1>1, <1>2, <1>4
<1>5. ASSUME NEW l, Slot(c, k, x) = LoserOf(l) PROVE Held(ev, k, x) = ev[l].loser
  BY <1>1, <1>2, <1>5
<1>6. Slot(c, k, x) = Bye => Held(ev, k, x) = Nobody
  BY <1>1, <1>2
<1> QED BY <1>3, <1>4, <1>5, <1>6

LEMMA HeldIs ==
  ASSUME NEW ev, NEW k
  PROVE  Held(ev, k, 0) = ev[k].a /\ Held(ev, k, 1) = ev[k].b
BY DEF Held

\* If no pairing is ready, every one is decided.
LEMMA NothingPending ==
  ASSUME NEW c, IsConfig(c), NEW ev, NEW order, IsTree(c, ev, order), IsDraw(c, order), ReadyKeys(ev) = {}
  PROVE  \A k \in Keys(c) : ev[k].winner # Pending /\ ev[k].loser # Pending
<1> DEFINE Decided(k) == ev[k].winner # Pending /\ ev[k].loser # Pending
           S == {i \in 0 .. LastRound(c) : \A k \in Keys(c) : RoundOf(c, k) =< i => Decided(k)}
<1>1. LastRound(c) \in Nat /\ \A k \in Keys(c) : RoundOf(c, k) \in 1 .. LastRound(c)
  BY LayoutIs, RoundsOfKeys
<1>2. 0 \in S
  <2> SUFFICES ASSUME NEW k \in Keys(c), RoundOf(c, k) =< 0 PROVE FALSE
    BY <1>1
  <2>1. RoundOf(c, k) \in 1 .. LastRound(c)
    BY <1>1
  <2> QED BY <1>1, <2>1
<1>3. ASSUME NEW i \in 0 .. LastRound(c), i # LastRound(c), i \in S
      PROVE  i + 1 \in S
  <2>1. i + 1 \in 0 .. LastRound(c) /\ i \in Int
    BY <1>1, <1>3
  <2> SUFFICES ASSUME NEW k \in Keys(c), RoundOf(c, k) =< i + 1 PROVE Decided(k)
    BY <2>1
  <2>2. \A l \in Keys(c) : RoundOf(c, l) < RoundOf(c, k) => Decided(l)
    <3> SUFFICES ASSUME NEW l \in Keys(c), RoundOf(c, l) < RoundOf(c, k) PROVE Decided(l)
      OBVIOUS
    <3>1. RoundOf(c, l) \in Int /\ RoundOf(c, k) \in Int
      BY <1>1
    <3>2. RoundOf(c, l) =< i
      BY <2>1, <3>1
    <3> QED BY <1>3, <3>2
  <2>3. ASSUME NEW x \in {0, 1} PROVE Held(ev, k, x) # Pending
    <3>1. /\ \A p : Slot(c, k, x) = Player(p) => Held(ev, k, x) = order[p]
          /\ \A l : Slot(c, k, x) = WinnerOf(l) => Held(ev, k, x) = ev[l].winner
          /\ \A l : Slot(c, k, x) = LoserOf(l) => Held(ev, k, x) = ev[l].loser
          /\ Slot(c, k, x) = Bye => Held(ev, k, x) = Nobody
      BY TreeFacts
    <3>2. \A p \in 1 .. c.n : order[p] # Pending
      BY DEF IsDraw, Known
    <3>3. \/ \E p \in 1 .. c.n : Slot(c, k, x) = Player(p)
          \/ Slot(c, k, x) = Bye
          \/ \E l \in Keys(c) : RoundOf(c, l) < RoundOf(c, k) /\ Slot(c, k, x) = WinnerOf(l)
          \/ \E l \in Keys(c) : RoundOf(c, l) < RoundOf(c, k) /\ Slot(c, k, x) = LoserOf(l)
      BY WiringIs
    <3> QED BY <2>2, <3>1, <3>2, <3>3, SlotAssumption
  <2>4. ev[k].a # Pending /\ ev[k].b # Pending
    BY <2>3, HeldIs
  <2>5. ev[k].status # "ready"
    BY TreeFacts DEF ReadyKeys
  <2>6. IsOutcome(ev[k])
    BY TreeFacts
  <2> QED BY <2>4, <2>5, <2>6, SlotAssumption DEF IsOutcome, Known
<1>4. \A i \in 0 .. LastRound(c) : i # LastRound(c) /\ i \in S => i + 1 \in S
  BY <1>3
<1>5. 0 .. LastRound(c) \subseteq S
  <2> HIDE DEF S
  <2> QED BY <1>1, <1>2, <1>4, UpTo
<1> QED BY <1>1, <1>5

\* Every match of the main tree has somebody in it: nobody wins it only while it is open.
LEMMA MainIsPeopled ==
  ASSUME NEW c, IsConfig(c), NEW ev, NEW order, IsTree(c, ev, order), IsDraw(c, order)
  PROVE  \A r \in 1 .. Rounds(c) : \A i \in 0 .. Width(c, r) - 1 : ev[<<"M", r, i>>].winner # Nobody
<1> DEFINE Peopled(k) == ev[k].winner # Nobody
           S == {r \in 0 .. Rounds(c) :
                   r # 0 => \A i \in 0 .. Width(c, r) - 1 : Peopled(<<"M", r, i>>)}
<1>1. Rounds(c) \in Nat \ {0} /\ c.playinSide \in {0, 1}
  BY NumbersAre
<1>2. 0 \in S
  BY <1>1
<1>3. ASSUME NEW q \in 0 .. Rounds(c), q # Rounds(c), q \in S
      PROVE  q + 1 \in S
  <2>1. PICK r \in 1 .. Rounds(c) : r = q + 1
    BY <1>1, <1>3
  <2>2. r \in 0 .. Rounds(c) /\ Width(c, r) \in Nat
    BY <1>1, WidthIs
  <2> SUFFICES ASSUME NEW i \in 0 .. Width(c, r) - 1 PROVE Peopled(<<"M", r, i>>)
    BY <2>1, <2>2
  <2>3. <<"M", r, i>> \in Keys(c)
    BY KeysAre
  <2>4. ASSUME NEW x \in {0, 1}, Held(ev, <<"M", r, i>>, x) # Nobody
        PROVE  Peopled(<<"M", r, i>>)
    <3>1. IsOutcome(ev[<<"M", r, i>>])
      BY <2>3, TreeFacts
    <3>2. ev[<<"M", r, i>>].a # Nobody \/ ev[<<"M", r, i>>].b # Nobody
      BY <2>4, HeldIs
    <3> QED BY <3>1, <3>2, SlotAssumption DEF IsOutcome, Known
  <2>5. CASE r = 1
    <3>1. i \in 0 .. Half(c) - 1
      BY <2>5, WidthIs
    <3>2. Slot(c, <<"M", 1, i>>, 0) = Player(UpperPlace(c, i)) /\ UpperPlace(c, i) \in 1 .. c.n
      BY <3>1, FirstRoundSlots, PlacesAre
    <3>3. Held(ev, <<"M", 1, i>>, 0) = order[UpperPlace(c, i)]
      BY <2>3, <2>5, <3>2, TreeFacts
    <3>4. Held(ev, <<"M", r, i>>, 0) # Nobody
      BY <2>5, <3>2, <3>3 DEF IsDraw, Known
    <3> QED BY <2>4, <3>4
  <2>6. CASE r # 1
    <3>1. PICK s \in 2 .. Rounds(c) : s = r
      BY <1>1, <2>6
    <3>2. PICK x \in {0, 1} : x # c.playinSide
      BY <1>1
    <3>3. Width(c, s - 1) = 2 * Width(c, s) /\ i \in Nat /\ s - 1 = q /\ q # 0
      BY <2>1, <2>2, <3>1, WidthIs
    <3>4. Slot(c, <<"M", s, i>>, x) = WinnerOf(<<"M", s - 1, 2 * i + x>>)
      <4>1. Slot(c, <<"M", s, i>>, x) = IF c.lucky /\ <<"M", s, i>> = Target(c) /\ x = c.playinSide
                                        THEN WinnerOf(PlayinKey)
                                        ELSE WinnerOf(<<"M", s - 1, 2 * i + x>>)
        BY <3>3, MainSlots
      <4> QED BY <3>2, <4>1
    <3>5. Held(ev, <<"M", r, i>>, x) = ev[<<"M", s - 1, 2 * i + x>>].winner
      BY <2>3, <3>1, <3>4, TreeFacts
    <3>6. 2 * i + x \in 0 .. Width(c, q) - 1
      BY <2>2, <3>1, <3>3
    <3>7. Peopled(<<"M", q, 2 * i + x>>)
      BY <1>3, <3>3, <3>6
    <3> QED BY <2>4, <3>3, <3>5, <3>7
  <2> QED BY <2>5, <2>6
<1>4. \A q \in 0 .. Rounds(c) : q # Rounds(c) /\ q \in S => q + 1 \in S
  BY <1>3
<1>5. 0 .. Rounds(c) \subseteq S
  <2> HIDE DEF S
  <2> QED BY <1>1, <1>2, <1>4, UpTo
<1>6. \A r \in 1 .. Rounds(c) : r \in 0 .. Rounds(c) /\ r # 0
  BY <1>1
<1> QED BY <1>5, <1>6

LEMMA FinalIs ==
  ASSUME NEW c, IsConfig(c)
  PROVE  FinalKey(c) \in Keys(c) /\ FinalKey(c) = <<"M", Rounds(c), 0>>
         /\ Rounds(c) \in 1 .. Rounds(c) /\ 0 \in 0 .. Width(c, Rounds(c)) - 1
<1>1. Rounds(c) \in 1 .. Rounds(c) /\ 0 \in 0 .. Width(c, Rounds(c)) - 1
  BY SizesAre, WidthIs
<1> QED BY <1>1, KeysAre DEF FinalKey

\* A tree is decided, or has a pairing that can be played.
LEMMA TreeNeverStuck ==
  ASSUME NEW c, IsConfig(c), NEW ev, NEW order, IsTree(c, ev, order), IsDraw(c, order)
  PROVE  Complete(c, ev) \/ ReadyKeys(ev) # {}
<1> SUFFICES ASSUME ReadyKeys(ev) = {} PROVE Complete(c, ev)
  OBVIOUS
<1>1. \A k \in Keys(c) : ev[k].winner # Pending
  BY NothingPending
<1>2. FinalKey(c) \in Keys(c) /\ ev[FinalKey(c)].winner # Nobody
  BY FinalIs, MainIsPeopled
<1>3. DOMAIN ev = Keys(c)
  BY TreeFacts
<1> QED BY <1>1, <1>2, <1>3 DEF Complete, Memo, Known

-----------------------------------------------------------------------------
(* Everybody is at one place of the tree at a time *)

\* The places of the draw, and the outcomes of the pairings up to round i.
AvailableBy(c, i, s) ==
  \/ \E p \in 1 .. c.n : s = Player(p)
  \/ \E l \in Keys(c) : RoundOf(c, l) =< i /\ (s = WinnerOf(l) \/ s = LoserOf(l))

\* Where p stands after round i: what has not led into a pairing that is decided.
IsEnd(c, ev, order, i, p, s) ==
  /\ AvailableBy(c, i, s)
  /\ Value(ev, order, s) = p
  /\ \A k \in Keys(c) : \A x \in {0, 1} :
       RoundOf(c, k) =< i /\ Slot(c, k, x) = s => ev[k].status \in {"wait", "ready"}

\* What a player in a pairing has come from is where he stands, as long as the pairing is
\* not looked at or not decided.
LEMMA SlotIsEnd ==
  ASSUME NEW c, IsConfig(c), NEW ev, NEW order, IsTree(c, ev, order),
         NEW i \in Int, NEW k \in Keys(c), NEW x \in {0, 1},
         RoundOf(c, k) =< i + 1, RoundOf(c, k) > i \/ ev[k].status \in {"wait", "ready"},
         Known(Held(ev, k, x))
  PROVE  IsEnd(c, ev, order, i, Held(ev, k, x), Slot(c, k, x))
<1>1. \A l \in Keys(c) : RoundOf(c, l) \in Int
  BY RoundsOfKeys, LayoutIs
<1>2. Held(ev, k, x) = Value(ev, order, Slot(c, k, x))
  BY DEF IsTree
<1>3. Slot(c, k, x) # Bye
  <2>1. Slot(c, k, x) = Bye => Held(ev, k, x) = Nobody
    BY TreeFacts
  <2> QED BY <2>1 DEF Known
<1>4. AvailableBy(c, i, Slot(c, k, x))
  <2>1. \A l \in Keys(c) : RoundOf(c, l) < RoundOf(c, k) => RoundOf(c, l) =< i
    <3> TAKE l \in Keys(c)
    <3>1. RoundOf(c, l) \in Int /\ RoundOf(c, k) \in Int
      BY <1>1
    <3> QED BY <3>1
  <2>2. \/ \E q \in 1 .. c.n : Slot(c, k, x) = Player(q)
        \/ \E l \in Keys(c) : RoundOf(c, l) < RoundOf(c, k) /\ Slot(c, k, x) = WinnerOf(l)
        \/ \E l \in Keys(c) : RoundOf(c, l) < RoundOf(c, k) /\ Slot(c, k, x) = LoserOf(l)
    BY <1>3, WiringIs
  <2> QED BY <2>1, <2>2 DEF AvailableBy
<1>5. ASSUME NEW l \in Keys(c), NEW y \in {0, 1}, RoundOf(c, l) =< i, Slot(c, l, y) = Slot(c, k, x)
      PROVE  ev[l].status \in {"wait", "ready"}
  <2>1. l = k
    BY <1>3, <1>5, SlotsDiffer
  <2>2. RoundOf(c, k) \in Int
    BY <1>1
  <2> QED BY <1>5, <2>1, <2>2
<1> QED BY <1>2, <1>4, <1>5 DEF IsEnd

\* Whoever has come out of a pairing of round i + 1 stood before it after round i.
LEMMA StoodBefore ==
  ASSUME NEW c, IsConfig(c), NEW ev, NEW order, IsTree(c, ev, order),
         NEW i \in Int, NEW k \in Keys(c), RoundOf(c, k) = i + 1, NEW p, Known(p),
         p = ev[k].winner \/ p = ev[k].loser
  PROVE  /\ \E x \in {0, 1} : Held(ev, k, x) = p /\ IsEnd(c, ev, order, i, p, Slot(c, k, x))
         /\ ev[k].status \notin {"wait", "ready"}
         /\ p = ev[k].winner /\ p = ev[k].loser
              => \A x \in {0, 1} : IsEnd(c, ev, order, i, p, Slot(c, k, x))
<1>1. IsOutcome(ev[k])
  BY TreeFacts
<1>2. /\ ev[k].a = p \/ ev[k].b = p
      /\ ev[k].status \notin {"wait", "ready"}
      /\ p = ev[k].winner /\ p = ev[k].loser => ev[k].a = p /\ ev[k].b = p
  BY <1>1, SlotAssumption DEF IsOutcome, Known
<1>3. ASSUME NEW x \in {0, 1}, Held(ev, k, x) = p
      PROVE  IsEnd(c, ev, order, i, p, Slot(c, k, x))
  <2>1. RoundOf(c, k) =< i + 1 /\ RoundOf(c, k) > i
    OBVIOUS
  <2>2. Known(Held(ev, k, x))
    BY <1>3
  <2>3. IsEnd(c, ev, order, i, Held(ev, k, x), Slot(c, k, x))
    BY <2>1, <2>2, SlotIsEnd
  <2> QED BY <1>3, <2>3
<1>4. Held(ev, k, 0) = ev[k].a /\ Held(ev, k, 1) = ev[k].b
  BY HeldIs
<1>5. \E x \in {0, 1} : Held(ev, k, x) = p
  BY <1>2, <1>4
<1>6. p = ev[k].winner /\ p = ev[k].loser => \A x \in {0, 1} : Held(ev, k, x) = p
  BY <1>2, <1>4
<1> QED BY <1>2, <1>3, <1>5, <1>6

\* Nobody stands at two places.
LEMMA OneEnd ==
  ASSUME NEW c, IsConfig(c), NEW ev, NEW order, IsTree(c, ev, order), IsDraw(c, order)
  PROVE  \A i \in 0 .. LastRound(c) : \A p, s, t :
           Known(p) /\ IsEnd(c, ev, order, i, p, s) /\ IsEnd(c, ev, order, i, p, t) => s = t
<1> DEFINE E(i, p, s) == IsEnd(c, ev, order, i, p, s)
           Unique(i) == \A p, s, t : Known(p) /\ E(i, p, s) /\ E(i, p, t) => s = t
           S == {i \in 0 .. LastRound(c) : Unique(i)}
<1>1. LastRound(c) \in Nat /\ \A k \in Keys(c) : RoundOf(c, k) \in 1 .. LastRound(c)
  BY LayoutIs, RoundsOfKeys
<1>0. /\ \A p : Value(ev, order, Player(p)) = order[p]
      /\ \A l : Value(ev, order, WinnerOf(l)) = ev[l].winner
      /\ \A l : Value(ev, order, LoserOf(l)) = ev[l].loser
      /\ Value(ev, order, Bye) = Nobody
  BY ValueIs
<1>2. 0 \in S
  <2> SUFFICES ASSUME NEW p, NEW s, NEW t, Known(p), E(0, p, s), E(0, p, t)
               PROVE  s = t
    BY <1>1
  <2>1. ASSUME NEW u, E(0, p, u)
        PROVE  \E q \in 1 .. c.n : u = Player(q) /\ order[q] = p
    <3>1. \A l \in Keys(c) : ~(RoundOf(c, l) =< 0)
      <4> TAKE l \in Keys(c)
      <4>1. RoundOf(c, l) \in 1 .. LastRound(c)
        BY <1>1
      <4> QED BY <1>1, <4>1
    <3>2. PICK q \in 1 .. c.n : u = Player(q)
      BY <2>1, <3>1 DEF IsEnd, AvailableBy
    <3>3. Value(ev, order, Player(q)) = order[q]
      BY <1>0
    <3> QED BY <2>1, <3>2, <3>3 DEF IsEnd
  <2>2. PICK q \in 1 .. c.n : s = Player(q) /\ order[q] = p
    BY <2>1
  <2>3. PICK r \in 1 .. c.n : t = Player(r) /\ order[r] = p
    BY <2>1
  <2> QED BY <2>2, <2>3 DEF IsDraw
<1>3. ASSUME NEW i \in 0 .. LastRound(c), i # LastRound(c), i \in S
      PROVE  i + 1 \in S
  <2>1. i + 1 \in 0 .. LastRound(c) /\ i \in Int
    BY <1>1, <1>3
  <2> SUFFICES ASSUME NEW p, NEW s, NEW t, Known(p), E(i + 1, p, s), E(i + 1, p, t)
               PROVE  s = t
    BY <2>1
  <2>2. \A k \in Keys(c) : RoundOf(c, k) =< i + 1 <=> RoundOf(c, k) =< i \/ RoundOf(c, k) = i + 1
    <3> TAKE k \in Keys(c)
    <3>1. RoundOf(c, k) \in Int
      BY <1>1
    <3> QED BY <2>1, <3>1
  <2> DEFINE New(k, x, u) == /\ RoundOf(c, k) = i + 1
                             /\ u = WinnerOf(k) \/ u = LoserOf(k)
                             /\ E(i, p, Slot(c, k, x)) /\ Slot(c, k, x) # Bye
                             /\ ev[k].status \notin {"wait", "ready"}
                             /\ Value(ev, order, u) = p
  <2>3. ASSUME NEW u, E(i + 1, p, u)
        PROVE  E(i, p, u) \/ \E k \in Keys(c) : \E x \in {0, 1} : New(k, x, u)
    <3>1. CASE AvailableBy(c, i, u)
      BY <2>2, <2>3, <3>1 DEF IsEnd
    <3>2. CASE ~AvailableBy(c, i, u)
      <4>1. PICK k \in Keys(c) : RoundOf(c, k) = i + 1 /\ (u = WinnerOf(k) \/ u = LoserOf(k))
        BY <2>2, <2>3, <3>2 DEF IsEnd, AvailableBy
      <4>2. Value(ev, order, u) = p
        BY <2>3 DEF IsEnd
      <4>3. p = ev[k].winner \/ p = ev[k].loser
        BY <1>0, <4>1, <4>2
      <4>4. PICK x \in {0, 1} : Held(ev, k, x) = p /\ E(i, p, Slot(c, k, x))
        BY <2>1, <4>1, <4>3, StoodBefore
      <4>5. ev[k].status \notin {"wait", "ready"}
        BY <2>1, <4>1, <4>3, StoodBefore
      <4>6. Slot(c, k, x) # Bye
        <5>1. Slot(c, k, x) = Bye => Held(ev, k, x) = Nobody
          BY TreeFacts
        <5> QED BY <4>4, <5>1 DEF Known
      <4> QED BY <4>1, <4>2, <4>4, <4>5, <4>6
    <3> QED BY <3>1, <3>2
  <2>4. ASSUME NEW u, NEW v, E(i + 1, p, u), E(i, p, u), NEW k \in Keys(c), NEW x \in {0, 1}, New(k, x, v)
        PROVE  FALSE
    <3>1. u = Slot(c, k, x)
      BY <1>3, <2>4
    <3> QED BY <2>2, <2>4, <3>1 DEF IsEnd
  <2>5. ASSUME NEW k \in Keys(c), NEW x \in {0, 1}, New(k, x, s),
               NEW l \in Keys(c), NEW y \in {0, 1}, New(l, y, t)
        PROVE  s = t
    <3>1. Slot(c, k, x) = Slot(c, l, y)
      BY <1>3, <2>5
    <3>2. k = l
      BY <2>5, <3>1, SlotsDiffer
    <3>3. ASSUME s # t PROVE FALSE
      <4>1. p = ev[k].winner /\ p = ev[k].loser
        BY <1>0, <2>5, <3>2, <3>3
      <4>2. \A z \in {0, 1} : E(i, p, Slot(c, k, z))
        BY <2>1, <2>5, <4>1, StoodBefore
      <4>3. Slot(c, k, 0) = Slot(c, k, 1)
        BY <1>3, <4>2
      <4>4. Slot(c, k, 0) # Bye
        BY <2>5, <4>3
      <4> QED BY <4>3, <4>4, SlotsDiffer
    <3> QED BY <3>3
  <2>6. CASE E(i, p, s) /\ E(i, p, t)
    BY <1>3, <2>6
  <2> HIDE DEF E, New
  <2> QED BY <2>3, <2>4, <2>5, <2>6
<1>4. \A i \in 0 .. LastRound(c) : i # LastRound(c) /\ i \in S => i + 1 \in S
  BY <1>3
<1>5. 0 .. LastRound(c) \subseteq S
  <2> HIDE DEF S
  <2> QED BY <1>1, <1>2, <1>4, UpTo
<1> QED BY <1>5

\* Nobody is in two open places of the tree.
LEMMA OpenPlacesDiffer ==
  ASSUME NEW c, IsConfig(c), NEW ev, NEW order, IsTree(c, ev, order), IsDraw(c, order),
         NEW k \in Keys(c), NEW x \in {0, 1}, ev[k].status \in {"wait", "ready"}, Known(Held(ev, k, x)),
         NEW l \in Keys(c), NEW y \in {0, 1}, ev[l].status \in {"wait", "ready"},
         Held(ev, k, x) = Held(ev, l, y)
  PROVE  k = l /\ x = y
<1>1. LastRound(c) \in Nat /\ RoundOf(c, k) \in 1 .. LastRound(c) /\ RoundOf(c, l) \in 1 .. LastRound(c)
  BY LayoutIs, RoundsOfKeys
<1>2. LastRound(c) \in 0 .. LastRound(c) /\ LastRound(c) \in Int /\ RoundOf(c, k) =< LastRound(c) + 1 /\ RoundOf(c, l) =< LastRound(c) + 1
  BY <1>1
<1> DEFINE p == Held(ev, k, x)
<1>3. IsEnd(c, ev, order, LastRound(c), Held(ev, k, x), Slot(c, k, x))
  BY <1>2, SlotIsEnd
<1>4. IsEnd(c, ev, order, LastRound(c), Held(ev, l, y), Slot(c, l, y))
  BY <1>2, SlotIsEnd
<1>5. Slot(c, k, x) = Slot(c, l, y)
  BY <1>2, <1>3, <1>4, OneEnd
<1>6. Slot(c, k, x) # Bye
  <2>1. Slot(c, k, x) = Bye => Held(ev, k, x) = Nobody
    BY TreeFacts
  <2> QED BY <2>1 DEF Known
<1> QED BY <1>5, <1>6, SlotsDiffer

\* Nobody is wanted at two boards, nor in both places of one.
LEMMA TreeOnePlace ==
  ASSUME NEW c, IsConfig(c), NEW ev, NEW order, IsTree(c, ev, order), IsDraw(c, order)
  PROVE  \A k, l \in ReadyKeys(ev) :
           ev[k].a # ev[k].b /\ (k # l => {ev[k].a, ev[k].b} \cap {ev[l].a, ev[l].b} = {})
<1> SUFFICES ASSUME NEW k \in ReadyKeys(ev), NEW l \in ReadyKeys(ev)
             PROVE  ev[k].a # ev[k].b /\ (k # l => {ev[k].a, ev[k].b} \cap {ev[l].a, ev[l].b} = {})
  OBVIOUS
<1>1. /\ k \in Keys(c) /\ l \in Keys(c) /\ ev[k].status = "ready" /\ ev[l].status = "ready"
      /\ IsOutcome(ev[k])
  BY TreeFacts DEF ReadyKeys
<1>2. Known(ev[k].a) /\ Known(ev[k].b)
  BY <1>1 DEF IsOutcome
<1>3. ASSUME NEW m \in {k, l}, NEW x \in {0, 1}, NEW y \in {0, 1}, Held(ev, k, x) = Held(ev, m, y)
      PROVE  k = m /\ x = y
  <2>1. Known(Held(ev, k, x))
    BY <1>2, HeldIs
  <2>2. m \in Keys(c) /\ ev[m].status \in {"wait", "ready"} /\ ev[k].status \in {"wait", "ready"}
    BY <1>1
  <2> QED BY <1>1, <1>3, <2>1, <2>2, OpenPlacesDiffer
<1>4. /\ Held(ev, k, 0) = ev[k].a /\ Held(ev, k, 1) = ev[k].b
      /\ Held(ev, l, 0) = ev[l].a /\ Held(ev, l, 1) = ev[l].b
  BY HeldIs
<1>5. ev[k].a # ev[k].b
  BY <1>3, <1>4
<1>6. k # l => {ev[k].a, ev[k].b} \cap {ev[l].a, ev[l].b} = {}
  BY <1>3, <1>4
<1> QED BY <1>5, <1>6

-----------------------------------------------------------------------------
(* Who is out *)

\* Every drawn player stands somewhere.
LEMMA SomeEnd ==
  ASSUME NEW c, IsConfig(c), NEW ev, NEW order, IsTree(c, ev, order), IsDraw(c, order), NEW q \in 1 .. c.n
  PROVE  \A i \in 0 .. LastRound(c) : \E s : IsEnd(c, ev, order, i, order[q], s)
<1> DEFINE p == order[q]
           E(i, s) == IsEnd(c, ev, order, i, p, s)
           S == {i \in 0 .. LastRound(c) : \E s : E(i, s)}
<1>0. /\ \A r : Value(ev, order, Player(r)) = order[r]
      /\ \A l : Value(ev, order, WinnerOf(l)) = ev[l].winner
      /\ \A l : Value(ev, order, LoserOf(l)) = ev[l].loser
      /\ Value(ev, order, Bye) = Nobody
  BY ValueIs
<1>1. LastRound(c) \in Nat /\ \A k \in Keys(c) : RoundOf(c, k) \in 1 .. LastRound(c)
  BY LayoutIs, RoundsOfKeys
<1>2. 0 \in S
  <2>1. \A l \in Keys(c) : ~(RoundOf(c, l) =< 0)
    <3> TAKE l \in Keys(c)
    <3>1. RoundOf(c, l) \in 1 .. LastRound(c)
      BY <1>1
    <3> QED BY <1>1, <3>1
  <2>2. E(0, Player(q))
    BY <1>0, <2>1 DEF IsEnd, AvailableBy
  <2> QED BY <1>1, <2>2
<1>3. ASSUME NEW i \in 0 .. LastRound(c), i # LastRound(c), i \in S
      PROVE  i + 1 \in S
  <2>1. i + 1 \in 0 .. LastRound(c) /\ i \in Int
    BY <1>1, <1>3
  <2> SUFFICES \E s : E(i + 1, s)
    BY <2>1
  <2>2. \A k \in Keys(c) : RoundOf(c, k) =< i + 1 <=> RoundOf(c, k) =< i \/ RoundOf(c, k) = i + 1
    <3> TAKE k \in Keys(c)
    <3>1. RoundOf(c, k) \in Int
      BY <1>1
    <3> QED BY <2>1, <3>1
  <2>3. PICK s : E(i, s)
    BY <1>3
  <2>4. CASE \A k \in Keys(c) : \A x \in {0, 1} :
               RoundOf(c, k) = i + 1 /\ Slot(c, k, x) = s => ev[k].status \in {"wait", "ready"}
    <3>1. AvailableBy(c, i + 1, s)
      BY <2>2, <2>3 DEF IsEnd, AvailableBy
    <3>2. E(i + 1, s)
      BY <2>2, <2>3, <2>4, <3>1 DEF IsEnd
    <3> QED BY <3>2
  <2>5. ASSUME NEW k \in Keys(c), NEW x \in {0, 1}, RoundOf(c, k) = i + 1, Slot(c, k, x) = s,
               ev[k].status \notin {"wait", "ready"}
        PROVE  \E t : E(i + 1, t)
    <3>1. Held(ev, k, x) = p
      BY <2>3, <2>5 DEF IsEnd, IsTree
    <3>2. Known(p)
      BY DEF IsDraw
    <3>3. p = ev[k].winner \/ p = ev[k].loser
      <4>1. IsOutcome(ev[k])
        BY TreeFacts
      <4>2. p = ev[k].a \/ p = ev[k].b
        BY <3>1, HeldIs
      <4> QED BY <2>5, <3>2, <4>1, <4>2 DEF IsOutcome, Known
    <3>4. ASSUME NEW t, t = WinnerOf(k) \/ t = LoserOf(k), Value(ev, order, t) = p
          PROVE  E(i + 1, t)
      <4>1. AvailableBy(c, i + 1, t)
        BY <2>2, <2>5, <3>4 DEF AvailableBy
      <4>2. ASSUME NEW l \in Keys(c), NEW y \in {0, 1}, RoundOf(c, l) =< i + 1, Slot(c, l, y) = t
            PROVE  FALSE
        <5>1. RoundOf(c, k) < RoundOf(c, l)
          BY <3>4, <4>2, WiringIs, SourcesDiffer
        <5>2. RoundOf(c, l) \in Int
          BY <1>1
        <5> QED BY <2>1, <2>5, <4>2, <5>1, <5>2
      <4> QED BY <3>4, <4>1, <4>2 DEF IsEnd
    <3> QED BY <1>0, <3>3, <3>4
  <2> QED BY <2>4, <2>5
<1>4. \A i \in 0 .. LastRound(c) : i # LastRound(c) /\ i \in S => i + 1 \in S
  BY <1>3
<1>5. 0 .. LastRound(c) \subseteq S
  <2> HIDE DEF S
  <2> QED BY <1>1, <1>2, <1>4, UpTo
<1> QED BY <1>5

\* Outcomes after which nobody plays on.
IsExit(c, s) ==
  \/ s = WinnerOf(FinalKey(c))
  \/ ThirdKey \in Keys(c) /\ s = WinnerOf(ThirdKey)
  \/ \E l \in Keys(c) : ~PlaysOn(c, l) /\ s = LoserOf(l)

\* Nothing leads on from there.
LEMMA ExitsAreUnused ==
  ASSUME NEW c, IsConfig(c), NEW s, IsExit(c, s), NEW k \in Keys(c), NEW x \in {0, 1}
  PROVE  Slot(c, k, x) # s
<1>1. \/ \E p \in 1 .. c.n : Slot(c, k, x) = Player(p)
      \/ Slot(c, k, x) = Bye
      \/ \E l \in Keys(c) \ {FinalKey(c), ThirdKey} : Slot(c, k, x) = WinnerOf(l)
      \/ \E l \in Keys(c) : PlaysOn(c, l) /\ Slot(c, k, x) = LoserOf(l)
  BY WiringIs
<1> QED BY <1>1, SourcesDiffer DEF IsExit

\* Who stands at the end of the evaluation waits in a pairing, or is through.
LEMMA EndsAre ==
  ASSUME NEW c, IsConfig(c), NEW ev, NEW order, IsTree(c, ev, order),
         NEW p, NEW s, IsEnd(c, ev, order, LastRound(c), p, s)
  PROVE  \/ IsExit(c, s)
         \/ \E k \in Keys(c) : \E x \in {0, 1} :
              ev[k].status \in {"wait", "ready"} /\ Held(ev, k, x) = p
<1>1. LastRound(c) \in Nat /\ \A k \in Keys(c) : RoundOf(c, k) =< LastRound(c)
  <2>1. LastRound(c) \in Nat /\ \A k \in Keys(c) : RoundOf(c, k) \in 1 .. LastRound(c)
    BY LayoutIs, RoundsOfKeys
  <2> QED BY <2>1
<1>2. ASSUME NEW k \in Keys(c), NEW x \in {0, 1}, Slot(c, k, x) = s
      PROVE  ev[k].status \in {"wait", "ready"} /\ Held(ev, k, x) = p
  BY <1>1, <1>2 DEF IsEnd, IsTree
<1>3. CASE \E q \in 1 .. c.n : s = Player(q)
  BY <1>2, <1>3, PlacesUsed
<1>4. CASE \E l \in Keys(c) : s = WinnerOf(l)
  <2>1. PICK l \in Keys(c) : s = WinnerOf(l)
    BY <1>4
  <2>2. CASE l \in {FinalKey(c), ThirdKey}
    BY <2>1, <2>2 DEF IsExit
  <2>3. CASE l \notin {FinalKey(c), ThirdKey}
    <3>1. PICK k \in Keys(c) : \E x \in {0, 1} : TakesWinner(c, k, x, l)
      BY <2>3, WinnersUsed
    <3> QED BY <1>2, <2>1, <3>1 DEF TakesWinner
  <2> QED BY <2>2, <2>3
<1>5. CASE \E l \in Keys(c) : s = LoserOf(l)
  <2>1. PICK l \in Keys(c) : s = LoserOf(l)
    BY <1>5
  <2>2. CASE ~PlaysOn(c, l)
    BY <2>1, <2>2 DEF IsExit
  <2>3. CASE PlaysOn(c, l)
    <3>1. PICK k \in Keys(c) : \E x \in {0, 1} : TakesLoser(c, k, x, l)
      BY <2>3, LosersUsed
    <3> QED BY <1>2, <2>1, <3>1 DEF TakesLoser
  <2> QED BY <2>2, <2>3
<1> QED BY <1>3, <1>4, <1>5 DEF IsEnd, AvailableBy

\* Who is through is at the end, ...
LEMMA ExitsAreEnds ==
  ASSUME NEW c, IsConfig(c), NEW ev, NEW order, NEW s, IsExit(c, s)
  PROVE  IsEnd(c, ev, order, LastRound(c), Value(ev, order, s), s)
<1>1. LastRound(c) \in Nat /\ \A k \in Keys(c) : RoundOf(c, k) =< LastRound(c)
  <2>1. LastRound(c) \in Nat /\ \A k \in Keys(c) : RoundOf(c, k) \in 1 .. LastRound(c)
    BY LayoutIs, RoundsOfKeys
  <2> QED BY <2>1
<1>2. AvailableBy(c, LastRound(c), s)
  <2>1. FinalKey(c) \in Keys(c)
    BY FinalIs
  <2> QED BY <1>1, <2>1 DEF IsExit, AvailableBy
<1> QED BY <1>2, ExitsAreUnused DEF IsEnd

\* ... in one way only, and in no pairing that is open.
LEMMA OneExit ==
  ASSUME NEW c, IsConfig(c), NEW ev, NEW order, IsTree(c, ev, order), IsDraw(c, order),
         NEW s, IsExit(c, s), Known(Value(ev, order, s))
  PROVE  /\ \A t : IsExit(c, t) /\ Value(ev, order, t) = Value(ev, order, s) => t = s
         /\ \A k \in Keys(c) : \A x \in {0, 1} :
              ev[k].status \in {"wait", "ready"} => Held(ev, k, x) # Value(ev, order, s)
<1> DEFINE p == Value(ev, order, s)
<1>1. LastRound(c) \in Nat /\ \A k \in Keys(c) : RoundOf(c, k) \in 1 .. LastRound(c)
  BY LayoutIs, RoundsOfKeys
<1>2. LastRound(c) \in 0 .. LastRound(c) /\ LastRound(c) \in Int
  BY <1>1
<1>3. IsEnd(c, ev, order, LastRound(c), p, s)
  BY ExitsAreEnds
<1>4. ASSUME NEW t, IsExit(c, t), Value(ev, order, t) = p
      PROVE  t = s
  <2>1. IsEnd(c, ev, order, LastRound(c), Value(ev, order, t), t)
    BY <1>4, ExitsAreEnds
  <2> QED BY <1>2, <1>3, <1>4, <2>1, OneEnd
<1>5. ASSUME NEW k \in Keys(c), NEW x \in {0, 1}, ev[k].status \in {"wait", "ready"}, Held(ev, k, x) = p
      PROVE  FALSE
  <2>1. RoundOf(c, k) =< LastRound(c) + 1
    <3>1. RoundOf(c, k) \in 1 .. LastRound(c)
      BY <1>1
    <3> QED BY <1>1, <3>1
  <2>2. IsEnd(c, ev, order, LastRound(c), Held(ev, k, x), Slot(c, k, x))
    BY <1>2, <1>5, <2>1, SlotIsEnd
  <2>3. Slot(c, k, x) = s
    BY <1>2, <1>3, <1>5, <2>2, OneEnd
  <2> QED BY <2>3, ExitsAreUnused
<1> QED BY <1>4, <1>5

\* A tree with a winner, and a third, has nothing open.
LEMMA CompleteIsDecided ==
  ASSUME NEW c, IsConfig(c), NEW ev, NEW order, IsTree(c, ev, order), Complete(c, ev)
  PROVE  \A k \in Keys(c) : ev[k].status \notin {"wait", "ready"}
<1> DEFINE Decided(k) == ev[k].status \notin {"wait", "ready"}
           S == {i \in 0 .. LastRound(c) : \A k \in Keys(c) : RoundOf(c, k) > LastRound(c) - i => Decided(k)}
<1>1. LastRound(c) \in Nat /\ \A k \in Keys(c) : RoundOf(c, k) \in 1 .. LastRound(c)
  BY LayoutIs, RoundsOfKeys
<1>2. 0 \in S
  <2> SUFFICES ASSUME NEW k \in Keys(c), RoundOf(c, k) > LastRound(c) - 0 PROVE FALSE
    BY <1>1
  <2>1. RoundOf(c, k) \in 1 .. LastRound(c)
    BY <1>1
  <2> QED BY <1>1, <2>1
<1>3. ASSUME NEW i \in 0 .. LastRound(c), i # LastRound(c), i \in S
      PROVE  i + 1 \in S
  <2>1. i + 1 \in 0 .. LastRound(c) /\ i \in Int
    BY <1>1, <1>3
  <2> SUFFICES ASSUME NEW k \in Keys(c), RoundOf(c, k) > LastRound(c) - (i + 1), ~Decided(k) PROVE FALSE
    BY <2>1
  <2>2. IsOutcome(ev[k])
    BY TreeFacts
  <2>3. ev[k].winner = Pending
    BY <2>2 DEF IsOutcome
  <2>4. k \notin {FinalKey(c), ThirdKey}
    <3>1. FinalKey(c) \in Keys(c) /\ DOMAIN ev = Keys(c)
      BY FinalIs, TreeFacts
    <3> QED BY <2>3, <3>1 DEF Complete, Memo, Known
  <2>5. PICK l \in Keys(c) : \E x \in {0, 1} : TakesWinner(c, l, x, k)
    BY <2>4, WinnersUsed
  <2>6. PICK x \in {0, 1} : TakesWinner(c, l, x, k)
    BY <2>5
  <2>7. Held(ev, l, x) = Pending
    <3>1. Slot(c, l, x) = WinnerOf(k)
      BY <2>6 DEF TakesWinner
    <3>2. Held(ev, l, x) = ev[k].winner
      BY <3>1, TreeFacts
    <3> QED BY <2>3, <3>2
  <2>8. ~Decided(l)
    <3>1. IsOutcome(ev[l])
      BY TreeFacts
    <3>2. ev[l].a = Pending \/ ev[l].b = Pending
      BY <2>7, HeldIs
    <3> QED BY <3>1, <3>2, SlotAssumption DEF IsOutcome, Known
  <2>9. RoundOf(c, l) > LastRound(c) - i
    <3>1. RoundOf(c, k) \in Int /\ RoundOf(c, l) \in Int /\ RoundOf(c, k) < RoundOf(c, l)
      BY <1>1, <2>6 DEF TakesWinner
    <3> QED BY <1>1, <2>1, <3>1
  <2> QED BY <1>3, <2>8, <2>9
<1>4. \A i \in 0 .. LastRound(c) : i # LastRound(c) /\ i \in S => i + 1 \in S
  BY <1>3
<1>5. LastRound(c) \in S
  <2> HIDE DEF S
  <2>1. 0 .. LastRound(c) \subseteq S
    BY <1>1, <1>2, <1>4, UpTo
  <2>2. LastRound(c) \in 0 .. LastRound(c)
    BY <1>1
  <2> QED BY <2>1, <2>2
<1>6. \A k \in Keys(c) : RoundOf(c, k) > LastRound(c) - LastRound(c)
  <2> TAKE k \in Keys(c)
  <2>1. RoundOf(c, k) \in 1 .. LastRound(c)
    BY <1>1
  <2> QED BY <1>1, <2>1
<1> QED BY <1>5, <1>6

\* The latest defeat
Defeats(c, ev, p) ==
  {0} \cup {2 * k[2] : k \in {l \in LostAt(ev, p) : l[1] = "M"}}
      \cup (IF PlayinKey \in LostAt(ev, p) THEN {2 * Entry(c) - 1} ELSE {})

LEMMA NamesOfKeys ==
  ASSUME NEW c, IsConfig(c), NEW k \in Keys(c)
  PROVE  k[1] = "M" => k[2] \in 1 .. Rounds(c) /\ k[3] \in 0 .. Width(c, k[2]) - 1
<1> SUFFICES ASSUME k[1] = "M" PROVE k[2] \in 1 .. Rounds(c) /\ k[3] \in 0 .. Width(c, k[2]) - 1
  OBVIOUS
<1>1. PICK r \in 1 .. Rounds(c) : \E i \in 0 .. Width(c, r) - 1 : k = <<"M", r, i>>
  BY KeysAre DEF PlayinKey, ThirdKey
<1>2. PICK i \in 0 .. Width(c, r) - 1 : k = <<"M", r, i>>
  BY <1>1
<1> QED BY <1>2

LEMMA StageIs ==
  ASSUME NEW c, IsConfig(c), NEW ev, DOMAIN ev = Keys(c), NEW p
  PROVE  /\ Defeats(c, ev, p) \subseteq Nat
         /\ Stage(c, ev, p) \in Defeats(c, ev, p)
         /\ \A d \in Defeats(c, ev, p) : d =< Stage(c, ev, p)
<1> DEFINE S == Defeats(c, ev, p)
<1>1. Rounds(c) \in Nat \ {0} /\ (c.lucky => Entry(c) \in 2 .. Rounds(c))
  BY NumbersAre
<1>2. LostAt(ev, p) \subseteq Keys(c)
  BY DEF LostAt, UsedKeys
<1>3. S \subseteq 0 .. 2 * Rounds(c)
  <2>1. \A k \in LostAt(ev, p) : k[1] = "M" => 2 * k[2] \in 0 .. 2 * Rounds(c)
    <3> TAKE k \in LostAt(ev, p)
    <3> HAVE k[1] = "M"
    <3>1. k[2] \in 1 .. Rounds(c)
      BY <1>2, NamesOfKeys
    <3> QED BY <1>1, <3>1
  <2>2. PlayinKey \in LostAt(ev, p) => 2 * Entry(c) - 1 \in 0 .. 2 * Rounds(c)
    <3> HAVE PlayinKey \in LostAt(ev, p)
    <3>1. c.lucky
      BY <1>2, KeysAre
    <3> QED BY <1>1, <3>1
  <2>3. 0 \in 0 .. 2 * Rounds(c)
    BY <1>1
  <2> QED BY <2>1, <2>2, <2>3 DEF Defeats
<1>4. 0 \in S
  BY DEF Defeats
<1>5. \E s \in S : \A d \in S : s >= d
  <2>1. 2 * Rounds(c) \in Nat
    BY <1>1
  <2> HIDE DEF S
  <2> QED BY <1>3, <1>4, <2>1, Largest
<1>6. \E s \in S : \A d \in S : d =< s
  <2>1. \A d \in S : d \in Int
    BY <1>3
  <2> QED BY <1>5, <2>1
<1>7. Stage(c, ev, p) = CHOOSE s \in S : \A d \in S : d =< s
  BY DEF Stage, Defeats
<1> HIDE DEF S
<1>8. Stage(c, ev, p) \in S /\ \A d \in S : d =< Stage(c, ev, p)
  BY <1>6, <1>7
<1> QED BY <1>1, <1>3, <1>8 DEF S

\* A defeat is final when the tree has no other match for the loser.
LEMMA TerminalIs ==
  ASSUME NEW c, NEW ev, DOMAIN ev = Keys(c), NEW p
  PROVE  Terminal(c, ev, p) <=> \E l \in Keys(c) : ev[l].status = "done" /\ ev[l].loser = p /\ ~PlaysOn(c, l)
BY DEF Terminal, LostAt, UsedKeys, PlaysOn

\* A player is out when he has won the final, when the match for third place is played
\* and he was in it, when he has lost for good, or when all is decided and he has lost.
LEMMA OutIs ==
  ASSUME NEW c, NEW ev, DOMAIN ev = Keys(c), NEW p, Known(p)
  PROVE  Placement(c, ev, p).out <=>
           \/ ev[FinalKey(c)].winner = p
           \/ ThirdKey \in Keys(c) /\ ev[ThirdKey].status = "done"
                /\ (ev[ThirdKey].winner = p \/ ev[ThirdKey].loser = p)
           \/ Terminal(c, ev, p)
           \/ Stage(c, ev, p) > 0 /\ Complete(c, ev)
<1> DEFINE third == IF ThirdKey \in DOMAIN ev /\ ev[ThirdKey].status = "done"
                    THEN ev[ThirdKey] ELSE [winner |-> Nobody, loser |-> Nobody]
           late == Terminal(c, ev, p) \/ (Stage(c, ev, p) > 0 /\ Complete(c, ev))
<1>1. third.winner = p \/ third.loser = p <=>
        ThirdKey \in Keys(c) /\ ev[ThirdKey].status = "done"
          /\ (ev[ThirdKey].winner = p \/ ev[ThirdKey].loser = p)
  BY DEF Known
<1> DEFINE place(n) == [place |-> n, out |-> TRUE]
<1>2. Placement(c, ev, p) =
        IF ev[FinalKey(c)].winner = p THEN place(1)
        ELSE IF third.winner = p THEN place(3)
        ELSE IF third.loser = p THEN place(4)
        ELSE IF late
        THEN place(Width(c, IF Stage(c, ev, p) % 2 = 1 THEN Entry(c) - 1 ELSE Stage(c, ev, p) \div 2) + 1)
        ELSE [place |-> 0, out |-> FALSE]
  BY DEF Placement
<1>3. \A n : place(n).out = TRUE
  OBVIOUS
<1> HIDE DEF third, late, place
<1>4. Placement(c, ev, p).out <=> ev[FinalKey(c)].winner = p \/ third.winner = p \/ third.loser = p \/ late
  BY <1>2, <1>3
<1> QED BY <1>1, <1>4 DEF late

\* Who is out has no pairing left, and who is not has one, except the third without a match.
LEMMA TreeOutIsFinal ==
  ASSUME NEW c, IsConfig(c), NEW ev, NEW order, IsTree(c, ev, order), IsDraw(c, order), NEW q \in 1 .. c.n
  PROVE  LET p == order[q]
             third == IF ThirdKey \in DOMAIN ev /\ ev[ThirdKey].status = "walkover"
                      THEN ev[ThirdKey].winner ELSE Nobody
             open == UNION {{ev[k].a, ev[k].b} : k \in {l \in DOMAIN ev : ev[l].status \in {"ready", "wait"}}}
         IN Placement(c, ev, p).out <=> (p \notin open /\ (third = p => Complete(c, ev)))
<1> DEFINE p == order[q]
           third == IF ThirdKey \in DOMAIN ev /\ ev[ThirdKey].status = "walkover"
                    THEN ev[ThirdKey].winner ELSE Nobody
           open == UNION {{ev[k].a, ev[k].b} : k \in {l \in DOMAIN ev : ev[l].status \in {"ready", "wait"}}}
           v(s) == Value(ev, order, s)
<1>1. DOMAIN ev = Keys(c) /\ \A k \in Keys(c) : IsOutcome(ev[k])
  BY TreeFacts
<1>2. Known(p)
  BY DEF IsDraw
<1>3. /\ \A l : v(WinnerOf(l)) = ev[l].winner
      /\ \A l : v(LoserOf(l)) = ev[l].loser
  BY ValueIs
<1>4. p \in open <=> \E k \in Keys(c) : \E x \in {0, 1} :
                       ev[k].status \in {"wait", "ready"} /\ Held(ev, k, x) = p
  <2>1. p \in open <=> \E k \in Keys(c) : ev[k].status \in {"wait", "ready"} /\ (ev[k].a = p \/ ev[k].b = p)
    BY <1>1
  <2>2. \A k \in Keys(c) : ev[k].a = p \/ ev[k].b = p <=> \E x \in {0, 1} : Held(ev, k, x) = p
    BY HeldIs
  <2> HIDE DEF p, open
  <2> QED BY <2>1, <2>2
<1>5. Placement(c, ev, p).out <=>
        \/ ev[FinalKey(c)].winner = p
        \/ ThirdKey \in Keys(c) /\ ev[ThirdKey].status = "done"
             /\ (ev[ThirdKey].winner = p \/ ev[ThirdKey].loser = p)
        \/ \E l \in Keys(c) : ev[l].status = "done" /\ ev[l].loser = p /\ ~PlaysOn(c, l)
        \/ Stage(c, ev, p) > 0 /\ Complete(c, ev)
  BY <1>1, <1>2, OutIs, TerminalIs
<1>6. ~PlaysOn(c, ThirdKey) /\ FinalKey(c) # ThirdKey
  BY NamesDiffer DEF PlaysOn, ThirdKey
<1> HIDE DEF p, open, v
<1>7. ASSUME NEW s, IsExit(c, s), v(s) = p
      PROVE  p \notin open /\ \A t : IsExit(c, t) /\ v(t) = p => t = s
  BY <1>2, <1>4, <1>7, OneExit DEF v
<1>8. third = p => /\ ThirdKey \in Keys(c) /\ ev[ThirdKey].status = "walkover"
                   /\ IsExit(c, WinnerOf(ThirdKey)) /\ v(WinnerOf(ThirdKey)) = p
  BY <1>1, <1>2, <1>3 DEF Known, IsExit
<1> HIDE DEF third
<1>9. ASSUME NEW s, IsExit(c, s), v(s) = p, s # WinnerOf(ThirdKey)
      PROVE  p \notin open /\ (third = p => Complete(c, ev))
  BY <1>7, <1>8, <1>9
<1>10. ASSUME Placement(c, ev, p).out
       PROVE  p \notin open /\ (third = p => Complete(c, ev))
  <2>1. CASE ev[FinalKey(c)].winner = p
    <3>1. IsExit(c, WinnerOf(FinalKey(c))) /\ WinnerOf(FinalKey(c)) # WinnerOf(ThirdKey)
      BY <1>6, SourcesDiffer DEF IsExit
    <3> QED BY <1>3, <1>9, <2>1, <3>1
  <2>2. CASE ThirdKey \in Keys(c) /\ ev[ThirdKey].status = "done" /\ ev[ThirdKey].winner = p
    <3>1. IsExit(c, WinnerOf(ThirdKey)) /\ v(WinnerOf(ThirdKey)) = p
      BY <1>3, <2>2 DEF IsExit
    <3> QED BY <1>7, <1>8, <2>2, <3>1
  <2>3. ASSUME NEW l \in Keys(c), ev[l].loser = p, ~PlaysOn(c, l)
        PROVE  p \notin open /\ (third = p => Complete(c, ev))
    <3>1. IsExit(c, LoserOf(l)) /\ LoserOf(l) # WinnerOf(ThirdKey)
      BY <2>3, SourcesDiffer DEF IsExit
    <3> QED BY <1>3, <1>9, <2>3, <3>1
  <2>4. CASE Stage(c, ev, p) > 0 /\ Complete(c, ev)
    BY <1>4, <2>4, CompleteIsDecided
  <2> QED BY <1>5, <1>6, <1>10, <2>1, <2>2, <2>3, <2>4
<1>11. ASSUME p \notin open, third = p => Complete(c, ev)
       PROVE  Placement(c, ev, p).out
  <2>1. PICK s : IsEnd(c, ev, order, LastRound(c), p, s)
    <3>1. LastRound(c) \in 0 .. LastRound(c)
      BY LayoutIs
    <3> QED BY <3>1, SomeEnd DEF p
  <2>2. IsExit(c, s) /\ v(s) = p
    BY <1>4, <1>11, <2>1, EndsAre DEF IsEnd, v
  <2>3. CASE s = WinnerOf(FinalKey(c))
    BY <1>3, <1>5, <2>2, <2>3
  <2>4. CASE ThirdKey \in Keys(c) /\ s = WinnerOf(ThirdKey)
    <3>1. ev[ThirdKey].winner = p /\ IsOutcome(ev[ThirdKey])
      BY <1>1, <1>3, <2>2, <2>4
    <3>2. CASE ev[ThirdKey].status = "done"
      BY <1>5, <2>4, <3>1, <3>2
    <3>3. CASE ev[ThirdKey].status # "done"
      <4>1. ev[ThirdKey].status = "walkover" /\ (ev[ThirdKey].a = p \/ ev[ThirdKey].b = p)
        BY <1>2, <3>1, <3>3, SlotAssumption DEF IsOutcome, Known
      <4>2. Complete(c, ev)
        BY <1>1, <1>11, <2>4, <3>1, <4>1 DEF third
      <4>3. PICK x \in {0, 1} : Held(ev, ThirdKey, x) = p
        BY <4>1, HeldIs
      <4> DEFINE k == <<"M", Rounds(c) - 1, x>>
      <4>4. ev[k].loser = p
        <5>1. Slot(c, ThirdKey, x) = LoserOf(k)
          BY ThirdSlots
        <5>2. Held(ev, ThirdKey, x) = ev[k].loser
          BY <2>4, <5>1, TreeFacts
        <5> QED BY <4>3, <5>2
      <4>5. k \in Keys(c) /\ Rounds(c) \in Nat /\ Rounds(c) >= 2
        <5>1. Rounds(c) \in 2 .. Rounds(c) /\ Rounds(c) \in Nat
          BY <2>4, KeysAre, SizesAre
        <5>2. Width(c, Rounds(c) - 1) = 2
          BY <5>1, WidthIs
        <5>3. Rounds(c) - 1 \in 1 .. Rounds(c) /\ x \in 0 .. Width(c, Rounds(c) - 1) - 1
          BY <5>1, <5>2
        <5> QED BY <5>1, <5>3, KeysAre
      <4>6. k \in LostAt(ev, p) /\ k[1] = "M" /\ k[2] = Rounds(c) - 1
        <5> HIDE DEF k
        <5>1. IsOutcome(ev[k])
          BY <1>1, <4>5
        <5>2. ev[k].status = "done"
          BY <1>2, <4>4, <5>1, SlotAssumption DEF IsOutcome, Known
        <5>3. k[1] = "M" /\ k[2] = Rounds(c) - 1
          BY DEF k
        <5> QED BY <1>1, <4>4, <4>5, <5>2, <5>3 DEF LostAt, UsedKeys
      <4> HIDE DEF k
      <4>7. 2 * k[2] \in Defeats(c, ev, p)
        BY <4>6 DEF Defeats
      <4>8. Stage(c, ev, p) > 0
        <5>1. 2 * k[2] =< Stage(c, ev, p) /\ Stage(c, ev, p) \in Nat
          BY <1>1, <4>7, StageIs
        <5> QED BY <4>5, <4>6, <5>1
      <4> QED BY <1>5, <4>2, <4>8
    <3> QED BY <3>2, <3>3
  <2>5. ASSUME NEW l \in Keys(c), ~PlaysOn(c, l), s = LoserOf(l)
        PROVE  Placement(c, ev, p).out
    <3>1. ev[l].loser = p /\ IsOutcome(ev[l])
      BY <1>1, <1>3, <2>2, <2>5
    <3>2. ev[l].status = "done"
      BY <1>2, <3>1, SlotAssumption DEF IsOutcome, Known
    <3> QED BY <1>5, <2>5, <3>1, <3>2
  <2> QED BY <2>2, <2>3, <2>4, <2>5 DEF IsExit
<1> QED BY <1>10, <1>11 DEF p, open, third

-----------------------------------------------------------------------------
(* Who gets how far *)

\* A tree that is played to its end.
IsPlayed(c, ev, order) ==
  IsConfig(c) /\ IsTree(c, ev, order) /\ IsDraw(c, order) /\ Complete(c, ev)

Entrants(c, order) == {order[q] : q \in 1 .. c.n}

\* Everybody in main round r.
InRound(c, ev, r) ==
  {Held(ev, <<"M", r, t[1]>>, t[2]) : t \in (0 .. Width(c, r) - 1) \X {0, 1}}

LEMMA InRoundIs ==
  ASSUME NEW c, NEW ev, NEW r
  PROVE  \A q : q \in InRound(c, ev, r) <=>
           \E i \in 0 .. Width(c, r) - 1 : \E x \in {0, 1} : q = Held(ev, <<"M", r, i>>, x)
<1> SUFFICES ASSUME NEW q
             PROVE  q \in InRound(c, ev, r) <=>
                      \E i \in 0 .. Width(c, r) - 1 : \E x \in {0, 1} : q = Held(ev, <<"M", r, i>>, x)
  OBVIOUS
<1>1. ASSUME NEW t \in (0 .. Width(c, r) - 1) \X {0, 1}, q = Held(ev, <<"M", r, t[1]>>, t[2])
      PROVE  \E i \in 0 .. Width(c, r) - 1 : \E x \in {0, 1} : q = Held(ev, <<"M", r, i>>, x)
  <2>1. t[1] \in 0 .. Width(c, r) - 1 /\ t[2] \in {0, 1}
    OBVIOUS
  <2> QED BY <1>1, <2>1, Zenon
<1>2. ASSUME NEW i \in 0 .. Width(c, r) - 1, NEW x \in {0, 1}, q = Held(ev, <<"M", r, i>>, x)
      PROVE  q \in InRound(c, ev, r)
  <2>1. <<i, x>> \in (0 .. Width(c, r) - 1) \X {0, 1} /\ <<i, x>>[1] = i /\ <<i, x>>[2] = x
    OBVIOUS
  <2>2. q = Held(ev, <<"M", r, <<i, x>>[1]>>, <<i, x>>[2])
    BY <1>2, <2>1, Zenon
  <2> QED BY <2>1, <2>2, Zenon DEF InRound
<1> QED BY <1>1, <1>2, Zenon DEF InRound

\* Nobody comes into the tree but those who were drawn.
LEMMA OnlyDrawnPlay ==
  ASSUME NEW c, IsConfig(c), NEW ev, NEW order, IsTree(c, ev, order)
  PROVE  \A k \in Keys(c) : /\ \A x \in {0, 1} : Known(Held(ev, k, x)) => Held(ev, k, x) \in Entrants(c, order)
                            /\ Known(ev[k].winner) => ev[k].winner \in Entrants(c, order)
                            /\ Known(ev[k].loser) => ev[k].loser \in Entrants(c, order)
<1> DEFINE D == Entrants(c, order)
           Fine(k) == /\ \A x \in {0, 1} : Known(Held(ev, k, x)) => Held(ev, k, x) \in D
                      /\ Known(ev[k].winner) => ev[k].winner \in D
                      /\ Known(ev[k].loser) => ev[k].loser \in D
           S == {i \in 0 .. LastRound(c) : \A k \in Keys(c) : RoundOf(c, k) =< i => Fine(k)}
<1>1. LastRound(c) \in Nat /\ \A k \in Keys(c) : RoundOf(c, k) \in 1 .. LastRound(c)
  BY LayoutIs, RoundsOfKeys
<1>2. 0 \in S
  <2> SUFFICES ASSUME NEW k \in Keys(c), RoundOf(c, k) =< 0 PROVE FALSE
    BY <1>1
  <2>1. RoundOf(c, k) \in 1 .. LastRound(c)
    BY <1>1
  <2> QED BY <1>1, <2>1
<1>3. ASSUME NEW i \in 0 .. LastRound(c), i # LastRound(c), i \in S
      PROVE  i + 1 \in S
  <2>1. i + 1 \in 0 .. LastRound(c) /\ i \in Int
    BY <1>1, <1>3
  <2> SUFFICES ASSUME NEW k \in Keys(c), RoundOf(c, k) =< i + 1 PROVE Fine(k)
    BY <2>1
  <2>2. \A l \in Keys(c) : RoundOf(c, l) < RoundOf(c, k) => Fine(l)
    <3> TAKE l \in Keys(c)
    <3>1. RoundOf(c, l) \in Int /\ RoundOf(c, k) \in Int
      BY <1>1
    <3>2. RoundOf(c, l) < RoundOf(c, k) => RoundOf(c, l) =< i
      BY <2>1, <3>1
    <3> QED BY <1>3, <3>2
  <2>3. ASSUME NEW x \in {0, 1}, Known(Held(ev, k, x))
        PROVE  Held(ev, k, x) \in D
    <3>1. CASE \E q \in 1 .. c.n : Slot(c, k, x) = Player(q)
      BY <3>1, TreeFacts DEF Entrants
    <3>2. CASE Slot(c, k, x) = Bye
      <4>1. Held(ev, k, x) = Nobody
        BY <3>2, TreeFacts
      <4> QED BY <2>3, <4>1 DEF Known
    <3>3. CASE \E l \in Keys(c) : RoundOf(c, l) < RoundOf(c, k) /\ Slot(c, k, x) = WinnerOf(l)
      <4>1. PICK l \in Keys(c) : RoundOf(c, l) < RoundOf(c, k) /\ Slot(c, k, x) = WinnerOf(l)
        BY <3>3
      <4>2. Held(ev, k, x) = ev[l].winner
        BY <4>1, TreeFacts
      <4> QED BY <2>2, <2>3, <4>1, <4>2
    <3>4. CASE \E l \in Keys(c) : RoundOf(c, l) < RoundOf(c, k) /\ Slot(c, k, x) = LoserOf(l)
      <4>1. PICK l \in Keys(c) : RoundOf(c, l) < RoundOf(c, k) /\ Slot(c, k, x) = LoserOf(l)
        BY <3>4
      <4>2. Held(ev, k, x) = ev[l].loser
        BY <4>1, TreeFacts
      <4> QED BY <2>2, <2>3, <4>1, <4>2
    <3> QED BY <3>1, <3>2, <3>3, <3>4, WiringIs
  <2>4. IsOutcome(ev[k])
    BY TreeFacts
  <2>5. Held(ev, k, 0) = ev[k].a /\ Held(ev, k, 1) = ev[k].b
    BY HeldIs
  <2>6. (Known(ev[k].a) => ev[k].a \in D) /\ (Known(ev[k].b) => ev[k].b \in D)
    <3>1. (Known(Held(ev, k, 0)) => Held(ev, k, 0) \in D) /\ (Known(Held(ev, k, 1)) => Held(ev, k, 1) \in D)
      BY <2>3
    <3> QED BY <2>5, <3>1
  <2> HIDE DEF D
  <2>7. (Known(ev[k].winner) => ev[k].winner \in D) /\ (Known(ev[k].loser) => ev[k].loser \in D)
    BY <2>4, <2>6 DEF IsOutcome, Known
  <2> QED BY <2>3, <2>7
<1>4. \A i \in 0 .. LastRound(c) : i # LastRound(c) /\ i \in S => i + 1 \in S
  BY <1>3
<1>5. 0 .. LastRound(c) \subseteq S
  <2> HIDE DEF S
  <2> QED BY <1>1, <1>2, <1>4, UpTo
<1>6. \A k \in Keys(c) : LastRound(c) \in S /\ RoundOf(c, k) =< LastRound(c)
  <2> TAKE k \in Keys(c)
  <2>1. RoundOf(c, k) \in 1 .. LastRound(c) /\ LastRound(c) \in 0 .. LastRound(c)
    BY <1>1
  <2> QED BY <1>1, <1>5, <2>1
<1> QED BY <1>6

\* In a tree that is played, whoever was in a pairing has won or lost it.
LEMMA PlayedPairings ==
  ASSUME NEW c, NEW ev, NEW order, IsPlayed(c, ev, order)
  PROVE  \A k \in Keys(c) :
           /\ ev[k].winner # Pending
           /\ \A x \in {0, 1} : Known(Held(ev, k, x)) =>
                Held(ev, k, x) = ev[k].winner \/ (ev[k].status = "done" /\ Held(ev, k, x) = ev[k].loser)
           /\ Known(Held(ev, k, 0)) /\ Known(Held(ev, k, 1)) => ev[k].status = "done"
           /\ Known(Held(ev, k, 0)) \/ Known(Held(ev, k, 1)) => ev[k].winner # Nobody
<1> TAKE k \in Keys(c)
<1>1. IsOutcome(ev[k]) /\ ev[k].status \notin {"wait", "ready"}
  BY TreeFacts, CompleteIsDecided DEF IsPlayed
<1>2. Held(ev, k, 0) = ev[k].a /\ Held(ev, k, 1) = ev[k].b
  BY HeldIs
<1>3. /\ ev[k].winner # Pending
      /\ \A v \in {ev[k].a, ev[k].b} : Known(v) => v = ev[k].winner \/ (ev[k].status = "done" /\ v = ev[k].loser)
      /\ Known(ev[k].a) /\ Known(ev[k].b) => ev[k].status = "done"
      /\ Known(ev[k].a) \/ Known(ev[k].b) => ev[k].winner # Nobody
  BY <1>1, SlotAssumption DEF IsOutcome, Known
<1>4. \A x \in {0, 1} : Held(ev, k, x) \in {ev[k].a, ev[k].b}
  BY <1>2
<1> QED BY <1>2, <1>3, <1>4

\* Every match of a later main round, and the final, had two players.
LEMMA MainIsFull ==
  ASSUME NEW c, NEW ev, NEW order, IsPlayed(c, ev, order)
  PROVE  \A r \in 2 .. Rounds(c) : \A i \in 0 .. Width(c, r) - 1 : \A x \in {0, 1} :
           Known(Held(ev, <<"M", r, i>>, x))
<1> USE DEF IsPlayed
<1>0. Rounds(c) \in Nat \ {0} /\ (c.lucky => Entry(c) \in 2 .. Rounds(c)) /\ c.playinSide \in {0, 1}
  BY NumbersAre
<1>1. ASSUME NEW r \in 2 .. Rounds(c), NEW i \in 0 .. Width(c, r) - 1, NEW x \in {0, 1},
             TakesWinner(c, <<"M", r, i>>, x, <<"M", r - 1, 2 * i + x>>)
      PROVE  Known(Held(ev, <<"M", r, i>>, x))
  <2>1. <<"M", r, i>> \in Keys(c) /\ <<"M", r - 1, 2 * i + x>> \in Keys(c)
        /\ Slot(c, <<"M", r, i>>, x) = WinnerOf(<<"M", r - 1, 2 * i + x>>)
    <3>1. r \in 1 .. Rounds(c)
      BY <1>0
    <3> QED BY <1>1, <3>1, KeysAre DEF TakesWinner
  <2>2. r - 1 \in 1 .. Rounds(c) /\ 2 * i + x \in 0 .. Width(c, r - 1) - 1
    BY <2>1, KeysAre
  <2>3. ev[<<"M", r - 1, 2 * i + x>>].winner # Nobody
    BY <2>2, MainIsPeopled
  <2>4. ev[<<"M", r - 1, 2 * i + x>>].winner # Pending
    BY <2>1, PlayedPairings
  <2>5. Held(ev, <<"M", r, i>>, x) = ev[<<"M", r - 1, 2 * i + x>>].winner
    BY <2>1, TreeFacts
  <2> QED BY <2>3, <2>4, <2>5 DEF Known
<1>2. ASSUME NEW r \in 2 .. Rounds(c), NEW i \in 0 .. Width(c, r) - 1, NEW x \in {0, 1},
             TakesWinner(c, <<"M", r, i>>, x, PlayinKey)
      PROVE  Known(Held(ev, <<"M", r, i>>, x))
  <2>1. <<"M", r, i>> \in Keys(c) /\ PlayinKey \in Keys(c) /\ Slot(c, <<"M", r, i>>, x) = WinnerOf(PlayinKey)
    <3>1. r \in 1 .. Rounds(c)
      BY <1>0
    <3> QED BY <1>2, <3>1, KeysAre DEF TakesWinner
  <2>2. c.lucky
    BY <2>1, KeysAre
  <2> DEFINE l == <<"M", Entry(c) - 1, 2 * Target(c)[3] + c.playinSide>>
  <2>3. TakesWinner(c, PlayinKey, 1, l)
    BY <2>2, PlayinWiring
  <2>4. l \in Keys(c) /\ Slot(c, PlayinKey, 1) = WinnerOf(l)
    BY <2>3 DEF TakesWinner
  <2>5. Entry(c) - 1 \in 1 .. Rounds(c) /\ 2 * Target(c)[3] + c.playinSide \in 0 .. Width(c, Entry(c) - 1) - 1
    BY <2>4, KeysAre
  <2>6. ev[l].winner # Nobody
    BY <2>5, MainIsPeopled
  <2> HIDE DEF l
  <2>7. ev[l].winner # Pending
    BY <2>4, PlayedPairings
  <2>8. Held(ev, PlayinKey, 1) = ev[l].winner
    BY <2>1, <2>4, TreeFacts
  <2>9. Known(Held(ev, PlayinKey, 1))
    BY <2>6, <2>7, <2>8 DEF Known
  <2>10. ev[PlayinKey].winner # Nobody /\ ev[PlayinKey].winner # Pending
    BY <2>1, <2>9, PlayedPairings
  <2>11. Held(ev, <<"M", r, i>>, x) = ev[PlayinKey].winner
    BY <2>1, TreeFacts
  <2> QED BY <2>10, <2>11 DEF Known
<1> QED BY <1>1, <1>2, MainWiring

\* Nobody is twice in the same main round.
LEMMA RoundDiffers ==
  ASSUME NEW c, NEW ev, NEW order, IsPlayed(c, ev, order),
         NEW r \in 1 .. Rounds(c), NEW i \in 0 .. Width(c, r) - 1, NEW x \in {0, 1},
         NEW j \in 0 .. Width(c, r) - 1, NEW y \in {0, 1},
         Known(Held(ev, <<"M", r, i>>, x)), Held(ev, <<"M", r, i>>, x) = Held(ev, <<"M", r, j>>, y)
  PROVE  i = j /\ x = y
<1> USE DEF IsPlayed
<1>1. PICK k \in Keys(c) : k = <<"M", r, i>>
  BY KeysAre
<1>2. PICK l \in Keys(c) : l = <<"M", r, j>>
  BY KeysAre
<1>3. RoundOf(c, k) = RoundOf(c, l)
  BY <1>1, <1>2, RoundOfIs
<1>4. LastRound(c) \in Nat /\ RoundOf(c, k) \in 1 .. LastRound(c)
  BY LayoutIs, RoundsOfKeys
<1>5. PICK m \in 0 .. LastRound(c) : m + 1 = RoundOf(c, k)
  <2>1. RoundOf(c, k) - 1 \in 0 .. LastRound(c) /\ (RoundOf(c, k) - 1) + 1 = RoundOf(c, k)
    BY <1>4
  <2> QED BY <2>1
<1>6. m \in Int /\ RoundOf(c, k) =< m + 1 /\ RoundOf(c, k) > m /\ RoundOf(c, l) =< m + 1 /\ RoundOf(c, l) > m
  BY <1>3, <1>4, <1>5
<1>7. IsEnd(c, ev, order, m, Held(ev, k, x), Slot(c, k, x))
  BY <1>1, <1>6, SlotIsEnd
<1>8. IsEnd(c, ev, order, m, Held(ev, l, y), Slot(c, l, y))
  BY <1>1, <1>2, <1>6, SlotIsEnd
<1>9. Slot(c, k, x) = Slot(c, l, y)
  BY <1>1, <1>2, <1>7, <1>8, OneEnd
<1>10. Slot(c, k, x) # Bye
  <2>1. Slot(c, k, x) = Bye => Held(ev, k, x) = Nobody
    BY TreeFacts
  <2> QED BY <1>1, <2>1 DEF Known
<1>11. k = l /\ x = y
  BY <1>9, <1>10, SlotsDiffer
<1> QED BY <1>1, <1>2, <1>11

LEMMA Counting ==
  ASSUME NEW n \in Nat
  PROVE  IsFiniteSet(0 .. n - 1) /\ Cardinality(0 .. n - 1) = n
<1>1. PICK m \in Int : m = n - 1
  OBVIOUS
<1>2. 0 \in Int
  OBVIOUS
<1>3. IsFiniteSet(0 .. m) /\ Cardinality(0 .. m) = IF 0 > m THEN 0 ELSE m - 0 + 1
  BY <1>2, FS_Interval, Zenon
<1>4. (IF 0 > m THEN 0 ELSE m - 0 + 1) = n
  BY <1>1
<1> QED BY <1>1, <1>3, <1>4, Zenon

\* Main round r has twice as many players as matches, all of them drawn.
LEMMA RoundIsFull ==
  ASSUME NEW c, NEW ev, NEW order, IsPlayed(c, ev, order), NEW r \in 2 .. Rounds(c)
  PROVE  /\ InRound(c, ev, r) \subseteq Entrants(c, order)
         /\ \A q \in InRound(c, ev, r) : Known(q)
         /\ IsFiniteSet(InRound(c, ev, r)) /\ Cardinality(InRound(c, ev, r)) = Width(c, r - 1)
<1> USE DEF IsPlayed
<1> DEFINE T == (0 .. Width(c, r) - 1) \X {0, 1}
           f == [t \in T |-> Held(ev, <<"M", r, t[1]>>, t[2])]
<1>0. r \in 1 .. Rounds(c) /\ Rounds(c) \in Nat /\ Width(c, r) \in Nat /\ Width(c, r - 1) = 2 * Width(c, r)
  BY NumbersAre, WidthIs
<1>1. \A q \in InRound(c, ev, r) : Known(q) /\ q \in Entrants(c, order)
  <2> SUFFICES ASSUME NEW q \in InRound(c, ev, r) PROVE Known(q) /\ q \in Entrants(c, order)
    OBVIOUS
  <2>1. PICK i \in 0 .. Width(c, r) - 1 : \E x \in {0, 1} : q = Held(ev, <<"M", r, i>>, x)
    BY InRoundIs
  <2>2. PICK x \in {0, 1} : q = Held(ev, <<"M", r, i>>, x)
    BY <2>1
  <2>3. <<"M", r, i>> \in Keys(c)
    BY <1>0, KeysAre
  <2>4. Known(q)
    BY <2>2, MainIsFull
  <2> QED BY <2>2, <2>3, <2>4, OnlyDrawnPlay
<1>2. f \in Bijection(T, InRound(c, ev, r))
  <2>1. f \in [T -> InRound(c, ev, r)]
    BY DEF InRound
  <2>2. \A y \in InRound(c, ev, r) : \E t \in T : f[t] = y
    BY DEF InRound
  <2>3. \A t, u \in T : f[t] = f[u] => t = u
    <3> SUFFICES ASSUME NEW t \in T, NEW u \in T,
                        Held(ev, <<"M", r, t[1]>>, t[2]) = Held(ev, <<"M", r, u[1]>>, u[2])
                 PROVE  t = u
      OBVIOUS
    <3>1. PICK i \in 0 .. Width(c, r) - 1, x \in {0, 1} : t = <<i, x>>
      OBVIOUS
    <3>2. PICK j \in 0 .. Width(c, r) - 1, y \in {0, 1} : u = <<j, y>>
      OBVIOUS
    <3>3. Held(ev, <<"M", r, i>>, x) = Held(ev, <<"M", r, j>>, y)
      BY <3>1, <3>2
    <3>4. Known(Held(ev, <<"M", r, i>>, x))
      BY MainIsFull
    <3>5. i = j /\ x = y
      BY <1>0, <3>3, <3>4, RoundDiffers
    <3> QED BY <3>1, <3>2, <3>5
  <2> QED BY <2>1, <2>2, <2>3 DEF Bijection, Injection, Surjection, IsInjective
<1>3. IsFiniteSet(T) /\ Cardinality(T) = Width(c, r) * 2
  <2>1. PICK w \in Nat : w = Width(c, r)
    BY <1>0
  <2>2. IsFiniteSet(0 .. w - 1) /\ Cardinality(0 .. w - 1) = w
    BY Counting
  <2>3. IsFiniteSet({0, 1}) /\ Cardinality({0, 1}) = 2
    <3>1. IsFiniteSet(0 .. 2 - 1) /\ Cardinality(0 .. 2 - 1) = 2
      BY Counting
    <3>2. 0 .. 2 - 1 = {0, 1}
      OBVIOUS
    <3> QED BY <3>1, <3>2, Zenon
  <2>4. /\ IsFiniteSet((0 .. w - 1) \X {0, 1})
        /\ Cardinality((0 .. w - 1) \X {0, 1}) = Cardinality(0 .. w - 1) * Cardinality({0, 1})
    BY <2>2, <2>3, FS_Product
  <2> QED BY <2>1, <2>2, <2>3, <2>4, Zenon
<1> HIDE DEF f, T
<1>4. IsFiniteSet(InRound(c, ev, r)) /\ Cardinality(InRound(c, ev, r)) = Cardinality(T)
  BY <1>2, <1>3, FS_Bijection, Zenon DEF ExistsBijection
<1> QED BY <1>0, <1>1, <1>3, <1>4

\* The winner of a main match plays in the next round, or before it against the lucky loser.
LEMMA WinnersGo ==
  ASSUME NEW c, IsConfig(c), NEW r \in 1 .. Rounds(c), r # Rounds(c), NEW i \in 0 .. Width(c, r) - 1
  PROVE  \E k \in Keys(c) : \E x \in {0, 1} :
           /\ Slot(c, k, x) = WinnerOf(<<"M", r, i>>)
           /\ \/ \E j \in 0 .. Width(c, r + 1) - 1 : k = <<"M", r + 1, j>>
              \/ c.lucky /\ Entry(c) = r + 1 /\ k = PlayinKey
<1> DEFINE l == <<"M", r, i>>
<1>1. l \in Keys(c) /\ l \notin {FinalKey(c), ThirdKey}
  BY KeysAre, NamesDiffer
<1> DEFINE Next1(k) == \/ \E j \in 0 .. Width(c, r + 1) - 1 : k = <<"M", r + 1, j>>
                       \/ c.lucky /\ Entry(c) = r + 1 /\ k = PlayinKey
<1>2. PICK k \in Keys(c) : \E x \in {0, 1} : Slot(c, k, x) = WinnerOf(l)
  <2> HIDE DEF l
  <2> QED BY <1>1, WinnersUsed DEF TakesWinner
<1>3. PICK x \in {0, 1} : Slot(c, k, x) = WinnerOf(l)
  BY <1>2
<1>4. Rounds(c) \in Nat /\ (c.lucky => Entry(c) \in 2 .. Rounds(c)) /\ c.playinSide \in {0, 1}
  BY NumbersAre
<1>5. ASSUME NEW m, NEW s, NEW j, m = <<"M", s, j>>, WinnerOf(m) = WinnerOf(l)
      PROVE  s = r
  BY <1>5, SourcesDiffer
<1>6. CASE \E s \in 1 .. Rounds(c) : \E j \in 0 .. Width(c, s) - 1 : k = <<"M", s, j>>
  <2>1. PICK s \in 1 .. Rounds(c) : \E j \in 0 .. Width(c, s) - 1 : k = <<"M", s, j>>
    BY <1>6
  <2>2. PICK j \in 0 .. Width(c, s) - 1 : k = <<"M", s, j>>
    BY <2>1
  <2>3. s # 1
    <3> SUFFICES ASSUME s = 1 PROVE FALSE
      OBVIOUS
    <3>1. \/ \E p : Slot(c, k, x) = Player(p)
          \/ Slot(c, k, x) = Bye
      BY <2>2, FirstRoundSlots
    <3> QED BY <1>3, <3>1, SourcesDiffer
  <2>4. s \in 2 .. Rounds(c) /\ s - 1 + 1 = s
    BY <1>4, <2>3
  <2>5. Slot(c, k, x) = WinnerOf(PlayinKey) \/ Slot(c, k, x) = WinnerOf(<<"M", s - 1, 2 * j + x>>)
    <3>1. \/ TakesWinner(c, <<"M", s, j>>, x, PlayinKey)
          \/ TakesWinner(c, <<"M", s, j>>, x, <<"M", s - 1, 2 * j + x>>)
      BY <2>2, <2>4, MainWiring
    <3> QED BY <2>2, <3>1 DEF TakesWinner
  <2>6. WinnerOf(PlayinKey) # WinnerOf(l)
    BY NamesDiffer, SourcesDiffer
  <2>7. s - 1 = r
    BY <1>3, <1>5, <2>5, <2>6
  <2>8. r + 1 = s
    BY <2>4, <2>7
  <2> QED BY <1>3, <2>2, <2>8
<1>7. CASE \E s \in 1 .. LLRounds(c) : \E j \in 0 .. LLSize(c)[s] - 1 : k = <<"L", s, j>>
  <2>1. PICK s \in 1 .. LLRounds(c) : \E j \in 0 .. LLSize(c)[s] - 1 : k = <<"L", s, j>>
    BY <1>7
  <2>2. PICK j \in 0 .. LLSize(c)[s] - 1 : k = <<"L", s, j>>
    BY <2>1
  <2>3. j \in Int
    OBVIOUS
  <2>4. \/ \E m : Slot(c, k, x) = LoserOf(m)
        \/ \E m, n : Slot(c, k, x) = WinnerOf(<<"L", m, n>>)
    <3>1. Slot(c, <<"L", s, j>>, x) =
            IF s = 1 THEN LoserOf(<<"M", 1, 2 * j + x>>)
            ELSE IF JoiningRound(c, s) = 0 THEN WinnerOf(<<"L", s - 1, 2 * j + x>>)
            ELSE IF x = 0 THEN WinnerOf(<<"L", s - 1, j>>)
            ELSE LoserOf(<<"M", JoiningRound(c, s), Width(c, JoiningRound(c, s)) - 1 - j>>)
      BY <2>3, LLSlots
    <3> QED BY <2>2, <3>1, Zenon
  <2>5. ASSUME NEW m, NEW n PROVE WinnerOf(<<"L", m, n>>) # WinnerOf(l) /\ LoserOf(m) # WinnerOf(l)
    <3>1. <<"L", m, n>> # l
      OBVIOUS
    <3> HIDE DEF l
    <3> QED BY <3>1, SourcesDiffer
  <2> QED BY <1>3, <2>4, <2>5
<1>8. CASE c.lucky /\ k = PlayinKey
  <2>1. Slot(c, PlayinKey, 0) = WinnerOf(<<"L", LLRounds(c), 0>>)
        /\ Slot(c, PlayinKey, 1) = WinnerOf(<<"M", Entry(c) - 1, 2 * Target(c)[3] + c.playinSide>>)
    BY <1>8, PlayinSlots
  <2>2. x = 1
    <3>1. <<"L", LLRounds(c), 0>> # l
      OBVIOUS
    <3>2. WinnerOf(<<"L", LLRounds(c), 0>>) # WinnerOf(l)
      BY <3>1, SourcesDiffer
    <3> QED BY <1>3, <1>8, <2>1, <3>2
  <2>3. Entry(c) - 1 = r
    BY <1>3, <1>5, <1>8, <2>1, <2>2
  <2>4. Entry(c) = r + 1
    BY <1>4, <1>8, <2>3
  <2> QED BY <1>3, <1>8, <2>4
<1>9. CASE k = ThirdKey
  <2>1. Slot(c, ThirdKey, x) = LoserOf(<<"M", Rounds(c) - 1, x>>)
    BY ThirdSlots
  <2>2. LoserOf(<<"M", Rounds(c) - 1, x>>) # WinnerOf(l)
    <3> HIDE DEF l
    <3> QED BY SourcesDiffer
  <2> QED BY <1>3, <1>9, <2>1, <2>2
<1> QED BY <1>6, <1>7, <1>8, <1>9, KeysAre

LEMMA DefeatsCount ==
  ASSUME NEW c, IsConfig(c), NEW ev, DOMAIN ev = Keys(c), NEW k \in Keys(c), ev[k].status = "done"
  PROVE  /\ \A r, i : k = <<"M", r, i>> => Stage(c, ev, ev[k].loser) >= 2 * r
         /\ k = PlayinKey => Stage(c, ev, ev[k].loser) >= 2 * Entry(c) - 1
<1> DEFINE p == ev[k].loser
<1>1. k \in LostAt(ev, p)
  BY DEF LostAt, UsedKeys
<1> HIDE DEF p
<1>2. Defeats(c, ev, p) \subseteq Nat /\ \A d \in Defeats(c, ev, p) : d =< Stage(c, ev, p)
  BY StageIs
<1>3. Stage(c, ev, p) \in Nat
  BY <1>2, StageIs
<1>4. ASSUME NEW r, NEW i, k = <<"M", r, i>>
      PROVE  Stage(c, ev, p) >= 2 * r
  <2>1. 2 * k[2] \in Defeats(c, ev, p) /\ k[2] = r
    BY <1>1, <1>4 DEF Defeats
  <2>2. 2 * r \in Defeats(c, ev, p)
    BY <2>1, Zenon
  <2>3. 2 * r \in Nat /\ 2 * r =< Stage(c, ev, p)
    BY <1>2, <2>2, Zenon
  <2>4. \A x, y \in Nat : x =< y => y >= x
    OBVIOUS
  <2> QED BY <1>3, <2>3, <2>4, Zenon
<1>5. ASSUME k = PlayinKey
      PROVE  Stage(c, ev, p) >= 2 * Entry(c) - 1
  <2>1. 2 * Entry(c) - 1 \in Defeats(c, ev, p)
    BY <1>1, <1>5 DEF Defeats
  <2>2. 2 * Entry(c) - 1 \in Nat /\ 2 * Entry(c) - 1 =< Stage(c, ev, p)
    BY <1>2, <2>1, Zenon
  <2>3. \A x, y \in Nat : x =< y => y >= x
    OBVIOUS
  <2> QED BY <1>3, <2>2, <2>3, Zenon
<1> QED BY <1>4, <1>5 DEF p

\* Whoever reaches main round s wins the tournament, or is beaten in that round or later.
LEMMA LateDefeat ==
  ASSUME NEW c, NEW ev, NEW order, IsPlayed(c, ev, order)
  PROVE  \A s \in 1 .. Rounds(c) : \A q \in InRound(c, ev, s) :
           Known(q) => ev[FinalKey(c)].winner = q \/ Stage(c, ev, q) >= 2 * s
<1> USE DEF IsPlayed
<1> DEFINE Late(s, q) == ev[FinalKey(c)].winner = q \/ Stage(c, ev, q) >= 2 * s
           P(s) == \A q \in InRound(c, ev, s) : Known(q) => Late(s, q)
           S == {m \in 0 .. Rounds(c) - 1 : P(Rounds(c) - m)}
<1>0. Rounds(c) \in Nat \ {0} /\ (c.lucky => Entry(c) \in 2 .. Rounds(c)) /\ c.playinSide \in {0, 1}
  BY NumbersAre
<1>1. DOMAIN ev = Keys(c) /\ \A q : Stage(c, ev, q) \in Nat
  <2>1. DOMAIN ev = Keys(c)
    BY TreeFacts
  <2> QED BY <2>1, StageIs
<1>2. ASSUME NEW s \in 1 .. Rounds(c), NEW q \in InRound(c, ev, s), Known(q), ~Late(s, q)
      PROVE  \E i \in 0 .. Width(c, s) - 1 : q = ev[<<"M", s, i>>].winner
  <2>1. PICK i \in 0 .. Width(c, s) - 1 : \E x \in {0, 1} : q = Held(ev, <<"M", s, i>>, x)
    BY InRoundIs
  <2>2. PICK x \in {0, 1} : q = Held(ev, <<"M", s, i>>, x)
    BY <2>1
  <2>3. PICK k \in Keys(c) : k = <<"M", s, i>>
    BY KeysAre
  <2>4. ev[k].winner = q \/ (ev[k].status = "done" /\ ev[k].loser = q)
    BY <1>2, <2>2, <2>3, PlayedPairings
  <2>5. CASE ev[k].status = "done" /\ ev[k].loser = q
    <3>1. Stage(c, ev, ev[k].loser) >= 2 * s
      BY <1>1, <2>3, <2>5, DefeatsCount
    <3> QED BY <1>2, <2>5, <3>1
  <2> QED BY <2>3, <2>4, <2>5
<1>3. P(Rounds(c))
  <2> SUFFICES ASSUME NEW q \in InRound(c, ev, Rounds(c)), Known(q), ~Late(Rounds(c), q) PROVE FALSE
    OBVIOUS
  <2>1. Rounds(c) \in 1 .. Rounds(c) /\ FinalKey(c) = <<"M", Rounds(c), 0>>
    BY FinalIs
  <2>2. PICK i \in 0 .. Width(c, Rounds(c)) - 1 : q = ev[<<"M", Rounds(c), i>>].winner
    BY <1>2, <2>1
  <2>3. i = 0
    BY WidthIs
  <2> QED BY <2>1, <2>2, <2>3
<1>4. ASSUME NEW s \in 1 .. Rounds(c), s # Rounds(c), P(s + 1)
      PROVE  P(s)
  <2> SUFFICES ASSUME NEW q \in InRound(c, ev, s), Known(q), ~Late(s, q) PROVE FALSE
    OBVIOUS
  <2>1. PICK i \in 0 .. Width(c, s) - 1 : q = ev[<<"M", s, i>>].winner
    BY <1>2
  <2>2. s + 1 \in 2 .. Rounds(c) /\ s + 1 \in 1 .. Rounds(c) /\ s \in Nat
    BY <1>0, <1>4
  <2>3. ASSUME NEW k, NEW x \in {0, 1}, NEW j \in 0 .. Width(c, s + 1) - 1, k = <<"M", s + 1, j>>,
               Held(ev, k, x) = q
        PROVE  FALSE
    <3>1. q \in InRound(c, ev, s + 1)
      BY <2>3, InRoundIs
    <3>2. Late(s + 1, q)
      BY <1>4, <3>1
    <3>3. Stage(c, ev, q) \in Nat
      BY <1>1
    <3> QED BY <2>2, <3>2, <3>3
  <2>4. PICK k \in Keys(c) : \E x \in {0, 1} :
           /\ Slot(c, k, x) = WinnerOf(<<"M", s, i>>)
           /\ \/ \E j \in 0 .. Width(c, s + 1) - 1 : k = <<"M", s + 1, j>>
              \/ c.lucky /\ Entry(c) = s + 1 /\ k = PlayinKey
    BY <1>4, WinnersGo
  <2>5. PICK x \in {0, 1} :
           /\ Slot(c, k, x) = WinnerOf(<<"M", s, i>>)
           /\ \/ \E j \in 0 .. Width(c, s + 1) - 1 : k = <<"M", s + 1, j>>
              \/ c.lucky /\ Entry(c) = s + 1 /\ k = PlayinKey
    BY <2>4
  <2>6. Held(ev, k, x) = q
    BY <2>1, <2>5, TreeFacts
  <2>7. c.lucky /\ Entry(c) = s + 1 /\ k = PlayinKey
    BY <2>3, <2>5, <2>6
  <2>8. ev[k].winner = q \/ (ev[k].status = "done" /\ ev[k].loser = q)
    BY <2>6, PlayedPairings
  <2>9. CASE ev[k].winner = q
    <3>1. PICK m \in Keys(c) : m = Target(c)
      BY <2>7, TargetIs
    <3>2. PICK j \in 0 .. Width(c, s + 1) - 1 : m = <<"M", s + 1, j>>
      BY <2>7, <3>1, TargetIs
    <3>3. j \in Nat
      OBVIOUS
    <3>4. Slot(c, <<"M", s + 1, j>>, c.playinSide) = WinnerOf(PlayinKey)
      <4>1. PICK u \in 2 .. Rounds(c), y \in {0, 1} : u = s + 1 /\ y = c.playinSide
        BY <1>0, <2>2
      <4>2. Slot(c, <<"M", u, j>>, y) = IF c.lucky /\ <<"M", u, j>> = Target(c) /\ y = c.playinSide
                                        THEN WinnerOf(PlayinKey)
                                        ELSE WinnerOf(<<"M", u - 1, 2 * j + y>>)
        BY <3>3, MainSlots
      <4>3. <<"M", u, j>> = Target(c)
        BY <3>1, <3>2, <4>1
      <4> QED BY <2>7, <4>1, <4>2, <4>3
    <3>5. Held(ev, m, c.playinSide) = ev[PlayinKey].winner
      BY <1>0, <3>2, <3>4, TreeFacts
    <3> QED BY <1>0, <2>3, <2>7, <2>9, <3>2, <3>5
  <2>10. CASE ev[k].status = "done" /\ ev[k].loser = q
    <3>1. Stage(c, ev, ev[k].loser) >= 2 * Entry(c) - 1
      BY <1>1, <2>7, <2>10, DefeatsCount
    <3>2. Stage(c, ev, q) \in Nat
      BY <1>1
    <3>3. Stage(c, ev, q) >= 2 * s
      BY <2>2, <2>7, <2>10, <3>1, <3>2
    <3> QED BY <3>3
  <2> QED BY <2>8, <2>9, <2>10
<1>5. 0 \in S
  <2>1. 0 \in 0 .. Rounds(c) - 1 /\ Rounds(c) - 0 = Rounds(c)
    BY <1>0
  <2> QED BY <1>3, <2>1
<1>6. \A m \in 0 .. Rounds(c) - 1 : m # Rounds(c) - 1 /\ m \in S => m + 1 \in S
  <2> SUFFICES ASSUME NEW m \in 0 .. Rounds(c) - 1, m # Rounds(c) - 1, P(Rounds(c) - m)
               PROVE  m + 1 \in 0 .. Rounds(c) - 1 /\ P(Rounds(c) - (m + 1))
    OBVIOUS
  <2>1. m + 1 \in 0 .. Rounds(c) - 1
    BY <1>0
  <2>2. PICK s \in 1 .. Rounds(c) : s = Rounds(c) - (m + 1)
    BY <1>0
  <2>3. s # Rounds(c) /\ s + 1 = Rounds(c) - m
    BY <1>0, <2>2
  <2> HIDE DEF P
  <2>4. P(s + 1)
    BY <2>3
  <2> QED BY <1>4, <2>1, <2>2, <2>3, <2>4
<1>7. 0 .. Rounds(c) - 1 \subseteq S
  <2>1. Rounds(c) - 1 \in Nat
    BY <1>0
  <2> HIDE DEF S
  <2> QED BY <1>5, <1>6, <2>1, UpTo
<1>8. ASSUME NEW s \in 1 .. Rounds(c)
      PROVE  P(s)
  <2>1. PICK m \in 0 .. Rounds(c) - 1 : s = Rounds(c) - m
    <3>1. Rounds(c) - s \in 0 .. Rounds(c) - 1 /\ s = Rounds(c) - (Rounds(c) - s)
      BY <1>0
    <3> QED BY <3>1
  <2>2. m \in S
    BY <1>7
  <2> HIDE DEF P
  <2>3. P(Rounds(c) - m)
    BY <2>2
  <2> QED BY <2>1, <2>3
<1> QED BY <1>8

\* The defeat that counts is one in the tree or in the play-in.
LEMMA WhereBeaten ==
  ASSUME NEW c, IsConfig(c), NEW ev, DOMAIN ev = Keys(c), NEW p, Stage(c, ev, p) > 0
  PROVE  \/ \E r \in 1 .. Rounds(c) : \E i \in 0 .. Width(c, r) - 1 :
              /\ <<"M", r, i>> \in Keys(c) /\ ev[<<"M", r, i>>].status = "done"
              /\ ev[<<"M", r, i>>].loser = p /\ Stage(c, ev, p) = 2 * r
         \/ c.lucky /\ ev[PlayinKey].status = "done" /\ ev[PlayinKey].loser = p
              /\ Stage(c, ev, p) = 2 * Entry(c) - 1
<1>1. Stage(c, ev, p) \in Defeats(c, ev, p) /\ Stage(c, ev, p) # 0
  <2>1. Stage(c, ev, p) \in Defeats(c, ev, p)
    BY StageIs
  <2> QED BY <2>1
<1>2. CASE \E k \in LostAt(ev, p) : k[1] = "M" /\ Stage(c, ev, p) = 2 * k[2]
  <2>1. PICK k \in LostAt(ev, p) : k[1] = "M" /\ Stage(c, ev, p) = 2 * k[2]
    BY <1>2
  <2>2. k \in Keys(c) /\ ev[k].status = "done" /\ ev[k].loser = p
    BY DEF LostAt, UsedKeys
  <2>3. k[2] \in 1 .. Rounds(c) /\ k[3] \in 0 .. Width(c, k[2]) - 1
    BY <2>1, <2>2, NamesOfKeys
  <2>4. k = <<"M", k[2], k[3]>>
    <3>1. PICK r \in 1 .. Rounds(c) : \E i \in 0 .. Width(c, r) - 1 : k = <<"M", r, i>>
      BY <2>1, <2>2, KeysAre DEF PlayinKey, ThirdKey
    <3> QED BY <3>1
  <2> QED BY <2>1, <2>2, <2>3, <2>4
<1>3. CASE PlayinKey \in LostAt(ev, p) /\ Stage(c, ev, p) = 2 * Entry(c) - 1
  <2>1. PlayinKey \in Keys(c) /\ ev[PlayinKey].status = "done" /\ ev[PlayinKey].loser = p
    BY <1>3 DEF LostAt, UsedKeys
  <2>2. c.lucky
    BY <2>1, KeysAre
  <2> QED BY <1>3, <2>1, <2>2
<1>4. \/ \E k \in LostAt(ev, p) : k[1] = "M" /\ Stage(c, ev, p) = 2 * k[2]
      \/ PlayinKey \in LostAt(ev, p) /\ Stage(c, ev, p) = 2 * Entry(c) - 1
  BY <1>1, Zenon DEF Defeats
<1> QED BY <1>2, <1>3, <1>4

\* The main round by which p is placed: that of his latest defeat, or the one before the play-in.
Level(c, ev, p) == Stage(c, ev, p) \div 2

LEMMA LevelIs ==
  ASSUME NEW c, IsConfig(c), NEW ev, DOMAIN ev = Keys(c), NEW p, Stage(c, ev, p) > 0
  PROVE  /\ Level(c, ev, p) \in 1 .. Rounds(c)
         /\ Level(c, ev, p) = IF Stage(c, ev, p) % 2 = 1 THEN Entry(c) - 1 ELSE Stage(c, ev, p) \div 2
         /\ \A s \in Nat : Stage(c, ev, p) >= 2 * s => Level(c, ev, p) >= s
<1>1. Rounds(c) \in Nat \ {0} /\ (c.lucky => Entry(c) \in 2 .. Rounds(c))
  BY NumbersAre
<1>2. PICK st \in Nat : st = Stage(c, ev, p)
  BY StageIs
<1>3. Level(c, ev, p) = st \div 2
  BY <1>2 DEF Level
<1>4. \A s \in Nat : st >= 2 * s => st \div 2 >= s
  OBVIOUS
<1>5. CASE \E r \in 1 .. Rounds(c) : st = 2 * r
  <2>1. PICK r \in 1 .. Rounds(c) : st = 2 * r
    BY <1>5
  <2>2. st \div 2 = r /\ st % 2 # 1
    BY <2>1
  <2> QED BY <1>2, <1>3, <1>4, <2>2
<1>6. CASE c.lucky /\ st = 2 * Entry(c) - 1
  <2>1. PICK e \in 2 .. Rounds(c) : e = Entry(c)
    BY <1>1, <1>6
  <2>2. st = 2 * e - 1
    BY <1>6, <2>1
  <2>3. st \div 2 = e - 1 /\ st % 2 = 1 /\ e - 1 \in 1 .. Rounds(c)
    BY <1>1, <2>2
  <2> QED BY <1>2, <1>3, <1>4, <2>1, <2>3
<1> QED BY <1>2, <1>5, <1>6, WhereBeaten

\* The later the round, the fewer its matches.
LEMMA WidthsFall ==
  ASSUME NEW c, IsConfig(c), NEW r \in 1 .. Rounds(c), NEW s \in r .. Rounds(c)
  PROVE  Width(c, s) =< Width(c, r) /\ (s # r => 2 * Width(c, s) =< Width(c, r))
<1>1. Rounds(c) \in Nat
  BY NumbersAre
<1>2. /\ \A q \in 0 .. Rounds(c) : Width(c, q) = Doubled[Rounds(c) - q]
      /\ \A q \in 1 .. Rounds(c) : Width(c, q) \in Nat \ {0}
      /\ \A q \in 2 .. Rounds(c) : Width(c, q - 1) = 2 * Width(c, q)
  BY WidthIs
<1>3. ASSUME NEW q \in r .. Rounds(c)
      PROVE  Width(c, q) =< Width(c, r)
  <2>1. Rounds(c) - r \in Nat /\ Rounds(c) - q \in 0 .. Rounds(c) - r /\ q \in 0 .. Rounds(c) /\ r \in 0 .. Rounds(c)
    BY <1>1
  <2>2. Doubled[Rounds(c) - q] =< Doubled[Rounds(c) - r]
    BY <2>1, DoubledGrows
  <2> QED BY <1>2, <2>1, <2>2
<1>4. s # r => 2 * Width(c, s) =< Width(c, r)
  <2> HAVE s # r
  <2>1. s \in 2 .. Rounds(c)
    BY <1>1
  <2>2. PICK q \in r .. Rounds(c) : q = s - 1
    BY <1>1
  <2>3. Width(c, q) = 2 * Width(c, s)
    BY <1>2, <2>1, <2>2
  <2>4. Width(c, q) =< Width(c, r)
    BY <1>3
  <2> QED BY <2>3, <2>4
<1> QED BY <1>3, <1>4

\* Whether the match for third place was played.
ThirdPlayed(c, ev) == ThirdKey \in Keys(c) /\ ev[ThirdKey].status = "done"

Place(c, ev, p) == Placement(c, ev, p).place

\* Where everybody is placed in the end.
LEMMA PlaceIs ==
  ASSUME NEW c, NEW ev, NEW order, IsPlayed(c, ev, order)
  PROVE  \A p \in Entrants(c, order) :
           /\ Known(p)
           /\ ev[FinalKey(c)].winner = p => Place(c, ev, p) = 1
           /\ ev[FinalKey(c)].winner # p =>
                /\ Level(c, ev, p) \in 1 .. Rounds(c) /\ Stage(c, ev, p) > 0
                /\ ThirdPlayed(c, ev) /\ ev[ThirdKey].winner = p => Place(c, ev, p) = 3
                /\ ThirdPlayed(c, ev) /\ ev[ThirdKey].winner # p /\ ev[ThirdKey].loser = p => Place(c, ev, p) = 4
                /\ ~(ThirdPlayed(c, ev) /\ (ev[ThirdKey].winner = p \/ ev[ThirdKey].loser = p)) =>
                     Place(c, ev, p) = Width(c, Level(c, ev, p)) + 1
<1> USE DEF IsPlayed
<1> SUFFICES ASSUME NEW p \in Entrants(c, order)
             PROVE  /\ Known(p)
                    /\ ev[FinalKey(c)].winner = p => Place(c, ev, p) = 1
                    /\ ev[FinalKey(c)].winner # p =>
                         /\ Level(c, ev, p) \in 1 .. Rounds(c) /\ Stage(c, ev, p) > 0
                         /\ ThirdPlayed(c, ev) /\ ev[ThirdKey].winner = p => Place(c, ev, p) = 3
                         /\ ThirdPlayed(c, ev) /\ ev[ThirdKey].winner # p /\ ev[ThirdKey].loser = p => Place(c, ev, p) = 4
                         /\ ~(ThirdPlayed(c, ev) /\ (ev[ThirdKey].winner = p \/ ev[ThirdKey].loser = p)) =>
                              Place(c, ev, p) = Width(c, Level(c, ev, p)) + 1
  OBVIOUS
<1>1. PICK q \in 1 .. c.n : p = order[q]
  BY DEF Entrants
<1>2. Known(p) /\ DOMAIN ev = Keys(c) /\ Rounds(c) \in Nat \ {0} /\ c.n \in Nat
  BY <1>1, TreeFacts, NumbersAre, SizesAre DEF IsDraw
<1> DEFINE third == IF ThirdKey \in DOMAIN ev /\ ev[ThirdKey].status = "done"
                    THEN ev[ThirdKey] ELSE [winner |-> Nobody, loser |-> Nobody]
           late == Terminal(c, ev, p) \/ (Stage(c, ev, p) > 0 /\ Complete(c, ev))
           place(n) == [place |-> n, out |-> TRUE]
<1>3. Placement(c, ev, p) =
        IF ev[FinalKey(c)].winner = p THEN place(1)
        ELSE IF third.winner = p THEN place(3)
        ELSE IF third.loser = p THEN place(4)
        ELSE IF late
        THEN place(Width(c, IF Stage(c, ev, p) % 2 = 1 THEN Entry(c) - 1 ELSE Stage(c, ev, p) \div 2) + 1)
        ELSE [place |-> 0, out |-> FALSE]
  BY DEF Placement
<1>4. \A n : place(n).place = n
  OBVIOUS
<1>5. /\ third.winner = p <=> ThirdPlayed(c, ev) /\ ev[ThirdKey].winner = p
      /\ third.loser = p <=> ThirdPlayed(c, ev) /\ ev[ThirdKey].loser = p
  BY <1>2 DEF Known, ThirdPlayed
<1>6. ev[FinalKey(c)].winner # p => Stage(c, ev, p) > 0
  <2> HAVE ev[FinalKey(c)].winner # p
  <2>1. PICK k \in Keys(c) : \E x \in {0, 1} : Slot(c, k, x) = Player(q)
    BY PlacesUsed
  <2>2. PICK x \in {0, 1} : Slot(c, k, x) = Player(q)
    BY <2>1
  <2>3. PICK i \in 0 .. Half(c) - 1 : k = <<"M", 1, i>>
    <3>1. ~\E l : TakesWinner(c, k, x, l) \/ TakesLoser(c, k, x, l)
      BY <2>2, SourcesDiffer DEF TakesWinner, TakesLoser
    <3>2. TakesPlace(c, k, x)
      BY <3>1, Wiring
    <3> QED BY <3>2 DEF TakesPlace
  <2>4. Held(ev, k, x) = p
    BY <1>1, <2>2, TreeFacts
  <2>5. i \in 0 .. Width(c, 1) - 1 /\ 1 \in 1 .. Rounds(c)
    BY <1>2, WidthIs
  <2>6. p \in InRound(c, ev, 1)
    BY <2>3, <2>4, <2>5, InRoundIs
  <2>7. Stage(c, ev, p) >= 2 * 1 /\ Stage(c, ev, p) \in Nat
    BY <1>2, <2>5, <2>6, LateDefeat, StageIs
  <2> QED BY <2>7
<1> HIDE DEF third, place
<1>7. ASSUME ev[FinalKey(c)].winner # p, third.winner # p, third.loser # p
      PROVE  Place(c, ev, p) = Width(c, Level(c, ev, p)) + 1
  <2>1. Level(c, ev, p) = IF Stage(c, ev, p) % 2 = 1 THEN Entry(c) - 1 ELSE Stage(c, ev, p) \div 2
    BY <1>2, <1>6, <1>7, LevelIs
  <2>2. Placement(c, ev, p) = place(Width(c, Level(c, ev, p)) + 1)
    BY <1>3, <1>6, <1>7, <2>1
  <2> QED BY <1>4, <2>2 DEF Place
<1>8. ev[FinalKey(c)].winner # p => Level(c, ev, p) \in 1 .. Rounds(c)
  BY <1>2, <1>6, LevelIs
<1>9. ev[FinalKey(c)].winner = p => Place(c, ev, p) = 1
  BY <1>3, <1>4 DEF Place
<1>10. ev[FinalKey(c)].winner # p /\ third.winner = p => Place(c, ev, p) = 3
  BY <1>3, <1>4 DEF Place
<1>11. ev[FinalKey(c)].winner # p /\ third.winner # p /\ third.loser = p => Place(c, ev, p) = 4
  BY <1>3, <1>4 DEF Place
<1> HIDE DEF late
<1> QED BY <1>2, <1>5, <1>6, <1>7, <1>8, <1>9, <1>10, <1>11

\* Who is in the final is not in the match for third place.
LEMMA FinalistsAreNotThird ==
  ASSUME NEW c, NEW ev, NEW order, IsPlayed(c, ev, order), NEW p, Known(p),
         p = ev[FinalKey(c)].winner \/ p = ev[FinalKey(c)].loser, ThirdPlayed(c, ev)
  PROVE  ev[ThirdKey].winner # p /\ ev[ThirdKey].loser # p
<1> USE DEF IsPlayed
<1>1. /\ Value(ev, order, WinnerOf(FinalKey(c))) = ev[FinalKey(c)].winner
      /\ Value(ev, order, LoserOf(FinalKey(c))) = ev[FinalKey(c)].loser
      /\ Value(ev, order, WinnerOf(ThirdKey)) = ev[ThirdKey].winner
      /\ Value(ev, order, LoserOf(ThirdKey)) = ev[ThirdKey].loser
  <2>1. \A l : Value(ev, order, WinnerOf(l)) = ev[l].winner
    BY DEF Value, WinnerOf
  <2>2. \A l : Value(ev, order, LoserOf(l)) = ev[l].loser
    BY DEF Value, LoserOf
  <2> QED BY <2>1, <2>2, Zenon
<1>2. FinalKey(c) \in Keys(c) /\ FinalKey(c) = <<"M", Rounds(c), 0>> /\ Rounds(c) \in Nat \ {0}
      /\ ThirdKey \in Keys(c) /\ ThirdKey # FinalKey(c)
  BY FinalIs, NumbersAre, NamesDiffer DEF ThirdPlayed
<1>3. ~PlaysOn(c, FinalKey(c)) /\ ~PlaysOn(c, ThirdKey)
  <2>1. ThirdKey[1] = "T"
    BY DEF ThirdKey
  <2>2. FinalKey(c)[2] = Rounds(c)
    BY <1>2
  <2>3. c.lucky => Entry(c) \in 2 .. Rounds(c)
    BY NumbersAre
  <2> QED BY <1>2, <2>1, <2>2, <2>3 DEF PlaysOn
<1>4. /\ IsExit(c, WinnerOf(FinalKey(c))) /\ IsExit(c, LoserOf(FinalKey(c)))
      /\ IsExit(c, WinnerOf(ThirdKey)) /\ IsExit(c, LoserOf(ThirdKey))
  BY <1>2, <1>3 DEF IsExit
<1>5. PICK s \in {WinnerOf(FinalKey(c)), LoserOf(FinalKey(c))} : Value(ev, order, s) = p
  BY <1>1
<1>6. IsExit(c, s)
  BY <1>4
<1>7. ASSUME NEW t \in {WinnerOf(ThirdKey), LoserOf(ThirdKey)}, Value(ev, order, t) = p
      PROVE  FALSE
  <2>1. IsExit(c, t)
    BY <1>4
  <2>2. t = s
    BY <1>5, <1>6, <1>7, <2>1, OneExit
  <2>3. WinnerOf(FinalKey(c)) # WinnerOf(ThirdKey) /\ WinnerOf(FinalKey(c)) # LoserOf(ThirdKey)
        /\ LoserOf(FinalKey(c)) # WinnerOf(ThirdKey) /\ LoserOf(FinalKey(c)) # LoserOf(ThirdKey)
    BY <1>2, SourcesDiffer
  <2> QED BY <2>2, <2>3
<1> QED BY <1>1, <1>7

LEMMA SomePlace ==
  ASSUME NEW c, NEW ev, NEW order, IsPlayed(c, ev, order)
  PROVE  \A p \in Entrants(c, order) : Place(c, ev, p) \in Nat \ {0} /\ (Place(c, ev, p) = 1 <=> ev[FinalKey(c)].winner = p)
<1> SUFFICES ASSUME NEW p \in Entrants(c, order)
             PROVE  Place(c, ev, p) \in Nat \ {0} /\ (Place(c, ev, p) = 1 <=> ev[FinalKey(c)].winner = p)
  OBVIOUS
<1>1. CASE ev[FinalKey(c)].winner = p
  BY <1>1, PlaceIs
<1>2. CASE ev[FinalKey(c)].winner # p
  <2>1. Level(c, ev, p) \in 1 .. Rounds(c)
    BY <1>2, PlaceIs
  <2>2. Width(c, Level(c, ev, p)) \in Nat \ {0}
    BY <2>1, WidthIs DEF IsPlayed
  <2>3. Place(c, ev, p) \in {3, 4, Width(c, Level(c, ev, p)) + 1}
    BY <1>2, PlaceIs
  <2> QED BY <1>2, <2>2, <2>3
<1> QED BY <1>1, <1>2

\* Whoever reaches main round r + 1 is placed among as many as play in it.
LEMMA PlaceReached ==
  ASSUME NEW c, NEW ev, NEW order, IsPlayed(c, ev, order), NEW r \in 1 .. Rounds(c), r # Rounds(c),
         NEW q \in InRound(c, ev, r + 1)
  PROVE  q \in Entrants(c, order) /\ Place(c, ev, q) =< Width(c, r)
<1> USE DEF IsPlayed
<1>0. Rounds(c) \in Nat \ {0} /\ r \in Nat /\ r + 1 \in 1 .. Rounds(c) /\ r + 1 \in 2 .. Rounds(c)
  BY NumbersAre
<1>1. q \in Entrants(c, order) /\ Known(q)
  BY <1>0, RoundIsFull
<1>2. Width(c, r) \in Nat /\ Width(c, r + 1) \in Nat \ {0} /\ Width(c, r) = 2 * Width(c, r + 1)
  <2>1. PICK s \in 2 .. Rounds(c) : s = r + 1
    BY <1>0
  <2>2. Width(c, s - 1) = 2 * Width(c, s) /\ s - 1 = r
    BY <1>0, <2>1, WidthIs
  <2> QED BY <1>0, <2>1, <2>2, WidthIs
<1>3. CASE ev[FinalKey(c)].winner = q
  <2>1. Place(c, ev, q) = 1
    BY <1>1, <1>3, PlaceIs
  <2> QED BY <1>1, <1>2, <2>1
<1>4. CASE ev[FinalKey(c)].winner # q
  <2> DEFINE v == Level(c, ev, q)
  <2>1. v \in 1 .. Rounds(c) /\ Stage(c, ev, q) > 0
    BY <1>1, <1>4, PlaceIs
  <2>2. v >= r + 1
    <3>1. Stage(c, ev, q) >= 2 * (r + 1)
      BY <1>0, <1>1, <1>4, LateDefeat
    <3>2. DOMAIN ev = Keys(c) /\ r + 1 \in Nat
      BY <1>0, TreeFacts
    <3>3. \A s \in Nat : Stage(c, ev, q) >= 2 * s => Level(c, ev, q) >= s
      BY <2>1, <3>2, LevelIs
    <3> QED BY <3>1, <3>2, <3>3
  <2>3. CASE ~(ThirdPlayed(c, ev) /\ (ev[ThirdKey].winner = q \/ ev[ThirdKey].loser = q))
    <3>1. Place(c, ev, q) = Width(c, v) + 1
      BY <1>1, <1>4, <2>3, PlaceIs
    <3> HIDE DEF v
    <3>2. PICK u \in r + 1 .. Rounds(c) : u = v
      BY <1>0, <2>1, <2>2
    <3>3. PICK s \in 1 .. Rounds(c) : s = r + 1
      BY <1>0
    <3>4. u \in s .. Rounds(c)
      BY <3>2, <3>3
    <3>5. Width(c, u) =< Width(c, s) /\ Width(c, u) \in Nat
      <4>1. u \in 1 .. Rounds(c)
        BY <2>1, <3>2
      <4> QED BY <3>4, <4>1, WidthsFall, WidthIs
    <3> QED BY <1>1, <1>2, <3>1, <3>2, <3>3, <3>5
  <2>4. CASE ThirdPlayed(c, ev) /\ (ev[ThirdKey].winner = q \/ ev[ThirdKey].loser = q)
    <3>1. Place(c, ev, q) \in {3, 4}
      BY <1>1, <1>4, <2>4, PlaceIs
    <3>2. r + 1 # Rounds(c)
      <4> SUFFICES ASSUME r + 1 = Rounds(c) PROVE FALSE
        OBVIOUS
      <4>1. PICK i \in 0 .. Width(c, Rounds(c)) - 1 : \E x \in {0, 1} : q = Held(ev, <<"M", Rounds(c), i>>, x)
        BY InRoundIs
      <4>2. PICK x \in {0, 1} : q = Held(ev, <<"M", Rounds(c), i>>, x)
        BY <4>1
      <4>3. i = 0 /\ FinalKey(c) \in Keys(c) /\ FinalKey(c) = <<"M", Rounds(c), 0>>
        BY WidthIs, FinalIs
      <4>4. ev[FinalKey(c)].loser = q
        BY <1>1, <1>4, <4>2, <4>3, PlayedPairings
      <4> QED BY <1>1, <2>4, <4>4, FinalistsAreNotThird
    <3>3. Width(c, r) >= 4
      <4>1. PICK s \in 2 .. Rounds(c) : s = r + 2
        BY <1>0, <3>2
      <4>2. Width(c, s - 1) = 2 * Width(c, s) /\ s - 1 = r + 1 /\ s \in 1 .. Rounds(c)
        BY <1>0, <4>1, WidthIs
      <4>3. Width(c, s) \in Nat \ {0}
        BY <4>2, WidthIs
      <4> QED BY <1>2, <4>2, <4>3
    <3> QED BY <1>1, <1>2, <3>1, <3>3
  <2> QED BY <2>3, <2>4
<1> QED BY <1>3, <1>4

\* Without a lucky loser, whoever reaches a main round was in every one before it.
LEMMA EarlierRounds ==
  ASSUME NEW c, NEW ev, NEW order, IsPlayed(c, ev, order), ~c.lucky, NEW r \in 1 .. Rounds(c)
  PROVE  \A s \in r .. Rounds(c) : InRound(c, ev, s) \subseteq InRound(c, ev, r)
<1> USE DEF IsPlayed
<1>0. Rounds(c) \in Nat \ {0} /\ r \in Nat
  BY NumbersAre
<1>1. ASSUME NEW u \in 2 .. Rounds(c), NEW q \in InRound(c, ev, u)
      PROVE  q \in InRound(c, ev, u - 1)
  <2>1. PICK i \in 0 .. Width(c, u) - 1 : \E x \in {0, 1} : q = Held(ev, <<"M", u, i>>, x)
    BY InRoundIs
  <2>2. PICK x \in {0, 1} : q = Held(ev, <<"M", u, i>>, x)
    BY <2>1
  <2>3. TakesWinner(c, <<"M", u, i>>, x, <<"M", u - 1, 2 * i + x>>)
    <3>1. ~TakesWinner(c, <<"M", u, i>>, x, PlayinKey)
      BY KeysAre DEF TakesWinner
    <3> QED BY <3>1, MainWiring
  <2>4. <<"M", u - 1, 2 * i + x>> \in Keys(c)
        /\ Slot(c, <<"M", u, i>>, x) = WinnerOf(<<"M", u - 1, 2 * i + x>>)
    BY <2>3 DEF TakesWinner
  <2>5. <<"M", u, i>> \in Keys(c) /\ 2 * i + x \in 0 .. Width(c, u - 1) - 1
    <3>1. u \in 1 .. Rounds(c)
      BY <1>0
    <3> QED BY <2>4, <3>1, KeysAre
  <2>6. PICK l \in Keys(c) : l = <<"M", u - 1, 2 * i + x>>
    BY <2>4
  <2>7. Held(ev, <<"M", u, i>>, x) = ev[l].winner
    BY <2>4, <2>5, <2>6, TreeFacts
  <2>8. Known(ev[l].winner) /\ ev[l].winner = q
    BY <2>2, <2>7, MainIsFull
  <2>9. IsOutcome(ev[l]) /\ Held(ev, l, 0) = ev[l].a /\ Held(ev, l, 1) = ev[l].b
    BY TreeFacts, HeldIs
  <2>10. q = Held(ev, l, 0) \/ q = Held(ev, l, 1)
    BY <2>8, <2>9 DEF IsOutcome, Known
  <2> QED BY <2>5, <2>6, <2>10, InRoundIs
<1> DEFINE S == {m \in 0 .. Rounds(c) - r : InRound(c, ev, r + m) \subseteq InRound(c, ev, r)}
<1>2. 0 \in S
  <2>1. r + 0 = r /\ 0 \in 0 .. Rounds(c) - r
    BY <1>0
  <2> QED BY <2>1
<1>3. \A m \in 0 .. Rounds(c) - r : m # Rounds(c) - r /\ m \in S => m + 1 \in S
  <2> SUFFICES ASSUME NEW m \in 0 .. Rounds(c) - r, m # Rounds(c) - r,
                      InRound(c, ev, r + m) \subseteq InRound(c, ev, r)
               PROVE  m + 1 \in 0 .. Rounds(c) - r /\ InRound(c, ev, r + (m + 1)) \subseteq InRound(c, ev, r)
    OBVIOUS
  <2>1. m + 1 \in 0 .. Rounds(c) - r
    BY <1>0
  <2>2. PICK u \in 2 .. Rounds(c) : u = r + (m + 1)
    BY <1>0, <2>1
  <2>3. u - 1 = r + m
    BY <1>0, <2>2
  <2> QED BY <1>1, <2>1, <2>2, <2>3
<1>4. 0 .. Rounds(c) - r \subseteq S
  <2>1. Rounds(c) - r \in Nat
    BY <1>0
  <2> HIDE DEF S
  <2> QED BY <1>2, <1>3, <2>1, UpTo
<1> TAKE s \in r .. Rounds(c)
<1>5. PICK m \in 0 .. Rounds(c) - r : r + m = s
  <2>1. s - r \in 0 .. Rounds(c) - r /\ r + (s - r) = s
    BY <1>0
  <2> QED BY <2>1
<1>6. InRound(c, ev, r + m) \subseteq InRound(c, ev, r)
  BY <1>4
<1> QED BY <1>5, <1>6

\* Without a lucky loser, whoever misses main round r + 1 is placed below those who play in it.
LEMMA PlaceMissed ==
  ASSUME NEW c, NEW ev, NEW order, IsPlayed(c, ev, order), ~c.lucky, NEW r \in 1 .. Rounds(c), r # Rounds(c),
         NEW q \in Entrants(c, order), q \notin InRound(c, ev, r + 1)
  PROVE  Place(c, ev, q) > Width(c, r)
<1> USE DEF IsPlayed
<1>0. Rounds(c) \in Nat \ {0} /\ r \in Nat /\ r + 1 \in 1 .. Rounds(c) /\ r + 1 \in 2 .. Rounds(c)
  BY NumbersAre
<1>1. Known(q) /\ DOMAIN ev = Keys(c)
  BY PlaceIs, TreeFacts
<1>2. ASSUME NEW s \in 1 .. Rounds(c), NEW i \in 0 .. Width(c, s) - 1,
             ev[<<"M", s, i>>].winner = q \/ ev[<<"M", s, i>>].loser = q
      PROVE  q \in InRound(c, ev, s) /\ s =< r
  <2>1. PICK k \in Keys(c) : k = <<"M", s, i>>
    BY KeysAre
  <2>2. IsOutcome(ev[k]) /\ Held(ev, k, 0) = ev[k].a /\ Held(ev, k, 1) = ev[k].b
    BY TreeFacts, HeldIs
  <2>3. q = Held(ev, k, 0) \/ q = Held(ev, k, 1)
    BY <1>1, <1>2, <2>1, <2>2 DEF IsOutcome, Known
  <2>4. q \in InRound(c, ev, s)
    BY <2>1, <2>3, InRoundIs
  <2>5. ~(s >= r + 1)
    <3> SUFFICES ASSUME s >= r + 1 PROVE FALSE
      OBVIOUS
    <3>1. PICK u \in 1 .. Rounds(c) : u = r + 1
      BY <1>0
    <3>2. s \in u .. Rounds(c)
      BY <1>0, <3>1
    <3>3. q \in InRound(c, ev, u)
      BY <2>4, <3>2, EarlierRounds
    <3> QED BY <3>1, <3>3
  <2> QED BY <1>0, <2>4, <2>5
<1>3. ev[FinalKey(c)].winner # q
  <2> SUFFICES ASSUME ev[FinalKey(c)].winner = q PROVE FALSE
    OBVIOUS
  <2>1. Rounds(c) =< r
    BY <1>2, FinalIs
  <2> QED BY <1>0, <2>1
<1>4. Level(c, ev, q) \in 1 .. Rounds(c) /\ Stage(c, ev, q) > 0
  BY <1>3, PlaceIs
<1>5. PICK s \in 1 .. Rounds(c) : \E i \in 0 .. Width(c, s) - 1 :
         ev[<<"M", s, i>>].loser = q /\ Stage(c, ev, q) = 2 * s
  BY <1>1, <1>4, WhereBeaten
<1>6. s =< r /\ Level(c, ev, q) = s
  <2>1. s =< r
    BY <1>2, <1>5
  <2>2. (2 * s) \div 2 = s
    OBVIOUS
  <2> QED BY <1>5, <2>1, <2>2 DEF Level
<1>7. Width(c, r) =< Width(c, s) /\ Width(c, r) \in Nat /\ Width(c, s) \in Nat
  <2>1. r \in s .. Rounds(c)
    BY <1>0, <1>6
  <2> QED BY <2>1, WidthsFall, WidthIs
<1>8. CASE ~(ThirdPlayed(c, ev) /\ (ev[ThirdKey].winner = q \/ ev[ThirdKey].loser = q))
  <2>1. Place(c, ev, q) = Width(c, Level(c, ev, q)) + 1
    BY <1>3, <1>8, PlaceIs
  <2> QED BY <1>6, <1>7, <2>1
<1>9. CASE ThirdPlayed(c, ev) /\ (ev[ThirdKey].winner = q \/ ev[ThirdKey].loser = q)
  <2>1. Place(c, ev, q) \in {3, 4}
    BY <1>3, <1>9, PlaceIs
  <2>2. PICK u \in 1 .. Rounds(c), x \in {0, 1} : u = Rounds(c) - 1 /\ q = ev[<<"M", u, x>>].loser /\ <<"M", u, x>> \in Keys(c)
    <3>1. ThirdKey \in Keys(c) /\ IsOutcome(ev[ThirdKey])
      BY <1>9, TreeFacts DEF ThirdPlayed
    <3>2. Held(ev, ThirdKey, 0) = ev[ThirdKey].a /\ Held(ev, ThirdKey, 1) = ev[ThirdKey].b
      BY HeldIs
    <3>3. PICK x \in {0, 1} : q = Held(ev, ThirdKey, x)
      BY <1>1, <1>9, <3>1, <3>2 DEF IsOutcome, Known
    <3>4. TakesLoser(c, ThirdKey, x, <<"M", Rounds(c) - 1, x>>)
      BY <3>1, ThirdWiring
    <3>5. <<"M", Rounds(c) - 1, x>> \in Keys(c) /\ Slot(c, ThirdKey, x) = LoserOf(<<"M", Rounds(c) - 1, x>>)
      BY <3>4 DEF TakesLoser
    <3>6. Rounds(c) - 1 \in 1 .. Rounds(c)
      BY <3>5, KeysAre
    <3>7. q = ev[<<"M", Rounds(c) - 1, x>>].loser
      BY <3>1, <3>3, <3>5, TreeFacts
    <3> QED BY <3>5, <3>6, <3>7
  <2>3. u =< r
    <3>1. x \in 0 .. Width(c, u) - 1
      BY <2>2, KeysAre
    <3> QED BY <1>2, <2>2, <3>1
  <2>4. r = Rounds(c) - 1 /\ Rounds(c) \in 2 .. Rounds(c)
    BY <1>0, <2>2, <2>3
  <2>5. Width(c, Rounds(c) - 1) = 2 * Width(c, Rounds(c)) /\ Width(c, Rounds(c)) = 1
    BY <2>4, WidthIs
  <2> QED BY <2>1, <2>4, <2>5
<1> QED BY <1>8, <1>9

\* The final was played, by two players.
LEMMA FinalPlayed ==
  ASSUME NEW c, NEW ev, NEW order, IsPlayed(c, ev, order)
  PROVE  /\ ev[FinalKey(c)].status = "done"
         /\ Known(ev[FinalKey(c)].winner) /\ Known(ev[FinalKey(c)].loser)
         /\ ev[FinalKey(c)].winner # ev[FinalKey(c)].loser
         /\ ev[FinalKey(c)].winner \in Entrants(c, order) /\ ev[FinalKey(c)].loser \in Entrants(c, order)
<1> USE DEF IsPlayed
<1>1. FinalKey(c) \in Keys(c) /\ FinalKey(c) = <<"M", Rounds(c), 0>> /\ Rounds(c) \in Nat \ {0}
      /\ 0 \in 0 .. Width(c, Rounds(c)) - 1 /\ Rounds(c) \in 1 .. Rounds(c)
  BY FinalIs, NumbersAre
<1>2. ASSUME NEW x \in {0, 1}
      PROVE  Known(Held(ev, FinalKey(c), x))
  <2>1. CASE Rounds(c) >= 2
    <3>1. Rounds(c) \in 2 .. Rounds(c)
      BY <1>1, <2>1
    <3> QED BY <1>1, <3>1, MainIsFull
  <2>2. CASE Rounds(c) = 1
    <3>1. Byes(c) = 0
      <4>1. Half(c) = 1
        BY <2>2, WidthIs
      <4> QED BY <4>1, SizesAre
    <3>2. FinalKey(c) = <<"M", 1, 0>> /\ 0 \in 0 .. Half(c) - 1
      BY <1>1, <2>2, WidthIs
    <3>3. ~IsBye(c, 0)
      BY <3>1 DEF IsBye
    <3>4. \E q \in 1 .. c.n : Slot(c, FinalKey(c), x) = Player(q)
      <4>1. Slot(c, FinalKey(c), x) # Bye
        BY <3>2, <3>3, FirstRoundSlots, SourcesDiffer
      <4>2. \A l : Slot(c, FinalKey(c), x) # WinnerOf(l) /\ Slot(c, FinalKey(c), x) # LoserOf(l)
        BY <3>2, FirstRoundSlots, SourcesDiffer
      <4> QED BY <1>1, <4>1, <4>2, WiringIs
    <3>5. PICK q \in 1 .. c.n : Slot(c, FinalKey(c), x) = Player(q)
      BY <3>4
    <3>6. Held(ev, FinalKey(c), x) = order[q]
      BY <1>1, <3>5, TreeFacts
    <3> QED BY <3>6 DEF IsDraw
  <2> QED BY <1>1, <2>1, <2>2
<1>3. Held(ev, FinalKey(c), 0) # Held(ev, FinalKey(c), 1)
  <2> SUFFICES ASSUME Held(ev, FinalKey(c), 0) = Held(ev, FinalKey(c), 1) PROVE FALSE
    OBVIOUS
  <2>1. PICK r \in 1 .. Rounds(c) : r = Rounds(c)
    BY <1>1
  <2>5. PICK i \in 0 .. Width(c, r) - 1 : FinalKey(c) = <<"M", r, i>>
    BY <1>1, <2>1
  <2>2. PICK x \in {0, 1}, y \in {0, 1} : x = 0 /\ y = 1
    OBVIOUS
  <2>3. Known(Held(ev, <<"M", r, i>>, x)) /\ Held(ev, <<"M", r, i>>, x) = Held(ev, <<"M", r, i>>, y)
    BY <1>2, <2>2, <2>5
  <2>4. i = i /\ x = y
    BY <2>3, RoundDiffers
  <2> QED BY <2>2, <2>4
<1>4. ev[FinalKey(c)].status = "done"
  BY <1>1, <1>2, PlayedPairings
<1>5. IsOutcome(ev[FinalKey(c)]) /\ Held(ev, FinalKey(c), 0) = ev[FinalKey(c)].a /\ Held(ev, FinalKey(c), 1) = ev[FinalKey(c)].b
  BY <1>1, TreeFacts, HeldIs
<1>6. /\ Known(ev[FinalKey(c)].winner) /\ Known(ev[FinalKey(c)].loser)
      /\ ev[FinalKey(c)].winner # ev[FinalKey(c)].loser
  BY <1>3, <1>4, <1>5 DEF IsOutcome
<1> QED BY <1>1, <1>4, <1>6, OnlyDrawnPlay

\* Only the last two are as few as in the final.
LEMMA FewInTheFinal ==
  ASSUME NEW c, IsConfig(c), NEW r \in 1 .. Rounds(c)
  PROVE  /\ Width(c, r) = 1 <=> r = Rounds(c)
         /\ Width(c, r) = 2 => r = Rounds(c) - 1
<1>1. Rounds(c) \in Nat \ {0} /\ Width(c, Rounds(c)) = 1
  BY WidthIs, NumbersAre
<1>2. CASE r # Rounds(c)
  <2>1. PICK s \in 2 .. Rounds(c) : s = r + 1
    BY <1>1, <1>2
  <2>2. Width(c, r) = 2 * Width(c, s) /\ s \in 1 .. Rounds(c)
    <3>1. Width(c, s - 1) = 2 * Width(c, s) /\ s - 1 = r
      BY <2>1, WidthIs
    <3> QED BY <1>1, <2>1, <3>1
  <2>3. Width(c, s) \in Nat \ {0}
    BY <2>2, WidthIs
  <2>4. s # Rounds(c) => 2 =< Width(c, s)
    <3> HAVE s # Rounds(c)
    <3>1. PICK u \in s .. Rounds(c) : u = Rounds(c)
      BY <1>1, <2>2
    <3>2. u # s => 2 * Width(c, u) =< Width(c, s)
      BY <2>2, WidthsFall
    <3> QED BY <1>1, <2>3, <3>1, <3>2
  <2> QED BY <1>1, <1>2, <2>1, <2>2, <2>3, <2>4
<1>3. CASE r = Rounds(c)
  BY <1>1, <1>3
<1> QED BY <1>2, <1>3

\* One player is first: who has won the final; one is second: who has lost it.
LEMMA FirstAndSecond ==
  ASSUME NEW c, NEW ev, NEW order, IsPlayed(c, ev, order)
  PROVE  \A p \in Entrants(c, order) :
           /\ Place(c, ev, p) = 1 <=> p = ev[FinalKey(c)].winner
           /\ Place(c, ev, p) = 2 <=> p = ev[FinalKey(c)].loser
<1> USE DEF IsPlayed
<1> SUFFICES ASSUME NEW p \in Entrants(c, order)
             PROVE  /\ Place(c, ev, p) = 1 <=> p = ev[FinalKey(c)].winner
                    /\ Place(c, ev, p) = 2 <=> p = ev[FinalKey(c)].loser
  OBVIOUS
<1>0. Rounds(c) \in Nat \ {0} /\ DOMAIN ev = Keys(c) /\ FinalKey(c) \in Keys(c) /\ FinalKey(c) = <<"M", Rounds(c), 0>>
      /\ (c.lucky => Entry(c) \in 2 .. Rounds(c))
  BY NumbersAre, TreeFacts, FinalIs
<1>1. Place(c, ev, p) = 1 <=> p = ev[FinalKey(c)].winner
  BY SomePlace
<1>2. ASSUME p = ev[FinalKey(c)].loser
      PROVE  Place(c, ev, p) = 2
  <2>1. ev[FinalKey(c)].winner # p /\ Known(p) /\ ev[FinalKey(c)].status = "done"
    BY <1>2, FinalPlayed
  <2>2. Stage(c, ev, ev[FinalKey(c)].loser) >= 2 * Rounds(c)
    BY <1>0, <2>1, DefeatsCount
  <2>3. Level(c, ev, p) \in 1 .. Rounds(c) /\ Stage(c, ev, p) > 0
    BY <2>1, PlaceIs
  <2>4. Level(c, ev, p) >= Rounds(c)
    <3>1. \A s \in Nat : Stage(c, ev, p) >= 2 * s => Level(c, ev, p) >= s
      BY <1>0, <2>3, LevelIs
    <3> QED BY <1>0, <1>2, <2>2, <3>1
  <2>5. Level(c, ev, p) = Rounds(c)
    BY <1>0, <2>3, <2>4
  <2>6. ~(ThirdPlayed(c, ev) /\ (ev[ThirdKey].winner = p \/ ev[ThirdKey].loser = p))
    BY <1>2, <2>1, FinalistsAreNotThird
  <2>7. Place(c, ev, p) = Width(c, Level(c, ev, p)) + 1
    BY <2>1, <2>6, PlaceIs
  <2>8. Width(c, Level(c, ev, p)) = 1
    BY <2>3, <2>5, FewInTheFinal
  <2> QED BY <2>7, <2>8
<1>3. ASSUME Place(c, ev, p) = 2
      PROVE  p = ev[FinalKey(c)].loser
  <2>1. ev[FinalKey(c)].winner # p
    BY <1>1, <1>3
  <2>2. Level(c, ev, p) \in 1 .. Rounds(c) /\ Stage(c, ev, p) > 0
    BY <2>1, PlaceIs
  <2>3. Place(c, ev, p) = Width(c, Level(c, ev, p)) + 1
    BY <1>3, <2>1, PlaceIs
  <2>4. Width(c, Level(c, ev, p)) = 1
    <3>1. Width(c, Level(c, ev, p)) \in Nat
      BY <2>2, WidthIs
    <3> QED BY <1>3, <2>3, <3>1
  <2>5. Level(c, ev, p) = Rounds(c)
    BY <2>2, <2>4, FewInTheFinal
  <2>6. CASE \E r \in 1 .. Rounds(c) : \E i \in 0 .. Width(c, r) - 1 :
               ev[<<"M", r, i>>].loser = p /\ Stage(c, ev, p) = 2 * r
    <3>1. PICK r \in 1 .. Rounds(c) : \E i \in 0 .. Width(c, r) - 1 :
                 ev[<<"M", r, i>>].loser = p /\ Stage(c, ev, p) = 2 * r
      BY <2>6
    <3>2. PICK i \in 0 .. Width(c, r) - 1 : ev[<<"M", r, i>>].loser = p
      BY <3>1
    <3>3. (2 * r) \div 2 = r
      OBVIOUS
    <3>4. r = Rounds(c)
      BY <2>5, <3>1, <3>3 DEF Level
    <3>5. Width(c, r) = 1
      BY <3>4, WidthIs
    <3>6. i = 0
      BY <3>5
    <3> QED BY <1>0, <3>2, <3>4, <3>6
  <2>7. CASE c.lucky /\ Stage(c, ev, p) = 2 * Entry(c) - 1
    <3>1. PICK e \in 2 .. Rounds(c) : e = Entry(c)
      BY <1>0, <2>7
    <3>2. (2 * e - 1) \div 2 = e - 1
      OBVIOUS
    <3>3. Rounds(c) = e - 1
      BY <2>5, <2>7, <3>1, <3>2 DEF Level
    <3> QED BY <1>0, <3>1, <3>3
  <2> QED BY <1>0, <2>2, <2>6, <2>7, WhereBeaten
<1> QED BY <1>1, <1>2, <1>3

\* Those who are placed before n.
Above(c, ev, order, n) == {q \in Entrants(c, order) : Place(c, ev, q) < n}

LEMMA AboveIsFinite ==
  ASSUME NEW c, NEW ev, NEW order, IsPlayed(c, ev, order)
  PROVE  \A n : IsFiniteSet(Above(c, ev, order, n)) /\ Cardinality(Above(c, ev, order, n)) \in Nat
<1>1. PICK n \in Nat : n = c.n
  BY SizesAre DEF IsPlayed
<1>2. IsFiniteSet(1 .. n)
  <2>1. 1 \in Int /\ n \in Int
    OBVIOUS
  <2> QED BY <2>1, FS_Interval
<1> DEFINE f == [q \in 1 .. n |-> order[q]]
<1>3. f \in Surjection(1 .. n, Entrants(c, order))
  BY <1>1 DEF Surjection, Entrants
<1> HIDE DEF f
<1>4. IsFiniteSet(Entrants(c, order))
  BY <1>2, <1>3, FS_Surjection, Zenon
<1> TAKE m
<1>5. Above(c, ev, order, m) \in SUBSET Entrants(c, order)
  BY DEF Above
<1>6. IsFiniteSet(Above(c, ev, order, m))
  BY <1>4, <1>5, FS_Subset, Zenon
<1> QED BY <1>6, FS_CardinalityType

\* The place after a main round: at least as many are placed before it as were in the next
\* round; without a lucky loser, just as many.
LEMMA AboveRound ==
  ASSUME NEW c, NEW ev, NEW order, IsPlayed(c, ev, order), NEW r \in 1 .. Rounds(c)
  PROVE  /\ Width(c, r) =< Cardinality(Above(c, ev, order, Width(c, r) + 1))
         /\ ~c.lucky => Cardinality(Above(c, ev, order, Width(c, r) + 1)) = Width(c, r)
<1> USE DEF IsPlayed
<1> DEFINE A == Above(c, ev, order, Width(c, r) + 1)
<1>0. Rounds(c) \in Nat \ {0} /\ Width(c, r) \in Nat /\ IsFiniteSet(A)
  BY NumbersAre, WidthIs, AboveIsFinite
<1>1. CASE r # Rounds(c)
  <2>1. PICK s \in 2 .. Rounds(c) : s = r + 1
    BY <1>0, <1>1
  <2>2. s - 1 = r
    BY <2>1
  <2>3. IsFiniteSet(InRound(c, ev, s)) /\ Cardinality(InRound(c, ev, s)) = Width(c, r)
    BY <2>2, RoundIsFull
  <2>4. InRound(c, ev, s) \subseteq A
    <3> SUFFICES ASSUME NEW q \in InRound(c, ev, s) PROVE q \in A
      OBVIOUS
    <3>1. q \in Entrants(c, order) /\ Place(c, ev, q) =< Width(c, r)
      BY <1>1, <2>1, PlaceReached
    <3>2. Place(c, ev, q) \in Nat
      BY <3>1, SomePlace
    <3> QED BY <1>0, <3>1, <3>2 DEF Above
  <2>5. ~c.lucky => A \subseteq InRound(c, ev, s)
    <3> SUFFICES ASSUME ~c.lucky, NEW q \in A, q \notin InRound(c, ev, s) PROVE FALSE
      OBVIOUS
    <3>1. q \in Entrants(c, order) /\ Place(c, ev, q) < Width(c, r) + 1
      BY DEF Above
    <3>2. Place(c, ev, q) > Width(c, r) /\ Place(c, ev, q) \in Nat
      BY <1>1, <2>1, <3>1, PlaceMissed, SomePlace
    <3> QED BY <1>0, <3>1, <3>2
  <2> HIDE DEF A
  <2>6. Cardinality(InRound(c, ev, s)) =< Cardinality(A)
    BY <1>0, <2>4, FS_Subset
  <2>7. ~c.lucky => A = InRound(c, ev, s)
    BY <2>4, <2>5
  <2> QED BY <2>3, <2>6, <2>7 DEF A
<1>2. CASE r = Rounds(c)
  <2>1. Width(c, r) = 1
    BY <1>2, WidthIs
  <2>2. A = {ev[FinalKey(c)].winner}
    <3>1. ev[FinalKey(c)].winner \in Entrants(c, order)
      BY FinalPlayed
    <3>2. \A q \in Entrants(c, order) : Place(c, ev, q) < 2 <=> q = ev[FinalKey(c)].winner
      <4> TAKE q \in Entrants(c, order)
      <4>1. Place(c, ev, q) \in Nat \ {0} /\ (Place(c, ev, q) = 1 <=> q = ev[FinalKey(c)].winner)
        BY SomePlace
      <4> QED BY <4>1
    <3>3. Width(c, r) + 1 = 2
      BY <2>1
    <3>4. Above(c, ev, order, 2) = {ev[FinalKey(c)].winner}
      BY <3>1, <3>2, Zenon DEF Above
    <3> QED BY <3>3, <3>4
  <2> HIDE DEF A
  <2>3. Cardinality(A) = 1
    BY <2>2, FS_Singleton
  <2> QED BY <2>1, <2>3 DEF A
<1> QED BY <1>1, <1>2

\* Who lost a semifinal was in the match for third place.
LEMMA SemifinalsLost ==
  ASSUME NEW c, NEW ev, NEW order, IsPlayed(c, ev, order), ThirdPlayed(c, ev), NEW q, Known(q),
         NEW i \in 0 .. Width(c, Rounds(c) - 1) - 1, Rounds(c) >= 2, ev[<<"M", Rounds(c) - 1, i>>].loser = q
  PROVE  ev[ThirdKey].winner = q \/ ev[ThirdKey].loser = q
<1> USE DEF IsPlayed
<1>1. Rounds(c) \in 2 .. Rounds(c)
  BY NumbersAre
<1>2. Width(c, Rounds(c) - 1) = 2
  <2>1. Width(c, Rounds(c) - 1) = 2 * Width(c, Rounds(c)) /\ Width(c, Rounds(c)) = 1
    BY <1>1, WidthIs
  <2> QED BY <2>1
<1>3. PICK x \in {0, 1} : x = i
  BY <1>2
<1>4. TakesLoser(c, ThirdKey, x, <<"M", Rounds(c) - 1, x>>) /\ ThirdKey \in Keys(c)
  BY ThirdWiring DEF ThirdPlayed
<1>5. Slot(c, ThirdKey, x) = LoserOf(<<"M", Rounds(c) - 1, x>>)
  BY <1>4 DEF TakesLoser
<1>6. Held(ev, ThirdKey, x) = ev[<<"M", Rounds(c) - 1, x>>].loser
  BY <1>4, <1>5, TreeFacts
<1>7. Held(ev, ThirdKey, x) = q
  BY <1>3, <1>6
<1> QED BY <1>4, <1>7, PlayedPairings

\* Fourth place, which only the match for third place gives
LEMMA AboveFourth ==
  ASSUME NEW c, NEW ev, NEW order, IsPlayed(c, ev, order), ThirdPlayed(c, ev)
  PROVE  /\ Rounds(c) >= 2 /\ Width(c, Rounds(c) - 1) = 2
         /\ 3 =< Cardinality(Above(c, ev, order, 4))
         /\ ~c.lucky => Cardinality(Above(c, ev, order, 4)) = 3
<1> USE DEF IsPlayed
<1> DEFINE A == Above(c, ev, order, 4)
           third == ev[ThirdKey].winner
           B == InRound(c, ev, Rounds(c)) \cup {third}
<1>0. ThirdKey \in Keys(c) /\ Rounds(c) >= 2 /\ Rounds(c) \in 2 .. Rounds(c) /\ Rounds(c) \in Nat
  BY NumbersAre, KeysAre DEF ThirdPlayed
<1>1. Width(c, Rounds(c) - 1) = 2 /\ IsFiniteSet(A)
  <2>1. Width(c, Rounds(c) - 1) = 2 * Width(c, Rounds(c)) /\ Width(c, Rounds(c)) = 1
    BY <1>0, WidthIs
  <2> QED BY <2>1, AboveIsFinite
<1>2. PICK r \in 1 .. Rounds(c) : r = Rounds(c) - 1
  BY <1>0
<1>3. r # Rounds(c) /\ r + 1 = Rounds(c) /\ Width(c, r) = 2
  BY <1>0, <1>1, <1>2
<1>4. IsOutcome(ev[ThirdKey]) /\ ev[ThirdKey].status = "done"
  BY <1>0, TreeFacts DEF ThirdPlayed
<1>5. Known(third) /\ third \in Entrants(c, order)
  <2>1. Known(third)
    BY <1>4 DEF IsOutcome
  <2> QED BY <1>0, <2>1, OnlyDrawnPlay
<1>6. ev[FinalKey(c)].winner # third /\ Place(c, ev, third) = 3
  <2>1. ev[FinalKey(c)].winner # third
    BY <1>5, FinalistsAreNotThird
  <2> QED BY <1>5, <2>1, PlaceIs
<1>7. \A q \in InRound(c, ev, Rounds(c)) : q \in Entrants(c, order) /\ Place(c, ev, q) =< 2 /\ Place(c, ev, q) \in Nat
  <2> TAKE q \in InRound(c, ev, Rounds(c))
  <2>1. q \in Entrants(c, order) /\ Place(c, ev, q) =< Width(c, r)
    BY <1>3, PlaceReached
  <2> QED BY <1>3, <2>1, SomePlace
<1>8. third \notin InRound(c, ev, Rounds(c))
  BY <1>6, <1>7
<1>9. IsFiniteSet(B) /\ Cardinality(B) = 3
  <2>1. IsFiniteSet(InRound(c, ev, Rounds(c))) /\ Cardinality(InRound(c, ev, Rounds(c))) = 2
    BY <1>0, <1>1, RoundIsFull
  <2>2. IsFiniteSet(B) /\ Cardinality(B) = Cardinality(InRound(c, ev, Rounds(c))) + 1
    <3> HIDE DEF third
    <3> QED BY <1>8, <2>1, FS_AddElement
  <2> QED BY <2>1, <2>2
<1>10. B \subseteq A
  BY <1>5, <1>6, <1>7 DEF Above
<1>11. ASSUME ~c.lucky, NEW q \in A, q \notin B
       PROVE  FALSE
  <2>1. q \in Entrants(c, order) /\ Place(c, ev, q) < 4
    BY <1>11 DEF Above
  <2>2. Place(c, ev, q) > 2 /\ Place(c, ev, q) \in Nat
    BY <1>3, <1>11, <2>1, PlaceMissed, SomePlace
  <2>3. Place(c, ev, q) = 3 /\ q # third
    BY <1>11, <2>1, <2>2
  <2>4. ev[FinalKey(c)].winner # q
    BY <2>1, <2>3, SomePlace
  <2>5. ~(ThirdPlayed(c, ev) /\ (ev[ThirdKey].winner = q \/ ev[ThirdKey].loser = q))
    BY <2>1, <2>3, <2>4, PlaceIs
  <2>6. Place(c, ev, q) = Width(c, Level(c, ev, q)) + 1 /\ Level(c, ev, q) \in 1 .. Rounds(c) /\ Stage(c, ev, q) > 0
    BY <2>1, <2>4, <2>5, PlaceIs
  <2>7. Level(c, ev, q) = Rounds(c) - 1
    <3>1. Width(c, Level(c, ev, q)) \in Nat
      BY <2>6, WidthIs
    <3>2. Width(c, Level(c, ev, q)) = 2
      BY <2>3, <2>6, <3>1
    <3> QED BY <2>6, <3>2, FewInTheFinal
  <2>8. PICK s \in 1 .. Rounds(c) : \E i \in 0 .. Width(c, s) - 1 :
           ev[<<"M", s, i>>].loser = q /\ Stage(c, ev, q) = 2 * s
    <3>1. DOMAIN ev = Keys(c)
      BY TreeFacts
    <3> QED BY <1>11, <2>6, <3>1, WhereBeaten
  <2>9. s = Rounds(c) - 1
    <3>1. (2 * s) \div 2 = s
      OBVIOUS
    <3> QED BY <2>7, <2>8, <3>1 DEF Level
  <2>10. PICK i \in 0 .. Width(c, s) - 1 : ev[<<"M", s, i>>].loser = q
    BY <2>8
  <2>11. Known(q)
    BY <2>1, PlaceIs
  <2> QED BY <1>0, <2>5, <2>9, <2>10, <2>11, SemifinalsLost
<1> HIDE DEF A, B
<1>12. Cardinality(B) =< Cardinality(A)
  BY <1>1, <1>10, FS_Subset
<1>13. ~c.lucky => A = B
  BY <1>10, <1>11
<1> QED BY <1>0, <1>1, <1>9, <1>12, <1>13 DEF A

\* In a tree that is played, one player is first and one second; as many are placed before
\* somebody as his place says, or with a lucky loser at least as many.
LEMMA TreePlaces ==
  ASSUME NEW c, NEW ev, NEW order, IsPlayed(c, ev, order)
  PROVE  /\ {p \in Entrants(c, order) : Place(c, ev, p) = 1} = {ev[FinalKey(c)].winner}
         /\ {p \in Entrants(c, order) : Place(c, ev, p) = 2} = {ev[FinalKey(c)].loser}
         /\ \A p \in Entrants(c, order) :
              IF c.lucky
              THEN Place(c, ev, p) \in 1 .. Cardinality(Above(c, ev, order, Place(c, ev, p))) + 1
              ELSE Place(c, ev, p) = Cardinality(Above(c, ev, order, Place(c, ev, p))) + 1
<1> USE DEF IsPlayed
<1>1. ev[FinalKey(c)].winner \in Entrants(c, order) /\ ev[FinalKey(c)].loser \in Entrants(c, order)
  BY FinalPlayed
<1>2. {p \in Entrants(c, order) : Place(c, ev, p) = 1} = {ev[FinalKey(c)].winner}
      /\ {p \in Entrants(c, order) : Place(c, ev, p) = 2} = {ev[FinalKey(c)].loser}
  <2> HIDE DEF IsPlayed
  <2>1. \A p \in Entrants(c, order) : Place(c, ev, p) = 1 <=> p = ev[FinalKey(c)].winner
    BY FirstAndSecond
  <2>2. \A p \in Entrants(c, order) : Place(c, ev, p) = 2 <=> p = ev[FinalKey(c)].loser
    BY FirstAndSecond
  <2>3. {p \in Entrants(c, order) : Place(c, ev, p) = 1} = {ev[FinalKey(c)].winner}
    BY <1>1, <2>1, Zenon
  <2>4. {p \in Entrants(c, order) : Place(c, ev, p) = 2} = {ev[FinalKey(c)].loser}
    BY <1>1, <2>2, Zenon
  <2> QED BY <2>3, <2>4
<1>3. ASSUME NEW p \in Entrants(c, order)
      PROVE  LET better == Cardinality(Above(c, ev, order, Place(c, ev, p)))
             IN IF c.lucky THEN Place(c, ev, p) \in 1 .. better + 1 ELSE Place(c, ev, p) = better + 1
  <2>0. Place(c, ev, p) \in Nat \ {0} /\ Cardinality(Above(c, ev, order, Place(c, ev, p))) \in Nat
    BY SomePlace, AboveIsFinite
  <2> DEFINE better == Cardinality(Above(c, ev, order, Place(c, ev, p)))
  <2>1. ASSUME NEW r \in 1 .. Rounds(c), Place(c, ev, p) = Width(c, r) + 1
        PROVE  Place(c, ev, p) =< better + 1 /\ (~c.lucky => Place(c, ev, p) = better + 1)
    <3>1. Width(c, r) =< better /\ (~c.lucky => better = Width(c, r)) /\ Width(c, r) \in Nat
      BY <2>1, AboveRound, WidthIs
    <3> QED BY <2>0, <2>1, <3>1
  <2>2. CASE ev[FinalKey(c)].winner = p
    <3>1. Place(c, ev, p) = 1
      BY <2>2, PlaceIs
    <3>2. Above(c, ev, order, 1) = {}
      <4>1. \A q \in Entrants(c, order) : ~(Place(c, ev, q) < 1)
        <5> TAKE q \in Entrants(c, order)
        <5>1. Place(c, ev, q) \in Nat \ {0}
          BY SomePlace
        <5> QED BY <5>1
      <4> QED BY <4>1, Zenon DEF Above
    <3>3. better = 0
      BY <3>1, <3>2, FS_EmptySet
    <3> QED BY <3>1, <3>3
  <2>3. CASE ev[FinalKey(c)].winner # p /\ ThirdPlayed(c, ev) /\ ev[ThirdKey].winner = p
    <3>1. Place(c, ev, p) = 3
      BY <2>3, PlaceIs
    <3>2. Rounds(c) >= 2 /\ Rounds(c) \in Nat /\ Width(c, Rounds(c) - 1) = 2
      BY <2>3, AboveFourth, NumbersAre
    <3>3. PICK r \in 1 .. Rounds(c) : r = Rounds(c) - 1
      BY <3>2
    <3>4. Place(c, ev, p) = Width(c, r) + 1
      BY <3>1, <3>2, <3>3
    <3> QED BY <2>0, <2>1, <3>4
  <2>4. CASE ev[FinalKey(c)].winner # p /\ ThirdPlayed(c, ev) /\ ev[ThirdKey].winner # p /\ ev[ThirdKey].loser = p
    <3>1. Place(c, ev, p) = 4
      BY <2>4, PlaceIs
    <3>2. 3 =< Cardinality(Above(c, ev, order, 4)) /\ (~c.lucky => Cardinality(Above(c, ev, order, 4)) = 3)
      BY <2>4, AboveFourth
    <3>3. 3 =< better /\ (~c.lucky => better = 3) /\ better \in Nat
      BY <2>0, <3>1, <3>2
    <3> QED BY <3>1, <3>3
  <2>5. CASE ev[FinalKey(c)].winner # p /\ ~(ThirdPlayed(c, ev) /\ (ev[ThirdKey].winner = p \/ ev[ThirdKey].loser = p))
    <3>1. Level(c, ev, p) \in 1 .. Rounds(c) /\ Place(c, ev, p) = Width(c, Level(c, ev, p)) + 1
      BY <2>5, PlaceIs
    <3> QED BY <2>0, <2>1, <3>1
  <2> QED BY <2>2, <2>3, <2>4, <2>5
<1> QED BY <1>2, <1>3

-----------------------------------------------------------------------------
(* Who has lost what *)

\* The rows of a group of pairings, as many as n and as long as w says, are finite.
Rows(g, n, w) == UNION {{<<g, r, i>> : i \in 0 .. w[r] - 1} : r \in 1 .. n}

LEMMA RowsAreFinite ==
  ASSUME NEW g, NEW n \in Nat, NEW w, \A r \in 1 .. n : w[r] \in Nat
  PROVE  IsFiniteSet(Rows(g, n, w))
<1> DEFINE f == [r \in 1 .. n |-> {<<g, r, i>> : i \in 0 .. w[r] - 1}]
           U == {{<<g, r, i>> : i \in 0 .. w[r] - 1} : r \in 1 .. n}
<1>1. IsFiniteSet(1 .. n)
  <2>1. 1 \in Int /\ n \in Int
    OBVIOUS
  <2> QED BY <2>1, FS_Interval
<1>2. f \in Surjection(1 .. n, U)
  BY DEF Surjection
<1>3. \A s \in U : IsFiniteSet(s)
  <2> SUFFICES ASSUME NEW r \in 1 .. n PROVE IsFiniteSet({<<g, r, i>> : i \in 0 .. w[r] - 1})
    OBVIOUS
  <2>1. PICK v \in Nat : v = w[r]
    OBVIOUS
  <2>2. IsFiniteSet(0 .. v - 1)
    BY Counting
  <2> DEFINE h == [i \in 0 .. v - 1 |-> <<g, r, i>>]
  <2>3. h \in Surjection(0 .. v - 1, {<<g, r, i>> : i \in 0 .. v - 1})
    BY DEF Surjection
  <2> HIDE DEF h
  <2>4. IsFiniteSet({<<g, r, i>> : i \in 0 .. v - 1})
    BY <2>2, <2>3, FS_Surjection, Zenon
  <2> QED BY <2>1, <2>4
<1> HIDE DEF f, U
<1>4. IsFiniteSet(U)
  BY <1>1, <1>2, FS_Surjection, Zenon
<1>5. IsFiniteSet(UNION U)
  BY <1>3, <1>4, FS_UNION
<1> QED BY <1>5 DEF U, Rows

LEMMA KeysAreFinite ==
  ASSUME NEW c, IsConfig(c)
  PROVE  IsFiniteSet(Keys(c))
<1>1. IsFiniteSet(MainKeys(c))
  <2> DEFINE w == [r \in 1 .. Rounds(c) |-> Width(c, r)]
  <2>1. Rounds(c) \in Nat /\ \A r \in 1 .. Rounds(c) : w[r] \in Nat
    BY WidthIs, NumbersAre
  <2>2. \A r \in 1 .. Rounds(c) : w[r] = Width(c, r)
    OBVIOUS
  <2> HIDE DEF w
  <2>3. IsFiniteSet(Rows("M", Rounds(c), w))
    BY <2>1, RowsAreFinite
  <2>4. MainKeys(c) = Rows("M", Rounds(c), w)
    BY <2>2 DEF MainKeys, Rows
  <2> QED BY <2>3, <2>4
<1>2. IsFiniteSet(LLKeys(c))
  <2> DEFINE w == [r \in 1 .. LLRounds(c) |-> LLSize(c)[r]]
  <2>1. LLRounds(c) \in Nat /\ \A r \in 1 .. LLRounds(c) : w[r] \in Nat
    BY NumbersAre, LLRoundsFit
  <2>2. \A r \in 1 .. LLRounds(c) : w[r] = LLSize(c)[r]
    OBVIOUS
  <2> HIDE DEF w
  <2>3. IsFiniteSet(Rows("L", LLRounds(c), w))
    BY <2>1, RowsAreFinite
  <2>4. LLKeys(c) = Rows("L", LLRounds(c), w)
    BY <2>2 DEF LLKeys, Rows
  <2> QED BY <2>3, <2>4
<1>3. IsFiniteSet({PlayinKey}) /\ IsFiniteSet({ThirdKey}) /\ IsFiniteSet({})
  BY FS_Singleton, FS_EmptySet
<1>4. IsFiniteSet(IF c.lucky THEN {PlayinKey} ELSE {})
      /\ IsFiniteSet(IF c.third /\ Rounds(c) >= 2 THEN {ThirdKey} ELSE {})
  BY <1>3
<1> QED BY <1>1, <1>2, <1>4, FS_Union DEF Keys

\* Nobody is twice in a round of the evaluation.
LEMMA OneInARound ==
  ASSUME NEW c, IsConfig(c), NEW ev, NEW order, IsTree(c, ev, order), IsDraw(c, order),
         NEW k \in Keys(c), NEW x \in {0, 1}, NEW l \in Keys(c), NEW y \in {0, 1},
         RoundOf(c, k) = RoundOf(c, l), Known(Held(ev, k, x)), Held(ev, k, x) = Held(ev, l, y)
  PROVE  k = l /\ x = y
<1>1. LastRound(c) \in Nat /\ RoundOf(c, k) \in 1 .. LastRound(c)
  BY LayoutIs, RoundsOfKeys
<1>2. PICK m \in 0 .. LastRound(c) : m + 1 = RoundOf(c, k)
  <2>1. RoundOf(c, k) - 1 \in 0 .. LastRound(c) /\ (RoundOf(c, k) - 1) + 1 = RoundOf(c, k)
    BY <1>1
  <2> QED BY <2>1
<1>3. m \in Int /\ RoundOf(c, k) =< m + 1 /\ RoundOf(c, k) > m /\ RoundOf(c, l) =< m + 1 /\ RoundOf(c, l) > m
  BY <1>1, <1>2
<1>4. IsEnd(c, ev, order, m, Held(ev, k, x), Slot(c, k, x))
  BY <1>3, SlotIsEnd
<1>5. IsEnd(c, ev, order, m, Held(ev, l, y), Slot(c, l, y))
  BY <1>3, SlotIsEnd
<1>6. Slot(c, k, x) = Slot(c, l, y)
  BY <1>4, <1>5, OneEnd
<1>7. Slot(c, k, x) # Bye
  <2>1. Slot(c, k, x) = Bye => Held(ev, k, x) = Nobody
    BY TreeFacts
  <2> QED BY <2>1 DEF Known
<1> QED BY <1>6, <1>7, SlotsDiffer

\* A pairing that counts is between two players, one of whom has won and the other lost.
LEMMA TwoPlayers ==
  ASSUME NEW c, IsConfig(c), NEW ev, NEW order, IsTree(c, ev, order), IsDraw(c, order), NEW k \in UsedKeys(ev)
  PROVE  /\ k \in Keys(c) /\ Known(ev[k].a) /\ Known(ev[k].b) /\ ev[k].a # ev[k].b
         /\ ev[k].winner # ev[k].loser /\ {ev[k].winner, ev[k].loser} = {ev[k].a, ev[k].b}
<1>1. k \in Keys(c) /\ ev[k].status = "done" /\ IsOutcome(ev[k])
  BY TreeFacts DEF UsedKeys
<1>2. Held(ev, k, 0) = ev[k].a /\ Held(ev, k, 1) = ev[k].b
  BY HeldIs
<1>3. Known(ev[k].a) /\ Known(ev[k].b) /\ ((ev[k].winner = ev[k].a /\ ev[k].loser = ev[k].b) \/ (ev[k].winner = ev[k].b /\ ev[k].loser = ev[k].a))
  BY <1>1 DEF IsOutcome
<1>4. ev[k].a # ev[k].b
  <2> SUFFICES ASSUME ev[k].a = ev[k].b PROVE FALSE
    OBVIOUS
  <2>1. PICK x \in {0, 1}, y \in {0, 1} : x = 0 /\ y = 1
    OBVIOUS
  <2>2. Known(Held(ev, k, x)) /\ Held(ev, k, x) = Held(ev, k, y)
    BY <1>2, <1>3, <2>1
  <2>3. x = y
    BY <1>1, <2>2, OneInARound
  <2> QED BY <2>1, <2>3
<1> QED BY <1>1, <1>3, <1>4

\* Main rounds are for places and winners.
LEMMA MainTakesNoLoser ==
  ASSUME NEW c, IsConfig(c), NEW k \in Keys(c), k[1] = "M", NEW x \in {0, 1}
  PROVE  \A l : Slot(c, k, x) # LoserOf(l)
<1>1. PICK r \in 1 .. Rounds(c) : \E i \in 0 .. Width(c, r) - 1 : k = <<"M", r, i>>
  BY KeysAre DEF PlayinKey, ThirdKey
<1>2. PICK i \in 0 .. Width(c, r) - 1 : k = <<"M", r, i>>
  BY <1>1
<1>3. CASE r = 1
  <2>1. Slot(c, <<"M", 1, i>>, 0) = Player(UpperPlace(c, i))
        /\ (Slot(c, <<"M", 1, i>>, 1) = Bye \/ Slot(c, <<"M", 1, i>>, 1) = Player(UpperPlace(c, i) + 1))
    BY FirstRoundSlots
  <2> QED BY <1>2, <1>3, <2>1, SourcesDiffer
<1>4. CASE r # 1
  <2>1. r \in 2 .. Rounds(c)
    BY <1>4
  <2>2. \/ TakesWinner(c, <<"M", r, i>>, x, PlayinKey)
        \/ TakesWinner(c, <<"M", r, i>>, x, <<"M", r - 1, 2 * i + x>>)
    BY <2>1, MainWiring
  <2>3. Slot(c, k, x) = WinnerOf(PlayinKey) \/ Slot(c, k, x) = WinnerOf(<<"M", r - 1, 2 * i + x>>)
    BY <1>2, <2>2 DEF TakesWinner
  <2> QED BY <2>3, SourcesDiffer
<1> QED BY <1>3, <1>4

-----------------------------------------------------------------------------
(* The defeats of a player: before the lucky loser round, in a semifinal, and after which *)
(* he does not play on *)

EarlyDefeats(c, ev, p) == {k \in LostAt(ev, p) : k[1] = "M" /\ c.lucky /\ k[2] < Entry(c)}
SemifinalDefeats(c, ev, p) == {k \in LostAt(ev, p) : k[1] = "M" /\ ThirdKey \in Keys(c) /\ k[2] = Rounds(c) - 1}
LastDefeats(c, ev, p) == {k \in LostAt(ev, p) : ~PlaysOn(c, k)}

LEMMA DefeatsSplit ==
  ASSUME NEW c, NEW ev, NEW p
  PROVE  LostAt(ev, p) = EarlyDefeats(c, ev, p) \cup SemifinalDefeats(c, ev, p) \cup LastDefeats(c, ev, p)
BY DEF EarlyDefeats, SemifinalDefeats, LastDefeats, PlaysOn

\* Who has lost in a pairing was in it.
LEMMA LoserWasThere ==
  ASSUME NEW c, IsConfig(c), NEW ev, NEW order, IsTree(c, ev, order), NEW p, NEW k \in LostAt(ev, p)
  PROVE  k \in Keys(c) /\ ev[k].status = "done" /\ ev[k].loser = p /\ Known(p) /\ \E x \in {0, 1} : Held(ev, k, x) = p
<1>1. k \in Keys(c) /\ ev[k].status = "done" /\ ev[k].loser = p /\ IsOutcome(ev[k])
  BY TreeFacts DEF LostAt, UsedKeys
<1>2. Held(ev, k, 0) = ev[k].a /\ Held(ev, k, 1) = ev[k].b
  BY HeldIs
<1>3. Known(p) /\ (ev[k].a = p \/ ev[k].b = p)
  BY <1>1 DEF IsOutcome
<1> QED BY <1>1, <1>2, <1>3

LEMMA OneSemifinalDefeat ==
  ASSUME NEW c, IsConfig(c), NEW ev, NEW order, IsTree(c, ev, order), IsDraw(c, order), NEW p
  PROVE  \A k, l \in SemifinalDefeats(c, ev, p) : k = l
<1> SUFFICES ASSUME NEW k \in SemifinalDefeats(c, ev, p), NEW l \in SemifinalDefeats(c, ev, p)
             PROVE  k = l
  OBVIOUS
<1>1. k \in LostAt(ev, p) /\ l \in LostAt(ev, p) /\ k[1] = "M" /\ l[1] = "M" /\ k[2] = l[2]
  BY DEF SemifinalDefeats
<1>2. k \in Keys(c) /\ l \in Keys(c) /\ Known(p) /\ (\E x \in {0, 1} : Held(ev, k, x) = p) /\ (\E y \in {0, 1} : Held(ev, l, y) = p)
  BY <1>1, LoserWasThere
<1>3. RoundOf(c, k) = RoundOf(c, l)
  <2>1. k = <<"M", k[2], k[3]>> /\ l = <<"M", l[2], l[3]>>
    BY <1>1, <1>2, KeysAre DEF PlayinKey, ThirdKey
  <2> QED BY <1>1, <2>1, RoundOfIs
<1>4. PICK x \in {0, 1} : Held(ev, k, x) = p
  BY <1>2
<1>5. PICK y \in {0, 1} : Held(ev, l, y) = p
  BY <1>2
<1> QED BY <1>2, <1>3, <1>4, <1>5, OneInARound

LEMMA OneLastDefeat ==
  ASSUME NEW c, IsConfig(c), NEW ev, NEW order, IsTree(c, ev, order), IsDraw(c, order), NEW p
  PROVE  \A k, l \in LastDefeats(c, ev, p) : k = l
<1> SUFFICES ASSUME NEW k \in LastDefeats(c, ev, p), NEW l \in LastDefeats(c, ev, p)
             PROVE  k = l
  OBVIOUS
<1>1. k \in LostAt(ev, p) /\ l \in LostAt(ev, p) /\ ~PlaysOn(c, k) /\ ~PlaysOn(c, l)
  BY DEF LastDefeats
<1>2. k \in Keys(c) /\ l \in Keys(c) /\ Known(p) /\ ev[k].loser = p /\ ev[l].loser = p
  BY <1>1, LoserWasThere
<1>3. \A m : Value(ev, order, LoserOf(m)) = ev[m].loser
  BY DEF Value, LoserOf
<1>4. PICK s : s = LoserOf(k)
  OBVIOUS
<1>5. PICK t : t = LoserOf(l)
  OBVIOUS
<1>6. IsExit(c, s) /\ IsExit(c, t) /\ Value(ev, order, s) = p /\ Value(ev, order, t) = p
  BY <1>1, <1>2, <1>3, <1>4, <1>5 DEF IsExit
<1>7. s = t
  BY <1>2, <1>6, OneExit
<1>8. LoserOf(k) = LoserOf(l)
  BY <1>4, <1>5, <1>7
<1> QED BY <1>8 DEF LoserOf

\* Losers wait until the tree has come to the round the lucky loser leads into.
LEMMA OneEarlyDefeat ==
  ASSUME NEW c, IsConfig(c), NEW ev, NEW order, IsTree(c, ev, order), IsDraw(c, order), NEW p
  PROVE  \A k, l \in EarlyDefeats(c, ev, p) : k = l
<1>0. LastRound(c) \in Nat /\ LLRounds(c) \in Nat /\ Rounds(c) \in Nat
      /\ \A k \in Keys(c) : RoundOf(c, k) \in 1 .. LastRound(c)
  BY LayoutIs, RoundsOfKeys, NumbersAre
<1>1. ASSUME NEW k \in EarlyDefeats(c, ev, p)
      PROVE  /\ k \in Keys(c) /\ k[1] = "M" /\ RoundOf(c, k) = k[2] /\ k[2] < Break(c) /\ Known(p) /\ ev[k].loser = p
             /\ \E x \in {0, 1} : Held(ev, k, x) = p
  <2>1. k \in LostAt(ev, p) /\ k[1] = "M" /\ c.lucky /\ k[2] < Entry(c)
    BY DEF EarlyDefeats
  <2>2. k \in Keys(c) /\ Known(p) /\ ev[k].loser = p /\ \E x \in {0, 1} : Held(ev, k, x) = p
    BY <2>1, LoserWasThere
  <2>3. k = <<"M", k[2], k[3]>>
    BY <2>1, <2>2, KeysAre DEF PlayinKey, ThirdKey
  <2>4. Break(c) = Entry(c)
    BY <2>1, NumbersAre
  <2>5. RoundOf(c, k) = k[2]
    BY <2>1, <2>3, <2>4, RoundOfIs
  <2> QED BY <2>1, <2>2, <2>4, <2>5
<1>2. ASSUME NEW k \in EarlyDefeats(c, ev, p), NEW l \in EarlyDefeats(c, ev, p), RoundOf(c, k) < RoundOf(c, l)
      PROVE  FALSE
  <2>1. PICK m \in 0 .. LastRound(c) : m + 1 = RoundOf(c, l)
    <3>1. RoundOf(c, l) \in 1 .. LastRound(c)
      BY <1>0, <1>1
    <3>2. RoundOf(c, l) - 1 \in 0 .. LastRound(c) /\ (RoundOf(c, l) - 1) + 1 = RoundOf(c, l)
      BY <1>0, <3>1
    <3> QED BY <3>2
  <2>2. m \in Int /\ RoundOf(c, k) =< m /\ RoundOf(c, l) =< m + 1 /\ RoundOf(c, l) > m /\ m < Break(c) - 1
    <3>1. RoundOf(c, l) \in Int /\ RoundOf(c, k) \in Int /\ Break(c) \in Int
      BY <1>0, <1>1, NumbersAre
    <3>2. RoundOf(c, l) < Break(c)
      BY <1>1
    <3> QED BY <1>2, <2>1, <3>1, <3>2
  <2>3. PICK y \in {0, 1} : Held(ev, l, y) = p
    BY <1>1
  <2>4. IsEnd(c, ev, order, m, p, Slot(c, l, y))
    <3>1. IsEnd(c, ev, order, m, Held(ev, l, y), Slot(c, l, y))
      BY <1>1, <2>2, <2>3, SlotIsEnd
    <3> QED BY <2>3, <3>1
  <2>5. ASSUME NEW j \in Keys(c), RoundOf(c, j) =< m PROVE j[1] = "M"
    <3>1. Break(c) \in Nat
      BY NumbersAre
    <3>2. \A r, i : RoundOf(c, <<"L", r, i>>) = Break(c) - 1 + r
      BY RoundOfIs
    <3>3. RoundOf(c, PlayinKey) = Break(c) + LLRounds(c) /\ RoundOf(c, ThirdKey) = LLRounds(c) + Rounds(c) + 2
          /\ Break(c) \in 1 .. Rounds(c)
      BY RoundOfIs, NumbersAre
    <3>4. CASE \E r \in 1 .. LLRounds(c) : \E i \in 0 .. LLSize(c)[r] - 1 : j = <<"L", r, i>>
      <4>1. PICK r \in 1 .. LLRounds(c) : \E i : j = <<"L", r, i>>
        BY <3>4
      <4>2. RoundOf(c, j) = Break(c) - 1 + r
        BY <3>2, <4>1
      <4> QED BY <1>0, <2>2, <2>5, <3>1, <4>2
    <3>5. CASE j = PlayinKey \/ j = ThirdKey
      BY <1>0, <2>2, <2>5, <3>3, <3>5
    <3>6. CASE \E r \in 1 .. Rounds(c) : \E i \in 0 .. Width(c, r) - 1 : j = <<"M", r, i>>
      BY <3>6
    <3> QED BY <3>4, <3>5, <3>6, KeysAre
  <2>6. IsEnd(c, ev, order, m, p, LoserOf(k))
    <3>1. AvailableBy(c, m, LoserOf(k))
      BY <1>1, <2>2 DEF AvailableBy
    <3>2. Value(ev, order, LoserOf(k)) = p
      BY <1>1 DEF Value, LoserOf
    <3>3. \A j \in Keys(c) : \A x \in {0, 1} : RoundOf(c, j) =< m => Slot(c, j, x) # LoserOf(k)
      BY <2>5, MainTakesNoLoser
    <3> QED BY <3>1, <3>2, <3>3 DEF IsEnd
  <2>7. Slot(c, l, y) = LoserOf(k)
    <3>1. PICK s : s = Slot(c, l, y)
      OBVIOUS
    <3>2. PICK t : t = LoserOf(k)
      OBVIOUS
    <3>3. s = t
      BY <1>1, <2>4, <2>6, <3>1, <3>2, OneEnd
    <3> QED BY <3>1, <3>2, <3>3
  <2> QED BY <1>1, <2>7, MainTakesNoLoser
<1> SUFFICES ASSUME NEW k \in EarlyDefeats(c, ev, p), NEW l \in EarlyDefeats(c, ev, p)
             PROVE  k = l
  OBVIOUS
<1>3. RoundOf(c, k) = RoundOf(c, l)
  <2>1. RoundOf(c, k) \in Int /\ RoundOf(c, l) \in Int
    BY <1>0, <1>1
  <2> QED BY <1>2, <2>1
<1>4. PICK x \in {0, 1} : Held(ev, k, x) = p
  BY <1>1
<1>5. PICK y \in {0, 1} : Held(ev, l, y) = p
  BY <1>1
<1> QED BY <1>1, <1>3, <1>4, <1>5, OneInARound

\* At most one of a kind
LEMMA AtMostOne ==
  ASSUME NEW S, \A k, l \in S : k = l
  PROVE  IsFiniteSet(S) /\ Cardinality(S) \in 0 .. 1
<1>1. CASE S = {}
  <2>1. IsFiniteSet(S) /\ Cardinality(S) = 0
    BY <1>1, FS_EmptySet
  <2> QED BY <2>1
<1>2. CASE S # {}
  <2>1. PICK x : S = {x}
    <3>1. PICK x \in S : TRUE
      BY <1>2
    <3>2. S = {x}
      BY <3>1
    <3> QED BY <3>2
  <2>2. IsFiniteSet(S) /\ Cardinality(S) = 1
    BY <2>1, FS_Singleton
  <2> QED BY <2>2
<1> QED BY <1>1, <1>2

\* The champion has won his last match, and was not in the one for third place.
LEMMA ChampionsDefeats ==
  ASSUME NEW c, IsConfig(c), NEW ev, NEW order, IsTree(c, ev, order), IsDraw(c, order), NEW p, Known(p),
         ev[FinalKey(c)].winner = p
  PROVE  SemifinalDefeats(c, ev, p) = {} /\ LastDefeats(c, ev, p) = {}
<1>0. FinalKey(c) \in Keys(c) /\ FinalKey(c) # ThirdKey /\ Rounds(c) \in Nat
  BY FinalIs, NamesDiffer, NumbersAre
<1>1. /\ \A m : Value(ev, order, LoserOf(m)) = ev[m].loser
      /\ \A m : Value(ev, order, WinnerOf(m)) = ev[m].winner
  BY DEF Value, LoserOf, WinnerOf
<1>2. PICK s : s = WinnerOf(FinalKey(c))
  OBVIOUS
<1>3. IsExit(c, s) /\ Value(ev, order, s) = p
  BY <1>1, <1>2 DEF IsExit
<1>4. /\ \A t : IsExit(c, t) /\ Value(ev, order, t) = Value(ev, order, s) => t = s
      /\ \A k \in Keys(c) : \A x \in {0, 1} :
           ev[k].status \in {"wait", "ready"} => Held(ev, k, x) # Value(ev, order, s)
  BY <1>3, OneExit
<1>5. ASSUME NEW k \in Keys(c), ~PlaysOn(c, k), ev[k].loser = p
      PROVE  FALSE
  <2>1. IsExit(c, LoserOf(k)) /\ Value(ev, order, LoserOf(k)) = p
    BY <1>1, <1>5 DEF IsExit
  <2>2. LoserOf(k) = s
    BY <1>3, <1>4, <2>1
  <2> QED BY <1>2, <2>2, SourcesDiffer
<1>6. LastDefeats(c, ev, p) = {}
  <2> SUFFICES ASSUME NEW k \in LastDefeats(c, ev, p) PROVE FALSE
    OBVIOUS
  <2>1. k \in LostAt(ev, p) /\ ~PlaysOn(c, k)
    BY DEF LastDefeats
  <2>2. k \in Keys(c) /\ ev[k].loser = p
    BY <2>1, LoserWasThere
  <2> QED BY <1>5, <2>1, <2>2
<1>7. SemifinalDefeats(c, ev, p) = {}
  <2> SUFFICES ASSUME NEW k \in SemifinalDefeats(c, ev, p) PROVE FALSE
    OBVIOUS
  <2>1. k \in LostAt(ev, p) /\ k[1] = "M" /\ ThirdKey \in Keys(c) /\ k[2] = Rounds(c) - 1
    BY DEF SemifinalDefeats
  <2>2. k \in Keys(c) /\ ev[k].loser = p
    BY <2>1, LoserWasThere
  <2>3. PICK x \in {0, 1} : k = <<"M", Rounds(c) - 1, x>>
    <3>1. k = <<"M", k[2], k[3]>> /\ Rounds(c) >= 2 /\ k[3] \in 0 .. Width(c, k[2]) - 1
      <4>1. Rounds(c) >= 2
        BY <2>1, KeysAre
      <4>2. k = <<"M", k[2], k[3]>>
        BY <2>1, <2>2, KeysAre DEF PlayinKey, ThirdKey
      <4> QED BY <2>1, <2>2, <4>1, <4>2, NamesOfKeys
    <3>2. Rounds(c) \in 2 .. Rounds(c)
      BY <1>0, <3>1
    <3>3. Width(c, Rounds(c) - 1) = 2 * Width(c, Rounds(c)) /\ Width(c, Rounds(c)) = 1
      BY <3>2, WidthIs
    <3>4. k[3] \in {0, 1}
      BY <2>1, <3>1, <3>3
    <3> QED BY <2>1, <3>1, <3>4
  <2>4. Slot(c, ThirdKey, x) = LoserOf(<<"M", Rounds(c) - 1, x>>)
    BY ThirdSlots
  <2>5. Held(ev, ThirdKey, x) = p
    BY <2>1, <2>2, <2>3, <2>4, TreeFacts
  <2>6. IsOutcome(ev[ThirdKey]) /\ ev[ThirdKey].status \notin {"wait", "ready"}
    BY <1>3, <1>4, <2>1, <2>5, TreeFacts
  <2>7. p = ev[ThirdKey].a \/ p = ev[ThirdKey].b
    BY <2>5 DEF Held
  <2>8. p = ev[ThirdKey].winner \/ p = ev[ThirdKey].loser
    BY <2>6, <2>7 DEF IsOutcome, Known
  <2>9. CASE p = ev[ThirdKey].winner
    <3>1. IsExit(c, WinnerOf(ThirdKey)) /\ Value(ev, order, WinnerOf(ThirdKey)) = p
      BY <1>1, <2>1, <2>9 DEF IsExit
    <3>2. WinnerOf(ThirdKey) = s
      BY <1>3, <1>4, <3>1
    <3> QED BY <1>0, <1>2, <3>2, SourcesDiffer
  <2>10. CASE p = ev[ThirdKey].loser
    <3>1. ~PlaysOn(c, ThirdKey)
      BY DEF PlaysOn, ThirdKey
    <3> QED BY <1>5, <2>1, <2>10, <3>1
  <2> QED BY <2>8, <2>9, <2>10
<1> QED BY <1>6, <1>7

\* How often a player can have lost.
LEMMA DefeatsCounted ==
  ASSUME NEW c, IsConfig(c), NEW ev, NEW order, IsTree(c, ev, order), IsDraw(c, order), NEW p, Known(p)
  PROVE  LET extra == IF c.lucky THEN 1 ELSE 0
         IN /\ Cardinality(LostAt(ev, p)) =< 1 + extra + (IF ThirdKey \in Keys(c) THEN 1 ELSE 0)
            /\ ev[FinalKey(c)].winner = p => Cardinality(LostAt(ev, p)) =< extra
<1> DEFINE E == EarlyDefeats(c, ev, p)
           F == SemifinalDefeats(c, ev, p)
           G == LastDefeats(c, ev, p)
<1>1. IsFiniteSet(E) /\ Cardinality(E) \in 0 .. 1
  BY OneEarlyDefeat, AtMostOne
<1>2. IsFiniteSet(F) /\ Cardinality(F) \in 0 .. 1
  BY OneSemifinalDefeat, AtMostOne
<1>3. IsFiniteSet(G) /\ Cardinality(G) \in 0 .. 1
  BY OneLastDefeat, AtMostOne
<1>4. Cardinality({}) = 0
  BY FS_EmptySet
<1>5. (~c.lucky => Cardinality(E) = 0) /\ (ThirdKey \notin Keys(c) => Cardinality(F) = 0)
  <2>1. (~c.lucky => E = {}) /\ (ThirdKey \notin Keys(c) => F = {})
    BY DEF EarlyDefeats, SemifinalDefeats
  <2> QED BY <1>4, <2>1
<1>6. ev[FinalKey(c)].winner = p => Cardinality(F) = 0 /\ Cardinality(G) = 0
  BY <1>4, ChampionsDefeats
<1>7. LostAt(ev, p) = E \cup F \cup G
  BY DefeatsSplit
<1> HIDE DEF E, F, G
<1>8. IsFiniteSet(E \cup F) /\ Cardinality(E \cup F) \in Nat /\ Cardinality(E \cup F) =< Cardinality(E) + Cardinality(F)
  <2>1. IsFiniteSet(E \cup F) /\ Cardinality(E \cup F) = Cardinality(E) + Cardinality(F) - Cardinality(E \cap F)
    BY <1>1, <1>2, FS_Union
  <2>2. Cardinality(E \cap F) \in Nat /\ Cardinality(E \cup F) \in Nat
    <3>1. IsFiniteSet(E \cap F)
      BY <1>1, FS_Intersection
    <3> QED BY <2>1, <3>1, FS_CardinalityType
  <2> QED BY <1>1, <1>2, <2>1, <2>2
<1>9. Cardinality(LostAt(ev, p)) \in Nat /\ Cardinality(LostAt(ev, p)) =< Cardinality(E) + Cardinality(F) + Cardinality(G)
  <2>1. IsFiniteSet((E \cup F) \cup G)
        /\ Cardinality((E \cup F) \cup G) = Cardinality(E \cup F) + Cardinality(G) - Cardinality((E \cup F) \cap G)
    BY <1>3, <1>8, FS_Union
  <2>2. Cardinality((E \cup F) \cap G) \in Nat /\ Cardinality((E \cup F) \cup G) \in Nat
    <3>1. IsFiniteSet((E \cup F) \cap G)
      BY <1>8, FS_Intersection
    <3> QED BY <2>1, <3>1, FS_CardinalityType
  <2> QED BY <1>1, <1>2, <1>3, <1>7, <1>8, <2>1, <2>2
<1> QED BY <1>1, <1>2, <1>3, <1>5, <1>6, <1>9

\* Whoever has not lost when all is decided has won.
LEMMA UnbeatenIsFirst ==
  ASSUME NEW c, NEW ev, NEW order, IsPlayed(c, ev, order), NEW p \in Entrants(c, order), LostAt(ev, p) = {}
  PROVE  ev[FinalKey(c)].winner = p
<1> SUFFICES ASSUME ev[FinalKey(c)].winner # p PROVE FALSE
  OBVIOUS
<1>1. Stage(c, ev, p) > 0
  BY PlaceIs
<1>2. DOMAIN ev = Keys(c) /\ IsConfig(c)
  BY TreeFacts DEF IsPlayed
<1>3. Stage(c, ev, p) \in Defeats(c, ev, p)
  BY <1>2, StageIs
<1>4. Defeats(c, ev, p) = {0}
  BY DEF Defeats
<1> QED BY <1>1, <1>3, <1>4

\* Only the champion is first, at any time.
LEMMA FirstIsChampion ==
  ASSUME NEW c, IsConfig(c), NEW ev, NEW order, IsTree(c, ev, order), NEW p, Known(p)
  PROVE  Place(c, ev, p) = 1 <=> ev[FinalKey(c)].winner = p
<1>1. Rounds(c) \in Nat \ {0} /\ DOMAIN ev = Keys(c)
  BY NumbersAre, TreeFacts
<1>2. \A r \in 0 .. Rounds(c) : Width(c, r) \in Nat /\ Width(c, r) # 0
  <2> TAKE r \in 0 .. Rounds(c)
  <2>1. CASE r = 0
    <3>1. Width(c, 0) = Doubled[Rounds(c) - 0]
      BY <1>1, WidthIs
    <3>2. Doubled[Rounds(c)] \in Nat \ {0}
      BY <1>1, DoubledSteps
    <3> QED BY <1>1, <2>1, <3>1, <3>2
  <2>2. CASE r # 0
    <3>1. r \in 1 .. Rounds(c)
      BY <1>1, <2>2
    <3> QED BY <3>1, WidthIs
  <2> QED BY <2>1, <2>2
<1> DEFINE r == IF Stage(c, ev, p) % 2 = 1 THEN Entry(c) - 1 ELSE Stage(c, ev, p) \div 2
<1>3. r \in 0 .. Rounds(c)
  <2>1. Stage(c, ev, p) \in Nat
    BY <1>1, StageIs
  <2>2. CASE Stage(c, ev, p) > 0
    <3>1. Level(c, ev, p) \in 1 .. Rounds(c) /\ Level(c, ev, p) = r
      BY <1>1, <2>2, LevelIs
    <3> QED BY <1>1, <3>1
  <2>3. CASE Stage(c, ev, p) = 0
    BY <1>1, <2>3
  <2> QED BY <2>1, <2>2, <2>3
<1>4. Place(c, ev, p) \in {3, 4, 0, Width(c, r) + 1} \/ ev[FinalKey(c)].winner = p
  BY DEF Place, Placement
<1>5. ev[FinalKey(c)].winner = p => Place(c, ev, p) = 1
  BY DEF Place, Placement
<1>6. Width(c, r) + 1 # 1
  BY <1>2, <1>3
<1> QED BY <1>4, <1>5, <1>6

-----------------------------------------------------------------------------
(* Sums over finite sets *)

\* g sums up w over the subsets of S, taking out one element after the other.
Summing(g, w, S) ==
  g = [s \in SUBSET S |->
         IF s = {} THEN 0 ELSE w[CHOOSE x \in s : TRUE] + g[s \ {CHOOSE x \in s : TRUE}]]

LEMMA OneLess ==
  ASSUME NEW S, IsFiniteSet(S), NEW s \in SUBSET S, s # {}
  PROVE  LET x == CHOOSE y \in s : TRUE
         IN /\ x \in s /\ s \ {x} \in SUBSET S /\ IsFiniteSet(s) /\ Cardinality(s) \in Nat
            /\ Cardinality(s \ {x}) \in Nat /\ Cardinality(s \ {x}) = Cardinality(s) - 1
<1>1. PICK x : x = CHOOSE y \in s : TRUE
  OBVIOUS
<1>2. x \in s
  BY <1>1
<1>3. IsFiniteSet(s)
  BY FS_Subset
<1>4. IsFiniteSet(s \ {x}) /\ Cardinality(s \ {x}) = Cardinality(s) - 1
  BY <1>2, <1>3, FS_RemoveElement
<1>5. Cardinality(s) \in Nat /\ Cardinality(s \ {x}) \in Nat
  BY <1>3, <1>4, FS_CardinalityType
<1>6. s \ {x} \in SUBSET S
  OBVIOUS
<1> QED BY <1>1, <1>2, <1>3, <1>4, <1>5, <1>6

\* The recursion has a solution.
LEMMA SumsExist ==
  ASSUME NEW S, IsFiniteSet(S), NEW w
  PROVE  \E g : Summing(g, w, S)
<1> DEFINE pick(s) == CHOOSE x \in s : TRUE
           rest(s) == s \ {pick(s)}
           Upto(m) == {s \in SUBSET S : Cardinality(s) =< m}
           Solves(g, m) == \A s \in Upto(m) : g[s] = IF s = {} THEN 0 ELSE w[pick(s)] + g[rest(s)]
           Good == {m \in Nat : \E g : Solves(g, m)}
<1>0. \A s \in SUBSET S : s # {} => rest(s) \in SUBSET S /\ Cardinality(s) \in Nat
                                    /\ Cardinality(rest(s)) \in Nat /\ Cardinality(rest(s)) = Cardinality(s) - 1
  BY OneLess
<1> DEFINE n == Cardinality(S)
<1>1. n \in Nat /\ \A s \in SUBSET S : Cardinality(s) \in Nat /\ Cardinality(s) =< n /\ (Cardinality(s) = 0 <=> s = {})
  <2>1. n \in Nat
    BY FS_CardinalityType
  <2>2. ASSUME NEW s \in SUBSET S
        PROVE  Cardinality(s) \in Nat /\ Cardinality(s) =< n /\ (Cardinality(s) = 0 <=> s = {})
    <3>1. IsFiniteSet(s) /\ Cardinality(s) =< n
      BY FS_Subset
    <3> QED BY <3>1, FS_CardinalityType, FS_EmptySet
  <2> QED BY <2>1, <2>2
<1> HIDE DEF pick, rest, n
<1>2. 0 \in Good
  <2> DEFINE g == [s \in SUBSET S |-> 0]
  <2>1. ASSUME NEW s \in Upto(0) PROVE s \in SUBSET S /\ s = {}
    BY <1>1
  <2>2. Solves(g, 0)
    BY <2>1
  <2> QED BY <2>2
<1>3. ASSUME NEW m \in 0 .. n, m # n, m \in Good
      PROVE  m + 1 \in Good
  <2>0. m \in Nat /\ m + 1 \in Nat
    BY <1>1
  <2>1. PICK g : Solves(g, m)
    BY <1>3
  <2> DEFINE h == [s \in SUBSET S |-> IF Cardinality(s) = m + 1 THEN w[pick(s)] + g[rest(s)] ELSE g[s]]
  <2>2. ASSUME NEW s \in Upto(m + 1)
        PROVE  h[s] = IF s = {} THEN 0 ELSE w[pick(s)] + h[rest(s)]
    <3>0. s \in SUBSET S /\ Cardinality(s) \in Nat /\ Cardinality(s) =< m + 1
      BY <1>1
    <3>1. CASE Cardinality(s) = m + 1
      <4>1. s # {}
        BY <1>1, <2>0, <3>0, <3>1
      <4>2. rest(s) \in SUBSET S /\ Cardinality(rest(s)) # m + 1
        BY <1>0, <2>0, <3>0, <3>1, <4>1
      <4>3. h[rest(s)] = g[rest(s)]
        BY <4>2
      <4>4. h[s] = w[pick(s)] + g[rest(s)]
        BY <3>0, <3>1
      <4> QED BY <4>1, <4>3, <4>4
    <3>2. CASE Cardinality(s) # m + 1
      <4>1. s \in Upto(m)
        BY <2>0, <3>0, <3>2
      <4>2. g[s] = IF s = {} THEN 0 ELSE w[pick(s)] + g[rest(s)]
        BY <2>1, <4>1
      <4>3. h[s] = g[s]
        BY <3>0, <3>2
      <4>4. s # {} => rest(s) \in SUBSET S /\ Cardinality(rest(s)) # m + 1
        BY <1>0, <2>0, <3>0
      <4>5. s # {} => h[rest(s)] = g[rest(s)]
        BY <4>4
      <4> QED BY <4>2, <4>3, <4>5
    <3> QED BY <3>1, <3>2
  <2> HIDE DEF h
  <2>3. Solves(h, m + 1)
    BY <2>2
  <2> QED BY <2>0, <2>3
<1>4. n \in Good
  <2>1. \A m \in 0 .. n : m # n /\ m \in Good => m + 1 \in Good
    BY <1>3
  <2> HIDE DEF Good
  <2>2. 0 .. n \subseteq Good
    BY <1>1, <1>2, <2>1, UpTo
  <2>3. n \in 0 .. n
    BY <1>1
  <2> QED BY <2>2, <2>3
<1>5. PICK g : Solves(g, n)
  BY <1>4
<1> DEFINE h == [s \in SUBSET S |-> g[s]]
<1>6. h = [s \in SUBSET S |-> IF s = {} THEN 0 ELSE w[pick(s)] + h[rest(s)]]
  <2>1. ASSUME NEW s \in SUBSET S
        PROVE  h[s] = IF s = {} THEN 0 ELSE w[pick(s)] + h[rest(s)]
    <3>1. s \in Upto(n)
      BY <1>1
    <3>2. g[s] = IF s = {} THEN 0 ELSE w[pick(s)] + g[rest(s)]
      BY <1>5, <3>1
    <3>3. s # {} => rest(s) \in SUBSET S
      BY <1>0
    <3>4. h[s] = g[s] /\ (s # {} => h[rest(s)] = g[rest(s)])
      BY <3>3
    <3> QED BY <3>2, <3>4
  <2>2. h = [s \in SUBSET S |-> h[s]]
    OBVIOUS
  <2> HIDE DEF h
  <2> QED BY <2>1, <2>2
<1> HIDE DEF h
<1>7. Summing(h, w, S)
  BY <1>6 DEF Summing, pick, rest
<1> QED BY <1>7

Together(V, S) == UNION {V[x] : x \in S}

\* A sum of numbers of things is the number of all of them.
LEMMA SumIsCount ==
  ASSUME NEW S, IsFiniteSet(S), NEW w, NEW V, NEW g, Summing(g, w, S),
         \A x \in S : IsFiniteSet(V[x]) /\ w[x] = Cardinality(V[x]),
         \A x, y \in S : x # y => V[x] \cap V[y] = {}
  PROVE  IsFiniteSet(Together(V, S)) /\ g[S] = Cardinality(Together(V, S))
<1> DEFINE U(s) == Together(V, s)
           Fine(s) == IsFiniteSet(U(s)) /\ g[s] = Cardinality(U(s))
           Good == {m \in Nat : \A s \in SUBSET S : Cardinality(s) = m => Fine(s)}
           n == Cardinality(S)
<1>1. n \in Nat /\ \A s \in SUBSET S : Cardinality(s) = 0 <=> s = {}
  <2>1. n \in Nat
    BY FS_CardinalityType
  <2>2. ASSUME NEW s \in SUBSET S
        PROVE  Cardinality(s) = 0 <=> s = {}
    <3>1. IsFiniteSet(s)
      BY FS_Subset
    <3> QED BY <3>1, FS_EmptySet
  <2> QED BY <2>1, <2>2
<1>2. \A s \in SUBSET S :
        g[s] = IF s = {} THEN 0 ELSE w[CHOOSE x \in s : TRUE] + g[s \ {CHOOSE x \in s : TRUE}]
  BY DEF Summing
<1> HIDE DEF n
<1>3. 0 \in Good
  <2> SUFFICES ASSUME NEW s \in SUBSET S, Cardinality(s) = 0 PROVE Fine(s)
    OBVIOUS
  <2>1. s = {} /\ U(s) = {}
    BY <1>1 DEF Together
  <2>2. g[s] = 0
    BY <1>2, <2>1
  <2> QED BY <2>1, <2>2, FS_EmptySet
<1>4. ASSUME NEW m \in 0 .. n, m # n, m \in Good
      PROVE  m + 1 \in Good
  <2>0. m \in Nat /\ m + 1 \in Nat
    BY <1>1
  <2> SUFFICES ASSUME NEW s \in SUBSET S, Cardinality(s) = m + 1 PROVE Fine(s)
    BY <2>0
  <2>1. s # {}
    BY <1>1, <2>0
  <2>2. PICK x : x = CHOOSE y \in s : TRUE
    OBVIOUS
  <2>3. x \in s /\ s \ {x} \in SUBSET S /\ Cardinality(s \ {x}) = m
    <3>1. x \in s /\ s \ {x} \in SUBSET S /\ Cardinality(s \ {x}) = Cardinality(s) - 1
      BY <2>1, <2>2, OneLess
    <3> QED BY <2>0, <3>1
  <2>4. Fine(s \ {x})
    BY <1>4, <2>3
  <2>5. g[s] = w[x] + g[s \ {x}]
    BY <1>2, <2>1, <2>2
  <2>6. U(s) = V[x] \cup U(s \ {x}) /\ V[x] \cap U(s \ {x}) = {}
    <3>1. \A y \in s \ {x} : V[x] \cap V[y] = {}
      BY <2>3
    <3> QED BY <2>3, <3>1 DEF Together
  <2>7. IsFiniteSet(V[x]) /\ w[x] = Cardinality(V[x])
    BY <2>3
  <2> HIDE DEF U
  <2>8. IsFiniteSet(V[x] \cup U(s \ {x}))
        /\ Cardinality(V[x] \cup U(s \ {x})) = Cardinality(V[x]) + Cardinality(U(s \ {x})) - Cardinality(V[x] \cap U(s \ {x}))
    BY <2>4, <2>7, FS_Union
  <2>9. Cardinality(V[x] \cap U(s \ {x})) = 0 /\ Cardinality(V[x]) \in Nat /\ Cardinality(U(s \ {x})) \in Nat
    BY <2>4, <2>6, <2>7, FS_EmptySet, FS_CardinalityType
  <2> QED BY <2>4, <2>5, <2>6, <2>7, <2>8, <2>9
<1>5. n \in Good
  <2>1. \A m \in 0 .. n : m # n /\ m \in Good => m + 1 \in Good
    BY <1>4
  <2> HIDE DEF Good
  <2>2. 0 .. n \subseteq Good
    BY <1>1, <1>3, <2>1, UpTo
  <2>3. n \in 0 .. n
    BY <1>1
  <2> QED BY <2>2, <2>3
<1>6. Fine(S)
  BY <1>5 DEF n
<1> QED BY <1>6

=============================================================================
