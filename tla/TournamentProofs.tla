-------------------------- MODULE TournamentProofs --------------------------
(***************************************************************************)
(* Theorems about Tournament and TournamentView, for every choice of         *)
(* players, tournaments, setups and outcomes, for trees of every size and    *)
(* any number of recorded matches.                                           *)
(***************************************************************************)
EXTENDS TournamentView, BracketProofs

-----------------------------------------------------------------------------
(* Trees that differ little *)

\* What Without looks up.
LEMMA WithoutIs ==
  ASSUME NEW f, NEW ks
  PROVE  /\ Without(f, ks) = [k \in DOMAIN f \ ks |-> f[k]]
         /\ DOMAIN Without(f, ks) = DOMAIN f \ ks
         /\ \A k \in DOMAIN f \ ks : Without(f, ks)[k] = f[k]
BY DEF Without, Table

\* Pairings that differ in nothing but times, and trees of such.
Resembles(p, q) == /\ p.a = q.a /\ p.b = q.b /\ p.status = q.status
                   /\ p.winner = q.winner /\ p.loser = q.loser

SameTree(ev, ew) == DOMAIN ew = DOMAIN ev /\ \A k \in DOMAIN ev : Resembles(ev[k], ew[k])

SameResult(r, q) == r.player1 = q.player1 /\ r.player2 = q.player2 /\ r.winner = q.winner

\* Some of the results, possibly with other times.
SomeOf(some, results) ==
  /\ DOMAIN some \subseteq DOMAIN results
  /\ \A k \in DOMAIN some : SameResult(some[k], results[k])

LEMMA SamePairing ==
  ASSUME NEW ev, NEW ew, SameTree(ev, ew), NEW results, NEW some, NEW k,
         k \in DOMAIN some => k \in DOMAIN results /\ SameResult(some[k], results[k]),
         NEW f, NEW order, NEW s, NEW u,
         k \in DOMAIN some \/ Pairing(ev, f, order, results, s, k).status # "done"
  PROVE  Resembles(Pairing(ev, f, order, results, s, k), Pairing(ew, f, order, some, u, k))
<1> DEFINE p == Pairing(ev, f, order, results, s, k)
           player(x) == CASE x.kind = "player" -> order[x.of]
                          [] x.kind = "winner" -> Memo(ev, x.of).winner
                          [] x.kind = "loser"  -> Memo(ev, x.of).loser
                          [] x.kind = "bye"    -> Nobody
           since(x) == IF x.kind \in {"winner", "loser"} THEN Memo(ev, x.of).decidedAt ELSE 0
           a == player(f.a)
           b == player(f.b)
           ready == Later(s, Later(since(f.a), since(f.b)))
           has == k \in DOMAIN results
           r == IF has THEN results[k] ELSE Nobody
           out == Outcome(a, b, ready, has, r)
<1> DEFINE q == Pairing(ew, f, order, some, u, k)
           playerw(x) == CASE x.kind = "player" -> order[x.of]
                           [] x.kind = "winner" -> Memo(ew, x.of).winner
                           [] x.kind = "loser"  -> Memo(ew, x.of).loser
                           [] x.kind = "bye"    -> Nobody
           sincew(x) == IF x.kind \in {"winner", "loser"} THEN Memo(ew, x.of).decidedAt ELSE 0
           readyw == Later(u, Later(sincew(f.a), sincew(f.b)))
           hasw == k \in DOMAIN some
           rw == IF hasw THEN some[k] ELSE Nobody
           outw == Outcome(a, b, readyw, hasw, rw)
<1>1. \A x : Memo(ev, x).winner = Memo(ew, x).winner /\ Memo(ev, x).loser = Memo(ew, x).loser
  BY DEF Memo, SameTree, Resembles
<1>2. player(f.a) = playerw(f.a) /\ player(f.b) = playerw(f.b)
  BY <1>1
<1>3. p = [a |-> a, b |-> b, readyAt |-> ready, status |-> out.status,
           winner |-> out.winner, loser |-> out.loser, decidedAt |-> out.decidedAt]
  BY DEF Pairing
<1>4. q = [a |-> playerw(f.a), b |-> playerw(f.b), readyAt |-> readyw,
           status |-> Outcome(playerw(f.a), playerw(f.b), readyw, hasw, rw).status,
           winner |-> Outcome(playerw(f.a), playerw(f.b), readyw, hasw, rw).winner,
           loser |-> Outcome(playerw(f.a), playerw(f.b), readyw, hasw, rw).loser,
           decidedAt |-> Outcome(playerw(f.a), playerw(f.b), readyw, hasw, rw).decidedAt]
  BY DEF Pairing
<1>5. q = [a |-> a, b |-> b, readyAt |-> readyw, status |-> outw.status,
           winner |-> outw.winner, loser |-> outw.loser, decidedAt |-> outw.decidedAt]
  <2> HIDE DEF q, player, playerw, readyw, hasw, rw
  <2> QED BY <1>2, <1>4
<1> HIDE DEF player, since, a, b, ready, playerw, sincew, readyw
<1>6. hasw => has /\ Fits(rw, a, b) = Fits(r, a, b) /\ rw.winner = r.winner
  BY DEF SameResult, Fits
<1>7. hasw \/ out.status # "done"
  BY <1>3
<1>8. outw.status = out.status /\ outw.winner = out.winner /\ outw.loser = out.loser
  <2> HIDE DEF has, hasw, r, rw
  <2>1. CASE a = Nobody \/ b = Nobody \/ a = Pending \/ b = Pending
    BY <2>1 DEF Outcome
  <2>2. CASE ~(a = Nobody \/ b = Nobody \/ a = Pending \/ b = Pending)
    <3>1. out = IF has /\ Fits(r, a, b)
                THEN [status |-> "done", winner |-> r.winner, loser |-> IF r.winner = a THEN b ELSE a,
                      decidedAt |-> r.decidedAt]
                ELSE [status |-> "ready", winner |-> Pending, loser |-> Pending, decidedAt |-> 0]
      BY <2>2 DEF Outcome
    <3>2. outw = IF hasw /\ Fits(rw, a, b)
                 THEN [status |-> "done", winner |-> rw.winner, loser |-> IF rw.winner = a THEN b ELSE a,
                       decidedAt |-> rw.decidedAt]
                 ELSE [status |-> "ready", winner |-> Pending, loser |-> Pending, decidedAt |-> 0]
      BY <2>2 DEF Outcome
    <3>3. (has /\ Fits(r, a, b)) = (hasw /\ Fits(rw, a, b))
      BY <1>6, <1>7, <3>1
    <3> HIDE DEF out, outw
    <3> QED BY <1>6, <3>1, <3>2, <3>3
  <2> QED BY <2>1, <2>2
<1> HIDE DEF p, q, out, outw
<1>9. Resembles(p, q)
  BY <1>3, <1>5, <1>8 DEF Resembles
<1> QED BY <1>9 DEF p, q

\* The tree depends on the results that count only, and not on times.
LEMMA SameResultsSameTree ==
  ASSUME NEW L, IsLayout(L), NEW order, NEW results, NEW some, SomeOf(some, results), NEW s, NEW u,
         UsedKeys(Evaluate(L, order, results, s)) \subseteq DOMAIN some
  PROVE  SameTree(Evaluate(L, order, results, s), Evaluate(L, order, some, u))
<1> DEFINE E == Evaluations(L, order, results, s)
           F == Evaluations(L, order, some, u)
           n == Len(L)
           S == {i \in 0 .. n : SameTree(E[i], F[i])}
<1> HIDE DEF E, F
<1>1. /\ DOMAIN E[0] = {}
      /\ \A i \in 1 .. n : E[i] = EvaluateRound(E[i - 1], L[i], order, results, s)
      /\ Evaluate(L, order, results, s) = E[n]
  BY EvaluationSteps DEF E
<1>2. /\ DOMAIN F[0] = {}
      /\ \A i \in 1 .. n : F[i] = EvaluateRound(F[i - 1], L[i], order, some, u)
      /\ Evaluate(L, order, some, u) = F[n]
  BY EvaluationSteps DEF F
<1>3. n \in Nat
  BY DEF IsLayout
<1>4. 0 \in S
  <2>1. SameTree(E[0], F[0])
    BY <1>1, <1>2 DEF SameTree
  <2> QED BY <1>3, <2>1
<1>5. ASSUME NEW i \in 0 .. n, i # n, i \in S
      PROVE  i + 1 \in S
  <2>1. i + 1 \in 1 .. n /\ i + 1 \in 0 .. n /\ (i + 1) - 1 = i
    BY <1>3, <1>5
  <2>2. Extends(E[i + 1], E[i], L[i + 1], order, results, s)
    <3>1. E[i + 1] = EvaluateRound(E[i], L[i + 1], order, results, s)
      BY <1>1, <2>1
    <3> QED BY <3>1, RoundKeeps
  <2>3. Extends(F[i + 1], F[i], L[i + 1], order, some, u)
    <3>1. F[i + 1] = EvaluateRound(F[i], L[i + 1], order, some, u)
      BY <1>2, <2>1
    <3> QED BY <3>1, RoundKeeps
  <2>4. SameTree(E[i], F[i])
    BY <1>5
  <2>5. DOMAIN E[i + 1] \subseteq DOMAIN E[n] /\ \A k \in DOMAIN E[i + 1] : E[n][k] = E[i + 1][k]
    BY <1>1, <2>1, KnownStays DEF E
  <2>6. ASSUME NEW k \in DOMAIN L[i + 1] \ DOMAIN E[i]
        PROVE  Resembles(E[i + 1][k], F[i + 1][k])
    <3>1. E[i + 1][k] = Pairing(E[i], L[i + 1][k], order, results, s, k)
      BY <2>2 DEF Extends
    <3>2. F[i + 1][k] = Pairing(F[i], L[i + 1][k], order, some, u, k)
      BY <2>3, <2>4 DEF Extends, SameTree
    <3>3. k \in DOMAIN some \/ E[i + 1][k].status # "done"
      BY <1>1, <2>2, <2>5 DEF Extends, UsedKeys
    <3>4. k \in DOMAIN some \/ Pairing(E[i], L[i + 1][k], order, results, s, k).status # "done"
      BY <3>1, <3>3
    <3>5. Resembles(Pairing(E[i], L[i + 1][k], order, results, s, k),
                    Pairing(F[i], L[i + 1][k], order, some, u, k))
      BY <2>4, <3>4, SamePairing DEF SomeOf
    <3> QED BY <3>1, <3>2, <3>5
  <2>7. SameTree(E[i + 1], F[i + 1])
    BY <2>2, <2>3, <2>4, <2>6 DEF Extends, SameTree
  <2> QED BY <2>1, <2>7
<1>6. \A i \in 0 .. n : i # n /\ i \in S => i + 1 \in S
  BY <1>5
<1>7. n \in S
  <2> HIDE DEF S
  <2>1. 0 .. n \subseteq S
    BY <1>3, <1>4, <1>6, UpTo
  <2> QED BY <1>3, <2>1
<1> QED BY <1>1, <1>2, <1>7

LEMMA SameTreeSameOutcome ==
  ASSUME NEW ev, NEW ew, SameTree(ev, ew), NEW c
  PROVE  UsedKeys(ew) = UsedKeys(ev) /\ (Complete(c, ew) <=> Complete(c, ev))
<1>1. UsedKeys(ew) = UsedKeys(ev)
  BY DEF SameTree, Resembles, UsedKeys
<1>2. \A x : Memo(ew, x).winner = Memo(ev, x).winner
  BY DEF Memo, SameTree, Resembles
<1>3. ThirdKey \in DOMAIN ev => ew[ThirdKey].winner = ev[ThirdKey].winner
  BY DEF SameTree, Resembles
<1>4. ThirdKey \in DOMAIN ew <=> ThirdKey \in DOMAIN ev
  BY DEF SameTree
<1>5. Memo(ew, FinalKey(c)).winner = Memo(ev, FinalKey(c)).winner
  BY <1>2
<1>6. Complete(c, ew) <=> Complete(c, ev)
  BY <1>3, <1>4, <1>5 DEF Complete
<1> QED BY <1>1, <1>6

-----------------------------------------------------------------------------
(* Trees that grow and trees that are pruned *)

\* What is decided in p is decided in the same way in q.
Firmer(p, q) == /\ p.status = "done" => q.status = "done"
                /\ p.winner # Pending => q.winner = p.winner
                /\ p.loser # Pending => q.loser = p.loser

FirmerTree(ev, ew) == DOMAIN ew = DOMAIN ev /\ \A k \in DOMAIN ev : Firmer(ev[k], ew[k])

LEMMA OutcomeFirmer ==
  ASSUME NEW a, NEW b, NEW c, NEW d, a # Pending => c = a, b # Pending => d = b,
         NEW s, NEW u, NEW has, NEW hasw, NEW r, NEW rw,
         \/ Outcome(a, b, s, has, r).status = "ready"
         \/ has /\ Fits(r, a, b) => hasw /\ Fits(rw, a, b) /\ rw.winner = r.winner
  PROVE  Firmer(Outcome(a, b, s, has, r), Outcome(c, d, u, hasw, rw))
<1>1. CASE a = Nobody /\ b = Nobody
  BY <1>1, SlotAssumption DEF Outcome, Firmer
<1>2. CASE a = Nobody /\ b # Nobody
  BY <1>2, SlotAssumption DEF Outcome, Firmer
<1>3. CASE a # Nobody /\ b = Nobody
  BY <1>3, SlotAssumption DEF Outcome, Firmer
<1>4. CASE a # Nobody /\ b # Nobody /\ (a = Pending \/ b = Pending)
  BY <1>4 DEF Outcome, Firmer
<1>5. CASE a # Nobody /\ b # Nobody /\ a # Pending /\ b # Pending
  <2>1. Outcome(a, b, s, has, r)
          = IF has /\ Fits(r, a, b)
            THEN [status |-> "done", winner |-> r.winner, loser |-> IF r.winner = a THEN b ELSE a,
                  decidedAt |-> r.decidedAt]
            ELSE [status |-> "ready", winner |-> Pending, loser |-> Pending, decidedAt |-> 0]
    BY <1>5 DEF Outcome
  <2>2. Outcome(c, d, u, hasw, rw)
          = IF hasw /\ Fits(rw, a, b)
            THEN [status |-> "done", winner |-> rw.winner, loser |-> IF rw.winner = a THEN b ELSE a,
                  decidedAt |-> rw.decidedAt]
            ELSE [status |-> "ready", winner |-> Pending, loser |-> Pending, decidedAt |-> 0]
    BY <1>5 DEF Outcome
  <2>3. CASE ~(has /\ Fits(r, a, b))
    BY <2>1, <2>3 DEF Firmer
  <2>4. CASE has /\ Fits(r, a, b)
    <3>1. Outcome(a, b, s, has, r).status # "ready"
      BY <2>1, <2>4
    <3>2. hasw /\ Fits(rw, a, b) /\ rw.winner = r.winner
      BY <2>4, <3>1
    <3> QED BY <2>1, <2>2, <2>4, <3>2 DEF Firmer
  <2> QED BY <2>3, <2>4
<1> QED BY <1>1, <1>2, <1>3, <1>4, <1>5

\* A further result for a pairing that waits for one takes nothing back.
LEMMA FirmerPairing ==
  ASSUME NEW ev, NEW ew, FirmerTree(ev, ew), NEW results, NEW more, NEW f, NEW order, NEW s, NEW u, NEW k,
         \/ k \in DOMAIN results => k \in DOMAIN more /\ SameResult(more[k], results[k])
         \/ Pairing(ev, f, order, results, s, k).status = "ready"
  PROVE  Firmer(Pairing(ev, f, order, results, s, k), Pairing(ew, f, order, more, u, k))
<1> DEFINE p == Pairing(ev, f, order, results, s, k)
           player(x) == CASE x.kind = "player" -> order[x.of]
                          [] x.kind = "winner" -> Memo(ev, x.of).winner
                          [] x.kind = "loser"  -> Memo(ev, x.of).loser
                          [] x.kind = "bye"    -> Nobody
           since(x) == IF x.kind \in {"winner", "loser"} THEN Memo(ev, x.of).decidedAt ELSE 0
           a == player(f.a)
           b == player(f.b)
           ready == Later(s, Later(since(f.a), since(f.b)))
           has == k \in DOMAIN results
           r == IF has THEN results[k] ELSE Nobody
           out == Outcome(a, b, ready, has, r)
<1> DEFINE q == Pairing(ew, f, order, more, u, k)
           playerw(x) == CASE x.kind = "player" -> order[x.of]
                           [] x.kind = "winner" -> Memo(ew, x.of).winner
                           [] x.kind = "loser"  -> Memo(ew, x.of).loser
                           [] x.kind = "bye"    -> Nobody
           sincew(x) == IF x.kind \in {"winner", "loser"} THEN Memo(ew, x.of).decidedAt ELSE 0
           c == playerw(f.a)
           d == playerw(f.b)
           readyw == Later(u, Later(sincew(f.a), sincew(f.b)))
           hasw == k \in DOMAIN more
           rw == IF hasw THEN more[k] ELSE Nobody
           outw == Outcome(c, d, readyw, hasw, rw)
<1>1. \A x : /\ Memo(ev, x).winner # Pending => Memo(ew, x).winner = Memo(ev, x).winner
             /\ Memo(ev, x).loser # Pending => Memo(ew, x).loser = Memo(ev, x).loser
  BY DEF Memo, FirmerTree, Firmer
<1>2. (a # Pending => c = a) /\ (b # Pending => d = b)
  BY <1>1
<1>3. p = [a |-> a, b |-> b, readyAt |-> ready, status |-> out.status,
           winner |-> out.winner, loser |-> out.loser, decidedAt |-> out.decidedAt]
  BY DEF Pairing
<1>4. q = [a |-> c, b |-> d, readyAt |-> readyw, status |-> outw.status,
           winner |-> outw.winner, loser |-> outw.loser, decidedAt |-> outw.decidedAt]
  BY DEF Pairing
<1> HIDE DEF a, b, ready, c, d, readyw, player, since, playerw, sincew
<1>5. out.status = p.status /\ out.winner = p.winner /\ out.loser = p.loser
  <2> HIDE DEF p, out
  <2> QED BY <1>3
<1>6. outw.status = q.status /\ outw.winner = q.winner /\ outw.loser = q.loser
  <2> HIDE DEF q, outw
  <2> QED BY <1>4
<1>7. \/ out.status = "ready"
      \/ has /\ Fits(r, a, b) => hasw /\ Fits(rw, a, b) /\ rw.winner = r.winner
  <2>1. CASE p.status = "ready"
    BY <1>5, <2>1
  <2>2. CASE k \in DOMAIN results => k \in DOMAIN more /\ SameResult(more[k], results[k])
    BY <2>2 DEF SameResult, Fits
  <2> QED BY <2>1, <2>2
<1> HIDE DEF p, q, has, hasw, r, rw
<1>8. Firmer(out, outw)
  BY <1>2, <1>7, OutcomeFirmer
<1> HIDE DEF out, outw
<1>9. Firmer(p, q)
  BY <1>5, <1>6, <1>8 DEF Firmer
<1> QED BY <1>9 DEF p, q

\* Results more are those of results, and another one for pairing k.
OneMore(more, results, k) ==
  /\ DOMAIN more = DOMAIN results \cup {k}
  /\ \A l \in DOMAIN results \ {k} : SameResult(more[l], results[l])

\* The tree grows firmer with a further result.
LEMMA OneMoreResult ==
  ASSUME NEW L, IsLayout(L), NEW order, NEW results, NEW more, NEW k, OneMore(more, results, k),
         NEW s, NEW u, k \in ReadyKeys(Evaluate(L, order, results, s))
  PROVE  FirmerTree(Evaluate(L, order, results, s), Evaluate(L, order, more, u))
<1> DEFINE E == Evaluations(L, order, results, s)
           F == Evaluations(L, order, more, u)
           n == Len(L)
           S == {i \in 0 .. n : FirmerTree(E[i], F[i])}
<1> HIDE DEF E, F
<1>1. /\ DOMAIN E[0] = {}
      /\ \A i \in 1 .. n : E[i] = EvaluateRound(E[i - 1], L[i], order, results, s)
      /\ Evaluate(L, order, results, s) = E[n]
  BY EvaluationSteps DEF E
<1>2. /\ DOMAIN F[0] = {}
      /\ \A i \in 1 .. n : F[i] = EvaluateRound(F[i - 1], L[i], order, more, u)
      /\ Evaluate(L, order, more, u) = F[n]
  BY EvaluationSteps DEF F
<1>3. n \in Nat
  BY DEF IsLayout
<1>4. 0 \in S
  <2>1. FirmerTree(E[0], F[0])
    BY <1>1, <1>2 DEF FirmerTree
  <2> QED BY <1>3, <2>1
<1>5. ASSUME NEW i \in 0 .. n, i # n, i \in S
      PROVE  i + 1 \in S
  <2>1. i + 1 \in 1 .. n /\ i + 1 \in 0 .. n /\ (i + 1) - 1 = i
    BY <1>3, <1>5
  <2>2. Extends(E[i + 1], E[i], L[i + 1], order, results, s)
    <3>1. E[i + 1] = EvaluateRound(E[i], L[i + 1], order, results, s)
      BY <1>1, <2>1
    <3> QED BY <3>1, RoundKeeps
  <2>3. Extends(F[i + 1], F[i], L[i + 1], order, more, u)
    <3>1. F[i + 1] = EvaluateRound(F[i], L[i + 1], order, more, u)
      BY <1>2, <2>1
    <3> QED BY <3>1, RoundKeeps
  <2>4. FirmerTree(E[i], F[i])
    BY <1>5
  <2>5. DOMAIN E[i + 1] \subseteq DOMAIN E[n] /\ \A l \in DOMAIN E[i + 1] : E[n][l] = E[i + 1][l]
    BY <1>1, <2>1, KnownStays DEF E
  <2>6. ASSUME NEW l \in DOMAIN L[i + 1] \ DOMAIN E[i]
        PROVE  Firmer(E[i + 1][l], F[i + 1][l])
    <3>1. E[i + 1][l] = Pairing(E[i], L[i + 1][l], order, results, s, l)
      BY <2>2 DEF Extends
    <3>2. F[i + 1][l] = Pairing(F[i], L[i + 1][l], order, more, u, l)
      BY <2>3, <2>4 DEF Extends, FirmerTree
    <3>3. \/ l \in DOMAIN results => l \in DOMAIN more /\ SameResult(more[l], results[l])
          \/ Pairing(E[i], L[i + 1][l], order, results, s, l).status = "ready"
      <4>1. CASE l = k
        <5>1. E[n][l].status = "ready" /\ E[n][l] = E[i + 1][l]
          BY <1>1, <2>2, <2>5, <4>1 DEF Extends, ReadyKeys
        <5> QED BY <3>1, <5>1
      <4>2. CASE l # k
        BY <4>2 DEF OneMore
      <4> QED BY <4>1, <4>2
    <3>4. Firmer(Pairing(E[i], L[i + 1][l], order, results, s, l),
                 Pairing(F[i], L[i + 1][l], order, more, u, l))
      BY <2>4, <3>3, FirmerPairing
    <3> QED BY <3>1, <3>2, <3>4
  <2>7. FirmerTree(E[i + 1], F[i + 1])
    BY <2>2, <2>3, <2>4, <2>6 DEF Extends, FirmerTree
  <2> QED BY <2>1, <2>7
<1>6. \A i \in 0 .. n : i # n /\ i \in S => i + 1 \in S
  BY <1>5
<1>7. n \in S
  <2> HIDE DEF S
  <2>1. 0 .. n \subseteq S
    BY <1>3, <1>4, <1>6, UpTo
  <2> QED BY <1>3, <2>1
<1> QED BY <1>1, <1>2, <1>7

\* Who meets in a pairing depends on earlier ones only.
SameSides(p, q) == p.a = q.a /\ p.b = q.b

LEMMA SidesOfSameTree ==
  ASSUME NEW ev, NEW ew, SameTree(ev, ew), NEW f, NEW order, NEW results, NEW more, NEW s, NEW u, NEW k
  PROVE  SameSides(Pairing(ev, f, order, results, s, k), Pairing(ew, f, order, more, u, k))
<1> DEFINE player(x) == CASE x.kind = "player" -> order[x.of]
                          [] x.kind = "winner" -> Memo(ev, x.of).winner
                          [] x.kind = "loser"  -> Memo(ev, x.of).loser
                          [] x.kind = "bye"    -> Nobody
           playerw(x) == CASE x.kind = "player" -> order[x.of]
                           [] x.kind = "winner" -> Memo(ew, x.of).winner
                           [] x.kind = "loser"  -> Memo(ew, x.of).loser
                           [] x.kind = "bye"    -> Nobody
<1>1. \A x : Memo(ev, x).winner = Memo(ew, x).winner /\ Memo(ev, x).loser = Memo(ew, x).loser
  BY DEF Memo, SameTree, Resembles
<1>2. player(f.a) = playerw(f.a) /\ player(f.b) = playerw(f.b)
  BY <1>1
<1>3. /\ Pairing(ev, f, order, results, s, k).a = player(f.a)
      /\ Pairing(ev, f, order, results, s, k).b = player(f.b)
  BY DEF Pairing
<1>4. /\ Pairing(ew, f, order, more, u, k).a = playerw(f.a)
      /\ Pairing(ew, f, order, more, u, k).b = playerw(f.b)
  BY DEF Pairing
<1> HIDE DEF player, playerw
<1> QED BY <1>2, <1>3, <1>4 DEF SameSides

\* A pairing of two known players with a result that fits them is decided.
LEMMA PairingDecided ==
  ASSUME NEW ev, NEW f, NEW order, NEW results, NEW s, NEW k, k \in DOMAIN results,
         NEW p, Pairing(ev, f, order, results, s, k).a = p.a, Pairing(ev, f, order, results, s, k).b = p.b,
         Known(p.a), Known(p.b), Fits(results[k], p.a, p.b)
  PROVE  Pairing(ev, f, order, results, s, k).status = "done"
<1> DEFINE q == Pairing(ev, f, order, results, s, k)
           player(x) == CASE x.kind = "player" -> order[x.of]
                          [] x.kind = "winner" -> Memo(ev, x.of).winner
                          [] x.kind = "loser"  -> Memo(ev, x.of).loser
                          [] x.kind = "bye"    -> Nobody
           since(x) == IF x.kind \in {"winner", "loser"} THEN Memo(ev, x.of).decidedAt ELSE 0
           a == player(f.a)
           b == player(f.b)
           ready == Later(s, Later(since(f.a), since(f.b)))
           has == k \in DOMAIN results
           r == IF has THEN results[k] ELSE Nobody
           out == Outcome(a, b, ready, has, r)
<1>1. q = [a |-> a, b |-> b, readyAt |-> ready, status |-> out.status,
           winner |-> out.winner, loser |-> out.loser, decidedAt |-> out.decidedAt]
  BY DEF Pairing
<1> HIDE DEF player, since, a, b, ready
<1>2. q.a = a /\ q.b = b /\ q.status = out.status
  <2> HIDE DEF q, out
  <2> QED BY <1>1
<1>3. has /\ r = results[k]
  OBVIOUS
<1>4. Known(a) /\ Known(b) /\ Fits(r, a, b)
  <2> HIDE DEF r
  <2> QED BY <1>2, <1>3
<1> HIDE DEF r, has, q
<1>5. out.status = "done"
  BY <1>3, <1>4 DEF Outcome, Known
<1> QED BY <1>2, <1>5 DEF q

\* So it is in the tree, where nothing that comes before it depends on its result.
LEMMA ResultDecides ==
  ASSUME NEW L, IsLayout(L), NEW order, NEW results, NEW more, NEW k, OneMore(more, results, k),
         NEW s, NEW u,
         NEW p, k \in DOMAIN Evaluate(L, order, results, s), p = Evaluate(L, order, results, s)[k],
         Known(p.a), Known(p.b), Fits(more[k], p.a, p.b)
  PROVE  k \in UsedKeys(Evaluate(L, order, more, u))
<1> DEFINE E == Evaluations(L, order, results, s)
           F == Evaluations(L, order, more, u)
           n == Len(L)
           S == {i \in 0 .. n : IF k \in DOMAIN E[i] THEN k \in DOMAIN F[i] /\ F[i][k].status = "done"
                                ELSE SameTree(E[i], F[i])}
<1> HIDE DEF E, F
<1>1. /\ DOMAIN E[0] = {}
      /\ \A i \in 1 .. n : E[i] = EvaluateRound(E[i - 1], L[i], order, results, s)
      /\ Evaluate(L, order, results, s) = E[n]
  BY EvaluationSteps DEF E
<1>2. /\ DOMAIN F[0] = {}
      /\ \A i \in 1 .. n : F[i] = EvaluateRound(F[i - 1], L[i], order, more, u)
      /\ Evaluate(L, order, more, u) = F[n]
  BY EvaluationSteps DEF F
<1>3. n \in Nat
  BY DEF IsLayout
<1>4. 0 \in S
  <2>1. SameTree(E[0], F[0])
    BY <1>1, <1>2 DEF SameTree
  <2> QED BY <1>1, <1>3, <2>1
<1>5. ASSUME NEW i \in 0 .. n, i # n, i \in S
      PROVE  i + 1 \in S
  <2>1. i + 1 \in 1 .. n /\ i + 1 \in 0 .. n /\ (i + 1) - 1 = i
    BY <1>3, <1>5
  <2>2. Extends(E[i + 1], E[i], L[i + 1], order, results, s)
    <3>1. E[i + 1] = EvaluateRound(E[i], L[i + 1], order, results, s)
      BY <1>1, <2>1
    <3> QED BY <3>1, RoundKeeps
  <2>3. Extends(F[i + 1], F[i], L[i + 1], order, more, u)
    <3>1. F[i + 1] = EvaluateRound(F[i], L[i + 1], order, more, u)
      BY <1>2, <2>1
    <3> QED BY <3>1, RoundKeeps
  <2>4. DOMAIN E[i + 1] \subseteq DOMAIN E[n] /\ \A l \in DOMAIN E[i + 1] : E[n][l] = E[i + 1][l]
    BY <1>1, <2>1, KnownStays DEF E
  <2>5. CASE k \in DOMAIN E[i]
    <3>1. k \in DOMAIN F[i] /\ F[i][k].status = "done"
      BY <1>5, <2>5
    <3>2. k \in DOMAIN F[i + 1] /\ F[i + 1][k].status = "done"
      BY <2>3, <3>1 DEF Extends
    <3>3. k \in DOMAIN E[i + 1]
      BY <2>2, <2>5 DEF Extends
    <3> QED BY <2>1, <3>2, <3>3
  <2>6. CASE k \notin DOMAIN E[i]
    <3>1. SameTree(E[i], F[i])
      BY <1>5, <2>6
    <3>2. ASSUME NEW l \in DOMAIN L[i + 1] \ DOMAIN E[i]
          PROVE  /\ E[i + 1][l] = Pairing(E[i], L[i + 1][l], order, results, s, l)
                 /\ F[i + 1][l] = Pairing(F[i], L[i + 1][l], order, more, u, l)
      BY <2>2, <2>3, <3>1 DEF Extends, SameTree
    <3>3. ASSUME NEW l \in DOMAIN L[i + 1] \ DOMAIN E[i], l # k
          PROVE  Resembles(E[i + 1][l], F[i + 1][l])
      <4>1. l \in DOMAIN more <=> l \in DOMAIN results
        BY <3>3 DEF OneMore
      <4>2. l \in DOMAIN more => l \in DOMAIN results /\ SameResult(more[l], results[l])
        BY <3>3, <4>1 DEF OneMore
      <4>3. l \in DOMAIN more \/ Pairing(E[i], L[i + 1][l], order, results, s, l).status # "done"
        <5>1. Sound(Pairing(E[i], L[i + 1][l], order, results, s, l), l, results)
          BY PairingIsSound
        <5> QED BY <4>1, <5>1 DEF Sound
      <4>4. Resembles(Pairing(E[i], L[i + 1][l], order, results, s, l),
                      Pairing(F[i], L[i + 1][l], order, more, u, l))
        BY <3>1, <4>2, <4>3, SamePairing
      <4> QED BY <3>2, <3>3, <4>4
    <3>4. CASE k \in DOMAIN E[i + 1]
      <4>1. k \in DOMAIN L[i + 1] /\ k \in DOMAIN F[i + 1]
        BY <2>2, <2>3, <2>6, <3>4 DEF Extends
      <4>2. E[i + 1][k] = p
        BY <1>1, <2>4, <3>4
      <4>3. /\ Pairing(F[i], L[i + 1][k], order, more, u, k).a = p.a
            /\ Pairing(F[i], L[i + 1][k], order, more, u, k).b = p.b
        <5>1. /\ Pairing(E[i], L[i + 1][k], order, results, s, k).a = p.a
              /\ Pairing(E[i], L[i + 1][k], order, results, s, k).b = p.b
          BY <2>6, <3>2, <4>1, <4>2
        <5>2. SameSides(Pairing(E[i], L[i + 1][k], order, results, s, k),
                        Pairing(F[i], L[i + 1][k], order, more, u, k))
          BY <3>1, SidesOfSameTree
        <5> QED BY <5>1, <5>2 DEF SameSides
      <4>4. Pairing(F[i], L[i + 1][k], order, more, u, k).status = "done"
        <5>1. k \in DOMAIN more
          BY DEF OneMore
        <5> QED BY <4>3, <5>1, PairingDecided
      <4>5. F[i + 1][k].status = "done"
        BY <2>6, <3>2, <4>1, <4>4
      <4> QED BY <2>1, <3>4, <4>1, <4>5
    <3>5. CASE k \notin DOMAIN E[i + 1]
      <4>1. SameTree(E[i + 1], F[i + 1])
        BY <2>2, <2>3, <3>1, <3>3, <3>5 DEF Extends, SameTree
      <4> QED BY <2>1, <3>5, <4>1
    <3> QED BY <3>4, <3>5
  <2> QED BY <2>5, <2>6
<1>6. \A i \in 0 .. n : i # n /\ i \in S => i + 1 \in S
  BY <1>5
<1>7. n \in S
  <2> HIDE DEF S
  <2>1. 0 .. n \subseteq S
    BY <1>3, <1>4, <1>6, UpTo
  <2> QED BY <1>3, <2>1
<1>8. k \in DOMAIN F[n] /\ F[n][k].status = "done"
  BY <1>1, <1>7
<1> QED BY <1>2, <1>8 DEF UsedKeys

\* Trees that agree in every pairing, times included.
EqualTree(ev, ew) == DOMAIN ew = DOMAIN ev /\ \A k \in DOMAIN ev : ew[k] = ev[k]

PartOf(some, results) ==
  DOMAIN some \subseteq DOMAIN results /\ \A k \in DOMAIN some : some[k] = results[k]

IsEqual(p, q) == p = q

LEMMA EqualPairing ==
  ASSUME NEW ev, NEW ew, EqualTree(ev, ew), NEW results, NEW some, NEW k,
         k \in DOMAIN some => k \in DOMAIN results /\ some[k] = results[k],
         NEW f, NEW order, NEW s,
         k \in DOMAIN some \/ Pairing(ev, f, order, results, s, k).status # "done"
  PROVE  IsEqual(Pairing(ew, f, order, some, s, k), Pairing(ev, f, order, results, s, k))
<1> DEFINE p == Pairing(ev, f, order, results, s, k)
           player(x) == CASE x.kind = "player" -> order[x.of]
                          [] x.kind = "winner" -> Memo(ev, x.of).winner
                          [] x.kind = "loser"  -> Memo(ev, x.of).loser
                          [] x.kind = "bye"    -> Nobody
           since(x) == IF x.kind \in {"winner", "loser"} THEN Memo(ev, x.of).decidedAt ELSE 0
           a == player(f.a)
           b == player(f.b)
           ready == Later(s, Later(since(f.a), since(f.b)))
           has == k \in DOMAIN results
           r == IF has THEN results[k] ELSE Nobody
           out == Outcome(a, b, ready, has, r)
<1> DEFINE q == Pairing(ew, f, order, some, s, k)
           playerw(x) == CASE x.kind = "player" -> order[x.of]
                           [] x.kind = "winner" -> Memo(ew, x.of).winner
                           [] x.kind = "loser"  -> Memo(ew, x.of).loser
                           [] x.kind = "bye"    -> Nobody
           sincew(x) == IF x.kind \in {"winner", "loser"} THEN Memo(ew, x.of).decidedAt ELSE 0
           c == playerw(f.a)
           d == playerw(f.b)
           readyw == Later(s, Later(sincew(f.a), sincew(f.b)))
           hasw == k \in DOMAIN some
           rw == IF hasw THEN some[k] ELSE Nobody
           outc == Outcome(c, d, readyw, hasw, rw)
           outw == Outcome(a, b, ready, hasw, rw)
<1>1. \A x : Memo(ew, x) = Memo(ev, x)
  BY DEF Memo, EqualTree
<1>2. p = [a |-> a, b |-> b, readyAt |-> ready, status |-> out.status,
           winner |-> out.winner, loser |-> out.loser, decidedAt |-> out.decidedAt]
  BY DEF Pairing
<1>7. q = [a |-> c, b |-> d, readyAt |-> readyw, status |-> outc.status,
           winner |-> outc.winner, loser |-> outc.loser, decidedAt |-> outc.decidedAt]
  BY DEF Pairing
<1>8. c = a /\ d = b /\ sincew(f.a) = since(f.a) /\ sincew(f.b) = since(f.b)
  <2>1. \A x : playerw(x) = player(x)
    BY <1>1
  <2>2. \A x : sincew(x) = since(x)
    BY <1>1
  <2> HIDE DEF player, since, playerw, sincew
  <2> QED BY <2>1, <2>2
<1>9. readyw = ready
  <2> HIDE DEF player, since, playerw, sincew
  <2> QED BY <1>8
<1>3. q = [a |-> a, b |-> b, readyAt |-> ready, status |-> outw.status,
           winner |-> outw.winner, loser |-> outw.loser, decidedAt |-> outw.decidedAt]
  <2> HIDE DEF q, a, b, c, d, ready, readyw, hasw, rw
  <2> QED BY <1>7, <1>8, <1>9
<1> HIDE DEF player, since, a, b, ready
<1>4. out.status = p.status
  <2> HIDE DEF p, out
  <2> QED BY <1>2
<1>5. out = outw
  <2>1. CASE hasw
    BY <2>1
  <2>2. CASE ~hasw
    <3>1. out.status # "done"
      BY <1>4, <2>2
    <3> HIDE DEF has, hasw, r, rw, p
    <3>2. CASE a = Nobody \/ b = Nobody \/ a = Pending \/ b = Pending
      BY <3>2 DEF Outcome
    <3>3. CASE ~(a = Nobody \/ b = Nobody \/ a = Pending \/ b = Pending)
      <4>1. out = IF has /\ Fits(r, a, b)
                  THEN [status |-> "done", winner |-> r.winner, loser |-> IF r.winner = a THEN b ELSE a,
                        decidedAt |-> r.decidedAt]
                  ELSE [status |-> "ready", winner |-> Pending, loser |-> Pending, decidedAt |-> 0]
        BY <3>3 DEF Outcome
      <4>2. outw = [status |-> "ready", winner |-> Pending, loser |-> Pending, decidedAt |-> 0]
        BY <2>2, <3>3 DEF Outcome
      <4>3. ~(has /\ Fits(r, a, b))
        BY <3>1, <4>1
      <4> QED BY <4>1, <4>2, <4>3
    <3> QED BY <3>2, <3>3
  <2> QED BY <2>1, <2>2
<1> HIDE DEF p, q, out, outw
<1>6. q = p
  BY <1>2, <1>3, <1>5
<1> QED BY <1>6 DEF IsEqual, p, q

\* Results that do not count can be left out.
LEMMA CountedResultsSuffice ==
  ASSUME NEW L, IsLayout(L), NEW order, NEW results, NEW some, PartOf(some, results), NEW s,
         UsedKeys(Evaluate(L, order, results, s)) \subseteq DOMAIN some
  PROVE  EqualTree(Evaluate(L, order, results, s), Evaluate(L, order, some, s))
<1> DEFINE E == Evaluations(L, order, results, s)
           F == Evaluations(L, order, some, s)
           n == Len(L)
           S == {i \in 0 .. n : EqualTree(E[i], F[i])}
<1> HIDE DEF E, F
<1>1. /\ DOMAIN E[0] = {}
      /\ \A i \in 1 .. n : E[i] = EvaluateRound(E[i - 1], L[i], order, results, s)
      /\ Evaluate(L, order, results, s) = E[n]
  BY EvaluationSteps DEF E
<1>2. /\ DOMAIN F[0] = {}
      /\ \A i \in 1 .. n : F[i] = EvaluateRound(F[i - 1], L[i], order, some, s)
      /\ Evaluate(L, order, some, s) = F[n]
  BY EvaluationSteps DEF F
<1>3. n \in Nat
  BY DEF IsLayout
<1>4. 0 \in S
  <2>1. EqualTree(E[0], F[0])
    BY <1>1, <1>2 DEF EqualTree
  <2> QED BY <1>3, <2>1
<1>5. ASSUME NEW i \in 0 .. n, i # n, i \in S
      PROVE  i + 1 \in S
  <2>1. i + 1 \in 1 .. n /\ i + 1 \in 0 .. n /\ (i + 1) - 1 = i
    BY <1>3, <1>5
  <2>2. Extends(E[i + 1], E[i], L[i + 1], order, results, s)
    <3>1. E[i + 1] = EvaluateRound(E[i], L[i + 1], order, results, s)
      BY <1>1, <2>1
    <3> QED BY <3>1, RoundKeeps
  <2>3. Extends(F[i + 1], F[i], L[i + 1], order, some, s)
    <3>1. F[i + 1] = EvaluateRound(F[i], L[i + 1], order, some, s)
      BY <1>2, <2>1
    <3> QED BY <3>1, RoundKeeps
  <2>4. EqualTree(E[i], F[i])
    BY <1>5
  <2>5. DOMAIN E[i + 1] \subseteq DOMAIN E[n] /\ \A k \in DOMAIN E[i + 1] : E[n][k] = E[i + 1][k]
    BY <1>1, <2>1, KnownStays DEF E
  <2>6. ASSUME NEW k \in DOMAIN L[i + 1] \ DOMAIN E[i]
        PROVE  F[i + 1][k] = E[i + 1][k]
    <3>1. E[i + 1][k] = Pairing(E[i], L[i + 1][k], order, results, s, k)
      BY <2>2 DEF Extends
    <3>2. F[i + 1][k] = Pairing(F[i], L[i + 1][k], order, some, s, k)
      BY <2>3, <2>4 DEF Extends, EqualTree
    <3>3. k \in DOMAIN some \/ E[i + 1][k].status # "done"
      BY <1>1, <2>2, <2>5 DEF Extends, UsedKeys
    <3>4. k \in DOMAIN some \/ Pairing(E[i], L[i + 1][k], order, results, s, k).status # "done"
      BY <3>1, <3>3
    <3>5. k \in DOMAIN some => k \in DOMAIN results /\ some[k] = results[k]
      BY DEF PartOf
    <3>6. IsEqual(Pairing(F[i], L[i + 1][k], order, some, s, k),
                  Pairing(E[i], L[i + 1][k], order, results, s, k))
      BY <2>4, <3>4, <3>5, EqualPairing
    <3> QED BY <3>1, <3>2, <3>6 DEF IsEqual
  <2>7. EqualTree(E[i + 1], F[i + 1])
    BY <2>2, <2>3, <2>4, <2>6 DEF Extends, EqualTree
  <2> QED BY <2>1, <2>7
<1>6. \A i \in 0 .. n : i # n /\ i \in S => i + 1 \in S
  BY <1>5
<1>7. n \in S
  <2> HIDE DEF S
  <2>1. 0 .. n \subseteq S
    BY <1>3, <1>4, <1>6, UpTo
  <2> QED BY <1>3, <2>1
<1> QED BY <1>1, <1>2, <1>7

-----------------------------------------------------------------------------
(* What is stored *)

ResultRows(ps, ids) ==
  {r \in [player1 : ps, player2 : ps, winner : ps, match : {0} \cup ids, created : Nat] :
     r.winner \in {r.player1, r.player2}}

Results(ps, ids) == UNION {[ks -> ResultRows(ps, ids)] : ks \in SUBSET PairingKey}

Statuses == {"none", "draft", "running", "finished"}

\* Tournaments of players ps with links to matches ids; a player takes part once.
Tours(ps, ids) ==
  {c \in [status : Statuses, order : Seq(ps),
          third : BOOLEAN, lucky : BOOLEAN, llEntry : Nat, playinMatch : Nat, playinSide : {0, 1},
          startedAt : Nat, results : Results(ps, ids), ignored : SUBSET ids] :
     IsInjective(c.order)}

MatchRows(ps, t) ==
  {m \in [players : SUBSET ps, winner : ps \cup {Nobody}, waiting : BOOLEAN,
           started : Nat, updated : 0 .. t] :
     m.winner \in m.players \cup {Nobody} /\ m.started =< m.updated}

Recorded(ps, t) == UNION {[ids -> MatchRows(ps, t)] : ids \in SUBSET (1 .. MaxMatches)}

LEMMA ResultsAre ==
  ASSUME NEW ps, NEW ids, NEW f
  PROVE  f \in Results(ps, ids) <=> /\ f = [k \in DOMAIN f |-> f[k]]
                                    /\ DOMAIN f \subseteq PairingKey
                                    /\ \A k \in DOMAIN f : f[k] \in ResultRows(ps, ids)
BY DEF Results

LEMMA RecordedAre ==
  ASSUME NEW ps, NEW t, NEW f
  PROVE  f \in Recorded(ps, t) <=> /\ f = [m \in DOMAIN f |-> f[m]]
                                   /\ DOMAIN f \subseteq 1 .. MaxMatches
                                   /\ \A m \in DOMAIN f : f[m] \in MatchRows(ps, t)
BY DEF Recorded

LEMMA LayoutForIs ==
  ASSUME NEW c
  PROVE  LayoutFor(c) = Layout(c)
BY TableIs DEF LayoutFor, Layouts

LEMMA TreeOf ==
  ASSUME NEW ps, NEW ids, NEW c \in Tours(ps, ids)
  PROVE  IsLayout(LayoutFor(Config(c)))
<1>1. /\ Config(c).n = Len(c.order) /\ Config(c).lucky = c.lucky /\ Config(c).llEntry = c.llEntry
  BY DEF Config
<1>2. c.order \in Seq(ps) /\ c.lucky \in BOOLEAN /\ c.llEntry \in Nat
  BY DEF Tours
<1>3. Len(c.order) \in Nat
  BY <1>2
<1> HIDE DEF Tours
<1>4. /\ Len(Layout(Config(c))) \in Nat
      /\ DOMAIN Layout(Config(c)) = 1 .. Len(Layout(Config(c)))
      /\ \A i \in DOMAIN Layout(Config(c)) : DOMAIN Layout(Config(c))[i] \subseteq PairingKey
  BY <1>1, <1>2, <1>3, LayoutIsSequence
<1> QED BY <1>4, LayoutForIs DEF IsLayout

\* evalTournament: sound pairings, also in terms of the stored results.
LEMMA EvalIsSound ==
  ASSUME NEW ps, NEW ids, NEW c \in Tours(ps, ids), NEW ms
  PROVE  /\ DOMAIN Eval(c, ms) \subseteq PairingKey
         /\ \A k \in DOMAIN Eval(c, ms) : Sound(Eval(c, ms)[k], k, c.results)
<1> DEFINE R == Loaded(c.results, ms)
           ev == Evaluate(LayoutFor(Config(c)), c.order, R, c.startedAt)
<1>1. DOMAIN R = DOMAIN c.results
  BY TableIs DEF Loaded
<1>2. \A k \in DOMAIN c.results : /\ R[k].player1 = c.results[k].player1
                                  /\ R[k].player2 = c.results[k].player2
                                  /\ R[k].winner = c.results[k].winner
  BY TableIs DEF Loaded
<1> HIDE DEF R
<1>3. IsLayout(LayoutFor(Config(c)))
  BY TreeOf
<1>4. /\ DOMAIN ev \subseteq PairingKey
      /\ \A k \in DOMAIN ev : Sound(ev[k], k, R)
  BY <1>3, EvaluateIsSound
<1>5. Eval(c, ms) = ev
  BY DEF Eval, R
<1> HIDE DEF ev
<1>6. ASSUME NEW k \in DOMAIN ev
      PROVE  Sound(ev[k], k, c.results)
  <2>1. Sound(ev[k], k, R)
    BY <1>4
  <2> QED BY <1>1, <1>2, <2>1 DEF Sound, Fits
<1> QED BY <1>4, <1>5, <1>6

LEMMA EvalSame ==
  ASSUME NEW ps, NEW ids, NEW c \in Tours(ps, ids), NEW d, NEW ms, NEW ns,
         Config(d) = Config(c), d.order = c.order, SomeOf(d.results, c.results),
         UsedKeys(Eval(c, ms)) \subseteq DOMAIN d.results
  PROVE  SameTree(Eval(c, ms), Eval(d, ns))
<1> DEFINE R == Loaded(c.results, ms)
           Q == Loaded(d.results, ns)
           L == LayoutFor(Config(c))
<1>1. DOMAIN R = DOMAIN c.results /\ DOMAIN Q = DOMAIN d.results
  BY TableIs DEF Loaded
<1>2. \A k \in DOMAIN c.results : /\ R[k].player1 = c.results[k].player1
                                  /\ R[k].player2 = c.results[k].player2
                                  /\ R[k].winner = c.results[k].winner
  BY TableIs DEF Loaded
<1>3. \A k \in DOMAIN d.results : /\ Q[k].player1 = d.results[k].player1
                                  /\ Q[k].player2 = d.results[k].player2
                                  /\ Q[k].winner = d.results[k].winner
  BY TableIs DEF Loaded
<1> HIDE DEF R, Q
<1>4. SomeOf(Q, R)
  BY <1>1, <1>2, <1>3 DEF SomeOf, SameResult
<1>5. IsLayout(L)
  BY TreeOf
<1>6. Eval(c, ms) = Evaluate(L, c.order, R, c.startedAt) /\ Eval(d, ns) = Evaluate(L, c.order, Q, d.startedAt)
  BY DEF Eval, R, Q
<1> HIDE DEF L
<1>7. UsedKeys(Evaluate(L, c.order, R, c.startedAt)) \subseteq DOMAIN Q
  BY <1>1, <1>6
<1> QED BY <1>4, <1>5, <1>6, <1>7, SameResultsSameTree

SameDraw(d, c) == Config(d) = Config(c) /\ d.order = c.order /\ d.startedAt = c.startedAt

LoadedSame(R, results, ms) ==
  /\ DOMAIN R = DOMAIN results
  /\ \A k \in DOMAIN results :
       /\ SameResult(R[k], results[k])
       /\ R[k] = [player1 |-> results[k].player1, player2 |-> results[k].player2, winner |-> results[k].winner,
                  decidedAt |-> IF results[k].match # 0 THEN ms[results[k].match].updated
                                ELSE results[k].created]

LEMMA LoadedIs ==
  ASSUME NEW results, NEW ms
  PROVE  LoadedSame(Loaded(results, ms), results, ms)
BY TableIs DEF Loaded, LoadedSame, SameResult

\* Tournament d is c with one more result, for pairing k.
WithResult(d, c, k) ==
  /\ SameDraw(d, c) /\ DOMAIN d.results = DOMAIN c.results \cup {k}
  /\ \A l \in DOMAIN c.results \ {k} : d.results[l] = c.results[l]

LEMMA OneMoreLoaded ==
  ASSUME NEW c, NEW d, NEW k, WithResult(d, c, k), NEW R, NEW Q, NEW ms,
         LoadedSame(R, c.results, ms), LoadedSame(Q, d.results, ms)
  PROVE  OneMore(Q, R, k)
<1>1. DOMAIN R = DOMAIN c.results /\ DOMAIN Q = DOMAIN d.results /\ DOMAIN d.results = DOMAIN c.results \cup {k}
  BY DEF LoadedSame, WithResult
<1>2. ASSUME NEW l \in DOMAIN R \ {k}
      PROVE  SameResult(Q[l], R[l])
  <2>1. d.results[l] = c.results[l]
    BY <1>1 DEF WithResult
  <2>2. SameResult(Q[l], d.results[l]) /\ SameResult(R[l], c.results[l])
    BY <1>1 DEF LoadedSame
  <2> QED BY <2>1, <2>2 DEF SameResult
<1> QED BY <1>1, <1>2 DEF OneMore

LEMMA EvalFirmer ==
  ASSUME NEW ps, NEW ids, NEW c \in Tours(ps, ids), NEW d, NEW ms, NEW k, WithResult(d, c, k),
         k \in ReadyKeys(Eval(c, ms))
  PROVE  FirmerTree(Eval(c, ms), Eval(d, ms))
<1> DEFINE R == Loaded(c.results, ms)
           Q == Loaded(d.results, ms)
           L == LayoutFor(Config(c))
<1>1. LoadedSame(R, c.results, ms) /\ LoadedSame(Q, d.results, ms)
  BY LoadedIs
<1> HIDE DEF R, Q
<1>2. OneMore(Q, R, k)
  BY <1>1, OneMoreLoaded
<1>3. IsLayout(L)
  BY TreeOf
<1>4. Eval(c, ms) = Evaluate(L, c.order, R, c.startedAt) /\ Eval(d, ms) = Evaluate(L, c.order, Q, c.startedAt)
  BY DEF Eval, R, Q, WithResult, SameDraw
<1> HIDE DEF L
<1>5. k \in ReadyKeys(Evaluate(L, c.order, R, c.startedAt))
  BY <1>4
<1>6. FirmerTree(Evaluate(L, c.order, R, c.startedAt), Evaluate(L, c.order, Q, c.startedAt))
  BY <1>2, <1>3, <1>5, OneMoreResult
<1> QED BY <1>4, <1>6

LEMMA EvalDecided ==
  ASSUME NEW ps, NEW ids, NEW c \in Tours(ps, ids), NEW d, NEW ms, NEW k, WithResult(d, c, k),
         NEW p, k \in DOMAIN Eval(c, ms), p = Eval(c, ms)[k], Known(p.a), Known(p.b),
         Fits(d.results[k], p.a, p.b)
  PROVE  k \in UsedKeys(Eval(d, ms))
<1> DEFINE R == Loaded(c.results, ms)
           Q == Loaded(d.results, ms)
           L == LayoutFor(Config(c))
<1>1. LoadedSame(R, c.results, ms) /\ LoadedSame(Q, d.results, ms)
  BY LoadedIs
<1> HIDE DEF R, Q
<1>2. OneMore(Q, R, k) /\ Fits(Q[k], p.a, p.b)
  <2>1. OneMore(Q, R, k)
    BY <1>1, OneMoreLoaded
  <2>2. SameResult(Q[k], d.results[k])
    BY <1>1 DEF LoadedSame, WithResult
  <2> QED BY <2>1, <2>2 DEF SameResult, Fits
<1>3. IsLayout(L)
  BY TreeOf
<1>4. Eval(c, ms) = Evaluate(L, c.order, R, c.startedAt) /\ Eval(d, ms) = Evaluate(L, c.order, Q, c.startedAt)
  BY DEF Eval, R, Q, WithResult, SameDraw
<1> HIDE DEF L
<1>5. k \in DOMAIN Evaluate(L, c.order, R, c.startedAt) /\ p = Evaluate(L, c.order, R, c.startedAt)[k]
  BY <1>4
<1>6. k \in UsedKeys(Evaluate(L, c.order, Q, c.startedAt))
  BY <1>2, <1>3, <1>5, ResultDecides
<1> QED BY <1>4, <1>6

LEMMA EvalPruned ==
  ASSUME NEW ps, NEW ids, NEW c \in Tours(ps, ids), NEW d, NEW ms, SameDraw(d, c),
         PartOf(d.results, c.results), UsedKeys(Eval(c, ms)) \subseteq DOMAIN d.results
  PROVE  EqualTree(Eval(c, ms), Eval(d, ms))
<1> DEFINE R == Loaded(c.results, ms)
           Q == Loaded(d.results, ms)
           L == LayoutFor(Config(c))
<1>1. LoadedSame(R, c.results, ms) /\ LoadedSame(Q, d.results, ms)
  BY LoadedIs
<1> HIDE DEF R, Q
<1>2. PartOf(Q, R) /\ DOMAIN Q = DOMAIN d.results
  BY <1>1 DEF LoadedSame, PartOf
<1>3. IsLayout(L)
  BY TreeOf
<1>4. Eval(c, ms) = Evaluate(L, c.order, R, c.startedAt) /\ Eval(d, ms) = Evaluate(L, c.order, Q, c.startedAt)
  BY DEF Eval, R, Q, SameDraw
<1> HIDE DEF L
<1>5. UsedKeys(Evaluate(L, c.order, R, c.startedAt)) \subseteq DOMAIN Q
  BY <1>2, <1>4
<1>6. EqualTree(Evaluate(L, c.order, R, c.startedAt), Evaluate(L, c.order, Q, c.startedAt))
  BY <1>2, <1>3, <1>5, CountedResultsSuffice
<1> QED BY <1>4, <1>6

-----------------------------------------------------------------------------
(* The steps of a synchronisation *)

\* D is c with other results.
OtherResults(d, c, results) ==
  d.results = results /\ d.ignored = c.ignored /\ d.status = c.status /\ SameDraw(d, c)

LEMMA ResultsReplaced ==
  ASSUME NEW ps, NEW ids, NEW c \in Tours(ps, ids), NEW f \in Results(ps, ids)
  PROVE  /\ [c EXCEPT !.results = f] \in Tours(ps, ids)
         /\ OtherResults([c EXCEPT !.results = f], c, f)
<1> DEFINE d == [c EXCEPT !.results = f]
<1>1. c \in [status : Statuses, order : Seq(ps),
             third : BOOLEAN, lucky : BOOLEAN, llEntry : Nat, playinMatch : Nat, playinSide : {0, 1},
             startedAt : Nat, results : Results(ps, ids), ignored : SUBSET ids]
      /\ IsInjective(c.order)
  BY DEF Tours
<1>2. /\ d \in [status : Statuses, order : Seq(ps),
                third : BOOLEAN, lucky : BOOLEAN, llEntry : Nat, playinMatch : Nat, playinSide : {0, 1},
                startedAt : Nat, results : Results(ps, ids), ignored : SUBSET ids]
  BY <1>1
<1>3. /\ d.results = f /\ d.ignored = c.ignored /\ d.status = c.status /\ d.order = c.order
      /\ d.third = c.third /\ d.lucky = c.lucky /\ d.llEntry = c.llEntry /\ d.startedAt = c.startedAt
      /\ d.playinMatch = c.playinMatch /\ d.playinSide = c.playinSide
  BY <1>1
<1> HIDE DEF d
<1>4. d \in Tours(ps, ids)
  BY <1>1, <1>2, <1>3 DEF Tours
<1>5. OtherResults(d, c, f)
  BY <1>3 DEF OtherResults, SameDraw, Config
<1> QED BY <1>4, <1>5 DEF d

LEMMA WithoutResults ==
  ASSUME NEW ps, NEW ids, NEW f \in Results(ps, ids), NEW ks
  PROVE  Without(f, ks) \in Results(ps, ids)
<1>1. /\ Without(f, ks) = [k \in DOMAIN f \ ks |-> f[k]]
      /\ DOMAIN Without(f, ks) = DOMAIN f \ ks
      /\ \A k \in DOMAIN f \ ks : Without(f, ks)[k] = f[k]
  BY WithoutIs
<1>2. DOMAIN f \subseteq PairingKey /\ \A k \in DOMAIN f : f[k] \in ResultRows(ps, ids)
  BY ResultsAre
<1> HIDE DEF Without
<1>3. Without(f, ks) = [k \in DOMAIN Without(f, ks) |-> Without(f, ks)[k]]
  BY <1>1
<1>4. \A k \in DOMAIN Without(f, ks) : Without(f, ks)[k] \in ResultRows(ps, ids)
  BY <1>1, <1>2
<1> QED BY <1>1, <1>2, <1>3, <1>4, ResultsAre

\* putResult
NewRow(a, b, w, m, at) == [player1 |-> a, player2 |-> b, winner |-> w, match |-> m, created |-> at]

Stores(d, c, k, r) ==
  /\ DOMAIN d.results = DOMAIN c.results \cup {k}
  /\ d.results[k] = r
  /\ \A l \in DOMAIN c.results \ {k} : d.results[l] = c.results[l]
  /\ d.ignored = c.ignored /\ d.status = c.status /\ SameDraw(d, c)

LEMMA PutStores ==
  ASSUME NEW ps, NEW ids, NEW c \in Tours(ps, ids), NEW k \in PairingKey,
         NEW a, NEW b, NEW w, NEW m, NEW at, NewRow(a, b, w, m, at) \in ResultRows(ps, ids)
  PROVE  /\ Put(c, k, a, b, w, m, at) \in Tours(ps, ids)
         /\ Stores(Put(c, k, a, b, w, m, at), c, k, NewRow(a, b, w, m, at))
<1> DEFINE r == NewRow(a, b, w, m, at)
           one == [l \in {k} |-> r]
           f == Over(one, c.results)
<1>1. Put(c, k, a, b, w, m, at) = [c EXCEPT !.results = f]
  BY DEF Put, NewRow
<1>2. c.results \in Results(ps, ids)
  BY DEF Tours
<1>3. DOMAIN c.results \subseteq PairingKey /\ \A l \in DOMAIN c.results : c.results[l] \in ResultRows(ps, ids)
  BY <1>2, ResultsAre
<1>4. DOMAIN one = {k} /\ one[k] = r
  OBVIOUS
<1> HIDE DEF one
<1>5. /\ DOMAIN f = {k} \cup DOMAIN c.results
      /\ f[k] = r
      /\ \A l \in DOMAIN c.results \ {k} : f[l] = c.results[l]
  <2>1. /\ DOMAIN f = DOMAIN one \cup DOMAIN c.results
        /\ \A l \in DOMAIN one : f[l] = one[l]
        /\ \A l \in DOMAIN c.results \ DOMAIN one : f[l] = c.results[l]
    BY OverIs
  <2> QED BY <1>4, <2>1
<1>6. f = [l \in DOMAIN f |-> f[l]]
  <2>1. f = [l \in DOMAIN one \cup DOMAIN c.results |->
               IF l \in DOMAIN one THEN one[l] ELSE c.results[l]]
    BY OverIsFunction
  <2> QED BY <2>1
<1> HIDE DEF f, r
<1>7. \A l \in DOMAIN f : f[l] \in ResultRows(ps, ids)
  BY <1>3, <1>5 DEF r
<1>8. f \in Results(ps, ids)
  BY <1>3, <1>5, <1>6, <1>7, ResultsAre
<1>9. /\ [c EXCEPT !.results = f] \in Tours(ps, ids)
      /\ OtherResults([c EXCEPT !.results = f], c, f)
  BY <1>8, ResultsReplaced
<1>10. Stores([c EXCEPT !.results = f], c, k, r)
  BY <1>5, <1>9 DEF OtherResults, Stores
<1> QED BY <1>1, <1>9, <1>10 DEF r

\* A linked result has the winner of its match.
Agrees(c, ms) ==
  \A k \in DOMAIN c.results :
    LET r == c.results[k]
    IN r.match # 0 /\ Readable(ms[r.match], r.player1, r.player2) => r.winner = ms[r.match].winner

SameLinks(d, c) ==
  DOMAIN d.results = DOMAIN c.results /\ \A k \in DOMAIN c.results : d.results[k].match = c.results[k].match

LEMMA RefreshAgrees ==
  ASSUME NEW ps, NEW t, NEW ms \in Recorded(ps, t), NEW c \in Tours(ps, DOMAIN ms)
  PROVE  LET d == RefreshLinked(c, ms)
         IN /\ d \in Tours(ps, DOMAIN ms)
            /\ Agrees(d, ms) /\ SameLinks(d, c)
            /\ d.ignored = c.ignored /\ d.status = c.status /\ SameDraw(d, c)
<1> DEFINE f == [k \in DOMAIN c.results |->
                   LET r == c.results[k]
                   IN IF r.match # 0 /\ Readable(ms[r.match], r.player1, r.player2)
                      THEN [r EXCEPT !.winner = ms[r.match].winner] ELSE r]
           ids == DOMAIN ms
<1>1. RefreshLinked(c, ms) = [c EXCEPT !.results = f]
  BY TableIs DEF RefreshLinked
<1>2. c.results \in Results(ps, ids)
  BY DEF Tours
<1>3. DOMAIN c.results \subseteq PairingKey /\ \A l \in DOMAIN c.results : c.results[l] \in ResultRows(ps, ids)
  BY <1>2, ResultsAre
<1>4. DOMAIN f = DOMAIN c.results /\ f = [k \in DOMAIN f |-> f[k]]
  OBVIOUS
<1>5. ASSUME NEW k \in DOMAIN c.results
      PROVE  /\ f[k] \in ResultRows(ps, ids)
             /\ f[k].match = c.results[k].match
             /\ f[k].match # 0 /\ Readable(ms[f[k].match], f[k].player1, f[k].player2)
                  => f[k].winner = ms[f[k].match].winner
  <2> DEFINE r == c.results[k]
             m == ms[r.match]
  <2>1. /\ r \in [player1 : ps, player2 : ps, winner : ps, match : {0} \cup ids, created : Nat]
        /\ r.winner \in {r.player1, r.player2}
    BY <1>3 DEF ResultRows
  <2>2. f[k] = IF r.match # 0 /\ Readable(m, r.player1, r.player2) THEN [r EXCEPT !.winner = m.winner] ELSE r
    OBVIOUS
  <2>3. r.match # 0 => m \in MatchRows(ps, t)
    BY <2>1, RecordedAre
  <2> HIDE DEF f, r, m
  <2>4. CASE r.match # 0 /\ Readable(m, r.player1, r.player2)
    <3>1. m.winner \in {r.player1, r.player2}
      BY <2>3, <2>4 DEF Readable, MatchRows
    <3>2. f[k] = [r EXCEPT !.winner = m.winner]
      BY <2>2, <2>4
    <3>3. m.winner \in ps
      BY <2>1, <3>1
    <3>4. /\ f[k] \in [player1 : ps, player2 : ps, winner : ps, match : {0} \cup ids, created : Nat]
          /\ f[k].winner = m.winner /\ f[k].player1 = r.player1 /\ f[k].player2 = r.player2
          /\ f[k].match = r.match
      BY <2>1, <3>2, <3>3
    <3> QED BY <3>1, <3>4 DEF ResultRows, r, m
  <2>5. CASE ~(r.match # 0 /\ Readable(m, r.player1, r.player2))
    BY <1>3, <2>2, <2>5 DEF r, m
  <2> QED BY <2>4, <2>5
<1> HIDE DEF f
<1>6. f \in Results(ps, ids)
  BY <1>3, <1>4, <1>5, ResultsAre
<1>7. /\ [c EXCEPT !.results = f] \in Tours(ps, ids)
      /\ OtherResults([c EXCEPT !.results = f], c, f)
  BY <1>6, ResultsReplaced
<1> DEFINE d == RefreshLinked(c, ms)
<1>8. d \in Tours(ps, ids) /\ OtherResults(d, c, f)
  BY <1>1, <1>7
<1> HIDE DEF d
<1>9. Agrees(d, ms) /\ SameLinks(d, c)
  BY <1>4, <1>5, <1>8 DEF Agrees, SameLinks, OtherResults
<1> QED BY <1>8, <1>9 DEF OtherResults, d

\* The order of the tree has a first among any pairings.
LEMMA FirstPairing ==
  ASSUME NEW S, S \subseteq PairingKey, S # {}
  PROVE  \E x \in S : \A y \in S : x = y \/ Precedes(x, y)
<1> DEFINE rank == [M |-> 1, L |-> 2, P |-> 3, T |-> 4]
<1>1. \A k \in S : /\ rank[k[1]] \in Nat /\ k[2] \in Nat /\ k[3] \in Nat
                   /\ k = <<k[1], k[2], k[3]>>
  BY DEF PairingKey
<1>2. \A k, l \in S : rank[k[1]] = rank[l[1]] => k[1] = l[1]
  BY DEF PairingKey
<1>3. \A k, l \in S : Precedes(k, l) <=>
        \/ rank[k[1]] < rank[l[1]]
        \/ k[1] = l[1] /\ (k[2] < l[2] \/ (k[2] = l[2] /\ k[3] < l[3]))
  BY DEF Precedes
<1> HIDE DEF rank
<1>4. PICK g \in {rank[k[1]] : k \in S} : \A h \in {rank[k[1]] : k \in S} : g =< h
  <2>1. {rank[k[1]] : k \in S} \subseteq Nat /\ {rank[k[1]] : k \in S} # {}
    BY <1>1
  <2> QED BY <2>1, Smallest
<1> DEFINE A == {k \in S : rank[k[1]] = g}
<1>5. PICK r \in {k[2] : k \in A} : \A h \in {k[2] : k \in A} : r =< h
  <2>1. {k[2] : k \in A} \subseteq Nat /\ {k[2] : k \in A} # {}
    BY <1>1, <1>4
  <2> QED BY <2>1, Smallest
<1> DEFINE B == {k \in A : k[2] = r}
<1>6. PICK i \in {k[3] : k \in B} : \A h \in {k[3] : k \in B} : i =< h
  <2>1. {k[3] : k \in B} \subseteq Nat /\ {k[3] : k \in B} # {}
    BY <1>1, <1>5
  <2> QED BY <2>1, Smallest
<1>7. PICK x \in B : x[3] = i
  BY <1>6
<1>8. x \in S /\ rank[x[1]] = g /\ x[2] = r
  BY <1>7
<1>9. ASSUME NEW y \in S, ~Precedes(x, y)
      PROVE  x = y
  <2>1. g =< rank[y[1]] /\ ~(g < rank[y[1]])
    BY <1>3, <1>4, <1>8, <1>9
  <2>2. rank[y[1]] = g
    BY <1>1, <1>8, <2>1
  <2>3. y[1] = x[1] /\ y \in A
    BY <1>2, <1>8, <2>2
  <2>4. r =< y[2] /\ ~(r < y[2])
    BY <1>3, <1>5, <1>8, <1>9, <2>3
  <2>5. y[2] = r /\ y \in B
    BY <1>1, <1>8, <2>3, <2>4
  <2>6. i =< y[3] /\ ~(i < y[3])
    BY <1>3, <1>6, <1>7, <1>8, <1>9, <2>3, <2>5
  <2>7. y[3] = i
    BY <1>1, <1>7, <1>8, <2>6
  <2> QED BY <1>1, <1>7, <1>8, <2>3, <2>5, <2>7
<1> QED BY <1>8, <1>9

\* Candidates are compared by their beginning, then by their id.
NotLater(ms, m, n) == \/ ms[m].started < ms[n].started
                      \/ ms[m].started = ms[n].started /\ m =< n

LEMMA EarliestIsOne ==
  ASSUME NEW ps, NEW t, NEW ms \in Recorded(ps, t), NEW ids, ids \subseteq DOMAIN ms, ids # {}
  PROVE  /\ Earliest(ms, ids) \in ids
         /\ \A n \in ids : NotLater(ms, Earliest(ms, ids), n)
<1>1. DOMAIN ms \subseteq 1 .. MaxMatches /\ \A m \in DOMAIN ms : ms[m] \in MatchRows(ps, t)
  BY RecordedAre
<1>2. \A m \in ids : m \in Nat /\ ms[m].started \in Nat
  BY <1>1, TournamentAssumption DEF MatchRows
<1>3. PICK g \in {ms[m].started : m \in ids} : \A h \in {ms[m].started : m \in ids} : g =< h
  <2>1. {ms[m].started : m \in ids} \subseteq Nat /\ {ms[m].started : m \in ids} # {}
    BY <1>2
  <2> QED BY <2>1, Smallest
<1>4. PICK x \in {m \in ids : ms[m].started = g} : \A y \in {m \in ids : ms[m].started = g} : x =< y
  <2>1. {m \in ids : ms[m].started = g} \subseteq Nat /\ {m \in ids : ms[m].started = g} # {}
    BY <1>2, <1>3
  <2> QED BY <2>1, Smallest
<1>5. \A n \in ids : ms[x].started < ms[n].started \/ (ms[x].started = ms[n].started /\ x =< n)
  BY <1>2, <1>3, <1>4
<1>6. \E m \in ids : \A n \in ids : NotLater(ms, m, n)
  BY <1>4, <1>5 DEF NotLater
<1>7. Earliest(ms, ids) = CHOOSE m \in ids : \A n \in ids : NotLater(ms, m, n)
  BY DEF Earliest, NotLater
<1> QED BY <1>6, <1>7

\* No match is used twice, and none where it is ignored.
UsedOnce(T) ==
  \A t, u \in Tournaments : \A k \in DOMAIN T[t].results : \A l \in DOMAIN T[u].results :
    T[t].results[k].match # 0 /\ T[t].results[k].match = T[u].results[l].match => t = u /\ k = l

Apart(T) ==
  \A t \in Tournaments : \A k \in DOMAIN T[t].results : T[t].results[k].match \notin T[t].ignored

Books(ps, ids) == {T \in [Tournaments -> Tours(ps, ids)] : UsedOnce(T) /\ Apart(T)}

\* One pairing of tournament t takes a match that nothing else uses, or none.
LEMMA StoredInBook ==
  ASSUME NEW ps, NEW ids, NEW T \in Books(ps, ids), NEW t \in Tournaments,
         NEW d \in Tours(ps, ids), NEW k, NEW m,
         DOMAIN d.results = DOMAIN T[t].results \cup {k}, d.results[k].match = m,
         \A l \in DOMAIN T[t].results \ {k} : d.results[l] = T[t].results[l],
         d.ignored \subseteq T[t].ignored, m \notin d.ignored,
         m = 0 \/ \A u \in Tournaments : \A l \in DOMAIN T[u].results :
                     T[u].results[l].match = m => u = t /\ l = k
  PROVE  [T EXCEPT ![t] = d] \in Books(ps, ids)
<1> DEFINE N == [T EXCEPT ![t] = d]
<1>1. T \in [Tournaments -> Tours(ps, ids)] /\ UsedOnce(T) /\ Apart(T)
  BY DEF Books
<1>2. N \in [Tournaments -> Tours(ps, ids)] /\ N[t] = d /\ \A u \in Tournaments \ {t} : N[u] = T[u]
  BY <1>1
<1> HIDE DEF N
<1>3. Apart(N)
  BY <1>1, <1>2 DEF Apart
<1>4. \A u \in Tournaments : \A l \in DOMAIN N[u].results :
        \/ u = t /\ l = k
        \/ /\ l \in DOMAIN T[u].results /\ N[u].results[l].match = T[u].results[l].match
           /\ m # 0 => N[u].results[l].match # m
  BY <1>2
<1>5. UsedOnce(N)
  <2> SUFFICES ASSUME NEW u \in Tournaments, NEW v \in Tournaments,
                      NEW x \in DOMAIN N[u].results, NEW y \in DOMAIN N[v].results,
                      N[u].results[x].match # 0, N[u].results[x].match = N[v].results[y].match
               PROVE  u = v /\ x = y
    BY DEF UsedOnce
  <2>1. N[t].results[k].match = m
    BY <1>2
  <2>2. CASE u = t /\ x = k
    <3>1. N[v].results[y].match = m /\ m # 0
      BY <2>1, <2>2
    <3>2. v = t /\ y = k
      BY <1>4, <3>1
    <3> QED BY <2>2, <3>2
  <2>3. CASE v = t /\ y = k
    <3>1. N[u].results[x].match = m /\ m # 0
      BY <2>1, <2>3
    <3>2. u = t /\ x = k
      BY <1>4, <3>1
    <3> QED BY <2>3, <3>2
  <2>4. CASE ~(u = t /\ x = k) /\ ~(v = t /\ y = k)
    <3>1. /\ x \in DOMAIN T[u].results /\ N[u].results[x].match = T[u].results[x].match
          /\ y \in DOMAIN T[v].results /\ N[v].results[y].match = T[v].results[y].match
      BY <1>4, <2>4
    <3>2. T[u].results[x].match # 0 /\ T[u].results[x].match = T[v].results[y].match
      BY <3>1
    <3> QED BY <1>1, <3>1, <3>2 DEF UsedOnce
  <2> QED BY <2>2, <2>3, <2>4
<1>6. N \in Books(ps, ids)
  BY <1>2, <1>3, <1>5 DEF Books
<1> QED BY <1>6 DEF N

\* Tournament t gets no link it has not.
LEMMA FewerInBook ==
  ASSUME NEW ps, NEW ids, NEW T \in Books(ps, ids), NEW t \in Tournaments,
         NEW d \in Tours(ps, ids), DOMAIN d.results \subseteq DOMAIN T[t].results,
         \A k \in DOMAIN d.results : /\ d.results[k].match = T[t].results[k].match
                                     /\ d.results[k].match \notin d.ignored
  PROVE  [T EXCEPT ![t] = d] \in Books(ps, ids)
<1> DEFINE N == [T EXCEPT ![t] = d]
<1>1. T \in [Tournaments -> Tours(ps, ids)] /\ UsedOnce(T) /\ Apart(T)
  BY DEF Books
<1>2. N \in [Tournaments -> Tours(ps, ids)] /\ N[t] = d /\ \A u \in Tournaments \ {t} : N[u] = T[u]
  BY <1>1
<1> HIDE DEF N
<1>3. Apart(N)
  BY <1>1, <1>2 DEF Apart
<1>4. \A u \in Tournaments : \A l \in DOMAIN N[u].results :
        l \in DOMAIN T[u].results /\ N[u].results[l].match = T[u].results[l].match
  BY <1>2
<1>5. UsedOnce(N)
  BY <1>1, <1>4 DEF UsedOnce
<1>6. N \in Books(ps, ids)
  BY <1>2, <1>3, <1>5 DEF Books
<1> QED BY <1>6 DEF N

\* What a turn of the loop, or several, may change in the books.
Proceeds(N, T, t, ps, ms) ==
  /\ N \in Books(ps, DOMAIN ms)
  /\ \A u \in Tournaments \ {t} : N[u] = T[u]
  /\ SameDraw(N[t], T[t]) /\ N[t].status = T[t].status
  /\ Agrees(T[t], ms) => Agrees(N[t], ms)

\* A ready pairing of tournament t takes a match with a winner that nothing else uses.
Takes(N, T, t, ps, ms, ev) ==
  \E k \in ReadyKeys(ev) : \E m \in DOMAIN ms : \E d \in Tours(ps, DOMAIN ms) : \E at \in Nat :
    /\ N = [T EXCEPT ![t] = d]
    /\ Stores(d, T[t], k, NewRow(ev[k].a, ev[k].b, ms[m].winner, m, at))
    /\ m \in Candidates(T, t, ms, ev[k]) /\ ms[m].winner \in {ev[k].a, ev[k].b}

LEMMA AssignInTakes ==
  ASSUME NEW ps, NEW time, NEW ms \in Recorded(ps, time), NEW T \in Books(ps, DOMAIN ms),
         NEW t \in Tournaments, NEW at \in Nat, NEW ev, DOMAIN ev \subseteq PairingKey,
         Assignable(T, t, ms, ev) # {}
  PROVE  Takes(AssignIn(ev, T, t, ms, at), T, t, ps, ms, ev)
<1> DEFINE ready == Assignable(T, t, ms, ev)
           k == CHOOSE x \in ready : \A y \in ready : x = y \/ Precedes(x, y)
           ids == Candidates(T, t, ms, ev[k])
           m == Earliest(ms, ids)
           d == Put(T[t], k, ev[k].a, ev[k].b, ms[m].winner, m, at)
           r == NewRow(ev[k].a, ev[k].b, ms[m].winner, m, at)
<1>1. AssignIn(ev, T, t, ms, at) = [T EXCEPT ![t] = d]
  BY DEF AssignIn
<1>2. ready \subseteq ReadyKeys(ev) /\ ready \subseteq PairingKey
  BY DEF Assignable, ReadyKeys
<1>3. k \in ready
  <2> HIDE DEF ready
  <2>1. \E x \in ready : \A y \in ready : x = y \/ Precedes(x, y)
    BY <1>2, FirstPairing DEF ready
  <2> QED BY <2>1
<1>4. ids # {} /\ ms[m].winner # Nobody
  <2> HIDE DEF k
  <2> QED BY <1>3 DEF Assignable
<1> HIDE DEF ready, k
<1>5. ids \subseteq DOMAIN ms
  BY DEF Candidates
<1>6. m \in ids
  <2> HIDE DEF ids
  <2> QED BY <1>4, <1>5, EarliestIsOne
<1> HIDE DEF m
<1>7. m \in DOMAIN ms /\ ms[m].players = {ev[k].a, ev[k].b}
  BY <1>6 DEF Candidates
<1>8. {ev[k].a, ev[k].b} \subseteq ps /\ ms[m].winner \in {ev[k].a, ev[k].b}
  <2>1. ms[m] \in MatchRows(ps, time)
    BY <1>7, RecordedAre
  <2> QED BY <1>4, <1>7, <2>1 DEF MatchRows
<1>9. r \in ResultRows(ps, DOMAIN ms)
  BY <1>7, <1>8 DEF NewRow, ResultRows
<1>10. T[t] \in Tours(ps, DOMAIN ms) /\ k \in PairingKey /\ k \in ReadyKeys(ev)
  BY <1>2, <1>3 DEF Books
<1>11. d \in Tours(ps, DOMAIN ms) /\ Stores(d, T[t], k, r)
  BY <1>9, <1>10, PutStores
<1> HIDE DEF d
<1> QED BY <1>1, <1>6, <1>7, <1>8, <1>10, <1>11 DEF Takes

LEMMA TakesProceeds ==
  ASSUME NEW ps, NEW ms, NEW T \in Books(ps, DOMAIN ms),
         NEW t \in Tournaments, NEW ev, NEW N, Takes(N, T, t, ps, ms, ev)
  PROVE  Proceeds(N, T, t, ps, ms)
<1>1. PICK k \in ReadyKeys(ev) : \E m \in DOMAIN ms : \E d \in Tours(ps, DOMAIN ms) : \E at \in Nat :
        /\ N = [T EXCEPT ![t] = d]
        /\ Stores(d, T[t], k, NewRow(ev[k].a, ev[k].b, ms[m].winner, m, at))
        /\ m \in Candidates(T, t, ms, ev[k]) /\ ms[m].winner \in {ev[k].a, ev[k].b}
  BY DEF Takes
<1>2. PICK m \in DOMAIN ms : \E d \in Tours(ps, DOMAIN ms) : \E at \in Nat :
        /\ N = [T EXCEPT ![t] = d]
        /\ Stores(d, T[t], k, NewRow(ev[k].a, ev[k].b, ms[m].winner, m, at))
        /\ m \in Candidates(T, t, ms, ev[k])
  BY <1>1
<1>3. PICK d \in Tours(ps, DOMAIN ms) : \E at \in Nat :
        /\ N = [T EXCEPT ![t] = d]
        /\ Stores(d, T[t], k, NewRow(ev[k].a, ev[k].b, ms[m].winner, m, at))
        /\ m \in Candidates(T, t, ms, ev[k])
  BY <1>2
<1>4. /\ DOMAIN d.results = DOMAIN T[t].results \cup {k}
      /\ d.results[k].match = m /\ d.results[k].winner = ms[m].winner
      /\ \A l \in DOMAIN T[t].results \ {k} : d.results[l] = T[t].results[l]
      /\ d.ignored = T[t].ignored /\ d.status = T[t].status /\ SameDraw(d, T[t])
  BY <1>3 DEF Stores, NewRow
<1>5. /\ \A u \in Tournaments : \A l \in DOMAIN T[u].results : T[u].results[l].match # m
      /\ m \notin T[t].ignored
  BY <1>3 DEF Candidates
<1>6. [T EXCEPT ![t] = d] \in Books(ps, DOMAIN ms)
  BY <1>4, <1>5, StoredInBook
<1>7. Agrees(T[t], ms) => Agrees(d, ms)
  BY <1>4 DEF Agrees
<1>8. T \in [Tournaments -> Tours(ps, DOMAIN ms)]
  BY DEF Books
<1> QED BY <1>3, <1>4, <1>6, <1>7, <1>8 DEF Proceeds

LEMMA AssignInProceeds ==
  ASSUME NEW ps, NEW time, NEW ms \in Recorded(ps, time), NEW T \in Books(ps, DOMAIN ms),
         NEW t \in Tournaments, NEW at \in Nat, NEW ev, DOMAIN ev \subseteq PairingKey
  PROVE  Proceeds(AssignIn(ev, T, t, ms, at), T, t, ps, ms)
<1>1. CASE Assignable(T, t, ms, ev) = {}
  <2>1. AssignIn(ev, T, t, ms, at) = T
    BY <1>1 DEF AssignIn
  <2> QED BY <2>1 DEF Proceeds, SameDraw
<1>2. CASE Assignable(T, t, ms, ev) # {}
  <2>1. PICK N : N = AssignIn(ev, T, t, ms, at)
    OBVIOUS
  <2>2. Takes(N, T, t, ps, ms, ev)
    BY <1>2, <2>1, AssignInTakes
  <2>3. Proceeds(N, T, t, ps, ms)
    BY <2>2, TakesProceeds
  <2> QED BY <2>1, <2>3
<1> QED BY <1>1, <1>2

\* The recursion over the turns of the loop has a solution.
LEMMA AssignmentsAre ==
  ASSUME NEW ms, NEW n \in Nat, n = Cardinality(DOMAIN ms), NEW T, NEW t, NEW at
  PROVE  LET A == Assignments(T, t, ms, at)
         IN /\ A[0] = T
            /\ \A i \in 1 .. n : A[i] = AssignOne(A[i - 1], t, ms, at)
<1> DEFINE Step(U) == AssignOne(U, t, ms, at)
           SolvesUpTo(g, m) == g = [i \in 0 .. m |-> IF i = 0 THEN T ELSE Step(g[i - 1])]
           S == {m \in Nat : \E g : SolvesUpTo(g, m)}
<1> HIDE DEF Step
<1>1. 0 \in S
  <2>1. SolvesUpTo([i \in 0 .. 0 |-> T], 0)
    OBVIOUS
  <2> QED BY <2>1
<1>2. ASSUME NEW m \in 0 .. n, m # n, m \in S
      PROVE  m + 1 \in S
  <2>1. PICK g : SolvesUpTo(g, m)
    BY <1>2
  <2>2. \A i \in 0 .. m : g[i] = IF i = 0 THEN T ELSE Step(g[i - 1])
    BY <2>1
  <2> DEFINE h == [i \in 0 .. m + 1 |-> IF i = m + 1 THEN Step(g[m]) ELSE g[i]]
  <2>3. \A i \in 0 .. m + 1 : h[i] = IF i = 0 THEN T ELSE Step(h[i - 1])
    <3> SUFFICES ASSUME NEW i \in 0 .. m + 1
                 PROVE  h[i] = IF i = 0 THEN T ELSE Step(h[i - 1])
      OBVIOUS
    <3>1. CASE i = m + 1
      <4>1. i # 0 /\ i - 1 = m /\ m \in 0 .. m + 1 /\ m # m + 1
        BY <3>1
      <4>2. h[i - 1] = g[m]
        BY <4>1
      <4> QED BY <3>1, <4>1, <4>2
    <3>2. CASE i # m + 1
      <4>1. i \in 0 .. m /\ (i # 0 => i - 1 \in 0 .. m + 1 /\ i - 1 # m + 1)
        BY <3>2
      <4>2. i # 0 => h[i - 1] = g[i - 1]
        BY <4>1
      <4> QED BY <2>2, <3>2, <4>1, <4>2
    <3> QED BY <3>1, <3>2
  <2>4. SolvesUpTo(h, m + 1)
    <3>1. h = [i \in 0 .. m + 1 |-> h[i]]
      OBVIOUS
    <3> HIDE DEF h
    <3> QED BY <2>3, <3>1
  <2>5. m + 1 \in Nat
    OBVIOUS
  <2> HIDE DEF h
  <2> QED BY <2>4, <2>5
<1>3. n \in S
  <2>1. \A m \in 0 .. n : m # n /\ m \in S => m + 1 \in S
    BY <1>2
  <2> HIDE DEF S
  <2>2. 0 .. n \subseteq S
    BY <1>1, <2>1, UpTo
  <2>3. n \in 0 .. n
    OBVIOUS
  <2> QED BY <2>2, <2>3
<1> DEFINE A == CHOOSE g : SolvesUpTo(g, n)
<1>4. Assignments(T, t, ms, at) = A
  BY DEF Assignments, Step
<1>5. SolvesUpTo(A, n)
  BY <1>3
<1> HIDE DEF A
<1>6. A[0] = T /\ \A i \in 1 .. n : A[i] = Step(A[i - 1])
  <2>1. \A i \in 1 .. n : i \in 0 .. n /\ i # 0
    OBVIOUS
  <2> QED BY <1>5, <2>1
<1> QED BY <1>4, <1>6 DEF Step

LEMMA SizeOfRecorded ==
  ASSUME NEW ps, NEW time, NEW ms \in Recorded(ps, time)
  PROVE  Cardinality(DOMAIN ms) \in Nat /\ DOMAIN ms \subseteq Nat \ {0}
<1>1. MaxMatches \in Nat /\ DOMAIN ms \subseteq 1 .. MaxMatches
  BY RecordedAre, TournamentAssumption
<1>2. DOMAIN ms \subseteq 0 .. MaxMatches
  BY <1>1
<1> QED BY <1>1, <1>2, CardinalityOfBounded

LEMMA AssignmentsProceed ==
  ASSUME NEW ps, NEW time, NEW ms \in Recorded(ps, time), NEW T \in Books(ps, DOMAIN ms),
         NEW t \in Tournaments, NEW at \in Nat
  PROVE  \A i \in 0 .. Cardinality(DOMAIN ms) : Proceeds(Assignments(T, t, ms, at)[i], T, t, ps, ms)
<1> DEFINE n == Cardinality(DOMAIN ms)
           A == Assignments(T, t, ms, at)
           S == {i \in 0 .. n : Proceeds(A[i], T, t, ps, ms)}
<1>1. n \in Nat
  BY SizeOfRecorded
<1> HIDE DEF n
<1>2. A[0] = T /\ \A i \in 1 .. n : A[i] = AssignOne(A[i - 1], t, ms, at)
  BY <1>1, AssignmentsAre DEF n
<1> HIDE DEF A
<1>3. 0 \in S
  BY <1>1, <1>2 DEF Proceeds, SameDraw
<1>4. ASSUME NEW i \in 0 .. n, i # n, i \in S
      PROVE  i + 1 \in S
  <2>1. i + 1 \in 1 .. n /\ (i + 1) - 1 = i /\ i + 1 \in 0 .. n
    BY <1>1, <1>4
  <2>2. Proceeds(A[i], T, t, ps, ms)
    BY <1>4
  <2> DEFINE B == A[i]
             ev == Eval(B[t], ms)
  <2>3. A[i + 1] = AssignIn(ev, B, t, ms, at)
    BY <1>2, <2>1 DEF AssignOne
  <2>4. B \in Books(ps, DOMAIN ms) /\ B[t] \in Tours(ps, DOMAIN ms)
    BY <2>2 DEF Proceeds, Books
  <2> HIDE DEF B
  <2>5. DOMAIN ev \subseteq PairingKey
    BY <2>4, EvalIsSound
  <2> HIDE DEF ev
  <2>6. Proceeds(AssignIn(ev, B, t, ms, at), B, t, ps, ms)
    BY <2>4, <2>5, AssignInProceeds
  <2>7. Proceeds(A[i + 1], T, t, ps, ms)
    <3>1. Proceeds(B, T, t, ps, ms) /\ Proceeds(A[i + 1], B, t, ps, ms)
      BY <2>2, <2>3, <2>6 DEF B
    <3> QED BY <3>1 DEF Proceeds, SameDraw
  <2> QED BY <2>1, <2>7
<1>5. \A i \in 0 .. n : i # n /\ i \in S => i + 1 \in S
  BY <1>4
<1>6. 0 .. n \subseteq S
  <2> HIDE DEF S
  <2> QED BY <1>1, <1>3, <1>5, UpTo
<1> QED BY <1>6 DEF A, n

LEMMA AssignAllProceeds ==
  ASSUME NEW ps, NEW time, NEW ms \in Recorded(ps, time), NEW T \in Books(ps, DOMAIN ms),
         NEW t \in Tournaments, NEW at \in Nat
  PROVE  Proceeds(AssignAll(T, t, ms, at), T, t, ps, ms)
<1>1. Cardinality(DOMAIN ms) \in 0 .. Cardinality(DOMAIN ms)
  BY SizeOfRecorded
<1> QED BY <1>1, AssignmentsProceed DEF AssignAll

-----------------------------------------------------------------------------
(* Matches in use *)

Links(c) == {c.results[k].match : k \in DOMAIN c.results} \ {0}
Used(T) == UNION {Links(T[u]) : u \in Tournaments}

\* The matches whose results count in the tree.
Counted(c, ms) == {c.results[k].match : k \in UsedKeys(Eval(c, ms))} \ {0}

HasWinner(ms) == {m \in DOMAIN ms : ms[m].winner # Nobody}

Suitable(ms, p) ==
  {m \in DOMAIN ms : ms[m].players = {p.a, p.b} /\ ~ms[m].waiting /\ ms[m].started + Skew >= p.readyAt}

LEMMA LinksOfTours ==
  ASSUME NEW ps, NEW ids, NEW c \in Tours(ps, ids)
  PROVE  Links(c) \subseteq ids
<1>1. c.results \in Results(ps, ids)
  BY DEF Tours
<1>2. \A k \in DOMAIN c.results : c.results[k] \in ResultRows(ps, ids)
  BY <1>1, ResultsAre
<1> QED BY <1>2 DEF Links, ResultRows

LEMMA CandidatesAre ==
  ASSUME NEW T, NEW t, NEW ms, 0 \notin DOMAIN ms, NEW p
  PROVE  Candidates(T, t, ms, p) = Suitable(ms, p) \ (Used(T) \cup T[t].ignored)
<1>1. ASSUME NEW m \in DOMAIN ms
      PROVE  m \notin Used(T) <=> \A u \in Tournaments : \A k \in DOMAIN T[u].results : T[u].results[k].match # m
  BY DEF Used, Links
<1> QED BY <1>1 DEF Candidates, Suitable

\* No ready pairing of tournament t takes a match.
Idle(T, t, ms) == Assignable(T, t, ms, Eval(T[t], ms)) = {}

\* A match with a winner that gets used takes nothing from a pairing that found none: what
\* hides the others is a match without a winner.
LEMMA IdleStays ==
  ASSUME NEW ps, NEW time, NEW ms \in Recorded(ps, time), NEW T, NEW N, NEW t,
         EqualTree(Eval(T[t], ms), Eval(N[t], ms)), N[t].ignored = T[t].ignored,
         Used(T) \subseteq Used(N), Used(N) \subseteq Used(T) \cup HasWinner(ms), Idle(T, t, ms)
  PROVE  Idle(N, t, ms)
<1> DEFINE ev == Eval(T[t], ms)
           ew == Eval(N[t], ms)
<1> SUFFICES ASSUME NEW k \in Assignable(N, t, ms, ew) PROVE FALSE
  BY DEF Idle
<1>1. 0 \notin DOMAIN ms
  BY SizeOfRecorded
<1> DEFINE p == ev[k]
           less == Candidates(N, t, ms, p)
           ids == Candidates(T, t, ms, p)
<1>2. k \in DOMAIN ev /\ ew[k] = p /\ k \in ReadyKeys(ev)
  <2>1. k \in ReadyKeys(ew)
    BY DEF Assignable
  <2> QED BY <2>1 DEF EqualTree, ReadyKeys
<1>3. less # {} /\ ms[Earliest(ms, less)].winner # Nobody
  BY <1>2 DEF Assignable
<1>4. k \notin Assignable(T, t, ms, ev)
  BY DEF Idle
<1>5. ids # {} => ms[Earliest(ms, ids)].winner = Nobody
  BY <1>2, <1>4 DEF Assignable
<1> HIDE DEF ev, ew, p
<1>6. /\ less = Suitable(ms, p) \ (Used(N) \cup T[t].ignored)
      /\ ids = Suitable(ms, p) \ (Used(T) \cup T[t].ignored)
  BY <1>1, CandidatesAre
<1>7. less \subseteq ids /\ ids \ less \subseteq HasWinner(ms) /\ ids \subseteq DOMAIN ms
  BY <1>6 DEF Suitable
<1> HIDE DEF less, ids
<1>8. PICK x, y : x = Earliest(ms, less) /\ y = Earliest(ms, ids)
  OBVIOUS
<1>9. x \in less /\ \A n \in less : NotLater(ms, x, n)
  BY <1>3, <1>7, <1>8, EarliestIsOne
<1>10. y \in ids /\ \A n \in ids : NotLater(ms, y, n)
  BY <1>3, <1>7, <1>8, EarliestIsOne
<1>11. ms[y].winner = Nobody /\ y \in less
  BY <1>3, <1>5, <1>7, <1>8, <1>10 DEF HasWinner
<1>12. NotLater(ms, x, y) /\ NotLater(ms, y, x)
  BY <1>7, <1>9, <1>10, <1>11
<1>13. x = y
  <2>1. x \in Nat /\ y \in Nat
    BY <1>7, <1>9, <1>10, SizeOfRecorded
  <2>2. ms[x].started \in Nat /\ ms[y].started \in Nat
    BY <1>7, <1>9, <1>10, RecordedAre DEF MatchRows
  <2> QED BY <1>12, <2>1, <2>2 DEF NotLater
<1> QED BY <1>3, <1>8, <1>11, <1>13

-----------------------------------------------------------------------------
(* One turn of the loop *)

\* A turn that assigns: one more match counts, none is forgotten.
OneMoreMatch(N, T, t, ms) ==
  \E m \in HasWinner(ms) \ Used(T) :
    /\ Counted(T[t], ms) \cup {m} \subseteq Counted(N[t], ms)
    /\ Links(N[t]) \subseteq Links(T[t]) \cup {m}

LEMMA TakesCounts ==
  ASSUME NEW ps, NEW time, NEW ms \in Recorded(ps, time), NEW T \in Books(ps, DOMAIN ms),
         NEW t \in Tournaments, NEW N, Takes(N, T, t, ps, ms, Eval(T[t], ms))
  PROVE  OneMoreMatch(N, T, t, ms)
<1>1. PICK c, ev : c = T[t] /\ ev = Eval(c, ms)
  OBVIOUS
<1>2. PICK k \in ReadyKeys(ev) : \E m \in DOMAIN ms : \E d \in Tours(ps, DOMAIN ms) : \E at \in Nat :
        /\ N = [T EXCEPT ![t] = d]
        /\ Stores(d, c, k, NewRow(ev[k].a, ev[k].b, ms[m].winner, m, at))
        /\ m \in Candidates(T, t, ms, ev[k]) /\ ms[m].winner \in {ev[k].a, ev[k].b}
  BY <1>1 DEF Takes
<1>3. PICK m \in DOMAIN ms : \E d \in Tours(ps, DOMAIN ms) : \E at \in Nat :
        /\ N = [T EXCEPT ![t] = d]
        /\ Stores(d, c, k, NewRow(ev[k].a, ev[k].b, ms[m].winner, m, at))
        /\ m \in Candidates(T, t, ms, ev[k]) /\ ms[m].winner \in {ev[k].a, ev[k].b}
  BY <1>2
<1>4. PICK d \in Tours(ps, DOMAIN ms) : \E at \in Nat :
        /\ N = [T EXCEPT ![t] = d]
        /\ Stores(d, c, k, NewRow(ev[k].a, ev[k].b, ms[m].winner, m, at))
        /\ m \in Candidates(T, t, ms, ev[k]) /\ ms[m].winner \in {ev[k].a, ev[k].b}
  BY <1>3
<1>5. PICK p : p = ev[k]
  OBVIOUS
<1>6. /\ N[t] = d /\ c \in Tours(ps, DOMAIN ms) /\ 0 \notin DOMAIN ms
      /\ m \in Candidates(T, t, ms, p) /\ ms[m].winner \in {p.a, p.b}
  <2>1. T \in [Tournaments -> Tours(ps, DOMAIN ms)]
    BY DEF Books
  <2> QED BY <1>1, <1>4, <1>5, <2>1, SizeOfRecorded
<1>7. /\ WithResult(d, c, k) /\ d.results[k].match = m
      /\ d.results[k].player1 = p.a /\ d.results[k].player2 = p.b /\ d.results[k].winner = ms[m].winner
  BY <1>4, <1>5 DEF Stores, NewRow, WithResult
<1>8. Fits(d.results[k], p.a, p.b)
  BY <1>6, <1>7 DEF Fits
<1>9. k \in DOMAIN ev /\ p.status = "ready" /\ k \notin UsedKeys(ev)
  BY <1>5 DEF ReadyKeys, UsedKeys
<1>10. Known(p.a) /\ Known(p.b)
  <2>1. Sound(Eval(c, ms)[k], k, c.results)
    BY <1>1, <1>6, <1>9, EvalIsSound
  <2> QED BY <1>1, <1>5, <1>9, <2>1 DEF Sound
<1>11. FirmerTree(Eval(c, ms), Eval(d, ms))
  <2>1. k \in ReadyKeys(Eval(c, ms))
    BY <1>1
  <2> QED BY <1>6, <1>7, <2>1, EvalFirmer
<1>12. k \in UsedKeys(Eval(d, ms))
  <2>1. k \in DOMAIN Eval(c, ms) /\ p = Eval(c, ms)[k]
    BY <1>1, <1>5, <1>9
  <2> QED BY <1>6, <1>7, <1>8, <1>10, <2>1, EvalDecided
<1>13. UsedKeys(Eval(c, ms)) \subseteq UsedKeys(Eval(d, ms))
  BY <1>11 DEF FirmerTree, Firmer, UsedKeys
<1>14. m \in HasWinner(ms) \ Used(T)
  <2>1. m \notin Used(T)
    BY <1>6, CandidatesAre
  <2>2. ms[m].winner # Nobody
    BY <1>6, <1>10 DEF Known
  <2> QED BY <2>1, <2>2 DEF HasWinner
<1>15. Counted(c, ms) \cup {m} \subseteq Counted(d, ms)
  <2>1. \A l \in UsedKeys(Eval(c, ms)) : l # k /\ l \in DOMAIN c.results /\ d.results[l] = c.results[l]
    <3> SUFFICES ASSUME NEW l \in UsedKeys(Eval(c, ms))
                 PROVE  l # k /\ l \in DOMAIN c.results /\ d.results[l] = c.results[l]
      OBVIOUS
    <3>1. l # k
      BY <1>1, <1>9
    <3>2. l \in DOMAIN Eval(c, ms) /\ Eval(c, ms)[l].status = "done"
      BY DEF UsedKeys
    <3>3. Sound(Eval(c, ms)[l], l, c.results)
      BY <1>6, <3>2, EvalIsSound
    <3>4. l \in DOMAIN c.results
      BY <3>2, <3>3 DEF Sound
    <3> QED BY <1>7, <3>1, <3>4 DEF WithResult
  <2>2. m # 0
    BY <1>6
  <2> QED BY <1>7, <1>12, <1>13, <2>1, <2>2 DEF Counted
<1>16. Links(d) \subseteq Links(c) \cup {m}
  BY <1>7 DEF Links, WithResult
<1> QED BY <1>1, <1>6, <1>14, <1>15, <1>16 DEF OneMoreMatch

LEMMA TurnIs ==
  ASSUME NEW ps, NEW time, NEW ms \in Recorded(ps, time), NEW T \in Books(ps, DOMAIN ms),
         NEW t \in Tournaments, NEW at \in Nat, NEW N, N = AssignOne(T, t, ms, at)
  PROVE  \/ Idle(T, t, ms) /\ N = T
         \/ ~Idle(T, t, ms) /\ OneMoreMatch(N, T, t, ms)
<1>1. PICK ev : ev = Eval(T[t], ms)
  OBVIOUS
<1>2. N = AssignIn(ev, T, t, ms, at)
  BY <1>1 DEF AssignOne
<1>3. CASE Assignable(T, t, ms, ev) = {}
  BY <1>1, <1>2, <1>3 DEF AssignIn, Idle
<1>4. CASE Assignable(T, t, ms, ev) # {}
  <2>1. DOMAIN ev \subseteq PairingKey
    <3>1. T[t] \in Tours(ps, DOMAIN ms)
      BY DEF Books
    <3> QED BY <1>1, <3>1, EvalIsSound
  <2>2. Takes(N, T, t, ps, ms, ev)
    BY <1>2, <1>4, <2>1, AssignInTakes
  <2>3. OneMoreMatch(N, T, t, ms)
    BY <1>1, <2>2, TakesCounts
  <2> QED BY <1>1, <1>4, <2>3 DEF Idle
<1> QED BY <1>3, <1>4

LEMMA CountedAreLinks ==
  ASSUME NEW ps, NEW ids, NEW c \in Tours(ps, ids), NEW ms
  PROVE  Counted(c, ms) \subseteq Links(c)
<1>1. ASSUME NEW k \in UsedKeys(Eval(c, ms))
      PROVE  k \in DOMAIN c.results
  <2>1. k \in DOMAIN Eval(c, ms) /\ Eval(c, ms)[k].status = "done"
    BY DEF UsedKeys
  <2>2. Sound(Eval(c, ms)[k], k, c.results)
    BY <2>1, EvalIsSound
  <2> QED BY <2>1, <2>2 DEF Sound
<1> QED BY <1>1 DEF Counted, Links

\* A match that counts in addition makes one more.
LEMMA OneMoreCounts ==
  ASSUME NEW D, IsFiniteSet(D), NEW A, NEW B, NEW m, A \cup {m} \subseteq B, B \subseteq D, m \notin A,
         NEW i \in Nat, Cardinality(A) >= i
  PROVE  Cardinality(B) >= i + 1
<1>1. A \subseteq D /\ A \cup {m} \subseteq B
  OBVIOUS
<1>2. IsFiniteSet(A) /\ IsFiniteSet(B)
  BY <1>1, FS_Subset
<1>3. Cardinality(A \cup {m}) = Cardinality(A) + 1
  BY <1>2, FS_AddElement
<1>4. Cardinality(A \cup {m}) =< Cardinality(B)
  BY <1>1, <1>2, FS_Subset
<1>5. Cardinality(A) \in Nat /\ Cardinality(B) \in Nat
  BY <1>2, FS_CardinalityType
<1> QED BY <1>3, <1>4, <1>5

\* Where every match counts no pairing finds one.
LEMMA AllCounted ==
  ASSUME NEW ps, NEW time, NEW ms \in Recorded(ps, time), NEW T \in Books(ps, DOMAIN ms),
         NEW t \in Tournaments, DOMAIN ms \subseteq Counted(T[t], ms)
  PROVE  Idle(T, t, ms)
<1>1. T[t] \in Tours(ps, DOMAIN ms)
  BY DEF Books
<1>2. DOMAIN ms \subseteq Used(T)
  BY <1>1, CountedAreLinks DEF Used
<1>3. ASSUME NEW p
      PROVE  Candidates(T, t, ms, p) = {}
  <2>1. 0 \notin DOMAIN ms
    BY SizeOfRecorded
  <2>2. Candidates(T, t, ms, p) = Suitable(ms, p) \ (Used(T) \cup T[t].ignored)
    BY <2>1, CandidatesAre
  <2> QED BY <1>2, <2>2 DEF Suitable
<1> QED BY <1>3 DEF Idle, Assignable

\* What the loop leaves: every pairing that can has its match, and the matches it took count.
Exhausted(V, T, t, ms) ==
  /\ Idle(V, t, ms)
  /\ Links(V[t]) \subseteq Links(T[t]) \cup (Counted(V[t], ms) \cap HasWinner(ms))

LEMMA AssignAllExhausts ==
  ASSUME NEW ps, NEW time, NEW ms \in Recorded(ps, time), NEW T \in Books(ps, DOMAIN ms),
         NEW t \in Tournaments, NEW at \in Nat
  PROVE  Exhausted(AssignAll(T, t, ms, at), T, t, ms)
<1> DEFINE n == Cardinality(DOMAIN ms)
           A == Assignments(T, t, ms, at)
           J(B, i) == /\ Idle(B, t, ms) \/ Cardinality(Counted(B[t], ms)) >= i
                      /\ Links(B[t]) \subseteq Links(T[t]) \cup (Counted(B[t], ms) \cap HasWinner(ms))
           S == {i \in 0 .. n : J(A[i], i)}
<1>1. n \in Nat /\ IsFiniteSet(DOMAIN ms)
  <2>1. DOMAIN ms \subseteq 0 .. MaxMatches /\ MaxMatches \in Nat
    BY RecordedAre, TournamentAssumption
  <2> QED BY <2>1, CardinalityOfBounded
<1>2. \A i \in 0 .. n : A[i] \in Books(ps, DOMAIN ms)
  <2>1. \A i \in 0 .. n : Proceeds(A[i], T, t, ps, ms)
    BY AssignmentsProceed
  <2> QED BY <2>1 DEF Proceeds
<1> HIDE DEF n
<1>3. A[0] = T /\ \A i \in 1 .. n : A[i] = AssignOne(A[i - 1], t, ms, at)
  BY <1>1, AssignmentsAre DEF n
<1> HIDE DEF A
<1>4. \A B \in Books(ps, DOMAIN ms) : Counted(B[t], ms) \subseteq Links(B[t]) /\ Links(B[t]) \subseteq DOMAIN ms
  <2> SUFFICES ASSUME NEW B \in Books(ps, DOMAIN ms)
               PROVE  Counted(B[t], ms) \subseteq Links(B[t]) /\ Links(B[t]) \subseteq DOMAIN ms
    OBVIOUS
  <2>1. B[t] \in Tours(ps, DOMAIN ms)
    BY DEF Books
  <2> QED BY <2>1, CountedAreLinks, LinksOfTours
<1>5. 0 \in S
  <2>1. IsFiniteSet(Counted(T[t], ms))
    <3>1. Counted(T[t], ms) \subseteq DOMAIN ms
      BY <1>4
    <3> QED BY <1>1, <3>1, FS_Subset
  <2>2. Cardinality(Counted(T[t], ms)) \in Nat
    BY <2>1, FS_CardinalityType
  <2>3. Cardinality(Counted(T[t], ms)) >= 0
    BY <2>2
  <2>4. J(A[0], 0)
    BY <1>3, <2>3
  <2> HIDE DEF J
  <2> QED BY <1>1, <2>4
<1>6. ASSUME NEW i \in 0 .. n, i # n, i \in S
      PROVE  i + 1 \in S
  <2>1. i + 1 \in 1 .. n /\ (i + 1) - 1 = i /\ i + 1 \in 0 .. n /\ i \in Nat
    BY <1>1, <1>6
  <2>2. PICK B, N : B = A[i] /\ N = A[i + 1]
    OBVIOUS
  <2>3. N = AssignOne(B, t, ms, at) /\ B \in Books(ps, DOMAIN ms) /\ N \in Books(ps, DOMAIN ms)
    BY <1>2, <1>3, <2>1, <2>2
  <2>4. J(B, i)
    BY <1>6, <2>2
  <2>5. CASE Idle(B, t, ms) /\ N = B
    <3>1. J(N, i + 1)
      BY <2>4, <2>5
    <3> HIDE DEF J
    <3> QED BY <2>1, <2>2, <3>1
  <2>6. CASE ~Idle(B, t, ms) /\ OneMoreMatch(N, B, t, ms)
    <3>1. PICK m \in HasWinner(ms) \ Used(B) :
            /\ Counted(B[t], ms) \cup {m} \subseteq Counted(N[t], ms)
            /\ Links(N[t]) \subseteq Links(B[t]) \cup {m}
      BY <2>6 DEF OneMoreMatch
    <3>2. m \notin Counted(B[t], ms)
      BY <1>4, <2>3, <3>1 DEF Used
    <3>3. Cardinality(Counted(N[t], ms)) >= i + 1
      <4>1. PICK X, Y, D : X = Counted(B[t], ms) /\ Y = Counted(N[t], ms) /\ D = DOMAIN ms
        OBVIOUS
      <4>2. X \cup {m} \subseteq Y /\ Y \subseteq D /\ m \notin X /\ IsFiniteSet(D) /\ Cardinality(X) >= i
        BY <1>1, <1>4, <2>3, <2>4, <2>6, <3>1, <3>2, <4>1
      <4> QED BY <2>1, <4>1, <4>2, OneMoreCounts
    <3>4. J(N, i + 1)
      BY <2>4, <3>1, <3>3
    <3> HIDE DEF J
    <3> QED BY <2>1, <2>2, <3>4
  <2> QED BY <2>3, <2>5, <2>6, TurnIs
<1>7. \A i \in 0 .. n : i # n /\ i \in S => i + 1 \in S
  BY <1>6
<1>8. n \in S
  <2> HIDE DEF S
  <2>1. 0 .. n \subseteq S
    BY <1>1, <1>5, <1>7, UpTo
  <2> QED BY <1>1, <2>1
<1>9. PICK V : V = A[n]
  OBVIOUS
<1>10. J(V, n) /\ V \in Books(ps, DOMAIN ms)
  BY <1>1, <1>2, <1>8, <1>9
<1>11. Idle(V, t, ms)
  <2> SUFFICES ASSUME Cardinality(Counted(V[t], ms)) >= n PROVE Idle(V, t, ms)
    BY <1>10
  <2>1. Counted(V[t], ms) \subseteq DOMAIN ms
    BY <1>4, <1>10
  <2>2. Counted(V[t], ms) = DOMAIN ms
    <3>1. PICK X, D : X = Counted(V[t], ms) /\ D = DOMAIN ms
      OBVIOUS
    <3>2. IsFiniteSet(D) /\ X \subseteq D
      BY <1>1, <2>1, <3>1
    <3>3. Cardinality(X) =< Cardinality(D) /\ (Cardinality(D) = Cardinality(X) => D = X)
      BY <3>2, FS_Subset
    <3>4. IsFiniteSet(X)
      BY <3>2, FS_Subset
    <3>5. Cardinality(X) \in Nat /\ Cardinality(D) = n
      BY <3>1, <3>4, FS_CardinalityType DEF n
    <3>6. Cardinality(X) >= n
      BY <3>1
    <3> QED BY <1>1, <3>1, <3>3, <3>5, <3>6
  <2> QED BY <1>10, <2>2, AllCounted
<1>12. Exhausted(V, T, t, ms)
  BY <1>10, <1>11 DEF Exhausted
<1> QED BY <1>9, <1>12 DEF AssignAll, A, n

\* Exactly the results that count are stored, and the status says whether the tree is decided.
Settled(c, ms) ==
  /\ DOMAIN c.results = UsedKeys(Eval(c, ms))
  /\ c.status = "finished" <=> Complete(Config(c), Eval(c, ms))

\* D is c with another status.
OtherStatus(d, c, s) ==
  d.status = s /\ d.results = c.results /\ d.ignored = c.ignored /\ SameDraw(d, c)

LEMMA StatusReplaced ==
  ASSUME NEW ps, NEW ids, NEW c \in Tours(ps, ids), NEW s \in Statuses
  PROVE  /\ [c EXCEPT !.status = s] \in Tours(ps, ids)
         /\ OtherStatus([c EXCEPT !.status = s], c, s)
<1> DEFINE d == [c EXCEPT !.status = s]
<1>1. c \in [status : Statuses, order : Seq(ps),
             third : BOOLEAN, lucky : BOOLEAN, llEntry : Nat, playinMatch : Nat, playinSide : {0, 1},
             startedAt : Nat, results : Results(ps, ids), ignored : SUBSET ids]
      /\ IsInjective(c.order)
  BY DEF Tours
<1>2. d \in [status : Statuses, order : Seq(ps),
             third : BOOLEAN, lucky : BOOLEAN, llEntry : Nat, playinMatch : Nat, playinSide : {0, 1},
             startedAt : Nat, results : Results(ps, ids), ignored : SUBSET ids]
  BY <1>1
<1>3. /\ d.status = s /\ d.results = c.results /\ d.ignored = c.ignored /\ d.order = c.order
      /\ d.third = c.third /\ d.lucky = c.lucky /\ d.llEntry = c.llEntry /\ d.startedAt = c.startedAt
      /\ d.playinMatch = c.playinMatch /\ d.playinSide = c.playinSide
  BY <1>1
<1> HIDE DEF d
<1>4. d \in Tours(ps, ids)
  BY <1>1, <1>2, <1>3 DEF Tours
<1>5. OtherStatus(d, c, s)
  BY <1>3 DEF OtherStatus, SameDraw, Config
<1> QED BY <1>4, <1>5 DEF d

\* Pruning and the new status leave a tournament that needs no further pruning: the
\* results that are removed did not count, so the tree stays what it was.
LEMMA PruneSettles ==
  ASSUME NEW ps, NEW ids, 0 \notin ids, NEW c \in Tours(ps, ids), NEW ms, Agrees(c, ms)
  PROVE  LET d == PruneAndSetStatus(c, Eval(c, ms))
         IN /\ d \in Tours(ps, ids) /\ SameDraw(d, c) /\ d.ignored = c.ignored
            /\ d.status \in {"running", "finished"}
            /\ PartOf(d.results, c.results) /\ DOMAIN d.results = UsedKeys(Eval(c, ms))
            /\ Agrees(d, ms) /\ Settled(d, ms)
<1> DEFINE ev == Eval(c, ms)
           f == Without(c.results, DOMAIN c.results \ UsedKeys(ev))
           p == [c EXCEPT !.results = f]
           s == IF Complete(Config(p), ev) THEN "finished" ELSE "running"
           d == [p EXCEPT !.status = s]
<1>1. PruneAndSetStatus(c, Eval(c, ms)) = d
  BY DEF PruneAndSetStatus, SetStatus, Prune
<1>2. UsedKeys(ev) \subseteq DOMAIN c.results
  <2>1. \A k \in DOMAIN ev : Sound(ev[k], k, c.results)
    BY EvalIsSound
  <2> QED BY <2>1 DEF UsedKeys, Sound
<1>3. c.results \in Results(ps, ids)
  BY DEF Tours
<1>4. /\ f \in Results(ps, ids) /\ DOMAIN f = UsedKeys(ev)
      /\ \A k \in DOMAIN f : f[k] = c.results[k]
  <2> DEFINE drop == DOMAIN c.results \ UsedKeys(ev)
  <2>1. DOMAIN c.results \ drop = UsedKeys(ev)
    BY <1>2
  <2> HIDE DEF drop
  <2>2. /\ DOMAIN Without(c.results, drop) = DOMAIN c.results \ drop
        /\ \A k \in DOMAIN c.results \ drop : Without(c.results, drop)[k] = c.results[k]
    BY WithoutIs
  <2>3. Without(c.results, drop) \in Results(ps, ids)
    BY <1>3, WithoutResults
  <2> QED BY <2>1, <2>2, <2>3 DEF drop
<1> HIDE DEF f
<1>5. p \in Tours(ps, ids) /\ OtherResults(p, c, f)
  BY <1>4, ResultsReplaced
<1>6. s \in Statuses /\ s \in {"running", "finished"}
  BY DEF Statuses
<1>7. s = "finished" <=> Complete(Config(p), ev)
  OBVIOUS
<1> HIDE DEF p, s
<1>8. d \in Tours(ps, ids) /\ OtherStatus(d, p, s)
  BY <1>5, <1>6, StatusReplaced
<1> HIDE DEF d
<1>9. /\ d.results = f /\ d.ignored = c.ignored /\ SameDraw(d, c) /\ Config(d) = Config(p)
  BY <1>5, <1>8 DEF OtherResults, OtherStatus, SameDraw
<1>10. SomeOf(d.results, c.results)
  BY <1>2, <1>4, <1>9 DEF SomeOf, SameResult
<1>11. SameTree(ev, Eval(d, ms))
  <2>1. Config(d) = Config(c) /\ d.order = c.order /\ UsedKeys(Eval(c, ms)) \subseteq DOMAIN d.results
    BY <1>4, <1>9 DEF SameDraw
  <2> QED BY <1>10, <2>1, EvalSame
<1> HIDE DEF ev
<1>12. UsedKeys(Eval(d, ms)) = UsedKeys(ev) /\ (Complete(Config(d), Eval(d, ms)) <=> Complete(Config(d), ev))
  BY <1>11, SameTreeSameOutcome
<1>13. Settled(d, ms)
  BY <1>4, <1>7, <1>8, <1>9, <1>12 DEF Settled, OtherStatus
<1>14. Agrees(d, ms)
  BY <1>2, <1>4, <1>9 DEF Agrees
<1>15. d.status \in {"running", "finished"}
  BY <1>6, <1>8 DEF OtherStatus
<1>16. PartOf(d.results, c.results) /\ DOMAIN d.results = UsedKeys(ev)
  BY <1>2, <1>4, <1>9 DEF PartOf
<1> QED BY <1>1, <1>8, <1>9, <1>13, <1>14, <1>15, <1>16 DEF ev

\* If the links tournament t had are kept, nothing is left to assign; new ones are to
\* matches with a winner.
Resolved(N, T, t, ms) ==
  /\ Links(T[t]) \subseteq Links(N[t]) => Idle(N, t, ms)
  /\ Links(N[t]) \subseteq Links(T[t]) \cup HasWinner(ms)

LEMMA PrunedIsResolved ==
  ASSUME NEW ps, NEW time, NEW ms \in Recorded(ps, time), NEW T, NEW V, NEW N, NEW t \in Tournaments,
         V[t] \in Tours(ps, DOMAIN ms), Exhausted(V, T, t, ms),
         \A u \in Tournaments \ {t} : N[u] = V[u],
         SameDraw(N[t], V[t]), N[t].ignored = V[t].ignored,
         PartOf(N[t].results, V[t].results), DOMAIN N[t].results = UsedKeys(Eval(V[t], ms))
  PROVE  Resolved(N, T, t, ms)
<1>1. Links(N[t]) = Counted(V[t], ms) /\ Links(N[t]) \subseteq Links(V[t])
  BY DEF PartOf, Links, Counted
<1>2. Links(N[t]) \subseteq Links(T[t]) \cup HasWinner(ms)
  BY <1>1 DEF Exhausted
<1>3. ASSUME Links(T[t]) \subseteq Links(N[t])
      PROVE  Idle(N, t, ms)
  <2>1. Links(V[t]) = Links(N[t])
    BY <1>1, <1>3 DEF Exhausted
  <2>2. \A u \in Tournaments : Links(N[u]) = Links(V[u])
    BY <2>1
  <2>3. Used(N) = Used(V)
    BY <2>2 DEF Used
  <2>4. EqualTree(Eval(V[t], ms), Eval(N[t], ms))
    BY EvalPruned
  <2> QED BY <2>3, <2>4, IdleStays DEF Exhausted
<1> QED BY <1>2, <1>3 DEF Resolved

\* syncTournament
Synced(N, T, t, ps, ms) ==
  /\ N \in Books(ps, DOMAIN ms)
  /\ \A u \in Tournaments \ {t} : N[u] = T[u]
  /\ SameDraw(N[t], T[t]) /\ N[t].status \in {"running", "finished"}
  /\ Agrees(N[t], ms) /\ Settled(N[t], ms) /\ Resolved(N, T, t, ms)

LEMMA SyncIsSynced ==
  ASSUME NEW ps, NEW time, NEW ms \in Recorded(ps, time), NEW T \in Books(ps, DOMAIN ms),
         NEW t \in Tournaments, NEW at \in Nat
  PROVE  Synced(Sync(T, t, ms, at), T, t, ps, ms)
<1> DEFINE ids == DOMAIN ms
           e == RefreshLinked(T[t], ms)
           U == [T EXCEPT ![t] = e]
           V == AssignAll(U, t, ms, at)
           d == PruneAndSetStatus(V[t], Eval(V[t], ms))
           N == [V EXCEPT ![t] = d]
<1>1. Sync(T, t, ms, at) = N
  BY DEF Sync
<1>2. /\ T \in Books(ps, ids)
      /\ T \in [Tournaments -> Tours(ps, ids)] /\ T[t] \in Tours(ps, ids) /\ Apart(T)
  BY DEF Books
<1>3. /\ e \in Tours(ps, ids) /\ Agrees(e, ms) /\ SameLinks(e, T[t])
      /\ e.ignored = T[t].ignored /\ SameDraw(e, T[t])
  BY <1>2, RefreshAgrees
<1> HIDE DEF e
<1>4. U \in Books(ps, ids)
  <2>1. DOMAIN e.results \subseteq DOMAIN T[t].results
    BY <1>3 DEF SameLinks
  <2>2. \A k \in DOMAIN e.results : /\ e.results[k].match = T[t].results[k].match
                                    /\ e.results[k].match \notin e.ignored
    BY <1>2, <1>3 DEF SameLinks, Apart
  <2> HIDE DEF ids
  <2> QED BY <1>2, <1>3, <2>1, <2>2, FewerInBook
<1>5. U[t] = e /\ \A u \in Tournaments \ {t} : U[u] = T[u]
  BY <1>2
<1> HIDE DEF U
<1>6. Proceeds(V, U, t, ps, ms) /\ Exhausted(V, U, t, ms)
  BY <1>4, AssignAllProceeds, AssignAllExhausts
<1> HIDE DEF V
<1>7. /\ V \in Books(ps, ids) /\ \A u \in Tournaments \ {t} : V[u] = T[u]
      /\ SameDraw(V[t], T[t]) /\ Agrees(V[t], ms)
  BY <1>3, <1>5, <1>6 DEF Proceeds, SameDraw
<1>8. V \in [Tournaments -> Tours(ps, ids)] /\ V[t] \in Tours(ps, ids) /\ Apart(V)
  BY <1>7 DEF Books
<1>9. 0 \notin ids
  BY SizeOfRecorded
<1>10. /\ d \in Tours(ps, ids) /\ SameDraw(d, V[t]) /\ d.ignored = V[t].ignored
       /\ d.status \in {"running", "finished"}
       /\ PartOf(d.results, V[t].results) /\ DOMAIN d.results = UsedKeys(Eval(V[t], ms))
       /\ Agrees(d, ms) /\ Settled(d, ms)
  BY <1>7, <1>8, <1>9, PruneSettles
<1> HIDE DEF d
<1>11. N \in Books(ps, ids)
  <2>1. /\ DOMAIN d.results \subseteq DOMAIN V[t].results
        /\ \A k \in DOMAIN d.results : /\ d.results[k].match = V[t].results[k].match
                                       /\ d.results[k].match \notin d.ignored
    BY <1>8, <1>10 DEF Apart, PartOf
  <2> HIDE DEF ids
  <2> QED BY <1>7, <1>10, <2>1, FewerInBook
<1>12. N[t] = d /\ \A u \in Tournaments \ {t} : N[u] = T[u]
  BY <1>7, <1>8
<1> HIDE DEF N
<1>13. Resolved(N, T, t, ms)
  <2>1. Links(U[t]) = Links(T[t])
    BY <1>3, <1>5 DEF SameLinks, Links
  <2>2. Exhausted(V, T, t, ms)
    BY <1>6, <2>1 DEF Exhausted
  <2>3. \A u \in Tournaments \ {t} : N[u] = V[u]
    BY <1>7, <1>12
  <2> QED BY <1>8, <1>10, <1>12, <2>2, <2>3, PrunedIsResolved
<1>14. Synced(N, T, t, ps, ms)
  BY <1>7, <1>10, <1>11, <1>12, <1>13 DEF Synced, SameDraw
<1> QED BY <1>1, <1>14

\* What agrees with its matches is not changed by refreshing.
LEMMA RefreshChangesNothing ==
  ASSUME NEW ps, NEW ids, NEW c \in Tours(ps, ids), NEW ms, Agrees(c, ms)
  PROVE  RefreshLinked(c, ms) = c
<1> DEFINE new(r) == IF r.match # 0 /\ Readable(ms[r.match], r.player1, r.player2)
                     THEN [r EXCEPT !.winner = ms[r.match].winner] ELSE r
           f == [k \in DOMAIN c.results |-> new(c.results[k])]
<1>1. RefreshLinked(c, ms) = [c EXCEPT !.results = f]
  BY TableIs DEF RefreshLinked
<1>2. /\ c.results = [k \in DOMAIN c.results |-> c.results[k]]
      /\ \A k \in DOMAIN c.results : c.results[k] \in ResultRows(ps, ids)
  BY ResultsAre DEF Tours
<1>3. ASSUME NEW k \in DOMAIN c.results
      PROVE  new(c.results[k]) = c.results[k]
  <2>1. PICK r : r = c.results[k]
    OBVIOUS
  <2>2. r \in [player1 : ps, player2 : ps, winner : ps, match : {0} \cup ids, created : Nat]
    BY <1>2, <2>1 DEF ResultRows
  <2>3. r.match # 0 /\ Readable(ms[r.match], r.player1, r.player2) => r.winner = ms[r.match].winner
    BY <2>1 DEF Agrees
  <2>4. [r EXCEPT !.winner = r.winner] = r
    BY <2>2
  <2> QED BY <2>1, <2>3, <2>4
<1> HIDE DEF new
<1>4. f = c.results
  BY <1>2, <1>3
<1> HIDE DEF f
<1>5. [c EXCEPT !.results = c.results] = c
  BY DEF Tours
<1> QED BY <1>1, <1>4, <1>5

LEMMA AssignAllChangesNothing ==
  ASSUME NEW ps, NEW time, NEW ms \in Recorded(ps, time), NEW T, NEW t, NEW at, Idle(T, t, ms)
  PROVE  AssignAll(T, t, ms, at) = T
<1> DEFINE n == Cardinality(DOMAIN ms)
           A == Assignments(T, t, ms, at)
           S == {i \in 0 .. n : A[i] = T}
<1>1. n \in Nat
  BY SizeOfRecorded
<1> HIDE DEF n
<1>2. A[0] = T /\ \A i \in 1 .. n : A[i] = AssignOne(A[i - 1], t, ms, at)
  BY <1>1, AssignmentsAre DEF n
<1> HIDE DEF A
<1>3. AssignOne(T, t, ms, at) = T
  BY DEF AssignOne, AssignIn, Idle
<1>4. 0 \in S
  BY <1>1, <1>2
<1>5. ASSUME NEW i \in 0 .. n, i # n, i \in S
      PROVE  i + 1 \in S
  <2>1. i + 1 \in 1 .. n /\ (i + 1) - 1 = i /\ i + 1 \in 0 .. n
    BY <1>1, <1>5
  <2> QED BY <1>2, <1>3, <1>5, <2>1
<1>6. \A i \in 0 .. n : i # n /\ i \in S => i + 1 \in S
  BY <1>5
<1>7. n \in S
  <2> HIDE DEF S
  <2>1. 0 .. n \subseteq S
    BY <1>1, <1>4, <1>6, UpTo
  <2> QED BY <1>1, <2>1
<1> QED BY <1>7 DEF AssignAll, A, n

LEMMA PruneChangesNothing ==
  ASSUME NEW ps, NEW ids, NEW c \in Tours(ps, ids), NEW ms, Settled(c, ms),
         c.status \in {"running", "finished"}
  PROVE  PruneAndSetStatus(c, Eval(c, ms)) = c
<1> DEFINE ev == Eval(c, ms)
           f == Without(c.results, DOMAIN c.results \ UsedKeys(ev))
           p == [c EXCEPT !.results = f]
           s == IF Complete(Config(p), ev) THEN "finished" ELSE "running"
<1>1. PruneAndSetStatus(c, Eval(c, ms)) = [p EXCEPT !.status = s]
  BY DEF PruneAndSetStatus, SetStatus, Prune
<1>2. c.results = [k \in DOMAIN c.results |-> c.results[k]]
  BY ResultsAre DEF Tours
<1>3. DOMAIN c.results = UsedKeys(ev) /\ (c.status = "finished" <=> Complete(Config(c), ev))
  BY DEF Settled
<1> HIDE DEF ev
<1>4. f = c.results
  <2>1. PICK R, ks : R = c.results /\ ks = DOMAIN c.results \ UsedKeys(ev)
    OBVIOUS
  <2>2. Without(R, ks) = [k \in DOMAIN R \ ks |-> R[k]]
    BY WithoutIs
  <2>3. DOMAIN R \ ks = DOMAIN R
    BY <1>3, <2>1
  <2>4. Without(R, ks) = R
    BY <1>2, <2>1, <2>2, <2>3
  <2> QED BY <2>1, <2>4
<1> HIDE DEF f
<1>5. p = c
  BY <1>4 DEF Tours
<1> HIDE DEF p
<1>6. s = c.status
  BY <1>3, <1>5
<1> HIDE DEF s
<1>7. [c EXCEPT !.status = c.status] = c
  BY DEF Tours
<1> QED BY <1>1, <1>5, <1>6, <1>7

\* A tournament as a synchronisation leaves it is not changed by another one.
LEMMA SyncChangesNothing ==
  ASSUME NEW ps, NEW time, NEW ms \in Recorded(ps, time), NEW T \in Books(ps, DOMAIN ms),
         NEW t \in Tournaments, NEW at, T[t].status \in {"running", "finished"},
         Agrees(T[t], ms), Settled(T[t], ms), Idle(T, t, ms)
  PROVE  Sync(T, t, ms, at) = T
<1>1. T \in [Tournaments -> Tours(ps, DOMAIN ms)] /\ T[t] \in Tours(ps, DOMAIN ms)
  BY DEF Books
<1>2. RefreshLinked(T[t], ms) = T[t]
  BY <1>1, RefreshChangesNothing
<1>3. AssignAll(T, t, ms, at) = T
  BY AssignAllChangesNothing
<1>4. PruneAndSetStatus(T[t], Eval(T[t], ms)) = T[t]
  BY <1>1, PruneChangesNothing
<1>5. [T EXCEPT ![t] = T[t]] = T
  BY <1>1
<1>6. [T EXCEPT ![t] = RefreshLinked(@, ms)] = T
  BY <1>2, <1>5
<1>7. Sync(T, t, ms, at) = [T EXCEPT ![t] = PruneAndSetStatus(T[t], Eval(T[t], ms))]
  BY <1>3, <1>6 DEF Sync
<1> QED BY <1>4, <1>5, <1>7

\* So has the recursion over the tournaments.
LEMMA SyncTurnsAre ==
  ASSUME NEW T, NEW n \in Nat, n = Cardinality(Due(T)), NEW ms, NEW at
  PROVE  LET A == SyncTurns(T, ms, at)
         IN /\ A[0] = [tour |-> T, left |-> Due(T)]
            /\ \A i \in 1 .. n : A[i] = SyncFirst(A[i - 1], ms, at)
<1> DEFINE Z == [tour |-> T, left |-> Due(T)]
           Step(x) == SyncFirst(x, ms, at)
           SolvesUpTo(g, m) == g = [i \in 0 .. m |-> IF i = 0 THEN Z ELSE Step(g[i - 1])]
           S == {m \in Nat : \E g : SolvesUpTo(g, m)}
<1> HIDE DEF Step, Z
<1>1. 0 \in S
  <2>1. SolvesUpTo([i \in 0 .. 0 |-> Z], 0)
    OBVIOUS
  <2> QED BY <2>1
<1>2. ASSUME NEW m \in 0 .. n, m # n, m \in S
      PROVE  m + 1 \in S
  <2>1. PICK g : SolvesUpTo(g, m)
    BY <1>2
  <2>2. \A i \in 0 .. m : g[i] = IF i = 0 THEN Z ELSE Step(g[i - 1])
    BY <2>1
  <2> DEFINE h == [i \in 0 .. m + 1 |-> IF i = m + 1 THEN Step(g[m]) ELSE g[i]]
  <2>3. \A i \in 0 .. m + 1 : h[i] = IF i = 0 THEN Z ELSE Step(h[i - 1])
    <3> SUFFICES ASSUME NEW i \in 0 .. m + 1
                 PROVE  h[i] = IF i = 0 THEN Z ELSE Step(h[i - 1])
      OBVIOUS
    <3>1. CASE i = m + 1
      <4>1. i # 0 /\ i - 1 = m /\ m \in 0 .. m + 1 /\ m # m + 1
        BY <3>1
      <4>2. h[i - 1] = g[m]
        BY <4>1
      <4> QED BY <3>1, <4>1, <4>2
    <3>2. CASE i # m + 1
      <4>1. i \in 0 .. m /\ (i # 0 => i - 1 \in 0 .. m + 1 /\ i - 1 # m + 1)
        BY <3>2
      <4>2. i # 0 => h[i - 1] = g[i - 1]
        BY <4>1
      <4> QED BY <2>2, <3>2, <4>1, <4>2
    <3> QED BY <3>1, <3>2
  <2>4. SolvesUpTo(h, m + 1)
    <3>1. h = [i \in 0 .. m + 1 |-> h[i]]
      OBVIOUS
    <3> HIDE DEF h
    <3> QED BY <2>3, <3>1
  <2>5. m + 1 \in Nat
    OBVIOUS
  <2> HIDE DEF h
  <2> QED BY <2>4, <2>5
<1>3. n \in S
  <2>1. \A m \in 0 .. n : m # n /\ m \in S => m + 1 \in S
    BY <1>2
  <2> HIDE DEF S
  <2>2. 0 .. n \subseteq S
    BY <1>1, <2>1, UpTo
  <2>3. n \in 0 .. n
    OBVIOUS
  <2> QED BY <2>2, <2>3
<1> DEFINE A == CHOOSE g : SolvesUpTo(g, n)
<1>4. SyncTurns(T, ms, at) = A
  BY DEF SyncTurns, Step, Z
<1>5. SolvesUpTo(A, n)
  BY <1>3
<1> HIDE DEF A
<1>6. A[0] = Z /\ \A i \in 1 .. n : A[i] = Step(A[i - 1])
  <2>1. \A i \in 1 .. n : i \in 0 .. n /\ i # 0
    OBVIOUS
  <2> QED BY <1>5, <2>1
<1> QED BY <1>4, <1>6 DEF Step, Z

LEMMA FirstStartedIsOne ==
  ASSUME NEW ts, ts \subseteq Tournaments, ts # {}, NEW T, \A t \in ts : T[t].startedAt \in Nat
  PROVE  FirstStarted(T, ts) \in ts
<1>1. ts \subseteq Nat
  BY TournamentAssumption
<1>2. PICK g \in {T[t].startedAt : t \in ts} : \A h \in {T[t].startedAt : t \in ts} : g =< h
  <2>1. {T[t].startedAt : t \in ts} \subseteq Nat /\ {T[t].startedAt : t \in ts} # {}
    OBVIOUS
  <2> QED BY <2>1, Smallest
<1>3. PICK x \in {t \in ts : T[t].startedAt = g} : \A y \in {t \in ts : T[t].startedAt = g} : x =< y
  <2>1. {t \in ts : T[t].startedAt = g} \subseteq Nat /\ {t \in ts : T[t].startedAt = g} # {}
    BY <1>1, <1>2
  <2> QED BY <2>1, Smallest
<1>4. \A u \in ts : T[x].startedAt < T[u].startedAt \/ (T[x].startedAt = T[u].startedAt /\ x =< u)
  BY <1>1, <1>2, <1>3
<1>5. \E t \in ts : \A u \in ts : \/ T[t].startedAt < T[u].startedAt
                                \/ (T[t].startedAt = T[u].startedAt /\ t =< u)
  BY <1>3, <1>4
<1> QED BY <1>5 DEF FirstStarted

\* What a synchronisation of several tournaments leaves: those in done have been synchronised.
Progress(U, T, done, ps, ms) ==
  /\ U \in Books(ps, DOMAIN ms)
  /\ \A t \in Tournaments \ done : U[t] = T[t]
  /\ \A t \in done : /\ SameDraw(U[t], T[t]) /\ U[t].status \in {"running", "finished"}
                     /\ Agrees(U[t], ms) /\ Settled(U[t], ms)
  /\ \A t \in Tournaments : Links(U[t]) \subseteq Links(T[t]) \cup HasWinner(ms)
  /\ (\A t \in done : Links(T[t]) \subseteq Links(U[t])) => \A t \in done : Idle(U, t, ms)

\* MatchFinished: every tournament that is due is synchronised, and no other one changes.
LEMMA SyncAllProgresses ==
  ASSUME NEW ps, NEW time, NEW ms \in Recorded(ps, time), NEW T \in Books(ps, DOMAIN ms), NEW at \in Nat
  PROVE  Progress(SyncAll(T, ms, at), T, Due(T), ps, ms)
<1> DEFINE n == Cardinality(Due(T))
           C == SyncTurns(T, ms, at)
           J(x, i) == /\ x.left \subseteq Due(T) /\ Cardinality(x.left) = n - i
                      /\ Progress(x.tour, T, Due(T) \ x.left, ps, ms)
           S == {i \in 0 .. n : J(C[i], i)}
<1>1. Due(T) \subseteq Tournaments /\ IsFiniteSet(Due(T)) /\ n \in Nat
  <2>1. Due(T) \subseteq Tournaments
    BY DEF Due, Active
  <2>2. IsFiniteSet(Due(T))
    BY <2>1, FS_Subset, TournamentAssumption
  <2> QED BY <2>1, <2>2, FS_CardinalityType
<1> HIDE DEF n
<1>2. /\ C[0] = [tour |-> T, left |-> Due(T)]
      /\ \A i \in 1 .. n : C[i] = SyncFirst(C[i - 1], ms, at)
  BY <1>1, SyncTurnsAre DEF n
<1> HIDE DEF C
<1>3. 0 \in S
  <2>1. Progress(T, T, {}, ps, ms)
    BY DEF Progress
  <2>2. C[0].tour = T /\ C[0].left = Due(T) /\ Due(T) \ Due(T) = {}
    BY <1>2
  <2>3. Cardinality(Due(T)) = n - 0
    BY <1>1 DEF n
  <2>4. J(C[0], 0)
    BY <2>1, <2>2, <2>3
  <2> HIDE DEF J
  <2> QED BY <1>1, <2>4
<1>4. ASSUME NEW i \in 0 .. n, i # n, i \in S
      PROVE  i + 1 \in S
  <2> DEFINE U == C[i].tour
             left == C[i].left
             t == FirstStarted(U, left)
             N == Sync(U, t, ms, at)
  <2>1. i + 1 \in 1 .. n /\ (i + 1) - 1 = i /\ i + 1 \in 0 .. n
    BY <1>1, <1>4
  <2>2. /\ left \subseteq Due(T) /\ Cardinality(left) = n - i
        /\ Progress(U, T, Due(T) \ left, ps, ms)
    BY <1>4
  <2>3. C[i + 1] = [tour |-> N, left |-> left \ {t}]
    BY <1>2, <2>1 DEF SyncFirst
  <2> HIDE DEF U, left
  <2>4. left # {}
    <3>1. Cardinality({}) = 0
      BY FS_EmptySet
    <3>2. n - i # 0
      BY <1>1, <1>4
    <3> QED BY <2>2, <3>1, <3>2
  <2>5. U \in Books(ps, DOMAIN ms) /\ \A u \in Tournaments : U[u].startedAt \in Nat
    <3>1. U \in Books(ps, DOMAIN ms)
      BY <2>2 DEF Progress
    <3>2. \A u \in Tournaments : U[u] \in Tours(ps, DOMAIN ms)
      BY <3>1 DEF Books
    <3> QED BY <3>1, <3>2 DEF Tours
  <2>6. t \in left
    BY <1>1, <2>2, <2>4, <2>5, FirstStartedIsOne
  <2> HIDE DEF t
  <2>7. t \in Due(T) /\ t \in Tournaments
    BY <1>1, <2>2, <2>6
  <2>8. Synced(N, U, t, ps, ms)
    BY <2>5, <2>7, SyncIsSynced
  <2> HIDE DEF N
  <2>9. Progress(N, T, Due(T) \ (left \ {t}), ps, ms)
    <3>1. \A u \in Tournaments \ (Due(T) \ (left \ {t})) : N[u] = T[u]
      BY <2>2, <2>6, <2>7, <2>8 DEF Progress, Synced
    <3>2. ASSUME NEW u \in Due(T) \ (left \ {t})
          PROVE  /\ SameDraw(N[u], T[u]) /\ N[u].status \in {"running", "finished"}
                 /\ Agrees(N[u], ms) /\ Settled(N[u], ms)
      <4>1. CASE u = t
        <5>1. U[t] = T[t]
          BY <2>2, <2>6, <2>7 DEF Progress
        <5> QED BY <2>8, <4>1, <5>1 DEF Synced
      <4>2. CASE u # t
        <5>1. N[u] = U[u] /\ u \in Due(T) \ left
          BY <1>1, <2>8, <3>2, <4>2 DEF Synced
        <5> QED BY <2>2, <5>1 DEF Progress
      <4> QED BY <4>1, <4>2
    <3>3. ASSUME NEW u \in Tournaments
          PROVE  Links(N[u]) \subseteq Links(T[u]) \cup HasWinner(ms)
      <4>1. Links(U[u]) \subseteq Links(T[u]) \cup HasWinner(ms)
        BY <2>2 DEF Progress
      <4>2. Links(N[u]) \subseteq Links(U[u]) \cup HasWinner(ms)
        BY <2>8 DEF Synced, Resolved
      <4> QED BY <4>1, <4>2
    <3>4. ASSUME \A u \in Due(T) \ (left \ {t}) : Links(T[u]) \subseteq Links(N[u]),
                 NEW v \in Due(T) \ (left \ {t})
          PROVE  Idle(N, v, ms)
      <4>1. U[t] = T[t] /\ t \in Due(T) \ (left \ {t})
        BY <2>2, <2>6, <2>7 DEF Progress
      <4>2. Links(U[t]) \subseteq Links(N[t])
        BY <3>4, <4>1
      <4>3. CASE v = t
        BY <2>8, <4>2, <4>3 DEF Synced, Resolved
      <4>4. CASE v # t
        <5>1. \A u \in Due(T) \ left : u # t /\ u \in Tournaments /\ u \in Due(T) \ (left \ {t})
          BY <1>1, <2>6
        <5>2. \A u \in Due(T) \ left : N[u] = U[u]
          BY <2>8, <5>1 DEF Synced
        <5>3. \A u \in Due(T) \ left : Links(T[u]) \subseteq Links(U[u])
          BY <3>4, <5>1, <5>2
        <5>4. Idle(U, v, ms) /\ N[v] = U[v]
          BY <2>2, <3>4, <4>4, <5>2, <5>3 DEF Progress
        <5>5. Used(U) \subseteq Used(N)
          <6>1. \A u \in Tournaments : Links(U[u]) \subseteq Links(N[u])
            BY <2>8, <4>2 DEF Synced
          <6> QED BY <6>1 DEF Used
        <5>6. Used(N) \subseteq Used(U) \cup HasWinner(ms)
          <6>1. \A u \in Tournaments : Links(N[u]) \subseteq Links(U[u]) \cup HasWinner(ms)
            BY <2>8 DEF Synced, Resolved
          <6> QED BY <6>1 DEF Used
        <5>7. EqualTree(Eval(U[v], ms), Eval(N[v], ms)) /\ N[v].ignored = U[v].ignored
          BY <5>4 DEF EqualTree
        <5> QED BY <5>4, <5>5, <5>6, <5>7, IdleStays
      <4> QED BY <4>3, <4>4
    <3>5. N \in Books(ps, DOMAIN ms)
      BY <2>8 DEF Synced
    <3> QED BY <3>1, <3>2, <3>3, <3>4, <3>5 DEF Progress
  <2>10. Cardinality(left \ {t}) = n - (i + 1)
    <3>1. IsFiniteSet(left)
      BY <1>1, <2>2, FS_Subset
    <3>2. Cardinality(left \ {t}) = Cardinality(left) - 1
      BY <2>6, <3>1, FS_RemoveElement
    <3> QED BY <1>1, <2>2, <3>2
  <2>11. C[i + 1].tour = N /\ C[i + 1].left = left \ {t}
    BY <2>3
  <2>12. J(C[i + 1], i + 1)
    BY <2>2, <2>9, <2>10, <2>11
  <2> HIDE DEF J
  <2> QED BY <2>1, <2>12
<1>5. \A i \in 0 .. n : i # n /\ i \in S => i + 1 \in S
  BY <1>4
<1>6. n \in S
  <2> HIDE DEF S
  <2>1. 0 .. n \subseteq S
    BY <1>1, <1>3, <1>5, UpTo
  <2> QED BY <1>1, <2>1
<1>7. C[n].left = {}
  <2>1. C[n].left \subseteq Due(T) /\ Cardinality(C[n].left) = n - n
    BY <1>6
  <2>2. IsFiniteSet(C[n].left) /\ Cardinality(C[n].left) = 0
    BY <1>1, <2>1, FS_Subset
  <2> QED BY <2>2, FS_EmptySet
<1>8. Progress(C[n].tour, T, Due(T) \ {}, ps, ms)
  BY <1>6, <1>7
<1>9. Due(T) \ {} = Due(T)
  OBVIOUS
<1> QED BY <1>8, <1>9 DEF SyncAll, C, n

-----------------------------------------------------------------------------
(* Draws *)

LEMMA SeqOfMembers ==
  ASSUME NEW A, NEW B, NEW s \in Seq(A), ToSet(s) \subseteq B
  PROVE  s \in Seq(B)
<1>1. Len(s) \in Nat /\ s \in [1 .. Len(s) -> A] /\ DOMAIN s = 1 .. Len(s)
  OBVIOUS
<1>2. s \in [1 .. Len(s) -> B]
  BY <1>1 DEF ToSet
<1> QED BY <1>1, <1>2

LEMMA MembersOfSeq ==
  ASSUME NEW B, NEW s \in Seq(B)
  PROVE  ToSet(s) \subseteq B /\ Len(s) \in Nat /\ DOMAIN s = 1 .. Len(s)
BY DEF ToSet

\* A draw without p is one of the others, and still has everybody once.
LEMMA WithoutPlayerIs ==
  ASSUME NEW ps, NEW s \in Seq(ps), IsInjective(s), NEW p
  PROVE  WithoutPlayer(s, p) \in Seq(ps \ {p}) /\ IsInjective(WithoutPlayer(s, p))
<1> DEFINE w == WithoutPlayer(s, p)
           n == Len(s)
<1>1. n \in Nat /\ DOMAIN s = 1 .. n /\ \A i \in 1 .. n : s[i] \in ps
  OBVIOUS
<1>2. CASE p \notin ToSet(s)
  <2>1. w = s
    BY <1>2 DEF WithoutPlayer
  <2>2. ToSet(s) \subseteq ps \ {p}
    BY <1>2, MembersOfSeq
  <2> QED BY <2>1, <2>2, SeqOfMembers
<1>3. CASE p \in ToSet(s)
  <2> DEFINE at == CHOOSE i \in DOMAIN s : s[i] = p
             from(i) == IF i < at THEN i ELSE i + 1
  <2>1. at \in 1 .. n /\ s[at] = p
    <3>1. \E i \in DOMAIN s : s[i] = p
      BY <1>3 DEF ToSet
    <3> QED BY <1>1, <3>1
  <2>2. w = [i \in 1 .. n - 1 |-> s[from(i)]]
    BY <1>3 DEF WithoutPlayer
  <2> HIDE DEF at
  <2>3. \A i \in 1 .. n - 1 : from(i) \in 1 .. n /\ from(i) # at
    BY <1>1, <2>1
  <2>4. \A i, j \in 1 .. n - 1 : from(i) = from(j) => i = j
    BY <1>1, <2>1
  <2> HIDE DEF from
  <2>5. \A i, j \in 1 .. n : s[i] = s[j] => i = j
    BY <1>1 DEF IsInjective
  <2> HIDE DEF w, n
  <2>6. \A i \in 1 .. n - 1 : s[from(i)] \in ps \ {p}
    BY <1>1, <2>1, <2>3, <2>5
  <2>7. n - 1 \in Nat
    BY <1>1, <2>1
  <2>8. w \in [1 .. n - 1 -> ps \ {p}]
    BY <2>2, <2>6
  <2>9. w \in Seq(ps \ {p})
    BY <2>7, <2>8
  <2>10. \A i, j \in 1 .. n - 1 : s[from(i)] = s[from(j)] => i = j
    BY <2>3, <2>4, <2>5
  <2>11. DOMAIN w = 1 .. n - 1 /\ \A i \in 1 .. n - 1 : w[i] = s[from(i)]
    BY <2>2
  <2>12. IsInjective(w)
    BY <2>10, <2>11 DEF IsInjective
  <2> QED BY <2>9, <2>12 DEF w
<1> QED BY <1>2, <1>3

\* The draw s after player p was merged into q.
MergedInto(s, p, q) ==
  LET kept == IF q \in ToSet(s) THEN WithoutPlayer(s, p) ELSE s
  IN [i \in DOMAIN kept |-> IF kept[i] = p THEN q ELSE kept[i]]

\* Merging p into q keeps everybody once.
LEMMA MergedDraw ==
  ASSUME NEW ps, NEW s \in Seq(ps), IsInjective(s), NEW p \in ps, NEW q \in ps, p # q
  PROVE  MergedInto(s, p, q) \in Seq(ps \ {p}) /\ IsInjective(MergedInto(s, p, q))
<1> DEFINE name(x) == IF x = p THEN q ELSE x
           kept == IF q \in ToSet(s) THEN WithoutPlayer(s, p) ELSE s
           merged == [i \in DOMAIN kept |-> name(kept[i])]
<1>1. kept \in Seq(ps) /\ IsInjective(kept) /\ (p \notin ToSet(kept) \/ q \notin ToSet(kept))
  <2>1. CASE q \in ToSet(s)
    <3>1. kept \in Seq(ps \ {p}) /\ IsInjective(kept)
      BY <2>1, WithoutPlayerIs
    <3> HIDE DEF kept
    <3>2. ToSet(kept) \subseteq ps \ {p}
      BY <3>1, MembersOfSeq
    <3>3. kept \in Seq(ps)
      BY <3>1, <3>2, SeqOfMembers
    <3> QED BY <3>1, <3>2, <3>3
  <2>2. CASE q \notin ToSet(s)
    BY <2>2
  <2> QED BY <2>1, <2>2
<1> HIDE DEF kept
<1>2. Len(kept) \in Nat /\ DOMAIN kept = 1 .. Len(kept) /\ \A i \in DOMAIN kept : kept[i] \in ps
  BY <1>1
<1>3. merged \in [1 .. Len(kept) -> ps \ {p}]
  BY <1>2
<1>4. merged \in Seq(ps \ {p})
  <2> HIDE DEF merged
  <2> QED BY <1>2, <1>3
<1>5. \A i, j \in DOMAIN kept : name(kept[i]) = name(kept[j]) => i = j
  BY <1>1 DEF IsInjective, ToSet
<1>6. IsInjective(merged)
  BY <1>5 DEF IsInjective
<1> QED BY <1>4, <1>6 DEF kept, MergedInto

-----------------------------------------------------------------------------
(* The inductive invariant *)

Typed == /\ players \subseteq Players
         /\ now \in 0 .. MaxTime
         /\ matches \in Recorded(players, now)
         /\ tour \in Books(players, DOMAIN matches)

\* Every tournament the last operation on which was followed by a synchronisation is as
\* one leaves it.
Synchronised == \A t \in Evaluated \ unsynced : Settled(tour[t], matches) /\ Agrees(tour[t], matches)

LEMMA TypedImplies ==
  Typed => TypeOK /\ MatchUsedOnce /\ DetachedStaysDetached
<1> SUFFICES ASSUME Typed PROVE TypeOK /\ MatchUsedOnce /\ DetachedStaysDetached
  OBVIOUS
<1>1. /\ tour \in [Tournaments -> Tours(players, DOMAIN matches)]
      /\ UsedOnce(tour) /\ Apart(tour)
  BY DEF Typed, Books
<1>2. ASSUME NEW m \in DOMAIN matches
      PROVE  /\ m \in 1 .. MaxMatches
             /\ matches[m].players \subseteq players
             /\ matches[m].winner \in matches[m].players \cup {Nobody}
             /\ matches[m].waiting \in BOOLEAN
             /\ matches[m].started \in 0 .. matches[m].updated
  <2>1. matches[m] \in MatchRows(players, now) /\ m \in 1 .. MaxMatches
    BY RecordedAre DEF Typed
  <2>2. now \in Int
    BY DEF Typed
  <2> QED BY <2>1, <2>2 DEF MatchRows
<1>3. ASSUME NEW t \in Tournaments
      PROVE  /\ tour[t].status \in Statuses
             /\ ToSet(tour[t].order) \subseteq players
             /\ tour[t].ignored \subseteq DOMAIN matches
             /\ \A k \in DOMAIN tour[t].results :
                  tour[t].results[k] \in ResultRows(players, DOMAIN matches)
  <2>1. /\ tour[t].order \in Seq(players) /\ tour[t].results \in Results(players, DOMAIN matches)
        /\ tour[t].status \in Statuses /\ tour[t].ignored \in SUBSET DOMAIN matches
    BY <1>1 DEF Tours
  <2> QED BY <2>1, MembersOfSeq, ResultsAre
<1>4. TypeOK
  BY <1>2, <1>3 DEF Typed, TypeOK, ResultRows, Statuses
<1>5. MatchUsedOnce
  BY <1>1 DEF UsedOnce, MatchUsedOnce
<1>6. DetachedStaysDetached
  BY <1>1 DEF Apart, DetachedStaysDetached
<1> QED BY <1>4, <1>5, <1>6

LEMMA SynchronisedImplies ==
  Synchronised => NoStaleResult /\ StatusTracksTree /\ LinkedResultsAgree
BY DEF Synchronised, Settled, Agrees, NoStaleResult, StatusTracksTree, LinkedResultsAgree, EvalOf

\* A recorded result is shown with its own players' legs on each side.
LEMMA TypedShowsLegs ==
  Typed => LegsOnTheirSide
<1> SUFFICES ASSUME Typed, NEW t \in Evaluated, NEW k \in UsedKeys(EvalOf(t))
             PROVE  LegsShown(tour[t].results[k], EvalOf(t)[k].a)
                      = [a |-> EvalOf(t)[k].a, b |-> EvalOf(t)[k].b]
  BY DEF LegsOnTheirSide
<1>1. t \in Tournaments
  BY DEF Evaluated, Due, Active
<1>2. tour[t] \in Tours(players, DOMAIN matches)
  BY <1>1 DEF Typed, Books
<1>3. k \in DOMAIN EvalOf(t) /\ EvalOf(t)[k].status = "done"
  BY DEF UsedKeys
<1>4. Sound(EvalOf(t)[k], k, tour[t].results)
  BY <1>2, <1>3, EvalIsSound DEF EvalOf
<1>5. Fits(tour[t].results[k], EvalOf(t)[k].a, EvalOf(t)[k].b)
  BY <1>3, <1>4 DEF Sound
<1> QED BY <1>5 DEF Fits, LegsShown

LEMMA EmptyResults ==
  ASSUME NEW ps, NEW ids
  PROVE  <<>> \in Results(ps, ids) /\ DOMAIN <<>> = {}
<1>1. DOMAIN <<>> = {} /\ <<>> = [k \in {} |-> 0]
  OBVIOUS
<1>2. [k \in {} |-> 0] = [k \in DOMAIN <<>> |-> <<>>[k]]
  BY <1>1
<1> QED BY <1>1, <1>2, ResultsAre

LEMMA NoTournamentIsOne ==
  ASSUME NEW ps, NEW ids
  PROVE  NoTournament \in Tours(ps, ids)
<1>1. <<>> \in Results(ps, ids)
  BY EmptyResults
<1>2. <<>> \in Seq(ps) /\ IsInjective(<<>>)
  BY DEF IsInjective
<1> QED BY <1>1, <1>2 DEF NoTournament, Tours, Statuses

LEMMA TypedInitially ==
  Init => Typed /\ Synchronised
<1> SUFFICES ASSUME Init PROVE Typed /\ Synchronised
  OBVIOUS
<1>1. players \subseteq Players /\ now \in 0 .. MaxTime
  BY TournamentAssumption DEF Init
<1>2. matches \in Recorded(players, now) /\ DOMAIN matches = {}
  <2>1. matches = <<>> /\ DOMAIN <<>> = {} /\ <<>> = [k \in {} |-> 0]
    BY DEF Init
  <2>2. matches = [k \in DOMAIN matches |-> matches[k]]
    BY <2>1
  <2> QED BY <2>1, <2>2, RecordedAre
<1>3. \A t \in Tournaments : tour[t] = NoTournament
  BY DEF Init
<1>4. tour \in Books(players, DOMAIN matches)
  <2>1. tour \in [Tournaments -> Tours(players, DOMAIN matches)]
    BY NoTournamentIsOne DEF Init
  <2>2. \A t \in Tournaments : DOMAIN tour[t].results = {}
    BY <1>3, EmptyResults DEF NoTournament
  <2> QED BY <2>1, <2>2 DEF Books, UsedOnce, Apart
<1>5. Evaluated = {}
  BY <1>3 DEF Evaluated, Due, Active, NoTournament
<1> QED BY <1>1, <1>2, <1>4, <1>5 DEF Typed, Synchronised

IInv == Typed /\ Synchronised

-----------------------------------------------------------------------------
(* The admin's operations *)

\* What every handler of a running tournament ends with; only matches of new were not
\* linked before.
Commits(t, new) ==
  \E T \in Books(players, DOMAIN matches) :
    /\ \A u \in Tournaments \ {t} : T[u] = tour[u]
    /\ Links(T[t]) \subseteq Links(tour[t]) \cup new
    /\ CommitSynced(T, t)

LEMMA CommitKeeps ==
  ASSUME IInv, NEW t \in Tournaments, NEW new, Commits(t, new)
  PROVE  IInv'
<1>0. PICK T \in Books(players, DOMAIN matches) :
        (\A u \in Tournaments \ {t} : T[u] = tour[u]) /\ CommitSynced(T, t)
  BY DEF Commits
<1>1. /\ tour' = Sync(T, t, matches, now) /\ unsynced' = unsynced \ {t}
      /\ matches' = matches /\ players' = players /\ now' = now
  BY <1>0 DEF CommitSynced
<1>2. now \in Nat /\ matches \in Recorded(players, now) /\ players \subseteq Players /\ now \in 0 .. MaxTime
  BY DEF IInv, Typed
<1>3. Synced(tour', T, t, players, matches)
  BY <1>1, <1>2, SyncIsSynced
<1>4. Typed'
  BY <1>1, <1>2, <1>3 DEF Typed, Synced
<1>5. Synchronised'
  <2> SUFFICES ASSUME NEW u \in Evaluated', u \notin unsynced'
               PROVE  Settled(tour'[u], matches') /\ Agrees(tour'[u], matches')
    BY DEF Synchronised
  <2>1. CASE u = t
    BY <1>1, <1>3, <2>1 DEF Synced
  <2>2. CASE u # t
    <3>1. u \in Tournaments
      BY DEF Evaluated, Due, Active
    <3>2. tour'[u] = tour[u] /\ u \notin unsynced
      BY <1>0, <1>1, <1>3, <2>2, <3>1 DEF Synced
    <3>3. u \in Evaluated
      BY <3>1, <3>2 DEF Evaluated, Due, Active, Synchronisable
    <3> QED BY <1>1, <3>2, <3>3 DEF IInv, Synchronised
  <2> QED BY <2>1, <2>2
<1> QED BY <1>4, <1>5 DEF IInv

\* A tournament is prepared or deleted.
LEMMA UnstartedKeeps ==
  ASSUME IInv, NEW t \in Tournaments, NEW d, d \in Tours(players, DOMAIN matches),
         d.status \in {"none", "draft"}, DOMAIN d.results \subseteq DOMAIN tour[t].results,
         \A k \in DOMAIN d.results : d.results[k] = tour[t].results[k] /\ d.ignored = tour[t].ignored,
         tour' = [tour EXCEPT ![t] = d], unsynced \ {t} \subseteq unsynced',
         UNCHANGED <<matches, players, now>>
  PROVE  IInv'
<1>1. tour \in Books(players, DOMAIN matches)
  BY DEF IInv, Typed
<1>2. tour \in [Tournaments -> Tours(players, DOMAIN matches)] /\ Apart(tour)
  BY <1>1 DEF Books
<1>3. \A k \in DOMAIN d.results : /\ d.results[k].match = tour[t].results[k].match
                                  /\ d.results[k].match \notin d.ignored
  BY <1>2 DEF Apart
<1>4. tour' \in Books(players, DOMAIN matches)
  BY <1>1, <1>3, FewerInBook
<1>5. Typed'
  BY <1>4 DEF IInv, Typed
<1>6. Synchronised'
  <2> SUFFICES ASSUME NEW u \in Evaluated', u \notin unsynced'
               PROVE  Settled(tour'[u], matches') /\ Agrees(tour'[u], matches')
    BY DEF Synchronised
  <2>1. u \in Tournaments /\ tour'[u].status \in {"running", "finished"}
    BY DEF Evaluated, Due, Active
  <2>2. u # t
    BY <1>2, <2>1
  <2>3. tour'[u] = tour[u] /\ u \notin unsynced
    BY <1>2, <2>1, <2>2
  <2>4. u \in Evaluated
    BY <2>1, <2>3 DEF Evaluated, Due, Active, Synchronisable
  <2> QED BY <2>3, <2>4 DEF IInv, Synchronised
<1> QED BY <1>5, <1>6 DEF IInv

\* The participants that are entered exist.
LEMMA SetupIsDraw ==
  ASSUME NEW t \in Tournaments, NEW s \in Setups[t], ToSet(s.order) \subseteq players
  PROVE  /\ s.order \in Seq(players) /\ IsInjective(s.order)
         /\ s.third \in BOOLEAN /\ s.lucky \in BOOLEAN /\ s.llEntry \in Nat
<1>1. s \in [order : Seq(Players), third : BOOLEAN, lucky : BOOLEAN, llEntry : Nat] /\ IsInjective(s.order)
  BY SetupAssumption
<1> QED BY <1>1, SeqOfMembers

LEMMA CreateKeeps ==
  ASSUME IInv, NEW t \in Tournaments, NEW s \in Setups[t], Create(t, s)
  PROVE  IInv'
<1>1. PICK d : d = [NoTournament EXCEPT !.status = "draft", !.order = s.order, !.third = s.third,
                                        !.lucky = s.lucky, !.llEntry = s.llEntry]
  OBVIOUS
<1>2. /\ s.order \in Seq(players) /\ IsInjective(s.order)
      /\ s.third \in BOOLEAN /\ s.lucky \in BOOLEAN /\ s.llEntry \in Nat
  BY SetupIsDraw DEF Create
<1>3. d = [status |-> "draft", order |-> s.order, third |-> s.third, lucky |-> s.lucky,
           llEntry |-> s.llEntry, playinMatch |-> 0, playinSide |-> 0, startedAt |-> 0,
           results |-> <<>>, ignored |-> {}]
  BY <1>1 DEF NoTournament
<1>4. <<>> \in Results(players, DOMAIN matches) /\ DOMAIN <<>> = {}
  BY EmptyResults
<1>5. d \in Tours(players, DOMAIN matches)
  BY <1>2, <1>3, <1>4 DEF Tours, Statuses
<1>6. d.status = "draft" /\ DOMAIN d.results = {}
  BY <1>3, <1>4
<1>7. /\ tour' = [tour EXCEPT ![t] = d] /\ unsynced' = unsynced \ {t}
      /\ UNCHANGED <<matches, players, now>>
  BY <1>1 DEF Create
<1> QED BY <1>5, <1>6, <1>7, UnstartedKeeps

LEMMA EditKeeps ==
  ASSUME IInv, NEW t \in Tournaments, NEW s \in Setups[t], Edit(t, s)
  PROVE  IInv'
<1>1. PICK d : d = [tour[t] EXCEPT !.order = s.order, !.third = s.third,
                                   !.lucky = s.lucky, !.llEntry = s.llEntry]
  OBVIOUS
<1>2. /\ s.order \in Seq(players) /\ IsInjective(s.order)
      /\ s.third \in BOOLEAN /\ s.lucky \in BOOLEAN /\ s.llEntry \in Nat
  BY SetupIsDraw DEF Edit
<1>3. tour \in [Tournaments -> Tours(players, DOMAIN matches)]
  BY DEF IInv, Typed, Books
<1>4. d \in Tours(players, DOMAIN matches)
  <2>1. tour[t] \in Tours(players, DOMAIN matches)
    BY <1>3
  <2> QED BY <1>1, <1>2, <2>1 DEF Tours
<1>5. d.status = "draft" /\ d.results = tour[t].results /\ d.ignored = tour[t].ignored
  <2>1. tour[t] \in Tours(players, DOMAIN matches)
    BY <1>3
  <2> QED BY <1>1, <2>1 DEF Tours, Edit
<1>6. tour' = [tour EXCEPT ![t] = d]
  BY <1>1, <1>3 DEF Edit
<1>7. unsynced' = unsynced /\ UNCHANGED <<matches, players, now>>
  BY DEF Edit
<1> QED BY <1>4, <1>5, <1>6, <1>7, UnstartedKeeps

LEMMA DeleteKeeps ==
  ASSUME IInv, NEW t \in Tournaments, Delete(t)
  PROVE  IInv'
<1>1. PICK d : d = NoTournament
  OBVIOUS
<1>2. d \in Tours(players, DOMAIN matches)
  BY <1>1, NoTournamentIsOne
<1>3. d.status = "none" /\ DOMAIN d.results = {}
  BY <1>1, EmptyResults DEF NoTournament
<1>4. /\ tour' = [tour EXCEPT ![t] = d] /\ unsynced' = unsynced \ {t}
      /\ UNCHANGED <<matches, players, now>>
  BY <1>1 DEF Delete
<1> QED BY <1>2, <1>3, <1>4, UnstartedKeeps

LEMMA ResyncCommits ==
  ASSUME IInv, NEW t \in Tournaments, Resync(t)
  PROVE  Commits(t, {})
<1>1. PICK T : T = tour
  OBVIOUS
<1>2. T \in Books(players, DOMAIN matches) /\ CommitSynced(T, t)
  BY <1>1 DEF IInv, Typed, Resync
<1> QED BY <1>1, <1>2 DEF Commits

\* A draw of the same players
LEMMA DrawnCommits ==
  ASSUME IInv, NEW t \in Tournaments, NEW started \in Nat, Drawn(t, started)
  PROVE  Commits(t, {})
<1> DEFINE ids == DOMAIN matches
<1>0. /\ tour \in Books(players, ids) /\ tour \in [Tournaments -> Tours(players, ids)]
      /\ tour[t] \in Tours(players, ids) /\ Apart(tour)
  BY DEF IInv, Typed, Books
<1>1. PICK order \in Draws(tour[t].order) :
      \E playinMatch \in IF Config(tour[t]).lucky
                         THEN 0 .. Width(Config(tour[t]), Entry(Config(tour[t]))) - 1 ELSE {0} :
      \E playinSide \in IF Config(tour[t]).lucky THEN Sides ELSE {0} :
        CommitSynced([tour EXCEPT ![t].order = order, ![t].playinMatch = playinMatch,
                                  ![t].playinSide = playinSide, ![t].startedAt = started,
                                  ![t].status = "running"], t)
  BY DEF Drawn
<1>2. PICK playinMatch \in Nat, playinSide \in {0, 1} :
        CommitSynced([tour EXCEPT ![t].order = order, ![t].playinMatch = playinMatch,
                                  ![t].playinSide = playinSide, ![t].startedAt = started,
                                  ![t].status = "running"], t)
  <2> DEFINE top == Width(Config(tour[t]), Entry(Config(tour[t]))) - 1
             M == IF Config(tour[t]).lucky THEN 0 .. top ELSE {0}
             I == IF Config(tour[t]).lucky THEN Sides ELSE {0}
  <2>1. M \subseteq Nat
    <3> HIDE DEF top
    <3> QED OBVIOUS
  <2>2. I \subseteq {0, 1}
    BY TournamentAssumption
  <2> HIDE DEF top
  <2> QED BY <1>1, <2>1, <2>2 DEF top
<1>3. order \in Seq(players) /\ IsInjective(order)
  <2>1. tour[t].order \in Seq(players) /\ IsInjective(tour[t].order)
    BY <1>0 DEF Tours
  <2>2. CASE order = tour[t].order
    BY <2>1, <2>2
  <2>3. CASE order # tour[t].order
    <3>1. order \in Seq(Players) /\ ToSet(order) = ToSet(tour[t].order) /\ IsInjective(order)
      BY <2>3, TournamentAssumption DEF Draws
    <3>2. ToSet(order) \subseteq players
      BY <2>1, <3>1, MembersOfSeq
    <3> QED BY <3>1, <3>2, SeqOfMembers
  <2> QED BY <2>2, <2>3
<1>4. PICK d : d = [tour[t] EXCEPT !.order = order, !.playinMatch = playinMatch,
                      !.playinSide = playinSide, !.startedAt = started, !.status = "running"]
  OBVIOUS
<1>5. PICK T : T = [tour EXCEPT ![t] = d]
  OBVIOUS
<1>6. T = [tour EXCEPT ![t].order = order, ![t].playinMatch = playinMatch,
                       ![t].playinSide = playinSide, ![t].startedAt = started,
                       ![t].status = "running"]
  BY <1>0, <1>4, <1>5
<1>7. d \in Tours(players, ids) /\ d.results = tour[t].results /\ d.ignored = tour[t].ignored
  BY <1>0, <1>2, <1>3, <1>4 DEF Tours, Statuses
<1> HIDE DEF ids
<1>8. T \in Books(players, ids)
  <2>1. \A k \in DOMAIN d.results : /\ d.results[k].match = tour[t].results[k].match
                                    /\ d.results[k].match \notin d.ignored
    BY <1>0, <1>7 DEF Apart
  <2>2. DOMAIN d.results \subseteq DOMAIN tour[t].results
    BY <1>7
  <2> QED BY <1>0, <1>5, <1>7, <2>1, <2>2, FewerInBook
<1>9. \A u \in Tournaments \ {t} : T[u] = tour[u]
  BY <1>0, <1>5
<1>10. CommitSynced(T, t)
  BY <1>2, <1>6
<1>11. Links(T[t]) \subseteq Links(tour[t]) \cup {}
  <2>1. T[t] = d
    BY <1>0, <1>5
  <2> QED BY <1>7, <2>1 DEF Links
<1> QED BY <1>8, <1>9, <1>10, <1>11 DEF Commits, ids

LEMMA StartCommits ==
  ASSUME IInv, NEW t \in Tournaments, Start(t) \/ Redraw(t)
  PROVE  Commits(t, {})
<1>1. now \in Nat /\ tour[t].startedAt \in Nat
  BY DEF IInv, Typed, Books, Tours
<1>2. PICK started \in Nat : Drawn(t, started)
  BY <1>1 DEF Start, Redraw
<1> QED BY <1>2, DrawnCommits

LEMMA FixedKeysAre ==
  ASSUME IInv, NEW t \in Tournaments, NEW k \in FixedKeys(t)
  PROVE  k \in PairingKey
<1>1. tour[t] \in Tours(players, DOMAIN matches)
  BY DEF IInv, Typed, Books
<1>2. DOMAIN Eval(tour[t], matches) \subseteq PairingKey
  BY <1>1, EvalIsSound
<1>3. k \in DOMAIN Eval(tour[t], matches)
  BY DEF FixedKeys, ReadyKeys, UsedKeys
<1> QED BY <1>2, <1>3

LEMMA SetResultCommits ==
  ASSUME IInv, NEW t \in Tournaments, NEW k \in FixedKeys(t), SetResult(t, k)
  PROVE  Commits(t, {})
<1> DEFINE ids == DOMAIN matches
<1>0. /\ tour \in Books(players, ids) /\ tour \in [Tournaments -> Tours(players, ids)]
      /\ tour[t] \in Tours(players, ids) /\ now \in Nat /\ 0 \notin ids
  BY SizeOfRecorded DEF IInv, Typed, Books
<1>1. PICK p : p = Eval(tour[t], matches)[k]
  OBVIOUS
<1>2. PICK w \in {p.a, p.b} :
        /\ {p.a, p.b} \subseteq players
        /\ CommitSynced([tour EXCEPT ![t] = Put(@, k, p.a, p.b, w, 0, now)], t)
  BY <1>1 DEF SetResult
<1>3. k \in PairingKey
  BY FixedKeysAre
<1>4. NewRow(p.a, p.b, w, 0, now) \in ResultRows(players, ids)
  BY <1>0, <1>2 DEF NewRow, ResultRows
<1>5. PICK d : d = Put(tour[t], k, p.a, p.b, w, 0, now)
  OBVIOUS
<1> HIDE DEF ids
<1>6. d \in Tours(players, ids) /\ Stores(d, tour[t], k, NewRow(p.a, p.b, w, 0, now))
  BY <1>0, <1>3, <1>4, <1>5, PutStores
<1>7. PICK T : T = [tour EXCEPT ![t] = d]
  OBVIOUS
<1>8. /\ DOMAIN d.results = DOMAIN tour[t].results \cup {k} /\ d.results[k].match = 0
      /\ \A l \in DOMAIN tour[t].results \ {k} : d.results[l] = tour[t].results[l]
      /\ d.ignored = tour[t].ignored
  BY <1>6 DEF Stores, NewRow
<1>9. 0 \notin d.ignored
  BY <1>0, <1>6 DEF Tours
<1>10. T \in Books(players, ids)
  BY <1>0, <1>6, <1>7, <1>8, <1>9, StoredInBook
<1>11. \A u \in Tournaments \ {t} : T[u] = tour[u]
  BY <1>0, <1>7
<1>12. CommitSynced(T, t)
  <2>1. T = [tour EXCEPT ![t] = Put(@, k, p.a, p.b, w, 0, now)]
    BY <1>5, <1>7
  <2> QED BY <1>2, <2>1
<1>13. Links(T[t]) \subseteq Links(tour[t]) \cup {}
  <2>1. T[t] = d
    BY <1>0, <1>7
  <2> QED BY <1>8, <2>1 DEF Links
<1> QED BY <1>10, <1>11, <1>12, <1>13 DEF Commits, ids

LEMMA LinkMatchCommits ==
  ASSUME IInv, NEW t \in Tournaments, NEW k \in FixedKeys(t), NEW m \in DOMAIN matches,
         LinkMatch(t, k, m)
  PROVE  Commits(t, {m})
<1> DEFINE ids == DOMAIN matches
<1>0. /\ tour \in Books(players, ids) /\ tour \in [Tournaments -> Tours(players, ids)]
      /\ tour[t] \in Tours(players, ids) /\ now \in Nat
  BY DEF IInv, Typed, Books
<1>1. PICK p : p = Eval(tour[t], matches)[k]
  OBVIOUS
<1>2. /\ \A u \in Tournaments : \A l \in DOMAIN tour[u].results :
           tour[u].results[l].match = m => u = t /\ l = k
      /\ Readable(matches[m], p.a, p.b)
      /\ CommitSynced([tour EXCEPT ![t] = Put([tour[t] EXCEPT !.ignored = tour[t].ignored \ {m}],
                                              k, p.a, p.b, matches[m].winner, m, now)], t)
  BY <1>1 DEF LinkMatch
<1>3. k \in PairingKey
  BY FixedKeysAre
<1>4. PICK w : w = matches[m].winner
  OBVIOUS
<1>5. NewRow(p.a, p.b, w, m, now) \in ResultRows(players, ids)
  <2>1. matches[m] \in MatchRows(players, now)
    BY RecordedAre DEF IInv, Typed
  <2>2. {p.a, p.b} \subseteq players /\ w \in {p.a, p.b}
    BY <1>2, <1>4, <2>1 DEF MatchRows, Readable
  <2> QED BY <1>0, <2>2 DEF NewRow, ResultRows
<1>6. PICK c : c = [tour[t] EXCEPT !.ignored = tour[t].ignored \ {m}]
  OBVIOUS
<1>7. c \in Tours(players, ids) /\ c.results = tour[t].results /\ c.ignored = tour[t].ignored \ {m}
  BY <1>0, <1>6 DEF Tours
<1>8. PICK d : d = Put(c, k, p.a, p.b, w, m, now)
  OBVIOUS
<1> HIDE DEF ids
<1>9. d \in Tours(players, ids) /\ Stores(d, c, k, NewRow(p.a, p.b, w, m, now))
  BY <1>3, <1>5, <1>7, <1>8, PutStores
<1>10. PICK T : T = [tour EXCEPT ![t] = d]
  OBVIOUS
<1>11. /\ DOMAIN d.results = DOMAIN tour[t].results \cup {k} /\ d.results[k].match = m
       /\ \A l \in DOMAIN tour[t].results \ {k} : d.results[l] = tour[t].results[l]
       /\ d.ignored \subseteq tour[t].ignored /\ m \notin d.ignored
  BY <1>7, <1>9 DEF Stores, NewRow
<1>12. T \in Books(players, ids)
  <2>1. \A u \in Tournaments : \A l \in DOMAIN tour[u].results :
          tour[u].results[l].match = m => u = t /\ l = k
    BY <1>2
  <2>2. d \in Tours(players, ids)
    BY <1>9
  <2>3. tour \in Books(players, ids)
    BY <1>0
  <2>4. DOMAIN d.results = DOMAIN tour[t].results \cup {k} /\ d.results[k].match = m
    BY <1>11
  <2>5. \A l \in DOMAIN tour[t].results \ {k} : d.results[l] = tour[t].results[l]
    BY <1>11
  <2>6. d.ignored \subseteq tour[t].ignored /\ m \notin d.ignored
    BY <1>11
  <2>7. [tour EXCEPT ![t] = d] \in Books(players, ids)
    BY <2>1, <2>2, <2>3, <2>4, <2>5, <2>6, StoredInBook
  <2> QED BY <1>10, <2>7
<1>13. \A u \in Tournaments \ {t} : T[u] = tour[u]
  BY <1>0, <1>10
<1>14. CommitSynced(T, t)
  <2>1. T = [tour EXCEPT ![t] = Put([tour[t] EXCEPT !.ignored = tour[t].ignored \ {m}],
                                    k, p.a, p.b, matches[m].winner, m, now)]
    BY <1>4, <1>6, <1>8, <1>10
  <2> QED BY <1>2, <2>1
<1>15. Links(T[t]) \subseteq Links(tour[t]) \cup {m}
  <2>1. T[t] = d
    BY <1>0, <1>10
  <2> QED BY <1>11, <2>1 DEF Links
<1> QED BY <1>12, <1>13, <1>14, <1>15 DEF Commits, ids

LEMMA ClearResultCommits ==
  ASSUME IInv, NEW t \in Tournaments, NEW k \in DOMAIN tour[t].results, ClearResult(t, k)
  PROVE  Commits(t, {})
<1> DEFINE ids == DOMAIN matches
<1>0. /\ tour \in Books(players, ids) /\ tour \in [Tournaments -> Tours(players, ids)]
      /\ tour[t] \in Tours(players, ids) /\ UsedOnce(tour) /\ Apart(tour) /\ 0 \notin ids
  BY SizeOfRecorded DEF IInv, Typed, Books
<1>1. PICK m : m = tour[t].results[k].match
  OBVIOUS
<1>2. PICK f : f = Without(tour[t].results, {k})
  OBVIOUS
<1>3. tour[t].results \in Results(players, ids) /\ tour[t].ignored \subseteq ids
  BY <1>0 DEF Tours
<1>4. m \in {0} \cup ids
  BY <1>1, <1>3, ResultsAre DEF ResultRows
<1>5. /\ f \in Results(players, ids) /\ DOMAIN f = DOMAIN tour[t].results \ {k}
      /\ \A l \in DOMAIN f : f[l] = tour[t].results[l]
  <2>1. f \in Results(players, ids)
    BY <1>2, <1>3, WithoutResults
  <2>2. /\ DOMAIN f = DOMAIN tour[t].results \ {k}
        /\ \A l \in DOMAIN tour[t].results \ {k} : f[l] = tour[t].results[l]
    <3>1. PICK R, ks : R = tour[t].results /\ ks = {k}
      OBVIOUS
    <3>2. /\ DOMAIN Without(R, ks) = DOMAIN R \ ks
          /\ \A l \in DOMAIN R \ ks : Without(R, ks)[l] = R[l]
      BY WithoutIs
    <3> QED BY <1>2, <3>1, <3>2
  <2> QED BY <2>1, <2>2
<1>6. PICK d : d = [tour[t] EXCEPT !.ignored = @ \cup ({m} \ {0}), !.results = f]
  OBVIOUS
<1>7. d \in Tours(players, ids) /\ d.results = f /\ d.ignored = tour[t].ignored \cup ({m} \ {0})
  BY <1>0, <1>4, <1>5, <1>6 DEF Tours
<1>8. PICK T : T = [tour EXCEPT ![t] = d]
  OBVIOUS
<1>9. \A l \in DOMAIN d.results : /\ d.results[l].match = tour[t].results[l].match
                                  /\ d.results[l].match \notin d.ignored
  <2> SUFFICES ASSUME NEW l \in DOMAIN tour[t].results, l # k
               PROVE  tour[t].results[l].match \notin tour[t].ignored \cup ({m} \ {0})
    BY <1>5, <1>7
  <2>1. tour[t].results[l].match \notin tour[t].ignored
    BY <1>0 DEF Apart
  <2>2. m # 0 => tour[t].results[l].match # m
    BY <1>0, <1>1 DEF UsedOnce
  <2> QED BY <2>1, <2>2
<1> HIDE DEF ids
<1>10. T \in Books(players, ids)
  <2>1. DOMAIN d.results \subseteq DOMAIN tour[t].results
    BY <1>5, <1>7
  <2> QED BY <1>0, <1>7, <1>8, <1>9, <2>1, FewerInBook
<1>11. \A u \in Tournaments \ {t} : T[u] = tour[u]
  BY <1>0, <1>8
<1>12. CommitSynced(T, t)
  <2>1. CommitSynced([tour EXCEPT ![t].ignored = @ \cup ({tour[t].results[k].match} \ {0}),
                                  ![t].results = Without(@, {k})], t)
    BY DEF ClearResult
  <2>2. T = [tour EXCEPT ![t].ignored = @ \cup ({tour[t].results[k].match} \ {0}),
                         ![t].results = Without(@, {k})]
    BY <1>0, <1>1, <1>2, <1>6, <1>8
  <2> QED BY <2>1, <2>2
<1>13. Links(T[t]) \subseteq Links(tour[t]) \cup {}
  <2>1. T[t] = d
    BY <1>0, <1>8
  <2> QED BY <1>5, <1>7, <2>1 DEF Links
<1> QED BY <1>10, <1>11, <1>12, <1>13 DEF Commits, ids

-----------------------------------------------------------------------------
(* Matches *)

\* More matches may be linked than before.
LEMMA BooksGrow ==
  ASSUME NEW ps, NEW ids, NEW more, ids \subseteq more, NEW T \in Books(ps, ids)
  PROVE  T \in Books(ps, more)
<1>1. ResultRows(ps, ids) \subseteq ResultRows(ps, more)
  BY DEF ResultRows
<1>2. Results(ps, ids) \subseteq Results(ps, more)
  BY <1>1, ResultsAre
<1>3. Tours(ps, ids) \subseteq Tours(ps, more)
  <2> SUFFICES ASSUME NEW c \in Tours(ps, ids) PROVE c \in Tours(ps, more)
    OBVIOUS
  <2>1. c \in [status : Statuses, order : Seq(ps),
               third : BOOLEAN, lucky : BOOLEAN, llEntry : Nat, playinMatch : Nat, playinSide : {0, 1},
               startedAt : Nat, results : Results(ps, ids), ignored : SUBSET ids]
        /\ IsInjective(c.order)
    BY DEF Tours
  <2>2. c.results \in Results(ps, more) /\ c.ignored \in SUBSET more
    BY <1>2, <2>1
  <2> QED BY <2>1, <2>2 DEF Tours
<1> QED BY <1>3 DEF Books

\* After an ingest all tournaments that can be are synchronised.
Hooks == \E ms \in Recorded(players, now) : DOMAIN matches \subseteq DOMAIN ms /\ Hook(ms)

LEMMA HookKeeps ==
  ASSUME IInv, Hooks
  PROVE  IInv'
<1>0. PICK ms \in Recorded(players, now) : DOMAIN matches \subseteq DOMAIN ms /\ Hook(ms)
  BY DEF Hooks
<1>1. /\ matches' = ms /\ tour' = SyncAll(tour, ms, now) /\ unsynced' = unsynced \ Due(tour)
      /\ players' = players /\ now' = now
  BY <1>0 DEF Hook
<1>2. /\ now \in Nat /\ now \in 0 .. MaxTime /\ players \subseteq Players
      /\ tour \in Books(players, DOMAIN matches)
  BY DEF IInv, Typed
<1>3. tour \in Books(players, DOMAIN ms)
  BY <1>0, <1>2, BooksGrow
<1>4. Progress(tour', tour, Due(tour), players, ms)
  BY <1>1, <1>2, <1>3, SyncAllProgresses
<1>5. Typed'
  BY <1>1, <1>2, <1>4 DEF Typed, Progress
<1>6. Synchronised'
  <2> SUFFICES ASSUME NEW u \in Evaluated', u \notin unsynced'
               PROVE  Settled(tour'[u], matches') /\ Agrees(tour'[u], matches')
    BY DEF Synchronised
  <2>1. u \in Tournaments
    BY DEF Evaluated, Due, Active
  <2>2. CASE u \in Due(tour)
    BY <1>1, <1>4, <2>2 DEF Progress
  <2>3. CASE u \notin Due(tour)
    <3>1. tour'[u] = tour[u]
      BY <1>4, <2>1, <2>3 DEF Progress
    <3>2. u \in Due(tour)
      BY <2>1, <3>1 DEF Evaluated, Due, Active, Synchronisable
    <3> QED BY <2>3, <3>2
  <2> QED BY <2>2, <2>3
<1> QED BY <1>5, <1>6 DEF IInv

\* The next id is a positive number.
LEMMA NextIdIsNumber ==
  ASSUME NEW used, used \subseteq 1 .. MaxMatches
  PROVE  NextId(used) \in Nat \ {0}
<1> DEFINE S == used \cup {0}
<1>1. MaxMatches \in Nat /\ S \subseteq 0 .. MaxMatches /\ S # {}
  BY TournamentAssumption
<1>2. \E x \in S : \A y \in S : x >= y
  <2> HIDE DEF S
  <2> QED BY <1>1, Largest
<1>3. Max(S) \in S
  <2> HIDE DEF S
  <2> QED BY <1>2 DEF Max
<1>4. Max(S) \in Nat
  <2>1. \A x \in S : x \in Nat
    BY TournamentAssumption
  <2> HIDE DEF S
  <2> QED BY <1>3, <2>1
<1>5. 1 + Max(S) \in Nat \ {0}
  <2> HIDE DEF S
  <2> QED BY <1>4
<1> QED BY <1>5 DEF NextId

LEMMA RecordMatchHooks ==
  ASSUME IInv, NEW o \in Outcomes, NEW started \in Nat, RecordMatch(o, started)
  PROVE  Hooks
<1>0. /\ matches \in Recorded(players, now) /\ now \in Nat
      /\ matches = [m \in DOMAIN matches |-> matches[m]] /\ DOMAIN matches \subseteq 1 .. MaxMatches
      /\ \A m \in DOMAIN matches : matches[m] \in MatchRows(players, now)
  BY RecordedAre DEF IInv, Typed
<1>1. PICK id : id = NextId(DOMAIN matches)
  OBVIOUS
<1>2. PICK new : new = [players |-> o.players, winner |-> o.winner, waiting |-> o.waiting,
                        started |-> started, updated |-> now]
  OBVIOUS
<1>3. PICK ms : ms = Over([n \in {id} |-> new], matches)
  OBVIOUS
<1>4. /\ id =< MaxMatches /\ o.players \subseteq players /\ started \in 0 .. now /\ Hook(ms)
  BY <1>1, <1>2, <1>3 DEF RecordMatch
<1>5. id \in 1 .. MaxMatches
  BY <1>0, <1>1, <1>4, NextIdIsNumber, TournamentAssumption
<1>6. new \in MatchRows(players, now)
  <2>1. o.winner \in o.players \cup {Nobody} /\ o.waiting \in BOOLEAN
    BY TournamentAssumption
  <2> QED BY <1>0, <1>2, <1>4, <2>1 DEF MatchRows
<1>7. PICK one : one = [n \in {id} |-> new]
  OBVIOUS
<1>8. /\ DOMAIN ms = {id} \cup DOMAIN matches
      /\ \A m \in DOMAIN ms : ms[m] \in MatchRows(players, now)
      /\ ms = [m \in DOMAIN ms |-> ms[m]]
  <2>1. DOMAIN one = {id} /\ one[id] = new
    BY <1>7
  <2>2. /\ DOMAIN Over(one, matches) = DOMAIN one \cup DOMAIN matches
        /\ \A x \in DOMAIN one : Over(one, matches)[x] = one[x]
        /\ \A x \in DOMAIN matches \ DOMAIN one : Over(one, matches)[x] = matches[x]
    BY OverIs
  <2>3. ms = [x \in DOMAIN one \cup DOMAIN matches |-> IF x \in DOMAIN one THEN one[x] ELSE matches[x]]
    BY <1>3, <1>7, OverIsFunction
  <2>4. ms = Over(one, matches)
    BY <1>3, <1>7
  <2> QED BY <1>0, <1>6, <2>1, <2>2, <2>3, <2>4
<1>9. ms \in Recorded(players, now)
  BY <1>0, <1>5, <1>8, RecordedAre
<1>10. DOMAIN matches \subseteq DOMAIN ms
  BY <1>8
<1> QED BY <1>4, <1>9, <1>10 DEF Hooks

LEMMA RevisedMatchHooks ==
  ASSUME IInv, NEW m \in DOMAIN matches, NEW row \in MatchRows(players, now),
         Hook([matches EXCEPT ![m] = row])
  PROVE  Hooks
<1>0. /\ matches = [x \in DOMAIN matches |-> matches[x]] /\ DOMAIN matches \subseteq 1 .. MaxMatches
      /\ \A x \in DOMAIN matches : matches[x] \in MatchRows(players, now)
  BY RecordedAre DEF IInv, Typed
<1>1. PICK ms : ms = [matches EXCEPT ![m] = row]
  OBVIOUS
<1>2. DOMAIN ms = DOMAIN matches /\ ms = [x \in DOMAIN ms |-> ms[x]]
      /\ \A x \in DOMAIN ms : ms[x] \in MatchRows(players, now)
  BY <1>0, <1>1
<1>3. ms \in Recorded(players, now)
  BY <1>0, <1>2, RecordedAre
<1>4. Hook(ms) /\ DOMAIN matches \subseteq DOMAIN ms
  BY <1>1, <1>2
<1> QED BY <1>3, <1>4 DEF Hooks

LEMMA RedeliverHooks ==
  ASSUME IInv, NEW m \in DOMAIN matches, Redeliver(m)
  PROVE  Hooks
<1>1. matches[m] \in MatchRows(players, now) /\ now \in Nat
  BY RecordedAre DEF IInv, Typed
<1>2. PICK row : row = [matches[m] EXCEPT !.updated = now]
  OBVIOUS
<1>3. row \in MatchRows(players, now)
  BY <1>1, <1>2 DEF MatchRows
<1>4. [matches EXCEPT ![m] = row] = [matches EXCEPT ![m].updated = now]
  BY <1>2
<1>5. Hook([matches EXCEPT ![m] = row])
  BY <1>4 DEF Redeliver
<1> QED BY <1>3, <1>5, RevisedMatchHooks

LEMMA ReprocessHooks ==
  ASSUME IInv, NEW m \in DOMAIN matches, NEW o \in Outcomes, Reprocess(m, o)
  PROVE  Hooks
<1>1. matches[m] \in MatchRows(players, now)
  BY RecordedAre DEF IInv, Typed
<1>2. PICK row : row = [matches[m] EXCEPT !.players = o.players, !.winner = o.winner,
                                      !.waiting = o.waiting]
  OBVIOUS
<1>3. row \in MatchRows(players, now)
  <2>1. o.winner \in o.players \cup {Nobody} /\ o.players \subseteq players /\ o.waiting \in BOOLEAN
    BY TournamentAssumption DEF Reprocess
  <2> QED BY <1>1, <1>2, <2>1 DEF MatchRows
<1>4. [matches EXCEPT ![m] = row]
        = [matches EXCEPT ![m].players = o.players, ![m].winner = o.winner, ![m].waiting = o.waiting]
  <2>1. matches = [x \in DOMAIN matches |-> matches[x]]
    BY RecordedAre DEF IInv, Typed
  <2> QED BY <1>2, <2>1
<1>5. Hook([matches EXCEPT ![m] = row])
  BY <1>4 DEF Reprocess
<1> QED BY <1>3, <1>5, RevisedMatchHooks

-----------------------------------------------------------------------------
(* Deletions and merges *)

\* D has some of the results of c, with its links or without them.
KeepsLinks(d, c) ==
  /\ DOMAIN d.results \subseteq DOMAIN c.results
  /\ d.ignored \subseteq c.ignored
  /\ \A k \in DOMAIN d.results : d.results[k].match \in {0, c.results[k].match}

\* What takes links away lets no match decide two pairings.
LEMMA FewerEverywhere ==
  ASSUME NEW ps, NEW ids, NEW T \in Books(ps, ids),
         NEW qs, NEW few, 0 \notin few, NEW N \in [Tournaments -> Tours(qs, few)],
         \A t \in Tournaments : KeepsLinks(N[t], T[t])
  PROVE  N \in Books(qs, few)
<1>1. UsedOnce(T) /\ Apart(T)
  BY DEF Books
<1>2. UsedOnce(N)
  <2> SUFFICES ASSUME NEW t \in Tournaments, NEW u \in Tournaments,
                      NEW k \in DOMAIN N[t].results, NEW l \in DOMAIN N[u].results,
                      N[t].results[k].match # 0, N[t].results[k].match = N[u].results[l].match
               PROVE  t = u /\ k = l
    BY DEF UsedOnce
  <2>1. /\ k \in DOMAIN T[t].results /\ N[t].results[k].match = T[t].results[k].match
        /\ l \in DOMAIN T[u].results /\ N[u].results[l].match = T[u].results[l].match
    BY DEF KeepsLinks
  <2>2. T[t].results[k].match # 0 /\ T[t].results[k].match = T[u].results[l].match
    BY <2>1
  <2> QED BY <1>1, <2>1, <2>2 DEF UsedOnce
<1>3. Apart(N)
  <2> SUFFICES ASSUME NEW t \in Tournaments, NEW k \in DOMAIN N[t].results
               PROVE  N[t].results[k].match \notin N[t].ignored
    BY DEF Apart
  <2>1. N[t].ignored \subseteq few
    BY DEF Tours
  <2>2. /\ k \in DOMAIN T[t].results /\ N[t].ignored \subseteq T[t].ignored
        /\ N[t].results[k].match \in {0, T[t].results[k].match}
    BY DEF KeepsLinks
  <2>3. T[t].results[k].match \notin T[t].ignored
    BY <1>1, <2>2 DEF Apart
  <2> QED BY <2>1, <2>2, <2>3
<1> QED BY <1>2, <1>3 DEF Books

\* Whether the results are the tree's does not depend on their links.
LEMMA SettledStays ==
  ASSUME NEW ps, NEW ids, NEW c \in Tours(ps, ids), NEW d, NEW ms, NEW ns,
         SameDraw(d, c), d.status = c.status, DOMAIN d.results = DOMAIN c.results,
         SomeOf(d.results, c.results), Settled(c, ms)
  PROVE  Settled(d, ns)
<1>1. Config(d) = Config(c) /\ d.order = c.order
  BY DEF SameDraw
<1>2. UsedKeys(Eval(c, ms)) = DOMAIN d.results
  BY DEF Settled
<1>3. SameTree(Eval(c, ms), Eval(d, ns))
  BY <1>1, <1>2, EvalSame
<1>4. PICK ev, ew, k : ev = Eval(c, ms) /\ ew = Eval(d, ns) /\ k = Config(c)
  OBVIOUS
<1>5. UsedKeys(ew) = UsedKeys(ev) /\ (Complete(k, ew) <=> Complete(k, ev))
  BY <1>3, <1>4, SameTreeSameOutcome
<1> QED BY <1>1, <1>2, <1>4, <1>5 DEF Settled

LEMMA DeleteMatchKeeps ==
  ASSUME IInv, NEW m \in DOMAIN matches, DeleteMatch(m)
  PROVE  IInv'
<1> DEFINE ids == DOMAIN matches
           d(t) == [tour[t] EXCEPT !.ignored = tour[t].ignored \ {m},
                      !.results = [k \in DOMAIN tour[t].results |->
                                     IF tour[t].results[k].match = m
                                     THEN [tour[t].results[k] EXCEPT !.match = 0]
                                     ELSE tour[t].results[k]]]
<1>1. /\ tour' = [t \in Tournaments |-> d(t)] /\ matches' = Without(matches, {m})
      /\ players' = players /\ now' = now /\ unsynced' = unsynced
  BY DEF DeleteMatch
<1>2. /\ matches \in Recorded(players, now) /\ tour \in Books(players, ids)
      /\ tour \in [Tournaments -> Tours(players, ids)] /\ 0 \notin ids
  BY SizeOfRecorded DEF IInv, Typed, Books
<1>3. /\ DOMAIN matches' = ids \ {m} /\ matches' = [n \in DOMAIN matches' |-> matches'[n]]
      /\ \A n \in DOMAIN matches' : matches'[n] = matches[n]
  <2>1. PICK M, ks : M = matches /\ ks = {m}
    OBVIOUS
  <2>2. /\ Without(M, ks) = [n \in DOMAIN M \ ks |-> M[n]]
        /\ DOMAIN Without(M, ks) = DOMAIN M \ ks
        /\ \A n \in DOMAIN M \ ks : Without(M, ks)[n] = M[n]
    BY WithoutIs
  <2>3. matches' = Without(M, ks)
    BY <1>1, <2>1
  <2> QED BY <2>1, <2>2, <2>3
<1>4. matches' \in Recorded(players, now)
  <2>1. DOMAIN matches \subseteq 1 .. MaxMatches /\ \A n \in DOMAIN matches : matches[n] \in MatchRows(players, now)
    BY <1>2, RecordedAre
  <2>2. PICK f : f = matches'
    OBVIOUS
  <2>3. /\ f = [n \in DOMAIN f |-> f[n]] /\ DOMAIN f \subseteq 1 .. MaxMatches
        /\ \A n \in DOMAIN f : f[n] \in MatchRows(players, now)
    BY <1>3, <2>1, <2>2
  <2> QED BY <2>2, <2>3, RecordedAre
<1>5. ASSUME NEW t \in Tournaments
      PROVE  /\ DOMAIN d(t).results = DOMAIN tour[t].results
             /\ \A k \in DOMAIN tour[t].results :
                  d(t).results[k] = IF tour[t].results[k].match = m
                                    THEN [tour[t].results[k] EXCEPT !.match = 0]
                                    ELSE tour[t].results[k]
             /\ d(t).ignored = tour[t].ignored \ {m} /\ d(t).status = tour[t].status
             /\ SameDraw(d(t), tour[t]) /\ d(t) \in Tours(players, ids \ {m})
  <2> DEFINE r(k) == IF tour[t].results[k].match = m THEN [tour[t].results[k] EXCEPT !.match = 0]
                     ELSE tour[t].results[k]
  <2>1. /\ tour[t] \in Tours(players, ids) /\ tour[t].results \in Results(players, ids)
    BY <1>2 DEF Tours
  <2>2. /\ DOMAIN tour[t].results \subseteq PairingKey
        /\ \A k \in DOMAIN tour[t].results : tour[t].results[k] \in ResultRows(players, ids)
    BY <2>1, ResultsAre
  <2>3. \A k \in DOMAIN tour[t].results : r(k) \in ResultRows(players, ids \ {m})
    BY <2>2 DEF ResultRows
  <2>4. PICK f : f = [k \in DOMAIN tour[t].results |-> r(k)]
    OBVIOUS
  <2>5. f \in Results(players, ids \ {m})
    <3>1. /\ f = [k \in DOMAIN f |-> f[k]] /\ DOMAIN f \subseteq PairingKey
          /\ \A k \in DOMAIN f : f[k] \in ResultRows(players, ids \ {m})
      BY <2>2, <2>3, <2>4
    <3> QED BY <3>1, ResultsAre
  <2>6. PICK g : g = tour[t].ignored \ {m}
    OBVIOUS
  <2>7. d(t) = [tour[t] EXCEPT !.ignored = g, !.results = f]
    BY <2>4, <2>6
  <2>8. /\ d(t) \in Tours(players, ids \ {m})
        /\ d(t).results = f /\ d(t).ignored = g /\ d(t).status = tour[t].status
        /\ SameDraw(d(t), tour[t])
    <3> HIDE DEF r
    <3>1. g \in SUBSET (ids \ {m})
      BY <2>1, <2>6 DEF Tours
    <3> QED BY <2>1, <2>5, <2>7, <3>1 DEF Tours, SameDraw, Config
  <2> QED BY <2>4, <2>6, <2>8
<1>6. \A t \in Tournaments : tour'[t] = d(t)
  BY <1>1
<1>7. tour' \in Books(players, ids \ {m})
  <2>1. PICK N, few : N = tour' /\ few = ids \ {m}
    OBVIOUS
  <2>2. N \in [Tournaments -> Tours(players, few)]
    <3> HIDE DEF d
    <3> QED BY <1>1, <1>5, <2>1
  <2>3. \A t \in Tournaments : KeepsLinks(N[t], tour[t])
    <3> SUFFICES ASSUME NEW t \in Tournaments PROVE KeepsLinks(N[t], tour[t])
      OBVIOUS
    <3>1. tour[t] \in Tours(players, ids)
      BY <1>2
    <3>2. \A k \in DOMAIN tour[t].results : tour[t].results[k] \in ResultRows(players, ids)
      BY <3>1, ResultsAre DEF Tours
    <3>3. \A k \in DOMAIN tour[t].results : d(t).results[k].match \in {0, tour[t].results[k].match}
      <4> HIDE DEF d
      <4> QED BY <1>5, <3>2 DEF ResultRows
    <3> HIDE DEF d
    <3> QED BY <1>5, <1>6, <2>1, <3>3 DEF KeepsLinks
  <2>4. 0 \notin few
    BY <1>2, <2>1
  <2> QED BY <1>2, <2>1, <2>2, <2>3, <2>4, FewerEverywhere
<1>8. Typed'
  BY <1>1, <1>3, <1>4, <1>7 DEF IInv, Typed
<1>9. Synchronised'
  <2> SUFFICES ASSUME NEW t \in Evaluated', t \notin unsynced'
               PROVE  Settled(tour'[t], matches') /\ Agrees(tour'[t], matches')
    BY DEF Synchronised
  <2>1. t \in Tournaments
    BY DEF Evaluated, Due, Active
  <2>2. t \in Evaluated
    <3> HIDE DEF d
    <3> QED BY <1>5, <1>6, <2>1 DEF Evaluated, Due, Active, Synchronisable, SameDraw
  <2>3. Settled(tour[t], matches) /\ Agrees(tour[t], matches)
    BY <1>1, <2>2 DEF IInv, Synchronised
  <2>4. PICK c, e, ns : c = tour[t] /\ e = tour'[t] /\ ns = matches'
    OBVIOUS
  <2>5. /\ DOMAIN e.results = DOMAIN c.results
        /\ \A k \in DOMAIN c.results : e.results[k] = IF c.results[k].match = m
                                                      THEN [c.results[k] EXCEPT !.match = 0] ELSE c.results[k]
        /\ e.status = c.status /\ SameDraw(e, c)
    <3> HIDE DEF d
    <3> QED BY <1>5, <1>6, <2>1, <2>4
  <2>6. /\ c \in Tours(players, ids)
        /\ \A k \in DOMAIN c.results : c.results[k] \in ResultRows(players, ids)
    BY <1>2, <2>1, <2>4, ResultsAre DEF Tours
  <2>7. SomeOf(e.results, c.results)
    BY <2>5, <2>6 DEF SomeOf, SameResult, ResultRows
  <2>8. Settled(e, ns)
    BY <2>3, <2>4, <2>5, <2>6, <2>7, SettledStays
  <2>9. Agrees(e, ns)
    <3> SUFFICES ASSUME NEW k \in DOMAIN c.results, e.results[k].match # 0,
                        Readable(ns[e.results[k].match], e.results[k].player1, e.results[k].player2)
                 PROVE  e.results[k].winner = ns[e.results[k].match].winner
      BY <2>5 DEF Agrees
    <3>1. c.results[k].match # m /\ e.results[k] = c.results[k]
      BY <2>5, <2>6 DEF ResultRows
    <3>2. c.results[k].match \in ids \ {m}
      BY <2>6, <3>1 DEF ResultRows
    <3>3. ns[c.results[k].match] = matches[c.results[k].match]
      BY <1>3, <2>4, <3>2
    <3> QED BY <2>3, <2>4, <3>1, <3>3 DEF Agrees
  <2> QED BY <2>4, <2>8, <2>9
<1> QED BY <1>8, <1>9 DEF IInv

\* Deletions and merges of players synchronise nothing: the tournaments they change are
\* left to the next synchronisation, the others stay as they are.
LEMMA OthersStay ==
  ASSUME IInv, unsynced' = unsynced \cup Changed
  PROVE  Synchronised'
<1> SUFFICES ASSUME NEW t \in Evaluated', t \notin unsynced'
             PROVE  Settled(tour'[t], matches') /\ Agrees(tour'[t], matches')
  BY DEF Synchronised
<1>1. t \in Tournaments /\ t \notin Changed /\ t \notin unsynced
  BY DEF Evaluated, Due, Active
<1>2. /\ tour'[t] = tour[t]
      /\ \A k \in DOMAIN tour[t].results :
           tour[t].results[k].match # 0 => matches'[tour[t].results[k].match] = matches[tour[t].results[k].match]
  BY <1>1 DEF Changed
<1>3. t \in Evaluated
  BY <1>1, <1>2 DEF Evaluated, Due, Active, Synchronisable
<1>4. Settled(tour[t], matches) /\ Agrees(tour[t], matches)
  BY <1>1, <1>3 DEF IInv, Synchronised
<1>5. PICK c, ms, ns : c = tour[t] /\ ms = matches /\ ns = matches'
  OBVIOUS
<1>6. Settled(c, ns)
  <2>1. c \in Tours(players, DOMAIN matches)
    BY <1>1, <1>5 DEF IInv, Typed, Books
  <2>2. SomeOf(c.results, c.results) /\ SameDraw(c, c) /\ Settled(c, ms)
    BY <1>4, <1>5 DEF SomeOf, SameResult, SameDraw
  <2> QED BY <2>1, <2>2, SettledStays
<1>7. Agrees(c, ns)
  BY <1>2, <1>4, <1>5 DEF Agrees
<1> QED BY <1>2, <1>5, <1>6, <1>7

\* What deletion and merge of a player have in common.
LEMMA PlayerLeaves ==
  ASSUME IInv, NEW p, NEW ms, NEW T,
         players' = players \ {p}, now' = now, matches' = ms, tour' = T,
         DOMAIN ms = DOMAIN matches, ms = [m \in DOMAIN ms |-> ms[m]],
         \A m \in DOMAIN ms : ms[m] \in MatchRows(players \ {p}, now),
         T \in [Tournaments -> Tours(players \ {p}, DOMAIN matches)],
         \A t \in Tournaments : KeepsLinks(T[t], tour[t]),
         unsynced' = unsynced \cup Changed
  PROVE  IInv'
<1>1. /\ matches \in Recorded(players, now) /\ tour \in Books(players, DOMAIN matches)
      /\ players \subseteq Players /\ now \in 0 .. MaxTime
  BY DEF IInv, Typed
<1>2. DOMAIN matches \subseteq 1 .. MaxMatches /\ 0 \notin DOMAIN matches
  BY <1>1, RecordedAre
<1>3. PICK qs, few : qs = players \ {p} /\ few = DOMAIN matches
  OBVIOUS
<1>4. ms \in Recorded(qs, now)
  BY <1>2, <1>3, RecordedAre
<1>5. T \in Books(qs, few)
  BY <1>1, <1>2, <1>3, FewerEverywhere
<1>6. Typed'
  BY <1>1, <1>3, <1>4, <1>5 DEF Typed
<1>7. Synchronised'
  BY OthersStay
<1> QED BY <1>6, <1>7 DEF IInv

LEMMA DeletePlayerKeeps ==
  ASSUME IInv, NEW p, DeletePlayer(p)
  PROVE  IInv'
<1> DEFINE ids == DOMAIN matches
           row(m) == [matches[m] EXCEPT !.players = matches[m].players \ {p},
                        !.winner = IF matches[m].winner = p THEN Nobody ELSE matches[m].winner]
           gone(t) == {k \in DOMAIN tour[t].results :
                         p \in {tour[t].results[k].player1, tour[t].results[k].player2}}
           d(t) == [tour[t] EXCEPT !.order = WithoutPlayer(tour[t].order, p),
                                   !.results = Without(tour[t].results, gone(t))]
<1>1. /\ p \in players /\ players' = players \ {p} /\ now' = now
      /\ matches' = [m \in ids |-> row(m)] /\ tour' = [t \in Tournaments |-> d(t)]
      /\ unsynced' = unsynced \cup Changed
  BY DEF DeletePlayer
<1>2. /\ \A m \in ids : matches[m] \in MatchRows(players, now)
      /\ \A t \in Tournaments : tour[t] \in Tours(players, ids)
  BY RecordedAre DEF IInv, Typed, Books
<1>3. ASSUME NEW m \in ids
      PROVE  row(m) \in MatchRows(players \ {p}, now)
  BY <1>2 DEF MatchRows
<1>4. ASSUME NEW t \in Tournaments
      PROVE  d(t) \in Tours(players \ {p}, ids) /\ KeepsLinks(d(t), tour[t])
  <2>1. PICK c, g : c = tour[t] /\ g = gone(t)
    OBVIOUS
  <2>2. PICK f, o : f = Without(c.results, g) /\ o = WithoutPlayer(c.order, p)
    OBVIOUS
  <2>3. /\ c \in Tours(players, ids) /\ c.results \in Results(players, ids)
        /\ c.order \in Seq(players) /\ IsInjective(c.order)
    BY <1>2, <2>1 DEF Tours
  <2>4. /\ DOMAIN f = DOMAIN c.results \ g /\ f = [k \in DOMAIN f |-> f[k]]
        /\ \A k \in DOMAIN f : f[k] = c.results[k]
    <3>1. PICK R : R = c.results
      OBVIOUS
    <3>2. /\ Without(R, g) = [k \in DOMAIN R \ g |-> R[k]]
          /\ DOMAIN Without(R, g) = DOMAIN R \ g
          /\ \A k \in DOMAIN R \ g : Without(R, g)[k] = R[k]
      BY WithoutIs
    <3>3. f = Without(R, g)
      BY <2>2, <3>1
    <3> QED BY <3>1, <3>2, <3>3
  <2>5. f \in Results(players \ {p}, ids)
    <3>1. /\ DOMAIN c.results \subseteq PairingKey
          /\ \A k \in DOMAIN c.results : c.results[k] \in ResultRows(players, ids)
      BY <2>3, ResultsAre
    <3>2. \A k \in DOMAIN f : f[k] \in ResultRows(players \ {p}, ids)
      BY <2>1, <2>4, <3>1 DEF ResultRows
    <3>3. DOMAIN f \subseteq PairingKey
      BY <2>4, <3>1
    <3> QED BY <2>4, <3>2, <3>3, ResultsAre
  <2>6. o \in Seq(players \ {p}) /\ IsInjective(o)
    <3>1. PICK s : s = c.order
      OBVIOUS
    <3> QED BY <2>2, <2>3, <3>1, WithoutPlayerIs
  <2>7. d(t) = [c EXCEPT !.order = o, !.results = f]
    BY <2>1, <2>2
  <2>8. /\ d(t) \in Tours(players \ {p}, ids)
        /\ d(t).results = f /\ d(t).ignored = c.ignored
    <3> HIDE DEF d
    <3> QED BY <2>3, <2>5, <2>6, <2>7 DEF Tours
  <2>9. KeepsLinks(d(t), c)
    <3> HIDE DEF d
    <3> QED BY <2>4, <2>8 DEF KeepsLinks
  <2> QED BY <2>1, <2>8, <2>9
<1>5. PICK ms, T : ms = matches' /\ T = tour'
  OBVIOUS
<1> HIDE DEF row, d
<1>6. /\ DOMAIN ms = DOMAIN matches /\ ms = [m \in DOMAIN ms |-> ms[m]]
      /\ \A m \in DOMAIN ms : ms[m] \in MatchRows(players \ {p}, now)
  BY <1>1, <1>3, <1>5
<1>7. /\ T \in [Tournaments -> Tours(players \ {p}, DOMAIN matches)]
      /\ \A t \in Tournaments : KeepsLinks(T[t], tour[t])
  BY <1>1, <1>4, <1>5
<1> QED BY <1>1, <1>5, <1>6, <1>7, PlayerLeaves

LEMMA MergePlayersKeeps ==
  ASSUME IInv, NEW p, NEW q, MergePlayers(p, q)
  PROVE  IInv'
<1> DEFINE ids == DOMAIN matches
           name(x) == IF x = p THEN q ELSE x
           row(m) == [matches[m] EXCEPT !.players = {name(x) : x \in matches[m].players},
                        !.winner = IF matches[m].winner = p /\ q \in matches[m].players
                                   THEN Nobody ELSE name(matches[m].winner)]
           renamed(r) == [r EXCEPT !.player1 = name(r.player1), !.player2 = name(r.player2),
                                   !.winner = name(r.winner)]
           kept(s) == IF q \in ToSet(s) THEN WithoutPlayer(s, p) ELSE s
           merged(s) == [i \in DOMAIN kept(s) |-> name(kept(s)[i])]
           results(t) == [k \in DOMAIN tour[t].results |-> renamed(tour[t].results[k])]
           d(t) == [tour[t] EXCEPT !.order = merged(tour[t].order), !.results = results(t)]
<1>1. /\ p \in players /\ q \in players /\ p # q /\ players' = players \ {p} /\ now' = now
      /\ matches' = [m \in ids |-> row(m)] /\ tour' = [t \in Tournaments |-> d(t)]
      /\ unsynced' = unsynced \cup Changed
  BY DEF MergePlayers
<1>2. /\ \A m \in ids : matches[m] \in MatchRows(players, now)
      /\ \A t \in Tournaments : tour[t] \in Tours(players, ids)
      /\ p # Nobody
  BY <1>1, RecordedAre, TournamentAssumption DEF IInv, Typed, Books
<1>3. ASSUME NEW m \in ids
      PROVE  row(m) \in MatchRows(players \ {p}, now)
  <2>1. PICK P, w : P = {name(x) : x \in matches[m].players}
                    /\ w = IF matches[m].winner = p /\ q \in matches[m].players
                           THEN Nobody ELSE name(matches[m].winner)
    OBVIOUS
  <2>2. /\ matches[m].players \subseteq players
        /\ matches[m].winner \in matches[m].players \cup {Nobody}
    BY <1>2 DEF MatchRows
  <2>3. P \subseteq players \ {p}
    BY <1>1, <2>1, <2>2
  <2>4. w \in P \cup {Nobody}
    BY <1>1, <1>2, <2>1, <2>2
  <2>5. row(m) = [matches[m] EXCEPT !.players = P, !.winner = w]
    BY <2>1
  <2> HIDE DEF row
  <2> QED BY <1>2, <2>3, <2>4, <2>5 DEF MatchRows
<1>4. ASSUME NEW t \in Tournaments
      PROVE  d(t) \in Tours(players \ {p}, ids) /\ KeepsLinks(d(t), tour[t])
  <2>1. PICK c : c = tour[t]
    OBVIOUS
  <2>2. PICK f, o : f = results(t) /\ o = merged(c.order)
    OBVIOUS
  <2>3. /\ c \in Tours(players, ids) /\ c.results \in Results(players, ids)
        /\ c.order \in Seq(players) /\ IsInjective(c.order)
    BY <1>2, <2>1 DEF Tours
  <2>4. /\ DOMAIN f = DOMAIN c.results /\ f = [k \in DOMAIN f |-> f[k]]
        /\ \A k \in DOMAIN f : f[k] = renamed(c.results[k])
    <3> HIDE DEF renamed
    <3> QED BY <2>1, <2>2
  <2>5. /\ DOMAIN c.results \subseteq PairingKey
        /\ \A k \in DOMAIN c.results : c.results[k] \in ResultRows(players, ids)
    BY <2>3, ResultsAre
  <2>6. \A r \in ResultRows(players, ids) :
          renamed(r) \in ResultRows(players \ {p}, ids) /\ renamed(r).match = r.match
    BY <1>1 DEF ResultRows
  <2>7. f \in Results(players \ {p}, ids) /\ \A k \in DOMAIN f : f[k].match = c.results[k].match
    <3> HIDE DEF renamed
    <3>1. /\ \A k \in DOMAIN f : /\ f[k] \in ResultRows(players \ {p}, ids)
                                 /\ f[k].match = c.results[k].match
          /\ DOMAIN f \subseteq PairingKey
      BY <2>4, <2>5, <2>6
    <3> QED BY <2>4, <3>1, ResultsAre
  <2>8. o \in Seq(players \ {p}) /\ IsInjective(o)
    <3>1. PICK s : s = c.order
      OBVIOUS
    <3>2. MergedInto(s, p, q) \in Seq(players \ {p}) /\ IsInjective(MergedInto(s, p, q))
      BY <1>1, <2>3, <3>1, MergedDraw
    <3>3. o = MergedInto(s, p, q)
      BY <2>2, <3>1 DEF MergedInto
    <3> QED BY <3>2, <3>3
  <2>9. d(t) = [c EXCEPT !.order = o, !.results = f]
    <3> HIDE DEF merged, results
    <3> QED BY <2>1, <2>2
  <2>10. /\ d(t) \in Tours(players \ {p}, ids)
         /\ d(t).results = f /\ d(t).ignored = c.ignored
    <3> HIDE DEF d
    <3> QED BY <2>3, <2>7, <2>8, <2>9 DEF Tours
  <2>11. KeepsLinks(d(t), c)
    <3> HIDE DEF d
    <3> QED BY <2>4, <2>7, <2>10 DEF KeepsLinks
  <2> HIDE DEF d
  <2> QED BY <2>1, <2>10, <2>11
<1>5. PICK ms, T : ms = matches' /\ T = tour'
  OBVIOUS
<1> HIDE DEF row, d
<1>6. /\ DOMAIN ms = DOMAIN matches /\ ms = [m \in DOMAIN ms |-> ms[m]]
      /\ \A m \in DOMAIN ms : ms[m] \in MatchRows(players \ {p}, now)
  BY <1>1, <1>3, <1>5
<1>7. /\ T \in [Tournaments -> Tours(players \ {p}, DOMAIN matches)]
      /\ \A t \in Tournaments : KeepsLinks(T[t], tour[t])
  BY <1>1, <1>4, <1>5
<1> QED BY <1>1, <1>5, <1>6, <1>7, PlayerLeaves

\* An administrator's decision changes nothing the tournaments were computed from.
LEMMA DecideKeeps ==
  ASSUME IInv, NEW m \in DOMAIN matches, Decide(m)
  PROVE  IInv'
<1>1. /\ matches' = [matches EXCEPT ![m].waiting = FALSE]
      /\ tour' = tour /\ players' = players /\ now' = now /\ unsynced' = unsynced
  BY DEF Decide
<1>2. /\ matches \in Recorded(players, now) /\ DOMAIN matches \subseteq 1 .. MaxMatches
      /\ matches = [n \in DOMAIN matches |-> matches[n]]
      /\ \A n \in DOMAIN matches : matches[n] \in MatchRows(players, now)
  BY RecordedAre DEF IInv, Typed
<1>3. PICK ms, ns : ms = matches /\ ns = matches'
  OBVIOUS
<1>4. /\ DOMAIN ns = DOMAIN ms /\ ns = [n \in DOMAIN ns |-> ns[n]]
      /\ \A n \in DOMAIN ms : ns[n] \in MatchRows(players, now)
      /\ \A n \in DOMAIN ms : ns[n].players = ms[n].players /\ ns[n].winner = ms[n].winner
  <2>1. ns = [n \in DOMAIN ms |-> IF n = m THEN [ms[n] EXCEPT !.waiting = FALSE] ELSE ms[n]]
    BY <1>1, <1>2, <1>3
  <2>2. \A n \in DOMAIN ms : ms[n] \in MatchRows(players, now)
    BY <1>2, <1>3
  <2> QED BY <2>1, <2>2 DEF MatchRows
<1>5. ns \in Recorded(players, now)
  BY <1>2, <1>3, <1>4, RecordedAre
<1>6. Typed'
  BY <1>1, <1>3, <1>4, <1>5 DEF IInv, Typed
<1>7. Synchronised'
  <2> SUFFICES ASSUME NEW t \in Evaluated', t \notin unsynced'
               PROVE  Settled(tour'[t], ns) /\ Agrees(tour'[t], ns)
    BY <1>3 DEF Synchronised
  <2>1. t \in Tournaments /\ t \in Evaluated \ unsynced
    BY <1>1 DEF Evaluated, Due, Active, Synchronisable
  <2>2. Settled(tour[t], ms) /\ Agrees(tour[t], ms)
    BY <1>3, <2>1 DEF IInv, Synchronised
  <2>3. PICK c, ps, ids : c = tour[t] /\ ps = players /\ ids = DOMAIN matches
    OBVIOUS
  <2>4. c \in Tours(ps, ids)
    BY <2>1, <2>3 DEF IInv, Typed, Books
  <2>5. SameDraw(c, c) /\ SomeOf(c.results, c.results)
    BY DEF SameDraw, SomeOf, SameResult
  <2>6. Settled(c, ns)
    BY <2>2, <2>3, <2>4, <2>5, SettledStays
  <2>7. \A k \in DOMAIN c.results : c.results[k].match \in {0} \cup DOMAIN ms
    BY <1>3, <2>3, <2>4, ResultsAre DEF Tours, ResultRows
  <2>8. Agrees(c, ns)
    BY <1>4, <2>2, <2>3, <2>7 DEF Agrees, Readable
  <2> QED BY <1>1, <2>3, <2>6, <2>8
<1> QED BY <1>6, <1>7 DEF IInv

LEMMA TickKeeps ==
  ASSUME IInv, Tick
  PROVE  IInv'
<1>1. /\ now' = now + 1 /\ now \in 0 .. MaxTime /\ now' \in 0 .. MaxTime /\ players \subseteq Players
      /\ tour' = tour /\ matches' = matches /\ players' = players /\ unsynced' = unsynced
  BY TournamentAssumption DEF Tick, IInv, Typed
<1>2. matches \in Recorded(players, now')
  <2>1. MatchRows(players, now) \subseteq MatchRows(players, now')
    BY <1>1 DEF MatchRows
  <2>2. PICK n : n = now'
    OBVIOUS
  <2>3. matches \in Recorded(players, now)
    BY DEF IInv, Typed
  <2>4. /\ matches = [m \in DOMAIN matches |-> matches[m]] /\ DOMAIN matches \subseteq 1 .. MaxMatches
        /\ \A m \in DOMAIN matches : matches[m] \in MatchRows(players, n)
    BY <2>1, <2>2, <2>3, RecordedAre
  <2> QED BY <2>2, <2>4, RecordedAre
<1>3. Typed'
  BY <1>1, <1>2 DEF IInv, Typed
<1>4. Synchronised'
  BY <1>1 DEF IInv, Synchronised, Evaluated, Due, Active, Synchronisable
<1> QED BY <1>3, <1>4 DEF IInv

-----------------------------------------------------------------------------
(* Every step keeps the invariant *)

LEMMA Initially ==
  Init => IInv
BY TypedInitially DEF IInv

LEMMA StepKeeps ==
  IInv /\ [Next]_vars => IInv'
<1> SUFFICES ASSUME IInv, [Next]_vars PROVE IInv'
  OBVIOUS
<1>1. CASE Prepare
  BY <1>1, CreateKeeps, EditKeeps DEF Prepare
<1>2. CASE Conduct
  BY <1>2, StartCommits, ResyncCommits, CommitKeeps DEF Conduct
<1>3. CASE Enter
  <2>1. PICK t \in Tournaments : \E k \in FixedKeys(t) :
          SetResult(t, k) \/ \E m \in DOMAIN matches : LinkMatch(t, k, m)
    BY <1>3 DEF Enter
  <2>2. PICK k \in FixedKeys(t) : SetResult(t, k) \/ \E m \in DOMAIN matches : LinkMatch(t, k, m)
    BY <2>1
  <2>3. CASE SetResult(t, k)
    BY <2>3, SetResultCommits, CommitKeeps
  <2>4. CASE \E m \in DOMAIN matches : LinkMatch(t, k, m)
    BY <2>4, LinkMatchCommits, CommitKeeps
  <2> QED BY <2>2, <2>3, <2>4
<1>4. CASE Record
  <2>1. PICK o \in Outcomes, at \in 0 .. now : RecordMatch(o, at)
    BY <1>4 DEF Record
  <2> QED BY <2>1, RecordMatchHooks, HookKeeps
<1>5. CASE Revise
  <2>1. CASE \E t \in Tournaments : Delete(t) \/ \E k \in DOMAIN tour[t].results : ClearResult(t, k)
    BY <2>1, DeleteKeeps, ClearResultCommits, CommitKeeps
  <2>2. CASE \E m \in DOMAIN matches : Redeliver(m) \/ Decide(m) \/ DeleteMatch(m)
    BY <2>2, RedeliverHooks, HookKeeps, DecideKeeps, DeleteMatchKeeps
  <2>3. CASE \E m \in DOMAIN matches, o \in Outcomes : Reprocess(m, o)
    BY <2>3, ReprocessHooks, HookKeeps
  <2>4. CASE \E p \in Removable : DeletePlayer(p) \/ \E q \in Players : MergePlayers(p, q)
    BY <2>4, DeletePlayerKeeps, MergePlayersKeeps
  <2> QED BY <1>5, <2>1, <2>2, <2>3, <2>4 DEF Revise
<1>6. CASE Tick
  BY <1>6, TickKeeps
<1>7. CASE UNCHANGED vars
  <2>1. /\ tour' = tour /\ matches' = matches /\ players' = players /\ now' = now
        /\ unsynced' = unsynced
    BY <1>7 DEF vars
  <2>2. Typed'
    BY <2>1 DEF IInv, Typed
  <2>3. Synchronised'
    BY <2>1 DEF IInv, Synchronised, Evaluated, Due, Active, Synchronisable
  <2> QED BY <2>2, <2>3 DEF IInv
<1> QED BY <1>1, <1>2, <1>3, <1>4, <1>5, <1>6, <1>7 DEF Next

-----------------------------------------------------------------------------
(* One synchronisation is enough *)

LEMMA LinkedAre ==
  ASSUME NEW T, NEW t
  PROVE  Linked(T, t) = Links(T[t])
BY DEF Linked, Links

\* The tournament a handler synchronised before it committed needs no other synchronisation.
LEMMA CommitSettles ==
  ASSUME IInv, NEW t \in Tournaments, NEW new, Commits(t, new),
         NEW u \in Tournaments, tour'[u].results # tour[u].results,
         \A v \in Tournaments : Linked(tour, v) \subseteq Linked(tour', v),
         u = t => new \subseteq Linked(tour', t)
  PROVE  Sync(tour', u, matches', now') = tour'
<1>1. PICK T \in Books(players, DOMAIN matches) :
        /\ \A v \in Tournaments \ {t} : T[v] = tour[v]
        /\ Links(T[t]) \subseteq Links(tour[t]) \cup new
        /\ CommitSynced(T, t)
  BY DEF Commits
<1>2. PICK N : N = Sync(T, t, matches, now)
  OBVIOUS
<1>3. tour' = N /\ matches' = matches /\ now' = now
  BY <1>1, <1>2 DEF CommitSynced
<1>4. now \in Nat /\ matches \in Recorded(players, now)
  BY DEF IInv, Typed
<1>5. Synced(N, T, t, players, matches)
  BY <1>1, <1>2, <1>4, SyncIsSynced
<1>6. u = t
  BY <1>1, <1>3, <1>5 DEF Synced
<1>7. Links(T[t]) \subseteq Links(N[t])
  <2>1. Links(tour[t]) = Linked(tour, t) /\ Links(N[t]) = Linked(N, t)
    BY LinkedAre
  <2>2. Linked(tour, t) \subseteq Linked(N, t) /\ new \subseteq Linked(N, t)
    BY <1>3, <1>6
  <2> QED BY <1>1, <2>1, <2>2
<1>8. Idle(N, t, matches)
  BY <1>5, <1>7 DEF Synced, Resolved
<1>9. Sync(N, t, matches, now) = N
  BY <1>4, <1>5, <1>8, SyncChangesNothing DEF Synced
<1> QED BY <1>3, <1>6, <1>9

\* Of the tournaments an ingest synchronised one after the other none needs another
\* synchronisation: what a later one links takes nothing from an earlier one.
LEMMA HookSettles ==
  ASSUME IInv, Hooks, NEW t \in Tournaments, tour'[t].results # tour[t].results,
         \A u \in Tournaments : Linked(tour, u) \subseteq Linked(tour', u)
  PROVE  Sync(tour', t, matches', now') = tour'
<1>1. PICK ms \in Recorded(players, now) : DOMAIN matches \subseteq DOMAIN ms /\ Hook(ms)
  BY DEF Hooks
<1>2. PICK N : N = SyncAll(tour, ms, now)
  OBVIOUS
<1>3. tour' = N /\ matches' = ms /\ now' = now
  BY <1>1, <1>2 DEF Hook
<1>4. now \in Nat /\ tour \in Books(players, DOMAIN ms)
  BY <1>1, BooksGrow DEF IInv, Typed
<1>5. Progress(N, tour, Due(tour), players, ms)
  BY <1>2, <1>4, SyncAllProgresses
<1>6. t \in Due(tour)
  BY <1>3, <1>5 DEF Progress
<1>7. ASSUME NEW u \in Due(tour)
      PROVE  Links(tour[u]) \subseteq Links(N[u])
  <2>1. u \in Tournaments
    BY <1>7 DEF Due, Active
  <2>2. Linked(tour, u) \subseteq Linked(N, u)
    BY <1>3, <2>1
  <2> QED BY <2>2, LinkedAre
<1>8. /\ N \in Books(players, DOMAIN ms) /\ N[t].status \in {"running", "finished"}
      /\ Agrees(N[t], ms) /\ Settled(N[t], ms) /\ Idle(N, t, ms)
  BY <1>5, <1>6, <1>7 DEF Progress
<1>9. Sync(N, t, ms, now) = N
  BY <1>8, SyncChangesNothing
<1> QED BY <1>3, <1>9

\* A tournament that is prepared or deleted is not synchronised afterwards.
LEMMA PreparationSettles ==
  ASSUME IInv, NEW t \in Tournaments, NEW u \in Tournaments,
         \/ Delete(t) \/ \E s \in Setups[t] : Create(t, s) \/ Edit(t, s)
  PROVE  Settles(u)
<1>1. tour \in [Tournaments -> Tours(players, DOMAIN matches)]
  BY DEF IInv, Typed, Books
<1>2. tour[t] \in [status : Statuses, order : Seq(players),
                   third : BOOLEAN, lucky : BOOLEAN, llEntry : Nat, playinMatch : Nat,
                   playinSide : {0, 1}, startedAt : Nat,
                   results : Results(players, DOMAIN matches), ignored : SUBSET DOMAIN matches]
  BY <1>1 DEF Tours
<1>3. tour'[t].status \notin {"running", "finished"} /\ (u # t => tour'[u] = tour[u])
  <2>1. CASE Delete(t)
    BY <1>1, <2>1 DEF Delete, NoTournament
  <2>2. CASE \E s \in Setups[t] : Create(t, s)
    BY <1>1, <2>2 DEF Create, NoTournament
  <2>3. CASE \E s \in Setups[t] : Edit(t, s)
    <3>1. PICK s \in Setups[t] : Edit(t, s)
      BY <2>3
    <3>2. PICK d : d = [tour[t] EXCEPT !.order = s.order, !.third = s.third,
                                       !.lucky = s.lucky, !.llEntry = s.llEntry]
      OBVIOUS
    <3>3. d.status = "draft"
      BY <1>2, <3>1, <3>2 DEF Edit
    <3>4. tour' = [tour EXCEPT ![t] = d]
      BY <1>1, <3>1, <3>2 DEF Edit
    <3> QED BY <1>1, <3>3, <3>4
  <2> QED BY <2>1, <2>2, <2>3
<1> QED BY <1>3 DEF Settles, Evaluated, Due, Active

LEMMA StepSettles ==
  ASSUME IInv, [Next]_vars, NEW u \in Tournaments
  PROVE  Settles(u)
<1>0. ASSUME tour'[u].results # tour[u].results, u \in Evaluated', u \notin unsynced',
             DOMAIN matches \subseteq DOMAIN matches',
             \A v \in Tournaments : Linked(tour, v) \subseteq Linked(tour', v),
             \A k \in FixedKeys(u), m \in DOMAIN matches :
               LinkMatch(u, k, m) => m \in Linked(tour', u),
             ~ Settles(u)
      PROVE  Sync(tour', u, matches', now') = tour'
  <2>1. CASE Prepare
    BY <1>0, <2>1, PreparationSettles DEF Prepare
  <2>2. CASE Conduct
    <3>1. PICK t \in Tournaments : Start(t) \/ Redraw(t) \/ Resync(t)
      BY <2>2 DEF Conduct
    <3>2. Commits(t, {})
      BY <3>1, StartCommits, ResyncCommits
    <3> QED BY <1>0, <3>2, CommitSettles
  <2>3. CASE Enter
    <3>1. PICK t \in Tournaments : \E k \in FixedKeys(t) :
            SetResult(t, k) \/ \E m \in DOMAIN matches : LinkMatch(t, k, m)
      BY <2>3 DEF Enter
    <3>2. PICK k \in FixedKeys(t) : SetResult(t, k) \/ \E m \in DOMAIN matches : LinkMatch(t, k, m)
      BY <3>1
    <3>3. CASE SetResult(t, k)
      <4>1. Commits(t, {})
        BY <3>3, SetResultCommits
      <4> QED BY <1>0, <4>1, CommitSettles
    <3>4. CASE \E m \in DOMAIN matches : LinkMatch(t, k, m)
      <4>1. PICK m \in DOMAIN matches : LinkMatch(t, k, m)
        BY <3>4
      <4>2. Commits(t, {m})
        BY <4>1, LinkMatchCommits
      <4>3. u = t => {m} \subseteq Linked(tour', t)
        BY <1>0, <4>1
      <4> QED BY <1>0, <4>2, <4>3, CommitSettles
    <3> QED BY <3>2, <3>3, <3>4
  <2>4. CASE Record
    <3>1. PICK o \in Outcomes, at \in 0 .. now : RecordMatch(o, at)
      BY <2>4 DEF Record
    <3> QED BY <1>0, <3>1, RecordMatchHooks, HookSettles
  <2>5. CASE Revise
    <3>1. CASE \E t \in Tournaments : Delete(t) \/ \E k \in DOMAIN tour[t].results : ClearResult(t, k)
      <4>1. PICK t \in Tournaments : Delete(t) \/ \E k \in DOMAIN tour[t].results : ClearResult(t, k)
        BY <3>1
      <4>2. CASE Delete(t)
        BY <1>0, <4>2, PreparationSettles
      <4>3. CASE \E k \in DOMAIN tour[t].results : ClearResult(t, k)
        <5>1. Commits(t, {})
          BY <4>3, ClearResultCommits
        <5> QED BY <1>0, <5>1, CommitSettles
      <4> QED BY <4>1, <4>2, <4>3
    <3>2. CASE \E m \in DOMAIN matches : Redeliver(m)
      BY <1>0, <3>2, RedeliverHooks, HookSettles
    <3>3. CASE \E m \in DOMAIN matches : DeleteMatch(m)
      <4>1. PICK m \in DOMAIN matches : DeleteMatch(m)
        BY <3>3
      <4>2. DOMAIN matches' = DOMAIN matches \ {m}
        BY <4>1 DEF DeleteMatch, Without, Table
      <4> QED BY <1>0, <4>2
    <3>4. CASE \E m \in DOMAIN matches, o \in Outcomes : Reprocess(m, o)
      BY <1>0, <3>4, ReprocessHooks, HookSettles
    <3>6. CASE \E m \in DOMAIN matches : Decide(m)
      BY <1>0, <3>6 DEF Decide
    <3>5. CASE \E p \in Removable : DeletePlayer(p) \/ \E q \in Players : MergePlayers(p, q)
      <4>1. u \in Changed
        BY <1>0 DEF Changed
      <4>2. unsynced' = unsynced \cup Changed
        BY <3>5 DEF DeletePlayer, MergePlayers
      <4> QED BY <1>0, <4>1, <4>2
    <3> QED BY <2>5, <3>1, <3>2, <3>3, <3>4, <3>5, <3>6 DEF Revise
  <2>6. CASE Tick \/ UNCHANGED vars
    BY <1>0, <2>6 DEF Tick, vars
  <2> QED BY <2>1, <2>2, <2>3, <2>4, <2>5, <2>6 DEF Next
<1> QED BY <1>0 DEF Settles

-----------------------------------------------------------------------------
(* Trees of running tournaments *)

\* What is evaluated for a tournament that can be synchronised is a tree over its draw.
LEMMA EvaluatedTree ==
  ASSUME Typed, NEW t \in Evaluated
  PROVE  /\ IsConfig(Config(tour[t]))
         /\ IsTree(Config(tour[t]), EvalOf(t), tour[t].order)
         /\ IsDraw(Config(tour[t]), tour[t].order)
         /\ ToSet(tour[t].order) = {tour[t].order[q] : q \in 1 .. Config(tour[t]).n}
<1> DEFINE c == tour[t]
           d == Config(tour[t])
<1>1. t \in Tournaments /\ Buildable(d)
  BY DEF Evaluated, Due, Active, Synchronisable
<1>2. c \in Tours(players, DOMAIN matches) /\ players \subseteq Players
  BY <1>1 DEF Typed, Books
<1>3. /\ c.order \in Seq(players) /\ IsInjective(c.order)
      /\ c.third \in BOOLEAN /\ c.lucky \in BOOLEAN /\ c.llEntry \in Nat
      /\ c.playinMatch \in Nat /\ c.playinSide \in {0, 1}
  BY <1>2 DEF Tours
<1>4. /\ d.n = Len(c.order) /\ d.third = c.third /\ d.lucky = c.lucky /\ d.llEntry = c.llEntry
      /\ d.playinMatch = c.playinMatch /\ d.playinSide = c.playinSide
  BY DEF Config
<1> HIDE DEF c, d
<1>5. Len(c.order) \in Nat /\ DOMAIN c.order = 1 .. Len(c.order)
      /\ \A q \in 1 .. Len(c.order) : c.order[q] \in players
  BY <1>3
<1>6. IsConfig(d)
  BY <1>1, <1>3, <1>4, <1>5 DEF IsConfig
<1>7. IsDraw(d, c.order)
  <2>1. \A q \in 1 .. d.n : Known(c.order[q])
    BY <1>2, <1>4, <1>5, TournamentAssumption DEF Known
  <2>2. \A q, r \in 1 .. d.n : c.order[q] = c.order[r] => q = r
    BY <1>3, <1>4, <1>5 DEF IsInjective
  <2> QED BY <2>1, <2>2 DEF IsDraw
<1>8. IsTree(d, EvalOf(t), c.order)
  <2>1. EvalOf(t) = Evaluate(Layout(d), c.order, Loaded(c.results, matches), c.startedAt)
    BY LayoutForIs DEF EvalOf, Eval, c, d
  <2> QED BY <1>6, <2>1, TreeIs
<1>9. ToSet(c.order) = {c.order[q] : q \in 1 .. d.n}
  BY <1>4, <1>5 DEF ToSet
<1> QED BY <1>6, <1>7, <1>8, <1>9 DEF c, d

-----------------------------------------------------------------------------
(* The records of the players *)

\* As many things with a tag as things
Tagged(S, f) == {<<k, f[k]>> : k \in S}

LEMMA TagsCountNot ==
  ASSUME NEW S, IsFiniteSet(S), NEW f
  PROVE  IsFiniteSet(Tagged(S, f)) /\ Cardinality(Tagged(S, f)) = Cardinality(S)
<1> DEFINE g == [k \in S |-> <<k, f[k]>>]
           T == Tagged(S, f)
<1>1. g \in [S -> T] /\ (\A k, l \in S : g[k] = g[l] => k = l) /\ (\A t \in T : \E k \in S : g[k] = t)
  BY DEF Tagged
<1> HIDE DEF g, T
<1>2. g \in Surjection(S, T) /\ g \in Injection(S, T)
  BY <1>1, Zenon DEF Surjection, Injection, IsInjective
<1>3. IsFiniteSet(T) /\ Cardinality(T) = Cardinality(S)
  BY <1>2, FS_Surjection
<1> QED BY <1>3 DEF T

\* What a pairing that counts is: two players' match and one's victory.
LEMMA CountedPairings ==
  ASSUME NEW c, IsConfig(c), NEW ev, NEW order, IsTree(c, ev, order), IsDraw(c, order)
  PROVE  /\ IsFiniteSet(UsedKeys(ev)) /\ Cardinality(UsedKeys(ev)) \in Nat
         /\ \A k \in UsedKeys(ev) :
              /\ k \in Keys(c) /\ ev[k].a # ev[k].b /\ ev[k].winner # ev[k].loser
              /\ {ev[k].winner, ev[k].loser} = {ev[k].a, ev[k].b}
              /\ ev[k].a \in Entrants(c, order) /\ ev[k].b \in Entrants(c, order)
<1>1. \A k \in UsedKeys(ev) : /\ k \in Keys(c) /\ Known(ev[k].a) /\ Known(ev[k].b) /\ ev[k].a # ev[k].b
                              /\ ev[k].winner # ev[k].loser /\ {ev[k].winner, ev[k].loser} = {ev[k].a, ev[k].b}
  BY TwoPlayers
<1>2. UsedKeys(ev) \subseteq Keys(c)
  BY <1>1
<1>3. IsFiniteSet(UsedKeys(ev))
  BY <1>2, KeysAreFinite, FS_Subset
<1>4. ASSUME NEW k \in UsedKeys(ev)
      PROVE  ev[k].a \in Entrants(c, order) /\ ev[k].b \in Entrants(c, order)
  <2>1. Held(ev, k, 0) = ev[k].a /\ Held(ev, k, 1) = ev[k].b
    BY HeldIs
  <2>2. \A x \in {0, 1} : Known(Held(ev, k, x)) => Held(ev, k, x) \in Entrants(c, order)
    BY <1>1, OnlyDrawnPlay
  <2>3. 0 \in {0, 1} /\ 1 \in {0, 1}
    OBVIOUS
  <2> QED BY <1>1, <2>1, <2>2, <2>3
<1>5. Cardinality(UsedKeys(ev)) \in Nat
  BY <1>3, FS_CardinalityType
<1> QED BY <1>1, <1>3, <1>4, <1>5

\* The players who have played
HavePlayed(c, ev, order) == {p \in Entrants(c, order) : Meetings(ev, p) # {}}

LEMMA RowsOfPlayers ==
  ASSUME NEW c, IsConfig(c), NEW ev, NEW order
  PROVE  IsFiniteSet(HavePlayed(c, ev, order))
<1>1. PICK n : n = c.n
  OBVIOUS
<1>2. IsFiniteSet(1 .. n)
  <2>1. 1 \in Int /\ n \in Int
    BY <1>1 DEF IsConfig
  <2> QED BY <2>1, FS_Interval
<1> DEFINE f == [q \in 1 .. n |-> order[q]]
           D == Entrants(c, order)
<1>3. f \in Surjection(1 .. n, D)
  BY <1>1 DEF Surjection, Entrants
<1> HIDE DEF f, D
<1>4. IsFiniteSet(D)
  BY <1>2, <1>3, FS_Surjection, Zenon
<1>5. HavePlayed(c, ev, order) \subseteq D
  BY DEF HavePlayed, D
<1> QED BY <1>4, <1>5, FS_Subset

LEMMA VictoriesAddUp ==
  ASSUME NEW c, IsConfig(c), NEW ev, NEW order, IsTree(c, ev, order), IsDraw(c, order),
         NEW T, T = HavePlayed(c, ev, order), NEW w, NEW g, Summing(g, w, T),
         \A p \in T : w[p] = Cardinality(Victories(ev, p))
  PROVE  g[T] = Cardinality(UsedKeys(ev))
<1>0. IsFiniteSet(T) /\ IsFiniteSet(UsedKeys(ev))
  BY RowsOfPlayers, CountedPairings
<1> DEFINE V == [p \in T |-> Victories(ev, p)]
<1>1. \A p \in T : V[p] = Victories(ev, p)
  OBVIOUS
<1> HIDE DEF V
<1>2. \A p \in T : IsFiniteSet(V[p]) /\ w[p] = Cardinality(V[p])
  <2> SUFFICES ASSUME NEW p \in T PROVE IsFiniteSet(V[p])
    BY <1>1
  <2>1. Victories(ev, p) \subseteq UsedKeys(ev)
    BY DEF Victories
  <2> QED BY <1>0, <1>1, <2>1, FS_Subset
<1>3. \A p, q \in T : p # q => V[p] \cap V[q] = {}
  BY <1>1 DEF Victories
<1>4. Together(V, T) = UsedKeys(ev)
  <2>1. ASSUME NEW k \in UsedKeys(ev)
        PROVE  \E p \in T : k \in V[p]
    <3>1. PICK p : p = ev[k].winner
      OBVIOUS
    <3>2. p \in {ev[k].a, ev[k].b} /\ p \in Entrants(c, order)
      <4>1. {ev[k].winner, ev[k].loser} = {ev[k].a, ev[k].b}
            /\ ev[k].a \in Entrants(c, order) /\ ev[k].b \in Entrants(c, order)
        BY CountedPairings
      <4> QED BY <3>1, <4>1
    <3>3. k \in Meetings(ev, p)
      BY <3>2 DEF Meetings
    <3>4. p \in T
      BY <3>2, <3>3 DEF HavePlayed
    <3> QED BY <1>1, <3>1, <3>4 DEF Victories
  <2>2. \A p \in T : V[p] \subseteq UsedKeys(ev)
    BY <1>1 DEF Victories
  <2> QED BY <2>1, <2>2 DEF Together
<1>5. g[T] = Cardinality(Together(V, T))
  BY <1>0, <1>2, <1>3, SumIsCount
<1> QED BY <1>4, <1>5, Zenon

LEMMA MeetingsAddUp ==
  ASSUME NEW c, IsConfig(c), NEW ev, NEW order, IsTree(c, ev, order), IsDraw(c, order),
         NEW T, T = HavePlayed(c, ev, order), NEW w, NEW g, Summing(g, w, T),
         \A p \in T : w[p] = Cardinality(Meetings(ev, p))
  PROVE  g[T] = 2 * Cardinality(UsedKeys(ev))
<1>0. IsFiniteSet(T) /\ IsFiniteSet(UsedKeys(ev)) /\ Cardinality(UsedKeys(ev)) \in Nat
  BY RowsOfPlayers, CountedPairings
<1> DEFINE is(p) == [k \in Meetings(ev, p) |-> p]
           V == [p \in T |-> Tagged(Meetings(ev, p), is(p))]
           upper == [k \in UsedKeys(ev) |-> ev[k].a]
           lower == [k \in UsedKeys(ev) |-> ev[k].b]
           A == Tagged(UsedKeys(ev), upper)
           B == Tagged(UsedKeys(ev), lower)
<1>1. \A p \in T : V[p] = {<<k, p>> : k \in Meetings(ev, p)}
  BY DEF Tagged
<1>2. \A p \in T : IsFiniteSet(V[p]) /\ w[p] = Cardinality(V[p])
  <2> SUFFICES ASSUME NEW p \in T PROVE IsFiniteSet(V[p]) /\ Cardinality(V[p]) = Cardinality(Meetings(ev, p))
    OBVIOUS
  <2>1. Meetings(ev, p) \subseteq UsedKeys(ev)
    BY DEF Meetings
  <2>2. IsFiniteSet(Meetings(ev, p))
    BY <1>0, <2>1, FS_Subset
  <2>3. V[p] = Tagged(Meetings(ev, p), is(p))
    OBVIOUS
  <2> HIDE DEF is, V
  <2>4. IsFiniteSet(Tagged(Meetings(ev, p), is(p)))
        /\ Cardinality(Tagged(Meetings(ev, p), is(p))) = Cardinality(Meetings(ev, p))
    BY <2>2, TagsCountNot
  <2> QED BY <2>3, <2>4, Zenon
<1>3. A = {<<k, ev[k].a>> : k \in UsedKeys(ev)} /\ B = {<<k, ev[k].b>> : k \in UsedKeys(ev)}
  BY DEF Tagged
<1> HIDE DEF V, is
<1>4. \A p, q \in T : p # q => V[p] \cap V[q] = {}
  BY <1>1
<1>5. IsFiniteSet(A) /\ IsFiniteSet(B) /\ Cardinality(A) = Cardinality(UsedKeys(ev)) /\ Cardinality(B) = Cardinality(UsedKeys(ev))
  <2> HIDE DEF upper, lower
  <2> QED BY <1>0, TagsCountNot
<1> HIDE DEF A, B
<1>6. A \cap B = {}
  <2>1. \A k \in UsedKeys(ev) : ev[k].a # ev[k].b
    BY CountedPairings
  <2> QED BY <1>3, <2>1
<1>7. Together(V, T) = A \cup B
  <2>1. ASSUME NEW k \in UsedKeys(ev), NEW p \in {ev[k].a, ev[k].b}
        PROVE  p \in T /\ <<k, p>> \in V[p]
    <3>1. ev[k].a \in Entrants(c, order) /\ ev[k].b \in Entrants(c, order)
      BY CountedPairings
    <3>2. p \in Entrants(c, order) /\ k \in Meetings(ev, p)
      BY <2>1, <3>1 DEF Meetings
    <3>3. p \in T
      BY <3>2 DEF HavePlayed
    <3> QED BY <1>1, <3>2, <3>3
  <2>2. \A p \in T : V[p] \subseteq A \cup B
    <3> SUFFICES ASSUME NEW p \in T, NEW k \in Meetings(ev, p) PROVE <<k, p>> \in A \cup B
      BY <1>1
    <3>1. k \in UsedKeys(ev) /\ (p = ev[k].a \/ p = ev[k].b)
      BY DEF Meetings
    <3> QED BY <1>3, <3>1
  <2>3. A \subseteq Together(V, T) /\ B \subseteq Together(V, T)
    <3>1. \A k \in UsedKeys(ev) : <<k, ev[k].a>> \in Together(V, T) /\ <<k, ev[k].b>> \in Together(V, T)
      BY <2>1 DEF Together
    <3> QED BY <1>3, <3>1
  <2>4. Together(V, T) \subseteq A \cup B
    BY <2>2 DEF Together
  <2> QED BY <2>3, <2>4
<1>8. g[T] = Cardinality(Together(V, T))
  BY <1>0, <1>2, <1>4, SumIsCount
<1>9. Cardinality(A \cup B) = Cardinality(A) + Cardinality(B) - Cardinality(A \cap B)
  BY <1>5, FS_Union
<1>10. Cardinality(A \cap B) = 0
  BY <1>6, FS_EmptySet
<1>11. g[T] = Cardinality(A \cup B)
  BY <1>7, <1>8, Zenon
<1> QED BY <1>0, <1>5, <1>9, <1>10, <1>11

\* Who has not won a match of his has lost it.
LEMMA RecordIs ==
  ASSUME NEW c, IsConfig(c), NEW ev, NEW order, IsTree(c, ev, order), IsDraw(c, order), NEW p
  PROVE  Cardinality(Meetings(ev, p)) - Cardinality(Victories(ev, p)) = Cardinality(LostAt(ev, p))
<1>1. \A k \in UsedKeys(ev) : ev[k].winner # ev[k].loser /\ {ev[k].winner, ev[k].loser} = {ev[k].a, ev[k].b}
  BY CountedPairings
<1>2. Meetings(ev, p) = Victories(ev, p) \cup LostAt(ev, p) /\ Victories(ev, p) \cap LostAt(ev, p) = {}
  BY <1>1 DEF Meetings, Victories, LostAt
<1>3. IsFiniteSet(Victories(ev, p)) /\ IsFiniteSet(LostAt(ev, p))
  <2>1. Victories(ev, p) \subseteq UsedKeys(ev) /\ LostAt(ev, p) \subseteq UsedKeys(ev)
    BY DEF Victories, LostAt
  <2>2. IsFiniteSet(UsedKeys(ev))
    BY CountedPairings
  <2> QED BY <2>1, <2>2, FS_Subset
<1>4. Cardinality(Meetings(ev, p)) = Cardinality(Victories(ev, p)) + Cardinality(LostAt(ev, p)) - Cardinality(Victories(ev, p) \cap LostAt(ev, p))
  BY <1>2, <1>3, FS_Union
<1>5. Cardinality(Victories(ev, p) \cap LostAt(ev, p)) = 0
  BY <1>2, FS_EmptySet
<1>6. Cardinality(Victories(ev, p)) \in Nat /\ Cardinality(LostAt(ev, p)) \in Nat
  BY <1>3, FS_CardinalityType
<1> QED BY <1>4, <1>5, <1>6

\* What the table adds up to
WinsOf(e, T) == FoldSet(LAMBDA p, n : e[p].wins + n, 0, T)
MatchesOf(e, T) == FoldSet(LAMBDA p, n : e[p].matches + n, 0, T)

LEMMA FoldOfWins ==
  ASSUME NEW T, IsFiniteSet(T), NEW e, NEW w, w = [p \in T |-> e[p].wins]
  PROVE  \E g : Summing(g, w, T) /\ WinsOf(e, T) = g[T]
<1> DEFINE Sums(g) == g = [s \in SUBSET T |->
              IF s = {} THEN 0 ELSE e[CHOOSE x \in s : TRUE].wins + g[s \ {CHOOSE x \in s : TRUE}]]
<1>1. \A s \in SUBSET T : s # {} => w[CHOOSE x \in s : TRUE] = e[CHOOSE x \in s : TRUE].wins
  OBVIOUS
<1>2. \A g : Sums(g) <=> Summing(g, w, T)
  BY <1>1 DEF Summing
<1> HIDE DEF Sums
<1>3. \E g : Sums(g)
  BY <1>2, SumsExist
<1>4. PICK h : h = CHOOSE g : Sums(g)
  OBVIOUS
<1>5. Sums(h)
  BY <1>3, <1>4, Zenon
<1>6. WinsOf(e, T) = h[T]
  BY <1>4 DEF WinsOf, FoldSet, MapThenFoldSet, Sums
<1> QED BY <1>2, <1>5, <1>6

LEMMA FoldOfMatches ==
  ASSUME NEW T, IsFiniteSet(T), NEW e, NEW w, w = [p \in T |-> e[p].matches]
  PROVE  \E g : Summing(g, w, T) /\ MatchesOf(e, T) = g[T]
<1> DEFINE Sums(g) == g = [s \in SUBSET T |->
              IF s = {} THEN 0 ELSE e[CHOOSE x \in s : TRUE].matches + g[s \ {CHOOSE x \in s : TRUE}]]
<1>1. \A s \in SUBSET T : s # {} => w[CHOOSE x \in s : TRUE] = e[CHOOSE x \in s : TRUE].matches
  OBVIOUS
<1>2. \A g : Sums(g) <=> Summing(g, w, T)
  BY <1>1 DEF Summing
<1> HIDE DEF Sums
<1>3. \E g : Sums(g)
  BY <1>2, SumsExist
<1>4. PICK h : h = CHOOSE g : Sums(g)
  OBVIOUS
<1>5. Sums(h)
  BY <1>3, <1>4, Zenon
<1>6. MatchesOf(e, T) = h[T]
  BY <1>4 DEF MatchesOf, FoldSet, MapThenFoldSet, Sums
<1> QED BY <1>2, <1>5, <1>6

\* What the table and the profiles read
LEMMA EntryIs ==
  ASSUME NEW c, NEW ev, NEW p
  PROVE  /\ ProfileEntry(c, ev, p).place = Place(c, ev, p)
         /\ ProfileEntry(c, ev, p).wins = Cardinality(Victories(ev, p))
         /\ ProfileEntry(c, ev, p).matches = Cardinality(Meetings(ev, p))
BY DEF ProfileEntry, RecordOf, Place

\* The records of a tree fit each other and the places.
LEMMA TreeRecords ==
  ASSUME NEW c, IsConfig(c), NEW ev, NEW order, IsTree(c, ev, order), IsDraw(c, order),
         NEW entry, entry = [p \in Entrants(c, order) |-> ProfileEntry(c, ev, p)]
  PROVE  LET T == HavePlayed(c, ev, order)
             lost(p) == entry[p].matches - entry[p].wins
             extra == IF c.lucky THEN 1 ELSE 0
         IN /\ WinsOf(entry, T) = Cardinality(UsedKeys(ev))
            /\ MatchesOf(entry, T) = 2 * Cardinality(UsedKeys(ev))
            /\ \A p \in Entrants(c, order) :
                 /\ lost(p) =< 1 + extra + (IF ThirdKey \in Keys(c) THEN 1 ELSE 0)
                 /\ entry[p].place = 1 <=> Champion(c, ev) = p
                 /\ entry[p].place = 1 => lost(p) =< extra
                 /\ Complete(c, ev) /\ lost(p) = 0 => entry[p].place = 1
<1> DEFINE T == HavePlayed(c, ev, order)
           D == Entrants(c, order)
           U == Cardinality(UsedKeys(ev))
<1>1. ASSUME NEW p \in D
      PROVE  /\ entry[p].place = Place(c, ev, p)
             /\ entry[p].wins = Cardinality(Victories(ev, p))
             /\ entry[p].matches = Cardinality(Meetings(ev, p))
             /\ entry[p].matches - entry[p].wins = Cardinality(LostAt(ev, p))
  <2>1. entry[p] = ProfileEntry(c, ev, p)
    OBVIOUS
  <2>2. Cardinality(Meetings(ev, p)) - Cardinality(Victories(ev, p)) = Cardinality(LostAt(ev, p))
    BY RecordIs
  <2> QED BY <2>1, <2>2, EntryIs
<1>2. IsFiniteSet(T) /\ T \subseteq D
  BY RowsOfPlayers DEF HavePlayed
<1> HIDE DEF T
<1>3. WinsOf(entry, T) = U
  <2> DEFINE w == [p \in T |-> entry[p].wins]
  <2>1. \A p \in T : w[p] = Cardinality(Victories(ev, p))
    BY <1>1, <1>2
  <2>2. PICK g : Summing(g, w, T) /\ WinsOf(entry, T) = g[T]
    BY <1>2, FoldOfWins
  <2> HIDE DEF w
  <2>3. g[T] = U
    BY <2>1, <2>2, VictoriesAddUp DEF T
  <2> QED BY <2>2, <2>3
<1>4. MatchesOf(entry, T) = 2 * U
  <2> DEFINE w == [p \in T |-> entry[p].matches]
  <2>1. \A p \in T : w[p] = Cardinality(Meetings(ev, p))
    BY <1>1, <1>2
  <2>2. PICK g : Summing(g, w, T) /\ MatchesOf(entry, T) = g[T]
    BY <1>2, FoldOfMatches
  <2> HIDE DEF w
  <2>3. g[T] = 2 * U
    BY <2>1, <2>2, MeetingsAddUp DEF T
  <2> QED BY <2>2, <2>3
<1>5. ASSUME NEW p \in D
      PROVE  LET lost == entry[p].matches - entry[p].wins
                 extra == IF c.lucky THEN 1 ELSE 0
             IN /\ lost =< 1 + extra + (IF ThirdKey \in Keys(c) THEN 1 ELSE 0)
                /\ entry[p].place = 1 <=> Champion(c, ev) = p
                /\ entry[p].place = 1 => lost =< extra
                /\ Complete(c, ev) /\ lost = 0 => entry[p].place = 1
  <2>1. Known(p)
    BY DEF Entrants, IsDraw
  <2>2. entry[p].matches - entry[p].wins = Cardinality(LostAt(ev, p)) /\ entry[p].place = Place(c, ev, p)
    BY <1>1
  <2>3. Place(c, ev, p) = 1 <=> ev[FinalKey(c)].winner = p
    BY <2>1, FirstIsChampion
  <2>4. ev[FinalKey(c)].winner = p <=> Champion(c, ev) = p
    BY <2>1 DEF Champion, Known
  <2>5. LET extra == IF c.lucky THEN 1 ELSE 0
        IN /\ Cardinality(LostAt(ev, p)) =< 1 + extra + (IF ThirdKey \in Keys(c) THEN 1 ELSE 0)
           /\ ev[FinalKey(c)].winner = p => Cardinality(LostAt(ev, p)) =< extra
    BY <2>1, DefeatsCounted
  <2>6. ASSUME Complete(c, ev), Cardinality(LostAt(ev, p)) = 0
        PROVE  ev[FinalKey(c)].winner = p
    <3>1. LostAt(ev, p) \subseteq UsedKeys(ev)
      BY DEF LostAt
    <3>2. IsFiniteSet(LostAt(ev, p))
      BY <3>1, CountedPairings, FS_Subset
    <3>3. LostAt(ev, p) = {}
      BY <2>6, <3>2, FS_EmptySet
    <3>4. IsPlayed(c, ev, order)
      BY <2>6 DEF IsPlayed
    <3> QED BY <3>3, <3>4, UnbeatenIsFirst
  <2> QED BY <2>2, <2>3, <2>4, <2>5, <2>6
<1> QED BY <1>3, <1>4, <1>5 DEF T

-----------------------------------------------------------------------------
(* The theorems *)

\* Stored tournaments, matches and links stay well-formed: no operation of the service or
\* of the admin leaves a result whose players or match are gone.
THEOREM TournamentsAreWellFormed ==
  Spec => []TypeOK
<1>1. IInv => TypeOK
  BY TypedImplies DEF IInv
<1> QED BY <1>1, Initially, StepKeeps, PTL DEF Spec

\* However often and in whatever order results are synchronised, linked, cleared and
\* rebuilt, a recorded match decides one pairing of one tournament.
THEOREM MatchesDecideOnePairing ==
  Spec => []MatchUsedOnce
<1>1. IInv => MatchUsedOnce
  BY TypedImplies DEF IInv
<1> QED BY <1>1, Initially, StepKeeps, PTL DEF Spec

\* No synchronisation takes a match again that the admin has detached from the tournament.
THEOREM DetachedMatchesStayDetached ==
  Spec => []DetachedStaysDetached
<1>1. IInv => DetachedStaysDetached
  BY TypedImplies DEF IInv
<1> QED BY <1>1, Initially, StepKeeps, PTL DEF Spec

\* After every synchronisation, in a tree of any size, the stored results are those the
\* tree uses: one pass of refreshing, assigning and pruning leaves none behind that could
\* come back after a correction.
THEOREM ResultsAreTheTrees ==
  Spec => []NoStaleResult
<1>1. IInv => NoStaleResult
  BY SynchronisedImplies DEF IInv
<1> QED BY <1>1, Initially, StepKeeps, PTL DEF Spec

\* A tournament is stored as finished exactly when its tree is decided, also after pruning
\* has reopened it.
THEOREM StatusIsTheTrees ==
  Spec => []StatusTracksTree
<1>1. IInv => StatusTracksTree
  BY SynchronisedImplies DEF IInv
<1> QED BY <1>1, Initially, StepKeeps, PTL DEF Spec

\* A linked result has the winner of its match as last stored: nothing that changes a
\* match leaves a tournament behind that has been synchronised.
THEOREM LinkedResultsAreCurrent ==
  Spec => []LinkedResultsAgree
<1>1. IInv => LinkedResultsAgree
  BY SynchronisedImplies DEF IInv
<1> QED BY <1>1, Initially, StepKeeps, PTL DEF Spec

\* The page shows legs beside the player they were stored for, whichever way corrections
\* further up have turned the pairing.
THEOREM LegsAreShownRight ==
  Spec => []LegsOnTheirSide
<1>1. IInv => LegsOnTheirSide
  BY TypedShowsLegs DEF IInv
<1> QED BY <1>1, Initially, StepKeeps, PTL DEF Spec

\* One pass of a synchronisation assigns everything its own assignments make possible, and
\* after an ingest no tournament has to wait for one that was synchronised after it:
\* unless a match was set free meanwhile, synchronising again would change nothing.
THEOREM OneSynchronisationIsEnough ==
  Spec => SyncSettles
<1>1. ASSUME IInv, [Next]_vars
      PROVE  [\A t \in Tournaments : Settles(t)]_vars
  BY <1>1, StepSettles
<1> QED BY <1>1, Initially, StepKeeps, PTL DEF Spec, SyncSettles

\* However results are entered, corrected and expired, a running tournament can go on: as
\* long as it is not decided, some pairing has both its players and no result.
THEOREM TournamentsGoOn ==
  Spec => []NeverStuck
<1>1. IInv => NeverStuck
  <2> SUFFICES ASSUME IInv, NEW t \in Evaluated
               PROVE  Complete(Config(tour[t]), EvalOf(t)) \/ ReadyKeys(EvalOf(t)) # {}
    BY DEF NeverStuck
  <2> QED BY EvaluatedTree, TreeNeverStuck DEF IInv
<1> QED BY <1>1, Initially, StepKeeps, PTL DEF Spec

\* Nobody is called to two boards at once, and nobody has to play himself, also when the
\* lucky loser round gives a player a second way through the tree.
THEOREM PlayersAreWantedOnce ==
  Spec => []OnePlaceAtATime
<1>1. IInv => OnePlaceAtATime
  <2> SUFFICES ASSUME IInv, NEW t \in Evaluated
               PROVE  LET ev == EvalOf(t)
                      IN \A k, l \in ReadyKeys(ev) :
                           ev[k].a # ev[k].b /\ (k # l => {ev[k].a, ev[k].b} \cap {ev[l].a, ev[l].b} = {})
    BY DEF OnePlaceAtATime
  <2>1. /\ IsConfig(Config(tour[t])) /\ IsTree(Config(tour[t]), EvalOf(t), tour[t].order)
        /\ IsDraw(Config(tour[t]), tour[t].order)
    BY EvaluatedTree DEF IInv
  <2> QED BY <2>1, TreeOnePlace
<1> QED BY <1>1, Initially, StepKeeps, PTL DEF Spec

\* A player is shown as out exactly when the tree has no pairing left for him, through the
\* lucky loser round, the play-in and the match for third place.
THEOREM OutMeansOut ==
  Spec => []OutIsFinal
<1>1. IInv => OutIsFinal
  <2> SUFFICES ASSUME IInv, NEW t \in Evaluated, NEW p \in ToSet(tour[t].order)
               PROVE  LET ev == EvalOf(t)
                          open == UNION {{ev[k].a, ev[k].b} :
                                         k \in {l \in DOMAIN ev : ev[l].status \in {"ready", "wait"}}}
                          decided == Complete(Config(tour[t]), ev)
                      IN Placement(Config(tour[t]), ev, p).out
                           <=> (p \notin open /\ (Third(ev) = p => decided))
    BY DEF OutIsFinal
  <2>1. /\ IsConfig(Config(tour[t])) /\ IsTree(Config(tour[t]), EvalOf(t), tour[t].order)
        /\ IsDraw(Config(tour[t]), tour[t].order)
        /\ ToSet(tour[t].order) = {tour[t].order[q] : q \in 1 .. Config(tour[t]).n}
    BY EvaluatedTree DEF IInv
  <2>2. PICK q \in 1 .. Config(tour[t]).n : p = tour[t].order[q]
    BY <2>1
  <2> QED BY <2>1, <2>2, TreeOutIsFinal DEF Third
<1> QED BY <1>1, Initially, StepKeeps, PTL DEF Spec

\* When the tournament is decided, one player is first and one second, and everybody's place
\* is one more than the number of players placed better; with a lucky loser it is at most that.
THEOREM PlacesAreRight ==
  Spec => []PlacesAddUp
<1>1. IInv => PlacesAddUp
  <2> SUFFICES ASSUME IInv, NEW t \in Evaluated
               PROVE  LET ev == EvalOf(t)
                          place == [p \in ToSet(tour[t].order) |-> Placement(Config(tour[t]), ev, p).place]
                          better(p) == Cardinality({q \in DOMAIN place : place[q] < place[p]})
                          at(n) == {p \in DOMAIN place : place[p] = n}
                      IN Complete(Config(tour[t]), ev) =>
                           /\ Cardinality(at(1)) = 1 /\ Cardinality(at(2)) = 1
                           /\ \A p \in DOMAIN place : IF tour[t].lucky THEN place[p] \in 1 .. better(p) + 1
                                                     ELSE place[p] = better(p) + 1
    BY DEF PlacesAddUp
  <2> DEFINE c == Config(tour[t])
             ev == EvalOf(t)
             order == tour[t].order
             D == Entrants(c, order)
             place == [p \in D |-> Placement(c, ev, p).place]
  <2>1. IsConfig(c) /\ IsTree(c, ev, order) /\ IsDraw(c, order) /\ ToSet(order) = D
    BY EvaluatedTree DEF IInv, Entrants
  <2>2. c.lucky = tour[t].lucky
    BY DEF Config
  <2>3. ASSUME Complete(c, ev)
        PROVE  /\ Cardinality({p \in D : place[p] = 1}) = 1 /\ Cardinality({p \in D : place[p] = 2}) = 1
               /\ \A p \in D : IF c.lucky THEN place[p] \in 1 .. Cardinality({q \in D : place[q] < place[p]}) + 1
                               ELSE place[p] = Cardinality({q \in D : place[q] < place[p]}) + 1
    <3>1. IsPlayed(c, ev, order)
      BY <2>1, <2>3 DEF IsPlayed
    <3>2. \A p \in D : place[p] = Place(c, ev, p)
      BY DEF Place
    <3> HIDE DEF place, c, ev, order
    <3>3. {p \in D : place[p] = 1} = {ev[FinalKey(c)].winner} /\ {p \in D : place[p] = 2} = {ev[FinalKey(c)].loser}
      <4>1. {p \in D : Place(c, ev, p) = 1} = {ev[FinalKey(c)].winner}
            /\ {p \in D : Place(c, ev, p) = 2} = {ev[FinalKey(c)].loser}
        BY <3>1, TreePlaces
      <4> HIDE DEF D
      <4> QED BY <3>2, <4>1, Zenon
    <3>4. Cardinality({p \in D : place[p] = 1}) = 1 /\ Cardinality({p \in D : place[p] = 2}) = 1
      BY <3>3, FS_Singleton, Zenon
    <3>5. ASSUME NEW p \in D
          PROVE  IF c.lucky THEN place[p] \in 1 .. Cardinality({q \in D : place[q] < place[p]}) + 1
                 ELSE place[p] = Cardinality({q \in D : place[q] < place[p]}) + 1
      <4>1. {q \in D : place[q] < place[p]} = Above(c, ev, order, Place(c, ev, p))
        BY <3>2, Zenon DEF Above
      <4>2. IF c.lucky THEN Place(c, ev, p) \in 1 .. Cardinality(Above(c, ev, order, Place(c, ev, p))) + 1
            ELSE Place(c, ev, p) = Cardinality(Above(c, ev, order, Place(c, ev, p))) + 1
        BY <3>1, TreePlaces
      <4> HIDE DEF D
      <4> QED BY <3>2, <3>5, <4>1, <4>2, Zenon
    <3> QED BY <3>4, <3>5
  <2> QED BY <2>1, <2>2, <2>3
<1> QED BY <1>1, Initially, StepKeeps, PTL DEF Spec

\* Table and profiles tell the tournament of the tree: every pairing that counts is one
\* victory and a match of two players, nobody has lost more often than the lucky loser round
\* and the match for third place allow, and whoever is first is the champion.
THEOREM RecordsAreRight ==
  Spec => []RecordsFitPlaces
<1>1. IInv => RecordsFitPlaces
  <2> SUFFICES ASSUME IInv, NEW t \in Evaluated
               PROVE  LET c == Config(tour[t])
                          ev == EvalOf(t)
                          entry == [p \in ToSet(tour[t].order) |-> ProfileEntry(c, ev, p)]
                          lost(p) == entry[p].matches - entry[p].wins
                          extra == IF c.lucky THEN 1 ELSE 0
                      IN /\ WinsOf(entry, TableRows(tour[t], ev)) = Cardinality(UsedKeys(ev))
                         /\ MatchesOf(entry, TableRows(tour[t], ev)) = 2 * Cardinality(UsedKeys(ev))
                         /\ \A p \in DOMAIN entry :
                              /\ lost(p) =< 1 + extra + (IF ThirdKey \in DOMAIN ev THEN 1 ELSE 0)
                              /\ entry[p].place = 1 <=> Champion(c, ev) = p
                              /\ entry[p].place = 1 => lost(p) =< extra
                              /\ Complete(c, ev) /\ lost(p) = 0 => entry[p].place = 1
    BY DEF RecordsFitPlaces, WinsOf, MatchesOf
  <2> DEFINE c == Config(tour[t])
             ev == EvalOf(t)
             order == tour[t].order
             entry == [p \in Entrants(c, order) |-> ProfileEntry(c, ev, p)]
  <2>1. IsConfig(c) /\ IsTree(c, ev, order) /\ IsDraw(c, order) /\ ToSet(order) = Entrants(c, order)
    BY EvaluatedTree DEF IInv, Entrants
  <2>2. TableRows(tour[t], ev) = HavePlayed(c, ev, order) /\ DOMAIN ev = Keys(c)
    BY <2>1, TreeFacts DEF TableRows, HavePlayed
  <2>3. DOMAIN entry = Entrants(c, order)
    OBVIOUS
  <2> QED BY <2>1, <2>2, <2>3, TreeRecords
<1> QED BY <1>1, Initially, StepKeeps, PTL DEF Spec

=============================================================================
