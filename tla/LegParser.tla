------------------------------ MODULE LegParser ------------------------------
(***************************************************************************)
(* The parser of Autodarts match states: server/internal/parser/autodarts  *)
(* convert and fromFields.  A payload carries the turns of the current leg,*)
(* who won it, the legs won so far and, perhaps, statistics Autodarts has  *)
(* computed itself; the parser makes of them the statistics of the leg and *)
(* of the match for each slot.                                             *)
(*                                                                         *)
(* An average is kept as the pair <<points, darts>> it is the quotient of. *)
(***************************************************************************)
EXTENDS Integers, Sequences, SequencesExt

CONSTANT None      \* a field that is absent or null

\* It is neither a number nor a quotient of two.
ASSUME NoneAssumption == None \notin Int \cup (Int \X Int)

Slots == 0 .. 1

\* rawTurn: "throws" is the length of the array, or None without one.
Turn == [slot : Slots, score : Nat, throws : (0 .. 3) \cup {None}, busted : BOOLEAN]

-----------------------------------------------------------------------------
(* One turn *)

\* Faulty variant: every turn is a full one.
DartsAlwaysThree(t) == 3

\* The running turn has no darts yet; three are assumed if the array is missing.
DartsOf(t) ==
  IF t.throws # None THEN t.throws
  ELSE IF t.score # 0 \/ t.busted THEN 3 ELSE 0

\* Faulty variant: a busted turn keeps its score.
PointsWithBusts(t) == t.score

PointsOf(t) == IF t.busted THEN 0 ELSE t.score

TurnsOf(turns, s) == {i \in DOMAIN turns : turns[i].slot = s}

Average(points, darts) == IF darts > 0 THEN <<points, darts>> ELSE None

-----------------------------------------------------------------------------
(* The leg, counted from its turns *)

\* Faulty variant: a tenth dart belongs to the first nine.
OpeningTen(first9, t) ==
  IF first9[2] <= 9 THEN <<first9[1] + PointsOf(t), first9[2] + DartsOf(t)>> ELSE first9

\* The turns that begin within the first nine darts.
Opening(first9, t) ==
  IF first9[2] < 9 THEN <<first9[1] + PointsOf(t), first9[2] + DartsOf(t)>> ELSE first9

NothingThrown == [points |-> 0, darts |-> 0, first9 |-> <<0, 0>>, c180 |-> 0, c140 |-> 0, c100 |-> 0]

WithTurn(ls, t) ==
  LET points == PointsOf(t)
      one(class) == IF class THEN 1 ELSE 0
  IN [points |-> ls.points + points, darts |-> ls.darts + DartsOf(t), first9 |-> Opening(ls.first9, t),
      c180 |-> ls.c180 + one(points = 180), c140 |-> ls.c140 + one(points >= 140),
      c100 |-> ls.c100 + one(points >= 100)]

\* The loop over the turns, for slot s
Counting(turns, s) ==
  LET after[i \in 0 .. Len(turns)] ==
        IF i = 0 THEN NothingThrown
        ELSE IF turns[i].slot = s THEN WithTurn(after[i - 1], turns[i]) ELSE after[i - 1]
  IN after

\* Faulty variant: every variant counts down.
HasScoringAlways(r) == TRUE

HasScoring(r) == r.variant = "X01"

\* Faulty variant: the last turn of all is the checkout.
CheckoutOfLastTurn(r, s) ==
  IF s = r.legWinner /\ HasScoring(r) /\ TurnsOf(r.turns, s) # {} THEN Last(r.turns).score ELSE None

\* The score of the winner's last turn.
Checkout(r, s) ==
  IF s = r.legWinner /\ HasScoring(r) /\ TurnsOf(r.turns, s) # {}
  THEN r.turns[Max(TurnsOf(r.turns, s))].score ELSE None

Counted(r, s) ==
  LET ls  == Counting(r.turns, s)[Len(r.turns)]
      out == Checkout(r, s)
  IN [points |-> ls.points, darts |-> ls.darts,
      average |-> IF HasScoring(r) THEN Average(ls.points, ls.darts) ELSE None,
      first9  |-> IF HasScoring(r) THEN Average(ls.first9[1], ls.first9[2]) ELSE None,
      c180 |-> ls.c180, c140 |-> ls.c140, c100 |-> ls.c100,
      hits |-> IF out = None THEN 0 ELSE 1, attempts |-> 0,
      checkout |-> IF out = None THEN 0 ELSE out]

-----------------------------------------------------------------------------
(* The statistics Autodarts computes *)

\* Faulty variant: a percentage is taken for a share.
ShareAsTold(v) == v

\* checkoutPercent may be a percentage or a share: what exceeds one is a percentage.
Share(v) == IF v # None /\ v[1] > v[2] THEN <<v[1], 100 * v[2]>> ELSE v

\* Faulty variant: the classes are taken for cumulative counters.
FromFieldsAsTheyAre(f) ==
  [points |-> f.score, darts |-> f.dartsThrown, average |-> f.average, first9 |-> f.first9Average,
   hits |-> f.checkoutsHit, attempts |-> f.checkouts,
   c180 |-> f.total180, c140 |-> f.plus140, c100 |-> f.plus100]

\* plus100, plus140, plus170 and total180 are disjoint classes.
FromFields(f) ==
  LET c140 == f.plus140 + f.plus170 + f.total180
  IN [points |-> f.score, darts |-> f.dartsThrown, average |-> f.average, first9 |-> f.first9Average,
      hits |-> f.checkoutsHit, attempts |-> f.checkouts,
      c180 |-> f.total180, c140 |-> c140, c100 |-> f.plus100 + c140]

Preferred(told, own, condition) == IF condition THEN told ELSE own

\* What Autodarts says of the leg comes before what the turns say, except for the
\* classes, if there is a turn, and the checkout.
LegStats(r, s) ==
  LET own == Counted(r, s)
  IN IF s \notin DOMAIN r.legStats THEN own
     ELSE LET told  == FromFields(r.legStats[s])
              class == r.turns = <<>>
          IN [own EXCEPT
               !.average  = Preferred(told.average, @, told.average # None),
               !.first9   = Preferred(told.first9, @, told.first9 # None),
               !.darts    = Preferred(told.darts, @, told.darts > 0),
               !.points   = Preferred(told.points, @, told.points > 0),
               !.attempts = Preferred(told.attempts, @, told.attempts > 0),
               !.hits     = Preferred(told.hits, @, told.attempts > 0),
               !.c180     = Preferred(told.c180, @, class),
               !.c140     = Preferred(told.c140, @, class),
               !.c100     = Preferred(told.c100, @, class)]

\* The legs won come from "scores", the checkout rate from the match's statistics.
MatchStats(r, s) ==
  [rate    |-> IF s \in DOMAIN r.matchStats THEN Share(r.matchStats[s].checkoutPercent) ELSE None,
   legsWon |-> IF s \in DOMAIN r.scores THEN r.scores[s] ELSE 0]

=============================================================================
