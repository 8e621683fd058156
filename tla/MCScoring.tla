------------------------------ MODULE MCScoring ------------------------------
(***************************************************************************)
(* Small instances of Scoring, all of 301:                                  *)
(*   "leg"     one leg with many ways to play it;                           *)
(*   "legs"    a match over several legs, any of them unreported;            *)
(*   "season"  matches of one leg between three players and a computer, on   *)
(*             two days, in two variants, described with and without the      *)
(*             statistics of the leg.                                        *)
(***************************************************************************)
EXTENDS Scoring

CONSTANTS tim, tom, jan, m1, m2, Scenarios

VARIABLE scenario

Full  == [throws |-> TRUE, legStats |-> TRUE, matchStats |-> TRUE, scores |-> TRUE, percent |-> TRUE]
Flat  == [Full EXCEPT !.legStats = FALSE]
Bare  == [Flat EXCEPT !.matchStats = FALSE, !.scores = FALSE]
Vague == [Flat EXCEPT !.throws = FALSE, !.percent = FALSE]
MCSources == {Full, Flat, Bare, Vague}

Pair(a, b) == [s \in Slots |-> IF s = 0 THEN a ELSE b]
MCPairings == {Pair(tim, tom), Pair(tom, tim), Pair(tim, jan), Pair(tim, Bot)}
MCMenu == [s \in Slots |-> IF s = 0 THEN {60, 100, 180} ELSE {140, 180}]

MCInit == Init /\ scenario \in Scenarios

MCBegin(m, pair, variant, source, target) ==
  /\ CASE scenario = "leg"    -> m = m1 /\ pair = Pair(tim, tom) /\ variant = "X01" /\ target = 1
       [] scenario = "legs"   -> m = m1 /\ pair = Pair(tim, tom) /\ variant = "X01" /\ target = 2
       [] scenario = "season" -> /\ source \in {Full, Flat} /\ target = 1
                                 /\ IF m = m1 THEN variant = "X01" /\ source = Full /\ pair \in {Pair(tim, tom), Pair(tim, Bot)} ELSE game[m1] # None
                                 /\ \A k \in Matches : ~Running(game[k])
  /\ Begin(m, pair, variant, source, target)

\* Long matches are of quick legs: a slot throws 180 and then wins or goes bust.
Quick(g) ==
  \A s \in Slots : /\ g.tally[s].points \in {0, 180, Base}
                   /\ Cardinality(TurnsOf(g.turns, s)) <= IF g.variant = "X01" THEN 2 ELSE 1

\* A running leg is reported at its beginning.
Reportable(g) == g # None /\ (Running(g) => Len(g.turns) = 1)

MCNext ==
  /\ \/ \E m \in Matches :
          \/ \E pair \in Pairings, v \in Variants, source \in Sources, n \in Targets : MCBegin(m, pair, v, source, n)
          \/ PlayTurn(m) /\ (scenario # "leg" => Quick(game'[m]))
          \/ scenario = "legs" /\ NextLeg(m)
          \/ Reportable(game[m]) /\ Report(m)
     \/ scenario = "season" /\ (\A m \in Matches : ~Running(game[m])) /\ Tick
  /\ UNCHANGED scenario

MCSpec == MCInit /\ [][MCNext]_<<vars, scenario>>

=============================================================================
