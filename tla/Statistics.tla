----------------------------- MODULE Statistics -----------------------------
(***************************************************************************)
(* The numbers the site shows: server/internal/stats/stats.go, over the    *)
(* tables matches, match_players and match_legs.  Throws come from         *)
(* match_legs, so that legs of abandoned matches count; victories come     *)
(* from finished matches only.                                             *)
(*                                                                         *)
(* Averages are pairs <<points, darts>>.  Left out: names, order of the    *)
(* rows and the lists of recent matches.  "None" is an open end of a       *)
(* filter, SQL's NULL, a match not heard of.                               *)
(***************************************************************************)
EXTENDS LegParser, FiniteSetsExt

CONSTANTS
  Players,
  Matches,
  DayLength       \* instants of a day

\* The tables are of a database: it knows finitely many players and matches.
ASSUME StatisticsAssumption ==
  /\ DayLength \in Nat \ {0}
  /\ IsFiniteSet(Players) /\ IsFiniteSet(Matches)

VARIABLES
  matches,        \* table matches: [playedAt, variant, finished], or None
  matchPlayers,   \* table match_players: a set of rows
  matchLegs       \* table match_legs: a set of rows

tables == <<matches, matchPlayers, matchLegs>>

-----------------------------------------------------------------------------
(* The filter of a request *)

\* Faulty variant: the last day is cut off.
ParseFilterCutShort(fromDay, toDay, variant) ==
  [from |-> IF fromDay = None THEN None ELSE fromDay * DayLength,
   to   |-> IF toDay = None THEN None ELSE toDay * DayLength,
   variant |-> variant]

\* parseFilter: the first day counts from midnight, the last one to the next midnight.
ParseFilter(fromDay, toDay, variant) ==
  [from |-> IF fromDay = None THEN None ELSE fromDay * DayLength,
   to   |-> IF toDay = None THEN None ELSE (toDay + 1) * DayLength,
   variant |-> variant]

\* filterClause
Chosen(f) ==
  {m \in Matches :
     /\ matches[m] # None
     /\ f.from = None \/ matches[m].playedAt >= f.from
     /\ f.to = None \/ matches[m].playedAt < f.to
     /\ f.variant = None \/ matches[m].variant = f.variant}

Finished(ms) == {m \in ms : matches[m].finished}

Entries(p, ms) == {e \in matchPlayers : e.player = p /\ e.match \in ms}
Legs(p, ms)    == {l \in matchLegs : l.player = p /\ l.match \in ms}
Scored(legs)   == {l \in legs : l.points # None}
Won(rows)      == {x \in rows : x.won}

MaxOf(rows, Of(_)) == Max({Of(x) : x \in rows} \cup {0})

-----------------------------------------------------------------------------
(* A player's row: rowsQuery and rows *)

\* Faulty variant: the darts of all legs, of those without points too.
AverageOfAll(legs) ==
  LET darts == SumFunction([l \in legs |-> l.darts])
  IN IF Scored(legs) # {} /\ darts > 0 THEN <<SumFunction([l \in Scored(legs) |-> l.points]), darts>> ELSE None

AverageOf(legs) ==
  LET darts == SumFunction([l \in Scored(legs) |-> l.darts])
  IN IF Scored(legs) # {} /\ darts > 0 THEN <<SumFunction([l \in Scored(legs) |-> l.points]), darts>> ELSE None

\* first9_avg * 9 of each leg over at most nine darts of each, the averages per dart
\* and in units of 1/Unit.
Unit == 27720
PerDart(average) == (average[1] * Unit) \div average[2]
FirstNineOf(legs) ==
  LET known == {l \in legs : l.first9 # None}
  IN IF known = {} THEN None
     ELSE <<SumFunction([l \in known |-> 9 * PerDart(l.first9)]), SumFunction([l \in known |-> Min({l.darts, 9})])>>

\* Hits over attempts if a leg knows of attempts; else the mean of the rates of the
\* matches, here the set of them.
CheckoutRates(legs, entries) ==
  LET attempts == SumFunction([l \in legs |-> l.attempts])
  IN IF attempts > 0 THEN {<<SumFunction([l \in legs |-> l.hits]), attempts>>}
     ELSE {e.rate : e \in entries} \ {None}

RowOf(p, f) ==
  LET ms   == Chosen(f)
      done == Entries(p, Finished(ms))
      legs == Legs(p, ms)
  IN [matches     |-> Cardinality(done),
      wins        |-> Cardinality(Won(done)),
      openMatches |-> Cardinality(Entries(p, ms \ Finished(ms))),
      legsPlayed  |-> Cardinality(legs),
      legsWon     |-> Cardinality(Won(legs)),
      darts       |-> SumFunction([l \in legs |-> l.darts]),
      average     |-> AverageOf(legs),
      first9      |-> FirstNineOf(legs),
      rates       |-> CheckoutRates(legs, done),
      c180        |-> SumFunction([l \in legs |-> l.c180]),
      c140        |-> SumFunction([l \in legs |-> l.c140]),
      c100        |-> SumFunction([l \in legs |-> l.c100]),
      checkout    |-> MaxOf(legs, LAMBDA l : l.checkout)]

\* Leaderboard: whose row has enough finished matches and anything to show.
Ranked(row, minMatches) == row.matches >= minMatches /\ (row.matches > 0 \/ row.legsPlayed > 0)

-----------------------------------------------------------------------------
(* Profile, HeadToHead and Meta *)

Profile(p, f) ==
  LET ms == Chosen(f)
      best == {l.darts : l \in Scored(Won(Legs(p, ms)))}
      of(v) == {e \in Entries(p, Finished(ms)) : matches[e.match].variant = v}
  IN [bestLegDarts |-> IF best = {} THEN 0 ELSE Min(best),
      most180Match |-> MaxOf(Entries(p, ms), LAMBDA e : e.c180),
      variants     |-> {[variant |-> v, matches |-> Cardinality(of(v)), wins |-> Cardinality(Won(of(v)))] :
                          v \in {matches[e.match].variant : e \in Entries(p, Finished(ms))}}]

\* Faulty variant: every match of the first player.
BothAny(a, b, f) == {m \in Chosen(f) : Entries(a, {m}) # {}}

Both(a, b, f) == {m \in Chosen(f) : Entries(a, {m}) # {} /\ Entries(b, {m}) # {}}

\* One side of HeadToHead.
Side(a, b, f) ==
  LET ms == Both(a, b, f)
  IN [matches |-> Cardinality(Finished(ms)),
      wins    |-> Cardinality(Won(Entries(a, Finished(ms)))),
      legs    |-> Cardinality(Won(Legs(a, ms))),
      average |-> AverageOf(Legs(a, ms))]

Meta == [matches |-> Cardinality({m \in Matches : matches[m] # None /\ matches[m].finished}),
         legs    |-> Cardinality(Won(matchLegs))]

=============================================================================
