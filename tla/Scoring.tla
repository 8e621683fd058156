------------------------------- MODULE Scoring -------------------------------
(***************************************************************************)
(* From the darts thrown to the numbers shown.  Matches of two slots are   *)
(* played leg by leg and turn by turn; Autodarts describes their state; an *)
(* event with it may be lost or reach the server, where LegParser reads it,*)
(* ingest/ingest.go writes match_legs and match_players, and Statistics    *)
(* answers the queries.                                                    *)
(*                                                                         *)
(* The play and its description are the environment.  "tally" keeps what   *)
(* was really thrown in a leg, "truth" what was thrown in the legs whose   *)
(* end the server got to know.  Events come in order (MatchIngest has the  *)
(* other orders and the rebuild) and names lead to players at once         *)
(* (Identity has the other cases).                                         *)
(***************************************************************************)
EXTENDS Statistics

CONSTANTS
  Bot,            \* a computer opponent: not booked
  Base,           \* the score a leg of X01 starts from
  Menu,           \* what a slot may score in a turn without winning the leg
  Targets,        \* legs a match may be played for
  MaxTurns,       \* bounds the turns of a slot in a leg
  MaxTime,
  Variants,
  Pairings,       \* who may play whom: functions from Slots
  Sources         \* what a description may contain, see Source

\* What a slot has thrown in a leg
Tally == [points : Nat, darts : Nat, c180 : Nat, c140 : Nat, c100 : Nat, tries : Nat, checkout : Nat,
          first9 : Nat \X Nat, full : BOOLEAN]

Source == [throws : BOOLEAN, legStats : BOOLEAN, matchStats : BOOLEAN, scores : BOOLEAN, percent : BOOLEAN]

\* A match in play
Game == [playedAt : Nat, variant : Variants, slots : Pairings, source : Sources, target : Targets,
         leg : Nat, turns : Seq(Turn), tally : [Slots -> Tally], outs : [Slots -> Nat \X Nat],
         legWinner : Slots \cup {None}, wins : [Slots -> Nat]]

\* The slots of a match are two players: one who has two of them, after a merge, is in MatchIngest.
ASSUME ScoringAssumption ==
  /\ Bot \notin Players
  /\ Base \in Nat \ {0} /\ Menu \in [Slots -> SUBSET (0 .. 180)]
  /\ Targets \subseteq Nat \ {0} /\ MaxTurns \in Nat /\ MaxTime \in Nat
  /\ Pairings \subseteq [Slots -> Players \cup {Bot}]
  /\ \A pair \in Pairings : pair[0] = pair[1] => pair[0] = Bot
  /\ Sources \subseteq Source
  /\ None \notin Game \cup [playedAt : Nat, variant : Variants, finished : BOOLEAN]

VARIABLES
  now,
  game,           \* the match as it is played, or None
  truth           \* what was thrown in the legs reported: match, leg, slot and a tally

vars == <<tables, now, game, truth>>

-----------------------------------------------------------------------------
(* The play *)

\* What a slot has thrown in the leg: "tries" counts turns that could win it, "full" says
\* that every turn but a winning one had three darts.
NoThrows == [points |-> 0, darts |-> 0, c180 |-> 0, c140 |-> 0, c100 |-> 0,
             tries |-> 0, checkout |-> 0, first9 |-> <<0, 0>>, full |-> TRUE]

Other(s) == 1 - s
AtTurn(g) == IF g.turns = <<>> THEN 0 ELSE Other(Last(g.turns).slot)
Remaining(g, s) == Base - g.tally[s].points

\* The darts a turn can take that scores n and ends the leg, or that busts.
DartsFor(n) == {d \in 1 .. 3 : n <= 60 * d}

Thrown(tally, score, darts, busted, tries, checkout) ==
  LET points == IF busted THEN 0 ELSE score
      plus(n) == IF points >= n THEN 1 ELSE 0
  IN [points |-> tally.points + points, darts |-> tally.darts + darts,
      c180 |-> tally.c180 + plus(180), c140 |-> tally.c140 + plus(140), c100 |-> tally.c100 + plus(100),
      tries |-> tally.tries + tries, checkout |-> checkout,
      first9 |-> IF tally.darts < 9 THEN <<tally.points + points, tally.darts + darts>> ELSE tally.first9,
      full |-> tally.full /\ (darts = 3 \/ checkout > 0)]

Opened(pair, variant, source, target) ==
  [playedAt |-> now, variant |-> variant, slots |-> pair, source |-> source, target |-> target,
   leg |-> 1, turns |-> <<>>, tally |-> [s \in Slots |-> NoThrows], outs |-> [s \in Slots |-> <<0, 0>>],
   legWinner |-> None, wins |-> [s \in Slots |-> 0]]

Begin(m, pair, variant, source, target) ==
  /\ game[m] = None
  /\ game' = [game EXCEPT ![m] = Opened(pair, variant, source, target)]
  /\ UNCHANGED <<tables, now, truth>>

Running(g) == g # None /\ g.legWinner = None
Over(g)    == \E s \in Slots : g.wins[s] = g.target

\* A turn of slot s; "wins" says that it ends the leg.
AfterTurn(g, s, score, darts, busted, wins) ==
  LET try == IF g.variant = "X01" /\ Remaining(g, s) <= 170 THEN 1 ELSE 0
      turn == [slot |-> s, score |-> score, busted |-> busted,
               throws |-> IF g.source.throws THEN darts ELSE None]
  IN [g EXCEPT
       !.turns = Append(@, turn),
       !.tally[s] = Thrown(@, score, darts, busted, try, IF wins /\ try = 1 THEN score ELSE 0),
       !.outs[s] = <<IF wins THEN @[1] + try ELSE @[1], @[2] + try>>,
       !.legWinner = IF wins THEN s ELSE None,
       !.wins[s] = IF wins THEN @ + 1 ELSE @]

TakeTurn(m, s, score, darts, busted, wins) ==
  game' = [game EXCEPT ![m] = AfterTurn(@, s, score, darts, busted, wins)]

\* A slot scores, goes bust or ends the leg.  Cricket knows no bust and no rest to throw.
PlayTurn(m) ==
  LET g == game[m]
      s == AtTurn(g)
      rest == Remaining(g, s)
  IN /\ Running(g)
     /\ Cardinality(TurnsOf(g.turns, s)) < MaxTurns
     /\ IF g.variant = "Cricket"
        THEN \E wins \in BOOLEAN : TakeTurn(m, s, 0, 3, FALSE, wins)
        ELSE \/ \E n \in Menu[s] : n <= rest - 2 /\ TakeTurn(m, s, n, 3, FALSE, FALSE)
             \/ \E d \in DartsFor(rest) : TakeTurn(m, s, rest, d, TRUE, FALSE)
             \/ \E d \in DartsFor(rest) : rest <= 170 /\ TakeTurn(m, s, rest, d, FALSE, TRUE)
     /\ UNCHANGED <<tables, now, truth>>

AfterLeg(g) ==
  [g EXCEPT !.leg = @ + 1, !.turns = <<>>, !.legWinner = None, !.tally = [s \in Slots |-> NoThrows]]

NextLeg(m) ==
  /\ game[m] # None /\ ~Running(game[m]) /\ ~Over(game[m])
  /\ game' = [game EXCEPT ![m] = AfterLeg(@)]
  /\ UNCHANGED <<tables, now, truth>>

Tick ==
  /\ now < MaxTime
  /\ now' = now + 1
  /\ UNCHANGED <<tables, game, truth>>

-----------------------------------------------------------------------------
(* What Autodarts tells *)

\* The statistics of a leg; the classes are disjoint.
LegFields(tally) ==
  LET hits == IF tally.checkout > 0 THEN 1 ELSE 0
  IN [average |-> Average(tally.points, tally.darts),
      first9Average |-> Average(tally.first9[1], tally.first9[2]),
      checkoutsHit |-> hits, checkouts |-> tally.tries,
      dartsThrown |-> tally.darts, score |-> tally.points,
      plus100 |-> tally.c100 - tally.c140, plus140 |-> tally.c140 - tally.c180, plus170 |-> 0,
      total180 |-> tally.c180]

Percent(outs, percent) ==
  IF outs[2] = 0 THEN None ELSE <<outs[1] * (IF percent THEN 100 ELSE 1), outs[2]>>

\* The description of a match.  "idle" adds the turn of the next slot that has not begun.
Described(g, idle) ==
  [variant    |-> g.variant,
   leg        |-> g.leg,
   legWinner  |-> g.legWinner,
   finished   |-> Over(g),
   winner     |-> IF Over(g) THEN CHOOSE s \in Slots : g.wins[s] = g.target ELSE None,
   turns      |-> IF idle THEN Append(g.turns, [slot |-> AtTurn(g), score |-> 0, busted |-> FALSE,
                                                throws |-> IF g.source.throws THEN 0 ELSE None])
                  ELSE g.turns,
   scores     |-> [s \in IF g.source.scores THEN Slots ELSE {} |-> g.wins[s]],
   matchStats |-> [s \in IF g.source.matchStats THEN Slots ELSE {} |->
                     [checkoutPercent |-> Percent(g.outs[s], g.source.percent)]],
   legStats   |-> [s \in IF g.source.legStats THEN Slots ELSE {} |-> LegFields(g.tally[s])]]

-----------------------------------------------------------------------------
(* What the server writes *)

Booked(g) == {s \in Slots : g.slots[s] # Bot}

LegRow(m, g, r, s) ==
  LET ls == LegStats(r, s)
  IN [match |-> m, leg |-> r.leg, player |-> g.slots[s], won |-> s = r.legWinner,
      darts |-> ls.darts, points |-> IF HasScoring(r) THEN ls.points ELSE None,
      average |-> ls.average, first9 |-> ls.first9, checkout |-> ls.checkout,
      hits |-> ls.hits, attempts |-> ls.attempts,
      c180 |-> ls.c180, c140 |-> ls.c140, c100 |-> ls.c100]

\* applyLegState: the rows of a leg are replaced if it has a winner.
WithLeg(rows, m, g, r) ==
  IF r.legWinner = None THEN rows
  ELSE {l \in rows : l.match # m \/ l.leg # r.leg} \cup {LegRow(m, g, r, s) : s \in Booked(g)}

\* Faulty variant: only archived legs count as won.
LegsWonArchived(reported, counted) == counted

LegsWon(reported, counted) == Max({reported, counted})

\* applyMatchState: a row per booked slot, its counters taken from match_legs.
MatchRow(legs, m, g, r, s) ==
  LET mine == {l \in legs : l.match = m /\ l.player = g.slots[s]}
      told == MatchStats(r, s)
  IN [match |-> m, player |-> g.slots[s], won |-> r.finished /\ s = r.winner,
      rate |-> told.rate,
      legsPlayed |-> Cardinality(mine), legsWon |-> LegsWon(told.legsWon, Cardinality(Won(mine))),
      c180 |-> SumFunction([l \in mine |-> l.c180]), c140 |-> SumFunction([l \in mine |-> l.c140]),
      c100 |-> SumFunction([l \in mine |-> l.c100]), checkout |-> MaxOf(mine, LAMBDA l : l.checkout)]

WithMatch(entries, legs, m, g, r) ==
  {e \in entries : e.match # m} \cup {MatchRow(legs, m, g, r, s) : s \in Booked(g)}

\* Faulty variant: the match's row is written before the leg's.
CountersBeforeLeg(m, g, r) == WithMatch(matchPlayers, matchLegs, m, g, r)

Counters(m, g, r) == WithMatch(matchPlayers, WithLeg(matchLegs, m, g, r), m, g, r)

\* HandleEvent for a state in order: the match's row, the leg if it has ended, the slots.
HandleEvent(m, g, r) ==
  /\ matches' = [matches EXCEPT ![m] = [playedAt |-> g.playedAt, variant |-> r.variant, finished |-> r.finished]]
  /\ matchLegs' = WithLeg(matchLegs, m, g, r)
  /\ matchPlayers' = Counters(m, g, r)

\* The state of the match reaches the server.
Report(m) ==
  /\ game[m] # None
  /\ \E idle \in BOOLEAN : HandleEvent(m, game[m], Described(game[m], idle))
  /\ truth' = IF Running(game[m]) THEN truth
              ELSE truth \cup {[match |-> m, leg |-> game[m].leg, slot |-> s, tally |-> game[m].tally[s]] : s \in Slots}
  /\ UNCHANGED <<now, game>>

-----------------------------------------------------------------------------

Init ==
  /\ matches = [m \in Matches |-> None]
  /\ matchPlayers = {}
  /\ matchLegs = {}
  /\ now = 0
  /\ game = [m \in Matches |-> None]
  /\ truth = {}

Next ==
  \/ Tick
  \/ \E m \in Matches :
       \/ \E pair \in Pairings, v \in Variants, source \in Sources, n \in Targets : Begin(m, pair, v, source, n)
       \/ PlayTurn(m)
       \/ NextLeg(m)
       \/ Report(m)

Spec == Init /\ [][Next]_vars

-----------------------------------------------------------------------------
(* Properties *)

Everything == [from |-> None, to |-> None, variant |-> None]
Days == 0 .. (MaxTime \div DayLength)

\* The legs the server should know of a player, as they were thrown.
Told(m) == game[m].source.throws \/ game[m].source.legStats
PlayerOf(t) == game[t.match].slots[t.slot]
TruthOf(p, ms) == {t \in truth : PlayerOf(t) = p /\ t.match \in ms /\ game[t.match].variant = "X01"}

\* Types, and the keys of the tables: a row per leg and player, with points if the variant
\* counts down, and at most one winner of a leg (001_init.sql:51-91).
TypeOK ==
  /\ \A m \in Matches : matches[m] # None => matches[m].playedAt \in 0 .. now /\ game[m] # None
  /\ \A l, k \in matchLegs : l.match = k.match /\ l.leg = k.leg => l = k \/ (l.player # k.player /\ ~(l.won /\ k.won))
  /\ \A l \in matchLegs : (l.points # None) = (matches[l.match].variant = "X01")
  /\ \A e, k \in matchPlayers : e.match = k.match /\ e.player = k.player => e = k

\* match_legs says what was thrown: the points, the darts, the classes of a leg and its checkout
\* are those of the play, whichever of the two accounts of them the payload had and whether or
\* not it showed the next turn already; the winner has thrown the whole score.
LegRowsAreTheLeg ==
  \A t \in truth : game[t.match].variant = "X01" /\ PlayerOf(t) # Bot =>
    \E l \in matchLegs :
      /\ l.match = t.match /\ l.leg = t.leg /\ l.player = PlayerOf(t)
      /\ l.points = t.tally.points /\ l.checkout = t.tally.checkout
      /\ l.c180 = t.tally.c180 /\ l.c140 = t.tally.c140 /\ l.c100 = t.tally.c100
      /\ Told(t.match) => l.darts = t.tally.darts
      /\ l.won => l.points = Base

\* The result of a finished match survives the loss of leg ends, if the last state tells the
\* legs won: match_players has the true winner and the true legs of both.
ResultSurvives ==
  \A e \in matchPlayers : matches[e.match].finished =>
    \A s \in Slots : game[e.match].slots[s] = e.player =>
      /\ e.won = (game[e.match].wins[s] = game[e.match].target)
      /\ IF game[e.match].source.scores THEN e.legsWon = game[e.match].wins[s]
         ELSE e.legsWon <= game[e.match].wins[s]

\* Every page tells the same: the counters kept in match_players add up to what the ranking
\* counts in match_legs, after any losses; two players see the same number of matches of
\* theirs and one of them has won each; over all opponents these victories add up to the
\* player's own row, and over all players the rows to the numbers of the whole site, but for
\* what computers won.
PagesAgree ==
  LET done == Finished(Chosen(Everything))
      row  == [p \in Players |-> RowOf(p, Everything)]
      mine == [p \in Players |-> Entries(p, Matches)]
      side == [p \in Players |-> [q \in Players |-> Side(p, q, Everything)]]
      againstBots(p) == {e \in Entries(p, done) : \E s \in Slots : game[e.match].slots[s] = Bot}
      botsWon == {m \in done : Won({e \in matchPlayers : e.match = m}) = {}}
  IN /\ \A p \in Players :
          /\ row[p].legsPlayed = SumFunction([e \in mine[p] |-> e.legsPlayed])
          /\ row[p].legsWon <= SumFunction([e \in mine[p] |-> e.legsWon])
          /\ row[p].c180 = SumFunction([e \in mine[p] |-> e.c180])
          /\ row[p].c100 = SumFunction([e \in mine[p] |-> e.c100])
          /\ row[p].checkout = MaxOf(mine[p], LAMBDA e : e.checkout)
          /\ row[p].wins = SumFunction([q \in Players \ {p} |-> side[p][q].wins]) + Cardinality(Won(againstBots(p)))
     /\ \A p \in Players, q \in Players : p # q =>
          /\ side[p][q].matches = side[q][p].matches
          /\ side[p][q].wins + side[q][p].wins = side[p][q].matches
     /\ Meta.matches = SumFunction([p \in Players |-> row[p].wins]) + Cardinality(botsWon)
     /\ Meta.legs = SumFunction([p \in Players |-> row[p].legsWon])

\* The averages shown, of a player and of each side of a comparison, and his best leg are those
\* of the legs of X01 he threw: legs of other variants do not dilute them.
AveragesAreThrown(p) ==
  LET true(ms) == LET ts == TruthOf(p, ms)
                  IN Average(SumFunction([t \in ts |-> t.tally.points]), SumFunction([t \in ts |-> t.tally.darts]))
      wins == {t \in TruthOf(p, Matches) : t.tally.points = Base}
  IN (\A t \in TruthOf(p, Matches) : Told(t.match)) =>
     /\ RowOf(p, Everything).average = true(Matches)
     /\ \A q \in Players : Side(p, q, Everything).average = true(Both(p, q, Everything))
     /\ Profile(p, Everything).bestLegDarts = IF wins = {} THEN 0 ELSE Min({t.tally.darts : t \in wins})

\* The average of the first nine darts is that of the first three turns, provided they were
\* full ones in every leg: with a short turn the code takes up to eleven darts, and a leg of
\* fewer than nine counts for too much.  Averages told of legs of other variants count, too.
FirstNineIsThrown(p) ==
  LET ts == TruthOf(p, Matches)
  IN (/\ ts # {} /\ \A t \in ts : Told(t.match) /\ t.tally.full /\ t.tally.first9[2] = 9
      /\ \A m \in Matches : Entries(p, {m}) # {} => game[m].variant = "X01" \/ ~game[m].source.legStats) =>
     RowOf(p, Everything).first9 = <<Unit * SumFunction([t \in ts |-> t.tally.first9[1]]), 9 * Cardinality(ts)>>

\* A checkout rate is a share, if all the player's matches are described alike: hits of legs
\* that tell no attempts are not put over the attempts of others.
RatesAreShares(p) ==
  (\A m, k \in Matches : Entries(p, {m}) # {} /\ Entries(p, {k}) # {} =>
     game[m].source.legStats = game[k].source.legStats) =>
  \A rate \in RowOf(p, Everything).rates : 0 <= rate[1] /\ rate[1] <= rate[2]

\* Every quotient shown of a player is the one of the darts he threw.
QuotientsAreTrue ==
  \A p \in Players : AveragesAreThrown(p) /\ FirstNineIsThrown(p) /\ RatesAreShares(p)

\* Consecutive periods add up to the whole one, no match counts twice and none is left out, and
\* so do the variants; who is ranked in a period is ranked in a longer one.
PeriodsAddUp ==
  \A p \in Players, a, b, c \in Days : a <= b /\ b < c =>
    LET whole == ParseFilter(a, c, None)
        early == RowOf(p, ParseFilter(a, b, None))
        late  == RowOf(p, ParseFilter(b + 1, c, None))
        all   == RowOf(p, whole)
    IN /\ \A field \in {"matches", "wins", "openMatches", "legsPlayed", "legsWon", "darts", "c180"} :
            early[field] + late[field] = all[field]
       /\ SumFunction([v \in Profile(p, whole).variants |-> v.matches]) = all.matches
       /\ Ranked(early, 1) => Ranked(all, 1)

=============================================================================
