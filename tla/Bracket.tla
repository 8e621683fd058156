------------------------------- MODULE Bracket -------------------------------
(***************************************************************************)
(* The knock-out tree of a tournament: server/internal/tournament/bracket.go. *)
(* Only inputs are stored; who meets whom is computed from the draw and the *)
(* results on every access.  A lucky loser round, if there is one, collects *)
(* the losers before the main round it leads back into; its winner plays an *)
(* extra match (the play-in) against one drawn participant of that round.   *)
(*                                                                         *)
(* A configuration c has the fields n (the number of players), third (a      *)
(* match for third place), lucky, llEntry (the round the lucky loser enters, *)
(* as its distance to the final), playinMatch and playinSide.  The layout is *)
(* over places in the draw; evaluation puts in the order of the players.     *)
(* A pairing is named by a key <<group, round, index>>.                      *)
(*                                                                         *)
(* Abstracted: the rules of a round and the display numbers.                *)
(***************************************************************************)
EXTENDS Integers, Sequences, FiniteSets, TLC

CONSTANTS Pending, Nobody   \* a slot whose player is not known yet; a slot left empty

ASSUME SlotAssumption == Pending # Nobody

\* The function f; TLC computes it once instead of at every application.
Table(f) == CHOOSE g \in {f} : g = f

\* The functions f and g together; f decides where both are defined.
Over(f, g) ==
  LET decided == DOMAIN f
  IN Table([x \in decided \cup DOMAIN g |-> IF x \in decided THEN f[x] ELSE g[x]])

-----------------------------------------------------------------------------
(* Layout *)

\* How often 1 is doubled until it reaches n.
RoundCount(n) == Cardinality({r \in 0 .. n : 2 ^ r < n})

\* 0: the lucky loser cannot enter there.
EntryRound(rounds, distance) == IF rounds - distance < 2 THEN 0 ELSE rounds - distance

Rounds(c) == RoundCount(c.n)
Size(c)   == 2 ^ Rounds(c)
Half(c)   == Size(c) \div 2
Byes(c)   == Size(c) - c.n
Entry(c)  == IF c.lucky THEN EntryRound(Rounds(c), c.llEntry) ELSE 0

\* How many matches main round r has.
Width(c, r) == Size(c) \div 2 ^ r

\* The checks of draw and buildLayout.
Buildable(c) ==
  /\ c.n >= 2
  /\ c.lucky => Entry(c) # 0 /\ ~(Entry(c) = Rounds(c) /\ c.third)

\* The byes are spread over the first round.
IsBye(c, i) == \E j \in 0 .. Byes(c) - 1 : (j * Half(c)) \div Byes(c) = i

\* The place in the draw of the upper player of match i of round 1.
UpperPlace(c, i) == 2 * i + 1 - Cardinality({k \in 0 .. i - 1 : IsBye(c, k)})

Player(p)   == [kind |-> "player", of |-> p]
WinnerOf(k) == [kind |-> "winner", of |-> k]
LoserOf(k)  == [kind |-> "loser", of |-> k]
Bye         == [kind |-> "bye", of |-> Nobody]

\* The main round whose losers enter lucky loser round r, 0 if that round only halves.
JoiningRound(c, r) == IF r % 2 = 0 /\ r =< 2 * (Entry(c) - 2) THEN r \div 2 + 1 ELSE 0

LLSize(c) ==
  LET size[r \in 1 .. 2 * Rounds(c)] ==
        IF r = 1 THEN Half(c) \div 2
        ELSE IF JoiningRound(c, r) # 0 THEN size[r - 1]
        ELSE size[r - 1] \div 2
  IN size

\* Rounds go on until all losers have entered and one player is left.
LLRounds(c) ==
  IF ~c.lucky THEN 0
  ELSE LET done(q) == q >= 2 * (Entry(c) - 2) /\ LLSize(c)[q] = 1
       IN Cardinality({r \in 1 .. 2 * Rounds(c) : \A q \in 1 .. r - 1 : ~done(q)})

MainKeys(c) == UNION {{<<"M", r, i>> : i \in 0 .. Width(c, r) - 1} : r \in 1 .. Rounds(c)}
LLKeys(c)   == UNION {{<<"L", r, i>> : i \in 0 .. LLSize(c)[r] - 1} : r \in 1 .. LLRounds(c)}
PlayinKey   == <<"P", 1, 0>>
ThirdKey    == <<"T", 1, 0>>
FinalKey(c) == <<"M", Rounds(c), 0>>

Keys(c) == MainKeys(c) \cup LLKeys(c)
             \cup (IF c.lucky THEN {PlayinKey} ELSE {})
             \cup (IF c.third /\ Rounds(c) >= 2 THEN {ThirdKey} ELSE {})

\* The tree's order, in which the pairings are looked at.
Precedes(k, l) ==
  LET group == [M |-> 1, L |-> 2, P |-> 3, T |-> 4]
  IN \/ group[k[1]] < group[l[1]]
     \/ k[1] = l[1] /\ (k[2] < l[2] \/ (k[2] = l[2] /\ k[3] < l[3]))

\* Who meets in match i of main round r, before the play-in takes a place.
MainFeed(c, r, i) ==
  IF r = 1
  THEN [a |-> Player(UpperPlace(c, i)),
        b |-> IF IsBye(c, i) THEN Bye ELSE Player(UpperPlace(c, i) + 1)]
  ELSE [a |-> WinnerOf(<<"M", r - 1, 2 * i>>), b |-> WinnerOf(<<"M", r - 1, 2 * i + 1>>)]

\* Faulty variant: the losers of a main round enter in the order of the tree.
LLFeedUnmirrored(c, r, i) ==
  IF r = 1 THEN [a |-> LoserOf(<<"M", 1, 2 * i>>), b |-> LoserOf(<<"M", 1, 2 * i + 1>>)]
  ELSE IF JoiningRound(c, r) = 0
  THEN [a |-> WinnerOf(<<"L", r - 1, 2 * i>>), b |-> WinnerOf(<<"L", r - 1, 2 * i + 1>>)]
  ELSE [a |-> WinnerOf(<<"L", r - 1, i>>), b |-> LoserOf(<<"M", JoiningRound(c, r), i>>)]

\* Round 1 is for the losers of the first main round; later ones either take in the
\* losers of a main round, mirrored, or halve what is left.
LLFeed(c, r, i) ==
  LET k == JoiningRound(c, r)
  IN IF r = 1 THEN [a |-> LoserOf(<<"M", 1, 2 * i>>), b |-> LoserOf(<<"M", 1, 2 * i + 1>>)]
     ELSE IF k = 0
     THEN [a |-> WinnerOf(<<"L", r - 1, 2 * i>>), b |-> WinnerOf(<<"L", r - 1, 2 * i + 1>>)]
     ELSE [a |-> WinnerOf(<<"L", r - 1, i>>),
           b |-> LoserOf(<<"M", k, Width(c, k) - 1 - i>>)]

\* The drawn match of the entry round, one of whose places the play-in decides.
Target(c) ==
  <<"M", Entry(c), IF c.playinMatch \in 0 .. Width(c, Entry(c)) - 1 THEN c.playinMatch ELSE 0>>

\* Faulty variant: the play-in is always against the upper side.
OpponentAbove(c) == MainFeed(c, Entry(c), Target(c)[3]).a

\* Whom the lucky loser meets: who would have had the place he plays for.
Opponent(c) ==
  LET f == MainFeed(c, Entry(c), Target(c)[3]) IN IF c.playinSide = 1 THEN f.b ELSE f.a

Feed(c, k) ==
  CASE k[1] = "M" ->
         LET f == MainFeed(c, k[2], k[3])
         IN IF ~c.lucky \/ k # Target(c) THEN f
            ELSE IF c.playinSide = 1 THEN [f EXCEPT !.b = WinnerOf(PlayinKey)]
            ELSE [f EXCEPT !.a = WinnerOf(PlayinKey)]
    [] k[1] = "L" -> LLFeed(c, k[2], k[3])
    [] k[1] = "P" ->
         [a |-> WinnerOf(<<"L", LLRounds(c), 0>>), b |-> Opponent(c)]
    [] k[1] = "T" -> [a |-> LoserOf(<<"M", Rounds(c) - 1, 0>>), b |-> LoserOf(<<"M", Rounds(c) - 1, 1>>)]

\* The rounds in an order in which they can be played: the lucky loser round and the
\* play-in come before the main round they lead into.
RoundsInOrder(c) ==
  LET rounds(g, first, last) ==
        [i \in 1 .. last - first + 1 |-> {k \in Keys(c) : k[1] = g /\ k[2] = first + i - 1}]
      entry == IF c.lucky THEN Entry(c) ELSE 1
  IN rounds("M", 1, entry - 1) \o rounds("L", 1, LLRounds(c)) \o <<{PlayinKey} \cap Keys(c)>>
       \o rounds("M", entry, Rounds(c)) \o <<{ThirdKey} \cap Keys(c)>>

LayoutOf(c, rounds) == [i \in DOMAIN rounds |-> Table([k \in rounds[i] |-> Feed(c, k)])]

\* buildLayout, by rounds
Layout(c) == LayoutOf(c, RoundsInOrder(c))

-----------------------------------------------------------------------------
(* Evaluation: order is the draw, a sequence of players; results is a function *)
(* from some keys to records with player1, player2, winner and decidedAt;      *)
(* times are numbers, 0 is the zero time                                       *)

Later(s, t) == IF s > t THEN s ELSE t

\* A result counts for the two players it was stored for only.
Fits(r, a, b) == {r.player1, r.player2} = {a, b} /\ r.winner \in {a, b}

\* What a pairing of a and b comes to; r says whether there is a result, and which.
Outcome(a, b, ready, has, r) ==
  LET undecided == [status |-> "wait", winner |-> Pending, loser |-> Pending, decidedAt |-> 0]
      other == IF a = Nobody THEN b ELSE a
  IN IF a = Nobody /\ b = Nobody
     THEN [status |-> "empty", winner |-> Nobody, loser |-> Nobody, decidedAt |-> ready]
     ELSE IF a = Nobody \/ b = Nobody
     THEN IF other = Pending THEN [undecided EXCEPT !.loser = Nobody]
          ELSE [status |-> "walkover", winner |-> other, loser |-> Nobody, decidedAt |-> ready]
     ELSE IF a = Pending \/ b = Pending THEN undecided
     ELSE IF has /\ Fits(r, a, b)
     THEN [status |-> "done", winner |-> r.winner, loser |-> IF r.winner = a THEN b ELSE a,
           decidedAt |-> r.decidedAt]
     ELSE [undecided EXCEPT !.status = "ready"]

\* What is known of pairing k; one that was not looked at yet is open.
Memo(ev, k) ==
  IF k \in DOMAIN ev THEN ev[k]
  ELSE [a |-> Pending, b |-> Pending, readyAt |-> 0, status |-> "wait",
        winner |-> Pending, loser |-> Pending, decidedAt |-> 0]

\* match: the pairing fed by slots f, given those of the rounds before in ev.
Pairing(ev, f, order, results, started, k) ==
  LET player(s) == CASE s.kind = "player" -> order[s.of]
                     [] s.kind = "winner" -> Memo(ev, s.of).winner
                     [] s.kind = "loser"  -> Memo(ev, s.of).loser
                     [] s.kind = "bye"    -> Nobody
      since(s) == IF s.kind \in {"winner", "loser"} THEN Memo(ev, s.of).decidedAt ELSE 0
      a == player(f.a)
      b == player(f.b)
      ready == Later(started, Later(since(f.a), since(f.b)))
      has == k \in DOMAIN results
      out == Outcome(a, b, ready, has, IF has THEN results[k] ELSE Nobody)
  IN [a |-> a, b |-> b, readyAt |-> ready, status |-> out.status,
      winner |-> out.winner, loser |-> out.loser, decidedAt |-> out.decidedAt]

\* One round: pairings that were looked at before keep what is known of them.
EvaluateRound(ev, feeds, order, results, started) ==
  Over(ev, [k \in DOMAIN feeds |-> Pairing(ev, feeds[k], order, results, started, k)])

\* What is known after each round of layout L.
Evaluations(L, order, results, started) ==
  LET upTo[i \in 0 .. Len(L)] ==
        IF i = 0 THEN <<>> ELSE EvaluateRound(upTo[i - 1], L[i], order, results, started)
  IN upTo

\* evaluate: every pairing of layout L with its players, status and outcome.
Evaluate(L, order, results, started) == Evaluations(L, order, results, started)[Len(L)]

Known(x) == x \notin {Pending, Nobody}

ReadyKeys(ev) == {k \in DOMAIN ev : ev[k].status = "ready"}

\* usedResults: the keys of the results that still count.
UsedKeys(ev) == {k \in DOMAIN ev : ev[k].status = "done"}

\* Faulty variant: the third place has to be played for.
CompleteIfPlayed(c, ev) ==
  /\ Known(Memo(ev, FinalKey(c)).winner)
  /\ ThirdKey \in DOMAIN ev => ev[ThirdKey].status = "done"

\* complete: the winner is known, and the third if there is one.
Complete(c, ev) ==
  /\ Known(Memo(ev, FinalKey(c)).winner)
  /\ ThirdKey \in DOMAIN ev => ev[ThirdKey].winner # Pending

-----------------------------------------------------------------------------
(* Placements *)

LostAt(ev, p) == {k \in UsedKeys(ev) : ev[k].loser = p}

\* Faulty variant: the play-in counts as the round it leads into.
StageOfEntry(c, ev, p) ==
  LET stages == {0} \cup {2 * k[2] : k \in {l \in LostAt(ev, p) : l[1] = "M"}}
                    \cup (IF PlayinKey \in LostAt(ev, p) THEN {2 * Entry(c)} ELSE {})
  IN CHOOSE s \in stages : \A t \in stages : t =< s

\* The latest defeat of p in the tree or the play-in, counted twice: odd for the play-in.
Stage(c, ev, p) ==
  LET stages == {0} \cup {2 * k[2] : k \in {l \in LostAt(ev, p) : l[1] = "M"}}
                    \cup (IF PlayinKey \in LostAt(ev, p) THEN {2 * Entry(c) - 1} ELSE {})
  IN CHOOSE s \in stages : \A t \in stages : t =< s

\* Faulty variant: every defeat in the tree is final.
TerminalAlways(c, ev, p) == LostAt(ev, p) # {}

\* Defeats after which p does not play again: before the entry round the lucky loser
\* round follows, after the semifinal the match for third place.
Terminal(c, ev, p) ==
  \E k \in LostAt(ev, p) :
    k[1] = "M" => ~(c.lucky /\ k[2] < Entry(c))
                  /\ ~(ThirdKey \in DOMAIN ev /\ k[2] = Rounds(c) - 1)

\* placements: the place (0 while still playing) and whether p is out.
Placement(c, ev, p) ==
  LET stage == Stage(c, ev, p)
      third == IF ThirdKey \in DOMAIN ev /\ ev[ThirdKey].status = "done"
               THEN ev[ThirdKey] ELSE [winner |-> Nobody, loser |-> Nobody]
  IN IF ev[FinalKey(c)].winner = p THEN [place |-> 1, out |-> TRUE]
     ELSE IF third.winner = p THEN [place |-> 3, out |-> TRUE]
     ELSE IF third.loser = p THEN [place |-> 4, out |-> TRUE]
     ELSE IF Terminal(c, ev, p) \/ (stage > 0 /\ Complete(c, ev))
     THEN [place |-> Width(c, IF stage % 2 = 1 THEN Entry(c) - 1 ELSE stage \div 2) + 1,
           out |-> TRUE]
     ELSE [place |-> 0, out |-> FALSE]

=============================================================================
