---------------------------- MODULE MCTournament ----------------------------
(***************************************************************************)
(* Instances of Tournament for TLC.                                         *)
(***************************************************************************)
EXTENDS TournamentView

Setup(order, third, lucky, llEntry) ==
  [order |-> order, third |-> third, lucky |-> lucky, llEntry |-> llEntry]

One == {1}
Two == {1, 2}
Upper == {0}
Both == {0, 1}

\* All shapes of up to five players with a lucky loser, whose round then takes in the losers
\* of two main rounds, and of up to seven without.
BracketSetups ==
  <<{s \in {Setup([i \in 1 .. n |-> i], third, lucky, llEntry) :
            n \in 2 .. 7, third \in BOOLEAN, lucky \in BOOLEAN, llEntry \in 0 .. 1} :
     /\ IF s.lucky THEN Len(s.order) =< 5 ELSE s.llEntry = 0
     /\ Buildable(Config([playinMatch |-> 0, playinSide |-> 0] @@ s))}>>
BracketPlayers == 1 .. 7

\* Three players with a lucky loser, and two of them in a tournament of their own.
TournamentSetups == <<{Setup(<<1, 2, 3>>, FALSE, TRUE, 0)}, {Setup(<<1, 2>>, FALSE, FALSE, 0)}>>
TournamentPlayers == 1 .. 3
Played(a, b) == {[players |-> {a, b}, winner |-> w, waiting |-> FALSE] : w \in {a, b}}
\* One of them without a winner: a third, who is no player here, has won it.  In another the
\* third waits to be assigned.
TournamentOutcomes ==
  Played(1, 2) \cup {[players |-> {2, 3}, winner |-> 2, waiting |-> FALSE],
                     [players |-> {1, 2}, winner |-> Nobody, waiting |-> FALSE],
                     [players |-> {1, 2}, winner |-> 1, waiting |-> TRUE]}

=============================================================================
