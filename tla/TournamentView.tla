--------------------------- MODULE TournamentView ---------------------------
(***************************************************************************)
(* What the pages show of a tournament: server/internal/tournament/view.go. *)
(* Nothing here is stored; a view is computed from the draw and the results. *)
(*                                                                         *)
(* The legs of a result are abstracted to the player they were stored for.   *)
(* Names, rules, the texts for open places, the order of the lists and the   *)
(* throws summed up from linked matches are left out.                        *)
(***************************************************************************)
EXTENDS Tournament

\* Faulty variant: the first player's legs are always shown above.
LegsAsStored(r, a) == [a |-> r.player1, b |-> r.player2]

\* matchView: whose legs are shown at the two sides of a pairing with upper player a.
LegsShown(r, a) ==
  IF r.player1 # a THEN [a |-> r.player2, b |-> r.player1] ELSE [a |-> r.player1, b |-> r.player2]

\* stats: the pairings that count are those whose result is part of the tree; its players
\* are theirs (Fits).
Meetings(ev, p) == {k \in UsedKeys(ev) : p \in {ev[k].a, ev[k].b}}

\* Faulty variant: a walkover counts as a victory, too.
VictoriesWithWalkovers(ev, p) == {k \in DOMAIN ev : ev[k].status \in {"done", "walkover"} /\ ev[k].winner = p}

Victories(ev, p) == {k \in UsedKeys(ev) : ev[k].winner = p}

RecordOf(ev, p) == [matches |-> Cardinality(Meetings(ev, p)), wins |-> Cardinality(Victories(ev, p))]

\* The table has a row for every player of the draw who has played.
TableRows(c, ev) == {p \in ToSet(c.order) : Meetings(ev, p) # {}}

\* summary: the champion is shown as soon as the final is decided, Nobody before.
Champion(c, ev) == IF Known(ev[FinalKey(c)].winner) THEN ev[FinalKey(c)].winner ELSE Nobody

\* ForPlayer: a started tournament in the profile of player p.
ProfileEntry(c, ev, p) ==
  [place |-> Placement(c, ev, p).place, matches |-> RecordOf(ev, p).matches, wins |-> RecordOf(ev, p).wins]

-----------------------------------------------------------------------------
\* Legs are shown beside the player they were stored for, although a correction can swap
\* the sides of a pairing whose result goes on counting (matchView).
LegsOnTheirSide ==
  \A t \in Evaluated :
    LET ev == EvalOf(t)
    IN \A k \in UsedKeys(ev) :
         LegsShown(tour[t].results[k], ev[k].a) = [a |-> ev[k].a, b |-> ev[k].b]

\* Table and profiles tell the same tournament as the tree (stats, ForPlayer): each
\* counted pairing is two players' match and one's victory; nobody has lost more often
\* than the lucky loser round and the match for third place allow; who is first in his
\* profile is shown as champion and has lost no more than the match that led him into the
\* lucky loser round; and once the tournament is decided everybody else has lost.
RecordsFitPlaces ==
  \A t \in Evaluated :
    LET c == Config(tour[t])
        ev == EvalOf(t)
        entry == [p \in ToSet(tour[t].order) |-> ProfileEntry(c, ev, p)]
        lost(p) == entry[p].matches - entry[p].wins
        sum(f(_)) == FoldSet(LAMBDA p, n : f(p) + n, 0, TableRows(tour[t], ev))
        extra == IF c.lucky THEN 1 ELSE 0
    IN /\ sum(LAMBDA p : entry[p].wins) = Cardinality(UsedKeys(ev))
       /\ sum(LAMBDA p : entry[p].matches) = 2 * Cardinality(UsedKeys(ev))
       /\ \A p \in DOMAIN entry :
            /\ lost(p) =< 1 + extra + (IF ThirdKey \in DOMAIN ev THEN 1 ELSE 0)
            /\ entry[p].place = 1 <=> Champion(c, ev) = p
            /\ entry[p].place = 1 => lost(p) =< extra
            /\ Complete(c, ev) /\ lost(p) = 0 => entry[p].place = 1

=============================================================================
