----------------------------- MODULE MatchIngest -----------------------------
(***************************************************************************)
(* The ingest of ONE Autodarts match: server/internal/ingest/ingest.go.    *)
(*                                                                         *)
(* Collectors report states of the match (a state = one parsed payload).   *)
(* HandleEvent keeps the latest one in table matches, archives leg ends in *)
(* match_snapshots, and keeps match_legs, match_players and match_pending  *)
(* up to date, all in one transaction.  ReprocessMatch throws the derived  *)
(* tables away and computes them again from the archived payloads.         *)
(* Administrators change, between any two events, which player a slot is   *)
(* booked for.  The database has one connection (db.go SetMaxOpenConns(1)), *)
(* so a transaction is one atomic step.                                    *)
(*                                                                         *)
(* Abstracted: the throw statistics inside a payload, clocks (updated_at,  *)
(* see Tournament), and how a name finds its player (see Identity): here a *)
(* slot "claims" a player.  Only payloads that were parsed are stored, so  *)
(* the ways out for a stored payload that cannot be parsed (ingest.go 228  *)
(* and 603) are not taken.                                                 *)
(***************************************************************************)
EXTENDS Integers, FiniteSets

CONSTANTS
  Players,      \* players of the table "players"
  Slots,        \* 0-based player indices of the match
  LegIds,       \* pairs <<set, leg>>
  Reports,      \* the parsed states a collector may deliver
  InitialClaim, \* the player each slot's name or account leads to, or Bot
  Guests,       \* slots known by name only (no Autodarts user id)
  None, Bot, Ignored, Waiting

Report == [leg : LegIds, legFinished : BOOLEAN, legWinner : Slots \cup {-1},
           finished : BOOLEAN, winner : Slots \cup {-1}]

MatchRow  == [leg : LegIds, finished : BOOLEAN, raw : Reports]
LegRow    == [leg : LegIds, player : Players, won : BOOLEAN]
PlayerRow == [index : Slots, won : BOOLEAN, legsPlayed : Nat]

ASSUME ConstantsAssumption ==
  /\ Slots \subseteq Nat
  /\ IsFiniteSet(Slots)
  /\ LegIds \subseteq Nat \X Nat
  /\ IsFiniteSet(LegIds)
  /\ IsFiniteSet(Players)
  /\ Reports \subseteq Report
  /\ \A r \in Reports : r.legWinner \in Slots => r.legFinished
  /\ InitialClaim \in [Slots -> Players \cup {Bot}]
  /\ Guests \subseteq Slots

ASSUME AbsenceAssumption ==
  /\ Bot \notin Players /\ Ignored \notin Players /\ Waiting \notin Players
  /\ None \notin Players \cup {Ignored}
  /\ Ignored # Waiting
  /\ None \notin Reports
  /\ None \notin MatchRow
  /\ None \notin PlayerRow

VARIABLES
  match,        \* the row of table matches, or None
  snapshots,    \* match_snapshots: the archived payload per leg, or None
  legs,         \* match_legs: a set of LegRow
  players,      \* match_players: a row per player, or None
  waiting,      \* match_pending: the slots waiting for approval
  claim,        \* whom a slot's name or account leads to
  protected,    \* players.protected
  override,     \* match_overrides per slot: a player, Ignored, or None
  since         \* what may have set the tables apart since the last rebuild

AdminKinds == {"assign", "protect", "alias", "merge"}

identity == <<claim, protected, override>>
tables   == <<match, snapshots, legs, players, waiting>>
vars     == <<tables, identity, since>>

-----------------------------------------------------------------------------
(* Which player a slot is booked for *)

\* Faulty variant: the protection of a name is looked at before the override.
ResolveProtectionFirst(s) ==
  IF claim[s] = Bot THEN Ignored
  ELSE IF s \in Guests /\ claim[s] \in protected THEN Waiting
  ELSE IF override[s] # None THEN override[s]
  ELSE claim[s]

\* resolvePlayer: bots are skipped, then an override decides, then the account
\* or the name; a protected name without an account waits for approval.
Resolve(s) ==
  IF claim[s] = Bot THEN Ignored
  ELSE IF override[s] # None THEN override[s]
  ELSE IF s \in Guests /\ claim[s] \in protected THEN Waiting
  ELSE claim[s]

WaitingSlots == {s \in Slots : Resolve(s) = Waiting}

\* The map "seen" of applyLegState and applyMatchState: if two slots are the same
\* player, only the first one is booked.
Books(s, p) == Resolve(s) = p /\ \A t \in Slots : t < s => Resolve(t) # p

-----------------------------------------------------------------------------
(* The tables derived from payloads *)

Before(a, b) == a[1] < b[1] \/ (a[1] = b[1] /\ a[2] < b[2])

Ends(r) == r.legFinished \/ r.finished

\* The rows a leg's payload yields: none unless the leg has a winner.
LegRows(l, r) ==
  IF r.legWinner \in Slots
  THEN {row \in LegRow : /\ row.leg = l
                         /\ \E s \in Slots : /\ Books(s, row.player)
                                             /\ row.won = (s = r.legWinner)}
  ELSE {}

\* Faulty variant: the leg's old rows stay.
ApplyLegStateKeepingRows(rows, l, r) ==
  IF r.legWinner \in Slots THEN rows \cup LegRows(l, r) ELSE rows

\* applyLegState: replaces the rows of the leg if the payload names a winner.
ApplyLegState(rows, l, r) ==
  IF r.legWinner \in Slots
  THEN {row \in rows : row.leg # l} \cup LegRows(l, r)
  ELSE rows

LegsPlayed(rows, p) == Cardinality({row \in rows : row.player = p})

\* Faulty variant: legs_played is counted for the booked slots only.
ApplyMatchStateBookedOnly(table, rows, r) ==
  [p \in Players |->
     IF \E s \in Slots : Books(s, p)
     THEN LET s == CHOOSE s \in Slots : Books(s, p)
          IN [index |-> s, won |-> r.finished /\ s = r.winner,
              legsPlayed |-> LegsPlayed(rows, p)]
     ELSE table[p]]

\* applyMatchState: upsert a row for every booked slot, keep all the others, then
\* count legs_played anew for every row of the match.
ApplyMatchState(table, rows, r) ==
  [p \in Players |->
     IF \E s \in Slots : Books(s, p)
     THEN LET s == CHOOSE s \in Slots : Books(s, p)
          IN [index |-> s, won |-> r.finished /\ s = r.winner,
              legsPlayed |-> LegsPlayed(rows, p)]
     ELSE IF table[p] = None THEN None
     ELSE [table[p] EXCEPT !.legsPlayed = LegsPlayed(rows, p)]]

-----------------------------------------------------------------------------
Init ==
  /\ match = None
  /\ snapshots = [l \in LegIds |-> None]
  /\ legs = {}
  /\ players = [p \in Players |-> None]
  /\ waiting = {}
  /\ claim = InitialClaim
  /\ protected \in SUBSET Players
  /\ override = [s \in Slots |-> None]
  /\ since = {}

(* HandleEvent *)

\* Faulty variant: the first archived payload of a leg is never replaced.
StoreFirstSnapshot(r, snaps, rows) ==
  LET booked == IF Ends(r) THEN ApplyLegState(rows, r.leg, r) ELSE rows
  IN /\ match' = [leg |-> r.leg, finished |-> r.finished, raw |-> r]
     /\ snapshots' = IF Ends(r) /\ snaps[r.leg] = None THEN [snaps EXCEPT ![r.leg] = r]
                                                     ELSE snaps
     /\ legs' = booked
     /\ players' = ApplyMatchState(players, booked, r)
     /\ waiting' = waiting \cup WaitingSlots
     /\ UNCHANGED identity

\* The common tail of HandleEvent: write the row, archive the leg if this state
\* ends it, derive match_players.  "snaps" and "rows" are snapshots and legs
\* after the previous leg was archived.
Store(r, snaps, rows) ==
  LET booked == IF Ends(r) THEN ApplyLegState(rows, r.leg, r) ELSE rows
  IN /\ match' = [leg |-> r.leg, finished |-> r.finished, raw |-> r]
     /\ snapshots' = IF Ends(r) THEN [snaps EXCEPT ![r.leg] = r] ELSE snaps
     /\ legs' = booked
     /\ players' = ApplyMatchState(players, booked, r)
     /\ waiting' = waiting \cup WaitingSlots
     /\ UNCHANGED identity

FirstState(r) ==
  /\ match = None
  /\ Store(r, snapshots, legs)
  /\ UNCHANGED since

\* Faulty variants: one of the two tests is missing.
IsStaleByFinish(r) == match.finished /\ ~r.finished
IsStaleByProgress(r) == Before(r.leg, match.leg)

\* A state older than the stored one, or a running one after the match ended.
IsStale(r) == (match.finished /\ ~r.finished) \/ Before(r.leg, match.leg)

\* Faulty variant: the end of a leg that comes too late is archived all the same.
StaleStateArchiving(r) ==
  /\ match # None
  /\ IsStale(r)
  /\ snapshots' = IF Ends(r) THEN [snapshots EXCEPT ![r.leg] = r] ELSE snapshots
  /\ UNCHANGED <<match, legs, players, waiting, identity, since>>

StaleState(r) ==
  /\ match # None
  /\ IsStale(r)
  /\ UNCHANGED vars

\* A state that knows less about the end of its leg than the stored one.
IsLate(r) ==
  \/ Ends(match.raw) /\ ~Ends(r)
  \/ match.raw.legWinner \in Slots /\ r.legWinner \notin Slots

SameLegState(r) ==
  /\ match # None
  /\ ~IsStale(r)
  /\ r.leg = match.leg
  /\ Store(r, snapshots, legs)
  /\ since' = IF IsLate(r) THEN since \cup {"late"} ELSE since

\* Faulty variant: the row of the match is archived instead of its payload.
NextLegStateArchivingRow(r) ==
  /\ match # None
  /\ ~IsStale(r)
  /\ r.leg # match.leg
  /\ IF match.finished
     THEN Store(r, snapshots, legs)
     ELSE Store(r, [snapshots EXCEPT ![match.leg] = match],
                ApplyLegState(legs, match.leg, match.raw))
  /\ UNCHANGED since

\* The leg moved on: archive the previous state first, unless the match had ended.
NextLegState(r) ==
  /\ match # None
  /\ ~IsStale(r)
  /\ r.leg # match.leg
  /\ IF match.finished
     THEN Store(r, snapshots, legs)
     ELSE Store(r, [snapshots EXCEPT ![match.leg] = match.raw],
                ApplyLegState(legs, match.leg, match.raw))
  /\ UNCHANGED since

HandleEvent(r) ==
  FirstState(r) \/ StaleState(r) \/ SameLegState(r) \/ NextLegState(r)

(* ReprocessMatch *)

SnapshotLegs == UNION {LegRows(l, snapshots[l]) : l \in {k \in LegIds : snapshots[k] # None}}

\* Faulty variant: match_players is not emptied first.
ReprocessKeepingPlayers ==
  /\ match # None
  /\ legs' = SnapshotLegs
  /\ players' = ApplyMatchState(players, SnapshotLegs, match.raw)
  /\ waiting' = WaitingSlots
  /\ since' = since \cap {"late"}
  /\ UNCHANGED <<match, snapshots, identity>>

\* Everything derived is deleted and computed again in one transaction.
Reprocess ==
  /\ match # None
  /\ match' = [leg |-> match.raw.leg, finished |-> match.raw.finished, raw |-> match.raw]
  /\ legs' = SnapshotLegs
  /\ players' = ApplyMatchState([p \in Players |-> None], SnapshotLegs, match.raw)
  /\ waiting' = WaitingSlots
  /\ since' = since \cap {"late"}
  /\ UNCHANGED <<snapshots, identity>>

(* Administration *)

\* Faulty variant: the slot stays in the queue.
AssignKeepingSlot(s, x) ==
  /\ match # None
  /\ override' = [override EXCEPT ![s] = x]
  /\ since' = since \cup {"assign"}
  /\ UNCHANGED <<match, snapshots, legs, players, waiting, claim, protected>>

\* ResolvePending, first transaction: note the decision and drop the slot from the
\* queue.  The second transaction is Reprocess.
Assign(s, x) ==
  /\ match # None
  /\ override' = [override EXCEPT ![s] = x]
  /\ waiting' = waiting \ {s}
  /\ since' = since \cup {"assign"}
  /\ UNCHANGED <<match, snapshots, legs, players, claim, protected>>

\* adminProtect
Protect(p, on) ==
  /\ protected' = IF on THEN protected \cup {p} ELSE protected \ {p}
  /\ UNCHANGED <<tables, claim, override>>
  /\ since' = since \cup {"protect"}

\* adminAddAlias: the alias a guest plays under now leads to player p.
MoveAlias(s, p) ==
  /\ s \in Guests /\ claim[s] # Bot
  /\ claim' = [claim EXCEPT ![s] = p]
  /\ UNCHANGED <<tables, protected, override>>
  /\ since' = since \cup {"alias"}

HasAccount(p) == \E s \in Slots \ Guests : claim[s] = p

\* adminMerge: all rows of player a become rows of b; where b has a row already, a's
\* row is deleted, and legs_played is left as it is.  (Two accounts merged into one are
\* not modelled here: b keeps its account, and the slot playing under a's would lead to a
\* new player.  A deleted name may be created again and be assigned to.)
Merge(a, b) ==
  LET moved(x) == IF x = a THEN b ELSE x
      kept == {row \in legs : \/ row.player # a
                              \/ ~\E o \in legs : o.player = b /\ o.leg = row.leg}
  IN /\ a # b
     /\ ~(HasAccount(a) /\ HasAccount(b))
     /\ players' = [players EXCEPT ![a] = None,
                                   ![b] = IF @ = None THEN players[a] ELSE @]
     /\ legs' = {[leg |-> row.leg, player |-> moved(row.player), won |-> row.won] : row \in kept}
     /\ claim' = [s \in Slots |-> moved(claim[s])]
     /\ override' = [s \in Slots |-> moved(override[s])]
     /\ protected' = protected \ {a}
     /\ UNCHANGED <<match, snapshots, waiting>>
     /\ since' = since \cup {"merge"}

Administer ==
  \/ \E s \in Slots, x \in Players \cup {Ignored} : Assign(s, x)
  \/ \E p \in Players, on \in BOOLEAN : Protect(p, on)
  \/ \E s \in Slots, p \in Players : MoveAlias(s, p)
  \/ \E a, b \in Players : Merge(a, b)

Next == (\E r \in Reports : HandleEvent(r)) \/ Reprocess \/ Administer

Spec == Init /\ [][Next]_vars

-----------------------------------------------------------------------------
(* Properties *)

\* Every table has its columns' types.
TypeOK ==
  /\ match \in MatchRow \cup {None}
  /\ snapshots \in [LegIds -> Reports \cup {None}]
  /\ legs \subseteq LegRow
  /\ players \in [Players -> PlayerRow \cup {None}]
  /\ waiting \subseteq Slots
  /\ claim \in [Slots -> Players \cup {Bot}]
  /\ protected \subseteq Players
  /\ override \in [Slots -> Players \cup {Ignored, None}]
  /\ since \subseteq {"late"} \cup AdminKinds

\* Whatever arrives in whatever order, and whatever is reprocessed: the stored
\* progress (set, leg) of the match never goes back (ingest.go 164-166).
ProgressMonotone ==
  [][match # None => match' # None /\ ~Before(match'.leg, match.leg)]_vars

\* "Ein nachtraeglich eintreffender alter Stand darf das Ergebnis nicht veraendern"
\* (ingest_test.go 127): a match that ended never becomes a running one, and a running
\* state that arrives late changes none of the tables.
FinishedSticks ==
  [][match # None /\ match.finished =>
       /\ match'.finished /\ (match'.raw # match.raw => match'.raw.finished)
       /\ \A r \in Reports : HandleEvent(r) /\ ~r.finished => UNCHANGED tables]_vars

\* A player with a leg in match_legs has a row in match_players: no leg is
\* orphaned by a slot changing hands, a merge or a rebuild.
LegRowsHavePlayer == \A row \in legs : players[row.player] # None

\* The derived counter agrees with the rows it is derived from ("kommen aus
\* match_legs, damit sie konsistent bleiben", ingest.go 274); only adminMerge moves rows
\* without counting again.
LegsPlayedExact ==
  "merge" \notin since =>
    \A p \in Players : players[p] # None => players[p].legsPlayed = LegsPlayed(legs, p)

\* All rows of a leg stem from one payload: no player twice, not two winners,
\* although payloads of the same leg are archived up to three times.
OneBookingPerLeg ==
  \A x, y \in legs : x.leg = y.leg /\ (x.player = y.player \/ (x.won /\ y.won)) => x = y

\* No match has two winners, once a reassignment of its slots has been settled by a
\* rebuild (ResolvePending recomputes the match after it has assigned the slot).
OneMatchWinner ==
  since \cap AdminKinds = {} => \A p, q \in Players :
    players[p] # None /\ players[q] # None /\ players[p].won /\ players[q].won => p = q

\* A slot an administrator assigned counts for that player once the second transaction
\* of ResolvePending is through, whatever arrives before, between and after the two.
AssignedSlotCounts ==
  match # None /\ "assign" \notin since =>
    \A s \in Slots : override[s] \in Players /\ claim[s] # Bot => players[override[s]] # None

\* A slot waiting for approval counts for nobody ("landen in der Freigabe-Queue und
\* zaehlen erst nach Zuordnung", README 101-102), unless protection, an alias or a merge
\* put it there after it had counted already and no rebuild has happened since.
WaitingSlotsDoNotCount ==
  since \cap {"protect", "alias", "merge"} = {} =>
    \A p \in Players : players[p] # None => players[p].index \notin waiting

\* Every leg in match_legs has its archived leg end in match_snapshots ("wird der
\* vorige Stand als Leg-Endstand archiviert und daraus match_legs berechnet",
\* README 78-80).
BookedLegsAreArchived ==
  \A row \in legs : /\ snapshots[row.leg] # None
                    /\ snapshots[row.leg].legWinner \in Slots

\* The tables kept up to date event by event are the ones a rebuild from the archived
\* payloads yields: reprocessing never loses or invents a leg, a player or a slot, as long
\* as nobody intervened since the last rebuild and no leg's end was taken back.
RebuildChangesNothing ==
  match # None /\ since = {} =>
    /\ legs = SnapshotLegs
    /\ players = ApplyMatchState([p \in Players |-> None], SnapshotLegs, match.raw)
    /\ waiting = WaitingSlots

=============================================================================
